---------------------------- MODULE MCEquipment ----------------------------
(* A small instance of Equipment: two pets, two pieces for one slot, two    *)
(* free places in the bag.                                                  *)
EXTENDS Equipment, TLC

CONSTANTS r1, r2, r3, r4, ann, bob

MCRequests == {r1, r2, r3, r4}
MCPieces == 1..7
MCPets == {ann, bob}
MCSlot == [p \in MCPieces |-> "hand"]
MCOriginal == 1 :> [wearer |-> ann, level |-> 1] @@ 2 :> [wearer |-> NoPet, level |-> 2]
MCCanWear == ann :> MCPieces @@ bob :> {1}
MCMaterials == {"stone", "common", "rare", "scroll", "essence", "catalyst", "token", "rune", "meat"}
MCItems == [m \in MCMaterials |-> IF m \in {"rare", "scroll", "catalyst"} THEN 1 ELSE 2]
MCNeeds == [m \in MCMaterials |-> IF m = "essence" THEN 2 ELSE 1]
MCRefineTiers == <<[material |-> "common", maxLevel |-> 1], [material |-> "rare", maxLevel |-> 3]>>
MCOnFail == <<"material", "drop", "drop_or_break">>
MCRate == <<80, 50, 50>>

Ready == [active |-> TRUE, catalyst |-> TRUE, finishAt |-> 0]
MCJobs == {Ready}

Of(kind, ps, pet, flag) ==
    [kind |-> kind, pieces |-> ps, pet |-> pet, flag |-> flag, token |-> "token", gains |-> <<>>, runs |-> 0]
To(kind) == Of(kind, {}, NoPet, FALSE)
With(kind) == Of(kind, {}, NoPet, TRUE)

(* Two queues for the last place, and a place that becomes free. *)
Room == r1 :> To("box") @@ r2 :> To("box") @@ r3 :> To("claim")

Rune == [To("exchange") EXCEPT !.token = "rune"]
Hunt(n) == [To("hunt") EXCEPT !.runs = n, !.gains = <<"essence">>]

TwoBosses == r1 :> To("exchange") @@ r2 :> To("exchange") @@ r3 :> Rune @@ r4 :> Of("dismantle", {2}, NoPet, FALSE)

(* Prizes beside purchases. *)
Spoils == r1 :> [With("raid") EXCEPT !.gains = <<"rare">>] @@ r2 :> Hunt(1) @@ r3 :> Rune

Rewarded == r1 :> With("reward") @@ r2 :> [With("reward") EXCEPT !.gains = <<"catalyst">>] @@ r3 :> To("raid")

Hunting == r1 :> To("reward") @@ r2 :> To("reward") @@ r3 :> Hunt(2)

(* The ends of two pieces. *)
Smithy == r1 :> Of("dismantle", {1, 2}, NoPet, FALSE) @@ r2 :> Of("enhance", {2}, NoPet, TRUE)
            @@ r3 :> Of("dismantle", {2}, NoPet, FALSE) @@ r4 :> Of("unequip", {1}, ann, TRUE)

Anvil == r1 :> Of("enhance", {1}, NoPet, FALSE) @@ r2 :> Of("enhance", {2}, NoPet, FALSE)
            @@ r3 :> Of("equip", {2}, ann, FALSE) @@ r4 :> Of("enhance", {2}, NoPet, FALSE)

(* A pet that leaves while its gear is changed. *)
Leaving == r1 :> Of("explore", {}, ann, FALSE) @@ r2 :> Of("equip", {1}, bob, TRUE)
             @@ r3 :> Of("enhance", {1}, NoPet, FALSE) @@ r4 :> Of("collect", {}, ann, TRUE)

Refining == r1 :> Of("refine", {1}, NoPet, FALSE) @@ r2 :> Of("keep", {1}, NoPet, FALSE)
              @@ r3 :> Of("explore", {}, ann, FALSE) @@ r4 :> Of("discard", {1}, NoPet, FALSE)

(* The craft queue. *)
Crafting == r1 :> With("start") @@ r2 :> To("skip") @@ r3 :> To("claim")

Again == r1 :> To("claim") @@ r2 :> With("start") @@ r3 :> To("claim")

Shopping == r1 :> To("shop") @@ r2 :> Of("use", {}, ann, FALSE) @@ r3 :> To("costume")
              @@ r4 :> To("costume")

EveryPlan == {Room, TwoBosses, Spoils, Rewarded, Hunting, Smithy, Anvil, Leaving, Refining, Crafting, Again,
              Shopping}

Meeting == {r1 :> To("exchange") @@ r2 :> Rune @@ r3 :> Hunt(2)}

Workshop == {r1 :> Of("explore", {}, ann, FALSE) @@ r2 :> Of("enhance", {1}, NoPet, FALSE)}
=============================================================================
