----------------------------- MODULE WorldBoss -----------------------------
(***************************************************************************)
(* One week's world boss under concurrent attacks and claims:              *)
(* src/src/modules/monster/boss/world-boss.service.ts.                     *)
(*                                                                         *)
(* An attack locks the attacker's monster, then the week's boss row, then  *)
(* for a rented ally both players' wallets, and last the attacker's damage *)
(* row.  A claim reads the boss without a lock, locks the damage row, and  *)
(* last the wallet it pays into.  Every request is one READ COMMITTED      *)
(* transaction: it holds its locks to the end and nobody reads what it     *)
(* has not committed.  Nothing waits after the last lock, so taking it and *)
(* committing is one step.                                                 *)
(*                                                                         *)
(* Attacks of the next week go to another boss row and are not modelled;   *)
(* an attack that began in time may still commit after the week is over.   *)
(* The hits of one reset window are counted.                               *)
(***************************************************************************)
EXTENDS Integers, Sequences, FiniteSets, FiniteSetsExt

CONSTANTS
    Users,        \* user ids; numbers, because lockWallets sorts them
    Requests,
    Plan,         \* what each request is
    Discoverers,  \* the attacks whose tick discovers a new species
    Dealt,        \* what a fighter may deal, in the week's HP
    MaxHp, WORLD_BOSS_HITS, RENTAL_FEE, RENTAL_OWNER_DAILY_CAP,
    NoRequest, NoUser

ASSUME WorldBossAssumption ==
    /\ Users \subseteq Nat /\ IsFiniteSet(Users)
    /\ NoUser \notin Users
    /\ NoRequest \notin Requests
    /\ Plan \in [Requests -> [kind : {"attack", "claim"}, user : Users,
                              owner : Users \cup {NoUser}]]
    /\ \A r \in Requests : Plan[r].owner # Plan[r].user
    /\ Discoverers \subseteq Requests
    /\ Dealt \subseteq Nat
    /\ MaxHp \in Nat \ {0} /\ WORLD_BOSS_HITS \in Nat
    /\ RENTAL_FEE \in Nat /\ RENTAL_OWNER_DAILY_CAP \in Nat

VARIABLES
    pc,      \* where each request is
    late,    \* whether the week was over when the request captured `now`
    view,    \* the boss as the request has read it
    todo,    \* the wallets lockWallets has still to lock
    draft,   \* what the request will commit
    holder,  \* who holds each lock
    boss,    \* the committed boss row
    share,   \* the committed damage rows
    fights,  \* committed world boss battles of the window, from the log
    allied,  \* committed damage of rented allies
    earned,  \* rental fees of today, by owner
    paid,    \* the rewards each user was paid
    over     \* whether the week is over

requestVars == <<pc, late, view, todo, draft>>
tables == <<boss, share, fights, allied, earned, paid>>
vars == <<requestVars, holder, tables, over>>

Monster(u) == <<"monster", u>>
Wallet(u) == <<"wallet", u>>
Share(u) == <<"share", u>>
BossRow == <<"boss", NoUser>>

Resources ==
    {Monster(u) : u \in Users} \cup {Wallet(u) : u \in Users}
      \cup {Share(u) : u \in Users} \cup {BossRow}

Boss == [hp : 0..MaxHp, defeated : BOOLEAN, killer : Users \cup {NoUser}]

NewBoss == [hp |-> MaxHp, defeated |-> FALSE, killer |-> NoUser]

Reward == [rank : Nat \ {0}, hits : Nat, defeated : BOOLEAN, isKillingBlow : BOOLEAN]

Strike == [own : 0..MaxHp, ally : 0..MaxHp, slain : BOOLEAN, fee : 0..RENTAL_FEE]

NoDraft == <<>>

User(r) == Plan[r].user
Owner(r) == Plan[r].owner
HasAlly(r) == Owner(r) # NoUser

Ended == {"committed", "rolledBack"}
Open(r) == pc[r] \notin {"idle", "begun"} \cup Ended

TypeOK ==
    /\ pc \in [Requests -> {"idle", "begun", "ticking", "ticked", "counted", "facing", "fought",
                            "claiming", "sharing", "assessed"} \cup Ended]
    /\ late \in [Requests -> BOOLEAN]
    /\ view \in [Requests -> Boss]
    /\ todo \in [Requests -> SUBSET Users]
    /\ DOMAIN draft = Requests
    /\ \A r \in Requests :
          draft[r] \in CASE pc[r] = "fought"   -> Strike
                         [] pc[r] = "assessed" -> Reward
                         [] OTHER              -> {NoDraft}
    /\ holder \in [Resources -> Requests \cup {NoRequest}]
    /\ boss \in Boss
    /\ share \in [Users -> [damage : 0..MaxHp, hits : Nat, claimed : BOOLEAN]]
    /\ fights \in [Users -> Nat]
    /\ allied \in 0..MaxHp
    /\ earned \in [Users -> Nat]
    /\ paid \in [Users -> Seq(Reward)]
    /\ over \in BOOLEAN

---------------------------------------------------------------------------

Init ==
    /\ pc = [r \in Requests |-> "idle"]
    /\ late = [r \in Requests |-> FALSE]
    /\ view = [r \in Requests |-> NewBoss]
    /\ todo = [r \in Requests |-> {}]
    /\ draft = [r \in Requests |-> NoDraft]
    /\ holder = [x \in Resources |-> NoRequest]
    /\ boss = NewBoss
    /\ share = [u \in Users |-> [damage |-> 0, hits |-> 0, claimed |-> FALSE]]
    /\ fights = [u \in Users |-> 0]
    /\ allied = 0
    /\ earned = [u \in Users |-> 0]
    /\ paid = [u \in Users |-> <<>>]
    /\ over = FALSE

WeekEnds ==
    /\ ~over
    /\ over' = TRUE
    /\ UNCHANGED <<requestVars, holder, tables>>

(* A bug this module is checked against: the boss read without FOR UPDATE. *)
FreeBoss(x, r) == x = BossRow \/ holder[x] \in {NoRequest, r}

Free(x, r) == holder[x] \in {NoRequest, r}

Goes(r, where) == pc' = [pc EXCEPT ![r] = where]

Take(x, r) == Free(x, r) /\ holder' = [holder EXCEPT ![x] = r]

(* A bug: a transaction that is never ended. *)
ReleaseNothing(r) == UNCHANGED holder

Release(r) ==
    holder' = [x \in Resources |-> IF holder[x] = r THEN NoRequest ELSE holder[x]]

(* The week's boss is looked up by `now`, so an attack begins in its week. *)
Begin(r) ==
    /\ pc[r] = "idle"
    /\ Plan[r].kind = "attack" => ~over
    /\ late' = [late EXCEPT ![r] = over]
    /\ Goes(r, "begun")
    /\ UNCHANGED <<view, todo, draft, holder, tables, over>>

---------------------------------------------------------------------------
(* attack()                                                                *)

(* lockAndTickLatest: the tick may discover a species, which pays a gem    *)
(* into the player's own wallet (saveEvents).                              *)
LockMonster(r) ==
    /\ Plan[r].kind = "attack"
    /\ pc[r] = "begun"
    /\ Take(Monster(User(r)), r)
    /\ Goes(r, IF r \in Discoverers THEN "ticking" ELSE "ticked")
    /\ UNCHANGED <<late, view, todo, draft, tables, over>>

PayDiscovery(r) ==
    /\ pc[r] = "ticking"
    /\ Take(Wallet(User(r)), r)
    /\ Goes(r, "ticked")
    /\ UNCHANGED <<late, view, todo, draft, tables, over>>

HasHitsLeft(r) == fights[User(r)] < WORLD_BOSS_HITS

(* The hits of the window are counted before the boss is locked. *)
CountHits(r) ==
    /\ pc[r] = "ticked"
    /\ HasHitsLeft(r)
    /\ Goes(r, "counted")
    /\ UNCHANGED <<late, view, todo, draft, holder, tables, over>>

LockBoss(r) ==
    /\ pc[r] = "counted"
    /\ Take(BossRow, r)
    /\ view' = [view EXCEPT ![r] = boss]
    /\ todo' = [todo EXCEPT ![r] = IF HasAlly(r) THEN {User(r), Owner(r)} ELSE {}]
    /\ Goes(r, "facing")
    /\ UNCHANGED <<late, draft, tables, over>>

(* isEnded: the week cannot be over at the `now` of an attack (Begin). *)
IsActive(r) == ~view[r].defeated

(* rentAlly locks both wallets, in user-id order. *)
IsNextToLock(r, u) == u \in todo[r] /\ \A v \in todo[r] : u <= v

LockWallet(r, u) ==
    /\ pc[r] = "facing"
    /\ IsActive(r)
    /\ IsNextToLock(r, u)
    /\ Take(Wallet(u), r)
    /\ todo' = [todo EXCEPT ![r] = @ \ {u}]
    /\ UNCHANGED <<pc, late, view, draft, tables, over>>

AtLeast0(n) == IF n < 0 THEN 0 ELSE n
AtMost(n, limit) == IF n > limit THEN limit ELSE n

(* A bug: the fee whatever the owner has earned today. *)
UncappedFee(u) == RENTAL_FEE

(* calcRentalFee, from the rentals committed so far. *)
RentalFee(u) == AtLeast0(AtMost(RENTAL_FEE, RENTAL_OWNER_DAILY_CAP - earned[u]))

(* A bug: own damage as it was dealt, also by the blow that kills. *)
SplitDamageAsDealt(hp, own, ally, slain) ==
    LET limit == IF slain THEN hp ELSE hp - 1
        mine == AtMost(own, limit)
    IN [own |-> mine, ally |-> AtMost(ally, limit - mine)]

(* splitWorldBossDamage: all of the HP when the fight killed the boss, and *)
(* never all of it when it did not.                                        *)
SplitDamage(hp, own, ally, slain) ==
    LET limit == IF slain THEN hp ELSE hp - 1
        mine == AtMost(own, limit)
        helped == AtMost(ally, limit - mine)
    IN [own |-> IF slain THEN hp - helped ELSE mine, ally |-> helped]

(* The arena fight.  Its damage is scaled to the week's HP and rounded per *)
(* fighter, so a kill may look one point short; a boss that shields or     *)
(* heals survives more than its HP.                                        *)
Fight(r) ==
    /\ pc[r] = "facing"
    /\ IsActive(r)
    /\ todo[r] = {}
    /\ \E own \in Dealt, ally \in IF HasAlly(r) THEN Dealt ELSE {0}, slain \in BOOLEAN :
          /\ slain => own + ally + 1 >= view[r].hp
          /\ LET split == SplitDamage(view[r].hp, own, ally, slain) IN
             draft' = [draft EXCEPT ![r] =
                 [own |-> split.own, ally |-> split.ally, slain |-> slain,
                  fee |-> IF HasAlly(r) THEN RentalFee(Owner(r)) ELSE 0]]
    /\ Goes(r, "fought")
    /\ UNCHANGED <<late, view, todo, holder, tables, over>>

(* Everything an attack writes: the boss as it saw it less the damage, its *)
(* damage row (an upsert, which waits for the row), the rental, the log.   *)
CommitAttack(r) ==
    /\ pc[r] = "fought"
    /\ Free(Share(User(r)), r)
    /\ LET d == draft[r] IN
         /\ boss' = [hp |-> IF d.slain THEN 0 ELSE view[r].hp - d.own - d.ally,
                     defeated |-> view[r].defeated \/ d.slain,
                     killer |-> IF d.slain THEN User(r) ELSE view[r].killer]
         /\ share' = [share EXCEPT ![User(r)].damage = @ + d.own, ![User(r)].hits = @ + 1]
         /\ allied' = allied + d.ally
         /\ earned' = IF HasAlly(r) THEN [earned EXCEPT ![Owner(r)] = @ + d.fee] ELSE earned
    /\ fights' = [fights EXCEPT ![User(r)] = @ + 1]
    /\ draft' = [draft EXCEPT ![r] = NoDraft]
    /\ Goes(r, "committed")
    /\ Release(r)
    /\ UNCHANGED <<late, view, todo, paid, over>>

---------------------------------------------------------------------------
(* claim()                                                                 *)

IsEnded(b, isLate) == b.defeated \/ isLate

ReadBoss(r) ==
    /\ Plan[r].kind = "claim"
    /\ pc[r] = "begun"
    /\ view' = [view EXCEPT ![r] = boss]
    /\ Goes(r, "claiming")
    /\ UNCHANGED <<late, todo, draft, holder, tables, over>>

(* There is a row once the user has hit the boss. *)
CanClaim(s) == s.hits > 0 /\ ~s.claimed

LockShare(r) ==
    /\ pc[r] = "claiming"
    /\ IsEnded(view[r], late[r])
    /\ share[User(r)].hits > 0
    /\ Take(Share(User(r)), r)
    /\ Goes(r, "sharing")
    /\ UNCHANGED <<late, view, todo, draft, tables, over>>

RankOf(u) == 1 + Cardinality({v \in Users : share[v].damage > share[u].damage})

(* previewReward, from the boss read before the row was locked. *)
RewardOf(r) ==
    [rank |-> RankOf(User(r)), hits |-> share[User(r)].hits,
     defeated |-> view[r].defeated, isKillingBlow |-> view[r].killer = User(r)]

Assess(r) ==
    /\ pc[r] = "sharing"
    /\ CanClaim(share[User(r)])
    /\ draft' = [draft EXCEPT ![r] = RewardOf(r)]
    /\ Goes(r, "assessed")
    /\ UNCHANGED <<late, view, todo, holder, tables, over>>

(* The row is marked, then the coins and tokens go into the wallet. *)
CommitClaim(r) ==
    /\ pc[r] = "assessed"
    /\ CanClaim(share[User(r)])
    /\ Free(Wallet(User(r)), r)
    /\ share' = [share EXCEPT ![User(r)].claimed = TRUE]
    /\ paid' = [paid EXCEPT ![User(r)] = Append(@, draft[r])]
    /\ draft' = [draft EXCEPT ![r] = NoDraft]
    /\ Goes(r, "committed")
    /\ Release(r)
    /\ UNCHANGED <<late, view, todo, boss, fights, allied, earned, over>>

---------------------------------------------------------------------------

Undo(r) ==
    /\ draft' = [draft EXCEPT ![r] = NoDraft]
    /\ Goes(r, "rolledBack")
    /\ Release(r)
    /\ UNCHANGED <<late, view, todo, tables, over>>

(* No hits left, the boss has fallen, the boss still stands, nothing to    *)
(* claim, already claimed.                                                 *)
Refuse(r) ==
    /\ \/ pc[r] = "ticked" /\ ~HasHitsLeft(r)
       \/ pc[r] = "facing" /\ ~IsActive(r)
       \/ pc[r] = "claiming" /\ (~IsEnded(view[r], late[r]) \/ share[User(r)].hits = 0)
       \/ pc[r] = "sharing" /\ ~CanClaim(share[User(r)])
    /\ Undo(r)

(* A rule refuses the monster, the renter is short of coins, the bag is    *)
(* full, or the process dies.                                              *)
Fail(r) == Open(r) /\ Undo(r)

(* What r is waiting for. *)
Wanted(r) ==
    CASE pc[r] = "begun" /\ Plan[r].kind = "attack" -> {Monster(User(r))}
      [] pc[r] = "ticking"  -> {Wallet(User(r))}
      [] pc[r] = "counted" -> {BossRow}
      [] pc[r] = "facing" /\ IsActive(r) -> {Wallet(u) : u \in {v \in todo[r] : IsNextToLock(r, v)}}
      [] pc[r] = "fought"   -> {Share(User(r))}
      [] pc[r] = "claiming" /\ IsEnded(view[r], late[r]) -> {Share(User(r))}
      [] pc[r] = "assessed" -> {Wallet(User(r))}
      [] OTHER -> {}

Blocks(s, r) == s # r /\ \E x \in Wanted(r) : holder[x] = s

Waiting == {r \in Requests : \E x \in Wanted(r) : ~Free(x, r)}

(* Sets of requests each of which waits for another one of the set. *)
Circles == {D \in SUBSET Waiting : \A r \in D : \E s \in D : Blocks(s, r)}

(* The database breaks a circular wait by failing one of its requests.     *)
DeadlockVictim(r) == r \in UNION Circles /\ Undo(r)

Step(r) ==
    \/ Begin(r)
    \/ LockMonster(r) \/ PayDiscovery(r) \/ CountHits(r) \/ LockBoss(r)
    \/ \E u \in Users : LockWallet(r, u)
    \/ Fight(r) \/ CommitAttack(r)
    \/ ReadBoss(r) \/ LockShare(r) \/ Assess(r) \/ CommitClaim(r)
    \/ Refuse(r)
    \/ DeadlockVictim(r)

Next == WeekEnds \/ \E r \in Requests : Step(r) \/ Fail(r)

Spec == Init /\ [][Next]_vars

(* The runtime runs every request on, and the database grants a free lock. *)
Fairness == \A r \in Requests : WF_vars(Step(r))

FairSpec == Spec /\ Fairness

---------------------------------------------------------------------------

(* "the damage recorded is exactly what the boss lost, however many attack *)
(* at once" (world-boss.service.ts:170-171), and the boss has fallen, to   *)
(* one killer, just when nothing is left of it.                            *)
DamageAddsUp ==
    /\ boss.hp + allied + SumFunction([u \in Users |-> share[u].damage]) = MaxHp
    /\ boss.defeated <=> boss.hp = 0
    /\ boss.defeated <=> boss.killer # NoUser

(* The hits of a window are not overspent by parallel requests             *)
(* (daily-fights.ts:16-17), and each one that counts is paid as one.       *)
HitsWithinLimit ==
    \A u \in Users : fights[u] <= WORLD_BOSS_HITS /\ share[u].hits = fights[u]

(* Every hit that a player spent is in the damage rows, and in what the     *)
(* boss lost.                                                              *)
EveryHitCounts == DamageAddsUp /\ HitsWithinLimit

(* An owner never earns more than a day's cap, however many friends rent   *)
(* the unit at once (world-boss.service.ts:274-283).                       *)
EarningsWithinCap == \A u \in Users : earned[u] <= RENTAL_OWNER_DAILY_CAP

(* "the week's rewards are claimed once, after the week ends or the boss   *)
(* falls" (world-boss-damage.entity.ts:6-7).                               *)
ClaimedOnce ==
    \A u \in Users :
        /\ Len(paid[u]) = IF share[u].claimed THEN 1 ELSE 0
        /\ share[u].claimed => boss.defeated \/ over

(* What is paid for a fallen boss is final: no attack that was under way   *)
(* changes the rank, the hits or the killer it was worked out from.        *)
FallenClaimsAreFinal ==
    \A u \in Users : \A i \in 1..Len(paid[u]) :
        paid[u][i].defeated =>
            /\ paid[u][i].rank = RankOf(u)
            /\ paid[u][i].hits = share[u].hits
            /\ paid[u][i].isKillingBlow <=> boss.killer = u

(* A claim is paid once, and for good. *)
ClaimsAreFinal == ClaimedOnce /\ FallenClaimsAreFinal

(* Requests never wait for each other in a circle: "two players renting    *)
(* from each other at the same moment wait for each other"                 *)
(* (world-boss.service.ts:274-275).                                        *)
NoCircularWait == Circles = {{}}

(* Every request that has begun is answered, also when requests wait for   *)
(* each other in a circle.                                                 *)
EveryRequestEnds == \A r \in Requests : pc[r] # "idle" ~> pc[r] \in Ended
=============================================================================
