---------------------------- MODULE MCWorldBoss ----------------------------
(* Small instances of WorldBoss: attacks and claims around the fall of the *)
(* boss and the end of the week, and friends who rent from each other.     *)
(* `crowd` is the set of requests that come in this behaviour.             *)
EXTENDS WorldBoss

CONSTANTS rentAB, rentBA, rentCB, attackA, claimA, againA, Crowds

VARIABLE crowd

MCUsers == {1, 2, 3}

Attack(u, owner) == [kind |-> "attack", user |-> u, owner |-> owner]
Claim(u) == [kind |-> "claim", user |-> u, owner |-> NoUser]

MCRequests == {rentAB, rentBA, rentCB, attackA, claimA, againA}

MCPlan ==
    [r \in MCRequests |->
        CASE r = rentAB  -> Attack(1, 2)
          [] r = rentBA  -> Attack(2, 1)
          [] r = rentCB  -> Attack(3, 2)
          [] r = attackA -> Attack(1, NoUser)
          [] OTHER       -> Claim(1)]

(* Two rentals of one owner, and a player with one hit who attacks twice   *)
(* and claims twice.                                                       *)
Raid == {rentAB, rentCB, attackA, claimA, againA}

(* "two friends rent from each other at the same time"                     *)
(* (social.int-spec.ts:311), a third rents from one of them, and a claim.  *)
Friends == {rentAB, rentBA, rentCB, claimA}

Rentals == {rentAB, rentBA}

RaidAndFriends == {Raid, Friends}
OnlyRentals == {Rentals}

Hits == {1, 2}

CrowdInit == Init /\ crowd \in Crowds

CrowdNext ==
    /\ WeekEnds \/ \E r \in crowd : Step(r) \/ Fail(r)
    /\ UNCHANGED crowd

CrowdSpec == CrowdInit /\ [][CrowdNext]_<<vars, crowd>>

(* The runtime runs the friends' requests on. *)
FairCrowds == CrowdSpec /\ \A r \in Friends : WF_vars(crowd = Friends /\ Step(r))

(* Friends who rent from each other while one claims are all answered, also *)
(* when they wait for each other in a circle (social.int-spec.ts:311 "does  *)
(* not deadlock when two friends rent from each other at the same time").   *)
FriendsAreAnswered == crowd = Friends => EveryRequestEnds
=============================================================================
