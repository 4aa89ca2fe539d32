---------------------------- MODULE Play_proofs ----------------------------
(***************************************************************************)
(* Theorems about the parts of the game that players share, for every       *)
(* number of players, friendships and requests and every value of the       *)
(* limits and rewards.  A behaviour of Play is about one part, named by     *)
(* `live`; each section proves the inductive invariant of one part, and the *)
(* last one carries it to Play.                                             *)
(*                                                                          *)
(* Friends.  FriendInv says what a request has established when it is at a  *)
(* step: the friendship it read is still between the same two, the rows it  *)
(* counts on are locked by it, and what it counted is still below the       *)
(* limit.  The promises of FriendGraph are then kept step by step.          *)
(*                                                                          *)
(* Stages.  StageInv says which lock protects a fight between its checks    *)
(* and its writes, and StageSafe that the clears, the raids, the tokens and *)
(* the stamina are what the committed requests made of the opening ones.    *)
(*                                                                          *)
(* Quests.  QuestInv says that what a request has written but not committed *)
(* is of the rows it holds, made from what they still are, and that a login *)
(* claim's run of days stays without a gap; QuestSafe adds the promises.    *)
(*                                                                          *)
(* Ladder and goods: see LadderAndGoods_proofs.                             *)
(*                                                                          *)
(* Who waits for whom.  In a circle everyone has locked what the last one   *)
(* wants.  Where the rows are locked in an order, what is wanted rises from *)
(* each to the next, which no finite circle does (NoEndlessRise); gifts are *)
(* not ordered, and their circles are followed to three different ones.     *)
(***************************************************************************)
EXTENDS LadderAndGoods_proofs, FiniteSetTheorems, SequenceTheorems, TLAPS

---------------------------------------------------------------------------
(*                                 Friends                                  *)

(* What FriendGraph takes from the libraries is what the proofs take.      *)
LEMMA FriendSame ==
    /\ \A S : Friends!Cardinality(S) = Cardinality(S) /\ (Friends!IsFiniteSet(S) <=> IsFiniteSet(S))
    /\ \A f : Friends!SumFunction(f) = SumFunction(f)
  <1>1. \A S : Friends!Cardinality(S) = Cardinality(S)
    BY DEF Friends!Cardinality, Cardinality
  <1>2. \A S : Friends!IsFiniteSet(S) <=> IsFiniteSet(S)
    BY DEF Friends!IsFiniteSet, IsFiniteSet
  <1>3. \A f : Friends!SumFunction(f) = SumFunction(f)
    BY DEF Friends!SumFunction, Friends!SumFunctionOnSet, Friends!FoldFunctionOnSet,
           Friends!MapThenFoldSet, SumFunction, SumFunctionOnSet, FoldFunctionOnSet, MapThenFoldSet
  <1> QED BY <1>1, <1>2, <1>3

StageOK(r) ==
    /\ pc[r] \in {"meeting", "met", "asking", "welcome", "inserting"} =>
          Friends!Kind(r) = "request" \/ (Friends!Kind(r) = "remove" /\ pc[r] = "met")
    /\ pc[r] = "holding" => Friends!Kind(r) \in {"accept", "decline", "greet", "gift", "rent"}
    /\ pc[r] = "counted" => Friends!Kind(r) \in {"accept", "greet", "gift"}
    /\ pc[r] = "spent" => Friends!Kind(r) = "gift"
    /\ now[r] <= began[r]

TargetOK(r) ==
    /\ target[r] # NoRelation => rel[target[r]].pair = Friends!Pair(r)
    /\ target[r] = NoRelation =>
          \/ pc[r] = "idle"
          \/ Friends!Kind(r) = "request" /\ pc[r] \notin {"meeting", "met"}
          \/ Friends!Kind(r) = "rent" /\ pc[r] \in {"begun", "rolledBack"}
    /\ \/ Friends!Kind(r) = "request" /\ pc[r] \in {"meeting", "met"}
       \/ Friends!Kind(r) = "accept" /\ pc[r] \in {"holding", "counted"}
       => rel[target[r]].by # Friends!User(r)

Holds(r, x) == holder[x] = r
LocksOK(r) ==
    pc[r] \in {"holding", "counted", "spent"} =>
        /\ Friends!Kind(r) # "rent" => Holds(r, Friends!Row(target[r]))
        /\ Friends!Kind(r) = "gift" => Holds(r, Friends!Sender(Friends!User(r)))
        /\ pc[r] = "spent" => Holds(r, Friends!Bag(Friends!User(r)))

AskedOK(r) ==
    /\ Friends!Kind(r) = "request" /\ pc[r] = "committed" =>
          \E i \in Relations : /\ rel[i].pair = Friends!Pair(r)
                               /\ rel[i].accepted \/ rel[i].deleted \/ rel[i].by = Friends!User(r)
    /\ attempt[r] = 2 => \E i \in Relations : rel[i].pair = Friends!Pair(r)
    /\ attempt[r] = 2 /\ pc[r] \in {"asking", "welcome", "inserting"} =>
          \E i \in Relations : rel[i].pair = Friends!Pair(r) /\ rel[i].deleted

CountOK(r) ==
    /\ Friends!Kind(r) = "greet" /\ pc[r] = "counted" => Friends!GreetedToday(r) < GREETS_PER_DAY_PER_FRIEND
    /\ Friends!Kind(r) = "gift" /\ pc[r] \in {"counted", "spent"} => Friends!GiftsToday(r) < GIFTS_PER_DAY

BagOK(r) == pc[r] = "spent" => bag[Friends!User(r)] >= 1

SeenOK(r) ==
    Friends!Kind(r) \in {"greet", "gift"} /\ pc[r] \in {"holding", "counted", "spent"} =>
        seen[r] = rel[target[r]].points

FriendStages == \A r \in DOMAIN plan : StageOK(r)
FriendTargets == \A r \in DOMAIN plan : TargetOK(r)
FriendLocks == \A r \in DOMAIN plan : LocksOK(r)
FriendAsked == \A r \in DOMAIN plan : AskedOK(r)
FriendCounts == \A r \in DOMAIN plan : CountOK(r)
FriendBags == \A r \in DOMAIN plan : BagOK(r)
FriendSeen == \A r \in DOMAIN plan : SeenOK(r)

FriendRows ==
    /\ \A i \in Relations : rel[i].pair = {} => rel[i] = Friends!Unborn /\ i \notin DOMAIN Founded
    /\ \A i, j \in Relations : Friends!IsLive(i) /\ Friends!IsLive(j) /\ rel[i].pair = rel[j].pair => i = j

FriendLog ==
    /\ IsFiniteSet(log)
    /\ \A e \in log : /\ e.id \in DOMAIN plan /\ pc[e.id] = "committed" /\ e = Friends!Logged(e.id)
                      /\ Friends!Kind(e.id) \in {"greet", "gift", "rent"}

FriendInv ==
    /\ Friends!TypeOK /\ FriendStages /\ FriendRows /\ FriendTargets /\ FriendLocks
    /\ FriendAsked /\ FriendLog /\ FriendCounts /\ FriendBags /\ FriendSeen

FriendAlone(r) ==
    /\ plan' = plan /\ day' = day
    /\ \A s \in Requests \ {r} :
          /\ pc'[s] = pc[s] /\ attempt'[s] = attempt[s] /\ target'[s] = target[s]
          /\ now'[s] = now[s] /\ began'[s] = began[s] /\ seen'[s] = seen[s]
          /\ \A x \in Friends!Resources : Holds(s, x) => holder'[x] = s

FriendControl ==
    /\ plan \in FriendPlans
    /\ pc \in [Requests -> {"idle", "begun", "meeting", "met", "asking", "welcome", "inserting",
                            "holding", "counted", "spent"} \cup Friends!Ended]
    /\ attempt \in [Requests -> 1..2]
    /\ now \in [Requests -> Friends!Days]
    /\ began \in [Requests -> Friends!Days]
    /\ target \in [Requests -> Relations \cup {NoRelation}]
    /\ seen \in [Requests -> Nat]
    /\ holder \in [Friends!Resources -> Requests \cup {NoRequest}]
    /\ day \in Friends!Days
FriendTables ==
    /\ rel \in [Relations -> Friends!Relation]
    /\ bag \in [Users -> Int]
    /\ log \subseteq Friends!Interaction

LEMMA FriendTypesAre == Friends!TypeOK <=> FriendControl /\ FriendTables
  BY DEF Friends!TypeOK, FriendControl, FriendTables
LEMMA FriendTypesAreNext == Friends!TypeOK' <=> FriendControl' /\ FriendTables'
  BY DEF Friends!TypeOK, FriendControl, FriendTables

FriendUndo(r) == pc[r] \notin {"idle"} \cup Friends!Ended /\ Friends!Undo(r)

FriendDoes(r) ==
    \/ Friends!Begin(r) \/ Friends!Look(r) \/ Friends!CountSlots(r) \/ Friends!CountWaiting(r) \/ Friends!Meet(r) \/ Friends!Insert(r) \/ Friends!LoseRace(r) 
    \/ Friends!LockPending(r) \/ Friends!CountFriends(r) \/ Friends!Accept(r) \/ Friends!Decline(r) \/ Friends!FindToRemove(r) \/ Friends!Remove(r) \/ Friends!LockSender(r) \/ Friends!LockFriendship(r) \/ Friends!CountGreets(r) 
    \/ Friends!Greet(r) \/ Friends!CountGifts(r) \/ Friends!Spend(r) \/ Friends!Deliver(r) \/ Friends!FindFriend(r) \/ Friends!Rent(r) \/ FriendUndo(r)

LEMMA FriendActs ==
    ASSUME NEW r \in DOMAIN plan, Friends!Step(r) \/ Friends!Fail(r)
    PROVE  FriendDoes(r)
  <1>1. ASSUME Friends!Refuse(r) PROVE FriendUndo(r)
    BY <1>1 DEF Friends!Refuse, FriendUndo, Friends!Ended
  <1>2. ASSUME Friends!DeadlockVictim(r) PROVE FriendUndo(r)
    <2>1. Friends!Undo(r) /\ Friends!Wanted(r) # {}
      BY <1>2 DEF Friends!DeadlockVictim, Friends!Circles, Friends!Waiting
    <2>2. pc[r] \notin {"idle"} \cup Friends!Ended
      BY <2>1 DEF Friends!Wanted, Friends!Ended
    <2> QED BY <2>1, <2>2 DEF FriendUndo
  <1>3. ASSUME Friends!Fail(r) PROVE FriendUndo(r)
    BY <1>3 DEF Friends!Fail, FriendUndo
  <1> QED BY <1>1, <1>2, <1>3 DEF Friends!Step, FriendDoes

LEMMA FriendRequests ==
    ASSUME plan \in FriendPlans, NEW r \in DOMAIN plan
    PROVE  /\ r \in Requests /\ r # NoRequest
           /\ Friends!Kind(r) \in Friends!Kinds /\ Friends!User(r) \in Users /\ Friends!Friend(r) \in Users /\ Friends!User(r) # Friends!Friend(r)
           /\ Friends!Pair(r) = {Friends!User(r), Friends!Friend(r)} /\ Friends!Pair(r) # {} /\ Friends!Pair(r) \subseteq Users
  BY FriendParameters DEF Friends!FriendAssumption, Friends!Kind, Friends!User, Friends!Friend, Friends!Pair

LEMMA FriendReleases ==
    ASSUME holder \in [Friends!Resources -> Requests \cup {NoRequest}], NEW r, Friends!Release(r)
    PROVE  /\ holder' \in [Friends!Resources -> Requests \cup {NoRequest}]
           /\ \A s \in Requests \ {r}, x \in Friends!Resources : Holds(s, x) => holder'[x] = s
  BY DEF Friends!Release, Holds

LEMMA FriendTakes ==
    ASSUME holder \in [Friends!Resources -> Requests \cup {NoRequest}], NEW r \in Requests, NEW y \in Friends!Resources, Friends!Take(y, r)
    PROVE  /\ holder' \in [Friends!Resources -> Requests \cup {NoRequest}] /\ Holds(r, y)'
           /\ \A s \in Requests, x \in Friends!Resources : Holds(s, x) => holder'[x] = s
  BY FriendParameters DEF Friends!Take, Holds, Friends!Free, Friends!FriendAssumption

LEMMA FriendEnds ==
    ASSUME FriendControl, NEW r \in DOMAIN plan, r \in Requests, Friends!End(r)
    PROVE  FriendControl' /\ FriendAlone(r)
  <1>1. /\ holder' \in [Friends!Resources -> Requests \cup {NoRequest}]
        /\ \A s \in Requests \ {r}, x \in Friends!Resources : Holds(s, x) => holder'[x] = s
    BY FriendReleases DEF FriendControl, Friends!End
  <1>2. pc' = [pc EXCEPT ![r] = "committed"] /\ UNCHANGED <<plan, attempt, now, began, target, seen, day>>
    BY DEF Friends!End, Friends!Goes
  <1> QED BY <1>1, <1>2 DEF FriendControl, FriendAlone, Friends!Ended

LEMMA FriendUndoes ==
    ASSUME FriendControl, NEW r \in DOMAIN plan, r \in Requests, Friends!Undo(r)
    PROVE  FriendControl' /\ FriendAlone(r)
  <1>1. /\ holder' \in [Friends!Resources -> Requests \cup {NoRequest}]
        /\ \A s \in Requests \ {r}, x \in Friends!Resources : Holds(s, x) => holder'[x] = s
    BY FriendReleases DEF FriendControl, Friends!Undo
  <1>2. pc' = [pc EXCEPT ![r] = "rolledBack"] /\ UNCHANGED <<plan, attempt, now, began, target, seen, day>>
    BY DEF Friends!Undo, Friends!Goes
  <1> QED BY <1>1, <1>2 DEF FriendControl, FriendAlone, Friends!Ended

LEMMA FriendMoves ==
    ASSUME FriendControl, NEW r \in DOMAIN plan, r \in Requests,
           NEW l \in {"meeting", "met", "asking", "welcome", "inserting", "holding", "counted"}, Friends!Moves(r, l)
    PROVE  FriendControl' /\ FriendAlone(r) /\ UNCHANGED <<rel, bag, log>>
  BY DEF FriendControl, FriendAlone, Friends!Moves, Friends!Goes, Friends!Ended, Holds

LEMMA FriendKnown ==
    ASSUME Friends!TypeOK, FriendStages, FriendTargets, NEW r \in DOMAIN plan
    PROVE  \/ target[r] \in Relations /\ rel[target[r]].pair = Friends!Pair(r)
           \/ target[r] = NoRelation /\ pc[r] = "idle"
           \/ target[r] = NoRelation /\ Friends!Kind(r) = "request" /\ pc[r] \notin {"meeting", "met", "holding", "counted", "spent"}
           \/ target[r] = NoRelation /\ Friends!Kind(r) = "rent" /\ pc[r] \in {"begun", "rolledBack"}
  <1>1. r \in Requests /\ target[r] \in Relations \cup {NoRelation}
    BY FriendRequests DEF Friends!TypeOK
  <1> QED BY <1>1 DEF FriendTargets, FriendStages, TargetOK, StageOK

LEMMA FriendTypesStep ==
    ASSUME Friends!TypeOK, FriendStages, FriendTargets, NEW r \in DOMAIN plan, FriendDoes(r)
    PROVE  Friends!TypeOK' /\ FriendAlone(r)
  <1>1. /\ r \in Requests /\ Friends!User(r) \in Users /\ Friends!Friend(r) \in Users /\ Friends!Kind(r) \in Friends!Kinds /\ Friends!Pair(r) \subseteq Users
        /\ {FRIEND_POINTS_GREET, FRIEND_POINTS_GIFT, FRIEND_POINTS_RENTAL} \subseteq Nat
    BY FriendParameters, FriendRequests DEF Friends!FriendAssumption, Friends!TypeOK
  <1>2. FriendControl /\ FriendTables
    BY FriendTypesAre
  <1>3. SUFFICES FriendControl' /\ FriendAlone(r) /\ FriendTables'
    BY FriendTypesAreNext
  <1>a. \/ target[r] \in Relations /\ rel[target[r]].pair = Friends!Pair(r)
        \/ target[r] = NoRelation /\ pc[r] = "idle"
        \/ target[r] = NoRelation /\ Friends!Kind(r) = "request" /\ pc[r] \notin {"meeting", "met", "holding", "counted", "spent"}
        \/ target[r] = NoRelation /\ Friends!Kind(r) = "rent" /\ pc[r] \in {"begun", "rolledBack"}
    BY FriendKnown
  <1>b. pc[r] = "spent" => Friends!Kind(r) = "gift"
    BY DEF FriendStages, StageOK
  <1> USE <1>1, <1>2
  <1>4. CASE Friends!Begin(r)
    BY <1>4 DEF Friends!Begin, Friends!Goes, FriendControl, FriendAlone, Holds, Friends!Ended, FriendTables, Friends!Between, Friends!IsDated
  <1>5. CASE Friends!Look(r)
    <2>1. CASE Friends!Moves(r, "asking")
      <3>1. FriendControl' /\ FriendAlone(r) /\ UNCHANGED <<rel, bag, log>>
        BY <2>1, FriendMoves
      <3> QED BY <3>1 DEF FriendTables
    <2>2. ASSUME NEW i \in Relations, target' = [target EXCEPT ![r] = i], Friends!Goes(r, "meeting"),
                 UNCHANGED <<plan, attempt, now, began, seen, holder, rel, bag, log, day>>
          PROVE  FriendControl' /\ FriendAlone(r) /\ FriendTables'
      BY <2>2 DEF Friends!Goes, FriendControl, FriendAlone, Holds, Friends!Ended, FriendTables
    <2> QED BY <1>5, <2>1, <2>2 DEF Friends!Look, Friends!Between
  <1>6. CASE Friends!CountSlots(r)
    <2>1. FriendControl' /\ FriendAlone(r) /\ UNCHANGED <<rel, bag, log>>
      BY <1>6, FriendMoves DEF Friends!CountSlots
    <2> QED BY <2>1 DEF FriendTables
  <1>7. CASE Friends!CountWaiting(r)
    <2>1. FriendControl' /\ FriendAlone(r) /\ UNCHANGED <<rel, bag, log>>
      BY <1>7, FriendMoves DEF Friends!CountWaiting
    <2> QED BY <2>1 DEF FriendTables
  <1>8. CASE Friends!Meet(r)
    <2>1. FriendControl' /\ FriendAlone(r)
      BY <1>8, FriendEnds DEF Friends!Meet
    <2>2. FriendTables'
      BY <1>8 DEF Friends!Meet, FriendTables, Friends!Relation
    <2> QED BY <2>1, <2>2
  <1>9. CASE Friends!Insert(r)
    <2>1. FriendControl' /\ FriendAlone(r)
      BY <1>9, FriendEnds DEF Friends!Insert
    <2>2. FriendTables'
      BY <1>9 DEF Friends!Insert, FriendTables, Friends!Relation, Friends!Unused, Friends!Unborn
    <2> QED BY <2>1, <2>2
  <1>10. CASE Friends!LoseRace(r)
    <2>1. CASE attempt[r] = 1
      BY <1>10, <2>1 DEF Friends!LoseRace, Friends!Goes, FriendControl, FriendAlone, Holds, Friends!Ended, FriendTables
    <2>2. CASE attempt[r] # 1
      <3>1. FriendControl' /\ FriendAlone(r)
        BY <1>10, <2>2, FriendEnds DEF Friends!LoseRace
      <3> QED BY <1>10, <3>1 DEF Friends!LoseRace, FriendTables
    <2> QED BY <2>1, <2>2
  <1>11. CASE Friends!LockPending(r)
    <2>1. PICK y \in Friends!Resources : Friends!Take(y, r)
      BY <1>11, <1>a DEF Friends!LockPending, Friends!IsReadyToLock, Friends!Resources, Friends!IsPending, Friends!IsLive, Friends!IsFriendship, Friends!CanAnswer
    <2>2. /\ holder' \in [Friends!Resources -> Requests \cup {NoRequest}]
          /\ \A s \in Requests, x \in Friends!Resources : Holds(s, x) => holder'[x] = s
      BY <2>1, FriendTakes DEF FriendControl
    <2> QED BY <1>11, <2>2, <1>a DEF Friends!LockPending, Friends!IsReadyToLock, Friends!Goes, FriendControl, FriendAlone, Friends!Ended, FriendTables, Friends!requestVars, Friends!Relation
  <1>12. CASE Friends!CountFriends(r)
    <2>1. FriendControl' /\ FriendAlone(r) /\ UNCHANGED <<rel, bag, log>>
      BY <1>12, FriendMoves DEF Friends!CountFriends
    <2> QED BY <2>1 DEF FriendTables
  <1>13. CASE Friends!Accept(r)
    <2>1. FriendControl' /\ FriendAlone(r)
      BY <1>13, FriendEnds DEF Friends!Accept
    <2>2. FriendTables'
      BY <1>13 DEF Friends!Accept, FriendTables, Friends!Relation
    <2> QED BY <2>1, <2>2
  <1>14. CASE Friends!Decline(r)
    <2>1. FriendControl' /\ FriendAlone(r)
      BY <1>14, FriendEnds DEF Friends!Decline
    <2>2. FriendTables'
      BY <1>14 DEF Friends!Decline, FriendTables, Friends!Relation
    <2> QED BY <2>1, <2>2
  <1>15. CASE Friends!FindToRemove(r)
    <2>1. FriendControl' /\ FriendAlone(r) /\ UNCHANGED <<rel, bag, log>>
      BY <1>15, FriendMoves DEF Friends!FindToRemove
    <2> QED BY <2>1 DEF FriendTables
  <1>16. CASE Friends!Remove(r)
    <2>1. FriendControl' /\ FriendAlone(r)
      BY <1>16, FriendEnds DEF Friends!Remove
    <2>2. FriendTables'
      BY <1>16 DEF Friends!Remove, FriendTables, Friends!Relation
    <2> QED BY <2>1, <2>2
  <1>17. CASE Friends!LockSender(r)
    <2>1. PICK y \in Friends!Resources : Friends!Take(y, r)
      BY <1>17, <1>a DEF Friends!LockSender, Friends!IsReadyToLock, Friends!Resources, Friends!IsPending, Friends!IsLive, Friends!IsFriendship, Friends!CanAnswer
    <2>2. /\ holder' \in [Friends!Resources -> Requests \cup {NoRequest}]
          /\ \A s \in Requests, x \in Friends!Resources : Holds(s, x) => holder'[x] = s
      BY <2>1, FriendTakes DEF FriendControl
    <2> QED BY <1>17, <2>2, <1>a DEF Friends!LockSender, Friends!IsReadyToLock, Friends!Goes, FriendControl, FriendAlone, Friends!Ended, FriendTables, Friends!requestVars, Friends!Relation
  <1>18. CASE Friends!LockFriendship(r)
    <2>1. PICK y \in Friends!Resources : Friends!Take(y, r)
      BY <1>18, <1>a DEF Friends!LockFriendship, Friends!IsReadyToLock, Friends!Resources, Friends!IsPending, Friends!IsLive, Friends!IsFriendship, Friends!CanAnswer
    <2>2. /\ holder' \in [Friends!Resources -> Requests \cup {NoRequest}]
          /\ \A s \in Requests, x \in Friends!Resources : Holds(s, x) => holder'[x] = s
      BY <2>1, FriendTakes DEF FriendControl
    <2> QED BY <1>18, <2>2, <1>a DEF Friends!LockFriendship, Friends!IsReadyToLock, Friends!Goes, FriendControl, FriendAlone, Friends!Ended, FriendTables, Friends!requestVars, Friends!Relation
  <1>19. CASE Friends!CountGreets(r)
    <2>1. FriendControl' /\ FriendAlone(r) /\ UNCHANGED <<rel, bag, log>>
      BY <1>19, FriendMoves DEF Friends!CountGreets
    <2> QED BY <2>1 DEF FriendTables
  <1>20. CASE Friends!Greet(r)
    <2>1. FriendControl' /\ FriendAlone(r)
      BY <1>20, FriendEnds DEF Friends!Greet
    <2>2. FriendTables'
      BY <1>20, <1>a, <1>b DEF Friends!Greet, FriendTables, Friends!Relation, Friends!Logged, Friends!Interaction, FriendControl
    <2> QED BY <2>1, <2>2
  <1>21. CASE Friends!CountGifts(r)
    <2>1. FriendControl' /\ FriendAlone(r) /\ UNCHANGED <<rel, bag, log>>
      BY <1>21, FriendMoves DEF Friends!CountGifts
    <2> QED BY <2>1 DEF FriendTables
  <1>22. CASE Friends!Spend(r)
    <2>1. PICK y \in Friends!Resources : Friends!Take(y, r)
      BY <1>22, <1>a DEF Friends!Spend, Friends!IsReadyToLock, Friends!Resources, Friends!IsPending, Friends!IsLive, Friends!IsFriendship, Friends!CanAnswer
    <2>2. /\ holder' \in [Friends!Resources -> Requests \cup {NoRequest}]
          /\ \A s \in Requests, x \in Friends!Resources : Holds(s, x) => holder'[x] = s
      BY <2>1, FriendTakes DEF FriendControl
    <2> QED BY <1>22, <2>2, <1>a DEF Friends!Spend, Friends!IsReadyToLock, Friends!Goes, FriendControl, FriendAlone, Friends!Ended, FriendTables, Friends!requestVars, Friends!Relation
  <1>23. CASE Friends!Deliver(r)
    <2>1. FriendControl' /\ FriendAlone(r)
      BY <1>23, FriendEnds DEF Friends!Deliver
    <2>2. FriendTables'
      BY <1>23, <1>a, <1>b DEF Friends!Deliver, FriendTables, Friends!Relation, Friends!Logged, Friends!Interaction, FriendControl
    <2> QED BY <2>1, <2>2
  <1>24. CASE Friends!FindFriend(r)
    BY <1>24 DEF Friends!FindFriend, Friends!Goes, FriendControl, FriendAlone, Holds, Friends!Ended, FriendTables, Friends!Between
  <1>25. CASE Friends!Rent(r)
    <2>1. FriendControl' /\ FriendAlone(r)
      BY <1>25, FriendEnds DEF Friends!Rent
    <2>2. FriendTables'
      BY <1>25, <1>a, <1>b DEF Friends!Rent, FriendTables, Friends!Relation, Friends!Logged, Friends!Interaction, FriendControl
    <2> QED BY <2>1, <2>2
  <1>26. CASE FriendUndo(r)
    <2>1. FriendControl' /\ FriendAlone(r)
      BY <1>26, FriendUndoes DEF FriendUndo
    <2> QED BY <1>26, <2>1 DEF FriendUndo, Friends!Undo, FriendTables
  <1> QED BY <1>4, <1>5, <1>6, <1>7, <1>8, <1>9, <1>10, <1>11, <1>12, <1>13, <1>14, <1>15, <1>16, <1>17, <1>18, <1>19, <1>20, <1>21, <1>22, <1>23, <1>24, <1>25, <1>26 DEF FriendDoes

FriendWrites(r) == Friends!Meet(r) \/ Friends!Accept(r) \/ Friends!Decline(r) \/ Friends!Remove(r) \/ Friends!Greet(r) \/ Friends!Deliver(r) \/ Friends!Rent(r)

LEMMA FriendLoud ==
    ASSUME NEW r \in DOMAIN plan, FriendDoes(r)
    PROVE  UNCHANGED <<rel, bag, log>> \/ FriendWrites(r) \/ Friends!Insert(r)
  BY DEF FriendDoes, FriendWrites, Friends!Begin, Friends!Look, Friends!CountSlots, Friends!CountWaiting, Friends!LoseRace, Friends!LockPending, Friends!CountFriends, Friends!FindToRemove,
         Friends!LockSender, Friends!LockFriendship, Friends!CountGreets, Friends!CountGifts, Friends!Spend, Friends!FindFriend, FriendUndo, Friends!Undo, Friends!Moves, Friends!requestVars

RowKept(i) ==
    /\ rel'[i].pair = rel[i].pair /\ rel'[i].by = rel[i].by
    /\ rel[i].accepted => rel'[i].accepted
    /\ rel[i].deleted => rel'[i].deleted

LEMMA FriendRowsKept ==
    ASSUME rel \in [Relations -> Friends!Relation], NEW r \in DOMAIN plan, UNCHANGED rel \/ FriendWrites(r)
    PROVE  \A i \in Relations : RowKept(i)
  BY DEF FriendWrites, Friends!Meet, Friends!Accept, Friends!Decline, Friends!Remove, Friends!Greet, Friends!Deliver, Friends!Rent, RowKept, Friends!Relation

LEMMA FriendInserts ==
    ASSUME rel \in [Relations -> Friends!Relation], NEW r \in DOMAIN plan, Friends!Insert(r)
    PROVE  \E k \in Relations :
              /\ rel[k] = Friends!Unborn
              /\ rel'[k].pair = Friends!Pair(r) /\ rel'[k].by = Friends!User(r)
              /\ ~rel'[k].accepted /\ rel'[k].points = 0 /\ ~rel'[k].deleted
              /\ \A i \in Relations \ {k} : rel'[i] = rel[i]
  <1> DEFINE k == CHOOSE i \in Friends!Unused : TRUE
  <1>1. k \in Relations /\ rel[k] = Friends!Unborn
    BY DEF Friends!Insert, Friends!Unused
  <1>2. rel' = [rel EXCEPT ![k].pair = Friends!Pair(r), ![k].by = Friends!User(r)]
    BY DEF Friends!Insert
  <1> HIDE DEF k
  <1>3. /\ rel'[k].pair = Friends!Pair(r) /\ rel'[k].by = Friends!User(r)
        /\ ~rel'[k].accepted /\ rel'[k].points = 0 /\ ~rel'[k].deleted
    BY <1>1, <1>2 DEF Friends!Unborn
  <1> QED BY <1>1, <1>2, <1>3

LEMMA FriendRowsStep ==
    ASSUME Friends!TypeOK, Friends!TypeOK', FriendStages, FriendTargets, FriendRows, NEW r \in DOMAIN plan, FriendDoes(r)
    PROVE  /\ \A i \in Relations : rel[i].pair # {} => RowKept(i)
           /\ Friends!StaysParted
           /\ FriendRows'
  <1>1. rel \in [Relations -> Friends!Relation] /\ Friends!Pair(r) # {}
    BY FriendRequests DEF Friends!TypeOK
  <1>2. CASE UNCHANGED rel \/ FriendWrites(r)
    <2>1. \A i \in Relations : RowKept(i)
      BY <1>1, <1>2, FriendRowsKept
    <2>2. ASSUME NEW i \in Relations, rel'[i].pair = {}
          PROVE  rel'[i] = Friends!Unborn /\ i \notin DOMAIN Founded
      <3>1. rel[i] = Friends!Unborn /\ i \notin DOMAIN Founded
        BY <2>1, <2>2 DEF RowKept, FriendRows
      <3>2. rel'[i] = rel[i]
        <4>1. CASE UNCHANGED rel
          BY <4>1
        <4>2. CASE FriendWrites(r)
          <5>1. target[r] # i
            <6>1. target[r] = i => rel[i].pair = Friends!Pair(r)
              BY FriendParameters DEF FriendTargets, TargetOK, Friends!FriendAssumption
            <6> QED BY <6>1, <3>1, <1>1 DEF Friends!Unborn
          <5> QED BY <1>1, <4>2, <5>1 DEF FriendWrites, Friends!Meet, Friends!Accept, Friends!Decline, Friends!Remove, Friends!Greet, Friends!Deliver, Friends!Rent
        <4> QED BY <1>2, <4>1, <4>2
      <3> QED BY <3>1, <3>2
    <2>3. ASSUME NEW i \in Relations, NEW j \in Relations, Friends!IsLive(i)', Friends!IsLive(j)', rel'[i].pair = rel'[j].pair
          PROVE  i = j
      <3>1. Friends!IsLive(i) /\ Friends!IsLive(j) /\ rel[i].pair = rel[j].pair
        BY <2>1, <2>3 DEF RowKept, Friends!IsLive
      <3> QED BY <3>1 DEF FriendRows
    <2> QED BY <2>1, <2>2, <2>3 DEF FriendRows, Friends!StaysParted, RowKept
  <1>3. CASE Friends!Insert(r)
    <2>1. PICK k \in Relations :
              /\ rel[k] = Friends!Unborn
              /\ rel'[k].pair = Friends!Pair(r) /\ rel'[k].by = Friends!User(r)
              /\ ~rel'[k].accepted /\ rel'[k].points = 0 /\ ~rel'[k].deleted
              /\ \A i \in Relations \ {k} : rel'[i] = rel[i]
      BY <1>1, <1>3, FriendInserts
    <2>2. \A i \in Relations : Friends!IsLive(i) => rel[i].pair # Friends!Pair(r)
      BY <1>3 DEF Friends!Insert, Friends!Between
    <2>3. \A i \in Relations \ {k} : RowKept(i) /\ (Friends!IsLive(i)' <=> Friends!IsLive(i))
      BY <2>1 DEF RowKept, Friends!IsLive
    <2>4. ASSUME NEW i \in Relations, NEW j \in Relations, Friends!IsLive(i)', Friends!IsLive(j)', rel'[i].pair = rel'[j].pair
          PROVE  i = j
      <3>1. CASE i = k \/ j = k
        BY <2>1, <2>2, <2>3, <2>4, <3>1
      <3>2. CASE i # k /\ j # k
        BY <2>1, <2>3, <2>4, <3>2 DEF FriendRows
      <3> QED BY <3>1, <3>2
    <2>5. rel[k].pair = {} /\ ~rel[k].deleted
      BY <2>1 DEF Friends!Unborn
    <2>6. \A i \in Relations : rel'[i].pair = {} => rel'[i] = Friends!Unborn /\ i \notin DOMAIN Founded
      BY <1>1, <2>1 DEF FriendRows
    <2>7. Friends!StaysParted
      BY <2>1, <2>5 DEF Friends!StaysParted
    <2> QED BY <2>3, <2>4, <2>5, <2>6, <2>7 DEF FriendRows
  <1> QED BY <1>2, <1>3, FriendLoud

LEMMA FriendStagesStep ==
    ASSUME Friends!TypeOK, FriendStages, NEW r \in DOMAIN plan, FriendDoes(r), FriendAlone(r)
    PROVE  FriendStages'
  <1>1. /\ r \in Requests /\ StageOK(r) /\ plan' = plan /\ DOMAIN plan \subseteq Requests
        /\ pc \in [Requests -> {"idle", "begun", "meeting", "met", "asking", "welcome", "inserting",
                                "holding", "counted", "spent"} \cup Friends!Ended]
        /\ now \in [Requests -> Friends!Days] /\ began \in [Requests -> Friends!Days] /\ day \in Friends!Days
    BY FriendRequests DEF Friends!TypeOK, FriendStages, FriendAlone
  <1>2. ASSUME NEW s \in DOMAIN plan, s # r
        PROVE  StageOK(s)'
    <2>1. StageOK(s) /\ s \in Requests
      BY <1>1 DEF FriendStages
    <2> QED BY <1>1, <1>2, <2>1 DEF FriendAlone, StageOK, Friends!Kind
  <1>3. SUFFICES StageOK(r)'
    BY <1>1, <1>2 DEF FriendStages
  <1> USE <1>1
  <1>4. CASE Friends!Begin(r)
    BY <1>4 DEF Friends!Begin, Friends!Goes, Friends!IsDated, StageOK, Friends!Kind, Friends!Ended, Friends!Days
  <1>5. CASE Friends!Look(r)
    BY <1>5 DEF Friends!Look, Friends!Moves, Friends!Goes, StageOK, Friends!Kind, Friends!Ended, Friends!Days
  <1>6. CASE Friends!CountSlots(r)
    BY <1>6 DEF Friends!CountSlots, Friends!Goes, Friends!Moves, StageOK, Friends!Kind, Friends!Ended, Friends!Days
  <1>7. CASE Friends!CountWaiting(r)
    BY <1>7 DEF Friends!CountWaiting, Friends!Goes, Friends!Moves, StageOK, Friends!Kind, Friends!Ended, Friends!Days
  <1>8. CASE Friends!Meet(r)
    BY <1>8 DEF Friends!Meet, Friends!Goes, Friends!End, Friends!Release, StageOK, Friends!Kind, Friends!Ended, Friends!Days
  <1>9. CASE Friends!Insert(r)
    BY <1>9 DEF Friends!Insert, Friends!Goes, Friends!End, Friends!Release, Friends!Unused, Friends!Unborn, StageOK, Friends!Kind, Friends!Ended, Friends!Days
  <1>10. CASE Friends!LoseRace(r)
    BY <1>10 DEF Friends!LoseRace, Friends!Goes, Friends!End, Friends!Release, StageOK, Friends!Kind, Friends!Ended, Friends!Days
  <1>11. CASE Friends!LockPending(r)
    BY <1>11 DEF Friends!LockPending, Friends!Goes, Friends!Take, Friends!Free, StageOK, Friends!Kind, Friends!Ended, Friends!Days
  <1>12. CASE Friends!CountFriends(r)
    BY <1>12 DEF Friends!CountFriends, Friends!Goes, Friends!Moves, StageOK, Friends!Kind, Friends!Ended, Friends!Days
  <1>13. CASE Friends!Accept(r)
    BY <1>13 DEF Friends!Accept, Friends!Goes, Friends!End, Friends!Release, StageOK, Friends!Kind, Friends!Ended, Friends!Days
  <1>14. CASE Friends!Decline(r)
    BY <1>14 DEF Friends!Decline, Friends!Goes, Friends!End, Friends!Release, StageOK, Friends!Kind, Friends!Ended, Friends!Days
  <1>15. CASE Friends!FindToRemove(r)
    BY <1>15 DEF Friends!FindToRemove, Friends!Goes, Friends!Moves, StageOK, Friends!Kind, Friends!Ended, Friends!Days
  <1>16. CASE Friends!Remove(r)
    BY <1>16 DEF Friends!Remove, Friends!Goes, Friends!End, Friends!Release, StageOK, Friends!Kind, Friends!Ended, Friends!Days
  <1>17. CASE Friends!LockSender(r)
    BY <1>17 DEF Friends!LockSender, Friends!Goes, Friends!Take, Friends!Free, StageOK, Friends!Kind, Friends!Ended, Friends!Days, Friends!requestVars
  <1>18. CASE Friends!LockFriendship(r)
    BY <1>18 DEF Friends!LockFriendship, Friends!IsReadyToLock, Friends!Goes, Friends!Take, Friends!Free, StageOK, Friends!Kind, Friends!Ended, Friends!Days
  <1>19. CASE Friends!CountGreets(r)
    BY <1>19 DEF Friends!CountGreets, Friends!Goes, Friends!Moves, StageOK, Friends!Kind, Friends!Ended, Friends!Days
  <1>20. CASE Friends!Greet(r)
    BY <1>20 DEF Friends!Greet, Friends!Goes, Friends!End, Friends!Release, Friends!Logged, StageOK, Friends!Kind, Friends!Ended, Friends!Days
  <1>21. CASE Friends!CountGifts(r)
    BY <1>21 DEF Friends!CountGifts, Friends!Goes, Friends!Moves, StageOK, Friends!Kind, Friends!Ended, Friends!Days
  <1>22. CASE Friends!Spend(r)
    BY <1>22 DEF Friends!Spend, Friends!Goes, Friends!Take, Friends!Free, StageOK, Friends!Kind, Friends!Ended, Friends!Days
  <1>23. CASE Friends!Deliver(r)
    BY <1>23 DEF Friends!Deliver, Friends!Goes, Friends!End, Friends!Release, Friends!Logged, StageOK, Friends!Kind, Friends!Ended, Friends!Days
  <1>24. CASE Friends!FindFriend(r)
    BY <1>24 DEF Friends!FindFriend, Friends!Goes, StageOK, Friends!Kind, Friends!Ended, Friends!Days
  <1>25. CASE Friends!Rent(r)
    BY <1>25 DEF Friends!Rent, Friends!Goes, Friends!End, Friends!Release, Friends!Logged, StageOK, Friends!Kind, Friends!Ended, Friends!Days
  <1>26. CASE FriendUndo(r)
    BY <1>26 DEF FriendUndo, Friends!Undo, Friends!Goes, Friends!Release, StageOK, Friends!Kind, Friends!Ended, Friends!Days
  <1> QED BY <1>4, <1>5, <1>6, <1>7, <1>8, <1>9, <1>10, <1>11, <1>12, <1>13, <1>14, <1>15, <1>16, <1>17, <1>18, <1>19, <1>20, <1>21, <1>22, <1>23, <1>24, <1>25, <1>26 DEF FriendDoes

LEMMA FriendTargetsStep ==
    ASSUME Friends!TypeOK, FriendStages, FriendTargets, NEW r \in DOMAIN plan, FriendDoes(r), FriendAlone(r),
           \A i \in Relations : rel[i].pair # {} => RowKept(i)
    PROVE  FriendTargets'
  <1>1. /\ r \in Requests /\ TargetOK(r) /\ StageOK(r) /\ plan' = plan /\ DOMAIN plan \subseteq Requests
        /\ pc \in [Requests -> {"idle", "begun", "meeting", "met", "asking", "welcome", "inserting",
                                "holding", "counted", "spent"} \cup Friends!Ended]
        /\ target \in [Requests -> Relations \cup {NoRelation}] /\ NoRelation \notin Relations
    BY FriendParameters, FriendRequests DEF Friends!TypeOK, FriendTargets, FriendStages, FriendAlone, Friends!FriendAssumption
  <1>2. ASSUME NEW s \in DOMAIN plan
        PROVE  target[s] # NoRelation =>
                  /\ target[s] \in Relations
                  /\ rel'[target[s]].pair = rel[target[s]].pair /\ rel'[target[s]].by = rel[target[s]].by
    <2>1. TargetOK(s) /\ s \in Requests /\ Friends!Pair(s) # {}
      BY <1>1, FriendRequests DEF FriendTargets, Friends!TypeOK
    <2> QED BY <1>1, <2>1 DEF TargetOK, RowKept
  <1>3. ASSUME NEW s \in DOMAIN plan, s # r
        PROVE  TargetOK(s)'
    <2>1. TargetOK(s) /\ StageOK(s) /\ s \in Requests
      BY <1>1 DEF FriendTargets, FriendStages
    <2> QED BY <1>1, <1>2, <1>3, <2>1 DEF FriendAlone, TargetOK, StageOK, Friends!Kind, Friends!User, Friends!Pair, Friends!Friend
  <1>4. SUFFICES TargetOK(r)'
    BY <1>1, <1>3 DEF FriendTargets
  <1>5. target[r] # NoRelation =>
           /\ target[r] \in Relations
           /\ rel'[target[r]].pair = rel[target[r]].pair /\ rel'[target[r]].by = rel[target[r]].by
    BY <1>2
  <1> USE <1>1, <1>5 DEF StageOK
  <1>6. CASE Friends!Begin(r)
    BY <1>6 DEF Friends!Begin, Friends!Goes, Friends!IsDated, TargetOK, Friends!Kind, Friends!User, Friends!Pair, Friends!Friend, Friends!Ended
  <1>7. CASE Friends!Look(r)
    <2>1. CASE Friends!Moves(r, "asking")
      BY <1>7, <2>1 DEF Friends!Look, Friends!Moves, Friends!Goes, TargetOK, Friends!Kind, Friends!User, Friends!Pair, Friends!Friend
    <2>2. ASSUME NEW i \in Friends!Between(Friends!Pair(r)), rel[i].by # Friends!User(r), target' = [target EXCEPT ![r] = i],
                 Friends!Goes(r, "meeting"), UNCHANGED rel
          PROVE  TargetOK(r)'
      <3>1. i \in Relations /\ rel[i].pair = Friends!Pair(r) /\ i # NoRelation
        BY <2>2 DEF Friends!Between
      <3> QED BY <2>2, <3>1 DEF Friends!Goes, TargetOK, Friends!Kind, Friends!User, Friends!Pair, Friends!Friend
    <2> QED BY <1>7, <2>1, <2>2 DEF Friends!Look
  <1>8. CASE Friends!CountSlots(r)
    BY <1>8 DEF Friends!CountSlots, Friends!Goes, Friends!Moves, TargetOK, Friends!Kind, Friends!User, Friends!Pair, Friends!Friend, Friends!Ended
  <1>9. CASE Friends!CountWaiting(r)
    BY <1>9 DEF Friends!CountWaiting, Friends!Goes, Friends!Moves, TargetOK, Friends!Kind, Friends!User, Friends!Pair, Friends!Friend, Friends!Ended
  <1>10. CASE Friends!Meet(r)
    BY <1>10 DEF Friends!Meet, Friends!Goes, Friends!End, Friends!Release, TargetOK, Friends!Kind, Friends!User, Friends!Pair, Friends!Friend, Friends!Ended
  <1>11. CASE Friends!Insert(r)
    BY <1>11 DEF Friends!Insert, Friends!Goes, Friends!End, Friends!Release, Friends!Unused, Friends!Unborn, TargetOK, Friends!Kind, Friends!User, Friends!Pair, Friends!Friend, Friends!Ended
  <1>12. CASE Friends!LoseRace(r)
    BY <1>12 DEF Friends!LoseRace, Friends!Goes, Friends!End, Friends!Release, TargetOK, Friends!Kind, Friends!User, Friends!Pair, Friends!Friend, Friends!Ended
  <1>13. CASE Friends!LockPending(r)
    BY <1>13 DEF Friends!LockPending, Friends!Goes, Friends!Take, Friends!Free, TargetOK, Friends!Kind, Friends!User, Friends!Pair, Friends!Friend, Friends!Ended, Friends!CanAnswer
  <1>14. CASE Friends!CountFriends(r)
    BY <1>14 DEF Friends!CountFriends, Friends!Goes, Friends!Moves, TargetOK, Friends!Kind, Friends!User, Friends!Pair, Friends!Friend, Friends!Ended
  <1>15. CASE Friends!Accept(r)
    BY <1>15 DEF Friends!Accept, Friends!Goes, Friends!End, Friends!Release, TargetOK, Friends!Kind, Friends!User, Friends!Pair, Friends!Friend, Friends!Ended
  <1>16. CASE Friends!Decline(r)
    BY <1>16 DEF Friends!Decline, Friends!Goes, Friends!End, Friends!Release, TargetOK, Friends!Kind, Friends!User, Friends!Pair, Friends!Friend, Friends!Ended
  <1>17. CASE Friends!FindToRemove(r)
    BY <1>17 DEF Friends!FindToRemove, Friends!Goes, Friends!Moves, TargetOK, Friends!Kind, Friends!User, Friends!Pair, Friends!Friend, Friends!Ended
  <1>18. CASE Friends!Remove(r)
    BY <1>18 DEF Friends!Remove, Friends!Goes, Friends!End, Friends!Release, TargetOK, Friends!Kind, Friends!User, Friends!Pair, Friends!Friend, Friends!Ended
  <1>19. CASE Friends!LockSender(r)
    BY <1>19 DEF Friends!LockSender, Friends!Goes, Friends!Take, Friends!Free, TargetOK, Friends!Kind, Friends!User, Friends!Pair, Friends!Friend, Friends!Ended, Friends!requestVars
  <1>20. CASE Friends!LockFriendship(r)
    BY <1>20 DEF Friends!LockFriendship, Friends!Goes, Friends!Take, Friends!Free, TargetOK, Friends!Kind, Friends!User, Friends!Pair, Friends!Friend, Friends!Ended, Friends!IsReadyToLock
  <1>21. CASE Friends!CountGreets(r)
    BY <1>21 DEF Friends!CountGreets, Friends!Goes, Friends!Moves, TargetOK, Friends!Kind, Friends!User, Friends!Pair, Friends!Friend, Friends!Ended
  <1>22. CASE Friends!Greet(r)
    BY <1>22 DEF Friends!Greet, Friends!Goes, Friends!End, Friends!Release, Friends!Logged, TargetOK, Friends!Kind, Friends!User, Friends!Pair, Friends!Friend, Friends!Ended
  <1>23. CASE Friends!CountGifts(r)
    BY <1>23 DEF Friends!CountGifts, Friends!Goes, Friends!Moves, TargetOK, Friends!Kind, Friends!User, Friends!Pair, Friends!Friend, Friends!Ended
  <1>24. CASE Friends!Spend(r)
    BY <1>24 DEF Friends!Spend, Friends!Goes, Friends!Take, Friends!Free, TargetOK, Friends!Kind, Friends!User, Friends!Pair, Friends!Friend, Friends!Ended
  <1>25. CASE Friends!Deliver(r)
    BY <1>25 DEF Friends!Deliver, Friends!Goes, Friends!End, Friends!Release, Friends!Logged, TargetOK, Friends!Kind, Friends!User, Friends!Pair, Friends!Friend, Friends!Ended
  <1>26. CASE Friends!FindFriend(r)
    BY <1>26 DEF Friends!FindFriend, Friends!Goes, TargetOK, Friends!Kind, Friends!User, Friends!Pair, Friends!Friend, Friends!Ended, Friends!Between
  <1>27. CASE Friends!Rent(r)
    BY <1>27 DEF Friends!Rent, Friends!Goes, Friends!End, Friends!Release, Friends!Logged, TargetOK, Friends!Kind, Friends!User, Friends!Pair, Friends!Friend, Friends!Ended
  <1>28. CASE FriendUndo(r)
    BY <1>28 DEF FriendUndo, Friends!Undo, Friends!Goes, Friends!Release, TargetOK, Friends!Kind, Friends!User, Friends!Pair, Friends!Friend, Friends!Ended
  <1> QED BY <1>6, <1>7, <1>8, <1>9, <1>10, <1>11, <1>12, <1>13, <1>14, <1>15, <1>16, <1>17, <1>18, <1>19, <1>20, <1>21, <1>22, <1>23, <1>24, <1>25, <1>26, <1>27, <1>28 DEF FriendDoes

LEMMA FriendLocksStep ==
    ASSUME Friends!TypeOK, FriendStages, FriendTargets, FriendLocks, NEW r \in DOMAIN plan, FriendDoes(r), FriendAlone(r)
    PROVE  FriendLocks'
  <1>1. /\ r \in Requests /\ LocksOK(r) /\ StageOK(r) /\ plan' = plan /\ DOMAIN plan \subseteq Requests
        /\ Friends!User(r) \in Users /\ Friends!Sender(Friends!User(r)) \in Friends!Resources /\ Friends!Bag(Friends!User(r)) \in Friends!Resources
        /\ pc \in [Requests -> {"idle", "begun", "meeting", "met", "asking", "welcome", "inserting",
                                "holding", "counted", "spent"} \cup Friends!Ended]
        /\ holder \in [Friends!Resources -> Requests \cup {NoRequest}]
    BY FriendRequests DEF Friends!TypeOK, FriendLocks, FriendStages, FriendAlone, Friends!Resources
  <1>2. ASSUME NEW s \in DOMAIN plan, pc[s] \in {"holding", "counted", "spent"}, Friends!Kind(s) # "rent"
        PROVE  Friends!Row(target[s]) \in Friends!Resources
    <2>1. target[s] \in Relations
      BY <1>2, FriendKnown
    <2> QED BY <2>1 DEF Friends!Resources
  <1>3. ASSUME NEW s \in DOMAIN plan, s # r
        PROVE  LocksOK(s)'
    <2>1. LocksOK(s) /\ s \in Requests /\ Friends!Sender(Friends!User(s)) \in Friends!Resources /\ Friends!Bag(Friends!User(s)) \in Friends!Resources
      BY <1>1, FriendRequests DEF FriendLocks, Friends!TypeOK, Friends!Resources
    <2>2. /\ pc'[s] = pc[s] /\ target'[s] = target[s] /\ Friends!Kind(s)' = Friends!Kind(s) /\ Friends!User(s)' = Friends!User(s)
          /\ \A x \in Friends!Resources : Holds(s, x) => Holds(s, x)'
      BY <1>1, <1>3, <2>1 DEF FriendAlone, Friends!Kind, Friends!User, Holds
    <2>3. Friends!Row(target[s])' = Friends!Row(target[s]) /\ Friends!Sender(Friends!User(s))' = Friends!Sender(Friends!User(s)) /\ Friends!Bag(Friends!User(s))' = Friends!Bag(Friends!User(s))
      BY <2>2 DEF Friends!Row, Friends!Sender, Friends!Bag
    <2> QED BY <1>2, <2>1, <2>2, <2>3 DEF LocksOK
  <1>4. SUFFICES LocksOK(r)'
    BY <1>1, <1>3 DEF FriendLocks
  <1>5. Friends!Kind(r)' = Friends!Kind(r) /\ Friends!User(r)' = Friends!User(r) /\ Friends!Sender(Friends!User(r))' = Friends!Sender(Friends!User(r)) /\ Friends!Bag(Friends!User(r))' = Friends!Bag(Friends!User(r))
    BY <1>1 DEF Friends!Kind, Friends!User, Friends!Sender, Friends!Bag
  <1>6. target' = target => Friends!Row(target[r])' = Friends!Row(target[r])
    BY DEF Friends!Row
  <1>7. CASE Friends!Begin(r)
    BY <1>7, <1>1 DEF Friends!Begin, Friends!Goes, Friends!IsDated, LocksOK, Friends!Ended
  <1>8. CASE Friends!Look(r)
    BY <1>8, <1>1 DEF Friends!Look, Friends!Goes, LocksOK, Friends!Ended, Friends!Moves
  <1>9. CASE Friends!CountSlots(r)
    BY <1>9, <1>1 DEF Friends!CountSlots, Friends!Goes, Friends!Moves, LocksOK, Friends!Ended
  <1>10. CASE Friends!CountWaiting(r)
    BY <1>10, <1>1 DEF Friends!CountWaiting, Friends!Goes, Friends!Moves, LocksOK, Friends!Ended
  <1>11. CASE Friends!Meet(r)
    BY <1>11, <1>1 DEF Friends!Meet, Friends!Goes, Friends!End, Friends!Release, LocksOK, Friends!Ended
  <1>12. CASE Friends!Insert(r)
    BY <1>12, <1>1 DEF Friends!Insert, Friends!Goes, Friends!End, Friends!Release, Friends!Unused, Friends!Unborn, LocksOK, Friends!Ended
  <1>13. CASE Friends!LoseRace(r)
    BY <1>13, <1>1 DEF Friends!LoseRace, Friends!Goes, Friends!End, Friends!Release, LocksOK, Friends!Ended
  <1>14. CASE Friends!LockPending(r)
    <2>1. /\ Friends!Take(Friends!Row(target[r]), r) /\ target' = target /\ pc'[r] = "holding" /\ Friends!Kind(r) # "rent" /\ Friends!IsLive(target[r])
          /\ Friends!Kind(r) = "gift" => Holds(r, Friends!Sender(Friends!User(r)))
      BY <1>14, <1>1 DEF Friends!LockPending, Friends!Goes, Friends!IsReadyToLock, Holds, Friends!CanAnswer, Friends!IsPending, Friends!IsFriendship
    <2>2. Friends!Row(target[r]) \in Friends!Resources
      BY <1>14, FriendKnown DEF Friends!LockPending, Friends!Resources, Friends!IsReadyToLock
    <2>3. /\ Holds(r, Friends!Row(target[r]))'
          /\ \A x \in Friends!Resources : Holds(r, x) => Holds(r, x)'
      BY <1>1, <2>1, <2>2, FriendTakes DEF Holds
    <2> QED BY <1>1, <1>5, <1>6, <2>1, <2>3 DEF LocksOK
  <1>15. CASE Friends!CountFriends(r)
    <2>1. target' = target /\ holder' = holder /\ pc[r] = "holding" /\ pc'[r] = "counted" /\ Friends!Kind(r) # "rent"
      BY <1>15, <1>1 DEF Friends!CountFriends, Friends!Moves, Friends!Goes
    <2> QED BY <1>1, <1>5, <1>6, <2>1 DEF LocksOK, Holds
  <1>16. CASE Friends!Accept(r)
    BY <1>16, <1>1 DEF Friends!Accept, Friends!Goes, Friends!End, Friends!Release, LocksOK, Friends!Ended
  <1>17. CASE Friends!Decline(r)
    BY <1>17, <1>1 DEF Friends!Decline, Friends!Goes, Friends!End, Friends!Release, LocksOK, Friends!Ended
  <1>18. CASE Friends!FindToRemove(r)
    BY <1>18, <1>1 DEF Friends!FindToRemove, Friends!Goes, Friends!Moves, LocksOK, Friends!Ended
  <1>19. CASE Friends!Remove(r)
    BY <1>19, <1>1 DEF Friends!Remove, Friends!Goes, Friends!End, Friends!Release, LocksOK, Friends!Ended
  <1>20. CASE Friends!LockSender(r)
    BY <1>20, <1>1 DEF Friends!LockSender, Friends!Goes, Friends!Take, Friends!Free, LocksOK, Friends!Ended, Friends!requestVars
  <1>21. CASE Friends!LockFriendship(r)
    <2>1. /\ Friends!Take(Friends!Row(target[r]), r) /\ target' = target /\ pc'[r] = "holding" /\ Friends!Kind(r) # "rent" /\ Friends!IsLive(target[r])
          /\ Friends!Kind(r) = "gift" => Holds(r, Friends!Sender(Friends!User(r)))
      BY <1>21, <1>1 DEF Friends!LockFriendship, Friends!Goes, Friends!IsReadyToLock, Holds, Friends!CanAnswer, Friends!IsPending, Friends!IsFriendship
    <2>2. Friends!Row(target[r]) \in Friends!Resources
      BY <1>21, FriendKnown DEF Friends!LockFriendship, Friends!Resources, Friends!IsReadyToLock
    <2>3. /\ Holds(r, Friends!Row(target[r]))'
          /\ \A x \in Friends!Resources : Holds(r, x) => Holds(r, x)'
      BY <1>1, <2>1, <2>2, FriendTakes DEF Holds
    <2> QED BY <1>1, <1>5, <1>6, <2>1, <2>3 DEF LocksOK
  <1>22. CASE Friends!CountGreets(r)
    <2>1. target' = target /\ holder' = holder /\ pc[r] = "holding" /\ pc'[r] = "counted" /\ Friends!Kind(r) # "rent"
      BY <1>22, <1>1 DEF Friends!CountGreets, Friends!Moves, Friends!Goes
    <2> QED BY <1>1, <1>5, <1>6, <2>1 DEF LocksOK, Holds
  <1>23. CASE Friends!Greet(r)
    BY <1>23, <1>1 DEF Friends!Greet, Friends!Goes, Friends!End, Friends!Release, Friends!Logged, LocksOK, Friends!Ended
  <1>24. CASE Friends!CountGifts(r)
    <2>1. target' = target /\ holder' = holder /\ pc[r] = "holding" /\ pc'[r] = "counted" /\ Friends!Kind(r) # "rent"
      BY <1>24, <1>1 DEF Friends!CountGifts, Friends!Moves, Friends!Goes
    <2> QED BY <1>1, <1>5, <1>6, <2>1 DEF LocksOK, Holds
  <1>25. CASE Friends!Spend(r)
    <2>1. /\ Friends!Take(Friends!Bag(Friends!User(r)), r) /\ target' = target /\ pc'[r] = "spent" /\ Friends!Kind(r) = "gift" /\ pc[r] = "counted"
      BY <1>25, <1>1 DEF Friends!Spend, Friends!Goes
    <2>2. Friends!Row(target[r]) \in Friends!Resources
      BY <1>2, <2>1
    <2>3. /\ Holds(r, Friends!Bag(Friends!User(r)))'
          /\ \A x \in Friends!Resources : Holds(r, x) => Holds(r, x)'
      <3>1. /\ r \in Requests /\ Friends!Bag(Friends!User(r)) \in Friends!Resources /\ holder \in [Friends!Resources -> Requests \cup {NoRequest}]
            /\ Friends!Take(Friends!Bag(Friends!User(r)), r)
        BY <1>1, <2>1
      <3>2. /\ holder'[Friends!Bag(Friends!User(r))] = r
            /\ \A s \in Requests, x \in Friends!Resources : Holds(s, x) => holder'[x] = s
        BY <3>1, FriendTakes DEF Holds
      <3> QED BY <1>5, <3>1, <3>2 DEF Holds
    <2> QED BY <1>1, <1>5, <1>6, <2>1, <2>2, <2>3 DEF LocksOK
  <1>26. CASE Friends!Deliver(r)
    BY <1>26, <1>1 DEF Friends!Deliver, Friends!Goes, Friends!End, Friends!Release, Friends!Logged, LocksOK, Friends!Ended
  <1>27. CASE Friends!FindFriend(r)
    BY <1>27, <1>1, <1>5 DEF Friends!FindFriend, Friends!Goes, LocksOK
  <1>28. CASE Friends!Rent(r)
    BY <1>28, <1>1 DEF Friends!Rent, Friends!Goes, Friends!End, Friends!Release, Friends!Logged, LocksOK, Friends!Ended
  <1>29. CASE FriendUndo(r)
    BY <1>29, <1>1 DEF FriendUndo, Friends!Goes, Friends!Release, Friends!Undo, LocksOK, Friends!Ended
  <1> QED BY <1>7, <1>8, <1>9, <1>10, <1>11, <1>12, <1>13, <1>14, <1>15, <1>16, <1>17, <1>18, <1>19, <1>20, <1>21, <1>22, <1>23, <1>24, <1>25, <1>26, <1>27, <1>28, <1>29 DEF FriendDoes

LEMMA FriendAskedStep ==
    ASSUME Friends!TypeOK, FriendStages, FriendTargets, FriendAsked, NEW r \in DOMAIN plan, FriendDoes(r), FriendAlone(r),
           \A i \in Relations : rel[i].pair # {} => RowKept(i)
    PROVE  FriendAsked'
  <1> DEFINE Met(s) == \E i \in Relations : /\ rel[i].pair = Friends!Pair(s)
                                            /\ rel[i].accepted \/ rel[i].deleted \/ rel[i].by = Friends!User(s)
             Found(s) == \E i \in Relations : rel[i].pair = Friends!Pair(s)
             Parted(s) == \E i \in Relations : rel[i].pair = Friends!Pair(s) /\ rel[i].deleted
  <1>1. /\ r \in Requests /\ AskedOK(r) /\ StageOK(r) /\ TargetOK(r) /\ plan' = plan /\ DOMAIN plan \subseteq Requests
        /\ pc \in [Requests -> {"idle", "begun", "meeting", "met", "asking", "welcome", "inserting",
                                "holding", "counted", "spent"} \cup Friends!Ended]
        /\ attempt \in [Requests -> 1..2] /\ rel \in [Relations -> Friends!Relation] /\ Friends!Pair(r) # {}
    BY FriendRequests DEF Friends!TypeOK, FriendAsked, FriendStages, FriendTargets, FriendAlone
  <1>2. ASSUME NEW s \in DOMAIN plan
        PROVE  /\ Friends!Kind(s)' = Friends!Kind(s) /\ Friends!Pair(s)' = Friends!Pair(s) /\ Friends!User(s)' = Friends!User(s)
               /\ (Met(s) => Met(s)') /\ (Found(s) => Found(s)') /\ (Parted(s) => Parted(s)')
    <2>1. Friends!Pair(s) # {} /\ s \in Requests
      BY FriendRequests DEF Friends!TypeOK
    <2>2. Friends!Kind(s)' = Friends!Kind(s) /\ Friends!Pair(s)' = Friends!Pair(s) /\ Friends!User(s)' = Friends!User(s)
      BY <1>1 DEF Friends!Kind, Friends!Pair, Friends!User, Friends!Friend
    <2>3. \A i \in Relations : rel[i].pair = Friends!Pair(s) => RowKept(i)
      BY <2>1
    <2> QED BY <2>2, <2>3 DEF RowKept
  <1>3. \A s \in DOMAIN plan : AskedOK(s) <=>
            /\ Friends!Kind(s) = "request" /\ pc[s] = "committed" => Met(s)
            /\ attempt[s] = 2 => Found(s)
            /\ attempt[s] = 2 /\ pc[s] \in {"asking", "welcome", "inserting"} => Parted(s)
    BY DEF AskedOK
  <1>4. \A s \in DOMAIN plan' : AskedOK(s)' <=>
            /\ Friends!Kind(s)' = "request" /\ pc'[s] = "committed" => Met(s)'
            /\ attempt'[s] = 2 => Found(s)'
            /\ attempt'[s] = 2 /\ pc'[s] \in {"asking", "welcome", "inserting"} => Parted(s)'
    BY DEF AskedOK
  <1>5. /\ Friends!Kind(r)' = Friends!Kind(r) /\ Friends!Pair(r)' = Friends!Pair(r) /\ Friends!User(r)' = Friends!User(r)
        /\ (Met(r) => Met(r)') /\ (Found(r) => Found(r)') /\ (Parted(r) => Parted(r)')
    BY <1>2
  <1>8. /\ Friends!Kind(r) = "request" /\ pc[r] = "committed" => Met(r)
        /\ attempt[r] = 2 => Found(r)
        /\ attempt[r] = 2 /\ pc[r] \in {"asking", "welcome", "inserting"} => Parted(r)
    BY <1>1, <1>3
  <1> HIDE DEF Met, Found, Parted
  <1>6. ASSUME NEW s \in DOMAIN plan, s # r
        PROVE  AskedOK(s)'
    <2>1. AskedOK(s) /\ s \in Requests /\ s \in DOMAIN plan'
      BY <1>1 DEF FriendAsked
    <2>2. pc'[s] = pc[s] /\ attempt'[s] = attempt[s]
      BY <1>6, <2>1 DEF FriendAlone
    <2> QED BY <1>2, <1>3, <1>4, <2>1, <2>2
  <1>7. SUFFICES /\ Friends!Kind(r) = "request" /\ pc'[r] = "committed" => Met(r)'
                 /\ attempt'[r] = 2 => Found(r)'
                 /\ attempt'[r] = 2 /\ pc'[r] \in {"asking", "welcome", "inserting"} => Parted(r)'
    BY <1>1, <1>4, <1>5, <1>6 DEF FriendAsked
  <1>9. CASE Friends!Begin(r)
    BY <1>9, <1>1, <1>5, <1>8 DEF Friends!Begin, Friends!Goes, Friends!IsDated, Friends!Ended
  <1>10. CASE Friends!Look(r)
    <2>1. CASE Friends!Between(Friends!Pair(r)) = {} /\ Friends!Moves(r, "asking")
      <3>1. Found(r) => Parted(r)
        BY <1>1, <2>1 DEF Found, Parted, Friends!Between, Friends!IsLive
      <3> QED BY <1>1, <1>5, <1>8, <2>1, <3>1 DEF Friends!Moves, Friends!Goes
    <2>2. CASE Friends!Goes(r, "meeting") /\ UNCHANGED attempt
      BY <1>1, <1>5, <1>8, <2>2 DEF Friends!Goes
    <2> QED BY <1>10, <2>1, <2>2 DEF Friends!Look
  <1>11. CASE Friends!CountSlots(r)
    BY <1>11, <1>1, <1>5, <1>8 DEF Friends!CountSlots, Friends!Goes, Friends!Moves, Friends!Ended
  <1>12. CASE Friends!CountWaiting(r)
    BY <1>12, <1>1, <1>5, <1>8 DEF Friends!CountWaiting, Friends!Goes, Friends!Moves, Friends!Ended
  <1>13. CASE Friends!Meet(r)
    <2>1. target[r] \in Relations /\ rel[target[r]].pair = Friends!Pair(r)
      BY <1>13, FriendKnown DEF Friends!Meet
    <2>2. RowKept(target[r]) /\ rel'[target[r]].accepted
      BY <1>1, <1>13, <2>1 DEF Friends!Meet, Friends!Relation
    <2>3. Met(r)'
      BY <1>5, <2>1, <2>2 DEF RowKept, Met
    <2> QED BY <1>1, <1>5, <1>8, <1>13, <2>3 DEF Friends!Meet, Friends!Goes, Friends!End, Friends!Ended
  <1>14. CASE Friends!Insert(r)
    <2>1. Met(r)'
      BY <1>1, <1>5, <1>14, FriendInserts DEF Met
    <2> QED BY <1>1, <1>5, <1>8, <1>14, <2>1 DEF Friends!Insert, Friends!Goes, Friends!End, Friends!Ended
  <1>15. CASE Friends!LoseRace(r)
    <2>1. Found(r)
      BY <1>15 DEF Friends!LoseRace, Found, Friends!Between
    <2>2. CASE attempt[r] = 1
      BY <1>1, <1>5, <1>8, <1>15, <2>1, <2>2 DEF Friends!LoseRace, Friends!Goes
    <2>3. CASE attempt[r] # 1
      <3>1. attempt[r] = 2 /\ pc[r] = "inserting" /\ Friends!End(r)
        BY <1>1, <1>15, <2>3 DEF Friends!LoseRace
      <3>2. Parted(r) => Met(r)
        BY DEF Parted, Met
      <3> QED BY <1>1, <1>5, <1>8, <3>1, <3>2 DEF Friends!End, Friends!Goes
    <2> QED BY <2>2, <2>3
  <1>16. CASE Friends!LockPending(r)
    BY <1>16, <1>1, <1>5, <1>8 DEF Friends!LockPending, Friends!Goes, Friends!Take, Friends!Free, Friends!Ended
  <1>17. CASE Friends!CountFriends(r)
    BY <1>17, <1>1, <1>5, <1>8 DEF Friends!CountFriends, Friends!Goes, Friends!Moves, Friends!Ended, StageOK
  <1>18. CASE Friends!Accept(r)
    BY <1>18, <1>1, <1>5, <1>8 DEF Friends!Accept, Friends!Goes, Friends!End, Friends!Release, Friends!Ended, StageOK
  <1>19. CASE Friends!Decline(r)
    BY <1>19, <1>1, <1>5, <1>8 DEF Friends!Decline, Friends!Goes, Friends!End, Friends!Release, Friends!Ended, StageOK
  <1>20. CASE Friends!FindToRemove(r)
    BY <1>20, <1>1, <1>5, <1>8 DEF Friends!FindToRemove, Friends!Goes, Friends!Moves, Friends!Ended, StageOK
  <1>21. CASE Friends!Remove(r)
    BY <1>21, <1>1, <1>5, <1>8 DEF Friends!Remove, Friends!Goes, Friends!End, Friends!Release, Friends!Ended, StageOK
  <1>22. CASE Friends!LockSender(r)
    BY <1>22, <1>1, <1>5, <1>8 DEF Friends!LockSender, Friends!Goes, Friends!Take, Friends!Free, Friends!Ended, Friends!requestVars
  <1>23. CASE Friends!LockFriendship(r)
    BY <1>23, <1>1, <1>5, <1>8 DEF Friends!LockFriendship, Friends!Goes, Friends!Take, Friends!Free, Friends!Ended
  <1>24. CASE Friends!CountGreets(r)
    BY <1>24, <1>1, <1>5, <1>8 DEF Friends!CountGreets, Friends!Goes, Friends!Moves, Friends!Ended, StageOK
  <1>25. CASE Friends!Greet(r)
    BY <1>25, <1>1, <1>5, <1>8 DEF Friends!Greet, Friends!Goes, Friends!End, Friends!Release, Friends!Logged, Friends!Ended, StageOK
  <1>26. CASE Friends!CountGifts(r)
    BY <1>26, <1>1, <1>5, <1>8 DEF Friends!CountGifts, Friends!Goes, Friends!Moves, Friends!Ended, StageOK
  <1>27. CASE Friends!Spend(r)
    BY <1>27, <1>1, <1>5, <1>8 DEF Friends!Spend, Friends!Goes, Friends!Take, Friends!Free, Friends!Ended, StageOK
  <1>28. CASE Friends!Deliver(r)
    BY <1>28, <1>1, <1>5, <1>8 DEF Friends!Deliver, Friends!Goes, Friends!End, Friends!Release, Friends!Logged, Friends!Ended, StageOK
  <1>29. CASE Friends!FindFriend(r)
    BY <1>29, <1>1, <1>5, <1>8 DEF Friends!FindFriend, Friends!Goes, Friends!Ended
  <1>30. CASE Friends!Rent(r)
    BY <1>30, <1>1, <1>5, <1>8 DEF Friends!Rent, Friends!Goes, Friends!End, Friends!Release, Friends!Logged, Friends!Ended, StageOK
  <1>31. CASE FriendUndo(r)
    BY <1>31, <1>1, <1>5, <1>8 DEF FriendUndo, Friends!Goes, Friends!Release, Friends!Undo, Friends!Ended
  <1> QED BY <1>9, <1>10, <1>11, <1>12, <1>13, <1>14, <1>15, <1>16, <1>17, <1>18, <1>19, <1>20, <1>21, <1>22, <1>23, <1>24, <1>25, <1>26, <1>27, <1>28, <1>29, <1>30, <1>31 DEF FriendDoes

FriendRecord(r) == Friends!Greet(r) \/ Friends!Deliver(r) \/ Friends!Rent(r)

LEMMA FriendRecords ==
    ASSUME NEW r \in DOMAIN plan, FriendStages, FriendDoes(r)
    PROVE  /\ pc[r] \notin Friends!Ended
           /\ UNCHANGED log
              \/ /\ FriendRecord(r) /\ Friends!End(r) /\ log' = log \cup {Friends!Logged(r)}
                 /\ pc[r] \in {"holding", "counted", "spent"} /\ Friends!Kind(r) \in {"greet", "gift", "rent"}
  <1>1. StageOK(r)
    BY DEF FriendStages
  <1>2. CASE FriendRecord(r)
    BY <1>1, <1>2 DEF FriendRecord, Friends!Greet, Friends!Deliver, Friends!Rent, StageOK, Friends!Ended
  <1>3. CASE ~FriendRecord(r)
    <2>1. pc[r] \notin Friends!Ended
      BY <1>3 DEF FriendDoes, FriendRecord, Friends!Ended, Friends!Begin, Friends!Look, Friends!CountSlots, Friends!CountWaiting, Friends!Meet, Friends!Insert, Friends!LoseRace, Friends!LockPending,
                  Friends!CountFriends, Friends!Accept, Friends!Decline, Friends!FindToRemove, Friends!Remove, Friends!LockSender, Friends!LockFriendship, Friends!CountGreets,
                  Friends!CountGifts, Friends!Spend, Friends!FindFriend, FriendUndo
    <2>2. UNCHANGED log
      BY <1>3 DEF FriendDoes, FriendRecord, Friends!Begin, Friends!Look, Friends!CountSlots, Friends!CountWaiting, Friends!Meet, Friends!Insert, Friends!LoseRace, Friends!LockPending,
                  Friends!CountFriends, Friends!Accept, Friends!Decline, Friends!FindToRemove, Friends!Remove, Friends!LockSender, Friends!LockFriendship, Friends!CountGreets,
                  Friends!CountGifts, Friends!Spend, Friends!FindFriend, FriendUndo, Friends!Undo, Friends!Moves
    <2> QED BY <2>1, <2>2
  <1> QED BY <1>2, <1>3

LEMMA FriendLogStep ==
    ASSUME Friends!TypeOK, FriendStages, FriendLog, NEW r \in DOMAIN plan, FriendDoes(r), FriendAlone(r)
    PROVE  FriendLog'
  <1>1. /\ r \in Requests /\ plan' = plan /\ DOMAIN plan \subseteq Requests
        /\ pc \in [Requests -> {"idle", "begun", "meeting", "met", "asking", "welcome", "inserting",
                                "holding", "counted", "spent"} \cup Friends!Ended]
    BY FriendRequests DEF Friends!TypeOK, FriendAlone
  <1>2. pc[r] \notin Friends!Ended
    BY FriendRecords
  <1>3. ASSUME NEW e \in log
        PROVE  /\ e.id \in DOMAIN plan /\ pc'[e.id] = "committed" /\ e = Friends!Logged(e.id)'
               /\ Friends!Kind(e.id)' \in {"greet", "gift", "rent"}
    <2>1. /\ e.id \in DOMAIN plan /\ pc[e.id] = "committed" /\ e = Friends!Logged(e.id)
          /\ Friends!Kind(e.id) \in {"greet", "gift", "rent"}
      BY DEF FriendLog
    <2>2. e.id # r /\ e.id \in Requests
      BY <1>1, <1>2, <2>1 DEF Friends!Ended
    <2>3. pc'[e.id] = pc[e.id] /\ target'[e.id] = target[e.id] /\ began'[e.id] = began[e.id]
      BY <2>2 DEF FriendAlone
    <2>4. Friends!Kind(e.id)' = Friends!Kind(e.id) /\ Friends!User(e.id)' = Friends!User(e.id)
      BY <1>1 DEF Friends!Kind, Friends!User
    <2>5. Friends!Logged(e.id)' = Friends!Logged(e.id)
      BY <2>3, <2>4 DEF Friends!Logged
    <2> QED BY <1>1, <2>1, <2>3, <2>4, <2>5
  <1>4. CASE UNCHANGED log
    BY <1>1, <1>3, <1>4 DEF FriendLog
  <1>5. CASE /\ FriendRecord(r) /\ Friends!End(r) /\ log' = log \cup {Friends!Logged(r)}
             /\ Friends!Kind(r) \in {"greet", "gift", "rent"}
    <2>1. IsFiniteSet(log')
      BY <1>5, FS_AddElement DEF FriendLog
    <2>2. Friends!Logged(r).id = r
      BY DEF Friends!Logged
    <2>3. pc'[r] = "committed" /\ target' = target /\ began' = began
      BY <1>1, <1>5 DEF Friends!End, Friends!Goes
    <2>4. Friends!Kind(r)' = Friends!Kind(r) /\ Friends!User(r)' = Friends!User(r)
      BY <1>1 DEF Friends!Kind, Friends!User
    <2>5. Friends!Logged(r)' = Friends!Logged(r)
      BY <2>3, <2>4 DEF Friends!Logged
    <2>6. ASSUME NEW e \in log'
          PROVE  /\ e.id \in DOMAIN plan' /\ pc'[e.id] = "committed" /\ e = Friends!Logged(e.id)'
                 /\ Friends!Kind(e.id)' \in {"greet", "gift", "rent"}
      <3>1. CASE e \in log
        BY <1>1, <1>3, <3>1
      <3>2. CASE e = Friends!Logged(r)
        BY <1>1, <1>5, <2>2, <2>3, <2>4, <2>5, <3>2
      <3> QED BY <1>5, <3>1, <3>2
    <2> QED BY <2>1, <2>6 DEF FriendLog
  <1> QED BY <1>4, <1>5, FriendRecords

LEMMA FriendCountsStep ==
    ASSUME Friends!TypeOK, FriendStages, FriendLocks, FriendCounts, NEW r \in DOMAIN plan, FriendDoes(r), FriendAlone(r)
    PROVE  FriendCounts'
  <1>1. /\ r \in Requests /\ StageOK(r) /\ LocksOK(r) /\ CountOK(r) /\ plan' = plan /\ DOMAIN plan \subseteq Requests
        /\ pc \in [Requests -> {"idle", "begun", "meeting", "met", "asking", "welcome", "inserting",
                                "holding", "counted", "spent"} \cup Friends!Ended]
    BY FriendRequests DEF Friends!TypeOK, FriendStages, FriendLocks, FriendCounts, FriendAlone
  <1>2. UNCHANGED log \/ /\ FriendRecord(r) /\ log' = log \cup {Friends!Logged(r)}
                         /\ pc[r] \in {"holding", "counted", "spent"} /\ Friends!Kind(r) \in {"greet", "gift", "rent"}
    BY FriendRecords
  <1>3. ASSUME NEW s \in DOMAIN plan, s # r
        PROVE  CountOK(s)'
    <2>1. CountOK(s) /\ LocksOK(s) /\ StageOK(s) /\ s \in Requests
      BY <1>1 DEF FriendCounts, FriendLocks, FriendStages
    <2>2. /\ pc'[s] = pc[s] /\ target'[s] = target[s] /\ now'[s] = now[s]
      BY <1>3, <2>1 DEF FriendAlone
    <2>3. Friends!Kind(s)' = Friends!Kind(s) /\ Friends!User(s)' = Friends!User(s)
      BY <1>1 DEF Friends!Kind, Friends!User
    <2>4. ASSUME Friends!Kind(s) = "greet", pc[s] = "counted"
          PROVE  Friends!GreetedToday(s)' = Friends!GreetedToday(s)
      <3>1. Friends!Logged(r).row = target[r] /\ Friends!Logged(r).kind = Friends!Kind(r)
        BY DEF Friends!Logged
      <3>2. FriendRecord(r) => ~(Friends!Logged(r).kind = "greet" /\ Friends!Logged(r).row = target[s])
        BY <1>1, <1>2, <1>3, <2>1, <2>4, <3>1 DEF LocksOK, Holds, Friends!Row, FriendRecord, Friends!Greet, Friends!Deliver, Friends!Rent
      <3>3. {e \in Friends!Today(s)' : e.row = target'[s]} = {e \in Friends!Today(s) : e.row = target[s]}
        BY <1>2, <2>2, <2>3, <2>4, <3>2 DEF Friends!Today
      <3> QED BY <3>3, FriendSame DEF Friends!GreetedToday
    <2>5. ASSUME Friends!Kind(s) = "gift", pc[s] \in {"counted", "spent"}
          PROVE  Friends!GiftsToday(s)' = Friends!GiftsToday(s)
      <3>1. Friends!Logged(r).actor = Friends!User(r) /\ Friends!Logged(r).kind = Friends!Kind(r)
        BY DEF Friends!Logged
      <3>2. FriendRecord(r) => ~(Friends!Logged(r).kind = "gift" /\ Friends!Logged(r).actor = Friends!User(s))
        BY <1>1, <1>2, <1>3, <2>1, <2>5, <3>1 DEF LocksOK, Holds, Friends!Sender, FriendRecord, Friends!Greet, Friends!Deliver, Friends!Rent
      <3>3. Friends!Today(s)' = Friends!Today(s)
        BY <1>2, <2>2, <2>3, <2>5, <3>2 DEF Friends!Today
      <3> QED BY <3>3, FriendSame DEF Friends!GiftsToday
    <2> QED BY <2>1, <2>2, <2>3, <2>4, <2>5 DEF CountOK
  <1>4. SUFFICES CountOK(r)'
    BY <1>1, <1>3 DEF FriendCounts
  <1>5. Friends!Kind(r)' = Friends!Kind(r) /\ Friends!User(r)' = Friends!User(r)
    BY <1>1 DEF Friends!Kind, Friends!User
  <1>6. UNCHANGED <<log, now, target>> => Friends!GreetedToday(r)' = Friends!GreetedToday(r) /\ Friends!GiftsToday(r)' = Friends!GiftsToday(r)
    BY <1>5, FriendSame DEF Friends!GreetedToday, Friends!GiftsToday, Friends!Today
  <1>7. CASE Friends!Begin(r)
    BY <1>7, <1>1, <1>5, <1>6 DEF Friends!Begin, Friends!Goes, Friends!IsDated, CountOK, StageOK, Friends!Ended
  <1>8. CASE Friends!Look(r)
    BY <1>8, <1>1, <1>5, <1>6 DEF Friends!Look, Friends!Goes, CountOK, StageOK, Friends!Ended, Friends!Moves
  <1>9. CASE Friends!CountSlots(r)
    BY <1>9, <1>1, <1>5, <1>6 DEF Friends!CountSlots, Friends!Goes, Friends!Moves, CountOK, StageOK, Friends!Ended
  <1>10. CASE Friends!CountWaiting(r)
    BY <1>10, <1>1, <1>5, <1>6 DEF Friends!CountWaiting, Friends!Goes, Friends!Moves, CountOK, StageOK, Friends!Ended
  <1>11. CASE Friends!Meet(r)
    BY <1>11, <1>1, <1>5, <1>6 DEF Friends!Meet, Friends!Goes, Friends!End, Friends!Release, CountOK, StageOK, Friends!Ended
  <1>12. CASE Friends!Insert(r)
    BY <1>12, <1>1, <1>5, <1>6 DEF Friends!Insert, Friends!Goes, Friends!End, Friends!Release, Friends!Unused, Friends!Unborn, CountOK, StageOK, Friends!Ended
  <1>13. CASE Friends!LoseRace(r)
    BY <1>13, <1>1, <1>5, <1>6 DEF Friends!LoseRace, Friends!Goes, Friends!End, Friends!Release, CountOK, StageOK, Friends!Ended
  <1>14. CASE Friends!LockPending(r)
    BY <1>14, <1>1, <1>5, <1>6 DEF Friends!LockPending, Friends!Goes, Friends!Take, Friends!Free, CountOK, StageOK, Friends!Ended
  <1>15. CASE Friends!CountFriends(r)
    BY <1>15, <1>1, <1>5, <1>6 DEF Friends!CountFriends, Friends!Goes, Friends!Moves, CountOK, StageOK, Friends!Ended
  <1>16. CASE Friends!Accept(r)
    BY <1>16, <1>1, <1>5, <1>6 DEF Friends!Accept, Friends!Goes, Friends!End, Friends!Release, CountOK, StageOK, Friends!Ended
  <1>17. CASE Friends!Decline(r)
    BY <1>17, <1>1, <1>5, <1>6 DEF Friends!Decline, Friends!Goes, Friends!End, Friends!Release, CountOK, StageOK, Friends!Ended
  <1>18. CASE Friends!FindToRemove(r)
    BY <1>18, <1>1, <1>5, <1>6 DEF Friends!FindToRemove, Friends!Goes, Friends!Moves, CountOK, StageOK, Friends!Ended
  <1>19. CASE Friends!Remove(r)
    BY <1>19, <1>1, <1>5, <1>6 DEF Friends!Remove, Friends!Goes, Friends!End, Friends!Release, CountOK, StageOK, Friends!Ended
  <1>20. CASE Friends!LockSender(r)
    BY <1>20, <1>1, <1>5, <1>6 DEF Friends!LockSender, Friends!Goes, Friends!Take, Friends!Free, CountOK, StageOK, Friends!Ended, Friends!requestVars
  <1>21. CASE Friends!LockFriendship(r)
    BY <1>21, <1>1, <1>5, <1>6 DEF Friends!LockFriendship, Friends!Goes, Friends!Take, Friends!Free, CountOK, StageOK, Friends!Ended
  <1>22. CASE Friends!CountGreets(r)
    BY <1>22, <1>1, <1>5, <1>6 DEF Friends!CountGreets, Friends!Goes, Friends!Moves, CountOK, StageOK, Friends!Ended
  <1>23. CASE Friends!Greet(r)
    BY <1>23, <1>1, <1>5, <1>6 DEF Friends!Greet, Friends!Goes, Friends!End, Friends!Release, Friends!Logged, CountOK, StageOK, Friends!Ended
  <1>24. CASE Friends!CountGifts(r)
    BY <1>24, <1>1, <1>5, <1>6 DEF Friends!CountGifts, Friends!Goes, Friends!Moves, CountOK, StageOK, Friends!Ended
  <1>25. CASE Friends!Spend(r)
    BY <1>25, <1>1, <1>5, <1>6 DEF Friends!Spend, Friends!Goes, Friends!Take, Friends!Free, CountOK, StageOK, Friends!Ended
  <1>26. CASE Friends!Deliver(r)
    BY <1>26, <1>1, <1>5, <1>6 DEF Friends!Deliver, Friends!Goes, Friends!End, Friends!Release, Friends!Logged, CountOK, StageOK, Friends!Ended
  <1>27. CASE Friends!FindFriend(r)
    BY <1>27, <1>1, <1>5, <1>6 DEF Friends!FindFriend, Friends!Goes, CountOK, StageOK, Friends!Ended
  <1>28. CASE Friends!Rent(r)
    BY <1>28, <1>1, <1>5, <1>6 DEF Friends!Rent, Friends!Goes, Friends!End, Friends!Release, Friends!Logged, CountOK, StageOK, Friends!Ended
  <1>29. CASE FriendUndo(r)
    BY <1>29, <1>1, <1>5, <1>6 DEF FriendUndo, Friends!Goes, Friends!Release, Friends!Undo, CountOK, StageOK, Friends!Ended
  <1> QED BY <1>7, <1>8, <1>9, <1>10, <1>11, <1>12, <1>13, <1>14, <1>15, <1>16, <1>17, <1>18, <1>19, <1>20, <1>21, <1>22, <1>23, <1>24, <1>25, <1>26, <1>27, <1>28, <1>29 DEF FriendDoes

LEMMA FriendBagsStep ==
    ASSUME Friends!TypeOK, FriendStages, FriendLocks, FriendBags, NEW r \in DOMAIN plan, FriendDoes(r), FriendAlone(r)
    PROVE  FriendBags'
  <1>1. /\ r \in Requests /\ StageOK(r) /\ LocksOK(r) /\ BagOK(r) /\ plan' = plan /\ DOMAIN plan \subseteq Requests
        /\ pc \in [Requests -> {"idle", "begun", "meeting", "met", "asking", "welcome", "inserting",
                                "holding", "counted", "spent"} \cup Friends!Ended]
        /\ bag \in [Users -> Int] /\ Friends!User(r) \in Users /\ Friends!Friend(r) \in Users /\ Friends!User(r) # Friends!Friend(r)
    BY FriendRequests DEF Friends!TypeOK, FriendStages, FriendLocks, FriendBags, FriendAlone
  <1>2. UNCHANGED bag \/ Friends!Deliver(r)
    BY DEF FriendDoes, Friends!Begin, Friends!Look, Friends!CountSlots, Friends!CountWaiting, Friends!Meet, Friends!Insert, Friends!LoseRace, Friends!LockPending, Friends!CountFriends, Friends!Accept,
           Friends!Decline, Friends!FindToRemove, Friends!Remove, Friends!LockSender, Friends!LockFriendship, Friends!CountGreets, Friends!Greet, Friends!CountGifts, Friends!Spend,
           Friends!FindFriend, Friends!Rent, FriendUndo, Friends!Undo, Friends!Moves
  <1>3. ASSUME NEW s \in DOMAIN plan, s # r
        PROVE  BagOK(s)'
    <2>1. BagOK(s) /\ LocksOK(s) /\ StageOK(s) /\ s \in Requests /\ Friends!User(s) \in Users
      BY <1>1, FriendRequests DEF FriendBags, FriendLocks, FriendStages, Friends!TypeOK
    <2>2. pc'[s] = pc[s] /\ Friends!User(s)' = Friends!User(s)
      BY <1>1, <1>3, <2>1 DEF FriendAlone, Friends!User
    <2>3. ASSUME pc[s] = "spent"
          PROVE  bag'[Friends!User(s)] >= 1
      <3>1. CASE UNCHANGED bag
        BY <2>1, <2>3, <3>1 DEF BagOK
      <3>2. CASE Friends!Deliver(r)
        <4>1. Friends!User(s) # Friends!User(r)
          BY <1>1, <1>3, <2>1, <2>3, <3>2 DEF LocksOK, StageOK, Holds, Friends!Bag, Friends!Deliver
        <4>2. bag' = [bag EXCEPT ![Friends!User(r)] = @ - 1, ![Friends!Friend(r)] = @ + 1]
          BY <3>2 DEF Friends!Deliver
        <4>3. bag[Friends!User(s)] >= 1
          BY <2>1, <2>3 DEF BagOK
        <4> QED BY <1>1, <2>1, <4>1, <4>2, <4>3
      <3> QED BY <1>2, <3>1, <3>2
    <2> QED BY <2>2, <2>3 DEF BagOK
  <1>4. SUFFICES BagOK(r)'
    BY <1>1, <1>3 DEF FriendBags
  <1>5. Friends!User(r)' = Friends!User(r)
    BY <1>1 DEF Friends!User
  <1>6. CASE Friends!Begin(r)
    BY <1>6, <1>1, <1>5 DEF Friends!Begin, Friends!Goes, Friends!IsDated, BagOK, StageOK, Friends!Ended
  <1>7. CASE Friends!Look(r)
    BY <1>7, <1>1, <1>5 DEF Friends!Look, Friends!Goes, BagOK, StageOK, Friends!Ended, Friends!Moves
  <1>8. CASE Friends!CountSlots(r)
    BY <1>8, <1>1, <1>5 DEF Friends!CountSlots, Friends!Goes, Friends!Moves, BagOK, StageOK, Friends!Ended
  <1>9. CASE Friends!CountWaiting(r)
    BY <1>9, <1>1, <1>5 DEF Friends!CountWaiting, Friends!Goes, Friends!Moves, BagOK, StageOK, Friends!Ended
  <1>10. CASE Friends!Meet(r)
    BY <1>10, <1>1, <1>5 DEF Friends!Meet, Friends!Goes, Friends!End, Friends!Release, BagOK, StageOK, Friends!Ended
  <1>11. CASE Friends!Insert(r)
    BY <1>11, <1>1, <1>5 DEF Friends!Insert, Friends!Goes, Friends!End, Friends!Release, Friends!Unused, Friends!Unborn, BagOK, StageOK, Friends!Ended
  <1>12. CASE Friends!LoseRace(r)
    BY <1>12, <1>1, <1>5 DEF Friends!LoseRace, Friends!Goes, Friends!End, Friends!Release, BagOK, StageOK, Friends!Ended
  <1>13. CASE Friends!LockPending(r)
    BY <1>13, <1>1, <1>5 DEF Friends!LockPending, Friends!Goes, Friends!Take, Friends!Free, BagOK, StageOK, Friends!Ended
  <1>14. CASE Friends!CountFriends(r)
    BY <1>14, <1>1, <1>5 DEF Friends!CountFriends, Friends!Goes, Friends!Moves, BagOK, StageOK, Friends!Ended
  <1>15. CASE Friends!Accept(r)
    BY <1>15, <1>1, <1>5 DEF Friends!Accept, Friends!Goes, Friends!End, Friends!Release, BagOK, StageOK, Friends!Ended
  <1>16. CASE Friends!Decline(r)
    BY <1>16, <1>1, <1>5 DEF Friends!Decline, Friends!Goes, Friends!End, Friends!Release, BagOK, StageOK, Friends!Ended
  <1>17. CASE Friends!FindToRemove(r)
    BY <1>17, <1>1, <1>5 DEF Friends!FindToRemove, Friends!Goes, Friends!Moves, BagOK, StageOK, Friends!Ended
  <1>18. CASE Friends!Remove(r)
    BY <1>18, <1>1, <1>5 DEF Friends!Remove, Friends!Goes, Friends!End, Friends!Release, BagOK, StageOK, Friends!Ended
  <1>19. CASE Friends!LockSender(r)
    BY <1>19, <1>1, <1>5 DEF Friends!LockSender, Friends!Goes, Friends!Take, Friends!Free, BagOK, StageOK, Friends!Ended, Friends!requestVars
  <1>20. CASE Friends!LockFriendship(r)
    BY <1>20, <1>1, <1>5 DEF Friends!LockFriendship, Friends!Goes, Friends!Take, Friends!Free, BagOK, StageOK, Friends!Ended
  <1>21. CASE Friends!CountGreets(r)
    BY <1>21, <1>1, <1>5 DEF Friends!CountGreets, Friends!Goes, Friends!Moves, BagOK, StageOK, Friends!Ended
  <1>22. CASE Friends!Greet(r)
    BY <1>22, <1>1, <1>5 DEF Friends!Greet, Friends!Goes, Friends!End, Friends!Release, Friends!Logged, BagOK, StageOK, Friends!Ended
  <1>23. CASE Friends!CountGifts(r)
    BY <1>23, <1>1, <1>5 DEF Friends!CountGifts, Friends!Goes, Friends!Moves, BagOK, StageOK, Friends!Ended
  <1>24. CASE Friends!Spend(r)
    BY <1>24, <1>1, <1>5 DEF Friends!Spend, Friends!Goes, Friends!Take, Friends!Free, BagOK, StageOK, Friends!Ended
  <1>25. CASE Friends!Deliver(r)
    BY <1>25, <1>1, <1>5 DEF Friends!Deliver, Friends!Goes, Friends!End, Friends!Release, Friends!Logged, BagOK, StageOK, Friends!Ended
  <1>26. CASE Friends!FindFriend(r)
    BY <1>26, <1>1, <1>5 DEF Friends!FindFriend, Friends!Goes, BagOK, StageOK, Friends!Ended
  <1>27. CASE Friends!Rent(r)
    BY <1>27, <1>1, <1>5 DEF Friends!Rent, Friends!Goes, Friends!End, Friends!Release, Friends!Logged, BagOK, StageOK, Friends!Ended
  <1>28. CASE FriendUndo(r)
    BY <1>28, <1>1, <1>5 DEF FriendUndo, Friends!Goes, Friends!Release, Friends!Undo, BagOK, StageOK, Friends!Ended
  <1> QED BY <1>6, <1>7, <1>8, <1>9, <1>10, <1>11, <1>12, <1>13, <1>14, <1>15, <1>16, <1>17, <1>18, <1>19, <1>20, <1>21, <1>22, <1>23, <1>24, <1>25, <1>26, <1>27, <1>28 DEF FriendDoes

LEMMA FriendPointsStep ==
    ASSUME Friends!TypeOK, FriendStages, FriendTargets, FriendSeen, NEW r \in DOMAIN plan, FriendDoes(r)
    PROVE  /\ ~FriendRecord(r) => \A i \in Relations : rel'[i].points = rel[i].points
           /\ FriendRecord(r) => /\ target[r] \in Relations
                            /\ rel'[target[r]].points = rel[target[r]].points + Friends!PointsOf(Friends!Kind(r))
                            /\ \A i \in Relations \ {target[r]} : rel'[i].points = rel[i].points
  <1>1. /\ rel \in [Relations -> Friends!Relation] /\ StageOK(r) /\ SeenOK(r)
    BY DEF Friends!TypeOK, FriendStages, FriendSeen
  <1>2. ASSUME ~FriendRecord(r)
        PROVE  \A i \in Relations : rel'[i].points = rel[i].points
    <2>1. CASE UNCHANGED rel
      BY <2>1
    <2>2. CASE Friends!Insert(r)
      <3>1. PICK k \in Relations :
                /\ rel[k] = Friends!Unborn /\ rel'[k].points = 0
                /\ \A i \in Relations \ {k} : rel'[i] = rel[i]
        BY <1>1, <2>2, FriendInserts
      <3>2. rel[k].points = 0
        BY <3>1 DEF Friends!Unborn
      <3> QED BY <3>1, <3>2
    <2>3. CASE Friends!Meet(r) \/ Friends!Accept(r) \/ Friends!Decline(r) \/ Friends!Remove(r)
      BY <1>1, <2>3 DEF Friends!Meet, Friends!Accept, Friends!Decline, Friends!Remove, Friends!Relation
    <2> QED BY <1>2, <2>1, <2>2, <2>3, FriendLoud DEF FriendWrites, FriendRecord
  <1>3. ASSUME FriendRecord(r)
        PROVE  /\ target[r] \in Relations
               /\ rel'[target[r]].points = rel[target[r]].points + Friends!PointsOf(Friends!Kind(r))
               /\ \A i \in Relations \ {target[r]} : rel'[i].points = rel[i].points
    <2>1. /\ Friends!Kind(r) \in {"greet", "gift", "rent"} /\ pc[r] \in {"holding", "counted", "spent"}
          /\ pc[r] # "holding" => Friends!Kind(r) \in {"greet", "gift"}
      BY <1>1, <1>3 DEF FriendRecord, Friends!Greet, Friends!Deliver, Friends!Rent, StageOK
    <2>2. target[r] \in Relations
      BY <2>1, FriendKnown
    <2>3. CASE Friends!Greet(r)
      <3>1. seen[r] = rel[target[r]].points /\ Friends!Kind(r) = "greet"
        BY <1>1, <2>3 DEF Friends!Greet, SeenOK
      <3> QED BY <1>1, <2>2, <2>3, <3>1 DEF Friends!Greet, Friends!PointsOf, Friends!Relation
    <2>4. CASE Friends!Deliver(r)
      <3>1. seen[r] = rel[target[r]].points /\ Friends!Kind(r) = "gift"
        BY <1>1, <2>4 DEF Friends!Deliver, SeenOK, StageOK
      <3> QED BY <1>1, <2>2, <2>4, <3>1 DEF Friends!Deliver, Friends!PointsOf, Friends!Relation
    <2>5. CASE Friends!Rent(r)
      BY <1>1, <2>2, <2>5 DEF Friends!Rent, Friends!PointsOf, Friends!Relation
    <2> QED BY <1>3, <2>2, <2>3, <2>4, <2>5 DEF FriendRecord
  <1> QED BY <1>2, <1>3

LEMMA FriendSeenStep ==
    ASSUME Friends!TypeOK, FriendStages, FriendTargets, FriendLocks, FriendSeen, NEW r \in DOMAIN plan, FriendDoes(r), FriendAlone(r)
    PROVE  FriendSeen'
  <1>1. /\ r \in Requests /\ StageOK(r) /\ LocksOK(r) /\ SeenOK(r) /\ plan' = plan /\ DOMAIN plan \subseteq Requests
        /\ pc \in [Requests -> {"idle", "begun", "meeting", "met", "asking", "welcome", "inserting",
                                "holding", "counted", "spent"} \cup Friends!Ended]
        /\ seen \in [Requests -> Nat] /\ NoRequest \notin Requests
    BY FriendParameters, FriendRequests DEF Friends!TypeOK, FriendStages, FriendLocks, FriendSeen, FriendAlone, Friends!FriendAssumption
  <1>2. ASSUME NEW s \in DOMAIN plan, s # r
        PROVE  SeenOK(s)'
    <2>1. SeenOK(s) /\ LocksOK(s) /\ s \in Requests
      BY <1>1 DEF FriendSeen, FriendLocks
    <2>2. /\ pc'[s] = pc[s] /\ target'[s] = target[s] /\ seen'[s] = seen[s] /\ Friends!Kind(s)' = Friends!Kind(s)
      BY <1>1, <1>2, <2>1 DEF FriendAlone, Friends!Kind
    <2>3. ASSUME Friends!Kind(s) \in {"greet", "gift"}, pc[s] \in {"holding", "counted", "spent"}
          PROVE  rel'[target[s]].points = rel[target[s]].points
      <3>1. target[s] \in Relations /\ Holds(s, Friends!Row(target[s]))
        BY <2>1, <2>3, FriendKnown DEF LocksOK
      <3>2. FriendRecord(r) => target[s] # target[r]
        <4>1. CASE Friends!Greet(r) \/ Friends!Deliver(r)
          BY <1>1, <1>2, <3>1, <4>1 DEF Friends!Greet, Friends!Deliver, LocksOK, StageOK, Holds
        <4>2. CASE Friends!Rent(r)
          BY <1>1, <1>2, <2>1, <3>1, <4>2 DEF Friends!Rent, Friends!Free, Holds
        <4> QED BY <4>1, <4>2 DEF FriendRecord
      <3> QED BY <3>1, <3>2, FriendPointsStep
    <2> QED BY <2>1, <2>2, <2>3 DEF SeenOK
  <1>3. SUFFICES SeenOK(r)'
    BY <1>1, <1>2 DEF FriendSeen
  <1>4. Friends!Kind(r)' = Friends!Kind(r)
    BY <1>1 DEF Friends!Kind
  <1>5. CASE Friends!Begin(r)
    BY <1>5, <1>1, <1>4 DEF Friends!Begin, Friends!Goes, Friends!IsDated, SeenOK, StageOK, Friends!Ended
  <1>6. CASE Friends!Look(r)
    BY <1>6, <1>1, <1>4 DEF Friends!Look, Friends!Goes, SeenOK, StageOK, Friends!Ended, Friends!Moves
  <1>7. CASE Friends!CountSlots(r)
    BY <1>7, <1>1, <1>4 DEF Friends!CountSlots, Friends!Goes, Friends!Moves, SeenOK, StageOK, Friends!Ended
  <1>8. CASE Friends!CountWaiting(r)
    BY <1>8, <1>1, <1>4 DEF Friends!CountWaiting, Friends!Goes, Friends!Moves, SeenOK, StageOK, Friends!Ended
  <1>9. CASE Friends!Meet(r)
    BY <1>9, <1>1, <1>4 DEF Friends!Meet, Friends!Goes, Friends!End, Friends!Release, SeenOK, StageOK, Friends!Ended
  <1>10. CASE Friends!Insert(r)
    BY <1>10, <1>1, <1>4 DEF Friends!Insert, Friends!Goes, Friends!End, Friends!Release, Friends!Unused, Friends!Unborn, SeenOK, StageOK, Friends!Ended
  <1>11. CASE Friends!LoseRace(r)
    BY <1>11, <1>1, <1>4 DEF Friends!LoseRace, Friends!Goes, Friends!End, Friends!Release, SeenOK, StageOK, Friends!Ended
  <1>12. CASE Friends!LockPending(r)
    BY <1>12, <1>1, <1>4 DEF Friends!LockPending, Friends!Goes, Friends!Take, Friends!Free, SeenOK, StageOK, Friends!Ended
  <1>13. CASE Friends!CountFriends(r)
    BY <1>13, <1>1, <1>4 DEF Friends!CountFriends, Friends!Goes, Friends!Moves, SeenOK, StageOK, Friends!Ended
  <1>14. CASE Friends!Accept(r)
    BY <1>14, <1>1, <1>4 DEF Friends!Accept, Friends!Goes, Friends!End, Friends!Release, SeenOK, StageOK, Friends!Ended
  <1>15. CASE Friends!Decline(r)
    BY <1>15, <1>1, <1>4 DEF Friends!Decline, Friends!Goes, Friends!End, Friends!Release, SeenOK, StageOK, Friends!Ended
  <1>16. CASE Friends!FindToRemove(r)
    BY <1>16, <1>1, <1>4 DEF Friends!FindToRemove, Friends!Goes, Friends!Moves, SeenOK, StageOK, Friends!Ended
  <1>17. CASE Friends!Remove(r)
    BY <1>17, <1>1, <1>4 DEF Friends!Remove, Friends!Goes, Friends!End, Friends!Release, SeenOK, StageOK, Friends!Ended
  <1>18. CASE Friends!LockSender(r)
    BY <1>18, <1>1, <1>4 DEF Friends!LockSender, Friends!Goes, Friends!Take, Friends!Free, SeenOK, StageOK, Friends!Ended, Friends!requestVars
  <1>19. CASE Friends!LockFriendship(r)
    BY <1>19, <1>1, <1>4 DEF Friends!LockFriendship, Friends!Goes, Friends!Take, Friends!Free, SeenOK, StageOK, Friends!Ended, Friends!IsReadyToLock
  <1>20. CASE Friends!CountGreets(r)
    BY <1>20, <1>1, <1>4 DEF Friends!CountGreets, Friends!Goes, Friends!Moves, SeenOK, StageOK, Friends!Ended
  <1>21. CASE Friends!Greet(r)
    BY <1>21, <1>1, <1>4 DEF Friends!Greet, Friends!Goes, Friends!End, Friends!Release, Friends!Logged, SeenOK, StageOK, Friends!Ended
  <1>22. CASE Friends!CountGifts(r)
    BY <1>22, <1>1, <1>4 DEF Friends!CountGifts, Friends!Goes, Friends!Moves, SeenOK, StageOK, Friends!Ended
  <1>23. CASE Friends!Spend(r)
    BY <1>23, <1>1, <1>4 DEF Friends!Spend, Friends!Goes, Friends!Take, Friends!Free, SeenOK, StageOK, Friends!Ended
  <1>24. CASE Friends!Deliver(r)
    BY <1>24, <1>1, <1>4 DEF Friends!Deliver, Friends!Goes, Friends!End, Friends!Release, Friends!Logged, SeenOK, StageOK, Friends!Ended
  <1>25. CASE Friends!FindFriend(r)
    BY <1>25, <1>1, <1>4 DEF Friends!FindFriend, Friends!Goes, SeenOK, StageOK, Friends!Ended
  <1>26. CASE Friends!Rent(r)
    BY <1>26, <1>1, <1>4 DEF Friends!Rent, Friends!Goes, Friends!End, Friends!Release, Friends!Logged, SeenOK, StageOK, Friends!Ended
  <1>27. CASE FriendUndo(r)
    BY <1>27, <1>1, <1>4 DEF FriendUndo, Friends!Goes, Friends!Release, Friends!Undo, SeenOK, StageOK, Friends!Ended
  <1> QED BY <1>5, <1>6, <1>7, <1>8, <1>9, <1>10, <1>11, <1>12, <1>13, <1>14, <1>15, <1>16, <1>17, <1>18, <1>19, <1>20, <1>21, <1>22, <1>23, <1>24, <1>25, <1>26, <1>27 DEF FriendDoes

LEMMA FriendAskedMeet ==
    ASSUME FriendInv
    PROVE  Friends!CrossingRequestsMeet
  <1> SUFFICES ASSUME NEW r \in DOMAIN plan, NEW s \in DOMAIN plan,
                      Friends!Kind(r) = "request", Friends!Kind(s) = "request", pc[r] = "committed", pc[s] = "committed",
                      Friends!User(r) = Friends!Friend(s), Friends!User(s) = Friends!Friend(r)
               PROVE  \E i \in Relations : rel[i].pair = Friends!Pair(r) /\ (rel[i].accepted \/ rel[i].deleted)
    BY DEF Friends!CrossingRequestsMeet
  <1>1. AskedOK(r) /\ AskedOK(s) /\ Friends!User(r) # Friends!Friend(r) /\ Friends!Pair(r) # {} /\ Friends!Pair(s) = Friends!Pair(r)
    BY FriendRequests DEF FriendInv, FriendAsked, Friends!TypeOK, Friends!Pair
  <1>2. PICK i \in Relations : rel[i].pair = Friends!Pair(r) /\ (rel[i].accepted \/ rel[i].deleted \/ rel[i].by = Friends!User(r))
    BY <1>1 DEF AskedOK
  <1>3. PICK j \in Relations : rel[j].pair = Friends!Pair(r) /\ (rel[j].accepted \/ rel[j].deleted \/ rel[j].by = Friends!User(s))
    BY <1>1 DEF AskedOK
  <1>4. ~rel[i].deleted /\ ~rel[j].deleted => i = j
    BY <1>1, <1>2, <1>3 DEF FriendInv, FriendRows, Friends!IsLive
  <1> QED BY <1>1, <1>2, <1>3, <1>4

LEMMA FriendAgreedStep ==
    ASSUME FriendInv, Friends!BothAgreed, NEW r \in DOMAIN plan, FriendDoes(r), FriendAlone(r),
           \A i \in Relations : rel[i].pair # {} => RowKept(i)
    PROVE  Friends!BothAgreed'
  <1>1. /\ Friends!TypeOK /\ FriendStages /\ FriendTargets /\ FriendRows /\ rel \in [Relations -> Friends!Relation]
        /\ r \in Requests /\ plan' = plan /\ DOMAIN plan \subseteq Requests /\ TargetOK(r) /\ StageOK(r)
        /\ pc \in [Requests -> {"idle", "begun", "meeting", "met", "asking", "welcome", "inserting",
                                "holding", "counted", "spent"} \cup Friends!Ended]
        /\ Friends!User(r) \in Friends!Pair(r) /\ Friends!Pair(r) # {}
    BY FriendRequests DEF FriendInv, Friends!TypeOK, FriendTargets, FriendStages, FriendAlone
  <1> SUFFICES ASSUME NEW i \in Relations \ DOMAIN Founded, rel'[i].accepted
               PROVE  \E s \in DOMAIN plan :
                          /\ Friends!Kind(s)' \in {"request", "accept"} /\ pc'[s] = "committed" /\ target'[s] = i
                          /\ Friends!User(s)' \in rel'[i].pair \ {rel'[i].by}
    BY <1>1 DEF Friends!BothAgreed
  <1>2. CASE rel[i].accepted
    <2>1. PICK s \in DOMAIN plan : /\ Friends!Kind(s) \in {"request", "accept"} /\ pc[s] = "committed" /\ target[s] = i
                                   /\ Friends!User(s) \in rel[i].pair \ {rel[i].by}
      BY <1>2 DEF Friends!BothAgreed
    <2>2. pc[r] \notin Friends!Ended
      BY <1>1, FriendRecords
    <2>3. s # r /\ s \in Requests
      BY <1>1, <2>1, <2>2 DEF Friends!Ended
    <2>4. pc'[s] = pc[s] /\ target'[s] = target[s] /\ Friends!Kind(s)' = Friends!Kind(s) /\ Friends!User(s)' = Friends!User(s)
      BY <1>1, <2>3 DEF FriendAlone, Friends!Kind, Friends!User
    <2>5. rel[i].pair # {}
      BY <2>1
    <2>6. rel'[i].pair = rel[i].pair /\ rel'[i].by = rel[i].by
      BY <2>5 DEF RowKept
    <2> QED BY <2>1, <2>4, <2>6
  <1>3. CASE ~rel[i].accepted
    <2>1. Friends!Meet(r) \/ Friends!Accept(r)
      <3>1. ~UNCHANGED rel
        BY <1>3
      <3>2. ~Friends!Insert(r)
        <4>1. ASSUME Friends!Insert(r) PROVE FALSE
          <5>1. PICK k \in Relations : /\ ~rel'[k].accepted /\ \A j \in Relations \ {k} : rel'[j] = rel[j]
            BY <1>1, <4>1, FriendInserts
          <5> QED BY <1>3, <5>1
        <4> QED BY <4>1
      <3>3. ~(Friends!Decline(r) \/ Friends!Remove(r) \/ Friends!Greet(r) \/ Friends!Deliver(r) \/ Friends!Rent(r))
        BY <1>1, <1>3 DEF Friends!Decline, Friends!Remove, Friends!Greet, Friends!Deliver, Friends!Rent, Friends!Relation
      <3> QED BY <3>1, <3>2, <3>3, FriendLoud DEF FriendWrites
    <2>2. target[r] = i /\ target' = target /\ pc'[r] = "committed"
      BY <1>1, <1>3, <2>1 DEF Friends!Meet, Friends!Accept, Friends!Relation, Friends!End, Friends!Goes
    <2>3. Friends!Kind(r) \in {"request", "accept"} /\ rel[i].pair = Friends!Pair(r) /\ rel[i].by # Friends!User(r)
      <3>1. (Friends!Kind(r) = "request" /\ pc[r] = "met") \/ (Friends!Kind(r) = "accept" /\ pc[r] = "counted")
        BY <2>1 DEF Friends!Meet, Friends!Accept
      <3>2. target[r] # NoRelation
        BY <2>2, FriendParameters DEF Friends!FriendAssumption
      <3> QED BY <1>1, <2>2, <3>1, <3>2 DEF TargetOK
    <2>4. rel'[i].pair = rel[i].pair /\ rel'[i].by = rel[i].by
      BY <1>1, <2>3 DEF RowKept
    <2>5. Friends!Kind(r)' = Friends!Kind(r) /\ Friends!User(r)' = Friends!User(r)
      BY <1>1 DEF Friends!Kind, Friends!User
    <2> QED BY <1>1, <2>2, <2>3, <2>4, <2>5
  <1> QED BY <1>2, <1>3

(* Of a finite set, what one more element makes of a part of it *)
LEMMA GrownPart ==
    ASSUME NEW S, NEW T, IsFiniteSet(T), S \subseteq T, NEW n \in Nat, Cardinality(T) < n, NEW x
    PROVE  Cardinality(S \cup {x}) <= n
  <1>1. IsFiniteSet(S) /\ Cardinality(S) \in Nat /\ Cardinality(T) \in Nat /\ Cardinality(S) <= Cardinality(T)
    BY FS_Subset, FS_CardinalityType
  <1>2. Cardinality(S \cup {x}) \in {Cardinality(S), Cardinality(S) + 1}
    BY <1>1, FS_AddElement
  <1> QED BY <1>1, <1>2

LEMMA FriendLimitsStep ==
    ASSUME FriendInv, Friends!WithinDailyLimits, NEW r \in DOMAIN plan, FriendDoes(r), FriendAlone(r)
    PROVE  Friends!WithinDailyLimits'
  <1>1. /\ Friends!TypeOK /\ FriendStages /\ FriendLog /\ FriendCounts /\ StageOK(r) /\ CountOK(r) /\ r \in Requests
        /\ now \in [Requests -> Friends!Days] /\ began \in [Requests -> Friends!Days]
        /\ GREETS_PER_DAY_PER_FRIEND \in Nat /\ GIFTS_PER_DAY \in Nat
    BY FriendParameters, FriendRequests DEF FriendInv, Friends!TypeOK, FriendStages, FriendCounts, Friends!FriendAssumption
  <1>2. CASE UNCHANGED log
    BY <1>2, FriendSame DEF Friends!WithinDailyLimits
  <1>3. CASE /\ FriendRecord(r) /\ log' = log \cup {Friends!Logged(r)} /\ Friends!Kind(r) \in {"greet", "gift", "rent"}
    <2>1. /\ Friends!Logged(r).kind = Friends!Kind(r) /\ Friends!Logged(r).actor = Friends!User(r) /\ Friends!Logged(r).row = target[r]
          /\ Friends!Logged(r).day = began[r] /\ now[r] <= began[r]
      BY <1>1 DEF Friends!Logged, StageOK
    <2>2. IsFiniteSet(Friends!Today(r)) /\ IsFiniteSet({e \in Friends!Today(r) : e.row = target[r]})
      <3>1. Friends!Today(r) \subseteq log /\ {e \in Friends!Today(r) : e.row = target[r]} \subseteq log
        BY DEF Friends!Today
      <3> QED BY <1>1, <3>1, FS_Subset DEF FriendLog
    <2>3. ASSUME NEW u \in Users, NEW d \in Friends!Days
          PROVE  Cardinality({e \in log' : e.kind = "gift" /\ e.actor = u /\ e.day = d}) <= GIFTS_PER_DAY
      <3> DEFINE past == {e \in log : e.kind = "gift" /\ e.actor = u /\ e.day = d}
                 more == {e \in log' : e.kind = "gift" /\ e.actor = u /\ e.day = d}
      <3>1. CASE Friends!Kind(r) = "gift" /\ Friends!User(r) = u /\ began[r] = d
        <4>1. Cardinality(Friends!Today(r)) < GIFTS_PER_DAY
          BY <1>1, <1>3, <3>1, FriendSame DEF CountOK, FriendRecord, Friends!Greet, Friends!Deliver, Friends!Rent, Friends!GiftsToday
        <4>2. past \subseteq Friends!Today(r)
          BY <2>1, <3>1 DEF Friends!Today
        <4>3. more = past \cup {Friends!Logged(r)}
          BY <1>3, <2>1, <3>1
        <4> QED BY <1>1, <2>2, <4>1, <4>2, <4>3, GrownPart
      <3>2. CASE ~(Friends!Kind(r) = "gift" /\ Friends!User(r) = u /\ began[r] = d)
        <4>1. more = past
          BY <1>3, <2>1, <3>2
        <4> QED BY <4>1, FriendSame DEF Friends!WithinDailyLimits
      <3> QED BY <3>1, <3>2
    <2>4. ASSUME NEW u \in Users, NEW d \in Friends!Days, NEW i \in Relations
          PROVE  Cardinality({e \in {f \in log' : f.kind = "greet" /\ f.actor = u /\ f.day = d} : e.row = i})
                    <= GREETS_PER_DAY_PER_FRIEND
      <3> DEFINE past == {e \in {f \in log : f.kind = "greet" /\ f.actor = u /\ f.day = d} : e.row = i}
                 more == {e \in {f \in log' : f.kind = "greet" /\ f.actor = u /\ f.day = d} : e.row = i}
      <3>1. CASE Friends!Kind(r) = "greet" /\ Friends!User(r) = u /\ began[r] = d /\ target[r] = i
        <4>1. Cardinality({e \in Friends!Today(r) : e.row = target[r]}) < GREETS_PER_DAY_PER_FRIEND
          BY <1>1, <1>3, <3>1, FriendSame DEF CountOK, StageOK, FriendRecord, Friends!Greet, Friends!Deliver, Friends!Rent, Friends!GreetedToday
        <4>2. past \subseteq {e \in Friends!Today(r) : e.row = target[r]}
          BY <2>1, <3>1 DEF Friends!Today
        <4>3. more = past \cup {Friends!Logged(r)}
          BY <1>3, <2>1, <3>1
        <4> QED BY <1>1, <2>2, <4>1, <4>2, <4>3, GrownPart
      <3>2. CASE ~(Friends!Kind(r) = "greet" /\ Friends!User(r) = u /\ began[r] = d /\ target[r] = i)
        <4>1. more = past
          BY <1>3, <2>1, <3>2
        <4>2. Cardinality(past) <= GREETS_PER_DAY_PER_FRIEND
          BY FriendSame DEF Friends!WithinDailyLimits
        <4> QED BY <4>1, <4>2
      <3> QED BY <3>1, <3>2
    <2> QED BY <2>3, <2>4, FriendSame DEF Friends!WithinDailyLimits
  <1> QED BY <1>1, <1>2, <1>3, FriendRecords

GiftsBy(u) == {e \in log : e.kind = "gift" /\ e.actor = u}
GiftsTo(u) == {e \in log : e.kind = "gift" /\ e.actor # u /\ u \in rel[e.row].pair}

LEMMA FriendGiven ==
    Friends!NoItemFromNothing <=>
        \A u \in Users : bag[u] >= 0 /\ bag[u] = FriendItems[u] - Cardinality(GiftsBy(u)) + Cardinality(GiftsTo(u))
  <1>1. ASSUME NEW u \in Users
        PROVE  /\ {e \in {f \in log : f.kind = "gift"} : e.actor = u} = GiftsBy(u)
               /\ {e \in {f \in log : f.kind = "gift"} : e.actor # u /\ u \in rel[e.row].pair} = GiftsTo(u)
    BY DEF GiftsBy, GiftsTo
  <1> QED BY <1>1, FriendSame DEF Friends!NoItemFromNothing

LEMMA FriendGivenNext ==
    Friends!NoItemFromNothing' <=>
        \A u \in Users : bag'[u] >= 0 /\ bag'[u] = FriendItems[u] - Cardinality(GiftsBy(u)') + Cardinality(GiftsTo(u)')
  <1>1. ASSUME NEW u \in Users
        PROVE  /\ {e \in {f \in log' : f.kind = "gift"} : e.actor = u} = GiftsBy(u)'
               /\ {e \in {f \in log' : f.kind = "gift"} : e.actor # u /\ u \in rel'[e.row].pair} = GiftsTo(u)'
    BY DEF GiftsBy, GiftsTo
  <1> QED BY <1>1, FriendSame DEF Friends!NoItemFromNothing

LEMMA FriendItemsStep ==
    ASSUME FriendInv, Friends!NoItemFromNothing, NEW r \in DOMAIN plan, FriendDoes(r),
           \A i \in Relations : rel[i].pair # {} => RowKept(i)
    PROVE  Friends!NoItemFromNothing'
  <1>1. /\ Friends!TypeOK /\ FriendStages /\ FriendTargets /\ FriendLog /\ FriendBags /\ StageOK(r) /\ BagOK(r)
        /\ r \in Requests /\ Friends!User(r) \in Users /\ Friends!Friend(r) \in Users /\ Friends!User(r) # Friends!Friend(r)
        /\ Friends!Pair(r) = {Friends!User(r), Friends!Friend(r)}
        /\ bag \in [Users -> Int] /\ FriendItems \in [Users -> Nat]
    BY FriendParameters, FriendRequests DEF FriendInv, Friends!TypeOK, FriendStages, FriendBags, Friends!FriendAssumption
  <1>2. ASSUME NEW e \in log
        PROVE  e.id \in DOMAIN plan /\ pc[e.id] = "committed" /\ rel'[e.row].pair = rel[e.row].pair
    <2>1. /\ e.id \in DOMAIN plan /\ pc[e.id] = "committed" /\ e = Friends!Logged(e.id)
          /\ Friends!Kind(e.id) \in {"greet", "gift", "rent"}
      BY <1>1 DEF FriendLog
    <2>2. e.row = target[e.id]
      BY <2>1 DEF Friends!Logged
    <2>3. target[e.id] \in Relations /\ rel[target[e.id]].pair = Friends!Pair(e.id)
      BY <1>1, <2>1, FriendKnown
    <2>4. Friends!Pair(e.id) # {}
      BY <1>1, <2>1, FriendRequests DEF Friends!TypeOK
    <2> QED BY <2>1, <2>2, <2>3, <2>4 DEF RowKept
  <1>3. ASSUME NEW u \in Users
        PROVE  /\ IsFiniteSet(GiftsBy(u)) /\ IsFiniteSet(GiftsTo(u))
               /\ Cardinality(GiftsBy(u)) \in Nat /\ Cardinality(GiftsTo(u)) \in Nat
    <2>1. GiftsBy(u) \subseteq log /\ GiftsTo(u) \subseteq log
      BY DEF GiftsBy, GiftsTo
    <2> QED BY <1>1, <2>1, FS_Subset, FS_CardinalityType DEF FriendLog
  <1>4. \A u \in Users : bag[u] >= 0 /\ bag[u] = FriendItems[u] - Cardinality(GiftsBy(u)) + Cardinality(GiftsTo(u))
    BY FriendGiven
  <1>5. CASE UNCHANGED bag /\ (UNCHANGED log \/ (log' = log \cup {Friends!Logged(r)} /\ Friends!Kind(r) # "gift"))
    <2>1. ASSUME NEW u \in Users
          PROVE  GiftsBy(u)' = GiftsBy(u) /\ GiftsTo(u)' = GiftsTo(u)
      <3>1. Friends!Logged(r).kind = Friends!Kind(r)
        BY DEF Friends!Logged
      <3> QED BY <1>2, <1>5, <3>1 DEF GiftsBy, GiftsTo
    <2> QED BY <1>4, <1>5, <2>1, FriendGivenNext
  <1>6. CASE Friends!Deliver(r)
    <2>1. /\ log' = log \cup {Friends!Logged(r)} /\ Friends!Kind(r) = "gift" /\ pc[r] = "spent" /\ bag[Friends!User(r)] >= 1
          /\ bag' = [bag EXCEPT ![Friends!User(r)] = @ - 1, ![Friends!Friend(r)] = @ + 1]
      BY <1>1, <1>6 DEF Friends!Deliver, StageOK, BagOK
    <2>2. Friends!Logged(r).kind = "gift" /\ Friends!Logged(r).actor = Friends!User(r) /\ Friends!Logged(r).row = target[r] /\ Friends!Logged(r).id = r
      BY <2>1 DEF Friends!Logged
    <2>3. Friends!Logged(r) \notin log
      BY <1>2, <2>1, <2>2
    <2>4. rel'[target[r]].pair = {Friends!User(r), Friends!Friend(r)}
      <3>1. target[r] \in Relations /\ rel[target[r]].pair = Friends!Pair(r) /\ Friends!Pair(r) # {}
        BY <1>1, <2>1, FriendKnown
      <3> QED BY <1>1, <3>1 DEF RowKept
    <2>5. ASSUME NEW u \in Users
          PROVE  /\ GiftsBy(u)' = IF u = Friends!User(r) THEN GiftsBy(u) \cup {Friends!Logged(r)} ELSE GiftsBy(u)
                 /\ GiftsTo(u)' = IF u = Friends!Friend(r) THEN GiftsTo(u) \cup {Friends!Logged(r)} ELSE GiftsTo(u)
      <3>1. GiftsBy(u)' = IF u = Friends!User(r) THEN GiftsBy(u) \cup {Friends!Logged(r)} ELSE GiftsBy(u)
        BY <2>1, <2>2 DEF GiftsBy
      <3>2. GiftsTo(u)' = IF u = Friends!Friend(r) THEN GiftsTo(u) \cup {Friends!Logged(r)} ELSE GiftsTo(u)
        BY <1>1, <1>2, <2>1, <2>2, <2>4 DEF GiftsTo
      <3> QED BY <3>1, <3>2
    <2>6. ASSUME NEW u \in Users
          PROVE  /\ Friends!Logged(r) \notin GiftsBy(u) /\ Friends!Logged(r) \notin GiftsTo(u)
                 /\ Cardinality(GiftsBy(u) \cup {Friends!Logged(r)}) = Cardinality(GiftsBy(u)) + 1
                 /\ Cardinality(GiftsTo(u) \cup {Friends!Logged(r)}) = Cardinality(GiftsTo(u)) + 1
      <3>1. Friends!Logged(r) \notin GiftsBy(u) /\ Friends!Logged(r) \notin GiftsTo(u)
        BY <2>3 DEF GiftsBy, GiftsTo
      <3> QED BY <1>3, <3>1, FS_AddElement
    <2>7. ASSUME NEW u \in Users
          PROVE  bag'[u] >= 0 /\ bag'[u] = FriendItems[u] - Cardinality(GiftsBy(u)') + Cardinality(GiftsTo(u)')
      <3>1. CASE u = Friends!User(r)
        <4>1. GiftsBy(u)' = GiftsBy(u) \cup {Friends!Logged(r)} /\ GiftsTo(u)' = GiftsTo(u) /\ bag'[u] = bag[u] - 1 /\ bag[u] >= 1
          BY <1>1, <2>1, <2>5, <3>1
        <4>2. Cardinality(GiftsBy(u)') = Cardinality(GiftsBy(u)) + 1 /\ Cardinality(GiftsTo(u)') = Cardinality(GiftsTo(u))
          BY <2>6, <4>1
        <4>3. /\ Cardinality(GiftsBy(u)) \in Nat /\ Cardinality(GiftsTo(u)) \in Nat /\ bag[u] \in Int /\ FriendItems[u] \in Nat
              /\ bag[u] >= 0 /\ bag[u] = FriendItems[u] - Cardinality(GiftsBy(u)) + Cardinality(GiftsTo(u))
          BY <1>1, <1>3, <1>4
        <4> QED BY <4>1, <4>2, <4>3
      <3>2. CASE u = Friends!Friend(r)
        <4>1. GiftsBy(u)' = GiftsBy(u) /\ GiftsTo(u)' = GiftsTo(u) \cup {Friends!Logged(r)} /\ bag'[u] = bag[u] + 1
          BY <1>1, <2>1, <2>5, <3>2
        <4>2. Cardinality(GiftsBy(u)') = Cardinality(GiftsBy(u)) /\ Cardinality(GiftsTo(u)') = Cardinality(GiftsTo(u)) + 1
          BY <2>6, <4>1
        <4>3. /\ Cardinality(GiftsBy(u)) \in Nat /\ Cardinality(GiftsTo(u)) \in Nat /\ bag[u] \in Int /\ FriendItems[u] \in Nat
              /\ bag[u] >= 0 /\ bag[u] = FriendItems[u] - Cardinality(GiftsBy(u)) + Cardinality(GiftsTo(u))
          BY <1>1, <1>3, <1>4
        <4> QED BY <4>1, <4>2, <4>3
      <3>3. CASE u # Friends!User(r) /\ u # Friends!Friend(r)
        <4>1. GiftsBy(u)' = GiftsBy(u) /\ GiftsTo(u)' = GiftsTo(u) /\ bag'[u] = bag[u]
          BY <1>1, <2>1, <2>5, <3>3
        <4> QED BY <1>4, <4>1
      <3> QED BY <3>1, <3>2, <3>3
    <2> QED BY <2>7, FriendGivenNext
  <1>7. UNCHANGED bag \/ Friends!Deliver(r)
    BY DEF FriendDoes, Friends!Begin, Friends!Look, Friends!CountSlots, Friends!CountWaiting, Friends!Meet, Friends!Insert, Friends!LoseRace, Friends!LockPending, Friends!CountFriends, Friends!Accept,
           Friends!Decline, Friends!FindToRemove, Friends!Remove, Friends!LockSender, Friends!LockFriendship, Friends!CountGreets, Friends!Greet, Friends!CountGifts, Friends!Spend,
           Friends!FindFriend, Friends!Rent, FriendUndo, Friends!Undo, Friends!Moves
  <1>8. ~Friends!Deliver(r) /\ FriendRecord(r) => Friends!Kind(r) # "gift"
    BY DEF FriendRecord, Friends!Greet, Friends!Rent
  <1> QED BY <1>1, <1>5, <1>6, <1>7, <1>8, FriendRecords

LEMMA FriendPlansFinite ==
    ASSUME plan \in FriendPlans
    PROVE  IsFiniteSet(DOMAIN plan)
  BY FriendParameters, FS_Subset, FriendSame DEF Friends!FriendAssumption

LEMMA FriendSumsStep ==
    ASSUME FriendInv, FriendLog', Friends!PointsAddUp, NEW r \in DOMAIN plan, FriendDoes(r), FriendAlone(r)
    PROVE  Friends!PointsAddUp'
  <1>1. /\ Friends!TypeOK /\ FriendStages /\ FriendTargets /\ FriendSeen /\ FriendLog /\ plan' = plan /\ IsFiniteSet(DOMAIN plan)
        /\ rel \in [Relations -> Friends!Relation] /\ \A i \in Relations : rel[i].points \in Nat
    BY FriendPlansFinite DEF FriendInv, Friends!TypeOK, FriendAlone, Friends!Relation
  <1>2. \A s \in DOMAIN plan : Friends!Kind(s)' = Friends!Kind(s) /\ Friends!PointsOf(Friends!Kind(s)) \in Nat
    BY <1>1, FriendParameters DEF Friends!Kind, Friends!PointsOf, Friends!FriendAssumption
  <1>3. \A i \in Relations : Friends!PointsOn(i) \in [DOMAIN plan -> Int] /\ Friends!PointsOn(i)' \in [DOMAIN plan -> Int]
    BY <1>1, <1>2 DEF Friends!PointsOn
  <1>4. SUFFICES ASSUME NEW i \in Relations
                 PROVE  rel'[i].points = SumFunction(Friends!PointsOn(i)')
    BY FriendSame DEF Friends!PointsAddUp
  <1>5. rel[i].points = SumFunction(Friends!PointsOn(i))
    BY FriendSame DEF Friends!PointsAddUp
  <1>6. CASE UNCHANGED log
    <2>1. Friends!PointsOn(i)' = Friends!PointsOn(i)
      BY <1>1, <1>2, <1>6 DEF Friends!PointsOn
    <2>2. rel'[i].points = rel[i].points
      <3>1. ~FriendRecord(r)
        <4>1. Friends!Logged(r).id = r /\ pc[r] # "committed"
          BY <1>1, FriendRecords DEF Friends!Logged, Friends!Ended
        <4>2. Friends!Logged(r) \notin log
          BY <1>1, <4>1 DEF FriendLog
        <4> QED BY <1>6, <4>2 DEF FriendRecord, Friends!Greet, Friends!Deliver, Friends!Rent
      <3> QED BY <1>1, <3>1, FriendPointsStep
    <2> QED BY <1>5, <2>1, <2>2
  <1>7. CASE FriendRecord(r) /\ log' = log \cup {Friends!Logged(r)}
    <2>1. Friends!Logged(r).id = r /\ Friends!Logged(r).row = target[r] /\ pc[r] # "committed"
      BY <1>1, FriendRecords DEF Friends!Logged, Friends!Ended
    <2>2. \A e \in log : e.id # r
      BY <1>1, <2>1 DEF FriendLog
    <2>3. /\ target[r] \in Relations
          /\ rel'[target[r]].points = rel[target[r]].points + Friends!PointsOf(Friends!Kind(r))
          /\ \A j \in Relations \ {target[r]} : rel'[j].points = rel[j].points
      BY <1>1, <1>7, FriendPointsStep
    <2>4. \A s \in DOMAIN plan : s # r => Friends!PointsOn(i)'[s] = Friends!PointsOn(i)[s]
      BY <1>1, <1>2, <1>7, <2>1 DEF Friends!PointsOn
    <2>5. Friends!PointsOn(i)[r] = 0
      BY <2>2 DEF Friends!PointsOn
    <2>6. SumFunction(Friends!PointsOn(i)') = SumFunction(Friends!PointsOn(i)) + Friends!PointsOn(i)'[r] - Friends!PointsOn(i)[r]
      BY <1>1, <1>3, <2>4, SumChanges
    <2>7. CASE i = target[r]
      <3>1. Friends!PointsOn(i)'[r] = Friends!PointsOf(Friends!Kind(r))
        BY <1>1, <1>2, <1>7, <2>1, <2>7 DEF Friends!PointsOn
      <3> QED BY <1>1, <1>2, <1>5, <2>3, <2>5, <2>6, <2>7, <3>1
    <2>8. CASE i # target[r]
      <3>1. Friends!PointsOn(i)'[r] = 0
        BY <1>1, <1>2, <1>7, <2>1, <2>2, <2>8 DEF Friends!PointsOn
      <3> QED BY <1>1, <1>5, <2>3, <2>5, <2>6, <2>8, <3>1
    <2> QED BY <2>7, <2>8
  <1> QED BY <1>1, <1>6, <1>7, FriendRecords

FriendSafe ==
    FriendInv /\ Friends!CrossingRequestsMeet /\ Friends!BothAgreed /\ Friends!WithinDailyLimits /\ Friends!NoItemFromNothing /\ Friends!PointsAddUp

LEMMA FriendFirst ==
    ASSUME Friends!Init
    PROVE  FriendSafe
  <1>1. /\ NoUser \notin Users /\ NoRelation \notin Relations /\ FriendItems \in [Users -> Nat]
        /\ GREETS_PER_DAY_PER_FRIEND \in Nat /\ GIFTS_PER_DAY \in Nat /\ MAX_DAY \in Nat \ {0}
        /\ DOMAIN Founded \subseteq Relations
    BY FriendParameters DEF Friends!FriendAssumption
  <1>2. \A i \in DOMAIN Founded : Founded[i] \subseteq Users /\ Founded[i] # {}
    BY FriendParameters, FS_EmptySet, FriendSame DEF Friends!FriendAssumption
  <1>3. ASSUME NEW i \in Relations
        PROVE  /\ rel[i] \in Friends!Relation /\ rel[i].points = 0 /\ ~rel[i].deleted
               /\ i \in DOMAIN Founded => rel[i].pair = Founded[i]
               /\ i \notin DOMAIN Founded => rel[i] = Friends!Unborn /\ rel[i].pair = {} /\ ~rel[i].accepted
    <2>1. CASE i \in DOMAIN Founded
      <3>1. rel[i] = [pair |-> Founded[i], by |-> CHOOSE u \in Founded[i] : TRUE,
                      accepted |-> TRUE, points |-> 0, deleted |-> FALSE]
        BY <2>1 DEF Friends!Init, Friends!Unborn
      <3>2. (CHOOSE u \in Founded[i] : TRUE) \in Founded[i]
        BY <1>2, <2>1
      <3> HIDE DEF Friends!Init
      <3>3. Founded[i] \in SUBSET Users /\ (CHOOSE u \in Founded[i] : TRUE) \in Users
        BY <1>2, <2>1, <3>2
      <3> QED BY <2>1, <3>1, <3>3 DEF Friends!Relation
    <2>2. CASE i \notin DOMAIN Founded
      BY <1>1, <2>2 DEF Friends!Init, Friends!Unborn, Friends!Relation
    <2> QED BY <2>1, <2>2
  <1>4. /\ plan \in FriendPlans /\ pc = [r \in Requests |-> "idle"] /\ attempt = [r \in Requests |-> 1]
        /\ now = [r \in Requests |-> 1] /\ began = [r \in Requests |-> 1]
        /\ target = [r \in Requests |-> NoRelation] /\ seen = [r \in Requests |-> 0]
        /\ holder = [x \in Friends!Resources |-> NoRequest] /\ bag = FriendItems /\ log = {} /\ day = 1
    BY DEF Friends!Init
  <1>a. rel \in [Relations -> Friends!Relation]
    <2> DEFINE Before(i) == IF i \in DOMAIN Founded
                           THEN [Friends!Unborn EXCEPT !.pair = Founded[i], !.accepted = TRUE,
                                               !.by = CHOOSE u \in Founded[i] : TRUE]
                           ELSE Friends!Unborn
    <2>1. rel = [i \in Relations |-> Before(i)]
      BY DEF Friends!Init
    <2> HIDE DEF Before
    <2> QED BY <1>3, <2>1
  <1>5. DOMAIN plan \subseteq Requests
    BY <1>4, FriendParameters DEF Friends!FriendAssumption
  <1>6. Friends!TypeOK
    BY <1>1, <1>a, <1>4 DEF Friends!TypeOK, Friends!Days, Friends!Ended
  <1>7. FriendStages /\ FriendLocks /\ FriendAsked /\ FriendCounts /\ FriendBags /\ FriendSeen
    BY <1>4, <1>5 DEF FriendStages, FriendLocks, FriendAsked, FriendCounts, FriendBags, FriendSeen,
                      StageOK, LocksOK, AskedOK, CountOK, BagOK, SeenOK
  <1>8. FriendTargets
    BY <1>4, <1>5 DEF FriendTargets, TargetOK
  <1>9. FriendRows
    <2>1. \A i \in Relations : rel[i].pair = {} => rel[i] = Friends!Unborn /\ i \notin DOMAIN Founded
      BY <1>2, <1>3
    <2>2. \A i, j \in Relations : Friends!IsLive(i) /\ Friends!IsLive(j) /\ rel[i].pair = rel[j].pair => i = j
      BY <1>3, FriendParameters DEF Friends!IsLive, Friends!FriendAssumption
    <2> QED BY <2>1, <2>2 DEF FriendRows
  <1>10. FriendLog
    BY <1>4, FS_EmptySet DEF FriendLog
  <1>11. FriendInv
    BY <1>6, <1>7, <1>8, <1>9, <1>10 DEF FriendInv
  <1>12. Friends!CrossingRequestsMeet
    BY <1>11, FriendAskedMeet
  <1>13. Friends!BothAgreed
    BY <1>3 DEF Friends!BothAgreed
  <1>14. Friends!WithinDailyLimits
    <2>1. Cardinality({}) = 0
      BY FS_EmptySet
    <2> DEFINE Gifts(u, d) == {e \in log : e.kind = "gift" /\ e.actor = u /\ e.day = d}
               Greets(u, d, i) == {e \in {f \in log : f.kind = "greet" /\ f.actor = u /\ f.day = d} : e.row = i}
    <2>2. \A u \in Users, d \in Friends!Days : Gifts(u, d) = {} /\ \A i \in Relations : Greets(u, d, i) = {}
      BY <1>4
    <2>3. Friends!WithinDailyLimits <=>
            \A u \in Users, d \in Friends!Days :
                /\ Cardinality(Gifts(u, d)) <= GIFTS_PER_DAY
                /\ \A i \in Relations : Cardinality(Greets(u, d, i)) <= GREETS_PER_DAY_PER_FRIEND
      BY FriendSame DEF Friends!WithinDailyLimits
    <2> HIDE DEF Gifts, Greets
    <2> QED BY <1>1, <2>1, <2>2, <2>3
  <1>15. Friends!NoItemFromNothing
    <2>1. Cardinality({}) = 0
      BY FS_EmptySet
    <2>2. \A u \in Users : GiftsBy(u) = {} /\ GiftsTo(u) = {}
      BY <1>4 DEF GiftsBy, GiftsTo
    <2>3. ASSUME NEW u \in Users
          PROVE  bag[u] >= 0 /\ bag[u] = FriendItems[u] - Cardinality(GiftsBy(u)) + Cardinality(GiftsTo(u))
      <3>1. Cardinality(GiftsBy(u)) = 0 /\ Cardinality(GiftsTo(u)) = 0
        BY <2>1, <2>2
      <3>2. bag[u] = FriendItems[u] /\ FriendItems[u] \in Nat
        BY <1>1, <1>4
      <3> QED BY <3>1, <3>2
    <2> QED BY <2>3, FriendGiven
  <1>16. Friends!PointsAddUp
    <2>1. \A i \in Relations : Friends!PointsOn(i) = [r \in DOMAIN plan |-> 0]
      BY <1>4 DEF Friends!PointsOn
    <2>2. SumFunction([r \in DOMAIN plan |-> 0]) = 0
      BY <1>4, FriendPlansFinite, SumOfZeros
    <2> QED BY <1>3, <2>1, <2>2, FriendSame DEF Friends!PointsAddUp
  <1> QED BY <1>11, <1>12, <1>13, <1>14, <1>15, <1>16 DEF FriendSafe

LEMMA FriendStep ==
    ASSUME FriendSafe, NEW r \in DOMAIN plan, Friends!Step(r) \/ Friends!Fail(r)
    PROVE  FriendSafe' /\ Friends!StaysParted
  <1>1. /\ FriendInv /\ Friends!BothAgreed /\ Friends!WithinDailyLimits /\ Friends!NoItemFromNothing /\ Friends!PointsAddUp
        /\ Friends!TypeOK /\ FriendStages /\ FriendRows /\ FriendTargets /\ FriendLocks
        /\ FriendAsked /\ FriendLog /\ FriendCounts /\ FriendBags /\ FriendSeen
    BY DEF FriendSafe, FriendInv
  <1>2. FriendDoes(r)
    BY FriendActs
  <1>3. Friends!TypeOK' /\ FriendAlone(r)
    BY <1>1, <1>2, FriendTypesStep
  <1>4. (\A i \in Relations : rel[i].pair # {} => RowKept(i)) /\ Friends!StaysParted /\ FriendRows'
    BY <1>1, <1>2, <1>3, FriendRowsStep
  <1>5. FriendStages'
    BY <1>1, <1>2, <1>3, FriendStagesStep
  <1>6. FriendTargets'
    BY <1>1, <1>2, <1>3, <1>4, FriendTargetsStep
  <1>7. FriendLocks'
    BY <1>1, <1>2, <1>3, FriendLocksStep
  <1>8. FriendAsked'
    BY <1>1, <1>2, <1>3, <1>4, FriendAskedStep
  <1>9. FriendLog'
    BY <1>1, <1>2, <1>3, FriendLogStep
  <1>10. FriendCounts'
    BY <1>1, <1>2, <1>3, FriendCountsStep
  <1>11. FriendBags'
    BY <1>1, <1>2, <1>3, FriendBagsStep
  <1>12. FriendSeen'
    BY <1>1, <1>2, <1>3, FriendSeenStep
  <1>13. FriendInv'
    BY <1>3, <1>4, <1>5, <1>6, <1>7, <1>8, <1>9, <1>10, <1>11, <1>12 DEF FriendInv
  <1>14. Friends!CrossingRequestsMeet'
    BY <1>13, FriendAskedMeet, PTL
  <1>15. Friends!BothAgreed'
    BY <1>1, <1>2, <1>3, <1>4, FriendAgreedStep
  <1>16. Friends!WithinDailyLimits'
    BY <1>1, <1>2, <1>3, FriendLimitsStep
  <1>17. Friends!NoItemFromNothing'
    BY <1>1, <1>2, <1>4, FriendItemsStep
  <1>18. Friends!PointsAddUp'
    BY <1>1, <1>2, <1>3, <1>9, FriendSumsStep
  <1> QED BY <1>4, <1>13, <1>14, <1>15, <1>16, <1>17, <1>18 DEF FriendSafe

(* The day may end between any two steps. *)
LEMMA FriendDay ==
    ASSUME FriendSafe, day' \in Friends!Days,
           UNCHANGED <<plan, pc, attempt, now, began, target, seen, holder, rel, bag, log>>
    PROVE  FriendSafe' /\ Friends!StaysParted
  <1>1. /\ UNCHANGED <<plan, pc, attempt, now, began, target, seen, holder, rel, bag, log>>
        /\ day' \in Friends!Days
    OBVIOUS
  <1>2. Friends!TypeOK'
    <2> QED BY <1>1 DEF FriendSafe, FriendInv, Friends!TypeOK
  <1>3. \A i \in Relations : Friends!IsLive(i)' = Friends!IsLive(i) /\ Friends!PointsOn(i)' = Friends!PointsOn(i)
    BY <1>1 DEF Friends!IsLive, Friends!PointsOn, Friends!Kind
  <1>4. \A r \in DOMAIN plan : /\ Friends!Kind(r)' = Friends!Kind(r) /\ Friends!User(r)' = Friends!User(r) /\ Friends!Friend(r)' = Friends!Friend(r) /\ Friends!Pair(r)' = Friends!Pair(r)
                               /\ Friends!Today(r)' = Friends!Today(r) /\ Friends!Logged(r)' = Friends!Logged(r)
    BY <1>1 DEF Friends!Kind, Friends!User, Friends!Friend, Friends!Pair, Friends!Today, Friends!Logged
  <1>5. \A r \in DOMAIN plan : Friends!GreetedToday(r)' = Friends!GreetedToday(r) /\ Friends!GiftsToday(r)' = Friends!GiftsToday(r)
    BY <1>1, <1>4, FriendSame DEF Friends!GreetedToday, Friends!GiftsToday
  <1>6. FriendStages' /\ FriendTargets' /\ FriendAsked' /\ FriendBags' /\ FriendSeen'
    BY <1>1, <1>4 DEF FriendSafe, FriendInv, FriendStages, FriendTargets, FriendAsked, FriendBags, FriendSeen,
                      StageOK, TargetOK, AskedOK, BagOK, SeenOK
  <1>7. FriendLocks'
    BY <1>1, <1>4 DEF FriendSafe, FriendInv, FriendLocks, LocksOK, Holds, Friends!Row, Friends!Sender, Friends!Bag
  <1>8. FriendRows'
    BY <1>1, <1>3 DEF FriendSafe, FriendInv, FriendRows
  <1>9. FriendLog'
    BY <1>1, <1>4 DEF FriendSafe, FriendInv, FriendLog
  <1>10. FriendCounts'
    BY <1>1, <1>4, <1>5 DEF FriendSafe, FriendInv, FriendCounts, CountOK
  <1>11. FriendInv'
    BY <1>2, <1>6, <1>7, <1>8, <1>9, <1>10 DEF FriendInv
  <1>12. Friends!CrossingRequestsMeet' /\ Friends!BothAgreed'
    BY <1>1, <1>4 DEF FriendSafe, Friends!CrossingRequestsMeet, Friends!BothAgreed
  <1>13. Friends!WithinDailyLimits' /\ Friends!NoItemFromNothing' /\ Friends!PointsAddUp'
    BY <1>1, <1>3 DEF FriendSafe, Friends!WithinDailyLimits, Friends!NoItemFromNothing, Friends!PointsAddUp
  <1>14. Friends!StaysParted
    BY <1>1 DEF Friends!StaysParted
  <1> QED BY <1>11, <1>12, <1>13, <1>14 DEF FriendSafe

LEMMA FriendNext ==
    ASSUME FriendSafe, [Friends!Next]_Friends!vars
    PROVE  FriendSafe' /\ Friends!StaysParted
  <1>1. CASE Friends!NextDay
    <2>1. day \in Friends!Days /\ MAX_DAY \in Nat \ {0}
      BY FriendParameters DEF FriendSafe, FriendInv, Friends!TypeOK, Friends!FriendAssumption
    <2>2. day < MAX_DAY /\ day' = day + 1
      BY <1>1 DEF Friends!NextDay
    <2>3. day' \in Friends!Days
      BY <2>1, <2>2 DEF Friends!Days
    <2>4. UNCHANGED <<plan, pc, attempt, now, began, target, seen, holder, rel, bag, log>>
      BY <1>1 DEF Friends!NextDay, Friends!requestVars
    <2> QED BY <2>3, <2>4, FriendDay
  <1>2. CASE UNCHANGED Friends!vars
    <2>1. day \in Friends!Days
      BY DEF FriendSafe, FriendInv, Friends!TypeOK
    <2>2. day' = day /\ UNCHANGED <<plan, pc, attempt, now, began, target, seen, holder, rel, bag, log>>
      BY <1>2 DEF Friends!vars, Friends!requestVars
    <2>3. day' \in Friends!Days
      BY <2>1, <2>2
    <2> QED BY <2>2, <2>3, FriendDay
  <1>3. ASSUME NEW r \in DOMAIN plan, Friends!Step(r) \/ Friends!Fail(r)
        PROVE  FriendSafe' /\ Friends!StaysParted
    BY <1>3, FriendStep
  <1> QED BY <1>1, <1>2, <1>3 DEF Friends!Next

---------------------------------------------------------------------------
(*                                  Stages                                  *)

LEMMA StageSame ==
    /\ \A S : Adventure!Cardinality(S) = Cardinality(S) /\ (Adventure!IsFiniteSet(S) <=> IsFiniteSet(S))
    /\ \A f : Adventure!SumFunction(f) = SumFunction(f)
  <1>1. \A S : Adventure!Cardinality(S) = Cardinality(S)
    BY DEF Adventure!Cardinality, Cardinality
  <1>2. \A S : Adventure!IsFiniteSet(S) <=> IsFiniteSet(S)
    BY DEF Adventure!IsFiniteSet, IsFiniteSet
  <1>3. \A f : Adventure!SumFunction(f) = SumFunction(f)
    BY DEF Adventure!SumFunction, Adventure!SumFunctionOnSet, Adventure!FoldFunctionOnSet,
           Adventure!MapThenFoldSet, SumFunction, SumFunctionOnSet, FoldFunctionOnSet, MapThenFoldSet
  <1> QED BY <1>1, <1>2, <1>3

StageKinds == {"battle", "skip", "raid", "exchange"}
StageWorking == {"read", "room", "fight", "token", "grant", "commit"}
StageChosen == {"room", "fight", "token", "grant", "commit"}

StageLocked(r) ==
    /\ Adventure!Kind(r) # "exchange" /\ pc[r] \in StageWorking => monsters = r
    /\ Adventure!Kind(r) = "exchange" /\ pc[r] \in {"grant", "commit"} => tokenRow = r
    /\ pc[r] = "room" => Adventure!Kind(r) \in {"raid", "exchange"}
    /\ pc[r] = "fight" => Adventure!Kind(r) # "exchange"
    /\ pc[r] = "token" => Adventure!Kind(r) = "raid"
    /\ pc[r] = "spend" => Adventure!Kind(r) = "exchange"
    /\ pc[r] = "lock" => Adventure!Kind(r) # "exchange"

(* A fight has read what is still true when it commits. *)
StageRead(r) ==
    Adventure!Kind(r) # "exchange" /\ pc[r] \in StageChosen =>
        /\ seen[r] = Adventure!Read(r)
        /\ Adventure!Kind(r) \in {"battle", "raid"} => Adventure!IsUnlocked(Adventure!Place(r), Adventure!Read(r))
        /\ Adventure!Kind(r) = "skip" => Adventure!Read(r)[Adventure!Place(r)] > 0
        /\ Adventure!Kind(r) \in {"battle", "skip"} => stamina >= STAMINA_COST * Adventure!Runs(r)

StageTraded(r) ==
    Adventure!Kind(r) = "exchange" =>
        /\ pc[r] \in StageChosen \cup {"spend", "committed"} => raids[Adventure!Place(r)] > 0
        /\ pc[r] \in {"grant", "commit"} => tokens >= EXCHANGE_COST[Adventure!Place(r)]

StageInv ==
    /\ Adventure!TypeOK
    /\ \A r \in DOMAIN plan : StageLocked(r) /\ StageRead(r) /\ StageTraded(r)

StageSafe == StageInv /\ Adventure!ClearsAddUp /\ Adventure!TokensAddUp

(* What a step of r leaves alone. *)
StageAlone(r) ==
    /\ plan' = plan
    /\ \A s \in Requests \ {r} :
          /\ pc'[s] = pc[s] /\ seen'[s] = seen[s] /\ won'[s] = won[s]
          /\ monsters = s => monsters' = s
          /\ tokenRow = s => tokenRow' = s

(* A step that commits nothing. *)
StageQuiet(r) ==
    /\ UNCHANGED Adventure!tables
    /\ pc[r] \notin Adventure!Ended /\ pc'[r] # "committed"

StageMoves(r) ==
    \/ Adventure!Begin(r) \/ Adventure!LockMonsters(r) \/ Adventure!ReadProgress(r) \/ Adventure!CheckBag(r) \/ Adventure!Fight(r)
    \/ Adventure!AddTokens(r) \/ Adventure!SpendTokens(r) \/ Adventure!Grant(r) \/ (pc[r] \notin Adventure!Ended /\ Adventure!Undo(r))

LEMMA StageActs ==
    ASSUME NEW r, Adventure!Step(r) \/ Adventure!Fail(r)
    PROVE  StageMoves(r) \/ Adventure!CommitFight(r) \/ Adventure!CommitExchange(r)
  <1>1. ASSUME Adventure!Refuse(r) PROVE pc[r] \notin Adventure!Ended /\ Adventure!Undo(r)
    BY <1>1 DEF Adventure!Refuse, Adventure!At, Adventure!Ended
  <1>2. ASSUME Adventure!Fail(r) PROVE pc[r] \notin Adventure!Ended /\ Adventure!Undo(r)
    BY <1>2 DEF Adventure!Fail, Adventure!IsOpen
  <1> QED BY <1>1, <1>2 DEF Adventure!Step, StageMoves

LEMMA StageRequests ==
    ASSUME plan \in StagePlans, NEW r \in DOMAIN plan
    PROVE  /\ r \in Requests /\ r # NoRequest
           /\ Adventure!Kind(r) \in StageKinds /\ Adventure!Runs(r) \in Nat \ {0}
           /\ Adventure!Kind(r) \in {"battle", "skip"} => Adventure!Place(r) \in 1..STAGES
           /\ Adventure!Kind(r) \in {"raid", "exchange"} => Adventure!Place(r) \in 1..DIFFICULTIES
           /\ Adventure!Kind(r) # "skip" => Adventure!Runs(r) = 1
  <1>1. /\ r \in Requests /\ NoRequest \notin Requests
        /\ plan[r].kind \in StageKinds
        /\ plan[r].at \in 1..(IF plan[r].kind \in {"battle", "skip"} THEN STAGES ELSE DIFFICULTIES)
        /\ plan[r].runs \in (IF plan[r].kind = "skip" THEN Nat \ {0} ELSE {1})
    BY StagesParameters DEF Adventure!StagesAssumption, StageKinds
  <1>2. Adventure!Runs(r) \in Nat \ {0} /\ (Adventure!Kind(r) # "skip" => Adventure!Runs(r) = 1)
    BY <1>1 DEF Adventure!Kind, Adventure!Runs
  <1>3. /\ Adventure!Kind(r) \in {"battle", "skip"} => Adventure!Place(r) \in 1..STAGES
        /\ Adventure!Kind(r) \in {"raid", "exchange"} => Adventure!Place(r) \in 1..DIFFICULTIES
    BY <1>1 DEF Adventure!Kind, Adventure!Place
  <1> QED BY <1>1, <1>2, <1>3 DEF Adventure!Kind

LEMMA StageParameters ==
    /\ STAGES \in Nat /\ DIFFICULTIES \in Nat
    /\ IsFiniteSet(Requests) /\ NoRequest \notin Requests
    /\ OpeningClears \in [1..STAGES -> Nat] /\ OpeningRaids \in [1..DIFFICULTIES -> Nat]
    /\ Adventure!Follow(OpeningClears) /\ Adventure!Follow(OpeningRaids)
    /\ EXCHANGE_COST \in [1..DIFFICULTIES -> Nat]
    /\ RAID_BOSS_TOKENS_PER_WIN \in Nat /\ STAMINA_COST \in Nat /\ OpeningTokens \in Nat
    /\ OpeningPieces \in Nat /\ OpeningStamina \in Nat
  BY StagesParameters, StageSame DEF Adventure!StagesAssumption

StageControl ==
    /\ plan \in StagePlans
    /\ pc \in [Requests -> Adventure!Labels]
    /\ seen \in [Requests -> [1..0 -> Nat] \cup [1..STAGES -> Nat] \cup [1..DIFFICULTIES -> Nat]]
    /\ won \in [Requests -> BOOLEAN]
    /\ granted \in [Requests -> Nat]
    /\ monsters \in Requests \cup {NoRequest} /\ tokenRow \in Requests \cup {NoRequest}

StageTables ==
    /\ stamina \in Nat
    /\ clears \in [1..STAGES -> Nat] /\ raids \in [1..DIFFICULTIES -> Nat]
    /\ tokens \in Nat /\ pieces \in Nat

LEMMA StageTypesAre == Adventure!TypeOK <=> StageControl /\ StageTables
  BY DEF Adventure!TypeOK, StageControl, StageTables

LEMMA StageMovesAlone ==
    ASSUME StageInv, NEW r \in DOMAIN plan, StageMoves(r)
    PROVE  StageControl' /\ StageAlone(r) /\ StageQuiet(r)
  <1> USE DEF Adventure!Goto, Adventure!At, Adventure!Labels, Adventure!Ended
  <1>1. /\ StageControl /\ StageTables /\ r \in Requests /\ r # NoRequest /\ Adventure!Kind(r) \in StageKinds
        /\ StageLocked(r) /\ NoRequest \notin Requests
    BY StageTypesAre, StageRequests, StageParameters DEF StageInv, StageControl
  <1>2. CASE Adventure!Begin(r)
    BY <1>1, <1>2 DEF Adventure!Begin, StageControl, StageAlone, StageQuiet, Adventure!locks, Adventure!tables
  <1>3. CASE Adventure!LockMonsters(r)
    BY <1>1, <1>3 DEF Adventure!LockMonsters, Adventure!MonstersFree, StageControl, StageAlone, StageQuiet, Adventure!tables
  <1>4. CASE Adventure!ReadProgress(r)
    <2>1. Adventure!Read(r) \in [1..STAGES -> Nat] \cup [1..DIFFICULTIES -> Nat]
      BY <1>1 DEF Adventure!Read, StageTables
    <2> QED BY <1>1, <1>4, <2>1 DEF Adventure!ReadProgress, StageControl, StageAlone, StageQuiet, Adventure!locks, Adventure!tables
  <1>5. CASE Adventure!CheckBag(r)
    BY <1>1, <1>5 DEF Adventure!CheckBag, StageControl, StageAlone, StageQuiet, Adventure!locks, Adventure!tables
  <1>6. CASE Adventure!Fight(r)
    <2>1. PICK victory \in BOOLEAN :
            /\ won' = [won EXCEPT ![r] = victory]
            /\ Adventure!Goto(r, IF ~victory THEN "commit" ELSE IF Adventure!Kind(r) = "raid" THEN "token" ELSE "grant")
      BY <1>6 DEF Adventure!Fight
    <2> QED BY <1>1, <1>6, <2>1 DEF Adventure!Fight, StageControl, StageAlone, StageQuiet, Adventure!locks, Adventure!tables
  <1>7. CASE Adventure!AddTokens(r)
    BY <1>1, <1>7 DEF Adventure!AddTokens, StageControl, StageAlone, StageQuiet, Adventure!tables
  <1>8. CASE Adventure!SpendTokens(r)
    BY <1>1, <1>8 DEF Adventure!SpendTokens, StageControl, StageAlone, StageQuiet, Adventure!tables
  <1>9. CASE Adventure!Grant(r)
    <2>1. granted' \in [Requests -> Nat] /\ UNCHANGED <<plan, seen, won, Adventure!locks, Adventure!tables>>
      BY <1>1, <1>9 DEF Adventure!Grant, StageControl
    <2>2. pc[r] = "grant" /\ (pc' = [pc EXCEPT ![r] = "commit"] \/ pc' = [pc EXCEPT ![r] = "grant"])
      BY <1>9 DEF Adventure!Grant
    <2> QED BY <1>1, <2>1, <2>2, ZenonT(60) DEF StageControl, StageAlone, StageQuiet, Adventure!locks, Adventure!tables
  <1>10. CASE pc[r] \notin Adventure!Ended /\ Adventure!Undo(r)
    BY <1>1, <1>10 DEF Adventure!Undo, Adventure!Release, StageControl, StageAlone, StageQuiet, Adventure!tables
  <1> QED BY <1>2, <1>3, <1>4, <1>5, <1>6, <1>7, <1>8, <1>9, <1>10 DEF StageMoves

(* A step that commits nothing keeps what the others rely on. *)
LEMMA StageOthersRest ==
    ASSUME StageInv, NEW r \in DOMAIN plan, StageAlone(r), UNCHANGED Adventure!tables, NEW s \in DOMAIN plan, s # r
    PROVE  StageLocked(s)' /\ StageRead(s)' /\ StageTraded(s)'
  <1>1. s \in Requests /\ StageLocked(s) /\ StageRead(s) /\ StageTraded(s)
    BY StageRequests DEF StageInv, Adventure!TypeOK
  <1>2. plan' = plan /\ pc'[s] = pc[s] /\ seen'[s] = seen[s] /\ (monsters = s => monsters' = s)
        /\ (tokenRow = s => tokenRow' = s)
    BY <1>1 DEF StageAlone
  <1>3. Adventure!Kind(s)' = Adventure!Kind(s) /\ Adventure!Place(s)' = Adventure!Place(s) /\ Adventure!Runs(s)' = Adventure!Runs(s)
    BY <1>2 DEF Adventure!Kind, Adventure!Place, Adventure!Runs
  <1>4. clears' = clears /\ raids' = raids /\ tokens' = tokens /\ stamina' = stamina
    BY DEF Adventure!tables
  <1>5. Adventure!Read(s)' = Adventure!Read(s)
    BY <1>3, <1>4 DEF Adventure!Read
  <1>6. StageLocked(s)'
    BY <1>1, <1>2, <1>3 DEF StageLocked
  <1>7. StageRead(s)'
    BY <1>1, <1>2, <1>3, <1>4, <1>5 DEF StageRead, Adventure!IsUnlocked
  <1>8. StageTraded(s)'
    BY <1>1, <1>2, <1>3, <1>4 DEF StageTraded
  <1> QED BY <1>6, <1>7, <1>8

LEMMA StageMovesKeep ==
    ASSUME StageInv, NEW r \in DOMAIN plan, StageMoves(r)
    PROVE  StageInv'
  <1>1. StageControl' /\ StageAlone(r) /\ StageQuiet(r)
    BY StageMovesAlone
  <1>2. StageControl /\ StageTables /\ r \in Requests /\ r # NoRequest /\ Adventure!Kind(r) \in StageKinds
        /\ StageLocked(r) /\ StageRead(r) /\ StageTraded(r)
    BY StageTypesAre, StageRequests DEF StageInv, StageControl
  <1>3. Adventure!TypeOK'
    BY <1>1, <1>2 DEF StageControl, StageTables, Adventure!TypeOK, StageQuiet, Adventure!tables
  <1>4. plan' = plan /\ clears' = clears /\ raids' = raids /\ tokens' = tokens /\ stamina' = stamina
    BY <1>1 DEF StageAlone, StageQuiet, Adventure!tables
  <1>5. Adventure!Kind(r)' = Adventure!Kind(r) /\ Adventure!Place(r)' = Adventure!Place(r) /\ Adventure!Runs(r)' = Adventure!Runs(r)
    BY <1>4 DEF Adventure!Kind, Adventure!Place, Adventure!Runs
  <1>6. Adventure!Read(r)' = Adventure!Read(r)
    BY <1>4, <1>5 DEF Adventure!Read
  <1> DEFINE Kept == StageLocked(r)' /\ StageRead(r)' /\ StageTraded(r)'
  <1>7. Kept
    <2> USE DEF Adventure!Goto, Adventure!At
    <2>1. CASE Adventure!Begin(r)
      <3>1. pc[r] = "idle" /\ pc'[r] = IF Adventure!Kind(r) = "exchange" THEN "read" ELSE "lock"
        BY <1>2, <2>1 DEF Adventure!Begin, StageControl
      <3> QED BY <1>2, <1>5, <3>1 DEF StageLocked, StageRead, StageTraded, StageWorking, StageChosen
    <2>2. CASE Adventure!LockMonsters(r)
      <3>1. pc[r] = "lock" /\ pc'[r] = "read" /\ monsters' = r
        BY <1>2, <2>2 DEF Adventure!LockMonsters, StageControl
      <3> QED BY <1>2, <1>5, <3>1 DEF StageLocked, StageRead, StageTraded, StageWorking, StageChosen
    <2>3. CASE Adventure!ReadProgress(r)
      <3>1. pc[r] = "read" /\ pc'[r] = (IF Adventure!Kind(r) \in {"battle", "skip"} THEN "fight" ELSE "room")
            /\ seen'[r] = Adventure!Read(r) /\ ~Adventure!IsRefused(r, Adventure!Read(r)) /\ monsters' = monsters
        BY <1>2, <2>3 DEF Adventure!ReadProgress, StageControl, Adventure!locks
      <3>2. StageLocked(r)'
        BY <1>2, <1>5, <3>1 DEF StageLocked, StageWorking, StageKinds
      <3>3. /\ Adventure!Kind(r) \in {"battle", "raid"} => Adventure!IsUnlocked(Adventure!Place(r), Adventure!Read(r))
            /\ Adventure!Kind(r) = "skip" => Adventure!Read(r)[Adventure!Place(r)] > 0
            /\ Adventure!Kind(r) \in {"battle", "skip"} => stamina >= STAMINA_COST * Adventure!Runs(r)
        <4>1. Adventure!Read(r)[Adventure!Place(r)] \in Nat /\ Adventure!Runs(r) \in Nat /\ STAMINA_COST \in Nat /\ stamina \in Nat
              /\ (Adventure!Kind(r) # "skip" => Adventure!Runs(r) = 1)
          BY <1>2, StageRequests, StageParameters DEF Adventure!Read, StageTables, StageKinds, StageControl
        <4> DEFINE cost == STAMINA_COST * Adventure!Runs(r)
        <4>2. cost \in Nat
          BY <4>1
        <4>3. Adventure!Kind(r) = "battle" => cost = STAMINA_COST
          BY <4>1
        <4> HIDE DEF cost
        <4>4. Adventure!Kind(r) = "skip" => Adventure!Read(r)[Adventure!Place(r)] # 0 /\ ~(stamina < cost)
          BY <3>1 DEF Adventure!IsRefused, cost
        <4>5. Adventure!Kind(r) = "battle" => Adventure!IsUnlocked(Adventure!Place(r), Adventure!Read(r)) /\ ~(stamina < STAMINA_COST)
          BY <3>1 DEF Adventure!IsRefused
        <4>6. Adventure!Kind(r) = "raid" => Adventure!IsUnlocked(Adventure!Place(r), Adventure!Read(r))
          BY <3>1 DEF Adventure!IsRefused
        <4>7. Adventure!Kind(r) \in {"battle", "skip"} => stamina >= cost
          BY <4>1, <4>2, <4>3, <4>4, <4>5
        <4> QED BY <4>1, <4>4, <4>5, <4>6, <4>7 DEF cost
      <3>4. StageRead(r)'
        BY <1>4, <1>5, <1>6, <3>1, <3>3 DEF StageRead, Adventure!IsUnlocked
      <3>5. StageTraded(r)'
        <4>1. Adventure!Kind(r) = "exchange" => Adventure!Place(r) \in 1..DIFFICULTIES /\ raids[Adventure!Place(r)] # 0
          BY <1>2, <3>1, StageRequests DEF Adventure!IsRefused, Adventure!Read, StageControl
        <4>2. Adventure!Kind(r) = "exchange" => raids[Adventure!Place(r)] > 0
          BY <1>2, <4>1 DEF StageTables
        <4> QED BY <1>4, <1>5, <3>1, <4>2 DEF StageTraded
      <3> QED BY <3>2, <3>4, <3>5
    <2>4. CASE Adventure!CheckBag(r)
      <3>1. pc[r] = "room" /\ pc'[r] = (IF Adventure!Kind(r) = "raid" THEN "fight" ELSE "spend")
            /\ seen' = seen /\ monsters' = monsters
        BY <1>2, <2>4 DEF Adventure!CheckBag, StageControl, Adventure!locks
      <3> QED BY <1>2, <1>4, <1>5, <1>6, <3>1 DEF StageLocked, StageRead, StageTraded, StageWorking, StageChosen, Adventure!IsUnlocked
    <2>5. CASE Adventure!Fight(r)
      <3>1. pc[r] = "fight" /\ pc'[r] \in {"commit", "token", "grant"} /\ (pc'[r] = "token" => Adventure!Kind(r) = "raid")
            /\ seen' = seen /\ monsters' = monsters
        BY <1>2, <2>5 DEF Adventure!Fight, StageControl, Adventure!locks
      <3> QED BY <1>2, <1>4, <1>5, <1>6, <3>1 DEF StageLocked, StageRead, StageTraded, StageWorking, StageChosen, Adventure!IsUnlocked
    <2>6. CASE Adventure!AddTokens(r)
      <3>1. pc[r] = "token" /\ pc'[r] = "grant" /\ seen' = seen /\ monsters' = monsters
        BY <1>2, <2>6 DEF Adventure!AddTokens, StageControl
      <3> QED BY <1>2, <1>4, <1>5, <1>6, <3>1 DEF StageLocked, StageRead, StageTraded, StageWorking, StageChosen, Adventure!IsUnlocked
    <2>7. CASE Adventure!SpendTokens(r)
      <3>1. pc[r] = "spend" /\ pc'[r] = "grant" /\ tokenRow' = r /\ Adventure!HasTokens(r) /\ Adventure!Kind(r) = "exchange"
        BY <1>2, <2>7 DEF Adventure!SpendTokens, StageControl, StageLocked
      <3> QED BY <1>2, <1>4, <1>5, <3>1 DEF StageLocked, StageRead, StageTraded, StageWorking, StageChosen, Adventure!HasTokens
    <2>8. CASE Adventure!Grant(r)
      <3>1. pc[r] = "grant" /\ pc'[r] \in {"grant", "commit"} /\ seen' = seen /\ monsters' = monsters
            /\ tokenRow' = tokenRow
        BY <1>2, <2>8 DEF Adventure!Grant, StageControl, Adventure!locks
      <3> QED BY <1>2, <1>4, <1>5, <1>6, <3>1 DEF StageLocked, StageRead, StageTraded, StageWorking, StageChosen, Adventure!IsUnlocked
    <2>9. CASE pc[r] \notin Adventure!Ended /\ Adventure!Undo(r)
      <3>1. pc'[r] = "rolledBack"
        BY <1>2, <2>9 DEF Adventure!Undo, StageControl
      <3> QED BY <3>1 DEF StageLocked, StageRead, StageTraded, StageWorking, StageChosen
    <2> QED BY <2>1, <2>2, <2>3, <2>4, <2>5, <2>6, <2>7, <2>8, <2>9 DEF StageMoves
  <1>8. \A s \in DOMAIN plan : s # r => StageLocked(s)' /\ StageRead(s)' /\ StageTraded(s)'
    BY <1>1, StageOthersRest DEF StageQuiet
  <1> QED BY <1>3, <1>4, <1>7, <1>8 DEF StageInv

(* What r adds to its counts. *)
LEMMA StageCounted ==
    ASSUME StageInv, NEW r \in DOMAIN plan, Adventure!CommitFight(r)
    PROVE  /\ seen[r] = Adventure!Read(r) /\ Adventure!Place(r) \in DOMAIN Adventure!Read(r) /\ Adventure!Read(r)[Adventure!Place(r)] \in Nat
           /\ monsters = r /\ pc[r] = "commit" /\ pc' = [pc EXCEPT ![r] = "committed"]
           /\ Adventure!Kind(r) \in {"battle", "skip"} => stamina >= STAMINA_COST * Adventure!Runs(r)
           /\ \/ Adventure!Place(r) = 1
              \/ Adventure!Read(r)[Adventure!Place(r) - 1] > 0
              \/ Adventure!Read(r)[Adventure!Place(r)] > 0
           /\ UNCHANGED <<plan, seen, won>>
  <1>1. Adventure!Kind(r) # "exchange" /\ pc[r] = "commit"
    BY DEF Adventure!CommitFight, Adventure!At
  <1>2. StageLocked(r) /\ StageRead(r) /\ StageTables /\ Adventure!Kind(r) \in StageKinds
    BY StageTypesAre, StageRequests DEF StageInv, StageControl
  <1>3. monsters = r /\ seen[r] = Adventure!Read(r)
        /\ (Adventure!Kind(r) \in {"battle", "skip"} => stamina >= STAMINA_COST * Adventure!Runs(r))
        /\ (Adventure!Kind(r) \in {"battle", "raid"} => Adventure!IsUnlocked(Adventure!Place(r), Adventure!Read(r)))
        /\ (Adventure!Kind(r) = "skip" => Adventure!Read(r)[Adventure!Place(r)] > 0)
    BY <1>1, <1>2 DEF StageLocked, StageRead, StageWorking, StageChosen
  <1>4. Adventure!Place(r) \in DOMAIN Adventure!Read(r) /\ Adventure!Read(r)[Adventure!Place(r)] \in Nat
    BY <1>1, <1>2, StageRequests DEF Adventure!Read, StageTables, StageKinds, StageInv, Adventure!TypeOK
  <1>5. pc' = [pc EXCEPT ![r] = "committed"] /\ UNCHANGED <<plan, seen, won>>
    BY DEF Adventure!CommitFight, Adventure!Ends, Adventure!Goto
  <1>6. Adventure!Place(r) = 1 \/ Adventure!Read(r)[Adventure!Place(r) - 1] > 0 \/ Adventure!Read(r)[Adventure!Place(r)] > 0
    BY <1>1, <1>2, <1>3 DEF Adventure!IsUnlocked, StageKinds
  <1> QED BY <1>1, <1>3, <1>4, <1>5, <1>6

(* A fight that ends writes one row of one table, and counts what r counts. *)
StageWrote(r, counts, next) ==
    /\ DOMAIN next = DOMAIN counts
    /\ \A i \in DOMAIN counts : next[i] = counts[i] + IF i = Adventure!Place(r) /\ won[r] THEN Adventure!Runs(r) ELSE 0

LEMMA StageWrites ==
    ASSUME StageInv, NEW r \in DOMAIN plan, Adventure!CommitFight(r)
    PROVE  /\ Adventure!Kind(r) \in {"battle", "skip"} =>
                 /\ clears' \in [1..STAGES -> Nat] /\ StageWrote(r, clears, clears') /\ raids' = raids
                 /\ tokens' = tokens
                 /\ stamina' = stamina - STAMINA_COST * Adventure!Runs(r) /\ stamina' \in Nat
           /\ Adventure!Kind(r) = "raid" =>
                 /\ raids' \in [1..DIFFICULTIES -> Nat] /\ StageWrote(r, raids, raids') /\ clears' = clears
                 /\ stamina' = stamina
                 /\ tokens' = tokens + (IF won[r] THEN RAID_BOSS_TOKENS_PER_WIN ELSE 0)
                 /\ tokens' \in Nat
  <1>1. /\ StageTables /\ Adventure!Runs(r) \in Nat /\ r \in Requests /\ won[r] \in BOOLEAN
        /\ RAID_BOSS_TOKENS_PER_WIN \in Nat /\ STAMINA_COST \in Nat
        /\ Adventure!Place(r) \in DOMAIN Adventure!Read(r) /\ seen[r] = Adventure!Read(r) /\ Adventure!Read(r)[Adventure!Place(r)] \in Nat
        /\ (Adventure!Kind(r) \in {"battle", "skip"} => stamina >= STAMINA_COST * Adventure!Runs(r))
    BY StageTypesAre, StageRequests, StageCounted, StageParameters DEF StageInv, StageControl
  <1>2. CASE Adventure!Kind(r) \in {"battle", "skip"}
    <2> DEFINE cost == STAMINA_COST * Adventure!Runs(r)
    <2>1. Adventure!Read(r) = clears /\ clears \in [1..STAGES -> Nat]
      BY <1>1, <1>2 DEF Adventure!Read, StageTables
    <2>2. clears' = Adventure!Counted(r, clears) /\ raids' = raids /\ tokens' = tokens /\ stamina' = stamina - cost
      BY <1>2 DEF Adventure!CommitFight
    <2>3. stamina \in Nat /\ cost \in Nat /\ stamina >= cost
      BY <1>1, <1>2 DEF StageTables
    <2> HIDE DEF cost
    <2>4. stamina' \in Nat
      BY <2>2, <2>3
    <2>5. clears' \in [1..STAGES -> Nat] /\ StageWrote(r, clears, clears')
      <3>1. CASE won[r]
        <4>1. clears' = [clears EXCEPT ![Adventure!Place(r)] = clears[Adventure!Place(r)] + Adventure!Runs(r)]
          BY <1>1, <2>1, <2>2, <3>1 DEF Adventure!Counted
        <4> QED BY <1>1, <2>1, <3>1, <4>1 DEF StageWrote
      <3>2. CASE ~won[r]
        BY <1>1, <2>1, <2>2, <3>2 DEF Adventure!Counted, StageWrote
      <3> QED BY <3>1, <3>2
    <2> QED BY <1>2, <2>2, <2>4, <2>5 DEF cost
  <1>3. CASE Adventure!Kind(r) = "raid"
    <2>1. Adventure!Read(r) = raids /\ raids \in [1..DIFFICULTIES -> Nat]
      BY <1>1, <1>3 DEF Adventure!Read, StageTables
    <2>2. /\ raids' = Adventure!Counted(r, raids) /\ clears' = clears /\ stamina' = stamina
          /\ tokens' = tokens + (IF won[r] THEN RAID_BOSS_TOKENS_PER_WIN ELSE 0)
      BY <1>3 DEF Adventure!CommitFight
    <2>4. tokens' \in Nat
      BY <1>1, <2>2 DEF StageTables
    <2>5. raids' \in [1..DIFFICULTIES -> Nat] /\ StageWrote(r, raids, raids')
      <3>1. CASE won[r]
        <4>1. raids' = [raids EXCEPT ![Adventure!Place(r)] = raids[Adventure!Place(r)] + Adventure!Runs(r)]
          BY <1>1, <2>1, <2>2, <3>1 DEF Adventure!Counted
        <4> QED BY <1>1, <2>1, <3>1, <4>1 DEF StageWrote
      <3>2. CASE ~won[r]
        BY <1>1, <2>1, <2>2, <3>2 DEF Adventure!Counted, StageWrote
      <3> QED BY <3>1, <3>2
    <2> QED BY <1>3, <2>2, <2>4, <2>5
  <1> QED BY <1>2, <1>3

LEMMA StageEnds ==
    ASSUME StageInv, NEW r \in DOMAIN plan, Adventure!CommitFight(r) \/ Adventure!CommitExchange(r)
    PROVE  /\ StageControl' /\ StageAlone(r) /\ pieces' \in Nat
           /\ pc' = [pc EXCEPT ![r] = "committed"] /\ pc[r] = "commit"
           /\ seen' = seen /\ won' = won
  <1>1. /\ StageControl /\ StageTables /\ r \in Requests /\ r # NoRequest /\ NoRequest \notin Requests
    BY StageTypesAre, StageRequests, StageParameters DEF StageInv, StageControl
  <1>2. Adventure!Ends(r) /\ Adventure!At(r, "commit")
    BY DEF Adventure!CommitFight, Adventure!CommitExchange
  <1>3. pieces' \in Nat
    BY <1>1, <1>2 DEF Adventure!Ends, StageControl, StageTables
  <1>4. StageControl' /\ StageAlone(r)
    BY <1>1, <1>2 DEF Adventure!Ends, Adventure!Goto, Adventure!Release, StageControl, StageAlone, Adventure!Labels, Adventure!Ended
  <1> QED BY <1>2, <1>3, <1>4 DEF Adventure!Ends, Adventure!Goto, Adventure!At

LEMMA StageTrades ==
    ASSUME StageInv, NEW r \in DOMAIN plan, Adventure!CommitExchange(r)
    PROVE  /\ tokenRow = r /\ tokens >= EXCHANGE_COST[Adventure!Place(r)] /\ EXCHANGE_COST[Adventure!Place(r)] \in Nat
           /\ tokens' = tokens - EXCHANGE_COST[Adventure!Place(r)] /\ tokens' \in Nat
           /\ raids[Adventure!Place(r)] > 0 /\ Adventure!Kind(r) = "exchange"
           /\ UNCHANGED <<stamina, clears, raids>>
  <1>1. Adventure!Kind(r) = "exchange" /\ pc[r] = "commit" /\ tokens' = tokens - EXCHANGE_COST[Adventure!Place(r)]
        /\ UNCHANGED <<stamina, clears, raids>>
    BY DEF Adventure!CommitExchange, Adventure!At
  <1>2. StageLocked(r) /\ StageTraded(r) /\ Adventure!Place(r) \in 1..DIFFICULTIES /\ tokens \in Nat
    BY <1>1, StageRequests DEF StageInv, Adventure!TypeOK
  <1>3. tokenRow = r /\ tokens >= EXCHANGE_COST[Adventure!Place(r)] /\ raids[Adventure!Place(r)] > 0
    BY <1>1, <1>2 DEF StageLocked, StageTraded, StageChosen
  <1>4. EXCHANGE_COST[Adventure!Place(r)] \in Nat
    BY <1>2, StageParameters
  <1> QED BY <1>1, <1>2, <1>3, <1>4

LEMMA StageEndsKeep ==
    ASSUME StageInv, NEW r \in DOMAIN plan, Adventure!CommitFight(r) \/ Adventure!CommitExchange(r)
    PROVE  StageInv'
  <1>1. /\ StageControl' /\ StageAlone(r) /\ pieces' \in Nat
        /\ pc' = [pc EXCEPT ![r] = "committed"] /\ pc[r] = "commit"
        /\ seen' = seen /\ won' = won
    BY StageEnds
  <1>2. StageControl /\ StageTables /\ r \in Requests /\ Adventure!Kind(r) \in StageKinds
    BY StageTypesAre, StageRequests DEF StageInv, StageControl
  <1>3. StageTables'
    <2>1. CASE Adventure!CommitFight(r)
      <3>1. Adventure!Kind(r) \in {"battle", "skip", "raid"}
        BY <1>2, <2>1 DEF Adventure!CommitFight, StageKinds
      <3>2. (Adventure!Kind(r) \in {"battle", "skip"} => clears' \in [1..STAGES -> Nat] /\ raids' = raids /\ tokens' = tokens /\ stamina' \in Nat)
            /\ (Adventure!Kind(r) = "raid" => raids' \in [1..DIFFICULTIES -> Nat] /\ clears' = clears /\ tokens' \in Nat /\ stamina' = stamina)
        BY <2>1, StageWrites
      <3> QED BY <1>1, <1>2, <3>1, <3>2 DEF StageTables
    <2>2. CASE Adventure!CommitExchange(r)
      <3>1. tokens' \in Nat /\ UNCHANGED <<stamina, clears, raids>>
        BY <2>2, StageTrades
      <3> QED BY <1>1, <1>2, <3>1 DEF StageTables
    <2> QED BY <2>1, <2>2
  <1>4. Adventure!TypeOK'
    BY <1>1, <1>3 DEF StageControl, StageTables, Adventure!TypeOK
  <1>5. \A i \in 1..DIFFICULTIES : raids[i] > 0 => raids'[i] > 0
    <2>1. CASE Adventure!CommitFight(r)
      <3>1. Adventure!Kind(r) \in {"battle", "skip", "raid"} /\ Adventure!Runs(r) \in Nat
        BY <1>2, <2>1, StageRequests DEF Adventure!CommitFight, StageKinds, StageControl
      <3>2. (Adventure!Kind(r) \in {"battle", "skip"} => raids' = raids)
            /\ (Adventure!Kind(r) = "raid" => StageWrote(r, raids, raids'))
        BY <2>1, StageWrites
      <3>3. CASE Adventure!Kind(r) = "raid"
        <4>1. \A i \in 1..DIFFICULTIES : raids[i] \in Nat /\ raids'[i] = raids[i] + IF i = Adventure!Place(r) /\ won[r] THEN Adventure!Runs(r) ELSE 0
          BY <1>2, <3>2, <3>3 DEF StageTables, StageWrote
        <4> QED BY <3>1, <4>1
      <3> QED BY <3>1, <3>2, <3>3
    <2>2. CASE Adventure!CommitExchange(r)
      BY <2>2, StageTrades
    <2> QED BY <2>1, <2>2
  <1>6. \A s \in DOMAIN plan : Adventure!Kind(s)' = Adventure!Kind(s) /\ Adventure!Place(s)' = Adventure!Place(s) /\ Adventure!Runs(s)' = Adventure!Runs(s)
    BY <1>1 DEF StageAlone, Adventure!Kind, Adventure!Place, Adventure!Runs
  <1>7. StageLocked(r)' /\ StageRead(r)' /\ StageTraded(r)'
    <2>1. pc'[r] = "committed"
      BY <1>1, <1>2 DEF StageControl
    <2>2. Adventure!Kind(r) = "exchange" => raids'[Adventure!Place(r)] > 0
      <3>1. Adventure!Kind(r) = "exchange" => Adventure!Place(r) \in 1..DIFFICULTIES /\ raids[Adventure!Place(r)] > 0
        BY StageRequests, StageTrades DEF Adventure!CommitFight, StageInv, Adventure!TypeOK
      <3> QED BY <1>5, <3>1
    <2> QED BY <1>6, <2>1, <2>2 DEF StageLocked, StageRead, StageTraded, StageWorking, StageChosen
  <1>8. ASSUME NEW s \in DOMAIN plan, s # r
        PROVE  StageLocked(s)' /\ StageRead(s)' /\ StageTraded(s)'
    <2>1. s \in Requests /\ StageLocked(s) /\ StageRead(s) /\ StageTraded(s) /\ Adventure!Kind(s) \in StageKinds
      BY <1>2, <1>8, StageRequests DEF StageInv, StageControl
    <2>2. pc'[s] = pc[s] /\ seen'[s] = seen[s] /\ (monsters = s => monsters' = s)
          /\ (tokenRow = s => tokenRow' = s)
      BY <1>1, <1>8, <2>1 DEF StageAlone
    <2>3. Adventure!Kind(s)' = Adventure!Kind(s) /\ Adventure!Place(s)' = Adventure!Place(s) /\ Adventure!Runs(s)' = Adventure!Runs(s)
      BY <1>6
    <2>4. StageLocked(s)'
      BY <2>1, <2>2, <2>3 DEF StageLocked
    <2>5. StageRead(s)'
      <3>1. CASE Adventure!CommitFight(r)
        <4>1. monsters = r
          BY <3>1, StageCounted
        <4>2. ~(Adventure!Kind(s) # "exchange" /\ pc[s] \in StageChosen)
          BY <1>8, <2>1, <4>1 DEF StageLocked, StageChosen, StageWorking
        <4> QED BY <2>2, <2>3, <4>2 DEF StageRead
      <3>2. CASE Adventure!CommitExchange(r)
        <4>1. UNCHANGED <<stamina, clears, raids>>
          BY <3>2, StageTrades
        <4>2. Adventure!Read(s)' = Adventure!Read(s)
          BY <2>3, <4>1 DEF Adventure!Read
        <4> QED BY <2>1, <2>2, <2>3, <4>1, <4>2 DEF StageRead, Adventure!IsUnlocked
      <3> QED BY <3>1, <3>2
    <2>6. StageTraded(s)'
      <3>1. Adventure!Kind(s) = "exchange" => Adventure!Place(s) \in 1..DIFFICULTIES /\ EXCHANGE_COST[Adventure!Place(s)] \in Nat
        BY <1>2, StageRequests, StageParameters DEF StageControl
      <3>2. Adventure!Kind(s) = "exchange" /\ pc[s] \in {"grant", "commit"} => tokens' >= EXCHANGE_COST[Adventure!Place(s)]
        <4>1. CASE Adventure!CommitFight(r)
          <5>1. tokens' >= tokens /\ tokens \in Nat /\ tokens' \in Nat
            <6>1. Adventure!Kind(r) \in {"battle", "skip", "raid"} /\ tokens \in Nat /\ RAID_BOSS_TOKENS_PER_WIN \in Nat
              BY <1>2, <4>1, StageParameters DEF Adventure!CommitFight, StageKinds, StageTables
            <6>2. tokens' = tokens \/ tokens' = tokens + (IF won[r] THEN RAID_BOSS_TOKENS_PER_WIN ELSE 0)
              BY <4>1, <6>1, StageWrites
            <6> QED BY <6>1, <6>2
          <5> QED BY <2>1, <3>1, <5>1 DEF StageTraded
        <4>2. CASE Adventure!CommitExchange(r)
          <5>1. tokenRow = r
            BY <4>2, StageTrades
          <5> QED BY <1>8, <2>1, <5>1 DEF StageLocked
        <4> QED BY <4>1, <4>2
      <3> QED BY <1>5, <2>1, <2>2, <2>3, <3>1, <3>2 DEF StageTraded
    <2> QED BY <2>4, <2>5, <2>6
  <1> QED BY <1>1, <1>4, <1>7, <1>8 DEF StageInv, StageAlone

LEMMA StagePlanFinite ==
    ASSUME plan \in StagePlans
    PROVE  IsFiniteSet(DOMAIN plan)
  BY StagesParameters, FS_Subset, StageSame DEF Adventure!StagesAssumption

(* What the sums are sums of. *)
StageSumsAreSums ==
    /\ \A kinds, i : Adventure!RunsWon(kinds, i) \in [DOMAIN plan -> Int]
    /\ Adventure!StaminaSpent \in [DOMAIN plan -> Int] /\ Adventure!TokensSpent \in [DOMAIN plan -> Int]
    /\ Adventure!TokensWon \in [DOMAIN plan -> Int]

LEMMA StageSumTypes ==
    ASSUME StageInv
    PROVE  StageSumsAreSums
  <1>1. plan \in StagePlans
    BY DEF StageInv, Adventure!TypeOK
  <1>2. \A r \in DOMAIN plan : Adventure!Runs(r) \in Nat
    BY <1>1, StageRequests
  <1>3. STAMINA_COST \in Nat /\ RAID_BOSS_TOKENS_PER_WIN \in Nat
    BY StageParameters
  <1>4. \A r \in DOMAIN plan : STAMINA_COST * Adventure!Runs(r) \in Int
    BY <1>2, <1>3
  <1>5. \A r \in DOMAIN plan : Adventure!Kind(r) = "exchange" => EXCHANGE_COST[Adventure!Place(r)] \in Int
    BY <1>1, StageRequests, StageParameters
  <1>6. \A kinds, i : Adventure!RunsWon(kinds, i) \in [DOMAIN plan -> Int]
    BY <1>2 DEF Adventure!RunsWon
  <1>7. Adventure!StaminaSpent \in [DOMAIN plan -> Int]
    BY <1>4 DEF Adventure!StaminaSpent
  <1>8. Adventure!TokensSpent \in [DOMAIN plan -> Int]
    BY <1>5 DEF Adventure!TokensSpent, Adventure!Done
  <1>9. Adventure!TokensWon \in [DOMAIN plan -> Int]
    BY <1>3 DEF Adventure!TokensWon
  <1> QED BY <1>6, <1>7, <1>8, <1>9 DEF StageSumsAreSums

(* A request that commits is one more that is done. *)
StageCommits(r) ==
    /\ plan' = plan /\ won' = won /\ seen' = seen
    /\ pc[r] # "committed" /\ pc' = [pc EXCEPT ![r] = "committed"]

LEMMA StageJoins ==
    ASSUME StageInv, NEW r \in DOMAIN plan, StageCommits(r)
    PROVE  /\ \A kinds : r \notin Adventure!Done(kinds)
           /\ \A kinds : Adventure!Done(kinds)' = IF Adventure!Kind(r) \in kinds THEN Adventure!Done(kinds) \cup {r} ELSE Adventure!Done(kinds)
           /\ \A s \in DOMAIN plan : /\ Adventure!Kind(s)' = Adventure!Kind(s) /\ Adventure!Place(s)' = Adventure!Place(s) /\ Adventure!Runs(s)' = Adventure!Runs(s)
                                     /\ won'[s] = won[s] /\ Adventure!IsFirstClear(s)' = Adventure!IsFirstClear(s)
  <1>1. \A s \in DOMAIN plan : Adventure!Kind(s)' = Adventure!Kind(s) /\ Adventure!Place(s)' = Adventure!Place(s) /\ Adventure!Runs(s)' = Adventure!Runs(s)
    BY DEF StageCommits, Adventure!Kind, Adventure!Place, Adventure!Runs
  <1>2. \A s \in DOMAIN plan : pc'[s] = IF s = r THEN "committed" ELSE pc[s]
    BY StageRequests DEF StageCommits, StageInv, Adventure!TypeOK
  <1>3. \A kinds : r \notin Adventure!Done(kinds)
    BY DEF StageCommits, Adventure!Done
  <1>4. ASSUME NEW kinds
        PROVE  Adventure!Done(kinds)' = IF Adventure!Kind(r) \in kinds THEN Adventure!Done(kinds) \cup {r} ELSE Adventure!Done(kinds)
    <2>1. \A s : s \in Adventure!Done(kinds)' <=> s \in DOMAIN plan /\ Adventure!Kind(s) \in kinds /\ pc'[s] = "committed"
      BY <1>1 DEF Adventure!Done, StageCommits
    <2>2. \A s : s \in Adventure!Done(kinds) <=> s \in DOMAIN plan /\ Adventure!Kind(s) \in kinds /\ pc[s] = "committed"
      BY DEF Adventure!Done
    <2> QED BY <1>2, <2>1, <2>2
  <1>5. \A s \in DOMAIN plan : won'[s] = won[s] /\ Adventure!IsFirstClear(s)' = Adventure!IsFirstClear(s)
    BY <1>1 DEF StageCommits, Adventure!IsFirstClear
  <1> QED BY <1>1, <1>3, <1>4, <1>5

LEMMA StageSumsGrow ==
    ASSUME StageInv, StageInv', NEW r \in DOMAIN plan, StageCommits(r)
    PROVE  /\ \A kinds, i : SumFunction(Adventure!RunsWon(kinds, i))' = SumFunction(Adventure!RunsWon(kinds, i))
                 + (IF Adventure!Kind(r) \in kinds /\ Adventure!Place(r) = i /\ won[r] THEN Adventure!Runs(r) ELSE 0)
           /\ SumFunction(Adventure!StaminaSpent)' = SumFunction(Adventure!StaminaSpent)
                 + (IF Adventure!Kind(r) \in {"battle", "skip"} THEN STAMINA_COST * Adventure!Runs(r) ELSE 0)
           /\ SumFunction(Adventure!TokensSpent)' = SumFunction(Adventure!TokensSpent)
                 + (IF Adventure!Kind(r) = "exchange" THEN EXCHANGE_COST[Adventure!Place(r)] ELSE 0)
           /\ SumFunction(Adventure!TokensWon)' = SumFunction(Adventure!TokensWon)
                 + (IF Adventure!Kind(r) = "raid" /\ won[r] THEN RAID_BOSS_TOKENS_PER_WIN ELSE 0)
  <1>1. IsFiniteSet(DOMAIN plan) /\ plan' = plan /\ StageSumsAreSums /\ StageSumsAreSums'
    <2>1. StageSumsAreSums'
      BY StageSumTypes, PTL
    <2> QED BY <2>1, StagePlanFinite, StageSumTypes DEF StageInv, Adventure!TypeOK, StageCommits
  <1>2. /\ \A kinds : r \notin Adventure!Done(kinds)
        /\ \A kinds : Adventure!Done(kinds)' = IF Adventure!Kind(r) \in kinds THEN Adventure!Done(kinds) \cup {r} ELSE Adventure!Done(kinds)
        /\ \A s \in DOMAIN plan : Adventure!Kind(s)' = Adventure!Kind(s) /\ Adventure!Place(s)' = Adventure!Place(s) /\ Adventure!Runs(s)' = Adventure!Runs(s) /\ won'[s] = won[s]
    BY StageJoins
  <1>3. ASSUME NEW kinds, NEW i
        PROVE  SumFunction(Adventure!RunsWon(kinds, i))' = SumFunction(Adventure!RunsWon(kinds, i))
                 + (IF Adventure!Kind(r) \in kinds /\ Adventure!Place(r) = i /\ won[r] THEN Adventure!Runs(r) ELSE 0)
    <2> DEFINE f == Adventure!RunsWon(kinds, i)
               g == Adventure!RunsWon(kinds, i)'
               n == IF Adventure!Kind(r) \in kinds /\ Adventure!Place(r) = i /\ won[r] THEN Adventure!Runs(r) ELSE 0
    <2>1. f \in [DOMAIN plan -> Int] /\ g \in [DOMAIN plan -> Int]
      BY <1>1 DEF StageSumsAreSums
    <2>2. \A s \in DOMAIN plan : s # r => g[s] = f[s]
      BY <1>1, <1>2 DEF Adventure!RunsWon, Adventure!Wins
    <2>3. g[r] - f[r] = n
      <3>1. f[r] = 0
        BY <1>2 DEF Adventure!RunsWon, Adventure!Wins
      <3>2. g[r] = n
        BY <1>1, <1>2 DEF Adventure!RunsWon, Adventure!Wins
      <3>3. n \in Int
        BY <2>1, <3>2
      <3> HIDE DEF f, g, n
      <3> QED BY <3>1, <3>2, <3>3
    <2> HIDE DEF f, g, n
    <2>4. SumFunction(g) = SumFunction(f) + g[r] - f[r]
      BY <1>1, <2>1, <2>2, SumChanges
    <2>5. SumFunction(f) \in Int
      BY <1>1, <2>1, SumIsInt
    <2>6. SumFunction(g) = SumFunction(f) + n
      BY <2>1, <2>3, <2>4, <2>5
    <2> QED BY <2>6 DEF f, g, n
  <1>4. SumFunction(Adventure!StaminaSpent)' = SumFunction(Adventure!StaminaSpent) + (IF Adventure!Kind(r) \in {"battle", "skip"} THEN STAMINA_COST * Adventure!Runs(r) ELSE 0)
    <2> DEFINE f == Adventure!StaminaSpent
               g == Adventure!StaminaSpent'
               n == IF Adventure!Kind(r) \in {"battle", "skip"} THEN STAMINA_COST * Adventure!Runs(r) ELSE 0
    <2>1. f \in [DOMAIN plan -> Int] /\ g \in [DOMAIN plan -> Int]
      BY <1>1 DEF StageSumsAreSums
    <2>2. \A s \in DOMAIN plan : s # r => g[s] = f[s]
      BY <1>1, <1>2 DEF Adventure!StaminaSpent
    <2>3. g[r] - f[r] = n
      <3>1. f[r] = 0
        BY <1>2 DEF Adventure!StaminaSpent
      <3>2. g[r] = n
        BY <1>1, <1>2 DEF Adventure!StaminaSpent
      <3>3. n \in Int
        BY <2>1, <3>2
      <3> HIDE DEF f, g, n
      <3> QED BY <3>1, <3>2, <3>3
    <2> HIDE DEF f, g, n
    <2>4. SumFunction(g) = SumFunction(f) + g[r] - f[r]
      BY <1>1, <2>1, <2>2, SumChanges
    <2>5. SumFunction(f) \in Int
      BY <1>1, <2>1, SumIsInt
    <2>6. SumFunction(g) = SumFunction(f) + n
      BY <2>1, <2>3, <2>4, <2>5
    <2> QED BY <2>6 DEF f, g, n
  <1>5. SumFunction(Adventure!TokensSpent)' = SumFunction(Adventure!TokensSpent) + (IF Adventure!Kind(r) = "exchange" THEN EXCHANGE_COST[Adventure!Place(r)] ELSE 0)
    <2> DEFINE f == Adventure!TokensSpent
               g == Adventure!TokensSpent'
               n == IF Adventure!Kind(r) = "exchange" THEN EXCHANGE_COST[Adventure!Place(r)] ELSE 0
    <2>1. f \in [DOMAIN plan -> Int] /\ g \in [DOMAIN plan -> Int]
      BY <1>1 DEF StageSumsAreSums
    <2>2. \A s \in DOMAIN plan : s # r => g[s] = f[s]
      BY <1>1, <1>2 DEF Adventure!TokensSpent
    <2>3. g[r] - f[r] = n
      <3>1. f[r] = 0
        BY <1>2 DEF Adventure!TokensSpent
      <3>2. g[r] = n
        BY <1>1, <1>2 DEF Adventure!TokensSpent
      <3>3. n \in Int
        BY <2>1, <3>2
      <3> HIDE DEF f, g, n
      <3> QED BY <3>1, <3>2, <3>3
    <2> HIDE DEF f, g, n
    <2>4. SumFunction(g) = SumFunction(f) + g[r] - f[r]
      BY <1>1, <2>1, <2>2, SumChanges
    <2>5. SumFunction(f) \in Int
      BY <1>1, <2>1, SumIsInt
    <2>6. SumFunction(g) = SumFunction(f) + n
      BY <2>1, <2>3, <2>4, <2>5
    <2> QED BY <2>6 DEF f, g, n
  <1>6. SumFunction(Adventure!TokensWon)' = SumFunction(Adventure!TokensWon) + (IF Adventure!Kind(r) = "raid" /\ won[r] THEN RAID_BOSS_TOKENS_PER_WIN ELSE 0)
    <2> DEFINE f == Adventure!TokensWon
               g == Adventure!TokensWon'
               n == IF Adventure!Kind(r) = "raid" /\ won[r] THEN RAID_BOSS_TOKENS_PER_WIN ELSE 0
    <2>1. f \in [DOMAIN plan -> Int] /\ g \in [DOMAIN plan -> Int]
      BY <1>1 DEF StageSumsAreSums
    <2>2. \A s \in DOMAIN plan : s # r => g[s] = f[s]
      BY <1>1, <1>2 DEF Adventure!TokensWon
    <2>3. g[r] - f[r] = n
      <3>1. f[r] = 0
        BY <1>2 DEF Adventure!TokensWon
      <3>2. g[r] = n
        BY <1>1, <1>2 DEF Adventure!TokensWon
      <3>3. n \in Int
        BY <2>1, <3>2
      <3> HIDE DEF f, g, n
      <3> QED BY <3>1, <3>2, <3>3
    <2> HIDE DEF f, g, n
    <2>4. SumFunction(g) = SumFunction(f) + g[r] - f[r]
      BY <1>1, <2>1, <2>2, SumChanges
    <2>5. SumFunction(f) \in Int
      BY <1>1, <2>1, SumIsInt
    <2>6. SumFunction(g) = SumFunction(f) + n
      BY <2>1, <2>3, <2>4, <2>5
    <2> QED BY <2>6 DEF f, g, n
  <1> QED BY <1>3, <1>4, <1>5, <1>6

StageFirstWins(kinds, i) == {r \in Adventure!Wins(kinds, i) : Adventure!IsFirstClear(r)}

(* Nothing is committed: what is done and what it counted stay. *)
StageRests ==
    /\ plan' = plan /\ UNCHANGED Adventure!tables
    /\ \A kinds : Adventure!Done(kinds)' = Adventure!Done(kinds)
    /\ \A s \in DOMAIN plan : pc[s] = "committed" => won'[s] = won[s] /\ seen'[s] = seen[s]

LEMMA StageRestKeeps ==
    ASSUME Adventure!ClearsAddUp, Adventure!TokensAddUp, StageRests
    PROVE  Adventure!ClearsAddUp' /\ Adventure!TokensAddUp'
  <1>1. \A s \in DOMAIN plan : Adventure!Kind(s)' = Adventure!Kind(s) /\ Adventure!Place(s)' = Adventure!Place(s) /\ Adventure!Runs(s)' = Adventure!Runs(s)
    BY DEF StageRests, Adventure!Kind, Adventure!Place, Adventure!Runs
  <1>2. ASSUME NEW kinds, NEW i
        PROVE  /\ Adventure!Wins(kinds, i)' = Adventure!Wins(kinds, i) /\ Adventure!RunsWon(kinds, i)' = Adventure!RunsWon(kinds, i)
               /\ StageFirstWins(kinds, i)' = StageFirstWins(kinds, i)
    <2>1. Adventure!Done(kinds)' = Adventure!Done(kinds) /\ plan' = plan
          /\ \A s \in Adventure!Done(kinds) : s \in DOMAIN plan /\ won'[s] = won[s] /\ seen'[s] = seen[s]
      BY DEF StageRests, Adventure!Done
    <2>2. Adventure!Wins(kinds, i)' = Adventure!Wins(kinds, i) /\ \A s \in Adventure!Wins(kinds, i) : s \in Adventure!Done(kinds)
      BY <1>1, <2>1 DEF Adventure!Wins
    <2>3. Adventure!RunsWon(kinds, i)' = Adventure!RunsWon(kinds, i)
      BY <1>1, <2>1, <2>2 DEF Adventure!RunsWon
    <2>4. \A s \in Adventure!Wins(kinds, i) : Adventure!IsFirstClear(s)' = Adventure!IsFirstClear(s)
      BY <1>1, <2>1, <2>2 DEF Adventure!IsFirstClear
    <2>5. StageFirstWins(kinds, i)' = StageFirstWins(kinds, i)
      BY <2>2, <2>4 DEF StageFirstWins
    <2> QED BY <2>2, <2>3, <2>5
  <1>3. Adventure!StaminaSpent' = Adventure!StaminaSpent
    BY <1>1 DEF Adventure!StaminaSpent, StageRests
  <1>4. Adventure!TokensSpent' = Adventure!TokensSpent
    BY <1>1 DEF Adventure!TokensSpent, StageRests
  <1>5. Adventure!TokensWon' = Adventure!TokensWon
    <2>1. Adventure!Done({"raid"})' = Adventure!Done({"raid"}) /\ \A s \in Adventure!Done({"raid"}) : won'[s] = won[s]
      BY DEF StageRests, Adventure!Done
    <2> QED BY <2>1 DEF Adventure!TokensWon, StageRests
  <1>6. clears' = clears /\ raids' = raids /\ tokens' = tokens /\ stamina' = stamina
    BY DEF StageRests, Adventure!tables
  <1>7. \A kinds, counts, opening : Adventure!Explains(kinds, counts, opening) <=>
           /\ \A i \in DOMAIN counts :
                 /\ counts[i] = opening[i] + SumFunction(Adventure!RunsWon(kinds, i))
                 /\ Cardinality(StageFirstWins(kinds, i)) = IF opening[i] = 0 /\ counts[i] > 0 THEN 1 ELSE 0
           /\ Adventure!Follow(counts)
    BY StageSame DEF Adventure!Explains, StageFirstWins
  <1>8. Adventure!Explains({"battle", "skip"}, clears, OpeningClears)'
    BY <1>2, <1>6, StageSame DEF Adventure!ClearsAddUp, Adventure!Explains, StageFirstWins
  <1>9. Adventure!Explains({"raid"}, raids, OpeningRaids)'
    BY <1>2, <1>6, StageSame DEF Adventure!ClearsAddUp, Adventure!Explains, StageFirstWins
  <1>10. Adventure!ClearsAddUp'
    BY <1>3, <1>6, <1>8, <1>9, StageSame DEF Adventure!ClearsAddUp
  <1>11. Adventure!TokensAddUp'
    BY <1>1, <1>4, <1>5, <1>6, StageSame DEF Adventure!TokensAddUp, StageRests, Adventure!Done
  <1> QED BY <1>10, <1>11

(* What the books say of one table after r has written it. *)
StageExplainsNext(kinds, next, opening) ==
    /\ \A i \in DOMAIN next :
          /\ next[i] = opening[i] + SumFunction(Adventure!RunsWon(kinds, i))'
          /\ Cardinality(StageFirstWins(kinds, i))' = IF opening[i] = 0 /\ next[i] > 0 THEN 1 ELSE 0
    /\ Adventure!Follow(next)

LEMMA StageFirsts ==
    ASSUME StageInv, NEW r \in DOMAIN plan, StageCommits(r), NEW kinds, NEW i
    PROVE  /\ IsFiniteSet(StageFirstWins(kinds, i)) /\ r \notin StageFirstWins(kinds, i)
           /\ StageFirstWins(kinds, i)' = IF Adventure!Kind(r) \in kinds /\ Adventure!Place(r) = i /\ Adventure!IsFirstClear(r)
                                     THEN StageFirstWins(kinds, i) \cup {r} ELSE StageFirstWins(kinds, i)
  <1>1. IsFiniteSet(DOMAIN plan)
    BY StagePlanFinite DEF StageInv, Adventure!TypeOK
  <1>2. /\ r \notin Adventure!Done(kinds)
        /\ Adventure!Done(kinds)' = IF Adventure!Kind(r) \in kinds THEN Adventure!Done(kinds) \cup {r} ELSE Adventure!Done(kinds)
        /\ \A s \in DOMAIN plan : Adventure!Place(s)' = Adventure!Place(s) /\ won'[s] = won[s] /\ Adventure!IsFirstClear(s)' = Adventure!IsFirstClear(s)
    BY StageJoins
  <1>3. StageFirstWins(kinds, i) \subseteq DOMAIN plan /\ r \notin StageFirstWins(kinds, i)
    BY <1>2 DEF StageFirstWins, Adventure!Wins, Adventure!Done
  <1>4. IsFiniteSet(StageFirstWins(kinds, i))
    BY <1>1, <1>3, FS_Subset
  <1>5. \A s : s \in StageFirstWins(kinds, i)' <=>
                 s \in Adventure!Done(kinds)' /\ Adventure!Place(s)' = i /\ won'[s] /\ Adventure!IsFirstClear(s)'
    BY DEF StageFirstWins, Adventure!Wins
  <1>6. \A s : s \in StageFirstWins(kinds, i) <=> s \in Adventure!Done(kinds) /\ Adventure!Place(s) = i /\ won[s] /\ Adventure!IsFirstClear(s)
    BY DEF StageFirstWins, Adventure!Wins
  <1>7. Adventure!IsFirstClear(r) => won[r]
    BY DEF Adventure!IsFirstClear
  <1>8. Adventure!Done(kinds) \subseteq DOMAIN plan
    BY DEF Adventure!Done
  <1>9. StageFirstWins(kinds, i)' = IF Adventure!Kind(r) \in kinds /\ Adventure!Place(r) = i /\ Adventure!IsFirstClear(r)
                               THEN StageFirstWins(kinds, i) \cup {r} ELSE StageFirstWins(kinds, i)
    BY <1>2, <1>5, <1>6, <1>7, <1>8
  <1> QED BY <1>3, <1>4, <1>9

LEMMA StageExplains ==
    ASSUME StageInv, StageInv', NEW r \in DOMAIN plan, StageCommits(r), won[r] \in BOOLEAN,
           NEW kinds, NEW n \in Nat, NEW counts \in [1..n -> Nat], NEW next \in [1..n -> Nat],
           NEW opening \in [1..n -> Nat],
           Adventure!Explains(kinds, counts, opening),
           IF Adventure!Kind(r) \in kinds
           THEN /\ StageWrote(r, counts, next) /\ seen[r] = counts /\ Adventure!Place(r) \in 1..n
                /\ Adventure!Place(r) = 1 \/ counts[Adventure!Place(r) - 1] > 0 \/ counts[Adventure!Place(r)] > 0
           ELSE next = counts
    PROVE  StageExplainsNext(kinds, next, opening)
  <1>1. Adventure!Runs(r) \in Nat \ {0} /\ IsFiniteSet(DOMAIN plan)
    BY StageRequests, StagePlanFinite DEF StageInv, Adventure!TypeOK
  <1>2. \A i \in 1..n : next[i] = counts[i] + IF Adventure!Kind(r) \in kinds /\ Adventure!Place(r) = i /\ won[r] THEN Adventure!Runs(r) ELSE 0
    <2>1. CASE Adventure!Kind(r) \in kinds
      <3>1. StageWrote(r, counts, next) /\ DOMAIN counts = 1..n
        BY <2>1
      <3> QED BY <2>1, <3>1 DEF StageWrote
    <2>2. CASE ~(Adventure!Kind(r) \in kinds)
      <3>1. next = counts
        BY <2>2
      <3>2. \A i \in 1..n : counts[i] = counts[i] + 0
        OBVIOUS
      <3> QED BY <2>2, <3>1, <3>2
    <2> QED BY <2>1, <2>2
  <1>3. \A i \in 1..n : /\ counts[i] = opening[i] + SumFunction(Adventure!RunsWon(kinds, i))
                        /\ Cardinality(StageFirstWins(kinds, i)) = IF opening[i] = 0 /\ counts[i] > 0 THEN 1 ELSE 0
    BY StageSame DEF Adventure!Explains, StageFirstWins
  <1>4. ASSUME NEW i \in 1..n
        PROVE  /\ next[i] = opening[i] + SumFunction(Adventure!RunsWon(kinds, i))'
               /\ Cardinality(StageFirstWins(kinds, i))' = IF opening[i] = 0 /\ next[i] > 0 THEN 1 ELSE 0
    <2> DEFINE sum == SumFunction(Adventure!RunsWon(kinds, i))
               more == IF Adventure!Kind(r) \in kinds /\ Adventure!Place(r) = i /\ won[r] THEN Adventure!Runs(r) ELSE 0
    <2>1. SumFunction(Adventure!RunsWon(kinds, i))' = sum + more
      BY StageSumsGrow
    <2>2. sum \in Nat
      <3>1. \A s \in DOMAIN plan : Adventure!Runs(s) \in Nat
        BY StageRequests DEF StageInv, Adventure!TypeOK
      <3>2. Adventure!RunsWon(kinds, i) \in [DOMAIN plan -> Nat]
        BY <3>1 DEF Adventure!RunsWon
      <3> QED BY <1>1, <3>2, SumIsNat
    <2>3. more \in Nat /\ next[i] = counts[i] + more /\ counts[i] = opening[i] + sum
          /\ opening[i] \in Nat /\ counts[i] \in Nat
      BY <1>1, <1>2, <1>3
    <2>4. Adventure!IsFirstClear(r) <=> won[r] /\ seen[r][Adventure!Place(r)] = 0
      BY DEF Adventure!IsFirstClear
    <2>5. more > 0 <=> Adventure!Kind(r) \in kinds /\ Adventure!Place(r) = i /\ won[r]
      BY <1>1
    <2>6. /\ IsFiniteSet(StageFirstWins(kinds, i)) /\ r \notin StageFirstWins(kinds, i)
          /\ StageFirstWins(kinds, i)' = IF more > 0 /\ counts[i] = 0
                                    THEN StageFirstWins(kinds, i) \cup {r} ELSE StageFirstWins(kinds, i)
      BY <2>4, <2>5, StageFirsts
    <2>7. next[i] = opening[i] + SumFunction(Adventure!RunsWon(kinds, i))'
      <3> HIDE DEF sum, more
      <3> QED BY <2>1, <2>2, <2>3
    <2>8. CASE more > 0 /\ counts[i] = 0
      <3>1. opening[i] = 0 /\ next[i] > 0
        <4> HIDE DEF sum, more
        <4> QED BY <2>2, <2>3, <2>8
      <3>2. Cardinality(StageFirstWins(kinds, i)) = 0
        BY <1>3, <2>8
      <3>3. Cardinality(StageFirstWins(kinds, i))' = Cardinality(StageFirstWins(kinds, i)) + 1
        <4>1. StageFirstWins(kinds, i)' = StageFirstWins(kinds, i) \cup {r}
          BY <2>6, <2>8
        <4> QED BY <2>6, <4>1, FS_AddElement
      <3> QED BY <2>7, <3>1, <3>2, <3>3
    <2>9. CASE ~(more > 0 /\ counts[i] = 0)
      <3>1. Cardinality(StageFirstWins(kinds, i))' = Cardinality(StageFirstWins(kinds, i))
        BY <2>6, <2>9
      <3>2. next[i] > 0 <=> counts[i] > 0
        <4> HIDE DEF sum, more
        <4> QED BY <2>3, <2>9
      <3> QED BY <1>3, <2>7, <3>1, <3>2
    <2> QED BY <2>8, <2>9
  <1>5. Adventure!Follow(next)
    <2>1. \A i \in 1..n : i > 1 /\ counts[i] > 0 => counts[i - 1] > 0
      BY StageSame DEF Adventure!Explains, Adventure!Follow
    <2>2. ASSUME NEW i \in 1..n, i > 1, next[i] > 0 PROVE next[i - 1] > 0
      <3> DEFINE before == i - 1
      <3>1. before \in 1..n /\ counts[before] \in Nat
        BY <2>2
      <3>2. next[before] >= counts[before]
        <4>1. next[before] = counts[before] \/ next[before] = counts[before] + Adventure!Runs(r)
          BY <1>2, <3>1
        <4> QED BY <1>1, <3>1, <4>1
      <3>3. counts[before] > 0
        <4>1. CASE counts[i] > 0
          BY <2>1, <2>2, <4>1
        <4>2. CASE ~(counts[i] > 0)
          <5>1. Adventure!Kind(r) \in kinds /\ Adventure!Place(r) = i
            BY <1>2, <2>2, <4>2
          <5>2. Adventure!Place(r) = 1 \/ counts[Adventure!Place(r) - 1] > 0 \/ counts[Adventure!Place(r)] > 0
            BY <5>1
          <5> QED BY <2>2, <4>2, <5>1, <5>2
        <4> QED BY <4>1, <4>2
      <3>4. next[before] \in Nat /\ next[before] > 0
        BY <3>1, <3>2, <3>3
      <3> QED BY <3>4
    <2> QED BY <2>2 DEF Adventure!Follow
  <1> QED BY <1>4, <1>5 DEF StageExplainsNext

LEMMA StageFirst ==
    ASSUME Adventure!Init
    PROVE  StageSafe
  <1>1. /\ plan \in StagePlans /\ pc = [r \in Requests |-> "idle"] /\ won = [r \in Requests |-> FALSE]
        /\ stamina = OpeningStamina /\ clears = OpeningClears /\ raids = OpeningRaids
        /\ tokens = OpeningTokens
    BY DEF Adventure!Init
  <1>2. Adventure!TypeOK
    <2>1. seen \in [Requests -> [1..0 -> Nat]]
      <3>1. <<>> \in [1..0 -> Nat]
        OBVIOUS
      <3> QED BY <3>1 DEF Adventure!Init
    <2> QED BY <2>1, StageParameters DEF Adventure!Init, Adventure!TypeOK, Adventure!Labels
  <1>3. \A r \in DOMAIN plan : r \in Requests /\ pc[r] = "idle"
    BY <1>1, StageRequests
  <1>4. StageInv
    BY <1>2, <1>3 DEF StageInv, StageLocked, StageRead, StageTraded, StageWorking, StageChosen
  <1>5. IsFiniteSet(DOMAIN plan) /\ SumFunction([r \in DOMAIN plan |-> 0]) = 0 /\ Cardinality({}) = 0
    BY <1>1, StagePlanFinite, SumOfZeros, FS_EmptySet
  <1>6. \A kinds : Adventure!Done(kinds) = {}
    BY <1>3 DEF Adventure!Done
  <1>7. \A kinds, i : Adventure!RunsWon(kinds, i) = [r \in DOMAIN plan |-> 0] /\ StageFirstWins(kinds, i) = {}
    BY <1>6 DEF Adventure!RunsWon, StageFirstWins, Adventure!Wins
  <1>8. Adventure!StaminaSpent = [r \in DOMAIN plan |-> 0] /\ Adventure!TokensSpent = [r \in DOMAIN plan |-> 0]
        /\ Adventure!TokensWon = [r \in DOMAIN plan |-> 0]
    BY <1>6 DEF Adventure!StaminaSpent, Adventure!TokensSpent, Adventure!TokensWon
  <1>9. ASSUME NEW kinds, NEW n \in Nat, NEW opening \in [1..n -> Nat], Adventure!Follow(opening)
        PROVE  Adventure!Explains(kinds, opening, opening)
    <2>1. \A i \in 1..n : opening[i] = opening[i] + SumFunction(Adventure!RunsWon(kinds, i))
      <3>1. ASSUME NEW i PROVE SumFunction(Adventure!RunsWon(kinds, i)) = 0
        <4>1. Adventure!RunsWon(kinds, i) = [r \in DOMAIN plan |-> 0]
          BY <1>7
        <4> QED BY <1>5, <4>1
      <3> QED BY <3>1
    <2>2. ASSUME NEW i \in 1..n
          PROVE  Cardinality(StageFirstWins(kinds, i)) = IF opening[i] = 0 /\ opening[i] > 0 THEN 1 ELSE 0
      <3>1. StageFirstWins(kinds, i) = {}
        BY <1>7
      <3> QED BY <1>5, <3>1
    <2> QED BY <1>9, <2>1, <2>2, StageSame DEF Adventure!Explains, StageFirstWins
  <1>10. Adventure!Explains({"battle", "skip"}, clears, OpeningClears) /\ Adventure!Explains({"raid"}, raids, OpeningRaids)
    BY <1>1, <1>9, StageParameters
  <1>11. Adventure!ClearsAddUp
    BY <1>1, <1>5, <1>8, <1>10, StageParameters, StageSame DEF Adventure!ClearsAddUp
  <1>12. Adventure!TokensAddUp
    BY <1>1, <1>5, <1>6, <1>8, StageParameters, StageSame DEF Adventure!TokensAddUp
  <1> QED BY <1>4, <1>11, <1>12 DEF StageSafe

LEMMA StageMovesSafe ==
    ASSUME StageSafe, NEW r \in DOMAIN plan, StageMoves(r)
    PROVE  StageSafe'
  <1>1. StageInv /\ Adventure!ClearsAddUp /\ Adventure!TokensAddUp
    BY DEF StageSafe
  <1>2. StageInv' /\ StageAlone(r) /\ StageQuiet(r)
    BY <1>1, StageMovesKeep, StageMovesAlone
  <1>3. r \in Requests /\ DOMAIN plan \subseteq Requests /\ plan' = plan
    BY <1>1, <1>2, StageRequests DEF StageInv, Adventure!TypeOK, StageAlone
  <1>4. pc[r] # "committed" /\ pc'[r] # "committed"
    BY <1>2 DEF StageQuiet, Adventure!Ended
  <1>5. \A s \in DOMAIN plan : s # r => pc'[s] = pc[s] /\ won'[s] = won[s] /\ seen'[s] = seen[s]
    BY <1>2, <1>3 DEF StageAlone
  <1>6. \A s \in DOMAIN plan : pc'[s] = "committed" <=> pc[s] = "committed"
    BY <1>4, <1>5
  <1>7. \A kinds : Adventure!Done(kinds)' = Adventure!Done(kinds)
    BY <1>3, <1>6 DEF Adventure!Done, Adventure!Kind
  <1>8. StageRests
    BY <1>2, <1>3, <1>4, <1>5, <1>7 DEF StageRests, StageQuiet
  <1> QED BY <1>1, <1>2, <1>8, StageRestKeeps DEF StageSafe

LEMMA StageEndsSafe ==
    ASSUME StageSafe, NEW r \in DOMAIN plan, Adventure!CommitFight(r) \/ Adventure!CommitExchange(r)
    PROVE  StageSafe'
  <1>1. StageInv /\ Adventure!ClearsAddUp /\ Adventure!TokensAddUp
    BY DEF StageSafe
  <1>2. StageInv' /\ StageAlone(r) /\ pc' = [pc EXCEPT ![r] = "committed"] /\ pc[r] = "commit"
        /\ seen' = seen /\ won' = won
    BY <1>1, StageEndsKeep, StageEnds
  <1>3. StageCommits(r)
    BY <1>2 DEF StageCommits, StageAlone
  <1>4. /\ StageTables /\ StageTables' /\ won[r] \in BOOLEAN /\ Adventure!Kind(r) \in StageKinds /\ r \in Requests
        /\ Adventure!Runs(r) \in Nat /\ plan' = plan /\ plan \in StagePlans
    BY <1>1, <1>2, StageRequests DEF StageInv, Adventure!TypeOK, StageTables, StageAlone
  <1>5. /\ STAGES \in Nat /\ DIFFICULTIES \in Nat /\ OpeningClears \in [1..STAGES -> Nat]
        /\ OpeningRaids \in [1..DIFFICULTIES -> Nat] /\ OpeningStamina \in Nat /\ OpeningTokens \in Nat
        /\ RAID_BOSS_TOKENS_PER_WIN \in Nat /\ STAMINA_COST \in Nat
    BY StageParameters
  <1>6. CASE Adventure!CommitFight(r)
    <2>1. Adventure!Kind(r) \in {"battle", "skip", "raid"}
      BY <1>4, <1>6 DEF Adventure!CommitFight, StageKinds
    <2>2. /\ seen[r] = Adventure!Read(r) /\ Adventure!Place(r) \in DOMAIN Adventure!Read(r)
          /\ Adventure!Place(r) = 1 \/ Adventure!Read(r)[Adventure!Place(r) - 1] > 0 \/ Adventure!Read(r)[Adventure!Place(r)] > 0
      BY <1>1, <1>6, StageCounted
    <2>3. Adventure!Kind(r) \in {"battle", "skip"} =>
                 /\ StageWrote(r, clears, clears') /\ raids' = raids
                 /\ tokens' = tokens
                 /\ stamina' = stamina - STAMINA_COST * Adventure!Runs(r)
      BY <1>1, <1>6, StageWrites
    <2>4. Adventure!Kind(r) = "raid" =>
                 /\ StageWrote(r, raids, raids') /\ clears' = clears /\ stamina' = stamina
                 /\ tokens' = tokens + (IF won[r] THEN RAID_BOSS_TOKENS_PER_WIN ELSE 0)
      BY <1>1, <1>6, StageWrites
    <2>5. clears \in [1..STAGES -> Nat] /\ clears' \in [1..STAGES -> Nat]
          /\ raids \in [1..DIFFICULTIES -> Nat] /\ raids' \in [1..DIFFICULTIES -> Nat]
          /\ tokens \in Nat /\ tokens' \in Nat /\ stamina \in Nat /\ stamina' \in Nat
      BY <1>4 DEF StageTables
    <2>6. StageExplainsNext({"battle", "skip"}, clears', OpeningClears)
      <3>1. Adventure!Explains({"battle", "skip"}, clears, OpeningClears)
        BY <1>1, StageSame DEF Adventure!ClearsAddUp
      <3>2. CASE Adventure!Kind(r) \in {"battle", "skip"}
        <4>1. Adventure!Read(r) = clears /\ Adventure!Place(r) \in 1..STAGES
          BY <1>4, <3>2, StageRequests DEF Adventure!Read
        <4> QED BY <1>1, <1>2, <1>3, <1>4, <1>5, <2>2, <2>3, <2>5, <3>1, <3>2, <4>1, StageExplains
      <3>3. CASE Adventure!Kind(r) = "raid"
        BY <1>1, <1>2, <1>3, <1>4, <1>5, <2>4, <2>5, <3>1, <3>3, StageExplains
      <3> QED BY <2>1, <3>2, <3>3
    <2>7. StageExplainsNext({"raid"}, raids', OpeningRaids)
      <3>1. Adventure!Explains({"raid"}, raids, OpeningRaids)
        BY <1>1, StageSame DEF Adventure!ClearsAddUp
      <3>2. CASE Adventure!Kind(r) = "raid"
        <4>1. Adventure!Read(r) = raids /\ Adventure!Place(r) \in 1..DIFFICULTIES
          BY <1>4, <3>2, StageRequests DEF Adventure!Read
        <4> QED BY <1>1, <1>2, <1>3, <1>4, <1>5, <2>2, <2>4, <2>5, <3>1, <3>2, <4>1, StageExplains
      <3>3. CASE Adventure!Kind(r) \in {"battle", "skip"}
        BY <1>1, <1>2, <1>3, <1>4, <1>5, <2>3, <2>5, <3>1, <3>3, StageExplains
      <3> QED BY <2>1, <3>2, <3>3
    <2>8. Adventure!Explains({"battle", "skip"}, clears, OpeningClears)' /\ Adventure!Explains({"raid"}, raids, OpeningRaids)'
      BY <2>6, <2>7, StageSame DEF StageExplainsNext, Adventure!Explains, StageFirstWins
    <2>9. stamina' = OpeningStamina - SumFunction(Adventure!StaminaSpent)'
      <3> DEFINE spent == SumFunction(Adventure!StaminaSpent)
                 cost == STAMINA_COST * Adventure!Runs(r)
      <3>1. spent \in Int /\ cost \in Int
        BY <1>1, <1>4, <1>5, StageSumTypes, StagePlanFinite, SumIsInt DEF StageSumsAreSums
      <3>2. SumFunction(Adventure!StaminaSpent)' = spent + (IF Adventure!Kind(r) \in {"battle", "skip"} THEN cost ELSE 0)
        BY <1>1, <1>2, <1>3, StageSumsGrow
      <3>3. stamina = OpeningStamina - spent
        BY <1>1, StageSame DEF Adventure!ClearsAddUp
      <3>4. stamina' = IF Adventure!Kind(r) \in {"battle", "skip"} THEN stamina - cost ELSE stamina
        BY <2>1, <2>3, <2>4
      <3> HIDE DEF spent, cost
      <3> QED BY <1>5, <3>1, <3>2, <3>3, <3>4
    <2>10. tokens' + SumFunction(Adventure!TokensSpent)' = OpeningTokens + SumFunction(Adventure!TokensWon)'
      <3> DEFINE spent == SumFunction(Adventure!TokensSpent)
                 gained == SumFunction(Adventure!TokensWon)
                 gain == IF Adventure!Kind(r) = "raid" /\ won[r] THEN RAID_BOSS_TOKENS_PER_WIN ELSE 0
      <3>1. spent \in Int /\ gained \in Int /\ gain \in Int
        BY <1>1, <1>4, <1>5, StageSumTypes, StagePlanFinite, SumIsInt DEF StageSumsAreSums
      <3>2. SumFunction(Adventure!TokensSpent)' = spent + (IF Adventure!Kind(r) = "exchange" THEN EXCHANGE_COST[Adventure!Place(r)] ELSE 0)
            /\ SumFunction(Adventure!TokensWon)' = gained + gain
        BY <1>1, <1>2, <1>3, StageSumsGrow
      <3>3. tokens + spent = OpeningTokens + gained
        BY <1>1, StageSame DEF Adventure!TokensAddUp
      <3>4. tokens' = tokens + gain
        BY <2>1, <2>3, <2>4, <2>5
      <3>5. SumFunction(Adventure!TokensSpent)' = spent
        <4>1. Adventure!Kind(r) # "exchange"
          BY <2>1
        <4> HIDE DEF spent
        <4> QED BY <3>1, <3>2, <4>1
      <3>6. SumFunction(Adventure!TokensWon)' = gained + gain
        BY <3>2
      <3>7. tokens + gain + spent = OpeningTokens + (gained + gain)
        <4> HIDE DEF spent, gained, gain
        <4> QED BY <1>5, <2>5, <3>1, <3>3
      <3> HIDE DEF spent, gained, gain
      <3> QED BY <3>4, <3>5, <3>6, <3>7
    <2>11. \A s \in Adventure!Done({"exchange"})' : raids'[Adventure!Place(s)'] > 0
      <3>1. \A s \in DOMAIN plan : Adventure!Place(s)' = Adventure!Place(s)
        BY <1>4 DEF Adventure!Place
      <3>2. Adventure!Done({"exchange"})' = Adventure!Done({"exchange"})
        BY <1>1, <1>3, <2>1, StageJoins
      <3>3. \A s \in Adventure!Done({"exchange"}) : raids'[Adventure!Place(s)] > 0
        <4>1. ASSUME NEW s \in Adventure!Done({"exchange"}) PROVE raids'[Adventure!Place(s)] > 0
          <5>1. s \in DOMAIN plan /\ Adventure!Kind(s) = "exchange" /\ raids[Adventure!Place(s)] > 0
            BY <1>1, StageSame DEF Adventure!TokensAddUp, Adventure!Done
          <5>2. Adventure!Place(s) \in 1..DIFFICULTIES
            BY <1>4, <5>1, StageRequests
          <5>3. raids' = raids \/ raids'[Adventure!Place(s)] = raids[Adventure!Place(s)] \/ raids'[Adventure!Place(s)] = raids[Adventure!Place(s)] + Adventure!Runs(r)
            BY <2>1, <2>3, <2>4, <2>5, <5>2 DEF StageWrote
          <5> QED BY <1>4, <2>5, <5>1, <5>2, <5>3
        <4> QED BY <4>1
      <3> QED BY <3>1, <3>2, <3>3 DEF Adventure!Done
    <2>12. Adventure!ClearsAddUp'
      BY <2>8, <2>9, StageSame DEF Adventure!ClearsAddUp
    <2>13. Adventure!TokensAddUp'
      BY <2>5, <2>10, <2>11, StageSame DEF Adventure!TokensAddUp
    <2> QED BY <1>2, <2>12, <2>13 DEF StageSafe
  <1>7. CASE Adventure!CommitExchange(r)
    <2>1. /\ tokens >= EXCHANGE_COST[Adventure!Place(r)] /\ EXCHANGE_COST[Adventure!Place(r)] \in Nat
          /\ tokens' = tokens - EXCHANGE_COST[Adventure!Place(r)] /\ tokens' \in Nat
          /\ raids[Adventure!Place(r)] > 0 /\ Adventure!Kind(r) = "exchange"
          /\ UNCHANGED <<stamina, clears, raids>>
      BY <1>1, <1>7, StageTrades
    <2>2. clears \in [1..STAGES -> Nat] /\ raids \in [1..DIFFICULTIES -> Nat] /\ tokens \in Nat
      BY <1>4 DEF StageTables
    <2>3. StageExplainsNext({"battle", "skip"}, clears, OpeningClears)
      BY <1>1, <1>2, <1>3, <1>4, <1>5, <2>1, <2>2, StageExplains, StageSame DEF Adventure!ClearsAddUp
    <2>4. StageExplainsNext({"raid"}, raids, OpeningRaids)
      BY <1>1, <1>2, <1>3, <1>4, <1>5, <2>1, <2>2, StageExplains, StageSame DEF Adventure!ClearsAddUp
    <2>5. Adventure!Explains({"battle", "skip"}, clears, OpeningClears)' /\ Adventure!Explains({"raid"}, raids, OpeningRaids)'
      BY <2>1, <2>3, <2>4, StageSame DEF StageExplainsNext, Adventure!Explains, StageFirstWins
    <2>6. /\ SumFunction(Adventure!StaminaSpent)' = SumFunction(Adventure!StaminaSpent) + 0
          /\ SumFunction(Adventure!TokensSpent)' = SumFunction(Adventure!TokensSpent) + EXCHANGE_COST[Adventure!Place(r)]
          /\ SumFunction(Adventure!TokensWon)' = SumFunction(Adventure!TokensWon) + 0
      BY <1>1, <1>2, <1>3, <2>1, StageSumsGrow
    <2>7. SumFunction(Adventure!StaminaSpent) \in Int /\ SumFunction(Adventure!TokensSpent) \in Int /\ SumFunction(Adventure!TokensWon) \in Int
      BY <1>1, <1>4, StageSumTypes, StagePlanFinite, SumIsInt DEF StageSumsAreSums
    <2>8. Adventure!ClearsAddUp'
      <3>1. stamina' = OpeningStamina - SumFunction(Adventure!StaminaSpent)'
        BY <1>1, <2>1, <2>6, <2>7, StageSame DEF Adventure!ClearsAddUp
      <3> QED BY <2>5, <3>1, StageSame DEF Adventure!ClearsAddUp
    <2>9. Adventure!TokensAddUp'
      <3>1. tokens' + SumFunction(Adventure!TokensSpent)' = OpeningTokens + SumFunction(Adventure!TokensWon)'
        BY <1>1, <1>5, <2>1, <2>2, <2>6, <2>7, StageSame DEF Adventure!TokensAddUp
      <3>2. Adventure!Done({"exchange"})' = Adventure!Done({"exchange"}) \cup {r}
        BY <1>1, <1>3, <2>1, StageJoins
      <3>3. \A s \in DOMAIN plan : Adventure!Place(s)' = Adventure!Place(s)
        BY <1>4 DEF Adventure!Place
      <3>4. \A s \in Adventure!Done({"exchange"})' : raids'[Adventure!Place(s)'] > 0
        BY <1>1, <2>1, <3>2, <3>3, StageSame DEF Adventure!TokensAddUp, Adventure!Done
      <3> QED BY <2>1, <3>1, <3>4, StageSame DEF Adventure!TokensAddUp
    <2> QED BY <1>2, <2>8, <2>9 DEF StageSafe
  <1> QED BY <1>6, <1>7

LEMMA StageNext ==
    ASSUME StageSafe, [Adventure!Next]_Adventure!vars
    PROVE  StageSafe'
  <1>1. ASSUME NEW r \in DOMAIN plan, Adventure!Step(r) \/ Adventure!Fail(r)
        PROVE  StageSafe'
    BY <1>1, StageActs, StageMovesSafe, StageEndsSafe
  <1>2. CASE UNCHANGED Adventure!vars
    <2>1. UNCHANGED <<plan, pc, seen, won, granted, monsters, tokenRow, stamina, clears, raids, tokens, pieces>>
      BY <1>2 DEF Adventure!vars, Adventure!requestVars, Adventure!locks, Adventure!tables
    <2>2. StageInv'
      <3>1. Adventure!TypeOK'
        BY <2>1 DEF StageSafe, StageInv, Adventure!TypeOK
      <3>2. \A r \in DOMAIN plan : Adventure!Kind(r)' = Adventure!Kind(r) /\ Adventure!Place(r)' = Adventure!Place(r) /\ Adventure!Runs(r)' = Adventure!Runs(r) /\ Adventure!Read(r)' = Adventure!Read(r)
        BY <2>1 DEF Adventure!Kind, Adventure!Place, Adventure!Runs, Adventure!Read
      <3>3. \A r \in DOMAIN plan : StageLocked(r)' /\ StageRead(r)' /\ StageTraded(r)'
        BY <2>1, <3>2 DEF StageSafe, StageInv, StageLocked, StageRead, StageTraded, Adventure!IsUnlocked
      <3> QED BY <2>1, <3>1, <3>3 DEF StageInv
    <2>3. StageRests
      BY <2>1 DEF StageRests, Adventure!tables, Adventure!Done, Adventure!Kind
    <2> QED BY <2>2, <2>3, StageRestKeeps DEF StageSafe
  <1> QED BY <1>1, <1>2 DEF Adventure!Next

---------------------------------------------------------------------------
(*                                  Quests                                  *)

LEMMA QuestSame ==
    /\ \A S : Quests!Cardinality(S) = Cardinality(S) /\ (Quests!IsFiniteSet(S) <=> IsFiniteSet(S))
    /\ \A S : Quests!Max(S) = Max(S)
  <1>1. \A S : Quests!Cardinality(S) = Cardinality(S)
    BY DEF Quests!Cardinality, Cardinality
  <1>2. \A S : Quests!IsFiniteSet(S) <=> IsFiniteSet(S)
    BY DEF Quests!IsFiniteSet, IsFiniteSet
  <1>3. \A S : Quests!Max(S) = Max(S)
    BY DEF Quests!Max, Max
  <1> QED BY <1>1, <1>2, <1>3

LEMMA QuestKeysDiffer ==
    /\ \A j : \A k : Quests!QuestRow(j) = Quests!QuestRow(k) <=> j = k
    /\ \A k : /\ Quests!QuestRow(k)[1] = "quest" /\ Quests!QuestRow(k)[2] = k
              /\ Quests!QuestRow(k) # Quests!Monsters /\ Quests!QuestRow(k) # Quests!Wallet
    /\ Quests!Monsters[1] # "quest" /\ Quests!Wallet[1] # "quest"
    /\ \A q : \A d : Quests!Key(q, d)[1] = q
  <1>1. \A j : \A k : Quests!QuestRow(j) = Quests!QuestRow(k) <=> j = k
    BY DEF Quests!QuestRow
  <1>2. \A k : Quests!QuestRow(k)[1] = "quest" /\ Quests!QuestRow(k)[2] = k
    BY DEF Quests!QuestRow
  <1>3. Quests!Monsters[1] = "monsters" /\ Quests!Wallet[1] = "wallet"
    BY DEF Quests!Monsters, Quests!Wallet
  <1>4. "monsters" # "quest" /\ "wallet" # "quest"
    OBVIOUS
  <1>5. \A q : \A d : Quests!Key(q, d)[1] = q
    BY DEF Quests!Key
  <1> QED BY <1>1, <1>2, <1>3, <1>4, <1>5

LEMMA QuestRequests ==
    ASSUME plan \in QuestPlans, NEW r \in DOMAIN plan
    PROVE  /\ r \in Requests /\ r # NoRequest /\ Quests!Kind(r) \in {"act", "claim", "login"}
           /\ Quests!Kind(r) = "act" => plan[r].quest \in DOMAIN Target
           /\ Quests!Kind(r) = "claim" => plan[r].quest \in DOMAIN Target
           /\ Quests!Kind(r) = "login" => plan[r].quest = LOGIN
           /\ Quests!Kind(r) # "login" => plan[r].quest # LOGIN
  BY QuestParameters, QuestSame DEF Quests!QuestAssumption, Quests!Kind, Quests!Daily

(* What a request that acts locks: the monsters, perhaps the wallet, then   *)
(* the rows of its quests.                                                  *)
QuestHead(r) == IF plan[r].discovers THEN 2 ELSE 1

LEMMA QuestActRows ==
    ASSUME NEW r \in DOMAIN plan, Quests!Kind(r) = "act"
    PROVE  /\ Len(Quests!Moves(r)) \in 1..2 /\ DOMAIN Quests!Moves(r) = 1..Len(Quests!Moves(r))
           /\ Len(Quests!RowsOf(r)) \in QuestHead(r) + Len(Quests!Moves(r))..QuestHead(r) + Len(Quests!Moves(r)) + 1
           /\ \A i \in 1..Len(Quests!RowsOf(r)) :
                 \/ i \in QuestHead(r) + 1..QuestHead(r) + Len(Quests!Moves(r)) /\ Quests!RowsOf(r)[i] = Quests!Moves(r)[i - QuestHead(r)]
                 \/ i \notin QuestHead(r) + 1..QuestHead(r) + Len(Quests!Moves(r)) /\ Quests!RowsOf(r)[i] \in {Quests!Monsters, Quests!Wallet}
           /\ \A i \in 1..Len(Quests!RowsOf(r)) :
                 /\ i <= QuestHead(r) => Quests!RowsOf(r)[i] = IF i = 1 THEN Quests!Monsters ELSE Quests!Wallet
                 /\ QuestHead(r) + Len(Quests!Moves(r)) < i => Quests!RowsOf(r)[i] = Quests!Wallet
  <1> DEFINE h == IF plan[r].discovers THEN <<Quests!Monsters, Quests!Wallet>> ELSE <<Quests!Monsters>>
             t == IF plan[r].pays THEN <<Quests!Wallet>> ELSE <<>>
             x == Quests!QuestRow(Quests!Key(plan[r].quest, saved[r]))
             y == Quests!QuestRow(Quests!Key(Weekly[plan[r].quest], saved[r]))
             m == Quests!Moves(r)
             U == {Quests!Monsters, Quests!Wallet, x, y}
  <1>1. m = IF plan[r].quest \in DOMAIN Weekly THEN <<x, y>> ELSE <<x>>
    BY DEF Quests!Moves
  <1>2. Quests!RowsOf(r) = h \o m \o t
    BY DEF Quests!RowsOf
  <1> HIDE DEF x, y, m
  <1>3. Len(m) \in 1..2 /\ m \in Seq(U) /\ DOMAIN m = 1..Len(m)
    <2>1. CASE plan[r].quest \in DOMAIN Weekly
      <3>1. m = <<x, y>>
        BY <1>1, <2>1
      <3> QED BY <3>1
    <2>2. CASE plan[r].quest \notin DOMAIN Weekly
      <3>1. m = <<x>>
        BY <1>1, <2>2
      <3> QED BY <3>1
    <2> QED BY <2>1, <2>2
  <1>4. Len(h) \in 1..2 /\ h \in Seq(U) /\ \A i \in 1..Len(h) : h[i] = IF i = 1 THEN Quests!Monsters ELSE Quests!Wallet
    <2>1. CASE plan[r].discovers
      <3>1. h = <<Quests!Monsters, Quests!Wallet>>
        BY <2>1
      <3> HIDE DEF h
      <3> QED BY <3>1
    <2>2. CASE ~plan[r].discovers
      <3>1. h = <<Quests!Monsters>>
        BY <2>2
      <3> HIDE DEF h
      <3> QED BY <3>1
    <2> QED BY <2>1, <2>2
  <1>5. Len(h) = QuestHead(r)
    BY DEF QuestHead
  <1>6. Len(t) \in 0..1 /\ t \in Seq(U) /\ \A i \in 1..Len(t) : t[i] = Quests!Wallet
    <2>1. CASE plan[r].pays
      BY <2>1
    <2>2. CASE ~plan[r].pays
      <3>1. t = <<>>
        BY <2>2
      <3> QED BY <3>1
    <2> QED BY <2>1, <2>2
  <1> HIDE DEF h, t, U
  <1>7. /\ h \o m \in Seq(U) /\ Len(h \o m) = Len(h) + Len(m)
        /\ \A i \in 1..Len(h) + Len(m) : (h \o m)[i] = IF i <= Len(h) THEN h[i] ELSE m[i - Len(h)]
    BY <1>3, <1>4, ConcatProperties
  <1>8. /\ Len((h \o m) \o t) = Len(h) + Len(m) + Len(t)
        /\ \A i \in 1..Len(h) + Len(m) + Len(t) :
              ((h \o m) \o t)[i] = IF i <= Len(h) + Len(m) THEN (h \o m)[i] ELSE t[i - Len(h) - Len(m)]
    <2>1. Len((h \o m) \o t) = Len(h \o m) + Len(t)
      BY <1>6, <1>7, ConcatProperties
    <2>2. \A i \in 1..Len(h \o m) + Len(t) : ((h \o m) \o t)[i] = IF i <= Len(h \o m) THEN (h \o m)[i] ELSE t[i - Len(h \o m)]
      BY <1>6, <1>7, ConcatProperties
    <2> QED BY <2>1, <2>2, <1>3, <1>4, <1>6, <1>7
  <1>9. /\ QuestHead(r) \in 1..2 /\ Len(Quests!RowsOf(r)) = QuestHead(r) + Len(m) + Len(t)
    BY <1>2, <1>4, <1>5, <1>8
  <1>10. ASSUME NEW i \in 1..QuestHead(r) + Len(m) + Len(t)
         PROVE  \/ i \in QuestHead(r) + 1..QuestHead(r) + Len(m) /\ Quests!RowsOf(r)[i] = m[i - QuestHead(r)]
                \/ i \notin QuestHead(r) + 1..QuestHead(r) + Len(m) /\ Quests!RowsOf(r)[i] \in {Quests!Monsters, Quests!Wallet}
    <2>1. CASE i <= Len(h)
      BY <1>2, <1>3, <1>4, <1>5, <1>6, <1>7, <1>8, <1>9, <2>1
    <2>2. CASE Len(h) < i /\ i <= Len(h) + Len(m)
      BY <1>2, <1>3, <1>4, <1>5, <1>6, <1>7, <1>8, <1>9, <2>2
    <2>3. CASE Len(h) + Len(m) < i
      BY <1>2, <1>3, <1>4, <1>5, <1>6, <1>8, <1>9, <2>3
    <2> QED BY <1>4, <1>5, <1>3, <2>1, <2>2, <2>3
  <1>11. ASSUME NEW i \in 1..QuestHead(r) + Len(m) + Len(t)
         PROVE  /\ i <= QuestHead(r) => Quests!RowsOf(r)[i] = IF i = 1 THEN Quests!Monsters ELSE Quests!Wallet
                /\ QuestHead(r) + Len(m) < i => Quests!RowsOf(r)[i] = Quests!Wallet
    <2>1. /\ i \in 1..Len(h) + Len(m) + Len(t) /\ Len(h) \in Nat /\ Len(m) \in Nat /\ Len(t) \in Nat
          /\ Quests!RowsOf(r)[i] = IF i <= Len(h) + Len(m) THEN (h \o m)[i] ELSE t[i - Len(h) - Len(m)]
      BY <1>2, <1>3, <1>4, <1>5, <1>6, <1>8
    <2>2. CASE i <= Len(h)
      <3>1. i \in 1..Len(h) /\ i \in 1..Len(h) + Len(m) /\ i <= Len(h) + Len(m) /\ ~(Len(h) + Len(m) < i)
        BY <2>1, <2>2
      <3>2. Quests!RowsOf(r)[i] = h[i]
        BY <1>7, <2>1, <2>2, <3>1
      <3> QED BY <1>4, <1>5, <3>1, <3>2
    <2>3. CASE Len(h) + Len(m) < i
      <3>1. i - Len(h) - Len(m) \in 1..Len(t) /\ ~(i <= Len(h) + Len(m)) /\ ~(i <= Len(h))
        BY <2>1, <2>3
      <3>2. Quests!RowsOf(r)[i] = Quests!Wallet
        BY <1>6, <2>1, <3>1
      <3> QED BY <1>5, <3>1, <3>2
    <2>4. CASE ~(i <= Len(h)) /\ ~(Len(h) + Len(m) < i)
      BY <1>5, <2>4
    <2> QED BY <2>2, <2>3, <2>4
  <1> HIDE DEF m
  <1>12. Len(m) \in 1..2 /\ DOMAIN m = 1..Len(m) /\ Len(Quests!RowsOf(r)) \in QuestHead(r) + Len(m)..QuestHead(r) + Len(m) + 1
    BY <1>3, <1>6, <1>9
  <1>13. Len(Quests!RowsOf(r)) = QuestHead(r) + Len(m) + Len(t)
    BY <1>9
  <1> QED BY <1>10, <1>11, <1>12, <1>13 DEF m

(* k is the key of a quest row among the first n rows of r. *)
QuestIn(r, n, k) == \E i \in 1..Len(Quests!RowsOf(r)) : i <= n /\ Quests!RowsOf(r)[i] = Quests!QuestRow(k)

LEMMA QuestMovesAre ==
    ASSUME plan \in QuestPlans, NEW r \in DOMAIN plan, Quests!Kind(r) = "act", NEW i \in DOMAIN Quests!Moves(r)
    PROVE  \E k : Quests!Moves(r)[i] = Quests!QuestRow(k) /\ k[1] \in DOMAIN Target
  <1> DEFINE j == Quests!Key(plan[r].quest, saved[r])
             k == Quests!Key(Weekly[plan[r].quest], saved[r])
  <1>1. j[1] \in DOMAIN Target
    BY QuestRequests, QuestKeysDiffer
  <1>2. CASE plan[r].quest \in DOMAIN Weekly
    <2>1. k[1] \in DOMAIN Target
      BY <1>2, QuestParameters, QuestKeysDiffer, QuestSame DEF Quests!QuestAssumption
    <2>2. Quests!Moves(r) = <<Quests!QuestRow(j), Quests!QuestRow(k)>>
      BY <1>2 DEF Quests!Moves
    <2> HIDE DEF j, k
    <2> QED BY <1>1, <2>1, <2>2
  <1>3. CASE plan[r].quest \notin DOMAIN Weekly
    <2>2. Quests!Moves(r) = <<Quests!QuestRow(j)>>
      BY <1>3 DEF Quests!Moves
    <2> HIDE DEF j, k
    <2> QED BY <1>1, <2>2
  <1> QED BY <1>2, <1>3

LEMMA QuestActing ==
    ASSUME plan \in QuestPlans, NEW r \in DOMAIN plan, Quests!Kind(r) = "act"
    PROVE  /\ QuestHead(r) \in Nat /\ Len(Quests!RowsOf(r)) \in Nat /\ QuestHead(r) < Len(Quests!RowsOf(r))
           /\ \A n \in Nat : \A k : n <= QuestHead(r) => ~QuestIn(r, n, k)
           /\ \A i \in 1..Len(Quests!RowsOf(r)) : i <= QuestHead(r) => Quests!RowsOf(r)[i] \in {Quests!Monsters, Quests!Wallet}
           /\ Quests!RowsOf(r)[QuestHead(r) + 1] \notin {Quests!Monsters, Quests!Wallet}
           /\ \A i \in 1..Len(Quests!RowsOf(r)) : \/ Quests!RowsOf(r)[i] \in {Quests!Monsters, Quests!Wallet}
                                          \/ \E k : Quests!RowsOf(r)[i] = Quests!QuestRow(k) /\ k[1] \in DOMAIN Target
           /\ \A k : QuestIn(r, Len(Quests!RowsOf(r)), k) <=> \E i \in DOMAIN Quests!Moves(r) : Quests!Moves(r)[i] = Quests!QuestRow(k)
  <1> DEFINE a == QuestHead(r)  m == Quests!Moves(r)  w == Quests!RowsOf(r)
  <1>1. a \in 1..2
    BY DEF QuestHead
  <1>2. /\ Len(m) \in 1..2 /\ DOMAIN m = 1..Len(m) /\ Len(w) \in a + Len(m)..a + Len(m) + 1
        /\ \A i \in 1..Len(w) :
                 \/ i \in a + 1..a + Len(m) /\ w[i] = m[i - a]
                 \/ i \notin a + 1..a + Len(m) /\ w[i] \in {Quests!Monsters, Quests!Wallet}
    BY QuestActRows
  <1>3. \A i \in DOMAIN m : \E k : m[i] = Quests!QuestRow(k) /\ k[1] \in DOMAIN Target
    BY QuestMovesAre
  <1>4. \A k : Quests!QuestRow(k) # Quests!Monsters /\ Quests!QuestRow(k) # Quests!Wallet
    BY QuestKeysDiffer
  <1>a. \A n \in Nat : \A k : QuestIn(r, n, k) <=> \E i \in 1..Len(w) : i <= n /\ w[i] = Quests!QuestRow(k)
    BY DEF QuestIn
  <1> HIDE DEF a, m, w
  <1>5. a \in Nat /\ Len(w) \in Nat /\ a < Len(w)
    BY <1>1, <1>2
  <1>6. \A n \in Nat : \A k : n <= a => ~QuestIn(r, n, k)
    BY <1>a, <1>1, <1>2, <1>4
  <1>7. \A i \in 1..Len(w) : i <= a => w[i] \in {Quests!Monsters, Quests!Wallet}
    BY <1>1, <1>2
  <1>8. w[a + 1] \notin {Quests!Monsters, Quests!Wallet}
    BY <1>1, <1>2, <1>3, <1>4
  <1>9. \A i \in 1..Len(w) : w[i] \in {Quests!Monsters, Quests!Wallet} \/ \E k : w[i] = Quests!QuestRow(k) /\ k[1] \in DOMAIN Target
    BY <1>1, <1>2, <1>3
  <1>10. ASSUME NEW k
         PROVE  QuestIn(r, Len(w), k) <=> \E i \in DOMAIN m : m[i] = Quests!QuestRow(k)
    <2>1. ASSUME NEW i \in 1..Len(w), w[i] = Quests!QuestRow(k) PROVE \E j \in DOMAIN m : m[j] = Quests!QuestRow(k)
      <3>1. i - a \in DOMAIN m /\ m[i - a] = Quests!QuestRow(k)
        BY <1>1, <1>2, <1>4, <2>1
      <3> QED BY <3>1
    <2>2. ASSUME NEW i \in DOMAIN m, m[i] = Quests!QuestRow(k) PROVE \E j \in 1..Len(w) : j <= Len(w) /\ w[j] = Quests!QuestRow(k)
      <3>1. i + a \in 1..Len(w) /\ i + a <= Len(w) /\ (i + a) - a = i /\ i + a \in a + 1..a + Len(m)
        BY <1>1, <1>2
      <3>2. w[i + a] = m[i]
        BY <1>2, <3>1
      <3> QED BY <2>2, <3>1, <3>2
    <2> QED BY <1>5, <1>a, <2>1, <2>2
  <1> QED BY <1>5, <1>6, <1>7, <1>8, <1>9, <1>10 DEF a, m, w

LEMMA QuestPaying ==
    ASSUME NEW r \in DOMAIN plan, Quests!Kind(r) # "act"
    PROVE  /\ Len(Quests!RowsOf(r)) = 2 /\ Quests!RowsOf(r)[1] = Quests!QuestRow(Quests!Asked(r)) /\ Quests!RowsOf(r)[2] = Quests!Wallet
           /\ \A k : ~QuestIn(r, 0, k)
           /\ \A n \in Nat \ {0} : \A k : QuestIn(r, n, k) <=> k = Quests!Asked(r)
  <1>1. Quests!RowsOf(r) = <<Quests!QuestRow(Quests!Asked(r)), Quests!Wallet>>
    BY DEF Quests!RowsOf, Quests!Claims
  <1> DEFINE a == Quests!QuestRow(Quests!Asked(r))
  <1> HIDE DEF a
  <1>2. Len(Quests!RowsOf(r)) = 2 /\ Quests!RowsOf(r)[1] = a /\ Quests!RowsOf(r)[2] = Quests!Wallet
    BY <1>1 DEF a
  <1>3. \A k : ~QuestIn(r, 0, k)
    BY <1>2 DEF QuestIn
  <1>4. \A n \in Nat \ {0} : \A k : QuestIn(r, n, k) <=> k = Quests!Asked(r)
    BY <1>2, QuestKeysDiffer DEF QuestIn, a
  <1> QED BY <1>2, <1>3, <1>4 DEF a

QuestControl ==
    /\ plan \in QuestPlans
    /\ pc \in [Requests -> {"idle", "read", "open", "saving"} \cup Quests!Ended]
    /\ step \in [Requests -> Nat]
    /\ asked \in [Requests -> Quests!Days] /\ saved \in [Requests -> Quests!Days]
    /\ run \in [Requests -> Nat]
    /\ DOMAIN fresh = Requests
    /\ day \in Quests!Days

QuestHeld == \A x \in DOMAIN holder : holder[x] \in DOMAIN plan /\ Quests!IsOpen(holder[x])

QuestStage(r) ==
    /\ pc[r] = "read" => Quests!Kind(r) = "login"
    /\ pc[r] = "saving" => Quests!Kind(r) = "act"
    /\ pc[r] \in {"idle", "read"} => step[r] = 0
    /\ pc[r] = "open" /\ Quests!Kind(r) = "act" => step[r] <= QuestHead(r)
    /\ step[r] <= Len(Quests!RowsOf(r))

(* A request has written the quest rows it holds, from what they still are. *)
QuestWritten(r) ==
    /\ \A k : k \in DOMAIN fresh[r] <=> Quests!IsOpen(r) /\ QuestIn(r, step[r], k)
    /\ \A k \in DOMAIN fresh[r] :
          /\ Quests!HolderOf(Quests!QuestRow(k)) = r
          /\ Quests!Kind(r) = "act" => fresh[r][k] = Quests!Upserted(k)
          /\ Quests!Kind(r) # "act" => fresh[r][k] = Quests!Claimed(k)
          /\ Quests!Kind(r) = "claim" => Quests!IsClaimable(k)
          /\ Quests!Kind(r) = "login" => k \notin DOMAIN rows

(* The days that a login claim has counted stay without a gap. *)
QuestStreak(r) ==
    Quests!Kind(r) = "login" /\ pc[r] \in {"open", "committed"} =>
        \A e \in asked[r] - run[r]..asked[r] - 1 : Quests!Key(LOGIN, e) \in DOMAIN rows

QuestTable ==
    /\ \A k \in DOMAIN rows :
          /\ rows[k] \in Quests!Row
          /\ k[1] # LOGIN => k[1] \in DOMAIN Target /\ rows[k].progress <= Target[k[1]]
    /\ \A k : k \notin DOMAIN rows => Quests!DoneFor(k) = {} /\ Quests!PaidFor(k) = {} /\ k \notin DOMAIN OpeningRows
    /\ \A k \in DOMAIN OpeningRows : OpeningRows[k].claimed => rows[k].claimed

QuestInv ==
    /\ QuestControl /\ QuestHeld /\ QuestTable
    /\ \A r \in DOMAIN plan : QuestStage(r) /\ QuestWritten(r) /\ QuestStreak(r)
    /\ \A r \in Requests \ DOMAIN plan : DOMAIN fresh[r] = {}

(* What a step of r leaves alone. *)
QuestAlone(r) ==
    /\ plan' = plan
    /\ \A s \in Requests \ {r} :
          /\ pc'[s] = pc[s] /\ step'[s] = step[s] /\ asked'[s] = asked[s] /\ saved'[s] = saved[s]
          /\ run'[s] = run[s] /\ fresh'[s] = fresh[s]
          /\ \A x : Quests!HolderOf(x) = s => Quests!HolderOf(x)' = s

QuestUndo(r) == Quests!IsOpen(r) /\ Quests!Undo(r)

QuestDoes(r) ==
    \/ Quests!Begin(r) \/ Quests!ReadLogins(r) \/ Quests!TakeRow(r) \/ Quests!SaveEvents(r) \/ Quests!WriteQuest(r) \/ Quests!Commit(r) \/ QuestUndo(r)

LEMMA QuestActs ==
    ASSUME NEW r \in DOMAIN plan, Quests!Step(r) \/ Quests!Fail(r)
    PROVE  QuestDoes(r)
  <1>1. ASSUME Quests!DeadlockVictim(r) PROVE QuestUndo(r)
    <2>1. r \in Quests!Blocked /\ Quests!Undo(r)
      BY <1>1 DEF Quests!DeadlockVictim, Quests!Circles
    <2> QED BY <2>1 DEF Quests!Blocked, Quests!IsReady, QuestUndo
  <1> QED BY <1>1 DEF Quests!Step, Quests!Fail, Quests!Refuse, QuestDoes, QuestUndo

(* What holds of the rows of a request whatever day it is. *)
QuestShape ==
    plan \in QuestPlans => \A r \in DOMAIN plan :
        /\ Len(Quests!RowsOf(r)) \in Nat
        /\ Quests!Kind(r) = "act" =>
              /\ QuestHead(r) < Len(Quests!RowsOf(r))
              /\ \A n \in Nat : \A k : n <= QuestHead(r) => ~QuestIn(r, n, k)
        /\ \A k : ~QuestIn(r, 0, k)

LEMMA QuestShaped == QuestShape
  <1>1. ASSUME plan \in QuestPlans, NEW r \in DOMAIN plan
        PROVE  /\ Len(Quests!RowsOf(r)) \in Nat
               /\ Quests!Kind(r) = "act" =>
                     /\ QuestHead(r) < Len(Quests!RowsOf(r))
                     /\ \A n \in Nat : \A k : n <= QuestHead(r) => ~QuestIn(r, n, k)
               /\ \A k : ~QuestIn(r, 0, k)
    <2>1. CASE Quests!Kind(r) = "act"
      <3>1. /\ QuestHead(r) \in Nat /\ Len(Quests!RowsOf(r)) \in Nat /\ QuestHead(r) < Len(Quests!RowsOf(r))
            /\ \A n \in Nat : \A k : n <= QuestHead(r) => ~QuestIn(r, n, k)
        BY <1>1, <2>1, QuestActing
      <3> QED BY <3>1
    <2>2. CASE Quests!Kind(r) # "act"
      <3>1. Len(Quests!RowsOf(r)) = 2 /\ \A k : ~QuestIn(r, 0, k)
        BY <2>2, QuestPaying
      <3> QED BY <2>2, <3>1
    <2> QED BY <2>1, <2>2
  <1> QED BY <1>1 DEF QuestShape

LEMMA QuestShapedNext == QuestShape'
  BY QuestShaped, PTL

LEMMA QuestSameRows ==
    ASSUME NEW r, plan' = plan, asked'[r] = asked[r], saved'[r] = saved[r]
    PROVE  /\ Quests!RowsOf(r)' = Quests!RowsOf(r) /\ Quests!Asked(r)' = Quests!Asked(r) /\ Quests!Moves(r)' = Quests!Moves(r) /\ Quests!Kind(r)' = Quests!Kind(r)
           /\ QuestHead(r)' = QuestHead(r)
           /\ \A n : \A k : QuestIn(r, n, k)' <=> QuestIn(r, n, k)
  <1>1. Quests!Kind(r)' = Quests!Kind(r) /\ Quests!Asked(r)' = Quests!Asked(r) /\ Quests!Moves(r)' = Quests!Moves(r) /\ QuestHead(r)' = QuestHead(r)
    BY DEF Quests!Kind, Quests!Asked, Quests!Moves, QuestHead
  <1>2. Quests!RowsOf(r)' = Quests!RowsOf(r)
    BY <1>1 DEF Quests!RowsOf
  <1> QED BY <1>1, <1>2 DEF QuestIn

LEMMA QuestTakes ==
    ASSUME QuestControl, NEW r \in Requests, NEW x, Quests!Take(r, x), Quests!Free(x, r)
    PROVE  /\ Quests!HolderOf(x)' = r
           /\ \A y : y # x => Quests!HolderOf(y)' = Quests!HolderOf(y)
           /\ \A s \in Requests \ {r} : \A y : Quests!HolderOf(y) = s => Quests!HolderOf(y)' = s
  <1>1. DOMAIN holder' = DOMAIN holder \cup {x} /\ \A y \in DOMAIN holder' : holder'[y] = IF y = x THEN r ELSE holder[y]
    BY DEF Quests!Take
  <1>2. Quests!HolderOf(x)' = r
    BY <1>1 DEF Quests!HolderOf
  <1>3. \A y : y # x => Quests!HolderOf(y)' = Quests!HolderOf(y)
    BY <1>1 DEF Quests!HolderOf
  <1>4. \A s \in Requests \ {r} : Quests!HolderOf(x) # s
    BY QuestParameters, QuestSame DEF Quests!Free, Quests!QuestAssumption
  <1> QED BY <1>2, <1>3, <1>4

LEMMA QuestReleases ==
    ASSUME NEW r \in Requests, Quests!Release(r)
    PROVE  /\ \A s \in Requests \ {r} : \A y : Quests!HolderOf(y) = s => Quests!HolderOf(y)' = s
           /\ \A y \in DOMAIN holder' : y \in DOMAIN holder /\ holder'[y] = holder[y] /\ holder[y] # r
  <1>1. /\ DOMAIN holder' = {y \in DOMAIN holder : holder[y] # r}
        /\ \A y \in DOMAIN holder' : holder'[y] = holder[y]
    BY DEF Quests!Release
  <1>2. ASSUME NEW s \in Requests \ {r}, NEW y, Quests!HolderOf(y) = s PROVE Quests!HolderOf(y)' = s
    <2>1. y \in DOMAIN holder /\ holder[y] = s
      BY <1>2, QuestParameters, QuestSame DEF Quests!HolderOf, Quests!QuestAssumption
    <2>2. y \in DOMAIN holder' /\ holder'[y] = s
      BY <1>1, <1>2, <2>1
    <2> QED BY <2>2 DEF Quests!HolderOf
  <1> QED BY <1>1, <1>2

LEMMA QuestRun ==
    ASSUME NEW d \in Nat
    PROVE  /\ Quests!RunBefore(d) \in Nat
           /\ \A e \in d - Quests!RunBefore(d)..d - 1 : Quests!Key(LOGIN, e) \in DOMAIN rows
  <1> DEFINE Unbroken(n) == \A e \in d - n..d - 1 : Quests!Key(LOGIN, e) \in DOMAIN rows
             S == {n \in 0..LOOK_BACK : Unbroken(n)}
             T == {LOOK_BACK - n : n \in S}
  <1>1. LOOK_BACK \in Nat
    BY QuestParameters, QuestSame DEF Quests!QuestAssumption
  <1>2. Unbroken(0)
    OBVIOUS
  <1> HIDE DEF Unbroken
  <1>3. 0 \in S /\ S \subseteq Nat
    BY <1>1, <1>2
  <1>4. T \subseteq Nat /\ T # {}
    BY <1>1, <1>3
  <1>5. PICK t \in T : \A u \in T : t <= u
    BY <1>4, NatHasLeast
  <1>6. PICK m \in S : t = LOOK_BACK - m
    BY <1>5
  <1>7. ASSUME NEW n \in S PROVE m >= n
    <2>1. LOOK_BACK - n \in T
      OBVIOUS
    <2>2. t <= LOOK_BACK - n
      BY <1>5, <2>1
    <2>3. n \in Nat /\ m \in Nat
      BY <1>3
    <2> QED BY <1>1, <1>6, <2>2, <2>3
  <1>8. Quests!RunBefore(d) = CHOOSE x \in S : \A y \in S : x >= y
    BY QuestSame DEF Quests!RunBefore, Max, Unbroken
  <1>9. Quests!RunBefore(d) \in S
    BY <1>6, <1>7, <1>8
  <1> QED BY <1>3, <1>9 DEF Unbroken

LEMMA QuestControlStep ==
    ASSUME QuestInv, NEW r \in DOMAIN plan, QuestDoes(r)
    PROVE  QuestControl' /\ QuestHeld' /\ QuestAlone(r)
  <1> USE DEF Quests!Goes
  <1>1. QuestControl /\ QuestHeld /\ r \in Requests
    BY QuestRequests DEF QuestInv, QuestControl
  <1>2. CASE Quests!Begin(r)
    BY <1>1, <1>2 DEF Quests!Begin, QuestControl, QuestHeld, QuestAlone, Quests!IsOpen, Quests!Ended, Quests!HolderOf
  <1>3. CASE Quests!ReadLogins(r)
    <2>1. asked[r] \in Nat
      BY <1>1, QuestParameters, QuestSame DEF QuestControl, Quests!Days, Quests!QuestAssumption
    <2>2. Quests!RunBefore(asked[r]) \in Nat
      BY <2>1, QuestRun
    <2> QED BY <1>1, <1>3, <2>2 DEF Quests!ReadLogins, QuestControl, QuestHeld, QuestAlone, Quests!IsOpen, Quests!Ended, Quests!HolderOf
  <1>4. ASSUME NEW x, Quests!Take(r, x), Quests!Free(x, r), Quests!IsOpen(r)
        PROVE  /\ \A s \in Requests \ {r} : \A y : Quests!HolderOf(y) = s => Quests!HolderOf(y)' = s
               /\ \A y \in DOMAIN holder' : holder'[y] \in DOMAIN plan /\ Quests!IsOpen(holder'[y])
    <2>1. \A s \in Requests \ {r} : \A y : Quests!HolderOf(y) = s => Quests!HolderOf(y)' = s
      BY <1>1, <1>4, QuestTakes
    <2>2. \A y \in DOMAIN holder' : holder'[y] \in DOMAIN plan /\ Quests!IsOpen(holder'[y])
      BY <1>1, <1>4 DEF Quests!Take, QuestHeld
    <2> QED BY <2>1, <2>2
  <1>5. CASE Quests!TakeRow(r)
    <2>1. /\ Quests!Take(r, Quests!Wanted(r)) /\ Quests!Free(Quests!Wanted(r), r) /\ Quests!IsOpen(r)
          /\ step' = [step EXCEPT ![r] = @ + 1] /\ UNCHANGED <<plan, pc, asked, saved, run, fresh, rows, day>>
      BY <1>5 DEF Quests!TakeRow, Quests!IsReady
    <2>2. /\ \A s \in Requests \ {r} : \A y : Quests!HolderOf(y) = s => Quests!HolderOf(y)' = s
          /\ \A y \in DOMAIN holder' : holder'[y] \in DOMAIN plan /\ Quests!IsOpen(holder'[y])
      BY <1>4, <2>1
    <2>3. QuestHeld'
      BY <2>1, <2>2 DEF QuestHeld, Quests!IsOpen
    <2> QED BY <1>1, <2>1, <2>2, <2>3 DEF QuestControl, QuestAlone
  <1>6. CASE Quests!SaveEvents(r)
    BY <1>1, <1>6 DEF Quests!SaveEvents, QuestControl, QuestHeld, QuestAlone, Quests!IsOpen, Quests!Ended, Quests!HolderOf
  <1>7. CASE Quests!WriteQuest(r)
    <2> DEFINE v == IF Quests!Kind(r) = "act" THEN Quests!Upserted(Quests!Wanted(r)[2]) ELSE Quests!Claimed(Quests!Wanted(r)[2])
               f == Quests!Updated(fresh[r], [j \in {Quests!Wanted(r)[2]} |->
                       IF Quests!Kind(r) = "act" THEN Quests!Upserted(Quests!Wanted(r)[2]) ELSE Quests!Claimed(Quests!Wanted(r)[2])])
    <2>1. /\ Quests!Take(r, Quests!Wanted(r)) /\ Quests!Free(Quests!Wanted(r), r) /\ Quests!IsOpen(r) /\ fresh' = [fresh EXCEPT ![r] = f]
          /\ step' = [step EXCEPT ![r] = @ + 1] /\ UNCHANGED <<plan, pc, asked, saved, run, rows, day>>
      BY <1>7 DEF Quests!WriteQuest, Quests!IsReady
    <2>2. /\ \A s \in Requests \ {r} : \A y : Quests!HolderOf(y) = s => Quests!HolderOf(y)' = s
          /\ \A y \in DOMAIN holder' : holder'[y] \in DOMAIN plan /\ Quests!IsOpen(holder'[y])
      BY <1>4, <2>1
    <2>3. QuestHeld'
      BY <2>1, <2>2 DEF QuestHeld, Quests!IsOpen
    <2> HIDE DEF f
    <2> QED BY <1>1, <2>1, <2>2, <2>3 DEF QuestControl, QuestAlone
  <1>8. CASE Quests!Commit(r) \/ QuestUndo(r)
    <2>1. /\ Quests!Release(r) /\ pc' = [pc EXCEPT ![r] = pc'[r]] /\ pc'[r] \in Quests!Ended
          /\ fresh' = [fresh EXCEPT ![r] = Quests!Nothing]
          /\ UNCHANGED <<plan, step, asked, saved, run, day>>
      BY <1>1, <1>8 DEF Quests!Commit, QuestUndo, Quests!Undo, QuestControl, Quests!Ended
    <2>2. /\ \A s \in Requests \ {r} : \A y : Quests!HolderOf(y) = s => Quests!HolderOf(y)' = s
          /\ \A y \in DOMAIN holder' : y \in DOMAIN holder /\ holder'[y] = holder[y] /\ holder[y] # r
      BY <1>1, <2>1, QuestReleases
    <2>a. \A s \in DOMAIN plan : s \in Requests
      BY <1>1, QuestRequests DEF QuestControl
    <2>3. QuestHeld'
      BY <1>1, <2>1, <2>2, <2>a DEF QuestHeld, Quests!IsOpen, QuestControl
    <2> QED BY <1>1, <2>1, <2>2, <2>3 DEF QuestControl, QuestAlone
  <1> QED BY <1>2, <1>3, <1>5, <1>6, <1>7, <1>8 DEF QuestDoes

LEMMA QuestOwnStage ==
    ASSUME QuestInv, NEW r \in DOMAIN plan, QuestDoes(r), QuestControl', plan' = plan
    PROVE  QuestStage(r)'
  <1> USE DEF Quests!Goes
  <1>1. QuestControl /\ QuestStage(r) /\ QuestControl' /\ r \in Requests /\ step[r] \in Nat
    BY QuestRequests DEF QuestInv, QuestControl
  <1>2. Len(Quests!RowsOf(r)) \in Nat /\ (Quests!Kind(r) = "act" => QuestHead(r) < Len(Quests!RowsOf(r)))
    BY <1>1, QuestShaped DEF QuestShape, QuestControl
  <1>3. Len(Quests!RowsOf(r))' \in Nat /\ (Quests!Kind(r)' = "act" => QuestHead(r)' < Len(Quests!RowsOf(r))')
    BY <1>1, QuestShapedNext DEF QuestShape, QuestControl
  <1>4. QuestHead(r) \in Nat /\ QuestHead(r)' = QuestHead(r) /\ Quests!Kind(r)' = Quests!Kind(r)
    BY DEF QuestHead, Quests!Kind
  <1>5. CASE Quests!Begin(r)
    <2>1. step'[r] = 0 /\ pc'[r] \in {"read", "open"} /\ (pc'[r] = "read" => Quests!Kind(r) = "login")
      BY <1>1, <1>5 DEF Quests!Begin, QuestStage, QuestControl
    <2> QED BY <1>3, <1>4, <2>1 DEF QuestStage
  <1>6. CASE Quests!SaveEvents(r)
    <2>1. step'[r] = step[r] /\ pc'[r] = "saving" /\ Quests!Kind(r) = "act" /\ step[r] <= QuestHead(r)
      BY <1>1, <1>6 DEF Quests!SaveEvents, QuestStage, QuestControl
    <2> QED BY <1>1, <1>3, <1>4, <2>1 DEF QuestStage
  <1>7. CASE Quests!ReadLogins(r) \/ Quests!TakeRow(r) \/ Quests!WriteQuest(r) \/ Quests!Commit(r) \/ QuestUndo(r)
    <2>1. asked'[r] = asked[r] /\ saved'[r] = saved[r]
      BY <1>7 DEF Quests!ReadLogins, Quests!TakeRow, Quests!WriteQuest, Quests!Commit, QuestUndo, Quests!Undo
    <2>2. Quests!RowsOf(r)' = Quests!RowsOf(r)
      BY <2>1, QuestSameRows
    <2>3. CASE Quests!ReadLogins(r)
      <3>1. step'[r] = 0 /\ pc'[r] = "open" /\ Quests!Kind(r) = "login"
        BY <1>1, <2>3 DEF Quests!ReadLogins, QuestStage, QuestControl
      <3> QED BY <1>2, <1>4, <2>2, <3>1 DEF QuestStage
    <2>4. CASE Quests!TakeRow(r)
      <3>1. /\ step'[r] = step[r] + 1 /\ pc'[r] = pc[r] /\ pc[r] \in {"open", "saving"}
            /\ step[r] # Len(Quests!RowsOf(r)) /\ Quests!RowsOf(r)[step[r] + 1] \in {Quests!Monsters, Quests!Wallet}
        BY <1>1, <2>4 DEF Quests!TakeRow, QuestControl, Quests!IsReady, Quests!IsOpen, Quests!HasAll, Quests!Wanted
      <3>2. step[r] + 1 <= Len(Quests!RowsOf(r))
        BY <1>1, <1>2, <3>1 DEF QuestStage
      <3>3. ASSUME pc[r] = "open", Quests!Kind(r) = "act" PROVE step[r] + 1 <= QuestHead(r)
        <4>1. Quests!RowsOf(r)[QuestHead(r) + 1] \notin {Quests!Monsters, Quests!Wallet}
          BY <1>1, <3>3, QuestActing DEF QuestControl
        <4>2. step[r] # QuestHead(r) /\ step[r] <= QuestHead(r)
          BY <1>1, <3>1, <3>3, <4>1 DEF QuestStage
        <4> QED BY <1>1, <1>4, <4>2
      <3> QED BY <1>1, <1>4, <2>2, <3>1, <3>2, <3>3 DEF QuestStage
    <2>5. CASE Quests!WriteQuest(r)
      <3>1. /\ step'[r] = step[r] + 1 /\ pc'[r] = pc[r] /\ pc[r] \in {"open", "saving"}
            /\ step[r] # Len(Quests!RowsOf(r)) /\ (Quests!Kind(r) = "act" => pc[r] = "saving")
        BY <1>1, <2>5 DEF Quests!WriteQuest, QuestControl, Quests!IsReady, Quests!IsOpen, Quests!HasAll, Quests!Wanted
      <3>2. step[r] + 1 <= Len(Quests!RowsOf(r))
        BY <1>1, <1>2, <3>1 DEF QuestStage
      <3> QED BY <1>1, <1>4, <2>2, <3>1, <3>2 DEF QuestStage
    <2>6. CASE Quests!Commit(r) \/ QuestUndo(r)
      <3>1. step'[r] = step[r] /\ pc'[r] \in Quests!Ended
        BY <1>1, <2>6 DEF Quests!Commit, QuestUndo, Quests!Undo, QuestControl, Quests!Ended
      <3> QED BY <1>1, <2>2, <3>1 DEF QuestStage, Quests!Ended
    <2> QED BY <1>7, <2>3, <2>4, <2>5, <2>6
  <1> QED BY <1>5, <1>6, <1>7 DEF QuestDoes

(* The next row of a request, when it is a quest row *)
LEMMA QuestNextRow ==
    ASSUME QuestInv, NEW r \in DOMAIN plan, step[r] # Len(Quests!RowsOf(r)), Quests!Wanted(r)[1] = "quest"
    PROVE  /\ Quests!Wanted(r) = Quests!QuestRow(Quests!Wanted(r)[2])
           /\ Quests!Kind(r) = "act" => Quests!Wanted(r)[2][1] \in DOMAIN Target
           /\ Quests!Kind(r) # "act" => Quests!Wanted(r)[2] = Quests!Asked(r) /\ step[r] = 0
           /\ \A k : QuestIn(r, step[r] + 1, k) <=> QuestIn(r, step[r], k) \/ k = Quests!Wanted(r)[2]
  <1>1. step[r] \in Nat /\ step[r] <= Len(Quests!RowsOf(r)) /\ plan \in QuestPlans
    BY QuestRequests DEF QuestInv, QuestControl, QuestStage
  <1>2. Len(Quests!RowsOf(r)) \in Nat
    BY <1>1, QuestShaped DEF QuestShape
  <1>3. step[r] + 1 \in 1..Len(Quests!RowsOf(r)) /\ Quests!Wanted(r) = Quests!RowsOf(r)[step[r] + 1]
    BY <1>1, <1>2 DEF Quests!Wanted
  <1>4. \A k : Quests!QuestRow(k)[1] = "quest" /\ Quests!QuestRow(k)[2] = k
    BY QuestKeysDiffer
  <1>5. Quests!Wanted(r) \notin {Quests!Monsters, Quests!Wallet}
    BY QuestKeysDiffer
  <1>6. /\ Quests!Wanted(r) = Quests!QuestRow(Quests!Wanted(r)[2])
        /\ Quests!Kind(r) = "act" => Quests!Wanted(r)[2][1] \in DOMAIN Target
        /\ Quests!Kind(r) # "act" => Quests!Wanted(r)[2] = Quests!Asked(r) /\ step[r] = 0
    <2>1. CASE Quests!Kind(r) = "act"
      <3>1. \A i \in 1..Len(Quests!RowsOf(r)) : \/ Quests!RowsOf(r)[i] \in {Quests!Monsters, Quests!Wallet}
                                       \/ \E k : Quests!RowsOf(r)[i] = Quests!QuestRow(k) /\ k[1] \in DOMAIN Target
        BY <1>1, <2>1, QuestActing
      <3>2. PICK k : Quests!Wanted(r) = Quests!QuestRow(k) /\ k[1] \in DOMAIN Target
        BY <1>3, <1>5, <3>1
      <3>3. Quests!Wanted(r)[2] = k
        BY <1>4, <3>2
      <3> QED BY <2>1, <3>2, <3>3
    <2>2. CASE Quests!Kind(r) # "act"
      <3>1. Len(Quests!RowsOf(r)) = 2 /\ Quests!RowsOf(r)[1] = Quests!QuestRow(Quests!Asked(r)) /\ Quests!RowsOf(r)[2] = Quests!Wallet
        BY <2>2, QuestPaying
      <3>2. step[r] = 0 /\ Quests!Wanted(r) = Quests!QuestRow(Quests!Asked(r))
        BY <1>1, <1>3, <1>5, <3>1
      <3>3. Quests!Wanted(r)[2] = Quests!Asked(r)
        BY <1>4, <3>2
      <3> QED BY <2>2, <3>2, <3>3
    <2> QED BY <2>1, <2>2
  <1>7. ASSUME NEW k PROVE QuestIn(r, step[r] + 1, k) <=> QuestIn(r, step[r], k) \/ k = Quests!Wanted(r)[2]
    <2>1. Quests!RowsOf(r)[step[r] + 1] = Quests!QuestRow(k) <=> k = Quests!Wanted(r)[2]
      BY <1>3, <1>4, <1>6
    <2> QED BY <1>1, <1>2, <1>3, <2>1 DEF QuestIn
  <1> QED BY <1>6, <1>7

LEMMA QuestOwnWritten ==
    ASSUME QuestInv, NEW r \in DOMAIN plan, QuestDoes(r), QuestControl', plan' = plan
    PROVE  QuestWritten(r)'
  <1> USE DEF Quests!Goes
  <1>1. /\ QuestControl /\ QuestStage(r) /\ QuestWritten(r) /\ QuestControl'
        /\ r \in Requests /\ step[r] \in Nat
    BY QuestRequests DEF QuestInv, QuestControl
  <1>2. (\A k : ~QuestIn(r, 0, k)) /\ Len(Quests!RowsOf(r)) \in Nat
    BY <1>1, QuestShaped DEF QuestShape, QuestControl
  <1>3. /\ \A k : ~QuestIn(r, 0, k)'
        /\ Quests!Kind(r)' = "act" => \A n \in Nat : \A k : n <= QuestHead(r)' => ~QuestIn(r, n, k)'
    BY <1>1, QuestShapedNext DEF QuestShape, QuestControl
  <1>4. QuestHead(r) \in Nat /\ QuestHead(r)' = QuestHead(r) /\ Quests!Kind(r)' = Quests!Kind(r)
    BY DEF QuestHead, Quests!Kind
  <1>5. CASE Quests!Begin(r)
    <2>1. step'[r] = 0 /\ fresh' = fresh /\ pc[r] = "idle"
      BY <1>1, <1>5 DEF Quests!Begin, QuestStage, QuestControl
    <2>2. \A k : k \notin DOMAIN fresh'[r]
      BY <1>1, <2>1 DEF QuestWritten, Quests!IsOpen
    <2>3. \A k : ~QuestIn(r, step[r], k)'
      BY <1>3, <2>1 DEF QuestIn
    <2> QED BY <2>2, <2>3 DEF QuestWritten
  <1>6. CASE Quests!SaveEvents(r)
    <2>1. step'[r] = step[r] /\ fresh' = fresh /\ pc[r] = "open" /\ Quests!Kind(r) = "act" /\ step[r] <= QuestHead(r)
      BY <1>1, <1>6 DEF Quests!SaveEvents, QuestStage, QuestControl
    <2>2. \A k : ~QuestIn(r, step[r], k)
      BY <1>1, <2>1, QuestShaped DEF QuestShape, QuestControl
    <2>3. \A k : k \notin DOMAIN fresh'[r]
      BY <1>1, <2>1, <2>2 DEF QuestWritten
    <2>4. \A k : ~QuestIn(r, step[r], k)'
      BY <1>1, <1>3, <1>4, <2>1 DEF QuestIn
    <2> QED BY <2>3, <2>4 DEF QuestWritten
  <1>7. CASE Quests!ReadLogins(r) \/ Quests!TakeRow(r) \/ Quests!WriteQuest(r) \/ Quests!Commit(r) \/ QuestUndo(r)
    <2>1. asked'[r] = asked[r] /\ saved'[r] = saved[r]
      BY <1>7 DEF Quests!ReadLogins, Quests!TakeRow, Quests!WriteQuest, Quests!Commit, QuestUndo, Quests!Undo
    <2>2. \A n : \A k : QuestIn(r, n, k)' <=> QuestIn(r, n, k)
      BY <2>1, QuestSameRows
    <2>a. Quests!RowsOf(r)' = Quests!RowsOf(r) /\ Quests!Asked(r)' = Quests!Asked(r)
      BY <2>1, QuestSameRows
    <2>3. CASE Quests!ReadLogins(r)
      <3>1. step[r] = 0 /\ step'[r] = 0 /\ pc[r] = "read" /\ fresh' = fresh
        BY <1>1, <2>3 DEF Quests!ReadLogins, QuestStage, QuestControl
      <3>2. \A k : k \notin DOMAIN fresh'[r]
        BY <1>1, <3>1 DEF QuestWritten, Quests!IsOpen
      <3>3. \A k : ~QuestIn(r, step[r], k)'
        BY <1>3, <3>1 DEF QuestIn
      <3> QED BY <3>2, <3>3 DEF QuestWritten
    <2>4. CASE Quests!TakeRow(r)
      <3>1. /\ step'[r] = step[r] + 1 /\ pc' = pc /\ step[r] # Len(Quests!RowsOf(r))
            /\ Quests!Wanted(r) \in {Quests!Monsters, Quests!Wallet} /\ Quests!Take(r, Quests!Wanted(r)) /\ Quests!Free(Quests!Wanted(r), r)
            /\ fresh' = fresh /\ rows' = rows
        BY <1>1, <2>4 DEF Quests!TakeRow, QuestControl, Quests!IsReady, Quests!HasAll
      <3>2. \A k : Quests!QuestRow(k) # Quests!Wanted(r)
        BY <3>1, QuestKeysDiffer
      <3>3. \A k : Quests!HolderOf(Quests!QuestRow(k))' = Quests!HolderOf(Quests!QuestRow(k))
        BY <1>1, <3>1, <3>2, QuestTakes
      <3>4. \A k : QuestIn(r, step[r] + 1, k) <=> QuestIn(r, step[r], k)
        BY <1>1, <1>2, <3>2 DEF QuestIn, Quests!Wanted
      <3>5. \A k : QuestIn(r, step[r], k)' <=> QuestIn(r, step[r], k)
        BY <2>a, <3>1, <3>4 DEF QuestIn
      <3>6. \A k : Quests!Upserted(k)' = Quests!Upserted(k) /\ Quests!Claimed(k)' = Quests!Claimed(k) /\ Quests!IsClaimable(k)' = Quests!IsClaimable(k)
        BY <3>1 DEF Quests!Upserted, Quests!Claimed, Quests!IsClaimable
      <3> QED BY <1>1, <1>4, <3>1, <3>3, <3>5, <3>6 DEF QuestWritten, Quests!IsOpen
    <2>5. CASE Quests!WriteQuest(r)
      <3>k. PICK k0 : k0 = Quests!Wanted(r)[2]
        OBVIOUS
      <3> DEFINE f == Quests!Updated(fresh[r], [j \in {k0} |-> IF Quests!Kind(r) = "act" THEN Quests!Upserted(k0) ELSE Quests!Claimed(k0)])
      <3>1. /\ step'[r] = step[r] + 1 /\ pc' = pc /\ step[r] # Len(Quests!RowsOf(r)) /\ Quests!IsOpen(r) /\ ~Quests!IsRefused(r)
            /\ Quests!Wanted(r)[1] = "quest" /\ Quests!Take(r, Quests!Wanted(r)) /\ Quests!Free(Quests!Wanted(r), r)
            /\ fresh' = [fresh EXCEPT ![r] = f] /\ rows' = rows
        BY <1>1, <2>5, <3>k DEF Quests!WriteQuest, QuestControl, Quests!IsReady, Quests!HasAll
      <3>2. /\ Quests!Wanted(r) = Quests!QuestRow(k0)
            /\ Quests!Kind(r) # "act" => k0 = Quests!Asked(r) /\ step[r] = 0
            /\ \A k : QuestIn(r, step[r] + 1, k) <=> QuestIn(r, step[r], k) \/ k = k0
        BY <3>1, <3>k, QuestNextRow
      <3>3. fresh'[r] = f
        BY <1>1, <3>1 DEF QuestControl
      <3>4. /\ DOMAIN f = DOMAIN fresh[r] \cup {k0}
            /\ f[k0] = IF Quests!Kind(r) = "act" THEN Quests!Upserted(k0) ELSE Quests!Claimed(k0)
            /\ \A k \in DOMAIN fresh[r] : k # k0 => f[k] = fresh[r][k]
        BY DEF Quests!Updated
      <3> HIDE DEF f
      <3>5. Quests!HolderOf(Quests!QuestRow(k0))' = r /\ \A k : k # k0 => Quests!HolderOf(Quests!QuestRow(k))' = Quests!HolderOf(Quests!QuestRow(k))
        <4>1. Quests!Take(r, Quests!QuestRow(k0)) /\ Quests!Free(Quests!QuestRow(k0), r)
          BY <3>1, <3>2
        <4>2. /\ Quests!HolderOf(Quests!QuestRow(k0))' = r
              /\ \A y : y # Quests!QuestRow(k0) => Quests!HolderOf(y)' = Quests!HolderOf(y)
          BY <1>1, <4>1, QuestTakes
        <4> QED BY <4>2, QuestKeysDiffer
      <3>6. \A k : QuestIn(r, step[r], k)' <=> QuestIn(r, step[r], k) \/ k = k0
        BY <2>a, <3>1, <3>2 DEF QuestIn
      <3>7. \A k : Quests!Upserted(k)' = Quests!Upserted(k) /\ Quests!Claimed(k)' = Quests!Claimed(k) /\ Quests!IsClaimable(k)' = Quests!IsClaimable(k)
        BY <3>1 DEF Quests!Upserted, Quests!Claimed, Quests!IsClaimable
      <3>8. (Quests!Kind(r) = "claim" => Quests!IsClaimable(k0)) /\ (Quests!Kind(r) = "login" => k0 \notin DOMAIN rows)
        BY <3>1, <3>2 DEF Quests!IsRefused
      <3>9. \A k : k \in DOMAIN fresh'[r] <=> Quests!IsOpen(r)' /\ QuestIn(r, step[r], k)'
        BY <1>1, <3>1, <3>3, <3>4, <3>6 DEF QuestWritten, Quests!IsOpen
      <3>10. ASSUME NEW k \in DOMAIN fresh'[r]
             PROVE  /\ Quests!HolderOf(Quests!QuestRow(k))' = r
                    /\ Quests!Kind(r) = "act" => fresh'[r][k] = Quests!Upserted(k)'
                    /\ Quests!Kind(r) # "act" => fresh'[r][k] = Quests!Claimed(k)'
                    /\ Quests!Kind(r) = "claim" => Quests!IsClaimable(k)'
                    /\ Quests!Kind(r) = "login" => k \notin DOMAIN rows'
        <4>1. CASE k = k0
          <5>1. Quests!HolderOf(Quests!QuestRow(k))' = r
            BY <3>5, <4>1
          <5>2. fresh'[r][k] = IF Quests!Kind(r) = "act" THEN Quests!Upserted(k) ELSE Quests!Claimed(k)
            BY <3>3, <3>4, <4>1
          <5>3. (Quests!Kind(r) = "claim" => Quests!IsClaimable(k)) /\ (Quests!Kind(r) = "login" => k \notin DOMAIN rows)
            BY <3>8, <4>1
          <5> QED BY <3>1, <3>7, <5>1, <5>2, <5>3
        <4>2. CASE k # k0
          <5>1. k \in DOMAIN fresh[r]
            BY <3>3, <3>4, <4>2
          <5> QED BY <1>1, <3>1, <3>3, <3>4, <3>5, <3>7, <4>2, <5>1 DEF QuestWritten
        <4> QED BY <4>1, <4>2
      <3> QED BY <1>4, <3>9, <3>10 DEF QuestWritten
    <2>6. CASE Quests!Commit(r) \/ QuestUndo(r)
      <3>1. fresh'[r] = Quests!Nothing /\ pc'[r] \in Quests!Ended
        BY <1>1, <2>6 DEF Quests!Commit, QuestUndo, Quests!Undo, QuestControl, Quests!Ended
      <3>2. DOMAIN fresh'[r] = {} /\ ~Quests!IsOpen(r)'
        BY <3>1 DEF Quests!Nothing, Quests!IsOpen, Quests!Ended
      <3> QED BY <3>2 DEF QuestWritten
    <2> QED BY <1>7, <2>3, <2>4, <2>5, <2>6
  <1> QED BY <1>5, <1>6, <1>7 DEF QuestDoes

LEMMA QuestOwnStreak ==
    ASSUME QuestInv, NEW r \in DOMAIN plan, QuestDoes(r), plan' = plan, DOMAIN rows \subseteq DOMAIN rows'
    PROVE  QuestStreak(r)'
  <1> USE DEF Quests!Goes
  <1>1. QuestControl /\ QuestStage(r) /\ QuestStreak(r) /\ r \in Requests
    BY QuestRequests DEF QuestInv, QuestControl
  <1>2. Quests!Kind(r)' = Quests!Kind(r)
    BY DEF Quests!Kind
  <1>3. CASE Quests!Begin(r)
    <2>1. Quests!Kind(r) = "login" => pc'[r] = "read"
      BY <1>1, <1>3 DEF Quests!Begin, QuestControl
    <2> QED BY <1>2, <2>1 DEF QuestStreak
  <1>4. CASE Quests!ReadLogins(r)
    <2>1. asked[r] \in Nat
      BY <1>1, QuestParameters, QuestSame DEF QuestControl, Quests!Days, Quests!QuestAssumption
    <2>2. run'[r] = Quests!RunBefore(asked[r]) /\ asked' = asked /\ rows' = rows
      BY <1>1, <1>4 DEF Quests!ReadLogins, QuestControl
    <2>3. \A e \in asked[r] - Quests!RunBefore(asked[r])..asked[r] - 1 : Quests!Key(LOGIN, e) \in DOMAIN rows
      BY <2>1, QuestRun
    <2> QED BY <2>2, <2>3 DEF QuestStreak
  <1>5. CASE Quests!TakeRow(r) \/ Quests!WriteQuest(r) \/ Quests!Commit(r)
    <2>1. /\ asked' = asked /\ run' = run /\ pc[r] \in {"open", "saving"}
      BY <1>1, <1>5 DEF Quests!TakeRow, Quests!WriteQuest, Quests!Commit, Quests!IsReady, Quests!IsOpen
    <2>2. Quests!Kind(r) = "login" => pc[r] = "open"
      BY <1>1, <2>1 DEF QuestStage
    <2>3. Quests!Kind(r) = "login" =>
              \A e \in asked[r] - run[r]..asked[r] - 1 : Quests!Key(LOGIN, e) \in DOMAIN rows
      BY <1>1, <2>2 DEF QuestStreak
    <2> QED BY <1>2, <2>1, <2>3 DEF QuestStreak
  <1>6. CASE Quests!SaveEvents(r)
    <2>1. Quests!Kind(r) = "act"
      BY <1>6 DEF Quests!SaveEvents
    <2> QED BY <1>2, <2>1 DEF QuestStreak
  <1>7. CASE QuestUndo(r)
    <2>1. pc'[r] = "rolledBack"
      BY <1>1, <1>7 DEF QuestUndo, Quests!Undo, QuestControl
    <2> QED BY <2>1 DEF QuestStreak
  <1> QED BY <1>3, <1>4, <1>5, <1>6, <1>7 DEF QuestDoes

---------------------------------------------------------------------------

(* The requests that have committed, and what they asked and saved *)
QuestQuiet ==
    /\ rows' = rows /\ plan' = plan
    /\ \A s \in DOMAIN plan :
          /\ pc'[s] = "committed" <=> pc[s] = "committed"
          /\ pc[s] = "committed" => asked'[s] = asked[s] /\ saved'[s] = saved[s] /\ run'[s] = run[s]

LEMMA QuestQuietSets ==
    ASSUME QuestQuiet
    PROVE  /\ \A kinds : Quests!Committed(kinds)' = Quests!Committed(kinds)
           /\ \A k : Quests!PaidFor(k)' = Quests!PaidFor(k) /\ Quests!DoneFor(k)' = Quests!DoneFor(k) /\ Quests!Worked(k)' = Quests!Worked(k)
  <1>1. \A s \in DOMAIN plan : Quests!Kind(s)' = Quests!Kind(s)
    BY DEF QuestQuiet, Quests!Kind
  <1>2. \A s \in DOMAIN plan : pc[s] = "committed" => Quests!Asked(s)' = Quests!Asked(s) /\ Quests!Moves(s)' = Quests!Moves(s)
    BY DEF QuestQuiet, Quests!Asked, Quests!Moves
  <1>3. \A kinds : Quests!Committed(kinds)' = Quests!Committed(kinds)
    BY <1>1 DEF Quests!Committed, QuestQuiet
  <1>4. \A kinds : \A s \in Quests!Committed(kinds) : s \in DOMAIN plan /\ pc[s] = "committed"
    BY DEF Quests!Committed
  <1>5. ASSUME NEW k PROVE Quests!PaidFor(k)' = Quests!PaidFor(k)
    BY <1>2, <1>3, <1>4 DEF Quests!PaidFor
  <1>6. ASSUME NEW k PROVE Quests!DoneFor(k)' = Quests!DoneFor(k)
    BY <1>2, <1>3, <1>4 DEF Quests!DoneFor
  <1>7. ASSUME NEW k PROVE Quests!Worked(k)' = Quests!Worked(k)
    BY <1>6, QuestSame DEF Quests!Worked
  <1> QED BY <1>3, <1>5, <1>6, <1>7

QuestPromise == Quests!TypeOK /\ Quests!PaidOnceForWork /\ Quests!StreaksAreReal

LEMMA QuestQuietKeeps ==
    ASSUME QuestQuiet, QuestTable, Quests!PaidOnceForWork, Quests!StreaksAreReal
    PROVE  QuestTable' /\ Quests!PaidOnceForWork' /\ Quests!StreaksAreReal'
  <1>1. /\ \A kinds : Quests!Committed(kinds)' = Quests!Committed(kinds)
        /\ \A k : Quests!PaidFor(k)' = Quests!PaidFor(k) /\ Quests!DoneFor(k)' = Quests!DoneFor(k) /\ Quests!Worked(k)' = Quests!Worked(k)
    BY QuestQuietSets
  <1>2. \A s \in DOMAIN plan : pc[s] = "committed" => Quests!Asked(s)' = Quests!Asked(s)
    BY DEF QuestQuiet, Quests!Asked
  <1>3. \A kinds : \A s \in Quests!Committed(kinds) : s \in DOMAIN plan /\ pc[s] = "committed"
    BY DEF Quests!Committed
  <1>4. QuestTable'
    BY <1>1 DEF QuestTable, QuestQuiet
  <1>5. Quests!PaidOnceForWork'
    <2>1. \A k \in DOMAIN rows' : k[1] # LOGIN =>
            /\ rows'[k].progress = IF Quests!Worked(k)' < Target[k[1]] THEN Quests!Worked(k)' ELSE Target[k[1]]
            /\ Cardinality(Quests!PaidFor(k)') =
                  IF rows'[k].claimed /\ ~(k \in DOMAIN OpeningRows /\ OpeningRows[k].claimed) THEN 1 ELSE 0
      BY <1>1, QuestSame DEF Quests!PaidOnceForWork, QuestQuiet
    <2>2. ASSUME NEW s \in Quests!Committed({"claim"})'
          PROVE  Quests!Asked(s)' \in DOMAIN rows' /\ Quests!Worked(Quests!Asked(s))' >= Target[plan'[s].quest]
      <3>1. s \in Quests!Committed({"claim"})
        BY <1>1
      <3>2. Quests!Asked(s)' = Quests!Asked(s)
        BY <1>2, <1>3, <3>1
      <3>3. Quests!Worked(Quests!Asked(s))' = Quests!Worked(Quests!Asked(s))
        <4>1. PICK k : k = Quests!Asked(s)
          OBVIOUS
        <4>2. Quests!Worked(k)' = Quests!Worked(k)
          BY <1>1
        <4>3. Quests!Worked(Quests!Asked(s))' = (IF Quests!Asked(s)' \in DOMAIN OpeningRows THEN OpeningRows[Quests!Asked(s)'].progress ELSE 0)
                                  + Cardinality(Quests!DoneFor(Quests!Asked(s))')
          BY QuestSame DEF Quests!Worked
        <4>4. Quests!Worked(k)' = (IF k \in DOMAIN OpeningRows THEN OpeningRows[k].progress ELSE 0)
                                  + Cardinality(Quests!DoneFor(k)')
          BY QuestSame DEF Quests!Worked
        <4>5. Quests!DoneFor(Quests!Asked(s))' = Quests!DoneFor(k)'
          BY <3>2, <4>1 DEF Quests!DoneFor
        <4> QED BY <3>2, <4>1, <4>2, <4>3, <4>4, <4>5
      <3> QED BY <3>1, <3>2, <3>3, QuestSame DEF Quests!PaidOnceForWork, QuestQuiet
    <2> QED BY <2>1, <2>2, QuestSame DEF Quests!PaidOnceForWork
  <1>6. Quests!StreaksAreReal'
    <2>1. ASSUME NEW s \in Quests!Committed({"login"})'
          PROVE  /\ Quests!PaidFor(Quests!Asked(s))' = {s} /\ Quests!Asked(s)' \in DOMAIN rows'
                 /\ \A e \in asked'[s] - run'[s]..asked'[s] - 1 : Quests!Key(LOGIN, e) \in DOMAIN rows'
      <3>1. s \in Quests!Committed({"login"})
        BY <1>1
      <3>2. Quests!Asked(s)' = Quests!Asked(s)
        BY <1>2, <1>3, <3>1
      <3>3. Quests!PaidFor(Quests!Asked(s))' = Quests!PaidFor(Quests!Asked(s))
        <4>1. PICK k : k = Quests!Asked(s)
          OBVIOUS
        <4>2. Quests!PaidFor(k)' = Quests!PaidFor(k)
          BY <1>1
        <4>3. Quests!PaidFor(Quests!Asked(s))' = Quests!PaidFor(k)'
          BY <3>2, <4>1 DEF Quests!PaidFor
        <4> QED BY <4>1, <4>2, <4>3
      <3>4. asked'[s] = asked[s] /\ run'[s] = run[s] /\ rows' = rows
        BY <1>3, <3>1 DEF QuestQuiet
      <3> QED BY <3>1, <3>2, <3>3, <3>4 DEF Quests!StreaksAreReal
    <2> QED BY <2>1 DEF Quests!StreaksAreReal
  <1> QED BY <1>4, <1>5, <1>6

---------------------------------------------------------------------------

LEMMA QuestTargets ==
    /\ LOGIN \notin DOMAIN Target
    /\ \A q \in DOMAIN Target : Target[q] \in Nat
    /\ IsFiniteSet(Requests)
  BY QuestParameters, QuestSame DEF Quests!QuestAssumption

LEMMA QuestUpserts ==
    ASSUME QuestTable, NEW k, k[1] \in DOMAIN Target
    PROVE  /\ Quests!Upserted(k) \in Quests!Row /\ Quests!Upserted(k).progress <= Target[k[1]]
           /\ k \in DOMAIN rows =>
                 /\ Quests!Upserted(k).claimed = rows[k].claimed
                 /\ Quests!Upserted(k).progress = IF rows[k].progress < Target[k[1]] THEN rows[k].progress + 1 ELSE rows[k].progress
           /\ k \notin DOMAIN rows =>
                 /\ Quests!Upserted(k).claimed = FALSE
                 /\ Quests!Upserted(k).progress = IF 0 < Target[k[1]] THEN 1 ELSE 0
  <1>1. Target[k[1]] \in Nat /\ k[1] # LOGIN
    BY QuestTargets
  <1>2. CASE k \in DOMAIN rows
    <2>1. rows[k] \in Quests!Row /\ rows[k].progress <= Target[k[1]]
      BY <1>1, <1>2 DEF QuestTable
    <2>2. Quests!Upserted(k) = [rows[k] EXCEPT !.progress = IF @ < Target[k[1]] THEN @ + 1 ELSE @]
      BY <1>2 DEF Quests!Upserted
    <2> DEFINE w == rows[k]  t == Target[k[1]]
    <2>3. w \in Quests!Row /\ t \in Nat /\ w.progress <= t
      BY <1>1, <2>1
    <2> HIDE DEF w, t
    <2>4. Quests!Upserted(k) = [w EXCEPT !.progress = IF @ < t THEN @ + 1 ELSE @]
      BY <2>2 DEF w, t
    <2>5. Quests!Upserted(k) = [progress |-> IF w.progress < t THEN w.progress + 1 ELSE w.progress, claimed |-> w.claimed]
      BY <2>3, <2>4 DEF Quests!Row
    <2>6. /\ Quests!Upserted(k) \in Quests!Row /\ Quests!Upserted(k).progress <= t /\ Quests!Upserted(k).claimed = w.claimed
          /\ Quests!Upserted(k).progress = IF w.progress < t THEN w.progress + 1 ELSE w.progress
      BY <2>3, <2>5 DEF Quests!Row
    <2> QED BY <1>2, <2>6 DEF w, t
  <1>3. CASE k \notin DOMAIN rows
    <2>1. Quests!Upserted(k) = [[progress |-> 0, claimed |-> FALSE] EXCEPT !.progress = IF @ < Target[k[1]] THEN @ + 1 ELSE @]
      BY <1>3 DEF Quests!Upserted
    <2>2. Quests!Upserted(k) = [progress |-> IF 0 < Target[k[1]] THEN 0 + 1 ELSE 0, claimed |-> FALSE]
      BY <2>1
    <2>3. /\ Quests!Upserted(k) \in Quests!Row /\ Quests!Upserted(k).progress <= Target[k[1]] /\ Quests!Upserted(k).claimed = FALSE
          /\ Quests!Upserted(k).progress = IF 0 < Target[k[1]] THEN 1 ELSE 0
      BY <1>1, <2>2 DEF Quests!Row
    <2> QED BY <1>3, <2>3
  <1> QED BY <1>2, <1>3

LEMMA QuestClaims ==
    ASSUME QuestTable, NEW k, k[1] = LOGIN \/ k \in DOMAIN rows
    PROVE  /\ Quests!Claimed(k) \in Quests!Row /\ Quests!Claimed(k).claimed = TRUE
           /\ k[1] # LOGIN => Quests!Claimed(k).progress = rows[k].progress
  <1>1. CASE k[1] = LOGIN
    <2>1. Quests!Claimed(k) = [progress |-> 1, claimed |-> TRUE]
      BY <1>1 DEF Quests!Claimed
    <2> QED BY <1>1, <2>1 DEF Quests!Row
  <1>2. CASE k[1] # LOGIN
    <2>1. Quests!Claimed(k) = [rows[k] EXCEPT !.claimed = TRUE] /\ rows[k] \in Quests!Row
      BY <1>2 DEF Quests!Claimed, QuestTable
    <2> DEFINE w == rows[k]
    <2>2. Quests!Claimed(k) = [w EXCEPT !.claimed = TRUE] /\ w \in Quests!Row
      BY <2>1
    <2> HIDE DEF w
    <2>3. Quests!Claimed(k) \in Quests!Row /\ Quests!Claimed(k).claimed = TRUE /\ Quests!Claimed(k).progress = w.progress
      BY <2>2 DEF Quests!Row
    <2> QED BY <1>2, <2>3 DEF w
  <1> QED BY <1>1, <1>2

(* What a request has written is a row that the table could hold. *)
LEMMA QuestFresh ==
    ASSUME QuestInv, NEW r \in DOMAIN plan, NEW k \in DOMAIN fresh[r]
    PROVE  /\ fresh[r][k] \in Quests!Row
           /\ k[1] # LOGIN => k[1] \in DOMAIN Target /\ fresh[r][k].progress <= Target[k[1]]
           /\ Quests!Kind(r) = "act" => k[1] \in DOMAIN Target
           /\ Quests!Kind(r) # "act" => k = Quests!Asked(r)
  <1>1. QuestTable /\ plan \in QuestPlans /\ QuestStage(r) /\ QuestWritten(r) /\ step[r] \in Nat
    BY QuestRequests DEF QuestInv, QuestControl
  <1>2. QuestIn(r, step[r], k)
    BY <1>1 DEF QuestWritten
  <1>3. CASE Quests!Kind(r) = "act"
    <2>1. \A i \in 1..Len(Quests!RowsOf(r)) : \/ Quests!RowsOf(r)[i] \in {Quests!Monsters, Quests!Wallet}
                                              \/ \E j : Quests!RowsOf(r)[i] = Quests!QuestRow(j) /\ j[1] \in DOMAIN Target
      BY <1>1, <1>3, QuestActing
    <2>2. PICK i \in 1..Len(Quests!RowsOf(r)) : Quests!RowsOf(r)[i] = Quests!QuestRow(k)
      BY <1>2 DEF QuestIn
    <2>3. Quests!QuestRow(k) \notin {Quests!Monsters, Quests!Wallet} /\ \A j : Quests!QuestRow(k) = Quests!QuestRow(j) => k = j
      BY QuestKeysDiffer
    <2>4. k[1] \in DOMAIN Target
      BY <2>1, <2>2, <2>3
    <2>5. Quests!Upserted(k) \in Quests!Row /\ Quests!Upserted(k).progress <= Target[k[1]]
      BY <1>1, <2>4, QuestUpserts
    <2>6. fresh[r][k] = Quests!Upserted(k)
      BY <1>1, <1>3 DEF QuestWritten
    <2> QED BY <1>3, <2>4, <2>5, <2>6
  <1>4. CASE Quests!Kind(r) # "act"
    <2>1. k = Quests!Asked(r)
      BY <1>1, <1>2, <1>4, QuestPaying
    <2>2. k[1] = plan[r].quest
      BY <2>1, QuestKeysDiffer DEF Quests!Asked
    <2>3. fresh[r][k] = Quests!Claimed(k)
      BY <1>1, <1>4 DEF QuestWritten
    <2>4. Quests!Kind(r) \in {"claim", "login"}
      BY <1>1, <1>4, QuestRequests
    <2>5. CASE Quests!Kind(r) = "claim"
      <3>1. k \in DOMAIN rows /\ k[1] \in DOMAIN Target
        BY <1>1, <2>2, <2>5, QuestRequests DEF QuestWritten, Quests!IsClaimable
      <3>2. k[1] # LOGIN /\ rows[k].progress <= Target[k[1]]
        BY <1>1, <3>1, QuestTargets DEF QuestTable
      <3>3. Quests!Claimed(k) \in Quests!Row /\ Quests!Claimed(k).progress = rows[k].progress
        BY <1>1, <3>1, <3>2, QuestClaims
      <3> QED BY <1>4, <2>1, <2>3, <3>1, <3>2, <3>3
    <2>6. CASE Quests!Kind(r) = "login"
      <3>1. k[1] = LOGIN
        BY <1>1, <2>2, <2>6, QuestRequests
      <3>2. Quests!Claimed(k) \in Quests!Row
        BY <1>1, <3>1, QuestClaims
      <3> QED BY <1>4, <2>1, <2>3, <3>1, <3>2
    <2> QED BY <2>4, <2>5, <2>6
  <1> QED BY <1>3, <1>4

LEMMA QuestTypes ==
    ASSUME QuestInv
    PROVE  Quests!TypeOK
  <1>1. QuestControl /\ QuestHeld /\ QuestTable
    BY DEF QuestInv
  <1>2. ASSUME NEW r \in Requests, NEW k \in DOMAIN fresh[r]
        PROVE  fresh[r][k] \in Quests!Row
    <2>1. r \in DOMAIN plan
      BY <1>2 DEF QuestInv
    <2> QED BY <1>2, <2>1, QuestFresh
  <1>3. \A k \in DOMAIN rows : rows[k] \in Quests!Row /\ (k[1] # LOGIN => rows[k].progress <= Target[k[1]])
    BY <1>1 DEF QuestTable
  <1>4. \A x \in DOMAIN holder : Quests!IsOpen(holder[x])
    BY <1>1 DEF QuestHeld
  <1> QED BY <1>1, <1>2, <1>3, <1>4 DEF Quests!TypeOK, QuestControl

LEMMA QuestOthers ==
    ASSUME QuestInv, NEW r \in DOMAIN plan, QuestAlone(r), NEW s \in DOMAIN plan, s # r,
           DOMAIN rows \subseteq DOMAIN rows',
           \A k \in DOMAIN fresh[s] : (k \in DOMAIN rows' <=> k \in DOMAIN rows) /\ (k \in DOMAIN rows => rows'[k] = rows[k])
    PROVE  QuestStage(s)' /\ QuestWritten(s)' /\ QuestStreak(s)'
  <1>1. QuestStage(s) /\ QuestWritten(s) /\ QuestStreak(s) /\ s \in Requests \ {r}
    BY QuestRequests DEF QuestInv, QuestControl
  <1>2. /\ plan' = plan /\ pc'[s] = pc[s] /\ step'[s] = step[s] /\ asked'[s] = asked[s] /\ saved'[s] = saved[s]
        /\ run'[s] = run[s] /\ fresh'[s] = fresh[s]
        /\ \A x : Quests!HolderOf(x) = s => Quests!HolderOf(x)' = s
    BY <1>1 DEF QuestAlone
  <1>3. /\ Quests!RowsOf(s)' = Quests!RowsOf(s) /\ Quests!Kind(s)' = Quests!Kind(s) /\ QuestHead(s)' = QuestHead(s)
        /\ \A n : \A k : QuestIn(s, n, k)' <=> QuestIn(s, n, k)
    BY <1>2, QuestSameRows
  <1>4. QuestStage(s)'
    BY <1>1, <1>2, <1>3 DEF QuestStage
  <1>5. QuestStreak(s)'
    BY <1>1, <1>2, <1>3 DEF QuestStreak
  <1>6. \A k : QuestIn(s, step[s], k)' <=> QuestIn(s, step[s], k)
    BY <1>2, <1>3 DEF QuestIn
  <1>7. \A k : k \in DOMAIN fresh'[s] <=> Quests!IsOpen(s)' /\ QuestIn(s, step[s], k)'
    BY <1>1, <1>2, <1>6 DEF QuestWritten, Quests!IsOpen
  <1>8. ASSUME NEW k \in DOMAIN fresh[s]
        PROVE  /\ Quests!Upserted(k)' = Quests!Upserted(k) /\ (Quests!Kind(s) # "act" => Quests!Claimed(k)' = Quests!Claimed(k))
               /\ Quests!IsClaimable(k)' <=> Quests!IsClaimable(k)
               /\ k \in DOMAIN rows' <=> k \in DOMAIN rows
    <2>1. (k \in DOMAIN rows' <=> k \in DOMAIN rows) /\ (k \in DOMAIN rows => rows'[k] = rows[k])
      OBVIOUS
    <2>2. Quests!IsClaimable(k)' <=> Quests!IsClaimable(k)
      BY <2>1 DEF Quests!IsClaimable
    <2>3. Quests!Upserted(k)' = Quests!Upserted(k)
      BY <2>1 DEF Quests!Upserted
    <2>4. ASSUME Quests!Kind(s) # "act" PROVE k[1] = LOGIN \/ k \in DOMAIN rows
      <3>1. Quests!Kind(s) \in {"claim", "login"} /\ (Quests!Kind(s) = "login" => plan[s].quest = LOGIN)
        BY <2>4, QuestRequests DEF QuestInv, QuestControl
      <3>2. k = Quests!Asked(s)
        BY <2>4, QuestFresh
      <3>3. k[1] = plan[s].quest
        BY <3>2, QuestKeysDiffer DEF Quests!Asked
      <3>4. Quests!Kind(s) = "claim" => k \in DOMAIN rows
        BY <1>1 DEF QuestWritten, Quests!IsClaimable
      <3> QED BY <3>1, <3>3, <3>4
    <2>5. Quests!Kind(s) # "act" => Quests!Claimed(k)' = Quests!Claimed(k)
      BY <2>1, <2>4 DEF Quests!Claimed
    <2> QED BY <2>1, <2>2, <2>3, <2>5
  <1>9. \A k \in DOMAIN fresh'[s] :
          /\ Quests!HolderOf(Quests!QuestRow(k))' = s
          /\ Quests!Kind(s)' = "act" => fresh'[s][k] = Quests!Upserted(k)'
          /\ Quests!Kind(s)' # "act" => fresh'[s][k] = Quests!Claimed(k)'
          /\ Quests!Kind(s)' = "claim" => Quests!IsClaimable(k)'
          /\ Quests!Kind(s)' = "login" => k \notin DOMAIN rows'
    BY <1>1, <1>2, <1>3, <1>8 DEF QuestWritten
  <1> QED BY <1>4, <1>5, <1>7, <1>9 DEF QuestWritten

---------------------------------------------------------------------------

(* What a commit adds to the sets that the promises count. *)
LEMMA QuestCommitted ==
    ASSUME QuestInv, NEW r \in DOMAIN plan, Quests!Commit(r)
    PROVE  /\ \A kinds : Quests!Committed(kinds)' = IF Quests!Kind(r) \in kinds THEN Quests!Committed(kinds) \cup {r} ELSE Quests!Committed(kinds)
           /\ \A s \in DOMAIN plan : Quests!Asked(s)' = Quests!Asked(s) /\ asked'[s] = asked[s] /\ run'[s] = run[s]
           /\ \A k : Quests!DoneFor(k)' = IF Quests!Kind(r) = "act" /\ k \in DOMAIN fresh[r] THEN Quests!DoneFor(k) \cup {r} ELSE Quests!DoneFor(k)
           /\ \A k : Quests!PaidFor(k)' = IF Quests!Kind(r) # "act" /\ k \in DOMAIN fresh[r] THEN Quests!PaidFor(k) \cup {r} ELSE Quests!PaidFor(k)
           /\ Quests!Kind(r) # "act" => Quests!Asked(r) \in DOMAIN fresh[r]
           /\ \A k : /\ r \notin Quests!DoneFor(k) /\ r \notin Quests!PaidFor(k)
                     /\ IsFiniteSet(Quests!DoneFor(k)) /\ IsFiniteSet(Quests!PaidFor(k))
  <1>1. /\ QuestControl /\ QuestStage(r) /\ QuestWritten(r) /\ plan \in QuestPlans /\ step[r] \in Nat
        /\ r \in Requests /\ DOMAIN plan \subseteq Requests
    BY QuestRequests DEF QuestInv, QuestControl
  <1>2. /\ Quests!IsOpen(r) /\ step[r] = Len(Quests!RowsOf(r)) /\ pc' = [pc EXCEPT ![r] = "committed"]
        /\ plan' = plan /\ asked' = asked /\ saved' = saved /\ run' = run
    BY DEF Quests!Commit, Quests!HasAll, Quests!Goes
  <1>3. \A s \in DOMAIN plan : /\ pc'[s] = IF s = r THEN "committed" ELSE pc[s]
                               /\ Quests!Kind(s)' = Quests!Kind(s) /\ Quests!Asked(s)' = Quests!Asked(s) /\ Quests!Moves(s)' = Quests!Moves(s)
    BY <1>1, <1>2 DEF QuestControl, Quests!Kind, Quests!Asked, Quests!Moves
  <1>4. pc[r] # "committed" /\ Quests!Kind(r) \in {"act", "claim", "login"}
    BY <1>1, <1>2, QuestRequests DEF Quests!IsOpen
  <1>5. \A kinds : Quests!Committed(kinds)' = IF Quests!Kind(r) \in kinds THEN Quests!Committed(kinds) \cup {r} ELSE Quests!Committed(kinds)
    BY <1>2, <1>3 DEF Quests!Committed
  <1>6. \A kinds : \A s \in Quests!Committed(kinds) : s \in DOMAIN plan /\ Quests!Kind(s) \in kinds /\ s # r
    BY <1>4 DEF Quests!Committed
  <1>7. ASSUME Quests!Kind(r) = "act", NEW k
        PROVE  k \in DOMAIN fresh[r] <=> \E i \in DOMAIN Quests!Moves(r) : Quests!Moves(r)[i] = Quests!QuestRow(k)
    <2>1. QuestIn(r, Len(Quests!RowsOf(r)), k) <=> \E i \in DOMAIN Quests!Moves(r) : Quests!Moves(r)[i] = Quests!QuestRow(k)
      BY <1>1, <1>7, QuestActing
    <2>2. k \in DOMAIN fresh[r] <=> QuestIn(r, step[r], k)
      BY <1>1, <1>2 DEF QuestWritten
    <2> QED BY <1>2, <2>1, <2>2
  <1>8. ASSUME Quests!Kind(r) # "act", NEW k
        PROVE  k \in DOMAIN fresh[r] <=> k = Quests!Asked(r)
    <2>1. Len(Quests!RowsOf(r)) = 2 /\ \A n \in Nat \ {0} : \A j : QuestIn(r, n, j) <=> j = Quests!Asked(r)
      BY <1>8, QuestPaying
    <2>2. k \in DOMAIN fresh[r] <=> QuestIn(r, step[r], k)
      BY <1>1, <1>2 DEF QuestWritten
    <2>3. step[r] \in Nat \ {0}
      BY <1>1, <1>2, <2>1
    <2> QED BY <2>1, <2>2, <2>3
  <1>9. ASSUME NEW k
        PROVE  Quests!DoneFor(k)' = IF Quests!Kind(r) = "act" /\ k \in DOMAIN fresh[r] THEN Quests!DoneFor(k) \cup {r} ELSE Quests!DoneFor(k)
    <2>1. Quests!Committed({"act"})' = IF Quests!Kind(r) = "act" THEN Quests!Committed({"act"}) \cup {r} ELSE Quests!Committed({"act"})
      BY <1>5
    <2>2. \A s \in DOMAIN plan : Quests!Moves(s)' = Quests!Moves(s)
      BY <1>3
    <2>3. \A s \in Quests!Committed({"act"}) : s \in DOMAIN plan
      BY <1>6
    <2>4. Quests!DoneFor(k)' = {s \in Quests!Committed({"act"})' : \E i \in DOMAIN Quests!Moves(s) : Quests!Moves(s)[i] = Quests!QuestRow(k)}
      BY <2>1, <2>2, <2>3 DEF Quests!DoneFor
    <2> QED BY <1>7, <2>1, <2>4 DEF Quests!DoneFor
  <1>10. ASSUME NEW k
         PROVE  Quests!PaidFor(k)' = IF Quests!Kind(r) # "act" /\ k \in DOMAIN fresh[r] THEN Quests!PaidFor(k) \cup {r} ELSE Quests!PaidFor(k)
    <2>1. Quests!Committed({"claim", "login"})' = IF Quests!Kind(r) # "act" THEN Quests!Committed({"claim", "login"}) \cup {r} ELSE Quests!Committed({"claim", "login"})
      BY <1>4, <1>5
    <2>2. \A s \in DOMAIN plan : Quests!Asked(s)' = Quests!Asked(s)
      BY <1>3
    <2>3. \A s \in Quests!Committed({"claim", "login"}) : s \in DOMAIN plan
      BY <1>6
    <2>4. Quests!PaidFor(k)' = {s \in Quests!Committed({"claim", "login"})' : Quests!Asked(s) = k}
      BY <2>1, <2>2, <2>3 DEF Quests!PaidFor
    <2> QED BY <1>8, <2>1, <2>4 DEF Quests!PaidFor
  <1>11. ASSUME NEW k
         PROVE  /\ r \notin Quests!DoneFor(k) /\ r \notin Quests!PaidFor(k)
                /\ IsFiniteSet(Quests!DoneFor(k)) /\ IsFiniteSet(Quests!PaidFor(k))
    <2>1. r \notin Quests!DoneFor(k) /\ r \notin Quests!PaidFor(k)
      BY <1>6 DEF Quests!DoneFor, Quests!PaidFor
    <2>2. Quests!DoneFor(k) \subseteq Requests /\ Quests!PaidFor(k) \subseteq Requests
      BY <1>1, <1>6 DEF Quests!DoneFor, Quests!PaidFor
    <2> QED BY <2>1, <2>2, QuestTargets, FS_Subset
  <1>12. Quests!Kind(r) # "act" => Quests!Asked(r) \in DOMAIN fresh[r]
    BY <1>8
  <1> QED BY <1>2, <1>3, <1>5, <1>9, <1>10, <1>11, <1>12

(* A commit writes rows that the request has held since it read them. *)
LEMMA QuestWrites ==
    ASSUME QuestInv, NEW r \in DOMAIN plan, Quests!Commit(r)
    PROVE  /\ DOMAIN rows' = DOMAIN rows \cup DOMAIN fresh[r]
           /\ \A k : k \notin DOMAIN fresh[r] => (k \in DOMAIN rows' <=> k \in DOMAIN rows)
           /\ \A k \in DOMAIN rows : k \notin DOMAIN fresh[r] => rows'[k] = rows[k]
           /\ \A k \in DOMAIN fresh[r] :
                 /\ Quests!Kind(r) = "act" => rows'[k] = Quests!Upserted(k) /\ k[1] \in DOMAIN Target
                 /\ Quests!Kind(r) # "act" => rows'[k] = Quests!Claimed(k) /\ k = Quests!Asked(r)
                 /\ Quests!Kind(r) = "claim" => Quests!IsClaimable(k) /\ k[1] = plan[r].quest /\ k[1] \in DOMAIN Target
                 /\ Quests!Kind(r) = "login" => k \notin DOMAIN rows /\ k[1] = LOGIN
                 /\ rows'[k] \in Quests!Row
                 /\ k[1] # LOGIN => k[1] \in DOMAIN Target /\ rows'[k].progress <= Target[k[1]]
           /\ \A s \in DOMAIN plan : \A k \in DOMAIN fresh[s] : s # r => k \notin DOMAIN fresh[r]
  <1>1. QuestWritten(r) /\ plan \in QuestPlans /\ rows' = Quests!Updated(rows, fresh[r])
    BY DEF QuestInv, QuestControl, Quests!Commit
  <1> DEFINE f == fresh[r]
  <1>2. /\ DOMAIN rows' = DOMAIN rows \cup DOMAIN f
        /\ \A k \in DOMAIN rows' : rows'[k] = IF k \in DOMAIN f THEN f[k] ELSE rows[k]
    BY <1>1 DEF Quests!Updated
  <1>3. ASSUME NEW k \in DOMAIN f
        PROVE  /\ Quests!Kind(r) = "act" => f[k] = Quests!Upserted(k) /\ k[1] \in DOMAIN Target
               /\ Quests!Kind(r) # "act" => f[k] = Quests!Claimed(k) /\ k = Quests!Asked(r)
               /\ Quests!Kind(r) = "claim" => Quests!IsClaimable(k) /\ k[1] = plan[r].quest /\ k[1] \in DOMAIN Target
               /\ Quests!Kind(r) = "login" => k \notin DOMAIN rows /\ k[1] = LOGIN
               /\ f[k] \in Quests!Row
               /\ k[1] # LOGIN => k[1] \in DOMAIN Target /\ f[k].progress <= Target[k[1]]
    <2>1. /\ fresh[r][k] \in Quests!Row
          /\ k[1] # LOGIN => k[1] \in DOMAIN Target /\ fresh[r][k].progress <= Target[k[1]]
          /\ Quests!Kind(r) = "act" => k[1] \in DOMAIN Target
          /\ Quests!Kind(r) # "act" => k = Quests!Asked(r)
      BY QuestFresh
    <2>2. Quests!Kind(r) # "act" => k[1] = plan[r].quest
      BY <2>1, QuestKeysDiffer DEF Quests!Asked
    <2>3. (Quests!Kind(r) = "claim" => plan[r].quest \in DOMAIN Target) /\ (Quests!Kind(r) = "login" => plan[r].quest = LOGIN)
      BY <1>1, QuestRequests
    <2>4. /\ Quests!Kind(r) = "act" => f[k] = Quests!Upserted(k)
          /\ Quests!Kind(r) # "act" => f[k] = Quests!Claimed(k)
          /\ Quests!Kind(r) = "claim" => Quests!IsClaimable(k)
          /\ Quests!Kind(r) = "login" => k \notin DOMAIN rows
      BY <1>1 DEF QuestWritten
    <2> QED BY <2>1, <2>2, <2>3, <2>4
  <1>4. ASSUME NEW s \in DOMAIN plan, NEW k \in DOMAIN fresh[s], s # r
        PROVE  k \notin DOMAIN f
    <2>1. QuestWritten(s)
      BY DEF QuestInv
    <2>2. Quests!HolderOf(Quests!QuestRow(k)) = s
      BY <2>1 DEF QuestWritten
    <2>3. k \in DOMAIN f => Quests!HolderOf(Quests!QuestRow(k)) = r
      BY <1>1 DEF QuestWritten
    <2> QED BY <1>4, <2>2, <2>3
  <1> HIDE DEF f
  <1>5. \A k \in DOMAIN f : k \in DOMAIN rows' /\ rows'[k] = f[k]
    BY <1>2
  <1>6. /\ \A k : k \notin DOMAIN f => (k \in DOMAIN rows' <=> k \in DOMAIN rows)
        /\ \A k \in DOMAIN rows : k \notin DOMAIN f => rows'[k] = rows[k]
    BY <1>2
  <1>7. DOMAIN rows' = DOMAIN rows \cup DOMAIN f
    BY <1>2
  <1>8. \A k \in DOMAIN f :
           /\ Quests!Kind(r) = "act" => rows'[k] = Quests!Upserted(k) /\ k[1] \in DOMAIN Target
           /\ Quests!Kind(r) # "act" => rows'[k] = Quests!Claimed(k) /\ k = Quests!Asked(r)
           /\ Quests!Kind(r) = "claim" => Quests!IsClaimable(k) /\ k[1] = plan[r].quest /\ k[1] \in DOMAIN Target
           /\ Quests!Kind(r) = "login" => k \notin DOMAIN rows /\ k[1] = LOGIN
           /\ rows'[k] \in Quests!Row
           /\ k[1] # LOGIN => k[1] \in DOMAIN Target /\ rows'[k].progress <= Target[k[1]]
    BY <1>3, <1>5
  <1> QED BY <1>4, <1>6, <1>7, <1>8 DEF f

(* How one key's row and counts move when r commits. *)
LEMMA QuestRowCommits ==
    ASSUME QuestInv, Quests!PaidOnceForWork, NEW r \in DOMAIN plan, Quests!Commit(r), NEW k \in DOMAIN rows'
    PROVE  /\ k \in DOMAIN OpeningRows /\ OpeningRows[k].claimed => rows'[k].claimed
           /\ Quests!Worked(k) \in Nat /\ Quests!Worked(k)' \in Nat /\ Quests!Worked(k) <= Quests!Worked(k)'
           /\ k[1] # LOGIN =>
                 /\ rows'[k].progress = IF Quests!Worked(k)' < Target[k[1]] THEN Quests!Worked(k)' ELSE Target[k[1]]
                 /\ Cardinality(Quests!PaidFor(k)') =
                       IF rows'[k].claimed /\ ~(k \in DOMAIN OpeningRows /\ OpeningRows[k].claimed) THEN 1 ELSE 0
  <1> DEFINE opened == IF k \in DOMAIN OpeningRows THEN OpeningRows[k].progress ELSE 0
             paidBefore == k \in DOMAIN OpeningRows /\ OpeningRows[k].claimed
             n == Cardinality(Quests!DoneFor(k))
             p == Cardinality(Quests!PaidFor(k))
             t == Target[k[1]]
  <1>1. QuestTable /\ plan \in QuestPlans
    BY DEF QuestInv, QuestControl
  <1>2. /\ Quests!DoneFor(k)' = IF Quests!Kind(r) = "act" /\ k \in DOMAIN fresh[r] THEN Quests!DoneFor(k) \cup {r} ELSE Quests!DoneFor(k)
        /\ Quests!PaidFor(k)' = IF Quests!Kind(r) # "act" /\ k \in DOMAIN fresh[r] THEN Quests!PaidFor(k) \cup {r} ELSE Quests!PaidFor(k)
        /\ r \notin Quests!DoneFor(k) /\ r \notin Quests!PaidFor(k)
        /\ IsFiniteSet(Quests!DoneFor(k)) /\ IsFiniteSet(Quests!PaidFor(k))
    BY QuestCommitted
  <1>3. /\ n \in Nat /\ p \in Nat
        /\ Cardinality(Quests!DoneFor(k)') = IF Quests!Kind(r) = "act" /\ k \in DOMAIN fresh[r] THEN n + 1 ELSE n
        /\ Cardinality(Quests!PaidFor(k)') = IF Quests!Kind(r) # "act" /\ k \in DOMAIN fresh[r] THEN p + 1 ELSE p
    BY <1>2, FS_AddElement, FS_CardinalityType
  <1>4. opened \in Nat
    BY QuestParameters, QuestSame DEF Quests!QuestAssumption, Quests!Row
  <1>5. Quests!Worked(k) = opened + n /\ Quests!Worked(k)' = opened + Cardinality(Quests!DoneFor(k)')
    BY QuestSame DEF Quests!Worked
  <1>6. k \in DOMAIN rows =>
           /\ rows[k] \in Quests!Row
           /\ k[1] # LOGIN =>
                 /\ t \in Nat /\ rows[k].progress \in Nat
                 /\ rows[k].progress = IF Quests!Worked(k) < t THEN Quests!Worked(k) ELSE t
                 /\ p = IF rows[k].claimed /\ ~paidBefore THEN 1 ELSE 0
    BY <1>1, QuestTargets, QuestSame DEF QuestTable, Quests!PaidOnceForWork, Quests!Row
  <1>7. k \notin DOMAIN rows => n = 0 /\ p = 0 /\ opened = 0 /\ ~paidBefore
    BY <1>1, FS_EmptySet DEF QuestTable
  <1>8. k \in DOMAIN rows => (paidBefore => rows[k].claimed)
    BY <1>1 DEF QuestTable
  <1>9. /\ k \notin DOMAIN fresh[r] => k \in DOMAIN rows /\ rows'[k] = rows[k]
        /\ k \in DOMAIN fresh[r] =>
              /\ Quests!Kind(r) = "act" => rows'[k] = Quests!Upserted(k) /\ k[1] \in DOMAIN Target
              /\ Quests!Kind(r) # "act" => rows'[k] = Quests!Claimed(k)
              /\ Quests!Kind(r) = "claim" => Quests!IsClaimable(k) /\ k[1] \in DOMAIN Target
              /\ Quests!Kind(r) = "login" => k \notin DOMAIN rows /\ k[1] = LOGIN
    BY QuestWrites
  <1>10. Quests!Kind(r) \in {"act", "claim", "login"}
    BY <1>1, QuestRequests
  <1>11. Quests!Worked(k) \in Nat /\ Quests!Worked(k)' \in Nat /\ Quests!Worked(k) <= Quests!Worked(k)'
    <2> HIDE DEF opened, n
    <2> QED BY <1>3, <1>4, <1>5
  <1>12. CASE k \notin DOMAIN fresh[r]
    <2>1. k \in DOMAIN rows /\ rows'[k] = rows[k]
      BY <1>9, <1>12
    <2>2. Quests!Worked(k)' = Quests!Worked(k) /\ Cardinality(Quests!PaidFor(k)') = p
      BY <1>3, <1>5, <1>12
    <2> HIDE DEF opened, n, p, t
    <2>3. k[1] # LOGIN => rows'[k].progress = IF Quests!Worked(k)' < t THEN Quests!Worked(k)' ELSE t
      BY <1>6, <2>1, <2>2
    <2>4. k[1] # LOGIN => Cardinality(Quests!PaidFor(k)') = IF rows'[k].claimed /\ ~paidBefore THEN 1 ELSE 0
      BY <1>6, <2>1, <2>2
    <2>5. paidBefore => rows'[k].claimed
      BY <1>8, <2>1
    <2> QED BY <1>11, <2>3, <2>4, <2>5 DEF t
  <1>13. CASE k \in DOMAIN fresh[r] /\ Quests!Kind(r) = "act"
    <2>1. rows'[k] = Quests!Upserted(k) /\ k[1] \in DOMAIN Target /\ t \in Nat
      BY <1>9, <1>13, QuestTargets
    <2>2. Quests!Worked(k)' = Quests!Worked(k) + 1 /\ Cardinality(Quests!PaidFor(k)') = p
      BY <1>3, <1>4, <1>5, <1>13
    <2>3. /\ k \in DOMAIN rows =>
                 /\ rows'[k].claimed = rows[k].claimed
                 /\ rows'[k].progress = IF rows[k].progress < t THEN rows[k].progress + 1 ELSE rows[k].progress
          /\ k \notin DOMAIN rows =>
                 /\ rows'[k].claimed = FALSE
                 /\ rows'[k].progress = IF 0 < t THEN 1 ELSE 0
      BY <1>1, <2>1, QuestUpserts
    <2>4. k \notin DOMAIN rows => Quests!Worked(k) = 0
      BY <1>5, <1>7
    <2>5. k[1] # LOGIN
      BY <2>1, QuestTargets
    <2> HIDE DEF opened, n, p, t
    <2>6. rows'[k].progress = IF Quests!Worked(k)' < t THEN Quests!Worked(k)' ELSE t
      <3>1. CASE k \in DOMAIN rows
        BY <1>6, <1>11, <2>1, <2>2, <2>3, <2>5, <3>1
      <3>2. CASE k \notin DOMAIN rows
        BY <2>1, <2>2, <2>3, <2>4, <3>2
      <3> QED BY <3>1, <3>2
    <2>7. Cardinality(Quests!PaidFor(k)') = IF rows'[k].claimed /\ ~paidBefore THEN 1 ELSE 0
      <3>1. CASE k \in DOMAIN rows
        BY <1>6, <2>2, <2>3, <2>5, <3>1
      <3>2. CASE k \notin DOMAIN rows
        BY <1>7, <2>2, <2>3, <3>2
      <3> QED BY <3>1, <3>2
    <2>8. paidBefore => rows'[k].claimed
      BY <1>7, <1>8, <2>3
    <2> QED BY <1>11, <2>6, <2>7, <2>8 DEF t
  <1>14. CASE k \in DOMAIN fresh[r] /\ Quests!Kind(r) = "claim"
    <2>1. /\ rows'[k] = Quests!Claimed(k) /\ k[1] \in DOMAIN Target
          /\ k \in DOMAIN rows /\ ~rows[k].claimed
      BY <1>9, <1>14 DEF Quests!IsClaimable
    <2>2. Quests!Worked(k)' = Quests!Worked(k) /\ Cardinality(Quests!PaidFor(k)') = p + 1
      BY <1>3, <1>4, <1>5, <1>14
    <2>3. k[1] # LOGIN
      BY <2>1, QuestTargets
    <2>4. rows'[k].claimed = TRUE /\ rows'[k].progress = rows[k].progress
      BY <1>1, <2>1, <2>3, QuestClaims
    <2> HIDE DEF opened, n, p, t
    <2>5. p = 0 /\ ~paidBefore
      BY <1>6, <1>8, <2>1, <2>3
    <2>6. rows'[k].progress = IF Quests!Worked(k)' < t THEN Quests!Worked(k)' ELSE t
      BY <1>6, <2>1, <2>2, <2>3, <2>4
    <2>7. Cardinality(Quests!PaidFor(k)') = IF rows'[k].claimed /\ ~paidBefore THEN 1 ELSE 0
      BY <2>2, <2>4, <2>5
    <2> QED BY <1>11, <2>4, <2>6, <2>7 DEF t
  <1>15. CASE k \in DOMAIN fresh[r] /\ Quests!Kind(r) = "login"
    <2>1. rows'[k] = Quests!Claimed(k) /\ k[1] = LOGIN
      BY <1>9, <1>15
    <2>2. rows'[k].claimed = TRUE
      BY <1>1, <2>1, QuestClaims
    <2> HIDE DEF opened, n, p, t
    <2> QED BY <1>11, <2>1, <2>2
  <1> QED BY <1>10, <1>12, <1>13, <1>14, <1>15

LEMMA QuestCommitTable ==
    ASSUME QuestInv, Quests!PaidOnceForWork, NEW r \in DOMAIN plan, Quests!Commit(r)
    PROVE  QuestTable'
  <1>1. QuestTable
    BY DEF QuestInv
  <1>2. DOMAIN rows' = DOMAIN rows \cup DOMAIN fresh[r]
    BY QuestWrites
  <1>3. ASSUME NEW k \in DOMAIN rows'
        PROVE  rows'[k] \in Quests!Row /\ (k[1] # LOGIN => k[1] \in DOMAIN Target /\ rows'[k].progress <= Target[k[1]])
    <2>1. CASE k \in DOMAIN fresh[r]
      BY <2>1, QuestWrites
    <2>2. CASE k \notin DOMAIN fresh[r]
      <3>1. k \in DOMAIN rows /\ rows'[k] = rows[k]
        BY <1>2, <1>3, <2>2, QuestWrites
      <3> QED BY <1>1, <3>1 DEF QuestTable
    <2> QED BY <2>1, <2>2
  <1>4. ASSUME NEW k, k \notin DOMAIN rows'
        PROVE  Quests!DoneFor(k)' = {} /\ Quests!PaidFor(k)' = {} /\ k \notin DOMAIN OpeningRows
    <2>1. k \notin DOMAIN rows /\ k \notin DOMAIN fresh[r]
      BY <1>2, <1>4
    <2>2. Quests!DoneFor(k)' = Quests!DoneFor(k) /\ Quests!PaidFor(k)' = Quests!PaidFor(k)
      BY <2>1, QuestCommitted
    <2> QED BY <1>1, <2>1, <2>2 DEF QuestTable
  <1>5. ASSUME NEW k \in DOMAIN OpeningRows
        PROVE  OpeningRows[k].claimed => rows'[k].claimed
    <2>1. k \in DOMAIN rows'
      BY <1>4
    <2> QED BY <2>1, QuestRowCommits
  <1> QED BY <1>3, <1>4, <1>5 DEF QuestTable

LEMMA QuestCommitPays ==
    ASSUME QuestInv, Quests!PaidOnceForWork, NEW r \in DOMAIN plan, Quests!Commit(r)
    PROVE  Quests!PaidOnceForWork'
  <1>1. \A k \in DOMAIN rows' : k[1] # LOGIN =>
            /\ rows'[k].progress = IF Quests!Worked(k)' < Target[k[1]] THEN Quests!Worked(k)' ELSE Target[k[1]]
            /\ Cardinality(Quests!PaidFor(k)') =
                  IF rows'[k].claimed /\ ~(k \in DOMAIN OpeningRows /\ OpeningRows[k].claimed) THEN 1 ELSE 0
    BY QuestRowCommits
  <1>2. ASSUME NEW s \in Quests!Committed({"claim"})'
        PROVE  Quests!Asked(s)' \in DOMAIN rows' /\ Quests!Worked(Quests!Asked(s))' >= Target[plan'[s].quest]
    <2>1. s \in DOMAIN plan /\ plan' = plan /\ Quests!Kind(s)' = "claim"
      BY DEF Quests!Committed, Quests!Commit
    <2>2. Quests!Asked(s)' = Quests!Asked(s) /\ Quests!Kind(s) = "claim"
      BY <2>1, QuestCommitted DEF Quests!Kind
    <2>3. PICK k : k = Quests!Asked(s)
      OBVIOUS
    <2>4. k[1] = plan[s].quest /\ k[1] \in DOMAIN Target /\ k[1] # LOGIN /\ Target[k[1]] \in Nat
      <3>1. plan \in QuestPlans
        BY DEF QuestInv, QuestControl
      <3> QED BY <2>1, <2>2, <2>3, <3>1, QuestRequests, QuestKeysDiffer, QuestTargets DEF Quests!Asked
    <2>5. k \in DOMAIN rows /\ Quests!Worked(k) >= Target[k[1]]
      <3>1. CASE s \in Quests!Committed({"claim"})
        BY <2>3, <2>4, <3>1, QuestSame DEF Quests!PaidOnceForWork
      <3>2. CASE s \notin Quests!Committed({"claim"})
        <4>1. s = r
          <5>1. Quests!Committed({"claim"})' = IF Quests!Kind(r) \in {"claim"} THEN Quests!Committed({"claim"}) \cup {r} ELSE Quests!Committed({"claim"})
            BY QuestCommitted
          <5> QED BY <3>2, <5>1
        <4>2. k \in DOMAIN fresh[r]
          BY <2>2, <2>3, <4>1, QuestCommitted
        <4>3. Quests!IsClaimable(k)
          BY <2>2, <4>1, <4>2, QuestWrites
        <4>4. k \in DOMAIN rows /\ rows[k].progress >= Target[k[1]]
          BY <4>3 DEF Quests!IsClaimable
        <4>5. rows[k].progress = IF Quests!Worked(k) < Target[k[1]] THEN Quests!Worked(k) ELSE Target[k[1]]
          BY <2>4, <4>4, QuestSame DEF Quests!PaidOnceForWork
        <4>6. k \in DOMAIN rows'
          BY <4>4, QuestWrites
        <4>7. Quests!Worked(k) \in Nat
          BY <4>6, QuestRowCommits
        <4> QED BY <2>4, <4>4, <4>5, <4>7
      <3> QED BY <3>1, <3>2
    <2>6. k \in DOMAIN rows'
      BY <2>5, QuestWrites
    <2>7. Quests!Worked(k) \in Nat /\ Quests!Worked(k)' \in Nat /\ Quests!Worked(k) <= Quests!Worked(k)'
      BY <2>6, QuestRowCommits
    <2>8. Quests!Worked(Quests!Asked(s))' = Quests!Worked(k)'
      <3>1. Quests!Worked(Quests!Asked(s))' = (IF Quests!Asked(s)' \in DOMAIN OpeningRows THEN OpeningRows[Quests!Asked(s)'].progress ELSE 0)
                                + Cardinality(Quests!DoneFor(Quests!Asked(s))')
        BY QuestSame DEF Quests!Worked
      <3>2. Quests!Worked(k)' = (IF k \in DOMAIN OpeningRows THEN OpeningRows[k].progress ELSE 0)
                                + Cardinality(Quests!DoneFor(k)')
        BY QuestSame DEF Quests!Worked
      <3>3. Quests!DoneFor(Quests!Asked(s))' = Quests!DoneFor(k)'
        BY <2>2, <2>3 DEF Quests!DoneFor
      <3> QED BY <2>2, <2>3, <3>1, <3>2, <3>3
    <2>9. Quests!Worked(k)' >= Target[plan[s].quest]
      BY <2>4, <2>5, <2>7
    <2> QED BY <2>1, <2>2, <2>3, <2>6, <2>8, <2>9
  <1> QED BY <1>1, <1>2, QuestSame DEF Quests!PaidOnceForWork

LEMMA QuestCommitStreaks ==
    ASSUME QuestInv, Quests!StreaksAreReal, NEW r \in DOMAIN plan, Quests!Commit(r)
    PROVE  Quests!StreaksAreReal'
  <1>1. plan \in QuestPlans /\ QuestTable /\ QuestStage(r) /\ QuestStreak(r)
    BY DEF QuestInv, QuestControl
  <1>2. Quests!Committed({"login"})' = IF Quests!Kind(r) \in {"login"} THEN Quests!Committed({"login"}) \cup {r} ELSE Quests!Committed({"login"})
    BY QuestCommitted
  <1>3. plan' = plan /\ \A s \in DOMAIN plan : Quests!Asked(s)' = Quests!Asked(s) /\ asked'[s] = asked[s] /\ run'[s] = run[s]
    BY QuestCommitted DEF Quests!Commit
  <1>4. DOMAIN rows \subseteq DOMAIN rows'
    BY QuestWrites
  <1>5. ASSUME NEW s \in Quests!Committed({"login"})'
        PROVE  /\ Quests!PaidFor(Quests!Asked(s))' = {s} /\ Quests!Asked(s)' \in DOMAIN rows'
               /\ \A e \in asked'[s] - run'[s]..asked'[s] - 1 : Quests!Key(LOGIN, e) \in DOMAIN rows'
    <2>1. s \in DOMAIN plan /\ Quests!Kind(s)' = "login"
      BY <1>3 DEF Quests!Committed
    <2>2. Quests!Kind(s) = "login" /\ Quests!Asked(s)' = Quests!Asked(s) /\ asked'[s] = asked[s] /\ run'[s] = run[s]
      BY <1>3, <2>1 DEF Quests!Kind
    <2>3. PICK k : k = Quests!Asked(s)
      OBVIOUS
    <2>4. k[1] = LOGIN
      BY <1>1, <2>1, <2>2, <2>3, QuestRequests, QuestKeysDiffer DEF Quests!Asked
    <2>5. Quests!PaidFor(Quests!Asked(s))' = Quests!PaidFor(k)'
      BY <2>2, <2>3 DEF Quests!PaidFor
    <2>6. Quests!PaidFor(k)' = IF Quests!Kind(r) # "act" /\ k \in DOMAIN fresh[r] THEN Quests!PaidFor(k) \cup {r} ELSE Quests!PaidFor(k)
      BY QuestCommitted
    <2>7. CASE s \in Quests!Committed({"login"})
      <3>1. /\ Quests!PaidFor(k) = {s} /\ k \in DOMAIN rows
            /\ \A e \in asked[s] - run[s]..asked[s] - 1 : Quests!Key(LOGIN, e) \in DOMAIN rows
        BY <2>3, <2>7 DEF Quests!StreaksAreReal
      <3>2. ~(Quests!Kind(r) # "act" /\ k \in DOMAIN fresh[r])
        <4>1. Quests!Kind(r) \in {"act", "claim", "login"}
          BY <1>1, QuestRequests
        <4>2. k \in DOMAIN fresh[r] /\ Quests!Kind(r) = "claim" => k[1] \in DOMAIN Target
          BY QuestWrites
        <4>3. k \in DOMAIN fresh[r] /\ Quests!Kind(r) = "login" => k \notin DOMAIN rows
          BY QuestWrites
        <4> QED BY <2>4, <3>1, <4>1, <4>2, <4>3, QuestTargets
      <3> QED BY <1>4, <2>2, <2>3, <2>5, <2>6, <3>1, <3>2
    <2>8. CASE s \notin Quests!Committed({"login"})
      <3>1. s = r
        BY <1>2, <2>8
      <3>2. k \in DOMAIN fresh[r]
        BY <2>2, <2>3, <3>1, QuestCommitted
      <3>3. k \notin DOMAIN rows /\ k \in DOMAIN rows'
        BY <2>2, <3>1, <3>2, QuestWrites
      <3>4. Quests!PaidFor(k) = {}
        BY <1>1, <3>3 DEF QuestTable
      <3>5. pc[r] = "open"
        BY <1>1, <2>2, <3>1 DEF Quests!Commit, Quests!IsOpen, QuestStage
      <3>6. \A e \in asked[s] - run[s]..asked[s] - 1 : Quests!Key(LOGIN, e) \in DOMAIN rows
        BY <1>1, <2>2, <3>1, <3>5 DEF QuestStreak
      <3> QED BY <1>4, <2>2, <2>3, <2>5, <2>6, <3>1, <3>2, <3>3, <3>4, <3>6
    <2> QED BY <2>7, <2>8
  <1> QED BY <1>5 DEF Quests!StreaksAreReal

---------------------------------------------------------------------------

QuestSafe == QuestInv /\ Quests!PaidOnceForWork /\ Quests!StreaksAreReal

LEMMA QuestFirst ==
    ASSUME Quests!Init
    PROVE  QuestSafe
  <1>1. /\ plan \in QuestPlans /\ rows = OpeningRows /\ day = FIRST_DAY
        /\ \A r \in Requests : pc[r] = "idle" /\ step[r] = 0 /\ fresh[r] = Quests!Nothing
        /\ DOMAIN holder = {} /\ DOMAIN Quests!Nothing = {}
    BY DEF Quests!Init, Quests!Nothing
  <1>2. DOMAIN plan \subseteq Requests
    BY <1>1, QuestRequests
  <1>3. QuestControl
    <2>1. FIRST_DAY \in Quests!Days
      BY QuestParameters, QuestSame DEF Quests!QuestAssumption, Quests!Days
    <2> QED BY <2>1 DEF QuestControl, Quests!Init
  <1>4. QuestHeld
    BY <1>1 DEF QuestHeld
  <1>5. \A kinds : Quests!Committed(kinds) = {}
    BY <1>1, <1>2 DEF Quests!Committed
  <1>6. \A k : Quests!DoneFor(k) = {} /\ Quests!PaidFor(k) = {}
    BY <1>5 DEF Quests!DoneFor, Quests!PaidFor
  <1>7. \A k \in DOMAIN OpeningRows :
          /\ OpeningRows[k] \in Quests!Row
          /\ k[1] # LOGIN => k[1] \in DOMAIN Target /\ OpeningRows[k].progress <= Target[k[1]] /\ Target[k[1]] \in Nat
    BY QuestParameters, QuestSame DEF Quests!QuestAssumption
  <1>8. QuestTable
    BY <1>1, <1>6, <1>7 DEF QuestTable
  <1>9. ASSUME NEW r \in DOMAIN plan
        PROVE  QuestStage(r) /\ QuestWritten(r) /\ QuestStreak(r)
    <2>1. r \in Requests /\ pc[r] = "idle" /\ step[r] = 0 /\ DOMAIN fresh[r] = {}
      BY <1>1, <1>2
    <2>2. Len(Quests!RowsOf(r)) \in Nat
      BY <1>1, QuestShaped DEF QuestShape
    <2>3. QuestStage(r)
      BY <2>1, <2>2 DEF QuestStage
    <2>4. QuestWritten(r) /\ QuestStreak(r)
      BY <2>1 DEF QuestWritten, QuestStreak, Quests!IsOpen
    <2> QED BY <2>3, <2>4
  <1>10. QuestInv
    BY <1>1, <1>3, <1>4, <1>8, <1>9 DEF QuestInv
  <1>11. Quests!PaidOnceForWork
    <2>1. ASSUME NEW k \in DOMAIN rows, k[1] # LOGIN
          PROVE  /\ rows[k].progress = IF Quests!Worked(k) < Target[k[1]] THEN Quests!Worked(k) ELSE Target[k[1]]
                 /\ Cardinality(Quests!PaidFor(k)) =
                       IF rows[k].claimed /\ ~(k \in DOMAIN OpeningRows /\ OpeningRows[k].claimed) THEN 1 ELSE 0
      <3>1. Cardinality(Quests!DoneFor(k)) = 0 /\ Cardinality(Quests!PaidFor(k)) = 0
        BY <1>6, FS_EmptySet
      <3>2. k \in DOMAIN OpeningRows /\ rows[k] = OpeningRows[k]
        BY <1>1
      <3>3. OpeningRows[k].progress \in Nat /\ OpeningRows[k].progress <= Target[k[1]] /\ Target[k[1]] \in Nat
        BY <1>7, <2>1, <3>2 DEF Quests!Row
      <3>4. Quests!Worked(k) = OpeningRows[k].progress
        BY <3>1, <3>2, <3>3, QuestSame DEF Quests!Worked
      <3> QED BY <3>1, <3>2, <3>3, <3>4
    <2>2. Quests!Committed({"claim"}) = {}
      BY <1>5
    <2> QED BY <2>1, <2>2, QuestSame DEF Quests!PaidOnceForWork
  <1>12. Quests!StreaksAreReal
    BY <1>5 DEF Quests!StreaksAreReal
  <1> QED BY <1>10, <1>11, <1>12 DEF QuestSafe

(* The clock alone changes nothing that is promised. *)
LEMMA QuestRests ==
    ASSUME QuestSafe, UNCHANGED <<Quests!requestVars, holder, rows>>, day' \in Quests!Days
    PROVE  QuestSafe'
  <1>1. /\ plan' = plan /\ pc' = pc /\ step' = step /\ asked' = asked /\ saved' = saved /\ run' = run
        /\ fresh' = fresh /\ holder' = holder /\ rows' = rows
    BY DEF Quests!requestVars
  <1>2. QuestControl /\ QuestHeld /\ QuestTable /\ Quests!PaidOnceForWork /\ Quests!StreaksAreReal
    BY DEF QuestSafe, QuestInv
  <1>3. QuestControl' /\ QuestHeld'
    BY <1>1, <1>2 DEF QuestControl, QuestHeld, Quests!IsOpen
  <1>4. QuestQuiet
    BY <1>1 DEF QuestQuiet
  <1>5. QuestTable' /\ Quests!PaidOnceForWork' /\ Quests!StreaksAreReal'
    BY <1>2, <1>4, QuestQuietKeeps
  <1>6. ASSUME NEW r \in DOMAIN plan
        PROVE  QuestStage(r)' /\ QuestWritten(r)' /\ QuestStreak(r)'
    <2>1. QuestStage(r) /\ QuestWritten(r) /\ QuestStreak(r)
      BY DEF QuestSafe, QuestInv
    <2>2. /\ Quests!RowsOf(r)' = Quests!RowsOf(r) /\ Quests!Kind(r)' = Quests!Kind(r) /\ QuestHead(r)' = QuestHead(r)
          /\ \A n : \A k : QuestIn(r, n, k)' <=> QuestIn(r, n, k)
      BY <1>1, QuestSameRows
    <2>3. QuestStage(r)' /\ QuestStreak(r)'
      BY <1>1, <2>1, <2>2 DEF QuestStage, QuestStreak
    <2>4. \A k : QuestIn(r, step[r], k)' <=> QuestIn(r, step[r], k)
      BY <1>1, <2>2 DEF QuestIn
    <2>5. \A k : /\ Quests!Upserted(k)' = Quests!Upserted(k) /\ Quests!Claimed(k)' = Quests!Claimed(k)
                 /\ Quests!IsClaimable(k)' <=> Quests!IsClaimable(k)
                 /\ Quests!HolderOf(Quests!QuestRow(k))' = Quests!HolderOf(Quests!QuestRow(k))
      BY <1>1 DEF Quests!Upserted, Quests!Claimed, Quests!IsClaimable, Quests!HolderOf
    <2>6. Quests!IsOpen(r)' <=> Quests!IsOpen(r)
      BY <1>1 DEF Quests!IsOpen
    <2>7. QuestWritten(r)'
      BY <1>1, <2>1, <2>2, <2>4, <2>5, <2>6 DEF QuestWritten
    <2> QED BY <2>3, <2>7
  <1>7. \A r \in Requests \ DOMAIN plan : DOMAIN fresh'[r] = {}
    BY <1>1 DEF QuestSafe, QuestInv
  <1>8. QuestInv'
    BY <1>1, <1>3, <1>5, <1>6, <1>7 DEF QuestInv
  <1> QED BY <1>5, <1>8 DEF QuestSafe

LEMMA QuestMoves ==
    ASSUME QuestSafe, NEW r \in DOMAIN plan, Quests!Step(r) \/ Quests!Fail(r)
    PROVE  QuestSafe'
  <1>1. QuestInv /\ QuestControl /\ QuestTable /\ Quests!PaidOnceForWork /\ Quests!StreaksAreReal
    BY DEF QuestSafe, QuestInv
  <1>2. QuestDoes(r)
    BY QuestActs
  <1>3. QuestControl' /\ QuestHeld' /\ QuestAlone(r)
    BY <1>1, <1>2, QuestControlStep
  <1>4. plan' = plan /\ r \in Requests /\ DOMAIN plan \subseteq Requests
    BY <1>1, <1>3, QuestRequests DEF QuestAlone, QuestControl
  <1>5. /\ QuestTable' /\ Quests!PaidOnceForWork' /\ Quests!StreaksAreReal'
        /\ DOMAIN rows \subseteq DOMAIN rows'
        /\ \A s \in DOMAIN plan : \A k \in DOMAIN fresh[s] :
              s # r => (k \in DOMAIN rows' <=> k \in DOMAIN rows) /\ (k \in DOMAIN rows => rows'[k] = rows[k])
    <2>1. CASE Quests!Commit(r)
      <3>1. QuestTable' /\ Quests!PaidOnceForWork' /\ Quests!StreaksAreReal'
        BY <1>1, <2>1, QuestCommitTable, QuestCommitPays, QuestCommitStreaks
      <3>2. DOMAIN rows \subseteq DOMAIN rows'
        BY <1>1, <2>1, QuestWrites
      <3>3. ASSUME NEW s \in DOMAIN plan, NEW k \in DOMAIN fresh[s], s # r
            PROVE  (k \in DOMAIN rows' <=> k \in DOMAIN rows) /\ (k \in DOMAIN rows => rows'[k] = rows[k])
        <4>1. k \notin DOMAIN fresh[r]
          BY <1>1, <2>1, <3>3, QuestWrites
        <4> QED BY <1>1, <2>1, <4>1, QuestWrites
      <3> QED BY <3>1, <3>2, <3>3
    <2>2. CASE ~Quests!Commit(r)
      <3>1. rows' = rows /\ pc[r] # "committed" /\ pc'[r] # "committed"
        BY <1>1, <1>2, <1>4, <2>2
           DEF QuestDoes, Quests!Begin, Quests!ReadLogins, Quests!TakeRow, Quests!SaveEvents, Quests!WriteQuest, QuestUndo, Quests!Undo, Quests!Goes, QuestControl,
               Quests!IsReady, Quests!IsOpen
      <3>2. QuestQuiet
        BY <1>3, <1>4, <3>1 DEF QuestQuiet, QuestAlone
      <3>3. QuestTable' /\ Quests!PaidOnceForWork' /\ Quests!StreaksAreReal'
        BY <1>1, <3>2, QuestQuietKeeps
      <3> QED BY <3>1, <3>3
    <2> QED BY <2>1, <2>2
  <1>6. ASSUME NEW s \in DOMAIN plan
        PROVE  QuestStage(s)' /\ QuestWritten(s)' /\ QuestStreak(s)'
    <2>1. CASE s = r
      BY <1>1, <1>2, <1>3, <1>4, <1>5, <2>1, QuestOwnStage, QuestOwnWritten, QuestOwnStreak
    <2>2. CASE s # r
      BY <1>1, <1>3, <1>5, <2>2, QuestOthers
    <2> QED BY <2>1, <2>2
  <1>7. \A s \in Requests \ DOMAIN plan : DOMAIN fresh'[s] = {}
    BY <1>1, <1>3, <1>4 DEF QuestInv, QuestAlone
  <1>8. QuestInv'
    BY <1>3, <1>4, <1>5, <1>6, <1>7 DEF QuestInv
  <1> QED BY <1>5, <1>8 DEF QuestSafe

LEMMA QuestNext ==
    ASSUME QuestSafe, [Quests!Next]_Quests!vars
    PROVE  QuestSafe'
  <1>1. QuestSafe /\ day \in Quests!Days
    BY DEF QuestSafe, QuestInv, QuestControl
  <1>2. CASE Quests!Midnight
    <2>1. day' \in Quests!Days /\ UNCHANGED <<Quests!requestVars, holder, rows>>
      BY <1>1, <1>2, QuestParameters, QuestSame DEF Quests!Midnight, Quests!Days, Quests!QuestAssumption
    <2> QED BY <1>1, <2>1, QuestRests
  <1>3. CASE UNCHANGED Quests!vars
    <2>1. day' \in Quests!Days /\ UNCHANGED <<Quests!requestVars, holder, rows>>
      BY <1>1, <1>3 DEF Quests!vars
    <2> QED BY <1>1, <2>1, QuestRests
  <1>4. CASE \E r \in DOMAIN plan : Quests!Step(r) \/ Quests!Fail(r)
    BY <1>1, <1>4, QuestMoves
  <1> QED BY <1>2, <1>3, <1>4 DEF Quests!Next

LEMMA QuestKept == QuestSafe => QuestPromise
  BY QuestTypes DEF QuestSafe, QuestPromise

---------------------------------------------------------------------------
(*                           Who waits for whom                             *)

(* What rises from each member of a finite set to another cannot go round.  *)
LEMMA NoEndlessRise ==
    ASSUME NEW D, IsFiniteSet(D), D # {}, NEW f \in [D -> Nat],
           \A x \in D : \E y \in D : f[x] < f[y]
    PROVE  FALSE
  <1> DEFINE T == {SumFunction(f) - f[x] : x \in D}
  <1>1. \A x \in D : f[x] \in Nat /\ f[x] <= SumFunction(f)
    BY SumExceedsNone
  <1>2. SumFunction(f) \in Nat
    BY SumIsNat
  <1>3. T \subseteq Nat /\ T # {}
    BY <1>1, <1>2
  <1>4. PICK t \in T : \A u \in T : t <= u
    <2> HIDE DEF T
    <2> QED BY <1>3, NatHasLeast
  <1>5. PICK x \in D : t = SumFunction(f) - f[x]
    BY <1>4
  <1>6. PICK y \in D : f[x] < f[y]
    BY <1>5
  <1>7. t <= SumFunction(f) - f[y]
    BY <1>4
  <1> HIDE DEF T
  <1>8. f[x] \in Nat /\ f[y] \in Nat
    BY <1>1
  <1> QED BY <1>2, <1>5, <1>6, <1>7, <1>8

(* Challenges and claims of several players, none of which joins: each      *)
(* waits for the rating of somebody, which another one of them has locked.  *)
LadderRing(D) ==
    /\ D \in Ladder!Circles
    /\ \A r \in D : Ladder!Wanted(r)[1] # "insert"
    /\ \A r, s \in D : r # s => Ladder!User(r) # Ladder!User(s)

LEMMA LadderRingWaits ==
    ASSUME LadderInv, NEW D, LadderRing(D), NEW r \in D
    PROVE  /\ r \in DOMAIN plan /\ Ladder!IsOpen(r) /\ step[r] \in Nat /\ step[r] + 1 \in 1..Len(Ladder!RowsOf(r))
           /\ now[r] \in Nat /\ LadderShape(r)
           /\ \E k \in KeysOf(r) : Ladder!Wanted(r) = Ladder!Rating(k)
           /\ \E h \in D \ {r} : h \in DOMAIN plan /\ Taken(h, Ladder!Wanted(r))
  <1>1. /\ r \in DOMAIN plan /\ Ladder!IsOpen(r) /\ ~Ladder!HasAll(r)
        /\ D \subseteq DOMAIN plan /\ Ladder!HolderOf(Ladder!Wanted(r)) \in D \ {r}
    BY DEF LadderRing, Ladder!Circles, Ladder!Blocked
  <1>2. plan \in PvpPlans /\ r \in Requests /\ step[r] \in Nat /\ now[r] \in Nat
    <2>1. plan \in PvpPlans
      BY DEF LadderInv, LadderControl
    <2>2. r \in Requests
      BY <1>1, <2>1, LadderRequests
    <2> QED BY <2>1, <2>2 DEF LadderInv, LadderControl
  <1>3. LadderShape(r) /\ Len(Ladder!RowsOf(r)) \in Nat
    BY <1>1, <1>2, LadderShaped DEF LadderShape
  <1>4. step[r] + 1 \in 1..Len(Ladder!RowsOf(r))
    BY <1>1, <1>2, <1>3 DEF LadderInv, LadderStage, Ladder!HasAll
  <1>5. Ladder!Wanted(r) \in Locks(r)
    BY <1>3, <1>4 DEF LadderShape, Ladder!Wanted
  <1>6. PICK h : h = Ladder!HolderOf(Ladder!Wanted(r))
    OBVIOUS
  <1>7. h \in D \ {r} /\ h \in DOMAIN plan /\ Taken(h, Ladder!Wanted(r))
    BY <1>1, <1>6 DEF LadderInv, LadderHeld
  <1>8. Ladder!Wanted(r) \in Locks(h)
    <2>1. h \in Requests /\ now[h] \in Nat /\ step[h] \in Nat
      BY <1>2, <1>7, LadderRequests DEF LadderInv, LadderControl
    <2>2. LadderShape(h) /\ step[h] <= Len(Ladder!RowsOf(h))
      BY <1>2, <1>7, <2>1, LadderShaped DEF LadderInv, LadderStage
    <2> QED BY <1>7, <2>1, <2>2 DEF Taken, LadderShape
  <1>9. Ladder!User(h) # Ladder!User(r)
    BY <1>7 DEF LadderRing
  <1>10. Ladder!Wanted(r)[1] # "insert"
    BY DEF LadderRing
  <1>11. \E k \in KeysOf(r) : Ladder!Wanted(r) = Ladder!Rating(k)
    <2>1. Ladder!Wanted(r) # Ladder!Monster(Ladder!User(r))
      BY <1>8, <1>9, LadderTags DEF Locks
    <2>2. Ladder!Wanted(r) # Ladder!Wallet(Ladder!User(r))
      BY <1>8, <1>9, LadderTags DEF Locks
    <2>3. \A k : Ladder!Wanted(r) # Ladder!Insert(k)
      BY <1>10, LadderTags
    <2> PICK w : w = Ladder!Wanted(r)
      OBVIOUS
    <2>4. w \in Locks(r) /\ w # Ladder!Monster(Ladder!User(r)) /\ w # Ladder!Wallet(Ladder!User(r)) /\ \A k : w # Ladder!Insert(k)
      BY <1>5, <2>1, <2>2, <2>3
    <2>5. w \in {Ladder!Insert(k) : k \in KeysOf(r)} \cup {Ladder!Rating(k) : k \in KeysOf(r)}
      BY Zenon, <2>4 DEF Locks
    <2>6. w \notin {Ladder!Insert(k) : k \in KeysOf(r)}
      BY Zenon, <2>4
    <2>7. \E k \in KeysOf(r) : w = Ladder!Rating(k)
      BY Zenon, <2>5, <2>6
    <2> QED BY <2>7
  <1> QED BY <1>1, <1>2, <1>3, <1>4, <1>7, <1>11

(* Who has locked one of its ratings and waits for another waits for that   *)
(* of a higher player.                                                      *)
LEMMA LadderRingRises ==
    ASSUME LadderInv, NEW D, LadderRing(D), NEW h \in D, NEW a, NEW b \in KeysOf(h),
           Taken(h, Ladder!Rating(a)), Ladder!Wanted(h) = Ladder!Rating(b)
    PROVE  a[1] < b[1]
  <1>1. /\ h \in DOMAIN plan /\ Ladder!IsOpen(h) /\ step[h] \in Nat /\ step[h] + 1 \in 1..Len(Ladder!RowsOf(h))
        /\ Len(Ladder!RowsOf(h)) \in Nat /\ LadderShape(h) /\ plan \in PvpPlans /\ now[h] \in Nat
    <2>1. /\ h \in DOMAIN plan /\ Ladder!IsOpen(h) /\ step[h] \in Nat /\ step[h] + 1 \in 1..Len(Ladder!RowsOf(h))
          /\ LadderShape(h) /\ now[h] \in Nat
      BY LadderRingWaits
    <2>2. Len(Ladder!RowsOf(h)) \in Nat
      BY <2>1 DEF LadderShape
    <2>3. plan \in PvpPlans
      BY DEF LadderInv, LadderControl
    <2> QED BY <2>1, <2>2, <2>3
  <1>2. PICK i \in 1..step[h] : Ladder!RowsOf(h)[i] = Ladder!Rating(a)
    BY DEF Taken
  <1>3. i \in 1..Len(Ladder!RowsOf(h)) /\ i < step[h] + 1 /\ Ladder!RowsOf(h)[step[h] + 1] = Ladder!Rating(b)
    BY <1>1, <1>2 DEF Ladder!Wanted
  <1>4. Ladder!Kind(h) # "claim"
    <2> SUFFICES ASSUME Ladder!Kind(h) = "claim" PROVE FALSE
      OBVIOUS
    <2>1. Len(Ladder!RowsOf(h)) = 2 /\ Ladder!RowsOf(h)[2] = Ladder!Wallet(Ladder!User(h))
      BY <1>1 DEF LadderShape
    <2>2. step[h] + 1 = 2
      BY <1>1, <1>3, <2>1
    <2> QED BY <1>3, <2>1, <2>2, LadderTags
  <1>5. \E k \in KeysOf(h) : Taken(h, Ladder!Insert(k))
    <2>1. PICK k \in KeysOf(h) : TRUE
      OBVIOUS
    <2>2. PICK j \in 1..Len(Ladder!RowsOf(h)) : Ladder!RowsOf(h)[j] = Ladder!Insert(k)
      BY <1>1, <1>4, <2>1 DEF LadderShape
    <2>3. Ladder!RowsOf(h)[i][1] = "rating" /\ Ladder!RowsOf(h)[j][1] = "insert"
      BY <1>2, <2>2, LadderTags
    <2>4. j < i
      BY <1>1, <1>3, <1>4, <2>2, <2>3 DEF LadderShape
    <2>5. j \in 1..step[h]
      BY <1>1, <1>3, <2>2, <2>4
    <2> QED BY <2>2, <2>5 DEF Taken
  <1>6. Ladder!Kind(h) = "battle"
    <2> SUFFICES ASSUME Ladder!Kind(h) = "defend" PROVE FALSE
      BY <1>1, <1>4, LadderRequests
    <2>1. /\ Len(Ladder!RowsOf(h)) = LadderHead(h) + 1 /\ Ladder!RowsOf(h)[LadderHead(h) + 1] = Ladder!Insert(Ladder!Mine(h))
          /\ \A j \in 1..LadderHead(h) : Ladder!RowsOf(h)[j] = Ticked(h)[j]
      BY <1>1, LadderOtherRows
    <2>2. LadderHead(h) \in 1..2 /\ \A j \in 1..LadderHead(h) : Ticked(h)[j][1] \in {"monster", "wallet"}
      BY <1>1, LadderHeads
    <2>3. \A j \in 1..Len(Ladder!RowsOf(h)) : Ladder!RowsOf(h)[j][1] \in {"monster", "wallet", "insert"}
      BY <2>1, <2>2, LadderTags
    <2>4. Ladder!RowsOf(h)[i][1] = "rating"
      BY <1>2, LadderTags
    <2> QED BY <1>3, <2>3, <2>4
  <1>7. Ladder!Rival(h) # Ladder!User(h)
    BY <1>1, <1>5, <1>6 DEF LadderInv, LadderChecked, HasJoined
  <1> QED BY <1>1, <1>2, <1>3, <1>7 DEF LadderShape

LEMMA LadderHasNoRings ==
    ASSUME LadderInv
    PROVE  Ladder!CirclesOnlyWhileJoining
  <1> SUFFICES ASSUME NEW D, LadderRing(D)
               PROVE  FALSE
    BY DEF Ladder!CirclesOnlyWhileJoining, LadderRing
  <1>1. \A r \in D : \E k \in KeysOf(r) : Ladder!Wanted(r) = Ladder!Rating(k)
    BY LadderRingWaits
  <1>2. \A r \in D : \A k \in KeysOf(r) : k[1] \in Nat
    <2> SUFFICES ASSUME NEW r \in D PROVE \A k \in KeysOf(r) : k[1] \in Nat
      OBVIOUS
    <2>1. r \in DOMAIN plan /\ now[r] \in Nat /\ plan \in PvpPlans
      BY LadderRingWaits DEF LadderInv, LadderControl
    <2>2. KeysOf(r) \subseteq Ladder!Keys
      BY <2>1, LadderKeys
    <2>3. Players \subseteq Nat
      BY PvpParameters DEF Ladder!PvpAssumption
    <2> QED BY <2>2, <2>3 DEF Ladder!Keys
  <1> DEFINE f == [r \in D |-> Ladder!Wanted(r)[2][1]]
  <1>3. f \in [D -> Nat]
    BY <1>1, <1>2, LadderTags
  <1>4. D # {} /\ IsFiniteSet(D)
    <2>1. D # {} /\ D \subseteq DOMAIN plan /\ plan \in PvpPlans
      BY DEF LadderRing, Ladder!Circles, Ladder!Blocked, LadderInv, LadderControl
    <2>2. D \subseteq Requests /\ IsFiniteSet(Requests)
      BY <2>1, LadderRequests, PvpParameters, LadderSame DEF Ladder!PvpAssumption
    <2> QED BY <2>1, <2>2, FS_Subset
  <1>5. ASSUME NEW r \in D PROVE \E h \in D : f[r] < f[h]
    <2>1. PICK a \in KeysOf(r) : Ladder!Wanted(r) = Ladder!Rating(a)
      BY <1>1
    <2>2. PICK h \in D : Taken(h, Ladder!Wanted(r))
      BY LadderRingWaits
    <2>3. PICK b \in KeysOf(h) : Ladder!Wanted(h) = Ladder!Rating(b)
      BY <1>1
    <2>4. a[1] < b[1]
      BY <2>1, <2>2, <2>3, LadderRingRises
    <2>5. f[r] = a[1] /\ f[h] = b[1]
      BY <2>1, <2>3, LadderTags
    <2> QED BY <2>4, <2>5
  <1> HIDE DEF f
  <1> QED BY <1>3, <1>4, <1>5, NoEndlessRise

(* Friends.  A request holds only what its label says, so that whoever is   *)
(* in a circle is led on to a gift with its bag locked.                     *)

(* Where a request is that has locked x. *)
FriendOwner(s, x) ==
    /\ s \in DOMAIN plan
    /\ \A i \in Relations : x = Friends!Row(i) =>
          target[s] = i /\ pc[s] \in {"holding", "counted", "spent"} /\ Friends!Kind(s) \in {"accept", "decline", "greet", "gift"}
    /\ \A u \in Users : x = Friends!Sender(u) =>
          Friends!Kind(s) = "gift" /\ pc[s] \in {"begun", "holding", "counted", "spent"} /\ Friends!User(s) = u
    /\ \A u \in Users : x = Friends!Bag(u) => pc[s] = "spent" /\ Friends!User(s) = u

FriendOwners ==
    \A x \in Friends!Resources, s \in Requests : holder[x] = s => FriendOwner(s, x)

(* A friendship in which somebody is giving stays alive, as it is locked.   *)
FriendBound ==
    \A r \in DOMAIN plan : Friends!Kind(r) = "gift" /\ pc[r] \in {"holding", "counted", "spent"} => Friends!IsLive(target[r])

(* The requests that lock a friendship before they write it. *)
FriendBusy == {"accept", "decline", "greet", "gift"}

(* How a step of r moves it with regard to locks. *)
FriendLocking(r) ==
    \/ Friends!Release(r) /\ pc'[r] \in Friends!Ended
    \/ holder' = holder /\ Friends!Kind(r) \notin FriendBusy
    \/ holder' = holder /\ pc[r] = "idle" /\ pc'[r] = "begun"
    \/ /\ target' = target /\ rel' = rel
       /\ \/ holder' = holder /\ pc[r] = "holding" /\ pc'[r] = "counted"
          \/ Friends!Take(Friends!Sender(Friends!User(r)), r) /\ Friends!Kind(r) = "gift" /\ pc[r] = "begun" /\ pc'[r] = "begun"
          \/ /\ Friends!Take(Friends!Row(target[r]), r) /\ Friends!Kind(r) \in FriendBusy /\ Friends!IsLive(target[r])
             /\ pc[r] = "begun" /\ pc'[r] = "holding"
          \/ Friends!Take(Friends!Bag(Friends!User(r)), r) /\ Friends!Kind(r) = "gift" /\ pc[r] = "counted" /\ pc'[r] = "spent"

LEMMA FriendLocks1 ==
    ASSUME FriendInv, NEW r \in DOMAIN plan, FriendDoes(r)
    PROVE  FriendLocking(r)
  <1>1. /\ r \in Requests /\ StageOK(r) /\ Friends!Kind(r) \in Friends!Kinds
        /\ pc \in [Requests -> {"idle", "begun", "meeting", "met", "asking", "welcome", "inserting",
                                "holding", "counted", "spent"} \cup Friends!Ended]
    BY FriendRequests DEF FriendInv, Friends!TypeOK, FriendStages
  <1>2. CASE Friends!Begin(r)
    BY <1>1, <1>2 DEF Friends!Begin, Friends!Goes, FriendLocking
  <1>3. CASE Friends!Look(r) \/ Friends!CountSlots(r) \/ Friends!CountWaiting(r) \/ Friends!FindToRemove(r) \/ Friends!FindFriend(r)
    <2>1. Friends!Kind(r) \notin FriendBusy
      BY <1>1, <1>3 DEF Friends!Look, Friends!CountSlots, Friends!CountWaiting, Friends!FindToRemove, Friends!FindFriend, StageOK, FriendBusy
    <2>2. holder' = holder
      BY <1>3 DEF Friends!Look, Friends!CountSlots, Friends!CountWaiting, Friends!FindToRemove, Friends!FindFriend, Friends!Moves
    <2> QED BY <2>1, <2>2 DEF FriendLocking
  <1>4. CASE Friends!LoseRace(r)
    <2>1. Friends!Kind(r) \notin FriendBusy
      BY <1>1, <1>4 DEF Friends!LoseRace, StageOK, FriendBusy
    <2>2. CASE attempt[r] = 1
      BY <1>4, <2>1, <2>2 DEF Friends!LoseRace, FriendLocking
    <2>3. CASE attempt[r] # 1
      BY <1>1, <1>4, <2>3 DEF Friends!LoseRace, Friends!End, Friends!Goes, Friends!Ended, FriendLocking
    <2> QED BY <2>2, <2>3
  <1>5. CASE \/ Friends!Meet(r) \/ Friends!Insert(r) \/ Friends!Accept(r) \/ Friends!Decline(r) \/ Friends!Remove(r)
             \/ Friends!Greet(r) \/ Friends!Deliver(r) \/ Friends!Rent(r)
    <2>1. Friends!End(r)
      BY <1>5 DEF Friends!Meet, Friends!Insert, Friends!Accept, Friends!Decline, Friends!Remove, Friends!Greet, Friends!Deliver, Friends!Rent
    <2> QED BY <1>1, <2>1 DEF Friends!End, Friends!Goes, Friends!Ended, FriendLocking
  <1>6. CASE FriendUndo(r)
    BY <1>1, <1>6 DEF FriendUndo, Friends!Undo, Friends!Goes, Friends!Ended, FriendLocking
  <1>7. CASE Friends!CountFriends(r) \/ Friends!CountGreets(r) \/ Friends!CountGifts(r)
    <2>1. pc[r] = "holding" /\ Friends!Moves(r, "counted")
      BY <1>7 DEF Friends!CountFriends, Friends!CountGreets, Friends!CountGifts
    <2> QED BY <1>1, <2>1 DEF Friends!Moves, Friends!Goes, FriendLocking
  <1>8. CASE Friends!LockPending(r)
    BY <1>1, <1>8 DEF Friends!LockPending, Friends!Goes, Friends!CanAnswer, Friends!IsPending, FriendLocking, FriendBusy
  <1>9. CASE Friends!LockSender(r)
    BY <1>1, <1>9 DEF Friends!LockSender, Friends!requestVars, FriendLocking
  <1>10. CASE Friends!LockFriendship(r)
    BY <1>1, <1>10 DEF Friends!LockFriendship, Friends!Goes, Friends!IsReadyToLock, Friends!IsFriendship, FriendLocking, FriendBusy
  <1>11. CASE Friends!Spend(r)
    BY <1>1, <1>11 DEF Friends!Spend, Friends!Goes, FriendLocking
  <1> QED BY <1>2, <1>3, <1>4, <1>5, <1>6, <1>7, <1>8, <1>9, <1>10, <1>11 DEF FriendDoes

LEMMA FriendTags ==
    /\ \A x \in Friends!Resources : \/ \E i \in Relations : x = Friends!Row(i)
                                    \/ \E u \in Users : x = Friends!Sender(u) \/ x = Friends!Bag(u)
    /\ \A i \in Relations : Friends!Row(i) \in Friends!Resources
    /\ \A u \in Users : Friends!Sender(u) \in Friends!Resources /\ Friends!Bag(u) \in Friends!Resources
    /\ \A i, j : Friends!Row(i) = Friends!Row(j) => i = j
    /\ \A u, v : (Friends!Sender(u) = Friends!Sender(v) \/ Friends!Bag(u) = Friends!Bag(v)) => u = v
    /\ \A i, u, v : Friends!Row(i) # Friends!Sender(u) /\ Friends!Row(i) # Friends!Bag(u) /\ Friends!Sender(u) # Friends!Bag(v)
  BY DEF Friends!Resources, Friends!Row, Friends!Sender, Friends!Bag

LEMMA FriendOwnersBusy ==
    ASSUME FriendInv, FriendOwners, NEW x \in Friends!Resources, NEW r \in DOMAIN plan, holder[x] = r
    PROVE  Friends!Kind(r) \in FriendBusy /\ pc[r] \in {"begun", "holding", "counted", "spent"}
  <1>1. FriendOwner(r, x) /\ StageOK(r)
    BY FriendRequests DEF FriendOwners, FriendInv, FriendStages, Friends!TypeOK
  <1> QED BY <1>1, FriendTags DEF FriendOwner, StageOK, FriendBusy

LEMMA FriendOwnersStep ==
    ASSUME FriendInv, FriendOwners, NEW r \in DOMAIN plan, FriendDoes(r), FriendAlone(r)
    PROVE  FriendOwners'
  <1>1. /\ r \in Requests /\ plan' = plan /\ DOMAIN plan \subseteq Requests /\ NoRequest \notin Requests /\ Friends!User(r) \in Users
        /\ holder \in [Friends!Resources -> Requests \cup {NoRequest}] /\ plan \in FriendPlans
        /\ target \in [Requests -> Relations \cup {NoRelation}]
    BY FriendRequests, FriendParameters DEF FriendInv, Friends!TypeOK, FriendAlone, Friends!FriendAssumption
  <1>2. FriendLocking(r)
    BY FriendLocks1
  <1>3. Friends!Resources' = Friends!Resources
    BY DEF Friends!Resources, Friends!Row, Friends!Sender, Friends!Bag
  <1>4. /\ \A i : Friends!Row(i)' = Friends!Row(i)
        /\ \A u : Friends!Sender(u)' = Friends!Sender(u) /\ Friends!Bag(u)' = Friends!Bag(u)
        /\ \A s : Friends!Kind(s)' = Friends!Kind(s) /\ Friends!User(s)' = Friends!User(s)
    BY <1>1 DEF Friends!Row, Friends!Sender, Friends!Bag, Friends!Kind, Friends!User
  <1>5. SUFFICES ASSUME NEW x \in Friends!Resources, NEW s \in Requests, holder'[x] = s
                 PROVE  FriendOwner(s, x)'
    BY <1>3 DEF FriendOwners
  <1>6. CASE s # r
    <2>1. holder[x] = s
      BY <1>1, <1>2, <1>5, <1>6 DEF FriendLocking, Friends!Release, Friends!Take
    <2>2. FriendOwner(s, x)
      BY <2>1 DEF FriendOwners
    <2>3. s \in DOMAIN plan /\ pc'[s] = pc[s] /\ target'[s] = target[s]
      BY <1>1, <1>6, <2>2 DEF FriendAlone, FriendOwner
    <2> QED BY <1>1, <1>4, <2>2, <2>3 DEF FriendOwner
  <1>7. CASE s = r /\ holder[x] = r
    <2>1. FriendOwner(r, x) /\ Friends!Kind(r) \in FriendBusy /\ pc[r] \in {"begun", "holding", "counted", "spent"}
      BY <1>1, <1>7, FriendOwnersBusy DEF FriendOwners
    <2>2. ~Friends!Release(r)
      BY <1>1, <1>5, <1>7 DEF Friends!Release
    <2>3. /\ target' = target
          /\ pc[r] = "begun" => pc'[r] \in {"begun", "holding"}
          /\ pc[r] = "holding" => pc'[r] = "counted"
          /\ pc[r] = "counted" => pc'[r] = "spent"
          /\ pc[r] # "spent"
      BY <1>2, <2>1, <2>2 DEF FriendLocking
    <2>4. ASSUME NEW i \in Relations, x = Friends!Row(i)
          PROVE  target'[r] = i /\ pc'[r] \in {"holding", "counted", "spent"}
      BY <2>1, <2>3, <2>4 DEF FriendOwner
    <2>5. ASSUME NEW u \in Users, x = Friends!Sender(u)
          PROVE  Friends!Kind(r) = "gift" /\ pc'[r] \in {"begun", "holding", "counted", "spent"} /\ Friends!User(r) = u
      BY <2>1, <2>3, <2>5 DEF FriendOwner
    <2>6. ASSUME NEW u \in Users, x = Friends!Bag(u)
          PROVE  pc'[r] = "spent" /\ Friends!User(r) = u
      BY <2>1, <2>3, <2>6 DEF FriendOwner
    <2> QED BY <1>1, <1>4, <1>7, <2>1, <2>4, <2>5, <2>6 DEF FriendOwner, FriendBusy
  <1>8. CASE s = r /\ holder[x] # r
    <2>1. ~Friends!Release(r) /\ holder' # holder
      BY <1>1, <1>5, <1>8 DEF Friends!Release
    <2>2. /\ target' = target
          /\ \/ x = Friends!Sender(Friends!User(r)) /\ Friends!Kind(r) = "gift" /\ pc'[r] = "begun"
             \/ x = Friends!Row(target[r]) /\ Friends!Kind(r) \in FriendBusy /\ pc'[r] = "holding"
             \/ x = Friends!Bag(Friends!User(r)) /\ Friends!Kind(r) = "gift" /\ pc'[r] = "spent"
      BY <1>1, <1>2, <1>5, <1>8, <2>1 DEF FriendLocking, Friends!Take
    <2> QED BY <1>1, <1>4, <1>8, <2>2, FriendTags DEF FriendOwner, FriendBusy
  <1> QED BY <1>6, <1>7, <1>8

LEMMA FriendBoundStep ==
    ASSUME FriendInv, FriendBound, NEW r \in DOMAIN plan, FriendDoes(r), FriendAlone(r)
    PROVE  FriendBound'
  <1>1. /\ r \in Requests /\ plan' = plan /\ DOMAIN plan \subseteq Requests /\ NoRequest \notin Requests
        /\ rel \in [Relations -> Friends!Relation] /\ plan \in FriendPlans
        /\ FriendLocks /\ FriendStages /\ FriendTargets /\ Friends!TypeOK
    BY FriendRequests, FriendParameters DEF FriendInv, Friends!TypeOK, FriendAlone, Friends!FriendAssumption
  <1>2. FriendLocking(r)
    BY FriendLocks1
  <1>3. SUFFICES ASSUME NEW s \in DOMAIN plan, Friends!Kind(s) = "gift", pc'[s] \in {"holding", "counted", "spent"}
                 PROVE  Friends!IsLive(target[s])'
    <2>1. \A s : Friends!Kind(s)' = Friends!Kind(s)
      BY <1>1 DEF Friends!Kind
    <2> QED BY <1>1, <2>1 DEF FriendBound
  <1>4. CASE s = r
    <2>1. target' = target /\ rel' = rel /\ Friends!IsLive(target[r])
      BY <1>2, <1>3, <1>4 DEF FriendLocking, FriendBound, FriendBusy, Friends!Ended
    <2> QED BY <1>4, <2>1 DEF Friends!IsLive
  <1>5. CASE s # r
    <2>1. pc'[s] = pc[s] /\ target'[s] = target[s]
      BY <1>1, <1>3, <1>5 DEF FriendAlone
    <2>2. PICK i : i = target[s]
      OBVIOUS
    <2>3. /\ i \in Relations /\ Friends!IsLive(i) /\ holder[Friends!Row(i)] = s /\ s \in Requests
      BY <1>1, <1>3, <2>1, <2>2, FriendKnown DEF FriendBound, FriendLocks, LocksOK, Holds
    <2>4. rel[i].pair # {} /\ ~rel[i].deleted
      BY <2>3 DEF Friends!IsLive
    <2>5. rel'[i].pair = rel[i].pair /\ rel'[i].deleted = rel[i].deleted
      <3>1. CASE UNCHANGED rel
        BY <3>1
      <3>2. CASE Friends!Insert(r)
        <4>1. PICK k \in Relations : rel[k] = Friends!Unborn /\ \A j \in Relations \ {k} : rel'[j] = rel[j]
          BY <1>1, <3>2, FriendInserts
        <4>2. rel[k].pair = {}
          BY <4>1 DEF Friends!Unborn
        <4>3. i # k
          BY <2>4, <4>2
        <4> QED BY <2>3, <4>1, <4>3
      <3>3. CASE Friends!Meet(r) \/ Friends!Accept(r) \/ Friends!Greet(r) \/ Friends!Deliver(r) \/ Friends!Rent(r)
        BY <1>1, <2>3, <3>3 DEF Friends!Meet, Friends!Accept, Friends!Greet, Friends!Deliver, Friends!Rent, Friends!Relation
      <3>4. CASE Friends!Decline(r)
        <4>1. holder[Friends!Row(target[r])] = r
          BY <1>1, <3>4 DEF Friends!Decline, FriendLocks, LocksOK, Holds
        <4>2. target[r] # i
          BY <1>5, <2>3, <4>1
        <4> QED BY <1>1, <2>3, <3>4, <4>2 DEF Friends!Decline
      <3>5. CASE Friends!Remove(r)
        <4>1. holder[Friends!Row(target[r])] \in {NoRequest, r}
          BY <3>5 DEF Friends!Remove, Friends!Free
        <4>2. target[r] # i
          BY <1>1, <1>5, <2>3, <4>1
        <4> QED BY <1>1, <2>3, <3>5, <4>2 DEF Friends!Remove
      <3> QED BY <3>1, <3>2, <3>3, <3>4, <3>5, FriendLoud DEF FriendWrites
    <2> QED BY <2>1, <2>2, <2>4, <2>5 DEF Friends!IsLive
  <1> QED BY <1>4, <1>5

LEMMA FriendOwnersFirst ==
    ASSUME Friends!Init
    PROVE  FriendOwners /\ FriendBound
  <1>1. holder = [x \in Friends!Resources |-> NoRequest] /\ pc = [r \in Requests |-> "idle"] /\ plan \in FriendPlans
    BY DEF Friends!Init
  <1>2. NoRequest \notin Requests /\ DOMAIN plan \subseteq Requests
    BY <1>1, FriendParameters DEF Friends!FriendAssumption
  <1> QED BY <1>1, <1>2 DEF FriendOwners, FriendBound

LEMMA FriendOwnersRest ==
    ASSUME FriendOwners, FriendBound, UNCHANGED <<plan, pc, target, holder, rel>>
    PROVE  FriendOwners' /\ FriendBound'
  <1>1. plan' = plan /\ pc' = pc /\ target' = target /\ holder' = holder /\ rel' = rel
    OBVIOUS
  <1>2. /\ \A i : Friends!Row(i)' = Friends!Row(i)
        /\ \A u : Friends!Sender(u)' = Friends!Sender(u) /\ Friends!Bag(u)' = Friends!Bag(u)
        /\ \A s : Friends!Kind(s)' = Friends!Kind(s) /\ Friends!User(s)' = Friends!User(s)
        /\ \A i : Friends!IsLive(i)' <=> Friends!IsLive(i)
        /\ Friends!Resources' = Friends!Resources
    BY <1>1 DEF Friends!Row, Friends!Sender, Friends!Bag, Friends!Kind, Friends!User, Friends!IsLive, Friends!Resources
  <1>3. \A s, x : FriendOwner(s, x)' <=> FriendOwner(s, x)
    BY <1>1, <1>2 DEF FriendOwner
  <1>4. FriendOwners'
    BY <1>1, <1>2, <1>3 DEF FriendOwners
  <1>5. FriendBound'
    BY <1>1, <1>2 DEF FriendBound
  <1> QED BY <1>4, <1>5

LEMMA FriendOwnersNext ==
    ASSUME FriendSafe, FriendOwners, FriendBound, [Friends!Next]_Friends!vars
    PROVE  FriendOwners' /\ FriendBound'
  <1>1. CASE Friends!NextDay \/ UNCHANGED Friends!vars
    <2>1. UNCHANGED <<plan, pc, target, holder, rel>>
      BY <1>1 DEF Friends!NextDay, Friends!vars, Friends!requestVars
    <2> QED BY <2>1, FriendOwnersRest
  <1>2. ASSUME NEW r \in DOMAIN plan, Friends!Step(r) \/ Friends!Fail(r)
        PROVE  FriendOwners' /\ FriendBound'
    <2>1. FriendInv /\ Friends!TypeOK /\ FriendStages /\ FriendTargets
      BY DEF FriendSafe, FriendInv
    <2>2. FriendDoes(r)
      BY <1>2, FriendActs
    <2>3. FriendAlone(r)
      BY <2>1, <2>2, FriendTypesStep
    <2> QED BY <2>1, <2>2, <2>3, FriendOwnersStep, FriendBoundStep
  <1> QED BY <1>1, <1>2 DEF Friends!Next

LEMMA FriendRingWaits ==
    ASSUME FriendInv, FriendOwners, NEW D \in Friends!Circles, NEW r \in D
    PROVE  /\ r \in DOMAIN plan /\ r \in Requests /\ StageOK(r)
           /\ \E s \in D \ {r}, x \in Friends!Resources :
                 /\ s \in DOMAIN plan /\ s \in Requests /\ holder[x] = s /\ FriendOwner(s, x)
                 /\ \/ x = Friends!Row(target[r]) /\ target[r] \in Relations /\ (pc[r] \in {"begun", "met"} \/ (Friends!Kind(r) = "rent" /\ pc[r] = "holding"))
                    \/ x = Friends!Sender(Friends!User(r)) /\ Friends!User(r) \in Users /\ pc[r] = "begun" /\ Friends!Kind(r) = "gift" /\ ~Friends!IsReadyToLock(r)
                    \/ x = Friends!Bag(Friends!User(r)) /\ Friends!User(r) \in Users /\ pc[r] = "counted" /\ Friends!Kind(r) = "gift"
                    \/ x = Friends!Bag(Friends!Friend(r)) /\ Friends!Friend(r) \in Users /\ pc[r] = "spent"
  <1>1. /\ r \in DOMAIN plan /\ r \in Requests /\ StageOK(r) /\ Friends!User(r) \in Users /\ Friends!Friend(r) \in Users
        /\ D \subseteq DOMAIN plan /\ DOMAIN plan \subseteq Requests
    BY FriendRequests, FriendParameters DEF Friends!Circles, Friends!Waiting, FriendInv, FriendStages, Friends!TypeOK, Friends!FriendAssumption
  <1>2. PICK s \in D : Friends!Blocks(s, r)
    BY DEF Friends!Circles
  <1>3. PICK x \in Friends!Wanted(r) : holder[x] = s /\ s # r
    BY <1>2 DEF Friends!Blocks
  <1>4. \/ x = Friends!Row(target[r]) /\ (pc[r] \in {"begun", "met"} \/ (Friends!Kind(r) = "rent" /\ pc[r] = "holding"))
        \/ x = Friends!Sender(Friends!User(r)) /\ pc[r] = "begun" /\ Friends!Kind(r) = "gift" /\ ~Friends!IsReadyToLock(r)
        \/ x = Friends!Bag(Friends!User(r)) /\ pc[r] = "counted" /\ Friends!Kind(r) = "gift"
        \/ x = Friends!Bag(Friends!Friend(r)) /\ pc[r] = "spent"
    BY <1>3 DEF Friends!Wanted
  <1>5. x = Friends!Row(target[r]) => target[r] \in Relations
    <2> SUFFICES ASSUME x = Friends!Row(target[r]) PROVE target[r] \in Relations
      OBVIOUS
    <2>1. ~(Friends!Kind(r) = "request" /\ pc[r] \notin {"meeting", "met", "holding", "counted", "spent"})
      <3>1. pc[r] \in {"begun", "met", "holding"}
        BY <1>4, FriendTags
      <3>2. pc[r] = "begun" => Friends!Kind(r) # "request"
        BY <1>3 DEF Friends!Wanted, Friends!IsReadyToLock
      <3> QED BY <3>1, <3>2
    <2>2. ~(Friends!Kind(r) = "rent" /\ pc[r] \in {"begun", "rolledBack"})
      BY <1>3 DEF Friends!Wanted, Friends!IsReadyToLock
    <2>3. pc[r] # "idle"
      BY <1>4
    <2> QED BY <1>1, <2>1, <2>2, <2>3, FriendKnown DEF FriendInv
  <1>6. x \in Friends!Resources
    BY <1>1, <1>4, <1>5, FriendTags
  <1>7. s \in DOMAIN plan /\ s \in Requests /\ FriendOwner(s, x)
    BY <1>1, <1>3, <1>6 DEF FriendOwners
  <1> QED BY <1>1, <1>3, <1>4, <1>5, <1>6, <1>7

(* Wherever a circle is entered, it leads on to a gift that is spent.      *)
LEMMA FriendRingGives ==
    ASSUME FriendInv, FriendOwners, NEW D \in Friends!Circles, D # {}
    PROVE  \E g \in D : pc[g] = "spent"
  <1>1. ASSUME NEW r \in D, pc[r] \in {"counted", "spent"}, Friends!Kind(r) = "gift"
        PROVE  \E g \in D : pc[g] = "spent"
    BY <1>1, FriendRingWaits, FriendTags DEF FriendOwner
  <1>2. ASSUME NEW r \in D, pc[r] \in {"begun", "met", "holding"}, Friends!Kind(r) = "gift" => Friends!IsReadyToLock(r)
        PROVE  \E g \in D : pc[g] = "spent"
    <2>1. PICK s \in D \ {r}, x \in Friends!Resources : /\ FriendOwner(s, x) /\ x = Friends!Row(target[r]) /\ target[r] \in Relations
      BY <1>2, FriendRingWaits
    <2>2. pc[s] \in {"holding", "counted", "spent"} /\ Friends!Kind(s) \in {"accept", "decline", "greet", "gift"}
      BY <2>1 DEF FriendOwner
    <2>3. pc[s] \in {"counted", "spent"} /\ Friends!Kind(s) = "gift"
      BY <2>2, FriendRingWaits DEF StageOK
    <2> QED BY <1>1, <2>3
  <1>3. ASSUME NEW r \in D, pc[r] = "begun", Friends!Kind(r) = "gift", ~Friends!IsReadyToLock(r)
        PROVE  \E g \in D : pc[g] = "spent"
    <2>1. PICK s \in D \ {r}, x \in Friends!Resources :
             \/ FriendOwner(s, x) /\ x = Friends!Row(target[r]) /\ target[r] \in Relations
             \/ FriendOwner(s, x) /\ x = Friends!Sender(Friends!User(r)) /\ Friends!User(r) \in Users /\ holder[x] = s
      BY <1>3, FriendRingWaits
    <2>2. CASE x = Friends!Row(target[r]) /\ target[r] \in Relations
      <3>1. pc[s] \in {"holding", "counted", "spent"} /\ Friends!Kind(s) \in {"accept", "decline", "greet", "gift"}
        BY <2>1, <2>2 DEF FriendOwner
      <3>2. pc[s] \in {"counted", "spent"} /\ Friends!Kind(s) = "gift"
        BY <3>1, FriendRingWaits DEF StageOK
      <3> QED BY <1>1, <3>2
    <2>3. CASE x = Friends!Sender(Friends!User(r)) /\ Friends!User(r) \in Users /\ holder[x] = s
      <3>1. Friends!Kind(s) = "gift" /\ pc[s] \in {"begun", "holding", "counted", "spent"} /\ Friends!User(s) = Friends!User(r)
        BY <2>1, <2>3, FriendTags DEF FriendOwner
      <3>2. Friends!IsReadyToLock(s)
        BY <2>3, <3>1 DEF Friends!IsReadyToLock
      <3> QED BY <1>1, <1>2, <3>1, <3>2
    <2> QED BY <2>1, <2>2, <2>3
  <1>4. PICK r \in D : TRUE
    OBVIOUS
  <1>5. \/ pc[r] \in {"begun", "met", "holding"} /\ (Friends!Kind(r) = "gift" => Friends!IsReadyToLock(r))
        \/ pc[r] = "begun" /\ Friends!Kind(r) = "gift" /\ ~Friends!IsReadyToLock(r)
        \/ pc[r] \in {"counted", "spent"} /\ Friends!Kind(r) = "gift"
    BY FriendRingWaits DEF StageOK
  <1> QED BY <1>1, <1>2, <1>3, <1>5

(* ... which waits for that of the friend it gives to.                     *)
LEMMA FriendRingTurns ==
    ASSUME FriendInv, FriendOwners, NEW D \in Friends!Circles, NEW g \in D, pc[g] = "spent"
    PROVE  \E h \in D \ {g} : pc[h] = "spent" /\ Friends!User(h) = Friends!Friend(g)
  <1>1. PICK h \in D \ {g}, x \in Friends!Resources : FriendOwner(h, x) /\ x = Friends!Bag(Friends!Friend(g)) /\ Friends!Friend(g) \in Users
    BY FriendRingWaits
  <1>2. pc[h] = "spent" /\ Friends!User(h) = Friends!Friend(g)
    BY <1>1 DEF FriendOwner
  <1> QED BY <1>2

LEMMA ThreeAreThree ==
    ASSUME NEW a, NEW b, NEW c, a # b, b # c, c # a
    PROVE  Cardinality({a, b, c}) = 3
  <1>1. Cardinality({a}) = 1 /\ IsFiniteSet({a})
    BY FS_Singleton
  <1>2. PICK T : T = {a} \cup {b}
    OBVIOUS
  <1>3. Cardinality(T) = 2 /\ IsFiniteSet(T)
    BY <1>1, <1>2, FS_AddElement
  <1>4. c \notin T /\ T \cup {c} = {a, b, c}
    BY <1>2
  <1> QED BY <1>3, <1>4, FS_AddElement

LEMMA FriendHasRings ==
    ASSUME FriendInv, FriendOwners, FriendBound
    PROVE  Friends!CirclesOnlyInRings
  <1> SUFFICES ASSUME NEW D \in Friends!Circles, D # {}
               PROVE  Friends!Cardinality({r \in D : Friends!Kind(r) = "gift" /\ pc[r] = "spent"}) >= 3
    BY DEF Friends!CirclesOnlyInRings
  <1> DEFINE G == {r \in D : Friends!Kind(r) = "gift" /\ pc[r] = "spent"}
  <1>1. PICK a \in D : pc[a] = "spent"
    BY FriendRingGives
  <1>2. PICK b \in D \ {a} : pc[b] = "spent" /\ Friends!User(b) = Friends!Friend(a)
    BY <1>1, FriendRingTurns
  <1>3. PICK c \in D \ {b} : pc[c] = "spent" /\ Friends!User(c) = Friends!Friend(b)
    BY <1>2, FriendRingTurns
  <1>4. D \subseteq Requests /\ \A r \in D : r \in DOMAIN plan /\ (pc[r] = "spent" => Friends!Kind(r) = "gift")
    BY FriendRingWaits DEF StageOK
  <1>5. ASSUME NEW r \in D, pc[r] = "spent"
        PROVE  target[r] \in Relations /\ rel[target[r]].pair = Friends!Pair(r) /\ Friends!IsLive(target[r]) /\ holder[Friends!Row(target[r])] = r
    <2>1. r \in DOMAIN plan /\ Friends!Kind(r) = "gift" /\ FriendLocks /\ Friends!TypeOK /\ FriendStages /\ FriendTargets
      BY <1>4, <1>5 DEF FriendInv
    <2>2. target[r] \in Relations /\ rel[target[r]].pair = Friends!Pair(r)
      BY <1>5, <2>1, FriendKnown
    <2> QED BY <1>5, <2>1, <2>2 DEF FriendBound, FriendLocks, LocksOK, Holds
  <1>6. c # a
    <2> SUFFICES ASSUME c = a PROVE FALSE
      OBVIOUS
    <2>1. Friends!Pair(a) = Friends!Pair(b)
      BY <1>2, <1>3 DEF Friends!Pair
    <2>2. target[a] = target[b]
      BY <1>1, <1>2, <1>5, <2>1 DEF FriendInv, FriendRows
    <2> QED BY <1>1, <1>2, <1>5, <2>2
  <1>7. {a, b, c} \subseteq G
    BY <1>1, <1>2, <1>3, <1>4
  <1>8. IsFiniteSet(G)
    <2>1. IsFiniteSet(Requests)
      BY FriendParameters, FriendSame DEF Friends!FriendAssumption
    <2>2. G \subseteq Requests
      BY <1>4
    <2> QED BY <2>1, <2>2, FS_Subset
  <1>9. Cardinality({a, b, c}) = 3
    <2>1. a # b /\ b # c /\ c # a
      BY <1>2, <1>3, <1>6
    <2> QED BY <2>1, ThreeAreThree
  <1>10. Cardinality(G) >= 3
    <2> HIDE DEF G
    <2>1. Cardinality({a, b, c}) <= Cardinality(G) /\ Cardinality(G) \in Nat
      BY <1>7, <1>8, FS_Subset, FS_CardinalityType
    <2> QED BY <1>9, <2>1
  <1> QED BY <1>10, FriendSame

(* Quests.  A request holds only rows that it has come past in its list,    *)
(* and the lists rise unless a tick discovers a species.                    *)

(* x is among the rows that r has come past. *)
QuestTaken(r, x) == \E i \in 1..Len(Quests!RowsOf(r)) : i <= step[r] /\ Quests!RowsOf(r)[i] = x

QuestHolds == \A x \in DOMAIN holder : \A s \in DOMAIN plan : holder[x] = s => QuestTaken(s, x)

(* What comes before the quest rows is the same whatever day it is. *)
QuestHeads ==
    plan \in QuestPlans => \A r \in DOMAIN plan : Quests!Kind(r) = "act" =>
        \A i \in 1..QuestHead(r) : /\ i \in 1..Len(Quests!RowsOf(r))
                                   /\ Quests!RowsOf(r)[i] = IF i = 1 THEN Quests!Monsters ELSE Quests!Wallet

LEMMA QuestHeaded == QuestHeads
  BY QuestActRows, QuestActing DEF QuestHeads

LEMMA QuestHeadedNext == QuestHeads'
  BY QuestHeaded, PTL

LEMMA QuestHoldsStep ==
    ASSUME QuestInv, QuestHolds, NEW r \in DOMAIN plan, QuestDoes(r), QuestControl', QuestAlone(r)
    PROVE  QuestHolds'
  <1>1. /\ QuestControl /\ QuestHeld /\ QuestStage(r) /\ r \in Requests /\ DOMAIN plan \subseteq Requests /\ plan' = plan
        /\ NoRequest \notin Requests /\ step[r] \in Nat /\ Len(Quests!RowsOf(r)) \in Nat /\ plan \in QuestPlans
    BY QuestRequests, QuestParameters, QuestShaped DEF QuestInv, QuestControl, QuestAlone, QuestShape, Quests!QuestAssumption
  <1>2. SUFFICES ASSUME NEW x \in DOMAIN holder', NEW s \in DOMAIN plan, holder'[x] = s
                 PROVE  QuestTaken(s, x)'
    BY <1>1 DEF QuestHolds
  <1>3. CASE s # r
    <2>1. x \in DOMAIN holder /\ holder[x] = s
      BY <1>1, <1>2, <1>3
         DEF QuestDoes, Quests!Begin, Quests!ReadLogins, Quests!TakeRow, Quests!SaveEvents, Quests!WriteQuest, Quests!Commit, QuestUndo, Quests!Undo,
             Quests!Take, Quests!Release
    <2>2. step'[s] = step[s] /\ asked'[s] = asked[s] /\ saved'[s] = saved[s]
      BY <1>1, <1>3 DEF QuestAlone
    <2>3. Quests!RowsOf(s)' = Quests!RowsOf(s)
      BY <1>1, <2>2, QuestSameRows
    <2>4. QuestTaken(s, x)
      BY <2>1 DEF QuestHolds
    <2> QED BY <2>2, <2>3, <2>4 DEF QuestTaken
  <1>4. CASE s = r /\ (Quests!Begin(r) \/ Quests!ReadLogins(r))
    <2>1. x \in DOMAIN holder /\ holder[x] = r /\ ~Quests!IsOpen(r)
      BY <1>2, <1>4 DEF Quests!Begin, Quests!ReadLogins, Quests!IsOpen
    <2> QED BY <1>1, <2>1 DEF QuestHeld
  <1>5. CASE s = r /\ (Quests!TakeRow(r) \/ Quests!WriteQuest(r))
    <2>1. /\ Quests!Take(r, Quests!Wanted(r)) /\ ~Quests!HasAll(r)
          /\ step' = [step EXCEPT ![r] = @ + 1] /\ UNCHANGED <<asked, saved>>
      BY <1>5 DEF Quests!TakeRow, Quests!WriteQuest, Quests!IsReady
    <2>2. Quests!RowsOf(r)' = Quests!RowsOf(r)
      BY <1>1, <2>1, QuestSameRows
    <2>3. step'[r] = step[r] + 1 /\ step[r] + 1 \in 1..Len(Quests!RowsOf(r))
      BY <1>1, <2>1 DEF QuestStage, Quests!HasAll, QuestControl
    <2>4. CASE x = Quests!Wanted(r)
      BY <1>1, <1>5, <2>2, <2>3, <2>4 DEF QuestTaken, Quests!Wanted
    <2>5. CASE x # Quests!Wanted(r)
      <3>1. x \in DOMAIN holder /\ holder[x] = r
        BY <1>2, <1>5, <2>1, <2>5 DEF Quests!Take
      <3>2. QuestTaken(r, x)
        BY <3>1 DEF QuestHolds
      <3> QED BY <1>1, <1>5, <2>2, <2>3, <3>2 DEF QuestTaken
    <2> QED BY <2>4, <2>5
  <1>6. CASE s = r /\ Quests!SaveEvents(r)
    <2>1. x \in DOMAIN holder /\ holder[x] = r /\ step'[r] = step[r] /\ step[r] <= QuestHead(r) /\ Quests!Kind(r) = "act" /\ Quests!Kind(r)' = "act"
      BY <1>1, <1>2, <1>6 DEF Quests!SaveEvents, QuestStage, Quests!Kind
    <2>2. PICK i \in 1..Len(Quests!RowsOf(r)) : i <= step[r] /\ Quests!RowsOf(r)[i] = x
      BY <2>1 DEF QuestHolds, QuestTaken
    <2>3. QuestHead(r)' = QuestHead(r) /\ QuestHead(r) \in Nat
      BY <1>1 DEF QuestHead
    <2>4. i \in 1..QuestHead(r)
      BY <1>1, <2>1, <2>2, <2>3
    <2>5. i \in 1..Len(Quests!RowsOf(r)') /\ Quests!RowsOf(r)'[i] = Quests!RowsOf(r)[i]
      <3>1. /\ i \in 1..Len(Quests!RowsOf(r)') /\ i \in 1..Len(Quests!RowsOf(r))
            /\ Quests!RowsOf(r)'[i] = IF i = 1 THEN Quests!Monsters' ELSE Quests!Wallet'
            /\ Quests!RowsOf(r)[i] = IF i = 1 THEN Quests!Monsters ELSE Quests!Wallet
        BY <1>1, <2>1, <2>3, <2>4, QuestHeaded, QuestHeadedNext DEF QuestHeads, QuestControl
      <3> QED BY <3>1 DEF Quests!Monsters, Quests!Wallet
    <2> QED BY <1>6, <2>1, <2>2, <2>5 DEF QuestTaken
  <1>7. CASE s = r /\ (Quests!Commit(r) \/ QuestUndo(r))
    BY <1>1, <1>2, <1>7 DEF Quests!Commit, QuestUndo, Quests!Undo, Quests!Release
  <1> QED BY <1>3, <1>4, <1>5, <1>6, <1>7 DEF QuestDoes

LEMMA QuestHoldsFirst == Quests!Init => QuestHolds
  BY DEF Quests!Init, Quests!Nothing, QuestHolds

LEMMA QuestHoldsNext ==
    ASSUME QuestSafe, QuestHolds, [Quests!Next]_Quests!vars
    PROVE  QuestHolds'
  <1>1. CASE Quests!Midnight \/ UNCHANGED Quests!vars
    <2>1. plan' = plan /\ asked' = asked /\ saved' = saved /\ step' = step /\ holder' = holder
      BY <1>1 DEF Quests!Midnight, Quests!vars, Quests!requestVars
    <2>2. \A s : Quests!RowsOf(s)' = Quests!RowsOf(s)
      BY <2>1, QuestSameRows
    <2> QED BY <2>1, <2>2 DEF QuestHolds, QuestTaken
  <1>2. ASSUME NEW r \in DOMAIN plan, Quests!Step(r) \/ Quests!Fail(r)
        PROVE  QuestHolds'
    <2>1. QuestInv
      BY DEF QuestSafe
    <2>2. QuestDoes(r)
      BY <1>2, QuestActs
    <2>3. QuestControl' /\ QuestAlone(r)
      BY <2>1, <2>2, QuestControlStep
    <2> QED BY <2>1, <2>2, <2>3, QuestHoldsStep
  <1> QED BY <1>1, <1>2 DEF Quests!Next

(* The order in which requests lock that do not discover a species. *)
QuestRank(x) ==
    CASE x = Quests!Monsters -> 0
      [] x = Quests!Wallet -> 3
      [] OTHER -> IF x[2][1] \in Quests!Daily \cup {LOGIN} THEN 1 ELSE 2

LEMMA QuestRanks ==
    /\ QuestRank(Quests!Monsters) = 0 /\ QuestRank(Quests!Wallet) = 3
    /\ \A k : QuestRank(Quests!QuestRow(k)) = IF k[1] \in Quests!Daily \cup {LOGIN} THEN 1 ELSE 2
  <1>1. Quests!Monsters # Quests!Wallet
    BY DEF Quests!Monsters, Quests!Wallet
  <1> QED BY <1>1, QuestKeysDiffer DEF QuestRank

LEMMA QuestMovesRise ==
    ASSUME plan \in QuestPlans, NEW r \in DOMAIN plan, Quests!Kind(r) = "act"
    PROVE  /\ \A i \in DOMAIN Quests!Moves(r) : QuestRank(Quests!Moves(r)[i]) = i
  <1> DEFINE j == Quests!Key(plan[r].quest, saved[r])
             k == Quests!Key(Weekly[plan[r].quest], saved[r])
  <1>1. plan[r].quest \in Quests!Daily /\ j[1] = plan[r].quest
    BY QuestParameters, QuestKeysDiffer DEF Quests!QuestAssumption, Quests!Kind
  <1>2. QuestRank(Quests!QuestRow(j)) = 1
    BY <1>1, QuestRanks
  <1>3. CASE plan[r].quest \in DOMAIN Weekly
    <2>1. k[1] = Weekly[plan[r].quest] /\ k[1] \notin Quests!Daily \cup {LOGIN}
      BY <1>3, QuestParameters, QuestKeysDiffer DEF Quests!QuestAssumption, Quests!Daily
    <2>2. QuestRank(Quests!QuestRow(k)) = 2
      BY <2>1, QuestRanks
    <2>3. Quests!Moves(r) = <<Quests!QuestRow(j), Quests!QuestRow(k)>>
      BY <1>3 DEF Quests!Moves
    <2> HIDE DEF j, k
    <2> QED BY <1>2, <2>2, <2>3
  <1>4. CASE plan[r].quest \notin DOMAIN Weekly
    <2>1. Quests!Moves(r) = <<Quests!QuestRow(j)>>
      BY <1>4 DEF Quests!Moves
    <2> HIDE DEF j, k
    <2> QED BY <1>2, <2>1
  <1> QED BY <1>3, <1>4

QuestDiscovers(r) == Quests!Kind(r) = "act" /\ plan[r].discovers

LEMMA QuestRowsRise ==
    ASSUME plan \in QuestPlans, NEW r \in DOMAIN plan, ~QuestDiscovers(r)
    PROVE  /\ \A i \in 1..Len(Quests!RowsOf(r)) : QuestRank(Quests!RowsOf(r)[i]) \in 0..3
           /\ \A i, j \in 1..Len(Quests!RowsOf(r)) : i < j => QuestRank(Quests!RowsOf(r)[i]) < QuestRank(Quests!RowsOf(r)[j])
  <1>1. CASE Quests!Kind(r) = "act"
    <2> DEFINE m == Quests!Moves(r)  w == Quests!RowsOf(r)
    <2>1. QuestHead(r) = 1
      BY <1>1 DEF QuestHead, QuestDiscovers
    <2>2. PICK p \in 1..2, n \in 2..4 :
             /\ DOMAIN m = 1..p /\ Len(w) = n /\ n \in {p + 1, p + 2}
             /\ \A i \in 1..n :
                   /\ i = 1 => w[i] = Quests!Monsters
                   /\ i \in 2..p + 1 => w[i] = m[i - 1]
                   /\ p + 1 < i => w[i] = Quests!Wallet
      <3>1. PICK p \in 1..2 : p = Len(m)
        BY <1>1, QuestActRows
      <3>2. PICK n \in p + 1..p + 2 : n = Len(w)
        BY <1>1, <2>1, <3>1, QuestActRows
      <3>3. n \in 2..4 /\ n \in {p + 1, p + 2}
        OBVIOUS
      <3>4. /\ DOMAIN m = 1..p
            /\ \A i \in 1..n :
                  /\ \/ i \in 1 + 1..1 + p /\ w[i] = m[i - 1]
                     \/ i \notin 1 + 1..1 + p
                  /\ i <= 1 => w[i] = IF i = 1 THEN Quests!Monsters ELSE Quests!Wallet
                  /\ 1 + p < i => w[i] = Quests!Wallet
        BY <1>1, <2>1, <3>1, <3>2, QuestActRows
      <3> HIDE DEF m, w
      <3>5. ASSUME NEW i \in 1..n
            PROVE  /\ i = 1 => w[i] = Quests!Monsters
                   /\ i \in 2..p + 1 => w[i] = m[i - 1]
                   /\ p + 1 < i => w[i] = Quests!Wallet
        <4>1. i \in 2..p + 1 => i \in 1 + 1..1 + p
          OBVIOUS
        <4> QED BY <3>4, <4>1
      <3> QED BY <3>2, <3>3, <3>4, <3>5
    <2>3. \A i \in DOMAIN m : QuestRank(m[i]) = i
      BY <1>1, QuestMovesRise
    <2> HIDE DEF m, w
    <2>4. ASSUME NEW i \in 1..n
          PROVE  QuestRank(w[i]) = IF i <= p + 1 THEN i - 1 ELSE 3
      <3>1. CASE i = 1
        BY <2>2, <3>1, QuestRanks
      <3>2. CASE i \in 2..p + 1
        <4>1. w[i] = m[i - 1] /\ i - 1 \in DOMAIN m
          BY <2>2, <3>2
        <4>2. QuestRank(m[i - 1]) = i - 1
          BY <2>3, <4>1
        <4> QED BY <2>2, <3>2, <4>1, <4>2
      <3>3. CASE p + 1 < i
        BY <2>2, <3>3, QuestRanks
      <3> QED BY <2>2, <3>1, <3>2, <3>3
    <2>5. \A i \in 1..n : QuestRank(w[i]) \in 0..3
      BY <2>2, <2>4
    <2>6. \A i, j \in 1..n : i < j => QuestRank(w[i]) < QuestRank(w[j])
      BY <2>2, <2>4
    <2> QED BY <2>2, <2>5, <2>6 DEF w
  <1>2. CASE Quests!Kind(r) # "act"
    <2>1. Len(Quests!RowsOf(r)) = 2 /\ Quests!RowsOf(r)[1] = Quests!QuestRow(Quests!Asked(r)) /\ Quests!RowsOf(r)[2] = Quests!Wallet
      BY <1>2, QuestPaying
    <2>2. QuestRank(Quests!RowsOf(r)[1]) \in 1..2 /\ QuestRank(Quests!RowsOf(r)[2]) = 3
      BY <2>1, QuestRanks
    <2> QED BY <2>1, <2>2
  <1> QED BY <1>1, <1>2

LEMMA QuestHasNoRings ==
    ASSUME QuestInv, QuestHolds
    PROVE  Quests!CirclesOnlyWhenDiscovering
  <1> SUFFICES ASSUME NEW D \in Quests!Circles, \A r \in D : ~QuestDiscovers(r)
               PROVE  FALSE
    BY DEF QuestDiscovers, Quests!CirclesOnlyWhenDiscovering
  <1>1. D # {} /\ D \subseteq DOMAIN plan /\ plan \in QuestPlans /\ DOMAIN plan \subseteq Requests
    BY QuestRequests DEF Quests!Circles, Quests!Blocked, QuestInv, QuestControl
  <1>2. ASSUME NEW r \in D
        PROVE  /\ step[r] \in Nat /\ step[r] + 1 \in 1..Len(Quests!RowsOf(r)) /\ Len(Quests!RowsOf(r)) \in Nat
               /\ Quests!Wanted(r) = Quests!RowsOf(r)[step[r] + 1] /\ QuestRank(Quests!Wanted(r)) \in 0..3
    <2>1. r \in DOMAIN plan /\ r \in Requests /\ ~Quests!HasAll(r)
      BY <1>1 DEF Quests!Circles, Quests!Blocked, Quests!IsReady
    <2>2. step[r] \in Nat /\ step[r] <= Len(Quests!RowsOf(r)) /\ Len(Quests!RowsOf(r)) \in Nat
      BY <1>1, <2>1, QuestShaped DEF QuestInv, QuestControl, QuestStage, QuestShape
    <2>3. step[r] + 1 \in 1..Len(Quests!RowsOf(r))
      BY <2>1, <2>2 DEF Quests!HasAll
    <2> QED BY <1>1, <2>1, <2>2, <2>3, QuestRowsRise DEF Quests!Wanted
  <1> DEFINE f == [r \in D |-> QuestRank(Quests!Wanted(r))]
  <1>3. f \in [D -> Nat]
    BY <1>2
  <1>4. IsFiniteSet(D)
    <2>1. D \subseteq Requests /\ IsFiniteSet(Requests)
      BY <1>1, QuestParameters, QuestSame DEF Quests!QuestAssumption
    <2> QED BY <2>1, FS_Subset
  <1>5. ASSUME NEW r \in D PROVE \E h \in D : f[r] < f[h]
    <2>1. PICK h : h = Quests!HolderOf(Quests!Wanted(r)) /\ h \in D
      BY DEF Quests!Circles
    <2>2. Quests!Wanted(r) \in DOMAIN holder /\ holder[Quests!Wanted(r)] = h
      BY <1>1, <2>1, QuestParameters, QuestSame DEF Quests!HolderOf, Quests!QuestAssumption
    <2>3. PICK i \in 1..Len(Quests!RowsOf(h)) : i <= step[h] /\ Quests!RowsOf(h)[i] = Quests!Wanted(r)
      BY <1>1, <2>1, <2>2 DEF QuestHolds, QuestTaken
    <2>4. i < step[h] + 1 /\ step[h] + 1 \in 1..Len(Quests!RowsOf(h))
      BY <1>2, <2>1, <2>3
    <2>5. QuestRank(Quests!RowsOf(h)[i]) < QuestRank(Quests!RowsOf(h)[step[h] + 1])
      BY <1>1, <2>1, <2>3, <2>4, QuestRowsRise
    <2> QED BY <1>2, <2>1, <2>3, <2>5
  <1> HIDE DEF f
  <1> QED BY <1>1, <1>3, <1>4, <1>5, NoEndlessRise

---------------------------------------------------------------------------
(*                      What a behaviour of Play does                       *)

LEMMA PlayStep ==
    ASSUME [PlayNext]_playVars
    PROVE  /\ live' = live
           /\ live = "friends" => [Friends!Next]_Friends!vars
           /\ live = "stages" => [Adventure!Next]_Adventure!vars
           /\ live = "quests" => [Quests!Next]_Quests!vars
           /\ live = "pvp" => [Ladder!Next]_Ladder!vars
           /\ live = "goods" => [Next]_vars
  <1>1. CASE PlayNext
    <2>1. live' = live
      BY <1>1 DEF PlayNext, PlayGoods, PlayFriends, PlayQuests, PlayStages, PlayPvp
    <2>2. ASSUME live = "friends" PROVE Friends!Next
      BY <1>1, <2>2 DEF PlayNext, PlayGoods, PlayFriends, PlayQuests, PlayStages, PlayPvp
    <2>3. ASSUME live = "stages" PROVE Adventure!Next
      BY <1>1, <2>3 DEF PlayNext, PlayGoods, PlayFriends, PlayQuests, PlayStages, PlayPvp
    <2>4. ASSUME live = "quests" PROVE Quests!Next
      BY <1>1, <2>4 DEF PlayNext, PlayGoods, PlayFriends, PlayQuests, PlayStages, PlayPvp
    <2>5. ASSUME live = "pvp" PROVE Ladder!Next
      BY <1>1, <2>5 DEF PlayNext, PlayGoods, PlayFriends, PlayQuests, PlayStages, PlayPvp
    <2>6. ASSUME live = "goods" PROVE Next
      BY <1>1, <2>6 DEF PlayNext, PlayGoods, PlayFriends, PlayQuests, PlayStages, PlayPvp
    <2> QED BY <2>1, <2>2, <2>3, <2>4, <2>5, <2>6
  <1>2. CASE UNCHANGED playVars
    <2>1. live' = live /\ UNCHANGED <<ofRequests, ofFriends, ofStages, ofQuests, ofPvp>>
      BY <1>2 DEF playVars
    <2>2. UNCHANGED Friends!vars
      BY <2>1 DEF ofRequests, ofFriends, Friends!vars, Friends!requestVars
    <2>3. UNCHANGED Adventure!vars
      BY <2>1 DEF ofRequests, ofStages, Adventure!vars, Adventure!requestVars, Adventure!locks, Adventure!tables
    <2>4. UNCHANGED Quests!vars
      BY <2>1 DEF ofRequests, ofQuests, Quests!vars, Quests!requestVars
    <2>5. UNCHANGED Ladder!vars
      BY <2>1 DEF ofRequests, ofPvp, Ladder!vars, Ladder!requestVars, Ladder!tables
    <2>6. UNCHANGED vars
      BY <1>2 DEF playVars, ofRequests, ofGoods, vars, requestVars, goods
    <2> QED BY <2>1, <2>2, <2>3, <2>4, <2>5, <2>6
  <1> QED BY <1>1, <1>2

LEMMA PlayFriendSafe == Play => [](live = "friends" => FriendSafe)
  <1>1. PlayInit => (live = "friends" => FriendSafe)
    BY FriendFirst DEF PlayInit
  <1>2. (live = "friends" => FriendSafe) /\ [PlayNext]_playVars => (live = "friends" => FriendSafe)'
    BY PlayStep, FriendNext
  <1> QED BY <1>1, <1>2, PTL DEF Play

LEMMA PlayStageSafe == Play => [](live = "stages" => StageSafe)
  <1>1. PlayInit => (live = "stages" => StageSafe)
    BY StageFirst DEF PlayInit
  <1>2. (live = "stages" => StageSafe) /\ [PlayNext]_playVars => (live = "stages" => StageSafe)'
    BY PlayStep, StageNext
  <1> QED BY <1>1, <1>2, PTL DEF Play

LEMMA PlayQuestSafe == Play => [](live = "quests" => QuestSafe)
  <1>1. PlayInit => (live = "quests" => QuestSafe)
    BY QuestFirst DEF PlayInit
  <1>2. (live = "quests" => QuestSafe) /\ [PlayNext]_playVars => (live = "quests" => QuestSafe)'
    BY PlayStep, QuestNext
  <1> QED BY <1>1, <1>2, PTL DEF Play

LEMMA PlayLadderSafe == Play => [](live = "pvp" => LadderSafe)
  <1>1. PlayInit => (live = "pvp" => LadderSafe)
    BY LadderFirst DEF PlayInit
  <1>2. (live = "pvp" => LadderSafe) /\ [PlayNext]_playVars => (live = "pvp" => LadderSafe)'
    BY PlayStep, LadderNext
  <1> QED BY <1>1, <1>2, PTL DEF Play

LEMMA PlayGoodsSafe == Play => [](live = "goods" => GoodsSafe)
  <1>1. PlayInit => (live = "goods" => GoodsSafe)
    BY GoodsFirst DEF PlayInit
  <1>2. (live = "goods" => GoodsSafe) /\ [PlayNext]_playVars => (live = "goods" => GoodsSafe)'
    BY PlayStep, GoodsNext
  <1> QED BY <1>1, <1>2, PTL DEF Play

LEMMA PlayFriendOwners == Play => [](live = "friends" => FriendSafe /\ FriendOwners /\ FriendBound)
  <1>1. PlayInit => (live = "friends" => FriendOwners /\ FriendBound)
    BY FriendOwnersFirst DEF PlayInit
  <1>2. (live = "friends" => FriendSafe) /\ (live = "friends" => FriendOwners /\ FriendBound) /\ [PlayNext]_playVars
          => (live = "friends" => FriendOwners /\ FriendBound)'
    BY PlayStep, FriendOwnersNext
  <1> QED BY <1>1, <1>2, PlayFriendSafe, PTL DEF Play

LEMMA PlayQuestHolds == Play => [](live = "quests" => QuestSafe /\ QuestHolds)
  <1>1. PlayInit => (live = "quests" => QuestHolds)
    BY QuestHoldsFirst DEF PlayInit
  <1>2. (live = "quests" => QuestSafe) /\ (live = "quests" => QuestHolds) /\ [PlayNext]_playVars
          => (live = "quests" => QuestHolds)'
    BY PlayStep, QuestHoldsNext
  <1> QED BY <1>1, <1>2, PlayQuestSafe, PTL DEF Play

(* Two strangers who ask each other at once end up friends, and nobody is   *)
(* made a friend without having asked or answered, whatever requests,       *)
(* answers and partings run between (FriendService.request, respond).       *)
THEOREM PlayFriendsHaveAgreed == Play => []FriendsHaveAgreed
  <1>1. (live = "friends" => FriendSafe) => FriendsHaveAgreed
    BY DEF FriendSafe, FriendsHaveAgreed
  <1> QED BY <1>1, PlayFriendSafe, PTL

(* However many greetings, gifts and rentals run at once, and whenever      *)
(* midnight strikes: the limits of a day hold, gifts create no item, and a  *)
(* friendship has the points of what was done in it (FriendService.greet,   *)
(* gift; WorldBossService's rentals).                                       *)
THEOREM PlayGiftsAddUp == Play => []GiftsAddUp
  <1>1. (live = "friends" => FriendSafe) => GiftsAddUp
    BY DEF FriendSafe, GiftsAddUp
  <1> QED BY <1>1, PlayFriendSafe, PTL

(* No request brings back a friendship that has been ended or declined      *)
(* since the request read it (FriendService.request, remove).               *)
THEOREM PlayPartedForGood == Play => PartedForGood
  <1>1. (live = "friends" => FriendSafe) /\ [PlayNext]_playVars
          => [live = "friends" => Friends!StaysParted]_playVars
    BY PlayStep, FriendNext
  <1> QED BY <1>1, PlayFriendSafe, PTL DEF Play, PartedForGood

(* However many battles, exchanges and sweeps of a player run at once:      *)
(* every win, first clear and point of stamina is that of a committed       *)
(* request, nothing is cleared before what comes before it, and tokens are  *)
(* never spent twice (AdventureService, RaidService.exchange).              *)
THEOREM PlayStagesAddUp == Play => []StagesAddUp
  <1>1. (live = "stages" => StageSafe) => StagesAddUp
    BY DEF StageSafe, StagesAddUp
  <1> QED BY <1>1, PlayStageSafe, PTL

(* However many battles, ticks and claims run at once, and whenever         *)
(* midnight or Monday comes between their steps: a quest's row has the      *)
(* events saved in its period, its reward is paid once and for a target     *)
(* that was met, and the reward of a streak of n days only after n days     *)
(* without a gap (quest.service.ts).                                        *)
THEOREM PlayRewardsAreEarned == Play => []RewardsAreEarned
  <1>1. (live = "quests" => QuestSafe) => RewardsAreEarned
    BY DEF QuestSafe, RewardsAreEarned
  <1> QED BY <1>1, PlayQuestSafe, PTL

(* However many challenges, defenses and season claims run at once, whoever *)
(* joins the season meanwhile and whenever midnight or the season's end     *)
(* comes: every row of the ladder has the wins, the losses and the rating   *)
(* that its player's fights made of the opening ones, fight after fight,    *)
(* and nobody fights more in a day, or against one opponent, than allowed   *)
(* (PvpService.attack, lockRatings, ensureRating).                          *)
THEOREM PlayRatingsFollowTheFights == Play => []RatingsFollowTheFights
  <1>1. LadderSafe => Ladder!RatingsFollowTheFights /\ Ladder!FightsWithinLimits
    BY LadderAllFollowMeans DEF LadderSafe
  <1>2. (live = "pvp" => LadderSafe) => RatingsFollowTheFights
    BY <1>1 DEF RatingsFollowTheFights
  <1> QED BY <1>2, PlayLadderSafe, PTL

(* However many purchases, exchanges, fights, claims, attempts, batches and *)
(* pets meet at the pieces of a player: each piece ends once and pays once, *)
(* and nobody wears it afterwards; without what some requests brought, one  *)
(* of a queue and none of the last one's, the bag is within its capacity;   *)
(* and what a pet wears stays what it is while the pet is away              *)
(* (dismantleMany, EnhanceService.enhance, grantItem, EquipmentService.equip,*)
(* RaidService.battle, AdventureService.battle, WorldBossService.claim).    *)
THEOREM PlayPiecesAddUp == Play => PiecesAddUp
  <1>1. (live = "goods" => GoodsSafe) => (live = "goods" => PieceEndsOnce /\ OverfullByMeetingOnly)
    BY GoodsMeans
  <1>2. (live = "goods" => GoodsSafe) /\ [PlayNext]_playVars => [live = "goods" => StaysGeared]_playVars
    BY PlayStep, GoodsNext
  <1> QED BY <1>1, <1>2, PlayGoodsSafe, PTL DEF Play, PiecesAddUp

(* However many crafts are started, skipped and claimed at once: each craft *)
(* paid for is in the queue or gave exactly one piece, one is in the queue  *)
(* at most, and the pity counter is the failures since the last upgrade     *)
(* (CraftService.start, skip, claim, rollCraftGrade).                       *)
THEOREM PlayEveryCraftAddsUp == Play => []EveryCraftAddsUp
  <1>1. (live = "goods" => GoodsSafe) => EveryCraftAddsUp
    BY GoodsMeans DEF EveryCraftAddsUp
  <1> QED BY <1>1, PlayGoodsSafe, PTL

(* Challenges wait for each other in a circle only while one of them joins  *)
(* the season or two of them are of one player; requests on quests only if  *)
(* a tick discovers a species; friends only if three of them give in a ring *)
(* (lockRatings and ensureRating, saveEvents, FriendService.gift).          *)
THEOREM PlayCirclesOnlyWhileJoining == Play => []CirclesOnlyWhileJoining
  <1>1. /\ live = "pvp" => LadderSafe
        /\ live = "friends" => FriendSafe /\ FriendOwners /\ FriendBound
        /\ live = "quests" => QuestSafe /\ QuestHolds
        => CirclesOnlyWhileJoining
    <2>1. LadderSafe => Ladder!CirclesOnlyWhileJoining
      BY LadderHasNoRings DEF LadderSafe
    <2>2. FriendSafe /\ FriendOwners /\ FriendBound => Friends!CirclesOnlyInRings
      BY FriendHasRings DEF FriendSafe
    <2>3. QuestSafe /\ QuestHolds => Quests!CirclesOnlyWhenDiscovering
      BY QuestHasNoRings DEF QuestSafe
    <2> QED BY <2>1, <2>2, <2>3 DEF CirclesOnlyWhileJoining
  <1> QED BY <1>1, PlayLadderSafe, PlayFriendOwners, PlayQuestHolds, PTL
=============================================================================
