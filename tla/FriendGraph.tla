---------------------------- MODULE FriendGraph ----------------------------
(***************************************************************************)
(* Friendships, greetings and gifts:                                       *)
(* src/src/modules/monster/social/friend.service.ts.                       *)
(*                                                                         *)
(* A friendship is one row per pair of players; a partial unique index     *)
(* allows one row of a pair that is not deleted.  Every request is a READ  *)
(* COMMITTED transaction of several statements, between which the other    *)
(* requests run; what it writes is visible once it commits.  Limits are    *)
(* counted from rows that nobody has locked, except that a greeting holds  *)
(* its friendship row and a gift also its sender's advisory lock.          *)
(***************************************************************************)
EXTENDS Integers, FiniteSets, Functions

CONSTANTS
    Users, Relations,    \* players; ids of friendship rows
    Requests, Plans,     \* the requests that may come together, and what each asks for
    Founded,             \* the friendships there are at the start: row -> pair
    Items,               \* how many of the item each player starts with
    FRIEND_LIMIT, FRIEND_REQUEST_LIMIT, GREETS_PER_DAY_PER_FRIEND, GIFTS_PER_DAY,
    FRIEND_POINTS_GREET, FRIEND_POINTS_GIFT, FRIEND_POINTS_RENTAL,
    MAX_DAY,             \* the days of one behaviour
    NoUser, NoRelation, NoRequest

Kinds == {"request", "accept", "decline", "remove", "greet", "gift", "rent"}

FriendAssumption ==
    /\ \A p \in Plans :
          /\ DOMAIN p \subseteq Requests
          /\ \A r \in DOMAIN p :
                /\ p[r] \in [kind : Kinds, user : Users, friend : Users]
                /\ p[r].user # p[r].friend
    /\ DOMAIN Founded \subseteq Relations
    /\ \A i \in DOMAIN Founded : Founded[i] \subseteq Users /\ Cardinality(Founded[i]) = 2
    /\ \A i, j \in DOMAIN Founded : Founded[i] = Founded[j] => i = j
    /\ IsFiniteSet(Requests)
    /\ Items \in [Users -> Nat]
    /\ GREETS_PER_DAY_PER_FRIEND \in Nat /\ GIFTS_PER_DAY \in Nat /\ MAX_DAY \in Nat \ {0}
    /\ NoUser \notin Users /\ NoRelation \notin Relations /\ NoRequest \notin Requests
    /\ {FRIEND_POINTS_GREET, FRIEND_POINTS_GIFT, FRIEND_POINTS_RENTAL} \subseteq Nat

VARIABLES
    plan,     \* the plan of this behaviour
    pc,       \* where each request is
    attempt,  \* of request(): the round of its loop
    now,      \* the day it captured before its transaction began
    began,    \* the day its transaction began, the created_at of its rows
    target,   \* the friendship row it works on
    seen,     \* the points it read under the row's lock
    holder,   \* who holds each lock
    rel,      \* the committed friendship rows
    bag,      \* the committed number of items of each player
    log,      \* the committed rows of friend_interactions and rentals
    day

requestVars == <<plan, pc, attempt, now, began, target, seen>>
vars == <<requestVars, holder, rel, bag, log, day>>

Kind(r) == plan[r].kind
User(r) == plan[r].user
Friend(r) == plan[r].friend
Pair(r) == {User(r), Friend(r)}

Row(i) == <<"row", i>>
Sender(u) == <<"sender", u>>
Bag(u) == <<"bag", u>>
Resources ==
    {Row(i) : i \in Relations} \cup {Sender(u) : u \in Users} \cup {Bag(u) : u \in Users}

Relation == [pair : SUBSET Users, by : Users \cup {NoUser}, accepted : BOOLEAN,
             points : Nat, deleted : BOOLEAN]

Unborn == [pair |-> {}, by |-> NoUser, accepted |-> FALSE, points |-> 0, deleted |-> FALSE]

Days == 1..MAX_DAY

(* A row's id is that of the request that adds it, which adds no other.    *)
Interaction == [id : Requests, row : Relations, actor : Users, kind : Kinds, day : Days]

Ended == {"committed", "rolledBack"}

TypeOK ==
    /\ plan \in Plans
    /\ pc \in [Requests -> {"idle", "begun", "meeting", "met", "asking", "welcome", "inserting",
                            "holding", "counted", "spent"} \cup Ended]
    /\ attempt \in [Requests -> 1..2]
    /\ now \in [Requests -> Days]
    /\ began \in [Requests -> Days]
    /\ target \in [Requests -> Relations \cup {NoRelation}]
    /\ seen \in [Requests -> Nat]
    /\ holder \in [Resources -> Requests \cup {NoRequest}]
    /\ rel \in [Relations -> Relation]
    /\ bag \in [Users -> Int]
    /\ log \subseteq Interaction
    /\ day \in Days

IsLive(i) == rel[i].pair # {} /\ ~rel[i].deleted
IsFriendship(i) == IsLive(i) /\ rel[i].accepted
IsPending(i) == IsLive(i) /\ ~rel[i].accepted

RowsOf(u) == {i \in Relations : IsLive(i) /\ u \in rel[i].pair}
Between(pair) == {i \in Relations : IsLive(i) /\ rel[i].pair = pair}

---------------------------------------------------------------------------

Init ==
    /\ plan \in Plans
    /\ pc = [r \in Requests |-> "idle"]
    /\ attempt = [r \in Requests |-> 1]
    /\ now = [r \in Requests |-> 1]
    /\ began = [r \in Requests |-> 1]
    /\ target = [r \in Requests |-> NoRelation]
    /\ seen = [r \in Requests |-> 0]
    /\ holder = [x \in Resources |-> NoRequest]
    /\ rel = [i \in Relations |->
                IF i \in DOMAIN Founded
                THEN [Unborn EXCEPT !.pair = Founded[i], !.accepted = TRUE,
                                    !.by = CHOOSE u \in Founded[i] : TRUE]
                ELSE Unborn]
    /\ bag = Items
    /\ log = {}
    /\ day = 1

NextDay ==
    /\ day < MAX_DAY
    /\ day' = day + 1
    /\ UNCHANGED <<requestVars, holder, rel, bag, log>>

Goes(r, where) == pc' = [pc EXCEPT ![r] = where]

(* A bug this module is checked against: nothing is locked. *)
FreeUnlocked(x, r) == TRUE

Free(x, r) == holder[x] \in {NoRequest, r}

Take(x, r) == Free(x, r) /\ holder' = [holder EXCEPT ![x] = r]

Release(r) ==
    holder' = [x \in Resources |-> IF holder[x] = r THEN NoRequest ELSE holder[x]]

End(r) ==
    /\ Goes(r, "committed")
    /\ Release(r)
    /\ UNCHANGED <<plan, attempt, now, began, target, seen, day>>

Moves(r, where) ==
    /\ Goes(r, where)
    /\ UNCHANGED <<plan, attempt, now, began, target, seen, holder, rel, bag, log, day>>

(* The requests that leave a dated row; `now` may have been captured just   *)
(* before midnight.                                                        *)
IsDated(r) == Kind(r) \in {"greet", "gift", "rent"}

(* A request that names a row got it from an earlier list(): any row of    *)
(* the pair, also one that has been deleted since.                         *)
Begin(r) ==
    /\ pc[r] = "idle"
    /\ Goes(r, "begun")
    /\ IF IsDated(r)
       THEN /\ began' = [began EXCEPT ![r] = day]
            /\ \E d \in {day, day - 1} \cap Days : now' = [now EXCEPT ![r] = d]
       ELSE UNCHANGED <<began, now>>
    /\ \E i \in IF Kind(r) \in {"request", "rent"} THEN {NoRelation}
                ELSE {j \in Relations : rel[j].pair = Pair(r)} :
          target' = [target EXCEPT ![r] = i]
    /\ UNCHANGED <<plan, attempt, seen, holder, rel, bag, log, day>>

---------------------------------------------------------------------------
(* request()                                                               *)

(* Friends, plus the requests the player has sent that are still waiting. *)
FriendSlots(u) == Cardinality({i \in RowsOf(u) : rel[i].accepted \/ rel[i].by = u})

PendingOf(u) == Cardinality({i \in RowsOf(u) : ~rel[i].accepted})

(* The row of the pair, if the other player has asked. *)
Look(r) ==
    /\ Kind(r) = "request"
    /\ pc[r] = "begun"
    /\ \/ /\ Between(Pair(r)) = {}
          /\ Moves(r, "asking")
       \/ \E i \in Between(Pair(r)) :
             /\ IsPending(i) /\ rel[i].by # User(r)
             /\ target' = [target EXCEPT ![r] = i]
             /\ Goes(r, "meeting")
             /\ UNCHANGED <<plan, attempt, now, began, seen, holder, rel, bag, log, day>>

HasSlot(r) == FriendSlots(User(r)) < FRIEND_LIMIT

CountSlots(r) ==
    /\ HasSlot(r)
    /\ \/ pc[r] = "meeting" /\ Moves(r, "met")
       \/ pc[r] = "asking" /\ Moves(r, "welcome")

CountWaiting(r) ==
    /\ pc[r] = "welcome"
    /\ PendingOf(Friend(r)) < FRIEND_REQUEST_LIMIT
    /\ Moves(r, "inserting")

(* A bug: the row is written back as it was read, not deleted. *)
MeetAsRead(r) ==
    /\ Kind(r) = "request"
    /\ pc[r] = "met"
    /\ Free(Row(target[r]), r)
    /\ rel' = [rel EXCEPT ![target[r]].accepted = TRUE, ![target[r]].deleted = FALSE]
    /\ End(r)
    /\ UNCHANGED <<bag, log>>

(* Accepting by asking back: the row is updated by its id, without having  *)
(* been locked; it may have been deleted meanwhile and then stays so.      *)
Meet(r) ==
    /\ Kind(r) = "request"
    /\ pc[r] = "met"
    /\ Free(Row(target[r]), r)
    /\ rel' = [rel EXCEPT ![target[r]].accepted = TRUE]
    /\ End(r)
    /\ UNCHANGED <<bag, log>>

(* Ids no row has had yet. *)
Unused == {i \in Relations : rel[i] = Unborn}

(* The insert and the commit; the unique index refuses a second row. *)
Insert(r) ==
    /\ pc[r] = "inserting"
    /\ Between(Pair(r)) = {}
    /\ Unused # {}
    /\ LET i == CHOOSE i \in Unused : TRUE IN
       rel' = [rel EXCEPT ![i].pair = Pair(r), ![i].by = User(r)]
    /\ End(r)
    /\ UNCHANGED <<bag, log>>

(* A bug: a loop without an end. *)
LoseRaceForever(r) ==
    /\ pc[r] = "inserting"
    /\ Between(Pair(r)) # {}
    /\ attempt' = [attempt EXCEPT ![r] = @ + 1]
    /\ Goes(r, "begun")
    /\ UNCHANGED <<plan, now, began, target, seen, holder, day, rel, bag, log>>

(* Lost a race with the other side's request: look again and meet it. *)
LoseRace(r) ==
    /\ pc[r] = "inserting"
    /\ Between(Pair(r)) # {}
    /\ IF attempt[r] = 1
       THEN /\ attempt' = [attempt EXCEPT ![r] = 2]
            /\ Goes(r, "begun")
            /\ UNCHANGED <<plan, now, began, target, seen, holder, day>>
       ELSE End(r)
    /\ UNCHANGED <<rel, bag, log>>

---------------------------------------------------------------------------
(* respond() and remove()                                                  *)

(* A bug: the player's own request found as one to answer. *)
CanAnswerAny(r) == IsPending(target[r])

CanAnswer(r) == IsPending(target[r]) /\ rel[target[r]].by # User(r)

(* A row lock reads the row's latest version and tests it again. *)
LockPending(r) ==
    /\ Kind(r) \in {"accept", "decline"}
    /\ pc[r] = "begun"
    /\ CanAnswer(r)
    /\ Take(Row(target[r]), r)
    /\ Goes(r, "holding")
    /\ UNCHANGED <<plan, attempt, now, began, target, seen, rel, bag, log, day>>

FriendCount(u) == Cardinality({i \in RowsOf(u) : rel[i].accepted})

CountFriends(r) ==
    /\ Kind(r) = "accept"
    /\ pc[r] = "holding"
    /\ FriendCount(User(r)) < FRIEND_LIMIT
    /\ Moves(r, "counted")

Accept(r) ==
    /\ Kind(r) = "accept"
    /\ pc[r] = "counted"
    /\ rel' = [rel EXCEPT ![target[r]].accepted = TRUE]
    /\ End(r)
    /\ UNCHANGED <<bag, log>>

Decline(r) ==
    /\ Kind(r) = "decline"
    /\ pc[r] = "holding"
    /\ rel' = [rel EXCEPT ![target[r]].deleted = TRUE]
    /\ End(r)
    /\ UNCHANGED <<bag, log>>

FindToRemove(r) ==
    /\ Kind(r) = "remove"
    /\ pc[r] = "begun"
    /\ IsLive(target[r])
    /\ Moves(r, "met")

(* Whatever has become of the row meanwhile. *)
Remove(r) ==
    /\ Kind(r) = "remove"
    /\ pc[r] = "met"
    /\ Free(Row(target[r]), r)
    /\ rel' = [rel EXCEPT ![target[r]].deleted = TRUE]
    /\ End(r)
    /\ UNCHANGED <<bag, log>>

---------------------------------------------------------------------------
(* greet() and gift(), and the points of a rental (world-boss.service.ts)  *)

LockSender(r) ==
    /\ Kind(r) = "gift"
    /\ pc[r] = "begun"
    /\ holder[Sender(User(r))] # r
    /\ Take(Sender(User(r)), r)
    /\ UNCHANGED <<requestVars, rel, bag, log, day>>

IsReadyToLock(r) == Kind(r) = "greet" \/ (Kind(r) = "gift" /\ holder[Sender(User(r))] = r)

(* findAccepted(..., lock) *)
LockFriendship(r) ==
    /\ IsReadyToLock(r)
    /\ pc[r] = "begun"
    /\ IsFriendship(target[r])
    /\ Take(Row(target[r]), r)
    /\ seen' = [seen EXCEPT ![r] = rel[target[r]].points]
    /\ Goes(r, "holding")
    /\ UNCHANGED <<plan, attempt, now, began, target, rel, bag, log, day>>

Logged(r) ==
    [id |-> r, row |-> target[r], actor |-> User(r), kind |-> Kind(r), day |-> began[r]]

(* What r has done of its kind since the start of the day it captured. *)
Today(r) == {e \in log : e.kind = Kind(r) /\ e.actor = User(r) /\ e.day >= now[r]}

GreetedToday(r) == Cardinality({e \in Today(r) : e.row = target[r]})

GiftsToday(r) == Cardinality(Today(r))

CountGreets(r) ==
    /\ Kind(r) = "greet"
    /\ pc[r] = "holding"
    /\ GreetedToday(r) < GREETS_PER_DAY_PER_FRIEND
    /\ Moves(r, "counted")

Greet(r) ==
    /\ Kind(r) = "greet"
    /\ pc[r] = "counted"
    /\ log' = log \cup {Logged(r)}
    /\ rel' = [rel EXCEPT ![target[r]].points = seen[r] + FRIEND_POINTS_GREET]
    /\ End(r)
    /\ UNCHANGED bag

CountGifts(r) ==
    /\ Kind(r) = "gift"
    /\ pc[r] = "holding"
    /\ GiftsToday(r) < GIFTS_PER_DAY
    /\ Moves(r, "counted")

(* spend(): one conditional UPDATE. *)
Spend(r) ==
    /\ Kind(r) = "gift"
    /\ pc[r] = "counted"
    /\ bag[User(r)] >= 1
    /\ Take(Bag(User(r)), r)
    /\ Goes(r, "spent")
    /\ UNCHANGED <<plan, attempt, now, began, target, seen, rel, bag, log, day>>

(* addToBag, the log, the points and the commit. *)
Deliver(r) ==
    /\ pc[r] = "spent"
    /\ Free(Bag(Friend(r)), r)
    /\ bag' = [bag EXCEPT ![User(r)] = @ - 1, ![Friend(r)] = @ + 1]
    /\ log' = log \cup {Logged(r)}
    /\ rel' = [rel EXCEPT ![target[r]].points = seen[r] + FRIEND_POINTS_GIFT]
    /\ End(r)

FindFriend(r) ==
    /\ Kind(r) = "rent"
    /\ pc[r] = "begun"
    /\ \E i \in Between(Pair(r)) :
          /\ IsFriendship(i)
          /\ target' = [target EXCEPT ![r] = i]
    /\ Goes(r, "holding")
    /\ UNCHANGED <<plan, attempt, now, began, seen, holder, rel, bag, log, day>>

(* "points" = "points" + 3, whatever they are by then. *)
Rent(r) ==
    /\ Kind(r) = "rent"
    /\ pc[r] = "holding"
    /\ Free(Row(target[r]), r)
    /\ rel' = [rel EXCEPT ![target[r]].points = @ + FRIEND_POINTS_RENTAL]
    /\ log' = log \cup {Logged(r)}
    /\ End(r)
    /\ UNCHANGED bag

---------------------------------------------------------------------------

Undo(r) ==
    /\ Goes(r, "rolledBack")
    /\ Release(r)
    /\ UNCHANGED <<plan, attempt, now, began, target, seen, rel, bag, log, day>>

(* Already friends or asked, list full, too many pending, not found,       *)
(* greeted already, no gifts or items left.                                *)
Refuse(r) ==
    /\ \/ /\ pc[r] = "begun" /\ Kind(r) = "request"
          /\ \E i \in Between(Pair(r)) : IsFriendship(i) \/ rel[i].by = User(r)
       \/ pc[r] \in {"meeting", "asking"} /\ ~HasSlot(r)
       \/ pc[r] = "welcome" /\ PendingOf(Friend(r)) >= FRIEND_REQUEST_LIMIT
       \/ pc[r] = "begun" /\ Kind(r) \in {"accept", "decline"} /\ ~CanAnswer(r)
       \/ pc[r] = "begun" /\ Kind(r) = "remove" /\ ~IsLive(target[r])
       \/ pc[r] = "begun" /\ IsReadyToLock(r) /\ ~IsFriendship(target[r])
       \/ pc[r] = "begun" /\ Kind(r) = "rent" /\ ~\E i \in Between(Pair(r)) : IsFriendship(i)
       \/ pc[r] = "holding" /\ Kind(r) = "accept" /\ FriendCount(User(r)) >= FRIEND_LIMIT
       \/ pc[r] = "holding" /\ Kind(r) = "greet" /\ GreetedToday(r) >= GREETS_PER_DAY_PER_FRIEND
       \/ pc[r] = "holding" /\ Kind(r) = "gift" /\ GiftsToday(r) >= GIFTS_PER_DAY
       \/ pc[r] = "counted" /\ Kind(r) = "gift" /\ bag[User(r)] < 1
    /\ Undo(r)

(* The process or its connection dies. *)
Fail(r) == pc[r] \notin {"idle"} \cup Ended /\ Undo(r)

(* What r is waiting for. *)
Wanted(r) ==
    CASE pc[r] = "begun" /\ Kind(r) \in {"accept", "decline"} /\ CanAnswer(r) -> {Row(target[r])}
      [] pc[r] = "begun" /\ Kind(r) = "gift" /\ ~IsReadyToLock(r) -> {Sender(User(r))}
      [] pc[r] = "begun" /\ IsReadyToLock(r) /\ IsFriendship(target[r]) -> {Row(target[r])}
      [] pc[r] = "met" -> {Row(target[r])}
      [] pc[r] = "holding" /\ Kind(r) = "rent" -> {Row(target[r])}
      [] pc[r] = "counted" /\ Kind(r) = "gift" /\ bag[User(r)] >= 1 -> {Bag(User(r))}
      [] pc[r] = "spent" -> {Bag(Friend(r))}
      [] OTHER -> {}

Blocks(s, r) == s # r /\ \E x \in Wanted(r) : holder[x] = s

Waiting == {r \in DOMAIN plan : \E x \in Wanted(r) : ~Free(x, r)}

(* Sets of requests each of which waits for another one of the set. *)
Circles == {D \in SUBSET Waiting : \A r \in D : \E s \in D : Blocks(s, r)}

(* The database breaks a circular wait by failing one of its requests.     *)
DeadlockVictim(r) == r \in UNION Circles /\ Undo(r)

Step(r) ==
    \/ Begin(r)
    \/ Look(r) \/ CountSlots(r) \/ CountWaiting(r)
    \/ Meet(r)
    \/ Insert(r) \/ LoseRace(r)
    \/ LockPending(r) \/ CountFriends(r) \/ Accept(r) \/ Decline(r)
    \/ FindToRemove(r) \/ Remove(r)
    \/ LockSender(r) \/ LockFriendship(r)
    \/ CountGreets(r) \/ Greet(r) \/ CountGifts(r) \/ Spend(r) \/ Deliver(r)
    \/ FindFriend(r) \/ Rent(r)
    \/ Refuse(r)
    \/ DeadlockVictim(r)

Next == NextDay \/ \E r \in DOMAIN plan : Step(r) \/ Fail(r)

Spec == Init /\ [][Next]_vars

---------------------------------------------------------------------------

(* "both ask at the same time: one row, and they end up friends"           *)
(* (social.int-spec.ts:117), unless one of them has parted since.           *)
CrossingRequestsMeet ==
    \A r, s \in DOMAIN plan :
        /\ Kind(r) = "request" /\ Kind(s) = "request"
        /\ pc[r] = "committed" /\ pc[s] = "committed"
        /\ User(r) = Friend(s) /\ User(s) = Friend(r)
        => \E i \in Relations : rel[i].pair = Pair(r) /\ (rel[i].accepted \/ rel[i].deleted)

(* Nobody is made a friend without having asked or answered: a friendship  *)
(* that did not exist at the start was agreed to by the side that did not  *)
(* ask (friend.service.ts:184-192, 236-243).                               *)
BothAgreed ==
    \A i \in Relations \ DOMAIN Founded :
        rel[i].accepted =>
            \E r \in DOMAIN plan :
                /\ Kind(r) \in {"request", "accept"} /\ pc[r] = "committed"
                /\ target[r] = i
                /\ User(r) \in rel[i].pair \ {rel[i].by}

(* "allows one greeting a day per friend, even when sent in parallel"      *)
(* (social.int-spec.ts:177); "the daily limit" of gifts "spans every       *)
(* friend" (friend.service.ts:325).  Also around midnight, by the dates of *)
(* the rows.                                                               *)
WithinDailyLimits ==
    \A u \in Users, d \in Days :
        LET done(kind) == {e \in log : e.kind = kind /\ e.actor = u /\ e.day = d} IN
        /\ Cardinality(done("gift")) <= GIFTS_PER_DAY
        /\ \A i \in Relations :
              Cardinality({e \in done("greet") : e.row = i}) <= GREETS_PER_DAY_PER_FRIEND

(* "A gift is a consumable out of the sender's own bag, so it can't create *)
(* coins out of nothing" (friend.service.ts:321).                          *)
NoItemFromNothing ==
    LET given == {e \in log : e.kind = "gift"} IN
    \A u \in Users :
        /\ bag[u] >= 0
        /\ bag[u] = Items[u] - Cardinality({e \in given : e.actor = u})
             + Cardinality({e \in given : e.actor # u /\ u \in rel[e.row].pair})

PointsOf(kind) ==
    CASE kind = "greet" -> FRIEND_POINTS_GREET
      [] kind = "gift"  -> FRIEND_POINTS_GIFT
      [] OTHER          -> FRIEND_POINTS_RENTAL

(* The points that each request has brought to friendship i. *)
PointsOn(i) ==
    [r \in DOMAIN plan |-> IF \E e \in log : e.id = r /\ e.row = i THEN PointsOf(Kind(r)) ELSE 0]

(* The points a pair shares are those of every greeting, gift and rental:  *)
(* none is lost, although a greeting and a gift write back a sum and a     *)
(* rental adds to the row without having read it.                          *)
PointsAddUp == \A i \in Relations : rel[i].points = SumFunction(PointsOn(i))

(* A friendship that was ended or declined does not come back by a request *)
(* that saw it before; the pair has to start anew.                         *)
StaysParted == \A i \in Relations : rel[i].deleted => rel'[i].deleted
PartedForGood == [][StaysParted]_vars

(* Only friends who give in a ring of three or more wait for each other in  *)
(* a circle, each with its own bag row locked and waiting for the next      *)
(* (friend.service.ts:341): two who give to each other queue at their       *)
(* friendship first, and so do greetings, rentals, answers and partings.    *)
CirclesOnlyInRings ==
    \A D \in Circles \ {{}} : Cardinality({r \in D : Kind(r) = "gift" /\ pc[r] = "spent"}) >= 3
=============================================================================
