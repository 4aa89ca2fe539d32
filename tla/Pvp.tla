-------------------------------- MODULE Pvp --------------------------------
(* The arena's ladder under concurrent fights, defenses and season claims  *)
(* (src/src/modules/monster/arena/pvp.service.ts, pvp-queries.ts, elo.ts,  *)
(* pvp-matchmaking.ts, pvp-season.ts).                                     *)
(*                                                                         *)
(* Every request is one READ COMMITTED transaction that takes its locks    *)
(* one after the other (RowsOf) and commits when it has them all.  Rows a   *)
(* request has inserted but not committed are `fresh`: nobody sees them,   *)
(* but who inserts the same key waits.  Who wins a fight is not decided    *)
(* here, and all monsters are of one form.                                 *)
EXTENDS Integers, Sequences, FiniteSets

CONSTANTS
    Users,         \* numbers, because lockRatings sorts them
    Npcs,          \* the rating of each NPC
    Requests, Plans,
    OpeningRatings, OpeningDefended,
    DAY, SEASON,   \* in ticks of the clock
    MAX_CLOCK,     \* a bound
    PVP_DAILY_ATTEMPTS, PVP_MAX_FIGHTS_PER_OPPONENT_PER_DAY, PVP_RATING_WINDOW,
    PVP_DEFENSE_COOLDOWN, PVP_SEASON_MIN_FIGHTS,
    SeasonTiers,         \* PVP_SEASON_REWARDS: the best ranks, from the first tier on
    NoRequest, Never

VARIABLES
    plan,
    pc, step,      \* where each request is, and the locks it has
    now, began,    \* what it captured as `now`; when its transaction began
    fresh, seen,   \* the rows it has inserted; the rows it has locked, as it read them
    rank,          \* claimSeason: what it found
    holder,        \* who holds each lock
    ratings,       \* the table pvp_ratings: [rating, wins, losses, claimed] by <<user, season>>
    battles,       \* the table pvp_battles
    defended,      \* setAt of each pvp_defenses row
    paid,          \* season rewards paid to each user
    clock

requestVars == <<plan, pc, step, now, began, fresh, seen, rank>>
tables == <<ratings, battles, defended, paid>>
vars == <<requestVars, holder, tables, clock>>

START_RATING == 1000
MIN_RATING == 0

(* A challenger who beats somebody rated d below wins round(32 (1 - E(d))) *)
(* points, with E(d) = 1 / (1 + 10^(-d/400)): at least k just when d is at *)
(* most the k-th threshold.  A defender moves by K = 16.                   *)
ATTACKER_POINTS == <<719, 523, 428, 364, 314, 273, 237, 205, 176, 149, 124, 100, 77, 54, 32, 10,
    -11, -33, -55, -78, -101, -125, -150, -177, -206, -238, -274, -315, -365, -429, -524, -720>>
DEFENDER_POINTS == <<596, 394, 292, 221, 162, 112, 65, 21,
    -22, -66, -113, -163, -222, -293, -395, -597>>

Surprise(points, d) == Cardinality({k \in DOMAIN points : d <= points[k]})
NotBelowMin(n) == IF n < MIN_RATING THEN MIN_RATING ELSE n

(* calcElo *)
Elo(attacker, defender, won) ==
    LET d == attacker - defender IN
    IF won THEN [attacker |-> attacker + Surprise(ATTACKER_POINTS, d),
                 defender |-> NotBelowMin(defender - Surprise(DEFENDER_POINTS, d))]
           ELSE [attacker |-> NotBelowMin(attacker - Surprise(ATTACKER_POINTS, -d)),
                 defender |-> defender + Surprise(DEFENDER_POINTS, -d)]

(* Half of last season's distance from the start, rounded half up. *)
SoftReset(rating) == (START_RATING + rating + 1) \div 2

DayOf(t) == t \div DAY
SeasonOf(t) == t \div SEASON
Keys == Users \X Nat

Row == [rating : Nat, wins : Nat, losses : Nat, claimed : BOOLEAN]
PlannedRequest == [kind : {"battle", "defend", "claim"}, user : Users, rival : Users \cup DOMAIN Npcs,
                   discovers : BOOLEAN, season : Nat]

PvpAssumption ==
    /\ Users \subseteq Nat /\ IsFiniteSet(Requests) /\ NoRequest \notin Requests
    /\ DAY \in Nat \ {0} /\ SEASON \in Nat \ {0}
    /\ PVP_DAILY_ATTEMPTS \in Nat /\ PVP_MAX_FIGHTS_PER_OPPONENT_PER_DAY \in Nat
    /\ \A p \in Plans : DOMAIN p \subseteq Requests /\ \A r \in DOMAIN p : p[r] \in PlannedRequest
    /\ \A n \in DOMAIN Npcs : Npcs[n] \in Nat
    /\ DOMAIN OpeningRatings \subseteq Keys /\ \A k \in DOMAIN OpeningRatings : OpeningRatings[k] \in Row

Ended == {"committed", "rolledBack"}

Kind(r) == plan[r].kind
User(r) == plan[r].user
Rival(r) == plan[r].rival
IsReal(r) == Rival(r) \in Users
Season(r) == IF Kind(r) = "claim" THEN plan[r].season ELSE SeasonOf(now[r])
Mine(r) == <<User(r), Season(r)>>
Theirs(r) == <<Rival(r), Season(r)>>
IsOpen(r) == pc[r] = "open"

---------------------------------------------------------------------------
(* Locks                                                                   *)

Monster(u) == <<"monster", u>>
Wallet(u) == <<"wallet", u>>
Insert(k) == <<"insert", k>>
Rating(k) == <<"rating", k>>

(* A bug: the challenger's row first, whoever that is. *)
InChallengeOrder(r) == <<Rating(Mine(r)), Rating(Theirs(r))>>

(* lockRatings, in user-id order *)
InIdOrder(r) ==
    IF User(r) < Rival(r) THEN <<Rating(Mine(r)), Rating(Theirs(r))>>
                          ELSE <<Rating(Theirs(r)), Rating(Mine(r))>>

(* The locks of each handler, in its order.  A tick that discovers a       *)
(* species pays a gem, and keeps the wallet from then on.                  *)
RowsOf(r) ==
    LET ticked == IF plan[r].discovers THEN <<Monster(User(r)), Wallet(User(r))>>
                                       ELSE <<Monster(User(r))>>
    IN CASE Kind(r) = "battle" /\ IsReal(r) ->
                ticked \o <<Insert(Mine(r)), Insert(Theirs(r))>> \o InIdOrder(r) \o <<Wallet(User(r))>>
         [] Kind(r) = "battle" /\ ~IsReal(r) ->
                ticked \o <<Insert(Mine(r)), Rating(Mine(r)), Wallet(User(r))>>
         [] Kind(r) = "defend" -> ticked \o <<Insert(Mine(r))>>
         [] Kind(r) = "claim" -> <<Rating(Mine(r)), Wallet(User(r))>>

Wanted(r) == RowsOf(r)[step[r] + 1]
HasAll(r) == step[r] = Len(RowsOf(r))

(* Who holds a lock that nobody has taken yet: nobody. *)
HolderOf(x) == IF x \in DOMAIN holder THEN holder[x] ELSE NoRequest

(* A bug: FOR UPDATE is forgotten. *)
FreeUnlocked(x, r) == TRUE

Free(x, r) == HolderOf(x) \in {NoRequest, r}

Blocked == {r \in DOMAIN plan : IsOpen(r) /\ ~HasAll(r) /\ ~Free(Wanted(r), r)}

Circles == {D \in SUBSET Blocked : D # {} /\ \A r \in D : HolderOf(Wanted(r)) \in D \ {r}}

Release(r) == holder' = [x \in {y \in DOMAIN holder : holder[y] # r} |-> holder[x]]

---------------------------------------------------------------------------
(* Queries                                                                 *)

Earlier(u, s) == {k \in DOMAIN ratings : k[1] = u /\ k[2] < s}

(* The soft reset of the latest earlier season's rating, as it is read now. *)
InitialRating(u, s) ==
    IF Earlier(u, s) = {} THEN START_RATING
    ELSE LET last == CHOOSE k \in Earlier(u, s) : \A j \in Earlier(u, s) : j[2] <= k[2]
         IN SoftReset(ratings[last].rating)

(* Of the table of battles, by the place of each *)
Fights(u, since) == {i \in DOMAIN battles : battles[i].attacker = u /\ battles[i].at >= since}
FightsWith(u, rival, since) == {i \in Fights(u, since) : battles[i].rival = rival}
DayStart(t) == DayOf(t) * DAY

(* rankIn: one more than those with enough fights and a better rating *)
RankIn(s, rating) ==
    1 + Cardinality({k \in DOMAIN ratings :
            /\ k[2] = s /\ ratings[k].rating > rating
            /\ ratings[k].wins + ratings[k].losses >= PVP_SEASON_MIN_FIGHTS})

(* getSeasonReward: the first tier that takes the rank in *)
Tier(n) == CHOOSE t \in 1..Len(SeasonTiers) + 1 :
              /\ t <= Len(SeasonTiers) => n <= SeasonTiers[t]
              /\ \A u \in 1..t - 1 : n > SeasonTiers[u]

---------------------------------------------------------------------------

TypeOK ==
    /\ plan \in Plans
    /\ pc \in [Requests -> {"idle", "begun", "open"} \cup Ended]
    /\ step \in [Requests -> Nat]
    /\ now \in [Requests -> 0..MAX_CLOCK] /\ began \in [Requests -> 0..MAX_CLOCK]
    /\ \A r \in Requests : \A rows \in {fresh[r], seen[r]} :
          DOMAIN rows \subseteq Keys /\ \A k \in DOMAIN rows : rows[k] \in Row
    /\ rank \in [Requests -> Nat]
    /\ \A x \in DOMAIN holder : IsOpen(holder[x])
    /\ DOMAIN ratings \subseteq Keys /\ \A k \in DOMAIN ratings : ratings[k] \in Row
    /\ defended \in [Users -> 0..MAX_CLOCK \cup {Never}]
    /\ \A u \in Users : \A i \in DOMAIN paid[u] : paid[u][i].tier \in 1..Len(SeasonTiers) + 1
    /\ clock \in 0..MAX_CLOCK

NoRows == [k \in {} |-> {}]

Init ==
    /\ plan \in Plans
    /\ pc = [r \in Requests |-> "idle"] /\ step = [r \in Requests |-> 0]
    /\ now = [r \in Requests |-> 0] /\ began = [r \in Requests |-> 0]
    /\ fresh = [r \in Requests |-> NoRows] /\ seen = [r \in Requests |-> NoRows]
    /\ rank = [r \in Requests |-> 0]
    /\ holder = NoRows
    /\ ratings = OpeningRatings /\ battles = <<>>
    /\ defended = OpeningDefended
    /\ paid = [u \in Users |-> <<>>]
    /\ clock = 0

Elapse ==
    /\ clock < MAX_CLOCK
    /\ clock' = clock + 1
    /\ UNCHANGED <<requestVars, holder, tables>>

Goes(r, where) == pc' = [pc EXCEPT ![r] = where]

(* `now` is captured before the transaction; a season's reward is claimed  *)
(* when the season is over.                                                *)
Begin(r) ==
    /\ pc[r] = "idle"
    /\ now' = [now EXCEPT ![r] = clock]
    /\ Goes(r, IF Kind(r) = "claim" /\ plan[r].season >= SeasonOf(clock) THEN "rolledBack" ELSE "begun")
    /\ UNCHANGED <<plan, step, began, fresh, seen, rank, holder, tables, clock>>

Open(r) ==
    /\ pc[r] = "begun"
    /\ began' = [began EXCEPT ![r] = clock]
    /\ Goes(r, "open")
    /\ UNCHANGED <<plan, step, now, fresh, seen, rank, holder, tables, clock>>

Undo(r) ==
    /\ Goes(r, "rolledBack")
    /\ Release(r)
    /\ fresh' = [fresh EXCEPT ![r] = NoRows] /\ seen' = [seen EXCEPT ![r] = NoRows]
    /\ UNCHANGED <<plan, step, now, began, rank, tables, clock>>

(* The rules that a handler checks when it has the i-th of its locks.      *)
MayFight(r) ==
    /\ defended[User(r)] # Never
    /\ Cardinality(Fights(User(r), DayStart(now[r]))) < PVP_DAILY_ATTEMPTS
    /\ IsReal(r) => defended[Rival(r)] # Never /\ Rival(r) # User(r)

MayDefend(r) ==
    LET last == defended[User(r)] IN
    last # Never => now[r] - last >= PVP_DEFENSE_COOLDOWN

(* isEligibleOpponent *)
IsEligible(r) ==
    IsReal(r) =>
        LET d == seen[r][Theirs(r)].rating - seen[r][Mine(r)].rating IN
        /\ d <= PVP_RATING_WINDOW /\ -d <= PVP_RATING_WINDOW
        /\ Cardinality(FightsWith(User(r), Rival(r), DayStart(now[r]))) < PVP_MAX_FIGHTS_PER_OPPONENT_PER_DAY

HasTicked(r) == RowsOf(r)[step[r]][1] \in {"monster", "wallet"} /\ Wanted(r)[1] = "insert"

IsRefused(r) ==
    \/ Kind(r) \in {"battle", "defend"} /\ step[r] > 0 /\ ~HasAll(r)
       /\ HasTicked(r) /\ ~(IF Kind(r) = "battle" THEN MayFight(r) ELSE MayDefend(r))
    \/ Kind(r) = "battle" /\ step[r] + 1 = Len(RowsOf(r)) /\ ~IsEligible(r)
    \/ Kind(r) = "claim" /\ step[r] = 0 /\ Mine(r) \notin DOMAIN ratings
    \/ /\ Kind(r) = "claim" /\ step[r] = 1
       /\ LET row == seen[r][Mine(r)] IN
          row.claimed \/ row.wins + row.losses < PVP_SEASON_MIN_FIGHTS

(* ensureRating: whoever inserts a key first makes the others wait until   *)
(* it is known whether the row is there.                                   *)
Join(r, k) ==
    IF k \in DOMAIN ratings
    THEN UNCHANGED <<holder, fresh>>
    ELSE /\ holder' = [x \in DOMAIN holder \cup {Insert(k)} |-> IF x = Insert(k) THEN r ELSE holder[x]]
         /\ fresh' = [fresh EXCEPT ![r] = [j \in DOMAIN @ \cup {k} |->
                         IF j = k THEN [rating |-> InitialRating(k[1], k[2]), wins |-> 0, losses |-> 0,
                                        claimed |-> FALSE] ELSE @[j]]]

RowSeen(r, k) == IF k \in DOMAIN fresh[r] THEN fresh[r][k] ELSE ratings[k]

TakeNext(r) ==
    /\ IsOpen(r) /\ ~HasAll(r) /\ ~IsRefused(r)
    /\ Free(Wanted(r), r)
    /\ LET x == Wanted(r)
           isRow == x[1] = "rating"
       IN /\ IF x[1] = "insert" THEN Join(r, x[2])
             ELSE /\ holder' = [y \in DOMAIN holder \cup {x} |-> IF y = x THEN r ELSE holder[y]]
                  /\ UNCHANGED fresh
          /\ seen' = IF isRow THEN [seen EXCEPT ![r] = [k \in DOMAIN @ \cup {x[2]} |->
                                        IF k = x[2] THEN RowSeen(r, k) ELSE @[k]]]
                     ELSE seen
          /\ rank' = IF isRow /\ Kind(r) = "claim"
                     THEN [rank EXCEPT ![r] = RankIn(Season(r), RowSeen(r, x[2]).rating)] ELSE rank
    /\ step' = [step EXCEPT ![r] = @ + 1]
    /\ UNCHANGED <<plan, pc, now, began, tables, clock>>

---------------------------------------------------------------------------
(* What the handlers commit                                                *)

Scored(row, rating, won) ==
    [row EXCEPT !.rating = rating, !.wins = @ + (IF won THEN 1 ELSE 0),
                !.losses = @ + (IF won THEN 0 ELSE 1)]

Ends(r) ==
    /\ Goes(r, "committed")
    /\ Release(r)
    /\ fresh' = [fresh EXCEPT ![r] = NoRows] /\ seen' = [seen EXCEPT ![r] = NoRows]
    /\ UNCHANGED <<plan, step, now, began, rank, clock>>

With(rows) == [k \in DOMAIN ratings \cup DOMAIN rows |-> IF k \in DOMAIN rows THEN rows[k] ELSE ratings[k]]

Battle(r) ==
    /\ Kind(r) = "battle" /\ IsOpen(r) /\ HasAll(r)
    /\ \E won \in BOOLEAN :
        LET me == seen[r][Mine(r)]
            rivalRating == IF IsReal(r) THEN seen[r][Theirs(r)].rating ELSE Npcs[Rival(r)]
            elo == Elo(me.rating, rivalRating, won)
        IN /\ ratings' = With([k \in DOMAIN seen[r] |->
                  IF k = Mine(r) THEN Scored(me, elo.attacker, won)
                  ELSE Scored(seen[r][k], elo.defender, ~won)])
           /\ battles' = Append(battles,
                  [attacker |-> User(r), rival |-> Rival(r), season |-> Season(r), won |-> won,
                   at |-> began[r], attackerBefore |-> me.rating, attackerAfter |-> elo.attacker,
                   rivalBefore |-> rivalRating, rivalAfter |-> elo.defender])
    /\ Ends(r)
    /\ UNCHANGED <<defended, paid>>

Defend(r) ==
    /\ Kind(r) = "defend" /\ IsOpen(r) /\ HasAll(r)
    /\ defended' = [defended EXCEPT ![User(r)] = now[r]]
    /\ ratings' = With(fresh[r])
    /\ Ends(r)
    /\ UNCHANGED <<battles, paid>>

ClaimSeason(r) ==
    /\ Kind(r) = "claim" /\ IsOpen(r) /\ HasAll(r)
    /\ ~ratings[Mine(r)].claimed
    /\ ratings' = With([k \in {Mine(r)} |-> [ratings[k] EXCEPT !.claimed = TRUE]])
    /\ paid' = [paid EXCEPT ![User(r)] = Append(@, [season |-> Season(r), rank |-> rank[r], tier |-> Tier(rank[r])])]
    /\ Ends(r)
    /\ UNCHANGED <<battles, defended>>

Refuse(r) ==
    /\ IsOpen(r)
    /\ IF ~HasAll(r) THEN IsRefused(r)
       ELSE Kind(r) = "claim" /\ ratings[Mine(r)].claimed
    /\ Undo(r)

(* A rule refuses the monster, or the process dies. *)
Fail(r) == IsOpen(r) /\ Undo(r)

(* The database breaks a circular wait by failing one of its requests.     *)
DeadlockVictim(r) == r \in UNION Circles /\ Undo(r)

Step(r) ==
    \/ Begin(r) \/ Open(r) \/ TakeNext(r)
    \/ Battle(r) \/ Defend(r) \/ ClaimSeason(r)
    \/ Refuse(r) \/ DeadlockVictim(r)

Next == Elapse \/ \E r \in DOMAIN plan : Step(r) \/ Fail(r)

Spec == Init /\ [][Next]_vars

Fairness == \A r \in Requests : WF_vars(r \in DOMAIN plan /\ Step(r))

FairSpec == Spec /\ Fairness

---------------------------------------------------------------------------

Before(b, u) == IF b.attacker = u THEN b.attackerBefore ELSE b.rivalBefore
After(b, u) == IF b.attacker = u THEN b.attackerAfter ELSE b.rivalAfter
Won(b, u) == IF b.attacker = u THEN b.won ELSE ~b.won
Played(k) == {i \in DOMAIN battles : battles[i].season = k[2] /\ k[1] \in {battles[i].attacker, battles[i].rival}}
Wins(k) == {i \in Played(k) : Won(battles[i], k[1])}
OpeningRow(k) ==
    IF k \in DOMAIN OpeningRatings THEN OpeningRatings[k]
    ELSE [rating |-> ratings[k].rating, wins |-> 0, losses |-> 0, claimed |-> FALSE]

(* A ladder row is what its fights made of it, however many challenges ran  *)
(* at once: each fight of a player, as challenger or as the one challenged, *)
(* starts from the rating the one before ended with ("two players           *)
(* challenging each other at once take the same locks", pvp-queries.ts:60). *)
RatingsFollowTheFights ==
    \A k \in DOMAIN ratings :
        /\ ratings[k].wins - OpeningRow(k).wins = Cardinality(Wins(k))
        /\ ratings[k].losses - OpeningRow(k).losses = Cardinality(Played(k) \ Wins(k))
        /\ \A j \in Played(k) :
              LET earlier == {i \in Played(k) : i < j}
                  rating == Before(battles[j], k[1])
              IN /\ earlier = {} /\ k \in DOMAIN OpeningRatings => rating = OpeningRow(k).rating
                 /\ \A i \in earlier : (\A n \in earlier : n <= i) => rating = After(battles[i], k[1])
        /\ \A i \in Played(k) : (\A n \in Played(k) : n <= i) => ratings[k].rating = After(battles[i], k[1])

(* "the daily limit below can't be overspent by parallel calls"             *)
(* (pvp.service.ts:195-196), nor around midnight, and no pairing is fought   *)
(* more often in a day than allowed.                                        *)
FightsWithinLimits ==
    \A u \in Users, day \in 0..DayOf(MAX_CLOCK) :
        LET today == {i \in Fights(u, day * DAY) : DayOf(battles[i].at) = day} IN
        /\ Cardinality(today) <= PVP_DAILY_ATTEMPTS
        /\ \A v \in Users : Cardinality({i \in today : battles[i].rival = v})
                                <= PVP_MAX_FIGHTS_PER_OPPONENT_PER_DAY

(* Requests wait for each other in a circle only while somebody joins the   *)
(* season (ensureRating inserts the two rows in the order of the challenge),*)
(* or when two requests of one player do: once all are on the ladder, "they *)
(* wait for each other instead of deadlocking" (pvp-queries.ts:61).         *)
CirclesOnlyWhileJoining ==
    \A D \in Circles :
        \/ \E r \in D : Wanted(r)[1] = "insert"
        \/ \E r, s \in D : r # s /\ User(r) = User(s)

=============================================================================
