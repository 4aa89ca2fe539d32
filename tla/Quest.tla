------------------------------- MODULE Quest -------------------------------
(* The quests and the daily login reward of one player                     *)
(* (src/src/modules/monster/adventure/quest.service.ts, quest-data.ts).    *)
(*                                                                         *)
(* Any handler that works on the player's monsters counts towards a daily  *)
(* quest and the weekly quest fed by it, at the day on which it saves its  *)
(* events; a claim belongs to the day on which it was asked.  A request is *)
(* one READ COMMITTED transaction that takes the rows it needs one after   *)
(* the other (RowsOf); what it has written but not committed is `fresh`.    *)
EXTENDS Integers, Sequences, FiniteSets, FiniteSetsExt

CONSTANTS
    Weekly,        \* the weekly quest that counts the same activity, of each daily quest that has one
    Target,        \* of each quest
    LOGIN,         \* LOGIN_QUEST_ID
    LOOK_BACK,     \* days of login rows that are read
    DAYS_PER_WEEK,
    Requests, Plans, OpeningRows,
    FIRST_DAY, LAST_DAY,    \* LAST_DAY is a bound
    NoRequest

VARIABLES
    plan,
    pc, step,      \* where each request is, and the rows it has
    asked, saved,  \* the day captured as `now`, and the day on which its events are saved
    run,           \* claimLogin: the days in a row that it has counted
    fresh,         \* the quest rows it has written
    holder,        \* who holds each row
    rows,          \* the table daily_quest_progress: [progress, claimed] by <<quest, period>>
    day

requestVars == <<plan, pc, step, asked, saved, run, fresh>>
vars == <<requestVars, holder, rows, day>>

Daily == DOMAIN Target \ {Weekly[q] : q \in DOMAIN Weekly}
Days == FIRST_DAY..LAST_DAY
Row == [progress : Nat, claimed : BOOLEAN]
Kind(r) == plan[r].kind
Ended == {"committed", "rolledBack"}
IsOpen(r) == pc[r] \in {"open", "saving"}

(* getWeek; a week is numbered after its Monday, apart from the days.      *)
WeekOf(d) == <<"week", d \div DAYS_PER_WEEK>>

(* getQuestPeriod *)
Period(q, d) == IF q \in Daily \cup {LOGIN} THEN <<"day", d>> ELSE WeekOf(d)

Key(q, d) == <<q, Period(q, d)>>

QuestAssumption ==
    /\ IsFiniteSet(Requests) /\ NoRequest \notin Requests
    /\ LOOK_BACK \in Nat /\ FIRST_DAY \in Nat /\ LAST_DAY \in Nat /\ FIRST_DAY <= LAST_DAY
    /\ LOGIN \notin DOMAIN Target
    /\ \A q \in DOMAIN Target : Target[q] \in Nat
    /\ \A q \in DOMAIN Weekly : q \in DOMAIN Target /\ Weekly[q] \in DOMAIN Target
    /\ \A p \in Plans :
          /\ DOMAIN p \subseteq Requests
          /\ \A r \in DOMAIN p :
                \/ p[r].kind = "act" /\ p[r].quest \in Daily
                \/ p[r].kind = "claim" /\ p[r].quest \in DOMAIN Target
                \/ p[r].kind = "login" /\ p[r].quest = LOGIN
    /\ \A k \in DOMAIN OpeningRows :
          /\ k[1] \in DOMAIN Target \cup {LOGIN} /\ OpeningRows[k] \in Row
          /\ k[1] # LOGIN => OpeningRows[k].progress <= Target[k[1]]

---------------------------------------------------------------------------
(* Rows and their locks                                                    *)

Monsters == <<"monsters">>
Wallet == <<"wallet">>
QuestRow(k) == <<"quest", k>>

(* countQuestProgress of one event, in the order of the upserts *)
Moves(r) ==
    LET q == plan[r].quest
        first == QuestRow(Key(q, saved[r]))
    IN IF q \in DOMAIN Weekly THEN <<first, QuestRow(Key(Weekly[q], saved[r]))>> ELSE <<first>>

Asked(r) == Key(plan[r].quest, asked[r])

Claims(k) == <<QuestRow(k), Wallet>>

(* What each request locks, in its order.  A tick that discovers a species  *)
(* pays a gem before the request's own event is saved; a won battle pays     *)
(* coins after that.                                                        *)
RowsOf(r) ==
    CASE Kind(r) = "act" ->
            (IF plan[r].discovers THEN <<Monsters, Wallet>> ELSE <<Monsters>>)
            \o Moves(r) \o (IF plan[r].pays THEN <<Wallet>> ELSE <<>>)
      [] OTHER -> Claims(Asked(r))

Wanted(r) == RowsOf(r)[step[r] + 1]
HasAll(r) == step[r] = Len(RowsOf(r))
HolderOf(x) == IF x \in DOMAIN holder THEN holder[x] ELSE NoRequest

(* A bug: rows are read first and written later. *)
FreeUnlocked(x, r) == TRUE

Free(x, r) == HolderOf(x) \in {NoRequest, r}

(* The events' day is known once they are being saved. *)
IsReady(r) ==
    /\ IsOpen(r) /\ ~HasAll(r)
    /\ Kind(r) = "act" /\ Wanted(r)[1] = "quest" => pc[r] = "saving"

Blocked == {r \in DOMAIN plan : IsReady(r) /\ ~Free(Wanted(r), r)}

Circles == {D \in SUBSET Blocked : D # {} /\ \A r \in D : HolderOf(Wanted(r)) \in D \ {r}}

Release(r) == holder' = [x \in {y \in DOMAIN holder : holder[y] # r} |-> holder[x]]

---------------------------------------------------------------------------

Nothing == [k \in {} |-> {}]
Updated(f, g) == [k \in DOMAIN f \cup DOMAIN g |-> IF k \in DOMAIN g THEN g[k] ELSE f[k]]

TypeOK ==
    /\ plan \in Plans
    /\ pc \in [Requests -> {"idle", "read", "open", "saving"} \cup Ended]
    /\ step \in [Requests -> Nat]
    /\ asked \in [Requests -> Days] /\ saved \in [Requests -> Days]
    /\ run \in [Requests -> Nat]
    /\ \A r \in Requests : \A k \in DOMAIN fresh[r] : fresh[r][k] \in Row
    /\ \A x \in DOMAIN holder : IsOpen(holder[x])
    /\ \A k \in DOMAIN rows : rows[k] \in Row /\ (k[1] # LOGIN => rows[k].progress <= Target[k[1]])
    /\ day \in Days

Init ==
    /\ plan \in Plans
    /\ pc = [r \in Requests |-> "idle"] /\ step = [r \in Requests |-> 0]
    /\ asked = [r \in Requests |-> FIRST_DAY] /\ saved = asked
    /\ run = [r \in Requests |-> 0]
    /\ fresh = [r \in Requests |-> Nothing]
    /\ holder = Nothing
    /\ rows = OpeningRows
    /\ day = FIRST_DAY

Midnight ==
    /\ day < LAST_DAY
    /\ day' = day + 1
    /\ UNCHANGED <<requestVars, holder, rows>>

Goes(r, where) == pc' = [pc EXCEPT ![r] = where]

Begin(r) ==
    /\ pc[r] = "idle"
    /\ asked' = [asked EXCEPT ![r] = day]
    /\ Goes(r, IF Kind(r) = "login" THEN "read" ELSE "open")
    /\ UNCHANGED <<plan, step, saved, run, fresh, holder, rows, day>>

(* A bug: any login row of the look-back counts, with or without gaps. *)
RunWithGaps(d) == Cardinality({e \in d - LOOK_BACK..d - 1 : Key(LOGIN, e) \in DOMAIN rows})

(* getLoginStatus, of the rows that the look-back finds, on a day that is   *)
(* not claimed (a claimed one is refused below)                             *)
RunBefore(d) ==
    Max({n \in 0..LOOK_BACK : \A e \in d - n..d - 1 : Key(LOGIN, e) \in DOMAIN rows})

ReadLogins(r) ==
    /\ pc[r] = "read"
    /\ run' = [run EXCEPT ![r] = RunBefore(asked[r])]
    /\ Goes(r, "open")
    /\ UNCHANGED <<plan, step, asked, saved, fresh, holder, rows, day>>

Undo(r) ==
    /\ Goes(r, "rolledBack")
    /\ Release(r)
    /\ fresh' = [fresh EXCEPT ![r] = Nothing]
    /\ UNCHANGED <<plan, step, asked, saved, run, rows, day>>

---------------------------------------------------------------------------

(* The WHERE of the conditional UPDATE *)
IsClaimable(k) == k \in DOMAIN rows /\ ~rows[k].claimed /\ rows[k].progress >= Target[k[1]]

(* recordQuestProgress: one upsert, capped at the target *)
Upserted(k) ==
    LET old == IF k \in DOMAIN rows THEN rows[k] ELSE [progress |-> 0, claimed |-> FALSE]
    IN [old EXCEPT !.progress = IF @ < Target[k[1]] THEN @ + 1 ELSE @]

Claimed(k) ==
    IF k[1] = LOGIN THEN [progress |-> 1, claimed |-> TRUE] ELSE [rows[k] EXCEPT !.claimed = TRUE]

(* Refused before it has its first row: the UPDATE changes none, or the     *)
(* INSERT meets the unique index.                                           *)
IsRefused(r) ==
    /\ step[r] = 0
    /\ \/ Kind(r) = "claim" /\ ~IsClaimable(Asked(r))
       \/ Kind(r) = "login" /\ Asked(r) \in DOMAIN rows

Take(r, x) == holder' = [y \in DOMAIN holder \cup {x} |-> IF y = x THEN r ELSE holder[y]]

(* The monsters, or the wallet: nothing of this module is written yet. *)
TakeRow(r) ==
    /\ IsReady(r) /\ ~IsRefused(r) /\ Free(Wanted(r), r)
    /\ Wanted(r) \in {Monsters, Wallet}
    /\ Take(r, Wanted(r))
    /\ step' = [step EXCEPT ![r] = @ + 1]
    /\ UNCHANGED <<plan, pc, asked, saved, run, fresh, rows, day>>

(* saveEvents reads the clock again. *)
SaveEvents(r) ==
    /\ pc[r] = "open" /\ Kind(r) = "act" /\ ~HasAll(r) /\ Wanted(r)[1] = "quest"
    /\ saved' = [saved EXCEPT ![r] = day]
    /\ Goes(r, "saving")
    /\ UNCHANGED <<plan, step, asked, run, fresh, holder, rows, day>>

WriteQuest(r) ==
    /\ IsReady(r) /\ ~IsRefused(r) /\ Free(Wanted(r), r)
    /\ Wanted(r)[1] = "quest"
    /\ Take(r, Wanted(r))
    /\ LET k == Wanted(r)[2] IN
       fresh' = [fresh EXCEPT ![r] = Updated(@, [j \in {k} |->
                    IF Kind(r) = "act" THEN Upserted(k) ELSE Claimed(k)])]
    /\ step' = [step EXCEPT ![r] = @ + 1]
    /\ UNCHANGED <<plan, pc, asked, saved, run, rows, day>>

Commit(r) ==
    /\ IsOpen(r) /\ HasAll(r)
    /\ rows' = Updated(rows, fresh[r])
    /\ Goes(r, "committed")
    /\ Release(r)
    /\ fresh' = [fresh EXCEPT ![r] = Nothing]
    /\ UNCHANGED <<plan, step, asked, saved, run, day>>

Refuse(r) == IsOpen(r) /\ IsRefused(r) /\ Undo(r)

(* A rule refuses the monster, or the process dies. *)
Fail(r) == IsOpen(r) /\ Undo(r)

(* The database breaks a circular wait by failing one of its requests. *)
DeadlockVictim(r) == r \in UNION Circles /\ Undo(r)

Step(r) ==
    \/ Begin(r) \/ ReadLogins(r) \/ TakeRow(r) \/ SaveEvents(r) \/ WriteQuest(r)
    \/ Commit(r) \/ Refuse(r) \/ DeadlockVictim(r)

Next == Midnight \/ \E r \in DOMAIN plan : Step(r) \/ Fail(r)

Spec == Init /\ [][Next]_vars

---------------------------------------------------------------------------

Committed(kinds) == {r \in DOMAIN plan : Kind(r) \in kinds /\ pc[r] = "committed"}
PaidFor(k) == {r \in Committed({"claim", "login"}) : Asked(r) = k}
DoneFor(k) == {r \in Committed({"act"}) : \E i \in DOMAIN Moves(r) : Moves(r)[i] = QuestRow(k)}

(* How often quest k[1] has been moved on in period k[2]. *)
Worked(k) ==
    (IF k \in DOMAIN OpeningRows THEN OpeningRows[k].progress ELSE 0) + Cardinality(DoneFor(k))

(* Whatever runs at once and whenever midnight strikes, a quest's row holds *)
(* exactly the events that were saved in its period ("one atomic upsert per *)
(* quest, so it is safe inside the caller's transaction without any extra   *)
(* lock", quest.service.ts:26-27), and its reward is paid at most once, for *)
(* a period in which the target was met ("two racing requests can't both    *)
(* pay out", :97).                                                          *)
PaidOnceForWork ==
    /\ \A k \in DOMAIN rows : k[1] # LOGIN =>
          /\ rows[k].progress = IF Worked(k) < Target[k[1]] THEN Worked(k) ELSE Target[k[1]]
          /\ Cardinality(PaidFor(k)) =
                IF rows[k].claimed /\ ~(k \in DOMAIN OpeningRows /\ OpeningRows[k].claimed) THEN 1 ELSE 0
    /\ \A r \in Committed({"claim"}) : Asked(r) \in DOMAIN rows /\ Worked(Asked(r)) >= Target[plan[r].quest]

(* A login reward is paid once a day ("two racing requests can't both pay", *)
(* quest.service.ts:149), and one for a streak of n days only after n days  *)
(* without a gap, also when claims cross midnight.                          *)
StreaksAreReal ==
    \A r \in Committed({"login"}) :
        /\ PaidFor(Asked(r)) = {r}
        /\ Asked(r) \in DOMAIN rows
        /\ \A e \in asked[r] - run[r]..asked[r] - 1 : Key(LOGIN, e) \in DOMAIN rows

(* Claims lock the quest row and then the wallet, as the handlers that move *)
(* a quest on do; only a tick that discovers a species holds the wallet     *)
(* before the upsert, and may wait in a circle with a claim.                *)
CirclesOnlyWhenDiscovering ==
    \A D \in Circles : \E r \in D : Kind(r) = "act" /\ plan[r].discovers
=============================================================================
