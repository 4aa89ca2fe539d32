--------------------------- MODULE MonsterRoster ---------------------------
(***************************************************************************)
(* One player's monsters under concurrent requests:                        *)
(* src/src/modules/monster/core/monster.service.ts and the handlers that   *)
(* start with lockAndTickLiving or lockAndTickLatest.                      *)
(*                                                                         *)
(* Every request is a READ COMMITTED transaction.  It first runs one       *)
(* SELECT ... FOR UPDATE over the player's living monsters: the statement  *)
(* takes a snapshot, sorts it by selectedAt, and locks the rows one by one *)
(* in that order, waiting for whoever holds a row and dropping the row     *)
(* when its latest version is no longer living.  It cannot see a monster   *)
(* that is committed after its snapshot.  Then the request ticks what it   *)
(* has locked, does its work and commits, or it is rolled back.            *)
(*                                                                         *)
(* A handler that plays with the selected pet and finds nothing living     *)
(* among its locks goes on with the newest monster of the player, read by  *)
(* a plain SELECT: meant for a dead pet, it returns a living one when      *)
(* another request has put it there meanwhile.  Nobody holds that row.     *)
(* The handler saves it when its work is done: save() reads the row once   *)
(* more, still without a lock, and an UPDATE of the columns in which the   *)
(* old entity differs follows.                                             *)
(*                                                                         *)
(* A request's uncommitted writes are in draft; no other request reads     *)
(* them.  Rows of other players are never locked together with these, so   *)
(* one player is enough.                                                   *)
(***************************************************************************)
EXTENDS Integers, FiniteSets

CONSTANTS
    Monsters,            \* row ids, born and still unborn
    Starters,            \* the monsters the player raises at the start
    Requests,
    Ops,                 \* the handlers the requests call
    MAX_LIVING_MONSTERS,
    FIGHT_LIMIT,         \* RAID_ATTEMPTS / WORLD_BOSS_HITS of one window
    NoRequest

AllOps == {"look", "hatch", "select", "merge", "returnHome", "fight",
           "equip", "explore", "collect"}

ASSUME RosterAssumption ==
    /\ Starters \subseteq Monsters
    /\ Ops \subseteq AllOps
    /\ NoRequest \notin Requests
    /\ MAX_LIVING_MONSTERS \in Nat
    /\ FIGHT_LIMIT \in Nat
    /\ IsFiniteSet(Starters)
    /\ IsFiniteSet(Requests)

VARIABLES
    pc,       \* where each request is
    op,       \* the handler it runs
    now,      \* the time it captured before its transaction began
    snap,     \* the monsters its FOR UPDATE statement saw living
    rank,     \* their selectedAt in that snapshot
    visited,  \* the rows it has locked so far
    got,      \* those of them that were still living when locked
    unlocked, \* the pet it fell back on, if it did
    dirty,    \* the columns its UPDATE of that pet writes
    draft,    \* what it will commit
    holder,   \* who holds each row's lock
    row,      \* the committed monsters
    fights,   \* committed fights of the mode in this window
    cores,    \* Pet Cores in the bag
    clock

requestVars == <<pc, op, now, snap, rank, visited, got, unlocked, dirty, draft>>
tables == <<row, fights, cores>>
vars == <<requestVars, holder, tables, clock>>

Row == [form : {"unborn", "egg", "ultimate", "fused"},
        end : {"none", "died", "merged", "returned"},
        born : Nat, chosen : Nat, geared : BOOLEAN, away : BOOLEAN]

Unborn == [form |-> "unborn", end |-> "none", born |-> 0, chosen |-> 0,
           geared |-> FALSE, away |-> FALSE]

(* The rows a request will write, and what it adds to the two counters. *)
Drafted(rows) == [rows |-> rows, fights |-> 0, cores |-> 0]

NoDraft == Drafted([m \in {} |-> Unborn])

IsLiving(w) == w.form # "unborn" /\ w.end = "none"

Living == {m \in Monsters : IsLiving(row[m])}

Ended == {"committed", "rolledBack"}

(* Where a request is that works on a pet it has not locked. *)
FallenBack == {"fellBack", "worked", "saving"}

Open(r) == pc[r] \in {"locking", "relocking", "acting"} \cup FallenBack

(* The columns of a pet that requests change; what it wears are rows of    *)
(* another table.                                                          *)
Columns == {"end", "chosen", "away"}

TypeOK ==
    /\ pc \in [Requests -> {"idle", "begun", "locking", "relocking", "acting"}
                            \cup FallenBack \cup Ended]
    /\ op \in [Requests -> AllOps]
    /\ now \in [Requests -> Nat]
    /\ snap \in [Requests -> SUBSET Monsters]
    /\ rank \in [Requests -> [Monsters -> Nat]]
    /\ visited \in [Requests -> SUBSET Monsters]
    /\ got \in [Requests -> SUBSET Monsters]
    /\ unlocked \in [Requests -> SUBSET Monsters]
    /\ dirty \in [Requests -> SUBSET Columns]
    /\ DOMAIN draft = Requests
    /\ \A r \in Requests :
          /\ DOMAIN draft[r] = {"rows", "fights", "cores"}
          /\ DOMAIN draft[r].rows \subseteq Monsters
          /\ \A m \in DOMAIN draft[r].rows : draft[r].rows[m] \in Row
          /\ draft[r].fights \in {0, 1}
          /\ draft[r].cores \in {0, 1}
    /\ holder \in [Monsters -> Requests \cup {NoRequest}]
    /\ row \in [Monsters -> Row]
    /\ fights \in Nat
    /\ cores \in Nat
    /\ clock \in Nat

---------------------------------------------------------------------------
(* The starters are grown, and were selected one after the other. *)
StarterOrders ==
    {f \in [Starters -> 1..Cardinality(Starters)] :
        \A m, n \in Starters : f[m] = f[n] => m = n}

Init ==
    /\ pc = [r \in Requests |-> "idle"]
    /\ op \in [Requests -> Ops]
    /\ now = [r \in Requests |-> 0]
    /\ snap = [r \in Requests |-> {}]
    /\ rank = [r \in Requests |-> [m \in Monsters |-> 0]]
    /\ visited = [r \in Requests |-> {}]
    /\ got = [r \in Requests |-> {}]
    /\ unlocked = [r \in Requests |-> {}]
    /\ dirty = [r \in Requests |-> {}]
    /\ draft = [r \in Requests |-> NoDraft]
    /\ holder = [m \in Monsters |-> NoRequest]
    /\ \E order \in StarterOrders :
          row = [m \in Monsters |->
                  IF m \in Starters
                  THEN [Unborn EXCEPT !.form = "ultimate", !.chosen = order[m]]
                  ELSE Unborn]
    /\ fights = 0
    /\ cores = 0
    /\ clock = Cardinality(Starters)

(* The handler captures `now` and opens its transaction. *)
Begin(r) ==
    /\ pc[r] = "idle"
    /\ pc' = [pc EXCEPT ![r] = "begun"]
    /\ clock' = clock + 1
    /\ now' = [now EXCEPT ![r] = clock + 1]
    /\ UNCHANGED <<op, snap, rank, visited, got, unlocked, dirty, draft, holder, tables>>

(* The FOR UPDATE statement starts: its snapshot is what is committed now. *)
TakeSnapshot(r) ==
    /\ snap' = [snap EXCEPT ![r] = Living]
    /\ rank' = [rank EXCEPT ![r] = [m \in Monsters |-> row[m].chosen]]

Snapshot(r) ==
    /\ pc[r] = "begun"
    /\ pc' = [pc EXCEPT ![r] = "locking"]
    /\ TakeSnapshot(r)
    /\ UNCHANGED <<op, now, visited, got, unlocked, dirty, draft, holder, tables, clock>>

ToLock(r) == snap[r] \ visited[r]

(* SELECTED_ORDER: most recently selected first, in the snapshot's values. *)
IsNextToLock(r, m) ==
    m \in ToLock(r) /\ \A n \in ToLock(r) : rank[r][n] <= rank[r][m]

(* A bug this module is checked against: rows read without FOR UPDATE. *)
FreeUnlocked(m, r) == TRUE

Free(m, r) == holder[m] \in {NoRequest, r}

(* A bug: the latest version of a locked row is not tested again. *)
LockRowBlindly(r, m) ==
    /\ pc[r] \in {"locking", "relocking"}
    /\ IsNextToLock(r, m)
    /\ Free(m, r)
    /\ holder' = [holder EXCEPT ![m] = r]
    /\ visited' = [visited EXCEPT ![r] = @ \cup {m}]
    /\ got' = [got EXCEPT ![r] = @ \cup {m}]
    /\ UNCHANGED <<pc, op, now, snap, rank, unlocked, dirty, draft, tables, clock>>

LockRow(r, m) ==
    /\ pc[r] \in {"locking", "relocking"}
    /\ IsNextToLock(r, m)
    /\ Free(m, r)
    /\ holder' = [holder EXCEPT ![m] = r]
    /\ visited' = [visited EXCEPT ![r] = @ \cup {m}]
    /\ got' = [got EXCEPT ![r] = IF IsLiving(row[m]) THEN @ \cup {m} ELSE @]
    /\ UNCHANGED <<pc, op, now, snap, rank, unlocked, dirty, draft, tables, clock>>

(* getMyMonster calls lockAndTickLiving and then lockAndTickLatest, which  *)
(* runs the statement again with a new snapshot.                           *)
LookAgain(r) ==
    /\ pc[r] = "locking"
    /\ op[r] = "look"
    /\ ToLock(r) = {}
    /\ pc' = [pc EXCEPT ![r] = "relocking"]
    /\ TakeSnapshot(r)
    /\ UNCHANGED <<op, now, visited, got, unlocked, dirty, draft, holder, tables, clock>>

HasLocked(r) ==
    /\ pc[r] = IF op[r] = "look" THEN "relocking" ELSE "locking"
    /\ ToLock(r) = {}

---------------------------------------------------------------------------
(* The work of a request, once it has locked the living monsters.          *)

(* tick() of what was locked: some monsters have died since, some eggs     *)
(* have hatched and grown.  saveState takes the gear off the dead.         *)
Ticked(r, dead, grown) ==
    [m \in got[r] |->
        CASE m \in dead  -> [row[m] EXCEPT !.end = "died", !.geared = FALSE]
          [] m \in grown -> [row[m] EXCEPT !.form = "ultimate"]
          [] OTHER       -> row[m]]

Eggs(r) == {m \in got[r] : row[m].form = "egg"}

Put(f, m, w) == [n \in DOMAIN f \cup {m} |-> IF n = m THEN w ELSE f[n]]

(* A new row's id is a uuid no other row or transaction uses. *)
Fresh(m) ==
    /\ row[m].form = "unborn"
    /\ \A s \in Requests : m \notin DOMAIN draft[s].rows

Look(r, rows, alive) ==
    /\ op[r] = "look"
    /\ draft' = [draft EXCEPT ![r] = Drafted(rows)]

(* A bug: the cap compared with <=. *)
HatchOneMore(r, rows, alive) ==
    /\ op[r] = "hatch"
    /\ Cardinality(alive) <= MAX_LIVING_MONSTERS
    /\ \E m \in Monsters :
          /\ Fresh(m)
          /\ draft' = [draft EXCEPT ![r] =
                Drafted(Put(rows, m, [Unborn EXCEPT !.form = "egg", !.born = now[r], !.chosen = now[r]]))]

Hatch(r, rows, alive) ==
    /\ op[r] = "hatch"
    /\ Cardinality(alive) < MAX_LIVING_MONSTERS
    /\ \E m \in Monsters :
          /\ Fresh(m)
          /\ draft' = [draft EXCEPT ![r] =
                Drafted(Put(rows, m, [Unborn EXCEPT !.form = "egg", !.born = now[r], !.chosen = now[r]]))]

Select(r, rows, alive) ==
    /\ op[r] = "select"
    /\ \E m \in alive :
          draft' = [draft EXCEPT ![r] = Drafted([rows EXCEPT ![m].chosen = now[r]])]

(* Two bugs: the gear stays on; the row says what the monster became       *)
(* instead of how it went.                                                 *)
GoneDressed(w, cause) == [w EXCEPT !.end = cause, !.chosen = 0]
(* How merge and returnHome take a monster out of the slots. *)
Gone(w, cause) == [w EXCEPT !.end = cause, !.chosen = 0, !.geared = FALSE]

CanMerge(w) == w.form = "ultimate" /\ ~w.away

Merge(r, rows, alive) ==
    /\ op[r] = "merge"
    /\ \E a, b \in alive, m \in Monsters :
          /\ a # b
          /\ CanMerge(rows[a])
          /\ CanMerge(rows[b])
          /\ Fresh(m)
          /\ draft' = [draft EXCEPT ![r] =
                Drafted(Put([rows EXCEPT ![a] = Gone(@, "merged"), ![b] = Gone(@, "merged")],
                            m, [Unborn EXCEPT !.form = "fused", !.born = now[r],
                                              !.chosen = now[r]]))]

ReturnHome(r, rows, alive) ==
    /\ op[r] = "returnHome"
    /\ \E m \in alive :
          /\ rows[m].form # "egg"
          /\ ~rows[m].away
          /\ draft' = [draft EXCEPT ![r] =
                [Drafted([rows EXCEPT ![m] = Gone(@, "returned")]) EXCEPT !.cores = 1]]

(* The pet a handler plays with when it is given no id: living[0]. *)
IsSelected(r, m, alive) == m \in alive /\ \A n \in alive : rank[r][n] <= rank[r][m]

(* RaidService.battle and WorldBossService.attack: the fights of the       *)
(* window are counted under the monster lock, from the committed logs.     *)
Fight(r, rows, alive) ==
    /\ op[r] = "fight"
    /\ \E m \in alive :
          /\ IsSelected(r, m, alive)
          /\ rows[m].form # "egg"
          /\ ~rows[m].away
    /\ fights < FIGHT_LIMIT
    /\ draft' = [draft EXCEPT ![r] = [Drafted(rows) EXCEPT !.fights = 1]]

(* m puts on a piece from the bag (from = m) or one that `from` was        *)
(* wearing, which may have been its last.                                  *)
Equip(r, rows, alive) ==
    /\ op[r] = "equip"
    /\ \E m, from \in alive, left \in BOOLEAN :
          /\ ~rows[m].away
          /\ ~rows[from].away
          /\ draft' = [draft EXCEPT ![r] =
                Drafted([rows EXCEPT ![from].geared = @ /\ left, ![m].geared = TRUE])]

Unequip(r, rows, alive) ==
    /\ op[r] = "equip"
    /\ \E m \in alive, left \in BOOLEAN :
          /\ ~rows[m].away
          /\ draft' = [draft EXCEPT ![r] = Drafted([rows EXCEPT ![m].geared = @ /\ left])]

(* ExpeditionService.start and claim. *)
Explore(r, rows, alive) ==
    /\ op[r] = "explore"
    /\ \E m \in alive :
          /\ IsSelected(r, m, alive)
          /\ rows[m].form # "egg"
          /\ ~rows[m].away
          /\ draft' = [draft EXCEPT ![r] = Drafted([rows EXCEPT ![m].away = TRUE])]

Collect(r, rows, alive) ==
    /\ op[r] = "collect"
    /\ \E m \in alive :
          /\ IsSelected(r, m, alive)
          /\ rows[m].away
          /\ draft' = [draft EXCEPT ![r] = Drafted([rows EXCEPT ![m].away = FALSE])]

Work(r, rows, alive) ==
    \/ Look(r, rows, alive)
    \/ Hatch(r, rows, alive)
    \/ Select(r, rows, alive)
    \/ Merge(r, rows, alive)
    \/ ReturnHome(r, rows, alive)
    \/ Fight(r, rows, alive)
    \/ Equip(r, rows, alive)
    \/ Unequip(r, rows, alive)
    \/ Explore(r, rows, alive)
    \/ Collect(r, rows, alive)

Act(r) ==
    /\ HasLocked(r)
    /\ \E dead \in SUBSET (got[r] \ Eggs(r)), grown \in SUBSET Eggs(r) :
          Work(r, Ticked(r, dead, grown), got[r] \ dead)
    /\ pc' = [pc EXCEPT ![r] = "acting"]
    /\ UNCHANGED <<op, now, snap, rank, visited, got, unlocked, dirty, holder, tables, clock>>

---------------------------------------------------------------------------
(* The second half of lockAndTickLatest, when nothing it locked lives.     *)
(* (getMyMonster comes here too, and only shows what it reads.)            *)

TargetOps == {"fight", "explore", "collect"}

(* order: { bornAt: 'DESC' }, over the dead and the living. *)
IsNewest(m) ==
    /\ row[m].form # "unborn"
    /\ \A n \in Monsters : row[n].form # "unborn" => row[n].born <= row[m].born

(* The newest row lives although the request has locked no living one: it  *)
(* was born behind the snapshot.                                           *)
FallBack(r) ==
    /\ HasLocked(r)
    /\ op[r] \in TargetOps
    /\ Eggs(r) = {}
    /\ \E m \in Living \ got[r] :
          /\ IsNewest(m)
          /\ unlocked' = [unlocked EXCEPT ![r] = {m}]
          /\ draft' = [draft EXCEPT ![r] = Drafted(Put(Ticked(r, got[r], {}), m, row[m]))]
    /\ pc' = [pc EXCEPT ![r] = "fellBack"]
    /\ UNCHANGED <<op, now, snap, rank, visited, got, dirty, holder, tables, clock>>

ActUnlocked(r) ==
    /\ pc[r] = "fellBack"
    /\ Work(r, draft[r].rows, unlocked[r])
    /\ pc' = [pc EXCEPT ![r] = "worked"]
    /\ UNCHANGED <<op, now, snap, rank, visited, got, unlocked, dirty, holder, tables, clock>>

(* The columns in which the entity v differs from the stored row w. *)
Differing(v, w) ==
    (IF v.end # w.end THEN {"end"} ELSE {})
      \cup (IF v.chosen # w.chosen THEN {"chosen"} ELSE {})
      \cup (IF v.away # w.away THEN {"away"} ELSE {})

(* save() loads the row again to see what has to be written.  Some column  *)
(* always has to: the work has used energy or minutes.                     *)
Reload(r) ==
    /\ pc[r] = "worked"
    /\ dirty' = [dirty EXCEPT ![r] =
          UNION {Differing(draft[r].rows[m], row[m]) : m \in unlocked[r]}]
    /\ pc' = [pc EXCEPT ![r] = "saving"]
    /\ UNCHANGED <<op, now, snap, rank, visited, got, unlocked, draft, holder, tables, clock>>

(* The stored row w once the entity v is saved over it. *)
Updated(w, v, columns) ==
    [w EXCEPT !.end = IF "end" \in columns THEN v.end ELSE @,
              !.chosen = IF "chosen" \in columns THEN v.chosen ELSE @,
              !.away = IF "away" \in columns THEN v.away ELSE @]

(* The UPDATE waits for whoever holds the row. *)
Overwrite(r) ==
    /\ pc[r] = "saving"
    /\ \A m \in unlocked[r] : Free(m, r)
    /\ holder' = [m \in Monsters |-> IF m \in unlocked[r] THEN r ELSE holder[m]]
    /\ draft' = [draft EXCEPT ![r].rows =
          [m \in DOMAIN draft[r].rows |->
              IF m \in unlocked[r] THEN Updated(row[m], draft[r].rows[m], dirty[r])
                                   ELSE draft[r].rows[m]]]
    /\ pc' = [pc EXCEPT ![r] = "acting"]
    /\ UNCHANGED <<op, now, snap, rank, visited, got, unlocked, dirty, tables, clock>>

---------------------------------------------------------------------------

(* A bug: a transaction that is never ended. *)
ReleaseNothing(r) == UNCHANGED holder

Release(r) == holder' = [m \in Monsters |-> IF holder[m] = r THEN NoRequest ELSE holder[m]]

Forget(r) ==
    /\ draft' = [draft EXCEPT ![r] = NoDraft]
    /\ Release(r)
    /\ UNCHANGED <<op, now, snap, rank, visited, got, unlocked, dirty, clock>>

Commit(r) ==
    /\ pc[r] = "acting"
    /\ pc' = [pc EXCEPT ![r] = "committed"]
    /\ row' = [m \in Monsters |->
                IF m \in DOMAIN draft[r].rows THEN draft[r].rows[m] ELSE row[m]]
    /\ fights' = fights + draft[r].fights
    /\ cores' = cores + draft[r].cores
    /\ Forget(r)

Undo(r) ==
    /\ pc' = [pc EXCEPT ![r] = "rolledBack"]
    /\ Forget(r)
    /\ UNCHANGED tables

(* A rule refuses (not found, sick, cap reached, too young ...): the       *)
(* handler throws and the tick is rolled back with everything else.        *)
Refuse(r) == (HasLocked(r) \/ pc[r] = "fellBack") /\ Undo(r)

(* A later statement fails (not enough coins), or the process dies.        *)
Fail(r) == Open(r) /\ Undo(r)

(* What request s must release before r can go on. *)
Blocks(s, r) ==
    /\ s # r
    /\ \/ /\ pc[r] \in {"locking", "relocking"}
          /\ \E m \in ToLock(r) : IsNextToLock(r, m) /\ holder[m] = s
       \/ /\ pc[r] = "saving"
          /\ \E m \in unlocked[r] : holder[m] = s

InCircle(r) ==
    \E D \in SUBSET Requests : r \in D /\ \A x \in D : \E y \in D : Blocks(y, x)

(* The database breaks a circular wait by failing one of its requests.     *)
DeadlockVictim(r) == Open(r) /\ InCircle(r) /\ Undo(r)

Step(r) ==
    \/ Begin(r)
    \/ Snapshot(r)
    \/ \E m \in Monsters : LockRow(r, m)
    \/ LookAgain(r)
    \/ Act(r)
    \/ FallBack(r)
    \/ ActUnlocked(r)
    \/ Reload(r)
    \/ Overwrite(r)
    \/ Refuse(r)
    \/ Commit(r)
    \/ DeadlockVictim(r)

Next == \E r \in Requests : Step(r) \/ Fail(r)

Spec == Init /\ [][Next]_vars

Fairness == \A r \in Requests : WF_vars(Step(r))

FairSpec == Spec /\ Fairness

---------------------------------------------------------------------------

(* The monsters a request works on once it has all their locks. *)
Works(r) == got[r] \cup unlocked[r]

(* The committed requests whose save wrote an old entity over a monster    *)
(* that had gone meanwhile, and so brought it back.                        *)
Revivers == {r \in Requests : pc[r] = "committed" /\ "end" \in dirty[r]}

(* Two requests never work on one monster: while both have all their       *)
(* locks, each has monsters of its own.  And at most one of them has any,  *)
(* unless one fell back or a monster was brought back: the row locks of    *)
(* lockAndTickLiving (monster.service.ts:371-398) queue the requests       *)
(* although each locks whatever its own snapshot shows.                    *)
OneAtATime ==
    \A r, s \in Requests :
        r # s /\ pc[r] = "acting" /\ pc[s] = "acting" =>
            /\ Works(r) \cap Works(s) = {}
            /\ Revivers = {} /\ unlocked[r] = {} /\ unlocked[s] = {} =>
                  got[r] = {} \/ got[s] = {}

(* "Callers hold the monster row lock, so the count can't be overspent by  *)
(* parallel requests" (daily-fights.ts:16-17).                             *)
FightsCannotBeOverspent == fights <= FIGHT_LIMIT

(* The fights that were committed by requests without the lock. *)
UnlockedFights ==
    {r \in Requests : pc[r] = "committed" /\ op[r] = "fight" /\ unlocked[r] # {}}

(* The fights of a window exceed the limit by those at most that fell back *)
(* on a pet nobody had locked (monster.service.ts:402-407): all others     *)
(* count each other (raid.service.ts:142-145), as long as no save brings a *)
(* monster back that the snapshots of two requests disagree about.         *)
FightsWithinLimit ==
    Revivers = {} => fights <= FIGHT_LIMIT + Cardinality(UnlockedFights)

(* A monster that is gone wears nothing: releaseGear ran in the            *)
(* transaction that ended it.                                              *)
GoneWearNothing ==
    \A m \in Monsters : ~IsLiving(row[m]) => ~row[m].geared

Merged == {m \in Monsters : row[m].end = "merged"}
Returned == {m \in Monsters : row[m].end = "returned"}
Fused == {m \in Monsters : row[m].form = "fused"}

(* Every fused monster cost two parents and every Pet Core one monster     *)
(* (merge, returnHome); only a save that fell back can give one of them    *)
(* back, and each gives back one.                                          *)
NothingSpentTwice ==
    /\ Cardinality(Merged) <= 2 * Cardinality(Fused)
    /\ Cardinality(Returned) <= cores
    /\ (2 * Cardinality(Fused) - Cardinality(Merged)) + (cores - Cardinality(Returned))
         <= Cardinality(Revivers)

(* Nothing a player has is spent twice, however the requests meet: neither *)
(* a monster, nor the gear of one that is gone, nor an attempt.  What the  *)
(* fallback lets through is counted.                                       *)
NothingOverspent == NothingSpentTwice /\ GoneWearNothing /\ FightsWithinLimit

(* A monster that is gone never comes back, whatever a request that saw it *)
(* living writes later; only a request that fell back on it, unlocked, and *)
(* saves what it read before, brings it back (monster.service.ts:402-407,  *)
(* 426-433).                                                               *)
GoneForGood ==
    [][\A m \in Monsters :
          row[m].end # "none" =>
              \/ row'[m].end = row[m].end
              \/ \E r \in Requests :
                    /\ pc[r] = "acting" /\ pc'[r] = "committed"
                    /\ m \in unlocked[r] /\ "end" \in dirty[r]]_vars

(* A hatch whose snapshot was still complete when it committed keeps the   *)
(* player within the cap.                                                  *)
CapKeptWhenFresh ==
    [][\A r \in Requests :
          op[r] = "hatch" /\ pc[r] = "acting" /\ pc'[r] = "committed" /\ Living \subseteq snap[r]
             => Cardinality(Living') <= MAX_LIVING_MONSTERS]_vars

(* "How many living monsters one player can raise at the same time"        *)
(* (monster-rules.ts:9).                                                   *)
LivingWithinCap == Cardinality(Living) <= MAX_LIVING_MONSTERS

(* Every request is answered, also when requests wait for each other in a  *)
(* circle.                                                                 *)
EveryRequestEnds == \A r \in Requests : pc[r] # "idle" ~> pc[r] \in Ended
=============================================================================
