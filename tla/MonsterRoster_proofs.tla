------------------------ MODULE MonsterRoster_proofs ------------------------
(* Proofs about MonsterRoster, for every set of monsters and requests and  *)
(* every cap and fight limit.                                              *)
EXTENDS MonsterRoster, FiniteSetTheorems, TLAPS

(* A request that has not started locking has locked nothing. *)
NothingYet ==
    \A r \in Requests : pc[r] \in {"idle", "begun"} => visited[r] = {} /\ got[r] = {}

(* An open request still holds every row it has locked, and what it has    *)
(* got is still living.                                                    *)
LocksKept ==
    \A r \in Requests : Open(r) =>
        /\ \A m \in visited[r] : holder[m] = r
        /\ got[r] \subseteq visited[r]
        /\ got[r] \subseteq snap[r]
        /\ got[r] \subseteq Living

(* A snapshot holds no monster that is not born. *)
SnapshotsBorn ==
    \A r \in Requests : Open(r) => \A m \in snap[r] : row[m].form # "unborn"

(* Snapshots are ordered by the time they were taken: of two, the older    *)
(* one's monsters that still live are all in the younger one, as long as   *)
(* no monster has come back.                                               *)
SnapshotsOrdered ==
    Revivers = {} =>
        \A r, s \in Requests : Open(r) /\ Open(s) =>
            snap[r] \cap Living \subseteq snap[s] \/ snap[s] \cap Living \subseteq snap[r]

(* Where a request is that has something to write. *)
Writing == {"acting"} \cup FallenBack

(* A request writes the living monsters it has locked, the one it fell     *)
(* back on and rows it inserts.                                            *)
DraftsOwned ==
    \A r \in Requests :
        /\ pc[r] \in Writing => ToLock(r) = {}
        /\ pc[r] \notin Writing => DOMAIN draft[r].rows = {} /\ draft[r].fights = 0
        /\ \A m \in DOMAIN draft[r].rows :
              /\ m \in got[r] \/ m \in unlocked[r] \/ row[m].form = "unborn"
              /\ draft[r].rows[m].form # "unborn"

(* Two requests have only a row in common that one of them has read        *)
(* without locking it yet.                                                 *)
IsLoose(r, m) == pc[r] \in FallenBack /\ m \in unlocked[r]

DraftsApart ==
    \A r, s \in Requests :
        r # s => \A m \in DOMAIN draft[r].rows \cap DOMAIN draft[s].rows :
                    IsLoose(r, m) \/ IsLoose(s, m)

UnbornNotEnded == \A m \in Monsters : row[m].form = "unborn" => row[m].end = "none"

(* What a request knows of the one monster it fell back on: it was living  *)
(* when it was read; once the request has locked it, its draft is the      *)
(* stored row with some columns overwritten.                               *)
FellBackAs(r) ==
    /\ unlocked[r] # {} => op[r] \in TargetOps /\ pc[r] \in Writing \cup Ended
    /\ pc[r] \in FallenBack => unlocked[r] # {}
    /\ dirty[r] # {} => unlocked[r] # {}
    /\ \A m, n \in unlocked[r] : m = n
    /\ \A m \in unlocked[r] :
          /\ row[m].form # "unborn"
          /\ pc[r] \in Writing => m \in DOMAIN draft[r].rows /\ m \notin got[r]
          /\ pc[r] \in FallenBack => draft[r].rows[m].end = "none"
          /\ pc[r] = "acting" =>
                /\ holder[m] = r
                /\ draft[r].rows[m].form = row[m].form
                /\ draft[r].rows[m].geared = row[m].geared
                /\ draft[r].rows[m].end = IF "end" \in dirty[r] THEN "none" ELSE row[m].end

FellBackOn == \A r \in Requests : FellBackAs(r)

(* A fight that is still to be committed was counted against the limit,    *)
(* unless its request has no lock.                                         *)
FightsCounted ==
    /\ \A r \in Requests : draft[r].fights = 1 => op[r] = "fight"
    /\ FightsWithinLimit
    /\ Revivers = {} =>
          \A r \in Requests :
             draft[r].fights = 1 /\ unlocked[r] = {} =>
                got[r] # {} /\ fights < FIGHT_LIMIT + Cardinality(UnlockedFights)

IInv ==
    /\ TypeOK
    /\ NothingYet
    /\ LocksKept
    /\ SnapshotsBorn
    /\ SnapshotsOrdered
    /\ DraftsOwned
    /\ DraftsApart
    /\ UnbornNotEnded
    /\ FellBackOn
    /\ FightsCounted

---------------------------------------------------------------------------

(* A request that acts holds every monster it works on. *)
LEMMA WorksHeld ==
    ASSUME IInv, NEW r \in Requests, pc[r] = "acting", NEW m \in Works(r)
    PROVE  holder[m] = r
  <1>1. Open(r)
    BY DEF Open
  <1>2. CASE m \in got[r]
    BY <1>1, <1>2 DEF IInv, LocksKept
  <1>3. CASE m \in unlocked[r]
    BY <1>3 DEF IInv, FellBackOn, FellBackAs
  <1> QED BY <1>2, <1>3 DEF Works

(* Two requests that have both locked all they saw share no living         *)
(* monster, and only one of them has any.                                  *)
LEMMA InvOneAtATime == IInv => OneAtATime
  <1> SUFFICES ASSUME IInv, NEW r \in Requests, NEW s \in Requests, r # s,
                      pc[r] = "acting", pc[s] = "acting"
               PROVE  /\ Works(r) \cap Works(s) = {}
                      /\ Revivers = {} => got[r] = {} \/ got[s] = {}
    BY DEF OneAtATime
  <1>1. Open(r) /\ Open(s)
    BY DEF Open
  <1>2. Works(r) \cap Works(s) = {}
    BY WorksHeld
  <1>3. ASSUME Revivers = {}, NEW m \in got[r], NEW n \in got[s]
        PROVE  FALSE
    <2>1. /\ m \in snap[r] \cap Living /\ holder[m] = r
          /\ n \in snap[s] \cap Living /\ holder[n] = s
      BY <1>1, <1>3 DEF IInv, LocksKept
    <2>2. m \in snap[s] \/ n \in snap[r]
      BY <1>1, <1>3, <2>1 DEF IInv, SnapshotsOrdered
    <2>3. m \in visited[s] \/ n \in visited[r]
      BY <2>2 DEF IInv, DraftsOwned, ToLock, Writing
    <2>4. holder[m] = s \/ holder[n] = r
      BY <1>1, <2>3 DEF IInv, LocksKept
    <2> QED BY <2>1, <2>4
  <1> QED BY <1>2, <1>3

(* Only a commit changes what has been committed. *)
LEMMA SameCommitted ==
    ASSUME TypeOK, NEW r \in Requests, pc[r] # "committed", pc'[r] # "committed", op' = op,
           \A s \in Requests : s # r => /\ pc'[s] = pc[s]
                                        /\ dirty'[s] = dirty[s]
                                        /\ unlocked'[s] = unlocked[s]
    PROVE  Revivers' = Revivers /\ UnlockedFights' = UnlockedFights
  BY DEF Revivers, UnlockedFights

LEMMA UnbornIsRow == Unborn \in Row /\ Unborn.form = "unborn" /\ Unborn.end = "none"
  BY DEF Unborn, Row

(* Every monster a tick touches keeps a form and stays a row. *)
LEMMA TickedRows ==
    ASSUME TypeOK, NEW r \in Requests, NEW dead, NEW grown, dead \cap grown = {},
           \A m \in got[r] : row[m].form # "unborn"
    PROVE  /\ DOMAIN Ticked(r, dead, grown) = got[r]
           /\ \A m \in got[r] : /\ Ticked(r, dead, grown)[m] \in Row
                                /\ Ticked(r, dead, grown)[m].form # "unborn"
  <1>1. got[r] \subseteq Monsters
    BY DEF TypeOK
  <1>2. ASSUME NEW m \in got[r]
        PROVE  /\ Ticked(r, dead, grown)[m] \in Row
               /\ Ticked(r, dead, grown)[m].form # "unborn"
    <2>1. row[m] \in Row
      BY <1>1 DEF TypeOK
    <2>2. CASE m \in dead
      <3>1. Ticked(r, dead, grown)[m] = [row[m] EXCEPT !.end = "died", !.geared = FALSE]
        BY <2>2, m \notin grown DEF Ticked
      <3> QED BY <2>1, <3>1 DEF Row
    <2>3. CASE m \notin dead /\ m \in grown
      <3>1. Ticked(r, dead, grown)[m] = [row[m] EXCEPT !.form = "ultimate"]
        BY <2>3 DEF Ticked
      <3> QED BY <2>1, <3>1 DEF Row
    <2>4. CASE m \notin dead /\ m \notin grown
      <3>1. Ticked(r, dead, grown)[m] = row[m]
        BY <2>4 DEF Ticked
      <3> QED BY <2>1, <3>1
    <2> QED BY <2>2, <2>3, <2>4
  <1> QED BY <1>2 DEF Ticked

---------------------------------------------------------------------------

(* What a request's work leaves in its draft: the monsters it has locked,  *)
(* perhaps one new row, and a fight only when the count allowed it.        *)
Worked(r, d) ==
    /\ draft' = [draft EXCEPT ![r] = d]
    /\ DOMAIN d = {"rows", "fights", "cores"}
    /\ DOMAIN d.rows \subseteq Monsters
    /\ \A m \in DOMAIN d.rows :
          /\ d.rows[m] \in Row
          /\ d.rows[m].form # "unborn"
          /\ m \in got[r] \/ Fresh(m)
    /\ d.fights \in {0, 1}
    /\ d.cores \in {0, 1}
    /\ d.fights = 1 => op[r] = "fight" /\ got[r] # {} /\ fights < FIGHT_LIMIT

IsTable(rows, S) ==
    /\ DOMAIN rows = S
    /\ \A m \in S : rows[m] \in Row /\ rows[m].form # "unborn"

LEMMA DraftedFields ==
    ASSUME NEW rows
    PROVE  /\ DOMAIN Drafted(rows) = {"rows", "fights", "cores"}
           /\ Drafted(rows).rows = rows
           /\ Drafted(rows).fights = 0
           /\ Drafted(rows).cores = 0
           /\ LET d == [Drafted(rows) EXCEPT !.fights = 1]
              IN  /\ DOMAIN d = {"rows", "fights", "cores"}
                  /\ d.rows = rows /\ d.fights = 1 /\ d.cores = 0
           /\ LET d == [Drafted(rows) EXCEPT !.cores = 1]
              IN  /\ DOMAIN d = {"rows", "fights", "cores"}
                  /\ d.rows = rows /\ d.fights = 0 /\ d.cores = 1
  BY DEF Drafted

(* Writing a table of locked monsters is work. *)
LEMMA TableWorked ==
    ASSUME NEW r \in Requests, got[r] \subseteq Monsters, NEW rows, IsTable(rows, got[r]),
           draft' = [draft EXCEPT ![r] = Drafted(rows)]
    PROVE  Worked(r, Drafted(rows))
  BY DraftedFields DEF Worked, IsTable

(* So is writing it with one new row. *)
LEMMA TablePlusNewWorked ==
    ASSUME NEW r \in Requests, got[r] \subseteq Monsters, NEW rows, IsTable(rows, got[r]),
           NEW m \in Monsters, Fresh(m), NEW w \in Row, w.form # "unborn",
           draft' = [draft EXCEPT ![r] = Drafted(Put(rows, m, w))]
    PROVE  Worked(r, Drafted(Put(rows, m, w)))
  <1>1. /\ DOMAIN Put(rows, m, w) = got[r] \cup {m}
        /\ Put(rows, m, w)[m] = w
        /\ \A n \in got[r] : n # m => Put(rows, m, w)[n] = rows[n]
    <2>1. DOMAIN rows = got[r] BY DEF IsTable
    <2> QED BY <2>1 DEF Put
  <1> QED BY <1>1, DraftedFields DEF Worked, IsTable

(* Changing one locked monster keeps a table a table. *)
LEMMA TableExcept ==
    ASSUME NEW S, NEW rows, IsTable(rows, S), NEW a, NEW w \in Row, w.form # "unborn"
    PROVE  IsTable([rows EXCEPT ![a] = w], S)
  BY DEF IsTable

(* No operation makes a monster unborn, whatever it writes in its row. *)
LEMMA RowUpdates ==
    ASSUME NEW w \in Row, w.form # "unborn", NEW t \in Nat, NEW b \in BOOLEAN,
           NEW cause \in {"merged", "returned"}
    PROVE  /\ [w EXCEPT !.chosen = t] \in Row /\ [w EXCEPT !.chosen = t].form # "unborn"
           /\ [w EXCEPT !.geared = b] \in Row /\ [w EXCEPT !.geared = b].form # "unborn"
           /\ [w EXCEPT !.away = b] \in Row /\ [w EXCEPT !.away = b].form # "unborn"
           /\ Gone(w, cause) \in Row /\ Gone(w, cause).form # "unborn"
  <1>1. [w EXCEPT !.chosen = t] \in Row /\ [w EXCEPT !.chosen = t].form # "unborn"
    BY DEF Row
  <1>2. [w EXCEPT !.geared = b] \in Row /\ [w EXCEPT !.geared = b].form # "unborn"
    BY DEF Row
  <1>3. [w EXCEPT !.away = b] \in Row /\ [w EXCEPT !.away = b].form # "unborn"
    BY DEF Row
  <1>4. Gone(w, cause) \in Row /\ Gone(w, cause).form # "unborn"
    BY DEF Row, Gone
  <1> QED BY <1>1, <1>2, <1>3, <1>4

(* Whatever a request does with a table of locked monsters is work.        *)
LEMMA WorkWorked ==
    ASSUME IInv, NEW r \in Requests, NEW rows, IsTable(rows, got[r]),
           NEW alive, alive \subseteq got[r], Work(r, rows, alive)
    PROVE  \E d : Worked(r, d)
  <1>1. /\ got[r] \subseteq Monsters
        /\ now[r] \in Nat
    BY DEF IInv, TypeOK
  <1>2. \A m \in alive : m \in got[r] /\ rows[m] \in Row /\ rows[m].form # "unborn"
    BY DEF IsTable
  <1>3. CASE Look(r, rows, alive)
    <2>1. draft' = [draft EXCEPT ![r] = Drafted(rows)]
      BY <1>3 DEF Look
    <2> QED BY <1>1, <2>1, TableWorked
  <1>4. CASE Hatch(r, rows, alive)
    <2> DEFINE egg == [Unborn EXCEPT !.form = "egg", !.born = now[r], !.chosen = now[r]]
    <2>1. egg \in Row /\ egg.form # "unborn"
      BY <1>1 DEF Unborn, Row
    <2>2. PICK m \in Monsters : /\ Fresh(m)
                               /\ draft' = [draft EXCEPT ![r] = Drafted(Put(rows, m, egg))]
      BY <1>4 DEF Hatch
    <2> HIDE DEF egg
    <2> QED BY <1>1, <2>1, <2>2, TablePlusNewWorked
  <1>5. CASE Select(r, rows, alive)
    <2>1. PICK m \in alive :
             draft' = [draft EXCEPT ![r] = Drafted([rows EXCEPT ![m].chosen = now[r]])]
      BY <1>5 DEF Select
    <2> DEFINE w == [rows[m] EXCEPT !.chosen = now[r]]
    <2>2. w \in Row /\ w.form # "unborn"
      BY <1>1, <1>2, RowUpdates
    <2>3. [rows EXCEPT ![m].chosen = now[r]] = [rows EXCEPT ![m] = w]
      OBVIOUS
    <2> HIDE DEF w
    <2>4. IsTable([rows EXCEPT ![m] = w], got[r])
      BY <2>2, TableExcept
    <2> QED BY <1>1, <2>1, <2>3, <2>4, TableWorked
  <1>6. CASE Merge(r, rows, alive)
    <2>1. PICK a \in alive, b \in alive, m \in Monsters :
             /\ a # b
             /\ Fresh(m)
             /\ draft' = [draft EXCEPT ![r] =
                   Drafted(Put([rows EXCEPT ![a] = Gone(@, "merged"), ![b] = Gone(@, "merged")],
                               m, [Unborn EXCEPT !.form = "fused", !.born = now[r],
                                                 !.chosen = now[r]]))]
      BY <1>6 DEF Merge
    <2> DEFINE wa == Gone(rows[a], "merged")
               wb == Gone(rows[b], "merged")
               child == [Unborn EXCEPT !.form = "fused", !.born = now[r], !.chosen = now[r]]
               parents == [[rows EXCEPT ![a] = wa] EXCEPT ![b] = wb]
    <2>2. wa \in Row /\ wa.form # "unborn" /\ wb \in Row /\ wb.form # "unborn"
      BY <1>2, RowUpdates
    <2>3. child \in Row /\ child.form # "unborn"
      BY <1>1 DEF Unborn, Row
    <2>4. parents = [rows EXCEPT ![a] = Gone(@, "merged"), ![b] = Gone(@, "merged")]
      BY <2>1
    <2> HIDE DEF wa, wb, child
    <2>5. IsTable(parents, got[r])
      BY <2>2, TableExcept
    <2> HIDE DEF parents
    <2>6. draft' = [draft EXCEPT ![r] = Drafted(Put(parents, m, child))]
      BY <2>1, <2>4 DEF child
    <2> QED BY <1>1, <2>1, <2>3, <2>5, <2>6, TablePlusNewWorked
  <1>7. CASE ReturnHome(r, rows, alive)
    <2>1. PICK m \in alive :
             draft' = [draft EXCEPT ![r] =
                [Drafted([rows EXCEPT ![m] = Gone(@, "returned")]) EXCEPT !.cores = 1]]
      BY <1>7 DEF ReturnHome
    <2> DEFINE w == Gone(rows[m], "returned")
               table == [rows EXCEPT ![m] = w]
               d == [Drafted(table) EXCEPT !.cores = 1]
    <2>2. w \in Row /\ w.form # "unborn"
      BY <1>2, RowUpdates
    <2>3. draft' = [draft EXCEPT ![r] = d]
      BY <2>1
    <2> HIDE DEF w
    <2>4. IsTable(table, got[r])
      BY <2>2, TableExcept
    <2> HIDE DEF table
    <2>5. DOMAIN d = {"rows", "fights", "cores"} /\ d.rows = table /\ d.fights = 0 /\ d.cores = 1
      BY DraftedFields
    <2> HIDE DEF d
    <2>6. Worked(r, d)
      BY <1>1, <2>3, <2>4, <2>5 DEF Worked, IsTable
    <2> QED BY <2>6
  <1>8. CASE Fight(r, rows, alive)
    <2> DEFINE d == [Drafted(rows) EXCEPT !.fights = 1]
    <2>1. draft' = [draft EXCEPT ![r] = d] /\ op[r] = "fight" /\ fights < FIGHT_LIMIT /\ alive # {}
      BY <1>8 DEF Fight
    <2>2. DOMAIN d = {"rows", "fights", "cores"} /\ d.rows = rows /\ d.fights = 1 /\ d.cores = 0
      BY DraftedFields
    <2> HIDE DEF d
    <2>3. Worked(r, d)
      BY <1>1, <2>1, <2>2 DEF Worked, IsTable
    <2> QED BY <2>3
  <1>9. CASE Equip(r, rows, alive)
    <2>1. PICK m \in alive, from \in alive, left \in BOOLEAN :
             draft' = [draft EXCEPT ![r] =
                Drafted([rows EXCEPT ![from].geared = @ /\ left, ![m].geared = TRUE])]
      BY <1>9 DEF Equip
    <2> DEFINE b == rows[from].geared /\ left
               w == [rows[from] EXCEPT !.geared = b]
               lent == [rows EXCEPT ![from] = w]
               v == [lent[m] EXCEPT !.geared = TRUE]
               table == [lent EXCEPT ![m] = v]
    <2>2. b \in BOOLEAN
      OBVIOUS
    <2> HIDE DEF b
    <2>3. w \in Row /\ w.form # "unborn"
      BY <1>2, <2>2, RowUpdates
    <2>4. [rows EXCEPT ![from].geared = @ /\ left, ![m].geared = TRUE] = table
      BY DEF b
    <2> HIDE DEF w
    <2>5. IsTable(lent, got[r])
      BY <2>3, TableExcept
    <2> HIDE DEF lent
    <2>6. lent[m] \in Row /\ lent[m].form # "unborn"
      BY <1>2, <2>5 DEF IsTable
    <2>7. v \in Row /\ v.form # "unborn"
      BY <2>6, RowUpdates
    <2> HIDE DEF v
    <2>8. IsTable(table, got[r])
      BY <2>5, <2>7, TableExcept
    <2> HIDE DEF table
    <2> QED BY <1>1, <2>1, <2>4, <2>8, TableWorked
  <1>12. CASE Unequip(r, rows, alive)
    <2>1. PICK m \in alive, left \in BOOLEAN :
             draft' = [draft EXCEPT ![r] = Drafted([rows EXCEPT ![m].geared = @ /\ left])]
      BY <1>12 DEF Unequip
    <2> DEFINE b == rows[m].geared /\ left
               w == [rows[m] EXCEPT !.geared = b]
    <2>2. b \in BOOLEAN
      OBVIOUS
    <2> HIDE DEF b
    <2>3. w \in Row /\ w.form # "unborn"
      BY <1>2, <2>2, RowUpdates
    <2>4. [rows EXCEPT ![m].geared = @ /\ left] = [rows EXCEPT ![m] = w]
      BY DEF b
    <2> HIDE DEF w
    <2>5. IsTable([rows EXCEPT ![m] = w], got[r])
      BY <2>3, TableExcept
    <2> QED BY <1>1, <2>1, <2>4, <2>5, TableWorked
  <1>10. CASE Explore(r, rows, alive)
    <2>1. PICK m \in alive :
             draft' = [draft EXCEPT ![r] = Drafted([rows EXCEPT ![m].away = TRUE])]
      BY <1>10 DEF Explore
    <2> DEFINE w == [rows[m] EXCEPT !.away = TRUE]
    <2>2. w \in Row /\ w.form # "unborn"
      BY <1>2, RowUpdates
    <2>3. [rows EXCEPT ![m].away = TRUE] = [rows EXCEPT ![m] = w]
      OBVIOUS
    <2> HIDE DEF w
    <2>4. IsTable([rows EXCEPT ![m] = w], got[r])
      BY <2>2, TableExcept
    <2> QED BY <1>1, <2>1, <2>3, <2>4, TableWorked
  <1>11. CASE Collect(r, rows, alive)
    <2>1. PICK m \in alive :
             draft' = [draft EXCEPT ![r] = Drafted([rows EXCEPT ![m].away = FALSE])]
      BY <1>11 DEF Collect
    <2> DEFINE w == [rows[m] EXCEPT !.away = FALSE]
    <2>2. w \in Row /\ w.form # "unborn"
      BY <1>2, RowUpdates
    <2>3. [rows EXCEPT ![m].away = FALSE] = [rows EXCEPT ![m] = w]
      OBVIOUS
    <2> HIDE DEF w
    <2>4. IsTable([rows EXCEPT ![m] = w], got[r])
      BY <2>2, TableExcept
    <2> QED BY <1>1, <2>1, <2>3, <2>4, TableWorked
  <1> QED BY <1>3, <1>4, <1>5, <1>6, <1>7, <1>8, <1>9, <1>10, <1>11, <1>12 DEF Work

---------------------------------------------------------------------------

LEMMA InitInv == Init => IInv
  <1> SUFFICES ASSUME Init PROVE IInv
    OBVIOUS
  <1>1. Cardinality(Starters) \in Nat
    BY RosterAssumption, FS_CardinalityType
  <1>2. row \in [Monsters -> Row] /\ \A m \in Monsters : row[m].end = "none"
    <2>1. PICK order \in StarterOrders :
             row = [m \in Monsters |->
                  IF m \in Starters
                  THEN [Unborn EXCEPT !.form = "ultimate", !.chosen = order[m]]
                  ELSE Unborn]
      BY DEF Init
    <2>2. \A m \in Starters : order[m] \in Nat
      <3>1. order \in [Starters -> 1..Cardinality(Starters)]
        BY DEF StarterOrders
      <3> QED BY <1>1, <3>1
    <2>3. \A t \in Nat : LET w == [Unborn EXCEPT !.form = "ultimate", !.chosen = t]
                         IN  w \in Row /\ w.end = "none"
      BY DEF Unborn, Row
    <2> QED BY <2>1, <2>2, <2>3, UnbornIsRow
  <1>3. \A r \in Requests : /\ draft[r].rows = [m \in {} |-> Unborn]
                            /\ draft[r].fights = 0
                            /\ draft[r].cores = 0
    BY DraftedFields DEF Init, NoDraft
  <1>4. TypeOK
    <2>1. op \in [Requests -> AllOps]
      BY RosterAssumption DEF Init
    <2>2. DOMAIN draft = Requests /\ clock \in Nat
      BY <1>1 DEF Init
    <2>3. /\ DOMAIN [m \in {} |-> Unborn] \subseteq Monsters
          /\ \A m \in DOMAIN [n \in {} |-> Unborn] : Unborn \in Row
      OBVIOUS
    <2>4. \A r \in Requests :
             /\ DOMAIN draft[r].rows \subseteq Monsters
             /\ \A m \in DOMAIN draft[r].rows : draft[r].rows[m] \in Row
             /\ draft[r].fights \in {0, 1}
             /\ draft[r].cores \in {0, 1}
      BY <1>3, <2>3
    <2>5. \A r \in Requests : DOMAIN draft[r] = {"rows", "fights", "cores"}
      BY DEF Init, NoDraft, Drafted
    <2> QED BY <1>2, <2>1, <2>2, <2>4, <2>5 DEF Init, TypeOK
  <1>5. \A r \in Requests : /\ ~Open(r) /\ pc[r] \notin Writing \cup Ended
                            /\ unlocked[r] = {} /\ dirty[r] = {}
    BY DEF Init, Open, Writing, FallenBack, Ended
  <1>6. FightsCounted
    <2>1. fights = 0 /\ FIGHT_LIMIT \in Nat /\ \A r \in Requests : draft[r].fights = 0
      BY <1>3, RosterAssumption DEF Init
    <2>2. UnlockedFights = {}
      BY <1>5 DEF UnlockedFights
    <2> QED BY <2>1, <2>2, FS_EmptySet DEF FightsCounted, FightsWithinLimit
  <1>7. NothingYet /\ LocksKept /\ SnapshotsBorn /\ SnapshotsOrdered
    BY <1>5 DEF Init, NothingYet, LocksKept, SnapshotsBorn, SnapshotsOrdered
  <1>8. DraftsOwned /\ DraftsApart /\ FellBackOn
    BY <1>3, <1>5 DEF DraftsOwned, DraftsApart, FellBackOn, FellBackAs, Writing
  <1> QED BY <1>2, <1>4, <1>6, <1>7, <1>8 DEF IInv, UnbornNotEnded

(* Drafts after request r's is forgotten. *)
LEMMA ForgetDrafts ==
    ASSUME TypeOK, NEW r \in Requests, draft' = [draft EXCEPT ![r] = NoDraft]
    PROVE  /\ DOMAIN draft' = Requests
           /\ DOMAIN draft'[r] = {"rows", "fights", "cores"}
           /\ DOMAIN draft'[r].rows = {} /\ draft'[r].fights = 0 /\ draft'[r].cores = 0
           /\ \A s \in Requests : s # r => draft'[s] = draft[s]
  <1>1. DOMAIN NoDraft = {"rows", "fights", "cores"} /\ DOMAIN NoDraft.rows = {}
        /\ NoDraft.fights = 0 /\ NoDraft.cores = 0
    BY DEF NoDraft, Drafted
  <1> QED BY <1>1 DEF TypeOK

(* What a request leaves behind when its transaction ends. *)
LEMMA EndType ==
    ASSUME TypeOK, NEW r \in Requests, NEW e \in Ended,
           pc' = [pc EXCEPT ![r] = e], Forget(r)
    PROVE  /\ pc' \in [Requests -> {"idle", "begun", "locking", "relocking", "acting"}
                                  \cup FallenBack \cup Ended]
           /\ holder' \in [Monsters -> Requests \cup {NoRequest}]
           /\ DOMAIN draft' = Requests
           /\ \A s \in Requests :
                 /\ DOMAIN draft'[s] = {"rows", "fights", "cores"}
                 /\ DOMAIN draft'[s].rows \subseteq Monsters
                 /\ \A m \in DOMAIN draft'[s].rows : draft'[s].rows[m] \in Row
                 /\ draft'[s].fights \in {0, 1}
                 /\ draft'[s].cores \in {0, 1}
           /\ ~Open(r)'
           /\ \A s \in Requests : s # r => (Open(s)' <=> Open(s)) /\ pc'[s] = pc[s]
           /\ \A m \in Monsters : holder[m] # r => holder'[m] = holder[m]
  BY ForgetDrafts, ZenonT(60) DEF TypeOK, Forget, Release, Open, Ended, FallenBack

LEMMA UndoInv ==
    ASSUME IInv, NEW r \in Requests, Open(r), Undo(r)
    PROVE  IInv'
  <1>1. /\ pc' = [pc EXCEPT ![r] = "rolledBack"] /\ Forget(r)
        /\ row' = row /\ fights' = fights /\ cores' = cores
        /\ draft' = [draft EXCEPT ![r] = NoDraft]
        /\ snap' = snap /\ visited' = visited /\ got' = got /\ TypeOK
        /\ op' = op /\ unlocked' = unlocked /\ dirty' = dirty
    BY DEF Undo, Forget, tables, IInv
  <1>2. TypeOK'
    <2>1. /\ op' = op /\ now' = now /\ snap' = snap /\ rank' = rank /\ visited' = visited
          /\ got' = got /\ unlocked' = unlocked /\ dirty' = dirty /\ clock' = clock
      BY <1>1 DEF Forget
    <2>2. fights' \in Nat /\ cores' \in Nat
      BY <1>1 DEF TypeOK
    <2>3. /\ pc' \in [Requests -> {"idle", "begun", "locking", "relocking", "acting"}
                                  \cup FallenBack \cup Ended]
          /\ holder' \in [Monsters -> Requests \cup {NoRequest}]
          /\ DOMAIN draft' = Requests
          /\ \A s \in Requests :
                /\ DOMAIN draft'[s] = {"rows", "fights", "cores"}
                /\ DOMAIN draft'[s].rows \subseteq Monsters
                /\ \A m \in DOMAIN draft'[s].rows : draft'[s].rows[m] \in Row
                /\ draft'[s].fights \in {0, 1}
                /\ draft'[s].cores \in {0, 1}
      BY <1>1, EndType DEF Ended
    <2> QED BY <1>1, <2>1, <2>2, <2>3 DEF TypeOK
  <1>3. /\ ~Open(r)' /\ pc'[r] = "rolledBack"
        /\ \A s \in Requests : s # r => (Open(s)' <=> Open(s)) /\ pc'[s] = pc[s]
        /\ \A m \in Monsters : holder[m] # r => holder'[m] = holder[m]
    BY <1>1, EndType DEF Ended, TypeOK
  <1>4. NothingYet'
    BY <1>1, <1>3 DEF IInv, NothingYet
  <1>5. LocksKept'
    <2> SUFFICES ASSUME NEW s \in Requests, Open(s)'
                 PROVE  /\ \A m \in visited[s] : holder'[m] = s
                        /\ got[s] \subseteq visited[s]
                        /\ got[s] \subseteq snap[s]
                        /\ got[s] \subseteq Living
      BY <1>1 DEF LocksKept, Living, IsLiving
    <2>1. s # r /\ Open(s) /\ visited[s] \subseteq Monsters
      BY <1>1, <1>3 DEF TypeOK
    <2> QED BY <1>3, <2>1 DEF IInv, LocksKept
  <1>6. Revivers' = Revivers /\ UnlockedFights' = UnlockedFights
    <2>1. pc[r] # "committed"
      BY DEF Open, FallenBack
    <2> QED BY <1>1, <1>3, <2>1, SameCommitted
  <1>7. SnapshotsBorn' /\ SnapshotsOrdered'
    <2>1. \A s \in Requests : Open(s)' => Open(s)
      BY <1>3
    <2>2. SnapshotsBorn'
      BY <1>1, <2>1 DEF IInv, SnapshotsBorn
    <2>3. Living' = Living
      BY <1>1 DEF Living, IsLiving
    <2>4. SnapshotsOrdered'
      BY <1>1, <1>6, <2>1, <2>3 DEF IInv, SnapshotsOrdered
    <2> QED BY <2>2, <2>4
  <1>8. /\ DOMAIN draft'[r].rows = {} /\ draft'[r].fights = 0
        /\ \A s \in Requests : s # r => draft'[s] = draft[s]
    BY <1>1, ForgetDrafts
  <1>9. DraftsOwned' /\ DraftsApart'
    <2>1. \A s \in Requests : s # r => \A m : IsLoose(s, m)' <=> IsLoose(s, m)
      BY <1>1, <1>3 DEF IsLoose
    <2>2. DraftsApart'
      BY <1>8, <2>1 DEF IInv, DraftsApart
    <2>3. DraftsOwned'
      BY <1>1, <1>3, <1>8 DEF IInv, DraftsOwned, ToLock, Writing, FallenBack
    <2> QED BY <2>2, <2>3
  <1>10. FellBackOn'
    <2> SUFFICES ASSUME NEW s \in Requests
                 PROVE  FellBackAs(s)'
      BY DEF FellBackOn
    <2>1. CASE s = r
      BY <1>1, <1>3, <2>1 DEF IInv, FellBackOn, FellBackAs, Writing, FallenBack, Ended
    <2>2. CASE s # r
      <3>1. unlocked[s] \subseteq Monsters
        BY <1>1 DEF TypeOK
      <3> QED BY <1>1, <1>3, <1>8, <2>2, <3>1 DEF IInv, FellBackOn, FellBackAs
    <2> QED BY <2>1, <2>2
  <1>11. UnbornNotEnded' /\ FightsCounted'
    BY <1>1, <1>6, <1>8 DEF IInv, UnbornNotEnded, FightsCounted, FightsWithinLimit
  <1> QED BY <1>2, <1>4, <1>5, <1>7, <1>9, <1>10, <1>11 DEF IInv

(* A committed request changes only monsters it holds and new rows:        *)
(* nothing that is gone comes back, unless it was read before it went and  *)
(* saved whole.                                                            *)
LEMMA CommitRows ==
    ASSUME IInv, NEW r \in Requests, Commit(r)
    PROVE  /\ row' \in [Monsters -> Row]
           /\ \A m \in Monsters :
                 /\ row[m].end # "none" => \/ row'[m].end = row[m].end
                                          \/ (m \in unlocked[r] /\ "end" \in dirty[r])
                 /\ row'[m] # row[m] => m \in Works(r) \/ row[m].form = "unborn"
                 /\ row'[m].form = "unborn" => row'[m] = row[m]
  <1>1. row' = [m \in Monsters |->
                IF m \in DOMAIN draft[r].rows THEN draft[r].rows[m] ELSE row[m]]
    BY DEF Commit
  <1>2. row' \in [Monsters -> Row]
    BY <1>1 DEF IInv, TypeOK
  <1> SUFFICES ASSUME NEW m \in Monsters
               PROVE  /\ row[m].end # "none" => \/ row'[m].end = row[m].end
                                               \/ (m \in unlocked[r] /\ "end" \in dirty[r])
                      /\ row'[m] # row[m] => m \in Works(r) \/ row[m].form = "unborn"
                      /\ row'[m].form = "unborn" => row'[m] = row[m]
    BY <1>2
  <1>3. CASE m \in DOMAIN draft[r].rows
    <2>1. pc[r] = "acting" /\ Open(r)
      BY DEF Commit, Open
    <2>2. m \in got[r] \/ m \in unlocked[r] \/ row[m].form = "unborn"
      BY <1>3 DEF IInv, DraftsOwned
    <2>3. m \notin unlocked[r] => row[m].end = "none"
      BY <2>1, <2>2 DEF IInv, LocksKept, Living, IsLiving, UnbornNotEnded
    <2>4. m \in unlocked[r] => \/ draft[r].rows[m].end = row[m].end
                              \/ "end" \in dirty[r]
      BY <2>1 DEF IInv, FellBackOn, FellBackAs
    <2>5. row'[m].form # "unborn" /\ row'[m] = draft[r].rows[m]
      BY <1>1, <1>3 DEF IInv, DraftsOwned
    <2> QED BY <2>2, <2>3, <2>4, <2>5 DEF Works
  <1>4. CASE m \notin DOMAIN draft[r].rows
    BY <1>1, <1>4
  <1> QED BY <1>3, <1>4

(* It leaves alone what other requests hold. *)
LEMMA CommitSpares ==
    ASSUME IInv, NEW r \in Requests, Commit(r), NEW s \in Requests, s # r, NEW m \in Monsters,
           holder[m] = s, row[m].form # "unborn"
    PROVE  row'[m] = row[m]
  <1>1. pc[r] = "acting"
    BY DEF Commit
  <1>2. m \notin Works(r)
    BY <1>1, WorksHeld
  <1> QED BY <1>2, CommitRows

(* What a commit does to the counts of those without a lock. *)
LEMMA CommitCounts ==
    ASSUME IInv, NEW r \in Requests, Commit(r)
    PROVE  /\ Revivers' = Revivers \cup {x \in {r} : "end" \in dirty[r]}
           /\ UnlockedFights' =
                UnlockedFights \cup {x \in {r} : op[r] = "fight" /\ unlocked[r] # {}}
           /\ r \notin Revivers /\ r \notin UnlockedFights
           /\ IsFiniteSet(Revivers) /\ IsFiniteSet(UnlockedFights)
  <1>1. /\ pc[r] = "acting" /\ pc'[r] = "committed" /\ op' = op
        /\ dirty' = dirty /\ unlocked' = unlocked
        /\ \A s \in Requests : s # r => pc'[s] = pc[s]
    BY DEF Commit, Forget, IInv, TypeOK
  <1>2. Revivers' = Revivers \cup {x \in {r} : "end" \in dirty[r]}
    BY <1>1 DEF Revivers
  <1>3. UnlockedFights' = UnlockedFights \cup {x \in {r} : op[r] = "fight" /\ unlocked[r] # {}}
    BY <1>1 DEF UnlockedFights
  <1>4. r \notin Revivers /\ r \notin UnlockedFights
    BY <1>1 DEF Revivers, UnlockedFights
  <1>5. IsFiniteSet(Revivers) /\ IsFiniteSet(UnlockedFights)
    BY RosterAssumption, FS_Subset DEF Revivers, UnlockedFights
  <1> QED BY <1>2, <1>3, <1>4, <1>5

(* A fight that is committed was counted, or is one without a lock. *)
LEMMA CommitFights ==
    ASSUME IInv, NEW r \in Requests, Commit(r)
    PROVE  FightsCounted'
  <1> DEFINE n == Cardinality(UnlockedFights)
             k == Cardinality(UnlockedFights')
  <1>1. /\ pc[r] = "acting" /\ op' = op /\ got' = got /\ unlocked' = unlocked
        /\ fights' = fights + draft[r].fights
        /\ draft'[r].fights = 0
        /\ \A s \in Requests : s # r => draft'[s] = draft[s]
    BY ForgetDrafts DEF Commit, Forget, IInv
  <1>2. fights \in Nat /\ FIGHT_LIMIT \in Nat /\ draft[r].fights \in {0, 1}
    BY RosterAssumption DEF IInv, TypeOK
  <1>3. n \in Nat
    BY CommitCounts, FS_CardinalityType
  <1>4. /\ k \in Nat /\ n <= k
        /\ op[r] = "fight" /\ unlocked[r] # {} => k = n + 1
    <2>1. CASE op[r] = "fight" /\ unlocked[r] # {}
      <3>1. UnlockedFights' = UnlockedFights \cup {r}
        BY <2>1, CommitCounts
      <3>2. k = n + 1
        BY <3>1, CommitCounts, FS_AddElement
      <3> QED BY <1>3, <3>2
    <2>2. CASE ~(op[r] = "fight" /\ unlocked[r] # {})
      <3>1. UnlockedFights' = UnlockedFights
        BY <2>2, CommitCounts
      <3> QED BY <1>3, <2>2, <3>1
    <2> QED BY <2>1, <2>2
  <1>5. \A s \in Requests : draft'[s].fights = 1 => op'[s] = "fight"
    BY <1>1 DEF IInv, FightsCounted
  <1> SUFFICES ASSUME Revivers' = {}
               PROVE  /\ fights' <= FIGHT_LIMIT + k
                      /\ \A s \in Requests :
                            draft'[s].fights = 1 /\ unlocked[s] = {} =>
                               got[s] # {} /\ fights' < FIGHT_LIMIT + k
    BY <1>1, <1>5 DEF FightsCounted, FightsWithinLimit
  <1>6. Revivers = {}
    BY CommitCounts
  <1>7. /\ fights <= FIGHT_LIMIT + n
        /\ \A s \in Requests : draft[s].fights = 1 /\ unlocked[s] = {} =>
                                  got[s] # {} /\ fights < FIGHT_LIMIT + n
        /\ \A s \in Requests : draft[s].fights = 1 => op[s] = "fight"
    BY <1>6 DEF IInv, FightsCounted, FightsWithinLimit
  <1> HIDE DEF n, k
  <1>8. fights' <= FIGHT_LIMIT + k
    <2>1. CASE draft[r].fights = 0
      BY <1>1, <1>2, <1>3, <1>4, <1>7, <2>1
    <2>2. CASE draft[r].fights = 1 /\ unlocked[r] = {}
      BY <1>1, <1>2, <1>3, <1>4, <1>7, <2>2
    <2>3. CASE draft[r].fights = 1 /\ unlocked[r] # {}
      BY <1>1, <1>2, <1>3, <1>4, <1>7, <2>3
    <2> QED BY <1>2, <2>1, <2>2, <2>3
  <1>9. ASSUME NEW s \in Requests, draft'[s].fights = 1, unlocked[s] = {}
        PROVE  got[s] # {} /\ fights' < FIGHT_LIMIT + k
    <2>1. s # r /\ draft[s].fights = 1
      BY <1>1, <1>9
    <2>2. got[s] # {} /\ fights < FIGHT_LIMIT + n
      BY <1>7, <1>9, <2>1
    <2>3. pc[s] = "acting"
      BY <1>9, <2>1 DEF IInv, DraftsOwned, Writing, FellBackOn, FellBackAs
    <2>4. CASE unlocked[r] = {}
      <3>1. got[r] = {}
        BY <1>1, <1>6, <1>9, <2>1, <2>2, <2>3, <2>4, InvOneAtATime DEF OneAtATime
      <3>2. draft[r].fights = 0
        BY <1>2, <1>7, <2>4, <3>1
      <3> QED BY <1>1, <1>2, <1>3, <1>4, <2>2, <3>2
    <2>5. CASE unlocked[r] # {}
      BY <1>1, <1>2, <1>3, <1>4, <1>7, <2>2, <2>5
    <2> QED BY <2>4, <2>5
  <1> QED BY <1>8, <1>9

LEMMA CommitInv ==
    ASSUME IInv, NEW r \in Requests, Commit(r)
    PROVE  IInv'
  <1>1. /\ pc' = [pc EXCEPT ![r] = "committed"] /\ Forget(r) /\ pc[r] = "acting"
        /\ fights' = fights + draft[r].fights /\ cores' = cores + draft[r].cores
        /\ draft' = [draft EXCEPT ![r] = NoDraft]
        /\ snap' = snap /\ visited' = visited /\ got' = got /\ TypeOK
        /\ op' = op /\ unlocked' = unlocked /\ dirty' = dirty
    BY DEF Commit, Forget, IInv
  <1>2. /\ row' \in [Monsters -> Row]
        /\ \A m \in Monsters :
              /\ row[m].end # "none" => \/ row'[m].end = row[m].end
                                       \/ (m \in unlocked[r] /\ "end" \in dirty[r])
              /\ row'[m] # row[m] => m \in Works(r) \/ row[m].form = "unborn"
              /\ row'[m].form = "unborn" => row'[m] = row[m]
    BY CommitRows
  <1>3. TypeOK'
    <2>1. /\ op' = op /\ now' = now /\ snap' = snap /\ rank' = rank /\ visited' = visited
          /\ got' = got /\ unlocked' = unlocked /\ dirty' = dirty /\ clock' = clock
      BY <1>1 DEF Forget
    <2>2. fights' \in Nat /\ cores' \in Nat
      <3>1. fights \in Nat /\ cores \in Nat /\ draft[r].fights \in {0, 1} /\ draft[r].cores \in {0, 1}
        BY <1>1 DEF TypeOK
      <3> QED BY <1>1, <3>1
    <2>3. /\ pc' \in [Requests -> {"idle", "begun", "locking", "relocking", "acting"}
                                  \cup FallenBack \cup Ended]
          /\ holder' \in [Monsters -> Requests \cup {NoRequest}]
          /\ DOMAIN draft' = Requests
          /\ \A s \in Requests :
                /\ DOMAIN draft'[s] = {"rows", "fights", "cores"}
                /\ DOMAIN draft'[s].rows \subseteq Monsters
                /\ \A m \in DOMAIN draft'[s].rows : draft'[s].rows[m] \in Row
                /\ draft'[s].fights \in {0, 1}
                /\ draft'[s].cores \in {0, 1}
      BY <1>1, EndType DEF Ended
    <2> QED BY <1>1, <1>2, <2>1, <2>2, <2>3 DEF TypeOK
  <1>4. /\ ~Open(r)' /\ pc'[r] = "committed"
        /\ \A s \in Requests : s # r => (Open(s)' <=> Open(s)) /\ pc'[s] = pc[s]
        /\ \A m \in Monsters : holder[m] # r => holder'[m] = holder[m]
    BY <1>1, EndType DEF Ended, TypeOK
  <1>5. Open(r)
    BY <1>1 DEF Open
  <1>6. /\ DOMAIN draft'[r].rows = {}
        /\ draft'[r].fights = 0
        /\ \A s \in Requests : s # r => draft'[s] = draft[s]
    BY <1>1, ForgetDrafts
  <1>7. NothingYet'
    BY <1>1, <1>4 DEF IInv, NothingYet
  <1>8. LocksKept'
    <2> SUFFICES ASSUME NEW s \in Requests, Open(s)'
                 PROVE  /\ \A m \in visited[s] : holder'[m] = s
                        /\ got[s] \subseteq visited[s]
                        /\ got[s] \subseteq snap[s]
                        /\ got[s] \subseteq Living'
      BY <1>1 DEF LocksKept
    <2>1. s # r /\ Open(s) /\ visited[s] \subseteq Monsters /\ got[s] \subseteq Monsters
      BY <1>1, <1>4 DEF TypeOK
    <2>2. /\ \A m \in visited[s] : holder[m] = s
          /\ got[s] \subseteq visited[s] /\ got[s] \subseteq snap[s] /\ got[s] \subseteq Living
      BY <2>1 DEF IInv, LocksKept
    <2>3. \A m \in got[s] : row'[m] = row[m]
      BY <2>1, <2>2, CommitSpares DEF Living, IsLiving
    <2>4. got[s] \subseteq Living'
      BY <2>2, <2>3 DEF Living, IsLiving
    <2> QED BY <1>4, <2>1, <2>2, <2>4
  <1>9. SnapshotsBorn'
    <2> SUFFICES ASSUME NEW s \in Requests, Open(s)', NEW m \in snap[s]
                 PROVE  row'[m].form # "unborn"
      BY <1>1 DEF SnapshotsBorn
    <2>1. Open(s) /\ m \in Monsters
      BY <1>1, <1>4 DEF TypeOK
    <2>2. row[m].form # "unborn"
      BY <2>1 DEF IInv, SnapshotsBorn
    <2> QED BY <1>2, <2>1, <2>2
  <1>10. SnapshotsOrdered'
    <2> SUFFICES ASSUME Revivers' = {}
                 PROVE  \A s, t \in Requests : Open(s)' /\ Open(t)' =>
                           \/ snap[s] \cap Living' \subseteq snap[t]
                           \/ snap[t] \cap Living' \subseteq snap[s]
      BY <1>1 DEF SnapshotsOrdered
    <2>1. Revivers = {} /\ "end" \notin dirty[r]
      BY CommitCounts
    <2>2. \A s \in Requests : Open(s) => snap[s] \cap Living' \subseteq snap[s] \cap Living
      <3> SUFFICES ASSUME NEW s \in Requests, Open(s), NEW m \in snap[s] \cap Living'
                   PROVE  m \in Living
        OBVIOUS
      <3>1. m \in Monsters /\ row[m].form # "unborn" /\ IsLiving(row[m])'
        BY DEF IInv, SnapshotsBorn, Living
      <3>2. row[m].end = "none"
        BY <1>2, <2>1, <3>1 DEF IsLiving
      <3> QED BY <3>1, <3>2 DEF Living, IsLiving
    <2>3. \A s \in Requests : Open(s)' => Open(s)
      BY <1>4, <1>5
    <2> QED BY <1>1, <2>1, <2>2, <2>3 DEF IInv, SnapshotsOrdered
  <1>11. \A s \in Requests : s # r => \A m : IsLoose(s, m)' <=> IsLoose(s, m)
    BY <1>1, <1>4 DEF IsLoose
  <1>12. DraftsApart'
    BY <1>6, <1>11 DEF IInv, DraftsApart
  <1>13. DraftsOwned'
    <2>1. ASSUME NEW s \in Requests
          PROVE  /\ pc'[s] \in Writing => ToLock(s)' = {}
                 /\ pc'[s] \notin Writing => DOMAIN draft'[s].rows = {} /\ draft'[s].fights = 0
                 /\ \A m \in DOMAIN draft'[s].rows :
                       /\ m \in got[s] \/ m \in unlocked[s] \/ row'[m].form = "unborn"
                       /\ draft'[s].rows[m].form # "unborn"
      <3>1. CASE s = r
        BY <1>4, <1>6, <3>1 DEF Writing, FallenBack
      <3>2. CASE s # r
        <4>1. draft'[s] = draft[s] /\ pc'[s] = pc[s]
          BY <1>4, <1>6, <3>2
        <4>2. ASSUME NEW m \in DOMAIN draft[s].rows, row[m].form = "unborn"
              PROVE  row'[m].form = "unborn"
          <5>1. m \in Monsters /\ m \notin unlocked[s] /\ m \notin unlocked[r]
            BY <1>1, <4>2 DEF IInv, TypeOK, FellBackOn, FellBackAs
          <5>2. m \notin DOMAIN draft[r].rows
            BY <3>2, <5>1 DEF IInv, DraftsApart, IsLoose
          <5>3. row'[m] = row[m]
            BY <5>1, <5>2 DEF Commit
          <5> QED BY <4>2, <5>3
        <4> QED BY <1>1, <4>1, <4>2 DEF IInv, DraftsOwned, ToLock
      <3> QED BY <3>1, <3>2
    <2> QED BY <1>1, <2>1 DEF DraftsOwned
  <1>14. FellBackOn'
    <2> SUFFICES ASSUME NEW s \in Requests
                 PROVE  FellBackAs(s)'
      BY DEF FellBackOn
    <2>1. unlocked[s] \subseteq Monsters /\ FellBackAs(s)
      BY <1>1 DEF TypeOK, IInv, FellBackOn
    <2>2. \A m \in unlocked[s] : row'[m].form # "unborn"
      BY <1>2, <2>1 DEF FellBackAs
    <2>3. CASE s = r
      BY <1>1, <1>4, <2>1, <2>2, <2>3 DEF FellBackAs, Writing, FallenBack, Ended
    <2>4. CASE s # r
      <3>1. pc'[s] = pc[s] /\ draft'[s] = draft[s]
        BY <1>4, <1>6, <2>4
      <3>2. ASSUME pc[s] = "acting", NEW m \in unlocked[s]
            PROVE  row'[m] = row[m] /\ holder'[m] = s
        <4>1. m \in Monsters /\ holder[m] = s /\ row[m].form # "unborn"
          BY <2>1, <3>2 DEF FellBackAs
        <4> QED BY <1>4, <2>4, <4>1, CommitSpares
      <3> QED BY <1>1, <2>1, <2>2, <3>1, <3>2 DEF FellBackAs
    <2> QED BY <2>3, <2>4
  <1>15. UnbornNotEnded'
    BY <1>2 DEF IInv, UnbornNotEnded
  <1> QED BY <1>3, <1>7, <1>8, <1>9, <1>10, <1>12, <1>13, <1>14, <1>15, CommitFights DEF IInv

---------------------------------------------------------------------------

(* What a request has locked is in nobody else's draft, except in that of  *)
(* one who has not locked it yet.                                          *)
LEMMA GotIsApart ==
    ASSUME IInv, NEW r \in Requests, Open(r), NEW m \in got[r],
           NEW s \in Requests, s # r, m \in DOMAIN draft[s].rows
    PROVE  IsLoose(s, m)
  <1>1. holder[m] = r /\ m \in Living
    BY DEF IInv, LocksKept
  <1>2. pc[s] \in Writing /\ (m \in got[s] \/ m \in unlocked[s])
    BY <1>1 DEF IInv, DraftsOwned, Living, IsLiving
  <1>3. m \notin got[s]
    BY <1>1, <1>2 DEF IInv, LocksKept, Writing, Open
  <1>4. pc[s] # "acting"
    BY <1>1, <1>2, <1>3 DEF IInv, FellBackOn, FellBackAs
  <1> QED BY <1>2, <1>3, <1>4 DEF IsLoose, Writing

(* A request works on what it has locked and on rows nobody else has.       *)
LEMMA ActInv ==
    ASSUME IInv, NEW r \in Requests, Act(r)
    PROVE  IInv'
  <1>1. /\ pc' = [pc EXCEPT ![r] = "acting"] /\ HasLocked(r)
        /\ op' = op /\ now' = now /\ snap' = snap /\ rank' = rank /\ visited' = visited
        /\ got' = got /\ unlocked' = unlocked /\ dirty' = dirty /\ holder' = holder
        /\ row' = row /\ fights' = fights /\ cores' = cores /\ clock' = clock
    BY DEF Act, tables
  <1>2. /\ Open(r) /\ pc[r] \notin Writing \cup Ended /\ ToLock(r) = {} /\ got[r] \subseteq Monsters
    BY <1>1 DEF HasLocked, Open, IInv, TypeOK, Writing, FallenBack, Ended
  <1>3. PICK d : Worked(r, d)
    <2>1. PICK dead \in SUBSET (got[r] \ Eggs(r)), grown \in SUBSET Eggs(r) :
             Work(r, Ticked(r, dead, grown), got[r] \ dead)
      BY DEF Act
    <2>2. IsTable(Ticked(r, dead, grown), got[r])
      <3>1. \A m \in got[r] : row[m].form # "unborn"
        BY <1>2 DEF IInv, LocksKept, Living, IsLiving
      <3>2. dead \cap grown = {}
        OBVIOUS
      <3> QED BY <3>1, <3>2, TickedRows DEF IsTable, IInv
    <2> QED BY <2>1, <2>2, WorkWorked
  <1>4. /\ DOMAIN draft' = Requests
        /\ draft'[r] = d
        /\ \A s \in Requests : s # r => draft'[s] = draft[s]
    BY <1>3 DEF Worked, IInv, TypeOK
  <1>5. TypeOK'
    <2>1. \A s \in Requests :
             /\ DOMAIN draft'[s] = {"rows", "fights", "cores"}
             /\ DOMAIN draft'[s].rows \subseteq Monsters
             /\ \A m \in DOMAIN draft'[s].rows : draft'[s].rows[m] \in Row
             /\ draft'[s].fights \in {0, 1}
             /\ draft'[s].cores \in {0, 1}
      BY <1>3, <1>4 DEF Worked, IInv, TypeOK
    <2> QED BY <1>1, <1>4, <2>1 DEF IInv, TypeOK
  <1>6. /\ pc'[r] = "acting"
        /\ \A s \in Requests : /\ Open(s)' <=> Open(s)
                               /\ s # r => pc'[s] = pc[s]
    BY <1>1, <1>2 DEF IInv, TypeOK, Open
  <1>7. unlocked[r] = {} /\ dirty[r] = {}
    BY <1>2 DEF IInv, FellBackOn, FellBackAs
  <1>8. NothingYet'
    BY <1>1, <1>6 DEF IInv, TypeOK, NothingYet
  <1>9. Revivers' = Revivers /\ UnlockedFights' = UnlockedFights
    BY <1>1, <1>2, <1>6, SameCommitted DEF IInv, Ended
  <1>10. LocksKept' /\ SnapshotsBorn' /\ SnapshotsOrdered' /\ UnbornNotEnded'
    <2>1. Living' = Living
      BY <1>1 DEF Living, IsLiving
    <2> QED BY <1>1, <1>6, <1>9, <2>1
         DEF IInv, LocksKept, SnapshotsBorn, SnapshotsOrdered, UnbornNotEnded
  <1>11. DraftsOwned'
    <2>1. ASSUME NEW s \in Requests
          PROVE  /\ pc'[s] \in Writing => ToLock(s)' = {}
                 /\ pc'[s] \notin Writing => DOMAIN draft'[s].rows = {} /\ draft'[s].fights = 0
                 /\ \A m \in DOMAIN draft'[s].rows :
                       /\ m \in got[s] \/ m \in unlocked[s] \/ row[m].form = "unborn"
                       /\ draft'[s].rows[m].form # "unborn"
      <3>1. CASE s = r
        BY <1>1, <1>2, <1>3, <1>4, <1>6, <3>1 DEF IInv, TypeOK, Worked, ToLock, Fresh, Writing
      <3>2. CASE s # r
        BY <1>1, <1>4, <1>6, <3>2 DEF IInv, DraftsOwned, ToLock
      <3> QED BY <3>1, <3>2
    <2> QED BY <1>1, <2>1 DEF DraftsOwned
  <1>12. DraftsApart'
    <2>1. ASSUME NEW s \in Requests, s # r, NEW m \in DOMAIN d.rows, m \in DOMAIN draft[s].rows
          PROVE  IsLoose(s, m)
      <3>1. m \in got[r]
        BY <1>3, <2>1 DEF Worked, Fresh
      <3> QED BY <1>2, <2>1, <3>1, GotIsApart
    <2>2. \A s \in Requests : s # r => \A m : IsLoose(s, m)' <=> IsLoose(s, m)
      BY <1>1, <1>6 DEF IsLoose
    <2> SUFFICES ASSUME NEW s \in Requests, NEW t \in Requests, s # t,
                        NEW m \in DOMAIN draft'[s].rows \cap DOMAIN draft'[t].rows
                 PROVE  IsLoose(s, m)' \/ IsLoose(t, m)'
      BY DEF DraftsApart
    <2>3. CASE s = r
      BY <1>4, <2>1, <2>2, <2>3
    <2>4. CASE t = r
      BY <1>4, <2>1, <2>2, <2>4
    <2>5. CASE s # r /\ t # r
      BY <1>4, <2>2, <2>5 DEF IInv, DraftsApart
    <2> QED BY <2>3, <2>4, <2>5
  <1>13. FellBackOn'
    <2>1. ASSUME NEW s \in Requests PROVE FellBackAs(s)'
      <3>1. FellBackAs(s)
        BY DEF IInv, FellBackOn
      <3>2. CASE s = r
        BY <1>1, <1>6, <1>7, <3>2 DEF FellBackAs, FallenBack
      <3>3. CASE s # r
        BY <1>1, <1>4, <1>6, <3>1, <3>3 DEF FellBackAs
      <3> QED BY <3>2, <3>3
    <2> QED BY <2>1 DEF FellBackOn
  <1>14. FightsCounted'
    <2>1. fights \in Nat /\ FIGHT_LIMIT \in Nat /\ Cardinality(UnlockedFights) \in Nat
      <3>1. IsFiniteSet(UnlockedFights)
        BY RosterAssumption, FS_Subset DEF UnlockedFights
      <3> QED BY <3>1, FS_CardinalityType, RosterAssumption DEF IInv, TypeOK
    <2>2. d.fights = 1 => /\ op[r] = "fight" /\ got[r] # {}
                          /\ fights < FIGHT_LIMIT + Cardinality(UnlockedFights)
      BY <1>3, <2>1 DEF Worked
    <2> QED BY <1>1, <1>4, <1>9, <2>2 DEF IInv, FightsCounted, FightsWithinLimit
  <1> QED BY <1>5, <1>8, <1>10, <1>11, <1>12, <1>13, <1>14 DEF IInv

(* What stays as it is while a request works on a pet it has not locked. *)
LEMMA LooseSteps ==
    ASSUME IInv, NEW r \in Requests, Open(r), Open(r)', pc'[r] # "committed",
           \A s \in Requests : s # r => pc'[s] = pc[s] /\ dirty'[s] = dirty[s]
                                        /\ unlocked'[s] = unlocked[s] /\ draft'[s] = draft[s],
           op' = op, snap' = snap, visited' = visited, got' = got, row' = row,
           fights' = fights,
           draft'[r].fights = 1 => op[r] = "fight" /\ unlocked'[r] # {},
           \A m \in Monsters : \A s \in Requests : s # r /\ holder[m] = s => holder'[m] = s,
           \A m \in Monsters : holder[m] = r => holder'[m] = r
    PROVE  /\ NothingYet' /\ LocksKept' /\ SnapshotsBorn' /\ SnapshotsOrdered'
           /\ UnbornNotEnded' /\ FightsCounted'
           /\ \A s \in Requests : s # r => FellBackAs(s)'
  <1>1. pc[r] \notin {"idle", "begun", "committed"} /\ pc'[r] \notin {"idle", "begun", "committed"}
    BY DEF Open, FallenBack
  <1>2. Living' = Living /\ \A s \in Requests : Open(s)' <=> Open(s)
    BY DEF Living, IsLiving, Open
  <1>3. Revivers' = Revivers /\ UnlockedFights' = UnlockedFights
    BY <1>1, SameCommitted DEF IInv
  <1>4. NothingYet'
    BY <1>1 DEF IInv, NothingYet
  <1>5. LocksKept'
    <2>1. \A s \in Requests : visited[s] \subseteq Monsters
      BY DEF IInv, TypeOK
    <2> QED BY <1>2, <2>1 DEF IInv, LocksKept
  <1>6. SnapshotsBorn' /\ SnapshotsOrdered' /\ UnbornNotEnded'
    BY <1>2, <1>3 DEF IInv, SnapshotsBorn, SnapshotsOrdered, UnbornNotEnded
  <1>7. FightsCounted'
    BY <1>3 DEF IInv, FightsCounted, FightsWithinLimit
  <1>8. ASSUME NEW s \in Requests, s # r
        PROVE  FellBackAs(s)'
    <2>1. FellBackAs(s) /\ unlocked[s] \subseteq Monsters
      BY DEF IInv, FellBackOn, TypeOK
    <2> QED BY <1>8, <2>1 DEF FellBackAs
  <1> QED BY <1>4, <1>5, <1>6, <1>7, <1>8

(* The monster a request falls back on was read while it was living. *)
LEMMA FallBackInv ==
    ASSUME IInv, NEW r \in Requests, FallBack(r)
    PROVE  IInv'
  <1>1. PICK m \in Living \ got[r] :
           /\ unlocked' = [unlocked EXCEPT ![r] = {m}]
           /\ draft' = [draft EXCEPT ![r] = Drafted(Put(Ticked(r, got[r], {}), m, row[m]))]
    BY DEF FallBack
  <1>2. /\ pc' = [pc EXCEPT ![r] = "fellBack"] /\ HasLocked(r) /\ op[r] \in TargetOps
        /\ op' = op /\ now' = now /\ snap' = snap /\ rank' = rank /\ visited' = visited
        /\ got' = got /\ dirty' = dirty /\ holder' = holder
        /\ row' = row /\ fights' = fights /\ cores' = cores /\ clock' = clock
    BY DEF FallBack, tables
  <1>3. /\ Open(r) /\ pc[r] \notin Writing \cup Ended /\ ToLock(r) = {} /\ got[r] \subseteq Monsters
        /\ m \in Monsters /\ row[m] \in Row /\ row[m].form # "unborn" /\ row[m].end = "none"
    BY <1>2 DEF HasLocked, Open, IInv, TypeOK, Writing, FallenBack, Ended, Living, IsLiving
  <1> DEFINE rows == Put(Ticked(r, got[r], {}), m, row[m])
  <1>4. /\ DOMAIN rows = got[r] \cup {m}
        /\ rows[m] = row[m]
        /\ \A n \in DOMAIN rows : rows[n] \in Row /\ rows[n].form # "unborn"
    <2>1. \A n \in got[r] : row[n].form # "unborn"
      BY <1>3 DEF IInv, LocksKept, Living, IsLiving
    <2>2. /\ DOMAIN Ticked(r, got[r], {}) = got[r]
          /\ \A n \in got[r] : /\ Ticked(r, got[r], {})[n] \in Row
                               /\ Ticked(r, got[r], {})[n].form # "unborn"
      BY <2>1, TickedRows DEF IInv
    <2> QED BY <1>3, <2>2 DEF Put
  <1> HIDE DEF rows
  <1>5. /\ DOMAIN draft' = Requests
        /\ draft'[r] = Drafted(rows)
        /\ \A s \in Requests : s # r => draft'[s] = draft[s]
    BY <1>1 DEF rows, IInv, TypeOK
  <1>6. /\ DOMAIN draft'[r] = {"rows", "fights", "cores"}
        /\ draft'[r].rows = rows /\ draft'[r].fights = 0 /\ draft'[r].cores = 0
    BY <1>5, DraftedFields
  <1>7. TypeOK'
    <2>1. \A s \in Requests :
             /\ DOMAIN draft'[s] = {"rows", "fights", "cores"}
             /\ DOMAIN draft'[s].rows \subseteq Monsters
             /\ \A n \in DOMAIN draft'[s].rows : draft'[s].rows[n] \in Row
             /\ draft'[s].fights \in {0, 1}
             /\ draft'[s].cores \in {0, 1}
      BY <1>3, <1>4, <1>5, <1>6 DEF IInv, TypeOK
    <2> QED BY <1>1, <1>2, <1>3, <1>5, <2>1 DEF IInv, TypeOK, FallenBack
  <1>8. /\ pc'[r] = "fellBack" /\ unlocked'[r] = {m} /\ Open(r)'
        /\ \A s \in Requests : s # r => pc'[s] = pc[s] /\ unlocked'[s] = unlocked[s]
    BY <1>1, <1>2 DEF IInv, TypeOK, Open, FallenBack
  <1>9. /\ NothingYet' /\ LocksKept' /\ SnapshotsBorn' /\ SnapshotsOrdered'
        /\ UnbornNotEnded' /\ FightsCounted'
        /\ \A s \in Requests : s # r => FellBackAs(s)'
    BY <1>2, <1>3, <1>5, <1>6, <1>8, LooseSteps
  <1>10. FellBackAs(r)'
    BY <1>2, <1>3, <1>4, <1>6, <1>8 DEF FellBackAs, Writing, FallenBack
  <1>11. DraftsOwned'
    <2>1. ASSUME NEW s \in Requests
          PROVE  /\ pc'[s] \in Writing => ToLock(s)' = {}
                 /\ pc'[s] \notin Writing => DOMAIN draft'[s].rows = {} /\ draft'[s].fights = 0
                 /\ \A n \in DOMAIN draft'[s].rows :
                       /\ n \in got[s] \/ n \in unlocked'[s] \/ row[n].form = "unborn"
                       /\ draft'[s].rows[n].form # "unborn"
      <3>1. CASE s = r
        BY <1>2, <1>3, <1>4, <1>6, <1>8, <3>1 DEF ToLock, Writing, FallenBack
      <3>2. CASE s # r
        BY <1>2, <1>5, <1>8, <3>2 DEF IInv, DraftsOwned, ToLock
      <3> QED BY <3>1, <3>2
    <2> QED BY <1>2, <2>1 DEF DraftsOwned
  <1>12. DraftsApart'
    <2>1. \A s \in Requests : s # r => \A n : IsLoose(s, n)' <=> IsLoose(s, n)
      BY <1>8 DEF IsLoose
    <2>2. ASSUME NEW s \in Requests, s # r, NEW n \in DOMAIN rows, n \in DOMAIN draft[s].rows
          PROVE  IsLoose(r, n)' \/ IsLoose(s, n)'
      <3>1. CASE n = m
        BY <1>8, <3>1 DEF IsLoose, FallenBack
      <3>2. CASE n \in got[r]
        BY <1>3, <2>1, <2>2, <3>2, GotIsApart
      <3> QED BY <1>4, <2>2, <3>1, <3>2
    <2> SUFFICES ASSUME NEW s \in Requests, NEW t \in Requests, s # t,
                        NEW n \in DOMAIN draft'[s].rows \cap DOMAIN draft'[t].rows
                 PROVE  IsLoose(s, n)' \/ IsLoose(t, n)'
      BY DEF DraftsApart
    <2>3. CASE s = r
      BY <1>5, <1>6, <2>2, <2>3
    <2>4. CASE t = r
      BY <1>5, <1>6, <2>2, <2>4
    <2>5. CASE s # r /\ t # r
      BY <1>5, <2>1, <2>5 DEF IInv, DraftsApart
    <2> QED BY <2>3, <2>4, <2>5
  <1> QED BY <1>7, <1>9, <1>10, <1>11, <1>12 DEF IInv, FellBackOn

(* What a handler does with the pet it fell back on leaves everything that *)
(* matters here alone.                                                     *)
UnlockedWorked(r, rows, n) ==
    /\ draft' = [draft EXCEPT ![r] = [Drafted(rows) EXCEPT !.fights = n]]
    /\ n \in {0, 1}
    /\ n = 1 => op[r] = "fight"
    /\ DOMAIN rows = DOMAIN draft[r].rows
    /\ \A m \in DOMAIN rows : /\ rows[m] \in Row
                              /\ rows[m].form = draft[r].rows[m].form
                              /\ rows[m].end = draft[r].rows[m].end
                              /\ rows[m].geared = draft[r].rows[m].geared

LEMMA WorkUnlocked ==
    ASSUME IInv, NEW r \in Requests, op[r] \in TargetOps,
           Work(r, draft[r].rows, unlocked[r])
    PROVE  \E rows : \E n \in {0, 1} : UnlockedWorked(r, rows, n)
  <1> DEFINE old == draft[r].rows
  <1>1. \A m \in DOMAIN old : old[m] \in Row
    BY DEF IInv, TypeOK
  <1>2. \A t : Drafted(t) = [Drafted(t) EXCEPT !.fights = 0]
    BY DEF Drafted
  <1>3. CASE Fight(r, old, unlocked[r])
    <2>1. UnlockedWorked(r, old, 1)
      BY <1>1, <1>3 DEF Fight, UnlockedWorked
    <2> QED BY <2>1
  <1>4. CASE Explore(r, old, unlocked[r]) \/ Collect(r, old, unlocked[r])
    <2>1. PICK m \in unlocked[r], gone \in BOOLEAN :
             draft' = [draft EXCEPT ![r] = Drafted([old EXCEPT ![m].away = gone])]
      BY <1>4 DEF Explore, Collect
    <2> DEFINE t == [old EXCEPT ![m].away = gone]
    <2>2. \A w \in Row : LET x == [w EXCEPT !.away = gone]
                         IN  x \in Row /\ x.form = w.form /\ x.end = w.end /\ x.geared = w.geared
      BY DEF Row
    <2>3. /\ DOMAIN t = DOMAIN old
          /\ \A n \in DOMAIN old : n # m => t[n] = old[n]
          /\ m \in DOMAIN old => t[m] = [old[m] EXCEPT !.away = gone]
      OBVIOUS
    <2> HIDE DEF t
    <2>4. draft' = [draft EXCEPT ![r] = [Drafted(t) EXCEPT !.fights = 0]]
      BY <1>2, <2>1 DEF t
    <2> HIDE DEF old
    <2>5. \A n \in DOMAIN t : /\ t[n] \in Row
                              /\ t[n].form = old[n].form
                              /\ t[n].end = old[n].end
                              /\ t[n].geared = old[n].geared
      BY <1>1, <2>2, <2>3
    <2>6. UnlockedWorked(r, t, 0)
      BY <2>3, <2>4, <2>5 DEF UnlockedWorked, old
    <2> QED BY <2>6
  <1>5. Fight(r, old, unlocked[r]) \/ Explore(r, old, unlocked[r]) \/ Collect(r, old, unlocked[r])
    BY DEF Work, TargetOps, Look, Hatch, Select, Merge, ReturnHome, Equip, Unequip
  <1> QED BY <1>3, <1>4, <1>5

(* A request that keeps the rows of its draft keeps them apart. *)
LEMMA SameDomains ==
    ASSUME IInv, NEW r \in Requests, pc'[r] \in Writing,
           \A m : IsLoose(r, m)' <=> IsLoose(r, m),
           \A s \in Requests : s # r => pc'[s] = pc[s],
           unlocked' = unlocked, got' = got, row' = row, snap' = snap, visited' = visited,
           pc[r] \in Writing, DOMAIN draft'[r].rows = DOMAIN draft[r].rows,
           \A m \in DOMAIN draft'[r].rows : draft'[r].rows[m].form # "unborn",
           \A s \in Requests : s # r => draft'[s] = draft[s]
    PROVE  DraftsOwned' /\ DraftsApart'
  <1>1. \A s \in Requests : \A m : IsLoose(s, m)' <=> IsLoose(s, m)
    BY DEF IsLoose
  <1>2. \A s \in Requests : /\ DOMAIN draft'[s].rows = DOMAIN draft[s].rows
                            /\ ToLock(s)' = ToLock(s)
    BY DEF ToLock
  <1>3. DraftsApart'
    BY <1>1, <1>2 DEF IInv, DraftsApart
  <1>4. DraftsOwned'
    BY <1>2 DEF IInv, DraftsOwned
  <1> QED BY <1>3, <1>4

LEMMA ActUnlockedInv ==
    ASSUME IInv, NEW r \in Requests, ActUnlocked(r)
    PROVE  IInv'
  <1>1. /\ pc[r] = "fellBack" /\ pc' = [pc EXCEPT ![r] = "worked"]
        /\ op' = op /\ now' = now /\ snap' = snap /\ rank' = rank /\ visited' = visited
        /\ got' = got /\ unlocked' = unlocked /\ dirty' = dirty /\ holder' = holder
        /\ row' = row /\ fights' = fights /\ cores' = cores /\ clock' = clock
    BY DEF ActUnlocked, tables
  <1>2. FellBackAs(r) /\ unlocked[r] # {} /\ op[r] \in TargetOps
    BY <1>1 DEF IInv, FellBackOn, FellBackAs, FallenBack
  <1>3. PICK rows : \E k \in {0, 1} : UnlockedWorked(r, rows, k)
    BY <1>2, WorkUnlocked DEF ActUnlocked
  <1>11. PICK n \in {0, 1} : UnlockedWorked(r, rows, n)
    BY <1>3
  <1> DEFINE d == [Drafted(rows) EXCEPT !.fights = n]
  <1>4. /\ DOMAIN draft' = Requests
        /\ draft'[r] = d
        /\ \A s \in Requests : s # r => draft'[s] = draft[s]
    BY <1>11 DEF UnlockedWorked, IInv, TypeOK
  <1>5. DOMAIN d = {"rows", "fights", "cores"} /\ d.rows = rows /\ d.fights = n /\ d.cores = 0
    BY DEF Drafted
  <1> HIDE DEF d
  <1>6. TypeOK'
    <2>1. \A s \in Requests :
             /\ DOMAIN draft'[s] = {"rows", "fights", "cores"}
             /\ DOMAIN draft'[s].rows \subseteq Monsters
             /\ \A m \in DOMAIN draft'[s].rows : draft'[s].rows[m] \in Row
             /\ draft'[s].fights \in {0, 1}
             /\ draft'[s].cores \in {0, 1}
      BY <1>11, <1>4, <1>5 DEF UnlockedWorked, IInv, TypeOK
    <2> QED BY <1>1, <1>4, <2>1 DEF IInv, TypeOK, FallenBack
  <1>7. /\ pc'[r] = "worked" /\ Open(r) /\ Open(r)'
        /\ \A s \in Requests : s # r => pc'[s] = pc[s]
    BY <1>1 DEF IInv, TypeOK, Open, FallenBack
  <1>8. /\ NothingYet' /\ LocksKept' /\ SnapshotsBorn' /\ SnapshotsOrdered'
        /\ UnbornNotEnded' /\ FightsCounted'
        /\ \A s \in Requests : s # r => FellBackAs(s)'
    BY <1>1, <1>2, <1>11, <1>4, <1>5, <1>7, LooseSteps DEF UnlockedWorked
  <1>9. FellBackAs(r)'
    BY <1>1, <1>2, <1>11, <1>4, <1>5, <1>7 DEF FellBackAs, UnlockedWorked, Writing, FallenBack
  <1>10. DraftsOwned' /\ DraftsApart'
    <2>1. \A m \in DOMAIN draft'[r].rows : draft'[r].rows[m].form # "unborn"
      BY <1>11, <1>4, <1>5 DEF UnlockedWorked, IInv, DraftsOwned
    <2>2. DOMAIN draft'[r].rows = DOMAIN draft[r].rows
      BY <1>11, <1>4, <1>5 DEF UnlockedWorked
    <2>3. /\ \A m : IsLoose(r, m)' <=> IsLoose(r, m)
          /\ pc[r] \in Writing /\ pc'[r] \in Writing
      BY <1>1, <1>7 DEF IsLoose, FallenBack, Writing
    <2> QED BY <1>1, <1>4, <1>7, <2>1, <2>2, <2>3, SameDomains
  <1> QED BY <1>6, <1>8, <1>9, <1>10 DEF IInv, FellBackOn

LEMMA ReloadInv ==
    ASSUME IInv, NEW r \in Requests, Reload(r)
    PROVE  IInv'
  <1> DEFINE columns == UNION {Differing(draft[r].rows[m], row[m]) : m \in unlocked[r]}
  <1>1. /\ pc[r] = "worked" /\ pc' = [pc EXCEPT ![r] = "saving"]
        /\ dirty' = [dirty EXCEPT ![r] = columns]
        /\ op' = op /\ now' = now /\ snap' = snap /\ rank' = rank /\ visited' = visited
        /\ got' = got /\ unlocked' = unlocked /\ draft' = draft /\ holder' = holder
        /\ row' = row /\ fights' = fights /\ cores' = cores /\ clock' = clock
    BY DEF Reload, tables
  <1>2. FellBackAs(r) /\ unlocked[r] # {} /\ op[r] \in TargetOps
    BY <1>1 DEF IInv, FellBackOn, FellBackAs, FallenBack
  <1>3. columns \subseteq Columns
    BY DEF Differing, Columns
  <1> HIDE DEF columns
  <1>4. TypeOK'
    BY <1>1, <1>3 DEF IInv, TypeOK, FallenBack
  <1>5. /\ pc'[r] = "saving" /\ Open(r) /\ Open(r)'
        /\ \A s \in Requests : s # r => pc'[s] = pc[s] /\ dirty'[s] = dirty[s]
    BY <1>1 DEF IInv, TypeOK, Open, FallenBack
  <1>6. draft[r].fights = 1 => op[r] = "fight"
    BY DEF IInv, FightsCounted
  <1>7. /\ NothingYet' /\ LocksKept' /\ SnapshotsBorn' /\ SnapshotsOrdered'
        /\ UnbornNotEnded' /\ FightsCounted'
        /\ \A s \in Requests : s # r => FellBackAs(s)'
    BY <1>1, <1>2, <1>5, <1>6, LooseSteps
  <1>8. FellBackAs(r)'
    BY <1>1, <1>2, <1>5 DEF FellBackAs, Writing, FallenBack
  <1>9. DraftsOwned' /\ DraftsApart'
    <2>1. /\ \A m : IsLoose(r, m)' <=> IsLoose(r, m)
          /\ pc[r] \in Writing /\ pc'[r] \in Writing
      BY <1>1, <1>5 DEF IsLoose, FallenBack, Writing
    <2>2. \A m \in DOMAIN draft'[r].rows : draft'[r].rows[m].form # "unborn"
      BY <1>1 DEF IInv, DraftsOwned
    <2> QED BY <1>1, <1>5, <2>1, <2>2, SameDomains
  <1> QED BY <1>4, <1>7, <1>8, <1>9 DEF IInv, FellBackOn

(* An UPDATE keeps the form and the gear, and the end unless it writes it. *)
LEMMA UpdatedRow ==
    ASSUME NEW w \in Row, NEW v \in Row, NEW columns
    PROVE  LET u == Updated(w, v, columns)
           IN  /\ u \in Row /\ u.form = w.form /\ u.geared = w.geared
               /\ u.end = IF "end" \in columns THEN v.end ELSE w.end
  <1> DEFINE e == IF "end" \in columns THEN v.end ELSE w.end
             c == IF "chosen" \in columns THEN v.chosen ELSE w.chosen
             a == IF "away" \in columns THEN v.away ELSE w.away
             w1 == [w EXCEPT !.end = e]
             w2 == [w1 EXCEPT !.chosen = c]
             w3 == [w2 EXCEPT !.away = a]
  <1>1. Updated(w, v, columns) = w3
    BY DEF Updated
  <1>2. e \in {"none", "died", "merged", "returned"} /\ c \in Nat /\ a \in BOOLEAN
    BY DEF Row
  <1>3. e = IF "end" \in columns THEN v.end ELSE w.end
    OBVIOUS
  <1> HIDE DEF e, c, a
  <1>4. w1 \in Row /\ w1.form = w.form /\ w1.geared = w.geared /\ w1.end = e
    BY <1>2 DEF Row
  <1> HIDE DEF w1
  <1>5. w2 \in Row /\ w2.form = w1.form /\ w2.geared = w1.geared /\ w2.end = w1.end
    BY <1>2, <1>4 DEF Row
  <1> HIDE DEF w2
  <1>6. w3 \in Row /\ w3.form = w2.form /\ w3.geared = w2.geared /\ w3.end = w2.end
    BY <1>2, <1>5 DEF Row
  <1> HIDE DEF w3
  <1> QED BY <1>1, <1>3, <1>4, <1>5, <1>6

(* Once it has the lock it overwrites some columns of what is stored. *)
LEMMA OverwriteInv ==
    ASSUME IInv, NEW r \in Requests, Overwrite(r)
    PROVE  IInv'
  <1> DEFINE old == draft[r].rows
             new == [m \in DOMAIN old |->
                       IF m \in unlocked[r] THEN Updated(row[m], old[m], dirty[r]) ELSE old[m]]
  <1>1. /\ pc[r] = "saving" /\ pc' = [pc EXCEPT ![r] = "acting"]
        /\ \A m \in unlocked[r] : holder[m] \in {NoRequest, r}
        /\ holder' = [m \in Monsters |-> IF m \in unlocked[r] THEN r ELSE holder[m]]
        /\ draft' = [draft EXCEPT ![r].rows = new]
        /\ op' = op /\ now' = now /\ snap' = snap /\ rank' = rank /\ visited' = visited
        /\ got' = got /\ unlocked' = unlocked /\ dirty' = dirty
        /\ row' = row /\ fights' = fights /\ cores' = cores /\ clock' = clock
    BY DEF Overwrite, Free, tables
  <1>2. /\ FellBackAs(r) /\ unlocked[r] # {} /\ op[r] \in TargetOps
        /\ unlocked[r] \subseteq Monsters
    BY <1>1 DEF IInv, TypeOK, FellBackOn, FellBackAs, FallenBack
  <1>3. /\ unlocked[r] \subseteq DOMAIN old
        /\ \A m \in unlocked[r] : /\ row[m] \in Row /\ row[m].form # "unborn"
                                  /\ old[m] \in Row /\ old[m].end = "none"
    BY <1>1, <1>2 DEF FellBackAs, Writing, FallenBack, IInv, TypeOK
  <1>4. \A w \in Row, v \in Row : \A columns :
           LET u == Updated(w, v, columns)
           IN  /\ u \in Row /\ u.form = w.form /\ u.geared = w.geared
               /\ u.end = IF "end" \in columns THEN v.end ELSE w.end
    BY UpdatedRow
  <1>5. /\ DOMAIN new = DOMAIN old
        /\ \A m \in DOMAIN old : new[m] \in Row /\ new[m].form # "unborn"
        /\ \A m \in unlocked[r] : /\ new[m].form = row[m].form
                                  /\ new[m].geared = row[m].geared
                                  /\ new[m].end = IF "end" \in dirty[r] THEN "none" ELSE row[m].end
    <2>1. \A m \in DOMAIN old : old[m] \in Row /\ old[m].form # "unborn"
      BY DEF IInv, TypeOK, DraftsOwned
    <2> HIDE DEF old
    <2> QED BY <1>3, <1>4, <2>1
  <1>6. DOMAIN old \subseteq Monsters
    BY DEF IInv, TypeOK
  <1> HIDE DEF new, old
  <1>7. /\ DOMAIN draft' = Requests
        /\ DOMAIN draft'[r] = {"rows", "fights", "cores"}
        /\ draft'[r].rows = new
        /\ draft'[r].fights = draft[r].fights /\ draft'[r].cores = draft[r].cores
        /\ \A s \in Requests : s # r => draft'[s] = draft[s]
    BY <1>1 DEF IInv, TypeOK
  <1>8. TypeOK'
    <2>1. \A s \in Requests :
             /\ DOMAIN draft'[s] = {"rows", "fights", "cores"}
             /\ DOMAIN draft'[s].rows \subseteq Monsters
             /\ \A m \in DOMAIN draft'[s].rows : draft'[s].rows[m] \in Row
             /\ draft'[s].fights \in {0, 1}
             /\ draft'[s].cores \in {0, 1}
      BY <1>5, <1>6, <1>7 DEF IInv, TypeOK
    <2>2. holder' \in [Monsters -> Requests \cup {NoRequest}]
      BY <1>1 DEF IInv, TypeOK
    <2> QED BY <1>1, <1>7, <2>1, <2>2 DEF IInv, TypeOK
  <1>9. /\ pc'[r] = "acting" /\ Open(r) /\ Open(r)'
        /\ \A s \in Requests : s # r => pc'[s] = pc[s]
    BY <1>1 DEF IInv, TypeOK, Open, FallenBack
  <1>10. /\ \A m \in Monsters : \A s \in Requests : s # r /\ holder[m] = s => holder'[m] = s
         /\ \A m \in Monsters : holder[m] = r => holder'[m] = r
    BY <1>1, RosterAssumption
  <1>11. /\ NothingYet' /\ LocksKept' /\ SnapshotsBorn' /\ SnapshotsOrdered'
         /\ UnbornNotEnded' /\ FightsCounted'
         /\ \A s \in Requests : s # r => FellBackAs(s)'
    <2>1. draft'[r].fights = 1 => op[r] = "fight"
      BY <1>7 DEF IInv, FightsCounted
    <2> QED BY <1>1, <1>2, <1>7, <1>9, <1>10, <2>1, LooseSteps
  <1>12. FellBackAs(r)'
    <2>1. \A m \in unlocked[r] : holder'[m] = r
      BY <1>1, <1>2
    <2>2. \A m \in unlocked[r] : m \in DOMAIN new /\ m \notin got[r]
      BY <1>1, <1>2, <1>3, <1>5 DEF FellBackAs, Writing, FallenBack
    <2> QED BY <1>1, <1>2, <1>3, <1>5, <1>7, <1>9, <2>1, <2>2 DEF FellBackAs, Writing, FallenBack
  <1>13. DraftsOwned'
    <2>1. ASSUME NEW s \in Requests
          PROVE  /\ pc'[s] \in Writing => ToLock(s)' = {}
                 /\ pc'[s] \notin Writing => DOMAIN draft'[s].rows = {} /\ draft'[s].fights = 0
                 /\ \A m \in DOMAIN draft'[s].rows :
                       /\ m \in got[s] \/ m \in unlocked[s] \/ row[m].form = "unborn"
                       /\ draft'[s].rows[m].form # "unborn"
      <3>1. CASE s = r
        BY <1>1, <1>5, <1>7, <1>9, <3>1 DEF IInv, DraftsOwned, ToLock, Writing, FallenBack, old
      <3>2. CASE s # r
        BY <1>1, <1>7, <1>9, <3>2 DEF IInv, DraftsOwned, ToLock
      <3> QED BY <3>1, <3>2
    <2> QED BY <1>1, <2>1 DEF DraftsOwned
  <1>14. DraftsApart'
    <2>1. \A s \in Requests : s # r => \A m : IsLoose(s, m)' <=> IsLoose(s, m)
      BY <1>1, <1>9 DEF IsLoose
    <2>2. ASSUME NEW s \in Requests, s # r, NEW m \in DOMAIN old, m \in DOMAIN draft[s].rows
          PROVE  IsLoose(s, m)
      <3>1. IsLoose(s, m) \/ m \in unlocked[r]
        BY <2>2 DEF IInv, DraftsApart, IsLoose, old
      <3>2. CASE m \in unlocked[r]
        <4>1. holder[m] # s /\ row[m].form # "unborn"
          BY <1>1, <1>3, <2>2, <3>2, RosterAssumption
        <4>2. pc[s] \in Writing /\ (m \in got[s] \/ m \in unlocked[s])
          BY <2>2, <4>1 DEF IInv, DraftsOwned
        <4>3. m \notin got[s]
          BY <4>1, <4>2 DEF IInv, LocksKept, Writing, Open
        <4>4. pc[s] # "acting"
          BY <4>1, <4>2, <4>3 DEF IInv, FellBackOn, FellBackAs
        <4> QED BY <4>2, <4>3, <4>4 DEF IsLoose, Writing
      <3> QED BY <3>1, <3>2
    <2> SUFFICES ASSUME NEW s \in Requests, NEW t \in Requests, s # t,
                        NEW m \in DOMAIN draft'[s].rows \cap DOMAIN draft'[t].rows
                 PROVE  IsLoose(s, m)' \/ IsLoose(t, m)'
      BY DEF DraftsApart
    <2>3. CASE s = r
      BY <1>5, <1>7, <2>1, <2>2, <2>3
    <2>4. CASE t = r
      BY <1>5, <1>7, <2>1, <2>2, <2>4
    <2>5. CASE s # r /\ t # r
      BY <1>7, <2>1, <2>5 DEF IInv, DraftsApart
    <2> QED BY <2>3, <2>4, <2>5
  <1> QED BY <1>8, <1>11, <1>12, <1>13, <1>14 DEF IInv, FellBackOn

(* The steps that take a request to its locks. *)
LEMMA SnapshotInv ==
    ASSUME IInv, NEW r \in Requests, Snapshot(r) \/ LookAgain(r)
    PROVE  IInv'
  <1>1. PICK where \in {"locking", "relocking"} :
           /\ pc' = [pc EXCEPT ![r] = where]
           /\ pc[r] = "begun" \/ Open(r)
           /\ pc[r] \notin Writing \cup Ended
    BY DEF Snapshot, LookAgain, Open, Writing, FallenBack, Ended
  <1>2. /\ snap' = [snap EXCEPT ![r] = Living]
        /\ rank' = [rank EXCEPT ![r] = [m \in Monsters |-> row[m].chosen]]
        /\ op' = op /\ now' = now /\ visited' = visited /\ got' = got /\ draft' = draft
        /\ unlocked' = unlocked /\ dirty' = dirty
        /\ holder' = holder /\ row' = row /\ fights' = fights /\ cores' = cores
        /\ clock' = clock
    BY DEF Snapshot, LookAgain, TakeSnapshot, tables
  <1>3. Living' = Living /\ Living \subseteq Monsters
    BY <1>2 DEF Living, IsLiving
  <1>4. TypeOK'
    <2>1. [m \in Monsters |-> row[m].chosen] \in [Monsters -> Nat]
      BY DEF IInv, TypeOK, Row
    <2> QED BY <1>1, <1>2, <1>3, <2>1 DEF IInv, TypeOK
  <1>5. /\ pc'[r] = where /\ Open(r)' /\ snap'[r] = Living /\ pc'[r] \notin Writing \cup Ended
        /\ \A s \in Requests : s # r => /\ Open(s)' <=> Open(s)
                                        /\ pc'[s] = pc[s]
                                        /\ snap'[s] = snap[s]
    BY <1>1, <1>2 DEF IInv, TypeOK, Open, Writing, FallenBack, Ended
  <1>6. NothingYet'
    BY <1>2, <1>5 DEF IInv, NothingYet
  <1>7. LocksKept'
    <2>1. /\ \A m \in visited[r] : holder[m] = r
          /\ got[r] \subseteq visited[r]
          /\ got[r] \subseteq Living
      BY <1>1 DEF IInv, NothingYet, LocksKept
    <2> QED BY <1>2, <1>3, <1>5, <2>1 DEF IInv, LocksKept
  <1>8. SnapshotsBorn'
    BY <1>2, <1>5 DEF IInv, SnapshotsBorn, Living, IsLiving
  <1>9. Revivers' = Revivers /\ UnlockedFights' = UnlockedFights
    BY <1>1, <1>2, <1>5, SameCommitted DEF IInv, Ended
  <1>10. SnapshotsOrdered'
    BY <1>3, <1>5, <1>9 DEF IInv, SnapshotsOrdered
  <1>11. DraftsOwned' /\ DraftsApart'
    <2>1. \A s \in Requests : s # r => ToLock(s)' = ToLock(s)
      BY <1>2, <1>5 DEF ToLock
    <2>2. \A s \in Requests : \A m : IsLoose(s, m)' <=> IsLoose(s, m)
      BY <1>1, <1>2, <1>5 DEF IsLoose, Writing
    <2>3. DraftsOwned'
      BY <1>1, <1>2, <1>5, <2>1 DEF IInv, DraftsOwned
    <2>4. DraftsApart'
      BY <1>2, <2>2 DEF IInv, DraftsApart
    <2> QED BY <2>3, <2>4
  <1>12. FellBackOn'
    <2>1. ASSUME NEW s \in Requests PROVE FellBackAs(s)'
      <3>1. FellBackAs(s)
        BY DEF IInv, FellBackOn
      <3>2. CASE s = r
        BY <1>1, <1>2, <1>5, <3>1, <3>2 DEF FellBackAs, Writing
      <3>3. CASE s # r
        BY <1>2, <1>5, <3>1, <3>3 DEF FellBackAs
      <3> QED BY <3>2, <3>3
    <2> QED BY <2>1 DEF FellBackOn
  <1>13. UnbornNotEnded' /\ FightsCounted'
    BY <1>2, <1>9 DEF IInv, UnbornNotEnded, FightsCounted, FightsWithinLimit
  <1> QED BY <1>4, <1>6, <1>7, <1>8, <1>10, <1>11, <1>12, <1>13 DEF IInv

LEMMA LockRowInv ==
    ASSUME IInv, NEW r \in Requests, NEW m \in Monsters, LockRow(r, m)
    PROVE  IInv'
  <1>1. /\ Open(r) /\ pc[r] \notin Writing \cup Ended /\ pc[r] \notin {"idle", "begun"}
        /\ m \in snap[r] /\ holder[m] \in {NoRequest, r}
        /\ holder' = [holder EXCEPT ![m] = r]
        /\ visited' = [visited EXCEPT ![r] = @ \cup {m}]
        /\ got' = [got EXCEPT ![r] = IF IsLiving(row[m]) THEN @ \cup {m} ELSE @]
        /\ pc' = pc /\ op' = op /\ now' = now /\ snap' = snap /\ rank' = rank
        /\ unlocked' = unlocked /\ dirty' = dirty
        /\ draft' = draft /\ row' = row /\ fights' = fights /\ cores' = cores
        /\ clock' = clock
    BY DEF LockRow, Open, IsNextToLock, ToLock, Free, tables, Writing, FallenBack, Ended
  <1>2. TypeOK'
    BY <1>1 DEF IInv, TypeOK
  <1>3. /\ Living' = Living /\ \A s \in Requests : Open(s)' <=> Open(s)
        /\ Revivers' = Revivers /\ UnlockedFights' = UnlockedFights
    BY <1>1 DEF Living, IsLiving, Open, Revivers, UnlockedFights
  <1>4. /\ visited'[r] = visited[r] \cup {m}
        /\ got'[r] \subseteq got[r] \cup {m}
        /\ got[r] \subseteq got'[r]
        /\ m \in got'[r] => m \in Living \/ m \in got[r]
        /\ \A s \in Requests : s # r => visited'[s] = visited[s] /\ got'[s] = got[s]
    BY <1>1 DEF IInv, TypeOK, Living
  <1>5. NothingYet'
    BY <1>1, <1>4 DEF IInv, NothingYet
  <1>6. LocksKept'
    <2> SUFFICES ASSUME NEW s \in Requests, Open(s)
                 PROVE  /\ \A n \in visited'[s] : holder'[n] = s
                        /\ got'[s] \subseteq visited'[s]
                        /\ got'[s] \subseteq snap[s]
                        /\ got'[s] \subseteq Living
      BY <1>1, <1>3 DEF LocksKept
    <2>1. /\ \A n \in visited[s] : holder[n] = s
          /\ got[s] \subseteq visited[s]
          /\ got[s] \subseteq snap[s]
          /\ got[s] \subseteq Living
          /\ visited[s] \subseteq Monsters
      BY DEF IInv, LocksKept, TypeOK
    <2>2. CASE s = r
      BY <1>1, <1>4, <2>1, <2>2 DEF IInv, TypeOK
    <2>3. CASE s # r
      <3>1. m \notin visited[s]
        BY <1>1, <2>1, <2>3, RosterAssumption
      <3> QED BY <1>1, <1>4, <2>1, <2>3, <3>1 DEF IInv, TypeOK
    <2> QED BY <2>2, <2>3
  <1>7. SnapshotsBorn' /\ SnapshotsOrdered'
    BY <1>1, <1>3 DEF IInv, SnapshotsBorn, SnapshotsOrdered
  <1>8. DraftsOwned' /\ DraftsApart'
    <2>1. \A s \in Requests : s # r => ToLock(s)' = ToLock(s)
      BY <1>1, <1>4 DEF ToLock
    <2> QED BY <1>1, <1>4, <2>1 DEF IInv, DraftsOwned, DraftsApart, IsLoose
  <1>9. FellBackOn'
    <2>1. ASSUME NEW s \in Requests PROVE FellBackAs(s)'
      <3>1. FellBackAs(s) /\ unlocked[s] \subseteq Monsters
        BY DEF IInv, FellBackOn, TypeOK
      <3>2. CASE s = r
        BY <1>1, <3>1, <3>2 DEF FellBackAs, Writing
      <3>3. CASE s # r
        <4>1. \A n \in Monsters : holder[n] = s => holder'[n] = s
          BY <1>1, <3>3, RosterAssumption DEF IInv, TypeOK
        <4> QED BY <1>1, <1>4, <3>1, <3>3, <4>1 DEF FellBackAs
      <3> QED BY <3>2, <3>3
    <2> QED BY <2>1 DEF FellBackOn
  <1>10. UnbornNotEnded' /\ FightsCounted'
    <2>1. \A s \in Requests : got[s] # {} => got'[s] # {}
      BY <1>4
    <2> QED BY <1>1, <1>3, <2>1
         DEF IInv, UnbornNotEnded, FightsCounted, FightsWithinLimit
  <1> QED BY <1>2, <1>5, <1>6, <1>7, <1>8, <1>9, <1>10 DEF IInv

LEMMA BeginInv ==
    ASSUME IInv, NEW r \in Requests, Begin(r)
    PROVE  IInv'
  <1>1. /\ pc[r] = "idle" /\ pc' = [pc EXCEPT ![r] = "begun"]
        /\ clock' = clock + 1 /\ now' = [now EXCEPT ![r] = clock + 1]
        /\ op' = op /\ snap' = snap /\ rank' = rank /\ visited' = visited /\ got' = got
        /\ unlocked' = unlocked /\ dirty' = dirty
        /\ draft' = draft /\ holder' = holder /\ row' = row /\ fights' = fights
        /\ cores' = cores
    BY DEF Begin, tables
  <1>2. TypeOK'
    BY <1>1 DEF IInv, TypeOK
  <1>3. pc'[r] = "begun" /\ \A s \in Requests : s # r => pc'[s] = pc[s]
    BY <1>1 DEF IInv, TypeOK
  <1>4. /\ Living' = Living
        /\ \A s \in Requests : Open(s)' <=> Open(s)
        /\ \A s \in Requests : pc'[s] \in Writing <=> pc[s] \in Writing
        /\ \A s \in Requests : pc'[s] \in {"idle", "begun"} => pc[s] \in {"idle", "begun"}
        /\ \A s \in Requests : \A m : IsLoose(s, m)' <=> IsLoose(s, m)
        /\ pc[r] \notin Writing \cup Ended /\ pc'[r] \notin Writing \cup Ended
    BY <1>1, <1>3 DEF Living, IsLiving, Open, IsLoose, Writing, FallenBack, Ended
  <1>5. Revivers' = Revivers /\ UnlockedFights' = UnlockedFights
    BY <1>1, <1>3, SameCommitted DEF IInv
  <1>6. NothingYet' /\ LocksKept' /\ SnapshotsBorn' /\ SnapshotsOrdered'
    BY <1>1, <1>4, <1>5 DEF IInv, NothingYet, LocksKept, SnapshotsBorn, SnapshotsOrdered
  <1>7. DraftsOwned' /\ DraftsApart'
    BY <1>1, <1>4 DEF IInv, DraftsOwned, DraftsApart, ToLock
  <1>8. UnbornNotEnded' /\ FightsCounted'
    BY <1>1, <1>5 DEF IInv, UnbornNotEnded, FightsCounted, FightsWithinLimit
  <1>9. FellBackOn'
    <2>1. ASSUME NEW s \in Requests PROVE FellBackAs(s)'
      <3>1. FellBackAs(s)
        BY DEF IInv, FellBackOn
      <3>2. CASE s = r
        BY <1>1, <1>4, <3>1, <3>2 DEF FellBackAs, Writing
      <3>3. CASE s # r
        BY <1>1, <1>3, <3>1, <3>3 DEF FellBackAs
      <3> QED BY <3>2, <3>3
    <2> QED BY <2>1 DEF FellBackOn
  <1> QED BY <1>2, <1>6, <1>7, <1>8, <1>9 DEF IInv

(* Only an open request is undone. *)
LEMMA EndsOpen ==
    ASSUME NEW r \in Requests, Refuse(r) \/ Fail(r) \/ DeadlockVictim(r)
    PROVE  Open(r) /\ Undo(r)
  BY DEF Refuse, Fail, DeadlockVictim, HasLocked, Open, FallenBack

LEMMA NextInv == IInv /\ [Next]_vars => IInv'
  <1> SUFFICES ASSUME IInv, [Next]_vars PROVE IInv'
    OBVIOUS
  <1>1. ASSUME NEW r \in Requests, Step(r) \/ Fail(r) PROVE IInv'
    <2>1. CASE Begin(r) BY <2>1, BeginInv
    <2>2. CASE Snapshot(r) \/ LookAgain(r) BY <2>2, SnapshotInv
    <2>3. ASSUME NEW m \in Monsters, LockRow(r, m) PROVE IInv' BY <2>3, LockRowInv
    <2>4. CASE Act(r) BY <2>4, ActInv
    <2>5. CASE FallBack(r) BY <2>5, FallBackInv
    <2>6. CASE ActUnlocked(r) BY <2>6, ActUnlockedInv
    <2>7. CASE Reload(r) BY <2>7, ReloadInv
    <2>8. CASE Overwrite(r) BY <2>8, OverwriteInv
    <2>9. CASE Commit(r) BY <2>9, CommitInv
    <2>10. CASE Refuse(r) \/ Fail(r) \/ DeadlockVictim(r)
      BY <2>10, EndsOpen, UndoInv
    <2> QED BY <1>1, <2>1, <2>2, <2>3, <2>4, <2>5, <2>6, <2>7, <2>8, <2>9, <2>10 DEF Step
  <1>2. CASE UNCHANGED vars
    <2>1. /\ pc' = pc /\ op' = op /\ now' = now /\ snap' = snap /\ rank' = rank
          /\ visited' = visited /\ got' = got /\ unlocked' = unlocked /\ dirty' = dirty
          /\ draft' = draft /\ holder' = holder /\ row' = row /\ fights' = fights
          /\ cores' = cores /\ clock' = clock
      BY <1>2 DEF vars, requestVars, tables
    <2>2. TypeOK'
      BY <2>1 DEF IInv, TypeOK
    <2>3. /\ Living' = Living /\ Revivers' = Revivers /\ UnlockedFights' = UnlockedFights
          /\ \A s \in Requests : (Open(s)' <=> Open(s)) /\ ToLock(s)' = ToLock(s)
          /\ \A s \in Requests : \A m : IsLoose(s, m)' <=> IsLoose(s, m)
      BY <2>1 DEF Living, IsLiving, Revivers, UnlockedFights, Open, ToLock, IsLoose
    <2>4. NothingYet' /\ LocksKept' /\ SnapshotsBorn' /\ SnapshotsOrdered'
      BY <2>1, <2>3 DEF IInv, NothingYet, LocksKept, SnapshotsBorn, SnapshotsOrdered
    <2>5. DraftsOwned' /\ DraftsApart' /\ UnbornNotEnded'
      BY <2>1, <2>3 DEF IInv, DraftsOwned, DraftsApart, UnbornNotEnded
    <2>6. FellBackOn'
      <3>1. ASSUME NEW s \in Requests PROVE FellBackAs(s)'
        BY <2>1 DEF IInv, FellBackOn, FellBackAs
      <3> QED BY <3>1 DEF FellBackOn
    <2>7. FightsCounted'
      BY <2>1, <2>3 DEF IInv, FightsCounted, FightsWithinLimit
    <2> QED BY <2>2, <2>4, <2>5, <2>6, <2>7 DEF IInv
  <1> QED BY <1>1, <1>2 DEF Next

(* Nothing but a commit changes the stored rows, or commits.               *)
LEMMA QuietRows ==
    ASSUME IInv, NEW r \in Requests, Step(r) \/ Fail(r), ~Commit(r)
    PROVE  /\ row' = row /\ cores' = cores
           /\ \A s \in Requests : pc'[s] = pc[s] \/ pc'[s] # "committed"
  <1>1. CASE \/ Begin(r) \/ Snapshot(r) \/ LookAgain(r) \/ Act(r) \/ FallBack(r)
             \/ ActUnlocked(r) \/ Reload(r) \/ Overwrite(r)
    BY <1>1 DEF Begin, Snapshot, LookAgain, Act, FallBack, ActUnlocked, Reload, Overwrite,
                tables, IInv, TypeOK
  <1>2. ASSUME NEW m \in Monsters, LockRow(r, m)
        PROVE  row' = row /\ cores' = cores /\ pc' = pc
    BY <1>2 DEF LockRow, tables
  <1>3. CASE Refuse(r) \/ Fail(r) \/ DeadlockVictim(r)
    BY <1>3, EndsOpen DEF Undo, tables, IInv, TypeOK
  <1> QED BY <1>1, <1>2, <1>3 DEF Step

LEMMA SpecInv == Spec => []IInv
  BY InitInv, NextInv, PTL DEF Spec

---------------------------------------------------------------------------

(* Every variable of the roster keeps its type. *)
THEOREM RosterTypeOK == Spec => []TypeOK
  <1>1. IInv => TypeOK BY DEF IInv
  <1> QED BY <1>1, SpecInv, PTL

(* No two requests work on one monster, whatever each one's snapshot       *)
(* showed; and the row locks of lockAndTickLiving queue the requests of    *)
(* one player, but for those that fell back.                               *)
THEOREM RosterOneAtATime == Spec => []OneAtATime
  BY InvOneAtATime, SpecInv, PTL

(* The monster lock keeps the fights of a window within their limit,       *)
(* although they are counted by a plain SELECT; beyond it are only fights  *)
(* of requests that fell back on a pet nobody had locked.                  *)
THEOREM RosterFightsWithinLimit == Spec => []FightsWithinLimit
  <1>1. IInv => FightsWithinLimit BY DEF IInv, FightsCounted
  <1> QED BY <1>1, SpecInv, PTL

(* No request brings back a monster that died, was merged or was returned, *)
(* except one that fell back on it and saves what it read before it went.  *)
THEOREM RosterGoneForGood == Spec => GoneForGood
  <1>1. IInv /\ [Next]_vars =>
           [\A m \in Monsters :
               row[m].end # "none" =>
                   \/ row'[m].end = row[m].end
                   \/ \E r \in Requests :
                         /\ pc[r] = "acting" /\ pc'[r] = "committed"
                         /\ m \in unlocked[r] /\ "end" \in dirty[r]]_vars
    <2> SUFFICES ASSUME IInv, NEW r \in Requests, Step(r) \/ Fail(r),
                        NEW m \in Monsters, row[m].end # "none"
                 PROVE  \/ row'[m].end = row[m].end
                        \/ /\ pc[r] = "acting" /\ pc'[r] = "committed"
                           /\ m \in unlocked[r] /\ "end" \in dirty[r]
      BY DEF Next
    <2>1. CASE Commit(r)
      <3>1. pc[r] = "acting" /\ pc'[r] = "committed"
        BY <2>1 DEF Commit, IInv, TypeOK
      <3> QED BY <2>1, <3>1, CommitRows
    <2>2. CASE ~Commit(r)
      BY <2>2, QuietRows
    <2> QED BY <2>1, <2>2
  <1> QED BY <1>1, SpecInv, PTL DEF Spec, GoneForGood

---------------------------------------------------------------------------
(* What the monsters cost: the second half of the invariant.               *)

EndedIn(rows, cause) == {m \in DOMAIN rows : rows[m].end = cause}
FusedIn(rows) == {m \in DOMAIN rows : rows[m].form = "fused" /\ row[m].form # "fused"}
LivingIn(rows) == {m \in DOMAIN rows : IsLiving(rows[m])}

EndedBy(cause) == {m \in Monsters : row[m].end = cause}

(* A draft takes the gear off whom it ends; it merges two parents into one *)
(* new monster or merges none, and has a core for the one it returns.      *)
PaidFor(d) ==
    /\ \A m \in DOMAIN d.rows : /\ d.rows[m].end # "none" => ~d.rows[m].geared
                                /\ row[m].form = "fused" => d.rows[m].form = "fused"
    /\ \/ EndedIn(d.rows, "merged") = {} /\ FusedIn(d.rows) = {}
       \/ \E a, b, c \in DOMAIN d.rows :
             a # b /\ EndedIn(d.rows, "merged") = {a, b} /\ FusedIn(d.rows) = {c}
    /\ \/ d.cores = 0 /\ EndedIn(d.rows, "returned") = {}
       \/ d.cores = 1 /\ \E a \in DOMAIN d.rows : EndedIn(d.rows, "returned") = {a}

DraftsPaidFor == \A r \in Requests : unlocked[r] = {} => PaidFor(draft[r])

(* A request that fell back has seen everyone it has locked die, and       *)
(* neither merges nor returns anybody.                                     *)
PaysNothing(r) ==
    unlocked[r] # {} /\ pc[r] \in Writing =>
        /\ draft[r].cores = 0
        /\ \A m \in DOMAIN draft[r].rows \ unlocked[r] :
              /\ m \in got[r]
              /\ draft[r].rows[m].end = "died"
              /\ ~draft[r].rows[m].geared
              /\ draft[r].rows[m].form = "fused" <=> row[m].form = "fused"

FallenPayNothing == \A r \in Requests : PaysNothing(r)

(* A request writes everything it has got, and an egg it hatches fits.     *)
DraftFits(r) ==
    /\ IsFiniteSet(DOMAIN draft[r].rows)
    /\ pc[r] \in Writing =>
          /\ got[r] \subseteq DOMAIN draft[r].rows
          /\ op[r] = "hatch" => Cardinality(LivingIn(draft[r].rows)) <= MAX_LIVING_MONSTERS

DraftsFit == \A r \in Requests : DraftFits(r)

(* A row a request has locked in vain is that of a monster that is gone.   *)
LeftOutAreGone ==
    \A r \in Requests : Open(r) => \A m \in visited[r] \ got[r] : row[m].end # "none"

FinitelyMany ==
    /\ IsFiniteSet(Living)
    /\ IsFiniteSet(EndedBy("merged")) /\ IsFiniteSet(EndedBy("returned"))
    /\ IsFiniteSet(Fused)

CostInv ==
    /\ DraftsPaidFor
    /\ FallenPayNothing
    /\ DraftsFit
    /\ LeftOutAreGone
    /\ FinitelyMany
    /\ NothingSpentTwice
    /\ GoneWearNothing

(* What the work of request r leaves in its draft d, once the dead are out *)
(* of its reckoning.                                                       *)
Settled(r, d) ==
    /\ draft' = [draft EXCEPT ![r] = d]
    /\ PaidFor(d)
    /\ IsFiniteSet(DOMAIN d.rows)
    /\ got[r] \subseteq DOMAIN d.rows
    /\ op[r] = "hatch" => Cardinality(LivingIn(d.rows)) <= MAX_LIVING_MONSTERS

(* What a tick leaves: who is not alive has died, undressed, and nobody    *)
(* was fused.                                                              *)
IsTicked(rows, alive, r) ==
    /\ IsTable(rows, got[r])
    /\ IsFiniteSet(got[r])
    /\ alive \subseteq got[r]
    /\ \A m \in got[r] :
          /\ m \in alive => rows[m].end = "none"
          /\ m \notin alive => rows[m].end = "died" /\ ~rows[m].geared
          /\ rows[m].form = "fused" <=> row[m].form = "fused"
          /\ row[m].form # "unborn"

(* Work that changes neither who lives nor what it is settles itself.      *)
LEMMA PlainSettled ==
    ASSUME NEW r, NEW rows, NEW alive, IsTicked(rows, alive, r), op[r] # "hatch",
           NEW t, DOMAIN t = got[r],
           \A m \in got[r] : /\ t[m].form = rows[m].form
                             /\ t[m].end = rows[m].end
                             /\ m \notin alive => t[m].geared = rows[m].geared,
           NEW n \in {0, 1}, draft' = [draft EXCEPT ![r] = [Drafted(t) EXCEPT !.fights = n]]
    PROVE  \E d : Settled(r, d)
  <1> DEFINE d == [Drafted(t) EXCEPT !.fights = n]
  <1>1. d.rows = t /\ d.cores = 0
    BY DEF Drafted
  <1>2. draft' = [draft EXCEPT ![r] = d]
    OBVIOUS
  <1> HIDE DEF d
  <1>3. \A m \in got[r] : /\ t[m].end # "none" => ~t[m].geared
                          /\ row[m].form = "fused" => t[m].form = "fused"
    BY DEF IsTicked
  <1>4. EndedIn(t, "merged") = {} /\ EndedIn(t, "returned") = {} /\ FusedIn(t) = {}
    BY DEF IsTicked, EndedIn, FusedIn
  <1>5. PaidFor(d)
    BY <1>1, <1>3, <1>4 DEF PaidFor
  <1>6. Settled(r, d)
    BY <1>1, <1>2, <1>5 DEF Settled, IsTicked
  <1> QED BY <1>6

(* An egg is one more monster than those that live. *)
LEMMA HatchSettled ==
    ASSUME IInv, NEW r \in Requests, NEW rows, NEW alive, IsTicked(rows, alive, r),
           Hatch(r, rows, alive)
    PROVE  \E d : Settled(r, d)
  <1> DEFINE egg == [Unborn EXCEPT !.form = "egg", !.born = now[r], !.chosen = now[r]]
  <1>1. egg.form = "egg" /\ egg.end = "none"
    BY DEF Unborn
  <1>2. PICK m \in Monsters :
           Fresh(m) /\ draft' = [draft EXCEPT ![r] = Drafted(Put(rows, m, egg))]
    BY DEF Hatch
  <1>3. Cardinality(alive) < MAX_LIVING_MONSTERS /\ IsFiniteSet(alive)
        /\ MAX_LIVING_MONSTERS \in Nat
    BY FS_Subset, RosterAssumption DEF Hatch, IsTicked
  <1> HIDE DEF egg
  <1> DEFINE t == Put(rows, m, egg)
  <1>4. /\ DOMAIN t = got[r] \cup {m}
        /\ t[m] = egg
        /\ \A n \in got[r] : n # m => t[n] = rows[n]
    BY DEF Put, IsTicked, IsTable
  <1> HIDE DEF t
  <1>5. row[m].form = "unborn"
    BY <1>2 DEF Fresh
  <1>6. EndedIn(t, "merged") = {} /\ EndedIn(t, "returned") = {} /\ FusedIn(t) = {}
    BY <1>1, <1>4, <1>5 DEF IsTicked, EndedIn, FusedIn
  <1>7. LivingIn(t) \subseteq alive \cup {m}
    BY <1>4 DEF IsTicked, LivingIn, IsLiving
  <1>8. Cardinality(LivingIn(t)) <= MAX_LIVING_MONSTERS
    <2>1. /\ IsFiniteSet(alive \cup {m})
          /\ Cardinality(alive \cup {m}) <= Cardinality(alive) + 1
          /\ Cardinality(alive) \in Nat /\ Cardinality(alive \cup {m}) \in Nat
      <3>1. /\ IsFiniteSet(alive \cup {m})
            /\ \/ Cardinality(alive \cup {m}) = Cardinality(alive)
               \/ Cardinality(alive \cup {m}) = Cardinality(alive) + 1
        BY <1>3, FS_AddElement
      <3>2. Cardinality(alive) \in Nat
        BY <1>3, FS_CardinalityType
      <3> QED BY <3>1, <3>2
    <2>2. /\ Cardinality(LivingIn(t)) <= Cardinality(alive \cup {m})
          /\ IsFiniteSet(LivingIn(t))
      BY <1>7, <2>1, FS_Subset
    <2>3. Cardinality(LivingIn(t)) \in Nat
      BY <2>2, FS_CardinalityType
    <2> QED BY <1>3, <2>1, <2>2, <2>3
  <1>9. IsFiniteSet(DOMAIN t)
    BY <1>4, FS_AddElement DEF IsTicked
  <1>10. \A n \in DOMAIN t : /\ t[n].end # "none" => ~t[n].geared
                             /\ row[n].form = "fused" => t[n].form = "fused"
    BY <1>1, <1>4, <1>5 DEF IsTicked
  <1>11. Settled(r, Drafted(t))
    <2>1. Drafted(t).rows = t /\ Drafted(t).cores = 0
      BY DraftedFields
    <2>2. draft' = [draft EXCEPT ![r] = Drafted(t)]
      BY <1>2 DEF t
    <2>3. PaidFor(Drafted(t))
      BY <2>1, <1>6, <1>10 DEF PaidFor
    <2> QED BY <1>4, <1>8, <1>9, <2>1, <2>2, <2>3 DEF Settled
  <1> QED BY <1>11

(* Two parents become one. *)
LEMMA MergeSettled ==
    ASSUME IInv, NEW r \in Requests, NEW rows, NEW alive, IsTicked(rows, alive, r),
           Merge(r, rows, alive)
    PROVE  \E d : Settled(r, d)
  <1> DEFINE child == [Unborn EXCEPT !.form = "fused", !.born = now[r], !.chosen = now[r]]
  <1>1. child.form = "fused" /\ child.end = "none"
    BY DEF Unborn
  <1>2. PICK a \in alive, b \in alive, m \in Monsters :
           /\ a # b
           /\ Fresh(m)
           /\ draft' = [draft EXCEPT ![r] =
                 Drafted(Put([rows EXCEPT ![a] = Gone(@, "merged"), ![b] = Gone(@, "merged")],
                             m, child))]
    BY DEF Merge
  <1>3. op[r] = "merge"
    BY DEF Merge
  <1> HIDE DEF child
  <1> DEFINE parents == [rows EXCEPT ![a] = Gone(@, "merged"), ![b] = Gone(@, "merged")]
             t == Put(parents, m, child)
  <1>4. /\ DOMAIN rows = got[r] /\ a \in got[r] /\ b \in got[r]
        /\ \A n \in got[r] : rows[n] \in Row
    BY DEF IsTicked, IsTable
  <1>5. row[m].form = "unborn" /\ m \notin got[r]
    BY <1>2 DEF Fresh, IsTicked
  <1>6. /\ DOMAIN parents = got[r]
        /\ \A n \in got[r] : n \notin {a, b} => parents[n] = rows[n]
        /\ parents[a] = Gone(rows[a], "merged")
        /\ parents[b] = Gone(rows[b], "merged")
    BY <1>2, <1>4
  <1>7. \A w \in Row : LET g == Gone(w, "merged")
                       IN  g.end = "merged" /\ ~g.geared /\ g.form = w.form
    BY DEF Gone, Row
  <1>8. /\ parents[a].end = "merged" /\ ~parents[a].geared /\ parents[a].form = rows[a].form
        /\ parents[b].end = "merged" /\ ~parents[b].geared /\ parents[b].form = rows[b].form
    BY <1>4, <1>6, <1>7
  <1> HIDE DEF parents
  <1>9. /\ DOMAIN t = got[r] \cup {m}
        /\ t[m] = child
        /\ \A n \in got[r] : t[n] = parents[n]
    BY <1>5, <1>6 DEF Put
  <1> HIDE DEF t
  <1>10. \A n \in got[r] \ {a, b} : t[n].end = rows[n].end /\ t[n] = rows[n]
    BY <1>6, <1>9
  <1>11. EndedIn(t, "merged") = {a, b} /\ EndedIn(t, "returned") = {}
    BY <1>1, <1>4, <1>5, <1>8, <1>9, <1>10 DEF IsTicked, EndedIn
  <1>12. FusedIn(t) = {m}
    BY <1>1, <1>4, <1>5, <1>8, <1>9, <1>10 DEF IsTicked, FusedIn
  <1>13. \A n \in DOMAIN t : /\ t[n].end # "none" => ~t[n].geared
                             /\ row[n].form = "fused" => t[n].form = "fused"
    BY <1>1, <1>5, <1>8, <1>9, <1>10 DEF IsTicked
  <1>14. IsFiniteSet(DOMAIN t)
    BY <1>9, FS_AddElement DEF IsTicked
  <1>15. Drafted(t).rows = t /\ Drafted(t).cores = 0
    BY DraftedFields
  <1>16. PaidFor(Drafted(t))
    BY <1>2, <1>4, <1>9, <1>11, <1>12, <1>13, <1>15 DEF PaidFor
  <1>17. draft' = [draft EXCEPT ![r] = Drafted(t)]
    BY <1>2 DEF t, parents
  <1>18. Settled(r, Drafted(t))
    BY <1>3, <1>9, <1>14, <1>15, <1>16, <1>17 DEF Settled
  <1> QED BY <1>18

(* The one that returns home leaves a core. *)
LEMMA ReturnSettled ==
    ASSUME IInv, NEW r \in Requests, NEW rows, NEW alive, IsTicked(rows, alive, r),
           ReturnHome(r, rows, alive)
    PROVE  \E d : Settled(r, d)
  <1>1. PICK m \in alive :
           draft' = [draft EXCEPT ![r] =
              [Drafted([rows EXCEPT ![m] = Gone(@, "returned")]) EXCEPT !.cores = 1]]
    BY DEF ReturnHome
  <1>2. op[r] = "returnHome"
    BY DEF ReturnHome
  <1> DEFINE t == [rows EXCEPT ![m] = Gone(@, "returned")]
             d == [Drafted(t) EXCEPT !.cores = 1]
  <1>3. m \in got[r] /\ DOMAIN rows = got[r] /\ rows[m] \in Row
    BY DEF IsTicked, IsTable
  <1>4. \A w \in Row : LET g == Gone(w, "returned")
                       IN  g.end = "returned" /\ ~g.geared /\ g.form = w.form
    BY DEF Gone, Row
  <1>5. /\ DOMAIN t = got[r]
        /\ t[m].end = "returned" /\ ~t[m].geared /\ t[m].form = rows[m].form
        /\ \A n \in got[r] : n # m => t[n] = rows[n]
    BY <1>3, <1>4
  <1>6. draft' = [draft EXCEPT ![r] = d]
    BY <1>1
  <1> HIDE DEF t
  <1>7. d.rows = t /\ d.cores = 1
    BY DraftedFields
  <1> HIDE DEF d
  <1>8. EndedIn(t, "merged") = {} /\ EndedIn(t, "returned") = {m}
    BY <1>3, <1>5 DEF IsTicked, EndedIn
  <1>9. FusedIn(t) = {}
    BY <1>3, <1>5 DEF IsTicked, FusedIn
  <1>10. \A n \in DOMAIN t : /\ t[n].end # "none" => ~t[n].geared
                             /\ row[n].form = "fused" => t[n].form = "fused"
    BY <1>5 DEF IsTicked
  <1>11. PaidFor(d)
    BY <1>3, <1>5, <1>7, <1>8, <1>9, <1>10 DEF PaidFor
  <1>12. Settled(r, d)
    BY <1>2, <1>5, <1>6, <1>7, <1>11 DEF Settled, IsTicked
  <1> QED BY <1>12

(* What each field of a row becomes when another one is written. *)
LEMMA OtherFields ==
    ASSUME NEW w \in Row, NEW v
    PROVE  /\ LET x == [w EXCEPT !.chosen = v]
              IN  x.form = w.form /\ x.end = w.end /\ x.geared = w.geared
           /\ LET x == [w EXCEPT !.away = v]
              IN  x.form = w.form /\ x.end = w.end /\ x.geared = w.geared
           /\ LET x == [w EXCEPT !.geared = v]
              IN  x.form = w.form /\ x.end = w.end
  BY DEF Row

(* Every handler settles what it does. *)
LEMMA WorkSettled ==
    ASSUME IInv, NEW r \in Requests, NEW rows, NEW alive, IsTicked(rows, alive, r),
           Work(r, rows, alive)
    PROVE  \E d : Settled(r, d)
  <1>1. /\ DOMAIN rows = got[r] /\ alive \subseteq got[r]
        /\ \A m \in got[r] : rows[m] \in Row
    BY DEF IsTicked, IsTable
  <1>2. \A t : Drafted(t) = [Drafted(t) EXCEPT !.fights = 0]
    BY DEF Drafted
  <1>3. CASE Look(r, rows, alive)
    BY <1>1, <1>2, <1>3, PlainSettled DEF Look
  <1>4. CASE Fight(r, rows, alive)
    BY <1>1, <1>4, PlainSettled DEF Fight
  <1>5. CASE Select(r, rows, alive)
    <2>1. PICK m \in alive :
             draft' = [draft EXCEPT ![r] = Drafted([rows EXCEPT ![m].chosen = now[r]])]
      BY <1>5 DEF Select
    <2> DEFINE t == [rows EXCEPT ![m].chosen = now[r]]
    <2>2. DOMAIN t = got[r] /\ \A n \in got[r] : /\ t[n].form = rows[n].form
                                                 /\ t[n].end = rows[n].end
                                                 /\ t[n].geared = rows[n].geared
      BY <1>1, OtherFields
    <2> HIDE DEF t
    <2>3. draft' = [draft EXCEPT ![r] = [Drafted(t) EXCEPT !.fights = 0]]
      BY <1>2, <2>1 DEF t
    <2>4. \A n \in got[r] : /\ t[n].form = rows[n].form
                            /\ t[n].end = rows[n].end
                            /\ n \notin alive => t[n].geared = rows[n].geared
      BY <2>2
    <2>5. DOMAIN t = got[r] /\ op[r] # "hatch"
      BY <1>5, <2>2 DEF Select
    <2> QED BY <2>3, <2>4, <2>5, PlainSettled, ZenonT(60)
  <1>6. CASE Explore(r, rows, alive) \/ Collect(r, rows, alive)
    <2>1. PICK m \in alive, gone \in BOOLEAN :
             draft' = [draft EXCEPT ![r] = Drafted([rows EXCEPT ![m].away = gone])]
      BY <1>6 DEF Explore, Collect
    <2> DEFINE t == [rows EXCEPT ![m].away = gone]
    <2>2. DOMAIN t = got[r] /\ \A n \in got[r] : /\ t[n].form = rows[n].form
                                                 /\ t[n].end = rows[n].end
                                                 /\ t[n].geared = rows[n].geared
      BY <1>1, OtherFields
    <2> HIDE DEF t
    <2>3. draft' = [draft EXCEPT ![r] = [Drafted(t) EXCEPT !.fights = 0]]
      BY <1>2, <2>1 DEF t
    <2>4. \A n \in got[r] : /\ t[n].form = rows[n].form
                            /\ t[n].end = rows[n].end
                            /\ n \notin alive => t[n].geared = rows[n].geared
      BY <2>2
    <2>5. DOMAIN t = got[r] /\ op[r] # "hatch"
      BY <1>6, <2>2 DEF Explore, Collect
    <2> QED BY <2>3, <2>4, <2>5, PlainSettled
  <1>7. CASE Equip(r, rows, alive)
    <2>1. PICK m \in alive, from \in alive, left \in BOOLEAN :
             draft' = [draft EXCEPT ![r] =
                Drafted([rows EXCEPT ![from].geared = @ /\ left, ![m].geared = TRUE])]
      BY <1>7 DEF Equip
    <2> DEFINE lent == [rows EXCEPT ![from].geared = @ /\ left]
               t == [lent EXCEPT ![m].geared = TRUE]
    <2>2. /\ DOMAIN lent = got[r]
          /\ \A n \in got[r] : /\ lent[n].form = rows[n].form
                               /\ lent[n].end = rows[n].end
                               /\ n # from => lent[n] = rows[n]
                               /\ lent[n] \in Row
      <3>1. \A w \in Row : [w EXCEPT !.geared = @ /\ left] \in Row
        BY DEF Row
      <3> QED BY <1>1, <3>1, OtherFields
    <2>3. t = [rows EXCEPT ![from].geared = @ /\ left, ![m].geared = TRUE]
      OBVIOUS
    <2> HIDE DEF lent
    <2>4. DOMAIN t = got[r] /\ \A n \in got[r] : /\ t[n].form = rows[n].form
                                                 /\ t[n].end = rows[n].end
                                                 /\ n \notin {m, from} => t[n] = rows[n]
      BY <1>1, <2>2, OtherFields
    <2> HIDE DEF t
    <2>5. draft' = [draft EXCEPT ![r] = [Drafted(t) EXCEPT !.fights = 0]]
      BY <1>2, <2>1, <2>3
    <2>6. \A n \in got[r] : /\ t[n].form = rows[n].form
                            /\ t[n].end = rows[n].end
                            /\ n \notin alive => t[n].geared = rows[n].geared
      BY <2>4
    <2>7. DOMAIN t = got[r] /\ op[r] # "hatch"
      BY <1>7, <2>4 DEF Equip
    <2> QED BY <2>5, <2>6, <2>7, PlainSettled, ZenonT(60)
  <1>8. CASE Unequip(r, rows, alive)
    <2>1. PICK m \in alive, left \in BOOLEAN :
             draft' = [draft EXCEPT ![r] = Drafted([rows EXCEPT ![m].geared = @ /\ left])]
      BY <1>8 DEF Unequip
    <2> DEFINE t == [rows EXCEPT ![m].geared = @ /\ left]
    <2>2. DOMAIN t = got[r] /\ \A n \in got[r] : /\ t[n].form = rows[n].form
                                                 /\ t[n].end = rows[n].end
                                                 /\ n # m => t[n] = rows[n]
      BY <1>1, OtherFields
    <2> HIDE DEF t
    <2>3. draft' = [draft EXCEPT ![r] = [Drafted(t) EXCEPT !.fights = 0]]
      BY <1>2, <2>1 DEF t
    <2>4. \A n \in got[r] : /\ t[n].form = rows[n].form
                            /\ t[n].end = rows[n].end
                            /\ n \notin alive => t[n].geared = rows[n].geared
      BY <2>2
    <2>5. DOMAIN t = got[r] /\ op[r] # "hatch"
      BY <1>8, <2>2 DEF Unequip
    <2> QED BY <2>3, <2>4, <2>5, PlainSettled
  <1> QED BY <1>3, <1>4, <1>5, <1>6, <1>7, <1>8, HatchSettled, MergeSettled, ReturnSettled
       DEF Work

(* A tick keeps the dead apart from those that live. *)
LEMMA TickIsTicked ==
    ASSUME IInv, FinitelyMany, NEW r \in Requests, Open(r),
           NEW dead \in SUBSET (got[r] \ Eggs(r)), NEW grown \in SUBSET Eggs(r)
    PROVE  IsTicked(Ticked(r, dead, grown), got[r] \ dead, r)
  <1>1. \A m \in got[r] : /\ row[m].form # "unborn" /\ row[m].end = "none"
                          /\ m \in Monsters /\ row[m] \in Row
    BY DEF IInv, TypeOK, LocksKept, Living, IsLiving
  <1>2. IsTable(Ticked(r, dead, grown), got[r])
    BY <1>1, TickedRows DEF IInv, IsTable
  <1>3. IsFiniteSet(got[r])
    BY FS_Subset DEF IInv, LocksKept, FinitelyMany
  <1>4. ASSUME NEW m \in got[r]
        PROVE  LET w == Ticked(r, dead, grown)[m]
               IN  /\ m \notin dead => w.end = "none"
                   /\ m \in dead => w.end = "died" /\ ~w.geared
                   /\ w.form = "fused" <=> row[m].form = "fused"
    <2>1. CASE m \in dead
      <3>1. Ticked(r, dead, grown)[m] = [row[m] EXCEPT !.end = "died", !.geared = FALSE]
        BY <2>1 DEF Ticked
      <3> QED BY <1>1, <2>1, <3>1 DEF Row
    <2>2. CASE m \notin dead /\ m \in grown
      <3>1. Ticked(r, dead, grown)[m] = [row[m] EXCEPT !.form = "ultimate"]
        BY <2>2 DEF Ticked
      <3>2. row[m].form = "egg"
        BY <2>2 DEF Eggs
      <3> QED BY <1>1, <2>2, <3>1, <3>2 DEF Row
    <2>3. CASE m \notin dead /\ m \notin grown
      <3>1. Ticked(r, dead, grown)[m] = row[m]
        BY <2>3 DEF Ticked
      <3> QED BY <1>1, <2>3, <3>1
    <2> QED BY <2>1, <2>2, <2>3
  <1> QED BY <1>1, <1>2, <1>3, <1>4 DEF IsTicked

(* While one request moves and stores nothing, only its draft has to be    *)
(* looked at.                                                              *)
LEMMA OneMoves ==
    ASSUME IInv, CostInv, NEW r \in Requests, Open(r), pc'[r] # "committed",
           op' = op, got' = got, visited' = visited, row' = row, cores' = cores,
           \A s \in Requests : s # r => /\ pc'[s] = pc[s]
                                        /\ draft'[s] = draft[s]
                                        /\ dirty'[s] = dirty[s]
                                        /\ unlocked'[s] = unlocked[s],
           unlocked'[r] = {} => PaidFor(draft'[r]),
           PaysNothing(r)', DraftFits(r)'
    PROVE  CostInv'
  <1>1. DraftsPaidFor'
    <2>1. \A x : PaidFor(x)' <=> PaidFor(x)
      BY DEF PaidFor, FusedIn, EndedIn
    <2>2. \A s \in Requests : unlocked'[s] = {} => PaidFor(draft'[s])
      BY DEF CostInv, DraftsPaidFor
    <2> QED BY <2>1, <2>2 DEF DraftsPaidFor
  <1>2. FallenPayNothing'
    <2>1. ASSUME NEW s \in Requests, s # r PROVE PaysNothing(s)'
      BY <2>1 DEF CostInv, FallenPayNothing, PaysNothing
    <2> QED BY <2>1 DEF FallenPayNothing
  <1>3. DraftsFit'
    <2>1. ASSUME NEW s \in Requests, s # r PROVE DraftFits(s)'
      <3>1. LivingIn(draft[s].rows)' = LivingIn(draft[s].rows)
        BY <2>1 DEF LivingIn, IsLiving
      <3> QED BY <2>1, <3>1 DEF CostInv, DraftsFit, DraftFits
    <2> QED BY <2>1 DEF DraftsFit
  <1>4. LeftOutAreGone'
    BY DEF CostInv, LeftOutAreGone, Open
  <1>5. Revivers' = Revivers
    <2>1. pc[r] # "committed"
      BY DEF Open, FallenBack
    <2> QED BY <2>1, SameCommitted DEF IInv
  <1>6. FinitelyMany' /\ NothingSpentTwice' /\ GoneWearNothing'
    BY <1>5 DEF CostInv, FinitelyMany, NothingSpentTwice, Merged, Returned, GoneWearNothing,
                EndedBy, Fused, Living, IsLiving
  <1> QED BY <1>1, <1>2, <1>3, <1>4, <1>6 DEF CostInv

LEMMA ActCost ==
    ASSUME IInv, CostInv, NEW r \in Requests, Act(r)
    PROVE  CostInv'
  <1>1. /\ pc' = [pc EXCEPT ![r] = "acting"] /\ HasLocked(r)
        /\ op' = op /\ visited' = visited /\ got' = got /\ row' = row /\ cores' = cores
        /\ unlocked' = unlocked /\ dirty' = dirty
    BY DEF Act, tables
  <1>2. Open(r) /\ pc[r] \notin Writing \cup Ended
    BY <1>1 DEF HasLocked, Open, Writing, FallenBack, Ended
  <1>3. PICK d : Settled(r, d)
    <2>1. PICK dead \in SUBSET (got[r] \ Eggs(r)), grown \in SUBSET Eggs(r) :
             Work(r, Ticked(r, dead, grown), got[r] \ dead)
      BY DEF Act
    <2>2. IsTicked(Ticked(r, dead, grown), got[r] \ dead, r)
      BY <1>2, TickIsTicked DEF CostInv
    <2> QED BY <2>1, <2>2, WorkSettled
  <1>4. /\ draft'[r] = d /\ pc'[r] = "acting"
        /\ \A s \in Requests : s # r => draft'[s] = draft[s] /\ pc'[s] = pc[s]
    BY <1>1, <1>3 DEF Settled, IInv, TypeOK
  <1>5. unlocked'[r] = {}
    BY <1>1, <1>2 DEF IInv, FellBackOn, FellBackAs
  <1>6. PaidFor(draft'[r])
    BY <1>3, <1>4 DEF Settled
  <1>7. PaysNothing(r)'
    BY <1>5 DEF PaysNothing
  <1>8. DraftFits(r)'
    BY <1>1, <1>3, <1>4 DEF DraftFits, Settled, LivingIn, IsLiving
  <1> QED BY <1>1, <1>2, <1>4, <1>6, <1>7, <1>8, OneMoves

(* Whoever falls back has seen all it had locked die. *)
LEMMA FallBackCost ==
    ASSUME IInv, CostInv, NEW r \in Requests, FallBack(r)
    PROVE  CostInv'
  <1>1. /\ pc' = [pc EXCEPT ![r] = "fellBack"] /\ HasLocked(r) /\ Eggs(r) = {}
        /\ op' = op /\ visited' = visited /\ got' = got /\ row' = row /\ cores' = cores
        /\ dirty' = dirty /\ op[r] \in TargetOps
    BY DEF FallBack, tables
  <1>2. Open(r)
    BY <1>1 DEF HasLocked, Open
  <1> DEFINE dead == Ticked(r, got[r], {})
  <1>3. PICK m \in Living \ got[r] :
           /\ unlocked' = [unlocked EXCEPT ![r] = {m}]
           /\ draft' = [draft EXCEPT ![r] = Drafted(Put(dead, m, row[m]))]
    BY DEF FallBack
  <1>4. IsTicked(dead, {}, r)
    <2>1. got[r] \in SUBSET (got[r] \ Eggs(r)) /\ {} \in SUBSET Eggs(r)
      BY <1>1
    <2>2. IsTicked(dead, got[r] \ got[r], r)
      BY <1>2, <2>1, TickIsTicked DEF CostInv
    <2>3. got[r] \ got[r] = {}
      OBVIOUS
    <2> QED BY <2>2, <2>3
  <1> HIDE DEF dead
  <1> DEFINE t == Put(dead, m, row[m])
  <1>5. DOMAIN t = got[r] \cup {m} /\ \A n \in got[r] : t[n] = dead[n]
    BY <1>3, <1>4 DEF Put, IsTicked, IsTable
  <1> HIDE DEF t
  <1>6. Drafted(t).rows = t /\ Drafted(t).cores = 0
    BY DraftedFields
  <1>7. /\ draft'[r] = Drafted(t) /\ unlocked'[r] = {m} /\ pc'[r] = "fellBack"
        /\ \A s \in Requests : s # r => /\ pc'[s] = pc[s] /\ draft'[s] = draft[s]
                                        /\ unlocked'[s] = unlocked[s]
    BY <1>1, <1>3 DEF IInv, TypeOK, t
  <1>8. PaysNothing(r)'
    BY <1>1, <1>4, <1>5, <1>6, <1>7 DEF PaysNothing, IsTicked
  <1>9. DraftFits(r)'
    <2>1. IsFiniteSet(got[r] \cup {m})
      BY <1>4, FS_AddElement DEF IsTicked
    <2> QED BY <1>1, <1>5, <1>6, <1>7, <2>1 DEF DraftFits, TargetOps
  <1> QED BY <1>1, <1>2, <1>7, <1>8, <1>9, OneMoves

(* Neither its work, nor reading or locking the pet again changes that. *)
LEMMA FallenBackCost ==
    ASSUME IInv, CostInv, NEW r \in Requests, ActUnlocked(r) \/ Reload(r) \/ Overwrite(r)
    PROVE  CostInv'
  <1>1. /\ pc[r] \in FallenBack /\ pc'[r] \in {"worked", "saving", "acting"}
        /\ op' = op /\ visited' = visited /\ got' = got /\ row' = row /\ cores' = cores
        /\ unlocked' = unlocked
        /\ \A s \in Requests : s # r => /\ pc'[s] = pc[s] /\ draft'[s] = draft[s]
                                        /\ dirty'[s] = dirty[s]
    <2>1. CASE ActUnlocked(r)
      <3>1. \A s \in Requests : s # r => draft'[s] = draft[s]
        BY <2>1 DEF ActUnlocked, Work, Look, Hatch, Select, Merge, ReturnHome, Fight, Equip,
                    Unequip, Explore, Collect, IInv, TypeOK
      <3> QED BY <2>1, <3>1 DEF ActUnlocked, tables, IInv, TypeOK, FallenBack
    <2>2. CASE Reload(r)
      BY <2>2 DEF Reload, tables, IInv, TypeOK, FallenBack
    <2>3. CASE Overwrite(r)
      BY <2>3 DEF Overwrite, tables, IInv, TypeOK, FallenBack
    <2> QED BY <2>1, <2>2, <2>3
  <1>2. unlocked[r] # {} /\ op[r] \in TargetOps
    BY <1>1 DEF IInv, FellBackOn, FellBackAs
  <1>3. /\ draft'[r].cores = 0
        /\ DOMAIN draft'[r].rows = DOMAIN draft[r].rows
        /\ \A m \in DOMAIN draft[r].rows \ unlocked[r] :
              /\ draft'[r].rows[m].end = draft[r].rows[m].end
              /\ draft'[r].rows[m].geared = draft[r].rows[m].geared
              /\ draft'[r].rows[m].form = draft[r].rows[m].form
    <2>1. draft[r].cores = 0
      BY <1>1, <1>2 DEF CostInv, FallenPayNothing, PaysNothing, Writing
    <2>2. CASE ActUnlocked(r)
      <3>0. PICK rows : \E n \in {0, 1} : UnlockedWorked(r, rows, n)
        BY <1>2, <2>2, WorkUnlocked DEF ActUnlocked
      <3>1. PICK n \in {0, 1} : UnlockedWorked(r, rows, n)
        BY <3>0
      <3>2. [Drafted(rows) EXCEPT !.fights = n].rows = rows
            /\ [Drafted(rows) EXCEPT !.fights = n].cores = 0
        BY DEF Drafted
      <3>3. draft'[r].rows = rows /\ draft'[r].cores = 0
        BY <3>1, <3>2 DEF UnlockedWorked, IInv, TypeOK
      <3>4. /\ DOMAIN rows = DOMAIN draft[r].rows
            /\ \A m \in DOMAIN rows : /\ rows[m].end = draft[r].rows[m].end
                                      /\ rows[m].geared = draft[r].rows[m].geared
                                      /\ rows[m].form = draft[r].rows[m].form
        BY <3>1 DEF UnlockedWorked
      <3> QED BY <3>3, <3>4
    <2>3. CASE Reload(r)
      BY <2>1, <2>3 DEF Reload
    <2>4. CASE Overwrite(r)
      <3> DEFINE t == [m \in DOMAIN draft[r].rows |->
                         IF m \in unlocked[r]
                         THEN Updated(row[m], draft[r].rows[m], dirty[r])
                         ELSE draft[r].rows[m]]
      <3>1. draft' = [draft EXCEPT ![r].rows = t]
        BY <2>4 DEF Overwrite
      <3>2. /\ DOMAIN t = DOMAIN draft[r].rows
            /\ \A m \in DOMAIN draft[r].rows \ unlocked[r] : t[m] = draft[r].rows[m]
        OBVIOUS
      <3> HIDE DEF t
      <3>3. draft'[r].rows = t /\ draft'[r].cores = draft[r].cores
        BY <3>1 DEF IInv, TypeOK
      <3> QED BY <2>1, <3>2, <3>3
    <2> QED BY <2>2, <2>3, <2>4
  <1>4. Open(r) /\ pc[r] \in Writing /\ pc'[r] # "committed"
    BY <1>1 DEF Open, Writing, FallenBack
  <1>5. PaysNothing(r)'
    BY <1>1, <1>2, <1>3, <1>4 DEF PaysNothing, CostInv, FallenPayNothing
  <1>6. DraftFits(r)'
    BY <1>1, <1>2, <1>3, <1>4 DEF DraftFits, CostInv, DraftsFit, TargetOps
  <1> QED BY <1>1, <1>2, <1>4, <1>5, <1>6, OneMoves

LEMMA UndoCost ==
    ASSUME IInv, CostInv, NEW r \in Requests, Open(r), Undo(r)
    PROVE  CostInv'
  <1>1. /\ pc' = [pc EXCEPT ![r] = "rolledBack"] /\ draft' = [draft EXCEPT ![r] = NoDraft]
        /\ op' = op /\ visited' = visited /\ got' = got /\ row' = row /\ cores' = cores
        /\ unlocked' = unlocked /\ dirty' = dirty
    BY DEF Undo, Forget, tables
  <1>2. DOMAIN draft'[r].rows = {} /\ draft'[r].cores = 0
        /\ \A s \in Requests : s # r => draft'[s] = draft[s]
    BY <1>1, ForgetDrafts DEF IInv
  <1>3. pc'[r] = "rolledBack" /\ \A s \in Requests : s # r => pc'[s] = pc[s]
    BY <1>1 DEF IInv, TypeOK
  <1>4. PaidFor(draft'[r])
    BY <1>2 DEF PaidFor, FusedIn, EndedIn
  <1>5. PaysNothing(r)' /\ DraftFits(r)'
    BY <1>2, <1>3, FS_EmptySet DEF PaysNothing, DraftFits, Writing, FallenBack
  <1> QED BY <1>1, <1>2, <1>3, <1>4, <1>5, OneMoves

(* Locking rows costs nothing; what is locked in vain is gone. *)
LEMMA LockCost ==
    ASSUME IInv, CostInv, NEW r \in Requests,
           \/ Begin(r) \/ Snapshot(r) \/ LookAgain(r)
           \/ \E m \in Monsters : LockRow(r, m)
    PROVE  CostInv'
  <1>1. /\ op' = op /\ draft' = draft /\ row' = row /\ cores' = cores
        /\ pc[r] \notin Writing \cup Ended /\ pc'[r] \notin Writing \cup Ended
        /\ unlocked' = unlocked /\ dirty' = dirty
        /\ \A s \in Requests : s # r => pc'[s] = pc[s] /\ got'[s] = got[s]
                                        /\ visited'[s] = visited[s]
    BY DEF Begin, Snapshot, LookAgain, LockRow, tables, IInv, TypeOK, Writing, FallenBack, Ended
  <1>2. DraftsPaidFor'
    <2>1. \A d : PaidFor(d)' <=> PaidFor(d)
      BY <1>1 DEF PaidFor, FusedIn, EndedIn
    <2> QED BY <1>1, <2>1 DEF CostInv, DraftsPaidFor
  <1>3. DraftsFit' /\ FallenPayNothing'
    <2>1. ASSUME NEW s \in Requests PROVE DraftFits(s)' /\ PaysNothing(s)'
      <3>1. LivingIn(draft[s].rows)' = LivingIn(draft[s].rows)
        BY <1>1 DEF LivingIn, IsLiving
      <3> QED BY <1>1, <3>1 DEF CostInv, DraftsFit, DraftFits, FallenPayNothing, PaysNothing
    <2> QED BY <2>1 DEF DraftsFit, FallenPayNothing
  <1>4. LeftOutAreGone'
    <2> SUFFICES ASSUME NEW s \in Requests, Open(s)', NEW m \in visited'[s] \ got'[s]
                 PROVE  row[m].end # "none"
      BY <1>1 DEF LeftOutAreGone
    <2>1. CASE s # r
      BY <1>1, <2>1 DEF CostInv, LeftOutAreGone, Open
    <2>2. CASE s = r /\ (Begin(r) \/ Snapshot(r))
      BY <2>2 DEF Begin, Snapshot, IInv, NothingYet
    <2>3. CASE s = r /\ LookAgain(r)
      BY <2>3 DEF LookAgain, CostInv, LeftOutAreGone, Open
    <2>4. ASSUME s = r, NEW n \in Monsters, LockRow(r, n)
          PROVE  row[m].end # "none"
      <3>1. Open(r) /\ n \in snap[r]
        BY <2>4 DEF LockRow, Open, IsNextToLock, ToLock
      <3>2. visited'[r] = visited[r] \cup {n} /\ got'[r] = IF IsLiving(row[n]) THEN got[r] \cup {n}
                                                           ELSE got[r]
        BY <2>4 DEF LockRow, IInv, TypeOK
      <3>3. CASE m \in visited[r]
        BY <2>4, <3>1, <3>2, <3>3 DEF CostInv, LeftOutAreGone
      <3>4. CASE m \notin visited[r]
        <4>1. m = n /\ ~IsLiving(row[n])
          BY <2>4, <3>2, <3>4
        <4>2. row[n].form # "unborn"
          BY <3>1 DEF IInv, SnapshotsBorn
        <4> QED BY <4>1, <4>2 DEF IsLiving
      <3> QED BY <3>3, <3>4
    <2> QED BY <2>1, <2>2, <2>3, <2>4
  <1>5. FinitelyMany' /\ NothingSpentTwice' /\ GoneWearNothing'
    <2>1. Revivers' = Revivers
      BY <1>1, SameCommitted DEF IInv, Ended
    <2> QED BY <1>1, <2>1 DEF CostInv, FinitelyMany, NothingSpentTwice, Merged, Returned,
                              GoneWearNothing, EndedBy, Fused, Living, IsLiving
  <1> QED BY <1>2, <1>3, <1>4, <1>5 DEF CostInv

---------------------------------------------------------------------------

LEMMA TwoMore ==
    ASSUME NEW S, IsFiniteSet(S), NEW a, NEW b, a # b, a \notin S, b \notin S
    PROVE  /\ IsFiniteSet(S \cup {a, b})
           /\ Cardinality(S \cup {a, b}) = Cardinality(S) + 2
  <1>1. IsFiniteSet(S \cup {a}) /\ Cardinality(S \cup {a}) = Cardinality(S) + 1
    BY FS_AddElement
  <1>2. /\ IsFiniteSet((S \cup {a}) \cup {b})
        /\ Cardinality((S \cup {a}) \cup {b}) = Cardinality(S \cup {a}) + 1
    BY <1>1, FS_AddElement
  <1>3. (S \cup {a}) \cup {b} = S \cup {a, b}
    OBVIOUS
  <1>4. Cardinality(S) \in Nat
    BY FS_CardinalityType
  <1> QED BY <1>1, <1>2, <1>3, <1>4

(* What a commit adds to those that are gone and to those that were made.  *)
LEMMA CommitSets ==
    ASSUME IInv, CostInv, NEW r \in Requests, Commit(r), unlocked[r] = {}
    PROVE  /\ \A cause \in {"merged", "returned"} :
                 /\ EndedBy(cause)' = EndedBy(cause) \cup EndedIn(draft[r].rows, cause)
                 /\ EndedBy(cause) \cap EndedIn(draft[r].rows, cause) = {}
           /\ Fused' = Fused \cup FusedIn(draft[r].rows)
           /\ Fused \cap FusedIn(draft[r].rows) = {}
           /\ Living' \subseteq Living \cup DOMAIN draft[r].rows
           /\ Revivers' = Revivers
  <1> DEFINE rows == draft[r].rows
  <1>1. row' = [m \in Monsters |-> IF m \in DOMAIN rows THEN rows[m] ELSE row[m]]
    BY DEF Commit
  <1>2. DOMAIN rows \subseteq Monsters
    BY DEF IInv, TypeOK
  <1>3. \A m \in DOMAIN rows : row[m].end = "none"
    <2>1. Open(r)
      BY DEF Commit, Open
    <2>2. \A m \in DOMAIN rows : m \in got[r] \/ row[m].form = "unborn"
      BY DEF IInv, DraftsOwned
    <2> QED BY <1>2, <2>1, <2>2 DEF IInv, LocksKept, Living, IsLiving, UnbornNotEnded
  <1>4. \A m \in DOMAIN rows : row[m].form = "fused" => rows[m].form = "fused"
    BY DEF CostInv, DraftsPaidFor, PaidFor
  <1> HIDE DEF rows
  <1>5. ASSUME NEW cause \in {"merged", "returned"}
        PROVE  /\ EndedBy(cause)' = EndedBy(cause) \cup EndedIn(rows, cause)
               /\ EndedBy(cause) \cap EndedIn(rows, cause) = {}
    BY <1>1, <1>2, <1>3 DEF EndedBy, EndedIn
  <1>6. /\ Fused' = Fused \cup FusedIn(rows)
        /\ Fused \cap FusedIn(rows) = {}
    BY <1>1, <1>2, <1>4 DEF Fused, FusedIn
  <1>7. Living' \subseteq Living \cup DOMAIN rows
    BY <1>1, <1>2 DEF Living, IsLiving
  <1>8. Revivers' = Revivers
    <2>1. dirty[r] = {}
      BY DEF IInv, FellBackOn, FellBackAs
    <2> QED BY <2>1, CommitCounts
  <1> QED BY <1>5, <1>6, <1>7, <1>8 DEF rows

(* What one does that fell back: nobody is merged or returned, and perhaps *)
(* its pet comes back from there.                                          *)
LEMMA RevivalSets ==
    ASSUME IInv, CostInv, NEW r \in Requests, Commit(r), NEW u \in unlocked[r]
    PROVE  /\ cores' = cores /\ Fused' = Fused
           /\ Living' \subseteq Living \cup DOMAIN draft[r].rows
           /\ \/ EndedBy("merged")' = EndedBy("merged") /\ EndedBy("returned")' = EndedBy("returned")
              \/ /\ "end" \in dirty[r]
                 /\ u \in EndedBy("merged") /\ EndedBy("merged")' = EndedBy("merged") \ {u}
                 /\ EndedBy("returned")' = EndedBy("returned")
              \/ /\ "end" \in dirty[r]
                 /\ u \in EndedBy("returned") /\ EndedBy("returned")' = EndedBy("returned") \ {u}
                 /\ EndedBy("merged")' = EndedBy("merged")
           /\ \A m \in DOMAIN draft[r].rows : ~IsLiving(row'[m]) => ~row'[m].geared
  <1> DEFINE rows == draft[r].rows
  <1>1. row' = [m \in Monsters |-> IF m \in DOMAIN rows THEN rows[m] ELSE row[m]]
    BY DEF Commit
  <1>2. DOMAIN rows \subseteq Monsters /\ u \in Monsters
    BY DEF IInv, TypeOK
  <1>3. pc[r] = "acting" /\ Open(r) /\ pc[r] \in Writing
    BY DEF Commit, Open, Writing
  <1>4. /\ unlocked[r] = {u} /\ u \in DOMAIN rows /\ row[u].form # "unborn"
        /\ rows[u].form = row[u].form /\ rows[u].geared = row[u].geared
        /\ rows[u].end = IF "end" \in dirty[r] THEN "none" ELSE row[u].end
    BY <1>3 DEF IInv, FellBackOn, FellBackAs
  <1>5. /\ draft[r].cores = 0
        /\ \A m \in DOMAIN rows \ {u} :
              /\ m \in got[r]
              /\ rows[m].end = "died"
              /\ ~rows[m].geared
              /\ rows[m].form = "fused" <=> row[m].form = "fused"
    BY <1>3, <1>4 DEF CostInv, FallenPayNothing, PaysNothing
  <1>6. \A m \in DOMAIN rows \ {u} : row[m].end = "none"
    BY <1>3, <1>5 DEF IInv, LocksKept, Living, IsLiving
  <1>7. cores' = cores
    BY <1>5 DEF Commit, IInv, TypeOK
  <1> HIDE DEF rows
  <1>8. Fused' = Fused
    BY <1>1, <1>2, <1>4, <1>5 DEF Fused
  <1>9. Living' \subseteq Living \cup DOMAIN rows
    BY <1>1, <1>2 DEF Living, IsLiving
  <1>10. \A m \in Monsters \ {u} : \A cause \in {"merged", "returned"} :
            row'[m].end = cause <=> row[m].end = cause
    BY <1>1, <1>5, <1>6
  <1>11. row'[u].end = IF "end" \in dirty[r] THEN "none" ELSE row[u].end
    BY <1>1, <1>2, <1>4
  <1>12. \/ EndedBy("merged")' = EndedBy("merged") /\ EndedBy("returned")' = EndedBy("returned")
         \/ /\ "end" \in dirty[r]
            /\ u \in EndedBy("merged") /\ EndedBy("merged")' = EndedBy("merged") \ {u}
            /\ EndedBy("returned")' = EndedBy("returned")
         \/ /\ "end" \in dirty[r]
            /\ u \in EndedBy("returned") /\ EndedBy("returned")' = EndedBy("returned") \ {u}
            /\ EndedBy("merged")' = EndedBy("merged")
    <2>1. CASE "end" \notin dirty[r] \/ row[u].end \notin {"merged", "returned"}
      BY <1>10, <1>11, <2>1 DEF EndedBy
    <2>2. CASE "end" \in dirty[r] /\ row[u].end = "merged"
      BY <1>2, <1>10, <1>11, <2>2 DEF EndedBy
    <2>3. CASE "end" \in dirty[r] /\ row[u].end = "returned"
      BY <1>2, <1>10, <1>11, <2>3 DEF EndedBy
    <2> QED BY <2>1, <2>2, <2>3
  <1>13. ASSUME NEW m \in DOMAIN rows, ~IsLiving(row'[m])
         PROVE  ~row'[m].geared
    <2>1. CASE m = u
      <3>1. row'[u] = rows[u]
        BY <1>1, <1>2, <1>4
      <3>2. ~IsLiving(row[u])
        BY <1>4, <1>13, <2>1, <3>1 DEF IsLiving
      <3>3. ~row[u].geared
        BY <1>2, <3>2 DEF CostInv, GoneWearNothing
      <3> QED BY <1>4, <2>1, <3>1, <3>3
    <2>2. CASE m # u
      BY <1>1, <1>2, <1>5, <2>2
    <2> QED BY <2>1, <2>2
  <1> QED BY <1>7, <1>8, <1>9, <1>12, <1>13 DEF rows

(* A commit adds up: what it brings back is what it revives. *)
LEMMA CommitSpends ==
    ASSUME IInv, CostInv, NEW r \in Requests, Commit(r)
    PROVE  FinitelyMany' /\ NothingSpentTwice'
  <1> DEFINE M == EndedBy("merged")
             R == EndedBy("returned")
             rows == draft[r].rows
  <1>1. /\ IsFiniteSet(M) /\ IsFiniteSet(R) /\ IsFiniteSet(Fused) /\ IsFiniteSet(Revivers)
        /\ IsFiniteSet(Living) /\ IsFiniteSet(DOMAIN rows)
    BY CommitCounts DEF CostInv, FinitelyMany, DraftsFit, DraftFits
  <1>2. /\ Cardinality(M) \in Nat /\ Cardinality(R) \in Nat
        /\ Cardinality(Fused) \in Nat /\ Cardinality(Revivers) \in Nat
        /\ cores \in Nat
    BY <1>1, FS_CardinalityType DEF IInv, TypeOK
  <1>3. /\ Cardinality(M) <= 2 * Cardinality(Fused)
        /\ Cardinality(R) <= cores
        /\ (2 * Cardinality(Fused) - Cardinality(M)) + (cores - Cardinality(R))
              <= Cardinality(Revivers)
    BY DEF CostInv, NothingSpentTwice, Merged, Returned, EndedBy
  <1> SUFFICES /\ IsFiniteSet(M') /\ IsFiniteSet(R') /\ IsFiniteSet(Fused')
               /\ IsFiniteSet(Living')
               /\ Cardinality(M') <= 2 * Cardinality(Fused')
               /\ Cardinality(R') <= cores'
               /\ (2 * Cardinality(Fused') - Cardinality(M')) + (cores' - Cardinality(R'))
                     <= Cardinality(Revivers')
    BY DEF FinitelyMany, NothingSpentTwice, Merged, Returned, EndedBy
  <1>4. IsFiniteSet(Living')
    <2>1. IsFiniteSet(Living \cup DOMAIN rows)
      BY <1>1, FS_Union
    <2>2. Living' \subseteq Living \cup DOMAIN rows
      <3>1. CASE unlocked[r] = {} BY <3>1, CommitSets
      <3>2. CASE unlocked[r] # {} BY <3>2, RevivalSets
      <3> QED BY <3>1, <3>2
    <2> QED BY <2>1, <2>2, FS_Subset
  <1>5. cores' = cores + draft[r].cores
    BY DEF Commit
  <1>6. CASE unlocked[r] = {}
    <2>1. /\ M' = M \cup EndedIn(rows, "merged") /\ M \cap EndedIn(rows, "merged") = {}
          /\ R' = R \cup EndedIn(rows, "returned") /\ R \cap EndedIn(rows, "returned") = {}
          /\ Fused' = Fused \cup FusedIn(rows) /\ Fused \cap FusedIn(rows) = {}
          /\ Revivers' = Revivers
      BY <1>6, CommitSets
    <2>2. PaidFor(draft[r])
      BY <1>6 DEF CostInv, DraftsPaidFor
    <2> HIDE DEF M, R
    <2>3. /\ IsFiniteSet(M') /\ IsFiniteSet(Fused')
          /\ \/ /\ Cardinality(M') = Cardinality(M)
                /\ Cardinality(Fused') = Cardinality(Fused)
             \/ /\ Cardinality(M') = Cardinality(M) + 2
                /\ Cardinality(Fused') = Cardinality(Fused) + 1
      <3>1. CASE EndedIn(rows, "merged") = {} /\ FusedIn(rows) = {}
        <4>1. M' = M /\ Fused' = Fused
          BY <2>1, <3>1
        <4> QED BY <1>1, <4>1
      <3>2. CASE \E a, b, c \in DOMAIN rows :
                    a # b /\ EndedIn(rows, "merged") = {a, b} /\ FusedIn(rows) = {c}
        <4>1. PICK a, b, c \in DOMAIN rows :
                 a # b /\ EndedIn(rows, "merged") = {a, b} /\ FusedIn(rows) = {c}
          BY <3>2
        <4>2. a \notin M /\ b \notin M /\ c \notin Fused
          BY <2>1, <4>1
        <4>3. IsFiniteSet(M') /\ Cardinality(M') = Cardinality(M) + 2
          BY <1>1, <2>1, <4>1, <4>2, TwoMore
        <4>4. IsFiniteSet(Fused') /\ Cardinality(Fused') = Cardinality(Fused) + 1
          BY <1>1, <2>1, <4>1, <4>2, FS_AddElement
        <4> QED BY <4>3, <4>4
      <3> QED BY <2>2, <3>1, <3>2 DEF PaidFor
    <2>4. /\ IsFiniteSet(R')
          /\ \/ Cardinality(R') = Cardinality(R) /\ cores' = cores
             \/ Cardinality(R') = Cardinality(R) + 1 /\ cores' = cores + 1
      <3>1. CASE draft[r].cores = 0 /\ EndedIn(rows, "returned") = {}
        <4>1. R' = R /\ cores' = cores
          BY <1>2, <1>5, <2>1, <3>1
        <4> QED BY <1>1, <4>1
      <3>2. CASE draft[r].cores = 1 /\ \E a \in DOMAIN rows : EndedIn(rows, "returned") = {a}
        <4>1. PICK a \in DOMAIN rows : EndedIn(rows, "returned") = {a}
          BY <3>2
        <4>2. a \notin R
          BY <2>1, <4>1
        <4>3. IsFiniteSet(R') /\ Cardinality(R') = Cardinality(R) + 1
          BY <1>1, <2>1, <4>1, <4>2, FS_AddElement
        <4> QED BY <1>5, <3>2, <4>3
      <3> QED BY <2>2, <3>1, <3>2 DEF PaidFor
    <2> QED BY <1>2, <1>3, <1>4, <2>1, <2>3, <2>4
  <1>7. ASSUME NEW u \in unlocked[r]
        PROVE  /\ IsFiniteSet(M') /\ IsFiniteSet(R') /\ IsFiniteSet(Fused')
               /\ Cardinality(M') <= 2 * Cardinality(Fused')
               /\ Cardinality(R') <= cores'
               /\ (2 * Cardinality(Fused') - Cardinality(M')) + (cores' - Cardinality(R'))
                     <= Cardinality(Revivers')
    <2>1. /\ cores' = cores /\ Fused' = Fused
          /\ \/ M' = M /\ R' = R
             \/ "end" \in dirty[r] /\ u \in M /\ M' = M \ {u} /\ R' = R
             \/ "end" \in dirty[r] /\ u \in R /\ R' = R \ {u} /\ M' = M
      BY <1>7, RevivalSets
    <2>2. /\ IsFiniteSet(Revivers') /\ Cardinality(Revivers') \in Nat
          /\ Cardinality(Revivers) <= Cardinality(Revivers')
          /\ "end" \in dirty[r] => Cardinality(Revivers') = Cardinality(Revivers) + 1
      <3>1. CASE "end" \in dirty[r]
        <4>1. Revivers' = Revivers \cup {r} /\ r \notin Revivers
          BY <3>1, CommitCounts
        <4>2. /\ IsFiniteSet(Revivers')
              /\ Cardinality(Revivers') = Cardinality(Revivers) + 1
          BY <1>1, <4>1, FS_AddElement
        <4> QED BY <1>2, <4>2
      <3>2. CASE "end" \notin dirty[r]
        <4>1. Revivers' = Revivers
          BY <3>2, CommitCounts
        <4> QED BY <1>1, <1>2, <3>2, <4>1
      <3> QED BY <3>1, <3>2
    <2> HIDE DEF M, R
    <2>3. CASE M' = M /\ R' = R
      BY <1>1, <1>2, <1>3, <2>1, <2>2, <2>3
    <2>4. CASE "end" \in dirty[r] /\ u \in M /\ M' = M \ {u} /\ R' = R
      <3>1. IsFiniteSet(M') /\ Cardinality(M') = Cardinality(M) - 1
        BY <1>1, <2>4, FS_RemoveElement
      <3> QED BY <1>1, <1>2, <1>3, <2>1, <2>2, <2>4, <3>1
    <2>5. CASE "end" \in dirty[r] /\ u \in R /\ R' = R \ {u} /\ M' = M
      <3>1. IsFiniteSet(R') /\ Cardinality(R') = Cardinality(R) - 1
        BY <1>1, <2>5, FS_RemoveElement
      <3> QED BY <1>1, <1>2, <1>3, <2>1, <2>2, <2>5, <3>1
    <2> QED BY <2>1, <2>3, <2>4, <2>5
  <1> QED BY <1>4, <1>6, <1>7

LEMMA CommitCost ==
    ASSUME IInv, CostInv, NEW r \in Requests, Commit(r)
    PROVE  CostInv'
  <1>1. /\ pc[r] = "acting" /\ pc' = [pc EXCEPT ![r] = "committed"]
        /\ draft' = [draft EXCEPT ![r] = NoDraft]
        /\ op' = op /\ visited' = visited /\ got' = got /\ unlocked' = unlocked
        /\ row' = [m \in Monsters |->
                     IF m \in DOMAIN draft[r].rows THEN draft[r].rows[m] ELSE row[m]]
    BY DEF Commit, Forget, IInv, TypeOK
  <1>2. DOMAIN draft'[r].rows = {} /\ draft'[r].cores = 0
        /\ \A s \in Requests : s # r => draft'[s] = draft[s]
    BY <1>1, ForgetDrafts DEF IInv
  <1>3. pc'[r] = "committed" /\ \A s \in Requests : s # r => pc'[s] = pc[s]
    BY <1>1 DEF IInv, TypeOK
  <1>4. DraftsPaidFor'
    <2> SUFFICES ASSUME NEW s \in Requests, unlocked[s] = {} PROVE PaidFor(draft[s])'
      BY <1>1 DEF DraftsPaidFor
    <2>1. CASE s = r
      BY <1>2, <2>1 DEF PaidFor, EndedIn, FusedIn
    <2>2. CASE s # r
      <3>1. \A m : ~IsLoose(r, m) /\ ~IsLoose(s, m)
        BY <1>1 DEF IsLoose, FallenBack
      <3>2. \A m \in DOMAIN draft[s].rows : row'[m] = row[m]
        BY <1>1, <2>2, <3>1 DEF IInv, TypeOK, DraftsApart
      <3>3. FusedIn(draft[s].rows)' = FusedIn(draft[s].rows)
        BY <1>2, <2>2, <3>2 DEF FusedIn
      <3>4. draft'[s] = draft[s] /\ PaidFor(draft[s])
        BY <1>2, <2>2 DEF CostInv, DraftsPaidFor
      <3> QED BY <3>2, <3>3, <3>4 DEF PaidFor, EndedIn
    <2> QED BY <2>1, <2>2
  <1>5. DraftsFit'
    <2> SUFFICES ASSUME NEW s \in Requests PROVE DraftFits(s)'
      BY DEF DraftsFit
    <2>1. CASE s = r
      BY <1>2, <1>3, <2>1, FS_EmptySet DEF DraftFits, Writing, FallenBack
    <2>2. CASE s # r
      <3>1. LivingIn(draft[s].rows)' = LivingIn(draft[s].rows)
        BY <1>2, <2>2 DEF LivingIn, IsLiving
      <3> QED BY <1>1, <1>2, <1>3, <2>2, <3>1 DEF CostInv, DraftsFit, DraftFits
    <2> QED BY <2>1, <2>2
  <1>6. LeftOutAreGone'
    <2> SUFFICES ASSUME NEW s \in Requests, Open(s)', NEW m \in visited[s] \ got[s]
                 PROVE  row'[m].end # "none"
      BY <1>1 DEF LeftOutAreGone
    <2>1. s # r /\ Open(s) /\ m \in Monsters
      BY <1>1, <1>3 DEF Open, IInv, TypeOK, FallenBack
    <2>2. row[m].end # "none" /\ holder[m] = s
      BY <2>1 DEF CostInv, LeftOutAreGone, IInv, LocksKept
    <2>3. row[m].form # "unborn"
      BY <2>1, <2>2 DEF IInv, UnbornNotEnded
    <2>4. row'[m] = row[m]
      BY <2>1, <2>2, <2>3, CommitSpares
    <2> QED BY <2>2, <2>4
  <1>7. FallenPayNothing'
    <2> SUFFICES ASSUME NEW s \in Requests PROVE PaysNothing(s)'
      BY DEF FallenPayNothing
    <2>1. CASE s = r
      BY <1>3, <2>1 DEF PaysNothing, Writing, FallenBack
    <2>2. CASE s # r
      <3> SUFFICES ASSUME unlocked[s] # {}, pc[s] \in Writing
                   PROVE  /\ draft[s].cores = 0
                          /\ \A m \in DOMAIN draft[s].rows \ unlocked[s] :
                                /\ m \in got[s]
                                /\ draft[s].rows[m].end = "died"
                                /\ ~draft[s].rows[m].geared
                                /\ draft[s].rows[m].form = "fused" <=> row'[m].form = "fused"
        BY <1>1, <1>2, <1>3, <2>2 DEF PaysNothing
      <3>1. /\ draft[s].cores = 0
            /\ \A m \in DOMAIN draft[s].rows \ unlocked[s] :
                  /\ m \in got[s]
                  /\ draft[s].rows[m].end = "died"
                  /\ ~draft[s].rows[m].geared
                  /\ draft[s].rows[m].form = "fused" <=> row[m].form = "fused"
        BY DEF CostInv, FallenPayNothing, PaysNothing
      <3>2. \A m \in got[s] : m \in Monsters /\ holder[m] = s /\ row[m].form # "unborn"
        BY DEF IInv, TypeOK, LocksKept, Living, IsLiving, Open, Writing
      <3>3. \A m \in got[s] : row'[m] = row[m]
        BY <2>2, <3>2, CommitSpares
      <3> QED BY <3>1, <3>3
    <2> QED BY <2>1, <2>2
  <1>8. GoneWearNothing'
    <2> SUFFICES ASSUME NEW m \in Monsters, ~IsLiving(row'[m])
                 PROVE  ~row'[m].geared
      BY DEF GoneWearNothing
    <2>1. CASE m \in DOMAIN draft[r].rows /\ unlocked[r] = {}
      BY <1>1, <2>1 DEF IsLiving, IInv, DraftsOwned, CostInv, DraftsPaidFor, PaidFor
    <2>2. CASE m \in DOMAIN draft[r].rows /\ unlocked[r] # {}
      BY <2>2, RevivalSets
    <2>3. CASE m \notin DOMAIN draft[r].rows
      BY <1>1, <2>3 DEF CostInv, GoneWearNothing
    <2> QED BY <2>1, <2>2, <2>3
  <1> QED BY <1>4, <1>5, <1>6, <1>7, <1>8, CommitSpends DEF CostInv

LEMMA InitCost == Init => CostInv
  <1> SUFFICES ASSUME Init PROVE CostInv
    OBVIOUS
  <1>1. \A r \in Requests : /\ DOMAIN draft[r].rows = {} /\ draft[r].cores = 0
                            /\ pc[r] = "idle" /\ unlocked[r] = {}
    <2>1. DOMAIN NoDraft.rows = {} /\ NoDraft.cores = 0
      BY DraftedFields DEF NoDraft
    <2> QED BY <2>1 DEF Init
  <1>2. \A m \in Monsters : /\ row[m].end = "none" /\ ~row[m].geared
                            /\ row[m].form # "fused"
                            /\ row[m].form # "unborn" => m \in Starters
    <2>1. PICK order \in StarterOrders :
             row = [m \in Monsters |->
                  IF m \in Starters
                  THEN [Unborn EXCEPT !.form = "ultimate", !.chosen = order[m]]
                  ELSE Unborn]
      BY DEF Init
    <2> QED BY <2>1 DEF Unborn
  <1>3. DraftsPaidFor
    BY <1>1 DEF DraftsPaidFor, PaidFor, EndedIn, FusedIn
  <1>4. DraftsFit /\ FallenPayNothing /\ LeftOutAreGone
    BY <1>1, FS_EmptySet DEF DraftsFit, DraftFits, FallenPayNothing, PaysNothing,
                             LeftOutAreGone, Open, FallenBack, Writing
  <1>5. EndedBy("merged") = {} /\ EndedBy("returned") = {} /\ Fused = {}
    BY <1>2 DEF EndedBy, Fused
  <1>6. FinitelyMany
    <2>1. Living \subseteq Starters
      BY <1>2 DEF Living, IsLiving
    <2> QED BY <1>5, <2>1, FS_EmptySet, FS_Subset, RosterAssumption DEF FinitelyMany
  <1>7. NothingSpentTwice
    <2>1. cores = 0
      BY DEF Init
    <2>2. /\ Cardinality(EndedBy("merged")) = 0 /\ Cardinality(EndedBy("returned")) = 0
          /\ Cardinality(Fused) = 0 /\ Cardinality(Revivers) = 0
      <3>1. Revivers = {}
        BY <1>1 DEF Revivers
      <3> QED BY <1>5, <3>1, FS_EmptySet
    <2> QED BY <2>1, <2>2 DEF NothingSpentTwice, Merged, Returned, EndedBy
  <1>8. GoneWearNothing
    BY <1>2 DEF GoneWearNothing
  <1> QED BY <1>3, <1>4, <1>6, <1>7, <1>8 DEF CostInv

LEMMA NextCost == IInv /\ CostInv /\ [Next]_vars => CostInv'
  <1> SUFFICES ASSUME IInv, CostInv, [Next]_vars PROVE CostInv'
    OBVIOUS
  <1>1. ASSUME NEW r \in Requests, Step(r) \/ Fail(r) PROVE CostInv'
    <2>1. CASE Begin(r) \/ Snapshot(r) \/ LookAgain(r) \/ \E m \in Monsters : LockRow(r, m)
      BY <2>1, LockCost
    <2>2. CASE Act(r) BY <2>2, ActCost
    <2>3. CASE Commit(r) BY <2>3, CommitCost
    <2>4. CASE FallBack(r) BY <2>4, FallBackCost
    <2>5. CASE ActUnlocked(r) \/ Reload(r) \/ Overwrite(r) BY <2>5, FallenBackCost
    <2>6. CASE Refuse(r) \/ Fail(r) \/ DeadlockVictim(r)
      BY <2>6, EndsOpen, UndoCost
    <2> QED BY <1>1, <2>1, <2>2, <2>3, <2>4, <2>5, <2>6 DEF Step
  <1>2. CASE UNCHANGED vars
    <2>1. /\ pc' = pc /\ op' = op /\ visited' = visited /\ got' = got /\ unlocked' = unlocked
          /\ dirty' = dirty /\ draft' = draft /\ row' = row /\ cores' = cores
      BY <1>2 DEF vars, requestVars, tables
    <2>2. DraftsPaidFor'
      <3>1. \A x : PaidFor(x)' <=> PaidFor(x)
        BY <2>1 DEF PaidFor, FusedIn, EndedIn
      <3> QED BY <2>1, <3>1 DEF CostInv, DraftsPaidFor
    <2>3. ASSUME NEW r \in Requests PROVE DraftFits(r)' /\ PaysNothing(r)'
      <3>1. LivingIn(draft[r].rows)' = LivingIn(draft[r].rows)
        BY <2>1 DEF LivingIn, IsLiving
      <3> QED BY <2>1, <3>1 DEF CostInv, DraftsFit, DraftFits, FallenPayNothing, PaysNothing
    <2>4. LeftOutAreGone'
      BY <2>1 DEF CostInv, LeftOutAreGone, Open
    <2>5. FinitelyMany' /\ NothingSpentTwice' /\ GoneWearNothing'
      BY <2>1 DEF CostInv, FinitelyMany, NothingSpentTwice, Merged, Returned, Revivers,
                  GoneWearNothing, EndedBy, Fused, Living, IsLiving
    <2> QED BY <2>2, <2>3, <2>4, <2>5 DEF CostInv, DraftsFit, FallenPayNothing
  <1> QED BY <1>1, <1>2 DEF Next

LEMMA SpecCost == Spec => []CostInv
  <1>1. IInv /\ CostInv /\ IInv' /\ [Next]_vars => CostInv'
    BY NextCost
  <1> QED BY <1>1, InitCost, SpecInv, PTL DEF Spec

(* Whoever commits a hatch while nothing it did not see lives has counted  *)
(* everyone.                                                               *)
LEMMA HatchFits ==
    ASSUME IInv, CostInv, NEW r \in Requests, Commit(r), op[r] = "hatch", Living \subseteq snap[r]
    PROVE  Cardinality(Living') <= MAX_LIVING_MONSTERS
  <1>1. pc[r] = "acting" /\ Open(r)
    BY DEF Commit, Open
  <1>2. Living \subseteq DOMAIN draft[r].rows
    <2>1. Living \subseteq visited[r]
      BY <1>1 DEF IInv, DraftsOwned, ToLock, Writing
    <2>2. Living \subseteq got[r]
      BY <1>1, <2>1 DEF CostInv, LeftOutAreGone, Living, IsLiving
    <2> QED BY <1>1, <2>2 DEF CostInv, DraftsFit, DraftFits, Writing
  <1>3. Living' \subseteq LivingIn(draft[r].rows)
    BY <1>2 DEF Commit, Living, LivingIn, IsLiving
  <1>4. IsFiniteSet(LivingIn(draft[r].rows))
    BY FS_Subset DEF CostInv, DraftsFit, DraftFits, LivingIn
  <1>5. Cardinality(LivingIn(draft[r].rows)) <= MAX_LIVING_MONSTERS
    BY <1>1 DEF CostInv, DraftsFit, DraftFits, Writing
  <1>6. /\ Cardinality(Living') <= Cardinality(LivingIn(draft[r].rows))
        /\ IsFiniteSet(Living')
    BY <1>3, <1>4, FS_Subset
  <1>7. /\ Cardinality(Living') \in Nat /\ Cardinality(LivingIn(draft[r].rows)) \in Nat
        /\ MAX_LIVING_MONSTERS \in Nat
    BY <1>4, <1>6, FS_CardinalityType, RosterAssumption
  <1> QED BY <1>5, <1>6, <1>7

(* Nothing a player has is spent twice, however the requests meet: every   *)
(* fused monster cost two parents and every Pet Core one monster, whoever  *)
(* is gone wears nothing, and the fights are within their limit; what the  *)
(* fallback gives back or lets through is one monster, one fight each.     *)
THEOREM RosterNothingOverspent == Spec => []NothingOverspent
  <1>1. IInv /\ CostInv => NothingOverspent
    BY DEF IInv, FightsCounted, CostInv, NothingOverspent
  <1> QED BY <1>1, SpecInv, SpecCost, PTL

(* A hatch whose snapshot was still complete when it committed keeps the   *)
(* player within the cap (MonsterService.hatch counts what it has locked). *)
THEOREM RosterCapKeptWhenFresh == Spec => CapKeptWhenFresh
  <1>1. IInv /\ CostInv /\ [Next]_vars =>
           [\A r \in Requests :
              op[r] = "hatch" /\ pc[r] = "acting" /\ pc'[r] = "committed" /\ Living \subseteq snap[r]
                 => Cardinality(Living') <= MAX_LIVING_MONSTERS]_vars
    <2> SUFFICES ASSUME IInv, CostInv, NEW s \in Requests, Step(s) \/ Fail(s), NEW r \in Requests,
                        op[r] = "hatch", pc[r] = "acting", pc'[r] = "committed",
                        Living \subseteq snap[r]
                 PROVE  Cardinality(Living') <= MAX_LIVING_MONSTERS
      BY DEF Next
    <2>1. CASE Commit(s)
      <3>1. s = r
        BY <2>1 DEF Commit, IInv, TypeOK
      <3> QED BY <2>1, <3>1, HatchFits
    <2>2. CASE ~Commit(s)
      <3>1. pc'[r] # "committed" \/ pc'[r] = pc[r]
        BY <2>2, QuietRows
      <3> QED BY <3>1
    <2> QED BY <2>1, <2>2
  <1> QED BY <1>1, SpecInv, SpecCost, PTL DEF Spec, CapKeptWhenFresh
=============================================================================
