----------------------------- MODULE HouseRent -----------------------------
(* The houses that are rented together: their months, their members, and    *)
(* the files attached to a house or to one of its months                    *)
(* (src/src/modules/house-rent, src/src/db/entities).                       *)
(*                                                                         *)
(* Creating and editing are transactions.  The first statement of an edit   *)
(* locks its house's row, so the months and members of a house are one      *)
(* request's at a time.  The files are not: a file's row is locked by the   *)
(* statement that writes it, long after it was looked at.  Rows are deleted *)
(* softly (`alive`).  Money is in satang, electricity in whole units.       *)
EXTENDS Integers, Sequences, FiniteSets, SequencesExt, FiniteSetsExt

CONSTANTS
    Requests, Plans,
    New, Nobody, NoRequest,    \* an id that is not given, no record, no transaction
    OpeningHouses, OpeningRents, OpeningMembers, OpeningFiles    \* id |-> row

VARIABLES
    plan,
    pc, link,                  \* where each request is, and the record it links files to
    houses, rents, members,    \* id |-> row
    files, draft, holder,      \* files committed, files as their holder left them, and who that is
    crossed,                   \* ghost: files that two requests under way at once both listed
    stale                      \* ghost: months that were saved after they had been removed

vars == <<plan, pc, link, houses, rents, members, files, draft, holder, crossed, stale>>
ghosts == <<crossed, stale>>

House == [name : Nat, baseHouseRent : Nat, paymentFee : Nat, internet : Nat,
          airCondition : Nat, alive : BOOLEAN]
Rent(ids) == [house : ids, month : Nat, waterPrice : Nat, totalPrice : Nat, unit : Nat, alive : BOOLEAN]
Member(ids) == [house : ids, user : Nat, airConditionUnit : Nat, diff : Nat, alive : BOOLEAN]

OfHouse(h) == <<"house_rent", h>>
OfDetail(d) == <<"house_rent_detail", d>>
File == [of : {OfHouse(h) : h \in DOMAIN houses} \cup {OfDetail(d) : d \in DOMAIN rents} \cup {Nobody},
         alive : BOOLEAN]

Working == {"drop", "check", "link", "commit"}
Ends == {"done", "refused", "failed"}

TypeOK ==
    /\ plan \in Plans
    /\ pc \in [Requests -> {"idle"} \cup Working \cup Ends]
    /\ link \in [Requests -> Nat]
    /\ \A h \in DOMAIN houses : houses[h] \in House
    /\ \A d \in DOMAIN rents : rents[d] \in Rent(DOMAIN houses)
    /\ \A m \in DOMAIN members : members[m] \in Member(DOMAIN houses)
    /\ \A f \in DOMAIN files : files[f] \in File
    /\ holder \in [DOMAIN files -> Requests \cup {NoRequest}]
    /\ crossed \subseteq DOMAIN files /\ stale \subseteq DOMAIN rents

Init ==
    /\ plan \in Plans
    /\ pc = [r \in Requests |-> "idle"] /\ link = [r \in Requests |-> 1]
    /\ houses = OpeningHouses /\ rents = OpeningRents /\ members = OpeningMembers
    /\ files = OpeningFiles /\ draft = OpeningFiles
    /\ holder = [f \in DOMAIN OpeningFiles |-> NoRequest]
    /\ crossed = {} /\ stale = {}

---------------------------------------------------------------------------

Kind(r) == plan[r].kind
HouseOf(r) == plan[r].house
At(r, label) == r \in DOMAIN plan /\ pc[r] = label
Goto(r, label) == pc' = [pc EXCEPT ![r] = label]
IsWorking(r) == r \in DOMAIN plan /\ pc[r] \in Working

IsTaken(name, h) == \E g \in DOMAIN houses \ {h} : houses[g].alive /\ houses[g].name = name

(* Detail and member ids: those given, and new ones. *)
IdOf(r, rows, i) == IF rows[i].id = New THEN <<r, i>> ELSE rows[i].id
Given(rows) == {rows[i].id : i \in DOMAIN rows} \ {New}

(* The rows of the house that are not in the list: softDeleteMissing. *)
Missing(table, h, rows) ==
    {x \in DOMAIN table : table[x].house = h /\ table[x].alive} \ Given(rows)

(* save() inserts the new rows, then updates the others one by one; the     *)
(* unique index (of living rows) holds at each of these statements.         *)
Clashes(table, rows, key) ==
    LET isNew(i) == rows[i].id \notin DOMAIN table
        lives(i) == isNew(i) \/ table[rows[i].id].alive
    IN \E i, j \in {k \in DOMAIN rows : lives(k)} :
          /\ i # j
          /\ \/ rows[i][key] = rows[j][key]
             \/ /\ ~isNew(j) /\ table[rows[j].id][key] = rows[i][key]
                /\ isNew(i) \/ i < j

(* The records that get files: every saved month, then the house. *)
Records(r) ==
    LET rows == plan[r].rents
    IN Append([i \in DOMAIN rows |-> [of |-> OfDetail(IdOf(r, rows, i)), files |-> rows[i].files]],
              [of |-> OfHouse(HouseOf(r)), files |-> plan[r].files])

Listed(r) == UNION {Records(r)[i].files : i \in DOMAIN Records(r)}

---------------------------------------------------------------------------
(* Transactions on the files                                               *)

(* A transaction sees what was committed and what it wrote itself. *)
Sees(r) == [f \in DOMAIN files |-> IF holder[f] = r THEN draft[f] ELSE files[f]]

AttachedTo(r, records) == {f \in DOMAIN files : Sees(r)[f].of \in records}

CanLock(r, S) == \A f \in S : holder[f] \in {NoRequest, r}

Writes(r, S, new) ==
    /\ CanLock(r, S)
    /\ holder' = [f \in DOMAIN files |-> IF f \in S THEN r ELSE holder[f]]
    /\ draft' = [f \in DOMAIN files |-> IF f \in S THEN new[f] ELSE draft[f]]

Release(r) == holder' = [f \in DOMAIN files |-> IF holder[f] = r THEN NoRequest ELSE holder[f]]

Undo(r, label) ==
    /\ Goto(r, label)
    /\ draft' = [f \in DOMAIN files |-> IF holder[f] = r THEN files[f] ELSE draft[f]]
    /\ Release(r)
    /\ UNCHANGED <<plan, link, houses, rents, members, files, ghosts>>

---------------------------------------------------------------------------
(* createHouseRent, updateHouseRent                                        *)

(* Two transactions do not write one house, nor one name of the unique      *)
(* index, at once.                                                         *)
MayOpen(r) ==
    \A q \in DOMAIN plan : IsWorking(q) => HouseOf(q) # HouseOf(r) /\ plan[q].name # plan[r].name

Open(r) ==
    /\ At(r, "idle") /\ Kind(r) \in {"create", "edit"}
    /\ Kind(r) = "edit" => HouseOf(r) \in DOMAIN houses
    /\ MayOpen(r)
    /\ IF IsTaken(plan[r].name, HouseOf(r)) /\ (Kind(r) = "edit" => houses[HouseOf(r)].alive)
       THEN Goto(r, "refused") /\ UNCHANGED crossed
       ELSE /\ Goto(r, "drop")
            /\ crossed' = crossed \cup (Listed(r) \cap UNION {Listed(q) : q \in {p \in DOMAIN plan : IsWorking(p)}})
    /\ UNCHANGED <<plan, link, houses, rents, members, files, draft, holder, stale>>

(* softDeleteDetailAttachments, and the saves that the indexes let through *)
DropFiles(r) ==
    /\ At(r, "drop")
    /\ IF \/ Clashes(rents, plan[r].rents, "month")
          \/ Clashes(members, plan[r].members, "user")
       THEN Undo(r, "failed")
       ELSE /\ Writes(r, AttachedTo(r, {OfDetail(d) : d \in Missing(rents, HouseOf(r), plan[r].rents)}),
                      [f \in DOMAIN files |-> [Sees(r)[f] EXCEPT !.alive = FALSE]])
            /\ Goto(r, "check")
            /\ UNCHANGED <<plan, link, houses, rents, members, files, ghosts>>

IsElsewhere(file, record) == file.alive /\ file.of # Nobody /\ file.of # record

(* linkAttachments: first it looks ...  *)
CheckFiles(r) ==
    /\ At(r, "check")
    /\ LET record == Records(r)[link[r]] IN
       IF \E f \in record.files : IsElsewhere(Sees(r)[f], record.of)
       THEN Undo(r, "refused")
       ELSE Goto(r, "link") /\ UNCHANGED <<plan, link, houses, rents, members, files, draft, holder, ghosts>>

(* ... then it writes, whatever happened to the file since; a file that was *)
(* deleted (by an earlier link of the same edit, too) stays so.  The        *)
(* record's other files are deleted.                                        *)
LinkFiles(r) ==
    /\ At(r, "link")
    /\ LET record == Records(r)[link[r]] IN
       Writes(r, record.files \cup AttachedTo(r, {record.of}),
              [f \in DOMAIN files |->
                 IF f \in record.files THEN [Sees(r)[f] EXCEPT !.of = record.of]
                 ELSE [Sees(r)[f] EXCEPT !.alive = FALSE]])
    /\ link' = [link EXCEPT ![r] = @ + 1]
    /\ Goto(r, IF link[r] = Len(Records(r)) THEN "commit" ELSE "check")
    /\ UNCHANGED <<plan, houses, rents, members, files, ghosts>>

(* A month or member that was removed before is saved, but stays removed. *)
Saved(r, table, rows, row) ==
    LET ids == {IdOf(r, rows, i) : i \in DOMAIN rows}
        lives(x) == x \in DOMAIN table => table[x].alive
        new == [x \in ids |-> row[CHOOSE i \in DOMAIN rows : IdOf(r, rows, i) = x]]
    IN [x \in DOMAIN table \cup ids |->
          IF x \in ids THEN [new[x] EXCEPT !.alive = lives(x)]
          ELSE IF x \in Missing(table, HouseOf(r), rows) THEN [table[x] EXCEPT !.alive = FALSE]
          ELSE table[x]]

(* An edit of a house changes its name and nothing else of the house itself. *)
SavedHouse(r) ==
    IF Kind(r) = "edit" THEN [houses EXCEPT ![HouseOf(r)].name = plan[r].name]
    ELSE [h \in DOMAIN houses \cup {HouseOf(r)} |->
            IF h = HouseOf(r)
            THEN [name |-> plan[r].name, baseHouseRent |-> plan[r].baseHouseRent,
                  paymentFee |-> plan[r].paymentFee, internet |-> plan[r].internet,
                  airCondition |-> plan[r].airCondition, alive |-> TRUE]
            ELSE houses[h]]

RentRow(r, i) ==
    LET row == plan[r].rents[i]
    IN [house |-> HouseOf(r), month |-> row.month, waterPrice |-> row.waterPrice,
        totalPrice |-> row.totalPrice, unit |-> row.unit, alive |-> TRUE]

MemberRow(r, i) ==
    LET row == plan[r].members[i]
    IN [house |-> HouseOf(r), user |-> row.user, airConditionUnit |-> row.airConditionUnit,
        diff |-> row.diff, alive |-> TRUE]

Commit(r) ==
    /\ At(r, "commit")
    /\ houses' = SavedHouse(r)
    /\ rents' = Saved(r, rents, plan[r].rents, [i \in DOMAIN plan[r].rents |-> RentRow(r, i)])
    /\ members' = Saved(r, members, plan[r].members, [i \in DOMAIN plan[r].members |-> MemberRow(r, i)])
    /\ files' = Sees(r)
    /\ Release(r)
    /\ stale' = stale \cup {d \in Given(plan[r].rents) : ~rents[d].alive}
    /\ Goto(r, "done")
    /\ UNCHANGED <<plan, link, draft, crossed>>

(* deleteHouseRent: the months, members and files stay. *)
Delete(r) ==
    /\ At(r, "idle") /\ Kind(r) = "delete" /\ HouseOf(r) \in DOMAIN houses
    /\ ~ \E q \in DOMAIN plan : IsWorking(q) /\ HouseOf(q) = HouseOf(r)
    /\ houses' = [houses EXCEPT ![HouseOf(r)].alive = FALSE]
    /\ Goto(r, "done")
    /\ UNCHANGED <<plan, link, rents, members, files, draft, holder, ghosts>>

(* The process or the database fails, also when two transactions wait for   *)
(* each other's files.                                                      *)
Fail(r) == IsWorking(r) /\ Undo(r, "failed")

Step(r) == Open(r) \/ DropFiles(r) \/ CheckFiles(r) \/ LinkFiles(r) \/ Commit(r) \/ Delete(r) \/ Fail(r)

Next == \E r \in DOMAIN plan : Step(r)

Spec == Init /\ [][Next]_vars

---------------------------------------------------------------------------
(* getHouseRentOverview, getHouseRentUser                                  *)

(* round(n / d), halves up *)
RoundDiv(n, d) == (2 * n + d) \div (2 * d)

RentsOf(h) == {d \in DOMAIN rents : rents[d].house = h /\ rents[d].alive}
MembersOf(h) == {m \in DOMAIN members : members[m].house = h /\ members[m].alive}
Sum(S, n(_)) == MapThenSumSet(n, S)

ElectricityRate(d) == RoundDiv(rents[d].totalPrice, rents[d].unit)

(* What each member's own page shows, too. *)
OwnPrices(h, d, m) ==
    [waterPrice |-> RoundDiv(rents[d].waterPrice, Cardinality(MembersOf(h))),
     individualElectricityPrice |-> RoundDiv(members[m].diff * ElectricityRate(d), Cardinality(RentsOf(h))),
     airConditionPrice |-> members[m].airConditionUnit * houses[h].airCondition]

UsedUnits(h) == Sum(MembersOf(h), LAMBDA m : members[m].diff)

(* In hundredths of a unit: the average month's readings against the bill. *)
ShareElectricityUnit(h, d) ==
    LET n == RoundDiv(100 * UsedUnits(h), Cardinality(RentsOf(h))) - 100 * rents[d].unit
    IN IF n < 0 THEN -n ELSE n

ShareElectricityPrice(h, d) == RoundDiv(ShareElectricityUnit(h, d) * ElectricityRate(d), 100)

TotalPrice(h, d, m) ==
    LET n == Cardinality(MembersOf(h))
        own == OwnPrices(h, d, m)
        parts == own.waterPrice + own.individualElectricityPrice + own.airConditionPrice
                 + RoundDiv(houses[h].baseHouseRent, n) + RoundDiv(houses[h].internet, n)
                 + RoundDiv(ShareElectricityPrice(h, d), n)
    IN RoundDiv(n * parts + houses[h].paymentFee, n)

---------------------------------------------------------------------------

(* No file that belongs to one record turns up at another: "Attachment      *)
(* already belongs to another record" (house-rent.service.ts:426) - unless  *)
(* two requests that both list it are under way at once.                    *)
FilesStay ==
    \A f \in DOMAIN files :
        files[f].alive /\ files[f].of # Nobody /\ files'[f].alive /\ f \notin crossed
            => files'[f].of = files[f].of

(* A file that can be seen hangs on a month that can be seen: removing a    *)
(* month deletes its files (house-rent.service.ts:392), also when they are  *)
(* edited at once - unless the month is saved by somebody who has not       *)
(* noticed that it was removed.                                             *)
NoFileIsLost ==
    \A d \in DOMAIN rents, f \in DOMAIN files :
        files[f].alive /\ files[f].of = OfDetail(d) /\ f \notin crossed => rents[d].alive \/ d \in stale

(* Whatever months and members an edit leaves, together the members pay a   *)
(* month's bills but for the rounding, provided that their meters do not    *)
(* read more than the bill (the difference is made positive,                *)
(* house-rent.service.ts:290).                                              *)
SharesCoverTheBill ==
    \A h \in DOMAIN houses : \A d \in RentsOf(h) :
        LET n == Cardinality(MembersOf(h))
            bill == rents[d].waterPrice + rents[d].totalPrice + houses[h].baseHouseRent
                    + houses[h].internet + houses[h].paymentFee
                    + Sum(MembersOf(h), LAMBDA m : members[m].airConditionUnit * houses[h].airCondition)
            gap == Sum(MembersOf(h), LAMBDA m : TotalPrice(h, d, m)) - bill
            rounding == 3 * n + 1 + rents[d].unit \div 2 + ElectricityRate(d) \div 200 + 1
        IN n > 0 /\ rents[d].unit > 0 /\ UsedUnits(h) <= rents[d].unit * Cardinality(RentsOf(h))
              => gap \in (-rounding)..rounding
=============================================================================
