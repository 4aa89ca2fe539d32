------------------------------ MODULE Ledger ------------------------------
(* The restaurant's ledger, which is a Google sheet: four tables that share *)
(* row numbers, edited by reads and writes of the Sheets API with nothing   *)
(* to hold them together, and a table of item names in the database         *)
(* (src/src/modules/paojiao-ledger/paojiao-ledger.service.ts,               *)
(* ledger-sheet-parser.ts).                                                 *)
(*                                                                         *)
(* One call of the API is one step, and the process may die between any    *)
(* two.  Requests on different tables interleave; two on the same table do *)
(* not: "fine for how this app is actually used (normally one person at a  *)
(* time)" (paojiao-ledger.service.ts:727).                                 *)
EXTENDS Integers, Sequences, SequencesExt, FiniteSetsExt, Bags

CONSTANTS
    TABLE_START_ROW, LAST_ROW,   \* LAST_ROW is a bound: the sheet has 1010 rows
    OIL_SALE_ITEM, NoItem,
    PROTECTED_ITEM_NAMES,
    LedgerPerson,
    Requests, Plans,
    OpeningSheets, OpeningItems

VARIABLES
    plan,    \* request |-> [kind, table, row, entry, amount, name, newName]
    pc,
    view,    \* what the request last read of the sheet
    cells,   \* columns A-G: row |-> [date, item, amount], date 0 where the cell is blank
    marks,   \* column I: row |-> <<profit>> of the round that closes there, or NoMark
    wages,   \* column Z: row |-> amount, 0 where blank
    withdrawals,  \* columns M-T: person |-> row |-> amount, 0 where blank
    items,   \* ledger_items
    torn     \* a request died after its first write to the entries: column I was not
             \* synchronised since (.marks), rows may be out of order ever since (.order);
             \* they may be after an edit that redates the rows below its own, too

sheet == <<cells, marks, wages, withdrawals>>
vars == <<plan, pc, view, sheet, items, torn>>

Rows == TABLE_START_ROW..LAST_ROW
Blank == [date |-> 0, item |-> NoItem, amount |-> 0]
NoMark == <<>>
Labels == {"idle", "item", "read", "write", "reread", "reorder", "syncRead", "syncWrite", "done", "failed"}

Overwrite(column, written) == [x \in DOMAIN column |-> IF x \in DOMAIN written THEN written[x] ELSE column[x]]

---------------------------------------------------------------------------
(* Parsing                                                                 *)

(* The rows from the top to the first one that is not filled *)
Block(filled) == {r \in Rows : TABLE_START_ROW..r \subseteq filled}

(* "The date column is only filled in on the first row of each day" *)
resolveDate(column, row) ==
    LET dated == {q \in TABLE_START_ROW..row : column[q].date # 0}
    IN IF dated = {} THEN 0 ELSE column[Max(dated)].date

(* The entries in order: the entry at index i is in row TABLE_START_ROW + i - 1. *)
parseEntries(column) ==
    [i \in 1..Cardinality(Block({q \in Rows : column[q].item # NoItem})) |->
        [column[TABLE_START_ROW + i - 1] EXCEPT !.date = resolveDate(column, TABLE_START_ROW + i - 1)]]

RowOf(i) == TABLE_START_ROW + i - 1

parseWages(column) == Block({q \in Rows : column[q] # 0})

(* Blank rows are skipped, not an end. *)
parseWithdrawals(column) == {q \in Rows : column[q] # 0}

(* A round closes on the last entry of an unbroken run of oil sales. *)
Closings(entries) ==
    {i \in DOMAIN entries : /\ entries[i].item = OIL_SALE_ITEM
                            /\ i < Len(entries) => entries[i + 1].item # OIL_SALE_ITEM}

(* deriveRounds: the last row of each round |-> <<its profit>> *)
deriveRounds(entries) ==
    LET begins(i) == Max({0} \cup {j \in Closings(entries) : j < i}) + 1
        profit(i) == FoldLeft(LAMBDA n, e : n + e.amount, 0, SubSeq(entries, begins(i), i))
    IN [row \in {RowOf(i) : i \in Closings(entries)} |-> <<profit(row - TABLE_START_ROW + 1)>>]

LastRoundRow(entries) == Max({0} \cup DOMAIN deriveRounds(entries))

(* A bug: the row that was moved from is left as it is. *)
WindowShort(order, n) ==
    LET changed == {i \in 1..n : order[i] # i} IN Min(changed)..(Max(changed) - 1)

(* The smallest run of rows whose entries change their place *)
Window(order, n) ==
    LET changed == {i \in 1..n : order[i] # i} IN Min(changed)..Max(changed)

(* computeDateReorder: what to write to which rows; nothing when the entry  *)
(* at index m is in its place.  Of one date it goes after the others.       *)
computeDateReorder(entries, m) ==
    LET n == Len(entries)
        others == SelectSeq([i \in 1..n |-> i], LAMBDA i : i # m)
        later == {k \in DOMAIN others : entries[others[k]].date > entries[m].date}
        order == InsertAt(others, IF later = {} THEN n ELSE Min(later), m)
    IN IF m \notin 1..n \/ \A i \in 1..n : order[i] = i THEN <<>>
       ELSE [row \in {RowOf(i) : i \in Window(order, n)} |-> entries[order[row - TABLE_START_ROW + 1]]]

(* The cells of column I that syncRoundColumn changes, down to the last entry *)
SyncedMarks(entries, column) ==
    LET rounds == deriveRounds(entries)
    IN [row \in {RowOf(i) : i \in DOMAIN entries} |->
          IF row \in DOMAIN rounds THEN rounds[row] ELSE NoMark]

---------------------------------------------------------------------------

Kind(r) == plan[r].kind
Row(r) == plan[r].row
Table(r) == plan[r].table
At(r, label) == r \in DOMAIN plan /\ pc[r] = label
Goto(r, label) == pc' = [pc EXCEPT ![r] = label]
Over == {"idle", "done", "failed"}

BagOfSeq(s) == [x \in ToSet(s) |-> Cardinality({i \in DOMAIN s : s[i] = x})]
BagOfRows(column, rows) ==
    [x \in {column[q] : q \in rows} |-> Cardinality({q \in rows : column[q] = x})]

Books ==
    [entries |-> BagOfSeq(parseEntries(cells)),
     wages |-> BagOfRows(wages, parseWages(wages)),
     withdrawals |-> [p \in LedgerPerson |-> BagOfRows(withdrawals[p], parseWithdrawals(withdrawals[p]))]]

TypeOK ==
    /\ plan \in Plans /\ pc \in [Requests -> Labels]
    /\ \A q \in Rows : cells[q].date \in Nat /\ cells[q].amount \in Int
    /\ DOMAIN cells = Rows /\ DOMAIN marks = Rows
    /\ wages \in [Rows -> Nat] /\ withdrawals \in [LedgerPerson -> [Rows -> Nat]]
    /\ PROTECTED_ITEM_NAMES \subseteq items

Init ==
    /\ plan \in Plans
    /\ pc = [r \in Requests |-> "idle"]
    /\ view = [r \in Requests |-> <<>>]
    /\ \E s \in OpeningSheets :
          /\ cells = s.cells /\ wages = s.wages /\ withdrawals = s.withdrawals
          /\ marks = Overwrite([q \in Rows |-> NoMark], deriveRounds(parseEntries(s.cells)))
    /\ items = OpeningItems
    /\ torn = [marks |-> FALSE, order |-> FALSE]

Begin(r) ==
    /\ At(r, "idle")
    /\ \A q \in DOMAIN plan : pc[q] \in Over \/ Table(q) # Table(r)
    /\ Goto(r, IF Kind(r) \in {"addItem", "renameItem", "deleteItem"} THEN "item" ELSE "read")
    /\ UNCHANGED <<plan, view, sheet, items, torn>>

(* The database's part of addItem, renameItem and deleteItem; the unique    *)
(* index refuses a name that exists.                                        *)
ChangeItem(r) ==
    LET name == plan[r].name
        newName == plan[r].newName
    IN /\ At(r, "item")
       /\ CASE Kind(r) = "addItem" ->
                 name \notin items /\ items' = items \cup {name} /\ Goto(r, "done")
            [] Kind(r) = "deleteItem" ->
                 /\ name \in items \ PROTECTED_ITEM_NAMES
                 /\ items' = items \ {name} /\ Goto(r, "done")
            [] Kind(r) = "renameItem" ->
                 /\ name \in items \ PROTECTED_ITEM_NAMES
                 /\ newName \notin items \ {name}
                 /\ items' = (items \ {name}) \cup {newName}
                 /\ Goto(r, IF newName = name THEN "done" ELSE "read")
       /\ UNCHANGED <<plan, view, sheet, torn>>

(* fetchLiveGrid *)
Read(r) ==
    /\ \E label \in {"read", "syncRead"} :
          /\ At(r, label)
          /\ Goto(r, [read |-> "write", syncRead |-> "syncWrite"][label])
    /\ view' = [view EXCEPT ![r] = [cells |-> cells, marks |-> marks, wages |-> wages,
                                   withdrawals |-> withdrawals]]
    /\ UNCHANGED <<plan, sheet, items, torn>>

Seen(r) == parseEntries(view[r].cells)

(* Every later row of the table moves up by one, the last one is blanked.   *)
(* The values written are as many as there are rows with data from "row" on; *)
(* what is left of the range stays as it was.                               *)
ShiftedUp(column, rows, row, blank) ==
    LET following == SetToSortSeq({q \in rows : q > row}, <)
    IN [q \in row..(row + Len(following)) |->
          IF q < row + Len(following) THEN column[following[q - row + 1]] ELSE blank]

(* The row that editEntry and repositionByDate are about *)
Target(r) == IF Kind(r) = "addEntry" THEN RowOf(Len(Seen(r)) + 1) ELSE Row(r)

MayDelete(entries, row) == row \in {RowOf(i) : i \in DOMAIN entries} /\ row > LastRoundRow(entries)

AfterWrite(r) ==
    CASE Kind(r) \in {"addEntry", "editEntry"} -> "reread"
      [] Kind(r) = "deleteEntry" -> "syncRead"
      [] OTHER -> "done"

(* A blank date cell reads as the date above it: whoever writes another     *)
(* date there and not to the row itself gives the row another date.         *)
Redates(column, written) ==
    \E q \in DOMAIN written : /\ q + 1 \in Rows \ DOMAIN written
                             /\ column[q + 1].item # NoItem /\ column[q + 1].date = 0
                             /\ written[q].date # resolveDate(column, q)

(* What the first write of addEntry, editEntry and deleteEntry writes *)
EntryWritten(r) ==
    LET entries == Seen(r)
        column == [q \in {RowOf(i) : i \in DOMAIN entries} |-> entries[q - TABLE_START_ROW + 1]]
    IN IF Kind(r) = "deleteEntry" THEN ShiftedUp(column, DOMAIN column, Row(r), Blank)
       ELSE [q \in {Target(r)} |-> plan[r].entry]

WriteEntries(r) ==
    /\ At(r, "write") /\ Table(r) = "entries" /\ Kind(r) # "renameItem"
    /\ IF Kind(r) = "deleteEntry" THEN MayDelete(Seen(r), Row(r)) ELSE Target(r) \in Rows
    /\ cells' = Overwrite(cells, EntryWritten(r))
    /\ torn' = [torn EXCEPT !.order = @ \/ Redates(cells, EntryWritten(r))]
    /\ Goto(r, AfterWrite(r))
    /\ view' = [view EXCEPT ![r] = [row |-> Target(r)]]
    /\ UNCHANGED <<plan, marks, wages, withdrawals, items>>

(* syncItemRename *)
WriteNames(r) ==
    LET named == {RowOf(i) : i \in {j \in DOMAIN Seen(r) : Seen(r)[j].item = plan[r].name}}
    IN /\ At(r, "write") /\ Kind(r) = "renameItem"
       /\ cells' = [q \in Rows |-> IF q \in named THEN [cells[q] EXCEPT !.item = plan[r].newName] ELSE cells[q]]
       /\ Goto(r, "done")
       /\ UNCHANGED <<plan, view, marks, wages, withdrawals, items, torn>>

(* addWage, editWage and deleteWage *)
WriteWages(r) ==
    LET rows == parseWages(view[r].wages)
        next == TABLE_START_ROW + Cardinality(rows)
    IN /\ At(r, "write") /\ Table(r) = "wages"
       /\ \/ /\ Kind(r) = "add" /\ next \in Rows
             /\ wages' = [wages EXCEPT ![next] = plan[r].amount]
          \/ /\ Kind(r) = "edit" /\ Row(r) \in rows
             /\ wages' = [wages EXCEPT ![Row(r)] = plan[r].amount]
          \/ /\ Kind(r) = "delete" /\ Row(r) \in rows
             /\ wages' = Overwrite(wages, ShiftedUp(view[r].wages, rows, Row(r), 0))
       /\ Goto(r, "done")
       /\ UNCHANGED <<plan, view, cells, marks, withdrawals, items, torn>>

(* addWithdrawal, editWithdrawal and deleteWithdrawal; how the date cell is *)
(* displayed afterwards is left out.                                        *)
WriteWithdrawals(r) ==
    LET who == Table(r)
        rows == parseWithdrawals(view[r].withdrawals[who])
        next == IF rows = {} THEN TABLE_START_ROW ELSE Max(rows) + 1
    IN /\ At(r, "write") /\ who \in LedgerPerson
       /\ \/ /\ Kind(r) = "add" /\ next \in Rows
             /\ withdrawals' = [withdrawals EXCEPT ![who][next] = plan[r].amount]
          \/ /\ Kind(r) = "edit" /\ Row(r) \in rows
             /\ withdrawals' = [withdrawals EXCEPT ![who][Row(r)] = plan[r].amount]
          \/ /\ Kind(r) = "delete" /\ Row(r) \in rows
             /\ withdrawals' = [withdrawals EXCEPT ![who] =
                                  Overwrite(@, ShiftedUp(view[r].withdrawals[who], rows, Row(r), 0))]
       /\ Goto(r, "done")
       /\ UNCHANGED <<plan, view, cells, marks, wages, items, torn>>

(* repositionByDate: its read keeps the row it is about. *)
Reread(r) ==
    /\ At(r, "reread") /\ Goto(r, "reorder")
    /\ view' = [view EXCEPT ![r] = [row |-> @.row, entries |-> parseEntries(cells)]]
    /\ UNCHANGED <<plan, sheet, items, torn>>

Reorder(r) ==
    /\ At(r, "reorder")
    /\ cells' = Overwrite(cells, computeDateReorder(view[r].entries, view[r].row - TABLE_START_ROW + 1))
    /\ Goto(r, "syncRead")
    /\ UNCHANGED <<plan, view, marks, wages, withdrawals, items, torn>>

(* syncRoundColumn *)
SyncWrite(r) ==
    /\ At(r, "syncWrite")
    /\ marks' = Overwrite(marks, SyncedMarks(Seen(r), view[r].marks))
    /\ torn' = [torn EXCEPT !.marks = FALSE]
    /\ Goto(r, "done")
    /\ UNCHANGED <<plan, view, cells, wages, withdrawals, items>>

(* A refusal, an error of the API or of the database, or the process dies. *)
Fail(r) ==
    /\ r \in DOMAIN plan /\ pc[r] \notin Over
    /\ Goto(r, "failed")
    /\ torn' = [marks |-> torn.marks \/ pc[r] \in {"reread", "reorder", "syncRead", "syncWrite"},
                order |-> torn.order \/ pc[r] \in {"reread", "reorder"}]
    /\ UNCHANGED <<plan, view, sheet, items>>

Step(r) ==
    \/ Begin(r) \/ ChangeItem(r) \/ Read(r)
    \/ WriteEntries(r) \/ WriteNames(r) \/ WriteWages(r) \/ WriteWithdrawals(r)
    \/ Reread(r) \/ Reorder(r) \/ SyncWrite(r) \/ Fail(r)

Next == \E r \in DOMAIN plan : Step(r)

Spec == Init /\ [][Next]_vars
---------------------------------------------------------------------------

Swapped(bag, out, in) == (bag (-) SetToBag(out)) (+) SetToBag(in)

Renamed(e, name, newName) == IF e.item = name THEN [e EXCEPT !.item = newName] ELSE e

(* What the books should be after the write that r is about to make *)
Asked(r) ==
    LET now == parseEntries(cells)
        entry == {now[i] : i \in {j \in DOMAIN now : RowOf(j) = Row(r)}}
        amounts(column, rows) == {column[q] : q \in {Row(r)} \cap rows}
        changed(bag, old, new) ==
            Swapped(bag, IF Kind(r) \in {"add", "addEntry"} THEN {} ELSE old,
                         IF Kind(r) \in {"delete", "deleteEntry"} THEN {} ELSE new)
    IN CASE Kind(r) = "renameItem" ->
              [Books EXCEPT !.entries = BagOfSeq(
                  [i \in DOMAIN now |-> Renamed(now[i], plan[r].name, plan[r].newName)])]
         [] Kind(r) # "renameItem" /\ Table(r) = "entries" ->
              [Books EXCEPT !.entries = changed(@, entry, {plan[r].entry})]
         [] Table(r) = "wages" ->
              [Books EXCEPT !.wages = changed(@, amounts(wages, parseWages(wages)), {plan[r].amount})]
         [] Table(r) \in LedgerPerson ->
              LET column == withdrawals[Table(r)]
              IN [Books EXCEPT !.withdrawals[Table(r)] =
                     changed(@, amounts(column, parseWithdrawals(column)), {plan[r].amount})]

Writers == {r \in DOMAIN plan : pc[r] = "write" /\ pc'[r] \notin {"write", "failed"}}

Undated(bag) ==
    LET plain(e) == [e EXCEPT !.date = 0]
    IN [x \in {plain(e) : e \in DOMAIN bag} |->
          MapThenSumSet(LAMBDA e : bag[e], {e \in DOMAIN bag : plain(e) = x})]

(* What a step writes to the entries *)
Overwritten == LET rows == {q \in Rows : cells'[q] # cells[q]} IN [q \in rows |-> cells'[q]]

(* r deletes a withdrawal above a blank row that others follow. *)
DeletesOverGap(r) ==
    LET rows == parseWithdrawals(withdrawals[Table(r)])
    IN Kind(r) = "delete" /\ \E q \in Rows \ rows : Row(r) < q /\ q < Max(rows)

(* "A targeted update to one exact row/column range cannot shift anything   *)
(* else" (paojiao-ledger.service.ts:211): whatever requests on the four     *)
(* tables cross, and wherever one of them dies, every write changes the     *)
(* books as its request asked, and no other step changes them: no entry is  *)
(* lost, doubled or given another date by a row moving up or down.  Except  *)
(* that an entry whose date cell is blank takes another date when the cell  *)
(* above it is written with one by an edit (:222-223 says this is safe) or  *)
(* a move, and that a withdrawal deleted over a blank row leaves later ones *)
(* twice, but loses none (:489-511 writes fewer rows than the range has).   *)
WritesAsAsked ==
    LET asked == IF Writers = {} THEN Books ELSE Asked(CHOOSE r \in Writers : TRUE)
    IN /\ Books'.wages = asked.wages
       /\ IF Redates(cells, Overwritten) THEN Undated(Books'.entries) = Undated(asked.entries)
          ELSE Books'.entries = asked.entries
       /\ \A p \in LedgerPerson :
             IF \E r \in Writers : Table(r) = p /\ DeletesOverGap(r)
             THEN asked.withdrawals[p] \sqsubseteq Books'.withdrawals[p]
             ELSE Books'.withdrawals[p] = asked.withdrawals[p]

(* "In-place update of one row's values - the row number doesn't change, so *)
(* this is always safe" (paojiao-ledger.service.ts:222-223): editing an     *)
(* entry changes that entry and no other.                                   *)
EditsAreSafe ==
    [][\A r \in Writers : Kind(r) = "editEntry" => Books' = Asked(r)]_vars

EntriesAreIdle == \A r \in DOMAIN plan : pc[r] \in Over \/ Table(r) # "entries"

(* When no request is at work on the entries, they are in the order of      *)
(* their dates (unless a request died before it had moved its row, or an    *)
(* edit has redated the rows below its own, which are not moved), and       *)
(* column I shows the profit on exactly the rows where a round closes       *)
(* (unless the last one died before it had written it).                     *)
SheetIsSettled ==
    LET entries == parseEntries(cells)
    IN EntriesAreIdle =>
         /\ torn.order \/ \A i, j \in DOMAIN entries : i < j => entries[i].date <= entries[j].date
         /\ torn.marks \/ \A i \in DOMAIN entries : marks[RowOf(i)] = SyncedMarks(entries, marks)[RowOf(i)]

(* "deleting it would desync that round's profit total"                     *)
(* (paojiao-ledger.service.ts:320): no delete changes a round that was      *)
(* closed, or closes one.                                                   *)
StaySettled ==
    \A r \in DOMAIN plan : Kind(r) = "deleteEntry" /\ WriteEntries(r)
        => deriveRounds(parseEntries(cells')) = deriveRounds(parseEntries(cells))

=============================================================================
