------------------------------ MODULE MCLedger ------------------------------
(* One edit that gives the first entry of a day of two another date, beside *)
(* an entry that is added.                                                  *)
EXTENDS Ledger, TLC

CONSTANTS r1, r2, pum, panya

MCRequests == {r1, r2}
MCPersons == {pum, panya}
MCProtected == {"oil"}
MCItems == {"oil", "rice", "soap"}

FirstRow == 5
LastRow == 9
SheetRows == FirstRow..LastRow

Line(date, item, amount) == [date |-> date, item |-> item, amount |-> amount]
NoLine == Line(0, "", 0)
Column(s, blank) ==
    [q \in SheetRows |-> IF q - FirstRow + 1 \in DOMAIN s THEN s[q - FirstRow + 1] ELSE blank]

MCSheets ==
    {[cells |-> Column(<<Line(1, "rice", -2), Line(0, "soap", -1), Line(3, "rice", -4)>>, NoLine),
      wages |-> Column(<<5, 6>>, 0), withdrawals |-> [p \in MCPersons |-> Column(<<2, 3>>, 0)]]}

OnEntry(kind, q, line) ==
    [kind |-> kind, table |-> "entries", row |-> q, entry |-> line, amount |-> 0,
     name |-> "rice", newName |-> "noodles"]

MCPlans ==
    {r1 :> OnEntry("editEntry", n, Line(2, "rice", -2)) @@ r2 :> OnEntry("addEntry", 0, Line(4, "oil", 9))
        : n \in {5, 6, 7}}
=============================================================================
