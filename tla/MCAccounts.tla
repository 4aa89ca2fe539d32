----------------------------- MODULE MCAccounts -----------------------------
(* A small instance of each part of Accounts.                               *)
EXTENDS Accounts, TLC

CONSTANTS
    coin, gem, rentAB, rentBA, rentBack, merge,    \* Wallet
    r1, r2, r3, r4, r5,
    here, there,        \* KvStore
    ann, bob,           \* Voting
    pum, panya          \* Ledger

Three == {r1, r2, r3}
Four == {r1, r2, r3, r4}
Five == {r1, r2, r3, r4, r5}

---------------------------------------------------------------------------
(* Two players, two currencies and four requests: a rental in one direction *)
(* and two in the other (rentAlly locks both wallets), one of these after   *)
(* the tick has paid the renter for a discovery, and a merge (two changes   *)
(* of one wallet, of which the second may find it empty).                   *)

MCUsers == {1, 2}
MCCurrencies == {coin, gem}
MCRequests == {rentAB, rentBA, rentBack, merge}

MCOpening == [u \in MCUsers |-> [c \in MCCurrencies |-> IF c = coin THEN 2 ELSE 1]]

Of(u, c, n) == [user |-> u, currency |-> c, amount |-> n]

Own(changes) == [locks |-> {}, before |-> 0, changes |-> changes]
Rents(n, changes) == [locks |-> MCUsers, before |-> n, changes |-> changes]

MCPlan ==
    [r \in MCRequests |->
        CASE r = rentAB -> Rents(0, <<Of(1, coin, -1), Of(2, coin, 1)>>)
          [] r = rentBA -> Rents(1, <<Of(2, gem, 1), Of(2, coin, -1), Of(1, coin, 1)>>)
          [] r = rentBack -> Rents(0, <<Of(2, coin, -1), Of(1, coin, 1)>>)
          [] OTHER -> Own(<<Of(1, gem, -1), Of(1, coin, -2)>>)]

---------------------------------------------------------------------------
(* Two keys of one prefix. *)

MCKeys == {here, there}
MCPrefixes == {MCKeys}
MCLifetimes == {1, 2}
MCValues == {1}

---------------------------------------------------------------------------
(* A user with two backup codes, a remembered device and an authenticator.  *)

Enters(kind, code) == [kind |-> kind, code |-> code, jti |-> 0, device |-> r1]

OneCode == r1 :> Enters("verify", 101) @@ r2 :> Enters("verify", 101)
Guessing == r1 :> Enters("verify", 99) @@ r2 :> Enters("disable", 99) @@ r3 :> Enters("verify", 99)
Typing == r1 :> Enters("login", 5) @@ r2 :> Enters("login", 5) @@ r3 :> Enters("password", 0)
Sessions ==
    r2 :> [Enters("login", 0) EXCEPT !.device = r4] @@ r3 :> Enters("refresh", 0) @@ r4 :> Enters("logout", 0)
Leaving == r1 :> Enters("verify", 102) @@ r2 :> Enters("disable", 0)
Enrolling == r1 :> Enters("enroll", 11) @@ r2 :> Enters("confirm", 11) @@ r3 :> Enters("login", 0)

MCLoginPlans == {OneCode, Leaving, Guessing, Typing, Sessions, Enrolling}
MCCodes == {101, 102}
MCRenew == BOOLEAN
MCOpeningUser == [status |-> "active", password |-> 0, enabled |-> TRUE, secret |-> 10, used |-> {}]
MCOpeningStore == <<"remember_device", r4>> :> [value |-> 1, expires |-> 2]

---------------------------------------------------------------------------
(* A poll of each kind: ranked, single with an end, multiple with and       *)
(* without a limit; ballots changed, options edited, results looked at.     *)

NoEnd == 2
Opens(type, max, n, end) == [kind |-> "create", type |-> type, max |-> max, options |-> n, closesAt |-> end]
Votes(v, choice) == [kind |-> "vote", voter |-> v, choice |-> choice]
Looks(v) == [kind |-> "results", voter |-> v]
Edits(n) == [kind |-> "edit", options |-> n]
Closes == [kind |-> "close"]

MCVotingPlans ==
    {r1 :> Opens("ranking", 0, 3, NoEnd) @@ r2 :> Votes(ann, <<2, 1, 3>>) @@ r3 :> Votes(bob, <<1, 2, 3>>)
       @@ r4 :> Looks(ann) @@ r5 :> Edits(2),
     r1 :> Opens("single", 0, 2, 1) @@ r2 :> Votes(ann, <<2>>) @@ r3 :> Votes(ann, <<1>>)
       @@ r4 :> Looks(ann) @@ r5 :> Closes,
     r1 :> Opens("multiple", 1, 3, NoEnd) @@ r2 :> Votes(ann, <<3, 1>>) @@ r3 :> Votes(bob, <<2>>)
       @@ r4 :> Looks(bob),
     r1 :> Opens("multiple", 0, 3, NoEnd) @@ r2 :> Votes(ann, <<2, 1>>) @@ r3 :> Looks(ann)
       @@ r4 :> Edits(2) @@ r5 :> Edits(2),
     r1 :> Opens("single", 1, 2, NoEnd)}

MCVoters == {ann, bob}

---------------------------------------------------------------------------
(* Sheets of three and five entries, with closed and open rounds, days of   *)
(* several rows and a blank row between withdrawals; requests that add,     *)
(* edit, delete and rename across their boundaries, one of which gives the  *)
(* first entry of a day another date.                                       *)

FirstRow == 5
LastRow == 11
SheetRows == FirstRow..LastRow

Line(date, item, amount) == [date |-> date, item |-> item, amount |-> amount]
NoLine == Line(0, "", 0)
Filled(s, blank) ==
    [q \in SheetRows |-> IF q - FirstRow + 1 \in DOMAIN s THEN s[q - FirstRow + 1] ELSE blank]

MCSheets ==
    {[cells |-> Filled(<<Line(1, "rice", -2), Line(0, "oil", 7), Line(0, "oil", 1),
                         Line(3, "rice", -4), Line(0, "soap", -1)>>, NoLine),
      wages |-> Filled(<<5, 6, 5>>, 0), withdrawals |-> [p \in {pum, panya} |-> Filled(<<2, 3>>, 0)]],
     [cells |-> Filled(<<Line(1, "oil", 2), Line(2, "rice", -1), Line(2, "soap", -3)>>, NoLine),
      wages |-> Filled(<<>>, 0), withdrawals |-> [p \in {pum, panya} |-> Filled(<<2, 0, 4, 5>>, 0)]]}

Writes(kind, table, q, line, amount) ==
    [kind |-> kind, table |-> table, row |-> q, entry |-> line, amount |-> amount,
     name |-> "rice", newName |-> "noodles"]
OnEntry(kind, q, line) == Writes(kind, "entries", q, line, 0)

MCLedgerPlans ==
    {r1 :> OnEntry("addEntry", 0, Line(2, "oil", 9)) @@ r2 :> OnEntry("deleteEntry", 9, NoLine)
       @@ r3 :> Writes("delete", panya, 5, NoLine, 0),
     r1 :> OnEntry("addEntry", 0, Line(1, "rice", -6)) @@ r2 :> OnEntry("editEntry", 5, Line(3, "soap", 1))
       @@ r3 :> OnEntry("deleteEntry", 8, NoLine),
     r1 :> OnEntry("editEntry", 7, Line(4, "oil", 1)) @@ r2 :> OnEntry("deleteEntry", 6, NoLine)
       @@ r3 :> Writes("add", "wages", 0, NoLine, 9),
     r1 :> OnEntry("renameItem", 0, NoLine) @@ r2 :> OnEntry("editEntry", 6, Line(1, "rice", 3))
       @@ r3 :> Writes("delete", "wages", 6, NoLine, 0),
     r1 :> OnEntry("addItem", 0, NoLine) @@ r2 :> OnEntry("deleteItem", 0, NoLine)
       @@ r3 :> Writes("edit", "wages", 7, NoLine, 8),
     r1 :> Writes("add", pum, 0, NoLine, 9) @@ r2 :> Writes("edit", panya, 6, NoLine, 8)
       @@ r3 :> Writes("delete", pum, 6, NoLine, 0)}
MCPersons == {pum, panya}
MCProtected == {"oil"}
MCItems == {"oil", "rice", "soap"}

---------------------------------------------------------------------------
(* A house of two months and two members, with a file at the house and one  *)
(* at a month, and two files that belong to nothing; requests that remove   *)
(* and add months and members, list the same file, use a name again, swap   *)
(* two months, and save a month that another has removed.                   *)

MCHouses == 1 :> [name |-> 1, baseHouseRent |-> 1000, paymentFee |-> 50, internet |-> 100,
                  airCondition |-> 7, alive |-> TRUE]
Bill(n, water, price, units) ==
    [house |-> 1, month |-> n, waterPrice |-> water, totalPrice |-> price, unit |-> units, alive |-> TRUE]
MCRents == <<r4, 1>> :> Bill(1, 100, 1001, 3) @@ <<r4, 2>> :> Bill(2, 55, 700, 2)
Reads(u, air, n) == [house |-> 1, user |-> u, airConditionUnit |-> air, diff |-> n, alive |-> TRUE]
MCMembers == <<r5, 1>> :> Reads(1, 2, 1) @@ <<r5, 2>> :> Reads(2, 0, 2)
MCFiles == [f \in 31..34 |-> [of |-> IF f = 31 THEN <<"house_rent_detail", <<r4, 1>> >>
                                    ELSE IF f = 32 THEN <<"house_rent", 1>> ELSE Nobody,
                             alive |-> TRUE]]

SavesMonth(id, n, fs) ==
    [id |-> id, month |-> n, waterPrice |-> 100, totalPrice |-> 1001, unit |-> 3, files |-> fs]
SavesMember(id, u, n) == [id |-> id, user |-> u, airConditionUnit |-> 1, diff |-> n]
Both == <<SavesMember(<<r5, 1>>, 1, 1), SavesMember(<<r5, 2>>, 2, 2)>>
House(kind, h, name, ms, us, fs) ==
    [kind |-> kind, house |-> h, name |-> name, rents |-> ms, members |-> us, files |-> fs,
     baseHouseRent |-> 2000, paymentFee |-> 1, internet |-> 0, airCondition |-> 3]
Edit(ms, us, fs) == House("edit", 1, 1, ms, us, fs)
Trio == Append(Both, SavesMember(New, 3, 2))

MCRentPlans ==
    {r1 :> Edit(<<SavesMonth(<<r4, 1>>, 1, {31, 33}), SavesMonth(New, 3, {})>>, Trio, {32})
       @@ r2 :> House("create", 2, 2, <<SavesMonth(New, 1, {33})>>, <<SavesMember(New, 1, 1)>>, {34})
       @@ r3 :> House("delete", 1, 1, <<>>, <<>>, {}),
     r1 :> Edit(<<SavesMonth(<<r4, 2>>, 2, {33})>>, Both, {})
       @@ r2 :> Edit(<<SavesMonth(<<r4, 1>>, 1, {31, 34}), SavesMonth(<<r4, 2>>, 2, {})>>, Trio, {32})
       @@ r3 :> House("create", 2, 2, <<>>, <<>>, {31}),
     r1 :> House("create", 2, 2, <<>>, Trio, {33})
       @@ r2 :> House("create", 3, 2, <<SavesMonth(New, 1, {}), SavesMonth(New, 2, {34})>>, <<>>, {33})
       @@ r3 :> House("edit", 1, 2, <<SavesMonth(<<r4, 1>>, 2, {31}), SavesMonth(<<r4, 2>>, 1, {})>>, Both, {}),
     r1 :> Edit(<<>>, <<SavesMember(New, 4, 5), SavesMember(New, 4, 5)>>, {34})
       @@ r2 :> Edit(<<SavesMonth(New, 2, {})>>, <<SavesMember(<<r5, 2>>, 3, 4), SavesMember(New, 2, 0)>>, {34})
       @@ r3 :> Edit(<<SavesMonth(<<r4, 1>>, 3, {})>>, <<SavesMember(<<r5, 2>>, 3, 3)>>, {31})}
=============================================================================
