------------------------------- MODULE Bank -------------------------------
(***************************************************************************)
(* What the wallets promise: a request pays all of its changes at once, in *)
(* order, with no account going below zero on the way, or none of them.    *)
(***************************************************************************)
EXTENDS Integers, Sequences, Functions

CONSTANTS Users, Currencies, Requests, Plan, Opening

VARIABLES balance, outcome

vars == <<balance, outcome>>

Init ==
    /\ balance = Opening
    /\ outcome = [r \in Requests |-> "pending"]

(* What the first n changes of r amount to for one account, by change. *)
Paid(r, n, u, c) ==
    [i \in 1..Len(Plan[r].changes) |->
        LET ch == Plan[r].changes[i]
        IN  IF i <= n /\ ch.user = u /\ ch.currency = c THEN ch.amount ELSE 0]

(* The balances after the first n changes of r. *)
After(b, r, n) ==
    [u \in Users |-> [c \in Currencies |-> b[u][c] + SumFunction(Paid(r, n, u, c))]]

Affordable(r) ==
    \A n \in 1..Len(Plan[r].changes) :
        \A u \in Users, c \in Currencies : After(balance, r, n)[u][c] >= 0

Pay(r) ==
    /\ outcome[r] = "pending"
    /\ outcome' = [outcome EXCEPT ![r] = "paid"]
    /\ Affordable(r)
    /\ balance' = After(balance, r, Len(Plan[r].changes))

Refuse(r) ==
    /\ outcome[r] = "pending"
    /\ outcome' = [outcome EXCEPT ![r] = "refused"]
    /\ UNCHANGED balance

Next == \E r \in Requests : Pay(r) \/ Refuse(r)

Spec == Init /\ [][Next]_vars
=============================================================================
