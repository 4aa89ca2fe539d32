------------------------------ MODULE Wallet ------------------------------
(***************************************************************************)
(* The wallets of src/src/modules/wallet/wallet.service.ts: one row per    *)
(* user with one balance per currency, and the transaction log (the        *)
(* ledger) written next to it.  A request is one database transaction of a *)
(* caller: it may take several wallet rows up front with lockWallets, then *)
(* calls change() once per amount, then commits or is rolled back.         *)
(*                                                                         *)
(* A row lock (SELECT ... FOR UPDATE, or the row's insertion) is held      *)
(* until the transaction ends, so the versions a request has written live  *)
(* in draft and become row when it commits.  A wallet that has no row yet  *)
(* reads as zero, and inserting it takes the same lock as locking it.      *)
(***************************************************************************)
EXTENDS Integers, Sequences, FiniteSets

CONSTANTS
    Users,       \* user ids; numbers, because lockWallets sorts them
    Currencies,  \* coin, gem, raid token
    Requests,    \* the transactions that move money
    Plan,        \* what each request asks for: the rows lockWallets takes, the
                 \* changes, and how many of these come before lockWallets
    Opening,     \* the balance each account has been given before we look
    NoRequest

Change == [user : Users, currency : Currencies, amount : Int]

ASSUME UsersAssumption == Users \subseteq Nat /\ IsFiniteSet(Users)
ASSUME NoRequestAssumption == NoRequest \notin Requests
ASSUME OpeningAssumption == Opening \in [Users -> [Currencies -> Nat]]
ASSUME PlanAssumption ==
    Plan \in [Requests -> [locks : SUBSET Users, before : Nat, changes : Seq(Change)]]

UsersOf(r) == {Plan[r].changes[i].user : i \in 1..Len(Plan[r].changes)}

(* Whom r pays before lockWallets: a tick that discovers a species pays    *)
(* the caller (world-boss.service.ts:149), before rentAlly locks both      *)
(* wallets (world-boss.service.ts:276).                                    *)
PaidEarly(r) ==
    {Plan[r].changes[i].user : i \in 1..Len(Plan[r].changes) \cap 1..Plan[r].before}

(* Who moves money between two players locks both wallets, with nobody but *)
(* the caller paid before that (rentAlly); all the others only ever touch  *)
(* the caller's own.                                                       *)
ASSUME LocksBothAssumption ==
    \A r \in Requests :
        \/ UsersOf(r) \subseteq Plan[r].locks /\ \A u, v \in PaidEarly(r) : u = v
        \/ Plan[r].locks = {} /\ \A u, v \in UsersOf(r) : u = v

VARIABLES
    pc,      \* where each request is
    todo,    \* the rows lockWallets has still to lock
    next,    \* the index of the change() being executed
    seen,    \* the balance change() read under the lock
    holder,  \* who holds each wallet row's lock
    row,     \* the committed accounts
    draft    \* the accounts as the holder of the row has written them

vars == <<pc, todo, next, seen, holder, row, draft>>

Entry == [amount : Int, balanceAfter : Int]
Account == [balance : Int, entries : Seq(Entry)]

Ended == {"committed", "rolledBack"}

TypeOK ==
    /\ pc \in [Requests -> {"idle", "open", "read"} \cup Ended]
    /\ todo \in [Requests -> SUBSET Users]
    /\ next \in [Requests -> Nat \ {0}]
    /\ seen \in [Requests -> Int]
    /\ holder \in [Users -> Requests \cup {NoRequest}]
    /\ row \in [Users -> [Currencies -> Account]]
    /\ draft \in [Users -> [Currencies -> Account]]

---------------------------------------------------------------------------

OpeningAccount(n) ==
    [balance |-> n, entries |-> <<[amount |-> n, balanceAfter |-> n]>>]

Init ==
    /\ pc = [r \in Requests |-> "idle"]
    /\ todo = [r \in Requests |-> {}]
    /\ next = [r \in Requests |-> 1]
    /\ seen = [r \in Requests |-> 0]
    /\ holder = [u \in Users |-> NoRequest]
    /\ row = [u \in Users |-> [c \in Currencies |-> OpeningAccount(Opening[u][c])]]
    /\ draft = row

Current(r) == Plan[r].changes[next[r]]

HasChange(r) == next[r] <= Len(Plan[r].changes)

(* What lockWallets has to lock once r has made n of its changes. *)
Locking(r, n) == IF n = Plan[r].before THEN Plan[r].locks ELSE {}

(* A bug this module is checked against: rows read without FOR UPDATE. *)
FreeUnlocked(u, r) == TRUE

Free(u, r) == holder[u] \in {NoRequest, r}

Begin(r) ==
    /\ pc[r] = "idle"
    /\ pc' = [pc EXCEPT ![r] = "open"]
    /\ todo' = [todo EXCEPT ![r] = Locking(r, 0)]
    /\ UNCHANGED <<next, seen, holder, row, draft>>

(* A bug: lockWallets without the sort. *)
IsNextUnsorted(r, u) == u \in todo[r]

(* lockWallets walks the distinct user ids in sorted order. *)
IsNextToLock(r, u) == u \in todo[r] /\ \A v \in todo[r] : u <= v

LockWallet(r, u) ==
    /\ pc[r] = "open"
    /\ IsNextToLock(r, u)
    /\ Free(u, r)
    /\ holder' = [holder EXCEPT ![u] = r]
    /\ todo' = [todo EXCEPT ![r] = @ \ {u}]
    /\ UNCHANGED <<pc, next, seen, row, draft>>

(* The first half of change(): lock the row and read the balance. *)
ChangeRead(r) ==
    /\ pc[r] = "open"
    /\ todo[r] = {}
    /\ HasChange(r)
    /\ LET ch == Current(r) IN
         /\ Free(ch.user, r)
         /\ holder' = [holder EXCEPT ![ch.user] = r]
         /\ seen' = [seen EXCEPT ![r] = draft[ch.user][ch.currency].balance]
    /\ pc' = [pc EXCEPT ![r] = "read"]
    /\ UNCHANGED <<todo, next, row, draft>>

(* What balanceAfter the second half of change() computes. *)
BalanceAfter(r) == seen[r] + Current(r).amount

(* A bug: a log entry without its balanceAfter. *)
WrittenWithoutBalance(a, amount, after) ==
    [balance |-> after, entries |-> Append(a.entries, [amount |-> amount])]

Written(a, amount, after) ==
    [balance |-> after,
     entries |-> Append(a.entries, [amount |-> amount, balanceAfter |-> after])]

ChangeWrite(r) ==
    /\ pc[r] = "read"
    /\ BalanceAfter(r) >= 0
    /\ LET ch == Current(r) IN
         draft' = [draft EXCEPT ![ch.user][ch.currency] =
                       Written(@, ch.amount, BalanceAfter(r))]
    /\ next' = [next EXCEPT ![r] = @ + 1]
    /\ todo' = [todo EXCEPT ![r] = Locking(r, next[r])]
    /\ pc' = [pc EXCEPT ![r] = "open"]
    /\ UNCHANGED <<seen, holder, row>>

(* A bug: a transaction that is never ended. *)
ReleaseNothing(r) == UNCHANGED holder

(* The end of a transaction releases every lock it holds. *)
Release(r) == holder' = [u \in Users |-> IF holder[u] = r THEN NoRequest ELSE holder[u]]

(* A bug: the writes of a failed request survive (change() called outside  *)
(* its caller's transaction).                                              *)
UndoKeepsWrites(r) ==
    /\ pc' = [pc EXCEPT ![r] = "rolledBack"]
    /\ row' = [u \in Users |-> IF holder[u] = r THEN draft[u] ELSE row[u]]
    /\ Release(r)
    /\ UNCHANGED <<todo, next, seen, draft>>

Undo(r) ==
    /\ pc' = [pc EXCEPT ![r] = "rolledBack"]
    /\ draft' = [u \in Users |-> IF holder[u] = r THEN row[u] ELSE draft[u]]
    /\ Release(r)
    /\ UNCHANGED <<todo, next, seen, row>>

(* change() throws NOT_ENOUGH and the caller's transaction rolls back. *)
NotEnough(r) == pc[r] = "read" /\ BalanceAfter(r) < 0 /\ Undo(r)

(* Anything else the caller does in the same transaction may throw, and    *)
(* the process or its connection may die: the database undoes it all.      *)
CallerFails(r) == pc[r] \in {"open", "read"} /\ Undo(r)

Commit(r) ==
    /\ pc[r] = "open"
    /\ todo[r] = {}
    /\ ~HasChange(r)
    /\ pc' = [pc EXCEPT ![r] = "committed"]
    /\ row' = [u \in Users |-> IF holder[u] = r THEN draft[u] ELSE row[u]]
    /\ Release(r)
    /\ UNCHANGED <<todo, next, seen, draft>>

(* The wallet whose lock r asks for next, and who makes r wait for it. *)
Wanted(r) ==
    IF todo[r] # {} THEN {u \in Users : IsNextToLock(r, u)}
    ELSE IF HasChange(r) THEN {Current(r).user} ELSE {}

Blocks(s, r) ==
    /\ pc[r] = "open"
    /\ s # r
    /\ \E u \in Wanted(r) : holder[u] = s

Circles ==
    {D \in SUBSET Requests : D # {} /\ \A r \in D :
        (\E s \in D : Blocks(s, r)) /\ (\E s \in D : Blocks(r, s))}

(* The database ends a circle of waiting requests by rolling one back. *)
DeadlockVictim(r) == r \in UNION Circles /\ Undo(r)

Step(r) ==
    \/ Begin(r)
    \/ \E u \in Users : LockWallet(r, u)
    \/ ChangeRead(r)
    \/ ChangeWrite(r)
    \/ NotEnough(r)
    \/ Commit(r)
    \/ DeadlockVictim(r)

Next == \E r \in Requests : Step(r) \/ CallerFails(r)

(* The runtime runs every request on, and the database grants a free lock. *)
Fairness == \A r \in Requests : WF_vars(Step(r))

Spec == Init /\ [][Next]_vars

FairSpec == Spec /\ Fairness

---------------------------------------------------------------------------

(* The entries of an account tell its whole story: each one's balanceAfter *)
(* is the previous balanceAfter plus its amount, and the last is the       *)
(* balance.                                                                *)
Chained(a) ==
    /\ Len(a.entries) > 0
    /\ a.entries[1].balanceAfter = a.entries[1].amount
    /\ \A i \in 2..Len(a.entries) :
          a.entries[i].balanceAfter = a.entries[i - 1].balanceAfter + a.entries[i].amount
    /\ a.balance = a.entries[Len(a.entries)].balanceAfter

(* A committed wallet is always explained by its transaction log, whatever *)
(* requests ran at once and whichever of them failed half way: change()    *)
(* (wallet.service.ts:70-106) never loses or repeats an update.            *)
LedgerExplainsBalance ==
    \A u \in Users, c \in Currencies : Chained(row[u][c])

(* No account is ever committed below zero, nor passes below zero in its   *)
(* log: concurrent requests cannot spend the same coins twice.             *)
NoOverdraft ==
    \A u \in Users, c \in Currencies :
        /\ row[u][c].balance >= 0
        /\ \A i \in 1..Len(row[u][c].entries) : row[u][c].entries[i].balanceAfter >= 0

(* r holds a wallet it paid before lockWallets and waits for a lower one.  *)
LocksBackwards(r) ==
    \E u \in PaidEarly(r), v \in Wanted(r) : holder[u] = r /\ v < u

(* Requests wait for each other in a circle only when one of them has paid *)
(* its caller before lockWallets, and now waits for a lower user id: all   *)
(* the others take the rows in user-id order (wallet.service.ts:49-51;     *)
(* the circle is the one of world-boss.service.ts:149 and :276).           *)
NoCircularWait ==
    \A D \in (SUBSET Requests) \ {{}} :
        (\A r \in D : \E s \in D : Blocks(s, r)) => \E r \in D : LocksBackwards(r)

(* Every request that has begun is answered: it commits or rolls back.     *)
EveryRequestEnds == \A r \in Requests : pc[r] # "idle" ~> pc[r] \in Ended

---------------------------------------------------------------------------

Atomic ==
    INSTANCE Bank WITH
        balance <- [u \in Users |-> [c \in Currencies |-> row[u][c].balance]],
        outcome <- [r \in Requests |->
                      CASE pc[r] = "committed" -> "paid"
                        [] pc[r] = "rolledBack" -> "refused"
                        [] OTHER -> "pending"]

(* The wallets behave as if every request ran alone and at once: Wallet    *)
(* implements Bank.                                                        *)
ImplementsBank == Atomic!Spec
=============================================================================
