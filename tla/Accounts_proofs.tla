--------------------------- MODULE Accounts_proofs ---------------------------
(* Proofs about Accounts, for every set of keys, codes and requests, every  *)
(* lifetime and every clock: the key-value table is a LiveStore, and the    *)
(* fake of the tests answers as the table does; a backup code is redeemed   *)
(* once, and a session that was answered works; a poll's results count      *)
(* every ballot; and the wallets, where they are one part of what keeps     *)
(* accounts, run as if every request ran alone.                             *)
EXTENDS Accounts, FiniteSetTheorems, NatFacts, SequenceTheorems, TLAPS

---------------------------------------------------------------------------
(*                               The wallets                                *)
Sound(a) ==
    /\ Chained(a)
    /\ a.balance >= 0
    /\ \A i \in 1..Len(a.entries) : a.entries[i].balanceAfter >= 0

AccountsSound ==
    \A u \in Users, c \in Currencies : Sound(row[u][c]) /\ Sound(draft[u][c])

(* Nobody has written a wallet that nobody has locked. *)
UnlockedUnwritten == \A u \in Users : holder[u] = NoRequest => draft[u] = row[u]

(* Between its two halves change() holds the row and its read is fresh. *)
ReadIsFresh ==
    \A r \in Requests : pc[r] = "read" =>
        /\ HasChange(r)
        /\ holder[Current(r).user] = r
        /\ seen[r] = draft[Current(r).user][Current(r).currency].balance

IInv == TypeOK /\ AccountsSound /\ UnlockedUnwritten /\ ReadIsFresh

---------------------------------------------------------------------------

(* A change the request has still to make is one of its plan's. *)
LEMMA CurrentIsChange ==
    ASSUME NEW r \in Requests, next[r] \in Nat \ {0}, HasChange(r)
    PROVE  /\ Current(r).user \in Users
           /\ Current(r).currency \in Currencies
           /\ Current(r).amount \in Int
  <1>1. Plan[r].changes \in Seq(Change)
    BY PlanAssumption
  <1>2. Current(r) \in Change
    BY <1>1 DEF HasChange, Current
  <1> QED BY <1>2 DEF Change

(* Writing the sum of the balance and the amount keeps an account sound    *)
(* (change(), wallet.service.ts:90-104).                                   *)
LEMMA WrittenIsSound ==
    ASSUME NEW a \in Account, NEW amount \in Int, NEW after \in Int,
           Sound(a), after = a.balance + amount, after >= 0
    PROVE  Written(a, amount, after) \in Account /\ Sound(Written(a, amount, after))
  <1> DEFINE e == [amount |-> amount, balanceAfter |-> after]
             es == Append(a.entries, e)
             w == Written(a, amount, after)
  <1>1. e \in Entry /\ a.entries \in Seq(Entry) /\ a.balance \in Int
    BY DEF Entry, Account
  <1>2. /\ es \in Seq(Entry)
        /\ Len(es) = Len(a.entries) + 1
        /\ es[Len(es)] = e
        /\ \A i \in 1..Len(a.entries) : es[i] = a.entries[i]
    BY <1>1
  <1>3. w = [balance |-> after, entries |-> es]
    BY DEF Written
  <1>4. w \in Account
    BY <1>2, <1>3 DEF Account
  <1>5. Len(a.entries) \in Nat /\ Len(a.entries) > 0
    BY <1>1 DEF Sound, Chained
  <1>6. Chained(w)
    <2>1. \A i \in 2..Len(es) :
             es[i].balanceAfter = es[i - 1].balanceAfter + es[i].amount
      <3> SUFFICES ASSUME NEW i \in 2..Len(es)
                   PROVE  es[i].balanceAfter = es[i - 1].balanceAfter + es[i].amount
        OBVIOUS
      <3>1. CASE i = Len(es)
        <4>1. es[i - 1] = a.entries[Len(a.entries)]
          BY <1>2, <1>5, <3>1
        <4> QED BY <1>2, <3>1, <4>1 DEF Sound, Chained
      <3>2. CASE i # Len(es)
        <4>1. i \in 2..Len(a.entries) /\ i - 1 \in 1..Len(a.entries) /\ i \in 1..Len(a.entries)
          BY <1>2, <1>5, <3>2
        <4> QED BY <1>2, <4>1 DEF Sound, Chained
      <3> QED BY <3>1, <3>2
    <2>2. es[1].balanceAfter = es[1].amount
      BY <1>2, <1>5 DEF Sound, Chained
    <2>3. w.entries = es /\ w.balance = after /\ es[Len(es)].balanceAfter = after
      BY <1>2, <1>3
    <2>4. Len(es) > 0 BY <1>2, <1>5
    <2> HIDE DEF w, es
    <2> QED BY <2>1, <2>2, <2>3, <2>4 DEF Chained
  <1>7. \A i \in 1..Len(es) : es[i].balanceAfter >= 0
    <2> SUFFICES ASSUME NEW i \in 1..Len(es) PROVE es[i].balanceAfter >= 0
      OBVIOUS
    <2>1. CASE i = Len(es) BY <1>2, <2>1
    <2>2. CASE i # Len(es)
      <3>1. i \in 1..Len(a.entries) BY <1>2, <1>5, <2>2
      <3> QED BY <1>2, <3>1 DEF Sound
    <2> QED BY <2>1, <2>2
  <1> QED BY <1>3, <1>4, <1>6, <1>7 DEF Sound

LEMMA OpeningIsSound ==
    ASSUME NEW n \in Nat
    PROVE  OpeningAccount(n) \in Account /\ Sound(OpeningAccount(n))
  <1> DEFINE e == [amount |-> n, balanceAfter |-> n]
  <1>1. e \in Entry BY DEF Entry
  <1>2. <<e>> \in Seq(Entry) /\ Len(<<e>>) = 1 /\ <<e>>[1] = e BY <1>1
  <1> QED BY <1>2 DEF OpeningAccount, Account, Sound, Chained

---------------------------------------------------------------------------

LEMMA InitInv == Init => IInv
  <1> SUFFICES ASSUME Init PROVE IInv
    OBVIOUS
  <1>1. \A u \in Users, c \in Currencies : Opening[u][c] \in Nat
    BY OpeningAssumption
  <1>2. row \in [Users -> [Currencies -> Account]] /\ draft = row
    BY <1>1, OpeningIsSound DEF Init
  <1>3. AccountsSound
    BY <1>1, OpeningIsSound DEF Init, AccountsSound
  <1>4. TypeOK
    BY <1>2 DEF Init, TypeOK
  <1> QED BY <1>2, <1>3, <1>4 DEF Init, IInv, UnlockedUnwritten, ReadIsFresh

(* A rolled back request leaves no trace: the rows it held are unlocked    *)
(* and read again as they were committed.                                  *)
LEMMA UndoInv ==
    ASSUME IInv, NEW r \in Requests, pc[r] \in {"open", "read"}, Undo(r)
    PROVE  IInv'
  <1>1. TypeOK'
    BY DEF IInv, TypeOK, Undo, Release, Ended
  <1>2. AccountsSound'
    BY DEF IInv, TypeOK, Undo, AccountsSound
  <1>3. UnlockedUnwritten'
    BY NoRequestAssumption DEF IInv, TypeOK, Undo, Release, UnlockedUnwritten
  <1>4. ReadIsFresh'
    <2>1. next' = next /\ seen' = seen
      BY DEF Undo
    <2>2. \A q : HasChange(q)' = HasChange(q) /\ Current(q)' = Current(q)
      BY <2>1 DEF HasChange, Current
    <2> SUFFICES ASSUME NEW q \in Requests, pc'[q] = "read"
                 PROVE  /\ HasChange(q)
                        /\ holder'[Current(q).user] = q
                        /\ seen[q] = draft'[Current(q).user][Current(q).currency].balance
      BY <2>1, <2>2 DEF ReadIsFresh
    <2>3. q # r /\ pc[q] = "read"
      BY DEF IInv, TypeOK, Undo
    <2>4. Current(q).user \in Users
      BY <2>3, CurrentIsChange DEF IInv, TypeOK, ReadIsFresh
    <2> QED BY <2>3, <2>4 DEF IInv, TypeOK, ReadIsFresh, Undo, Release
  <1> QED BY <1>1, <1>2, <1>3, <1>4 DEF IInv

LEMMA LockingType ==
    ASSUME NEW r \in Requests, NEW n
    PROVE  Locking(r, n) \in SUBSET Users
  BY PlanAssumption DEF Locking

(* The victim of a circle is a request that waits, and fails. *)
LEMMA VictimFails ==
    ASSUME NEW r \in Requests, DeadlockVictim(r)
    PROVE  CallerFails(r)
  <1>1. PICK D \in Circles : r \in D
    BY DEF DeadlockVictim
  <1>2. PICK s \in D : Blocks(s, r)
    BY <1>1 DEF Circles
  <1> QED BY <1>2 DEF Blocks, CallerFails, DeadlockVictim

LEMMA StepInv == IInv /\ [Next]_vars => IInv'
  <1> SUFFICES ASSUME IInv, [Next]_vars PROVE IInv'
    OBVIOUS
  <1>1. ASSUME NEW r \in Requests, Begin(r) PROVE IInv'
    <2>1. Locking(r, 0) \in SUBSET Users BY LockingType
    <2>2. TypeOK' BY <1>1, <2>1 DEF IInv, TypeOK, Begin
    <2>3. ReadIsFresh'
      BY <1>1 DEF IInv, TypeOK, Begin, ReadIsFresh, HasChange, Current
    <2> QED BY <1>1, <2>2, <2>3 DEF IInv, Begin, AccountsSound, UnlockedUnwritten
  <1>2. ASSUME NEW r \in Requests, NEW u \in Users, LockWallet(r, u) PROVE IInv'
    <2>1. TypeOK' BY <1>2 DEF IInv, TypeOK, LockWallet
    <2>2. UnlockedUnwritten'
      BY <1>2, NoRequestAssumption DEF IInv, TypeOK, LockWallet, UnlockedUnwritten
    <2>3. ReadIsFresh'
      <3> SUFFICES ASSUME NEW q \in Requests, pc[q] = "read"
                   PROVE  /\ HasChange(q)
                          /\ holder'[Current(q).user] = q
                          /\ seen[q] = draft[Current(q).user][Current(q).currency].balance
        BY <1>2 DEF ReadIsFresh, HasChange, Current, LockWallet
      <3>1. q # r BY <1>2 DEF LockWallet
      <3>2. holder[Current(q).user] = q BY DEF IInv, ReadIsFresh
      <3>3. Current(q).user # u
        BY <1>2, <3>1, <3>2, NoRequestAssumption DEF LockWallet, Free
      <3> QED BY <1>2, <3>2, <3>3 DEF IInv, TypeOK, ReadIsFresh, LockWallet
    <2> QED BY <1>2, <2>1, <2>2, <2>3 DEF IInv, LockWallet, AccountsSound
  <1>3. ASSUME NEW r \in Requests, ChangeRead(r) PROVE IInv'
    <2> DEFINE u == Current(r).user
               c == Current(r).currency
    <2>1. u \in Users /\ c \in Currencies
      BY <1>3, CurrentIsChange DEF IInv, TypeOK, ChangeRead
    <2>2. draft[u][c] \in Account BY <2>1 DEF IInv, TypeOK
    <2>3. TypeOK'
      BY <1>3, <2>1, <2>2 DEF IInv, TypeOK, ChangeRead, Account
    <2>4. UnlockedUnwritten'
      BY <1>3, NoRequestAssumption DEF IInv, TypeOK, ChangeRead, UnlockedUnwritten
    <2>5. ReadIsFresh'
      <3> SUFFICES ASSUME NEW q \in Requests, pc'[q] = "read"
                   PROVE  /\ HasChange(q)
                          /\ holder'[Current(q).user] = q
                          /\ seen'[q] = draft[Current(q).user][Current(q).currency].balance
        BY <1>3 DEF ReadIsFresh, HasChange, Current, ChangeRead
      <3>1. CASE q = r
        BY <1>3, <2>1, <3>1 DEF IInv, TypeOK, ChangeRead
      <3>2. CASE q # r
        <4>1. pc[q] = "read" BY <1>3, <3>2 DEF IInv, TypeOK, ChangeRead
        <4>2. holder[Current(q).user] = q BY <4>1 DEF IInv, ReadIsFresh
        <4>3. Current(q).user # u
          BY <1>3, <3>2, <4>2, NoRequestAssumption DEF ChangeRead, Free
        <4> QED BY <1>3, <3>2, <4>1, <4>2, <4>3 DEF IInv, TypeOK, ReadIsFresh, ChangeRead
      <3> QED BY <3>1, <3>2
    <2> QED BY <1>3, <2>3, <2>4, <2>5 DEF IInv, ChangeRead, AccountsSound
  <1>4. ASSUME NEW r \in Requests, ChangeWrite(r) PROVE IInv'
    <2> DEFINE u == Current(r).user
               c == Current(r).currency
               a == draft[u][c]
               w == Written(a, Current(r).amount, BalanceAfter(r))
    <2>1. /\ u \in Users /\ c \in Currencies /\ Current(r).amount \in Int
          /\ holder[u] = r /\ seen[r] = a.balance
      BY <1>4, CurrentIsChange DEF IInv, TypeOK, ChangeWrite, ReadIsFresh
    <2>2. a \in Account /\ Sound(a)
      BY <2>1 DEF IInv, TypeOK, AccountsSound
    <2>3. BalanceAfter(r) \in Int /\ BalanceAfter(r) = a.balance + Current(r).amount
      BY <2>1, <2>2 DEF BalanceAfter, Account
    <2>4. w \in Account /\ Sound(w)
      <3> HIDE DEF a
      <3>1. BalanceAfter(r) >= 0 BY <1>4 DEF ChangeWrite
      <3> QED BY <2>1, <2>2, <2>3, <3>1, WrittenIsSound
    <2>5. draft' = [draft EXCEPT ![u][c] = w]
      BY <1>4 DEF ChangeWrite
    <2>6. \A v \in Users, d \in Currencies :
             draft'[v][d] = IF v = u /\ d = c THEN w ELSE draft[v][d]
      <3> HIDE DEF w, u, c
      <3> QED BY <2>1, <2>5 DEF IInv, TypeOK
    <2>7. draft' \in [Users -> [Currencies -> Account]]
      <3> HIDE DEF w, u, c
      <3> QED BY <2>1, <2>4, <2>5 DEF IInv, TypeOK
    <2>8. TypeOK'
      BY <1>4, <2>7, LockingType DEF IInv, TypeOK, ChangeWrite
    <2>9. AccountsSound'
      <3> HIDE DEF w
      <3> QED BY <1>4, <2>4, <2>6 DEF IInv, AccountsSound, ChangeWrite
    <2>10. \A v \in Users : v # u => draft'[v] = draft[v]
      <3> HIDE DEF w, u, c
      <3> QED BY <2>1, <2>5 DEF IInv, TypeOK
    <2>11. UnlockedUnwritten'
      <3> SUFFICES ASSUME NEW v \in Users, holder[v] = NoRequest
                   PROVE  draft'[v] = row[v]
        BY <1>4 DEF UnlockedUnwritten, ChangeWrite
      <3>1. v # u BY <2>1, NoRequestAssumption
      <3> QED BY <2>10, <3>1 DEF IInv, UnlockedUnwritten
    <2>12. ReadIsFresh'
      <3> SUFFICES ASSUME NEW q \in Requests, pc'[q] = "read"
                   PROVE  /\ HasChange(q)'
                          /\ holder[Current(q)'.user] = q
                          /\ seen[q] = draft'[Current(q)'.user][Current(q)'.currency].balance
        BY <1>4 DEF ReadIsFresh, ChangeWrite, Current
      <3>1. q # r /\ pc[q] = "read" BY <1>4 DEF IInv, TypeOK, ChangeWrite
      <3>2. HasChange(q)' = HasChange(q) /\ Current(q)' = Current(q)
        BY <1>4, <3>1 DEF IInv, TypeOK, ChangeWrite, HasChange, Current
      <3>3. /\ HasChange(q) /\ holder[Current(q).user] = q
            /\ seen[q] = draft[Current(q).user][Current(q).currency].balance
        BY <3>1 DEF IInv, ReadIsFresh
      <3>4. Current(q).user \in Users
        BY <3>3, CurrentIsChange DEF IInv, TypeOK
      <3>5. Current(q).user # u
        BY <2>1, <3>1, <3>3
      <3> QED BY <2>10, <3>2, <3>3, <3>4, <3>5
    <2> QED BY <2>8, <2>9, <2>11, <2>12 DEF IInv
  <1>5. ASSUME NEW r \in Requests, Commit(r) PROVE IInv'
    <2>1. TypeOK' BY <1>5 DEF IInv, TypeOK, Commit, Release, Ended
    <2>2. AccountsSound' BY <1>5 DEF IInv, TypeOK, AccountsSound, Commit
    <2>3. UnlockedUnwritten'
      BY <1>5, NoRequestAssumption
         DEF IInv, TypeOK, UnlockedUnwritten, Commit, Release
    <2>4. ReadIsFresh'
      <3> SUFFICES ASSUME NEW q \in Requests, pc'[q] = "read"
                   PROVE  /\ HasChange(q)
                          /\ holder'[Current(q).user] = q
                          /\ seen[q] = draft[Current(q).user][Current(q).currency].balance
        BY <1>5 DEF ReadIsFresh, HasChange, Current, Commit
      <3>1. q # r /\ pc[q] = "read" BY <1>5 DEF IInv, TypeOK, Commit
      <3>2. Current(q).user \in Users
        BY <3>1, CurrentIsChange DEF IInv, TypeOK, ReadIsFresh
      <3> QED BY <1>5, <3>1, <3>2 DEF IInv, TypeOK, ReadIsFresh, Commit, Release
    <2> QED BY <2>1, <2>2, <2>3, <2>4 DEF IInv
  <1>6. ASSUME NEW r \in Requests, NotEnough(r) \/ CallerFails(r) \/ DeadlockVictim(r)
        PROVE  IInv'
    BY <1>6, UndoInv, VictimFails DEF NotEnough, CallerFails
  <1>7. CASE UNCHANGED vars
    BY <1>7 DEF vars, IInv, TypeOK, AccountsSound, UnlockedUnwritten, ReadIsFresh,
                HasChange, Current
  <1> QED BY <1>1, <1>2, <1>3, <1>4, <1>5, <1>6, <1>7 DEF Next, Step

LEMMA Inductive == Spec => []IInv
  BY InitInv, StepInv, PTL DEF Spec

(* The wallets keep their type. *)
THEOREM WalletTypeOK == Spec => []TypeOK
  BY Inductive, PTL DEF IInv

(* Every committed wallet is explained by its transaction log.             *)
THEOREM WalletLedger == Spec => []LedgerExplainsBalance
  <1>1. IInv => LedgerExplainsBalance
    BY DEF IInv, AccountsSound, Sound, LedgerExplainsBalance
  <1> QED BY <1>1, Inductive, PTL

(* No wallet is ever overdrawn. *)
THEOREM WalletNoOverdraft == Spec => []NoOverdraft
  <1>1. IInv => NoOverdraft
    BY DEF IInv, AccountsSound, Sound, NoOverdraft
  <1> QED BY <1>1, Inductive, PTL

---------------------------------------------------------------------------
(* No circular wait, unless somebody locks backwards: along a circle every *)
(* holder waits for a higher user id than the one it is waited for, and    *)
(* there is no highest one.                                                *)

HoldersAreOpen ==
    \A u \in Users : holder[u] # NoRequest => pc[holder[u]] \in {"open", "read"}

(* What a request holds while lockWallets is still walking is below what   *)
(* it has still to lock, but for a wallet that was paid before.            *)
LocksAscend ==
    \A r \in Requests : \A u \in Users :
        holder[u] = r => \A v \in todo[r] : u \in PaidEarly(r) \/ u < v

(* Before lockWallets a request holds only what it has paid early, and is  *)
(* not locking; no change is made while lockWallets is walking.            *)
LocksInTurn ==
    \A r \in Requests :
        /\ pc[r] = "idle" => next[r] = 1
        /\ pc[r] = "read" => todo[r] = {}
        /\ next[r] <= Plan[r].before =>
              todo[r] = {} /\ \A u \in Users : holder[u] = r => u \in PaidEarly(r)

(* A request never locks a row outside its plan, and after lockWallets it  *)
(* holds all it asked for.                                                 *)
HoldsItsPlan ==
    \A r \in Requests :
        /\ todo[r] \subseteq Plan[r].locks
        /\ pc[r] \in {"open", "read"} /\ next[r] > Plan[r].before =>
              \A u \in Plan[r].locks \ todo[r] : holder[u] = r
        /\ \A u \in Users : holder[u] = r => u \in Plan[r].locks \cup UsersOf(r)

LockInv == HoldersAreOpen /\ LocksAscend /\ LocksInTurn /\ HoldsItsPlan

LEMMA FiniteHasMax ==
    ASSUME NEW W, W \subseteq Users, W # {}
    PROVE  \E u \in W : \A v \in W : ~(u < v)
  <1> DEFINE Above(u) == {v \in Users : u < v}
             rank(u) == Cardinality(Above(u))
             T == {rank(u) : u \in W}
  <1>1. \A u \in Users : IsFiniteSet(Above(u)) /\ rank(u) \in Nat
    <2> SUFFICES ASSUME NEW u \in Users PROVE IsFiniteSet(Above(u)) /\ rank(u) \in Nat
      OBVIOUS
    <2>1. Above(u) \subseteq Users OBVIOUS
    <2>2. IsFiniteSet(Above(u)) BY <2>1, FS_Subset, UsersAssumption
    <2> QED BY <2>2, FS_CardinalityType
  <1>2. \A u, v \in Users : u < v => rank(v) < rank(u)
    <2> SUFFICES ASSUME NEW u \in Users, NEW v \in Users, u < v PROVE rank(v) < rank(u)
      OBVIOUS
    <2>1. Above(v) \subseteq Above(u) /\ v \in Above(u) /\ v \notin Above(v)
      <3>1. u \in Nat /\ v \in Nat /\ \A w \in Users : w \in Nat BY UsersAssumption
      <3>2. v \in Above(u) OBVIOUS
      <3>3. ~(v < v) BY <3>1
      <3>4. v \notin Above(v) BY <3>3
      <3>5. ASSUME NEW w \in Above(v) PROVE w \in Above(u)
        <4>1. w \in Users /\ v < w OBVIOUS
        <4>2. u < w BY <3>1, <4>1
        <4> QED BY <4>1, <4>2
      <3>6. Above(v) \subseteq Above(u) BY <3>5
      <3> HIDE DEF Above
      <3> QED BY <3>2, <3>4, <3>6
    <2>2. rank(v) <= rank(u) /\ (rank(v) = rank(u) => Above(v) = Above(u))
      BY <1>1, <2>1, FS_Subset
    <2>3. rank(v) # rank(u) BY <2>1, <2>2
    <2> QED BY <1>1, <2>2, <2>3
  <1>3. T \subseteq Nat /\ T # {}
    BY <1>1
  <1>4. PICK x \in T : \A y \in T : x <= y
    BY <1>3, NatHasLeast
  <1>5. PICK u \in W : x = rank(u)
    OBVIOUS
  <1>6. \A v \in W : ~(u < v)
    <2> SUFFICES ASSUME NEW v \in W, u < v PROVE FALSE
      OBVIOUS
    <2>1. rank(v) < x BY <1>2, <1>5
    <2>2. rank(v) \in T /\ rank(v) \in Nat /\ x \in Nat BY <1>1, <1>3
    <2> QED BY <1>4, <2>1, <2>2
  <1> QED BY <1>6

LEMMA LockInvInit == Init => LockInv
  <1> SUFFICES ASSUME Init PROVE LockInv
    OBVIOUS
  <1>1. \A r \in Requests : pc[r] = "idle" /\ todo[r] = {} /\ next[r] = 1
    BY DEF Init
  <1>2. \A u \in Users : holder[u] = NoRequest
    BY DEF Init
  <1> QED BY <1>1, <1>2, NoRequestAssumption
          DEF LockInv, HoldersAreOpen, LocksAscend, LocksInTurn, HoldsItsPlan

(* When the transaction of r ends, the other requests' locks stay.         *)
LEMMA ReleaseLockInv ==
    ASSUME IInv, LockInv, NEW r \in Requests, Release(r), UNCHANGED <<todo, next>>,
           NEW e \in Ended, pc' = [pc EXCEPT ![r] = e]
    PROVE  LockInv'
  <1>1. \A u \in Users : holder'[u] = IF holder[u] = r THEN NoRequest ELSE holder[u]
    BY DEF Release
  <1>2. \A q \in Requests : pc'[q] = IF q = r THEN e ELSE pc[q]
    BY DEF IInv, TypeOK
  <1>3. HoldersAreOpen'
    BY <1>1, <1>2 DEF LockInv, HoldersAreOpen, IInv, TypeOK
  <1>4. LocksAscend'
    BY <1>1, NoRequestAssumption DEF LockInv, LocksAscend, PaidEarly
  <1>5. HoldsItsPlan'
    <2>1. \A q \in Requests, u \in Users :
             /\ holder'[u] = q => holder[u] = q
             /\ q # r /\ holder[u] = q => holder'[u] = q
      BY <1>1, NoRequestAssumption
    <2>2. e \notin {"open", "read"} BY DEF Ended
    <2>3. \A q \in Requests : Plan[q].locks \in SUBSET Users BY PlanAssumption
    <2> SUFFICES ASSUME NEW q \in Requests
                 PROVE  /\ todo[q] \subseteq Plan[q].locks
                        /\ pc'[q] \in {"open", "read"} /\ next[q] > Plan[q].before =>
                              \A u \in Plan[q].locks \ todo[q] : holder'[u] = q
                        /\ \A u \in Users : holder'[u] = q =>
                              u \in Plan[q].locks \cup UsersOf(q)
      BY DEF HoldsItsPlan
    <2> QED BY <1>2, <2>1, <2>2, <2>3 DEF LockInv, HoldsItsPlan
  <1>6. LocksInTurn'
    BY <1>1, <1>2, NoRequestAssumption DEF LockInv, LocksInTurn, Ended, PaidEarly
  <1> QED BY <1>3, <1>4, <1>5, <1>6 DEF LockInv

LEMMA LockInvStep == IInv /\ LockInv /\ [Next]_vars => LockInv'
  <1> SUFFICES ASSUME IInv, LockInv, [Next]_vars PROVE LockInv'
    OBVIOUS
  <1> USE DEF LockInv
  <1>0. /\ \A q \in Requests : Plan[q].locks \in SUBSET Users /\ Plan[q].before \in Nat
        /\ \A q \in Requests : pc[q] = "idle" => \A u \in Users : holder[u] # q
    BY PlanAssumption, NoRequestAssumption DEF HoldersAreOpen
  <1>1. ASSUME NEW r \in Requests, Begin(r) PROVE LockInv'
    <2>0. /\ \A q \in Requests : todo'[q] = IF q = r THEN Locking(r, 0) ELSE todo[q]
          /\ \A q \in Requests : pc'[q] = IF q = r THEN "open" ELSE pc[q]
          /\ next' = next /\ holder' = holder /\ next[r] = 1
          /\ \A u \in Users : holder[u] # r
      BY <1>0, <1>1 DEF Begin, LocksInTurn, IInv, TypeOK
    <2>1. HoldersAreOpen'
      BY <2>0 DEF HoldersAreOpen, IInv, TypeOK
    <2>2. LocksAscend'
      BY <2>0 DEF LocksAscend, PaidEarly
    <2>3. HoldsItsPlan'
      BY <1>0, <2>0 DEF HoldsItsPlan, Locking
    <2>4. LocksInTurn'
      BY <1>0, <2>0 DEF LocksInTurn, PaidEarly, Locking
    <2> QED BY <2>1, <2>2, <2>3, <2>4
  <1>2. ASSUME NEW r \in Requests, NEW u \in Users, LockWallet(r, u) PROVE LockInv'
    <2>1. /\ \A v \in Users : holder'[v] = IF v = u THEN r ELSE holder[v]
          /\ \A q \in Requests : todo'[q] = IF q = r THEN todo[r] \ {u} ELSE todo[q]
          /\ pc' = pc /\ next' = next /\ pc[r] = "open" /\ holder[u] \in {NoRequest, r}
      BY <1>2 DEF LockWallet, Free, IInv, TypeOK
    <2>2. u \in todo[r] /\ \A v \in todo[r] : u <= v
      BY <1>2 DEF LockWallet, IsNextToLock
    <2>3. \A q \in Requests : todo[q] \subseteq Users
      BY DEF IInv, TypeOK
    <2>4. \A v \in Users : v \in Nat
      BY UsersAssumption
    <2>5. HoldersAreOpen'
      BY <2>1 DEF HoldersAreOpen
    <2>6. LocksAscend'
      <3> SUFFICES ASSUME NEW q \in Requests, NEW v \in Users, holder'[v] = q,
                          NEW w \in todo'[q]
                   PROVE  v \in PaidEarly(q) \/ v < w
        BY DEF LocksAscend, PaidEarly
      <3>1. CASE v = u
        <4>1. q = r /\ w \in todo[r] /\ w # u BY <2>1, <3>1
        <4> QED BY <2>2, <2>3, <2>4, <3>1, <4>1
      <3>2. CASE v # u
        <4>1. holder[v] = q /\ w \in todo[q] BY <2>1, <3>2
        <4> QED BY <4>1 DEF LocksAscend
      <3> QED BY <3>1, <3>2
    <2>7. HoldsItsPlan'
      <3> SUFFICES ASSUME NEW q \in Requests
                   PROVE  /\ todo'[q] \subseteq Plan[q].locks
                          /\ pc[q] \in {"open", "read"} /\ next[q] > Plan[q].before =>
                                \A v \in Plan[q].locks \ todo'[q] : holder'[v] = q
                          /\ \A v \in Users : holder'[v] = q =>
                                v \in Plan[q].locks \cup UsersOf(q)
        BY <2>1 DEF HoldsItsPlan
      <3>1. CASE q = r
        BY <1>0, <2>1, <2>2, <3>1 DEF HoldsItsPlan
      <3>2. CASE q # r
        BY <1>0, <2>1, <3>2, NoRequestAssumption DEF HoldsItsPlan
      <3> QED BY <3>1, <3>2
    <2>8. LocksInTurn'
      BY <2>1, <2>2, NoRequestAssumption DEF LocksInTurn, PaidEarly
    <2> QED BY <2>5, <2>6, <2>7, <2>8
  <1>3. ASSUME NEW r \in Requests, ChangeRead(r) PROVE LockInv'
    <2> DEFINE u == Current(r).user
    <2>1. /\ u \in Users /\ u \in UsersOf(r)
          /\ next[r] <= Plan[r].before => u \in PaidEarly(r)
      <3>1. next[r] \in 1..Len(Plan[r].changes)
        BY <1>3, PlanAssumption DEF ChangeRead, HasChange, IInv, TypeOK
      <3>2. u \in Users /\ u \in UsersOf(r)
        BY <1>3, <3>1, CurrentIsChange DEF UsersOf, Current, ChangeRead, IInv, TypeOK
      <3>3. next[r] <= Plan[r].before => u \in PaidEarly(r)
        BY <1>0, <3>1 DEF PaidEarly, Current
      <3> QED BY <3>2, <3>3
    <2>2. /\ \A v \in Users : holder'[v] = IF v = u THEN r ELSE holder[v]
          /\ todo' = todo /\ next' = next /\ todo[r] = {} /\ holder[u] \in {NoRequest, r}
          /\ pc[r] = "open"
          /\ \A q \in Requests : pc'[q] = IF q = r THEN "read" ELSE pc[q]
      BY <1>3, <2>1 DEF ChangeRead, Free, IInv, TypeOK
    <2> HIDE DEF u
    <2>3. HoldersAreOpen'
      BY <2>2 DEF HoldersAreOpen, IInv, TypeOK
    <2>4. LocksAscend'
      BY <2>1, <2>2 DEF LocksAscend, PaidEarly
    <2>5. HoldsItsPlan'
      <3> SUFFICES ASSUME NEW q \in Requests
                   PROVE  /\ todo[q] \subseteq Plan[q].locks
                          /\ pc'[q] \in {"open", "read"} /\ next[q] > Plan[q].before =>
                                \A v \in Plan[q].locks \ todo[q] : holder'[v] = q
                          /\ \A v \in Users : holder'[v] = q =>
                                v \in Plan[q].locks \cup UsersOf(q)
        BY <2>2 DEF HoldsItsPlan
      <3>1. CASE q = r
        BY <1>0, <2>1, <2>2, <3>1 DEF HoldsItsPlan
      <3>2. CASE q # r
        BY <1>0, <2>2, <3>2, NoRequestAssumption DEF HoldsItsPlan
      <3> QED BY <3>1, <3>2
    <2>6. LocksInTurn'
      BY <2>1, <2>2, NoRequestAssumption DEF LocksInTurn, PaidEarly
    <2> QED BY <2>3, <2>4, <2>5, <2>6
  <1>4. ASSUME NEW r \in Requests, ChangeWrite(r) PROVE LockInv'
    <2>1. /\ \A q \in Requests : todo'[q] = IF q = r THEN Locking(r, next[r]) ELSE todo[q]
          /\ \A q \in Requests : next'[q] = IF q = r THEN next[r] + 1 ELSE next[q]
          /\ \A q \in Requests : pc'[q] = IF q = r THEN "open" ELSE pc[q]
          /\ holder' = holder /\ pc[r] = "read" /\ todo[r] = {} /\ next[r] \in Nat \ {0}
      BY <1>4 DEF ChangeWrite, LocksInTurn, IInv, TypeOK
    <2>2. \A v \in Locking(r, next[r]) : next[r] <= Plan[r].before
      BY <1>0 DEF Locking
    <2>3. HoldersAreOpen'
      BY <2>1 DEF HoldersAreOpen, IInv, TypeOK
    <2>4. LocksAscend'
      BY <2>1, <2>2 DEF LocksAscend, LocksInTurn, PaidEarly
    <2>5. LocksInTurn'
      BY <1>0, <2>1 DEF LocksInTurn, PaidEarly, Locking
    <2>6. HoldsItsPlan'
      BY <1>0, <2>1 DEF HoldsItsPlan, Locking
    <2> QED BY <2>3, <2>4, <2>5, <2>6
  <1>5. ASSUME NEW r \in Requests, Commit(r) PROVE LockInv'
    BY <1>5, ReleaseLockInv DEF Commit, Ended
  <1>6. ASSUME NEW r \in Requests, NotEnough(r) \/ CallerFails(r) \/ DeadlockVictim(r)
        PROVE  LockInv'
    BY <1>6, ReleaseLockInv, VictimFails DEF NotEnough, CallerFails, Undo, Ended
  <1>7. CASE UNCHANGED vars
    BY <1>7 DEF vars, HoldersAreOpen, LocksAscend, LocksInTurn, HoldsItsPlan, PaidEarly
  <1> QED BY <1>1, <1>2, <1>3, <1>4, <1>5, <1>6, <1>7 DEF Next, Step

(* Whoever blocks a request and is itself blocked waits for a higher user, *)
(* unless it locks backwards.                                              *)
LEMMA WaitsAscend ==
    ASSUME IInv, LockInv, NEW s \in Requests, NEW t \in Requests, Blocks(t, s),
           NEW u \in Users, holder[u] = s, ~LocksBackwards(s)
    PROVE  \E v \in Users : v \in Wanted(s) /\ holder[v] = t /\ u < v
  <1>1. PICK v \in Wanted(s) : holder[v] = t
    BY DEF Blocks
  <1>2. pc[s] = "open" /\ s # t /\ Plan[s].before \in Nat /\ next[s] \in Nat
    BY PlanAssumption DEF Blocks, IInv, TypeOK
  <1>3. CASE todo[s] # {}
    <2>1. v \in todo[s] /\ v \in Users
      BY <1>1, <1>3 DEF Wanted, IsNextToLock
    <2>2. u \in PaidEarly(s) \/ u < v
      BY <2>1 DEF LockInv, LocksAscend
    <2>3. u \in PaidEarly(s) => ~(v < u)
      BY <1>1 DEF LocksBackwards
    <2>4. u # v /\ u \in Nat /\ v \in Nat
      BY <1>1, <1>2, <2>1, UsersAssumption
    <2>5. u < v
      BY <2>2, <2>3, <2>4
    <2> QED BY <1>1, <2>1, <2>5
  <1>4. CASE todo[s] = {}
    <2>1. HasChange(s) /\ v = Current(s).user
      BY <1>1, <1>4 DEF Wanted
    <2>2. /\ v \in UsersOf(s)
          /\ next[s] <= Plan[s].before => v \in PaidEarly(s)
      <3>1. next[s] \in 1..Len(Plan[s].changes)
        BY <2>1, PlanAssumption DEF HasChange, IInv, TypeOK
      <3>2. v \in UsersOf(s)
        BY <2>1, <3>1 DEF UsersOf, Current
      <3>3. next[s] <= Plan[s].before => v \in PaidEarly(s)
        BY <1>2, <2>1, <3>1 DEF PaidEarly, Current
      <3> QED BY <3>2, <3>3
    <2>3. CASE UsersOf(s) \subseteq Plan[s].locks /\ \A x, y \in PaidEarly(s) : x = y
      <3>1. CASE next[s] <= Plan[s].before
        <4>1. u \in PaidEarly(s) BY <3>1 DEF LockInv, LocksInTurn
        <4>2. u = v BY <2>2, <2>3, <3>1, <4>1
        <4> QED BY <1>1, <1>2, <4>2
      <3>2. CASE next[s] > Plan[s].before
        <4>1. holder[v] = s
          BY <1>2, <1>4, <2>2, <2>3, <3>2 DEF LockInv, HoldsItsPlan
        <4> QED BY <1>1, <1>2, <4>1
      <3> QED BY <1>2, <3>1, <3>2
    <2>4. CASE Plan[s].locks = {} /\ \A x, y \in UsersOf(s) : x = y
      <3>1. u \in UsersOf(s)
        BY <2>4 DEF LockInv, HoldsItsPlan
      <3>2. u = v BY <2>2, <2>4, <3>1
      <3> QED BY <1>1, <1>2, <3>2
    <2> QED BY <2>3, <2>4, LocksBothAssumption
  <1> QED BY <1>3, <1>4

(* However many requests there are, they wait for each other in a circle   *)
(* only when one of them has paid its caller before lockWallets            *)
(* (world-boss.service.ts:149) and now locks a lower wallet (:276).        *)
THEOREM WalletNoCircularWait == Spec => []NoCircularWait
  <1>1. IInv /\ LockInv => NoCircularWait
    <2> SUFFICES ASSUME IInv, LockInv,
                        NEW D \in SUBSET Requests, D # {},
                        \A r \in D : \E s \in D : Blocks(s, r),
                        \A r \in D : ~LocksBackwards(r)
                 PROVE  FALSE
      BY DEF NoCircularWait
    <2> DEFINE W == {u \in Users : holder[u] \in D}
    <2>1. W \subseteq Users OBVIOUS
    <2>2. W # {}
      <3>1. PICK r \in D, s \in D : Blocks(s, r) OBVIOUS
      <3>2. PICK u \in Wanted(r) : holder[u] = s BY <3>1 DEF Blocks
      <3>3. u \in Users
        BY <3>2, CurrentIsChange DEF Wanted, IInv, TypeOK
      <3> QED BY <3>2, <3>3
    <2>3. PICK u \in W : \A v \in W : ~(u < v)
      <3> HIDE DEF W
      <3> QED BY <2>1, <2>2, FiniteHasMax
    <2>4. PICK t \in D : Blocks(t, holder[u])
      OBVIOUS
    <2>5. PICK v \in Users : holder[v] = t /\ u < v
      BY <2>4, WaitsAscend
    <2> QED BY <2>3, <2>5
  <1>2. Spec => []LockInv
    BY Inductive, LockInvInit, LockInvStep, PTL DEF Spec
  <1> QED BY <1>1, <1>2, Inductive, PTL

---------------------------------------------------------------------------
(* The wallets are a Bank: a request that is under way has made the first  *)
(* next[r] - 1 of its changes in the wallets it holds, which nobody else    *)
(* has touched, and its commit makes them all at once.                     *)

(* What the first n changes of r amount to for one account. *)
Moved(r, n, u, c) == SumFunction(Atomic!Paid(r, n, u, c))

PayingOK(r) ==
    /\ next[r] <= Len(Plan[r].changes) + 1
    /\ \A i \in 1..next[r] - 1 : holder[Plan[r].changes[i].user] = r
    /\ \A u \in Users : holder[u] = r => \A c \in Currencies :
          /\ draft[u][c].balance = row[u][c].balance + Moved(r, next[r] - 1, u, c)
          /\ \A n \in 0..next[r] - 1 : row[u][c].balance + Moved(r, n, u, c) >= 0

Paying == \A r \in Requests : pc[r] \notin Ended => PayingOK(r)

(* The sum that Bank takes is the sum of NatFacts. *)
LEMMA SameSum ==
    ASSUME NEW f
    PROVE  Atomic!SumFunction(f) = SumFunction(f)
  BY DEF Atomic!SumFunction, Atomic!SumFunctionOnSet, Atomic!FoldFunctionOnSet,
         Atomic!MapThenFoldSet, SumFunction, SumFunctionOnSet, FoldFunctionOnSet, MapThenFoldSet

LEMMA PlanIsChanges ==
    ASSUME NEW r \in Requests
    PROVE  /\ Len(Plan[r].changes) \in Nat
           /\ \A i \in 1..Len(Plan[r].changes) :
                 /\ Plan[r].changes[i].user \in Users
                 /\ Plan[r].changes[i].currency \in Currencies
                 /\ Plan[r].changes[i].amount \in Int
  <1>1. Plan[r].changes \in Seq(Change)
    BY PlanAssumption
  <1>2. \A i \in 1..Len(Plan[r].changes) : Plan[r].changes[i] \in Change
    BY <1>1
  <1> QED BY <1>1, <1>2 DEF Change

LEMMA PaidType ==
    ASSUME NEW r \in Requests, NEW n, NEW u, NEW c
    PROVE  /\ Atomic!Paid(r, n, u, c) \in [1..Len(Plan[r].changes) -> Int]
           /\ IsFiniteSet(1..Len(Plan[r].changes))
           /\ Moved(r, n, u, c) \in Int
  <1>1. Atomic!Paid(r, n, u, c) \in [1..Len(Plan[r].changes) -> Int]
    BY PlanIsChanges DEF Atomic!Paid
  <1>2. IsFiniteSet(1..Len(Plan[r].changes))
    BY PlanIsChanges, FS_Interval
  <1> QED BY <1>1, <1>2, SumIsInt DEF Moved

(* The changes of other accounts do not move this one. *)
LEMMA MovedNothing ==
    ASSUME NEW r \in Requests, NEW n \in Nat, NEW u, NEW c,
           \A i \in 1..Len(Plan[r].changes) : i <= n => Plan[r].changes[i].user # u
    PROVE  Moved(r, n, u, c) = 0
  <1>1. Atomic!Paid(r, n, u, c) = [i \in 1..Len(Plan[r].changes) |-> 0]
    BY DEF Atomic!Paid
  <1>2. IsFiniteSet(1..Len(Plan[r].changes))
    BY PaidType
  <1>3. SumFunction([i \in 1..Len(Plan[r].changes) |-> 0]) = 0
    BY <1>2, SumOfZeros
  <1> QED BY <1>1, <1>3 DEF Moved

(* One more change moves one account by its amount. *)
LEMMA MovedMore ==
    ASSUME NEW r \in Requests, NEW n \in 1..Len(Plan[r].changes), NEW u, NEW c
    PROVE  Moved(r, n, u, c) = Moved(r, n - 1, u, c)
              + IF Plan[r].changes[n].user = u /\ Plan[r].changes[n].currency = c
                THEN Plan[r].changes[n].amount ELSE 0
  <1> DEFINE S == 1..Len(Plan[r].changes)
             f == Atomic!Paid(r, n - 1, u, c)
             g == Atomic!Paid(r, n, u, c)
  <1>1. f \in [S -> Int] /\ g \in [S -> Int] /\ IsFiniteSet(S) /\ n \in S
    BY PaidType
  <1>2. \A i \in S : i # n => g[i] = f[i]
    BY DEF Atomic!Paid
  <1>3. f[n] = 0 /\ g[n] = IF Plan[r].changes[n].user = u /\ Plan[r].changes[n].currency = c
                           THEN Plan[r].changes[n].amount ELSE 0
    BY DEF Atomic!Paid
  <1>4. SumFunction(f) = Moved(r, n - 1, u, c) /\ SumFunction(g) = Moved(r, n, u, c)
    BY DEF Moved
  <1>5. Moved(r, n - 1, u, c) \in Int
    BY PaidType
  <1> HIDE DEF S, f, g
  <1>6. SumFunction(g) = SumFunction(f) + g[n] - f[n]
    BY <1>1, <1>2, SumChanges
  <1>7. g[n] \in Int
    BY <1>1
  <1> QED BY <1>3, <1>4, <1>5, <1>6, <1>7

(* A wallet that r does not hold is none that it has changed. *)
LEMMA NotHeldNotMoved ==
    ASSUME TypeOK, NEW r \in Requests, PayingOK(r), NEW u \in Users, holder[u] # r,
           NEW n \in 0..next[r] - 1, NEW c
    PROVE  Moved(r, n, u, c) = 0
  <1>1. next[r] \in Nat /\ n \in Nat
    BY DEF TypeOK
  <1>2. \A i \in 1..Len(Plan[r].changes) : i <= n => Plan[r].changes[i].user # u
    BY <1>1 DEF PayingOK
  <1> QED BY <1>1, <1>2, MovedNothing

(* What the others do leaves a request's wallets alone. *)
LEMMA OthersPay ==
    ASSUME TypeOK, NEW q \in Requests, PayingOK(q), next'[q] = next[q],
           \A u \in Users : holder'[u] = q <=> holder[u] = q,
           \A u \in Users : holder[u] = q => draft'[u] = draft[u] /\ row'[u] = row[u]
    PROVE  PayingOK(q)'
  <1>1. \A i \in 1..next[q] - 1 : Plan[q].changes[i].user \in Users
    BY PlanIsChanges DEF PayingOK, TypeOK
  <1> QED BY <1>1 DEF PayingOK, Moved, Atomic!Paid

(* The balances of the mapping. *)
Balances == [u \in Users |-> [c \in Currencies |-> row[u][c].balance]]
Outcome(label) == CASE label = "committed" -> "paid"
                    [] label = "rolledBack" -> "refused"
                    [] OTHER -> "pending"
Outcomes == [r \in Requests |-> Outcome(pc[r])]

Mapped == Atomic!Next \/ UNCHANGED Atomic!vars

LEMMA OutcomesEnd ==
    ASSUME NEW r \in Requests, NEW e, pc[r] \in {"open", "read"},
           \A q \in Requests : pc'[q] = IF q = r THEN e ELSE pc[q]
    PROVE  Outcomes[r] = "pending" /\ Outcomes' = [Outcomes EXCEPT ![r] = Outcome(e)]
  <1>1. Outcomes[r] = "pending"
    BY DEF Outcomes, Outcome
  <1>2. Outcomes' = [q \in Requests |-> Outcome(pc'[q])]
    BY DEF Outcomes, Outcome
  <1>3. [q \in Requests |-> Outcome(pc'[q])]
        = [q \in Requests |-> IF q = r THEN Outcome(e) ELSE Outcomes[q]]
    BY DEF Outcomes
  <1>4. [Outcomes EXCEPT ![r] = Outcome(e)]
        = [q \in Requests |-> IF q = r THEN Outcome(e) ELSE Outcomes[q]]
    BY DEF Outcomes
  <1> QED BY <1>1, <1>2, <1>3, <1>4

LEMMA BalanceType ==
    ASSUME IInv, NEW u \in Users, NEW c \in Currencies
    PROVE  /\ row[u][c].balance \in Int /\ draft[u][c].balance \in Int
           /\ row[u][c].balance >= 0 /\ draft[u][c].balance >= 0
  <1>1. row[u][c] \in Account /\ draft[u][c] \in Account
    BY DEF IInv, TypeOK
  <1> QED BY <1>1 DEF IInv, AccountsSound, Sound, Account

LEMMA InitPaying ==
    ASSUME Init
    PROVE  Paying
  <1>1. IInv
    BY InitInv
  <1> SUFFICES ASSUME NEW r \in Requests PROVE PayingOK(r)
    BY DEF Paying
  <1>2. next[r] = 1 /\ \A u \in Users : holder[u] # r
    BY NoRequestAssumption DEF Init
  <1> QED BY <1>2, PlanIsChanges DEF PayingOK

LEMMA InitMapped ==
    ASSUME Init
    PROVE  Atomic!Init
  <1>1. \A u \in Users, c \in Currencies : row[u][c].balance = Opening[u][c]
    BY OpeningAssumption DEF Init, OpeningAccount
  <1>2. [u \in Users |-> [c \in Currencies |-> row[u][c].balance]] = Opening
    BY <1>1, OpeningAssumption
  <1>3. \A r \in Requests : pc[r] = "idle"
    BY DEF Init
  <1> QED BY <1>2, <1>3 DEF Atomic!Init

(* Taking a wallet that nobody holds: nothing of it has been moved yet.    *)
LEMMA TakePays ==
    ASSUME IInv, Paying, NEW r \in Requests, pc[r] = "open", NEW u \in Users, Free(u, r),
           holder' = [holder EXCEPT ![u] = r],
           next' = next, row' = row, draft' = draft,
           NEW p \in {"open", "read"}, pc' = [pc EXCEPT ![r] = p]
    PROVE  Paying' /\ Mapped
  <1>1. /\ \A v \in Users : holder'[v] = IF v = u THEN r ELSE holder[v]
        /\ \A q \in Requests : pc'[q] = IF q = r THEN p ELSE pc[q]
        /\ holder[u] \in {NoRequest, r} /\ next[r] \in Nat \ {0}
    BY DEF IInv, TypeOK, Free
  <1>2. Paying'
    <2> SUFFICES ASSUME NEW q \in Requests, pc'[q] \notin Ended PROVE PayingOK(q)'
      BY DEF Paying
    <2>1. pc[q] \notin Ended
      BY <1>1 DEF Ended
    <2>2. PayingOK(q)
      BY <2>1 DEF Paying
    <2>3. CASE q # r
      BY <1>1, <2>2, <2>3, NoRequestAssumption, OthersPay DEF IInv
    <2>4. CASE q = r
      <3>1. CASE holder[u] = r
        BY <1>1, <2>2, <2>4, <3>1, OthersPay DEF IInv
      <3>2. CASE holder[u] # r
        <4>1. \A c \in Currencies, n \in 0..next[r] - 1 : Moved(r, n, u, c) = 0
          BY <2>2, <2>4, <3>2, NotHeldNotMoved DEF IInv
        <4>2. draft[u] = row[u]
          BY <1>1, <3>2 DEF IInv, UnlockedUnwritten
        <4>3. \A c \in Currencies :
                 /\ draft[u][c].balance = row[u][c].balance + Moved(r, next[r] - 1, u, c)
                 /\ \A n \in 0..next[r] - 1 : row[u][c].balance + Moved(r, n, u, c) >= 0
          BY <1>1, <4>1, <4>2, BalanceType
        <4>4. \A i \in 1..next[r] - 1 : Plan[r].changes[i].user \in Users
          BY <1>1, <2>2, <2>4, PlanIsChanges DEF PayingOK
        <4>5. \A i \in 1..next[r] - 1 : holder'[Plan[r].changes[i].user] = r
          BY <1>1, <2>2, <2>4, <4>4 DEF PayingOK
        <4>6. \A v \in Users : holder'[v] = r => \A c \in Currencies :
                 /\ draft[v][c].balance = row[v][c].balance + Moved(r, next[r] - 1, v, c)
                 /\ \A n \in 0..next[r] - 1 : row[v][c].balance + Moved(r, n, v, c) >= 0
          BY <1>1, <2>2, <2>4, <4>3 DEF PayingOK
        <4>7. next[r] <= Len(Plan[r].changes) + 1
          BY <2>2, <2>4 DEF PayingOK
        <4>8. PayingOK(r)'
          <5>1. \A i \in 1..next'[r] - 1 : holder'[Plan[r].changes[i].user] = r
            BY <4>5
          <5>2. \A v \in Users : holder'[v] = r => \A c \in Currencies :
                   /\ draft'[v][c].balance = row'[v][c].balance + Moved(r, next'[r] - 1, v, c)
                   /\ \A n \in 0..next'[r] - 1 : row'[v][c].balance + Moved(r, n, v, c) >= 0
            BY <4>6
          <5>3. next'[r] <= Len(Plan[r].changes) + 1
            BY <4>7
          <5> QED BY ONLY <5>1, <5>2, <5>3 DEF PayingOK, Moved, Atomic!Paid
        <4> QED BY <2>4, <4>8
      <3> QED BY <3>1, <3>2
    <2> QED BY <2>3, <2>4
  <1>3. UNCHANGED Atomic!vars
    BY <1>1 DEF Atomic!vars
  <1> QED BY <1>2, <1>3 DEF Mapped

(* The second half of change() makes one more of the changes.              *)
LEMMA ChangeWritePays ==
    ASSUME IInv, Paying, NEW r \in Requests, ChangeWrite(r)
    PROVE  Paying' /\ Mapped
  <1> DEFINE m == next[r]
             ch == Plan[r].changes[m]
             u == ch.user
             c == ch.currency
  <1>1. /\ pc[r] = "read" /\ m \in Nat \ {0} /\ m \in 1..Len(Plan[r].changes) /\ Current(r) = ch
        /\ u \in Users /\ c \in Currencies /\ ch.amount \in Int
        /\ holder[u] = r /\ seen[r] = draft[u][c].balance
        /\ BalanceAfter(r) = draft[u][c].balance + ch.amount /\ BalanceAfter(r) >= 0
    <2>1. pc[r] = "read" /\ HasChange(r) /\ m \in Nat \ {0}
      BY DEF ChangeWrite, IInv, ReadIsFresh, TypeOK
    <2>2. m \in 1..Len(Plan[r].changes) /\ Current(r) = ch
      BY <2>1, PlanIsChanges DEF HasChange, Current
    <2>3. u \in Users /\ c \in Currencies /\ ch.amount \in Int
      BY <2>2, PlanIsChanges
    <2>4. holder[u] = r /\ seen[r] = draft[u][c].balance
      BY <2>1, <2>2 DEF IInv, ReadIsFresh
    <2> QED BY <2>1, <2>2, <2>3, <2>4 DEF ChangeWrite, BalanceAfter
  <1>2. /\ draft' = [draft EXCEPT ![u][c] = Written(@, ch.amount, BalanceAfter(r))]
        /\ next' = [next EXCEPT ![r] = m + 1] /\ pc' = [pc EXCEPT ![r] = "open"]
        /\ holder' = holder /\ row' = row
    BY <1>1 DEF ChangeWrite
  <1>3. PayingOK(r)
    BY <1>1 DEF Paying, Ended
  <1> HIDE DEF ch, u, c
  <1>4. /\ \A v \in Users : v # u => draft'[v] = draft[v]
        /\ \A d \in Currencies : d # c => draft'[u][d] = draft[u][d]
        /\ draft'[u][c] = Written(draft[u][c], ch.amount, BalanceAfter(r))
    BY <1>1, <1>2 DEF IInv, TypeOK
  <1>5. draft'[u][c].balance = draft[u][c].balance + ch.amount
    BY <1>1, <1>4 DEF Written
  <1>6. \A q \in Requests : /\ next'[q] = IF q = r THEN m + 1 ELSE next[q]
                            /\ pc'[q] = IF q = r THEN "open" ELSE pc[q]
    BY <1>2 DEF IInv, TypeOK
  <1>7. \A v \in Users, d \in Currencies :
           Moved(r, m, v, d) = Moved(r, m - 1, v, d) + IF v = u /\ d = c THEN ch.amount ELSE 0
    <2> SUFFICES ASSUME NEW v \in Users, NEW d \in Currencies
                 PROVE  Moved(r, m, v, d)
                        = Moved(r, m - 1, v, d) + IF v = u /\ d = c THEN ch.amount ELSE 0
      OBVIOUS
    <2>1. m \in 1..Len(Plan[r].changes)
      BY <1>1
    <2>2. Moved(r, m, v, d)
          = Moved(r, m - 1, v, d) + IF Plan[r].changes[m].user = v /\ Plan[r].changes[m].currency = d
                                    THEN Plan[r].changes[m].amount ELSE 0
      BY <2>1, MovedMore
    <2> QED BY <2>2 DEF ch, u, c
  <1>8. PayingOK(r)'
    <2>1. next'[r] <= Len(Plan[r].changes) + 1 /\ next'[r] = m + 1 /\ next'[r] - 1 = m
      BY <1>1, <1>6, PlanIsChanges
    <2>2. \A i \in 1..m : holder[Plan[r].changes[i].user] = r
      <3>1. \A i \in 1..m : i = m \/ i \in 1..m - 1
        BY <1>1
      <3>2. holder[Plan[r].changes[m].user] = r
        BY <1>1 DEF u, ch
      <3>3. \A i \in 1..m - 1 : holder[Plan[r].changes[i].user] = r
        BY <1>3 DEF PayingOK
      <3> QED BY <3>1, <3>2, <3>3
    <2>3. ASSUME NEW v \in Users, holder[v] = r, NEW d \in Currencies
          PROVE  /\ draft'[v][d].balance = row[v][d].balance + Moved(r, m, v, d)
                 /\ \A n \in 0..m : row[v][d].balance + Moved(r, n, v, d) >= 0
      <3>1. /\ draft[v][d].balance = row[v][d].balance + Moved(r, m - 1, v, d)
            /\ \A n \in 0..m - 1 : row[v][d].balance + Moved(r, n, v, d) >= 0
        BY <2>3, <1>3 DEF PayingOK
      <3>2. /\ row[v][d].balance \in Int /\ draft[v][d].balance \in Int
            /\ draft[v][d].balance >= 0
        BY BalanceType
      <3>3. Moved(r, m, v, d) \in Int /\ Moved(r, m - 1, v, d) \in Int
        BY PaidType
      <3>4. draft'[v][d].balance = row[v][d].balance + Moved(r, m, v, d)
        <4>1. CASE v = u /\ d = c
          <5>1. Moved(r, m, v, d) = Moved(r, m - 1, v, d) + ch.amount
            BY <1>7, <4>1
          <5> QED BY <1>1, <1>5, <3>1, <3>2, <3>3, <4>1, <5>1
        <4>2. CASE ~(v = u /\ d = c)
          <5>1. Moved(r, m, v, d) = Moved(r, m - 1, v, d)
            BY <1>7, <3>3, <4>2
          <5>2. draft'[v][d] = draft[v][d]
            BY <1>4, <4>2
          <5> QED BY <3>1, <5>1, <5>2
        <4> QED BY <4>1, <4>2
      <3>5. draft'[v][d].balance >= 0
        BY <1>1, <1>4, <1>5, <3>2
      <3>6. \A n \in 0..m : n = m \/ n \in 0..m - 1
        BY <1>1
      <3> QED BY <3>1, <3>4, <3>5, <3>6
    <2>4. ASSUME NEW n, NEW v, NEW d PROVE Moved(r, n, v, d)' = Moved(r, n, v, d)
      BY DEF Moved, Atomic!Paid
    <2>5. next'[r] <= Len(Plan[r].changes) + 1
      BY <2>1
    <2>6. \A i \in 1..next'[r] - 1 : holder'[Plan[r].changes[i].user] = r
      BY <1>2, <2>1, <2>2
    <2>7. \A v \in Users : holder'[v] = r => \A d \in Currencies :
             /\ draft'[v][d].balance = row'[v][d].balance + Moved(r, next'[r] - 1, v, d)
             /\ \A n \in 0..next'[r] - 1 : row'[v][d].balance + Moved(r, n, v, d) >= 0
      BY <1>2, <2>1, <2>3
    <2> QED BY <2>4, <2>5, <2>6, <2>7 DEF PayingOK
  <1>9. Paying'
    <2> SUFFICES ASSUME NEW q \in Requests, q # r, pc[q] \notin Ended PROVE PayingOK(q)'
      BY <1>6, <1>8 DEF Paying
    <2>1. PayingOK(q)
      BY DEF Paying
    <2>2. \A v \in Users : holder[v] = q => draft'[v] = draft[v] /\ row'[v] = row[v]
      BY <1>1, <1>2, <1>4
    <2> QED BY <1>2, <1>6, <2>1, <2>2, OthersPay DEF IInv
  <1>10. UNCHANGED Atomic!vars
    BY <1>1, <1>2, <1>6 DEF Atomic!vars
  <1> QED BY <1>9, <1>10 DEF Mapped

(* A request that is undone has moved nothing. *)
LEMMA UndoPays ==
    ASSUME IInv, Paying, NEW r \in Requests, pc[r] \in {"open", "read"}, Undo(r)
    PROVE  Paying' /\ Mapped
  <1>1. /\ \A q \in Requests : pc'[q] = IF q = r THEN "rolledBack" ELSE pc[q]
        /\ pc' = [pc EXCEPT ![r] = "rolledBack"]
        /\ \A u \in Users : /\ holder'[u] = IF holder[u] = r THEN NoRequest ELSE holder[u]
                            /\ holder[u] # r => draft'[u] = draft[u]
        /\ next' = next /\ row' = row
    BY DEF Undo, Release, IInv, TypeOK
  <1>2. Paying'
    <2> SUFFICES ASSUME NEW q \in Requests, pc'[q] \notin Ended PROVE PayingOK(q)'
      BY DEF Paying
    <2>1. q # r /\ pc[q] \notin Ended
      BY <1>1 DEF Ended
    <2>2. PayingOK(q)
      BY <2>1 DEF Paying
    <2> QED BY <1>1, <2>1, <2>2, NoRequestAssumption, OthersPay DEF IInv
  <1>3. Atomic!Refuse(r)
    <2>1. Outcome("rolledBack") = "refused"
      BY DEF Outcome
    <2>2. Outcomes[r] = "pending" /\ Outcomes' = [Outcomes EXCEPT ![r] = "refused"]
      BY <1>1, <2>1, OutcomesEnd
    <2>3. Balances' = Balances
      BY <1>1 DEF Balances
    <2> QED BY <2>2, <2>3 DEF Atomic!Refuse, Outcomes, Outcome, Balances
  <1> QED BY <1>2, <1>3 DEF Mapped, Atomic!Next

(* A request that commits makes all of its changes at once. *)
LEMMA CommitPays ==
    ASSUME IInv, Paying, NEW r \in Requests, Commit(r)
    PROVE  Paying' /\ Mapped
  <1> DEFINE n == Len(Plan[r].changes)
  <1>1. /\ pc[r] = "open" /\ next[r] - 1 = n /\ n \in Nat
        /\ PayingOK(r)
    <2>1. pc[r] = "open" /\ ~(next[r] <= n) /\ PayingOK(r)
      BY DEF Commit, HasChange, Paying, Ended
    <2>2. next[r] <= n + 1 /\ next[r] \in Nat /\ n \in Nat
      BY <2>1, PlanIsChanges DEF PayingOK, IInv, TypeOK
    <2> QED BY <2>1, <2>2
  <1>2. /\ \A q \in Requests : pc'[q] = IF q = r THEN "committed" ELSE pc[q]
        /\ pc' = [pc EXCEPT ![r] = "committed"]
        /\ \A u \in Users : /\ holder'[u] = IF holder[u] = r THEN NoRequest ELSE holder[u]
                            /\ row'[u] = IF holder[u] = r THEN draft[u] ELSE row[u]
        /\ next' = next /\ draft' = draft
    BY <1>1 DEF Commit, Release, IInv, TypeOK
  <1>3. Paying'
    <2> SUFFICES ASSUME NEW q \in Requests, pc'[q] \notin Ended PROVE PayingOK(q)'
      BY DEF Paying
    <2>1. q # r /\ pc[q] \notin Ended
      BY <1>2 DEF Ended
    <2>2. PayingOK(q)
      BY <2>1 DEF Paying
    <2> QED BY <1>2, <2>1, <2>2, NoRequestAssumption, OthersPay DEF IInv
  <1>4. \A u \in Users, c \in Currencies, k \in 0..n :
           row[u][c].balance + Moved(r, k, u, c) >= 0
    <2> SUFFICES ASSUME NEW u \in Users, NEW c \in Currencies, NEW k \in 0..n
                 PROVE  row[u][c].balance + Moved(r, k, u, c) >= 0
      OBVIOUS
    <2>1. CASE holder[u] = r
      BY <1>1, <2>1 DEF PayingOK
    <2>2. CASE holder[u] # r
      <3>1. Moved(r, k, u, c) = 0
        BY <1>1, <2>2, NotHeldNotMoved DEF IInv
      <3> QED BY <3>1, BalanceType
    <2> QED BY <2>1, <2>2
  <1>5. \A u \in Users, c \in Currencies :
           row'[u][c].balance = row[u][c].balance + Moved(r, n, u, c)
    <2> SUFFICES ASSUME NEW u \in Users, NEW c \in Currencies
                 PROVE  row'[u][c].balance = row[u][c].balance + Moved(r, n, u, c)
      OBVIOUS
    <2>1. CASE holder[u] = r
      BY <1>1, <1>2, <2>1 DEF PayingOK
    <2>2. CASE holder[u] # r
      <3>1. Moved(r, n, u, c) = 0
        BY <1>1, <2>2, NotHeldNotMoved DEF IInv
      <3> QED BY <1>2, <2>2, <3>1, BalanceType
    <2> QED BY <2>1, <2>2
  <1>6. Atomic!Pay(r)
    <2>1. Outcome("committed") = "paid"
      BY DEF Outcome
    <2>2. Outcomes[r] = "pending" /\ Outcomes' = [Outcomes EXCEPT ![r] = "paid"]
      BY <1>1, <1>2, <2>1, OutcomesEnd
    <2>3. \A k \in Nat : Atomic!After(Balances, r, k)
             = [u \in Users |-> [c \in Currencies |-> row[u][c].balance + Moved(r, k, u, c)]]
      BY SameSum DEF Atomic!After, Balances, Moved
    <2>4. Atomic!Affordable(r)
      <3> SUFFICES ASSUME NEW k \in 1..n, NEW u \in Users, NEW c \in Currencies
                   PROVE  Atomic!After(Balances, r, k)[u][c] >= 0
        BY DEF Atomic!Affordable, Balances
      <3> QED BY <1>1, <1>4, <2>3
    <2>5. Balances' = Atomic!After(Balances, r, n)
      BY <1>1, <1>5, <2>3 DEF Balances
    <2> QED BY <2>2, <2>4, <2>5 DEF Atomic!Pay, Outcomes, Outcome, Balances
  <1> QED BY <1>3, <1>6 DEF Mapped, Atomic!Next

LEMMA NextPays ==
    ASSUME IInv, Paying, [Next]_vars
    PROVE  Paying' /\ Mapped
  <1>1. ASSUME NEW r \in Requests, Begin(r) PROVE Paying' /\ Mapped
    <2>1. /\ \A q \in Requests : pc'[q] = IF q = r THEN "open" ELSE pc[q]
          /\ pc[r] = "idle"
          /\ next' = next /\ holder' = holder /\ row' = row /\ draft' = draft
      BY <1>1 DEF Begin, IInv, TypeOK
    <2>2. Paying'
      <3> SUFFICES ASSUME NEW q \in Requests, pc'[q] \notin Ended PROVE PayingOK(q)'
        BY DEF Paying
      <3>1. PayingOK(q)
        BY <2>1 DEF Paying, Ended
      <3> QED BY <2>1, <3>1, OthersPay DEF IInv
    <2>3. UNCHANGED Atomic!vars
      BY <2>1 DEF Atomic!vars
    <2> QED BY <2>2, <2>3 DEF Mapped
  <1>2. ASSUME NEW r \in Requests, NEW u \in Users, LockWallet(r, u) PROVE Paying' /\ Mapped
    <2>1. pc' = [pc EXCEPT ![r] = "open"]
      BY <1>2 DEF LockWallet, IInv, TypeOK
    <2> QED BY <1>2, <2>1, TakePays DEF LockWallet
  <1>3. ASSUME NEW r \in Requests, ChangeRead(r) PROVE Paying' /\ Mapped
    <2>1. Current(r).user \in Users
      BY <1>3, CurrentIsChange DEF ChangeRead, IInv, TypeOK
    <2>2. /\ pc[r] = "open" /\ Free(Current(r).user, r)
          /\ holder' = [holder EXCEPT ![Current(r).user] = r]
          /\ next' = next /\ row' = row /\ draft' = draft
          /\ pc' = [pc EXCEPT ![r] = "read"]
      BY <1>3 DEF ChangeRead
    <2> QED BY <2>1, <2>2, TakePays
  <1>4. ASSUME NEW r \in Requests, ChangeWrite(r) PROVE Paying' /\ Mapped
    BY <1>4, ChangeWritePays
  <1>5. ASSUME NEW r \in Requests, Commit(r) PROVE Paying' /\ Mapped
    BY <1>5, CommitPays
  <1>6. ASSUME NEW r \in Requests, NotEnough(r) \/ CallerFails(r) \/ DeadlockVictim(r)
        PROVE  Paying' /\ Mapped
    BY <1>6, UndoPays, VictimFails DEF NotEnough, CallerFails
  <1>7. CASE UNCHANGED vars
    <2>1. /\ pc' = pc /\ next' = next /\ holder' = holder /\ row' = row /\ draft' = draft
      BY <1>7 DEF vars
    <2>2. Paying'
      <3> SUFFICES ASSUME NEW q \in Requests, pc'[q] \notin Ended PROVE PayingOK(q)'
        BY DEF Paying
      <3>1. PayingOK(q)
        BY <2>1 DEF Paying
      <3> QED BY <2>1, <3>1, OthersPay DEF IInv
    <2>3. UNCHANGED Atomic!vars
      BY <2>1 DEF Atomic!vars
    <2> QED BY <2>2, <2>3 DEF Mapped
  <1> QED BY <1>1, <1>2, <1>3, <1>4, <1>5, <1>6, <1>7 DEF Next, Step

(* The wallets behave as if every request ran alone and at once: it pays   *)
(* all of its changes, each of which the accounts can afford, or none       *)
(* (WalletService.lockWallets, change()).                                   *)
THEOREM WalletImplementsBank == Spec => ImplementsBank
  <1>1. Init => Paying /\ Atomic!Init
    BY InitPaying, InitMapped
  <1>2. IInv /\ Paying /\ [Next]_vars => Paying'
    BY NextPays
  <1>3. IInv /\ Paying /\ [Next]_vars => [Atomic!Next]_Atomic!vars
    BY NextPays DEF Mapped
  <1> QED BY <1>1, <1>2, <1>3, Inductive, PTL DEF Spec, ImplementsBank, Atomic!Spec

---------------------------------------------------------------------------
(*                         The key-value store                              *)
KvInv == Kv!TypeOK /\ Kv!SameWhileLive /\ Kv!FakeAnswersAlike

---------------------------------------------------------------------------
(* What the operations on one st do to what is live in it.              *)

(* What is live in a st, as a st of its own. *)
Visible(st, now) == [k \in Kv!LiveKeys(st, now) |-> st[k]]

Row == [value : 0..KV_MAX_VALUE, expires : Nat]

LEMMA VisibleHas ==
    ASSUME NEW st, NEW now, NEW k
    PROVE  /\ k \in DOMAIN Visible(st, now) <=> Kv!IsLive(st, k, now)
           /\ Kv!IsLive(st, k, now) => Visible(st, now)[k] = st[k]
  BY DEF Visible, Kv!LiveKeys, Kv!IsLive

(* A new row that is not over yet is one that all can see. *)
LEMMA VisibleWith ==
    ASSUME NEW st, NEW now \in Nat, NEW k, NEW v, NEW e \in Nat, e > now
    PROVE  Visible(Kv!With(st, k, v, e), now) = Kv!With(Visible(st, now), k, v, e)
  <1> DEFINE W == Kv!With(st, k, v, e)
  <1>1. /\ DOMAIN W = DOMAIN st \cup {k} /\ W[k] = [value |-> v, expires |-> e]
        /\ \A x \in DOMAIN st : x # k => W[x] = st[x]
    BY DEF Kv!With
  <1>2. Kv!LiveKeys(W, now) = Kv!LiveKeys(st, now) \cup {k}
    BY <1>1 DEF Kv!LiveKeys
  <1> HIDE DEF W
  <1>3. \A x \in Kv!LiveKeys(st, now) : x # k => W[x] = st[x]
    BY <1>1 DEF Kv!LiveKeys
  <1>4. Visible(W, now)
        = [x \in Kv!LiveKeys(st, now) \cup {k} |->
              IF x = k THEN [value |-> v, expires |-> e] ELSE Visible(st, now)[x]]
    BY <1>1, <1>2, <1>3 DEF Visible
  <1> QED BY <1>4 DEF W, Kv!With, Visible

LEMMA VisibleWithout ==
    ASSUME NEW st, NEW now, NEW S
    PROVE  Visible(Kv!Without(st, S), now) = Kv!Without(Visible(st, now), S)
  <1> DEFINE W == Kv!Without(st, S)
  <1>1. DOMAIN W = DOMAIN st \ S /\ \A x \in DOMAIN st \ S : W[x] = st[x]
    BY DEF Kv!Without
  <1>2. Kv!LiveKeys(W, now) = Kv!LiveKeys(st, now) \ S
    BY <1>1 DEF Kv!LiveKeys
  <1> HIDE DEF W
  <1>3. \A x \in Kv!LiveKeys(st, now) \ S : W[x] = st[x]
    BY <1>1 DEF Kv!LiveKeys
  <1> QED BY <1>2, <1>3 DEF Visible, W, Kv!Without

(* Dropping what is over changes nothing that can be seen. *)
LEMMA VisibleSwept ==
    ASSUME NEW st, NEW now \in Nat, NEW S, \A k \in S : ~Kv!IsLive(st, k, now)
    PROVE  Visible(Kv!Without(st, S), now) = Visible(st, now)
  <1>1. Kv!LiveKeys(st, now) \ S = Kv!LiveKeys(st, now)
    BY DEF Kv!LiveKeys, Kv!IsLive
  <1>2. Visible(Kv!Without(st, S), now) = Kv!Without(Visible(st, now), S)
    BY VisibleWithout
  <1> QED BY <1>1, <1>2 DEF Visible, Kv!Without

(* As time goes by rows go out of sight, and none comes back. *)
LEMMA VisibleLater ==
    ASSUME NEW st, NEW now \in Nat, \A k \in DOMAIN st : st[k].expires \in Nat
    PROVE  Visible(st, now + 1) = Visible(Visible(st, now), now + 1)
  <1> DEFINE V == Visible(st, now)
  <1>1. DOMAIN V = Kv!LiveKeys(st, now) /\ \A x \in Kv!LiveKeys(st, now) : V[x] = st[x]
    BY DEF Visible
  <1>2. Kv!LiveKeys(st, now + 1) \subseteq Kv!LiveKeys(st, now)
    BY DEF Kv!LiveKeys
  <1> HIDE DEF V
  <1>3. Kv!LiveKeys(V, now + 1) = Kv!LiveKeys(st, now + 1)
    BY <1>1, <1>2 DEF Kv!LiveKeys
  <1> QED BY <1>1, <1>2, <1>3 DEF V, Visible

---------------------------------------------------------------------------
(* The rows stay rows.                                                     *)

LEMMA WithStored ==
    ASSUME NEW st, Kv!Stored(st), NEW k \in KvKeys, NEW v \in 0..KV_MAX_VALUE, NEW e \in Nat
    PROVE  Kv!Stored(Kv!With(st, k, v, e))
  BY DEF Kv!Stored, Kv!With

LEMMA WithoutStored ==
    ASSUME NEW st, Kv!Stored(st), NEW S
    PROVE  Kv!Stored(Kv!Without(st, S))
  BY DEF Kv!Stored, Kv!Without
---------------------------------------------------------------------------

Table == Visible(rows, kvClock)
Fake == Visible(entries, kvClock)

LEMMA SameIsSeen ==
    ASSUME NEW s, NEW t, NEW now, Kv!Stored(s), Kv!Stored(t)
    PROVE  (\A k \in KvKeys : /\ Kv!IsLive(s, k, now) <=> Kv!IsLive(t, k, now)
                              /\ Kv!IsLive(s, k, now) => s[k] = t[k])
           <=> Visible(s, now) = Visible(t, now)
  <1> DEFINE Same == \A k \in KvKeys : /\ Kv!IsLive(s, k, now) <=> Kv!IsLive(t, k, now)
                                       /\ Kv!IsLive(s, k, now) => s[k] = t[k]
  <1>1. /\ \A k : Kv!IsLive(s, k, now) <=> k \in Kv!LiveKeys(s, now)
        /\ \A k : Kv!IsLive(t, k, now) <=> k \in Kv!LiveKeys(t, now)
        /\ Kv!LiveKeys(s, now) \subseteq KvKeys /\ Kv!LiveKeys(t, now) \subseteq KvKeys
    BY DEF Kv!Stored, Kv!IsLive, Kv!LiveKeys
  <1>2. ASSUME Same PROVE Visible(s, now) = Visible(t, now)
    <2>1. Kv!LiveKeys(s, now) = Kv!LiveKeys(t, now)
      BY <1>1, <1>2
    <2>2. \A k \in Kv!LiveKeys(s, now) : s[k] = t[k]
      BY <1>1, <1>2
    <2> QED BY <2>1, <2>2 DEF Visible
  <1>3. ASSUME Visible(s, now) = Visible(t, now) PROVE Same
    <2> SUFFICES ASSUME NEW k \in KvKeys
                 PROVE  /\ Kv!IsLive(s, k, now) <=> Kv!IsLive(t, k, now)
                        /\ Kv!IsLive(s, k, now) => s[k] = t[k]
      OBVIOUS
    <2>1. Kv!IsLive(s, k, now) <=> Kv!IsLive(t, k, now)
      BY <1>3, VisibleHas
    <2>2. Kv!IsLive(s, k, now) => s[k] = Visible(s, now)[k]
      BY VisibleHas
    <2>3. Kv!IsLive(t, k, now) => t[k] = Visible(t, now)[k]
      BY VisibleHas
    <2> QED BY <1>3, <2>1, <2>2, <2>3
  <1> QED BY <1>2, <1>3

LEMMA TableIsFake ==
    ASSUME KvInv
    PROVE  Table = Fake
  <1>1. Kv!Stored(rows) /\ Kv!Stored(entries)
    BY DEF KvInv, Kv!TypeOK
  <1>2. (\A k \in KvKeys : /\ Kv!IsLive(rows, k, kvClock) <=> Kv!IsLive(entries, k, kvClock)
                           /\ Kv!IsLive(rows, k, kvClock) => rows[k] = entries[k])
        <=> Visible(rows, kvClock) = Visible(entries, kvClock)
    BY <1>1, SameIsSeen
  <1> QED BY <1>2 DEF KvInv, Kv!SameWhileLive, Table, Fake

LEMMA FakeIsTableNext ==
    ASSUME Kv!TypeOK', Table' = Fake', said'.sql = said'.fake
    PROVE  KvInv'
  <1>1. Kv!Stored(rows') /\ Kv!Stored(entries')
    BY DEF Kv!TypeOK, Kv!Stored
  <1>2. (\A k \in KvKeys : /\ Kv!IsLive(rows', k, kvClock') <=> Kv!IsLive(entries', k, kvClock')
                           /\ Kv!IsLive(rows', k, kvClock') => rows'[k] = entries'[k])
        <=> Visible(rows', kvClock') = Visible(entries', kvClock')
    BY <1>1, SameIsSeen
  <1>3. Kv!SameWhileLive'
    BY <1>2 DEF Kv!SameWhileLive, Table, Fake, Kv!IsLive, Visible, Kv!LiveKeys
  <1> QED BY <1>3 DEF KvInv, Kv!FakeAnswersAlike

(* What each call does to what can be seen, whichever st it is asked of. *)
AnswersBoth(a) == said' = [sql |-> a, fake |-> a] /\ kvClock' = kvClock

LEMMA LookedSame ==
    ASSUME Kv!TypeOK, NEW k \in KvKeys
    PROVE  /\ Visible(Kv!Looked(k), kvClock) = Fake /\ Kv!Stored(Kv!Looked(k))
           /\ k \in DOMAIN Kv!Looked(k) <=> k \in DOMAIN Fake
           /\ k \in DOMAIN Fake => Fake[k] = entries[k]
  <1>1. kvClock \in Nat
    BY DEF Kv!TypeOK
  <1>2. CASE Kv!IsLive(entries, k, kvClock)
    <2>1. Kv!Looked(k) = entries
      BY <1>2 DEF Kv!Looked
    <2>2. k \in DOMAIN entries
      BY <1>2 DEF Kv!IsLive
    <2> QED BY <1>2, <2>1, <2>2, VisibleHas DEF Fake, Kv!TypeOK
  <1>3. CASE ~Kv!IsLive(entries, k, kvClock)
    <2>1. Kv!Looked(k) = Kv!Without(entries, {k})
      BY <1>3 DEF Kv!Looked
    <2>2. Visible(Kv!Looked(k), kvClock) = Fake
      BY <1>1, <1>3, <2>1, VisibleSwept DEF Fake
    <2>3. k \notin DOMAIN Kv!Looked(k) /\ Kv!Stored(Kv!Looked(k))
      <3>1. Kv!Stored(entries)
        BY DEF Kv!TypeOK
      <3>2. Kv!Stored(Kv!Without(entries, {k}))
        BY <3>1, WithoutStored
      <3> QED BY <2>1, <3>2 DEF Kv!Without
    <2> QED BY <1>3, <2>2, <2>3, VisibleHas DEF Fake
  <1> QED BY <1>2, <1>3

LEMMA TableSame ==
    ASSUME Kv!TypeOK, NEW k \in KvKeys
    PROVE  /\ Kv!IsLive(rows, k, kvClock) <=> k \in DOMAIN Table
           /\ k \in DOMAIN Table => k \in DOMAIN rows /\ Table[k] = rows[k] /\ rows[k] \in Row
  BY VisibleHas DEF Table, Kv!TypeOK, Kv!Stored, Kv!IsLive, Row


LEMMA GetSeen ==
    ASSUME Kv!Parameters, KvInv, NEW k \in KvKeys, Kv!Get(k)
    PROVE  /\ Kv!TypeOK'
           /\ Table' = Table /\ Fake' = Fake
           /\ AnswersBoth(IF k \in DOMAIN Table THEN Table[k].value ELSE NoValue)
  <1>1. Kv!TypeOK /\ Table = Fake
    BY TableIsFake DEF KvInv
  <1>2. rows' = rows /\ entries' = Kv!Looked(k) /\ kvClock' = kvClock
    BY DEF Kv!Get
  <1>3. Table' = Table /\ Fake' = Fake
    BY <1>1, <1>2, LookedSame DEF Table, Fake, Visible, Kv!LiveKeys
  <1>4. AnswersBoth(IF k \in DOMAIN Table THEN Table[k].value ELSE NoValue)
    BY <1>1, <1>2, LookedSame, TableSame DEF AnswersBoth, Kv!Get, Kv!Answer
  <1>5. Kv!TypeOK'
    BY <1>1, <1>2, <1>4, LookedSame DEF Kv!TypeOK, Kv!Stored, AnswersBoth
  <1> QED BY <1>3, <1>4, <1>5

LEMMA SetSeen ==
    ASSUME Kv!Parameters, KvInv, NEW k \in KvKeys, NEW v \in KvValues, NEW ttl \in KvLifetimes, Kv!Set(k, v, ttl)
    PROVE  /\ Kv!TypeOK'
           /\ Table' = Kv!With(Table, k, v, kvClock + ttl) /\ Fake' = Kv!With(Fake, k, v, kvClock + ttl)
           /\ AnswersBoth(NoValue)
  <1>1. /\ kvClock \in Nat /\ kvClock + ttl \in Nat /\ kvClock + ttl > kvClock /\ v \in 0..KV_MAX_VALUE
        /\ Kv!Stored(rows) /\ Kv!Stored(entries)
    BY DEF Kv!Parameters, KvInv, Kv!TypeOK
  <1>2. /\ rows' = Kv!With(rows, k, v, kvClock + ttl) /\ entries' = Kv!With(entries, k, v, kvClock + ttl)
        /\ kvClock' = kvClock /\ said' = [sql |-> NoValue, fake |-> NoValue]
    BY DEF Kv!Set, Kv!Answer
  <1>3. /\ Visible(rows', kvClock') = Kv!With(Table, k, v, kvClock + ttl)
        /\ Visible(entries', kvClock') = Kv!With(Fake, k, v, kvClock + ttl)
    BY <1>1, <1>2, VisibleWith DEF Table, Fake
  <1>4. Kv!Stored(rows') /\ Kv!Stored(entries')
    BY <1>1, <1>2, WithStored
  <1>5. Kv!TypeOK'
    BY <1>2, <1>4 DEF KvInv, Kv!TypeOK, Kv!Stored
  <1> QED BY <1>2, <1>3, <1>5 DEF Table, Fake, Visible, Kv!LiveKeys, AnswersBoth

(* The claim of a key that nobody has. *)
LEMMA ClaimSeen ==
    ASSUME Kv!Parameters, KvInv, NEW k \in KvKeys, NEW v \in KvValues, NEW ttl \in KvLifetimes,
           Kv!SetIfAbsent(k, v, ttl)
    PROVE  /\ Kv!TypeOK'
           /\ k \in DOMAIN Table => /\ Table' = Table /\ Fake' = Fake
                                    /\ AnswersBoth(Kv!Taken)
           /\ k \notin DOMAIN Table => /\ Table' = Kv!With(Table, k, v, kvClock + ttl)
                                       /\ Fake' = Kv!With(Fake, k, v, kvClock + ttl)
                                       /\ AnswersBoth(Kv!Claimed)
  <1>1. /\ kvClock \in Nat /\ kvClock + ttl \in Nat /\ kvClock + ttl > kvClock /\ v \in 0..KV_MAX_VALUE
        /\ Kv!Stored(rows) /\ Kv!Stored(entries) /\ Kv!TypeOK /\ Table = Fake
    BY TableIsFake DEF Kv!Parameters, KvInv, Kv!TypeOK
  <1>2. /\ Kv!IsLive(rows, k, kvClock) <=> k \in DOMAIN Table
        /\ Visible(Kv!Looked(k), kvClock) = Fake /\ Kv!Stored(Kv!Looked(k))
        /\ k \in DOMAIN Kv!Looked(k) <=> k \in DOMAIN Table
    BY <1>1, LookedSame, TableSame
  <1>3. CASE k \in DOMAIN Table
    <2>1. /\ rows' = rows /\ entries' = Kv!Looked(k) /\ kvClock' = kvClock
          /\ said' = [sql |-> Kv!Taken, fake |-> Kv!Taken]
      BY <1>2, <1>3 DEF Kv!SetIfAbsent, Kv!WithIfAbsent, Kv!Answer
    <2>2. Kv!TypeOK'
      BY <1>1, <1>2, <2>1 DEF Kv!TypeOK, Kv!Stored
    <2>3. Visible(rows', kvClock') = Table /\ Visible(entries', kvClock') = Fake
      BY <1>2, <2>1 DEF Table
    <2> QED BY <1>3, <2>1, <2>2, <2>3 DEF Table, Fake, Visible, Kv!LiveKeys, AnswersBoth
  <1>4. CASE k \notin DOMAIN Table
    <2>1. /\ rows' = Kv!With(rows, k, v, kvClock + ttl)
          /\ entries' = Kv!With(Kv!Looked(k), k, v, kvClock + ttl) /\ kvClock' = kvClock
          /\ said' = [sql |-> Kv!Claimed, fake |-> Kv!Claimed]
      BY <1>2, <1>4 DEF Kv!SetIfAbsent, Kv!WithIfAbsent, Kv!Answer
    <2>2. Kv!Stored(rows') /\ Kv!Stored(entries')
      BY <1>1, <1>2, <2>1, WithStored
    <2>3. Kv!TypeOK'
      BY <1>1, <2>1, <2>2 DEF Kv!TypeOK, Kv!Stored
    <2>4. /\ Visible(rows', kvClock') = Kv!With(Table, k, v, kvClock + ttl)
          /\ Visible(entries', kvClock') = Kv!With(Fake, k, v, kvClock + ttl)
      BY <1>1, <1>2, <2>1, VisibleWith DEF Table
    <2> QED BY <1>4, <2>1, <2>3, <2>4 DEF Table, Fake, Visible, Kv!LiveKeys, AnswersBoth
  <1> QED BY <1>3, <1>4

LEMMA DelSeen ==
    ASSUME Kv!Parameters, KvInv, NEW S, Kv!Del(S)
    PROVE  /\ Kv!TypeOK'
           /\ Table' = Kv!Without(Table, S) /\ Fake' = Kv!Without(Fake, S)
           /\ AnswersBoth(NoValue)
  <1>1. Kv!Stored(rows) /\ Kv!Stored(entries)
    BY DEF KvInv, Kv!TypeOK
  <1>2. /\ rows' = Kv!Without(rows, S) /\ entries' = Kv!Without(entries, S)
        /\ kvClock' = kvClock /\ said' = [sql |-> NoValue, fake |-> NoValue]
    BY DEF Kv!Del, Kv!Answer
  <1>3. Kv!Stored(rows') /\ Kv!Stored(entries')
    BY <1>1, <1>2, WithoutStored
  <1>4. Kv!TypeOK'
    BY <1>2, <1>3 DEF KvInv, Kv!TypeOK, Kv!Stored
  <1>5. /\ Visible(rows', kvClock') = Kv!Without(Table, S)
        /\ Visible(entries', kvClock') = Kv!Without(Fake, S)
    BY <1>2, VisibleWithout DEF Table, Fake
  <1> QED BY <1>2, <1>4, <1>5 DEF Table, Fake, Visible, Kv!LiveKeys, AnswersBoth

LEMMA CountSeen ==
    ASSUME Kv!Parameters, KvInv, NEW k \in KvKeys, NEW ttl \in KvLifetimes, Kv!IncrementWithTtl(k, ttl)
    PROVE  /\ Kv!TypeOK'
           /\ k \in DOMAIN Table =>
                 /\ Table[k].value \in Nat /\ Table[k].value < KV_MAX_VALUE
                 /\ Table' = Kv!With(Table, k, Table[k].value + 1, Table[k].expires)
                 /\ Fake' = Table'
                 /\ AnswersBoth(Table[k].value + 1)
           /\ k \notin DOMAIN Table =>
                 /\ Table' = Kv!With(Table, k, 1, kvClock + ttl)
                 /\ Fake' = Table'
                 /\ AnswersBoth(1)
  <1>1. /\ kvClock \in Nat /\ kvClock + ttl \in Nat /\ kvClock + ttl > kvClock /\ KV_MAX_VALUE \in Nat
        /\ Kv!Stored(rows) /\ Kv!Stored(entries) /\ Kv!TypeOK /\ Table = Fake
    BY TableIsFake DEF Kv!Parameters, KvInv, Kv!TypeOK
  <1>2. /\ Kv!IsLive(rows, k, kvClock) <=> k \in DOMAIN Table
        /\ Visible(Kv!Looked(k), kvClock) = Table /\ Kv!Stored(Kv!Looked(k))
        /\ k \in DOMAIN Kv!Looked(k) <=> k \in DOMAIN Table
        /\ k \in DOMAIN Table => rows[k] \in Row /\ rows[k] = Table[k] /\ entries[k] = Table[k]
    BY <1>1, LookedSame, TableSame
  <1>3. CASE k \in DOMAIN Table
    <2> DEFINE v == Table[k].value
               e == Table[k].expires
    <2>1. /\ rows' = Kv!With(rows, k, v + 1, e) /\ entries' = Kv!With(Kv!Looked(k), k, v + 1, e)
          /\ kvClock' = kvClock /\ said' = [sql |-> v + 1, fake |-> v + 1]
          /\ v + 1 <= KV_MAX_VALUE
      BY <1>2, <1>3 DEF Kv!IncrementWithTtl, Kv!WithOneMore, Kv!CountAfter, Kv!Answer
    <2>2. v \in Nat /\ v + 1 \in 0..KV_MAX_VALUE /\ v < KV_MAX_VALUE /\ e \in Nat /\ e > kvClock
      BY <1>1, <1>2, <1>3, <2>1 DEF Row, Kv!IsLive
    <2> HIDE DEF v, e
    <2>3. Kv!Stored(rows') /\ Kv!Stored(entries')
      BY <1>1, <1>2, <2>1, <2>2, WithStored
    <2>4. Kv!TypeOK'
      BY <1>1, <2>1, <2>3 DEF Kv!TypeOK, Kv!Stored
    <2>5. /\ Visible(rows', kvClock') = Kv!With(Table, k, v + 1, e)
          /\ Visible(entries', kvClock') = Kv!With(Table, k, v + 1, e)
      BY <1>1, <1>2, <2>1, <2>2, VisibleWith DEF Table
    <2>6. Table' = Kv!With(Table, k, v + 1, e) /\ Fake' = Kv!With(Table, k, v + 1, e)
      BY <2>5 DEF Table, Fake, Visible, Kv!LiveKeys
    <2> QED BY <1>3, <2>1, <2>2, <2>4, <2>6 DEF v, e, AnswersBoth
  <1>4. CASE k \notin DOMAIN Table
    <2>1. /\ rows' = Kv!With(rows, k, 1, kvClock + ttl) /\ entries' = Kv!With(Kv!Looked(k), k, 1, kvClock + ttl)
          /\ kvClock' = kvClock /\ said' = [sql |-> 1, fake |-> 1]
          /\ 1 <= KV_MAX_VALUE
      BY <1>2, <1>4 DEF Kv!IncrementWithTtl, Kv!WithOneMore, Kv!CountAfter, Kv!Answer
    <2>2. Kv!Stored(rows') /\ Kv!Stored(entries')
      BY <1>1, <1>2, <2>1, WithStored
    <2>3. Kv!TypeOK'
      BY <1>1, <2>1, <2>2 DEF Kv!TypeOK, Kv!Stored
    <2>4. /\ Visible(rows', kvClock') = Kv!With(Table, k, 1, kvClock + ttl)
          /\ Visible(entries', kvClock') = Kv!With(Table, k, 1, kvClock + ttl)
      BY <1>1, <1>2, <2>1, VisibleWith DEF Table
    <2>5. Table' = Kv!With(Table, k, 1, kvClock + ttl) /\ Fake' = Kv!With(Table, k, 1, kvClock + ttl)
      BY <2>4 DEF Table, Fake, Visible, Kv!LiveKeys
    <2> QED BY <1>4, <2>1, <2>3, <2>5 DEF AnswersBoth
  <1> QED BY <1>3, <1>4

LEMMA SweepSeen ==
    ASSUME Kv!Parameters, KvInv, Kv!DeleteExpired
    PROVE  /\ Kv!TypeOK'
           /\ Table' = Table /\ Fake' = Fake
           /\ AnswersBoth(NoValue)
  <1>1. Kv!Stored(rows) /\ Kv!Stored(entries) /\ kvClock \in Nat
    BY DEF KvInv, Kv!TypeOK
  <1> DEFINE gone == {k \in DOMAIN rows : rows[k].expires <= kvClock}
             dead == {k \in DOMAIN entries : ~Kv!IsLive(entries, k, kvClock)}
  <1>2. /\ rows' = Kv!Without(rows, gone) /\ entries' = Kv!Without(entries, dead)
        /\ kvClock' = kvClock /\ said' = [sql |-> NoValue, fake |-> NoValue]
    BY DEF Kv!DeleteExpired, Kv!Answer
  <1>3. (\A k \in gone : ~Kv!IsLive(rows, k, kvClock)) /\ (\A k \in dead : ~Kv!IsLive(entries, k, kvClock))
    BY <1>1 DEF Kv!IsLive, Kv!Stored
  <1> HIDE DEF gone, dead
  <1>4. Kv!Stored(rows') /\ Kv!Stored(entries')
    BY <1>1, <1>2, WithoutStored
  <1>5. Kv!TypeOK'
    BY <1>2, <1>4 DEF KvInv, Kv!TypeOK, Kv!Stored
  <1>6. Visible(rows', kvClock') = Table /\ Visible(entries', kvClock') = Fake
    BY <1>1, <1>2, <1>3, VisibleSwept DEF Table, Fake
  <1> QED BY <1>2, <1>5, <1>6 DEF Table, Fake, Visible, Kv!LiveKeys, AnswersBoth

LEMMA ElapseSeen ==
    ASSUME Kv!Parameters, KvInv, Kv!Elapse
    PROVE  /\ Kv!TypeOK'
           /\ Table' = Visible(Table, kvClock + 1) /\ Fake' = Visible(Fake, kvClock + 1)
           /\ said' = said /\ kvClock < KV_CLOCK /\ kvClock' = kvClock + 1
  <1>1. Kv!Stored(rows) /\ Kv!Stored(entries) /\ kvClock \in Nat /\ KV_CLOCK \in Nat
    BY DEF KvInv, Kv!TypeOK, Kv!Parameters
  <1>2. /\ rows' = rows /\ entries' = entries /\ said' = said
        /\ kvClock < KV_CLOCK /\ kvClock' = kvClock + 1
    BY DEF Kv!Elapse
  <1>3. Kv!TypeOK'
    BY <1>1, <1>2 DEF KvInv, Kv!TypeOK, Kv!Stored
  <1>4. /\ \A k \in DOMAIN rows : rows[k].expires \in Nat
        /\ \A k \in DOMAIN entries : entries[k].expires \in Nat
    BY <1>1 DEF Kv!Stored
  <1>5. /\ Visible(rows, kvClock + 1) = Visible(Table, kvClock + 1)
        /\ Visible(entries, kvClock + 1) = Visible(Fake, kvClock + 1)
    BY <1>1, <1>4, VisibleLater DEF Table, Fake
  <1>6. Visible(rows', kvClock') = Visible(rows, kvClock + 1) /\ Visible(entries', kvClock') = Visible(entries, kvClock + 1)
    BY <1>2
  <1> QED BY <1>2, <1>3, <1>5, <1>6 DEF Table, Fake, Visible, Kv!LiveKeys

---------------------------------------------------------------------------

LEMMA KvBegins ==
    ASSUME Kv!Parameters
    PROVE  Kv!Init => KvInv
  <1> SUFFICES ASSUME Kv!Init PROVE KvInv
    OBVIOUS
  <1>1. Kv!TypeOK
    BY DEF Kv!Parameters, Kv!Init, Kv!TypeOK, Kv!Stored, Kv!Empty
  <1>2. Kv!SameWhileLive /\ Kv!FakeAnswersAlike
    BY DEF Kv!Init, Kv!Empty, Kv!SameWhileLive, Kv!FakeAnswersAlike, Kv!IsLive
  <1> QED BY <1>1, <1>2 DEF KvInv

(* A step of the table is a step of the st that forgets on time.        *)
KvMapped == Kv!Live!Next \/ UNCHANGED Kv!Live!vars

LEMMA KvStep ==
    ASSUME Kv!Parameters, KvInv, [Kv!Next]_Kv!vars
    PROVE  KvInv' /\ KvMapped
  <1>1. Table = Fake /\ Table = [k \in Kv!LiveKeys(rows, kvClock) |-> rows[k]]
    BY TableIsFake DEF Table, Visible
  <1>2. ASSUME NEW k \in KvKeys, Kv!Get(k)
        PROVE  KvInv' /\ KvMapped
    <2>1. /\ Kv!TypeOK' /\ Table' = Table /\ Fake' = Fake
          /\ AnswersBoth(IF k \in DOMAIN Table THEN Table[k].value ELSE NoValue)
      BY <1>2, GetSeen
    <2>2. KvInv'
      BY <1>1, <2>1, FakeIsTableNext DEF AnswersBoth
    <2>3. Kv!Live!Get(k)
      BY <1>1, <2>1 DEF Kv!Live!Get, Kv!Live!Answers, Kv!Live!Has, AnswersBoth, Table, Visible
    <2> QED BY <2>2, <2>3 DEF KvMapped, Kv!Live!Next
  <1>3. ASSUME NEW k \in KvKeys, NEW ttl \in KvLifetimes, NEW v \in KvValues, Kv!Set(k, v, ttl)
        PROVE  KvInv' /\ KvMapped
    <2>1. /\ Kv!TypeOK' /\ Table' = Kv!With(Table, k, v, kvClock + ttl)
          /\ Fake' = Kv!With(Fake, k, v, kvClock + ttl) /\ AnswersBoth(NoValue)
      BY <1>3, SetSeen
    <2>2. KvInv'
      BY <1>1, <2>1, FakeIsTableNext DEF AnswersBoth
    <2>3. Kv!Live!Set(k, v, ttl)
      BY <1>1, <2>1 DEF Kv!Live!Set, Kv!Live!With, Kv!With, Kv!Live!Answers, AnswersBoth, Table, Visible
    <2> QED BY <2>2, <2>3 DEF KvMapped, Kv!Live!Next
  <1>4. ASSUME NEW k \in KvKeys, NEW ttl \in KvLifetimes, NEW v \in KvValues, Kv!SetIfAbsent(k, v, ttl)
        PROVE  KvInv' /\ KvMapped
    <2>1. /\ Kv!TypeOK'
          /\ k \in DOMAIN Table => Table' = Table /\ Fake' = Fake /\ AnswersBoth(Kv!Taken)
          /\ k \notin DOMAIN Table => /\ Table' = Kv!With(Table, k, v, kvClock + ttl)
                                      /\ Fake' = Kv!With(Fake, k, v, kvClock + ttl)
                                      /\ AnswersBoth(Kv!Claimed)
      BY <1>4, ClaimSeen
    <2>2. KvInv'
      BY <1>1, <2>1, FakeIsTableNext DEF AnswersBoth
    <2>3. Kv!Live!Claim(k, v, ttl)
      BY <1>1, <2>1 DEF Kv!Live!Claim, Kv!Live!Has, Kv!Live!With, Kv!With, Kv!Live!Answers,
         AnswersBoth, Table, Visible, Kv!Taken, Kv!Claimed
    <2> QED BY <2>2, <2>3 DEF KvMapped, Kv!Live!Next
  <1>5. ASSUME NEW k \in KvKeys, NEW ttl \in KvLifetimes, Kv!IncrementWithTtl(k, ttl)
        PROVE  KvInv' /\ KvMapped
    <2>1. /\ Kv!TypeOK'
          /\ k \in DOMAIN Table =>
                /\ Table[k].value < KV_MAX_VALUE
                /\ Table' = Kv!With(Table, k, Table[k].value + 1, Table[k].expires)
                /\ Fake' = Table' /\ AnswersBoth(Table[k].value + 1)
          /\ k \notin DOMAIN Table =>
                Table' = Kv!With(Table, k, 1, kvClock + ttl) /\ Fake' = Table' /\ AnswersBoth(1)
      BY <1>5, CountSeen
    <2>2. KvInv'
      BY <1>1, <2>1, FakeIsTableNext DEF AnswersBoth
    <2>3. Kv!Live!Count(k, ttl)
      BY <1>1, <2>1 DEF Kv!Live!Count, Kv!Live!Has, Kv!Live!With, Kv!With, Kv!Live!Answers,
         AnswersBoth, Table, Visible
    <2> QED BY <2>2, <2>3 DEF KvMapped, Kv!Live!Next
  <1>6. ASSUME NEW S, Kv!Del(S)
        PROVE  KvInv' /\ Kv!Live!Remove(S)
    <2>1. /\ Kv!TypeOK' /\ Table' = Kv!Without(Table, S) /\ Fake' = Kv!Without(Fake, S)
          /\ AnswersBoth(NoValue)
      BY <1>6, DelSeen
    <2>2. KvInv'
      BY <1>1, <2>1, FakeIsTableNext DEF AnswersBoth
    <2>3. Kv!Live!Remove(S)
      BY <1>1, <2>1 DEF Kv!Live!Remove, Kv!Live!Without, Kv!Without, Kv!Live!Answers, AnswersBoth,
         Table, Visible
    <2> QED BY <2>2, <2>3
  <1>7. ASSUME Kv!DeleteExpired
        PROVE  KvInv' /\ KvMapped
    <2>1. Kv!TypeOK' /\ Table' = Table /\ Fake' = Fake /\ AnswersBoth(NoValue)
      BY <1>7, SweepSeen
    <2>2. KvInv'
      BY <1>1, <2>1, FakeIsTableNext DEF AnswersBoth
    <2>3. Kv!Live!Tidy
      BY <1>1, <2>1 DEF Kv!Live!Tidy, Kv!Live!Answers, AnswersBoth, Table, Visible
    <2> QED BY <2>2, <2>3 DEF KvMapped, Kv!Live!Next
  <1>8. ASSUME Kv!Elapse
        PROVE  KvInv' /\ KvMapped
    <2>1. /\ Kv!TypeOK' /\ said' = said /\ kvClock < KV_CLOCK /\ kvClock' = kvClock + 1
          /\ Table' = Visible(Table, kvClock + 1) /\ Fake' = Visible(Fake, kvClock + 1)
      BY <1>8, ElapseSeen
    <2>2. KvInv'
      BY <1>1, <2>1, FakeIsTableNext DEF KvInv, Kv!FakeAnswersAlike
    <2>3. Kv!Live!Elapse
      BY <1>1, <2>1 DEF Kv!Live!Elapse, Kv!Live!LiveKeys, Kv!LiveKeys, Table, Visible
    <2> QED BY <2>2, <2>3 DEF KvMapped, Kv!Live!Next
  <1>9. CASE UNCHANGED Kv!vars
    <2>1. rows' = rows /\ entries' = entries /\ kvClock' = kvClock /\ said' = said
      BY <1>9 DEF Kv!vars
    <2>2. KvInv'
      BY <2>1 DEF KvInv, Kv!TypeOK, Kv!Stored, Kv!SameWhileLive, Kv!FakeAnswersAlike, Kv!IsLive
    <2>3. UNCHANGED Kv!Live!vars
      BY <2>1 DEF Kv!Live!vars, Kv!LiveKeys
    <2> QED BY <2>2, <2>3 DEF KvMapped
  <1> QED
    <2>1. ASSUME NEW k \in KvKeys, Kv!Del({k}) PROVE KvInv' /\ KvMapped
      BY <1>6, <2>1 DEF KvMapped, Kv!Live!Next
    <2>2. ASSUME NEW S \in KvPrefixes, Kv!DeleteByPrefix(S) PROVE KvInv' /\ KvMapped
      BY <1>6, <2>2 DEF KvMapped, Kv!Live!Next, Kv!DeleteByPrefix
    <2> QED BY <1>2, <1>3, <1>4, <1>5, <1>7, <1>8, <1>9, <2>1, <2>2 DEF Kv!Next

---------------------------------------------------------------------------
(*                              The logins                                  *)

(* What the store still shows                                              *)

(* The row of k is there, and stays in sight until e. *)
Holds(s, k, e) == k \in DOMAIN s /\ s[k].expires >= e

Dated(s) == \A k \in DOMAIN s : s[k].value \in Nat /\ s[k].expires \in Nat

LEMMA HeldIsLive ==
    ASSUME NEW s, Dated(s), NEW k, NEW e \in Nat, NEW now \in Nat, Holds(s, k, e), now < e
    PROVE  Gate!IsLive(s, k, now)
  BY DEF Holds, Dated, Gate!IsLive

LEMMA WithHolds ==
    ASSUME NEW s, NEW k, NEW v, NEW e, NEW x, NEW t
    PROVE  /\ x # k => (Holds(Gate!With(s, k, v, e), x, t) <=> Holds(s, x, t))
           /\ e >= t => Holds(Gate!With(s, k, v, e), k, t)
  BY DEF Holds, Gate!With

LEMMA WithoutHolds ==
    ASSUME NEW s, NEW S, NEW x, NEW t, x \notin S
    PROVE  Holds(Gate!Without(s, S), x, t) <=> Holds(s, x, t)
  BY DEF Holds, Gate!Without

LEMMA SweptHolds ==
    ASSUME NEW s, Dated(s), NEW now \in Nat, NEW x, NEW t \in Nat, now < t, Holds(s, x, t)
    PROVE  Holds([k \in Gate!LiveKeys(s, now) |-> s[k]], x, t)
  BY DEF Holds, Dated, Gate!LiveKeys

LEMMA WithDated ==
    ASSUME NEW s, Dated(s), NEW k, NEW v \in Nat, NEW e \in Nat
    PROVE  Dated(Gate!With(s, k, v, e))
  BY DEF Dated, Gate!With

LEMMA OneMoreDated ==
    ASSUME NEW s, Dated(s), NEW k, NEW ttl \in Nat, NEW now \in Nat
    PROVE  Dated(Gate!WithOneMore(s, k, ttl, now))
  <1> DEFINE v == Gate!CountAfter(s, k, now)
             e == IF Gate!IsLive(s, k, now) THEN s[k].expires ELSE now + ttl
  <1>1. v \in Nat /\ e \in Nat
    BY DEF Dated, Gate!CountAfter, Gate!IsLive
  <1> HIDE DEF v, e
  <1>2. Dated(Gate!With(s, k, v, e))
    BY <1>1, WithDated
  <1> QED BY <1>2 DEF Gate!WithOneMore, v, e

LEMMA OneMoreHolds ==
    ASSUME NEW s, NEW k, NEW ttl, NEW now, NEW x, NEW t, x # k
    PROVE  Holds(Gate!WithOneMore(s, k, ttl, now), x, t) <=> Holds(s, x, t)
  <1> DEFINE v == Gate!CountAfter(s, k, now)
             e == IF Gate!IsLive(s, k, now) THEN s[k].expires ELSE now + ttl
  <1> HIDE DEF v, e
  <1>1. Holds(Gate!With(s, k, v, e), x, t) <=> Holds(s, x, t)
    BY WithHolds
  <1> QED BY <1>1 DEF Gate!WithOneMore, v, e

LEMMA WithoutDated ==
    ASSUME NEW s, Dated(s), NEW S
    PROVE  Dated(Gate!Without(s, S))
  BY DEF Dated, Gate!Without

LEMMA SweptDated ==
    ASSUME NEW s, Dated(s), NEW now
    PROVE  Dated([k \in Gate!LiveKeys(s, now) |-> s[k]])
  BY DEF Dated, Gate!LiveKeys

(* The keys of one use are no keys of another. *)
LEMMA KeysDiffer ==
    ASSUME NEW c, NEW d, NEW t, NEW j
    PROVE  /\ Gate!Claim(c) \notin {Gate!PasswordFails, Gate!VerifyFails, Gate!VerifyLock, Gate!Device(d), Gate!Token(t, j)}
           /\ Gate!Token(t, j) \notin {Gate!PasswordFails, Gate!VerifyFails, Gate!VerifyLock, Gate!Device(d), Gate!Claim(c)}
           /\ Gate!Claim(c) = Gate!Claim(d) => c = d
           /\ \A u, i : Gate!Token(t, j) = Gate!Token(u, i) => t = u /\ j = i
  BY DEF Gate!Claim, Gate!PasswordFails, Gate!VerifyFails, Gate!VerifyLock, Gate!Device, Gate!Token

---------------------------------------------------------------------------
(* Which requests are where                                                *)

(* Only a login checks a password, only a second factor a code, and only a  *)
(* request with a session drops one; a code that is claimed, or about to be *)
(* saved as used, is a backup code.                                         *)
Labelled ==
    \A r \in DOMAIN plan :
        /\ at[r] \in {"password", "device"} => Gate!Kind(r) = "login"
        /\ at[r] \in {"locked", "code", "claim", "writes"} => Gate!Kind(r) \in {"verify", "disable"}
        /\ at[r] = "read" => Gate!Kind(r) \notin {"refresh", "logout"}
        /\ at[r] = "write" => Gate!Kind(r) \in {"enroll", "confirm", "password"}
        /\ at[r] \in {"guard", "drop", "old"} => Gate!Kind(r) \in {"refresh", "logout"}
        /\ at[r] = "claim" \/ (Gate!Kind(r) = "verify" /\ "save" \in left[r]) => plan[r].code \in Codes

Typed == Gate!TypeOK /\ Labelled

LEMMA PlanFacts ==
    ASSUME Gate!Parameters, Gate!TypeOK, NEW r \in DOMAIN plan
    PROVE  /\ r \in LoginRequests /\ plan[r] \in Gate!Body /\ Dated(store)
           /\ clock \in Nat /\ LOGIN_CLOCK \in Nat /\ clock <= LOGIN_CLOCK
  BY DEF Gate!Parameters, Gate!TypeOK, Dated

LEMMA LabelledStep ==
    ASSUME Gate!Parameters, Typed, NEW r \in DOMAIN plan, Gate!Step(r)
    PROVE  Labelled'
  <1>1. r \in LoginRequests /\ plan[r] \in Gate!Body /\ at \in [LoginRequests -> Gate!Labels] /\ DOMAIN plan \subseteq LoginRequests
        /\ left \in [LoginRequests -> SUBSET {"tokens", "save", "device", "unfail", "revoke"}]
    BY PlanFacts DEF Typed, Gate!TypeOK, Gate!Parameters
  <1>2. plan' = plan
    BY DEF Gate!Step, Gate!Begin, Gate!ReadUser, Gate!Fail, Gate!RightPassword, Gate!WrongPassword,
       Gate!Block, Gate!CheckDevice, Gate!CheckLock, Gate!CheckCode, Gate!ClaimCode, Gate!CountFailure,
       Gate!LockVerify, Gate!Write, Gate!IssueTokens, Gate!Written, Gate!WriteUser, Gate!StoreAccess,
       Gate!StoreRefresh, Gate!Guard, Gate!DropAccess, Gate!DropRefresh, Gate!Keeps, Gate!Accepted
  <1> DEFINE Moves(l) == at' = [at EXCEPT ![r] = l] /\ left' = left
  <1>3. ASSUME NEW l, Moves(l),
               /\ l \in {"password", "device"} => Gate!Kind(r) = "login"
               /\ l \in {"locked", "code", "claim", "writes"} => Gate!Kind(r) \in {"verify", "disable"}
               /\ l = "read" => Gate!Kind(r) \notin {"refresh", "logout"}
               /\ l = "write" => Gate!Kind(r) \in {"enroll", "confirm", "password"}
               /\ l \in {"guard", "drop", "old"} => Gate!Kind(r) \in {"refresh", "logout"}
               /\ l = "claim" => plan[r].code \in Codes
        PROVE  Labelled'
    BY <1>1, <1>2, <1>3 DEF Typed, Labelled, Gate!Kind
  <1>4. CASE Gate!Begin(r)
    <2>1. CASE Gate!Kind(r) \in {"refresh", "logout"}
      BY <1>3, <1>4, <2>1 DEF Gate!Begin, Gate!Keeps, Gate!Goto
    <2>2. CASE Gate!Kind(r) \notin {"refresh", "logout"}
      BY <1>3, <1>4, <2>2 DEF Gate!Begin, Gate!Keeps, Gate!Goto
    <2> QED BY <2>1, <2>2
  <1>5. CASE Gate!ReadUser(r)
    BY <1>1, <1>3, <1>5 DEF Gate!ReadUser, Gate!Goto, Gate!AfterRead, Gate!Kind, Gate!Body, Gate!At,
       Typed, Labelled
  <1>6. CASE Gate!Fail(r)
    BY <1>3, <1>6 DEF Gate!Fail, Gate!Goto
  <1>7. CASE Gate!RightPassword(r)
    BY <1>3, <1>7 DEF Gate!RightPassword, Gate!Goto, Typed, Labelled, Gate!At
  <1>8. CASE Gate!WrongPassword(r)
    <2>1. Moves("blocking") \/ Moves("refused")
      BY <1>8 DEF Gate!WrongPassword, Gate!Keeps, Gate!Goto
    <2> QED BY <1>3, <2>1
  <1>9. CASE Gate!Block(r)
    BY <1>3, <1>9 DEF Gate!Block, Gate!Goto
  <1>10. CASE Gate!CheckDevice(r)
    BY <1>3, <1>10 DEF Gate!CheckDevice, Gate!Goto
  <1>11. CASE Gate!CheckLock(r)
    BY <1>3, <1>11 DEF Gate!CheckLock, Gate!Keeps, Gate!Goto, Typed, Labelled, Gate!At
  <1>12. CASE Gate!CheckCode(r)
    <2>1. Gate!Kind(r) \in {"verify", "disable"}
      BY <1>12 DEF Gate!CheckCode, Typed, Labelled, Gate!At
    <2>2. CASE Gate!Accepted(r, {})
      <3>1. /\ at' = [at EXCEPT ![r] = "writes"]
            /\ left' = [left EXCEPT ![r] = {"unfail"} \cup (IF Gate!Kind(r) = "verify" THEN {"tokens", "device"}
                                                              ELSE {"save", "revoke"})]
        BY <2>2 DEF Gate!Accepted, Gate!Goto
      <3> QED BY <1>1, <1>2, <2>1, <3>1 DEF Typed, Labelled, Gate!Kind
    <2>3. CASE Gate!Keeps(r, "claim") /\ plan[r].code \in Codes
      BY <1>3, <2>1, <2>3 DEF Gate!Keeps, Gate!Goto
    <2>4. CASE Gate!Keeps(r, "failing")
      BY <1>3, <2>4 DEF Gate!Keeps, Gate!Goto
    <2> QED BY <1>12, <2>2, <2>3, <2>4 DEF Gate!CheckCode
  <1>13. CASE Gate!ClaimCode(r)
    <2>1. Gate!Kind(r) \in {"verify", "disable"} /\ plan[r].code \in Codes
      BY <1>13 DEF Gate!ClaimCode, Typed, Labelled, Gate!At
    <2>2. CASE Gate!Goto(r, "failing") /\ left' = left
      BY <1>3, <2>2 DEF Gate!Goto
    <2>3. CASE Gate!Goto(r, "writes") /\ left' = [left EXCEPT ![r] = {"tokens", "device", "unfail", "save"}]
      BY <1>1, <1>2, <2>1, <2>3 DEF Typed, Labelled, Gate!Kind, Gate!Goto
    <2> QED BY <1>13, <2>2, <2>3 DEF Gate!ClaimCode
  <1>14. CASE Gate!CountFailure(r)
    <2>1. Moves("locking") \/ Moves("refused")
      BY <1>14 DEF Gate!CountFailure, Gate!Keeps, Gate!Goto
    <2> QED BY <1>3, <2>1
  <1>15. CASE Gate!LockVerify(r)
    BY <1>3, <1>15 DEF Gate!LockVerify, Gate!Keeps, Gate!Goto
  <1>16. CASE Gate!Write(r)
    <2>1. at' = at /\ \E w : left' = [left EXCEPT ![r] = @ \ {w}]
      BY <1>16 DEF Gate!Write
    <2> QED BY <1>1, <1>2, <2>1 DEF Typed, Labelled, Gate!Kind
  <1>17. CASE Gate!IssueTokens(r)
    <2>1. at' = [at EXCEPT ![r] = "access"] /\ left' = [left EXCEPT ![r] = @ \ {"tokens"}]
      BY <1>17 DEF Gate!IssueTokens, Gate!Goto
    <2> QED BY <1>1, <1>2, <2>1 DEF Typed, Labelled, Gate!Kind
  <1>18. CASE Gate!Written(r)
    BY <1>3, <1>18 DEF Gate!Written, Gate!Keeps, Gate!Goto
  <1>19. CASE Gate!WriteUser(r)
    BY <1>3, <1>19 DEF Gate!WriteUser, Gate!Goto
  <1>20. CASE Gate!StoreAccess(r)
    <2>1. Moves("done") \/ Moves("refresh")
      BY <1>20 DEF Gate!StoreAccess, Gate!Keeps, Gate!Goto
    <2> QED BY <1>3, <2>1
  <1>21. CASE Gate!StoreRefresh(r)
    <2>1. \/ Moves("old") /\ Gate!Kind(r) = "refresh"
          \/ Moves("writes") /\ Gate!Kind(r) = "verify"
          \/ Moves("done")
      BY <1>21 DEF Gate!StoreRefresh, Gate!Keeps, Gate!Goto
    <2> QED BY <1>3, <2>1
  <1>22. CASE Gate!Guard(r)
    BY <1>3, <1>22 DEF Gate!Guard, Gate!Keeps, Gate!Goto, Typed, Labelled, Gate!At
  <1>23. CASE Gate!DropAccess(r)
    BY <1>3, <1>23 DEF Gate!DropAccess, Gate!Goto, Typed, Labelled, Gate!At
  <1>24. CASE Gate!DropRefresh(r)
    BY <1>3, <1>24 DEF Gate!DropRefresh, Gate!Keeps, Gate!Goto
  <1> QED BY <1>4, <1>5, <1>6, <1>7, <1>8, <1>9, <1>10, <1>11, <1>12, <1>13, <1>14, <1>15, <1>16,
             <1>17, <1>18, <1>19, <1>20, <1>21, <1>22, <1>23, <1>24 DEF Gate!Step

(* What a request does with each variable.                                 *)

LEMMA PcStep ==
    ASSUME NEW r, Gate!Step(r)
    PROVE  \E l \in Gate!Labels : at' = [at EXCEPT ![r] = l] \/ at' = at
  <1> USE DEF Gate!Goto, Gate!Keeps, Gate!Labels, Gate!Ends
  <1>2. CASE Gate!Begin(r) \/ Gate!ReadUser(r) \/ Gate!Fail(r)
    <2>1. Gate!AfterRead(r) \in Gate!Labels
      BY DEF Gate!AfterRead
    <2> QED BY <1>2, <2>1 DEF Gate!Begin, Gate!ReadUser, Gate!Fail
  <1>3. CASE Gate!RightPassword(r) \/ Gate!WrongPassword(r) \/ Gate!Block(r) \/ Gate!CheckDevice(r) \/ Gate!CheckLock(r)
    BY <1>3 DEF Gate!RightPassword, Gate!WrongPassword, Gate!Block, Gate!CheckDevice, Gate!CheckLock
  <1>4. CASE Gate!CheckCode(r) \/ Gate!ClaimCode(r) \/ Gate!CountFailure(r) \/ Gate!LockVerify(r) \/ Gate!Guard(r)
    BY <1>4 DEF Gate!CheckCode, Gate!Accepted, Gate!ClaimCode, Gate!CountFailure, Gate!LockVerify,
       Gate!Guard
  <1>5. CASE Gate!Write(r) \/ Gate!IssueTokens(r) \/ Gate!Written(r) \/ Gate!WriteUser(r)
    BY <1>5 DEF Gate!Write, Gate!IssueTokens, Gate!Written, Gate!WriteUser
  <1>6. CASE Gate!StoreAccess(r) \/ Gate!StoreRefresh(r) \/ Gate!DropAccess(r) \/ Gate!DropRefresh(r)
    BY <1>6 DEF Gate!StoreAccess, Gate!StoreRefresh, Gate!DropAccess, Gate!DropRefresh
  <1> QED BY <1>2, <1>3, <1>4, <1>5, <1>6 DEF Gate!Step

LEMMA UserStep ==
    ASSUME Gate!Parameters, Typed, NEW r \in DOMAIN plan, Gate!Step(r)
    PROVE  /\ user' \in Gate!UserRow
           /\ read' \in [LoginRequests -> Gate!UserRow]
  <1>1. r \in LoginRequests /\ plan[r] \in Gate!Body /\ user \in Gate!UserRow /\ read \in [LoginRequests -> Gate!UserRow]
        /\ at \in [LoginRequests -> Gate!Labels]
    BY PlanFacts DEF Typed, Gate!TypeOK
  <1>2. read' = read \/ read' = [read EXCEPT ![r] = user]
    BY DEF Gate!Step, Gate!Begin, Gate!ReadUser, Gate!Fail, Gate!RightPassword, Gate!WrongPassword,
       Gate!Block, Gate!CheckDevice, Gate!CheckLock, Gate!CheckCode, Gate!ClaimCode, Gate!CountFailure,
       Gate!LockVerify, Gate!Write, Gate!IssueTokens, Gate!Written, Gate!WriteUser, Gate!StoreAccess,
       Gate!StoreRefresh, Gate!Guard, Gate!DropAccess, Gate!DropRefresh, Gate!Keeps, Gate!Accepted
  <1>3. CASE Gate!Block(r)
    BY <1>1, <1>3 DEF Gate!Block, Gate!UserRow
  <1>4. CASE Gate!WriteUser(r)
    <2>1. plan[r].code \in Nat
      BY <1>1 DEF Gate!Body
    <2>2. Gate!Kind(r) \in {"enroll", "confirm", "password"}
      BY <1>4 DEF Gate!WriteUser, Gate!At, Typed, Labelled
    <2>3. \/ user' = [user EXCEPT !.secret = plan[r].code]
          \/ user' = [user EXCEPT !.enabled = TRUE, !.used = {}]
          \/ user' = [user EXCEPT !.password = @ + 1]
      BY <1>4, <2>2 DEF Gate!WriteUser
    <2>4. user' \in Gate!UserRow
      <3>1. CASE user' = [user EXCEPT !.secret = plan[r].code]
        BY <1>1, <2>1, <3>1 DEF Gate!UserRow
      <3>2. CASE user' = [user EXCEPT !.enabled = TRUE, !.used = {}]
        BY <1>1, <3>2 DEF Gate!UserRow
      <3>3. CASE user' = [user EXCEPT !.password = @ + 1]
        BY <1>1, <3>3 DEF Gate!UserRow
      <3> QED BY <2>3, <3>1, <3>2, <3>3
    <2> QED BY <1>1, <1>2, <2>4
  <1>5. CASE Gate!Write(r)
    <2>1. user' = user \/ (user' = Gate!Saved(r) /\ "save" \in left[r])
      BY <1>5 DEF Gate!Write
    <2>2. ASSUME "save" \in left[r] PROVE Gate!Saved(r) \in Gate!UserRow
      <3>1. CASE Gate!Kind(r) = "verify"
        <4>1. read[r].used \cup {plan[r].code} \in SUBSET Codes
          BY <1>1, <2>2, <3>1 DEF Typed, Labelled, Gate!UserRow
        <4> QED BY <1>1, <3>1, <4>1 DEF Gate!Saved, Gate!UserRow
      <3>2. CASE Gate!Kind(r) # "verify"
        BY <1>1, <3>2 DEF Gate!Saved, Gate!UserRow
      <3> QED BY <3>1, <3>2
    <2>3. user' \in Gate!UserRow
      BY <1>1, <2>1, <2>2
    <2> QED BY <1>1, <1>2, <2>3
  <1>6. CASE ~(Gate!Block(r) \/ Gate!WriteUser(r) \/ Gate!Write(r))
    <2>1. user' = user
      BY <1>6 DEF Gate!Step, Gate!Begin, Gate!ReadUser, Gate!Fail, Gate!RightPassword,
         Gate!WrongPassword, Gate!CheckDevice, Gate!CheckLock, Gate!CheckCode, Gate!ClaimCode,
         Gate!CountFailure, Gate!LockVerify, Gate!IssueTokens, Gate!Written, Gate!StoreAccess,
         Gate!StoreRefresh, Gate!Guard, Gate!DropAccess, Gate!DropRefresh, Gate!Keeps, Gate!Accepted
    <2> QED BY <1>1, <1>2, <2>1
  <1> QED BY <1>3, <1>4, <1>5, <1>6

LEMMA StoreStep ==
    ASSUME Gate!Parameters, Typed, NEW r \in DOMAIN plan, Gate!Step(r)
    PROVE  Dated(store')
  <1>1. /\ Dated(store) /\ clock \in Nat
        /\ {PASSWORD_TTL, VERIFY_TTL, CLAIM_TTL, DEVICE_TTL, ACCESS_TTL, REFRESH_TTL} \subseteq Nat
    BY PlanFacts DEF Typed, Gate!Parameters
  <1>2. CASE Gate!Begin(r)
    BY <1>1, <1>2, SweptDated DEF Gate!Begin
  <1>3. CASE Gate!WrongPassword(r) \/ Gate!CountFailure(r)
    BY <1>1, <1>3, OneMoreDated DEF Gate!WrongPassword, Gate!CountFailure
  <1>4. CASE Gate!ClaimCode(r)
    BY <1>1, <1>4, WithDated DEF Gate!ClaimCode, Gate!WithIfAbsent
  <1>5. CASE Gate!LockVerify(r) \/ Gate!StoreAccess(r) \/ Gate!StoreRefresh(r)
    BY <1>1, <1>5, WithDated DEF Gate!LockVerify, Gate!StoreAccess, Gate!StoreRefresh
  <1>6. CASE Gate!Write(r)
    <2> PICK w \in left[r] \ {"tokens"} :
              store' = CASE w = "device" -> Gate!With(store, Gate!Device(r), 1, clock + DEVICE_TTL)
                         [] w = "unfail" -> Gate!Without(store, {Gate!VerifyFails})
                         [] w = "revoke" -> Gate!Without(store, {Gate!Device(d) : d \in LoginRequests})
                         [] w = "save"   -> store
      BY <1>6 DEF Gate!Write
    <2>1. w \in {"device", "unfail", "revoke", "save"}
      BY PlanFacts DEF Typed, Gate!TypeOK
    <2> QED BY <1>1, <2>1, WithDated, WithoutDated
  <1>7. CASE Gate!DropAccess(r) \/ Gate!DropRefresh(r)
    BY <1>1, <1>7, WithoutDated DEF Gate!DropAccess, Gate!DropRefresh
  <1>8. CASE \/ Gate!ReadUser(r) \/ Gate!Fail(r) \/ Gate!RightPassword(r) \/ Gate!Block(r) \/ Gate!CheckDevice(r) \/ Gate!CheckLock(r)
             \/ Gate!CheckCode(r) \/ Gate!IssueTokens(r) \/ Gate!Written(r) \/ Gate!WriteUser(r) \/ Gate!Guard(r)
    BY <1>1, <1>8 DEF Gate!ReadUser, Gate!Fail, Gate!RightPassword, Gate!Block, Gate!CheckDevice,
       Gate!CheckLock, Gate!CheckCode, Gate!IssueTokens, Gate!Written, Gate!WriteUser, Gate!Guard,
       Gate!Accepted
  <1> QED BY <1>2, <1>3, <1>4, <1>5, <1>6, <1>7, <1>8 DEF Gate!Step

LEMMA TodoStep ==
    ASSUME Gate!Parameters, Typed, NEW r \in DOMAIN plan, Gate!Step(r)
    PROVE  left' \in [LoginRequests -> SUBSET {"tokens", "save", "device", "unfail", "revoke"}]
  <1>1. r \in LoginRequests /\ left \in [LoginRequests -> SUBSET {"tokens", "save", "device", "unfail", "revoke"}]
    BY PlanFacts DEF Typed, Gate!TypeOK
  <1>2. \E S \in SUBSET {"tokens", "save", "device", "unfail", "revoke"} :
           left' = [left EXCEPT ![r] = S] \/ left' = left
    <2>1. CASE Gate!CheckCode(r)
      <3>1. left' = left \/ left' = [left EXCEPT ![r] = {"unfail", "tokens", "device"}]
                         \/ left' = [left EXCEPT ![r] = {"unfail", "save", "revoke"}]
        <4>1. {"unfail"} \cup {"tokens", "device"} = {"unfail", "tokens", "device"}
              /\ {"unfail"} \cup {"save", "revoke"} = {"unfail", "save", "revoke"}
          OBVIOUS
        <4>2. \/ left' = left \/ left' = [left EXCEPT ![r] = {"unfail"} \cup {"tokens", "device"}]
              \/ left' = [left EXCEPT ![r] = {"unfail"} \cup {"save", "revoke"}]
          <5>1. CASE Gate!Accepted(r, {})
            <6>1. left' = [left EXCEPT ![r] = {} \cup {"unfail"} \cup
                    (IF Gate!Kind(r) = "verify" THEN {"tokens", "device"} ELSE {"save", "revoke"})]
              BY <5>1 DEF Gate!Accepted
            <6>2. {} \cup {"unfail"} = {"unfail"}
              OBVIOUS
            <6> QED BY <6>1, <6>2
          <5> QED BY <2>1, <5>1 DEF Gate!CheckCode, Gate!Keeps
        <4> QED BY <4>1, <4>2
      <3> QED BY <3>1
    <2>2. CASE Gate!Write(r) \/ Gate!IssueTokens(r) \/ Gate!ClaimCode(r)
      BY <1>1, <2>2 DEF Gate!Write, Gate!IssueTokens, Gate!ClaimCode
    <2>3. CASE ~(Gate!CheckCode(r) \/ Gate!Write(r) \/ Gate!IssueTokens(r) \/ Gate!ClaimCode(r))
      BY <2>3 DEF Gate!Step, Gate!Begin, Gate!ReadUser, Gate!Fail, Gate!RightPassword,
         Gate!WrongPassword, Gate!Block, Gate!CheckDevice, Gate!CheckLock, Gate!CountFailure,
         Gate!LockVerify, Gate!Written, Gate!WriteUser, Gate!StoreAccess, Gate!StoreRefresh,
         Gate!Guard, Gate!DropAccess, Gate!DropRefresh, Gate!Keeps
    <2> QED BY <2>1, <2>2, <2>3
  <1> QED BY <1>1, <1>2

LEMMA GhostStep ==
    ASSUME Gate!Parameters, Typed, NEW r \in DOMAIN plan, Gate!Step(r)
    PROVE  /\ given' \in [LoginRequests -> {NoSession} \cup Gate!Session]
           /\ redeemed' \in [Codes -> Seq(0..LOGIN_CLOCK)]
           /\ ended' \subseteq 0..LOGIN_CLOCK
           /\ clock' = clock /\ plan' = plan /\ renew' = renew
  <1>1. /\ r \in LoginRequests /\ plan[r] \in Gate!Body /\ given \in [LoginRequests -> {NoSession} \cup Gate!Session]
        /\ redeemed \in [Codes -> Seq(0..LOGIN_CLOCK)] /\ ended \subseteq 0..LOGIN_CLOCK
        /\ clock \in 0..LOGIN_CLOCK /\ plan[r].jti \in 0..LOGIN_CLOCK
    BY PlanFacts DEF Typed, Gate!TypeOK, Gate!Body
  <1>2. clock' = clock /\ plan' = plan /\ renew' = renew
    BY DEF Gate!Step, Gate!Begin, Gate!ReadUser, Gate!Fail, Gate!RightPassword, Gate!WrongPassword,
       Gate!Block, Gate!CheckDevice, Gate!CheckLock, Gate!CheckCode, Gate!ClaimCode, Gate!CountFailure,
       Gate!LockVerify, Gate!Write, Gate!IssueTokens, Gate!Written, Gate!WriteUser, Gate!StoreAccess,
       Gate!StoreRefresh, Gate!Guard, Gate!DropAccess, Gate!DropRefresh, Gate!Keeps, Gate!Accepted
  <1>3. ended' = ended \/ ended' = ended \cup {plan[r].jti}
    BY DEF Gate!Step, Gate!Begin, Gate!ReadUser, Gate!Fail, Gate!RightPassword, Gate!WrongPassword,
       Gate!Block, Gate!CheckDevice, Gate!CheckLock, Gate!CheckCode, Gate!ClaimCode, Gate!CountFailure,
       Gate!LockVerify, Gate!Write, Gate!IssueTokens, Gate!Written, Gate!WriteUser, Gate!StoreAccess,
       Gate!StoreRefresh, Gate!Guard, Gate!DropAccess, Gate!DropRefresh, Gate!Keeps, Gate!Accepted,
       Gate!ghosts
  <1>4. \/ redeemed' = redeemed
        \/ \E c \in Codes : redeemed' = [redeemed EXCEPT ![c] = Append(@, clock)]
    <2>1. CASE Gate!ClaimCode(r)
      BY <2>1 DEF Gate!ClaimCode, Typed, Labelled, Gate!At
    <2> QED BY <2>1 DEF Gate!Step, Gate!Begin, Gate!ReadUser, Gate!Fail, Gate!RightPassword,
               Gate!WrongPassword, Gate!Block, Gate!CheckDevice, Gate!CheckLock, Gate!CheckCode,
               Gate!CountFailure, Gate!LockVerify, Gate!Write, Gate!IssueTokens, Gate!Written,
               Gate!WriteUser, Gate!StoreAccess, Gate!StoreRefresh, Gate!Guard, Gate!DropAccess,
               Gate!DropRefresh, Gate!Keeps, Gate!Accepted, Gate!ghosts
  <1>5. redeemed' \in [Codes -> Seq(0..LOGIN_CLOCK)]
    <2>1. \A c \in Codes : Append(redeemed[c], clock) \in Seq(0..LOGIN_CLOCK)
      BY <1>1
    <2> QED BY <1>1, <1>4, <2>1
  <1>6. given' = given \/ \E s \in Gate!Session : given' = [given EXCEPT ![r] = s]
    <2>1. CASE Gate!RightPassword(r) \/ Gate!CheckDevice(r) \/ Gate!IssueTokens(r)
      BY <1>1, <2>1 DEF Gate!RightPassword, Gate!CheckDevice, Gate!IssueTokens, Gate!NewSession,
         Gate!Session
    <2>2. CASE Gate!DropAccess(r)
      <3>1. \/ given' = given
            \/ given' = [given EXCEPT ![r] = [jti |-> IF renew THEN clock ELSE plan[r].jti, at |-> clock]]
        BY <2>2 DEF Gate!DropAccess
      <3>2. [jti |-> IF renew THEN clock ELSE plan[r].jti, at |-> clock] \in Gate!Session
        BY <1>1 DEF Gate!Session
      <3> QED BY <3>1, <3>2
    <2> QED BY <2>1, <2>2 DEF Gate!Step, Gate!Begin, Gate!ReadUser, Gate!Fail, Gate!WrongPassword,
               Gate!Block, Gate!CheckLock, Gate!CheckCode, Gate!ClaimCode, Gate!CountFailure,
               Gate!LockVerify, Gate!Write, Gate!Written, Gate!WriteUser, Gate!StoreAccess,
               Gate!StoreRefresh, Gate!Guard, Gate!DropRefresh, Gate!Keeps, Gate!Accepted
  <1>7. given' \in [LoginRequests -> {NoSession} \cup Gate!Session]
    BY <1>1, <1>6
  <1> QED BY <1>1, <1>2, <1>3, <1>5, <1>7

LEMMA TypedStep ==
    ASSUME Gate!Parameters, Typed, [Gate!Next]_Gate!vars
    PROVE  Typed'
  <1>1. ASSUME NEW r \in DOMAIN plan, Gate!Step(r) PROVE Typed'
    <2>1. Labelled' /\ Dated(store')
      BY <1>1, LabelledStep, StoreStep
    <2>2. user' \in Gate!UserRow /\ read' \in [LoginRequests -> Gate!UserRow]
      BY <1>1, UserStep
    <2>3. left' \in [LoginRequests -> SUBSET {"tokens", "save", "device", "unfail", "revoke"}]
      BY <1>1, TodoStep
    <2>4. /\ given' \in [LoginRequests -> {NoSession} \cup Gate!Session]
          /\ redeemed' \in [Codes -> Seq(0..LOGIN_CLOCK)]
          /\ ended' \subseteq 0..LOGIN_CLOCK
          /\ clock' = clock /\ plan' = plan /\ renew' = renew
      BY <1>1, GhostStep
    <2>5. at' \in [LoginRequests -> Gate!Labels]
      <3>1. \E l \in Gate!Labels : at' = [at EXCEPT ![r] = l] \/ at' = at
        BY <1>1, PcStep
      <3> QED BY <3>1 DEF Typed, Gate!TypeOK
    <2>6. plan \in LoginPlans /\ renew \in RENEW /\ clock \in 0..LOGIN_CLOCK
      BY DEF Typed, Gate!TypeOK
    <2> QED BY <2>1, <2>2, <2>3, <2>4, <2>5, <2>6 DEF Typed, Gate!TypeOK, Dated
  <1>2. CASE Gate!Elapse
    <2>1. clock' \in 0..LOGIN_CLOCK
      BY <1>2 DEF Gate!Elapse, Typed, Gate!TypeOK, Gate!Parameters
    <2>2. UNCHANGED <<Gate!requestVars, user, store, Gate!ghosts>>
      BY <1>2 DEF Gate!Elapse
    <2> QED BY <2>1, <2>2 DEF Typed, Gate!TypeOK, Labelled, Gate!Kind, Gate!requestVars, Gate!ghosts
  <1>3. CASE UNCHANGED Gate!vars
    BY <1>3 DEF Gate!vars, Gate!requestVars, Gate!ghosts, Typed, Gate!TypeOK, Labelled, Gate!Kind
  <1> QED BY <1>1, <1>2, <1>3 DEF Gate!Next

---------------------------------------------------------------------------
(* What stays in the store                                                 *)

(* A row that is not over survives every step but the one that is about it. *)
LEMMA RowKept ==
    ASSUME Gate!Parameters, Typed, NEW r \in DOMAIN plan, Gate!Step(r),
           NEW k, k \notin {Gate!PasswordFails, Gate!VerifyFails, Gate!VerifyLock}, \A d : k # Gate!Device(d),
           NEW t \in Nat, clock < t, Holds(store, k, t)
    PROVE  \/ Holds(store', k, t)
           \/ Gate!ClaimCode(r) /\ k = Gate!Claim(plan[r].code)
           \/ Gate!StoreAccess(r) /\ k = Gate!Token("access", given[r].jti)
           \/ Gate!StoreRefresh(r) /\ k = Gate!Token("refresh", given[r].jti)
           \/ Gate!DropAccess(r) /\ k = Gate!Token("access", plan[r].jti)
           \/ Gate!DropRefresh(r) /\ k = Gate!Token("refresh", plan[r].jti)
  <1>1. Dated(store) /\ clock \in Nat
    BY PlanFacts DEF Typed
  <1>2. CASE Gate!Begin(r)
    BY <1>1, <1>2, SweptHolds DEF Gate!Begin
  <1>3. CASE Gate!WrongPassword(r) \/ Gate!CountFailure(r)
    <2>1. \/ store' = Gate!WithOneMore(store, Gate!PasswordFails, PASSWORD_TTL, clock)
          \/ store' = Gate!WithOneMore(store, Gate!VerifyFails, VERIFY_TTL, clock)
      BY <1>3 DEF Gate!WrongPassword, Gate!CountFailure
    <2> QED BY <2>1, OneMoreHolds
  <1>4. CASE Gate!ClaimCode(r)
    <2>1. store' = store \/ store' = Gate!With(store, Gate!Claim(plan[r].code), 1, clock + CLAIM_TTL)
      BY <1>4 DEF Gate!ClaimCode, Gate!WithIfAbsent
    <2> QED BY <1>4, <2>1, WithHolds
  <1>5. CASE Gate!LockVerify(r) \/ Gate!StoreAccess(r) \/ Gate!StoreRefresh(r)
    <2>1. \/ store' = Gate!With(store, Gate!VerifyLock, 1, clock + VERIFY_TTL)
          \/ Gate!StoreAccess(r) /\ store' = Gate!With(store, Gate!Token("access", given[r].jti), 1, clock + ACCESS_TTL)
          \/ Gate!StoreRefresh(r) /\ store' = Gate!With(store, Gate!Token("refresh", given[r].jti), 1, clock + REFRESH_TTL)
      BY <1>5 DEF Gate!LockVerify, Gate!StoreAccess, Gate!StoreRefresh
    <2> QED BY <2>1, WithHolds
  <1>6. CASE Gate!Write(r)
    <2> PICK w \in left[r] \ {"tokens"} :
              store' = CASE w = "device" -> Gate!With(store, Gate!Device(r), 1, clock + DEVICE_TTL)
                         [] w = "unfail" -> Gate!Without(store, {Gate!VerifyFails})
                         [] w = "revoke" -> Gate!Without(store, {Gate!Device(d) : d \in LoginRequests})
                         [] w = "save"   -> store
      BY <1>6 DEF Gate!Write
    <2>1. w \in {"device", "unfail", "revoke", "save"}
      BY PlanFacts DEF Typed, Gate!TypeOK
    <2>2. k \notin {Gate!VerifyFails} /\ k \notin {Gate!Device(d) : d \in LoginRequests}
      OBVIOUS
    <2>3. /\ Holds(Gate!With(store, Gate!Device(r), 1, clock + DEVICE_TTL), k, t)
          /\ Holds(Gate!Without(store, {Gate!VerifyFails}), k, t)
          /\ Holds(Gate!Without(store, {Gate!Device(d) : d \in LoginRequests}), k, t)
      BY <2>2, WithHolds, WithoutHolds
    <2> QED BY <2>1, <2>3
  <1>7. CASE Gate!DropAccess(r) \/ Gate!DropRefresh(r)
    <2>1. \/ Gate!DropAccess(r) /\ store' = Gate!Without(store, {Gate!Token("access", plan[r].jti)})
          \/ Gate!DropRefresh(r) /\ store' = Gate!Without(store, {Gate!Token("refresh", plan[r].jti)})
      BY <1>7 DEF Gate!DropAccess, Gate!DropRefresh, Gate!Replaced
    <2> QED BY <2>1, WithoutHolds
  <1>8. CASE \/ Gate!ReadUser(r) \/ Gate!Fail(r) \/ Gate!RightPassword(r) \/ Gate!Block(r) \/ Gate!CheckDevice(r) \/ Gate!CheckLock(r)
             \/ Gate!CheckCode(r) \/ Gate!IssueTokens(r) \/ Gate!Written(r) \/ Gate!WriteUser(r) \/ Gate!Guard(r)
    <2>1. store' = store
      BY <1>8 DEF Gate!ReadUser, Gate!Fail, Gate!RightPassword, Gate!Block, Gate!CheckDevice,
         Gate!CheckLock, Gate!CheckCode, Gate!IssueTokens, Gate!Written, Gate!WriteUser, Gate!Guard,
         Gate!Accepted
    <2> QED BY <2>1
  <1> QED BY <1>2, <1>3, <1>4, <1>5, <1>6, <1>7, <1>8 DEF Gate!Step

---------------------------------------------------------------------------
(* Backup codes                                                            *)

(* While the claim of the request that redeemed a code last has not ended,  *)
(* it is in the store.                                                      *)
LastClaimHolds(s, c, st, now) ==
    s # <<>> => /\ s[Len(s)] <= now
                /\ now < s[Len(s)] + CLAIM_TTL => Holds(st, Gate!Claim(c), s[Len(s)] + CLAIM_TTL)

Apart(s) == \A i \in 2..Len(s) : s[i] - s[i - 1] >= CLAIM_TTL

Claimed == \A c \in Codes : LastClaimHolds(redeemed[c], c, store, clock)

LEMMA AppendedApart ==
    ASSUME CLAIM_TTL \in Nat, NEW s \in Seq(Nat), Apart(s), NEW now \in Nat,
           s # <<>> => now >= s[Len(s)] + CLAIM_TTL
    PROVE  Apart(Append(s, now))
  <1> SUFFICES ASSUME NEW i \in 2..Len(Append(s, now))
               PROVE  Append(s, now)[i] - Append(s, now)[i - 1] >= CLAIM_TTL
    BY DEF Apart
  <1>1. /\ Len(s) \in Nat /\ Len(Append(s, now)) = Len(s) + 1
        /\ Append(s, now)[Len(s) + 1] = now
        /\ \A j \in 1..Len(s) : Append(s, now)[j] = s[j] /\ s[j] \in Nat
    OBVIOUS
  <1>2. CASE i <= Len(s)
    BY <1>1, <1>2 DEF Apart
  <1>3. CASE i = Len(s) + 1
    <2>1. s # <<>> /\ i - 1 = Len(s) /\ Len(s) \in 1..Len(s)
      BY <1>1, <1>3
    <2> QED BY <1>1, <1>3, <2>1
  <1> QED BY <1>1, <1>2, <1>3

LEMMA ClaimStep ==
    ASSUME Gate!Parameters, Typed, Claimed, Gate!CodeRedeemedOnce, NEW r \in DOMAIN plan, Gate!Step(r)
    PROVE  Claimed' /\ Gate!CodeRedeemedOnce'
  <1>1. /\ Dated(store) /\ clock \in Nat /\ CLAIM_TTL \in Nat /\ clock' = clock
        /\ redeemed \in [Codes -> Seq(Nat)]
    <2>1. redeemed \in [Codes -> Seq(0..LOGIN_CLOCK)] /\ LOGIN_CLOCK \in Nat
      BY DEF Typed, Gate!TypeOK, Gate!Parameters
    <2>2. \A c \in Codes : redeemed[c] \in Seq(Nat)
      <3> TAKE c \in Codes
      <3>1. redeemed[c] \in Seq(0..LOGIN_CLOCK)
        BY <2>1
      <3>2. Len(redeemed[c]) \in Nat /\ redeemed[c] \in [1..Len(redeemed[c]) -> 0..LOGIN_CLOCK]
        BY <3>1, LenProperties
      <3>3. redeemed[c] \in [1..Len(redeemed[c]) -> Nat]
        BY <2>1, <3>2
      <3> QED BY <3>2, <3>3, SeqDef
    <2> QED BY <2>1, <2>2, PlanFacts, GhostStep DEF Typed, Gate!Parameters
  <1> DEFINE Safe(c) == LastClaimHolds(redeemed'[c], c, store', clock) /\ Apart(redeemed'[c])
  <1>2. ASSUME NEW c \in Codes, redeemed'[c] = redeemed[c], Gate!ClaimCode(r) => c # plan[r].code \/ store' = store
        PROVE  Safe(c)
    <2> DEFINE s == redeemed[c]
               t == s[Len(s)]
    <2>1. LastClaimHolds(s, c, store, clock) /\ Apart(s) /\ s \in Seq(Nat)
      BY <1>1 DEF Claimed, Gate!CodeRedeemedOnce, Apart
    <2>2. s # <<>> => t \in Nat
      BY <2>1
    <2>3. s # <<>> => t <= clock /\ (clock < t + CLAIM_TTL => Holds(store, Gate!Claim(c), t + CLAIM_TTL))
      BY <2>1 DEF LastClaimHolds
    <2> HIDE DEF t
    <2>4. s # <<>> /\ clock < t + CLAIM_TTL => Holds(store', Gate!Claim(c), t + CLAIM_TTL)
      <3>1. CASE store' = store
        BY <2>3, <3>1
      <3>2. CASE store' # store
        <4>1. /\ Gate!Claim(c) \notin {Gate!PasswordFails, Gate!VerifyFails, Gate!VerifyLock} /\ \A d : Gate!Claim(c) # Gate!Device(d)
              /\ \A a, j : Gate!Claim(c) # Gate!Token(a, j)
              /\ \A d : Gate!Claim(c) = Gate!Claim(d) => c = d
          BY KeysDiffer
        <4> QED BY <1>1, <1>2, <2>2, <2>3, <3>2, <4>1, RowKept
      <3> QED BY <3>1, <3>2
    <2>5. LastClaimHolds(s, c, store', clock)
      BY <2>3, <2>4 DEF LastClaimHolds, t
    <2> QED BY <1>2, <2>1, <2>5
  <1>3. CASE Gate!ClaimCode(r)
    <2> DEFINE c == plan[r].code
               s == redeemed[c]
    <2>1. c \in Codes
      BY <1>3 DEF Gate!ClaimCode, Typed, Labelled, Gate!At
    <2>2. CASE Gate!Wins(c)
      <3>1. /\ redeemed' = [redeemed EXCEPT ![c] = Append(@, clock)]
            /\ store' = Gate!With(store, Gate!Claim(c), 1, clock + CLAIM_TTL)
        BY <1>3, <2>2 DEF Gate!ClaimCode, Gate!Wins, Gate!WithIfAbsent
      <3>2. LastClaimHolds(s, c, store, clock) /\ Apart(s) /\ s \in Seq(Nat)
        BY <1>1, <2>1 DEF Claimed, Gate!CodeRedeemedOnce, Apart
      <3>3. s # <<>> => clock >= s[Len(s)] + CLAIM_TTL
        <4> HAVE s # <<>>
        <4>1. s[Len(s)] \in Nat
          BY <3>2
        <4>2. clock < s[Len(s)] + CLAIM_TTL => Holds(store, Gate!Claim(c), s[Len(s)] + CLAIM_TTL)
          BY <3>2 DEF LastClaimHolds
        <4>3. ~Gate!IsLive(store, Gate!Claim(c), clock)
          BY <2>2 DEF Gate!Wins
        <4> QED BY <1>1, <4>1, <4>2, <4>3, HeldIsLive
      <3>4. redeemed'[c] = Append(s, clock)
        BY <1>1, <2>1, <3>1
      <3>5. Apart(redeemed'[c])
        BY <1>1, <3>2, <3>3, <3>4, AppendedApart
      <3>6. Holds(store', Gate!Claim(c), clock + CLAIM_TTL)
        BY <1>1, <3>1, WithHolds
      <3>7. LastClaimHolds(redeemed'[c], c, store', clock)
        <4>1. Len(Append(s, clock)) = Len(s) + 1 /\ Append(s, clock)[Len(s) + 1] = clock
          BY <3>2
        <4>2. redeemed'[c][Len(redeemed'[c])] = clock
          BY <3>4, <4>1
        <4> QED BY <1>1, <3>6, <4>2 DEF LastClaimHolds
      <3>8. \A d \in Codes : d # c => Safe(d)
        <4> SUFFICES ASSUME NEW d \in Codes, d # c PROVE Safe(d)
          OBVIOUS
        <4>1. redeemed'[d] = redeemed[d]
          BY <1>1, <3>1
        <4> QED BY <1>2, <4>1
      <3>9. \A d \in Codes : Safe(d)
        BY <3>5, <3>7, <3>8
      <3> QED BY <1>1, <3>9 DEF Claimed, Gate!CodeRedeemedOnce, Apart
    <2>3. CASE ~Gate!Wins(c)
      <3>1. redeemed' = redeemed /\ store' = store
        BY <1>3, <2>3 DEF Gate!ClaimCode, Gate!Wins, Gate!WithIfAbsent
      <3>2. \A d \in Codes : Safe(d)
        BY <1>2, <3>1
      <3> QED BY <1>1, <3>2 DEF Claimed, Gate!CodeRedeemedOnce, Apart
    <2> QED BY <2>2, <2>3
  <1>4. CASE ~Gate!ClaimCode(r)
    <2>1. redeemed' = redeemed
      BY <1>4 DEF Gate!Step, Gate!Begin, Gate!ReadUser, Gate!Fail, Gate!RightPassword,
         Gate!WrongPassword, Gate!Block, Gate!CheckDevice, Gate!CheckLock, Gate!CheckCode,
         Gate!CountFailure, Gate!LockVerify, Gate!Write, Gate!IssueTokens, Gate!Written,
         Gate!WriteUser, Gate!StoreAccess, Gate!StoreRefresh, Gate!Guard, Gate!DropAccess,
         Gate!DropRefresh, Gate!Keeps, Gate!Accepted, Gate!ghosts
    <2>2. \A d \in Codes : Safe(d)
      BY <1>2, <1>4, <2>1
    <2> QED BY <1>1, <2>2 DEF Claimed, Gate!CodeRedeemedOnce, Apart
  <1> QED BY <1>3, <1>4

---------------------------------------------------------------------------
(* Sessions                                                                *)

Issued(r) == given[r] # NoSession

(* A refresh that keeps its session has taken the access token away and has *)
(* not put it back.                                                        *)
IsOut(r) == Gate!Kind(r) = "refresh" /\ at[r] = "access" /\ ~renew
Hole(j) == \E q \in DOMAIN plan : IsOut(q) /\ plan[q].jti = j

(* About to delete, or with a half of it deleted, the session it was called *)
(* with.                                                                   *)
IsEnding(r) ==
    \/ at[r] = "old"
    \/ Gate!Kind(r) = "refresh" /\ at[r] = "refresh"
    \/ Gate!Kind(r) = "refresh" /\ at[r] = "access" /\ renew

AccessKept(r) ==
    LET s == given[r] IN
    /\ Issued(r) /\ at[r] \in {"refresh", "old", "writes", "done"}
    /\ s.jti \notin ended /\ ~Hole(s.jti) /\ clock < s.at + ACCESS_TTL
    => Holds(store, Gate!Token("access", s.jti), s.at + ACCESS_TTL)

RefreshKept(r) ==
    LET s == given[r] IN
    /\ Issued(r) /\ at[r] \in {"old", "writes", "done"} /\ (Gate!Kind(r) = "refresh" => renew)
    /\ s.jti \notin ended /\ clock < s.at + REFRESH_TTL
    => Holds(store, Gate!Token("refresh", s.jti), s.at + REFRESH_TTL)

Sessions ==
    \A r \in DOMAIN plan :
        /\ Issued(r) => /\ given[r].at <= clock
                        /\ at[r] \in {"access", "refresh", "old", "writes", "done", "failed"}
        /\ IsOut(r) => Issued(r) /\ given[r].jti = plan[r].jti
        /\ IsEnding(r) => plan[r].jti \in ended
        /\ AccessKept(r)
        /\ RefreshKept(r)

(* Where a request goes from where it is, as far as sessions see it.        *)
LEMMA WhereToGo ==
    ASSUME NEW r, Gate!Step(r)
    PROVE  /\ at[r] \notin {"done", "refused", "failed"}
           /\ at[r] = "access" => Gate!StoreAccess(r) \/ Gate!Fail(r)
           /\ at[r] = "refresh" => Gate!StoreRefresh(r) \/ Gate!Fail(r)
           /\ at[r] = "old" => Gate!DropRefresh(r) \/ Gate!Fail(r)
           /\ at[r] = "writes" => Gate!Write(r) \/ Gate!IssueTokens(r) \/ Gate!Written(r) \/ Gate!Fail(r)
           /\ Gate!DropAccess(r) => at[r] = "drop"
  BY DEF Gate!Step, Gate!Begin, Gate!ReadUser, Gate!Fail, Gate!RightPassword, Gate!WrongPassword,
     Gate!Block, Gate!CheckDevice, Gate!CheckLock, Gate!CheckCode, Gate!ClaimCode, Gate!CountFailure,
     Gate!LockVerify, Gate!Write, Gate!IssueTokens, Gate!Written, Gate!WriteUser, Gate!StoreAccess,
     Gate!StoreRefresh, Gate!Guard, Gate!DropAccess, Gate!DropRefresh, Gate!At, Gate!IsRunning,
     Gate!Ends

(* A session that is handed out makes its request store the tokens next. *)
LEMMA SessionGiven ==
    ASSUME Gate!Parameters, Typed, NEW r \in DOMAIN plan, Gate!Step(r)
    PROVE  \/ given' = given
           \/ /\ at' = [at EXCEPT ![r] = "access"]
              /\ \E s \in Gate!Session : given' = [given EXCEPT ![r] = s] /\ s.at = clock
              /\ Gate!Kind(r) = "refresh" => Gate!DropAccess(r)
  <1>1. clock \in 0..LOGIN_CLOCK /\ plan[r].jti \in 0..LOGIN_CLOCK
    BY PlanFacts DEF Typed, Gate!TypeOK, Gate!Body
  <1>2. CASE Gate!RightPassword(r) \/ Gate!CheckDevice(r) \/ Gate!IssueTokens(r)
    <2>1. Gate!Kind(r) # "refresh"
      BY <1>2 DEF Gate!RightPassword, Gate!CheckDevice, Gate!IssueTokens, Gate!At, Typed, Labelled
    <2>2. [jti |-> clock, at |-> clock] \in Gate!Session /\ [jti |-> clock, at |-> clock].at = clock
      BY <1>1 DEF Gate!Session
    <2>3. \/ given' = given
          \/ at' = [at EXCEPT ![r] = "access"] /\ given' = [given EXCEPT ![r] = [jti |-> clock, at |-> clock]]
      BY <1>2 DEF Gate!RightPassword, Gate!CheckDevice, Gate!IssueTokens, Gate!NewSession, Gate!Goto
    <2> QED BY <2>1, <2>2, <2>3
  <1>3. CASE Gate!DropAccess(r)
    <2> DEFINE s == [jti |-> IF renew THEN clock ELSE plan[r].jti, at |-> clock]
    <2>1. s \in Gate!Session /\ s.at = clock
      BY <1>1 DEF Gate!Session
    <2>2. given' = given \/ (at' = [at EXCEPT ![r] = "access"] /\ given' = [given EXCEPT ![r] = s])
      BY <1>3 DEF Gate!DropAccess, Gate!Goto
    <2> HIDE DEF s
    <2> QED BY <1>3, <2>1, <2>2
  <1>4. CASE ~(Gate!RightPassword(r) \/ Gate!CheckDevice(r) \/ Gate!IssueTokens(r) \/ Gate!DropAccess(r))
    BY <1>4 DEF Gate!Step, Gate!Begin, Gate!ReadUser, Gate!Fail, Gate!WrongPassword, Gate!Block,
       Gate!CheckLock, Gate!CheckCode, Gate!ClaimCode, Gate!CountFailure, Gate!LockVerify, Gate!Write,
       Gate!Written, Gate!WriteUser, Gate!StoreAccess, Gate!StoreRefresh, Gate!Guard, Gate!DropRefresh,
       Gate!Keeps, Gate!Accepted
  <1> QED BY <1>2, <1>3, <1>4

LEMMA EndedGrows ==
    ASSUME NEW r, Gate!Step(r)
    PROVE  /\ ended \subseteq ended'
           /\ Gate!Fail(r) /\ Gate!Kind(r) = "refresh" => plan[r].jti \in ended'
           /\ Gate!DropAccess(r) /\ (Gate!Kind(r) = "logout" \/ renew) => plan[r].jti \in ended'
  BY DEF Gate!Step, Gate!Begin, Gate!ReadUser, Gate!Fail, Gate!RightPassword, Gate!WrongPassword,
     Gate!Block, Gate!CheckDevice, Gate!CheckLock, Gate!CheckCode, Gate!ClaimCode, Gate!CountFailure,
     Gate!LockVerify, Gate!Write, Gate!IssueTokens, Gate!Written, Gate!WriteUser, Gate!StoreAccess,
     Gate!StoreRefresh, Gate!Guard, Gate!DropAccess, Gate!DropRefresh, Gate!Keeps, Gate!Accepted,
     Gate!ghosts

Term(type) == IF type = "access" THEN ACCESS_TTL ELSE REFRESH_TTL

(* A token that is not over survives every step but its own deletion, and   *)
(* storing it once more shortens no promise.                                *)
LEMMA TokenKept ==
    ASSUME Gate!Parameters, Typed, NEW r \in DOMAIN plan, Gate!Step(r),
           NEW type \in {"access", "refresh"}, NEW j,
           NEW t \in Nat, clock < t, t <= clock + Term(type), Holds(store, Gate!Token(type, j), t)
    PROVE  \/ Holds(store', Gate!Token(type, j), t)
           \/ Gate!DropAccess(r) /\ type = "access" /\ j = plan[r].jti
           \/ Gate!DropRefresh(r) /\ type = "refresh" /\ j = plan[r].jti
  <1>1. /\ Gate!Token(type, j) \notin {Gate!PasswordFails, Gate!VerifyFails, Gate!VerifyLock}
        /\ \A d : Gate!Token(type, j) # Gate!Device(d) /\ Gate!Token(type, j) # Gate!Claim(d)
        /\ \A u, i : Gate!Token(type, j) = Gate!Token(u, i) => type = u /\ j = i
    BY KeysDiffer
  <1>2. \/ Holds(store', Gate!Token(type, j), t)
        \/ Gate!StoreAccess(r) /\ Gate!Token(type, j) = Gate!Token("access", given[r].jti)
        \/ Gate!StoreRefresh(r) /\ Gate!Token(type, j) = Gate!Token("refresh", given[r].jti)
        \/ Gate!DropAccess(r) /\ Gate!Token(type, j) = Gate!Token("access", plan[r].jti)
        \/ Gate!DropRefresh(r) /\ Gate!Token(type, j) = Gate!Token("refresh", plan[r].jti)
    BY <1>1, RowKept
  <1>3. CASE Gate!StoreAccess(r) /\ Gate!Token(type, j) = Gate!Token("access", given[r].jti)
    <2>1. type = "access" /\ store' = Gate!With(store, Gate!Token(type, j), 1, clock + ACCESS_TTL)
      BY <1>1, <1>3 DEF Gate!StoreAccess
    <2>2. clock + ACCESS_TTL >= t
      BY <2>1, PlanFacts DEF Term, Gate!Parameters, Typed
    <2> QED BY <2>1, <2>2, WithHolds
  <1>4. CASE Gate!StoreRefresh(r) /\ Gate!Token(type, j) = Gate!Token("refresh", given[r].jti)
    <2>1. type = "refresh" /\ store' = Gate!With(store, Gate!Token(type, j), 1, clock + REFRESH_TTL)
      BY <1>1, <1>4 DEF Gate!StoreRefresh
    <2>2. clock + REFRESH_TTL >= t
      BY <2>1, PlanFacts DEF Term, Gate!Parameters, Typed
    <2> QED BY <2>1, <2>2, WithHolds
  <1> QED BY <1>1, <1>2, <1>3, <1>4

(* One step, of one request: what all that follows starts from.             *)
LEMMA StepFacts ==
    ASSUME Gate!Parameters, Typed, NEW r \in DOMAIN plan, Gate!Step(r)
    PROVE  /\ plan' = plan /\ renew' = renew /\ clock' = clock /\ clock \in Nat
           /\ ACCESS_TTL \in Nat /\ REFRESH_TTL \in Nat
           /\ DOMAIN plan \subseteq LoginRequests /\ r \in LoginRequests
           /\ at \in [LoginRequests -> Gate!Labels] /\ given \in [LoginRequests -> {NoSession} \cup Gate!Session]
           /\ \A x \in DOMAIN plan : x # r => at'[x] = at[x] /\ given'[x] = given[x]
           /\ \A s \in Gate!Session : s # NoSession /\ s.at \in Nat /\ s.jti \in Nat
           /\ \A x \in LoginRequests : given[x] # NoSession => given[x].at \in Nat /\ given[x].jti \in Nat
  <1>1. plan' = plan /\ renew' = renew /\ clock' = clock
    BY GhostStep
  <1>2. /\ clock \in Nat /\ ACCESS_TTL \in Nat /\ REFRESH_TTL \in Nat
        /\ DOMAIN plan \subseteq LoginRequests /\ r \in LoginRequests
        /\ at \in [LoginRequests -> Gate!Labels] /\ given \in [LoginRequests -> {NoSession} \cup Gate!Session]
    BY PlanFacts DEF Gate!Parameters, Typed, Gate!TypeOK
  <1>3. \A s \in Gate!Session : s # NoSession /\ s.at \in Nat /\ s.jti \in Nat
    BY DEF Gate!Parameters, Gate!Session
  <1>4. \A x \in DOMAIN plan : x # r => at'[x] = at[x] /\ given'[x] = given[x]
    <2>1. at' = at \/ \E l : at' = [at EXCEPT ![r] = l]
      BY PcStep
    <2>2. given' = given \/ \E s : given' = [given EXCEPT ![r] = s]
      BY SessionGiven
    <2> QED BY <1>2, <2>1, <2>2
  <1>5. \A x \in LoginRequests : given[x] # NoSession => given[x].at \in Nat /\ given[x].jti \in Nat
    BY <1>2, <1>3
  <1> QED BY <1>1, <1>2, <1>3, <1>4, <1>5

LEMMA AnsweredStep ==
    ASSUME Gate!Parameters, Typed, Sessions, NEW r \in DOMAIN plan, Gate!Step(r), NEW x \in DOMAIN plan, Issued(x)'
    PROVE  given'[x].at <= clock' /\ at'[x] \in {"access", "refresh", "old", "writes", "done", "failed"}
  <1>1. CASE x # r
    BY <1>1, StepFacts DEF Sessions, Issued
  <1>2. CASE x = r /\ given'[r] # given[r]
    <2>1. at' = [at EXCEPT ![r] = "access"]
          /\ \E s \in Gate!Session : given' = [given EXCEPT ![r] = s] /\ s.at = clock
      BY <1>2, SessionGiven
    <2> QED BY <1>2, <2>1, StepFacts
  <1>3. CASE x = r /\ given'[r] = given[r]
    <2>1. given[r].at <= clock /\ at[r] \in {"access", "refresh", "old", "writes"}
      <3>1. Issued(r)
        BY <1>3 DEF Issued
      <3> QED BY <3>1, WhereToGo DEF Sessions
    <2>2. at'[r] \in {"access", "refresh", "old", "writes", "done", "failed"}
      <3>1. Gate!StoreAccess(r) \/ Gate!StoreRefresh(r) \/ Gate!DropRefresh(r) \/ Gate!Fail(r) \/ Gate!Write(r) \/ Gate!IssueTokens(r)
            \/ Gate!Written(r)
        BY <2>1, WhereToGo
      <3> QED BY <2>1, <3>1, StepFacts DEF Gate!StoreAccess, Gate!StoreRefresh, Gate!DropRefresh,
                 Gate!Fail, Gate!Write, Gate!IssueTokens, Gate!Written, Gate!Keeps, Gate!Goto
    <2> QED BY <1>3, <2>1, <2>2, StepFacts
  <1> QED BY <1>1, <1>2, <1>3

LEMMA OutStep ==
    ASSUME Gate!Parameters, Typed, Sessions, NEW r \in DOMAIN plan, Gate!Step(r), NEW x \in DOMAIN plan, IsOut(x)'
    PROVE  Issued(x)' /\ given'[x].jti = plan'[x].jti
  <1>1. CASE x # r
    BY <1>1, StepFacts DEF Sessions, Issued, IsOut, Gate!Kind
  <1>2. CASE x = r
    <2>1. Gate!Kind(r) = "refresh" /\ at'[r] = "access" /\ ~renew
      BY <1>2, StepFacts DEF IsOut, Gate!Kind
    <2>2. Gate!DropAccess(r)
      <3>1. /\ at[r] # "access" \/ (~Gate!StoreAccess(r) => Gate!Fail(r))
            /\ ~Gate!StoreAccess(r) /\ ~Gate!Fail(r)
        BY <2>1, StepFacts, WhereToGo DEF Gate!StoreAccess, Gate!Fail, Gate!Keeps, Gate!Goto
      <3>2. at[r] # "access"
        BY <3>1, WhereToGo
      <3>3. ~Gate!RightPassword(r) /\ ~Gate!CheckDevice(r) /\ ~Gate!IssueTokens(r)
        BY <2>1 DEF Gate!RightPassword, Gate!CheckDevice, Gate!IssueTokens, Gate!At, Typed, Labelled
      <3>4. Gate!AfterRead(r) # "access"
        BY DEF Gate!AfterRead
      <3>5. ~Gate!Begin(r) /\ ~Gate!ReadUser(r) /\ ~Gate!WrongPassword(r) /\ ~Gate!Block(r) /\ ~Gate!CheckLock(r) /\ ~Gate!CheckCode(r)
            /\ ~Gate!ClaimCode(r) /\ ~Gate!CountFailure(r) /\ ~Gate!LockVerify(r)
        BY <2>1, <3>4, StepFacts DEF Gate!Begin, Gate!ReadUser, Gate!WrongPassword, Gate!Block,
           Gate!CheckLock, Gate!CheckCode, Gate!ClaimCode, Gate!CountFailure, Gate!LockVerify,
           Gate!Keeps, Gate!Goto, Gate!Accepted
      <3>6. ~Gate!Write(r) /\ ~Gate!Written(r) /\ ~Gate!WriteUser(r) /\ ~Gate!StoreRefresh(r) /\ ~Gate!Guard(r) /\ ~Gate!DropRefresh(r)
        BY <2>1, <3>2, StepFacts DEF Gate!Write, Gate!Written, Gate!WriteUser, Gate!StoreRefresh,
           Gate!Guard, Gate!DropRefresh, Gate!Keeps, Gate!Goto
      <3> QED BY <3>1, <3>3, <3>5, <3>6 DEF Gate!Step
    <2>3. given' = [given EXCEPT ![r] = [jti |-> plan[r].jti, at |-> clock]]
      BY <2>1, <2>2 DEF Gate!DropAccess
    <2>4. [jti |-> plan[r].jti, at |-> clock] \in Gate!Session
      BY PlanFacts DEF Gate!Session, Typed, Gate!TypeOK, Gate!Body
    <2> QED BY <1>2, <2>3, <2>4, StepFacts DEF Issued
  <1> QED BY <1>1, <1>2

LEMMA EndingStep ==
    ASSUME Gate!Parameters, Typed, Sessions, NEW r \in DOMAIN plan, Gate!Step(r), NEW x \in DOMAIN plan, IsEnding(x)'
    PROVE  plan'[x].jti \in ended'
  <1>1. CASE x # r
    BY <1>1, StepFacts, EndedGrows DEF Sessions, IsEnding, Gate!Kind
  <1>2. CASE x = r /\ IsEnding(r)
    BY <1>2, StepFacts, EndedGrows DEF Sessions
  <1>3. CASE x = r /\ Gate!DropAccess(r)
    <2>1. Gate!Kind(r) = "logout" \/ renew
      <3>1. Gate!Kind(r) = "refresh" => at'[r] = "access"
        BY <1>3, StepFacts DEF Gate!DropAccess, Gate!Goto
      <3>2. Gate!Kind(r) \in {"refresh", "logout"}
        BY <1>3 DEF Gate!DropAccess, Gate!At, Typed, Labelled
      <3> QED BY <1>3, <3>1, <3>2, StepFacts DEF IsEnding, Gate!Kind
    <2> QED BY <1>3, <2>1, StepFacts, EndedGrows
  <1>4. CASE x = r /\ ~IsEnding(r) /\ ~Gate!DropAccess(r)
    <2>1. \/ at'[r] = "old"
          \/ Gate!Kind(r) = "refresh" /\ at'[r] \in {"refresh", "access"}
      BY <1>4, StepFacts DEF IsEnding, Gate!Kind
    <2>2. at'[r] = "access" => renew
      BY <1>4, StepFacts DEF IsEnding, Gate!Kind
    <2>3. ~Gate!StoreRefresh(r)
      BY <1>4, <2>1, StepFacts DEF Gate!StoreRefresh, Gate!Keeps, Gate!Goto, Gate!At, IsEnding
    <2>4. ~Gate!StoreAccess(r)
      BY <1>4, <2>1, StepFacts DEF Gate!StoreAccess, Gate!Keeps, Gate!Goto, Gate!At, IsEnding
    <2>5. Gate!AfterRead(r) \notin {"access", "refresh", "old"}
      BY DEF Gate!AfterRead
    <2>6. ~Gate!Begin(r) /\ ~Gate!ReadUser(r) /\ ~Gate!WrongPassword(r) /\ ~Gate!Block(r) /\ ~Gate!CheckLock(r) /\ ~Gate!CheckCode(r)
          /\ ~Gate!ClaimCode(r) /\ ~Gate!CountFailure(r) /\ ~Gate!LockVerify(r) /\ ~Gate!Fail(r)
      BY <2>1, <2>5, StepFacts DEF Gate!Begin, Gate!ReadUser, Gate!WrongPassword, Gate!Block,
         Gate!CheckLock, Gate!CheckCode, Gate!ClaimCode, Gate!CountFailure, Gate!LockVerify,
         Gate!Keeps, Gate!Goto, Gate!Accepted, Gate!Fail
    <2>7. ~Gate!RightPassword(r) /\ ~Gate!CheckDevice(r) /\ ~Gate!IssueTokens(r)
      BY <2>1, StepFacts DEF Gate!RightPassword, Gate!CheckDevice, Gate!IssueTokens, Gate!Goto,
         Gate!At, Typed, Labelled
    <2>8. ~Gate!Write(r) /\ ~Gate!Written(r) /\ ~Gate!WriteUser(r) /\ ~Gate!Guard(r) /\ ~Gate!DropRefresh(r)
      BY <2>1, StepFacts DEF Gate!Write, Gate!Written, Gate!WriteUser, Gate!Guard, Gate!DropRefresh,
         Gate!Keeps, Gate!Goto, Gate!At
    <2> QED BY <1>4, <2>3, <2>4, <2>6, <2>7, <2>8 DEF Gate!Step
  <1> QED BY <1>2, <1>1, <1>3, <1>4

(* The promises that a request has made already are kept by any step. *)
LEMMA AccessStep ==
    ASSUME Gate!Parameters, Typed, Sessions, NEW r \in DOMAIN plan, Gate!Step(r), NEW x \in DOMAIN plan
    PROVE  AccessKept(x)'
  <1> DEFINE j == given[x].jti
             t == given[x].at + ACCESS_TTL
  <1> SUFFICES ASSUME Issued(x)', at'[x] \in {"refresh", "old", "writes", "done"},
                      given'[x].jti \notin ended',
                      \A q \in DOMAIN plan : IsOut(q)' => plan[q].jti # given'[x].jti,
                      clock' < given'[x].at + ACCESS_TTL
               PROVE  Holds(store', Gate!Token("access", given'[x].jti), given'[x].at + ACCESS_TTL)
    BY StepFacts DEF AccessKept, Hole
  <1>1. given'[x] = given[x] /\ Issued(x)
    <2>1. CASE x # r
      BY <2>1, StepFacts DEF Issued
    <2>2. CASE x = r
      BY <2>2, SessionGiven, StepFacts DEF Issued
    <2> QED BY <2>1, <2>2
  <1>2. j \in Nat /\ t \in Nat /\ clock < t /\ t <= clock + ACCESS_TTL /\ given[x].at <= clock
    <2>1. given[x].at \in Nat /\ given[x].jti \in Nat /\ given[x].at <= clock
      BY <1>1, StepFacts DEF Sessions, Issued
    <2> QED BY <1>1, <2>1, StepFacts
  <1>3. j \notin ended /\ j \notin ended'
    BY <1>1, EndedGrows
  <1>4. SUFFICES Holds(store', Gate!Token("access", j), t)
    BY <1>1
  <1>5. CASE Gate!StoreAccess(r) /\ given[r].jti = j
    <2>1. store' = Gate!With(store, Gate!Token("access", j), 1, clock + ACCESS_TTL)
      BY <1>5 DEF Gate!StoreAccess
    <2> QED BY <1>2, <2>1, WithHolds
  <1>6. CASE ~(Gate!StoreAccess(r) /\ given[r].jti = j)
    <2>1. at[x] \in {"refresh", "old", "writes", "done"}
      <3>1. CASE x # r
        BY <3>1, StepFacts
      <3>2. CASE x = r
        <4>1. at[r] \in {"access", "refresh", "old", "writes"}
          BY <1>1, <3>2, WhereToGo DEF Sessions
        <4>2. at[r] # "access"
          BY <1>6, <3>2, StepFacts, WhereToGo DEF Gate!Fail, Gate!Goto
        <4> QED BY <3>2, <4>1, <4>2
      <3> QED BY <3>1, <3>2
    <2>2. ~Hole(j)
      <3> SUFFICES ASSUME NEW q \in DOMAIN plan, IsOut(q), plan[q].jti = j PROVE FALSE
        BY DEF Hole
      <3>1. ~IsOut(q)'
        BY <1>1
      <3>2. q = r
        BY <3>1, StepFacts DEF IsOut, Gate!Kind
      <3>3. given[r].jti = j
        BY <3>2 DEF Sessions
      <3>4. Gate!Fail(r)
        BY <1>6, <3>2, <3>3, WhereToGo DEF IsOut
      <3> QED BY <1>3, <3>2, <3>4, EndedGrows DEF IsOut
    <2>3. Holds(store, Gate!Token("access", j), t)
      BY <1>1, <1>2, <1>3, <2>1, <2>2 DEF Sessions, AccessKept
    <2>4. CASE Gate!DropAccess(r) /\ j = plan[r].jti
      <3>1. Gate!Kind(r) = "refresh" /\ ~renew
        BY <1>3, <2>4, EndedGrows DEF Gate!DropAccess, Gate!At, Typed, Labelled
      <3>2. IsOut(r)'
        BY <2>4, <3>1, StepFacts DEF IsOut, Gate!Kind, Gate!DropAccess, Gate!Goto
      <3> QED BY <1>1, <2>4, <3>2
    <2>5. CASE ~(Gate!DropAccess(r) /\ j = plan[r].jti)
      BY <1>2, <2>3, <2>5, TokenKept DEF Term
    <2> QED BY <2>4, <2>5
  <1> QED BY <1>5, <1>6

LEMMA RefreshStep ==
    ASSUME Gate!Parameters, Typed, Sessions, NEW r \in DOMAIN plan, Gate!Step(r), NEW x \in DOMAIN plan
    PROVE  RefreshKept(x)'
  <1> DEFINE j == given[x].jti
             t == given[x].at + REFRESH_TTL
  <1> SUFFICES ASSUME Issued(x)', at'[x] \in {"old", "writes", "done"}, Gate!Kind(x) = "refresh" => renew,
                      given'[x].jti \notin ended', clock' < given'[x].at + REFRESH_TTL
               PROVE  Holds(store', Gate!Token("refresh", given'[x].jti), given'[x].at + REFRESH_TTL)
    BY StepFacts DEF RefreshKept, Gate!Kind
  <1>1. given'[x] = given[x] /\ Issued(x)
    <2>1. CASE x # r
      BY <2>1, StepFacts DEF Issued
    <2>2. CASE x = r
      BY <2>2, SessionGiven, StepFacts DEF Issued
    <2> QED BY <2>1, <2>2
  <1>2. j \in Nat /\ t \in Nat /\ clock < t /\ t <= clock + REFRESH_TTL /\ given[x].at <= clock
    <2>1. given[x].at \in Nat /\ given[x].jti \in Nat /\ given[x].at <= clock
      BY <1>1, StepFacts DEF Sessions, Issued
    <2> QED BY <1>1, <2>1, StepFacts
  <1>3. j \notin ended /\ j \notin ended'
    BY <1>1, EndedGrows
  <1>4. SUFFICES Holds(store', Gate!Token("refresh", j), t)
    BY <1>1
  <1>5. CASE x = r /\ Gate!StoreRefresh(r)
    <2>1. store' = Gate!With(store, Gate!Token("refresh", j), 1, clock + REFRESH_TTL)
      BY <1>5 DEF Gate!StoreRefresh
    <2> QED BY <1>2, <2>1, WithHolds
  <1>6. CASE ~(x = r /\ Gate!StoreRefresh(r))
    <2>1. at[x] \in {"old", "writes", "done"}
      <3>1. CASE x # r
        BY <3>1, StepFacts
      <3>2. CASE x = r
        <4>1. at[r] \in {"access", "refresh", "old", "writes"}
          BY <1>1, <3>2, WhereToGo DEF Sessions
        <4>2. ~Gate!Fail(r)
          BY <3>2, StepFacts DEF Gate!Fail, Gate!Goto
        <4>3. at[r] # "refresh"
          BY <1>6, <3>2, <4>2, WhereToGo
        <4>4. at[r] # "access"
          <5>1. ~Gate!StoreAccess(r)
            BY <3>2, StepFacts DEF Gate!StoreAccess, Gate!Keeps, Gate!Goto
          <5> QED BY <4>2, <5>1, WhereToGo
        <4> QED BY <3>2, <4>1, <4>3, <4>4
      <3> QED BY <3>1, <3>2
    <2>2. Holds(store, Gate!Token("refresh", j), t)
      BY <1>1, <1>2, <1>3, <2>1 DEF Sessions, RefreshKept
    <2>3. ~(Gate!DropRefresh(r) /\ j = plan[r].jti)
      BY <1>3 DEF Gate!DropRefresh, Gate!At, Sessions, IsEnding
    <2> QED BY <1>2, <2>2, <2>3, TokenKept DEF Term
  <1> QED BY <1>5, <1>6

---------------------------------------------------------------------------

LoginInv == Typed /\ Claimed /\ Gate!CodeRedeemedOnce /\ Sessions

LEMMA LoginInit ==
    ASSUME Gate!Parameters, Gate!Init
    PROVE  LoginInv
  <1>1. Typed
    <2>1. \A r \in DOMAIN plan : r \in LoginRequests
      BY DEF Gate!Parameters, Gate!Init
    <2>2. Gate!TypeOK
      BY DEF Gate!Parameters, Gate!Init, Gate!TypeOK, Gate!Labels
    <2>3. Labelled
      BY <2>1 DEF Gate!Init, Labelled
    <2> QED BY <2>2, <2>3 DEF Typed
  <1>2. Claimed /\ Gate!CodeRedeemedOnce
    BY DEF Gate!Init, Claimed, LastClaimHolds, Gate!CodeRedeemedOnce
  <1>3. Sessions
    <2>1. \A r \in DOMAIN plan : at[r] = "idle" /\ ~Issued(r)
      BY DEF Gate!Parameters, Gate!Init, Issued
    <2> QED BY <2>1 DEF Sessions, IsOut, IsEnding, AccessKept, RefreshKept
  <1> QED BY <1>1, <1>2, <1>3 DEF LoginInv

LEMMA LoginStep ==
    ASSUME Gate!Parameters, LoginInv, [Gate!Next]_Gate!vars
    PROVE  LoginInv'
  <1>1. Typed'
    BY TypedStep DEF LoginInv
  <1>2. ASSUME NEW r \in DOMAIN plan, Gate!Step(r) PROVE LoginInv'
    <2>1. Claimed' /\ Gate!CodeRedeemedOnce'
      BY <1>2, ClaimStep DEF LoginInv
    <2>2. Sessions'
      <3> SUFFICES ASSUME NEW x \in DOMAIN plan
                   PROVE  /\ Issued(x)' => /\ given'[x].at <= clock'
                                           /\ at'[x] \in {"access", "refresh", "old", "writes", "done", "failed"}
                          /\ IsOut(x)' => Issued(x)' /\ given'[x].jti = plan'[x].jti
                          /\ IsEnding(x)' => plan'[x].jti \in ended'
                          /\ AccessKept(x)'
                          /\ RefreshKept(x)'
        BY <1>2, StepFacts DEF Sessions, LoginInv
      <3>1. Typed /\ Sessions
        BY DEF LoginInv
      <3>2. AccessKept(x)' /\ RefreshKept(x)'
        BY <1>2, <3>1, AccessStep, RefreshStep
      <3>3. Issued(x)' => /\ given'[x].at <= clock'
                          /\ at'[x] \in {"access", "refresh", "old", "writes", "done", "failed"}
        BY <1>2, <3>1, AnsweredStep
      <3>4. IsOut(x)' => Issued(x)' /\ given'[x].jti = plan'[x].jti
        BY <1>2, <3>1, OutStep
      <3>5. IsEnding(x)' => plan'[x].jti \in ended'
        BY <1>2, <3>1, EndingStep
      <3> QED BY <3>2, <3>3, <3>4, <3>5
    <2> QED BY <1>1, <2>1, <2>2 DEF LoginInv
  <1>3. CASE Gate!Elapse
    <2>1. /\ clock' = clock + 1 /\ clock \in Nat /\ CLAIM_TTL \in Nat /\ ACCESS_TTL \in Nat /\ REFRESH_TTL \in Nat
          /\ plan' = plan /\ renew' = renew /\ at' = at /\ given' = given /\ store' = store
          /\ redeemed' = redeemed /\ ended' = ended
          /\ DOMAIN plan \subseteq LoginRequests
      BY <1>3 DEF Gate!Elapse, Gate!requestVars, Gate!ghosts, LoginInv, Typed, Gate!TypeOK, Gate!Parameters
    <2>2. Claimed'
      <3> SUFFICES ASSUME NEW c \in Codes PROVE LastClaimHolds(redeemed[c], c, store, clock + 1)
        BY <2>1 DEF Claimed
      <3>1. LastClaimHolds(redeemed[c], c, store, clock)
        BY DEF LoginInv, Claimed
      <3>2. redeemed[c] # <<>> => redeemed[c][Len(redeemed[c])] \in Nat
        <4>1. redeemed[c] \in Seq(0..LOGIN_CLOCK) /\ LOGIN_CLOCK \in Nat
          BY DEF LoginInv, Typed, Gate!TypeOK, Gate!Parameters
        <4> QED BY <4>1
      <3> QED BY <2>1, <3>1, <3>2 DEF LastClaimHolds
    <2>3. Gate!CodeRedeemedOnce'
      BY <2>1 DEF LoginInv, Gate!CodeRedeemedOnce
    <2>4. Sessions'
      <3> SUFFICES ASSUME NEW x \in DOMAIN plan
                   PROVE  /\ Issued(x)' => /\ given'[x].at <= clock'
                                           /\ at'[x] \in {"access", "refresh", "old", "writes", "done", "failed"}
                          /\ IsOut(x)' => Issued(x)' /\ given'[x].jti = plan'[x].jti
                          /\ IsEnding(x)' => plan'[x].jti \in ended'
                          /\ AccessKept(x)'
                          /\ RefreshKept(x)'
        BY <2>1 DEF Sessions
      <3>1. Issued(x) => given[x].at \in Nat
        <4>1. given[x] \in {NoSession} \cup Gate!Session /\ \A s \in Gate!Session : s.at \in Nat
          BY <2>1 DEF LoginInv, Typed, Gate!TypeOK, Gate!Session
        <4> QED BY <4>1 DEF Issued
      <3>2. Issued(x) => given[x].at <= clock + 1
        BY <2>1, <3>1 DEF LoginInv, Sessions
      <3>3. AccessKept(x)'
        BY <2>1, <3>1 DEF LoginInv, Sessions, AccessKept, Issued, Hole, IsOut, Gate!Kind
      <3>4. RefreshKept(x)'
        BY <2>1, <3>1 DEF LoginInv, Sessions, RefreshKept, Issued, Gate!Kind
      <3> QED BY <2>1, <3>2, <3>3, <3>4 DEF LoginInv, Sessions, Issued, IsOut, IsEnding, Gate!Kind
    <2> QED BY <1>1, <2>2, <2>3, <2>4 DEF LoginInv
  <1>4. CASE UNCHANGED Gate!vars
    <2>1. /\ clock' = clock /\ plan' = plan /\ renew' = renew /\ at' = at /\ given' = given /\ store' = store
          /\ redeemed' = redeemed /\ ended' = ended
      BY <1>4 DEF Gate!vars, Gate!requestVars, Gate!ghosts
    <2>2. Claimed' /\ Gate!CodeRedeemedOnce'
      BY <2>1 DEF LoginInv, Claimed, Gate!CodeRedeemedOnce
    <2>3. Sessions'
      BY <2>1 DEF LoginInv, Sessions, Issued, IsOut, IsEnding, AccessKept, RefreshKept, Hole, Gate!Kind
    <2> QED BY <1>1, <2>2, <2>3 DEF LoginInv
  <1> QED BY <1>2, <1>3, <1>4 DEF Gate!Next

LEMMA LoginSafe ==
    ASSUME Gate!Parameters, LoginInv
    PROVE  Gate!CodeRedeemedOnce /\ Gate!AnsweredSessionsWork
  <1>1. Dated(store) /\ clock \in Nat /\ ACCESS_TTL \in Nat /\ REFRESH_TTL \in Nat
    BY DEF LoginInv, Typed, Gate!TypeOK, Dated, Gate!Parameters
  <1>2. ASSUME NEW r \in DOMAIN plan, at[r] = "done", given[r] # NoSession, given[r].jti \notin ended,
               ~ \E q \in DOMAIN plan : Gate!IsRunning(q) /\ Gate!Kind(q) = "refresh" /\ plan[q].jti = given[r].jti
        PROVE  /\ clock < given[r].at + ACCESS_TTL => Gate!IsLive(store, Gate!Token("access", given[r].jti), clock)
               /\ clock < given[r].at + REFRESH_TTL /\ (Gate!Kind(r) # "refresh" \/ renew)
                     => Gate!IsLive(store, Gate!Token("refresh", given[r].jti), clock)
    <2>1. ~Hole(given[r].jti)
      BY <1>2 DEF Hole, IsOut, Gate!IsRunning, Gate!Ends
    <2>2. given[r].at \in Nat
      <3>1. given[r] \in {NoSession} \cup Gate!Session /\ \A s \in Gate!Session : s.at \in Nat
        BY DEF LoginInv, Typed, Gate!TypeOK, Gate!Session, Gate!Parameters
      <3> QED BY <1>2, <3>1
    <2>3. clock < given[r].at + ACCESS_TTL
             => Holds(store, Gate!Token("access", given[r].jti), given[r].at + ACCESS_TTL)
      BY <1>2, <2>1 DEF LoginInv, Sessions, AccessKept, Issued
    <2>4. clock < given[r].at + REFRESH_TTL /\ (Gate!Kind(r) # "refresh" \/ renew)
             => Holds(store, Gate!Token("refresh", given[r].jti), given[r].at + REFRESH_TTL)
      BY <1>2 DEF LoginInv, Sessions, RefreshKept, Issued
    <2>5. given[r].at + ACCESS_TTL \in Nat /\ given[r].at + REFRESH_TTL \in Nat
      BY <1>1, <2>2
    <2> QED BY <1>1, <2>3, <2>4, <2>5, HeldIsLive
  <1>3. Gate!AnsweredSessionsWork
    BY <1>2 DEF Gate!AnsweredSessionsWork
  <1> QED BY <1>3 DEF LoginInv

---------------------------------------------------------------------------
(*                                The polls                                 *)

(* What Voting takes from the libraries is what the proofs take. *)
LEMMA BoothSame ==
    /\ \A S : Booth!Cardinality(S) = Cardinality(S) /\ (Booth!IsFiniteSet(S) <=> IsFiniteSet(S))
    /\ \A f : Booth!SumFunction(f) = SumFunction(f)
  <1>1. \A S : Booth!Cardinality(S) = Cardinality(S)
    BY DEF Booth!Cardinality, Cardinality
  <1>2. \A S : Booth!IsFiniteSet(S) <=> IsFiniteSet(S)
    BY DEF Booth!IsFiniteSet, IsFiniteSet
  <1>3. \A f : Booth!SumFunction(f) = SumFunction(f)
    BY DEF Booth!SumFunction, SumFunction, Booth!SumFunctionOnSet, SumFunctionOnSet,
           Booth!FoldFunctionOnSet, FoldFunctionOnSet, Booth!MapThenFoldSet, MapThenFoldSet
  <1> QED BY <1>1, <1>2, <1>3

---------------------------------------------------------------------------
(* How ballots are counted                                                 *)

(* Ballots of finitely many voters, each of some of the options. *)
AreBallots(all, options) ==
    /\ IsFiniteSet(DOMAIN all) /\ IsFiniteSet(options)
    /\ \A v \in DOMAIN all :
          /\ Len(all[v]) \in Nat /\ DOMAIN all[v] = 1..Len(all[v])
          /\ Booth!IsInjective(all[v]) /\ Booth!ToSet(all[v]) \subseteq options

(* Where no rank counts, every choice is one point. *)
LEMMA ChoicesAddUp ==
    ASSUME NEW all, NEW options, AreBallots(all, options)
    PROVE  SumFunction([o \in options |-> Booth!Counts(all, o)]) = Booth!Chosen(all)
  <1> DEFINE F == [o \in options |-> {v \in DOMAIN all : o \in Booth!ToSet(all[v])}]
             G == [v \in DOMAIN all |-> 1..Len(all[v])]
             A == Pairs(options, F)
             B == Pairs(DOMAIN all, G)
             h == [p \in B |-> <<all[p[1]][p[2]], p[1]>>]
  <1>1. \A o \in options : IsFiniteSet(F[o])
    <2>1. \A o \in options : F[o] \in SUBSET DOMAIN all
      OBVIOUS
    <2> QED BY <2>1, FS_Subset DEF AreBallots
  <1>2. \A v \in DOMAIN all : IsFiniteSet(G[v]) /\ Cardinality(G[v]) = Len(all[v])
    <2> SUFFICES ASSUME NEW v \in DOMAIN all
                 PROVE  IsFiniteSet(1..Len(all[v])) /\ Cardinality(1..Len(all[v])) = Len(all[v])
      OBVIOUS
    <2>1. 1 \in Int /\ Len(all[v]) \in Nat
      BY DEF AreBallots
    <2>2. Cardinality(1..Len(all[v])) = IF 1 > Len(all[v]) THEN 0 ELSE Len(all[v]) - 1 + 1
      BY <2>1, FS_Interval
    <2>3. IsFiniteSet(1..Len(all[v]))
      BY <2>1, FS_Interval
    <2> QED BY <2>1, <2>2, <2>3
  <1>3. SumFunction([o \in options |-> Cardinality(F[o])]) = Cardinality(A)
    BY <1>1, SizesAddUp DEF AreBallots
  <1>4. SumFunction([v \in DOMAIN all |-> Cardinality(G[v])]) = Cardinality(B)
    BY <1>2, SizesAddUp DEF AreBallots
  <1>5. IsFiniteSet(B)
    BY <1>2, PairsAreFinite DEF AreBallots
  <1>6. \A p \in A : /\ p = <<p[1], p[2]>> /\ p[1] \in options /\ p[2] \in DOMAIN all
                     /\ p[1] \in Booth!ToSet(all[p[2]])
    BY DEF Pairs
  <1>7. \A o \in options : \A v \in DOMAIN all : o \in Booth!ToSet(all[v]) => <<o, v>> \in A
    BY DEF Pairs
  <1>8. \A p \in B : /\ p = <<p[1], p[2]>> /\ p[1] \in DOMAIN all /\ p[2] \in DOMAIN all[p[1]]
                     /\ p[2] \in 1..Len(all[p[1]])
    BY DEF Pairs, AreBallots
  <1>9. \A v \in DOMAIN all : \A i \in DOMAIN all[v] : <<v, i>> \in B
    BY DEF Pairs, AreBallots
  <1> HIDE DEF A, B, F, G
  <1>10. \A v \in DOMAIN all : \A i \in DOMAIN all[v] : all[v][i] \in Booth!ToSet(all[v]) /\ all[v][i] \in options
    BY DEF Booth!ToSet, AreBallots
  <1>11. \A v \in DOMAIN all : \A o \in Booth!ToSet(all[v]) : \E i \in DOMAIN all[v] : o = all[v][i]
    BY DEF Booth!ToSet
  <1>12. h \in [B -> A]
    BY <1>7, <1>8, <1>10
  <1>13. \A p, q \in B : h[p] = h[q] => p = q
    <2> SUFFICES ASSUME NEW p \in B, NEW q \in B, h[p] = h[q] PROVE p = q
      OBVIOUS
    <2>1. p[1] = q[1] /\ all[p[1]][p[2]] = all[q[1]][q[2]]
      OBVIOUS
    <2>2. p[2] = q[2]
      BY <1>8, <2>1 DEF AreBallots, Booth!IsInjective
    <2> QED BY <1>8, <2>1, <2>2
  <1>14. \A p \in A : \E q \in B : h[q] = p
    <2> SUFFICES ASSUME NEW p \in A PROVE \E q \in B : h[q] = p
      OBVIOUS
    <2>1. PICK i \in DOMAIN all[p[2]] : p[1] = all[p[2]][i]
      BY <1>6, <1>11
    <2>2. <<p[2], i>> \in B
      BY <1>6, <1>9
    <2>3. h[<<p[2], i>>] = p
      BY <1>6, <2>1, <2>2
    <2> QED BY <2>2, <2>3
  <1>15. h \in Bijection(B, A)
    BY <1>12, <1>13, <1>14 DEF Bijection, Injection, Surjection, IsInjective
  <1>16. Cardinality(A) = Cardinality(B)
    BY <1>5, <1>15, FS_Bijection DEF ExistsBijection
  <1>17. Booth!Chosen(all) = Cardinality(B)
    <2>1. [v \in DOMAIN all |-> Cardinality(G[v])] = [v \in DOMAIN all |-> Len(all[v])]
      BY <1>2
    <2> QED BY <1>4, <2>1, BoothSame DEF Booth!Chosen
  <1>18. SumFunction([o \in options |-> Booth!Counts(all, o)]) = Cardinality(A)
    <2>1. \A o \in options : Booth!Counts(all, o) = Cardinality(F[o])
      BY BoothSame DEF Booth!Counts, F
    <2>2. [o \in options |-> Booth!Counts(all, o)] = [o \in options |-> Cardinality(F[o])]
      BY <2>1
    <2> QED BY <1>3, <2>2
  <1> QED BY <1>16, <1>17, <1>18

(* In a ranking an option earns a point for every option ranked below it.   *)
LEMMA PointsAreBelow ==
    ASSUME NEW all, NEW options, AreBallots(all, options), NEW v \in DOMAIN all, NEW i \in DOMAIN all[v],
           Len(all[v]) = Cardinality(options)
    PROVE  /\ Booth!Points(all[v], all[v][i], Cardinality(options)) = Cardinality((i + 1)..Len(all[v]))
           /\ (CHOOSE j \in DOMAIN all[v] : all[v][j] = all[v][i]) = i
  <1>1. Len(all[v]) \in Nat /\ i \in 1..Len(all[v])
    BY DEF AreBallots
  <1>2. Cardinality((i + 1)..Len(all[v])) = Len(all[v]) - i
    <2>1. i + 1 \in Int /\ Len(all[v]) \in Int
      BY <1>1
    <2>2. Cardinality((i + 1)..Len(all[v]))
             = IF i + 1 > Len(all[v]) THEN 0 ELSE Len(all[v]) - (i + 1) + 1
      BY <2>1, FS_Interval
    <2> QED BY <1>1, <2>2
  <1>3. \A j \in DOMAIN all[v] : all[v][j] = all[v][i] <=> j = i
    BY DEF AreBallots, Booth!IsInjective
  <1>4. (CHOOSE j \in DOMAIN all[v] : all[v][j] = all[v][i]) = i
    BY <1>3
  <1>5. Booth!Points(all[v], all[v][i], Cardinality(options)) = Cardinality(options) - 1 - (i - 1)
    BY <1>4, Zenon DEF Booth!Points
  <1> QED BY <1>1, <1>2, <1>4, <1>5

(* So the points of a ranking are its pairs of options. *)
LEMMA RanksAddUp ==
    ASSUME NEW all, NEW options, AreBallots(all, options),
           \A v \in DOMAIN all : Len(all[v]) = Cardinality(options)
    PROVE  SumFunction([o \in options |-> Booth!Borda(all, o, Cardinality(options))])
           = Booth!Preferences(all, options)
  <1> DEFINE n == Cardinality(options)
             Rank(v, o) == CHOOSE i \in DOMAIN all[v] : all[v][i] = o
             Who(o) == {v \in DOMAIN all : o \in Booth!ToSet(all[v])}
             Below == [o \in options |-> [v \in Who(o) |-> (Rank(v, o) + 1)..Len(all[v])]]
             F == [o \in options |-> Pairs(Who(o), Below[o])]
             G == [v \in DOMAIN all |-> {p \in options \X options :
                     \E i, j \in DOMAIN all[v] : i < j /\ <<all[v][i], all[v][j]>> = p}]
             A == Pairs(options, F)
             B == Pairs(DOMAIN all, G)
             h == [p \in A |-> <<p[2][1], <<p[1], all[p[2][1]][p[2][2]]>> >>]
  <1>1. \A o \in options : IsFiniteSet(Who(o))
    <2>1. \A o \in options : Who(o) \in SUBSET DOMAIN all
      OBVIOUS
    <2> QED BY <2>1, FS_Subset DEF AreBallots
  <1>2. \A v \in DOMAIN all : /\ Len(all[v]) \in Nat /\ DOMAIN all[v] = 1..Len(all[v])
                              /\ \A i \in DOMAIN all[v] : all[v][i] \in options
    BY DEF AreBallots, Booth!ToSet
  <1>3. \A o \in options : \A v \in Who(o) :
           Rank(v, o) \in DOMAIN all[v] /\ all[v][Rank(v, o)] = o
    BY DEF Booth!ToSet
  <1>4. \A v \in DOMAIN all : \A i \in DOMAIN all[v] : v \in Who(all[v][i]) /\ Rank(v, all[v][i]) = i
    BY PointsAreBelow DEF Booth!ToSet
  <1>5. \A o \in options : \A v \in Who(o) :
           /\ IsFiniteSet(Below[o][v])
           /\ Booth!Points(all[v], o, n) = Cardinality(Below[o][v])
    <2> SUFFICES ASSUME NEW o \in options, NEW v \in Who(o)
                 PROVE  /\ IsFiniteSet((Rank(v, o) + 1)..Len(all[v]))
                        /\ Booth!Points(all[v], o, n) = Cardinality((Rank(v, o) + 1)..Len(all[v]))
      OBVIOUS
    <2>1. v \in DOMAIN all /\ Rank(v, o) \in DOMAIN all[v] /\ all[v][Rank(v, o)] = o
      BY <1>3
    <2>2. Rank(v, o) + 1 \in Int /\ Len(all[v]) \in Int
      BY <1>2, <2>1
    <2>3. IsFiniteSet((Rank(v, o) + 1)..Len(all[v]))
      BY <2>2, FS_Interval
    <2> HIDE DEF Rank
    <2>4. Booth!Points(all[v], all[v][Rank(v, o)], n) = Cardinality((Rank(v, o) + 1)..Len(all[v]))
      BY <2>1, PointsAreBelow
    <2> QED BY <2>1, <2>3, <2>4
  <1>6. \A o \in options : IsFiniteSet(F[o])
    <2> SUFFICES ASSUME NEW o \in options PROVE IsFiniteSet(Pairs(Who(o), Below[o]))
      OBVIOUS
    <2> HIDE DEF Who, Below
    <2> QED BY <1>1, <1>5, PairsAreFinite
  <1>7. \A o \in options : Booth!Borda(all, o, n) = Cardinality(F[o])
    <2> SUFFICES ASSUME NEW o \in options
                 PROVE  SumFunction([v \in Who(o) |-> Booth!Points(all[v], o, n)]) = Cardinality(Pairs(Who(o), Below[o]))
      BY BoothSame DEF Booth!Borda
    <2> HIDE DEF Who, Below
    <2>1. SumFunction([v \in Who(o) |-> Cardinality(Below[o][v])]) = Cardinality(Pairs(Who(o), Below[o]))
      BY <1>1, <1>5, SizesAddUp
    <2>2. [v \in Who(o) |-> Cardinality(Below[o][v])] = [v \in Who(o) |-> Booth!Points(all[v], o, n)]
      BY <1>5
    <2> QED BY <2>1, <2>2
  <1>8. SumFunction([o \in options |-> Booth!Borda(all, o, n)]) = Cardinality(A)
    <2> HIDE DEF F
    <2>1. SumFunction([o \in options |-> Cardinality(F[o])]) = Cardinality(A)
      BY <1>6, SizesAddUp DEF AreBallots
    <2>2. [o \in options |-> Booth!Borda(all, o, n)] = [o \in options |-> Cardinality(F[o])]
      BY <1>7
    <2> QED BY <2>1, <2>2
  <1>9. \A v \in DOMAIN all : IsFiniteSet(G[v])
    <2>1. IsFiniteSet(options \X options)
      BY FS_Product DEF AreBallots
    <2>2. \A v \in DOMAIN all : G[v] \in SUBSET (options \X options)
      OBVIOUS
    <2> QED BY <2>1, <2>2, FS_Subset
  <1>10. Booth!Preferences(all, options) = Cardinality(B)
    <2>1. [v \in DOMAIN all |-> Cardinality(G[v])]
          = [v \in DOMAIN all |-> Booth!Cardinality({p \in options \X options :
                \E i, j \in DOMAIN all[v] : i < j /\ <<all[v][i], all[v][j]>> = p})]
      BY BoothSame
    <2>2. SumFunction([v \in DOMAIN all |-> Cardinality(G[v])]) = Cardinality(B)
      <3> HIDE DEF G
      <3> QED BY <1>9, SizesAddUp DEF AreBallots
    <2> QED BY <2>1, <2>2, BoothSame DEF Booth!Preferences
  <1>11. \A p \in A : /\ p = <<p[1], <<p[2][1], p[2][2]>> >> /\ p[1] \in options /\ p[2][1] \in Who(p[1])
                      /\ p[2][2] \in (Rank(p[2][1], p[1]) + 1)..Len(all[p[2][1]])
    <2> SUFFICES ASSUME NEW p \in A
                 PROVE  /\ p = <<p[1], <<p[2][1], p[2][2]>> >> /\ p[1] \in options /\ p[2][1] \in Who(p[1])
                        /\ p[2][2] \in Below[p[1]][p[2][1]]
      BY <1>3
    <2> HIDE DEF A, Below, Who
    <2>1. p = <<p[1], p[2]>> /\ p[1] \in options /\ p[2] \in F[p[1]]
      <3> HIDE DEF F
      <3> QED BY PairsAre DEF A
    <2>2. p[2] \in Pairs(Who(p[1]), Below[p[1]])
      BY <2>1
    <2>3. p[2] = <<p[2][1], p[2][2]>> /\ p[2][1] \in Who(p[1]) /\ p[2][2] \in Below[p[1]][p[2][1]]
      BY <2>2, PairsAre
    <2> QED BY <2>1, <2>3
  <1>12. \A o \in options : \A v \in Who(o) : \A j \in (Rank(v, o) + 1)..Len(all[v]) : <<o, <<v, j>> >> \in A
    <2> SUFFICES ASSUME NEW o \in options, NEW v \in Who(o), NEW j \in Below[o][v]
                 PROVE  <<o, <<v, j>> >> \in A
      OBVIOUS
    <2> HIDE DEF A, Below, Who
    <2>1. <<v, j>> \in F[o]
      BY PairsAre
    <2> HIDE DEF F
    <2> QED BY <2>1, PairsAre DEF A
  <1>13. \A p \in B : /\ p = <<p[1], <<p[2][1], p[2][2]>> >> /\ p[1] \in DOMAIN all
                      /\ \E i, j \in DOMAIN all[p[1]] :
                            i < j /\ p[2][1] = all[p[1]][i] /\ p[2][2] = all[p[1]][j]
    BY DEF Pairs
  <1>14. \A v \in DOMAIN all : \A i, j \in DOMAIN all[v] : i < j => <<v, <<all[v][i], all[v][j]>> >> \in B
    BY <1>2 DEF Pairs
  <1>15. IsFiniteSet(A)
    <2> HIDE DEF F
    <2> QED BY <1>6, PairsAreFinite DEF AreBallots
  <1>16. \A o \in options : \A v \in Who(o) : v \in DOMAIN all
    OBVIOUS
  <1> HIDE DEF A, B, F, G, Who, Rank, Below
  <1>17. ASSUME NEW p \in A
         PROVE  LET v == p[2][1]
                    i == Rank(v, p[1])
                    j == p[2][2]
                IN  /\ v \in DOMAIN all /\ i \in DOMAIN all[v] /\ j \in DOMAIN all[v] /\ i < j
                    /\ p[1] = all[v][i]
    BY <1>2, <1>3, <1>11, <1>16
  <1>18. h \in [A -> B]
    <2> SUFFICES ASSUME NEW p \in A PROVE <<p[2][1], <<p[1], all[p[2][1]][p[2][2]]>> >> \in B
      OBVIOUS
    <2> QED BY <1>14, <1>17
  <1>19. \A p, q \in A : h[p] = h[q] => p = q
    <2> SUFFICES ASSUME NEW p \in A, NEW q \in A, h[p] = h[q] PROVE p = q
      OBVIOUS
    <2>1. p[2][1] = q[2][1] /\ p[1] = q[1] /\ all[p[2][1]][p[2][2]] = all[q[2][1]][q[2][2]]
      OBVIOUS
    <2>2. p[2][2] = q[2][2]
      BY <1>17, <2>1 DEF AreBallots, Booth!IsInjective
    <2> QED BY <1>11, <2>1, <2>2
  <1>20. \A q \in B : \E p \in A : h[p] = q
    <2> SUFFICES ASSUME NEW q \in B PROVE \E p \in A : h[p] = q
      OBVIOUS
    <2>1. PICK i, j \in DOMAIN all[q[1]] : i < j /\ q[2][1] = all[q[1]][i] /\ q[2][2] = all[q[1]][j]
      BY <1>13
    <2>2. q[1] \in Who(q[2][1]) /\ Rank(q[1], q[2][1]) = i /\ q[2][1] \in options
      BY <1>2, <1>4, <1>13, <2>1
    <2>3. j \in (i + 1)..Len(all[q[1]])
      BY <1>2, <1>13, <2>1
    <2>4. <<q[2][1], <<q[1], j>> >> \in A
      BY <1>12, <2>2, <2>3
    <2>5. h[<<q[2][1], <<q[1], j>> >>] = q
      BY <1>13, <2>1, <2>4
    <2> QED BY <2>4, <2>5
  <1>21. h \in Bijection(A, B)
    BY <1>18, <1>19, <1>20 DEF Bijection, Injection, Surjection, IsInjective
  <1>22. Cardinality(A) = Cardinality(B)
    BY <1>15, <1>21, FS_Bijection DEF ExistsBijection
  <1> QED BY <1>8, <1>10, <1>22

---------------------------------------------------------------------------
(* What requests may rely on                                               *)

VotingTyped ==
    /\ plan \in VotingPlans
    /\ DOMAIN at = VotingRequests /\ DOMAIN page = VotingRequests /\ DOMAIN read = VotingRequests
    /\ DOMAIN answer = VotingRequests /\ DOMAIN ballots = Voters
    /\ poll # NoPoll => poll \in Booth!Poll /\ IsFiniteSet(poll.options)

TellsAll(r) ==
    SumFunction(answer[r].scores) =
        IF read[r].type = "ranking" THEN Booth!Preferences(answer[r].cast, read[r].options)
        ELSE Booth!Chosen(answer[r].cast)

(* A request that has read the poll has read its type; a ballot that was   *)
(* checked fits the options that were read; and who has answered is done.  *)
VoterOK(r) ==
    /\ at[r] \in {"shown", "find", "write"} => Booth!Kind(r) = "vote"
    /\ at[r] \in {"count", "delete", "insert"} => Booth!Kind(r) = "edit"
    /\ at[r] \in {"read", "find", "write", "count", "delete", "insert"} =>
          poll # NoPoll /\ read[r].type = poll.type /\ read[r].max = poll.max /\ IsFiniteSet(read[r].options)
    /\ at[r] \in {"find", "write"} => Booth!Fits(Booth!Choice(r), read[r])
    /\ answer[r] # NoPoll => at[r] = "done" /\ (answer[r].fresh => TellsAll(r))

IsBallot(b) == Len(b) \in Nat /\ DOMAIN b = 1..Len(b)

(* A ballot that no edit has crossed is one of the poll as it is, and no    *)
(* edit is past its count of the votes.                                     *)
BallotsOK ==
    \A v \in Voters : ballots[v] # NoBallot /\ v \notin crossed =>
        /\ poll # NoPoll /\ IsBallot(ballots[v]) /\ Booth!Fits(ballots[v], poll)
        /\ \A q \in DOMAIN plan : at[q] \notin {"delete", "insert"}

VotingInv == VotingTyped /\ BallotsOK /\ \A r \in DOMAIN plan : VoterOK(r)

LEMMA VotingBegins ==
    ASSUME Booth!Parameters, Booth!Init
    PROVE  VotingInv
  <1>1. VotingTyped /\ BallotsOK
    BY DEF Booth!Init, VotingTyped, BallotsOK
  <1>2. \A r \in VotingRequests : at[r] = "idle" /\ answer[r] = NoPoll
    BY DEF Booth!Init
  <1>3. DOMAIN plan \subseteq VotingRequests
    BY DEF Booth!Init, Booth!Parameters
  <1> QED BY <1>1, <1>2, <1>3 DEF VotingInv, VoterOK

(* The plan says of each request what it is about. *)
LEMMA PlanOK ==
    ASSUME Booth!Parameters, VotingTyped, NEW r \in DOMAIN plan
    PROVE  /\ r \in VotingRequests /\ DOMAIN plan \subseteq VotingRequests
           /\ Booth!Kind(r) \in {"vote", "results"} => plan[r].voter \in Voters
           /\ Booth!Kind(r) = "vote" => IsBallot(Booth!Choice(r))
           /\ Booth!Kind(r) \in {"create", "edit"} =>
                 Booth!OptionsOf(r) \subseteq VotingRequests \X Nat /\ IsFiniteSet(Booth!OptionsOf(r))
  <1>1. plan \in VotingPlans /\ DOMAIN plan \subseteq VotingRequests
    BY DEF VotingTyped, Booth!Parameters
  <1>2. Booth!Kind(r) \in {"vote", "results"} => plan[r].voter \in Voters
    BY <1>1 DEF Booth!Parameters, Booth!Kind
  <1>3. ASSUME Booth!Kind(r) = "vote" PROVE IsBallot(Booth!Choice(r))
    <2>1. PICK n \in Nat : DOMAIN plan[r].choice = 1..n
      BY <1>1, <1>3 DEF Booth!Parameters, Booth!Kind
    <2>2. Booth!Choice(r) = [i \in 1..n |-> page[r][plan[r].choice[i]]]
      BY <2>1 DEF Booth!Choice
    <2> DEFINE S == {page[r][plan[r].choice[i]] : i \in 1..n}
    <2>3. Booth!Choice(r) \in Seq(S)
      BY <2>2
    <2> QED BY <2>3 DEF IsBallot
  <1>4. ASSUME Booth!Kind(r) \in {"create", "edit"}
        PROVE  Booth!OptionsOf(r) \subseteq VotingRequests \X Nat /\ IsFiniteSet(Booth!OptionsOf(r))
    <2> DEFINE n == plan[r].options
               f == [i \in 1..n |-> <<r, i>>]
    <2>1. n \in Nat
      BY <1>1, <1>4 DEF Booth!Parameters, Booth!Kind
    <2>2. f \in Surjection(1..n, Booth!OptionsOf(r))
      BY DEF Surjection, Booth!OptionsOf
    <2>3. IsFiniteSet(1..n)
      BY <2>1, FS_Interval
    <2> HIDE DEF f
    <2>4. IsFiniteSet(Booth!OptionsOf(r))
      BY <2>2, <2>3, FS_Surjection
    <2> QED BY <1>1, <2>1, <2>4 DEF Booth!OptionsOf
  <1> QED BY <1>1, <1>2, <1>3, <1>4

(* What a request changes of the others' variables: nothing, and of the     *)
(* poll never its type.                                                     *)
LEMMA OthersStay ==
    ASSUME Booth!Parameters, VotingInv, NEW r \in DOMAIN plan, Booth!Step(r)
    PROVE  /\ plan' = plan
           /\ DOMAIN at' = VotingRequests /\ DOMAIN page' = VotingRequests /\ DOMAIN read' = VotingRequests
           /\ DOMAIN answer' = VotingRequests /\ DOMAIN ballots' = Voters
           /\ \A q \in DOMAIN plan \ {r} :
                 at'[q] = at[q] /\ page'[q] = page[q] /\ read'[q] = read[q] /\ answer'[q] = answer[q]
           /\ poll # NoPoll => poll' # NoPoll /\ poll'.type = poll.type /\ poll'.max = poll.max
           /\ poll' # NoPoll => poll' \in Booth!Poll /\ IsFiniteSet(poll'.options)
  <1> USE DEF Booth!At, Booth!Goto
  <1>0. VotingTyped /\ VoterOK(r) /\ r \in VotingRequests /\ DOMAIN plan \subseteq VotingRequests
    BY PlanOK DEF VotingInv
  <1>1. plan' = plan /\ DOMAIN at' = VotingRequests /\ \A q \in DOMAIN plan \ {r} : at'[q] = at[q]
    BY <1>0 DEF Booth!Step, Booth!Create, Booth!Show, Booth!ReadPoll, Booth!CheckBallot,
                Booth!FindExisting, Booth!WriteBallot, Booth!CountVotes, Booth!DeleteOptions,
                Booth!CommitEdit, Booth!Close, Booth!Tally, Booth!Fail, VotingTyped
  <1>2. DOMAIN page' = VotingRequests /\ \A q \in DOMAIN plan \ {r} : page'[q] = page[q]
    BY <1>0 DEF Booth!Step, Booth!Create, Booth!Show, Booth!ReadPoll, Booth!CheckBallot,
                Booth!FindExisting, Booth!WriteBallot, Booth!CountVotes, Booth!DeleteOptions,
                Booth!CommitEdit, Booth!Close, Booth!Tally, Booth!Fail, VotingTyped
  <1>3. DOMAIN read' = VotingRequests /\ \A q \in DOMAIN plan \ {r} : read'[q] = read[q]
    BY <1>0 DEF Booth!Step, Booth!Create, Booth!Show, Booth!ReadPoll, Booth!CheckBallot,
                Booth!FindExisting, Booth!WriteBallot, Booth!CountVotes, Booth!DeleteOptions,
                Booth!CommitEdit, Booth!Close, Booth!Tally, Booth!Fail, VotingTyped
  <1>4. DOMAIN answer' = VotingRequests /\ \A q \in DOMAIN plan \ {r} : answer'[q] = answer[q]
    BY <1>0 DEF Booth!Step, Booth!Create, Booth!Show, Booth!ReadPoll, Booth!CheckBallot,
                Booth!FindExisting, Booth!WriteBallot, Booth!CountVotes, Booth!DeleteOptions,
                Booth!CommitEdit, Booth!Close, Booth!Tally, Booth!Fail, VotingTyped
  <1>5. DOMAIN ballots' = Voters
    BY <1>0 DEF Booth!Step, Booth!Create, Booth!Show, Booth!ReadPoll, Booth!CheckBallot,
                Booth!FindExisting, Booth!WriteBallot, Booth!CountVotes, Booth!DeleteOptions,
                Booth!CommitEdit, Booth!Close, Booth!Tally, Booth!Fail, VotingTyped
  <1>6. /\ poll # NoPoll => poll' # NoPoll /\ poll'.type = poll.type /\ poll'.max = poll.max
        /\ poll' # NoPoll => poll' \in Booth!Poll /\ IsFiniteSet(poll'.options)
    <2>1. CASE UNCHANGED poll
      BY <1>0, <2>1 DEF VotingTyped
    <2>2. CASE Booth!Create(r)
      <3>1. Booth!Kind(r) = "create"
        BY <2>2 DEF Booth!Create
      <3>2. CASE poll = NoPoll /\ Booth!CanCreate(plan[r])
        <4>1. poll' = [type |-> plan[r].type, max |-> plan[r].max, options |-> Booth!OptionsOf(r),
                       closesAt |-> plan[r].closesAt, closed |-> FALSE]
          BY <2>2, <3>2 DEF Booth!Create
        <4>2. /\ plan[r].type \in {"single", "multiple", "ranking"} /\ plan[r].max \in Nat
              /\ plan[r].closesAt \in 0..VOTING_CLOCK + 1
          BY <1>0, <3>1 DEF Booth!Parameters, VotingTyped, Booth!Kind
        <4>3. Booth!OptionsOf(r) \in SUBSET (VotingRequests \X Nat) /\ IsFiniteSet(Booth!OptionsOf(r))
          BY <1>0, <3>1, PlanOK
        <4> HIDE DEF Booth!OptionsOf
        <4> QED BY <3>2, <4>1, <4>2, <4>3 DEF Booth!Poll
      <3> QED BY <2>1, <2>2, <3>2 DEF Booth!Create
    <2>3. CASE Booth!CommitEdit(r)
      <3>1. poll # NoPoll /\ Booth!Kind(r) = "edit"
        BY <1>0, <2>3 DEF Booth!CommitEdit, VoterOK
      <3>2. poll \in Booth!Poll /\ IsFiniteSet(poll.options)
        BY <1>0, <3>1 DEF VotingTyped
      <3> DEFINE options == (poll.options \ doomed[r]) \cup Booth!OptionsOf(r)
      <3>3. Booth!OptionsOf(r) \in SUBSET (VotingRequests \X Nat) /\ IsFiniteSet(Booth!OptionsOf(r))
        BY <1>0, <3>1, PlanOK
      <3>4. IsFiniteSet(options)
        <4>1. IsFiniteSet(poll.options \ doomed[r])
          BY <3>2, FS_Difference
        <4> QED BY <3>3, <4>1, FS_Union
      <3>5. options \in SUBSET (VotingRequests \X Nat)
        BY <3>2, <3>3 DEF Booth!Poll
      <3>6. poll' = [poll EXCEPT !.options = options]
        BY <2>3 DEF Booth!CommitEdit
      <3> HIDE DEF options
      <3>7. poll' \in Booth!Poll /\ poll'.options = options /\ poll'.type = poll.type /\ poll'.max = poll.max
        BY <3>2, <3>5, <3>6 DEF Booth!Poll
      <3>8. NoPoll \notin Booth!Poll
        BY DEF Booth!Parameters
      <3> QED BY <3>4, <3>7, <3>8
    <2>4. CASE Booth!Close(r)
      <3>1. poll # NoPoll
        BY <1>0, <2>4 DEF Booth!Close, VoterOK
      <3>2. poll \in Booth!Poll /\ IsFiniteSet(poll.options)
        BY <1>0, <3>1 DEF VotingTyped
      <3>3. poll' = [poll EXCEPT !.closed = poll.closed \/ ~read[r].closed]
        BY <2>4 DEF Booth!Close
      <3>4. poll' \in Booth!Poll /\ poll'.options = poll.options /\ poll'.type = poll.type /\ poll'.max = poll.max
        BY <3>2, <3>3 DEF Booth!Poll
      <3>5. NoPoll \notin Booth!Poll
        BY DEF Booth!Parameters
      <3> QED BY <3>2, <3>4, <3>5
    <2> QED BY <2>1, <2>2, <2>3, <2>4 DEF Booth!Step, Booth!Show, Booth!ReadPoll, Booth!CheckBallot,
                Booth!FindExisting, Booth!WriteBallot, Booth!CountVotes, Booth!DeleteOptions,
                Booth!Tally, Booth!Fail
  <1> QED BY <1>1, <1>2, <1>3, <1>4, <1>5, <1>6

(* So the others may still rely on what they relied on. *)
LEMMA OtherVotersOK ==
    ASSUME Booth!Parameters, VotingInv, NEW r \in DOMAIN plan, Booth!Step(r), NEW q \in DOMAIN plan \ {r}
    PROVE  VoterOK(q)'
  <1>1. /\ plan' = plan /\ at'[q] = at[q] /\ page'[q] = page[q] /\ read'[q] = read[q] /\ answer'[q] = answer[q]
        /\ poll # NoPoll => poll' # NoPoll /\ poll'.type = poll.type /\ poll'.max = poll.max
    BY OthersStay
  <1>2. VoterOK(q)
    BY DEF VotingInv
  <1>3. Booth!Choice(q)' = Booth!Choice(q) /\ Booth!Kind(q)' = Booth!Kind(q)
    BY <1>1 DEF Booth!Choice, Booth!Kind
  <1>4. TellsAll(q)' <=> TellsAll(q)
    BY <1>1 DEF TellsAll, Booth!Preferences, Booth!Chosen
  <1> QED BY <1>1, <1>2, <1>3, <1>4 DEF VoterOK, Booth!Fits

(* What a voter is shown when no edit has crossed counts every ballot.     *)
LEMMA TallyTellsAll ==
    ASSUME Booth!Parameters, VotingInv, NEW r \in DOMAIN plan, at[r] = "read",
           crossed = {}, read[r].options = poll.options
    PROVE  SumFunction([option \in read[r].options |-> Booth!Score(read[r], Booth!Cast, option)])
           = IF read[r].type = "ranking" THEN Booth!Preferences(Booth!Cast, read[r].options)
             ELSE Booth!Chosen(Booth!Cast)
  <1> DEFINE all == Booth!Cast
             options == read[r].options
  <1>1. /\ poll # NoPoll /\ read[r].type = poll.type /\ IsFiniteSet(options)
        /\ BallotsOK /\ IsFiniteSet(Voters)
    BY DEF VotingInv, VoterOK, Booth!Parameters, Booth!IsFiniteSet, IsFiniteSet
  <1>2. DOMAIN all \in SUBSET Voters /\ \A v \in DOMAIN all : v \in Voters /\ ballots[v] # NoBallot /\ all[v] = ballots[v]
    BY DEF Booth!Cast
  <1>3. IsFiniteSet(DOMAIN all)
    BY <1>1, <1>2, FS_Subset
  <1>4. \A v \in DOMAIN all : IsBallot(all[v]) /\ Booth!Fits(all[v], poll)
    BY <1>1, <1>2 DEF BallotsOK
  <1> HIDE DEF all
  <1>5. AreBallots(all, options)
    BY <1>1, <1>3, <1>4 DEF AreBallots, IsBallot, Booth!Fits
  <1>6. CASE read[r].type = "ranking"
    <2>1. \A v \in DOMAIN all : Len(all[v]) = Cardinality(options)
      BY <1>1, <1>4, <1>6, BoothSame DEF Booth!Fits
    <2>2. [option \in options |-> Booth!Score(read[r], all, option)]
          = [option \in options |-> Booth!Borda(all, option, Cardinality(options))]
      BY <1>6, BoothSame DEF Booth!Score
    <2> QED BY <1>5, <1>6, <2>1, <2>2, RanksAddUp DEF all
  <1>7. CASE read[r].type # "ranking"
    <2>1. [option \in options |-> Booth!Score(read[r], all, option)]
          = [option \in options |-> Booth!Counts(all, option)]
      BY <1>7 DEF Booth!Score
    <2> QED BY <1>5, <1>7, <2>1, ChoicesAddUp DEF all
  <1> QED BY <1>6, <1>7

LEMMA VoterStep ==
    ASSUME Booth!Parameters, VotingInv, NEW r \in DOMAIN plan, Booth!Step(r)
    PROVE  VoterOK(r)'
  <1> USE DEF Booth!At, Booth!Goto, Booth!Kind, Booth!Ends
  <1>0. VotingTyped /\ VoterOK(r) /\ r \in VotingRequests
    BY PlanOK DEF VotingInv
  <1>1. poll # NoPoll => poll' # NoPoll /\ poll'.type = poll.type /\ poll'.max = poll.max
    BY OthersStay
  <1>2. /\ DOMAIN at = VotingRequests /\ DOMAIN read = VotingRequests /\ DOMAIN page = VotingRequests
        /\ DOMAIN answer = VotingRequests
    BY <1>0 DEF VotingTyped
  <1>3. ASSUME page' = page, read' = read, plan' = plan
        PROVE  /\ Booth!Choice(r)' = Booth!Choice(r)
               /\ Booth!Fits(Booth!Choice(r), read[r])' <=> Booth!Fits(Booth!Choice(r), read[r])
    BY <1>3 DEF Booth!Choice, Booth!Fits
  <1>4. CASE Booth!Create(r)
    BY <1>0, <1>2, <1>4 DEF Booth!Create, VoterOK
  <1>5. CASE Booth!Show(r)
    BY <1>0, <1>2, <1>5 DEF Booth!Show, VoterOK
  <1>6. CASE Booth!ReadPoll(r)
    <2>1. IsFiniteSet(poll.options)
      BY <1>0, <1>6 DEF VotingTyped, Booth!ReadPoll
    <2>2. Booth!Kind(r) \in {"edit", "close", "vote", "results"} /\ answer[r] = NoPoll
      BY <1>0, <1>6 DEF Booth!ReadPoll, VoterOK, VotingTyped, Booth!Parameters
    <2> QED BY <1>0, <1>2, <1>6, <2>1, <2>2 DEF Booth!ReadPoll, VoterOK
  <1>7. CASE Booth!CheckBallot(r)
    BY <1>0, <1>2, <1>3, <1>7 DEF Booth!CheckBallot, VoterOK
  <1>8. CASE Booth!FindExisting(r)
    BY <1>0, <1>2, <1>3, <1>8 DEF Booth!FindExisting, VoterOK
  <1>9. CASE Booth!WriteBallot(r)
    BY <1>0, <1>2, <1>9 DEF Booth!WriteBallot, VoterOK
  <1>10. CASE Booth!CountVotes(r)
    BY <1>0, <1>2, <1>10 DEF Booth!CountVotes, VoterOK
  <1>11. CASE Booth!DeleteOptions(r)
    BY <1>0, <1>2, <1>11 DEF Booth!DeleteOptions, VoterOK
  <1>12. CASE Booth!CommitEdit(r)
    BY <1>0, <1>2, <1>12 DEF Booth!CommitEdit, VoterOK
  <1>13. CASE Booth!Close(r)
    BY <1>0, <1>2, <1>13 DEF Booth!Close, VoterOK
  <1>14. CASE Booth!Fail(r)
    BY <1>0, <1>2, <1>14 DEF Booth!Fail, VoterOK
  <1>15. CASE Booth!Tally(r)
    <2>1. CASE plan[r].voter \in DOMAIN Booth!Cast
      <3>1. /\ at'[r] = "done" /\ read' = read
            /\ answer'[r].scores = [option \in read[r].options |-> Booth!Score(read[r], Booth!Cast, option)]
            /\ answer'[r].cast = Booth!Cast
            /\ answer'[r].fresh <=> crossed = {} /\ read[r].options = poll.options
        <4> DEFINE a == [total |-> Booth!Cardinality(DOMAIN Booth!Cast),
                         scores |-> [option \in read[r].options |-> Booth!Score(read[r], Booth!Cast, option)],
                         cast |-> Booth!Cast,
                         fresh |-> crossed = {} /\ read[r].options = poll.options]
        <4>1. answer' = [answer EXCEPT ![r] = a] /\ read' = read /\ at' = [at EXCEPT ![r] = "done"]
          BY <1>15, <2>1 DEF Booth!Tally
        <4>2. /\ a.scores = [option \in read[r].options |-> Booth!Score(read[r], Booth!Cast, option)]
              /\ a.cast = Booth!Cast
              /\ a.fresh = (crossed = {} /\ read[r].options = poll.options)
          OBVIOUS
        <4> HIDE DEF a
        <4>3. answer'[r] = a /\ at'[r] = "done"
          BY <1>0, <1>2, <4>1
        <4> QED BY <4>1, <4>2, <4>3, Zenon
      <3>2. at[r] = "read"
        BY <1>15 DEF Booth!Tally
      <3>3. answer'[r].fresh => TellsAll(r)'
        <4> SUFFICES ASSUME answer'[r].fresh PROVE TellsAll(r)'
          OBVIOUS
        <4>1. crossed = {} /\ read[r].options = poll.options
          BY <3>1
        <4>2. SumFunction([option \in read[r].options |-> Booth!Score(read[r], Booth!Cast, option)])
              = IF read[r].type = "ranking" THEN Booth!Preferences(Booth!Cast, read[r].options)
                ELSE Booth!Chosen(Booth!Cast)
          BY <3>2, <4>1, TallyTellsAll
        <4> QED BY <3>1, <4>2 DEF TellsAll, Booth!Preferences, Booth!Chosen
      <3> QED BY <3>1, <3>3 DEF VoterOK
    <2>2. CASE plan[r].voter \notin DOMAIN Booth!Cast
      BY <1>0, <1>2, <1>15, <2>2 DEF Booth!Tally, VoterOK
    <2> QED BY <2>1, <2>2
  <1> QED BY <1>4, <1>5, <1>6, <1>7, <1>8, <1>9, <1>10, <1>11, <1>12, <1>13, <1>14, <1>15 DEF Booth!Step

LEMMA BallotsStay ==
    ASSUME Booth!Parameters, VotingInv, NEW r \in DOMAIN plan, Booth!Step(r)
    PROVE  BallotsOK'
  <1> USE DEF Booth!At, Booth!Goto, Booth!Kind, Booth!Ends
  <1>0. VotingTyped /\ VoterOK(r) /\ r \in VotingRequests /\ BallotsOK /\ DOMAIN plan \subseteq VotingRequests
    BY PlanOK DEF VotingInv
  <1>1. /\ plan' = plan /\ \A q \in DOMAIN plan \ {r} : at'[q] = at[q]
        /\ DOMAIN at = VotingRequests /\ DOMAIN ballots = Voters
    BY <1>0, OthersStay DEF VotingTyped
  <1>2. ASSUME UNCHANGED <<poll, ballots, crossed>>, at'[r] \notin {"delete", "insert"}
        PROVE  BallotsOK'
    <2>1. \A v \in Voters : Booth!Fits(ballots[v], poll)' <=> Booth!Fits(ballots[v], poll)
      BY <1>2 DEF Booth!Fits
    <2> QED BY <1>0, <1>1, <1>2, <2>1 DEF BallotsOK, IsBallot
  <1>3. CASE Booth!Create(r)
    BY <1>0, <1>1, <1>2, <1>3 DEF Booth!Create, BallotsOK
  <1>4. CASE Booth!Show(r) \/ Booth!ReadPoll(r) \/ Booth!CheckBallot(r) \/ Booth!FindExisting(r)
    BY <1>0, <1>1, <1>2, <1>4 DEF Booth!Show, Booth!ReadPoll, Booth!CheckBallot, Booth!FindExisting
  <1>5. CASE Booth!WriteBallot(r)
    <2> DEFINE w == plan[r].voter
    <2>1. CASE known[r] \/ ballots[w] = NoBallot
      <3>1. /\ poll' = poll /\ read' = read /\ ballots' = [ballots EXCEPT ![w] = Booth!Choice(r)]
            /\ at'[r] = "done"
            /\ crossed' = IF (\E q \in VotingRequests : Booth!IsEditing(q)) \/ read[r].options # poll.options
                          THEN crossed \cup {w} ELSE crossed \ {w}
        BY <1>0, <1>1, <1>5, <2>1 DEF Booth!WriteBallot
      <3>2. /\ Booth!Kind(r) = "vote" /\ Booth!Fits(Booth!Choice(r), read[r])
            /\ poll # NoPoll /\ read[r].type = poll.type /\ read[r].max = poll.max
        BY <1>0, <1>5 DEF Booth!WriteBallot, VoterOK
      <3>3. w \in Voters /\ IsBallot(Booth!Choice(r))
        BY <1>0, <3>2, PlanOK
      <3> SUFFICES ASSUME NEW v \in Voters, ballots'[v] # NoBallot, v \notin crossed'
                   PROVE  /\ poll # NoPoll /\ IsBallot(ballots'[v]) /\ Booth!Fits(ballots'[v], poll)
                          /\ \A q \in DOMAIN plan : at'[q] \notin {"delete", "insert"}
        <4>1. \A v \in Voters : Booth!Fits(ballots[v], poll)' <=> Booth!Fits(ballots'[v], poll)
          BY <3>1 DEF Booth!Fits
        <4> QED BY <1>1, <3>1, <4>1 DEF BallotsOK, IsBallot
      <3>4. CASE v = w
        <4>1. ~(\E q \in VotingRequests : Booth!IsEditing(q)) /\ read[r].options = poll.options
          BY <3>1, <3>4
        <4>2. ballots'[v] = Booth!Choice(r)
          BY <1>1, <3>1, <3>4
        <4>3. Booth!Fits(Booth!Choice(r), poll)
          <5> HIDE DEF Booth!Choice
          <5> QED BY <3>2, <4>1 DEF Booth!Fits
        <4>4. \A q \in DOMAIN plan : at'[q] \notin {"delete", "insert"}
          BY <1>0, <1>1, <3>1, <4>1 DEF Booth!IsEditing
        <4> QED BY <3>2, <3>3, <4>2, <4>3, <4>4
      <3>5. CASE v # w
        BY <1>0, <1>1, <3>1, <3>5 DEF BallotsOK
      <3> QED BY <3>4, <3>5
    <2>2. CASE ~(known[r] \/ ballots[w] = NoBallot)
      BY <1>0, <1>1, <1>2, <1>5, <2>2 DEF Booth!WriteBallot
    <2> QED BY <2>1, <2>2
  <1>6. CASE Booth!CountVotes(r)
    <2>1. CASE Booth!HasNoVotes
      BY <1>0, <1>6, <2>1 DEF Booth!CountVotes, Booth!HasNoVotes, BallotsOK
    <2>2. CASE ~Booth!HasNoVotes
      BY <1>0, <1>1, <1>2, <1>6, <2>2 DEF Booth!CountVotes
    <2> QED BY <2>1, <2>2
  <1>7. CASE Booth!DeleteOptions(r) \/ Booth!CommitEdit(r)
    <2>1. at[r] \in {"delete", "insert"} /\ ballots' = ballots /\ crossed' = crossed
      BY <1>7 DEF Booth!DeleteOptions, Booth!CommitEdit
    <2> QED BY <1>0, <2>1 DEF BallotsOK
  <1>8. CASE Booth!Close(r)
    <2>1. poll # NoPoll
      BY <1>0, <1>8 DEF Booth!Close, VoterOK
    <2>2. /\ poll' # NoPoll /\ poll'.options = poll.options /\ poll'.max = poll.max /\ poll'.type = poll.type
      BY <1>0, <1>8, <2>1, OthersStay DEF Booth!Close, VotingTyped, Booth!Poll
    <2>3. ballots' = ballots /\ crossed' = crossed /\ at'[r] = "done"
      BY <1>0, <1>1, <1>8 DEF Booth!Close
    <2>4. \A v \in Voters : Booth!Fits(ballots[v], poll)' <=> Booth!Fits(ballots[v], poll)
      BY <2>2, <2>3 DEF Booth!Fits
    <2> QED BY <1>0, <1>1, <2>2, <2>3, <2>4 DEF BallotsOK, IsBallot
  <1>9. CASE Booth!Tally(r)
    BY <1>0, <1>1, <1>2, <1>9 DEF Booth!Tally
  <1>10. CASE Booth!Fail(r)
    BY <1>0, <1>1, <1>2, <1>10 DEF Booth!Fail
  <1> QED BY <1>3, <1>4, <1>5, <1>6, <1>7, <1>8, <1>9, <1>10 DEF Booth!Step

LEMMA VotingStep ==
    ASSUME Booth!Parameters, VotingInv, [Booth!Next]_Booth!vars
    PROVE  VotingInv'
  <1>1. ASSUME NEW r \in DOMAIN plan, Booth!Step(r) PROVE VotingInv'
    <2>1. \A q \in DOMAIN plan : VoterOK(q)'
      BY <1>1, VoterStep, OtherVotersOK
    <2>2. VotingTyped'
      BY <1>1, OthersStay DEF VotingInv, VotingTyped
    <2>3. BallotsOK' /\ plan' = plan
      BY <1>1, BallotsStay, OthersStay
    <2> QED BY <2>1, <2>2, <2>3 DEF VotingInv
  <1>2. CASE Booth!Elapse \/ UNCHANGED Booth!vars
    <2>1. /\ plan' = plan /\ at' = at /\ page' = page /\ read' = read /\ answer' = answer
          /\ poll' = poll /\ ballots' = ballots /\ crossed' = crossed
      BY <1>2 DEF Booth!Elapse, Booth!vars
    <2>2. VotingTyped'
      BY <2>1 DEF VotingInv, VotingTyped
    <2>3. BallotsOK'
      BY <2>1 DEF VotingInv, BallotsOK, IsBallot, Booth!Fits
    <2>4. ASSUME NEW q \in DOMAIN plan PROVE VoterOK(q)'
      <3>1. Booth!Choice(q)' = Booth!Choice(q) /\ Booth!Kind(q)' = Booth!Kind(q) /\ (TellsAll(q)' <=> TellsAll(q))
        BY <2>1 DEF Booth!Choice, Booth!Kind, TellsAll, Booth!Preferences, Booth!Chosen
      <3> QED BY <2>1, <3>1 DEF VotingInv, VoterOK, Booth!Fits
    <2> QED BY <2>1, <2>2, <2>3, <2>4 DEF VotingInv
  <1> QED BY <1>1, <1>2 DEF Booth!Next

LEMMA VotingSafe ==
    ASSUME VotingInv
    PROVE  Booth!EveryBallotCounts
  BY BoothSame DEF VotingInv, VoterOK, TellsAll, Booth!EveryBallotCounts

---------------------------------------------------------------------------
(*                       What keeps accounts, as one                        *)

(* Every step is one of the store, or changes nothing of it; and likewise   *)
(* for the wallets.                                                         *)
LEMMA PartsStep ==
    ASSUME [AccountsNext]_accountVars
    PROVE  [Kv!Next]_Kv!vars /\ [Next]_vars
  <1>1. CASE KeepWallet
    BY <1>1 DEF KeepWallet, ofKv, Kv!vars
  <1>2. CASE KeepKeys
    BY <1>2 DEF KeepKeys, vars
  <1>3. CASE KeepLogins \/ KeepVotes \/ KeepBooks \/ KeepHouses
    <2>1. UNCHANGED <<vars, ofKv>>
      BY <1>3 DEF KeepLogins, KeepVotes, KeepBooks, KeepHouses
    <2> QED BY <2>1 DEF vars, ofKv, Kv!vars
  <1>4. CASE UNCHANGED accountVars
    <2>1. UNCHANGED <<vars, ofKv>>
      BY <1>4 DEF accountVars
    <2> QED BY <2>1 DEF vars, ofKv, Kv!vars
  <1> QED BY <1>1, <1>2, <1>3, <1>4 DEF AccountsNext

(* What keeps logins does nothing else. *)
LEMMA LoginsStep ==
    ASSUME [AccountsNext]_accountVars
    PROVE  live' = live /\ (live = "login" => [Gate!Next]_Gate!vars)
  <1>1. CASE AccountsNext
    <2>1. live' = live
      BY <1>1 DEF AccountsNext, KeepWallet, KeepKeys, KeepLogins, KeepVotes, KeepBooks, KeepHouses
    <2>2. ASSUME live = "login" PROVE Gate!Next
      BY <1>1, <2>2 DEF AccountsNext, KeepWallet, KeepKeys, KeepLogins, KeepVotes, KeepBooks, KeepHouses
    <2> QED BY <2>1, <2>2
  <1>2. CASE UNCHANGED accountVars
    <2>1. live' = live /\ UNCHANGED <<ofRequests, ofLogin>>
      BY <1>2 DEF accountVars
    <2>2. UNCHANGED Gate!vars
      BY <2>1 DEF ofRequests, ofLogin, Gate!vars, Gate!requestVars, Gate!ghosts
    <2> QED BY <2>1, <2>2
  <1> QED BY <1>1, <1>2

LEMMA LoginsSafe == Accounts => [](live = "login" => LoginInv)
  <1>1. AccountsInit => (live = "login" => LoginInv)
    BY LoginParameters, LoginInit DEF AccountsInit
  <1>2. (live = "login" => LoginInv) /\ [AccountsNext]_accountVars => (live = "login" => LoginInv)'
    BY LoginParameters, LoginsStep, LoginStep
  <1> QED BY <1>1, <1>2, PTL DEF Accounts

(* However many logins hold the same unused backup code, one of them redeems *)
(* it while the claim lasts (AuthService.completeTwoFactorLogin).            *)
THEOREM AccountsRedeemOnce == Accounts => []CodeRedeemedOnce
  <1>1. (live = "login" => LoginInv) => CodeRedeemedOnce
    BY LoginParameters, LoginSafe DEF CodeRedeemedOnce
  <1> QED BY <1>1, LoginsSafe, PTL

(* A session that was answered works until it expires, whatever else is      *)
(* signed in, refreshed or signed out meanwhile (AuthService.refreshToken,    *)
(* clearToken; AuthenticationService).                                       *)
THEOREM AccountsSessionsWork == Accounts => []AnsweredSessionsWork
  <1>1. (live = "login" => LoginInv) => AnsweredSessionsWork
    BY LoginParameters, LoginSafe DEF AnsweredSessionsWork
  <1> QED BY <1>1, LoginsSafe, PTL

(* What keeps the polls does nothing else. *)
LEMMA VotesStep ==
    ASSUME [AccountsNext]_accountVars
    PROVE  live' = live /\ (live = "voting" => [Booth!Next]_Booth!vars)
  <1>1. CASE AccountsNext
    <2>1. live' = live
      BY <1>1 DEF AccountsNext, KeepWallet, KeepKeys, KeepLogins, KeepVotes, KeepBooks, KeepHouses
    <2>2. ASSUME live = "voting" PROVE Booth!Next
      BY <1>1, <2>2 DEF AccountsNext, KeepWallet, KeepKeys, KeepLogins, KeepVotes, KeepBooks, KeepHouses
    <2> QED BY <2>1, <2>2
  <1>2. CASE UNCHANGED accountVars
    <2>1. live' = live /\ UNCHANGED <<ofRequests, ofVoting>>
      BY <1>2 DEF accountVars
    <2>2. UNCHANGED Booth!vars
      BY <2>1 DEF ofRequests, ofVoting, Booth!vars
    <2> QED BY <2>1, <2>2
  <1> QED BY <1>1, <1>2

(* Whatever is voted, changed, edited and closed meanwhile, the results     *)
(* that a voter is shown count every ballot, but for those that an edit      *)
(* crossed (VotingService.submitVote, editPoll, getResults).                *)
THEOREM AccountsCountEveryBallot == Accounts => []EveryBallotCounts
  <1>1. AccountsInit => (live = "voting" => VotingInv)
    BY VotingParameters, VotingBegins DEF AccountsInit
  <1>2. (live = "voting" => VotingInv) /\ [AccountsNext]_accountVars => (live = "voting" => VotingInv)'
    BY VotingParameters, VotesStep, VotingStep
  <1>3. (live = "voting" => VotingInv) => EveryBallotCounts
    BY VotingSafe DEF EveryBallotCounts
  <1> QED BY <1>1, <1>2, <1>3, PTL DEF Accounts

(* The key-value table is a store whose entries end on time, whether and     *)
(* whenever the expired rows are deleted, and the map of the tests answers    *)
(* every call as the table does (PostgresKvStore, InMemoryKvStore).          *)
THEOREM AccountsImplementLiveStore == Accounts => ImplementsLiveStore
  <1>1. AccountsInit => KvInv /\ Kv!Live!Init
    <2>1. Kv!Init => KvInv
      BY KvParameters, KvBegins
    <2>2. Kv!Init => Kv!Live!Init
      BY DEF Kv!Init, Kv!Live!Init, Kv!Empty, Kv!LiveKeys
    <2> QED BY <2>1, <2>2 DEF AccountsInit
  <1>2. KvInv /\ [AccountsNext]_accountVars => KvInv'
    BY KvParameters, PartsStep, KvStep
  <1>3. KvInv /\ [AccountsNext]_accountVars => [Kv!Live!Next]_Kv!Live!vars
    BY KvParameters, PartsStep, KvStep DEF KvMapped
  <1>4. KvInv => Kv!FakeAnswersAlike /\ Kv!SameWhileLive
    BY DEF KvInv
  <1> QED BY <1>1, <1>2, <1>3, <1>4, PTL DEF Accounts, ImplementsLiveStore, Kv!ImplementsLiveStore, Kv!Live!Spec

(* The wallets are what they are alone, whatever else keeps accounts: each   *)
(* is explained by its log, requests wait in a circle only as stated in       *)
(* WalletNoCircularWait, and together they behave as if every request ran at  *)
(* once.                                                                      *)
THEOREM AccountsKeepWallets == Accounts => [](LedgerExplainsBalance /\ NoCircularWait) /\ ImplementsBank
  <1>1. AccountsInit => Init
    BY DEF AccountsInit
  <1>2. [AccountsNext]_accountVars => [Next]_vars
    BY PartsStep
  <1>3. Accounts => Spec
    BY <1>1, <1>2, PTL DEF Accounts, Spec
  <1> QED BY <1>3, WalletLedger, WalletNoCircularWait, WalletImplementsBank, PTL
=============================================================================
