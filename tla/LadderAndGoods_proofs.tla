----------------------- MODULE LadderAndGoods_proofs -----------------------
(***************************************************************************)
(* The inductive invariants of two parts of Play, for Play_proofs.          *)
(*                                                                          *)
(* Ladder.  LadderInv says that a fight reads the rows of its two players   *)
(* under their locks, that what it has read of them is what they are, and   *)
(* that the limits it checked still hold because its monster is locked;     *)
(* LadderSafe that every row is what its fights made of it.  A step of one  *)
(* request leaves what the others rely on alone (LadderAlone, LadderOwn).   *)
(*                                                                          *)
(* Goods.  GoodsInv says what a request relies on because of the rows it    *)
(* has locked: the piece it touches is still there, the job in the queue    *)
(* is still the one it read, the pets it dresses are still at home.         *)
(* GoodsEnd pairs each piece that has ended with its one log entry, and     *)
(* GoodsFit says of every set of the requests under way that the bag would  *)
(* be too full only by what met there, if they committed: each that has     *)
(* inserted a piece holds the row of its queue, so no two are of one queue. *)
(* GoodsAlone and GoodsOwn are what a step leaves to others.                *)
(***************************************************************************)
EXTENDS Play, NatFacts, FiniteSetTheorems, SequenceTheorems, TLAPS

---------------------------------------------------------------------------
(*                                 Ladder                                   *)

(* What Pvp takes from the libraries is what the proofs take. *)
LEMMA LadderSame ==
    \A S : Ladder!Cardinality(S) = Cardinality(S) /\ (Ladder!IsFiniteSet(S) <=> IsFiniteSet(S))
  <1>1. \A S : Ladder!Cardinality(S) = Cardinality(S)
    BY DEF Ladder!Cardinality, Cardinality
  <1>2. \A S : Ladder!IsFiniteSet(S) <=> IsFiniteSet(S)
    BY DEF Ladder!IsFiniteSet, IsFiniteSet
  <1> QED BY <1>1, <1>2

(* What a request has of its locks, and the keys of the rows it is about.  *)
Taken(r, x) == \E i \in 1..step[r] : Ladder!RowsOf(r)[i] = x
KeysOf(r) == IF Ladder!Kind(r) = "battle" /\ Ladder!IsReal(r) THEN {Ladder!Mine(r), Ladder!Theirs(r)} ELSE {Ladder!Mine(r)}
HasJoined(r) == \E k \in KeysOf(r) : Taken(r, Ladder!Insert(k))

(* The state of a request. *)
LadderStage(r) ==
    /\ step[r] <= Len(Ladder!RowsOf(r))
    /\ pc[r] \in {"idle", "begun"} => step[r] = 0
    /\ ~Ladder!IsOpen(r) => fresh[r] = Ladder!NoRows /\ seen[r] = Ladder!NoRows
    /\ pc[r] # "idle" => now[r] <= clock
    /\ Ladder!IsOpen(r) => now[r] <= began[r] /\ began[r] <= clock
    /\ Ladder!Kind(r) = "claim" /\ step[r] > 0 => Ladder!Mine(r) \in DOMAIN ratings

(* What an open request holds and has inserted. *)
LadderHeld(r) ==
    /\ \A x : Ladder!IsOpen(r) /\ Taken(r, x) /\ x[1] # "insert" => Ladder!HolderOf(x) = r
    /\ \A x : Ladder!HolderOf(x) = r => Ladder!IsOpen(r) /\ Taken(r, x)
    /\ \A k \in KeysOf(r) : Ladder!IsOpen(r) /\ Taken(r, Ladder!Insert(k)) => k \in DOMAIN ratings \cup DOMAIN fresh[r]
    /\ \A k \in DOMAIN fresh[r] :
          /\ k \in KeysOf(r) /\ k \notin DOMAIN ratings /\ Ladder!HolderOf(Ladder!Insert(k)) = r
          /\ fresh[r][k] \in Ladder!Row /\ fresh[r][k].wins = 0 /\ fresh[r][k].losses = 0

(* The rows an open request has locked are what it has read of them. *)
LadderSeen(r) ==
    /\ \A k \in DOMAIN seen[r] : k \in KeysOf(r) /\ Taken(r, Ladder!Rating(k))
    /\ \A k \in KeysOf(r) : Ladder!IsOpen(r) /\ Taken(r, Ladder!Rating(k)) =>
          /\ k \in DOMAIN seen[r] /\ seen[r][k] = Ladder!RowSeen(r, k)
          /\ k \in DOMAIN ratings \cup DOMAIN fresh[r]

(* The rules it has checked still hold. *)
LadderChecked(r) ==
    Ladder!IsOpen(r) /\ Ladder!Kind(r) = "battle" =>
        /\ HasJoined(r) =>
              /\ Ladder!Rival(r) # Ladder!User(r)
              /\ Cardinality(Ladder!Fights(Ladder!User(r), Ladder!DayStart(now[r]))) < PVP_DAILY_ATTEMPTS
        /\ Ladder!HasAll(r) /\ Ladder!IsReal(r) =>
              Cardinality(Ladder!FightsWith(Ladder!User(r), Ladder!Rival(r), Ladder!DayStart(now[r]))) < PVP_MAX_FIGHTS_PER_OPPONENT_PER_DAY

BattleRow == [attacker : Players, rival : Players \cup DOMAIN Npcs, season : Nat, won : BOOLEAN, at : Nat,
              attackerBefore : Nat, attackerAfter : Nat, rivalBefore : Nat, rivalAfter : Nat]

LadderControl ==
    /\ plan \in PvpPlans
    /\ pc \in [Requests -> {"idle", "begun", "open"} \cup Ladder!Ended]
    /\ step \in [Requests -> Nat] /\ now \in [Requests -> Nat] /\ began \in [Requests -> Nat]
    /\ clock \in Nat
    /\ fresh = [r \in Requests |-> fresh[r]] /\ seen = [r \in Requests |-> seen[r]]
    /\ \A x \in DOMAIN holder : holder[x] \in DOMAIN plan
    /\ \A r \in Requests \ DOMAIN plan : fresh[r] = Ladder!NoRows

LadderTables ==
    /\ DOMAIN ratings \subseteq Ladder!Keys /\ \A k \in DOMAIN ratings : ratings[k] \in Ladder!Row
    /\ battles \in Seq(BattleRow)

LadderInv ==
    /\ LadderControl /\ LadderTables
    /\ \A r \in DOMAIN plan : LadderStage(r) /\ LadderHeld(r) /\ LadderSeen(r) /\ LadderChecked(r)

---------------------------------------------------------------------------
LEMMA LadderRequests ==
    ASSUME plan \in PvpPlans
    PROVE  /\ DOMAIN plan \subseteq Requests /\ NoRequest \notin Requests
           /\ \A r \in DOMAIN plan :
                 /\ Ladder!Kind(r) \in {"battle", "defend", "claim"} /\ Ladder!User(r) \in Players
                 /\ Ladder!Rival(r) \in Players \cup DOMAIN Npcs /\ plan[r].discovers \in BOOLEAN /\ plan[r].season \in Nat
  BY PvpParameters, LadderSame DEF Ladder!PvpAssumption, Ladder!PlannedRequest, Ladder!Kind, Ladder!User, Ladder!Rival

LEMMA LadderSeason ==
    ASSUME plan \in PvpPlans, NEW r \in DOMAIN plan, now[r] \in Nat
    PROVE  Ladder!Season(r) \in Nat
  <1>1. SEASON \in Nat \ {0}
    BY PvpParameters, LadderSame DEF Ladder!PvpAssumption
  <1>2. Ladder!SeasonOf(now[r]) \in Nat
    BY <1>1 DEF Ladder!SeasonOf
  <1> QED BY <1>2, LadderRequests DEF Ladder!Season

LEMMA LadderKeys ==
    ASSUME plan \in PvpPlans, NEW r \in DOMAIN plan, now[r] \in Nat
    PROVE  /\ KeysOf(r) \subseteq Ladder!Keys /\ Ladder!Mine(r) \in KeysOf(r)
           /\ Ladder!Kind(r) = "battle" /\ Ladder!IsReal(r) => KeysOf(r) = {Ladder!Mine(r), Ladder!Theirs(r)}
           /\ ~(Ladder!Kind(r) = "battle" /\ Ladder!IsReal(r)) => KeysOf(r) = {Ladder!Mine(r)}
           /\ Ladder!Mine(r)[1] = Ladder!User(r) /\ Ladder!Theirs(r)[1] = Ladder!Rival(r)
           /\ Ladder!Mine(r)[2] = Ladder!Season(r) /\ Ladder!Theirs(r)[2] = Ladder!Season(r)
           /\ Ladder!Rival(r) # Ladder!User(r) => Ladder!Mine(r) # Ladder!Theirs(r)
  BY LadderRequests, LadderSeason DEF KeysOf, Ladder!Keys, Ladder!Mine, Ladder!Theirs, Ladder!IsReal

Ticked(r) == IF plan[r].discovers THEN <<Ladder!Monster(Ladder!User(r)), Ladder!Wallet(Ladder!User(r))>> ELSE <<Ladder!Monster(Ladder!User(r))>>
Locks(r) == {Ladder!Monster(Ladder!User(r)), Ladder!Wallet(Ladder!User(r))} \cup {Ladder!Insert(k) : k \in KeysOf(r)} \cup {Ladder!Rating(k) : k \in KeysOf(r)}
LadderHead(r) == IF plan[r].discovers THEN 2 ELSE 1

LEMMA LadderHeads ==
    ASSUME plan \in PvpPlans, NEW r \in DOMAIN plan
    PROVE  /\ Ticked(r) \in Seq(Locks(r)) /\ Len(Ticked(r)) = LadderHead(r) /\ LadderHead(r) \in 1..2
           /\ Ticked(r)[1] = Ladder!Monster(Ladder!User(r)) /\ \A i \in 1..LadderHead(r) : Ticked(r)[i][1] \in {"monster", "wallet"}
  <1>1. Ladder!Monster(Ladder!User(r)) \in Locks(r) /\ Ladder!Wallet(Ladder!User(r)) \in Locks(r)
    BY DEF Locks
  <1>2. Ladder!Monster(Ladder!User(r))[1] = "monster" /\ Ladder!Wallet(Ladder!User(r))[1] = "wallet"
    BY DEF Ladder!Monster, Ladder!Wallet
  <1>3. CASE plan[r].discovers
    <2>1. Ticked(r) = <<Ladder!Monster(Ladder!User(r)), Ladder!Wallet(Ladder!User(r))>> /\ LadderHead(r) = 2
      BY <1>3 DEF Ticked, LadderHead
    <2> QED BY <1>1, <1>2, <2>1
  <1>4. CASE ~plan[r].discovers
    <2>1. Ticked(r) = <<Ladder!Monster(Ladder!User(r))>> /\ LadderHead(r) = 1
      BY <1>4 DEF Ticked, LadderHead
    <2> QED BY <1>1, <1>2, <2>1
  <1> QED BY <1>3, <1>4

(* The locks of a request after those of its tick. *)
LEMMA LadderAfterHead ==
    ASSUME NEW S, NEW h \in Seq(S), NEW m \in Seq(S)
    PROVE  /\ h \o m \in Seq(S) /\ Len(h \o m) = Len(h) + Len(m)
           /\ \A i \in 1..Len(h) : (h \o m)[i] = h[i]
           /\ \A i \in 1..Len(m) : (h \o m)[Len(h) + i] = m[i]
  <1>1. /\ Len(h) \in Nat /\ Len(m) \in Nat /\ Len(h \o m) = Len(h) + Len(m) /\ h \o m \in Seq(S)
        /\ \A i \in 1..Len(h) + Len(m) : (h \o m)[i] = IF i <= Len(h) THEN h[i] ELSE m[i - Len(h)]
    BY ConcatProperties, LenProperties
  <1>2. ASSUME NEW i \in 1..Len(m) PROVE (h \o m)[Len(h) + i] = m[i]
    <2>1. Len(h) + i \in 1..Len(h) + Len(m) /\ ~(Len(h) + i <= Len(h)) /\ (Len(h) + i) - Len(h) = i
      BY <1>1, <1>2
    <2> QED BY <1>1, <2>1
  <1> QED BY <1>1, <1>2

LEMMA LadderRealRows ==
    ASSUME plan \in PvpPlans, NEW r \in DOMAIN plan, Ladder!Kind(r) = "battle", Ladder!IsReal(r)
    PROVE  /\ Len(Ladder!RowsOf(r)) = LadderHead(r) + 5
           /\ \A i \in 1..LadderHead(r) : Ladder!RowsOf(r)[i] = Ticked(r)[i]
           /\ Ladder!RowsOf(r)[LadderHead(r) + 1] = Ladder!Insert(Ladder!Mine(r))
           /\ Ladder!RowsOf(r)[LadderHead(r) + 2] = Ladder!Insert(Ladder!Theirs(r))
           /\ IF Ladder!User(r) < Ladder!Rival(r)
              THEN Ladder!RowsOf(r)[LadderHead(r) + 3] = Ladder!Rating(Ladder!Mine(r)) /\ Ladder!RowsOf(r)[LadderHead(r) + 4] = Ladder!Rating(Ladder!Theirs(r))
              ELSE Ladder!RowsOf(r)[LadderHead(r) + 3] = Ladder!Rating(Ladder!Theirs(r)) /\ Ladder!RowsOf(r)[LadderHead(r) + 4] = Ladder!Rating(Ladder!Mine(r))
           /\ Ladder!RowsOf(r)[LadderHead(r) + 5] = Ladder!Wallet(Ladder!User(r))
  <1>1. PICK a, b : IF Ladder!User(r) < Ladder!Rival(r) THEN a = Ladder!Rating(Ladder!Mine(r)) /\ b = Ladder!Rating(Ladder!Theirs(r))
                                          ELSE a = Ladder!Rating(Ladder!Theirs(r)) /\ b = Ladder!Rating(Ladder!Mine(r))
    OBVIOUS
  <1>2. Ladder!InIdOrder(r) = <<a, b>>
    BY <1>1 DEF Ladder!InIdOrder
  <1>3. PICK h : h = Ticked(r)
    OBVIOUS
  <1>4. PICK L : L = Locks(r)
    OBVIOUS
  <1>5. PICK p, q, w : p = Ladder!Insert(Ladder!Mine(r)) /\ q = Ladder!Insert(Ladder!Theirs(r)) /\ w = Ladder!Wallet(Ladder!User(r))
    OBVIOUS
  <1>6. Ladder!RowsOf(r) = h \o <<p, q>> \o <<a, b>> \o <<w>>
    BY <1>2, <1>3, <1>5 DEF Ladder!RowsOf, Ticked
  <1>7. p \in L /\ q \in L /\ a \in L /\ b \in L /\ w \in L
    BY <1>1, <1>4, <1>5 DEF Locks, KeysOf
  <1>8. h \in Seq(L) /\ Len(h) = LadderHead(r) /\ LadderHead(r) \in 1..2
    BY <1>3, <1>4, LadderHeads
  <1>9. <<p, q>> \in Seq(L) /\ <<a, b>> \in Seq(L) /\ <<w>> \in Seq(L)
    BY <1>7
  <1>10. PICK hp : hp = h \o <<p, q>>
    OBVIOUS
  <1>11. /\ hp \in Seq(L) /\ Len(hp) = LadderHead(r) + 2
         /\ \A i \in 1..LadderHead(r) : hp[i] = h[i]
         /\ hp[LadderHead(r) + 1] = p /\ hp[LadderHead(r) + 2] = q
    <2>0. PICK m : m = <<p, q>>
      OBVIOUS
    <2>1. m \in Seq(L) /\ Len(m) = 2 /\ m[1] = p /\ m[2] = q
      BY <1>9, <2>0
    <2>2. hp \in Seq(L) /\ Len(hp) = Len(h) + 2 /\ (\A i \in 1..Len(h) : hp[i] = h[i]) /\ hp[Len(h) + 1] = p /\ hp[Len(h) + 2] = q
      <3>1. hp = h \o m
        BY <1>10, <2>0
      <3>2. /\ hp \in Seq(L) /\ Len(hp) = Len(h) + Len(m) /\ \A i \in 1..Len(h) : hp[i] = h[i]
            /\ \A i \in 1..Len(m) : hp[Len(h) + i] = m[i]
        <4>1. h \in Seq(L) /\ m \in Seq(L)
          BY <1>8, <2>1
        <4>2. h \o m \in Seq(L) /\ Len(h \o m) = Len(h) + Len(m)
          BY <4>1, LadderAfterHead
        <4>3. \A i \in 1..Len(h) : (h \o m)[i] = h[i]
          BY <4>1, LadderAfterHead
        <4>4. \A i \in 1..Len(m) : (h \o m)[Len(h) + i] = m[i]
          BY <4>1, LadderAfterHead
        <4> QED BY <3>1, <4>2, <4>3, <4>4
      <3> QED BY <2>1, <3>2
    <2> QED BY <1>8, <2>2
  <1>12. PICK hr : hr = hp \o <<a, b>>
    OBVIOUS
  <1>13. /\ hr \in Seq(L) /\ Len(hr) = LadderHead(r) + 4
         /\ \A i \in 1..LadderHead(r) + 2 : hr[i] = hp[i]
         /\ hr[LadderHead(r) + 3] = a /\ hr[LadderHead(r) + 4] = b
    <2>1. Len(<<a, b>>) = 2 /\ <<a, b>>[1] = a /\ <<a, b>>[2] = b
      OBVIOUS
    <2>2. Len(hp) + 1 = LadderHead(r) + 3 /\ Len(hp) + 2 = LadderHead(r) + 4
      BY <1>8, <1>11
    <2>3. hr \in Seq(L) /\ Len(hr) = Len(hp) + 2 /\ (\A i \in 1..Len(hp) : hr[i] = hp[i]) /\ hr[Len(hp) + 1] = a /\ hr[Len(hp) + 2] = b
      BY <1>9, <1>11, <1>12, <2>1, LadderAfterHead
    <2> QED BY <1>8, <1>11, <2>2, <2>3
  <1>14. /\ Len(Ladder!RowsOf(r)) = LadderHead(r) + 5
         /\ \A i \in 1..LadderHead(r) + 4 : Ladder!RowsOf(r)[i] = hr[i]
         /\ Ladder!RowsOf(r)[LadderHead(r) + 5] = w
    <2>1. Len(<<w>>) = 1 /\ <<w>>[1] = w
      OBVIOUS
    <2>2. Len(hr) + 1 = LadderHead(r) + 5
      BY <1>8, <1>13
    <2>3. Len(Ladder!RowsOf(r)) = Len(hr) + 1 /\ (\A i \in 1..Len(hr) : Ladder!RowsOf(r)[i] = hr[i]) /\ Ladder!RowsOf(r)[Len(hr) + 1] = w
      BY <1>6, <1>9, <1>10, <1>12, <1>13, <2>1, LadderAfterHead
    <2> QED BY <1>8, <1>13, <2>2, <2>3
  <1>15. \A i \in 1..LadderHead(r) : Ladder!RowsOf(r)[i] = h[i]
    BY <1>8, <1>11, <1>13, <1>14
  <1>16. /\ Ladder!RowsOf(r)[LadderHead(r) + 1] = p /\ Ladder!RowsOf(r)[LadderHead(r) + 2] = q
         /\ Ladder!RowsOf(r)[LadderHead(r) + 3] = a /\ Ladder!RowsOf(r)[LadderHead(r) + 4] = b
    BY <1>8, <1>11, <1>13, <1>14
  <1> QED BY <1>1, <1>3, <1>5, <1>14, <1>15, <1>16

LEMMA LadderOtherRows ==
    ASSUME plan \in PvpPlans, NEW r \in DOMAIN plan
    PROVE  /\ Ladder!Kind(r) = "battle" /\ ~Ladder!IsReal(r) =>
                 /\ Len(Ladder!RowsOf(r)) = LadderHead(r) + 3
                 /\ \A i \in 1..LadderHead(r) : Ladder!RowsOf(r)[i] = Ticked(r)[i]
                 /\ Ladder!RowsOf(r)[LadderHead(r) + 1] = Ladder!Insert(Ladder!Mine(r))
                 /\ Ladder!RowsOf(r)[LadderHead(r) + 2] = Ladder!Rating(Ladder!Mine(r))
                 /\ Ladder!RowsOf(r)[LadderHead(r) + 3] = Ladder!Wallet(Ladder!User(r))
           /\ Ladder!Kind(r) = "defend" =>
                 /\ Len(Ladder!RowsOf(r)) = LadderHead(r) + 1
                 /\ \A i \in 1..LadderHead(r) : Ladder!RowsOf(r)[i] = Ticked(r)[i]
                 /\ Ladder!RowsOf(r)[LadderHead(r) + 1] = Ladder!Insert(Ladder!Mine(r))
           /\ Ladder!Kind(r) = "claim" =>
                 Len(Ladder!RowsOf(r)) = 2 /\ Ladder!RowsOf(r)[1] = Ladder!Rating(Ladder!Mine(r)) /\ Ladder!RowsOf(r)[2] = Ladder!Wallet(Ladder!User(r))
  <1>1. PICK h : h = Ticked(r)
    OBVIOUS
  <1>2. PICK L : L = Locks(r)
    OBVIOUS
  <1>3. PICK p, a, w : p = Ladder!Insert(Ladder!Mine(r)) /\ a = Ladder!Rating(Ladder!Mine(r)) /\ w = Ladder!Wallet(Ladder!User(r))
    OBVIOUS
  <1>4. p \in L /\ a \in L /\ w \in L
    BY <1>2, <1>3 DEF Locks, KeysOf
  <1>5. h \in Seq(L) /\ Len(h) = LadderHead(r) /\ LadderHead(r) \in 1..2
    BY <1>1, <1>2, LadderHeads
  <1>6. ASSUME Ladder!Kind(r) = "battle", ~Ladder!IsReal(r)
        PROVE  /\ Len(Ladder!RowsOf(r)) = LadderHead(r) + 3
               /\ \A i \in 1..LadderHead(r) : Ladder!RowsOf(r)[i] = h[i]
               /\ Ladder!RowsOf(r)[LadderHead(r) + 1] = p /\ Ladder!RowsOf(r)[LadderHead(r) + 2] = a /\ Ladder!RowsOf(r)[LadderHead(r) + 3] = w
    <2>1. Ladder!RowsOf(r) = h \o <<p, a, w>>
      BY <1>1, <1>3, <1>6 DEF Ladder!RowsOf, Ticked
    <2>2. <<p, a, w>> \in Seq(L) /\ Len(<<p, a, w>>) = 3 /\ <<p, a, w>>[1] = p /\ <<p, a, w>>[2] = a /\ <<p, a, w>>[3] = w
      BY <1>4
    <2>3. /\ Len(Ladder!RowsOf(r)) = Len(h) + 3 /\ \A i \in 1..Len(h) : Ladder!RowsOf(r)[i] = h[i]
          /\ Ladder!RowsOf(r)[Len(h) + 1] = p /\ Ladder!RowsOf(r)[Len(h) + 2] = a /\ Ladder!RowsOf(r)[Len(h) + 3] = w
      BY <1>5, <2>1, <2>2, LadderAfterHead
    <2> QED BY <1>5, <2>3
  <1>7. ASSUME Ladder!Kind(r) = "defend"
        PROVE  /\ Len(Ladder!RowsOf(r)) = LadderHead(r) + 1
               /\ \A i \in 1..LadderHead(r) : Ladder!RowsOf(r)[i] = h[i]
               /\ Ladder!RowsOf(r)[LadderHead(r) + 1] = p
    <2>1. Ladder!RowsOf(r) = h \o <<p>>
      BY <1>1, <1>3, <1>7 DEF Ladder!RowsOf, Ticked
    <2>2. PICK m : m = <<p>>
      OBVIOUS
    <2>3. m \in Seq(L) /\ Len(m) = 1 /\ m[1] = p
      BY <1>4, <2>2
    <2>4. /\ Len(Ladder!RowsOf(r)) = Len(h) + Len(m) /\ \A i \in 1..Len(h) : Ladder!RowsOf(r)[i] = h[i]
          /\ \A i \in 1..Len(m) : Ladder!RowsOf(r)[Len(h) + i] = m[i]
      BY <1>5, <2>1, <2>2, <2>3, LadderAfterHead
    <2> QED BY <1>5, <2>3, <2>4
  <1>8. ASSUME Ladder!Kind(r) = "claim"
        PROVE  Len(Ladder!RowsOf(r)) = 2 /\ Ladder!RowsOf(r)[1] = a /\ Ladder!RowsOf(r)[2] = w
    <2>1. Ladder!RowsOf(r) = <<a, w>>
      BY <1>3, <1>8 DEF Ladder!RowsOf
    <2> QED BY <2>1
  <1> QED BY <1>1, <1>3, <1>6, <1>7, <1>8

(* What the handlers' orders of locks have in common. *)
LadderShape(r) ==
    /\ Len(Ladder!RowsOf(r)) \in Nat
    /\ \A i \in 1..Len(Ladder!RowsOf(r)) : Ladder!RowsOf(r)[i] \in Locks(r)
    /\ Ladder!Kind(r) = "claim" =>
          Len(Ladder!RowsOf(r)) = 2 /\ Ladder!RowsOf(r)[1] = Ladder!Rating(Ladder!Mine(r)) /\ Ladder!RowsOf(r)[2] = Ladder!Wallet(Ladder!User(r))
    /\ Ladder!Kind(r) # "claim" =>
          /\ Len(Ladder!RowsOf(r)) >= 2 /\ Ladder!RowsOf(r)[1] = Ladder!Monster(Ladder!User(r))
          /\ \A k \in KeysOf(r) : \E i \in 1..Len(Ladder!RowsOf(r)) : Ladder!RowsOf(r)[i] = Ladder!Insert(k)
    /\ Ladder!Kind(r) = "battle" =>
          /\ Ladder!RowsOf(r)[Len(Ladder!RowsOf(r))] = Ladder!Wallet(Ladder!User(r))
          /\ \A k \in KeysOf(r) : \E i \in 1..Len(Ladder!RowsOf(r)) - 1 : Ladder!RowsOf(r)[i] = Ladder!Rating(k)
    /\ \A i, j \in 1..Len(Ladder!RowsOf(r)) :
          Ladder!Kind(r) # "claim" /\ Ladder!RowsOf(r)[i][1] = "rating" /\ Ladder!RowsOf(r)[j][1] = "insert" => j < i
    /\ \A i \in 1..Len(Ladder!RowsOf(r)) :
          Ladder!RowsOf(r)[i][1] = "insert" => i > 1 /\ Ladder!RowsOf(r)[i - 1][1] \in {"monster", "wallet", "insert"}
    /\ \A i, j \in 1..Len(Ladder!RowsOf(r)) : \A a, b :
          Ladder!RowsOf(r)[i] = Ladder!Rating(a) /\ Ladder!RowsOf(r)[j] = Ladder!Rating(b) /\ i < j /\ Ladder!User(r) # Ladder!Rival(r) => a[1] < b[1]

LEMMA LadderTags ==
    /\ \A u : Ladder!Monster(u)[1] = "monster" /\ Ladder!Monster(u)[2] = u /\ Ladder!Wallet(u)[1] = "wallet" /\ Ladder!Wallet(u)[2] = u
    /\ \A k : Ladder!Insert(k)[1] = "insert" /\ Ladder!Insert(k)[2] = k /\ Ladder!Rating(k)[1] = "rating" /\ Ladder!Rating(k)[2] = k
  BY DEF Ladder!Monster, Ladder!Wallet, Ladder!Insert, Ladder!Rating

LEMMA LadderShapeReal ==
    ASSUME plan \in PvpPlans, NEW r \in DOMAIN plan, now[r] \in Nat, Ladder!Kind(r) = "battle", Ladder!IsReal(r)
    PROVE  LadderShape(r)
  <1>1. PICK h : h = LadderHead(r)
    OBVIOUS
  <1>2. PICK locks : locks = Ladder!RowsOf(r)
    OBVIOUS
  <1>3. PICK p, q, w, m : p = Ladder!Mine(r) /\ q = Ladder!Theirs(r) /\ w = Ladder!Wallet(Ladder!User(r)) /\ m = Ladder!Monster(Ladder!User(r))
    OBVIOUS
  <1>4. PICK a, b : IF Ladder!User(r) < Ladder!Rival(r) THEN a = p /\ b = q ELSE a = q /\ b = p
    OBVIOUS
  <1>5. /\ Len(locks) = h + 5 /\ h \in 1..2 /\ locks[1] = m
        /\ locks[h + 1] = Ladder!Insert(p) /\ locks[h + 2] = Ladder!Insert(q)
        /\ locks[h + 3] = Ladder!Rating(a) /\ locks[h + 4] = Ladder!Rating(b) /\ locks[h + 5] = w
    <2>1. h \in 1..2 /\ Ticked(r)[1] = m
      BY <1>1, <1>3, LadderHeads
    <2>2. Len(locks) = h + 5 /\ \A i \in 1..h : locks[i] = Ticked(r)[i]
      BY <1>1, <1>2, LadderRealRows
    <2>3. locks[h + 1] = Ladder!Insert(p) /\ locks[h + 2] = Ladder!Insert(q) /\ locks[h + 5] = w
      BY <1>1, <1>2, <1>3, LadderRealRows
    <2>4. locks[h + 3] = Ladder!Rating(a) /\ locks[h + 4] = Ladder!Rating(b)
      BY <1>1, <1>2, <1>3, <1>4, LadderRealRows
    <2>5. locks[1] = m
      BY <2>1, <2>2
    <2> QED BY <2>1, <2>2, <2>3, <2>4, <2>5
  <1>6. \A i \in 1..h : locks[i] \in Locks(r) /\ locks[i][1] \in {"monster", "wallet"}
    <2>1. Ticked(r) \in Seq(Locks(r)) /\ Len(Ticked(r)) = h /\ \A i \in 1..h : Ticked(r)[i][1] \in {"monster", "wallet"}
      BY <1>1, LadderHeads
    <2>2. \A i \in 1..h : Ticked(r)[i] \in Locks(r)
      BY <2>1, ElementOfSeq
    <2> QED BY <1>1, <1>2, <2>1, <2>2, LadderRealRows
  <1>7. KeysOf(r) = {p, q} /\ {a, b} = {p, q}
    BY <1>3, <1>4, LadderKeys
  <1>8. Ladder!Insert(p) \in Locks(r) /\ Ladder!Insert(q) \in Locks(r) /\ Ladder!Rating(a) \in Locks(r) /\ Ladder!Rating(b) \in Locks(r) /\ w \in Locks(r)
    BY <1>3, <1>7 DEF Locks
  <1>9. \A i \in 1..Len(locks) : i \in 1..h \/ i = h + 1 \/ i = h + 2 \/ i = h + 3 \/ i = h + 4 \/ i = h + 5
    BY <1>5
  <1>10. \A i \in 1..Len(locks) :
            /\ locks[i][1] = "insert" => i \in {h + 1, h + 2}
            /\ locks[i][1] = "rating" => i \in {h + 3, h + 4}
    BY <1>3, <1>5, <1>6, <1>9, LadderTags
  <1>11. \A i \in 1..Len(locks) : locks[i] \in Locks(r)
    BY <1>5, <1>6, <1>8, <1>9
  <1>12. \A k \in KeysOf(r) : \E i \in 1..Len(locks) : locks[i] = Ladder!Insert(k)
    <2>1. h + 1 \in 1..Len(locks) /\ h + 2 \in 1..Len(locks)
      BY <1>5
    <2> QED BY <1>5, <1>7, <2>1
  <1>13. \A k \in KeysOf(r) : \E i \in 1..Len(locks) - 1 : locks[i] = Ladder!Rating(k)
    <2>1. h + 3 \in 1..Len(locks) - 1 /\ h + 4 \in 1..Len(locks) - 1
      BY <1>5
    <2> QED BY <1>5, <1>7, <2>1
  <1>14. \A i, j \in 1..Len(locks) : locks[i][1] = "rating" /\ locks[j][1] = "insert" => j < i
    BY <1>5, <1>10
  <1>15. ASSUME NEW i \in 1..Len(locks), locks[i][1] = "insert"
         PROVE  i > 1 /\ locks[i - 1][1] \in {"monster", "wallet", "insert"}
    <2>1. CASE i = h + 1
      <3>1. i > 1 /\ i - 1 = h /\ h \in 1..h
        BY <1>5, <2>1
      <3> QED BY <1>6, <3>1
    <2>2. CASE i = h + 2
      <3>1. i > 1 /\ i - 1 = h + 1
        BY <1>5, <2>2
      <3> QED BY <1>5, <3>1, LadderTags
    <2> QED BY <1>10, <1>15, <2>1, <2>2
  <1>16. ASSUME NEW i \in 1..Len(locks), NEW j \in 1..Len(locks), NEW c, NEW d,
                locks[i] = Ladder!Rating(c), locks[j] = Ladder!Rating(d), i < j, Ladder!User(r) # Ladder!Rival(r)
         PROVE  c[1] < d[1]
    <2>1. i = h + 3 /\ j = h + 4
      BY <1>5, <1>10, <1>16, LadderTags
    <2>2. c = a /\ d = b
      BY <1>5, <1>16, <2>1, LadderTags
    <2>3. p[1] = Ladder!User(r) /\ q[1] = Ladder!Rival(r)
      BY <1>3, LadderKeys
    <2>4. Ladder!User(r) \in Nat /\ Ladder!Rival(r) \in Nat
      BY LadderRequests, PvpParameters, LadderSame DEF Ladder!IsReal, Ladder!PvpAssumption
    <2>5. CASE Ladder!User(r) < Ladder!Rival(r)
      BY <1>4, <2>2, <2>3, <2>5
    <2>6. CASE ~(Ladder!User(r) < Ladder!Rival(r))
      <3>1. Ladder!Rival(r) < Ladder!User(r)
        BY <1>16, <2>4, <2>6
      <3> QED BY <1>4, <2>2, <2>3, <2>6, <3>1
    <2> QED BY <2>5, <2>6
  <1>17. Len(locks) \in Nat /\ Len(locks) >= 2 /\ locks[Len(locks)] = w
    BY <1>5
  <1> QED BY <1>2, <1>3, <1>5, <1>11, <1>12, <1>13, <1>14, <1>15, <1>16, <1>17 DEF LadderShape

LEMMA LadderShapeOther ==
    ASSUME plan \in PvpPlans, NEW r \in DOMAIN plan, now[r] \in Nat, ~(Ladder!Kind(r) = "battle" /\ Ladder!IsReal(r)), Ladder!Kind(r) # "claim"
    PROVE  LadderShape(r)
  <1>1. PICK h : h = LadderHead(r)
    OBVIOUS
  <1>2. PICK locks : locks = Ladder!RowsOf(r)
    OBVIOUS
  <1>3. PICK p, w, m : p = Ladder!Mine(r) /\ w = Ladder!Wallet(Ladder!User(r)) /\ m = Ladder!Monster(Ladder!User(r))
    OBVIOUS
  <1>4. Ladder!Kind(r) \in {"battle", "defend"} /\ (Ladder!Kind(r) = "battle" => ~Ladder!IsReal(r))
    BY LadderRequests
  <1>5. /\ h \in 1..2 /\ locks[1] = m /\ Len(locks) >= h + 1 /\ Len(locks) \in Nat
        /\ locks[h + 1] = Ladder!Insert(p)
        /\ Ladder!Kind(r) = "battle" => Len(locks) = h + 3 /\ locks[h + 2] = Ladder!Rating(p) /\ locks[h + 3] = w
        /\ Ladder!Kind(r) = "defend" => Len(locks) = h + 1
    BY <1>1, <1>2, <1>3, <1>4, LadderHeads, LadderOtherRows
  <1>6. \A i \in 1..h : locks[i] \in Locks(r) /\ locks[i][1] \in {"monster", "wallet"}
    <2>1. Ticked(r) \in Seq(Locks(r)) /\ Len(Ticked(r)) = h /\ \A i \in 1..h : Ticked(r)[i][1] \in {"monster", "wallet"}
      BY <1>1, LadderHeads
    <2>2. \A i \in 1..h : Ticked(r)[i] \in Locks(r)
      BY <2>1, ElementOfSeq
    <2> QED BY <1>1, <1>2, <1>4, <2>1, <2>2, LadderOtherRows
  <1>7. KeysOf(r) = {p}
    BY <1>3, LadderKeys
  <1>8. Ladder!Insert(p) \in Locks(r) /\ Ladder!Rating(p) \in Locks(r) /\ w \in Locks(r)
    BY <1>3, <1>7 DEF Locks
  <1>9. \A i \in 1..Len(locks) : i \in 1..h \/ i = h + 1 \/ (Ladder!Kind(r) = "battle" /\ (i = h + 2 \/ i = h + 3))
    BY <1>4, <1>5
  <1>10. \A i \in 1..Len(locks) :
            /\ locks[i][1] = "insert" => i = h + 1
            /\ locks[i][1] = "rating" => i = h + 2
    BY <1>3, <1>5, <1>6, <1>9, LadderTags
  <1>11. \A i \in 1..Len(locks) : locks[i] \in Locks(r)
    BY <1>5, <1>6, <1>8, <1>9
  <1>12. \A k \in KeysOf(r) : \E i \in 1..Len(locks) : locks[i] = Ladder!Insert(k)
    <2>1. h + 1 \in 1..Len(locks)
      BY <1>5
    <2> QED BY <1>5, <1>7, <2>1
  <1>13. Ladder!Kind(r) = "battle" => \A k \in KeysOf(r) : \E i \in 1..Len(locks) - 1 : locks[i] = Ladder!Rating(k)
    <2>1. Ladder!Kind(r) = "battle" => h + 2 \in 1..Len(locks) - 1
      BY <1>5
    <2> QED BY <1>5, <1>7, <2>1
  <1>14. \A i, j \in 1..Len(locks) : locks[i][1] = "rating" /\ locks[j][1] = "insert" => j < i
    BY <1>5, <1>10
  <1>15. ASSUME NEW i \in 1..Len(locks), locks[i][1] = "insert"
         PROVE  i > 1 /\ locks[i - 1][1] \in {"monster", "wallet", "insert"}
    <2>1. i > 1 /\ i - 1 = h /\ h \in 1..h
      BY <1>5, <1>10, <1>15
    <2> QED BY <1>6, <2>1
  <1>16. ASSUME NEW i \in 1..Len(locks), NEW j \in 1..Len(locks), NEW c, NEW d,
                locks[i] = Ladder!Rating(c), locks[j] = Ladder!Rating(d), i < j
         PROVE  FALSE
    BY <1>5, <1>10, <1>16, LadderTags
  <1>17. Len(locks) >= 2 /\ (Ladder!Kind(r) = "battle" => locks[Len(locks)] = w)
    BY <1>5
  <1> QED BY <1>2, <1>3, <1>5, <1>11, <1>12, <1>13, <1>14, <1>15, <1>16, <1>17 DEF LadderShape

LEMMA LadderShapeClaim ==
    ASSUME plan \in PvpPlans, NEW r \in DOMAIN plan, now[r] \in Nat, Ladder!Kind(r) = "claim"
    PROVE  LadderShape(r)
  <1>1. PICK locks : locks = Ladder!RowsOf(r)
    OBVIOUS
  <1>2. PICK p, w : p = Ladder!Mine(r) /\ w = Ladder!Wallet(Ladder!User(r))
    OBVIOUS
  <1>3. Len(locks) = 2 /\ locks[1] = Ladder!Rating(p) /\ locks[2] = w
    BY <1>1, <1>2, LadderOtherRows
  <1>4. Ladder!Rating(p) \in Locks(r) /\ w \in Locks(r)
    <2>1. KeysOf(r) = {p}
      BY <1>2, LadderKeys
    <2> QED BY <1>2, <2>1 DEF Locks
  <1>5. \A i \in 1..Len(locks) : i = 1 \/ i = 2
    BY <1>3
  <1>6. \A i \in 1..Len(locks) : locks[i] \in Locks(r) /\ locks[i][1] # "insert"
    BY <1>2, <1>3, <1>4, <1>5, LadderTags
  <1>7. \A i, j \in 1..Len(locks) : \A a, b : ~(locks[i] = Ladder!Rating(a) /\ locks[j] = Ladder!Rating(b) /\ i < j)
    <2>1. ASSUME NEW i \in 1..Len(locks), NEW j \in 1..Len(locks), NEW b, locks[j] = Ladder!Rating(b), i < j PROVE FALSE
      <3>1. locks[j][1] = "rating" /\ j = 2
        BY <1>5, <2>1, LadderTags
      <3> QED BY <1>2, <1>3, <3>1, LadderTags
    <2> QED BY <2>1
  <1> QED BY <1>1, <1>2, <1>3, <1>6, <1>7 DEF LadderShape

LEMMA LadderShaped ==
    ASSUME plan \in PvpPlans, NEW r \in DOMAIN plan, now[r] \in Nat
    PROVE  LadderShape(r)
  BY LadderShapeReal, LadderShapeOther, LadderShapeClaim

---------------------------------------------------------------------------
(* What a step of r leaves alone of the others ...                         *)
LadderAlone(r) ==
    /\ plan' = plan /\ clock' >= clock
    /\ \A s \in DOMAIN plan \ {r} :
          /\ pc'[s] = pc[s] /\ step'[s] = step[s] /\ now'[s] = now[s] /\ began'[s] = began[s]
          /\ fresh'[s] = fresh[s] /\ seen'[s] = seen[s]
          /\ \A x : Ladder!HolderOf(x)' = s <=> Ladder!HolderOf(x) = s

(* ... and of the tables: it changes only the rows it has locked.          *)
LadderOwn(r) ==
    /\ DOMAIN ratings \subseteq DOMAIN ratings'
    /\ \A k \in DOMAIN ratings' \ DOMAIN ratings : Ladder!HolderOf(Ladder!Insert(k)) = r
    /\ \A k \in DOMAIN ratings : ratings'[k] # ratings[k] => Ladder!HolderOf(Ladder!Rating(k)) = r
    /\ \A u, t : Ladder!HolderOf(Ladder!Monster(u)) # r =>
          Ladder!Fights(u, t)' = Ladder!Fights(u, t) /\ \A v : Ladder!FightsWith(u, v, t)' = Ladder!FightsWith(u, v, t)

LEMMA LadderSameRows ==
    ASSUME NEW s, plan' = plan, now'[s] = now[s]
    PROVE  /\ Ladder!Kind(s)' = Ladder!Kind(s) /\ Ladder!User(s)' = Ladder!User(s) /\ Ladder!Rival(s)' = Ladder!Rival(s) /\ Ladder!IsReal(s)' = Ladder!IsReal(s)
           /\ Ladder!Season(s)' = Ladder!Season(s) /\ Ladder!Mine(s)' = Ladder!Mine(s) /\ Ladder!Theirs(s)' = Ladder!Theirs(s)
           /\ KeysOf(s)' = KeysOf(s) /\ Ladder!RowsOf(s)' = Ladder!RowsOf(s)
  <1>1. Ladder!Kind(s)' = Ladder!Kind(s) /\ Ladder!User(s)' = Ladder!User(s) /\ Ladder!Rival(s)' = Ladder!Rival(s) /\ Ladder!IsReal(s)' = Ladder!IsReal(s)
    BY DEF Ladder!Kind, Ladder!User, Ladder!Rival, Ladder!IsReal
  <1>2. Ladder!Season(s)' = Ladder!Season(s)
    BY <1>1 DEF Ladder!Season, Ladder!SeasonOf
  <1>3. Ladder!Mine(s)' = Ladder!Mine(s) /\ Ladder!Theirs(s)' = Ladder!Theirs(s)
    BY <1>1, <1>2 DEF Ladder!Mine, Ladder!Theirs
  <1>4. KeysOf(s)' = KeysOf(s)
    BY <1>1, <1>3 DEF KeysOf
  <1>5. Ladder!InIdOrder(s)' = Ladder!InIdOrder(s)
    BY <1>1, <1>3 DEF Ladder!InIdOrder, Ladder!Rating
  <1>6. Ladder!RowsOf(s)' = Ladder!RowsOf(s)
    BY <1>1, <1>3, <1>5 DEF Ladder!RowsOf, Ladder!Monster, Ladder!Wallet, Ladder!Insert, Ladder!Rating
  <1> QED BY <1>1, <1>2, <1>3, <1>4, <1>6

(* The first lock of a challenge is the challenger's monster. *)
LEMMA LadderGuard ==
    ASSUME LadderInv, NEW s \in DOMAIN plan, Ladder!IsOpen(s), Ladder!Kind(s) # "claim", step[s] > 0
    PROVE  Ladder!HolderOf(Ladder!Monster(Ladder!User(s))) = s
  <1>1. LadderControl /\ LadderHeld(s) /\ s \in Requests /\ plan \in PvpPlans /\ now[s] \in Nat /\ step[s] \in Nat
    BY LadderRequests DEF LadderInv, LadderControl
  <1>2. LadderShape(s)
    BY <1>1, LadderShaped
  <1>3. 1 \in 1..step[s] /\ Ladder!RowsOf(s)[1] = Ladder!Monster(Ladder!User(s))
    BY <1>1, <1>2 DEF LadderShape
  <1>4. Taken(s, Ladder!Monster(Ladder!User(s))) /\ Ladder!Monster(Ladder!User(s))[1] # "insert"
    BY <1>3, LadderTags DEF Taken
  <1> QED BY <1>1, <1>4 DEF LadderHeld

LEMMA LadderOthers ==
    ASSUME LadderInv, LadderControl', NEW r, LadderAlone(r), LadderOwn(r), NEW s \in DOMAIN plan, s # r
    PROVE  LadderStage(s)' /\ LadderHeld(s)' /\ LadderSeen(s)' /\ LadderChecked(s)'
  <1>1. /\ LadderControl /\ LadderTables /\ LadderStage(s) /\ LadderHeld(s) /\ LadderSeen(s) /\ LadderChecked(s)
        /\ s \in Requests /\ plan \in PvpPlans
    BY LadderRequests DEF LadderInv, LadderControl
  <1>2. /\ pc'[s] = pc[s] /\ step'[s] = step[s] /\ now'[s] = now[s] /\ began'[s] = began[s]
        /\ fresh'[s] = fresh[s] /\ seen'[s] = seen[s] /\ plan' = plan /\ clock' >= clock
        /\ clock \in Nat /\ clock' \in Nat /\ now[s] \in Nat /\ began[s] \in Nat /\ step[s] \in Nat
    BY <1>1 DEF LadderAlone, LadderControl
  <1>3. \A x : Ladder!HolderOf(x)' = s <=> Ladder!HolderOf(x) = s
    BY DEF LadderAlone
  <1>4. /\ Ladder!Kind(s)' = Ladder!Kind(s) /\ Ladder!User(s)' = Ladder!User(s) /\ Ladder!Rival(s)' = Ladder!Rival(s) /\ Ladder!IsReal(s)' = Ladder!IsReal(s)
        /\ Ladder!Mine(s)' = Ladder!Mine(s) /\ KeysOf(s)' = KeysOf(s) /\ Ladder!RowsOf(s)' = Ladder!RowsOf(s)
    BY <1>2, LadderSameRows
  <1>5. /\ \A x : Taken(s, x)' <=> Taken(s, x)
        /\ Ladder!IsOpen(s)' <=> Ladder!IsOpen(s)
        /\ Ladder!HasAll(s)' <=> Ladder!HasAll(s)
    BY <1>2, <1>4 DEF Taken, Ladder!IsOpen, Ladder!HasAll
  <1>6. /\ DOMAIN ratings \subseteq DOMAIN ratings'
        /\ \A k \in DOMAIN ratings' \ DOMAIN ratings : Ladder!HolderOf(Ladder!Insert(k)) # s
        /\ \A k \in DOMAIN ratings : Ladder!HolderOf(Ladder!Rating(k)) = s => ratings'[k] = ratings[k]
    BY DEF LadderOwn
  <1>7. LadderStage(s)'
    <2>1. /\ step[s] <= Len(Ladder!RowsOf(s)) /\ (pc[s] \in {"idle", "begun"} => step[s] = 0)
          /\ (~Ladder!IsOpen(s) => fresh[s] = Ladder!NoRows /\ seen[s] = Ladder!NoRows)
          /\ (pc[s] # "idle" => now[s] <= clock) /\ (Ladder!IsOpen(s) => now[s] <= began[s] /\ began[s] <= clock)
          /\ (Ladder!Kind(s) = "claim" /\ step[s] > 0 => Ladder!Mine(s) \in DOMAIN ratings)
      BY <1>1 DEF LadderStage
    <2>2. Ladder!NoRows' = Ladder!NoRows
      BY DEF Ladder!NoRows
    <2>3. /\ (pc[s] # "idle" => now[s] <= clock') /\ (Ladder!IsOpen(s) => now[s] <= began[s] /\ began[s] <= clock')
      BY <1>2, <2>1
    <2> QED BY <1>2, <1>4, <1>5, <1>6, <2>1, <2>2, <2>3 DEF LadderStage
  <1>8. LadderHeld(s)'
    <2>1. \A x : Ladder!IsOpen(s)' /\ Taken(s, x)' /\ x[1] # "insert" => Ladder!HolderOf(x)' = s
      BY <1>1, <1>3, <1>5 DEF LadderHeld
    <2>2. \A x : Ladder!HolderOf(x)' = s => Ladder!IsOpen(s)' /\ Taken(s, x)'
      BY <1>1, <1>3, <1>5 DEF LadderHeld
    <2>3. \A k \in KeysOf(s)' : Ladder!IsOpen(s)' /\ Taken(s, Ladder!Insert(k))' => k \in DOMAIN ratings' \cup DOMAIN fresh'[s]
      <3>1. \A k : Taken(s, Ladder!Insert(k))' <=> Taken(s, Ladder!Insert(k))
        BY <1>2, <1>4 DEF Taken, Ladder!Insert
      <3> QED BY <1>1, <1>2, <1>4, <1>5, <1>6, <3>1 DEF LadderHeld
    <2>4. ASSUME NEW k \in DOMAIN fresh'[s]
          PROVE  /\ k \in KeysOf(s)' /\ k \notin DOMAIN ratings' /\ Ladder!HolderOf(Ladder!Insert(k))' = s
                 /\ fresh'[s][k] \in Ladder!Row /\ fresh'[s][k].wins = 0 /\ fresh'[s][k].losses = 0
      <3>1. k \in DOMAIN fresh[s] /\ fresh'[s][k] = fresh[s][k]
        BY <1>2, <2>4
      <3>2. /\ k \in KeysOf(s) /\ k \notin DOMAIN ratings /\ Ladder!HolderOf(Ladder!Insert(k)) = s
            /\ fresh[s][k] \in Ladder!Row /\ fresh[s][k].wins = 0 /\ fresh[s][k].losses = 0
        BY <1>1, <3>1 DEF LadderHeld
      <3>3. Ladder!HolderOf(Ladder!Insert(k))' = s
        BY <1>3, <3>2 DEF Ladder!Insert
      <3> QED BY <1>4, <1>6, <3>1, <3>2, <3>3
    <2> QED BY <2>1, <2>2, <2>3, <2>4 DEF LadderHeld, Ladder!Row
  <1>9. LadderSeen(s)'
    <2>1. \A k \in DOMAIN seen'[s] : k \in KeysOf(s)' /\ Taken(s, Ladder!Rating(k))'
      <3>1. \A k : Taken(s, Ladder!Rating(k))' <=> Taken(s, Ladder!Rating(k))
        BY <1>2, <1>4 DEF Taken, Ladder!Rating
      <3> QED BY <1>1, <1>2, <1>4, <3>1 DEF LadderSeen
    <2>2. ASSUME NEW k \in KeysOf(s), Ladder!IsOpen(s), Taken(s, Ladder!Rating(k))
          PROVE  /\ k \in DOMAIN seen'[s] /\ seen'[s][k] = Ladder!RowSeen(s, k)'
                 /\ k \in DOMAIN ratings' \cup DOMAIN fresh'[s]
      <3>1. k \in DOMAIN seen[s] /\ seen[s][k] = Ladder!RowSeen(s, k) /\ k \in DOMAIN ratings \cup DOMAIN fresh[s]
        BY <1>1, <2>2 DEF LadderSeen
      <3>2. Ladder!HolderOf(Ladder!Rating(k)) = s
        BY <1>1, <2>2, LadderTags DEF LadderHeld
      <3>3. k \in DOMAIN ratings => ratings'[k] = ratings[k]
        BY <1>6, <3>2
      <3>4. Ladder!RowSeen(s, k)' = Ladder!RowSeen(s, k)
        BY <1>2, <3>1, <3>3 DEF Ladder!RowSeen
      <3> QED BY <1>2, <1>6, <3>1, <3>4
    <2>3. \A k : Taken(s, Ladder!Rating(k))' <=> Taken(s, Ladder!Rating(k))
      BY <1>2, <1>4 DEF Taken, Ladder!Rating
    <2> QED BY <1>4, <1>5, <2>1, <2>2, <2>3 DEF LadderSeen
  <1>10. LadderChecked(s)'
    <2>1. SUFFICES ASSUME Ladder!IsOpen(s), Ladder!Kind(s) = "battle"
                   PROVE  /\ HasJoined(s)' =>
                                /\ Ladder!Rival(s)' # Ladder!User(s)'
                                /\ Cardinality(Ladder!Fights(Ladder!User(s), Ladder!DayStart(now[s])))' < PVP_DAILY_ATTEMPTS
                          /\ Ladder!HasAll(s)' /\ Ladder!IsReal(s)' =>
                                Cardinality(Ladder!FightsWith(Ladder!User(s), Ladder!Rival(s), Ladder!DayStart(now[s])))'
                                    < PVP_MAX_FIGHTS_PER_OPPONENT_PER_DAY
      BY <1>4, <1>5 DEF LadderChecked
    <2>2. HasJoined(s)' <=> HasJoined(s)
      <3>1. \A k : Taken(s, Ladder!Insert(k))' <=> Taken(s, Ladder!Insert(k))
        BY <1>2, <1>4 DEF Taken, Ladder!Insert
      <3> QED BY <1>4, <3>1 DEF HasJoined
    <2>3. (Ladder!HasAll(s) \/ HasJoined(s)) => step[s] > 0
      <3>1. LadderShape(s)
        BY <1>1, <1>2, LadderShaped
      <3>2. HasJoined(s) => step[s] > 0
        BY <1>2 DEF HasJoined, Taken
      <3>3. Ladder!HasAll(s) => step[s] > 0
        BY <1>2, <2>1, <3>1 DEF LadderShape, Ladder!HasAll
      <3> QED BY <3>2, <3>3
    <2>4. PICK u : u = Ladder!User(s)
      OBVIOUS
    <2>5. PICK v : v = Ladder!Rival(s)
      OBVIOUS
    <2>6. PICK t : t = Ladder!DayStart(now[s])
      OBVIOUS
    <2>7. u = Ladder!User(s)' /\ v = Ladder!Rival(s)' /\ t = Ladder!DayStart(now[s])'
      BY <1>2, <1>4, <2>4, <2>5, <2>6 DEF Ladder!DayStart, Ladder!DayOf
    <2>8. ASSUME step[s] > 0 PROVE Ladder!Fights(u, t)' = Ladder!Fights(u, t) /\ Ladder!FightsWith(u, v, t)' = Ladder!FightsWith(u, v, t)
      <3>1. Ladder!HolderOf(Ladder!Monster(u)) = s
        BY <2>1, <2>4, <2>8, LadderGuard
      <3> QED BY <3>1 DEF LadderOwn
    <2>9. /\ HasJoined(s) => /\ v # u
                             /\ Cardinality(Ladder!Fights(u, t)) < PVP_DAILY_ATTEMPTS
          /\ Ladder!HasAll(s) /\ Ladder!IsReal(s) => Cardinality(Ladder!FightsWith(u, v, t)) < PVP_MAX_FIGHTS_PER_OPPONENT_PER_DAY
      BY <1>1, <2>1, <2>4, <2>5, <2>6 DEF LadderChecked
    <2>10. /\ HasJoined(s) => /\ v # u
                              /\ Cardinality(Ladder!Fights(u, t)') < PVP_DAILY_ATTEMPTS
           /\ Ladder!HasAll(s) /\ Ladder!IsReal(s) => Cardinality(Ladder!FightsWith(u, v, t)') < PVP_MAX_FIGHTS_PER_OPPONENT_PER_DAY
      BY <2>3, <2>8, <2>9
    <2>11. /\ Cardinality(Ladder!Fights(Ladder!User(s), Ladder!DayStart(now[s])))' = Cardinality(Ladder!Fights(u, t)')
           /\ Cardinality(Ladder!FightsWith(Ladder!User(s), Ladder!Rival(s), Ladder!DayStart(now[s])))' = Cardinality(Ladder!FightsWith(u, v, t)')
      BY <2>7
    <2> QED BY <1>4, <1>5, <2>2, <2>4, <2>5, <2>7, <2>10, <2>11
  <1> QED BY <1>7, <1>8, <1>9, <1>10

LEMMA LadderQuietTables ==
    ASSUME UNCHANGED Ladder!tables, NEW r
    PROVE  LadderOwn(r)
  <1>1. ratings' = ratings /\ battles' = battles
    BY DEF Ladder!tables
  <1>2. ASSUME NEW u, NEW t, NEW v
        PROVE  Ladder!Fights(u, t)' = Ladder!Fights(u, t) /\ Ladder!FightsWith(u, v, t)' = Ladder!FightsWith(u, v, t)
    BY <1>1 DEF Ladder!Fights, Ladder!FightsWith
  <1> QED BY <1>1, <1>2 DEF LadderOwn

(* A step that ends an open request and gives up what it holds. *)
LadderLets(r) ==
    /\ Ladder!IsOpen(r) /\ pc'[r] \in Ladder!Ended /\ Ladder!Goes(r, pc'[r]) /\ Ladder!Release(r)
    /\ fresh' = [fresh EXCEPT ![r] = Ladder!NoRows] /\ seen' = [seen EXCEPT ![r] = Ladder!NoRows]
    /\ UNCHANGED <<plan, step, now, began, clock>>

LEMMA LadderLetsGo ==
    ASSUME LadderInv, NEW r \in DOMAIN plan, LadderLets(r), DOMAIN ratings \subseteq DOMAIN ratings'
    PROVE  /\ LadderControl' /\ LadderAlone(r)
           /\ LadderStage(r)' /\ LadderHeld(r)' /\ LadderSeen(r)' /\ LadderChecked(r)'
  <1>1. LadderControl /\ LadderStage(r) /\ r \in Requests /\ NoRequest \notin Requests /\ DOMAIN plan \subseteq Requests
    BY LadderRequests DEF LadderInv, LadderControl
  <1>2. /\ plan' = plan /\ step' = step /\ now' = now /\ began' = began /\ clock' = clock
        /\ pc' = [pc EXCEPT ![r] = pc'[r]] /\ pc'[r] \in Ladder!Ended /\ pc[r] = "open"
        /\ fresh' = [fresh EXCEPT ![r] = Ladder!NoRows] /\ seen' = [seen EXCEPT ![r] = Ladder!NoRows]
    BY DEF LadderLets, Ladder!Goes, Ladder!IsOpen
  <1>3. /\ DOMAIN holder' = {y \in DOMAIN holder : holder[y] # r}
        /\ \A y \in DOMAIN holder' : holder'[y] = holder[y]
    BY DEF LadderLets, Ladder!Release
  <1>4. /\ \A s \in Requests \ {r} : \A x : Ladder!HolderOf(x)' = s <=> Ladder!HolderOf(x) = s
        /\ \A x : Ladder!HolderOf(x)' # r
    <2>1. \A x : Ladder!HolderOf(x)' = IF x \in DOMAIN holder /\ holder[x] # r THEN holder[x] ELSE NoRequest
      BY <1>3 DEF Ladder!HolderOf
    <2>2. \A x : Ladder!HolderOf(x) = IF x \in DOMAIN holder THEN holder[x] ELSE NoRequest
      BY DEF Ladder!HolderOf
    <2> QED BY <1>1, <2>1, <2>2
  <1>5. DOMAIN fresh = Requests /\ DOMAIN seen = Requests
    BY <1>1 DEF LadderControl
  <1>6. /\ fresh'[r] = Ladder!NoRows /\ seen'[r] = Ladder!NoRows
        /\ \A s \in Requests \ {r} : fresh'[s] = fresh[s] /\ seen'[s] = seen[s]
        /\ fresh' = [s \in Requests |-> fresh'[s]] /\ seen' = [s \in Requests |-> seen'[s]]
    BY <1>1, <1>2, <1>5
  <1>7. /\ pc' \in [Requests -> {"idle", "begun", "open"} \cup Ladder!Ended]
        /\ \A s \in Requests \ {r} : pc'[s] = pc[s]
    BY <1>1, <1>2 DEF LadderControl
  <1>8. LadderControl'
    <2>1. \A x \in DOMAIN holder' : holder'[x] \in DOMAIN plan'
      BY <1>1, <1>2, <1>3 DEF LadderControl
    <2>2. \A s \in Requests \ DOMAIN plan' : fresh'[s] = Ladder!NoRows'
      BY <1>1, <1>2, <1>6 DEF LadderControl, Ladder!NoRows
    <2> QED BY <1>1, <1>2, <1>6, <1>7, <2>1, <2>2 DEF LadderControl, Ladder!Ended
  <1>9. LadderAlone(r)
    <2>1. clock' >= clock
      BY <1>1, <1>2 DEF LadderControl
    <2> QED BY <1>1, <1>2, <1>4, <1>6, <1>7, <2>1 DEF LadderAlone
  <1>10. /\ Ladder!Kind(r)' = Ladder!Kind(r) /\ Ladder!Mine(r)' = Ladder!Mine(r) /\ Ladder!RowsOf(r)' = Ladder!RowsOf(r)
    BY <1>2, LadderSameRows
  <1>11. ~Ladder!IsOpen(r)' /\ pc'[r] \notin {"idle", "begun"}
    BY <1>2 DEF Ladder!IsOpen, Ladder!Ended
  <1>12. LadderStage(r)'
    <2>1. /\ step[r] <= Len(Ladder!RowsOf(r)) /\ now[r] <= clock
          /\ (Ladder!Kind(r) = "claim" /\ step[r] > 0 => Ladder!Mine(r) \in DOMAIN ratings)
      BY <1>1, <1>2 DEF LadderStage
    <2>2. Ladder!NoRows' = Ladder!NoRows
      BY DEF Ladder!NoRows
    <2> QED BY <1>2, <1>6, <1>10, <1>11, <2>1, <2>2 DEF LadderStage
  <1>13. LadderHeld(r)'
    <2>1. DOMAIN fresh'[r] = {}
      BY <1>6 DEF Ladder!NoRows
    <2> QED BY <1>4, <1>11, <2>1 DEF LadderHeld
  <1>14. LadderSeen(r)'
    <2>1. DOMAIN seen'[r] = {}
      BY <1>6 DEF Ladder!NoRows
    <2> QED BY <1>11, <2>1 DEF LadderSeen
  <1>15. LadderChecked(r)'
    BY <1>11 DEF LadderChecked
  <1> QED BY <1>8, <1>9, <1>12, <1>13, <1>14, <1>15

LadderShapes == LadderControl => \A s \in DOMAIN plan : LadderShape(s)

LEMMA LadderShapesHold == LadderShapes
  <1>1. ASSUME LadderControl, NEW s \in DOMAIN plan PROVE LadderShape(s)
    <2>1. plan \in PvpPlans /\ now[s] \in Nat
      BY <1>1, LadderRequests DEF LadderControl
    <2> QED BY <2>1, LadderShaped
  <1> QED BY <1>1 DEF LadderShapes

LEMMA LadderShapesNext == LadderShapes'
  BY LadderShapesHold, PTL

LEMMA LadderBegins ==
    ASSUME LadderInv, NEW r \in DOMAIN plan, Ladder!Begin(r) \/ Ladder!Open(r)
    PROVE  /\ LadderControl' /\ LadderAlone(r) /\ UNCHANGED Ladder!tables
           /\ LadderStage(r)' /\ LadderHeld(r)' /\ LadderSeen(r)' /\ LadderChecked(r)'
  <1>1. /\ LadderControl /\ LadderStage(r) /\ LadderHeld(r) /\ r \in Requests /\ NoRequest \notin Requests
        /\ DOMAIN plan \subseteq Requests
    BY LadderRequests DEF LadderInv, LadderControl
  <1>2. /\ pc[r] \in {"idle", "begun"} /\ pc' = [pc EXCEPT ![r] = pc'[r]]
        /\ pc'[r] \in {"begun", "rolledBack", "open"}
        /\ now'[r] \in Nat /\ now'[r] <= clock /\ began'[r] \in Nat
        /\ pc'[r] = "open" => now'[r] <= began'[r] /\ began'[r] <= clock
        /\ now' = [now EXCEPT ![r] = now'[r]] /\ began' = [began EXCEPT ![r] = began'[r]]
        /\ UNCHANGED <<plan, step, fresh, seen, rank, holder, Ladder!tables, clock>>
    <2>1. CASE Ladder!Begin(r)
      <3>1. PICK where \in {"begun", "rolledBack"} : pc' = [pc EXCEPT ![r] = where]
        BY <2>1 DEF Ladder!Begin, Ladder!Goes
      <3>2. pc'[r] = where /\ pc[r] = "idle"
        BY <1>1, <2>1, <3>1 DEF Ladder!Begin, LadderControl
      <3>3. /\ now' = [now EXCEPT ![r] = clock] /\ began' = began /\ clock \in Nat
            /\ now \in [Requests -> Nat] /\ began \in [Requests -> Nat]
            /\ UNCHANGED <<plan, step, fresh, seen, rank, holder, Ladder!tables, clock>>
        BY <1>1, <2>1 DEF Ladder!Begin, LadderControl
      <3>4. pc' = [pc EXCEPT ![r] = pc'[r]]
        BY <3>1, <3>2
      <3>5. /\ now'[r] = clock /\ began'[r] \in Nat /\ pc'[r] # "open"
            /\ now' = [now EXCEPT ![r] = now'[r]] /\ began' = [began EXCEPT ![r] = began'[r]]
        BY <1>1, <3>1, <3>2, <3>3
      <3> QED BY <3>1, <3>2, <3>3, <3>4, <3>5
    <2>2. CASE Ladder!Open(r)
      <3>1. pc' = [pc EXCEPT ![r] = "open"] /\ pc'[r] = "open" /\ pc[r] = "begun"
        BY <1>1, <2>2 DEF Ladder!Open, Ladder!Goes, LadderControl
      <3>2. /\ began' = [began EXCEPT ![r] = clock] /\ now' = now /\ clock \in Nat
            /\ now \in [Requests -> Nat] /\ began \in [Requests -> Nat]
            /\ UNCHANGED <<plan, step, fresh, seen, rank, holder, Ladder!tables, clock>>
        BY <1>1, <2>2 DEF Ladder!Open, LadderControl
      <3>3. now[r] <= clock
        BY <1>1, <3>1 DEF LadderStage
      <3>4. pc' = [pc EXCEPT ![r] = pc'[r]]
        BY <3>1
      <3>5. /\ now'[r] = now[r] /\ now[r] \in Nat /\ began'[r] = clock
            /\ now' = [now EXCEPT ![r] = now'[r]] /\ began' = [began EXCEPT ![r] = began'[r]]
        BY <1>1, <3>2
      <3> QED BY <3>1, <3>2, <3>3, <3>4, <3>5
    <2> QED BY <2>1, <2>2
  <1>3. step'[r] = 0 /\ ~Ladder!IsOpen(r) /\ fresh'[r] = Ladder!NoRows /\ seen'[r] = Ladder!NoRows /\ Ladder!NoRows' = Ladder!NoRows
    BY <1>1, <1>2 DEF LadderStage, Ladder!IsOpen, Ladder!NoRows
  <1>4. /\ \A s \in Requests \ {r} : pc'[s] = pc[s] /\ now'[s] = now[s] /\ began'[s] = began[s]
        /\ now' \in [Requests -> Nat] /\ began' \in [Requests -> Nat]
        /\ pc' \in [Requests -> {"idle", "begun", "open"} \cup Ladder!Ended]
    BY <1>1, <1>2 DEF LadderControl, Ladder!Ended
  <1>5. \A x : Ladder!HolderOf(x)' = Ladder!HolderOf(x)
    BY <1>2 DEF Ladder!HolderOf
  <1>6. LadderControl'
    BY <1>1, <1>2, <1>3, <1>4 DEF LadderControl, Ladder!Ended
  <1>7. LadderAlone(r)
    <2>1. clock' >= clock
      BY <1>1, <1>2 DEF LadderControl
    <2> QED BY <1>1, <1>2, <1>4, <1>5, <2>1 DEF LadderAlone
  <1>8. LadderShape(r)'
    BY <1>2, <1>6, LadderShapesNext DEF LadderShapes
  <1>9. \A x : ~Taken(r, x)'
    BY <1>3 DEF Taken
  <1>10. LadderStage(r)'
    <2>1. 0 <= Len(Ladder!RowsOf(r))' /\ clock' = clock
      BY <1>2, <1>8 DEF LadderShape
    <2> QED BY <1>2, <1>3, <2>1 DEF LadderStage, Ladder!IsOpen
  <1>11. LadderHeld(r)'
    <2>1. \A x : Ladder!HolderOf(x)' # r
      BY <1>1, <1>3, <1>5 DEF LadderHeld
    <2>2. DOMAIN fresh'[r] = {}
      BY <1>3 DEF Ladder!NoRows
    <2>3. \A k : ~Taken(r, Ladder!Insert(k))'
      BY <1>3 DEF Taken
    <2> QED BY <1>9, <2>1, <2>2, <2>3 DEF LadderHeld
  <1>12. LadderSeen(r)'
    <2>1. DOMAIN seen'[r] = {}
      BY <1>3 DEF Ladder!NoRows
    <2>2. \A k : ~Taken(r, Ladder!Rating(k))'
      BY <1>3 DEF Taken
    <2> QED BY <2>1, <2>2 DEF LadderSeen
  <1>13. LadderChecked(r)'
    <2>1. ~HasJoined(r)'
      <3>1. \A k : ~Taken(r, Ladder!Insert(k))'
        BY <1>3 DEF Taken
      <3> QED BY <3>1 DEF HasJoined
    <2>2. Len(Ladder!RowsOf(r))' >= 2
      <3>1. Ladder!Kind(r)' = "claim" \/ Ladder!Kind(r)' # "claim"
        OBVIOUS
      <3> QED BY <1>8, <3>1 DEF LadderShape
    <2>3. ~Ladder!HasAll(r)'
      BY <1>3, <2>2 DEF Ladder!HasAll
    <2> QED BY <2>1, <2>3 DEF LadderChecked
  <1> QED BY <1>2, <1>6, <1>7, <1>10, <1>11, <1>12, <1>13

---------------------------------------------------------------------------
(* A newcomer's rating is a number: there is a latest earlier season. *)
LEMMA LadderInitial ==
    ASSUME LadderTables, NEW u, NEW s \in Nat
    PROVE  Ladder!InitialRating(u, s) \in Nat
  <1>1. CASE Ladder!Earlier(u, s) = {}
    BY <1>1 DEF Ladder!InitialRating, Ladder!START_RATING
  <1>2. CASE Ladder!Earlier(u, s) # {}
    <2>1. Ladder!Earlier(u, s) \subseteq DOMAIN ratings /\ \A k \in Ladder!Earlier(u, s) : k[2] \in Nat /\ k[2] < s
      BY DEF LadderTables, Ladder!Earlier, Ladder!Keys
    <2>2. PICK T : T = {s - k[2] : k \in Ladder!Earlier(u, s)}
      OBVIOUS
    <2>3. T \subseteq Nat /\ T # {}
      BY <1>2, <2>1, <2>2
    <2>4. PICK n \in T : \A m \in T : n <= m
      BY <2>3, NatHasLeast
    <2>5. PICK k \in Ladder!Earlier(u, s) : n = s - k[2]
      BY <2>2, <2>4
    <2>6. \A j \in Ladder!Earlier(u, s) : j[2] <= k[2]
      <3>1. ASSUME NEW j \in Ladder!Earlier(u, s) PROVE j[2] <= k[2]
        <4>1. s - k[2] <= s - j[2]
          BY <2>2, <2>4, <2>5
        <4> QED BY <2>1, <4>1
      <3> QED BY <3>1
    <2>7. PICK last : last = CHOOSE i \in Ladder!Earlier(u, s) : \A j \in Ladder!Earlier(u, s) : j[2] <= i[2]
      OBVIOUS
    <2>8. last \in Ladder!Earlier(u, s)
      BY <2>6, <2>7
    <2>9. ratings[last].rating \in Nat
      BY <2>1, <2>8 DEF LadderTables, Ladder!Row
    <2>10. Ladder!InitialRating(u, s) = Ladder!SoftReset(ratings[last].rating)
      BY <1>2, <2>7 DEF Ladder!InitialRating
    <2> QED BY <2>9, <2>10 DEF Ladder!SoftReset, Ladder!START_RATING
  <1> QED BY <1>1, <1>2

(* What taking a lock does. *)
LEMMA LadderTakes ==
    ASSUME LadderInv, NEW r \in DOMAIN plan, Ladder!TakeNext(r)
    PROVE  /\ Ladder!IsOpen(r) /\ step[r] + 1 \in 1..Len(Ladder!RowsOf(r)) /\ Ladder!Wanted(r) = Ladder!RowsOf(r)[step[r] + 1]
           /\ Ladder!Wanted(r) \in Locks(r)
           /\ \A y : y # Ladder!Wanted(r) => Ladder!HolderOf(y)' = Ladder!HolderOf(y)
           /\ Ladder!HolderOf(Ladder!Wanted(r)) \in {NoRequest, r}
           /\ \A x : x = Ladder!Wanted(r) => Ladder!HolderOf(x)' \in {Ladder!HolderOf(x), r}
           /\ \A x : x = Ladder!Wanted(r) /\ ~(x[1] = "insert" /\ x[2] \in DOMAIN ratings) => Ladder!HolderOf(x)' = r
           /\ \A x \in DOMAIN holder' : holder'[x] \in DOMAIN plan
           /\ \A x : Taken(r, x)' <=> Taken(r, x) \/ x = Ladder!Wanted(r)
           /\ step'[r] = step[r] + 1
  <1>1. /\ LadderControl /\ LadderStage(r) /\ r \in Requests /\ step[r] \in Nat /\ Ladder!IsOpen(r)
        /\ LadderShape(r) /\ step \in [Requests -> Nat]
    BY LadderRequests, LadderShapesHold DEF LadderInv, LadderControl, Ladder!TakeNext, LadderShapes
  <1>2. step[r] + 1 \in 1..Len(Ladder!RowsOf(r))
    BY <1>1 DEF Ladder!TakeNext, Ladder!HasAll, LadderStage, LadderShape
  <1>3. Ladder!Wanted(r) = Ladder!RowsOf(r)[step[r] + 1] /\ Ladder!Wanted(r) \in Locks(r)
    BY <1>1, <1>2 DEF Ladder!Wanted, LadderShape
  <1>4. PICK w : w = Ladder!Wanted(r)
    OBVIOUS
  <1>5. \A k : w = Ladder!Insert(k) => w[2] = k
    BY LadderTags
  <1>6. \/ holder' = holder /\ w[1] = "insert" /\ w[2] \in DOMAIN ratings
        \/ holder' = [y \in DOMAIN holder \cup {w} |-> IF y = w THEN r ELSE holder[y]]
    <2>1. CASE w[1] = "insert"
      <3>1. Ladder!Join(r, w[2])
        BY <1>4, <2>1 DEF Ladder!TakeNext
      <3>2. w = Ladder!Insert(w[2])
        <4>1. w \in Locks(r)
          BY <1>3, <1>4
        <4>2. \E k : w = Ladder!Insert(k)
          BY <2>1, <4>1, LadderTags DEF Locks
        <4> QED BY <1>5, <4>2
      <3> QED BY <2>1, <3>1, <3>2 DEF Ladder!Join
    <2>2. CASE w[1] # "insert"
      BY <1>4, <2>2 DEF Ladder!TakeNext
    <2> QED BY <2>1, <2>2
  <1>7. Ladder!HolderOf(w) \in {NoRequest, r}
    BY <1>4 DEF Ladder!TakeNext, Ladder!Free
  <1>8. /\ \A y : y # w => Ladder!HolderOf(y)' = Ladder!HolderOf(y)
        /\ Ladder!HolderOf(w)' \in {Ladder!HolderOf(w), r}
        /\ ~(w[1] = "insert" /\ w[2] \in DOMAIN ratings) => Ladder!HolderOf(w)' = r
        /\ \A x \in DOMAIN holder' : holder'[x] \in DOMAIN plan
    <2>1. \A x \in DOMAIN holder : holder[x] \in DOMAIN plan
      BY <1>1 DEF LadderControl
    <2>2. CASE holder' = holder /\ w[1] = "insert" /\ w[2] \in DOMAIN ratings
      BY <2>1, <2>2 DEF Ladder!HolderOf
    <2>3. CASE holder' = [y \in DOMAIN holder \cup {w} |-> IF y = w THEN r ELSE holder[y]]
      BY <2>1, <2>3 DEF Ladder!HolderOf
    <2> QED BY <1>6, <2>2, <2>3
  <1>9. step'[r] = step[r] + 1 /\ plan' = plan /\ now' = now
    BY <1>1 DEF Ladder!TakeNext
  <1>10. \A x : Taken(r, x)' <=> Taken(r, x) \/ x = w
    <2>1. Ladder!RowsOf(r)' = Ladder!RowsOf(r)
      BY <1>9, LadderSameRows
    <2>2. 1..step'[r] = 1..step[r] \cup {step[r] + 1}
      BY <1>1, <1>9
    <2> QED BY <1>3, <1>4, <2>1, <2>2 DEF Taken
  <1> QED BY <1>1, <1>2, <1>3, <1>4, <1>7, <1>8, <1>9, <1>10

LEMMA LadderTakesControl ==
    ASSUME LadderInv, NEW r \in DOMAIN plan, Ladder!TakeNext(r)
    PROVE  LadderControl' /\ LadderAlone(r) /\ UNCHANGED Ladder!tables /\ LadderStage(r)'
  <1>1. /\ LadderControl /\ LadderStage(r) /\ LadderHeld(r) /\ r \in Requests /\ NoRequest \notin Requests
        /\ DOMAIN plan \subseteq Requests /\ step[r] \in Nat
    BY LadderRequests DEF LadderInv, LadderControl
  <1>2. /\ Ladder!IsOpen(r) /\ step[r] + 1 \in 1..Len(Ladder!RowsOf(r))
        /\ \A y : y # Ladder!Wanted(r) => Ladder!HolderOf(y)' = Ladder!HolderOf(y)
        /\ Ladder!HolderOf(Ladder!Wanted(r)) \in {NoRequest, r}
        /\ \A x : x = Ladder!Wanted(r) => Ladder!HolderOf(x)' \in {Ladder!HolderOf(x), r}
        /\ \A x \in DOMAIN holder' : holder'[x] \in DOMAIN plan
        /\ step'[r] = step[r] + 1
    BY LadderTakes
  <1>3. UNCHANGED <<plan, pc, now, began, Ladder!tables, clock>> /\ step' = [step EXCEPT ![r] = @ + 1]
    BY DEF Ladder!TakeNext
  <1>4. PICK new : fresh' = fresh \/ fresh' = [fresh EXCEPT ![r] = new]
    BY DEF Ladder!TakeNext, Ladder!Join
  <1>5. PICK read : seen' = seen \/ seen' = [seen EXCEPT ![r] = read]
    BY DEF Ladder!TakeNext
  <1>6. DOMAIN fresh = Requests /\ DOMAIN seen = Requests
    BY <1>1 DEF LadderControl
  <1>7. /\ \A s \in Requests \ {r} : fresh'[s] = fresh[s] /\ seen'[s] = seen[s] /\ step'[s] = step[s]
        /\ fresh' = [s \in Requests |-> fresh'[s]] /\ seen' = [s \in Requests |-> seen'[s]]
        /\ step' \in [Requests -> Nat]
    <2>1. \A s \in Requests \ {r} : fresh'[s] = fresh[s] /\ seen'[s] = seen[s]
      BY <1>1, <1>4, <1>5, <1>6
    <2>2. fresh' = [s \in Requests |-> fresh'[s]]
      BY <1>1, <1>4, <1>6 DEF LadderControl
    <2>3. seen' = [s \in Requests |-> seen'[s]]
      BY <1>1, <1>5, <1>6 DEF LadderControl
    <2>4. step' \in [Requests -> Nat] /\ \A s \in Requests \ {r} : step'[s] = step[s]
      BY <1>1, <1>3 DEF LadderControl
    <2> QED BY <2>1, <2>2, <2>3, <2>4
  <1>8. LadderControl'
    <2>1. \A s \in Requests \ DOMAIN plan' : fresh'[s] = Ladder!NoRows'
      BY <1>1, <1>3, <1>7 DEF LadderControl, Ladder!NoRows
    <2> QED BY <1>1, <1>2, <1>3, <1>7, <2>1 DEF LadderControl
  <1>9. \A s \in Requests \ {r} : \A x : Ladder!HolderOf(x)' = s <=> Ladder!HolderOf(x) = s
    <2>1. ASSUME NEW s \in Requests \ {r}, NEW x PROVE Ladder!HolderOf(x)' = s <=> Ladder!HolderOf(x) = s
      <3>1. CASE x = Ladder!Wanted(r)
        <4>1. Ladder!HolderOf(x) \in {NoRequest, r}
          BY <1>2, <3>1
        <4>2. Ladder!HolderOf(x)' \in {Ladder!HolderOf(x), r}
          BY <1>2, <3>1
        <4> QED BY <1>1, <2>1, <4>1, <4>2
      <3>2. CASE x # Ladder!Wanted(r)
        BY <1>2, <3>2
      <3> QED BY <3>1, <3>2
    <2> QED BY <2>1
  <1>10. LadderAlone(r)
    <2>1. clock' >= clock
      BY <1>1, <1>3 DEF LadderControl
    <2> QED BY <1>1, <1>3, <1>7, <1>9, <2>1 DEF LadderAlone
  <1>11. LadderStage(r)'
    <2>1. /\ Ladder!Kind(r)' = Ladder!Kind(r) /\ Ladder!Mine(r)' = Ladder!Mine(r) /\ Ladder!RowsOf(r)' = Ladder!RowsOf(r)
      BY <1>3, LadderSameRows
    <2>2. ratings' = ratings /\ Ladder!IsOpen(r)' /\ pc'[r] = "open"
      BY <1>2, <1>3 DEF Ladder!tables, Ladder!IsOpen
    <2>3. step'[r] <= Len(Ladder!RowsOf(r))
      BY <1>2
    <2>4. now[r] <= clock /\ now[r] <= began[r] /\ began[r] <= clock
      BY <1>1, <1>2 DEF LadderStage, Ladder!IsOpen
    <2>5. Ladder!Kind(r) = "claim" => Ladder!Mine(r) \in DOMAIN ratings
      <3>1. CASE step[r] = 0
        BY <3>1 DEF Ladder!TakeNext, Ladder!IsRefused
      <3>2. CASE step[r] # 0
        BY <1>1, <3>2 DEF LadderStage
      <3> QED BY <3>1, <3>2
    <2> QED BY <1>3, <2>1, <2>2, <2>3, <2>4, <2>5 DEF LadderStage
  <1> QED BY <1>3, <1>8, <1>10, <1>11

LEMMA LadderJoins ==
    ASSUME LadderInv, NEW r \in DOMAIN plan, Ladder!TakeNext(r), NEW k, Ladder!Wanted(r) = Ladder!Insert(k)
    PROVE  /\ k \in KeysOf(r) /\ k \in Ladder!Keys
           /\ k \in DOMAIN ratings => fresh' = fresh
           /\ k \notin DOMAIN ratings =>
                 /\ DOMAIN fresh'[r] = DOMAIN fresh[r] \cup {k}
                 /\ \A j \in DOMAIN fresh[r] : j # k => fresh'[r][j] = fresh[r][j]
                 /\ fresh'[r][k] \in Ladder!Row /\ fresh'[r][k].wins = 0 /\ fresh'[r][k].losses = 0
                 /\ Ladder!HolderOf(Ladder!Insert(k))' = r
           /\ seen' = seen
  <1>1. LadderControl /\ LadderTables /\ r \in Requests /\ plan \in PvpPlans /\ now[r] \in Nat
    BY LadderRequests DEF LadderInv, LadderControl
  <1>2. Ladder!Insert(k)[1] = "insert" /\ Ladder!Insert(k)[2] = k
    BY LadderTags
  <1>3. k \in KeysOf(r)
    <2>1. Ladder!Insert(k) \in Locks(r)
      BY LadderTakes
    <2> QED BY <1>2, <2>1, LadderTags DEF Locks
  <1>4. k \in Ladder!Keys
    BY <1>1, <1>3, LadderKeys
  <1>5. Ladder!Join(r, k) /\ seen' = seen
    BY <1>2 DEF Ladder!TakeNext
  <1>6. k \in DOMAIN ratings => fresh' = fresh
    BY <1>5 DEF Ladder!Join
  <1>7. ASSUME k \notin DOMAIN ratings
        PROVE  /\ DOMAIN fresh'[r] = DOMAIN fresh[r] \cup {k}
               /\ \A j \in DOMAIN fresh[r] : j # k => fresh'[r][j] = fresh[r][j]
               /\ fresh'[r][k] \in Ladder!Row /\ fresh'[r][k].wins = 0 /\ fresh'[r][k].losses = 0
               /\ Ladder!HolderOf(Ladder!Insert(k))' = r
    <2>1. PICK n : n = Ladder!InitialRating(k[1], k[2])
      OBVIOUS
    <2>2. n \in Nat
      BY <1>1, <1>4, <2>1, LadderInitial DEF Ladder!Keys
    <2>3. PICK row : row = [rating |-> n, wins |-> 0, losses |-> 0, claimed |-> FALSE]
      OBVIOUS
    <2>4. row \in Ladder!Row /\ row.wins = 0 /\ row.losses = 0
      BY <2>2, <2>3 DEF Ladder!Row
    <2>5. /\ fresh' = [fresh EXCEPT ![r] = [j \in DOMAIN fresh[r] \cup {k} |-> IF j = k THEN row ELSE fresh[r][j]]]
          /\ holder' = [x \in DOMAIN holder \cup {Ladder!Insert(k)} |-> IF x = Ladder!Insert(k) THEN r ELSE holder[x]]
      BY <1>5, <1>7, <2>1, <2>3 DEF Ladder!Join
    <2>6. fresh'[r] = [j \in DOMAIN fresh[r] \cup {k} |-> IF j = k THEN row ELSE fresh[r][j]]
      <3>1. r \in DOMAIN fresh
        BY <1>1 DEF LadderControl
      <3> QED BY <2>5, <3>1
    <2>7. fresh'[r][k] = row /\ DOMAIN fresh'[r] = DOMAIN fresh[r] \cup {k}
      BY <2>6
    <2>8. \A j \in DOMAIN fresh[r] : j # k => fresh'[r][j] = fresh[r][j]
      BY <2>6
    <2>9. Ladder!HolderOf(Ladder!Insert(k))' = r
      <3>1. PICK x : x = Ladder!Insert(k)
        OBVIOUS
      <3>2. x \in DOMAIN holder' /\ holder'[x] = r
        BY <2>5, <3>1
      <3>3. x = Ladder!Insert(k)'
        BY <3>1 DEF Ladder!Insert
      <3> QED BY <3>2, <3>3 DEF Ladder!HolderOf
    <2> QED BY <2>4, <2>7, <2>8, <2>9
  <1> QED BY <1>3, <1>4, <1>5, <1>6, <1>7

(* It takes a lock of another kind, or joins. *)
LEMMA LadderTakesOrJoins ==
    ASSUME LadderInv, NEW r \in DOMAIN plan, Ladder!TakeNext(r)
    PROVE  \/ Ladder!Wanted(r)[1] # "insert" /\ fresh' = fresh
           \/ \E k : Ladder!Wanted(r) = Ladder!Insert(k)
  <1>1. Ladder!Wanted(r) \in Locks(r)
    BY LadderTakes
  <1>2. CASE Ladder!Wanted(r)[1] # "insert"
    BY <1>2 DEF Ladder!TakeNext
  <1>3. CASE Ladder!Wanted(r)[1] = "insert"
    BY <1>1, <1>3, LadderTags DEF Locks
  <1> QED BY <1>2, <1>3

LEMMA LadderTakesHeld ==
    ASSUME LadderInv, NEW r \in DOMAIN plan, Ladder!TakeNext(r)
    PROVE  LadderHeld(r)'
  <1>1. /\ LadderControl /\ LadderHeld(r) /\ r \in Requests
        /\ UNCHANGED <<plan, pc, now, began, Ladder!tables, clock>>
    BY LadderRequests DEF LadderInv, LadderControl, Ladder!TakeNext
  <1>2. PICK w : w = Ladder!Wanted(r)
    OBVIOUS
  <1>3. /\ Ladder!IsOpen(r)
        /\ \A y : y # w => Ladder!HolderOf(y)' = Ladder!HolderOf(y)
        /\ Ladder!HolderOf(w)' \in {Ladder!HolderOf(w), r}
        /\ w[1] # "insert" => Ladder!HolderOf(w)' = r
        /\ \A x : Taken(r, x)' <=> Taken(r, x) \/ x = w
    BY <1>2, LadderTakes
  <1>4. /\ KeysOf(r)' = KeysOf(r) /\ Ladder!IsOpen(r)' /\ ratings' = ratings
    BY <1>1, <1>3, LadderSameRows DEF Ladder!IsOpen, Ladder!tables
  <1>5. \A k : Taken(r, Ladder!Insert(k))' <=> Taken(r, Ladder!Insert(k)) \/ Ladder!Insert(k) = w
    <2>1. ASSUME NEW k PROVE Taken(r, Ladder!Insert(k))' <=> Taken(r, Ladder!Insert(k)) \/ Ladder!Insert(k) = w
      <3>1. PICK x : x = Ladder!Insert(k)
        OBVIOUS
      <3>2. x = Ladder!Insert(k)'
        BY <3>1 DEF Ladder!Insert
      <3> QED BY <1>3, <3>1, <3>2
    <2> QED BY <2>1
  <1>6. /\ \A x : Taken(r, x) /\ x[1] # "insert" => Ladder!HolderOf(x) = r
        /\ \A x : Ladder!HolderOf(x) = r => Taken(r, x)
        /\ \A k \in KeysOf(r) : Taken(r, Ladder!Insert(k)) => k \in DOMAIN ratings \cup DOMAIN fresh[r]
        /\ \A k \in DOMAIN fresh[r] :
              /\ k \in KeysOf(r) /\ k \notin DOMAIN ratings /\ Ladder!HolderOf(Ladder!Insert(k)) = r
              /\ fresh[r][k] \in Ladder!Row /\ fresh[r][k].wins = 0 /\ fresh[r][k].losses = 0
    BY <1>1, <1>3 DEF LadderHeld
  <1>7. \A x : Taken(r, x)' /\ x[1] # "insert" => Ladder!HolderOf(x)' = r
    BY <1>3, <1>6
  <1>8. \A x : Ladder!HolderOf(x)' = r => Taken(r, x)'
    BY <1>3, <1>6
  <1>9. DOMAIN fresh[r] \subseteq DOMAIN fresh'[r] /\ \A k : w = Ladder!Insert(k) => k \in DOMAIN ratings \cup DOMAIN fresh'[r]
    <2>1. CASE w[1] # "insert" /\ fresh' = fresh
      BY <2>1, LadderTags
    <2>2. ASSUME NEW k, w = Ladder!Insert(k)
          PROVE  DOMAIN fresh[r] \subseteq DOMAIN fresh'[r] /\ k \in DOMAIN ratings \cup DOMAIN fresh'[r]
      BY <1>2, <2>2, LadderJoins
    <2> QED BY <1>2, <2>1, <2>2, LadderTakesOrJoins
  <1>10. \A k \in KeysOf(r) : Taken(r, Ladder!Insert(k))' => k \in DOMAIN ratings \cup DOMAIN fresh'[r]
    BY <1>5, <1>6, <1>9
  <1>11. ASSUME NEW k \in DOMAIN fresh'[r]
         PROVE  /\ k \in KeysOf(r) /\ k \notin DOMAIN ratings /\ Ladder!HolderOf(Ladder!Insert(k))' = r
                /\ fresh'[r][k] \in Ladder!Row /\ fresh'[r][k].wins = 0 /\ fresh'[r][k].losses = 0
    <2>1. ASSUME k \in DOMAIN fresh[r], Ladder!Insert(k) # w, fresh'[r][k] = fresh[r][k]
          PROVE  /\ k \in KeysOf(r) /\ k \notin DOMAIN ratings /\ Ladder!HolderOf(Ladder!Insert(k))' = r
                 /\ fresh'[r][k] \in Ladder!Row /\ fresh'[r][k].wins = 0 /\ fresh'[r][k].losses = 0
      <3>1. PICK x : x = Ladder!Insert(k)
        OBVIOUS
      <3>2. x = Ladder!Insert(k)' /\ Ladder!HolderOf(x) = r
        BY <1>6, <2>1, <3>1 DEF Ladder!Insert
      <3>3. Ladder!HolderOf(Ladder!Insert(k))' = r
        BY <1>3, <2>1, <3>1, <3>2
      <3> QED BY <1>6, <2>1, <3>3
    <2>2. CASE w[1] # "insert" /\ fresh' = fresh
      BY <1>11, <2>1, <2>2, LadderTags
    <2>3. ASSUME NEW j, w = Ladder!Insert(j)
          PROVE  /\ k \in KeysOf(r) /\ k \notin DOMAIN ratings /\ Ladder!HolderOf(Ladder!Insert(k))' = r
                 /\ fresh'[r][k] \in Ladder!Row /\ fresh'[r][k].wins = 0 /\ fresh'[r][k].losses = 0
      <3>1. j = k <=> Ladder!Insert(k) = w
        BY <2>3, LadderTags
      <3>2. CASE j \in DOMAIN ratings
        <4>1. fresh' = fresh
          BY <1>2, <2>3, <3>2, LadderJoins
        <4>2. k \notin DOMAIN ratings
          BY <1>6, <1>11, <4>1
        <4> QED BY <1>11, <2>1, <3>1, <3>2, <4>1, <4>2
      <3>3. CASE j \notin DOMAIN ratings
        <4>1. /\ j \in KeysOf(r) /\ DOMAIN fresh'[r] = DOMAIN fresh[r] \cup {j}
              /\ \A i \in DOMAIN fresh[r] : i # j => fresh'[r][i] = fresh[r][i]
              /\ fresh'[r][j] \in Ladder!Row /\ fresh'[r][j].wins = 0 /\ fresh'[r][j].losses = 0
              /\ Ladder!HolderOf(Ladder!Insert(j))' = r
          BY <1>2, <2>3, <3>3, LadderJoins
        <4>2. CASE k = j
          BY <3>3, <4>1, <4>2
        <4>3. CASE k # j
          BY <1>11, <2>1, <3>1, <4>1, <4>3
        <4> QED BY <4>2, <4>3
      <3> QED BY <3>2, <3>3
    <2> QED BY <1>2, <2>2, <2>3, LadderTakesOrJoins
  <1> QED BY <1>4, <1>7, <1>8, <1>10, <1>11 DEF LadderHeld, Ladder!Row

(* A row is locked when the request has joined with all its rows. *)
LEMMA LadderJoinsFirst ==
    ASSUME LadderInv, NEW r \in DOMAIN plan, Ladder!IsOpen(r), Ladder!Kind(r) # "claim", NEW i \in 1..Len(Ladder!RowsOf(r)), i <= step[r] + 1,
           NEW k \in KeysOf(r), Ladder!RowsOf(r)[i] = Ladder!Rating(k)
    PROVE  \A j \in KeysOf(r) : Taken(r, Ladder!Insert(j)) /\ j \in DOMAIN ratings \cup DOMAIN fresh[r]
  <1>1. LadderControl /\ LadderHeld(r) /\ LadderShape(r) /\ r \in Requests /\ step[r] \in Nat
    BY LadderRequests, LadderShapesHold DEF LadderInv, LadderControl, LadderShapes
  <1>2. ASSUME NEW j \in KeysOf(r) PROVE Taken(r, Ladder!Insert(j)) /\ j \in DOMAIN ratings \cup DOMAIN fresh[r]
    <2>1. PICK n \in 1..Len(Ladder!RowsOf(r)) : Ladder!RowsOf(r)[n] = Ladder!Insert(j)
      BY <1>1 DEF LadderShape
    <2>2. n < i
      <3>1. Ladder!RowsOf(r)[i][1] = "rating" /\ Ladder!RowsOf(r)[n][1] = "insert"
        BY <2>1, LadderTags
      <3> QED BY <1>1, <3>1 DEF LadderShape
    <2>3. n \in 1..step[r]
      BY <1>1, <2>2 DEF LadderShape
    <2>4. Taken(r, Ladder!Insert(j))
      BY <2>1, <2>3 DEF Taken
    <2> QED BY <1>1, <2>4 DEF LadderHeld
  <1> QED BY <1>2

LEMMA LadderTakesSeen ==
    ASSUME LadderInv, NEW r \in DOMAIN plan, Ladder!TakeNext(r)
    PROVE  LadderSeen(r)'
  <1>1. /\ LadderControl /\ LadderTables /\ LadderSeen(r) /\ LadderStage(r) /\ LadderShape(r) /\ r \in Requests
        /\ UNCHANGED <<plan, pc, now, began, Ladder!tables, clock>> /\ step[r] \in Nat /\ Ladder!IsOpen(r)
    BY LadderRequests, LadderShapesHold DEF LadderInv, LadderControl, Ladder!TakeNext, LadderShapes
  <1>2. PICK w : w = Ladder!Wanted(r)
    OBVIOUS
  <1>3. /\ step[r] + 1 \in 1..Len(Ladder!RowsOf(r)) /\ w = Ladder!RowsOf(r)[step[r] + 1] /\ w \in Locks(r)
        /\ \A x : Taken(r, x)' <=> Taken(r, x) \/ x = w
    BY <1>2, LadderTakes
  <1>4. /\ KeysOf(r)' = KeysOf(r) /\ Ladder!IsOpen(r)' /\ ratings' = ratings
    BY <1>1, LadderSameRows DEF Ladder!IsOpen, Ladder!tables
  <1>5. \A k : Taken(r, Ladder!Rating(k))' <=> Taken(r, Ladder!Rating(k)) \/ Ladder!Rating(k) = w
    <2>1. ASSUME NEW k PROVE Taken(r, Ladder!Rating(k))' <=> Taken(r, Ladder!Rating(k)) \/ Ladder!Rating(k) = w
      <3>1. PICK x : x = Ladder!Rating(k)
        OBVIOUS
      <3>2. x = Ladder!Rating(k)'
        BY <3>1 DEF Ladder!Rating
      <3> QED BY <1>3, <3>1, <3>2
    <2> QED BY <2>1
  <1>6. ASSUME NEW k, Ladder!Rating(k) = w
        PROVE  /\ k \in KeysOf(r)
               /\ DOMAIN seen'[r] = DOMAIN seen[r] \cup {k}
               /\ seen'[r][k] = Ladder!RowSeen(r, k)
               /\ \A j \in DOMAIN seen[r] : j # k => seen'[r][j] = seen[r][j]
               /\ k \in DOMAIN ratings \cup DOMAIN fresh[r]
    <2>1. w[1] = "rating" /\ w[2] = k
      BY <1>6, LadderTags
    <2>2. k \in KeysOf(r)
      BY <1>3, <1>6, <2>1, LadderTags DEF Locks
    <2>3. seen' = [seen EXCEPT ![r] = [j \in DOMAIN seen[r] \cup {k} |-> IF j = k THEN Ladder!RowSeen(r, k) ELSE seen[r][j]]]
      BY <1>2, <2>1 DEF Ladder!TakeNext
    <2>4. seen'[r] = [j \in DOMAIN seen[r] \cup {k} |-> IF j = k THEN Ladder!RowSeen(r, k) ELSE seen[r][j]]
      <3>1. r \in DOMAIN seen
        BY <1>1 DEF LadderControl
      <3> QED BY <2>3, <3>1
    <2>5. k \in DOMAIN ratings \cup DOMAIN fresh[r]
      <3>1. CASE Ladder!Kind(r) = "claim"
        <4>1. LadderStage(r)' /\ step'[r] = step[r] + 1
          BY LadderTakes, LadderTakesControl
        <4>2. Ladder!Kind(r)' = "claim" /\ Ladder!Mine(r)' = Ladder!Mine(r)
          BY <1>1, <3>1, LadderSameRows
        <4>3. Ladder!Mine(r) \in DOMAIN ratings
          BY <1>1, <1>4, <4>1, <4>2 DEF LadderStage
        <4>4. KeysOf(r) = {Ladder!Mine(r)}
          BY <3>1 DEF KeysOf
        <4> QED BY <2>2, <4>3, <4>4
      <3>2. CASE Ladder!Kind(r) # "claim"
        BY <1>1, <1>3, <1>6, <2>2, <3>2, LadderJoinsFirst
      <3> QED BY <3>1, <3>2
    <2> QED BY <2>2, <2>4, <2>5
  <1>7. w[1] # "rating" => seen' = seen
    BY <1>2 DEF Ladder!TakeNext
  <1>8. w[1] = "rating" => \E k : w = Ladder!Rating(k)
    BY <1>3, LadderTags DEF Locks
  <1>9. /\ \A k \in DOMAIN seen[r] : k \in KeysOf(r) /\ Taken(r, Ladder!Rating(k))
        /\ \A k \in KeysOf(r) : Taken(r, Ladder!Rating(k)) =>
              /\ k \in DOMAIN seen[r] /\ seen[r][k] = Ladder!RowSeen(r, k)
              /\ k \in DOMAIN ratings \cup DOMAIN fresh[r]
    BY <1>1 DEF LadderSeen
  <1>10. \A k \in DOMAIN seen'[r] : k \in KeysOf(r) /\ Taken(r, Ladder!Rating(k))'
    <2>1. CASE w[1] # "rating"
      BY <1>5, <1>7, <1>9, <2>1
    <2>2. ASSUME NEW j, w = Ladder!Rating(j), NEW k \in DOMAIN seen'[r] PROVE k \in KeysOf(r) /\ Taken(r, Ladder!Rating(k))'
      BY <1>5, <1>6, <1>9, <2>2
    <2> QED BY <1>8, <2>1, <2>2
  <1>11. ASSUME NEW k \in KeysOf(r), Taken(r, Ladder!Rating(k)) \/ Ladder!Rating(k) = w
         PROVE  /\ k \in DOMAIN seen'[r] /\ seen'[r][k] = Ladder!RowSeen(r, k)'
                /\ k \in DOMAIN ratings \cup DOMAIN fresh'[r]
    <2>1. w[1] # "insert"
      <3>1. CASE Ladder!Rating(k) = w
        BY <3>1, LadderTags
      <3>2. CASE Taken(r, Ladder!Rating(k))
        <4>1. PICK i \in 1..step[r] : Ladder!RowsOf(r)[i] = Ladder!Rating(k)
          BY <3>2 DEF Taken
        <4>2. i \in 1..Len(Ladder!RowsOf(r)) /\ i < step[r] + 1 /\ Ladder!RowsOf(r)[i][1] = "rating"
          BY <1>1, <4>1, LadderTags DEF LadderStage, LadderShape
        <4>3. CASE Ladder!Kind(r) = "claim"
          <5>1. \A j \in 1..Len(Ladder!RowsOf(r)) : j = 1 \/ j = 2
            <6>1. Len(Ladder!RowsOf(r)) = 2
              BY <1>1, <4>3 DEF LadderShape
            <6> QED BY <6>1
          <5> QED BY <1>1, <1>3, <4>3, <5>1, LadderTags DEF LadderShape
        <4>4. CASE Ladder!Kind(r) # "claim"
          <5>1. w[1] = "insert" => step[r] + 1 < i
            BY <1>1, <1>3, <4>2, <4>4 DEF LadderShape
          <5> QED BY <1>1, <4>2, <5>1
        <4> QED BY <4>3, <4>4
      <3> QED BY <1>11, <3>1, <3>2
    <2>2. fresh' = fresh /\ Ladder!RowSeen(r, k)' = Ladder!RowSeen(r, k)
      <3>1. fresh' = fresh
        BY <1>2, <2>1 DEF Ladder!TakeNext
      <3> QED BY <1>4, <3>1 DEF Ladder!RowSeen
    <2>3. CASE Ladder!Rating(k) = w
      BY <1>6, <2>2, <2>3
    <2>4. CASE Ladder!Rating(k) # w
      <3>1. k \in DOMAIN seen[r] /\ seen[r][k] = Ladder!RowSeen(r, k) /\ k \in DOMAIN ratings \cup DOMAIN fresh[r]
        BY <1>9, <1>11, <2>4
      <3>2. CASE w[1] # "rating"
        BY <1>7, <2>2, <3>1, <3>2
      <3>3. ASSUME NEW j, w = Ladder!Rating(j) PROVE k \in DOMAIN seen'[r] /\ seen'[r][k] = seen[r][k]
        BY <1>6, <2>4, <3>1, <3>3
      <3> QED BY <1>8, <2>2, <3>1, <3>2, <3>3
    <2> QED BY <2>3, <2>4
  <1> QED BY <1>4, <1>5, <1>10, <1>11 DEF LadderSeen

LEMMA LadderTakesChecked ==
    ASSUME LadderInv, NEW r \in DOMAIN plan, Ladder!TakeNext(r)
    PROVE  LadderChecked(r)'
  <1>1. /\ LadderControl /\ LadderChecked(r) /\ LadderStage(r) /\ LadderShape(r) /\ r \in Requests
        /\ UNCHANGED <<plan, pc, now, began, Ladder!tables, clock>> /\ step[r] \in Nat /\ Ladder!IsOpen(r) /\ plan \in PvpPlans
    BY LadderRequests, LadderShapesHold DEF LadderInv, LadderControl, Ladder!TakeNext, LadderShapes
  <1>2. PICK w : w = Ladder!Wanted(r)
    OBVIOUS
  <1>3. /\ step[r] + 1 \in 1..Len(Ladder!RowsOf(r)) /\ w = Ladder!RowsOf(r)[step[r] + 1] /\ w \in Locks(r)
        /\ \A x : Taken(r, x)' <=> Taken(r, x) \/ x = w
        /\ step'[r] = step[r] + 1
    BY <1>2, LadderTakes
  <1>4. /\ KeysOf(r)' = KeysOf(r) /\ Ladder!Kind(r)' = Ladder!Kind(r) /\ Ladder!User(r)' = Ladder!User(r) /\ Ladder!Rival(r)' = Ladder!Rival(r)
        /\ Ladder!IsReal(r)' = Ladder!IsReal(r) /\ Ladder!RowsOf(r)' = Ladder!RowsOf(r) /\ battles' = battles
    BY <1>1, LadderSameRows DEF Ladder!tables
  <1>5. PICK u, v, t : u = Ladder!User(r) /\ v = Ladder!Rival(r) /\ t = Ladder!DayStart(now[r])
    OBVIOUS
  <1>6. u = Ladder!User(r)' /\ v = Ladder!Rival(r)' /\ t = Ladder!DayStart(now[r])'
    BY <1>1, <1>4, <1>5 DEF Ladder!DayStart, Ladder!DayOf
  <1>7. Ladder!Fights(u, t)' = Ladder!Fights(u, t) /\ Ladder!FightsWith(u, v, t)' = Ladder!FightsWith(u, v, t)
    BY <1>4 DEF Ladder!Fights, Ladder!FightsWith
  <1>8. SUFFICES ASSUME Ladder!Kind(r) = "battle"
                 PROVE  /\ HasJoined(r)' => v # u /\ Cardinality(Ladder!Fights(u, t)) < PVP_DAILY_ATTEMPTS
                        /\ Ladder!HasAll(r)' /\ Ladder!IsReal(r) =>
                              Cardinality(Ladder!FightsWith(u, v, t)) < PVP_MAX_FIGHTS_PER_OPPONENT_PER_DAY
    <2>1. /\ Cardinality(Ladder!Fights(Ladder!User(r), Ladder!DayStart(now[r])))' = Cardinality(Ladder!Fights(u, t))
          /\ Cardinality(Ladder!FightsWith(Ladder!User(r), Ladder!Rival(r), Ladder!DayStart(now[r])))' = Cardinality(Ladder!FightsWith(u, v, t))
      BY <1>6, <1>7
    <2> QED BY <1>4, <1>5, <2>1 DEF LadderChecked
  <1>9. ~Ladder!IsRefused(r)
    BY DEF Ladder!TakeNext
  <1>10. ASSUME HasJoined(r)' PROVE v # u /\ Cardinality(Ladder!Fights(u, t)) < PVP_DAILY_ATTEMPTS
    <2>1. CASE HasJoined(r)
      BY <1>1, <1>5, <1>8, <2>1 DEF LadderChecked
    <2>2. CASE ~HasJoined(r)
      <3>1. PICK k \in KeysOf(r) : Taken(r, Ladder!Insert(k))'
        BY <1>4, <1>10 DEF HasJoined
      <3>2. w = Ladder!Insert(k)
        <4>1. PICK x : x = Ladder!Insert(k)
          OBVIOUS
        <4>2. x = Ladder!Insert(k)'
          BY <4>1 DEF Ladder!Insert
        <4> QED BY <1>3, <2>2, <3>1, <4>1, <4>2 DEF HasJoined
      <3>3. w[1] = "insert"
        BY <3>2, LadderTags
      <3>4. step[r] > 0 /\ Ladder!RowsOf(r)[step[r]][1] \in {"monster", "wallet", "insert"}
        <4>1. step[r] + 1 > 1 /\ Ladder!RowsOf(r)[(step[r] + 1) - 1][1] \in {"monster", "wallet", "insert"}
          BY <1>1, <1>3, <3>3 DEF LadderShape
        <4> QED BY <1>1, <4>1
      <3>5. Ladder!RowsOf(r)[step[r]][1] # "insert"
        <4>1. step[r] \in 1..step[r] /\ step[r] \in 1..Len(Ladder!RowsOf(r))
          BY <1>1, <3>4 DEF LadderStage, LadderShape
        <4>2. ASSUME Ladder!RowsOf(r)[step[r]][1] = "insert" PROVE FALSE
          <5>1. Ladder!RowsOf(r)[step[r]] \in Locks(r)
            BY <1>1, <4>1 DEF LadderShape
          <5>2. PICK j \in KeysOf(r) : Ladder!RowsOf(r)[step[r]] = Ladder!Insert(j)
            BY <4>2, <5>1, LadderTags DEF Locks
          <5>3. Taken(r, Ladder!Insert(j))
            BY <4>1, <5>2 DEF Taken
          <5> QED BY <2>2, <5>2, <5>3 DEF HasJoined
        <4> QED BY <4>2
      <3>6. Ladder!HasTicked(r) /\ ~Ladder!HasAll(r)
        BY <1>2, <3>3, <3>4, <3>5 DEF Ladder!HasTicked, Ladder!TakeNext
      <3>7. Ladder!MayFight(r)
        BY <1>8, <1>9, <3>4, <3>6 DEF Ladder!IsRefused
      <3>8. u \in Players
        BY <1>1, <1>5, LadderRequests
      <3> QED BY <1>5, <3>7, <3>8, LadderSame DEF Ladder!MayFight, Ladder!IsReal
    <2> QED BY <2>1, <2>2
  <1>11. ASSUME Ladder!HasAll(r)', Ladder!IsReal(r)
         PROVE  Cardinality(Ladder!FightsWith(u, v, t)) < PVP_MAX_FIGHTS_PER_OPPONENT_PER_DAY
    <2>1. step[r] + 1 = Len(Ladder!RowsOf(r))
      BY <1>3, <1>4, <1>11 DEF Ladder!HasAll
    <2>2. Ladder!IsEligible(r)
      BY <1>8, <1>9, <2>1 DEF Ladder!IsRefused
    <2> QED BY <1>5, <1>11, <2>2, LadderSame DEF Ladder!IsEligible
  <1> QED BY <1>10, <1>11

---------------------------------------------------------------------------
LEMMA LadderSurprise ==
    ASSUME NEW points, IsFiniteSet(DOMAIN points), NEW d
    PROVE  Ladder!Surprise(points, d) \in Nat
  <1>1. IsFiniteSet({k \in DOMAIN points : d <= points[k]})
    BY FS_Subset
  <1> QED BY <1>1, FS_CardinalityType, LadderSame DEF Ladder!Surprise

(* The points of a fight keep the ratings natural numbers. *)
LEMMA LadderElo ==
    ASSUME NEW a \in Nat, NEW d \in Nat, NEW isWon \in BOOLEAN
    PROVE  Ladder!Elo(a, d, isWon).attacker \in Nat /\ Ladder!Elo(a, d, isWon).defender \in Nat
  <1>1. IsFiniteSet(DOMAIN Ladder!ATTACKER_POINTS) /\ IsFiniteSet(DOMAIN Ladder!DEFENDER_POINTS)
    <2>1. DOMAIN Ladder!ATTACKER_POINTS = 1..32
      BY DEF Ladder!ATTACKER_POINTS
    <2>2. DOMAIN Ladder!DEFENDER_POINTS = 1..16
      BY DEF Ladder!DEFENDER_POINTS
    <2>3. \A n \in Nat : IsFiniteSet(1..n)
      BY FS_Interval
    <2> QED BY <2>1, <2>2, <2>3
  <1>2. PICK p, q, x, y : /\ p = Ladder!Surprise(Ladder!ATTACKER_POINTS, a - d) /\ q = Ladder!Surprise(Ladder!DEFENDER_POINTS, a - d)
                          /\ x = Ladder!Surprise(Ladder!ATTACKER_POINTS, -(a - d)) /\ y = Ladder!Surprise(Ladder!DEFENDER_POINTS, -(a - d))
    OBVIOUS
  <1>3. p \in Nat /\ q \in Nat /\ x \in Nat /\ y \in Nat
    BY <1>1, <1>2, LadderSurprise
  <1>4. Ladder!NotBelowMin(d - q) \in Nat /\ Ladder!NotBelowMin(a - x) \in Nat
    BY <1>3 DEF Ladder!NotBelowMin, Ladder!MIN_RATING
  <1>5. CASE isWon
    <2>1. Ladder!Elo(a, d, isWon) = [attacker |-> a + p, defender |-> Ladder!NotBelowMin(d - q)]
      BY <1>2, <1>5 DEF Ladder!Elo
    <2> QED BY <1>3, <1>4, <2>1
  <1>6. CASE ~isWon
    <2>1. Ladder!Elo(a, d, isWon) = [attacker |-> Ladder!NotBelowMin(a - x), defender |-> d + y]
      BY <1>2, <1>6 DEF Ladder!Elo
    <2> QED BY <1>3, <1>4, <2>1
  <1> QED BY <1>5, <1>6

(* What a fight does: it reads the rows it has locked as they are, and      *)
(* writes each with the score of the fight.                                *)
LadderFought(r, b) ==
    /\ b \in BattleRow /\ battles' = Append(battles, b)
    /\ b.attacker = Ladder!User(r) /\ b.rival = Ladder!Rival(r) /\ b.season = Ladder!Season(r) /\ b.at = began[r]
    /\ DOMAIN ratings' = DOMAIN ratings \cup KeysOf(r)
    /\ \A k \in DOMAIN ratings \ KeysOf(r) : ratings'[k] = ratings[k]
    /\ \A k \in KeysOf(r) :
          /\ Ladder!RowSeen(r, k) \in Ladder!Row
          /\ Ladder!Before(b, k[1]) = Ladder!RowSeen(r, k).rating
          /\ ratings'[k] = Ladder!Scored(Ladder!RowSeen(r, k), Ladder!After(b, k[1]), Ladder!Won(b, k[1]))

LEMMA LadderHasSeen ==
    ASSUME LadderInv, NEW r \in DOMAIN plan, Ladder!IsOpen(r), Ladder!HasAll(r), Ladder!Kind(r) = "battle"
    PROVE  /\ DOMAIN seen[r] = KeysOf(r) /\ Ladder!Mine(r) # Ladder!Theirs(r) /\ Ladder!Rival(r) # Ladder!User(r)
           /\ \A k \in KeysOf(r) :
                 /\ seen[r][k] = Ladder!RowSeen(r, k) /\ Ladder!RowSeen(r, k) \in Ladder!Row
                 /\ k \in DOMAIN ratings \cup DOMAIN fresh[r]
                 /\ Ladder!HolderOf(Ladder!Rating(k)) = r
  <1>1. /\ LadderControl /\ LadderTables /\ LadderHeld(r) /\ LadderSeen(r) /\ LadderChecked(r) /\ LadderShape(r)
        /\ r \in Requests /\ step[r] \in Nat /\ plan \in PvpPlans /\ now[r] \in Nat
    BY LadderRequests, LadderShapesHold DEF LadderInv, LadderControl, LadderShapes
  <1>2. step[r] = Len(Ladder!RowsOf(r))
    BY DEF Ladder!HasAll
  <1>3. HasJoined(r)
    <2>1. Ladder!Mine(r) \in KeysOf(r)
      BY DEF KeysOf
    <2>2. \E i \in 1..Len(Ladder!RowsOf(r)) : Ladder!RowsOf(r)[i] = Ladder!Insert(Ladder!Mine(r))
      BY <1>1, <2>1 DEF LadderShape
    <2> QED BY <1>2, <2>1, <2>2 DEF HasJoined, Taken
  <1>4. Ladder!Rival(r) # Ladder!User(r)
    BY <1>1, <1>3 DEF LadderChecked
  <1>5. Ladder!Mine(r) # Ladder!Theirs(r)
    BY <1>1, <1>4, LadderKeys
  <1>6. \A k \in KeysOf(r) : Taken(r, Ladder!Rating(k))
    <2>1. ASSUME NEW k \in KeysOf(r) PROVE Taken(r, Ladder!Rating(k))
      <3>1. PICK i \in 1..Len(Ladder!RowsOf(r)) - 1 : Ladder!RowsOf(r)[i] = Ladder!Rating(k)
        BY <1>1, <2>1 DEF LadderShape
      <3>2. i \in 1..step[r]
        BY <1>1, <1>2, <3>1
      <3> QED BY <3>1, <3>2 DEF Taken
    <2> QED BY <2>1
  <1>7. ASSUME NEW k \in KeysOf(r)
        PROVE  /\ k \in DOMAIN seen[r] /\ seen[r][k] = Ladder!RowSeen(r, k) /\ Ladder!RowSeen(r, k) \in Ladder!Row
               /\ k \in DOMAIN ratings \cup DOMAIN fresh[r]
               /\ Ladder!HolderOf(Ladder!Rating(k)) = r
    <2>1. k \in DOMAIN seen[r] /\ seen[r][k] = Ladder!RowSeen(r, k) /\ k \in DOMAIN ratings \cup DOMAIN fresh[r]
      BY <1>1, <1>6, <1>7 DEF LadderSeen
    <2>2. Ladder!HolderOf(Ladder!Rating(k)) = r
      BY <1>1, <1>6, <1>7, LadderTags DEF LadderHeld
    <2>3. Ladder!RowSeen(r, k) \in Ladder!Row
      BY <1>1, <2>1 DEF Ladder!RowSeen, LadderHeld, LadderTables
    <2> QED BY <2>1, <2>2, <2>3
  <1>8. DOMAIN seen[r] = KeysOf(r)
    BY <1>1, <1>7 DEF LadderSeen
  <1> QED BY <1>4, <1>5, <1>7, <1>8

LEMMA LadderBattle ==
    ASSUME LadderInv, NEW r \in DOMAIN plan, Ladder!Battle(r)
    PROVE  \E b : LadderFought(r, b)
  <1>1. /\ LadderControl /\ r \in Requests /\ plan \in PvpPlans /\ now[r] \in Nat /\ began[r] \in Nat
        /\ Ladder!IsOpen(r) /\ Ladder!HasAll(r) /\ Ladder!Kind(r) = "battle"
        /\ Ladder!User(r) \in Players /\ Ladder!Rival(r) \in Players \cup DOMAIN Npcs /\ Ladder!Season(r) \in Nat
    BY LadderRequests, LadderSeason DEF LadderInv, LadderControl, Ladder!Battle
  <1>2. /\ DOMAIN seen[r] = KeysOf(r) /\ Ladder!Mine(r) # Ladder!Theirs(r) /\ Ladder!Rival(r) # Ladder!User(r)
        /\ \A k \in KeysOf(r) : seen[r][k] = Ladder!RowSeen(r, k) /\ Ladder!RowSeen(r, k) \in Ladder!Row
    BY <1>1, LadderHasSeen
  <1>3. PICK me, other : /\ me = seen[r][Ladder!Mine(r)]
                         /\ other = IF Ladder!IsReal(r) THEN seen[r][Ladder!Theirs(r)].rating ELSE Npcs[Ladder!Rival(r)]
    OBVIOUS
  <1>4. PICK isWon \in BOOLEAN :
          /\ ratings' = Ladder!With([k \in DOMAIN seen[r] |->
                  IF k = Ladder!Mine(r) THEN Ladder!Scored(me, Ladder!Elo(me.rating, other, isWon).attacker, isWon)
                  ELSE Ladder!Scored(seen[r][k], Ladder!Elo(me.rating, other, isWon).defender, ~isWon)])
          /\ battles' = Append(battles,
                  [attacker |-> Ladder!User(r), rival |-> Ladder!Rival(r), season |-> Ladder!Season(r), won |-> isWon,
                   at |-> began[r], attackerBefore |-> me.rating, attackerAfter |-> Ladder!Elo(me.rating, other, isWon).attacker,
                   rivalBefore |-> other, rivalAfter |-> Ladder!Elo(me.rating, other, isWon).defender])
    BY <1>3 DEF Ladder!Battle
  <1>5. PICK a, d : a = Ladder!Elo(me.rating, other, isWon).attacker /\ d = Ladder!Elo(me.rating, other, isWon).defender
    OBVIOUS
  <1>6. Ladder!Mine(r) \in KeysOf(r) /\ (Ladder!IsReal(r) => Ladder!Theirs(r) \in KeysOf(r)) /\ KeysOf(r) \subseteq {Ladder!Mine(r), Ladder!Theirs(r)}
    BY <1>1 DEF KeysOf
  <1>7. me \in Ladder!Row /\ me.rating \in Nat /\ other \in Nat
    <2>1. me \in Ladder!Row /\ me.rating \in Nat
      BY <1>2, <1>3, <1>6 DEF Ladder!Row
    <2>2. CASE Ladder!IsReal(r)
      BY <1>2, <1>3, <1>6, <2>1, <2>2 DEF Ladder!Row
    <2>3. CASE ~Ladder!IsReal(r)
      <3>1. Ladder!Rival(r) \in DOMAIN Npcs
        BY <1>1, <2>3 DEF Ladder!IsReal
      <3>2. \A n \in DOMAIN Npcs : Npcs[n] \in Nat
        BY PvpParameters, LadderSame DEF Ladder!PvpAssumption
      <3> QED BY <1>3, <2>1, <2>3, <3>1, <3>2
    <2> QED BY <2>1, <2>2, <2>3
  <1>8. a \in Nat /\ d \in Nat
    BY <1>5, <1>7, LadderElo
  <1>9. PICK b : b = [attacker |-> Ladder!User(r), rival |-> Ladder!Rival(r), season |-> Ladder!Season(r), won |-> isWon,
                      at |-> began[r], attackerBefore |-> me.rating, attackerAfter |-> a,
                      rivalBefore |-> other, rivalAfter |-> d]
    OBVIOUS
  <1>10. b \in BattleRow
    BY <1>1, <1>7, <1>8, <1>9 DEF BattleRow
  <1>11. /\ b.attacker = Ladder!User(r) /\ b.rival = Ladder!Rival(r) /\ b.season = Ladder!Season(r) /\ b.at = began[r] /\ b.won = isWon
         /\ b.attackerBefore = me.rating /\ b.attackerAfter = a /\ b.rivalBefore = other /\ b.rivalAfter = d
    BY <1>9
  <1>12. battles' = Append(battles, b)
    BY <1>4, <1>5, <1>9
  <1>13. ratings' = Ladder!With([k \in KeysOf(r) |-> IF k = Ladder!Mine(r) THEN Ladder!Scored(me, a, isWon) ELSE Ladder!Scored(seen[r][k], d, ~isWon)])
    BY <1>2, <1>4, <1>5
  <1>14. /\ DOMAIN ratings' = DOMAIN ratings \cup KeysOf(r)
         /\ \A k \in DOMAIN ratings \ KeysOf(r) : ratings'[k] = ratings[k]
         /\ \A k \in KeysOf(r) : ratings'[k] = IF k = Ladder!Mine(r) THEN Ladder!Scored(me, a, isWon) ELSE Ladder!Scored(seen[r][k], d, ~isWon)
    BY <1>13 DEF Ladder!With
  <1>15. ASSUME NEW k \in KeysOf(r)
         PROVE  /\ Ladder!RowSeen(r, k) \in Ladder!Row
                /\ Ladder!Before(b, k[1]) = Ladder!RowSeen(r, k).rating
                /\ ratings'[k] = Ladder!Scored(Ladder!RowSeen(r, k), Ladder!After(b, k[1]), Ladder!Won(b, k[1]))
    <2>1. Ladder!RowSeen(r, k) = seen[r][k] /\ Ladder!RowSeen(r, k) \in Ladder!Row
      BY <1>2
    <2>2. CASE k = Ladder!Mine(r)
      <3>1. k[1] = b.attacker
        BY <1>11, <2>2 DEF Ladder!Mine
      <3>2. Ladder!Before(b, k[1]) = me.rating /\ Ladder!After(b, k[1]) = a /\ Ladder!Won(b, k[1]) = isWon
        BY <1>11, <3>1 DEF Ladder!Before, Ladder!After, Ladder!Won
      <3>3. seen[r][k] = me /\ ratings'[k] = Ladder!Scored(me, a, isWon)
        BY <1>3, <1>14, <2>2
      <3> QED BY <2>1, <3>2, <3>3
    <2>3. CASE k # Ladder!Mine(r)
      <3>1. k = Ladder!Theirs(r) /\ Ladder!IsReal(r)
        BY <1>1, <2>3 DEF KeysOf
      <3>2. k[1] = Ladder!Rival(r) /\ k[1] # b.attacker
        BY <1>2, <1>11, <3>1 DEF Ladder!Theirs
      <3>3. Ladder!Before(b, k[1]) = other /\ Ladder!After(b, k[1]) = d /\ Ladder!Won(b, k[1]) = ~isWon
        BY <1>11, <3>2 DEF Ladder!Before, Ladder!After, Ladder!Won
      <3>4. other = seen[r][k].rating /\ ratings'[k] = Ladder!Scored(seen[r][k], d, ~isWon)
        BY <1>3, <1>14, <2>3, <3>1
      <3> QED BY <2>1, <3>3, <3>4
    <2> QED BY <2>2, <2>3
  <1> QED BY <1>10, <1>11, <1>12, <1>14, <1>15 DEF LadderFought

---------------------------------------------------------------------------
(* The promise about one row, whoever holds it. *)
OpeningWins(k) == IF k \in DOMAIN OpeningRatings THEN OpeningRatings[k].wins ELSE 0
OpeningLosses(k) == IF k \in DOMAIN OpeningRatings THEN OpeningRatings[k].losses ELSE 0
LastOf(i, S) == \A n \in S : n <= i
PlayedBefore(j, k) == {i \in Ladder!Played(k) : i < j}
LadderChain(k) ==
    \A j \in Ladder!Played(k) :
        /\ PlayedBefore(j, k) = {} /\ k \in DOMAIN OpeningRatings => Ladder!Before(battles[j], k[1]) = OpeningRatings[k].rating
        /\ \A i \in PlayedBefore(j, k) : LastOf(i, PlayedBefore(j, k)) => Ladder!Before(battles[j], k[1]) = Ladder!After(battles[i], k[1])
LadderFollows(k, row) ==
    /\ row.wins - OpeningWins(k) = Cardinality(Ladder!Wins(k))
    /\ row.losses - OpeningLosses(k) = Cardinality(Ladder!Played(k) \ Ladder!Wins(k))
    /\ Ladder!Played(k) = {} /\ k \in DOMAIN OpeningRatings => row.rating = OpeningRatings[k].rating
    /\ \A i \in Ladder!Played(k) : LastOf(i, Ladder!Played(k)) => row.rating = Ladder!After(battles[i], k[1])
    /\ LadderChain(k)
LadderAllFollow == \A k \in DOMAIN ratings : LadderFollows(k, ratings[k])

(* Who has fought in a season is on its ladder. *)
LadderEnrolled ==
    /\ DOMAIN OpeningRatings \subseteq DOMAIN ratings
    /\ \A i \in DOMAIN battles :
          /\ <<battles[i].attacker, battles[i].season>> \in DOMAIN ratings
          /\ battles[i].rival \in Players => <<battles[i].rival, battles[i].season>> \in DOMAIN ratings

LEMMA LadderAllFollowMeans ==
    ASSUME LadderAllFollow
    PROVE  Ladder!RatingsFollowTheFights
  <1>1. ASSUME NEW k \in DOMAIN ratings
        PROVE  /\ ratings[k].wins - Ladder!OpeningRow(k).wins = Cardinality(Ladder!Wins(k))
               /\ ratings[k].losses - Ladder!OpeningRow(k).losses = Cardinality(Ladder!Played(k) \ Ladder!Wins(k))
               /\ \A j \in Ladder!Played(k) :
                     LET earlier == {i \in Ladder!Played(k) : i < j}
                         rating == Ladder!Before(battles[j], k[1])
                     IN /\ earlier = {} /\ k \in DOMAIN OpeningRatings => rating = Ladder!OpeningRow(k).rating
                        /\ \A i \in earlier : (\A n \in earlier : n <= i) => rating = Ladder!After(battles[i], k[1])
               /\ \A i \in Ladder!Played(k) : (\A n \in Ladder!Played(k) : n <= i) => ratings[k].rating = Ladder!After(battles[i], k[1])
    <2>1. LadderFollows(k, ratings[k])
      BY <1>1 DEF LadderAllFollow
    <2>2. Ladder!OpeningRow(k).wins = OpeningWins(k) /\ Ladder!OpeningRow(k).losses = OpeningLosses(k)
      BY DEF Ladder!OpeningRow, OpeningWins, OpeningLosses
    <2>3. k \in DOMAIN OpeningRatings => Ladder!OpeningRow(k).rating = OpeningRatings[k].rating
      BY DEF Ladder!OpeningRow
    <2>4. ASSUME NEW j \in Ladder!Played(k), NEW earlier, earlier = {i \in Ladder!Played(k) : i < j}
          PROVE  /\ earlier = {} /\ k \in DOMAIN OpeningRatings => Ladder!Before(battles[j], k[1]) = Ladder!OpeningRow(k).rating
                 /\ \A i \in earlier : (\A n \in earlier : n <= i) => Ladder!Before(battles[j], k[1]) = Ladder!After(battles[i], k[1])
      <3>1. earlier = PlayedBefore(j, k)
        BY <2>4 DEF PlayedBefore
      <3>2. LadderChain(k)
        BY <2>1 DEF LadderFollows
      <3> QED BY <2>3, <3>1, <3>2 DEF LadderChain, LastOf
    <2>5. \A i \in Ladder!Played(k) : (\A n \in Ladder!Played(k) : n <= i) => ratings[k].rating = Ladder!After(battles[i], k[1])
      BY <2>1 DEF LadderFollows, LastOf
    <2> QED BY <2>1, <2>2, <2>4, <2>5 DEF LadderFollows
  <1> QED BY <1>1, LadderSame DEF Ladder!RatingsFollowTheFights

LEMMA LadderPlaces ==
    ASSUME LadderTables, NEW k
    PROVE  /\ DOMAIN battles = 1..Len(battles) /\ Len(battles) \in Nat
           /\ Ladder!Played(k) \subseteq 1..Len(battles) /\ IsFiniteSet(Ladder!Played(k)) /\ Ladder!Wins(k) \subseteq Ladder!Played(k)
           /\ IsFiniteSet(Ladder!Wins(k)) /\ IsFiniteSet(Ladder!Played(k) \ Ladder!Wins(k))
           /\ Cardinality(Ladder!Wins(k)) \in Nat /\ Cardinality(Ladder!Played(k) \ Ladder!Wins(k)) \in Nat
  <1>1. DOMAIN battles = 1..Len(battles) /\ Len(battles) \in Nat
    BY DEF LadderTables
  <1>2. Ladder!Played(k) \subseteq 1..Len(battles) /\ Ladder!Wins(k) \subseteq Ladder!Played(k)
    BY <1>1 DEF Ladder!Played, Ladder!Wins
  <1>3. IsFiniteSet(1..Len(battles))
    <2>1. 1 \in Int /\ Len(battles) \in Int
      BY <1>1
    <2> QED BY <2>1, FS_Interval
  <1>4. IsFiniteSet(Ladder!Played(k))
    BY <1>2, <1>3, FS_Subset
  <1>5. IsFiniteSet(Ladder!Wins(k)) /\ IsFiniteSet(Ladder!Played(k) \ Ladder!Wins(k))
    <2>1. Ladder!Played(k) \ Ladder!Wins(k) \subseteq Ladder!Played(k)
      OBVIOUS
    <2> QED BY <1>2, <1>4, <2>1, FS_Subset
  <1> QED BY <1>1, <1>2, <1>4, <1>5, FS_CardinalityType

LEMMA LadderOneMore ==
    ASSUME LadderTables, NEW b \in BattleRow, battles' = Append(battles, b)
    PROVE  /\ battles' \in Seq(BattleRow) /\ DOMAIN battles' = 1..Len(battles) + 1 /\ Len(battles) \in Nat
           /\ DOMAIN battles = 1..Len(battles) /\ \A i \in DOMAIN battles : battles'[i] = battles[i]
           /\ battles'[Len(battles) + 1] = b
  <1>1. battles \in Seq(BattleRow)
    BY DEF LadderTables
  <1> QED BY <1>1

LEMMA LadderPlaysOn ==
    ASSUME LadderTables, NEW b \in BattleRow, battles' = Append(battles, b), NEW k
    PROVE  LET n == Len(battles) + 1 IN
           /\ b.season = k[2] /\ k[1] \in {b.attacker, b.rival} =>
                 /\ Ladder!Played(k)' = Ladder!Played(k) \cup {n}
                 /\ Ladder!Won(b, k[1]) => Ladder!Wins(k)' = Ladder!Wins(k) \cup {n}
                 /\ ~Ladder!Won(b, k[1]) => Ladder!Wins(k)' = Ladder!Wins(k)
           /\ ~(b.season = k[2] /\ k[1] \in {b.attacker, b.rival}) => Ladder!Played(k)' = Ladder!Played(k) /\ Ladder!Wins(k)' = Ladder!Wins(k)
           /\ n \notin Ladder!Played(k) /\ \A i \in Ladder!Played(k) : i < n /\ i \in Nat
  <1>0. PICK n : n = Len(battles) + 1
    OBVIOUS
  <1>1. /\ DOMAIN battles' = 1..n /\ DOMAIN battles = 1..Len(battles) /\ Len(battles) \in Nat /\ n \in Nat
        /\ \A i \in DOMAIN battles : battles'[i] = battles[i]
        /\ battles'[n] = b
    BY <1>0, LadderOneMore
  <1>2. \A i : i \in DOMAIN battles' <=> i \in DOMAIN battles \/ i = n
    BY <1>0, <1>1
  <1>3. \A i \in Ladder!Played(k) : i < n /\ i \in Nat /\ i \in DOMAIN battles
    BY <1>0, <1>1 DEF Ladder!Played
  <1>4. n \notin Ladder!Played(k) /\ n \notin DOMAIN battles
    BY <1>0, <1>1, <1>3
  <1>5. PICK P : P = Ladder!Played(k)'
    OBVIOUS
  <1>6. PICK W : W = Ladder!Wins(k)'
    OBVIOUS
  <1>7. \A i : i \in P <=> i \in DOMAIN battles' /\ battles'[i].season = k[2] /\ k[1] \in {battles'[i].attacker, battles'[i].rival}
    BY <1>5 DEF Ladder!Played
  <1>8. \A i : i \in Ladder!Played(k) <=> i \in DOMAIN battles /\ battles[i].season = k[2] /\ k[1] \in {battles[i].attacker, battles[i].rival}
    BY DEF Ladder!Played
  <1>9. \A i : i \in W <=> i \in P /\ Ladder!Won(battles'[i], k[1])
    BY <1>5, <1>6 DEF Ladder!Wins, Ladder!Won
  <1>10. \A i : i \in Ladder!Wins(k) <=> i \in Ladder!Played(k) /\ Ladder!Won(battles[i], k[1])
    BY DEF Ladder!Wins
  <1>11. \A i : i # n => (i \in P <=> i \in Ladder!Played(k)) /\ (i \in W <=> i \in Ladder!Wins(k))
    <2>1. ASSUME NEW i, i # n PROVE i \in P <=> i \in Ladder!Played(k)
      BY <1>1, <1>2, <1>7, <1>8, <2>1
    <2>2. ASSUME NEW i, i # n PROVE i \in W <=> i \in Ladder!Wins(k)
      <3>1. i \in P <=> i \in Ladder!Played(k)
        BY <2>1, <2>2
      <3>2. i \in Ladder!Played(k) => battles'[i] = battles[i]
        BY <1>1, <1>3
      <3> QED BY <1>9, <1>10, <3>1, <3>2
    <2> QED BY <2>1, <2>2
  <1>12. /\ n \in P <=> b.season = k[2] /\ k[1] \in {b.attacker, b.rival}
         /\ n \in W <=> n \in P /\ Ladder!Won(b, k[1])
    BY <1>1, <1>2, <1>7, <1>9
  <1>13. n \notin Ladder!Wins(k)
    BY <1>4, <1>10
  <1>14. b.season = k[2] /\ k[1] \in {b.attacker, b.rival} =>
            /\ P = Ladder!Played(k) \cup {n}
            /\ Ladder!Won(b, k[1]) => W = Ladder!Wins(k) \cup {n}
            /\ ~Ladder!Won(b, k[1]) => W = Ladder!Wins(k)
    <2>1. SUFFICES ASSUME n \in P
                   PROVE  /\ P = Ladder!Played(k) \cup {n}
                          /\ Ladder!Won(b, k[1]) => W = Ladder!Wins(k) \cup {n}
                          /\ ~Ladder!Won(b, k[1]) => W = Ladder!Wins(k)
      BY <1>12
    <2>2. P = Ladder!Played(k) \cup {n}
      BY <1>11, <2>1
    <2>3. ASSUME Ladder!Won(b, k[1]) PROVE W = Ladder!Wins(k) \cup {n}
      <3>1. n \in W
        BY <1>12, <2>1, <2>3
      <3> QED BY <1>11, <3>1
    <2>4. ASSUME ~Ladder!Won(b, k[1]) PROVE W = Ladder!Wins(k)
      <3>1. n \notin W
        BY <1>12, <2>4
      <3> QED BY <1>11, <1>13, <3>1
    <2> QED BY <2>2, <2>3, <2>4
  <1>15. ~(b.season = k[2] /\ k[1] \in {b.attacker, b.rival}) => P = Ladder!Played(k) /\ W = Ladder!Wins(k)
    <2>1. SUFFICES ASSUME n \notin P PROVE P = Ladder!Played(k) /\ W = Ladder!Wins(k)
      BY <1>12
    <2>2. n \notin W
      BY <1>12, <2>1
    <2>3. P = Ladder!Played(k)
      <3>1. \A i : i \in P <=> i \in Ladder!Played(k)
        BY <1>4, <1>11, <2>1
      <3>2. P \subseteq Ladder!Played(k) /\ Ladder!Played(k) \subseteq P
        BY <3>1
      <3> QED BY <3>2
    <2>4. W = Ladder!Wins(k)
      BY <1>11, <1>13, <2>2
    <2> QED BY <2>3, <2>4
  <1> QED BY <1>0, <1>3, <1>4, <1>5, <1>6, <1>14, <1>15

LEMMA LadderOpenings ==
    ASSUME NEW k
    PROVE  /\ OpeningWins(k) \in Nat /\ OpeningLosses(k) \in Nat
           /\ OpeningWins(k)' = OpeningWins(k) /\ OpeningLosses(k)' = OpeningLosses(k)
  <1>1. \A j \in DOMAIN OpeningRatings : OpeningRatings[j] \in Ladder!Row
    BY PvpParameters, LadderSame DEF Ladder!PvpAssumption
  <1>2. OpeningWins(k) \in Nat /\ OpeningLosses(k) \in Nat
    BY <1>1 DEF OpeningWins, OpeningLosses, Ladder!Row
  <1>3. OpeningWins(k)' = OpeningWins(k) /\ OpeningLosses(k)' = OpeningLosses(k)
    BY DEF OpeningWins, OpeningLosses
  <1> QED BY <1>2, <1>3

(* A row scored with a fight follows the fights up to that one. *)
LEMMA LadderFollowsOn ==
    ASSUME LadderTables, NEW b \in BattleRow, battles' = Append(battles, b), NEW k,
           b.season = k[2], k[1] \in {b.attacker, b.rival},
           NEW row \in Ladder!Row, LadderFollows(k, row), Ladder!Before(b, k[1]) = row.rating,
           NEW next, next = Ladder!Scored(row, Ladder!After(b, k[1]), Ladder!Won(b, k[1]))
    PROVE  LadderFollows(k, next)'
  <1>0. PICK n : n = Len(battles) + 1
    OBVIOUS
  <1>1. /\ Ladder!Played(k)' = Ladder!Played(k) \cup {n}
        /\ Ladder!Won(b, k[1]) => Ladder!Wins(k)' = Ladder!Wins(k) \cup {n}
        /\ ~Ladder!Won(b, k[1]) => Ladder!Wins(k)' = Ladder!Wins(k)
        /\ n \notin Ladder!Played(k) /\ \A i \in Ladder!Played(k) : i < n /\ i \in Nat
    BY <1>0, LadderPlaysOn
  <1>2. /\ Len(battles) \in Nat /\ n \in Nat /\ battles'[n] = b
        /\ \A i \in DOMAIN battles : battles'[i] = battles[i]
        /\ Ladder!Played(k) \subseteq DOMAIN battles
    BY <1>0, LadderOneMore DEF Ladder!Played
  <1>3. /\ IsFiniteSet(Ladder!Played(k)) /\ Ladder!Wins(k) \subseteq Ladder!Played(k) /\ IsFiniteSet(Ladder!Wins(k)) /\ IsFiniteSet(Ladder!Played(k) \ Ladder!Wins(k))
        /\ Cardinality(Ladder!Wins(k)) \in Nat /\ Cardinality(Ladder!Played(k) \ Ladder!Wins(k)) \in Nat
    BY LadderPlaces
  <1>4. PICK a : a = Ladder!After(b, k[1])
    OBVIOUS
  <1>5. PICK isWon : isWon = Ladder!Won(b, k[1])
    OBVIOUS
  <1>6. PICK P : P = Ladder!Played(k)'
    OBVIOUS
  <1>7. PICK W : W = Ladder!Wins(k)'
    OBVIOUS
  <1>8. /\ P = Ladder!Played(k) \cup {n} /\ (isWon => W = Ladder!Wins(k) \cup {n}) /\ (~isWon => W = Ladder!Wins(k))
    BY <1>1, <1>5, <1>6, <1>7
  <1>9. /\ next.rating = a
        /\ isWon => next.wins = row.wins + 1 /\ next.losses = row.losses
        /\ ~isWon => next.wins = row.wins /\ next.losses = row.losses + 1
    <2>1. row.wins \in Nat /\ row.losses \in Nat
      BY DEF Ladder!Row
    <2>2. next = Ladder!Scored(row, a, isWon)
      BY <1>4, <1>5
    <2>3. CASE isWon
      <3>1. next = [row EXCEPT !.rating = a, !.wins = @ + 1, !.losses = @ + 0]
        BY <2>2, <2>3 DEF Ladder!Scored
      <3> QED BY <2>1, <2>3, <3>1 DEF Ladder!Row
    <2>4. CASE ~isWon
      <3>1. next = [row EXCEPT !.rating = a, !.wins = @ + 0, !.losses = @ + 1]
        BY <2>2, <2>4 DEF Ladder!Scored
      <3> QED BY <2>1, <2>4, <3>1 DEF Ladder!Row
    <2> QED BY <2>3, <2>4
  <1>10. /\ isWon => Cardinality(W) = Cardinality(Ladder!Wins(k)) + 1 /\ Cardinality(P \ W) = Cardinality(Ladder!Played(k) \ Ladder!Wins(k))
         /\ ~isWon => Cardinality(W) = Cardinality(Ladder!Wins(k)) /\ Cardinality(P \ W) = Cardinality(Ladder!Played(k) \ Ladder!Wins(k)) + 1
    <2>1. n \notin Ladder!Wins(k) /\ n \notin Ladder!Played(k) \ Ladder!Wins(k)
      BY <1>1, <1>3
    <2>2. ASSUME isWon
          PROVE  Cardinality(W) = Cardinality(Ladder!Wins(k)) + 1 /\ Cardinality(P \ W) = Cardinality(Ladder!Played(k) \ Ladder!Wins(k))
      <3>1. P \ W = Ladder!Played(k) \ Ladder!Wins(k)
        BY <1>1, <1>8, <2>2
      <3>2. Cardinality(Ladder!Wins(k) \cup {n}) = Cardinality(Ladder!Wins(k)) + 1
        BY <1>3, <2>1, FS_AddElement
      <3> QED BY <1>8, <2>2, <3>1, <3>2
    <2>3. ASSUME ~isWon
          PROVE  Cardinality(W) = Cardinality(Ladder!Wins(k)) /\ Cardinality(P \ W) = Cardinality(Ladder!Played(k) \ Ladder!Wins(k)) + 1
      <3>1. P \ W = (Ladder!Played(k) \ Ladder!Wins(k)) \cup {n}
        BY <1>8, <2>1, <2>3
      <3>2. Cardinality((Ladder!Played(k) \ Ladder!Wins(k)) \cup {n}) = Cardinality(Ladder!Played(k) \ Ladder!Wins(k)) + 1
        BY <1>3, <2>1, FS_AddElement
      <3> QED BY <1>8, <2>3, <3>1, <3>2
    <2> QED BY <2>2, <2>3
  <1>11. /\ row.wins - OpeningWins(k) = Cardinality(Ladder!Wins(k))
         /\ row.losses - OpeningLosses(k) = Cardinality(Ladder!Played(k) \ Ladder!Wins(k))
         /\ Ladder!Played(k) = {} /\ k \in DOMAIN OpeningRatings => row.rating = OpeningRatings[k].rating
         /\ \A i \in Ladder!Played(k) : LastOf(i, Ladder!Played(k)) => row.rating = Ladder!After(battles[i], k[1])
         /\ LadderChain(k)
    BY DEF LadderFollows
  <1>12. OpeningWins(k) \in Nat /\ OpeningLosses(k) \in Nat /\ row.wins \in Nat /\ row.losses \in Nat
    BY LadderOpenings DEF Ladder!Row
  <1>13. /\ next.wins - OpeningWins(k) = Cardinality(W)
         /\ next.losses - OpeningLosses(k) = Cardinality(P \ W)
    <2>1. CASE isWon
      BY <1>3, <1>9, <1>10, <1>11, <1>12, <2>1
    <2>2. CASE ~isWon
      BY <1>3, <1>9, <1>10, <1>11, <1>12, <2>2
    <2> QED BY <2>1, <2>2
  <1>14. \A i \in P : LastOf(i, P) => next.rating = Ladder!After(battles'[i], k[1])
    <2>1. ASSUME NEW i \in P, LastOf(i, P) PROVE i = n
      <3>1. n <= i
        BY <1>8, <2>1 DEF LastOf
      <3> QED BY <1>1, <1>2, <1>8, <2>1, <3>1
    <2> QED BY <1>2, <1>4, <1>9, <2>1
  <1>15. ASSUME NEW j \in P, NEW S, S = {i \in P : i < j}
         PROVE  /\ S = {} /\ k \in DOMAIN OpeningRatings => Ladder!Before(battles'[j], k[1]) = OpeningRatings[k].rating
                /\ \A i \in S : LastOf(i, S) => Ladder!Before(battles'[j], k[1]) = Ladder!After(battles'[i], k[1])
    <2>1. CASE j = n
      <3>1. S = Ladder!Played(k)
        <4>1. \A i : i \in S <=> i \in Ladder!Played(k)
          BY <1>1, <1>2, <1>8, <1>15, <2>1
        <4>2. S \subseteq Ladder!Played(k) /\ Ladder!Played(k) \subseteq S
          BY <4>1
        <4> QED BY <4>2
      <3>2. Ladder!Before(battles'[j], k[1]) = row.rating
        BY <1>2, <2>1
      <3>3. \A i \in S : battles'[i] = battles[i]
        BY <1>2, <3>1
      <3> QED BY <1>11, <3>1, <3>2, <3>3
    <2>2. CASE j # n
      <3>1. j \in Ladder!Played(k) /\ j < n /\ j \in Nat /\ battles'[j] = battles[j]
        BY <1>1, <1>2, <1>8, <2>2
      <3>2. S = PlayedBefore(j, k)
        <4>1. \A i : i \in S <=> i \in Ladder!Played(k) /\ i < j
          BY <1>1, <1>2, <1>8, <1>15, <3>1
        <4> QED BY <1>15, <4>1 DEF PlayedBefore
      <3>3. \A i \in S : battles'[i] = battles[i]
        BY <1>2, <3>2 DEF PlayedBefore
      <3> QED BY <1>11, <3>1, <3>2, <3>3 DEF LadderChain
    <2> QED BY <2>1, <2>2
  <1>16. LadderChain(k)'
    <2>1. ASSUME NEW j \in P
          PROVE  /\ PlayedBefore(j, k)' = {} /\ k \in DOMAIN OpeningRatings =>
                       Ladder!Before(battles'[j], k[1]) = OpeningRatings[k].rating
                 /\ \A i \in PlayedBefore(j, k)' : LastOf(i, PlayedBefore(j, k)') =>
                       Ladder!Before(battles'[j], k[1]) = Ladder!After(battles'[i], k[1])
      <3>1. PICK S : S = {i \in P : i < j}
        OBVIOUS
      <3>2. PlayedBefore(j, k)' = S
        BY <1>6, <3>1 DEF PlayedBefore
      <3> QED BY <1>15, <2>1, <3>1, <3>2
    <2>2. ASSUME NEW j \in Ladder!Played(k)'
          PROVE  /\ PlayedBefore(j, k)' = {} /\ k \in DOMAIN OpeningRatings =>
                       Ladder!Before(battles'[j], k[1]) = OpeningRatings[k].rating
                 /\ \A i \in PlayedBefore(j, k)' : LastOf(i, PlayedBefore(j, k)') =>
                       Ladder!Before(battles'[j], k[1]) = Ladder!After(battles'[i], k[1])
      <3>1. PICK i : i = j
        OBVIOUS
      <3>2. i \in P
        BY <1>6, <2>2, <3>1
      <3> QED BY <2>1, <3>1, <3>2
    <2> QED BY <2>2 DEF LadderChain, LastOf, Ladder!Before, Ladder!After
  <1>17. P # {}
    BY <1>8
  <1>18. OpeningWins(k)' = OpeningWins(k) /\ OpeningLosses(k)' = OpeningLosses(k)
    BY LadderOpenings
  <1>19. \A i \in Ladder!Played(k)' : LastOf(i, Ladder!Played(k))' => next.rating = Ladder!After(battles[i], k[1])'
    BY <1>6, <1>14 DEF LastOf, Ladder!After
  <1> QED BY <1>6, <1>7, <1>13, <1>16, <1>17, <1>18, <1>19 DEF LadderFollows

LEMMA LadderFollowsStill ==
    ASSUME NEW k, NEW row, LadderFollows(k, row), Ladder!Played(k)' = Ladder!Played(k), Ladder!Wins(k)' = Ladder!Wins(k),
           \A i \in Ladder!Played(k) : battles'[i] = battles[i]
    PROVE  LadderFollows(k, row)'
  <1>1. /\ row.wins - OpeningWins(k) = Cardinality(Ladder!Wins(k))
        /\ row.losses - OpeningLosses(k) = Cardinality(Ladder!Played(k) \ Ladder!Wins(k))
        /\ Ladder!Played(k) = {} /\ k \in DOMAIN OpeningRatings => row.rating = OpeningRatings[k].rating
        /\ \A i \in Ladder!Played(k) : LastOf(i, Ladder!Played(k)) => row.rating = Ladder!After(battles[i], k[1])
        /\ LadderChain(k)
    BY DEF LadderFollows
  <1>2. OpeningWins(k)' = OpeningWins(k) /\ OpeningLosses(k)' = OpeningLosses(k)
    BY LadderOpenings
  <1>3. \A i \in Ladder!Played(k)' : LastOf(i, Ladder!Played(k))' => row.rating = Ladder!After(battles[i], k[1])'
    BY <1>1 DEF LastOf, Ladder!After
  <1>4. LadderChain(k)'
    <2>1. \A j : PlayedBefore(j, k)' = PlayedBefore(j, k)
      BY DEF PlayedBefore
    <2>2. \A j : \A i \in PlayedBefore(j, k) : battles'[i] = battles[i]
      BY DEF PlayedBefore
    <2>3. ASSUME NEW j \in Ladder!Played(k)'
          PROVE  /\ PlayedBefore(j, k)' = {} /\ k \in DOMAIN OpeningRatings =>
                       Ladder!Before(battles'[j], k[1]) = OpeningRatings[k].rating
                 /\ \A i \in PlayedBefore(j, k)' : LastOf(i, PlayedBefore(j, k)') =>
                       Ladder!Before(battles'[j], k[1]) = Ladder!After(battles'[i], k[1])
      <3>1. PICK m : m = j
        OBVIOUS
      <3>2. m \in Ladder!Played(k) /\ battles'[m] = battles[m]
        BY <2>3, <3>1
      <3>3. /\ PlayedBefore(m, k) = {} /\ k \in DOMAIN OpeningRatings => Ladder!Before(battles[m], k[1]) = OpeningRatings[k].rating
            /\ \A i \in PlayedBefore(m, k) : LastOf(i, PlayedBefore(m, k)) => Ladder!Before(battles[m], k[1]) = Ladder!After(battles[i], k[1])
        BY <1>1, <3>2 DEF LadderChain
      <3> QED BY <2>1, <2>2, <3>1, <3>2, <3>3
    <2> QED BY <2>3 DEF LadderChain, LastOf, Ladder!Before, Ladder!After
  <1> QED BY <1>1, <1>2, <1>3, <1>4 DEF LadderFollows

(* Who is not on the ladder has not fought, nor has had a row. *)
LEMMA LadderNewcomer ==
    ASSUME LadderTables, LadderEnrolled, NEW k \in Ladder!Keys, k \notin DOMAIN ratings,
           NEW row, row.wins = 0, row.losses = 0
    PROVE  LadderFollows(k, row)
  <1>1. k = <<k[1], k[2]>> /\ k[1] \in Players
    BY DEF Ladder!Keys
  <1>2. Ladder!Played(k) = {}
    <2>1. ASSUME NEW i \in Ladder!Played(k) PROVE FALSE
      <3>1. i \in DOMAIN battles /\ battles[i].season = k[2] /\ k[1] \in {battles[i].attacker, battles[i].rival}
        BY <2>1 DEF Ladder!Played
      <3>2. /\ <<battles[i].attacker, battles[i].season>> \in DOMAIN ratings
            /\ battles[i].rival \in Players => <<battles[i].rival, battles[i].season>> \in DOMAIN ratings
        BY <3>1 DEF LadderEnrolled
      <3> QED BY <1>1, <3>1, <3>2
    <2> QED BY <2>1
  <1>3. Ladder!Wins(k) = {} /\ Ladder!Played(k) \ Ladder!Wins(k) = {}
    BY <1>2 DEF Ladder!Wins
  <1>4. Cardinality({}) = 0
    BY FS_EmptySet
  <1>5. k \notin DOMAIN OpeningRatings
    BY DEF LadderEnrolled
  <1>6. OpeningWins(k) = 0 /\ OpeningLosses(k) = 0
    BY <1>5 DEF OpeningWins, OpeningLosses
  <1>7. LadderChain(k)
    BY <1>2 DEF LadderChain
  <1> QED BY <1>2, <1>3, <1>4, <1>5, <1>6, <1>7 DEF LadderFollows

---------------------------------------------------------------------------
Today(u, date) == {i \in Ladder!Fights(u, date * DAY) : Ladder!DayOf(battles[i].at) = date}
TodayWith(u, v, date) == {i \in Today(u, date) : battles[i].rival = v}

LEMMA LadderLimitsMean ==
    /\ Ladder!FightsWithinLimits <=>
          \A u \in Players, date \in 0..Ladder!DayOf(PVP_CLOCK) :
              /\ Cardinality(Today(u, date)) <= PVP_DAILY_ATTEMPTS
              /\ \A v \in Players : Cardinality(TodayWith(u, v, date)) <= PVP_MAX_FIGHTS_PER_OPPONENT_PER_DAY
  BY LadderSame DEF Ladder!FightsWithinLimits, Today, TodayWith

LEMMA LadderDays ==
    ASSUME NEW a \in Nat, NEW b \in Nat, a <= b
    PROVE  Ladder!DayOf(a) \in Nat /\ Ladder!DayOf(b) \in Nat /\ Ladder!DayStart(a) <= Ladder!DayOf(b) * DAY /\ Ladder!DayStart(a) \in Nat
  <1>1. DAY \in Nat \ {0}
    BY PvpParameters, LadderSame DEF Ladder!PvpAssumption
  <1>2. Ladder!DayOf(a) \in Nat /\ Ladder!DayOf(b) \in Nat /\ Ladder!DayOf(a) <= Ladder!DayOf(b)
    BY <1>1 DEF Ladder!DayOf
  <1>3. \A p, q \in Nat : p <= q => p * DAY <= q * DAY /\ p * DAY \in Nat
    BY <1>1
  <1> QED BY <1>2, <1>3 DEF Ladder!DayStart

(* One fight more of a player is one more of that day, at most. *)
LEMMA LadderLimitsKept ==
    ASSUME LadderTables, Ladder!FightsWithinLimits, NEW b \in BattleRow, battles' = Append(battles, b),
           NEW t \in Nat, t <= b.at,
           Cardinality(Ladder!Fights(b.attacker, Ladder!DayStart(t))) < PVP_DAILY_ATTEMPTS,
           b.rival \in Players =>
               Cardinality(Ladder!FightsWith(b.attacker, b.rival, Ladder!DayStart(t))) < PVP_MAX_FIGHTS_PER_OPPONENT_PER_DAY
    PROVE  Ladder!FightsWithinLimits'
  <1>0. PICK n : n = Len(battles) + 1
    OBVIOUS
  <1>1. /\ \A i : i \in DOMAIN battles' <=> i \in DOMAIN battles \/ i = n
        /\ n \notin DOMAIN battles /\ battles'[n] = b
        /\ \A i \in DOMAIN battles : battles'[i] = battles[i] /\ battles[i].at \in Nat
    <2>1. /\ DOMAIN battles' = 1..n /\ DOMAIN battles = 1..Len(battles) /\ Len(battles) \in Nat
          /\ \A i \in DOMAIN battles : battles'[i] = battles[i]
          /\ battles'[n] = b
      BY <1>0, LadderOneMore
    <2>2. \A i \in DOMAIN battles : battles[i] \in BattleRow
      BY <2>1 DEF LadderTables
    <2>3. \A i \in DOMAIN battles : battles[i].at \in Nat
      BY <2>2 DEF BattleRow
    <2>4. \A i : i \in 1..n <=> i \in 1..Len(battles) \/ i = n
      BY <1>0, <2>1
    <2>5. n \notin 1..Len(battles)
      BY <1>0, <2>1
    <2> QED BY <2>1, <2>3, <2>4, <2>5
  <1>2. b.at \in Nat
    BY DEF BattleRow
  <1>3. /\ PVP_DAILY_ATTEMPTS \in Nat /\ PVP_MAX_FIGHTS_PER_OPPONENT_PER_DAY \in Nat
    BY PvpParameters, LadderSame DEF Ladder!PvpAssumption
  <1>4. Ladder!DayStart(t) <= Ladder!DayOf(b.at) * DAY /\ Ladder!DayStart(t) \in Nat /\ Ladder!DayOf(b.at) * DAY \in Int
    <2>1. Ladder!DayOf(b.at) \in Nat /\ DAY \in Nat
      BY <1>2, LadderDays, PvpParameters, LadderSame DEF Ladder!PvpAssumption
    <2>2. Ladder!DayOf(b.at) * DAY \in Int
      BY <2>1
    <2> QED BY <1>2, <2>2, LadderDays
  <1>5. IsFiniteSet(DOMAIN battles)
    <2>1. DOMAIN battles = 1..Len(battles) /\ 1 \in Int /\ Len(battles) \in Int
      BY DEF LadderTables
    <2> QED BY <2>1, FS_Interval
  <1>6. ASSUME NEW u \in Players, NEW date \in 0..Ladder!DayOf(PVP_CLOCK)
        PROVE  /\ Cardinality(Today(u, date)') <= PVP_DAILY_ATTEMPTS
               /\ \A v \in Players : Cardinality(TodayWith(u, v, date)') <= PVP_MAX_FIGHTS_PER_OPPONENT_PER_DAY
    <2> DEFINE IsIn == b.attacker = u /\ b.at >= date * DAY /\ Ladder!DayOf(b.at) = date
    <2>1. PICK S : S = Today(u, date)'
      OBVIOUS
    <2>2. PICK T : T = Today(u, date)
      OBVIOUS
    <2>3. \A i : i \in S <=> /\ i \in DOMAIN battles' /\ battles'[i].attacker = u /\ battles'[i].at >= date * DAY
                             /\ Ladder!DayOf(battles'[i].at) = date
      BY <2>1 DEF Today, Ladder!Fights, Ladder!DayOf
    <2>4. \A i : i \in T <=> /\ i \in DOMAIN battles /\ battles[i].attacker = u /\ battles[i].at >= date * DAY
                             /\ Ladder!DayOf(battles[i].at) = date
      BY <2>2 DEF Today, Ladder!Fights
    <2>5. \A i : i # n => (i \in S <=> i \in T)
      BY <1>1, <2>3, <2>4
    <2>6. (n \in S <=> IsIn) /\ n \notin T
      BY <1>1, <2>3, <2>4
    <2>7. T \subseteq DOMAIN battles
      BY <2>4
    <2>8. Cardinality(T) <= PVP_DAILY_ATTEMPTS /\ Cardinality(T) \in Nat /\ IsFiniteSet(T)
      <3>1. IsFiniteSet(T)
        BY <1>5, <2>7, FS_Subset
      <3>2. Cardinality(Today(u, date)) <= PVP_DAILY_ATTEMPTS
        BY LadderLimitsMean
      <3> QED BY <2>2, <3>1, <3>2, FS_CardinalityType
    <2>9. S = IF IsIn THEN T \cup {n} ELSE T
      <3>1. CASE IsIn
        <4>1. \A i : i \in S <=> i \in T \cup {n}
          BY <2>5, <2>6, <3>1
        <4>2. S \subseteq T \cup {n} /\ T \cup {n} \subseteq S
          BY <4>1
        <4> QED BY <3>1, <4>2
      <3>2. CASE ~IsIn
        <4>1. \A i : i \in S <=> i \in T
          BY <2>5, <2>6, <3>2
        <4>2. S \subseteq T /\ T \subseteq S
          BY <4>1
        <4> QED BY <3>2, <4>2
      <3> QED BY <3>1, <3>2
    <2>10. IsIn => T \subseteq Ladder!Fights(b.attacker, Ladder!DayStart(t))
      <3>1. ASSUME IsIn, NEW i \in T PROVE i \in Ladder!Fights(b.attacker, Ladder!DayStart(t))
        <4>1. i \in DOMAIN battles /\ battles[i].attacker = b.attacker /\ battles[i].at >= Ladder!DayOf(b.at) * DAY
          BY <2>4, <3>1
        <4>2. battles[i].at \in Nat
          BY <1>1, <4>1
        <4>3. battles[i].at >= Ladder!DayStart(t)
          BY <1>4, <4>1, <4>2
        <4> QED BY <4>1, <4>3 DEF Ladder!Fights
      <3> QED BY <3>1
    <2>11. Cardinality(S) <= PVP_DAILY_ATTEMPTS
      <3>1. CASE ~IsIn
        BY <2>8, <2>9, <3>1
      <3>2. CASE IsIn
        <4>1. PICK F : F = Ladder!Fights(b.attacker, Ladder!DayStart(t))
          OBVIOUS
        <4>2. F \subseteq DOMAIN battles /\ T \subseteq F
          BY <2>10, <3>2, <4>1 DEF Ladder!Fights
        <4>3. IsFiniteSet(F) /\ Cardinality(F) \in Nat
          BY <1>5, <4>2, FS_Subset, FS_CardinalityType
        <4>4. Cardinality(T) <= Cardinality(F)
          BY <4>2, <4>3, FS_Subset
        <4>5. Cardinality(T) < PVP_DAILY_ATTEMPTS
          BY <1>3, <2>8, <4>1, <4>3, <4>4
        <4>6. Cardinality(T \cup {n}) = Cardinality(T) + 1
          BY <2>6, <2>8, FS_AddElement
        <4> QED BY <1>3, <2>8, <2>9, <3>2, <4>5, <4>6
      <3> QED BY <3>1, <3>2
    <2>12. ASSUME NEW v \in Players
           PROVE  Cardinality(TodayWith(u, v, date)') <= PVP_MAX_FIGHTS_PER_OPPONENT_PER_DAY
      <3>1. PICK SV : SV = TodayWith(u, v, date)'
        OBVIOUS
      <3>2. PICK TV : TV = TodayWith(u, v, date)
        OBVIOUS
      <3>3. \A i : i \in SV <=> i \in S /\ battles'[i].rival = v
        BY <2>1, <3>1 DEF TodayWith
      <3>4. \A i : i \in TV <=> i \in T /\ battles[i].rival = v
        BY <2>2, <3>2 DEF TodayWith
      <3>5. \A i : i # n => (i \in SV <=> i \in TV)
        BY <1>1, <2>5, <2>7, <3>3, <3>4
      <3>6. (n \in SV <=> IsIn /\ b.rival = v) /\ n \notin TV
        BY <1>1, <2>6, <3>3, <3>4
      <3>7. TV \subseteq T
        BY <3>4
      <3>8. Cardinality(TV) <= PVP_MAX_FIGHTS_PER_OPPONENT_PER_DAY /\ Cardinality(TV) \in Nat /\ IsFiniteSet(TV)
        <4>1. IsFiniteSet(TV)
          BY <2>8, <3>7, FS_Subset
        <4>2. Cardinality(TodayWith(u, v, date)) <= PVP_MAX_FIGHTS_PER_OPPONENT_PER_DAY
          BY LadderLimitsMean
        <4> QED BY <3>2, <4>1, <4>2, FS_CardinalityType
      <3>9. CASE ~(IsIn /\ b.rival = v)
        <4>1. \A i : i \in SV <=> i \in TV
          BY <3>5, <3>6, <3>9
        <4>2. SV \subseteq TV /\ TV \subseteq SV
          BY <4>1
        <4>3. SV = TV
          BY <4>2
        <4> QED BY <3>1, <3>8, <4>3
      <3>10. CASE IsIn /\ b.rival = v
        <4>1. PICK F : F = Ladder!FightsWith(b.attacker, b.rival, Ladder!DayStart(t))
          OBVIOUS
        <4>2. F \subseteq DOMAIN battles
          BY <4>1 DEF Ladder!FightsWith, Ladder!Fights
        <4>3. TV \subseteq F
          BY <2>10, <3>4, <3>10, <4>1 DEF Ladder!FightsWith
        <4>4. IsFiniteSet(F) /\ Cardinality(F) \in Nat
          BY <1>5, <4>2, FS_Subset, FS_CardinalityType
        <4>5. Cardinality(TV) <= Cardinality(F)
          BY <4>3, <4>4, FS_Subset
        <4>6. Cardinality(TV) < PVP_MAX_FIGHTS_PER_OPPONENT_PER_DAY
          <5>1. Cardinality(F) < PVP_MAX_FIGHTS_PER_OPPONENT_PER_DAY
            BY <3>10, <4>1
          <5> QED BY <1>3, <3>8, <4>4, <4>5, <5>1
        <4>7. Cardinality(TV \cup {n}) = Cardinality(TV) + 1
          BY <3>6, <3>8, FS_AddElement
        <4>8. SV = TV \cup {n}
          <5>1. \A i : i \in SV <=> i \in TV \cup {n}
            BY <3>5, <3>6, <3>10
          <5>2. SV \subseteq TV \cup {n} /\ TV \cup {n} \subseteq SV
            BY <5>1
          <5> QED BY <5>2
        <4> QED BY <1>3, <3>1, <3>8, <4>6, <4>7, <4>8
      <3> QED BY <3>9, <3>10
    <2> QED BY <2>1, <2>11, <2>12
  <1>7. \A u \in Players, date \in 0..Ladder!DayOf(PVP_CLOCK) :
            /\ Cardinality(Today(u, date)') <= PVP_DAILY_ATTEMPTS
            /\ \A v \in Players : Cardinality(TodayWith(u, v, date)') <= PVP_MAX_FIGHTS_PER_OPPONENT_PER_DAY
    BY <1>6
  <1> QED BY <1>7, LadderSame DEF Ladder!FightsWithinLimits, Today, TodayWith, Ladder!Fights, Ladder!DayOf

---------------------------------------------------------------------------
(* All of it, and what of it is about the tables alone. *)
LadderSafe == LadderInv /\ LadderEnrolled /\ LadderAllFollow /\ Ladder!FightsWithinLimits
LadderSound == LadderTables /\ LadderEnrolled /\ LadderAllFollow /\ Ladder!FightsWithinLimits

LEMMA LadderEndsLets ==
    ASSUME LadderInv, NEW r \in DOMAIN plan, Ladder!IsOpen(r), Ladder!Ends(r) \/ Ladder!Undo(r)
    PROVE  LadderLets(r)
  <1>1. pc \in [Requests -> {"idle", "begun", "open"} \cup Ladder!Ended] /\ r \in Requests
    BY LadderRequests DEF LadderInv, LadderControl
  <1>2. PICK where \in Ladder!Ended : Ladder!Goes(r, where)
    BY DEF Ladder!Ends, Ladder!Undo, Ladder!Ended
  <1>3. pc'[r] = where
    BY <1>1, <1>2 DEF Ladder!Goes
  <1>4. /\ Ladder!Release(r)
        /\ fresh' = [fresh EXCEPT ![r] = Ladder!NoRows] /\ seen' = [seen EXCEPT ![r] = Ladder!NoRows]
        /\ UNCHANGED <<plan, step, now, began, clock>>
    BY DEF Ladder!Ends, Ladder!Undo
  <1>5. pc'[r] \in Ladder!Ended /\ Ladder!Goes(r, pc'[r])
    BY <1>2, <1>3
  <1> QED BY <1>4, <1>5 DEF LadderLets

LEMMA LadderScored ==
    ASSUME NEW row \in Ladder!Row, NEW rating \in Nat, NEW isWon \in BOOLEAN
    PROVE  Ladder!Scored(row, rating, isWon) \in Ladder!Row
  <1>1. PICK w, l : w = row.wins + (IF isWon THEN 1 ELSE 0) /\ l = row.losses + (IF isWon THEN 0 ELSE 1)
    OBVIOUS
  <1>2. row.wins \in Nat /\ row.losses \in Nat /\ row.claimed \in BOOLEAN
    BY DEF Ladder!Row
  <1>3. w \in Nat /\ l \in Nat
    <2>1. CASE isWon
      BY <1>1, <1>2, <2>1
    <2>2. CASE ~isWon
      BY <1>1, <1>2, <2>2
    <2> QED BY <2>1, <2>2
  <1>4. Ladder!Scored(row, rating, isWon) = [rating |-> rating, wins |-> w, losses |-> l, claimed |-> row.claimed]
    <2>1. Ladder!Scored(row, rating, isWon) = [row EXCEPT !.rating = rating, !.wins = w, !.losses = l]
      BY <1>1 DEF Ladder!Scored
    <2> QED BY <2>1 DEF Ladder!Row
  <1> QED BY <1>2, <1>3, <1>4 DEF Ladder!Row

(* A row that a fight is about follows the fights so far. *)
LEMMA LadderFollowsSeen ==
    ASSUME LadderSafe, NEW r \in DOMAIN plan, Ladder!IsOpen(r), Ladder!HasAll(r), Ladder!Kind(r) = "battle", NEW k \in KeysOf(r)
    PROVE  Ladder!RowSeen(r, k) \in Ladder!Row /\ LadderFollows(k, Ladder!RowSeen(r, k))
  <1>0. LadderInv /\ LadderTables /\ LadderEnrolled /\ LadderAllFollow /\ plan \in PvpPlans /\ now[r] \in Nat
    BY LadderRequests DEF LadderSafe, LadderInv, LadderControl
  <1>1. Ladder!RowSeen(r, k) \in Ladder!Row /\ k \in DOMAIN ratings \cup DOMAIN fresh[r]
    BY <1>0, LadderHasSeen
  <1>2. CASE k \in DOMAIN fresh[r]
    <2>1. k \notin DOMAIN ratings /\ fresh[r][k].wins = 0 /\ fresh[r][k].losses = 0
      BY <1>0, <1>2 DEF LadderInv, LadderHeld
    <2>2. Ladder!RowSeen(r, k) = fresh[r][k]
      BY <1>2 DEF Ladder!RowSeen
    <2>3. k \in Ladder!Keys
      BY <1>0, LadderKeys
    <2>4. PICK row : row = fresh[r][k]
      OBVIOUS
    <2>5. row.wins = 0 /\ row.losses = 0
      BY <2>1, <2>4
    <2>6. LadderFollows(k, row)
      BY <1>0, <2>1, <2>3, <2>5, LadderNewcomer
    <2> QED BY <1>1, <2>2, <2>4, <2>6
  <1>3. CASE k \notin DOMAIN fresh[r]
    <2>1. Ladder!RowSeen(r, k) = ratings[k] /\ k \in DOMAIN ratings
      BY <1>1, <1>3 DEF Ladder!RowSeen
    <2> QED BY <1>0, <1>1, <2>1 DEF LadderAllFollow
  <1> QED BY <1>2, <1>3

(* A fight is about the rows of its two players. *)
LEMMA LadderAbout ==
    ASSUME plan \in PvpPlans, NEW r \in DOMAIN plan, now[r] \in Nat, Ladder!Kind(r) = "battle", NEW k \in Ladder!Keys
    PROVE  k \in KeysOf(r) <=> Ladder!Season(r) = k[2] /\ k[1] \in {Ladder!User(r), Ladder!Rival(r)}
  <1>1. k = <<k[1], k[2]>> /\ k[1] \in Players
    BY DEF Ladder!Keys
  <1>2. Ladder!User(r) \in Players
    BY LadderRequests
  <1>3. CASE Ladder!IsReal(r)
    <2>1. KeysOf(r) = {<<Ladder!User(r), Ladder!Season(r)>>, <<Ladder!Rival(r), Ladder!Season(r)>>}
      BY <1>3 DEF KeysOf, Ladder!Mine, Ladder!Theirs
    <2> QED BY <1>1, <2>1
  <1>4. CASE ~Ladder!IsReal(r)
    <2>1. KeysOf(r) = {<<Ladder!User(r), Ladder!Season(r)>>} /\ Ladder!Rival(r) \notin Players
      BY <1>4 DEF KeysOf, Ladder!Mine, Ladder!IsReal
    <2> QED BY <1>1, <2>1
  <1> QED BY <1>3, <1>4

LEMMA LadderBattleOwn ==
    ASSUME LadderSafe, NEW r \in DOMAIN plan, Ladder!Battle(r)
    PROVE  LadderOwn(r)
  <1>0. /\ LadderInv /\ LadderControl /\ LadderTables /\ plan \in PvpPlans
        /\ Ladder!IsOpen(r) /\ Ladder!HasAll(r) /\ Ladder!Kind(r) = "battle"
    BY DEF LadderSafe, LadderInv, LadderControl, Ladder!Battle
  <1>1. PICK b : LadderFought(r, b)
    BY <1>0, LadderBattle
  <1>2. /\ b \in BattleRow /\ battles' = Append(battles, b) /\ b.attacker = Ladder!User(r)
        /\ DOMAIN ratings' = DOMAIN ratings \cup KeysOf(r)
        /\ \A k \in DOMAIN ratings \ KeysOf(r) : ratings'[k] = ratings[k]
    BY <1>1 DEF LadderFought
  <1>3. \A k \in KeysOf(r) : k \in DOMAIN ratings \cup DOMAIN fresh[r] /\ Ladder!HolderOf(Ladder!Rating(k)) = r
    BY <1>0, LadderHasSeen
  <1>4. \A k \in DOMAIN fresh[r] : Ladder!HolderOf(Ladder!Insert(k)) = r
    BY <1>0 DEF LadderInv, LadderHeld
  <1>5. Ladder!HolderOf(Ladder!Monster(Ladder!User(r))) = r
    <2>1. step[r] = Len(Ladder!RowsOf(r)) /\ LadderShape(r)
      BY <1>0, LadderShapesHold DEF LadderShapes, Ladder!HasAll
    <2>2. step[r] > 0 /\ Ladder!Kind(r) # "claim"
      BY <1>0, <2>1 DEF LadderShape
    <2> QED BY <1>0, <2>2, LadderGuard
  <1>6. PICK n : n = Len(battles) + 1
    OBVIOUS
  <1>7. /\ DOMAIN battles' = DOMAIN battles \cup {n} /\ n \notin DOMAIN battles /\ battles'[n] = b
        /\ \A i \in DOMAIN battles : battles'[i] = battles[i]
    <2>1. /\ DOMAIN battles' = 1..n /\ Len(battles) \in Nat
          /\ DOMAIN battles = 1..Len(battles) /\ \A i \in DOMAIN battles : battles'[i] = battles[i]
          /\ battles'[n] = b
      BY <1>0, <1>2, <1>6, LadderOneMore
    <2>2. 1..n = (1..Len(battles)) \cup {n} /\ n \notin 1..Len(battles)
      BY <1>6, <2>1
    <2> QED BY <2>1, <2>2
  <1>8. ASSUME NEW u, NEW t, Ladder!HolderOf(Ladder!Monster(u)) # r
        PROVE  Ladder!Fights(u, t)' = Ladder!Fights(u, t) /\ \A v : Ladder!FightsWith(u, v, t)' = Ladder!FightsWith(u, v, t)
    <2>1. u # Ladder!User(r)
      BY <1>5, <1>8
    <2>2. PICK S : S = Ladder!Fights(u, t)'
      OBVIOUS
    <2>3. \A i : i \in S <=> i \in DOMAIN battles' /\ battles'[i].attacker = u /\ battles'[i].at >= t
      BY <2>2 DEF Ladder!Fights
    <2>4. \A i : i \in Ladder!Fights(u, t) <=> i \in DOMAIN battles /\ battles[i].attacker = u /\ battles[i].at >= t
      BY DEF Ladder!Fights
    <2>5. \A i : i \in S <=> i \in Ladder!Fights(u, t)
      BY <1>2, <1>7, <2>1, <2>3, <2>4
    <2>6. S = Ladder!Fights(u, t)
      BY <2>5
    <2>7. ASSUME NEW v PROVE Ladder!FightsWith(u, v, t)' = Ladder!FightsWith(u, v, t)
      <3>1. PICK T : T = Ladder!FightsWith(u, v, t)'
        OBVIOUS
      <3>2. \A i : i \in T <=> i \in S /\ battles'[i].rival = v
        BY <2>2, <3>1 DEF Ladder!FightsWith
      <3>3. \A i : i \in Ladder!FightsWith(u, v, t) <=> i \in Ladder!Fights(u, t) /\ battles[i].rival = v
        BY DEF Ladder!FightsWith
      <3>4. \A i \in S : battles'[i] = battles[i]
        BY <1>7, <2>4, <2>6
      <3>5. \A i : i \in T <=> i \in Ladder!FightsWith(u, v, t)
        BY <2>6, <3>2, <3>3, <3>4
      <3> QED BY <3>1, <3>5
    <2> QED BY <2>2, <2>6, <2>7
  <1> QED BY <1>2, <1>3, <1>4, <1>8 DEF LadderOwn

LEMMA LadderBattleSound ==
    ASSUME LadderSafe, NEW r \in DOMAIN plan, Ladder!Battle(r)
    PROVE  LadderSound'
  <1>0. /\ LadderInv /\ LadderControl /\ LadderTables /\ LadderEnrolled /\ LadderAllFollow /\ Ladder!FightsWithinLimits
        /\ plan \in PvpPlans /\ now[r] \in Nat /\ began[r] \in Nat
        /\ Ladder!IsOpen(r) /\ Ladder!HasAll(r) /\ Ladder!Kind(r) = "battle"
    BY LadderRequests DEF LadderSafe, LadderInv, LadderControl, Ladder!Battle
  <1>1. PICK b : LadderFought(r, b)
    BY <1>0, LadderBattle
  <1>2. /\ b \in BattleRow /\ battles' = Append(battles, b)
        /\ b.attacker = Ladder!User(r) /\ b.rival = Ladder!Rival(r) /\ b.season = Ladder!Season(r) /\ b.at = began[r]
        /\ DOMAIN ratings' = DOMAIN ratings \cup KeysOf(r)
        /\ \A k \in DOMAIN ratings \ KeysOf(r) : ratings'[k] = ratings[k]
        /\ \A k \in KeysOf(r) :
              /\ Ladder!Before(b, k[1]) = Ladder!RowSeen(r, k).rating
              /\ ratings'[k] = Ladder!Scored(Ladder!RowSeen(r, k), Ladder!After(b, k[1]), Ladder!Won(b, k[1]))
    BY <1>1 DEF LadderFought
  <1>3. /\ battles' \in Seq(BattleRow) /\ DOMAIN battles' = 1..Len(battles) + 1 /\ Len(battles) \in Nat
        /\ DOMAIN battles = 1..Len(battles) /\ \A i \in DOMAIN battles : battles'[i] = battles[i]
        /\ battles'[Len(battles) + 1] = b
    BY <1>0, <1>2, LadderOneMore
  <1>4. KeysOf(r) \subseteq Ladder!Keys /\ DOMAIN ratings \subseteq Ladder!Keys /\ DOMAIN ratings' \subseteq Ladder!Keys
    BY <1>0, <1>2, LadderKeys DEF LadderTables
  <1>5. \A k \in Ladder!Keys : k \in KeysOf(r) <=> b.season = k[2] /\ k[1] \in {b.attacker, b.rival}
    BY <1>0, <1>2, LadderAbout
  <1>6. \A k \in KeysOf(r) : Ladder!RowSeen(r, k) \in Ladder!Row /\ LadderFollows(k, Ladder!RowSeen(r, k))
    BY <1>0, LadderFollowsSeen DEF LadderSafe
  <1>7. LadderTables'
    <2>1. ASSUME NEW k \in DOMAIN ratings' PROVE ratings'[k] \in Ladder!Row
      <3>1. CASE k \in KeysOf(r)
        <4>1. PICK row, rating, isWon : row = Ladder!RowSeen(r, k) /\ rating = Ladder!After(b, k[1]) /\ isWon = Ladder!Won(b, k[1])
          OBVIOUS
        <4>2. rating \in Nat /\ isWon \in BOOLEAN
          BY <1>2, <4>1 DEF Ladder!After, Ladder!Won, BattleRow
        <4>3. ratings'[k] = Ladder!Scored(row, rating, isWon) /\ row \in Ladder!Row
          BY <1>2, <1>6, <3>1, <4>1
        <4> QED BY <4>2, <4>3, LadderScored
      <3>2. CASE k \notin KeysOf(r)
        BY <1>0, <1>2, <3>2 DEF LadderTables
      <3> QED BY <3>1, <3>2
    <2> QED BY <1>3, <1>4, <2>1 DEF LadderTables
  <1>8. LadderEnrolled'
    <2>1. DOMAIN OpeningRatings \subseteq DOMAIN ratings'
      BY <1>0, <1>2 DEF LadderEnrolled
    <2>2. ASSUME NEW i \in DOMAIN battles'
          PROVE  /\ <<battles'[i].attacker, battles'[i].season>> \in DOMAIN ratings'
                 /\ battles'[i].rival \in Players => <<battles'[i].rival, battles'[i].season>> \in DOMAIN ratings'
      <3>1. CASE i \in DOMAIN battles
        BY <1>0, <1>2, <1>3, <3>1 DEF LadderEnrolled
      <3>2. CASE i \notin DOMAIN battles
        <4>1. i = Len(battles) + 1
          BY <1>3, <3>2
        <4>2. battles'[i] = b
          BY <1>3, <4>1
        <4>3. <<Ladder!User(r), Ladder!Season(r)>> \in KeysOf(r)
          BY DEF KeysOf, Ladder!Mine
        <4>4. Ladder!Rival(r) \in Players => <<Ladder!Rival(r), Ladder!Season(r)>> \in KeysOf(r)
          BY <1>0 DEF KeysOf, Ladder!Theirs, Ladder!IsReal
        <4> QED BY <1>2, <4>2, <4>3, <4>4
      <3> QED BY <3>1, <3>2
    <2> QED BY <2>1, <2>2 DEF LadderEnrolled
  <1>9. LadderAllFollow'
    <2>1. ASSUME NEW k \in DOMAIN ratings' PROVE LadderFollows(k, ratings[k])'
      <3>0. PICK row : row = ratings'[k]
        OBVIOUS
      <3>1. CASE k \in KeysOf(r)
        <4>1. PICK old : old = Ladder!RowSeen(r, k)
          OBVIOUS
        <4>2. /\ old \in Ladder!Row /\ LadderFollows(k, old) /\ Ladder!Before(b, k[1]) = old.rating
              /\ row = Ladder!Scored(old, Ladder!After(b, k[1]), Ladder!Won(b, k[1]))
          BY <1>2, <1>6, <3>0, <3>1, <4>1
        <4>3. b.season = k[2] /\ k[1] \in {b.attacker, b.rival}
          BY <1>4, <1>5, <3>1
        <4>4. LadderFollows(k, row)'
          BY <1>0, <1>2, <4>2, <4>3, LadderFollowsOn
        <4> QED BY <3>0, <4>4
      <3>2. CASE k \notin KeysOf(r)
        <4>1. k \in DOMAIN ratings /\ row = ratings[k]
          BY <1>2, <3>0, <3>2
        <4>2. LadderFollows(k, row)
          BY <1>0, <4>1 DEF LadderAllFollow
        <4>3. ~(b.season = k[2] /\ k[1] \in {b.attacker, b.rival})
          BY <1>4, <1>5, <3>2
        <4>4. Ladder!Played(k)' = Ladder!Played(k) /\ Ladder!Wins(k)' = Ladder!Wins(k)
          BY <1>0, <1>2, <4>3, LadderPlaysOn
        <4>5. \A i \in Ladder!Played(k) : battles'[i] = battles[i]
          BY <1>3 DEF Ladder!Played
        <4>6. LadderFollows(k, row)'
          BY <4>2, <4>4, <4>5, LadderFollowsStill
        <4> QED BY <3>0, <4>6
      <3> QED BY <3>1, <3>2
    <2> QED BY <2>1 DEF LadderAllFollow
  <1>10. Ladder!FightsWithinLimits'
    <2>1. now[r] <= b.at
      BY <1>0, <1>2 DEF LadderInv, LadderStage
    <2>2. LadderChecked(r) /\ HasJoined(r)
      <3>1. LadderShape(r) /\ Ladder!Mine(r) \in KeysOf(r) /\ step[r] = Len(Ladder!RowsOf(r))
        BY <1>0, LadderShapesHold, LadderKeys DEF LadderShapes, Ladder!HasAll
      <3>2. \E i \in 1..Len(Ladder!RowsOf(r)) : Ladder!RowsOf(r)[i] = Ladder!Insert(Ladder!Mine(r))
        BY <1>0, <3>1 DEF LadderShape
      <3> QED BY <1>0, <3>1, <3>2 DEF LadderInv, HasJoined, Taken
    <2>3. /\ Cardinality(Ladder!Fights(b.attacker, Ladder!DayStart(now[r]))) < PVP_DAILY_ATTEMPTS
          /\ b.rival \in Players => Cardinality(Ladder!FightsWith(b.attacker, b.rival, Ladder!DayStart(now[r])))
                                      < PVP_MAX_FIGHTS_PER_OPPONENT_PER_DAY
      BY <1>0, <1>2, <2>2 DEF LadderChecked, Ladder!IsReal
    <2>4. PICK t : t = now[r]
      OBVIOUS
    <2>5. /\ t \in Nat /\ t <= b.at
          /\ Cardinality(Ladder!Fights(b.attacker, Ladder!DayStart(t))) < PVP_DAILY_ATTEMPTS
          /\ b.rival \in Players => Cardinality(Ladder!FightsWith(b.attacker, b.rival, Ladder!DayStart(t)))
                                      < PVP_MAX_FIGHTS_PER_OPPONENT_PER_DAY
      BY <1>0, <2>1, <2>3, <2>4
    <2> QED BY <1>0, <1>2, <2>5, LadderLimitsKept
  <1> QED BY <1>7, <1>8, <1>9, <1>10 DEF LadderSound

---------------------------------------------------------------------------
(* A handler that adds new rows or marks old ones, and fights nobody. *)
LEMMA LadderNoBattle ==
    ASSUME LadderSafe, NEW r \in DOMAIN plan, battles' = battles,
           DOMAIN ratings \subseteq DOMAIN ratings', DOMAIN ratings' \subseteq Ladder!Keys,
           \A k \in DOMAIN ratings' \ DOMAIN ratings :
              Ladder!HolderOf(Ladder!Insert(k)) = r /\ ratings'[k] \in Ladder!Row /\ ratings'[k].wins = 0 /\ ratings'[k].losses = 0,
           \A k \in DOMAIN ratings :
              /\ ratings'[k] # ratings[k] => Ladder!HolderOf(Ladder!Rating(k)) = r
              /\ ratings'[k] \in Ladder!Row /\ ratings'[k].rating = ratings[k].rating
              /\ ratings'[k].wins = ratings[k].wins /\ ratings'[k].losses = ratings[k].losses
    PROVE  LadderOwn(r) /\ LadderSound'
  <1>0. LadderTables /\ LadderEnrolled /\ LadderAllFollow /\ Ladder!FightsWithinLimits
    BY DEF LadderSafe, LadderInv
  <1>1. LadderOwn(r)
    <2>1. ASSUME NEW u, NEW t PROVE Ladder!Fights(u, t)' = Ladder!Fights(u, t) /\ \A v : Ladder!FightsWith(u, v, t)' = Ladder!FightsWith(u, v, t)
      BY DEF Ladder!Fights, Ladder!FightsWith
    <2> QED BY <2>1 DEF LadderOwn
  <1>2. LadderTables'
    BY <1>0 DEF LadderTables
  <1>3. LadderEnrolled'
    BY <1>0 DEF LadderEnrolled
  <1>4. LadderAllFollow'
    <2>1. ASSUME NEW k \in DOMAIN ratings' PROVE LadderFollows(k, ratings[k])'
      <3>0. PICK row : row = ratings'[k]
        OBVIOUS
      <3>1. LadderFollows(k, row)
        <4>1. CASE k \in DOMAIN ratings
          <5>1. LadderFollows(k, ratings[k])
            BY <1>0, <4>1 DEF LadderAllFollow
          <5>2. row.rating = ratings[k].rating /\ row.wins = ratings[k].wins /\ row.losses = ratings[k].losses
            BY <3>0, <4>1
          <5> QED BY <5>1, <5>2 DEF LadderFollows
        <4>2. CASE k \notin DOMAIN ratings
          <5>1. row.wins = 0 /\ row.losses = 0 /\ k \in Ladder!Keys
            BY <3>0, <4>2
          <5> QED BY <1>0, <4>2, <5>1, LadderNewcomer
        <4> QED BY <4>1, <4>2
      <3>2. Ladder!Played(k)' = Ladder!Played(k) /\ Ladder!Wins(k)' = Ladder!Wins(k)
        BY DEF Ladder!Played, Ladder!Wins, Ladder!Won
      <3>3. LadderFollows(k, row)'
        BY <3>1, <3>2, LadderFollowsStill
      <3> QED BY <3>0, <3>3
    <2> QED BY <2>1 DEF LadderAllFollow
  <1>5. Ladder!FightsWithinLimits'
    BY <1>0, LadderSame DEF Ladder!FightsWithinLimits, Ladder!Fights, Ladder!DayOf
  <1> QED BY <1>1, <1>2, <1>3, <1>4, <1>5 DEF LadderSound

LEMMA LadderDefendSafe ==
    ASSUME LadderSafe, NEW r \in DOMAIN plan, Ladder!Defend(r)
    PROVE  LadderOwn(r) /\ LadderSound'
  <1>1. LadderInv /\ LadderTables /\ plan \in PvpPlans /\ now[r] \in Nat
    BY LadderRequests DEF LadderSafe, LadderInv, LadderControl
  <1>2. /\ battles' = battles
        /\ DOMAIN ratings' = DOMAIN ratings \cup DOMAIN fresh[r]
        /\ \A k \in DOMAIN ratings' : ratings'[k] = IF k \in DOMAIN fresh[r] THEN fresh[r][k] ELSE ratings[k]
    BY DEF Ladder!Defend, Ladder!With
  <1>3. \A k \in DOMAIN fresh[r] :
          /\ k \in KeysOf(r) /\ k \notin DOMAIN ratings /\ Ladder!HolderOf(Ladder!Insert(k)) = r
          /\ fresh[r][k] \in Ladder!Row /\ fresh[r][k].wins = 0 /\ fresh[r][k].losses = 0
    BY <1>1 DEF LadderInv, LadderHeld
  <1>4. DOMAIN ratings' \subseteq Ladder!Keys
    BY <1>1, <1>2, <1>3, LadderKeys DEF LadderTables
  <1>5. \A k \in DOMAIN ratings' \ DOMAIN ratings :
          Ladder!HolderOf(Ladder!Insert(k)) = r /\ ratings'[k] \in Ladder!Row /\ ratings'[k].wins = 0 /\ ratings'[k].losses = 0
    BY <1>2, <1>3
  <1>6. \A k \in DOMAIN ratings : ratings'[k] = ratings[k] /\ ratings[k] \in Ladder!Row
    BY <1>1, <1>2, <1>3 DEF LadderTables
  <1>7. \A k \in DOMAIN ratings :
          /\ ratings'[k] # ratings[k] => Ladder!HolderOf(Ladder!Rating(k)) = r
          /\ ratings'[k] \in Ladder!Row /\ ratings'[k].rating = ratings[k].rating
          /\ ratings'[k].wins = ratings[k].wins /\ ratings'[k].losses = ratings[k].losses
    BY <1>6
  <1>8. DOMAIN ratings \subseteq DOMAIN ratings'
    BY <1>2
  <1> QED BY <1>2, <1>4, <1>5, <1>7, <1>8, LadderNoBattle

LEMMA LadderClaimSafe ==
    ASSUME LadderSafe, NEW r \in DOMAIN plan, Ladder!ClaimSeason(r)
    PROVE  LadderOwn(r) /\ LadderSound'
  <1>1. /\ LadderInv /\ LadderControl /\ LadderTables /\ plan \in PvpPlans
        /\ Ladder!IsOpen(r) /\ Ladder!HasAll(r) /\ Ladder!Kind(r) = "claim" /\ now[r] \in Nat
    BY LadderRequests DEF LadderSafe, LadderInv, LadderControl, Ladder!ClaimSeason
  <1>2. LadderShape(r) /\ step[r] = Len(Ladder!RowsOf(r))
    BY <1>1, LadderShapesHold DEF LadderShapes, Ladder!HasAll
  <1>3. step[r] = 2 /\ Ladder!RowsOf(r)[1] = Ladder!Rating(Ladder!Mine(r))
    BY <1>1, <1>2 DEF LadderShape
  <1>4. Taken(r, Ladder!Rating(Ladder!Mine(r)))
    BY <1>3 DEF Taken
  <1>5. Ladder!HolderOf(Ladder!Rating(Ladder!Mine(r))) = r
    <2>1. Ladder!Rating(Ladder!Mine(r))[1] # "insert"
      BY LadderTags
    <2> QED BY <1>1, <1>4, <2>1 DEF LadderInv, LadderHeld
  <1>6. Ladder!Mine(r) \in DOMAIN ratings
    BY <1>1, <1>3 DEF LadderInv, LadderStage
  <1>7. /\ battles' = battles /\ DOMAIN ratings' = DOMAIN ratings
        /\ \A k \in DOMAIN ratings :
              ratings'[k] = IF k = Ladder!Mine(r) THEN [ratings[k] EXCEPT !.claimed = TRUE] ELSE ratings[k]
    BY <1>6 DEF Ladder!ClaimSeason, Ladder!With
  <1>8. ASSUME NEW k \in DOMAIN ratings
        PROVE  /\ ratings'[k] # ratings[k] => Ladder!HolderOf(Ladder!Rating(k)) = r
               /\ ratings'[k] \in Ladder!Row /\ ratings'[k].rating = ratings[k].rating
               /\ ratings'[k].wins = ratings[k].wins /\ ratings'[k].losses = ratings[k].losses
    <2>1. ratings[k] \in Ladder!Row
      BY <1>1 DEF LadderTables
    <2>2. CASE k = Ladder!Mine(r)
      <3>1. PICK old, new : old = ratings[k] /\ new = ratings'[k]
        OBVIOUS
      <3>2. old \in Ladder!Row /\ new = [old EXCEPT !.claimed = TRUE]
        BY <1>7, <2>1, <2>2, <3>1
      <3>3. new \in Ladder!Row /\ new.rating = old.rating /\ new.wins = old.wins /\ new.losses = old.losses
        BY <3>2 DEF Ladder!Row
      <3> QED BY <1>5, <2>2, <3>1, <3>3
    <2>3. CASE k # Ladder!Mine(r)
      BY <1>7, <2>1, <2>3
    <2> QED BY <2>2, <2>3
  <1>9. DOMAIN ratings' \subseteq Ladder!Keys
    BY <1>1, <1>7 DEF LadderTables
  <1>10. \A k \in DOMAIN ratings' \ DOMAIN ratings :
          Ladder!HolderOf(Ladder!Insert(k)) = r /\ ratings'[k] \in Ladder!Row /\ ratings'[k].wins = 0 /\ ratings'[k].losses = 0
    BY <1>7
  <1>11. DOMAIN ratings \subseteq DOMAIN ratings'
    BY <1>7
  <1> QED BY <1>7, <1>8, <1>9, <1>10, <1>11, LadderNoBattle

---------------------------------------------------------------------------
LEMMA LadderQuietSound ==
    ASSUME LadderSafe, UNCHANGED Ladder!tables
    PROVE  LadderSound'
  <1>0. LadderTables /\ LadderEnrolled /\ LadderAllFollow /\ Ladder!FightsWithinLimits
    BY DEF LadderSafe, LadderInv
  <1>1. ratings' = ratings /\ battles' = battles
    BY DEF Ladder!tables
  <1>2. LadderTables' /\ LadderEnrolled'
    BY <1>0, <1>1 DEF LadderTables, LadderEnrolled
  <1>3. LadderAllFollow'
    <2>1. ASSUME NEW k \in DOMAIN ratings' PROVE LadderFollows(k, ratings[k])'
      <3>0. PICK row : row = ratings[k]
        OBVIOUS
      <3>1. LadderFollows(k, row)
        BY <1>0, <1>1, <3>0 DEF LadderAllFollow
      <3>2. Ladder!Played(k)' = Ladder!Played(k) /\ Ladder!Wins(k)' = Ladder!Wins(k)
        BY <1>1 DEF Ladder!Played, Ladder!Wins, Ladder!Won
      <3>3. LadderFollows(k, row)'
        BY <1>1, <3>1, <3>2, LadderFollowsStill
      <3> QED BY <1>1, <3>0, <3>3
    <2> QED BY <2>1 DEF LadderAllFollow
  <1>4. Ladder!FightsWithinLimits'
    BY <1>0, <1>1, LadderSame DEF Ladder!FightsWithinLimits, Ladder!Fights, Ladder!DayOf
  <1> QED BY <1>2, <1>3, <1>4 DEF LadderSound

LadderKept(r) == LadderStage(r) /\ LadderHeld(r) /\ LadderSeen(r) /\ LadderChecked(r)

(* A step of a request, whatever it is. *)
LadderStepped(r) ==
    LadderControl' /\ LadderAlone(r) /\ LadderOwn(r) /\ LadderSound' /\ LadderKept(r)'

LEMMA LadderCommits ==
    ASSUME LadderSafe, NEW r \in DOMAIN plan, Ladder!Battle(r) \/ Ladder!Defend(r) \/ Ladder!ClaimSeason(r)
    PROVE  LadderStepped(r)
  <1>1. Ladder!IsOpen(r) /\ Ladder!Ends(r) /\ LadderInv
    BY DEF Ladder!Battle, Ladder!Defend, Ladder!ClaimSeason, LadderSafe
  <1>2. LadderLets(r)
    BY <1>1, LadderEndsLets
  <1>3. LadderOwn(r) /\ LadderSound'
    BY LadderBattleOwn, LadderBattleSound, LadderDefendSafe, LadderClaimSafe
  <1>4. DOMAIN ratings \subseteq DOMAIN ratings'
    BY <1>3 DEF LadderOwn
  <1>5. /\ LadderControl' /\ LadderAlone(r)
        /\ LadderStage(r)' /\ LadderHeld(r)' /\ LadderSeen(r)' /\ LadderChecked(r)'
    BY <1>1, <1>2, <1>4, LadderLetsGo
  <1> QED BY <1>3, <1>5 DEF LadderStepped, LadderKept

LEMMA LadderGivesUp ==
    ASSUME LadderSafe, NEW r \in DOMAIN plan, Ladder!IsOpen(r), Ladder!Undo(r)
    PROVE  LadderStepped(r)
  <1>1. LadderInv /\ UNCHANGED Ladder!tables
    BY DEF Ladder!Undo, LadderSafe
  <1>2. LadderLets(r)
    BY <1>1, LadderEndsLets
  <1>3. LadderOwn(r) /\ LadderSound'
    BY <1>1, LadderQuietTables, LadderQuietSound
  <1>4. DOMAIN ratings \subseteq DOMAIN ratings'
    BY <1>3 DEF LadderOwn
  <1>5. /\ LadderControl' /\ LadderAlone(r)
        /\ LadderStage(r)' /\ LadderHeld(r)' /\ LadderSeen(r)' /\ LadderChecked(r)'
    BY <1>1, <1>2, <1>4, LadderLetsGo
  <1> QED BY <1>3, <1>5 DEF LadderStepped, LadderKept

LEMMA LadderStepOf ==
    ASSUME LadderSafe, NEW r \in DOMAIN plan, Ladder!Step(r) \/ Ladder!Fail(r)
    PROVE  LadderStepped(r)
  <1>0. LadderInv
    BY DEF LadderSafe
  <1>1. CASE Ladder!Begin(r) \/ Ladder!Open(r)
    <2>1. /\ LadderControl' /\ LadderAlone(r) /\ UNCHANGED Ladder!tables
          /\ LadderStage(r)' /\ LadderHeld(r)' /\ LadderSeen(r)' /\ LadderChecked(r)'
      BY <1>0, <1>1, LadderBegins
    <2> QED BY <2>1, LadderQuietTables, LadderQuietSound DEF LadderStepped, LadderKept
  <1>2. CASE Ladder!TakeNext(r)
    <2>1. LadderControl' /\ LadderAlone(r) /\ UNCHANGED Ladder!tables /\ LadderStage(r)'
      BY <1>0, <1>2, LadderTakesControl
    <2>2. LadderHeld(r)' /\ LadderSeen(r)' /\ LadderChecked(r)'
      BY <1>0, <1>2, LadderTakesHeld, LadderTakesSeen, LadderTakesChecked
    <2> QED BY <2>1, <2>2, LadderQuietTables, LadderQuietSound DEF LadderStepped, LadderKept
  <1>3. CASE Ladder!Battle(r) \/ Ladder!Defend(r) \/ Ladder!ClaimSeason(r)
    BY <1>3, LadderCommits
  <1>4. CASE Ladder!Refuse(r) \/ Ladder!DeadlockVictim(r) \/ Ladder!Fail(r)
    <2>1. Ladder!Undo(r)
      BY <1>4 DEF Ladder!Refuse, Ladder!DeadlockVictim, Ladder!Fail
    <2>2. Ladder!IsOpen(r)
      BY <1>4 DEF Ladder!Refuse, Ladder!DeadlockVictim, Ladder!Fail, Ladder!Circles, Ladder!Blocked
    <2> QED BY <2>1, <2>2, LadderGivesUp
  <1> QED BY <1>1, <1>2, <1>3, <1>4 DEF Ladder!Step

(* Nobody but r has moved, and r is as it should be. *)
LEMMA LadderGathers ==
    ASSUME LadderSafe, NEW r, LadderControl', LadderAlone(r), LadderOwn(r), LadderSound',
           r \in DOMAIN plan => LadderKept(r)'
    PROVE  LadderSafe'
  <1>1. LadderInv /\ plan' = plan
    BY DEF LadderSafe, LadderAlone
  <1>2. ASSUME NEW s \in DOMAIN plan
        PROVE  LadderStage(s)' /\ LadderHeld(s)' /\ LadderSeen(s)' /\ LadderChecked(s)'
    <2>1. CASE s = r
      BY <2>1 DEF LadderKept
    <2>2. CASE s # r
      BY <1>1, <2>2, LadderOthers
    <2> QED BY <2>1, <2>2
  <1>3. LadderInv'
    BY <1>1, <1>2 DEF LadderInv, LadderSound
  <1> QED BY <1>3 DEF LadderSafe, LadderSound

LEMMA LadderNext ==
    ASSUME LadderSafe, [Ladder!Next]_Ladder!vars
    PROVE  LadderSafe'
  <1>0. LadderInv /\ LadderControl /\ plan \in PvpPlans
    BY DEF LadderSafe, LadderInv, LadderControl
  <1>1. ASSUME NEW r \in DOMAIN plan, Ladder!Step(r) \/ Ladder!Fail(r) PROVE LadderSafe'
    <2>1. LadderStepped(r)
      BY <1>1, LadderStepOf
    <2>2. LadderControl' /\ LadderAlone(r) /\ LadderOwn(r) /\ LadderSound' /\ LadderKept(r)'
      BY <2>1 DEF LadderStepped
    <2> QED BY <2>2, LadderGathers
  <1>2. CASE Ladder!Elapse \/ UNCHANGED Ladder!vars
    <2>1. UNCHANGED <<Ladder!requestVars, holder, Ladder!tables>> /\ clock' \in {clock, clock + 1}
      BY <1>2 DEF Ladder!Elapse, Ladder!vars
    <2>2. /\ UNCHANGED <<plan, pc, step, now, began, fresh, seen, holder>> /\ UNCHANGED Ladder!tables
          /\ clock' \in Nat /\ clock' >= clock
      BY <1>0, <2>1 DEF Ladder!requestVars, LadderControl
    <2>3. LadderControl'
      BY <1>0, <2>2 DEF LadderControl
    <2>4. LadderAlone(NoRequest)
      BY <2>2 DEF LadderAlone, Ladder!HolderOf
    <2>5. NoRequest \notin DOMAIN plan
      BY <1>0, LadderRequests
    <2>6. LadderOwn(NoRequest) /\ LadderSound'
      BY <2>2, LadderQuietTables, LadderQuietSound
    <2> QED BY <2>3, <2>4, <2>5, <2>6, LadderGathers
  <1> QED BY <1>1, <1>2 DEF Ladder!Next

LEMMA LadderFirst ==
    ASSUME Ladder!Init
    PROVE  LadderSafe
  <1>1. /\ plan \in PvpPlans /\ pc = [r \in Requests |-> "idle"] /\ step = [r \in Requests |-> 0]
        /\ now = [r \in Requests |-> 0] /\ began = [r \in Requests |-> 0]
        /\ fresh = [r \in Requests |-> Ladder!NoRows] /\ seen = [r \in Requests |-> Ladder!NoRows]
        /\ holder = Ladder!NoRows /\ ratings = OpeningRatings /\ battles = <<>> /\ clock = 0
    BY DEF Ladder!Init
  <1>2. DOMAIN plan \subseteq Requests /\ NoRequest \notin Requests
    BY <1>1, LadderRequests
  <1>3. DOMAIN Ladder!NoRows = {}
    BY DEF Ladder!NoRows
  <1>4. LadderControl
    BY <1>1, <1>3 DEF LadderControl
  <1>5. LadderTables
    <2>1. DOMAIN OpeningRatings \subseteq Ladder!Keys /\ \A k \in DOMAIN OpeningRatings : OpeningRatings[k] \in Ladder!Row
      BY PvpParameters, LadderSame DEF Ladder!PvpAssumption
    <2> QED BY <1>1, <2>1 DEF LadderTables
  <1>6. ASSUME NEW r \in DOMAIN plan
        PROVE  LadderStage(r) /\ LadderHeld(r) /\ LadderSeen(r) /\ LadderChecked(r)
    <2>1. /\ pc[r] = "idle" /\ ~Ladder!IsOpen(r) /\ step[r] = 0 /\ fresh[r] = Ladder!NoRows /\ seen[r] = Ladder!NoRows /\ r # NoRequest
      BY <1>1, <1>2 DEF Ladder!IsOpen
    <2>2. LadderStage(r)
      <3>1. Len(Ladder!RowsOf(r)) \in Nat
        BY <1>4, LadderShapesHold DEF LadderShapes, LadderShape
      <3> QED BY <2>1, <3>1 DEF LadderStage
    <2>3. LadderHeld(r)
      <3>1. \A x : Ladder!HolderOf(x) = NoRequest
        BY <1>1, <1>3 DEF Ladder!HolderOf
      <3> QED BY <1>3, <2>1, <3>1 DEF LadderHeld
    <2>4. LadderSeen(r) /\ LadderChecked(r)
      BY <1>3, <2>1 DEF LadderSeen, LadderChecked
    <2> QED BY <2>2, <2>3, <2>4
  <1>7. LadderEnrolled
    BY <1>1 DEF LadderEnrolled
  <1>8. LadderAllFollow
    <2>1. ASSUME NEW k \in DOMAIN ratings PROVE LadderFollows(k, ratings[k])
      <3>1. Ladder!Played(k) = {}
        BY <1>1 DEF Ladder!Played
      <3>2. Ladder!Wins(k) = {} /\ Ladder!Played(k) \ Ladder!Wins(k) = {}
        BY <3>1 DEF Ladder!Wins
      <3>3. Cardinality({}) = 0
        BY FS_EmptySet
      <3>4. PICK row : row = ratings[k]
        OBVIOUS
      <3>5. row = OpeningRatings[k] /\ row \in Ladder!Row /\ k \in DOMAIN OpeningRatings
        BY <1>1, <1>5, <3>4 DEF LadderTables
      <3>6. row.wins - OpeningWins(k) = 0 /\ row.losses - OpeningLosses(k) = 0
        BY <3>5 DEF OpeningWins, OpeningLosses, Ladder!Row
      <3>7. LadderChain(k)
        BY <3>1 DEF LadderChain
      <3>8. LadderFollows(k, row)
        BY <3>1, <3>2, <3>3, <3>5, <3>6, <3>7 DEF LadderFollows
      <3> QED BY <3>4, <3>8
    <2> QED BY <2>1 DEF LadderAllFollow
  <1>9. Ladder!FightsWithinLimits
    <2>1. \A u, t : Ladder!Fights(u, t) = {}
      BY <1>1 DEF Ladder!Fights
    <2>2. Cardinality({}) = 0
      BY FS_EmptySet
    <2>3. \A u, date : Today(u, date) = {} /\ \A v : TodayWith(u, v, date) = {}
      BY <2>1 DEF Today, TodayWith
    <2>4. PVP_DAILY_ATTEMPTS \in Nat /\ PVP_MAX_FIGHTS_PER_OPPONENT_PER_DAY \in Nat
      BY PvpParameters, LadderSame DEF Ladder!PvpAssumption
    <2> QED BY <2>2, <2>3, <2>4, LadderLimitsMean
  <1>10. LadderInv
    BY <1>4, <1>5, <1>6 DEF LadderInv
  <1> QED BY <1>7, <1>8, <1>9, <1>10 DEF LadderSafe

---------------------------------------------------------------------------
(*                                  Goods                                   *)

LoosePiece == [from : {"none", "start", "box", "exchange", "craft", "raid", "battle", "world_boss"},
               end : {"none", "dismantled", "broken"},
               level : Int, pity : Int, rolled : Int, pending : BOOLEAN, wearer : Pets \cup {NoPet}]

GoodsControl ==
    /\ plan \in Plans
    /\ pos \in [Requests -> Int]
    /\ inserted \in [Requests -> SUBSET Pieces]
    /\ holder \in [Rows -> Requests \cup {NoRequest}]
    /\ \A x \in Rows : holder[x] # NoRequest => holder[x] \in DOMAIN plan /\ IsRunning(holder[x])

GoodsTables ==
    /\ piece \in [Pieces -> LoosePiece]
    /\ away \subseteq Pets
    /\ job = [active |-> job.active, catalyst |-> job.catalyst, finishAt |-> job.finishAt]
    /\ pity \in Nat /\ claims \in Seq({"plain", "base", "upgraded"})

(* The place of a piece in a batch. *)
Place(S, p) == Cardinality({q \in S : q < p}) + 1

(* How many statements a request makes before its last.  Only a claim reads *)
(* this from the state: the catalyst of the craft that it has locked.       *)
TickLength(r) == IF Flag(r) /\ Kind(r) # "equip" THEN 2 ELSE 1
StepsLength(r) ==
    CASE Kind(r) \in {"box", "exchange", "costume", "equip"} -> 3
      [] Kind(r) \in {"shop", "skip", "keep"} -> 2
      [] Kind(r) = "raid" -> TickLength(r) + Len(Gains(r)) + 4
      [] Kind(r) = "hunt" -> TickLength(r) + 1 + plan[r].runs + Len(Gains(r))
      [] Kind(r) = "reward" -> IF Flag(r) THEN Len(Gains(r)) + 5 ELSE Len(Gains(r)) + 3
      [] Kind(r) = "start" -> IF Flag(r) THEN 6 ELSE 5
      [] Kind(r) = "claim" -> IF job.catalyst THEN 5 ELSE 4
      [] Kind(r) = "enhance" -> IF Flag(r) THEN 4 ELSE 3
      [] Kind(r) = "refine" -> 4
      [] Kind(r) = "discard" -> 1
      [] Kind(r) = "dismantle" -> 2 * Cardinality(Named(r)) + 2
      [] Kind(r) = "collect" -> TickLength(r) + 2
      [] Kind(r) \in {"unequip", "use"} -> TickLength(r) + 1
      [] OTHER -> TickLength(r)

(* The requests that bring pieces, and the statement that locks their queue. *)
Brings(r) == Kind(r) \in {"box", "exchange", "claim", "raid", "hunt", "reward"}
QueuedAt(r) ==
    CASE Kind(r) = "claim" -> 1
      [] Kind(r) = "raid" -> TickLength(r) + 2
      [] Kind(r) = "hunt" -> TickLength(r) + 1
      [] Kind(r) = "reward" /\ Flag(r) -> 3
      [] OTHER -> 2
MayInsert(st) == st[1] \in {"grant", "award", "drop"}

(* What a request relies on, because of the rows it has locked. *)
HoldsPiece(r, p) == holder[Row(p)] = r /\ IsHere(p)

GoodsStage(r) ==
    IsRunning(r) =>
        /\ pos[r] \in Nat /\ pos[r] <= Len(StepsOf(r))
        /\ Brings(r) /\ pos[r] >= QueuedAt(r) => holder[Queue(r)] = r
        /\ Kind(r) = "claim" /\ pos[r] >= 1 => holder[Job] = r /\ job.active
        /\ Kind(r) = "start" /\ IsAtEnd(r) => holder[Job] = r /\ ~job.active
        /\ Kind(r) \in {"enhance", "refine", "keep", "discard"} /\ pos[r] >= 1 => HoldsPiece(r, ThePiece(r))
        /\ Kind(r) = "dismantle" =>
              \A p \in Named(r) : /\ Place(Named(r), p) <= pos[r] => HoldsPiece(r, p)
                                  /\ Cardinality(Named(r)) < pos[r] => piece[p].wearer = NoPet
        /\ Kind(r) \in {"equip", "unequip", "explore", "collect"} /\ pos[r] >= 1 => holder[Roster] = r
        /\ Kind(r) = "unequip" /\ pos[r] >= 1 => Pet(r) \notin away
        /\ Kind(r) = "equip" /\ pos[r] >= 2 =>
              /\ HoldsPiece(r, ThePiece(r))
              /\ Pet(r) \notin away /\ piece[ThePiece(r)].wearer \notin away

GoodsInv == GoodsControl /\ GoodsTables /\ \A r \in DOMAIN plan : GoodsStage(r)

(* A piece that has ended is told of once in the logs. *)
IsEnding(e, p) == e.piece = p /\ e.what # "enhanced"
GoodsEnd ==
    \A p \in Pieces :
        /\ piece[p].end # "none" =>
              /\ piece[p].wearer = NoPet
              /\ \E e \in log : IsEnding(e, p) /\ \A f \in log : IsEnding(f, p) => f = e
        /\ piece[p].end = "none" => \A e \in log : ~IsEnding(e, p)

(* What a request has inserted is its own until it commits. *)
GoodsInserted(r) ==
    /\ ~IsRunning(r) /\ pos[r] # Committed => inserted[r] = {}
    /\ IsRunning(r) =>
          /\ \A p \in inserted[r] : piece[p] = Unborn
          /\ inserted[r] # {} => Brings(r) /\ pos[r] >= QueuedAt(r)
          /\ Kind(r) = "claim" /\ IsAtEnd(r) => \E p \in Pieces : inserted[r] = {p}
          /\ Kind(r) = "claim" /\ ~IsAtEnd(r) => inserted[r] = {}
GoodsApart ==
    \A r, q \in DOMAIN plan : r # q /\ IsRunning(r) /\ IsRunning(q) => inserted[r] \cap inserted[q] = {}
GoodsInserts == GoodsApart /\ \A r \in DOMAIN plan : GoodsInserted(r)

(* Whichever of the pending requests commit, the bag is too full only by    *)
(* what met there.                                                          *)
FitsIn(h, B, i, q) ==
    \E met \in SUBSET B :
        /\ \A x, y \in met : x # y => q[x] # q[y]
        /\ met # {} => \E last \in B : \A x \in met : q[x] # q[last]
        /\ Cardinality(h \ UNION {i[x] : x \in met}) <= EQUIPMENT_CAPACITY
Pending == {r \in DOMAIN plan : pos[r] # Committed}
WouldBeHere(R) == Here \cup UNION {inserted[r] : r \in R}
WouldBring(R) == {r \in DOMAIN plan : inserted[r] # {} /\ (pos[r] = Committed \/ r \in R)}
Queues == [r \in DOMAIN plan |-> Queue(r)]
FitsWith(R) == FitsIn(WouldBeHere(R), WouldBring(R), inserted, Queues)
GoodsFit == \A R \in SUBSET Pending : FitsWith(R)

GoodsSafe == GoodsInv /\ GoodsInserts /\ GoodsEnd /\ GoodsFit /\ CraftsAddUp

---------------------------------------------------------------------------
LEMMA GoodsRequests ==
    ASSUME plan \in Plans
    PROVE  /\ DOMAIN plan \subseteq Requests /\ NoRequest \notin Requests /\ IsFiniteSet(DOMAIN plan)
           /\ IsFiniteSet(Pieces) /\ Pieces \subseteq Nat /\ NoPet \notin Pets
           /\ \A r \in DOMAIN plan :
                 /\ Kind(r) \in Kinds /\ Named(r) \subseteq Pieces /\ Pet(r) \in Pets \cup {NoPet} /\ Flag(r) \in BOOLEAN
                 /\ IsFiniteSet(Named(r)) /\ Cardinality(Named(r)) \in Nat
                 /\ Token(r) \in Materials /\ Gains(r) \in Seq(Materials) /\ Len(Gains(r)) \in Nat /\ plan[r].runs \in Nat
                 /\ Kind(r) \in OfOnePiece => Named(r) = {ThePiece(r)} /\ ThePiece(r) \in Pieces
                 /\ Kind(r) \in OfOnePet => Pet(r) \in Pets
  <1>1. /\ DOMAIN plan \subseteq Requests /\ NoRequest \notin Requests /\ IsFiniteSet(Requests)
        /\ IsFiniteSet(Pieces) /\ Pieces \subseteq Nat /\ NoPet \notin Pets
        /\ \A r \in DOMAIN plan : /\ plan[r] \in PlannedRequest
                                  /\ plan[r].kind \in OfOnePiece => \E q \in Pieces : plan[r].pieces = {q}
                                  /\ plan[r].kind \in OfOnePet => plan[r].pet \in Pets
    BY GoodsParameters DEF GoodsAssumption
  <1>2. ASSUME NEW r \in DOMAIN plan
        PROVE  /\ Kind(r) \in Kinds /\ Named(r) \subseteq Pieces /\ Pet(r) \in Pets \cup {NoPet} /\ Flag(r) \in BOOLEAN
               /\ IsFiniteSet(Named(r)) /\ Cardinality(Named(r)) \in Nat
               /\ Token(r) \in Materials /\ Gains(r) \in Seq(Materials) /\ Len(Gains(r)) \in Nat /\ plan[r].runs \in Nat
               /\ Kind(r) \in OfOnePiece => Named(r) = {ThePiece(r)} /\ ThePiece(r) \in Pieces
               /\ Kind(r) \in OfOnePet => Pet(r) \in Pets
    <2>1. Kind(r) \in Kinds /\ Named(r) \subseteq Pieces /\ Pet(r) \in Pets \cup {NoPet} /\ Flag(r) \in BOOLEAN
      BY <1>1, <1>2 DEF Kind, Named, Pet, Flag, PlannedRequest
    <2>2. IsFiniteSet(Named(r)) /\ Cardinality(Named(r)) \in Nat
      BY <1>1, <2>1, FS_Subset, FS_CardinalityType
    <2>3. ASSUME Kind(r) \in OfOnePiece PROVE Named(r) = {ThePiece(r)} /\ ThePiece(r) \in Pieces
      <3>1. PICK q \in Pieces : Named(r) = {q}
        BY <1>1, <1>2, <2>3 DEF Kind, Named
      <3> QED BY <3>1 DEF ThePiece
    <2>4. Kind(r) \in OfOnePet => Pet(r) \in Pets
      BY <1>1, <1>2 DEF Kind, Pet
    <2>5. Token(r) \in Materials /\ Gains(r) \in Seq(Materials) /\ plan[r].runs \in Nat
      BY <1>1, <1>2 DEF Token, Gains, PlannedRequest
    <2>6. Len(Gains(r)) \in Nat
      BY <2>5, LenProperties
    <2> QED BY <2>1, <2>2, <2>3, <2>4, <2>5, <2>6
  <1> QED BY <1>1, <1>2, FS_Subset

(* The rows are different. *)
LEMMA GoodsRows ==
    /\ Roster # Wallet /\ Roster # Job /\ Roster # Pity /\ Wallet # Job /\ Wallet # Pity /\ Job # Pity
    /\ \A p, q : Row(p) = Row(q) => p = q
    /\ \A p : Row(p) # Roster /\ Row(p) # Wallet /\ Row(p) # Job
    /\ \A m : Item(m) # Roster /\ Item(m) # Wallet /\ Item(m) # Job
    /\ Roster \in Rows /\ Wallet \in Rows /\ Job \in Rows /\ Pity \in Rows
    /\ \A p \in Pieces : Row(p) \in Rows
    /\ \A m \in Materials : Item(m) \in Rows
    /\ NoRow \notin Rows
    /\ \A p : Row(p)[1] = "piece" /\ Row(p)[2] = p
    /\ Roster[1] = "roster" /\ Wallet[1] = "wallet" /\ Job[1] = "job" /\ \A m : Item(m)[1] = "item" /\ Item(m)[2] = m
  <1>2. \A p : Row(p)[1] = "piece" /\ Row(p)[2] = p
    BY DEF Row
  <1>3. \A m : Item(m)[1] = "item" /\ Item(m)[2] = m
    BY DEF Item
  <1>4. /\ Roster[1] = "roster" /\ Wallet[1] = "wallet" /\ Job[1] = "job" /\ Pity[1] = "pity" /\ Damage[1] = "damage"
        /\ NoRow[1] = "none"
    BY DEF Roster, Wallet, Job, Pity, Damage, NoRow
  <1>5. /\ Roster \in Rows /\ Wallet \in Rows /\ Job \in Rows /\ Pity \in Rows
        /\ \A p \in Pieces : Row(p) \in Rows
        /\ \A m \in Materials : Item(m) \in Rows
    BY DEF Rows
  <1>6. \A x \in Rows : x[1] \in {"roster", "wallet", "job", "pity", "damage", "piece", "item"}
    BY <1>2, <1>3, <1>4 DEF Rows
  <1>7. \A p, q : Row(p) = Row(q) => p = q
    BY <1>2
  <1>8. /\ Roster # Wallet /\ Roster # Job /\ Roster # Pity /\ Wallet # Job /\ Wallet # Pity /\ Job # Pity
        /\ \A p : Row(p) # Roster /\ Row(p) # Wallet /\ Row(p) # Job
        /\ \A m : Item(m) # Roster /\ Item(m) # Wallet /\ Item(m) # Job
    BY <1>2, <1>3, <1>4
  <1> QED BY <1>2, <1>3, <1>4, <1>5, <1>6, <1>7, <1>8

(* The place of a piece in the order of ids. *)
LEMMA GoodsPlace ==
    ASSUME NEW S \in SUBSET Nat, IsFiniteSet(S), NEW p \in S
    PROVE  Place(S, p) \in 1..Cardinality(S) /\ InIdOrder(S)[Place(S, p)] = p
  <1> DEFINE Below(q) == {x \in S : x < q}
  <1>1. \A q \in S : Below(q) \subseteq S /\ q \notin Below(q) /\ q \in Nat
    OBVIOUS
  <1>2. \A q \in S : /\ IsFiniteSet(Below(q)) /\ Cardinality(Below(q)) \in Nat /\ Cardinality(S) \in Nat
                     /\ Cardinality(Below(q)) < Cardinality(S)
    <2>1. ASSUME NEW q \in S
          PROVE  IsFiniteSet(Below(q)) /\ Cardinality(Below(q)) \in Nat /\ Cardinality(S) \in Nat /\ Cardinality(Below(q)) < Cardinality(S)
      <3>1. IsFiniteSet(Below(q)) /\ Cardinality(Below(q)) <= Cardinality(S)
        BY <1>1, FS_Subset
      <3>2. Cardinality(Below(q)) = Cardinality(S) => Below(q) = S
        BY <1>1, FS_Subset
      <3> QED BY <1>1, <3>1, <3>2, FS_CardinalityType
    <2> QED BY <2>1
  <1>3. \A q \in S : q < p => Cardinality(Below(q)) < Cardinality(Below(p))
    <2>1. ASSUME NEW q \in S, q < p PROVE Cardinality(Below(q)) < Cardinality(Below(p))
      <3>0. \A x \in S : x < q => x < p
        BY <1>1, <2>1
      <3>1. Below(q) \subseteq Below(p) /\ q \in Below(p)
        BY <2>1, <3>0
      <3>2. Cardinality(Below(q)) <= Cardinality(Below(p)) /\ (Cardinality(Below(q)) = Cardinality(Below(p)) => Below(q) = Below(p))
        BY <1>2, <3>1, FS_Subset
      <3> QED BY <1>1, <1>2, <3>1, <3>2
    <2> QED BY <2>1
  <1>4. \A q \in S : p < q => Cardinality(Below(p)) < Cardinality(Below(q))
    <2>1. ASSUME NEW q \in S, p < q PROVE Cardinality(Below(p)) < Cardinality(Below(q))
      <3>0. \A x \in S : x < p => x < q
        BY <1>1, <2>1
      <3>1. Below(p) \subseteq Below(q) /\ p \in Below(q)
        BY <2>1, <3>0
      <3>2. Cardinality(Below(p)) <= Cardinality(Below(q)) /\ (Cardinality(Below(p)) = Cardinality(Below(q)) => Below(p) = Below(q))
        BY <1>2, <3>1, FS_Subset
      <3> QED BY <1>1, <1>2, <3>1, <3>2
    <2> QED BY <2>1
  <1>5. PICK k : k = Cardinality(Below(p))
    OBVIOUS
  <1>6. k \in Nat /\ k + 1 \in 1..Cardinality(S) /\ Place(S, p) = k + 1
    BY <1>2, <1>5 DEF Place
  <1>7. \A q \in S : Cardinality({x \in S : x < q}) = k <=> q = p
    BY <1>2, <1>3, <1>4, <1>5
  <1>8. InIdOrder(S)[k + 1] = CHOOSE q \in S : Cardinality({x \in S : x < q}) = (k + 1) - 1
    BY <1>6 DEF InIdOrder
  <1>9. (k + 1) - 1 = k
    BY <1>6
  <1> HIDE DEF Below
  <1>10. InIdOrder(S)[k + 1] = p
    BY <1>7, <1>8, <1>9
  <1> QED BY <1>6, <1>10

LEMMA GoodsThree ==
    ASSUME NEW S, NEW a \in Seq(S), NEW m \in Seq(S), NEW z \in Seq(S)
    PROVE  /\ (a \o m) \o z \in Seq(S) /\ Len((a \o m) \o z) = Len(a) + Len(m) + Len(z)
           /\ Len(a) \in Nat /\ Len(m) \in Nat /\ Len(z) \in Nat
           /\ \A i \in 1..Len(a) : ((a \o m) \o z)[i] = a[i]
           /\ \A i \in 1..Len(m) : ((a \o m) \o z)[Len(a) + i] = m[i]
           /\ \A i \in 1..Len(z) : ((a \o m) \o z)[Len(a) + Len(m) + i] = z[i]
  <1>1. PICK am : am = a \o m
    OBVIOUS
  <1>2. Len(a) \in Nat /\ Len(m) \in Nat /\ Len(z) \in Nat
    BY LenProperties
  <1>3. am \in Seq(S) /\ Len(am) = Len(a) + Len(m)
    BY <1>1, LadderAfterHead
  <1>4. \A i \in 1..Len(a) : am[i] = a[i]
    BY <1>1, LadderAfterHead
  <1>5. \A i \in 1..Len(m) : am[Len(a) + i] = m[i]
    BY <1>1, LadderAfterHead
  <1>6. am \o z \in Seq(S) /\ Len(am \o z) = Len(am) + Len(z)
    BY <1>3, LadderAfterHead
  <1>7. \A i \in 1..Len(am) : (am \o z)[i] = am[i]
    BY <1>3, LadderAfterHead
  <1>8. \A i \in 1..Len(z) : (am \o z)[Len(am) + i] = z[i]
    BY <1>3, LadderAfterHead
  <1>9. \A i \in 1..Len(a) : (am \o z)[i] = a[i]
    BY <1>2, <1>3, <1>4, <1>7
  <1>10. \A i \in 1..Len(m) : (am \o z)[Len(a) + i] = m[i]
    <2>1. ASSUME NEW i \in 1..Len(m) PROVE (am \o z)[Len(a) + i] = m[i]
      <3>1. Len(a) + i \in 1..Len(am)
        BY <1>2, <1>3
      <3> QED BY <1>5, <1>7, <3>1
    <2> QED BY <2>1
  <1> QED BY <1>1, <1>2, <1>3, <1>6, <1>8, <1>9, <1>10

(* The statements that the proofs rely on. *)
StepsKnown(r) ==
    /\ Brings(r) => StepsOf(r)[QueuedAt(r)] = Lock(Queue(r)) /\ QueuedAt(r) \in Nat \ {0}
    /\ \A i \in 1..StepsLength(r) : MayInsert(StepsOf(r)[i]) => Brings(r) /\ i > QueuedAt(r)
    /\ Kind(r) = "claim" =>
          /\ StepsOf(r)[1] = Lock(Job)
          /\ \A i \in 1..StepsLength(r) : IF i = StepsLength(r) THEN StepsOf(r)[i] = Grant ELSE ~MayInsert(StepsOf(r)[i])
    /\ Kind(r) = "start" => StepsOf(r)[StepsLength(r)] = <<"idle", Job>>
    /\ Kind(r) \in {"enhance", "refine", "keep", "discard"} => StepsOf(r)[1] = Lock(Row(ThePiece(r)))
    /\ Kind(r) = "dismantle" =>
          /\ \A p \in Named(r) : StepsOf(r)[Place(Named(r), p)] = Lock(Row(p))
          /\ StepsOf(r)[Cardinality(Named(r)) + 1] = Read("unworn")
    /\ Kind(r) \in {"equip", "unequip", "explore", "collect"} => StepsOf(r)[1] = Lock(Roster)
    /\ Kind(r) = "equip" => StepsOf(r)[2] = Lock(Row(ThePiece(r)))

(* Most requests never insert anything. *)
LEMMA GoodsQuietSteps ==
    ASSUME NEW r, NEW S, StepsOf(r) \in Seq(S), \A x \in S : ~MayInsert(x), Len(StepsOf(r)) = StepsLength(r)
    PROVE  \A i \in 1..StepsLength(r) : ~MayInsert(StepsOf(r)[i])
  <1>1. \A i \in 1..Len(StepsOf(r)) : StepsOf(r)[i] \in S
    BY ElementOfSeq
  <1> QED BY <1>1

LEMMA GoodsTick ==
    ASSUME plan \in Plans, NEW r \in DOMAIN plan
    PROVE  TickLiving(r) \in Seq({Lock(Roster), Lock(Wallet)}) /\ Len(TickLiving(r)) = TickLength(r) /\ TickLength(r) \in 1..2
           /\ TickLiving(r)[1] = Lock(Roster)
  <1>3. PICK a, b : a = Lock(Roster) /\ b = Lock(Wallet)
    OBVIOUS
  <1>4. <<a, b>> \in Seq({a, b}) /\ <<a>> \in Seq({a, b}) /\ Len(<<a, b>>) = 2 /\ Len(<<a>>) = 1 /\ <<a, b>>[1] = a /\ <<a>>[1] = a
    OBVIOUS
  <1>1. CASE Flag(r) /\ Kind(r) # "equip"
    <2>1. TickLiving(r) = <<a, b>> /\ TickLength(r) = 2
      BY <1>1, <1>3 DEF TickLiving, TickLength
    <2> QED BY <1>3, <1>4, <2>1
  <1>2. CASE ~(Flag(r) /\ Kind(r) # "equip")
    <2>1. TickLiving(r) = <<a>> /\ TickLength(r) = 1
      BY <1>2, <1>3 DEF TickLiving, TickLength
    <2> QED BY <1>3, <1>4, <2>1
  <1> QED BY <1>1, <1>2

LEMMA GoodsStepsSale ==
    ASSUME plan \in Plans, NEW r \in DOMAIN plan, Kind(r) \in {"box", "shop", "exchange", "costume", "skip", "keep", "discard", "refine", "equip"}
    PROVE  Len(StepsOf(r)) = StepsLength(r) /\ StepsKnown(r)
  <1>1. CASE Kind(r) = "box"
    BY <1>1 DEF StepsOf, StepsLength, StepsKnown, Brings, QueuedAt, Queue, MayInsert, Read, Lock, Grant
  <1>2. CASE Kind(r) = "shop"
    BY <1>2 DEF StepsOf, StepsLength, StepsKnown, Brings, QueuedAt, Queue, MayInsert, Read, Lock, Grant
  <1>3. CASE Kind(r) = "exchange"
    BY <1>3 DEF StepsOf, StepsLength, StepsKnown, Brings, QueuedAt, Queue, MayInsert, Read, Lock, Grant
  <1>4. CASE Kind(r) = "costume"
    BY <1>4 DEF StepsOf, StepsLength, StepsKnown, Brings, QueuedAt, Queue, MayInsert, Read, Lock, Grant
  <1>5. CASE Kind(r) = "skip"
    BY <1>5 DEF StepsOf, StepsLength, StepsKnown, Brings, QueuedAt, Queue, MayInsert, Read, Lock, Grant
  <1>6. CASE Kind(r) = "keep"
    BY <1>6 DEF StepsOf, StepsLength, StepsKnown, Brings, QueuedAt, Queue, MayInsert, Read, Lock, Grant
  <1>7. CASE Kind(r) = "discard"
    BY <1>7 DEF StepsOf, StepsLength, StepsKnown, Brings, QueuedAt, Queue, MayInsert, Read, Lock, Grant
  <1>8. CASE Kind(r) = "refine"
    BY <1>8 DEF StepsOf, StepsLength, StepsKnown, Brings, QueuedAt, Queue, MayInsert, Read, Lock, Grant
  <1>9. CASE Kind(r) = "equip"
    BY <1>9 DEF StepsOf, StepsLength, StepsKnown, Brings, QueuedAt, Queue, MayInsert, Read, Lock, Grant
  <1> QED BY <1>1, <1>2, <1>3, <1>4, <1>5, <1>6, <1>7, <1>8, <1>9

LEMMA GoodsStepsStart ==
    ASSUME plan \in Plans, NEW r \in DOMAIN plan, Kind(r) = "start"
    PROVE  Len(StepsOf(r)) = StepsLength(r) /\ StepsKnown(r)
  <1>1. PICK a : a = <<Read("idle"), Read("afford"), Lock(Wallet)>>
    OBVIOUS
  <1>2. PICK m : m = LocksOf(RecipeNeeds(r))
    OBVIOUS
  <1>3. PICK z : z = << <<"idle", Job>> >>
    OBVIOUS
  <1>4. PICK S : S = {Read("idle"), Read("afford"), Lock(Wallet), Lock(Item("essence")), Lock(Item("catalyst")), <<"idle", Job>>}
    OBVIOUS
  <1>5. a \in Seq(S) /\ Len(a) = 3
    BY <1>1, <1>4
  <1>6. z \in Seq(S) /\ Len(z) = 1 /\ z[1] = <<"idle", Job>>
    BY <1>3, <1>4
  <1>7. m \in Seq(S) /\ Len(m) = (IF Flag(r) THEN 2 ELSE 1)
    <2>1. CASE Flag(r)
      <3>1. PICK n : n = <<"essence", "catalyst">>
        OBVIOUS
      <3>2. DOMAIN n = 1..2 /\ n[1] = "essence" /\ n[2] = "catalyst"
        BY <3>1
      <3>3. m = [i \in 1..2 |-> Lock(Item(n[i]))]
        BY <1>2, <2>1, <3>1, <3>2 DEF LocksOf, RecipeNeeds
      <3>4. m = <<Lock(Item("essence")), Lock(Item("catalyst"))>>
        BY <3>2, <3>3
      <3> QED BY <1>4, <2>1, <3>4
    <2>2. CASE ~Flag(r)
      <3>1. PICK n : n = <<"essence">>
        OBVIOUS
      <3>2. DOMAIN n = 1..1 /\ n[1] = "essence"
        BY <3>1
      <3>3. m = [i \in 1..1 |-> Lock(Item(n[i]))]
        BY <1>2, <2>2, <3>1, <3>2 DEF LocksOf, RecipeNeeds
      <3>4. m = <<Lock(Item("essence"))>>
        BY <3>2, <3>3
      <3> QED BY <1>4, <2>2, <3>4
    <2> QED BY <2>1, <2>2
  <1>8. StepsOf(r) = (a \o m) \o z
    BY <1>1, <1>2, <1>3 DEF StepsOf
  <1>0. a \in Seq(S) /\ m \in Seq(S) /\ z \in Seq(S)
    BY <1>5, <1>6, <1>7
  <1>9. Len((a \o m) \o z) = Len(a) + Len(m) + Len(z) /\ Len(m) \in Nat
    BY <1>0, GoodsThree
  <1>10. \A i \in 1..Len(z) : ((a \o m) \o z)[Len(a) + Len(m) + i] = z[i]
    BY <1>0, GoodsThree
  <1>11. Len(StepsOf(r)) = 3 + Len(m) + 1 /\ StepsOf(r)[3 + Len(m) + 1] = <<"idle", Job>>
    BY <1>5, <1>6, <1>8, <1>9, <1>10
  <1>12. StepsLength(r) = 3 + Len(m) + 1
    BY <1>7 DEF StepsLength
  <1>13. Len(StepsOf(r)) = StepsLength(r) /\ StepsOf(r)[StepsLength(r)] = <<"idle", Job>>
    BY <1>11, <1>12
  <1>14. StepsOf(r) \in Seq(S)
    BY <1>0, <1>8, GoodsThree
  <1>15. \A x \in S : ~MayInsert(x)
    BY <1>4 DEF MayInsert, Read, Lock
  <1>16. \A i \in 1..StepsLength(r) : ~MayInsert(StepsOf(r)[i])
    BY <1>13, <1>14, <1>15, GoodsQuietSteps
  <1> QED BY <1>13, <1>16 DEF StepsKnown, Brings

LEMMA GoodsStepsClaim ==
    ASSUME plan \in Plans, NEW r \in DOMAIN plan, Kind(r) = "claim"
    PROVE  Len(StepsOf(r)) = StepsLength(r) /\ StepsKnown(r)
  <1>1. PICK a : a = <<Lock(Job), Read("finished"), Read("room")>>
    OBVIOUS
  <1>2. PICK m : m = IF job.catalyst THEN <<Lock(Pity)>> ELSE <<>>
    OBVIOUS
  <1>3. PICK z : z = <<Grant>>
    OBVIOUS
  <1>4. PICK S : S = {Lock(Job), Read("finished"), Read("room"), Lock(Pity), Grant}
    OBVIOUS
  <1>5. a \in Seq(S) /\ Len(a) = 3 /\ a[1] = Lock(Job)
    BY <1>1, <1>4
  <1>6. z \in Seq(S) /\ Len(z) = 1 /\ z[1] = Grant
    BY <1>3, <1>4
  <1>7. m \in Seq(S) /\ Len(m) = (IF job.catalyst THEN 1 ELSE 0)
    <2>1. CASE job.catalyst
      BY <1>2, <1>4, <2>1
    <2>2. CASE ~job.catalyst
      BY <1>2, <1>4, <2>2
    <2> QED BY <2>1, <2>2
  <1>8. StepsOf(r) = (a \o m) \o z
    BY <1>1, <1>2, <1>3 DEF StepsOf
  <1>0. a \in Seq(S) /\ m \in Seq(S) /\ z \in Seq(S)
    BY <1>5, <1>6, <1>7
  <1>9. Len((a \o m) \o z) = Len(a) + Len(m) + Len(z) /\ Len(m) \in Nat
    BY <1>0, GoodsThree
  <1>10. \A i \in 1..Len(z) : ((a \o m) \o z)[Len(a) + Len(m) + i] = z[i]
    BY <1>0, GoodsThree
  <1>11. \A i \in 1..Len(a) : ((a \o m) \o z)[i] = a[i]
    BY <1>0, GoodsThree
  <1>12. Len(StepsOf(r)) = 3 + Len(m) + 1 /\ StepsOf(r)[3 + Len(m) + 1] = Grant /\ StepsOf(r)[1] = Lock(Job)
    BY <1>5, <1>6, <1>8, <1>9, <1>10, <1>11
  <1>13. StepsLength(r) = 3 + Len(m) + 1
    BY <1>7 DEF StepsLength
  <1>14. Len(StepsOf(r)) = StepsLength(r) /\ StepsOf(r)[StepsLength(r)] = Grant
    BY <1>12, <1>13
  <1>15. \A i \in 1..StepsLength(r) : i # StepsLength(r) => ~MayInsert(StepsOf(r)[i])
    <2>1. PICK Q : Q = {Lock(Job), Read("finished"), Read("room"), Lock(Pity)}
      OBVIOUS
    <2>2. a \in Seq(Q) /\ m \in Seq(Q)
      <3>1. <<Lock(Job), Read("finished"), Read("room")>> \in Seq(Q) /\ <<Lock(Pity)>> \in Seq(Q) /\ <<>> \in Seq(Q)
        BY <2>1
      <3> QED BY <1>1, <1>2, <3>1
    <2>3. a \o m \in Seq(Q) /\ Len(a \o m) = Len(a) + Len(m)
      BY <2>2, LadderAfterHead
    <2>4. \A i \in 1..Len(a \o m) : (a \o m)[i] \in Q
      BY <2>3, ElementOfSeq
    <2>5. \A i \in 1..Len(a \o m) : ((a \o m) \o z)[i] = (a \o m)[i]
      <3>1. a \o m \in Seq(S)
        BY <1>0, LadderAfterHead
      <3> QED BY <1>0, <3>1, LadderAfterHead
    <2>6. \A x \in Q : ~MayInsert(x)
      BY <2>1 DEF MayInsert, Read, Lock
    <2>7. \A i \in 1..StepsLength(r) : i # StepsLength(r) => i \in 1..Len(a \o m)
      BY <1>5, <1>9, <1>13, <2>3
    <2> QED BY <1>8, <2>4, <2>5, <2>6, <2>7
  <1>16. Brings(r) /\ QueuedAt(r) = 1 /\ Queue(r) = Job /\ StepsLength(r) > 1
    BY <1>9, <1>13 DEF Brings, QueuedAt, Queue
  <1> QED BY <1>12, <1>14, <1>15, <1>16 DEF StepsKnown

LEMMA GoodsStepsEnhance ==
    ASSUME plan \in Plans, NEW r \in DOMAIN plan, Kind(r) = "enhance"
    PROVE  Len(StepsOf(r)) = StepsLength(r) /\ StepsKnown(r)
  <1>1. PICK a : a = <<Lock(Row(ThePiece(r))), Lock(Wallet), Lock(Item("stone"))>>
    OBVIOUS
  <1>2. PICK m : m = IF Flag(r) THEN <<Lock(Item("scroll"))>> ELSE <<>>
    OBVIOUS
  <1>3. PICK S : S = {Lock(Row(ThePiece(r))), Lock(Wallet), Lock(Item("stone")), Lock(Item("scroll"))}
    OBVIOUS
  <1>4. a \in Seq(S) /\ Len(a) = 3 /\ a[1] = Lock(Row(ThePiece(r)))
    BY <1>1, <1>3
  <1>5. m \in Seq(S) /\ Len(m) = (IF Flag(r) THEN 1 ELSE 0)
    <2>1. CASE Flag(r)
      BY <1>2, <1>3, <2>1
    <2>2. CASE ~Flag(r)
      BY <1>2, <1>3, <2>2
    <2> QED BY <2>1, <2>2
  <1>6. StepsOf(r) = a \o m
    BY <1>1, <1>2 DEF StepsOf
  <1>7. Len(a \o m) = Len(a) + Len(m)
    BY <1>4, <1>5, LadderAfterHead
  <1>8. \A i \in 1..Len(a) : (a \o m)[i] = a[i]
    BY <1>4, <1>5, LadderAfterHead
  <1>9. Len(StepsOf(r)) = 3 + (IF Flag(r) THEN 1 ELSE 0) /\ StepsOf(r)[1] = Lock(Row(ThePiece(r)))
    BY <1>4, <1>5, <1>6, <1>7, <1>8
  <1>10. StepsLength(r) = 3 + (IF Flag(r) THEN 1 ELSE 0)
    BY DEF StepsLength
  <1>11. StepsOf(r) \in Seq(S)
    BY <1>4, <1>5, <1>6, LadderAfterHead
  <1>12. \A x \in S : ~MayInsert(x)
    BY <1>3 DEF MayInsert, Lock
  <1>13. \A i \in 1..StepsLength(r) : ~MayInsert(StepsOf(r)[i])
    BY <1>9, <1>10, <1>11, <1>12, GoodsQuietSteps
  <1> QED BY <1>9, <1>10, <1>13 DEF StepsKnown, Brings

(* A list of rows is a sequence. *)
LEMMA GoodsList ==
    ASSUME NEW S, NEW n \in Nat, NEW f \in [1..n -> S]
    PROVE  f \in Seq(S) /\ Len(f) = n
  <1>1. f \in Seq(S)
    BY SeqDef
  <1>2. DOMAIN f = 1..n /\ DOMAIN f = 1..Len(f) /\ Len(f) \in Nat
    BY <1>1, LenProperties
  <1> QED BY <1>1, <1>2

LEMMA GoodsStepsDismantle ==
    ASSUME plan \in Plans, NEW r \in DOMAIN plan, Kind(r) = "dismantle"
    PROVE  Len(StepsOf(r)) = StepsLength(r) /\ StepsKnown(r)
  <1>1. PICK N, n : N = Named(r) /\ n = Cardinality(Named(r))
    OBVIOUS
  <1>2. N \in SUBSET Nat /\ IsFiniteSet(N) /\ n \in Nat /\ n = Cardinality(N)
    BY <1>1, GoodsRequests
  <1>3. PICK a, m, g : /\ a = LockRows(N) /\ m = <<Read("unworn")>>
                       /\ g = [i \in 1..n |-> <<"gain", Item(RefineStone(InIdOrder(N)[i]))>>]
    OBVIOUS
  <1>4. PICK h : h = << <<"gain", Item("stone")>> >>
    OBVIOUS
  <1>5. PICK S : S = {Read("unworn"), <<"gain", Item("stone")>>} \cup {a[i] : i \in 1..n} \cup {g[i] : i \in 1..n}
    OBVIOUS
  <1>6. a \in [1..n -> S] /\ \A i \in 1..n : a[i] = Lock(Row(InIdOrder(N)[i]))
    <2>1. a = [i \in 1..n |-> Lock(Row(InIdOrder(N)[i]))]
      BY <1>2, <1>3 DEF LockRows
    <2>2. \A i \in 1..n : a[i] \in S
      BY <1>5
    <2> QED BY <2>1, <2>2
  <1>7. g \in [1..n -> S]
    <2>1. \A i \in 1..n : g[i] \in S
      BY <1>5
    <2> QED BY <1>3, <2>1
  <1>8. a \in Seq(S) /\ Len(a) = n
    BY <1>2, <1>6, GoodsList
  <1>9. g \in Seq(S) /\ Len(g) = n
    BY <1>2, <1>7, GoodsList
  <1>10. m \in Seq(S) /\ Len(m) = 1 /\ m[1] = Read("unworn")
    BY <1>3, <1>5
  <1>11. h \in Seq(S) /\ Len(h) = 1
    BY <1>4, <1>5
  <1>12. PICK z : z = h \o g
    OBVIOUS
  <1>13. z \in Seq(S) /\ Len(z) = n + 1
    <2>1. h \o g \in Seq(S) /\ Len(h \o g) = Len(h) + Len(g)
      BY <1>9, <1>11, LadderAfterHead
    <2> QED BY <1>2, <1>9, <1>11, <1>12, <2>1
  <1>14. StepsOf(r) = (a \o m) \o z
    <2>1. GainRows(N) = z
      BY <1>2, <1>3, <1>4, <1>12 DEF GainRows
    <2> QED BY <1>1, <1>3, <2>1 DEF StepsOf
  <1>0. a \in Seq(S) /\ m \in Seq(S) /\ z \in Seq(S)
    BY <1>8, <1>10, <1>13
  <1>15. Len((a \o m) \o z) = Len(a) + Len(m) + Len(z)
    BY <1>0, GoodsThree
  <1>16. \A i \in 1..Len(a) : ((a \o m) \o z)[i] = a[i]
    BY <1>0, GoodsThree
  <1>17. \A i \in 1..Len(m) : ((a \o m) \o z)[Len(a) + i] = m[i]
    BY <1>0, GoodsThree
  <1>18. Len(StepsOf(r)) = 2 * n + 2
    BY <1>2, <1>8, <1>10, <1>13, <1>14, <1>15
  <1>19. StepsOf(r)[n + 1] = Read("unworn")
    <2>1. 1 \in 1..Len(m) /\ Len(a) + 1 = n + 1
      BY <1>2, <1>8, <1>10
    <2>2. ((a \o m) \o z)[Len(a) + 1] = m[1]
      BY <1>17, <2>1
    <2> QED BY <1>10, <1>14, <2>1, <2>2
  <1>20. \A p \in N : StepsOf(r)[Place(N, p)] = Lock(Row(p))
    <2>1. ASSUME NEW p \in N PROVE StepsOf(r)[Place(N, p)] = Lock(Row(p))
      <3>1. Place(N, p) \in 1..n /\ InIdOrder(N)[Place(N, p)] = p
        BY <1>2, GoodsPlace
      <3> QED BY <1>6, <1>8, <1>14, <1>16, <3>1
    <2> QED BY <2>1
  <1>21. StepsLength(r) = 2 * n + 2
    BY <1>1 DEF StepsLength
  <1>22. /\ Len(StepsOf(r)) = StepsLength(r) /\ StepsOf(r)[Cardinality(Named(r)) + 1] = Read("unworn")
         /\ \A p \in Named(r) : StepsOf(r)[Place(Named(r), p)] = Lock(Row(p))
    BY <1>1, <1>18, <1>19, <1>20, <1>21
  <1>23. StepsOf(r) \in Seq(S)
    BY <1>0, <1>14, GoodsThree
  <1>24. \A x \in S : ~MayInsert(x)
    <2>1. \A i \in 1..n : a[i][1] = "lock" /\ g[i][1] = "gain"
      BY <1>3, <1>6 DEF Lock
    <2> QED BY <1>5, <2>1 DEF MayInsert, Read
  <1>25. \A i \in 1..StepsLength(r) : ~MayInsert(StepsOf(r)[i])
    BY <1>22, <1>23, <1>24, GoodsQuietSteps
  <1> QED BY <1>22, <1>25 DEF StepsKnown, Brings

LEMMA GoodsStepsTick ==
    ASSUME plan \in Plans, NEW r \in DOMAIN plan, Kind(r) \in {"unequip", "collect", "use", "explore"}
    PROVE  Len(StepsOf(r)) = StepsLength(r) /\ StepsKnown(r)
  <1>1. PICK h : h = TickLiving(r)
    OBVIOUS
  <1>2. PICK x : x = <<"free", SlotRow(r)>>
    OBVIOUS
  <1>3. PICK S : S = {Lock(Roster), Lock(Wallet), x, <<"gain", Item("meat")>>, Lock(Item("meat"))}
    OBVIOUS
  <1>4. h \in Seq(S) /\ Len(h) = TickLength(r) /\ TickLength(r) \in 1..2 /\ h[1] = Lock(Roster)
    <2>1. h \in Seq({Lock(Roster), Lock(Wallet)}) /\ Len(h) = TickLength(r) /\ TickLength(r) \in 1..2 /\ h[1] = Lock(Roster)
      BY <1>1, GoodsTick
    <2>2. {Lock(Roster), Lock(Wallet)} \subseteq S
      BY <1>3
    <2> QED BY <2>1, <2>2, SeqMonotonic
  <1>10. \A y \in S : ~MayInsert(y)
    BY <1>2, <1>3 DEF MayInsert, Lock
  <1>5. CASE Kind(r) = "explore"
    <2>1. StepsOf(r) = h /\ StepsLength(r) = TickLength(r)
      BY <1>1, <1>5 DEF StepsOf, StepsLength
    <2>2. \A i \in 1..StepsLength(r) : ~MayInsert(StepsOf(r)[i])
      BY <1>4, <1>10, <2>1, GoodsQuietSteps
    <2> QED BY <1>4, <1>5, <2>1, <2>2 DEF StepsKnown, Brings
  <1>6. ASSUME NEW m \in Seq(S), Len(m) \in 1..2, StepsOf(r) = h \o m
        PROVE  /\ Len(StepsOf(r)) = TickLength(r) + Len(m) /\ StepsOf(r)[1] = Lock(Roster)
               /\ StepsOf(r) \in Seq(S)
    <2>1. Len(h \o m) = Len(h) + Len(m)
      BY <1>4, <1>6, LadderAfterHead
    <2>2. \A i \in 1..Len(h) : (h \o m)[i] = h[i]
      BY <1>4, <1>6, LadderAfterHead
    <2>3. h \o m \in Seq(S)
      BY <1>4, <1>6, LadderAfterHead
    <2> QED BY <1>4, <1>6, <2>1, <2>2, <2>3
  <1>7. CASE Kind(r) = "unequip"
    <2>1. PICK m : m = <<x>>
      OBVIOUS
    <2>2. m \in Seq(S) /\ Len(m) = 1
      BY <1>3, <2>1
    <2>3. StepsOf(r) = h \o m /\ StepsLength(r) = TickLength(r) + 1
      BY <1>1, <1>2, <1>7, <2>1 DEF StepsOf, StepsLength
    <2>5. m \in Seq(S) /\ Len(m) \in 1..2 /\ StepsOf(r) = h \o m
      BY <2>2, <2>3
    <2>6. Len(StepsOf(r)) = TickLength(r) + Len(m) /\ StepsOf(r)[1] = Lock(Roster) /\ StepsOf(r) \in Seq(S)
      BY <1>6, <2>5
    <2>4. Len(StepsOf(r)) = StepsLength(r) /\ StepsOf(r)[1] = Lock(Roster)
      BY <2>2, <2>3, <2>6
    <2>7. \A i \in 1..StepsLength(r) : ~MayInsert(StepsOf(r)[i])
      BY <1>10, <2>4, <2>6, GoodsQuietSteps
    <2> QED BY <1>7, <2>4, <2>7 DEF StepsKnown, Brings
  <1>8. CASE Kind(r) = "collect"
    <2>1. PICK m : m = <<Lock(Wallet), <<"gain", Item("meat")>> >>
      OBVIOUS
    <2>2. m \in Seq(S) /\ Len(m) = 2
      BY <1>3, <2>1
    <2>3. StepsOf(r) = h \o m /\ StepsLength(r) = TickLength(r) + 2
      BY <1>1, <1>8, <2>1 DEF StepsOf, StepsLength
    <2>5. m \in Seq(S) /\ Len(m) \in 1..2 /\ StepsOf(r) = h \o m
      BY <2>2, <2>3
    <2>6. Len(StepsOf(r)) = TickLength(r) + Len(m) /\ StepsOf(r)[1] = Lock(Roster) /\ StepsOf(r) \in Seq(S)
      BY <1>6, <2>5
    <2>4. Len(StepsOf(r)) = StepsLength(r) /\ StepsOf(r)[1] = Lock(Roster)
      BY <2>2, <2>3, <2>6
    <2>7. \A i \in 1..StepsLength(r) : ~MayInsert(StepsOf(r)[i])
      BY <1>10, <2>4, <2>6, GoodsQuietSteps
    <2> QED BY <1>8, <2>4, <2>7 DEF StepsKnown, Brings
  <1>9. CASE Kind(r) = "use"
    <2>1. PICK m : m = <<Lock(Item("meat"))>>
      OBVIOUS
    <2>2. m \in Seq(S) /\ Len(m) = 1
      BY <1>3, <2>1
    <2>3. StepsOf(r) = h \o m /\ StepsLength(r) = TickLength(r) + 1
      BY <1>1, <1>9, <2>1 DEF StepsOf, StepsLength
    <2>5. m \in Seq(S) /\ Len(m) \in 1..2 /\ StepsOf(r) = h \o m
      BY <2>2, <2>3
    <2>6. Len(StepsOf(r)) = TickLength(r) + Len(m) /\ StepsOf(r)[1] = Lock(Roster) /\ StepsOf(r) \in Seq(S)
      BY <1>6, <2>5
    <2>4. Len(StepsOf(r)) = StepsLength(r) /\ StepsOf(r)[1] = Lock(Roster)
      BY <2>2, <2>3, <2>6
    <2>7. \A i \in 1..StepsLength(r) : ~MayInsert(StepsOf(r)[i])
      BY <1>10, <2>4, <2>6, GoodsQuietSteps
    <2> QED BY <1>9, <2>4, <2>7 DEF StepsKnown, Brings
  <1> QED BY <1>5, <1>7, <1>8, <1>9

(* The tokens and the materials that a fight or a reward pays. *)
LEMMA GoodsPrizes ==
    ASSUME plan \in Plans, NEW r \in DOMAIN plan
    PROVE  \E S : /\ \A x \in S : ~MayInsert(x)
                 /\ GainsOf(Gains(r)) \in Seq(S) /\ Len(GainsOf(Gains(r))) = Len(Gains(r))
                 /\ Prizes(r) \in Seq(S) /\ Len(Prizes(r)) = Len(Gains(r)) + 2 /\ Prizes(r)[1] = Lock(Wallet)
                 /\ Lock(Roster) \in S /\ Lock(Wallet) \in S /\ Lock(Damage) \in S /\ Read("room") \in S
  <1>1. PICK n : n = Len(Gains(r))
    OBVIOUS
  <1>2. n \in Nat /\ DOMAIN Gains(r) = 1..n
    BY <1>1, GoodsRequests, LenProperties
  <1>3. PICK g : g = GainsOf(Gains(r))
    OBVIOUS
  <1>4. PICK b, c : b = Lock(Wallet) /\ c = <<"gain", Item(Token(r))>>
    OBVIOUS
  <1>5. PICK S : S = {Lock(Roster), b, c, Lock(Damage), Read("room")} \cup {g[i] : i \in 1..n}
    OBVIOUS
  <1>6. g = [i \in 1..n |-> <<"gain", Item(Gains(r)[i])>>]
    BY <1>2, <1>3 DEF GainsOf
  <1>7. g \in [1..n -> S]
    <2>1. \A i \in 1..n : g[i] \in S
      BY <1>5
    <2> QED BY <1>6, <2>1
  <1>8. g \in Seq(S) /\ Len(g) = n
    BY <1>2, <1>7, GoodsList
  <1>9. \A x \in S : ~MayInsert(x)
    <2>1. \A i \in 1..n : g[i][1] = "gain"
      BY <1>6
    <2>2. b[1] = "lock" /\ c[1] = "gain" /\ Lock(Roster)[1] = "lock" /\ Lock(Damage)[1] = "lock" /\ Read("room")[1] = "room"
      BY <1>4 DEF Lock, Read
    <2> QED BY <1>5, <2>1, <2>2 DEF MayInsert
  <1>10. <<b, c>> \in Seq(S) /\ Len(<<b, c>>) = 2 /\ <<b, c>>[1] = b
    BY <1>5
  <1>11. Prizes(r) = <<b, c>> \o g
    BY <1>3, <1>4 DEF Prizes
  <1>12. <<b, c>> \o g \in Seq(S) /\ Len(<<b, c>> \o g) = Len(<<b, c>>) + Len(g) /\ \A i \in 1..2 : (<<b, c>> \o g)[i] = <<b, c>>[i]
    BY <1>8, <1>10, LadderAfterHead
  <1>13. Prizes(r) \in Seq(S) /\ Len(Prizes(r)) = Len(Gains(r)) + 2 /\ Prizes(r)[1] = Lock(Wallet)
    <2>1. Prizes(r)[1] = b
      BY <1>10, <1>11, <1>12
    <2>2. Len(Prizes(r)) = n + 2
      BY <1>2, <1>8, <1>10, <1>11, <1>12
    <2> QED BY <1>1, <1>4, <1>11, <1>12, <2>1, <2>2
  <1>14. Lock(Roster) \in S /\ Lock(Wallet) \in S /\ Lock(Damage) \in S /\ Read("room") \in S
    BY <1>4, <1>5
  <1> QED BY <1>1, <1>3, <1>8, <1>9, <1>13, <1>14

(* Statements that insert nothing, then the prizes, then the piece.         *)
Quiet(S) == \A x \in S : ~MayInsert(x)
PieceOrNot(z) == z = <<Award>> \/ z = <<>>
AwardSteps(a, m, z) ==
    /\ Len((a \o m) \o z) = Len(a) + Len(m) + Len(z) /\ Len(z) = (IF z = <<>> THEN 0 ELSE 1)
    /\ ((a \o m) \o z)[Len(a) + 1] = Lock(Wallet)
    /\ \A i \in 1..(Len(a) + Len(m)) : ~MayInsert(((a \o m) \o z)[i])
StartsPrizes(m) == m[1] = Lock(Wallet) /\ Len(m) \in Nat \ {0}
LEMMA GoodsAwards ==
    ASSUME NEW S, Quiet(S),
           NEW a \in Seq(S), NEW m \in Seq(S), StartsPrizes(m), NEW z, PieceOrNot(z)
    PROVE  AwardSteps(a, m, z)
  <1>1. PICK Q : Q = S \cup {Award}
    OBVIOUS
  <1>2. a \in Seq(Q) /\ m \in Seq(Q)
    BY <1>1, SeqMonotonic
  <1>3. z \in Seq(Q) /\ Len(z) = (IF z = <<>> THEN 0 ELSE 1)
    <2>1. <<Award>> \in Seq(Q) /\ Len(<<Award>>) = 1 /\ <<>> \in Seq(Q) /\ Len(<<>>) = 0 /\ <<Award>> # <<>>
      BY <1>1
    <2>2. PICK w, e : w = <<Award>> /\ e = <<>>
      OBVIOUS
    <2>3. w \in Seq(Q) /\ Len(w) = 1 /\ e \in Seq(Q) /\ Len(e) = 0 /\ w # e
      BY <2>1, <2>2
    <2>4. z = w \/ z = e
      BY <2>2 DEF PieceOrNot
    <2>5. z \in Seq(Q) /\ Len(z) = (IF z = e THEN 0 ELSE 1)
      BY <2>3, <2>4
    <2> QED BY <2>2, <2>5
  <1>8. a \in Seq(Q) /\ m \in Seq(Q) /\ z \in Seq(Q)
    BY <1>2, <1>3
  <1>4. /\ Len((a \o m) \o z) = Len(a) + Len(m) + Len(z) /\ Len(a) \in Nat /\ Len(m) \in Nat
        /\ \A i \in 1..Len(m) : ((a \o m) \o z)[Len(a) + i] = m[i]
        /\ \A i \in 1..Len(a) : ((a \o m) \o z)[i] = a[i]
    <2>1. Len((a \o m) \o z) = Len(a) + Len(m) + Len(z)
      BY <1>8, GoodsThree
    <2>2. Len(a) \in Nat /\ Len(m) \in Nat
      BY <1>8, LenProperties
    <2>3. \A i \in 1..Len(m) : ((a \o m) \o z)[Len(a) + i] = m[i]
      BY <1>8, GoodsThree
    <2>4. \A i \in 1..Len(a) : ((a \o m) \o z)[i] = a[i]
      BY <1>8, GoodsThree
    <2> QED BY <2>1, <2>2, <2>3, <2>4
  <1>5. ((a \o m) \o z)[Len(a) + 1] = Lock(Wallet)
    <2>1. 1 \in 1..Len(m) /\ m[1] = Lock(Wallet)
      BY <1>4 DEF StartsPrizes
    <2> QED BY <1>4, <2>1
  <1>6. (\A i \in 1..Len(a) : a[i] \in S) /\ \A i \in 1..Len(m) : m[i] \in S
    BY ElementOfSeq
  <1>7. ASSUME NEW i \in 1..(Len(a) + Len(m)) PROVE ~MayInsert(((a \o m) \o z)[i])
    <2>1. CASE i <= Len(a)
      <3>1. i \in 1..Len(a)
        BY <1>4, <2>1
      <3> QED BY <1>4, <1>6, <3>1 DEF Quiet
    <2>2. CASE i > Len(a)
      <3>1. PICK j : j = i - Len(a)
        OBVIOUS
      <3>2. j \in 1..Len(m) /\ i = Len(a) + j
        BY <1>4, <2>2, <3>1
      <3> QED BY <1>4, <1>6, <3>2 DEF Quiet
    <2> QED BY <1>4, <2>1, <2>2
  <1> QED BY <1>3, <1>4, <1>5, <1>7 DEF AwardSteps

LEMMA GoodsStepsRaid ==
    ASSUME plan \in Plans, NEW r \in DOMAIN plan, Kind(r) = "raid"
    PROVE  Len(StepsOf(r)) = StepsLength(r) /\ StepsKnown(r)
  <1>1. PICK S : /\ \A x \in S : ~MayInsert(x)
                 /\ Prizes(r) \in Seq(S) /\ Len(Prizes(r)) = Len(Gains(r)) + 2 /\ Prizes(r)[1] = Lock(Wallet)
                 /\ Lock(Roster) \in S /\ Lock(Wallet) \in S /\ Read("room") \in S
    BY GoodsPrizes
  <1>2. PICK h, x, m, z : h = TickLiving(r) /\ x = <<Read("room")>> /\ m = Prizes(r) /\ z = <<Award>>
    OBVIOUS
  <1>3. h \in Seq(S) /\ Len(h) = TickLength(r) /\ TickLength(r) \in 1..2
    <2>1. h \in Seq({Lock(Roster), Lock(Wallet)}) /\ Len(h) = TickLength(r) /\ TickLength(r) \in 1..2
      BY <1>2, GoodsTick
    <2>2. {Lock(Roster), Lock(Wallet)} \subseteq S
      BY <1>1
    <2> QED BY <2>1, <2>2, SeqMonotonic
  <1>4. x \in Seq(S) /\ Len(x) = 1
    BY <1>1, <1>2
  <1>5. PICK a : a = h \o x
    OBVIOUS
  <1>6. a \in Seq(S) /\ Len(a) = TickLength(r) + 1
    BY <1>3, <1>4, <1>5, LadderAfterHead
  <1>7. StepsOf(r) = (a \o m) \o z
    BY <1>2, <1>5 DEF StepsOf
  <1>8. Len(Gains(r)) \in Nat
    BY GoodsRequests
  <1>9. m \in Seq(S) /\ m[1] = Lock(Wallet) /\ Len(m) = Len(Gains(r)) + 2 /\ Len(m) \in Nat \ {0}
    BY <1>1, <1>2, <1>8
  <1>10. /\ Len((a \o m) \o z) = Len(a) + Len(m) + Len(z) /\ Len(z) = (IF z = <<>> THEN 0 ELSE 1)
         /\ ((a \o m) \o z)[Len(a) + 1] = Lock(Wallet)
         /\ \A i \in 1..(Len(a) + Len(m)) : ~MayInsert(((a \o m) \o z)[i])
    <2>1. Quiet(S) /\ PieceOrNot(z) /\ a \in Seq(S)
      BY <1>1, <1>2, <1>6 DEF Quiet, PieceOrNot
    <2>2. m \in Seq(S) /\ StartsPrizes(m)
      BY <1>9 DEF StartsPrizes
    <2>3. AwardSteps(a, m, z)
      BY <2>1, <2>2, GoodsAwards
    <2> QED BY <2>3 DEF AwardSteps
  <1>11. Len(z) = 1
    BY <1>2
  <1>12. QueuedAt(r) = TickLength(r) + 2 /\ StepsLength(r) = TickLength(r) + Len(Gains(r)) + 4 /\ Brings(r) /\ Queue(r) = Wallet
    BY DEF QueuedAt, StepsLength, Brings, Queue
  <1>13. /\ Len(StepsOf(r)) = StepsLength(r) /\ StepsOf(r)[QueuedAt(r)] = Lock(Queue(r))
         /\ QueuedAt(r) \in Nat \ {0}
    <2>1. Len(a) + 1 = QueuedAt(r) /\ QueuedAt(r) \in Nat \ {0}
      BY <1>3, <1>6, <1>12
    <2>2. Len(a) + Len(m) + Len(z) = StepsLength(r)
      BY <1>3, <1>6, <1>8, <1>9, <1>11, <1>12
    <2> QED BY <1>7, <1>10, <1>12, <2>1, <2>2
  <1>14. ASSUME NEW i \in 1..StepsLength(r), MayInsert(StepsOf(r)[i]) PROVE i > QueuedAt(r)
    <2>1. ~(i \in 1..(Len(a) + Len(m)))
      BY <1>7, <1>10, <1>14
    <2> QED BY <1>3, <1>6, <1>8, <1>9, <1>12, <2>1
  <1> QED BY <1>12, <1>13, <1>14 DEF StepsKnown

LEMMA GoodsStepsReward ==
    ASSUME plan \in Plans, NEW r \in DOMAIN plan, Kind(r) = "reward"
    PROVE  Len(StepsOf(r)) = StepsLength(r) /\ StepsKnown(r)
  <1>1. PICK S : /\ \A x \in S : ~MayInsert(x)
                 /\ Prizes(r) \in Seq(S) /\ Len(Prizes(r)) = Len(Gains(r)) + 2 /\ Prizes(r)[1] = Lock(Wallet)
                 /\ Lock(Damage) \in S /\ Read("room") \in S
    BY GoodsPrizes
  <1>2. PICK a, m, z : /\ a = IF Flag(r) THEN <<Lock(Damage), Read("room")>> ELSE <<Lock(Damage)>>
                       /\ m = Prizes(r)
                       /\ z = IF Flag(r) THEN <<Award>> ELSE <<>>
    OBVIOUS
  <1>3. a \in Seq(S) /\ Len(a) = IF Flag(r) THEN 2 ELSE 1
    <2>1. CASE Flag(r)
      BY <1>1, <1>2, <2>1
    <2>2. CASE ~Flag(r)
      BY <1>1, <1>2, <2>2
    <2> QED BY <2>1, <2>2
  <1>4. Len(Gains(r)) \in Nat
    BY GoodsRequests
  <1>5. m \in Seq(S) /\ m[1] = Lock(Wallet) /\ Len(m) = Len(Gains(r)) + 2 /\ Len(m) \in Nat \ {0}
    BY <1>1, <1>2, <1>4
  <1>6. StepsOf(r) = (a \o m) \o z
    <2>1. CASE Flag(r)
      BY <1>2, <2>1 DEF StepsOf
    <2>2. CASE ~Flag(r)
      <3>1. StepsOf(r) = a \o m /\ z = <<>>
        BY <1>2, <2>2 DEF StepsOf
      <3>2. a \o m \in Seq(S)
        BY <1>3, <1>5, LadderAfterHead
      <3>3. (a \o m) \o <<>> = a \o m
        BY <3>2
      <3> QED BY <3>1, <3>3
    <2> QED BY <2>1, <2>2
  <1>7. PieceOrNot(z)
    BY <1>2 DEF PieceOrNot
  <1>8. /\ Len((a \o m) \o z) = Len(a) + Len(m) + Len(z)
        /\ ((a \o m) \o z)[Len(a) + 1] = Lock(Wallet)
        /\ \A i \in 1..(Len(a) + Len(m)) : ~MayInsert(((a \o m) \o z)[i])
    <2>1. Quiet(S) /\ a \in Seq(S)
      BY <1>1, <1>3 DEF Quiet
    <2>2. m \in Seq(S) /\ StartsPrizes(m)
      BY <1>5 DEF StartsPrizes
    <2>3. AwardSteps(a, m, z)
      BY <1>7, <2>1, <2>2, GoodsAwards
    <2> QED BY <2>3 DEF AwardSteps
  <1>9. Len(z) = IF Flag(r) THEN 1 ELSE 0
    <2>1. CASE Flag(r)
      BY <1>2, <2>1
    <2>2. CASE ~Flag(r)
      BY <1>2, <2>2
    <2> QED BY <2>1, <2>2
  <1>10. /\ QueuedAt(r) = (IF Flag(r) THEN 3 ELSE 2) /\ Brings(r) /\ Queue(r) = Wallet
         /\ StepsLength(r) = IF Flag(r) THEN Len(Gains(r)) + 5 ELSE Len(Gains(r)) + 3
    BY DEF QueuedAt, StepsLength, Brings, Queue
  <1>11. /\ Len(StepsOf(r)) = StepsLength(r) /\ StepsOf(r)[QueuedAt(r)] = Lock(Queue(r))
         /\ QueuedAt(r) \in Nat \ {0} /\ QueuedAt(r) = Len(a) + 1
    <2>1. QueuedAt(r) = Len(a) + 1 /\ QueuedAt(r) \in Nat \ {0}
      BY <1>3, <1>10
    <2>2. Len(StepsOf(r)) = StepsLength(r)
      BY <1>3, <1>4, <1>5, <1>6, <1>8, <1>9, <1>10
    <2> QED BY <1>6, <1>8, <1>10, <2>1, <2>2
  <1>12. ASSUME NEW i \in 1..StepsLength(r), MayInsert(StepsOf(r)[i]) PROVE i > QueuedAt(r)
    <2>1. ~(i \in 1..(Len(a) + Len(m)))
      BY <1>6, <1>8, <1>12
    <2> QED BY <1>3, <1>4, <1>5, <1>11, <2>1
  <1> QED BY <1>10, <1>11, <1>12 DEF StepsKnown

LEMMA GoodsStepsHunt ==
    ASSUME plan \in Plans, NEW r \in DOMAIN plan, Kind(r) = "hunt"
    PROVE  Len(StepsOf(r)) = StepsLength(r) /\ StepsKnown(r)
  <1>1. PICK S : /\ \A x \in S : ~MayInsert(x)
                 /\ GainsOf(Gains(r)) \in Seq(S) /\ Len(GainsOf(Gains(r))) = Len(Gains(r))
                 /\ Lock(Roster) \in S /\ Lock(Wallet) \in S
    BY GoodsPrizes
  <1>2. PICK n : n = plan[r].runs
    OBVIOUS
  <1>3. n \in Nat /\ Len(Gains(r)) \in Nat
    BY <1>2, GoodsRequests
  <1>4. PICK h, x, d, z : h = TickLiving(r) /\ x = <<Lock(Wallet)>> /\ d = [i \in 1..n |-> Drop] /\ z = GainsOf(Gains(r))
    OBVIOUS
  <1>5. h \in Seq(S) /\ Len(h) = TickLength(r) /\ TickLength(r) \in 1..2
    <2>1. h \in Seq({Lock(Roster), Lock(Wallet)}) /\ Len(h) = TickLength(r) /\ TickLength(r) \in 1..2
      BY <1>4, GoodsTick
    <2>2. {Lock(Roster), Lock(Wallet)} \subseteq S
      BY <1>1
    <2> QED BY <2>1, <2>2, SeqMonotonic
  <1>6. x \in Seq(S) /\ Len(x) = 1 /\ x[1] = Lock(Wallet)
    BY <1>1, <1>4
  <1>7. PICK a : a = h \o x
    OBVIOUS
  <1>8. a \in Seq(S) /\ Len(a) = TickLength(r) + 1 /\ a[TickLength(r) + 1] = Lock(Wallet)
    <2>3. h \in Seq(S) /\ x \in Seq(S)
      BY <1>5, <1>6
    <2>1. h \o x \in Seq(S) /\ Len(h \o x) = Len(h) + Len(x) /\ \A i \in 1..Len(x) : (h \o x)[Len(h) + i] = x[i]
      BY <2>3, LadderAfterHead
    <2>2. 1 \in 1..Len(x)
      BY <1>6
    <2> QED BY <1>5, <1>6, <1>7, <2>1, <2>2
  <1>9. PICK Q : Q = S \cup {Drop}
    OBVIOUS
  <1>10. a \in Seq(Q) /\ z \in Seq(Q)
    BY <1>1, <1>4, <1>8, <1>9, SeqMonotonic
  <1>11. d \in [1..n -> Q]
    BY <1>4, <1>9
  <1>12. d \in Seq(Q) /\ Len(d) = n
    BY <1>3, <1>11, GoodsList
  <1>13. StepsOf(r) = (a \o d) \o z
    BY <1>2, <1>4, <1>7 DEF StepsOf
  <1>14. Len((a \o d) \o z) = Len(a) + Len(d) + Len(z) /\ \A i \in 1..Len(a) : ((a \o d) \o z)[i] = a[i]
    <2>1. a \in Seq(Q) /\ d \in Seq(Q) /\ z \in Seq(Q)
      BY <1>10, <1>12
    <2>2. Len((a \o d) \o z) = Len(a) + Len(d) + Len(z)
      BY <2>1, GoodsThree
    <2>3. \A i \in 1..Len(a) : ((a \o d) \o z)[i] = a[i]
      BY <2>1, GoodsThree
    <2> QED BY <2>2, <2>3
  <1>15. /\ QueuedAt(r) = TickLength(r) + 1 /\ Brings(r) /\ Queue(r) = Wallet
         /\ StepsLength(r) = TickLength(r) + 1 + n + Len(Gains(r))
    BY <1>2 DEF QueuedAt, StepsLength, Brings, Queue
  <1>16. /\ Len(StepsOf(r)) = StepsLength(r) /\ StepsOf(r)[QueuedAt(r)] = Lock(Queue(r))
         /\ QueuedAt(r) \in Nat \ {0} /\ QueuedAt(r) = Len(a)
    <2>1. QueuedAt(r) = Len(a) /\ QueuedAt(r) \in Nat \ {0} /\ QueuedAt(r) \in 1..Len(a)
      BY <1>5, <1>8, <1>15
    <2>2. Len(StepsOf(r)) = StepsLength(r)
      BY <1>1, <1>3, <1>4, <1>8, <1>12, <1>13, <1>14, <1>15
    <2> QED BY <1>8, <1>13, <1>14, <1>15, <2>1, <2>2
  <1>17. ASSUME NEW i \in 1..StepsLength(r), MayInsert(StepsOf(r)[i]) PROVE i > QueuedAt(r)
    <2>1. \A j \in 1..Len(a) : ~MayInsert(a[j])
      <3>1. \A j \in 1..Len(a) : a[j] \in S
        BY <1>8, ElementOfSeq
      <3> QED BY <1>1, <3>1
    <2>2. ~(i \in 1..Len(a))
      BY <1>13, <1>14, <1>17, <2>1
    <2> QED BY <1>5, <1>8, <1>16, <2>2
  <1> QED BY <1>15, <1>16, <1>17 DEF StepsKnown

LEMMA GoodsSteps ==
    ASSUME plan \in Plans, NEW r \in DOMAIN plan
    PROVE  /\ Len(StepsOf(r)) = StepsLength(r) /\ StepsKnown(r)
           /\ StepsLength(r) \in Nat \ {0}
  <1>1. Kind(r) \in Kinds /\ Cardinality(Named(r)) \in Nat /\ Len(Gains(r)) \in Nat /\ plan[r].runs \in Nat
    BY GoodsRequests
  <1>2. Len(StepsOf(r)) = StepsLength(r) /\ StepsKnown(r)
    <2>1. Kind(r) \in {"box", "shop", "exchange", "costume", "skip", "keep", "discard", "refine", "equip"} => Len(StepsOf(r)) = StepsLength(r) /\ StepsKnown(r)
      BY GoodsStepsSale
    <2>2. Kind(r) \in {"unequip", "collect", "use", "explore"} => Len(StepsOf(r)) = StepsLength(r) /\ StepsKnown(r)
      BY GoodsStepsTick
    <2>3. Kind(r) \in {"start", "claim", "enhance"} => Len(StepsOf(r)) = StepsLength(r) /\ StepsKnown(r)
      BY GoodsStepsStart, GoodsStepsClaim, GoodsStepsEnhance
    <2>4. Kind(r) \in {"dismantle", "raid"} => Len(StepsOf(r)) = StepsLength(r) /\ StepsKnown(r)
      BY GoodsStepsDismantle, GoodsStepsRaid
    <2>5. Kind(r) \in {"reward", "hunt"} => Len(StepsOf(r)) = StepsLength(r) /\ StepsKnown(r)
      BY GoodsStepsReward, GoodsStepsHunt
    <2> QED BY <1>1, <2>1, <2>2, <2>3, <2>4, <2>5 DEF Kinds
  <1>3. TickLength(r) \in 1..2
    BY DEF TickLength
  <1>4. StepsLength(r) \in Nat \ {0}
    <2>1. CASE Kind(r) \in {"raid", "hunt", "reward"}
      BY <1>1, <1>3, <2>1 DEF StepsLength
    <2>2. CASE Kind(r) \in {"box", "exchange", "costume", "equip", "shop", "skip", "keep", "start", "claim", "enhance", "refine", "discard"}
      BY <2>2 DEF StepsLength
    <2>3. CASE Kind(r) \in {"dismantle", "collect", "unequip", "use", "explore"}
      BY <1>1, <1>3, <2>3 DEF StepsLength
    <2> QED BY <1>1, <2>1, <2>2, <2>3 DEF Kinds
  <1> QED BY <1>2, <1>4

AllStepsKnown ==
    plan \in Plans =>
        \A r \in DOMAIN plan : /\ Len(StepsOf(r)) = StepsLength(r) /\ StepsKnown(r)
                               /\ StepsLength(r) \in Nat \ {0}

LEMMA GoodsStepsHold == AllStepsKnown
  BY GoodsSteps DEF AllStepsKnown

LEMMA GoodsStepsNext == AllStepsKnown'
  BY GoodsStepsHold, PTL

(* What a step of a request leaves alone of what others rely on. *)
GoodsAlone(s) ==
    /\ plan' = plan
    /\ \A q \in DOMAIN plan : q # s => pos'[q] = pos[q] /\ inserted'[q] = inserted[q]
    /\ \A x \in Rows : holder[x] \notin {s, NoRequest} => holder'[x] = holder[x]

(* What it changes only of the rows that it has locked or inserted. *)
GoodsOwn(s) ==
    /\ holder[Job] # s => job'.active = job.active /\ job'.catalyst = job.catalyst
    /\ holder[Roster] # s => away' = away
    /\ \A p \in Pieces : holder[Row(p)] # s =>
          /\ IsHere(p) => IsHere(p)'
          /\ piece'[p].wearer = piece[p].wearer \/ piece'[p].wearer = NoPet
    /\ \A p \in Pieces : piece[p] = Unborn /\ p \notin inserted[s] => piece'[p] = Unborn

LEMMA GoodsSamePlan ==
    ASSUME plan' = plan, NEW q \in DOMAIN plan
    PROVE  /\ Kind(q)' = Kind(q) /\ Named(q)' = Named(q) /\ ThePiece(q)' = ThePiece(q)
           /\ Pet(q)' = Pet(q) /\ Flag(q)' = Flag(q) /\ TickLength(q)' = TickLength(q)
           /\ Queue(q)' = Queue(q) /\ QueuedAt(q)' = QueuedAt(q) /\ Brings(q)' = Brings(q)
           /\ Kind(q) # "claim" \/ job'.catalyst = job.catalyst => StepsLength(q)' = StepsLength(q)
  <1>1. /\ Kind(q)' = Kind(q) /\ Named(q)' = Named(q) /\ ThePiece(q)' = ThePiece(q)
        /\ Pet(q)' = Pet(q) /\ Flag(q)' = Flag(q) /\ Token(q)' = Token(q) /\ Gains(q)' = Gains(q)
    BY DEF Kind, Named, ThePiece, Pet, Flag, Token, Gains
  <1>2. TickLength(q)' = TickLength(q) /\ Brings(q)' = Brings(q)
    BY <1>1 DEF TickLength, Brings
  <1>5. Queue(q)' = Queue(q) /\ QueuedAt(q)' = QueuedAt(q)
    <2>1. Queue(q)' = Queue(q)
      BY <1>1 DEF Queue, Item, Job, Wallet
    <2>2. QueuedAt(q)' = QueuedAt(q)
      BY <1>1, <1>2 DEF QueuedAt
    <2> QED BY <2>1, <2>2
  <1>3. CASE Kind(q) # "claim"
    <2>1. Cardinality(Named(q))' = Cardinality(Named(q)) /\ Len(Gains(q))' = Len(Gains(q)) /\ plan[q].runs' = plan[q].runs
      BY <1>1
    <2>2. StepsLength(q)' = StepsLength(q)
      BY <1>1, <1>2, <1>3, <2>1 DEF StepsLength
    <2> QED BY <1>1, <1>2, <1>5, <2>2
  <1>4. CASE Kind(q) = "claim"
    <2>1. job'.catalyst = job.catalyst => StepsLength(q)' = StepsLength(q)
      BY <1>1, <1>4 DEF StepsLength
    <2> QED BY <1>1, <1>2, <1>4, <1>5, <2>1
  <1> QED BY <1>3, <1>4

LEMMA GoodsQueue ==
    ASSUME plan \in Plans, NEW q \in DOMAIN plan
    PROVE  Queue(q) \in Rows
  <1>1. Token(q) \in Materials
    BY GoodsRequests
  <1> QED BY <1>1, GoodsRows DEF Queue

(* The length of the list of another request does not change once it has   *)
(* begun to lock.                                                           *)
LEMMA GoodsOtherLength ==
    ASSUME GoodsInv, NEW s \in DOMAIN plan, NEW q \in DOMAIN plan, q # s, GoodsAlone(s), GoodsOwn(s)
    PROVE  /\ IsRunning(q)' <=> IsRunning(q)
           /\ pos'[q] = pos[q]
           /\ IsRunning(q) => (IsAtEnd(q)' <=> IsAtEnd(q))
           /\ IsRunning(q) => pos[q] <= Len(StepsOf(q))'
           /\ Len(StepsOf(q))' \in Nat
  <1>1. plan' = plan /\ pos'[q] = pos[q]
    BY DEF GoodsAlone
  <1>2. plan \in Plans /\ (IsRunning(q) => GoodsStage(q))
    BY DEF GoodsInv, GoodsControl
  <1>3. Len(StepsOf(q)) = StepsLength(q) /\ StepsLength(q) \in Nat \ {0}
    BY <1>2, GoodsSteps
  <1>4. Len(StepsOf(q))' = StepsLength(q)' /\ StepsLength(q)' \in Nat \ {0}
    BY <1>1, <1>2, GoodsStepsNext DEF AllStepsKnown
  <1>5. IsRunning(q)' <=> IsRunning(q)
    BY <1>1 DEF IsRunning
  <1>6. ASSUME IsRunning(q)
        PROVE  (IsAtEnd(q)' <=> IsAtEnd(q)) /\ pos[q] <= Len(StepsOf(q))'
    <2>1. pos[q] \in Nat /\ pos[q] <= Len(StepsOf(q))
      BY <1>2, <1>6 DEF GoodsStage
    <2>2. CASE pos[q] >= 1
      <3>1. Kind(q) = "claim" => holder[Job] = q
        BY <1>2, <1>6, <2>2 DEF GoodsStage
      <3>2. Kind(q) # "claim" \/ job'.catalyst = job.catalyst
        BY <3>1 DEF GoodsOwn
      <3>3. StepsLength(q)' = StepsLength(q)
        BY <1>1, <3>2, GoodsSamePlan
      <3> QED BY <1>1, <1>3, <1>4, <2>1, <3>3 DEF IsAtEnd
    <2>3. CASE pos[q] = 0
      BY <1>1, <1>3, <1>4, <2>3 DEF IsAtEnd
    <2> QED BY <2>1, <2>2, <2>3
  <1> QED BY <1>1, <1>4, <1>5, <1>6

LEMMA GoodsOthers ==
    ASSUME GoodsInv, NEW s \in DOMAIN plan, NEW q \in DOMAIN plan, q # s, GoodsAlone(s), GoodsOwn(s)
    PROVE  GoodsStage(q)'
  <1>0. SUFFICES ASSUME IsRunning(q)' PROVE GoodsStage(q)'
    BY DEF GoodsStage
  <1>1. IsRunning(q) /\ pos'[q] = pos[q] /\ (IsAtEnd(q)' <=> IsAtEnd(q)) /\ pos[q] <= Len(StepsOf(q))'
    BY <1>0, GoodsOtherLength
  <1>2. plan \in Plans /\ plan' = plan /\ GoodsStage(q) /\ away \subseteq Pets
    BY DEF GoodsInv, GoodsControl, GoodsAlone, GoodsTables
  <1>3. /\ Kind(q)' = Kind(q) /\ Named(q)' = Named(q) /\ ThePiece(q)' = ThePiece(q)
        /\ Pet(q)' = Pet(q) /\ Queue(q)' = Queue(q) /\ QueuedAt(q)' = QueuedAt(q) /\ Brings(q)' = Brings(q)
    BY <1>2, GoodsSamePlan
  <1>4. /\ DOMAIN plan \subseteq Requests /\ NoRequest \notin Requests /\ NoPet \notin Pets
        /\ Named(q) \subseteq Pieces /\ (Kind(q) \in OfOnePiece => ThePiece(q) \in Pieces)
    BY <1>2, GoodsRequests
  <1>5. \A x \in Rows : holder[x] = q => holder'[x] = q
    BY <1>4 DEF GoodsAlone
  <1>6. holder[Roster] = q => holder'[Roster] = q /\ away' = away
    BY <1>5, GoodsRows DEF GoodsOwn
  <1>7. holder[Job] = q => holder'[Job] = q /\ job'.active = job.active
    BY <1>5, GoodsRows DEF GoodsOwn
  <1>8. \A p \in Pieces : HoldsPiece(q, p) =>
           /\ HoldsPiece(q, p)'
           /\ piece'[p].wearer = piece[p].wearer \/ piece'[p].wearer = NoPet
    <2>1. ASSUME NEW p \in Pieces, HoldsPiece(q, p)
          PROVE  /\ HoldsPiece(q, p)'
                 /\ piece'[p].wearer = piece[p].wearer \/ piece'[p].wearer = NoPet
      <3>1. holder[Row(p)] = q /\ IsHere(p) /\ Row(p) \in Rows
        BY <2>1, GoodsRows DEF HoldsPiece
      <3>2. holder'[Row(p)] = q
        BY <1>5, <3>1
      <3>3. IsHere(p)' /\ (piece'[p].wearer = piece[p].wearer \/ piece'[p].wearer = NoPet)
        BY <3>1 DEF GoodsOwn
      <3>4. HoldsPiece(q, p)'
        BY <3>2, <3>3 DEF HoldsPiece, Row
      <3> QED BY <3>3, <3>4
    <2> QED BY <2>1
  <1>9. pos[q] \in Nat
    BY <1>1, <1>2 DEF GoodsStage
  <1>10. /\ Brings(q) /\ pos[q] >= QueuedAt(q) => holder'[Queue(q)] = q
         /\ Kind(q) = "claim" /\ pos[q] >= 1 => holder'[Job] = q /\ job'.active
         /\ Kind(q) = "start" /\ IsAtEnd(q) => holder'[Job] = q /\ ~job'.active
    <2>1. /\ Brings(q) /\ pos[q] >= QueuedAt(q) => holder[Queue(q)] = q
          /\ Kind(q) = "claim" /\ pos[q] >= 1 => holder[Job] = q /\ job.active
          /\ Kind(q) = "start" /\ IsAtEnd(q) => holder[Job] = q /\ ~job.active
      BY <1>1, <1>2 DEF GoodsStage
    <2>2. Queue(q) \in Rows
      BY <1>2, GoodsQueue
    <2> QED BY <1>5, <1>7, <2>1, <2>2, GoodsRows
  <1>11. Kind(q) \in {"enhance", "refine", "keep", "discard"} /\ pos[q] >= 1 => HoldsPiece(q, ThePiece(q))'
    <2>1. Kind(q) \in {"enhance", "refine", "keep", "discard"} /\ pos[q] >= 1 => HoldsPiece(q, ThePiece(q)) /\ ThePiece(q) \in Pieces
      BY <1>1, <1>2, <1>4 DEF GoodsStage, OfOnePiece
    <2>2. PICK p : p = ThePiece(q)
      OBVIOUS
    <2>3. p = ThePiece(q)'
      BY <1>3, <2>2
    <2>4. HoldsPiece(q, p)' => HoldsPiece(q, ThePiece(q))'
      BY <2>3
    <2> QED BY <1>8, <2>1, <2>2, <2>4
  <1>12. Kind(q) = "dismantle" =>
            \A p \in Named(q) : /\ Place(Named(q), p) <= pos[q] => HoldsPiece(q, p)'
                                /\ Cardinality(Named(q)) < pos[q] => piece'[p].wearer = NoPet
    <2>1. ASSUME Kind(q) = "dismantle", NEW p \in Named(q)
          PROVE  /\ Place(Named(q), p) <= pos[q] => HoldsPiece(q, p)'
                 /\ Cardinality(Named(q)) < pos[q] => piece'[p].wearer = NoPet
      <3>1. /\ Place(Named(q), p) <= pos[q] => HoldsPiece(q, p)
            /\ Cardinality(Named(q)) < pos[q] => piece[p].wearer = NoPet
        BY <1>1, <1>2, <2>1 DEF GoodsStage
      <3>2. Place(Named(q), p) \in 1..Cardinality(Named(q)) /\ p \in Pieces /\ Cardinality(Named(q)) \in Nat
        <4>1. Named(q) \in SUBSET Nat /\ IsFiniteSet(Named(q)) /\ Cardinality(Named(q)) \in Nat
          BY <1>2, GoodsRequests
        <4>2. Place(Named(q), p) \in 1..Cardinality(Named(q))
          BY <2>1, <4>1, GoodsPlace
        <4> QED BY <1>4, <2>1, <4>1, <4>2
      <3>3. Cardinality(Named(q)) < pos[q] => Place(Named(q), p) <= pos[q]
        BY <1>9, <3>2
      <3> QED BY <1>8, <3>1, <3>2, <3>3
    <2> QED BY <2>1
  <1>13. /\ Kind(q) \in {"equip", "unequip", "explore", "collect"} /\ pos[q] >= 1 => holder'[Roster] = q
         /\ Kind(q) = "unequip" /\ pos[q] >= 1 => Pet(q) \notin away'
    <2>1. /\ Kind(q) \in {"equip", "unequip", "explore", "collect"} /\ pos[q] >= 1 => holder[Roster] = q
          /\ Kind(q) = "unequip" /\ pos[q] >= 1 => Pet(q) \notin away
      BY <1>1, <1>2 DEF GoodsStage
    <2> QED BY <1>6, <2>1
  <1>14. Kind(q) = "equip" /\ pos[q] >= 2 =>
           /\ HoldsPiece(q, ThePiece(q))'
           /\ Pet(q) \notin away' /\ piece'[ThePiece(q)].wearer \notin away'
    <2>1. ASSUME Kind(q) = "equip", pos[q] >= 2
          PROVE  /\ HoldsPiece(q, ThePiece(q))'
                 /\ Pet(q) \notin away' /\ piece'[ThePiece(q)].wearer \notin away'
      <3>1. /\ HoldsPiece(q, ThePiece(q)) /\ ThePiece(q) \in Pieces
            /\ Pet(q) \notin away /\ piece[ThePiece(q)].wearer \notin away
        BY <1>1, <1>2, <1>4, <2>1 DEF GoodsStage, OfOnePiece
      <3>2. holder[Roster] = q
        <4>1. pos[q] >= 1
          BY <1>9, <2>1
        <4> QED BY <1>1, <1>2, <2>1, <4>1 DEF GoodsStage
      <3>3. away' = away
        BY <1>6, <3>2
      <3>4. PICK p : p = ThePiece(q)
        OBVIOUS
      <3>5. HoldsPiece(q, p)' /\ piece'[p].wearer \notin away'
        <4>1. HoldsPiece(q, p)' /\ (piece'[p].wearer = piece[p].wearer \/ piece'[p].wearer = NoPet)
          BY <1>8, <3>1, <3>4
        <4> QED BY <1>2, <1>4, <3>1, <3>3, <3>4, <4>1
      <3>6. p = ThePiece(q)'
        BY <1>3, <3>4
      <3>7. HoldsPiece(q, p)' => HoldsPiece(q, ThePiece(q))'
        BY <3>6
      <3> QED BY <3>1, <3>3, <3>4, <3>5, <3>7
    <2> QED BY <2>1
  <1>15. /\ (pos[q] \in Nat)' /\ (pos[q] <= Len(StepsOf(q)))'
         /\ (Brings(q) /\ pos[q] >= QueuedAt(q) => holder[Queue(q)] = q)'
         /\ (Kind(q) = "claim" /\ pos[q] >= 1 => holder[Job] = q /\ job.active)'
         /\ (Kind(q) = "start" /\ IsAtEnd(q) => holder[Job] = q /\ ~job.active)'
    BY <1>1, <1>3, <1>9, <1>10 DEF Job
  <1>16. /\ (Kind(q) \in {"enhance", "refine", "keep", "discard"} /\ pos[q] >= 1 => HoldsPiece(q, ThePiece(q)))'
         /\ (Kind(q) = "dismantle" =>
              \A p \in Named(q) : /\ Place(Named(q), p) <= pos[q] => HoldsPiece(q, p)
                                  /\ Cardinality(Named(q)) < pos[q] => piece[p].wearer = NoPet)'
    BY <1>1, <1>3, <1>11, <1>12 DEF Place
  <1>17. /\ (Kind(q) \in {"equip", "unequip", "explore", "collect"} /\ pos[q] >= 1 => holder[Roster] = q)'
         /\ (Kind(q) = "unequip" /\ pos[q] >= 1 => Pet(q) \notin away)'
         /\ (Kind(q) = "equip" /\ pos[q] >= 2 =>
              /\ HoldsPiece(q, ThePiece(q))
              /\ Pet(q) \notin away /\ piece[ThePiece(q)].wearer \notin away)'
    BY <1>1, <1>3, <1>13, <1>14 DEF Roster
  <1> QED BY <1>15, <1>16, <1>17 DEF GoodsStage

---------------------------------------------------------------------------
(* What a request that ends does with what it has inserted, and what holds   *)
(* of its own pieces after a step.                                          *)
GoodsLeaves(s, v) == inserted' = IF v = Committed THEN inserted ELSE [inserted EXCEPT ![s] = {}]
GoodsMine(s) ==
    /\ IsRunning(s) \/ inserted[s] = {}
    /\ GoodsInserted(s)'
    /\ IsRunning(s)' => \A q \in DOMAIN plan : q # s /\ IsRunning(q) => inserted'[s] \cap inserted[q] = {}

LEMMA GoodsEnds ==
    ASSUME GoodsInv, NEW s \in DOMAIN plan, NEW v \in {Committed, RolledBack},
           plan' = plan, pos' = [pos EXCEPT ![s] = v], Release(s), GoodsLeaves(s, v), IsRunning(s)
    PROVE  GoodsAlone(s) /\ GoodsControl' /\ ~IsRunning(s)' /\ GoodsStage(s)' /\ pos'[s] = v /\ GoodsMine(s)
  <1>1. /\ plan \in Plans /\ pos \in [Requests -> Int] /\ holder \in [Rows -> Requests \cup {NoRequest}]
        /\ \A x \in Rows : holder[x] # NoRequest => holder[x] \in DOMAIN plan /\ IsRunning(holder[x])
    BY DEF GoodsInv, GoodsControl
  <1>2. DOMAIN plan \subseteq Requests /\ NoRequest \notin Requests
    BY <1>1, GoodsRequests
  <1>3. v \in Int /\ v \in {NotBegun, Committed, RolledBack}
    BY DEF Committed, RolledBack
  <1>4. pos' \in [Requests -> Int] /\ pos'[s] = v /\ \A q \in DOMAIN plan : q # s => pos'[q] = pos[q]
    BY <1>1, <1>2, <1>3
  <1>5. holder' = [x \in Rows |-> IF holder[x] = s THEN NoRequest ELSE holder[x]]
    BY DEF Release, Rows, Roster, Wallet, Job, Pity, Damage, Row, Item
  <1>6. /\ holder' \in [Rows -> Requests \cup {NoRequest}]
        /\ \A x \in Rows : holder'[x] = IF holder[x] = s THEN NoRequest ELSE holder[x]
    BY <1>1, <1>5
  <1>13. /\ inserted' \in [Requests -> SUBSET Pieces] /\ \A q \in DOMAIN plan : q # s => inserted'[q] = inserted[q]
         /\ v # Committed => inserted'[s] = {}
    <2>1. inserted \in [Requests -> SUBSET Pieces]
      BY DEF GoodsInv, GoodsControl
    <2> QED BY <1>2, <2>1 DEF GoodsLeaves, Committed, RolledBack
  <1>7. GoodsAlone(s)
    BY <1>4, <1>6, <1>13 DEF GoodsAlone
  <1>8. ~IsRunning(s)'
    BY <1>3, <1>4 DEF IsRunning
  <1>9. \A x \in Rows : holder'[x] # NoRequest => holder'[x] \in DOMAIN plan /\ pos'[holder'[x]] \notin {NotBegun, Committed, RolledBack}
    <2>1. ASSUME NEW x \in Rows, holder'[x] # NoRequest
          PROVE  holder'[x] \in DOMAIN plan /\ pos'[holder'[x]] \notin {NotBegun, Committed, RolledBack}
      <3>1. holder[x] # NoRequest /\ holder[x] # s /\ holder'[x] = holder[x]
        BY <1>6, <2>1
      <3>2. holder[x] \in DOMAIN plan /\ IsRunning(holder[x])
        BY <1>1, <2>1, <3>1
      <3>3. pos'[holder[x]] = pos[holder[x]]
        BY <1>4, <3>1, <3>2
      <3> QED BY <3>1, <3>2, <3>3 DEF IsRunning
    <2> QED BY <2>1
  <1>10. Rows' = Rows
    BY DEF Rows, Roster, Wallet, Job, Pity, Damage, Row, Item
  <1>11. GoodsControl'
    <2>1. /\ plan' \in Plans /\ pos' \in [Requests -> Int] /\ holder' \in [Rows' -> Requests \cup {NoRequest}]
          /\ \A x \in Rows' : holder'[x] # NoRequest => holder'[x] \in DOMAIN plan' /\ pos'[holder'[x]] \notin {NotBegun, Committed, RolledBack}
      BY <1>1, <1>4, <1>6, <1>9, <1>10
    <2> QED BY <1>13, <2>1 DEF GoodsControl, IsRunning, NotBegun, Committed, RolledBack
  <1>12. GoodsStage(s)'
    BY <1>8 DEF GoodsStage
  <1>14. GoodsMine(s)
    BY <1>4, <1>8, <1>13 DEF GoodsMine, GoodsInserted, Committed
  <1> QED BY <1>4, <1>7, <1>8, <1>11, <1>12, <1>14

(* A request that goes on may take one row more.                            *)
LEMMA GoodsTakes ==
    ASSUME GoodsInv, NEW s \in DOMAIN plan, NEW v \in Nat, NEW y, Free(y, s), NEW new \in SUBSET Pieces,
           plan' = plan, pos' = [pos EXCEPT ![s] = v],
           holder' = [x \in Rows |-> IF x = y THEN s ELSE holder[x]],
           inserted' = [inserted EXCEPT ![s] = @ \cup new]
    PROVE  /\ GoodsAlone(s) /\ GoodsControl' /\ IsRunning(s)' /\ pos'[s] = v
           /\ inserted'[s] = inserted[s] \cup new
           /\ \A x \in Rows : holder[x] = s => holder'[x] = s
           /\ y \in Rows => holder'[y] = s
  <1>1. /\ plan \in Plans /\ pos \in [Requests -> Int] /\ holder \in [Rows -> Requests \cup {NoRequest}]
        /\ \A x \in Rows : holder[x] # NoRequest => holder[x] \in DOMAIN plan /\ IsRunning(holder[x])
    BY DEF GoodsInv, GoodsControl
  <1>2. DOMAIN plan \subseteq Requests /\ NoRequest \notin Requests
    BY <1>1, GoodsRequests
  <1>3. v \in Int /\ v \notin {NotBegun, Committed, RolledBack}
    BY DEF NotBegun, Committed, RolledBack
  <1>4. pos' \in [Requests -> Int] /\ pos'[s] = v /\ \A q \in DOMAIN plan : q # s => pos'[q] = pos[q]
    BY <1>1, <1>2, <1>3
  <1>6. /\ holder' \in [Rows -> Requests \cup {NoRequest}]
        /\ \A x \in Rows : holder'[x] = IF x = y THEN s ELSE holder[x]
    BY <1>1, <1>2
  <1>13. /\ inserted' \in [Requests -> SUBSET Pieces] /\ \A q \in DOMAIN plan : q # s => inserted'[q] = inserted[q]
         /\ inserted'[s] = inserted[s] \cup new
    <2>1. inserted \in [Requests -> SUBSET Pieces]
      BY DEF GoodsInv, GoodsControl
    <2> QED BY <1>2, <2>1
  <1>7. GoodsAlone(s)
    <2>1. \A x \in Rows : holder[x] \notin {s, NoRequest} => x # y
      BY GoodsRows DEF Free
    <2> QED BY <1>4, <1>6, <1>13, <2>1 DEF GoodsAlone
  <1>8. IsRunning(s)'
    BY <1>3, <1>4 DEF IsRunning
  <1>9. \A x \in Rows : holder'[x] # NoRequest => holder'[x] \in DOMAIN plan /\ pos'[holder'[x]] \notin {NotBegun, Committed, RolledBack}
    <2>1. ASSUME NEW x \in Rows, holder'[x] # NoRequest
          PROVE  holder'[x] \in DOMAIN plan /\ pos'[holder'[x]] \notin {NotBegun, Committed, RolledBack}
      <3>1. PICK q : q = holder'[x]
        OBVIOUS
      <3>2. CASE q = s
        BY <1>3, <1>4, <3>1, <3>2 DEF IsRunning
      <3>3. CASE q # s
        <4>1. q = holder[x]
          BY <1>6, <3>1, <3>3
        <4>2. q \in DOMAIN plan /\ IsRunning(q)
          BY <1>1, <2>1, <3>1, <4>1
        <4>3. pos'[q] = pos[q]
          BY <1>4, <3>3, <4>2
        <4> QED BY <3>1, <4>2, <4>3 DEF IsRunning
      <3> QED BY <3>2, <3>3
    <2> QED BY <2>1
  <1>10. Rows' = Rows
    BY DEF Rows, Roster, Wallet, Job, Pity, Damage, Row, Item
  <1>11. GoodsControl'
    <2>1. /\ plan' \in Plans /\ pos' \in [Requests -> Int] /\ holder' \in [Rows' -> Requests \cup {NoRequest}]
          /\ \A x \in Rows' : holder'[x] # NoRequest => holder'[x] \in DOMAIN plan' /\ pos'[holder'[x]] \notin {NotBegun, Committed, RolledBack}
      BY <1>1, <1>4, <1>6, <1>9, <1>10
    <2> QED BY <1>13, <2>1 DEF GoodsControl, IsRunning, NotBegun, Committed, RolledBack
  <1>12. (\A x \in Rows : holder[x] = s => holder'[x] = s) /\ (y \in Rows => holder'[y] = s)
    BY <1>6
  <1> QED BY <1>4, <1>7, <1>8, <1>11, <1>12, <1>13

(* The crafts that were started. *)
LEMMA GoodsStarts ==
    ASSUME GoodsControl, NEW s \in DOMAIN plan, GoodsAlone(s), pos[s] # Committed
    PROVE  /\ Kind(s) # "start" \/ pos'[s] # Committed => Started' = Started
           /\ Kind(s) = "start" /\ pos'[s] = Committed => Started' = Started + 1
           /\ Started \in Nat
  <1>1. plan \in Plans /\ plan' = plan /\ \A q \in DOMAIN plan : Kind(q)' = Kind(q)
    BY GoodsSamePlan DEF GoodsControl, GoodsAlone
  <1>2. PICK S, T : /\ S = {r \in DOMAIN plan : Kind(r) = "start" /\ pos[r] = Committed}
                    /\ T = {r \in DOMAIN plan : Kind(r) = "start" /\ pos'[r] = Committed}
    OBVIOUS
  <1>3. Started = Cardinality(S) /\ Started' = Cardinality(T)
    <2>1. Started = Cardinality(S)
      BY <1>2 DEF Started
    <2>2. T = {r \in DOMAIN plan' : Kind(r)' = "start" /\ pos'[r] = Committed}
      BY <1>1, <1>2
    <2>3. Started' = Cardinality(T)
      BY <2>2 DEF Started, Committed
    <2> QED BY <2>1, <2>3
  <1>4. IsFiniteSet(S) /\ Cardinality(S) \in Nat
    <2>1. IsFiniteSet(DOMAIN plan) /\ S \subseteq DOMAIN plan
      BY <1>1, <1>2, GoodsRequests
    <2> QED BY <2>1, FS_Subset, FS_CardinalityType
  <1>5. \A r \in DOMAIN plan : r # s => (r \in T <=> r \in S)
    BY <1>2 DEF GoodsAlone
  <1>6. s \notin S /\ (s \in T <=> Kind(s) = "start" /\ pos'[s] = Committed) /\ S \subseteq DOMAIN plan /\ T \subseteq DOMAIN plan
    BY <1>2
  <1>7. CASE s \in T
    <2>1. T = S \cup {s}
      BY <1>5, <1>6, <1>7
    <2>2. Cardinality(T) = Cardinality(S) + 1
      BY <1>4, <1>6, <2>1, FS_AddElement
    <2> QED BY <1>3, <1>4, <1>6, <1>7, <2>2
  <1>8. CASE s \notin T
    <2>1. T = S
      BY <1>5, <1>6, <1>8
    <2> QED BY <1>3, <1>4, <1>6, <1>8, <2>1
  <1> QED BY <1>7, <1>8

LEMMA GoodsCraftsKept ==
    ASSUME CraftsAddUp, Started' = Started, job'.active = job.active, claims' = claims, pity' = pity,
           \A p \in Pieces : piece'[p].from = "craft" <=> piece[p].from = "craft"
    PROVE  CraftsAddUp'
  <1>1. {p \in Pieces : piece'[p].from = "craft"} = {p \in Pieces : piece[p].from = "craft"}
    OBVIOUS
  <1>2. Cardinality({p \in Pieces : piece[p].from = "craft"})' = Len(claims)'
    <2>1. Cardinality({p \in Pieces : piece[p].from = "craft"}) = Len(claims)
      BY DEF CraftsAddUp
    <2> QED BY <1>1, <2>1
  <1>3. FailuresInARow' = FailuresInARow
    BY DEF FailuresInARow
  <1>4. (pity = FailuresInARow)' /\ (pity <= CRAFT_PITY_AFTER_FAILS)'
    BY <1>3 DEF CraftsAddUp
  <1>5. (\E begun \in {Cardinality({j}) : j \in InitialJobs \ {NoJob}} \cup {0} :
          begun + Started = Len(claims) + (IF job.active THEN 1 ELSE 0))'
    <2>1. PICK b \in {Cardinality({j}) : j \in InitialJobs \ {NoJob}} \cup {0} :
             b + Started = Len(claims) + (IF job.active THEN 1 ELSE 0)
      BY DEF CraftsAddUp
    <2>2. b + Started' = Len(claims') + (IF job'.active THEN 1 ELSE 0)
      BY <2>1
    <2>3. b \in {Cardinality({j}) : j \in InitialJobs \ {NoJob'}} \cup {0}
      BY <2>1 DEF NoJob
    <2> QED BY <2>2, <2>3
  <1> QED BY <1>2, <1>4, <1>5 DEF CraftsAddUp

---------------------------------------------------------------------------
(* Fewer pieces fit as well. *)
LEMMA GoodsFitsLess ==
    ASSUME NEW h, NEW g, NEW B, NEW i, NEW j, NEW q, IsFiniteSet(h), g \subseteq h,
           \A x \in B : i[x] = j[x], FitsIn(h, B, i, q)
    PROVE  FitsIn(g, B, j, q)
  <1>1. PICK met \in SUBSET B :
           /\ \A x, y \in met : x # y => q[x] # q[y]
           /\ met # {} => \E last \in B : \A x \in met : q[x] # q[last]
           /\ Cardinality(h \ UNION {i[x] : x \in met}) <= EQUIPMENT_CAPACITY
    BY DEF FitsIn
  <1>2. PICK U : U = UNION {i[x] : x \in met}
    OBVIOUS
  <1>3. U = UNION {j[x] : x \in met}
    <2>1. \A x \in met : i[x] = j[x]
      OBVIOUS
    <2>2. {i[x] : x \in met} = {j[x] : x \in met}
      BY <2>1
    <2> QED BY <1>2, <2>2
  <1>4. g \ U \subseteq h \ U /\ IsFiniteSet(h \ U)
    BY FS_Difference
  <1>5. IsFiniteSet(g \ U) /\ Cardinality(g \ U) <= Cardinality(h \ U)
    BY <1>4, FS_Subset
  <1>6. Cardinality(g \ U) \in Nat /\ Cardinality(h \ U) \in Nat /\ EQUIPMENT_CAPACITY \in Nat
    BY <1>4, <1>5, FS_CardinalityType, GoodsParameters DEF GoodsAssumption
  <1>7. Cardinality(h \ U) <= EQUIPMENT_CAPACITY
    BY <1>1, <1>2
  <1>8. Cardinality(g \ U) <= EQUIPMENT_CAPACITY
    BY <1>5, <1>6, <1>7
  <1>9. Cardinality(g \ UNION {j[x] : x \in met}) <= EQUIPMENT_CAPACITY
    BY <1>3, <1>8
  <1> QED BY <1>1, <1>9 DEF FitsIn

LEMMA GoodsWouldBe ==
    ASSUME GoodsControl, NEW R \in SUBSET DOMAIN plan
    PROVE  IsFiniteSet(WouldBeHere(R))
  <1>1. IsFiniteSet(Pieces) /\ DOMAIN plan \subseteq Requests
    BY GoodsRequests DEF GoodsControl
  <1>2. \A r \in R : inserted[r] \subseteq Pieces
    BY <1>1 DEF GoodsControl
  <1>3. WouldBeHere(R) \subseteq Pieces
    BY <1>2 DEF WouldBeHere, Here
  <1> QED BY <1>1, <1>3, FS_Subset

(* What would be there if R commits now would have been there before if Q   *)
(* had committed.                                                           *)
LEMMA GoodsFitMaps ==
    ASSUME GoodsControl, GoodsFit, plan' = plan, NEW R, NEW Q \in SUBSET Pending,
           WouldBeHere(R)' \subseteq WouldBeHere(Q), WouldBring(R)' = WouldBring(Q),
           \A x \in WouldBring(Q) : inserted[x] = inserted'[x]
    PROVE  FitsWith(R)'
  <1>1. PICK h, B, i, q, g, j : /\ h = WouldBeHere(Q) /\ B = WouldBring(Q) /\ i = inserted /\ q = Queues
                                /\ g = WouldBeHere(R)' /\ j = inserted'
    OBVIOUS
  <1>2. FitsIn(h, B, i, q)
    BY <1>1 DEF GoodsFit, FitsWith
  <1>3. IsFiniteSet(h)
    <2>1. Q \in SUBSET DOMAIN plan
      BY DEF Pending
    <2> QED BY <1>1, <2>1, GoodsWouldBe
  <1>4. g \subseteq h /\ \A x \in B : i[x] = j[x]
    BY <1>1
  <1>5. FitsIn(g, B, j, q)
    BY <1>2, <1>3, <1>4, GoodsFitsLess
  <1>6. Queues' = q
    <2>1. \A r \in DOMAIN plan : Queue(r)' = Queue(r)
      BY GoodsSamePlan
    <2>2. q = [r \in DOMAIN plan |-> Queue(r)]
      BY <1>1 DEF Queues
    <2>3. Queues' = [r \in DOMAIN plan |-> Queue(r)']
      BY DEF Queues
    <2>4. [r \in DOMAIN plan |-> Queue(r)'] = [r \in DOMAIN plan |-> Queue(r)]
      BY <2>1
    <2> QED BY <2>2, <2>3, <2>4
  <1>7. WouldBring(R)' = B
    BY <1>1
  <1>8. FitsIn(WouldBeHere(R)', WouldBring(R)', inserted', Queues')
    BY <1>1, <1>5, <1>6, <1>7
  <1> QED BY <1>8 DEF FitsWith, FitsIn

(* A request that commits, *)
LEMMA GoodsFitCommits ==
    ASSUME GoodsInv, GoodsFit, NEW s \in DOMAIN plan, IsRunning(s), plan' = plan, inserted' = inserted,
           pos' = [pos EXCEPT ![s] = Committed], Here' \subseteq Here \cup inserted[s]
    PROVE  GoodsFit'
  <1>1. GoodsControl /\ pos \in [Requests -> Int] /\ DOMAIN plan \subseteq Requests
    BY GoodsRequests DEF GoodsInv, GoodsControl
  <1>2. pos'[s] = Committed /\ pos[s] # Committed /\ \A r \in DOMAIN plan : r # s => pos'[r] = pos[r]
    BY <1>1 DEF IsRunning
  <1>3. ASSUME NEW R \in SUBSET Pending' PROVE FitsWith(R)'
    <2>1. R \subseteq DOMAIN plan /\ \A r \in R : pos'[r] # Committed
      BY <1>3 DEF Pending, Committed
    <2>2. PICK Q : Q = R \cup {s}
      OBVIOUS
    <2>3. Q \in SUBSET Pending
      BY <1>2, <2>1, <2>2 DEF Pending
    <2>4. WouldBeHere(R)' \subseteq WouldBeHere(Q)
      <3>1. WouldBeHere(R)' = Here' \cup UNION {inserted[r] : r \in R}
        BY DEF WouldBeHere
      <3>2. WouldBeHere(Q) = Here \cup UNION {inserted[r] : r \in Q}
        BY DEF WouldBeHere
      <3> QED BY <2>2, <3>1, <3>2
    <2>5. WouldBring(R)' = WouldBring(Q)
      <3>1. WouldBring(R)' = {r \in DOMAIN plan : inserted[r] # {} /\ (pos'[r] = Committed \/ r \in R)}
        BY DEF WouldBring, Committed
      <3>2. WouldBring(Q) = {r \in DOMAIN plan : inserted[r] # {} /\ (pos[r] = Committed \/ r \in Q)}
        BY DEF WouldBring
      <3> QED BY <1>2, <2>2, <3>1, <3>2
    <2> QED BY <1>1, <2>3, <2>4, <2>5, GoodsFitMaps
  <1> QED BY <1>3 DEF GoodsFit

(* one that is undone, *)
LEMMA GoodsFitUndone ==
    ASSUME GoodsInv, GoodsFit, NEW s \in DOMAIN plan, IsRunning(s), plan' = plan,
           inserted' = [inserted EXCEPT ![s] = {}], pos' = [pos EXCEPT ![s] = RolledBack], Here' \subseteq Here
    PROVE  GoodsFit'
  <1>1. /\ GoodsControl /\ pos \in [Requests -> Int] /\ DOMAIN plan \subseteq Requests
        /\ inserted \in [Requests -> SUBSET Pieces]
    BY GoodsRequests DEF GoodsInv, GoodsControl
  <1>2. pos'[s] # Committed /\ pos[s] # Committed /\ \A r \in DOMAIN plan : r # s => pos'[r] = pos[r]
    BY <1>1 DEF IsRunning, RolledBack, Committed
  <1>3. inserted'[s] = {} /\ \A r \in DOMAIN plan : r # s => inserted'[r] = inserted[r]
    BY <1>1
  <1>4. ASSUME NEW R \in SUBSET Pending' PROVE FitsWith(R)'
    <2>1. R \subseteq DOMAIN plan /\ \A r \in R : pos'[r] # Committed
      BY <1>4 DEF Pending, Committed
    <2>2. PICK Q : Q = R \ {s}
      OBVIOUS
    <2>3. Q \in SUBSET Pending
      BY <1>2, <2>1, <2>2 DEF Pending
    <2>4. WouldBeHere(R)' \subseteq WouldBeHere(Q)
      <3>1. WouldBeHere(R)' = Here' \cup UNION {inserted'[r] : r \in R}
        BY DEF WouldBeHere
      <3>2. WouldBeHere(Q) = Here \cup UNION {inserted[r] : r \in Q}
        BY DEF WouldBeHere
      <3>3. UNION {inserted'[r] : r \in R} \subseteq UNION {inserted[r] : r \in Q}
        <4>1. \A r \in R : inserted'[r] \subseteq UNION {inserted[x] : x \in Q}
          BY <1>3, <2>1, <2>2
        <4> QED BY <4>1
      <3> QED BY <3>1, <3>2, <3>3
    <2>5. WouldBring(R)' = WouldBring(Q)
      <3>1. WouldBring(R)' = {r \in DOMAIN plan : inserted'[r] # {} /\ (pos'[r] = Committed \/ r \in R)}
        BY DEF WouldBring, Committed
      <3>2. WouldBring(Q) = {r \in DOMAIN plan : inserted[r] # {} /\ (pos[r] = Committed \/ r \in Q)}
        BY DEF WouldBring
      <3>3. \A r \in DOMAIN plan : r \in WouldBring(R)' <=> r \in WouldBring(Q)
        BY <1>2, <1>3, <2>2, <3>1, <3>2
      <3> QED BY <3>1, <3>2, <3>3
    <2>6. \A x \in WouldBring(Q) : inserted[x] = inserted'[x]
      BY <1>2, <1>3, <2>2 DEF WouldBring
    <2> QED BY <1>1, <2>3, <2>4, <2>5, <2>6, GoodsFitMaps
  <1> QED BY <1>4 DEF GoodsFit

(* one that inserts nothing, *)
LEMMA GoodsFitStays ==
    ASSUME GoodsInv, GoodsFit, plan' = plan, Here' \subseteq Here,
           \A r \in DOMAIN plan : inserted'[r] = inserted[r] /\ (pos'[r] = Committed <=> pos[r] = Committed)
    PROVE  GoodsFit'
  <1>1. GoodsControl
    BY DEF GoodsInv
  <1>2. ASSUME NEW R \in SUBSET Pending' PROVE FitsWith(R)'
    <2>1. R \subseteq DOMAIN plan /\ R \in SUBSET Pending
      BY <1>2 DEF Pending, Committed
    <2>2. WouldBeHere(R)' \subseteq WouldBeHere(R)
      <3>1. WouldBeHere(R)' = Here' \cup UNION {inserted'[r] : r \in R}
        BY DEF WouldBeHere
      <3>2. WouldBeHere(R) = Here \cup UNION {inserted[r] : r \in R}
        BY DEF WouldBeHere
      <3>3. {inserted'[r] : r \in R} = {inserted[r] : r \in R}
        BY <2>1
      <3> QED BY <3>1, <3>2, <3>3
    <2>3. WouldBring(R)' = WouldBring(R)
      <3>1. WouldBring(R)' = {r \in DOMAIN plan : inserted'[r] # {} /\ (pos'[r] = Committed \/ r \in R)}
        BY DEF WouldBring, Committed
      <3>2. WouldBring(R) = {r \in DOMAIN plan : inserted[r] # {} /\ (pos[r] = Committed \/ r \in R)}
        BY DEF WouldBring
      <3> QED BY <3>1, <3>2
    <2>4. \A x \in WouldBring(R) : inserted[x] = inserted'[x]
      BY DEF WouldBring
    <2> QED BY <1>1, <2>1, <2>2, <2>3, <2>4, GoodsFitMaps
  <1> QED BY <1>2 DEF GoodsFit

(* and one that inserts a piece: it has counted every piece but those of    *)
(* the requests it meets, and they are of other queues.                     *)
LEMMA GoodsFitGrows ==
    ASSUME GoodsInv, GoodsInserts, GoodsFit, NEW s \in DOMAIN plan, NEW p \in Pieces, plan' = plan,
           IsRunning(s), holder[Queue(s)] = s, HasRoom(s), Here' = Here,
           inserted' = [inserted EXCEPT ![s] = @ \cup {p}],
           \A r \in DOMAIN plan : pos'[r] = Committed <=> pos[r] = Committed
    PROVE  GoodsFit'
  <1>1. /\ GoodsControl /\ DOMAIN plan \subseteq Requests /\ inserted \in [Requests -> SUBSET Pieces]
        /\ IsFiniteSet(Pieces) /\ EQUIPMENT_CAPACITY \in Nat
    BY GoodsRequests, GoodsParameters DEF GoodsInv, GoodsControl, GoodsAssumption
  <1>2. /\ inserted'[s] = inserted[s] \cup {p} /\ inserted[s] \subseteq Pieces
        /\ \A r \in DOMAIN plan : r # s => inserted'[r] = inserted[r]
    BY <1>1
  <1>3. pos[s] # Committed
    BY DEF IsRunning
  <1>4. ASSUME NEW R \in SUBSET Pending' PROVE FitsWith(R)'
    <2>1. R \subseteq DOMAIN plan /\ R \in SUBSET Pending
      BY <1>4 DEF Pending, Committed
    <2>2. WouldBeHere(R)' = Here \cup UNION {inserted'[r] : r \in R}
      BY DEF WouldBeHere
    <2>3. WouldBring(R)' = {r \in DOMAIN plan : inserted'[r] # {} /\ (pos'[r] = Committed \/ r \in R)}
      BY DEF WouldBring, Committed
    <2>4. CASE s \notin R
      <3>1. WouldBeHere(R)' \subseteq WouldBeHere(R)
        <4>1. WouldBeHere(R) = Here \cup UNION {inserted[r] : r \in R}
          BY DEF WouldBeHere
        <4>2. {inserted'[r] : r \in R} = {inserted[r] : r \in R}
          BY <1>2, <2>1, <2>4
        <4> QED BY <2>2, <4>1, <4>2
      <3>2. WouldBring(R)' = WouldBring(R)
        <4>1. WouldBring(R) = {r \in DOMAIN plan : inserted[r] # {} /\ (pos[r] = Committed \/ r \in R)}
          BY DEF WouldBring
        <4>2. \A r \in DOMAIN plan : r \in WouldBring(R)' <=> r \in WouldBring(R)
          BY <1>2, <1>3, <2>3, <2>4, <4>1
        <4> QED BY <2>3, <4>1, <4>2
      <3>3. \A x \in WouldBring(R) : inserted[x] = inserted'[x]
        BY <1>2, <1>3, <2>4 DEF WouldBring
      <3> QED BY <1>1, <2>1, <3>1, <3>2, <3>3, GoodsFitMaps
    <2>5. CASE s \in R
      <3>1. PICK met : met = {q \in R \ {s} : inserted[q] # {}}
        OBVIOUS
      <3>2. PICK h, B, i, q : h = WouldBeHere(R)' /\ B = WouldBring(R)' /\ i = inserted' /\ q = Queues'
        OBVIOUS
      <3>3. met \in SUBSET B /\ s \in B
        BY <1>2, <2>1, <2>3, <2>5, <3>1, <3>2
      <3>4. \A x \in met : x \in DOMAIN plan /\ x # s /\ holder[Queue(x)] = x
        <4>1. ASSUME NEW x \in met PROVE x \in DOMAIN plan /\ x # s /\ holder[Queue(x)] = x
          <5>1. x \in DOMAIN plan /\ x # s /\ inserted[x] # {} /\ pos[x] # Committed
            BY <2>1, <3>1 DEF Pending
          <5>2. IsRunning(x) /\ Brings(x) /\ pos[x] >= QueuedAt(x)
            BY <5>1 DEF GoodsInserts, GoodsInserted
          <5>3. holder[Queue(x)] = x
            BY <5>1, <5>2 DEF GoodsInv, GoodsStage
          <5> QED BY <5>1, <5>3
        <4> QED BY <4>1
      <3>5. \A x \in DOMAIN plan : q[x] = Queue(x)
        <4>1. \A r \in DOMAIN plan : Queue(r)' = Queue(r)
          BY GoodsSamePlan
        <4>2. q = [r \in DOMAIN plan |-> Queue(r)']
          BY <3>2 DEF Queues
        <4> QED BY <4>1, <4>2
      <3>6. \A x, y \in met : x # y => q[x] # q[y]
        BY <3>4, <3>5
      <3>7. \A x \in met : q[x] # q[s]
        BY <3>4, <3>5
      <3>8. PICK S : S = Here \cup inserted[s]
        OBVIOUS
      <3>9. IsFiniteSet(S) /\ Cardinality(S) \in Nat /\ Cardinality(S) < EQUIPMENT_CAPACITY
        <4>1. S \subseteq Pieces
          BY <1>2, <3>8 DEF Here
        <4> QED BY <1>1, <3>8, <4>1, FS_Subset, FS_CardinalityType DEF HasRoom
      <3>10. h \ UNION {i[x] : x \in met} \subseteq S \cup {p}
        <4>1. ASSUME NEW z \in h, z \notin S \cup {p} PROVE z \in UNION {i[x] : x \in met}
          <5>1. PICK r \in R : z \in inserted'[r]
            BY <2>2, <3>2, <3>8, <4>1
          <5>2. r # s
            BY <1>2, <3>8, <4>1, <5>1
          <5>3. r \in met
            BY <1>2, <2>1, <3>1, <5>1, <5>2
          <5> QED BY <3>2, <5>1, <5>3
        <4> QED BY <4>1
      <3>11. Cardinality(h \ UNION {i[x] : x \in met}) <= EQUIPMENT_CAPACITY
        <4>1. PICK D : D = h \ UNION {i[x] : x \in met}
          OBVIOUS
        <4>2. IsFiniteSet(S \cup {p}) /\ Cardinality(S \cup {p}) <= Cardinality(S) + 1 /\ Cardinality(S \cup {p}) \in Nat
          <5>1. IsFiniteSet(S \cup {p}) /\ Cardinality(S \cup {p}) = IF p \in S THEN Cardinality(S) ELSE Cardinality(S) + 1
            BY <3>9, FS_AddElement
          <5> QED BY <3>9, <5>1
        <4>3. IsFiniteSet(D) /\ Cardinality(D) <= Cardinality(S \cup {p}) /\ Cardinality(D) \in Nat
          BY <3>10, <4>1, <4>2, FS_Subset, FS_CardinalityType
        <4>4. Cardinality(D) <= EQUIPMENT_CAPACITY
          BY <1>1, <3>9, <4>2, <4>3
        <4> QED BY <4>1, <4>4
      <3>12. FitsIn(h, B, i, q)
        BY <3>3, <3>6, <3>7, <3>11 DEF FitsIn
      <3>13. FitsIn(WouldBeHere(R)', WouldBring(R)', inserted', Queues')
        BY <3>2, <3>12
      <3> QED BY <3>13 DEF FitsWith, FitsIn
    <2> QED BY <2>4, <2>5
  <1> QED BY <1>4 DEF GoodsFit

(* What others have inserted stays theirs. *)
LEMMA GoodsInsertsKept ==
    ASSUME GoodsInv, GoodsInserts, NEW s \in DOMAIN plan, GoodsAlone(s), GoodsOwn(s), GoodsMine(s)
    PROVE  GoodsInserts'
  <1>1. plan' = plan /\ DOMAIN plan \subseteq Requests /\ inserted \in [Requests -> SUBSET Pieces]
    BY GoodsRequests DEF GoodsAlone, GoodsInv, GoodsControl
  <1>2. \A q \in DOMAIN plan : q # s => inserted'[q] = inserted[q] /\ pos'[q] = pos[q] /\ (IsRunning(q)' <=> IsRunning(q))
    BY GoodsOtherLength DEF GoodsAlone
  <1>3. ASSUME NEW q \in DOMAIN plan, q # s PROVE GoodsInserted(q)'
    <2>1. GoodsInserted(q)
      BY DEF GoodsInserts
    <2>2. Brings(q)' = Brings(q) /\ QueuedAt(q)' = QueuedAt(q) /\ Kind(q)' = Kind(q)
      BY <1>1, GoodsSamePlan
    <2>3. IsRunning(q) => (IsAtEnd(q)' <=> IsAtEnd(q))
      BY <1>3, GoodsOtherLength
    <2>4. ASSUME IsRunning(q), NEW p \in inserted[q] PROVE piece'[p] = Unborn
      <3>1. p \in Pieces /\ piece[p] = Unborn
        BY <1>1, <2>1, <2>4 DEF GoodsInserted
      <3>2. p \notin inserted[s]
        <4>1. CASE IsRunning(s)
          <5>1. inserted[q] \cap inserted[s] = {}
            BY <1>3, <2>4, <4>1 DEF GoodsInserts, GoodsApart
          <5> QED BY <2>4, <5>1
        <4>2. CASE inserted[s] = {}
          BY <4>2
        <4> QED BY <4>1, <4>2 DEF GoodsMine
      <3> QED BY <3>1, <3>2 DEF GoodsOwn
    <2>5. /\ ~IsRunning(q)' /\ pos'[q] # Committed => inserted'[q] = {}
          /\ IsRunning(q)' =>
                /\ \A p \in inserted'[q] : piece'[p] = Unborn
                /\ inserted'[q] # {} => Brings(q)' /\ pos'[q] >= QueuedAt(q)'
                /\ Kind(q)' = "claim" /\ IsAtEnd(q)' => \E p \in Pieces : inserted'[q] = {p}
                /\ Kind(q)' = "claim" /\ ~IsAtEnd(q)' => inserted'[q] = {}
      BY <1>2, <1>3, <2>1, <2>2, <2>3, <2>4 DEF GoodsInserted
    <2> QED BY <2>5 DEF GoodsInserted, Committed, Unborn
  <1>4. \A q \in DOMAIN plan : GoodsInserted(q)'
    BY <1>3 DEF GoodsMine
  <1>5. ASSUME NEW r \in DOMAIN plan, NEW q \in DOMAIN plan, r # q, IsRunning(r)', IsRunning(q)'
        PROVE  inserted'[r] \cap inserted'[q] = {}
    <2>1. CASE r # s /\ q # s
      <3>1. IsRunning(r) /\ IsRunning(q) /\ inserted'[r] = inserted[r] /\ inserted'[q] = inserted[q]
        BY <1>2, <1>5, <2>1
      <3> QED BY <1>5, <3>1 DEF GoodsInserts, GoodsApart
    <2>2. CASE r = s
      BY <1>2, <1>5, <2>2 DEF GoodsMine
    <2>3. CASE q = s
      BY <1>2, <1>5, <2>3 DEF GoodsMine
    <2> QED BY <2>1, <2>2, <2>3
  <1>6. GoodsApart'
    BY <1>1, <1>5 DEF GoodsApart
  <1>7. (\A q \in DOMAIN plan : GoodsInserted(q))'
    BY <1>1, <1>4
  <1> QED BY <1>6, <1>7 DEF GoodsInserts

---------------------------------------------------------------------------
(* The pieces that a request has inserted come from nowhere, and are the    *)
(* only change.                                                             *)
LEMMA GoodsObtains ==
    ASSUME GoodsInv, GoodsInserts, NEW s \in DOMAIN plan, IsRunning(s),
           NEW src \in {"box", "exchange", "craft", "raid", "battle", "world_boss"}, Obtain(s, src)
    PROVE  /\ piece' \in [Pieces -> LoosePiece] /\ inserted[s] \subseteq Pieces
           /\ \A p \in inserted[s] : piece[p] = Unborn /\ piece'[p] = [Unborn EXCEPT !.from = src]
           /\ \A q \in Pieces : q \notin inserted[s] => piece'[q] = piece[q]
  <1>1. /\ piece \in [Pieces -> LoosePiece] /\ inserted[s] \subseteq Pieces
    BY GoodsRequests DEF GoodsInv, GoodsTables, GoodsControl
  <1>2. \A p \in inserted[s] : piece[p] = Unborn
    BY DEF GoodsInserts, GoodsInserted
  <1>3. piece' = [p \in Pieces |-> IF p \in inserted[s] THEN [Unborn EXCEPT !.from = src] ELSE piece[p]]
    BY DEF Obtain
  <1>4. [Unborn EXCEPT !.from = src] \in LoosePiece
    <2>1. PICK w : w = Unborn
      OBVIOUS
    <2>2. w \in LoosePiece
      BY <2>1 DEF Unborn, LoosePiece
    <2>3. [w EXCEPT !.from = src] \in LoosePiece
      BY <2>2 DEF LoosePiece
    <2> QED BY <2>1, <2>3
  <1>5. piece' \in [Pieces -> LoosePiece]
    BY <1>1, <1>3, <1>4
  <1> QED BY <1>1, <1>2, <1>3, <1>5

GoodsGearSame(p) ==
    \A pet \in away \cap away' :
        IsHere(p)' /\ piece'[p].wearer = pet <=> IsHere(p) /\ piece[p].wearer = pet /\ piece'[p].end # "broken"

LEMMA GoodsGear ==
    ASSUME \A p \in Pieces : GoodsGearSame(p)
    PROVE  StaysGeared
  <1>1. ASSUME NEW pet \in away \cap away'
        PROVE  WornBy(pet)' = WornBy(pet) \ {p \in Pieces : piece'[p].end = "broken"}
    <2>1. ASSUME NEW p PROVE p \in WornBy(pet)' <=> p \in Pieces /\ IsHere(p)' /\ piece'[p].wearer = pet
      BY DEF WornBy, Here
    <2>2. ASSUME NEW p PROVE p \in WornBy(pet) <=> p \in Pieces /\ IsHere(p) /\ piece[p].wearer = pet
      BY DEF WornBy, Here
    <2>3. \A p : p \in WornBy(pet)' <=> p \in WornBy(pet) \ {x \in Pieces : piece'[x].end = "broken"}
      BY <1>1, <2>1, <2>2 DEF GoodsGearSame
    <2> QED BY <2>3
  <1> QED BY <1>1 DEF StaysGeared

(* What is as it was is worn as it was. *)
LEMMA GoodsGearUnchanged ==
    ASSUME NEW p, piece'[p] = piece[p]
    PROVE  GoodsGearSame(p) /\ (IsHere(p)' <=> IsHere(p))
  BY DEF GoodsGearSame, IsHere

GoodsKept(s) ==
    /\ GoodsAlone(s) /\ GoodsOwn(s) /\ GoodsMine(s)
    /\ GoodsControl' /\ GoodsTables' /\ GoodsStage(s)'
    /\ GoodsEnd' /\ GoodsFit' /\ CraftsAddUp'
    /\ StaysGeared

LEMMA GoodsFixed ==
    ASSUME GoodsInv, GoodsEnd, NEW s,
           piece' = piece, away' = away, job' = job, pity' = pity, claims' = claims, log' = log
    PROVE  GoodsOwn(s) /\ GoodsTables' /\ GoodsEnd' /\ StaysGeared
  <1>1. GoodsTables'
    <2>1. GoodsTables
      BY DEF GoodsInv
    <2> QED BY <2>1 DEF GoodsTables, LoosePiece
  <1>2. GoodsEnd'
    BY DEF GoodsEnd, IsEnding
  <1>3. \A p \in Pieces : GoodsGearSame(p) /\ (IsHere(p)' <=> IsHere(p))
    BY GoodsGearUnchanged
  <1>4. StaysGeared
    BY <1>3, GoodsGear
  <1>5. GoodsOwn(s)
    BY <1>3 DEF GoodsOwn
  <1> QED BY <1>1, <1>2, <1>4, <1>5

(* A request that ends without a change to pieces or crafts. *)
LEMMA GoodsQuietEnd ==
    ASSUME GoodsSafe, NEW s \in DOMAIN plan, NEW v \in {Committed, RolledBack},
           plan' = plan, pos' = [pos EXCEPT ![s] = v], Release(s), GoodsLeaves(s, v), IsRunning(s),
           piece' = piece, away' = away, job' = job, pity' = pity, claims' = claims, log' = log,
           Kind(s) # "start" \/ v # Committed
    PROVE  GoodsKept(s)
  <1>1. GoodsInv /\ GoodsEnd /\ GoodsFit /\ CraftsAddUp /\ GoodsControl
    BY DEF GoodsSafe, GoodsInv
  <1>2. GoodsAlone(s) /\ GoodsControl' /\ ~IsRunning(s)' /\ GoodsStage(s)' /\ pos'[s] = v /\ GoodsMine(s)
    BY <1>1, GoodsEnds
  <1>3. GoodsOwn(s) /\ GoodsTables' /\ GoodsEnd' /\ StaysGeared
    BY <1>1, GoodsFixed
  <1>5. GoodsFit'
    <2>1. Here' = Here
      BY DEF Here, IsHere
    <2>2. CASE v = Committed
      BY <1>1, <2>1, <2>2, GoodsFitCommits DEF GoodsLeaves
    <2>3. CASE v # Committed
      BY <1>1, <2>1, <2>3, GoodsFitUndone DEF GoodsLeaves
    <2> QED BY <2>2, <2>3
  <1>6. CraftsAddUp'
    <2>1. pos[s] # Committed
      BY DEF IsRunning
    <2>2. Started' = Started
      BY <1>1, <1>2, <2>1, GoodsStarts
    <2> QED BY <1>1, <2>2, GoodsCraftsKept
  <1> QED BY <1>2, <1>3, <1>5, <1>6 DEF GoodsKept

LEMMA GoodsBegins ==
    ASSUME GoodsSafe, NEW s \in DOMAIN plan, Begin(s)
    PROVE  GoodsKept(s)
  <1>1. GoodsInv /\ GoodsEnd /\ GoodsFit /\ CraftsAddUp /\ GoodsControl
    BY DEF GoodsSafe, GoodsInv
  <1>2. /\ plan' = plan /\ holder' = holder /\ pos' = [pos EXCEPT ![s] = 0] /\ pos[s] = NotBegun
        /\ piece' = piece /\ away' = away /\ job' = job /\ pity' = pity /\ claims' = claims /\ log' = log
        /\ inserted' = inserted
    BY DEF Begin, goods
  <1>3. holder' = [x \in Rows |-> IF x = NoRow THEN s ELSE holder[x]]
    <2>1. holder = [x \in Rows |-> holder[x]]
      BY <1>1 DEF GoodsControl
    <2> QED BY <1>2, <2>1, GoodsRows
  <1>4. Free(NoRow, s)
    BY DEF Free
  <1>5. 0 \in Nat /\ {} \in SUBSET Pieces /\ inserted' = [inserted EXCEPT ![s] = @ \cup {}]
    <2>1. inserted \in [Requests -> SUBSET Pieces]
      BY <1>1 DEF GoodsControl
    <2> QED BY <1>2, <2>1
  <1>6. GoodsAlone(s) /\ GoodsControl' /\ pos'[s] = 0
    <2>1. PICK new, v, y : new = {} /\ v = 0 /\ y = NoRow
      OBVIOUS
    <2>2. new \in SUBSET Pieces /\ v \in Nat /\ Free(y, s) /\ GoodsInv
      BY <1>1, <1>4, <2>1
    <2>3. pos' = [pos EXCEPT ![s] = v] /\ plan' = plan
      BY <1>2, <2>1
    <2>4. inserted' = [inserted EXCEPT ![s] = @ \cup new]
      BY <1>5, <2>1
    <2>5. holder' = [x \in Rows |-> IF x = y THEN s ELSE holder[x]]
      BY <1>3, <2>1
    <2>6. /\ GoodsAlone(s) /\ GoodsControl' /\ IsRunning(s)' /\ pos'[s] = v
          /\ inserted'[s] = inserted[s] \cup new
          /\ \A x \in Rows : holder[x] = s => holder'[x] = s
          /\ y \in Rows => holder'[y] = s
      BY <2>2, <2>3, <2>4, <2>5, GoodsTakes
    <2> QED BY <2>1, <2>6
  <1>7. GoodsOwn(s) /\ GoodsTables' /\ GoodsEnd' /\ StaysGeared
    BY <1>1, <1>2, GoodsFixed
  <1>8. plan \in Plans /\ Len(StepsOf(s))' \in Nat \ {0}
    <2>1. plan \in Plans /\ plan' \in Plans /\ s \in DOMAIN plan'
      BY <1>1, <1>2 DEF GoodsControl
    <2> QED BY <2>1, GoodsStepsNext DEF AllStepsKnown
  <1>9. ~IsAtEnd(s)'
    BY <1>6, <1>8 DEF IsAtEnd
  <1>10. inserted[s] = {} /\ inserted'[s] = {}
    BY <1>1, <1>2 DEF GoodsSafe, GoodsInserts, GoodsInserted, IsRunning, NotBegun, Committed
  <1>15. GoodsMine(s)
    BY <1>9, <1>10 DEF GoodsMine, GoodsInserted
  <1>11. GoodsFit'
    <2>1. Here' = Here
      BY <1>2 DEF Here, IsHere
    <2>2. \A r \in DOMAIN plan : inserted'[r] = inserted[r] /\ (pos'[r] = Committed <=> pos[r] = Committed)
      BY <1>2, <1>6 DEF GoodsAlone, NotBegun, Committed
    <2> QED BY <1>1, <1>2, <2>1, <2>2, GoodsFitStays
  <1>12. CraftsAddUp'
    <2>1. pos[s] # Committed /\ pos'[s] # Committed
      BY <1>2, <1>6 DEF NotBegun, Committed
    <2>2. Started' = Started
      BY <1>1, <1>6, <2>1, GoodsStarts
    <2> QED BY <1>1, <1>2, <2>2, GoodsCraftsKept
  <1>13. Cardinality(Named(s))' \in Nat /\ \A p \in Named(s)' : Place(Named(s)', p) \in Nat \ {0}
    <2>1. Named(s)' = Named(s) /\ Named(s) \in SUBSET Nat /\ IsFiniteSet(Named(s)) /\ Cardinality(Named(s)) \in Nat
      BY <1>2, <1>8, GoodsRequests, GoodsSamePlan
    <2>2. \A p \in Named(s) : Place(Named(s), p) \in 1..Cardinality(Named(s))
      BY <2>1, GoodsPlace
    <2>3. \A p \in Named(s) : Place(Named(s), p) \in Nat \ {0}
      BY <2>1, <2>2
    <2> QED BY <2>1, <2>3
  <1>14. GoodsStage(s)'
    <2>1. /\ (pos[s] \in Nat)' /\ (pos[s] <= Len(StepsOf(s)))'
          /\ ~(pos'[s] >= 1) /\ ~(pos'[s] >= 2)
      BY <1>6, <1>8
    <2>2. \A p \in Named(s)' : ~(Place(Named(s)', p) <= pos'[s])
      BY <1>6, <1>13
    <2>3. ~(Cardinality(Named(s))' < pos'[s])
      BY <1>6, <1>13
    <2>4. (~(Brings(s) /\ pos[s] >= QueuedAt(s)))'
      <3>1. Brings(s)' = Brings(s) /\ QueuedAt(s)' = QueuedAt(s)
        BY <1>2, GoodsSamePlan
      <3>2. Brings(s) => QueuedAt(s) \in Nat \ {0}
        BY <1>8, GoodsSteps DEF StepsKnown
      <3> QED BY <1>6, <3>1, <3>2
    <2> QED BY <1>9, <2>1, <2>2, <2>3, <2>4 DEF GoodsStage, Place
  <1> QED BY <1>6, <1>7, <1>11, <1>12, <1>14, <1>15 DEF GoodsKept

(* A statement inserts one piece at most, whose id is new. *)
LEMMA GoodsInsertions ==
    ASSUME NEW s, NEW st, Fits(s, st), NEW new \in Inserts(s, st)
    PROVE  /\ new = {} \/ (\E p \in Fresh : new = {p} /\ HasRoom(s) /\ MayInsert(st))
           /\ ~MayInsert(st) => new = {}
           /\ st = Grant => new # {}
  <1>1. CASE st[1] = "grant"
    <2>1. HasRoom(s)
      BY <1>1 DEF Fits
    <2>2. \E p \in NextId : new = {p}
      BY <1>1 DEF Inserts
    <2> QED BY <1>1, <2>1, <2>2 DEF NextId, MayInsert
  <1>2. CASE st[1] = "award"
    <2>1. st # Grant
      BY <1>2 DEF Grant
    <2>2. new = {} \/ (HasRoom(s) /\ \E p \in NextId : new = {p})
      BY <1>2 DEF Inserts
    <2> QED BY <1>2, <2>1, <2>2 DEF NextId, MayInsert
  <1>3. CASE st[1] = "drop"
    <2>1. st # Grant
      BY <1>3 DEF Grant
    <2>2. new = {} \/ (HasRoom(s) /\ \E p \in NextId : new = {p})
      BY <1>3 DEF Inserts
    <2> QED BY <1>3, <2>1, <2>2 DEF NextId, MayInsert
  <1>4. CASE ~MayInsert(st)
    <2>1. st # Grant
      BY <1>4 DEF Grant, MayInsert
    <2>2. new = {}
      BY <1>4 DEF Inserts, MayInsert
    <2> QED BY <1>4, <2>1, <2>2
  <1> QED BY <1>1, <1>2, <1>3, <1>4 DEF MayInsert

(* One statement more. *)
LEMMA GoodsGoes ==
    ASSUME GoodsSafe, NEW s \in DOMAIN plan, Go(s)
    PROVE  GoodsKept(s)
  <1>1. GoodsInv /\ GoodsEnd /\ GoodsFit /\ CraftsAddUp /\ GoodsControl /\ GoodsStage(s) /\ plan \in Plans
    BY DEF GoodsSafe, GoodsInv, GoodsControl
  <1>2. PICK st : st = NextStep(s)
    OBVIOUS
  <1>3. /\ plan' = plan /\ pos' = [pos EXCEPT ![s] = @ + 1] /\ IsRunning(s) /\ ~IsAtEnd(s)
        /\ Free(st[2], s) /\ Fits(s, st)
        /\ holder' = [x \in Rows |-> IF x = st[2] THEN s ELSE holder[x]]
        /\ piece' = piece /\ away' = away /\ job' = job /\ pity' = pity /\ claims' = claims /\ log' = log
        /\ \E new \in Inserts(s, st) : inserted' = [inserted EXCEPT ![s] = @ \cup new]
    BY <1>2 DEF Go, goods
  <1>4. PICK k : k = pos[s]
    OBVIOUS
  <1>5. k \in Nat /\ k < Len(StepsOf(s)) /\ Len(StepsOf(s)) = StepsLength(s) /\ StepsLength(s) \in Nat /\ StepsKnown(s)
    BY <1>1, <1>3, <1>4, GoodsSteps DEF GoodsStage, IsAtEnd
  <1>6. st = StepsOf(s)[k + 1] /\ k + 1 \in Nat /\ pos' = [pos EXCEPT ![s] = k + 1]
    BY <1>2, <1>3, <1>4, <1>5 DEF NextStep
  <1>7. PICK y : y = st[2]
    OBVIOUS
  <1>16. PICK new \in Inserts(s, st) : inserted' = [inserted EXCEPT ![s] = @ \cup new]
    BY <1>3
  <1>17. /\ new = {} \/ (\E p \in Fresh : new = {p} /\ HasRoom(s) /\ MayInsert(st))
         /\ ~MayInsert(st) => new = {}
         /\ st = Grant => new # {}
    BY <1>3, GoodsInsertions
  <1>18. /\ new \in SUBSET Pieces /\ \A p \in new : piece[p] = Unborn
         /\ \A q \in DOMAIN plan : new \cap inserted[q] = {}
    BY <1>17 DEF Fresh
  <1>8. /\ GoodsAlone(s) /\ GoodsControl' /\ IsRunning(s)' /\ pos'[s] = k + 1
        /\ \A x \in Rows : holder[x] = s => holder'[x] = s
        /\ y \in Rows => holder'[y] = s
        /\ inserted'[s] = inserted[s] \cup new
    <2>1. Free(y, s) /\ holder' = [x \in Rows |-> IF x = y THEN s ELSE holder[x]]
      BY <1>3, <1>7
    <2>2. GoodsInv /\ plan' = plan /\ k + 1 \in Nat /\ new \in SUBSET Pieces /\ pos' = [pos EXCEPT ![s] = k + 1]
      BY <1>1, <1>3, <1>6, <1>18
    <2>3. /\ GoodsAlone(s) /\ GoodsControl' /\ IsRunning(s)' /\ pos'[s] = k + 1
          /\ inserted'[s] = inserted[s] \cup new
          /\ \A x \in Rows : holder[x] = s => holder'[x] = s
          /\ y \in Rows => holder'[y] = s
      BY <1>16, <2>1, <2>2, GoodsTakes
    <2> QED BY <2>3
  <1>9. GoodsOwn(s) /\ GoodsTables' /\ GoodsEnd' /\ StaysGeared
    BY <1>1, <1>3, GoodsFixed
  <1>10. /\ Kind(s)' = Kind(s) /\ Named(s)' = Named(s) /\ ThePiece(s)' = ThePiece(s) /\ Pet(s)' = Pet(s)
         /\ Queue(s)' = Queue(s) /\ QueuedAt(s)' = QueuedAt(s) /\ Brings(s)' = Brings(s)
         /\ StepsLength(s)' = StepsLength(s)
    BY <1>3, GoodsSamePlan
  <1>11. Len(StepsOf(s))' = StepsLength(s) /\ k + 1 <= StepsLength(s)
    <2>1. Len(StepsOf(s))' = StepsLength(s)'
      <3>1. plan' \in Plans /\ s \in DOMAIN plan'
        BY <1>1, <1>3
      <3> QED BY <3>1, GoodsStepsNext DEF AllStepsKnown
    <2> QED BY <1>5, <1>10, <2>1
  <1>12. IsAtEnd(s)' <=> k + 1 = StepsLength(s)
    BY <1>8, <1>11 DEF IsAtEnd
  <1>13. CraftsAddUp'
    <2>1. pos[s] # Committed /\ pos'[s] # Committed
      BY <1>3, <1>5, <1>8 DEF IsRunning, Committed
    <2>2. Started' = Started
      BY <1>1, <1>8, <2>1, GoodsStarts
    <2> QED BY <1>1, <1>3, <2>2, GoodsCraftsKept
  <1>19. k + 1 \in 1..StepsLength(s) /\ (MayInsert(st) => Brings(s) /\ k + 1 > QueuedAt(s))
    <2>1. k + 1 \in 1..StepsLength(s)
      BY <1>5, <1>11
    <2> QED BY <1>5, <1>6, <2>1 DEF StepsKnown
  <1>20. Brings(s) => QueuedAt(s) \in Nat
    BY <1>5 DEF StepsKnown
  <1>14. GoodsFit'
    <2>1. Here' = Here
      BY <1>3 DEF Here, IsHere
    <2>2. \A r \in DOMAIN plan : pos'[r] = Committed <=> pos[r] = Committed
      BY <1>3, <1>5, <1>8 DEF GoodsAlone, IsRunning, Committed
    <2>3. CASE new = {}
      <3>1. \A r \in DOMAIN plan : inserted'[r] = inserted[r]
        BY <1>8, <2>3 DEF GoodsAlone
      <3> QED BY <1>1, <1>3, <2>1, <2>2, <3>1, GoodsFitStays
    <2>4. CASE new # {}
      <3>1. PICK p \in Fresh : new = {p} /\ HasRoom(s) /\ MayInsert(st)
        BY <1>17, <2>4
      <3>2. p \in Pieces /\ inserted' = [inserted EXCEPT ![s] = @ \cup {p}]
        BY <1>16, <3>1 DEF Fresh
      <3>3. Brings(s) /\ k >= QueuedAt(s)
        BY <1>5, <1>19, <1>20, <3>1
      <3>4. holder[Queue(s)] = s
        BY <1>1, <1>3, <1>4, <3>3 DEF GoodsStage
      <3>5. GoodsInserts
        BY DEF GoodsSafe
      <3> QED BY <1>1, <1>3, <2>1, <2>2, <3>1, <3>2, <3>4, <3>5, GoodsFitGrows
    <2> QED BY <2>3, <2>4
  <1>21. GoodsMine(s)
    <2>1. GoodsInserts /\ GoodsInserted(s)
      BY DEF GoodsSafe, GoodsInserts
    <2>2. /\ \A p \in inserted[s] : piece[p] = Unborn
          /\ inserted[s] # {} => Brings(s) /\ k >= QueuedAt(s)
          /\ Kind(s) = "claim" => inserted[s] = {}
      BY <1>3, <1>4, <2>1 DEF GoodsInserted
    <2>3. \A p \in inserted'[s] : piece'[p] = Unborn
      BY <1>3, <1>8, <1>18, <2>2
    <2>4. inserted'[s] # {} => Brings(s) /\ k + 1 >= QueuedAt(s)
      <3>1. CASE new # {}
        BY <1>5, <1>17, <1>19, <1>20, <3>1
      <3>2. CASE new = {}
        <4>1. inserted'[s] = inserted[s]
          BY <1>8, <3>2
        <4> QED BY <1>5, <1>20, <2>2, <4>1
      <3> QED BY <3>1, <3>2
    <2>5. Kind(s) = "claim" /\ k + 1 = StepsLength(s) => \E p \in Pieces : inserted'[s] = {p}
      <3>1. ASSUME Kind(s) = "claim", k + 1 = StepsLength(s) PROVE \E p \in Pieces : inserted'[s] = {p}
        <4>1. st = Grant
          BY <1>5, <1>6, <1>19, <3>1 DEF StepsKnown
        <4>2. PICK p \in Fresh : new = {p}
          BY <1>17, <4>1
        <4>3. p \in Pieces /\ inserted'[s] = {p}
          BY <1>8, <2>2, <3>1, <4>2 DEF Fresh
        <4> QED BY <4>3
      <3> QED BY <3>1
    <2>6. Kind(s) = "claim" /\ k + 1 # StepsLength(s) => inserted'[s] = {}
      <3>1. ASSUME Kind(s) = "claim", k + 1 # StepsLength(s) PROVE inserted'[s] = {}
        <4>1. ~MayInsert(st)
          BY <1>5, <1>6, <1>19, <3>1 DEF StepsKnown
        <4> QED BY <1>8, <1>17, <2>2, <3>1, <4>1
      <3> QED BY <3>1
    <2>7. GoodsInserted(s)'
      <3>1. /\ \A p \in inserted'[s] : piece'[p] = Unborn
            /\ inserted'[s] # {} => Brings(s)' /\ pos'[s] >= QueuedAt(s)'
            /\ Kind(s)' = "claim" /\ IsAtEnd(s)' => \E p \in Pieces : inserted'[s] = {p}
            /\ Kind(s)' = "claim" /\ ~IsAtEnd(s)' => inserted'[s] = {}
        BY <1>8, <1>10, <1>12, <2>3, <2>4, <2>5, <2>6
      <3> QED BY <1>8, <3>1 DEF GoodsInserted, Unborn
    <2>8. \A q \in DOMAIN plan : q # s /\ IsRunning(q) => inserted'[s] \cap inserted[q] = {}
      <3>1. \A q \in DOMAIN plan : q # s /\ IsRunning(q) => inserted[s] \cap inserted[q] = {}
        BY <1>3, <2>1 DEF GoodsInserts, GoodsApart
      <3> QED BY <1>8, <1>18, <3>1
    <2> QED BY <1>3, <2>7, <2>8 DEF GoodsMine
  <1>15. GoodsStage(s)'
    <2>1. ASSUME NEW row, st = Lock(row) PROVE LockFits(s, row) /\ (row \in Rows => holder'[row] = s)
      <3>1. st[1] = "lock" /\ st[2] = row
        BY <2>1 DEF Lock
      <3>2. LockFits(s, row)
        BY <1>3, <3>1 DEF Fits
      <3> QED BY <1>7, <1>8, <3>1, <3>2
    <2>2. \A p \in Pieces : st = Lock(Row(p)) => HoldsPiece(s, p)' /\ PieceFits(s, p)
      <3>1. ASSUME NEW p \in Pieces, st = Lock(Row(p)) PROVE HoldsPiece(s, p)' /\ PieceFits(s, p)
        <4>1. LockFits(s, Row(p)) /\ holder'[Row(p)] = s
          BY <2>1, <3>1, GoodsRows
        <4>2. Row(p)[1] = "piece" /\ Row(p)[2] = p
          BY GoodsRows
        <4>3. PieceFits(s, p)
          BY <4>1, <4>2 DEF LockFits
        <4>4. IsHere(p)'
          BY <1>3, <4>3 DEF PieceFits, IsHere
        <4> QED BY <4>1, <4>3, <4>4 DEF HoldsPiece, Row
      <3> QED BY <3>1
    <2>3. \A p \in Pieces : HoldsPiece(s, p) => HoldsPiece(s, p)'
      <3>1. ASSUME NEW p \in Pieces, HoldsPiece(s, p) PROVE HoldsPiece(s, p)'
        <4>1. holder[Row(p)] = s /\ IsHere(p) /\ Row(p) \in Rows
          BY <3>1, GoodsRows DEF HoldsPiece
        <4>2. holder'[Row(p)] = s /\ IsHere(p)'
          BY <1>3, <1>8, <4>1 DEF IsHere
        <4> QED BY <4>2 DEF HoldsPiece, Row
      <3> QED BY <3>1
    <2>4. /\ Named(s) \subseteq Pieces /\ Named(s) \in SUBSET Nat /\ IsFiniteSet(Named(s)) /\ Cardinality(Named(s)) \in Nat
          /\ Kind(s) \in OfOnePiece => ThePiece(s) \in Pieces
      BY <1>1, GoodsRequests
    <2>5. Brings(s) /\ k + 1 >= QueuedAt(s) => holder'[Queue(s)] = s
      <3>1. CASE Brings(s) /\ k + 1 = QueuedAt(s)
        <4>1. st = Lock(Queue(s))
          BY <1>5, <1>6, <3>1 DEF StepsKnown
        <4> QED BY <1>1, <2>1, <4>1, GoodsQueue
      <3>2. CASE Brings(s) /\ k >= QueuedAt(s)
        <4>1. holder[Queue(s)] = s
          BY <1>1, <1>3, <1>4, <3>2 DEF GoodsStage
        <4> QED BY <1>1, <1>8, <4>1, GoodsQueue
      <3> QED BY <1>5, <1>20, <3>1, <3>2
    <2>7. Kind(s) = "claim" => holder'[Job] = s /\ job'.active
      <3>1. CASE k = 0 /\ Kind(s) = "claim"
        <4>1. st = Lock(Job)
          BY <1>5, <1>6, <3>1 DEF StepsKnown
        <4>2. LockFits(s, Job) /\ holder'[Job] = s
          BY <2>1, <4>1, GoodsRows
        <4>3. job.active
          BY <4>2, GoodsRows DEF LockFits
        <4> QED BY <1>3, <4>2, <4>3
      <3>2. CASE k >= 1 /\ Kind(s) = "claim"
        <4>1. holder[Job] = s /\ job.active
          BY <1>1, <1>3, <1>4, <3>2 DEF GoodsStage
        <4> QED BY <1>3, <1>8, <4>1, GoodsRows
      <3> QED BY <1>5, <3>1, <3>2
    <2>8. Kind(s) = "start" /\ k + 1 = StepsLength(s) => holder'[Job] = s /\ ~job'.active
      <3>1. ASSUME Kind(s) = "start", k + 1 = StepsLength(s) PROVE holder'[Job] = s /\ ~job'.active
        <4>1. st = <<"idle", Job>>
          BY <1>5, <1>6, <3>1 DEF StepsKnown
        <4>2. y = Job /\ st[1] = "idle"
          BY <1>7, <4>1
        <4>3. ~job.active
          BY <1>3, <4>2 DEF Fits
        <4> QED BY <1>3, <1>8, <4>2, <4>3, GoodsRows
      <3> QED BY <3>1
    <2>9. Kind(s) \in {"enhance", "refine", "keep", "discard"} => HoldsPiece(s, ThePiece(s))'
      <3>1. ASSUME Kind(s) \in {"enhance", "refine", "keep", "discard"}, NEW p \in Pieces, p = ThePiece(s)
            PROVE HoldsPiece(s, p)'
        <4>1. CASE k = 0
          <5>1. st = Lock(Row(p))
            BY <1>5, <1>6, <3>1, <4>1 DEF StepsKnown
          <5> QED BY <2>2, <3>1, <5>1
        <4>2. CASE k >= 1
          <5>1. HoldsPiece(s, p)
            BY <1>1, <1>3, <1>4, <3>1, <4>2 DEF GoodsStage
          <5> QED BY <2>3, <3>1, <5>1
        <4> QED BY <1>5, <4>1, <4>2
      <3>2. ASSUME Kind(s) \in {"enhance", "refine", "keep", "discard"} PROVE HoldsPiece(s, ThePiece(s))'
        <4>1. PICK p : p = ThePiece(s)
          OBVIOUS
        <4>2. p \in Pieces /\ p = ThePiece(s)'
          BY <1>10, <2>4, <3>2, <4>1 DEF OfOnePiece
        <4>3. HoldsPiece(s, p)'
          BY <3>1, <3>2, <4>1, <4>2
        <4> QED BY <4>2, <4>3
      <3> QED BY <3>2
    <2>10. Kind(s) = "dismantle" =>
              \A p \in Named(s) : /\ Place(Named(s), p) <= k + 1 => HoldsPiece(s, p)'
                                  /\ Cardinality(Named(s)) < k + 1 => piece'[p].wearer = NoPet
      <3>1. ASSUME Kind(s) = "dismantle", NEW p \in Named(s)
            PROVE  /\ Place(Named(s), p) <= k + 1 => HoldsPiece(s, p)'
                   /\ Cardinality(Named(s)) < k + 1 => piece'[p].wearer = NoPet
        <4>1. p \in Pieces /\ Place(Named(s), p) \in 1..Cardinality(Named(s))
          BY <2>4, <3>1, GoodsPlace
        <4>2. /\ Place(Named(s), p) <= k => HoldsPiece(s, p)
              /\ Cardinality(Named(s)) < k => piece[p].wearer = NoPet
          BY <1>1, <1>3, <1>4, <3>1 DEF GoodsStage
        <4>3. Place(Named(s), p) = k + 1 => st = Lock(Row(p))
          BY <1>5, <1>6, <3>1 DEF StepsKnown
        <4>4. Cardinality(Named(s)) = k => piece[p].wearer = NoPet
          <5>1. ASSUME Cardinality(Named(s)) = k PROVE piece[p].wearer = NoPet
            <6>1. st = Read("unworn")
              BY <1>5, <1>6, <3>1, <5>1 DEF StepsKnown
            <6>2. \A q \in Named(s) : piece[q].wearer = NoPet
              BY <1>3, <6>1 DEF Fits, Read
            <6> QED BY <3>1, <6>2
          <5> QED BY <5>1
        <4>5. Place(Named(s), p) <= k + 1 => HoldsPiece(s, p)'
          <5>1. Place(Named(s), p) <= k + 1 => Place(Named(s), p) <= k \/ Place(Named(s), p) = k + 1
            BY <1>5, <4>1
          <5> QED BY <2>2, <2>3, <4>1, <4>2, <4>3, <5>1
        <4>6. Cardinality(Named(s)) < k + 1 => Cardinality(Named(s)) < k \/ Cardinality(Named(s)) = k
          BY <1>5, <2>4
        <4> QED BY <1>3, <4>2, <4>4, <4>5, <4>6
      <3> QED BY <3>1
    <2>11. /\ Kind(s) \in {"equip", "unequip", "explore", "collect"} => holder'[Roster] = s
           /\ Kind(s) = "unequip" => Pet(s) \notin away
      <3>1. CASE k = 0 /\ Kind(s) \in {"equip", "unequip", "explore", "collect"}
        <4>1. st = Lock(Roster)
          BY <1>5, <1>6, <3>1 DEF StepsKnown
        <4>2. LockFits(s, Roster) /\ holder'[Roster] = s
          BY <2>1, <4>1, GoodsRows
        <4>3. RosterFits(s)
          BY <4>2, GoodsRows DEF LockFits
        <4> QED BY <4>2, <4>3 DEF RosterFits
      <3>2. CASE k >= 1 /\ Kind(s) \in {"equip", "unequip", "explore", "collect"}
        <4>1. holder[Roster] = s /\ (Kind(s) = "unequip" => Pet(s) \notin away)
          BY <1>1, <1>3, <1>4, <3>2 DEF GoodsStage
        <4> QED BY <1>8, <4>1, GoodsRows
      <3> QED BY <1>5, <3>1, <3>2
    <2>12. Kind(s) = "equip" /\ k + 1 >= 2 =>
              /\ HoldsPiece(s, ThePiece(s))'
              /\ Pet(s) \notin away /\ piece[ThePiece(s)].wearer \notin away
      <3>1. ASSUME Kind(s) = "equip", k + 1 >= 2, NEW p \in Pieces, p = ThePiece(s)
            PROVE  HoldsPiece(s, p)' /\ Pet(s) \notin away /\ piece[p].wearer \notin away
        <4>1. CASE k = 1
          <5>1. st = Lock(Row(p))
            BY <1>5, <1>6, <3>1, <4>1 DEF StepsKnown
          <5>2. HoldsPiece(s, p)' /\ PieceFits(s, p)
            BY <2>2, <3>1, <5>1
          <5>3. {Pet(s), piece[p].wearer} \cap away = {}
            BY <3>1, <5>2 DEF PieceFits, CanEquip
          <5> QED BY <5>2, <5>3
        <4>2. CASE k >= 2
          <5>1. HoldsPiece(s, p) /\ Pet(s) \notin away /\ piece[p].wearer \notin away
            BY <1>1, <1>3, <1>4, <3>1, <4>2 DEF GoodsStage
          <5> QED BY <2>3, <3>1, <5>1
        <4> QED BY <1>5, <3>1, <4>1, <4>2
      <3>2. ASSUME Kind(s) = "equip", k + 1 >= 2
            PROVE  /\ HoldsPiece(s, ThePiece(s))'
                   /\ Pet(s) \notin away /\ piece[ThePiece(s)].wearer \notin away
        <4>1. PICK p : p = ThePiece(s)
          OBVIOUS
        <4>2. p \in Pieces /\ p = ThePiece(s)'
          BY <1>10, <2>4, <3>2, <4>1 DEF OfOnePiece
        <4>3. HoldsPiece(s, p)' /\ Pet(s) \notin away /\ piece[p].wearer \notin away
          BY <3>1, <3>2, <4>1, <4>2
        <4> QED BY <4>1, <4>2, <4>3
      <3> QED BY <3>2
    <2>13. /\ (pos[s] \in Nat)' /\ (pos[s] <= Len(StepsOf(s)))'
           /\ (Brings(s) /\ pos[s] >= QueuedAt(s) => holder[Queue(s)] = s)'
           /\ (Kind(s) = "claim" /\ pos[s] >= 1 => holder[Job] = s /\ job.active)'
           /\ (Kind(s) = "start" /\ IsAtEnd(s) => holder[Job] = s /\ ~job.active)'
      BY <1>6, <1>8, <1>10, <1>11, <1>12, <2>5, <2>7, <2>8 DEF Job
    <2>14. /\ (Kind(s) \in {"enhance", "refine", "keep", "discard"} /\ pos[s] >= 1 => HoldsPiece(s, ThePiece(s)))'
           /\ (Kind(s) = "dismantle" =>
                \A p \in Named(s) : /\ Place(Named(s), p) <= pos[s] => HoldsPiece(s, p)
                                    /\ Cardinality(Named(s)) < pos[s] => piece[p].wearer = NoPet)'
      BY <1>8, <1>10, <2>9, <2>10 DEF Place
    <2>15. /\ (Kind(s) \in {"equip", "unequip", "explore", "collect"} /\ pos[s] >= 1 => holder[Roster] = s)'
           /\ (Kind(s) = "unequip" /\ pos[s] >= 1 => Pet(s) \notin away)'
           /\ (Kind(s) = "equip" /\ pos[s] >= 2 =>
                /\ HoldsPiece(s, ThePiece(s))
                /\ Pet(s) \notin away /\ piece[ThePiece(s)].wearer \notin away)'
      BY <1>3, <1>8, <1>10, <2>11, <2>12 DEF Roster
    <2> QED BY <2>13, <2>14, <2>15 DEF GoodsStage
  <1> QED BY <1>8, <1>9, <1>13, <1>14, <1>15, <1>21 DEF GoodsKept

---------------------------------------------------------------------------
(* A request that commits. *)
LEMMA GoodsCommits ==
    ASSUME GoodsSafe, NEW s \in DOMAIN plan, NEW K, Ends(s, K)
    PROVE  /\ GoodsAlone(s) /\ GoodsControl' /\ ~IsRunning(s)' /\ GoodsStage(s)'
           /\ plan' = plan /\ pos' = [pos EXCEPT ![s] = Committed] /\ inserted' = inserted /\ GoodsMine(s)
           /\ IsRunning(s) /\ IsAtEnd(s) /\ Kind(s) \in K
           /\ pos[s] = StepsLength(s) /\ pos[s] >= 1 /\ GoodsStage(s) /\ Len(StepsOf(s)) = StepsLength(s)
           /\ (Kind(s) # "start" => Started' = Started) /\ (Kind(s) = "start" => Started' = Started + 1) /\ Started \in Nat
  <1>1. GoodsInv /\ GoodsControl /\ GoodsStage(s) /\ plan \in Plans
    BY DEF GoodsSafe, GoodsInv, GoodsControl
  <1>2. /\ plan' = plan /\ pos' = [pos EXCEPT ![s] = Committed] /\ Release(s)
        /\ IsRunning(s) /\ IsAtEnd(s) /\ Kind(s) \in K /\ inserted' = inserted
    BY DEF Ends
  <1>3. GoodsAlone(s) /\ GoodsControl' /\ ~IsRunning(s)' /\ GoodsStage(s)' /\ pos'[s] = Committed /\ GoodsMine(s)
    <2>1. Committed \in {Committed, RolledBack} /\ GoodsLeaves(s, Committed)
      BY <1>2 DEF GoodsLeaves
    <2> QED BY <1>1, <1>2, <2>1, GoodsEnds
  <1>4. Len(StepsOf(s)) = StepsLength(s) /\ StepsLength(s) \in Nat \ {0}
    BY <1>1, GoodsSteps
  <1>5. pos[s] = StepsLength(s) /\ pos[s] >= 1
    BY <1>2, <1>4 DEF IsAtEnd
  <1>6. (Kind(s) # "start" => Started' = Started) /\ (Kind(s) = "start" => Started' = Started + 1) /\ Started \in Nat
    <2>1. pos[s] # Committed
      BY <1>2 DEF IsRunning
    <2> QED BY <1>1, <1>3, <2>1, GoodsStarts
  <1> QED BY <1>1, <1>2, <1>3, <1>4, <1>5, <1>6

(* It may change pieces, when none is new, *)
LEMMA GoodsChanges ==
    ASSUME GoodsSafe, NEW s \in DOMAIN plan, NEW K, Ends(s, K), GoodsOwn(s), GoodsTables',
           \A p \in Pieces : piece'[p].from = piece[p].from /\ (IsHere(p)' => IsHere(p)) /\ GoodsGearSame(p),
           GoodsEnd', CraftsAddUp'
    PROVE  GoodsKept(s)
  <1>1. GoodsInv /\ GoodsFit
    BY DEF GoodsSafe
  <1>2. /\ GoodsAlone(s) /\ GoodsControl' /\ ~IsRunning(s)' /\ GoodsStage(s)' /\ GoodsMine(s)
        /\ plan' = plan /\ pos' = [pos EXCEPT ![s] = Committed] /\ inserted' = inserted /\ IsRunning(s)
    BY GoodsCommits
  <1>3. Here' \subseteq Here
    <2>1. \A p : p \in Here' <=> p \in Pieces /\ IsHere(p)'
      BY DEF Here
    <2> QED BY <2>1 DEF Here
  <1>4. GoodsFit'
    BY <1>1, <1>2, <1>3, GoodsFitCommits
  <1>5. StaysGeared
    BY GoodsGear
  <1> QED BY <1>2, <1>4, <1>5 DEF GoodsKept

(* or bring some. *)
LEMMA GoodsBrings ==
    ASSUME GoodsSafe, NEW s \in DOMAIN plan, NEW K, Ends(s, K),
           NEW src \in {"box", "exchange", "craft", "raid", "battle", "world_boss"}, Obtain(s, src),
           job' = job \/ holder[Job] = s, away' = away, log' = log
    PROVE  GoodsOwn(s) /\ GoodsEnd' /\ GoodsFit' /\ StaysGeared
  <1>1. GoodsInv /\ GoodsFit /\ GoodsEnd /\ GoodsInserts /\ away \subseteq Pets /\ NoPet \notin Pets
    BY GoodsRequests DEF GoodsSafe, GoodsInv, GoodsTables, GoodsControl
  <1>2. /\ plan' = plan /\ pos' = [pos EXCEPT ![s] = Committed] /\ inserted' = inserted /\ IsRunning(s)
    BY GoodsCommits
  <1>3. /\ inserted[s] \subseteq Pieces
        /\ \A p \in inserted[s] : piece[p] = Unborn /\ piece'[p] = [Unborn EXCEPT !.from = src]
        /\ \A q \in Pieces : q \notin inserted[s] => piece'[q] = piece[q]
    BY <1>1, <1>2, GoodsObtains
  <1>4. \A p \in inserted[s] : /\ piece[p].from = "none" /\ piece[p].end = "none" /\ piece[p].wearer = NoPet
                               /\ piece'[p].from = src /\ piece'[p].end = "none" /\ piece'[p].wearer = NoPet
    BY <1>3 DEF Unborn
  <1>5. \A p \in Pieces : p \notin inserted[s] => GoodsGearSame(p) /\ (IsHere(p)' <=> IsHere(p))
    BY <1>3, GoodsGearUnchanged
  <1>6. \A p \in inserted[s] : GoodsGearSame(p) /\ ~IsHere(p)
    BY <1>1, <1>4 DEF GoodsGearSame, IsHere
  <1>7. StaysGeared
    <2>1. \A p \in Pieces : GoodsGearSame(p)
      BY <1>5, <1>6
    <2> QED BY <2>1, GoodsGear
  <1>8. GoodsOwn(s)
    BY <1>3, <1>4, <1>5, <1>6 DEF GoodsOwn
  <1>9. GoodsEnd'
    <2>1. ASSUME NEW q \in Pieces
          PROVE  /\ piece'[q].end # "none" =>
                       /\ piece'[q].wearer = NoPet
                       /\ \E e \in log : IsEnding(e, q) /\ \A f \in log : IsEnding(f, q) => f = e
                 /\ piece'[q].end = "none" => \A e \in log : ~IsEnding(e, q)
      <3>1. piece'[q].end = piece[q].end /\ piece'[q].wearer = piece[q].wearer
        BY <1>3, <1>4
      <3> QED BY <1>1, <3>1 DEF GoodsEnd
    <2> QED BY <2>1 DEF GoodsEnd, IsEnding
  <1>10. Here' \subseteq Here \cup inserted[s]
    <2>1. \A p : p \in Here' <=> p \in Pieces /\ IsHere(p)'
      BY DEF Here
    <2> QED BY <1>5, <2>1 DEF Here
  <1>11. GoodsFit'
    BY <1>1, <1>2, <1>10, GoodsFitCommits
  <1> QED BY <1>7, <1>8, <1>9, <1>11

LEMMA GoodsGivesUp ==
    ASSUME GoodsSafe, NEW s \in DOMAIN plan, IsRunning(s), Undo(s)
    PROVE  GoodsKept(s)
  <1>1. /\ plan' = plan /\ pos' = [pos EXCEPT ![s] = RolledBack] /\ Release(s)
        /\ inserted' = [inserted EXCEPT ![s] = {}]
        /\ piece' = piece /\ away' = away /\ job' = job /\ pity' = pity /\ claims' = claims /\ log' = log
    BY DEF Undo, goods
  <1>2. RolledBack \in {Committed, RolledBack} /\ RolledBack # Committed /\ GoodsLeaves(s, RolledBack)
    BY <1>1 DEF RolledBack, Committed, GoodsLeaves
  <1> QED BY <1>1, <1>2, GoodsQuietEnd

LEMMA GoodsPurchases ==
    ASSUME GoodsSafe, NEW s \in DOMAIN plan, Buy(s) \/ BuyCostume(s) \/ Use(s)
    PROVE  GoodsKept(s)
  <1>1. PICK K : Ends(s, K) /\ K \in {{"shop"}, {"costume"}, {"use"}}
    BY DEF Buy, BuyCostume, Use
  <1>2. piece' = piece /\ away' = away /\ job' = job /\ pity' = pity /\ claims' = claims /\ log' = log
    BY DEF Buy, BuyCostume, Use
  <1>3. plan' = plan /\ pos' = [pos EXCEPT ![s] = Committed] /\ Release(s) /\ IsRunning(s) /\ Kind(s) # "start" /\ inserted' = inserted
    BY <1>1 DEF Ends
  <1>4. Committed \in {Committed, RolledBack} /\ GoodsLeaves(s, Committed)
    BY <1>3 DEF GoodsLeaves
  <1> QED BY <1>2, <1>3, <1>4, GoodsQuietEnd

LEMMA GoodsBringsOthers ==
    ASSUME GoodsSafe, NEW s \in DOMAIN plan, BuyBox(s) \/ Exchange(s) \/ WinRaid(s) \/ WinStage(s) \/ ClaimReward(s)
    PROVE  GoodsKept(s)
  <1>1. PICK K, src : /\ Ends(s, K) /\ Obtain(s, src) /\ src \in {"box", "exchange", "raid", "battle", "world_boss"}
                      /\ K \in {{"box"}, {"exchange"}, {"raid"}, {"hunt"}, {"reward"}}
    BY DEF BuyBox, Exchange, WinRaid, WinStage, ClaimReward
  <1>2. away' = away /\ job' = job /\ pity' = pity /\ claims' = claims /\ log' = log
    BY DEF BuyBox, Exchange, WinRaid, WinStage, ClaimReward
  <1>3. GoodsInv /\ GoodsEnd /\ GoodsTables /\ CraftsAddUp /\ GoodsInserts
    BY DEF GoodsSafe, GoodsInv
  <1>4. /\ GoodsAlone(s) /\ GoodsControl' /\ GoodsStage(s)' /\ GoodsMine(s) /\ Kind(s) \in K /\ IsRunning(s)
        /\ Kind(s) # "start" => Started' = Started
    BY <1>1, GoodsCommits
  <1>5. Started' = Started
    BY <1>1, <1>4
  <1>6. /\ piece' \in [Pieces -> LoosePiece] /\ inserted[s] \subseteq Pieces
        /\ \A p \in inserted[s] : piece[p] = Unborn /\ piece'[p] = [Unborn EXCEPT !.from = src]
        /\ \A q \in Pieces : q \notin inserted[s] => piece'[q] = piece[q]
    BY <1>1, <1>3, <1>4, GoodsObtains
  <1>7. GoodsOwn(s) /\ GoodsEnd' /\ GoodsFit' /\ StaysGeared
    BY <1>1, <1>2, GoodsBrings
  <1>8. GoodsTables'
    BY <1>2, <1>3, <1>6 DEF GoodsTables, LoosePiece
  <1>9. CraftsAddUp'
    <2>1. \A p \in inserted[s] : piece[p].from = "none" /\ piece'[p].from = src
      BY <1>6 DEF Unborn
    <2>2. \A q \in Pieces : piece'[q].from = "craft" <=> piece[q].from = "craft"
      BY <1>1, <1>6, <2>1
    <2> QED BY <1>2, <1>3, <1>5, <2>2, GoodsCraftsKept
  <1> QED BY <1>4, <1>7, <1>8, <1>9 DEF GoodsKept

LEMMA GoodsTravels ==
    ASSUME GoodsSafe, NEW s \in DOMAIN plan, Travel(s)
    PROVE  GoodsKept(s)
  <1>1. PICK K : /\ Ends(s, K) /\ K \in {{"explore"}, {"collect"}}
                 /\ away' = away \cup {Pet(s)} \/ away' = away \ {Pet(s)}
    BY DEF Travel
  <1>2. piece' = piece /\ job' = job /\ pity' = pity /\ claims' = claims /\ log' = log
    BY DEF Travel
  <1>3. GoodsInv /\ GoodsEnd /\ GoodsTables /\ CraftsAddUp /\ plan \in Plans
    BY DEF GoodsSafe, GoodsInv, GoodsControl
  <1>4. /\ Kind(s) \in K /\ Kind(s) \in {"explore", "collect"}
        /\ Kind(s) # "start" => Started' = Started
        /\ IsRunning(s) /\ pos[s] >= 1 /\ GoodsStage(s)
    BY <1>1, GoodsCommits
  <1>5. holder[Roster] = s
    BY <1>4 DEF GoodsStage
  <1>6. Pet(s) \in Pets
    BY <1>3, <1>4, GoodsRequests DEF OfOnePet
  <1>7. GoodsTables'
    <2>1. away' \subseteq Pets
      BY <1>1, <1>3, <1>6 DEF GoodsTables
    <2> QED BY <1>2, <1>3, <2>1 DEF GoodsTables, LoosePiece
  <1>8. \A p \in Pieces : GoodsGearSame(p) /\ (IsHere(p)' <=> IsHere(p)) /\ piece'[p].from = piece[p].from
    BY <1>2, GoodsGearUnchanged
  <1>9. GoodsOwn(s)
    BY <1>2, <1>5, <1>8 DEF GoodsOwn
  <1>10. GoodsEnd'
    BY <1>2, <1>3 DEF GoodsEnd, IsEnding
  <1>11. CraftsAddUp'
    <2>1. Started' = Started
      BY <1>4
    <2> QED BY <1>2, <1>3, <2>1, GoodsCraftsKept
  <1> QED BY <1>1, <1>7, <1>8, <1>9, <1>10, <1>11, GoodsChanges

LEMMA GoodsStartsCraft ==
    ASSUME GoodsSafe, NEW s \in DOMAIN plan, StartCraft(s)
    PROVE  GoodsKept(s)
  <1>1. /\ Ends(s, {"start"})
        /\ job' = [active |-> TRUE, catalyst |-> Flag(s), finishAt |-> now[s] + CRAFT_MINUTES]
        /\ piece' = piece /\ away' = away /\ pity' = pity /\ claims' = claims /\ log' = log
    BY DEF StartCraft
  <1>2. GoodsInv /\ GoodsEnd /\ GoodsTables /\ CraftsAddUp
    BY DEF GoodsSafe, GoodsInv
  <1>3. /\ Kind(s) = "start" /\ IsRunning(s) /\ IsAtEnd(s) /\ GoodsStage(s)
        /\ Started' = Started + 1 /\ Started \in Nat
    BY <1>1, GoodsCommits
  <1>4. holder[Job] = s /\ ~job.active
    BY <1>3 DEF GoodsStage
  <1>5. GoodsTables'
    <2>1. job' = [active |-> job'.active, catalyst |-> job'.catalyst, finishAt |-> job'.finishAt]
      BY <1>1
    <2> QED BY <1>1, <1>2, <2>1 DEF GoodsTables, LoosePiece
  <1>6. \A p \in Pieces : GoodsGearSame(p) /\ (IsHere(p)' <=> IsHere(p)) /\ piece'[p].from = piece[p].from
    BY <1>1, GoodsGearUnchanged
  <1>7. GoodsOwn(s)
    BY <1>1, <1>4, <1>6 DEF GoodsOwn
  <1>8. GoodsEnd'
    BY <1>1, <1>2 DEF GoodsEnd, IsEnding
  <1>9. CraftsAddUp'
    <2>1. PICK b \in {Cardinality({j}) : j \in InitialJobs \ {NoJob}} \cup {0} :
             b + Started = Len(claims) + (IF job.active THEN 1 ELSE 0)
      BY <1>2 DEF CraftsAddUp
    <2>2. b \in Nat /\ Len(claims) \in Nat
      <3>1. Len(claims) \in Nat
        BY <1>2, LenProperties DEF GoodsTables
      <3>2. \A j : Cardinality({j}) = 1
        BY FS_Singleton
      <3>3. b \in Nat
        <4>1. CASE b = 0
          BY <4>1
        <4>2. CASE b # 0
          <5>1. PICK j : b = Cardinality({j})
            BY <2>1, <4>2
          <5>2. b = 1
            BY <3>2, <5>1
          <5> QED BY <5>2
        <4> QED BY <4>1, <4>2
      <3> QED BY <3>1, <3>3
    <2>3. b + Started = Len(claims)
      BY <1>3, <1>4, <2>1, <2>2
    <2>4. b + Started' = Len(claims') + (IF job'.active THEN 1 ELSE 0)
      <3>1. job'.active = TRUE /\ claims' = claims
        BY <1>1
      <3> QED BY <1>3, <2>2, <2>3, <3>1
    <2>5. b \in {Cardinality({j}) : j \in InitialJobs \ {NoJob'}} \cup {0}
      BY <2>1 DEF NoJob
    <2>6. Cardinality({p \in Pieces : piece[p].from = "craft"})' = Len(claims)'
      BY <1>1, <1>2 DEF CraftsAddUp
    <2>7. (pity = FailuresInARow)' /\ (pity <= CRAFT_PITY_AFTER_FAILS)'
      BY <1>1, <1>2 DEF CraftsAddUp, FailuresInARow
    <2> QED BY <2>4, <2>5, <2>6, <2>7 DEF CraftsAddUp
  <1> QED BY <1>1, <1>5, <1>6, <1>7, <1>8, <1>9, GoodsChanges

LEMMA GoodsSkips ==
    ASSUME GoodsSafe, NEW s \in DOMAIN plan, SkipCraft(s)
    PROVE  GoodsKept(s)
  <1>1. /\ Ends(s, {"skip"})
        /\ job' = [job EXCEPT !.finishAt = now[s]] \/ job' = job
        /\ piece' = piece /\ away' = away /\ pity' = pity /\ claims' = claims /\ log' = log
    BY DEF SkipCraft
  <1>2. GoodsInv /\ GoodsEnd /\ GoodsTables /\ CraftsAddUp
    BY DEF GoodsSafe, GoodsInv
  <1>3. Kind(s) = "skip" /\ Started' = Started
    BY <1>1, GoodsCommits
  <1>4. /\ job'.active = job.active /\ job'.catalyst = job.catalyst
        /\ job' = [active |-> job'.active, catalyst |-> job'.catalyst, finishAt |-> job'.finishAt]
    <2>1. PICK a, c, f : job = [active |-> a, catalyst |-> c, finishAt |-> f]
      BY <1>2 DEF GoodsTables
    <2>2. CASE job' = job
      BY <2>1, <2>2
    <2>3. CASE job' = [job EXCEPT !.finishAt = now[s]]
      <3>1. PICK n : n = now[s]
        OBVIOUS
      <3>2. job' = [active |-> a, catalyst |-> c, finishAt |-> n]
        BY <2>1, <2>3, <3>1
      <3> QED BY <2>1, <3>2
    <2> QED BY <1>1, <2>2, <2>3
  <1>5. GoodsTables'
    BY <1>1, <1>2, <1>4 DEF GoodsTables, LoosePiece
  <1>6. \A p \in Pieces : GoodsGearSame(p) /\ (IsHere(p)' <=> IsHere(p)) /\ piece'[p].from = piece[p].from
    BY <1>1, GoodsGearUnchanged
  <1>7. GoodsOwn(s)
    BY <1>1, <1>4, <1>6 DEF GoodsOwn
  <1>8. GoodsEnd'
    BY <1>1, <1>2 DEF GoodsEnd, IsEnding
  <1>9. CraftsAddUp'
    BY <1>1, <1>2, <1>3, <1>4, GoodsCraftsKept
  <1> QED BY <1>1, <1>5, <1>6, <1>7, <1>8, <1>9, GoodsChanges

(* What one craft more makes of the failures in a row. *)
LEMMA GoodsFailures ==
    ASSUME claims \in Seq({"plain", "base", "upgraded"}), NEW x \in {"plain", "base", "upgraded"},
           claims' = Append(claims, x)
    PROVE  /\ claims' \in Seq({"plain", "base", "upgraded"}) /\ Len(claims') = Len(claims) + 1 /\ Len(claims) \in Nat
           /\ FailuresInARow \in Nat
           /\ x = "plain" => FailuresInARow' = FailuresInARow
           /\ x = "base" => FailuresInARow' = FailuresInARow + 1
           /\ x = "upgraded" => FailuresInARow' = 0
  <1>1. PICK n : n = Len(claims)
    OBVIOUS
  <1>2. PICK m : m = claims'
    OBVIOUS
  <1>3. n \in Nat /\ DOMAIN claims = 1..n
    BY <1>1, LenProperties
  <1>4. m \in Seq({"plain", "base", "upgraded"}) /\ Len(m) = n + 1 /\ m[n + 1] = x /\ \A i \in 1..n : m[i] = claims[i]
    BY <1>1, <1>2, AppendProperties
  <1>5. DOMAIN m = 1..(n + 1)
    BY <1>4, LenProperties
  <1>6. PICK S, T :
           /\ S = {i \in 1..n : claims[i] = "base" /\ \A j \in 1..n : claims[j] = "upgraded" => j < i}
           /\ T = {i \in 1..(n + 1) : m[i] = "base" /\ \A j \in 1..(n + 1) : m[j] = "upgraded" => j < i}
    OBVIOUS
  <1>7. FailuresInARow = Cardinality(S) /\ FailuresInARow' = Cardinality(T)
    <2>1. FailuresInARow = Cardinality(S)
      BY <1>3, <1>6 DEF FailuresInARow
    <2>2. FailuresInARow' = Cardinality(T)
      BY <1>2, <1>5, <1>6 DEF FailuresInARow
    <2> QED BY <2>1, <2>2
  <1>8. IsFiniteSet(S) /\ Cardinality(S) \in Nat
    <2>1. IsFiniteSet(1..n) /\ S \subseteq 1..n
      BY <1>3, <1>6, FS_Interval
    <2> QED BY <2>1, FS_Subset, FS_CardinalityType
  <1>9. CASE x = "plain"
    <2>1. T = S
      BY <1>3, <1>4, <1>6, <1>9
    <2> QED BY <1>1, <1>2, <1>3, <1>4, <1>7, <1>8, <1>9, <2>1
  <1>10. CASE x = "base"
    <2>1. \A i \in 1..n : i \in T <=> i \in S
      BY <1>3, <1>4, <1>6, <1>10
    <2>2. n + 1 \in T
      BY <1>3, <1>4, <1>6, <1>10
    <2>3. T = S \cup {n + 1} /\ n + 1 \notin S
      BY <1>3, <1>6, <2>1, <2>2
    <2>4. Cardinality(T) = Cardinality(S) + 1
      BY <1>8, <2>3, FS_AddElement
    <2> QED BY <1>1, <1>2, <1>3, <1>4, <1>7, <1>8, <1>10, <2>4
  <1>11. CASE x = "upgraded"
    <2>1. T = {}
      <3>1. n + 1 \in 1..(n + 1) /\ \A i \in 1..(n + 1) : ~(n + 1 < i)
        BY <1>3
      <3> QED BY <1>4, <1>6, <1>11, <3>1
    <2>2. Cardinality(T) = 0
      BY <2>1, FS_EmptySet
    <2> QED BY <1>1, <1>2, <1>3, <1>4, <1>7, <1>8, <1>11, <2>2
  <1> QED BY <1>9, <1>10, <1>11

LEMMA GoodsClaims ==
    ASSUME GoodsSafe, NEW s \in DOMAIN plan, ClaimCraft(s)
    PROVE  GoodsKept(s)
  <1>1. PICK x \in {"plain", "base", "upgraded"} :
           /\ claims' = Append(claims, x)
           /\ x = "plain" => pity' = pity
           /\ x = "upgraded" => pity' = 0
           /\ x = "base" => pity < CRAFT_PITY_AFTER_FAILS /\ pity' = pity + 1
    BY DEF ClaimCraft, MayFail
  <1>2. Ends(s, {"claim"}) /\ Obtain(s, "craft") /\ job' = NoJob /\ away' = away /\ log' = log
    BY DEF ClaimCraft
  <1>3. GoodsInv /\ GoodsEnd /\ GoodsTables /\ CraftsAddUp /\ GoodsInserts
    BY DEF GoodsSafe, GoodsInv
  <1>4. /\ GoodsAlone(s) /\ GoodsControl' /\ GoodsStage(s)' /\ GoodsMine(s) /\ Kind(s) = "claim" /\ IsAtEnd(s)
        /\ Started' = Started /\ Started \in Nat /\ IsRunning(s) /\ GoodsStage(s) /\ pos[s] >= 1
    BY <1>2, GoodsCommits
  <1>5. holder[Job] = s /\ job.active
    BY <1>4 DEF GoodsStage
  <1>6. PICK p \in Pieces : inserted[s] = {p}
    BY <1>3, <1>4 DEF GoodsInserts, GoodsInserted
  <1>7. /\ piece[p] = Unborn /\ piece'[p] = [Unborn EXCEPT !.from = "craft"]
        /\ \A q \in Pieces : q # p => piece'[q] = piece[q]
        /\ piece' \in [Pieces -> LoosePiece]
    BY <1>2, <1>3, <1>4, <1>6, GoodsObtains
  <1>8. GoodsOwn(s) /\ GoodsEnd' /\ GoodsFit' /\ StaysGeared
    BY <1>2, <1>5, GoodsBrings
  <1>9. /\ claims' \in Seq({"plain", "base", "upgraded"}) /\ Len(claims') = Len(claims) + 1 /\ Len(claims) \in Nat
        /\ FailuresInARow \in Nat
        /\ x = "plain" => FailuresInARow' = FailuresInARow
        /\ x = "base" => FailuresInARow' = FailuresInARow + 1
        /\ x = "upgraded" => FailuresInARow' = 0
    <2>1. claims \in Seq({"plain", "base", "upgraded"}) /\ claims' = Append(claims, x)
      BY <1>1, <1>3 DEF GoodsTables
    <2> QED BY <2>1, GoodsFailures
  <1>10. pity = FailuresInARow /\ pity <= CRAFT_PITY_AFTER_FAILS /\ pity \in Nat /\ CRAFT_PITY_AFTER_FAILS \in Nat
    BY <1>3, GoodsParameters DEF CraftsAddUp, GoodsTables, GoodsAssumption
  <1>11. pity' \in Nat /\ pity' = FailuresInARow' /\ pity' <= CRAFT_PITY_AFTER_FAILS
    BY <1>1, <1>9, <1>10
  <1>12. GoodsTables'
    <2>1. job' = [active |-> job'.active, catalyst |-> job'.catalyst, finishAt |-> job'.finishAt]
      <3>1. job' = [active |-> FALSE, catalyst |-> FALSE, finishAt |-> 0]
        BY <1>2 DEF NoJob
      <3> QED BY <3>1
    <2> QED BY <1>2, <1>3, <1>7, <1>9, <1>11, <2>1 DEF GoodsTables, LoosePiece
  <1>13. CraftsAddUp'
    <2>1. Cardinality({q \in Pieces : piece[q].from = "craft"})' = Len(claims)'
      <3>1. PICK S, T : S = {q \in Pieces : piece[q].from = "craft"} /\ T = {q \in Pieces : piece'[q].from = "craft"}
        OBVIOUS
      <3>2. piece[p].from = "none" /\ piece'[p].from = "craft"
        BY <1>7 DEF Unborn
      <3>3. T = S \cup {p} /\ p \notin S
        BY <1>7, <3>1, <3>2
      <3>4. IsFiniteSet(S)
        <4>1. IsFiniteSet(Pieces) /\ S \subseteq Pieces
          BY <3>1, GoodsParameters DEF GoodsAssumption
        <4> QED BY <4>1, FS_Subset
      <3>5. Cardinality(T) = Cardinality(S) + 1
        BY <3>3, <3>4, FS_AddElement
      <3>6. Cardinality(S) = Len(claims)
        BY <1>3, <3>1 DEF CraftsAddUp
      <3>7. Cardinality(T) = Len(claims')
        BY <1>9, <3>5, <3>6
      <3> QED BY <3>1, <3>7
    <2>2. PICK b \in {Cardinality({j}) : j \in InitialJobs \ {NoJob}} \cup {0} :
             b + Started = Len(claims) + (IF job.active THEN 1 ELSE 0)
      BY <1>3 DEF CraftsAddUp
    <2>3. b \in Nat
      <3>1. \A j : Cardinality({j}) = 1
        BY FS_Singleton
      <3>2. CASE b = 0
        BY <3>2
      <3>3. CASE b # 0
        <4>1. PICK j : b = Cardinality({j})
          BY <2>2, <3>3
        <4>2. b = 1
          BY <3>1, <4>1
        <4> QED BY <4>2
      <3> QED BY <3>2, <3>3
    <2>4. b + Started = Len(claims) + 1
      BY <1>5, <2>2
    <2>5. b + Started' = Len(claims') + (IF job'.active THEN 1 ELSE 0)
      <3>1. ~job'.active
        BY <1>2 DEF NoJob
      <3>2. PICK z : z = IF job'.active THEN 1 ELSE 0
        OBVIOUS
      <3>3. z = 0
        BY <3>1, <3>2
      <3>4. b + Started' = Len(claims') + z
        BY <1>4, <1>9, <2>3, <2>4, <3>3
      <3> QED BY <3>2, <3>4
    <2>6. b \in {Cardinality({j}) : j \in InitialJobs \ {NoJob'}} \cup {0}
      BY <2>2 DEF NoJob
    <2>7. (pity = FailuresInARow)' /\ (pity <= CRAFT_PITY_AFTER_FAILS)'
      BY <1>11
    <2> QED BY <2>1, <2>5, <2>6, <2>7 DEF CraftsAddUp
  <1> QED BY <1>4, <1>8, <1>12, <1>13 DEF GoodsKept

(* What a change of one piece, whose row is locked, keeps. *)
LEMMA GoodsPieceKept ==
    ASSUME GoodsSafe, NEW s \in DOMAIN plan, NEW K, Ends(s, K), Kind(s) # "start",
           GoodsOwn(s), GoodsEnd', piece' \in [Pieces -> LoosePiece],
           \A p \in Pieces : piece'[p].from = piece[p].from /\ (IsHere(p)' => IsHere(p)) /\ GoodsGearSame(p),
           away' = away, job' = job, pity' = pity, claims' = claims
    PROVE  GoodsKept(s)
  <1>1. GoodsTables /\ CraftsAddUp
    BY DEF GoodsSafe, GoodsInv
  <1>2. GoodsTables'
    BY <1>1 DEF GoodsTables, LoosePiece
  <1>3. Started' = Started
    BY GoodsCommits
  <1>4. CraftsAddUp'
    BY <1>1, <1>3, GoodsCraftsKept
  <1> QED BY <1>2, <1>4, GoodsChanges

LEMMA GoodsHeldPiece ==
    ASSUME GoodsSafe, NEW s \in DOMAIN plan, NEW K, Ends(s, K), Kind(s) \in {"enhance", "refine", "keep", "discard", "equip"}
    PROVE  /\ ThePiece(s) \in Pieces /\ Named(s) = {ThePiece(s)}
           /\ holder[Row(ThePiece(s))] = s /\ IsHere(ThePiece(s))
           /\ piece[ThePiece(s)] \in LoosePiece /\ piece \in [Pieces -> LoosePiece]
  <1>1. GoodsTables /\ plan \in Plans
    BY DEF GoodsSafe, GoodsInv, GoodsControl
  <1>2. ThePiece(s) \in Pieces /\ Named(s) = {ThePiece(s)}
    BY <1>1, GoodsRequests DEF OfOnePiece
  <1>3. IsRunning(s) /\ pos[s] >= 1 /\ pos[s] = StepsLength(s) /\ GoodsStage(s)
    BY GoodsCommits
  <1>4. Kind(s) = "equip" => pos[s] >= 2
    BY <1>3 DEF StepsLength
  <1>5. HoldsPiece(s, ThePiece(s))
    BY <1>3, <1>4 DEF GoodsStage
  <1> QED BY <1>1, <1>2, <1>5 DEF HoldsPiece, GoodsTables

(* A change of the one piece that is locked: it stays what it is, or breaks. *)
LEMMA GoodsTouches ==
    ASSUME GoodsSafe, NEW s \in DOMAIN plan, NEW K, Ends(s, K), Kind(s) # "start",
           NEW p \in Pieces, holder[Row(p)] = s, IsHere(p), NEW w \in LoosePiece,
           piece \in [Pieces -> LoosePiece], piece' = [piece EXCEPT ![p] = w],
           w.from = piece[p].from,
           \/ w.end = "none" /\ w.wearer = piece[p].wearer /\ log \subseteq log' /\ \A e \in log' \ log : e.what = "enhanced"
           \/ w.end = "broken" /\ w.wearer = NoPet /\ \E e : log' = log \cup {e} /\ IsEnding(e, p),
           away' = away, job' = job, pity' = pity, claims' = claims
    PROVE  GoodsKept(s)
  <1>1. GoodsEnd
    BY DEF GoodsSafe
  <1>2. piece' \in [Pieces -> LoosePiece] /\ piece'[p] = w /\ \A q \in Pieces : q # p => piece'[q] = piece[q]
    OBVIOUS
  <1>3. piece[p].end = "none" /\ piece[p].from # "none"
    BY DEF IsHere
  <1>4. \A q \in Pieces : q # p => GoodsGearSame(q) /\ (IsHere(q)' <=> IsHere(q)) /\ piece'[q].from = piece[q].from
    BY <1>2, GoodsGearUnchanged
  <1>5. GoodsGearSame(p)
    BY <1>2, <1>3 DEF GoodsGearSame, IsHere
  <1>6. \A q \in Pieces : piece'[q].from = piece[q].from /\ (IsHere(q)' => IsHere(q)) /\ GoodsGearSame(q)
    BY <1>2, <1>4, <1>5
  <1>7. GoodsOwn(s)
    <2>1. piece[p] # Unborn
      BY <1>3 DEF Unborn
    <2> QED BY <1>2, <1>4, <2>1 DEF GoodsOwn
  <1>8. GoodsEnd'
    <2>1. ASSUME NEW q \in Pieces
          PROVE  /\ piece'[q].end # "none" =>
                       /\ piece'[q].wearer = NoPet
                       /\ \E e \in log' : IsEnding(e, q) /\ \A f \in log' : IsEnding(f, q) => f = e
                 /\ piece'[q].end = "none" => \A e \in log' : ~IsEnding(e, q)
      <3>1. /\ piece[q].end # "none" =>
                 /\ piece[q].wearer = NoPet
                 /\ \E e \in log : IsEnding(e, q) /\ \A f \in log : IsEnding(f, q) => f = e
            /\ piece[q].end = "none" => \A e \in log : ~IsEnding(e, q)
        BY <1>1 DEF GoodsEnd
      <3>2. CASE w.end = "none" /\ w.wearer = piece[p].wearer /\ log \subseteq log' /\ \A e \in log' \ log : e.what = "enhanced"
        <4>1. \A e \in log' : IsEnding(e, q) => e \in log
          BY <3>2 DEF IsEnding
        <4>2. piece'[q].end = piece[q].end /\ piece'[q].wearer = piece[q].wearer
          BY <1>2, <1>3, <3>2
        <4> QED BY <3>1, <3>2, <4>1, <4>2
      <3>3. CASE w.end = "broken" /\ w.wearer = NoPet /\ \E e : log' = log \cup {e} /\ IsEnding(e, p)
        <4>1. PICK e : log' = log \cup {e} /\ IsEnding(e, p)
          BY <3>3
        <4>2. CASE q = p
          BY <1>2, <1>3, <3>1, <3>3, <4>1, <4>2
        <4>3. CASE q # p
          <5>1. ~IsEnding(e, q) /\ piece'[q] = piece[q]
            BY <1>2, <4>1, <4>3 DEF IsEnding
          <5> QED BY <3>1, <4>1, <5>1
        <4> QED BY <4>2, <4>3
      <3> QED BY <3>2, <3>3
    <2> QED BY <2>1 DEF GoodsEnd, IsEnding
  <1> QED BY <1>2, <1>6, <1>7, <1>8, GoodsPieceKept

(* A new roll of the substats, kept or discarded. *)
LEMMA GoodsRefines ==
    ASSUME GoodsSafe, NEW s \in DOMAIN plan, Refine(s) \/ ResolveRefine(s)
    PROVE  GoodsKept(s)
  <1>1. PICK K : Ends(s, K) /\ K \in {{"refine"}, {"keep", "discard"}}
    BY DEF Refine, ResolveRefine
  <1>2. Kind(s) \in {"refine", "keep", "discard"}
    BY <1>1, GoodsCommits
  <1>3. PICK p : p = ThePiece(s)
    OBVIOUS
  <1>4. p \in Pieces /\ holder[Row(p)] = s /\ IsHere(p) /\ piece[p] \in LoosePiece /\ piece \in [Pieces -> LoosePiece]
    BY <1>1, <1>2, <1>3, GoodsHeldPiece
  <1>5. PICK b, n : /\ b \in BOOLEAN /\ n \in Int
                    /\ piece' = [piece EXCEPT ![p] = [[@ EXCEPT !.pending = b] EXCEPT !.rolled = n]]
    <2>1. CASE Refine(s)
      <3>1. piece' = [piece EXCEPT ![p].pending = TRUE]
        BY <1>3, <2>1 DEF Refine
      <3>2. piece' = [piece EXCEPT ![p] = [[@ EXCEPT !.pending = TRUE] EXCEPT !.rolled = piece[p].rolled]]
        BY <1>4, <3>1 DEF LoosePiece
      <3> QED BY <1>4, <3>2 DEF LoosePiece
    <2>2. CASE ResolveRefine(s)
      <3>1. PICK n : n = IF Kind(s) = "keep" THEN piece[p].rolled + 1 ELSE piece[p].rolled
        OBVIOUS
      <3>2. piece' = [piece EXCEPT ![p].pending = FALSE, ![p].rolled = IF Kind(s) = "keep" THEN @ + 1 ELSE @]
        BY <1>3, <2>2 DEF ResolveRefine
      <3>3. piece' = [piece EXCEPT ![p] = [[@ EXCEPT !.pending = FALSE] EXCEPT !.rolled = n]]
        BY <1>4, <3>1, <3>2 DEF LoosePiece
      <3>4. n \in Int
        BY <1>4, <3>1 DEF LoosePiece
      <3> QED BY <3>3, <3>4
    <2> QED BY <2>1, <2>2
  <1>6. PICK w : w = [[piece[p] EXCEPT !.pending = b] EXCEPT !.rolled = n]
    OBVIOUS
  <1>7. /\ w \in LoosePiece /\ w.from = piece[p].from /\ w.end = piece[p].end /\ w.wearer = piece[p].wearer
        /\ piece' = [piece EXCEPT ![p] = w]
    BY <1>4, <1>5, <1>6 DEF LoosePiece
  <1>8. piece[p].end = "none"
    BY <1>4 DEF IsHere
  <1>9. away' = away /\ job' = job /\ pity' = pity /\ claims' = claims /\ log' = log
    BY DEF Refine, ResolveRefine
  <1>10. w.end = "none" /\ w.wearer = piece[p].wearer /\ log \subseteq log' /\ \A e \in log' \ log : e.what = "enhanced"
    BY <1>7, <1>8, <1>9
  <1>11. Kind(s) # "start"
    BY <1>2
  <1> QED BY <1>1, <1>4, <1>7, <1>9, <1>10, <1>11, GoodsTouches

LEMMA GoodsOutcomes ==
    ASSUME NEW w \in LoosePiece, NEW f, NEW after \in Enhanced(w, f)
    PROVE  /\ after \in LoosePiece /\ after.from = w.from
           /\ \/ after.end = w.end /\ after.wearer = w.wearer
              \/ after.end = "broken" /\ after.wearer = NoPet
  <1>1. PICK l, a, b : l = w.level /\ a = w.pity /\ b = w.pity + 1
    OBVIOUS
  <1>2. l \in Int /\ a \in Int /\ b \in Int
    BY <1>1 DEF LoosePiece
  <1>3. PICK failed : failed = [w EXCEPT !.pity = b]
    OBVIOUS
  <1>4. failed \in LoosePiece /\ failed.from = w.from /\ failed.end = w.end /\ failed.wearer = w.wearer /\ failed.level = l
    BY <1>1, <1>2, <1>3 DEF LoosePiece
  <1>5. \/ after = [w EXCEPT !.level = @ + 1, !.pity = 0]
        \/ after = failed \/ after = [failed EXCEPT !.level = @ - 1]
        \/ after = [failed EXCEPT !.end = "broken", !.wearer = NoPet]
    <2>1. failed = [w EXCEPT !.pity = @ + 1]
      BY <1>1, <1>3
    <2> QED BY <2>1 DEF Enhanced
  <1>6. CASE after = [w EXCEPT !.level = @ + 1, !.pity = 0]
    <2>1. PICK m, v : m = l + 1 /\ v = [w EXCEPT !.level = m]
      OBVIOUS
    <2>2. m \in Int /\ after = [[w EXCEPT !.level = m] EXCEPT !.pity = 0]
      BY <1>1, <1>2, <1>6, <2>1
    <2>3. v \in LoosePiece /\ v.from = w.from /\ v.end = w.end /\ v.wearer = w.wearer
      BY <2>1, <2>2 DEF LoosePiece
    <2>4. after = [v EXCEPT !.pity = 0]
      BY <2>1, <2>2
    <2>5. after \in LoosePiece /\ after.from = v.from /\ after.end = v.end /\ after.wearer = v.wearer
      BY <2>3, <2>4 DEF LoosePiece
    <2> QED BY <2>3, <2>5
  <1>7. CASE after = failed
    BY <1>4, <1>7
  <1>8. CASE after = [failed EXCEPT !.level = @ - 1]
    BY <1>2, <1>4, <1>8 DEF LoosePiece
  <1>9. CASE after = [failed EXCEPT !.end = "broken", !.wearer = NoPet]
    BY <1>4, <1>9 DEF LoosePiece
  <1> QED BY <1>5, <1>6, <1>7, <1>8, <1>9

LEMMA GoodsEnhances ==
    ASSUME GoodsSafe, NEW s \in DOMAIN plan, Enhance(s)
    PROVE  GoodsKept(s)
  <1>1. Ends(s, {"enhance"}) /\ away' = away /\ job' = job /\ pity' = pity /\ claims' = claims
    BY DEF Enhance
  <1>2. Kind(s) = "enhance"
    BY <1>1, GoodsCommits
  <1>3. PICK p : p = ThePiece(s)
    OBVIOUS
  <1>4. p \in Pieces /\ holder[Row(p)] = s /\ IsHere(p) /\ piece[p] \in LoosePiece /\ piece \in [Pieces -> LoosePiece]
    BY <1>1, <1>2, <1>3, GoodsHeldPiece
  <1>5. PICK w \in Enhanced(piece[p], Flag(s)) :
           /\ piece' = [piece EXCEPT ![p] = w]
           /\ log' = log \cup {[by |-> s, piece |-> p, what |-> IF w.end = "broken" THEN "broken" ELSE "enhanced"]}
    BY <1>3 DEF Enhance
  <1>6. /\ w \in LoosePiece /\ w.from = piece[p].from
        /\ \/ w.end = piece[p].end /\ w.wearer = piece[p].wearer
           \/ w.end = "broken" /\ w.wearer = NoPet
    BY <1>4, <1>5, GoodsOutcomes
  <1>7. piece[p].end = "none"
    BY <1>4 DEF IsHere
  <1>8. PICK e : e = [by |-> s, piece |-> p, what |-> IF w.end = "broken" THEN "broken" ELSE "enhanced"]
    OBVIOUS
  <1>9. log' = log \cup {e} /\ e.piece = p /\ e.what = IF w.end = "broken" THEN "broken" ELSE "enhanced"
    BY <1>5, <1>8
  <1>10. \/ w.end = "none" /\ w.wearer = piece[p].wearer /\ log \subseteq log' /\ \A x \in log' \ log : x.what = "enhanced"
         \/ w.end = "broken" /\ w.wearer = NoPet /\ \E x : log' = log \cup {x} /\ IsEnding(x, p)
    <2>1. CASE w.end = piece[p].end /\ w.wearer = piece[p].wearer
      BY <1>7, <1>9, <2>1
    <2>2. CASE w.end = "broken" /\ w.wearer = NoPet
      <3>1. IsEnding(e, p)
        BY <1>9, <2>2 DEF IsEnding
      <3> QED BY <1>9, <2>2, <3>1
    <2> QED BY <1>6, <2>1, <2>2
  <1>11. Kind(s) # "start"
    BY <1>2
  <1> QED BY <1>1, <1>4, <1>5, <1>6, <1>10, <1>11, GoodsTouches

LEMMA GoodsDismantles ==
    ASSUME GoodsSafe, NEW s \in DOMAIN plan, Dismantle(s)
    PROVE  GoodsKept(s)
  <1>1. /\ Ends(s, {"dismantle"}) /\ away' = away /\ job' = job /\ pity' = pity /\ claims' = claims
        /\ log' = log \cup {[by |-> s, piece |-> p, what |-> "dismantled"] : p \in Named(s)}
        /\ piece' = [p \in Pieces |-> IF p \in Named(s) THEN [piece[p] EXCEPT !.end = "dismantled"] ELSE piece[p]]
    BY DEF Dismantle
  <1>2. /\ Kind(s) = "dismantle" /\ IsRunning(s) /\ GoodsStage(s) /\ pos[s] = StepsLength(s)
    BY <1>1, GoodsCommits
  <1>3. GoodsEnd /\ piece \in [Pieces -> LoosePiece] /\ plan \in Plans
    BY DEF GoodsSafe, GoodsInv, GoodsTables, GoodsControl
  <1>4. Named(s) \subseteq Pieces /\ Named(s) \in SUBSET Nat /\ IsFiniteSet(Named(s)) /\ Cardinality(Named(s)) \in Nat
    BY <1>3, GoodsRequests
  <1>5. \A p \in Named(s) : holder[Row(p)] = s /\ IsHere(p) /\ piece[p].wearer = NoPet
    <2>1. ASSUME NEW p \in Named(s) PROVE holder[Row(p)] = s /\ IsHere(p) /\ piece[p].wearer = NoPet
      <3>1. Place(Named(s), p) \in 1..Cardinality(Named(s))
        BY <1>4, <2>1, GoodsPlace
      <3>2. pos[s] = 2 * Cardinality(Named(s)) + 2
        BY <1>2 DEF StepsLength
      <3>3. Place(Named(s), p) <= pos[s] /\ Cardinality(Named(s)) < pos[s]
        BY <1>4, <3>1, <3>2
      <3> QED BY <1>2, <2>1, <3>3 DEF GoodsStage, HoldsPiece
    <2> QED BY <2>1
  <1>6. ASSUME NEW p \in Pieces, p \in Named(s)
        PROVE  /\ piece'[p].from = piece[p].from /\ piece'[p].end = "dismantled" /\ piece'[p].wearer = NoPet
               /\ piece'[p] \in LoosePiece
    <2>1. PICK w : w = piece[p]
      OBVIOUS
    <2>2. piece'[p] = [w EXCEPT !.end = "dismantled"] /\ w \in LoosePiece /\ w.wearer = NoPet
      BY <1>1, <1>3, <1>5, <1>6, <2>1
    <2> QED BY <2>1, <2>2 DEF LoosePiece
  <1>7. \A p \in Pieces : p \notin Named(s) => piece'[p] = piece[p]
    BY <1>1
  <1>8. piece' \in [Pieces -> LoosePiece]
    BY <1>1, <1>3, <1>6, <1>7
  <1>9. \A p \in Pieces : piece'[p].from = piece[p].from /\ (IsHere(p)' => IsHere(p)) /\ GoodsGearSame(p)
    <2>1. ASSUME NEW p \in Pieces, p \in Named(s)
          PROVE  piece'[p].from = piece[p].from /\ (IsHere(p)' => IsHere(p)) /\ GoodsGearSame(p)
      <3>1. ~IsHere(p)'
        BY <1>6, <2>1 DEF IsHere
      <3>2. \A pet \in away : piece[p].wearer # pet
        <4>1. away \subseteq Pets /\ NoPet \notin Pets
          BY <1>3, GoodsRequests DEF GoodsSafe, GoodsInv, GoodsTables
        <4> QED BY <1>5, <2>1, <4>1
      <3> QED BY <1>6, <2>1, <3>1, <3>2 DEF GoodsGearSame
    <2>2. ASSUME NEW p \in Pieces, p \notin Named(s)
          PROVE  piece'[p].from = piece[p].from /\ (IsHere(p)' => IsHere(p)) /\ GoodsGearSame(p)
      BY <1>7, <2>2, GoodsGearUnchanged
    <2> QED BY <2>1, <2>2
  <1>10. GoodsOwn(s)
    <2>1. \A p \in Pieces : p \notin Named(s) => (IsHere(p)' <=> IsHere(p)) /\ piece'[p].wearer = piece[p].wearer
      BY <1>7, GoodsGearUnchanged
    <2>2. \A p \in Named(s) : piece[p] # Unborn
      BY <1>5 DEF IsHere, Unborn
    <2> QED BY <1>1, <1>5, <1>7, <2>1, <2>2 DEF GoodsOwn
  <1>11. GoodsEnd'
    <2>1. ASSUME NEW q \in Pieces
          PROVE  /\ piece'[q].end # "none" =>
                       /\ piece'[q].wearer = NoPet
                       /\ \E e \in log' : IsEnding(e, q) /\ \A f \in log' : IsEnding(f, q) => f = e
                 /\ piece'[q].end = "none" => \A e \in log' : ~IsEnding(e, q)
      <3>1. /\ piece[q].end # "none" =>
                 /\ piece[q].wearer = NoPet
                 /\ \E e \in log : IsEnding(e, q) /\ \A f \in log : IsEnding(f, q) => f = e
            /\ piece[q].end = "none" => \A e \in log : ~IsEnding(e, q)
        BY <1>3 DEF GoodsEnd
      <3>2. PICK E : E = {[by |-> s, piece |-> p, what |-> "dismantled"] : p \in Named(s)}
        OBVIOUS
      <3>3. log' = log \cup E /\ \A e \in E : \E p \in Named(s) : e = [by |-> s, piece |-> p, what |-> "dismantled"]
        BY <1>1, <3>2
      <3>4. CASE q \in Named(s)
        <4>1. PICK e : e = [by |-> s, piece |-> q, what |-> "dismantled"]
          OBVIOUS
        <4>2. e \in log' /\ IsEnding(e, q)
          BY <3>2, <3>3, <3>4, <4>1 DEF IsEnding
        <4>3. \A f \in E : IsEnding(f, q) => f = e
          BY <3>3, <4>1 DEF IsEnding
        <4>4. \A f \in log : ~IsEnding(f, q)
          BY <1>5, <3>1, <3>4 DEF IsHere
        <4>5. piece'[q].end = "dismantled" /\ piece'[q].wearer = NoPet
          BY <1>6, <3>4
        <4> QED BY <3>3, <4>2, <4>3, <4>4, <4>5
      <3>5. CASE q \notin Named(s)
        <4>1. \A e \in E : ~IsEnding(e, q)
          BY <3>3, <3>5 DEF IsEnding
        <4>2. piece'[q] = piece[q]
          BY <1>7, <3>5
        <4> QED BY <3>1, <3>3, <4>1, <4>2
      <3> QED BY <3>4, <3>5
    <2> QED BY <2>1 DEF GoodsEnd, IsEnding
  <1>12. Kind(s) # "start"
    BY <1>2
  <1> QED BY <1>1, <1>8, <1>9, <1>10, <1>11, <1>12, GoodsPieceKept


(* Pieces that are there change who wears them, among pets that are at home. *)
LEMMA GoodsRewears ==
    ASSUME GoodsSafe, NEW s \in DOMAIN plan, NEW K, Ends(s, K), Kind(s) # "start",
           NEW f, piece' = [p \in Pieces |-> f[p]],
           \A p \in Pieces :
              \/ f[p] = piece[p]
              \/ /\ IsHere(p) /\ piece[p].wearer \notin away
                 /\ \E v \in Pets \cup {NoPet} :
                       /\ f[p] = [piece[p] EXCEPT !.wearer = v] /\ v \notin away
                       /\ holder[Row(p)] = s \/ v = NoPet,
           away' = away, job' = job, pity' = pity, claims' = claims, log' = log
    PROVE  GoodsKept(s)
  <1>1. GoodsEnd /\ piece \in [Pieces -> LoosePiece]
    BY DEF GoodsSafe, GoodsInv, GoodsTables
  <1>2. ASSUME NEW p \in Pieces
        PROVE  /\ piece'[p] \in LoosePiece
               /\ piece'[p].from = piece[p].from /\ piece'[p].end = piece[p].end
               /\ IsHere(p)' <=> IsHere(p)
               /\ GoodsGearSame(p)
               /\ piece[p].end # "none" => piece'[p].wearer = piece[p].wearer
               /\ holder[Row(p)] = s \/ piece'[p].wearer = piece[p].wearer \/ piece'[p].wearer = NoPet
               /\ piece[p] = Unborn => piece'[p] = Unborn
    <2>1. CASE f[p] = piece[p]
      <3>1. piece'[p] = piece[p]
        BY <2>1
      <3> QED BY <1>1, <3>1, GoodsGearUnchanged
    <2>2. CASE f[p] # piece[p]
      <3>1. PICK v, w :
               /\ v \in Pets \cup {NoPet} /\ w = piece[p] /\ piece'[p] = [w EXCEPT !.wearer = v] /\ v \notin away
               /\ holder[Row(p)] = s \/ v = NoPet
        BY <2>2
      <3>2. IsHere(p) /\ w.wearer \notin away /\ w \in LoosePiece
        BY <1>1, <2>2, <3>1
      <3>3. piece'[p] \in LoosePiece /\ piece'[p].from = w.from /\ piece'[p].end = w.end /\ piece'[p].wearer = v
        BY <3>1, <3>2 DEF LoosePiece
      <3>4. IsHere(p)' <=> IsHere(p)
        BY <3>1, <3>3 DEF IsHere
      <3>5. GoodsGearSame(p)
        BY <3>1, <3>2, <3>3 DEF GoodsGearSame
      <3>6. piece[p].end = "none" /\ piece[p] # Unborn
        BY <3>2 DEF IsHere, Unborn
      <3> QED BY <3>1, <3>3, <3>4, <3>5, <3>6
    <2> QED BY <2>1, <2>2
  <1>3. piece' \in [Pieces -> LoosePiece]
    BY <1>2
  <1>4. GoodsOwn(s)
    BY <1>2 DEF GoodsOwn
  <1>5. GoodsEnd'
    <2>1. ASSUME NEW p \in Pieces
          PROVE  /\ piece'[p].end # "none" =>
                       /\ piece'[p].wearer = NoPet
                       /\ \E e \in log' : IsEnding(e, p) /\ \A g \in log' : IsEnding(g, p) => g = e
                 /\ piece'[p].end = "none" => \A e \in log' : ~IsEnding(e, p)
      BY <1>1, <1>2 DEF GoodsEnd
    <2> QED BY <2>1 DEF GoodsEnd, IsEnding
  <1> QED BY <1>2, <1>3, <1>4, <1>5, GoodsPieceKept

(* A pet puts a piece on: it and the one who wore it are at home. *)
LEMMA GoodsEquips ==
    ASSUME GoodsSafe, NEW s \in DOMAIN plan, Equip(s)
    PROVE  GoodsKept(s)
  <1>1. PICK f : f = [p \in Pieces |->
                    CASE p \in Named(s) -> [piece[p] EXCEPT !.wearer = Pet(s)]
                      [] p \in InSlot(s) \ Named(s) -> [piece[p] EXCEPT !.wearer = NoPet]
                      [] OTHER -> piece[p]]
    OBVIOUS
  <1>2. /\ Ends(s, {"equip"}) /\ piece' = f
        /\ away' = away /\ job' = job /\ pity' = pity /\ claims' = claims /\ log' = log
    BY <1>1 DEF Equip
  <1>3. Kind(s) = "equip" /\ IsRunning(s) /\ GoodsStage(s) /\ pos[s] = StepsLength(s)
    BY <1>2, GoodsCommits
  <1>4. pos[s] >= 2 /\ Kind(s) # "start"
    BY <1>3 DEF StepsLength
  <1>5. Pet(s) \notin away /\ piece[ThePiece(s)].wearer \notin away
    BY <1>3, <1>4 DEF GoodsStage
  <1>6. ThePiece(s) \in Pieces /\ Named(s) = {ThePiece(s)} /\ holder[Row(ThePiece(s))] = s /\ IsHere(ThePiece(s))
    BY <1>2, <1>3, GoodsHeldPiece
  <1>7. Pet(s) \in Pets \cup {NoPet} /\ NoPet \notin away
    <2>1. plan \in Plans /\ away \subseteq Pets
      BY DEF GoodsSafe, GoodsInv, GoodsControl, GoodsTables
    <2> QED BY <2>1, GoodsRequests
  <1>8. ASSUME NEW p \in Pieces
        PROVE  \/ f[p] = piece[p]
               \/ /\ IsHere(p) /\ piece[p].wearer \notin away
                  /\ \E v \in Pets \cup {NoPet} :
                        /\ f[p] = [piece[p] EXCEPT !.wearer = v] /\ v \notin away
                        /\ holder[Row(p)] = s \/ v = NoPet
    <2>1. CASE p \in Named(s)
      BY <1>1, <1>5, <1>6, <1>7, <2>1
    <2>2. CASE p \in InSlot(s) \ Named(s)
      <3>1. IsHere(p) /\ piece[p].wearer = Pet(s)
        BY <2>2 DEF InSlot, WornBy, Here
      <3>2. f[p] = [piece[p] EXCEPT !.wearer = NoPet]
        BY <1>1, <2>2
      <3> QED BY <1>5, <1>7, <3>1, <3>2
    <2>3. CASE p \notin Named(s) /\ p \notin InSlot(s) \ Named(s)
      BY <1>1, <2>3
    <2> QED BY <2>1, <2>2, <2>3
  <1>9. piece' = [p \in Pieces |-> f[p]]
    BY <1>1, <1>2
  <1> QED BY <1>2, <1>4, <1>8, <1>9, GoodsRewears

(* A pet takes a piece off: it is at home. *)
LEMMA GoodsUnequips ==
    ASSUME GoodsSafe, NEW s \in DOMAIN plan, Unequip(s)
    PROVE  GoodsKept(s)
  <1>1. PICK f : f = [p \in Pieces |-> IF p \in InSlot(s) THEN [piece[p] EXCEPT !.wearer = NoPet] ELSE piece[p]]
    OBVIOUS
  <1>2. /\ Ends(s, {"unequip"}) /\ piece' = f
        /\ away' = away /\ job' = job /\ pity' = pity /\ claims' = claims /\ log' = log
    BY <1>1 DEF Unequip
  <1>3. Kind(s) = "unequip" /\ IsRunning(s) /\ GoodsStage(s) /\ pos[s] >= 1
    BY <1>2, GoodsCommits
  <1>4. Pet(s) \notin away /\ Kind(s) # "start"
    BY <1>3 DEF GoodsStage
  <1>5. NoPet \notin away
    <2>1. plan \in Plans /\ away \subseteq Pets
      BY DEF GoodsSafe, GoodsInv, GoodsControl, GoodsTables
    <2> QED BY <2>1, GoodsRequests
  <1>6. ASSUME NEW p \in Pieces
        PROVE  \/ f[p] = piece[p]
               \/ /\ IsHere(p) /\ piece[p].wearer \notin away
                  /\ \E v \in Pets \cup {NoPet} :
                        /\ f[p] = [piece[p] EXCEPT !.wearer = v] /\ v \notin away
                        /\ holder[Row(p)] = s \/ v = NoPet
    <2>1. CASE p \in InSlot(s)
      <3>1. IsHere(p) /\ piece[p].wearer = Pet(s)
        BY <2>1 DEF InSlot, WornBy, Here
      <3>2. f[p] = [piece[p] EXCEPT !.wearer = NoPet]
        BY <1>1, <2>1
      <3> QED BY <1>4, <1>5, <3>1, <3>2
    <2>2. CASE p \notin InSlot(s)
      BY <1>1, <2>2
    <2> QED BY <2>1, <2>2
  <1>7. piece' = [p \in Pieces |-> f[p]]
    BY <1>1, <1>2
  <1> QED BY <1>2, <1>4, <1>6, <1>7, GoodsRewears

(* Whatever a request does. *)
LEMMA GoodsStepKept ==
    ASSUME GoodsSafe, NEW s \in DOMAIN plan, Step(s)
    PROVE  GoodsKept(s)
  <1>1. CASE Begin(s)
    BY <1>1, GoodsBegins
  <1>2. CASE Go(s)
    BY <1>2, GoodsGoes
  <1>3. CASE Refuse(s) \/ Fail(s)
    <2>1. IsRunning(s) /\ Undo(s)
      BY <1>3 DEF Refuse, Fail
    <2> QED BY <2>1, GoodsGivesUp
  <1>4. CASE DeadlockVictim(s)
    <2>1. s \in UNION Circles /\ Undo(s)
      BY <1>4 DEF DeadlockVictim
    <2>2. IsRunning(s)
      BY <2>1 DEF Circles, Blocked
    <2> QED BY <2>1, <2>2, GoodsGivesUp
  <1>5. CASE BuyBox(s) \/ Exchange(s) \/ WinRaid(s) \/ WinStage(s) \/ ClaimReward(s)
    BY <1>5, GoodsBringsOthers
  <1>6. CASE Buy(s) \/ BuyCostume(s) \/ Use(s)
    BY <1>6, GoodsPurchases
  <1>7. CASE StartCraft(s)
    BY <1>7, GoodsStartsCraft
  <1>8. CASE SkipCraft(s)
    BY <1>8, GoodsSkips
  <1>9. CASE ClaimCraft(s)
    BY <1>9, GoodsClaims
  <1>10. CASE Enhance(s)
    BY <1>10, GoodsEnhances
  <1>11. CASE Refine(s) \/ ResolveRefine(s)
    BY <1>11, GoodsRefines
  <1>12. CASE Dismantle(s)
    BY <1>12, GoodsDismantles
  <1>13. CASE Equip(s)
    BY <1>13, GoodsEquips
  <1>14. CASE Unequip(s)
    BY <1>14, GoodsUnequips
  <1>15. CASE Travel(s)
    BY <1>15, GoodsTravels
  <1> QED BY <1>1, <1>2, <1>3, <1>4, <1>5, <1>6, <1>7, <1>8, <1>9, <1>10, <1>11, <1>12, <1>13, <1>14, <1>15
          DEF Step

(* Every step keeps the invariant, and the gear of the pets that are away. *)
LEMMA GoodsNext ==
    ASSUME GoodsSafe, [Next]_vars
    PROVE  GoodsSafe' /\ StaysGeared
  <1>1. ASSUME NEW s \in DOMAIN plan, Step(s)
        PROVE  GoodsSafe' /\ StaysGeared
    <2>1. GoodsKept(s) /\ GoodsInv
      BY <1>1, GoodsStepKept DEF GoodsSafe
    <2>2. GoodsAlone(s) /\ GoodsOwn(s) /\ GoodsMine(s) /\ GoodsStage(s)'
      BY <2>1 DEF GoodsKept
    <2>3. \A q \in DOMAIN plan : GoodsStage(q)'
      BY <2>1, <2>2, GoodsOthers
    <2>4. plan' = plan
      BY <2>2 DEF GoodsAlone
    <2>5. (\A q \in DOMAIN plan : GoodsStage(q))'
      BY <2>3, <2>4
    <2>6. GoodsInv'
      BY <2>1, <2>5 DEF GoodsKept, GoodsInv
    <2>7. GoodsInserts'
      BY <2>1, <2>2, GoodsInsertsKept DEF GoodsSafe
    <2> QED BY <2>1, <2>6, <2>7 DEF GoodsKept, GoodsSafe
  <1>2. CASE UNCHANGED <<plan, pos, tier, inserted, holder, goods>>
    <2>1. /\ plan' = plan /\ pos' = pos /\ holder' = holder /\ piece' = piece /\ away' = away
          /\ job' = job /\ pity' = pity /\ claims' = claims /\ log' = log /\ inserted' = inserted
      BY <1>2 DEF goods
    <2>2. GoodsInv /\ GoodsEnd /\ GoodsFit /\ GoodsInserts /\ CraftsAddUp
      BY DEF GoodsSafe
    <2>3. GoodsTables' /\ GoodsEnd' /\ StaysGeared
      BY <2>1, <2>2, GoodsFixed
    <2>4. GoodsControl'
      BY <2>1, <2>2 DEF GoodsInv, GoodsControl, IsRunning
    <2>5. ASSUME NEW r \in DOMAIN plan PROVE GoodsStage(r)' /\ GoodsInserted(r)' /\ (IsRunning(r)' <=> IsRunning(r))
      <3>1. /\ Kind(r)' = Kind(r) /\ Named(r)' = Named(r) /\ ThePiece(r)' = ThePiece(r)
            /\ Pet(r)' = Pet(r) /\ StepsLength(r)' = StepsLength(r)
            /\ Queue(r)' = Queue(r) /\ QueuedAt(r)' = QueuedAt(r) /\ Brings(r)' = Brings(r)
        BY <2>1, GoodsSamePlan
      <3>2. plan \in Plans /\ plan' \in Plans /\ r \in DOMAIN plan'
        BY <2>1, <2>2 DEF GoodsInv, GoodsControl
      <3>3. Len(StepsOf(r)) = StepsLength(r) /\ (Len(StepsOf(r)))' = StepsLength(r)'
        BY <3>2, GoodsStepsHold, GoodsStepsNext DEF AllStepsKnown
      <3>4. Len(StepsOf(r))' = Len(StepsOf(r)) /\ (IsRunning(r)' <=> IsRunning(r))
        BY <2>1, <3>1, <3>3 DEF IsRunning
      <3>5. IsAtEnd(r)' <=> IsAtEnd(r)
        BY <2>1, <3>4 DEF IsAtEnd
      <3>6. GoodsStage(r)
        BY <2>2 DEF GoodsInv
      <3>7. \A p : HoldsPiece(r, p)' <=> HoldsPiece(r, p)
        BY <2>1 DEF HoldsPiece, IsHere, Row
      <3>8. \A p : Place(Named(r), p)' = Place(Named(r), p)
        BY <3>1 DEF Place
      <3>9. GoodsStage(r)'
        BY <2>1, <3>1, <3>4, <3>5, <3>6, <3>7, <3>8 DEF GoodsStage, Roster, Job
      <3>10. GoodsInserted(r)
        BY <2>2 DEF GoodsInserts
      <3>11. GoodsInserted(r)'
        BY <2>1, <3>1, <3>4, <3>5, <3>10 DEF GoodsInserted, Committed, Unborn
      <3> QED BY <3>4, <3>9, <3>11
    <2>6. GoodsInv'
      BY <2>1, <2>3, <2>4, <2>5 DEF GoodsInv
    <2>7. GoodsInserts'
      BY <2>1, <2>2, <2>5 DEF GoodsInserts, GoodsApart
    <2>8. GoodsFit'
      <3>1. Here' = Here
        BY <2>1 DEF Here, IsHere
      <3> QED BY <2>1, <2>2, <3>1, GoodsFitStays
    <2>9. Started' = Started
      BY <2>1 DEF Started, Kind
    <2>10. CraftsAddUp'
      BY <2>1, <2>2, <2>9, GoodsCraftsKept
    <2> QED BY <2>3, <2>6, <2>7, <2>8, <2>10 DEF GoodsSafe
  <1>3. CASE Elapse
    BY <1>2, <1>3 DEF Elapse, requestVars
  <1>4. CASE UNCHANGED vars
    BY <1>2, <1>4 DEF vars, requestVars
  <1> QED BY <1>1, <1>3, <1>4 DEF Next

LEMMA GoodsFirst == Init => GoodsSafe
  <1> SUFFICES ASSUME Init PROVE GoodsSafe
    OBVIOUS
  <1>1. /\ plan \in Plans /\ pos = [r \in Requests |-> NotBegun] /\ holder = [x \in Rows |-> NoRequest]
        /\ inserted = [r \in Requests |-> {}]
        /\ away = {} /\ job \in InitialJobs /\ pity = 0 /\ claims = <<>> /\ log = {}
    BY DEF Init
  <1>2. /\ NoPet \notin Pets /\ IsFiniteSet(Pieces) /\ EQUIPMENT_CAPACITY \in Nat /\ CRAFT_PITY_AFTER_FAILS \in Nat
        /\ DOMAIN Original \subseteq Pieces /\ Cardinality(DOMAIN Original) <= EQUIPMENT_CAPACITY
        /\ \A p \in DOMAIN Original : Original[p].wearer \in Pets \cup {NoPet} /\ Original[p].level \in Nat
        /\ job \in JobRow /\ (job.active \/ job = NoJob)
    BY <1>1, GoodsParameters DEF GoodsAssumption
  <1>3. DOMAIN plan \subseteq Requests
    BY <1>1, GoodsRequests
  <1>4. ASSUME NEW p \in Pieces
        PROVE  /\ piece[p] \in LoosePiece /\ piece[p].end = "none" /\ piece[p].from \in {"none", "start"}
               /\ piece[p].from # "none" <=> p \in DOMAIN Original
    <2>1. Unborn \in LoosePiece /\ Unborn.end = "none" /\ Unborn.from = "none"
      BY DEF Unborn, LoosePiece
    <2>2. CASE p \in DOMAIN Original
      <3>1. PICK v, l, u : v = Original[p].wearer /\ l = Original[p].level /\ u = Unborn
        OBVIOUS
      <3>2. piece[p] = [u EXCEPT !.from = "start", !.wearer = v, !.level = l]
        BY <2>2, <3>1 DEF Init
      <3>3. v \in Pets \cup {NoPet} /\ l \in Int /\ u \in LoosePiece /\ u.end = "none"
        BY <1>2, <2>1, <2>2, <3>1
      <3> QED BY <2>2, <3>2, <3>3 DEF LoosePiece
    <2>3. CASE p \notin DOMAIN Original
      <3>1. piece[p] = Unborn
        BY <2>3 DEF Init
      <3> QED BY <2>1, <2>3, <3>1
    <2> QED BY <2>2, <2>3
  <1>5. piece \in [Pieces -> LoosePiece]
    <2>1. piece = [p \in Pieces |-> piece[p]]
      BY DEF Init
    <2> QED BY <1>4, <2>1
  <1>6. \A r \in DOMAIN plan : ~IsRunning(r) /\ pos[r] = NotBegun /\ inserted[r] = {}
    BY <1>1, <1>3 DEF IsRunning
  <1>7. GoodsControl
    <2>1. NotBegun \in Int
      BY DEF NotBegun
    <2> QED BY <1>1, <2>1 DEF GoodsControl
  <1>8. GoodsTables
    <2>1. claims \in Seq({"plain", "base", "upgraded"})
      BY <1>1
    <2>2. job = [active |-> job.active, catalyst |-> job.catalyst, finishAt |-> job.finishAt]
      BY <1>2 DEF JobRow
    <2> QED BY <1>1, <1>5, <2>1, <2>2 DEF GoodsTables
  <1>9. GoodsInv
    BY <1>6, <1>7, <1>8 DEF GoodsInv, GoodsStage
  <1>10. GoodsEnd
    BY <1>1, <1>4 DEF GoodsEnd
  <1>11. GoodsFit
    <2>1. Here = DOMAIN Original
      BY <1>2, <1>4 DEF Here, IsHere
    <2>2. ASSUME NEW R \in SUBSET Pending PROVE FitsWith(R)
      <3>1. \A r \in R : inserted[r] = {}
        BY <1>6 DEF Pending
      <3>2. WouldBeHere(R) = DOMAIN Original
        BY <2>1, <3>1 DEF WouldBeHere
      <3>3. PICK h, B, i, q : h = WouldBeHere(R) /\ B = WouldBring(R) /\ i = inserted /\ q = Queues
        OBVIOUS
      <3>4. PICK met : met = {}
        OBVIOUS
      <3>5. UNION {i[x] : x \in met} = {}
        BY <3>4
      <3>6. h \ UNION {i[x] : x \in met} = DOMAIN Original
        BY <3>2, <3>3, <3>5
      <3>7. met \in SUBSET B /\ Cardinality(h \ UNION {i[x] : x \in met}) <= EQUIPMENT_CAPACITY
        BY <1>2, <3>4, <3>6
      <3>8. FitsIn(h, B, i, q)
        BY <3>4, <3>7 DEF FitsIn
      <3> QED BY <3>3, <3>8 DEF FitsWith
    <2> QED BY <2>2 DEF GoodsFit
  <1>13. GoodsInserts
    BY <1>6 DEF GoodsInserts, GoodsApart, GoodsInserted
  <1>12. CraftsAddUp
    <2>1. Cardinality({}) = 0
      BY FS_EmptySet
    <2>2. Cardinality({p \in Pieces : piece[p].from = "craft"}) = 0
      <3>1. {p \in Pieces : piece[p].from = "craft"} = {}
        BY <1>4
      <3> QED BY <2>1, <3>1
    <2>3. Len(claims) = 0
      BY <1>1
    <2>4. Started = 0
      <3>1. {r \in DOMAIN plan : Kind(r) = "start" /\ pos[r] = Committed} = {}
        BY <1>6 DEF NotBegun, Committed
      <3>2. Cardinality({r \in DOMAIN plan : Kind(r) = "start" /\ pos[r] = Committed}) = 0
        BY <2>1, <3>1
      <3> QED BY <3>2 DEF Started
    <2>5. FailuresInARow = 0
      <3>1. {i \in DOMAIN claims : claims[i] = "base" /\ \A j \in DOMAIN claims : claims[j] = "upgraded" => j < i} = {}
        BY <1>1
      <3>2. Cardinality({i \in DOMAIN claims : claims[i] = "base" /\ \A j \in DOMAIN claims : claims[j] = "upgraded" => j < i}) = 0
        BY <2>1, <3>1
      <3> QED BY <3>2 DEF FailuresInARow
    <2>6. \E begun \in {Cardinality({j}) : j \in InitialJobs \ {NoJob}} \cup {0} :
             begun + Started = Len(claims) + (IF job.active THEN 1 ELSE 0)
      <3>1. CASE job.active
        <4>1. job # NoJob
          BY <3>1 DEF NoJob
        <4>2. PICK n : n = Cardinality({job})
          OBVIOUS
        <4>3. n = 1
          BY <4>2, FS_Singleton
        <4>4. n \in {Cardinality({j}) : j \in InitialJobs \ {NoJob}} \cup {0}
          BY <1>1, <4>1, <4>2
        <4>5. n + Started = Len(claims) + 1
          BY <2>3, <2>4, <4>3
        <4> QED BY <3>1, <4>4, <4>5
      <3>2. CASE ~job.active
        BY <2>3, <2>4, <3>2
      <3> QED BY <3>1, <3>2
    <2>7. Cardinality({p \in Pieces : piece[p].from = "craft"}) = Len(claims)
      BY <2>2, <2>3
    <2>8. pity = FailuresInARow /\ pity <= CRAFT_PITY_AFTER_FAILS
      BY <1>1, <1>2, <2>5
    <2> QED BY <2>6, <2>7, <2>8 DEF CraftsAddUp
  <1> QED BY <1>9, <1>10, <1>11, <1>12, <1>13 DEF GoodsSafe

(* The invariant says what the module promises. *)
LEMMA GoodsMeans == GoodsSafe => PieceEndsOnce /\ OverfullByMeetingOnly /\ CraftsAddUp
  <1> SUFFICES ASSUME GoodsSafe PROVE PieceEndsOnce /\ OverfullByMeetingOnly /\ CraftsAddUp
    OBVIOUS
  <1>1. GoodsEnd /\ GoodsFit /\ CraftsAddUp
    BY DEF GoodsSafe
  <1>2. PieceEndsOnce
    <2>1. ASSUME NEW p \in Pieces
          PROVE  /\ Cardinality({e \in log : e.piece = p /\ e.what # "enhanced"}) = Cardinality({p} \cap Gone)
                 /\ p \in Gone => piece[p].wearer = NoPet
      <3>1. PICK S, T : S = {e \in log : e.piece = p /\ e.what # "enhanced"} /\ T = {p} \cap Gone
        OBVIOUS
      <3>2. \A e : e \in S <=> e \in log /\ IsEnding(e, p)
        BY <3>1 DEF IsEnding
      <3>3. CASE piece[p].end # "none"
        <4>1. PICK e \in log : IsEnding(e, p) /\ \A f \in log : IsEnding(f, p) => f = e
          BY <1>1, <3>3 DEF GoodsEnd
        <4>2. S = {e} /\ T = {p}
          BY <3>1, <3>2, <3>3, <4>1 DEF Gone
        <4>3. Cardinality(S) = 1 /\ Cardinality(T) = 1
          BY <4>2, FS_Singleton
        <4> QED BY <1>1, <3>1, <3>3, <4>3 DEF GoodsEnd
      <3>4. CASE piece[p].end = "none"
        <4>1. S = {} /\ T = {}
          BY <1>1, <3>1, <3>2, <3>4 DEF GoodsEnd, Gone
        <4>2. Cardinality(S) = Cardinality(T)
          BY <4>1
        <4> QED BY <3>1, <3>4, <4>2 DEF Gone
      <3> QED BY <3>3, <3>4
    <2> QED BY <2>1 DEF PieceEndsOnce
  <1>3. OverfullByMeetingOnly
    <2>1. FitsWith({})
      BY <1>1 DEF GoodsFit
    <2>2. PICK h, B, i, q : h = Here /\ B = Bringers /\ i = inserted /\ q = Queues
      OBVIOUS
    <2>3. WouldBeHere({}) = h
      BY <2>2 DEF WouldBeHere
    <2>4. WouldBring({}) = B
      BY <2>2 DEF WouldBring, Bringers
    <2>5. FitsIn(h, B, i, q)
      BY <2>1, <2>2, <2>3, <2>4 DEF FitsWith
    <2>6. PICK met \in SUBSET B :
             /\ \A x, y \in met : x # y => q[x] # q[y]
             /\ met # {} => \E last \in B : \A x \in met : q[x] # q[last]
             /\ Cardinality(h \ UNION {i[x] : x \in met}) <= EQUIPMENT_CAPACITY
      BY <2>5 DEF FitsIn
    <2>7. \A x \in B : q[x] = Queue(x)
      BY <2>2 DEF Bringers, Queues
    <2>8. /\ \A x, y \in met : x # y => Queue(x) # Queue(y)
          /\ met # {} => \E last \in B : \A x \in met : Queue(x) # Queue(last)
      BY <2>6, <2>7
    <2> QED BY <2>2, <2>6, <2>8 DEF OverfullByMeetingOnly
  <1> QED BY <1>1, <1>2, <1>3
=============================================================================
