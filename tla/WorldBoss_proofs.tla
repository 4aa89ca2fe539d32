-------------------------- MODULE WorldBoss_proofs --------------------------
(* Proofs about WorldBoss, for every set of users and requests, every boss *)
(* and every limit.                                                        *)
EXTENDS WorldBoss, NatFacts, TLAPS

(* What is paid or about to be paid for a fallen boss is worked out from   *)
(* what the boss and the damage rows still say.                            *)
IsFinal(u, reward) ==
    reward.defeated =>
        /\ boss.defeated
        /\ reward.rank = RankOf(u)
        /\ reward.hits = share[u].hits
        /\ reward.isKillingBlow <=> boss.killer = u

(* The damage of a fight takes all the HP of the boss when it killed it,   *)
(* and never all of it when it did not.                                    *)
IsSplit(d, hp) ==
    IF d.slain THEN d.own + d.ally = hp ELSE d.own + d.ally < hp

(* What a request may rely on because of the locks it holds. *)
RequestOK(r) ==
    /\ late[r] => over
    /\ view[r].defeated => view[r] = boss
    /\ pc[r] \in {"ticking", "ticked", "counted", "facing", "fought"} =>
          holder[Monster(User(r))] = r
    /\ pc[r] \in {"counted", "facing", "fought"} => fights[User(r)] < WORLD_BOSS_HITS
    /\ pc[r] \in {"facing", "fought"} => holder[BossRow] = r /\ view[r] = boss
    /\ pc[r] = "fought" =>
          /\ ~boss.defeated
          /\ IsSplit(draft[r], boss.hp)
          /\ HasAlly(r) => earned[Owner(r)] + draft[r].fee <= RENTAL_OWNER_DAILY_CAP
    /\ pc[r] \in {"sharing", "assessed"} => IsEnded(view[r], late[r])
    /\ pc[r] = "assessed" => IsFinal(User(r), draft[r])

RequestsOK == \A r \in Requests : RequestOK(r)

PaidIsFinal == \A u \in Users : \A i \in 1..Len(paid[u]) : IsFinal(u, paid[u][i])

IInv ==
    /\ TypeOK
    /\ RequestsOK
    /\ DamageAddsUp
    /\ HitsWithinLimit
    /\ EarningsWithinCap
    /\ ClaimedOnce
    /\ PaidIsFinal

---------------------------------------------------------------------------

Damage == [u \in Users |-> share[u].damage]

(* What taking a lock, or releasing one's own, does to the others' locks. *)
LEMMA TakeKeeps ==
    ASSUME TypeOK, NEW r \in Requests, NEW x \in Resources, Take(x, r)
    PROVE  /\ holder' \in [Resources -> Requests \cup {NoRequest}]
           /\ holder'[x] = r
           /\ \A y \in Resources : holder[y] \in Requests => holder'[y] = holder[y]
  BY WorldBossAssumption DEF TypeOK, Take, Free

LEMMA ReleaseKeeps ==
    ASSUME TypeOK, NEW r \in Requests, Release(r)
    PROVE  /\ holder' \in [Resources -> Requests \cup {NoRequest}]
           /\ \A y \in Resources : holder[y] # r => holder'[y] = holder[y]
  BY DEF TypeOK, Release

LEMMA ResourceNames ==
    /\ \A u \in Users : Monster(u) \in Resources /\ Wallet(u) \in Resources /\ Share(u) \in Resources
    /\ BossRow \in Resources
  BY DEF Resources

LEMMA PlanType ==
    ASSUME NEW r \in Requests
    PROVE  /\ User(r) \in Users
           /\ Owner(r) \in Users \cup {NoUser}
           /\ HasAlly(r) => Owner(r) \in Users
           /\ NoUser \notin Users
  BY WorldBossAssumption DEF User, Owner, HasAlly

(* A request's step changes nothing that the others rely on: their fields  *)
(* and the locks they hold.                                                *)
Others(r) ==
    /\ \A s \in Requests : s # r =>
          /\ pc'[s] = pc[s] /\ late'[s] = late[s] /\ view'[s] = view[s] /\ draft'[s] = draft[s]
          /\ todo'[s] = todo[s]
    /\ \A s \in Requests, x \in Resources : s # r /\ holder[x] = s => holder'[x] = s

(* The steps that commit nothing. *)
LEMMA QuietInv ==
    ASSUME IInv, NEW r \in Requests, Others(r), UNCHANGED tables, over' = over,
           TypeOK', RequestOK(r)'
    PROVE  IInv'
  <1>1. /\ boss' = boss /\ share' = share /\ fights' = fights /\ allied' = allied
        /\ earned' = earned /\ paid' = paid
    BY DEF tables
  <1>2. \A u, w : IsFinal(u, w)' <=> IsFinal(u, w)
    BY <1>1 DEF IsFinal, RankOf
  <1>3. RequestsOK'
    <2> SUFFICES ASSUME NEW s \in Requests, s # r PROVE RequestOK(s)'
      BY DEF RequestsOK
    <2>1. /\ pc'[s] = pc[s] /\ late'[s] = late[s] /\ view'[s] = view[s] /\ draft'[s] = draft[s]
          /\ \A x \in Resources : holder[x] = s => holder'[x] = s
      BY DEF Others
    <2>2. RequestOK(s)
      BY DEF IInv, RequestsOK
    <2>3. Monster(User(s)) \in Resources /\ BossRow \in Resources
      BY ResourceNames, PlanType
    <2>4. IsFinal(User(s), draft[s])' <=> IsFinal(User(s), draft[s])
      BY <1>1, <2>1 DEF IsFinal, RankOf
    <2> QED BY <1>1, <2>1, <2>2, <2>3, <2>4 DEF RequestOK, IsEnded
  <1>4. DamageAddsUp' /\ HitsWithinLimit' /\ EarningsWithinCap' /\ ClaimedOnce' /\ PaidIsFinal'
    BY <1>1, <1>2 DEF IInv, DamageAddsUp, HitsWithinLimit, EarningsWithinCap, ClaimedOnce, PaidIsFinal
  <1> QED BY <1>3, <1>4 DEF IInv

(* A step of r that writes only r's own fields, and takes a free lock or   *)
(* none. *)
Plain(r, where, isLate, seen, d) ==
    /\ pc' = [pc EXCEPT ![r] = where]
    /\ late' = [late EXCEPT ![r] = isLate]
    /\ view' = [view EXCEPT ![r] = seen]
    /\ DOMAIN draft' = Requests /\ draft'[r] = d
    /\ \A s \in Requests : s # r => draft'[s] = draft[s]
    /\ holder' \in [Resources -> Requests \cup {NoRequest}]
    /\ \A x \in Resources : holder[x] \in Requests => holder'[x] = holder[x]
    /\ UNCHANGED tables /\ over' = over

Stages == {"idle", "begun", "ticking", "ticked", "counted", "facing", "fought",
           "claiming", "sharing", "assessed"} \cup Ended

DraftType(where) ==
    CASE where = "fought"   -> Strike
      [] where = "assessed" -> Reward
      [] OTHER              -> {NoDraft}

LEMMA PlainInv ==
    ASSUME IInv, NEW r \in Requests, NEW where \in Stages, NEW isLate \in BOOLEAN,
           NEW seen \in Boss, NEW d \in DraftType(where), Plain(r, where, isLate, seen, d),
           todo' \in [Requests -> SUBSET Users], \A s \in Requests : s # r => todo'[s] = todo[s],
           RequestOK(r)'
    PROVE  IInv'
  <1>1. Others(r)
    BY DEF Others, Plain, IInv, TypeOK
  <1>2. TypeOK'
    <2>1. \A s \in Requests : draft'[s] \in DraftType(pc'[s])
      BY DEF Plain, IInv, TypeOK, DraftType
    <2>2. /\ pc' \in [Requests -> Stages] /\ late' \in [Requests -> BOOLEAN]
          /\ view' \in [Requests -> Boss] /\ DOMAIN draft' = Requests
          /\ holder' \in [Resources -> Requests \cup {NoRequest}]
      BY DEF Plain, IInv, TypeOK, Stages
    <2>3. /\ boss' = boss /\ share' = share /\ fights' = fights /\ allied' = allied
          /\ earned' = earned /\ paid' = paid /\ over' = over
      BY DEF Plain, tables
    <2> QED BY <2>1, <2>2, <2>3 DEF IInv, TypeOK, DraftType, Stages
  <1> QED BY <1>1, <1>2, QuietInv DEF Plain

---------------------------------------------------------------------------
(* The steps up to a commit.                                               *)

LEMMA BeginInv ==
    ASSUME IInv, NEW r \in Requests, Begin(r)
    PROVE  IInv'
  <1>1. Plain(r, "begun", over, view[r], draft[r])
    <2>1. /\ pc' = [pc EXCEPT ![r] = "begun"]
          /\ late' = [late EXCEPT ![r] = over] /\ view' = view /\ draft' = draft /\ holder' = holder
          /\ tables' = tables /\ over' = over
      BY DEF Begin, Goes, tables
    <2> QED BY <2>1 DEF Plain, IInv, TypeOK
  <1>2. pc'[r] = "begun" /\ late'[r] = over /\ view' = view /\ boss' = boss /\ over' = over
    BY DEF Begin, Goes, tables, IInv, TypeOK
  <1>3. RequestOK(r)'
    BY <1>2 DEF RequestOK, IInv, RequestsOK
  <1>4. draft[r] \in DraftType("begun") /\ over \in BOOLEAN /\ view[r] \in Boss /\ "begun" \in Stages
    BY DEF Begin, IInv, TypeOK, DraftType, Stages
  <1>5. todo' = todo /\ todo \in [Requests -> SUBSET Users]
    BY DEF Begin, IInv, TypeOK
  <1> QED BY <1>1, <1>3, <1>4, <1>5, PlainInv

LEMMA LockMonsterInv ==
    ASSUME IInv, NEW r \in Requests, LockMonster(r)
    PROVE  IInv'
  <1> DEFINE where == IF r \in Discoverers THEN "ticking" ELSE "ticked"
  <1>1. /\ holder' \in [Resources -> Requests \cup {NoRequest}]
        /\ holder'[Monster(User(r))] = r
        /\ \A y \in Resources : holder[y] \in Requests => holder'[y] = holder[y]
    BY TakeKeeps, ResourceNames, PlanType DEF LockMonster, IInv
  <1>2. Plain(r, where, late[r], view[r], draft[r])
    <2>1. /\ pc' = [pc EXCEPT ![r] = where]
          /\ late' = late /\ view' = view /\ draft' = draft
          /\ tables' = tables /\ over' = over
      BY DEF LockMonster, Goes, tables
    <2> QED BY <1>1, <2>1 DEF Plain, IInv, TypeOK
  <1>3. /\ pc'[r] \in {"ticking", "ticked"} /\ late' = late /\ view' = view /\ boss' = boss
        /\ over' = over
    BY DEF LockMonster, Goes, tables, IInv, TypeOK
  <1>4. RequestOK(r)'
    BY <1>1, <1>3 DEF RequestOK, IInv, RequestsOK
  <1>5. /\ draft[r] \in DraftType(where) /\ late[r] \in BOOLEAN /\ view[r] \in Boss
        /\ where \in Stages
    BY DEF LockMonster, IInv, TypeOK, DraftType, Stages
  <1>6. todo' = todo /\ todo \in [Requests -> SUBSET Users]
    BY DEF LockMonster, IInv, TypeOK
  <1> HIDE DEF where
  <1> QED BY <1>2, <1>4, <1>5, <1>6, PlainInv

LEMMA PayDiscoveryInv ==
    ASSUME IInv, NEW r \in Requests, PayDiscovery(r)
    PROVE  IInv'
  <1>1. /\ holder' \in [Resources -> Requests \cup {NoRequest}]
        /\ \A y \in Resources : holder[y] \in Requests => holder'[y] = holder[y]
    BY TakeKeeps, ResourceNames, PlanType DEF PayDiscovery, IInv
  <1>2. Plain(r, "ticked", late[r], view[r], draft[r])
    <2>1. /\ pc' = [pc EXCEPT ![r] = "ticked"]
          /\ late' = late /\ view' = view /\ draft' = draft
          /\ tables' = tables /\ over' = over
      BY DEF PayDiscovery, Goes, tables
    <2> QED BY <1>1, <2>1 DEF Plain, IInv, TypeOK
  <1>3. /\ pc[r] = "ticking" /\ pc'[r] = "ticked" /\ late' = late /\ view' = view /\ boss' = boss
        /\ over' = over
    BY DEF PayDiscovery, Goes, tables, IInv, TypeOK
  <1>4. RequestOK(r)'
    BY <1>1, <1>3, ResourceNames, PlanType DEF RequestOK, IInv, RequestsOK
  <1>5. /\ draft[r] \in DraftType("ticked") /\ late[r] \in BOOLEAN /\ view[r] \in Boss
        /\ "ticked" \in Stages
    BY DEF PayDiscovery, IInv, TypeOK, DraftType, Stages
  <1>6. todo' = todo /\ todo \in [Requests -> SUBSET Users]
    BY DEF PayDiscovery, IInv, TypeOK
  <1> QED BY <1>2, <1>4, <1>5, <1>6, PlainInv

LEMMA CountHitsInv ==
    ASSUME IInv, NEW r \in Requests, CountHits(r)
    PROVE  IInv'
  <1>1. Plain(r, "counted", late[r], view[r], draft[r])
    <2>1. /\ pc' = [pc EXCEPT ![r] = "counted"]
          /\ late' = late /\ view' = view /\ draft' = draft /\ holder' = holder
          /\ tables' = tables /\ over' = over
      BY DEF CountHits, Goes, tables
    <2> QED BY <2>1 DEF Plain, IInv, TypeOK
  <1>2. /\ pc[r] = "ticked" /\ pc'[r] = "counted" /\ late' = late /\ view' = view /\ boss' = boss
        /\ over' = over /\ holder' = holder /\ fights' = fights
        /\ fights[User(r)] < WORLD_BOSS_HITS
    BY DEF CountHits, HasHitsLeft, Goes, tables, IInv, TypeOK
  <1>3. RequestOK(r)'
    BY <1>2 DEF RequestOK, IInv, RequestsOK
  <1>4. /\ draft[r] \in DraftType("counted") /\ late[r] \in BOOLEAN /\ view[r] \in Boss
        /\ "counted" \in Stages
    BY DEF CountHits, IInv, TypeOK, DraftType, Stages
  <1>5. todo' = todo /\ todo \in [Requests -> SUBSET Users]
    BY DEF CountHits, IInv, TypeOK
  <1> QED BY <1>1, <1>3, <1>4, <1>5, PlainInv

LEMMA LockBossInv ==
    ASSUME IInv, NEW r \in Requests, LockBoss(r)
    PROVE  IInv'
  <1>1. /\ holder' \in [Resources -> Requests \cup {NoRequest}]
        /\ holder'[BossRow] = r
        /\ \A y \in Resources : holder[y] \in Requests => holder'[y] = holder[y]
    BY TakeKeeps, ResourceNames DEF LockBoss, IInv
  <1>2. Plain(r, "facing", late[r], boss, draft[r])
    <2>1. /\ pc' = [pc EXCEPT ![r] = "facing"]
          /\ late' = late /\ view' = [view EXCEPT ![r] = boss] /\ draft' = draft
          /\ tables' = tables /\ over' = over
      BY DEF LockBoss, Goes, tables
    <2> QED BY <1>1, <2>1 DEF Plain, IInv, TypeOK
  <1>3. /\ pc[r] = "counted" /\ pc'[r] = "facing" /\ late' = late /\ view'[r] = boss /\ boss' = boss
        /\ over' = over /\ fights' = fights
    BY DEF LockBoss, Goes, tables, IInv, TypeOK
  <1>4. RequestOK(r)'
    BY <1>1, <1>3, ResourceNames, PlanType DEF RequestOK, IInv, RequestsOK
  <1>5. /\ draft[r] \in DraftType("facing") /\ late[r] \in BOOLEAN /\ boss \in Boss
        /\ "facing" \in Stages
    BY DEF LockBoss, IInv, TypeOK, DraftType, Stages
  <1>6. /\ todo' \in [Requests -> SUBSET Users]
        /\ \A s \in Requests : s # r => todo'[s] = todo[s]
    BY PlanType DEF LockBoss, IInv, TypeOK
  <1> QED BY <1>2, <1>4, <1>5, <1>6, PlainInv

LEMMA LockWalletInv ==
    ASSUME IInv, NEW r \in Requests, NEW u \in Users, LockWallet(r, u)
    PROVE  IInv'
  <1>1. /\ holder' \in [Resources -> Requests \cup {NoRequest}]
        /\ \A y \in Resources : holder[y] \in Requests => holder'[y] = holder[y]
    BY TakeKeeps, ResourceNames DEF LockWallet, IInv
  <1>2. Plain(r, "facing", late[r], view[r], draft[r])
    <2>1. /\ pc' = pc /\ pc[r] = "facing"
          /\ late' = late /\ view' = view /\ draft' = draft
          /\ tables' = tables /\ over' = over
      BY DEF LockWallet, tables
    <2> QED BY <1>1, <2>1 DEF Plain, IInv, TypeOK
  <1>3. /\ pc[r] = "facing" /\ pc' = pc /\ late' = late /\ view' = view /\ boss' = boss
        /\ over' = over /\ fights' = fights
    BY DEF LockWallet, tables
  <1>4. RequestOK(r)'
    BY <1>1, <1>3, ResourceNames, PlanType DEF RequestOK, IInv, RequestsOK
  <1>5. /\ draft[r] \in DraftType("facing") /\ late[r] \in BOOLEAN /\ view[r] \in Boss
        /\ "facing" \in Stages
    BY DEF LockWallet, IInv, TypeOK, DraftType, Stages
  <1>6. /\ todo' \in [Requests -> SUBSET Users]
        /\ \A s \in Requests : s # r => todo'[s] = todo[s]
    BY DEF LockWallet, IInv, TypeOK
  <1> QED BY <1>2, <1>4, <1>5, <1>6, PlainInv

(* splitWorldBossDamage deals out what the boss loses, and no more. *)
LEMMA SplitSound ==
    ASSUME NEW hp \in Nat \ {0}, NEW own \in Nat, NEW ally \in Nat, NEW slain \in BOOLEAN
    PROVE  LET split == SplitDamage(hp, own, ally, slain)
           IN  /\ split.own \in 0..hp /\ split.ally \in 0..hp
               /\ slain => split.own + split.ally = hp
               /\ ~slain => split.own + split.ally < hp
  <1> DEFINE limit == IF slain THEN hp ELSE hp - 1
             mine == AtMost(own, limit)
             helped == AtMost(ally, limit - mine)
  <1>1. limit \in Nat /\ limit <= hp /\ (~slain => limit < hp) /\ (slain => limit = hp)
    OBVIOUS
  <1> HIDE DEF limit
  <1>2. mine \in Nat /\ mine <= limit
    BY <1>1 DEF AtMost
  <1> HIDE DEF mine
  <1>3. helped \in Nat /\ mine + helped <= limit
    BY <1>1, <1>2 DEF AtMost
  <1> HIDE DEF helped
  <1>4. SplitDamage(hp, own, ally, slain) =
           [own |-> IF slain THEN hp - helped ELSE mine, ally |-> helped]
    BY DEF SplitDamage, limit, mine, helped
  <1> QED BY <1>1, <1>2, <1>3, <1>4

LEMMA FightInv ==
    ASSUME IInv, NEW r \in Requests, Fight(r)
    PROVE  IInv'
  <1>1. /\ pc[r] = "facing" /\ pc' = [pc EXCEPT ![r] = "fought"]
        /\ late' = late /\ view' = view /\ boss' = boss /\ holder' = holder /\ todo' = todo
        /\ over' = over /\ fights' = fights /\ earned' = earned /\ tables' = tables
        /\ ~view[r].defeated
    BY DEF Fight, Goes, IsActive, tables
  <1>2. /\ view[r] = boss /\ ~boss.defeated /\ boss \in Boss
        /\ holder[BossRow] = r /\ holder[Monster(User(r))] = r
        /\ fights[User(r)] < WORLD_BOSS_HITS
    BY <1>1 DEF IInv, RequestsOK, RequestOK, TypeOK
  <1>3. boss.hp \in Nat \ {0} /\ boss.hp <= MaxHp /\ MaxHp \in Nat
    BY <1>2, WorldBossAssumption DEF IInv, DamageAddsUp, Boss
  <1>4. PICK own \in Nat, ally \in Nat, slain \in BOOLEAN :
           draft' = [draft EXCEPT ![r] =
                 [own |-> SplitDamage(boss.hp, own, ally, slain).own,
                  ally |-> SplitDamage(boss.hp, own, ally, slain).ally,
                  slain |-> slain,
                  fee |-> IF HasAlly(r) THEN RentalFee(Owner(r)) ELSE 0]]
    <2>1. PICK own \in Dealt, ally \in IF HasAlly(r) THEN Dealt ELSE {0}, slain \in BOOLEAN :
             draft' = [draft EXCEPT ![r] =
                   [own |-> SplitDamage(view[r].hp, own, ally, slain).own,
                    ally |-> SplitDamage(view[r].hp, own, ally, slain).ally,
                    slain |-> slain,
                    fee |-> IF HasAlly(r) THEN RentalFee(Owner(r)) ELSE 0]]
      BY DEF Fight
    <2>2. own \in Nat /\ ally \in Nat
      BY WorldBossAssumption
    <2> QED BY <1>2, <2>1, <2>2
  <1> DEFINE split == SplitDamage(boss.hp, own, ally, slain)
             fee == IF HasAlly(r) THEN RentalFee(Owner(r)) ELSE 0
             d == [own |-> split.own, ally |-> split.ally, slain |-> slain, fee |-> fee]
  <1>5. /\ split.own \in 0..boss.hp /\ split.ally \in 0..boss.hp
        /\ slain => split.own + split.ally = boss.hp
        /\ ~slain => split.own + split.ally < boss.hp
    BY <1>3, SplitSound
  <1>6. /\ fee \in 0..RENTAL_FEE
        /\ HasAlly(r) => earned[Owner(r)] + fee <= RENTAL_OWNER_DAILY_CAP
    <2>1. RENTAL_FEE \in Nat /\ RENTAL_OWNER_DAILY_CAP \in Nat
      BY WorldBossAssumption
    <2>2. HasAlly(r) => /\ earned[Owner(r)] \in Nat
                        /\ earned[Owner(r)] <= RENTAL_OWNER_DAILY_CAP
      BY PlanType DEF IInv, TypeOK, EarningsWithinCap
    <2> QED BY <2>1, <2>2 DEF RentalFee, AtLeast0, AtMost
  <1>7. draft' = [draft EXCEPT ![r] = d]
    BY <1>4
  <1> HIDE DEF split, fee
  <1>8. d \in DraftType("fought")
    <2>1. split.own \in 0..MaxHp /\ split.ally \in 0..MaxHp
      BY <1>3, <1>5
    <2> QED BY <1>6, <2>1 DEF DraftType, Strike
  <1>9. IsSplit(d, boss.hp) /\ (HasAlly(r) => earned[Owner(r)] + d.fee <= RENTAL_OWNER_DAILY_CAP)
    BY <1>5, <1>6 DEF IsSplit
  <1> HIDE DEF d
  <1>10. pc'[r] = "fought" /\ draft'[r] = d
    BY <1>1, <1>7 DEF IInv, TypeOK
  <1>11. RequestOK(r)'
    BY <1>1, <1>2, <1>9, <1>10 DEF RequestOK, IsSplit, IInv, RequestsOK
  <1>12. Plain(r, "fought", late[r], view[r], d)
    BY <1>1, <1>7 DEF Plain, IInv, TypeOK
  <1>13. /\ late[r] \in BOOLEAN /\ view[r] \in Boss /\ "fought" \in Stages
         /\ todo' \in [Requests -> SUBSET Users]
    BY <1>1 DEF IInv, TypeOK, Stages
  <1> QED BY <1>1, <1>8, <1>11, <1>12, <1>13, PlainInv

LEMMA ReadBossInv ==
    ASSUME IInv, NEW r \in Requests, ReadBoss(r)
    PROVE  IInv'
  <1>1. Plain(r, "claiming", late[r], boss, draft[r])
    <2>1. /\ pc' = [pc EXCEPT ![r] = "claiming"]
          /\ late' = late /\ view' = [view EXCEPT ![r] = boss] /\ draft' = draft /\ holder' = holder
          /\ tables' = tables /\ over' = over
      BY DEF ReadBoss, Goes, tables
    <2> QED BY <2>1 DEF Plain, IInv, TypeOK
  <1>2. pc'[r] = "claiming" /\ late' = late /\ view'[r] = boss /\ boss' = boss /\ over' = over
    BY DEF ReadBoss, Goes, tables, IInv, TypeOK
  <1>3. RequestOK(r)'
    BY <1>2 DEF RequestOK, IInv, RequestsOK
  <1>4. /\ draft[r] \in DraftType("claiming") /\ late[r] \in BOOLEAN /\ boss \in Boss
        /\ "claiming" \in Stages
    BY DEF ReadBoss, IInv, TypeOK, DraftType, Stages
  <1>5. todo' = todo /\ todo \in [Requests -> SUBSET Users]
    BY DEF ReadBoss, IInv, TypeOK
  <1> QED BY <1>1, <1>3, <1>4, <1>5, PlainInv

LEMMA LockShareInv ==
    ASSUME IInv, NEW r \in Requests, LockShare(r)
    PROVE  IInv'
  <1>1. /\ holder' \in [Resources -> Requests \cup {NoRequest}]
        /\ \A y \in Resources : holder[y] \in Requests => holder'[y] = holder[y]
    BY TakeKeeps, ResourceNames, PlanType DEF LockShare, IInv
  <1>2. Plain(r, "sharing", late[r], view[r], draft[r])
    <2>1. /\ pc' = [pc EXCEPT ![r] = "sharing"]
          /\ late' = late /\ view' = view /\ draft' = draft
          /\ tables' = tables /\ over' = over
      BY DEF LockShare, Goes, tables
    <2> QED BY <1>1, <2>1 DEF Plain, IInv, TypeOK
  <1>3. /\ pc'[r] = "sharing" /\ late' = late /\ view' = view /\ boss' = boss /\ over' = over
        /\ IsEnded(view[r], late[r])
    BY DEF LockShare, Goes, tables, IInv, TypeOK
  <1>4. RequestOK(r)'
    BY <1>3 DEF RequestOK, IInv, RequestsOK
  <1>5. /\ draft[r] \in DraftType("sharing") /\ late[r] \in BOOLEAN /\ view[r] \in Boss
        /\ "sharing" \in Stages
    BY DEF LockShare, IInv, TypeOK, DraftType, Stages
  <1>6. todo' = todo /\ todo \in [Requests -> SUBSET Users]
    BY DEF LockShare, IInv, TypeOK
  <1> QED BY <1>2, <1>4, <1>5, <1>6, PlainInv

LEMMA RankType ==
    ASSUME NEW u PROVE RankOf(u) \in Nat \ {0}
  <1>1. IsFiniteSet({v \in Users : share[v].damage > share[u].damage})
    BY WorldBossAssumption, FS_Subset
  <1>2. Cardinality({v \in Users : share[v].damage > share[u].damage}) \in Nat
    BY <1>1, FS_CardinalityType
  <1> QED BY <1>2 DEF RankOf

(* What a claim works out from a fallen boss is final. *)
LEMMA AssessInv ==
    ASSUME IInv, NEW r \in Requests, Assess(r)
    PROVE  IInv'
  <1>1. /\ pc[r] = "sharing" /\ pc' = [pc EXCEPT ![r] = "assessed"]
        /\ draft' = [draft EXCEPT ![r] = RewardOf(r)]
        /\ late' = late /\ view' = view /\ boss' = boss /\ share' = share /\ holder' = holder
        /\ todo' = todo /\ over' = over /\ tables' = tables
    BY DEF Assess, Goes, tables
  <1>2. /\ RewardOf(r).rank = RankOf(User(r)) /\ RewardOf(r).hits = share[User(r)].hits
        /\ RewardOf(r).defeated = view[r].defeated
        /\ RewardOf(r).isKillingBlow = (view[r].killer = User(r))
    BY DEF RewardOf
  <1>3. RewardOf(r) \in DraftType("assessed")
    <2>1. share[User(r)].hits \in Nat /\ view[r].defeated \in BOOLEAN
      BY PlanType DEF IInv, TypeOK, Boss
    <2> QED BY <2>1, RankType DEF RewardOf, Reward, DraftType
  <1>4. IsFinal(User(r), RewardOf(r))
    <2>1. view[r].defeated => view[r] = boss
      BY DEF IInv, RequestsOK, RequestOK
    <2> QED BY <1>2, <2>1 DEF IsFinal
  <1>5. IsEnded(view[r], late[r]) /\ (late[r] => over) /\ (view[r].defeated => view[r] = boss)
    BY <1>1 DEF IInv, RequestsOK, RequestOK
  <1>6. pc'[r] = "assessed" /\ draft'[r] = RewardOf(r)
    BY <1>1 DEF IInv, TypeOK
  <1>7. IsFinal(User(r), draft[r])'
    BY <1>1, <1>4, <1>6 DEF IsFinal, RankOf
  <1>8. RequestOK(r)'
    BY <1>1, <1>5, <1>6, <1>7 DEF RequestOK
  <1>9. Plain(r, "assessed", late[r], view[r], RewardOf(r))
    BY <1>1 DEF Plain, IInv, TypeOK
  <1>10. /\ late[r] \in BOOLEAN /\ view[r] \in Boss /\ "assessed" \in Stages
         /\ todo' \in [Requests -> SUBSET Users]
    BY <1>1 DEF IInv, TypeOK, Stages
  <1> QED BY <1>1, <1>3, <1>8, <1>9, <1>10, PlainInv

---------------------------------------------------------------------------
(* The steps that end a request.                                           *)

LEMMA UndoInv ==
    ASSUME IInv, NEW r \in Requests, Undo(r)
    PROVE  IInv'
  <1>1. /\ draft' = [draft EXCEPT ![r] = NoDraft] /\ pc' = [pc EXCEPT ![r] = "rolledBack"]
        /\ Release(r) /\ late' = late /\ view' = view /\ todo' = todo /\ over' = over
        /\ tables' = tables /\ boss' = boss
    BY DEF Undo, Goes, tables
  <1>2. /\ holder' \in [Resources -> Requests \cup {NoRequest}]
        /\ \A x \in Resources : holder[x] # r => holder'[x] = holder[x]
    BY <1>1, ReleaseKeeps DEF IInv
  <1>3. Others(r)
    BY <1>1, <1>2 DEF Others, IInv, TypeOK
  <1>4. /\ pc' \in [Requests -> Stages] /\ DOMAIN draft' = Requests /\ pc'[r] = "rolledBack"
        /\ \A s \in Requests : draft'[s] \in DraftType(pc'[s])
    BY <1>1 DEF IInv, TypeOK, Stages, DraftType, Ended
  <1>5. TypeOK'
    <2>1. /\ share' = share /\ fights' = fights /\ allied' = allied
          /\ earned' = earned /\ paid' = paid
      BY <1>1 DEF tables
    <2> QED BY <1>1, <1>2, <1>4, <2>1 DEF IInv, TypeOK, Stages, DraftType
  <1>6. RequestOK(r)'
    BY <1>1, <1>4 DEF RequestOK, IInv, RequestsOK
  <1> QED BY <1>1, <1>3, <1>5, <1>6, QuietInv

(* What a commit does to the requests: r is done, nobody else has moved.   *)
LEMMA CommitOthers ==
    ASSUME IInv, NEW r \in Requests, CommitAttack(r) \/ CommitClaim(r)
    PROVE  /\ pc'[r] = "committed"
           /\ pc' \in [Requests -> Stages] /\ DOMAIN draft' = Requests
           /\ \A s \in Requests : draft'[s] \in DraftType(pc'[s])
           /\ holder' \in [Resources -> Requests \cup {NoRequest}]
           /\ late' = late /\ view' = view /\ todo' = todo /\ over' = over
           /\ \A s \in Requests : s # r =>
                 /\ pc'[s] = pc[s] /\ draft'[s] = draft[s]
                 /\ \A x \in Resources : holder[x] = s => holder'[x] = s
  <1>1. /\ draft' = [draft EXCEPT ![r] = NoDraft] /\ pc' = [pc EXCEPT ![r] = "committed"]
        /\ Release(r) /\ late' = late /\ view' = view /\ todo' = todo /\ over' = over
    BY DEF CommitAttack, CommitClaim, Goes
  <1>2. /\ holder' \in [Resources -> Requests \cup {NoRequest}]
        /\ \A x \in Resources : holder[x] # r => holder'[x] = holder[x]
    BY <1>1, ReleaseKeeps DEF IInv
  <1>3. pc' \in [Requests -> Stages] /\ DOMAIN draft' = Requests /\ pc'[r] = "committed"
    BY <1>1 DEF IInv, TypeOK, Stages, Ended
  <1>4. \A s \in Requests : draft'[s] \in DraftType(pc'[s])
    BY <1>1 DEF IInv, TypeOK, DraftType
  <1>5. \A s \in Requests : s # r => pc'[s] = pc[s] /\ draft'[s] = draft[s]
    BY <1>1 DEF IInv, TypeOK
  <1> QED BY <1>1, <1>2, <1>3, <1>4, <1>5

LEMMA DamageType ==
    ASSUME TypeOK
    PROVE  Damage \in [Users -> Nat] /\ IsFiniteSet(Users)
  <1>1. \A u \in Users : share[u].damage \in Nat
    BY WorldBossAssumption DEF TypeOK
  <1> QED BY <1>1, WorldBossAssumption DEF Damage

(* An attack takes from the boss what it adds to the damage rows.          *)
LEMMA CommitAttackInv ==
    ASSUME IInv, NEW r \in Requests, CommitAttack(r)
    PROVE  IInv'
  <1> DEFINE d == draft[r]
             u == User(r)
  <1>1. /\ pc[r] = "fought" /\ view[r] = boss /\ ~boss.defeated /\ boss \in Boss
        /\ holder[BossRow] = r /\ holder[Monster(u)] = r
        /\ fights[u] < WORLD_BOSS_HITS
        /\ IsSplit(d, boss.hp)
        /\ HasAlly(r) => earned[Owner(r)] + d.fee <= RENTAL_OWNER_DAILY_CAP
        /\ d \in Strike
    BY DEF CommitAttack, IInv, RequestsOK, RequestOK, TypeOK
  <1>2. /\ u \in Users /\ d.own \in Nat /\ d.ally \in Nat /\ d.fee \in Nat /\ d.slain \in BOOLEAN
        /\ boss.hp \in Nat /\ boss.hp <= MaxHp /\ boss.hp # 0 /\ boss.killer = NoUser
        /\ MaxHp \in Nat /\ WORLD_BOSS_HITS \in Nat
    BY <1>1, PlanType, WorldBossAssumption DEF IInv, DamageAddsUp, Strike, Boss
  <1>3. /\ boss' = [hp |-> IF d.slain THEN 0 ELSE boss.hp - d.own - d.ally,
                    defeated |-> boss.defeated \/ d.slain,
                    killer |-> IF d.slain THEN u ELSE boss.killer]
        /\ share' = [share EXCEPT ![u].damage = @ + d.own, ![u].hits = @ + 1]
        /\ allied' = allied + d.ally
        /\ earned' = IF HasAlly(r) THEN [earned EXCEPT ![Owner(r)] = @ + d.fee] ELSE earned
        /\ fights' = [fights EXCEPT ![u] = @ + 1]
        /\ paid' = paid
    BY <1>1 DEF CommitAttack
  <1>4. /\ DOMAIN share' = Users
        /\ \A v \in Users : v # u => share'[v] = share[v]
        /\ share'[u] = [damage |-> share[u].damage + d.own, hits |-> share[u].hits + 1,
                        claimed |-> share[u].claimed]
        /\ share' = [v \in Users |-> share'[v]]
    <2>1. /\ share \in [Users -> [damage : 0..MaxHp, hits : Nat, claimed : BOOLEAN]]
          /\ share[u] \in [damage : 0..MaxHp, hits : Nat, claimed : BOOLEAN]
      BY <1>2 DEF IInv, TypeOK
    <2> DEFINE row == [damage |-> share[u].damage + d.own, hits |-> share[u].hits + 1,
                       claimed |-> share[u].claimed]
    <2>2. [[share[u] EXCEPT !.damage = @ + d.own] EXCEPT !.hits = @ + 1] = row
      <3>1. share[u] = [damage |-> share[u].damage, hits |-> share[u].hits,
                        claimed |-> share[u].claimed]
        BY <2>1
      <3>2. [share[u] EXCEPT !.damage = @ + d.own]
            = [damage |-> share[u].damage + d.own, hits |-> share[u].hits,
               claimed |-> share[u].claimed]
        BY <3>1
      <3>3. [[damage |-> share[u].damage + d.own, hits |-> share[u].hits,
              claimed |-> share[u].claimed] EXCEPT !.hits = @ + 1] = row
        OBVIOUS
      <3> HIDE DEF row
      <3> QED BY <3>2, <3>3
    <2>3. share' = [share EXCEPT ![u] = row]
      BY <1>2, <1>3, <2>1, <2>2
    <2> HIDE DEF row
    <2>4. /\ DOMAIN share' = Users /\ share'[u] = row
          /\ \A v \in Users : v # u => share'[v] = share[v]
          /\ share' = [v \in Users |-> share'[v]]
      BY <1>2, <2>1, <2>3
    <2> QED BY <2>4 DEF row
  <1>5. /\ \A v \in Users : fights[v] \in Nat /\ share[v].damage \in Nat /\ share[v].hits \in Nat
        /\ \A v \in Users : v # u => fights'[v] = fights[v]
        /\ fights'[u] = fights[u] + 1 /\ fights' \in [Users -> Nat]
        /\ allied \in Nat
    <2>1. fights \in [Users -> Nat] /\ allied \in 0..MaxHp
          /\ share \in [Users -> [damage : 0..MaxHp, hits : Nat, claimed : BOOLEAN]]
      BY DEF IInv, TypeOK
    <2>2. \A v \in Users : share[v].damage \in Nat /\ share[v].hits \in Nat
      BY <1>2, <2>1
    <2> QED BY <1>2, <1>3, <2>1, <2>2
  <1> HIDE DEF d, u
  <1>6. /\ boss'.hp \in Nat /\ boss'.hp + d.own + d.ally = boss.hp
        /\ boss'.hp = 0 <=> d.slain
        /\ boss'.defeated = d.slain
        /\ boss'.killer = IF d.slain THEN u ELSE NoUser
    BY <1>1, <1>2, <1>3 DEF IsSplit
  <1>7. /\ Damage \in [Users -> Nat] /\ Damage' \in [Users -> Nat]
        /\ IsFiniteSet(Users)
        /\ SumFunction(Damage') = SumFunction(Damage) + d.own
        /\ SumFunction(Damage) \in Nat /\ SumFunction(Damage') \in Nat
    <2>1. Damage \in [Users -> Nat] /\ IsFiniteSet(Users)
      BY DamageType DEF IInv
    <2>2. /\ Damage' \in [Users -> Nat]
          /\ Damage'[u] = Damage[u] + d.own
          /\ \A v \in Users : v # u => Damage'[v] = Damage[v]
      BY <1>2, <1>4, <1>5 DEF Damage
    <2>3. Damage \in [Users -> Int] /\ Damage' \in [Users -> Int]
      BY <2>1, <2>2
    <2>4. SumFunction(Damage') = SumFunction(Damage) + Damage'[u] - Damage[u]
      <3>1. \A v \in Users : v # u => Damage'[v] = Damage[v]
        BY <2>2
      <3> HIDE DEF Damage
      <3> QED BY ONLY <1>2, <2>1, <2>3, <3>1, SumChanges
    <2>5. SumFunction(Damage) \in Nat /\ SumFunction(Damage') \in Nat
      BY <2>1, <2>2, SumIsNat
    <2>6. Damage[u] \in Nat
      BY <1>2, <2>1
    <2> QED BY <1>2, <2>1, <2>2, <2>4, <2>5, <2>6
  <1>8. boss'.hp + allied' + SumFunction(Damage') = MaxHp
    <2>1. boss.hp + allied + SumFunction(Damage) = MaxHp
      BY DEF IInv, DamageAddsUp, Damage
    <2> QED BY <1>2, <1>3, <1>5, <1>6, <1>7, <2>1
  <1>9. DamageAddsUp'
    <2>1. (boss'.defeated <=> boss'.hp = 0) /\ (boss'.defeated <=> boss'.killer # NoUser)
      BY <1>2, <1>6, PlanType
    <2> QED BY <1>8, <2>1 DEF DamageAddsUp, Damage
  <1>10. HitsWithinLimit'
    BY <1>1, <1>2, <1>4, <1>5 DEF u, IInv, HitsWithinLimit
  <1>11. EarningsWithinCap' /\ earned' \in [Users -> Nat]
    <2>1. /\ earned \in [Users -> Nat] /\ RENTAL_OWNER_DAILY_CAP \in Nat
          /\ \A v \in Users : earned[v] <= RENTAL_OWNER_DAILY_CAP
      BY WorldBossAssumption DEF IInv, TypeOK, EarningsWithinCap
    <2>2. CASE ~HasAlly(r)
      <3>1. earned' = earned
        BY <1>3, <2>2
      <3> QED BY <2>1, <3>1 DEF EarningsWithinCap
    <2>3. CASE HasAlly(r)
      <3>1. Owner(r) \in Users
        BY <2>3, PlanType
      <3>2. /\ earned' = [earned EXCEPT ![Owner(r)] = @ + d.fee]
            /\ earned[Owner(r)] + d.fee <= RENTAL_OWNER_DAILY_CAP
        BY <1>1, <1>3, <2>3 DEF d
      <3>3. earned' \in [Users -> Nat]
        BY <1>2, <2>1, <3>1, <3>2
      <3>4. \A v \in Users : earned'[v] <= RENTAL_OWNER_DAILY_CAP
        BY <1>2, <2>1, <3>1, <3>2
      <3> QED BY <3>3, <3>4 DEF EarningsWithinCap
    <2> QED BY <2>2, <2>3
  <1>12. ClaimedOnce'
    <2>1. \A v \in Users : share'[v].claimed = share[v].claimed
      BY <1>4
    <2>2. over' = over
      BY CommitOthers
    <2> QED BY <1>1, <1>3, <2>1, <2>2 DEF IInv, ClaimedOnce
  <1>13. PaidIsFinal'
    BY <1>1, <1>3 DEF IInv, PaidIsFinal, IsFinal
  <1>14. RequestsOK'
    <2> SUFFICES ASSUME NEW s \in Requests PROVE RequestOK(s)'
      BY DEF RequestsOK
    <2>1. view' = view /\ late' = late /\ over' = over
      BY CommitOthers
    <2>2. ~view[s].defeated /\ (late[s] => over)
      BY <1>1 DEF IInv, RequestsOK, RequestOK
    <2>3. CASE s = r
      <3>1. pc'[s] = "committed"
        BY <2>3, CommitOthers
      <3> QED BY <2>1, <2>2, <3>1 DEF RequestOK
    <2>4. CASE s # r
      <3>1. /\ pc'[s] = pc[s] /\ draft'[s] = draft[s]
            /\ \A x \in Resources : holder[x] = s => holder'[x] = s
        BY <2>4, CommitOthers
      <3>2. RequestOK(s)
        BY DEF IInv, RequestsOK
      <3>3. pc[s] \notin {"facing", "fought"}
        BY <1>1, <2>4, <3>2 DEF RequestOK
      <3>4. pc[s] = "counted" => User(s) # u /\ User(s) \in Users
        BY <1>1, <2>4, <3>2, PlanType DEF RequestOK
      <3>5. pc[s] = "counted" => fights'[User(s)] < WORLD_BOSS_HITS
        BY <1>5, <3>2, <3>4 DEF RequestOK
      <3>6. pc[s] = "assessed" => ~draft[s].defeated
        BY <1>1, <3>2 DEF RequestOK, IsFinal
      <3> QED BY <2>1, <2>2, <3>1, <3>2, <3>3, <3>5, <3>6, ResourceNames, PlanType
           DEF RequestOK, IsFinal, IsEnded
    <2> QED BY <2>3, <2>4
  <1>15. TypeOK'
    <2>1. boss' \in Boss
      BY <1>2, <1>3, <1>6 DEF Boss
    <2>2. allied' \in 0..MaxHp
      BY <1>2, <1>3, <1>5, <1>6, <1>7, <1>8
    <2>3. \A v \in Users : share'[v].damage \in 0..MaxHp
      <3> SUFFICES ASSUME NEW v \in Users PROVE share'[v].damage \in 0..MaxHp
        OBVIOUS
      <3>1. Damage'[v] <= SumFunction(Damage')
        BY <1>7, SumExceedsNone
      <3>2. Damage'[v] = share'[v].damage /\ Damage'[v] \in Nat
        BY <1>7 DEF Damage
      <3>3. allied' \in Nat
        BY <1>2, <1>3, <1>5
      <3> QED BY <1>2, <1>6, <1>7, <1>8, <3>1, <3>2, <3>3
    <2>4. share' \in [Users -> [damage : 0..MaxHp, hits : Nat, claimed : BOOLEAN]]
      <3>1. \A v \in Users : share'[v] \in [damage : 0..MaxHp, hits : Nat, claimed : BOOLEAN]
        <4> SUFFICES ASSUME NEW v \in Users
                     PROVE  share'[v] \in [damage : 0..MaxHp, hits : Nat, claimed : BOOLEAN]
          OBVIOUS
        <4>1. share[u].claimed \in BOOLEAN /\ share[v] \in [damage : 0..MaxHp, hits : Nat, claimed : BOOLEAN]
          BY <1>2 DEF IInv, TypeOK
        <4>2. CASE v = u
          <5>1. share[u].damage + d.own \in 0..MaxHp
            BY <1>2, <1>4, <2>3
          <5>2. share[u].hits + 1 \in Nat
            BY <1>2, <1>5
          <5> QED BY <1>4, <4>1, <4>2, <5>1, <5>2
        <4>3. CASE v # u
          BY <1>4, <4>1, <4>3
        <4> QED BY <4>2, <4>3
      <3> QED BY <1>4, <3>1
    <2>5. paid' = paid
      BY <1>3
    <2> QED BY <1>5, <1>11, <2>1, <2>2, <2>4, <2>5, CommitOthers
         DEF IInv, TypeOK, Stages, DraftType
  <1> QED BY <1>9, <1>10, <1>11, <1>12, <1>13, <1>14, <1>15 DEF IInv

(* A claim marks the damage row it is paid for. *)
LEMMA CommitClaimInv ==
    ASSUME IInv, NEW r \in Requests, CommitClaim(r)
    PROVE  IInv'
  <1> DEFINE u == User(r)
  <1>1. /\ pc[r] = "assessed" /\ ~share[u].claimed /\ u \in Users
        /\ share' = [share EXCEPT ![u].claimed = TRUE]
        /\ paid' = [paid EXCEPT ![u] = Append(@, draft[r])]
        /\ boss' = boss /\ fights' = fights /\ allied' = allied /\ earned' = earned
        /\ over' = over
    BY PlanType DEF CommitClaim, CanClaim
  <1>2. /\ draft[r] \in Reward /\ IsFinal(u, draft[r]) /\ IsEnded(view[r], late[r])
        /\ view[r].defeated => view[r] = boss
        /\ late[r] => over
    BY <1>1 DEF IInv, TypeOK, RequestsOK, RequestOK
  <1> HIDE DEF u
  <1>3. /\ share' \in [Users -> [damage : 0..MaxHp, hits : Nat, claimed : BOOLEAN]]
        /\ \A v \in Users : /\ share'[v].damage = share[v].damage
                            /\ share'[v].hits = share[v].hits
                            /\ v # u => share'[v] = share[v]
        /\ share'[u].claimed
    BY <1>1 DEF IInv, TypeOK
  <1>4. /\ paid' \in [Users -> Seq(Reward)]
        /\ \A v \in Users : v # u => paid'[v] = paid[v]
        /\ paid'[u] = Append(paid[u], draft[r])
        /\ paid[u] \in Seq(Reward)
    BY <1>1, <1>2 DEF IInv, TypeOK
  <1>5. \A v \in Users : \A w : IsFinal(v, w)' <=> IsFinal(v, w)
    <2>1. \A v \in Users : RankOf(v)' = RankOf(v)
      BY <1>3 DEF RankOf
    <2> QED BY <1>1, <1>3, <2>1 DEF IsFinal
  <1>6. PaidIsFinal'
    <2> SUFFICES ASSUME NEW v \in Users, NEW i \in 1..Len(paid'[v])
                 PROVE  IsFinal(v, paid'[v][i])
      BY <1>5 DEF PaidIsFinal
    <2>1. CASE v # u
      BY <1>4, <2>1 DEF IInv, PaidIsFinal
    <2>2. CASE v = u
      <3>1. i \in 1..Len(paid[u]) \/ i = Len(paid[u]) + 1
        BY <1>4, <2>2
      <3>2. /\ i \in 1..Len(paid[u]) => paid'[v][i] = paid[u][i]
            /\ i = Len(paid[u]) + 1 => paid'[v][i] = draft[r]
        BY <1>4, <2>2
      <3> QED BY <1>2, <2>2, <3>1, <3>2 DEF IInv, PaidIsFinal
    <2> QED BY <2>1, <2>2
  <1>7. ClaimedOnce'
    <2> SUFFICES ASSUME NEW v \in Users
                 PROVE  /\ Len(paid'[v]) = IF share'[v].claimed THEN 1 ELSE 0
                        /\ share'[v].claimed => boss'.defeated \/ over'
      BY DEF ClaimedOnce
    <2>1. CASE v # u
      BY <1>1, <1>3, <1>4, <2>1 DEF IInv, ClaimedOnce
    <2>2. CASE v = u
      <3>1. Len(paid[u]) = 0
        BY <1>1 DEF u, IInv, ClaimedOnce
      <3>2. boss.defeated \/ over
        BY <1>2 DEF IsEnded
      <3>3. Len(paid'[u]) = 1
        BY <1>4, <3>1
      <3> QED BY <1>1, <1>3, <2>2, <3>2, <3>3
    <2> QED BY <2>1, <2>2
  <1>8. DamageAddsUp' /\ HitsWithinLimit' /\ EarningsWithinCap'
    <2>1. [v \in Users |-> share'[v].damage] = [v \in Users |-> share[v].damage]
      BY <1>3
    <2> QED BY <1>1, <1>3, <2>1 DEF IInv, DamageAddsUp, HitsWithinLimit, EarningsWithinCap
  <1>9. RequestsOK'
    <2> SUFFICES ASSUME NEW s \in Requests PROVE RequestOK(s)'
      BY DEF RequestsOK
    <2>1. view' = view /\ late' = late
      BY CommitOthers
    <2>2. RequestOK(s)
      BY DEF IInv, RequestsOK
    <2>3. CASE s = r
      <3>1. pc'[s] = "committed"
        BY <2>3, CommitOthers
      <3> QED BY <1>1, <2>1, <2>2, <3>1 DEF RequestOK
    <2>4. CASE s # r
      <3>1. /\ pc'[s] = pc[s] /\ draft'[s] = draft[s]
            /\ \A x \in Resources : holder[x] = s => holder'[x] = s
        BY <2>4, CommitOthers
      <3>2. IsFinal(User(s), draft[s])' <=> IsFinal(User(s), draft[s])
        <4>1. RankOf(User(s))' = RankOf(User(s)) /\ share'[User(s)].hits = share[User(s)].hits
          BY <1>3, PlanType DEF RankOf
        <4> QED BY <1>1, <3>1, <4>1 DEF IsFinal
      <3> QED BY <1>1, <2>1, <2>2, <3>1, <3>2, ResourceNames, PlanType DEF RequestOK
    <2> QED BY <2>3, <2>4
  <1>10. TypeOK'
    BY <1>1, <1>3, <1>4, CommitOthers DEF IInv, TypeOK, Stages, DraftType
  <1> QED BY <1>6, <1>7, <1>8, <1>9, <1>10 DEF IInv

LEMMA WeekEndsInv ==
    ASSUME IInv, WeekEnds
    PROVE  IInv'
  <1>1. over' = TRUE /\ UNCHANGED <<pc, late, view, todo, draft, holder, boss, share, fights,
                                    allied, earned, paid>>
    BY DEF WeekEnds, requestVars, tables
  <1>2. TypeOK' /\ DamageAddsUp' /\ HitsWithinLimit' /\ EarningsWithinCap' /\ ClaimedOnce'
    BY <1>1 DEF IInv, TypeOK, DamageAddsUp, HitsWithinLimit, EarningsWithinCap, ClaimedOnce
  <1>3. \A u, w : IsFinal(u, w)' <=> IsFinal(u, w)
    BY <1>1 DEF IsFinal, RankOf
  <1>4. PaidIsFinal'
    BY <1>1, <1>3 DEF IInv, PaidIsFinal
  <1>5. RequestsOK'
    <2> SUFFICES ASSUME NEW s \in Requests PROVE RequestOK(s)'
      BY DEF RequestsOK
    <2>1. RequestOK(s)
      BY DEF IInv, RequestsOK
    <2>2. IsFinal(User(s), draft[s])' <=> IsFinal(User(s), draft[s])
      BY <1>1 DEF IsFinal, RankOf
    <2> QED BY <1>1, <2>1, <2>2 DEF RequestOK
  <1> QED BY <1>2, <1>4, <1>5 DEF IInv

---------------------------------------------------------------------------

LEMMA InitInv == Init => IInv
  <1> SUFFICES ASSUME Init PROVE IInv
    OBVIOUS
  <1>1. TypeOK
    <2>1. NewBoss \in Boss
      BY WorldBossAssumption DEF NewBoss, Boss
    <2>2. /\ pc = [r \in Requests |-> "idle"] /\ draft = [r \in Requests |-> NoDraft]
          /\ DOMAIN draft = Requests
      BY DEF Init
    <2>3. \A r \in Requests : draft[r] \in DraftType(pc[r])
      BY <2>2 DEF DraftType
    <2>4. share \in [Users -> [damage : 0..MaxHp, hits : Nat, claimed : BOOLEAN]]
      BY WorldBossAssumption DEF Init
    <2>5. allied \in 0..MaxHp /\ fights \in [Users -> Nat] /\ earned \in [Users -> Nat]
      BY WorldBossAssumption DEF Init
    <2>6. paid \in [Users -> Seq(Reward)]
      BY DEF Init
    <2> QED BY <2>1, <2>2, <2>3, <2>4, <2>5, <2>6 DEF Init, TypeOK, DraftType, Ended
  <1>2. RequestsOK
    BY DEF Init, RequestsOK, RequestOK, NewBoss
  <1>3. DamageAddsUp
    <2>1. [u \in Users |-> share[u].damage] = [u \in Users |-> 0]
      BY DEF Init
    <2>2. SumFunction([u \in Users |-> share[u].damage]) = 0
      BY <2>1, SumOfZeros, WorldBossAssumption
    <2> QED BY <2>2, WorldBossAssumption DEF Init, NewBoss, DamageAddsUp
  <1>4. HitsWithinLimit /\ EarningsWithinCap /\ ClaimedOnce /\ PaidIsFinal
    BY WorldBossAssumption
       DEF Init, HitsWithinLimit, EarningsWithinCap, ClaimedOnce, PaidIsFinal
  <1> QED BY <1>1, <1>2, <1>3, <1>4 DEF IInv

LEMMA NextInv == IInv /\ [Next]_vars => IInv'
  <1> SUFFICES ASSUME IInv, [Next]_vars PROVE IInv'
    OBVIOUS
  <1>1. ASSUME NEW r \in Requests, Step(r) \/ Fail(r) PROVE IInv'
    <2>1. CASE Begin(r) BY <2>1, BeginInv
    <2>2. CASE LockMonster(r) BY <2>2, LockMonsterInv
    <2>3. CASE PayDiscovery(r) BY <2>3, PayDiscoveryInv
    <2>4. CASE CountHits(r) BY <2>4, CountHitsInv
    <2>5. CASE LockBoss(r) BY <2>5, LockBossInv
    <2>6. CASE \E u \in Users : LockWallet(r, u) BY <2>6, LockWalletInv
    <2>7. CASE Fight(r) BY <2>7, FightInv
    <2>8. CASE CommitAttack(r) BY <2>8, CommitAttackInv
    <2>9. CASE ReadBoss(r) BY <2>9, ReadBossInv
    <2>10. CASE LockShare(r) BY <2>10, LockShareInv
    <2>11. CASE Assess(r) BY <2>11, AssessInv
    <2>12. CASE CommitClaim(r) BY <2>12, CommitClaimInv
    <2>13. CASE Refuse(r) \/ DeadlockVictim(r) \/ Fail(r)
      BY <2>13, UndoInv DEF Refuse, DeadlockVictim, Fail
    <2> QED BY <1>1, <2>1, <2>2, <2>3, <2>4, <2>5, <2>6, <2>7, <2>8, <2>9, <2>10, <2>11,
               <2>12, <2>13 DEF Step
  <1>2. CASE WeekEnds
    BY <1>2, WeekEndsInv
  <1>3. CASE UNCHANGED vars
    <2>1. UNCHANGED <<pc, late, view, todo, draft, holder, boss, share, fights,
                      allied, earned, paid, over>>
      BY <1>3 DEF vars, requestVars, tables
    <2>2. TypeOK' /\ DamageAddsUp' /\ HitsWithinLimit' /\ EarningsWithinCap' /\ ClaimedOnce'
      BY <2>1 DEF IInv, TypeOK, DamageAddsUp, HitsWithinLimit, EarningsWithinCap, ClaimedOnce
    <2>3. \A u, w : IsFinal(u, w)' <=> IsFinal(u, w)
      BY <2>1 DEF IsFinal, RankOf
    <2>4. PaidIsFinal'
      BY <2>1, <2>3 DEF IInv, PaidIsFinal
    <2>5. RequestsOK'
      <3> SUFFICES ASSUME NEW s \in Requests PROVE RequestOK(s)'
        BY DEF RequestsOK
      <3>1. RequestOK(s)
        BY DEF IInv, RequestsOK
      <3>2. IsFinal(User(s), draft[s])' <=> IsFinal(User(s), draft[s])
        BY <2>1 DEF IsFinal, RankOf
      <3> QED BY <2>1, <3>1, <3>2 DEF RequestOK
    <2> QED BY <2>2, <2>4, <2>5 DEF IInv
  <1> QED BY <1>1, <1>2, <1>3 DEF Next

LEMMA SpecInv == Spec => []IInv
  BY InitInv, NextInv, PTL DEF Spec

---------------------------------------------------------------------------

(* Every variable of the week's boss keeps its type; in particular no      *)
(* player's damage, nor the allies', ever exceeds the HP of the boss.      *)
THEOREM WorldBossTypeOK == Spec => []TypeOK
  <1>1. IInv => TypeOK BY DEF IInv
  <1> QED BY <1>1, SpecInv, PTL

(* The damage recorded is exactly what the boss lost, however many attack  *)
(* at once, the boss has fallen just when nothing is left of it, and the   *)
(* hits of a window are not overspent (WorldBossService.attack).           *)
THEOREM WorldBossEveryHitCounts == Spec => []EveryHitCounts
  <1>1. IInv => EveryHitCounts BY DEF IInv, EveryHitCounts
  <1> QED BY <1>1, SpecInv, PTL

(* Attacks that rent one owner's unit at once never pay that owner more    *)
(* than a day's cap (rentAlly).                                            *)
THEOREM WorldBossEarningsWithinCap == Spec => []EarningsWithinCap
  <1>1. IInv => EarningsWithinCap BY DEF IInv
  <1> QED BY <1>1, SpecInv, PTL

(* A share of the boss is paid once, when it may be, and what was paid for *)
(* a fallen boss agrees with the damage rows for ever, although the claim  *)
(* read the boss before it had any lock (WorldBossService.claim).          *)
THEOREM WorldBossClaimsAreFinal == Spec => []ClaimsAreFinal
  <1>1. IInv => ClaimsAreFinal
    BY DEF IInv, ClaimsAreFinal, FallenClaimsAreFinal, PaidIsFinal, IsFinal
  <1> QED BY <1>1, SpecInv, PTL
=============================================================================
