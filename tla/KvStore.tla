------------------------------ MODULE KvStore ------------------------------
(* The key-value store of logins (src/src/modules/kv-store): the table that *)
(* production uses, where each operation is one SQL statement, and beside   *)
(* it the map that stands for it in the tests, which drops expired entries  *)
(* when it meets them.  Both get the same calls; `answer` is what each      *)
(* returned last.                                                           *)
EXTENDS KvRows

CONSTANTS Keys, Values, Lifetimes,
          Prefixes,               \* sets of keys that share a prefix
          NoValue,
          MAX_CLOCK, MAX_VALUE    \* bounds on the clock and the counters

(* A lifetime is never over at once: every caller passes a positive one.    *)
Parameters ==
    /\ Lifetimes \subseteq Nat \ {0}
    /\ MAX_CLOCK \in Nat /\ MAX_VALUE \in Nat /\ Values \subseteq 0..MAX_VALUE
    /\ \A S \in Prefixes : S \subseteq Keys

VARIABLES rows,      \* the table kv_store
          entries,   \* the map of the test fake
          clock, answer

vars == <<rows, entries, clock, answer>>

Empty == [k \in {} |-> NoValue]
Stored(store) == /\ DOMAIN store \subseteq Keys
                 /\ \A k \in DOMAIN store : store[k] \in [value : 0..MAX_VALUE, expires : Nat]

TypeOK ==
    /\ Stored(rows) /\ Stored(entries)
    /\ clock \in 0..MAX_CLOCK
    /\ DOMAIN answer = {"sql", "fake"}

Init ==
    /\ rows = Empty /\ entries = Empty
    /\ clock = 0
    /\ answer = [sql |-> NoValue, fake |-> NoValue]

Answer(sql, fake) == answer' = [sql |-> sql, fake |-> fake]

Claimed == 1
Taken == 0

(* live(): an expired entry is deleted when it is looked at. *)
Looked(k) == IF IsLive(entries, k, clock) THEN entries ELSE Without(entries, {k})

Get(k) ==
    /\ Answer(IF IsLive(rows, k, clock) THEN rows[k].value ELSE NoValue,
              IF k \in DOMAIN Looked(k) THEN entries[k].value ELSE NoValue)
    /\ entries' = Looked(k)
    /\ UNCHANGED <<rows, clock>>

Set(k, v, ttl) ==
    /\ rows' = With(rows, k, v, clock + ttl)
    /\ entries' = With(entries, k, v, clock + ttl)
    /\ Answer(NoValue, NoValue)
    /\ UNCHANGED clock

SetIfAbsent(k, v, ttl) ==
    /\ rows' = WithIfAbsent(rows, k, v, ttl, clock)
    /\ entries' = IF k \in DOMAIN Looked(k) THEN Looked(k)
                  ELSE With(Looked(k), k, v, clock + ttl)
    /\ Answer(IF IsLive(rows, k, clock) THEN Taken ELSE Claimed,
              IF k \in DOMAIN Looked(k) THEN Taken ELSE Claimed)
    /\ UNCHANGED clock

Del(S) ==
    /\ rows' = Without(rows, S) /\ entries' = Without(entries, S)
    /\ Answer(NoValue, NoValue)
    /\ UNCHANGED clock

IncrementWithTtl(k, ttl) ==
    LET known == k \in DOMAIN Looked(k)
        count == IF known THEN entries[k].value + 1 ELSE 1
    IN  /\ CountAfter(rows, k, clock) <= MAX_VALUE
        /\ rows' = WithOneMore(rows, k, ttl, clock)
        /\ entries' = With(Looked(k), k, count, IF known THEN entries[k].expires ELSE clock + ttl)
        /\ Answer(CountAfter(rows, k, clock), count)
        /\ UNCHANGED clock

DeleteByPrefix(S) == Del(S)

DeleteExpired ==
    /\ rows' = Without(rows, {k \in DOMAIN rows : rows[k].expires <= clock})
    /\ entries' = Without(entries, {k \in DOMAIN entries : ~IsLive(entries, k, clock)})
    /\ Answer(NoValue, NoValue)
    /\ UNCHANGED clock

Elapse ==
    /\ clock < MAX_CLOCK
    /\ clock' = clock + 1
    /\ UNCHANGED <<rows, entries, answer>>

Next ==
    \/ Elapse \/ DeleteExpired
    \/ \E k \in Keys :
        \/ Get(k) \/ Del({k})
        \/ \E ttl \in Lifetimes :
            \/ IncrementWithTtl(k, ttl)
            \/ \E v \in Values : Set(k, v, ttl) \/ SetIfAbsent(k, v, ttl)
    \/ \E S \in Prefixes : DeleteByPrefix(S)

Spec == Init /\ [][Next]_vars

---------------------------------------------------------------------------

(* The fake answers every call as the table does, in any sequence of calls *)
(* and at any instant, so that what is tested with the one (auth.service.  *)
(* spec.ts, authentication.service.spec.ts) holds of the other.            *)
FakeAnswersAlike == answer.sql = answer.fake

(* What the answers rest on: the same keys are live, with the same rows.   *)
SameWhileLive ==
    \A k \in Keys : /\ IsLive(rows, k, clock) <=> IsLive(entries, k, clock)
                    /\ IsLive(rows, k, clock) => rows[k] = entries[k]

---------------------------------------------------------------------------
(* Nobody sees the rows that have expired.                                 *)

Live == INSTANCE LiveStore WITH
            live <- [k \in LiveKeys(rows, clock) |-> rows[k]], said <- answer.sql

(* Expired rows are never seen: whether deleteExpired runs, and when, makes *)
(* no difference ("Reads already ignore them; this only reclaims space",   *)
(* kv-store.ts:14).  The table is a store whose entries end on time.       *)
ImplementsLiveStore == Live!Spec
=============================================================================
