----------------------------- MODULE LiveStore -----------------------------
(* What a store with lifetimes promises: an entry is there until its time   *)
(* is over or it is deleted, and not a moment longer.                       *)
EXTENDS KvRows

CONSTANTS Keys, Values, Lifetimes, Prefixes, NoValue, MAX_CLOCK, MAX_VALUE

VARIABLES live, clock, said

vars == <<live, clock, said>>

Init == live = [k \in {} |-> NoValue] /\ clock = 0 /\ said = NoValue

Has(k) == k \in DOMAIN live

Answers(value) == said' = value /\ UNCHANGED clock

Get(k) ==
    /\ Answers(IF Has(k) THEN live[k].value ELSE NoValue)
    /\ UNCHANGED live

Set(k, v, ttl) == live' = With(live, k, v, clock + ttl) /\ Answers(NoValue)

(* Of all who claim a key, only the first has it until it ends. *)
Claim(k, v, ttl) ==
    \/ Has(k) /\ Answers(0) /\ UNCHANGED live
    \/ ~Has(k) /\ Answers(1) /\ live' = With(live, k, v, clock + ttl)

(* The lifetime of a counter begins with its first increment. *)
Count(k, ttl) ==
    \/ /\ ~Has(k) /\ Answers(1) /\ live' = With(live, k, 1, clock + ttl)
    \/ /\ Has(k) /\ live[k].value < MAX_VALUE
       /\ Answers(live[k].value + 1)
       /\ live' = With(live, k, live[k].value + 1, live[k].expires)

Remove(S) == live' = Without(live, S) /\ Answers(NoValue)

Tidy == Answers(NoValue) /\ UNCHANGED live

Elapse ==
    /\ clock < MAX_CLOCK
    /\ clock' = clock + 1
    /\ live' = [k \in LiveKeys(live, clock + 1) |-> live[k]]
    /\ UNCHANGED said

Next ==
    \/ Elapse \/ Tidy
    \/ \E k \in Keys :
        \/ Get(k) \/ Remove({k})
        \/ \E ttl \in Lifetimes :
            \/ Count(k, ttl)
            \/ \E v \in Values : Set(k, v, ttl) \/ Claim(k, v, ttl)
    \/ \E S \in Prefixes : Remove(S)

Spec == Init /\ [][Next]_vars
=============================================================================
