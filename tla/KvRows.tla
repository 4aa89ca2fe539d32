------------------------------- MODULE KvRows -------------------------------
(* The rows of the key-value store (src/src/modules/kv-store): a function   *)
(* from the keys that are stored, live or expired, to [value, expires].     *)
EXTENDS Integers

IsLive(store, k, now) == k \in DOMAIN store /\ store[k].expires > now

LiveKeys(store, now) == {k \in DOMAIN store : store[k].expires > now}

With(store, k, v, expires) ==
    [x \in DOMAIN store \cup {k} |-> IF x = k THEN [value |-> v, expires |-> expires] ELSE store[x]]

Without(store, S) == [x \in DOMAIN store \ S |-> store[x]]

(* INSERT ... ON CONFLICT DO UPDATE ... WHERE expires_at <= now() *)
WithIfAbsent(store, k, v, ttl, now) ==
    IF IsLive(store, k, now) THEN store ELSE With(store, k, v, now + ttl)

(* The count and the row after one more: a live counter keeps its expiry. *)
CountAfter(store, k, now) == IF IsLive(store, k, now) THEN store[k].value + 1 ELSE 1

(* A bug: every increment starts the lifetime anew. *)
WithOneMoreRenewed(store, k, ttl, now) == With(store, k, CountAfter(store, k, now), now + ttl)

WithOneMore(store, k, ttl, now) ==
    With(store, k, CountAfter(store, k, now),
         IF IsLive(store, k, now) THEN store[k].expires ELSE now + ttl)
=============================================================================
