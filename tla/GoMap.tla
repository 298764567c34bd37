------------------------------- MODULE GoMap -------------------------------
(***************************************************************************)
(* Go maps as the repositories of copilot use them.  A map is a function   *)
(* whose DOMAIN is the set of keys it holds, so that "the key is absent"   *)
(* and "the key holds a value" stay apart, as in `v, ok := m[k]`.          *)
(***************************************************************************)
EXTENDS Naturals, Sequences

\* make(map[K]V)
EmptyMap == [k \in {} |-> k]

\* m[k] = v
Put(m, k, v) == [x \in DOMAIN m \cup {k} |-> IF x = k THEN v ELSE m[x]]

\* delete(m, k): no effect when k is absent
Drop(m, k) == [x \in DOMAIN m \ {k} |-> m[x]]

\* v, ok := m[k]: what a read of a key that may be absent yields
Lookup(m, k, zero) == IF k \in DOMAIN m THEN m[k] ELSE zero

\* The position whose write survives when a list is poured into a fresh map:
\* the last one that carries the key.
LastWith(list, key(_), k) ==
    CHOOSE i \in DOMAIN list :
        /\ key(list[i]) = k
        /\ \A j \in DOMAIN list : key(list[j]) = k => j <= i

\* for _, e := range list { m[key(e)] = val(e) } into a fresh map
Poured(list, key(_), val(_)) ==
    [k \in {key(list[i]) : i \in DOMAIN list} |-> val(list[LastWith(list, key, k)])]

\* map[K]V
IsMap(m, K, V) == DOMAIN m \subseteq K /\ m \in [DOMAIN m -> V]
=============================================================================
