------------------------------ MODULE HashMap ------------------------------
(***************************************************************************)
(* The operations of std::collections::HashMap that the registries use, on *)
(* partial functions: a map is a function whose domain is the set of keys  *)
(* that are present.                                                       *)
(***************************************************************************)

\* HashMap::new
EmptyMap == [k \in {} |-> k]

\* HashMap::insert: adds the key, or replaces the value it had.
Insert(m, k, v) == [x \in DOMAIN m \cup {k} |-> IF x = k THEN v ELSE m[x]]

\* HashMap::remove for every key of K; a key that is absent is ignored.
RemoveAll(m, K) == [x \in DOMAIN m \ K |-> m[x]]

\* HashMap::remove
Remove(m, k) == RemoveAll(m, {k})

\* The maps with keys in K and values in V.
IsMap(m, K, V) == /\ DOMAIN m \subseteq K
                  /\ m \in [DOMAIN m -> V]

=============================================================================
