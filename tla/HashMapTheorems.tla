-------------------------- MODULE HashMapTheorems --------------------------
(***************************************************************************)
(* What the map operations return and preserve, for every key and value    *)
(* set.                                                                    *)
(***************************************************************************)
EXTENDS HashMap, TLAPS

\* The empty map is a map of any type (HashMap::new).
LEMMA EmptyMapType ==
    ASSUME NEW K, NEW V
    PROVE  IsMap(EmptyMap, K, V)
BY DEF IsMap, EmptyMap

\* Inserting a typed entry keeps the type of the map (HashMap::insert).
LEMMA InsertType ==
    ASSUME NEW K, NEW V, NEW m, IsMap(m, K, V), NEW k \in K, NEW v \in V
    PROVE  IsMap(Insert(m, k, v), K, V)
BY DEF IsMap, Insert

\* Removing keys keeps the type of the map (HashMap::remove).
LEMMA RemoveAllType ==
    ASSUME NEW K, NEW V, NEW m, IsMap(m, K, V), NEW S
    PROVE  IsMap(RemoveAll(m, S), K, V)
BY DEF IsMap, RemoveAll

\* Replacing the value of a key that is present keeps the type of the map
\* (HashMap::get_mut).
LEMMA UpdateType ==
    ASSUME NEW K, NEW V, NEW m, IsMap(m, K, V), NEW k \in DOMAIN m, NEW v \in V
    PROVE  IsMap([m EXCEPT ![k] = v], K, V)
BY DEF IsMap

\* A value of a typed map has the value type.
LEMMA ValueType ==
    ASSUME NEW K, NEW V, NEW m, IsMap(m, K, V), NEW k \in DOMAIN m
    PROVE  k \in K /\ m[k] \in V
BY DEF IsMap

\* What insert changes: the key is present with the new value, every other
\* key is as it was.
LEMMA InsertValue ==
    ASSUME NEW m, NEW k, NEW v
    PROVE  /\ DOMAIN Insert(m, k, v) = DOMAIN m \cup {k}
           /\ Insert(m, k, v)[k] = v
           /\ \A x \in DOMAIN m \ {k} : Insert(m, k, v)[x] = m[x]
BY DEF Insert

\* What remove changes: the keys are gone, every other key is as it was.
LEMMA RemoveAllValue ==
    ASSUME NEW m, NEW S
    PROVE  /\ DOMAIN RemoveAll(m, S) = DOMAIN m \ S
           /\ \A x \in DOMAIN m \ S : RemoveAll(m, S)[x] = m[x]
BY DEF RemoveAll

=============================================================================
