----------------------------- MODULE MapsProofs -----------------------------
(* What the operations on maps keep. *)
EXTENDS Maps, TLAPS

(* Putting a well-typed value under a key of K leaves a map with keys in K. *)
LEMMA PutIsMap ==
    ASSUME NEW K, NEW V, NEW m, IsMap(m, K, V), NEW k \in K, NEW v \in V
    PROVE  /\ IsMap(Put(m, k, v), K, V)
           /\ DOMAIN Put(m, k, v) = DOMAIN m \cup {k}
           /\ Put(m, k, v)[k] = v
           /\ \A x \in DOMAIN m : x # k => Put(m, k, v)[x] = m[x]
BY DEF IsMap, Put

(* Taking a key away leaves the others as they were. *)
LEMMA Removed ==
    ASSUME NEW m, NEW k
    PROVE  /\ DOMAIN Remove(m, k) = DOMAIN m \ {k}
           /\ \A x \in DOMAIN m \ {k} : Remove(m, k)[x] = m[x]
BY DEF Remove

LEMMA RemoveIsMap ==
    ASSUME NEW K, NEW V, NEW m, IsMap(m, K, V), NEW k
    PROVE  IsMap(Remove(m, k), K, V)
BY DEF IsMap, Remove
=============================================================================
