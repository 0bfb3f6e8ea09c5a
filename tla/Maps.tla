-------------------------------- MODULE Maps --------------------------------
(***************************************************************************)
(* Go maps as the control plane uses them: a partial function from ids to  *)
(* records, which grows by one key per new record and may lose a key.      *)
(***************************************************************************)
(* m has keys in K and values in V. *)
IsMap(m, K, V) == DOMAIN m \subseteq K /\ m \in [DOMAIN m -> V]

EmptyMap == [k \in {} |-> {}]

(* m[k] = v, for a key that is already there or a new one. *)
Put(m, k, v) == [x \in DOMAIN m \cup {k} |-> IF x = k THEN v ELSE m[x]]

(* delete(m, k) *)
Remove(m, k) == [x \in DOMAIN m \ {k} |-> m[x]]
=============================================================================
