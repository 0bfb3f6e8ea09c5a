---------------------------- MODULE MCWalletView ----------------------------
(* A small instance of WalletView: two buyers, two payments, one purchase, *)
(* and one request at a time that reads.                                   *)
EXTENDS WalletView, TLC

CONSTANTS u1, u2, o1, o2, g1, r1, basic, t1

MCPrice == [p \in Plans |-> 2]
MCPointInputs == {3}

Ids == Permutations({u1, u2}) \cup Permutations({o1, o2})
=============================================================================
