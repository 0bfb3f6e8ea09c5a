------------------------------ MODULE MCWallet ------------------------------
(***************************************************************************)
(* A small instance of Wallet: 3-bit points, so that a balance can wrap    *)
(* around within a few top-ups, and request inputs of either sign.         *)
(***************************************************************************)
EXTENDS WalletBook, TLC

CONSTANTS u1, u2, o1, o2, o3, g1, g2, basic, t1

MCPrice == [p \in Plans |-> 2]

MCPointInputs == {0, 3}

Ids == Permutations({u1, u2}) \cup Permutations({o1, o2, o3})
         \cup Permutations({g1, g2})
=============================================================================
