----------------------------- MODULE MCAccounts -----------------------------
(***************************************************************************)
(* Small instances of Accounts: two people on two emails with saves that   *)
(* fail, or one user with tokens enough for a login and two refreshes by   *)
(* two requests at once.                                                   *)
(***************************************************************************)
EXTENDS TokenClients, TLC

CONSTANTS u1, u2, a1, a2, t1, t2, t3, t4, t5, t6, c1, c2, pw1, pw2

Ids == Permutations(UserIds) \cup Permutations(Emails) \cup Permutations(Callers)
         \cup Permutations(Tokens)
=============================================================================
