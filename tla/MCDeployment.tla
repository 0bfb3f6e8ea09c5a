---------------------------- MODULE MCDeployment ----------------------------
(* A small instance of Deployment: two nodes, one of them with a wrong token, *)
(* and two people who register.                                               *)
EXTENDS Deployment

CONSTANTS n1, n2, p1, p2
=============================================================================
