------------------------------ MODULE MCTopup -------------------------------
(* A small instance of Topup: one buyer with one order, the number of its trade *)
(* (t1), and one that is another's (t2).                                        *)
EXTENDS Topup

CONSTANTS u1, o1, c1, c2, t1, t2, g1, basic

MCPrice == [p \in Plans |-> 1]
MCPointInputs == {2}
MCGatewayNo == [o \in OrderIds |-> t1]
=============================================================================
