----------------------------- MODULE MCBuyerApp -----------------------------
(* A small instance of BuyerApp: one buyer, one order, polled twice, beside *)
(* an administrator's own query of it.                                      *)
EXTENDS BuyerApp

CONSTANTS u1, o1, c1, c2, t1, t2

MCPrice == [p \in Plans |-> 1]
MCPointInputs == {2}
MCGatewayNo == [o \in OrderIds |-> t1]
=============================================================================
