----------------------------- MODULE WalletBook -----------------------------
(* The wallet implements the account book: what the book holds is read off *)
(* the paid orders and the purchases of memory and of the snapshot.        *)
EXTENDS Wallet

BookIn(m) ==
    [payments |-> {[order |-> o, user |-> m.orders[o].user, points |-> m.orders[o].points] :
                       o \in {x \in DOMAIN m.orders : m.orders[x].status = "paid"}},
     purchases |-> {[grant |-> g, user |-> m.grants[g].user, plan |-> m.grants[g].plan] :
                       g \in DOMAIN m.grants}]

Book == INSTANCE AccountBook WITH
            Points <- {n \in PointInputs : n > 0},
            book <- BookIn(Memory),
            stored <- BookIn(disk)

(* No user's purchases ever cost more points than his paid orders brought in, *)
(* in memory or as stored, unless what he paid overflows an int: the code     *)
(* checks each purchase against one running number, and this is what all of   *)
(* the checks together are for (Redeem, ConfirmTopup).                        *)
SpentWasPaid == Book!Covered(BookIn(Memory)) /\ Book!Covered(BookIn(disk))

(* Every behaviour of the wallet is one of the account book: the balance a    *)
(* purchase is checked against, which the code only ever reads off the last   *)
(* ledger entry, is always the sum of all paid orders less all purchases, no  *)
(* report of a payment counts twice, and a crash only takes back what no save *)
(* had stored (ConfirmTopup, Redeem, currentBalanceLocked, applySnapshot).    *)
ImplementsAccountBook == Book!Spec
=============================================================================
