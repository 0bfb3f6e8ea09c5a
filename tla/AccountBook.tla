---------------------------- MODULE AccountBook -----------------------------
(***************************************************************************)
(* What the wallet promises, without orders in progress, ledgers or        *)
(* running balances: a book of payments received and plans bought.  The    *)
(* balance is whatever the book says was paid less what was spent, a plan  *)
(* is bought only within it, and a crash may only put the book back to the *)
(* way it was last stored.                                                 *)
(***************************************************************************)
EXTENDS Integers, FiniteSets

CONSTANTS Users, OrderIds, GrantIds, Plans, Price, Points, HalfRange

VARIABLES book, stored

bookVars == <<book, stored>>

Payment == [order : OrderIds, user : Users, points : Points]
Purchase == [grant : GrantIds, user : Users, plan : Plans]

(* Points are counted one by one: each that a payment of u brought into the *)
(* book b, and each that a purchase of u took.                              *)
PointsPaid(b, u) ==
    UNION {{p} \X (1..p.points) : p \in {q \in b.payments : q.user = u}}
PointsSpent(b, u) ==
    UNION {{p} \X (1..Price[p.plan]) : p \in {q \in b.purchases : q.user = u}}

Paid(b, u) == Cardinality(PointsPaid(b, u))
Spent(b, u) == Cardinality(PointsSpent(b, u))

(* A number of points, in the machine's integers. *)
InRange(n) == ((n + HalfRange) % (2 * HalfRange)) - HalfRange

Balance(b, u) == InRange(Paid(b, u) - Spent(b, u))

Init ==
    /\ book = [payments |-> {}, purchases |-> {}]
    /\ stored = book

Pay(p) ==
    /\ \A q \in book.payments : q.order # p.order
    /\ book' = [book EXCEPT !.payments = @ \cup {p}]

Buy(p) ==
    /\ \A q \in book.purchases : q.grant # p.grant
    /\ Balance(book, p.user) >= Price[p.plan]
    /\ book' = [book EXCEPT !.purchases = @ \cup {p}]

(* The book may be stored with a change of it, later or not at all. *)
Next ==
    \/ /\ \/ \E p \in Payment : Pay(p)
          \/ \E p \in Purchase : Buy(p)
          \/ UNCHANGED book
       /\ stored' \in {stored, book'}
    \/ book' = stored /\ UNCHANGED stored

Spec == Init /\ [][Next]_bookVars

-----------------------------------------------------------------------------
(* Nobody's purchases in b took more points than his payments brought in, as  *)
(* long as these fit the machine's integers.                                  *)
Covered(b) == \A u \in Users : Paid(b, u) < HalfRange => Spent(b, u) <= Paid(b, u)
=============================================================================
