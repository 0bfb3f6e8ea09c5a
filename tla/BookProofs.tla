----------------------------- MODULE BookProofs -----------------------------
(***************************************************************************)
(* The wallet implements the account book, for any users, ids, plans,      *)
(* prices, integer width and outcome of saving: wherever the code reads    *)
(* the last balance of a ledger, it reads the sum of all payments less all *)
(* purchases.  The sums are cardinalities, so one more payment or purchase *)
(* is a disjoint set of points more (PaidAdds, SpentAdds), and machine     *)
(* arithmetic may be left to the end (WrapAdds).                           *)
(***************************************************************************)
EXTENDS WalletBook, WalletProofs, FiniteSetTheorems, FunctionTheorems

USE WalletConstants

-----------------------------------------------------------------------------
(* Two remainders of the same number are the same. *)
LEMMA RemainderUnique ==
    ASSUME NEW m \in Nat \ {0}, NEW q \in Int, NEW k \in Int,
           NEW r \in 0..(m - 1), NEW s \in 0..(m - 1), m * q + r = m * k + s
    PROVE  r = s
<1>1. CASE q = k  BY <1>1
<1>2. CASE q > k
  <2>1. m * (q - k) >= m  BY <1>2
  <2>2. m * (q - k) = m * q - m * k  OBVIOUS
  <2> QED BY <2>1, <2>2
<1>3. CASE q < k
  <2>1. m * (k - q) >= m  BY <1>3
  <2>2. m * (k - q) = m * k - m * q  OBVIOUS
  <2> QED BY <2>1, <2>2
<1> QED BY <1>1, <1>2, <1>3

(* Reducing before an addition changes nothing of what is left after it. *)
LEMMA ReducedBefore ==
    ASSUME NEW m \in Nat \ {0}, NEW a \in Int, NEW d \in Int
    PROVE  ((a % m) + d) % m = (a + d) % m
<1> DEFINE r == a % m
           s == (r + d) % m
           t == (a + d) % m
           q == a \div m
           k == (r + d) \div m
           l == (a + d) \div m
<1>1. q \in Int /\ r \in 0..(m - 1) /\ a = m * q + r  OBVIOUS
<1>2. k \in Int /\ s \in 0..(m - 1) /\ r + d = m * k + s  BY <1>1
<1>3. l \in Int /\ t \in 0..(m - 1) /\ a + d = m * l + t  OBVIOUS
<1> HIDE DEF q, r, s, t, k, l
<1>4. m * (q + k) = m * q + m * k  BY <1>1, <1>2
<1>5. m * (q + k) + s = m * l + t  BY <1>1, <1>2, <1>3, <1>4
<1>6. q + k \in Int  BY <1>1, <1>2
<1>7. s = t  BY <1>2, <1>3, <1>5, <1>6, RemainderUnique
<1> QED BY <1>7 DEF r, s, t

(* The wallet's machine arithmetic is the account book's, *)
LEMMA WrapIsInRange == ASSUME NEW n \in Int PROVE Wrap(n) = Book!InRange(n)
<1>1. CASE n \in Ints
  <2>1. n + HalfRange \in 0..(2 * HalfRange - 1)  BY <1>1 DEF Ints
  <2>2. \A m \in Nat \ {0} : \A a \in 0..(m - 1) : a % m = a  OBVIOUS
  <2>3. (n + HalfRange) % (2 * HalfRange) = n + HalfRange  BY <2>1, <2>2
  <2> QED BY <1>1, <2>3 DEF Wrap, Book!InRange
<1>2. CASE n \notin Ints  BY <1>2 DEF Wrap, Book!InRange
<1> QED BY <1>1, <1>2

(* and adding entry by entry, reduced each time, is reducing the sum. *)
LEMMA WrapAdds ==
    ASSUME NEW n \in Int, NEW d \in Int
    PROVE  Wrap(Book!InRange(n) + d) = Book!InRange(n + d)
<1> DEFINE m == 2 * HalfRange
           r == (n + HalfRange) % m
<1>1. m \in Nat \ {0}  OBVIOUS
<1>2. n + HalfRange \in Int  OBVIOUS
<1>3. r \in 0..(m - 1)  BY <1>1, <1>2
<1>4. (r + d) % m = (n + HalfRange + d) % m
  <2> HIDE DEF m
  <2> QED BY <1>1, <1>2, ReducedBefore
<1>5. Book!InRange(n) = r - HalfRange  BY DEF Book!InRange
<1>6. Book!InRange(n) + d \in Int  BY <1>3, <1>5
<1>7. Wrap(Book!InRange(n) + d) = Book!InRange(r - HalfRange + d)
  BY <1>5, <1>6, WrapIsInRange
<1>8. r - HalfRange + d + HalfRange = r + d  BY <1>3
<1>9. n + d + HalfRange = n + HalfRange + d  OBVIOUS
<1> HIDE DEF r
<1> QED BY <1>4, <1>7, <1>8, <1>9 DEF Book!InRange

-----------------------------------------------------------------------------
(* The account book counts as everyone does. *)
LEMMA CardinalitySame == \A S : Book!Cardinality(S) = Cardinality(S)
  BY DEF Book!Cardinality, Cardinality, Book!IsFiniteSet, IsFiniteSet

(* One more item of n points adds n points. *)
LEMMA PointsAdd ==
    ASSUME NEW S, IsFiniteSet(S), NEW p, NEW n \in Nat,
           \A x \in S : x \notin {p} \X (1..n)
    PROVE  /\ IsFiniteSet(S \cup ({p} \X (1..n)))
           /\ Cardinality(S \cup ({p} \X (1..n))) = Cardinality(S) + n
<1> DEFINE T == {p} \X (1..n)
<1>1. IsFiniteSet({p}) /\ Cardinality({p}) = 1  BY FS_Singleton
<1>2. IsFiniteSet(1..n) /\ Cardinality(1..n) = n  BY FS_Interval
<1>3. IsFiniteSet(T) /\ Cardinality(T) = n
  <2>1. /\ IsFiniteSet({p} \X (1..n))
        /\ Cardinality({p} \X (1..n)) = Cardinality({p}) * Cardinality(1..n)
    BY <1>1, <1>2, FS_Product, Zenon
  <2>2. 1 * n = n  OBVIOUS
  <2> QED BY <1>1, <1>2, <2>1, <2>2, Zenon
<1>4. S \cap T = {}  OBVIOUS
<1>5. Cardinality(S) \in Nat  BY FS_CardinalityType
<1> HIDE DEF T
<1>6. Cardinality(S \cap T) = 0  BY <1>4, FS_EmptySet, Zenon
<1>7. /\ IsFiniteSet(S \cup T)
      /\ Cardinality(S \cup T) = Cardinality(S) + Cardinality(T) - Cardinality(S \cap T)
  BY <1>3, FS_Union
<1>8. Cardinality(S \cup T) = Cardinality(S) + n - 0
  BY <1>3, <1>6, <1>7, Zenon
<1>9. Cardinality(S) + n - 0 = Cardinality(S) + n  BY <1>5
<1> QED BY <1>7, <1>8, <1>9, Zenon DEF T

(* A payment of p.points points is all that a new payment adds to what its *)
(* user paid, and it adds nothing for the others.                          *)
LEMMA PaidAdds ==
    ASSUME NEW b, NEW c, NEW p, NEW u, c.payments = b.payments \cup {p},
           p \notin b.payments, p.points \in Nat, IsFiniteSet(Book!PointsPaid(b, u))
    PROVE  /\ IsFiniteSet(Book!PointsPaid(c, u))
           /\ Book!Paid(c, u) = Book!Paid(b, u) + (IF p.user = u THEN p.points ELSE 0)
           /\ Book!Paid(b, u) \in Nat
<1>1. Book!Paid(b, u) = Cardinality(Book!PointsPaid(b, u))
         /\ Book!Paid(c, u) = Cardinality(Book!PointsPaid(c, u))
  BY CardinalitySame DEF Book!Paid
<1>2. Cardinality(Book!PointsPaid(b, u)) \in Nat  BY FS_CardinalityType
<1>3. CASE p.user = u
  <2>1. Book!PointsPaid(c, u) = Book!PointsPaid(b, u) \cup ({p} \X (1..p.points))
    BY <1>3 DEF Book!PointsPaid
  <2>2. \A x \in Book!PointsPaid(b, u) : x \notin {p} \X (1..p.points)
    BY DEF Book!PointsPaid
  <2>3. /\ IsFiniteSet(Book!PointsPaid(c, u))
        /\ Cardinality(Book!PointsPaid(c, u)) = Cardinality(Book!PointsPaid(b, u)) + p.points
    <3> DEFINE S == Book!PointsPaid(b, u)
               n == p.points
    <3>1. n \in Nat /\ IsFiniteSet(S) /\ \A x \in S : x \notin {p} \X (1..n)  BY <2>2
    <3> HIDE DEF S, n
    <3>2. /\ IsFiniteSet(S \cup ({p} \X (1..n)))
          /\ Cardinality(S \cup ({p} \X (1..n))) = Cardinality(S) + n
      BY <3>1, PointsAdd
    <3> QED BY <2>1, <3>2 DEF S, n
  <2> QED BY <1>1, <1>2, <1>3, <2>3
<1>4. CASE p.user # u
  <2>1. Book!PointsPaid(c, u) = Book!PointsPaid(b, u)
    BY <1>4 DEF Book!PointsPaid
  <2> QED BY <1>1, <1>2, <1>4, <2>1
<1> QED BY <1>3, <1>4

(* Likewise a purchase and what its plan costs. *)
LEMMA SpentAdds ==
    ASSUME NEW b, NEW c, NEW p, NEW u, c.purchases = b.purchases \cup {p},
           p \notin b.purchases, Price[p.plan] \in Nat,
           IsFiniteSet(Book!PointsSpent(b, u))
    PROVE  /\ IsFiniteSet(Book!PointsSpent(c, u))
           /\ Book!Spent(c, u) = Book!Spent(b, u) + (IF p.user = u THEN Price[p.plan] ELSE 0)
           /\ Book!Spent(b, u) \in Nat
<1>1. Book!Spent(b, u) = Cardinality(Book!PointsSpent(b, u))
         /\ Book!Spent(c, u) = Cardinality(Book!PointsSpent(c, u))
  BY CardinalitySame DEF Book!Spent
<1>2. Cardinality(Book!PointsSpent(b, u)) \in Nat  BY FS_CardinalityType
<1>3. CASE p.user = u
  <2>1. Book!PointsSpent(c, u) = Book!PointsSpent(b, u) \cup ({p} \X (1..Price[p.plan]))
    BY <1>3 DEF Book!PointsSpent
  <2>2. \A x \in Book!PointsSpent(b, u) : x \notin {p} \X (1..Price[p.plan])
    BY DEF Book!PointsSpent
  <2>3. /\ IsFiniteSet(Book!PointsSpent(c, u))
        /\ Cardinality(Book!PointsSpent(c, u))
             = Cardinality(Book!PointsSpent(b, u)) + Price[p.plan]
    <3> DEFINE S == Book!PointsSpent(b, u)
               n == Price[p.plan]
    <3>1. n \in Nat /\ IsFiniteSet(S) /\ \A x \in S : x \notin {p} \X (1..n)  BY <2>2
    <3> HIDE DEF S, n
    <3>2. /\ IsFiniteSet(S \cup ({p} \X (1..n)))
          /\ Cardinality(S \cup ({p} \X (1..n))) = Cardinality(S) + n
      BY <3>1, PointsAdd
    <3> QED BY <2>1, <3>2 DEF S, n
  <2> QED BY <1>1, <1>2, <1>3, <2>3
<1>4. CASE p.user # u
  <2>1. Book!PointsSpent(c, u) = Book!PointsSpent(b, u)
    BY <1>4 DEF Book!PointsSpent
  <2> QED BY <1>1, <1>2, <1>4, <2>1
<1> QED BY <1>3, <1>4

-----------------------------------------------------------------------------
(* What one copy of the wallet has to do with its account book: the last    *)
(* balance of each ledger is what the book says is left, nobody spent what  *)
(* he had not paid, and the book has finitely many points in it.            *)
Agrees(m) ==
    /\ \A u \in Users :
        /\ IsFiniteSet(Book!PointsPaid(BookIn(m), u))
        /\ IsFiniteSet(Book!PointsSpent(BookIn(m), u))
        /\ BalanceOf(m.ledger[u]) = Book!Balance(BookIn(m), u)
    /\ \A o \in DOMAIN m.orders : m.orders[o].points \in PointInputs
    /\ Book!Covered(BookIn(m))

BookInv == Agrees(Memory) /\ Agrees(disk)

(* The book is in the four maps alone. *)
LEMMA SameBooksSameBook ==
    ASSUME NEW m, NEW n, SameBooks(m, n)
    PROVE  BookIn(m) = BookIn(n) /\ (Agrees(n) => Agrees(m))
<1>1. BookIn(m) = BookIn(n)  BY DEF SameBooks, BookIn
<1> QED BY <1>1 DEF SameBooks, Agrees

(* Nothing is written to the book while paid orders and purchases stay. *)
LEMMA BookUnchanged ==
    ASSUME Agrees(Memory), UNCHANGED <<ledger, grants>>,
           DOMAIN orders \subseteq DOMAIN orders',
           \A x \in DOMAIN orders' :
               /\ orders'[x].points \in PointInputs
               /\ orders'[x].status = "paid" <=> x \in DOMAIN orders /\ orders[x].status = "paid",
           \A x \in DOMAIN orders : orders'[x].user = orders[x].user
                                      /\ orders'[x].points = orders[x].points
    PROVE  BookIn(Memory') = BookIn(Memory) /\ Agrees(Memory')
<1>1. {x \in DOMAIN orders' : orders'[x].status = "paid"}
        = {x \in DOMAIN orders : orders[x].status = "paid"}
  OBVIOUS
<1>2. {[order |-> o, user |-> orders'[o].user, points |-> orders'[o].points] :
          o \in {x \in DOMAIN orders' : orders'[x].status = "paid"}}
        = {[order |-> o, user |-> orders[o].user, points |-> orders[o].points] :
          o \in {x \in DOMAIN orders : orders[x].status = "paid"}}
  BY <1>1
<1>3. BookIn(Memory') = BookIn(Memory)  BY <1>2 DEF BookIn, Memory
<1>4. Memory'.ledger = Memory.ledger /\ Memory'.orders = orders'  BY DEF Memory
<1> QED BY <1>3, <1>4 DEF Agrees

(* The entry that is added last is the one the balance is read from. *)
LEMMA BalanceAfter ==
    ASSUME Books(Memory), NEW u \in Users, NEW id \in OrderIds \cup GrantIds,
           NEW type \in {"topup", "redeem"}, NEW delta \in Ints,
           addLedgerEntry(u, id, type, delta)
    PROVE  /\ BalanceOf(ledger'[u]) = Wrap(BalanceOf(ledger[u]) + delta)
           /\ \A v \in Users : v # u => BalanceOf(ledger'[v]) = BalanceOf(ledger[v])
<1> DEFINE e == Entry(u, id, type, delta)
<1>1. ledger \in [Users -> Seq(LedgerEntry)]  BY DEF Books, WellFormed, Memory
<1>2. e \in LedgerEntry
  <2>1. BalanceOf(ledger[u]) \in Ints  BY BalanceInInts DEF Books
  <2>2. BalanceOf(ledger[u]) + delta \in Int  BY <2>1 DEF Ints
  <2>3. Wrap(BalanceOf(ledger[u]) + delta) \in Ints  BY <2>2, WrapInInts
  <2> QED BY <2>3 DEF Entry, LedgerEntry
<1>3. e.balance = Wrap(BalanceOf(ledger[u]) + delta)  BY DEF Entry
<1>4. ledger' = [ledger EXCEPT ![u] = Append(@, e)]  BY DEF addLedgerEntry
<1> HIDE DEF e
<1>5. ledger'[u] = Append(ledger[u], e)  BY <1>1, <1>4
<1>6. /\ ledger'[u] # <<>> /\ Len(ledger'[u]) = Len(ledger[u]) + 1
      /\ ledger'[u][Len(ledger[u]) + 1] = e
  <2>1. /\ Len(ledger[u]) \in Nat /\ ledger' \in [Users -> Seq(LedgerEntry)]
        /\ Len(ledger'[u]) = Len(ledger[u]) + 1
        /\ ledger'[u][Len(ledger[u]) + 1] = e
    BY <1>1, <1>2, <1>4, Appended
  <2>2. ledger'[u] = <<>> => Len(ledger'[u]) = 0  OBVIOUS
  <2>3. Len(ledger'[u]) # 0  BY <2>1
  <2> QED BY <2>1, <2>2, <2>3
<1>7. BalanceOf(ledger'[u]) = e.balance  BY <1>6 DEF BalanceOf
<1>8. \A v \in Users : v # u => ledger'[v] = ledger[v]  BY <1>1, <1>4
<1> QED BY <1>3, <1>7, <1>8

(* ConfirmTopup of a paid trade writes one payment into the book. *)
LEMMA CreditPays ==
    ASSUME Books(Memory), Agrees(Memory), NEW o \in OrderIds, NEW tradeNo \in TradeNos,
           NEW saved, ConfirmTopup(o, tradeNo, TRUE, saved)
    PROVE  Agrees(Memory') /\ \E p \in Book!Payment :
              /\ \A q \in BookIn(Memory).payments : q.order # p.order
              /\ BookIn(Memory') = [BookIn(Memory) EXCEPT !.payments = @ \cup {p}]
<1> DEFINE u == orders[o].user
           n == orders[o].points
           p == [order |-> o, user |-> u, points |-> n]
           b == BookIn(Memory)
           c == BookIn(Memory')
<1>1. /\ o \in DOMAIN orders /\ orders[o].status # "paid"
      /\ orders' = [orders EXCEPT ![o].status = "paid", ![o].tradeNo = tradeNo]
      /\ addLedgerEntry(u, o, "topup", n) /\ grants' = grants
  BY DEF ConfirmTopup, IsPaid, CreditOrder
<1>2. orders[o] \in TopupOrder  BY <1>1 DEF Books, WellFormed, IsMap, Memory
<1>3. u \in Users /\ n \in Ints /\ n \in PointInputs /\ n > 0
  BY <1>1, <1>2 DEF TopupOrder, Agrees, Books, OwnersVerified, Memory
<1>4. p \in Book!Payment  BY <1>3 DEF Book!Payment
<1>5. /\ DOMAIN orders' = DOMAIN orders
      /\ orders'[o].user = u /\ orders'[o].points = n /\ orders'[o].status = "paid"
      /\ \A x \in DOMAIN orders : x # o => orders'[x] = orders[x]
  BY <1>1, <1>2 DEF TopupOrder
<1>6. \A q \in b.payments : q.order # o  BY <1>1 DEF BookIn, Memory
<1>7. c.payments = b.payments \cup {p} /\ c.purchases = b.purchases
  <2>1. {x \in DOMAIN orders' : orders'[x].status = "paid"}
          = {x \in DOMAIN orders : orders[x].status = "paid"} \cup {o}
    BY <1>1, <1>5
  <2>2. {[order |-> y, user |-> orders'[y].user, points |-> orders'[y].points] :
            y \in {x \in DOMAIN orders' : orders'[x].status = "paid"}}
          = {[order |-> y, user |-> orders[y].user, points |-> orders[y].points] :
            y \in {x \in DOMAIN orders : orders[x].status = "paid"}} \cup {p}
    BY <1>1, <1>5, <2>1
  <2> QED BY <1>1, <2>2 DEF BookIn, Memory
<1>8. c = [b EXCEPT !.payments = @ \cup {p}]
  BY <1>7 DEF BookIn
<1>9. Agrees(Memory')
  <2>1. p \notin b.payments /\ p.points \in Nat /\ p.user = u /\ p.points = n
    BY <1>3, <1>6 DEF Ints
  <2>2. \A v \in Users : BalanceOf(ledger'[v]) =
           IF v = u THEN Wrap(BalanceOf(ledger[v]) + n) ELSE BalanceOf(ledger[v])
    BY <1>1, <1>3, BalanceAfter
  <2> HIDE DEF u, n, p, b, c
  <2>3. ASSUME NEW v \in Users
        PROVE  /\ IsFiniteSet(Book!PointsPaid(c, v)) /\ IsFiniteSet(Book!PointsSpent(c, v))
               /\ BalanceOf(ledger'[v]) = Book!Balance(c, v)
               /\ Book!Paid(c, v) < HalfRange => Book!Spent(c, v) <= Book!Paid(c, v)
    <3>1. /\ IsFiniteSet(Book!PointsPaid(b, v)) /\ IsFiniteSet(Book!PointsSpent(b, v))
          /\ BalanceOf(ledger[v]) = Book!Balance(b, v)
          /\ Book!Paid(b, v) < HalfRange => Book!Spent(b, v) <= Book!Paid(b, v)
      BY DEF Agrees, Book!Covered, Memory, b
    <3>2. /\ IsFiniteSet(Book!PointsPaid(c, v))
          /\ Book!Paid(c, v) = Book!Paid(b, v) + (IF v = u THEN n ELSE 0)
          /\ Book!Paid(b, v) \in Nat
      <4>1. /\ IsFiniteSet(Book!PointsPaid(c, v))
            /\ Book!Paid(c, v) = Book!Paid(b, v) + (IF p.user = v THEN p.points ELSE 0)
            /\ Book!Paid(b, v) \in Nat
        BY <1>7, <2>1, <3>1, PaidAdds, Zenon
      <4> QED BY <2>1, <4>1
    <3>3. /\ Book!PointsSpent(c, v) = Book!PointsSpent(b, v)
          /\ Book!Spent(c, v) = Book!Spent(b, v)
      BY <1>7 DEF Book!PointsSpent, Book!Spent
    <3>4. Book!Spent(b, v) \in Nat
      BY <3>1, FS_CardinalityType, CardinalitySame DEF Book!Spent
    <3>5. BalanceOf(ledger'[v]) = Book!Balance(c, v)
      <4>1. CASE v = u
        <5>1. BalanceOf(ledger'[v]) = Wrap(Book!InRange(Book!Paid(b, v) - Book!Spent(b, v)) + n)
          BY <2>2, <3>1, <4>1 DEF Book!Balance
        <5>2. Book!Paid(b, v) - Book!Spent(b, v) \in Int /\ n \in Int
          BY <2>1, <3>2, <3>4
        <5>3. Book!Paid(c, v) - Book!Spent(c, v) = (Book!Paid(b, v) - Book!Spent(b, v)) + n
          BY <2>1, <3>2, <3>3, <3>4, <4>1
        <5> QED BY <5>1, <5>2, <5>3, WrapAdds DEF Book!Balance
      <4>2. CASE v # u
        <5>1. Book!Paid(c, v) = Book!Paid(b, v)  BY <3>2, <4>2
        <5> QED BY <2>2, <3>1, <3>3, <4>2, <5>1 DEF Book!Balance
      <4> QED BY <4>1, <4>2
    <3>6. Book!Paid(c, v) < HalfRange => Book!Spent(c, v) <= Book!Paid(c, v)
      BY <2>1, <3>1, <3>2, <3>3, <3>4
    <3> QED BY <3>1, <3>2, <3>3, <3>5, <3>6
  <2>4. \A x \in DOMAIN orders' : orders'[x].points \in PointInputs
    BY <1>3, <1>5 DEF Agrees, Memory
  <2>5. Memory'.ledger = ledger' /\ Memory'.orders = orders'  BY DEF Memory
  <2> QED BY <2>3, <2>4, <2>5 DEF Agrees, Book!Covered, c
<1> QED BY <1>4, <1>6, <1>8, <1>9

(* Redeem writes one purchase into the book, within what the book has left. *)
LEMMA RedeemBuys ==
    ASSUME Books(Memory), Agrees(Memory), NEW u \in Users, NEW pl \in Plans,
           NEW g \in GrantIds, NEW saved, Redeem(u, pl, g, saved)
    PROVE  Agrees(Memory') /\ \E p \in Book!Purchase :
              /\ \A q \in BookIn(Memory).purchases : q.grant # p.grant
              /\ Book!Balance(BookIn(Memory), p.user) >= Price[p.plan]
              /\ BookIn(Memory') = [BookIn(Memory) EXCEPT !.purchases = @ \cup {p}]
<1> DEFINE n == Price[pl]
           p == [grant |-> g, user |-> u, plan |-> pl]
           b == BookIn(Memory)
           c == BookIn(Memory')
<1>1. /\ g \notin DOMAIN grants /\ BalanceOf(ledger[u]) >= n
      /\ grants' = Put(grants, g, [user |-> u, plan |-> pl])
      /\ addLedgerEntry(u, g, "redeem", -n) /\ orders' = orders
  BY DEF Redeem, CanAfford
<1>2. n \in Nat /\ -n \in Ints /\ n < HalfRange  BY DEF Ints
<1>3. p \in Book!Purchase  BY DEF Book!Purchase
<1>4. /\ DOMAIN grants' = DOMAIN grants \cup {g}
      /\ grants'[g] = [user |-> u, plan |-> pl]
      /\ \A x \in DOMAIN grants : grants'[x] = grants[x]
  BY <1>1 DEF Put
<1>5. \A q \in b.purchases : q.grant # g  BY <1>1 DEF BookIn, Memory
<1>6. c.purchases = b.purchases \cup {p} /\ c.payments = b.payments
  <2>1. {[grant |-> x, user |-> grants'[x].user, plan |-> grants'[x].plan] : x \in DOMAIN grants'}
          = {[grant |-> x, user |-> grants[x].user, plan |-> grants[x].plan] :
               x \in DOMAIN grants} \cup {p}
    BY <1>1, <1>4
  <2> QED BY <1>1, <2>1 DEF BookIn, Memory
<1>7. c = [b EXCEPT !.purchases = @ \cup {p}]  BY <1>6 DEF BookIn
<1>8. Book!Balance(b, u) >= n  BY <1>1 DEF Agrees, Memory
<1>9. Agrees(Memory')
  <2>1. p \notin b.purchases /\ p.user = u /\ p.plan = pl /\ Price[p.plan] = n
    BY <1>5
  <2>2. \A v \in Users : BalanceOf(ledger'[v]) =
           IF v = u THEN Wrap(BalanceOf(ledger[v]) + -n) ELSE BalanceOf(ledger[v])
    BY <1>1, <1>2, BalanceAfter
  <2> HIDE DEF n, p, b, c
  <2>3. ASSUME NEW v \in Users
        PROVE  /\ IsFiniteSet(Book!PointsPaid(c, v)) /\ IsFiniteSet(Book!PointsSpent(c, v))
               /\ BalanceOf(ledger'[v]) = Book!Balance(c, v)
               /\ Book!Paid(c, v) < HalfRange => Book!Spent(c, v) <= Book!Paid(c, v)
    <3>1. /\ IsFiniteSet(Book!PointsPaid(b, v)) /\ IsFiniteSet(Book!PointsSpent(b, v))
          /\ BalanceOf(ledger[v]) = Book!Balance(b, v)
          /\ Book!Paid(b, v) < HalfRange => Book!Spent(b, v) <= Book!Paid(b, v)
      BY DEF Agrees, Book!Covered, Memory, b
    <3>2. /\ IsFiniteSet(Book!PointsSpent(c, v))
          /\ Book!Spent(c, v) = Book!Spent(b, v) + (IF v = u THEN n ELSE 0)
          /\ Book!Spent(b, v) \in Nat
      <4>1. /\ IsFiniteSet(Book!PointsSpent(c, v))
            /\ Book!Spent(c, v) = Book!Spent(b, v) + (IF p.user = v THEN Price[p.plan] ELSE 0)
            /\ Book!Spent(b, v) \in Nat
        <5>1. Price[p.plan] \in Nat  BY <1>2, <2>1
        <5> QED BY <1>6, <2>1, <3>1, <5>1, SpentAdds, Zenon
      <4> QED BY <2>1, <4>1
    <3>3. /\ Book!PointsPaid(c, v) = Book!PointsPaid(b, v)
          /\ Book!Paid(c, v) = Book!Paid(b, v)
      BY <1>6 DEF Book!PointsPaid, Book!Paid
    <3>4. Book!Paid(b, v) \in Nat
      BY <3>1, FS_CardinalityType, CardinalitySame DEF Book!Paid
    <3>5. BalanceOf(ledger'[v]) = Book!Balance(c, v)
      <4>1. CASE v = u
        <5>1. BalanceOf(ledger'[v]) = Wrap(Book!InRange(Book!Paid(b, v) - Book!Spent(b, v)) + -n)
          BY <2>2, <3>1, <4>1 DEF Book!Balance
        <5>2. Book!Paid(b, v) - Book!Spent(b, v) \in Int /\ -n \in Int
          BY <1>2, <3>2, <3>4
        <5>3. Book!Paid(c, v) - Book!Spent(c, v) = (Book!Paid(b, v) - Book!Spent(b, v)) + -n
          BY <1>2, <3>2, <3>3, <3>4, <4>1
        <5> QED BY <5>1, <5>2, <5>3, WrapAdds DEF Book!Balance
      <4>2. CASE v # u
        <5>1. Book!Spent(c, v) = Book!Spent(b, v)  BY <3>2, <4>2
        <5> QED BY <2>2, <3>1, <3>3, <4>2, <5>1 DEF Book!Balance
      <4> QED BY <4>1, <4>2
    <3>6. ASSUME Book!Paid(c, v) < HalfRange PROVE Book!Spent(c, v) <= Book!Paid(c, v)
      <4>1. Book!Spent(b, v) <= Book!Paid(b, v)  BY <3>1, <3>3, <3>6
      <4>2. CASE v = u
        <5> DEFINE left == Book!Paid(b, v) - Book!Spent(b, v)
        <5>1. left \in Ints /\ left \in Int
          BY <3>2, <3>3, <3>4, <3>6, <4>1 DEF Ints
        <5>2. Book!Balance(b, v) = Book!InRange(left)  BY DEF Book!Balance
        <5> HIDE DEF left
        <5>3. Book!InRange(left) = left  BY <5>1, WrapIsInRange DEF Wrap
        <5>4. left >= n  BY <1>8, <4>2, <5>2, <5>3
        <5> QED BY <1>2, <3>2, <3>3, <3>4, <4>2, <5>4 DEF left
      <4>3. CASE v # u  BY <3>2, <3>3, <4>1, <4>3
      <4> QED BY <4>2, <4>3
    <3> QED BY <3>1, <3>2, <3>3, <3>5, <3>6
  <2>4. \A x \in DOMAIN orders' : orders'[x].points \in PointInputs
    BY <1>1 DEF Agrees, Memory
  <2>5. Memory'.ledger = ledger' /\ Memory'.orders = orders'  BY DEF Memory
  <2> QED BY <2>3, <2>4, <2>5 DEF Agrees, Book!Covered, c
<1> QED BY <1>3, <1>5, <1>7, <1>8, <1>9

(* What an operation may do to the book in memory. *)
BookMoves ==
    \/ \E p \in Book!Payment : Book!Pay(p)
    \/ \E p \in Book!Purchase : Book!Buy(p)
    \/ BookIn(Memory)' = BookIn(Memory)

(* Every operation pays, buys or leaves the book alone. *)
LEMMA OperationMoves ==
    ASSUME Books(Memory), Agrees(Memory), Next, ~CrashRestart
    PROVE  /\ Agrees(Memory') /\ BookMoves
           /\ \E saved \in SaveOutcomes : saveLocked(saved)
<1>1. BookIn(Memory)' = BookIn(Memory')  BY DEF BookIn, Memory
<1>2. BookIn(Memory') = BookIn(Memory) => BookMoves  BY <1>1 DEF BookMoves
<1>3. ASSUME NEW saved \in SaveOutcomes, NEW u \in Users, VerifyEmail(u, saved)
      PROVE  Agrees(Memory') /\ BookMoves /\ saveLocked(saved)
  <2>1. UNCHANGED <<orders, ledger, grants>> /\ saveLocked(saved)  BY <1>3 DEF VerifyEmail
  <2> QED BY <1>2, <2>1, BookUnchanged DEF Agrees, Memory
<1>4. ASSUME NEW saved \in SaveOutcomes, NEW u \in Users, NEW o \in OrderIds,
             NEW points \in PointInputs, CreateTopup(u, o, points, saved)
      PROVE  Agrees(Memory') /\ BookMoves /\ saveLocked(saved)
  <2> DEFINE r == [user |-> u, points |-> points, status |-> "pending",
                   tradeNo |-> NoTradeNo]
  <2>1. /\ o \notin DOMAIN orders /\ orders' = Put(orders, o, r)
        /\ UNCHANGED <<ledger, grants>> /\ saveLocked(saved)
    BY <1>4 DEF CreateTopup
  <2>2. /\ DOMAIN orders' = DOMAIN orders \cup {o} /\ orders'[o] = r
        /\ \A x \in DOMAIN orders : orders'[x] = orders[x]
    BY <2>1 DEF Put
  <2> QED BY <1>2, <2>1, <2>2, BookUnchanged DEF Agrees, Memory
<1>5. ASSUME NEW o \in DOMAIN orders, NEW r, orders' = [orders EXCEPT ![o] = r],
             orders[o].status # "paid", r.status # "paid", r.user = orders[o].user,
             r.points = orders[o].points, UNCHANGED <<ledger, grants>>
      PROVE  Agrees(Memory') /\ BookMoves
  <2>1. /\ DOMAIN orders' = DOMAIN orders /\ orders'[o] = r
        /\ \A x \in DOMAIN orders : x # o => orders'[x] = orders[x]
    BY <1>5
  <2> QED BY <1>2, <1>5, <2>1, BookUnchanged DEF Agrees, Memory
<1>6. \A o \in DOMAIN orders : orders[o] \in TopupOrder
  BY DEF Books, WellFormed, IsMap, Memory
<1>7. ASSUME NEW saved \in SaveOutcomes, NEW o \in OrderIds, NEW tradeNo \in TradeNos,
             NEW paid \in BOOLEAN, ConfirmTopup(o, tradeNo, paid, saved)
      PROVE  Agrees(Memory') /\ BookMoves /\ saveLocked(saved)
  <2>1. saveLocked(saved)  BY <1>7 DEF ConfirmTopup
  <2>2. CASE paid
    <3>1. ConfirmTopup(o, tradeNo, TRUE, saved)  BY <1>7, <2>2
    <3>2. Agrees(Memory') /\ \E p \in Book!Payment :
             /\ \A q \in BookIn(Memory).payments : q.order # p.order
             /\ BookIn(Memory') = [BookIn(Memory) EXCEPT !.payments = @ \cup {p}]
      BY <3>1, CreditPays
    <3> QED BY <1>1, <2>1, <3>2 DEF BookMoves, Book!Pay
  <2>3. CASE ~paid
    <3> DEFINE r == [orders[o] EXCEPT !.status = "failed"]
    <3>1. /\ o \in DOMAIN orders /\ orders[o].status # "paid"
          /\ orders' = [orders EXCEPT ![o] = r] /\ UNCHANGED <<ledger, grants>>
      BY <1>7, <2>3 DEF ConfirmTopup, IsPaid, MarkFailed
    <3>2. r.status # "paid" /\ r.user = orders[o].user /\ r.points = orders[o].points
      BY <1>6, <3>1 DEF TopupOrder
    <3> HIDE DEF r
    <3> QED BY <1>5, <2>1, <3>1, <3>2
  <2> QED BY <2>2, <2>3
<1>8. ASSUME NEW saved \in SaveOutcomes, NEW o \in OrderIds,
             NEW tradeNo \in TradeNos \cup {NoTradeNo}, MarkClosed(o, tradeNo, saved)
      PROVE  Agrees(Memory') /\ BookMoves /\ saveLocked(saved)
  <2> DEFINE r == [orders[o] EXCEPT !.status = "failed",
                       !.tradeNo = IF tradeNo = NoTradeNo THEN @ ELSE tradeNo]
  <2>1. /\ o \in DOMAIN orders /\ orders[o].status # "paid" /\ saveLocked(saved)
        /\ orders' = [orders EXCEPT ![o] = r] /\ UNCHANGED <<ledger, grants>>
    BY <1>8 DEF MarkClosed, IsPaid
  <2>2. r.status # "paid" /\ r.user = orders[o].user /\ r.points = orders[o].points
    BY <1>6, <2>1 DEF TopupOrder
  <2> HIDE DEF r
  <2> QED BY <1>5, <2>1, <2>2
<1>9. ASSUME NEW saved \in SaveOutcomes, NEW o \in OrderIds, NEW tradeNo \in TradeNos,
             RecordTradeNo(o, tradeNo, saved)
      PROVE  Agrees(Memory') /\ BookMoves /\ saveLocked(saved)
  <2> DEFINE r == [orders[o] EXCEPT !.tradeNo = tradeNo]
  <2>1. /\ o \in DOMAIN orders /\ orders[o].tradeNo = NoTradeNo /\ saveLocked(saved)
        /\ orders' = [orders EXCEPT ![o] = r] /\ UNCHANGED <<ledger, grants>>
    BY <1>9 DEF RecordTradeNo, NeedsTradeNo
  <2>2. orders[o].status # "paid"  BY <2>1 DEF Books, PaidOrdersTraced, Memory
  <2>3. r.status # "paid" /\ r.user = orders[o].user /\ r.points = orders[o].points
    BY <1>6, <2>1, <2>2 DEF TopupOrder
  <2> HIDE DEF r
  <2> QED BY <1>5, <2>1, <2>2, <2>3
<1>10. ASSUME NEW saved \in SaveOutcomes, NEW u \in Users, NEW pl \in Plans,
              NEW g \in GrantIds, Redeem(u, pl, g, saved)
       PROVE  Agrees(Memory') /\ BookMoves /\ saveLocked(saved)
  <2>1. Agrees(Memory') /\ \E p \in Book!Purchase :
           /\ \A q \in BookIn(Memory).purchases : q.grant # p.grant
           /\ Book!Balance(BookIn(Memory), p.user) >= Price[p.plan]
           /\ BookIn(Memory') = [BookIn(Memory) EXCEPT !.purchases = @ \cup {p}]
    BY <1>10, RedeemBuys
  <2> QED BY <1>1, <1>10, <2>1 DEF Redeem, BookMoves, Book!Buy
<1>11. ASSUME NEW saved \in SaveOutcomes, SaveByOthers(saved)
       PROVE  Agrees(Memory') /\ BookMoves /\ saveLocked(saved)
  <2>1. UNCHANGED <<orders, ledger, grants>> /\ saveLocked(saved)
    BY <1>11 DEF SaveByOthers
  <2> QED BY <1>2, <2>1, BookUnchanged DEF Agrees, Memory
<1> QED BY <1>3, <1>4, <1>7, <1>8, <1>9, <1>10, <1>11 DEF Next

(* An empty wallet has an empty book. *)
LEMMA BookInitially == Init => Book!Init /\ BookInv
<1> SUFFICES ASSUME Init PROVE Book!Init /\ BookInv  OBVIOUS
<1>1. /\ DOMAIN orders = {} /\ DOMAIN grants = {} /\ disk = Memory
      /\ ledger = [u \in Users |-> <<>>]
  BY DEF Init, EmptyMap
<1>2. BookIn(Memory) = [payments |-> {}, purchases |-> {}]
  BY <1>1 DEF BookIn, Memory
<1>3. \A u \in Users : /\ Book!PointsPaid(BookIn(Memory), u) = {}
                       /\ Book!PointsSpent(BookIn(Memory), u) = {}
  BY <1>2 DEF Book!PointsPaid, Book!PointsSpent
<1>4. IsFiniteSet({}) /\ Cardinality({}) = 0  BY FS_EmptySet
<1>5. \A u \in Users : Book!Paid(BookIn(Memory), u) = 0 /\ Book!Spent(BookIn(Memory), u) = 0
  BY <1>3, <1>4, CardinalitySame, Zenon DEF Book!Paid, Book!Spent
<1>6. Book!InRange(0) = 0  BY WrapIsInRange DEF Wrap, Ints
<1>7. \A u \in Users : BalanceOf(Memory.ledger[u]) = Book!Balance(BookIn(Memory), u)
  <2>1. \A u \in Users : BalanceOf(Memory.ledger[u]) = 0  BY <1>1 DEF Memory, BalanceOf
  <2> QED BY <1>5, <1>6, <2>1 DEF Book!Balance
<1>8. Book!Covered(BookIn(Memory))  BY <1>5 DEF Book!Covered
<1>9. Agrees(Memory)
  <2>1. \A u \in Users : /\ IsFiniteSet(Book!PointsPaid(BookIn(Memory), u))
                         /\ IsFiniteSet(Book!PointsSpent(BookIn(Memory), u))
    BY <1>3, <1>4, Zenon
  <2> QED BY <1>1, <1>7, <1>8, <2>1 DEF Agrees, Memory
<1> QED BY <1>1, <1>2, <1>9 DEF Book!Init, BookInv

(* A step of the wallet is one of its book. *)
LEMMA BookStep ==
    ASSUME BooksInv, BookInv, [Next]_vars
    PROVE  BookInv' /\ [Book!Next]_(Book!bookVars)
<1>1. BookIn(Memory)' = BookIn(Memory') /\ BookIn(disk)' = BookIn(disk')
  BY DEF BookIn, Memory
<1>2. Agrees(Memory') /\ Agrees(disk') => BookInv'
  BY DEF BookInv, Agrees, Memory, BookIn
<1>3. CASE UNCHANGED vars
  <2>1. Memory' = Memory /\ disk' = disk  BY <1>3 DEF vars, Memory
  <2> QED BY <1>1, <1>2, <2>1 DEF BookInv, Book!bookVars
<1>4. CASE CrashRestart
  <2>1. disk' = disk /\ SameBooks(Memory', disk)
    BY <1>4 DEF CrashRestart, SameBooks, Memory
  <2>2. BookIn(Memory') = BookIn(disk) /\ Agrees(Memory')
    BY <2>1, SameBooksSameBook DEF BookInv
  <2> QED BY <1>1, <1>2, <2>1, <2>2 DEF BookInv, Book!Next
<1>5. CASE Next /\ ~CrashRestart
  <2>1. /\ Agrees(Memory') /\ BookMoves
        /\ \E saved \in SaveOutcomes : saveLocked(saved)
    BY <1>5, OperationMoves DEF BooksInv, BookInv
  <2>2. disk' \in {disk, Memory'}  BY <2>1 DEF saveLocked
  <2>3. Agrees(disk') /\ BookIn(disk)' \in {BookIn(disk), BookIn(Memory)'}
    BY <1>1, <2>1, <2>2 DEF BookInv
  <2> QED BY <1>2, <2>1, <2>3 DEF BookMoves, Book!Next
<1> QED BY <1>3, <1>4, <1>5

(* The wallet keeps an account book: its running balances are always the sum *)
(* of payments less purchases, for any users, ids, prices, integer width and *)
(* outcome of saving (ConfirmTopup, Redeem, currentBalanceLocked).           *)
THEOREM BookImplemented == Spec => ImplementsAccountBook
<1>1. Init => Book!Init /\ BookInv  BY BookInitially
<1>2. BooksInv /\ BookInv /\ [Next]_vars => BookInv' /\ [Book!Next]_(Book!bookVars)
  BY BookStep
<1> QED BY <1>1, <1>2, BooksAlways, PTL DEF Spec, ImplementsAccountBook, Book!Spec

(* Nobody's purchases cost more than his payments brought in, unless these *)
(* overflow an int, in memory or as stored (Redeem, ConfirmTopup).         *)
THEOREM SpendingCovered == Spec => []SpentWasPaid
<1>1. Init => BookInv  BY BookInitially
<1>2. BooksInv /\ BookInv /\ [Next]_vars => BookInv'  BY BookStep
<1>3. BookInv => SpentWasPaid  BY DEF BookInv, Agrees, SpentWasPaid
<1> QED BY <1>1, <1>2, <1>3, BooksAlways, PTL DEF Spec

-----------------------------------------------------------------------------
(* The points that the paid orders of u brought in and those that u's        *)
(* purchases took, counted in the wallet's own maps.                         *)
OrderPoints(m, u) ==
    UNION {{o} \X (1..m.orders[o].points) :
              o \in {x \in DOMAIN m.orders : m.orders[x].user = u /\ m.orders[x].status = "paid"}}
GrantPoints(m, u) ==
    UNION {{g} \X (1..Price[m.grants[g].plan]) :
              g \in {x \in DOMAIN m.grants : m.grants[x].user = u}}

MapsCovered(m) ==
    \A u \in Users :
        /\ IsFiniteSet(OrderPoints(m, u)) /\ IsFiniteSet(GrantPoints(m, u))
        /\ Cardinality(OrderPoints(m, u)) < HalfRange =>
               Cardinality(GrantPoints(m, u)) <= Cardinality(OrderPoints(m, u))

(* A point of the book is a point of an order, *)
LEMMA OrderPointsCounted ==
    ASSUME NEW m, NEW u, IsFiniteSet(Book!PointsPaid(BookIn(m), u))
    PROVE  /\ IsFiniteSet(OrderPoints(m, u))
           /\ Cardinality(OrderPoints(m, u)) = Book!Paid(BookIn(m), u)
<1> DEFINE S == Book!PointsPaid(BookIn(m), u)
           T == OrderPoints(m, u)
           payment(o) == [order |-> o, user |-> m.orders[o].user, points |-> m.orders[o].points]
           f == [x \in T |-> <<payment(x[1]), x[2]>>]
<1>1. \A x \in T : /\ x = <<x[1], x[2]>> /\ x[1] \in DOMAIN m.orders
                   /\ m.orders[x[1]].user = u /\ m.orders[x[1]].status = "paid"
                   /\ x[2] \in 1..m.orders[x[1]].points
  BY DEF OrderPoints
<1>2. \A x \in T : f[x] \in S
  <2> SUFFICES ASSUME NEW x \in T PROVE <<payment(x[1]), x[2]>> \in S  OBVIOUS
  <2>1. payment(x[1]) \in BookIn(m).payments  BY <1>1 DEF BookIn
  <2>2. payment(x[1]).user = u /\ payment(x[1]).points = m.orders[x[1]].points  BY <1>1
  <2> HIDE DEF payment
  <2> QED BY <1>1, <2>1, <2>2 DEF Book!PointsPaid
<1>3. \A x, y \in T : f[x] = f[y] => x = y  BY <1>1
<1>4. \A z \in S : \E x \in T : f[x] = z
  <2> SUFFICES ASSUME NEW z \in S PROVE \E x \in T : f[x] = z  OBVIOUS
  <2>1. PICK p \in BookIn(m).payments : p.user = u /\ z \in {p} \X (1..p.points)
    BY DEF Book!PointsPaid
  <2>2. PICK o \in DOMAIN m.orders : m.orders[o].status = "paid" /\ p = payment(o)
    BY <2>1 DEF BookIn
  <2>3. m.orders[o].user = u /\ m.orders[o].points = p.points  BY <2>1, <2>2
  <2>4. z = <<p, z[2]>> /\ z[2] \in 1..p.points  BY <2>1
  <2>5. <<o, z[2]>> \in T  BY <2>2, <2>3, <2>4 DEF OrderPoints
  <2> HIDE DEF payment, T
  <2>6. f[<<o, z[2]>>] = z  BY <2>2, <2>4, <2>5
  <2> QED BY <2>5, <2>6
<1> HIDE DEF S, T, payment
<1>5. f \in [T -> S]  BY <1>2
<1> HIDE DEF f
<1>6. f \in Bijection(T, S)  BY <1>3, <1>4, <1>5, Fun_IsBij
<1>7. f \in Injection(T, S) /\ f \in Surjection(T, S)  BY <1>6, Fun_BijectionProperties
<1>8. IsFiniteSet(S)  BY DEF S
<1>9. IsFiniteSet(T) /\ (Cardinality(T) = Cardinality(S) <=> f \in Surjection(T, S))
  BY <1>7, <1>8, FS_Injection
<1>10. Book!Paid(BookIn(m), u) = Cardinality(S)
  BY CardinalitySame DEF Book!Paid, S
<1> QED BY <1>7, <1>9, <1>10 DEF T

(* or of a purchase. *)
LEMMA GrantPointsCounted ==
    ASSUME NEW m, NEW u, IsFiniteSet(Book!PointsSpent(BookIn(m), u))
    PROVE  /\ IsFiniteSet(GrantPoints(m, u))
           /\ Cardinality(GrantPoints(m, u)) = Book!Spent(BookIn(m), u)
<1> DEFINE S == Book!PointsSpent(BookIn(m), u)
           T == GrantPoints(m, u)
           purchase(g) == [grant |-> g, user |-> m.grants[g].user, plan |-> m.grants[g].plan]
           f == [x \in T |-> <<purchase(x[1]), x[2]>>]
<1>1. \A x \in T : /\ x = <<x[1], x[2]>> /\ x[1] \in DOMAIN m.grants
                   /\ m.grants[x[1]].user = u /\ x[2] \in 1..Price[m.grants[x[1]].plan]
  BY DEF GrantPoints
<1>2. \A x \in T : f[x] \in S
  <2> SUFFICES ASSUME NEW x \in T PROVE <<purchase(x[1]), x[2]>> \in S  OBVIOUS
  <2>1. purchase(x[1]) \in BookIn(m).purchases  BY <1>1 DEF BookIn
  <2>2. purchase(x[1]).user = u /\ purchase(x[1]).plan = m.grants[x[1]].plan  BY <1>1
  <2> HIDE DEF purchase
  <2> QED BY <1>1, <2>1, <2>2 DEF Book!PointsSpent
<1>3. \A x, y \in T : f[x] = f[y] => x = y  BY <1>1
<1>4. \A z \in S : \E x \in T : f[x] = z
  <2> SUFFICES ASSUME NEW z \in S PROVE \E x \in T : f[x] = z  OBVIOUS
  <2>1. PICK p \in BookIn(m).purchases : p.user = u /\ z \in {p} \X (1..Price[p.plan])
    BY DEF Book!PointsSpent
  <2>2. PICK g \in DOMAIN m.grants : p = purchase(g)  BY <2>1 DEF BookIn
  <2>3. m.grants[g].user = u /\ m.grants[g].plan = p.plan  BY <2>1, <2>2
  <2>4. z = <<p, z[2]>> /\ z[2] \in 1..Price[p.plan]  BY <2>1
  <2>5. <<g, z[2]>> \in T  BY <2>2, <2>3, <2>4 DEF GrantPoints
  <2> HIDE DEF purchase, T
  <2>6. f[<<g, z[2]>>] = z  BY <2>2, <2>4, <2>5
  <2> QED BY <2>5, <2>6
<1> HIDE DEF S, T, purchase
<1>5. f \in [T -> S]  BY <1>2
<1> HIDE DEF f
<1>6. f \in Bijection(T, S)  BY <1>3, <1>4, <1>5, Fun_IsBij
<1>7. f \in Injection(T, S) /\ f \in Surjection(T, S)  BY <1>6, Fun_BijectionProperties
<1>8. IsFiniteSet(S)  BY DEF S
<1>9. IsFiniteSet(T) /\ (Cardinality(T) = Cardinality(S) <=> f \in Surjection(T, S))
  BY <1>7, <1>8, FS_Injection
<1>10. Book!Spent(BookIn(m), u) = Cardinality(S)
  BY CardinalitySame DEF Book!Spent, S
<1> QED BY <1>7, <1>9, <1>10 DEF T

(* The server's theorems are about the maps; this is the book's promise, *)
(* read in them.                                                         *)
LEMMA MapsAlwaysCovered == Spec => [](MapsCovered(Memory) /\ MapsCovered(disk))
<1>1. ASSUME NEW m, Agrees(m) PROVE MapsCovered(m)
  BY <1>1, OrderPointsCounted, GrantPointsCounted DEF Agrees, MapsCovered, Book!Covered
<1>2. Init => BookInv  BY BookInitially
<1>3. BooksInv /\ BookInv /\ [Next]_vars => BookInv'  BY BookStep
<1>4. BookInv => MapsCovered(Memory) /\ MapsCovered(disk)  BY <1>1 DEF BookInv
<1> QED BY <1>2, <1>3, <1>4, BooksAlways, PTL DEF Spec
=============================================================================
