---------------------------- MODULE WalletProofs ----------------------------
(***************************************************************************)
(* Wallet's invariants, for any users, orders, plans, integer width and    *)
(* outcome of saving.  Every operation acts on memory alone and then       *)
(* stores all of it or nothing, so the books are shown to be kept by each  *)
(* operation on memory, and the snapshot is either what it was or a copy.  *)
(***************************************************************************)
EXTENDS Wallet, MapsProofs, TLAPS

(* All that is claimed of one copy of the books. *)
Books(m) ==
    /\ WellFormed(m)
    /\ PaidOrdersCredited(m)
    /\ PaidOrdersTraced(m)
    /\ EntriesDistinct(m)
    /\ EntriesJustified(m)
    /\ GrantsCharged(m)
    /\ BalancesChain(m)
    /\ ChargesCovered(m)
    /\ OwnersVerified(m)

BooksInv == Books(Memory) /\ Books(disk) /\ Extends(Memory, disk)

SameBooks(m, n) ==
    /\ m.verified = n.verified
    /\ m.orders = n.orders
    /\ m.ledger = n.ledger
    /\ m.grants = n.grants

USE WalletConstants

-----------------------------------------------------------------------------
(* Machine arithmetic stays in the machine's range. *)
LEMMA WrapInInts == ASSUME NEW n \in Int PROVE Wrap(n) \in Ints
<1>1. CASE n \in Ints  BY <1>1 DEF Wrap
<1>2. CASE n \notin Ints
  <2> DEFINE r == (n + HalfRange) % (2 * HalfRange)
  <2>1. 2 * HalfRange \in Nat \ {0}  OBVIOUS
  <2>2. r \in 0..(2 * HalfRange - 1)  BY <2>1
  <2>3. Wrap(n) = r - HalfRange  BY <1>2 DEF Wrap
  <2> QED BY <2>2, <2>3 DEF Ints
<1> QED BY <1>1, <1>2

(* What appending one entry to one user's ledger changes, and what it keeps. *)
LEMMA Appended ==
    ASSUME NEW l \in [Users -> Seq(LedgerEntry)], NEW u \in Users,
           NEW e \in LedgerEntry
    PROVE  LET n == [l EXCEPT ![u] = Append(@, e)]
           IN  /\ n \in [Users -> Seq(LedgerEntry)]
               /\ \A v \in Users : v # u => n[v] = l[v]
               /\ Len(n[u]) = Len(l[u]) + 1
               /\ \A v \in Users : DOMAIN l[v] = 1..Len(l[v])
               /\ \A v \in Users : DOMAIN n[v] = 1..Len(n[v])
               /\ \A v \in Users : Len(l[v]) \in Nat
               /\ \A i \in DOMAIN l[u] : n[u][i] = l[u][i]
               /\ n[u][Len(l[u]) + 1] = e
OBVIOUS

(* What a user's balance is when it is read: a machine integer. *)
LEMMA BalanceInInts ==
    ASSUME NEW u \in Users, WellFormed(Memory)
    PROVE  BalanceOf(ledger[u]) \in Ints
<1>1. ledger[u] \in Seq(LedgerEntry)  BY DEF WellFormed, Memory
<1>2. CASE ledger[u] = <<>>  BY <1>2 DEF BalanceOf, Ints
<1>3. CASE ledger[u] # <<>>
  <2>1. ledger[u][Len(ledger[u])] \in LedgerEntry  BY <1>1, <1>3
  <2> QED BY <1>3, <2>1 DEF BalanceOf, LedgerEntry
<1> QED BY <1>2, <1>3

(* addLedgerEntryLocked: booking an id no ledger holds yet keeps the chain of *)
(* balances and the ids distinct, and changes nothing that was booked before. *)
LEMMA Booked ==
    ASSUME NEW u \in Users, NEW id \in OrderIds \cup GrantIds,
           NEW type \in {"topup", "redeem"}, NEW delta \in Ints,
           Books(Memory), addLedgerEntry(u, id, type, delta),
           \A v \in Users : \A i \in DOMAIN ledger[v] : ledger[v][i].order # id,
           type = "redeem" => Wrap(BalanceOf(ledger[u]) + delta) >= 0
    PROVE  /\ ledger' \in [Users -> Seq(LedgerEntry)]
           /\ \A v \in Users : Len(ledger[v]) <= Len(ledger'[v])
           /\ \A v \in Users : \A i \in DOMAIN ledger[v] :
                 i \in DOMAIN ledger'[v] /\ ledger'[v][i] = ledger[v][i]
           /\ \A v \in Users : \A i \in DOMAIN ledger'[v] :
                 \/ i \in DOMAIN ledger[v]
                 \/ v = u /\ ledger'[v][i] = Entry(u, id, type, delta)
           /\ \E i \in DOMAIN ledger'[u] : ledger'[u][i] = Entry(u, id, type, delta)
           /\ EntriesDistinct(Memory')
           /\ BalancesChain(Memory')
           /\ ChargesCovered(Memory')
<1> DEFINE e == Entry(u, id, type, delta)
           n == Len(ledger[u]) + 1
<1>1. ledger \in [Users -> Seq(LedgerEntry)]  BY DEF Books, WellFormed, Memory
<1>2. e \in LedgerEntry
  <2>1. BalanceOf(ledger[u]) \in Ints  BY BalanceInInts DEF Books
  <2>2. BalanceOf(ledger[u]) + delta \in Int  BY <2>1 DEF Ints
  <2>3. Wrap(BalanceOf(ledger[u]) + delta) \in Ints  BY <2>2, WrapInInts
  <2> QED BY <2>3 DEF Entry, LedgerEntry
<1>3. ledger' = [ledger EXCEPT ![u] = Append(@, e)]  BY DEF addLedgerEntry
<1> HIDE DEF e
<1>4. /\ ledger' \in [Users -> Seq(LedgerEntry)]
      /\ \A v \in Users : v # u => ledger'[v] = ledger[v]
      /\ Len(ledger'[u]) = n
      /\ \A v \in Users : DOMAIN ledger[v] = 1..Len(ledger[v])
      /\ \A v \in Users : DOMAIN ledger'[v] = 1..Len(ledger'[v])
      /\ \A v \in Users : Len(ledger[v]) \in Nat
      /\ \A i \in DOMAIN ledger[u] : ledger'[u][i] = ledger[u][i]
      /\ ledger'[u][n] = e
  BY <1>1, <1>2, <1>3, Appended
<1>5. \A v \in Users : Len(ledger[v]) <= Len(ledger'[v])  BY <1>4
<1>6. \A v \in Users : \A i \in DOMAIN ledger[v] :
         i \in DOMAIN ledger'[v] /\ ledger'[v][i] = ledger[v][i]
  BY <1>4
<1>7. \A v \in Users : \A i \in DOMAIN ledger'[v] :
         i \in DOMAIN ledger[v] \/ (v = u /\ i = n /\ ledger'[v][i] = e)
  BY <1>4
<1>8. n \in DOMAIN ledger'[u]  BY <1>4
<1>9. e.order = id /\ e.type = type /\ e.delta = delta
         /\ e.balance = Wrap(BalanceOf(ledger[u]) + delta)
  BY DEF e, Entry
<1>10. EntriesDistinct(Memory')
  <2>1. \A v, w \in Users : \A i \in DOMAIN ledger[v], j \in DOMAIN ledger[w] :
           ledger[v][i].order = ledger[w][j].order => v = w /\ i = j
    BY DEF Books, EntriesDistinct, Memory
  <2>2. \A v, w \in Users : \A i \in DOMAIN ledger'[v], j \in DOMAIN ledger'[w] :
           ledger'[v][i].order = ledger'[w][j].order => v = w /\ i = j
    BY <1>6, <1>7, <1>9, <2>1
  <2> QED BY <2>2 DEF EntriesDistinct, Memory
<1>11. BalancesChain(Memory')
  <2> DEFINE Before(l, i) == IF i = 1 THEN 0 ELSE l[i - 1].balance
  <2>1. SUFFICES ASSUME NEW v \in Users, NEW i \in DOMAIN ledger'[v]
                 PROVE  ledger'[v][i].balance
                          = Wrap(Before(ledger'[v], i) + ledger'[v][i].delta)
    BY DEF BalancesChain, Memory
  <2>2. CASE i \in DOMAIN ledger[v]
    <3>1. ledger[v][i].balance = Wrap(Before(ledger[v], i) + ledger[v][i].delta)
      BY <2>2 DEF Books, BalancesChain, Memory
    <3>2. i # 1 => i - 1 \in DOMAIN ledger[v]  BY <1>4, <2>2
    <3> QED BY <1>6, <2>2, <3>1, <3>2
  <2>3. CASE i \notin DOMAIN ledger[v]
    <3>1. v = u /\ i = n /\ ledger'[v][i] = e  BY <1>7, <2>3
    <3>2. Before(ledger'[u], n) = BalanceOf(ledger[u])
      <4>1. CASE ledger[u] = <<>>  BY <4>1 DEF BalanceOf
      <4>2. CASE ledger[u] # <<>>
        <5>1. Len(ledger[u]) \in DOMAIN ledger[u] /\ n # 1  BY <1>1, <1>4, <4>2
        <5>2. n - 1 = Len(ledger[u])  BY <1>4
        <5> QED BY <1>4, <4>2, <5>1, <5>2 DEF BalanceOf
      <4> QED BY <4>1, <4>2
    <3> QED BY <1>9, <3>1, <3>2
  <2> QED BY <2>2, <2>3
<1>12. ChargesCovered(Memory')
  <2>1. \A v \in Users : \A i \in DOMAIN ledger[v] :
           ledger[v][i].type = "redeem" => ledger[v][i].balance >= 0
    BY DEF Books, ChargesCovered, Memory
  <2> QED BY <1>6, <1>7, <1>9, <2>1 DEF ChargesCovered, Memory
<1> QED BY <1>4, <1>5, <1>6, <1>7, <1>8, <1>10, <1>11, <1>12 DEF e

-----------------------------------------------------------------------------
(* While ledgers and purchases stay, an operation that keeps the paid orders *)
(* keeps every entry justified.                                              *)
LEMMA JustifiedKept ==
    ASSUME Books(Memory), UNCHANGED <<ledger, grants>>,
           \A x \in DOMAIN orders :
               /\ x \in DOMAIN orders'
               /\ orders[x].status = "paid" => orders'[x] = orders[x]
    PROVE  EntriesJustified(Memory')
<1>1. EntriesJustified(Memory)  BY DEF Books
<1>2. \A u, e : IsCredit(Memory, u, e) => IsCredit(Memory', u, e)
  BY DEF IsCredit, Memory
<1>3. \A u, e : IsCharge(Memory, u, e) => IsCharge(Memory', u, e)
  BY DEF IsCharge, Memory
<1>4. Memory'.ledger = Memory.ledger  BY DEF Memory
<1> QED BY <1>1, <1>2, <1>3, <1>4 DEF EntriesJustified

(* Replacing an order by one of the same owner, points and paidness, and the *)
(* same order if it is paid, keeps the books.                                *)
LEMMA OrderUpdated ==
    ASSUME Books(Memory), NEW o \in DOMAIN orders, NEW r \in TopupOrder,
           orders' = [orders EXCEPT ![o] = r],
           r.user = orders[o].user, r.points = orders[o].points,
           orders[o].status = "paid" \/ r.status = "paid" => r = orders[o],
           UNCHANGED <<verified, ledger, grants>>
    PROVE  Books(Memory') /\ Extends(Memory', Memory)
<1>1. /\ DOMAIN orders' = DOMAIN orders
      /\ orders'[o] = r
      /\ \A x \in DOMAIN orders : x # o => orders'[x] = orders[x]
  OBVIOUS
<1>2. \A x \in DOMAIN orders : /\ orders'[x].user = orders[x].user
                               /\ orders'[x].points = orders[x].points
                               /\ orders'[x].status = "paid" <=> orders[x].status = "paid"
                               /\ orders[x].status = "paid" => orders'[x] = orders[x]
  BY <1>1
<1>3. WellFormed(Memory')  BY <1>1 DEF Books, WellFormed, IsMap, Memory
<1>4. PaidOrdersCredited(Memory') /\ PaidOrdersTraced(Memory')
  <2>1. SUFFICES ASSUME NEW x \in DOMAIN orders, orders[x].status = "paid"
                 PROVE  /\ HasEntry(Memory', orders[x].user, x, "topup", orders[x].points)
                        /\ orders[x].tradeNo \in TradeNos
    BY <1>1, <1>2 DEF PaidOrdersCredited, PaidOrdersTraced, Memory
  <2>2. HasEntry(Memory, orders[x].user, x, "topup", orders[x].points)
    BY <2>1 DEF Books, PaidOrdersCredited, Memory
  <2> QED BY <2>1, <2>2 DEF Books, PaidOrdersTraced, HasEntry, Memory
<1>5. EntriesJustified(Memory')  BY <1>1, <1>2, JustifiedKept
<1>6. OwnersVerified(Memory')  BY <1>1, <1>2 DEF Books, OwnersVerified, Memory
<1>7. /\ EntriesDistinct(Memory') /\ GrantsCharged(Memory')
      /\ BalancesChain(Memory') /\ ChargesCovered(Memory')
  BY DEF Books, EntriesDistinct, GrantsCharged, HasEntry, BalancesChain,
         ChargesCovered, Memory
<1>8. Extends(Memory', Memory)
  <2>1. \A u \in Users : Len(ledger[u]) \in Nat  BY DEF Books, WellFormed, Memory
  <2> QED BY <1>1, <1>2, <2>1 DEF Extends, Memory
<1> QED BY <1>3, <1>4, <1>5, <1>6, <1>7, <1>8 DEF Books

(* The books keep, and only grow, whatever operation runs on memory.  *)
(* VerifyEmail adds a verified user.                                  *)
LEMMA VerifyEmailKeeps ==
    ASSUME Books(Memory), NEW u \in Users, NEW saved, VerifyEmail(u, saved)
    PROVE  Books(Memory') /\ Extends(Memory', Memory)
<1>1. /\ verified' = verified \cup {u}
      /\ orders' = orders /\ ledger' = ledger /\ grants' = grants
  BY DEF VerifyEmail
<1>2. \A v \in Users : Len(ledger[v]) \in Nat  BY DEF Books, WellFormed, Memory
<1>3. Extends(Memory', Memory)  BY <1>1, <1>2 DEF Extends, Memory
<1>4. WellFormed(Memory') /\ OwnersVerified(Memory')
  BY <1>1 DEF Books, WellFormed, OwnersVerified, Memory
<1>5. /\ PaidOrdersCredited(Memory') /\ PaidOrdersTraced(Memory')
      /\ GrantsCharged(Memory')
  BY <1>1
  DEF Books, PaidOrdersCredited, PaidOrdersTraced, GrantsCharged, HasEntry, Memory
<1>6. EntriesDistinct(Memory') /\ BalancesChain(Memory') /\ ChargesCovered(Memory')
  BY <1>1 DEF Books, EntriesDistinct, BalancesChain, ChargesCovered, Memory
<1>7. EntriesJustified(Memory')  BY <1>1, JustifiedKept
<1> QED BY <1>3, <1>4, <1>5, <1>6, <1>7 DEF Books

(* CreateTopup adds a pending order of a verified user: nothing to credit yet. *)
LEMMA CreateTopupKeeps ==
    ASSUME Books(Memory), NEW u \in Users, NEW o \in OrderIds,
           NEW points \in PointInputs, NEW saved, CreateTopup(u, o, points, saved)
    PROVE  Books(Memory') /\ Extends(Memory', Memory)
<1> DEFINE r == [user |-> u, points |-> points, status |-> "pending",
                 tradeNo |-> NoTradeNo]
<1>1. /\ o \notin DOMAIN orders /\ points > 0 /\ u \in verified
      /\ orders' = Put(orders, o, r)
      /\ verified' = verified /\ ledger' = ledger /\ grants' = grants
  BY DEF CreateTopup, MayTopup
<1>2. r \in TopupOrder  BY DEF TopupOrder
<1>3. IsMap(orders, OrderIds, TopupOrder)  BY DEF Books, WellFormed, Memory
<1>4. /\ IsMap(orders', OrderIds, TopupOrder)
      /\ DOMAIN orders' = DOMAIN orders \cup {o}
      /\ orders'[o] = r
      /\ \A x \in DOMAIN orders : orders'[x] = orders[x]
  <2> HIDE DEF r
  <2>1. /\ IsMap(Put(orders, o, r), OrderIds, TopupOrder)
        /\ DOMAIN Put(orders, o, r) = DOMAIN orders \cup {o}
        /\ Put(orders, o, r)[o] = r
        /\ \A x \in DOMAIN orders : x # o => Put(orders, o, r)[x] = orders[x]
    BY <1>2, <1>3, PutIsMap
  <2> QED BY <1>1, <2>1
<1>5. orders'[o].status # "paid" /\ orders'[o].user = u /\ orders'[o].points = points
  BY <1>4
<1>6. WellFormed(Memory') /\ OwnersVerified(Memory')
  BY <1>1, <1>4, <1>5 DEF Books, WellFormed, OwnersVerified, Memory
<1>7. PaidOrdersCredited(Memory') /\ PaidOrdersTraced(Memory')
  BY <1>1, <1>4, <1>5
  DEF Books, PaidOrdersCredited, PaidOrdersTraced, HasEntry, Memory
<1>8. EntriesJustified(Memory')  BY <1>1, <1>4, JustifiedKept
<1>9. /\ EntriesDistinct(Memory') /\ GrantsCharged(Memory')
      /\ BalancesChain(Memory') /\ ChargesCovered(Memory')
  BY <1>1 DEF Books, EntriesDistinct, GrantsCharged, HasEntry, BalancesChain,
              ChargesCovered, Memory
<1>10. Extends(Memory', Memory)
  <2>1. \A v \in Users : Len(ledger[v]) \in Nat  BY DEF Books, WellFormed, Memory
  <2> QED BY <1>1, <1>4, <2>1 DEF Extends, Memory
<1> QED BY <1>6, <1>7, <1>8, <1>9, <1>10 DEF Books

(* ConfirmTopup pays and credits an unpaid order in one step, or fails it. *)
LEMMA ConfirmTopupKeeps ==
    ASSUME Books(Memory), NEW o \in OrderIds, NEW tradeNo \in TradeNos,
           NEW paid \in BOOLEAN, NEW saved, ConfirmTopup(o, tradeNo, paid, saved)
    PROVE  Books(Memory') /\ Extends(Memory', Memory)
<1>1. /\ o \in DOMAIN orders /\ orders[o].status # "paid"
      /\ verified' = verified /\ grants' = grants
  BY DEF ConfirmTopup, IsPaid
<1>2. orders[o] \in TopupOrder
  BY <1>1 DEF Books, WellFormed, IsMap, Memory
<1>3. CASE ~paid
  <2> DEFINE r == [orders[o] EXCEPT !.status = "failed"]
  <2>1. orders' = [orders EXCEPT ![o] = r] /\ ledger' = ledger
    BY <1>3 DEF ConfirmTopup, MarkFailed
  <2>2. /\ r \in TopupOrder /\ r.user = orders[o].user
        /\ r.points = orders[o].points /\ r.status # "paid"
    BY <1>2 DEF TopupOrder
  <2> QED BY <1>1, <2>1, <2>2, OrderUpdated
<1>4. CASE paid
  <2> DEFINE r == [orders[o] EXCEPT !.status = "paid", !.tradeNo = tradeNo]
             u == orders[o].user
             pts == orders[o].points
             e == Entry(u, o, "topup", pts)
  <2>1. /\ orders' = [orders EXCEPT ![o] = r]
        /\ addLedgerEntry(u, o, "topup", pts)
    BY <1>4 DEF ConfirmTopup, CreditOrder
  <2>2. /\ r \in TopupOrder /\ r.user = u /\ r.points = pts
        /\ r.status = "paid" /\ r.tradeNo = tradeNo
        /\ u \in Users /\ pts \in Ints
    BY <1>2 DEF TopupOrder
  <2>6. e.order = o /\ e.type = "topup" /\ e.delta = pts  BY DEF Entry
  <2> HIDE DEF r
  <2>3. /\ DOMAIN orders' = DOMAIN orders
        /\ orders'[o] = r
        /\ \A x \in DOMAIN orders : x # o => orders'[x] = orders[x]
    BY <1>1, <2>1
  <2>4. \A v \in Users : \A i \in DOMAIN ledger[v] : ledger[v][i].order # o
    <3>1. DOMAIN grants \subseteq GrantIds  BY DEF Books, WellFormed, IsMap, Memory
    <3> QED BY <1>1, <3>1 DEF Books, EntriesJustified, IsCredit, IsCharge, Memory
  <2>5. /\ ledger' \in [Users -> Seq(LedgerEntry)]
        /\ \A v \in Users : Len(ledger[v]) <= Len(ledger'[v])
        /\ \A v \in Users : \A i \in DOMAIN ledger[v] :
              i \in DOMAIN ledger'[v] /\ ledger'[v][i] = ledger[v][i]
        /\ \A v \in Users : \A i \in DOMAIN ledger'[v] :
              i \in DOMAIN ledger[v] \/ (v = u /\ ledger'[v][i] = e)
        /\ \E i \in DOMAIN ledger'[u] : ledger'[u][i] = e
        /\ EntriesDistinct(Memory') /\ BalancesChain(Memory')
        /\ ChargesCovered(Memory')
    <3> HIDE DEF u, pts
    <3> QED BY <2>1, <2>2, <2>4, Booked DEF e
  <2> HIDE DEF e
  <2>7. WellFormed(Memory')
    BY <1>1, <2>1, <2>2, <2>3, <2>5 DEF Books, WellFormed, IsMap, Memory
  <2>8. PaidOrdersCredited(Memory') /\ PaidOrdersTraced(Memory')
    <3>1. SUFFICES ASSUME NEW x \in DOMAIN orders, orders'[x].status = "paid"
                   PROVE  /\ HasEntry(Memory', orders'[x].user, x, "topup", orders'[x].points)
                          /\ orders'[x].tradeNo \in TradeNos
      BY <2>3 DEF PaidOrdersCredited, PaidOrdersTraced, Memory
    <3>2. CASE x = o  BY <2>2, <2>3, <2>5, <2>6, <3>2 DEF HasEntry, Memory
    <3>3. CASE x # o
      <4>1. orders[x].user \in Users
        BY DEF Books, WellFormed, IsMap, TopupOrder, Memory
      <4>2. HasEntry(Memory, orders[x].user, x, "topup", orders[x].points)
        BY <2>3, <3>1, <3>3 DEF Books, PaidOrdersCredited, Memory
      <4>3. HasEntry(Memory', orders[x].user, x, "topup", orders[x].points)
        BY <2>5, <4>1, <4>2 DEF HasEntry, Memory
      <4> QED BY <2>3, <3>1, <3>3, <4>3 DEF Books, PaidOrdersTraced, Memory
    <3> QED BY <3>2, <3>3
  <2>9. EntriesJustified(Memory')
    <3>1. SUFFICES ASSUME NEW v \in Users, NEW i \in DOMAIN ledger'[v]
                   PROVE  \/ IsCredit(Memory', v, ledger'[v][i])
                          \/ IsCharge(Memory', v, ledger'[v][i])
      BY DEF EntriesJustified, Memory
    <3>2. CASE i \in DOMAIN ledger[v]
      <4>1. IsCredit(Memory, v, ledger[v][i]) \/ IsCharge(Memory, v, ledger[v][i])
        BY <3>2 DEF Books, EntriesJustified, Memory
      <4>2. ledger[v][i].order # o  BY <2>4, <3>2
      <4>3. ledger'[v][i] = ledger[v][i]  BY <2>5, <3>2
      <4> QED BY <1>1, <2>3, <4>1, <4>2, <4>3 DEF IsCredit, IsCharge, Memory
    <3>3. CASE v = u /\ ledger'[v][i] = e
      BY <1>1, <2>2, <2>3, <2>6, <3>3 DEF IsCredit, Memory
    <3> QED BY <2>5, <3>2, <3>3
  <2>10. GrantsCharged(Memory')
    <3>1. SUFFICES ASSUME NEW g \in DOMAIN grants
                   PROVE  HasEntry(Memory', grants[g].user, g, "redeem", -Price[grants[g].plan])
      BY <1>1 DEF GrantsCharged, Memory
    <3>2. grants[g].user \in Users  BY DEF Books, WellFormed, IsMap, Grant, Memory
    <3>3. HasEntry(Memory, grants[g].user, g, "redeem", -Price[grants[g].plan])
      BY DEF Books, GrantsCharged, Memory
    <3> QED BY <2>5, <3>2, <3>3 DEF HasEntry, Memory
  <2>11. OwnersVerified(Memory')
    BY <1>1, <2>2, <2>3 DEF Books, OwnersVerified, Memory
  <2>12. Extends(Memory', Memory)
    BY <1>1, <2>2, <2>3, <2>5 DEF Extends, Memory
  <2> QED BY <2>5, <2>7, <2>8, <2>9, <2>10, <2>11, <2>12 DEF Books
<1> QED BY <1>3, <1>4

(* The TRADE_CLOSED branch of syncTopupOrder only touches unpaid orders. *)
LEMMA MarkClosedKeeps ==
    ASSUME Books(Memory), NEW o \in OrderIds, NEW tradeNo \in TradeNos \cup {NoTradeNo},
           NEW saved, MarkClosed(o, tradeNo, saved)
    PROVE  Books(Memory') /\ Extends(Memory', Memory)
<1> DEFINE r == [orders[o] EXCEPT !.status = "failed",
                     !.tradeNo = IF tradeNo = NoTradeNo THEN @ ELSE tradeNo]
<1>1. /\ o \in DOMAIN orders /\ orders[o].status # "paid"
      /\ orders' = [orders EXCEPT ![o] = r]
      /\ UNCHANGED <<verified, ledger, grants>>
  BY DEF MarkClosed, IsPaid
<1>2. orders[o] \in TopupOrder
  BY <1>1 DEF Books, WellFormed, IsMap, Memory
<1>3. /\ r \in TopupOrder /\ r.user = orders[o].user
      /\ r.points = orders[o].points /\ r.status # "paid"
  BY <1>2 DEF TopupOrder
<1> QED BY <1>1, <1>3, OrderUpdated

(* The default branch only touches orders without a trade number: unpaid ones. *)
LEMMA RecordTradeNoKeeps ==
    ASSUME Books(Memory), NEW o \in OrderIds, NEW tradeNo \in TradeNos,
           NEW saved, RecordTradeNo(o, tradeNo, saved)
    PROVE  Books(Memory') /\ Extends(Memory', Memory)
<1> DEFINE r == [orders[o] EXCEPT !.tradeNo = tradeNo]
<1>1. /\ o \in DOMAIN orders /\ orders[o].tradeNo = NoTradeNo
      /\ orders' = [orders EXCEPT ![o] = r]
      /\ UNCHANGED <<verified, ledger, grants>>
  BY DEF RecordTradeNo, NeedsTradeNo
<1>2. orders[o].status # "paid"
  BY <1>1 DEF Books, PaidOrdersTraced, Memory
<1>3. orders[o] \in TopupOrder
  BY <1>1 DEF Books, WellFormed, IsMap, Memory
<1>4. /\ r \in TopupOrder /\ r.user = orders[o].user
      /\ r.points = orders[o].points /\ r.status # "paid"
  BY <1>2, <1>3 DEF TopupOrder
<1> QED BY <1>1, <1>2, <1>4, OrderUpdated

(* Redeem books the charge with the purchase, within the balance. *)
LEMMA RedeemKeeps ==
    ASSUME Books(Memory), NEW u \in Users, NEW p \in Plans, NEW g \in GrantIds,
           NEW saved, Redeem(u, p, g, saved)
    PROVE  Books(Memory') /\ Extends(Memory', Memory)
<1> DEFINE r == [user |-> u, plan |-> p]
           e == Entry(u, g, "redeem", -Price[p])
<1>1. /\ g \notin DOMAIN grants /\ BalanceOf(ledger[u]) >= Price[p]
      /\ grants' = Put(grants, g, r)
      /\ addLedgerEntry(u, g, "redeem", -Price[p])
      /\ verified' = verified /\ orders' = orders
  BY DEF Redeem, CanAfford
<1>2. r \in Grant /\ r.user = u /\ r.plan = p  BY DEF Grant
<1>3. e.order = g /\ e.type = "redeem" /\ e.delta = -Price[p]  BY DEF Entry
<1>4. Price[p] \in 1..(HalfRange - 1) /\ -Price[p] \in Ints  BY DEF Ints
<1>5. Wrap(BalanceOf(ledger[u]) + (-Price[p])) >= 0
  <2>1. BalanceOf(ledger[u]) \in Ints  BY BalanceInInts DEF Books
  <2>2. /\ BalanceOf(ledger[u]) + (-Price[p]) \in Ints
        /\ BalanceOf(ledger[u]) + (-Price[p]) >= 0
    BY <1>1, <1>4, <2>1 DEF Ints
  <2> QED BY <2>2 DEF Wrap
<1>6. \A v \in Users : \A i \in DOMAIN ledger[v] : ledger[v][i].order # g
  <2>1. DOMAIN orders \subseteq OrderIds  BY DEF Books, WellFormed, IsMap, Memory
  <2> QED BY <1>1, <2>1 DEF Books, EntriesJustified, IsCredit, IsCharge, Memory
<1>7. /\ ledger' \in [Users -> Seq(LedgerEntry)]
      /\ \A v \in Users : Len(ledger[v]) <= Len(ledger'[v])
      /\ \A v \in Users : \A i \in DOMAIN ledger[v] :
            i \in DOMAIN ledger'[v] /\ ledger'[v][i] = ledger[v][i]
      /\ \A v \in Users : \A i \in DOMAIN ledger'[v] :
            i \in DOMAIN ledger[v] \/ (v = u /\ ledger'[v][i] = e)
      /\ \E i \in DOMAIN ledger'[u] : ledger'[u][i] = e
      /\ EntriesDistinct(Memory') /\ BalancesChain(Memory')
      /\ ChargesCovered(Memory')
  BY <1>1, <1>4, <1>5, <1>6, Booked DEF e
<1> HIDE DEF r, e
<1>8. IsMap(grants, GrantIds, Grant)  BY DEF Books, WellFormed, Memory
<1>9. /\ IsMap(grants', GrantIds, Grant)
      /\ DOMAIN grants' = DOMAIN grants \cup {g}
      /\ grants'[g] = r
      /\ \A x \in DOMAIN grants : grants'[x] = grants[x]
  <2>1. /\ IsMap(Put(grants, g, r), GrantIds, Grant)
        /\ DOMAIN Put(grants, g, r) = DOMAIN grants \cup {g}
        /\ Put(grants, g, r)[g] = r
        /\ \A x \in DOMAIN grants : x # g => Put(grants, g, r)[x] = grants[x]
    <3>1. r \in Grant  BY <1>2
    <3> QED BY ONLY <1>8, <3>1, PutIsMap, g \in GrantIds
  <2> QED BY <1>1, <2>1
<1>10. WellFormed(Memory')
  BY <1>1, <1>7, <1>9 DEF Books, WellFormed, Memory
<1>11. PaidOrdersCredited(Memory') /\ PaidOrdersTraced(Memory')
  <2>1. SUFFICES ASSUME NEW x \in DOMAIN orders, orders[x].status = "paid"
                 PROVE  /\ HasEntry(Memory', orders[x].user, x, "topup", orders[x].points)
                        /\ orders[x].tradeNo \in TradeNos
    BY <1>1 DEF PaidOrdersCredited, PaidOrdersTraced, Memory
  <2>2. orders[x].user \in Users
    BY DEF Books, WellFormed, IsMap, TopupOrder, Memory
  <2>3. HasEntry(Memory, orders[x].user, x, "topup", orders[x].points)
    BY <2>1 DEF Books, PaidOrdersCredited, Memory
  <2> QED BY <1>7, <2>1, <2>2, <2>3 DEF Books, PaidOrdersTraced, HasEntry, Memory
<1>12. EntriesJustified(Memory')
  <2>1. SUFFICES ASSUME NEW v \in Users, NEW i \in DOMAIN ledger'[v]
                 PROVE  \/ IsCredit(Memory', v, ledger'[v][i])
                        \/ IsCharge(Memory', v, ledger'[v][i])
    BY DEF EntriesJustified, Memory
  <2>2. CASE i \in DOMAIN ledger[v]
    <3>1. IsCredit(Memory, v, ledger[v][i]) \/ IsCharge(Memory, v, ledger[v][i])
      BY <2>2 DEF Books, EntriesJustified, Memory
    <3>2. ledger'[v][i] = ledger[v][i]  BY <1>7, <2>2
    <3> QED BY <1>1, <1>9, <3>1, <3>2 DEF IsCredit, IsCharge, Memory
  <2>3. CASE v = u /\ ledger'[v][i] = e
    BY <1>2, <1>3, <1>9, <2>3 DEF IsCharge, Memory
  <2> QED BY <1>7, <2>2, <2>3
<1>13. GrantsCharged(Memory')
  <2>1. SUFFICES ASSUME NEW x \in DOMAIN grants'
                 PROVE  HasEntry(Memory', grants'[x].user, x, "redeem",
                                 -Price[grants'[x].plan])
    BY DEF GrantsCharged, Memory
  <2>2. CASE x = g  BY <1>2, <1>3, <1>7, <1>9, <2>2 DEF HasEntry, Memory
  <2>3. CASE x \in DOMAIN grants
    <3>1. grants[x].user \in Users  BY <2>3 DEF Books, WellFormed, IsMap, Grant, Memory
    <3>2. HasEntry(Memory, grants[x].user, x, "redeem", -Price[grants[x].plan])
      BY <2>3 DEF Books, GrantsCharged, Memory
    <3> QED BY <1>7, <1>9, <2>3, <3>1, <3>2 DEF HasEntry, Memory
  <2> QED BY <1>9, <2>2, <2>3
<1>14. OwnersVerified(Memory')  BY <1>1 DEF Books, OwnersVerified, Memory
<1>15. Extends(Memory', Memory)
  BY <1>1, <1>7, <1>9 DEF Extends, Memory
<1> QED BY <1>7, <1>10, <1>11, <1>12, <1>13, <1>14, <1>15 DEF Books

-----------------------------------------------------------------------------
(* Books and growth depend on the four maps alone. *)
LEMMA SameBooksHold ==
    ASSUME NEW m, NEW n, SameBooks(m, n), Books(n)
    PROVE  Books(m)
<1>1. /\ m.verified = n.verified /\ m.orders = n.orders
      /\ m.ledger = n.ledger /\ m.grants = n.grants
  BY DEF SameBooks
<1>2. WellFormed(m)  BY <1>1 DEF Books, WellFormed
<1>3. \A u, id, type, delta :
        HasEntry(n, u, id, type, delta) => HasEntry(m, u, id, type, delta)
  BY <1>1 DEF HasEntry
<1>4. PaidOrdersCredited(m) /\ PaidOrdersTraced(m)
  BY <1>1, <1>3 DEF Books, PaidOrdersCredited, PaidOrdersTraced
<1>5. GrantsCharged(m)  BY <1>1, <1>3 DEF Books, GrantsCharged
<1>6. EntriesDistinct(m)  BY <1>1 DEF Books, EntriesDistinct
<1>7. EntriesJustified(m)
  <2>1. \A u, e : /\ IsCredit(n, u, e) => IsCredit(m, u, e)
                  /\ IsCharge(n, u, e) => IsCharge(m, u, e)
    BY <1>1 DEF IsCredit, IsCharge
  <2>2. EntriesJustified(n)  BY DEF Books
  <2>3. SUFFICES ASSUME NEW u \in Users, NEW i \in DOMAIN m.ledger[u]
                 PROVE  IsCredit(m, u, m.ledger[u][i]) \/ IsCharge(m, u, m.ledger[u][i])
    BY DEF EntriesJustified
  <2>4. IsCredit(n, u, n.ledger[u][i]) \/ IsCharge(n, u, n.ledger[u][i])
    BY <1>1, <2>2 DEF EntriesJustified
  <2> QED BY <1>1, <2>1, <2>4
<1>8. BalancesChain(m)  BY <1>1 DEF Books, BalancesChain
<1>9. ChargesCovered(m) /\ OwnersVerified(m)
  BY <1>1 DEF Books, ChargesCovered, OwnersVerified
<1> QED BY <1>2, <1>4, <1>5, <1>6, <1>7, <1>8, <1>9 DEF Books

(* Copies with the same four maps have grown from the same copies. *)
LEMMA SameBooksExtend ==
    ASSUME NEW m, NEW n, SameBooks(m, n), Books(n)
    PROVE  Extends(m, n)
<1>1. \A u \in Users : Len(n.ledger[u]) \in Nat  BY DEF Books, WellFormed
<1> QED BY <1>1 DEF SameBooks, Extends

(* Growth composes: stored before, in memory before, in memory after. *)
LEMMA ExtendsTransitive ==
    ASSUME NEW l, NEW m, NEW n, Books(l), Books(m), Books(n),
           Extends(l, m), Extends(m, n)
    PROVE  Extends(l, n)
<1>1. /\ \A u \in Users : Len(n.ledger[u]) \in Nat /\ DOMAIN n.ledger[u] = 1..Len(n.ledger[u])
      /\ \A u \in Users : Len(m.ledger[u]) \in Nat /\ DOMAIN m.ledger[u] = 1..Len(m.ledger[u])
      /\ \A u \in Users : Len(l.ledger[u]) \in Nat
  BY DEF Books, WellFormed
<1>2. \A u \in Users :
        /\ Len(n.ledger[u]) <= Len(l.ledger[u])
        /\ \A i \in DOMAIN n.ledger[u] : l.ledger[u][i] = n.ledger[u][i]
  <2> SUFFICES ASSUME NEW u \in Users
               PROVE  /\ Len(n.ledger[u]) <= Len(l.ledger[u])
                      /\ \A i \in DOMAIN n.ledger[u] : l.ledger[u][i] = n.ledger[u][i]
    OBVIOUS
  <2>1. /\ Len(n.ledger[u]) <= Len(m.ledger[u])
        /\ \A i \in DOMAIN n.ledger[u] : m.ledger[u][i] = n.ledger[u][i]
    BY DEF Extends
  <2>2. /\ Len(m.ledger[u]) <= Len(l.ledger[u])
        /\ \A i \in DOMAIN m.ledger[u] : l.ledger[u][i] = m.ledger[u][i]
    BY DEF Extends
  <2>3. Len(n.ledger[u]) <= Len(l.ledger[u])
    <3>1. Len(n.ledger[u]) \in Nat /\ Len(m.ledger[u]) \in Nat /\ Len(l.ledger[u]) \in Nat
      BY <1>1
    <3>2. \A i, j, k \in Nat : i <= j /\ j <= k => i <= k
      OBVIOUS
    <3> QED BY <2>1, <2>2, <3>1, <3>2
  <2>4. DOMAIN n.ledger[u] \subseteq DOMAIN m.ledger[u]
    BY <1>1, <2>1
  <2> QED BY <2>1, <2>2, <2>3, <2>4
<1>3. \A o \in DOMAIN n.orders :
        /\ o \in DOMAIN l.orders
        /\ l.orders[o].user = n.orders[o].user
        /\ l.orders[o].points = n.orders[o].points
        /\ n.orders[o].status = "paid" => l.orders[o] = n.orders[o]
  BY DEF Extends
<1>4. /\ n.verified \subseteq l.verified
      /\ \A g \in DOMAIN n.grants : g \in DOMAIN l.grants /\ l.grants[g] = n.grants[g]
  BY DEF Extends
<1> QED BY <1>2, <1>3, <1>4 DEF Extends

(* A save by another component changes nothing in memory. *)
LEMMA SaveByOthersKeeps ==
    ASSUME Books(Memory), NEW saved, SaveByOthers(saved)
    PROVE  Books(Memory') /\ Extends(Memory', Memory)
<1>1. SameBooks(Memory', Memory)  BY DEF SaveByOthers, SameBooks, Memory
<1> QED BY <1>1, SameBooksHold, SameBooksExtend

(* A step is an operation that keeps memory's books and then saves, or a crash. *)
LEMMA StepForms ==
    ASSUME Books(Memory), Next
    PROVE  \/ /\ Books(Memory') /\ Extends(Memory', Memory)
              /\ \E saved \in SaveOutcomes : saveLocked(saved)
           \/ CrashRestart
<1>1. CASE CrashRestart  BY <1>1
<1>2. ASSUME NEW saved \in SaveOutcomes, NEW u \in Users, VerifyEmail(u, saved)
      PROVE  Books(Memory') /\ Extends(Memory', Memory) /\ saveLocked(saved)
  BY <1>2, VerifyEmailKeeps DEF VerifyEmail
<1>3. ASSUME NEW saved \in SaveOutcomes, NEW u \in Users, NEW o \in OrderIds,
             NEW points \in PointInputs, CreateTopup(u, o, points, saved)
      PROVE  Books(Memory') /\ Extends(Memory', Memory) /\ saveLocked(saved)
  BY <1>3, CreateTopupKeeps DEF CreateTopup
<1>4. ASSUME NEW saved \in SaveOutcomes, NEW o \in OrderIds, NEW tradeNo \in TradeNos,
             NEW paid \in BOOLEAN, ConfirmTopup(o, tradeNo, paid, saved)
      PROVE  Books(Memory') /\ Extends(Memory', Memory) /\ saveLocked(saved)
  BY <1>4, ConfirmTopupKeeps DEF ConfirmTopup
<1>5. ASSUME NEW saved \in SaveOutcomes, NEW o \in OrderIds,
             NEW tradeNo \in TradeNos \cup {NoTradeNo}, MarkClosed(o, tradeNo, saved)
      PROVE  Books(Memory') /\ Extends(Memory', Memory) /\ saveLocked(saved)
  BY <1>5, MarkClosedKeeps DEF MarkClosed
<1>6. ASSUME NEW saved \in SaveOutcomes, NEW o \in OrderIds, NEW tradeNo \in TradeNos,
             RecordTradeNo(o, tradeNo, saved)
      PROVE  Books(Memory') /\ Extends(Memory', Memory) /\ saveLocked(saved)
  BY <1>6, RecordTradeNoKeeps DEF RecordTradeNo
<1>7. ASSUME NEW saved \in SaveOutcomes, NEW u \in Users, NEW p \in Plans,
             NEW g \in GrantIds, Redeem(u, p, g, saved)
      PROVE  Books(Memory') /\ Extends(Memory', Memory) /\ saveLocked(saved)
  BY <1>7, RedeemKeeps DEF Redeem
<1>8. ASSUME NEW saved \in SaveOutcomes, SaveByOthers(saved)
      PROVE  Books(Memory') /\ Extends(Memory', Memory) /\ saveLocked(saved)
  BY <1>8, SaveByOthersKeeps DEF SaveByOthers
<1> QED BY <1>1, <1>2, <1>3, <1>4, <1>5, <1>6, <1>7, <1>8 DEF Next

(* NewService starts with empty books, in memory as in what a restart loads. *)
LEMMA BooksInitially == Init => BooksInv
<1> SUFFICES ASSUME Init PROVE BooksInv  OBVIOUS
<1>1. Books(Memory)
  <2>1. /\ verified = {} /\ DOMAIN orders = {} /\ DOMAIN grants = {}
        /\ ledger = [u \in Users |-> <<>>]
    BY DEF Init, EmptyMap
  <2>2. orders \in [{} -> TopupOrder] /\ grants \in [{} -> Grant]
    BY DEF Init, EmptyMap
  <2>3. \A u \in Users : DOMAIN ledger[u] = {}  BY <2>1
  <2>4. ledger \in [Users -> Seq(LedgerEntry)]  BY <2>1
  <2>5. WellFormed(Memory)  BY <2>1, <2>2, <2>4 DEF WellFormed, IsMap, Memory
  <2> QED BY <2>1, <2>3, <2>5
          DEF Books, PaidOrdersCredited, PaidOrdersTraced, EntriesDistinct,
              EntriesJustified, GrantsCharged, BalancesChain, ChargesCovered,
              OwnersVerified, Memory
<1>2. disk = Memory  BY DEF Init
<1>3. SameBooks(Memory, disk)  BY <1>2 DEF SameBooks
<1>4. Books(disk)  BY <1>1, <1>2
<1> QED BY <1>1, <1>3, <1>4, SameBooksExtend DEF BooksInv

(* The snapshot after a step is memory after it, or the one before it, and *)
(* either way what it was and more.                                        *)
LEMMA BooksStep ==
    ASSUME BooksInv, [Next]_vars
    PROVE  BooksInv' /\ Extends(disk', disk)
<1>1. Extends(disk, disk)
  BY SameBooksExtend DEF BooksInv, SameBooks
<1>2. CASE UNCHANGED vars
  <2>1. Memory' = Memory /\ disk' = disk  BY <1>2 DEF vars, Memory
  <2> QED BY <1>1, <2>1 DEF BooksInv
<1>3. CASE CrashRestart
  <2>1. disk' = disk /\ SameBooks(Memory', disk)
    BY <1>3 DEF CrashRestart, SameBooks, Memory
  <2>2. Books(Memory') /\ Extends(Memory', disk)
    BY <2>1, SameBooksHold, SameBooksExtend DEF BooksInv
  <2> QED BY <1>1, <2>1, <2>2 DEF BooksInv
<1>4. ASSUME Books(Memory'), Extends(Memory', Memory),
             NEW saved \in SaveOutcomes, saveLocked(saved)
      PROVE  BooksInv' /\ Extends(disk', disk)
  <2>1. Extends(Memory', disk)
    BY <1>4, ExtendsTransitive DEF BooksInv
  <2>2. CASE disk' = disk
    BY <1>1, <1>4, <2>1, <2>2 DEF BooksInv
  <2>3. CASE disk' = Memory'
    <3>1. SameBooks(Memory', disk') /\ Books(disk')  BY <1>4, <2>3 DEF SameBooks
    <3>2. Extends(Memory', disk')  BY <3>1, SameBooksExtend
    <3> QED BY <1>4, <2>1, <2>3, <3>1, <3>2 DEF BooksInv
  <2> QED BY <1>4, <2>2, <2>3 DEF saveLocked
<1> QED BY <1>2, <1>3, <1>4, StepForms DEF BooksInv

(* The inductive invariant holds in every reachable state. *)
LEMMA BooksAlways == Spec => []BooksInv
<1>1. Init => BooksInv  BY BooksInitially
<1>2. BooksInv /\ [Next]_vars => BooksInv'  BY BooksStep
<1> QED BY <1>1, <1>2, PTL DEF Spec

-----------------------------------------------------------------------------
(* Orders, entries and purchases are well formed in memory and as stored. *)
THEOREM TypeCorrect == Spec => []TypeOK
<1>1. BooksInv => TypeOK  BY DEF BooksInv, Books, TypeOK
<1> QED BY <1>1, BooksAlways, PTL

(* A payment is credited once, for any number of orders, users and reports *)
(* and whatever saves fail: ConfirmTopup.                                  *)
THEOREM PaymentsCreditedOnce == Spec => []PaidExactlyOnce
<1>1. BooksInv => PaidExactlyOnce  BY DEF BooksInv, Books, PaidExactlyOnce
<1> QED BY <1>1, BooksAlways, PTL

(* Ledgers, payments and purchases account for each other: ConfirmTopup, *)
(* Redeem.                                                               *)
THEOREM LedgersJustified == Spec => []NothingUnbooked
<1>1. BooksInv => NothingUnbooked  BY DEF BooksInv, Books, NothingUnbooked
<1> QED BY <1>1, BooksAlways, PTL

(* Each balance is the one before it plus the entry's points, at any integer *)
(* width: addLedgerEntryLocked.                                              *)
THEOREM BalancesSound == Spec => []RunningBalance
<1>1. BooksInv => RunningBalance  BY DEF BooksInv, Books, RunningBalance
<1> QED BY <1>1, BooksAlways, PTL

(* No purchase leaves its buyer below zero, whatever saves fail and however  *)
(* balances wrap: Redeem.                                                    *)
THEOREM NeverOverdrawn == Spec => []NoOverdraft
<1>1. BooksInv => NoOverdraft  BY DEF BooksInv, Books, NoOverdraft
<1> QED BY <1>1, BooksAlways, PTL

(* Orders belong to verified users and are for a positive amount: CreateTopup. *)
THEOREM OrdersOwned == Spec => []OrdersOfVerifiedUsers
<1>1. BooksInv => OrdersOfVerifiedUsers  BY DEF BooksInv, Books, OrdersOfVerifiedUsers
<1> QED BY <1>1, BooksAlways, PTL

(* Memory never contradicts what a restart would load: saveLocked. *)
THEOREM MemoryAhead == Spec => []MemoryExtendsDisk
<1>1. BooksInv => MemoryExtendsDisk  BY DEF BooksInv, MemoryExtendsDisk
<1> QED BY <1>1, BooksAlways, PTL

(* What was stored once stays stored, entry by entry: saveLocked. *)
THEOREM HistoryKept == Spec => StoredHistoryGrows
<1>1. BooksInv /\ [Next]_vars => [Extends(disk', disk)]_vars  BY BooksStep
<1> QED BY <1>1, BooksAlways, PTL DEF Spec, StoredHistoryGrows
=============================================================================
