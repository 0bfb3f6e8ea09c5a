------------------------------- MODULE Wallet -------------------------------
(***************************************************************************)
(* The points wallet of the control plane: top-up orders, the per-user     *)
(* ledger with its running balance, and the purchases made from it, as     *)
(* app.Service keeps them in memory and as its snapshot keeps them in the  *)
(* database.                                                               *)
(*                                                                         *)
(* Every operation here runs from its first check to its save under the    *)
(* write lock s.mu, so each is one action; `saved' is how its save ended.  *)
(***************************************************************************)
EXTENDS Integers, Sequences, Maps

CONSTANTS
    Users,          \* accounts that have registered
    OrderIds,       \* what NewID("topup") can return
    GrantIds,       \* what NewID("redeem") can return
    Plans,
    Price,          \* points a plan costs
    PointInputs,    \* the points a top-up request may ask for
    TradeNos,       \* the gateway's trade numbers
    NoTradeNo,      \* the empty trade number
    HalfRange,      \* 2^(w-1) for the w-bit int that holds points
    SaveOutcomes    \* how saving a snapshot can end

Ints == (-HalfRange)..(HalfRange - 1)

(* "unsure": the snapshot was stored and its acknowledgement was not. *)
AllSaveOutcomes == {"ok", "failed", "unsure"}

ASSUME WalletConstants ==
    /\ HalfRange \in Nat \ {0}
    /\ OrderIds \cap GrantIds = {}
    /\ Price \in [Plans -> 1..(HalfRange - 1)]
    /\ PointInputs \subseteq Ints
    /\ NoTradeNo \notin TradeNos
    /\ SaveOutcomes \subseteq AllSaveOutcomes

VARIABLES
    verified,   \* users whose email is verified
    orders,     \* s.topupOrders
    ledger,     \* s.ledgerEntries
    grants,     \* s.redeemOrders, each with the entitlement it bought
    disk        \* the snapshot that a restart would load

vars == <<verified, orders, ledger, grants, disk>>

TopupOrder ==
    [user : Users, points : Ints, status : {"pending", "paid", "failed"},
     tradeNo : TradeNos \cup {NoTradeNo}]

LedgerEntry ==
    [order : OrderIds \cup GrantIds, type : {"topup", "redeem"},
     delta : Ints, balance : Ints]

Grant == [user : Users, plan : Plans]

Memory == [verified |-> verified, orders |-> orders,
           ledger |-> ledger, grants |-> grants]

-----------------------------------------------------------------------------
(* Mutants of Wrap: a sum of unbounded size, and one cut at the range's ends. *)
WrapUnbounded(n) == n
WrapSaturates(n) ==
    IF n \in Ints THEN n ELSE IF n > 0 THEN HalfRange - 1 ELSE -HalfRange

(* int arithmetic: a sum outside the range wraps around. *)
Wrap(n) ==
    IF n \in Ints THEN n ELSE ((n + HalfRange) % (2 * HalfRange)) - HalfRange

(* Mutant: the ledger read oldest first. *)
BalanceOfOldest(entries) ==
    IF entries = <<>> THEN 0 ELSE entries[1].balance

(* The balance is not stored by itself: it is the one the last entry shows. *)
BalanceOf(entries) ==
    IF entries = <<>> THEN 0 ELSE entries[Len(entries)].balance

Entry(u, id, type, delta) ==
    [order |-> id, type |-> type, delta |-> delta,
     balance |-> Wrap(BalanceOf(ledger[u]) + delta)]

addLedgerEntry(u, id, type, delta) ==
    ledger' = [ledger EXCEPT ![u] = Append(@, Entry(u, id, type, delta))]

(* Mutant: the snapshot is taken before the ledger entry is added. *)
SavesLedgerLate(saved) ==
    disk' = IF saved = "failed" THEN disk ELSE [Memory' EXCEPT !.ledger = ledger]

(* One UPSERT of everything in memory; a failed one leaves the old row. *)
saveLocked(saved) == disk' = IF saved = "failed" THEN disk ELSE Memory'

Init ==
    /\ verified = {}
    /\ orders = EmptyMap
    /\ ledger = [u \in Users |-> <<>>]
    /\ grants = EmptyMap
    /\ disk = Memory

-----------------------------------------------------------------------------
VerifyEmail(u, saved) ==
    /\ verified' = verified \cup {u}
    /\ UNCHANGED <<orders, ledger, grants>>
    /\ saveLocked(saved)

(* Mutant: the buyer's email need not be verified. *)
MayTopupUnverified(u, points) == points > 0 /\ u \in Users

MayTopup(u, points) == points > 0 /\ u \in verified

CreateTopup(u, o, points, saved) ==
    /\ o \notin DOMAIN orders
    /\ MayTopup(u, points)
    /\ orders' = Put(orders, o, [user |-> u, points |-> points,
                                 status |-> "pending", tradeNo |-> NoTradeNo])
    /\ UNCHANGED <<verified, ledger, grants>>
    /\ saveLocked(saved)

(* Mutants of IsPaid: no early return, and one that also takes failed for final. *)
IsPaidNever(o) == FALSE
IsPaidOrFailed(o) == orders[o].status # "pending"

(* The early return that makes a second confirmation harmless. *)
IsPaid(o) == orders[o].status = "paid"

MarkFailed(o) ==
    /\ orders' = [orders EXCEPT ![o].status = "failed"]
    /\ UNCHANGED ledger

CreditOrder(o, tradeNo) ==
    /\ orders' = [orders EXCEPT ![o].status = "paid", ![o].tradeNo = tradeNo]
    /\ addLedgerEntry(orders[o].user, o, "topup", orders[o].points)

(* Mutant: confirmed in memory and never saved. *)
ConfirmTopupUnsaved(o, tradeNo, paid, saved) ==
    /\ o \in DOMAIN orders /\ tradeNo # NoTradeNo /\ ~IsPaid(o)
    /\ IF paid THEN CreditOrder(o, tradeNo) ELSE MarkFailed(o)
    /\ UNCHANGED <<verified, grants, disk>>

(* A notification, the simulator, an administrator or a trade query reports *)
(* the trade: paid or not.  An order that is already paid is left alone and *)
(* nothing is saved.                                                        *)
ConfirmTopup(o, tradeNo, paid, saved) ==
    /\ o \in DOMAIN orders
    /\ tradeNo # NoTradeNo
    /\ ~IsPaid(o)
    /\ IF paid THEN CreditOrder(o, tradeNo) ELSE MarkFailed(o)
    /\ UNCHANGED <<verified, grants>>
    /\ saveLocked(saved)

(* Mutant: the status is not read again under the lock. *)
MarkClosedBlindly(o, tradeNo, saved) ==
    /\ o \in DOMAIN orders
    /\ orders' = [orders EXCEPT ![o].status = "failed"]
    /\ UNCHANGED <<verified, ledger, grants>>
    /\ saveLocked(saved)

(* syncTopupOrder's TRADE_CLOSED branch: the status is read again under the *)
(* lock, and the trade number is taken over when the answer carries one.    *)
MarkClosed(o, tradeNo, saved) ==
    /\ o \in DOMAIN orders
    /\ ~IsPaid(o)
    /\ orders' = [orders EXCEPT ![o].status = "failed",
                      ![o].tradeNo = IF tradeNo = NoTradeNo THEN @ ELSE tradeNo]
    /\ UNCHANGED <<verified, ledger, grants>>
    /\ saveLocked(saved)

NeedsTradeNo(o) == orders[o].tradeNo = NoTradeNo

(* syncTopupOrder's default branch: remember the first trade number seen. *)
RecordTradeNo(o, tradeNo, saved) ==
    /\ o \in DOMAIN orders
    /\ tradeNo # NoTradeNo
    /\ NeedsTradeNo(o)
    /\ orders' = [orders EXCEPT ![o].tradeNo = tradeNo]
    /\ UNCHANGED <<verified, ledger, grants>>
    /\ saveLocked(saved)

(* Mutant: the stored balance is checked in place of the one in memory. *)
CanAffordStored(u, p) == BalanceOf(disk.ledger[u]) >= Price[p]

CanAfford(u, p) == BalanceOf(ledger[u]) >= Price[p]

Redeem(u, p, g, saved) ==
    /\ g \notin DOMAIN grants
    /\ CanAfford(u, p)
    /\ grants' = Put(grants, g, [user |-> u, plan |-> p])
    /\ addLedgerEntry(u, g, "redeem", -Price[p])
    /\ UNCHANGED <<verified, orders>>
    /\ saveLocked(saved)

(* Any other operation of the service saves the whole state, the wallet     *)
(* included, and with it what an earlier save of the wallet's failed to.    *)
SaveByOthers(saved) ==
    /\ UNCHANGED <<verified, orders, ledger, grants>>
    /\ saveLocked(saved)

(* Mutant: applySnapshot forgets the ledger. *)
RestartWithoutLedger ==
    /\ verified' = disk.verified
    /\ orders' = disk.orders
    /\ ledger' = [u \in Users |-> <<>>]
    /\ grants' = disk.grants
    /\ UNCHANGED disk

(* The process dies and NewService applies the stored snapshot. *)
CrashRestart ==
    /\ verified' = disk.verified
    /\ orders' = disk.orders
    /\ ledger' = disk.ledger
    /\ grants' = disk.grants
    /\ UNCHANGED disk

Next ==
    \/ \E saved \in SaveOutcomes :
        \/ \E u \in Users : VerifyEmail(u, saved)
        \/ \E u \in Users, o \in OrderIds, points \in PointInputs :
              CreateTopup(u, o, points, saved)
        \/ \E o \in OrderIds, tradeNo \in TradeNos, paid \in BOOLEAN :
              ConfirmTopup(o, tradeNo, paid, saved)
        \/ \E o \in OrderIds, tradeNo \in TradeNos \cup {NoTradeNo} :
              MarkClosed(o, tradeNo, saved)
        \/ \E o \in OrderIds, tradeNo \in TradeNos :
              RecordTradeNo(o, tradeNo, saved)
        \/ \E u \in Users, p \in Plans, g \in GrantIds : Redeem(u, p, g, saved)
        \/ SaveByOthers(saved)
    \/ CrashRestart

Spec == Init /\ [][Next]_vars

-----------------------------------------------------------------------------
WellFormed(m) ==
    /\ m.verified \subseteq Users
    /\ IsMap(m.orders, OrderIds, TopupOrder)
    /\ m.ledger \in [Users -> Seq(LedgerEntry)]
    /\ IsMap(m.grants, GrantIds, Grant)

(* Memory and the stored snapshot hold well-formed orders, entries and      *)
(* purchases: what app.Service keeps and what applySnapshot puts back.      *)
TypeOK == WellFormed(Memory) /\ WellFormed(disk)

(* What a user was shown or told must survive in the books.  The parts below *)
(* are said of any copy m of them, then of memory and of the snapshot.       *)
HasEntry(m, u, id, type, delta) ==
    \E i \in DOMAIN m.ledger[u] :
        /\ m.ledger[u][i].order = id
        /\ m.ledger[u][i].type = type
        /\ m.ledger[u][i].delta = delta

PaidOrdersCredited(m) ==
    \A o \in DOMAIN m.orders :
        m.orders[o].status = "paid" =>
            HasEntry(m, m.orders[o].user, o, "topup", m.orders[o].points)

PaidOrdersTraced(m) ==
    \A o \in DOMAIN m.orders :
        m.orders[o].status = "paid" => m.orders[o].tradeNo \in TradeNos

GrantsCharged(m) ==
    \A g \in DOMAIN m.grants :
        HasEntry(m, m.grants[g].user, g, "redeem", -Price[m.grants[g].plan])

IsCredit(m, u, e) ==
    /\ e.type = "topup"
    /\ e.order \in DOMAIN m.orders
    /\ m.orders[e.order].user = u
    /\ m.orders[e.order].status = "paid"
    /\ e.delta = m.orders[e.order].points

IsCharge(m, u, e) ==
    /\ e.type = "redeem"
    /\ e.order \in DOMAIN m.grants
    /\ m.grants[e.order].user = u
    /\ e.delta = -Price[m.grants[e.order].plan]

EntriesJustified(m) ==
    \A u \in Users : \A i \in DOMAIN m.ledger[u] :
        IsCredit(m, u, m.ledger[u][i]) \/ IsCharge(m, u, m.ledger[u][i])

EntriesDistinct(m) ==
    \A u, v \in Users : \A i \in DOMAIN m.ledger[u], j \in DOMAIN m.ledger[v] :
        m.ledger[u][i].order = m.ledger[v][j].order => u = v /\ i = j

BalancesChain(m) ==
    \A u \in Users : \A i \in DOMAIN m.ledger[u] :
        m.ledger[u][i].balance =
            Wrap((IF i = 1 THEN 0 ELSE m.ledger[u][i - 1].balance)
                   + m.ledger[u][i].delta)

ChargesCovered(m) ==
    \A u \in Users : \A i \in DOMAIN m.ledger[u] :
        m.ledger[u][i].type = "redeem" => m.ledger[u][i].balance >= 0

OwnersVerified(m) ==
    \A o \in DOMAIN m.orders : m.orders[o].user \in m.verified /\ m.orders[o].points > 0

(* m is what the copy n may have become by operations alone. *)
Extends(m, n) ==
    /\ n.verified \subseteq m.verified
    /\ DOMAIN n.orders \subseteq DOMAIN m.orders
    /\ \A o \in DOMAIN n.orders :
          /\ m.orders[o].user = n.orders[o].user
          /\ m.orders[o].points = n.orders[o].points
          /\ n.orders[o].status = "paid" => m.orders[o] = n.orders[o]
    /\ \A u \in Users : /\ Len(n.ledger[u]) <= Len(m.ledger[u])
                         /\ \A i \in DOMAIN n.ledger[u] : m.ledger[u][i] = n.ledger[u][i]
    /\ DOMAIN n.grants \subseteq DOMAIN m.grants
    /\ \A g \in DOMAIN n.grants : m.grants[g] = n.grants[g]

-----------------------------------------------------------------------------
(* However often and in whatever order payments are confirmed, failed, closed *)
(* or queried, and whatever crashes come between: a paid order names its      *)
(* trade and is credited to its owner with its own points, and no ledger      *)
(* holds a second entry for it (operations.go, ConfirmTopup).                 *)
PaidExactlyOnce ==
    /\ PaidOrdersCredited(Memory) /\ PaidOrdersCredited(disk)
    /\ PaidOrdersTraced(Memory) /\ PaidOrdersTraced(disk)
    /\ EntriesDistinct(Memory) /\ EntriesDistinct(disk)

(* Every entry of a ledger has its paid order or its purchase behind it, of   *)
(* the same user and amount, and every purchase was charged: an entitlement   *)
(* and its charge are never saved, lost or reloaded one without the other     *)
(* (Redeem, addLedgerEntryLocked).                                            *)
NothingUnbooked ==
    /\ EntriesJustified(Memory) /\ EntriesJustified(disk)
    /\ GrantsCharged(Memory) /\ GrantsCharged(disk)

(* The balance an entry shows is the one before it plus its delta, in machine *)
(* arithmetic, also across restarts (addLedgerEntryLocked).                   *)
RunningBalance == BalancesChain(Memory) /\ BalancesChain(disk)

(* No purchase leaves its buyer below zero, even when balances have wrapped   *)
(* around (Redeem's check against the current balance).                       *)
NoOverdraft == ChargesCovered(Memory) /\ ChargesCovered(disk)

(* Only verified users own orders, and for a positive number of points, also  *)
(* in what a restart loads (CreateTopup's checks).                            *)
OrdersOfVerifiedUsers == OwnersVerified(Memory) /\ OwnersVerified(disk)

(* Memory is the stored snapshot plus operations: it holds every entry,       *)
(* purchase and verification a restart would load, in place, and a payment    *)
(* that is stored is unchanged in memory (saveLocked, applySnapshot).         *)
MemoryExtendsDisk == Extends(Memory, disk)

(* What is stored is only ever added to: no save, crash or late payment       *)
(* report drops or rewrites a ledger entry, a purchase or a paid order with   *)
(* its trade number (saveLocked, ConfirmTopup, syncTopupOrder).               *)
StoredHistoryGrows == [][Extends(disk', disk)]_vars
=============================================================================
