----------------------------- MODULE TopupProofs ----------------------------
(***************************************************************************)
(* Top-ups leave the wallet's books right: whatever the gateway and the    *)
(* callers do, the wallet only sees operations of its own, so everything   *)
(* shown of Wallet holds of Topup as well.  Beyond the books, credits and  *)
(* trades agree, and a payment that is acknowledged to the gateway, or     *)
(* reported to the buyer, is stored unless a save of that very credit had  *)
(* failed.  At the end, likewise, the answers of those who only look at    *)
(* the wallet.                                                             *)
(***************************************************************************)
EXTENDS BuyerApp, WalletView, BookProofs

USE TopupConstants

(* What a step of the top-up system may do to the wallet short of a restart:  *)
(* one of its operations, none of which takes anything back.                  *)
Advances == [Next]_vars /\ Extends(Memory', Memory)

(* A step that leaves the wallet alone advances it trivially. *)
LEMMA IdleAdvances == ASSUME BooksInv, UNCHANGED walletVars PROVE Advances
<1>1. SameBooks(Memory', Memory)  BY DEF walletVars, SameBooks, Memory
<1>2. Extends(Memory', Memory)  BY <1>1, SameBooksExtend DEF BooksInv
<1> QED BY <1>2 DEF walletVars, vars, Advances

(* A confirmation, as its callers reach it, is an operation of the wallet or  *)
(* nothing: an order that is paid is left alone.                              *)
LEMMA ConfirmAdvances ==
    ASSUME BooksInv, NEW o \in DOMAIN orders, NEW tradeNo \in TradeNos,
           NEW paid \in BOOLEAN, NEW saved \in SaveOutcomes,
           Confirm(o, tradeNo, paid, saved)
    PROVE  Advances
<1>1. o \in OrderIds
  BY DEF BooksInv, Books, WellFormed, IsMap, Memory
<1>2. CASE UNCHANGED walletVars  BY <1>2, IdleAdvances
<1>3. CASE ConfirmTopup(o, tradeNo, paid, saved)
  <2>1. [Next]_vars  BY <1>1, <1>3 DEF Next
  <2>2. Extends(Memory', Memory)  BY <1>1, <1>3, ConfirmTopupKeeps DEF BooksInv
  <2> QED BY <2>1, <2>2 DEF Advances
<1> QED BY <1>2, <1>3 DEF Confirm

(* Closing an order, likewise: one that was paid meanwhile is left alone. *)
LEMMA CloseAdvances ==
    ASSUME BooksInv, NEW o \in DOMAIN orders, NEW saved \in SaveOutcomes,
           o \in OrderIds, Close(o, saved)
    PROVE  Advances
<1>1. GatewayNo[o] \in TradeNos  OBVIOUS
<1>2. CASE UNCHANGED walletVars  BY <1>2, IdleAdvances
<1>3. CASE MarkClosed(o, GatewayNo[o], saved)
  <2>1. [Next]_vars  BY <1>1, <1>3 DEF Next
  <2>2. Extends(Memory', Memory)  BY <1>1, <1>3, MarkClosedKeeps DEF BooksInv
  <2> QED BY <2>1, <2>2 DEF Advances
<1> QED BY <1>2, <1>3 DEF Close

(* A notification, whatever it says and whether or not its answer is heard. *)
LEMMA NotifyAdvances ==
    ASSUME BooksInv, NEW n, NEW saved \in SaveOutcomes, NEW heard \in BOOLEAN,
           Notify(n, saved, heard)
    PROVE  Advances
<1>1. CASE UNCHANGED walletVars  BY <1>1, IdleAdvances
<1>2. ASSUME n.order \in DOMAIN orders,
             Confirm(n.order, GatewayNo[n.order], n.status \in PaidStatuses, saved)
      PROVE  Advances
  <2>1. n.order \in OrderIds  BY <1>2 DEF BooksInv, Books, WellFormed, IsMap, Memory
  <2>2. GatewayNo[n.order] \in TradeNos  BY <2>1
  <2>3. (n.status \in PaidStatuses) \in BOOLEAN  OBVIOUS
  <2> QED BY <1>2, <2>2, <2>3, ConfirmAdvances
<1> QED BY <1>1, <1>2 DEF Notify

(* The answer of a trade query, however old the copy it was asked for. *)
LEMMA ApplyAnswerAdvances ==
    ASSUME BooksInv, NEW c \in Callers, NEW saved \in SaveOutcomes,
           ApplyAnswer(c, saved)
    PROVE  Advances
<1> DEFINE o == calls[c].order
<1>1. CASE UNCHANGED walletVars  BY <1>1, IdleAdvances
<1>2. ASSUME o \in DOMAIN orders
      PROVE  o \in OrderIds /\ GatewayNo[o] \in TradeNos
  BY <1>2 DEF BooksInv, Books, WellFormed, IsMap, Memory
<1>3. CASE Confirm(o, GatewayNo[o], TRUE, saved)
  <2>1. CASE UNCHANGED walletVars  BY <1>1, <2>1
  <2>2. CASE ConfirmTopup(o, GatewayNo[o], TRUE, saved)
    <3>1. o \in DOMAIN orders  BY <2>2 DEF ConfirmTopup
    <3> QED BY <1>2, <1>3, <3>1, ConfirmAdvances
  <2> QED BY <1>3, <2>1, <2>2 DEF Confirm
<1>4. CASE Close(o, saved)
  <2>1. CASE UNCHANGED walletVars  BY <1>1, <2>1
  <2>2. CASE MarkClosed(o, GatewayNo[o], saved)
    <3>1. o \in DOMAIN orders  BY <2>2 DEF MarkClosed
    <3> QED BY <1>2, <1>4, <3>1, CloseAdvances
  <2> QED BY <1>4, <2>1, <2>2 DEF Close
<1>5. CASE RememberTradeNo(o, saved) /\ ~UNCHANGED walletVars
  <2>0. RecordTradeNo(o, GatewayNo[o], saved)  BY <1>5 DEF RememberTradeNo
  <2>1. o \in OrderIds /\ GatewayNo[o] \in TradeNos  BY <1>2, <2>0 DEF RecordTradeNo
  <2>2. [Next]_vars  BY <2>0, <2>1 DEF Next
  <2>3. Extends(Memory', Memory)  BY <2>0, <2>1, RecordTradeNoKeeps DEF BooksInv
  <2> QED BY <2>2, <2>3 DEF Advances
<1> QED BY <1>1, <1>3, <1>4, <1>5 DEF ApplyAnswer

(* The rest of the service. *)
LEMMA OthersAdvance ==
    ASSUME BooksInv, NEW saved \in SaveOutcomes, Others(saved)
    PROVE  Advances
<1>1. CASE SaveByOthers(saved)
  <2>1. Extends(Memory', Memory)  BY <1>1, SaveByOthersKeeps DEF BooksInv
  <2> QED BY <1>1, <2>1 DEF Next, Advances
<1>2. ASSUME NEW u \in Users, VerifyEmail(u, saved)  PROVE Advances
  <2>1. Extends(Memory', Memory)  BY <1>2, VerifyEmailKeeps DEF BooksInv
  <2> QED BY <1>2, <2>1 DEF Next, Advances
<1>3. ASSUME NEW u \in Users, NEW p \in Plans, NEW g \in GrantIds, Redeem(u, p, g, saved)
      PROVE  Advances
  <2>1. Extends(Memory', Memory)  BY <1>3, RedeemKeeps DEF BooksInv
  <2> QED BY <1>3, <2>1 DEF Next, Advances
<1> QED BY <1>1, <1>2, <1>3 DEF Others

(* No step of gateway, callers or service does anything to the wallet that is *)
(* not an operation of the wallet's own, and only a restart takes any back.   *)
LEMMA TopupStep ==
    ASSUME BooksInv, [TopupNext]_topupVars
    PROVE  Advances \/ (Restart /\ [Next]_vars)
<1>1. CASE UNCHANGED topupVars
  BY <1>1, IdleAdvances DEF topupVars, creditVars
<1>2. ASSUME NEW saved \in SaveOutcomes, NEW u \in Users, NEW o \in OrderIds,
             NEW points \in PointInputs, Checkout(u, o, points, saved)
      PROVE  Advances
  <2>1. CreateTopup(u, o, points, saved)  BY <1>2 DEF Checkout
  <2>2. Extends(Memory', Memory)  BY <2>1, CreateTopupKeeps DEF BooksInv
  <2> QED BY <2>1, <2>2 DEF Next, Advances
<1>3. ASSUME NEW saved \in SaveOutcomes, NEW n \in notices, NEW heard \in BOOLEAN,
             Notify(n, saved, heard)
      PROVE  Advances
  BY <1>3, NotifyAdvances
<1>4. ASSUME NEW saved \in SaveOutcomes, NEW o \in OrderIds, NEW tradeNo \in TradeNos,
             NEW paid \in BOOLEAN, ConfirmByHand(o, tradeNo, paid, saved)
      PROVE  Advances
  BY <1>4, ConfirmAdvances DEF ConfirmByHand
<1>5. ASSUME NEW saved \in SaveOutcomes, NEW c \in Callers, ApplyAnswer(c, saved)
      PROVE  Advances
  BY <1>5, ApplyAnswerAdvances
<1>6. ASSUME NEW saved \in SaveOutcomes, Others(saved)  PROVE Advances
  BY <1>6, OthersAdvance
<1>7. ASSUME NEW o \in OrderIds,
             BuyerOpens(o) \/ BuyerPays(o) \/ TradeTimesOut(o) \/ TradeFinishes(o)
      PROVE  Advances
  BY <1>7, IdleAdvances
     DEF BuyerOpens, BuyerPays, TradeTimesOut, TradeFinishes, TradeMoves, creditVars
<1>8. ASSUME NEW n \in notices, GiveUp(n)  PROVE Advances
  BY <1>8, IdleAdvances DEF GiveUp, creditVars
<1>9. ASSUME NEW c \in Callers, NEW o \in OrderIds, AskGateway(c, o)  PROVE Advances
  BY <1>9, IdleAdvances DEF AskGateway, creditVars
<1>10. ASSUME NEW c \in Callers, GatewayAnswers(c) \/ QueryFails(c)  PROVE Advances
  BY <1>10, IdleAdvances DEF GatewayAnswers, QueryFails, creditVars
<1>11. CASE Restart  BY <1>11 DEF Restart, Next
<1>12. TRUE \in BOOLEAN  OBVIOUS
<1> QED BY <1>1, <1>2, <1>3, <1>4, <1>5, <1>6, <1>7, <1>8, <1>9, <1>10, <1>11, <1>12
        DEF TopupNext, AdminConfirmTopup, CallbackInJSON

(* The books' invariant, kept by every step of the top-up system. *)
LEMMA TopupBooksAlways == TopupSpec => []BooksInv
<1>1. TopupInit => BooksInv  BY BooksInitially DEF TopupInit
<1>2. BooksInv /\ [TopupNext]_topupVars => BooksInv'
  BY TopupStep, BooksStep DEF Advances
<1> QED BY <1>1, <1>2, PTL DEF TopupSpec

-----------------------------------------------------------------------------
(* Every behaviour of the top-up system is, for the wallet, one of Wallet's:  *)
(* the books' theorems hold whatever arrives twice, late or never             *)
(* (ConfirmTopupNotification, syncTopupOrder, AdminConfirmTopup).             *)
THEOREM TopupImplementsWallet == TopupSpec => Spec
<1>1. TopupInit => Init  BY DEF TopupInit
<1>2. BooksInv /\ [TopupNext]_topupVars => [Next]_vars  BY TopupStep DEF Advances
<1> QED BY <1>1, <1>2, TopupBooksAlways, PTL DEF TopupSpec, Spec

(* So every payment the gateway reports is credited once, however often it is *)
(* reported (ConfirmTopup under ConfirmTopupNotification and syncTopupOrder). *)
THEOREM ReportedPaymentsCreditedOnce == TopupSpec => []PaidExactlyOnce
BY TopupImplementsWallet, PaymentsCreditedOnce, PTL

(* And the account book is kept whatever the gateway says, in any order and   *)
(* any number of times: a balance is always payments less purchases           *)
(* (ConfirmTopupNotification, syncTopupOrder, AdminConfirmTopup).             *)
THEOREM TopupKeepsBook == TopupSpec => ImplementsAccountBook
BY TopupImplementsWallet, BookImplemented

(* A report or an answer from before an order was paid cannot undo it:        *)
(* syncTopupOrder looks at the order again under the lock.                    *)
THEOREM PaidOrdersKept == TopupSpec => PaidStaysPaid
<1>1. ASSUME BooksInv, Advances
      PROVE  \A o \in DOMAIN orders :
                IsPaid(o) => o \in DOMAIN orders' /\ orders'[o] = orders[o]
  BY <1>1 DEF Advances, Extends, Memory, IsPaid
<1>2. BooksInv /\ [TopupNext]_topupVars =>
        [Restart \/ \A o \in DOMAIN orders :
                       IsPaid(o) => o \in DOMAIN orders' /\ orders'[o] = orders[o]]_topupVars
  BY <1>1, TopupStep
<1> QED BY <1>2, TopupBooksAlways, PTL DEF TopupSpec, PaidStaysPaid

-----------------------------------------------------------------------------
(* The row after any step is the row before it or a copy of memory. *)
LEMMA RowForms == ASSUME BooksInv, [Next]_vars  PROVE disk' = disk \/ disk' = Memory'
<1>1. CASE Next
  <2>1. CASE CrashRestart  BY <2>1 DEF CrashRestart
  <2>2. CASE \E saved \in SaveOutcomes : saveLocked(saved)  BY <2>2 DEF saveLocked
  <2> QED BY <1>1, <2>1, <2>2, StepForms DEF BooksInv
<1>2. CASE UNCHANGED vars  BY <1>2 DEF vars
<1> QED BY <1>1, <1>2

(* An order's trade number and points are those of a trade that is paid, *)
(* unless it was credited by hand.                                       *)
Backed(o, order) ==
    \/ o \in byHand
    \/ order.tradeNo = GatewayNo[o] /\ TradePaid(o) /\ trades[o].amount = order.points

(* What a notification or an answer says of the trade has come true and stays so. *)
Truthful(o, status, amount) ==
    /\ o \in OrderIds
    /\ trades[o].status # "none"
    /\ trades[o].amount = amount
    /\ status \in PaidStatuses => TradePaid(o)

TradesTyped == trades \in [OrderIds -> [status : TradeStatuses, amount : Ints]]

CallsTyped ==
    /\ calls = [c \in Callers |-> calls[c]]
    /\ \A c \in Callers : calls[c].phase = "asking" => calls[c].order \in OrderIds

ReportsTrue ==
    /\ \A n \in notices : Truthful(n.order, n.status, n.amount)
    /\ \A c \in Callers :
         calls[c].phase = "answered" =>
             Truthful(calls[c].order, calls[c].status, calls[c].amount)

(* The inductive invariant about trades: beside what is claimed, that every    *)
(* report on its way is true, however late it arrives.                         *)
TradeInv == TradesTyped /\ CallsTyped /\ ReportsTrue /\ NoOrphanTrade /\ CreditMatchesTrade

(* Trades only move on. *)
TradesKept ==
    \A o \in OrderIds :
        trades[o].status # "none" =>
            /\ trades'[o].status # "none"
            /\ trades'[o].amount = trades[o].amount
            /\ TradePaid(o) => TradePaid(o)'

(* What is noted of the past stays noted. *)
NotesKept == byHand \subseteq byHand' /\ unsaved \subseteq unsaved'

(* A trade that is new is of a stored order. *)
NewTradesStored ==
    \A o \in OrderIds :
        trades[o].status = "none" /\ trades'[o].status # "none" =>
            o \in DOMAIN disk'.orders /\ disk'.orders[o].points = trades'[o].amount

(* An order that is paid was so already, or is backed by its trade and its    *)
(* credit stored, or noted as one whose save failed.                          *)
CreditsJustified ==
    \A o \in DOMAIN orders' :
        orders'[o].status = "paid" =>
            \/ o \in DOMAIN orders /\ orders'[o] = orders[o]
            \/ Backed(o, orders[o])' /\ (Stored(o)' \/ o \in unsaved')

(* A step by which no order, or only o, becomes paid. *)
PaysNone ==
    \A x \in DOMAIN orders' :
        orders'[x].status = "paid" => x \in DOMAIN orders /\ orders'[x] = orders[x]
PaysOnly(o, tradeNo, points) ==
    \A x \in DOMAIN orders' :
        orders'[x].status = "paid" =>
            \/ x \in DOMAIN orders /\ orders'[x] = orders[x]
            \/ /\ x = o /\ orders'[x].tradeNo = tradeNo /\ orders'[x].points = points
               /\ Stored(x)' \/ x \in unsaved'

(* Whoever reports the payment, only its own order becomes paid by it. *)
LEMMA ConfirmCredits ==
    ASSUME BooksInv, NEW o \in DOMAIN orders, NEW tradeNo, NEW paid \in BOOLEAN, NEW saved,
           Confirm(o, tradeNo, paid, saved)
    PROVE  /\ PaysOnly(o, tradeNo, orders[o].points)
           /\ paid = FALSE \/ IsPaid(o) => PaysNone
           /\ unsaved \subseteq unsaved'
<1> USE DEF PaysOnly, PaysNone
<1>1. orders \in [DOMAIN orders -> TopupOrder]
  BY DEF BooksInv, Books, WellFormed, IsMap, Memory
<1>2. CASE UNCHANGED <<walletVars, unsaved>>  BY <1>2 DEF walletVars
<1>3. CASE ConfirmTopup(o, tradeNo, paid, saved) /\ paid /\ CreditSaved(o, saved)
  <2>1. orders' = [orders EXCEPT ![o].status = "paid", ![o].tradeNo = tradeNo]
    BY <1>3 DEF ConfirmTopup, CreditOrder
  <2>2. orders[o] \in TopupOrder  BY <1>1
  <2>3. /\ DOMAIN orders' = DOMAIN orders
        /\ \A x \in DOMAIN orders : x # o => orders'[x] = orders[x]
        /\ orders'[o].tradeNo = tradeNo /\ orders'[o].points = orders[o].points
        /\ orders'[o].status = "paid"
    BY <1>1, <2>1, <2>2 DEF TopupOrder
  <2>4. Stored(o)' \/ o \in unsaved'
    BY <1>3, <2>3 DEF ConfirmTopup, saveLocked, CreditSaved, Stored, Memory
  <2>5. ~IsPaid(o) /\ unsaved \subseteq unsaved'  BY <1>3 DEF ConfirmTopup, CreditSaved
  <2> QED BY <1>3, <2>3, <2>4, <2>5
<1>4. CASE ConfirmTopup(o, tradeNo, paid, saved) /\ ~paid /\ UNCHANGED unsaved
  <2>1. orders' = [orders EXCEPT ![o].status = "failed"]
    BY <1>4 DEF ConfirmTopup, MarkFailed
  <2>2. orders[o] \in TopupOrder  BY <1>1
  <2>3. /\ DOMAIN orders' = DOMAIN orders
        /\ \A x \in DOMAIN orders : x # o => orders'[x] = orders[x]
        /\ orders'[o].status = "failed"
    BY <1>1, <2>1, <2>2 DEF TopupOrder
  <2> QED BY <1>4, <2>3
<1> QED BY <1>2, <1>3, <1>4 DEF Confirm

(* Closing an order or noting its trade number pays none. *)
LEMMA OtherAnswersCreditNone ==
    ASSUME BooksInv, NEW o, NEW tradeNo, NEW saved,
           MarkClosed(o, tradeNo, saved) \/ RecordTradeNo(o, tradeNo, saved)
    PROVE  PaysNone
<1> USE DEF PaysNone
<1>1. orders \in [DOMAIN orders -> TopupOrder]
  BY DEF BooksInv, Books, WellFormed, IsMap, Memory
<1>2. \A x \in DOMAIN orders : orders[x].status = "paid" => orders[x].tradeNo # NoTradeNo
  BY WalletConstants DEF BooksInv, Books, PaidOrdersTraced, Memory
<1>3. CASE MarkClosed(o, tradeNo, saved)
  <2>1. /\ DOMAIN orders' = DOMAIN orders
        /\ \A x \in DOMAIN orders : x # o => orders'[x] = orders[x]
        /\ orders'[o].status = "failed"
    BY <1>1, <1>3 DEF MarkClosed, TopupOrder
  <2> QED BY <2>1
<1>4. CASE RecordTradeNo(o, tradeNo, saved)
  <2>1. o \in DOMAIN orders /\ orders[o].status # "paid"
    BY <1>2, <1>4 DEF RecordTradeNo, NeedsTradeNo
  <2>2. /\ DOMAIN orders' = DOMAIN orders
        /\ \A x \in DOMAIN orders : x # o => orders'[x] = orders[x]
        /\ orders'[o].status = orders[o].status
    BY <1>1, <1>4, <2>1 DEF RecordTradeNo, TopupOrder
  <2> QED BY <2>1, <2>2
<1> QED BY <1>3, <1>4

(* What a step of TopupNext keeps, and adds, about trades and reports. *)
TradeStepOK ==
    /\ TradesTyped' /\ CallsTyped' /\ TradesKept /\ NewTradesStored /\ NotesKept
    /\ \A n \in notices' : n \in notices \/ Truthful(n.order, n.status, n.amount)'
    /\ \A c \in Callers :
         calls'[c].phase = "answered" =>
             \/ calls'[c] = calls[c]
             \/ Truthful(calls[c].order, calls[c].status, calls[c].amount)'

(* A step that leaves the gateway's side alone. *)
LEMMA GatewayIdle ==
    ASSUME TradeInv, UNCHANGED trades, notices' \subseteq notices, NotesKept,
           \/ UNCHANGED calls
           \/ \E c \in Callers : calls' = [calls EXCEPT ![c] = Idle]
           \/ calls' = [c \in Callers |-> Idle]
    PROVE  TradeStepOK
<1>1. TradesTyped' /\ TradesKept /\ NewTradesStored
  BY DEF TradeInv, TradesTyped, TradesKept, NewTradesStored, TradePaid
<1>2. /\ calls' = [c \in Callers |-> calls'[c]]
      /\ \A c \in Callers : calls'[c] = calls[c] \/ calls'[c] = Idle
  BY DEF TradeInv, CallsTyped
<1>3. CallsTyped'  BY <1>2 DEF TradeInv, CallsTyped, Idle
<1>4. \A c \in Callers : calls'[c].phase = "answered" => calls'[c] = calls[c]
  BY <1>2 DEF Idle
<1> QED BY <1>1, <1>3, <1>4 DEF TradeStepOK

(* A trade that the gateway moves on, never from a paid status to another. *)
LEMMA MovesKeep ==
    ASSUME TradeInv, NEW o \in OrderIds, NEW from, NEW to \in NotifiedStatuses,
           from # "none", from \in PaidStatuses => to \in PaidStatuses,
           TradeMoves(o, from, to)
    PROVE  TradeStepOK
<1> USE DEF PaidStatuses, NotifiedStatuses, TradeStatuses
<1>1. trades[o] \in [status : TradeStatuses, amount : Ints]
  BY DEF TradeInv, TradesTyped
<1>2. trades' = [trades EXCEPT ![o].status = to]  BY DEF TradeMoves
<1>3. /\ trades'[o] = [trades[o] EXCEPT !.status = to]
      /\ \A x \in OrderIds : x # o => trades'[x] = trades[x]
  BY <1>2 DEF TradeInv, TradesTyped
<1>4. trades'[o].status = to /\ trades'[o].amount = trades[o].amount
  BY <1>1, <1>3
<1>5. TradesTyped'
  <2>1. trades'[o] \in [status : TradeStatuses, amount : Ints]  BY <1>1, <1>3
  <2> QED BY <1>2, <2>1 DEF TradeInv, TradesTyped
<1>6. trades[o].status = from  BY DEF TradeMoves
<1>7. TradesKept  BY <1>3, <1>4, <1>6 DEF TradesKept, TradePaid
<1>8. NewTradesStored  BY <1>3, <1>6 DEF NewTradesStored
<1>9. \A n \in notices' : n \in notices \/ Truthful(n.order, n.status, n.amount)'
  <2>1. notices' = notices \cup {[order |-> o, status |-> to, amount |-> trades[o].amount]}
    BY DEF TradeMoves
  <2>2. ASSUME NEW n, n = [order |-> o, status |-> to, amount |-> trades[o].amount]
        PROVE  Truthful(n.order, n.status, n.amount)'
    <3>1. n.order = o /\ n.status = to /\ n.amount = trades'[o].amount
      BY <1>4, <2>2
    <3> QED BY <1>4, <3>1 DEF Truthful, TradePaid
  <2> QED BY <2>1, <2>2
<1>10. CallsTyped' /\ UNCHANGED calls /\ NotesKept
  BY DEF TradeMoves, TradeInv, CallsTyped, NotesKept, creditVars
<1> QED BY <1>5, <1>7, <1>8, <1>9, <1>10 DEF TradeStepOK

(* A checkout opens a trade only for an order that is new and saved. *)
LEMMA CheckoutKeeps ==
    ASSUME BooksInv, TradeInv, NEW u \in Users, NEW o \in OrderIds, NEW points \in PointInputs,
           NEW saved, Checkout(u, o, points, saved)
    PROVE  TradeStepOK /\ CreditsJustified
<1>1. /\ CreateTopup(u, o, points, saved)
      /\ UNCHANGED <<notices, calls>> /\ NotesKept
  BY DEF Checkout, NotesKept
<1>2. /\ o \notin DOMAIN orders
      /\ orders' = Put(orders, o, [user |-> u, points |-> points,
                                   status |-> "pending", tradeNo |-> NoTradeNo])
      /\ saveLocked(saved)
  BY <1>1 DEF CreateTopup
<1>3. /\ DOMAIN orders' = DOMAIN orders \cup {o}
      /\ \A x \in DOMAIN orders : orders'[x] = orders[x]
      /\ orders'[o].status = "pending" /\ orders'[o].points = points
  BY <1>2 DEF Put
<1>4. CreditsJustified  BY <1>3 DEF CreditsJustified
<1>5. CASE UNCHANGED trades
  BY <1>1, <1>4, <1>5, GatewayIdle
<1>6. CASE /\ saved = "ok"
           /\ trades' = [trades EXCEPT ![o] = [status |-> "unopened", amount |-> points]]
  <2>1. trades[o].status = "none"
    BY <1>2 DEF TradeInv, NoOrphanTrade, BooksInv, Extends, Memory
  <2>2. /\ trades'[o] = [status |-> "unopened", amount |-> points]
        /\ \A x \in OrderIds : x # o => trades'[x] = trades[x]
    BY <1>6 DEF TradeInv, TradesTyped
  <2>3. TradesTyped'
    <3>1. [status |-> "unopened", amount |-> points]
             \in [status : TradeStatuses, amount : Ints]
      BY WalletConstants DEF TradeStatuses
    <3> QED BY <1>6, <3>1 DEF TradeInv, TradesTyped
  <2>4. TradesKept  BY <2>1, <2>2 DEF TradesKept, TradePaid
  <2>5. disk' = Memory'  BY <1>2, <1>6 DEF saveLocked
  <2>6. NewTradesStored  BY <1>3, <2>2, <2>5 DEF NewTradesStored, Memory
  <2>7. CallsTyped'  BY <1>1 DEF TradeInv, CallsTyped
  <2> QED BY <1>1, <1>4, <2>3, <2>4, <2>6, <2>7 DEF TradeStepOK
<1> QED BY <1>5, <1>6 DEF Checkout

(* A notification pays its order only if the trade it is about is paid. *)
LEMMA NotifyKeeps ==
    ASSUME BooksInv, TradeInv, NEW n \in notices, NEW saved, NEW heard, Notify(n, saved, heard)
    PROVE  TradeStepOK /\ CreditsJustified
<1>1. notices' \subseteq notices /\ UNCHANGED <<trades, byHand, calls>>  BY DEF Notify
<1>2. ASSUME unsaved \subseteq unsaved'  PROVE TradeStepOK
  BY <1>1, <1>2, GatewayIdle DEF NotesKept
<1>3. CASE UNCHANGED <<walletVars, unsaved>>
  BY <1>2, <1>3 DEF walletVars, CreditsJustified
<1>4. CASE /\ n.order \in DOMAIN orders /\ n.amount = orders[n.order].points
           /\ Confirm(n.order, GatewayNo[n.order], n.status \in PaidStatuses, saved)
  <2>1. n.status \in PaidStatuses => TradePaid(n.order)' /\ trades'[n.order].amount = n.amount
    BY <1>1 DEF TradeInv, ReportsTrue, Truthful, TradePaid
  <2>2. (n.status \in PaidStatuses) \in BOOLEAN  OBVIOUS
  <2>3. /\ PaysOnly(n.order, GatewayNo[n.order], orders[n.order].points)
        /\ (n.status \in PaidStatuses) = FALSE => PaysNone
        /\ unsaved \subseteq unsaved'
    BY <1>4, <2>2, ConfirmCredits
  <2>4. CASE n.status \in PaidStatuses
    BY <1>2, <1>4, <2>1, <2>3, <2>4 DEF PaysOnly, CreditsJustified, Backed
  <2>5. CASE n.status \notin PaidStatuses
    BY <1>2, <2>3, <2>5 DEF PaysNone, CreditsJustified
  <2> QED BY <2>4, <2>5
<1> QED BY <1>3, <1>4 DEF Notify

(* So does the answer of a trade query, which may be older still. *)
LEMMA ApplyAnswerKeeps ==
    ASSUME BooksInv, TradeInv, NEW c \in Callers, NEW saved, ApplyAnswer(c, saved)
    PROVE  TradeStepOK /\ CreditsJustified
<1> DEFINE o == calls[c].order
<1>1. UNCHANGED <<trades, notices, byHand>> /\ calls' = [calls EXCEPT ![c] = Idle]
  BY DEF ApplyAnswer, gatewayVars
<1>2. ASSUME unsaved \subseteq unsaved'  PROVE TradeStepOK
  BY <1>1, <1>2, GatewayIdle DEF NotesKept
<1>3. CASE UNCHANGED <<walletVars, unsaved>>
  BY <1>2, <1>3 DEF walletVars, CreditsJustified
<1>4. CASE /\ calls[c].amount = orders[o].points /\ calls[c].status \in PaidStatuses
           /\ Confirm(o, GatewayNo[o], TRUE, saved) /\ ~UNCHANGED <<walletVars, unsaved>>
  <2>1. TradePaid(o) /\ trades[o].amount = orders[o].points
    BY <1>4 DEF ApplyAnswer, TradeInv, ReportsTrue, Truthful
  <2>2. o \in DOMAIN orders  BY <1>4 DEF ConfirmTopup, Confirm
  <2>3. TRUE \in BOOLEAN  OBVIOUS
  <2>4. PaysOnly(o, GatewayNo[o], orders[o].points) /\ unsaved \subseteq unsaved'
    BY <1>4, <2>2, <2>3, ConfirmCredits
  <2>5. ASSUME NEW x \in DOMAIN orders', orders'[x].status = "paid"
        PROVE  \/ x \in DOMAIN orders /\ orders'[x] = orders[x]
               \/ Backed(x, orders[x])' /\ (Stored(x)' \/ x \in unsaved')
    <3> HIDE DEF o
    <3> QED BY <1>1, <2>1, <2>4, <2>5 DEF PaysOnly, Backed, TradePaid
  <2> QED BY <1>2, <2>4, <2>5 DEF CreditsJustified
<1>5. CASE /\ MarkClosed(o, GatewayNo[o], saved) \/ RecordTradeNo(o, GatewayNo[o], saved)
           /\ UNCHANGED unsaved
  BY <1>2, <1>5, OtherAnswersCreditNone DEF PaysNone, CreditsJustified
<1> QED BY <1>3, <1>4, <1>5 DEF ApplyAnswer, Close, RememberTradeNo

(* Every step but a restart. *)
LEMMA TradeStepForms ==
    ASSUME BooksInv, TradeInv, TopupNext, ~Restart
    PROVE  TradeStepOK /\ CreditsJustified
<1>1. ASSUME NEW saved \in SaveOutcomes, NEW u \in Users, NEW o \in OrderIds,
             NEW points \in PointInputs, Checkout(u, o, points, saved)
      PROVE  TradeStepOK /\ CreditsJustified
  BY <1>1, CheckoutKeeps
<1>2. ASSUME NEW saved, NEW n \in notices, NEW heard, Notify(n, saved, heard)
      PROVE  TradeStepOK /\ CreditsJustified
  BY <1>2, NotifyKeeps
<1>3. ASSUME NEW saved, NEW o \in OrderIds, NEW tradeNo, NEW paid \in BOOLEAN,
             ConfirmByHand(o, tradeNo, paid, saved)
      PROVE  TradeStepOK /\ CreditsJustified
  <2>1. o \in DOMAIN orders /\ Confirm(o, tradeNo, paid, saved)
    BY <1>3 DEF ConfirmByHand
  <2>2. /\ PaysOnly(o, tradeNo, orders[o].points)
        /\ paid = FALSE \/ IsPaid(o) => PaysNone
        /\ unsaved \subseteq unsaved'
    BY <2>1, ConfirmCredits
  <2>3. byHand \subseteq byHand' /\ UNCHANGED <<trades, notices, calls>>
    BY <1>3 DEF ConfirmByHand, gatewayVars
  <2>4. TradeStepOK  BY <2>2, <2>3, GatewayIdle DEF NotesKept
  <2>5. CASE paid /\ ~IsPaid(o)
    <3>1. o \in byHand'  BY <1>3, <2>5 DEF ConfirmByHand
    <3> QED BY <2>2, <2>4, <3>1 DEF PaysOnly, CreditsJustified, Backed
  <2>6. CASE ~paid \/ IsPaid(o)
    BY <2>2, <2>4, <2>6 DEF PaysNone, CreditsJustified
  <2> QED BY <2>5, <2>6
<1>4. ASSUME NEW saved, NEW c \in Callers, ApplyAnswer(c, saved)
      PROVE  TradeStepOK /\ CreditsJustified
  BY <1>4, ApplyAnswerKeeps
<1>5. ASSUME NEW saved, Others(saved)  PROVE TradeStepOK /\ CreditsJustified
  <2>1. TradeStepOK  BY <1>5, GatewayIdle DEF Others, gatewayVars, NotesKept
  <2>2. orders' = orders
    BY <1>5 DEF Others, VerifyEmail, Redeem, SaveByOthers
  <2> QED BY <2>1, <2>2 DEF CreditsJustified
<1>6. ASSUME NEW o \in OrderIds,
             BuyerOpens(o) \/ BuyerPays(o) \/ TradeTimesOut(o) \/ TradeFinishes(o)
      PROVE  TradeStepOK /\ CreditsJustified
  <2>1. PICK from \in TradeStatuses, to \in NotifiedStatuses :
             /\ from # "none" /\ (from \in PaidStatuses => to \in PaidStatuses)
             /\ TradeMoves(o, from, to)
    BY <1>6 DEF BuyerOpens, BuyerPays, TradeTimesOut, TradeFinishes, NotifiedStatuses,
       TradeStatuses, PaidStatuses
  <2>2. TradeStepOK  BY <2>1, MovesKeep
  <2>3. orders' = orders  BY <2>1 DEF TradeMoves, creditVars, walletVars
  <2> QED BY <2>2, <2>3 DEF CreditsJustified
<1>7. ASSUME NEW n \in notices, GiveUp(n)  PROVE TradeStepOK /\ CreditsJustified
  <2>1. TradeStepOK  BY <1>7, GatewayIdle DEF GiveUp, creditVars, NotesKept
  <2> QED BY <1>7, <2>1 DEF GiveUp, creditVars, walletVars, CreditsJustified
<1>8. ASSUME NEW c \in Callers, NEW o \in OrderIds, AskGateway(c, o)
      PROVE  TradeStepOK /\ CreditsJustified
  <2>1. /\ UNCHANGED <<trades, notices, orders, disk>> /\ NotesKept
        /\ calls' = [calls EXCEPT ![c] = Asking(o)]
    BY <1>8 DEF AskGateway, gatewayVars, creditVars, walletVars, NotesKept
  <2>2. calls' = [x \in Callers |-> IF x = c THEN Asking(o) ELSE calls[x]]
    BY <2>1 DEF TradeInv, CallsTyped
  <2>3. CallsTyped'  BY <2>2 DEF TradeInv, CallsTyped, Asking
  <2>4. TradesTyped' /\ TradesKept /\ NewTradesStored
    BY <2>1 DEF TradeInv, TradesTyped, TradesKept, NewTradesStored, TradePaid
  <2>5. \A x \in Callers : calls'[x].phase = "answered" => calls'[x] = calls[x]
    BY <2>2 DEF Asking
  <2> QED BY <2>1, <2>3, <2>4, <2>5 DEF TradeStepOK, CreditsJustified
<1>9. ASSUME NEW c \in Callers, GatewayAnswers(c)  PROVE TradeStepOK /\ CreditsJustified
  <2>1. PICK o \in OrderIds, status \in NotifiedStatuses, amount \in Ints :
           /\ calls' = [calls EXCEPT ![c] = Answered(o, status, amount)]
           /\ trades[o].status = status /\ trades[o].amount = amount
    <3>1. calls[c].order \in OrderIds  BY <1>9 DEF GatewayAnswers, TradeInv, CallsTyped
    <3>2. trades[calls[c].order] \in [status : TradeStatuses, amount : Ints]
      BY <3>1 DEF TradeInv, TradesTyped
    <3>3. /\ trades[calls[c].order].status \in NotifiedStatuses
          /\ calls' = [calls EXCEPT ![c] = Answered(calls[c].order,
                          trades[calls[c].order].status, trades[calls[c].order].amount)]
      BY <1>9 DEF GatewayAnswers
    <3> QED BY <3>1, <3>2, <3>3
  <2>2. UNCHANGED <<trades, notices, orders, disk>> /\ NotesKept
    BY <1>9 DEF GatewayAnswers, gatewayVars, creditVars, walletVars, NotesKept
  <2>3. Truthful(o, status, amount)'
    BY <2>1, <2>2 DEF Truthful, TradePaid, NotifiedStatuses, PaidStatuses
  <2>4. calls' = [x \in Callers |-> IF x = c THEN Answered(o, status, amount) ELSE calls[x]]
    BY <2>1 DEF TradeInv, CallsTyped
  <2>5. CallsTyped'  BY <2>4 DEF TradeInv, CallsTyped, Answered
  <2>6. TradesTyped' /\ TradesKept /\ NewTradesStored
    BY <2>2 DEF TradeInv, TradesTyped, TradesKept, NewTradesStored, TradePaid
  <2>7. ASSUME NEW x \in Callers, calls'[x].phase = "answered"
        PROVE  \/ calls'[x] = calls[x]
               \/ Truthful(calls[x].order, calls[x].status, calls[x].amount)'
    <3>1. CASE x # c  BY <2>4, <3>1
    <3>2. CASE x = c
      <4>1. calls'[x].order = o /\ calls'[x].status = status /\ calls'[x].amount = amount
        BY <2>4, <3>2 DEF Answered
      <4> QED BY <2>3, <4>1
    <3> QED BY <3>1, <3>2
  <2> QED BY <2>2, <2>5, <2>6, <2>7 DEF TradeStepOK, CreditsJustified
<1>10. ASSUME NEW c \in Callers, QueryFails(c)  PROVE TradeStepOK /\ CreditsJustified
  <2>1. TradeStepOK
    BY <1>10, GatewayIdle DEF QueryFails, gatewayVars, creditVars, NotesKept
  <2> QED BY <1>10, <2>1 DEF QueryFails, creditVars, walletVars, CreditsJustified
<1>11. TRUE \in BOOLEAN  OBVIOUS
<1> QED
  BY <1>1, <1>2, <1>3, <1>4, <1>5, <1>6, <1>7, <1>8, <1>9, <1>10, <1>11
     DEF TopupNext, AdminConfirmTopup, CallbackInJSON

(* An order that was backed stays backed while trades only move on. *)
LEMMA BackedKept ==
    ASSUME TradesKept, NotesKept, NEW o \in OrderIds, NEW order, Backed(o, order)
    PROVE  Backed(o, order)'
<1>1. CASE o \in byHand  BY <1>1 DEF NotesKept, Backed
<1>2. CASE TradePaid(o)
  <2>1. trades[o].status # "none"  BY <1>2 DEF TradePaid, PaidStatuses
  <2> QED BY <1>2, <2>1 DEF TradesKept, NotesKept, Backed
<1> QED BY <1>1, <1>2 DEF Backed

(* Every step keeps the invariant about trades. *)
LEMMA TradeStep ==
    ASSUME BooksInv, TradeInv, [TopupNext]_topupVars  PROVE TradeInv'
<1>1. [Next]_vars  BY TopupStep DEF Advances
<1>2. BooksInv' /\ Extends(disk', disk)  BY <1>1, BooksStep
<1>3. DOMAIN orders \subseteq OrderIds /\ DOMAIN disk.orders \subseteq OrderIds
  BY DEF BooksInv, Books, WellFormed, IsMap, Memory
<1>4. CASE UNCHANGED topupVars \/ Restart
  <2>1. UNCHANGED <<trades, notices, disk, byHand>>
    BY <1>4 DEF topupVars, creditVars, walletVars, Restart, gatewayVars, CrashRestart
  <2>2. TradesTyped' /\ NoOrphanTrade' /\ CreditsBacked(disk)'
    BY <2>1 DEF TradeInv, TradesTyped, NoOrphanTrade, CreditMatchesTrade, CreditsBacked, TradePaid
  <2>3. CreditsBacked(Memory)'
    <3>1. orders' = orders \/ orders' = disk.orders
      BY <1>4 DEF topupVars, creditVars, walletVars, Restart, CrashRestart
    <3> QED BY <2>1, <3>1 DEF TradeInv, CreditMatchesTrade, CreditsBacked, TradePaid, Memory
  <2>4. CallsTyped' /\ ReportsTrue'
    <3>1. calls' = calls \/ calls' = [c \in Callers |-> Idle]
      BY <1>4 DEF topupVars, Restart
    <3> QED
      BY <2>1, <3>1 DEF TradeInv, CallsTyped, ReportsTrue, Truthful, TradePaid, Idle
  <2> QED BY <2>2, <2>3, <2>4 DEF TradeInv, CreditMatchesTrade
<1>5. CASE TopupNext /\ ~Restart
  <2>1. TradeStepOK /\ CreditsJustified  BY <1>5, TradeStepForms
  <2>2. ASSUME NEW o, NEW status, NEW amount, Truthful(o, status, amount)
        PROVE  Truthful(o, status, amount)'
    BY <2>1, <2>2 DEF TradeStepOK, TradesKept, Truthful
  <2>3. ReportsTrue'
    <3>1. \A n \in notices' : Truthful(n.order, n.status, n.amount)'
      <4>1. \A n \in notices : Truthful(n.order, n.status, n.amount)'
        BY <2>2 DEF TradeInv, ReportsTrue
      <4> QED BY <2>1, <4>1 DEF TradeStepOK
    <3>2. ASSUME NEW c \in Callers, calls'[c].phase = "answered"
          PROVE  Truthful(calls[c].order, calls[c].status, calls[c].amount)'
      <4>1. CASE calls'[c] = calls[c]
        <5>1. PICK o, status, amount : /\ o = calls[c].order /\ status = calls[c].status
                                       /\ amount = calls[c].amount
                                       /\ Truthful(o, status, amount)
          BY <3>2, <4>1 DEF TradeInv, ReportsTrue
        <5>2. Truthful(o, status, amount)'  BY <2>2, <5>1
        <5> QED BY <4>1, <5>1, <5>2
      <4> QED BY <2>1, <3>2, <4>1 DEF TradeStepOK
    <3> QED BY <3>1, <3>2 DEF ReportsTrue
  <2>4. NoOrphanTrade'
    <3>1. ASSUME NEW o \in OrderIds, trades'[o].status # "none"
          PROVE  o \in DOMAIN disk'.orders /\ disk'.orders[o].points = trades'[o].amount
      <4>1. CASE trades[o].status # "none"
        BY <1>2, <2>1, <4>1
           DEF TradeStepOK, TradesKept, TradeInv, NoOrphanTrade, Extends
      <4>2. CASE trades[o].status = "none"
        BY <2>1, <3>1, <4>2 DEF TradeStepOK, NewTradesStored
      <4> QED BY <4>1, <4>2
    <3> QED BY <3>1 DEF NoOrphanTrade
  <2>5. \A o \in DOMAIN orders' : orders'[o].status = "paid" => Backed(o, orders[o])'
    <3>1. ASSUME NEW o \in DOMAIN orders', orders'[o].status = "paid",
                 o \in DOMAIN orders, orders'[o] = orders[o]
          PROVE  Backed(o, orders[o])'
      <4>1. PICK order : order = orders[o]  OBVIOUS
      <4>2. o \in OrderIds /\ Backed(o, order)
        BY <1>3, <3>1, <4>1 DEF TradeInv, CreditMatchesTrade, CreditsBacked, Backed, Memory
      <4>3. Backed(o, order)'  BY <2>1, <4>2, BackedKept DEF TradeStepOK
      <4> QED BY <3>1, <4>1, <4>3
    <3> QED BY <2>1, <3>1 DEF CreditsJustified
  <2>6. CreditsBacked(Memory)'
    BY <2>5 DEF CreditsBacked, Backed, Memory
  <2>7. CreditsBacked(disk)'
    <3>1. CASE disk' = Memory'
      BY <2>5, <3>1 DEF CreditsBacked, Backed, Memory
    <3>2. CASE disk' = disk
      <4>1. ASSUME NEW o \in DOMAIN disk.orders, disk.orders[o].status = "paid"
            PROVE  \E order : order = disk.orders[o] /\ Backed(o, order)'
        <5>1. PICK order : order = disk.orders[o]  OBVIOUS
        <5>2. o \in OrderIds /\ Backed(o, order)
          BY <1>3, <4>1, <5>1 DEF TradeInv, CreditMatchesTrade, CreditsBacked, Backed
        <5>3. Backed(o, order)'  BY <2>1, <5>2, BackedKept DEF TradeStepOK
        <5> QED BY <5>1, <5>3
      <4> QED BY <3>2, <4>1 DEF CreditsBacked, Backed
    <3> QED BY <1>1, <3>1, <3>2, RowForms
  <2> QED BY <2>1, <2>3, <2>4, <2>6, <2>7 DEF TradeStepOK, TradeInv, CreditMatchesTrade
<1> QED BY <1>4, <1>5

(* At first there is no trade. *)
LEMMA TradesInitially == TopupInit => TradeInv
<1> SUFFICES ASSUME TopupInit PROVE TradeInv  OBVIOUS
<1>1. /\ \A o \in OrderIds : trades[o] = [status |-> "none", amount |-> 0]
      /\ trades = [o \in OrderIds |-> [status |-> "none", amount |-> 0]]
      /\ notices = {} /\ calls = [c \in Callers |-> Idle]
  BY DEF TopupInit
<1>2. TradesTyped
  <2>1. 0 \in Ints  BY WalletConstants DEF Ints
  <2>2. [status |-> "none", amount |-> 0] \in [status : TradeStatuses, amount : Ints]
    BY <2>1 DEF TradeStatuses
  <2> QED BY <1>1, <2>2 DEF TradesTyped
<1>3. CallsTyped /\ ReportsTrue /\ NoOrphanTrade
  BY <1>1 DEF CallsTyped, ReportsTrue, NoOrphanTrade, Idle
<1>4. CreditMatchesTrade
  <2>1. DOMAIN orders = {} /\ disk = Memory  BY DEF TopupInit, Init, EmptyMap
  <2> QED BY <2>1 DEF CreditMatchesTrade, CreditsBacked, Memory
<1> QED BY <1>2, <1>3, <1>4 DEF TradeInv

(* The invariant about trades holds in every state. *)
LEMMA TradesAlways == TopupSpec => []TradeInv
<1>1. BooksInv /\ TradeInv /\ [TopupNext]_topupVars => TradeInv'  BY TradeStep
<1> QED BY <1>1, TradesInitially, TopupBooksAlways, PTL DEF TopupSpec

(* Points of an order that nobody confirmed by hand are only credited for its  *)
(* own trade, paid and of that amount, however stale a report is and whatever  *)
(* trade numbers others send (ConfirmTopupNotification, syncTopupOrder).       *)
THEOREM CreditsBackedByTrades == TopupSpec => []CreditMatchesTrade
<1>1. TradeInv => CreditMatchesTrade  BY DEF TradeInv
<1> QED BY <1>1, TradesAlways, PTL

(* Nobody can pay for an order that the database does not hold                *)
(* (CreateTopupCheckout).                                                     *)
THEOREM TradesHaveOrders == TopupSpec => []NoOrphanTrade
<1>1. TradeInv => NoOrphanTrade  BY DEF TradeInv
<1> QED BY <1>1, TradesAlways, PTL

-----------------------------------------------------------------------------
(* What is stored as paid stays stored. *)
LEMMA StoredKept ==
    ASSUME BooksInv, [TopupNext]_topupVars, NEW o, Stored(o)  PROVE Stored(o)'
<1>1. Extends(disk', disk)  BY TopupStep, BooksStep DEF Advances
<1> QED BY <1>1 DEF Extends, Stored

(* A payment that is in memory is stored, or noted as one whose save failed. *)
Traced(o) == Stored(o) \/ o \in unsaved
Tracked == \A o \in DOMAIN orders : orders[o].status = "paid" => Traced(o)

(* Such a note, like what is stored, stays. *)
LEMMA TracedKept ==
    ASSUME BooksInv, TradeInv, [TopupNext]_topupVars, NEW o, Traced(o)  PROVE Traced(o)'
<1>1. CASE Stored(o)  BY <1>1, StoredKept DEF Traced
<1>2. CASE UNCHANGED unsaved  BY <1>1, <1>2 DEF Traced
<1>3. CASE TopupNext /\ ~Restart
  BY <1>1, <1>3, TradeStepForms DEF TradeStepOK, NotesKept, Traced
<1> QED BY <1>2, <1>3 DEF Restart, topupVars, creditVars

(* No credit escapes that: each is saved by the step that gives it. *)
LEMMA TrackedStep ==
    ASSUME BooksInv, TradeInv, Tracked, [TopupNext]_topupVars  PROVE Tracked'
<1>1. CASE UNCHANGED topupVars
  BY <1>1 DEF topupVars, creditVars, walletVars, Tracked, Traced, Stored
<1>2. CASE Restart  BY <1>2 DEF Restart, CrashRestart, Tracked, Traced, Stored
<1>3. CASE TopupNext /\ ~Restart
  <2>1. \A o : Traced(o) => Traced(o)'  BY TracedKept
  <2>2. CreditsJustified  BY <1>3, TradeStepForms
  <2> QED BY <2>1, <2>2 DEF CreditsJustified, Tracked, Traced
<1> QED BY <1>1, <1>2, <1>3

(* So in every state. *)
LEMMA TrackedAlways == TopupSpec => []Tracked
<1>1. TopupInit => Tracked  BY DEF TopupInit, Init, EmptyMap, Tracked
<1>2. ASSUME BooksInv, TradeInv, Tracked, [TopupNext]_topupVars  PROVE Tracked'
  BY <1>2, TrackedStep
<1> QED BY <1>1, <1>2, TopupBooksAlways, TradesAlways, PTL DEF TopupSpec

(* A notification of a payment that is answered with success leaves its order *)
(* paid in memory.                                                            *)
LEMMA AnsweredIsPaid ==
    ASSUME BooksInv, NEW n, NEW saved, NEW heard,
           Notify(n, saved, heard), AnswersSuccess(n, saved), n.status \in PaidStatuses
    PROVE  n.order \in DOMAIN orders' /\ orders'[n.order].status = "paid"
<1>1. /\ n.order \in DOMAIN orders
      /\ Confirm(n.order, GatewayNo[n.order], n.status \in PaidStatuses, saved)
  BY DEF Notify, AnswersSuccess
<1>2. orders \in [DOMAIN orders -> TopupOrder]
  BY DEF BooksInv, Books, WellFormed, IsMap, Memory
<1>3. CASE IsPaid(n.order)  BY <1>1, <1>3 DEF Confirm, IsPaid, walletVars
<1>4. CASE ~IsPaid(n.order)
  <2>1. orders' = [orders EXCEPT ![n.order].status = "paid",
                                 ![n.order].tradeNo = GatewayNo[n.order]]
    BY <1>1, <1>4 DEF Confirm, ConfirmTopup, CreditOrder
  <2>2. orders[n.order] \in TopupOrder  BY <1>1, <1>2
  <2> QED BY <1>1, <1>2, <2>1, <2>2 DEF TopupOrder
<1> QED BY <1>3, <1>4

(* What a step does to the notifications that the gateway keeps: a paid one is *)
(* dropped when the gateway gives it up or its order is settled, and an order  *)
(* is settled only when it is paid.                                            *)
LEMMA DeliveryForms ==
    ASSUME BooksInv, [TopupNext]_topupVars
    PROVE  /\ \A n \in notices :
                  n.status \in PaidStatuses =>
                     n \in notices' \/ n.order \in dropped' \cup settled'
           /\ dropped \subseteq dropped' /\ settled \subseteq settled'
           /\ \A o \in settled' :
                  o \in settled \/ (o \in DOMAIN orders' /\ orders'[o].status = "paid")
<1> DEFINE Goal == /\ \A n \in notices :
                         n.status \in PaidStatuses =>
                            n \in notices' \/ n.order \in dropped' \cup settled'
                   /\ dropped \subseteq dropped' /\ settled \subseteq settled'
                   /\ \A o \in settled' :
                         o \in settled \/ (/\ o \in DOMAIN orders'
                                            /\ orders'[o].status = "paid")
<1> SUFFICES Goal  OBVIOUS
<1>1. ASSUME NEW saved, NEW n \in notices, NEW heard, Notify(n, saved, heard)
      PROVE  Goal
  <2>1. heard /\ AnswersSuccess(n, saved) /\ n.status \in PaidStatuses =>
           n.order \in DOMAIN orders' /\ orders'[n.order].status = "paid"
    BY <1>1, AnsweredIsPaid
  <2>2. /\ dropped' = dropped
        /\ settled' = IF heard /\ AnswersSuccess(n, saved) /\ n.status \in PaidStatuses
                      THEN settled \cup {n.order} ELSE settled
        /\ notices' = IF heard /\ AnswersSuccess(n, saved) THEN notices \ {n} ELSE notices
    BY <1>1 DEF Notify
  <2> QED BY <2>1, <2>2
<1>2. CASE notices \subseteq notices' /\ settled' = settled /\ dropped' = dropped
  BY <1>2
<1>3. ASSUME NEW n \in notices, GiveUp(n)  PROVE Goal
  BY <1>3 DEF GiveUp
<1> HIDE DEF Goal
<1>4. ASSUME NEW o, NEW from, NEW to, TradeMoves(o, from, to)  PROVE Goal
  BY <1>2, <1>4 DEF TradeMoves
<1>5. ASSUME NEW o, NEW tradeNo, NEW paid, NEW saved, ConfirmByHand(o, tradeNo, paid, saved)
      PROVE  Goal
  BY <1>2, <1>5 DEF ConfirmByHand, gatewayVars
<1>6. ASSUME NEW u, NEW o, NEW points, NEW saved, Checkout(u, o, points, saved)  PROVE Goal
  BY <1>2, <1>6 DEF Checkout
<1>7. ASSUME NEW c, NEW saved, ApplyAnswer(c, saved)  PROVE Goal
  BY <1>2, <1>7 DEF ApplyAnswer, gatewayVars
<1>8. ASSUME NEW c, \/ \E o : AskGateway(c, o)
                   \/ GatewayAnswers(c) \/ QueryFails(c)
      PROVE  Goal
  BY <1>2, <1>8 DEF AskGateway, GatewayAnswers, QueryFails, gatewayVars
<1>9. CASE Restart \/ (\E saved : Others(saved)) \/ UNCHANGED topupVars
  BY <1>2, <1>9 DEF Restart, Others, topupVars, gatewayVars
<1>10. Goal
  BY <1>1, <1>3, <1>4, <1>5, <1>6, <1>7, <1>8, <1>9 DEF TopupNext, AdminConfirmTopup,
     CallbackInJSON, BuyerOpens, BuyerPays, TradeTimesOut, TradeFinishes
<1> QED BY <1>10

(* A trade becomes paid with a notification on its way. *)
LEMMA PaidIsNotified ==
    ASSUME TradeInv, [TopupNext]_topupVars, NEW o \in OrderIds, TradePaid(o)'
    PROVE  TradePaid(o) \/ Due(o)'
<1> USE DEF Due
<1>1. CASE UNCHANGED trades  BY <1>1 DEF TradePaid
<1>2. ASSUME NEW u, NEW x \in OrderIds, NEW points, NEW saved, Checkout(u, x, points, saved)
      PROVE  TradePaid(o)
  <2>1. CASE o = x /\ ~UNCHANGED trades
    <3>1. trades'[o].status = "unopened"
      BY <1>2, <2>1 DEF Checkout, TradeInv, TradesTyped
    <3> QED BY <3>1 DEF TradePaid, PaidStatuses
  <2>2. CASE o # x \/ UNCHANGED trades
    BY <1>2, <2>2 DEF Checkout, TradePaid, TradeInv, TradesTyped
  <2> QED BY <2>1, <2>2
<1>3. ASSUME NEW x \in OrderIds, NEW from, NEW to, TradeMoves(x, from, to)
      PROVE  TradePaid(o) \/ Due(o)'
  <2>1. trades[x] \in [status : TradeStatuses, amount : Ints]
    BY DEF TradeInv, TradesTyped
  <2>2. trades'[x].status = to
    BY <1>3, <2>1 DEF TradeMoves, TradeInv, TradesTyped
  <2>3. CASE o = x
    <3>1. PICK n \in notices' : n = [order |-> o, status |-> to, amount |-> trades[o].amount]
      BY <1>3, <2>3 DEF TradeMoves
    <3> QED BY <2>2, <2>3, <3>1 DEF TradePaid
  <2>4. CASE o # x  BY <1>3, <2>4 DEF TradeMoves, TradePaid, TradeInv, TradesTyped
  <2> QED BY <2>3, <2>4
<1> QED
  BY <1>1, <1>2, <1>3 DEF TopupNext, topupVars, Notify, AdminConfirmTopup, CallbackInJSON,
     ConfirmByHand, ApplyAnswer, Others, BuyerOpens, BuyerPays, TradeTimesOut,
     TradeFinishes, GiveUp, AskGateway, GatewayAnswers, QueryFails, Restart, gatewayVars

(* What the gateway believes is credited is stored, or a save of that credit   *)
(* had failed.                                                                 *)
SettledTraced == \A o \in settled : Traced(o)

(* A step that settles an order finds it paid, which leaves its trace. *)
LEMMA SettledStep ==
    ASSUME BooksInv, TradeInv, Tracked', SettledTraced, [TopupNext]_topupVars
    PROVE  SettledTraced'
<1>1. \A o : Traced(o) => Traced(o)'  BY TracedKept
<1> QED BY <1>1, DeliveryForms DEF SettledTraced, Tracked

(* So in every state. *)
LEMMA SettledAlways == TopupSpec => []SettledTraced
<1>1. TopupInit => SettledTraced  BY DEF TopupInit, SettledTraced
<1>2. ASSUME BooksInv, TradeInv, Tracked', SettledTraced, [TopupNext]_topupVars
      PROVE  SettledTraced'
  BY <1>2, SettledStep
<1> QED BY <1>1, <1>2, TopupBooksAlways, TradesAlways, TrackedAlways, PTL DEF TopupSpec

(* However saves, answers and the process fail, an order whose payment the     *)
(* gateway need not report again is stored as paid, or a save of its very      *)
(* credit had failed (handleConfirmTopup); finding 1 is the second case.       *)
THEOREM SettledOrdersTraced == TopupSpec => []SettledIsStoredOrUnsaved
<1>1. SettledTraced => SettledIsStoredOrUnsaved
  BY DEF SettledTraced, Traced, SettledIsStoredOrUnsaved
<1> QED BY <1>1, SettledAlways, PTL

(* A payment that is not reported again was settled or given up. *)
Reported == \A o \in OrderIds : TradePaid(o) => Due(o) \/ o \in dropped \cup settled

(* A trade is paid with a notice, which stays until it is given up or settled. *)
LEMMA ReportedAlways == TopupSpec => []Reported
<1>1. TopupInit => Reported  BY DEF TopupInit, Reported, TradePaid, PaidStatuses
<1>2. ASSUME BooksInv, TradeInv, Reported, [TopupNext]_topupVars  PROVE Reported'
  <2>1. ASSUME NEW o \in OrderIds, TradePaid(o)'
        PROVE  Due(o)' \/ o \in dropped' \cup settled'
    <3>1. CASE TradePaid(o) /\ Due(o)
      BY <1>2, <3>1, DeliveryForms DEF Due
    <3>2. CASE TradePaid(o) /\ o \in dropped \cup settled
      BY <1>2, <3>2, DeliveryForms
    <3>3. CASE ~TradePaid(o)  BY <1>2, <2>1, <3>3, PaidIsNotified
    <3> QED BY <1>2, <3>1, <3>2, <3>3 DEF Reported
  <2> QED BY <2>1 DEF Reported
<1> QED BY <1>1, <1>2, TopupBooksAlways, TradesAlways, PTL DEF TopupSpec

(* No payment is forgotten by both sides: it is stored, or due, or given up by *)
(* the gateway, or acknowledged after a save of its credit had failed          *)
(* (handleConfirmTopup).                                                       *)
THEOREM PaymentsNotForgotten == TopupSpec => []PaymentOwedOrStored
<1>1. Reported /\ SettledTraced => PaymentOwedOrStored
  BY DEF Reported, SettledTraced, Traced, PaymentOwedOrStored
<1> QED BY <1>1, ReportedAlways, SettledAlways, PTL

-----------------------------------------------------------------------------
(* What the app does to the system, and others beside it, is what anybody may. *)
LEMMA AppStepForms ==
    ASSUME BooksInv, [AppNext]_appVars  PROVE [TopupNext]_topupVars
<1> USE BuyerAppConstants
<1>1. CASE UNCHANGED topupVars  BY <1>1
<1>2. ASSUME NEW o \in OrderIds, NEW points \in PointInputs, NEW saved \in SaveOutcomes,
             NEW heard, handleTopup(o, points, saved, heard)
      PROVE  TopupNext
  BY <1>2 DEF handleTopup, TopupNext
<1>3. CASE AppStep
  <2>1. CASE QueryAsks
    <3>1. app.order \in OrderIds
      BY <2>1 DEF QueryAsks, AskGateway, BooksInv, Books, WellFormed, IsMap, Memory
    <3> QED BY <2>1, <3>1 DEF QueryAsks, TopupNext
  <2>2. CASE \E saved \in SaveOutcomes, heard \in BOOLEAN : QueryAnswered(saved, heard)
    BY <2>2 DEF QueryAnswered, TopupNext
  <2>3. CASE GatewayTrouble  BY <2>3 DEF GatewayTrouble, TopupNext
  <2> QED
    BY <1>1, <1>3, <2>1, <2>2, <2>3 DEF AppStep, loadTopupOrders, PaymentReturns, ReloadOrders,
       loadWallet, QueryPaid, QueryLost
<1>4. CASE World  BY <1>4 DEF World, TopupNext
<1>5. CASE RestartUnderApp  BY <1>5 DEF RestartUnderApp, TopupNext
<1> QED BY <1>1, <1>2, <1>3, <1>4, <1>5 DEF AppNext, appVars

(* The app only adds a client: server and gateway behave as in Topup          *)
(* (handleTopup, pollTopupOrderStatus).                                       *)
THEOREM AppImplementsTopup == AppSpec => TopupSpec
<1>1. AppInit => TopupInit  BY DEF AppInit
<1>2. ASSUME BooksInv, [AppNext]_appVars  PROVE BooksInv' /\ [TopupNext]_topupVars
  <2>1. [TopupNext]_topupVars  BY <1>2, AppStepForms
  <2> QED BY <1>2, <2>1, TopupStep, BooksStep DEF Advances
<1>3. TopupInit => BooksInv  BY BooksInitially DEF TopupInit
<1> QED BY <1>1, <1>2, <1>3, PTL DEF AppSpec, TopupSpec

(* The app's order is one that the database holds, and what it was told is     *)
(* paid is stored, or noted as a credit whose save failed.                     *)
AppInv ==
    /\ app = [phase |-> app.phase, order |-> app.order, polls |-> app.polls,
              reported |-> app.reported]
    /\ app.phase # "ready" => app.order \in DOMAIN disk.orders
    /\ \A o \in SaidPaid : Traced(o)

(* A step by which the app goes on without having been told of a payment. *)
GoesOn == GoTo("ready") \/ GoTo("polling") \/ GoTo("paying") \/ GoTo("reloading")

(* Every step of the app and of the others keeps that. *)
LEMMA AppStepKeeps ==
    ASSUME BooksInv, BooksInv', TradeInv, Tracked, Tracked', AppInv, [AppNext]_appVars
    PROVE  AppInv'
<1> USE BuyerAppConstants DEF SaidPaid
<1>1. \A o : Traced(o) => Traced(o)'  BY AppStepForms, TracedKept
<1>2. \A o : o \in DOMAIN orders' /\ orders'[o].status = "paid" => Traced(o)'
  BY DEF Tracked
<1>3. DOMAIN disk.orders \subseteq DOMAIN disk'.orders
  BY AppStepForms, TopupStep, BooksStep DEF Advances, Extends
<1>4. DOMAIN disk'.orders \subseteq DOMAIN orders'  BY DEF BooksInv, Extends, Memory
<1>5. CASE UNCHANGED app  BY <1>1, <1>3, <1>5 DEF AppInv
<1>6. ASSUME GoesOn, app.phase # "ready"  PROVE AppInv'
  BY <1>1, <1>3, <1>6 DEF AppInv, GoTo, GoesOn
<1>7. ASSUME Rest  PROVE AppInv'
  BY <1>1, <1>7 DEF AppInv, GoTo, Rest
<1>8. ASSUME NEW o, NEW points, NEW saved, NEW heard, handleTopup(o, points, saved, heard)
      PROVE  AppInv'
  <2>1. CASE saved = "ok"
             /\ app' = [app EXCEPT !.phase = "listing", !.order = o, !.polls = 0]
    <3>1. o \in DOMAIN disk'.orders
      BY <1>8, <2>1 DEF handleTopup, Checkout, CreateTopup, Put, saveLocked, Memory
    <3> QED BY <1>1, <2>1, <3>1 DEF AppInv
  <2> QED BY <1>7, <1>8, <2>1 DEF handleTopup
<1>9. CASE QueryPaid
  <2>1. app'.order = app.order  BY <1>9 DEF QueryPaid, GoTo, AppInv
  <2>2. Traced(app.order)'
    BY <1>2, <1>9, <2>1 DEF QueryPaid, IsPaid, topupVars, creditVars, walletVars
  <2> QED BY <1>1, <1>3, <1>9, <2>2 DEF QueryPaid, GoTo, AppInv
<1>10. CASE QueryAsks
  BY <1>1, <1>3, <1>10 DEF QueryAsks, GoTo, AppInv
<1>11. ASSUME NEW saved, NEW heard, QueryAnswered(saved, heard)  PROVE AppInv'
  <2>1. CASE GoTo("paid") /\ orders'[app.order].status = "paid"
    <3>1. app.order \in DOMAIN orders'
      BY <1>3, <1>4, <1>11 DEF QueryAnswered, AppInv
    <3>2. app'.order = app.order  BY <2>1 DEF GoTo, AppInv
    <3>3. Traced(app.order)'  BY <1>2, <2>1, <3>1, <3>2
    <3> QED BY <1>1, <1>3, <1>11, <2>1, <3>3 DEF QueryAnswered, GoTo, AppInv
  <2> QED BY <1>6, <1>7, <1>11, <2>1 DEF QueryAnswered, GoesOn
<1>12. ASSUME NEW ok, ReloadOrders(ok)  PROVE AppInv'
  <2>1. CASE GoTo("wallet") /\ app.phase = "paid"
    BY <1>1, <1>3, <2>1 DEF GoTo, AppInv
  <2>2. CASE NextTurn
    BY <1>1, <1>3, <1>7, <1>12, <2>2 DEF ReloadOrders, NextTurn, AppInv
  <2> QED BY <1>7, <1>12, <2>1, <2>2 DEF ReloadOrders
<1>13. ASSUME NEW ok, loadWallet(ok)  PROVE AppInv'
  BY <1>1, <1>13 DEF loadWallet, AppInv
<1> QED
  BY <1>5, <1>6, <1>7, <1>8, <1>9, <1>10, <1>11, <1>12, <1>13
     DEF AppNext, AppStep, loadTopupOrders, PaymentReturns, QueryLost, GatewayTrouble, World,
         RestartUnderApp, GoesOn, appVars

(* The invariant of the app and the system it uses. *)
LEMMA AppAlways == AppSpec => []AppInv
<1>1. AppInit => AppInv  BY DEF AppInit, AppInv, SaidPaid
<1>2. ASSUME BooksInv, BooksInv', TradeInv, Tracked, Tracked', AppInv, [AppNext]_appVars
      PROVE  AppInv'
  BY <1>2, AppStepKeeps
<1> QED
  BY <1>1, <1>2, AppImplementsTopup, TopupBooksAlways, TradesAlways, TrackedAlways, PTL DEF AppSpec

(* Whatever is lost, fails or crashes, and however many requests and           *)
(* confirmations there are, the app tells its buyer only of payments that are  *)
(* stored, or of which a save had failed (pollTopupOrderStatus over            *)
(* QueryUserTopupOrder); finding 3 is the second case.                         *)
THEOREM ReportedOrdersTraced == AppSpec => []ReportedIsStoredOrUnsaved
<1>1. AppInv => ReportedIsStoredOrUnsaved
  BY DEF AppInv, Traced, ReportedIsStoredOrUnsaved
<1> QED BY <1>1, AppAlways, PTL

-----------------------------------------------------------------------------
(* A balance that the entries went through, the empty wallet's included. *)
PassedThrough(entries, balance) ==
    balance = 0 \/ \E i \in DOMAIN entries : balance = entries[i].balance

(* Such a balance is the running balance of a prefix, and the other way round. *)
LEMMA PrefixBalances ==
    ASSUME NEW entries \in Seq(LedgerEntry), NEW balance
    PROVE  (\E i \in 0..Len(entries) : balance = BalanceOf(SubSeq(entries, 1, i)))
             <=> PassedThrough(entries, balance)
<1>1. BalanceOf(SubSeq(entries, 1, 0)) = 0  BY DEF BalanceOf
<1>2. ASSUME NEW i \in 1..Len(entries)
      PROVE  BalanceOf(SubSeq(entries, 1, i)) = entries[i].balance
  <2>1. SubSeq(entries, 1, i) \in Seq(LedgerEntry) /\ Len(SubSeq(entries, 1, i)) = i
    OBVIOUS
  <2>2. SubSeq(entries, 1, i) # <<>> /\ SubSeq(entries, 1, i)[i] = entries[i]  BY <2>1
  <2> QED BY <2>1, <2>2 DEF BalanceOf
<1>3. Len(entries) \in Nat /\ DOMAIN entries = 1..Len(entries)  OBVIOUS
<1> QED BY <1>1, <1>2, <1>3 DEF PassedThrough

(* What a balance that is read now shows. *)
LEMMA BalanceRead ==
    ASSUME NEW u \in Users, BooksInv  PROVE PassedThrough(ledger[u], WalletBalance(u))
<1>1. ledger[u] \in Seq(LedgerEntry)  BY DEF BooksInv, Books, WellFormed, Memory
<1> QED BY <1>1 DEF WalletBalance, BalanceOf, PassedThrough

(* Whoever has a ledger entry is verified: the first is not a purchase, which  *)
(* would have left the balance negative, so it is an order of theirs.          *)
LEMMA EntriesOfVerified ==
    ASSUME NEW u \in Users, BooksInv, ledger[u] # <<>>  PROVE u \in verified
<1> DEFINE e == ledger[u][1]
<1>1. /\ ledger[u] \in Seq(LedgerEntry)
      /\ IsMap(grants, GrantIds, Grant)
  BY DEF BooksInv, Books, WellFormed, Memory
<1>2. 1 \in DOMAIN ledger[u]  BY <1>1
<1>3. e.balance = Wrap(0 + e.delta)  BY <1>2 DEF BooksInv, Books, BalancesChain, Memory
<1>4. ~IsCharge(Memory, u, e)
  <2> SUFFICES ASSUME IsCharge(Memory, u, e) PROVE FALSE  OBVIOUS
  <2>1. PICK p \in Plans : e.delta = -Price[p]
    BY <1>1 DEF IsCharge, IsMap, Grant, Memory
  <2>2. Price[p] \in 1..(HalfRange - 1) /\ HalfRange \in Nat  BY WalletConstants
  <2>3. e.balance = -Price[p]  BY <1>3, <2>1, <2>2 DEF Wrap, Ints
  <2>4. e.balance >= 0  BY <1>2 DEF IsCharge, BooksInv, Books, ChargesCovered, Memory
  <2> QED BY <2>2, <2>3, <2>4
<1>5. IsCredit(Memory, u, e)
  BY <1>2, <1>4 DEF BooksInv, Books, EntriesJustified, Memory
<1> QED BY <1>5 DEF IsCredit, BooksInv, Books, OwnersVerified, Memory

(* What each answer says so far is true of the ledgers l and the verified users *)
(* known; a complete one is true by itself.                                     *)
HalfTrue(l, v) == v.user \in Users /\ PassedThrough(l[v.user], v.balance)

AnswerTrue(v) == v.items \in Seq(LedgerEntry) /\ PassedThrough(v.items, v.balance)

PointsTrue(l, known, v) ==
    \A u \in DOMAIN v.balances :
        /\ u \in Users /\ PassedThrough(l[u], v.balances[u])
        /\ v.balances[u] # 0 => u \in known

ViewTrue(l, known, v) ==
    /\ v.kind = "half" => HalfTrue(l, v)
    /\ v.kind = "ledger" => AnswerTrue(v)
    /\ v.kind = "points" => PointsTrue(l, known, v)

ViewInv ==
    /\ views = [r \in Readers |-> views[r]]
    /\ \A r \in Readers : ViewTrue(ledger, verified, views[r])

(* A reader's step that shows something true keeps that. *)
LEMMA ShowKeeps ==
    ASSUME ViewInv, NEW r \in Readers, NEW view, Show(r, view), ViewTrue(ledger, verified, view)
    PROVE  ViewInv'
<1>1. views' = [views EXCEPT ![r] = view] /\ ledger' = ledger /\ verified' = verified
  BY DEF Show, vars
<1> QED BY <1>1 DEF ViewInv

(* Readers change nothing, and a write or a restart is one of the wallet's. *)
LEMMA ViewStepForms == ASSUME [ViewNext]_viewVars  PROVE [Next]_vars
<1>1. CASE Write  BY <1>1 DEF Write, Next
<1>2. ASSUME NEW r \in Readers, NEW u \in Users, LedgerBalance(r, u) \/ PointsBalance(r, u)
      PROVE  UNCHANGED vars
  BY <1>2 DEF LedgerBalance, PointsBalance, Show
<1>3. ASSUME NEW r \in Readers, LedgerItems(r) \/ PointsUsers(r) \/ PointsDone(r)
      PROVE  UNCHANGED vars
  BY <1>3 DEF LedgerItems, PointsUsers, PointsDone, Show
<1>4. CASE RestartUnderReaders  BY <1>4 DEF RestartUnderReaders, Next
<1> QED BY <1>1, <1>2, <1>3, <1>4 DEF ViewNext, viewVars, vars

(* The wallet only grows while it is written, so what was read stays listed. *)
LEMMA WriteKeepsViews ==
    ASSUME BooksInv, ViewInv, Extends(Memory', Memory), BooksInv', UNCHANGED views
    PROVE  ViewInv'
<1>1. \A u \in Users : /\ ledger[u] \in Seq(LedgerEntry) /\ ledger'[u] \in Seq(LedgerEntry)
                       /\ Len(ledger[u]) <= Len(ledger'[u])
                       /\ \A i \in DOMAIN ledger[u] : ledger'[u][i] = ledger[u][i]
  BY DEF BooksInv, Books, WellFormed, Extends, Memory
<1>2. \A u \in Users : DOMAIN ledger[u] \subseteq DOMAIN ledger'[u]  BY <1>1
<1>3. \A b : \A u \in Users : PassedThrough(ledger[u], b) => PassedThrough(ledger'[u], b)
  BY <1>1, <1>2 DEF PassedThrough
<1>4. verified \subseteq verified'  BY DEF Extends, Memory
<1>5. \A v : ViewTrue(ledger, verified, v) => ViewTrue(ledger', verified', v)
  BY <1>3, <1>4 DEF ViewTrue, HalfTrue, PointsTrue
<1> QED BY <1>5 DEF ViewInv

(* A write takes nothing back. *)
LEMMA WriteAdvances == ASSUME BooksInv, Write PROVE Extends(Memory', Memory)
<1>1. PICK saved \in SaveOutcomes :
          \/ \E u \in Users : VerifyEmail(u, saved)
          \/ \E u \in Users, o \in OrderIds, points \in PointInputs :
                CreateTopup(u, o, points, saved)
          \/ \E o \in OrderIds, tradeNo \in TradeNos, paid \in BOOLEAN :
                ConfirmTopup(o, tradeNo, paid, saved)
          \/ \E u \in Users, p \in Plans, g \in GrantIds : Redeem(u, p, g, saved)
  BY DEF Write
<1> QED BY <1>1, VerifyEmailKeeps, CreateTopupKeeps, ConfirmTopupKeeps, RedeemKeeps DEF BooksInv

(* What answers say is kept true by every step of readers and writers. *)
LEMMA ViewStep ==
    ASSUME BooksInv, ViewInv, [ViewNext]_viewVars  PROVE ViewInv'
<1>1. BooksInv'  BY ViewStepForms, BooksStep
<1>2. CASE Write  BY <1>1, <1>2, WriteAdvances, WriteKeepsViews DEF Write
<1>3. ASSUME NEW r \in Readers, NEW u \in Users, LedgerBalance(r, u)  PROVE ViewInv'
  <2>1. ViewTrue(ledger, verified, HalfLedger(u, WalletBalance(u)))
    BY BalanceRead DEF ViewTrue, HalfTrue, HalfLedger
  <2> QED BY <1>3, <2>1, ShowKeeps DEF LedgerBalance
<1>4. ASSUME NEW r \in Readers, LedgerItems(r)  PROVE ViewInv'
  <2> DEFINE u == views[r].user
             b == views[r].balance
  <2>1. u \in Users /\ PassedThrough(ledger[u], b)
    BY <1>4 DEF LedgerItems, ViewInv, ViewTrue, HalfTrue
  <2>2. ledger[u] \in Seq(LedgerEntry)  BY <2>1 DEF BooksInv, Books, WellFormed, Memory
  <2>3. ViewTrue(ledger, verified, LedgerAnswer(u, b, ledger[u]))
    BY <2>1, <2>2 DEF ViewTrue, AnswerTrue, LedgerAnswer
  <2> QED BY <1>4, <2>3, ShowKeeps DEF LedgerItems, ListWalletLedger
<1>5. ASSUME NEW r \in Readers, PointsUsers(r)  PROVE ViewInv'
  <2>1. ViewTrue(ledger, verified, Points(EmptyMap))  BY DEF ViewTrue, PointsTrue, Points, EmptyMap
  <2> QED BY <1>5, <2>1, ShowKeeps DEF PointsUsers
<1>6. ASSUME NEW r \in Readers, NEW u \in Users, PointsBalance(r, u)  PROVE ViewInv'
  <2> DEFINE b == WalletBalance(u)
             view == [views[r] EXCEPT !.balances = Put(views[r].balances, u, b)]
  <2>1. PointsTrue(ledger, verified, views[r]) /\ views[r].kind = "points"
    BY <1>6 DEF PointsBalance, ViewInv, ViewTrue
  <2>2. PassedThrough(ledger[u], b)  BY BalanceRead
  <2>3. b # 0 => u \in verified  BY EntriesOfVerified DEF WalletBalance, BalanceOf
  <2>4. ViewTrue(ledger, verified, view)
    BY <2>1, <2>2, <2>3 DEF ViewTrue, PointsTrue, Put
  <2> QED BY <1>6, <2>4, ShowKeeps DEF PointsBalance
<1>7. ASSUME NEW r \in Readers, PointsDone(r)  PROVE ViewInv'
  <2>1. ViewTrue(ledger, verified, NoView)  BY DEF ViewTrue, NoView
  <2> QED BY <1>7, <2>1, ShowKeeps DEF PointsDone
<1>8. CASE RestartUnderReaders
  <2>1. views' = [r \in Readers |->
                    IF views[r].kind \in {"half", "points"} THEN NoView ELSE views[r]]
    BY <1>8 DEF RestartUnderReaders
  <2>2. ASSUME NEW r \in Readers  PROVE ViewTrue(ledger', verified', views'[r])
    <3>1. CASE views[r].kind \in {"half", "points"}
      <4>1. views'[r] = NoView  BY <2>1, <3>1
      <4> QED BY <4>1 DEF ViewTrue, NoView
    <3>2. CASE views[r].kind \notin {"half", "points"}
      <4>1. views'[r] = views[r]  BY <2>1, <3>2
      <4> QED BY <3>2, <4>1 DEF ViewInv, ViewTrue
    <3> QED BY <3>1, <3>2
  <2>3. views' = [r \in Readers |-> views'[r]]  BY <2>1
  <2> QED BY <2>2, <2>3 DEF ViewInv
<1>9. CASE UNCHANGED viewVars
  BY <1>9 DEF viewVars, ViewInv
<1> QED BY <1>2, <1>3, <1>4, <1>5, <1>6, <1>7, <1>8, <1>9 DEF ViewNext

(* Whoever looks at the wallet does not disturb it (handleWalletLedger,        *)
(* handleAdminPoints): what is shown of Wallet holds beside any readers.       *)
THEOREM ViewsImplementWallet == ViewSpec => Spec
<1>1. ViewInit => Init  BY DEF ViewInit
<1>2. [ViewNext]_viewVars => [Next]_vars  BY ViewStepForms
<1> QED BY <1>1, <1>2, PTL DEF ViewSpec, Spec

(* The invariant of the answers. *)
LEMMA ViewsAlways == ViewSpec => [](BooksInv /\ ViewInv)
<1>1. ViewInit => ViewInv  BY DEF ViewInit, ViewInv, ViewTrue, NoView
<1>2. BooksInv /\ ViewInv /\ [ViewNext]_viewVars => ViewInv'  BY ViewStep
<1> QED BY <1>1, <1>2, ViewsImplementWallet, BooksAlways, PTL DEF ViewSpec

(* An answer put together under two locks belongs to one ledger, for any      *)
(* number of readers, users and orders (handleWalletLedger).                  *)
THEOREM LedgerAnswersConsistent == ViewSpec => []LedgerAnswerConsistent
<1>1. BooksInv /\ ViewInv => LedgerAnswerConsistent
  BY PrefixBalances DEF ViewInv, ViewTrue, AnswerTrue, LedgerAnswerConsistent
<1> QED BY <1>1, ViewsAlways, PTL

(* So does each balance of an overview, and only verified users have points   *)
(* (handleAdminPoints).                                                       *)
THEOREM OverviewsHeld == ViewSpec => []OverviewHeld
<1>1. ASSUME BooksInv, ViewInv  PROVE OverviewHeld
  <2> SUFFICES ASSUME NEW r \in Readers, views[r].kind = "points",
                      NEW u \in DOMAIN views[r].balances
               PROVE  /\ \E entries \in Prefixes(u) : views[r].balances[u] = BalanceOf(entries)
                      /\ views[r].balances[u] # 0 => u \in verified
    BY DEF OverviewHeld
  <2>1. /\ u \in Users /\ PassedThrough(ledger[u], views[r].balances[u])
        /\ views[r].balances[u] # 0 => u \in verified
    BY <1>1 DEF ViewInv, ViewTrue, PointsTrue
  <2>2. ledger[u] \in Seq(LedgerEntry)
    BY <1>1, <2>1 DEF BooksInv, Books, WellFormed, Memory
  <2>3. \E i \in 0..Len(ledger[u]) :
           views[r].balances[u] = BalanceOf(SubSeq(ledger[u], 1, i))
    BY <2>1, <2>2, PrefixBalances
  <2> QED BY <2>1, <2>3 DEF Prefixes
<1> QED BY <1>1, ViewsAlways, PTL
=============================================================================
