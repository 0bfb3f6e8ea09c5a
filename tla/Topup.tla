------------------------------- MODULE Topup --------------------------------
(***************************************************************************)
(* Top-ups between three parties: the control plane's wallet, the payment  *)
(* gateway that holds the trade of each order, and whoever asks the server *)
(* to look (the buyer's app, an administrator).  The gateway re-sends a    *)
(* notification until it hears "success"; notifications, answers to trade  *)
(* queries and manual confirmations arrive in any order.                   *)
(***************************************************************************)
EXTENDS Wallet

CONSTANTS
    GatewayNo,      \* the trade number the gateway gives an order's trade
    Callers,        \* requests that may be inside syncTopupOrder at a time
    GivesUp         \* whether the gateway may stop re-sending unheard

PaidStatuses == {"TRADE_SUCCESS", "TRADE_FINISHED"}

(* "unopened": the order string is with the buyer, who has not used it. *)
TradeStatuses == PaidStatuses \cup {"none", "unopened", "WAIT_BUYER_PAY", "TRADE_CLOSED"}

NotifiedStatuses == PaidStatuses \cup {"WAIT_BUYER_PAY", "TRADE_CLOSED"}

ASSUME TopupConstants ==
    /\ GatewayNo \in [OrderIds -> TradeNos]
    /\ GivesUp \in BOOLEAN

VARIABLES
    trades,     \* at the gateway: each order's trade and its amount
    notices,    \* notifications the gateway still has to get through
    settled,    \* orders it was told "success" for after they were paid
    calls,      \* requests inside syncTopupOrder
    (* What happened, for the properties to speak of; no code reads these. *)
    byHand,     \* orders that were credited on a caller's word alone
    unsaved,    \* orders whose credit was followed by a save that failed
    dropped     \* orders of which the gateway gave up a notification

walletVars == <<verified, orders, ledger, grants, disk>>
creditVars == <<walletVars, byHand, unsaved>>
gatewayVars == <<trades, notices, settled, dropped>>
topupVars == <<creditVars, gatewayVars, calls>>

Notice == [order : OrderIds, status : NotifiedStatuses, amount : Ints]

Idle == [phase |-> "idle"]
Asking(o) == [phase |-> "asking", order |-> o]
Answered(o, status, amount) ==
    [phase |-> "answered", order |-> o, status |-> status, amount |-> amount]

TopupInit ==
    /\ Init
    /\ trades = [o \in OrderIds |-> [status |-> "none", amount |-> 0]]
    /\ notices = {}
    /\ settled = {}
    /\ byHand = {} /\ unsaved = {} /\ dropped = {}
    /\ calls = [c \in Callers |-> Idle]

-----------------------------------------------------------------------------
(* Mutant: the order string is handed out before the order is saved. *)
CheckoutUnsaved(u, o, points, saved) ==
    /\ CreateTopup(u, o, points, saved)
    /\ trades' = [trades EXCEPT ![o] = [status |-> "unopened", amount |-> points]]
    /\ UNCHANGED <<notices, settled, dropped, byHand, unsaved, calls>>

(* CreateTopupCheckout hands out an order string only for a saved order. *)
Checkout(u, o, points, saved) ==
    /\ CreateTopup(u, o, points, saved)
    /\ trades' = IF saved = "ok"
                 THEN [trades EXCEPT ![o] = [status |-> "unopened", amount |-> points]]
                 ELSE trades
    /\ UNCHANGED <<notices, settled, dropped, byHand, unsaved, calls>>

(* The gateway moves a trade on and has its seller told. *)
TradeMoves(o, from, to) ==
    /\ trades[o].status = from
    /\ trades' = [trades EXCEPT ![o].status = to]
    /\ notices' = notices \cup {[order |-> o, status |-> to, amount |-> trades[o].amount]}
    /\ UNCHANGED <<creditVars, settled, dropped, calls>>

BuyerOpens(o) == TradeMoves(o, "unopened", "WAIT_BUYER_PAY")
BuyerPays(o) == TradeMoves(o, "WAIT_BUYER_PAY", "TRADE_SUCCESS")
TradeTimesOut(o) == TradeMoves(o, "WAIT_BUYER_PAY", "TRADE_CLOSED")
TradeFinishes(o) == TradeMoves(o, "TRADE_SUCCESS", "TRADE_FINISHED")

GiveUp(n) ==
    /\ GivesUp
    /\ n \in notices
    /\ notices' = notices \ {n}
    /\ dropped' = dropped \cup {n.order}
    /\ UNCHANGED <<creditVars, trades, settled, calls>>

(* What the handler answers: "success" unless the order is unknown, the     *)
(* amount is another, or a save it needed failed.  A paid order needs none. *)
AnswersSuccess(n, saved) ==
    /\ n.order \in DOMAIN orders
    /\ n.amount = orders[n.order].points
    /\ IsPaid(n.order) \/ saved = "ok"

(* A credit is in memory before it is saved, and stays there when that fails. *)
CreditSaved(o, saved) ==
    unsaved' = IF saved = "failed" THEN unsaved \cup {o} ELSE unsaved

(* Mutant: every report of the order counts as a payment. *)
ConfirmAnyStatus(o, tradeNo, paid, saved) ==
    IF IsPaid(o) THEN UNCHANGED <<walletVars, unsaved>>
    ELSE ConfirmTopup(o, tradeNo, TRUE, saved) /\ CreditSaved(o, saved)

(* ConfirmTopup as the callers below reach it: nothing is done or saved for *)
(* an order that is already paid.                                           *)
Confirm(o, tradeNo, paid, saved) ==
    IF IsPaid(o) THEN UNCHANGED <<walletVars, unsaved>>
    ELSE /\ ConfirmTopup(o, tradeNo, paid, saved)
         /\ IF paid THEN CreditSaved(o, saved) ELSE UNCHANGED unsaved

(* A notification arrives; its answer may not (heard).  Any status but the  *)
(* paid ones fails the order, one that only waits for its buyer included.   *)
Notify(n, saved, heard) ==
    /\ n \in notices
    /\ IF n.order \in DOMAIN orders /\ n.amount = orders[n.order].points
       THEN Confirm(n.order, GatewayNo[n.order], n.status \in PaidStatuses, saved)
       ELSE UNCHANGED <<walletVars, unsaved>>
    /\ LET done == heard /\ AnswersSuccess(n, saved)
       IN  /\ notices' = IF done THEN notices \ {n} ELSE notices
           /\ settled' = IF done /\ n.status \in PaidStatuses
                         THEN settled \cup {n.order} ELSE settled
    /\ UNCHANGED <<trades, dropped, byHand, calls>>

(* Somebody but the gateway reports a payment, under a trade number of their *)
(* own choice, that of the order's trade or another's among them.            *)
ConfirmByHand(o, tradeNo, paid, saved) ==
    /\ o \in DOMAIN orders
    /\ Confirm(o, tradeNo, paid, saved)
    /\ byHand' = IF paid /\ ~IsPaid(o) THEN byHand \cup {o} ELSE byHand
    /\ UNCHANGED <<gatewayVars, calls>>

(* The administrator enters the number, or leaves it to be made up. *)
AdminConfirmTopup(o, tradeNo, saved) == ConfirmByHand(o, tradeNo, TRUE, saved)

(* The callback as JSON, which the storefront's simulator sends, says what   *)
(* its caller likes about the status as well.                                *)
CallbackInJSON(o, tradeNo, paid, saved) == ConfirmByHand(o, tradeNo, paid, saved)

-----------------------------------------------------------------------------
(* syncTopupOrder works on a copy of the order taken before the query ...   *)
AskGateway(c, o) ==
    /\ calls[c] = Idle
    /\ o \in DOMAIN orders
    /\ ~IsPaid(o)
    /\ calls' = [calls EXCEPT ![c] = Asking(o)]
    /\ UNCHANGED <<creditVars, gatewayVars>>

(* ... while the gateway answers with the trade as it is at that moment ... *)
GatewayAnswers(c) ==
    /\ calls[c].phase = "asking"
    /\ LET t == trades[calls[c].order]
       IN  /\ t.status \in NotifiedStatuses
           /\ calls' = [calls EXCEPT ![c] = Answered(@.order, t.status, t.amount)]
    /\ UNCHANGED <<creditVars, gatewayVars>>

(* ... or the query fails, or knows no trade, and the request with it. *)
QueryFails(c) ==
    /\ calls[c].phase = "asking"
    /\ calls' = [calls EXCEPT ![c] = Idle]
    /\ UNCHANGED <<creditVars, gatewayVars>>

(* Mutant: a closed trade fails the order on the strength of the old copy. *)
CloseBlindly(o, saved) ==
    /\ orders' = [orders EXCEPT ![o].status = "failed"]
    /\ UNCHANGED <<verified, ledger, grants, unsaved>>
    /\ saveLocked(saved)

(* TRADE_CLOSED: only an order that is still not paid is failed. *)
Close(o, saved) ==
    /\ IF IsPaid(o) THEN UNCHANGED walletVars ELSE MarkClosed(o, GatewayNo[o], saved)
    /\ UNCHANGED unsaved

(* The default branch: the trade number is taken over when there is none. *)
RememberTradeNo(o, saved) ==
    /\ IF NeedsTradeNo(o) THEN RecordTradeNo(o, GatewayNo[o], saved)
       ELSE UNCHANGED walletVars
    /\ UNCHANGED unsaved

(* The answer is applied under the lock, to what the order is by then. *)
ApplyAnswer(c, saved) ==
    /\ calls[c].phase = "answered"
    /\ LET o == calls[c].order
           status == calls[c].status
       IN  IF calls[c].amount # orders[o].points
           THEN UNCHANGED <<walletVars, unsaved>>
           ELSE CASE status \in PaidStatuses -> Confirm(o, GatewayNo[o], TRUE, saved)
                  [] status = "TRADE_CLOSED" -> Close(o, saved)
                  [] OTHER -> RememberTradeNo(o, saved)
    /\ calls' = [calls EXCEPT ![c] = Idle]
    /\ UNCHANGED <<gatewayVars, byHand>>

-----------------------------------------------------------------------------
(* The rest of the service runs, and saves, beside. *)
Others(saved) ==
    /\ \/ \E u \in Users : VerifyEmail(u, saved)
       \/ \E u \in Users, p \in Plans, g \in GrantIds : Redeem(u, p, g, saved)
       \/ SaveByOthers(saved)
    /\ UNCHANGED <<gatewayVars, byHand, unsaved, calls>>

(* A crash takes the requests with it; the gateway keeps its side. *)
Restart ==
    /\ CrashRestart
    /\ calls' = [c \in Callers |-> Idle]
    /\ UNCHANGED <<gatewayVars, byHand, unsaved>>

TopupNext ==
    \/ \E saved \in SaveOutcomes :
        \/ \E u \in Users, o \in OrderIds, points \in PointInputs :
              Checkout(u, o, points, saved)
        \/ \E n \in notices, heard \in BOOLEAN : Notify(n, saved, heard)
        \/ \E o \in OrderIds, tradeNo \in TradeNos :
              \/ AdminConfirmTopup(o, tradeNo, saved)
              \/ \E paid \in BOOLEAN : CallbackInJSON(o, tradeNo, paid, saved)
        \/ \E c \in Callers : ApplyAnswer(c, saved)
        \/ Others(saved)
    \/ \E o \in OrderIds : \/ BuyerOpens(o)
                           \/ BuyerPays(o)
                           \/ TradeTimesOut(o)
                           \/ TradeFinishes(o)
    \/ \E n \in notices : GiveUp(n)
    \/ \E c \in Callers, o \in OrderIds : AskGateway(c, o)
    \/ \E c \in Callers : GatewayAnswers(c) \/ QueryFails(c)
    \/ Restart

TopupSpec == TopupInit /\ [][TopupNext]_topupVars

(* The gateway keeps re-sending what was not heard, and some delivery meets  *)
(* a working database and is heard.  Nobody need open, pay, query or confirm. *)
Fairness ==
    \A o \in OrderIds, status \in PaidStatuses :
        WF_topupVars(\E n \in notices : /\ n.order = o
                                       /\ n.status = status
                                       /\ Notify(n, "ok", TRUE))

FairTopupSpec == TopupSpec /\ Fairness

-----------------------------------------------------------------------------
TradePaid(o) == trades[o].status \in PaidStatuses

Stored(o) == o \in DOMAIN disk.orders /\ disk.orders[o].status = "paid"

(* The gateway has yet to get through that the order is paid. *)
Due(o) == \E n \in notices : n.order = o /\ n.status \in PaidStatuses

CreditsBacked(m) ==
    \A o \in DOMAIN m.orders :
        m.orders[o].status = "paid" =>
            \/ o \in byHand
            \/ /\ m.orders[o].tradeNo = GatewayNo[o]
               /\ TradePaid(o)
               /\ trades[o].amount = m.orders[o].points

(* Points of an order that nobody confirmed by hand are only ever credited    *)
(* for a trade of that order which the gateway holds as paid, of that amount, *)
(* however late or stale a notification or a query's answer is, and whatever  *)
(* numbers others pass off as its trade's (ConfirmTopupNotification,          *)
(* syncTopupOrder).                                                           *)
CreditMatchesTrade == CreditsBacked(Memory) /\ CreditsBacked(disk)

(* Nobody can pay for an order the server could forget: every trade belongs   *)
(* to an order that is stored, of that amount (CreateTopupCheckout).          *)
NoOrphanTrade ==
    \A o \in OrderIds :
        trades[o].status # "none" =>
            o \in DOMAIN disk.orders /\ disk.orders[o].points = trades[o].amount

(* Once the gateway is told "success" for a paid order it will not ask again, *)
(* so by then the credit must be in the database (handleConfirmTopup).        *)
SettledIsStored == \A o \in settled : Stored(o)

(* What remains of that when saves fail: one thing only makes the gateway     *)
(* believe in a credit that is not stored, a failed save of that very credit. *)
(* Lost answers, repeated or reordered notifications, failed saves of other   *)
(* things, refused confirmations and crashes do not (ConfirmTopup under       *)
(* handleConfirmTopup).                                                       *)
SettledIsStoredOrUnsaved == \A o \in settled : Stored(o) \/ o \in unsaved

(* Money taken is never forgotten by both sides: the order is stored as paid, *)
(* or the gateway still has a notification to deliver, unless it gave one up, *)
(* or was told "success" after a save of the credit had failed                *)
(* (handleConfirmTopup).                                                      *)
PaymentOwedOrStored ==
    \A o \in OrderIds :
        TradePaid(o) =>
            Stored(o) \/ Due(o) \/ o \in dropped \/ o \in settled \cap unsaved

(* Between restarts a paid order is never failed, re-opened or renumbered by  *)
(* a report that was sent, or an answer that was fetched, before it was paid  *)
(* (syncTopupOrder's second look under the lock).                             *)
PaidStaysPaid ==
    [][Restart \/ \A o \in DOMAIN orders :
                     IsPaid(o) => o \in DOMAIN orders' /\ orders'[o] = orders[o]]_topupVars

(* A trade that is paid ends up as a stored credit, also when an earlier       *)
(* notification had marked its order failed, the credit was in memory only, or *)
(* the server crashes in between (ConfirmTopup credits a failed order).  What  *)
(* else can become of it is what PaymentOwedOrStored allows: a gateway that    *)
(* gives up, or hears "success" after a save of the credit had failed.         *)
PaymentEventuallyStored ==
    \A o \in OrderIds :
        TradePaid(o) ~> Stored(o) \/ o \in dropped \/ o \in settled \cap unsaved
=============================================================================
