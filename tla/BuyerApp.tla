------------------------------ MODULE BuyerApp ------------------------------
(***************************************************************************)
(* The buyer's side of a top-up: the mobile app creates an order, opens    *)
(* the payment, and then polls the server a limited number of times.  Any  *)
(* request that fails ends the whole flow with a message.  Server, gateway *)
(* and everybody else go on beside it, as in Topup.                        *)
(***************************************************************************)
EXTENDS Topup

CONSTANTS
    Buyer,          \* the user of the app
    AppCaller,      \* the app's place among the requests in syncTopupOrder
    PollRetries,    \* config.walletPollRetries
    NoOrder

ASSUME BuyerAppConstants ==
    /\ Buyer \in Users
    /\ AppCaller \in Callers
    /\ PollRetries \in Nat \ {0}
    /\ NoOrder \notin OrderIds

VARIABLE app    \* where handleTopup is, and the orders it said were paid

appVars == <<topupVars, app>>

(* The phases are "ready", "listing" and "reloading" (loadTopupOrders before  *)
(* the payment and in the loop), "paying", "polling", "asked", "paid" (the    *)
(* loop's query was answered with it) and "wallet".                           *)
GoTo(phase) == app' = [app EXCEPT !.phase = phase]

(* The flow is over, with one message or another. *)
Rest == GoTo("ready")

(* Mutant: the turns are not counted. *)
NextTurnUncounted ==
    IF app.polls + 1 < PollRetries THEN GoTo("polling") ELSE Rest

(* One more turn of the loop, or the message that the order is pending. *)
NextTurn ==
    IF app.polls + 1 < PollRetries
    THEN app' = [app EXCEPT !.phase = "polling", !.polls = @ + 1]
    ELSE Rest

AppInit ==
    /\ TopupInit
    /\ app = [phase |-> "ready", order |-> NoOrder, polls |-> 0, reported |-> {}]

-----------------------------------------------------------------------------
(* topup(points): the server creates the order; its answer may be lost. *)
handleTopup(o, points, saved, heard) ==
    /\ app.phase = "ready"
    /\ Checkout(Buyer, o, points, saved)
    /\ IF saved = "ok" /\ heard
       THEN app' = [app EXCEPT !.phase = "listing", !.order = o, !.polls = 0]
       ELSE Rest

(* A read that the flow waits for and whose content it does not use. *)
loadTopupOrders(ok) ==
    /\ app.phase = "listing"
    /\ IF ok THEN GoTo("paying") ELSE Rest
    /\ UNCHANGED topupVars

(* uni.requestPayment calls success or fail, whatever became of the trade. *)
PaymentReturns(ok) ==
    /\ app.phase = "paying"
    /\ IF ok THEN GoTo("polling") ELSE Rest
    /\ UNCHANGED topupVars

(* queryTopupOrder of an order the server holds as paid needs no gateway. *)
QueryPaid ==
    /\ app.phase = "polling"
    /\ app.order \in DOMAIN orders
    /\ IsPaid(app.order)
    /\ GoTo("paid")
    /\ UNCHANGED topupVars

QueryAsks ==
    /\ app.phase = "polling"
    /\ AskGateway(AppCaller, app.order)
    /\ GoTo("asked")

(* The request never reaches the server, or the server does not know it. *)
QueryLost ==
    /\ app.phase = "polling"
    /\ Rest
    /\ UNCHANGED topupVars

(* What syncTopupOrder returns when the gateway's answer has been applied:   *)
(* the order as it then is, or the error of another amount or a failed save. *)
SaveNeeded(o, status) ==
    IF status \in PaidStatuses \cup {"TRADE_CLOSED"} THEN ~IsPaid(o) ELSE NeedsTradeNo(o)

Refused(saved) ==
    LET call == calls[AppCaller]
    IN  \/ call.amount # orders[call.order].points
        \/ SaveNeeded(call.order, call.status) /\ saved # "ok"

QueryAnswered(saved, heard) ==
    /\ app.phase = "asked"
    /\ ApplyAnswer(AppCaller, saved)
    /\ IF Refused(saved) \/ ~heard THEN Rest
       ELSE GoTo(IF orders'[app.order].status = "paid" THEN "paid" ELSE "reloading")

GatewayTrouble ==
    /\ app.phase = "asked"
    /\ QueryFails(AppCaller)
    /\ Rest

(* loadTopupOrders in the loop, and loadWallet once the order is paid. *)
ReloadOrders(ok) ==
    /\ app.phase \in {"reloading", "paid"}
    /\ CASE ~ok -> Rest
         [] ok /\ app.phase = "paid" -> GoTo("wallet")
         [] OTHER -> NextTurn
    /\ UNCHANGED topupVars

loadWallet(ok) ==
    /\ app.phase = "wallet"
    /\ app' = [app EXCEPT !.phase = "ready",
                           !.reported = IF ok THEN @ \cup {app.order} ELSE @]
    /\ UNCHANGED topupVars

(* The server restarts: a request that was in it gets an error. *)
RestartUnderApp ==
    /\ Restart
    /\ IF app.phase = "asked" THEN Rest ELSE UNCHANGED app

-----------------------------------------------------------------------------
AppStep ==
    \/ \E ok \in BOOLEAN : \/ loadTopupOrders(ok)
                           \/ PaymentReturns(ok)
                           \/ ReloadOrders(ok)
                           \/ loadWallet(ok)
    \/ QueryPaid \/ QueryAsks \/ QueryLost
    \/ \E saved \in SaveOutcomes, heard \in BOOLEAN : QueryAnswered(saved, heard)
    \/ GatewayTrouble

(* Everybody but the app: the gateway answers its query among other things. *)
World ==
    /\ \/ \E saved \in SaveOutcomes :
             \/ \E n \in notices, heard \in BOOLEAN : Notify(n, saved, heard)
             \/ \E o \in OrderIds, tradeNo \in TradeNos :
                   \/ AdminConfirmTopup(o, tradeNo, saved)
                   \/ \E paid \in BOOLEAN : CallbackInJSON(o, tradeNo, paid, saved)
             \/ \E c \in Callers \ {AppCaller} : ApplyAnswer(c, saved)
             \/ Others(saved)
       \/ \E o \in OrderIds : \/ BuyerOpens(o)
                              \/ BuyerPays(o)
                              \/ TradeTimesOut(o)
                              \/ TradeFinishes(o)
       \/ \E n \in notices : GiveUp(n)
       \/ \E c \in Callers \ {AppCaller}, o \in OrderIds : AskGateway(c, o)
       \/ \E c \in Callers : GatewayAnswers(c)
       \/ \E c \in Callers \ {AppCaller} : QueryFails(c)
    /\ UNCHANGED app

AppNext ==
    \/ \E o \in OrderIds, points \in PointInputs, saved \in SaveOutcomes, heard \in BOOLEAN :
          handleTopup(o, points, saved, heard)
    \/ AppStep
    \/ World
    \/ RestartUnderApp

AppSpec == AppInit /\ [][AppNext]_appVars

(* The app's own code runs on: each request of it is answered or fails, the  *)
(* payment dialog is closed one way or the other, and the gateway client has *)
(* a timeout.  Nobody need pay, and nothing is assumed of the gateway.       *)
FairAppSpec == AppSpec /\ WF_appVars(AppStep)

-----------------------------------------------------------------------------
(* Orders the app has said are paid, or goes on to say so of. *)
SaidPaid == app.reported \cup (IF app.phase \in {"paid", "wallet"} THEN {app.order} ELSE {})

(* An order of which the app has said that it is "paid and credited" is paid, *)
(* whenever one looks: neither a crash nor anybody's request takes the points *)
(* back (pollTopupOrderStatus over QueryUserTopupOrder).  A save that fails   *)
(* and a restart are enough to break this.                                    *)
ReportedStaysPaid == \A o \in app.reported : o \in DOMAIN orders /\ IsPaid(o)

(* What holds whatever fails: an order of which the app says so is stored as  *)
(* paid, or a save of its credit had failed.  The app may have it from a      *)
(* notification's credit, its own query's, an administrator's or the          *)
(* simulator's, and crashes and lost answers may come between that and the    *)
(* message (pollTopupOrderStatus over QueryUserTopupOrder).                   *)
ReportedIsStoredOrUnsaved == \A o \in SaidPaid : Stored(o) \/ o \in unsaved

(* The flow never hangs: whatever is lost, fails or crashes, the buyer gets a *)
(* last message and can start again (handleTopup, pollTopupOrderStatus).      *)
AppComesToRest == []<>(app.phase = "ready")
=============================================================================
