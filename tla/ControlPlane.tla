---------------------------- MODULE ControlPlane ----------------------------
(***************************************************************************)
(* The whole server: the handlers of router.go over one app.Service.       *)
(* Accounts, Wallet and Access each describe a part of the service's maps; *)
(* here they share one process, one lock and one stored row.  A handler is *)
(* the operation of the part it is about, while the other parts are saved  *)
(* with it; handleVerifyEmail and handleRedeem change two parts at once.   *)
(*                                                                         *)
(* The gateway's side of a payment is in Topup: here a payment report is   *)
(* an input, as it is to the server.                                       *)
(***************************************************************************)
EXTENDS Integers, Sequences, FiniteSets, Maps

CONSTANTS
    UserIds, Emails, Passwords, Tokens, Callers, NoHash,
    OrderIds, GrantIds, Plans, Price, PointInputs, TradeNos, NoTradeNo, HalfRange,
    Nodes, Groups, Protocols, EntIds, DeviceIds, SessionIds,
    MaxBoundDevices, MaxConcurrentSessions, Duration, PlanGroups, PlanProtocols,
    GroupOf, NodeStatuses, BaseDeviceLimit, MaxTime, SaveOutcomes

VARIABLES
    users, usersByEmail, tokens,            \* the service's maps,
    orders, ledger, grants,
    entitlements, devices, sessions, nodes,
    accountsRow, walletRow, accessRow,      \* the row, by part,
    calls,                                  \* requests that are authenticated,
    now                                     \* and the clock

VerifiedIn(accounts) == {u \in DOMAIN accounts : accounts[u].verified}

A == INSTANCE Accounts WITH disk <- accountsRow
W == INSTANCE Wallet WITH Users <- UserIds, verified <- VerifiedIn(users), disk <- walletRow
X == INSTANCE Access WITH Users <- UserIds, disk <- accessRow

ASSUME PlaneConstants ==
    A!AccountConstants /\ W!WalletConstants /\ X!AccessConstants

accountsVars == <<users, usersByEmail, tokens, accountsRow, calls>>
walletVars == <<orders, ledger, grants, walletRow>>
accessVars == <<entitlements, devices, sessions, nodes, now, accessRow>>
planeVars == <<accountsVars, walletVars, accessVars>>

PlaneInit == A!Init /\ W!Init /\ X!Init

(* saveLocked puts every map into the one snapshot it saves. *)
WalletSaved(saved) == W!SaveByOthers(saved)
AccessSaved(saved) == X!SaveByOthers(saved)
RestSaved(saved) == WalletSaved(saved) /\ AccessSaved(saved)

-----------------------------------------------------------------------------
handleRegister(e, pw, u, saved) == A!Register(e, pw, u, saved) /\ RestSaved(saved)

handleLogin(e, pw, pair, saved) == A!Login(e, pw, pair, saved) /\ RestSaved(saved)

(* The first lock section of every request with a token.  What comes after   *)
(* is for the user found here.  The token in the header is trimmed before it *)
(* gets here; one in the body of a refresh may be padded, as in Accounts.    *)
withAuth(c, t) == A!Authenticate(c, t, FALSE) /\ UNCHANGED <<walletVars, accessVars>>

User(c) == calls[c].user

handleRefresh(c, pair, saved) == A!Refresh(c, pair, saved) /\ RestSaved(saved)

handleLogout(t, saved) == A!Logout(t, saved) /\ RestSaved(saved)

handleVerifyEmail(c, saved) ==
    A!VerifyEmail(c, saved) /\ W!VerifyEmail(User(c), saved) /\ AccessSaved(saved)

(* A refusal, or one of the handlers that only read. *)
Answer(c) == A!AnsweredByOthers(c) /\ UNCHANGED <<walletVars, accessVars>>

handleCreateTopup(c, o, points, saved) ==
    /\ A!HandledByOthers(c, saved)
    /\ W!CreateTopup(User(c), o, points, saved)
    /\ AccessSaved(saved)

(* The gateway, the payment simulator or an administrator reports a payment:  *)
(* no token.                                                                  *)
handleConfirmTopup(o, tradeNo, paid, saved) ==
    /\ A!SaveByOthers(saved)
    /\ W!ConfirmTopup(o, tradeNo, paid, saved)
    /\ AccessSaved(saved)

(* What the gateway answers about a trade, applied to its order. *)
syncTopupOrder(o, tradeNo, saved) ==
    /\ \/ W!ConfirmTopup(o, tradeNo, TRUE, saved)
       \/ W!MarkClosed(o, tradeNo, saved)
       \/ W!RecordTradeNo(o, tradeNo, saved)
    /\ AccessSaved(saved)

(* A buyer asks for their own order's trade.  Orders and their owners never   *)
(* change while the process runs, so the look before the gateway is asked     *)
(* counts at the end of the call as well.                                     *)
handleQueryTopupOrder(c, o, tradeNo, saved) ==
    /\ A!HandledByOthers(c, saved)
    /\ o \in DOMAIN orders /\ orders[o].user = User(c)
    /\ syncTopupOrder(o, tradeNo, saved)

(* An administrator may ask for any order's. *)
handleAdminQueryTopup(o, tradeNo, saved) ==
    A!SaveByOthers(saved) /\ syncTopupOrder(o, tradeNo, saved)

(* Mutant: the entitlement without its charge. *)
RedeemUncharged(c, p, g, e, saved) ==
    /\ A!HandledByOthers(c, saved)
    /\ W!CanAfford(User(c), p) /\ WalletSaved(saved)
    /\ X!Redeem(User(c), p, e, saved)

(* One lock section: the charge and what is bought with it. *)
handleRedeem(c, p, g, e, saved) ==
    /\ A!HandledByOthers(c, saved)
    /\ W!Redeem(User(c), p, g, saved)
    /\ X!Redeem(User(c), p, e, saved)

handleBindDevice(c, d, saved) ==
    A!HandledByOthers(c, saved) /\ X!BindDevice(User(c), d, saved) /\ WalletSaved(saved)

handleUnbindDevice(c, d, saved) ==
    A!HandledByOthers(c, saved) /\ X!UnbindDevice(User(c), d, saved) /\ WalletSaved(saved)

handleConnect(c, e, d, n, protocol, s, saved) ==
    /\ A!HandledByOthers(c, saved)
    /\ X!Connect(User(c), e, d, n, protocol, s, saved)
    /\ WalletSaved(saved)

(* Mutant: the session's owner is not compared with the caller. *)
DisconnectAny(c, s, saved) ==
    /\ A!HandledByOthers(c, saved)
    /\ s \in DOMAIN sessions /\ X!Disconnect(sessions[s].user, s, saved)
    /\ WalletSaved(saved)

handleDisconnect(c, s, saved) ==
    A!HandledByOthers(c, saved) /\ X!Disconnect(User(c), s, saved) /\ WalletSaved(saved)

handleAgentBootstrap(n, saved) ==
    A!SaveByOthers(saved) /\ W!SaveByOthers(saved) /\ X!AgentBootstrap(n, saved)

handleAgentHeartbeat(n, status, saved) ==
    A!SaveByOthers(saved) /\ W!SaveByOthers(saved) /\ X!AgentHeartbeat(n, status, saved)

CrashRestart == A!CrashRestart /\ W!CrashRestart /\ X!CrashRestart

Tick == X!Tick /\ UNCHANGED <<accountsVars, walletVars>>

Anonymous(saved) ==
    \/ \E e \in Emails, pw \in Passwords :
          \/ \E u \in UserIds : handleRegister(e, pw, u, saved)
          \/ \E pair \in A!FreshPairs : handleLogin(e, pw, pair, saved)
    \/ \E t \in Tokens : handleLogout(t, saved)
    \/ \E o \in OrderIds, tradeNo \in TradeNos, paid \in BOOLEAN :
          handleConfirmTopup(o, tradeNo, paid, saved)
    \/ \E o \in OrderIds, tradeNo \in TradeNos \cup {NoTradeNo} :
          handleAdminQueryTopup(o, tradeNo, saved)
    \/ \E n \in Nodes : \/ handleAgentBootstrap(n, saved)
                        \/ \E status \in NodeStatuses :
                              handleAgentHeartbeat(n, status, saved)

Authenticated(c, saved) ==
    \/ \E pair \in A!FreshPairs : handleRefresh(c, pair, saved)
    \/ handleVerifyEmail(c, saved)
    \/ \E o \in OrderIds, points \in PointInputs : handleCreateTopup(c, o, points, saved)
    \/ \E o \in OrderIds, tradeNo \in TradeNos \cup {NoTradeNo} :
          handleQueryTopupOrder(c, o, tradeNo, saved)
    \/ \E p \in Plans, g \in GrantIds, e \in EntIds : handleRedeem(c, p, g, e, saved)
    \/ \E d \in DeviceIds : handleBindDevice(c, d, saved) \/ handleUnbindDevice(c, d, saved)
    \/ \E e \in EntIds, d \in DeviceIds, n \in Nodes, protocol \in Protocols,
          s \in SessionIds : handleConnect(c, e, d, n, protocol, s, saved)
    \/ \E s \in SessionIds : handleDisconnect(c, s, saved)

PlaneNext ==
    \/ \E saved \in SaveOutcomes :
          Anonymous(saved) \/ \E c \in Callers : Authenticated(c, saved)
    \/ \E c \in Callers : Answer(c) \/ \E t \in Tokens : withAuth(c, t)
    \/ Tick
    \/ CrashRestart

PlaneSpec == PlaneInit /\ [][PlaneNext]_planeVars

-----------------------------------------------------------------------------
(* The two copies of the state, whole. *)
Memory == [accounts |-> users, tokens |-> tokens, wallet |-> W!Memory, access |-> X!Memory]
Row == [accounts |-> accountsRow.users, tokens |-> accountsRow.tokens,
        wallet |-> walletRow, access |-> accessRow]

Owned(m) ==
    /\ \A t \in DOMAIN m.tokens : m.tokens[t] \in DOMAIN m.accounts
    /\ \A o \in DOMAIN m.wallet.orders :
          m.wallet.orders[o].user \in VerifiedIn(m.accounts)
    /\ \A e \in DOMAIN m.access.entitlements :
          m.access.entitlements[e].user \in VerifiedIn(m.accounts)
    /\ \A d \in DOMAIN m.access.devices : m.access.devices[d] \in DOMAIN m.accounts
    /\ \A s \in DOMAIN m.access.sessions :
          m.access.sessions[s].user \in VerifiedIn(m.accounts)

(* Whatever requests a save or a crash came between, each copy of the state   *)
(* is whole: a token, order, entitlement, device or session is of an account  *)
(* in the same copy, with a verified email where one was asked for            *)
(* (CreateTopup) or was the way to the points (Redeem, Connect).              *)
RecordsHaveOwners == Owned(Memory) /\ Owned(Row)

Bought(m, u, p) ==
    {g \in DOMAIN m.wallet.grants : /\ m.wallet.grants[g].user = u
                                    /\ m.wallet.grants[g].plan = p}
Held(m, u, p) ==
    {e \in DOMAIN m.access.entitlements : /\ m.access.entitlements[e].user = u
                                          /\ m.access.entitlements[e].plan = p}

(* In either copy everybody holds exactly the entitlements they were charged  *)
(* for: no failed save, retry or crash separates the two maps Redeem fills.   *)
EntitlementsPaidFor ==
    \A m \in {Memory, Row}, u \in UserIds, p \in Plans :
        Cardinality(Held(m, u, p)) = Cardinality(Bought(m, u, p))

PaidOrders(m, u) ==
    {o \in DOMAIN m.wallet.orders : /\ m.wallet.orders[o].user = u
                                    /\ m.wallet.orders[o].status = "paid"}

(* The points u's paid orders brought in, one by one, and those that the plans *)
(* of u's entitlements cost.                                                   *)
PointsPaid(m, u) ==
    UNION {{o} \X (1..m.wallet.orders[o].points) : o \in PaidOrders(m, u)}
PointsHeld(m, u) ==
    UNION {{e} \X (1..Price[m.access.entitlements[e].plan]) :
              e \in {x \in DOMAIN m.access.entitlements : m.access.entitlements[x].user = u}}

(* What anybody holds never cost more than they paid, in either copy, unless  *)
(* their payments overflow an int: from order to ledger to purchase to        *)
(* entitlement no step of the server gives anything away (ConfirmTopup,       *)
(* Redeem).                                                                   *)
HoldingsCovered ==
    \A m \in {Memory, Row}, u \in UserIds :
        Cardinality(PointsPaid(m, u)) < HalfRange =>
            Cardinality(PointsHeld(m, u)) <= Cardinality(PointsPaid(m, u))

(* Nobody is connected without a payment of theirs in the same copy of the    *)
(* state: from session to entitlement to ledger to order, a restart never     *)
(* brings back the one without the other (Connect, Redeem, ConfirmTopup).     *)
ConnectedHavePaid ==
    \A m \in {Memory, Row} : \A s \in DOMAIN m.access.sessions :
        PaidOrders(m, m.access.sessions[s].user) # {}

(* What belongs to u and only u's requests may change. *)
HoldingsOf(u) ==
    [purchases |-> {g \in DOMAIN grants : grants[g].user = u},
     entitlements |-> {e \in DOMAIN entitlements : entitlements[e].user = u},
     devices |-> X!BoundDevices(X!Memory, u),
     sessions |-> [s \in {x \in DOMAIN sessions : sessions[x].user = u} |-> sessions[s]]]

AnsweredCallOf(u) == \E c \in Callers : A!EndCall(c) /\ User(c) = u

(* A purchase, an entitlement, a device or a session changes by a request     *)
(* that authenticated as its owner, or by a restart, and by nothing else: not *)
(* by requests of others that were let in before or after (withAuth and the   *)
(* handlers behind it).                                                       *)
OwnRequestsOnly ==
    [][\A u \in UserIds : HoldingsOf(u)' = HoldingsOf(u)
                          \/ AnsweredCallOf(u) \/ CrashRestart]_planeVars
=============================================================================
