------------------------- MODULE ControlPlaneProofs -------------------------
(***************************************************************************)
(* Theorems about the whole server.                                        *)
(*                                                                         *)
(* First, every step of the server is a step of each part or leaves the    *)
(* part alone, so ControlPlane implements Accounts, Wallet and Access, and *)
(* what is proved of a part holds of the server.  The theorems of a part   *)
(* are about its proof module's copy of its definitions (AP, WP, XP), the  *)
(* server is written with the part's own (A, W, X): the lemmas ...Same     *)
(* say that they are the same.  The clients that AccessProofs and          *)
(* AccountsProofs speak of play no part here.                              *)
(*                                                                         *)
(* Then the links between the parts (PlaneInv) are inductive, and with     *)
(* what the parts promise they give the server's own properties.           *)
(***************************************************************************)
EXTENDS ControlPlane, FiniteSetTheorems, FunctionTheorems, TLAPS

AP == INSTANCE AccountsProofs
        WITH disk <- accountsRow, given <- {}, revoked <- {}
WP == INSTANCE BookProofs
        WITH Users <- UserIds, verified <- VerifiedIn(users), disk <- walletRow
XP == INSTANCE AccessProofs
        WITH Users <- UserIds, disk <- accessRow, Client <- {}, client <- {}, told <- {}

(* The parts' constants satisfy what their theorems assume. *)
LEMMA AccountConstantsHold == AP!AccountConstants
  BY PlaneConstants DEF A!AccountConstants, AP!AccountConstants

(* So do those of the wallet, *)
LEMMA WalletConstantsHold == WP!WalletConstants
  BY PlaneConstants DEF W!WalletConstants, W!Ints, W!AllSaveOutcomes,
       WP!WalletConstants, WP!Ints, WP!AllSaveOutcomes

(* and those of access. *)
LEMMA AccessConstantsHold == XP!AccessConstants
  BY PlaneConstants DEF X!AccessConstants, XP!AccessConstants,
       X!IsFiniteSet, XP!IsFiniteSet

(* The copies of Accounts are one. *)
LEMMA AccountsSame ==
  /\ A!Spec <=> AP!Spec
  /\ A!TypeOK <=> AP!TypeOK
  /\ A!TokensOwned <=> AP!TokensOwned
  BY DEF
      A!IsMap, A!EmptyMap, A!Put, A!Remove, A!stateVars, A!vars, A!User,
      A!Idle, A!Request, A!Marshal, A!Snapshot, A!saveLocked, A!FreshTokens,
      A!FreshPairs, A!Issue, A!Init, A!EmailFree, A!Register, A!CanLogin,
      A!Login, A!Authenticate, A!EndCall, A!VerifyEmail, A!Spent, A!Refresh,
      A!Logout, A!AnsweredByOthers, A!HandledByOthers, A!SaveByOthers,
      A!CrashRestart, A!TokensKept, A!Next, A!Spec, A!WellFormed, A!Memory,
      A!TypeOK, A!TokensHaveUsers, A!TokensOwned, AP!IsMap, AP!EmptyMap,
      AP!Put, AP!Remove, AP!stateVars, AP!vars, AP!User, AP!Idle,
      AP!Request, AP!Marshal, AP!Snapshot, AP!saveLocked, AP!FreshTokens,
      AP!FreshPairs, AP!Issue, AP!Init, AP!EmailFree, AP!Register,
      AP!CanLogin, AP!Login, AP!Authenticate, AP!EndCall, AP!VerifyEmail,
      AP!Spent, AP!Refresh, AP!Logout, AP!AnsweredByOthers,
      AP!HandledByOthers, AP!SaveByOthers, AP!CrashRestart, AP!TokensKept,
      AP!Next, AP!Spec, AP!WellFormed, AP!Memory, AP!TypeOK,
      AP!TokensHaveUsers, AP!TokensOwned

(* The copies of Wallet are one. *)
LEMMA WalletSame ==
  /\ W!Spec <=> WP!Spec
  /\ W!TypeOK <=> WP!TypeOK
  /\ W!OrdersOfVerifiedUsers <=> WP!OrdersOfVerifiedUsers
  /\ W!NothingUnbooked <=> WP!NothingUnbooked
  /\ W!RunningBalance <=> WP!RunningBalance
  /\ W!NoOverdraft <=> WP!NoOverdraft
  BY DEF
      W!IsMap, W!EmptyMap, W!Put, W!Ints, W!vars, W!TopupOrder,
      W!LedgerEntry, W!Grant, W!Memory, W!Wrap, W!BalanceOf, W!Entry,
      W!addLedgerEntry, W!saveLocked, W!Init, W!VerifyEmail, W!MayTopup,
      W!CreateTopup, W!IsPaid, W!MarkFailed, W!CreditOrder, W!ConfirmTopup,
      W!MarkClosed, W!NeedsTradeNo, W!RecordTradeNo, W!CanAfford, W!Redeem,
      W!SaveByOthers, W!CrashRestart, W!Next, W!Spec, W!WellFormed,
      W!TypeOK, W!HasEntry, W!GrantsCharged, W!IsCredit, W!IsCharge,
      W!EntriesJustified, W!BalancesChain, W!ChargesCovered,
      W!OwnersVerified, W!NothingUnbooked, W!RunningBalance, W!NoOverdraft,
      W!OrdersOfVerifiedUsers, WP!IsMap, WP!EmptyMap, WP!Put, WP!Ints,
      WP!vars, WP!TopupOrder, WP!LedgerEntry, WP!Grant, WP!Memory, WP!Wrap,
      WP!BalanceOf, WP!Entry, WP!addLedgerEntry, WP!saveLocked, WP!Init,
      WP!VerifyEmail, WP!MayTopup, WP!CreateTopup, WP!IsPaid, WP!MarkFailed,
      WP!CreditOrder, WP!ConfirmTopup, WP!MarkClosed, WP!NeedsTradeNo,
      WP!RecordTradeNo, WP!CanAfford, WP!Redeem, WP!SaveByOthers,
      WP!CrashRestart, WP!Next, WP!Spec, WP!WellFormed, WP!TypeOK,
      WP!HasEntry, WP!GrantsCharged, WP!IsCredit, WP!IsCharge,
      WP!EntriesJustified, WP!BalancesChain, WP!ChargesCovered,
      WP!OwnersVerified, WP!NothingUnbooked, WP!RunningBalance,
      WP!NoOverdraft, WP!OrdersOfVerifiedUsers

(* The copies of Access are one. *)
LEMMA AccessSame ==
  /\ X!Spec <=> XP!Spec
  /\ X!TypeOK <=> XP!TypeOK
  /\ X!ConnectedDeviceBound <=> XP!ConnectedDeviceBound
  BY DEF X!Cardinality, XP!Cardinality, X!IsFiniteSet, XP!IsFiniteSet,
      X!IsMap, X!EmptyMap, X!Put, X!Remove, X!stateVars, X!vars,
      X!Entitlement, X!Session, X!Memory, X!saveLocked, X!Init, X!Redeem,
      X!BoundDevices, X!RaisesDeviceLimit, X!BelowDeviceLimit,
      X!NewDeviceId, X!BindDevice, X!InUse, X!UnbindDevice, X!Connected,
      X!EntitlementUsable, X!NodeUsable, X!OwnsDevice, X!HasFreeSlot,
      X!Connect, X!Disconnect, X!AgentBootstrap, X!AgentHeartbeat,
      X!SaveByOthers, X!Tick, X!CrashRestart, X!Unasked, X!Next, X!Spec,
      X!WellFormed, X!TypeOK, X!SessionsRooted, X!ConnectedDeviceBound,
      XP!IsMap, XP!EmptyMap, XP!Put, XP!Remove, XP!stateVars, XP!vars,
      XP!Entitlement, XP!Session, XP!Memory, XP!saveLocked, XP!Init,
      XP!Redeem, XP!BoundDevices, XP!RaisesDeviceLimit, XP!BelowDeviceLimit,
      XP!NewDeviceId, XP!BindDevice, XP!InUse, XP!UnbindDevice,
      XP!Connected, XP!EntitlementUsable, XP!NodeUsable, XP!OwnsDevice,
      XP!HasFreeSlot, XP!Connect, XP!Disconnect, XP!AgentBootstrap,
      XP!AgentHeartbeat, XP!SaveByOthers, XP!Tick, XP!CrashRestart,
      XP!Unasked, XP!Next, XP!Spec, XP!WellFormed, XP!TypeOK,
      XP!SessionsRooted, XP!ConnectedDeviceBound

(* A step of the server is a step of the accounts or none of theirs. *)
LEMMA AccountsStep == PlaneNext => A!Next \/ UNCHANGED A!vars
<1> SUFFICES ASSUME PlaneNext PROVE A!Next \/ UNCHANGED A!vars  OBVIOUS
<1> USE DEF A!Next, A!TokensKept
<1>1. ASSUME NEW saved \in SaveOutcomes, Anonymous(saved) PROVE A!Next
  BY <1>1 DEF Anonymous, handleRegister, handleLogin, handleLogout, handleConfirmTopup,
     handleAdminQueryTopup, handleAgentBootstrap, handleAgentHeartbeat
<1>2. ASSUME NEW saved \in SaveOutcomes, NEW c \in Callers, Authenticated(c, saved)
      PROVE A!Next
  BY <1>2 DEF Authenticated, handleRefresh, handleVerifyEmail, handleCreateTopup,
     handleQueryTopupOrder, handleRedeem, handleBindDevice, handleUnbindDevice,
     handleConnect, handleDisconnect
<1>3. ASSUME NEW c \in Callers, Answer(c) \/ \E t \in Tokens : withAuth(c, t)
      PROVE A!Next
  BY <1>3 DEF Answer, withAuth
<1>4. CASE Tick  BY <1>4 DEF Tick, accountsVars, A!vars
<1>5. CASE CrashRestart  BY <1>5 DEF CrashRestart
<1> QED BY <1>1, <1>2, <1>3, <1>4, <1>5 DEF PlaneNext

(* The server implements Accounts: whatever its other handlers do between  *)
(* them, the steps of registration, login, refresh and logout are those of *)
(* Accounts (router.go over service.go).                                   *)
THEOREM PlaneRefinesAccounts == PlaneSpec => A!Spec
<1>1. PlaneInit => A!Init  BY DEF PlaneInit
<1>2. [PlaneNext]_planeVars => [A!Next]_A!vars
  BY AccountsStep DEF planeVars, accountsVars, A!vars
<1> QED BY <1>1, <1>2, PTL DEF PlaneSpec, A!Spec

(* What AccountsProofs shows of the accounts, of the server. *)
LEMMA AccountsHold == PlaneSpec => []A!TypeOK /\ []A!TokensOwned
<1>1. PlaneSpec => AP!Spec  BY PlaneRefinesAccounts, AccountsSame
<1>2. AP!Spec => []AP!TypeOK  BY AccountConstantsHold, AP!AccountsTyped
<1>3. AP!Spec => []AP!TokensOwned  BY AccountConstantsHold, AP!TokensHaveOwners
<1> QED BY <1>1, <1>2, <1>3, AccountsSame, PTL

(* The caller of an authenticated request is an account. *)
LEMMA CallersAreUsers ==
  ASSUME A!TypeOK, NEW c \in Callers, A!EndCall(c)  PROVE User(c) \in UserIds
<1>1. PICK t \in Tokens, u \in UserIds, padded \in BOOLEAN : calls[c] = A!Request(t, u, padded)
  BY DEF A!TypeOK, A!EndCall
<1> QED BY <1>1 DEF A!Request, User

(* A step of the server is a step of the wallet or none of its own. *)
LEMMA WalletStep == A!TypeOK /\ PlaneNext => W!Next \/ UNCHANGED W!vars
<1> SUFFICES ASSUME A!TypeOK, PlaneNext PROVE W!Next \/ UNCHANGED W!vars  OBVIOUS
<1> USE DEF W!Next
<1>1. ASSUME NEW saved \in SaveOutcomes, Anonymous(saved) PROVE W!Next
  <2> USE DEF RestSaved, WalletSaved
  <2>1. CASE \E o \in OrderIds, tradeNo \in TradeNos, paid \in BOOLEAN :
                handleConfirmTopup(o, tradeNo, paid, saved)
    BY <2>1 DEF handleConfirmTopup
  <2>2. CASE \E o \in OrderIds, tradeNo \in TradeNos \cup {NoTradeNo} :
                handleAdminQueryTopup(o, tradeNo, saved)
    BY <2>2 DEF handleAdminQueryTopup, syncTopupOrder, W!ConfirmTopup, W!RecordTradeNo
  <2>3. CASE W!SaveByOthers(saved)  BY <2>3
  <2> QED
    BY <1>1, <2>1, <2>2, <2>3 DEF Anonymous, handleRegister, handleLogin, handleLogout,
       handleAgentBootstrap, handleAgentHeartbeat
<1>2. ASSUME NEW saved \in SaveOutcomes, NEW c \in Callers, Authenticated(c, saved)
      PROVE W!Next
  <2> USE DEF RestSaved, WalletSaved, A!Refresh, A!VerifyEmail, A!HandledByOthers
  <2>1. A!EndCall(c)
    BY <1>2 DEF Authenticated, handleRefresh, handleVerifyEmail, handleCreateTopup,
       handleQueryTopupOrder, handleRedeem, handleBindDevice, handleUnbindDevice,
       handleConnect, handleDisconnect
  <2>2. User(c) \in UserIds  BY <2>1, CallersAreUsers
  <2>3. CASE \E o \in OrderIds, tradeNo \in TradeNos \cup {NoTradeNo} :
                handleQueryTopupOrder(c, o, tradeNo, saved)
    BY <2>3 DEF handleQueryTopupOrder, syncTopupOrder, W!ConfirmTopup, W!RecordTradeNo
  <2>4. CASE \E p \in Plans, g \in GrantIds, e \in EntIds : handleRedeem(c, p, g, e, saved)
    BY <2>2, <2>4 DEF handleRedeem
  <2>5. CASE \E o \in OrderIds, points \in PointInputs : handleCreateTopup(c, o, points, saved)
    BY <2>2, <2>5 DEF handleCreateTopup
  <2>6. CASE handleVerifyEmail(c, saved)
    BY <2>2, <2>6 DEF handleVerifyEmail
  <2>7. CASE W!SaveByOthers(saved)  BY <2>7
  <2> QED
    BY <1>2, <2>3, <2>4, <2>5, <2>6, <2>7 DEF Authenticated, handleRefresh,
       handleBindDevice, handleUnbindDevice, handleConnect, handleDisconnect
<1>3. ASSUME NEW c \in Callers, Answer(c) \/ \E t \in Tokens : withAuth(c, t)
      PROVE UNCHANGED W!vars
  BY <1>3 DEF Answer, withAuth, walletVars, W!vars, VerifiedIn,
     A!AnsweredByOthers, A!Authenticate, A!stateVars
<1>4. CASE Tick
  BY <1>4 DEF Tick, accountsVars, walletVars, W!vars, VerifiedIn
<1>5. CASE CrashRestart  BY <1>5 DEF CrashRestart
<1> QED BY <1>1, <1>2, <1>3, <1>4, <1>5 DEF PlaneNext

(* The server implements Wallet: no handler reaches orders, the ledger or *)
(* purchases but through the operations of Wallet, for a user who exists. *)
THEOREM PlaneRefinesWallet == PlaneSpec => W!Spec
<1>1. PlaneInit => W!Init  BY DEF PlaneInit
<1>2. A!TypeOK /\ [PlaneNext]_planeVars => [W!Next]_W!vars
  BY WalletStep DEF planeVars, accountsVars, walletVars, W!vars, VerifiedIn
<1> QED BY <1>1, <1>2, AccountsHold, PTL DEF PlaneSpec, W!Spec

(* A step of the server is a step of the access part or none of its own. *)
LEMMA AccessStep == A!TypeOK /\ PlaneNext => X!Next \/ UNCHANGED X!vars
<1> SUFFICES ASSUME A!TypeOK, PlaneNext PROVE X!Next \/ UNCHANGED X!vars  OBVIOUS
<1> USE DEF X!Next, X!Unasked
<1>1. ASSUME NEW saved \in SaveOutcomes, Anonymous(saved) PROVE X!Next
  BY <1>1 DEF RestSaved, AccessSaved, Anonymous, handleRegister, handleLogin,
     handleLogout, handleConfirmTopup, handleAdminQueryTopup, syncTopupOrder,
     handleAgentBootstrap, handleAgentHeartbeat
<1>2. ASSUME NEW saved \in SaveOutcomes, NEW c \in Callers, Authenticated(c, saved)
      PROVE X!Next
  <2>1. A!EndCall(c)
    BY <1>2 DEF Authenticated, handleRefresh, handleVerifyEmail, handleCreateTopup,
       handleQueryTopupOrder, handleRedeem, handleBindDevice, handleUnbindDevice,
       handleConnect, handleDisconnect, A!Refresh, A!VerifyEmail, A!HandledByOthers
  <2>2. User(c) \in UserIds  BY <2>1, CallersAreUsers
  <2>3. CASE \E p \in Plans, g \in GrantIds, e \in EntIds : handleRedeem(c, p, g, e, saved)
    BY <2>2, <2>3 DEF handleRedeem
  <2>4. CASE \E d \in DeviceIds :
                handleBindDevice(c, d, saved) \/ handleUnbindDevice(c, d, saved)
    BY <2>2, <2>4 DEF handleBindDevice, handleUnbindDevice
  <2>5. CASE \E e \in EntIds, d \in DeviceIds, n \in Nodes, protocol \in Protocols,
                s \in SessionIds : handleConnect(c, e, d, n, protocol, s, saved)
    BY <2>2, <2>5 DEF handleConnect
  <2>6. CASE \E s \in SessionIds : handleDisconnect(c, s, saved)
    BY <2>2, <2>6 DEF handleDisconnect
  <2>7. CASE X!SaveByOthers(saved)  BY <2>7
  <2> QED
    BY <1>2, <2>3, <2>4, <2>5, <2>6, <2>7 DEF Authenticated, RestSaved, AccessSaved,
       handleRefresh, handleVerifyEmail, handleCreateTopup, handleQueryTopupOrder,
       syncTopupOrder
<1>3. ASSUME NEW c \in Callers, Answer(c) \/ \E t \in Tokens : withAuth(c, t)
      PROVE UNCHANGED X!vars
  BY <1>3 DEF Answer, withAuth, accessVars, X!vars
<1>4. CASE Tick  BY <1>4 DEF Tick
<1>5. CASE CrashRestart  BY <1>5 DEF CrashRestart
<1> QED BY <1>1, <1>2, <1>3, <1>4, <1>5 DEF PlaneNext

(* The server implements Access: no handler reaches entitlements, devices, *)
(* sessions or nodes but through the operations of Access.                 *)
THEOREM PlaneRefinesAccess == PlaneSpec => X!Spec
<1>1. PlaneInit => X!Init  BY DEF PlaneInit
<1>2. A!TypeOK /\ [PlaneNext]_planeVars => [X!Next]_X!vars
  BY AccessStep DEF planeVars, accessVars, X!vars
<1> QED BY <1>1, <1>2, AccountsHold, PTL DEF PlaneSpec, X!Spec

(* What WalletProofs shows of the wallet, of the server. *)
LEMMA WalletHolds ==
  PlaneSpec => /\ []W!TypeOK
               /\ []W!OrdersOfVerifiedUsers
               /\ []W!NothingUnbooked
               /\ []W!RunningBalance
               /\ []W!NoOverdraft
<1>1. PlaneSpec => WP!Spec  BY PlaneRefinesWallet, WalletSame
<1>2. WP!Spec => []WP!TypeOK  BY WalletConstantsHold, WP!TypeCorrect
<1>3. WP!Spec => []WP!OrdersOfVerifiedUsers  BY WalletConstantsHold, WP!OrdersOwned
<1>4. WP!Spec => []WP!NothingUnbooked  BY WalletConstantsHold, WP!LedgersJustified
<1>5. WP!Spec => []WP!RunningBalance  BY WalletConstantsHold, WP!BalancesSound
<1>6. WP!Spec => []WP!NoOverdraft  BY WalletConstantsHold, WP!NeverOverdrawn
<1> QED BY <1>1, <1>2, <1>3, <1>4, <1>5, <1>6, WalletSame, PTL

(* The whole server, then, keeps the account book: among all its handlers      *)
(* there is no way to points but a payment, and no way to a plan but to pay    *)
(* for it within the balance (handleConfirmTopup, handleRedeem, saveLocked).   *)
THEOREM PlaneKeepsBook == PlaneSpec => WP!ImplementsAccountBook
<1>1. PlaneSpec => WP!Spec  BY PlaneRefinesWallet, WalletSame
<1>2. WP!Spec => WP!ImplementsAccountBook  BY WalletConstantsHold, WP!BookImplemented
<1> QED BY <1>1, <1>2

(* What AccessProofs shows of access, of the server. *)
LEMMA AccessHolds == PlaneSpec => []X!TypeOK /\ []X!ConnectedDeviceBound
<1>1. PlaneSpec => XP!Spec  BY PlaneRefinesAccess, AccessSame
<1>2. XP!Spec => []XP!TypeOK  BY AccessConstantsHold, XP!AccessTyped
<1>3. XP!Spec => []XP!ConnectedDeviceBound  BY AccessConstantsHold, XP!ConnectedKeepDevice
<1> QED BY <1>1, <1>2, <1>3, AccessSame, PTL

-----------------------------------------------------------------------------
(* The one snapshot that saveLocked writes holds all three parts. *)
AllSaved(saved) == A!saveLocked(saved) /\ W!saveLocked(saved) /\ X!saveLocked(saved)

(* The records that are linked across the parts stay as they are. *)
SameRecords == UNCHANGED <<grants, entitlements, devices, sessions>>

(* A request without a token saves the three parts at once and touches *)
(* no purchase, entitlement, device or session.                        *)
LEMMA AnonymousForm ==
  ASSUME NEW saved, Anonymous(saved)
  PROVE  AllSaved(saved) /\ SameRecords
<1> USE DEF AllSaved, SameRecords, RestSaved, WalletSaved, AccessSaved, W!SaveByOthers,
            X!SaveByOthers, X!stateVars
<1>1. ASSUME NEW e, NEW pw, NEW u, handleRegister(e, pw, u, saved)
      PROVE  AllSaved(saved) /\ SameRecords
  BY <1>1 DEF handleRegister, A!Register
<1>2. ASSUME NEW e, NEW pw, NEW pair, handleLogin(e, pw, pair, saved)
      PROVE  AllSaved(saved) /\ SameRecords
  BY <1>2 DEF handleLogin, A!Login
<1>3. ASSUME NEW t, handleLogout(t, saved)
      PROVE  AllSaved(saved) /\ SameRecords
  BY <1>3 DEF handleLogout, A!Logout
<1>4. ASSUME NEW o, NEW tradeNo, NEW paid, handleConfirmTopup(o, tradeNo, paid, saved)
      PROVE  AllSaved(saved) /\ SameRecords
  BY <1>4 DEF handleConfirmTopup, A!SaveByOthers, W!ConfirmTopup
<1>5. ASSUME NEW o, NEW tradeNo, handleAdminQueryTopup(o, tradeNo, saved)
      PROVE  AllSaved(saved) /\ SameRecords
  BY <1>5 DEF handleAdminQueryTopup, A!SaveByOthers, syncTopupOrder, W!ConfirmTopup,
     W!MarkClosed, W!RecordTradeNo
<1>6. ASSUME NEW n, handleAgentBootstrap(n, saved)
      PROVE  AllSaved(saved) /\ SameRecords
  BY <1>6 DEF handleAgentBootstrap, A!SaveByOthers, X!AgentBootstrap
<1>7. ASSUME NEW n, NEW status, handleAgentHeartbeat(n, status, saved)
      PROVE  AllSaved(saved) /\ SameRecords
  BY <1>7 DEF handleAgentHeartbeat, A!SaveByOthers, X!AgentHeartbeat
<1> QED BY <1>1, <1>2, <1>3, <1>4, <1>5, <1>6, <1>7 DEF Anonymous

(* What an authenticated request can do to those records, for its caller. *)
Redeems(c, p, g, e, saved) ==
  /\ W!Redeem(User(c), p, g, saved)
  /\ X!Redeem(User(c), p, e, saved)

Binds(c, d, saved) ==
  (X!BindDevice(User(c), d, saved) \/ X!UnbindDevice(User(c), d, saved)) /\ UNCHANGED grants

Connects(c, saved) ==
  /\ UNCHANGED grants
  /\ \/ \E e \in EntIds, d \in DeviceIds, n \in Nodes, protocol \in Protocols, s \in SessionIds :
           X!Connect(User(c), e, d, n, protocol, s, saved)
     \/ \E s \in SessionIds : X!Disconnect(User(c), s, saved)

(* An authenticated request saves the three parts at once; what it does to *)
(* records of the linked kinds it does for its caller.                     *)
LEMMA AuthenticatedForm ==
  ASSUME NEW saved, NEW c, Authenticated(c, saved)
  PROVE  /\ A!EndCall(c)
         /\ AllSaved(saved)
         /\ \/ SameRecords
            \/ \E p \in Plans, g \in GrantIds, e \in EntIds : Redeems(c, p, g, e, saved)
            \/ \E d \in DeviceIds : Binds(c, d, saved)
            \/ Connects(c, saved)
<1> DEFINE Own == \/ SameRecords
                  \/ \E p \in Plans, g \in GrantIds, e \in EntIds : Redeems(c, p, g, e, saved)
                  \/ \E d \in DeviceIds : Binds(c, d, saved)
                  \/ Connects(c, saved)
           Form == A!EndCall(c) /\ AllSaved(saved) /\ Own
<1> USE DEF AllSaved, RestSaved, WalletSaved, AccessSaved, A!HandledByOthers
<1>1. ASSUME NEW pair, handleRefresh(c, pair, saved)  PROVE Form
  BY <1>1 DEF handleRefresh, A!Refresh, SameRecords, W!SaveByOthers, X!SaveByOthers, X!stateVars
<1>2. ASSUME handleVerifyEmail(c, saved)  PROVE Form
  BY <1>2 DEF handleVerifyEmail, A!VerifyEmail, SameRecords, W!VerifyEmail, X!SaveByOthers,
     X!stateVars
<1>3. ASSUME NEW o, NEW points, handleCreateTopup(c, o, points, saved)  PROVE Form
  BY <1>3 DEF handleCreateTopup, SameRecords, W!CreateTopup, X!SaveByOthers, X!stateVars
<1>4. ASSUME NEW o, NEW tradeNo, handleQueryTopupOrder(c, o, tradeNo, saved)  PROVE Form
  BY <1>4 DEF handleQueryTopupOrder, syncTopupOrder, SameRecords, W!ConfirmTopup, W!MarkClosed,
     W!RecordTradeNo, X!SaveByOthers, X!stateVars
<1>5. ASSUME NEW p \in Plans, NEW g \in GrantIds, NEW e \in EntIds,
             handleRedeem(c, p, g, e, saved)
      PROVE  Form
  <2>1. Redeems(c, p, g, e, saved)  BY <1>5 DEF handleRedeem, Redeems
  <2>2. A!EndCall(c) /\ AllSaved(saved)
    BY <1>5 DEF handleRedeem, W!Redeem, X!Redeem
  <2> QED BY <2>1, <2>2
<1>6. ASSUME NEW d \in DeviceIds,
             handleBindDevice(c, d, saved) \/ handleUnbindDevice(c, d, saved)
      PROVE  Form
  <2>1. Binds(c, d, saved)
    BY <1>6 DEF handleBindDevice, handleUnbindDevice, Binds, W!SaveByOthers
  <2>2. A!EndCall(c) /\ AllSaved(saved)
    BY <1>6 DEF handleBindDevice, handleUnbindDevice, W!SaveByOthers, X!BindDevice, X!UnbindDevice
  <2> QED BY <2>1, <2>2
<1>7. ASSUME NEW e \in EntIds, NEW d \in DeviceIds, NEW n \in Nodes, NEW protocol \in Protocols,
             NEW s \in SessionIds, handleConnect(c, e, d, n, protocol, s, saved)
      PROVE  Form
  <2>1. Connects(c, saved)  BY <1>7 DEF handleConnect, Connects, W!SaveByOthers
  <2>2. A!EndCall(c) /\ AllSaved(saved)  BY <1>7 DEF handleConnect, W!SaveByOthers, X!Connect
  <2> QED BY <2>1, <2>2
<1>8. ASSUME NEW s \in SessionIds, handleDisconnect(c, s, saved)  PROVE Form
  <2>1. Connects(c, saved)  BY <1>8 DEF handleDisconnect, Connects, W!SaveByOthers
  <2>2. A!EndCall(c) /\ AllSaved(saved)  BY <1>8 DEF handleDisconnect, W!SaveByOthers, X!Disconnect
  <2> QED BY <2>1, <2>2
<1> HIDE DEF Form
<1>9. Form  BY <1>1, <1>2, <1>3, <1>4, <1>5, <1>6, <1>7, <1>8 DEF Authenticated
<1> QED BY <1>9 DEF Form

(* The steps that save nothing change nothing that is linked. *)
LEMMA OtherSteps ==
  ASSUME \/ \E c \in Callers : Answer(c) \/ \E t \in Tokens : withAuth(c, t)
         \/ Tick
         \/ UNCHANGED planeVars
  PROVE  UNCHANGED <<users, grants, entitlements, devices, sessions,
                     accountsRow, walletRow, accessRow>>
  BY DEF Answer, withAuth, Tick, planeVars, accountsVars, walletVars, accessVars,
     A!AnsweredByOthers, A!Authenticate, A!stateVars, X!Tick, X!stateVars

-----------------------------------------------------------------------------
(* Purchases and entitlements match, person by person and plan by plan. *)
PairsMatch(m) ==
    \A u \in UserIds, p \in Plans :
        /\ IsFiniteSet(Bought(m, u, p)) /\ IsFiniteSet(Held(m, u, p))
        /\ Cardinality(Held(m, u, p)) = Cardinality(Bought(m, u, p))

DevicesOwned(m) ==
    \A d \in DOMAIN m.access.devices : m.access.devices[d] \in DOMAIN m.accounts

Linked(m) == PairsMatch(m) /\ DevicesOwned(m)

(* The two parts of the row that know who is verified agree. *)
RowsAgree == walletRow.verified = VerifiedIn(accountsRow.users)

(* The inductive invariant: how the parts are linked in either copy. *)
PlaneInv == Linked(Memory) /\ Linked(Row) /\ RowsAgree

(* Where the linked maps are in the copy in memory, *)
LEMMA MemoryParts ==
  /\ Memory.accounts = users /\ Memory'.accounts = users'
  /\ Memory.wallet.grants = grants /\ Memory'.wallet.grants = grants'
  /\ Memory.access.entitlements = entitlements
  /\ Memory'.access.entitlements = entitlements'
  /\ Memory.access.devices = devices /\ Memory'.access.devices = devices'
  BY DEF Memory, W!Memory, X!Memory

(* and in the stored one. *)
LEMMA RowParts ==
  /\ Row.accounts = accountsRow.users /\ Row'.accounts = accountsRow'.users
  /\ Row.wallet = walletRow /\ Row'.wallet = walletRow'
  /\ Row.access = accessRow /\ Row'.access = accessRow'
  BY DEF Row

(* Linked only looks at who has accounts, at purchases, entitlements, devices. *)
LEMMA LinkedSame ==
  ASSUME NEW m, NEW n, Linked(m),
         DOMAIN m.accounts \subseteq DOMAIN n.accounts,
         n.wallet.grants = m.wallet.grants,
         n.access.entitlements = m.access.entitlements,
         n.access.devices = m.access.devices
  PROVE  Linked(n)
<1>1. \A u, p : Bought(n, u, p) = Bought(m, u, p) /\ Held(n, u, p) = Held(m, u, p)
  BY DEF Bought, Held
<1>2. PairsMatch(n)  BY <1>1 DEF Linked, PairsMatch
<1>3. DevicesOwned(n)  BY DEF Linked, DevicesOwned
<1> QED BY <1>2, <1>3 DEF Linked

(* The empty server is linked. *)
LEMMA InitLinked == PlaneInit => PlaneInv
<1> SUFFICES ASSUME PlaneInit PROVE PlaneInv  OBVIOUS
<1>1. /\ users = A!EmptyMap /\ grants = W!EmptyMap
      /\ entitlements = X!EmptyMap /\ devices = X!EmptyMap
      /\ accountsRow = A!Snapshot /\ walletRow = W!Memory /\ accessRow = X!Memory
  BY DEF PlaneInit, A!Init, W!Init, X!Init
<1>2. /\ DOMAIN users = {} /\ DOMAIN grants = {}
      /\ DOMAIN entitlements = {} /\ DOMAIN devices = {}
  BY <1>1 DEF A!EmptyMap, W!EmptyMap, X!EmptyMap
<1>3. \A u, p : Bought(Memory, u, p) = {} /\ Held(Memory, u, p) = {}
  BY <1>2, MemoryParts DEF Bought, Held
<1>4. Linked(Memory)
  BY <1>2, <1>3, MemoryParts, FS_EmptySet DEF Linked, PairsMatch, DevicesOwned
<1>5. /\ DOMAIN accountsRow.users = {} /\ walletRow.grants = grants
      /\ accessRow.entitlements = entitlements /\ accessRow.devices = devices
      /\ walletRow.verified = VerifiedIn(users)
  BY <1>1, <1>2 DEF A!Snapshot, W!Memory, X!Memory
<1>6. Linked(Row)
  <2>1. DOMAIN Memory.accounts \subseteq DOMAIN Row.accounts
    BY <1>2, MemoryParts
  <2> QED BY <1>4, <1>5, <2>1, MemoryParts, RowParts, LinkedSame
<1>7. RowsAgree  BY <1>2, <1>5 DEF RowsAgree, VerifiedIn
<1> QED BY <1>4, <1>6, <1>7 DEF PlaneInv

(* Redeem adds one purchase and one entitlement of the same user and plan. *)
LEMMA RedeemLinks ==
  ASSUME Linked(Memory), NEW c, NEW p \in Plans, NEW g, NEW e, NEW saved,
         Redeems(c, p, g, e, saved), DOMAIN users \subseteq DOMAIN users'
  PROVE  Linked(Memory')
<1> USE MemoryParts
<1>1. /\ g \notin DOMAIN grants /\ e \notin DOMAIN entitlements
      /\ grants' = W!Put(grants, g, [user |-> User(c), plan |-> p])
      /\ \E end : entitlements' =
                     X!Put(entitlements, e, [user |-> User(c), plan |-> p, endsAt |-> end])
      /\ devices' = devices
  BY DEF Redeems, W!Redeem, X!Redeem
<1>2. /\ DOMAIN grants' = DOMAIN grants \cup {g}
      /\ \A x \in DOMAIN grants : grants'[x] = grants[x]
      /\ grants'[g] = [user |-> User(c), plan |-> p]
  BY <1>1 DEF W!Put
<1>3. /\ DOMAIN entitlements' = DOMAIN entitlements \cup {e}
      /\ \A x \in DOMAIN entitlements : entitlements'[x] = entitlements[x]
      /\ entitlements'[e].user = User(c) /\ entitlements'[e].plan = p
  BY <1>1 DEF X!Put
<1>4. ASSUME NEW u \in UserIds, NEW q \in Plans
      PROVE  /\ IsFiniteSet(Bought(Memory', u, q)) /\ IsFiniteSet(Held(Memory', u, q))
             /\ Cardinality(Held(Memory', u, q)) = Cardinality(Bought(Memory', u, q))
  <2>1. /\ IsFiniteSet(Bought(Memory, u, q)) /\ IsFiniteSet(Held(Memory, u, q))
        /\ Cardinality(Held(Memory, u, q)) = Cardinality(Bought(Memory, u, q))
    BY DEF Linked, PairsMatch
  <2>2. CASE u = User(c) /\ q = p
    <3>1. /\ Bought(Memory', u, q) = Bought(Memory, u, q) \cup {g}
          /\ g \notin Bought(Memory, u, q)
      BY <1>1, <1>2, <2>2 DEF Bought
    <3>2. /\ Held(Memory', u, q) = Held(Memory, u, q) \cup {e}
          /\ e \notin Held(Memory, u, q)
      BY <1>1, <1>3, <2>2 DEF Held
    <3>3. /\ IsFiniteSet(Bought(Memory', u, q))
          /\ Cardinality(Bought(Memory', u, q)) = Cardinality(Bought(Memory, u, q)) + 1
      <4> DEFINE S == Bought(Memory, u, q)
      <4>1. IsFiniteSet(S) /\ g \notin S  BY <2>1, <3>1
      <4> HIDE DEF S
      <4>2. IsFiniteSet(S \cup {g}) /\ Cardinality(S \cup {g}) = Cardinality(S) + 1
        BY <4>1, FS_AddElement
      <4> QED BY <3>1, <4>2 DEF S
    <3>4. /\ IsFiniteSet(Held(Memory', u, q))
          /\ Cardinality(Held(Memory', u, q)) = Cardinality(Held(Memory, u, q)) + 1
      <4> DEFINE S == Held(Memory, u, q)
      <4>1. IsFiniteSet(S) /\ e \notin S  BY <2>1, <3>2
      <4> HIDE DEF S
      <4>2. IsFiniteSet(S \cup {e}) /\ Cardinality(S \cup {e}) = Cardinality(S) + 1
        BY <4>1, FS_AddElement
      <4> QED BY <3>2, <4>2 DEF S
    <3> QED BY <2>1, <3>3, <3>4
  <2>3. CASE ~(u = User(c) /\ q = p)
    <3>1. Bought(Memory', u, q) = Bought(Memory, u, q)  BY <1>2, <2>3 DEF Bought
    <3>2. Held(Memory', u, q) = Held(Memory, u, q)  BY <1>3, <2>3 DEF Held
    <3> QED BY <2>1, <3>1, <3>2
  <2> QED BY <2>2, <2>3
<1>5. PairsMatch(Memory')  BY <1>4 DEF PairsMatch
<1>6. DevicesOwned(Memory')  BY <1>1 DEF Linked, DevicesOwned
<1> QED BY <1>5, <1>6 DEF Linked

(* A bound device is the caller's, who has an account. *)
LEMMA BindLinks ==
  ASSUME Linked(Memory), A!TokensOwned, NEW c \in Callers, A!EndCall(c), NEW d, NEW saved,
         Binds(c, d, saved), DOMAIN users \subseteq DOMAIN users'
  PROVE  Linked(Memory')
<1> USE MemoryParts
<1>1. UNCHANGED <<grants, entitlements>>
  BY DEF Binds, X!BindDevice, X!UnbindDevice
<1>2. User(c) \in DOMAIN users  BY DEF A!TokensOwned, A!EndCall, User
<1>3. \A x \in DOMAIN devices' :
         (x \in DOMAIN devices /\ devices'[x] = devices[x]) \/ devices'[x] = User(c)
  <2>1. CASE X!BindDevice(User(c), d, saved)  BY <2>1 DEF X!BindDevice, X!Put
  <2>2. CASE X!UnbindDevice(User(c), d, saved)  BY <2>2 DEF X!UnbindDevice, X!Remove
  <2> QED BY <2>1, <2>2 DEF Binds
<1>4. DevicesOwned(Memory')  BY <1>2, <1>3 DEF Linked, DevicesOwned
<1>5. PairsMatch(Memory')
  <2>1. \A u, p : /\ Bought(Memory', u, p) = Bought(Memory, u, p)
                  /\ Held(Memory', u, p) = Held(Memory, u, p)
    BY <1>1 DEF Bought, Held
  <2> QED BY <2>1 DEF Linked, PairsMatch
<1> QED BY <1>4, <1>5 DEF Linked

(* No request deletes an account. *)
LEMMA OwnersKept ==
  ASSUME PlaneNext, ~CrashRestart  PROVE DOMAIN users \subseteq DOMAIN users'
<1>1. ASSUME NEW saved \in SaveOutcomes, Anonymous(saved)
      PROVE  DOMAIN users \subseteq DOMAIN users'
  BY <1>1 DEF Anonymous, handleRegister, handleLogin, handleLogout, handleConfirmTopup,
     handleAdminQueryTopup, handleAgentBootstrap, handleAgentHeartbeat, A!Register,
     A!Put, A!Login, A!Logout, A!SaveByOthers, A!stateVars
<1>2. ASSUME NEW saved \in SaveOutcomes, NEW c \in Callers, Authenticated(c, saved)
      PROVE  DOMAIN users \subseteq DOMAIN users'
  BY <1>2 DEF Authenticated, handleRefresh, handleVerifyEmail, handleCreateTopup,
     handleQueryTopupOrder, handleRedeem, handleBindDevice, handleUnbindDevice,
     handleConnect, handleDisconnect, A!Refresh, A!VerifyEmail, A!HandledByOthers, A!stateVars
<1>3. CASE \/ \E c \in Callers : Answer(c) \/ \E t \in Tokens : withAuth(c, t)
           \/ Tick
  BY <1>3, OtherSteps
<1> QED BY <1>1, <1>2, <1>3 DEF PlaneNext

(* One save stores the linked maps together, or none of them. *)
LEMMA SavedLinks ==
  ASSUME NEW saved, AllSaved(saved), PlaneInv, Linked(Memory'), A!TypeOK'
  PROVE  Linked(Row') /\ RowsAgree'
<1>1. CASE saved = "failed"
  <2>1. UNCHANGED <<accountsRow, walletRow, accessRow>>
    BY <1>1 DEF AllSaved, A!saveLocked, W!saveLocked, X!saveLocked
  <2>2. Row' = Row  BY <2>1 DEF Row
  <2> QED BY <2>1, <2>2 DEF PlaneInv, RowsAgree
<1>2. CASE saved # "failed"
  <2>1. accountsRow' = A!Snapshot' /\ walletRow' = W!Memory' /\ accessRow' = X!Memory'
    BY <1>2 DEF AllSaved, A!saveLocked, W!saveLocked, X!saveLocked
  <2>2. /\ DOMAIN accountsRow'.users = DOMAIN users'
        /\ \A u \in DOMAIN users' : accountsRow'.users[u] = A!Marshal(users'[u])
        /\ walletRow'.grants = grants' /\ walletRow'.verified = VerifiedIn(users')
        /\ accessRow'.entitlements = entitlements' /\ accessRow'.devices = devices'
    BY <2>1 DEF A!Snapshot, W!Memory, X!Memory
  <2>3. Linked(Row')  BY <2>2, MemoryParts, RowParts, LinkedSame
  <2>4. \A u \in DOMAIN users' : accountsRow'.users[u].verified = users'[u].verified
    <3>1. \A u \in DOMAIN users' : users'[u] \in A!User
      BY DEF A!TypeOK, A!WellFormed, A!IsMap, A!Memory
    <3> QED BY <2>2, <3>1 DEF A!Marshal, A!User
  <2>5. VerifiedIn(accountsRow'.users) = VerifiedIn(users')
    BY <2>2, <2>4 DEF VerifiedIn
  <2>6. RowsAgree'  BY <2>2, <2>5 DEF RowsAgree
  <2> QED BY <2>3, <2>6
<1> QED BY <1>1, <1>2

(* Every step of the server keeps the links. *)
LEMMA PlaneStep ==
  ASSUME A!TypeOK, A!TokensOwned, A!TypeOK', PlaneInv, [PlaneNext]_planeVars
  PROVE  PlaneInv'
<1> USE MemoryParts, RowParts
<1>1. ASSUME NEW saved \in SaveOutcomes, Anonymous(saved), ~CrashRestart, PlaneNext
      PROVE  PlaneInv'
  <2>1. AllSaved(saved) /\ SameRecords  BY <1>1, AnonymousForm
  <2>2. Linked(Memory')
    <3>1. DOMAIN users \subseteq DOMAIN users'  BY <1>1, OwnersKept
    <3>2. UNCHANGED <<grants, entitlements, devices>>  BY <2>1 DEF SameRecords
    <3>3. Linked(Memory)  BY DEF PlaneInv
    <3> QED BY <3>1, <3>2, <3>3, LinkedSame
  <2>3. Linked(Row') /\ RowsAgree'  BY <2>1, <2>2, SavedLinks
  <2> QED BY <2>2, <2>3 DEF PlaneInv
<1>2. ASSUME NEW saved \in SaveOutcomes, NEW c \in Callers, Authenticated(c, saved),
             ~CrashRestart, PlaneNext
      PROVE  PlaneInv'
  <2>1. A!EndCall(c) /\ AllSaved(saved)  BY <1>2, AuthenticatedForm
  <2>2. DOMAIN users \subseteq DOMAIN users'  BY <1>2, OwnersKept
  <2>3. ASSUME SameRecords  PROVE Linked(Memory')
    <3>1. UNCHANGED <<grants, entitlements, devices>>  BY <2>3 DEF SameRecords
    <3>2. Linked(Memory)  BY DEF PlaneInv
    <3> QED BY <2>2, <3>1, <3>2, LinkedSame
  <2>4. ASSUME NEW p \in Plans, NEW g \in GrantIds, NEW e \in EntIds, Redeems(c, p, g, e, saved)
        PROVE  Linked(Memory')
    BY <2>2, <2>4, RedeemLinks DEF PlaneInv
  <2>5. ASSUME NEW d \in DeviceIds, Binds(c, d, saved)  PROVE Linked(Memory')
    BY <2>1, <2>2, <2>5, BindLinks DEF PlaneInv
  <2>6. ASSUME Connects(c, saved)  PROVE Linked(Memory')
    <3>1. UNCHANGED <<grants, entitlements, devices>>
      BY <2>6 DEF Connects, X!Connect, X!Disconnect
    <3> QED BY <2>2, <3>1, LinkedSame DEF PlaneInv
  <2>7. Linked(Memory')  BY <1>2, <2>3, <2>4, <2>5, <2>6, AuthenticatedForm
  <2>8. Linked(Row') /\ RowsAgree'  BY <2>1, <2>7, SavedLinks
  <2> QED BY <2>7, <2>8 DEF PlaneInv
<1>3. CASE \/ \E c \in Callers : Answer(c) \/ \E t \in Tokens : withAuth(c, t)
           \/ Tick
           \/ UNCHANGED planeVars
  <2>1. UNCHANGED <<users, grants, entitlements, devices, accountsRow, walletRow, accessRow>>
    BY <1>3, OtherSteps
  <2>2. Linked(Memory')  BY <2>1, LinkedSame DEF PlaneInv
  <2>3. Linked(Row')  BY <2>1, LinkedSame DEF PlaneInv
  <2> QED BY <2>1, <2>2, <2>3 DEF PlaneInv, RowsAgree
<1>4. CASE CrashRestart
  <2>1. /\ users' = accountsRow.users /\ grants' = walletRow.grants
        /\ entitlements' = accessRow.entitlements /\ devices' = accessRow.devices
        /\ UNCHANGED <<accountsRow, walletRow, accessRow>>
    BY <1>4 DEF CrashRestart, A!CrashRestart, W!CrashRestart, X!CrashRestart
  <2>2. Linked(Memory')  BY <2>1, LinkedSame DEF PlaneInv
  <2>3. Linked(Row')  BY <2>1, LinkedSame DEF PlaneInv
  <2> QED BY <2>1, <2>2, <2>3 DEF PlaneInv, RowsAgree
<1> QED BY <1>1, <1>2, <1>3, <1>4 DEF PlaneNext

(* The links hold in every state. *)
LEMMA PlaneAlways == PlaneSpec => []PlaneInv
<1>1. PlaneInit => PlaneInv  BY InitLinked
<1>2. A!TypeOK /\ A!TokensOwned /\ A!TypeOK' /\ PlaneInv /\ [PlaneNext]_planeVars => PlaneInv'
  BY PlaneStep
<1> QED BY <1>1, <1>2, AccountsHold, PTL DEF PlaneSpec

-----------------------------------------------------------------------------
(* All that the parts promise of one copy m of the state, and how it is linked. *)
Whole(m) ==
    /\ \A t \in DOMAIN m.tokens : m.tokens[t] \in DOMAIN m.accounts
    /\ m.wallet.verified = VerifiedIn(m.accounts)
    /\ W!WellFormed(m.wallet) /\ W!OwnersVerified(m.wallet)
    /\ W!EntriesJustified(m.wallet) /\ W!GrantsCharged(m.wallet)
    /\ W!BalancesChain(m.wallet) /\ W!ChargesCovered(m.wallet)
    /\ X!WellFormed(m.access) /\ X!SessionsRooted(m.access)
    /\ Linked(m)

(* Each copy of the state is whole in every state. *)
LEMMA WholeAlways == PlaneSpec => [](Whole(Memory) /\ Whole(Row))
<1> DEFINE Parts == /\ A!TokensOwned /\ PlaneInv /\ W!TypeOK /\ W!OrdersOfVerifiedUsers
                    /\ W!NothingUnbooked /\ W!RunningBalance /\ W!NoOverdraft
                    /\ X!TypeOK /\ X!ConnectedDeviceBound
<1>1. Parts => Whole(Memory)
  <2>1. /\ Memory.tokens = tokens /\ Memory.accounts = users
        /\ Memory.wallet = W!Memory /\ Memory.access = X!Memory
        /\ W!Memory.verified = VerifiedIn(users)
    BY DEF Memory, W!Memory
  <2>2. A!TokensOwned => \A t \in DOMAIN tokens : tokens[t] \in DOMAIN users
    BY DEF A!TokensOwned, A!TokensHaveUsers, A!Memory
  <2> QED
    BY <2>1, <2>2 DEF Whole, PlaneInv, W!TypeOK, W!OrdersOfVerifiedUsers,
       W!NothingUnbooked, W!RunningBalance, W!NoOverdraft, X!TypeOK, X!ConnectedDeviceBound
<1>2. Parts => Whole(Row)
  <2>1. /\ Row.tokens = accountsRow.tokens /\ Row.accounts = accountsRow.users
        /\ Row.wallet = walletRow /\ Row.access = accessRow
    BY DEF Row
  <2>2. A!TokensOwned =>
           \A t \in DOMAIN accountsRow.tokens : accountsRow.tokens[t] \in DOMAIN accountsRow.users
    BY DEF A!TokensOwned, A!TokensHaveUsers
  <2> QED
    BY <2>1, <2>2 DEF Whole, PlaneInv, RowsAgree, W!TypeOK, W!OrdersOfVerifiedUsers,
       W!NothingUnbooked, W!RunningBalance, W!NoOverdraft, X!TypeOK, X!ConnectedDeviceBound
<1> HIDE DEF Parts
<1>3. PlaneSpec => []Parts
  BY AccountsHold, WalletHolds, AccessHolds, PlaneAlways, PTL DEF Parts
<1> QED BY <1>1, <1>2, <1>3, PTL

(* A charge on an empty ledger does not wrap around: it is below zero. *)
LEMMA UnwrappedCharge ==
  ASSUME NEW price \in 1..(HalfRange - 1)
  PROVE  W!Wrap(0 + (-price)) = -price /\ ~(-price >= 0)
<1>1. HalfRange \in Nat  BY PlaneConstants DEF W!WalletConstants
<1>2. -price \in W!Ints /\ 0 + (-price) = -price /\ ~(-price >= 0)
  BY <1>1 DEF W!Ints
<1> QED BY <1>2 DEF W!Wrap

(* Who holds an entitlement has a purchase; its charge cannot be the first    *)
(* entry of the ledger, which would leave it below zero; so that entry is a   *)
(* credit, and behind it stands a paid order.                                 *)
LEMMA HolderHasPaid ==
  ASSUME NEW m, Whole(m), NEW e \in DOMAIN m.access.entitlements
  PROVE  PaidOrders(m, m.access.entitlements[e].user) # {}
<1> DEFINE u == m.access.entitlements[e].user
           p == m.access.entitlements[e].plan
           entries == m.wallet.ledger[u]
<1>1. u \in UserIds /\ p \in Plans
  BY DEF Whole, X!WellFormed, X!IsMap, X!Entitlement
<1>2. Bought(m, u, p) # {}
  <2>1. e \in Held(m, u, p)  BY DEF Held
  <2>2. /\ IsFiniteSet(Bought(m, u, p)) /\ IsFiniteSet(Held(m, u, p))
        /\ Cardinality(Held(m, u, p)) = Cardinality(Bought(m, u, p))
    BY <1>1 DEF Whole, Linked, PairsMatch
  <2> QED BY <2>1, <2>2, FS_EmptySet
<1>3. PICK i \in DOMAIN entries : TRUE
  <2>1. PICK g \in DOMAIN m.wallet.grants : m.wallet.grants[g].user = u
    BY <1>2 DEF Bought
  <2> QED BY <2>1 DEF Whole, W!GrantsCharged, W!HasEntry
<1>4. entries \in Seq(W!LedgerEntry)
  BY <1>1 DEF Whole, W!WellFormed
<1>5. 1 \in DOMAIN entries  BY <1>3, <1>4
<1>6. W!IsCredit(m.wallet, u, entries[1]) \/ W!IsCharge(m.wallet, u, entries[1])
  BY <1>1, <1>5 DEF Whole, W!EntriesJustified
<1>7. CASE W!IsCharge(m.wallet, u, entries[1])
  <2>1. PICK q \in Plans : entries[1].delta = -Price[q] /\ entries[1].type = "redeem"
    BY <1>7 DEF W!IsCharge, Whole, W!WellFormed, W!IsMap, W!Grant
  <2>2. PICK price \in 1..(HalfRange - 1) : entries[1].delta = -price
    BY <2>1, PlaneConstants DEF W!WalletConstants
  <2>3. entries[1].balance = W!Wrap(0 + (-price))
    BY <1>1, <1>5, <2>2 DEF Whole, W!BalancesChain
  <2>4. entries[1].balance = -price  BY <2>3, UnwrappedCharge
  <2>5. entries[1].balance >= 0
    BY <1>1, <1>5, <2>1 DEF Whole, W!ChargesCovered
  <2>6. -price >= 0  BY <2>4, <2>5
  <2>7. ~(-price >= 0)  BY UnwrappedCharge
  <2> QED BY <2>6, <2>7
<1>8. CASE W!IsCredit(m.wallet, u, entries[1])
  BY <1>8 DEF W!IsCredit, PaidOrders
<1> QED BY <1>6, <1>7, <1>8

(* Everybody holds exactly the entitlements they were charged for, in memory *)
(* and in the row, however many there are (Redeem, saveLocked).              *)
THEOREM EntitlementsPaid == PlaneSpec => []EntitlementsPaidFor
<1>1. PlaneInv => EntitlementsPaidFor
  BY DEF PlaneInv, Linked, PairsMatch, EntitlementsPaidFor
<1> QED BY <1>1, PlaneAlways, PTL

-----------------------------------------------------------------------------
(* What BookProofs shows of the wallet's maps, of the server's. *)
LEMMA PlaneMapsCovered ==
  PlaneSpec => [](WP!MapsCovered(Memory.wallet) /\ WP!MapsCovered(Row.wallet))
<1>1. PlaneSpec => WP!Spec  BY PlaneRefinesWallet, WalletSame
<1>2. WP!Spec => [](WP!MapsCovered(WP!Memory) /\ WP!MapsCovered(walletRow))
  BY WalletConstantsHold, WP!MapsAlwaysCovered
<1>3. WP!MapsCovered(WP!Memory) /\ WP!MapsCovered(walletRow) =>
         WP!MapsCovered(Memory.wallet) /\ WP!MapsCovered(Row.wallet)
  <2>1. Memory.wallet = WP!Memory /\ Row.wallet = walletRow
    BY DEF Memory, Row, W!Memory, WP!Memory
  <2> QED BY <2>1
<1> QED BY <1>1, <1>2, <1>3, PTL

(* The wallet counts as the server does. *)
LEMMA CountsSame ==
  /\ \A S : WP!IsFiniteSet(S) <=> IsFiniteSet(S)
  /\ \A S : WP!Cardinality(S) = Cardinality(S)
  BY DEF WP!IsFiniteSet, IsFiniteSet, WP!Cardinality, Cardinality

(* Since u holds what u bought, plan by plan, what u holds cost no more. *)
LEMMA HeldCostsLess ==
  ASSUME NEW m, NEW u \in UserIds, PairsMatch(m), X!WellFormed(m.access),
         IsFiniteSet(WP!GrantPoints(m.wallet, u))
  PROVE  /\ IsFiniteSet(PointsHeld(m, u))
         /\ Cardinality(PointsHeld(m, u)) <= Cardinality(WP!GrantPoints(m.wallet, u))
<1> DEFINE held == {e \in DOMAIN m.access.entitlements : m.access.entitlements[e].user = u}
           plan(e) == m.access.entitlements[e].plan
           pairing == [p \in Plans |-> CHOOSE h : h \in Bijection(Held(m, u, p), Bought(m, u, p))]
           f == [x \in PointsHeld(m, u) |-> <<pairing[plan(x[1])][x[1]], x[2]>>]
           S == PointsHeld(m, u)
           T == WP!GrantPoints(m.wallet, u)
<1>1. \A p \in Plans : pairing[p] \in Bijection(Held(m, u, p), Bought(m, u, p))
  <2> SUFFICES ASSUME NEW p \in Plans
               PROVE  \E h : h \in Bijection(Held(m, u, p), Bought(m, u, p))
    OBVIOUS
  <2>1. /\ IsFiniteSet(Bought(m, u, p)) /\ IsFiniteSet(Held(m, u, p))
        /\ Cardinality(Held(m, u, p)) = Cardinality(Bought(m, u, p))
    BY DEF PairsMatch
  <2> DEFINE B == Bought(m, u, p)
             H == Held(m, u, p)
  <2> HIDE DEF B, H
  <2>2. ExistsBijection(H, B)  BY <2>1, FS_SameCardinalityBij DEF B, H
  <2> QED BY <2>2 DEF ExistsBijection, B, H
<1> HIDE DEF pairing
<1>2. ASSUME NEW x \in S
      PROVE  /\ x = <<x[1], x[2]>> /\ plan(x[1]) \in Plans
             /\ x[1] \in Held(m, u, plan(x[1])) /\ x[2] \in 1..Price[plan(x[1])]
  <2>1. PICK e \in held : x \in {e} \X (1..Price[plan(e)])  BY DEF PointsHeld
  <2>2. plan(e) \in Plans
    BY DEF X!WellFormed, X!IsMap, X!Entitlement
  <2> QED BY <2>1, <2>2 DEF Held
<1>3. ASSUME NEW p \in Plans, NEW e \in Held(m, u, p)
      PROVE  pairing[p][e] \in Bought(m, u, p)
  BY <1>1, Fun_BijectionProperties
<1>4. \A x \in S : f[x] \in T
  <2> SUFFICES ASSUME NEW x \in S
               PROVE  <<pairing[plan(x[1])][x[1]], x[2]>> \in T
    OBVIOUS
  <2>1. pairing[plan(x[1])][x[1]] \in Bought(m, u, plan(x[1]))  BY <1>2, <1>3
  <2> DEFINE g == pairing[plan(x[1])][x[1]]
  <2>2. /\ g \in DOMAIN m.wallet.grants /\ m.wallet.grants[g].user = u
        /\ m.wallet.grants[g].plan = plan(x[1])
    BY <2>1 DEF Bought
  <2>3. x[2] \in 1..Price[plan(x[1])]  BY <1>2
  <2> HIDE DEF g, plan
  <2>4. <<g, x[2]>> \in {g} \X (1..Price[m.wallet.grants[g].plan])  BY <2>2, <2>3
  <2> QED BY <2>2, <2>4 DEF WP!GrantPoints, g
<1>5. ASSUME NEW x \in S, NEW y \in S, f[x] = f[y]  PROVE x = y
  <2> DEFINE p == plan(x[1])
             q == plan(y[1])
  <2>1. pairing[p][x[1]] = pairing[q][y[1]] /\ x[2] = y[2]  BY <1>5
  <2>2. p \in Plans /\ q \in Plans /\ x[1] \in Held(m, u, p) /\ y[1] \in Held(m, u, q)
    BY <1>2
  <2> HIDE DEF p, q
  <2>3. pairing[p][x[1]] \in Bought(m, u, p) /\ pairing[q][y[1]] \in Bought(m, u, q)
    BY <1>3, <2>2
  <2>4. p = q  BY <2>1, <2>3 DEF Bought
  <2>5. x[1] = y[1]  BY <1>1, <2>1, <2>2, <2>4, Fun_BijectionProperties
  <2>6. x = <<x[1], x[2]>> /\ y = <<y[1], y[2]>>  BY <1>2
  <2> QED BY <2>1, <2>5, <2>6
<1>6. f \in [S -> T]  BY <1>4
<1>7. f \in Injection(S, T)
  <2> HIDE DEF f, S, T
  <2> QED BY <1>5, <1>6, Fun_IsInj
<1>8. IsFiniteSet(T)  OBVIOUS
<1>9. IsFiniteSet(S) /\ Cardinality(S) <= Cardinality(T)
  <2> HIDE DEF f, S, T
  <2> QED BY <1>7, <1>8, FS_Injection
<1> QED BY <1>9

(* Nobody holds what they did not pay for, point for point and in either     *)
(* copy, for any prices and any number of purchases that an int can count:   *)
(* the book of the wallet, across the link to the entitlements (ConfirmTopup,*)
(* Redeem, saveLocked).                                                      *)
THEOREM HeldWasPaid == PlaneSpec => []HoldingsCovered
<1>1. ASSUME NEW m, Whole(m), WP!MapsCovered(m.wallet), NEW u \in UserIds,
             Cardinality(PointsPaid(m, u)) < HalfRange
      PROVE  Cardinality(PointsHeld(m, u)) <= Cardinality(PointsPaid(m, u))
  <2> DEFINE G == WP!GrantPoints(m.wallet, u)
             O == WP!OrderPoints(m.wallet, u)
             H == PointsHeld(m, u)
  <2>1. PointsPaid(m, u) = O
    BY DEF PointsPaid, PaidOrders, WP!OrderPoints
  <2>2. /\ IsFiniteSet(O) /\ IsFiniteSet(G)
        /\ Cardinality(O) < HalfRange => Cardinality(G) <= Cardinality(O)
    BY <1>1, CountsSame DEF WP!MapsCovered
  <2>3. IsFiniteSet(H) /\ Cardinality(H) <= Cardinality(G)
    BY <1>1, <2>2, HeldCostsLess DEF Whole, Linked
  <2> HIDE DEF G, O, H
  <2>4. Cardinality(G) <= Cardinality(O)  BY <1>1, <2>1, <2>2
  <2>5. Cardinality(G) \in Nat /\ Cardinality(O) \in Nat /\ Cardinality(H) \in Nat
    BY <2>2, <2>3, FS_CardinalityType
  <2> QED BY <2>1, <2>3, <2>4, <2>5 DEF H
<1>2. ASSUME Whole(Memory), Whole(Row),
             WP!MapsCovered(Memory.wallet), WP!MapsCovered(Row.wallet)
      PROVE  HoldingsCovered
  <2> SUFFICES ASSUME NEW m \in {Memory, Row}, NEW u \in UserIds,
                      Cardinality(PointsPaid(m, u)) < HalfRange
               PROVE  Cardinality(PointsHeld(m, u)) <= Cardinality(PointsPaid(m, u))
    BY DEF HoldingsCovered
  <2>1. Whole(m) /\ WP!MapsCovered(m.wallet)  BY <1>2
  <2> QED BY <1>1, <2>1
<1> QED BY <1>2, WholeAlways, PlaneMapsCovered, PTL

-----------------------------------------------------------------------------
(* In a whole copy every record has its owner. *)
LEMMA WholeOwned == ASSUME NEW m, Whole(m)  PROVE Owned(m)
<1>1. \A o \in DOMAIN m.wallet.orders : m.wallet.orders[o].user \in VerifiedIn(m.accounts)
  BY DEF Whole, W!OwnersVerified
<1>2. ASSUME NEW e \in DOMAIN m.access.entitlements
      PROVE  m.access.entitlements[e].user \in VerifiedIn(m.accounts)
  <2>1. PICK o \in DOMAIN m.wallet.orders :
             m.wallet.orders[o].user = m.access.entitlements[e].user
    BY HolderHasPaid DEF PaidOrders
  <2> QED BY <1>1, <2>1
<1>3. \A d \in DOMAIN m.access.devices : m.access.devices[d] \in DOMAIN m.accounts
  BY DEF Whole, Linked, DevicesOwned
<1>4. \A s \in DOMAIN m.access.sessions :
         m.access.sessions[s].user \in VerifiedIn(m.accounts)
  BY <1>2 DEF Whole, X!SessionsRooted
<1> QED BY <1>1, <1>2, <1>3, <1>4 DEF Owned, Whole

(* Every record of either copy has its owner there, verified where it has to *)
(* be: an entitlement's owner because the points came from a top-up, which   *)
(* only verified users may ask for (CreateTopup, Redeem, Connect).           *)
THEOREM RecordsOwned == PlaneSpec => []RecordsHaveOwners
<1>1. Whole(Memory) /\ Whole(Row) => RecordsHaveOwners
  BY WholeOwned DEF RecordsHaveOwners
<1> QED BY <1>1, WholeAlways, PTL

(* Nobody is connected without a paid order in the same copy of the state: *)
(* session, entitlement, purchase, ledger and order hang together through  *)
(* every save, failed save and restart (Connect, Redeem, ConfirmTopup).    *)
THEOREM ConnectedPaid == PlaneSpec => []ConnectedHavePaid
<1>1. ASSUME NEW m, Whole(m), NEW s \in DOMAIN m.access.sessions
      PROVE  PaidOrders(m, m.access.sessions[s].user) # {}
  <2>1. PICK e \in DOMAIN m.access.entitlements :
             m.access.entitlements[e].user = m.access.sessions[s].user
    BY <1>1 DEF Whole, X!SessionsRooted
  <2> QED BY <1>1, <2>1, HolderHasPaid
<1>2. Whole(Memory) /\ Whole(Row) => ConnectedHavePaid
  BY <1>1 DEF ConnectedHavePaid
<1> QED BY <1>2, WholeAlways, PTL

-----------------------------------------------------------------------------
(* Nobody's holdings change where no record does. *)
LEMMA SameHoldings ==
  ASSUME SameRecords, NEW u  PROVE HoldingsOf(u)' = HoldingsOf(u)
  BY DEF SameRecords, HoldingsOf, X!BoundDevices, X!Memory

(* What an authenticated request does to somebody else's records: nothing. *)
LEMMA OthersUntouched ==
  ASSUME X!TypeOK, NEW saved, NEW c, Authenticated(c, saved), NEW u, u # User(c)
  PROVE  HoldingsOf(u)' = HoldingsOf(u)
<1> SUFFICES /\ {g \in DOMAIN grants' : grants'[g].user = u}
                  = {g \in DOMAIN grants : grants[g].user = u}
             /\ {e \in DOMAIN entitlements' : entitlements'[e].user = u}
                  = {e \in DOMAIN entitlements : entitlements[e].user = u}
             /\ {d \in DOMAIN devices' : devices'[d] = u} = {d \in DOMAIN devices : devices[d] = u}
             /\ [s \in {x \in DOMAIN sessions' : sessions'[x].user = u} |-> sessions'[s]]
                  = [s \in {x \in DOMAIN sessions : sessions[x].user = u} |-> sessions[s]]
  BY DEF HoldingsOf, X!BoundDevices, X!Memory
<1>1. CASE SameRecords  BY <1>1 DEF SameRecords
<1>2. ASSUME NEW p, NEW g, NEW e, Redeems(c, p, g, e, saved)
      PROVE  /\ {x \in DOMAIN grants' : grants'[x].user = u}
                  = {x \in DOMAIN grants : grants[x].user = u}
             /\ {x \in DOMAIN entitlements' : entitlements'[x].user = u}
                  = {x \in DOMAIN entitlements : entitlements[x].user = u}
             /\ UNCHANGED <<devices, sessions>>
  <2>1. /\ g \notin DOMAIN grants /\ e \notin DOMAIN entitlements
        /\ grants' = W!Put(grants, g, [user |-> User(c), plan |-> p])
        /\ \E end : entitlements' =
                       X!Put(entitlements, e, [user |-> User(c), plan |-> p, endsAt |-> end])
        /\ UNCHANGED <<devices, sessions>>
    BY <1>2 DEF Redeems, W!Redeem, X!Redeem
  <2> QED BY <2>1 DEF W!Put, X!Put
<1>3. ASSUME NEW d, Binds(c, d, saved)
      PROVE  /\ {x \in DOMAIN devices' : devices'[x] = u} = {x \in DOMAIN devices : devices[x] = u}
             /\ UNCHANGED <<grants, entitlements, sessions>>
  <2>1. CASE X!BindDevice(User(c), d, saved)
    BY <1>3, <2>1 DEF Binds, X!BindDevice, X!NewDeviceId, X!Put
  <2>2. CASE X!UnbindDevice(User(c), d, saved)
    BY <1>3, <2>2 DEF Binds, X!UnbindDevice, X!Remove
  <2> QED BY <1>3, <2>1, <2>2 DEF Binds
<1>4. ASSUME Connects(c, saved)
      PROVE  /\ UNCHANGED <<grants, entitlements, devices>>
             /\ {x \in DOMAIN sessions' : sessions'[x].user = u}
                  = {x \in DOMAIN sessions : sessions[x].user = u}
             /\ \A s \in DOMAIN sessions : sessions[s].user = u => sessions'[s] = sessions[s]
  <2>1. ASSUME NEW e, NEW d, NEW n, NEW protocol, NEW s,
               X!Connect(User(c), e, d, n, protocol, s, saved)
        PROVE  /\ UNCHANGED <<entitlements, devices>>
               /\ {x \in DOMAIN sessions' : sessions'[x].user = u}
                    = {x \in DOMAIN sessions : sessions[x].user = u}
               /\ \A x \in DOMAIN sessions : sessions[x].user = u => sessions'[x] = sessions[x]
    BY <2>1 DEF X!Connect, X!Put
  <2>2. ASSUME NEW s, X!Disconnect(User(c), s, saved)
        PROVE  /\ UNCHANGED <<entitlements, devices>>
               /\ {x \in DOMAIN sessions' : sessions'[x].user = u}
                    = {x \in DOMAIN sessions : sessions[x].user = u}
               /\ \A x \in DOMAIN sessions : sessions[x].user = u => sessions'[x] = sessions[x]
    <3>1. sessions \in [DOMAIN sessions -> X!Session]
      BY DEF X!TypeOK, X!WellFormed, X!IsMap, X!Memory
    <3>2. /\ DOMAIN sessions' = DOMAIN sessions
          /\ sessions[s].user = User(c) /\ s \in DOMAIN sessions
          /\ sessions'[s] = [sessions[s] EXCEPT !.status = "disconnected"]
          /\ \A x \in DOMAIN sessions : x # s => sessions'[x] = sessions[x]
      BY <2>2, <3>1 DEF X!Disconnect
    <3>3. sessions'[s].user = User(c)
      <4>1. sessions[s] \in X!Session  BY <3>1, <3>2
      <4> QED BY <3>2, <4>1 DEF X!Session
    <3> QED BY <2>2, <3>2, <3>3 DEF X!Disconnect
  <2> QED BY <1>4, <2>1, <2>2 DEF Connects
<1>5. CASE Connects(c, saved)
  <2> DEFINE mine == {x \in DOMAIN sessions : sessions[x].user = u}
  <2>1. /\ {x \in DOMAIN sessions' : sessions'[x].user = u} = mine
        /\ \A s \in mine : sessions'[s] = sessions[s]
    BY <1>4, <1>5
  <2> QED BY <1>4, <1>5, <2>1
<1>6. CASE \E p \in Plans, g \in GrantIds, e \in EntIds : Redeems(c, p, g, e, saved)
  BY <1>2, <1>6
<1>7. CASE \E d \in DeviceIds : Binds(c, d, saved)
  BY <1>3, <1>7
<1> QED BY <1>1, <1>5, <1>6, <1>7, AuthenticatedForm

(* What a user holds changes by requests that authenticated as that user and *)
(* by restarts alone (withAuth and the handlers behind it).                  *)
THEOREM OwnChanges == PlaneSpec => OwnRequestsOnly
<1> DEFINE Mine(u) == \/ HoldingsOf(u)' = HoldingsOf(u)
                      \/ AnsweredCallOf(u) \/ CrashRestart
<1>1. ASSUME X!TypeOK, [PlaneNext]_planeVars, NEW u \in UserIds  PROVE Mine(u)
  <2>1. ASSUME NEW saved \in SaveOutcomes, Anonymous(saved)  PROVE Mine(u)
    BY <2>1, AnonymousForm, SameHoldings
  <2>2. ASSUME NEW saved \in SaveOutcomes, NEW c \in Callers, Authenticated(c, saved)
        PROVE  Mine(u)
    <3>1. A!EndCall(c)  BY <2>2, AuthenticatedForm
    <3>2. CASE u = User(c)  BY <3>1, <3>2 DEF AnsweredCallOf
    <3>3. CASE u # User(c)  BY <1>1, <2>2, <3>3, OthersUntouched
    <3> QED BY <3>2, <3>3
  <2>3. CASE \/ \E c \in Callers : Answer(c) \/ \E t \in Tokens : withAuth(c, t)
             \/ Tick
             \/ UNCHANGED planeVars
    BY <2>3, OtherSteps, SameHoldings DEF SameRecords
  <2>4. CASE CrashRestart  BY <2>4
  <2> QED BY <1>1, <2>1, <2>2, <2>3, <2>4 DEF PlaneNext
<1>2. X!TypeOK /\ [PlaneNext]_planeVars =>
        \A u \in UserIds : HoldingsOf(u)' = HoldingsOf(u)
                            \/ AnsweredCallOf(u) \/ CrashRestart
  BY <1>1
<1> HIDE DEF Mine
<1> QED BY <1>2, AccessHolds, PTL DEF PlaneSpec, OwnRequestsOnly
=============================================================================
