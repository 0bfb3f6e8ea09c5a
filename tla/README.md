# Verification of the VPN control plane

TLA+ models of the programs in `src/`, their model-checking configurations, and machine-checked
proofs about them. Paths like `operations.go:126` are under `src/server/internal/app/` unless they
name another directory. `PROJECT.json` lists, for every definition, the source lines it translates,
and for every hazard of the code the properties that are about it.

## 1. The system

One Go server (the control plane) holds all state of a VPN shop. Its `app.Service` keeps maps in
memory behind one `sync.RWMutex` (`s.mu`). A writer takes the lock, checks, changes the maps, and
still under the lock writes a snapshot of *everything* to one JSONB row (`saveLocked`,
`service.go:459`; `state/store.go`). At start-up `applySnapshot` loads that row. Clients
(a mobile app, a web storefront, an admin page, a Windows app), node agents and the Alipay gateway
call it over HTTP.

| component | state | operations | modelled in |
|---|---|---|---|
| Points wallet | top-up orders, per-user ledger whose last entry *is* the balance, purchases | `CreateTopup`, `ConfirmTopup`, `syncTopupOrder`'s writes, `Redeem`, `VerifyEmail` | `Wallet`, `AccountBook`, `WalletBook`, `WalletProofs`, `BookProofs` |
| Top-up with the payment gateway | the gateway's trade of each order, its undelivered notifications, requests in a trade query | checkout, notification, trade query, manual confirmation, JSON callback | `Topup`, `TopupProofs` |
| Accounts and tokens | accounts, email index, access and refresh tokens | `Register`, `VerifyEmail`, `Login`, `Authenticate`, `Refresh`, `Logout` | `Accounts`, `TokenClients`, `AccountsProofs` |
| Entitlements, devices, sessions, nodes | terms and limits, device owners, sessions, node status | `Redeem`, `BindDevice`, `UnbindDevice`, `Connect`, `Disconnect`, agent bootstrap and heartbeat | `Access`, `AccessProofs` |
| Snapshot stores | the one stored row | `Save`, `Load` | `saveLocked` and `CrashRestart` of each module, `Deployment` |
| HTTP API | requests that are authenticated and not yet served | authenticate, call the service, answer | `ControlPlane`, `ControlPlaneProofs`; answers in `Topup`, `TokenClients`, `ConnectFlow`; multi-read answers in `WalletView` |
| Server start-up | how far `main` has come | open the store, load or seed, listen | `Deployment`, `DeploymentProofs` |
| Node agent | how far its `main` has come | bootstrap once, heartbeat on a timer | `Deployment`, `DeploymentProofs` |
| Mobile app | where its top-up or connect flow is | `handleTopup`, `pollTopupOrderStatus`, `handleConnect` | `BuyerApp`, `ConnectFlow` |
| Storefront | the session it shows | connect flow, payment simulator | `ConnectFlow`, `Topup` |
| Alipay signing, admin page, client SDK and Windows app, plans/notices/roles/audit log | - | - | not modelled, see section 8 |

**How they interact.** Clients and agents call the server; the gateway calls it back with a
notification that it repeats until it hears `success`; the server calls the gateway for a trade's
status, outside its lock. Nothing but the stored row survives a restart.

**What is hard here, and what has to be right.**

- *Wallet.* Four sources report payments (notification, query, administrator, simulator), in any
  order and repeatedly, with saves that fail and crashes in between. Each paid order must be
  credited once, with its own amount, to its owner; the balance is never recomputed, so a wrong
  entry would stay wrong; points and entitlement of a purchase must not come apart.
- *Top-up.* An answer fetched before a payment may be applied after it. An administrator or a caller of the
  JSON callback may confirm an order under any trade number, that of its own trade included. A notification that only
  says the trade waits for its buyer marks the order failed; the later payment must still count.
  What the gateway is told it need not send again, and what the buyer is told is credited, must be stored.
- *Accounts.* `Refresh` authenticates under one lock and replaces the token under another.
  A failed save leaves memory ahead of the row, and a restart then takes changes back.
- *Access.* Caps are counted over all records at the moment of the call; unbinding races
  connecting; the two ends of a term are compared differently (`Before` against `After`).
- *Clients.* They act in several calls; anything may happen between two of them.
- *The whole server.* Every request authenticates in one lock section and acts in another; `Redeem` and
  `VerifyEmail` change what two parts are about. One row holds all parts: no failed save or restart may
  separate a record from the account and the payment it rests on.
- *Processes.* The first save decides what the database holds for good, so only an empty one may be
  seeded. An agent gives up when its bootstrap fails and must not when a heartbeat does.

## 2. The modules

**`Maps`** - Go maps as partial functions (`Put`, `Remove`, `IsMap`).

**`Wallet`** - every operation runs from its first check to its save under `s.mu`, so each is one
action; its parameter `saved` is how the save ended: `"ok"`, `"failed"` (the old row stays) or
`"unsure"` (stored, acknowledgement lost). Variables: `verified`, `orders`, `ledger`, `grants`
(memory) and `disk` (the row). `Wrap` is `int` arithmetic on `2 * HalfRange` values.
`SaveByOthers` stands for every operation of the other components: it stores the wallet as it is in
memory, including what an earlier save of the wallet's had failed to store. `CrashRestart` is
`applySnapshot` of `disk`.

**`AccountBook`** is what the wallet promises: a set of payments and a set of purchases, a balance
that is all payments less all purchases, purchases only within it, and a stored copy that a crash falls
back to. There are no orders in progress, no ledger and no running balance in it. Points are counted one
by one: what a user paid is the cardinality of the set of pairs of a payment and one of its points.
**`WalletBook`** instantiates it with the book read off paid orders and purchases, and states
`ImplementsAccountBook == Book!Spec` and `SpentWasPaid`: unless payments overflow an `int`, nobody's
purchases ever took more points than their payments brought in, in memory or in the row.

**`Topup`** EXTENDS `Wallet` with the gateway (external, modelled from how the code uses it):
`trades`, `notices` (notifications it still has to get through), `settled` (orders it was told
`success` for), and `calls`, the requests between the two lock sections of `syncTopupOrder`
(`AskGateway`, `GatewayAnswers` or `QueryFails`, `ApplyAnswer`). `Notify` is one delivery: any
number of them may happen per notice, in any order, and `heard` says whether the answer arrived.
`Checkout` hands out an order string only after a successful save. `ConfirmByHand` is a confirmation by
somebody else, under a trade number of their choice: `AdminConfirmTopup` says the order is paid,
`CallbackInJSON` (the callback with a JSON body, which the storefront's simulator sends) says what it
likes. `Others` keeps the rest of the wallet running. Three history variables are there for the properties
only: `byHand` (orders that were credited on somebody's word), `unsaved` (orders whose credit was followed
by a save that failed; the credit is then in memory, and stored by the next save of anything) and `dropped`
(orders of which the gateway gave up a notification). The trade number says nothing of who credited an
order, so it takes `byHand` to tell. A restart ends the calls and leaves the gateway alone. The server reads the
notified order under the read lock and calls `ConfirmTopup` after it; the two are one action here
because order ids, amounts and the existence of an order never change while the process runs, and a
crash in between ends the request.

**`BuyerApp`** EXTENDS `Topup` with `handleTopup` and its polling loop
(`app/pages/index/index.vue`): create, list, pay, poll up to `PollRetries` times, reload. Every
request of it may fail, which ends the flow, as the `catch` there does.

**`WalletView`** EXTENDS `Wallet` with the two answers that take the read lock more than once:
`handleWalletLedger` (balance, then entries) and `handleAdminPoints` (users, then one balance each).

**`Accounts`** - `users`, `usersByEmail`, `tokens`, `disk`; `calls` are requests that have authenticated
and not yet taken the write lock: refreshes, verifications, and those that other components handle
(`HandledByOthers`, `AnsweredByOthers`). `Marshal` is the JSON of a user, which carries no password hash
(`domain/model.go:8`). A token sent with blanks around it authenticates trimmed and is deleted
untrimmed, that is, not at all (`padded`). **`TokenClients`** EXTENDS it with `given` and `revoked`, what
clients were answered about tokens and keep whatever happens to the server.

**`Access`** - `entitlements`, `devices`, `sessions`, `nodes`, `now`, `disk`. Limits are those of the
entitlement's plan, which the code copies into it.

**`ConnectFlow`** EXTENDS `Access` with `told`, what answers have promised about devices and sessions, and
with a client that connects and then fetches its profile (`handleConnect` in the app, `onConnect` in the
storefront, `GetProfile` in the server), while everything of `Access`, the same user's other clients
included, goes on beside it.

**`ControlPlane`** composes the server: `A == INSTANCE Accounts`, `W == INSTANCE Wallet`, `X == INSTANCE
Access` over one process. The wallet's users are the account ids and its `verified` is read off the
accounts (`VerifiedIn(users)`), so there is one copy of each fact. `accountsRow`, `walletRow` and
`accessRow` are the parts of the one row: an action of `ControlPlane` is a handler of `router.go`, gives the
same `saved` to all three parts, and lets the parts it is not about save as they are. `withAuth` is the
first lock section of every request with a token; `handleX(c, ...)` is the second, for the user found in
the first. `handleRedeem` is the charge of `Wallet` and the entitlement of `Access` in one step.
`EntitlementsPaidFor` counts what everybody holds and was charged for, plan by plan; `HoldingsCovered`
compares, in points, what everybody holds and paid.

**`Deployment`** is about processes: `server` (how far `main` has come), `database` (answers or not), `row`,
`memory`, and `agents`. `OpenStore`, `LoadState`, `SaveSeed`, `Listen` are the start of the server, each of
which may find the database away and then ends the process. `Register` stands for any operation that adds
a record and answers after its save. An agent bootstraps once (`BootstrapFails` ends it) and then sends
heartbeats, whose failure it only logs. `enlisted` and `promised` record what properties speak of.

**`MapsProofs`**, **`WalletProofs`**, **`BookProofs`** (the refinement to the account book), **`TopupProofs`**
(with the app and the readers of the wallet), **`AccountsProofs`** (with the clients' tokens), **`AccessProofs`**
(with the connect flow), **`DeploymentProofs`** and **`ControlPlaneProofs`** hold the theorems (section 6). The `MC*` modules and configurations give small
instances.

An operator preceded by a comment that starts with `Mutant` is a plausible bug in the definition
below it (a dropped guard, a late snapshot, an off-by-one). `PROJECT.json` pairs each property with
one: with the mutant in place, TLC must find the property violated. No specification uses them.

## 3. The runs

Distinct states are those TLC reports with the given configuration.

| run (configuration) | instance | states | question |
|---|---|---|---|
| `wallet` (`MCWallet.cfg`) | 2 users, 3 orders, 2 purchases, points in {0, 3}, price 2, 3-bit integers, saves ok or failed | 21,463 | Are the books right in memory and in the row, and do they implement the account book? |
| `topup_faults` (`MCTopupFaults.cfg`) | 1 order, 2 trade numbers, 1 purchase, 2 requests in a query, all three save outcomes, gateway may give up, fairness | 39,752 | Is a credit that nobody gave by hand always for a paid trade, does a paid order stay paid, is every payment stored in the end, and can one get lost in any way but by a failed save of its credit or a gateway that gives up? |
| `topup_acked_credit` (`MCTopupAckedCredit.cfg`) | 1 order, saves may fail | violated | Finding 1 |
| `buyer_app` (`MCBuyerApp.cfg`) | 1 order, 2 trade numbers, 2 requests (one is the app's), 2 polls, all three save outcomes, gateway may give up, fairness | 109,242 | Is what the app reports stored unless a save of it failed, and does its flow always end? |
| `app_reports_unsaved` (`MCBuyerAppUnsaved.cfg`) | 1 order, 2 polls, saves may fail | violated | Finding 3 |
| `wallet_view` (`MCWalletView.cfg`) | 2 users, 2 orders, 1 purchase, 1 reader, 3-bit integers | 30,036 | Do answers put together under several locks belong to one history? |
| `access` (`MCAccess.cfg`) | 2 users, 1 entitlement, 2 devices, 2 sessions, a clock that passes its end, one user's client | 611,796 | Do the caps hold in both copies, is what clients were told stored, and is the profile of a session just made served? |
| `accounts` (`MCAccounts.cfg`) | 2 accounts, 2 emails, 4 tokens, 1 request between its lock sections, saves ok or failed | 120,094 | Do accounts, index and tokens agree; do given tokens last and revoked ones not? |
| `refresh_race` (`MCRefresh.cfg`) | 1 account, 6 tokens, 2 requests between their lock sections | 903 | Can a token that was given up come back through a concurrent refresh? |
| `control_plane` (`MCControlPlane.cfg`) | 2 people, 3 tokens, 1 order of 2 points, plans of 1 and of 2 points, 2 purchases and entitlements, 1 device, session and node, saves ok or failed | 135,675 | In the whole server, do records keep their owners and payments, does nobody hold more than they paid for, and do holdings change by own requests only? |
| `deployment` (`MCDeployment.cfg`) | 2 nodes (one with a wrong token), 2 people, all three save outcomes, fairness | 3,624 | Does any start overwrite what is stored, and do agents bring their nodes back? |
| `password_lost` (`MCAccountsPassword.cfg`) | 1 account | violated | Finding 2 |

Deadlock is checked in every run: in all of them a crash or a save by others is always possible, so
no state is final, and a run that stopped would show an error of the model.

**The properties, in short.** *Wallet*: `PaidExactlyOnce`, `NothingUnbooked`, `RunningBalance`,
`NoOverdraft` each speak of memory *and* of the row; `MemoryExtendsDisk` relates the two;
`StoredHistoryGrows` says no step takes back what is stored; `ImplementsAccountBook` is the refinement
(`SpentWasPaid` follows from it, and has a theorem but no run).
*Topup*: `CreditMatchesTrade`, `NoOrphanTrade`, `SettledIsStoredOrUnsaved`, `PaymentOwedOrStored`,
`PaidStaysPaid`, and the liveness property `PaymentEventuallyStored`. *BuyerApp*: `ReportedIsStoredOrUnsaved`
and `AppComesToRest`. `SettledIsStored` and `ReportedStaysPaid` are what the gateway and the buyer are led to
believe; they fail, which findings 1 and 3 show, and the properties with `OrUnsaved` say that a failed save of
the very credit is the only thing that makes them fail. *WalletView*: `LedgerAnswerConsistent`, `OverviewHeld`. *Access*:
`ConcurrencyCapped`, `DevicesCapped`, `ConnectedDeviceBound`, `StoredSessionsKept`. *ConnectFlow*:
`AnswersStored`, `ConnectedClientServed`, `ShownSessionStored`. *Accounts*: `EmailsIdentifyUsers`,
`TokensOwned`, `StoredAccountsKept`. *TokenClients*: `RevokedStaysRevoked`, `GivenTokensStored`.
*ControlPlane*: `RecordsHaveOwners`, `EntitlementsPaidFor`, `HoldingsCovered`, `OwnRequestsOnly`
(`ConnectedHavePaid` has a theorem and no run: with `ConnectedDeviceBound`, which `access` checks,
`HoldingsCovered` gives it wherever payments do not overflow). *Deployment*: `PromisedIsStored`,
`ServesWhatIsStored`, and the liveness property `EnlistedComeBack`. The comment above each says what it means in the code.

**Why these bounds are enough to be interesting.**

- *Integers.* Values are -4..3. Two top-ups of 3 points sum past the range and wrap to -2, after which
  purchases are refused; the amounts and the price make every balance boundary reachable with three
  orders. A request for 0 points shows the input check.
- *Orders, purchases, users.* Two users show that nothing is booked to the wrong ledger, two
  purchases that one balance cannot be spent twice, three orders that a credit can be stored by the
  save of another.
- *Trade numbers.* `wallet` has one, because what is renumbered by whom is the question of the runs of
  `Topup` and `BuyerApp`. These have two: that of the order's trade and one that is not, so a confirmation
  by hand can give the gateway's number or another. They have one order, as orders meet in the ledger only,
  which `wallet` is about; the saves of other orders are those of `SaveByOthers` and `Redeem`.
- *Calls.* Two requests in `syncTopupOrder` (and between the lock sections of `Refresh`) are enough for each to hold a stale
  copy while the other, or a notification, writes.
- *Clock.* A term of one tick on a clock to two has a time before, at and after the end; it is at the
  end that `Connect` and `deviceLimitLocked` differ.
- *`unsure`.* It behaves like `ok` for the row and like `failed` for the answer; `wallet`, `access`,
  `accounts`, `wallet_view` and `control_plane` leave it out for size. Their invariants relate
  memory and row, which it treats as `ok` does, and answers, which it treats as `failed` does.
  The theorems hold with it.
- *Failed saves* are in every run but `refresh_race`, see below.
- *`OneUnsaved`* (`MCControlPlane`): memory is at most one operation ahead of the row. A second operation
  in a row whose save fails is left out, which `wallet`, `access` and `accounts` have, each for its part; an
  operation that is not saved, then any other operation, a successful save of it, or a crash, is all there.
- *Whole server.* One caller at a time is between its lock sections; anonymous requests, agents,
  administrators, the clock and crashes go on beside it. Two people and two purchases show that nothing
  goes to the wrong one, three tokens allow a login and a refresh of the same or of another person.
  One order of two points pays for two purchases of the small plan or one of the large: a second purchase
  after a large one, or a large one after a small, is the one that must be refused.
- *Symmetry* is used in runs with safety properties only, over ids that no constant distinguishes.
- `refresh_race` has saves that succeed only: it asks about interleavings, and `accounts` asks about
  failed saves.

## 4. Fairness

- `FairTopupSpec`: for each order and paid status, weak fairness of a delivery that is saved and
  heard. The gateway repeats a notification until it hears `success` and the server handles every
  request it gets, so this says that some repetition meets a working database. Saves may fail any number of
  times before, and the gateway may give up, which `PaymentEventuallyStored` names. No payment, opening,
  query, confirmation or restart is required to happen or not to happen.
- `FairAppSpec`: weak fairness of the app's own step. A request is answered or fails, the payment dialog
  calls `success` or `fail`, and the server's gateway client has a ten-second timeout
  (`payment/alipay.go:103`), so a query never hangs. Nothing is assumed of gateway, buyer or administrator.
- `FairDeploySpec`: weak fairness, for each node, of a heartbeat that reaches a serving server and is saved.
  The agent's ticker never stops and the loop goes on after an error, a call ends, and a server that is up
  with its database saves; so a heartbeat that stays possible is made. Nothing is assumed of the start of
  the server, of the database, of crashes or of whoever runs the agents: `EnlistedComeBack` only speaks of
  executions in which server and database stay up from some point on.

## 5. Findings

1. **An acknowledged payment can be lost** (`topup_acked_credit`, `operations.go:126`).
   `ConfirmTopup` marks the order paid and credits it in memory, then saves. When the save fails, whoever
   confirmed the order (the gateway itself, a query, an administrator, the simulator) hears an error; the
   gateway's next notification takes the early return for paid orders, which does not save, and the
   gateway hears `success`. Until some other operation saves, a restart loads the unpaid order, and the
   gateway will not ask again. `src/README.md:99` says that PostgreSQL persists orders and ledger. A failed
   save of the credit is the only way to this (`SettledIsStoredOrUnsaved`).
2. **Passwords do not survive a restart** (`password_lost`, `domain/model.go:8`). `PasswordHash` is
   tagged `json:"-"` and the row is JSON, so a reloaded account has an empty hash and every login to
   it fails; `src/README.md:99` says users are persisted.
3. **The app can report points that a restart takes back** (`app_reports_unsaved`, `operations.go:234`). After
   such a failed save, `syncTopupOrder` finds the order paid in memory and returns it as it is, without a
   query and without a save; the app then shows "paid and credited" (`src/app/pages/index/index.vue:297`). A
   restart before any other save loads the order unpaid, which `src/README.md:99` says does not happen. Again a
   failed save of the credit is the only way to this (`ReportedIsStoredOrUnsaved`).

Reading note: `src/server/internal/payment/alipay.go:284` passes a `[]byte` where the verification function takes a `string`,
which does not type-check as written; the models take verification as working.

## 6. What is proved

Every invariant, every action property and the refinement that a run finds to hold are proved for all values of
the constants; liveness is model-checked. The assumptions are those named `...Constants`
in the modules, which say no more than that ids differ, that limits and prices are numbers of the right
kind, and which outcomes a save may have. No theorem assumes that saves succeed.

**The wallet** (`WalletProofs`, from `WalletConstants`; any users, ids, plans, integer width, save outcomes):

| theorem | says |
|---|---|
| `TypeCorrect` | `Spec => []TypeOK` |
| `PaymentsCreditedOnce` | `Spec => []PaidExactlyOnce` |
| `LedgersJustified` | `Spec => []NothingUnbooked` |
| `BalancesSound` | `Spec => []RunningBalance` |
| `NeverOverdrawn` | `Spec => []NoOverdraft` |
| `OrdersOwned` | `Spec => []OrdersOfVerifiedUsers` (no run of its own: `control_plane` checks owners with `RecordsHaveOwners`) |
| `MemoryAhead` | `Spec => []MemoryExtendsDisk` |
| `HistoryKept` | `Spec => StoredHistoryGrows` |

The inductive invariant is `BooksInv == Books(Memory) /\ Books(disk) /\ Extends(Memory, disk)`, where `Books`
is the conjunction of everything claimed of one copy of the state. No part is inductive alone. Crediting
keeps entries distinct only because every entry of an order has a *paid* order behind it
(`EntriesJustified`), so an order that is not paid yet has none; a credit stays justified only because
paid orders are never changed. `Books(disk)` is needed because a crash makes the row the memory, and
`Extends` because otherwise a save could take back what was stored. The proof has one lemma per operation
(`ConfirmTopupKeeps`, `RedeemKeeps`, ...) that speaks of memory only. `StepForms` shows that the row after
any step is the old one or a copy of memory, and that a crash does the reverse; `ExtendsTransitive` does
the rest (`BooksStep`). `Booked` is the lemma about `addLedgerEntryLocked`, and the only place where
balances are computed. The other components' proofs follow this pattern.

**The account book** (`BookProofs`, from `WalletConstants`):

| theorem | says |
|---|---|
| `BookImplemented` | `Spec => ImplementsAccountBook` |
| `SpendingCovered` | `Spec => []SpentWasPaid` (no run of its own: it follows from the refinement) |

The book's balance is a sum over sets that grow without bound, and what a sum is cannot be proved here by
induction over the set. It need not be: sums are cardinalities, and the library has it that a disjoint
union has the sum of the cardinalities (`PointsAdd`), so a payment or purchase that is new adds its own points
and nothing else (`PaidAdds`, `SpentAdds`). The invariant `BookInv` is `Agrees` of memory and of the row: the
last balance of each ledger is the book's (`BalanceAfter`, one entry at a time), the points are finitely
many, and purchases are covered. Balances are reduced to the range of an `int` with every entry and the
book's only once, which `WrapAdds` shows to be the same. That purchases are covered is *not* a consequence
of `NoOverdraft`, which is about running balances: these may have wrapped. The proof is that of `SpentAdds`
under the guard of `Redeem`, for a user whose payments stay in range, since then payments less
purchases do too and are what `Redeem` looked at. That a payment is new rests on `BooksInv`: its order is not
paid yet, and no one else's order has its id. `MapsAlwaysCovered` is `SpendingCovered` counted in the wallet's
own maps, for the theorems about the server.

**Top-ups, the app, and who reads the wallet** (`TopupProofs`, with `TopupConstants`, `BuyerAppConstants`):

| theorem | says |
|---|---|
| `TopupImplementsWallet` | `TopupSpec => Spec` |
| `ReportedPaymentsCreditedOnce` | `TopupSpec => []PaidExactlyOnce` |
| `TopupKeepsBook` | `TopupSpec => ImplementsAccountBook` |
| `PaidOrdersKept` | `TopupSpec => PaidStaysPaid` |
| `CreditsBackedByTrades` | `TopupSpec => []CreditMatchesTrade` |
| `TradesHaveOrders` | `TopupSpec => []NoOrphanTrade` |
| `SettledOrdersTraced` | `TopupSpec => []SettledIsStoredOrUnsaved` |
| `PaymentsNotForgotten` | `TopupSpec => []PaymentOwedOrStored` |
| `AppImplementsTopup` | `AppSpec => TopupSpec` |
| `ReportedOrdersTraced` | `AppSpec => []ReportedIsStoredOrUnsaved` |
| `ViewsImplementWallet` | `ViewSpec => Spec` |
| `LedgerAnswersConsistent` | `ViewSpec => []LedgerAnswerConsistent` |
| `OverviewsHeld` | `ViewSpec => []OverviewHeld` |

Every step of `Topup` but a restart `Advances` the wallet: it is a step of `Wallet` or leaves it alone, and
takes nothing back. The case that matters is `ApplyAnswer`: what was asked about an order that was not paid
is applied to whatever the order is by then. `TradeInv` strengthens `CreditMatchesTrade` by `ReportsTrue`:
whatever a notification or an answer on its way says of a trade, the trade has been so, and trades only
move on, so a credit for a stale report is still one for a paid trade; a credit by hand is noted in
`byHand` by the step that gives it, whatever number it is given under. `Tracked` says of every order that is
paid in memory that it is stored as paid or in `unsaved`: the step that credits it either stores it or fails
to, and neither is undone, since rows only grow (`TracedKept`). An order gets into `settled`, or is reported
by the app, only in a state in which it is paid in memory (`AnsweredIsPaid`, `AppStepKeeps`), so it leaves
one of the two traces; no assumption on saves is needed. `Reported` adds that a paid trade's notification
is due until it is given up or settled. `AppInv` also has it that the app's order is stored, and so known
to the server whenever it asks. `ViewInv` says each answer is true of the ledgers so far, and
`EntriesOfVerified` that a first entry cannot be a purchase, since it would leave the balance negative.

**Accounts and tokens** (`AccountsProofs`, from `AccountConstants`):

| theorem | says |
|---|---|
| `AccountsTyped` | `Spec => []TypeOK` |
| `EmailsUnique` | `Spec => []EmailsIdentifyUsers` |
| `TokensHaveOwners` | `Spec => []TokensOwned` |
| `AccountsKept` | `Spec => StoredAccountsKept` |
| `RevokedForGood` | `ClientSpec => []RevokedStaysRevoked` |
| `GivenForGood` | `ClientSpec => []GivenTokensStored` |

`AccountsInv` is `Whole(Memory)`, `Whole(disk)`, that memory `Keeps` the stored accounts, and that each request
between its lock sections is of an account. The row is not a copy of memory, as hashes are left out
(`SnapshotIsStored`). `TokensInv` adds to the two properties that a given token, where it is stored, is stored
for the one it was given to (`StoredAsGiven`).

**Access and the connect flow** (`AccessProofs`, from `AccessConstants`; the client is a user):

| theorem | says |
|---|---|
| `AccessTyped` | `Spec => []TypeOK` |
| `SlotsNeverExceeded` | `Spec => []ConcurrencyCapped` |
| `DeviceLimitsNeverExceeded` | `Spec => []DevicesCapped` |
| `ConnectedKeepDevice` | `Spec => []ConnectedDeviceBound` |
| `SessionsKept` | `Spec => StoredSessionsKept` |
| `FlowImplementsAccess` | `FlowSpec => Spec` |
| `AnswersAreStored` | `FlowSpec => []AnswersStored` |
| `ShownSessionsStored` | `FlowSpec => []ShownSessionStored` |
| `ConnectedClientsServed` | `FlowSpec => []ConnectedClientServed` |

`AccessInv` is `Sound` of memory and row, and that memory `KeepsSessions` of the row; the caps rest on the
library's facts about cardinality. Of what clients were told, that a removed device is in *neither* copy
(`UnboundGone`) is the strengthening: were it in memory, the next save would store it again. That a client
is served follows from `ShownInv` and `ConnectedDeviceBound`.

**Processes** (`DeploymentProofs`, from `DeploymentConstants`): `AnsweredIsStored`
(`DeploySpec => []PromisedIsStored`) and `ServedStateIsStored` (`DeploySpec => []ServesWhatIsStored`).
`DeployInv` adds `StateInHand`: a process that is about to save its seed found no row, and one that has
loaded or serves has a row, no account of which its memory lacks.

**The whole server** (`ControlPlaneProofs`, from `PlaneConstants`):

| theorem | says |
|---|---|
| `PlaneRefinesAccounts`, `PlaneRefinesWallet`, `PlaneRefinesAccess` | `PlaneSpec => A!Spec`, `=> W!Spec`, `=> X!Spec` |
| `PlaneKeepsBook` | `PlaneSpec => WP!ImplementsAccountBook` |
| `EntitlementsPaid` | `PlaneSpec => []EntitlementsPaidFor` |
| `HeldWasPaid` | `PlaneSpec => []HoldingsCovered` |
| `RecordsOwned` | `PlaneSpec => []RecordsHaveOwners` |
| `ConnectedPaid` | `PlaneSpec => []ConnectedHavePaid` |
| `OwnChanges` | `PlaneSpec => OwnRequestsOnly` |

The refinements come first, so that every theorem above holds of the server. The proof modules are
instantiated beside the modules themselves (`AP`, `WP`, `XP`), and `AccountsSame`, `WalletSame` and `AccessSame`
show that both mean the same. What is left is what links the parts: `PlaneInv` says that in memory and in
the row purchases and entitlements match and devices are of accounts (`Linked`), and that the rows of two
parts agree on who is verified (`RowsAgree`). `Whole` collects what both give of one copy. `HolderHasPaid`
is the argument that an entitlement rests on a payment: its purchase is charged in the ledger, the first
entry of that ledger cannot be a charge, so it is a credit, and a credit has a paid order. `HeldWasPaid` says
how much: since purchases and entitlements of a user and a plan are equally many, there is a bijection
between them for each plan, all of which together map the points a user's entitlements cost one to one into
those of the purchases (`HeldCostsLess`), and these are covered by the account book. `OwnChanges`
looks at each handler: what it changes belongs to the user its request authenticated as.

**Only model-checked:** liveness and fairness (`PaymentEventuallyStored`, `AppComesToRest`,
`EnlistedComeBack`), which the prover does not do: of `PaymentEventuallyStored` the safety part is proved
(`PaymentsNotForgotten`), and what is left is that the gateway goes on. No module declares a RECURSIVE
operator, and no theorem needs induction over data.

## 7. Plan

The plan was built in this order: wallet, account book and refinement, top-up, access, accounts, the client
flows, the processes of server, database and agents, the whole server; and for each its proofs. Of what can
be modelled faithfully from this code there is left:

1. Two servers on one row, should the repository ever start two, and a `Save` or `http.Post` that hangs.
2. What happens at the end of a term and when a node falls silent, once the code says what should: today it
   records both and acts on neither.

## 8. What is not modelled

- *Alipay signing* (canonical strings, RSA2, HTTP): pure computation and I/O. Notifications and answers
  are taken as verified. A trade keeps its order's amount, so the code's amount check is in the
  models but never refuses there.
- *`VPN_ALIPAY_ENABLED=false`*: checkout then returns the saved order without an order string, queries
  of unpaid orders are refused, and payments are confirmed by hand or by the simulator. `Wallet` alone
  covers this setting.
- *The in-process store*: it loses everything at a restart, by design; the models are of the database.
- *Two servers on one row*: each would overwrite the other's snapshot; nothing in the repository starts
  two. *A save that hangs* under the lock: saves end here, in one of three ways.
- *Time in orders and ledgers*, texts, audit log, notices, roles, seeded plans: read for display only.
  Plans appear as constants.
- *Routing, decoding, CORS, the comparison of the administrator's key*: they decide whether a handler
  runs; the models start where one does. Blanks around a token are in `Accounts` only.
- *Sessions after the end of a term*, *nodes that fall silent* (`LastHeartbeatAt` is recorded and never
  compared), and *an agent whose `http.Post` never returns* (it has no timeout): the code lets them be, no
  document says otherwise, and they are listed as hazards without a property.
- *User interfaces, client SDK, Windows app*: thin wrappers; the tunnel provider is a stub.
