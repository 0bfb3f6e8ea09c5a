----------------------------- MODULE WalletView -----------------------------
(***************************************************************************)
(* The handlers that show the wallet.  Each takes the read lock more than  *)
(* once, so that payments, purchases and crashes come between the parts of *)
(* one answer.                                                             *)
(***************************************************************************)
EXTENDS Wallet

CONSTANT Readers    \* requests being answered at a time, and their answers

VARIABLE views      \* each reader's answer, as far as it is put together

viewVars == <<verified, orders, ledger, grants, disk, views>>

Prefixes(u) == {SubSeq(ledger[u], 1, i) : i \in 0..Len(ledger[u])}

NoView == [kind |-> "none"]

(* /wallet/ledger after its first read, and when it is complete. *)
HalfLedger(u, balance) == [kind |-> "half", user |-> u, balance |-> balance]
LedgerAnswer(u, balance, items) ==
    [kind |-> "ledger", user |-> u, balance |-> balance, items |-> items]

(* /admin/points with the balances read so far. *)
Points(balances) == [kind |-> "points", balances |-> balances]

ViewInit ==
    /\ Init
    /\ views = [r \in Readers |-> NoView]

WalletBalance(u) == BalanceOf(ledger[u])

(* Mutant: the entries come from what is stored. *)
ListStoredLedger(u) == disk.ledger[u]

ListWalletLedger(u) == ledger[u]

Show(r, view) ==
    /\ views' = [views EXCEPT ![r] = view]
    /\ UNCHANGED vars

-----------------------------------------------------------------------------
(* handleWalletLedger evaluates the balance first, then the entries. *)
LedgerBalance(r, u) ==
    /\ views[r].kind \in {"none", "ledger"}
    /\ Show(r, HalfLedger(u, WalletBalance(u)))

LedgerItems(r) ==
    /\ views[r].kind = "half"
    /\ LET u == views[r].user
       IN  Show(r, LedgerAnswer(u, views[r].balance, ListWalletLedger(u)))

(* handleAdminPoints copies the users, then asks for one balance at a time. *)
PointsUsers(r) ==
    /\ views[r].kind \in {"none", "ledger"}
    /\ Show(r, Points(EmptyMap))

PointsBalance(r, u) ==
    /\ views[r].kind = "points"
    /\ u \notin DOMAIN views[r].balances
    /\ Show(r, [views[r] EXCEPT !.balances = Put(@, u, WalletBalance(u))])

PointsDone(r) ==
    /\ views[r].kind = "points"
    /\ DOMAIN views[r].balances = Users
    /\ Show(r, NoView)

(* A crash ends the requests under way; an answer that was given stays. *)
RestartUnderReaders ==
    /\ CrashRestart
    /\ views' = [r \in Readers |->
                    IF views[r].kind \in {"half", "points"} THEN NoView ELSE views[r]]

Write ==
    /\ \E saved \in SaveOutcomes :
          \/ \E u \in Users : VerifyEmail(u, saved)
          \/ \E u \in Users, o \in OrderIds, points \in PointInputs :
                CreateTopup(u, o, points, saved)
          \/ \E o \in OrderIds, tradeNo \in TradeNos, paid \in BOOLEAN :
                ConfirmTopup(o, tradeNo, paid, saved)
          \/ \E u \in Users, p \in Plans, g \in GrantIds : Redeem(u, p, g, saved)
    /\ UNCHANGED views

ViewNext ==
    \/ Write
    \/ \E r \in Readers : \/ \E u \in Users : LedgerBalance(r, u) \/ PointsBalance(r, u)
                          \/ LedgerItems(r)
                          \/ PointsUsers(r)
                          \/ PointsDone(r)
    \/ RestartUnderReaders

ViewSpec == ViewInit /\ [][ViewNext]_viewVars

-----------------------------------------------------------------------------
(* The balance a ledger answer shows is the running balance of some of the    *)
(* entries it lists, oldest first: it may lag behind them, and is never of an *)
(* entry the user is not shown, although the two are read under separate      *)
(* locks (handleWalletLedger).                                                *)
LedgerAnswerConsistent ==
    \A r \in Readers :
        views[r].kind = "ledger" =>
            \E i \in 0..Len(views[r].items) :
                views[r].balance = BalanceOf(SubSeq(views[r].items, 1, i))

(* While the overview is put together, each balance in it is one its user's   *)
(* ledger went through and still lists, and whoever is shown with points is   *)
(* verified, whatever the list it started from said (handleAdminPoints).      *)
OverviewHeld ==
    \A r \in Readers :
        views[r].kind = "points" =>
            \A u \in DOMAIN views[r].balances :
                /\ \E entries \in Prefixes(u) : views[r].balances[u] = BalanceOf(entries)
                /\ views[r].balances[u] # 0 => u \in verified
=============================================================================
