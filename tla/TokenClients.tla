---------------------------- MODULE TokenClients ----------------------------
(***************************************************************************)
(* What clients were answered about tokens: those a login or a refresh     *)
(* gave them, and those a logout or a refresh told them are gone.  Clients *)
(* keep both whatever happens to the server.                               *)
(***************************************************************************)
EXTENDS Accounts

VARIABLES
    given,      \* the tokens clients were answered, and for whom
    revoked     \* the tokens clients were told are gone

clientVars == <<users, usersByEmail, tokens, disk, calls, given, revoked>>

ClientInit == Init /\ given = EmptyMap /\ revoked = {}

(* NewToken never returns a token again that some client has seen. *)
Unseen(pair) == pair \cap (DOMAIN given \cup revoked) = {}

(* Mutant: the answer does not wait for the save. *)
GiveAlways(pair, u, saved) == given' = Issue(given, pair, u)

(* The answer carries the new tokens when the save went well. *)
Give(pair, u, saved) ==
    given' = IF saved = "ok" THEN Issue(given, pair, u) ELSE given

(* It says that the old token is gone when the save went well. *)
Revoke(gone, saved) ==
    revoked' = IF saved = "ok" THEN revoked \cup gone ELSE revoked

LoginAnswered(e, pw, pair, saved) ==
    /\ Unseen(pair)
    /\ Login(e, pw, pair, saved)
    /\ Give(pair, usersByEmail[e], saved)
    /\ UNCHANGED revoked

RefreshAnswered(c, pair, saved) ==
    /\ Unseen(pair)
    /\ Refresh(c, pair, saved)
    /\ Give(pair, calls[c].user, saved)
    /\ Revoke(Spent(calls[c]), saved)

LogoutAnswered(t, saved) ==
    Logout(t, saved) /\ Revoke({t}, saved) /\ UNCHANGED given

ClientNext ==
    \/ \E saved \in SaveOutcomes :
        \/ \E t \in Tokens : LogoutAnswered(t, saved)
        \/ \E pair \in FreshPairs :
             \/ \E e \in Emails, pw \in Passwords : LoginAnswered(e, pw, pair, saved)
             \/ \E c \in Callers : RefreshAnswered(c, pair, saved)
    \/ TokensKept /\ UNCHANGED <<given, revoked>>

ClientSpec == ClientInit /\ [][ClientNext]_clientVars

-----------------------------------------------------------------------------
(* A token a client was told is gone never authenticates again: not after a   *)
(* crash, and not because a refresh that had authenticated with it, or with a *)
(* token of the same user, finishes later (Logout, Refresh).                  *)
RevokedStaysRevoked == revoked \cap (DOMAIN tokens \cup DOMAIN disk.tokens) = {}

(* A token a client holds and could use now survives a restart, and is for    *)
(* the account it was issued to (Login and Refresh answer after their save).  *)
GivenTokensStored ==
    \A t \in DOMAIN given \cap DOMAIN tokens :
        /\ tokens[t] = given[t]
        /\ t \in DOMAIN disk.tokens
        /\ disk.tokens[t] = given[t]
=============================================================================
