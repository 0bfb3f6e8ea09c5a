--------------------------- MODULE AccountsProofs ---------------------------
(***************************************************************************)
(* The accounts' invariants, for any people, emails, tokens and outcomes   *)
(* of saving.  As in WalletProofs each operation is shown to keep one copy *)
(* of the state, memory; the snapshot is what it was, or memory's, written *)
(* without the password hashes.  At the end, what clients were answered    *)
(* about tokens (TokenClients) holds, whatever is saved.                   *)
(***************************************************************************)
EXTENDS TokenClients, MapsProofs, TLAPS

USE AccountConstants

(* What is claimed of one copy of the accounts. *)
Whole(m) == WellFormed(m) /\ Indexed(m) /\ TokensHaveUsers(m)

(* m has every account of n, as it was but for a verification. *)
Keeps(m, n) ==
    \A u \in DOMAIN n.users :
        /\ u \in DOMAIN m.users
        /\ m.users[u].email = n.users[u].email
        /\ n.users[u].verified => m.users[u].verified

CallsOwned ==
    \A c \in Callers :
        \/ calls[c] = Idle
        \/ \E t \in Tokens, u \in DOMAIN users, padded \in BOOLEAN :
              calls[c] = Request(t, u, padded)

CallTypes ==
    {Idle} \cup {Request(t, u, padded) : t \in Tokens, u \in UserIds, padded \in BOOLEAN}

AccountsInv ==
    /\ calls \in [Callers -> CallTypes]
    /\ Whole(Memory) /\ Whole(disk) /\ Keeps(Memory, disk) /\ CallsOwned

-----------------------------------------------------------------------------
(* What is stored of a state m says the same as m but for the hashes. *)
Stored(m) == [users |-> [u \in DOMAIN m.users |-> Marshal(m.users[u])],
              usersByEmail |-> m.usersByEmail, tokens |-> m.tokens]

LEMMA StoredSays ==
    ASSUME NEW m, Whole(m)
    PROVE  /\ Whole(Stored(m)) /\ Keeps(m, Stored(m))
           /\ \A n : Keeps(m, n) => Keeps(Stored(m), n)
<1>1. /\ Stored(m).usersByEmail = m.usersByEmail /\ Stored(m).tokens = m.tokens
      /\ DOMAIN Stored(m).users = DOMAIN m.users
      /\ \A u \in DOMAIN m.users : Stored(m).users[u] = Marshal(m.users[u])
      /\ Stored(m).users = [u \in DOMAIN m.users |-> Marshal(m.users[u])]
  BY DEF Stored
<1>2. \A u \in DOMAIN m.users : m.users[u] \in User
  BY DEF Whole, WellFormed, IsMap
<1>3. \A usr \in User : /\ Marshal(usr) \in User /\ Marshal(usr).email = usr.email
                        /\ Marshal(usr).verified = usr.verified
  BY DEF Marshal, User
<1>4. WellFormed(Stored(m))
  BY <1>1, <1>2, <1>3 DEF Whole, WellFormed, IsMap
<1>5. Indexed(Stored(m)) /\ TokensHaveUsers(Stored(m))
  BY <1>1, <1>2, <1>3 DEF Whole, WellFormed, IsMap, Indexed, TokensHaveUsers
<1>6. Keeps(m, Stored(m))
  BY <1>1, <1>2, <1>3 DEF Keeps
<1>7. \A n : Keeps(m, n) => Keeps(Stored(m), n)
  BY <1>1, <1>2, <1>3 DEF Keeps
<1> QED BY <1>4, <1>5, <1>6, <1>7 DEF Whole

LEMMA SnapshotIsStored == Snapshot = Stored(Memory) /\ Snapshot' = Stored(Memory')
BY DEF Snapshot, Stored, Memory

LEMMA AccountsInitially == Init => AccountsInv
<1> SUFFICES ASSUME Init PROVE AccountsInv  OBVIOUS
<1>1. Whole(Memory)
  BY DEF Init, EmptyMap, Memory, Whole, WellFormed, IsMap, Indexed, TokensHaveUsers
<1>2. Whole(disk) /\ Keeps(Memory, disk)
  BY <1>1, SnapshotIsStored, StoredSays DEF Init
<1>3. CallsOwned  BY DEF Init, CallsOwned
<1>4. calls \in [Callers -> CallTypes]  BY DEF Init, CallTypes
<1> QED BY <1>1, <1>2, <1>3, <1>4 DEF AccountsInv

-----------------------------------------------------------------------------
(* Register adds an account under an email that had none. *)
LEMMA RegisterKeeps ==
    ASSUME Whole(Memory), NEW e \in Emails, NEW pw \in Passwords, NEW u \in UserIds,
           NEW saved, Register(e, pw, u, saved)
    PROVE  Whole(Memory') /\ Keeps(Memory', Memory)
<1> DEFINE usr == [email |-> e, hash |-> pw, verified |-> FALSE]
<1>1. /\ u \notin DOMAIN users /\ e \notin DOMAIN usersByEmail
      /\ users' = Put(users, u, usr) /\ usersByEmail' = Put(usersByEmail, e, u)
      /\ tokens' = tokens
  BY DEF Register, EmailFree
<1>2. IsMap(users, UserIds, User) /\ IsMap(usersByEmail, Emails, UserIds)
  BY DEF Whole, WellFormed, Memory
<1>3. usr \in User /\ usr.email = e  BY DEF User
<1>4. /\ IsMap(users', UserIds, User) /\ DOMAIN users' = DOMAIN users \cup {u}
      /\ users'[u].email = e /\ \A v \in DOMAIN users : users'[v] = users[v]
  <2> HIDE DEF usr
  <2>1. /\ IsMap(Put(users, u, usr), UserIds, User)
        /\ DOMAIN Put(users, u, usr) = DOMAIN users \cup {u}
        /\ Put(users, u, usr)[u] = usr
        /\ \A v \in DOMAIN users : v # u => Put(users, u, usr)[v] = users[v]
    BY <1>2, <1>3 DEF IsMap, Put
  <2> QED BY <1>1, <1>3, <2>1
<1>5. /\ IsMap(usersByEmail', Emails, UserIds)
      /\ DOMAIN usersByEmail' = DOMAIN usersByEmail \cup {e}
      /\ usersByEmail'[e] = u
      /\ \A f \in DOMAIN usersByEmail : usersByEmail'[f] = usersByEmail[f]
  BY <1>1, <1>2, PutIsMap
<1>6. WellFormed(Memory')  BY <1>1, <1>4, <1>5 DEF Whole, WellFormed, Memory
<1>7. Indexed(Memory')  BY <1>4, <1>5 DEF Whole, Indexed, Memory
<1>8. TokensHaveUsers(Memory')  BY <1>1, <1>4 DEF Whole, TokensHaveUsers, Memory
<1>9. Keeps(Memory', Memory)  BY <1>4 DEF Keeps, Memory
<1> QED BY <1>6, <1>7, <1>8, <1>9 DEF Whole

(* VerifyEmail changes one account in nothing but its verification. *)
LEMMA VerifyEmailKeeps ==
    ASSUME Whole(Memory), NEW c, NEW saved, VerifyEmail(c, saved)
    PROVE  Whole(Memory') /\ Keeps(Memory', Memory)
<1> DEFINE u == calls[c].user
<1>1. /\ u \in DOMAIN users /\ users' = [users EXCEPT ![u].verified = TRUE]
      /\ usersByEmail' = usersByEmail /\ tokens' = tokens
  BY DEF VerifyEmail
<1> HIDE DEF u
<1>2. users \in [DOMAIN users -> User] /\ DOMAIN users \subseteq UserIds
  BY DEF Whole, WellFormed, IsMap, Memory
<1>3. users' \in [DOMAIN users -> User]  BY <1>1, <1>2 DEF User
<1>4. \A v \in DOMAIN users : /\ users'[v].email = users[v].email
                              /\ users[v].verified => users'[v].verified
  BY <1>1, <1>2 DEF User
<1>5. WellFormed(Memory')  BY <1>1, <1>2, <1>3 DEF Whole, WellFormed, IsMap, Memory
<1>6. Indexed(Memory') /\ TokensHaveUsers(Memory')
  BY <1>1, <1>3, <1>4 DEF Whole, WellFormed, IsMap, Indexed, TokensHaveUsers, Memory
<1>7. Keeps(Memory', Memory)  BY <1>3, <1>4 DEF Keeps, Memory
<1> QED BY <1>5, <1>6, <1>7 DEF Whole

(* Whatever is done to the tokens, each keeps its account. *)
LEMMA TokensChange ==
    ASSUME Whole(Memory), users' = users, usersByEmail' = usersByEmail,
           IsMap(tokens', Tokens, DOMAIN users)
    PROVE  Whole(Memory') /\ Keeps(Memory', Memory)
BY DEF Whole, WellFormed, IsMap, Indexed, TokensHaveUsers, Keeps, Memory

(* Tokens issued to an account that is there, beside others that have one. *)
LEMMA IssueIsMap ==
    ASSUME NEW old, IsMap(old, Tokens, DOMAIN users), NEW pair \in SUBSET Tokens,
           NEW u \in DOMAIN users
    PROVE  IsMap(Issue(old, pair, u), Tokens, DOMAIN users)
BY DEF IsMap, Issue

LEMMA TokensMapped == ASSUME Whole(Memory) PROVE IsMap(tokens, Tokens, DOMAIN users)
BY DEF Whole, WellFormed, IsMap, TokensHaveUsers, Memory

LEMMA LoginKeeps ==
    ASSUME Whole(Memory), NEW e, NEW pw, NEW pair \in SUBSET Tokens, NEW saved,
           Login(e, pw, pair, saved)
    PROVE  Whole(Memory') /\ Keeps(Memory', Memory)
<1>1. /\ usersByEmail[e] \in DOMAIN users
      /\ tokens' = Issue(tokens, pair, usersByEmail[e])
      /\ users' = users /\ usersByEmail' = usersByEmail
  BY DEF Login, CanLogin, Whole, Indexed, Memory
<1>2. IsMap(tokens', Tokens, DOMAIN users)  BY <1>1, TokensMapped, IssueIsMap
<1> QED BY <1>1, <1>2, TokensChange

LEMMA RefreshKeeps ==
    ASSUME Whole(Memory), CallsOwned, NEW c \in Callers, NEW pair \in SUBSET Tokens,
           NEW saved, Refresh(c, pair, saved)
    PROVE  Whole(Memory') /\ Keeps(Memory', Memory)
<1> DEFINE left == [t \in DOMAIN tokens \ Spent(calls[c]) |-> tokens[t]]
<1>1. /\ calls[c] # Idle /\ tokens' = Issue(left, pair, calls[c].user)
      /\ users' = users /\ usersByEmail' = usersByEmail
  BY DEF Refresh, EndCall
<1>2. calls[c].user \in DOMAIN users
  <2>1. PICK t \in Tokens, u \in DOMAIN users, padded \in BOOLEAN :
            calls[c] = Request(t, u, padded)
    BY <1>1 DEF CallsOwned
  <2> QED BY <2>1 DEF Request
<1>3. IsMap(left, Tokens, DOMAIN users)  BY TokensMapped DEF IsMap
<1> HIDE DEF left
<1>4. IsMap(tokens', Tokens, DOMAIN users)  BY <1>1, <1>2, <1>3, IssueIsMap
<1> QED BY <1>1, <1>4, TokensChange

LEMMA LogoutKeeps ==
    ASSUME Whole(Memory), NEW t, NEW saved, Logout(t, saved)
    PROVE  Whole(Memory') /\ Keeps(Memory', Memory)
<1>1. /\ tokens' = Remove(tokens, t)
      /\ users' = users /\ usersByEmail' = usersByEmail
  BY DEF Logout
<1>2. IsMap(tokens', Tokens, DOMAIN users)  BY <1>1, TokensMapped, RemoveIsMap
<1> QED BY <1>1, <1>2, TokensChange

LEMMA NothingChanges ==
    ASSUME Whole(Memory), UNCHANGED stateVars
    PROVE  Whole(Memory') /\ Keeps(Memory', Memory)
BY TokensMapped, TokensChange DEF stateVars

-----------------------------------------------------------------------------
(* A step keeps memory whole and then saves it, leaves both copies alone, or  *)
(* is a crash.                                                                *)
Saves == \E saved \in SaveOutcomes : saveLocked(saved)

Advance ==
    /\ Whole(Memory') /\ Keeps(Memory', Memory)
    /\ UNCHANGED disk \/ Saves

LEMMA IdleAdvances == ASSUME Whole(Memory), UNCHANGED <<stateVars, disk>> PROVE Advance
BY NothingChanges DEF Advance

LEMMA StepForms ==
    ASSUME Whole(Memory), CallsOwned, Next
    PROVE  Advance \/ CrashRestart
<1>1. CASE CrashRestart  BY <1>1
<1>2. ASSUME NEW saved \in SaveOutcomes, NEW e \in Emails, NEW pw \in Passwords,
             NEW u \in UserIds, Register(e, pw, u, saved)
      PROVE  Advance
  BY <1>2, RegisterKeeps DEF Register, Advance, Saves
<1>3. ASSUME NEW saved \in SaveOutcomes, NEW c \in Callers, VerifyEmail(c, saved)
      PROVE  Advance
  BY <1>3, VerifyEmailKeeps DEF VerifyEmail, Advance, Saves
<1>4. ASSUME NEW saved \in SaveOutcomes, NEW c \in Callers, HandledByOthers(c, saved)
      PROVE  Advance
  BY <1>4, NothingChanges DEF HandledByOthers, Advance, Saves
<1>5. ASSUME NEW saved \in SaveOutcomes, SaveByOthers(saved)
      PROVE  Advance
  BY <1>5, NothingChanges DEF SaveByOthers, Advance, Saves
<1>6. ASSUME NEW c \in Callers, NEW t \in Tokens, NEW padded \in BOOLEAN,
             Authenticate(c, t, padded)
      PROVE  Advance
  BY <1>6, IdleAdvances DEF Authenticate
<1>7. ASSUME NEW c \in Callers, AnsweredByOthers(c) PROVE Advance
  BY <1>7, IdleAdvances DEF AnsweredByOthers
<1>8. ASSUME NEW saved \in SaveOutcomes, NEW t \in Tokens, Logout(t, saved)
      PROVE  Advance
  BY <1>8, LogoutKeeps DEF Logout, Advance, Saves
<1>9. ASSUME NEW saved \in SaveOutcomes, NEW pair \in FreshPairs, NEW e \in Emails,
             NEW pw \in Passwords, Login(e, pw, pair, saved)
      PROVE  Advance
  <2>1. pair \in SUBSET Tokens  BY DEF FreshPairs, FreshTokens
  <2> QED BY <1>9, <2>1, LoginKeeps DEF Login, Advance, Saves
<1>10. ASSUME NEW saved \in SaveOutcomes, NEW pair \in FreshPairs, NEW c \in Callers,
              Refresh(c, pair, saved)
       PROVE  Advance
  <2>1. pair \in SUBSET Tokens  BY DEF FreshPairs, FreshTokens
  <2> QED BY <1>10, <2>1, RefreshKeeps DEF Refresh, Advance, Saves
<1> QED BY <1>1, <1>2, <1>3, <1>4, <1>5, <1>6, <1>7, <1>8, <1>9, <1>10
        DEF Next, TokensKept

(* Requests come in with a token that has an account, and end. *)
LEMMA CallsStep ==
    ASSUME Whole(Memory), calls \in [Callers -> CallTypes], Next
    PROVE  /\ calls' \in [Callers -> CallTypes]
           /\ \A c \in Callers :
                 \/ calls'[c] \in {calls[c], Idle}
                 \/ \E t \in Tokens, u \in DOMAIN users, padded \in BOOLEAN :
                       calls'[c] = Request(t, u, padded) /\ users' = users
<1> DEFINE Ended == \E c \in Callers : calls' = [calls EXCEPT ![c] = Idle]
<1>1. CASE UNCHANGED calls  BY <1>1
<1>2. CASE calls' = [c \in Callers |-> Idle]  BY <1>2 DEF CallTypes
<1>3. CASE Ended  BY <1>3 DEF CallTypes
<1>4. ASSUME NEW c \in Callers, NEW t \in Tokens, NEW padded \in BOOLEAN,
             Authenticate(c, t, padded)
      PROVE  /\ calls' \in [Callers -> CallTypes]
             /\ \A d \in Callers :
                   \/ calls'[d] \in {calls[d], Idle}
                   \/ \E tt \in Tokens, u \in DOMAIN users, pp \in BOOLEAN :
                         calls'[d] = Request(tt, u, pp) /\ users' = users
  <2>1. /\ tokens[t] \in DOMAIN users /\ tokens[t] \in UserIds
        /\ calls' = [calls EXCEPT ![c] = Request(t, tokens[t], padded)]
        /\ users' = users
    BY <1>4 DEF Authenticate, stateVars, Whole, WellFormed, IsMap, Memory
  <2>2. Request(t, tokens[t], padded) \in CallTypes  BY <2>1 DEF CallTypes
  <2> QED BY <2>1, <2>2
<1>5. \/ UNCHANGED calls \/ calls' = [c \in Callers |-> Idle] \/ Ended
      \/ \E c \in Callers, t \in Tokens, padded \in BOOLEAN : Authenticate(c, t, padded)
  BY DEF Next, TokensKept, Register, VerifyEmail, HandledByOthers, SaveByOthers,
         AnsweredByOthers, CrashRestart, Logout, Login, Refresh, EndCall
<1> QED BY <1>1, <1>2, <1>3, <1>4, <1>5

LEMMA KeepsTransitive ==
    ASSUME NEW l, NEW m, NEW n, Keeps(l, m), Keeps(m, n) PROVE Keeps(l, n)
BY DEF Keeps

LEMMA KeepsItself == ASSUME NEW m PROVE Keeps(m, m)
BY DEF Keeps

(* The snapshot after a step is what it was or what memory now is. *)
LEMMA AccountsStep ==
    ASSUME AccountsInv, [Next]_vars
    PROVE  AccountsInv' /\ Keeps(disk', disk)
<1> USE DEF AccountsInv
<1>1. CASE UNCHANGED vars
  <2>1. Memory' = Memory /\ disk' = disk /\ calls' = calls /\ users' = users
    BY <1>1 DEF vars, Memory
  <2> QED BY <2>1, KeepsItself DEF CallsOwned
<1>2. CASE CrashRestart
  <2>1. Memory' = [users |-> disk.users, usersByEmail |-> disk.usersByEmail,
                   tokens |-> disk.tokens] /\ disk' = disk
    BY <1>2 DEF CrashRestart, Memory
  <2>2. Whole(Memory') /\ Keeps(Memory', disk)
    BY <2>1 DEF Whole, WellFormed, Indexed, TokensHaveUsers, Keeps
  <2>3. CallsOwned' /\ calls' \in [Callers -> CallTypes]
    BY <1>2 DEF CrashRestart, CallsOwned, CallTypes
  <2> QED BY <2>1, <2>2, <2>3, KeepsItself
<1>3. CASE Next /\ Advance
  <2>1. calls' \in [Callers -> CallTypes]  BY <1>3, CallsStep
  <2>2. CallsOwned'
    <3>1. DOMAIN users \subseteq DOMAIN users'  BY <1>3 DEF Advance, Keeps, Memory
    <3>2. \A c \in Callers :
             \/ calls'[c] \in {calls[c], Idle}
             \/ \E t \in Tokens, u \in DOMAIN users, padded \in BOOLEAN :
                   calls'[c] = Request(t, u, padded)
      BY <1>3, CallsStep
    <3> QED BY <3>1, <3>2 DEF CallsOwned
  <2>3. Keeps(Memory', disk)  BY <1>3, KeepsTransitive DEF Advance
  <2>4. CASE disk' = disk
    BY <1>3, <2>1, <2>2, <2>3, <2>4, KeepsItself DEF Advance
  <2>5. CASE disk' = Snapshot'
    <3>1. Whole(Snapshot') /\ Keeps(Memory', Snapshot') /\ Keeps(Snapshot', disk)
      BY <1>3, <2>3, SnapshotIsStored, StoredSays DEF Advance
    <3> QED BY <1>3, <2>1, <2>2, <2>5, <3>1 DEF Advance
  <2> QED BY <1>3, <2>4, <2>5 DEF Advance, Saves, saveLocked
<1> QED BY <1>1, <1>2, <1>3, StepForms

LEMMA AccountsAlways == Spec => []AccountsInv
BY AccountsInitially, AccountsStep, PTL DEF Spec

-----------------------------------------------------------------------------
(* Accounts, email index, tokens and requests are well formed. *)
THEOREM AccountsTyped == Spec => []TypeOK
<1>1. AccountsInv => TypeOK
  BY DEF AccountsInv, Whole, TypeOK, CallTypes
<1> QED BY <1>1, AccountsAlways, PTL

(* One account to an email and one email to an account, whatever saves fail: *)
(* Register, applySnapshot.                                                  *)
THEOREM EmailsUnique == Spec => []EmailsIdentifyUsers
<1>1. AccountsInv => EmailsIdentifyUsers
  BY DEF AccountsInv, Whole, EmailsIdentifyUsers
<1> QED BY <1>1, AccountsAlways, PTL

(* No token and no request outlives its account: Login, Refresh, withAuth. *)
THEOREM TokensHaveOwners == Spec => []TokensOwned
<1>1. AccountsInv => TokensOwned
  <2>1. CallsOwned => \A c \in Callers : calls[c] # Idle => calls[c].user \in DOMAIN users
    <3> SUFFICES ASSUME CallsOwned, NEW c \in Callers, calls[c] # Idle
                 PROVE  calls[c].user \in DOMAIN users
      OBVIOUS
    <3>1. PICK t \in Tokens, u \in DOMAIN users, padded \in BOOLEAN :
              calls[c] = Request(t, u, padded)
      BY DEF CallsOwned
    <3> QED BY <3>1 DEF Request
  <2> QED BY <2>1 DEF AccountsInv, Whole, TokensOwned
<1> QED BY <1>1, AccountsAlways, PTL

(* A stored account stays stored as it was, but for its verification: *)
(* saveLocked.                                                        *)
THEOREM AccountsKept == Spec => StoredAccountsKept
<1>1. AccountsInv /\ [Next]_vars =>
        [\A u \in DOMAIN disk.users :
            /\ u \in DOMAIN disk'.users
            /\ disk'.users[u].email = disk.users[u].email
            /\ disk.users[u].verified => disk'.users[u].verified]_vars
  BY AccountsStep DEF Keeps
<1> QED BY <1>1, AccountsAlways, PTL DEF Spec, StoredAccountsKept
-----------------------------------------------------------------------------
(* What the snapshot still has of a client's tokens is what the client was    *)
(* given, also of those that memory has no longer: a restart brings them back. *)
StoredAsGiven ==
    \A t \in DOMAIN given \cap DOMAIN disk.tokens : disk.tokens[t] = given[t]

TokensInv == RevokedStaysRevoked /\ GivenTokensStored /\ StoredAsGiven

(* The same of any tokens m in memory, d in the snapshot, g given, r revoked. *)
Kept(m, d, g, r) ==
    /\ \A t \in r : t \notin DOMAIN m /\ t \notin DOMAIN d
    /\ \A t \in DOMAIN g :
          /\ t \in DOMAIN m => m[t] = g[t] /\ t \in DOMAIN d
          /\ t \in DOMAIN d => d[t] = g[t]

LEMMA InvIsKept ==
    /\ TokensInv <=> Kept(tokens, disk.tokens, given, revoked)
    /\ TokensInv' <=> Kept(tokens', disk'.tokens, given', revoked')
BY DEF TokensInv, RevokedStaysRevoked, GivenTokensStored, StoredAsGiven, Kept

-----------------------------------------------------------------------------
(* All that these invariants see of a step: the tokens in memory after it,    *)
(* those of the snapshot, and what clients were answered.                     *)
LEMMA SavedTokens ==
    ASSUME NEW saved, saveLocked(saved)
    PROVE  IF saved = "failed" THEN disk'.tokens = disk.tokens
                               ELSE disk'.tokens = tokens'
BY DEF saveLocked, Snapshot

(* Nothing is answered about tokens, and they only change by a restart. *)
LEMMA TokensKeptStep ==
    ASSUME TokensInv, TokensKept, UNCHANGED <<given, revoked>>
    PROVE  TokensInv'
<1>1. Kept(tokens, disk.tokens, given, revoked)  BY InvIsKept
<1>2. Kept(tokens, tokens, given, revoked)  BY <1>1 DEF Kept
<1>3. Kept(disk.tokens, disk.tokens, given, revoked)  BY <1>1 DEF Kept
<1>4. \/ tokens' = disk.tokens /\ disk' = disk
      \/ tokens' = tokens /\ disk'.tokens \in {disk.tokens, tokens}
  <2>1. CASE CrashRestart  BY <2>1 DEF CrashRestart
  <2>2. CASE tokens' = tokens /\ \E saved \in SaveOutcomes : saveLocked(saved)
    BY <2>2, SavedTokens
  <2>3. CASE tokens' = tokens /\ disk' = disk  BY <2>3
  <2>4. \/ CrashRestart
        \/ tokens' = tokens /\ \E saved \in SaveOutcomes : saveLocked(saved)
        \/ tokens' = tokens /\ disk' = disk
    BY DEF TokensKept, Register, VerifyEmail, HandledByOthers, SaveByOthers,
           Authenticate, AnsweredByOthers, stateVars
  <2> QED BY <2>1, <2>2, <2>3, <2>4
<1>5. Kept(tokens', disk'.tokens, given', revoked')
  <2>1. given' = given /\ revoked' = revoked  OBVIOUS
  <2> QED BY <1>1, <1>2, <1>3, <1>4, <2>1
<1> QED BY <1>5, InvIsKept

LEMMA LogoutStep ==
    ASSUME TokensInv, NEW t, NEW saved \in SaveOutcomes, LogoutAnswered(t, saved)
    PROVE  TokensInv'
<1>1. Kept(tokens, disk.tokens, given, revoked)  BY InvIsKept
<1>2. /\ tokens' = Remove(tokens, t) /\ given' = given
      /\ revoked' = IF saved = "ok" THEN revoked \cup {t} ELSE revoked
      /\ saveLocked(saved)
  BY DEF LogoutAnswered, Logout, Revoke
<1>3. /\ DOMAIN tokens' = DOMAIN tokens \ {t}
      /\ \A x \in DOMAIN tokens' : tokens'[x] = tokens[x]
  BY <1>2, Removed
<1>4. CASE saved = "failed"
  <2>1. disk'.tokens = disk.tokens /\ revoked' = revoked
    BY <1>2, <1>4, SavedTokens
  <2>2. Kept(tokens', disk'.tokens, given', revoked')
    BY <1>1, <1>2, <1>3, <2>1 DEF Kept
  <2> QED BY <2>2, InvIsKept
<1>5. CASE saved # "failed"
  <2>1. disk'.tokens = tokens'  BY <1>2, <1>5, SavedTokens
  <2>2. Kept(tokens', disk'.tokens, given', revoked')
    BY <1>1, <1>2, <1>3, <2>1 DEF Kept
  <2> QED BY <2>2, InvIsKept
<1> QED BY <1>4, <1>5

(* A pair that nobody has seen is issued to u, beside the tokens in old, all  *)
(* but those in gone; clients are answered so when the save went well.        *)
LEMMA IssueStep ==
    ASSUME TokensInv, NEW gone, NEW u, NEW pair, NEW saved \in SaveOutcomes,
           NEW old, DOMAIN old = DOMAIN tokens \ gone,
           \A t \in DOMAIN old : old[t] = tokens[t],
           Unseen(pair), pair \cap (DOMAIN tokens \cup DOMAIN disk.tokens \cup gone) = {},
           tokens' = Issue(old, pair, u), saveLocked(saved),
           Give(pair, u, saved),
           revoked' = IF saved = "ok" THEN revoked \cup gone ELSE revoked
    PROVE  TokensInv'
<1>1. Kept(tokens, disk.tokens, given, revoked)  BY InvIsKept
<1>2. /\ DOMAIN tokens' = DOMAIN old \cup pair
      /\ \A t \in pair : tokens'[t] = u
      /\ \A t \in DOMAIN old \ pair : tokens'[t] = tokens[t]
  BY DEF Issue
<1>3. \A t \in pair : /\ t \notin DOMAIN given /\ t \notin revoked /\ t \notin gone
                      /\ t \notin DOMAIN tokens /\ t \notin DOMAIN disk.tokens
  <2> SUFFICES ASSUME NEW t \in pair
               PROVE  /\ t \notin DOMAIN given /\ t \notin revoked /\ t \notin gone
                      /\ t \notin DOMAIN tokens /\ t \notin DOMAIN disk.tokens
    OBVIOUS
  <2>1. /\ t \notin pair \cap (DOMAIN given \cup revoked)
        /\ t \notin pair \cap (DOMAIN tokens \cup DOMAIN disk.tokens \cup gone)
    BY DEF Unseen
  <2> QED BY <2>1
<1>4. CASE saved = "ok"
  <2>1. /\ disk'.tokens = tokens'
        /\ given' = Issue(given, pair, u) /\ revoked' = revoked \cup gone
    BY <1>4, SavedTokens DEF Give
  <2>2. /\ DOMAIN given' = DOMAIN given \cup pair
        /\ \A t \in pair : given'[t] = u
        /\ \A t \in DOMAIN given \ pair : given'[t] = given[t]
    BY <2>1 DEF Issue
  <2>3. \A t \in revoked' : t \notin DOMAIN tokens'
    BY <1>1, <1>2, <1>3, <2>1 DEF Kept
  <2>4. \A t \in DOMAIN given' : t \in DOMAIN tokens' => tokens'[t] = given'[t]
    BY <1>1, <1>2, <1>3, <2>2 DEF Kept
  <2>5. Kept(tokens', disk'.tokens, given', revoked')
    BY <2>1, <2>3, <2>4 DEF Kept
  <2> QED BY <2>5, InvIsKept
<1>5. CASE saved # "ok"
  <2>1. given' = given /\ revoked' = revoked /\ disk'.tokens \in {disk.tokens, tokens'}
    BY <1>5, SavedTokens DEF Give
  <2>2. Kept(tokens', disk'.tokens, given', revoked')
    BY <1>1, <1>2, <1>3, <2>1 DEF Kept
  <2> QED BY <2>2, InvIsKept
<1> QED BY <1>4, <1>5

LEMMA LoginStep ==
    ASSUME TokensInv, NEW e, NEW pw, NEW pair \in FreshPairs, NEW saved \in SaveOutcomes,
           LoginAnswered(e, pw, pair, saved)
    PROVE  TokensInv'
<1>1. /\ Unseen(pair) /\ saveLocked(saved) /\ revoked' = revoked
      /\ tokens' = Issue(tokens, pair, usersByEmail[e])
      /\ Give(pair, usersByEmail[e], saved)
  BY DEF LoginAnswered, Login
<1>2. pair \cap (DOMAIN tokens \cup DOMAIN disk.tokens \cup {}) = {}
  BY DEF FreshPairs, FreshTokens
<1>3. DOMAIN tokens = DOMAIN tokens \ {} /\ revoked \cup {} = revoked  OBVIOUS
<1> QED BY <1>1, <1>2, <1>3, IssueStep

LEMMA RefreshStep ==
    ASSUME TokensInv, NEW c \in Callers, NEW pair \in FreshPairs,
           NEW saved \in SaveOutcomes, RefreshAnswered(c, pair, saved)
    PROVE  TokensInv'
<1> DEFINE gone == Spent(calls[c])
           old == [t \in DOMAIN tokens \ gone |-> tokens[t]]
<1>1. /\ Unseen(pair) /\ saveLocked(saved) /\ calls[c] # Idle
      /\ tokens' = Issue(old, pair, calls[c].user)
      /\ Give(pair, calls[c].user, saved)
      /\ revoked' = IF saved = "ok" THEN revoked \cup gone ELSE revoked
  BY DEF RefreshAnswered, Refresh, EndCall, Revoke
<1>2. pair \cap (DOMAIN tokens \cup DOMAIN disk.tokens \cup gone) = {}
  BY <1>1 DEF FreshPairs, FreshTokens, Spent
<1>3. DOMAIN old = DOMAIN tokens \ gone /\ \A t \in DOMAIN old : old[t] = tokens[t]
  OBVIOUS
<1> HIDE DEF gone, old
<1> QED BY <1>1, <1>2, <1>3, IssueStep

LEMMA ClientStep == ASSUME TokensInv, [ClientNext]_clientVars PROVE TokensInv'
<1>1. CASE UNCHANGED clientVars
  BY <1>1, InvIsKept DEF clientVars
<1> QED BY <1>1, TokensKeptStep, LogoutStep, LoginStep, RefreshStep DEF ClientNext

LEMMA ClientInitially == ClientInit => TokensInv
BY DEF ClientInit, Init, Snapshot, EmptyMap, TokensInv, RevokedStaysRevoked,
       GivenTokensStored, StoredAsGiven

LEMMA ClientAlways == ClientSpec => []TokensInv
BY ClientInitially, ClientStep, PTL DEF ClientSpec

-----------------------------------------------------------------------------
(* A token that a client was told is gone never comes back, whatever crashes  *)
(* and whichever of several refreshes finishes last: Logout, Refresh.         *)
THEOREM RevokedForGood == ClientSpec => []RevokedStaysRevoked
<1>1. TokensInv => RevokedStaysRevoked  BY DEF TokensInv
<1> QED BY <1>1, ClientAlways, PTL

(* A token that a client holds is stored for the account it was given to:     *)
(* Login, Refresh.                                                            *)
THEOREM GivenForGood == ClientSpec => []GivenTokensStored
<1>1. TokensInv => GivenTokensStored  BY DEF TokensInv
<1> QED BY <1>1, ClientAlways, PTL
=============================================================================
