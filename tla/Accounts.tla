------------------------------ MODULE Accounts ------------------------------
(***************************************************************************)
(* Accounts and the tokens that authenticate requests: registration, email *)
(* verification, login, refresh and logout, with what the stored snapshot  *)
(* keeps of them.  A request authenticates in one lock section and does    *)
(* what it asks for in another, as the user found in the first: logouts,   *)
(* refreshes and failed saves of others may come between.                  *)
(***************************************************************************)
EXTENDS Integers, Maps

CONSTANTS
    UserIds, Emails, Passwords,
    Tokens,         \* what NewToken can return
    Callers,        \* requests that may be in progress at a time
    NoHash,         \* the empty PasswordHash
    SaveOutcomes    \* how saving a snapshot can end

ASSUME AccountConstants ==
    /\ NoHash \notin Passwords
    /\ SaveOutcomes \subseteq {"ok", "failed", "unsure"}

VARIABLES
    users,          \* s.users; a password's hash is the password itself here
    usersByEmail,   \* s.usersByEmail
    tokens,         \* s.tokens: the user of each, access and refresh alike
    disk,           \* the snapshot a restart would load
    calls           \* requests that are authenticated, with token and user

stateVars == <<users, usersByEmail, tokens>>
vars == <<users, usersByEmail, tokens, disk, calls>>

User == [email : Emails, hash : Passwords \cup {NoHash}, verified : BOOLEAN]
Idle == [phase |-> "idle"]
Request(t, u, padded) ==
    [phase |-> "authenticated", token |-> t, user |-> u, padded |-> padded]

(* Mutant: the verification is left out as well. *)
MarshalBrief(usr) == [email |-> usr.email, hash |-> NoHash]

(* PasswordHash is tagged json:"-": the snapshot does not carry it. *)
Marshal(usr) == [usr EXCEPT !.hash = NoHash]

Snapshot ==
    [users |-> [u \in DOMAIN users |-> Marshal(users[u])],
     usersByEmail |-> usersByEmail, tokens |-> tokens]

(* Mutant: no transaction, the tokens are stored even when the users are not. *)
SavesPiecewise(saved) ==
    disk' = IF saved = "failed" THEN [disk EXCEPT !.tokens = tokens'] ELSE Snapshot'

saveLocked(saved) == disk' = IF saved = "failed" THEN disk ELSE Snapshot'

(* NewToken: none that the server still knows in any way. *)
FreshTokens ==
    Tokens \ (DOMAIN tokens \cup DOMAIN disk.tokens
                \cup {calls[c].token : c \in {x \in Callers : calls[x] # Idle}})

(* The access and the refresh token that a login or a refresh draws. *)
FreshPairs ==
    {pair \in SUBSET FreshTokens :
        \E access, refresh \in pair : access # refresh /\ pair = {access, refresh}}

(* An access and a refresh token for u, beside the tokens in old. *)
Issue(old, pair, u) == [t \in DOMAIN old \cup pair |-> IF t \in pair THEN u ELSE old[t]]

Init ==
    /\ users = EmptyMap
    /\ usersByEmail = EmptyMap
    /\ tokens = EmptyMap
    /\ disk = Snapshot
    /\ calls = [c \in Callers |-> Idle]

-----------------------------------------------------------------------------
(* Mutant: only the stored emails are looked at. *)
EmailFreeStored(e) == e \notin DOMAIN disk.usersByEmail

EmailFree(e) == e \notin DOMAIN usersByEmail

Register(e, pw, u, saved) ==
    /\ u \notin DOMAIN users
    /\ EmailFree(e)
    /\ users' = Put(users, u, [email |-> e, hash |-> pw, verified |-> FALSE])
    /\ usersByEmail' = Put(usersByEmail, e, u)
    /\ UNCHANGED <<tokens, calls>>
    /\ saveLocked(saved)

CanLogin(e, pw) == e \in DOMAIN usersByEmail /\ users[usersByEmail[e]].hash = pw

Login(e, pw, pair, saved) ==
    /\ CanLogin(e, pw)
    /\ tokens' = Issue(tokens, pair, usersByEmail[e])
    /\ UNCHANGED <<users, usersByEmail, calls>>
    /\ saveLocked(saved)

(* Authenticate looks the trimmed token up under the read lock; the request *)
(* keeps the user it found and the token as it was written (padded: with    *)
(* blanks around it).  Nothing looks at the token again, except Logout.     *)
Authenticate(c, t, padded) ==
    /\ calls[c] = Idle
    /\ t \in DOMAIN tokens
    /\ tokens[t] \in DOMAIN users
    /\ calls' = [calls EXCEPT ![c] = Request(t, tokens[t], padded)]
    /\ UNCHANGED <<stateVars, disk>>

EndCall(c) == calls[c] # Idle /\ calls' = [calls EXCEPT ![c] = Idle]

VerifyEmail(c, saved) ==
    /\ EndCall(c)
    /\ calls[c].user \in DOMAIN users
    /\ users' = [users EXCEPT ![calls[c].user].verified = TRUE]
    /\ UNCHANGED <<usersByEmail, tokens>>
    /\ saveLocked(saved)

(* Under the write lock Refresh deletes the token as written, whether or not *)
(* it is still there, and issues two new ones.                               *)
Spent(call) == IF call.padded THEN {} ELSE {call.token}

(* Mutant: the token that authenticated is kept alive beside the new ones. *)
RefreshExtends(c, pair, saved) ==
    /\ EndCall(c)
    /\ tokens' = Issue(tokens, pair \cup {calls[c].token}, calls[c].user)
    /\ UNCHANGED <<users, usersByEmail>>
    /\ saveLocked(saved)

Refresh(c, pair, saved) ==
    /\ EndCall(c)
    /\ tokens' = Issue([t \in DOMAIN tokens \ Spent(calls[c]) |-> tokens[t]],
                       pair, calls[c].user)
    /\ UNCHANGED <<users, usersByEmail>>
    /\ saveLocked(saved)

(* Mutant: answered without saving. *)
LogoutUnsaved(t, saved) ==
    /\ t \in DOMAIN tokens
    /\ tokens' = Remove(tokens, t)
    /\ UNCHANGED <<users, usersByEmail, calls, disk>>

Logout(t, saved) ==
    /\ t \in DOMAIN tokens
    /\ tokens' = Remove(tokens, t)
    /\ UNCHANGED <<users, usersByEmail, calls>>
    /\ saveLocked(saved)

(* Another component handles the request: refused or only read, nothing is  *)
(* saved, or its own change is, and the accounts with it.                   *)
AnsweredByOthers(c) == EndCall(c) /\ UNCHANGED <<stateVars, disk>>

(* Mutant: the other component's save leaves the accounts out. *)
HandledUnsaved(c, saved) == EndCall(c) /\ UNCHANGED <<stateVars, disk>>

HandledByOthers(c, saved) ==
    EndCall(c) /\ UNCHANGED stateVars /\ saveLocked(saved)

(* Requests without a token save too: agents, payments, administrators.     *)
SaveByOthers(saved) ==
    UNCHANGED <<stateVars, calls>> /\ saveLocked(saved)

(* Mutant: applySnapshot forgets the users. *)
RestartWithoutUsers ==
    /\ users' = EmptyMap
    /\ usersByEmail' = EmptyMap
    /\ tokens' = disk.tokens
    /\ calls' = [c \in Callers |-> Idle]
    /\ UNCHANGED disk

CrashRestart ==
    /\ users' = disk.users
    /\ usersByEmail' = disk.usersByEmail
    /\ tokens' = disk.tokens
    /\ calls' = [c \in Callers |-> Idle]
    /\ UNCHANGED disk

(* Every step that neither issues tokens nor gives one up. *)
TokensKept ==
    \/ \E saved \in SaveOutcomes :
        \/ \E e \in Emails, pw \in Passwords, u \in UserIds : Register(e, pw, u, saved)
        \/ \E c \in Callers : VerifyEmail(c, saved) \/ HandledByOthers(c, saved)
        \/ SaveByOthers(saved)
    \/ \E c \in Callers, t \in Tokens, padded \in BOOLEAN : Authenticate(c, t, padded)
    \/ \E c \in Callers : AnsweredByOthers(c)
    \/ CrashRestart

Next ==
    \/ TokensKept
    \/ \E saved \in SaveOutcomes :
        \/ \E t \in Tokens : Logout(t, saved)
        \/ \E pair \in FreshPairs :
             \/ \E e \in Emails, pw \in Passwords : Login(e, pw, pair, saved)
             \/ \E c \in Callers : Refresh(c, pair, saved)

Spec == Init /\ [][Next]_vars

-----------------------------------------------------------------------------
WellFormed(m) ==
    /\ IsMap(m.users, UserIds, User)
    /\ IsMap(m.usersByEmail, Emails, UserIds)
    /\ IsMap(m.tokens, Tokens, UserIds)

Memory == [users |-> users, usersByEmail |-> usersByEmail, tokens |-> tokens]

(* Accounts, the email index and tokens are well formed in both copies. *)
TypeOK ==
    /\ WellFormed(Memory) /\ WellFormed(disk)
    /\ \A c \in Callers :
         \/ calls[c] = Idle
         \/ \E t \in Tokens, u \in UserIds, padded \in BOOLEAN :
               calls[c] = Request(t, u, padded)

Indexed(m) ==
    /\ \A e \in DOMAIN m.usersByEmail :
         m.usersByEmail[e] \in DOMAIN m.users /\ m.users[m.usersByEmail[e]].email = e
    /\ \A u \in DOMAIN m.users :
         m.users[u].email \in DOMAIN m.usersByEmail
         /\ m.usersByEmail[m.users[u].email] = u

TokensHaveUsers(m) == \A t \in DOMAIN m.tokens : m.tokens[t] \in DOMAIN m.users

(* The email index and the accounts are each other's inverse, so an email has *)
(* one account and each account can be found to log in, also after saves that *)
(* failed and restarts (Register, applySnapshot).                             *)
EmailsIdentifyUsers == Indexed(Memory) /\ Indexed(disk)

(* Every token, and every request in progress, is of an account that exists in *)
(* the same copy of the state: what an authenticated request does late it does *)
(* for an account that is there (Login, Refresh, withAuth).                    *)
TokensOwned ==
    /\ TokensHaveUsers(Memory) /\ TokensHaveUsers(disk)
    /\ \A c \in Callers : calls[c] # Idle => calls[c].user \in DOMAIN users

(* No save or crash drops a stored account, gives it another email or takes   *)
(* back its verification (saveLocked, VerifyEmail).                           *)
StoredAccountsKept ==
    [][\A u \in DOMAIN disk.users :
          /\ u \in DOMAIN disk'.users
          /\ disk'.users[u].email = disk.users[u].email
          /\ disk.users[u].verified => disk'.users[u].verified]_vars

(* Users are persisted: whoever registered can log in with the password they  *)
(* chose, also after the server was restarted.                                *)
PasswordsSurvive == \A u \in DOMAIN users : users[u].hash # NoHash
=============================================================================
