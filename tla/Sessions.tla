------------------------------ MODULE Sessions ------------------------------
(***************************************************************************)
(* Local and OIDC sign-in (security.py, oidc.py, the login routes of       *)
(* main.py): one credential file, shared by threads of the program and by  *)
(* the recovery command in a process of its own; sessions and OIDC         *)
(* transactions in SQLite, which outlive the program; requests that wait   *)
(* for a password check in a thread or for the provider, while others are  *)
(* served.  Tokens, states and credential versions are random in the code: *)
(* here they are numbered as they are drawn, and never drawn twice.  A     *)
(* request carries any token ever issued, since browsers keep old ones.    *)
(***************************************************************************)
EXTENDS Integers, FiniteSets

CONSTANTS Requests, Secrets,
          Policies,      \* the OIDC settings the program may be started with
          Attempts,      \* lockout_attempts
          Lockout,       \* lockout_minutes, in ticks of the clock
          Timeout,       \* session_timeout_minutes
          Short,         \* the ten minutes of a pre-login session or transaction
          MaxToken, MaxState, MaxVersion, MaxTime, MaxRestarts   \* bounds

PolicyRecord == [on : BOOLEAN, issuer : Nat, roles : Nat]

Nobody == "nobody"      \* in the place of a request

ASSUME SessionsAssumption ==
  /\ Nobody \notin Requests
  /\ Policies # {} /\ Policies \subseteq PolicyRecord /\ Secrets # {}
  /\ Attempts \in Nat \ {0} /\ Lockout \in Nat \ {0}
  /\ Timeout \in Nat \ {0} /\ Short \in Nat \ {0}
  /\ MaxToken \in Nat /\ MaxState \in Nat /\ MaxVersion \in Nat \ {0}
  /\ MaxTime \in Nat /\ MaxRestarts \in Nat

VARIABLES
  file,      \* the credentials: secret, version, must change, failed, locked until
  minted,    \* the last credential version drawn
  holder,    \* the request that holds _admin_lock
  sess, issued,   \* the sessions table, and the last token drawn
  txn, begun,     \* the oidc_transactions table, and the last state drawn
  req,       \* the requests in flight
  policy,    \* the OIDC settings in force
  now, restarts,
  origin,    \* history: how the session of a token was signed in
  ended,     \* history: the tokens that were signed out
  wrong,     \* history: wrong passwords answered since the count began anew
  binding    \* history: the token of the request that began a state

table   == <<sess, issued>>
oidc    == <<txn, begun, binding>>
account == <<file, minted, wrong>>
vars    == <<account, holder, table, oidc, req, policy, now, restarts, origin, ended>>

Tokens   == 1 .. MaxToken
States   == 1 .. MaxState
Versions == 0 .. MaxVersion      \* 0: the file names no version
None     == [kind |-> "none"]
Idle     == [at |-> "idle"]

Local(v, must) == [method |-> "local", version |-> v, must |-> must]
Sso(p)         == [method |-> "oidc", roles |-> p.roles]

-----------------------------------------------------------------------------
(* Sessions *)

\* Mutant: the fingerprint covers who the provider is and not what it grants.
SamePolicyIssuer(p) == p.issuer = policy.issuer

\* oidc_policy_fingerprint, compared.
SamePolicy(p) == p = policy

\* _principal: whether a session's principal is still one.
Valid(who, signedUnder) ==
  \/ /\ who.method = "local"
     /\ who.version # 0 /\ who.version = file.version /\ who.must = file.must
  \/ who.method = "oidc" /\ policy.on /\ SamePolicy(signedUnder)

\* _session: the request's token stands for a session.
Open(t) ==
  /\ t \in Tokens /\ sess[t] # None /\ sess[t].until > now
  /\ sess[t].kind = "authenticated" => Valid(sess[t].who, sess[t].policy)

SignedIn(t) == Open(t) /\ sess[t].kind = "authenticated"

Without(t)   == IF t \in Tokens THEN [sess EXCEPT ![t] = None] ELSE sess
Looked(t)    == IF Open(t) THEN sess ELSE Without(t)     \* get_session, _session
Purged(s)    == [t \in DOMAIN s |-> IF s[t] # None /\ s[t].until <= now THEN None ELSE s[t]]

PreLogin == [kind |-> "preauth", until |-> now + Short]
SignIn(who) == [kind |-> "authenticated", who |-> who, policy |-> policy,
                until |-> now + Timeout]

\* Tokens are left for every request in flight that may draw one.
Spare(n) == issued + n + Cardinality({r \in Requests : req[r] # Idle}) <= MaxToken

\* render_login: the page goes out with a session, a new one if need be.
RendersLogin(t) ==
  IF Open(t) THEN UNCHANGED <<sess, issued>>
  ELSE /\ issued' = issued + 1
       /\ sess' = [Purged(Looked(t)) EXCEPT ![issued + 1] = PreLogin]

\* Its purge of the transactions x.
PurgedFor(t, x) == txn' = IF Open(t) THEN x ELSE Purged(x)

-----------------------------------------------------------------------------

Init ==
  /\ \E s \in Secrets :
       file = [secret |-> s, version |-> 0, must |-> FALSE, failed |-> 0, locked |-> 0]
  /\ minted = 0 /\ holder = Nobody
  /\ sess = [t \in Tokens |-> None] /\ issued = 0
  /\ txn = [s \in States |-> None] /\ begun = 0
  /\ req = [r \in Requests |-> Idle]
  /\ policy \in Policies /\ now = 0 /\ restarts = MaxRestarts
  /\ origin = [t \in Tokens |-> None] /\ ended = {} /\ wrong = 0
  /\ binding = [s \in States |-> 0]

Carried == 0 .. issued      \* 0: no cookie
Keep(r, q) == req' = [req EXCEPT ![r] = q]

\* A page is asked for with an old token: what is not a session is deleted.
Visit(t) ==
  /\ ~Open(t) /\ sess' = Looked(t)
  /\ UNCHANGED <<account, holder, issued, oidc, req, policy, now, restarts, origin, ended>>

LoginPage(t) ==
  /\ Spare(1) /\ RendersLogin(t) /\ PurgedFor(t, txn)
  /\ UNCHANGED <<account, holder, begun, binding, req, policy, now, restarts, origin, ended>>

Logout(t) ==
  /\ SignedIn(t) /\ sess' = Without(t) /\ ended' = ended \cup {t}
  /\ UNCHANGED <<account, holder, issued, oidc, req, policy, now, restarts, origin>>

-----------------------------------------------------------------------------
(* The credential file *)

\* Mutant: the lock is taken without waiting for it.
Unlocked == TRUE

\* _admin_lock, a mutex and a file lock: free to take.
LockFree == holder = Nobody

\* Mutant: the version stays, as if it belonged to the user.
OldVersion(s, must) ==
  [secret |-> s, version |-> file.version, must |-> must, failed |-> 0, locked |-> 0]

\* New credentials: _new_admin, or what change_password writes.
Credentials(s, must) ==
  [secret |-> s, version |-> minted + 1, must |-> must, failed |-> 0, locked |-> 0]

SignedOut == {t \in Tokens : origin[t] # None /\ origin[t].method = "local"}

\* Both end every local session, and the count of wrong passwords.
Replaces(s, must) ==
  /\ minted < MaxVersion /\ minted' = minted + 1
  /\ file' = Credentials(s, must) /\ wrong' = 0 /\ ended' = ended \cup SignedOut

\* netinfra-ipman-init, to provision or to recover.
Recover(s) ==
  /\ LockFree /\ Replaces(s, TRUE)
  /\ UNCHANGED <<holder, table, oidc, req, policy, now, restarts, origin>>

\* An expired lock is forgotten, with the attempts that led to it.
Reset(f) == IF f.locked # 0 THEN [f EXCEPT !.failed = 0, !.locked = 0] ELSE f

\* Mutant: one attempt more than the settings allow.
CountedLate(f, at) ==
  [f EXCEPT !.failed = @ + 1, !.locked = IF f.failed >= Attempts THEN at + Lockout ELSE 0]

\* A wrong password, at a time: the last one allowed locks the account.
Counted(f, at) ==
  [f EXCEPT !.failed = @ + 1, !.locked = IF f.failed + 1 >= Attempts THEN at + Lockout ELSE 0]

\* authenticate, first half: the lock, the file, and whether it is locked.
Login(r, t, s) ==
  /\ req[r] = Idle /\ Spare(1) /\ Open(t) /\ LockFree     \* Open: verify_csrf
  /\ \/ /\ file.locked > now /\ UNCHANGED <<holder, table, oidc, req, wrong>>
     \/ /\ file.locked <= now /\ holder' = r
        /\ Keep(r, [at |-> "verifying", token |-> t, secret |-> s,
                    read |-> Reset(file), time |-> now])
        /\ wrong' = IF file.locked # 0 THEN 0 ELSE wrong
        /\ UNCHANGED <<table, oidc>>
  /\ UNCHANGED <<file, minted, policy, now, restarts, origin, ended>>

\* Second half: the password is checked, and the file written from what was
\* read.  A file without a version gets one.
Verify(r) ==
  LET q == req[r]
      good == q.secret = q.read.secret
      v == IF q.read.version = 0 THEN minted + 1 ELSE q.read.version IN
  /\ q.at = "verifying" /\ holder' = Nobody
  /\ \/ /\ ~good /\ file' = Counted(q.read, q.time) /\ wrong' = wrong + 1
        /\ Keep(r, Idle) /\ RendersLogin(q.token) /\ PurgedFor(q.token, txn)
        /\ UNCHANGED minted
     \/ /\ good /\ wrong' = 0
        /\ file' = [q.read EXCEPT !.version = v, !.failed = 0, !.locked = 0]
        /\ minted' = IF q.read.version = 0 THEN v ELSE minted
        /\ Keep(r, [at |-> "verified", token |-> q.token, who |-> Local(v, q.read.must),
                    from |-> [method |-> "local", secret |-> q.secret, version |-> v]])
        /\ UNCHANGED <<sess, issued, txn>>
  /\ UNCHANGED <<begun, binding, policy, now, restarts, origin, ended>>

\* change_password: the request is accepted, then waits for a thread.
AskChange(r, t, s, n) ==
  /\ req[r] = Idle /\ Spare(1) /\ SignedIn(t) /\ sess[t].who.method = "local"
  /\ Keep(r, [at |-> "changing", token |-> t, who |-> sess[t].who, secret |-> s, new |-> n])
  /\ UNCHANGED <<account, holder, table, oidc, policy, now, restarts, origin, ended>>

\* The thread has the lock: older credentials are refused, a locked account
\* too, a wrong password is counted, a right one replaced.
Change(r) ==
  LET q == req[r]
      refused == q.who.version # file.version \/ file.locked > now
      f == Reset(file)
      good == q.secret = file.secret IN
  /\ q.at = "changing" /\ LockFree
  /\ \/ /\ refused /\ Keep(r, Idle) /\ UNCHANGED <<account, ended>>
     \/ /\ ~refused /\ ~good /\ file' = Counted(f, now) /\ Keep(r, Idle)
        /\ wrong' = (IF file.locked # 0 THEN 0 ELSE wrong) + 1 /\ UNCHANGED <<minted, ended>>
     \/ /\ ~refused /\ good /\ Replaces(q.new, FALSE)
        /\ Keep(r, [at |-> "verified", token |-> q.token, who |-> Local(minted + 1, FALSE),
                    from |-> [method |-> "local", secret |-> q.new, version |-> minted + 1]])
  /\ UNCHANGED <<holder, table, oidc, policy, now, restarts, origin>>

\* revoke, then login: the request's session ends, and a new one begins unless
\* its principal is none any more.
Enter(r) ==
  LET q == req[r] IN
  /\ q.at = "verified" /\ Keep(r, Idle)
  /\ ended' = ended \cup ({q.token} \cap Tokens)
  /\ \/ /\ Valid(q.who, policy) /\ issued' = issued + 1
        /\ sess' = [Purged(Without(q.token)) EXCEPT ![issued + 1] = SignIn(q.who)]
        /\ txn' = Purged(txn)
        /\ origin' = [origin EXCEPT ![issued + 1] = q.from]
     \/ /\ ~Valid(q.who, policy) /\ sess' = Without(q.token)
        /\ UNCHANGED <<issued, txn, origin>>
  /\ UNCHANGED <<account, holder, begun, binding, policy, now, restarts>>

-----------------------------------------------------------------------------
(* OIDC *)

\* begin: the request's session is bound, the provider asked for its metadata.
Begin(r, t) ==
  /\ req[r] = Idle /\ policy.on /\ Open(t) /\ Spare(1)
  /\ Keep(r, [at |-> "beginning", token |-> t]) /\ txn' = Purged(txn)
  /\ sess' = Purged(sess)
  /\ UNCHANGED <<account, holder, issued, begun, binding, policy, now, restarts, origin, ended>>

\* The metadata is in: the transaction is saved.
Began(r) ==
  LET q == req[r] IN
  /\ q.at = "beginning" /\ begun < MaxState /\ begun' = begun + 1
  /\ txn' = [txn EXCEPT ![begun + 1] =
       [kind |-> "txn", binding |-> q.token, issuer |-> policy.issuer, until |-> now + Short]]
  /\ binding' = [binding EXCEPT ![begun + 1] = q.token] /\ Keep(r, Idle)
  /\ UNCHANGED <<account, holder, table, policy, now, restarts, origin, ended>>

\* Mutant: the transaction is read and stays.
ReadOnly(s) == txn

\* consume_oidc_transaction: whatever comes of it, the state is used.
Consumed(s) == [txn EXCEPT ![s] = None]

\* The transaction is one, is bound to the session of this browser, and names
\* the provider of the settings.
Answers(t, x) ==
  /\ x # None /\ x.until > now /\ x.issuer = policy.issuer
  /\ Open(t) /\ x.binding = t

\* complete, up to its first request to the provider.
Callback(r, t, s) ==
  /\ req[r] = Idle /\ policy.on /\ Spare(1)
  /\ \/ /\ Answers(t, txn[s]) /\ txn' = Consumed(s)
        /\ Keep(r, [at |-> "exchanging", token |-> t, state |-> s])
        /\ UNCHANGED table
     \/ /\ ~Answers(t, txn[s]) /\ PurgedFor(t, Consumed(s)) /\ RendersLogin(t)
        /\ UNCHANGED req
  /\ UNCHANGED <<account, holder, begun, binding, policy, now, restarts, origin, ended>>

\* The provider's answers grant a role by the settings.
Exchanged(r) ==
  LET q == req[r] IN
  /\ q.at = "exchanging"
  /\ Keep(r, [at |-> "verified", token |-> q.token, who |-> Sso(policy),
              from |-> [method |-> "oidc", state |-> q.state, token |-> q.token]])
  /\ UNCHANGED <<account, holder, table, oidc, policy, now, restarts, origin, ended>>

\* The provider fails, or grants nothing: the login page again.
Denied(r) ==
  /\ req[r].at \in {"beginning", "exchanging"} /\ Keep(r, Idle)
  /\ RendersLogin(req[r].token) /\ PurgedFor(req[r].token, txn)
  /\ UNCHANGED <<account, holder, begun, binding, policy, now, restarts, origin, ended>>

-----------------------------------------------------------------------------

Tick ==
  /\ now < MaxTime /\ now' = now + 1
  /\ UNCHANGED <<account, holder, table, oidc, req, policy, restarts, origin, ended>>

\* The program dies, whatever it was doing, and starts with other settings.
Restart(p) ==
  /\ restarts > 0 /\ restarts' = restarts - 1
  /\ holder' = Nobody /\ req' = [r \in Requests |-> Idle] /\ policy' = p
  /\ UNCHANGED <<account, table, oidc, now, origin, ended>>

Next ==
  \/ \E t \in Carried : Visit(t) \/ LoginPage(t) \/ Logout(t)
  \/ \E s \in Secrets : Recover(s)
  \/ \E r \in Requests :
       \/ Verify(r) \/ Change(r) \/ Enter(r) \/ Began(r) \/ Exchanged(r) \/ Denied(r)
       \/ \E t \in Carried :
            \/ Begin(r, t)
            \/ \E s \in Secrets : Login(r, t, s) \/ \E n \in Secrets : AskChange(r, t, s, n)
            \/ \E s \in 1 .. begun : Callback(r, t, s)
  \/ Tick
  \/ \E p \in Policies : Restart(p)

Spec == Init /\ [][Next]_vars

-----------------------------------------------------------------------------
(* Properties *)

Principals == [method : {"local"}, version : Versions, must : BOOLEAN]
              \cup [method : {"oidc"}, roles : {p.roles : p \in Policies}]
Origins    == [method : {"local"}, secret : Secrets, version : Versions]
              \cup [method : {"oidc"}, state : States, token : Tokens]
Accounts   == [secret : Secrets, version : Versions, must : BOOLEAN,
               failed : 0 .. Attempts, locked : Nat]

\* Types: the rows of the three tables, and what a request in flight holds; in
\* particular the failed attempts in the file never exceed the settings.
TypeOK ==
  /\ file \in Accounts /\ minted \in Versions /\ wrong \in Nat
  /\ holder \in Requests \cup {Nobody}
  /\ sess \in [Tokens -> {None} \cup [kind : {"preauth"}, until : Nat]
                 \cup [kind : {"authenticated"}, who : Principals,
                       policy : Policies, until : Nat]]
  /\ issued \in 0 .. MaxToken /\ begun \in 0 .. MaxState
  /\ txn \in [States -> {None} \cup
       [kind : {"txn"}, binding : Tokens, issuer : Nat, until : Nat]]
  /\ req \in [Requests -> {Idle}
       \cup [at : {"verifying"}, token : Tokens, secret : Secrets, read : Accounts, time : Nat]
       \cup [at : {"changing"}, token : Tokens, who : Principals, secret : Secrets, new : Secrets]
       \cup [at : {"verified"}, token : Tokens, who : Principals, from : Origins]
       \cup [at : {"beginning"}, token : Tokens]
       \cup [at : {"exchanging"}, token : Tokens, state : States]]
  /\ policy \in Policies /\ now \in 0 .. MaxTime /\ restarts \in 0 .. MaxRestarts
  /\ origin \in [Tokens -> {None} \cup Origins] /\ ended \in SUBSET Tokens
  /\ binding \in [States -> 0 .. MaxToken]

\* Whoever is signed in locally was verified, or chose the password, under the
\* very credentials that are in the file now: a login or a change that was
\* verified before a recovery or another change gives nothing after it
\* (authenticate, change_password, login's check of its principal).
CredentialsAreCurrent ==
  \A t \in Tokens : SignedIn(t) /\ origin[t].method = "local" =>
    origin[t].secret = file.secret /\ origin[t].version = file.version

\* What was signed out stays out, whatever happens later: by logout, by a later
\* login of the same browser, or, for every local session, by a recovery or a
\* change of the password, also while a thread still checks an older password
\* and writes the file (revoke, _principal, _admin_lock).
SignedOutStaysOut == \A t \in ended : ~Open(t)

\* Between two successes, changes of credentials or ends of a lock, no more
\* wrong passwords are answered than lockout_attempts, from all requests,
\* logins and changes together, across restarts (_authenticate_locked).
LockoutHolds == wrong <= Attempts

\* One state signs in at most one session, that of the browser session which
\* began it (consume_oidc_transaction, complete).
OneGrantPerState ==
  \A t \in Tokens : origin[t] # None /\ origin[t].method = "oidc" =>
    /\ binding[origin[t].state] = origin[t].token
    /\ \A u \in Tokens : origin[u] = origin[t] => u = t

\* Whoever is signed in by OIDC has the role that the settings in force grant,
\* also after a restart that changed nothing but the mapping of roles
\* (oidc_policy_fingerprint).
GrantsFollowPolicy ==
  \A t \in Tokens : SignedIn(t) /\ sess[t].who.method = "oidc" =>
    policy.on /\ sess[t].who.roles = policy.roles

=============================================================================
