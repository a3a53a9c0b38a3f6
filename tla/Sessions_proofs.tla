-------------------------- MODULE Sessions_proofs ---------------------------
(***************************************************************************)
(* The safety of the sign-in for any number of requests, tokens, states,   *)
(* restarts and policies.  The properties speak of sessions that are open; *)
(* what keeps them true is what the requests in flight carry: a login that *)
(* checks a password has the lock and has read the file as it is, one that *)
(* was verified knows under which version, and one that answers a state is *)
(* the only one ever to do so.                                             *)
(***************************************************************************)
EXTENDS Sessions, FiniteSetTheorems, TLAPS

-----------------------------------------------------------------------------
(* The inductive invariant *)

TypeInv ==
  /\ file \in [secret : Secrets, version : Nat, must : BOOLEAN, failed : Nat, locked : Nat]
  /\ minted \in Nat /\ issued \in Nat /\ begun \in Nat /\ now \in Nat /\ wrong \in Nat
  /\ file.version <= minted /\ begun <= MaxState
  /\ DOMAIN sess = Tokens /\ DOMAIN origin = Tokens /\ ended \subseteq Tokens
  /\ DOMAIN txn = States /\ DOMAIN binding = States /\ DOMAIN req = Requests

\* Wrong passwords are those the file counts, while it is not locked.
LockInv ==
  /\ wrong <= Attempts
  /\ file.locked = 0 => wrong = file.failed /\ wrong < Attempts

\* A version is drawn for one password.
Proof(from) ==
  /\ from # None
  /\ \/ /\ from.method = "local" /\ from.version \in 1 .. minted
        /\ from.version = file.version => from.secret = file.secret
     \/ /\ from.method = "oidc" /\ from.state \in 1 .. begun
        /\ txn[from.state] = None /\ binding[from.state] = from.token

OriginInv == \A t \in Tokens : origin[t] # None => t <= issued /\ Proof(origin[t])

\* A principal and how it was signed in.
Matches(who, from, p) ==
  \/ who.method = "local" /\ from.method = "local" /\ who.version = from.version
  \/ who.method = "oidc" /\ from.method = "oidc" /\ who.roles = p.roles

SessInv == \A t \in Tokens :
  \/ sess[t] = None
  \/ sess[t].kind = "preauth" /\ origin[t] = None
  \/ /\ sess[t].kind = "authenticated" /\ origin[t] # None
     /\ Matches(sess[t].who, origin[t], sess[t].policy)

\* A session that was ended is gone, or of credentials that were replaced.
Dead(t) ==
  \/ sess[t] = None
  \/ /\ sess[t].kind = "authenticated" /\ sess[t].who.method = "local"
     /\ sess[t].who.version \in Nat /\ sess[t].who.version < file.version

EndedInv == \A t \in ended : t <= issued /\ Dead(t)

\* A request that waits, with nothing shown yet.
Asks(q) == q.at = "beginning" \/ (q.at = "changing" /\ q.new \in Secrets)

ReqOK(r) == LET q == req[r] IN
  \/ q.at = "idle"
  \/ /\ q.token \in 0 .. issued
     /\ \/ Asks(q)
        \/ /\ q.at = "verifying" /\ holder = r /\ q.time \in Nat
           /\ q.read = Reset(file) /\ wrong = q.read.failed
        \/ q.at = "verified" /\ Proof(q.from) /\ Matches(q.who, q.from, policy)
        \/ /\ q.at = "exchanging" /\ q.state \in 1 .. begun
           /\ txn[q.state] = None /\ binding[q.state] = q.token

ReqInv == \A r \in Requests : ReqOK(r)

TxnInv == \A s \in States : txn[s] # None => s <= begun /\ txn[s].binding = binding[s]

\* Who answers a state, and who was signed in by it.
Uses(r, s) ==
  \/ req[r].at = "exchanging" /\ req[r].state = s
  \/ req[r].at = "verified" /\ req[r].from.method = "oidc" /\ req[r].from.state = s

Granted(t, s) == origin[t] # None /\ origin[t].method = "oidc" /\ origin[t].state = s

UniqueInv ==
  /\ \A r, q \in Requests, s \in States : Uses(r, s) /\ Uses(q, s) => r = q
  /\ \A r \in Requests, t \in Tokens, s \in States : Uses(r, s) => ~Granted(t, s)
  /\ \A t, u \in Tokens, s \in States : Granted(t, s) /\ Granted(u, s) => t = u

IInv == /\ TypeInv /\ LockInv /\ OriginInv /\ SessInv /\ EndedInv
        /\ ReqInv /\ TxnInv /\ UniqueInv

LEMMA InitInv == Init => IInv
<1> SUFFICES ASSUME Init PROVE IInv
  OBVIOUS
<1> USE DEF Init
<1>1. TypeInv
  <2>1. /\ file \in [secret : Secrets, version : Nat, must : BOOLEAN, failed : Nat, locked : Nat]
        /\ file.version <= minted
    OBVIOUS
  <2>2. /\ minted \in Nat /\ issued \in Nat /\ begun \in Nat /\ now \in Nat /\ wrong \in Nat
        /\ begun <= MaxState /\ ended \subseteq Tokens
    BY SessionsAssumption
  <2>3. /\ DOMAIN sess = Tokens /\ DOMAIN origin = Tokens
        /\ DOMAIN txn = States /\ DOMAIN binding = States /\ DOMAIN req = Requests
    OBVIOUS
  <2>4. QED  BY <2>1, <2>2, <2>3 DEF TypeInv
<1>0. LockInv
  BY SessionsAssumption DEF LockInv
<1>2. OriginInv /\ SessInv /\ EndedInv /\ TxnInv
  BY DEF OriginInv, SessInv, EndedInv, TxnInv
<1>3. \A r \in Requests : req[r].at = "idle"
  BY DEF Idle
<1>4. ReqInv /\ UniqueInv
  BY <1>3 DEF ReqInv, ReqOK, UniqueInv, Uses, Granted
<1>5. QED  BY <1>0, <1>1, <1>2, <1>4 DEF IInv

-----------------------------------------------------------------------------
(* The session table *)

\* A table shrinks.
LEMMA Purging ==
  ASSUME NEW f, NEW S, DOMAIN f = S
  PROVE  DOMAIN Purged(f) = S /\ \A x \in S : Purged(f)[x] \in {f[x], None}
  BY DEF Purged

LEMMA Deleting ==
  ASSUME DOMAIN sess = Tokens, NEW t
  PROVE  /\ DOMAIN Without(t) = Tokens /\ DOMAIN Looked(t) = Tokens
         /\ \A u \in Tokens : Without(t)[u] \in {sess[u], None}
         /\ \A u \in Tokens : Looked(t)[u] \in {sess[u], None}
         /\ \A u \in Tokens : u = t => Without(t)[u] = None
  BY DEF Without, Looked

\* Sessions end; the only new one is not signed in.
Shrinks ==
  /\ issued' \in Nat /\ issued <= issued' /\ DOMAIN sess' = Tokens
  /\ \A t \in Tokens : \/ sess'[t] \in {sess[t], None}
                       \/ t > issued /\ sess'[t].kind = "preauth"

LEMMA Rendering ==
  ASSUME TypeInv, NEW t, RendersLogin(t)
  PROVE  Shrinks
<1>1. CASE Open(t)
  BY <1>1 DEF RendersLogin, Shrinks, TypeInv
<1>2. CASE ~Open(t)
  <2> DEFINE kept == Purged(Looked(t))
  <2>1. issued' = issued + 1 /\ sess' = [kept EXCEPT ![issued + 1] = PreLogin]
    BY <1>2 DEF RendersLogin
  <2>2. DOMAIN Looked(t) = Tokens /\ \A u \in Tokens : Looked(t)[u] \in {sess[u], None}
    BY Deleting DEF TypeInv
  <2>3. DOMAIN kept = Tokens /\ \A u \in Tokens : kept[u] \in {sess[u], None}
    BY <2>2, Purging
  <2> HIDE DEF kept
  <2>4. \A u \in Tokens : u # issued + 1 => sess'[u] = kept[u]
    BY <2>1, <2>3
  <2>5. \A u \in Tokens : u = issued + 1 => sess'[u].kind = "preauth"
    BY <2>1, <2>3 DEF PreLogin
  <2>6. QED  BY <2>1, <2>3, <2>4, <2>5 DEF Shrinks, TypeInv, Tokens
<1>3. QED  BY <1>1, <1>2

\* Transactions end.
TxnShrinks == DOMAIN txn' = States /\ \A s \in States : txn'[s] \in {txn[s], None}

LEMMA PurgingFor ==
  ASSUME TypeInv, NEW t, NEW x, DOMAIN x = States,
         \A s \in States : x[s] \in {txn[s], None}, PurgedFor(t, x)
  PROVE  TxnShrinks
<1>1. DOMAIN Purged(x) = States /\ \A s \in States : Purged(x)[s] \in {x[s], None}
  BY Purging
<1>2. QED  BY <1>1 DEF PurgedFor, TxnShrinks

-----------------------------------------------------------------------------
(* The steps that sign nobody in and write no credentials *)

\* What a request may become meanwhile.
Waits(r) ==
  \/ req'[r].at = "idle"
  \/ req'[r] = req[r] /\ policy' = policy /\ holder' = holder
  \/ Asks(req'[r]) /\ req'[r].token \in 0 .. issued'

Quiet ==
  /\ UNCHANGED <<file, minted, wrong, begun, binding, origin>>
  /\ Shrinks /\ TxnShrinks /\ now' \in Nat
  /\ \A t \in ended' : t \in Tokens /\ (t \in ended \/ (t <= issued /\ sess'[t] = None))
  /\ DOMAIN req' = Requests /\ \A r \in Requests : Waits(r)

LEMMA QuietStep ==
  ASSUME IInv, Quiet
  PROVE  IInv'
<1> USE DEF IInv, Quiet
<1>1. TypeInv'
  BY DEF TypeInv, Shrinks, TxnShrinks
<1>2. LockInv'
  BY DEF LockInv
<1>3. ASSUME NEW from, Proof(from) PROVE Proof(from)'
  BY <1>3, SessionsAssumption DEF Proof, TypeInv, TxnShrinks, States
<1>4. OriginInv'
  <2> SUFFICES ASSUME NEW t \in Tokens, origin[t] # None
               PROVE  t <= issued' /\ Proof(origin[t])'
    BY DEF OriginInv
  <2>1. t <= issued /\ Proof(origin[t])
    BY DEF OriginInv
  <2>2. QED  BY <2>1, <1>3 DEF Shrinks, TypeInv, Tokens
<1>5. SessInv'
  BY DEF SessInv, Shrinks, TypeInv, OriginInv, Tokens, Matches
<1>6. EndedInv'
  BY DEF EndedInv, Dead, Shrinks, TypeInv, Tokens
<1>7. ReqInv'
  <2> SUFFICES ASSUME NEW r \in Requests PROVE ReqOK(r)'
    BY DEF ReqInv
  <2>1. Waits(r) /\ ReqOK(r)
    BY DEF ReqInv
  <2>2. CASE req'[r].at = "idle"
    BY <2>2 DEF ReqOK, Asks
  <2>3. CASE Asks(req'[r]) /\ req'[r].token \in 0 .. issued'
    BY <2>3 DEF ReqOK, Asks
  <2>4. CASE req'[r] = req[r] /\ policy' = policy /\ holder' = holder
    <3>1. \A n \in 0 .. issued : n \in 0 .. issued'
      BY DEF Shrinks, TypeInv
    <3>2. \A s \in 1 .. begun : txn[s] = None => txn'[s] = None
      BY SessionsAssumption DEF TxnShrinks, TypeInv, States
    <3>3. Reset(file)' = Reset(file)
      BY DEF Reset
    <3>4. \A who, from : Matches(who, from, policy)' <=> Matches(who, from, policy)
      BY <2>4 DEF Matches
    <3>5. QED  BY <2>1, <2>4, <3>1, <3>2, <3>3, <3>4, <1>3 DEF ReqOK, Asks
  <2>5. QED  BY <2>1, <2>2, <2>3, <2>4 DEF Waits
<1>8. TxnInv'
  BY DEF TxnInv, TxnShrinks
<1>9. UniqueInv'
  <2>1. \A r \in Requests, s \in States : Uses(r, s)' => Uses(r, s)
    BY DEF Uses, Waits, Asks
  <2>2. \A t \in Tokens, s \in States : Granted(t, s)' <=> Granted(t, s)
    BY DEF Granted
  <2>3. QED  BY <2>1, <2>2 DEF UniqueInv
<1>10. QED  BY <1>1, <1>2, <1>4, <1>5, <1>6, <1>7, <1>8, <1>9

-----------------------------------------------------------------------------
(* Which steps those are *)

LEMMA Kept ==
  ASSUME TypeInv
  PROVE  /\ UNCHANGED table => Shrinks
         /\ UNCHANGED txn => TxnShrinks
         /\ UNCHANGED <<req, policy, holder>> => \A r \in Requests : Waits(r)
         /\ UNCHANGED req => DOMAIN req' = Requests
  BY DEF TypeInv, table, Shrinks, TxnShrinks, Waits

LEMMA Keeping ==
  ASSUME TypeInv, NEW r \in Requests, NEW q, Keep(r, q)
  PROVE  /\ DOMAIN req' = Requests /\ req'[r] = q
         /\ \A x \in Requests : x # r => req'[x] = req[x]
  BY DEF TypeInv, Keep

LEMMA KeptWaiting ==
  ASSUME TypeInv, NEW r \in Requests, NEW q, Keep(r, q), UNCHANGED <<policy, holder>>,
         \/ q.at = "idle"
         \/ Asks(q) /\ q.token \in 0 .. issued'
  PROVE  DOMAIN req' = Requests /\ \A x \in Requests : Waits(x)
  BY Keeping DEF Waits

LEMMA Removing ==
  ASSUME TypeInv, UNCHANGED issued, NEW t,
         sess' = Without(t) \/ sess' = Looked(t) \/ sess' = Purged(sess)
  PROVE  Shrinks
<1>1. DOMAIN Purged(sess) = Tokens /\ \A x \in Tokens : Purged(sess)[x] \in {sess[x], None}
  BY Purging DEF TypeInv
<1>2. QED  BY <1>1, Deleting DEF TypeInv, Shrinks

LEMMA Gathered ==
  ASSUME TypeInv, UNCHANGED <<file, minted, wrong, begun, binding, origin, ended>>,
         Shrinks, TxnShrinks, now' \in Nat,
         DOMAIN req' = Requests, \A x \in Requests : Waits(x)
  PROVE  Quiet
<1>1. ended' = ended /\ ended \subseteq Tokens
  BY DEF TypeInv
<1>2. \A t \in ended' : t \in Tokens /\ t \in ended
  BY <1>1
<1>3. QED  BY <1>2 DEF Quiet

LEMMA BrowsingIsQuiet ==
  ASSUME IInv, NEW t \in Carried, Visit(t) \/ LoginPage(t) \/ Logout(t)
  PROVE  Quiet
<1>0. TypeInv
  BY DEF IInv
<1>1. /\ UNCHANGED <<req, policy, holder, file, minted, wrong, begun, binding, origin, now>>
      /\ now \in Nat
  BY <1>0 DEF Visit, LoginPage, Logout, account, oidc, TypeInv
<1>2. DOMAIN req' = Requests /\ \A x \in Requests : Waits(x)
  BY <1>0, <1>1, Kept
<1>3. CASE Visit(t)
  <2>1. Shrinks
    BY <1>0, <1>3, Removing DEF Visit
  <2>2. TxnShrinks
    BY <1>0, <1>3, Kept DEF Visit, oidc
  <2>3. QED  BY <1>0, <1>1, <1>2, <1>3, <2>1, <2>2, Gathered DEF Visit
<1>4. CASE LoginPage(t)
  <2>1. Shrinks /\ TxnShrinks
    BY <1>0, <1>4, Rendering, PurgingFor DEF LoginPage, TypeInv
  <2>2. QED  BY <1>0, <1>1, <1>2, <1>4, <2>1, Gathered DEF LoginPage
<1>5. CASE Logout(t)
  <2>1. Shrinks
    BY <1>0, <1>5, Removing DEF Logout
  <2>2. t \in Tokens /\ t <= issued
    BY <1>0, <1>5 DEF Logout, SignedIn, Open, Carried, TypeInv
  <2>3. sess'[t] = None
    BY <1>0, <1>5, <2>2, Deleting DEF Logout, TypeInv
  <2>4. TxnShrinks
    BY <1>0, <1>5, Kept DEF Logout, oidc
  <2>5. \A u \in ended' : u \in Tokens /\ (u \in ended \/ (u <= issued /\ sess'[u] = None))
    <3>1. ended' = ended \cup {t} /\ ended \subseteq Tokens
      BY <1>0, <1>5 DEF Logout, TypeInv
    <3>2. QED  BY <2>2, <2>3, <3>1
  <2>6. QED  BY <1>1, <1>2, <2>1, <2>4, <2>5 DEF Quiet
<1>6. QED  BY <1>3, <1>4, <1>5

LEMMA AskingIsQuiet ==
  ASSUME IInv, NEW r \in Requests, NEW t \in Carried, NEW s, NEW n \in Secrets,
         AskChange(r, t, s, n) \/ Begin(r, t)
  PROVE  Quiet
<1>0. TypeInv
  BY DEF IInv
<1>1. issued' = issued /\ t \in 0 .. issued'
  BY DEF AskChange, Begin, table, Carried
<1>2. /\ UNCHANGED <<policy, holder, file, minted, wrong, begun, binding, origin, now, ended>>
      /\ now \in Nat
  BY <1>0 DEF AskChange, Begin, account, oidc, TypeInv
<1>3. DOMAIN req' = Requests /\ \A x \in Requests : Waits(x)
  <2>1. \E q : Keep(r, q) /\ Asks(q) /\ q.token = t
    BY DEF AskChange, Begin, Asks
  <2>2. QED  BY <1>0, <1>1, <1>2, <2>1, KeptWaiting
<1>4. CASE AskChange(r, t, s, n)
  <2>1. Shrinks /\ TxnShrinks
    BY <1>0, <1>4, Kept DEF AskChange, oidc
  <2>2. QED  BY <1>0, <1>2, <1>3, <2>1, Gathered
<1>5. CASE Begin(r, t)
  <2>1. Shrinks
    BY <1>0, <1>1, <1>5, Removing DEF Begin
  <2>2. TxnShrinks
    BY <1>0, <1>5, Purging DEF Begin, TypeInv, TxnShrinks
  <2>3. QED  BY <1>0, <1>2, <1>3, <2>1, <2>2, Gathered
<1>6. QED  BY <1>4, <1>5

LEMMA RefusingIsQuiet ==
  ASSUME IInv, NEW r \in Requests,
         \/ Denied(r)
         \/ \E t \in Carried, s \in 1 .. begun : Callback(r, t, s) /\ UNCHANGED req
         \/ Change(r) /\ Keep(r, Idle) /\ UNCHANGED <<account, ended>>
  PROVE  Quiet
<1>0. TypeInv
  BY DEF IInv
<1>1. /\ UNCHANGED <<policy, holder, file, minted, wrong, begun, binding, origin, now, ended>>
      /\ now \in Nat
  BY <1>0 DEF Denied, Callback, Change, account, oidc, TypeInv
<1>2. Idle.at = "idle"
  BY DEF Idle
<1>3. CASE Denied(r)
  <2>1. DOMAIN req' = Requests /\ \A x \in Requests : Waits(x)
    BY <1>0, <1>1, <1>2, <1>3, KeptWaiting DEF Denied
  <2>2. Shrinks /\ TxnShrinks
    BY <1>0, <1>3, Rendering, PurgingFor DEF Denied, TypeInv
  <2>3. QED  BY <1>0, <1>1, <2>1, <2>2, Gathered
<1>4. CASE \E t \in Carried, s \in 1 .. begun : Callback(r, t, s) /\ UNCHANGED req
  <2>1. PICK t \in Carried, s \in 1 .. begun : Callback(r, t, s) /\ UNCHANGED req
    BY <1>4
  <2>2. PurgedFor(t, Consumed(s)) /\ RendersLogin(t)
    <3>1. ASSUME Keep(r, [at |-> "exchanging", token |-> t, state |-> s])
          PROVE  FALSE
      BY <1>0, <2>1, <3>1, Keeping DEF Callback, Idle
    <3>2. QED  BY <2>1, <3>1 DEF Callback
  <2>3. DOMAIN Consumed(s) = States /\ \A x \in States : Consumed(s)[x] \in {txn[x], None}
    BY <1>0 DEF Consumed, TypeInv
  <2>4. Shrinks /\ TxnShrinks
    BY <1>0, <2>2, <2>3, Rendering, PurgingFor
  <2>5. DOMAIN req' = Requests /\ \A x \in Requests : Waits(x)
    BY <1>0, <1>1, <2>1, Kept
  <2>6. QED  BY <1>0, <1>1, <2>4, <2>5, Gathered
<1>5. CASE Change(r) /\ Keep(r, Idle) /\ UNCHANGED <<account, ended>>
  <2>1. DOMAIN req' = Requests /\ \A x \in Requests : Waits(x)
    BY <1>0, <1>1, <1>2, <1>5, KeptWaiting
  <2>2. Shrinks /\ TxnShrinks
    BY <1>0, <1>5, Kept DEF Change, oidc
  <2>3. QED  BY <1>0, <1>1, <2>1, <2>2, Gathered
<1>6. QED  BY <1>3, <1>4, <1>5

\* The clock, and the death of the program.
LEMMA TimeIsQuiet ==
  ASSUME IInv, Tick \/ \E p \in Policies : Restart(p)
  PROVE  Quiet
<1>0. TypeInv
  BY DEF IInv
<1>1. /\ UNCHANGED <<file, minted, wrong, begun, binding, origin, ended, table, txn>>
      /\ now' \in Nat
  BY <1>0 DEF Tick, Restart, account, oidc, table, TypeInv
<1>2. DOMAIN req' = Requests /\ \A x \in Requests : Waits(x)
  BY <1>0, Kept DEF Tick, Restart, Waits, Idle
<1>3. Shrinks /\ TxnShrinks
  BY <1>0, <1>1, Kept
<1>4. QED  BY <1>0, <1>1, <1>2, <1>3, Gathered

-----------------------------------------------------------------------------
(* What every other step leaves true *)

\* Versions, tokens and states are drawn, never returned; a state that was used
\* stays used.
Grows ==
  /\ minted' \in Nat /\ minted <= minted' /\ issued' \in Nat /\ issued <= issued'
  /\ begun' \in Nat /\ begun <= begun'
  /\ \A s \in 1 .. begun : binding'[s] = binding[s] /\ (txn[s] = None => txn'[s] = None)
  /\ \/ file'.version = file.version /\ file'.secret = file.secret
     \/ file'.version \in Nat /\ file'.version > minted

LEMMA ProofStays ==
  ASSUME TypeInv, Grows, NEW from, Proof(from)
  PROVE  Proof(from)'
<1>1. CASE from.method = "local" /\ from.version \in 1 .. minted
           /\ (from.version = file.version => from.secret = file.secret)
  BY <1>1 DEF Proof, TypeInv, Grows
<1>2. CASE from.method = "oidc" /\ from.state \in 1 .. begun
           /\ txn[from.state] = None /\ binding[from.state] = from.token
  BY <1>2 DEF Proof, TypeInv, Grows
<1>3. QED  BY <1>1, <1>2 DEF Proof

\* A request that does not check a password depends on nothing that changes.
LEMMA RequestStays ==
  ASSUME IInv, Grows, policy' = policy, NEW r \in Requests, req'[r] = req[r],
         r # holder \/ UNCHANGED <<file, holder, wrong>>
  PROVE  ReqOK(r)'
<1>0. TypeInv /\ ReqOK(r)
  BY DEF IInv, ReqInv
<1>1. \A n \in 0 .. issued : n \in 0 .. issued'
  BY <1>0 DEF Grows, TypeInv
<1>2. \A s \in 1 .. begun : s \in 1 .. begun'
  BY <1>0 DEF Grows, TypeInv
<1>3. \A who, from : Matches(who, from, policy)' <=> Matches(who, from, policy)
  BY DEF Matches
<1>4. CASE req[r].at = "idle"
  BY <1>4 DEF ReqOK, Asks
<1>5. CASE Asks(req[r]) /\ req[r].token \in 0 .. issued
  BY <1>1, <1>5 DEF ReqOK, Asks
<1>6. CASE req[r].at = "verifying" /\ req[r].token \in 0 .. issued
  <2>1. holder = r
    BY <1>0, <1>6 DEF ReqOK, Asks
  <2>2. Reset(file)' = Reset(file)
    BY <2>1 DEF Reset
  <2>3. QED  BY <1>0, <1>1, <1>6, <2>1, <2>2 DEF ReqOK, Asks
<1>7. CASE req[r].at = "verified" /\ req[r].token \in 0 .. issued
  <2>1. Proof(req[r].from)'
    BY <1>0, <1>7, ProofStays DEF ReqOK, Asks
  <2>2. QED  BY <1>0, <1>1, <1>3, <1>7, <2>1 DEF ReqOK, Asks
<1>8. CASE req[r].at = "exchanging" /\ req[r].token \in 0 .. issued
  BY <1>0, <1>1, <1>2, <1>8 DEF ReqOK, Asks, Grows
<1>9. QED  BY <1>0, <1>4, <1>5, <1>6, <1>7, <1>8 DEF ReqOK, Asks

-----------------------------------------------------------------------------
(* The steps that write the credential file, or are about to *)

\* No other request checks a password meanwhile, nor answers for a state.
Alone(r) == \/ req'[r] = req[r] /\ r # holder
            \/ ReqOK(r)' /\ \A s \in States : ~Uses(r, s)'

Account ==
  /\ Grows /\ Shrinks /\ TxnShrinks
  /\ UNCHANGED <<begun, binding, origin, policy, now>>
  /\ file' \in [secret : Secrets, version : Nat, must : BOOLEAN, failed : Nat, locked : Nat]
  /\ file'.version <= minted' /\ wrong' \in Nat /\ LockInv'
  /\ \A t \in ended' : t \in Tokens /\ (t \in ended \/ (t <= issued' /\ Dead(t)'))
  /\ DOMAIN req' = Requests /\ \A r \in Requests : Alone(r)

LEMMA AccountStep ==
  ASSUME IInv, Account
  PROVE  IInv'
<1>0. TypeInv /\ Grows /\ Shrinks /\ TxnShrinks /\ LockInv'
  BY DEF IInv, Account
<1>1. TypeInv'
  <2>1. ended' \subseteq Tokens
    BY DEF Account
  <2>2. QED  BY <1>0, <2>1 DEF TypeInv, Account, Grows, Shrinks, TxnShrinks
<1>2. OriginInv'
  <2> SUFFICES ASSUME NEW t \in Tokens, origin[t] # None
               PROVE  t <= issued' /\ Proof(origin[t])'
    BY DEF OriginInv, Account
  <2>1. t <= issued /\ Proof(origin[t])
    BY DEF OriginInv, IInv
  <2>2. Proof(origin[t])'
    BY <1>0, <2>1, ProofStays DEF Account
  <2>3. QED  BY <1>0, <2>1, <2>2 DEF Shrinks, TypeInv, Tokens
<1>3. SessInv'
  BY <1>0 DEF IInv, Account, SessInv, Shrinks, TypeInv, OriginInv, Tokens, Matches
<1>4. EndedInv'
  <2> SUFFICES ASSUME NEW t \in ended' PROVE (t <= issued /\ Dead(t))'
    BY DEF EndedInv
  <2>1. CASE t \in Tokens /\ t \in ended
    <3>1. t <= issued /\ Dead(t)
      BY <2>1 DEF IInv, EndedInv
    <3>2. t <= issued' /\ sess'[t] \in {sess[t], None}
      BY <1>0, <2>1, <3>1 DEF Shrinks, TypeInv, Tokens
    <3>3. file.version <= file'.version
      BY <1>0 DEF Grows, TypeInv
    <3>4. CASE sess'[t] = None
      BY <3>2, <3>4 DEF Dead
    <3>5. CASE sess'[t] = sess[t] /\ sess[t] # None
      <4>1. \A v \in Nat : v < file.version => v < file'.version
        BY <1>0, <1>1, <3>3 DEF TypeInv
      <4>2. QED  BY <3>1, <3>2, <3>5, <4>1 DEF Dead
    <3>6. QED  BY <3>2, <3>4, <3>5
  <2>2. QED  BY <2>1 DEF Account
<1>5. ReqInv'
  <2> SUFFICES ASSUME NEW r \in Requests PROVE ReqOK(r)'
    BY DEF ReqInv
  <2>1. Alone(r) /\ policy' = policy
    BY DEF Account
  <2>2. QED  BY <1>0, <2>1, RequestStays DEF Alone
<1>6. TxnInv'
  BY <1>0 DEF IInv, TxnInv, TxnShrinks, Account
<1>7. UniqueInv'
  <2>1. \A r \in Requests, s \in States : Uses(r, s)' => Uses(r, s)
    BY DEF Uses, Account, Alone
  <2>2. \A t \in Tokens, s \in States : Granted(t, s)' <=> Granted(t, s)
    BY DEF Granted, Account
  <2>3. QED  BY <2>1, <2>2 DEF UniqueInv, IInv
<1>8. QED  BY <1>0, <1>1, <1>2, <1>3, <1>4, <1>5, <1>6, <1>7 DEF IInv

File == [secret : Secrets, version : Nat, must : BOOLEAN, failed : Nat, locked : Nat]

LEMMA Forgotten ==
  ASSUME NEW f \in File, NEW g, g = [f EXCEPT !.failed = 0, !.locked = 0]
  PROVE  /\ g \in File /\ g.failed = 0 /\ g.locked = 0
         /\ g.version = f.version /\ g.secret = f.secret
  BY DEF File

LEMMA Forgetting ==
  ASSUME NEW f \in File, f.locked # 0
  PROVE  /\ Reset(f) \in File /\ Reset(f).failed = 0 /\ Reset(f).locked = 0
         /\ Reset(f).version = f.version /\ Reset(f).secret = f.secret
<1>1. Reset(f) = [f EXCEPT !.failed = 0, !.locked = 0]
  BY DEF Reset
<1>2. QED  BY <1>1, Forgotten

\* What is read of the file: as it is, but for a lock that ended.
LEMMA Resetting ==
  ASSUME TypeInv, LockInv
  PROVE  /\ Reset(file) \in File /\ Reset(file).locked = 0
         /\ Reset(file).version = file.version /\ Reset(file).secret = file.secret
         /\ Reset(file).failed = IF file.locked # 0 THEN 0 ELSE wrong
         /\ Reset(file).failed < Attempts
<1>1. CASE file.locked = 0
  <2>1. Reset(file) = file
    BY <1>1 DEF Reset
  <2>2. QED  BY <1>1, <2>1 DEF TypeInv, LockInv, File
<1>2. CASE file.locked # 0
  <2>2. file \in File
    BY DEF TypeInv, File
  <2>3. 0 < Attempts /\ 0 \in Nat
    BY SessionsAssumption
  <2>4. /\ Reset(file) \in File /\ Reset(file).failed = 0 /\ Reset(file).locked = 0
        /\ Reset(file).version = file.version /\ Reset(file).secret = file.secret
    BY <1>2, <2>2, Forgetting
  <2>5. QED  BY <1>2, <2>3, <2>4
<1>3. QED  BY <1>1, <1>2

\* A wrong password that is counted: the last one allowed locks.
LEMMA Counting ==
  ASSUME NEW f \in File, f.failed < Attempts, NEW at \in Nat
  PROVE  /\ Counted(f, at) \in File
         /\ Counted(f, at).version = f.version /\ Counted(f, at).secret = f.secret
         /\ Counted(f, at).failed = f.failed + 1 /\ f.failed + 1 <= Attempts
         /\ Counted(f, at).locked = 0 => f.failed + 1 < Attempts
<1> DEFINE l == IF f.failed + 1 >= Attempts THEN at + Lockout ELSE 0
<1>1. f.failed \in Nat /\ f.failed + 1 \in Nat
  BY DEF File
<1>2. l \in Nat /\ (l = 0 => f.failed + 1 < Attempts) /\ f.failed + 1 <= Attempts
  BY <1>1, SessionsAssumption
<1>3. Counted(f, at) = [f EXCEPT !.failed = f.failed + 1, !.locked = l]
  BY DEF Counted
<1> HIDE DEF l
<1>4. /\ Counted(f, at) \in File /\ Counted(f, at).failed = f.failed + 1
      /\ Counted(f, at).locked = l
      /\ Counted(f, at).version = f.version /\ Counted(f, at).secret = f.secret
  BY <1>1, <1>2, <1>3 DEF File
<1>5. QED  BY <1>2, <1>4

LEMMA LoginStep ==
  ASSUME IInv, NEW r \in Requests, NEW t \in Carried, NEW s, Login(r, t, s)
  PROVE  Quiet \/ Account
<1>0. TypeInv /\ LockInv
  BY DEF IInv
<1>1. /\ UNCHANGED <<file, minted, begun, binding, origin, policy, now, ended, table, txn>>
      /\ now' \in Nat
  BY <1>0 DEF Login, oidc, TypeInv
<1>2. Shrinks /\ TxnShrinks
  BY <1>0, <1>1, Kept
<1>3. CASE UNCHANGED <<holder, req, wrong>>
  BY <1>0, <1>1, <1>2, <1>3, Kept, Gathered
<1>4. CASE /\ holder' = r
           /\ Keep(r, [at |-> "verifying", token |-> t, secret |-> s,
                       read |-> Reset(file), time |-> now])
           /\ wrong' = IF file.locked # 0 THEN 0 ELSE wrong
  <2>1. /\ DOMAIN req' = Requests /\ \A x \in Requests : x # r => req'[x] = req[x]
        /\ req'[r] = [at |-> "verifying", token |-> t, secret |-> s,
                      read |-> Reset(file), time |-> now]
    BY <1>0, <1>4, Keeping
  <2>2. \A x \in Requests : x # holder
    BY SessionsAssumption DEF Login, LockFree
  <2>3. Grows
    BY <1>0, <1>1 DEF Grows, TypeInv, table
  <2>4. wrong' \in Nat /\ LockInv'
    BY <1>0, <1>1, <1>4, SessionsAssumption DEF TypeInv, LockInv
  <2>5. ReqOK(r)' /\ \A x \in States : ~Uses(r, x)'
    <3>1. Reset(file)' = Reset(file) /\ wrong' = Reset(file).failed
      BY <1>0, <1>1, <1>4, Resetting DEF Reset
    <3>2. t \in 0 .. issued'
      BY <1>1 DEF Carried, table
    <3>3. QED  BY <1>0, <1>1, <1>4, <2>1, <3>1, <3>2 DEF ReqOK, Asks, Uses, TypeInv
  <2>6. \A x \in Requests : Alone(x)
    BY <2>1, <2>2, <2>5 DEF Alone
  <2>7. QED  BY <1>0, <1>1, <1>2, <2>1, <2>3, <2>4, <2>6 DEF Account, TypeInv
<1>5. QED  BY <1>3, <1>4 DEF Login

\* New credentials end every local session.
LEMMA Leaving ==
  ASSUME IInv, NEW t \in SignedOut, issued' = issued,
         sess' = sess, file'.version \in Nat, file'.version > minted
  PROVE  t <= issued' /\ Dead(t)'
<1>1. t \in Tokens /\ origin[t] # None /\ origin[t].method = "local"
  BY DEF SignedOut
<1>2. t <= issued /\ Proof(origin[t])
  BY <1>1 DEF IInv, OriginInv
<1>3. origin[t].version \in 1 .. minted
  BY <1>1, <1>2 DEF Proof
<1>4. CASE sess[t] = None
  BY <1>2, <1>4 DEF Dead
<1>5. CASE sess[t].kind = "authenticated" /\ Matches(sess[t].who, origin[t], sess[t].policy)
  BY <1>1, <1>2, <1>3, <1>5 DEF Dead, Matches, IInv, TypeInv
<1>6. QED  BY <1>1, <1>4, <1>5 DEF IInv, SessInv

LEMMA NewCredentials ==
  ASSUME TypeInv, NEW s \in Secrets, NEW must \in BOOLEAN, Replaces(s, must)
  PROVE  /\ file' \in File /\ file'.version = minted + 1 /\ file'.failed = 0
         /\ file'.secret = s
  BY DEF Replaces, Credentials, File, TypeInv

LEMMA RecoverStep ==
  ASSUME IInv, NEW s \in Secrets, Recover(s)
  PROVE  Account
<1>0. TypeInv /\ LockInv
  BY DEF IInv
<1>1. Shrinks /\ TxnShrinks
  BY <1>0, Kept DEF Recover, oidc
<1>2. /\ UNCHANGED <<table, begun, binding, origin, policy, now, req, txn>>
      /\ minted' = minted + 1 /\ wrong' = 0 /\ ended' = ended \cup SignedOut
  BY DEF Recover, Replaces, oidc
<1>3. /\ file' \in File /\ file'.version = minted + 1 /\ file'.failed = 0
  BY <1>0, NewCredentials DEF Recover
<1>4. Grows
  BY <1>0, <1>2, <1>3 DEF Grows, TypeInv, table
<1>5. LockInv'
  BY <1>2, <1>3, SessionsAssumption DEF LockInv
<1>6. \A r \in Requests : Alone(r)
  BY <1>2, SessionsAssumption DEF Alone, Recover, LockFree
<1>7. \A t \in ended' : t \in Tokens /\ (t \in ended \/ (t <= issued' /\ Dead(t)'))
  <2> SUFFICES ASSUME NEW t \in SignedOut PROVE t <= issued' /\ Dead(t)'
    BY <1>0, <1>2 DEF TypeInv, SignedOut
  <2> QED  BY <1>0, <1>2, <1>3, Leaving DEF TypeInv, table
<1>8. QED  BY <1>0, <1>1, <1>2, <1>3, <1>4, <1>5, <1>6, <1>7 DEF Account, TypeInv, File

LEMMA VerifyStep ==
  ASSUME IInv, NEW r \in Requests, Verify(r)
  PROVE  Account
<1> DEFINE q == req[r]
           v == IF q.read.version = 0 THEN minted + 1 ELSE q.read.version
<1>0. TypeInv /\ LockInv /\ q.at = "verifying" /\ Idle.at = "idle"
  BY DEF IInv, Verify, Idle
<1>1. /\ q.token \in 0 .. issued /\ holder = r /\ q.time \in Nat
      /\ q.read = Reset(file) /\ wrong = q.read.failed
  BY <1>0 DEF IInv, ReqInv, ReqOK, Asks
<1>2. /\ q.read \in File /\ q.read.version = file.version /\ q.read.secret = file.secret
      /\ q.read.failed < Attempts /\ wrong \in Nat
  BY <1>0, <1>1, Resetting DEF TypeInv
<1>3. /\ UNCHANGED <<begun, binding, origin, policy, now, ended>>
      /\ \A t \in ended' : t \in Tokens /\ t \in ended
  BY <1>0 DEF Verify, TypeInv
<1>4. CASE /\ file' = Counted(q.read, q.time) /\ wrong' = wrong + 1 /\ minted' = minted
           /\ Keep(r, Idle) /\ RendersLogin(q.token) /\ PurgedFor(q.token, txn)
  <2>1. /\ file' \in File /\ file'.version = file.version /\ file'.secret = file.secret
        /\ file'.failed = wrong' /\ wrong' <= Attempts /\ wrong' \in Nat
        /\ file'.locked = 0 => wrong' < Attempts
    BY <1>1, <1>2, <1>4, Counting
  <2>2. Shrinks /\ TxnShrinks
    BY <1>0, <1>4, Rendering, PurgingFor DEF TypeInv
  <2>3. Grows
    <3>1. /\ issued' \in Nat /\ issued <= issued' /\ begun' = begun /\ begun \in Nat
          /\ binding' = binding /\ minted' = minted /\ minted \in Nat
      BY <1>0, <1>3, <1>4, <2>2 DEF TypeInv, Shrinks
    <3>2. \A s \in 1 .. begun : txn[s] = None => txn'[s] = None
      BY <1>0, <2>2, SessionsAssumption DEF TxnShrinks, TypeInv, States
    <3>3. QED  BY <2>1, <3>1, <3>2 DEF Grows
  <2>4. DOMAIN req' = Requests /\ \A x \in Requests : Alone(x)
    BY <1>0, <1>1, <1>4, Keeping DEF Alone, ReqOK, Uses
  <2>5. LockInv'
    BY <2>1 DEF LockInv
  <2>6. QED  BY <1>0, <1>3, <1>4, <2>1, <2>2, <2>3, <2>4, <2>5 DEF Account, TypeInv, File
<1>5. CASE /\ q.secret = q.read.secret /\ wrong' = 0
           /\ file' = [q.read EXCEPT !.version = v, !.failed = 0, !.locked = 0]
           /\ minted' = IF q.read.version = 0 THEN v ELSE minted
           /\ Keep(r, [at |-> "verified", token |-> q.token, who |-> Local(v, q.read.must),
                       from |-> [method |-> "local", secret |-> q.secret, version |-> v]])
           /\ UNCHANGED <<sess, issued, txn>>
  <2>1. v \in Nat /\ v \in 1 .. minted' /\ minted <= minted' /\ minted' \in Nat
    BY <1>0, <1>2, <1>5 DEF TypeInv, File
  <2>2. /\ file' \in File /\ file'.version = v /\ file'.failed = 0
        /\ file'.secret = file.secret
    <3> HIDE DEF v
    <3>1. QED  BY <1>2, <1>5, <2>1 DEF File
  <2>3. Shrinks /\ TxnShrinks
    BY <1>0, <1>5, Kept DEF table
  <2>4. v = file.version \/ v > minted
    BY <1>0, <1>2 DEF TypeInv
  <2>5. Grows
    <3> HIDE DEF v
    <3>1. /\ issued' = issued /\ begun' = begun /\ binding' = binding /\ txn' = txn
          /\ issued \in Nat /\ begun \in Nat
      BY <1>0, <1>3, <1>5 DEF TypeInv
    <3>2. file'.version = file.version \/ (file'.version \in Nat /\ file'.version > minted)
      BY <2>1, <2>2, <2>4
    <3>3. QED  BY <2>1, <2>2, <3>1, <3>2 DEF Grows
  <2>6. LockInv'
    BY <1>5, <2>2, SessionsAssumption DEF LockInv
  <2>7. /\ DOMAIN req' = Requests /\ \A x \in Requests : x # r => req'[x] = req[x]
        /\ req'[r] = [at |-> "verified", token |-> q.token, who |-> Local(v, q.read.must),
                      from |-> [method |-> "local", secret |-> q.secret, version |-> v]]
    BY <1>0, <1>5, Keeping
  <2>8. ReqOK(r)' /\ \A s \in States : ~Uses(r, s)'
    <3> HIDE DEF v
    <3>1. QED  BY <1>1, <1>2, <1>5, <2>1, <2>2, <2>7 DEF ReqOK, Proof, Matches, Uses, Local, None
  <2>9. QED  BY <1>0, <1>1, <1>3, <1>5, <2>1, <2>2, <2>3, <2>5, <2>6, <2>7, <2>8
             DEF Account, Alone, TypeInv, File
<1>6. QED  BY <1>4, <1>5 DEF Verify

LEMMA ChangeStep ==
  ASSUME IInv, NEW r \in Requests, Change(r)
  PROVE  Quiet \/ Account
<1> DEFINE q == req[r]
<1>0. TypeInv /\ LockInv /\ q.at = "changing" /\ Idle.at = "idle"
  BY DEF IInv, Change, Idle
<1>1. q.token \in 0 .. issued /\ q.new \in Secrets /\ \A x \in Requests : x # holder
  BY <1>0, SessionsAssumption DEF IInv, ReqInv, ReqOK, Asks, Change, LockFree
<1>2. /\ UNCHANGED <<begun, binding, origin, policy, now, table, txn, sess, issued>>
      /\ Shrinks /\ TxnShrinks
  BY <1>0, Kept DEF Change, oidc, table
<1>3. /\ Reset(file) \in File /\ Reset(file).version = file.version
      /\ Reset(file).secret = file.secret /\ Reset(file).failed < Attempts
      /\ Reset(file).failed = (IF file.locked # 0 THEN 0 ELSE wrong) /\ Reset(file).failed \in Nat
  BY <1>0, Resetting DEF File
<1>4. CASE Keep(r, Idle) /\ UNCHANGED <<account, ended>>
  BY <1>4, RefusingIsQuiet
<1>5. CASE /\ file' = Counted(Reset(file), now) /\ Keep(r, Idle)
           /\ wrong' = (IF file.locked # 0 THEN 0 ELSE wrong) + 1
           /\ UNCHANGED <<minted, ended>>
  <2>1. /\ file' \in File /\ file'.version = file.version /\ file'.secret = file.secret
        /\ file'.failed = wrong' /\ wrong' <= Attempts /\ wrong' \in Nat
        /\ file'.locked = 0 => wrong' < Attempts
    BY <1>0, <1>3, <1>5, Counting DEF TypeInv
  <2>2. Grows
    BY <1>0, <1>2, <1>5, <2>1 DEF Grows, TypeInv
  <2>3. DOMAIN req' = Requests /\ \A x \in Requests : Alone(x)
    BY <1>0, <1>1, <1>5, Keeping DEF Alone, ReqOK, Uses
  <2>4. LockInv'
    BY <2>1 DEF LockInv
  <2>5. \A t \in ended' : t \in Tokens /\ t \in ended
    BY <1>0, <1>5 DEF TypeInv
  <2>6. QED  BY <1>0, <1>2, <1>5, <2>1, <2>2, <2>3, <2>4, <2>5 DEF Account, TypeInv, File
<1>6. CASE /\ Replaces(q.new, FALSE)
           /\ Keep(r, [at |-> "verified", token |-> q.token, who |-> Local(minted + 1, FALSE),
                       from |-> [method |-> "local", secret |-> q.new, version |-> minted + 1]])
  <2>1. /\ minted' = minted + 1 /\ wrong' = 0 /\ ended' = ended \cup SignedOut
    BY <1>6 DEF Replaces
  <2>2. /\ file' \in File /\ file'.version = minted + 1 /\ file'.failed = 0
        /\ file'.secret = q.new
    BY <1>0, <1>1, <1>6, NewCredentials
  <2>3. Grows
    BY <1>0, <1>2, <2>1, <2>2 DEF Grows, TypeInv
  <2>4. LockInv'
    BY <2>1, <2>2, SessionsAssumption DEF LockInv
  <2>5. /\ DOMAIN req' = Requests /\ \A x \in Requests : x # r => req'[x] = req[x]
        /\ req'[r] = [at |-> "verified", token |-> q.token, who |-> Local(minted + 1, FALSE),
                      from |-> [method |-> "local", secret |-> q.new, version |-> minted + 1]]
    BY <1>0, <1>6, Keeping
  <2>6. ReqOK(r)' /\ \A s \in States : ~Uses(r, s)'
    <3>1. minted + 1 \in 1 .. minted'
      BY <1>0, <2>1 DEF TypeInv
    <3>2. QED  BY <1>1, <1>2, <2>2, <2>5, <3>1 DEF ReqOK, Proof, Matches, Uses, Local, None
  <2>7. \A t \in ended' : t \in Tokens /\ (t \in ended \/ (t <= issued' /\ Dead(t)'))
    <3>1. \A t \in SignedOut : t \in Tokens /\ t <= issued' /\ Dead(t)'
      BY <1>0, <1>2, <2>2, Leaving DEF SignedOut, TypeInv
    <3>2. QED  BY <1>0, <2>1, <3>1 DEF TypeInv
  <2>8. QED  BY <1>0, <1>1, <1>2, <2>1, <2>2, <2>3, <2>4, <2>5, <2>6, <2>7
             DEF Account, Alone, TypeInv, File
<1>7. QED  BY <1>4, <1>5, <1>6 DEF Change

-----------------------------------------------------------------------------
(* The steps of a sign-in by the provider *)

\* They leave the accounts alone, and the sessions but for the last step.
Outside ==
  /\ UNCHANGED <<file, minted, wrong, holder, policy, now>> /\ Grows
  /\ DOMAIN txn' = States /\ DOMAIN binding' = States /\ begun' <= MaxState

LEMMA OidcStep ==
  ASSUME IInv, Outside, UNCHANGED <<sess, issued, origin, ended>>,
         NEW r \in Requests, DOMAIN req' = Requests,
         \A x \in Requests : x # r => req'[x] = req[x], ReqOK(r)', TxnInv',
         \A s \in States : Uses(r, s)' =>
           \/ Uses(r, s)
           \/ /\ \A x \in Requests : ~Uses(x, s)
              /\ \A t \in Tokens : ~Granted(t, s)
  PROVE  IInv'
<1>0. TypeInv /\ Grows
  BY DEF IInv, Outside
<1>1. TypeInv'
  BY <1>0 DEF TypeInv, Outside, Grows
<1>2. LockInv'
  BY DEF IInv, LockInv, Outside
<1>3. OriginInv'
  BY <1>0, ProofStays DEF IInv, OriginInv
<1>4. SessInv' /\ EndedInv'
  BY DEF IInv, SessInv, EndedInv, Dead, Matches, Outside
<1>5. ReqInv'
  <2>1. \A x \in Requests : x # r => ReqOK(x)'
    BY <1>0, RequestStays DEF Outside
  <2>2. QED  BY <2>1 DEF ReqInv
<1>6. UniqueInv'
  <2>1. \A x \in Requests, s \in States : x # r => (Uses(x, s)' <=> Uses(x, s))
    BY DEF Uses
  <2>2. \A t \in Tokens, s \in States : Granted(t, s)' <=> Granted(t, s)
    BY DEF Granted
  <2>3. UniqueInv
    BY DEF IInv
  <2>4. \A x, y \in Requests, s \in States : Uses(x, s)' /\ Uses(y, s)' => x = y
    BY <2>1, <2>3 DEF UniqueInv
  <2>5. \A x \in Requests, t \in Tokens, s \in States : Uses(x, s)' => ~Granted(t, s)'
    BY <2>1, <2>2, <2>3 DEF UniqueInv
  <2>6. QED  BY <2>2, <2>3, <2>4, <2>5 DEF UniqueInv
<1>7. QED  BY <1>1, <1>2, <1>3, <1>4, <1>5, <1>6 DEF IInv

LEMMA BeganStep ==
  ASSUME IInv, NEW r \in Requests, Began(r)
  PROVE  IInv'
<1> DEFINE q == req[r]
<1>0. TypeInv /\ TxnInv /\ Idle.at = "idle" /\ begun + 1 \in States
  BY SessionsAssumption DEF IInv, Idle, Began, States, TypeInv
<1>1. /\ UNCHANGED <<file, minted, wrong, holder, policy, now, sess, issued, origin, ended>>
      /\ begun' = begun + 1 /\ begun' <= MaxState
  BY <1>0 DEF Began, account, table, States, TypeInv
<1>2. /\ DOMAIN txn' = States /\ DOMAIN binding' = States
      /\ \A s \in States : s # begun + 1 => txn'[s] = txn[s] /\ binding'[s] = binding[s]
      /\ txn'[begun + 1].binding = binding'[begun + 1]
  BY <1>0 DEF Began, TypeInv
<1>3. Grows
  <2>1. \A s \in 1 .. begun : s \in States /\ s # begun + 1
    BY <1>0, SessionsAssumption DEF TypeInv, States
  <2>2. QED  BY <1>0, <1>1, <1>2, <2>1 DEF Grows, TypeInv
<1>4. TxnInv'
  <2> SUFFICES ASSUME NEW s \in States, txn'[s] # None
               PROVE  s <= begun' /\ txn'[s].binding = binding'[s]
    BY DEF TxnInv
  <2>1. CASE s = begun + 1
    BY <1>0, <1>1, <1>2, <2>1 DEF States
  <2>2. CASE s # begun + 1
    BY <1>0, <1>1, <1>2, <2>2 DEF TxnInv, TypeInv, States
  <2>3. QED  BY <2>1, <2>2
<1>5. DOMAIN req' = Requests /\ req'[r] = Idle /\ \A x \in Requests : x # r => req'[x] = req[x]
  BY <1>0, Keeping DEF Began
<1>6. ReqOK(r)' /\ \A s \in States : ~Uses(r, s)'
  BY <1>0, <1>5 DEF ReqOK, Uses
<1>7. Outside
  BY <1>1, <1>2, <1>3 DEF Outside
<1>8. QED  BY <1>1, <1>4, <1>5, <1>6, <1>7, OidcStep

LEMMA CallbackStep ==
  ASSUME IInv, NEW r \in Requests, NEW t \in Carried, NEW s \in 1 .. begun, Callback(r, t, s)
  PROVE  IInv'
<1>0. TypeInv /\ TxnInv /\ s \in States
  BY SessionsAssumption DEF IInv, TypeInv, States
<1>1. CASE UNCHANGED req
  BY <1>1, RefusingIsQuiet, QuietStep
<1>2. CASE /\ Answers(t, txn[s]) /\ txn' = Consumed(s) /\ UNCHANGED table
           /\ Keep(r, [at |-> "exchanging", token |-> t, state |-> s])
  <2>1. txn[s] # None /\ binding[s] = t
    BY <1>0, <1>2 DEF Answers, TxnInv
  <2>2. /\ UNCHANGED <<file, minted, wrong, holder, policy, now, sess, issued, origin, ended,
                       begun, binding>>
    BY <1>2 DEF Callback, account, table
  <2>3. /\ DOMAIN txn' = States /\ txn'[s] = None
        /\ \A x \in States : txn'[x] \in {txn[x], None}
    BY <1>0, <1>2 DEF Consumed, TypeInv
  <2>4. Grows
    <3>1. \A x \in 1 .. begun : txn[x] = None => txn'[x] = None
      BY <1>0, <2>3, SessionsAssumption DEF TypeInv, States
    <3>2. QED  BY <1>0, <2>2, <3>1 DEF Grows, TypeInv
  <2>5. TxnInv'
    BY <1>0, <2>2, <2>3 DEF TxnInv
  <2>6. /\ DOMAIN req' = Requests /\ \A x \in Requests : x # r => req'[x] = req[x]
        /\ req'[r] = [at |-> "exchanging", token |-> t, state |-> s]
    BY <1>0, <1>2, Keeping
  <2>7. ReqOK(r)'
    BY <2>1, <2>2, <2>3, <2>6 DEF ReqOK, Carried
  <2>8. \A x \in Requests : ~Uses(x, s)
    BY <2>1 DEF Uses, IInv, ReqInv, ReqOK, Proof, Asks
  <2>9. \A u \in Tokens : ~Granted(u, s)
    BY <2>1 DEF Granted, IInv, OriginInv, Proof
  <2>10. \A x \in States : Uses(r, x)' => x = s
    BY <2>6 DEF Uses
  <2>11. Outside
    BY <1>0, <2>2, <2>3, <2>4 DEF Outside, TypeInv
  <2>12. QED  BY <2>2, <2>5, <2>6, <2>7, <2>8, <2>9, <2>10, <2>11, OidcStep
<1>3. QED  BY <1>1, <1>2 DEF Callback

LEMMA ExchangedStep ==
  ASSUME IInv, NEW r \in Requests, Exchanged(r)
  PROVE  IInv'
<1> DEFINE q == req[r]
<1>0. TypeInv /\ TxnInv /\ q.at = "exchanging"
  BY DEF IInv, Exchanged
<1>1. q.token \in 0 .. issued /\ q.state \in 1 .. begun /\ txn[q.state] = None /\ binding[q.state] = q.token
  BY <1>0 DEF IInv, ReqInv, ReqOK, Asks
<1>2. UNCHANGED <<file, minted, wrong, holder, policy, now, sess, issued, origin, ended,
                  begun, binding, txn>>
  BY DEF Exchanged, account, table, oidc
<1>3. Grows /\ TxnInv'
  BY <1>0, <1>2 DEF Grows, TypeInv, TxnInv
<1>4. /\ DOMAIN req' = Requests /\ \A x \in Requests : x # r => req'[x] = req[x]
      /\ req'[r] = [at |-> "verified", token |-> q.token, who |-> Sso(policy),
                    from |-> [method |-> "oidc", state |-> q.state, token |-> q.token]]
  BY <1>0, Keeping DEF Exchanged
<1>5. ReqOK(r)'
  BY <1>1, <1>2, <1>4 DEF ReqOK, Proof, Matches, Sso, None
<1>6. \A s \in States : Uses(r, s)' => Uses(r, s)
  BY <1>0, <1>4 DEF Uses
<1>7. Outside
  BY <1>0, <1>2, <1>3 DEF Outside, TypeInv
<1>8. QED  BY <1>2, <1>3, <1>4, <1>5, <1>6, <1>7, OidcStep

-----------------------------------------------------------------------------
(* The step that signs somebody in *)

LEMMA EnterStep ==
  ASSUME IInv, NEW r \in Requests, Enter(r)
  PROVE  IInv'
<1> DEFINE q == req[r]
           n == issued + 1
<1>0. /\ TypeInv /\ q.at = "verified" /\ Idle.at = "idle"
      /\ OriginInv /\ SessInv /\ EndedInv /\ TxnInv /\ UniqueInv
  BY DEF IInv, Enter, Idle
<1>1. q.token \in 0 .. issued /\ Proof(q.from) /\ Matches(q.who, q.from, policy)
  BY <1>0 DEF IInv, ReqInv, ReqOK, Asks
<1>2. /\ UNCHANGED <<file, minted, wrong, holder, begun, binding, policy, now>>
      /\ ended' = ended \cup ({q.token} \cap Tokens)
  BY DEF Enter, account
<1>3. /\ DOMAIN req' = Requests /\ \A x \in Requests : x # r => req'[x] = req[x]
      /\ req'[r] = Idle
  BY <1>0, Keeping DEF Enter
<1>4. /\ DOMAIN Without(q.token) = Tokens /\ \A u \in Tokens : Without(q.token)[u] \in {sess[u], None}
      /\ q.token \in Tokens => Without(q.token)[q.token] = None
  BY <1>0, Deleting DEF TypeInv
<1>5. CASE sess' = Without(q.token) /\ UNCHANGED <<issued, txn, origin>>
  <2>1. Shrinks /\ TxnShrinks
    BY <1>0, <1>5, Kept, Removing
  <2>2. \A u \in ended' : u \in Tokens /\ (u \in ended \/ (u <= issued /\ sess'[u] = None))
    BY <1>0, <1>1, <1>2, <1>4, <1>5 DEF TypeInv
  <2>3. \A x \in Requests : Waits(x)
    BY <1>0, <1>2, <1>3 DEF Waits
  <2>4. Quiet
    BY <1>0, <1>2, <1>3, <1>5, <2>1, <2>2, <2>3 DEF Quiet, TypeInv
  <2>5. QED  BY <2>4, QuietStep
<1>6. CASE /\ issued' = n /\ sess' = [Purged(Without(q.token)) EXCEPT ![n] = SignIn(q.who)]
           /\ txn' = Purged(txn) /\ origin' = [origin EXCEPT ![n] = q.from]
  <2> DEFINE kept == Purged(Without(q.token))
  <2>1. /\ DOMAIN kept = Tokens /\ \A u \in Tokens : kept[u] \in {sess[u], None}
        /\ q.token \in Tokens => kept[q.token] = None
    <3>1. /\ DOMAIN kept = Tokens
          /\ \A u \in Tokens : kept[u] \in {Without(q.token)[u], None}
      BY <1>4, Purging
    <3>2. QED  BY <1>4, <3>1
  <2>2. issued \in Nat /\ n \in Nat /\ issued < n
    BY <1>0 DEF TypeInv
  <2> HIDE DEF n, kept
  <2>3. /\ DOMAIN sess' = Tokens /\ \A u \in Tokens : u # n => sess'[u] = kept[u]
        /\ n \in Tokens => sess'[n] = SignIn(q.who)
    BY <1>6, <2>1 DEF kept
  <2>4. /\ DOMAIN origin' = Tokens /\ \A u \in Tokens : u # n => origin'[u] = origin[u]
        /\ n \in Tokens => origin'[n] = q.from
    BY <1>0, <1>6 DEF TypeInv
  <2>5. TxnShrinks
    BY <1>0, <1>6, Purging DEF TypeInv, TxnShrinks
  <2>6. Grows
    <3>1. \A s \in 1 .. begun : txn[s] = None => txn'[s] = None
      BY <1>0, <2>5, SessionsAssumption DEF TxnShrinks, TypeInv, States
    <3>2. minted \in Nat /\ begun \in Nat
      BY <1>0 DEF TypeInv
    <3>3. QED  BY <1>2, <1>6, <2>2, <3>1, <3>2 DEF Grows
  <2>7. TypeInv'
    <3>1. ended' \subseteq Tokens
      BY <1>0, <1>2 DEF TypeInv
    <3>2. QED  BY <1>0, <1>2, <1>3, <1>6, <2>2, <2>3, <2>4, <2>5, <3>1 DEF TypeInv, TxnShrinks
  <2>8. LockInv'
    BY <1>2 DEF IInv, LockInv
  <2>9. OriginInv'
    <3> SUFFICES ASSUME NEW u \in Tokens, origin'[u] # None
                 PROVE  u <= issued' /\ Proof(origin[u])'
      BY DEF OriginInv
    <3>1. PICK f : f = origin'[u]
      OBVIOUS
    <3>2. u <= issued' /\ Proof(f)
      <4>1. CASE u = n
        BY <1>1, <1>6, <2>2, <2>4, <3>1, <4>1
      <4>2. CASE u # n
        BY <1>0, <1>6, <2>2, <2>4, <3>1, <4>2 DEF OriginInv, Tokens
      <4>3. QED  BY <4>1, <4>2
    <3>3. Proof(f)'
      BY <1>0, <2>6, <3>2, ProofStays
    <3>4. QED  BY <3>1, <3>2, <3>3
  <2>10. SessInv'
    <3> SUFFICES ASSUME NEW u \in Tokens
                 PROVE  \/ sess'[u] = None
                        \/ sess'[u].kind = "preauth" /\ origin'[u] = None
                        \/ /\ sess'[u].kind = "authenticated" /\ origin'[u] # None
                           /\ Matches(sess'[u].who, origin'[u], sess'[u].policy)
      BY DEF SessInv, Matches
    <3>1. CASE u = n
      <4>1. /\ sess'[u].kind = "authenticated" /\ sess'[u].who = q.who
            /\ sess'[u].policy = policy /\ origin'[u] = q.from
        BY <2>3, <2>4, <3>1 DEF SignIn
      <4>2. QED  BY <1>1, <4>1 DEF Proof
    <3>2. CASE u # n
      BY <1>0, <2>1, <2>3, <2>4, <3>2 DEF SessInv
    <3>3. QED  BY <3>1, <3>2
  <2>11. EndedInv'
    <3> SUFFICES ASSUME NEW u \in ended' PROVE u <= issued' /\ Dead(u)'
      BY DEF EndedInv
    <3>1. u \in Tokens /\ u <= issued /\ (u \in ended \/ u = q.token)
      BY <1>0, <1>1, <1>2, <2>2 DEF EndedInv, TypeInv
    <3>2. u # n /\ u <= issued'
      BY <1>6, <2>2, <3>1 DEF Tokens
    <3>3. sess'[u] = kept[u]
      BY <2>3, <3>1, <3>2
    <3>4. CASE u = q.token
      BY <2>1, <3>1, <3>2, <3>3, <3>4 DEF Dead
    <3>5. CASE u \in ended
      BY <1>0, <1>2, <2>1, <3>1, <3>2, <3>3, <3>5 DEF EndedInv, Dead
    <3>6. QED  BY <3>1, <3>4, <3>5
  <2>12. ReqInv'
    <3>1. \A x \in Requests : x # r => ReqOK(x)'
      BY <1>2, <1>3, <2>6, RequestStays
    <3>2. ReqOK(r)'
      BY <1>0, <1>3 DEF ReqOK
    <3>3. QED  BY <3>1, <3>2 DEF ReqInv
  <2>13. TxnInv'
    BY <1>0, <1>2, <2>5 DEF TxnInv, TxnShrinks
  <2>14. UniqueInv'
    <3>1. \A x \in Requests, s \in States : Uses(x, s)' => Uses(x, s) /\ x # r
      BY <1>0, <1>3 DEF Uses
    <3>2. \A u \in Tokens, s \in States : Granted(u, s)' => Granted(u, s) \/ (u = n /\ Uses(r, s))
      BY <1>0, <2>4 DEF Granted, Uses
    <3>3. QED  BY <1>0, <3>1, <3>2 DEF UniqueInv
  <2>15. QED  BY <2>7, <2>8, <2>9, <2>10, <2>11, <2>12, <2>13, <2>14 DEF IInv
<1>7. QED  BY <1>5, <1>6 DEF Enter

-----------------------------------------------------------------------------

LEMMA StepInv == IInv /\ [Next]_vars => IInv'
<1> SUFFICES ASSUME IInv, [Next]_vars PROVE IInv'
  OBVIOUS
<1>1. CASE \E t \in Carried : Visit(t) \/ LoginPage(t) \/ Logout(t)
  BY <1>1, BrowsingIsQuiet, QuietStep
<1>2. CASE \E s \in Secrets : Recover(s)
  BY <1>2, RecoverStep, AccountStep
<1>3. CASE \E r \in Requests : Verify(r) \/ Change(r)
  BY <1>3, VerifyStep, ChangeStep, AccountStep, QuietStep
<1>4. CASE \E r \in Requests : Enter(r) \/ Began(r) \/ Exchanged(r) \/ Denied(r)
  BY <1>4, EnterStep, BeganStep, ExchangedStep, RefusingIsQuiet, QuietStep
<1>5. CASE \E r \in Requests, t \in Carried : Begin(r, t)
  <2>1. \E n : n \in Secrets
    BY SessionsAssumption
  <2>2. QED  BY <1>5, <2>1, AskingIsQuiet, QuietStep
<1>6. CASE \E r \in Requests, t \in Carried, s \in Secrets : Login(r, t, s)
  BY <1>6, LoginStep, AccountStep, QuietStep
<1>7. CASE \E r \in Requests, t \in Carried, s \in Secrets, n \in Secrets : AskChange(r, t, s, n)
  BY <1>7, AskingIsQuiet, QuietStep
<1>8. CASE \E r \in Requests, t \in Carried, s \in 1 .. begun : Callback(r, t, s)
  BY <1>8, CallbackStep
<1>9. CASE Tick \/ \E p \in Policies : Restart(p)
  BY <1>9, TimeIsQuiet, QuietStep
<1>10. CASE UNCHANGED vars
  <2>1. Quiet
    BY <1>10, Kept, Gathered DEF vars, account, oidc, table, IInv, TypeInv
  <2>2. QED  BY <2>1, QuietStep
<1>11. QED  BY <1>1, <1>2, <1>3, <1>4, <1>5, <1>6, <1>7, <1>8, <1>9, <1>10 DEF Next

\* The invariant holds for any number of requests, sessions, states, policies
\* and restarts.
THEOREM Invariant == Spec => []IInv
  BY InitInv, StepInv, PTL DEF Spec

\* A password that was replaced signs nobody in any more.
THEOREM Current == Spec => []CredentialsAreCurrent
<1>1. IInv => CredentialsAreCurrent
  <2> SUFFICES ASSUME IInv, NEW t \in Tokens, SignedIn(t), origin[t].method = "local"
               PROVE  origin[t].secret = file.secret /\ origin[t].version = file.version
    BY DEF CredentialsAreCurrent
  <2>1. /\ origin[t] # None /\ Matches(sess[t].who, origin[t], sess[t].policy)
        /\ Valid(sess[t].who, sess[t].policy)
    BY DEF IInv, SessInv, SignedIn, Open
  <2>2. Proof(origin[t])
    BY <2>1 DEF IInv, OriginInv
  <2>3. QED  BY <2>1, <2>2 DEF Matches, Valid, Proof
<1>2. QED  BY <1>1, Invariant, PTL

\* No session that was signed out is ever one again.
THEOREM SignedOutForGood == Spec => []SignedOutStaysOut
<1>1. IInv => SignedOutStaysOut
  BY DEF IInv, TypeInv, EndedInv, Dead, SignedOutStaysOut, Open, Valid
<1>2. QED  BY <1>1, Invariant, PTL

\* No more wrong passwords are answered than the settings allow.
THEOREM Locks == Spec => []LockoutHolds
<1>1. IInv => LockoutHolds
  BY DEF IInv, LockInv, LockoutHolds
<1>2. QED  BY <1>1, Invariant, PTL

\* One state, one session.
THEOREM OneGrant == Spec => []OneGrantPerState
<1>1. IInv => OneGrantPerState
  <2> SUFFICES ASSUME IInv, NEW t \in Tokens, origin[t] # None, origin[t].method = "oidc"
               PROVE  /\ binding[origin[t].state] = origin[t].token
                      /\ \A u \in Tokens : origin[u] = origin[t] => u = t
    BY DEF OneGrantPerState
  <2>1. Proof(origin[t])
    BY DEF IInv, OriginInv
  <2>2. origin[t].state \in States /\ binding[origin[t].state] = origin[t].token
    BY <2>1, SessionsAssumption DEF Proof, IInv, TypeInv, States
  <2>3. QED  BY <2>2 DEF IInv, UniqueInv, Granted
<1>2. QED  BY <1>1, Invariant, PTL

\* The role of a session is the one the settings in force grant.
THEOREM PolicyInForce == Spec => []GrantsFollowPolicy
<1>1. IInv => GrantsFollowPolicy
  <2> SUFFICES ASSUME IInv, NEW t \in Tokens, SignedIn(t), sess[t].who.method = "oidc"
               PROVE  policy.on /\ sess[t].who.roles = policy.roles
    BY DEF GrantsFollowPolicy
  <2>1. Matches(sess[t].who, origin[t], sess[t].policy) /\ Valid(sess[t].who, sess[t].policy)
    BY DEF IInv, SessInv, SignedIn, Open
  <2>2. QED  BY <2>1 DEF Matches, Valid, SamePolicy
<1>2. QED  BY <1>1, Invariant, PTL

-----------------------------------------------------------------------------
(* Types: tokens are left for all that waits, and one version was drawn for *)
(* the file                                                                 *)

SessRow == {None} \cup [kind : {"preauth"}, until : Nat]
           \cup [kind : {"authenticated"}, who : Principals, policy : Policies, until : Nat]
TxnRow  == {None} \cup [kind : {"txn"}, binding : Tokens, issuer : Nat, until : Nat]
Verifying  == [at : {"verifying"}, token : Tokens, secret : Secrets, read : Accounts, time : Nat]
Changing   == [at : {"changing"}, token : Tokens, who : Principals, secret : Secrets, new : Secrets]
Verified   == [at : {"verified"}, token : Tokens, who : Principals, from : Origins]
Beginning  == [at : {"beginning"}, token : Tokens]
Exchanging == [at : {"exchanging"}, token : Tokens, state : States]
Waiting == Verifying \cup Changing \cup Verified \cup Beginning \cup Exchanging

Busy == {r \in Requests : req[r] # Idle}

AccountOK == file \in Accounts /\ minted \in Versions /\ wrong \in Nat /\ file.version = minted
TableOK   == sess \in [Tokens -> SessRow] /\ issued \in Nat
OidcOK    == /\ txn \in [States -> TxnRow] /\ begun \in 0 .. MaxState
             /\ binding \in [States -> 0 .. MaxToken]
FlightOK  == req \in [Requests -> {Idle} \cup Waiting]
ClockOK   == /\ policy \in Policies /\ now \in 0 .. MaxTime /\ restarts \in 0 .. MaxRestarts
             /\ holder \in Requests \cup {Nobody}
HistoryOK == origin \in [Tokens -> {None} \cup Origins] /\ ended \in SUBSET Tokens
SpareOK   == IsFiniteSet(Busy) /\ issued + Cardinality(Busy) <= MaxToken

Types == AccountOK /\ TableOK /\ OidcOK /\ FlightOK /\ ClockOK /\ HistoryOK

LEMMA TypesSuffice == Types /\ SpareOK => TypeOK
<1> SUFFICES ASSUME Types, SpareOK PROVE TypeOK
  OBVIOUS
<1>1. Cardinality(Busy) \in Nat
  BY FS_CardinalityType DEF SpareOK
<1>2. issued \in 0 .. MaxToken
  BY <1>1, SessionsAssumption DEF Types, TableOK, SpareOK
<1>3. req \in [Requests -> {Idle} \cup Verifying \cup Changing \cup Verified \cup Beginning
                            \cup Exchanging]
  BY DEF Types, FlightOK, Waiting
<1>4. QED
  BY <1>2, <1>3 DEF TypeOK, Types, AccountOK, TableOK, OidcOK, ClockOK, HistoryOK,
     SessRow, TxnRow, Verifying, Changing, Verified, Beginning, Exchanging

LEMMA InitTypes == Init => Types /\ SpareOK
<1> SUFFICES ASSUME Init PROVE Types /\ SpareOK
  OBVIOUS
<1>1. AccountOK
  <2>1. PICK s \in Secrets :
          file = [secret |-> s, version |-> 0, must |-> FALSE, failed |-> 0, locked |-> 0]
    BY DEF Init
  <2>2. 0 \in Versions /\ 0 \in 0 .. Attempts /\ 0 \in Nat /\ FALSE \in BOOLEAN
    BY SessionsAssumption DEF Versions
  <2>3. QED  BY <2>1, <2>2 DEF AccountOK, Init, Accounts
<1>2. TableOK /\ FlightOK /\ HistoryOK
  BY DEF Init, TableOK, SessRow, FlightOK, HistoryOK
<1>3. OidcOK /\ ClockOK
  BY SessionsAssumption DEF Init, OidcOK, TxnRow, ClockOK
<1>4. SpareOK
  <2>1. Busy = {}
    BY DEF Busy, Init
  <2>2. QED  BY <2>1, FS_EmptySet, SessionsAssumption DEF SpareOK, Init
<1>5. QED  BY <1>1, <1>2, <1>3, <1>4 DEF Types

\* One request more, less, or as many.
LEMMA InFlight ==
  ASSUME FlightOK, SpareOK, NEW r \in Requests, NEW q, Keep(r, q)
  PROVE  /\ IsFiniteSet(Busy') /\ Cardinality(Busy) \in Nat /\ Cardinality(Busy') \in Nat
         /\ q # Idle /\ req[r] = Idle => Cardinality(Busy') = Cardinality(Busy) + 1
         /\ q = Idle /\ req[r] # Idle => Cardinality(Busy') = Cardinality(Busy) - 1
         /\ (q = Idle) = (req[r] = Idle) => Busy' = Busy
<1>1. \A x \in Requests : req'[x] = IF x = r THEN q ELSE req[x]
  BY DEF FlightOK, Keep
<1>2. Cardinality(Busy) \in Nat
  BY FS_CardinalityType DEF SpareOK
<1>3. CASE q # Idle /\ req[r] = Idle
  <2>1. Busy' = Busy \cup {r} /\ r \notin Busy
    BY <1>1, <1>3 DEF Busy
  <2>2. QED  BY <1>2, <1>3, <2>1, FS_AddElement DEF SpareOK
<1>4. CASE q = Idle /\ req[r] # Idle
  <2>1. Busy' = Busy \ {r} /\ r \in Busy
    BY <1>1, <1>4 DEF Busy
  <2>2. IsFiniteSet(Busy') /\ Cardinality(Busy') = Cardinality(Busy) - 1
    BY <2>1, FS_RemoveElement DEF SpareOK
  <2>3. Cardinality(Busy') \in Nat
    BY <2>2, FS_CardinalityType
  <2>4. QED  BY <1>2, <1>4, <2>2, <2>3
<1>5. CASE (q = Idle) = (req[r] = Idle)
  <2>1. Busy' = Busy
    BY <1>1, <1>5 DEF Busy
  <2>2. QED  BY <1>2, <1>5, <2>1 DEF SpareOK
<1>6. QED  BY <1>3, <1>4, <1>5

\* A request that waits does something.
LEMMA NotIdle == Idle \notin Waiting
  BY DEF Idle, Waiting, Verifying, Changing, Verified, Beginning, Exchanging

\* The login page draws at most one token.
LEMMA RenderingTypes ==
  ASSUME Types, NEW t, RendersLogin(t)
  PROVE  TableOK' /\ issued' \in issued .. issued + 1
<1>1. CASE Open(t)
  BY <1>1 DEF RendersLogin, Types, TableOK
<1>2. CASE ~Open(t)
  <2> DEFINE kept == Purged(Looked(t))
  <2>1. DOMAIN Looked(t) = Tokens /\ \A u \in Tokens : Looked(t)[u] \in {sess[u], None}
    BY Deleting DEF Types, TableOK
  <2>2. DOMAIN kept = Tokens /\ \A u \in Tokens : kept[u] \in {sess[u], None}
    BY <2>1, Purging
  <2>3. PreLogin \in SessRow
    BY SessionsAssumption DEF PreLogin, SessRow, Types, ClockOK
  <2>4. kept = [u \in Tokens |-> kept[u]]
    BY DEF Purged, Looked, Without, Types, TableOK
  <2>5. issued' = issued + 1 /\ sess' = [kept EXCEPT ![issued + 1] = PreLogin]
    BY <1>2 DEF RendersLogin
  <2> HIDE DEF kept
  <2>6. kept \in [Tokens -> SessRow]
    BY <2>2, <2>4 DEF Types, TableOK, SessRow
  <2>7. sess' \in [Tokens -> SessRow]
    BY <2>3, <2>5, <2>6
  <2>8. QED  BY <2>5, <2>7 DEF Types, TableOK
<1>3. QED  BY <1>1, <1>2

LEMMA ShrinkingTypes ==
  ASSUME Types, UNCHANGED issued, NEW t,
         sess' = Without(t) \/ sess' = Looked(t) \/ sess' = Purged(sess)
  PROVE  TableOK'
<1>1. DOMAIN Purged(sess) = Tokens /\ \A x \in Tokens : Purged(sess)[x] \in {sess[x], None}
  BY Purging DEF Types, TableOK
<1>2. DOMAIN sess' = Tokens /\ \A u \in Tokens : sess'[u] \in {sess[u], None}
  BY <1>1, Deleting DEF Types, TableOK
<1>3. sess' = [u \in Tokens |-> sess'[u]]
  BY DEF Purged, Looked, Without, Types, TableOK
<1>4. QED  BY <1>2, <1>3 DEF Types, TableOK, SessRow

LEMMA PurgingTypes ==
  ASSUME Types, NEW t, NEW x \in [States -> TxnRow], PurgedFor(t, x), UNCHANGED <<begun, binding>>
  PROVE  OidcOK'
<1>1. txn' \in [States -> TxnRow]
  BY DEF PurgedFor, Purged, TxnRow
<1>2. QED  BY <1>1 DEF Types, OidcOK

-----------------------------------------------------------------------------
(* What every step does to the types *)

LEMMA TypesKept ==
  ASSUME Types, SpareOK
  PROVE  /\ UNCHANGED account => AccountOK'
         /\ UNCHANGED table => TableOK'
         /\ UNCHANGED oidc => OidcOK'
         /\ UNCHANGED req => FlightOK'
         /\ UNCHANGED <<policy, now, restarts, holder>> => ClockOK'
         /\ UNCHANGED <<origin, ended>> => HistoryOK'
         /\ UNCHANGED <<req, issued>> => SpareOK'
         /\ UNCHANGED <<req, table>> => SpareOK'
  BY DEF Types, AccountOK, TableOK, OidcOK, FlightOK, ClockOK, HistoryOK, SpareOK, Busy,
     account, table, oidc

LEMMA KeptTypes ==
  ASSUME Types, NEW r \in Requests, NEW q \in {Idle} \cup Waiting, Keep(r, q)
  PROVE  FlightOK'
  BY DEF Types, FlightOK, Keep

\* A token may be drawn without a request, or by one that ends with it.
LEMMA Drawing ==
  ASSUME Types, SpareOK, issued' \in issued .. issued + 1,
         \/ UNCHANGED req /\ Spare(1)
         \/ \E r \in Requests : Keep(r, Idle) /\ req[r] # Idle
  PROVE  SpareOK'
<1>1. Cardinality(Busy) \in Nat /\ issued \in Nat /\ MaxToken \in Nat
  BY FS_CardinalityType, SessionsAssumption DEF SpareOK, Types, TableOK
<1>2. CASE UNCHANGED req /\ Spare(1)
  <2>1. Busy' = Busy /\ issued + 1 + Cardinality(Busy) <= MaxToken
    BY <1>2 DEF Busy, Spare
  <2>2. QED  BY <1>1, <2>1 DEF SpareOK
<1>3. CASE \E r \in Requests : Keep(r, Idle) /\ req[r] # Idle
  <2>1. IsFiniteSet(Busy') /\ Cardinality(Busy') = Cardinality(Busy) - 1
    BY <1>3, InFlight DEF Types
  <2>2. QED  BY <1>1, <2>1 DEF SpareOK
<1>4. QED  BY <1>2, <1>3

\* A request begins where a token is left for it, goes on, or ends.
LEMMA Waited ==
  ASSUME Types, SpareOK, UNCHANGED issued, NEW r \in Requests, NEW q, Keep(r, q),
         req[r] # Idle \/ Spare(1)
  PROVE  SpareOK'
<1>1. /\ Cardinality(Busy) \in Nat /\ issued \in Nat /\ MaxToken \in Nat
      /\ issued + Cardinality(Busy) <= MaxToken
  BY FS_CardinalityType, SessionsAssumption DEF SpareOK, Types, TableOK
<1>2. /\ IsFiniteSet(Busy')
      /\ \/ Cardinality(Busy') = Cardinality(Busy)
         \/ Cardinality(Busy') = Cardinality(Busy) - 1
         \/ Cardinality(Busy') = Cardinality(Busy) + 1 /\ req[r] = Idle
  BY InFlight DEF Types
<1>3. Spare(1) => issued + 1 + Cardinality(Busy) <= MaxToken
  BY DEF Spare, Busy
<1>4. QED  BY <1>1, <1>2, <1>3 DEF SpareOK

\* What waits has a token and, by its kind, the rest.
LEMMA Holds ==
  ASSUME Types, NEW r \in Requests, req[r].at # "idle"
  PROVE  /\ req[r] \in Waiting /\ req[r].token \in Tokens /\ req[r] # Idle
         /\ req[r].at = "verifying" => req[r] \in Verifying
         /\ req[r].at = "changing" => req[r] \in Changing
         /\ req[r].at = "verified" => req[r] \in Verified
         /\ req[r].at = "exchanging" => req[r] \in Exchanging
<1>1. Idle.at = "idle"
  BY DEF Idle
<1>2. req[r] \in Waiting /\ req[r] # Idle
  BY <1>1 DEF Types, FlightOK
<1>3. QED
  BY <1>2 DEF Waiting, Verifying, Changing, Verified, Beginning, Exchanging

\* A wrong password is counted in a file that is not locked.
LEMMA CountedTypes ==
  ASSUME IInv, Types, NEW at \in Nat
  PROVE  /\ Reset(file) \in Accounts /\ Reset(file).version = file.version
         /\ Reset(file).secret = file.secret
         /\ Counted(Reset(file), at) \in Accounts
         /\ Counted(Reset(file), at).version = file.version
<1> DEFINE f == Reset(file)
<1>1. file \in Accounts /\ Attempts \in Nat /\ Attempts > 0 /\ Lockout \in Nat
  BY SessionsAssumption DEF Types, AccountOK
<1>2. /\ f \in Accounts /\ f.failed < Attempts /\ f.version = file.version
      /\ f.secret = file.secret
  <2>1. CASE file.locked # 0
    <3>1. f = [file EXCEPT !.failed = 0, !.locked = 0]
      BY <2>1 DEF Reset
    <3>2. 0 \in 0 .. Attempts /\ 0 \in Nat
      BY <1>1
    <3> HIDE DEF f
    <3>3. f \in Accounts /\ f.failed = 0 /\ f.version = file.version /\ f.secret = file.secret
      BY <1>1, <3>1, <3>2 DEF Accounts
    <3>4. QED  BY <1>1, <3>3
  <2>2. CASE file.locked = 0
    <3>1. file.failed < Attempts
      BY <2>2 DEF IInv, LockInv
    <3>2. QED  BY <1>1, <2>2, <3>1 DEF Reset
  <2>3. QED  BY <2>1, <2>2
<1> HIDE DEF f
<1>3. /\ Counted(f, at) \in Accounts /\ Counted(f, at).version = file.version
  <2> DEFINE until == IF f.failed + 1 >= Attempts THEN at + Lockout ELSE 0
  <2>1. f.failed + 1 \in 0 .. Attempts /\ until \in Nat
    BY <1>1, <1>2 DEF Accounts
  <2>2. Counted(f, at) = [f EXCEPT !.failed = f.failed + 1, !.locked = until]
    BY DEF Counted
  <2> HIDE DEF until
  <2>3. QED  BY <1>2, <2>1, <2>2 DEF Accounts
<1>4. QED  BY <1>2, <1>3 DEF f

LEMMA BrowsingTypes ==
  ASSUME Types, SpareOK, NEW t \in Carried, Visit(t) \/ LoginPage(t) \/ Logout(t)
  PROVE  Types' /\ SpareOK'
<1>1. /\ UNCHANGED account /\ UNCHANGED req /\ UNCHANGED origin
      /\ UNCHANGED <<policy, now, restarts, holder>>
  BY DEF Visit, LoginPage, Logout
<1>2. CASE Visit(t) \/ Logout(t)
  <2>1. TableOK'
    BY <1>2, ShrinkingTypes DEF Visit, Logout
  <2>2. HistoryOK'
    BY <1>2 DEF Visit, Logout, SignedIn, Open, Types, HistoryOK
  <2>3. UNCHANGED oidc /\ UNCHANGED issued
    BY <1>2 DEF Visit, Logout
  <2>4. QED  BY <1>1, <2>1, <2>2, <2>3, TypesKept DEF Types
<1>3. CASE LoginPage(t)
  <2>1. TableOK' /\ issued' \in issued .. issued + 1
    BY <1>3, RenderingTypes DEF LoginPage
  <2>2. OidcOK'
    BY <1>3, PurgingTypes DEF LoginPage, Types, OidcOK
  <2>3. SpareOK'
    BY <1>1, <1>3, <2>1, Drawing DEF LoginPage
  <2>4. UNCHANGED <<origin, ended>>
    BY <1>3 DEF LoginPage
  <2>5. QED  BY <1>1, <2>1, <2>2, <2>3, <2>4, TypesKept DEF Types
<1>4. QED  BY <1>2, <1>3

LEMMA TimeTypes ==
  ASSUME Types, SpareOK, Tick \/ \E p \in Policies : Restart(p)
  PROVE  Types' /\ SpareOK'
<1>1. UNCHANGED account /\ UNCHANGED table /\ UNCHANGED oidc /\ UNCHANGED <<origin, ended>>
  BY DEF Tick, Restart
<1>2. ClockOK'
  BY SessionsAssumption DEF Tick, Restart, Types, ClockOK
<1>3. FlightOK' /\ SpareOK'
  <2>1. CASE Tick
    BY <1>1, <2>1, TypesKept DEF Tick, table
  <2>2. CASE \E p \in Policies : Restart(p)
    <3>1. req' = [r \in Requests |-> Idle]
      BY <2>2 DEF Restart
    <3>2. Busy' = {}
      BY <3>1 DEF Busy
    <3>3. Cardinality(Busy) \in Nat /\ issued' = issued /\ issued \in Nat /\ MaxToken \in Nat
      BY <1>1, FS_CardinalityType, SessionsAssumption DEF SpareOK, Types, TableOK, table
    <3>4. QED  BY <3>1, <3>2, <3>3, FS_EmptySet DEF FlightOK, SpareOK
  <2>3. QED  BY <2>1, <2>2
<1>4. QED  BY <1>1, <1>2, <1>3, TypesKept DEF Types

LEMMA ReplacingTypes ==
  ASSUME Types, NEW s \in Secrets, NEW must \in BOOLEAN, Replaces(s, must)
  PROVE  /\ AccountOK' /\ ended' \in SUBSET Tokens
         /\ minted + 1 \in Versions
<1>1. minted + 1 \in Versions /\ minted' = minted + 1
  BY SessionsAssumption DEF Replaces, Versions, Types, AccountOK
<1>2. Credentials(s, must) \in Accounts /\ Credentials(s, must).version = minted + 1
  BY <1>1, SessionsAssumption DEF Credentials, Accounts
<1>3. ended' \in SUBSET Tokens
  BY DEF Replaces, SignedOut, Types, HistoryOK
<1>4. QED  BY <1>1, <1>2, <1>3 DEF Replaces, AccountOK

LEMMA RecoverTypes ==
  ASSUME Types, SpareOK, NEW s \in Secrets, Recover(s)
  PROVE  Types' /\ SpareOK'
<1>1. /\ UNCHANGED table /\ UNCHANGED oidc /\ UNCHANGED req /\ UNCHANGED origin
      /\ UNCHANGED <<policy, now, restarts, holder>>
  BY DEF Recover
<1>2. AccountOK' /\ ended' \in SUBSET Tokens
  BY ReplacingTypes DEF Recover
<1>3. HistoryOK'
  BY <1>1, <1>2 DEF Types, HistoryOK
<1>4. QED  BY <1>1, <1>2, <1>3, TypesKept DEF Types

\* The principal and the origin that a checked password gives.
LEMMA LocalTypes ==
  ASSUME NEW v \in Versions, NEW must \in BOOLEAN, NEW s \in Secrets, NEW t \in Tokens
  PROVE  [at |-> "verified", token |-> t, who |-> Local(v, must),
          from |-> [method |-> "local", secret |-> s, version |-> v]] \in Waiting
<1>1. Local(v, must) \in Principals
  BY DEF Local, Principals
<1>2. [method |-> "local", secret |-> s, version |-> v] \in Origins
  BY DEF Origins
<1>3. QED  BY <1>1, <1>2 DEF Waiting, Verified

LEMMA LoginTypes ==
  ASSUME IInv, Types, SpareOK, NEW r \in Requests, NEW t \in Carried, NEW s \in Secrets,
         Login(r, t, s)
  PROVE  Types' /\ SpareOK'
<1>1. /\ UNCHANGED table /\ UNCHANGED oidc /\ UNCHANGED <<origin, ended>>
      /\ UNCHANGED <<policy, now, restarts>> /\ UNCHANGED <<file, minted>> /\ UNCHANGED issued
  BY DEF Login, table
<1>2. AccountOK' /\ ClockOK'
  BY <1>1 DEF Login, Types, AccountOK, ClockOK
<1>3. FlightOK' /\ SpareOK'
  <2>1. CASE UNCHANGED req
    BY <1>1, <2>1, TypesKept
  <2>2. CASE ~UNCHANGED req
    <3> DEFINE q == [at |-> "verifying", token |-> t, secret |-> s,
                     read |-> Reset(file), time |-> now]
    <3>1. Keep(r, q) /\ t \in Tokens /\ Spare(1)
      BY <2>2 DEF Login, Open
    <3>2. Reset(file) \in Accounts /\ now \in Nat
      BY CountedTypes DEF Types, ClockOK
    <3>3. q \in Waiting
      BY <3>1, <3>2 DEF Waiting, Verifying
    <3> HIDE DEF q
    <3>4. QED  BY <1>1, <3>1, <3>3, KeptTypes, Waited
  <2>3. QED  BY <2>1, <2>2
<1>4. QED  BY <1>1, <1>2, <1>3, TypesKept DEF Types

LEMMA VerifyTypes ==
  ASSUME IInv, Types, SpareOK, NEW r \in Requests, Verify(r)
  PROVE  Types' /\ SpareOK'
<1> DEFINE q == req[r]
           v == IF q.read.version = 0 THEN minted + 1 ELSE q.read.version
<1>0. q.at = "verifying"
  BY DEF Verify
<1>1. q \in Verifying /\ q # Idle /\ q.token \in Tokens
  BY <1>0, Holds
<1>2. q.read = Reset(file) /\ q.time \in Nat
  BY <1>0 DEF IInv, ReqInv, ReqOK, Asks
<1>3. /\ UNCHANGED <<begun, binding>> /\ UNCHANGED <<origin, ended>>
      /\ UNCHANGED <<policy, now, restarts>> /\ holder' = Nobody
  BY DEF Verify
<1>4. ClockOK' /\ HistoryOK'
  BY <1>3 DEF Types, ClockOK, HistoryOK
<1>5. /\ q.read \in Accounts /\ q.read.version = file.version
      /\ Counted(q.read, q.time) \in Accounts /\ Counted(q.read, q.time).version = file.version
  BY <1>2, CountedTypes
<1>6. CASE q.secret # q.read.secret
  <2>1. /\ file' = Counted(q.read, q.time) /\ wrong' = wrong + 1 /\ Keep(r, Idle)
        /\ RendersLogin(q.token) /\ PurgedFor(q.token, txn) /\ UNCHANGED minted
    BY <1>6 DEF Verify
  <2>2. AccountOK'
    BY <1>5, <2>1 DEF Types, AccountOK
  <2>3. TableOK' /\ issued' \in issued .. issued + 1
    BY <2>1, RenderingTypes
  <2>4. OidcOK'
    BY <1>3, <2>1, PurgingTypes DEF Types, OidcOK
  <2>5. FlightOK' /\ SpareOK'
    BY <1>1, <2>1, <2>3, KeptTypes, Drawing
  <2>6. QED  BY <1>4, <2>2, <2>3, <2>4, <2>5 DEF Types
<1>7. CASE q.secret = q.read.secret
  <2>1. /\ wrong' = 0
        /\ file' = [q.read EXCEPT !.version = v, !.failed = 0, !.locked = 0]
        /\ minted' = IF q.read.version = 0 THEN v ELSE minted
        /\ Keep(r, [at |-> "verified", token |-> q.token, who |-> Local(v, q.read.must),
                    from |-> [method |-> "local", secret |-> q.secret, version |-> v]])
        /\ UNCHANGED table /\ UNCHANGED oidc /\ UNCHANGED issued
    BY <1>3, <1>7 DEF Verify, table, oidc
  <2>2. v \in Versions /\ minted' = v
    <3>1. file.version = minted /\ minted \in Versions
      BY DEF Types, AccountOK
    <3>2. minted = 0 => minted + 1 \in Versions
      BY SessionsAssumption DEF Versions
    <3>3. QED  BY <1>5, <2>1, <3>1, <3>2
  <2> HIDE DEF v
  <2>3. file' \in Accounts /\ file'.version = v
    <3>1. 0 \in 0 .. Attempts /\ 0 \in Nat
      BY SessionsAssumption
    <3>2. QED  BY <1>5, <2>1, <2>2, <3>1 DEF Accounts
  <2>4. AccountOK'
    BY <2>1, <2>2, <2>3 DEF AccountOK
  <2>5. [at |-> "verified", token |-> q.token, who |-> Local(v, q.read.must),
         from |-> [method |-> "local", secret |-> q.secret, version |-> v]] \in Waiting
    <3>1. q.read.must \in BOOLEAN /\ q.secret \in Secrets
      BY <1>1, <1>5 DEF Accounts, Verifying
    <3>2. QED  BY <1>1, <2>2, <3>1, LocalTypes
  <2>6. FlightOK' /\ SpareOK'
    BY <1>1, <2>1, <2>5, KeptTypes, Waited
  <2>7. QED  BY <1>4, <2>1, <2>4, <2>6, TypesKept DEF Types
<1>8. QED  BY <1>6, <1>7

LEMMA AskChangeTypes ==
  ASSUME Types, SpareOK, NEW r \in Requests, NEW t \in Carried, NEW s \in Secrets,
         NEW n \in Secrets, AskChange(r, t, s, n)
  PROVE  Types' /\ SpareOK'
<1> DEFINE q == [at |-> "changing", token |-> t, who |-> sess[t].who, secret |-> s, new |-> n]
<1>1. /\ UNCHANGED account /\ UNCHANGED table /\ UNCHANGED oidc /\ UNCHANGED <<origin, ended>>
      /\ UNCHANGED <<policy, now, restarts, holder>> /\ UNCHANGED issued
      /\ Keep(r, q) /\ Spare(1)
  BY DEF AskChange, table
<1>2. t \in Tokens /\ sess[t].who \in Principals
  BY DEF AskChange, SignedIn, Open, Types, TableOK, SessRow, None
<1>3. q \in Waiting
  BY <1>2 DEF Waiting, Changing
<1> HIDE DEF q
<1>4. FlightOK' /\ SpareOK'
  BY <1>1, <1>3, KeptTypes, Waited
<1>5. QED  BY <1>1, <1>4, TypesKept DEF Types

LEMMA ChangeTypes ==
  ASSUME IInv, Types, SpareOK, NEW r \in Requests, Change(r)
  PROVE  Types' /\ SpareOK'
<1> DEFINE q == req[r]
<1>0. q.at = "changing"
  BY DEF Change
<1>1. q \in Changing /\ q # Idle /\ q.token \in Tokens
  BY <1>0, Holds
<1>2. /\ UNCHANGED table /\ UNCHANGED oidc /\ UNCHANGED <<policy, now, restarts, holder>>
      /\ UNCHANGED origin /\ UNCHANGED issued
  BY DEF Change, table
<1>3. AccountOK' /\ ended' \in SUBSET Tokens /\ FlightOK' /\ SpareOK'
  <2>1. CASE Keep(r, Idle) /\ UNCHANGED <<account, ended>>
    BY <1>1, <1>2, <2>1, TypesKept, KeptTypes, Waited DEF Types, HistoryOK
  <2>2. CASE /\ file' = Counted(Reset(file), now) /\ Keep(r, Idle)
             /\ wrong' = (IF file.locked # 0 THEN 0 ELSE wrong) + 1
             /\ UNCHANGED <<minted, ended>>
    <3>1. now \in Nat
      BY DEF Types, ClockOK
    <3>2. AccountOK'
      BY <2>2, <3>1, CountedTypes DEF Types, AccountOK
    <3>3. QED  BY <1>1, <1>2, <2>2, <3>2, KeptTypes, Waited DEF Types, HistoryOK
  <2>3. CASE /\ Replaces(q.new, FALSE)
             /\ Keep(r, [at |-> "verified", token |-> q.token,
                         who |-> Local(minted + 1, FALSE),
                         from |-> [method |-> "local", secret |-> q.new,
                                   version |-> minted + 1]])
    <3>1. q.new \in Secrets
      BY <1>1 DEF Changing
    <3>2. AccountOK' /\ ended' \in SUBSET Tokens /\ minted + 1 \in Versions
      BY <2>3, <3>1, ReplacingTypes
    <3>3. [at |-> "verified", token |-> q.token, who |-> Local(minted + 1, FALSE),
           from |-> [method |-> "local", secret |-> q.new, version |-> minted + 1]] \in Waiting
      BY <1>1, <3>1, <3>2, LocalTypes
    <3>4. QED  BY <1>1, <1>2, <2>3, <3>2, <3>3, KeptTypes, Waited
  <2>4. QED  BY <2>1, <2>2, <2>3 DEF Change
<1>4. HistoryOK'
  BY <1>2, <1>3 DEF Types, HistoryOK
<1>5. QED  BY <1>2, <1>3, <1>4, TypesKept DEF Types

LEMMA EnterTypes ==
  ASSUME Types, SpareOK, NEW r \in Requests, Enter(r)
  PROVE  Types' /\ SpareOK'
<1> DEFINE q == req[r]
<1>0. q.at = "verified"
  BY DEF Enter
<1>1. q \in Verified /\ q # Idle /\ q.token \in Tokens
  BY <1>0, Holds
<1>2. /\ UNCHANGED account /\ UNCHANGED <<begun, binding>> /\ Keep(r, Idle)
      /\ UNCHANGED <<policy, now, restarts, holder>>
      /\ ended' = ended \cup ({q.token} \cap Tokens)
  BY DEF Enter
<1>3. q.who \in Principals /\ q.from \in Origins
  BY <1>1 DEF Verified
<1>4. Without(q.token) \in [Tokens -> SessRow]
  BY DEF Without, SessRow, Types, TableOK
<1>5. TableOK' /\ issued' \in issued .. issued + 1 /\ OidcOK' /\ HistoryOK'
  <2>1. CASE /\ Valid(q.who, policy) /\ issued' = issued + 1
             /\ sess' = [Purged(Without(q.token)) EXCEPT ![issued + 1] = SignIn(q.who)]
             /\ txn' = Purged(txn)
             /\ origin' = [origin EXCEPT ![issued + 1] = q.from]
    <3>1. SignIn(q.who) \in SessRow
      BY <1>3, SessionsAssumption DEF SignIn, SessRow, Types, ClockOK
    <3>2. Purged(Without(q.token)) \in [Tokens -> SessRow]
      BY <1>4 DEF Purged, SessRow
    <3>3. TableOK' /\ issued' \in issued .. issued + 1
      <4> DEFINE kept == Purged(Without(q.token))
                 new  == SignIn(q.who)
      <4>1. kept \in [Tokens -> SessRow] /\ new \in SessRow
            /\ issued' = issued + 1 /\ sess' = [kept EXCEPT ![issued + 1] = new]
        BY <2>1, <3>1, <3>2
      <4> HIDE DEF kept, new
      <4>2. sess' \in [Tokens -> SessRow]
        BY <4>1
      <4>3. issued' \in Nat /\ issued' \in issued .. issued + 1
        BY <4>1 DEF Types, TableOK
      <4>4. QED  BY <4>2, <4>3 DEF TableOK
    <3>4. Purged(txn) \in [States -> TxnRow]
      BY DEF Purged, TxnRow, Types, OidcOK
    <3>5. OidcOK'
      BY <1>2, <2>1, <3>4 DEF Types, OidcOK
    <3>6. HistoryOK'
      BY <1>2, <1>3, <2>1 DEF Types, HistoryOK
    <3>7. QED  BY <3>3, <3>5, <3>6
  <2>2. CASE sess' = Without(q.token) /\ UNCHANGED <<issued, txn, origin>>
    BY <1>2, <1>4, <2>2 DEF Types, TableOK, OidcOK, HistoryOK
  <2>3. QED  BY <2>1, <2>2 DEF Enter
<1>6. FlightOK' /\ SpareOK'
  BY <1>1, <1>2, <1>5, KeptTypes, Drawing
<1>7. QED  BY <1>2, <1>5, <1>6, TypesKept DEF Types

LEMMA BeginTypes ==
  ASSUME Types, SpareOK, NEW r \in Requests, NEW t \in Carried, Begin(r, t)
  PROVE  Types' /\ SpareOK'
<1> DEFINE q == [at |-> "beginning", token |-> t]
<1>1. /\ UNCHANGED account /\ UNCHANGED <<begun, binding>> /\ UNCHANGED <<origin, ended>>
      /\ UNCHANGED <<policy, now, restarts, holder>> /\ UNCHANGED issued
      /\ Keep(r, q) /\ Spare(1) /\ t \in Tokens
  BY DEF Begin, Open
<1>2. q \in Waiting
  BY <1>1 DEF Waiting, Beginning
<1> HIDE DEF q
<1>3. TableOK'
  BY <1>1, ShrinkingTypes DEF Begin
<1>4. OidcOK'
  <2>1. Purged(txn) \in [States -> TxnRow]
    BY DEF Purged, TxnRow, Types, OidcOK
  <2>2. QED  BY <1>1, <2>1 DEF Begin, Types, OidcOK
<1>5. FlightOK' /\ SpareOK'
  BY <1>1, <1>2, KeptTypes, Waited
<1>6. QED  BY <1>1, <1>3, <1>4, <1>5, TypesKept DEF Types

LEMMA BeganTypes ==
  ASSUME Types, SpareOK, NEW r \in Requests, Began(r)
  PROVE  Types' /\ SpareOK'
<1> DEFINE q == req[r]
           x == [kind |-> "txn", binding |-> q.token, issuer |-> policy.issuer,
                 until |-> now + Short]
<1>1. q \in Waiting /\ q # Idle /\ q.token \in Tokens
  BY Holds DEF Began
<1>2. /\ UNCHANGED account /\ UNCHANGED table /\ UNCHANGED <<origin, ended>>
      /\ UNCHANGED <<policy, now, restarts, holder>> /\ UNCHANGED issued /\ Keep(r, Idle)
      /\ begun < MaxState /\ begun' = begun + 1 /\ txn' = [txn EXCEPT ![begun + 1] = x]
      /\ binding' = [binding EXCEPT ![begun + 1] = q.token]
  BY DEF Began, table
<1>3. x \in TxnRow
  <2>1. policy.issuer \in Nat /\ now + Short \in Nat
    BY SessionsAssumption DEF Types, ClockOK, PolicyRecord
  <2>2. QED  BY <1>1, <2>1 DEF TxnRow
<1> HIDE DEF x
<1>4. begun' \in 0 .. MaxState /\ q.token \in 0 .. MaxToken
  BY <1>1, <1>2, SessionsAssumption DEF Types, OidcOK, Tokens
<1>5. OidcOK'
  BY <1>2, <1>3, <1>4 DEF Types, OidcOK
<1>6. FlightOK' /\ SpareOK'
  BY <1>1, <1>2, KeptTypes, Waited
<1>7. QED  BY <1>2, <1>5, <1>6, TypesKept DEF Types

LEMMA CallbackTypes ==
  ASSUME Types, SpareOK, NEW r \in Requests, NEW t \in Carried, NEW s \in 1 .. begun,
         Callback(r, t, s)
  PROVE  Types' /\ SpareOK'
<1>1. /\ UNCHANGED account /\ UNCHANGED <<begun, binding>> /\ UNCHANGED <<origin, ended>>
      /\ UNCHANGED <<policy, now, restarts, holder>> /\ Spare(1)
  BY DEF Callback
<1>2. Consumed(s) \in [States -> TxnRow] /\ s \in States
  BY SessionsAssumption DEF Consumed, TxnRow, Types, OidcOK, States
<1>3. TableOK' /\ OidcOK' /\ FlightOK' /\ SpareOK'
  <2>1. CASE /\ Answers(t, txn[s]) /\ txn' = Consumed(s) /\ UNCHANGED table
             /\ Keep(r, [at |-> "exchanging", token |-> t, state |-> s])
    <3>1. [at |-> "exchanging", token |-> t, state |-> s] \in Waiting
      BY <1>2, <2>1 DEF Waiting, Exchanging, Answers, Open
    <3>2. OidcOK'
      BY <1>1, <1>2, <2>1 DEF Types, OidcOK
    <3>3. UNCHANGED issued
      BY <2>1 DEF table
    <3>4. QED  BY <1>1, <2>1, <3>1, <3>2, <3>3, TypesKept, KeptTypes, Waited
  <2>2. CASE PurgedFor(t, Consumed(s)) /\ RendersLogin(t) /\ UNCHANGED req
    <3>1. TableOK' /\ issued' \in issued .. issued + 1
      BY <2>2, RenderingTypes
    <3>2. OidcOK'
      BY <1>1, <1>2, <2>2, PurgingTypes
    <3>3. QED  BY <1>1, <2>2, <3>1, <3>2, TypesKept, Drawing
  <2>3. QED  BY <2>1, <2>2 DEF Callback
<1>4. QED  BY <1>1, <1>3, TypesKept DEF Types

LEMMA ExchangedTypes ==
  ASSUME Types, SpareOK, NEW r \in Requests, Exchanged(r)
  PROVE  Types' /\ SpareOK'
<1> DEFINE q == req[r]
           w == [at |-> "verified", token |-> q.token, who |-> Sso(policy),
                 from |-> [method |-> "oidc", state |-> q.state, token |-> q.token]]
<1>1. q \in Exchanging /\ q # Idle /\ q.token \in Tokens
  BY Holds DEF Exchanged
<1>2. /\ UNCHANGED account /\ UNCHANGED table /\ UNCHANGED oidc /\ UNCHANGED <<origin, ended>>
      /\ UNCHANGED <<policy, now, restarts, holder>> /\ UNCHANGED issued /\ Keep(r, w)
  BY DEF Exchanged, table
<1>3. w \in Waiting
  <2>1. Sso(policy) \in Principals
    BY DEF Sso, Principals, Types, ClockOK
  <2>2. [method |-> "oidc", state |-> q.state, token |-> q.token] \in Origins
    BY <1>1 DEF Exchanging, Origins
  <2>3. QED  BY <1>1, <2>1, <2>2 DEF Waiting, Verified
<1> HIDE DEF w
<1>4. FlightOK' /\ SpareOK'
  BY <1>1, <1>2, <1>3, KeptTypes, Waited
<1>5. QED  BY <1>2, <1>4, TypesKept DEF Types

LEMMA DeniedTypes ==
  ASSUME Types, SpareOK, NEW r \in Requests, Denied(r)
  PROVE  Types' /\ SpareOK'
<1>1. /\ UNCHANGED account /\ UNCHANGED <<begun, binding>> /\ UNCHANGED <<origin, ended>>
      /\ UNCHANGED <<policy, now, restarts, holder>> /\ Keep(r, Idle)
      /\ RendersLogin(req[r].token) /\ PurgedFor(req[r].token, txn)
  BY DEF Denied
<1>2. req[r] # Idle
  BY Holds DEF Denied
<1>3. TableOK' /\ issued' \in issued .. issued + 1
  BY <1>1, RenderingTypes
<1>4. OidcOK'
  BY <1>1, PurgingTypes DEF Types, OidcOK
<1>5. FlightOK' /\ SpareOK'
  BY <1>1, <1>2, <1>3, KeptTypes, Drawing
<1>6. QED  BY <1>1, <1>3, <1>4, <1>5, TypesKept DEF Types

LEMMA StepTypes == IInv /\ Types /\ SpareOK /\ [Next]_vars => Types' /\ SpareOK'
<1> SUFFICES ASSUME IInv, Types, SpareOK, [Next]_vars PROVE Types' /\ SpareOK'
  OBVIOUS
<1>1. ASSUME NEW t \in Carried, Visit(t) \/ LoginPage(t) \/ Logout(t)
      PROVE  Types' /\ SpareOK'
  BY <1>1, BrowsingTypes
<1>2. ASSUME NEW s \in Secrets, Recover(s) PROVE Types' /\ SpareOK'
  BY <1>2, RecoverTypes
<1>3. ASSUME NEW r \in Requests,
             \/ Verify(r) \/ Change(r) \/ Enter(r) \/ Began(r) \/ Exchanged(r) \/ Denied(r)
      PROVE  Types' /\ SpareOK'
  BY <1>3, VerifyTypes, ChangeTypes, EnterTypes, BeganTypes, ExchangedTypes, DeniedTypes
<1>4. ASSUME NEW r \in Requests, NEW t \in Carried,
             \/ Begin(r, t)
             \/ \E s \in Secrets : Login(r, t, s) \/ \E n \in Secrets : AskChange(r, t, s, n)
             \/ \E s \in 1 .. begun : Callback(r, t, s)
      PROVE  Types' /\ SpareOK'
  BY <1>4, BeginTypes, LoginTypes, AskChangeTypes, CallbackTypes
<1>5. CASE Tick \/ \E p \in Policies : Restart(p)
  BY <1>5, TimeTypes
<1>6. CASE UNCHANGED vars
  BY <1>6, TypesKept DEF Types, vars
<1>7. QED  BY <1>1, <1>2, <1>3, <1>4, <1>5, <1>6 DEF Next

\* Type correctness, for any number of requests: in particular the failed
\* attempts in the file never exceed the settings, and a request in flight that
\* renders the login page or signs in always has a token left to draw (the
\* bound of the model cuts no request short).
THEOREM Typing == Spec => []TypeOK
<1>1. Spec => [](Types /\ SpareOK)
  BY InitTypes, StepTypes, Invariant, PTL DEF Spec
<1>2. QED  BY <1>1, TypesSuffice, PTL

=============================================================================
