-------------------------- MODULE Evidence_proofs ---------------------------
(***************************************************************************)
(* What the fingerprint of expectations has to contain, and contains: for  *)
(* any inventories, settings, networks and edits, evidence whose           *)
(* fingerprint is today's is the evidence that a check under today's file  *)
(* and settings would have collected, so that its verdict is theirs; and   *)
(* it contains no more than what concerns the address.                     *)
(***************************************************************************)
EXTENDS Evidence, WellFoundedInduction, TLAPS

-----------------------------------------------------------------------------
(* The operators *)

\* Equal fingerprints agree on all that a check and its judgement read.
LEMMA SamePrint ==
  ASSUME NEW f, NEW g, NEW c, NEW d, NEW ip,
         Fingerprint(f, c, ip) = Fingerprint(g, d, ip)
  PROVE  /\ Mac(f, ip) = Mac(g, ip)
         /\ DnsNames(f, ip) = DnsNames(g, ip)
         /\ DnsNames(f, ip) # {} => Servers(c, ip) = Servers(d, ip)
<1>1. Mac(f, ip) = Mac(g, ip)
  <2>1. Fingerprint(f, c, ip).mac = Mac(f, ip) /\ Fingerprint(g, d, ip).mac = Mac(g, ip)
    BY DEF Fingerprint
  <2>2. QED  BY <2>1
<1>2. DnsNames(f, ip) = DnsNames(g, ip)
  <2>1. /\ Fingerprint(f, c, ip).dns = [n \in DnsNames(f, ip) |-> Expected(f, n)]
        /\ Fingerprint(g, d, ip).dns = [n \in DnsNames(g, ip) |-> Expected(g, n)]
    BY DEF Fingerprint
  <2>2. DOMAIN [n \in DnsNames(f, ip) |-> Expected(f, n)] = DnsNames(f, ip)
    OBVIOUS
  <2>3. DOMAIN [n \in DnsNames(g, ip) |-> Expected(g, n)] = DnsNames(g, ip)
    OBVIOUS
  <2>4. QED  BY <2>1, <2>2, <2>3
<1>3. ASSUME DnsNames(f, ip) # {} PROVE Servers(c, ip) = Servers(d, ip)
  <2>1. Fingerprint(f, c, ip).servers = Servers(c, ip)
    BY <1>3 DEF Fingerprint
  <2>2. Fingerprint(g, d, ip).servers = Servers(d, ip)
    BY <1>2, <1>3 DEF Fingerprint
  <2>3. QED  BY <2>1, <2>2
<1>4. QED  BY <1>1, <1>2, <1>3

\* A check under either of them observes the same of the same network.
LEMMA SameEvidence ==
  ASSUME NEW f, NEW g, NEW c, NEW d, NEW ip, NEW w, NEW t, NEW u,
         Fingerprint(f, c, ip) = Fingerprint(g, d, ip), ip \in Known(f), ip \in Known(g)
  PROVE  /\ Checked(f, c, w, ip, t).up = Checked(g, d, w, ip, u).up
         /\ Checked(f, c, w, ip, t).mac = Checked(g, d, w, ip, u).mac
         /\ Checked(f, c, w, ip, t).dns = Checked(g, d, w, ip, u).dns
<1>1. /\ Mac(f, ip) = Mac(g, ip)
      /\ DnsNames(f, ip) = DnsNames(g, ip)
      /\ DnsNames(f, ip) # {} => Servers(c, ip) = Servers(d, ip)
  BY SamePrint
<1>2. /\ Checked(f, c, w, ip, t).up = (ip \in w.up)
      /\ Checked(g, d, w, ip, u).up = (ip \in w.up)
  BY DEF Checked
<1>3. /\ Checked(f, c, w, ip, t).mac = IF Mac(f, ip) = NoMac THEN NoMac ELSE w.arp[ip]
      /\ Checked(g, d, w, ip, u).mac = IF Mac(g, ip) = NoMac THEN NoMac ELSE w.arp[ip]
  BY DEF Checked
<1>4. /\ Checked(f, c, w, ip, t).dns = [n \in DnsNames(f, ip) |-> w.dns[Servers(c, ip)][n]]
      /\ Checked(g, d, w, ip, u).dns = [n \in DnsNames(g, ip) |-> w.dns[Servers(d, ip)][n]]
  BY DEF Checked
<1>5. [n \in DnsNames(f, ip) |-> w.dns[Servers(c, ip)][n]]
        = [n \in DnsNames(g, ip) |-> w.dns[Servers(d, ip)][n]]
  <2>1. CASE DnsNames(f, ip) = {}
    BY <1>1, <2>1
  <2>2. CASE DnsNames(f, ip) # {}
    BY <1>1, <2>2
  <2>3. QED  BY <2>1, <2>2
<1>6. QED  BY <1>1, <1>2, <1>3, <1>4, <1>5

\* Evidence of today's expectations has the verdict of a check of today.
LEMMA SameVerdict ==
  ASSUME NEW f, NEW g, NEW c, NEW d, NEW ip, NEW w, NEW t, NEW u,
         Fingerprint(f, c, ip) = Fingerprint(g, d, ip), ip \in Known(f), ip \in Known(g)
  PROVE  Judged(f, ip, Checked(g, d, w, ip, u)) = Judged(f, ip, Checked(f, c, w, ip, t))
<1> DEFINE old == Checked(g, d, w, ip, u)
           new == Checked(f, c, w, ip, t)
<1>1. new.up = old.up /\ new.mac = old.mac /\ new.dns = old.dns
  BY SameEvidence
<1> HIDE DEF old, new
<1>2. Judged(f, ip, old) = Judged(f, ip, new)
  BY <1>1 DEF Judged
<1>3. QED  BY <1>2 DEF old, new

LEMMA Judgements ==
  ASSUME NEW f, NEW ip, NEW o
  PROVE  Judged(f, ip, o) \in {"matches", "mismatch", "incomplete"}
  BY DEF Judged

\* All of an address's expectations are made of its own records, but for the
\* addresses that share its names, its membership and its resolvers.
LEMMA RecordsDecide ==
  ASSUME NEW f, NEW g, NEW ip, Records(f, ip) = Records(g, ip)
  PROVE  /\ (ip \in Known(f)) = (ip \in Known(g))
         /\ Preferred(f, ip) = Preferred(g, ip)
         /\ Conflict(f, ip) = Conflict(g, ip)
         /\ Mac(f, ip) = Mac(g, ip)
         /\ DnsNames(f, ip) = DnsNames(g, ip)
<1>1. (ip \in Known(f)) = (ip \in Known(g))
  <2>1. ASSUME NEW h PROVE (ip \in Known(h)) = (Records(h, ip) # {})
    BY DEF Known, Records
  <2>2. QED  BY <2>1
<1>2. Preferred(f, ip) = Preferred(g, ip)
  BY DEF Preferred
<1>3. MacsOf(f, ip) = MacsOf(g, ip)
  BY <1>2 DEF MacsOf
<1>4. Conflict(f, ip) = Conflict(g, ip)
  BY <1>2, <1>3 DEF Conflict
<1>5. Mac(f, ip) = Mac(g, ip)
  BY <1>3, <1>4 DEF Mac
<1>6. DnsNames(f, ip) = DnsNames(g, ip)
  BY <1>2 DEF DnsNames
<1>7. QED  BY <1>1, <1>2, <1>4, <1>5, <1>6

-----------------------------------------------------------------------------
(* The invariant: where an observation comes from *)

Collected(ip) ==
  \/ obs[ip] = NoObs
  \/ obs[ip].is = "pinged"
  \/ \E f, c, t : ip \in Known(f) /\ obs[ip] = Checked(f, c, seen[ip], ip, t)

IInv ==
  /\ now \in 0 .. MaxTime /\ schedules \in Tables /\ settings \in Settings
  /\ job = NoJob \/ "todo" \in DOMAIN job
  /\ DOMAIN obs = Addresses /\ DOMAIN seen = Addresses /\ DOMAIN last = Addresses
  /\ \A ip \in Addresses :
       /\ Collected(ip)
       /\ obs[ip] # NoObs => obs[ip].at \in Nat /\ (obs[ip].up => last[ip])

LEMMA InitInv == Init => IInv
  BY EvidenceAssumption DEF Init, IInv, Collected

LEMMA ProbeInv ==
  ASSUME IInv, NEW ip \in Addresses, Probe(ip)
  PROVE  IInv'
<1> DEFINE o == Checked(job.file, job.settings, world, ip, now)
           known == ip \in Known(job.file)
<1>1. /\ obs' = [obs EXCEPT ![ip] = Stored(o, known, obs[ip])]
      /\ last' = [last EXCEPT ![ip] = o.up]
      /\ seen' = [seen EXCEPT ![ip] = world]
  BY DEF Probe
<1>2. known => o = Checked(job.file, job.settings, world, ip, now)
  OBVIOUS
<1>3. (~known => o.is = "pinged") /\ o.at \in Nat
  BY DEF Checked, IInv
<1> HIDE DEF o
<1>4. Stored(o, known, obs[ip]) \in {o, NoObs}
  BY DEF Stored
<1>5. /\ DOMAIN obs' = Addresses /\ DOMAIN seen' = Addresses /\ DOMAIN last' = Addresses
      /\ now' \in 0 .. MaxTime /\ schedules' \in Tables /\ settings' \in Settings
      /\ job' = NoJob \/ "todo" \in DOMAIN job'
  BY <1>1 DEF IInv, Probe, saved
<1>6. obs'[ip] \in {o, NoObs} /\ last'[ip] = o.up /\ seen'[ip] = world
  BY <1>1, <1>4 DEF IInv
<1>7. Collected(ip)'
  <2>1. CASE obs'[ip] = NoObs
    BY <2>1 DEF Collected
  <2>2. CASE obs'[ip] = o /\ ~known
    BY <1>3, <2>2 DEF Collected
  <2>3. CASE obs'[ip] = o /\ known
    <3>1. \E f, c, t : ip \in Known(f) /\ obs'[ip] = Checked(f, c, seen'[ip], ip, t)
      BY <1>2, <1>6, <2>3
    <3>2. QED  BY <3>1 DEF Collected
  <2>4. QED  BY <1>6, <2>1, <2>2, <2>3
<1>8. obs'[ip] # NoObs => obs'[ip].at \in Nat /\ (obs'[ip].up => last'[ip])
  BY <1>3, <1>6
<1>9. ASSUME NEW q \in Addresses, q # ip
      PROVE  /\ Collected(q)'
             /\ obs'[q] # NoObs => obs'[q].at \in Nat /\ (obs'[q].up => last'[q])
  <2>1. obs'[q] = obs[q] /\ seen'[q] = seen[q] /\ last'[q] = last[q]
    BY <1>1, <1>9 DEF IInv
  <2>2. Collected(q)
    BY DEF IInv
  <2>3. Collected(q)'
    BY <2>1, <2>2 DEF Collected
  <2>4. QED  BY <2>1, <2>3 DEF IInv
<1>10. QED  BY <1>5, <1>7, <1>8, <1>9 DEF IInv

LEMMA StepInv == IInv /\ [Next]_vars => IInv'
<1> SUFFICES ASSUME IInv, [Next]_vars PROVE IInv'
  OBVIOUS
<1> DEFINE Kind == /\ now \in 0 .. MaxTime /\ schedules \in Tables /\ settings \in Settings
                   /\ job = NoJob \/ "todo" \in DOMAIN job
<1>1. ASSUME UNCHANGED <<obs, seen, last>>, Kind' PROVE IInv'
  BY <1>1 DEF IInv, Collected
<1>2. ASSUME NEW targets \in SUBSET Addresses, Start(targets) PROVE IInv'
  BY <1>1, <1>2 DEF IInv, Start, saved
<1>3. ASSUME NEW ip \in Addresses, Probe(ip) PROVE IInv'
  BY <1>3, ProbeInv
<1>4. ASSUME NEW ip \in Addresses, Discards(ip) PROVE IInv'
  <2>1. UNCHANGED <<obs, seen, last, saved, now>>
    BY <1>4 DEF Discards
  <2>2. "todo" \in DOMAIN job'
    BY <1>4 DEF Discards, IInv
  <2>3. QED  BY <1>1, <2>1, <2>2 DEF IInv, saved
<1>5. ASSUME End \/ Edit \/ Move \/ Tick \/ SetBack \/ UNCHANGED vars PROVE IInv'
  <2>1. UNCHANGED <<obs, seen, last>> /\ (job' = job \/ job' = NoJob)
    BY <1>5 DEF End, Edit, Move, Tick, SetBack, vars, saved, bounds
  <2>2. schedules' \in Tables /\ settings' \in Settings
    BY <1>5 DEF End, Edit, Move, Tick, SetBack, vars, saved, bounds, IInv
  <2>3. now' \in 0 .. MaxTime
    <3>1. CASE Tick \/ SetBack
      BY <3>1, EvidenceAssumption DEF Tick, SetBack, IInv
    <3>2. CASE End \/ Edit \/ Move \/ UNCHANGED vars
      BY <3>2 DEF End, Edit, Move, vars, saved, bounds, IInv
    <3>3. QED  BY <1>5, <3>1, <3>2
  <2>4. QED  BY <1>1, <2>1, <2>2, <2>3 DEF IInv
<1>6. QED  BY <1>2, <1>3, <1>4, <1>5 DEF Next

THEOREM Invariant == Spec => []IInv
  BY InitInv, StepInv, PTL DEF Spec

-----------------------------------------------------------------------------
(* The properties *)

\* Evidence that was collected under other expectations is never judged, and
\* what is judged has the verdict that a check under today's file and settings
\* would have given, for any files, settings and edits (expectation_fingerprint,
\* reconcile).
THEOREM Verdicts == Spec => []VerdictsHold
<1>1. ASSUME IInv PROVE VerdictsHold
  <2> SUFFICES ASSUME NEW ip \in Addresses, Row(ip) \in {"matches", "mismatch", "incomplete"}
               PROVE  Row(ip) = Verdict(file, settings, ip,
                                        Checked(file, settings, seen[ip], ip, now))
    BY DEF VerdictsHold
  <2> DEFINE o == obs[ip]
             new == Checked(file, settings, seen[ip], ip, now)
  <2>1. ip \in Known(file) /\ Row(ip) = Verdict(file, settings, ip, o)
    BY DEF Row
  <2>2. /\ ~Conflict(file, ip) /\ o # NoObs /\ o.is # "pinged"
        /\ o.print = Fingerprint(file, settings, ip)
        /\ Row(ip) = Judged(file, ip, o)
    BY <2>1 DEF Verdict
  <2>3. PICK g, d, u : ip \in Known(g) /\ o = Checked(g, d, seen[ip], ip, u)
    BY <1>1, <2>2 DEF IInv, Collected
  <2>4. o.print = Fingerprint(g, d, ip)
    BY <2>3 DEF Checked
  <2>5. Judged(file, ip, o) = Judged(file, ip, new)
    BY <2>1, <2>2, <2>3, <2>4, SameVerdict
  <2>6. new # NoObs /\ new.is = "checked" /\ new.print = Fingerprint(file, settings, ip)
    BY <2>1 DEF Checked, NoObs
  <2> HIDE DEF new
  <2>7. Verdict(file, settings, ip, new) = Judged(file, ip, new)
    BY <2>2, <2>6 DEF Verdict
  <2>8. QED  BY <2>2, <2>5, <2>7 DEF new
<1>2. QED  BY <1>1, Invariant, PTL

\* An undocumented responder answered the last recorded probe of its address,
\* whatever inventory the job of that probe worked from, and whatever probes were
\* discarded or failed to be recorded (consume, address_row, discoveries).
THEOREM Responders == Spec => []RespondersAnswered
<1>1. ASSUME IInv PROVE RespondersAnswered
  <2> SUFFICES ASSUME NEW ip \in Addresses, Row(ip) = "responder" \/ ip \in Discoveries
               PROVE  last[ip] /\ ip \notin Known(file)
    BY DEF RespondersAnswered
  <2>1. ip \notin Known(file) /\ obs[ip] # NoObs /\ obs[ip].up
    <3>1. CASE ip \in Discoveries
      BY <3>1 DEF Discoveries
    <3>2. CASE Row(ip) = "responder"
      <4>1. ASSUME NEW f, NEW c, NEW o PROVE Verdict(f, c, ip, o) # "responder"
        BY Judgements DEF Verdict
      <4>2. QED  BY <3>2, <4>1 DEF Row
    <3>3. QED  BY <3>1, <3>2
  <2>2. QED  BY <1>1, <2>1 DEF IInv
<1>2. QED  BY <1>1, Invariant, PTL

\* An edit that does not concern an address leaves its row: the fingerprint and the
\* age limit hold no more than what Concerning names, where a schedule concerns the
\* addresses of its plan within the inventory of the moment (expectation_fingerprint,
\* freshness_max_age).
THEOREM UnrelatedEdits == Spec => UnrelatedEditsKeepRows
<1> DEFINE Quiet(ip) ==
      /\ saved' # saved /\ obs' = obs /\ now' = now
      /\ Concerning(file', settings', schedules', ip)
           = Concerning(file, settings, schedules, ip)
<1>1. ASSUME NEW ip \in Addresses, Quiet(ip) PROVE Row(ip)' = Row(ip)
  <2>1. Records(file', ip) = Records(file, ip)
    BY <1>1 DEF Concerning
  <2>2. /\ (ip \in Known(file')) = (ip \in Known(file))
        /\ Preferred(file', ip) = Preferred(file, ip)
        /\ Conflict(file', ip) = Conflict(file, ip)
        /\ Mac(file', ip) = Mac(file, ip)
        /\ DnsNames(file', ip) = DnsNames(file, ip)
    BY <2>1, RecordsDecide
  <2>3. /\ (ip \in file'.declared) = (ip \in file.declared)
        /\ [n \in DnsNames(file', ip) |-> Expected(file', n)]
             = [n \in DnsNames(file, ip) |-> Expected(file, n)]
        /\ (IF DnsNames(file', ip) = {} THEN 0 ELSE Servers(settings', ip))
             = (IF DnsNames(file, ip) = {} THEN 0 ELSE Servers(settings, ip))
    BY <1>1 DEF Concerning
  <2>4. Fingerprint(file', settings', ip) = Fingerprint(file, settings, ip)
    BY <2>2, <2>3 DEF Fingerprint
  <2>5. \A n \in DnsNames(file, ip) : Expected(file', n) = Expected(file, n)
    BY <2>2, <2>3
  <2>6. \A o : Judged(file', ip, o) = Judged(file, ip, o)
    BY <2>2, <2>5 DEF Judged
  <2>7. Verdict(file', settings', ip, obs[ip]) = Verdict(file, settings, ip, obs[ip])
    BY <2>2, <2>4, <2>6 DEF Verdict
  <2>8. TooOld(ip)' = TooOld(ip)
    <3>1. /\ Applicable(schedules', file', ip) = Applicable(schedules, file, ip)
          /\ settings'.maxAge = settings.maxAge
      BY <1>1 DEF Concerning
    <3>2. MaxAge(ip)' = MaxAge(ip)
      BY <1>1, <3>1 DEF MaxAge
    <3>3. QED  BY <1>1, <3>2 DEF TooOld, Age
  <2>9. QED  BY <1>1, <2>2, <2>7, <2>8 DEF Row
<1>2. [\A ip \in Addresses : Quiet(ip) => Row(ip)' = Row(ip)]_vars
  BY <1>1
<1>3. QED  BY <1>2, PTL DEF UnrelatedEditsKeepRows

-----------------------------------------------------------------------------
(* Age *)

\* A nonempty set of numbers has a least one.
LEMMA Smallest ==
  ASSUME NEW T \in SUBSET Nat, T # {}
  PROVE  \E x \in T : \A y \in T : x <= y
  <1>. DEFINE R == OpToRel(<, Nat)
  <1>1. IsWellFoundedOn(R, Nat)
    BY NatLessThanWellFounded
  <1>2. PICK x \in T : \A y \in T : <<y, x>> \notin R
    <2>. HIDE DEF R
    <2>. QED  BY <1>1, WFMin
  <1>3. \A y \in T : ~(y < x)
    BY <1>2 DEF OpToRel
  <1>. QED  BY <1>3

\* The age limit at a time, for the applicable schedules and an override.
Limit(c, table, t) ==
  LET gaps == {s.gaps[t] : s \in table} IN
  IF c.maxAge # Never THEN c.maxAge
  ELSE IF gaps = {} THEN Default
  ELSE 2 * (CHOOSE g \in gaps : \A h \in gaps : g <= h)

\* The limit is a number, and grows only with the gap of an applicable schedule.
LEMMA LimitGrows ==
  ASSUME NEW c \in SettingType, NEW table \in SUBSET Schedule,
         NEW t \in 0 .. MaxTime, NEW u \in 0 .. MaxTime,
         \A s \in table : s.gaps[u] <= s.gaps[t]
  PROVE  /\ Limit(c, table, t) \in Nat /\ Limit(c, table, u) \in Nat
         /\ Limit(c, table, u) <= Limit(c, table, t)
<1> DEFINE G(v) == {s.gaps[v] : s \in table}
           Least(S) == CHOOSE g \in S : \A h \in S : g <= h
<1>1. CASE c.maxAge # Never
  BY <1>1 DEF Limit, SettingType
<1>2. CASE c.maxAge = Never /\ G(t) = {}
  <2>1. G(u) = {}
    BY <1>2
  <2>2. QED  BY <1>2, <2>1, EvidenceAssumption DEF Limit
<1>3. CASE c.maxAge = Never /\ G(t) # {}
  <2>1. \A v \in {t, u} : G(v) \in SUBSET Nat
    <3>1. ASSUME NEW s \in table, NEW v \in {t, u} PROVE s.gaps[v] \in Nat
      <4>1. s.gaps \in [0 .. MaxTime -> Nat \ {0}]
        BY DEF Schedule
      <4>2. QED  BY <4>1
    <3>2. QED  BY <3>1
  <2>2. G(u) # {}
    BY <1>3
  <2>3. /\ Least(G(t)) \in G(t)
        /\ Least(G(u)) \in G(u) /\ \A h \in G(u) : Least(G(u)) <= h
    <3>1. \A v \in {t, u} : \E x \in G(v) : \A y \in G(v) : x <= y
      BY <1>3, <2>1, <2>2, Smallest
    <3>2. QED  BY <3>1
  <2>4. PICK s \in table : Least(G(t)) = s.gaps[t]
    BY <2>3
  <2>5. s.gaps[u] \in G(u) /\ s.gaps[u] <= s.gaps[t]
    BY <2>4
  <2>6. Limit(c, table, t) = 2 * Least(G(t)) /\ Limit(c, table, u) = 2 * Least(G(u))
    BY <1>3, <2>2 DEF Limit
  <2> HIDE DEF G, Least
  <2>7. Least(G(u)) \in Nat /\ Least(G(t)) \in Nat /\ Least(G(u)) <= s.gaps[u]
    BY <2>1, <2>3, <2>5
  <2>8. s.gaps[u] \in Nat
    BY <2>1, <2>5
  <2>9. QED  BY <2>4, <2>5, <2>6, <2>7, <2>8
<1>4. QED  BY <1>1, <1>2, <1>3

\* Without an edit and without a new observation no row leaves staleness as time goes
\* on, but where the gaps of an applicable calendar grow, or where a clock that was
\* set back catches up with a timestamp of the future: what was too old stays too old, for any
\* inventories, schedules and settings (observation_freshness, freshness_max_age).
THEOREM StaleStays == Spec => StaleUntilChecked
<1> DEFINE Grown(ip) == \E s \in Applicable(schedules, file, ip) : s.gaps[now'] > s.gaps[now]
           Quiet(ip) == /\ now' > now /\ saved' = saved /\ obs'[ip] = obs[ip]
                        /\ Row(ip) = "stale" /\ Age(ip) >= 0
<1>1. ASSUME IInv, IInv', NEW ip \in Addresses, Quiet(ip)
      PROVE  Row(ip)' = "stale" \/ Grown(ip)
  <2>1. now' \in 0 .. MaxTime /\ now \in 0 .. MaxTime /\ now <= now'
    BY <1>1, EvidenceAssumption DEF IInv
  <2>2. file' = file /\ settings' = settings /\ schedules' = schedules
    BY <1>1 DEF saved
  <2>3. ASSUME TooOld(ip), ~Grown(ip), obs[ip].at \in Int PROVE TooOld(ip)'
    <3> DEFINE table == Applicable(schedules, file, ip)
    <3>1. settings \in SettingType /\ schedules \in SUBSET Schedule
      BY <1>1, EvidenceAssumption DEF IInv
    <3>2. table \in SUBSET Schedule
      BY <3>1 DEF Applicable
    <3>3. \A s \in table : s.gaps[now'] <= s.gaps[now]
      <4>1. ASSUME NEW s \in table, NEW v \in 0 .. MaxTime PROVE s.gaps[v] \in Nat
        <5>1. s.gaps \in [0 .. MaxTime -> Nat \ {0}]
          BY <3>2 DEF Schedule
        <5>2. QED  BY <5>1
      <4>2. QED  BY <2>1, <2>3, <4>1
    <3>4. /\ MaxAge(ip) = Limit(settings, table, now)
          /\ MaxAge(ip)' = Limit(settings, table, now')
      BY <2>2 DEF MaxAge, Limit
    <3> HIDE DEF table
    <3>5. /\ Limit(settings, table, now) \in Nat
          /\ Limit(settings, table, now') \in Nat
          /\ Limit(settings, table, now') <= Limit(settings, table, now)
      BY <2>1, <3>1, <3>2, <3>3, LimitGrows
    <3>6. Age(ip)' >= Age(ip) /\ Age(ip) \in Int /\ Age(ip)' \in Int
      BY <1>1, <2>1, <2>3 DEF Age
    <3>7. Age(ip) >= MaxAge(ip) /\ obs[ip] # NoObs
      BY <1>1, <2>3, <3>6 DEF TooOld
    <3>8. Age(ip)' >= MaxAge(ip)'
      BY <3>4, <3>5, <3>6, <3>7
    <3>9. QED  BY <1>1, <3>7, <3>8 DEF TooOld
  <2>4. DEFINE verdict == IF ip \in Known(file) THEN Verdict(file, settings, ip, obs[ip])
                          ELSE IF obs[ip] # NoObs /\ obs[ip].up THEN "responder"
                          ELSE "unchecked"
  <2>5. /\ Row(ip) = IF TooOld(ip) /\ verdict \notin {"conflict", "responder"}
                     THEN "stale" ELSE verdict
        /\ Row(ip)' = IF TooOld(ip)' /\ verdict \notin {"conflict", "responder"}
                      THEN "stale" ELSE verdict
    BY <1>1, <2>2 DEF Row
  <2> HIDE DEF verdict
  <2>6. TooOld(ip) => obs[ip].at \in Int
    BY <1>1 DEF TooOld, IInv
  <2>7. QED  BY <1>1, <2>3, <2>5, <2>6
<1>2. IInv /\ IInv' =>
        [\A ip \in Addresses :
           /\ now' > now /\ saved' = saved /\ obs'[ip] = obs[ip]
           /\ Row(ip) = "stale" /\ Age(ip) >= 0
           => \/ Row(ip)' = "stale"
              \/ \E s \in Applicable(schedules, file, ip) : s.gaps[now'] > s.gaps[now]]_vars
  BY <1>1
<1>3. QED  BY <1>2, Invariant, PTL DEF StaleUntilChecked

=============================================================================
