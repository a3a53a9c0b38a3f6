------------------------------ MODULE Evidence ------------------------------
(***************************************************************************)
(* What the pages say of an address: the inventory read from the NetInfra  *)
(* file (netinfra.py), the raw evidence that a job stores (checks.py, the  *)
(* consumer of scanner.py), and the row that reconciles the two when it is *)
(* shown (reconcile, freshness.py, address_row of main.py).  A job works   *)
(* from the file and the settings of the moment it started; both, and the  *)
(* network itself, change while it runs and after it.                      *)
(*                                                                         *)
(* A file is its declared addresses and its A and no_dns records.  Names   *)
(* and MACs are normalized; a MAC may be absent or invalid, a name absent. *)
(***************************************************************************)
EXTENDS Integers, FiniteSets

CONSTANTS Addresses, Macs, Names, Resolvers,
          Files, Settings, Tables,   \* what may be saved: files, options, schedules
          Worlds,                    \* what the network may answer
          Default,                   \* MANUAL_MAX_AGE_SECONDS
          Day,                       \* only of a mutant
          MaxTime, MaxJobs, MaxEdits, MaxMoves     \* bounds

NoMac  == "no mac"
BadMac == "bad mac"
NoName == "no name"
Never  == -1

RecordType  == [ip : Addresses, mac : Macs \cup {NoMac, BadMac},
                name : Names \cup {NoName}, dns : BOOLEAN]
FileType    == [declared : SUBSET Addresses, records : SUBSET RecordType]
Scope       == [on : SUBSET Addresses, servers : Resolvers \cup {0}]
SettingType == [servers : Resolvers, scopes : SUBSET Scope, maxAge : {Never} \cup Nat]
Schedule    == [all : BOOLEAN, target : SUBSET Addresses,
                mode : {"full", "known-only", "discovery-only"},
                gaps : [0 .. MaxTime -> Nat \ {0}]]
Answer      == [error : BOOLEAN, addresses : SUBSET Addresses]
World       == [up : SUBSET Addresses, arp : [Addresses -> Macs \cup {NoMac}],
                dns : [Resolvers -> [Names -> Answer]]]

ASSUME EvidenceAssumption ==
  /\ Macs \cap {NoMac, BadMac} = {} /\ NoName \notin Names /\ 0 \notin Resolvers
  /\ Files # {} /\ Settings # {} /\ Worlds # {} /\ Tables # {}
  /\ Files \subseteq FileType /\ Settings \subseteq SettingType
  /\ Tables \subseteq SUBSET Schedule /\ Worlds \subseteq World
  /\ Default \in Nat /\ Day \in Nat \ {0} /\ MaxTime \in Nat /\ MaxJobs \in Nat
  /\ MaxEdits \in Nat /\ MaxMoves \in Nat

VARIABLES
  file, settings, schedules,   \* saved, and read again by every page
  world, now,
  job,      \* the running job: its file and settings, and what it has to probe
  obs,      \* the observation of every address
  jobs, edits, moves,          \* what is left of the bounds
  seen,     \* history: the network that the observation of an address saw
  last      \* history: whether the last probe of it that was recorded was answered

saved   == <<file, settings, schedules>>
bounds  == <<jobs, edits, moves>>
vars    == <<saved, world, now, job, obs, bounds, seen, last>>

NoJob == [is |-> "none"]
NoObs == [is |-> "none"]

-----------------------------------------------------------------------------
(* The inventory: build_inventory *)

Records(f, ip) == {r \in f.records : r.ip = ip}
Known(f)       == {r.ip : r \in f.records}

\* Records with a MAC are preferred to those without.
Preferred(f, ip) ==
  LET owned == {r \in Records(f, ip) : r.mac # NoMac} IN
  IF owned # {} THEN owned ELSE Records(f, ip)

MacsOf(f, ip) == {r.mac : r \in Preferred(f, ip)} \ {NoMac}

Conflict(f, ip) ==
  \/ Cardinality(MacsOf(f, ip)) > 1 \/ BadMac \in MacsOf(f, ip)
  \/ \E r \in Preferred(f, ip) : r.dns /\ r.name = NoName

Mac(f, ip) ==
  IF MacsOf(f, ip) = {} \/ Conflict(f, ip) THEN NoMac ELSE CHOOSE m \in MacsOf(f, ip) : TRUE

DnsNames(f, ip) == {r.name : r \in {q \in Preferred(f, ip) : q.dns}} \ {NoName}

\* expected_dns: every address whose group has the name.
Expected(f, name) == {ip \in Known(f) : name \in DnsNames(f, ip)}

-----------------------------------------------------------------------------
(* Checks *)

\* resolver_servers: of the most specific scope, if it names any.
Servers(c, ip) ==
  LET matches == {s \in c.scopes : ip \in s.on}
      best == CHOOSE s \in matches :
                \A t \in matches : Cardinality(s.on) <= Cardinality(t.on) IN
  IF matches = {} \/ best.servers = 0 THEN c.servers ELSE best.servers

\* Mutant: only the address's own records, not those that share its names.
OwnExpectations(f, c, ip) ==
  [member |-> ip \in f.declared, conflict |-> Conflict(f, ip), mac |-> Mac(f, ip),
   preferred |-> {<<r.name, r.dns, r.mac>> : r \in Preferred(f, ip)}]

\* Mutant: the whole file, as its revision identifies it.
WholeFile(f, c, ip) == [revision |-> f, servers |-> Servers(c, ip)]

\* expectation_fingerprint.
Fingerprint(f, c, ip) ==
  [member |-> ip \in f.declared, conflict |-> Conflict(f, ip), mac |-> Mac(f, ip),
   preferred |-> {<<r.name, r.dns, IF r.mac = BadMac THEN NoMac ELSE r.mac>>
                   : r \in Preferred(f, ip)},
   dns |-> [n \in DnsNames(f, ip) |-> Expected(f, n)],
   servers |-> IF DnsNames(f, ip) = {} THEN 0 ELSE Servers(c, ip)]

\* check_address, for a documented address; a ping alone for another.
Checked(f, c, w, ip, t) ==
  IF ip \in Known(f)
  THEN [is |-> "checked", at |-> t, up |-> ip \in w.up,
        mac |-> IF Mac(f, ip) = NoMac THEN NoMac ELSE w.arp[ip],
        dns |-> [n \in DnsNames(f, ip) |-> w.dns[Servers(c, ip)][n]],
        print |-> Fingerprint(f, c, ip)]
  ELSE [is |-> "pinged", at |-> t, up |-> ip \in w.up]

\* What the evidence of these very expectations says.
Judged(f, ip, o) ==
  LET names == DnsNames(f, ip)
      mac == Mac(f, ip) IN
  IF \/ \E n \in names : ~o.dns[n].error /\ o.dns[n].addresses # Expected(f, n)
     \/ mac # NoMac /\ o.mac \notin {NoMac, mac}
  THEN "mismatch"
  ELSE IF ~o.up \/ (mac # NoMac /\ o.mac = NoMac) \/ \E n \in names : o.dns[n].error
  THEN "incomplete" ELSE "matches"

\* reconcile.
Verdict(f, c, ip, o) ==
  IF Conflict(f, ip) THEN "conflict"
  ELSE IF o = NoObs THEN "unchecked"
  ELSE IF o.is = "pinged" THEN "stale"
  ELSE IF o.print # Fingerprint(f, c, ip) THEN "stale"
  ELSE Judged(f, ip, o)

-----------------------------------------------------------------------------
(* The row of an address *)

\* plan_targets: a schedule is planned within the inventory as it is; one that no
\* longer lies within the declared subnets covers nothing.
Planned(s, f) ==
  LET selected == IF s.all THEN f.declared ELSE s.target IN
  {ip \in selected : /\ selected \subseteq f.declared
                     /\ s.mode = "known-only" => ip \in Known(f)
                     /\ s.mode = "discovery-only" => ip \notin Known(f)}

Applicable(table, f, ip) == {s \in table : ip \in Planned(s, f)}

\* freshness_max_age: the override, or twice the shortest gap of an enabled
\* schedule whose plan holds the address.  A calendar's gap is that between the
\* occurrences around now, so that it differs from time to time.
MaxAge(ip) ==
  LET gaps == {s.gaps[now] : s \in Applicable(schedules, file, ip)} IN
  IF settings.maxAge # Never THEN settings.maxAge
  ELSE IF gaps = {} THEN Default
  ELSE 2 * (CHOOSE g \in gaps : \A h \in gaps : g <= h)

\* Mutant: the seconds of a time difference without its days.
SecondsOfDay(ip) == (now - obs[ip].at) % Day

Age(ip) == now - obs[ip].at

\* observation_freshness.  A timestamp of the future, which a clock that was set
\* back leaves, is stale; the program stores no malformed one.
TooOld(ip) == obs[ip] # NoObs /\ (Age(ip) < 0 \/ Age(ip) >= MaxAge(ip))

\* address_row.  Age hides neither a conflict nor an undocumented responder.
Row(ip) ==
  LET verdict == IF ip \in Known(file) THEN Verdict(file, settings, ip, obs[ip])
                 ELSE IF obs[ip] # NoObs /\ obs[ip].up THEN "responder" ELSE "unchecked" IN
  IF TooOld(ip) /\ verdict \notin {"conflict", "responder"} THEN "stale" ELSE verdict

\* The rows of the discoveries page.
Discoveries ==
  {ip \in file.declared \ Known(file) : obs[ip] # NoObs /\ obs[ip].up}

-----------------------------------------------------------------------------

Init ==
  /\ file \in Files /\ settings \in Settings /\ schedules \in Tables
  /\ world \in Worlds /\ now = 0 /\ job = NoJob
  /\ obs = [ip \in Addresses |-> NoObs] /\ seen = [ip \in Addresses |-> world]
  /\ last = [ip \in Addresses |-> FALSE]
  /\ jobs = MaxJobs /\ edits = MaxEdits /\ moves = MaxMoves

\* A job is planned within the declared addresses of the file as it is.
Start(targets) ==
  /\ job = NoJob /\ jobs > 0 /\ jobs' = jobs - 1
  /\ targets # {} /\ targets \subseteq file.declared
  /\ job' = [is |-> "running", file |-> file, settings |-> settings, todo |-> targets]
  /\ UNCHANGED <<saved, world, now, obs, edits, moves, seen, last>>

\* Mutant: silence leaves what was stored before.
KeepSilence(o, known, old) == IF o.up \/ known THEN o ELSE old

\* Silence of an undocumented address clears what was stored before.
Stored(o, known, old) == IF o.up \/ known THEN o ELSE NoObs

\* One target: _observe, then the consumer's set or delete, which succeeds.
Probe(ip) ==
  /\ job # NoJob /\ ip \in job.todo
  /\ LET o == Checked(job.file, job.settings, world, ip, now) IN
     /\ obs' = [obs EXCEPT ![ip] = Stored(o, ip \in Known(job.file), @)]
     /\ last' = [last EXCEPT ![ip] = o.up]
  /\ seen' = [seen EXCEPT ![ip] = world]
  /\ job' = [job EXCEPT !.todo = @ \ {ip}]
  /\ UNCHANGED <<saved, world, now, bounds>>

\* The probe is finished, but its result is discarded: its consumer was cancelled
\* while it waited for the shielded probe, or its set or delete fails.
Discards(ip) ==
  /\ job # NoJob /\ ip \in job.todo
  /\ job' = [job EXCEPT !.todo = @ \ {ip}]
  /\ UNCHANGED <<saved, world, now, obs, bounds, seen, last>>

\* Complete, cancelled or failed, whatever is left to do.
End ==
  /\ job # NoJob /\ job' = NoJob
  /\ UNCHANGED <<saved, world, now, obs, bounds, seen, last>>

\* A reviewed change or another program; saved options; an edited schedule.
Edit ==
  /\ edits > 0 /\ edits' = edits - 1
  /\ \/ \E f \in Files : file' = f /\ UNCHANGED <<settings, schedules>>
     \/ \E c \in Settings : settings' = c /\ UNCHANGED <<file, schedules>>
     \/ \E s \in Tables : schedules' = s /\ UNCHANGED <<file, settings>>
  /\ saved' # saved
  /\ UNCHANGED <<world, now, job, obs, jobs, moves, seen, last>>

Move ==
  /\ moves > 0 /\ moves' = moves - 1 /\ world' \in Worlds \ {world}
  /\ UNCHANGED <<saved, now, job, obs, jobs, edits, seen, last>>

Tick ==
  /\ now < MaxTime /\ now' = now + 1
  /\ UNCHANGED <<saved, world, job, obs, bounds, seen, last>>

\* The host's clock is set back.
SetBack ==
  /\ moves > 0 /\ moves' = moves - 1 /\ now' \in 0 .. now - 1
  /\ UNCHANGED <<saved, world, job, obs, jobs, edits, seen, last>>

Next ==
  \/ \E targets \in SUBSET Addresses : Start(targets)
  \/ \E ip \in Addresses : Probe(ip) \/ Discards(ip)
  \/ End \/ Edit \/ Move \/ Tick \/ SetBack

Spec == Init /\ [][Next]_vars

-----------------------------------------------------------------------------
(* Properties *)

\* Whatever was edited since, and during the job, a verdict that is shown is
\* the one that a check under today's file and settings would have given when
\* the evidence was collected: evidence collected under other expectations is
\* never judged, also when only another address's record has changed
\* (expectation_fingerprint, reconcile; README.md, "Relevant edits mark affected
\* evidence stale, including another address changing the same DNS answer set").
VerdictsHold ==
  \A ip \in Addresses : LET row == Row(ip) IN
    row \in {"matches", "mismatch", "incomplete"} =>
      row = Verdict(file, settings, ip, Checked(file, settings, seen[ip], ip, now))

\* An undocumented responder is one: the last probe of the address whose result
\* was recorded was answered, and a job that worked from an older file, in which
\* the address was documented or not yet, changes nothing in that; the discoveries
\* page shows those that are declared (consume's set and delete, address_row,
\* discoveries).  A silence that a cancelled or failing consumer discarded clears
\* nothing: the responder of the recorded probe before it is still shown.
RespondersAnswered ==
  \A ip \in Addresses : (Row(ip) = "responder" \/ ip \in Discoveries) =>
    last[ip] /\ ip \notin Known(file)

\* What an address's expectations and its age limit are made of.
Concerning(f, c, table, ip) ==
  <<ip \in f.declared, Records(f, ip), [n \in DnsNames(f, ip) |-> Expected(f, n)],
    IF DnsNames(f, ip) = {} THEN 0 ELSE Servers(c, ip),
    c.maxAge, Applicable(table, f, ip)>>

\* An edit of the file, the settings or the schedules that concerns other addresses
\* changes no row (README.md, "Unrelated comments/custom-field edits do not
\* invalidate otherwise current evidence").  An edit of the declared subnets
\* concerns every address whose schedules it invalidates.
UnrelatedEditsKeepRows ==
  [][\A ip \in Addresses :
       /\ saved' # saved /\ obs' = obs /\ now' = now
       /\ Concerning(file', settings', schedules', ip)
            = Concerning(file, settings, schedules, ip)
       => Row(ip)' = Row(ip)]_vars

\* As time goes on, a stale row is judged again only when the address has a new
\* observation, or after an edit; time alone does that only where the gaps of an
\* applicable calendar grow, or where the clock was set back and catches up with a
\* timestamp of the future (observation_freshness, freshness_max_age).
StaleUntilChecked ==
  [][\A ip \in Addresses :
       /\ now' > now /\ saved' = saved /\ obs'[ip] = obs[ip]
       /\ Row(ip) = "stale" /\ Age(ip) >= 0
       => \/ Row(ip)' = "stale"
          \/ \E s \in Applicable(schedules, file, ip) : s.gaps[now'] > s.gaps[now]]_vars

=============================================================================
