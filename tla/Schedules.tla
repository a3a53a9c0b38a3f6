----------------------------- MODULE Schedules -----------------------------
(***************************************************************************)
(* ScheduleManager (schedules.py): schedules in SQLite, and one task that  *)
(* ticks over them in id order and starts jobs on the scan manager, which  *)
(* is ScanJobs here.  A tick and the recovery at startup are one event-    *)
(* loop segment each, so nothing interleaves with them; but every schedule *)
(* is saved in a transaction of its own, which may fail, or be the last    *)
(* one before the process dies.                                            *)
(***************************************************************************)
EXTENDS Integers, FiniteSets

CONSTANTS MaxJob, Retention,
          Count,        \* schedules, numbered in the order of their ids
          Definitions,  \* what an administrator may define each schedule as
          MaxTime,      \* bound of the clock
          MaxRequests,  \* bound: updates, deletions, and jobs started by hand
          MaxFaults,    \* bound: failing dispatches and transactions
          MaxCrashes    \* bound: deaths of the process

DefinitionRecord ==
  [kind : {"interval", "calendar"}, every : Nat \ {0}, on : SUBSET Nat]

ASSUME SchedulesAssumption ==
  /\ MaxJob \in Nat /\ Retention \in Nat /\ Count \in Nat /\ MaxTime \in Nat
  /\ MaxRequests \in Nat /\ MaxFaults \in Nat /\ MaxCrashes \in Nat
  /\ Definitions \in [1 .. Count -> SUBSET DefinitionRecord]
  /\ \A s \in 1 .. Count : \A d \in Definitions[s] :
       d.kind = "calendar" => \A t \in 0 .. MaxTime : \E u \in d.on : u > t

VARIABLES
  status, task,        \* the jobs table and the runner, as in ScanJobs
  owner,               \* the schedule_id of every job
  sched,               \* the schedules table
  manager,             \* off, recovering, running, dead (tick raised), closed
  cursor,              \* the schedule a tick or the recovery is at; 0 outside
  now,                 \* the clock: UTC, and assumed not to go back
  requests, faults, crashes,          \* what is left of the bounds
  since,   \* history: the last trigger tried, or a later edit or restart
  cut,     \* history: the newest job when the schedule was edited last
  outcome, \* history: the last status of a job before it was pruned
  errs     \* history: dispatches that started no job

scanner == <<status, task, outcome>>
bounds  == <<requests, faults, crashes>>
vars    == <<scanner, owner, sched, manager, cursor, now, bounds, since, cut, errs>>

Scanner == INSTANCE ScanJobs
Jobs    == Scanner!Jobs
Ids     == 1 .. Count
NoJob   == 0
Manual  == 0      \* the owner of a job started by hand
Never   == -1

-----------------------------------------------------------------------------
(* Trigger times *)

\* next_trigger: the first trigger strictly after t.  A calendar definition is
\* the set of instants its local time names (gaps and repeats are resolved).
NextTrigger(d, t) ==
  IF d.kind = "interval" THEN t + d.every
  ELSE CHOOSE u \in d.on : u > t /\ \A v \in d.on : v > t => u <= v

\* Mutant: one interval on, so that missed triggers come one after the other.
AdvanceByOne(d, due) ==
  IF d.kind = "interval" THEN due + d.every ELSE NextTrigger(d, now)

\* _advance: past now, whatever was missed.
Advance(d, due) ==
  IF d.kind = "interval" THEN due + d.every * ((now - due) \div d.every + 1)
  ELSE NextTrigger(d, now)

-----------------------------------------------------------------------------

NoSchedule == [is |-> "new", enabled |-> FALSE, status |-> "disabled",
               pending |-> FALSE, last |-> Never, next |-> Never, job |-> NoJob,
               error |-> FALSE, failures |-> 0,
               def |-> [kind |-> "interval", every |-> 1, on |-> {}]]

Init ==
  /\ Scanner!Init
  /\ owner = [j \in Jobs |-> Manual] /\ outcome = [j \in Jobs |-> "absent"]
  /\ sched = [s \in Ids |-> NoSchedule]
  /\ manager = "running" /\ cursor = 0 /\ now = 0
  /\ requests = MaxRequests /\ faults = MaxFaults /\ crashes = MaxCrashes
  /\ since = [s \in Ids |-> 0] /\ cut = [s \in Ids |-> NoJob]
  /\ errs = [s \in Ids |-> 0]

\* A step of the scan manager, with the history of its rows.
Scans(A) ==
  /\ A
  /\ outcome' = [j \in Jobs |-> IF status'[j] = "pruned" /\ status[j] # "absent"
                                THEN outcome[j] ELSE status'[j]]
NoScan == UNCHANGED scanner

Serving == manager \in {"running", "dead"} /\ cursor = 0   \* the event loop is free
Kept(s) == sched[s].is = "kept"                            \* ids are not reused
Save(s, r) == sched' = [sched EXCEPT ![s] = r]
Newest == CHOOSE n \in Jobs \cup {NoJob} : \A j \in Jobs : status[j] # "absent" <=> j <= n

-----------------------------------------------------------------------------
(* The administrator's requests, manual jobs, the scan manager, the clock *)

Create(s, d) ==
  /\ Serving /\ sched[s].is = "new"
  /\ Save(s, [NoSchedule EXCEPT !.is = "kept", !.def = d])
  /\ NoScan /\ UNCHANGED <<owner, manager, cursor, now, bounds, since, cut, errs>>

Request ==
  /\ Serving /\ requests > 0
  /\ requests' = requests - 1 /\ UNCHANGED <<faults, crashes>>

\* update; toggle is an update that keeps the definition.
Update(s, d, enabled) ==
  /\ Request /\ Kept(s)
  /\ Save(s, [sched[s] EXCEPT !.def = d, !.enabled = enabled, !.pending = FALSE,
                !.next = IF enabled THEN NextTrigger(d, now) ELSE Never,
                !.status = IF enabled THEN "idle" ELSE "disabled", !.error = FALSE])
  /\ since' = [since EXCEPT ![s] = now] /\ cut' = [cut EXCEPT ![s] = Newest]
  /\ NoScan /\ UNCHANGED <<owner, manager, cursor, now, errs>>

Delete(s) ==
  /\ Request /\ Kept(s)
  /\ Save(s, [NoSchedule EXCEPT !.is = "deleted"])
  /\ NoScan /\ UNCHANGED <<owner, manager, cursor, now, since, cut, errs>>

StartManual(j) ==
  /\ Request
  /\ Scans(Scanner!Submit(j))
  /\ UNCHANGED <<owner, sched, manager, cursor, now, since, cut, errs>>

Scan ==
  /\ manager # "off" /\ cursor = 0
  /\ \/ Scans(Scanner!Progress \/ Scanner!Finish) /\ UNCHANGED bounds
     \/ /\ Scans(Scanner!Raise)
        /\ faults > 0 /\ faults' = faults - 1 /\ UNCHANGED <<requests, crashes>>
  /\ UNCHANGED <<owner, sched, manager, cursor, now, since, cut, errs>>

Passes ==
  /\ cursor = 0 /\ now < MaxTime /\ now' = now + 1
  /\ NoScan /\ UNCHANGED <<owner, sched, manager, cursor, bounds, since, cut, errs>>

-----------------------------------------------------------------------------
(* tick *)

TickBegins ==
  /\ manager = "running" /\ cursor = 0 /\ Count > 0
  /\ cursor' = 1
  /\ NoScan /\ UNCHANGED <<owner, sched, manager, now, bounds, since, cut, errs>>

\* The loop goes on to the next schedule, and then to sleep.
Continues == cursor' = IF cursor = Count THEN 0 ELSE cursor + 1

\* Mutant: a queued run counts as over.
HarvestsQueued(r) ==
  IF r.status # "running" \/ r.job = NoJob THEN r
  ELSE IF status[r.job] = "running" THEN r
  ELSE IF status[r.job] = "complete" THEN [r EXCEPT !.status = "idle"]
  ELSE [r EXCEPT !.status = "failed", !.failures = @ + 1, !.error = TRUE]

\* Mutant: a cancelled run is not judged.
HarvestsUncancelled(r) ==
  IF r.status # "running" \/ r.job = NoJob THEN r
  ELSE IF status[r.job] \in Scanner!Live \cup {"cancelled"} THEN r
  ELSE IF status[r.job] = "complete" THEN [r EXCEPT !.status = "idle"]
  ELSE [r EXCEPT !.status = "failed", !.failures = @ + 1, !.error = TRUE]

\* The outcome of a run that is over; a row that is gone counts as a failure.
Harvested(r) ==
  IF r.status # "running" \/ r.job = NoJob THEN r
  ELSE IF status[r.job] \in Scanner!Live THEN r
  ELSE IF status[r.job] = "complete" THEN [r EXCEPT !.status = "idle"]
  ELSE [r EXCEPT !.status = "failed", !.failures = @ + 1, !.error = TRUE]

\* One pending trigger, however many were missed.
Triggered(r) ==
  IF r.next > now THEN r
  ELSE [r EXCEPT !.pending = TRUE, !.last = r.next, !.next = Advance(r.def, r.next)]

Seen(s) == Triggered(Harvested(sched[s]))

Skips ==
  /\ manager = "running" /\ cursor # 0 /\ ~sched[cursor].enabled
  /\ Continues
  /\ NoScan /\ UNCHANGED <<owner, sched, manager, now, bounds, since, cut, errs>>

Visiting == manager = "running" /\ cursor # 0 /\ sched[cursor].enabled
Tried(r) == since' = [since EXCEPT ![cursor] = r.last]

\* Mutant: a trigger that finds the scanner busy is dropped.
VisitsDropping ==
  /\ Visiting
  /\ LET r == Seen(cursor) IN
       /\ ~r.pending \/ task = "busy"
       /\ Save(cursor, [r EXCEPT !.pending = FALSE])
  /\ Continues
  /\ NoScan /\ UNCHANGED <<owner, manager, now, bounds, since, cut, errs>>

\* Nothing to start, or not now.
Visits ==
  /\ Visiting
  /\ LET r == Seen(cursor) IN
       \/ ~r.pending /\ Save(cursor, r)
       \/ /\ r.pending /\ task = "busy"
          /\ Save(cursor, IF r.status = "running" THEN r ELSE [r EXCEPT !.status = "pending"])
  /\ Continues
  /\ NoScan /\ UNCHANGED <<owner, manager, now, bounds, since, cut, errs>>

\* start_request takes the job: its row is in the table.
Dispatched(r, j) ==
  /\ r.pending
  /\ Scans(Scanner!Submit(j))
  /\ owner' = [owner EXCEPT ![j] = cursor]
  /\ Tried(r)

Dispatches(j) ==
  /\ Visiting
  /\ LET r == Seen(cursor) IN
       /\ Dispatched(r, j)
       /\ Save(cursor, [r EXCEPT !.pending = FALSE, !.status = "running",
                                 !.job = j, !.error = FALSE])
  /\ Continues
  /\ UNCHANGED <<manager, now, bounds, cut, errs>>

\* The inventory, the target or the scan manager refuses: no retry.
DispatchFails ==
  /\ Visiting
  /\ LET r == Seen(cursor) IN
       /\ r.pending
       /\ \/ task = "raised" /\ UNCHANGED faults
          \/ task = "idle" /\ faults > 0 /\ faults' = faults - 1
       /\ Tried(r)
       /\ Save(cursor, [r EXCEPT !.pending = FALSE, !.status = "failed", !.error = TRUE,
                                 !.failures = @ + 1])
  /\ errs' = [errs EXCEPT ![cursor] = @ + 1]
  /\ Continues
  /\ NoScan /\ UNCHANGED <<owner, manager, now, requests, crashes, cut>>

\* save_schedule raises, with the job started or not: the task is over.  With
\* Dies next, this is the death between save_job and save_schedule.
SaveFails ==
  /\ Visiting /\ faults > 0 /\ faults' = faults - 1
  /\ \/ \E j \in Jobs : Dispatched(Seen(cursor), j)
     \/ NoScan /\ UNCHANGED <<owner, since>>
  /\ manager' = "dead" /\ cursor' = 0
  /\ UNCHANGED <<sched, now, requests, crashes, cut, errs>>

-----------------------------------------------------------------------------
(* Shutdown, death, restart *)

\* The lifespan closes the schedules first, then the scan manager.
Closes ==
  /\ Serving /\ manager' = "closed"
  /\ NoScan /\ UNCHANGED <<owner, sched, cursor, now, bounds, since, cut, errs>>

Dies ==
  /\ \/ manager = "closed" /\ task # "busy" /\ UNCHANGED crashes
     \/ manager # "off" /\ crashes > 0 /\ crashes' = crashes - 1
  /\ Scans(Scanner!Die)
  /\ manager' = "off" /\ cursor' = 0
  /\ UNCHANGED <<owner, sched, now, requests, faults, since, cut, errs>>

\* RuntimeStore.initialize and the ScanManager constructor; then _recover.
Restarts ==
  /\ manager = "off" /\ Scans(Scanner!Recover)
  /\ IF Count = 0 THEN manager' = "running" /\ cursor' = 0
     ELSE manager' = "recovering" /\ cursor' = 1
  /\ UNCHANGED <<owner, sched, now, bounds, since, cut, errs>>

Judged(r) == r.job # NoJob /\ status[r.job] \in {"interrupted", "failed", "cancelled"}

\* The next trigger after a restart: what was missed is skipped.
ResumedNext(r) ==
  IF ~r.enabled THEN Never
  ELSE IF r.next = Never THEN NextTrigger(r.def, now)
  ELSE IF r.next <= now THEN Advance(r.def, r.next) ELSE r.next

\* Mutants: the pending trigger survives; the last status is restored whatever
\* it was; the run is judged again at each restart; its error is not shown.
ResumedPending(r) ==
  [r EXCEPT !.next = ResumedNext(r), !.status = IF r.enabled THEN "idle" ELSE "disabled"]
ResumedStatus(r) ==
  [r EXCEPT !.pending = FALSE, !.next = ResumedNext(r),
            !.status = IF r.job = NoJob THEN "idle" ELSE status[r.job]]
ResumedTwice(r) ==
  [r EXCEPT !.pending = FALSE, !.next = ResumedNext(r),
            !.status = IF ~r.enabled THEN "disabled"
                       ELSE IF Judged(r) THEN status[r.job] ELSE "idle",
            !.error = @ \/ Judged(r),
            !.failures = IF Judged(r) THEN @ + 1 ELSE @]
ResumedSilently(r) ==
  [r EXCEPT !.pending = FALSE, !.next = ResumedNext(r),
            !.status = IF r.enabled THEN "idle" ELSE "disabled"]

\* One round of _recover: the schedule waits again, and its last run is judged.
Resumed(r) ==
  [r EXCEPT !.pending = FALSE, !.next = ResumedNext(r),
            !.status = IF ~r.enabled THEN "disabled"
                       ELSE IF Judged(r) THEN status[r.job] ELSE "idle",
            !.error = @ \/ Judged(r),
            !.failures = IF Judged(r) /\ r.status = "running" THEN @ + 1 ELSE @]

Recovers ==
  /\ manager = "recovering"
  /\ Save(cursor, IF Kept(cursor) THEN Resumed(sched[cursor]) ELSE sched[cursor])
  /\ since' = IF Kept(cursor) THEN [since EXCEPT ![cursor] = now] ELSE since
  /\ Continues
  /\ manager' = IF cursor = Count THEN "running" ELSE "recovering"
  /\ NoScan /\ UNCHANGED <<owner, now, bounds, cut, errs>>

-----------------------------------------------------------------------------

Tick == TickBegins \/ Skips \/ Visits \/ (\E j \in Jobs : Dispatches(j)) \/ DispatchFails

Next ==
  \/ \E s \in Ids :
       \/ \E d \in Definitions[s] : Create(s, d) \/ \E b \in BOOLEAN : Update(s, d, b)
       \/ Delete(s)
  \/ \E j \in Jobs : StartManual(j)
  \/ Scan \/ Passes
  \/ Tick \/ SaveFails
  \/ Closes \/ Dies \/ Restarts \/ Recovers

\* The task ticks every half second, and a run ends (ScanRunner!RunsEnd), in
\* the time between ticks.
Fairness == WF_vars(Tick) /\ WF_vars(Recovers) /\ SF_vars(Scan /\ task' # "busy")

Spec     == Init /\ [][Next]_vars
FairSpec == Spec /\ Fairness

-----------------------------------------------------------------------------
(* Properties *)

Record == [is : {"new", "kept", "deleted"}, enabled : BOOLEAN,
           status : {"disabled", "idle", "pending", "running", "failed", "interrupted", "cancelled"},
           pending : BOOLEAN, last : Nat \cup {Never}, next : Nat \cup {Never},
           job : Jobs \cup {NoJob}, error : BOOLEAN, failures : Nat,
           def : DefinitionRecord]

TypeOK ==
  /\ Scanner!TypeOK
  /\ owner \in [Jobs -> Ids \cup {Manual}] /\ outcome \in [Jobs -> Scanner!Status]
  /\ sched \in [Ids -> Record]
  /\ manager \in {"off", "recovering", "running", "dead", "closed"}
  /\ cursor \in Ids \cup {0} /\ now \in Nat
  /\ requests \in Nat /\ faults \in Nat /\ crashes \in Nat
  /\ since \in [Ids -> Nat] /\ cut \in [Ids -> Jobs \cup {NoJob}]
  /\ errs \in [Ids -> Nat]

Attempt(s) == \/ errs'[s] # errs[s]
              \/ \E j \in Jobs : status[j] = "absent" /\ status'[j] = "queued" /\ owner'[j] = s

\* "coalesce while busy ... Downtime does not trigger catch-up" (README.md:42-43)
\* and "errors do not cause retries every polling tick" (schedules.py:234): a
\* schedule is dispatched only for a trigger later than every one it was
\* dispatched for before, than its last edit, and than the last restart, so each
\* trigger is tried at most once and nothing missed is made up for.
NoCatchUp == [][\A s \in Ids : Attempt(s) => since'[s] > since[s]]_vars

\* No run is blamed twice, and none that completed: the failures of a schedule
\* are at most its failed dispatches and its failed, cancelled and interrupted
\* runs, whichever of tick and restart judged them.  A run whose row was pruned
\* may have been blamed unseen ("Last job summary unavailable").
FailuresAreReal ==
  \A s \in Ids :
    sched[s].failures <=
      errs[s] + Cardinality({j \in Jobs : /\ owner[j] = s
                                          /\ \/ outcome[j] \in {"failed", "cancelled", "interrupted"}
                                             \/ status[j] = "pruned"})

\* While the scheduler lives, the run a schedule started is the one it shows:
\* no run works unseen by its schedule, unless the schedule was edited meanwhile.
RunsAreShown ==
  manager = "running" /\ cursor = 0 =>
    \A j \in Jobs :
      LET s == owner[j] IN
      /\ status[j] \in Scanner!Live /\ task = "busy" /\ s # Manual
      /\ Kept(s) /\ j > cut[s]
      => sched[s].status = "running" /\ sched[s].job = j

\* A run a schedule recorded, and that the process left unfinished, is shown as
\* an error by the schedule until it runs again or is edited.
InterruptionsAreShown ==
  manager = "running" /\ cursor = 0 =>
    \A s \in Ids : LET j == sched[s].job IN
      Kept(s) /\ j > cut[s] /\ status[j] = "interrupted" => sched[s].error

\* "Jobs and schedules remain visibly incomplete/failed after interruption"
\* (IMPLEMENTATION_PLAN.md:231): the same of the last run a schedule started,
\* whether or not the schedule had recorded it.
InterruptedRunsAreShown ==
  manager = "running" /\ cursor = 0 =>
    \A j \in Jobs :
      LET s == owner[j] IN
      /\ status[j] = "interrupted" /\ s # Manual
      /\ \A k \in Jobs : owner[k] = s => k <= j
      /\ Kept(s) /\ j > cut[s]
      => sched[s].error

\* "Coalesce repeated triggers for the same schedule instead of building an
\* unbounded backlog" (DESIGN.md:161): what a tick or the recovery has passed has
\* its next trigger in the future, however many it missed, and what is pending
\* is one trigger of the past.
Coalesced ==
  \A s \in Ids :
    /\ sched[s].pending => sched[s].last \in 0 .. now
    /\ sched[s].enabled /\ s < cursor => sched[s].next > now

\* Each due trigger is tried, or falls to a later trigger, edit or restart,
\* unless the process or the scheduler task dies.
DueIsServed ==
  \A s \in Ids, t \in 1 .. MaxTime :
    sched[s].enabled /\ sched[s].next = t /\ t <= now
      ~> since[s] >= t \/ ~Kept(s) \/ manager # "running"

\* The end of a scheduled run is noticed: "running" never outlives it for good.
\* A runner that raised can leave its row live, and then only the next trigger,
\* which it fails, ends the schedule's "running".
RunsAreJudged ==
  \A s \in Ids :
    sched[s].status = "running"
      ~> sched[s].status # "running" \/ manager # "running" \/ task = "raised"
=============================================================================
