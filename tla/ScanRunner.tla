----------------------------- MODULE ScanRunner -----------------------------
(***************************************************************************)
(* ScanManager (scanner.py) on its event loop.  One action is one segment  *)
(* of code between two awaits: the runner task, its consumer tasks, the    *)
(* done-callbacks of their gather, the probe threads, and the requests     *)
(* that start or cancel a job.  Every SQLite transaction may fail, and the *)
(* process may die; of a segment with two transactions the failure of the  *)
(* second followed by Crash is the death between them.                     *)
(***************************************************************************)
EXTENDS Integers, FiniteSets, Sequences

CONSTANTS MaxJob, Retention,
          Addrs,         \* addresses, as numbers
          Concurrency,   \* AppConfig.scan_concurrency
          Threshold,     \* AppConfig.manual_scan_confirmation_threshold
          Requests,      \* what plan_targets yields: [plan, known, mode]
          MaxFaults,     \* bound: failing transactions and raising probes
          MaxCrashes     \* bound: deaths of the process

Modes   == {"full", "known-only", "discovery-only"}
Workers == 1 .. Concurrency

ASSUME RunnerAssumption ==
  /\ MaxJob \in Nat /\ Retention \in Nat /\ MaxFaults \in Nat /\ MaxCrashes \in Nat
  /\ Addrs \subseteq Nat /\ IsFiniteSet(Addrs)
  /\ Concurrency \in Nat \ {0}
  /\ Requests \subseteq [plan : SUBSET Addrs, known : SUBSET Addrs, mode : Modes]

VARIABLES
  row, stored,           \* jobs table: status and progress, by job
  obs, cover,            \* latest observation / discovery coverage: its job, by address
  phase,                 \* the process: up, closing (ScanManager.close) or down
  job, req, mem,         \* the job of the last runner, its request, its ScanJob fields
  todo,                  \* iter(plan): the addresses not yet taken
  runner, raising,       \* the runner task; whether it will re-raise a sqlite3.Error
  gather, gcan, must,    \* the outer gather; its and the runner's pending cancellation
  wpc, wip, wc, wend,    \* consumer tasks: position, address, cancelling(), outcome
  callbacks,             \* ended consumers whose done-callback has not run yet
  faults, crashes,       \* what is left of the bounds
  seen, plans            \* history: addresses whose evidence a job wrote; its plan

durable == <<row, stored, obs, cover>>
workers == <<wpc, wip, wc, wend, callbacks>>
task    == <<job, req, mem, todo, runner, raising, gather, gcan, must>>
bounds  == <<faults, crashes>>
history == <<seen, plans>>
vars    == <<durable, phase, task, workers, bounds, history>>


NoJob     == 0
NoRequest == [plan |-> {}, known |-> {}, mode |-> "full"]
NewJob    == [status |-> "queued", progress |-> 0, cancel |-> FALSE]
Busy      == runner \in {"created", "gather", "cleanup"}      \* ScanManager.busy
Probing   == {w \in Workers : wpc[w] = "probe"}               \* threads still running
Gone      == {"off", "reaped"}

\* The runner task, seen through `busy` and through the result() of _runner.
RunnerTask == IF phase = "down" THEN "down" ELSE IF Busy THEN "busy"
              ELSE IF runner = "raised" THEN "raised" ELSE "idle"

Promise == INSTANCE ScanJobs WITH status <- row, task <- RunnerTask
Jobs    == Promise!Jobs

\* RuntimeStore.save_job(asdict(job)) for the job in memory, with fields m.
SaveJob(m) == /\ row' = [row EXCEPT ![job] = m.status]
              /\ stored' = [stored EXCEPT ![job] = m.progress]
NoSave == UNCHANGED <<row, stored>>

\* n transactions of this step fail.
Failures(n) == n <= faults /\ faults' = faults - n /\ UNCHANGED crashes
Faultless   == Failures(0)
Fault       == Failures(1)

NoTask == /\ job' = NoJob /\ req' = NoRequest /\ mem' = NewJob /\ todo' = {}
          /\ runner' = "none" /\ raising' = FALSE
          /\ gather' = "pending" /\ gcan' = FALSE /\ must' = FALSE
NoWorkers == /\ wpc' = [w \in Workers |-> "off"] /\ wip' = [w \in Workers |-> 0]
             /\ wc' = [w \in Workers |-> FALSE] /\ wend' = [w \in Workers |-> "ok"]
             /\ callbacks' = <<>>

Init ==
  /\ row = [j \in Jobs |-> "absent"] /\ stored = [j \in Jobs |-> 0]
  /\ obs = [a \in Addrs |-> NoJob] /\ cover = [a \in Addrs |-> NoJob]
  /\ phase = "up"
  /\ job = NoJob /\ req = NoRequest /\ mem = NewJob /\ todo = {}
  /\ runner = "none" /\ raising = FALSE
  /\ gather = "pending" /\ gcan = FALSE /\ must = FALSE
  /\ wpc = [w \in Workers |-> "off"] /\ wip = [w \in Workers |-> 0]
  /\ wc = [w \in Workers |-> FALSE] /\ wend = [w \in Workers |-> "ok"]
  /\ callbacks = <<>>
  /\ faults = MaxFaults /\ crashes = MaxCrashes
  /\ seen = [j \in Jobs |-> {}] /\ plans = [j \in Jobs |-> {}]

-----------------------------------------------------------------------------
(* Requests: start_request, cancel *)

\* Mutant: a runner that raised is silently replaced.
StartOverRaised(r, approved) ==
  /\ phase = "up" /\ ~Busy
  /\ approved \/ Cardinality(r.plan) <= Threshold
  /\ \E j \in Jobs :
       /\ Promise!Fresh(row, j)
       /\ row' = [row EXCEPT ![j] = "queued"] /\ UNCHANGED stored
       /\ job' = j /\ plans' = [plans EXCEPT ![j] = r.plan]
  /\ req' = r /\ mem' = NewJob /\ todo' = r.plan
  /\ runner' = "created" /\ raising' = FALSE
  /\ gather' = "pending" /\ gcan' = FALSE /\ must' = FALSE
  /\ NoWorkers
  /\ UNCHANGED <<obs, cover, phase, bounds, seen>>

Start(r, approved) ==
  /\ phase = "up"
  /\ runner \in {"none", "done"}            \* a raised runner raises again here
  /\ approved \/ Cardinality(r.plan) <= Threshold
  /\ \E j \in Jobs :
       /\ Promise!Fresh(row, j)
       /\ row' = [row EXCEPT ![j] = "queued"] /\ UNCHANGED stored
       /\ job' = j /\ plans' = [plans EXCEPT ![j] = r.plan]
  /\ req' = r /\ mem' = NewJob /\ todo' = r.plan
  /\ runner' = "created" /\ raising' = FALSE
  /\ gather' = "pending" /\ gcan' = FALSE /\ must' = FALSE
  /\ NoWorkers
  /\ UNCHANGED <<obs, cover, phase, bounds, seen>>

Cancellable == Busy /\ ~mem.cancel

\* Task.cancel on the runner awaiting its gather: every live child is
\* cancelled, or, when none is left, the runner itself on its next step.
CancelTasks ==
  LET live == {w \in Workers : wpc[w] \notin {"off", "ended", "reaped"}} IN
  IF gather = "pending" /\ live # {}
  THEN /\ wc' = [w \in Workers |-> wc[w] \/ w \in live]
       /\ gcan' = TRUE /\ UNCHANGED must
  ELSE must' = TRUE /\ UNCHANGED <<wc, gcan>>

\* Mutant: the row says "cancelled" before the consumers are gone.
CancelSavesEnd ==
  /\ mem' = [mem EXCEPT !.cancel = TRUE]
  /\ SaveJob([mem EXCEPT !.status = "cancelled"])
  /\ IF mem.status = "running" THEN CancelTasks ELSE UNCHANGED <<wc, gcan, must>>
  /\ UNCHANGED <<obs, cover, job, req, todo, runner, raising, gather,
                 wpc, wip, wend, callbacks, history>>

CancelJob ==
  /\ mem' = [mem EXCEPT !.cancel = TRUE]
  /\ SaveJob(mem)
  /\ IF mem.status = "running" THEN CancelTasks ELSE UNCHANGED <<wc, gcan, must>>
  /\ UNCHANGED <<obs, cover, job, req, todo, runner, raising, gather,
                 wpc, wip, wend, callbacks, history>>

Cancel == phase = "up" /\ Cancellable /\ CancelJob /\ Faultless /\ UNCHANGED phase

\* save_job raises in cancel: the flag stays set, the runner is not cancelled.
CancelUnsaved ==
  /\ phase = "up" /\ Cancellable /\ Fault
  /\ mem' = [mem EXCEPT !.cancel = TRUE]
  /\ UNCHANGED <<durable, phase, job, req, todo, runner, raising, gather, gcan,
                 must, workers, history>>

-----------------------------------------------------------------------------
(* The runner task *)

\* The end of _run, after the consumers are gone: save_job, prune_jobs.  `last`
\* is the status saved before this step, n the transactions that failed in it.
Finish(m, raise, last, n) ==
  /\ mem' = m
  /\ \/ /\ Failures(n)
        /\ row' = Promise!Pruned([row EXCEPT ![job] = m.status])
        /\ stored' = [stored EXCEPT ![job] = m.progress]
        /\ runner' = IF raise THEN "raised" ELSE "done"
     \/ Failures(n + 1) /\ SaveJob(m) /\ runner' = "raised"  \* prune_jobs fails
     \/ /\ Failures(n + 1)                                   \* save_job fails
        /\ row' = [row EXCEPT ![job] = last] /\ UNCHANGED stored
        /\ runner' = "raised"
  /\ UNCHANGED <<obs, cover, phase, job, req, todo, raising, gather, gcan, must,
                 workers, history>>

With(s) == [mem EXCEPT !.status = s]

\* A job cancelled while queued, or with nothing to scan, ends at once; the latter
\* saves its coverage, of no address, which may fail.
RunnerSkips ==
  /\ runner = "created"
  /\ \/ mem.cancel /\ Finish(With("cancelled"), FALSE, "queued", 0)
     \/ ~mem.cancel /\ req.plan = {} /\ Finish(With("complete"), FALSE, "running", 0)
     \/ /\ ~mem.cancel /\ req.plan = {} /\ req.mode # "known-only"
        /\ Finish(With("failed"), TRUE, "running", 1)

RunnerSpawns ==
  /\ runner = "created" /\ ~mem.cancel /\ req.plan # {}
  /\ mem' = With("running") /\ SaveJob(With("running"))
  /\ wpc' = [w \in Workers |-> IF w <= Cardinality(req.plan) THEN "start" ELSE "off"]
  /\ runner' = "gather"
  /\ UNCHANGED <<obs, cover, phase, job, req, todo, raising, gather, gcan, must,
                 wip, wc, wend, callbacks, bounds, history>>

\* The first save_job raises: no consumers, the job ends failed.
RunnerFailsToStart ==
  /\ runner = "created" /\ ~mem.cancel
  /\ Finish(With("failed"), TRUE, "queued", 1)

\* The runner resumes from its gather, sets the outcome, and enters `finally`.
CleansUp(m, raise) ==
  /\ mem' = m /\ raising' = raise
  /\ runner' = "cleanup" /\ must' = FALSE
  /\ wc' = [w \in Workers |-> wc[w] \/ wpc[w] \notin {"off", "ended", "reaped"}]

Outcome == IF must THEN "cancelled" ELSE gather

Covers == IF req.mode = "known-only" THEN cover
          ELSE [a \in Addrs |-> IF a \in req.plan THEN job ELSE cover[a]]

\* Mutant: consumers that stopped at the flag pass for a complete scan.
CompletesCancelled ==
  /\ runner = "gather" /\ Outcome = "ok"
  /\ CleansUp(With("complete"), FALSE) /\ Faultless /\ UNCHANGED cover
  /\ UNCHANGED <<row, stored, obs, phase, job, req, todo, gather, gcan,
                 wpc, wip, wend, callbacks, history>>

\* Mutant: coverage is also saved for a cancelled scan.
CoversCancelled ==
  /\ runner = "gather" /\ Outcome = "ok"
  /\ CleansUp(With(IF mem.cancel THEN "cancelled" ELSE "complete"), FALSE)
  /\ Faultless /\ cover' = Covers
  /\ UNCHANGED <<row, stored, obs, phase, job, req, todo, gather, gcan,
                 wpc, wip, wend, callbacks, history>>

RunnerCompletes ==
  /\ runner = "gather" /\ Outcome = "ok"
  /\ \/ /\ mem.cancel
        /\ CleansUp(With("cancelled"), FALSE) /\ Faultless /\ UNCHANGED cover
     \/ /\ ~mem.cancel
        /\ CleansUp(With("complete"), FALSE) /\ Faultless
        /\ cover' = Covers
     \/ /\ ~mem.cancel /\ req.mode # "known-only"            \* coverage not saved
        /\ CleansUp(With("failed"), TRUE) /\ Fault /\ UNCHANGED cover
  /\ UNCHANGED <<row, stored, obs, phase, job, req, todo, gather, gcan,
                 wpc, wip, wend, callbacks, history>>

\* Mutant: the job's status is whatever ended the gather.
AbortsWithReason ==
  /\ runner = "gather" /\ gather # "pending" /\ Outcome # "ok"
  /\ CleansUp([With(Outcome) EXCEPT !.cancel = Outcome = "cancelled"], Outcome = "db")
  /\ UNCHANGED <<durable, phase, job, req, todo, gather, gcan,
                 wpc, wip, wend, callbacks, bounds, history>>

\* Mutant: `except Exception` alone, which CancelledError passes.
AbortsOnErrorsOnly ==
  /\ runner = "gather" /\ Outcome \in {"db", "other"}
  /\ CleansUp(With("failed"), Outcome = "db")
  /\ UNCHANGED <<durable, phase, job, req, todo, gather, gcan,
                 wpc, wip, wend, callbacks, bounds, history>>

RunnerAborts ==
  /\ runner = "gather" /\ gather # "pending" /\ Outcome # "ok"
  /\ IF Outcome = "cancelled"
     THEN CleansUp([With("cancelled") EXCEPT !.cancel = TRUE], FALSE)
     ELSE CleansUp(With("failed"), Outcome = "db")
  /\ UNCHANGED <<durable, phase, job, req, todo, gather, gcan,
                 wpc, wip, wend, callbacks, bounds, history>>

\* Mutant: `finally` does not await the consumers it cancelled.
FinishesAtOnce == runner = "cleanup" /\ Finish(mem, raising, row[job], 0)

\* Mutant: the last save_job is missing.
FinishesUnsaved ==
  /\ runner = "cleanup" /\ \A w \in Workers : wpc[w] \in Gone
  /\ runner' = IF raising THEN "raised" ELSE "done"
  /\ row' = Promise!Pruned(row) /\ Faultless
  /\ UNCHANGED <<mem, stored, obs, cover, phase, job, req, todo, raising, gather,
                 gcan, must, workers, history>>

RunnerFinishes ==
  /\ runner = "cleanup" /\ \A w \in Workers : wpc[w] \in Gone
  /\ Finish(mem, raising, row[job], 0)

-----------------------------------------------------------------------------
(* The consumer tasks, the done-callbacks of gather, the probe threads *)

Ends(w, how) ==
  /\ wpc' = [wpc EXCEPT ![w] = "ended"] /\ wend' = [wend EXCEPT ![w] = how]
  /\ callbacks' = Append(callbacks, w)
  /\ UNCHANGED <<wip, wc>>

\* `while not job.cancel_requested: ip = next(targets)`
LoopHead(w) ==
  \/ (mem.cancel \/ todo = {}) /\ Ends(w, "ok") /\ UNCHANGED todo
  \/ /\ ~mem.cancel
     /\ \E a \in todo :
          /\ \A b \in todo : a <= b
          /\ todo' = todo \ {a}
          /\ wip' = [wip EXCEPT ![w] = a]
     /\ wpc' = [wpc EXCEPT ![w] = "wait"]
     /\ UNCHANGED <<wc, wend, callbacks>>

WorkerStarts(w) ==
  /\ wpc[w] = "start" /\ ~wc[w]
  /\ LoopHead(w)
  /\ UNCHANGED <<durable, phase, job, req, mem, runner, raising, gather, gcan,
                 must, bounds, history>>

\* Through _start_lock and the pacing delay, and into the executor.
Admitted(w) ==
  /\ wpc[w] = "wait" /\ ~wc[w]
  /\ \/ mem.cancel /\ Ends(w, "ok")
     \/ /\ ~mem.cancel
        /\ wpc' = [wpc EXCEPT ![w] = "probe"] /\ UNCHANGED <<wip, wc, wend, callbacks>>
  /\ UNCHANGED <<durable, phase, task, bounds, history>>

\* The thread returns, whether or not its consumer was cancelled meanwhile.
ProbeReturns(w) ==
  /\ wpc[w] = "probe"
  /\ wpc' = [wpc EXCEPT ![w] = "probed"]
  /\ UNCHANGED <<durable, phase, task, wip, wc, wend, callbacks, bounds, history>>

\* Mutant: silence leaves earlier evidence in place.
KeepsSilent(w, answered) ==
  /\ obs' = [obs EXCEPT ![wip[w]] = IF answered \/ wip[w] \in req.known THEN job ELSE @]
  /\ seen' = [seen EXCEPT ![job] = @ \cup {wip[w]}]

\* store.set or store.delete of the observation of w's address.
Evidence(w, answered) ==
  /\ obs' = [obs EXCEPT ![wip[w]] =
               IF answered \/ wip[w] \in req.known THEN job ELSE NoJob]
  /\ seen' = [seen EXCEPT ![job] = @ \cup {wip[w]}]

Records(w, answered) ==
  LET m == [mem EXCEPT !.progress = @ + 1] IN
  /\ wpc[w] = "probed" /\ ~wc[w]
  /\ Evidence(w, answered)
  /\ mem' = m
  /\ \/ SaveJob(m) /\ LoopHead(w) /\ Faultless
     \/ NoSave /\ Ends(w, "db") /\ Fault /\ UNCHANGED todo
  /\ UNCHANGED <<cover, phase, job, req, runner, raising, gather, gcan, must, plans>>

\* Mutant: progress is counted before the evidence is written.
CountsFirst(w, how) ==
  /\ wpc[w] = "probed" /\ ~wc[w]
  /\ Fault /\ Ends(w, how)
  /\ mem' = [mem EXCEPT !.progress = @ + 1]
  /\ UNCHANGED <<durable, phase, job, req, todo, runner, raising, gather, gcan, must,
                 history>>

\* The probe raised ("other"), or the observation could not be written ("db").
RecordFails(w, how) ==
  /\ wpc[w] = "probed" /\ ~wc[w]
  /\ Fault /\ Ends(w, how)
  /\ UNCHANGED <<durable, phase, task, history>>

\* Mutant: the wait for admission swallows the cancellation.
CancelledOutsideWait(w) ==
  /\ wpc[w] \in {"start", "probed"} /\ wc[w]
  /\ Ends(w, "cancelled")
  /\ UNCHANGED <<durable, phase, task, bounds, history>>

\* CancelledError reaches the consumer; inside _observe only after the probe.
WorkerCancelled(w) ==
  /\ wpc[w] \in {"start", "wait", "probed"} /\ wc[w]
  /\ Ends(w, "cancelled")
  /\ UNCHANGED <<durable, phase, task, bounds, history>>

\* gather's _done_callback: the first error or cancellation wakes the runner,
\* otherwise the last consumer does.
Reap ==
  /\ callbacks # <<>>
  /\ LET w == Head(callbacks) IN
       /\ wpc' = [wpc EXCEPT ![w] = "reaped"]
       /\ gather' = IF gather # "pending" THEN gather
                    ELSE IF wend[w] # "ok" THEN wend[w]
                    ELSE IF \E v \in Workers \ {w} : wpc[v] \notin Gone THEN "pending"
                    ELSE IF gcan THEN "cancelled" ELSE "ok"
  /\ callbacks' = Tail(callbacks)
  /\ UNCHANGED <<durable, phase, job, req, mem, todo, runner, raising, gcan, must,
                 wip, wc, wend, bounds, history>>

-----------------------------------------------------------------------------
(* close, death and restart of the process *)

\* A save_job that raises here ends the process as Crash does.
Close ==
  /\ phase = "up" /\ phase' = "closing"
  /\ IF Cancellable THEN CancelJob
     ELSE UNCHANGED <<durable, task, workers, history>>
  /\ Faultless

Down == phase' = "down" /\ NoTask /\ NoWorkers /\ UNCHANGED <<durable, history>>

\* `await self._runner` returned or raised; the store is closed next.
CloseReturns == phase = "closing" /\ ~Busy /\ Down /\ Faultless

Crash == phase # "down" /\ crashes > 0 /\ crashes' = crashes - 1 /\ UNCHANGED faults /\ Down

\* Mutant: live rows of the last process are left as they are.
RestartKeepsLive ==
  /\ phase = "down" /\ phase' = "up"
  /\ row' = Promise!Pruned(row)
  /\ UNCHANGED <<stored, obs, cover, task, workers, bounds, history>>

\* The lifespan: RuntimeStore.initialize, then the ScanManager constructor.
Restart ==
  /\ phase = "down" /\ phase' = "up"
  /\ row' = Promise!Pruned(Promise!Interrupted(row))
  /\ UNCHANGED <<stored, obs, cover, task, workers, bounds, history>>

-----------------------------------------------------------------------------

Runner == \/ RunnerSkips \/ RunnerSpawns \/ RunnerFailsToStart
          \/ RunnerCompletes \/ RunnerAborts \/ RunnerFinishes

Worker(w) == \/ WorkerStarts(w) \/ Admitted(w) \/ WorkerCancelled(w)
             \/ \E b \in BOOLEAN : Records(w, b)
             \/ \E how \in {"db", "other"} : RecordFails(w, how)

Next == \/ \E r \in Requests, ok \in BOOLEAN : Start(r, ok)
        \/ Cancel \/ CancelUnsaved
        \/ Runner
        \/ \E w \in Workers : Worker(w) \/ ProbeReturns(w)
        \/ Reap
        \/ Close \/ CloseReturns \/ Crash \/ Restart

\* The event loop runs what is ready, and a probe has a timeout (check_ping,
\* the resolver's lifetime), so its thread returns.  Nothing makes a user act
\* or a dead process restart.
Fairness == /\ WF_vars(Runner) /\ WF_vars(Reap) /\ WF_vars(CloseReturns)
            /\ \A w \in Workers : WF_vars(Worker(w)) /\ WF_vars(ProbeReturns(w))

Spec     == Init /\ [][Next]_vars
FairSpec == Spec /\ Fairness

-----------------------------------------------------------------------------
(* Properties *)

TypeOK ==
  /\ row \in [Jobs -> Promise!Status] /\ stored \in [Jobs -> Nat]
  /\ obs \in [Addrs -> Jobs \cup {NoJob}] /\ cover \in [Addrs -> Jobs \cup {NoJob}]
  /\ phase \in {"up", "closing", "down"}
  /\ job \in Jobs \cup {NoJob}
  /\ req \in [plan : SUBSET Addrs, known : SUBSET Addrs, mode : Modes]
  /\ mem \in [status : {"queued", "running", "complete", "cancelled", "failed"},
              progress : Nat, cancel : BOOLEAN]
  /\ todo \in SUBSET Addrs
  /\ runner \in {"none", "created", "gather", "cleanup", "done", "raised"}
  /\ raising \in BOOLEAN /\ gcan \in BOOLEAN /\ must \in BOOLEAN
  /\ gather \in {"pending", "ok", "cancelled", "db", "other"}
  /\ wpc \in [Workers -> {"off", "start", "wait", "probe", "probed", "ended", "reaped"}]
  /\ wip \in [Workers -> Addrs \cup {0}] /\ wc \in [Workers -> BOOLEAN]
  /\ wend \in [Workers -> {"ok", "cancelled", "db", "other"}]
  /\ callbacks \in Seq(Workers)
  /\ faults \in Nat /\ crashes \in Nat
  /\ seen \in [Jobs -> SUBSET Addrs] /\ plans \in [Jobs -> SUBSET Addrs]

\* "Graceful shutdown cancels active work and awaits outstanding probes"
\* (README.md:26): however a run ends, by completion, cancellation, error or
\* shutdown, no probe thread of it is still working once its task is done.
NoOrphanProbes == ~Busy => Probing = {}

\* A row that says "complete" is true of the evidence: the job wrote the result
\* of every address of its plan, whatever the consumers' interleaving, late
\* cancellation, errors and crashes.
CompleteIsComplete ==
  \A j \in Jobs : row[j] = "complete" => seen[j] = plans[j]

\* Progress shown for a job never runs ahead of the evidence it has written,
\* also after a crash between the two transactions of a consumer, and counts
\* all of it when the job is complete.
ProgressIsBacked ==
  \A j \in Jobs : /\ stored[j] <= Cardinality(seen[j])
                  /\ row[j] = "complete" => stored[j] = Cardinality(seen[j])

\* Discovery coverage is only claimed by a job that recorded every address of
\* its plan, the covered address included.
CoverageIsBacked ==
  \A a \in Addrs : cover[a] # NoJob => /\ a \in seen[cover[a]]
                                       /\ seen[cover[a]] = plans[cover[a]]

\* "Silence must clear earlier undocumented responder evidence" (scanner.py:176):
\* no observation kept at a covered address is older than its coverage.
CoverageIsFresh == \A a \in Addrs : obs[a] # NoJob => obs[a] >= cover[a]

\* While the process is up, a row that is still queued or running belongs to
\* the live runner, or to one that raised, after which no job starts.
LiveIsCurrent ==
  phase = "up" => \A j \in Jobs : row[j] \in Promise!Live => j = job /\ runner # "done"

\* Once a row says its job has ended, that job writes no evidence any more,
\* even while its consumers are still being cleaned up.
QuietAfterEnd ==
  [][\A j \in Jobs : row[j] \in Promise!Terminal => seen'[j] = seen[j]]_vars

\* The runner implements the abstract life of the jobs table: a job starts only
\* when the last one is over and its row ended, an ended row never changes its
\* status except to be pruned, and after a raised failure nothing starts.
RefinesScanJobs == Promise!Spec

\* Every run ends, with its probes, cancellation and failures (or the process
\* dies): no await of the runner is forever.
RunsEnd == Busy ~> ~Busy

\* ScanManager.close returns, so that shutdown is never stuck behind a scan.
CloseEnds == phase = "closing" ~> phase # "closing"

\* Every accepted job gets a terminal row, unless the process dies first or the
\* runner raised the storage failure that kept it from writing one.
RowsEnd ==
  \A j \in Jobs : row[j] \in Promise!Live ~>
                    (row[j] \notin Promise!Live \/ phase = "down" \/ runner = "raised")

\* "Surface storage failures instead of silently replacing the task"
\* (scanner.py:82): a run in which a consumer's transaction failed raises.
StorageFailureSurfaces == (\E w \in Workers : wend[w] = "db") => runner # "done"
=============================================================================
