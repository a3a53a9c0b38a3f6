# A TLA+ verification of netinfra_ipman

netinfra_ipman is a FastAPI application that reads an inventory of networks and
hosts (a *NetInfra* YAML file), scans the documented and declared addresses with
ping and DNS, shows what it finds, and lets reviewed changes be written back to
the file, with backups and optional Git commits. This directory holds TLA+
models of its stateful parts, the TLC configurations that check them, and
theorems about them that TLAPS proves.

Paths below are relative to `src/netinfra_ipman/`. `PROJECT.json` maps every
definition to the lines it models, and lists components, runs, mutants,
hazards, findings and theorems.

## 1. The system

The server is one process with one asyncio event loop. Code between two
`await`s is atomic with respect to other handlers. Probes, host writes, and
password work run in threads (`asyncio.to_thread`). Durable state is a SQLite
database (each `with self._db` is a transaction), the NetInfra file, its backup
directory, a Git checkout, the configuration file, and the credential file.

| Component | Source | State | Operations |
|---|---|---|---|
| Scan runner | `scanner.py` | the runner task, its consumers and probes, the active job | start, cancel, run, close |
| Runtime store | `persistence.py` | jobs, observations, coverage, schedules, sessions, OIDC transactions | save/get/prune per table, recovery of live rows at start |
| Schedules | `schedules.py` | definitions with next run, pending trigger, last job, failure count | create, update, toggle, delete, tick, recover, close |
| Host write service | `hostwrites.py` | preview tokens, retry tokens; the file and its backups | preview, apply, retry_commit |
| Gitops | `gitops.py` | the checkout | clean check, stage, commit |
| Target planner | `targets.py` | none | plan_targets: intervals to probe |
| Inventory | `netinfra.py`, `models.py` | none (rebuilt from the file) | parse, group hosts by address |
| Checks | `checks.py` | none | ping, DNS, reconcile evidence with expectation |
| Freshness | `freshness.py` | none | status of an address from evidence, coverage, age |
| Security | `security.py` | credential file, sessions | login, lockout, password change, recovery, CSRF |
| OIDC client | `oidc.py` | one-use transactions | begin, complete |
| Settings | `config.py`, options in `main.py` | the configuration in force, its file | validate, save, swap |
| Audit | `audit.py` | log file | record, recent events |
| Web | `main.py` | the services of `app.state` | routes, lifespan |

How they interact:

* The lifespan (`main.py` 80-108) initialises the store, which marks live job
  rows *interrupted*; constructs the runner; starts the schedule manager, which
  recovers the schedules and starts the tick task; and closes the schedules
  before the runner.
* A route or a schedule's tick calls `ScanManager.start_request`. The runner
  writes observations, progress, coverage and the outcome into the store. Ticks
  read the outcome of *their* job from the store, never by a callback.
* `apply` and `retry_commit` run in a thread under `_WRITE_LOCK`; `options_save`
  runs on the loop at the same time and replaces the configuration that the
  write service reads. Editors and Git users touch the same file and checkout.

What is hard here: cancellation and failure at every `await` of runner and
consumers; several transactions that describe one fact; a death of the process
between two of them; the file changed by others between check and use; triggers
that come due while the runner is busy or the process is down.

Correctness, per component:

* **Runner / store**: at most one job is live; what a row, a progress count or
  the coverage claims is backed by evidence; nothing is written for a job that
  ended; no probe outlives its run; every run ends.
* **Schedules**: no catch-up and no retry storm; at most one pending trigger;
  due triggers are served or replaced; failures are real and counted once; the
  run a schedule started is the one it shows.
* **Host writes**: answers are true; what a save replaced can be restored; a
  review is applied once, to the content it was made for; HEAD takes only
  reviewed content; a failed commit can be retried.
* **Targets, coverage**: a plan is the set of addresses that was asked for, each
  once; the stored intervals say of every address which scan covered it last.
* **Checks, freshness**: a verdict is never that of other expectations; edits
  that do not concern an address do not touch it; what is stale stays so until
  it is checked.
* **Sessions, OIDC**: whoever is signed in is so under the present credentials
  or policy; who was signed out stays out; the lockout counts every wrong
  password; a state signs in once.
* **Settings, audit**: a save is on disk and recorded, or leaves no trace, and no
  logger but the one in use stays open.

## 2. The modules

| Module | Models | Uses |
|---|---|---|
| `ScanJobs` | what the jobs table promises: the life of a job, abstractly | |
| `ScanRunner` | `scanner.py` and the tables it writes | instance of `ScanJobs` as the abstract specification |
| `Schedules` | `schedules.py` over the abstract runner | instance of `ScanJobs` as the runner it starts |
| `HostWrites` | `hostwrites.py`, `gitops.py` and their surroundings | |
| `Sessions` | `security.py`, `oidc.py`, the sign-in routes of `main.py`, their tables | |
| `Evidence` | `netinfra.py`, `checks.py`, `freshness.py`, `address_row` of `main.py` | |
| `Targets` | the interval arithmetic of `targets.py` and `persistence.py`, as functions | |
| `LatestCoverage` | what discovery promises, address by address, abstractly | extends `Targets` |
| `Coverage` | requests, plans and the coverage table | extends `Targets`; instance of `LatestCoverage` as the abstract specification |
| `Options` | load and save of the settings, the audit logger | |
| `ScanJobs_proofs`, `ScanRunner_proofs`, `Schedules_proofs`, `HostWrites_proofs`, `Sessions_proofs`, `Evidence_proofs`, `Coverage_proofs`, `Options_proofs` | theorems | the modules above |
| `MCScanRunner`, `MCSchedules`, `MCHostWrites`, `MCSessions`, `MCEvidence`, `MCCoverage`, `MCOptions` | instances for TLC | |

### ScanJobs

`status` gives each job's row: absent, queued, running, one of the ended
statuses, pruned. `task` is what the runner is doing: idle, busy, raised (its
task ended with an exception, which every later start raises again), or down
(no process). Actions: Submit, Progress, Finish, Raise, Die, Recover. It is the
abstract specification of `ScanRunner` and the environment of `Schedules`:
because the first is shown to implement it, what is checked of schedules over
it holds over the runner.

### ScanRunner

| State | Code |
|---|---|
| `row`, `stored` | status and progress in the jobs table |
| `obs`, `cover` | job id of the observation and of the coverage of an address |
| `phase` | lifespan: up, closing, down |
| `job`, `req`, `mem`, `todo` | the `ScanJob` in memory, its plan, the shared iterator |
| `runner`, `raising`, `gather`, `must` | the runner task: where it awaits, the exception in flight, what the gather delivers, a requested cancellation |
| `wpc`, `wip`, `wc`, `wend`, `callbacks` | the consumers, and the done-callbacks that the loop has still to run |
| `seen`, `plans` (history) | addresses whose evidence a job wrote; its plan |

An action is one stretch of code between two awaits: `Start`, `Cancel`,
`CancelUnsaved` (its `save_job` fails), the runner's (`RunnerSpawns`,
`RunnerCompletes`, `CompletesCancelled`, `CoversCancelled`, `RunnerAborts`,
`RunnerFinishes` ...), the consumer's (`WorkerStarts`, `Admitted`,
`ProbeReturns`, `WorkerCancelled`), `Reap` (done-callbacks), `Close`, `Crash`,
`Restart`. A cancelled consumer waits for its shielded probe, as `_observe`
does. Each transaction may fail while `faults` last; a death may come anywhere
and keeps only what was committed.

### Schedules

`sched[s]` is the stored row of a schedule; `cursor` says which schedule the
tick visits next, so that a death can come between the transactions of one tick,
while no other handler runs inside it (a tick has no await). `Visits` is a visit
that starts nothing (harvest the last run's outcome, consume or coalesce the
trigger); `Dispatches`, `DispatchFails` and `SaveFails` try to start a job and
then save the schedule. `Recovers` is `_recover`: it judges interrupted runs and
moves due times past now. `owner`, `outcome`, `since`, `errs`, `cut` are history.
Time is a counter up to `MaxTime`; a definition is a period or a set of due times.

### HostWrites

A content is the set of changes it consists of, and is its own revision. The
steps of `apply` (check, backup, recheck, replace, retain, decide, stage, commit)
are actions of their own, since it runs in a thread: `Writes` (an editor),
`UsesCheckout` (a Git user), `SavesOptions` and `Crashes` come between any two.
A death while the temporary file stands beside the source leaves it in the
checkout (`other`), after which the clean check refuses every write until
someone removes it; a death during a backup leaves a torn one. The settings name
one of `Paths`; `target` is the path the request took from them (`apply` keeps it,
`_check_revision` and `commit_changes` read the settings again). A step may have
several failing operations: the one itself, and the removal of what it left.
`told`, `slipped`, `raced`, `meddled`, `calm`, `prior`, `used` are history; `slipped`
marks the save that was answered as unsaved.

### Sessions

| State | Code |
|---|---|
| `file` | the credential file: password, version, must-change flag, failed attempts, end of the lock |
| `holder` | who holds `_admin_lock`, a mutex and a file lock |
| `sess`, `txn` | the tables `sessions` and `oidc_transactions` |
| `req` | requests in flight: what each has read and carries across an await |
| `policy` | the OIDC settings the process was started with |
| `origin`, `ended`, `wrong`, `binding` (history) | how a session was signed in; tokens that were signed out; wrong passwords answered; who began a state |

A login is three steps, since the password is checked in a thread and the
session made afterwards on the loop: `Login` (lock, read), `Verify` (check,
write, release), `Enter` (revoke the old session, make the new one if the
principal is still valid). A change of the password is `AskChange`, `Change`,
`Enter`. `Recover` is the command line, a process of its own. OIDC is `Begin`,
`Began`, `Callback`, `Exchanged`, `Enter`, or `Denied`. `Restart` comes at any
moment and may bring other settings. Every request carries any token that was
ever issued. Random tokens, states and versions are numbers drawn once. A
policy is a record, its fingerprint is itself; what a policy grants is `roles`.

### Evidence

A file is its declared addresses and records; `Fingerprint`, `Checked`,
`Verdict`, `MaxAge` and `Row` are the functions of the same purpose in the
code. `Planned` plans a schedule within the inventory of the moment, as the age
limit does each time it is asked for (`freshness.py` 49-61): a schedule whose range
is no longer declared covers nothing. Actions: `Start` (the job keeps file and
settings of the moment), `Probe` (a probe whose result is recorded), `Discards` (one
whose result is not: its consumer was cancelled while it waited for the shielded
probe, or its set or delete failed), `End`, `Edit` (file, settings or schedules),
`Move` (the network changes), `Tick`, `SetBack` (the clock). `last` is whether the
last recorded probe of an address was answered, `seen` remembers the network each observation saw, so that a verdict
can be compared with the one a check under the present file would have given.

### Targets, LatestCoverage, Coverage

`Targets` has the planner and `Remaining`, the cut of one row's intervals by
new ones, both as folds over sequences of intervals, with addresses of `Bits`
bits: a prefix of `Bits` plays a /32 and one of `Bits - 1` a /31. Beside them
stand `Wanted` and `Allowed`, the definitions by sets of addresses. `Coverage`
starts requests, completes or abandons them, edits the inventory meanwhile, and
keeps the coverage rows; a request by hand for more than `Threshold` addresses is
refused unless it was confirmed. `LatestCoverage` keeps one number per address, the
scan that covered it last; `Coverage` implements it under the mapping `Latest`.

### Options

`Copies` is `options_save` up to its await for the form, `Saves` all that comes
after a successful `save_config`, in one step because nothing there awaits;
`SaveFails`, `Refuses` its failures. `Records` is an act of a request or of the
schedules, `RefreshBegins` and `RefreshRecords` the one that waits between
taking the logger and using it. The settings are one variable: that `options_save`
gives the new ones to each component is not checked. `EditsFile`, `Stops`, `Dies` and `Starts` are the
surroundings; a death may come between the rename of the file and the rest.
`gap` is history: acts that owed the log a record and wrote none.

## 3. What TLC checks

| Run | Question | Bounds | States |
|---|---|---|---|
| `scan_runner` | safety of the runner, refinement of `ScanJobs` | 2 jobs, 2 consumers, 2 addresses, an empty plan too, 2 failures, 1 death | 871 000 |
| `scan_runner_live` | runs, shutdown and rows end | 1 job, 2 consumers, 3 addresses, 2 failures | 28 000 |
| `scan_runner_surface` | finding: a lost storage failure | 1 job, 2 addresses, 1 failure | (violation) |
| `schedules` | safety of the schedules | an interval and a calendar schedule, 3 jobs, 2 requests, 2 failures, 1 death, time 0-2 | 1 284 000 |
| `schedules_live` | due triggers are served, "running" ends | 2 interval schedules, 4 jobs, 2 requests, time 0-2 | 86 000 |
| `schedules_shown` | finding: an interrupted run that no schedule shows | 1 schedule, 1 failure, 1 death | (violation) |
| `host_writes` | safety of writes and commits | 2 files, 2 previews, 1 step of another program, 1 change of the options, 2 failures, 1 death | 2 911 000 |
| `host_writes_unsaved` | finding: a save that is answered as unsaved | 2 previews, 1 failure | (violation) |
| `sessions` | who is signed in, lockout, one grant per state | 2 requests, 2 passwords, 2 policies, 3 tokens, 1 state, 3 versions, time 0-2, 1 restart | 543 000 |
| `evidence` | verdicts, responders, edits, staleness | 2 addresses, 4 files, 2 settings, 2 tables of schedules, 2 networks, 2 jobs, 1 edit, 1 change of network or clock, time 0-4 | 587 000 |
| `coverage` | plans, confirmation, and stored intervals against sets of addresses | 8 addresses, 4 inventories, all 240 requests, 2 completed scans | 450 000 |
| `options` | saves are whole | 2 administrators, 2 values, 4 loggers | 16 000 |

Why the bounds are enough to be of use:

* Two consumers and two addresses, one of them documented, give every order of
  "last result, failure, cancel, finish" between consumers and runner; the
  second job meets what the first one left (evidence, coverage, a raised task,
  a full retention of one row). Two failures let a consumer's transaction fail
  and then the save of the cleanup, or both consumers'. The theorems hold
  without these bounds.
* Two schedules compete for the runner with manual jobs; a schedule can come due
  while the runner is busy, while it is pending, while the process is down, and
  after an edit. The administrator's requests are bounded to two in all, which
  enables both schedules, or edits, deletes, or starts a job by hand in between.
* The liveness run of the schedules has as many jobs as there can be triggers
  (two schedules, times 1 and 2), so that the bound on jobs never keeps a
  dispatch from happening. It has no failure: with one the properties hold too,
  but the graph is too large to search for cycles in each run.
* For host writes two previews give a stale token and a second save; one outside
  step puts any content, an earlier one too, between check and use; one change of the
  options turns Git on or off, or names the other file, around any step; two failures let a commit fail and then its retry, or an operation and the removal
  of what it left. `MaxPending` is 1, so that eviction happens.
* Two sign-ins in flight give every order of a login, a change, a recovery and
  a logout around one check of a password; two attempts lock the account, and
  the clock reaches the end of the lock. Three tokens let a session be replaced
  while an old one is still presented. The two policies differ only in what
  they grant, the difference that a fingerprint forgets most easily.
* The four files differ in the ways a fingerprint must tell apart and in one
  way it must not: another address that shares a name, one that is no longer
  declared, a conflict that concerns only the other address. Of the schedules the
  range is invalid under the file that declares one address less, and the
  calendar's gap grows at time 3, when a row of the first instant is stale already;
  the default limit is longer than that of either, as a day is in the code.
* With 3 bits there are all boundary kinds of a prefix, networks inside and
  beside each other, and known addresses at the edges, in the middle and
  outside; two scans give every cut of one plan by another.
* Four loggers are a first one, two saves and a restart. Sessions, evidence and
  options are proved without these bounds as well.

Each property has a mutant: a plausible bug, written in the module beside the
definition it would replace (`Mutant:` comments), under which TLC finds the
property violated. The mutants are part of no behaviour of the specification.

### Fairness

* The event loop runs every ready task: weak fairness of the runner's steps, of
  each consumer's steps and of done-callbacks. A probe returns, since every one
  has a timeout (ping, DNS lifetime). Nothing makes a user start or cancel.
* The tick task wakes every half second: weak fairness of `Tick` and of
  `Recovers`. The abstract runner gets strong fairness for `Scan /\ task' #
  "busy"`: `RunsEnd`, checked of `ScanRunner`, says that a run ends, and
  between two ticks there is time for it to.
* Time is bounded and deaths are bounded; no fairness is assumed of either.

### Findings

1. `scan_runner_surface`: `scanner.py:82` means to surface storage failures;
   one is lost when a cancellation reaches the runner before it resumes.
2. `schedules_shown`: a death between starting a job and saving the schedule
   leaves an interrupted run that no schedule shows, against
   `IMPLEMENTATION_PLAN.md:231`.
3. `host_writes_unsaved`: the `finally` of `_replace` removes the temporary file
   also after `os.replace`; when that fails for another reason than a missing file,
   apply answers "File was not saved" (`hostwrites.py` 255-256), against
   `hostwrites.py:221`. No retry token is made, and the clean check refuses what
   comes after. `AnswersAreTrue` and `SavedIsCommittable` exempt such an answer
   (`slipped`, `calm`).

What else modelling showed, within what the documents allow:

* A runner that raised blocks every later start until a restart, and its row
  may stay live. A schedule then shows "running" until its next trigger fails
  (`RunsAreJudged` exempts it).
* A completed run whose row was pruned before a tick reads it counts as a
  failure ("Last job summary unavailable", `schedules.py` 218-224);
  `FailuresAreReal` exempts pruned rows.
* A storage error in a tick ends the scheduler until a restart.
* An apply that fails after its backup (`hostwrites.py:251`) leaves one more backup
  than `DESIGN.md:250` retains, until a later save prunes (line 259): a step of
  `HostWrites` (`BacksUp`, then a failure), which no run forbids.
* A retry token that expires, is evicted by another or dies with the process leaves
  the saved change to a commit by hand; until then the clean check refuses every
  write. `SavedIsCommittable` exempts it.
* A silent probe whose result is discarded leaves the address an undocumented
  responder, from the recorded probe before it, until the next scan. The job is
  then not complete, and claims no coverage (`CoverageIsFresh`).
* A row that is stale by the limit of a schedule is judged again when an edit of the
  subnets makes that schedule invalid: the limit becomes a day.
* `commit_changes` returns at once when Git is disabled (`gitops.py:67`). When
  Git is disabled during an apply, or when a commit failed and Git was disabled
  before the retry (the token holds the settings of the preview: Git off, on
  during the apply, off again), the answer is "committed" with nothing
  committed. `AnswersAreTrue` exempts requests during which others meddled, and
  speaks of HEAD only while Git is enabled.
* An edit that changes nothing, with Git enabled, hands out a retry token whose
  retries can never succeed.
* Two administrators who save the options at once lose one of the updates: the
  settings are copied before the awaited form (`main.py:688`). An edit by hand of
  settings that need a restart is overwritten by a later save in the browser.
* `refresh` takes the logger before it waits for its scan (`main.py:401`) and
  records with it afterwards; if options were saved meanwhile, the logger is
  closed and the record lost, against "Audit edits, scan actions"
  (`DESIGN.md:231`). `SavesAreWhole` names this one exception.
* A session of a policy that was replaced and came back is valid again, if it
  was not looked up in between: invalid sessions end when they are presented.
* A full scan leaves out network and broadcast addresses of a declared network
  even when they are documented; a scan of known addresses includes them.

## 4. What is proved

TLAPS checks, for every value of the constants that satisfies the modules'
assumptions:

* `ScanJobs_proofs`: one live job (`OneActiveJob`); outcomes stand
  (`Outcomes_Stand`). The invariant adds that no row is live while the runner
  is idle, which is what lets a new job in.
* `ScanRunner_proofs`: `Invariant`, that `IInv` is inductive, and from it
  `Typing`, `NoOrphans`, `CompleteRows`, `Coverage`, `LiveRows`, `Quiet`, and
  `Refinement` (the runner implements `ScanJobs`). The checked properties are not
  inductive: that a row is complete says nothing of how it became so. `IInv`
  adds what the task holds in each phase (`TaskInv`); how the status in memory
  and the status of the row may differ (`StatusInv`); that other rows are not
  live, and ids are used in order (`RowInv`); what each consumer is doing for
  each position of the runner, and whose done-callbacks are owed (`WorkerInv`);
  that each address of the plan is still to do, held by a consumer or recorded,
  unless the run was cancelled or a consumer failed (`PlanInv`), which is why
  "complete" is complete; and what rows, coverage and observations claim
  (`ClaimInv`, `EvidenceInv`).
  From it also `Progress` and `FreshCoverage`: each address of a plan is still to be
  taken, held by one consumer, or recorded, and never two of these (`HeldInv`);
  so the number a consumer adds when it has recorded one is the number of
  addresses whose evidence the job wrote (`CountInv`), and no failure, cancel or
  death lets the row run ahead of it.
* `Schedules_proofs`: `Invariant`, that `SInv` is inductive, and from it
  `Typing`, `Coalescing` (`Coalesced`) and `NoCatchingUp` (the action property
  `NoCatchUp`). `SInv` adds that the next and the pending trigger of a schedule
  the tick may visit are later than every one it was tried for (`TimeInv`), that
  kept schedules have one of the definitions (`DefInv`), that rows are added in
  order and with their owner (`OwnerInv`), and that what the current pass has
  visited is due in the future (`LoopInv`). `NextIsLater` and `AdvanceIsLater`
  are the lemmas about calendars and intervals it rests on: the next trigger is
  after now, whatever was missed.
  A second invariant, `HInv` (`HistoryInvariant`), is about what is shown:
  `RealFailures`, `ShownRuns`, `ShownInterruptions`. It says which row each
  schedule's recorded job is, and what it must have been shown as (`RunInv`,
  `LiveInv`, `ErrorInv`); and that the failures counted are covered by failed
  dispatches and by rows, none counted twice (`FailInv`): the row a schedule
  waits for is not among those it was blamed for, so that a failure and the
  judgement of its row take one each.
* `HostWrites_proofs`: `Invariant`, and from it all six properties of the passing runs,
  for any number of files and settings.
  The checked properties speak of the ends of a request; `IInv` says what it may
  rely on at each step: tokens are drawn once and the one being applied is
  unused and still there (`TokenInv`); a retry stands for what was saved
  (`RetryInv`); what the file holds while nobody meddles, and since the last
  check (`FileInv`); that the newest backup is of the content that was checked
  (`BackupInv`); and that the clean check made HEAD equal to the file, so that
  only a commit that fails can leave it behind, with a retry (`CalmInv`).
* `Sessions_proofs`: `Invariant`, and from it `Current`, `SignedOutForGood`,
  `Locks`, `OneGrant`, `PolicyInForce`. `IInv` is about requests in flight: one
  that checks a password holds the lock and has read the file as it is, because
  every writer needs that lock; versions are drawn once, so that an equal version
  means the same password; a state is consumed before it is used, so that at
  most one request or session comes of it. `Typing` has the bound on what is
  drawn, which no step can see alone: what was drawn, and the requests in flight
  that have yet to draw, are together at most `MaxToken` (`SpareOK`).
* `Evidence_proofs`: `Verdicts`, `Responders` and the action properties
  `UnrelatedEdits` and `StaleStays`. `SamePrint` and `SameEvidence` say that equal fingerprints
  give equal evidence and an equal verdict; a further lemma says that what
  concerns an address determines its fingerprint; its age limit is determined by
  the schedules whose present plan holds it. `StaleStays` rests on `LimitGrows`: the
  limit of an address grows only with the gap of an applicable schedule; elsewhere
  a row past its limit stays past it as time goes forward.
* `Coverage_proofs`: `Plans_Exact`, `Rows_Canonical`, and `Latest_Wins` (the
  interval rows implement `LatestCoverage`), for any number of bits and any
  inventories. `Recursion` and `Chaining` say that a fold is the end of a chain of
  intermediate results; over these chains each loop has its own invariant, proved by
  induction along it (`UpTo`): `Merging` (`merge_intervals` keeps the plan
  canonical and covers what it was given so far, because it is given sorted
  intervals; `Sorting`), `Gapping` (nothing before the cursor is lost but the known
  addresses), `Remainders` (what is left of a row is canonical and covers the
  rest), `Counting` (the total is the number of addresses). `Containment` says
  that bisection on a canonical plan decides inclusion; it is false of a plan
  whose intervals touch. `Planning` puts them together. The refinement adds that
  the row covering an address is unique, so that its job is the address's mark.
* `Options_proofs`: `Saves_Whole`. That an act reaches the log rests on all
  holders having the one open logger, on it keeping what the settings in force
  say, and on nothing waiting while the application is down.

The invariants were model-checked before they were proved, but for those of
`Evidence_proofs`, which quantifies over every file and every setting there may
be, and for `SpareOK`. The assumptions are those the modules state of their
constants, which TLC evaluates in the runs.

Only model-checked: the liveness properties `RunsEnd`, `CloseEnds`, `RowsEnd`,
`DueIsServed` and `RunsAreJudged` (fairness and ENABLED are out of the prover's
reach). Every other property of the passing runs is a theorem. Recursion is
written as folds and as one recursive function (`Size`), never as a RECURSIVE
operator.

## 5. What is not modelled

* The pacing of probes (`scanner.py`, the admission lock and the start rate):
  what is checked of the runner holds for any pacing; that no burst exceeds the
  rate is not checked.
* The syntax of the YAML file, its diagnostics and diffs, the parsing of targets,
  forms and dates: what fails to parse is refused and changes no state.
* Calendars: a schedule's due times are a set; the conversion through a time
  zone with its gaps and folds is the time zone database's.
* `ScheduleManager._recover`'s branch for an invalid stored definition
  (`schedules.py` 190-192), since rows are validated when saved; the starvation
  of a schedule by an earlier one that is always due, which needs a clock
  without a bound.
* Passwords' hashing, cookies, CSRF tokens, the provider's metadata, keys and
  tokens: each is an answer that is good or not.
* Redaction, rotation and the page of recent events of the audit log; the
  migration of older database schemas; rendering, search and paging.
* Malformed observation timestamps, which the program never stores. Templates,
  static files, deployment: no state.

## 6. Plan

Done: the core and its proofs (`ScanJobs`, `ScanRunner`, `Schedules`,
`HostWrites`), then `Sessions`, `Evidence`, `Targets` with `Coverage`, `Options`,
and proofs of all safety and action properties that the runs check.

Left, in order of importance:

1. A specification of a reviewed file (its contents change only by an applied
   review or by others), which `HostWrites` implements, with the refinement proved.
2. `Pacing`: the admission lock and rate of probe starts; no burst.
3. `Calendar`: next local time over a zone with a gap and a fold.
