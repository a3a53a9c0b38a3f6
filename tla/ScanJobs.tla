------------------------------ MODULE ScanJobs ------------------------------
(***************************************************************************)
(* What the scan manager promises of the `jobs` table and of its one       *)
(* runner task, as the UI, the schedules and the next process see them: a  *)
(* job is accepted only when the last one is over, runs, ends once, and is *)
(* finally pruned; a runner that raised lets no job start; a restart ends  *)
(* whatever the last process left.  ScanRunner implements this module, and *)
(* Schedules is composed with it.                                          *)
(***************************************************************************)
EXTENDS Integers, FiniteSets

CONSTANTS MaxJob,      \* jobs are numbered in the order of their submission
          Retention    \* AppConfig.completed_job_retention

VARIABLES status,      \* the status column of every row, by job
          task         \* the runner task: idle, busy, raised; down with its process

Jobs     == 1 .. MaxJob
Live     == {"queued", "running"}
Terminal == {"complete", "cancelled", "failed", "interrupted"}
Status   == Live \cup Terminal \cup {"absent", "pruned"}
Outcomes == {"complete", "cancelled", "failed"}      \* what a runner can write

\* The id a new job gets: rows are never reused, and rowids grow.
Fresh(st, j) == st[j] = "absent" /\ \A k \in 1 .. j - 1 : st[k] # "absent"

\* RuntimeStore.prune_jobs: only the newest Retention terminal rows are kept.
Pruned(st) ==
  [j \in Jobs |->
     IF /\ st[j] \in Terminal
        /\ Cardinality({k \in j + 1 .. MaxJob : st[k] \in Terminal}) >= Retention
     THEN "pruned" ELSE st[j]]

\* RuntimeStore.initialize: rows of the previous process are closed.
Interrupted(st) == [j \in Jobs |-> IF st[j] \in Live THEN "interrupted" ELSE st[j]]

NoneLive(st) == \A j \in Jobs : st[j] \notin Live

\* The table as it is, or with the one live row ended.
Ended(st) ==
  {st} \cup {[st EXCEPT ![j] = s] : j \in {k \in Jobs : st[k] \in Live}, s \in Outcomes}

\* The table as it is, or with a queued row running.
Begun(st) ==
  {st} \cup {[st EXCEPT ![j] = "running"] : j \in {k \in Jobs : st[k] = "queued"}}

-----------------------------------------------------------------------------

Init == status = [j \in Jobs |-> "absent"] /\ task = "idle"

Submit(j) ==
  /\ task = "idle" /\ task' = "busy"
  /\ Fresh(status, j)
  /\ status' = [status EXCEPT ![j] = "queued"]

\* A row changes while the runner works: it begins, or a cancellation that came
\* after the outcome writes the outcome.
Progress ==
  /\ task = "busy" /\ UNCHANGED task
  /\ status' \in Begun(status) \cup Ended(status)

\* The runner is over: no row is live, and the old ones are pruned.
Finish ==
  /\ task = "busy" /\ task' = "idle"
  /\ \E st \in Ended(status) : NoneLive(st) /\ status' = Pruned(st)

\* The runner raises a storage failure, wherever it met it.
Raise ==
  /\ task = "busy" /\ task' = "raised"
  /\ status' \in Begun(status) \cup Ended(status) \cup {Pruned(st) : st \in Ended(status)}

Die == task # "down" /\ task' = "down" /\ UNCHANGED status

Recover ==
  /\ task = "down" /\ task' = "idle"
  /\ status' = Pruned(Interrupted(status))

Next == \/ \E j \in Jobs : Submit(j)
        \/ Progress \/ Finish \/ Raise
        \/ Die \/ Recover

Spec == Init /\ [][Next]_<<status, task>>

-----------------------------------------------------------------------------

TypeOK == status \in [Jobs -> Status] /\ task \in {"idle", "busy", "raised", "down"}

\* "One active job" (IMPLEMENTATION_PLAN.md:190): two rows are never live at
\* once, and none is when the next job may start, so a live row names the one
\* job the runner can be working on.
OneLive == /\ \A j, k \in Jobs : status[j] \in Live /\ status[k] \in Live => j = k
           /\ task = "idle" => NoneLive(status)

\* An outcome is written once: an ended row keeps its status until it is pruned,
\* a pruned one never comes back, and no row returns to an earlier status.
OutcomesStand ==
  [][\A j \in Jobs :
        /\ status[j] \in Terminal => status'[j] \in {status[j], "pruned"}
        /\ status[j] = "pruned" => status'[j] = "pruned"
        /\ status[j] = "running" => status'[j] \notin {"queued", "absent"}]_<<status, task>>
=============================================================================
