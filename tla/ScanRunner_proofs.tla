------------------------- MODULE ScanRunner_proofs -------------------------
(***************************************************************************)
(* Proofs about ScanRunner: its invariants hold, and its steps implement   *)
(* ScanJobs, for any number of jobs, addresses, consumers, failures and    *)
(* crashes.  IInv is the inductive invariant; each of its parts has a      *)
(* lemma saying that every step keeps it.                                  *)
(***************************************************************************)
EXTENDS ScanRunner, FiniteSetTheorems, SequenceTheorems, TLAPS

-----------------------------------------------------------------------------
(* The inductive invariant *)

Active == {"start", "wait", "probe", "probed"}   \* consumers that have not ended
Holding == {"wait", "probe", "probed"}           \* consumers that took an address

\* The runner task against the process and the job it works on.
TaskInv ==
  /\ phase = "down" => runner = "none"
  /\ (runner = "none") = (job = NoJob)
  /\ runner \in {"created", "gather", "cleanup"} => req.plan = plans[job]

\* The status in memory and the status in the row, by position of the runner.
StatusInv ==
  /\ runner = "created" => mem.status = "queued" /\ row[job] = "queued"
  /\ runner = "gather"  => mem.status = "running" /\ row[job] = "running"
  /\ runner = "cleanup" => /\ mem.status \in {"complete", "cancelled", "failed"}
                           /\ row[job] \in {"running", mem.status}

\* Rows of other jobs are not live; ids are used up in order, job the latest.
RowInv ==
  /\ phase # "down" => \A j \in Jobs : row[j] \in Promise!Live => j = job /\ runner # "done"
  /\ \A j, k \in Jobs : j < k /\ row[j] = "absent" => row[k] = "absent"
  /\ job # NoJob => row[job] # "absent" /\ \A k \in Jobs : k > job => row[k] = "absent"

\* The consumers against the runner.
WorkerInv ==
  /\ \A w \in Workers : wpc[w] \in Holding => wip[w] \in Addrs
  /\ \A i \in 1 .. Len(callbacks) :
       /\ wpc[callbacks[i]] = "ended"
       /\ \A k \in 1 .. Len(callbacks) : callbacks[i] = callbacks[k] => i = k
  /\ runner = "created" => gather = "pending" /\ \A w \in Workers : wpc[w] = "off"
  /\ runner = "gather" /\ gather = "pending" =>
       \A w \in Workers : wpc[w] = "reaped" => wend[w] = "ok"
  /\ runner \notin {"gather", "cleanup"} => \A w \in Workers : wpc[w] \in Gone
  /\ runner = "cleanup" => \A w \in Workers : wpc[w] \in Active => wc[w]
  /\ runner = "gather" => wpc[1] # "off"
  /\ runner = "gather" /\ gather = "ok" =>
       \A w \in Workers : wpc[w] \in Gone /\ (wpc[w] = "reaped" => wend[w] = "ok")
  /\ runner = "gather" /\ (\E w \in Workers : wpc[w] \in {"ended", "reaped"} /\ wend[w] = "ok")
       => mem.cancel \/ todo = {}

\* No address of the plan is lost: it is still to be taken, held by a consumer,
\* or recorded, unless the job was cancelled or a consumer failed.
PlanInv ==
  /\ runner \in {"created", "gather"} => todo \subseteq plans[job]
  /\ runner = "gather" => \A w \in Workers : wpc[w] \in Holding => wip[w] \in plans[job]
  /\ runner \in {"created", "gather"} =>
       \A a \in plans[job] :
         \/ a \in todo \/ a \in seen[job]
         \/ \E w \in Workers : wpc[w] \in Holding /\ wip[w] = a
         \/ mem.cancel
         \/ \E w \in Workers : wpc[w] \in {"ended", "reaped"} /\ wend[w] # "ok"
  /\ \A j \in Jobs : seen[j] \subseteq plans[j]
  /\ \A j \in Jobs : row[j] = "absent" => seen[j] = {}

\* What a complete job claims: in memory, in its row, and as coverage.
ClaimInv ==
  /\ runner = "cleanup" /\ mem.status = "complete" => seen[job] = plans[job]
  /\ CompleteIsComplete
  /\ CoverageIsBacked
  /\ \A a \in Addrs : cover[a] # NoJob => row[cover[a]] # "absent"

\* The observations the current job has replaced are its own, or cleared.
EvidenceInv ==
  /\ runner = "created" => seen[job] = {}
  /\ runner = "gather" => \A a \in seen[job] : obs[a] \in {NoJob, job}
  /\ CoverageIsFresh

IInv == /\ TypeOK /\ TaskInv /\ StatusInv /\ RowInv /\ WorkerInv
        /\ PlanInv /\ ClaimInv /\ EvidenceInv

-----------------------------------------------------------------------------
(* Types *)

USE DEF NoJob, Gone, Workers

\* Jobs are numbered from 1.
LEMMA JobsAreNats == Jobs = 1 .. MaxJob /\ Jobs \subseteq Nat \ {0}
  BY RunnerAssumption DEF Jobs, Promise!Jobs

\* Pruning a table yields a table.
LEMMA PrunedType ==
  ASSUME NEW st \in [Jobs -> Promise!Status]
  PROVE  Promise!Pruned(st) \in [Jobs -> Promise!Status]
  BY DEF Promise!Pruned, Promise!Status, Jobs

\* Closing the rows of a dead process yields a table.
LEMMA InterruptedType ==
  ASSUME NEW st \in [Jobs -> Promise!Status]
  PROVE  Promise!Interrupted(st) \in [Jobs -> Promise!Status]
  BY DEF Promise!Interrupted, Promise!Status, Promise!Terminal, Jobs

\* A new job's row, and the statuses the runner writes, are statuses of a row.
LEMMA StatusNames ==
  /\ {"queued", "running", "complete", "cancelled", "failed"} \subseteq Promise!Status
  /\ "absent" \in Promise!Status
  BY DEF Promise!Status, Promise!Live, Promise!Terminal

\* The initial state has the declared types.
LEMMA TypingInit == Init => TypeOK
  <1>. SUFFICES ASSUME Init PROVE TypeOK  OBVIOUS
  <1>1. req \in [plan : SUBSET Addrs, known : SUBSET Addrs, mode : Modes]
    BY DEF Init, NoRequest, Modes
  <1>2. mem \in [status : {"queued", "running", "complete", "cancelled", "failed"},
                 progress : Nat, cancel : BOOLEAN]
    BY DEF Init, NewJob
  <1>3. row \in [Jobs -> Promise!Status]
    BY StatusNames DEF Init
  <1>4. callbacks \in Seq(Workers)
    BY DEF Init
  <1>. QED
    BY <1>1, <1>2, <1>3, <1>4, RunnerAssumption DEF Init, TypeOK

\* The end of a run keeps every type.
LEMMA FinishTypes ==
  ASSUME TypeOK, job \in Jobs, NEW n \in Nat, NEW raise \in BOOLEAN,
         NEW m \in [status : {"queued", "running", "complete", "cancelled", "failed"},
              progress : Nat, cancel : BOOLEAN],
         NEW last \in Promise!Status,
         Finish(m, raise, last, n)
  PROVE  TypeOK'
  <1>1. row' \in [Jobs -> Promise!Status]
    <2>1. [row EXCEPT ![job] = m.status] \in [Jobs -> Promise!Status]
      BY StatusNames DEF TypeOK
    <2>2. [row EXCEPT ![job] = last] \in [Jobs -> Promise!Status]
      BY DEF TypeOK
    <2>. QED  BY <2>1, <2>2, PrunedType DEF Finish, SaveJob
  <1>2. stored' \in [Jobs -> Nat]
    BY DEF Finish, SaveJob, TypeOK
  <1>3. faults' \in Nat /\ crashes' \in Nat
    BY DEF Finish, Failures, TypeOK
  <1>4. runner' \in {"none", "created", "gather", "cleanup", "done", "raised"}
    BY DEF Finish
  <1>5. mem' = m
    BY DEF Finish
  <1>. QED
    BY <1>1, <1>2, <1>3, <1>4, <1>5 DEF Finish, TypeOK, workers, history

ConsumerTypes ==
  /\ wpc \in [Workers -> {"off", "start", "wait", "probe", "probed", "ended", "reaped"}]
  /\ wip \in [Workers -> Addrs \cup {0}] /\ wc \in [Workers -> BOOLEAN]
  /\ wend \in [Workers -> {"ok", "cancelled", "db", "other"}]
  /\ callbacks \in Seq(Workers)

\* An ending consumer keeps the types of the consumers.
LEMMA EndsTypes ==
  ASSUME ConsumerTypes, NEW w \in Workers, NEW how \in {"ok", "cancelled", "db", "other"},
         Ends(w, how)
  PROVE  ConsumerTypes'
  <1>1. callbacks' \in Seq(Workers)
    BY DEF Ends, ConsumerTypes
  <1>. QED  BY <1>1 DEF Ends, ConsumerTypes

\* The head of the consumer loop keeps the types it touches.
LEMMA LoopHeadTypes ==
  ASSUME TypeOK, NEW w \in Workers, LoopHead(w)
  PROVE  ConsumerTypes' /\ todo' \in SUBSET Addrs
  <1>1. ConsumerTypes /\ todo \in SUBSET Addrs
    BY DEF TypeOK, ConsumerTypes
  <1>2. CASE Ends(w, "ok") /\ UNCHANGED todo
    BY <1>1, <1>2, EndsTypes
  <1>3. CASE ~(Ends(w, "ok") /\ UNCHANGED todo)
    <2>1. PICK a \in todo : todo' = todo \ {a} /\ wip' = [wip EXCEPT ![w] = a]
      BY <1>3 DEF LoopHead
    <2>2. wpc' = [wpc EXCEPT ![w] = "wait"] /\ UNCHANGED <<wc, wend, callbacks>>
      BY <1>3 DEF LoopHead
    <2>. QED  BY <1>1, <2>1, <2>2 DEF ConsumerTypes
  <1>. QED  BY <1>2, <1>3

\* Every step keeps every type.
LEMMA TypingStep == TypeOK /\ TaskInv /\ WorkerInv /\ [Next]_vars => TypeOK'
  <1>. SUFFICES ASSUME TypeOK, TaskInv, WorkerInv, [Next]_vars PROVE TypeOK'  OBVIOUS
  <1>j. Busy => job \in Jobs
    BY DEF TaskInv, TypeOK, Busy
  <1>s. /\ mem \in [status : {"queued", "running", "complete", "cancelled", "failed"},
                    progress : Nat, cancel : BOOLEAN]
        /\ req \in [plan : SUBSET Addrs, known : SUBSET Addrs, mode : Modes]
        /\ {"queued", "running", "complete", "cancelled", "failed"} \subseteq Promise!Status
    BY StatusNames DEF TypeOK
  <1>w. \A s \in {"queued", "running", "complete", "cancelled", "failed"} :
          /\ With(s) \in [status : {"queued", "running", "complete", "cancelled", "failed"},
                          progress : Nat, cancel : BOOLEAN]
          /\ With(s).status = s
          /\ [With(s) EXCEPT !.cancel = TRUE] \in
               [status : {"queued", "running", "complete", "cancelled", "failed"},
                progress : Nat, cancel : BOOLEAN]
    BY <1>s DEF With
  <1>1. ASSUME NEW r \in Requests, NEW ok \in BOOLEAN, Start(r, ok) PROVE TypeOK'
    <2>1. r \in [plan : SUBSET Addrs, known : SUBSET Addrs, mode : Modes]
      BY RunnerAssumption
    <2>2. mem' \in [status : {"queued", "running", "complete", "cancelled", "failed"},
                    progress : Nat, cancel : BOOLEAN]
      BY <1>1 DEF Start, NewJob
    <2>3. callbacks' \in Seq(Workers)
      BY <1>1 DEF Start, NoWorkers
    <2>4. row' \in [Jobs -> Promise!Status] /\ job' \in Jobs /\ plans' \in [Jobs -> SUBSET Addrs]
      BY <1>1, <2>1, StatusNames DEF Start, TypeOK
    <2>. QED  BY <1>1, <2>1, <2>2, <2>3, <2>4 DEF Start, NoWorkers, TypeOK, bounds
  <1>3. CASE Cancel
    <2>1. mem' \in [status : {"queued", "running", "complete", "cancelled", "failed"},
                    progress : Nat, cancel : BOOLEAN]
      BY <1>3, <1>s DEF Cancel, CancelJob
    <2>2. row' \in [Jobs -> Promise!Status] /\ stored' \in [Jobs -> Nat]
      BY <1>3, <1>s, <1>j DEF Cancel, Cancellable, CancelJob, SaveJob, TypeOK
    <2>3. wc' \in [Workers -> BOOLEAN] /\ gcan' \in BOOLEAN /\ must' \in BOOLEAN
      BY <1>3 DEF Cancel, CancelJob, CancelTasks, TypeOK
    <2>. QED  BY <1>3, <2>1, <2>2, <2>3
              DEF Cancel, CancelJob, TypeOK, history, Faultless, Failures
  <1>4. CASE CancelUnsaved
    <2>1. mem' \in [status : {"queued", "running", "complete", "cancelled", "failed"},
                    progress : Nat, cancel : BOOLEAN]
      BY <1>4, <1>s DEF CancelUnsaved
    <2>. QED  BY <1>4, <2>1 DEF CancelUnsaved, TypeOK, durable, workers, history, Fault, Failures
  <1>5. CASE RunnerSkips
    <2>1. job \in Jobs
      BY <1>5, <1>j DEF RunnerSkips, Busy
    <2>2. CASE Finish(With("cancelled"), FALSE, "queued", 0)
      BY <2>1, <2>2, <1>w, <1>s, FinishTypes
    <2>3. CASE Finish(With("complete"), FALSE, "running", 0)
      BY <2>1, <2>3, <1>w, <1>s, FinishTypes
    <2>4. CASE Finish(With("failed"), TRUE, "running", 1)
      BY <2>1, <2>4, <1>w, <1>s, FinishTypes
    <2>. QED  BY <1>5, <2>2, <2>3, <2>4 DEF RunnerSkips
  <1>6. CASE RunnerSpawns
    <2>1. row' \in [Jobs -> Promise!Status] /\ stored' \in [Jobs -> Nat]
      BY <1>6, <1>s, <1>j, <1>w DEF RunnerSpawns, SaveJob, TypeOK, Busy
    <2>. QED  BY <1>6, <1>w, <2>1 DEF RunnerSpawns, TypeOK, bounds, history
  <1>7. CASE RunnerFailsToStart
    BY <1>7, <1>j, <1>w, <1>s, FinishTypes DEF RunnerFailsToStart, Busy
  <1>8. CASE RunnerCompletes
    <2>1. mem' \in [status : {"queued", "running", "complete", "cancelled", "failed"},
                    progress : Nat, cancel : BOOLEAN] /\ raising' \in BOOLEAN
      BY <1>8, <1>w DEF RunnerCompletes, CleansUp
    <2>2. cover' \in [Addrs -> Jobs \cup {NoJob}]
      BY <1>8 DEF Covers, RunnerCompletes, TypeOK
    <2>3. wc' \in [Workers -> BOOLEAN] /\ must' = FALSE /\ runner' = "cleanup"
      BY <1>8 DEF RunnerCompletes, CleansUp, TypeOK
    <2>4. faults' \in Nat /\ crashes' \in Nat
      <3>1. Faultless \/ Fault
        BY <1>8 DEF RunnerCompletes
      <3>. QED  BY <3>1 DEF Faultless, Fault, Failures, TypeOK
    <2>. QED  BY <1>8, <2>1, <2>2, <2>3, <2>4 DEF RunnerCompletes, TypeOK, history
  <1>9. CASE RunnerAborts
    <2>1. mem' \in [status : {"queued", "running", "complete", "cancelled", "failed"},
                    progress : Nat, cancel : BOOLEAN] /\ raising' \in BOOLEAN
      BY <1>9, <1>w DEF RunnerAborts, CleansUp
    <2>3. wc' \in [Workers -> BOOLEAN] /\ must' = FALSE /\ runner' = "cleanup"
      BY <1>9 DEF RunnerAborts, CleansUp, TypeOK
    <2>. QED  BY <1>9, <2>1, <2>3 DEF RunnerAborts, TypeOK, history, bounds, durable
  <1>10. CASE RunnerFinishes
    <2>1. row[job] \in Promise!Status /\ raising \in BOOLEAN
      BY <1>10, <1>j DEF RunnerFinishes, Busy, TypeOK
    <2>. QED  BY <1>10, <2>1, <1>j, <1>s, FinishTypes DEF RunnerFinishes, Busy
  <1>c. ConsumerTypes
    BY DEF TypeOK, ConsumerTypes
  <1>11. ASSUME NEW w \in Workers, WorkerStarts(w) PROVE TypeOK'
    <2>1. ConsumerTypes' /\ todo' \in SUBSET Addrs
      BY <1>11, LoopHeadTypes DEF WorkerStarts
    <2>. QED  BY <1>11, <2>1 DEF WorkerStarts, TypeOK, ConsumerTypes, durable, bounds, history
  <1>12. ASSUME NEW w \in Workers, Admitted(w) PROVE TypeOK'
    <2>1. ConsumerTypes'
      BY <1>12, <1>c, EndsTypes DEF Admitted, ConsumerTypes
    <2>. QED  BY <1>12, <2>1 DEF Admitted, TypeOK, ConsumerTypes, durable, task, bounds, history
  <1>13. ASSUME NEW w \in Workers, ProbeReturns(w) PROVE TypeOK'
    BY <1>13 DEF ProbeReturns, TypeOK, durable, task, bounds, history
  <1>14. ASSUME NEW w \in Workers, NEW b \in BOOLEAN, Records(w, b) PROVE TypeOK'
    <2>. DEFINE m == [mem EXCEPT !.progress = @ + 1]
    <2>1. m \in [status : {"queued", "running", "complete", "cancelled", "failed"},
                 progress : Nat, cancel : BOOLEAN]
      BY <1>s
    <2>2. ConsumerTypes' /\ todo' \in SUBSET Addrs
      <3>1. CASE LoopHead(w)
        BY <3>1, LoopHeadTypes
      <3>2. CASE Ends(w, "db") /\ UNCHANGED todo
        BY <3>2, <1>c, EndsTypes DEF TypeOK
      <3>. QED  BY <1>14, <3>1, <3>2 DEF Records
    <2>3. row' \in [Jobs -> Promise!Status] /\ stored' \in [Jobs -> Nat]
      <3>1. CASE SaveJob(m)
        <4>. HIDE DEF m
        <4>1. m.status \in Promise!Status /\ m.progress \in Nat
          BY <2>1, StatusNames
        <4>. QED  BY <3>1, <4>1 DEF SaveJob, TypeOK
      <3>2. CASE NoSave
        BY <3>2 DEF NoSave, TypeOK
      <3>. QED  BY <1>14, <3>1, <3>2 DEF Records
    <2>4. obs' \in [Addrs -> Jobs \cup {NoJob}] /\ seen' \in [Jobs -> SUBSET Addrs]
      <3>1. job \in Jobs /\ wip[w] \in Addrs
        BY <1>14, <1>j DEF Records, WorkerInv, Holding, Busy
      <3>. QED  BY <1>14, <3>1 DEF Records, Evidence, TypeOK
    <2>5. faults' \in Nat /\ crashes' \in Nat
      BY <1>14 DEF Records, Faultless, Fault, Failures, TypeOK
    <2>6. mem' = m
      BY <1>14 DEF Records
    <2>. HIDE DEF m
    <2>. QED  BY <1>14, <2>1, <2>2, <2>3, <2>4, <2>5, <2>6 DEF Records, TypeOK, ConsumerTypes
  <1>15. ASSUME NEW w \in Workers, NEW how \in {"db", "other"}, RecordFails(w, how)
         PROVE  TypeOK'
    <2>1. ConsumerTypes' /\ faults' \in Nat /\ crashes' \in Nat
      BY <1>15, <1>c, EndsTypes DEF RecordFails, Fault, Failures, TypeOK
    <2>. QED  BY <1>15, <2>1 DEF RecordFails, TypeOK, ConsumerTypes, durable, task, history
  <1>16. ASSUME NEW w \in Workers, WorkerCancelled(w) PROVE TypeOK'
    <2>1. ConsumerTypes'
      BY <1>16, <1>c, EndsTypes DEF WorkerCancelled
    <2>. QED  BY <1>16, <2>1
              DEF WorkerCancelled, TypeOK, ConsumerTypes, durable, task, bounds, history
  <1>17. CASE Reap
    <2>1. Head(callbacks) \in Workers /\ callbacks' \in Seq(Workers)
      <3>1. callbacks \in Seq(Workers) /\ callbacks # <<>> /\ callbacks' = Tail(callbacks)
        BY <1>17 DEF Reap, TypeOK
      <3>. HIDE DEF Workers
      <3>. QED  BY <3>1, HeadTailProperties
    <2>2. gather' \in {"pending", "ok", "cancelled", "db", "other"}
      BY <1>17, <2>1 DEF Reap, TypeOK
    <2>3. wpc' \in [Workers -> {"off", "start", "wait", "probe", "probed", "ended", "reaped"}]
      BY <1>17, <2>1 DEF Reap, TypeOK
    <2>. QED  BY <1>17, <2>1, <2>2, <2>3 DEF Reap, TypeOK, durable, bounds, history
  <1>18. CASE Close
    <2>1. CASE ~Cancellable
      BY <1>18, <2>1 DEF Close, TypeOK, durable, task, workers, history, Faultless, Failures
    <2>2. CASE Cancellable
      <3>1. mem' \in [status : {"queued", "running", "complete", "cancelled", "failed"},
                      progress : Nat, cancel : BOOLEAN]
        BY <1>18, <2>2, <1>s DEF Close, CancelJob
      <3>2. row' \in [Jobs -> Promise!Status] /\ stored' \in [Jobs -> Nat]
        BY <1>18, <2>2, <1>s, <1>j DEF Close, Cancellable, CancelJob, SaveJob, TypeOK
      <3>3. wc' \in [Workers -> BOOLEAN] /\ gcan' \in BOOLEAN /\ must' \in BOOLEAN
        BY <1>18, <2>2 DEF Close, CancelJob, CancelTasks, TypeOK
      <3>. QED  BY <1>18, <2>2, <3>1, <3>2, <3>3
                DEF Close, CancelJob, TypeOK, history, Faultless, Failures
    <2>. QED  BY <2>1, <2>2
  <1>19. ASSUME Down, faults' \in Nat, crashes' \in Nat PROVE TypeOK'
    <2>1. req' \in [plan : SUBSET Addrs, known : SUBSET Addrs, mode : Modes]
      BY <1>19 DEF Down, NoTask, NoRequest, Modes
    <2>2. mem' \in [status : {"queued", "running", "complete", "cancelled", "failed"},
                    progress : Nat, cancel : BOOLEAN]
      BY <1>19 DEF Down, NoTask, NewJob
    <2>3. ConsumerTypes'
      BY <1>19 DEF Down, NoWorkers, ConsumerTypes
    <2>. QED  BY <1>19, <2>1, <2>2, <2>3
              DEF Down, NoTask, TypeOK, ConsumerTypes, durable, history
  <1>20. CASE CloseReturns
    BY <1>19, <1>20 DEF CloseReturns, Faultless, Failures, TypeOK
  <1>21. CASE Crash
    BY <1>19, <1>21 DEF Crash, TypeOK
  <1>22. CASE Restart
    <2>1. row' \in [Jobs -> Promise!Status]
      BY <1>22, PrunedType, InterruptedType DEF Restart, TypeOK
    <2>. QED  BY <1>22, <2>1 DEF Restart, TypeOK, task, workers, bounds, history
  <1>23. CASE UNCHANGED vars
    BY <1>23 DEF vars, TypeOK, durable, task, workers, bounds, history
  <1>. QED
    BY <1>1, <1>3, <1>4, <1>5, <1>6, <1>7, <1>8, <1>9, <1>10, <1>11, <1>12, <1>13, <1>14,
       <1>15, <1>16, <1>17, <1>18, <1>20, <1>21, <1>22, <1>23
    DEF Next, Runner, Worker

-----------------------------------------------------------------------------
(* The task and its job *)

\* Every step keeps the task and its job together.
LEMMA TaskStep == TypeOK /\ TaskInv /\ [Next]_vars => TaskInv'
  <1>. SUFFICES ASSUME TypeOK, TaskInv, [Next]_vars PROVE TaskInv'  OBVIOUS
  <1>1. ASSUME NEW r \in Requests, NEW ok \in BOOLEAN, Start(r, ok) PROVE TaskInv'
    BY <1>1, JobsAreNats DEF Start, TaskInv, TypeOK
  <1>2. ASSUME CancelJob, UNCHANGED <<runner, job, req, plans>>,
               phase' # "down" \/ UNCHANGED phase
        PROVE  TaskInv'
    BY <1>2 DEF TaskInv
  <1>3. CASE Cancel
    BY <1>3, <1>2 DEF Cancel, CancelJob, history
  <1>4. CASE CancelUnsaved
    BY <1>4 DEF CancelUnsaved, TaskInv, history
  <1>5. ASSUME NEW m, NEW raise, NEW last, NEW n, Finish(m, raise, last, n), runner # "none"
        PROVE  TaskInv'
    <2>1. runner' \in {"done", "raised"} /\ UNCHANGED <<phase, job, req>>
      BY <1>5 DEF Finish
    <2>. QED  BY <1>5, <2>1 DEF TaskInv
  <1>6. CASE RunnerSkips
    BY <1>6, <1>5 DEF RunnerSkips
  <1>7. CASE RunnerSpawns
    BY <1>7 DEF RunnerSpawns, TaskInv, history
  <1>8. CASE RunnerFailsToStart
    BY <1>8, <1>5 DEF RunnerFailsToStart
  <1>9. CASE RunnerCompletes
    BY <1>9 DEF RunnerCompletes, CleansUp, TaskInv, history
  <1>10. CASE RunnerAborts
    BY <1>10 DEF RunnerAborts, CleansUp, TaskInv, history
  <1>11. CASE RunnerFinishes
    BY <1>11, <1>5 DEF RunnerFinishes
  <1>12. CASE UNCHANGED <<phase, runner, job, req, plans>>
    BY <1>12 DEF TaskInv
  <1>13. ASSUME NEW w \in Workers, Worker(w) \/ ProbeReturns(w) PROVE TaskInv'
    <2>1. UNCHANGED <<phase, runner, job, req, plans>>
      BY <1>13 DEF Worker, WorkerStarts, Admitted, WorkerCancelled, Records, RecordFails,
                   ProbeReturns, task, history
    <2>. QED  BY <2>1, <1>12
  <1>14. CASE Reap
    BY <1>14, <1>12 DEF Reap, history
  <1>15. CASE Close
    BY <1>15, <1>2 DEF Close, CancelJob, TaskInv, task, history
  <1>16. CASE CloseReturns \/ Crash
    BY <1>16 DEF CloseReturns, Crash, Down, NoTask, TaskInv
  <1>17. CASE Restart
    BY <1>17 DEF Restart, TaskInv, task, history
  <1>18. CASE UNCHANGED vars
    BY <1>18, <1>12 DEF vars, task, history
  <1>. QED
    BY <1>1, <1>3, <1>4, <1>6, <1>7, <1>8, <1>9, <1>10, <1>11, <1>13, <1>14, <1>15, <1>16,
       <1>17, <1>18
    DEF Next, Runner

-----------------------------------------------------------------------------
(* Statuses in memory and in the rows *)

StateInv == StatusInv /\ RowInv

\* Pruning leaves a row as it is, or prunes a terminal one.
LEMMA PrunedRow ==
  ASSUME NEW st, NEW j \in Jobs
  PROVE  \/ Promise!Pruned(st)[j] = st[j]
         \/ st[j] \in Promise!Terminal /\ Promise!Pruned(st)[j] = "pruned"
  BY DEF Promise!Pruned, Jobs

\* Recovery interrupts exactly the live rows.
LEMMA InterruptedRow ==
  ASSUME NEW st, NEW j \in Jobs
  PROVE  Promise!Interrupted(st)[j] = IF st[j] \in Promise!Live THEN "interrupted" ELSE st[j]
  BY DEF Promise!Interrupted, Jobs

\* The two groups of statuses, spelled out.
LEMMA StatusSets ==
  /\ Promise!Live = {"queued", "running"}
  /\ Promise!Terminal = {"complete", "cancelled", "failed", "interrupted"}
  BY DEF Promise!Live, Promise!Terminal

Ended == {"complete", "cancelled", "failed"}

\* What the end of a run does to the table: its own row ends (or, if save_job
\* raised, stays as it was saved last), others are at most pruned.
LEMMA FinishRows ==
  ASSUME TypeOK, job \in Jobs, NEW m, NEW raise \in BOOLEAN, NEW last, NEW n,
         m.status \in Ended, Finish(m, raise, last, n)
  PROVE  /\ \A j \in Jobs \ {job} :
               \/ row'[j] = row[j]
               \/ row[j] \in Promise!Terminal /\ row'[j] = "pruned"
         /\ row'[job] \in {m.status, "pruned", last}
         /\ runner' = "done" => row'[job] \in {m.status, "pruned"}
         /\ runner' \in {"done", "raised"}
  <1>. DEFINE st == [row EXCEPT ![job] = m.status]
  <1>1. st[job] = m.status /\ \A j \in Jobs \ {job} : st[j] = row[j]
    BY DEF TypeOK
  <1>2. CASE row' = Promise!Pruned(st) /\ runner' = IF raise THEN "raised" ELSE "done"
    <2>. HIDE DEF st
    <2>1. ASSUME NEW j \in Jobs \ {job}
          PROVE  \/ row'[j] = row[j]
                 \/ row[j] \in Promise!Terminal /\ row'[j] = "pruned"
      BY <1>1, <1>2, PrunedRow
    <2>2. row'[job] \in {m.status, "pruned"}
      BY <1>1, <1>2, PrunedRow
    <2>. QED  BY <1>2, <2>1, <2>2
  <1>3. CASE row' = st /\ runner' = "raised"
    BY <1>1, <1>3
  <1>4. CASE row' = [row EXCEPT ![job] = last] /\ runner' = "raised"
    BY <1>4 DEF TypeOK
  <1>. QED  BY <1>2, <1>3, <1>4 DEF Finish, SaveJob

\* Every step keeps the statuses in memory and in the rows in line.
LEMMA StateStep == TypeOK /\ TaskInv /\ WorkerInv /\ StateInv /\ [Next]_vars => StateInv'
  <1>. SUFFICES ASSUME TypeOK, TaskInv, WorkerInv, StateInv, [Next]_vars PROVE StateInv'
    OBVIOUS
  <1>. USE JobsAreNats, StatusSets
  <1>j. Busy => job \in Jobs /\ phase # "down"
    BY DEF TaskInv, TypeOK, Busy
  <1>s. \A s : With(s) = [mem EXCEPT !.status = s] /\ With(s).status = s
    BY DEF With, TypeOK
  <1>1. ASSUME NEW r \in Requests, NEW ok \in BOOLEAN, Start(r, ok) PROVE StateInv'
    <2>1. PICK j \in Jobs : /\ Promise!Fresh(row, j)
                            /\ row' = [row EXCEPT ![j] = "queued"] /\ job' = j
      BY <1>1 DEF Start
    <2>2. row[j] = "absent" /\ \A k \in Jobs : k < j => row[k] # "absent"
      BY <2>1 DEF Promise!Fresh
    <2>3. runner' = "created" /\ mem'.status = "queued" /\ phase' = "up" /\ phase = "up"
      BY <1>1 DEF Start, NewJob
    <2>4. \A k \in Jobs : row[k] \notin Promise!Live
      BY <1>1 DEF Start, StateInv, RowInv, TaskInv
    <2>. QED  BY <2>1, <2>2, <2>3, <2>4 DEF StateInv, StatusInv, RowInv, TypeOK
  <1>2. ASSUME CancelJob, Cancellable PROVE StateInv'
    <2>1. row' = [row EXCEPT ![job] = mem.status] /\ mem'.status = mem.status
      BY <1>2 DEF CancelJob, SaveJob, TypeOK
    <2>2. UNCHANGED <<runner, job>>
      BY <1>2 DEF CancelJob
    <2>3. job \in Jobs /\ runner \in {"created", "gather", "cleanup"}
      BY <1>2, <1>j DEF Cancellable, Busy
    <2>. QED  BY <2>1, <2>2, <2>3, <1>j DEF StateInv, StatusInv, RowInv, TypeOK, Busy
  <1>3. CASE Cancel
    BY <1>2, <1>3 DEF Cancel
  <1>4. CASE CancelUnsaved
    <2>1. mem'.status = mem.status
      BY <1>4 DEF CancelUnsaved, TypeOK
    <2>. QED  BY <1>4, <2>1 DEF CancelUnsaved, StateInv, StatusInv, RowInv, durable
  <1>5. ASSUME NEW m, NEW raise \in BOOLEAN, NEW last, NEW n, Finish(m, raise, last, n), Busy,
               m.status \in Ended, last \in {"queued", "running", m.status}
        PROVE  StateInv'
    <2>1. UNCHANGED <<job, phase>>
      BY <1>5 DEF Finish
    <2>. QED  BY <1>5, <2>1, <1>j, FinishRows DEF StateInv, StatusInv, RowInv, Busy, Ended
  <1>6. CASE RunnerSkips
    BY <1>6, <1>5, <1>s DEF RunnerSkips, Busy, Ended
  <1>7. CASE RunnerSpawns
    <2>1. row' = [row EXCEPT ![job] = "running"] /\ mem'.status = "running"
      BY <1>7, <1>s DEF RunnerSpawns, SaveJob
    <2>. QED  BY <1>7, <2>1, <1>j DEF RunnerSpawns, StateInv, StatusInv, RowInv, TypeOK, Busy
  <1>8. CASE RunnerFailsToStart
    BY <1>8, <1>5, <1>s DEF RunnerFailsToStart, Busy, Ended
  <1>9. CASE RunnerCompletes
    <2>1. mem'.status \in Ended /\ UNCHANGED <<row, job, phase>> /\ runner' = "cleanup"
      BY <1>9, <1>s DEF RunnerCompletes, CleansUp, Ended
    <2>. QED  BY <1>9, <2>1 DEF RunnerCompletes, StateInv, StatusInv, RowInv, Ended
  <1>10. CASE RunnerAborts
    <2>1. [With("cancelled") EXCEPT !.cancel = TRUE].status = "cancelled"
      BY DEF With, TypeOK
    <2>2. mem'.status \in Ended /\ UNCHANGED <<row, job, phase>> /\ runner' = "cleanup"
      BY <1>10, <1>s, <2>1 DEF RunnerAborts, CleansUp, Ended, durable
    <2>. QED  BY <1>10, <2>2 DEF RunnerAborts, StateInv, StatusInv, RowInv, Ended
  <1>11. CASE RunnerFinishes
    <2>1. mem.status \in Ended /\ row[job] \in {"running", mem.status} /\ raising \in BOOLEAN
      BY <1>11 DEF RunnerFinishes, StateInv, StatusInv, Ended, TypeOK
    <2>. QED  BY <1>11, <1>5, <2>1 DEF RunnerFinishes, Busy
  <1>12. ASSUME UNCHANGED <<phase, runner, job, row>>, mem'.status = mem.status
         PROVE  StateInv'
    BY <1>12 DEF StateInv, StatusInv, RowInv
  <1>13. ASSUME NEW w \in Workers, NEW b \in BOOLEAN, Records(w, b) PROVE StateInv'
    <2>1. runner = "gather" /\ UNCHANGED <<phase, runner, job>> /\ mem'.status = mem.status
      BY <1>13 DEF Records, WorkerInv, Active, TypeOK
    <2>2. row' = row \/ row' = [row EXCEPT ![job] = mem.status]
      BY <1>13, <2>1 DEF Records, SaveJob, NoSave
    <2>3. row' = row
      <3>1. row[job] = mem.status /\ job \in Jobs
        BY <2>1, <1>j DEF StateInv, StatusInv, Busy
      <3>2. row \in [Jobs -> Promise!Status]
        BY DEF TypeOK
      <3>. QED  BY <2>2, <3>1, <3>2
    <2>. QED  BY <2>1, <2>3, <1>12
  <1>14. ASSUME NEW w \in Workers,
                \/ WorkerStarts(w) \/ Admitted(w) \/ WorkerCancelled(w) \/ ProbeReturns(w)
                \/ \E how \in {"db", "other"} : RecordFails(w, how)
         PROVE  StateInv'
    <2>1. UNCHANGED <<phase, runner, job, row, mem>>
      BY <1>14 DEF WorkerStarts, Admitted, WorkerCancelled, RecordFails, ProbeReturns,
                   durable, task
    <2>. QED  BY <2>1, <1>12
  <1>15. CASE Reap
    BY <1>15, <1>12 DEF Reap, durable
  <1>16. CASE Close
    <2>1. CASE Cancellable
      BY <1>2, <1>16, <2>1 DEF Close
    <2>2. CASE ~Cancellable
      BY <1>16, <2>2 DEF Close, StateInv, StatusInv, RowInv, durable, task
    <2>. QED  BY <2>1, <2>2
  <1>17. CASE CloseReturns \/ Crash
    BY <1>17 DEF CloseReturns, Crash, Down, NoTask, StateInv, StatusInv, RowInv, durable
  <1>18. CASE Restart
    <2>. DEFINE st == Promise!Interrupted(row)
    <2>1. \A j \in Jobs : st[j] = IF row[j] \in Promise!Live THEN "interrupted" ELSE row[j]
      BY InterruptedRow
    <2>2. row' = Promise!Pruned(st) /\ job = NoJob /\ runner = "none" /\ UNCHANGED <<job, runner>>
      BY <1>18 DEF Restart, TaskInv, task
    <2>. HIDE DEF st
    <2>3. \A j \in Jobs : \/ row'[j] = st[j]
                          \/ st[j] \in Promise!Terminal /\ row'[j] = "pruned"
      BY <2>2, PrunedRow
    <2>. QED  BY <2>1, <2>2, <2>3 DEF StateInv, StatusInv, RowInv
  <1>19. CASE UNCHANGED vars
    BY <1>19, <1>12 DEF vars, task, durable
  <1>. QED
    BY <1>1, <1>3, <1>4, <1>6, <1>7, <1>8, <1>9, <1>10, <1>11, <1>13, <1>14, <1>15, <1>16,
       <1>17, <1>18, <1>19
    DEF Next, Runner, Worker

-----------------------------------------------------------------------------
(* The consumers *)

\* Callbacks are those of consumers.
LEMMA CallbacksRange ==
  TypeOK => callbacks \in Seq(Workers) /\ \A i \in 1 .. Len(callbacks) : callbacks[i] \in Workers
  <1>. HIDE DEF Workers
  <1>. QED  BY ElementOfSeq DEF TypeOK

\* An ended consumer joins the callbacks, which stay duplicate-free.
LEMMA EndsKeepsCallbacks ==
  ASSUME TypeOK, WorkerInv, NEW w \in Workers, NEW how, wpc[w] \in Active, Ends(w, how)
  PROVE  \A i \in 1 .. Len(callbacks') :
           /\ wpc'[callbacks'[i]] = "ended"
           /\ \A k \in 1 .. Len(callbacks') : callbacks'[i] = callbacks'[k] => i = k
  <1>1. callbacks \in Seq(Workers) /\ callbacks' = Append(callbacks, w)
    BY DEF Ends, TypeOK
  <1>2. Len(callbacks) \in Nat /\ Len(callbacks') = Len(callbacks) + 1
        /\ callbacks'[Len(callbacks) + 1] = w
        /\ \A i \in 1 .. Len(callbacks) : callbacks'[i] = callbacks[i]
    BY <1>1
  <1>3. \A i \in 1 .. Len(callbacks) : callbacks[i] \in Workers /\ callbacks[i] # w
    BY CallbacksRange DEF WorkerInv, Active
  <1>4. \A v \in Workers : wpc'[v] = IF v = w THEN "ended" ELSE wpc[v]
    BY DEF Ends, TypeOK
  <1>. HIDE DEF Workers
  <1>. QED  BY <1>2, <1>3, <1>4 DEF WorkerInv

\* Every step keeps the consumers in line with the runner.
LEMMA WorkerStep == IInv /\ [Next]_vars => WorkerInv'
  <1>. SUFFICES ASSUME IInv, [Next]_vars PROVE WorkerInv'  OBVIOUS
  <1>. USE DEF IInv
  <1>1. ASSUME NEW r \in Requests, NEW ok \in BOOLEAN, Start(r, ok) PROVE WorkerInv'
    BY <1>1 DEF Start, NoWorkers, WorkerInv, Holding, Active
  <1>2. ASSUME CancelJob, Cancellable PROVE WorkerInv'
    <2>1. UNCHANGED <<runner, gather, todo, wpc, wip, wend, callbacks>>
      BY <1>2 DEF CancelJob
    <2>2. mem'.cancel = TRUE
      BY <1>2 DEF CancelJob, TypeOK
    <2>3. \A w \in Workers : wc[w] => wc'[w]
      BY <1>2 DEF CancelJob, CancelTasks, TypeOK
    <2>. QED  BY <2>1, <2>2, <2>3 DEF WorkerInv, TypeOK
  <1>3. CASE Cancel
    BY <1>2, <1>3 DEF Cancel
  <1>4. CASE CancelUnsaved
    <2>1. mem'.cancel = TRUE
      BY <1>4 DEF CancelUnsaved, TypeOK
    <2>. QED  BY <1>4, <2>1 DEF CancelUnsaved, WorkerInv, workers
  <1>5. ASSUME NEW m, NEW raise, NEW last, NEW n, Finish(m, raise, last, n),
               \A w \in Workers : wpc[w] \in Gone
        PROVE  WorkerInv'
    <2>1. runner' \in {"done", "raised"} /\ UNCHANGED workers
      BY <1>5 DEF Finish
    <2>. QED  BY <1>5, <2>1 DEF WorkerInv, workers
  <1>6. CASE RunnerSkips
    BY <1>6, <1>5 DEF RunnerSkips, WorkerInv
  <1>7. CASE RunnerSpawns
    <2>1. \A w \in Workers : wpc'[w] \in {"start", "off"}
      BY <1>7 DEF RunnerSpawns
    <2>2. 1 \in Workers /\ wpc'[1] = "start"
      <3>1. req.plan \subseteq Addrs /\ req.plan # {}
        BY <1>7 DEF RunnerSpawns, TypeOK
      <3>2. IsFiniteSet(req.plan) /\ Cardinality(req.plan) \in Nat
            /\ Cardinality(req.plan) # 0
        BY <3>1, RunnerAssumption, FS_Subset, FS_CardinalityType, FS_EmptySet
      <3>. QED  BY <1>7, <3>2, RunnerAssumption DEF RunnerSpawns
    <2>3. \A i \in 1 .. Len(callbacks) : FALSE
      <3>1. \A w \in Workers : wpc[w] # "ended"
        BY <1>7 DEF RunnerSpawns, WorkerInv
      <3>. QED  BY <3>1, CallbacksRange DEF WorkerInv
    <2>4. runner' = "gather" /\ gather' = "pending" /\ callbacks' = callbacks
      BY <1>7 DEF RunnerSpawns, WorkerInv
    <2>. QED  BY <2>1, <2>2, <2>3, <2>4 DEF WorkerInv, Holding, Active
  <1>8. CASE RunnerFailsToStart
    BY <1>8, <1>5 DEF RunnerFailsToStart, WorkerInv
  <1>9. ASSUME NEW m, NEW raise, CleansUp(m, raise), UNCHANGED <<wpc, wip, wend, callbacks>>
        PROVE  WorkerInv'
    <2>1. \A w \in Workers : wpc[w] \in Active => wc'[w]
      BY <1>9 DEF CleansUp, Active
    <2>2. runner' = "cleanup"
      BY <1>9 DEF CleansUp
    <2>. QED  BY <1>9, <2>1, <2>2 DEF WorkerInv
  <1>10. CASE RunnerCompletes
    BY <1>9, <1>10 DEF RunnerCompletes
  <1>11. CASE RunnerAborts
    BY <1>9, <1>11 DEF RunnerAborts
  <1>12. CASE RunnerFinishes
    BY <1>12, <1>5 DEF RunnerFinishes
  <1>13. ASSUME NEW w \in Workers, wpc[w] \in Active, NEW how, Ends(w, how),
                UNCHANGED <<runner, gather, todo>>, mem'.cancel = mem.cancel,
                how = "ok" => mem.cancel \/ todo = {}
         PROVE  WorkerInv'
    <2>1. \A v \in Workers : /\ wpc'[v] = IF v = w THEN "ended" ELSE wpc[v]
                             /\ wend'[v] = IF v = w THEN how ELSE wend[v]
      BY <1>13 DEF Ends, TypeOK
    <2>2. UNCHANGED <<wip, wc>>
      BY <1>13 DEF Ends
    <2>3. runner \in {"gather", "cleanup"} /\ wpc[w] \notin Gone
      BY <1>13 DEF WorkerInv, Active
    <2>4. \A i \in 1 .. Len(callbacks') :
           /\ wpc'[callbacks'[i]] = "ended"
           /\ \A k \in 1 .. Len(callbacks') : callbacks'[i] = callbacks'[k] => i = k
      BY <1>13, EndsKeepsCallbacks
    <2>5. 1 \in Workers
      BY RunnerAssumption
    <2>. QED  BY <1>13, <2>1, <2>2, <2>3, <2>4, <2>5 DEF WorkerInv, Holding, Active
  <1>14. ASSUME NEW w \in Workers, wpc[w] \in Active, LoopHead(w), ~wc[w],
                UNCHANGED <<runner, gather>>, mem'.cancel = mem.cancel
         PROVE  WorkerInv'
    <2>1. CASE Ends(w, "ok") /\ UNCHANGED todo /\ (mem.cancel \/ todo = {})
      BY <1>13, <1>14, <2>1
    <2>2. CASE ~(Ends(w, "ok") /\ UNCHANGED todo /\ (mem.cancel \/ todo = {}))
      <3>1. PICK a \in todo : todo' = todo \ {a} /\ wip' = [wip EXCEPT ![w] = a]
        BY <1>14, <2>2 DEF LoopHead
      <3>2. wpc' = [wpc EXCEPT ![w] = "wait"] /\ UNCHANGED <<wc, wend, callbacks>>
        BY <1>14, <2>2 DEF LoopHead
      <3>3. \A v \in Workers : /\ wpc'[v] = IF v = w THEN "wait" ELSE wpc[v]
                               /\ wip'[v] = IF v = w THEN a ELSE wip[v]
        BY <3>1, <3>2 DEF TypeOK
      <3>4. a \in Addrs
        BY <3>1 DEF TypeOK
      <3>5. runner \in {"gather", "cleanup"} /\ wpc[w] \notin Gone
        BY <1>14 DEF WorkerInv, Active
      <3>6. \A i \in 1 .. Len(callbacks) : callbacks[i] \in Workers /\ callbacks[i] # w
        BY <1>14, CallbacksRange DEF WorkerInv, Active
      <3>7. 1 \in Workers
        BY RunnerAssumption
      <3>. QED  BY <1>14, <3>1, <3>2, <3>3, <3>4, <3>5, <3>6, <3>7 DEF WorkerInv, Holding, Active
    <2>. QED  BY <2>1, <2>2
  <1>15. ASSUME NEW w \in Workers, WorkerStarts(w) PROVE WorkerInv'
    BY <1>14, <1>15 DEF WorkerStarts, Active
  <1>16. ASSUME NEW w \in Workers, NEW s \in {"probe", "probed"}, wpc[w] \in {"wait", "probe"},
                wpc' = [wpc EXCEPT ![w] = s],
                UNCHANGED <<runner, gather, todo, mem, wip, wc, wend, callbacks>>
         PROVE  WorkerInv'
    <2>1. \A v \in Workers : wpc'[v] = IF v = w THEN s ELSE wpc[v]
      BY <1>16 DEF TypeOK
    <2>2. runner \in {"gather", "cleanup"} /\ wpc[w] \notin Gone
      BY <1>16 DEF WorkerInv
    <2>3. \A i \in 1 .. Len(callbacks) : callbacks[i] \in Workers /\ callbacks[i] # w
      BY <1>16, CallbacksRange DEF WorkerInv
    <2>4. 1 \in Workers
      BY RunnerAssumption
    <2>. QED  BY <1>16, <2>1, <2>2, <2>3, <2>4 DEF WorkerInv, Holding, Active
  <1>17. ASSUME NEW w \in Workers, Admitted(w) PROVE WorkerInv'
    <2>1. UNCHANGED <<runner, gather, todo, mem>> /\ wpc[w] = "wait"
      BY <1>17 DEF Admitted, task
    <2>2. CASE mem.cancel /\ Ends(w, "ok")
      BY <1>13, <2>1, <2>2 DEF Active
    <2>3. CASE wpc' = [wpc EXCEPT ![w] = "probe"] /\ UNCHANGED <<wip, wc, wend, callbacks>>
      BY <1>16, <2>1, <2>3
    <2>. QED  BY <1>17, <2>2, <2>3 DEF Admitted
  <1>18. ASSUME NEW w \in Workers, ProbeReturns(w) PROVE WorkerInv'
    <2>1. /\ wpc[w] = "probe" /\ wpc' = [wpc EXCEPT ![w] = "probed"]
          /\ UNCHANGED <<runner, gather, todo, mem, wip, wc, wend, callbacks>>
      BY <1>18 DEF ProbeReturns, task
    <2>. QED  BY <1>16, <2>1
  <1>19. ASSUME NEW w \in Workers, NEW b \in BOOLEAN, Records(w, b) PROVE WorkerInv'
    <2>1. mem'.cancel = mem.cancel /\ UNCHANGED <<runner, gather>> /\ wpc[w] \in Active /\ ~wc[w]
      <3>1. /\ mem' = [mem EXCEPT !.progress = @ + 1] /\ wpc[w] = "probed" /\ ~wc[w]
            /\ UNCHANGED <<runner, gather>>
        BY <1>19 DEF Records
      <3>. QED  BY <3>1 DEF Active, TypeOK
    <2>2. CASE LoopHead(w)
      BY <1>14, <2>1, <2>2
    <2>3. CASE Ends(w, "db") /\ UNCHANGED todo
      BY <1>13, <2>1, <2>3
    <2>4. LoopHead(w) \/ (Ends(w, "db") /\ UNCHANGED todo)
      BY <1>19 DEF Records
    <2>. QED  BY <2>2, <2>3, <2>4
  <1>20. ASSUME NEW w \in Workers, NEW how \in {"db", "other"}, RecordFails(w, how)
         PROVE  WorkerInv'
    BY <1>13, <1>20 DEF RecordFails, Active, task
  <1>21. ASSUME NEW w \in Workers, WorkerCancelled(w) PROVE WorkerInv'
    BY <1>13, <1>21 DEF WorkerCancelled, Active, task
  <1>22. CASE Reap
    <2>. DEFINE w == Head(callbacks)
    <2>1. callbacks \in Seq(Workers) /\ callbacks # <<>> /\ callbacks' = Tail(callbacks)
      BY <1>22 DEF Reap, TypeOK
    <2>2. /\ w \in Workers /\ Len(callbacks) \in Nat \ {0} /\ w = callbacks[1]
          /\ Len(callbacks') = Len(callbacks) - 1
          /\ \A i \in 1 .. Len(callbacks') : callbacks'[i] = callbacks[i + 1]
          /\ \A i \in 1 .. Len(callbacks) : callbacks[i] \in Workers
      <3>. HIDE DEF Workers
      <3>. QED  BY <2>1, HeadTailProperties
    <2>. HIDE DEF w
    <2>3. wpc[w] = "ended" /\ \A i \in 1 .. Len(callbacks') : callbacks'[i] # w
      BY <2>2 DEF WorkerInv
    <2>4. \A v \in Workers : wpc'[v] = IF v = w THEN "reaped" ELSE wpc[v]
      BY <1>22, <2>2 DEF Reap, TypeOK, w
    <2>5. gather' = IF gather # "pending" THEN gather
                    ELSE IF wend[w] # "ok" THEN wend[w]
                    ELSE IF \E v \in Workers \ {w} : wpc[v] \notin Gone THEN "pending"
                    ELSE IF gcan THEN "cancelled" ELSE "ok"
      BY <1>22 DEF Reap, w
    <2>6. UNCHANGED <<runner, todo, mem, wip, wc, wend>>
      BY <1>22 DEF Reap
    <2>7. runner \in {"gather", "cleanup"}
      BY <2>2, <2>3 DEF WorkerInv
    <2>8. \A i \in 1 .. Len(callbacks') :
           /\ wpc'[callbacks'[i]] = "ended"
           /\ \A k \in 1 .. Len(callbacks') : callbacks'[i] = callbacks'[k] => i = k
      <3>1. \A i \in 1 .. Len(callbacks') :
              callbacks'[i] \in Workers /\ wpc[callbacks'[i]] = "ended" /\ callbacks'[i] # w
        BY <2>2, <2>3 DEF WorkerInv
      <3>2. ASSUME NEW i \in 1 .. Len(callbacks'), NEW k \in 1 .. Len(callbacks'),
                   callbacks'[i] = callbacks'[k]
            PROVE  i = k
        <4>1. i + 1 = k + 1
          BY <2>2, <3>2 DEF WorkerInv
        <4>. QED  BY <4>1
      <3>. QED  BY <2>4, <3>1, <3>2
    <2>9. 1 \in Workers
      BY RunnerAssumption
    <2>10. gather' = "ok" /\ gather = "pending" =>
             wend[w] = "ok" /\ \A v \in Workers \ {w} : wpc[v] \in Gone
      BY <2>5
    <2>11. gather' = "pending" => gather = "pending" /\ wend[w] = "ok"
      BY <2>2, <2>5 DEF TypeOK
    <2>12. gather # "pending" => gather' = gather
      BY <2>5
    <2>. QED  BY <2>2, <2>3, <2>4, <2>6, <2>7, <2>8, <2>9, <2>10, <2>11, <2>12
              DEF WorkerInv, Holding, Active
  <1>23. CASE Close
    <2>1. CASE Cancellable
      BY <1>2, <1>23, <2>1 DEF Close
    <2>2. CASE ~Cancellable
      BY <1>23, <2>2 DEF Close, WorkerInv, workers, task
    <2>. QED  BY <2>1, <2>2
  <1>24. CASE CloseReturns \/ Crash
    <2>1. /\ runner' = "none" /\ callbacks' = <<>> /\ Len(callbacks') = 0
          /\ \A w \in Workers : wpc'[w] = "off"
      BY <1>24 DEF CloseReturns, Crash, Down, NoTask, NoWorkers
    <2>. QED  BY <2>1 DEF WorkerInv, Holding, Active
  <1>25. CASE Restart \/ UNCHANGED vars
    BY <1>25 DEF Restart, vars, WorkerInv, task, workers
  <1>. QED
    BY <1>1, <1>3, <1>4, <1>6, <1>7, <1>8, <1>10, <1>11, <1>12, <1>15, <1>17, <1>18, <1>19,
       <1>20, <1>21, <1>22, <1>23, <1>24, <1>25
    DEF Next, Runner, Worker

-----------------------------------------------------------------------------
(* The plan, and what a complete job claims *)

Data == PlanInv /\ ClaimInv /\ EvidenceInv

\* A step that only moves consumers about, or saves the status in memory,
\* keeps the plan, the claims and the evidence.
LEMMA DataFrame ==
  ASSUME Data, UNCHANGED <<job, todo, wip, seen, plans, obs, cover>>,
         runner' = runner, mem'.status = mem.status, mem.cancel => mem'.cancel,
         \A w \in Workers : /\ wpc'[w] \in Holding <=> wpc[w] \in Holding
                            /\ wpc'[w] \in {"ended", "reaped"} <=> wpc[w] \in {"ended", "reaped"}
                            /\ wend'[w] = wend[w],
         \A j \in Jobs : /\ row'[j] = "complete" => seen[j] = plans[j]
                         /\ row'[j] = "absent" <=> row[j] = "absent",
         cover \in [Addrs -> Jobs \cup {NoJob}]
  PROVE  Data'
  BY DEF Data, PlanInv, ClaimInv, EvidenceInv, CompleteIsComplete, CoverageIsBacked,
         CoverageIsFresh

\* The run is over: only the rows and the claims about them are left.
LEMMA DataAfterRun ==
  ASSUME TypeOK, Data, runner' \notin {"created", "gather", "cleanup"},
         UNCHANGED <<seen, plans, obs, cover>>,
         \A j \in Jobs : /\ row'[j] = "complete" => seen[j] = plans[j]
                         /\ row'[j] = "absent" <=> row[j] = "absent"
  PROVE  Data'
  BY DEF Data, PlanInv, ClaimInv, EvidenceInv, CompleteIsComplete, CoverageIsBacked,
         CoverageIsFresh, TypeOK

\* Every step keeps the plan, the claims and the evidence.
LEMMA DataStep == IInv /\ [Next]_vars => Data'
  <1>. SUFFICES ASSUME IInv, [Next]_vars PROVE Data'  OBVIOUS
  <1>. USE JobsAreNats, StatusSets
  <1>i. /\ TypeOK /\ TaskInv /\ WorkerInv /\ StatusInv /\ RowInv
        /\ Data /\ StateInv /\ CompleteIsComplete /\ cover \in [Addrs -> Jobs \cup {NoJob}]
    BY DEF IInv, Data, StateInv, ClaimInv, TypeOK
  <1>j. Busy => job \in Jobs /\ phase # "down" /\ row[job] # "absent"
    BY <1>i DEF TaskInv, TypeOK, Busy, RowInv
  <1>s. \A s : With(s).status = s /\ With(s).cancel = mem.cancel
    BY <1>i DEF With, TypeOK
  <1>1. ASSUME NEW r \in Requests, NEW ok \in BOOLEAN, Start(r, ok) PROVE Data'
    <2>1. PICK j \in Jobs :
            /\ Promise!Fresh(row, j)
            /\ row' = [row EXCEPT ![j] = "queued"] /\ job' = j
            /\ plans' = [plans EXCEPT ![j] = r.plan]
      BY <1>1 DEF Start
    <2>2. row[j] = "absent" /\ seen[j] = {}
      BY <1>i, <2>1 DEF Promise!Fresh, Data, PlanInv
    <2>3. /\ runner' = "created" /\ todo' = r.plan /\ UNCHANGED <<seen, obs, cover>>
          /\ \A w \in Workers : wpc'[w] = "off"
      BY <1>1 DEF Start, NoWorkers
    <2>4. \A k \in Jobs : /\ row'[k] = IF k = j THEN "queued" ELSE row[k]
                          /\ plans'[k] = IF k = j THEN r.plan ELSE plans[k]
      BY <1>i, <2>1 DEF TypeOK
    <2>5. \A a \in Addrs : cover[a] # NoJob => cover[a] \in Jobs \ {j}
      BY <1>i, <2>2 DEF Data, ClaimInv
    <2>6. PlanInv'
      BY <1>i, <2>1, <2>2, <2>3, <2>4 DEF Data, PlanInv, Holding
    <2>7. ClaimInv'
      BY <1>i, <2>1, <2>2, <2>3, <2>4, <2>5
      DEF Data, ClaimInv, CompleteIsComplete, CoverageIsBacked
    <2>8. EvidenceInv'
      BY <1>i, <2>1, <2>2, <2>3 DEF Data, EvidenceInv, CoverageIsFresh
    <2>. QED  BY <2>6, <2>7, <2>8 DEF Data
  <1>2. ASSUME CancelJob, Cancellable PROVE Data'
    <2>1. row' = [row EXCEPT ![job] = mem.status] /\ mem' = [mem EXCEPT !.cancel = TRUE]
          /\ UNCHANGED <<job, todo, runner, wpc, wip, wend, seen, plans, obs, cover>>
      BY <1>2 DEF CancelJob, SaveJob, history
    <2>2. mem'.status = mem.status /\ mem'.cancel
      BY <1>i, <2>1 DEF TypeOK
    <2>3. mem.status # "absent" /\ mem.status = "complete" => seen[job] = plans[job]
      BY <1>2, <1>i DEF Cancellable, Busy, Data, ClaimInv, StatusInv, TypeOK
    <2>4. mem.status # "absent"
      BY <1>i DEF TypeOK
    <2>5. \A j \in Jobs : row'[j] = IF j = job THEN mem.status ELSE row[j]
      BY <1>i, <2>1 DEF TypeOK
    <2>6. \A j \in Jobs : /\ row'[j] = "complete" => seen[j] = plans[j]
                          /\ row'[j] = "absent" <=> row[j] = "absent"
      BY <1>2, <1>i, <1>j, <2>3, <2>4, <2>5 DEF CompleteIsComplete, Cancellable
    <2>. QED  BY <1>i, <2>1, <2>2, <2>6, DataFrame
  <1>3. CASE Cancel
    BY <1>2, <1>3 DEF Cancel
  <1>4. CASE CancelUnsaved
    <2>1. mem'.status = mem.status /\ mem'.cancel
      BY <1>4, <1>i DEF CancelUnsaved, TypeOK
    <2>2. UNCHANGED <<row, job, todo, runner, wpc, wip, wend, seen, plans, obs, cover>>
      BY <1>4 DEF CancelUnsaved, durable, workers, history
    <2>. QED  BY <1>i, <2>1, <2>2, DataFrame DEF CompleteIsComplete
  <1>5. ASSUME NEW m, NEW raise \in BOOLEAN, NEW last, NEW n, Finish(m, raise, last, n), Busy,
               m.status \in Ended, last \in {"queued", "running", m.status},
               m.status = "complete" => seen[job] = plans[job]
        PROVE  Data'
    <2>1. UNCHANGED <<seen, plans, obs, cover>>
      BY <1>5 DEF Finish, history
    <2>2. runner' \notin {"created", "gather", "cleanup"}
      BY <1>5, <1>i, <1>j, FinishRows
    <2>3. \A j \in Jobs : /\ row'[j] = "complete" => seen[j] = plans[j]
                          /\ row'[j] = "absent" <=> row[j] = "absent"
      BY <1>5, <1>i, <1>j, FinishRows DEF CompleteIsComplete, Ended
    <2>. QED  BY <1>i, <2>1, <2>2, <2>3, DataAfterRun
  <1>6. CASE RunnerSkips
    <2>0. Busy
      BY <1>6 DEF RunnerSkips, Busy
    <2>1. CASE Finish(With("cancelled"), FALSE, "queued", 0)
      BY <1>5, <1>s, <2>0, <2>1 DEF Ended
    <2>2. CASE req.plan = {} /\ Finish(With("complete"), FALSE, "running", 0)
      <3>1. plans[job] = {} /\ seen[job] = {}
        BY <1>6, <1>i, <2>2 DEF RunnerSkips, TaskInv, Data, EvidenceInv
      <3>. QED  BY <1>5, <1>6, <1>s, <2>2, <3>1 DEF RunnerSkips, Busy, Ended
    <2>3. CASE Finish(With("failed"), TRUE, "running", 1)
      BY <1>5, <1>s, <2>0, <2>3 DEF Ended
    <2>. QED  BY <1>6, <2>1, <2>2, <2>3 DEF RunnerSkips
  <1>7. CASE RunnerSpawns
    <2>1. /\ runner = "created" /\ runner' = "gather" /\ ~mem.cancel
          /\ UNCHANGED <<job, todo, seen, plans, obs, cover>>
          /\ \A w \in Workers : wpc[w] = "off" /\ wpc'[w] \in {"off", "start"}
      BY <1>7, <1>i DEF RunnerSpawns, history, WorkerInv
    <2>2. \A j \in Jobs : row'[j] = IF j = job THEN "running" ELSE row[j]
      BY <1>7, <1>i, <1>s DEF RunnerSpawns, SaveJob, TypeOK
    <2>3. row[job] # "absent" /\ job \in Jobs /\ seen[job] = {}
      BY <1>i, <1>j, <2>1 DEF Busy, Data, EvidenceInv
    <2>4. todo = plans[job]
      BY <1>i, <2>1, <2>3 DEF Data, PlanInv, Holding
    <2>5. PlanInv'
      BY <1>i, <2>1, <2>2, <2>3, <2>4 DEF Data, PlanInv, Holding
    <2>6. ClaimInv' /\ EvidenceInv'
      BY <1>i, <2>1, <2>2, <2>3
      DEF Data, ClaimInv, EvidenceInv, CompleteIsComplete, CoverageIsBacked, CoverageIsFresh
    <2>. QED  BY <2>5, <2>6 DEF Data
  <1>8. CASE RunnerFailsToStart
    BY <1>5, <1>8, <1>s DEF RunnerFailsToStart, Busy, Ended
  <1>9. CASE RunnerCompletes
    <2>1. /\ runner = "gather" /\ gather = "ok" /\ runner' = "cleanup"
          /\ UNCHANGED <<row, job, todo, wpc, wip, wend, seen, plans, obs>>
      BY <1>9, <1>i DEF RunnerCompletes, CleansUp, Outcome, history
    <2>2. job \in Jobs /\ row[job] = "running" /\ req.plan = plans[job]
      BY <1>i, <1>j, <2>1 DEF Busy, StatusInv, TaskInv
    <2>3. ~mem.cancel => seen[job] = plans[job]
      <3>1. \A w \in Workers : wpc[w] \in Gone /\ (wpc[w] = "reaped" => wend[w] = "ok")
        BY <1>i, <2>1 DEF WorkerInv
      <3>2. ~mem.cancel => todo = {}
        <4>1. 1 \in Workers /\ wpc[1] # "off"
          BY <1>i, <2>1, RunnerAssumption DEF WorkerInv
        <4>. QED  BY <1>i, <2>1, <3>1, <4>1 DEF WorkerInv
      <3>. QED  BY <1>i, <2>1, <2>2, <3>1, <3>2 DEF Data, PlanInv, Holding
    <2>4. mem'.status = "complete" => ~mem.cancel
      BY <1>9, <1>s DEF RunnerCompletes, CleansUp
    <2>6. \A a \in Addrs : \/ cover'[a] = cover[a]
                           \/ ~mem.cancel /\ a \in plans[job] /\ cover'[a] = job
      BY <1>9, <2>2 DEF Covers, RunnerCompletes
    <2>7. PlanInv'
      BY <1>i, <2>1 DEF Data, PlanInv
    <2>8. ClaimInv'
      BY <1>i, <2>1, <2>2, <2>3, <2>4, <2>6
      DEF Data, ClaimInv, CompleteIsComplete, CoverageIsBacked
    <2>9. EvidenceInv'
      <3>1. \A a \in Addrs : obs'[a] # NoJob => obs'[a] >= cover'[a]
        BY <1>i, <2>1, <2>2, <2>3, <2>6 DEF Data, EvidenceInv, CoverageIsFresh, TypeOK
      <3>. QED  BY <2>1, <3>1 DEF EvidenceInv, CoverageIsFresh
    <2>. QED  BY <2>7, <2>8, <2>9 DEF Data
  <1>10. CASE RunnerAborts
    <2>1. [With("cancelled") EXCEPT !.cancel = TRUE].status = "cancelled"
      BY <1>i DEF With, TypeOK
    <2>2. /\ runner' = "cleanup" /\ mem'.status \in {"cancelled", "failed"}
          /\ UNCHANGED <<row, job, seen, plans, obs, cover>>
      BY <1>10, <1>s, <2>1 DEF RunnerAborts, CleansUp, durable, history
    <2>. QED  BY <1>i, <2>2
              DEF Data, PlanInv, ClaimInv, EvidenceInv, CompleteIsComplete, CoverageIsBacked,
                  CoverageIsFresh
  <1>11. CASE RunnerFinishes
    <2>1. mem.status \in Ended /\ row[job] \in {"running", mem.status} /\ raising \in BOOLEAN
      BY <1>11, <1>i DEF RunnerFinishes, StatusInv, Ended, TypeOK
    <2>2. mem.status = "complete" => seen[job] = plans[job]
      BY <1>11, <1>i DEF RunnerFinishes, Data, ClaimInv
    <2>. QED  BY <1>5, <1>11, <2>1, <2>2 DEF RunnerFinishes, Busy
  <1>12. ASSUME NEW w \in Workers, NEW how, wpc[w] \in Active, Ends(w, how),
                UNCHANGED <<row, runner, job, todo, mem, seen, plans, obs, cover>>,
                \/ how # "ok" \/ wpc[w] = "start" \/ mem.cancel
         PROVE  Data'
    <2>1. \A v \in Workers : /\ wpc'[v] = IF v = w THEN "ended" ELSE wpc[v]
                             /\ wend'[v] = IF v = w THEN how ELSE wend[v]
      BY <1>12, <1>i DEF Ends, TypeOK
    <2>2. wip' = wip
      BY <1>12 DEF Ends
    <2>3. PlanInv'
      BY <1>i, <1>12, <2>1, <2>2 DEF Data, PlanInv, Holding, Active
    <2>. QED  BY <1>i, <1>12, <2>3
              DEF Data, ClaimInv, EvidenceInv, CompleteIsComplete, CoverageIsBacked, CoverageIsFresh
  <1>13. ASSUME NEW w \in Workers, WorkerStarts(w) PROVE Data'
    <2>1. /\ wpc[w] = "start"
          /\ UNCHANGED <<row, runner, job, mem, seen, plans, obs, cover>>
      BY <1>13 DEF WorkerStarts, durable, history
    <2>2. CASE Ends(w, "ok") /\ UNCHANGED todo
      BY <1>12, <2>1, <2>2 DEF Active
    <2>3. CASE ~(Ends(w, "ok") /\ UNCHANGED todo)
      <3>1. PICK a \in todo : todo' = todo \ {a} /\ wip' = [wip EXCEPT ![w] = a]
        BY <1>13, <2>3 DEF WorkerStarts, LoopHead
      <3>2. wpc' = [wpc EXCEPT ![w] = "wait"] /\ wend' = wend
        BY <1>13, <2>3 DEF WorkerStarts, LoopHead
      <3>3. \A v \in Workers : /\ wpc'[v] = IF v = w THEN "wait" ELSE wpc[v]
                               /\ wip'[v] = IF v = w THEN a ELSE wip[v]
        BY <1>i, <3>1, <3>2 DEF TypeOK
      <3>4. PlanInv'
        BY <1>i, <2>1, <3>1, <3>2, <3>3 DEF Data, PlanInv, Holding
      <3>. QED  BY <1>i, <2>1, <3>4
                DEF Data, ClaimInv, EvidenceInv, CompleteIsComplete, CoverageIsBacked, CoverageIsFresh
    <2>. QED  BY <2>2, <2>3
  <1>14. ASSUME NEW w \in Workers, NEW s, wpc[w] \in Holding, s \in Holding,
                wpc' = [wpc EXCEPT ![w] = s],
                UNCHANGED <<row, runner, job, todo, mem, wip, wend, seen, plans, obs, cover>>
         PROVE  Data'
    <2>1. \A v \in Workers : wpc'[v] = IF v = w THEN s ELSE wpc[v]
      BY <1>14, <1>i DEF TypeOK
    <2>. QED  BY <1>i, <1>14, <2>1, DataFrame DEF Holding, CompleteIsComplete
  <1>15. ASSUME NEW w \in Workers, Admitted(w) PROVE Data'
    <2>1. /\ wpc[w] = "wait"
          /\ UNCHANGED <<row, runner, job, todo, mem, seen, plans, obs, cover>>
      BY <1>15 DEF Admitted, durable, task, history
    <2>2. CASE mem.cancel /\ Ends(w, "ok")
      BY <1>12, <2>1, <2>2 DEF Active
    <2>3. CASE wpc' = [wpc EXCEPT ![w] = "probe"] /\ UNCHANGED <<wip, wc, wend, callbacks>>
      BY <1>14, <2>1, <2>3 DEF Holding
    <2>. QED  BY <1>15, <2>2, <2>3 DEF Admitted
  <1>16. ASSUME NEW w \in Workers, ProbeReturns(w) PROVE Data'
    <2>1. /\ wpc[w] = "probe" /\ wpc' = [wpc EXCEPT ![w] = "probed"]
          /\ UNCHANGED <<row, runner, job, todo, mem, wip, wend, seen, plans, obs, cover>>
      BY <1>16 DEF ProbeReturns, durable, task, history
    <2>. QED  BY <1>14, <2>1 DEF Holding
  <1>17. ASSUME NEW w \in Workers, NEW b \in BOOLEAN, Records(w, b) PROVE Data'
    <2>. DEFINE x == wip[w]
    <2>1. /\ runner = "gather" /\ wpc[w] = "probed" /\ UNCHANGED <<runner, job, plans, cover>>
          /\ mem'.status = mem.status /\ mem'.cancel = mem.cancel
      BY <1>17, <1>i DEF Records, WorkerInv, Active, TypeOK
    <2>2. job \in Jobs /\ row[job] = "running" /\ mem.status = "running"
      BY <1>i, <1>j, <2>1 DEF Busy, StatusInv
    <2>3. x \in Addrs /\ x \in plans[job]
      BY <1>i, <2>1 DEF WorkerInv, Data, PlanInv, Holding
    <2>4. row' = row
      <3>1. row' = row \/ row' = [row EXCEPT ![job] = mem.status]
        BY <1>17, <2>1 DEF Records, SaveJob, NoSave
      <3>2. row \in [Jobs -> Promise!Status]
        BY <1>i DEF TypeOK
      <3>. QED  BY <2>2, <3>1, <3>2
    <2>5. /\ \A a \in Addrs : a # x => obs'[a] = obs[a]
          /\ obs'[x] \in {NoJob, job}
          /\ \A j \in Jobs : seen'[j] = IF j = job THEN seen[job] \cup {x} ELSE seen[j]
      BY <1>17, <1>i, <2>2, <2>3 DEF Records, Evidence, TypeOK
    <2>6. PlanInv'
      <3>1. CASE LoopHead(w)
        <4>1. CASE Ends(w, "ok") /\ UNCHANGED todo
          <5>1. wip' = wip /\ \A v \in Workers : /\ wpc'[v] = IF v = w THEN "ended" ELSE wpc[v]
                                                /\ wend'[v] = IF v = w THEN "ok" ELSE wend[v]
            BY <4>1, <1>i DEF Ends, TypeOK
          <5>. QED  BY <1>i, <2>1, <2>2, <2>3, <2>4, <2>5, <4>1, <5>1 DEF Data, PlanInv, Holding
        <4>2. CASE ~(Ends(w, "ok") /\ UNCHANGED todo)
          <5>1. PICK a \in todo : todo' = todo \ {a} /\ wip' = [wip EXCEPT ![w] = a]
            BY <3>1, <4>2 DEF LoopHead
          <5>2. wpc' = [wpc EXCEPT ![w] = "wait"] /\ wend' = wend
            BY <3>1, <4>2 DEF LoopHead
          <5>3. \A v \in Workers : /\ wpc'[v] = IF v = w THEN "wait" ELSE wpc[v]
                                   /\ wip'[v] = IF v = w THEN a ELSE wip[v]
            BY <1>i, <5>1, <5>2 DEF TypeOK
          <5>. QED  BY <1>i, <2>1, <2>2, <2>3, <2>4, <2>5, <5>1, <5>2, <5>3 DEF Data, PlanInv, Holding
        <4>. QED  BY <4>1, <4>2
      <3>2. CASE Ends(w, "db") /\ UNCHANGED todo
        <4>1. wip' = wip /\ \A v \in Workers : /\ wpc'[v] = IF v = w THEN "ended" ELSE wpc[v]
                                              /\ wend'[v] = IF v = w THEN "db" ELSE wend[v]
          BY <3>2, <1>i DEF Ends, TypeOK
        <4>. QED  BY <1>i, <2>1, <2>2, <2>3, <2>4, <2>5, <3>2, <4>1 DEF Data, PlanInv, Holding
      <3>3. LoopHead(w) \/ (Ends(w, "db") /\ UNCHANGED todo)
        BY <1>17 DEF Records
      <3>. QED  BY <3>1, <3>2, <3>3
    <2>7. ClaimInv'
      <3>1. ASSUME NEW j \in Jobs, seen[j] = plans[j] PROVE seen'[j] = plans[j]
        <4>1. CASE j = job
          <5>1. seen[job] \cup {x} = seen[job]
            BY <2>3, <3>1, <4>1
          <5>. QED  BY <2>5, <3>1, <4>1, <5>1
        <4>2. CASE j # job
          BY <2>5, <3>1, <4>2
        <4>. QED  BY <4>1, <4>2
      <3>2. \A a \in Addrs : cover[a] # NoJob => a \in seen'[cover[a]]
        BY <1>i, <2>5 DEF Data, ClaimInv, CoverageIsBacked
      <3>. QED  BY <1>i, <2>1, <2>4, <3>1, <3>2
                DEF Data, ClaimInv, CompleteIsComplete, CoverageIsBacked
    <2>8. EvidenceInv'
      <3>1. \A a \in seen'[job] : obs'[a] \in {NoJob, job}
        BY <1>i, <2>1, <2>2, <2>5 DEF Data, EvidenceInv, TypeOK
      <3>2. cover[x] = NoJob \/ cover[x] <= job
        BY <1>i, <2>2, <2>3 DEF Data, ClaimInv, RowInv, TypeOK
      <3>3. \A a \in Addrs : obs'[a] # NoJob => obs'[a] >= cover[a]
        BY <1>i, <2>2, <2>3, <2>5, <3>2 DEF Data, EvidenceInv, CoverageIsFresh
      <3>. QED  BY <2>1, <3>1, <3>3 DEF EvidenceInv, CoverageIsFresh
    <2>. QED  BY <2>6, <2>7, <2>8 DEF Data
  <1>18. ASSUME NEW w \in Workers, NEW how \in {"db", "other"}, RecordFails(w, how)
         PROVE  Data'
    BY <1>12, <1>18 DEF RecordFails, Active, durable, task, history
  <1>19. ASSUME NEW w \in Workers, WorkerCancelled(w) PROVE Data'
    BY <1>12, <1>19 DEF WorkerCancelled, Active, durable, task, history
  <1>20. CASE Reap
    <2>. DEFINE w == Head(callbacks)
    <2>1. callbacks # <<>> /\ callbacks \in Seq(Workers)
      BY <1>20, <1>i DEF Reap, TypeOK
    <2>2. w \in Workers /\ w = callbacks[1] /\ 1 \in 1 .. Len(callbacks)
      <3>. HIDE DEF Workers
      <3>. QED  BY <2>1, HeadTailProperties
    <2>. HIDE DEF w
    <2>3. wpc[w] = "ended"
      BY <1>i, <2>2 DEF WorkerInv
    <2>4. \A v \in Workers : wpc'[v] = IF v = w THEN "reaped" ELSE wpc[v]
      BY <1>20, <1>i, <2>2 DEF Reap, TypeOK, w
    <2>5. UNCHANGED <<row, runner, job, todo, mem, wip, wend, seen, plans, obs, cover>>
      BY <1>20 DEF Reap, durable, history
    <2>. QED  BY <1>i, <2>2, <2>3, <2>4, <2>5, DataFrame DEF Holding, CompleteIsComplete
  <1>21. ASSUME UNCHANGED <<row, runner, job, todo, mem, wpc, wip, wend, seen, plans, obs, cover>>
         PROVE  Data'
    BY <1>i, <1>21, DataFrame DEF CompleteIsComplete
  <1>22. CASE Close
    <2>1. CASE Cancellable
      BY <1>2, <1>22, <2>1 DEF Close
    <2>2. CASE ~Cancellable
      BY <1>21, <1>22, <2>2 DEF Close, workers, task, durable, history
    <2>. QED  BY <2>1, <2>2
  <1>23. CASE CloseReturns \/ Crash
    <2>1. runner' = "none" /\ UNCHANGED <<row, seen, plans, obs, cover>>
      BY <1>23 DEF CloseReturns, Crash, Down, NoTask, durable, history
    <2>. QED  BY <1>i, <2>1, DataAfterRun DEF CompleteIsComplete
  <1>24. CASE Restart
    <2>. DEFINE st == Promise!Interrupted(row)
    <2>1. \A j \in Jobs : st[j] = IF row[j] \in Promise!Live THEN "interrupted" ELSE row[j]
      BY InterruptedRow
    <2>2. row' = Promise!Pruned(st) /\ runner' = "none" /\ UNCHANGED <<seen, plans, obs, cover>>
      BY <1>24, <1>i DEF Restart, TaskInv, task, history
    <2>. HIDE DEF st
    <2>3. \A j \in Jobs : \/ row'[j] = st[j]
                          \/ st[j] \in Promise!Terminal /\ row'[j] = "pruned"
      BY <2>2, PrunedRow
    <2>. QED  BY <1>i, <2>1, <2>2, <2>3, DataAfterRun DEF CompleteIsComplete
  <1>25. CASE UNCHANGED vars
    BY <1>21, <1>25 DEF vars, workers, task, durable, history
  <1>. QED
    BY <1>1, <1>3, <1>4, <1>6, <1>7, <1>8, <1>9, <1>10, <1>11, <1>13, <1>15, <1>16, <1>17,
       <1>18, <1>19, <1>20, <1>22, <1>23, <1>24, <1>25
    DEF Next, Runner, Worker

-----------------------------------------------------------------------------
(* The invariants *)

\* The inductive invariant holds initially.
LEMMA InvInit == Init => IInv
  <1>. SUFFICES ASSUME Init PROVE IInv  OBVIOUS
  <1>1. TypeOK
    BY TypingInit
  <1>2. /\ runner = "none" /\ job = NoJob /\ phase = "up" /\ Len(callbacks) = 0
        /\ \A w \in Workers : wpc[w] = "off"
        /\ \A j \in Jobs : row[j] = "absent" /\ seen[j] = {} /\ plans[j] = {}
        /\ \A a \in Addrs : obs[a] = NoJob /\ cover[a] = NoJob
    BY DEF Init
  <1>. QED
    BY <1>1, <1>2, StatusSets
    DEF IInv, TaskInv, StatusInv, RowInv, WorkerInv, PlanInv, ClaimInv, EvidenceInv, Holding,
        Active, CompleteIsComplete, CoverageIsBacked, CoverageIsFresh

\* The inductive invariant of the runner.
THEOREM Invariant == Spec => []IInv
  <1>1. IInv /\ [Next]_vars => IInv'
    BY TypingStep, TaskStep, StateStep, WorkerStep, DataStep DEF IInv, StateInv, Data
  <1>. QED  BY <1>1, InvInit, PTL DEF Spec

\* Every variable of the runner keeps its type (scanner.py, ScanManager).
THEOREM Typing == Spec => []TypeOK
  <1>1. IInv => TypeOK
    BY DEF IInv
  <1>. QED  BY <1>1, Invariant, PTL

\* No probe thread outlives the run that started it (_observe and the
\* `finally` of _run): for any number of consumers and addresses.
THEOREM NoOrphans == Spec => []NoOrphanProbes
  <1>1. IInv => NoOrphanProbes
    BY DEF IInv, TaskInv, WorkerInv, NoOrphanProbes, Busy, Probing, TypeOK
  <1>. QED  BY <1>1, Invariant, PTL

\* A row that says "complete" is backed by evidence for its whole plan.
THEOREM CompleteRows == Spec => []CompleteIsComplete
  <1>1. IInv => CompleteIsComplete
    BY DEF IInv, ClaimInv
  <1>. QED  BY <1>1, Invariant, PTL

\* Discovery coverage names a job that probed its whole plan, with the address
\* in it (scanner.py:189-194).
THEOREM Coverage == Spec => []CoverageIsBacked
  <1>1. IInv => CoverageIsBacked
    BY DEF IInv, ClaimInv
  <1>. QED  BY <1>1, Invariant, PTL

\* A live row belongs to the current runner.
THEOREM LiveRows == Spec => []LiveIsCurrent
  <1>1. IInv => LiveIsCurrent
    BY DEF IInv, RowInv, LiveIsCurrent
  <1>. QED  BY <1>1, Invariant, PTL

\* A job whose row has ended writes no evidence any more.
THEOREM Quiet == Spec => QuietAfterEnd
  <1>1. IInv /\ [Next]_vars =>
          \A j \in Jobs : row[j] \in Promise!Terminal => seen'[j] = seen[j]
    <2>. SUFFICES ASSUME IInv, [Next]_vars, NEW j \in Jobs, row[j] \in Promise!Terminal
                  PROVE  seen'[j] = seen[j]
      OBVIOUS
    <2>1. ASSUME NEW w \in Workers, NEW b \in BOOLEAN, Records(w, b)
          PROVE  seen'[j] = seen[j]
      <3>1. runner = "gather" /\ seen' = [seen EXCEPT ![job] = @ \cup {wip[w]}]
        BY <2>1 DEF Records, Evidence, IInv, WorkerInv, Active
      <3>2. row[job] = "running" /\ seen \in [Jobs -> SUBSET Addrs]
        BY <3>1 DEF IInv, StatusInv, TypeOK
      <3>3. j # job
        BY <3>2, StatusSets
      <3>. QED  BY <3>1, <3>2, <3>3
    <2>2. CASE Runner
      BY <2>2 DEF Runner, RunnerSkips, RunnerSpawns, RunnerFailsToStart, RunnerCompletes,
                  RunnerAborts, RunnerFinishes, Finish, history
    <2>3. ASSUME NEW w \in Workers,
                 \/ WorkerStarts(w) \/ Admitted(w) \/ WorkerCancelled(w) \/ ProbeReturns(w)
                 \/ \E how \in {"db", "other"} : RecordFails(w, how)
          PROVE  seen' = seen
      BY <2>3 DEF WorkerStarts, Admitted, WorkerCancelled, RecordFails, ProbeReturns, history
    <2>4. CASE \/ \E r \in Requests, ok \in BOOLEAN : Start(r, ok)
               \/ Cancel \/ CancelUnsaved \/ Reap
               \/ Close \/ CloseReturns \/ Crash \/ Restart \/ UNCHANGED vars
      BY <2>4 DEF Start, Cancel, CancelUnsaved, CancelJob, Reap, Close, CloseReturns, Crash,
                  Restart, Down, vars, history
    <2>. QED  BY <2>1, <2>2, <2>3, <2>4 DEF Next, Worker
  <1>2. IInv /\ [Next]_vars =>
          [\A j \in Jobs : row[j] \in Promise!Terminal => seen'[j] = seen[j]]_vars
    BY <1>1
  <1>. QED  BY <1>2, Invariant, PTL DEF Spec, QuietAfterEnd

-----------------------------------------------------------------------------
(* The refinement *)

\* Saving the status a row has already changes nothing.
LEMMA UnchangedRow ==
  ASSUME TypeOK, job \in Jobs, NEW s, row[job] = s
  PROVE  [row EXCEPT ![job] = s] = row
  BY DEF TypeOK

\* A step that leaves the runner working, or not working, as it was.
LEMMA SameTask ==
  ASSUME UNCHANGED <<phase, runner>>
  PROVE  RunnerTask' = RunnerTask
  BY DEF RunnerTask, Busy

\* Ending a live row is one of the table's possible ends.
LEMMA EndedRow ==
  ASSUME NEW j \in Jobs, row[j] \in Promise!Live, NEW s \in Ended
  PROVE  [row EXCEPT ![j] = s] \in Promise!Ended(row)
  BY DEF Promise!Ended, Promise!Outcomes, Ended, Jobs

\* The end of a run ends its row and the task; when the row had been ended by a
\* late cancel, it only prunes; when a transaction fails, it raises.
LEMMA FinishRefines ==
  ASSUME TypeOK, job \in Jobs, RunnerTask = "busy", phase # "down",
         NEW m, NEW raise \in BOOLEAN, NEW last, NEW n,
         Finish(m, raise, last, n), m.status \in Ended,
         \A j \in Jobs : row[j] \in Promise!Live => j = job,
         \/ row[job] \in Promise!Live
         \/ row[job] = m.status,
         \/ last = row[job]
         \/ last = "running" /\ row[job] = "queued"
  PROVE  Promise!Next
  <1>. DEFINE st == [row EXCEPT ![job] = m.status]
  <1>1. st \in Promise!Ended(row)
    <2>1. CASE row[job] \in Promise!Live
      BY <2>1, EndedRow
    <2>2. CASE row[job] = m.status
      BY <2>2, UnchangedRow DEF Promise!Ended
    <2>. QED  BY <2>1, <2>2
  <1>2. Promise!NoneLive(st)
    BY StatusSets DEF Promise!NoneLive, Ended, Jobs, TypeOK
  <1>3. CASE row' = [row EXCEPT ![job] = last] /\ runner' = "raised"
    <2>1. row' \in Promise!Begun(row)
      <3>1. CASE last = row[job]
        BY <1>3, <3>1, UnchangedRow DEF Promise!Begun
      <3>2. CASE last = "running" /\ row[job] = "queued"
        BY <1>3, <3>2 DEF Promise!Begun, Jobs
      <3>. QED  BY <3>1, <3>2
    <2>2. RunnerTask' = "raised"
      BY <1>3 DEF Finish, RunnerTask, Busy
    <2>. QED  BY <2>1, <2>2 DEF Promise!Next, Promise!Raise
  <1>. HIDE DEF st
  <1>4. CASE row' = st /\ runner' = "raised"
    <2>1. RunnerTask' = "raised"
      BY <1>4 DEF Finish, RunnerTask, Busy
    <2>. QED  BY <1>1, <1>4, <2>1 DEF Promise!Next, Promise!Raise
  <1>5. CASE row' = Promise!Pruned(st) /\ runner' = "raised"
    <2>1. RunnerTask' = "raised"
      BY <1>5 DEF Finish, RunnerTask, Busy
    <2>. QED  BY <1>1, <1>5, <2>1 DEF Promise!Next, Promise!Raise
  <1>6. CASE row' = Promise!Pruned(st) /\ runner' = "done"
    <2>1. RunnerTask' = "idle"
      BY <1>6 DEF Finish, RunnerTask, Busy
    <2>. QED  BY <1>1, <1>2, <1>6, <2>1 DEF Promise!Next, Promise!Finish
  <1>. QED  BY <1>3, <1>4, <1>5, <1>6 DEF Finish, SaveJob, st

\* Every step of the runner is a step of ScanJobs, or leaves the rows and the
\* task as ScanJobs sees them alone.
LEMMA StepRefines == IInv /\ [Next]_vars => Promise!Next \/ UNCHANGED <<row, RunnerTask>>
  <1>. SUFFICES ASSUME IInv, [Next]_vars PROVE Promise!Next \/ UNCHANGED <<row, RunnerTask>>
    OBVIOUS
  <1>i. TypeOK /\ TaskInv /\ StatusInv /\ RowInv /\ WorkerInv
    BY DEF IInv
  <1>j. Busy => job \in Jobs
    BY <1>i DEF TaskInv, TypeOK, Busy
  <1>b. Busy => RunnerTask = "busy" /\ phase # "down"
    BY <1>i DEF TaskInv, RunnerTask, Busy
  <1>l. Busy => \A j \in Jobs : row[j] \in Promise!Live => j = job
    BY <1>i, <1>b DEF RowInv
  <1>s. \A s : With(s).status = s
    BY <1>i DEF With, TypeOK
  <1>1. ASSUME NEW r \in Requests, NEW ok \in BOOLEAN, Start(r, ok)
        PROVE  Promise!Next
    <2>1. PICK j \in Jobs : Promise!Fresh(row, j) /\ row' = [row EXCEPT ![j] = "queued"]
      BY <1>1 DEF Start
    <2>2. RunnerTask = "idle" /\ RunnerTask' = "busy"
      BY <1>1 DEF Start, RunnerTask, Busy
    <2>3. Promise!Submit(j)
      BY <2>1, <2>2 DEF Promise!Submit
    <2>. QED  BY <2>1, <2>3 DEF Promise!Next, Jobs
  <1>2. ASSUME CancelJob, Cancellable, phase' # "down"
        PROVE  Promise!Next \/ UNCHANGED <<row, RunnerTask>>
    <2>1. row' = [row EXCEPT ![job] = mem.status] /\ job \in Jobs /\ UNCHANGED runner
      BY <1>2, <1>j DEF CancelJob, SaveJob, Cancellable
    <2>4. RunnerTask = "busy" /\ RunnerTask' = "busy"
      BY <1>2, <1>b, <2>1 DEF Cancellable, RunnerTask, Busy
    <2>2. CASE row[job] = mem.status
      BY <1>i, <2>1, <2>2, <2>4, UnchangedRow
    <2>3. CASE row[job] = "running" /\ mem.status \in Ended
      <3>1. row' \in Promise!Ended(row)
        BY <2>1, <2>3, EndedRow, StatusSets
      <3>. QED  BY <2>4, <3>1 DEF Promise!Next, Promise!Progress
    <2>. QED  BY <1>2, <1>i, <2>2, <2>3 DEF Cancellable, Busy, StatusInv, Ended
  <1>3. CASE Cancel
    BY <1>2, <1>3 DEF Cancel
  <1>4. CASE CancelUnsaved
    BY <1>4, SameTask DEF CancelUnsaved, durable
  <1>5. CASE RunnerSkips
    <2>1. row[job] = "queued" /\ job \in Jobs /\ Busy
      BY <1>5, <1>i, <1>j DEF RunnerSkips, StatusInv, Busy
    <2>2. CASE Finish(With("cancelled"), FALSE, "queued", 0)
      BY <1>b, <1>i, <1>l, <1>s, <2>1, <2>2, FinishRefines, StatusSets DEF Ended
    <2>3. CASE Finish(With("complete"), FALSE, "running", 0)
      BY <1>b, <1>i, <1>l, <1>s, <2>1, <2>3, FinishRefines, StatusSets DEF Ended
    <2>4. CASE Finish(With("failed"), TRUE, "running", 1)
      BY <1>b, <1>i, <1>l, <1>s, <2>1, <2>4, FinishRefines, StatusSets DEF Ended
    <2>. QED  BY <1>5, <2>2, <2>3, <2>4 DEF RunnerSkips
  <1>6. CASE RunnerSpawns
    <2>1. /\ row[job] = "queued" /\ job \in Jobs /\ row' = [row EXCEPT ![job] = "running"]
          /\ RunnerTask = "busy"
      BY <1>6, <1>b, <1>i, <1>j, <1>s DEF RunnerSpawns, SaveJob, StatusInv, Busy
    <2>2. row' \in Promise!Begun(row)
      BY <2>1 DEF Promise!Begun, Jobs
    <2>3. RunnerTask' = "busy"
      BY <1>6, <1>b DEF RunnerSpawns, RunnerTask, Busy
    <2>. QED  BY <2>1, <2>2, <2>3 DEF Promise!Next, Promise!Progress
  <1>7. CASE RunnerFailsToStart
    <2>1. row[job] = "queued" /\ job \in Jobs /\ Busy
      BY <1>7, <1>i, <1>j DEF RunnerFailsToStart, StatusInv, Busy
    <2>. QED
      BY <1>7, <1>b, <1>i, <1>l, <1>s, <2>1, FinishRefines, StatusSets
      DEF RunnerFailsToStart, Ended
  <1>8. CASE RunnerFinishes
    <2>1. /\ job \in Jobs /\ mem.status \in Ended /\ Busy
          /\ row[job] \in {"running", mem.status}
      BY <1>8, <1>i, <1>j DEF RunnerFinishes, StatusInv, Busy, Ended
    <2>2. Finish(mem, raising, row[job], 0) /\ raising \in BOOLEAN
      BY <1>8, <1>i DEF RunnerFinishes, TypeOK
    <2>. QED  BY <1>b, <1>i, <1>l, <2>1, <2>2, FinishRefines, StatusSets
  <1>9. ASSUME NEW w \in Workers, NEW b \in BOOLEAN, Records(w, b)
        PROVE  UNCHANGED <<row, RunnerTask>>
    <2>1. runner = "gather" /\ (row' = row \/ row' = [row EXCEPT ![job] = mem.status])
      BY <1>9, <1>i DEF Records, SaveJob, NoSave, WorkerInv, Active, TypeOK
    <2>2. job \in Jobs /\ row[job] = mem.status
      BY <1>i, <1>j, <2>1 DEF StatusInv, Busy
    <2>3. row' = row
      BY <1>i, <2>1, <2>2, UnchangedRow
    <2>. QED  BY <1>9, <2>3, SameTask DEF Records
  <1>10. CASE Reap
    BY <1>10, SameTask DEF Reap, durable
  <1>11. CASE UNCHANGED vars
    BY <1>11, SameTask DEF vars, durable, task
  <1>12. CASE RunnerCompletes \/ RunnerAborts
    <2>1. UNCHANGED <<row, phase>> /\ runner = "gather" /\ runner' = "cleanup"
      BY <1>12 DEF RunnerCompletes, RunnerAborts, CleansUp, durable
    <2>. QED  BY <2>1 DEF RunnerTask, Busy
  <1>13. ASSUME NEW w \in Workers,
                \/ WorkerStarts(w) \/ Admitted(w) \/ WorkerCancelled(w) \/ ProbeReturns(w)
                \/ \E how \in {"db", "other"} : RecordFails(w, how)
         PROVE  UNCHANGED <<row, RunnerTask>>
    <2>1. UNCHANGED <<row, phase, runner>>
      BY <1>13 DEF WorkerStarts, Admitted, WorkerCancelled, RecordFails, ProbeReturns,
                   durable, task
    <2>. QED  BY <2>1, SameTask
  <1>14. CASE Close
    <2>1. CASE Cancellable
      BY <1>2, <1>14, <2>1 DEF Close
    <2>2. CASE ~Cancellable
      BY <1>14, <2>2 DEF Close, durable, task, RunnerTask, Busy
    <2>. QED  BY <2>1, <2>2
  <1>15. CASE CloseReturns \/ Crash
    <2>1. RunnerTask # "down" /\ RunnerTask' = "down" /\ row' = row
      BY <1>15 DEF CloseReturns, Crash, Down, durable, RunnerTask, Busy
    <2>. QED  BY <2>1 DEF Promise!Next, Promise!Die
  <1>16. CASE Restart
    <2>1. runner = "none" /\ UNCHANGED runner
      BY <1>16, <1>i DEF Restart, TaskInv, task
    <2>2. RunnerTask = "down" /\ RunnerTask' = "idle"
      BY <1>16, <2>1 DEF Restart, RunnerTask, Busy
    <2>. QED  BY <1>16, <2>2 DEF Restart, Promise!Next, Promise!Recover
  <1>. QED
    BY <1>1, <1>3, <1>4, <1>5, <1>6, <1>7, <1>8, <1>9, <1>10, <1>11, <1>12, <1>13,
       <1>14, <1>15, <1>16
    DEF Next, Runner, Worker

\* The scan manager keeps the promise of ScanJobs about its job rows and about
\* when the next job may start.
THEOREM Refinement == Spec => RefinesScanJobs
  <1>1. Init => Promise!Init
    BY DEF Init, Promise!Init, Jobs, RunnerTask, Busy
  <1>2. IInv /\ [Next]_vars => [Promise!Next]_<<row, RunnerTask>>
    BY StepRefines
  <1>. QED  BY <1>1, <1>2, Invariant, PTL DEF Spec, RefinesScanJobs, Promise!Spec

-----------------------------------------------------------------------------
(* The progress of a job counts the addresses whose evidence it has written, *)
(* for any plan, consumers, failures and deaths: an address is still to be   *)
(* taken, held by one consumer, or recorded, and never two of these.         *)

\* Each address is taken once, and by one consumer; those of S are recorded.
Held(S) ==
  /\ todo \cap S = {}
  /\ \A w \in Workers : wpc[w] \in Holding => wip[w] \notin todo \cup S
  /\ \A v, w \in Workers :
       wpc[v] \in Holding /\ wpc[w] \in Holding /\ wip[v] = wip[w] => v = w

HeldInv == runner = "gather" => Held(seen[job])

\* Rows and the job in memory count what is recorded.
CountInv ==
  /\ ProgressIsBacked
  /\ Busy => mem.progress = Cardinality(seen[job])

-----------------------------------------------------------------------------
(* Who holds which address *)

\* A consumer that ends, or takes the next address, after S was recorded.
LEMMA TakesNext ==
  ASSUME TypeOK, NEW w \in Workers, NEW S,
         LoopHead(w) \/ \E how : Ends(w, how) /\ UNCHANGED todo,
         todo \cap S = {},
         \A v \in Workers \ {w} : wpc[v] \in Holding => wip[v] \notin todo \cup S,
         \A u, v \in Workers \ {w} :
           wpc[u] \in Holding /\ wpc[v] \in Holding /\ wip[u] = wip[v] => u = v
  PROVE  Held(S)'
<1> USE DEF Held
<1>1. CASE \E how : Ends(w, how) /\ UNCHANGED todo
  <2>1. /\ UNCHANGED <<todo, wip>> /\ wpc'[w] \notin Holding
        /\ \A v \in Workers \ {w} : wpc'[v] = wpc[v]
    BY <1>1 DEF Ends, TypeOK, Holding
  <2> HIDE DEF Workers
  <2>2. QED  BY <2>1
<1>2. CASE \E a \in todo : /\ todo' = todo \ {a} /\ wip' = [wip EXCEPT ![w] = a]
                           /\ wpc' = [wpc EXCEPT ![w] = "wait"]
  <2>1. PICK a \in todo : /\ todo' = todo \ {a} /\ wip' = [wip EXCEPT ![w] = a]
                          /\ wpc' = [wpc EXCEPT ![w] = "wait"]
    BY <1>2
  <2>2. /\ wip'[w] = a
        /\ \A v \in Workers \ {w} : wpc'[v] = wpc[v] /\ wip'[v] = wip[v]
    BY <2>1 DEF TypeOK
  <2> HIDE DEF Workers
  <2>3. QED  BY <2>1, <2>2
<1>3. QED  BY <1>1, <1>2 DEF LoopHead

\* Steps that take no address.
LEMMA HeldFrame ==
  ASSUME HeldInv, UNCHANGED <<todo, wip, seen, job>>, runner' = "gather" => runner = "gather",
         \A w \in Workers : wpc'[w] \in Holding => wpc[w] \in Holding
  PROVE  HeldInv'
  BY DEF HeldInv, Held

-----------------------------------------------------------------------------
(* What is counted *)

\* Evidence is of addresses of a finite plan.
LEMMA SeenIsFinite ==
  ASSUME IInv, NEW j \in Jobs
  PROVE  IsFiniteSet(seen[j]) /\ Cardinality(seen[j]) \in Nat
<1>1. seen[j] \subseteq Addrs
  BY DEF IInv, TypeOK
<1>2. IsFiniteSet(seen[j])
  BY <1>1, RunnerAssumption, FS_Subset
<1>3. QED  BY <1>2, FS_CardinalityType

\* Steps that record nothing and save no progress.
LEMMA CountFrame ==
  ASSUME CountInv, UNCHANGED <<stored, seen>>,
         \A j \in Jobs : row'[j] = "complete" => row[j] = "complete",
         Busy' => Busy /\ job' = job /\ mem'.progress = mem.progress
  PROVE  CountInv'
  BY DEF CountInv, ProgressIsBacked

\* Steps that save the progress of the job in memory.
LEMMA SavesProgress ==
  ASSUME IInv, CountInv, Busy, UNCHANGED <<seen, job>>,
         stored' = [stored EXCEPT ![job] = mem.progress],
         \A j \in Jobs \ {job} : row'[j] = "complete" => row[j] = "complete",
         mem'.progress = mem.progress
  PROVE  CountInv'
<1>1. job \in Jobs /\ stored \in [Jobs -> Nat]
  BY DEF IInv, TaskInv, TypeOK, Busy
<1>2. mem.progress = Cardinality(seen[job]) /\ Cardinality(seen[job]) \in Nat
  BY <1>1, SeenIsFinite DEF CountInv
<1>3. QED  BY <1>1, <1>2 DEF CountInv, ProgressIsBacked

\* The end of a run.
LEMMA FinishCounts ==
  ASSUME IInv, CountInv, Busy, NEW m, NEW raise \in BOOLEAN, NEW last, NEW n,
         m.progress = mem.progress, m.status \in {"complete", "cancelled", "failed"},
         last = "complete" => row[job] = "complete", Finish(m, raise, last, n)
  PROVE  CountInv'
<1>1. job \in Jobs /\ TypeOK
  BY DEF IInv, TaskInv, TypeOK, Busy
<1>2. \A j \in Jobs \ {job} : row'[j] = "complete" => row[j] = "complete"
  <2>1. \A j \in Jobs \ {job} : \/ row'[j] = row[j]
                                \/ row[j] \in Promise!Terminal /\ row'[j] = "pruned"
    BY <1>1, FinishRows DEF Ended
  <2>2. QED  BY <2>1
<1>f. UNCHANGED <<seen, job>> /\ mem' = m /\ ~Busy'
  BY DEF Finish, history, Busy
<1>3. CASE stored' = [stored EXCEPT ![job] = m.progress]
  BY <1>2, <1>3, <1>f, SavesProgress
<1>4. CASE row' = [row EXCEPT ![job] = last] /\ UNCHANGED stored
  <2>1. \A j \in Jobs : row'[j] = "complete" => row[j] = "complete"
    BY <1>1, <1>4 DEF TypeOK
  <2>2. QED  BY <1>4, <1>f, <2>1, CountFrame
<1>5. QED  BY <1>3, <1>4 DEF Finish, SaveJob

\* A result is recorded: of an address not recorded before.
LEMMA RecordStep ==
  ASSUME IInv, CountInv, HeldInv, NEW w \in Workers, NEW b \in BOOLEAN, Records(w, b)
  PROVE  CountInv' /\ HeldInv'
<1>0. TypeOK /\ WorkerInv /\ TaskInv
  BY DEF IInv
<1>a. runner = "gather" /\ UNCHANGED <<runner, job>>
  BY <1>0 DEF Records, WorkerInv, Active, TypeOK, Gone
<1>1. /\ TypeOK /\ runner = "gather" /\ job \in Jobs /\ Busy
      /\ UNCHANGED <<runner, job>> /\ Busy'
  BY <1>0, <1>a DEF TaskInv, TypeOK, Busy
<1>2. Held(seen[job]) /\ wpc[w] \in Holding /\ wip[w] \notin seen[job] /\ wip[w] \notin todo
  BY <1>1 DEF HeldInv, Held, Records, Holding
<1>3. /\ seen' = [seen EXCEPT ![job] = @ \cup {wip[w]}]
      /\ mem'.progress = mem.progress + 1
  BY <1>1 DEF Records, Evidence, TypeOK
<1>4. /\ seen'[job] = seen[job] \cup {wip[w]}
      /\ \A j \in Jobs \ {job} : seen'[j] = seen[j]
  BY <1>1, <1>3 DEF TypeOK
<1>5. /\ Cardinality(seen[job]) \in Nat
      /\ Cardinality(seen'[job]) = Cardinality(seen[job]) + 1
  BY <1>1, <1>2, <1>4, SeenIsFinite, FS_AddElement
<1>6. CountInv'
  <2>1. mem'.progress = Cardinality(seen'[job])
    BY <1>1, <1>3, <1>5 DEF CountInv
  <2>2. row[job] = "running" /\ mem.status = "running"
    BY <1>1 DEF IInv, StatusInv
  <2>3. row' = row \/ row' = [row EXCEPT ![job] = mem.status]
    BY <1>1 DEF Records, SaveJob, NoSave, TypeOK
  <2>4. \A j \in Jobs : row'[j] = row[j]
    BY <1>1, <2>2, <2>3 DEF TypeOK
  <2>5. stored' = stored \/ stored' = [stored EXCEPT ![job] = mem.progress + 1]
    BY <1>1 DEF Records, SaveJob, NoSave, TypeOK
  <2>6. stored \in [Jobs -> Nat] /\ stored[job] <= Cardinality(seen[job])
    BY <1>1 DEF CountInv, ProgressIsBacked, TypeOK
  <2>7. \A j \in Jobs \ {job} : stored'[j] = stored[j]
    BY <2>5, <2>6
  <2>8. stored'[job] <= Cardinality(seen'[job])
    <3>1. CASE stored' = stored
      BY <1>1, <1>5, <2>6, <3>1
    <3>2. CASE stored' = [stored EXCEPT ![job] = mem.progress + 1]
      BY <1>1, <1>5, <2>6, <3>2 DEF CountInv
    <3>3. QED  BY <2>5, <3>1, <3>2
  <2>9. ProgressIsBacked'
    <3> SUFFICES ASSUME NEW j \in Jobs
                 PROVE  /\ stored'[j] <= Cardinality(seen'[j])
                        /\ row'[j] = "complete" => stored'[j] = Cardinality(seen'[j])
      BY DEF ProgressIsBacked
    <3>1. CASE j = job
      BY <1>1, <2>2, <2>4, <2>8, <3>1
    <3>2. CASE j # job
      BY <1>4, <2>4, <2>7, <3>2 DEF CountInv, ProgressIsBacked
    <3>3. QED  BY <3>1, <3>2
  <2>10. QED  BY <1>1, <2>1, <2>9 DEF CountInv
<1>7. HeldInv'
  <2>1. PICK S : S = seen'[job]
    OBVIOUS
  <2>2. LoopHead(w) \/ \E how : Ends(w, how) /\ UNCHANGED todo
    BY DEF Records
  <2>3. /\ todo \cap S = {}
        /\ \A v \in Workers \ {w} : wpc[v] \in Holding => wip[v] \notin todo \cup S
        /\ \A u, v \in Workers \ {w} :
             wpc[u] \in Holding /\ wpc[v] \in Holding /\ wip[u] = wip[v] => u = v
    <3> HIDE DEF Workers
    <3>1. QED  BY <1>2, <1>4, <2>1 DEF Held
  <2>4. Held(S)'
    BY <1>1, <2>2, <2>3, TakesNext
  <2>5. QED  BY <1>1, <2>1, <2>4 DEF HeldInv, Held
<1>8. QED  BY <1>6, <1>7

-----------------------------------------------------------------------------
(* Every step *)

LEMMA ProgressInit == Init => CountInv /\ HeldInv
<1> SUFFICES ASSUME Init PROVE CountInv /\ HeldInv
  OBVIOUS
<1>1. \A j \in Jobs : stored[j] = 0 /\ seen[j] = {} /\ row[j] = "absent"
  BY DEF Init
<1>2. Cardinality({}) = 0
  BY FS_EmptySet
<1>3. QED  BY <1>1, <1>2 DEF Init, CountInv, ProgressIsBacked, HeldInv, Busy

LEMMA ProgressStep ==
  IInv /\ IInv' /\ CountInv /\ HeldInv /\ [Next]_vars => CountInv' /\ HeldInv'
<1> SUFFICES ASSUME IInv, IInv', CountInv, HeldInv, [Next]_vars
             PROVE  CountInv' /\ HeldInv'
  OBVIOUS
<1>i. TypeOK /\ TaskInv /\ StatusInv /\ RowInv /\ WorkerInv /\ PlanInv /\ EvidenceInv
  BY DEF IInv
<1>s. \A s : With(s).progress = mem.progress /\ With(s).status = s
  BY <1>i DEF With, TypeOK
<1>c. [With("cancelled") EXCEPT !.cancel = TRUE].progress = mem.progress
  BY <1>i DEF With, TypeOK
<1>1. ASSUME NEW r \in Requests, NEW ok \in BOOLEAN, Start(r, ok)
      PROVE  CountInv' /\ HeldInv'
  <2>1. PICK j \in Jobs : /\ Promise!Fresh(row, j) /\ row' = [row EXCEPT ![j] = "queued"]
                          /\ job' = j
    BY <1>1 DEF Start
  <2>2. seen[j] = {}
    BY <1>i, <2>1 DEF Promise!Fresh, PlanInv
  <2>3. /\ UNCHANGED <<stored, seen>> /\ mem'.progress = 0 /\ runner' = "created"
    BY <1>1 DEF Start, NewJob
  <2>4. \A k \in Jobs : row'[k] = "complete" => row[k] = "complete"
    BY <1>i, <2>1 DEF TypeOK
  <2>5. Cardinality({}) = 0
    BY FS_EmptySet
  <2>6. QED  BY <2>1, <2>2, <2>3, <2>4, <2>5 DEF CountInv, ProgressIsBacked, HeldInv, Busy
<1>2. ASSUME CancelJob, Cancellable PROVE CountInv' /\ HeldInv'
  <2>1. /\ UNCHANGED <<seen, job, runner, todo, wip, wpc>> /\ mem'.progress = mem.progress
        /\ stored' = [stored EXCEPT ![job] = mem.progress]
        /\ row' = [row EXCEPT ![job] = mem.status] /\ Busy
    BY <1>2, <1>i DEF CancelJob, SaveJob, Cancellable, history, TypeOK
  <2>2. \A j \in Jobs \ {job} : row'[j] = "complete" => row[j] = "complete"
    BY <1>i, <2>1 DEF TypeOK
  <2>3. CountInv'
    BY <2>1, <2>2, SavesProgress
  <2>4. HeldInv'
    BY <2>1, HeldFrame
  <2>5. QED  BY <2>3, <2>4
<1>3. CASE CancelUnsaved
  <2>1. /\ UNCHANGED <<row, stored, seen, job, runner, todo, wip, wpc>>
        /\ mem'.progress = mem.progress
    BY <1>3, <1>i DEF CancelUnsaved, durable, workers, history, TypeOK
  <2>2. CountInv' /\ HeldInv'
    BY <2>1, CountFrame, HeldFrame DEF Busy
  <2>3. QED  BY <2>2
<1>4. ASSUME NEW m, NEW raise \in BOOLEAN, NEW last, NEW n, Finish(m, raise, last, n), Busy,
             m.progress = mem.progress, m.status \in {"complete", "cancelled", "failed"},
             last = "complete" => row[job] = "complete"
      PROVE  CountInv' /\ HeldInv'
  BY <1>4, FinishCounts DEF Finish, HeldInv
<1>5. CASE RunnerSkips
  BY <1>4, <1>5, <1>s DEF RunnerSkips, Busy
<1>6. CASE RunnerFailsToStart
  BY <1>4, <1>6, <1>s DEF RunnerFailsToStart, Busy
<1>7. CASE RunnerFinishes
  <2>1. raising \in BOOLEAN /\ mem.status \in {"complete", "cancelled", "failed"}
    BY <1>7, <1>i DEF RunnerFinishes, StatusInv, TypeOK
  <2>2. QED  BY <1>4, <1>7, <2>1 DEF RunnerFinishes, Busy
<1>8. CASE RunnerSpawns
  <2>1. /\ UNCHANGED <<seen, job, todo>> /\ mem'.progress = mem.progress /\ Busy
        /\ stored' = [stored EXCEPT ![job] = mem.progress]
        /\ row' = [row EXCEPT ![job] = "running"]
    BY <1>8, <1>s DEF RunnerSpawns, SaveJob, history, Busy
  <2>2. \A j \in Jobs \ {job} : row'[j] = "complete" => row[j] = "complete"
    BY <1>i, <2>1 DEF TypeOK
  <2>3. CountInv'
    BY <2>1, <2>2, SavesProgress
  <2>4. seen[job] = {} /\ \A w \in Workers : wpc'[w] \notin Holding
    BY <1>8, <1>i DEF RunnerSpawns, EvidenceInv, Holding
  <2>5. HeldInv'
    BY <2>1, <2>4 DEF HeldInv, Held
  <2>6. QED  BY <2>3, <2>5
<1>9. CASE RunnerCompletes \/ RunnerAborts
  <2>1. /\ UNCHANGED <<row, stored, seen, job>> /\ runner = "gather" /\ runner' = "cleanup"
        /\ mem'.progress = mem.progress
    BY <1>9, <1>s, <1>c DEF RunnerCompletes, RunnerAborts, CleansUp, durable, history
  <2>2. CountInv'
    BY <2>1, CountFrame DEF Busy
  <2>3. QED  BY <2>1, <2>2 DEF HeldInv
<1>10. ASSUME NEW w \in Workers, WorkerStarts(w) PROVE CountInv' /\ HeldInv'
  <2>1. UNCHANGED <<row, stored, seen, job, runner, mem>>
    BY <1>10 DEF WorkerStarts, durable, history
  <2>2. CountInv'
    BY <2>1, CountFrame DEF Busy
  <2>3. ASSUME runner = "gather" PROVE HeldInv'
    <3>1. PICK S : S = seen[job]
      OBVIOUS
    <3>2. Held(S)
      BY <2>3, <3>1 DEF HeldInv
    <3>3. Held(S)'
      BY <1>10, <1>i, <3>2, TakesNext DEF WorkerStarts, Held
    <3>4. QED  BY <2>1, <3>1, <3>3 DEF HeldInv, Held
  <2>4. QED  BY <2>1, <2>2, <2>3 DEF HeldInv
<1>11. ASSUME NEW w \in Workers,
              \/ Admitted(w) \/ ProbeReturns(w) \/ WorkerCancelled(w)
              \/ \E how \in {"db", "other"} : RecordFails(w, how)
       PROVE  CountInv' /\ HeldInv'
  <2>1. UNCHANGED <<row, stored, seen, job, runner, mem, todo, wip>>
    BY <1>11 DEF Admitted, ProbeReturns, WorkerCancelled, RecordFails, Ends, durable, task, history
  <2>2. \A v \in Workers : wpc'[v] \in Holding => wpc[v] \in Holding
    BY <1>11, <1>i DEF Admitted, ProbeReturns, WorkerCancelled, RecordFails, Ends, Holding, TypeOK
  <2>3. QED  BY <2>1, <2>2, CountFrame, HeldFrame DEF Busy
<1>12. CASE Reap
  <2>1. UNCHANGED <<row, stored, seen, job, runner, mem, todo, wip>>
    BY <1>12 DEF Reap, durable, history
  <2>2. \A v \in Workers : wpc'[v] \in Holding => wpc[v] \in Holding
    BY <1>12, <1>i DEF Reap, Holding, TypeOK
  <2>3. QED  BY <2>1, <2>2, CountFrame, HeldFrame DEF Busy
<1>13. CASE Close
  <2>1. CASE Cancellable
    BY <1>2, <1>13, <2>1 DEF Close
  <2>2. CASE ~Cancellable
    <3>1. UNCHANGED <<row, stored, seen, job, runner, mem, todo, wip, wpc>>
      BY <1>13, <2>2 DEF Close, durable, task, workers, history
    <3>2. QED  BY <3>1, CountFrame, HeldFrame DEF Busy
  <2>3. QED  BY <2>1, <2>2
<1>14. CASE CloseReturns \/ Crash
  <2>1. UNCHANGED <<row, stored, seen>> /\ runner' = "none"
    BY <1>14 DEF CloseReturns, Crash, Down, NoTask, durable, history
  <2>2. QED  BY <2>1, CountFrame DEF Busy, HeldInv
<1>15. CASE Restart
  <2>1. UNCHANGED <<stored, seen, runner>> /\ runner = "none"
    BY <1>15, <1>i DEF Restart, TaskInv, task, history
  <2>2. row' = Promise!Pruned(Promise!Interrupted(row))
    BY <1>15 DEF Restart
  <2>3. \A j \in Jobs : row'[j] = "complete" => row[j] = "complete"
    BY <2>2, PrunedRow, InterruptedRow
  <2>4. QED  BY <2>1, <2>3, CountFrame DEF Busy, HeldInv
<1>16. CASE UNCHANGED vars
  <2>1. UNCHANGED <<row, stored, seen, job, runner, mem, todo, wip, wpc>>
    BY <1>16 DEF vars, durable, task, workers, history
  <2>2. QED  BY <2>1, CountFrame, HeldFrame DEF Busy
<1>17. CASE Cancel
  BY <1>2, <1>17 DEF Cancel
<1>18. QED
  BY <1>1, <1>3, <1>5, <1>6, <1>7, <1>8, <1>9, <1>10, <1>11, <1>12, <1>13, <1>14, <1>15,
     <1>16, <1>17, RecordStep
  DEF Next, Runner, Worker

\* Progress is backed by evidence, and counts all of it when a job is complete
\* (consume in _run, save_job).
THEOREM Progress == Spec => []ProgressIsBacked
<1>1. Init => IInv /\ CountInv /\ HeldInv
  BY InvInit, ProgressInit
<1>2. (IInv /\ IInv') /\ (CountInv /\ HeldInv) /\ [Next]_vars => (CountInv /\ HeldInv)'
  BY ProgressStep
<1>3. CountInv => ProgressIsBacked
  BY DEF CountInv
<1>4. QED  BY <1>1, <1>2, <1>3, Invariant, PTL DEF Spec

\* No observation at a covered address is older than the coverage (the delete
\* of silent responders in consume, save_coverage after it).
THEOREM FreshCoverage == Spec => []CoverageIsFresh
<1>1. IInv => CoverageIsFresh
  BY DEF IInv, EvidenceInv, CoverageIsFresh
<1>2. QED  BY <1>1, Invariant, PTL
=============================================================================
