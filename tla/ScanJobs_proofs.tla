--------------------------- MODULE ScanJobs_proofs ---------------------------
(***************************************************************************)
(* The promise of the scan manager, whatever its bounds: one live row, and *)
(* outcomes that stand.  Through ScanRunner_proofs!Refinement both hold of *)
(* the runner too.                                                         *)
(***************************************************************************)
EXTENDS ScanJobs, TLAPS

Inv == TypeOK /\ OneLive

\* The groups of statuses, spelled out.
LEMMA Names ==
  /\ Live = {"queued", "running"}
  /\ Terminal = {"complete", "cancelled", "failed", "interrupted"}
  /\ Status = {"queued", "running", "complete", "cancelled", "failed", "interrupted",
               "absent", "pruned"}
  /\ Outcomes = {"complete", "cancelled", "failed"}
  BY DEF Live, Terminal, Status, Outcomes

\* The changes a working runner makes to the table keep its type, add no live
\* row, end or leave live rows, and touch no other row.
LEMMA RunnerRows ==
  ASSUME TypeOK, NEW st \in Begun(status) \cup Ended(status)
  PROVE  /\ st \in [Jobs -> Status]
         /\ \A j \in Jobs : st[j] \in Live => status[j] \in Live
         /\ \A j \in Jobs : status[j] \notin Live => st[j] = status[j]
         /\ \A j \in Jobs : status[j] = "running" => st[j] \in Outcomes \cup {"running"}
         /\ \A j \in Jobs : status[j] = "queued" => st[j] \in Outcomes \cup Live
  BY Names DEF TypeOK, Begun, Ended

\* Pruning keeps the type, leaves live rows alone, and turns only ended rows
\* into pruned ones.
LEMMA PrunedRows ==
  ASSUME NEW st \in [Jobs -> Status]
  PROVE  /\ Pruned(st) \in [Jobs -> Status]
         /\ \A j \in Jobs : \/ Pruned(st)[j] = st[j]
                            \/ st[j] \in Terminal /\ Pruned(st)[j] = "pruned"
  BY Names DEF Pruned

\* A restart leaves no live row, and only live rows become interrupted.
LEMMA InterruptedRows ==
  ASSUME NEW st \in [Jobs -> Status]
  PROVE  /\ Interrupted(st) \in [Jobs -> Status]
         /\ \A j \in Jobs : Interrupted(st)[j] =
                              IF st[j] \in Live THEN "interrupted" ELSE st[j]
  BY Names DEF Interrupted

\* What any step does to the rows, row by row.
StepRows ==
  \A j \in Jobs :
    /\ status[j] \in Terminal => status'[j] \in {status[j], "pruned"}
    /\ status[j] = "pruned" => status'[j] = "pruned"
    /\ status[j] = "running" => status'[j] \notin {"queued", "absent"}

\* Every step keeps the invariant, and lets outcomes stand.
LEMMA Step == Inv /\ [Next]_<<status, task>> => Inv' /\ StepRows
  <1>. SUFFICES ASSUME Inv, [Next]_<<status, task>> PROVE Inv' /\ StepRows
    OBVIOUS
  <1>. USE Names DEF Inv, StepRows
  <1>1. ASSUME NEW j \in Jobs, Submit(j) PROVE Inv' /\ StepRows
    BY <1>1 DEF Submit, Fresh, TypeOK, OneLive, NoneLive
  <1>2. CASE Progress
    BY <1>2, RunnerRows DEF Progress, TypeOK, OneLive, NoneLive
  <1>3. CASE Finish
    <2>1. PICK st \in Ended(status) : NoneLive(st) /\ status' = Pruned(st)
      BY <1>3 DEF Finish
    <2>2. st \in [Jobs -> Status]
      BY <2>1, RunnerRows
    <2>. QED
      BY <1>3, <2>1, <2>2, RunnerRows, PrunedRows DEF Finish, TypeOK, OneLive, NoneLive
  <1>4. CASE Raise
    <2>1. CASE status' \in Begun(status) \cup Ended(status)
      BY <1>4, <2>1, RunnerRows DEF Raise, TypeOK, OneLive, NoneLive
    <2>2. CASE \E st \in Ended(status) : status' = Pruned(st)
      <3>1. PICK st \in Ended(status) : status' = Pruned(st)
        BY <2>2
      <3>2. st \in [Jobs -> Status]
        BY <3>1, RunnerRows
      <3>. QED
        BY <1>4, <3>1, <3>2, RunnerRows, PrunedRows DEF Raise, TypeOK, OneLive, NoneLive
    <2>. QED  BY <1>4, <2>1, <2>2 DEF Raise
  <1>5. CASE Die
    BY <1>5 DEF Die, TypeOK, OneLive
  <1>6. CASE Recover
    <2>1. Interrupted(status) \in [Jobs -> Status]
      BY InterruptedRows DEF TypeOK
    <2>. QED
      BY <1>6, <2>1, InterruptedRows, PrunedRows DEF Recover, TypeOK, OneLive, NoneLive
  <1>7. CASE UNCHANGED <<status, task>>
    BY <1>7 DEF TypeOK, OneLive, NoneLive
  <1>. QED  BY <1>1, <1>2, <1>3, <1>4, <1>5, <1>6, <1>7 DEF Next

\* At most one row of the jobs table is live at any time, and none is when the
\* runner task is over and the next job may be accepted (start_request).
THEOREM OneActiveJob == Spec => []OneLive
  <1>1. Init => Inv
    BY Names DEF Init, Inv, TypeOK, OneLive, NoneLive
  <1>. QED  BY <1>1, Step, PTL DEF Spec, Inv

\* An outcome, once in the table, stands until the row is pruned (_run saves a
\* job's last status once, initialize and prune_jobs touch no other status).
THEOREM Outcomes_Stand == Spec => OutcomesStand
  <1>1. Init => Inv
    BY Names DEF Init, Inv, TypeOK, OneLive, NoneLive
  <1>2. Inv /\ [Next]_<<status, task>> =>
          [\A j \in Jobs :
             /\ status[j] \in Terminal => status'[j] \in {status[j], "pruned"}
             /\ status[j] = "pruned" => status'[j] = "pruned"
             /\ status[j] = "running" => status'[j] \notin {"queued", "absent"}]_<<status, task>>
    BY Step DEF StepRows
  <1>. QED  BY <1>1, <1>2, Step, PTL DEF Spec, OutcomesStand
=============================================================================
