------------------------------ MODULE Coverage ------------------------------
(***************************************************************************)
(* Scans from request to stored coverage: targets.py plans a request over  *)
(* the inventory read with it, the runner (ScanRunner.tla) scans the plan, *)
(* and a scan that completes saves its intervals in the runtime store,     *)
(* which cuts them out of the rows of earlier scans.                       *)
(***************************************************************************)
EXTENDS Targets

CONSTANTS
  Inventories,   \* what the document may say: declared networks, known addresses
  Threshold,     \* manual_scan_confirmation_threshold
  MaxJobs        \* bound: completed scans

ASSUME CoverageAssumption ==
  /\ Inventories \subseteq [declared : SUBSET Networks, known : SUBSET Space]
  /\ Inventories # {} /\ Threshold \in Nat /\ MaxJobs \in Nat

VARIABLES
  inventory,     \* what the document says now
  run,           \* the last request: its inventory, its plan, and whether it runs
  rows,          \* table discovery_coverage: [job, intervals]
  job            \* the jobs that completed

vars == <<inventory, run, rows, job>>

NoRun == [plan |-> Rejected, runs |-> FALSE]

Init ==
  /\ inventory \in Inventories
  /\ run = NoRun /\ rows = {} /\ job = 0

Edit ==
  /\ inventory' \in Inventories \ {inventory}
  /\ UNCHANGED <<run, rows, job>>

\* A large manual scan runs only when it was confirmed.
Accepted(plan, approved) ==
  plan # Rejected /\ (approved \/ Total(plan.intervals) <= Threshold)

\* start_request while no scan is active: the plan, or the ValueError.  A request
\* is approved when it comes from a schedule or was confirmed.
Start(q, approved) ==
  /\ run = NoRun /\ job < MaxJobs
  /\ LET plan == PlanTargets(q, inventory.declared, inventory.known) IN
     run' = [request |-> q, approved |-> approved, inventory |-> inventory, plan |-> plan,
             runs |-> Accepted(plan, approved)]
  /\ UNCHANGED <<inventory, rows, job>>

\* save_discovery_coverage: one transaction.
SaveDiscoveryCoverage(intervals) ==
  LET cut == {[row EXCEPT !.intervals = Remaining(@, intervals)] : row \in rows} IN
  rows' = {row \in cut : row.intervals # <<>>} \cup
          IF intervals = <<>> THEN {} ELSE {[job |-> job + 1, intervals |-> intervals]}

\* The end of _run: of a scan that visited every target, the coverage is saved.
Complete ==
  /\ run.runs
  /\ job' = job + 1
  /\ IF run.request.mode # "known-only"
     THEN SaveDiscoveryCoverage(run.plan.intervals) ELSE UNCHANGED rows
  /\ run' = NoRun
  /\ UNCHANGED inventory

\* Refused, cancelled, failed or interrupted by a restart: nothing is saved.
Abandon ==
  /\ run # NoRun
  /\ run' = NoRun
  /\ UNCHANGED <<inventory, rows, job>>

Next == \/ Edit \/ Complete \/ Abandon
        \/ \E q \in Requests, approved \in BOOLEAN : Start(q, approved)

Spec == Init /\ [][Next]_vars

-----------------------------------------------------------------------------

\* A request is refused exactly when it reaches outside the declared networks, or
\* asks by hand for more addresses than may be scanned unconfirmed; an accepted
\* one visits each address it asks for once, hosts of each network for a discovery
\* and known addresses wherever they lie, and counts them right (plan_targets,
\* _bounds at /31 and /32, merge_intervals, the gaps, start_request).
PlansAreExact ==
  run # NoRun =>
    LET declared == run.inventory.declared
        wanted   == Wanted(run.request, declared, run.inventory.known) IN
    /\ run.runs <=> /\ Allowed(run.request, declared)
                    /\ run.approved \/ Cardinality(wanted) <= Threshold
    /\ run.runs => /\ Covered(run.plan.intervals) = wanted
                   /\ Total(run.plan.intervals) = Cardinality(wanted)

\* Storage grows with the boundaries of coverage (the docstring of
\* save_discovery_coverage): every row is in canonical form, none is empty, and
\* no address is in two of them, whatever was scanned over what.
RowsAreCanonical ==
  /\ \A row \in rows : row.intervals # <<>> /\ Canonical(row.intervals)
  /\ \A r, s \in rows : r # s => Covered(r.intervals) \cap Covered(s.intervals) = {}

Covering(a) == {row \in rows : a \in Covered(row.intervals)}

Latest == INSTANCE LatestCoverage WITH
  asked  <- IF run.runs THEN [request |-> run.request, inventory |-> run.inventory]
            ELSE [request |-> "none"],
  latest <- [a \in Space |-> IF Covering(a) = {} THEN 0
                             ELSE (CHOOSE row \in Covering(a) : TRUE).job]

\* The rows say of every address which scan covered it last, as if each address
\* kept its own mark: no cut loses an address, invents one, or leaves it with an
\* older scan (save_discovery_coverage, plan_targets).
LatestWins == Latest!Spec

=============================================================================
