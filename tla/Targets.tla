------------------------------- MODULE Targets -------------------------------
(***************************************************************************)
(* The interval arithmetic of targets.py and of the stored coverage        *)
(* (persistence.py), over addresses of Bits bits: a prefix of Bits - 1     *)
(* plays a /31 and one of Bits a /32.  An interval is a pair of inclusive  *)
(* bounds; a plan is a sequence of them, as the code's tuples are.         *)
(***************************************************************************)
EXTENDS Integers, FiniteSets, Sequences, SequencesExt

CONSTANT Bits

ASSUME TargetsAssumption == Bits \in Nat \ {0}

PrefixLengths == 0 .. Bits
Size[p \in PrefixLengths] == IF p = Bits THEN 1 ELSE 2 * Size[p + 1]
Space == 0 .. Size[0] - 1

\* IPv4Network(strict=False): the base of the prefix.
Network(a, p) == [base |-> a - (a % Size[p]), prefix |-> p]
Networks      == {Network(a, p) : a \in Space, p \in PrefixLengths}

Rejected == [is |-> "rejected"]
Requests ==
  [mode : {"full", "known-only", "discovery-only"},
   target : [scope : {"all"}] \cup [scope : {"subnet"}, network : Networks]
            \cup [scope : {"range"}, first : Space, last : Space]]     \* an IP is a range

Before(i, j) == i[1] < j[1] \/ (i[1] = j[1] /\ i[2] < j[2])
Sorted(S) == CHOOSE q \in [1 .. Cardinality(S) -> S] :
               ToSet(q) = S /\ \A m, n \in DOMAIN q : m < n => Before(q[m], q[n])
Width(i)     == i[2] - i[1] + 1
Total(plan)  == FoldLeft(LAMBDA n, i : n + Width(i), 0, plan)
Covered(plan) == UNION {i[1] .. i[2] : i \in ToSet(plan)}

-----------------------------------------------------------------------------
(* The planner *)

\* Mutant: intervals that touch stay apart.
MergeOverlapping(S) ==
  FoldLeft(LAMBDA m, i : IF m # <<>> /\ i[1] <= Last(m)[2]
                         THEN [m EXCEPT ![Len(m)] = <<@[1], Max({i[2], @[2]})>>]
                         ELSE Append(m, i), <<>>, Sorted(S))

\* merge_intervals: sorted, overlapping and touching ones made one.
MergeIntervals(S) ==
  FoldLeft(LAMBDA m, i : IF m # <<>> /\ i[1] <= Last(m)[2] + 1
                         THEN [m EXCEPT ![Len(m)] = <<@[1], Max({i[2], @[2]})>>]
                         ELSE Append(m, i), <<>>, Sorted(S))

\* Mutant: a /31 loses both of its addresses.
BoundsOfAll(net, hosts) ==
  LET offset == IF hosts /\ net.prefix < Bits THEN 1 ELSE 0 IN
  <<net.base + offset, net.base + Size[net.prefix] - 1 - offset>>

\* _bounds: without network and broadcast address, where there are hosts.
Bounds(net, hosts) ==
  LET offset == IF hosts /\ net.prefix < Bits - 1 THEN 1 ELSE 0 IN
  <<net.base + offset, net.base + Size[net.prefix] - 1 - offset>>

\* _contains: by the last interval that starts no later, found by bisection.
ContainedIn(plan, first, last) ==
  LET starts == {n \in DOMAIN plan : plan[n][1] <= first} IN
  /\ starts # {} /\ first <= last
  /\ last <= plan[Max(starts)][2]

\* plan_targets, discovery-only: the known addresses cut out of an interval,
\* as far as a cursor.
Cut(interval, known) ==
  FoldLeft(LAMBDA c, i : [cursor |-> i[1] + 1, out |->
             IF c.cursor < i[1] THEN Append(c.out, <<c.cursor, i[1] - 1>>) ELSE c.out],
           [cursor |-> interval[1], out |-> <<>>],
           Sorted({<<a, a>> : a \in known \cap (interval[1] .. interval[2])}))

\* And what is left behind the last.
Gaps(interval, known) ==
  LET cut == Cut(interval, known) IN
  IF cut.cursor <= interval[2] THEN Append(cut.out, <<cut.cursor, interval[2]>>) ELSE cut.out

\* plan_targets.
PlanTargets(q, declared, known) ==
  LET hosts == q.mode # "known-only"
      within == MergeIntervals({Bounds(net, FALSE) : net \in declared})
      net == q.target.network
      whole == Bounds(net, FALSE)
      selected ==
        CASE q.target.scope = "all" -> MergeIntervals({Bounds(n, hosts) : n \in declared})
          [] q.target.scope = "subnet" -> <<Bounds(net, hosts)>>
          [] q.target.scope = "range" -> << <<q.target.first, q.target.last>> >>
      hit == {a \in known : ContainedIn(selected, a, a)} IN
  IF \/ q.target.scope = "subnet" /\ ~ContainedIn(within, whole[1], whole[2])
     \/ \E i \in ToSet(selected) : ~ContainedIn(within, i[1], i[2])
  THEN Rejected
  ELSE [is |-> "plan", intervals |->
          CASE q.mode = "full" -> selected
            [] q.mode = "known-only" -> MergeIntervals({<<a, a>> : a \in hit})
            [] q.mode = "discovery-only" ->
                 FlattenSeq([n \in DOMAIN selected |-> Gaps(selected[n], hit)])]

-----------------------------------------------------------------------------
(* Stored coverage *)

\* Mutant: the left remainder keeps the first of the new addresses.
TrimmedLate(old, new) ==
  IF old[2] < new[1] \/ old[1] > new[2] THEN <<old>>
  ELSE (IF old[1] < new[1] THEN << <<old[1], new[1]>> >> ELSE <<>>)
       \o (IF old[2] > new[2] THEN << <<new[2] + 1, old[2]>> >> ELSE <<>>)

\* save_discovery_coverage: what a new interval leaves of an old one.
Trimmed(old, new) ==
  IF old[2] < new[1] \/ old[1] > new[2] THEN <<old>>
  ELSE (IF old[1] < new[1] THEN << <<old[1], new[1] - 1>> >> ELSE <<>>)
       \o (IF old[2] > new[2] THEN << <<new[2] + 1, old[2]>> >> ELSE <<>>)

\* And what a plan leaves of a row.
Remaining(row, plan) ==
  FoldLeft(LAMBDA rest, new : FlattenSeq([n \in DOMAIN rest |-> Trimmed(rest[n], new)]),
           row, plan)

-----------------------------------------------------------------------------
(* The reference: what a request asks for, address by address *)

Whole(net) == net.base .. net.base + Size[net.prefix] - 1

\* In a network of more than two addresses the first and the last are no hosts.
Hosts(net) ==
  IF Size[net.prefix] > 2
  THEN Whole(net) \ {net.base, net.base + Size[net.prefix] - 1} ELSE Whole(net)

Asked(target, mode, declared) ==
  LET of(net) == IF mode = "known-only" THEN Whole(net) ELSE Hosts(net) IN
  CASE target.scope = "all" -> UNION {of(net) : net \in declared}
    [] target.scope = "subnet" -> of(target.network)
    [] target.scope = "range" -> target.first .. target.last

Allowed(q, declared) ==
  LET whole == UNION {Whole(net) : net \in declared} IN
  CASE q.target.scope = "all" -> TRUE
    [] q.target.scope = "subnet" -> Whole(q.target.network) \subseteq whole
    [] q.target.scope = "range" -> /\ q.target.first <= q.target.last
                                   /\ q.target.first .. q.target.last \subseteq whole

Wanted(q, declared, known) ==
  LET asked == Asked(q.target, q.mode, declared) IN
  CASE q.mode = "full" -> asked
    [] q.mode = "known-only" -> asked \cap known
    [] q.mode = "discovery-only" -> asked \ known

\* Increasing, apart and not touching: as few intervals as the set allows.
Canonical(plan) ==
  /\ \A n \in DOMAIN plan : plan[n][1] <= plan[n][2]
  /\ \A n \in 1 .. Len(plan) - 1 : plan[n][2] + 1 < plan[n + 1][1]

=============================================================================
