-------------------------- MODULE Schedules_proofs --------------------------
(***************************************************************************)
(* Whatever the number of schedules, their definitions and the faults: no  *)
(* trigger is tried twice or made up for, and the backlog of a schedule is *)
(* one trigger; and the runs of a schedule are shown and judged, each at   *)
(* most once.  The first invariant says that everything a schedule may     *)
(* still start for lies after everything it was started for, its last      *)
(* edit, and the last restart; the second, what the rows owe the schedule. *)
(***************************************************************************)
EXTENDS Schedules, WellFoundedInduction, FiniteSetTheorems, TLAPS

\* What a schedule may still be dispatched for, given what it was tried for.
Timely(r, tried, t) ==
  /\ tried <= t
  /\ r.enabled => r.is = "kept" /\ r.next \in Nat /\ r.next > tried
  /\ r.pending => r.enabled /\ r.last \in Nat /\ r.last > tried /\ r.last <= t

\* The scheduler may still visit the schedule: not before the recovery did.
Settled(s) == manager = "running" \/ (manager = "recovering" /\ s < cursor)

\* A schedule at rest, visited or not: what is pending is one trigger of the past.
Sane(r, tried, t) ==
  /\ tried <= t
  /\ r.enabled => r.is = "kept" /\ r.next \in Nat
  /\ r.pending => r.enabled /\ r.last \in Nat /\ r.last <= t

TimeInv  == \A s \in Ids : /\ Sane(sched[s], since[s], now)
                           /\ Settled(s) => Timely(sched[s], since[s], now)
DefInv   == \A s \in Ids : Kept(s) => sched[s].def \in Definitions[s]
\* Rows are added in order, and with their owner.
OwnerInv == \A j \in Jobs : status[j] = "absent" =>
              owner[j] = Manual /\ \A k \in Jobs : j <= k => status[k] = "absent"
LoopInv  == /\ now <= MaxTime
            /\ manager = "recovering" => cursor # 0
            /\ \A s \in Ids : sched[s].enabled /\ s < cursor => sched[s].next > now

SInv == TypeOK /\ TimeInv /\ DefInv /\ OwnerInv /\ LoopInv

USE DEF NoJob, Manual, Never

-----------------------------------------------------------------------------
(* Arithmetic of the triggers *)

\* A nonempty set of numbers has a least one.
LEMMA Smallest ==
  ASSUME NEW T \in SUBSET Nat, T # {}
  PROVE  \E x \in T : \A y \in T : x <= y
  <1>. DEFINE R == OpToRel(<, Nat)
  <1>1. IsWellFoundedOn(R, Nat)
    BY NatLessThanWellFounded
  <1>2. PICK x \in T : \A y \in T : <<y, x>> \notin R
    <2>. HIDE DEF R
    <2>. QED  BY <1>1, WFMin
  <1>3. \A y \in T : ~(y < x)
    BY <1>2 DEF OpToRel
  <1>. QED  BY <1>3

\* The next trigger of a definition is in the future.
LEMMA NextIsLater ==
  ASSUME NEW s \in Ids, NEW d \in Definitions[s], NEW t \in 0 .. MaxTime
  PROVE  NextTrigger(d, t) \in Nat /\ NextTrigger(d, t) > t
  <1>0. d \in DefinitionRecord
    BY SchedulesAssumption DEF Ids
  <1>1. CASE d.kind = "interval"
    BY <1>0, <1>1, SchedulesAssumption DEF NextTrigger, DefinitionRecord
  <1>2. CASE d.kind # "interval"
    <2>. DEFINE T == {u \in d.on : u > t}
    <2>1. d.kind = "calendar" /\ d.on \in SUBSET Nat
      BY <1>0, <1>2 DEF DefinitionRecord
    <2>2. T \in SUBSET Nat /\ T # {}
      BY <2>1, SchedulesAssumption DEF Ids
    <2>3. PICK x \in T : \A y \in T : x <= y
      BY <2>2, Smallest
    <2>4. \E u \in d.on : u > t /\ \A v \in d.on : v > t => u <= v
      BY <2>3
    <2>. QED  BY <1>2, <2>1, <2>4 DEF NextTrigger
  <1>. QED  BY <1>1, <1>2

\* So is the trigger after an overdue one, however many were missed.
LEMMA AdvanceIsLater ==
  ASSUME NEW s \in Ids, NEW d \in Definitions[s], now \in 0 .. MaxTime,
         NEW due \in Nat, due <= now
  PROVE  Advance(d, due) \in Nat /\ Advance(d, due) > now
  <1>0. d \in DefinitionRecord
    BY SchedulesAssumption DEF Ids
  <1>1. CASE d.kind = "interval"
    <2>1. d.every \in Nat \ {0} /\ now - due \in Nat
      BY <1>0 DEF DefinitionRecord
    <2>2. \A a \in Nat, b \in Nat \ {0} : b * (a \div b + 1) \in Nat /\ b * (a \div b + 1) > a
      BY SMTT(30)
    <2>3. d.every * ((now - due) \div d.every + 1) > now - due
          /\ d.every * ((now - due) \div d.every + 1) \in Nat
      BY <2>1, <2>2
    <2>. QED  BY <1>1, <2>3 DEF Advance
  <1>2. CASE d.kind # "interval"
    BY <1>2, NextIsLater DEF Advance
  <1>. QED  BY <1>1, <1>2

-----------------------------------------------------------------------------
(* What the handlers do to one schedule *)

\* Judging the last run touches neither the definition nor the triggers.
LEMMA HarvestedRecord ==
  ASSUME NEW r \in Record
  PROVE  /\ Harvested(r) \in Record
         /\ Harvested(r).is = r.is /\ Harvested(r).enabled = r.enabled
         /\ Harvested(r).def = r.def /\ Harvested(r).pending = r.pending
         /\ Harvested(r).last = r.last /\ Harvested(r).next = r.next
  <1>1. Harvested(r) \in {r, [r EXCEPT !.status = "idle"],
                           [r EXCEPT !.status = "failed", !.failures = @ + 1, !.error = TRUE]}
    BY DEF Harvested
  <1>2. CASE Harvested(r) = r
    BY <1>2
  <1>3. CASE Harvested(r) = [r EXCEPT !.status = "idle"]
    BY <1>3 DEF Record
  <1>4. CASE Harvested(r) = [r EXCEPT !.status = "failed", !.failures = @ + 1, !.error = TRUE]
    <2>. DEFINE f == r.failures + 1
    <2>1. f \in Nat
      BY DEF Record
    <2>. HIDE DEF f
    <2>2. Harvested(r) = [r EXCEPT !.status = "failed", !.failures = f, !.error = TRUE]
      BY <1>4 DEF f
    <2>. QED  BY <2>1, <2>2 DEF Record
  <1>. QED  BY <1>1, <1>2, <1>3, <1>4

\* A due trigger becomes the pending one, and the next one is in the future.
LEMMA TriggeredRecord ==
  ASSUME NEW s \in Ids, NEW r \in Record, r.def \in Definitions[s], r.enabled,
         now \in 0 .. MaxTime, NEW tried \in Nat, Timely(r, tried, now)
  PROVE  /\ Triggered(r) \in Record
         /\ Triggered(r).is = r.is /\ Triggered(r).enabled
         /\ Triggered(r).def = r.def
         /\ Triggered(r).next > now
         /\ Timely(Triggered(r), tried, now)
  <1>1. CASE r.next > now
    BY <1>1 DEF Triggered
  <1>2. CASE ~(r.next > now)
    <2>1. r.next \in Nat /\ r.next <= now
      BY <1>2 DEF Timely
    <2>2. Advance(r.def, r.next) \in Nat /\ Advance(r.def, r.next) > now
      BY <2>1, AdvanceIsLater
    <2>3. Triggered(r) = [r EXCEPT !.pending = TRUE, !.last = r.next, !.next = Advance(r.def, r.next)]
      BY <1>2 DEF Triggered
    <2>. DEFINE n == Advance(r.def, r.next)
    <2>4. n \in Nat /\ n > now
      BY <2>2
    <2>. HIDE DEF n
    <2>5. Triggered(r) = [r EXCEPT !.pending = TRUE, !.last = r.next, !.next = n]
      BY <2>3 DEF n
    <2>6. Triggered(r) \in Record
      BY <2>1, <2>4, <2>5 DEF Record
    <2>7. /\ Triggered(r).is = r.is /\ Triggered(r).enabled = r.enabled
          /\ Triggered(r).def = r.def /\ Triggered(r).next = n
          /\ Triggered(r).last = r.next /\ Triggered(r).pending = TRUE
      BY <2>5 DEF Record
    <2>. QED  BY <2>1, <2>4, <2>6, <2>7 DEF Timely
  <1>. QED  BY <1>1, <1>2

\* A visit sees both.
LEMMA SeenRecord ==
  ASSUME SInv, Visiting
  PROVE  /\ cursor \in Ids
         /\ Seen(cursor) \in Record
         /\ Seen(cursor).is = "kept" /\ Seen(cursor).enabled
         /\ Seen(cursor).def \in Definitions[cursor]
         /\ Seen(cursor).next > now
         /\ Timely(Seen(cursor), since[cursor], now)
  <1>. DEFINE r == sched[cursor]
  <1>1. cursor \in Ids /\ r \in Record /\ r.enabled /\ since[cursor] \in Nat
    BY DEF SInv, TypeOK, Visiting
  <1>2. now \in 0 .. MaxTime
    BY SchedulesAssumption DEF SInv, TypeOK, LoopInv
  <1>3. Timely(r, since[cursor], now) /\ r.is = "kept" /\ r.def \in Definitions[cursor]
    <2>1. Settled(cursor)
      BY DEF Visiting, Settled
    <2>2. Timely(r, since[cursor], now)
      BY <1>1, <2>1 DEF SInv, TimeInv
    <2>. QED  BY <1>1, <2>2 DEF SInv, DefInv, Timely, Kept
  <1>. DEFINE h == Harvested(r)
  <1>4. /\ h \in Record /\ h.is = r.is /\ h.enabled = r.enabled /\ h.def = r.def
        /\ h.pending = r.pending /\ h.last = r.last /\ h.next = r.next
    BY <1>1, HarvestedRecord
  <1>5. Seen(cursor) = Triggered(h)
    BY DEF Seen
  <1>. HIDE DEF h
  <1>6. Timely(h, since[cursor], now)
    BY <1>3, <1>4 DEF Timely
  <1>7. /\ Triggered(h) \in Record /\ Triggered(h).is = h.is /\ Triggered(h).enabled
        /\ Triggered(h).def = h.def /\ Triggered(h).next > now
        /\ Timely(Triggered(h), since[cursor], now)
    BY <1>1, <1>2, <1>3, <1>4, <1>6, TriggeredRecord
  <1>. QED  BY <1>1, <1>3, <1>4, <1>5, <1>7

\* The recovery leaves nothing to make up for.
LEMMA ResumedRecord ==
  ASSUME NEW s \in Ids, NEW r \in Record, r.is = "kept", r.def \in Definitions[s],
         now \in 0 .. MaxTime
  PROVE  /\ Resumed(r) \in Record
         /\ Resumed(r).is = r.is /\ Resumed(r).def = r.def
         /\ Timely(Resumed(r), now, now)
         /\ Resumed(r).enabled => Resumed(r).next > now
  <1>. DEFINE n == ResumedNext(r)
              st == IF ~r.enabled THEN "disabled"
                    ELSE IF Judged(r) THEN status[r.job] ELSE "idle"
              e == r.error \/ Judged(r)
              f == IF Judged(r) /\ r.status = "running" THEN r.failures + 1 ELSE r.failures
  <1>1. n \in Nat \cup {Never} /\ (r.enabled => n \in Nat /\ n > now)
    <2>1. now \in Nat
      BY SchedulesAssumption
    <2>2. CASE ~r.enabled
      BY <2>2 DEF ResumedNext
    <2>3. CASE r.enabled /\ r.next = Never
      BY <2>3, NextIsLater DEF ResumedNext
    <2>4. CASE r.enabled /\ r.next \in Nat
      <3>1. CASE r.next <= now
        BY <2>4, <3>1, AdvanceIsLater DEF ResumedNext
      <3>2. CASE ~(r.next <= now)
        BY <2>1, <2>4, <3>2 DEF ResumedNext
      <3>. QED  BY <3>1, <3>2
    <2>. QED  BY <2>2, <2>3, <2>4 DEF Record
  <1>2. st \in {"disabled", "idle", "failed", "interrupted", "cancelled"}
    BY DEF Judged
  <1>3. e \in BOOLEAN
    BY DEF Judged
  <1>4. f \in Nat
    BY DEF Record
  <1>5. Resumed(r) = [r EXCEPT !.pending = FALSE, !.next = n, !.status = st,
                               !.error = e, !.failures = f]
    BY DEF Resumed
  <1>. HIDE DEF n, st, e, f
  <1>6. Resumed(r) \in Record
    BY <1>1, <1>2, <1>3, <1>4, <1>5 DEF Record
  <1>7. /\ Resumed(r).is = r.is /\ Resumed(r).def = r.def /\ Resumed(r).next = n
        /\ Resumed(r).enabled = r.enabled /\ Resumed(r).pending = FALSE
    BY <1>5 DEF Record
  <1>. QED  BY <1>1, <1>6, <1>7, SchedulesAssumption DEF Timely

-----------------------------------------------------------------------------
(* What the scan manager does to the rows *)

ScanStep == \/ Scanner!Progress \/ Scanner!Finish \/ Scanner!Raise
            \/ Scanner!Die \/ Scanner!Recover

\* The statuses, spelled out.
LEMMA Names ==
  /\ Scanner!Live = {"queued", "running"}
  /\ Scanner!Terminal = {"complete", "cancelled", "failed", "interrupted"}
  /\ Scanner!Status = {"queued", "running", "complete", "cancelled", "failed",
                       "interrupted", "absent", "pruned"}
  /\ Scanner!Outcomes = {"complete", "cancelled", "failed"}
  BY DEF Scanner!Live, Scanner!Terminal, Scanner!Status, Scanner!Outcomes

\* Only Submit adds a row.
LEMMA ScanRows ==
  ASSUME Scanner!TypeOK, ScanStep
  PROVE  /\ Scanner!TypeOK'
         /\ \A j \in Jobs : status'[j] = "absent" <=> status[j] = "absent"
  <1>. USE Names DEF Jobs
  <1>1. \A st \in Scanner!Begun(status) \cup Scanner!Ended(status) :
          /\ st \in [Jobs -> Scanner!Status]
          /\ \A j \in Jobs : st[j] = "absent" <=> status[j] = "absent"
    BY DEF Scanner!TypeOK, Scanner!Begun, Scanner!Ended
  <1>2. \A st \in [Jobs -> Scanner!Status] :
          /\ Scanner!Pruned(st) \in [Jobs -> Scanner!Status]
          /\ \A j \in Jobs : Scanner!Pruned(st)[j] = "absent" <=> st[j] = "absent"
    BY DEF Scanner!Pruned
  <1>3. /\ Scanner!Interrupted(status) \in [Jobs -> Scanner!Status]
        /\ \A j \in Jobs : Scanner!Interrupted(status)[j] = "absent" <=> status[j] = "absent"
    BY DEF Scanner!Interrupted, Scanner!TypeOK
  <1>4. CASE Scanner!Progress
    BY <1>1, <1>4 DEF Scanner!Progress, Scanner!TypeOK
  <1>5. CASE Scanner!Finish
    <2>1. PICK st \in Scanner!Ended(status) : status' = Scanner!Pruned(st)
      BY <1>5 DEF Scanner!Finish
    <2>. QED  BY <1>1, <1>2, <1>5, <2>1 DEF Scanner!Finish, Scanner!TypeOK
  <1>6. CASE Scanner!Raise
    <2>1. CASE status' \in Scanner!Begun(status) \cup Scanner!Ended(status)
      BY <1>1, <1>6, <2>1 DEF Scanner!Raise, Scanner!TypeOK
    <2>2. CASE \E st \in Scanner!Ended(status) : status' = Scanner!Pruned(st)
      <3>1. PICK st \in Scanner!Ended(status) : status' = Scanner!Pruned(st)
        BY <2>2
      <3>. QED  BY <1>1, <1>2, <1>6, <3>1 DEF Scanner!Raise, Scanner!TypeOK
    <2>. QED  BY <1>6, <2>1, <2>2 DEF Scanner!Raise
  <1>7. CASE Scanner!Die
    BY <1>7 DEF Scanner!Die, Scanner!TypeOK
  <1>8. CASE Scanner!Recover
    BY <1>2, <1>3, <1>8 DEF Scanner!Recover, Scanner!TypeOK
  <1>. QED  BY <1>4, <1>5, <1>6, <1>7, <1>8 DEF ScanStep

\* Submit adds one row.
LEMMA SubmitRows ==
  ASSUME Scanner!TypeOK, NEW j \in Jobs, Scanner!Submit(j)
  PROVE  /\ Scanner!TypeOK'
         /\ status[j] = "absent" /\ status'[j] = "queued"
         /\ \A k \in Jobs \ {j} : status'[k] = status[k]
         /\ \A k \in Jobs : status'[k] = "absent" => j < k
  <1>1. Scanner!Fresh(status, j) /\ status' = [status EXCEPT ![j] = "queued"] /\ task' = "busy"
    BY DEF Scanner!Submit
  <1>2. status \in [Jobs -> Scanner!Status] /\ status'[j] = "queued"
        /\ \A k \in Jobs \ {j} : status'[k] = status[k]
    BY <1>1 DEF Scanner!TypeOK, Jobs
  <1>3. \A k \in Jobs : status'[k] = "absent" => j < k
    <2>. SUFFICES ASSUME NEW k \in Jobs, k # j, ~(j < k) PROVE status[k] # "absent"
      BY <1>1, <1>2
    <2>1. k \in 1 .. j - 1
      BY SchedulesAssumption DEF Jobs, Scanner!Jobs
    <2>. QED  BY <1>1, <2>1 DEF Scanner!Fresh
  <1>. QED  BY <1>1, <1>2, <1>3, Names DEF Scanner!TypeOK, Scanner!Fresh, Jobs

-----------------------------------------------------------------------------
(* The invariant *)

\* What SInv says of the schedules and of the loop that visits them.
SchedInv == /\ sched \in [Ids -> Record] /\ since \in [Ids -> Nat]
            /\ TimeInv /\ DefInv /\ LoopInv

\* Saving one schedule that is timely, outside the loops or at their cursor,
\* keeps them.
LEMMA SaveKeeps ==
  ASSUME SInv, NEW s \in Ids, NEW v \in Record, NEW u \in Nat,
         Save(s, v), since' = [since EXCEPT ![s] = u], now' = now,
         Timely(v, u, now), v.is = "kept" => v.def \in Definitions[s],
         \A t \in Ids \ {s} : Settled(t)' => Settled(t),
         \/ cursor = 0 /\ cursor' = 0
         \/ s = cursor /\ Continues /\ (v.enabled => v.next > now),
         manager' = "recovering" => cursor' # 0
  PROVE  SchedInv'
  <1>1. sched' \in [Ids -> Record] /\ since' \in [Ids -> Nat]
    BY DEF SInv, TypeOK, Save
  <1>2. /\ sched'[s] = v /\ since'[s] = u
        /\ \A t \in Ids \ {s} : sched'[t] = sched[t] /\ since'[t] = since[t]
    BY DEF SInv, TypeOK, Save
  <1>3. TimeInv'
    <2>. SUFFICES ASSUME NEW t \in Ids
                  PROVE  /\ Sane(sched'[t], since'[t], now')
                         /\ Settled(t)' => Timely(sched'[t], since'[t], now')
      BY DEF TimeInv, Timely, Sane
    <2>1. CASE t = s
      BY <1>2, <2>1 DEF Timely, Sane
    <2>2. CASE t # s
      <3>1. /\ Sane(sched[t], since[t], now)
            /\ Settled(t)' => Timely(sched[t], since[t], now)
        BY <2>2 DEF SInv, TimeInv
      <3>. QED  BY <1>2, <2>2, <3>1
    <2>. QED  BY <2>1, <2>2
  <1>4. DefInv'
    BY <1>2 DEF SInv, DefInv, Kept
  <1>5. LoopInv'
    <2>1. ASSUME NEW t \in Ids, sched'[t].enabled, t < cursor' PROVE sched'[t].next > now'
      <3>1. CASE cursor = 0 /\ cursor' = 0
        BY <2>1, <3>1 DEF Ids
      <3>2. CASE s = cursor /\ Continues /\ (v.enabled => v.next > now)
        <4>1. cursor' \in {0, cursor + 1} /\ cursor \in Ids
          BY <3>2 DEF Continues
        <4>2. t < cursor \/ t = s
          BY <2>1, <3>2, <4>1 DEF Ids
        <4>. QED  BY <1>2, <2>1, <3>2, <4>2 DEF SInv, LoopInv
      <3>. QED  BY <3>1, <3>2
    <2>. QED  BY <2>1 DEF SInv, LoopInv
  <1>. QED  BY <1>1, <1>3, <1>4, <1>5 DEF SchedInv

\* A step that leaves the schedules alone, moving the cursor or the clock.
LEMMA FrameKeeps ==
  ASSUME SInv, UNCHANGED <<sched, since>>,
         \/ now' = now
         \/ cursor = 0 /\ cursor' = 0 /\ now < MaxTime /\ now' = now + 1,
         \/ cursor' \in {0, cursor}
         \/ cursor' = 1
         \/ Continues /\ cursor # 0 /\ ~sched[cursor].enabled,
         \A s \in Ids : Settled(s)' => Settled(s),
         manager' = "recovering" => cursor' # 0
  PROVE  SchedInv'
  <1>1. now \in Nat /\ now' \in Nat /\ now <= now' /\ now' <= MaxTime
    BY SchedulesAssumption DEF SInv, TypeOK, LoopInv
  <1>2. sched' \in [Ids -> Record] /\ since' \in [Ids -> Nat] /\ DefInv'
    BY DEF SInv, TypeOK, DefInv, Kept
  <1>3. TimeInv'
    <2>. SUFFICES ASSUME NEW s \in Ids
                  PROVE  /\ Sane(sched[s], since[s], now')
                         /\ Settled(s)' => Timely(sched[s], since[s], now')
      BY DEF TimeInv, Timely, Sane
    <2>1. since[s] \in Nat
      BY DEF SInv, TypeOK
    <2>2. /\ Sane(sched[s], since[s], now)
          /\ Settled(s)' => Timely(sched[s], since[s], now)
      BY DEF SInv, TimeInv
    <2>. QED  BY <1>1, <2>1, <2>2 DEF Timely, Sane
  <1>4. ASSUME NEW s \in Ids, sched[s].enabled, s < cursor' PROVE sched[s].next > now'
    <2>1. cursor \in Ids \cup {0} /\ s \in Nat \ {0}
      BY DEF SInv, TypeOK, Ids
    <2>2. s < cursor /\ now' = now
      BY <1>4, <2>1 DEF Continues, Ids
    <2>. QED  BY <1>4, <2>2 DEF SInv, LoopInv
  <1>. QED  BY <1>1, <1>2, <1>3, <1>4 DEF SchedInv, LoopInv

\* The rest of SInv: the rows, their owners, and the small variables.
RowInv == /\ Scanner!TypeOK
          /\ owner \in [Jobs -> Ids \cup {Manual}] /\ outcome \in [Jobs -> Scanner!Status]
          /\ OwnerInv
RestInv == /\ manager \in {"off", "recovering", "running", "dead", "closed"}
           /\ cursor \in Ids \cup {0} /\ now \in Nat
           /\ requests \in Nat /\ faults \in Nat /\ crashes \in Nat
           /\ cut \in [Ids -> Jobs \cup {NoJob}] /\ errs \in [Ids -> Nat]

\* The three parts are the whole.
LEMMA Parts == SInv <=> SchedInv /\ RowInv /\ RestInv
  BY DEF SInv, SchedInv, RowInv, RestInv, TypeOK

\* A step of the scan manager that adds no job.
LEMMA ScanKeeps ==
  ASSUME RowInv, ScanStep, UNCHANGED owner,
         outcome' = [j \in Jobs |-> IF status'[j] = "pruned" /\ status[j] # "absent"
                                    THEN outcome[j] ELSE status'[j]]
  PROVE  RowInv'
  <1>1. Scanner!TypeOK' /\ \A j \in Jobs : status'[j] = "absent" <=> status[j] = "absent"
    BY ScanRows DEF RowInv
  <1>2. outcome' \in [Jobs -> Scanner!Status]
    BY <1>1 DEF RowInv, Scanner!TypeOK, Jobs
  <1>. QED  BY <1>1, <1>2 DEF RowInv, OwnerInv

\* A new job, with its owner.
LEMMA SubmitKeeps ==
  ASSUME RowInv, NEW j \in Jobs, Scanner!Submit(j),
         \/ UNCHANGED owner
         \/ \E s \in Ids : owner' = [owner EXCEPT ![j] = s],
         outcome' = [k \in Jobs |-> IF status'[k] = "pruned" /\ status[k] # "absent"
                                    THEN outcome[k] ELSE status'[k]]
  PROVE  RowInv'
  <1>1. /\ Scanner!TypeOK' /\ status'[j] = "queued"
        /\ \A k \in Jobs \ {j} : status'[k] = status[k]
        /\ \A k \in Jobs : status'[k] = "absent" => j < k
    BY SubmitRows DEF RowInv
  <1>2. outcome' \in [Jobs -> Scanner!Status]
    BY <1>1 DEF RowInv, Scanner!TypeOK, Jobs
  <1>3. /\ owner' \in [Jobs -> Ids \cup {Manual}]
        /\ \A k \in Jobs \ {j} : owner'[k] = owner[k]
    BY DEF RowInv
  <1>4. OwnerInv'
    <2>. SUFFICES ASSUME NEW k \in Jobs, status'[k] = "absent"
                  PROVE  /\ owner'[k] = Manual
                         /\ \A l \in Jobs : k <= l => status'[l] = "absent"
      BY DEF OwnerInv
    <2>1. j < k /\ status[k] = "absent" /\ owner'[k] = owner[k]
      BY <1>1, <1>3
    <2>2. \A l \in Jobs : k <= l => l # j /\ status'[l] = status[l]
      BY <1>1, <2>1, SchedulesAssumption DEF Jobs, Scanner!Jobs
    <2>. QED  BY <2>1, <2>2 DEF RowInv, OwnerInv
  <1>. QED  BY <1>1, <1>2, <1>3, <1>4 DEF RowInv

\* Rows and owners as they are.
LEMMA NoScanKeeps ==
  ASSUME RowInv, NoScan, UNCHANGED owner
  PROVE  RowInv'
  BY DEF RowInv, NoScan, scanner, OwnerInv, Scanner!TypeOK

-----------------------------------------------------------------------------
(* Every action keeps what SInv says of the schedules *)

\* The clock is in the range the definitions are assumed for.
LEMMA Clock == ASSUME SInv PROVE now \in 0 .. MaxTime
  BY SchedulesAssumption DEF SInv, TypeOK, LoopInv

\* A new schedule is disabled: it may be started for nothing.
LEMMA CreateKeeps ==
  ASSUME SInv, NEW s \in Ids, NEW d \in Definitions[s], Create(s, d)
  PROVE  SchedInv'
  <1>. DEFINE v == [NoSchedule EXCEPT !.is = "kept", !.def = d]
  <1>1. d \in DefinitionRecord
    BY SchedulesAssumption DEF Ids
  <1>2. v \in Record /\ v.def = d /\ ~v.enabled /\ ~v.pending
    BY <1>1 DEF NoSchedule, Record, Jobs, DefinitionRecord
  <1>3. /\ Save(s, v) /\ cursor = 0 /\ cursor' = 0 /\ now' = now
        /\ manager' = manager /\ manager \in {"running", "dead"} /\ since' = since
    BY DEF Create, Serving
  <1>4. /\ since[s] \in Nat /\ since[s] <= now
        /\ since' = [since EXCEPT ![s] = since[s]]
    BY <1>3 DEF SInv, TypeOK, TimeInv, Sane
  <1>5. Timely(v, since[s], now)
    BY <1>2, <1>4 DEF Timely
  <1>6. \A t \in Ids : Settled(t)' => Settled(t)
    BY <1>3 DEF Settled
  <1>. HIDE DEF v
  <1>. QED  BY <1>2, <1>3, <1>4, <1>5, <1>6, SaveKeeps

\* An edit drops the pending trigger, and what is next lies after the edit.
LEMMA UpdateKeeps ==
  ASSUME SInv, NEW s \in Ids, NEW d \in Definitions[s], NEW b \in BOOLEAN, Update(s, d, b)
  PROVE  SchedInv'
  <1>. DEFINE n == IF b THEN NextTrigger(d, now) ELSE Never
              st == IF b THEN "idle" ELSE "disabled"
              v == [sched[s] EXCEPT !.def = d, !.enabled = b, !.pending = FALSE,
                                    !.next = n, !.status = st, !.error = FALSE]
  <1>1. d \in DefinitionRecord
    BY SchedulesAssumption DEF Ids
  <1>2. n \in Nat \cup {Never} /\ (b => n \in Nat /\ n > now)
    BY Clock, NextIsLater
  <1>3. st \in {"idle", "disabled"}
    OBVIOUS
  <1>4. /\ Save(s, v) /\ cursor = 0 /\ cursor' = 0 /\ now' = now /\ Kept(s)
        /\ manager' = manager /\ manager \in {"running", "dead"}
        /\ since' = [since EXCEPT ![s] = now]
    BY DEF Update, Request, Serving
  <1>. DEFINE r == sched[s]
  <1>. HIDE DEF n, st, r
  <1>5. v \in Record /\ v.is = "kept" /\ v.def = d /\ v.enabled = b /\ v.next = n
        /\ v.pending = FALSE
    <2>1. r \in Record /\ r.is = "kept"
      BY <1>4 DEF r, SInv, TypeOK, Kept
    <2>2. v = [r EXCEPT !.def = d, !.enabled = b, !.pending = FALSE,
                        !.next = n, !.status = st, !.error = FALSE]
      BY DEF r
    <2>. HIDE DEF v
    <2>3. v \in Record
      BY <1>1, <1>2, <1>3, <2>1, <2>2 DEF Record
    <2>4. v.is = r.is /\ v.pending = FALSE
      BY <2>1, <2>2 DEF Record
    <2>5. v.def = d /\ v.enabled = b /\ v.next = n
      BY <2>1, <2>2 DEF Record
    <2>. QED  BY <2>1, <2>3, <2>4, <2>5
  <1>6. now \in Nat /\ Timely(v, now, now)
    BY <1>2, <1>5, Clock, SchedulesAssumption DEF Timely
  <1>7. \A t \in Ids : Settled(t)' => Settled(t)
    BY <1>4 DEF Settled
  <1>. HIDE DEF v
  <1>. QED  BY <1>4, <1>5, <1>6, <1>7, SaveKeeps

\* Nothing is left of a deleted schedule to start.
LEMMA DeleteKeeps ==
  ASSUME SInv, NEW s \in Ids, Delete(s)
  PROVE  SchedInv'
  <1>. DEFINE v == [NoSchedule EXCEPT !.is = "deleted"]
  <1>0. [kind |-> "interval", every |-> 1, on |-> {}] \in DefinitionRecord
    BY DEF DefinitionRecord
  <1>1. v \in Record /\ v.is = "deleted" /\ ~v.enabled /\ ~v.pending
    BY <1>0 DEF NoSchedule, Record
  <1>2. /\ Save(s, v) /\ cursor = 0 /\ cursor' = 0 /\ now' = now
        /\ manager' = manager /\ manager \in {"running", "dead"} /\ since' = since
    BY DEF Delete, Request, Serving
  <1>3. /\ since[s] \in Nat /\ since[s] <= now
        /\ since' = [since EXCEPT ![s] = since[s]]
    BY <1>2 DEF SInv, TypeOK, TimeInv, Sane
  <1>4. Timely(v, since[s], now)
    BY <1>1, <1>3 DEF Timely
  <1>5. \A t \in Ids : Settled(t)' => Settled(t)
    BY <1>2 DEF Settled
  <1>. HIDE DEF v
  <1>. QED  BY <1>1, <1>2, <1>3, <1>4, <1>5, SaveKeeps

\* A round of the tick: the schedule that was seen, perhaps dispatched.
LEMMA VisitKeeps ==
  ASSUME SInv, Visiting, NEW v \in Record, NEW u \in Nat, Save(cursor, v), Continues,
         since' = [since EXCEPT ![cursor] = u], UNCHANGED <<now, manager>>,
         v.def = Seen(cursor).def, v.next = Seen(cursor).next, Timely(v, u, now)
  PROVE  SchedInv'
  <1>1. manager = "running"
    BY DEF Visiting
  <1>2. \A t \in Ids : Settled(t)' => Settled(t)
    BY <1>1 DEF Settled
  <1>3. cursor \in Ids /\ v.def \in Definitions[cursor] /\ v.next > now
    BY SeenRecord
  <1>. QED  BY <1>1, <1>2, <1>3, SaveKeeps

\* A visit that starts nothing: what is pending stays so.
LEMMA VisitsKeeps ==
  ASSUME SInv, Visits
  PROVE  SchedInv'
  <1>. DEFINE r == Seen(cursor)
              u == since[cursor]
  <1>1. Visiting /\ Continues /\ since' = since /\ UNCHANGED <<now, manager>>
    BY DEF Visits
  <1>2. cursor \in Ids /\ r \in Record /\ Timely(r, u, now)
    BY <1>1, SeenRecord
  <1>3. u \in Nat /\ since' = [since EXCEPT ![cursor] = u]
    BY <1>1, <1>2 DEF SInv, TypeOK
  <1>4. PICK v \in {r, [r EXCEPT !.status = "pending"]} : Save(cursor, v)
    BY DEF Visits
  <1>. HIDE DEF r, u
  <1>5. v \in Record /\ v.def = r.def /\ v.next = r.next /\ Timely(v, u, now)
    <2>1. CASE v = r
      BY <1>2, <2>1
    <2>2. CASE v = [r EXCEPT !.status = "pending"]
      BY <1>2, <2>2 DEF Record, Timely
    <2>. QED  BY <1>4, <2>1, <2>2
  <1>. QED  BY <1>1, <1>3, <1>4, <1>5, VisitKeeps DEF r

\* The pending trigger is used up: what is next is later than it.
LEMMA Consumed ==
  ASSUME NEW r \in Record, NEW v \in Record, NEW t \in Nat, NEW tried \in Nat,
         Timely(r, tried, t), r.pending, r.next > t,
         ~v.pending, v.enabled = r.enabled, v.is = r.is, v.next = r.next
  PROVE  r.last \in Nat /\ r.last > tried /\ r.last <= t /\ Timely(v, r.last, t)
  BY DEF Timely, Record

\* A visit that starts a job, which uses up the pending trigger.
LEMMA DispatchesKeeps ==
  ASSUME SInv, NEW j \in Jobs, Dispatches(j)
  PROVE  SchedInv'
  <1>. DEFINE r == Seen(cursor)
              v == [r EXCEPT !.pending = FALSE, !.status = "running", !.job = j, !.error = FALSE]
  <1>1. /\ Visiting /\ Continues /\ UNCHANGED <<now, manager>> /\ r.pending
        /\ since' = [since EXCEPT ![cursor] = r.last] /\ Save(cursor, v)
    BY DEF Dispatches, Dispatched, Tried
  <1>2. cursor \in Ids /\ r \in Record /\ r.next > now /\ Timely(r, since[cursor], now)
    BY <1>1, SeenRecord
  <1>3. since[cursor] \in Nat /\ now \in Nat
    BY <1>2 DEF SInv, TypeOK
  <1>. HIDE DEF r
  <1>4. /\ v \in Record /\ v.def = r.def /\ v.next = r.next /\ v.is = r.is
        /\ v.enabled = r.enabled /\ ~v.pending
    BY <1>2 DEF Record
  <1>. HIDE DEF v
  <1>5. r.last \in Nat /\ Timely(v, r.last, now)
    BY <1>1, <1>2, <1>3, <1>4, Consumed
  <1>. QED  BY <1>1, <1>4, <1>5, VisitKeeps DEF r

\* So does a visit that fails to.
LEMMA DispatchFailsKeeps ==
  ASSUME SInv, DispatchFails
  PROVE  SchedInv'
  <1>. DEFINE r == Seen(cursor)
              f == r.failures + 1
              v == [r EXCEPT !.pending = FALSE, !.status = "failed", !.error = TRUE,
                             !.failures = f]
  <1>1. /\ Visiting /\ Continues /\ UNCHANGED <<now, manager>> /\ r.pending
        /\ since' = [since EXCEPT ![cursor] = r.last] /\ Save(cursor, v)
    BY DEF DispatchFails, Tried
  <1>2. cursor \in Ids /\ r \in Record /\ r.next > now /\ Timely(r, since[cursor], now)
    BY <1>1, SeenRecord
  <1>3. since[cursor] \in Nat /\ now \in Nat
    BY <1>2 DEF SInv, TypeOK
  <1>. HIDE DEF r
  <1>4. f \in Nat
    BY <1>2 DEF Record
  <1>. HIDE DEF f
  <1>5. /\ v \in Record /\ v.def = r.def /\ v.next = r.next /\ v.is = r.is
        /\ v.enabled = r.enabled /\ ~v.pending
    BY <1>2, <1>4 DEF Record
  <1>. HIDE DEF v
  <1>6. r.last \in Nat /\ Timely(v, r.last, now)
    BY <1>1, <1>2, <1>3, <1>5, Consumed
  <1>. QED  BY <1>1, <1>5, <1>6, VisitKeeps DEF r

\* A save that failed shows only in the history: the tick is over.
LEMMA SaveFailsKeeps ==
  ASSUME SInv, SaveFails
  PROVE  SchedInv'
  <1>1. /\ Visiting /\ UNCHANGED <<sched, now>> /\ manager' = "dead" /\ cursor' = 0
    BY DEF SaveFails
  <1>2. since' \in [Ids -> Nat] /\ \A s \in Ids : since'[s] <= now
    <2>1. CASE UNCHANGED since
      BY <2>1 DEF SInv, TypeOK, TimeInv, Sane
    <2>2. CASE \E j \in Jobs : Dispatched(Seen(cursor), j)
      <3>. DEFINE r == Seen(cursor)
      <3>1. r.pending /\ since' = [since EXCEPT ![cursor] = r.last]
        BY <2>2 DEF Dispatched, Tried
      <3>2. Timely(r, since[cursor], now)
        BY <1>1, SeenRecord
      <3>. HIDE DEF r
      <3>3. r.last \in Nat /\ r.last <= now
        BY <3>1, <3>2 DEF Timely
      <3>. QED  BY <3>1, <3>3 DEF SInv, TypeOK, TimeInv, Sane
    <2>. QED  BY <2>1, <2>2 DEF SaveFails
  <1>3. TimeInv'
    <2>. SUFFICES ASSUME NEW s \in Ids
                  PROVE  Sane(sched[s], since'[s], now) /\ ~Settled(s)'
      BY <1>1 DEF TimeInv, Sane, Timely
    <2>. QED  BY <1>1, <1>2 DEF Settled, SInv, TimeInv, Sane
  <1>4. LoopInv'
    BY <1>1 DEF SInv, LoopInv, Ids
  <1>. QED  BY <1>1, <1>2, <1>3, <1>4 DEF SchedInv, SInv, TypeOK, DefInv, Kept

\* A round of the recovery.
LEMMA RecoversKeeps ==
  ASSUME SInv, Recovers
  PROVE  SchedInv'
  <1>1. manager = "recovering" /\ cursor \in Ids /\ Continues /\ now' = now
        /\ manager' = IF cursor = Count THEN "running" ELSE "recovering"
    BY DEF SInv, TypeOK, LoopInv, Recovers
  <1>2. \A t \in Ids \ {cursor} : Settled(t)' => Settled(t)
    <2>. SUFFICES ASSUME NEW t \in Ids \ {cursor}, Settled(t)' PROVE t < cursor
      BY <1>1 DEF Settled
    <2>1. CASE cursor = Count
      BY <2>1, SchedulesAssumption DEF Ids
    <2>2. CASE cursor # Count
      BY <1>1, <2>2, SchedulesAssumption DEF Ids, Continues, Settled
    <2>. QED  BY <2>1, <2>2
  <1>3. manager' = "recovering" => cursor' # 0
    BY <1>1, SchedulesAssumption DEF Ids, Continues
  <1>4. now \in Nat /\ now \in 0 .. MaxTime /\ sched[cursor] \in Record
    BY <1>1, Clock, SchedulesAssumption DEF SInv, TypeOK
  <1>5. CASE Kept(cursor)
    <2>. DEFINE v == Resumed(sched[cursor])
    <2>1. Save(cursor, v) /\ since' = [since EXCEPT ![cursor] = now]
      BY <1>5 DEF Recovers
    <2>2. sched[cursor].is = "kept" /\ sched[cursor].def \in Definitions[cursor]
      BY <1>1, <1>5 DEF Kept, SInv, DefInv
    <2>3. /\ v \in Record /\ v.def \in Definitions[cursor]
          /\ Timely(v, now, now) /\ (v.enabled => v.next > now)
      BY <1>1, <1>4, <2>2, ResumedRecord
    <2>. HIDE DEF v
    <2>. QED  BY <1>1, <1>2, <1>3, <1>4, <2>1, <2>3, SaveKeeps
  <1>6. CASE ~Kept(cursor)
    <2>. DEFINE v == sched[cursor]
                u == since[cursor]
    <2>1. /\ Save(cursor, v) /\ u \in Nat /\ since' = [since EXCEPT ![cursor] = u]
      BY <1>1, <1>6 DEF Recovers, SInv, TypeOK
    <2>2. ~v.enabled /\ v.is # "kept" /\ Timely(v, u, now)
      BY <1>1, <1>6 DEF Kept, SInv, TimeInv, Sane, Timely
    <2>. HIDE DEF v, u
    <2>3. v \in Record
      BY <1>4 DEF v
    <2>. QED  BY <1>1, <1>2, <1>3, <2>1, <2>2, <2>3, SaveKeeps
  <1>. QED  BY <1>5, <1>6

-----------------------------------------------------------------------------
(* Every step keeps the three parts *)

\* Every step keeps what SInv says of the schedules.
LEMMA SchedKept ==
  ASSUME SInv, [Next]_vars
  PROVE  SchedInv'
  <1>1. CASE \E s \in Ids :
               \/ \E d \in Definitions[s] : Create(s, d) \/ \E b \in BOOLEAN : Update(s, d, b)
               \/ Delete(s)
    BY <1>1, CreateKeeps, UpdateKeeps, DeleteKeeps
  <1>2. CASE \/ \E j \in Jobs : StartManual(j)
             \/ Scan
             \/ UNCHANGED vars
    BY <1>2, FrameKeeps DEF StartManual, Scan, Request, vars, Settled, SInv, LoopInv
  <1>3. CASE Passes
    <2>1. /\ UNCHANGED <<sched, since, manager>> /\ cursor = 0 /\ cursor' = 0
          /\ now < MaxTime /\ now' = now + 1
      BY <1>3 DEF Passes
    <2>. QED  BY <2>1, FrameKeeps DEF Settled, SInv, LoopInv
  <1>4. CASE TickBegins
    BY <1>4, FrameKeeps DEF TickBegins, Settled
  <1>5. CASE Skips
    BY <1>5, FrameKeeps DEF Skips, Settled
  <1>6. CASE Visits
    BY <1>6, VisitsKeeps
  <1>7. CASE \E j \in Jobs : Dispatches(j)
    BY <1>7, DispatchesKeeps
  <1>8. CASE DispatchFails
    BY <1>8, DispatchFailsKeeps
  <1>9. CASE SaveFails
    BY <1>9, SaveFailsKeeps
  <1>10. CASE Closes
    BY <1>10, FrameKeeps DEF Closes, Settled
  <1>11. CASE Dies
    BY <1>11, FrameKeeps DEF Dies, Settled
  <1>12. CASE Restarts
    <2>1. CASE Count = 0
      BY <1>12, <2>1, FrameKeeps DEF Restarts, Ids
    <2>2. CASE Count # 0
      BY <1>12, <2>2, FrameKeeps DEF Restarts, Settled, Ids
    <2>. QED  BY <2>1, <2>2
  <1>13. CASE Recovers
    BY <1>13, RecoversKeeps
  <1>. QED  BY <1>1, <1>2, <1>3, <1>4, <1>5, <1>6, <1>7, <1>8, <1>9, <1>10, <1>11, <1>12,
               <1>13 DEF Next, Tick

\* Every step keeps what SInv says of the rows.
LEMMA RowKept ==
  ASSUME SInv, [Next]_vars
  PROVE  RowInv'
  <1>. USE DEF Scans
  <1>1. RowInv
    BY Parts
  <1>2. CASE UNCHANGED <<scanner, owner>>
    BY <1>1, <1>2, NoScanKeeps DEF NoScan
  <1>3. ASSUME NEW j \in Jobs, StartManual(j) PROVE RowInv'
    BY <1>1, <1>3, SubmitKeeps DEF StartManual
  <1>4. ASSUME NEW j \in Jobs, Visiting, Dispatched(Seen(cursor), j) PROVE RowInv'
    <2>1. cursor \in Ids
      BY <1>4, SeenRecord
    <2>. QED  BY <1>1, <1>4, <2>1, SubmitKeeps DEF Dispatched
  <1>5. ASSUME Scan \/ Dies \/ Restarts PROVE RowInv'
    BY <1>1, <1>5, ScanKeeps DEF Scan, Dies, Restarts, ScanStep
  <1>6. ASSUME NEW s \in Ids, NEW d \in Definitions[s], NEW b \in BOOLEAN,
               Create(s, d) \/ Update(s, d, b)
        PROVE  RowInv'
    BY <1>2, <1>6 DEF Create, Update, NoScan
  <1>7. ASSUME NEW s \in Ids, Delete(s) PROVE RowInv'
    BY <1>2, <1>7 DEF Delete, NoScan
  <1>8. ASSUME NEW j \in Jobs, Dispatches(j) PROVE RowInv'
    BY <1>4, <1>8 DEF Dispatches
  <1>9. ASSUME SaveFails PROVE RowInv'
    BY <1>2, <1>4, <1>9 DEF SaveFails, NoScan
  <1>10. ASSUME Passes \/ TickBegins \/ Skips \/ Visits \/ DispatchFails \/ Closes \/ Recovers
         PROVE  RowInv'
    BY <1>2, <1>10 DEF Passes, TickBegins, Skips, Visits, DispatchFails, Closes, Recovers, NoScan
  <1>11. CASE UNCHANGED vars
    BY <1>2, <1>11 DEF vars
  <1>. QED  BY <1>3, <1>5, <1>6, <1>7, <1>8, <1>9, <1>10, <1>11 DEF Next, Tick

\* The rows are numbered without a gap, so one of them is the newest.
LEMMA NewestExists ==
  ASSUME RowInv
  PROVE  \E n \in Jobs \cup {NoJob} : \A j \in Jobs : status[j] # "absent" <=> j <= n
  <1>. DEFINE Least(n) == \A j \in Jobs : status[j] # "absent" <=> j <= n
              T == {j \in Jobs : status[j] = "absent"}
  <1>1. Jobs \subseteq Nat /\ Jobs = 1 .. MaxJob /\ MaxJob \in Nat
    BY SchedulesAssumption DEF Jobs, Scanner!Jobs
  <1>2. \E n \in Jobs \cup {NoJob} : Least(n)
    <2>1. CASE T = {}
      <3>1. Least(MaxJob) /\ MaxJob \in Jobs \cup {NoJob}
        BY <1>1, <2>1
      <3>. QED  BY <3>1
    <2>2. CASE T # {}
      <3>1. T \in SUBSET Nat
        BY <1>1
      <3>. HIDE DEF T
      <3>2. PICK x \in T : \A y \in T : x <= y
        BY <2>2, <3>1, Smallest
      <3>3. Least(x - 1)
        BY <1>1, <3>2 DEF T, RowInv, OwnerInv
      <3>4. x - 1 \in Jobs \cup {NoJob}
        BY <1>1, <3>2 DEF T
      <3>. QED  BY <3>3, <3>4
    <2>. QED  BY <2>1, <2>2
  <1>. QED  BY <1>2

\* It is what an edit remembers.
LEMMA NewestJob ==
  ASSUME RowInv
  PROVE  Newest \in Jobs \cup {NoJob}
  BY NewestExists DEF Newest

\* Every step keeps the types of the rest.
LEMMA RestKept ==
  ASSUME SInv, [Next]_vars
  PROVE  RestInv'
  <1>. USE SchedulesAssumption
  <1>1. RestInv
    BY Parts
  <1>2. ASSUME NEW s \in Ids, Delete(s) \/ \E d \in Definitions[s] : Create(s, d)
        PROVE  RestInv'
    <2>1. CASE Delete(s)
      BY <1>1, <2>1 DEF Delete, Request, RestInv
    <2>2. CASE \E d \in Definitions[s] : Create(s, d)
      BY <1>1, <2>2 DEF Create, bounds, RestInv
    <2>. QED  BY <1>2, <2>1, <2>2
  <1>3. ASSUME NEW s \in Ids, NEW d \in Definitions[s], NEW b \in BOOLEAN, Update(s, d, b)
        PROVE  RestInv'
    <2>1. cut' \in [Ids -> Jobs \cup {NoJob}]
      <3>1. cut' = [cut EXCEPT ![s] = Newest]
        BY <1>3 DEF Update
      <3>2. Newest \in Jobs \cup {NoJob}
        BY NewestJob, Parts
      <3>. QED  BY <1>1, <3>1, <3>2 DEF RestInv
    <2>. QED  BY <1>1, <1>3, <2>1 DEF Update, Request, RestInv
  <1>4. ASSUME NEW j \in Jobs, StartManual(j) PROVE RestInv'
    BY <1>1, <1>4 DEF StartManual, Request, RestInv
  <1>5. ASSUME Scan \/ Passes \/ TickBegins \/ Closes PROVE RestInv'
    BY <1>1, <1>5 DEF Scan, Passes, TickBegins, Closes, Serving, bounds, RestInv, Ids
  <1>6. ASSUME Visiting \/ manager = "recovering", Continues PROVE cursor' \in Ids \cup {0}
    BY <1>1, <1>6 DEF RestInv, Continues, Visiting, Ids, SInv, LoopInv
  <1>7. ASSUME Skips PROVE RestInv'
    BY <1>1, <1>7 DEF Skips, bounds, RestInv, Ids, Continues
  <1>8. ASSUME Visits PROVE RestInv'
    BY <1>1, <1>6, <1>8 DEF Visits, bounds, RestInv
  <1>9. ASSUME NEW j \in Jobs, Dispatches(j) PROVE RestInv'
    BY <1>1, <1>6, <1>9 DEF Dispatches, bounds, RestInv
  <1>10. ASSUME DispatchFails PROVE RestInv'
    <2>1. cursor \in Ids /\ errs' \in [Ids -> Nat]
      BY <1>1, <1>10 DEF DispatchFails, RestInv, Visiting
    <2>. QED  BY <1>1, <1>6, <1>10, <2>1 DEF DispatchFails, RestInv
  <1>11. ASSUME SaveFails PROVE RestInv'
    BY <1>1, <1>11 DEF SaveFails, RestInv
  <1>12. ASSUME Dies \/ Restarts PROVE RestInv'
    BY <1>1, <1>12 DEF Dies, Restarts, bounds, RestInv, Ids
  <1>13. ASSUME Recovers PROVE RestInv'
    BY <1>1, <1>6, <1>13 DEF Recovers, bounds, RestInv
  <1>14. CASE UNCHANGED vars
    BY <1>1, <1>14 DEF vars, bounds, RestInv
  <1>. QED  BY <1>2, <1>3, <1>4, <1>5, <1>7, <1>8, <1>9, <1>10, <1>11, <1>12, <1>13, <1>14
            DEF Next, Tick

\* The invariant is inductive, for any number of schedules and jobs, any
\* definitions, and any number of faults and restarts.
THEOREM Invariant == Spec => []SInv
  <1>1. Init => SInv
    <2>. SUFFICES ASSUME Init PROVE SInv
      OBVIOUS
    <2>. USE SchedulesAssumption DEF Init
    <2>0. [kind |-> "interval", every |-> 1, on |-> {}] \in DefinitionRecord
      BY DEF DefinitionRecord
    <2>1. NoSchedule \in Record /\ ~NoSchedule.enabled /\ ~NoSchedule.pending
          /\ NoSchedule.is = "new"
      BY <2>0 DEF NoSchedule, Record
    <2>. HIDE DEF NoSchedule
    <2>2. SchedInv
      <3>1. sched \in [Ids -> Record] /\ since \in [Ids -> Nat] /\ LoopInv
        BY <2>1 DEF LoopInv
      <3>2. TimeInv
        BY <2>1 DEF TimeInv, Sane, Timely
      <3>3. DefInv
        BY <2>1 DEF DefInv, Kept
      <3>. QED  BY <3>1, <3>2, <3>3 DEF SchedInv
    <2>3. RowInv
      BY Names DEF RowInv, OwnerInv, Scanner!Init, Scanner!TypeOK, Jobs
    <2>4. RestInv
      BY DEF RestInv
    <2>. QED  BY <2>2, <2>3, <2>4, Parts
  <1>2. SInv /\ [Next]_vars => SInv'
    <2>. SUFFICES ASSUME SInv, [Next]_vars PROVE SInv'
      OBVIOUS
    <2>1. SchedInv' /\ RowInv' /\ RestInv'
      BY SchedKept, RowKept, RestKept
    <2>. QED  BY <2>1 DEF SInv, SchedInv, RowInv, RestInv, TypeOK
  <1>. QED  BY <1>1, <1>2, PTL DEF Spec

\* Every row, counter and cursor keeps its type, in every handler.
THEOREM Typing == Spec => []TypeOK
  <1>1. SInv => TypeOK
    BY DEF SInv
  <1>. QED  BY <1>1, Invariant, PTL

\* However many triggers were missed, one is pending, and the next lies in the
\* future of the tick that passed it.
THEOREM Coalescing == Spec => []Coalesced
  <1>1. SInv => Coalesced
    BY DEF SInv, TypeOK, TimeInv, Sane, LoopInv, Coalesced
  <1>. QED  BY <1>1, Invariant, PTL

\* A step that starts a job for a schedule, or fails to, is a visit of it.
LEMMA Attempts ==
  ASSUME SInv, [Next]_vars, NEW s \in Ids, Attempt(s)
  PROVE  \/ \E j \in Jobs : Dispatches(j) /\ s = cursor
         \/ DispatchFails /\ s = cursor
         \/ SaveFails /\ s = cursor /\ \E j \in Jobs : Dispatched(Seen(cursor), j)
  <1>1. RowInv
    BY Parts
  <1>. DEFINE Begins(j) == status[j] = "absent" /\ status'[j] = "queued" /\ owner'[j] = s
  <1>2. ASSUME UNCHANGED errs, \A j \in Jobs : ~Begins(j) PROVE FALSE
    BY <1>2 DEF Attempt
  <1>3. ASSUME NEW j \in Jobs, UNCHANGED owner PROVE ~Begins(j)
    BY <1>3, <1>1 DEF RowInv, OwnerInv, Ids
  <1>4. CASE UNCHANGED owner
    <2>1. errs' # errs
      BY <1>2, <1>3, <1>4
    <2>2. DispatchFails
      BY <2>1 DEF Next, Tick, Create, Update, Delete, StartManual, Scan, Passes, TickBegins,
                  Skips, Visits, Dispatches, SaveFails, Closes, Dies, Restarts, Recovers, vars
    <2>3. errs' = [errs EXCEPT ![cursor] = errs[cursor] + 1]
      BY <2>2 DEF DispatchFails
    <2>4. errs'[s] # errs[s]
      BY <1>3, <1>4 DEF Attempt
    <2>5. s = cursor
      BY <2>3, <2>4 DEF SInv, TypeOK
    <2>. QED  BY <2>2, <2>5
  <1>5. CASE ~UNCHANGED owner
    <2>1. PICK j \in Jobs : \/ Dispatches(j)
                            \/ SaveFails /\ Dispatched(Seen(cursor), j)
      BY <1>5 DEF Next, Tick, Create, Update, Delete, StartManual, Scan, Passes, TickBegins,
                  Skips, Visits, DispatchFails, SaveFails, Closes, Dies, Restarts, Recovers, vars
    <2>2. Visiting /\ Dispatched(Seen(cursor), j) /\ errs' = errs
      BY <2>1 DEF Dispatches, SaveFails
    <2>3. PICK k \in Jobs : Begins(k)
      BY <1>2, <2>2
    <2>4. owner' = [owner EXCEPT ![j] = cursor]
      BY <2>2 DEF Dispatched
    <2>5. owner[k] = Manual
      BY <1>1, <2>3 DEF RowInv, OwnerInv
    <2>6. s = cursor
      BY <1>1, <2>3, <2>4, <2>5 DEF RowInv, Ids
    <2>. QED  BY <2>1, <2>6
  <1>. QED  BY <1>4, <1>5

\* Nothing is tried twice, and nothing missed is made up for: what a schedule is
\* dispatched for is later than all it was dispatched for before, than its last
\* edit, and than the last restart.
THEOREM NoCatchingUp == Spec => NoCatchUp
  <1>1. SInv /\ [Next]_vars => [\A s \in Ids : Attempt(s) => since'[s] > since[s]]_vars
    <2>. SUFFICES ASSUME SInv, [Next]_vars, NEW s \in Ids, Attempt(s)
                  PROVE  since'[s] > since[s]
      OBVIOUS
    <2>1. s = cursor /\ Visiting /\ Seen(cursor).pending /\ Tried(Seen(cursor))
      BY Attempts DEF Dispatches, DispatchFails, SaveFails, Dispatched
    <2>2. Timely(Seen(cursor), since[cursor], now)
      BY <2>1, SeenRecord
    <2>3. since'[cursor] = Seen(cursor).last
      BY <2>1 DEF Tried, SInv, TypeOK
    <2>. QED  BY <2>1, <2>2, <2>3 DEF Timely
  <1>. QED  BY <1>1, Invariant, PTL DEF Spec, NoCatchUp

-----------------------------------------------------------------------------
(* What the schedules show of their runs *)

\* A run that may be held against its schedule.
Bad(j)      == outcome[j] \in {"failed", "cancelled", "interrupted"} \/ status[j] = "pruned"
Blamed(s)   == {j \in Jobs : owner[j] = s /\ Bad(j)}
\* The run a schedule shows is not judged yet.
Unjudged(s) == IF sched[s].status = "running" THEN {sched[s].job} ELSE {}

\* The history is that of the rows, and only schedules own runs.
HistoryInv ==
  /\ Scanner!OneLive
  /\ \A j \in Jobs : status[j] # "pruned" => outcome[j] = status[j]
  /\ \A j \in Jobs : owner[j] # Manual => sched[owner[j]].is # "new"

\* A schedule that shows a run shows one of its own.
RunInv == \A s \in Ids : sched[s].status = "running" =>
  LET j == sched[s].job IN j \in Jobs /\ owner[j] = s /\ status[j] # "absent"

\* What it was blamed for leaves out the run it shows.
FailInv == \A s \in Ids :
  sched[s].failures <= errs[s] + Cardinality(Blamed(s) \ Unjudged(s))

\* Nothing is live before the scheduler goes on, and then what it starts is shown.
LiveInv ==
  /\ manager = "recovering" => Scanner!NoneLive(status)
  /\ manager = "running" =>
       \A j \in Jobs :
         LET s == owner[j] IN
         /\ status[j] \in Scanner!Live /\ task = "busy" /\ s # Manual
         /\ Kept(s) /\ j > cut[s]
         => sched[s].status = "running" /\ sched[s].job = j

\* What a restart interrupted is shown once the recovery has passed.
ErrorInv == \A s \in Ids : LET j == sched[s].job IN
  Settled(s) /\ Kept(s) /\ j > cut[s] /\ status[j] = "interrupted" => sched[s].error

HInv == HistoryInv /\ RunInv /\ FailInv /\ LiveInv /\ ErrorInv

\* A step of the scan manager, row by row: no row becomes live or interrupted
\* but by a restart, and what was over stays so.
LEMMA ScanOutcomes ==
  ASSUME Scanner!TypeOK, Scanner!OneLive, ScanStep
  PROVE  /\ Scanner!OneLive'
         /\ \A j \in Jobs : status'[j] \in Scanner!Live =>
              status[j] \in Scanner!Live /\ (task' = "busy" => task = "busy")
         /\ \A j \in Jobs : status[j] \in Scanner!Terminal => status'[j] \in {status[j], "pruned"}
         /\ \A j \in Jobs : status[j] = "pruned" => status'[j] = "pruned"
         /\ ~Scanner!Recover =>
              \A j \in Jobs : status'[j] = "interrupted" => status[j] = "interrupted"
         /\ Scanner!Recover => Scanner!NoneLive(status')
  <1>. USE Names DEF Jobs
  <1>. DEFINE Steady(a, b) ==
         \A j \in Jobs : /\ b[j] \in Scanner!Live => a[j] \in Scanner!Live
                         /\ a[j] \in Scanner!Terminal => b[j] \in {a[j], "pruned"}
                         /\ a[j] = "pruned" => b[j] = "pruned"
              Calm(a, b) == \A j \in Jobs : b[j] = "interrupted" => a[j] = "interrupted"
  <1>1. \A st \in Scanner!Begun(status) \cup Scanner!Ended(status) :
          st \in [Jobs -> Scanner!Status] /\ Steady(status, st) /\ Calm(status, st)
    BY DEF Scanner!TypeOK, Scanner!Begun, Scanner!Ended
  <1>2. \A st \in [Jobs -> Scanner!Status] :
          Steady(st, Scanner!Pruned(st)) /\ Calm(st, Scanner!Pruned(st))
    BY DEF Scanner!Pruned
  <1>3. /\ Scanner!Interrupted(status) \in [Jobs -> Scanner!Status]
        /\ Steady(status, Scanner!Interrupted(status))
        /\ Scanner!NoneLive(Scanner!Interrupted(status))
    BY DEF Scanner!Interrupted, Scanner!TypeOK, Scanner!NoneLive
  <1>4. \A st \in Scanner!Ended(status) :
          Steady(status, Scanner!Pruned(st)) /\ Calm(status, Scanner!Pruned(st))
    BY <1>1, <1>2
  <1>. SUFFICES /\ Steady(status, status') /\ (~Scanner!Recover => Calm(status, status'))
                /\ Scanner!Recover => Scanner!NoneLive(status')
                /\ task' = "busy" => task = "busy"
                /\ task' = "idle" => Scanner!NoneLive(status')
    BY DEF Scanner!OneLive
  <1>5. CASE Scanner!Progress
    BY <1>1, <1>5 DEF Scanner!Progress, Scanner!Recover
  <1>6. CASE Scanner!Finish
    <2>1. PICK st \in Scanner!Ended(status) :
            Scanner!NoneLive(st) /\ status' = Scanner!Pruned(st)
      BY <1>6 DEF Scanner!Finish
    <2>2. Scanner!NoneLive(status')
      BY <1>1, <1>2, <2>1 DEF Scanner!NoneLive
    <2>. QED  BY <1>4, <1>6, <2>1, <2>2 DEF Scanner!Finish
  <1>7. CASE Scanner!Raise
    BY <1>1, <1>4, <1>7 DEF Scanner!Raise, Scanner!Recover
  <1>8. CASE Scanner!Die
    BY <1>8 DEF Scanner!Die, Scanner!Recover
  <1>9. CASE Scanner!Recover
    <2>1. status' = Scanner!Pruned(Scanner!Interrupted(status)) /\ task' = "idle"
      BY <1>9 DEF Scanner!Recover
    <2>2. Steady(Scanner!Interrupted(status), status')
      BY <1>2, <1>3, <2>1
    <2>3. Scanner!NoneLive(status') /\ Steady(status, status')
      BY <1>3, <2>2 DEF Scanner!NoneLive, Scanner!Terminal
    <2>. QED  BY <1>9, <2>1, <2>3
  <1>. QED  BY <1>5, <1>6, <1>7, <1>8, <1>9 DEF ScanStep

\* The newest row is no older than any.
LEMMA NewestIsLast ==
  ASSUME RowInv, NEW j \in Jobs, status[j] # "absent"
  PROVE  j <= Newest
  <1>. DEFINE Least(n) == \A k \in Jobs : status[k] # "absent" <=> k <= n
  <1>1. \E n \in Jobs \cup {NoJob} : Least(n)
    BY NewestExists
  <1>2. Least(Newest)
    BY <1>1 DEF Newest
  <1>. QED  BY <1>2

\* How a step changes the rows: it adds at most one, while none is live.
RowsMove ==
  /\ \A j \in Jobs : status[j] # "absent" => status'[j] # "absent" /\ owner'[j] = owner[j]
  /\ \A j \in Jobs : Bad(j) => Bad(j)'
  /\ \A j \in Jobs : status'[j] \in Scanner!Live =>
       \/ status[j] \in Scanner!Live /\ (task' = "busy" => task = "busy")
       \/ status[j] = "absent" /\ status'[j] = "queued" /\ Scanner!NoneLive(status)

\* What it does to the history.
HistoryKept ==
  /\ Scanner!OneLive'
  /\ \A j \in Jobs : status'[j] # "pruned" => outcome'[j] = status'[j]

\* A step of the scan manager that adds no job.
LEMMA ScanMoves ==
  ASSUME RowInv, HistoryInv, ScanStep, UNCHANGED owner,
         outcome' = [j \in Jobs |-> IF status'[j] = "pruned" /\ status[j] # "absent"
                                    THEN outcome[j] ELSE status'[j]]
  PROVE  RowsMove /\ HistoryKept
  <1>1. Scanner!TypeOK /\ Scanner!OneLive
    BY DEF RowInv, HistoryInv
  <1>2. \A j \in Jobs : status'[j] = "absent" <=> status[j] = "absent"
    BY <1>1, ScanRows
  <1>3. ASSUME NEW j \in Jobs, Bad(j) PROVE Bad(j)'
    <2>1. CASE status[j] = "pruned"
      BY <1>1, <2>1, ScanOutcomes DEF Bad
    <2>2. CASE status[j] # "pruned"
      <3>1. outcome[j] = status[j] /\ outcome[j] \in {"failed", "cancelled", "interrupted"}
        BY <1>3, <2>2 DEF HistoryInv, Bad
      <3>2. status'[j] \in {status[j], "pruned"}
        BY <1>1, <3>1, ScanOutcomes, Names
      <3>. QED  BY <3>1, <3>2 DEF Bad
    <2>. QED  BY <2>1, <2>2
  <1>4. \A j \in Jobs : status'[j] # "pruned" => outcome'[j] = status'[j]
    OBVIOUS
  <1>. QED  BY <1>1, <1>2, <1>3, <1>4, ScanOutcomes DEF RowsMove, HistoryKept

\* A new job.
LEMMA SubmitMoves ==
  ASSUME RowInv, HistoryInv, NEW j \in Jobs, Scanner!Submit(j),
         \/ UNCHANGED owner
         \/ \E s \in Ids : owner' = [owner EXCEPT ![j] = s],
         outcome' = [k \in Jobs |-> IF status'[k] = "pruned" /\ status[k] # "absent"
                                    THEN outcome[k] ELSE status'[k]]
  PROVE  RowsMove /\ HistoryKept
  <1>1. /\ status[j] = "absent" /\ status'[j] = "queued"
        /\ \A k \in Jobs \ {j} : status'[k] = status[k] /\ owner'[k] = owner[k]
    BY SubmitRows DEF RowInv
  <1>2. task = "idle" /\ task' = "busy" /\ Scanner!NoneLive(status)
    BY DEF Scanner!Submit, HistoryInv, Scanner!OneLive
  <1>3. \A k \in Jobs : status'[k] \in Scanner!Live => k = j
    BY <1>1, <1>2 DEF Scanner!NoneLive, Jobs
  <1>4. Scanner!OneLive'
    BY <1>2, <1>3 DEF Scanner!OneLive, Jobs
  <1>5. ASSUME NEW k \in Jobs, Bad(k) PROVE Bad(k)'
    BY <1>1, <1>5 DEF Bad, HistoryInv
  <1>. QED  BY <1>1, <1>2, <1>3, <1>4, <1>5 DEF RowsMove, HistoryKept

\* Every step moves the rows so, and interrupts a run only when it restarts.
LEMMA RowsStep ==
  ASSUME SInv, HistoryInv, [Next]_vars
  PROVE  /\ RowsMove /\ HistoryKept
         /\ manager # "off" =>
              \A j \in Jobs : status'[j] = "interrupted" => status[j] = "interrupted"
  <1>. DEFINE Goal == /\ RowsMove /\ HistoryKept
                      /\ manager # "off" => \A j \in Jobs :
                           status'[j] = "interrupted" => status[j] = "interrupted"
  <1>. USE DEF Scans
  <1>1. RowInv
    BY Parts
  <1>2. ASSUME UNCHANGED <<scanner, owner>> PROVE Goal
    BY <1>2 DEF scanner, RowsMove, HistoryKept, HistoryInv, Bad, Scanner!OneLive
  <1>3. ASSUME NEW j \in Jobs, Scans(Scanner!Submit(j)),
               UNCHANGED owner \/ \E s \in Ids : owner' = [owner EXCEPT ![j] = s]
        PROVE  Goal
    <2>1. RowsMove /\ HistoryKept
      BY <1>1, <1>3, SubmitMoves
    <2>2. \A k \in Jobs : status'[k] = "interrupted" => status[k] = "interrupted"
      BY <1>1, <1>3, SubmitRows DEF RowInv
    <2>. QED  BY <2>1, <2>2
  <1>4. ASSUME NEW j \in Jobs, Visiting, Dispatched(Seen(cursor), j) PROVE Goal
    BY <1>3, <1>4, SeenRecord DEF Dispatched
  <1>5. ASSUME Scan \/ Dies \/ Restarts PROVE Goal
    <2>1. RowsMove /\ HistoryKept
      BY <1>1, <1>5, ScanMoves DEF Scan, Dies, Restarts, ScanStep
    <2>2. ASSUME manager # "off", NEW j \in Jobs, status'[j] = "interrupted"
          PROVE  status[j] = "interrupted"
      <3>1. ScanStep /\ ~Scanner!Recover
        <4>1. CASE Scan
          BY <4>1 DEF Scan, ScanStep, Scanner!Progress, Scanner!Finish, Scanner!Raise,
                      Scanner!Recover
        <4>2. CASE Dies
          BY <4>2 DEF Dies, ScanStep, Scanner!Die, Scanner!Recover
        <4>. QED  BY <1>5, <2>2, <4>1, <4>2 DEF Restarts
      <3>. QED  BY <1>1, <2>2, <3>1, ScanOutcomes DEF RowInv, HistoryInv
    <2>. QED  BY <2>1, <2>2
  <1>6. ASSUME NEW j \in Jobs, StartManual(j) PROVE Goal
    BY <1>3, <1>6 DEF StartManual
  <1>7. ASSUME NEW s \in Ids, NEW d \in Definitions[s], NEW b \in BOOLEAN,
               Create(s, d) \/ Update(s, d, b)
        PROVE  Goal
    BY <1>2, <1>7 DEF Create, Update, NoScan
  <1>8. ASSUME NEW s \in Ids, Delete(s) PROVE Goal
    BY <1>2, <1>8 DEF Delete, NoScan
  <1>9. ASSUME NEW j \in Jobs, Dispatches(j) PROVE Goal
    BY <1>4, <1>9 DEF Dispatches
  <1>10. ASSUME SaveFails PROVE Goal
    BY <1>2, <1>4, <1>10 DEF SaveFails, NoScan
  <1>11. ASSUME Passes \/ TickBegins \/ Skips \/ Visits \/ DispatchFails \/ Closes \/ Recovers
         PROVE  Goal
    BY <1>2, <1>11 DEF Passes, TickBegins, Skips, Visits, DispatchFails, Closes, Recovers, NoScan
  <1>12. CASE UNCHANGED vars
    BY <1>2, <1>12 DEF vars
  <1>. QED  BY <1>5, <1>6, <1>7, <1>8, <1>9, <1>10, <1>11, <1>12 DEF Next, Tick

\* Blame only grows, and it is finite.
LEMMA BlameGrows ==
  ASSUME RowInv, RowsMove, NEW s \in Ids
  PROVE  /\ IsFiniteSet(Blamed(s)) /\ IsFiniteSet(Blamed(s)')
         /\ Blamed(s) \subseteq Blamed(s)'
         /\ \A j \in Blamed(s) : status[j] # "absent"
  <1>1. IsFiniteSet(Jobs)
    BY SchedulesAssumption, FS_Interval DEF Jobs, Scanner!Jobs
  <1>2. Blamed(s) \subseteq Jobs /\ Blamed(s)' \subseteq Jobs
    BY DEF Blamed, Jobs, Scanner!Jobs
  <1>3. \A j \in Blamed(s) : status[j] # "absent"
    BY DEF Blamed, RowInv, OwnerInv, Ids
  <1>4. Blamed(s) \subseteq Blamed(s)'
    <2>. SUFFICES ASSUME NEW j \in Blamed(s) PROVE j \in Blamed(s)'
      OBVIOUS
    <2>1. j \in Jobs /\ owner[j] = s /\ Bad(j) /\ status[j] # "absent"
      BY <1>3 DEF Blamed
    <2>2. owner'[j] = s /\ Bad(j)'
      BY <2>1 DEF RowsMove
    <2>. QED  BY <2>1, <2>2 DEF Blamed, Jobs, Scanner!Jobs
  <1>. QED  BY <1>1, <1>2, <1>3, <1>4, FS_Subset

\* Blame that some runs bear, none of them the one shown, bounds the failures.
LEMMA BlameSuffices ==
  ASSUME RowInv, RowsMove, NEW s \in Ids, NEW B \in SUBSET Blamed(s),
         sched'[s].failures \in Nat, errs'[s] \in Nat,
         sched'[s].failures <= errs'[s] + Cardinality(B),
         B \cap Unjudged(s)' = {}
  PROVE  sched'[s].failures <= errs'[s] + Cardinality(Blamed(s)' \ Unjudged(s)')
  <1>. DEFINE C == Blamed(s)' \ Unjudged(s)'
  <1>1. IsFiniteSet(Blamed(s)') /\ B \subseteq C
    BY BlameGrows
  <1>2. IsFiniteSet(C)
    BY <1>1, FS_Subset
  <1>3. Cardinality(B) \in Nat /\ Cardinality(C) \in Nat /\ Cardinality(B) <= Cardinality(C)
    BY <1>1, <1>2, FS_Subset, FS_CardinalityType
  <1>. HIDE DEF C
  <1>. QED  BY <1>3 DEF C

\* One more failure for the run that is shown, when it ended badly.
LEMMA Judging ==
  ASSUME SInv, HistoryInv, RunInv, FailInv, NEW s \in Ids, sched[s].status = "running",
         status[sched[s].job] \notin Scanner!Live \cup {"complete"}
  PROVE  sched[s].failures + 1 <= errs[s] + Cardinality(Blamed(s))
  <1>. DEFINE j == sched[s].job
              B == Blamed(s)
  <1>1. RowInv /\ sched[s].failures \in Nat /\ errs[s] \in Nat
    BY Parts DEF SInv, TypeOK, Record
  <1>2. j \in Jobs /\ owner[j] = s /\ status[j] # "absent"
    BY DEF RunInv
  <1>3. j \in B
    <2>1. status[j] \in Scanner!Status
      BY <1>1, <1>2 DEF RowInv, Scanner!TypeOK, Jobs
    <2>2. status[j] \in {"failed", "cancelled", "interrupted", "pruned"}
      BY <1>2, <2>1, Names
    <2>3. Bad(j)
      BY <1>2, <2>2 DEF Bad, HistoryInv
    <2>. QED  BY <1>2, <2>3 DEF Blamed
  <1>4. IsFiniteSet(B)
    <2>1. IsFiniteSet(Jobs)
      BY SchedulesAssumption, FS_Interval DEF Jobs, Scanner!Jobs
    <2>2. B \subseteq Jobs
      BY DEF Blamed
    <2>. QED  BY <2>1, <2>2, FS_Subset
  <1>5. Cardinality(B \ {j}) = Cardinality(B) - 1 /\ Cardinality(B) \in Nat
    BY <1>3, <1>4, FS_RemoveElement, FS_CardinalityType
  <1>6. sched[s].failures <= errs[s] + Cardinality(B \ {j})
    BY DEF FailInv, Unjudged
  <1>. HIDE DEF B, j
  <1>. QED  BY <1>1, <1>5, <1>6 DEF B

\* Blame without the run shown is at most the whole.
LEMMA AllBlame ==
  ASSUME SInv, FailInv, NEW s \in Ids
  PROVE  sched[s].failures <= errs[s] + Cardinality(Blamed(s))
  <1>. DEFINE B == Blamed(s)
  <1>1. IsFiniteSet(B)
    <2>1. IsFiniteSet(Jobs)
      BY SchedulesAssumption, FS_Interval DEF Jobs, Scanner!Jobs
    <2>2. B \subseteq Jobs
      BY DEF Blamed
    <2>. QED  BY <2>1, <2>2, FS_Subset
  <1>2. B \ Unjudged(s) \subseteq B
    OBVIOUS
  <1>3. /\ Cardinality(B \ Unjudged(s)) <= Cardinality(B) /\ Cardinality(B) \in Nat
        /\ Cardinality(B \ Unjudged(s)) \in Nat
    BY <1>1, <1>2, FS_Subset, FS_CardinalityType
  <1>4. sched[s].failures \in Nat /\ errs[s] \in Nat
    BY DEF SInv, TypeOK, Record
  <1>5. sched[s].failures <= errs[s] + Cardinality(B \ Unjudged(s))
    BY DEF FailInv
  <1>. HIDE DEF B
  <1>. QED  BY <1>3, <1>4, <1>5 DEF B

\* What a visit sees of the last run.
LEMMA SeenRun ==
  ASSUME SInv, HistoryInv, RunInv, FailInv, Visiting
  PROVE  LET r == sched[cursor]
             v == Seen(cursor)
         IN  /\ v.job = r.job
             /\ v.status = "running" => r.status = "running"
             /\ r.status = "running" /\ status[r.job] \in Scanner!Live => v.status = "running"
             /\ r.error => v.error
             /\ v.failures \in Nat
             /\ IF v.status = "running" THEN v.failures = r.failures
                ELSE v.failures <= errs[cursor] + Cardinality(Blamed(cursor))
  <1>. DEFINE r == sched[cursor]
              h == Harvested(r)
  <1>1. cursor \in Ids /\ r \in Record /\ Seen(cursor) \in Record
    BY SeenRecord DEF SInv, TypeOK
  <1>2. /\ Seen(cursor).job = h.job /\ Seen(cursor).status = h.status
        /\ Seen(cursor).error = h.error /\ Seen(cursor).failures = h.failures
    <2>1. h \in Record /\ Seen(cursor) = Triggered(h)
      BY <1>1, HarvestedRecord DEF Seen
    <2>. HIDE DEF h
    <2>. QED  BY <2>1 DEF Triggered, Record
  <1>3. CASE h = r /\ (r.status # "running" \/ status[r.job] \in Scanner!Live)
    BY <1>1, <1>2, <1>3, AllBlame DEF Record
  <1>4. CASE /\ h = [r EXCEPT !.status = "idle"]
             /\ status[r.job] \notin Scanner!Live
    <2>1. h.job = r.job /\ h.status = "idle" /\ h.error = r.error /\ h.failures = r.failures
      BY <1>1, <1>4 DEF Record
    <2>. QED  BY <1>1, <1>2, <1>4, <2>1, AllBlame DEF Record
  <1>5. CASE /\ h = [r EXCEPT !.status = "failed", !.failures = @ + 1, !.error = TRUE]
             /\ r.status = "running" /\ status[r.job] \notin Scanner!Live \cup {"complete"}
    <2>. DEFINE f == r.failures + 1
    <2>1. f \in Nat /\ f <= errs[cursor] + Cardinality(Blamed(cursor))
      BY <1>1, <1>5, Judging DEF Record
    <2>. HIDE DEF f
    <2>2. h = [r EXCEPT !.status = "failed", !.failures = f, !.error = TRUE]
      BY <1>5 DEF f
    <2>3. h.job = r.job /\ h.status = "failed" /\ h.error = TRUE /\ h.failures = f
      BY <1>1, <2>2 DEF Record
    <2>. QED  BY <1>2, <1>5, <2>1, <2>3
  <1>6. r.status = "running" => r.job # NoJob
    <2>1. r.status = "running" => r.job \in Jobs
      BY <1>1 DEF RunInv
    <2>. QED  BY <2>1, SchedulesAssumption DEF Jobs, Scanner!Jobs
  <1>7. \/ h = r /\ (r.status # "running" \/ status[r.job] \in Scanner!Live)
        \/ /\ h = [r EXCEPT !.status = "idle"]
           /\ status[r.job] \notin Scanner!Live
        \/ /\ h = [r EXCEPT !.status = "failed", !.failures = @ + 1, !.error = TRUE]
           /\ r.status = "running" /\ status[r.job] \notin Scanner!Live \cup {"complete"}
    <2>1. CASE r.status # "running"
      BY <2>1 DEF Harvested
    <2>2. CASE r.status = "running"
      BY <1>6, <2>2, Names DEF Harvested
    <2>. QED  BY <2>1, <2>2
  <1>. QED  BY <1>3, <1>4, <1>5, <1>7

\* What a step may do to one schedule, as far as its runs are concerned.
Stays(s)   == sched'[s] = sched[s] /\ cut'[s] = cut[s] /\ errs'[s] = errs[s]

Edited(s)  == /\ UNCHANGED <<scanner, owner>> /\ errs'[s] = errs[s]
              /\ LET r == sched[s]
                     v == sched'[s]
                 IN  /\ v.status # "running" /\ v.is # "new" /\ v.failures <= r.failures
                     /\ \/ v.is = "deleted"
                        \/ r.is = "new" /\ v.job = NoJob
                        \/ cut'[s] = Newest /\ v.job = r.job

Viewed(s)  == /\ Visiting /\ s = cursor /\ UNCHANGED <<scanner, owner>>
              /\ cut'[s] = cut[s] /\ errs'[s] = errs[s]
              /\ LET r == Seen(s)
                     v == sched'[s]
                 IN  /\ v.is # "new" /\ v.job = r.job /\ v.error = r.error
                     /\ v.failures = r.failures
                     /\ v.status = "running" <=> r.status = "running"

Starts(s)  == /\ Visiting /\ s = cursor /\ cut'[s] = cut[s] /\ errs'[s] = errs[s]
              /\ LET v == sched'[s]
                 IN  /\ v.job \in Jobs /\ Scans(Scanner!Submit(v.job))
                     /\ owner' = [owner EXCEPT ![v.job] = s]
                     /\ v.is # "new" /\ v.status = "running"
                     /\ v.failures = Seen(s).failures

Fails(s)   == /\ Visiting /\ s = cursor /\ UNCHANGED <<scanner, owner>> /\ task # "busy"
              /\ cut'[s] = cut[s] /\ errs'[s] = errs[s] + 1
              /\ LET v == sched'[s]
                 IN  /\ v.is # "new" /\ v.status = "failed" /\ v.error
                     /\ v.failures = Seen(s).failures + 1

Resumes(s) == /\ Recovers /\ s = cursor /\ UNCHANGED <<scanner, owner>>
              /\ cut'[s] = cut[s] /\ errs'[s] = errs[s]
              /\ LET r == sched[s]
                     v == sched'[s]
                     bad == status[r.job] \in {"interrupted", "failed", "cancelled"}
                 IN  /\ v.is # "new" /\ v.job = r.job /\ v.status # "running"
                     /\ r.error \/ (r.job # NoJob /\ bad) => v.error
                     /\ \/ v.failures = r.failures
                        \/ r.status = "running" /\ bad /\ v.failures = r.failures + 1

Moves(s) == \/ Stays(s) \/ Edited(s) \/ Viewed(s) \/ Starts(s) \/ Fails(s) \/ Resumes(s)

\* Saving one schedule leaves the others as they are.
LEMMA SavedOne ==
  ASSUME SInv, NEW s \in Ids, NEW v, Save(s, v)
  PROVE  sched'[s] = v /\ \A t \in Ids \ {s} : sched'[t] = sched[t]
  BY DEF SInv, TypeOK, Save

\* An administrator's request.
LEMMA EditMoves ==
  ASSUME SInv, NEW s \in Ids, NEW d \in Definitions[s], NEW b \in BOOLEAN,
         Create(s, d) \/ Update(s, d, b), NEW t \in Ids
  PROVE  Moves(t)
  <1>. USE DEF Moves, NoScan
  <1>1. sched[s] \in Record /\ sched[s].failures \in Nat
    BY DEF SInv, TypeOK, Record
  <1>2. cut \in [Ids -> Jobs \cup {NoJob}]
    BY DEF SInv, TypeOK
  <1>3. CASE Create(s, d)
    <2>. DEFINE v == [NoSchedule EXCEPT !.is = "kept", !.def = d]
    <2>1. Save(s, v) /\ sched[s].is = "new" /\ UNCHANGED <<scanner, owner, errs, cut>>
      BY <1>3 DEF Create
    <2>2. v.status = "disabled" /\ v.is = "kept" /\ v.job = NoJob /\ v.failures = 0
      BY DEF NoSchedule
    <2>. HIDE DEF v
    <2>3. sched'[s] = v /\ (t # s => sched'[t] = sched[t])
      BY <2>1, SavedOne
    <2>. QED  BY <1>1, <2>1, <2>2, <2>3 DEF Edited, Stays
  <1>4. CASE Update(s, d, b)
    <2>. DEFINE n == IF b THEN NextTrigger(d, now) ELSE Never
                st == IF b THEN "idle" ELSE "disabled"
                v == [sched[s] EXCEPT !.def = d, !.enabled = b, !.pending = FALSE,
                                      !.next = n, !.status = st, !.error = FALSE]
    <2>1. /\ Save(s, v) /\ Kept(s) /\ UNCHANGED <<scanner, owner, errs>>
          /\ cut' = [cut EXCEPT ![s] = Newest]
      BY <1>4 DEF Update
    <2>2. st # "running"
      OBVIOUS
    <2>. HIDE DEF n, st
    <2>3. /\ v.status = st /\ v.is = "kept" /\ v.job = sched[s].job
          /\ v.failures = sched[s].failures
      BY <1>1, <2>1 DEF Record, Kept
    <2>. HIDE DEF v
    <2>4. sched'[s] = v /\ (t # s => sched'[t] = sched[t])
      BY <2>1, SavedOne
    <2>5. cut'[s] = Newest /\ (t # s => cut'[t] = cut[t])
      BY <1>2, <2>1
    <2>. QED  BY <1>1, <2>1, <2>2, <2>3, <2>4, <2>5 DEF Edited, Stays
  <1>. QED  BY <1>3, <1>4

\* So is a deletion.
LEMMA DeleteMoves ==
  ASSUME SInv, NEW s \in Ids, Delete(s), NEW t \in Ids
  PROVE  Moves(t)
  <1>. DEFINE v == [NoSchedule EXCEPT !.is = "deleted"]
  <1>1. Save(s, v) /\ UNCHANGED <<scanner, owner, errs, cut>>
    BY DEF Delete, NoScan
  <1>2. v.status = "disabled" /\ v.is = "deleted" /\ v.failures = 0
    BY DEF NoSchedule
  <1>. HIDE DEF v
  <1>3. sched'[s] = v /\ (t # s => sched'[t] = sched[t])
    BY <1>1, SavedOne
  <1>4. sched[s].failures \in Nat
    BY DEF SInv, TypeOK, Record
  <1>. QED  BY <1>1, <1>2, <1>3, <1>4 DEF Moves, Edited, Stays

\* A visit that starts a job.
LEMMA DispatchMoves ==
  ASSUME SInv, NEW j \in Jobs, Dispatches(j), NEW t \in Ids
  PROVE  /\ cursor \in Ids /\ Starts(cursor) /\ sched'[cursor].job = j
         /\ Moves(t)
  <1>. DEFINE r == Seen(cursor)
              v == [r EXCEPT !.pending = FALSE, !.status = "running", !.job = j,
                             !.error = FALSE]
  <1>1. Visiting
    BY DEF Dispatches
  <1>2. cursor \in Ids /\ r \in Record /\ r.is = "kept"
    BY <1>1, SeenRecord
  <1>. HIDE DEF r
  <1>3. /\ Save(cursor, v) /\ UNCHANGED <<errs, cut>>
        /\ Scans(Scanner!Submit(j)) /\ owner' = [owner EXCEPT ![j] = cursor]
    BY DEF Dispatches, Dispatched, r
  <1>4. v.is = r.is /\ v.status = "running" /\ v.job = j /\ v.failures = r.failures
    BY <1>2 DEF Record
  <1>. HIDE DEF v
  <1>5. sched'[cursor] = v /\ (t # cursor => sched'[t] = sched[t])
    BY <1>2, <1>3, SavedOne
  <1>. QED  BY <1>1, <1>2, <1>3, <1>4, <1>5 DEF Moves, Starts, Stays, r

\* Any visit of the tick.
LEMMA VisitMoves ==
  ASSUME SInv, Visits \/ DispatchFails \/ \E j \in Jobs : Dispatches(j), NEW t \in Ids
  PROVE  Moves(t)
  <1>. USE DEF Moves, NoScan
  <1>. DEFINE r == Seen(cursor)
  <1>1. Visiting
    BY DEF Visits, DispatchFails, Dispatches
  <1>2. cursor \in Ids /\ r \in Record /\ r.is = "kept" /\ errs \in [Ids -> Nat]
    BY <1>1, SeenRecord DEF SInv, TypeOK
  <1>. HIDE DEF r
  <1>3. CASE Visits
    <2>1. /\ UNCHANGED <<scanner, owner, errs, cut>>
          /\ \E v \in {r, [r EXCEPT !.status = "pending"]} :
               /\ Save(cursor, v)
               /\ v = r \/ r.status # "running"
      BY <1>3 DEF Visits, r
    <2>2. PICK v \in {r, [r EXCEPT !.status = "pending"]} :
               Save(cursor, v) /\ (v = r \/ r.status # "running")
      BY <2>1
    <2>3. /\ v.is = r.is /\ v.job = r.job /\ v.error = r.error /\ v.failures = r.failures
          /\ v.status = "running" <=> r.status = "running"
      BY <1>2, <2>2 DEF Record
    <2>4. sched'[cursor] = v /\ (t # cursor => sched'[t] = sched[t])
      BY <1>2, <2>2, SavedOne
    <2>. QED  BY <1>1, <1>2, <2>1, <2>3, <2>4 DEF Viewed, Stays, r
  <1>4. CASE DispatchFails
    <2>. DEFINE f == r.failures + 1
                v == [r EXCEPT !.pending = FALSE, !.status = "failed", !.error = TRUE,
                               !.failures = f]
    <2>1. /\ Save(cursor, v) /\ UNCHANGED <<scanner, owner, cut>> /\ task # "busy"
          /\ errs' = [errs EXCEPT ![cursor] = errs[cursor] + 1]
      BY <1>4 DEF DispatchFails, r
    <2>. HIDE DEF f
    <2>2. v.is = r.is /\ v.status = "failed" /\ v.error = TRUE /\ v.failures = f
      BY <1>2 DEF Record
    <2>. HIDE DEF v
    <2>3. sched'[cursor] = v /\ (t # cursor => sched'[t] = sched[t])
      BY <1>2, <2>1, SavedOne
    <2>4. errs'[cursor] = errs[cursor] + 1 /\ (t # cursor => errs'[t] = errs[t])
      BY <1>2, <2>1
    <2>. QED  BY <1>1, <1>2, <2>1, <2>2, <2>3, <2>4 DEF Fails, Stays, r, f
  <1>5. CASE \E j \in Jobs : Dispatches(j)
    BY <1>5, DispatchMoves
  <1>. QED  BY <1>3, <1>4, <1>5

\* A round of the recovery.
LEMMA RecoversMoves ==
  ASSUME SInv, RunInv, Recovers, NEW t \in Ids
  PROVE  Moves(t) /\ (t = cursor /\ sched'[t].is = "kept" => Resumes(t))
  <1>. USE DEF Moves, NoScan
  <1>. DEFINE r == sched[cursor]
  <1>1. /\ cursor \in Ids /\ r \in Record /\ UNCHANGED <<scanner, owner, errs, cut>>
    BY DEF SInv, TypeOK, LoopInv, Recovers
  <1>2. CASE ~Kept(cursor)
    <2>1. Save(cursor, r)
      BY <1>2 DEF Recovers
    <2>. QED  BY <1>1, <1>2, <2>1, SavedOne DEF Stays, Kept
  <1>3. CASE Kept(cursor)
    <2>. DEFINE n == ResumedNext(r)
                st == IF ~r.enabled THEN "disabled"
                      ELSE IF Judged(r) THEN status[r.job] ELSE "idle"
                e == r.error \/ Judged(r)
                f == IF Judged(r) /\ r.status = "running" THEN r.failures + 1 ELSE r.failures
                v == [r EXCEPT !.pending = FALSE, !.next = n, !.status = st,
                               !.error = e, !.failures = f]
    <2>1. Save(cursor, v) /\ r.is = "kept"
      BY <1>3 DEF Recovers, Resumed, Kept
    <2>2. st # "running" /\ (r.error \/ Judged(r) => e)
          /\ (f = r.failures \/ (Judged(r) /\ r.status = "running" /\ f = r.failures + 1))
      BY DEF Judged
    <2>. HIDE DEF n, st, e, f
    <2>3. v.is = r.is /\ v.job = r.job /\ v.status = st /\ v.error = e /\ v.failures = f
      BY <1>1 DEF Record
    <2>. HIDE DEF v
    <2>4. sched'[cursor] = v /\ (t # cursor => sched'[t] = sched[t])
      BY <1>1, <2>1, SavedOne
    <2>. QED  BY <1>1, <2>1, <2>2, <2>3, <2>4 DEF Resumes, Stays, Judged
  <1>. QED  BY <1>2, <1>3

\* Every step is one of these for every schedule.
LEMMA SchedMoves ==
  ASSUME SInv, RunInv, [Next]_vars, NEW t \in Ids
  PROVE  Moves(t)
  <1>1. ASSUME UNCHANGED <<sched, cut, errs>> PROVE Moves(t)
    BY <1>1 DEF Moves, Stays
  <1>2. CASE \E s \in Ids :
               \/ \E d \in Definitions[s] : Create(s, d) \/ \E b \in BOOLEAN : Update(s, d, b)
    BY <1>2, EditMoves
  <1>3. ASSUME NEW s \in Ids, Delete(s) PROVE Moves(t)
    BY <1>3, DeleteMoves
  <1>4. CASE Visits \/ DispatchFails \/ \E j \in Jobs : Dispatches(j)
    BY <1>4, VisitMoves
  <1>5. CASE Recovers
    BY <1>5, RecoversMoves
  <1>6. CASE (\E j \in Jobs : StartManual(j)) \/ Scan \/ Passes \/ TickBegins \/ Skips
    BY <1>1, <1>6 DEF StartManual, Scan, Passes, TickBegins, Skips
  <1>7. CASE SaveFails \/ Closes \/ Dies \/ Restarts \/ UNCHANGED vars
    BY <1>1, <1>7 DEF SaveFails, Closes, Dies, Restarts, vars
  <1>. QED  BY <1>2, <1>3, <1>4, <1>5, <1>6, <1>7 DEF Next, Tick

\* A job gets its owner when it is started, by a visit.
LEMMA OwnerMoves ==
  ASSUME SInv, [Next]_vars, NEW j \in Jobs, owner'[j] # owner[j]
  PROVE  /\ Visiting /\ cursor \in Ids /\ owner'[j] = cursor
         /\ manager' = "running" => Starts(cursor) /\ sched'[cursor].job = j
  <1>1. PICK k \in Jobs : \/ Dispatches(k)
                          \/ SaveFails /\ Dispatched(Seen(cursor), k)
    BY DEF Next, Tick, Create, Update, Delete, StartManual, Scan, Passes, TickBegins,
           Skips, Visits, DispatchFails, SaveFails, Closes, Dies, Restarts, Recovers, vars
  <1>2. Visiting /\ owner' = [owner EXCEPT ![k] = cursor]
    BY <1>1 DEF Dispatches, SaveFails, Dispatched
  <1>3. k = j /\ owner'[j] = cursor /\ cursor \in Ids
    BY <1>2, SeenRecord DEF SInv, TypeOK
  <1>4. CASE Dispatches(k)
    BY <1>2, <1>3, <1>4, DispatchMoves
  <1>5. CASE SaveFails
    BY <1>2, <1>3, <1>5 DEF SaveFails
  <1>. QED  BY <1>1, <1>4, <1>5

\* A schedule that is visited exists.
LEMMA VisitedKept ==
  ASSUME SInv, Visiting
  PROVE  cursor \in Ids /\ Kept(cursor) /\ manager = "running" /\ Settled(cursor)
  BY DEF SInv, TypeOK, TimeInv, Sane, Visiting, Kept, Settled

\* How the phases of the manager follow one another.
LEMMA PhaseMoves ==
  ASSUME SInv, HistoryInv, LiveInv, [Next]_vars
  PROVE  /\ manager' = "recovering" => Scanner!NoneLive(status')
         /\ manager' = "running" => manager = "running" \/ Scanner!NoneLive(status')
         /\ \A s \in Ids : Settled(s)' =>
              manager # "off" /\ (Settled(s) \/ (Recovers /\ s = cursor))
  <1>. DEFINE Goal == /\ manager' = "recovering" => Scanner!NoneLive(status')
                      /\ manager' = "running" => manager = "running" \/ Scanner!NoneLive(status')
                      /\ \A s \in Ids : Settled(s)' =>
                           manager # "off" /\ (Settled(s) \/ (Recovers /\ s = cursor))
  <1>1. cursor \in Ids \cup {0} /\ (manager = "recovering" => cursor \in Ids)
    BY DEF SInv, TypeOK, LoopInv
  <1>2. CASE Recovers
    <2>1. /\ manager = "recovering" /\ status' = status /\ Continues
          /\ manager' = IF cursor = Count THEN "running" ELSE "recovering"
      BY <1>2 DEF Recovers, NoScan, scanner
    <2>2. ASSUME NEW s \in Ids, Settled(s)' PROVE Settled(s) \/ s = cursor
      <3>1. CASE cursor = Count
        BY <1>1, <2>1, <3>1, SchedulesAssumption DEF Settled, Ids
      <3>2. CASE cursor # Count
        BY <1>1, <2>1, <2>2, <3>2, SchedulesAssumption DEF Settled, Ids, Continues
      <3>. QED  BY <3>1, <3>2
    <2>. QED  BY <1>2, <2>1, <2>2 DEF LiveInv, Settled, Scanner!NoneLive
  <1>3. CASE Restarts
    <2>1. Scanner!NoneLive(status')
      BY <1>3, Parts, ScanOutcomes DEF Restarts, Scans, ScanStep, RowInv, HistoryInv
    <2>2. \A s \in Ids : ~Settled(s)'
      BY <1>3, SchedulesAssumption DEF Restarts, Settled, Ids
    <2>. QED  BY <2>1, <2>2
  <1>4. CASE manager' \notin {"running", "recovering"}
    BY <1>4 DEF Settled
  <1>5. CASE manager = "running" /\ manager' = "running"
    BY <1>5 DEF Settled
  <1>6. CASE UNCHANGED <<manager, cursor, status>>
    BY <1>6 DEF Settled, LiveInv, Scanner!NoneLive, SInv, LoopInv
  <1>7. ASSUME NEW s \in Ids, Delete(s) \/ \E d \in Definitions[s] :
                 Create(s, d) \/ \E b \in BOOLEAN : Update(s, d, b)
        PROVE  UNCHANGED <<manager, cursor, status>>
    BY <1>7 DEF Create, Update, Delete, NoScan, scanner
  <1>8. ASSUME NEW j \in Jobs, StartManual(j) PROVE Goal
    <2>1. manager \in {"running", "dead"} /\ manager' = manager
      BY <1>8 DEF StartManual, Request, Serving
    <2>. QED  BY <2>1 DEF Settled
  <1>9. CASE Scan
    <2>1. cursor = 0 /\ manager' = manager /\ manager # "off" /\ manager # "recovering"
      BY <1>1, <1>9 DEF Scan, Ids
    <2>. QED  BY <2>1 DEF Settled
  <1>10. CASE Passes \/ TickBegins \/ Closes
    BY <1>4, <1>5, <1>6, <1>10 DEF Passes, TickBegins, Closes, NoScan, scanner
  <1>11. CASE Skips \/ Visits \/ DispatchFails \/ \E j \in Jobs : Dispatches(j)
    BY <1>5, <1>11 DEF Skips, Visits, DispatchFails, Dispatches, Visiting
  <1>12. CASE SaveFails \/ Dies
    BY <1>4, <1>12 DEF SaveFails, Dies
  <1>13. CASE UNCHANGED vars
    BY <1>6, <1>13 DEF vars, scanner
  <1>. QED  BY <1>2, <1>3, <1>6, <1>7, <1>8, <1>9, <1>10, <1>11, <1>12, <1>13 DEF Next, Tick

\* The types after the step, of what the proofs below compare.
LEMMA TypesAfter ==
  ASSUME SInv, [Next]_vars, NEW s \in Ids
  PROVE  /\ sched[s].failures \in Nat /\ sched'[s].failures \in Nat
         /\ errs[s] \in Nat /\ errs'[s] \in Nat
         /\ sched'[s].job \in Jobs \cup {NoJob} /\ cut'[s] \in Nat
  <1>1. SchedInv /\ RestInv /\ SchedInv' /\ RestInv'
    BY Parts, SchedKept, RestKept
  <1>2. Jobs \cup {NoJob} \subseteq Nat /\ Jobs' = Jobs
    BY SchedulesAssumption DEF Jobs, Scanner!Jobs
  <1>. QED  BY <1>1, <1>2 DEF SchedInv, RestInv, Record

\* A schedule still shows one of its own runs.
LEMMA RunKept ==
  ASSUME SInv, HInv, [Next]_vars
  PROVE  RunInv'
  <1>. USE DEF HInv
  <1>. SUFFICES ASSUME NEW s \in Ids, sched'[s].status = "running"
                PROVE  LET j == sched'[s].job
                       IN j \in Jobs /\ owner'[j] = s /\ status'[j] # "absent"
    BY DEF RunInv, Jobs, Scanner!Jobs, Ids
  <1>1. Moves(s) /\ RowsMove
    BY SchedMoves, RowsStep
  <1>2. CASE sched[s].status = "running" /\ sched'[s].job = sched[s].job
    BY <1>1, <1>2 DEF RunInv, RowsMove
  <1>3. CASE Stays(s)
    BY <1>2, <1>3 DEF Stays
  <1>4. CASE Viewed(s)
    BY <1>2, <1>4, SeenRun DEF Viewed
  <1>5. CASE Starts(s)
    <2>. DEFINE j == sched'[s].job
    <2>1. j \in Jobs /\ Scanner!Submit(j) /\ owner' = [owner EXCEPT ![j] = s]
      BY <1>5 DEF Starts, Scans
    <2>2. RowInv
      BY Parts
    <2>. HIDE DEF j
    <2>3. owner'[j] = s /\ status'[j] # "absent"
      BY <2>1, <2>2, SubmitRows DEF RowInv
    <2>. QED  BY <2>1, <2>3 DEF j
  <1>. QED  BY <1>1, <1>3, <1>4, <1>5 DEF Moves, Edited, Fails, Resumes

\* Only schedules that were created own runs, and the history is kept.
LEMMA HistoryStep ==
  ASSUME SInv, HInv, [Next]_vars
  PROVE  HistoryInv'
  <1>. USE DEF HInv
  <1>1. RowsMove /\ HistoryKept
    BY RowsStep
  <1>2. ASSUME NEW j \in Jobs, owner'[j] # Manual PROVE sched'[owner'[j]].is # "new"
    <2>1. owner'[j] \in Ids /\ sched[owner'[j]].is # "new"
      <3>1. CASE owner'[j] = owner[j]
        BY <1>2, <3>1, Parts DEF RowInv, HistoryInv
      <3>2. CASE owner'[j] # owner[j]
        BY <3>2, OwnerMoves, VisitedKept DEF Kept
      <3>. QED  BY <3>1, <3>2
    <2>2. Moves(owner'[j])
      BY <2>1, SchedMoves
    <2>. QED  BY <2>1, <2>2 DEF Moves, Stays, Edited, Viewed, Starts, Fails, Resumes
  <1>. QED  BY <1>1, <1>2 DEF HistoryInv, HistoryKept, Jobs, Scanner!Jobs

\* No failure without blame.
LEMMA FailKept ==
  ASSUME SInv, HInv, [Next]_vars
  PROVE  FailInv'
  <1>. USE DEF HInv
  <1>. SUFFICES ASSUME NEW s \in Ids
                PROVE  sched'[s].failures <= errs'[s] + Cardinality(Blamed(s)' \ Unjudged(s)')
    BY DEF FailInv, Ids
  <1>1. Moves(s) /\ RowsMove /\ RowInv
    BY SchedMoves, RowsStep, Parts
  <1>2. /\ sched[s].failures \in Nat /\ sched'[s].failures \in Nat
        /\ errs[s] \in Nat /\ errs'[s] \in Nat
    BY TypesAfter
  <1>3. ASSUME NEW B \in SUBSET Blamed(s), B \cap Unjudged(s)' = {},
               sched'[s].failures <= errs'[s] + Cardinality(B)
        PROVE  sched'[s].failures <= errs'[s] + Cardinality(Blamed(s)' \ Unjudged(s)')
    BY <1>1, <1>2, <1>3, BlameSuffices
  <1>4. sched[s].failures <= errs[s] + Cardinality(Blamed(s))
    BY AllBlame
  <1>5. Cardinality(Blamed(s)) \in Nat
    BY <1>1, BlameGrows, FS_CardinalityType
  <1>6. CASE /\ errs'[s] = errs[s] /\ sched'[s].failures = sched[s].failures
             /\ Unjudged(s)' = Unjudged(s)
    <2>. DEFINE B == Blamed(s) \ Unjudged(s)
    <2>1. B \in SUBSET Blamed(s) /\ B \cap Unjudged(s)' = {}
      BY <1>6
    <2>2. sched'[s].failures <= errs'[s] + Cardinality(B)
      BY <1>6 DEF FailInv
    <2>. HIDE DEF B
    <2>. QED  BY <1>3, <2>1, <2>2
  <1>7. CASE /\ Unjudged(s)' \cap Blamed(s) = {}
             /\ sched'[s].failures <= errs'[s] + Cardinality(Blamed(s))
    BY <1>3, <1>7
  <1>8. CASE Stays(s)
    BY <1>6, <1>8 DEF Stays, Unjudged
  <1>9. CASE Edited(s)
    <2>1. sched'[s].failures <= errs'[s] + Cardinality(Blamed(s))
      BY <1>2, <1>4, <1>5, <1>9 DEF Edited
    <2>. QED  BY <1>7, <1>9, <2>1 DEF Edited, Unjudged
  <1>10. CASE Viewed(s)
    <2>1. CASE Seen(s).status = "running"
      BY <1>6, <1>10, <2>1, SeenRun DEF Viewed, Unjudged
    <2>2. CASE Seen(s).status # "running"
      BY <1>7, <1>10, <2>2, SeenRun DEF Viewed, Unjudged
    <2>. QED  BY <2>1, <2>2
  <1>11. ASSUME Visiting, s = cursor
         PROVE  Seen(s).failures \in Nat /\ Seen(s).failures <= errs[s] + Cardinality(Blamed(s))
    BY <1>4, <1>11, SeenRun
  <1>12. CASE Starts(s)
    <2>. DEFINE j == sched'[s].job
    <2>1. j \in Jobs /\ Scanner!Submit(j) /\ Unjudged(s)' = {j}
      BY <1>12 DEF Starts, Scans, Unjudged
    <2>2. status[j] = "absent"
      BY <1>1, <2>1, SubmitRows DEF RowInv
    <2>3. j \notin Blamed(s)
      BY <1>1, <2>2, BlameGrows
    <2>. HIDE DEF j
    <2>. QED  BY <1>7, <1>11, <1>12, <2>1, <2>3 DEF Starts
  <1>13. CASE Fails(s)
    <2>1. sched'[s].failures <= errs'[s] + Cardinality(Blamed(s))
      BY <1>2, <1>5, <1>11, <1>13 DEF Fails
    <2>. QED  BY <1>7, <1>13, <2>1 DEF Fails, Unjudged
  <1>14. CASE Resumes(s)
    <2>1. sched'[s].failures <= errs'[s] + Cardinality(Blamed(s))
      BY <1>4, <1>14, Judging, Names DEF Resumes
    <2>. QED  BY <1>7, <1>14, <2>1 DEF Resumes, Unjudged
  <1>. QED  BY <1>1, <1>8, <1>9, <1>10, <1>12, <1>13, <1>14 DEF Moves

\* A run that works is the one its schedule shows.
LEMMA LiveKept ==
  ASSUME SInv, HInv, [Next]_vars
  PROVE  LiveInv'
  <1>. USE DEF HInv
  <1>1. /\ manager' = "recovering" => Scanner!NoneLive(status')
        /\ manager' = "running" => manager = "running" \/ Scanner!NoneLive(status')
    BY PhaseMoves
  <1>2. RowsMove /\ RowInv
    BY RowsStep, Parts
  <1>3. ASSUME NEW j \in Jobs, manager' = "running", manager = "running",
               status'[j] \in Scanner!Live, task' = "busy", owner'[j] # Manual,
               sched'[owner'[j]].is = "kept", j > cut'[owner'[j]]
        PROVE  sched'[owner'[j]].status = "running" /\ sched'[owner'[j]].job = j
    <2>. DEFINE s == owner'[j]
    <2>1. CASE owner'[j] # owner[j]
      BY <1>3, <2>1, OwnerMoves DEF Starts
    <2>2. CASE owner'[j] = owner[j]
      <3>1. s \in Ids /\ owner[j] = s
        BY <1>2, <1>3, <2>2 DEF RowInv
      <3>2. status[j] # "absent"
        BY <1>2, <1>3, <3>1 DEF RowInv, OwnerInv
      <3>3. status[j] \in Scanner!Live /\ task = "busy"
        BY <1>2, <1>3, <3>2 DEF RowsMove
      <3>4. Moves(s) /\ sched[s].is # "new"
        BY <1>3, <3>1, SchedMoves DEF HistoryInv
      <3>5. ASSUME Kept(s), j > cut[s]
            PROVE  sched[s].status = "running" /\ sched[s].job = j
        BY <1>3, <3>1, <3>3, <3>5 DEF LiveInv
      <3>. HIDE DEF s
      <3>6. CASE Stays(s)
        BY <1>3, <3>5, <3>6 DEF Stays, Kept, s
      <3>7. CASE Edited(s)
        <4>1. cut'[s] = Newest
          BY <1>3, <3>4, <3>7 DEF Edited, Kept, s
        <4>2. j <= Newest /\ Newest \in Nat /\ j \in Nat
          BY <1>2, <3>2, NewestIsLast, NewestJob, SchedulesAssumption DEF Jobs, Scanner!Jobs
        <4>. QED  BY <1>3, <4>1, <4>2 DEF s
      <3>8. CASE Viewed(s)
        <4>1. Kept(s) /\ j > cut[s] /\ s = cursor /\ Visiting
          BY <1>3, <3>8, VisitedKept DEF Viewed, s
        <4>2. sched[s].status = "running" /\ sched[s].job = j
          BY <3>5, <4>1
        <4>3. Seen(s).status = "running" /\ Seen(s).job = j
          BY <3>3, <4>1, <4>2, SeenRun
        <4>. QED  BY <3>8, <4>3 DEF Viewed, s
      <3>9. CASE Starts(s)
        BY <3>3, <3>9 DEF Starts, Scans, Scanner!Submit
      <3>10. CASE Fails(s)
        BY <3>3, <3>10 DEF Fails
      <3>11. CASE Resumes(s)
        BY <1>3, <3>11 DEF Resumes, Recovers
      <3>. QED  BY <3>4, <3>6, <3>7, <3>8, <3>9, <3>10, <3>11 DEF Moves
    <2>. QED  BY <2>1, <2>2
  <1>. QED  BY <1>1, <1>3 DEF LiveInv, Kept, Scanner!NoneLive, Jobs, Scanner!Jobs

\* What a restart interrupted is shown, or was edited or started again.
LEMMA ErrorKept ==
  ASSUME SInv, HInv, [Next]_vars
  PROVE  ErrorInv'
  <1>. USE DEF HInv
  <1>. SUFFICES ASSUME NEW s \in Ids, Settled(s)', Kept(s)', sched'[s].job > cut'[s],
                       status'[sched'[s].job] = "interrupted"
                PROVE  sched'[s].error
    BY DEF ErrorInv, Ids
  <1>. DEFINE j == sched'[s].job
  <1>1. j \in Jobs /\ cut'[s] \in Nat
    BY TypesAfter DEF Jobs, Scanner!Jobs
  <1>2. manager # "off" /\ (Settled(s) \/ (Recovers /\ s = cursor))
    BY PhaseMoves
  <1>3. status[j] = "interrupted" /\ RowInv
    BY <1>1, <1>2, RowsStep, Parts
  <1>4. Moves(s)
    BY SchedMoves
  <1>5. CASE Resumes(s)
    BY <1>1, <1>3, <1>5, SchedulesAssumption DEF Resumes, Jobs, Scanner!Jobs
  <1>6. CASE ~Settled(s)
    BY <1>2, <1>5, <1>6, RecoversMoves DEF Kept
  <1>7. CASE Settled(s) /\ Stays(s)
    BY <1>3, <1>7 DEF Stays, ErrorInv, Kept
  <1>8. CASE Edited(s)
    <2>1. j # NoJob /\ j <= Newest /\ Newest \in Nat /\ j \in Nat
      BY <1>1, <1>3, NewestIsLast, NewestJob, SchedulesAssumption DEF Jobs, Scanner!Jobs
    <2>. QED  BY <1>1, <1>8, <2>1 DEF Edited, Kept
  <1>9. CASE Viewed(s)
    <2>1. Visiting /\ s = cursor /\ Kept(s) /\ Settled(s)
      BY <1>9, VisitedKept DEF Viewed
    <2>2. sched[s].job = j /\ cut[s] = cut'[s]
      BY <1>9, <2>1, SeenRun DEF Viewed
    <2>3. sched[s].error
      BY <1>3, <2>1, <2>2 DEF ErrorInv
    <2>. QED  BY <1>9, <2>1, <2>3, SeenRun DEF Viewed
  <1>10. CASE Starts(s)
    BY <1>1, <1>3, <1>10, SubmitRows DEF Starts, Scans, RowInv
  <1>. QED  BY <1>4, <1>5, <1>6, <1>7, <1>8, <1>9, <1>10 DEF Moves, Fails

\* What is held against schedules, and what they show, is kept by every step.
THEOREM HistoryInvariant == Spec => []HInv
  <1>1. Init => HInv
    <2>. SUFFICES ASSUME Init PROVE HInv
      OBVIOUS
    <2>1. /\ \A j \in Jobs : status[j] = "absent" /\ outcome[j] = "absent" /\ owner[j] = Manual
          /\ \A s \in Ids : sched[s] = NoSchedule /\ errs[s] = 0
          /\ manager = "running"
      BY DEF Init, Scanner!Init, Jobs
    <2>2. HistoryInv /\ LiveInv
      BY <2>1, Names DEF HistoryInv, LiveInv, Scanner!OneLive, Scanner!NoneLive, Jobs
    <2>3. NoSchedule.status = "disabled" /\ NoSchedule.failures = 0 /\ NoSchedule.is = "new"
      BY DEF NoSchedule
    <2>4. RunInv /\ ErrorInv
      BY <2>1, <2>3 DEF RunInv, ErrorInv, Kept
    <2>5. ASSUME NEW s \in Ids PROVE Blamed(s) \ Unjudged(s) = {}
      BY <2>1, SchedulesAssumption DEF Blamed, Ids
    <2>6. FailInv
      BY <2>1, <2>3, <2>5, FS_EmptySet DEF FailInv
    <2>. QED  BY <2>2, <2>4, <2>6 DEF HInv
  <1>2. SInv /\ HInv /\ [Next]_vars => HInv'
    BY RunKept, HistoryStep, FailKept, LiveKept, ErrorKept DEF HInv
  <1>. QED  BY <1>1, <1>2, Invariant, PTL DEF Spec

\* No run is blamed twice, and none that completed: failures are failed
\* dispatches and runs that ended badly (_harvest, _recover).
THEOREM RealFailures == Spec => []FailuresAreReal
  <1>1. SInv /\ HInv => FailuresAreReal
    <2>. SUFFICES ASSUME SInv, HInv, NEW s \in Ids
                  PROVE  sched[s].failures <= errs[s] + Cardinality(Blamed(s))
      BY DEF FailuresAreReal, Blamed, Bad
    <2>. QED  BY AllBlame DEF HInv
  <1>. QED  BY <1>1, Invariant, HistoryInvariant, PTL

\* No run works unseen by its schedule while the scheduler lives.
THEOREM ShownRuns == Spec => []RunsAreShown
  <1>1. HInv => RunsAreShown
    BY DEF HInv, LiveInv, RunsAreShown
  <1>. QED  BY <1>1, HistoryInvariant, PTL

\* A recorded run that a death interrupted is shown as an error.
THEOREM ShownInterruptions == Spec => []InterruptionsAreShown
  <1>1. HInv => InterruptionsAreShown
    BY DEF HInv, ErrorInv, InterruptionsAreShown, Settled
  <1>. QED  BY <1>1, HistoryInvariant, PTL

=============================================================================
