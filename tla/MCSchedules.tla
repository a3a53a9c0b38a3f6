---------------------------- MODULE MCSchedules ----------------------------
(* Schedules on small instances: an interval and a calendar schedule, two  *)
(* interval schedules that compete, and one schedule that may be either.   *)
EXTENDS Schedules

Every(n) == [kind |-> "interval", every |-> n, on |-> {}]
At(ts)   == [kind |-> "calendar", every |-> 1, on |-> ts]

MCTwo   == <<{Every(1)}, {At({1, 3})}>>
MCShort == <<{Every(1)}, {Every(1)}>>
MCOne   == <<{Every(2), At({1, 2, 5})}>>
=============================================================================
