---------------------------- MODULE MCScanRunner ----------------------------
(* ScanRunner on small instances. *)
EXTENDS ScanRunner

\* Two addresses of which one is documented, scanned in the three modes.
MCRequests == {[plan |-> {1, 2}, known |-> {1}, mode |-> "full"],
               [plan |-> {2},    known |-> {1}, mode |-> "discovery-only"],
               [plan |-> {1},    known |-> {1}, mode |-> "known-only"],
               [plan |-> {},     known |-> {},  mode |-> "known-only"],
               [plan |-> {},     known |-> {1}, mode |-> "discovery-only"]}

\* A full scan, and the same addresses after one became documented.
MCFull == {[plan |-> {1, 2, 3}, known |-> {1}, mode |-> "full"]}
=============================================================================
