--------------------------- MODULE LatestCoverage ---------------------------
(***************************************************************************)
(* What a scan of discovery promises, address by address: a request is     *)
(* answered from the inventory of the moment it was made, and when its     *)
(* scan completes, the addresses it asked for were last covered by it.     *)
(***************************************************************************)
EXTENDS Targets

CONSTANTS Inventories, MaxJobs

VARIABLES asked,     \* the request being scanned and its inventory, or NoScan
          latest     \* for each address, the last scan that covered it (0: none)

NoScan == [request |-> "none"]

Init ==
  /\ asked = NoScan
  /\ latest = [a \in Space |-> 0]

Ask ==
  /\ asked = NoScan
  /\ asked' \in [request : Requests, inventory : Inventories]
  /\ Allowed(asked'.request, asked'.inventory.declared)
  /\ UNCHANGED latest

\* A scan of known addresses alone discovers nothing.
Complete ==
  /\ asked # NoScan
  /\ asked' = NoScan
  /\ \E job \in 1 .. MaxJobs :
       /\ \A a \in Space : latest[a] < job
       /\ latest' = IF asked.request.mode = "known-only" THEN latest ELSE
            LET wanted == Wanted(asked.request, asked.inventory.declared,
                                 asked.inventory.known) IN
            [a \in Space |-> IF a \in wanted THEN job ELSE latest[a]]

Abandon ==
  /\ asked # NoScan
  /\ asked' = NoScan
  /\ UNCHANGED latest

Next == Ask \/ Complete \/ Abandon

Spec == Init /\ [][Next]_<<asked, latest>>

=============================================================================
