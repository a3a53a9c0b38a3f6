----------------------------- MODULE MCCoverage -----------------------------
(* Eight addresses.  The inventories have a network and one inside it, two   *)
(* that touch, a /31 beside a /32, and nothing; the known addresses lie at   *)
(* the edges, in the middle, and outside every declared network.             *)
EXTENDS Coverage

MCInventories ==
  { [declared |-> {Network(0, 0), Network(0, 2)}, known |-> {2, 3}],
    [declared |-> {Network(0, 1), Network(4, 1)}, known |-> {0, 4, 7}],
    [declared |-> {Network(0, 1), Network(4, 2), Network(6, 3)}, known |-> {2, 5, 6}],
    [declared |-> {}, known |-> {1}] }

=============================================================================
