----------------------------- MODULE MCEvidence -----------------------------
(* Evidence on two addresses that may share a name, with two resolvers. *)
EXTENDS Evidence

R(ip, mac, name, dns) == [ip |-> ip, mac |-> mac, name |-> name, dns |-> dns]
F(declared, records)  == [declared |-> declared, records |-> records]
MCFiles ==
  {F({1, 2}, {R(1, "m", "n", TRUE)}),                            \* 2 is undocumented
   F({1, 2}, {R(1, "m", "n", TRUE), R(2, NoMac, "n", TRUE)}),    \* both have the name
   F({1},    {R(1, "m", "n", TRUE)}),                            \* 2 is not declared
   F({1, 2}, {R(1, "m", "n", TRUE), R(2, "m", "n", FALSE),       \* 2 is in conflict
              R(2, "o", "n", FALSE)})}                           \*   and concerns 2 alone

MCSettings ==
  {[servers |-> 1, scopes |-> {}, maxAge |-> Never],
   [servers |-> 1, scopes |-> {[on |-> {1, 2}, servers |-> 0], [on |-> {1}, servers |-> 2]},
    maxAge |-> Never]}

\* A range of both addresses, which the third file invalidates; a calendar of all
\* known addresses whose gaps grow, beside a discovery of the others.
Every(all, target, mode, gaps) == [all |-> all, target |-> target, mode |-> mode, gaps |-> gaps]
MCTables ==
  {{Every(FALSE, {1, 2}, "full", [t \in 0 .. MaxTime |-> 1])},
   {Every(TRUE, {}, "known-only", [t \in 0 .. MaxTime |-> IF t < 3 THEN 1 ELSE 2]),
    Every(TRUE, {}, "discovery-only", [t \in 0 .. MaxTime |-> 1])}}

D(s) == [n \in {"n"} |-> [error |-> FALSE, addresses |-> s]]
MCWorlds ==
  {[up |-> {1, 2}, arp |-> [ip \in Addresses |-> "m"], dns |-> <<D({1}), D({1, 2})>>],
   [up |-> {1}, arp |-> <<"m", NoMac>>, dns |-> <<D({1}), [n \in {"n"} |->
                                                  [error |-> TRUE, addresses |-> {}]]>>]}
=============================================================================
