----------------------------- MODULE MCSessions -----------------------------
(* Sessions on a small instance: the provider's mapping of roles may change. *)
EXTENDS Sessions, TLC

MCPolicies == {[on |-> TRUE, issuer |-> 1, roles |-> 1], [on |-> TRUE, issuer |-> 1, roles |-> 2]}
MCSymmetry == Permutations(Requests)
=============================================================================
