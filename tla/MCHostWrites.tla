---------------------------- MODULE MCHostWrites ----------------------------
(* HostWrites with two files of the checkout that the settings may name, with *)
(* and without Git, one backup kept.                                          *)
EXTENDS HostWrites

MCOutside == {-1}
MCPaths   == {1, 2}
MCConfigs == [path : MCPaths, git : BOOLEAN, keep : {1}] \ {[path |-> 2, git |-> FALSE, keep |-> 1]}
=============================================================================
