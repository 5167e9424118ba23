---------------------------- MODULE MCHostNodes ----------------------------
(***************************************************************************)
(* Two clients with a graph each.  The second, whose connection comes last *)
(* in managed_ptrs, may add two copy nodes; the first may launch twice.    *)
(***************************************************************************)
EXTENDS HostNodes_proofs

CONSTANTS g1, g2

MCOwner == [g \in Graphs |-> IF g = g1 THEN 1 ELSE 2]
MCFn == [g \in Graphs |-> "f"]
MCMaxEntries == [c \in Clients |-> IF c = 1 THEN 1 ELSE 2]
MCMaxLaunches == [g \in Graphs |-> IF g = g1 THEN 2 ELSE 1]
=============================================================================
