----------------------------- MODULE MCRpcConn -----------------------------
(***************************************************************************)
(* Small instances of RpcConn for TLC, with the inductive invariant of its *)
(* proofs.  Application threads are interchangeable.                       *)
(***************************************************************************)
EXTENDS RpcService_proofs, TLC
Symmetry == Permutations(Apps)
=============================================================================
