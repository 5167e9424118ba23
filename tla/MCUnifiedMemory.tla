-------------------------- MODULE MCUnifiedMemory --------------------------
(***************************************************************************)
(* Pages of eight bytes.  r1 has two of them.  r4, at the same address,    *)
(* has a page and a byte: no power of two, but the mask leaves its address *)
(* alone.  r2, of four bytes, lies on both pages, and r3, of three, on the *)
(* second, where the multiples of three do not stay in the page.           *)
(***************************************************************************)
EXTENDS UnifiedMemory_proofs, TLC

CONSTANTS r1, r2, r3, r4

MCBase == (r1 :> 32) @@ (r2 :> 37) @@ (r3 :> 41) @@ (r4 :> 32)
MCSize == (r1 :> 16) @@ (r2 :> 4) @@ (r3 :> 3) @@ (r4 :> 9)
Symmetry == Permutations(Threads)
=============================================================================
