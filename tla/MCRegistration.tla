--------------------------- MODULE MCRegistration ---------------------------
(***************************************************************************)
(* A program with a library of two kernels and one of a kernel and a       *)
(* variable.                                                               *)
(***************************************************************************)
EXTENDS RegistrationService_proofs

MCKernels == [b \in FatBins |-> IF b = "b1" THEN <<"k1", "k2">> ELSE <<"k3">>]
MCVariables == [b \in FatBins |-> IF b = "b1" THEN <<>> ELSE <<"v3">>]
MCLoads == [c \in Clients |-> IF c = "c1" THEN FatBins ELSE {"b1"}]
MCNameOf == [k \in AllKernels |-> k]
=============================================================================
