---------------------------- MODULE MCSmContext ----------------------------
(***************************************************************************)
(* A context whose path has one or two UPFs, and up to three SBI requests. *)
(***************************************************************************)
EXTENDS SmContext, TLC

CONSTANTS u1, u2, h1, h2, h3

\* SBI requests are alike.
SbiSymmetry == Permutations(Sbi)
=============================================================================
