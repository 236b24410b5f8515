---------------------------- MODULE MCIDGenerator ----------------------------
(***************************************************************************)
(* Four ids beginning at 3 (so that ids and offsets differ), shared by     *)
(* three interchangeable goroutines.                                       *)
(***************************************************************************)
EXTENDS IDGenerator, TLC

CONSTANTS c1, c2, c3

MCClients == {c1, c2, c3}
ClientSymmetry == Permutations(MCClients)
=============================================================================
