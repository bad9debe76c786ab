--------------------------- MODULE MCHttpSwrWrites ---------------------------
(***************************************************************************)
(* Instances of HttpSwrWrites for TLC.                                     *)
(***************************************************************************)
EXTENDS HttpSwrWrites, TLC

CONSTANTS e1, e2

Entities == Permutations({e1, e2})
=============================================================================
