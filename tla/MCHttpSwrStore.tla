---------------------------- MODULE MCHttpSwrStore ----------------------------
(* Instances of HttpSwrStore for TLC.                                       *)
EXTENDS HttpSwrStore

CONSTANTS e1, e2

=============================================================================
