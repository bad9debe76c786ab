--------------------------- MODULE MCFlushScheduler ---------------------------
(* Instances of FlushScheduler for TLC: the background timer, the online     *)
(* event and an application's calls.                                         *)
EXTENDS FlushScheduler

CONSTANTS timer, online, app
=============================================================================
