---------------------------- MODULE MCPluginStack ----------------------------
(* Instances of PluginStack for TLC.                                        *)
EXTENDS PluginStack

CONSTANTS a, b, r1, q1, q2

=============================================================================
