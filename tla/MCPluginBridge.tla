--------------------------- MODULE MCPluginBridge ---------------------------
(* Model values for the run of PluginBridge. *)
EXTENDS PluginBridge

CONSTANTS c1, c2, c3

ThreeCallers == {c1, c2, c3}
=============================================================================
