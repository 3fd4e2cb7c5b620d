---------------------------- MODULE MCDebugDevice ----------------------------
(* Checks DebugDevice as it stands.                                        *)
EXTENDS DebugDevice
=============================================================================
