---------------------------- MODULE MCEventStream ----------------------------
(***************************************************************************)
(* EventStream for TLC.                                                    *)
(***************************************************************************)
EXTENDS EventStream

CONSTANTS agent, other
=============================================================================
