------------------------------ MODULE MCHandles ------------------------------
(* Two calls that share a handle; a tick is a minute, rounded against the code. *)
EXTENDS Handles
=============================================================================
