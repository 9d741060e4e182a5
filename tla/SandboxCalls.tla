------------------------------ MODULE SandboxCalls ------------------------------
(***************************************************************************)
(* The requests that Sandboxes is about, and what a command may say        *)
(* (app/routers/sandbox.py, and app/routers/sessions.py for containers     *)
(* that belong to a session).                                              *)
(***************************************************************************)
EXTENDS Naturals

CONSTANTS
  Bare,     \* POST /sandbox/create
  Homes,    \* POST /sessions
  Deletes,  \* requests to delete a sandbox, or a session
  Polls,    \* get_result requests about one command
  Main,     \* the collector of the call that runs it
  Codes,    \* its exit codes
  Full,     \* how much it may print
  NoOne

ASSUME OwnerAssumption ==
  Bare \cap Homes = {} /\ Deletes \cap (Bare \cup Homes) = {} /\ NoOne \notin Bare \cup Homes
ASSUME ReaderAssumption == Main \notin Polls
ASSUME CodeAssumption == Codes \cap {"none", "empty"} = {} /\ "timeout" \in Codes
ASSUME BoundAssumption == Full \in Nat
=============================================================================
