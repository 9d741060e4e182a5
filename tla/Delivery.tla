------------------------------- MODULE Delivery -------------------------------
(***************************************************************************)
(* What a client of a session's stream may count on, with no pages,        *)
(* doorbells, cursors or connections in it: the log grows until it is      *)
(* closed, and the client is told of its events one by one, of no event    *)
(* twice and of none before it is in the log.                              *)
(***************************************************************************)
EXTENDS Integers

VARIABLES
  logged,  \* how many events are in the log
  told,    \* of how many the client has been told
  closed   \* nothing comes after the last of them

vars == <<logged, told, closed>>

Init == logged = 0 /\ told = 0 /\ closed = FALSE

\* A transaction's events, with the last of all or without.
Record ==
  /\ ~closed
  /\ logged' > logged /\ closed' \in BOOLEAN
  /\ told' = told

Tell ==
  /\ told < logged
  /\ told' = told + 1
  /\ UNCHANGED <<logged, closed>>

Next == Record \/ Tell

Spec == Init /\ [][Next]_vars
=============================================================================
