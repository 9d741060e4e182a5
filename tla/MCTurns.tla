-------------------------------- MODULE MCTurns --------------------------------
(***************************************************************************)
(* Turns for TLC with one tool that asks, and room for a reply of three    *)
(* calls: one that is refused beside two that are cut off.                 *)
(***************************************************************************)
EXTENDS Turns

ConfigsOf == {[default |-> "always_ask", entries |-> << >>]}
===============================================================================
