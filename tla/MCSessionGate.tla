---------------------------- MODULE MCSessionGate ----------------------------
(***************************************************************************)
(* SessionGate for TLC.                                                    *)
(***************************************************************************)
EXTENDS SessionGate

CONSTANTS b1, b2, w1, w2, s1, s2
=============================================================================
