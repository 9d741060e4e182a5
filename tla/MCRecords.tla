------------------------------ MODULE MCRecords -------------------------------
(***************************************************************************)
(* What sessions leave behind, outputs and the lists they are read in, for *)
(* TLC.  They share no state, so that one of them moves in a behaviour and *)
(* the other stays as it began.  Outputs: three paths, one of them with a  *)
(* newline in its name, three contents, one of them too big, two captures, *)
(* a limit that cuts the listing of a full directory and one that does     *)
(* not.  Lists: four ids at two times, so that some tie, any table to      *)
(* begin with, and limits below and above the range, which makes pages of  *)
(* one row and of two; memory stores of both times or of one.              *)
(***************************************************************************)
EXTENDS Outputs, TLC

CONSTANTS p1, p2, p3, x, y, z, c1, c2, RowIds, Times, PageLimits, MaxPage, Windows

VARIABLES part, kind, window, asked, made, hidden, removed, seen, more, must, phase

P == INSTANCE Paging WITH Ids <- RowIds, Limits <- PageLimits

walk == <<kind, window, asked, made, hidden, removed, seen, more, must, phase>>

ASSUME ListsAssumption == P!NumberAssumption /\ P!LimitAssumption

MCInit ==
  /\ Init /\ P!Init /\ part \in {"outputs", "lists"}
  /\ part # "outputs" => limit = 4 /\ \A c, d \in Captures : job[c].path = job[d].path
  /\ part # "lists" => kind = "hidden" /\ asked = 2 /\ made = {}
MCNext ==
  /\ UNCHANGED part
  /\ \/ part = "outputs" /\ Next /\ UNCHANGED walk
     \/ part = "lists" /\ P!Next /\ UNCHANGED vars
MCSpec == MCInit /\ [][MCNext]_<<part, vars, walk>>

WalkIsWhole == P!WalkIsWhole

\* The properties treat paths alike, contents, and captures.
Symmetry == Permutations(Paths \ Odd) \cup Permutations(Contents \ Big) \cup Permutations(Captures)
=============================================================================
