---------------------------- MODULE SandboxesProofs ----------------------------
(***************************************************************************)
(* What is proved of Sandboxes, for any number of containers, deletes and  *)
(* polls.                                                                  *)
(***************************************************************************)
EXTENDS Sandboxes, TLAPS

(***************************************************************************)
(* The containers.                                                         *)
(***************************************************************************)

\* Where the making of a container and its row are, and why a row that is spent names no
\* container that runs.
OwnersInv ==
  \A x \in C!Owners :
    /\ place[x] \notin {"killing", "marking"}
    /\ place[x] \in {"new", "started", "unfilled", "filled"} => row[x] = "none"
    /\ place[x] = "new" => box[x] = "none"
    /\ place[x] \in {"started", "unfilled", "filled"} => box[x] # "none"
    /\ row[x] \in {"failed", "terminated"} => x \in Bare
    /\ row[x] \in {"failed", "terminated", "deleted"} => box[x] # "live" \/ x \in lost

\* A delete is of a container that will not start again, and that does not run from the
\* moment the provider said so.
DeletesInv ==
  \A q \in Deletes :
    /\ place[q] \notin {"started", "unfilled", "filled"}
    /\ place[q] \in {"killing", "marking", "done"} => on[q] \in C!Owners /\ row[on[q]] # "none"
    /\ place[q] \in {"marking", "done"} => box[on[q]] # "live" \/ on[q] \in lost

ContainersInv == C!TypeOK /\ OwnersInv /\ DeletesInv /\ Accounted

(***************************************************************************)
(* The command.                                                            *)
(***************************************************************************)

\* The command is for a container that will not start again, and ends with it.
TargetInv ==
  /\ target \in C!Owners \cup {NoOne}
  /\ target # NoOne => row[target] # "none"
  /\ ~Up => lpc \in {"none", "done", "lost"} /\ child # "alive"

\* The script has arrived once, if it is not to be sent.
LaunchedInv ==
  /\ launched <= 1
  /\ request \in {"new", "again"} => launched = 0 /\ lpc = "none"

\* The launcher leaves its files one after the other, rc last.
DiskInv ==
  /\ lpc \in {"none", "start", "running", "exited", "ended"} => rc = "none"
  /\ lpc \in {"rc", "lost"} => rc \notin Codes
  /\ lpc \in {"running", "exited", "ended", "rc"} => started
  /\ lpc \in {"ended", "rc"} => ended
  /\ lpc \in {"exited", "ended", "rc"} => code \in Codes

\* A collector that has read a code finds the rest as it will stay.
ReportsInv ==
  \A r \in X!Readers : report[r].rc \in Codes =>
    /\ lpc = "done" /\ rc \in Codes
    /\ rpc[r] \in {"ended", "out", "done"} => report[r].started
    /\ rpc[r] \in {"out", "done"} => report[r].ended
    /\ rpc[r] = "done" /\ child = "none" => report[r].out = out

CommandInv == X!TypeOK /\ TargetInv /\ LaunchedInv /\ DiskInv /\ ReportsInv

SandboxesInv == ContainersInv /\ CommandInv

\* What a request of one kind is not.
LEMMA KindsOfRequest ==
  /\ \A x \in C!Owners : x \in C!Reqs /\ x \notin Deletes /\ x # NoOne
  /\ \A x \in Bare : x \in C!Owners /\ x \notin Homes
  /\ \A x \in Homes : x \in C!Owners /\ x \notin Bare
  /\ \A q \in Deletes : q \in C!Reqs /\ q \notin C!Owners
  /\ \A q \in C!Reqs : q \in C!Owners \/ q \in Deletes
BY OwnerAssumption DEF C!Owners, C!Reqs

\* At first there is nothing.
LEMMA ContainersInit == C!Init => ContainersInv
BY KindsOfRequest DEF C!Init, ContainersInv, C!TypeOK, C!Done, OwnersInv, DeletesInv, Accounted

\* Containers and rows keep their types: a row that says so names a container that was made.
LEMMA ContainersTypeNext == ContainersInv /\ C!Next => C!TypeOK'
<1> SUFFICES ASSUME ContainersInv, C!Next PROVE C!TypeOK'
  OBVIOUS
<1>0. C!TypeOK /\ OwnersInv /\ DeletesInv /\ Accounted
  BY DEF ContainersInv
<1> USE KindsOfRequest
<1>1. ASSUME NEW q \in C!Reqs, C!Stop(q) PROVE C!TypeOK'
  BY <1>0, <1>1 DEF C!Stop, C!Goto, C!TypeOK, C!Done, OwnersInv, DeletesInv
<1>2. ASSUME NEW x \in Bare, NEW made \in BOOLEAN, NEW answered \in BOOLEAN, C!StartBare(x, made, answered) PROVE C!TypeOK'
  BY <1>0, <1>2 DEF C!StartBare, C!Started, C!Goto, C!TypeOK, C!Done, OwnersInv, DeletesInv
<1>3. ASSUME NEW x \in Homes, NEW made \in BOOLEAN, NEW answered \in BOOLEAN, C!StartHome(x, made, answered) PROVE C!TypeOK'
  BY <1>0, <1>3 DEF C!StartHome, C!Started, C!Goto, C!TypeOK, C!Done, OwnersInv, DeletesInv
<1>4. ASSUME NEW x \in Homes, NEW ok \in BOOLEAN, C!Fill(x, ok) PROVE C!TypeOK'
  BY <1>0, <1>4 DEF C!Fill, C!Goto, C!TypeOK, C!Done, OwnersInv, DeletesInv
<1>5. ASSUME NEW x \in Homes, NEW ok \in BOOLEAN, C!CleanUp(x, ok) PROVE C!TypeOK'
  BY <1>0, <1>5 DEF C!CleanUp, C!Killed, C!Goto, C!TypeOK, C!Done, OwnersInv, DeletesInv
<1>6. ASSUME NEW x \in C!Owners, C!Record(x) PROVE C!TypeOK'
  BY <1>0, <1>6 DEF C!Record, C!Goto, C!TypeOK, C!Done, OwnersInv, DeletesInv
<1>7. ASSUME NEW x \in Bare, C!TimeOut(x) PROVE C!TypeOK'
  BY <1>0, <1>7 DEF C!TimeOut, C!Goto, C!TypeOK, C!Done, OwnersInv, DeletesInv
<1>8. ASSUME NEW q \in Deletes, NEW x \in C!Owners, C!Load(q, x) PROVE C!TypeOK'
  BY <1>0, <1>8 DEF C!Load, C!Live, C!Goto, C!TypeOK, C!Done, OwnersInv, DeletesInv
<1>9. ASSUME NEW q \in Deletes, C!Mark(q) PROVE C!TypeOK'
  <2> DEFINE mark == IF on[q] \in Bare THEN "terminated" ELSE "deleted"
  <2>1. on[q] \in C!Owners /\ row[on[q]] # "none" /\ (on[q] \notin Bare => on[q] \in Homes)
    BY <1>0, <1>9 DEF C!Mark, DeletesInv, C!Owners
  <2>2. on[q] \in Homes => box[on[q]] # "none"
    BY <1>0, <2>1 DEF C!TypeOK, OwnersInv
  <2>3. place' = [place EXCEPT ![q] = "done"] /\ row' = [row EXCEPT ![on[q]] = mark] /\ UNCHANGED <<box, on, lost>>
    BY <1>9 DEF C!Mark, C!Goto
  <2>4. \A x \in C!Owners : row'[x] = IF x = on[q] THEN mark ELSE row[x]
    BY <1>0, <2>3 DEF C!TypeOK
  <2>5. row' \in [C!Owners -> {"none", "running", "failed", "terminated", "deleted"}]
    BY <1>0, <2>3 DEF C!TypeOK
  <2>6. place' \in [C!Reqs -> C!Done \cup {"new", "started", "unfilled", "filled", "killing", "marking"}]
    BY <1>0, <2>3 DEF C!TypeOK, C!Done
  <2> QED BY <1>0, <2>1, <2>2, <2>3, <2>4, <2>5, <2>6 DEF C!TypeOK
<1>10. ASSUME NEW q \in Deletes, NEW killed \in BOOLEAN, C!Kill(q, killed) PROVE C!TypeOK'
  BY <1>0, <1>10 DEF C!Kill, C!Killed, C!Goto, C!TypeOK, C!Done, OwnersInv, DeletesInv
<1> QED BY <1>1, <1>2, <1>3, <1>4, <1>5, <1>6, <1>7, <1>8, <1>9, <1>10 DEF C!Next

\* A container whose row has been written does not start again, a row does not go away,
\* and what is lost is not found.
Settled ==
  /\ \A x \in C!Owners : row[x] # "none" =>
       row'[x] # "none" /\ (box'[x] = "live" => box[x] = "live")
  /\ lost \subseteq lost'

\* No step brings a container back whose row has been written.
LEMMA SettledNext == ContainersInv /\ C!Next => Settled
<1> SUFFICES ASSUME ContainersInv, C!Next PROVE Settled
  OBVIOUS
<1>0. C!TypeOK /\ OwnersInv /\ DeletesInv /\ Accounted
  BY DEF ContainersInv
<1> USE KindsOfRequest
<1>1. ASSUME NEW q \in C!Reqs, C!Stop(q) PROVE Settled
  BY <1>0, <1>1 DEF C!Stop, C!Goto, C!TypeOK, C!Done, OwnersInv, DeletesInv, Settled
<1>2. ASSUME NEW x \in Bare, NEW made \in BOOLEAN, NEW answered \in BOOLEAN, C!StartBare(x, made, answered) PROVE Settled
  BY <1>0, <1>2 DEF C!StartBare, C!Started, C!Goto, C!TypeOK, C!Done, OwnersInv, DeletesInv, Settled
<1>3. ASSUME NEW x \in Homes, NEW made \in BOOLEAN, NEW answered \in BOOLEAN, C!StartHome(x, made, answered) PROVE Settled
  BY <1>0, <1>3 DEF C!StartHome, C!Started, C!Goto, C!TypeOK, C!Done, OwnersInv, DeletesInv, Settled
<1>4. ASSUME NEW x \in Homes, NEW ok \in BOOLEAN, C!Fill(x, ok) PROVE Settled
  BY <1>0, <1>4 DEF C!Fill, C!Goto, C!TypeOK, C!Done, OwnersInv, DeletesInv, Settled
<1>5. ASSUME NEW x \in Homes, NEW ok \in BOOLEAN, C!CleanUp(x, ok) PROVE Settled
  BY <1>0, <1>5 DEF C!CleanUp, C!Killed, C!Goto, C!TypeOK, C!Done, OwnersInv, DeletesInv, Settled
<1>6. ASSUME NEW x \in C!Owners, C!Record(x) PROVE Settled
  BY <1>0, <1>6 DEF C!Record, C!Goto, C!TypeOK, C!Done, OwnersInv, DeletesInv, Settled
<1>7. ASSUME NEW x \in Bare, C!TimeOut(x) PROVE Settled
  BY <1>0, <1>7 DEF C!TimeOut, C!Goto, C!TypeOK, C!Done, OwnersInv, DeletesInv, Settled
<1>8. ASSUME NEW q \in Deletes, NEW x \in C!Owners, C!Load(q, x) PROVE Settled
  BY <1>0, <1>8 DEF C!Load, C!Live, C!Goto, C!TypeOK, C!Done, OwnersInv, DeletesInv, Settled
<1>9. ASSUME NEW q \in Deletes, C!Mark(q) PROVE Settled
  BY <1>0, <1>9 DEF C!Mark, C!Goto, C!TypeOK, C!Done, OwnersInv, DeletesInv, Settled
<1>10. ASSUME NEW q \in Deletes, NEW killed \in BOOLEAN, C!Kill(q, killed) PROVE Settled
  BY <1>0, <1>10 DEF C!Kill, C!Killed, C!Goto, C!TypeOK, C!Done, OwnersInv, DeletesInv, Settled
<1> QED BY <1>1, <1>2, <1>3, <1>4, <1>5, <1>6, <1>7, <1>8, <1>9, <1>10 DEF C!Next

\* The making of a container, a row at a time.
LEMMA OwnersNext == ContainersInv /\ C!Next => OwnersInv'
<1> SUFFICES ASSUME ContainersInv, C!Next PROVE OwnersInv'
  OBVIOUS
<1>0. C!TypeOK /\ OwnersInv /\ DeletesInv /\ Accounted
  BY DEF ContainersInv
<1> USE KindsOfRequest
<1>1. ASSUME NEW q \in C!Reqs, C!Stop(q) PROVE OwnersInv'
  BY <1>0, <1>1 DEF C!Stop, C!Goto, C!TypeOK, C!Done, OwnersInv, DeletesInv
<1>2. ASSUME NEW x \in Bare, NEW made \in BOOLEAN, NEW answered \in BOOLEAN, C!StartBare(x, made, answered) PROVE OwnersInv'
  BY <1>0, <1>2 DEF C!StartBare, C!Started, C!Goto, C!TypeOK, C!Done, OwnersInv, DeletesInv
<1>3. ASSUME NEW x \in Homes, NEW made \in BOOLEAN, NEW answered \in BOOLEAN, C!StartHome(x, made, answered) PROVE OwnersInv'
  BY <1>0, <1>3 DEF C!StartHome, C!Started, C!Goto, C!TypeOK, C!Done, OwnersInv, DeletesInv
<1>4. ASSUME NEW x \in Homes, NEW ok \in BOOLEAN, C!Fill(x, ok) PROVE OwnersInv'
  BY <1>0, <1>4 DEF C!Fill, C!Goto, C!TypeOK, C!Done, OwnersInv, DeletesInv
<1>5. ASSUME NEW x \in Homes, NEW ok \in BOOLEAN, C!CleanUp(x, ok) PROVE OwnersInv'
  BY <1>0, <1>5 DEF C!CleanUp, C!Killed, C!Goto, C!TypeOK, C!Done, OwnersInv, DeletesInv
<1>6. ASSUME NEW x \in C!Owners, C!Record(x) PROVE OwnersInv'
  BY <1>0, <1>6 DEF C!Record, C!Goto, C!TypeOK, C!Done, OwnersInv, DeletesInv
<1>7. ASSUME NEW x \in Bare, C!TimeOut(x) PROVE OwnersInv'
  BY <1>0, <1>7 DEF C!TimeOut, C!Goto, C!TypeOK, C!Done, OwnersInv, DeletesInv
<1>8. ASSUME NEW q \in Deletes, NEW x \in C!Owners, C!Load(q, x) PROVE OwnersInv'
  BY <1>0, <1>8 DEF C!Load, C!Live, C!Goto, C!TypeOK, C!Done, OwnersInv, DeletesInv
<1>9. ASSUME NEW q \in Deletes, C!Mark(q) PROVE OwnersInv'
  BY <1>0, <1>9 DEF C!Mark, C!Goto, C!TypeOK, C!Done, OwnersInv, DeletesInv
<1>10. ASSUME NEW q \in Deletes, NEW killed \in BOOLEAN, C!Kill(q, killed) PROVE OwnersInv'
  BY <1>0, <1>10 DEF C!Kill, C!Killed, C!Goto, C!TypeOK, C!Done, OwnersInv, DeletesInv
<1> QED BY <1>1, <1>2, <1>3, <1>4, <1>5, <1>6, <1>7, <1>8, <1>9, <1>10 DEF C!Next

\* A delete goes on from the kill to the mark, and no start comes after it.
LEMMA DeletesNext == ContainersInv /\ C!Next => DeletesInv'
<1> SUFFICES ASSUME ContainersInv, C!Next PROVE DeletesInv'
  OBVIOUS
<1>0. C!TypeOK /\ OwnersInv /\ DeletesInv /\ Accounted
  BY DEF ContainersInv
<1> USE KindsOfRequest
<1>1. ASSUME NEW q \in C!Reqs, C!Stop(q) PROVE DeletesInv'
  BY <1>0, <1>1 DEF C!Stop, C!Goto, C!TypeOK, C!Done, OwnersInv, DeletesInv
<1>2. ASSUME NEW x \in Bare, NEW made \in BOOLEAN, NEW answered \in BOOLEAN, C!StartBare(x, made, answered) PROVE DeletesInv'
  BY <1>0, <1>2 DEF C!StartBare, C!Started, C!Goto, C!TypeOK, C!Done, OwnersInv, DeletesInv
<1>3. ASSUME NEW x \in Homes, NEW made \in BOOLEAN, NEW answered \in BOOLEAN, C!StartHome(x, made, answered) PROVE DeletesInv'
  BY <1>0, <1>3 DEF C!StartHome, C!Started, C!Goto, C!TypeOK, C!Done, OwnersInv, DeletesInv
<1>4. ASSUME NEW x \in Homes, NEW ok \in BOOLEAN, C!Fill(x, ok) PROVE DeletesInv'
  BY <1>0, <1>4 DEF C!Fill, C!Goto, C!TypeOK, C!Done, OwnersInv, DeletesInv
<1>5. ASSUME NEW x \in Homes, NEW ok \in BOOLEAN, C!CleanUp(x, ok) PROVE DeletesInv'
  BY <1>0, <1>5 DEF C!CleanUp, C!Killed, C!Goto, C!TypeOK, C!Done, OwnersInv, DeletesInv
<1>6. ASSUME NEW x \in C!Owners, C!Record(x) PROVE DeletesInv'
  BY <1>0, <1>6 DEF C!Record, C!Goto, C!TypeOK, C!Done, OwnersInv, DeletesInv
<1>7. ASSUME NEW x \in Bare, C!TimeOut(x) PROVE DeletesInv'
  BY <1>0, <1>7 DEF C!TimeOut, C!Goto, C!TypeOK, C!Done, OwnersInv, DeletesInv
<1>8. ASSUME NEW q \in Deletes, NEW x \in C!Owners, C!Load(q, x) PROVE DeletesInv'
  BY <1>0, <1>8 DEF C!Load, C!Live, C!Goto, C!TypeOK, C!Done, OwnersInv, DeletesInv
<1>9. ASSUME NEW q \in Deletes, C!Mark(q) PROVE DeletesInv'
  BY <1>0, <1>9 DEF C!Mark, C!Goto, C!TypeOK, C!Done, OwnersInv, DeletesInv
<1>10. ASSUME NEW q \in Deletes, NEW killed \in BOOLEAN, C!Kill(q, killed) PROVE DeletesInv'
  BY <1>0, <1>10 DEF C!Kill, C!Killed, C!Goto, C!TypeOK, C!Done, OwnersInv, DeletesInv
<1> QED BY <1>1, <1>2, <1>3, <1>4, <1>5, <1>6, <1>7, <1>8, <1>9, <1>10 DEF C!Next

\* A container that runs has someone who can name it.
LEMMA AccountedNext == ContainersInv /\ C!Next => Accounted'
<1> SUFFICES ASSUME ContainersInv, C!Next PROVE Accounted'
  OBVIOUS
<1>0. C!TypeOK /\ OwnersInv /\ DeletesInv /\ Accounted
  BY DEF ContainersInv
<1> USE KindsOfRequest
<1>1. ASSUME NEW q \in C!Reqs, C!Stop(q) PROVE Accounted'
  BY <1>0, <1>1 DEF C!Stop, C!Goto, C!TypeOK, C!Done, OwnersInv, DeletesInv, Accounted, C!Live
<1>2. ASSUME NEW x \in Bare, NEW made \in BOOLEAN, NEW answered \in BOOLEAN, C!StartBare(x, made, answered) PROVE Accounted'
  BY <1>0, <1>2 DEF C!StartBare, C!Started, C!Goto, C!TypeOK, C!Done, OwnersInv, DeletesInv, Accounted, C!Live
<1>3. ASSUME NEW x \in Homes, NEW made \in BOOLEAN, NEW answered \in BOOLEAN, C!StartHome(x, made, answered) PROVE Accounted'
  BY <1>0, <1>3 DEF C!StartHome, C!Started, C!Goto, C!TypeOK, C!Done, OwnersInv, DeletesInv, Accounted, C!Live
<1>4. ASSUME NEW x \in Homes, NEW ok \in BOOLEAN, C!Fill(x, ok) PROVE Accounted'
  BY <1>0, <1>4 DEF C!Fill, C!Goto, C!TypeOK, C!Done, OwnersInv, DeletesInv, Accounted, C!Live
<1>5. ASSUME NEW x \in Homes, NEW ok \in BOOLEAN, C!CleanUp(x, ok) PROVE Accounted'
  BY <1>0, <1>5 DEF C!CleanUp, C!Killed, C!Goto, C!TypeOK, C!Done, OwnersInv, DeletesInv, Accounted, C!Live
<1>6. ASSUME NEW x \in C!Owners, C!Record(x) PROVE Accounted'
  BY <1>0, <1>6 DEF C!Record, C!Goto, C!TypeOK, C!Done, OwnersInv, DeletesInv, Accounted, C!Live
<1>7. ASSUME NEW x \in Bare, C!TimeOut(x) PROVE Accounted'
  BY <1>0, <1>7 DEF C!TimeOut, C!Goto, C!TypeOK, C!Done, OwnersInv, DeletesInv, Accounted, C!Live
<1>8. ASSUME NEW q \in Deletes, NEW x \in C!Owners, C!Load(q, x) PROVE Accounted'
  BY <1>0, <1>8 DEF C!Load, C!Goto, C!TypeOK, C!Done, OwnersInv, DeletesInv, Accounted, C!Live
<1>9. ASSUME NEW q \in Deletes, C!Mark(q) PROVE Accounted'
  BY <1>0, <1>9 DEF C!Mark, C!Goto, C!TypeOK, C!Done, OwnersInv, DeletesInv, Accounted, C!Live
<1>10. ASSUME NEW q \in Deletes, NEW killed \in BOOLEAN, C!Kill(q, killed) PROVE Accounted'
  BY <1>0, <1>10 DEF C!Kill, C!Killed, C!Goto, C!TypeOK, C!Done, OwnersInv, DeletesInv, Accounted, C!Live
<1> QED BY <1>1, <1>2, <1>3, <1>4, <1>5, <1>6, <1>7, <1>8, <1>9, <1>10 DEF C!Next

(***************************************************************************)
(* Steps of the command.                                                   *)
(***************************************************************************)

Moves == InContainer /\ (X!Step \/ \E r \in Polls : X!Poll(r, Live))

Reports == [rc : Codes \cup {"none", "empty"}, started : BOOLEAN, ended : BOOLEAN, out : 0..Full]

\* The collectors, and what no code is.
LEMMA KindsOfReader ==
  /\ Main \in X!Readers /\ \A r \in Polls : r \in X!Readers /\ r # Main
  /\ Codes \cap {"none", "empty"} = {} /\ Full \in Nat
BY ReaderAssumption, CodeAssumption, BoundAssumption DEF X!Readers

\* The reading of one file writes one part of one report.
LEMMA ReadingRc ==
  ASSUME X!TypeOK, NEW r \in X!Readers, X!ReadRc(r)
  PROVE  /\ report' \in [X!Readers -> Reports] /\ report'[r].rc = rc
         /\ \A s \in X!Readers \ {r} : report'[s] = report[s]
<1>1. /\ report \in [X!Readers -> Reports] /\ rc \in Codes \cup {"none", "empty"}
      /\ X!Blank \in Reports
  BY KindsOfReader DEF X!TypeOK, Reports, X!Blank
<1>2. ASSUME NEW old \in Reports, NEW new, new = [old EXCEPT !.rc = rc]
      PROVE  new \in Reports /\ new.rc = rc
  BY <1>1, <1>2 DEF Reports
<1>3. report' = [report EXCEPT ![r] = [X!Blank EXCEPT !.rc = rc]]
  BY DEF X!ReadRc
<1> QED BY <1>1, <1>2, <1>3

LEMMA ReadingStarted ==
  ASSUME X!TypeOK, NEW r \in X!Readers, X!ReadStarted(r)
  PROVE  /\ report' \in [X!Readers -> Reports] /\ report'[r].started = started
         /\ report'[r].rc = report[r].rc /\ report'[r].ended = report[r].ended /\ report'[r].out = report[r].out
         /\ \A s \in X!Readers \ {r} : report'[s] = report[s]
<1>1. report \in [X!Readers -> Reports] /\ started \in BOOLEAN
  BY DEF X!TypeOK, Reports
<1>2. ASSUME NEW old \in Reports, NEW new, new = [old EXCEPT !.started = started]
      PROVE  /\ new \in Reports /\ new.started = started
             /\ new.rc = old.rc /\ new.ended = old.ended /\ new.out = old.out
  BY <1>1, <1>2 DEF Reports
<1>3. report' = [report EXCEPT ![r] = [report[r] EXCEPT !.started = started]]
  BY DEF X!ReadStarted
<1> QED BY <1>1, <1>2, <1>3

LEMMA ReadingEnded ==
  ASSUME X!TypeOK, NEW r \in X!Readers, X!ReadEnded(r)
  PROVE  /\ report' \in [X!Readers -> Reports] /\ report'[r].ended = ended
         /\ report'[r].rc = report[r].rc /\ report'[r].started = report[r].started /\ report'[r].out = report[r].out
         /\ \A s \in X!Readers \ {r} : report'[s] = report[s]
<1>1. report \in [X!Readers -> Reports] /\ ended \in BOOLEAN
  BY DEF X!TypeOK, Reports
<1>2. ASSUME NEW old \in Reports, NEW new, new = [old EXCEPT !.ended = ended]
      PROVE  /\ new \in Reports /\ new.ended = ended
             /\ new.rc = old.rc /\ new.started = old.started /\ new.out = old.out
  BY <1>1, <1>2 DEF Reports
<1>3. report' = [report EXCEPT ![r] = [report[r] EXCEPT !.ended = ended]]
  BY DEF X!ReadEnded
<1> QED BY <1>1, <1>2, <1>3

LEMMA ReadingOut ==
  ASSUME X!TypeOK, NEW r \in X!Readers, X!ReadOut(r)
  PROVE  /\ report' \in [X!Readers -> Reports] /\ report'[r].out = out
         /\ report'[r].rc = report[r].rc /\ report'[r].started = report[r].started /\ report'[r].ended = report[r].ended
         /\ \A s \in X!Readers \ {r} : report'[s] = report[s]
<1>1. report \in [X!Readers -> Reports] /\ out \in 0..Full
  BY DEF X!TypeOK, Reports
<1>2. ASSUME NEW old \in Reports, NEW new, new = [old EXCEPT !.out = out]
      PROVE  /\ new \in Reports /\ new.out = out
             /\ new.rc = old.rc /\ new.started = old.started /\ new.ended = old.ended
  BY <1>1, <1>2 DEF Reports
<1>3. report' = [report EXCEPT ![r] = [report[r] EXCEPT !.out = out]]
  BY DEF X!ReadOut
<1> QED BY <1>1, <1>2, <1>3

\* Types; a code is on disk after the times.
LEMMA CommandTypeNext == CommandInv /\ Moves => X!TypeOK'
<1> SUFFICES ASSUME CommandInv, Moves PROVE X!TypeOK'
  OBVIOUS
<1>0. /\ X!TypeOK /\ TargetInv /\ LaunchedInv /\ DiskInv /\ ReportsInv
      /\ target # NoOne /\ UNCHANGED <<box, row, place, on, lost, target>>
  BY DEF CommandInv, Moves, InContainer, containers
<1> USE KindsOfReader DEF X!disk, X!launcher, X!caller, X!readers
<1>1. CASE X!NeverSent
  BY <1>0, <1>1 DEF X!NeverSent, X!TypeOK, DiskInv, LaunchedInv, Reports
<1>2. CASE X!Deliver
  BY <1>0, <1>2 DEF X!Deliver, X!TypeOK, DiskInv, LaunchedInv, Reports
<1>3. CASE X!Disconnect
  BY <1>0, <1>3 DEF X!Disconnect, X!TypeOK, DiskInv, LaunchedInv, Reports
<1>4. CASE X!Answer
  BY <1>0, <1>4 DEF X!Answer, X!TypeOK, DiskInv, LaunchedInv, Reports
<1>5. CASE X!Start
  BY <1>0, <1>5 DEF X!Start, X!TypeOK, DiskInv, LaunchedInv, Reports
<1>6. ASSUME NEW c \in Codes, NEW leaves \in BOOLEAN, X!Exit(c, leaves) PROVE X!TypeOK'
  BY <1>0, <1>6 DEF X!Exit, X!TypeOK, DiskInv, LaunchedInv, Reports
<1>7. CASE X!WriteEnded
  BY <1>0, <1>7 DEF X!WriteEnded, X!TypeOK, DiskInv, LaunchedInv, Reports
<1>8. CASE X!OpenRc
  BY <1>0, <1>8 DEF X!OpenRc, X!TypeOK, DiskInv, LaunchedInv, Reports
<1>9. CASE X!WriteRc
  BY <1>0, <1>9 DEF X!WriteRc, X!TypeOK, DiskInv, LaunchedInv, Reports
<1>10. CASE X!Output
  BY <1>0, <1>10 DEF X!Output, X!TypeOK, DiskInv, LaunchedInv, Reports
<1>11. CASE X!ChildEnds
  BY <1>0, <1>11 DEF X!ChildEnds, X!TypeOK, DiskInv, LaunchedInv, Reports
<1>12. ASSUME NEW r \in X!Readers, X!ReadRc(r) PROVE X!TypeOK'
  <2>1. /\ UNCHANGED <<started, out, ended, rc, lpc, code, child, request, launched>>
        /\ rpc' = [rpc EXCEPT ![r] = "started"]
    BY <1>12 DEF X!ReadRc, X!Unmoved
  <2>2. rpc' \in [X!Readers -> {"idle", "rc", "started", "ended", "out", "done", "error"}]
    BY <1>0, <2>1 DEF X!TypeOK
  <2>3. report' \in [X!Readers -> Reports]
    BY <1>0, <1>12, ReadingRc
  <2> QED BY <1>0, <2>1, <2>2, <2>3 DEF X!TypeOK, Reports
<1>13. ASSUME NEW r \in X!Readers, X!ReadStarted(r) PROVE X!TypeOK'
  <2>1. /\ UNCHANGED <<started, out, ended, rc, lpc, code, child, request, launched>>
        /\ rpc' = [rpc EXCEPT ![r] = "ended"]
    BY <1>13 DEF X!ReadStarted, X!Unmoved
  <2>2. rpc' \in [X!Readers -> {"idle", "rc", "started", "ended", "out", "done", "error"}]
    BY <1>0, <2>1 DEF X!TypeOK
  <2>3. report' \in [X!Readers -> Reports]
    BY <1>0, <1>13, ReadingStarted
  <2> QED BY <1>0, <2>1, <2>2, <2>3 DEF X!TypeOK, Reports
<1>14. ASSUME NEW r \in X!Readers, X!ReadEnded(r) PROVE X!TypeOK'
  <2>1. /\ UNCHANGED <<started, out, ended, rc, lpc, code, child, request, launched>>
        /\ rpc' = [rpc EXCEPT ![r] = "out"]
    BY <1>14 DEF X!ReadEnded, X!Unmoved
  <2>2. rpc' \in [X!Readers -> {"idle", "rc", "started", "ended", "out", "done", "error"}]
    BY <1>0, <2>1 DEF X!TypeOK
  <2>3. report' \in [X!Readers -> Reports]
    BY <1>0, <1>14, ReadingEnded
  <2> QED BY <1>0, <2>1, <2>2, <2>3 DEF X!TypeOK, Reports
<1>15. ASSUME NEW r \in X!Readers, X!ReadOut(r) PROVE X!TypeOK'
  <2>1. /\ UNCHANGED <<started, out, ended, rc, lpc, code, child, request, launched>>
        /\ rpc' = [rpc EXCEPT ![r] = "done"]
    BY <1>15 DEF X!ReadOut, X!Unmoved
  <2>2. rpc' \in [X!Readers -> {"idle", "rc", "started", "ended", "out", "done", "error"}]
    BY <1>0, <2>1 DEF X!TypeOK
  <2>3. report' \in [X!Readers -> Reports]
    BY <1>0, <1>15, ReadingOut
  <2> QED BY <1>0, <2>1, <2>2, <2>3 DEF X!TypeOK, Reports
<1>16. ASSUME NEW r \in X!Readers, X!PollFails(r) PROVE X!TypeOK'
  BY <1>0, <1>16 DEF X!PollFails, X!Unmoved, X!TypeOK, DiskInv, LaunchedInv, Reports
<1>17. ASSUME NEW r \in Polls, X!Poll(r, Live) PROVE X!TypeOK'
  BY <1>0, <1>17 DEF X!Poll, X!Unmoved, X!TypeOK, DiskInv, LaunchedInv, Reports
<1> QED BY <1>1, <1>2, <1>3, <1>4, <1>5, <1>6, <1>7, <1>8, <1>9,
        <1>10, <1>11, <1>12, <1>13, <1>14, <1>15, <1>16, <1>17
     DEF Moves, X!Step, X!Launcher, X!Collect

\* No process of a container that is gone does anything.
LEMMA TargetNext == CommandInv /\ Moves => TargetInv'
<1> SUFFICES ASSUME CommandInv, Moves PROVE TargetInv'
  OBVIOUS
<1>0. /\ X!TypeOK /\ TargetInv /\ LaunchedInv /\ DiskInv /\ ReportsInv
      /\ target # NoOne /\ UNCHANGED <<box, row, place, on, lost, target>>
  BY DEF CommandInv, Moves, InContainer, containers
<1> USE KindsOfReader DEF X!disk, X!launcher, X!caller, X!readers
<1>1. CASE X!NeverSent
  BY <1>0, <1>1 DEF X!NeverSent, TargetInv, Up
<1>2. CASE X!Deliver
  BY <1>0, <1>2 DEF X!Deliver, TargetInv, Up
<1>3. CASE X!Disconnect
  BY <1>0, <1>3 DEF X!Disconnect, TargetInv, Up
<1>4. CASE X!Answer
  BY <1>0, <1>4 DEF X!Answer, TargetInv, Up
<1>5. CASE X!Start
  BY <1>0, <1>5 DEF X!Start, TargetInv, Up
<1>6. ASSUME NEW c \in Codes, NEW leaves \in BOOLEAN, X!Exit(c, leaves) PROVE TargetInv'
  BY <1>0, <1>6 DEF X!Exit, TargetInv, Up
<1>7. CASE X!WriteEnded
  BY <1>0, <1>7 DEF X!WriteEnded, TargetInv, Up
<1>8. CASE X!OpenRc
  BY <1>0, <1>8 DEF X!OpenRc, TargetInv, Up
<1>9. CASE X!WriteRc
  BY <1>0, <1>9 DEF X!WriteRc, TargetInv, Up
<1>10. CASE X!Output
  BY <1>0, <1>10 DEF X!Output, TargetInv, Up
<1>11. CASE X!ChildEnds
  BY <1>0, <1>11 DEF X!ChildEnds, TargetInv, Up
<1>12. ASSUME NEW r \in X!Readers, X!ReadRc(r) PROVE TargetInv'
  BY <1>0, <1>12 DEF X!ReadRc, X!Unmoved, TargetInv, Up
<1>13. ASSUME NEW r \in X!Readers, X!ReadStarted(r) PROVE TargetInv'
  BY <1>0, <1>13 DEF X!ReadStarted, X!Unmoved, TargetInv, Up
<1>14. ASSUME NEW r \in X!Readers, X!ReadEnded(r) PROVE TargetInv'
  BY <1>0, <1>14 DEF X!ReadEnded, X!Unmoved, TargetInv, Up
<1>15. ASSUME NEW r \in X!Readers, X!ReadOut(r) PROVE TargetInv'
  BY <1>0, <1>15 DEF X!ReadOut, X!Unmoved, TargetInv, Up
<1>16. ASSUME NEW r \in X!Readers, X!PollFails(r) PROVE TargetInv'
  BY <1>0, <1>16 DEF X!PollFails, X!Unmoved, TargetInv, Up
<1>17. ASSUME NEW r \in Polls, X!Poll(r, Live) PROVE TargetInv'
  BY <1>0, <1>17 DEF X!Poll, X!Unmoved, TargetInv, Up
<1> QED BY <1>1, <1>2, <1>3, <1>4, <1>5, <1>6, <1>7, <1>8, <1>9,
        <1>10, <1>11, <1>12, <1>13, <1>14, <1>15, <1>16, <1>17
     DEF Moves, X!Step, X!Launcher, X!Collect

\* Nothing sends the script again.
LEMMA LaunchedNext == CommandInv /\ Moves => LaunchedInv'
<1> SUFFICES ASSUME CommandInv, Moves PROVE LaunchedInv'
  OBVIOUS
<1>0. /\ X!TypeOK /\ TargetInv /\ LaunchedInv /\ DiskInv /\ ReportsInv
      /\ target # NoOne /\ UNCHANGED <<box, row, place, on, lost, target>>
  BY DEF CommandInv, Moves, InContainer, containers
<1> USE KindsOfReader DEF X!disk, X!launcher, X!caller, X!readers
<1>1. CASE X!NeverSent
  BY <1>0, <1>1 DEF X!NeverSent, X!TypeOK, LaunchedInv
<1>2. CASE X!Deliver
  BY <1>0, <1>2 DEF X!Deliver, X!TypeOK, LaunchedInv
<1>3. CASE X!Disconnect
  BY <1>0, <1>3 DEF X!Disconnect, X!TypeOK, LaunchedInv
<1>4. CASE X!Answer
  BY <1>0, <1>4 DEF X!Answer, X!TypeOK, LaunchedInv
<1>5. CASE X!Start
  BY <1>0, <1>5 DEF X!Start, X!TypeOK, LaunchedInv
<1>6. ASSUME NEW c \in Codes, NEW leaves \in BOOLEAN, X!Exit(c, leaves) PROVE LaunchedInv'
  BY <1>0, <1>6 DEF X!Exit, X!TypeOK, LaunchedInv
<1>7. CASE X!WriteEnded
  BY <1>0, <1>7 DEF X!WriteEnded, X!TypeOK, LaunchedInv
<1>8. CASE X!OpenRc
  BY <1>0, <1>8 DEF X!OpenRc, X!TypeOK, LaunchedInv
<1>9. CASE X!WriteRc
  BY <1>0, <1>9 DEF X!WriteRc, X!TypeOK, LaunchedInv
<1>10. CASE X!Output
  BY <1>0, <1>10 DEF X!Output, X!TypeOK, LaunchedInv
<1>11. CASE X!ChildEnds
  BY <1>0, <1>11 DEF X!ChildEnds, X!TypeOK, LaunchedInv
<1>12. ASSUME NEW r \in X!Readers, X!ReadRc(r) PROVE LaunchedInv'
  BY <1>0, <1>12 DEF X!ReadRc, X!Unmoved, X!TypeOK, LaunchedInv
<1>13. ASSUME NEW r \in X!Readers, X!ReadStarted(r) PROVE LaunchedInv'
  BY <1>0, <1>13 DEF X!ReadStarted, X!Unmoved, X!TypeOK, LaunchedInv
<1>14. ASSUME NEW r \in X!Readers, X!ReadEnded(r) PROVE LaunchedInv'
  BY <1>0, <1>14 DEF X!ReadEnded, X!Unmoved, X!TypeOK, LaunchedInv
<1>15. ASSUME NEW r \in X!Readers, X!ReadOut(r) PROVE LaunchedInv'
  BY <1>0, <1>15 DEF X!ReadOut, X!Unmoved, X!TypeOK, LaunchedInv
<1>16. ASSUME NEW r \in X!Readers, X!PollFails(r) PROVE LaunchedInv'
  BY <1>0, <1>16 DEF X!PollFails, X!Unmoved, X!TypeOK, LaunchedInv
<1>17. ASSUME NEW r \in Polls, X!Poll(r, Live) PROVE LaunchedInv'
  BY <1>0, <1>17 DEF X!Poll, X!Unmoved, X!TypeOK, LaunchedInv
<1> QED BY <1>1, <1>2, <1>3, <1>4, <1>5, <1>6, <1>7, <1>8, <1>9,
        <1>10, <1>11, <1>12, <1>13, <1>14, <1>15, <1>16, <1>17
     DEF Moves, X!Step, X!Launcher, X!Collect

\* The launcher writes in its order.
LEMMA DiskNext == CommandInv /\ Moves => DiskInv'
<1> SUFFICES ASSUME CommandInv, Moves PROVE DiskInv'
  OBVIOUS
<1>0. /\ X!TypeOK /\ TargetInv /\ LaunchedInv /\ DiskInv /\ ReportsInv
      /\ target # NoOne /\ UNCHANGED <<box, row, place, on, lost, target>>
  BY DEF CommandInv, Moves, InContainer, containers
<1> USE KindsOfReader DEF X!disk, X!launcher, X!caller, X!readers
<1>1. CASE X!NeverSent
  BY <1>0, <1>1 DEF X!NeverSent, X!TypeOK, DiskInv, LaunchedInv
<1>2. CASE X!Deliver
  BY <1>0, <1>2 DEF X!Deliver, X!TypeOK, DiskInv, LaunchedInv
<1>3. CASE X!Disconnect
  BY <1>0, <1>3 DEF X!Disconnect, X!TypeOK, DiskInv, LaunchedInv
<1>4. CASE X!Answer
  BY <1>0, <1>4 DEF X!Answer, X!TypeOK, DiskInv, LaunchedInv
<1>5. CASE X!Start
  BY <1>0, <1>5 DEF X!Start, X!TypeOK, DiskInv, LaunchedInv
<1>6. ASSUME NEW c \in Codes, NEW leaves \in BOOLEAN, X!Exit(c, leaves) PROVE DiskInv'
  BY <1>0, <1>6 DEF X!Exit, X!TypeOK, DiskInv, LaunchedInv
<1>7. CASE X!WriteEnded
  BY <1>0, <1>7 DEF X!WriteEnded, X!TypeOK, DiskInv, LaunchedInv
<1>8. CASE X!OpenRc
  BY <1>0, <1>8 DEF X!OpenRc, X!TypeOK, DiskInv, LaunchedInv
<1>9. CASE X!WriteRc
  BY <1>0, <1>9 DEF X!WriteRc, X!TypeOK, DiskInv, LaunchedInv
<1>10. CASE X!Output
  BY <1>0, <1>10 DEF X!Output, X!TypeOK, DiskInv, LaunchedInv
<1>11. CASE X!ChildEnds
  BY <1>0, <1>11 DEF X!ChildEnds, X!TypeOK, DiskInv, LaunchedInv
<1>12. ASSUME NEW r \in X!Readers, X!ReadRc(r) PROVE DiskInv'
  BY <1>0, <1>12 DEF X!ReadRc, X!Unmoved, X!TypeOK, DiskInv, LaunchedInv
<1>13. ASSUME NEW r \in X!Readers, X!ReadStarted(r) PROVE DiskInv'
  BY <1>0, <1>13 DEF X!ReadStarted, X!Unmoved, X!TypeOK, DiskInv, LaunchedInv
<1>14. ASSUME NEW r \in X!Readers, X!ReadEnded(r) PROVE DiskInv'
  BY <1>0, <1>14 DEF X!ReadEnded, X!Unmoved, X!TypeOK, DiskInv, LaunchedInv
<1>15. ASSUME NEW r \in X!Readers, X!ReadOut(r) PROVE DiskInv'
  BY <1>0, <1>15 DEF X!ReadOut, X!Unmoved, X!TypeOK, DiskInv, LaunchedInv
<1>16. ASSUME NEW r \in X!Readers, X!PollFails(r) PROVE DiskInv'
  BY <1>0, <1>16 DEF X!PollFails, X!Unmoved, X!TypeOK, DiskInv, LaunchedInv
<1>17. ASSUME NEW r \in Polls, X!Poll(r, Live) PROVE DiskInv'
  BY <1>0, <1>17 DEF X!Poll, X!Unmoved, X!TypeOK, DiskInv, LaunchedInv
<1> QED BY <1>1, <1>2, <1>3, <1>4, <1>5, <1>6, <1>7, <1>8, <1>9,
        <1>10, <1>11, <1>12, <1>13, <1>14, <1>15, <1>16, <1>17
     DEF Moves, X!Step, X!Launcher, X!Collect

\* The collectors read the code first, and what they read after it no longer changes.
LEMMA ReportsNext == CommandInv /\ Moves => ReportsInv'
<1> SUFFICES ASSUME CommandInv, Moves PROVE ReportsInv'
  OBVIOUS
<1>0. /\ X!TypeOK /\ TargetInv /\ LaunchedInv /\ DiskInv /\ ReportsInv
      /\ target # NoOne /\ UNCHANGED <<box, row, place, on, lost, target>>
  BY DEF CommandInv, Moves, InContainer, containers
<1> USE KindsOfReader DEF X!disk, X!launcher, X!caller, X!readers
<1>1. CASE X!NeverSent
  BY <1>0, <1>1 DEF X!NeverSent, X!TypeOK, DiskInv, LaunchedInv, ReportsInv
<1>2. CASE X!Deliver
  BY <1>0, <1>2 DEF X!Deliver, X!TypeOK, DiskInv, LaunchedInv, ReportsInv
<1>3. CASE X!Disconnect
  BY <1>0, <1>3 DEF X!Disconnect, X!TypeOK, DiskInv, LaunchedInv, ReportsInv
<1>4. CASE X!Answer
  BY <1>0, <1>4 DEF X!Answer, X!TypeOK, DiskInv, LaunchedInv, ReportsInv
<1>5. CASE X!Start
  BY <1>0, <1>5 DEF X!Start, X!TypeOK, DiskInv, LaunchedInv, ReportsInv
<1>6. ASSUME NEW c \in Codes, NEW leaves \in BOOLEAN, X!Exit(c, leaves) PROVE ReportsInv'
  BY <1>0, <1>6 DEF X!Exit, X!TypeOK, DiskInv, LaunchedInv, ReportsInv
<1>7. CASE X!WriteEnded
  BY <1>0, <1>7 DEF X!WriteEnded, X!TypeOK, DiskInv, LaunchedInv, ReportsInv
<1>8. CASE X!OpenRc
  BY <1>0, <1>8 DEF X!OpenRc, X!TypeOK, DiskInv, LaunchedInv, ReportsInv
<1>9. CASE X!WriteRc
  BY <1>0, <1>9 DEF X!WriteRc, X!TypeOK, DiskInv, LaunchedInv, ReportsInv
<1>10. CASE X!Output
  BY <1>0, <1>10 DEF X!Output, X!TypeOK, DiskInv, LaunchedInv, ReportsInv
<1>11. CASE X!ChildEnds
  BY <1>0, <1>11 DEF X!ChildEnds, X!TypeOK, DiskInv, LaunchedInv, ReportsInv
<1>12. ASSUME NEW r \in X!Readers, X!ReadRc(r) PROVE ReportsInv'
  BY <1>0, <1>12, ReadingRc DEF X!ReadRc, X!Unmoved, X!TypeOK, DiskInv, LaunchedInv, ReportsInv
<1>13. ASSUME NEW r \in X!Readers, X!ReadStarted(r) PROVE ReportsInv'
  BY <1>0, <1>13, ReadingStarted DEF X!ReadStarted, X!Unmoved, X!TypeOK, DiskInv, LaunchedInv, ReportsInv
<1>14. ASSUME NEW r \in X!Readers, X!ReadEnded(r) PROVE ReportsInv'
  BY <1>0, <1>14, ReadingEnded DEF X!ReadEnded, X!Unmoved, X!TypeOK, DiskInv, LaunchedInv, ReportsInv
<1>15. ASSUME NEW r \in X!Readers, X!ReadOut(r) PROVE ReportsInv'
  BY <1>0, <1>15, ReadingOut DEF X!ReadOut, X!Unmoved, X!TypeOK, DiskInv, LaunchedInv, ReportsInv
<1>16. ASSUME NEW r \in X!Readers, X!PollFails(r) PROVE ReportsInv'
  BY <1>0, <1>16 DEF X!PollFails, X!Unmoved, X!TypeOK, DiskInv, LaunchedInv, ReportsInv
<1>17. ASSUME NEW r \in Polls, X!Poll(r, Live) PROVE ReportsInv'
  BY <1>0, <1>17 DEF X!Poll, X!Unmoved, X!TypeOK, DiskInv, LaunchedInv, ReportsInv
<1> QED BY <1>1, <1>2, <1>3, <1>4, <1>5, <1>6, <1>7, <1>8, <1>9,
        <1>10, <1>11, <1>12, <1>13, <1>14, <1>15, <1>16, <1>17
     DEF Moves, X!Step, X!Launcher, X!Collect

(***************************************************************************)
(* Both.                                                                   *)
(***************************************************************************)

\* At first there is no command.
LEMMA CommandInit == X!Init /\ target = NoOne => CommandInv
<1> USE KindsOfReader
<1> SUFFICES ASSUME X!Init, target = NoOne PROVE CommandInv
  OBVIOUS
<1>1. X!Blank \in Reports /\ X!Blank.rc \notin Codes
  BY DEF X!Blank, Reports
<1>2. X!TypeOK
  <2>1. report \in [X!Readers -> Reports]
    BY <1>1 DEF X!Init
  <2>2. rpc \in [X!Readers -> {"idle", "rc", "started", "ended", "out", "done", "error"}]
    BY DEF X!Init
  <2>3. /\ started = FALSE /\ out = 0 /\ ended = FALSE /\ rc = "none"
        /\ lpc = "none" /\ code = "none" /\ child = "none" /\ request = "new" /\ launched = 0
    BY DEF X!Init
  <2>4. out \in 0..Full
    BY <2>3
  <2> QED BY <2>1, <2>2, <2>3, <2>4 DEF X!TypeOK, Reports
<1>3. ReportsInv
  BY <1>1 DEF X!Init, ReportsInv
<1> QED BY <1>2, <1>3 DEF X!Init, CommandInv, TargetInv, LaunchedInv, DiskInv

\* What the command does leaves its invariant.
LEMMA MovesKeep == CommandInv /\ Moves => CommandInv'
BY CommandTypeNext, TargetNext, LaunchedNext, DiskNext, ReportsNext DEF CommandInv

\* What ends the processes of a container ends the command, and leaves the rest.
LEMMA ProcessesEndKeeps ==
  ASSUME CommandInv, X!ProcessesEnd, UNCHANGED target, target # NoOne => row'[target] # "none",
         UNCHANGED <<started, out, ended, rc, request, launched, rpc, report>>
  PROVE  CommandInv'
<1>0. X!TypeOK /\ TargetInv /\ LaunchedInv /\ DiskInv /\ ReportsInv
  BY DEF CommandInv
<1>1. /\ lpc' = (IF lpc \in {"none", "done"} THEN lpc ELSE "lost") /\ UNCHANGED code
      /\ child' = (IF child = "alive" THEN "ended" ELSE child)
  BY DEF X!ProcessesEnd
<1>2. X!TypeOK'
  BY <1>0, <1>1 DEF X!TypeOK
<1>3. TargetInv'
  BY <1>0, <1>1 DEF TargetInv, X!TypeOK
<1>4. LaunchedInv'
  BY <1>0, <1>1 DEF LaunchedInv
<1>5. DiskInv'
  BY <1>0, <1>1, KindsOfReader DEF DiskInv, X!TypeOK
<1>6. ReportsInv'
  BY <1>0, <1>1 DEF ReportsInv, X!TypeOK
<1> QED BY <1>2, <1>3, <1>4, <1>5, <1>6 DEF CommandInv

\* The command where nothing of it changes, and its container neither comes nor goes.
LEMMA CommandStays ==
  ASSUME CommandInv, UNCHANGED command, target' \in C!Owners \cup {NoOne},
         target' # NoOne => row'[target'] # "none", Up' => Up \/ target = NoOne, ~Up' => ~Up
  PROVE  CommandInv'
<1>1. /\ UNCHANGED <<started, out, ended, rc, lpc, code, child, request, launched, rpc, report>>
      /\ X!TypeOK /\ TargetInv /\ LaunchedInv /\ DiskInv /\ ReportsInv
  BY DEF CommandInv, command
<1> QED BY <1>1 DEF CommandInv, X!TypeOK, TargetInv, LaunchedInv, DiskInv, ReportsInv

\* The invariant.
LEMMA SandboxesInit == SandboxInit => SandboxesInv
BY ContainersInit, CommandInit DEF SandboxInit, SandboxesInv

LEMMA SandboxesNext == SandboxesInv /\ [SandboxNext]_sandboxVars => SandboxesInv'
<1> SUFFICES ASSUME SandboxesInv, [SandboxNext]_sandboxVars PROVE SandboxesInv'
  OBVIOUS
<1>0. /\ ContainersInv /\ CommandInv /\ TargetInv
      /\ \A x \in C!Owners : x # NoOne
  BY KindsOfRequest DEF SandboxesInv, CommandInv
<1>1. CASE ContainerStep
  <2>1. C!Next /\ UNCHANGED target
    BY <1>1 DEF ContainerStep
  <2>2. ContainersInv'
    BY <1>0, <2>1, ContainersTypeNext, OwnersNext, DeletesNext, AccountedNext DEF ContainersInv
  <2>3. /\ target # NoOne => row'[target] # "none"
        /\ Up' => Up
    BY <1>0, <2>1, SettledNext DEF Settled, TargetInv, Up
  <2>4. CASE Up /\ ~Up'
    <3>1. X!ProcessesEnd /\ UNCHANGED <<started, out, ended, rc, request, launched, rpc, report>>
      BY <1>1, <2>4 DEF ContainerStep, X!Lapse, X!disk, X!caller, X!readers
    <3> QED BY <1>0, <2>1, <2>2, <2>3, <3>1, ProcessesEndKeeps DEF SandboxesInv
  <2>5. CASE ~(Up /\ ~Up')
    <3>1. UNCHANGED command /\ (~Up' => ~Up)
      BY <1>1, <2>5 DEF ContainerStep
    <3> QED BY <1>0, <2>1, <2>2, <2>3, <3>1, CommandStays DEF SandboxesInv, TargetInv
  <2> QED BY <2>4, <2>5
<1>2. ASSUME NEW x \in C!Owners, Check(x) PROVE SandboxesInv'
  <2>1. /\ target = NoOne /\ row[x] # "none" /\ target' = x
        /\ UNCHANGED <<box, row, place, on, lost>> /\ UNCHANGED command
    BY <1>2 DEF Check, C!ReadsLive, containers
  <2>2. ContainersInv'
    BY <1>0, <2>1 DEF ContainersInv, C!TypeOK, OwnersInv, DeletesInv, Accounted, C!Live
  <2>3. ~Up
    BY <2>1 DEF Up
  <2> QED BY <1>0, <2>1, <2>2, <2>3, CommandStays DEF SandboxesInv
<1>3. CASE Moves
  <2>1. UNCHANGED <<box, row, place, on, lost>>
    BY <1>3 DEF Moves, InContainer, containers
  <2>2. ContainersInv'
    BY <1>0, <2>1 DEF ContainersInv, C!TypeOK, OwnersInv, DeletesInv, Accounted, C!Live
  <2> QED BY <1>0, <1>3, <2>2, MovesKeep DEF SandboxesInv
<1>4. CASE UNCHANGED sandboxVars
  <2>1. UNCHANGED <<box, row, place, on, lost>> /\ UNCHANGED target /\ UNCHANGED command
    BY <1>4 DEF sandboxVars, containers
  <2>2. ContainersInv'
    BY <1>0, <2>1 DEF ContainersInv, C!TypeOK, OwnersInv, DeletesInv, Accounted, C!Live
  <2>3. Up' = Up
    BY <2>1 DEF Up
  <2> QED BY <1>0, <2>1, <2>2, <2>3, CommandStays DEF SandboxesInv, TargetInv
<1>5. CASE PauseHome
  <2>1. UNCHANGED <<box, row, place, on, lost>> /\ UNCHANGED target
    BY <1>5 DEF PauseHome, InContainer, containers
  <2>2. ContainersInv'
    BY <1>0, <2>1 DEF ContainersInv, C!TypeOK, OwnersInv, DeletesInv, Accounted, C!Live
  <2>3. X!ProcessesEnd /\ UNCHANGED <<started, out, ended, rc, request, launched, rpc, report>>
    BY <1>5 DEF PauseHome, X!Pause, X!disk, X!caller, X!readers
  <2> QED BY <1>0, <2>1, <2>2, <2>3, ProcessesEndKeeps DEF SandboxesInv, TargetInv
<1> QED BY <1>1, <1>2, <1>3, <1>4, <1>5 DEF SandboxNext, CommandStep, Poll, Moves

\* No container runs that nobody will end: neither one without a row nor one that was
\* reported deleted, nor a command in it (create_sandbox, delete_sandbox, delete_session).
THEOREM ContainersAreOwned == SandboxSpec => []NoneAstray
<1>1. SandboxesInv => NoneAstray
  <2> SUFFICES ASSUME SandboxesInv PROVE TypeOK /\ DeletedIsGone
    BY DEF SandboxesInv, ContainersInv, NoneAstray
  <2>1. TypeOK
    BY DEF SandboxesInv, ContainersInv, CommandInv, TargetInv, TypeOK
  <2>2. DeletedIsGone
    BY DEF SandboxesInv, ContainersInv, CommandInv, DeletesInv, TargetInv, Up, DeletedIsGone
  <2> QED BY <2>1, <2>2
<1> QED BY SandboxesInit, SandboxesNext, <1>1, PTL DEF SandboxSpec

\* A report that says the command is over says all there is to say (_launcher, _collector).
THEOREM FinishedReportsAreWhole == SandboxSpec => []FinishedIsWhole
<1>1. SandboxesInv => FinishedIsWhole
  BY DEF SandboxesInv, CommandInv, ReportsInv, FinishedIsWhole, X!Finished
<1> QED BY SandboxesInit, SandboxesNext, <1>1, PTL DEF SandboxSpec

\* However the request and the connection fail, its script arrives once (Sandbox.run).
THEOREM CommandsRunOnce == SandboxSpec => []RunOnce
<1>1. SandboxesInv => RunOnce
  BY DEF SandboxesInv, CommandInv, LaunchedInv, RunOnce
<1> QED BY SandboxesInit, SandboxesNext, <1>1, PTL DEF SandboxSpec
=============================================================================
