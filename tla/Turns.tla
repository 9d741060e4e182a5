--------------------------------- MODULE Turns ---------------------------------
(***************************************************************************)
(* What one session's turns say and ask (app/runtime/engine.py): the graph *)
(* appends the model's replies and the results of their calls to the       *)
(* checkpoint, execute_agent announces what is new in each snapshot, stops *)
(* where a call needs the client, and takes the client's answers back to   *)
(* the graph, which matches decisions to calls by their position.          *)
(*                                                                         *)
(* One turn runs at a time (SessionGate).  The graph and its middleware    *)
(* are a library's: the places where it can be, the results it writes for  *)
(* refused and cancelled calls, and the count it takes of the decisions.   *)
(***************************************************************************)
EXTENDS Integers, Sequences, FiniteSets, SequencesExt

CONSTANTS
  Native, Custom,  \* tools: the toolset's, and those the client runs itself
  Configs,         \* toolset configurations: a default, and policies by name
  MaxCalls,        \* bound on the calls the model ever makes
  MaxReply,        \* bound on the calls, and on the answers, made together
  MaxTurns         \* bound on the batches that start a turn

Tools    == Native \cup Custom
Policies == {"always_allow", "always_ask"}
Verdicts == {"allow", "deny", "result", "error"}   \* what an answer says
Ids      == 1..MaxCalls
Answers  == [id : Ids, says : Verdicts]

ToolAssumption == Native \cap Custom = {}
ConfigAssumption ==
  \A c \in Configs : c.default \in Policies
    /\ \A i \in DOMAIN c.entries : c.entries[i].policy \in Policies
BoundAssumption == {MaxCalls, MaxReply, MaxTurns} \subseteq Nat

VARIABLES
  config,     \* the toolset of the version that the session pinned
  msgs,       \* the checkpoint: the messages so far ...
  place,      \* ... and the node that comes next
  turn,       \* none, turn, or ended and to be released
  seen,       \* last_index
  announced,  \* the calls this turn has announced
  todo,       \* what is yet to be said of the last snapshot
  log,        \* the events of the session that speak of calls
  parked,     \* the stop reason on the session's row is requires_action
  turns,
  said,       \* history: for a call, the answer that resumed the graph with it
  cut         \* history: a turn was cut short, or a pending call cancelled

turnVars == <<config, msgs, place, turn, seen, announced, todo, log, parked, turns, said, cut>>

Human         == [role |-> "human"]
Reply(calls)  == [role |-> "ai", calls |-> calls]
Result(id, o) == [role |-> "tool", id |-> id, outcome |-> o]

Init ==
  /\ config \in Configs
  /\ msgs = << >> /\ place = "rest" /\ turn = "none"
  /\ seen = 0 /\ announced = {} /\ todo = << >>
  /\ log = << >> /\ parked = FALSE /\ turns = 0
  /\ said = [id \in Ids |-> "nothing"] /\ cut = FALSE

(***************************************************************************)
(* What waits for the client.                                              *)
(***************************************************************************)

\* The items of s at the places in `at`, in their order.
Only(s, at) == FlattenSeq([i \in DOMAIN s |-> IF i \in at THEN <<s[i]>> ELSE << >>])

\* resolve_tool_interrupts: the policy of a native tool.
Policy(name) ==
  LET named == {i \in DOMAIN config.entries : config.entries[i].name = name}
  IN IF named = {} THEN config.default ELSE config.entries[Max(named)].policy

\* interrupt_on: custom tools always stop for the client.
InterruptOn == {t \in Native : Policy(t) = "always_ask"} \cup Custom

\* What an interrupt of a tool may be answered with.
AllowedDecisions(tool) ==
  IF tool \in Custom THEN {"respond", "reject"} ELSE {"approve", "reject"}

Calls(m)  == IF m.role = "ai" THEN m.calls ELSE << >>
LastReply == LET replies == {i \in DOMAIN msgs : msgs[i].role = "ai"}
             IN IF replies = {} THEN << >> ELSE Calls(msgs[Max(replies)])
HasResult(id, in)  == \E i \in DOMAIN in : in[i].role = "tool" /\ in[i].id = id
Unanswered(calls)  == Only(calls, {k \in DOMAIN calls : ~HasResult(calls[k].id, msgs)})

\* Mutant of Pending: every call of the reply.
Pending_All == LastReply

\* _pending_calls: the calls of the last reply that stop for the client, in the
\* order of the reply.
Asking(calls) ==
  LET stops == InterruptOn IN Only(calls, {k \in DOMAIN calls : calls[k].tool \in stops})
Pending == Asking(LastReply)

\* What the middleware asks about, by its own reading of the reply.
Request == Asking(LastReply)

\* _decision
Decision(answer) ==
  CASE answer.says = "allow"            -> "approve"
    [] answer.says \in {"deny", "error"} -> "reject"
    [] answer.says = "result"           -> "respond"

\* The answer for each call: of two for one call the later counts.
Named(batch) == {batch[i].id : i \in DOMAIN batch}
AnswerTo(batch, id) == batch[Max({i \in DOMAIN batch : batch[i].id = id})]

\* Mutant of Resume: the decisions in the order of the answers.
Resume_AsSent(batch) ==
  LET mine == Only(batch, {k \in DOMAIN batch : \E i \in DOMAIN Pending : Pending[i].id = batch[k].id})
  IN [i \in DOMAIN mine |-> Decision(mine[i])]

\* _build_resume: the decisions in the order of the pending calls.
Resume(batch) ==
  LET pending  == Pending
      answered == Only(pending, {i \in DOMAIN pending : pending[i].id \in Named(batch)})
  IN [i \in DOMAIN answered |-> Decision(AnswerTo(batch, answered[i].id))]

(***************************************************************************)
(* The events.                                                             *)
(***************************************************************************)

Use(call)  == [type |-> "use", id |-> call.id,
               asks |-> call.tool \in InterruptOn]   \* a custom call, or "ask"
Told(m)    == [type |-> "result", id |-> m.id, outcome |-> m.outcome]
Idle(ids)  == [type |-> "idle", ids |-> ids]

\* _translate
EventsOf(m) ==
  CASE m.role = "ai"    -> [i \in DOMAIN m.calls |-> Use(m.calls[i])]
    [] m.role = "tool"  -> <<Told(m)>>
    [] m.role = "human" -> << >>

EventsFrom(list, n) == FlattenSeq([i \in 1..(Len(list) - n) |-> EventsOf(list[n + i])])

\* Mutant of Snapshot: what is new is counted from the start of the turn.
Snapshot_FromStart(list) ==
  msgs' = list /\ todo' = EventsFrom(list, seen) /\ UNCHANGED seen

\* A snapshot of the graph's values: what lies past last_index is new.
Snapshot(list) == msgs' = list /\ todo' = EventsFrom(list, seen) /\ seen' = Len(list)

\* One event of the snapshot goes into the log; a call is announced once.
Emit ==
  /\ turn = "running" /\ todo # << >> /\ todo' = Tail(todo)
  /\ LET event == Head(todo) IN
       IF event.type = "use"
         THEN /\ announced' = announced \cup {event.id}
              /\ log' = IF event.id \in announced THEN log ELSE Append(log, event)
         ELSE log' = Append(log, event) /\ UNCHANGED announced
  /\ UNCHANGED <<config, msgs, place, turn, seen, parked, turns, said, cut>>

(***************************************************************************)
(* The start of a turn.                                                    *)
(***************************************************************************)

\* The claim clears the stop reason.
Begin == turn' = "running" /\ parked' = FALSE /\ announced' = {} /\ turns' = turns + 1

\* A message, unless the session is parked for an answer (claim_session).  The
\* graph starts over with it; nothing of it is announced.
StartMessage ==
  /\ turn = "none" /\ turns < MaxTurns /\ ~parked
  /\ Begin /\ msgs' = Append(msgs, Human) /\ seen' = Len(msgs) + 1 /\ todo' = << >>
  /\ place' = "patch"
  /\ UNCHANGED <<config, log, said, cut>>

\* The middleware takes the decisions by position.  It writes a result for every
\* call that was refused or answered for; the others run.
Outcome(decision) == IF decision = "reject" THEN "rejected" ELSE "responded"
Written(decisions) ==
  LET asked == Request IN
    FlattenSeq([i \in DOMAIN asked |->
      IF decisions[i] = "approve" THEN << >> ELSE <<Result(asked[i].id, Outcome(decisions[i]))>>])

\* It raises: a decision is missing, or one is not allowed.
Refuses(decisions) ==
  LET asked == Request IN
    \/ Len(decisions) # Len(asked)
    \/ \E i \in DOMAIN decisions : decisions[i] \notin AllowedDecisions(asked[i].tool)

\* The batches of answers that a client can send, about calls it has been told of.
Batches ==
  {batch \in BoundedSeq(Answers, MaxReply) :
     /\ batch # << >>
     /\ \A i \in DOMAIN batch : \E k \in DOMAIN log : log[k].type = "use" /\ log[k].id = batch[i].id}

\* Answers, to a graph that waits for them.
StartAnswers(batch) ==
  /\ turn = "none" /\ turns < MaxTurns /\ place \in {"gate", "paused"} /\ LastReply # << >>
  /\ ~Refuses(Resume(batch)) /\ Begin
  /\ said' = [id \in Ids |-> IF id \in Named(batch) /\ \E call \in ToSet(Request) : call.id = id
                               THEN AnswerTo(batch, id).says ELSE said[id]]
  /\ LET list == msgs \o Written(Resume(batch)) IN
       msgs' = list /\ todo' = EventsFrom(list, Len(msgs)) /\ seen' = Len(list)
  /\ place' = "tools"
  /\ UNCHANGED <<config, log, cut>>

\* Answers to a graph that was cut between two other nodes: it goes on.
StartOnwards ==
  /\ turn = "none" /\ turns < MaxTurns /\ place \in {"patch", "model", "tools"} /\ LastReply # << >>
  /\ Begin /\ seen' = Len(msgs) /\ todo' = << >>
  /\ UNCHANGED <<config, msgs, place, log, said, cut>>

\* Answers that the graph refuses: the turn fails, and the session is no longer
\* parked.  Where it is not parked, a turn that fails so leaves no trace here.
StartFails(batch) ==
  /\ turn = "none" /\ parked /\ Refuses(Resume(batch))
  /\ parked' = FALSE
  /\ UNCHANGED <<config, msgs, place, turn, seen, announced, todo, log, turns, said, cut>>

(***************************************************************************)
(* The graph.  A node runs when the snapshot before it has been said.      *)
(***************************************************************************)

Node(name) == turn = "running" /\ todo = << >> /\ place = name

\* Calls without a result are cancelled, in their place in the list.
Cancelled(m) ==
  LET due == Unanswered(Calls(m)) IN [k \in DOMAIN due |-> Result(due[k].id, "cancelled")]

Patch ==
  /\ Node("patch") /\ place' = "model"
  /\ LET patched == FlattenSeq([i \in DOMAIN msgs |-> <<msgs[i]>> \o Cancelled(msgs[i])])
     IN Snapshot(patched) /\ cut' = (cut \/ patched # msgs)
  /\ UNCHANGED <<config, turn, announced, log, parked, turns, said>>

Made      == UNION {{call.id : call \in ToSet(Calls(msgs[i]))} : i \in DOMAIN msgs}
CallsMade == Cardinality(Made)

\* The model replies with calls, or without any.
Model(tools) ==
  /\ Node("model") /\ CallsMade + Len(tools) <= MaxCalls
  /\ LET made == CallsMade IN
       Snapshot(Append(msgs, Reply([i \in DOMAIN tools |-> [id |-> made + i, tool |-> tools[i]]])))
  /\ place' = "gate"
  /\ UNCHANGED <<config, turn, announced, log, parked, turns, said, cut>>

\* The node between the model and the tools: the reply stops as a whole.
Gate ==
  /\ Node("gate")
  /\ place' = IF Pending # << >> THEN "paused" ELSE IF LastReply = << >> THEN "rest" ELSE "tools"
  /\ UNCHANGED <<config, msgs, turn, seen, announced, todo, log, parked, turns, said, cut>>

\* The calls of the reply that have no result yet run, well or not.
RunTools ==
  LET due == Unanswered(LastReply) IN
  /\ Node("tools") /\ place' = "model"
  /\ Snapshot(msgs \o [i \in DOMAIN due |-> Result(due[i].id, "ran")])
  /\ UNCHANGED <<config, turn, announced, log, parked, turns, said, cut>>

(***************************************************************************)
(* The end of a turn.                                                      *)
(***************************************************************************)

\* _stop_reason: whether the graph stopped for the client is for it to say.
StopReason == IF place = "paused" THEN "requires_action" ELSE "end_turn"

Finish ==
  /\ turn = "running" /\ todo = << >> /\ place \in {"paused", "rest"}
  /\ log' = Append(log, Idle(IF StopReason = "requires_action"
                               THEN [i \in DOMAIN Pending |-> Pending[i].id] ELSE << >>))
  /\ turn' = "ended"
  /\ UNCHANGED <<config, msgs, place, parked, seen, announced, todo, turns, said, cut>>

\* process_session releases the session, with the reason on its row.
Release ==
  /\ turn = "ended" /\ turn' = "none" /\ parked' = (StopReason = "requires_action")
  /\ UNCHANGED <<config, msgs, place, seen, announced, todo, log, turns, said, cut>>

\* An interrupt, a failure or a death: the graph stays where it is.  A parked
\* session can be interrupted too.
Cut ==
  /\ turn # "none" \/ parked
  /\ turn' = "none" /\ todo' = << >> /\ parked' = FALSE /\ cut' = TRUE
  /\ UNCHANGED <<config, msgs, place, seen, announced, log, turns, said>>

Step ==
  \/ StartMessage \/ StartOnwards \/ Patch \/ Gate \/ RunTools \/ Emit \/ Finish \/ Release \/ Cut
  \/ place \in {"gate", "paused"} /\ turn = "none" /\ \E batch \in Batches : StartAnswers(batch) \/ StartFails(batch)
  \/ Node("model") /\ \E tools \in BoundedSeq(Tools, MaxReply) : Model(tools)

TurnSpec == Init /\ [][Step]_turnVars

(***************************************************************************)
(* Properties.                                                             *)
(***************************************************************************)

Uses(id)      == {k \in DOMAIN log : log[k].type = "use" /\ log[k].id = id}
Results(id)   == {k \in DOMAIN log : log[k].type = "result" /\ log[k].id = id}
ToolOf(id)    == CHOOSE tool \in Tools :
  \E i \in DOMAIN msgs : \E k \in DOMAIN Calls(msgs[i]) :
    Calls(msgs[i])[k].id = id /\ Calls(msgs[i])[k].tool = tool

\* Every call came out as the client said of that very call, in whatever order
\* the answers came, through cut turns and restarts: one that stops ran only if
\* allowed, was refused only if denied, was answered only with a result
\* (_build_resume, "would apply a refusal to a call the user meant to allow").
RightVerdict ==
  \A i \in DOMAIN msgs : msgs[i].role = "tool" =>
    LET id == msgs[i].id IN
      CASE msgs[i].outcome = "ran"       ->
             ToolOf(id) \in Native /\ (ToolOf(id) \in InterruptOn => said[id] = "allow")
        [] msgs[i].outcome = "rejected"  -> said[id] \in {"deny", "error"}
        [] msgs[i].outcome = "responded" -> said[id] = "result"
        [] msgs[i].outcome = "cancelled" -> TRUE

\* A session that is parked can be answered: the idle event names some calls,
\* those of the last reply that were announced as asking and not told the result
\* of; and no call beside them has run (_stop_reason, _pending_calls).
ParkedIsAnswerable ==
  turn = "none" /\ parked =>
    LET asked == log[Len(log)].ids IN
    /\ asked # << >>
    /\ ToSet(asked) = {id \in Ids : /\ \E k \in Uses(id) : log[k].asks
                                    /\ Results(id) = {} /\ \E c \in ToSet(LastReply) : c.id = id}
    /\ \A c \in ToSet(LastReply) : ~HasResult(c.id, msgs)

\* No call is announced twice, whatever was cut; and when nothing was, the log tells
\* the transcript in its order, each result once (execute_agent, last_index and
\* announced).
LogTellsTranscript ==
  /\ \A id \in Ids : Cardinality(Uses(id)) <= 1 /\ (~cut => Cardinality(Results(id)) <= 1)
  /\ ~cut /\ turn = "none" =>
       Only(log, {k \in DOMAIN log : log[k].type # "idle"}) = EventsFrom(msgs, 0)

\* What lies past last_index is new, "Only messages past this index are new"
\* (execute_agent): the result of a call is told once, whatever was cut.
ToldOnce == \A id \in Ids : Cardinality(Results(id)) <= 1
=============================================================================
