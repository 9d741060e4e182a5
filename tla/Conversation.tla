----------------------------- MODULE Conversation -----------------------------
(***************************************************************************)
(* What the turn gate owes the two sides of a conversation, with no        *)
(* workers, queue, leases or copies of the row in it: one batch's turn at  *)
(* a time, words only in the turn they belong to, a turn that ends only    *)
(* when its batch has been told so, in a generation of its own, and a      *)
(* conversation that is over for good.                                     *)
(***************************************************************************)
EXTENDS Integers, Sequences

CONSTANTS
  Batches,  \* batches of client events, each sent once
  None      \* nobody's turn, or the system itself as the source of an event

VARIABLES
  turn,  \* the batch whose turn it is, or None
  over,  \* the conversation is terminated
  gen,   \* turns ended so far
  log    \* the events, in order

vars == <<turn, over, gen, log>>

Event(type, by) == [type |-> type, by |-> by]

Init == turn = None /\ over = FALSE /\ gen = 0 /\ log = << >>

\* A batch the log does not know yet opens the next turn.  A turn that nobody
\* runs any longer may be superseded; it ends with its successor's.
Accept(b) ==
  /\ ~over
  /\ \A i \in DOMAIN log : log[i] # Event("user", b)
  /\ log' = Append(log, Event("user", b))
  /\ turn' = b
  /\ UNCHANGED <<over, gen>>

\* The turn says something.
Say(type) ==
  /\ turn # None
  /\ log' = Append(log, Event(type, turn))
  /\ UNCHANGED <<turn, over, gen>>

\* The log goes on with the turn's words, or the system's, of the given types.
GoesOn(types) ==
  /\ Len(log) <= Len(log')
  /\ \A i \in DOMAIN log : log'[i] = log[i]
  /\ \A i \in DOMAIN log' \ DOMAIN log : log'[i].type \in types /\ log'[i].by \in {turn, None}

\* Behind the batch the log says that its turn is over.
Told(type) ==
  \E i, j \in DOMAIN log' : i < j /\ log'[i] = Event("user", turn) /\ log'[j].type = type

\* The turn ends, and with "terminated" the conversation.
Finish(type) ==
  /\ turn # None
  /\ GoesOn({"error", type}) /\ Told(type)
  /\ turn' = None /\ gen' = gen + 1
  /\ over' = (type = "terminated")

Next ==
  \/ \E b \in Batches : Accept(b)
  \/ \E type \in {"running", "message", "idle"} : Say(type)
  \/ \E type \in {"idle", "terminated"} : Finish(type)

Spec == Init /\ [][Next]_vars
=============================================================================
