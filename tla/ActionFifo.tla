----------------------------- MODULE ActionFifo -----------------------------
(***************************************************************************)
(* What LNActionThreads promises its callers: an action handed to enqueue  *)
(* is run at most once, by one action thread, and the action threads pick  *)
(* the actions up in the order in which they were enqueued.  An action     *)
(* whose text is empty is dropped instead of run.                          *)
(***************************************************************************)
EXTENDS Sequences

CONSTANTS
  Workers,     \* the action threads
  Commands,    \* action texts handed to enqueue
  Empty,       \* the empty action text, one of Commands
  Idle         \* what an action thread runs while it runs nothing

VARIABLES
  todo,        \* actions enqueued and not picked up yet, oldest first
  running      \* [Workers -> Commands \cup {Idle}]

abstractVars == <<todo, running>>

Init ==
  /\ todo = <<>>
  /\ running = [w \in Workers |-> Idle]

\* LNActionThreads::enqueue returns only after this has happened.
Submit(a) ==
  /\ todo' = Append(todo, a)
  /\ UNCHANGED running

\* An idle action thread picks up the oldest action.
Start(w) ==
  /\ todo # <<>>
  /\ running[w] = Idle
  /\ todo' = Tail(todo)
  /\ running' = [running EXCEPT ![w] = IF Head(todo) = Empty THEN Idle ELSE Head(todo)]

Finish(w) ==
  /\ running[w] # Idle
  /\ running' = [running EXCEPT ![w] = Idle]
  /\ UNCHANGED todo

Next ==
  \/ \E a \in Commands : Submit(a)
  \/ \E w \in Workers : Start(w) \/ Finish(w)

Spec == Init /\ [][Next]_abstractVars
=============================================================================
