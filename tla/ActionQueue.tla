---------------------------- MODULE ActionQueue -----------------------------
(***************************************************************************)
(* LNActionQueue and the action threads that serve it.                     *)
(*                                                                         *)
(* Producers (the main loop and the down-bound thread) call                *)
(* LNActionThreads::enqueue; workers run _executePendingActions.  The      *)
(* queue is a monitor on two mutexes: the one LNActionQueue inherits from  *)
(* LNMutex guards m_queue, the one inside LNCondition guards nothing but   *)
(* the condition variable.  pop() tests m_queue under the first, releases  *)
(* it and only then blocks on the second, without a predicate loop.        *)
(*                                                                         *)
(* One step per critical section.  The section of push() is split where it *)
(* calls LNCondition::signal, which happens with the queue locked.         *)
(***************************************************************************)
EXTENDS Naturals, Sequences, FiniteSets

CONSTANTS
  Producers,   \* threads that call enqueue
  Workers,     \* threads that run _executePendingActions
  Commands,    \* action texts
  Empty,       \* the empty action text, one of Commands
  NoThread,    \* owner of a free mutex, not a thread
  NoCommand,   \* value of a thread's action variable when it has none
  MaxPush      \* bound: enqueue calls in one behaviour

ASSUME ThreadsAssumption ==
  /\ Producers \cap Workers = {}
  /\ NoThread \notin Producers \cup Workers

ASSUME CommandsAssumption ==
  /\ Empty \in Commands
  /\ NoCommand \notin Commands

ASSUME BoundAssumption == MaxPush \in Nat

VARIABLES
  m_queue,     \* LNActionQueue::m_queue
  owner,       \* thread holding the queue mutex, or NoThread
  waiting,     \* workers blocked in pthread_cond_wait
  pc,          \* where every thread is
  action,      \* the argument of push, the local of _executePendingActions
  pushed,      \* history: every action appended to m_queue, in order
  taken        \* history: every action removed from m_queue, in order

vars == <<m_queue, owner, waiting, pc, action, pushed, taken>>

Threads == Producers \cup Workers

ProducerPC == {"idle", "lock", "signal", "unlock"}
WorkerPC   == {"check", "wait", "take", "exec"}

Init ==
  /\ m_queue = <<>>
  /\ owner = NoThread
  /\ waiting = {}
  /\ pc = [t \in Threads |-> IF t \in Producers THEN "idle" ELSE "check"]
  /\ action = [t \in Threads |-> NoCommand]
  /\ pushed = <<>>
  /\ taken = <<>>

Goto(t, label) == pc' = [pc EXCEPT ![t] = label]

-----------------------------------------------------------------------------
(* LNActionThreads::enqueue and LNActionQueue::push                        *)

PushesUnderWay == Cardinality({p \in Producers : pc[p] = "lock"})

\* Mutant of PushCall: the argument is not stored.
PushCallNoArgument(p, a) ==
  /\ pc[p] = "idle"
  /\ Len(pushed) + PushesUnderWay < MaxPush
  /\ Goto(p, "lock")
  /\ UNCHANGED <<m_queue, owner, waiting, action, pushed, taken>>

\* A producer calls enqueue(a); the action is still on its stack.
PushCall(p, a) ==
  /\ pc[p] = "idle"
  /\ Len(pushed) + PushesUnderWay < MaxPush
  /\ action' = [action EXCEPT ![p] = a]
  /\ Goto(p, "lock")
  /\ UNCHANGED <<m_queue, owner, waiting, pushed, taken>>

\* LNMutexLocker acquires the queue mutex; m_queue.push.
PushLock(p) ==
  /\ pc[p] = "lock"
  /\ owner = NoThread
  /\ owner' = p
  /\ m_queue' = Append(m_queue, action[p])
  /\ pushed' = Append(pushed, action[p])
  /\ Goto(p, "signal")
  /\ UNCHANGED <<waiting, action, taken>>

\* Mutant of PushSignal: the signal is forgotten.
PushSignalForgotten(p) ==
  /\ pc[p] = "signal"
  /\ Goto(p, "unlock")
  /\ UNCHANGED <<m_queue, owner, waiting, action, pushed, taken>>

\* m_cond.signal(): one blocked worker is released, if there is one.
PushSignal(p) ==
  /\ pc[p] = "signal"
  /\ \/ /\ waiting = {}
        /\ Goto(p, "unlock")
        /\ UNCHANGED waiting
     \/ \E w \in waiting :
          /\ waiting' = waiting \ {w}
          /\ pc' = [pc EXCEPT ![p] = "unlock", ![w] = "take"]
  /\ UNCHANGED <<m_queue, owner, action, pushed, taken>>

\* Mutant of PushUnlock: the mutex is not released.
PushUnlockForgotten(p) ==
  /\ pc[p] = "unlock"
  /\ action' = [action EXCEPT ![p] = NoCommand]
  /\ Goto(p, "idle")
  /\ UNCHANGED <<m_queue, owner, waiting, pushed, taken>>

\* ~LNMutexLocker, enqueue returns.
PushUnlock(p) ==
  /\ pc[p] = "unlock"
  /\ owner' = NoThread
  /\ action' = [action EXCEPT ![p] = NoCommand]
  /\ Goto(p, "idle")
  /\ UNCHANGED <<m_queue, waiting, pushed, taken>>

-----------------------------------------------------------------------------
(* LNActionQueue::pop and the loop of _executePendingActions               *)

\* Mutant of PopCheck: the result of the test is ignored.
PopCheckAlwaysWaits(w) ==
  /\ pc[w] = "check"
  /\ owner = NoThread
  /\ Goto(w, "wait")
  /\ UNCHANGED <<m_queue, owner, waiting, action, pushed, taken>>

\* Mutant of PopCheck: the unlock is missing on the empty path.
PopCheckKeepsLock(w) ==
  /\ pc[w] = "check"
  /\ owner = NoThread
  /\ Goto(w, IF m_queue = <<>> THEN "wait" ELSE "take")
  /\ owner' = IF m_queue = <<>> THEN w ELSE NoThread
  /\ UNCHANGED <<m_queue, waiting, action, pushed, taken>>

\* lock; empty = (m_queue.size() <= 0); unlock
PopCheck(w) ==
  /\ pc[w] = "check"
  /\ owner = NoThread
  /\ Goto(w, IF m_queue = <<>> THEN "wait" ELSE "take")
  /\ UNCHANGED <<m_queue, owner, waiting, action, pushed, taken>>

\* m_cond.wait() blocks.  m_queue is not looked at again.
PopWait(w) ==
  /\ pc[w] = "wait"
  /\ w \notin waiting
  /\ waiting' = waiting \cup {w}
  /\ UNCHANGED <<m_queue, owner, pc, action, pushed, taken>>

\* pthread_cond_wait may return although nothing was signalled.
SpuriousWake(w) ==
  /\ w \in waiting
  /\ waiting' = waiting \ {w}
  /\ Goto(w, "take")
  /\ UNCHANGED <<m_queue, owner, action, pushed, taken>>

\* Mutant of PopTake: front() without pop().
PopTakeKeepsFront(w) ==
  /\ pc[w] = "take"
  /\ owner = NoThread
  /\ m_queue # <<>>
  /\ taken' = Append(taken, Head(m_queue))
  /\ action' = [action EXCEPT ![w] = Head(m_queue)]
  /\ Goto(w, "exec")
  /\ UNCHANGED <<m_queue, owner, waiting, pushed>>

\* Mutant of PopTake: the newest action is taken first.
PopTakeNewest(w) ==
  /\ pc[w] = "take"
  /\ owner = NoThread
  /\ m_queue # <<>>
  /\ LET last == Len(m_queue) IN
       /\ m_queue' = SubSeq(m_queue, 1, last - 1)
       /\ taken' = Append(taken, m_queue[last])
       /\ action' = [action EXCEPT ![w] = m_queue[last]]
  /\ Goto(w, "exec")
  /\ UNCHANGED <<owner, waiting, pushed>>

\* lock; take the front, or "" when the queue is empty; unlock.  The loop of
\* _executePendingActions goes round again on an empty action.
PopTake(w) ==
  /\ pc[w] = "take"
  /\ owner = NoThread
  /\ \/ /\ m_queue = <<>>
        /\ Goto(w, "check")
        /\ UNCHANGED <<m_queue, action, taken>>
     \/ /\ m_queue # <<>>
        /\ m_queue' = Tail(m_queue)
        /\ taken' = Append(taken, Head(m_queue))
        /\ IF Head(m_queue) = Empty
             THEN Goto(w, "check") /\ UNCHANGED action
             ELSE Goto(w, "exec") /\ action' = [action EXCEPT ![w] = Head(m_queue)]
  /\ UNCHANGED <<owner, waiting, pushed>>

\* system(action.c_str()) returns.
Execute(w) ==
  /\ pc[w] = "exec"
  /\ action' = [action EXCEPT ![w] = NoCommand]
  /\ Goto(w, "check")
  /\ UNCHANGED <<m_queue, owner, waiting, pushed, taken>>

-----------------------------------------------------------------------------
Producer(p) ==
  \/ \E a \in Commands : PushCall(p, a)
  \/ PushLock(p)
  \/ PushSignal(p)
  \/ PushUnlock(p)

Worker(w) ==
  \/ PopCheck(w)
  \/ PopWait(w)
  \/ SpuriousWake(w)
  \/ PopTake(w)
  \/ Execute(w)

Next ==
  \/ \E p \in Producers : Producer(p)
  \/ \E w \in Workers : Worker(w)

Spec == Init /\ [][Next]_vars

\* A thread that can run does run and a command that was started ends.
\* Nothing makes a producer enqueue, and nothing makes a wait return without
\* a signal.
Fairness ==
  /\ \A p \in Producers : WF_vars(PushLock(p) \/ PushSignal(p) \/ PushUnlock(p))
  /\ \A w \in Workers : WF_vars(PopCheck(w) \/ PopWait(w) \/ PopTake(w) \/ Execute(w))

FairSpec == Spec /\ Fairness

-----------------------------------------------------------------------------
(* Properties                                                              *)

\* The variables stay in their types.
TypeOK ==
  /\ m_queue \in Seq(Commands)
  /\ owner \in Threads \cup {NoThread}
  /\ waiting \in SUBSET Workers
  /\ pc \in [Threads -> ProducerPC \cup WorkerPC]
  /\ \A p \in Producers : pc[p] \in ProducerPC
  /\ \A w \in Workers : pc[w] \in WorkerPC
  /\ action \in [Threads -> Commands \cup {NoCommand}]
  /\ pushed \in Seq(Commands)
  /\ taken \in Seq(Commands)

\* push() and pop() neither lose, duplicate nor reorder an action: what the
\* workers took, followed by what is still queued, is what was pushed.
NothingLostOrDuplicated == taken \o m_queue = pushed

\* The queue mutex is held exactly by a producer that is between its push and
\* the destructor of its LNMutexLocker, so the signal is always sent under it
\* and no worker ever keeps it across its blocking wait.
MutexHeldByPusher ==
  \A t \in Threads : owner = t <=> t \in Producers /\ pc[t] \in {"signal", "unlock"}

\* As long as one worker is outside its wait, everything that was pushed is
\* taken: pop() re-reads the queue after every action it ran.
AwakeWorkerDrains ==
  \A i \in 1..MaxPush :
    (Len(pushed) >= i /\ \E w \in Workers : pc[w] # "wait") ~> Len(taken) >= i

\* An action left behind by a wakeup that came too early is picked up at the
\* latest when the next push() signals while the workers are blocked.
NextSignalRescues ==
  \A i \in 1..MaxPush :
    (Len(pushed) >= i /\ waiting # {} /\ \E p \in Producers : pc[p] = "signal")
      ~> Len(taken) >= i

\* enqueue() always returns: no worker blocks while holding the queue mutex.
EnqueueReturns ==
  \A p \in Producers : pc[p] = "lock" ~> pc[p] = "idle"

\* README: actions pending in the queue are fetched by the action threads and
\* executed.  pop() breaks this: a push between its test and its wait signals
\* nobody, and the action stays in the queue while every worker sleeps.
EveryActionTaken ==
  \A i \in 1..MaxPush : Len(pushed) >= i ~> Len(taken) >= i

\* The queue implements ActionFifo.
Fifo == INSTANCE ActionFifo WITH
  todo    <- m_queue,
  running <- [w \in Workers |-> IF pc[w] = "exec" THEN action[w] ELSE NoCommand],
  Idle    <- NoCommand

\* Every action is run at most once, by one worker, picked up in the order in
\* which push() stored them.
ImplementsFifo == Fifo!Spec
=============================================================================
