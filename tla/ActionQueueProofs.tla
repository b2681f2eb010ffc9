------------------------- MODULE ActionQueueProofs --------------------------
(***************************************************************************)
(* Proofs about ActionQueue for any number of producers, workers, commands *)
(* and enqueue calls.                                                      *)
(***************************************************************************)
EXTENDS ActionQueue, SequenceTheorems, TLAPS

-----------------------------------------------------------------------------
(* The inductive invariant                                                 *)

\* Where an action is while it is in nobody's queue: with the producer until
\* enqueue returns, with the worker while it runs, never with a worker that is
\* blocked in the condition.
ActionInHand ==
  /\ \A p \in Producers : action[p] \in Commands <=> pc[p] # "idle"
  /\ \A w \in Workers : action[w] \in Commands \ {Empty} <=> pc[w] = "exec"
  /\ \A w \in Workers : pc[w] # "exec" => action[w] = NoCommand
  /\ \A w \in waiting : pc[w] = "wait"

\* The inductive invariant of the proofs.
QueueInv ==
  /\ TypeOK
  /\ MutexHeldByPusher
  /\ ActionInHand
  /\ NothingLostOrDuplicated

-----------------------------------------------------------------------------
(* Sequences                                                               *)

\* Moving the front of the queue to the end of the history leaves their
\* concatenation alone: what pop() does to m_queue.
LEMMA MoveHead ==
  ASSUME NEW S, NEW s \in Seq(S), NEW t \in Seq(S), t # <<>>
  PROVE  /\ Head(t) \in S
         /\ Tail(t) \in Seq(S)
         /\ Append(s, Head(t)) \o Tail(t) = s \o t
<1>1. Head(t) \in S /\ Tail(t) \in Seq(S)
  BY HeadTailProperties
<1>2. Append(s, Head(t)) = s \o <<Head(t)>>
  BY <1>1
<1>3. t = <<Head(t)>> \o Tail(t)
  BY <1>1
<1>4. (s \o <<Head(t)>>) \o Tail(t) = s \o (<<Head(t)>> \o Tail(t))
  BY <1>1, ConcatAssociative
<1> QED
  BY <1>1, <1>2, <1>3, <1>4

\* Appending to the queue appends to the concatenation: what push() does.
LEMMA AppendRight ==
  ASSUME NEW S, NEW s \in Seq(S), NEW t \in Seq(S), NEW a \in S
  PROVE  s \o Append(t, a) = Append(s \o t, a)
  OBVIOUS

-----------------------------------------------------------------------------
(* Every step keeps the invariant                                          *)

\* The queue before the first thread runs satisfies the invariant.
LEMMA InitQueueInv == Init => QueueInv
  BY ThreadsAssumption, CommandsAssumption
  DEF Init, QueueInv, TypeOK, MutexHeldByPusher, ActionInHand, NothingLostOrDuplicated,
      Threads, ProducerPC, WorkerPC

\* Every step of push, pop and the worker loop keeps types, lock ownership
\* and the place of every action.
LEMMA NextControlInv ==
  TypeOK /\ MutexHeldByPusher /\ ActionInHand /\ [Next]_vars
    => (TypeOK /\ MutexHeldByPusher /\ ActionInHand)'
<1> SUFFICES ASSUME TypeOK, MutexHeldByPusher, ActionInHand, [Next]_vars
             PROVE  (TypeOK /\ MutexHeldByPusher /\ ActionInHand)'
  OBVIOUS
<1> USE ThreadsAssumption, CommandsAssumption
    DEF TypeOK, MutexHeldByPusher, ActionInHand, Threads, ProducerPC, WorkerPC, Goto
<1>1. ASSUME NEW p \in Producers, NEW a \in Commands, PushCall(p, a)
      PROVE  (TypeOK /\ MutexHeldByPusher /\ ActionInHand)'
  BY <1>1 DEF PushCall
<1>2. ASSUME NEW p \in Producers, PushLock(p)
      PROVE  (TypeOK /\ MutexHeldByPusher /\ ActionInHand)'
  BY <1>2 DEF PushLock
<1>3. ASSUME NEW p \in Producers, PushSignal(p)
      PROVE  (TypeOK /\ MutexHeldByPusher /\ ActionInHand)'
  BY <1>3 DEF PushSignal
<1>4. ASSUME NEW p \in Producers, PushUnlock(p)
      PROVE  (TypeOK /\ MutexHeldByPusher /\ ActionInHand)'
  BY <1>4 DEF PushUnlock
<1>5. ASSUME NEW w \in Workers, PopCheck(w)
      PROVE  (TypeOK /\ MutexHeldByPusher /\ ActionInHand)'
  BY <1>5 DEF PopCheck
<1>6. ASSUME NEW w \in Workers, PopWait(w)
      PROVE  (TypeOK /\ MutexHeldByPusher /\ ActionInHand)'
  BY <1>6 DEF PopWait
<1>7. ASSUME NEW w \in Workers, SpuriousWake(w)
      PROVE  (TypeOK /\ MutexHeldByPusher /\ ActionInHand)'
  BY <1>7 DEF SpuriousWake
<1>8. ASSUME NEW w \in Workers, PopTake(w)
      PROVE  (TypeOK /\ MutexHeldByPusher /\ ActionInHand)'
  <2>1. CASE m_queue = <<>>
    BY <1>8, <2>1 DEF PopTake
  <2>2. CASE m_queue # <<>>
    <3>1. Head(m_queue) \in Commands /\ Tail(m_queue) \in Seq(Commands)
      BY <2>2, MoveHead
    <3>2. m_queue' \in Seq(Commands) /\ taken' \in Seq(Commands)
      <4>1. m_queue' = Tail(m_queue) /\ taken' = Append(taken, Head(m_queue))
        BY <1>8, <2>2 DEF PopTake
      <4> HIDE DEF TypeOK
      <4>2. taken \in Seq(Commands)
        BY DEF TypeOK
      <4> QED BY <3>1, <4>1, <4>2, AppendProperties
    <3>3. UNCHANGED <<owner, waiting, pushed>> /\ pc[w] = "take"
      BY <1>8 DEF PopTake
    <3>4. CASE Head(m_queue) = Empty
      <4>1. pc' = [pc EXCEPT ![w] = "check"] /\ action' = action
        BY <1>8, <2>2, <3>4 DEF PopTake
      <4> QED BY <3>2, <3>3, <4>1
    <3>5. CASE Head(m_queue) # Empty
      <4>1. pc' = [pc EXCEPT ![w] = "exec"] /\ action' = [action EXCEPT ![w] = Head(m_queue)]
        BY <1>8, <2>2, <3>5 DEF PopTake
      <4> QED BY <3>1, <3>2, <3>3, <3>5, <4>1
    <3> QED BY <3>4, <3>5
  <2> QED BY <2>1, <2>2
<1>9. ASSUME NEW w \in Workers, Execute(w)
      PROVE  (TypeOK /\ MutexHeldByPusher /\ ActionInHand)'
  BY <1>9 DEF Execute
<1>10. CASE UNCHANGED vars
  BY <1>10 DEF vars
<1> QED
  BY <1>1, <1>2, <1>3, <1>4, <1>5, <1>6, <1>7, <1>8, <1>9, <1>10 DEF Next, Producer, Worker

\* Every step keeps the accounting of actions.
LEMMA NextAccounting ==
  QueueInv /\ [Next]_vars => NothingLostOrDuplicated'
<1> SUFFICES ASSUME QueueInv, [Next]_vars PROVE NothingLostOrDuplicated'
  OBVIOUS
<1> USE DEF QueueInv, NothingLostOrDuplicated
<1>1. ASSUME NEW p \in Producers, PushLock(p) PROVE NothingLostOrDuplicated'
  <2>1. action[p] \in Commands
    BY <1>1 DEF PushLock, ActionInHand
  <2>2. taken \o Append(m_queue, action[p]) = Append(taken \o m_queue, action[p])
    BY <2>1, AppendRight DEF TypeOK
  <2> QED
    BY <1>1, <2>2 DEF PushLock
<1>2. ASSUME NEW w \in Workers, PopTake(w) PROVE NothingLostOrDuplicated'
  <2>1. CASE m_queue = <<>>
    BY <1>2, <2>1 DEF PopTake
  <2>2. CASE m_queue # <<>>
    <3>1. Append(taken, Head(m_queue)) \o Tail(m_queue) = taken \o m_queue
      BY <2>2, MoveHead DEF TypeOK
    <3> QED
      BY <1>2, <2>2, <3>1 DEF PopTake
  <2> QED BY <2>1, <2>2
<1>3. CASE UNCHANGED <<m_queue, pushed, taken>>
  BY <1>3
<1> QED
  BY <1>1, <1>2, <1>3
  DEF Next, Producer, Worker, PushCall, PushSignal, PushUnlock, PopCheck, PopWait,
      SpuriousWake, Execute, vars

\* The queue keeps its inductive invariant for any threads, commands and
\* number of enqueue calls.
THEOREM QueueInvariant == Spec => []QueueInv
<1>1. QueueInv /\ [Next]_vars => QueueInv'
  BY NextControlInv, NextAccounting DEF QueueInv
<1> QED
  BY InitQueueInv, <1>1, PTL DEF Spec

\* Type correctness of LNActionQueue and its threads.
THEOREM TypeCorrect == Spec => []TypeOK
<1>1. QueueInv => TypeOK
  BY DEF QueueInv
<1> QED
  BY QueueInvariant, <1>1, PTL

\* push() and pop() lose, duplicate and reorder nothing: the actions the
\* workers took followed by the queued ones are the pushed ones.
THEOREM NothingLost == Spec => []NothingLostOrDuplicated
<1>1. QueueInv => NothingLostOrDuplicated
  BY DEF QueueInv
<1> QED
  BY QueueInvariant, <1>1, PTL

\* The queue mutex is held exactly from the push to the end of enqueue.
THEOREM MutexOwnership == Spec => []MutexHeldByPusher
<1>1. QueueInv => MutexHeldByPusher
  BY DEF QueueInv
<1> QED
  BY QueueInvariant, <1>1, PTL

-----------------------------------------------------------------------------
(* Refinement                                                              *)

\* A step of the queue is a step of ActionFifo or changes nothing it sees.
LEMMA StepImplementsFifo ==
  QueueInv /\ [Next]_vars => [Fifo!Next]_(Fifo!abstractVars)
<1> DEFINE run == [w \in Workers |-> IF pc[w] = "exec" THEN action[w] ELSE NoCommand]
<1> SUFFICES ASSUME QueueInv, [Next]_vars
             PROVE  [Fifo!Next]_(Fifo!abstractVars)
  OBVIOUS
<1> USE ThreadsAssumption, CommandsAssumption DEF QueueInv, Fifo!abstractVars
<1>1. ASSUME NEW p \in Producers, NEW a \in Commands, PushCall(p, a)
      PROVE  UNCHANGED Fifo!abstractVars
  BY <1>1 DEF PushCall, Goto, TypeOK, Threads
<1>2. ASSUME NEW p \in Producers, PushLock(p)
      PROVE  Fifo!Next
  <2>1. action[p] \in Commands
    BY <1>2 DEF PushLock, ActionInHand
  <2>2. run' = run
    BY <1>2 DEF PushLock, Goto, TypeOK, Threads
  <2> QED
    BY <1>2, <2>1, <2>2 DEF PushLock, Fifo!Next, Fifo!Submit
<1>3. ASSUME NEW p \in Producers, PushSignal(p)
      PROVE  UNCHANGED Fifo!abstractVars
  BY <1>3 DEF PushSignal, Goto, TypeOK, Threads, ActionInHand
<1>4. ASSUME NEW p \in Producers, PushUnlock(p)
      PROVE  UNCHANGED Fifo!abstractVars
  BY <1>4 DEF PushUnlock, Goto, TypeOK, Threads
<1>5. ASSUME NEW w \in Workers, PopCheck(w)
      PROVE  UNCHANGED Fifo!abstractVars
  BY <1>5 DEF PopCheck, Goto, TypeOK, Threads
<1>6. ASSUME NEW w \in Workers, PopWait(w)
      PROVE  UNCHANGED Fifo!abstractVars
  BY <1>6 DEF PopWait
<1>7. ASSUME NEW w \in Workers, SpuriousWake(w)
      PROVE  UNCHANGED Fifo!abstractVars
  BY <1>7 DEF SpuriousWake, Goto, TypeOK, Threads, ActionInHand
<1>8. ASSUME NEW w \in Workers, PopTake(w)
      PROVE  [Fifo!Next]_(Fifo!abstractVars)
  <2>1. CASE m_queue = <<>>
    BY <1>8, <2>1 DEF PopTake, Goto, TypeOK, Threads
  <2>2. CASE m_queue # <<>>
    <3>1. pc[w] = "take" /\ run[w] = NoCommand /\ m_queue' = Tail(m_queue)
      BY <1>8, <2>2 DEF PopTake
    <3>2. run' = [run EXCEPT ![w] = IF Head(m_queue) = Empty THEN NoCommand ELSE Head(m_queue)]
      <4>1. CASE Head(m_queue) = Empty
        BY <1>8, <2>2, <4>1 DEF PopTake, Goto, TypeOK, Threads
      <4>2. CASE Head(m_queue) # Empty
        BY <1>8, <2>2, <4>2 DEF PopTake, Goto, TypeOK, Threads
      <4> QED BY <4>1, <4>2
    <3> QED
      BY <2>2, <3>1, <3>2 DEF Fifo!Next, Fifo!Start
  <2> QED BY <2>1, <2>2
<1>9. ASSUME NEW w \in Workers, Execute(w)
      PROVE  Fifo!Next
  <2>1. run[w] # NoCommand /\ m_queue' = m_queue
    BY <1>9 DEF Execute, ActionInHand
  <2>2. run' = [run EXCEPT ![w] = NoCommand]
    BY <1>9 DEF Execute, Goto, TypeOK, Threads
  <2> QED
    BY <2>1, <2>2 DEF Fifo!Next, Fifo!Finish
<1>10. CASE UNCHANGED vars
  BY <1>10 DEF vars
<1> QED
  BY <1>1, <1>2, <1>3, <1>4, <1>5, <1>6, <1>7, <1>8, <1>9, <1>10 DEF Next, Producer, Worker

\* LNActionQueue with its threads implements ActionFifo: an enqueued action
\* is run at most once, by one worker, and picked up in order.
THEOREM QueueImplementsFifo == Spec => ImplementsFifo
<1>1. Init => Fifo!Init
  BY ThreadsAssumption DEF Init, Fifo!Init, Threads
<1> QED
  BY QueueInvariant, <1>1, StepImplementsFifo, PTL DEF Spec, ImplementsFifo, Fifo!Spec
=============================================================================
