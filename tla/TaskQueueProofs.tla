--------------------------- MODULE TaskQueueProofs ---------------------------
(***************************************************************************)
(* For every number of queues and threads: no thread outlives its queue.   *)
(* NoThreadOutlivesQueue is inductive as it stands, because join_tasks     *)
(* keeps the thread it has taken off the list until the thread has ended.  *)
(***************************************************************************)
EXTENDS TaskQueue, TLAPS

(* A step of any kind preserves the types. *)
LEMMA TypeStep ==
  ASSUME QueueTypeOK, [QueueNext]_queueVars
  PROVE  QueueTypeOK'
<1> USE TaskQueueAssumption DEF QueueTypeOK
<1>1. ASSUME NEW q \in Queues, TakeHead(q)
      PROVE  QueueTypeOK'
  <2>1. tq[q] \in Seq(Threads) /\ tq[q] # <<>>
    BY <1>1 DEF TakeHead
  <2>2. Head(tq[q]) \in Threads /\ Tail(tq[q]) \in Seq(Threads)
    BY <2>1
  <2> QED
    BY <1>1, <2>2 DEF TakeHead
<1>2. ASSUME NEW q \in Queues, JoinThread(q)
      PROVE  QueueTypeOK'
  BY <1>2 DEF JoinThread
<1>3. ASSUME NEW q \in Queues, NEW t \in Threads, spawn_task(q, t)
      PROVE  QueueTypeOK'
  <2>1. Append(tq[q], t) \in Seq(Threads)
    OBVIOUS
  <2> QED
    BY <1>3, <2>1 DEF spawn_task
<1>4. ASSUME NEW t \in running, EndThread(t)
      PROVE  QueueTypeOK'
  BY <1>4 DEF EndThread
<1>5. CASE UNCHANGED queueVars
  BY <1>5 DEF queueVars
<1> QED
  BY <1>1, <1>2, <1>3, <1>4, <1>5 DEF QueueNext, join_tasks

(* A step of any kind keeps every running thread on a list or in a join. *)
LEMMA QueuedStep ==
  ASSUME QueueTypeOK, RunningIsQueued, [QueueNext]_queueVars
  PROVE  RunningIsQueued'
<1> DEFINE Held(t, q) == joining[q] = t \/ \E i \in 1 .. Len(tq[q]) : tq[q][i] = t
<1>1. ASSUME NEW q \in Queues, TakeHead(q), NEW t \in running'
      PROVE  \E p \in Queues : Held(t, p)'
  <2>1. tq[q] \in Seq(Threads) /\ tq[q] # <<>> /\ joining[q] = NoThread
    BY <1>1 DEF TakeHead, QueueTypeOK
  <2>2. /\ running' = running
        /\ tq' = [tq EXCEPT ![q] = Tail(@)]
        /\ joining' = [joining EXCEPT ![q] = Head(tq[q])]
    BY <1>1 DEF TakeHead
  <2>3. PICK p \in Queues : Held(t, p)
    BY <1>1, <2>2 DEF RunningIsQueued
  <2>4. CASE p # q
    BY <2>2, <2>3, <2>4 DEF QueueTypeOK
  <2>5. CASE p = q
    <3>1. t \in Threads /\ t # NoThread
      BY <1>1, <2>2, TaskQueueAssumption DEF QueueTypeOK
    <3>2. PICK i \in 1 .. Len(tq[q]) : tq[q][i] = t
      BY <2>1, <2>3, <2>5, <3>1
    <3>3. CASE i = 1
      <4>1. Head(tq[q]) = t
        BY <2>1, <3>2, <3>3
      <4> QED
        BY <2>2, <4>1 DEF QueueTypeOK
    <3>4. CASE i # 1
      <4>1. /\ i - 1 \in 1 .. Len(Tail(tq[q]))
            /\ Tail(tq[q])[i - 1] = t
        BY <2>1, <3>2, <3>4
      <4>2. tq'[q] = Tail(tq[q])
        BY <2>2 DEF QueueTypeOK
      <4> QED
        BY <4>1, <4>2
    <3> QED
      BY <3>3, <3>4
  <2> QED
    BY <2>4, <2>5
<1>2. ASSUME NEW q \in Queues, JoinThread(q), NEW t \in running'
      PROVE  \E p \in Queues : Held(t, p)'
  <2>1. running' = running /\ tq' = tq /\ joining[q] \in ended
    BY <1>2 DEF JoinThread
  <2>2. PICK p \in Queues : Held(t, p)
    BY <1>2, <2>1 DEF RunningIsQueued
  <2>3. joining[q] # t
    BY <1>2, <2>1 DEF QueueTypeOK
  <2>4. joining[p] = t => joining'[p] = t
    BY <1>2, <2>3 DEF JoinThread, QueueTypeOK
  <2> QED
    BY <2>1, <2>2, <2>4
<1>3. ASSUME NEW q \in Queues, NEW u \in Threads, spawn_task(q, u), NEW t \in running'
      PROVE  \E p \in Queues : Held(t, p)'
  <2>1. /\ running' = running \cup {u}
        /\ tq' = [tq EXCEPT ![q] = Append(@, u)]
        /\ joining' = joining
    BY <1>3 DEF spawn_task
  <2>2. /\ tq[q] \in Seq(Threads)
        /\ tq'[q] = Append(tq[q], u)
        /\ \A p \in Queues : p # q => tq'[p] = tq[p]
    BY <2>1 DEF QueueTypeOK
  <2>3. /\ Len(tq'[q]) = Len(tq[q]) + 1
        /\ Len(tq[q]) \in Nat
        /\ tq'[q][Len(tq[q]) + 1] = u
        /\ \A i \in 1 .. Len(tq[q]) : tq'[q][i] = tq[q][i]
    BY <2>2
  <2>4. CASE t = u
    BY <2>3, <2>4
  <2>5. CASE t # u
    <3>1. PICK p \in Queues : Held(t, p)
      BY <1>3, <2>1, <2>5 DEF RunningIsQueued
    <3>2. Held(t, p)'
      <4>1. CASE p = q
        BY <2>1, <2>3, <3>1, <4>1
      <4>2. CASE p # q
        BY <2>1, <2>2, <3>1, <4>2
      <4> QED
        BY <4>1, <4>2
    <3> QED
      BY <3>2
  <2> QED
    BY <2>4, <2>5
<1>4. ASSUME NEW u \in running, EndThread(u), NEW t \in running'
      PROVE  \E p \in Queues : Held(t, p)'
  BY <1>4 DEF EndThread, RunningIsQueued
<1>5. CASE UNCHANGED queueVars
  BY <1>5 DEF queueVars, RunningIsQueued
<1>6. CASE QueueNext
  BY <1>1, <1>2, <1>3, <1>4, <1>6 DEF QueueNext, join_tasks, RunningIsQueued
<1> QED
  BY <1>5, <1>6

(* Line 61 of taskq.c, for every program that uses the queues: a thread    *)
(* that runs is on a list or is being joined.                              *)
THEOREM NoThreadOutlives == QueueSpec => []NoThreadOutlivesQueue
<1>1. QueueInit => NoThreadOutlivesQueue
  BY DEF QueueInit, NoThreadOutlivesQueue, QueueTypeOK, RunningIsQueued
<1>2. NoThreadOutlivesQueue /\ [QueueNext]_queueVars => NoThreadOutlivesQueue'
  BY TypeStep, QueuedStep DEF NoThreadOutlivesQueue
<1> QED
  BY <1>1, <1>2, PTL DEF QueueSpec

(* When every join_tasks has returned, every thread has: the arrays and    *)
(* queues can be freed (free_task_queue, "Assumes that queue is already    *)
(* empty").                                                                *)
THEOREM JoinedMeansEnded == QueueSpec => []((\A q \in Queues : Joined(q)) => running = {})
<1>1. NoThreadOutlivesQueue => ((\A q \in Queues : Joined(q)) => running = {})
  <2> SUFFICES ASSUME NoThreadOutlivesQueue, \A q \in Queues : Joined(q), NEW t \in running
               PROVE  FALSE
    OBVIOUS
  <2>1. PICK q \in Queues : joining[q] = t \/ \E i \in 1 .. Len(tq[q]) : tq[q][i] = t
    BY DEF NoThreadOutlivesQueue, RunningIsQueued
  <2>2. joining[q] = NoThread /\ tq[q] = <<>>
    BY DEF Joined
  <2>3. t # NoThread
    BY TaskQueueAssumption DEF NoThreadOutlivesQueue, QueueTypeOK
  <2>4. Len(tq[q]) = 0
    BY <2>2
  <2> QED
    BY <2>1, <2>2, <2>3, <2>4
<1> QED
  BY <1>1, NoThreadOutlives, PTL
=============================================================================
