------------------------------ MODULE TaskQueue ------------------------------
(***************************************************************************)
(* The task queues of CMU15-213/26-parallelism/pqsort/taskq.c: spawn_task  *)
(* starts a thread and appends it to a list, join_tasks takes the threads  *)
(* off the list and joins them until it finds the list empty.  Tasks spawn *)
(* further tasks on the queue they are on.  What a function does between   *)
(* locking and unlocking tq->mutex is one step.                            *)
(*                                                                         *)
(* The counters behind the statistic that join_tasks returns are left out, *)
(* as is the semaphore of the SEM build, which the Makefile does not make. *)
(***************************************************************************)
EXTENDS Naturals, Sequences

CONSTANTS
  Queues,     \* the queues of the program
  Threads,    \* the threads that can be spawned
  NoThread    \* not a thread

ASSUME TaskQueueAssumption == NoThread \notin Threads

VARIABLES
  tq,         \* tq[q]: the list from head to tail
  joining,    \* joining[q]: the thread that join_tasks(q) waits for
  running,    \* threads that have been created and have not returned
  ended       \* threads that have returned

queueVars == <<tq, joining, running, ended>>

(* new_task_queue, for all queues. *)
QueueInit ==
  /\ tq = [q \in Queues |-> <<>>]
  /\ joining = [q \in Queues |-> NoThread]
  /\ running = {}
  /\ ended = {}

spawn_task(q, t) ==
  /\ t \notin running \cup ended
  /\ running' = running \cup {t}
  /\ tq' = [tq EXCEPT ![q] = Append(@, t)]
  /\ UNCHANGED <<joining, ended>>

(* Plausible slip: the head stays on the list. *)
TakeHeadKeeping(q) ==
  /\ joining[q] = NoThread /\ tq[q] # <<>>
  /\ joining' = [joining EXCEPT ![q] = Head(tq[q])]
  /\ UNCHANGED <<tq, running, ended>>

(* join_tasks: the head is taken off the list under the lock. *)
TakeHead(q) ==
  /\ joining[q] = NoThread /\ tq[q] # <<>>
  /\ joining' = [joining EXCEPT ![q] = Head(tq[q])]
  /\ tq' = [tq EXCEPT ![q] = Tail(@)]
  /\ UNCHANGED <<running, ended>>

(* Plausible slip: the thread is not joined. *)
ForgetThread(q) ==
  /\ joining[q] # NoThread
  /\ joining' = [joining EXCEPT ![q] = NoThread]
  /\ UNCHANGED <<tq, running, ended>>

(* join_tasks: Pthread_join returns. *)
JoinThread(q) ==
  /\ joining[q] # NoThread /\ joining[q] \in ended
  /\ joining' = [joining EXCEPT ![q] = NoThread]
  /\ UNCHANGED <<tq, running, ended>>

join_tasks(q) == TakeHead(q) \/ JoinThread(q)

(* join_tasks finds the list empty and returns. *)
Joined(q) == joining[q] = NoThread /\ tq[q] = <<>>

(* The routine of t returns. *)
EndThread(t) ==
  /\ running' = running \ {t}
  /\ ended' = ended \cup {t}
  /\ UNCHANGED <<tq, joining>>

-----------------------------------------------------------------------------
(* Any program on the queues: its threads, and the program itself, spawn,  *)
(* join and return.                                                        *)
QueueNext ==
  \/ \E q \in Queues : join_tasks(q) \/ \E t \in Threads : spawn_task(q, t)
  \/ \E t \in running : EndThread(t)

QueueSpec == QueueInit /\ [][QueueNext]_queueVars

-----------------------------------------------------------------------------
QueueTypeOK ==
  /\ tq \in [Queues -> Seq(Threads)]
  /\ joining \in [Queues -> Threads \cup {NoThread}]
  /\ running \subseteq Threads /\ ended \subseteq Threads
  /\ running \cap ended = {}

RunningIsQueued ==
  \A t \in running :
    \E q \in Queues : joining[q] = t \/ \E i \in 1 .. Len(tq[q]) : tq[q][i] = t

(* The state of the queues has its types, and line 61 of taskq.c holds,    *)
(* "Assumes that queue won't become empty until all tasks completed": a    *)
(* thread that runs is on a list or is being joined, though tasks go on    *)
(* spawning tasks while join_tasks takes them off, so no join_tasks        *)
(* returns, and no queue is freed, while one of its threads runs.          *)
NoThreadOutlivesQueue == QueueTypeOK /\ RunningIsQueued
=============================================================================
