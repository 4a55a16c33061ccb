---------------------------- MODULE WorkScheduler ----------------------------
(***************************************************************************)
(* ScheduleFixedV3 to ScheduleFixedV10 of                                  *)
(* 02_work_scheduler/work_scheduler.go.  A goroutine per server runs       *)
(* runTasks: it receives tasks from the channel work and reports on done.  *)
(* The versions differ in where the servers come from (a slice in V3, a    *)
(* channel that servers join over time from V4 on), in who feeds work and  *)
(* when done is received, in whether work is buffered (from V8 on), in     *)
(* whether a failed call is retried (V9, V10) and in how the goroutines    *)
(* are stopped.  One next-state relation per version is built from shared  *)
(* actions; a send on an unbuffered channel is a step of both sides.  The  *)
(* version and the argument numTask are chosen initially.                  *)
(***************************************************************************)
EXTENDS Naturals, Sequences, FiniteSets

CONSTANTS
  Servers,        \* the servers that exist
  Versions,       \* the versions to be checked
  MaxTask,        \* bound of numTask
  MaxFailures     \* bound: calls that return false (V9, V10)

ASSUME WorkSchedulerAssumption ==
  /\ IsFiniteSet(Servers)
  /\ MaxTask \in Nat
  /\ MaxFailures \in Nat

VARIABLES
  version,    \* the version that is called
  numTask,    \* its argument
  main,       \* "run", "recv" (V4: inside the loop), "exit" or "returned"
  feeding,    \* the loop that sends on work has not ended
  next,       \* task, the next one to be sent on work
  got,        \* i, values received from done
  work,       \* the buffer of work
  closed,     \* work is closed
  acceptor,   \* the goroutine that receives from servers: "run" or "ended"
  worker,     \* worker[s]: where server s and its runTasks are
  task,       \* task[s]: the task runTasks holds
  ran,        \* ran[k]: successful calls for task k
  failures    \* calls that returned false

ownVars == <<main, feeding, next, got, work, closed, acceptor, worker, task, ran, failures>>
vars == <<version, numTask, ownVars>>

Tasks == 0 .. numTask - 1

WorkerStates == {"absent", "queued", "idle", "call", "done", "requeue", "ended"}

(* V3 starts one runTasks per element of the slice servers; from V4 on the *)
(* servers arrive on a channel.                                            *)
Init ==
  /\ version \in Versions
  /\ numTask \in 0 .. MaxTask
  /\ main = "run"
  /\ feeding = TRUE
  /\ next = 0
  /\ got = 0
  /\ work = <<>>
  /\ closed = FALSE
  /\ acceptor = "run"
  /\ worker = [s \in Servers |-> IF version = 3 THEN "idle" ELSE "absent"]
  /\ task = [s \in Servers |-> 0]
  /\ ran = [k \in Tasks |-> 0]
  /\ failures = 0

Move(s, a, b) ==
  /\ worker[s] = a
  /\ worker' = [worker EXCEPT ![s] = b]

-----------------------------------------------------------------------------
(* The caller sends a server on the channel servers. *)
ServerJoins(s) ==
  /\ Move(s, "absent", "queued")
  /\ UNCHANGED <<main, feeding, next, got, work, closed, acceptor, task, ran, failures>>

(* for srv := range servers { go runTasks(srv) } *)
AcceptServer(s) ==
  /\ acceptor = "run"
  /\ Move(s, "queued", "idle")
  /\ UNCHANGED <<main, feeding, next, got, work, closed, acceptor, task, ran, failures>>

(* work <- task on the unbuffered channel: runTasks of s receives it. *)
HandTask(s) ==
  /\ feeding /\ next < numTask
  /\ Move(s, "idle", "call")
  /\ task' = [task EXCEPT ![s] = next]
  /\ next' = next + 1
  /\ UNCHANGED <<main, feeding, got, work, closed, acceptor, ran, failures>>

WorkCap == numTask

(* work <- task on the buffered channel. *)
FeedTask ==
  /\ feeding /\ next < numTask
  /\ Len(work) < WorkCap
  /\ work' = Append(work, next)
  /\ next' = next + 1
  /\ UNCHANGED <<main, feeding, got, closed, acceptor, worker, task, ran, failures>>

(* for task := range work on the buffered channel. *)
TakeTask(s) ==
  /\ work # <<>>
  /\ Move(s, "idle", "call")
  /\ task' = [task EXCEPT ![s] = Head(work)]
  /\ work' = Tail(work)
  /\ UNCHANGED <<main, feeding, next, got, closed, acceptor, ran, failures>>

(* The feeding loop ends and closes work (V3 to V8). *)
FeedEndsAndCloses ==
  /\ feeding /\ next = numTask
  /\ feeding' = FALSE
  /\ closed' = TRUE
  /\ UNCHANGED <<main, next, got, work, acceptor, worker, task, ran, failures>>

(* The feeding loop ends and work stays open (V9, V10). *)
FeedEnds ==
  /\ feeding /\ next = numTask
  /\ feeding' = FALSE
  /\ UNCHANGED <<main, next, got, work, closed, acceptor, worker, task, ran, failures>>

-----------------------------------------------------------------------------
(* runTasks of V3 and V4: call, then on to the next task. *)
CallThenNext(s) ==
  /\ Move(s, "call", "idle")
  /\ ran' = [ran EXCEPT ![task[s]] = @ + 1]
  /\ UNCHANGED <<main, feeding, next, got, work, closed, acceptor, task, failures>>

(* runTasks of V3 and V4: work is closed, done <- true follows the loop. *)
WorkClosedThenDone(s) ==
  /\ closed
  /\ Move(s, "idle", "done")
  /\ UNCHANGED <<main, feeding, next, got, work, closed, acceptor, task, ran, failures>>

(* runTasks from V5 on: call, then done <- true. *)
CallThenDone(s) ==
  /\ Move(s, "call", "done")
  /\ ran' = [ran EXCEPT ![task[s]] = @ + 1]
  /\ UNCHANGED <<main, feeding, next, got, work, closed, acceptor, task, failures>>

(* runTasks of V9 and V10: the call returns false. *)
CallFails(s) ==
  /\ failures < MaxFailures
  /\ Move(s, "call", "requeue")
  /\ failures' = failures + 1
  /\ UNCHANGED <<main, feeding, next, got, work, closed, acceptor, task, ran>>

(* Plausible slip: a failed task is dropped. *)
RequeueDrops(s) ==
  /\ Move(s, "requeue", "idle")
  /\ UNCHANGED <<main, feeding, next, got, work, closed, acceptor, task, ran, failures>>

(* work <- task puts the failed task back. *)
Requeue(s) ==
  /\ ~closed /\ Len(work) < WorkCap
  /\ Move(s, "requeue", "idle")
  /\ work' = Append(work, task[s])
  /\ UNCHANGED <<main, feeding, next, got, closed, acceptor, task, ran, failures>>

(* Plausible slip: runTasks does not leave its loop. *)
WorkClosedStays(s) ==
  /\ closed /\ work = <<>>
  /\ worker[s] = "idle"
  /\ UNCHANGED vars

(* runTasks from V5 on: work is closed and drained. *)
WorkClosed(s) ==
  /\ closed /\ work = <<>>
  /\ Move(s, "idle", "ended")
  /\ UNCHANGED <<main, feeding, next, got, work, closed, acceptor, task, ran, failures>>

-----------------------------------------------------------------------------
(* <-done at the end of V3: one value per server. *)
WaitServers(s) ==
  /\ ~feeding /\ got < Cardinality(Servers)
  /\ Move(s, "done", "ended")
  /\ got' = got + 1
  /\ UNCHANGED <<main, feeding, next, work, closed, acceptor, task, ran, failures>>

(* The final loop of V4 tests i < len(servers): the number of servers that *)
(* are still queued in the channel.                                        *)
TestV4 ==
  /\ main = "run" /\ ~feeding
  /\ main' = IF got < Cardinality({s \in Servers : worker[s] = "queued"})
             THEN "recv" ELSE "returned"
  /\ UNCHANGED <<feeding, next, got, work, closed, acceptor, worker, task, ran, failures>>

(* <-done in the final loop of V4. *)
WaitV4(s) ==
  /\ main = "recv"
  /\ Move(s, "done", "ended")
  /\ got' = got + 1
  /\ main' = "run"
  /\ UNCHANGED <<feeding, next, work, closed, acceptor, task, ran, failures>>

(* <-done: runTasks goes on to its next task. *)
ReceiveDone(s) ==
  /\ main = "run" /\ got < numTask
  /\ Move(s, "done", "idle")
  /\ got' = got + 1
  /\ UNCHANGED <<main, feeding, next, work, closed, acceptor, task, ran, failures>>

(* Plausible slip, or the repair of V6: done is received at any time. *)
WaitTasksAnyTime(s) == ReceiveDone(s)

(* <-done in the final loop only (V5, V8, V9, V10). *)
WaitTasks(s) == ~feeding /\ ReceiveDone(s)

(* V6 receives done in the select of WorkLoop and in the final loop; V7    *)
(* feeds work in a goroutine of its own and receives done meanwhile.       *)
ReceiveWhileFeeding(s) == ReceiveDone(s)

Return(count) ==
  /\ main = "run" /\ got = count
  /\ main' = "returned"
  /\ UNCHANGED <<feeding, next, got, work, closed, acceptor, worker, task, ran, failures>>

ReturnV3 == ~feeding /\ Return(Cardinality(Servers))

(* V5, V6 and V8 return after numTask values. *)
ReturnV5 == ~feeding /\ Return(numTask)

(* Plausible slip: i starts at 1. *)
ReturnV7OneShort == Return(numTask - 1)

(* V7 returns while its feeder may still have to close work. *)
ReturnV7 == Return(numTask)

(* Plausible slip: work is closed as soon as the tasks have been sent. *)
CloseWorkEarly(to) ==
  /\ main = "run" /\ ~feeding /\ ~closed
  /\ main' = "run"
  /\ closed' = TRUE
  /\ UNCHANGED <<feeding, next, got, work, acceptor, worker, task, ran, failures>>

(* V9 and V10 close work when every task has been reported. *)
CloseWork(to) ==
  /\ main = "run" /\ ~feeding /\ got = numTask
  /\ main' = to
  /\ closed' = TRUE
  /\ UNCHANGED <<feeding, next, got, work, acceptor, worker, task, ran, failures>>

(* V10: exit <- struct{}{}, received by the accepting goroutine. *)
ExitAcceptor ==
  /\ main = "exit" /\ acceptor = "run"
  /\ acceptor' = "ended"
  /\ main' = "returned"
  /\ UNCHANGED <<feeding, next, got, work, closed, worker, task, ran, failures>>

-----------------------------------------------------------------------------
Joining(s) == ServerJoins(s) \/ AcceptServer(s)

NextV3 ==
  \/ FeedEndsAndCloses \/ ReturnV3
  \/ \E s \in Servers : HandTask(s) \/ CallThenNext(s) \/ WorkClosedThenDone(s) \/ WaitServers(s)

NextV4 ==
  \/ FeedEndsAndCloses \/ TestV4
  \/ \E s \in Servers : Joining(s) \/ HandTask(s) \/ CallThenNext(s)
                          \/ WorkClosedThenDone(s) \/ WaitV4(s)

NextV5 ==
  \/ FeedEndsAndCloses \/ ReturnV5
  \/ \E s \in Servers : Joining(s) \/ HandTask(s) \/ CallThenDone(s) \/ WorkClosed(s) \/ WaitTasks(s)

NextV6 ==
  \/ FeedEndsAndCloses \/ ReturnV5
  \/ \E s \in Servers : Joining(s) \/ HandTask(s) \/ CallThenDone(s)
                          \/ WorkClosed(s) \/ ReceiveWhileFeeding(s)

NextV7 ==
  \/ FeedEndsAndCloses \/ ReturnV7
  \/ \E s \in Servers : Joining(s) \/ HandTask(s) \/ CallThenDone(s)
                          \/ WorkClosed(s) \/ ReceiveWhileFeeding(s)

NextV8 ==
  \/ FeedTask \/ FeedEndsAndCloses \/ ReturnV5
  \/ \E s \in Servers : Joining(s) \/ TakeTask(s) \/ CallThenDone(s) \/ WorkClosed(s) \/ WaitTasks(s)

NextV9 ==
  \/ FeedTask \/ FeedEnds \/ CloseWork("returned")
  \/ \E s \in Servers : Joining(s) \/ TakeTask(s) \/ CallThenDone(s) \/ CallFails(s)
                          \/ Requeue(s) \/ WorkClosed(s) \/ WaitTasks(s)

NextV10 ==
  \/ FeedTask \/ FeedEnds \/ CloseWork("exit") \/ ExitAcceptor
  \/ \E s \in Servers : Joining(s) \/ TakeTask(s) \/ CallThenDone(s) \/ CallFails(s)
                          \/ Requeue(s) \/ WorkClosed(s) \/ WaitTasks(s)

Next ==
  /\ \/ version = 3 /\ NextV3
     \/ version = 4 /\ NextV4
     \/ version = 5 /\ NextV5
     \/ version = 6 /\ NextV6
     \/ version = 7 /\ NextV7
     \/ version = 8 /\ NextV8
     \/ version = 9 /\ NextV9
     \/ version = 10 /\ NextV10
  /\ UNCHANGED <<version, numTask>>

-----------------------------------------------------------------------------
(* Types of the channels and of the goroutines' locals. *)
TypeOK ==
  /\ version \in Versions
  /\ numTask \in 0 .. MaxTask
  /\ main \in {"run", "recv", "exit", "returned"}
  /\ {feeding, closed} \subseteq BOOLEAN
  /\ next \in 0 .. numTask
  /\ got \in 0 .. numTask + Cardinality(Servers)
  /\ work \in Seq(Tasks) /\ Len(work) <= numTask
  /\ acceptor \in {"run", "ended"}
  /\ worker \in [Servers -> WorkerStates]
  /\ task \in [Servers -> Tasks \cup {0}]
  /\ ran \in [Tasks -> Nat]
  /\ failures \in 0 .. MaxFailures

Holders(k) == {s \in Servers : worker[s] \in {"call", "requeue"} /\ task[s] = k}

(* A task is still to be sent, in the buffer, with exactly one server, or  *)
(* has succeeded once: none is lost or run twice, retries included         *)
(* (runTasks of every version).                                            *)
EachTaskOnce ==
  \A k \in Tasks :
    (IF k >= next THEN 1 ELSE 0) + Cardinality({i \in DOMAIN work : work[i] = k})
      + Cardinality(Holders(k)) + ran[k] = 1

(* The final loops wait for the tasks (comment at line 64: "wait for all   *)
(* tasks to complete"): when the function returns, every task has run.     *)
(* The final loop of V4 counts the servers left in the channel, none when  *)
(* all have been accepted, and does not wait.                              *)
ReturnsWhenDone ==
  main = "returned" /\ version # 4 => \A k \in Tasks : ran[k] = 1

(* The comments at lines 164 and 165: V5 deadlocks when there are fewer    *)
(* servers than tasks.                                                     *)
DeadlocksWithFewServers ==
  version = 5 /\ Cardinality(Servers) < numTask => main # "returned"

(* The comments at lines 269 and 304: with a buffer of numTask, a send on  *)
(* work never blocks, and (V9, V10) a task that is put back finds room and *)
(* an open channel, or the send would panic.                               *)
SendNeverBlocks ==
  version >= 8 =>
    /\ feeding /\ next < numTask => Len(work) < WorkCap /\ ~closed
    /\ \A s \in Servers : worker[s] = "requeue" => Len(work) < WorkCap /\ ~closed

(* The scheduler returns, whenever the servers join and however often the  *)
(* calls of V9 and V10 fail; V5 does when there are enough servers.        *)
EventuallyReturns ==
  version >= 3 /\ (version = 5 => numTask <= Cardinality(Servers)) => <>(main = "returned")

(* The comment at line 382: V10 leaks no goroutine. *)
NoGoroutineLeft ==
  version = 10 =>
    <>[](acceptor = "ended" /\ \A s \in Servers : worker[s] \in {"absent", "queued", "ended"})
=============================================================================
