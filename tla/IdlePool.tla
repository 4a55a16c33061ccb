------------------------------ MODULE IdlePool ------------------------------
(***************************************************************************)
(* ScheduleFixedV1 and ScheduleFixedV2 of                                  *)
(* 02_work_scheduler/work_scheduler.go: the idle servers wait in a         *)
(* buffered channel, a goroutine runs one task on one server and puts the  *)
(* server back.  V1 starts a goroutine for every task, which then takes a  *)
(* server; V2 takes the server first, and waits for all of them at the end.*)
(***************************************************************************)
EXTENDS Naturals, Sequences, FiniteSets, SequencesExt

CONSTANTS
  Servers,      \* the servers
  MaxTask,      \* bound of numTask
  NoServer      \* a goroutine without a server

VARIABLES
  version,    \* 1 or 2
  numTask,    \* the argument numTask
  idle,       \* the buffered channel idle
  next,       \* next task of the main loop
  collected,  \* servers the final loop of V2 has received
  main,       \* "loop", "spawn" (V2 holds a server), "wait" or "returned"
  held,       \* V2: the server main has received for the next task
  pc,         \* pc[k]: "none", "idle", "call", "put" or "end"
  srv,        \* srv[k]: the server of task k's goroutine
  ran         \* ran[k]: number of calls made for task k

vars == <<version, numTask, idle, next, collected, main, held, pc, srv, ran>>

Tasks == 1 .. numTask

Start ==
  /\ idle = SetToSeq(Servers)
  /\ next = 1
  /\ collected = 0
  /\ main = "loop"
  /\ held = NoServer
  /\ pc = [k \in Tasks |-> "none"]
  /\ srv = [k \in Tasks |-> NoServer]
  /\ ran = [k \in Tasks |-> 0]

-----------------------------------------------------------------------------

(* V1: go func() for task next. *)
SpawnV1 ==
  /\ main = "loop" /\ next <= numTask
  /\ pc' = [pc EXCEPT ![next] = "idle"]
  /\ next' = next + 1
  /\ UNCHANGED <<idle, collected, main, held, srv, ran>>

(* V1: srv := <-idle in the goroutine of task k. *)
TakeV1(k) ==
  /\ pc[k] = "idle" /\ idle # <<>>
  /\ srv' = [srv EXCEPT ![k] = Head(idle)]
  /\ idle' = Tail(idle)
  /\ pc' = [pc EXCEPT ![k] = "call"]
  /\ UNCHANGED <<next, collected, main, held, ran>>

(* V1 returns without waiting for the goroutines. *)
ReturnV1 ==
  /\ main = "loop" /\ next > numTask
  /\ main' = "returned"
  /\ UNCHANGED <<idle, next, collected, held, pc, srv, ran>>

(* V2: srv := <-idle in the main loop. *)
TakeV2 ==
  /\ main = "loop" /\ next <= numTask /\ idle # <<>>
  /\ held' = Head(idle)
  /\ idle' = Tail(idle)
  /\ main' = "spawn"
  /\ UNCHANGED <<next, collected, pc, srv, ran>>

(* Plausible slip: idle <- srv follows the go statement, outside func(). *)
SpawnV2PutsBack ==
  /\ main = "spawn"
  /\ pc' = [pc EXCEPT ![next] = "call"]
  /\ srv' = [srv EXCEPT ![next] = held]
  /\ idle' = Append(idle, held)
  /\ held' = NoServer
  /\ next' = next + 1
  /\ main' = "loop"
  /\ UNCHANGED <<collected, ran>>

(* V2: go func() with the server just received. *)
SpawnV2 ==
  /\ main = "spawn"
  /\ pc' = [pc EXCEPT ![next] = "call"]
  /\ srv' = [srv EXCEPT ![next] = held]
  /\ held' = NoServer
  /\ next' = next + 1
  /\ main' = "loop"
  /\ UNCHANGED <<idle, collected, ran>>

(* V2: the loop that receives every server before it returns. *)
WaitV2 ==
  \/ /\ main = "loop" /\ next > numTask
     /\ main' = "wait"
     /\ UNCHANGED <<idle, next, collected, held, pc, srv, ran>>
  \/ /\ main = "wait" /\ collected < Cardinality(Servers) /\ idle # <<>>
     /\ idle' = Tail(idle)
     /\ collected' = collected + 1
     /\ UNCHANGED <<next, main, held, pc, srv, ran>>
  \/ /\ main = "wait" /\ collected = Cardinality(Servers)
     /\ main' = "returned"
     /\ UNCHANGED <<idle, next, collected, held, pc, srv, ran>>

-----------------------------------------------------------------------------
(* call(srv, task) returns. *)
Call(k) ==
  /\ pc[k] = "call"
  /\ ran' = [ran EXCEPT ![k] = @ + 1]
  /\ pc' = [pc EXCEPT ![k] = "put"]
  /\ UNCHANGED <<idle, next, collected, main, held, srv>>

(* idle <- srv: the channel has room for every server. *)
Put(k) ==
  /\ pc[k] = "put" /\ Len(idle) < Cardinality(Servers)
  /\ idle' = Append(idle, srv[k])
  /\ srv' = [srv EXCEPT ![k] = NoServer]
  /\ pc' = [pc EXCEPT ![k] = "end"]
  /\ UNCHANGED <<next, collected, main, held, ran>>

MainV1 == SpawnV1 \/ ReturnV1
MainV2 == TakeV2 \/ SpawnV2 \/ WaitV2

NextV1 == MainV1 \/ \E k \in Tasks : TakeV1(k) \/ Call(k) \/ Put(k)
NextV2 == MainV2 \/ \E k \in Tasks : Call(k) \/ Put(k)

Of(v, A) == version = v /\ A /\ UNCHANGED <<version, numTask>>

Next == Of(1, NextV1) \/ Of(2, NextV2)

(* The Go scheduler runs every goroutine that can run, every call to a     *)
(* server returns, and a receive that waits gets its turn.                 *)
Fairness ==
  /\ WF_vars(Of(1, MainV1) \/ Of(2, MainV2))
  /\ \A k \in 1 .. MaxTask :
       /\ SF_vars(Of(1, k \in Tasks /\ TakeV1(k)))
       /\ WF_vars(Of(version, k \in Tasks /\ (Call(k) \/ Put(k))))

-----------------------------------------------------------------------------
Running == {k \in Tasks : pc[k] \in {"call", "put"}}

(* Types of the channel and of the goroutines' locals. *)
TypeOK ==
  /\ idle \in Seq(Servers) /\ Len(idle) <= Cardinality(Servers)
  /\ next \in 1 .. numTask + 1
  /\ collected \in 0 .. Cardinality(Servers)
  /\ main \in {"loop", "spawn", "wait", "returned"}
  /\ held \in Servers \cup {NoServer}
  /\ pc \in [Tasks -> {"none", "idle", "call", "put", "end"}]
  /\ srv \in [Tasks -> Servers \cup {NoServer}]
  /\ ran \in [Tasks -> 0 .. 1]

(* A server is in the channel, with the main loop, with one goroutine, or  *)
(* received by the final loop of V2: no server is lost or runs two tasks   *)
(* at once, and at most one goroutine per server is running (the comment   *)
(* at line 57 on the number of goroutines).                                *)
OneTaskPerServer ==
  /\ \A s \in Servers :
       Cardinality({i \in DOMAIN idle : idle[i] = s})
         + Cardinality({k \in Running : srv[k] = s})
         + (IF held = s THEN 1 ELSE 0) <= 1
  /\ Len(idle) + Cardinality(Running) + collected
       + (IF held = NoServer THEN 0 ELSE 1) = Cardinality(Servers)

(* The comment at line 64 of V2, "wait for all tasks to complete". *)
ReturnsWhenDone ==
  version = 2 /\ main = "returned" => \A k \in Tasks : ran[k] = 1

(* Every task is run and the function returns. *)
AllTasksRun == <>(main = "returned" /\ \A k \in Tasks : ran[k] = 1)
=============================================================================
