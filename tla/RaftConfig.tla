----------------------------- MODULE RaftConfig -----------------------------
(***************************************************************************)
(* The crash and restart machinery of MIT-6.5840 raft/config.go and        *)
(* raft/persister.go on top of LabRPC.  The tester cannot stop the         *)
(* goroutines of a Raft instance: crash1 disconnects it, deletes its       *)
(* server, copies its Persister and calls Kill(); start1 does all that and *)
(* starts an instance with fresh ClientEnds.  Old instances go on calling  *)
(* and handling requests.                                                  *)
(*                                                                         *)
(* Instance k is the k-th one that Make returns, and its labrpc.Server     *)
(* object is k.  Its ClientEnd for peer j is <<k, j>>.  The handler of a   *)
(* request persists it in its instance's Persister; the request stands for *)
(* whatever a positive reply promises.  The tester's functions run one     *)
(* after the other.                                                        *)
(***************************************************************************)
EXTENDS LabRPC, Sequences

CONSTANTS
  N,              \* cfg.n
  MaxInstances    \* bound: instances that are started

Instances == 1 .. MaxInstances

ASSUME RaftConfigAssumption ==
  /\ N \in Nat \ {0} /\ MaxInstances \in Nat /\ N <= MaxInstances
  /\ Names = 1 .. N
  /\ Ends = Instances \X Names
  /\ Objects = 0 .. MaxInstances

VARIABLES
  instances,    \* instances started so far
  owner,        \* owner[k]: the server that k is an instance of
  current,      \* current[i]: the instance whose ends are cfg.endnames[i]
  rafts,        \* cfg.rafts[i], 0 is nil
  connected,    \* servers with cfg.connected
  stored,       \* stored[k]: what instance k's Persister holds
  saved,        \* content of cfg.saved[i] while no instance holds that object
  attached,     \* the instance that holds the object cfg.saved[i], or 0
  tester,       \* the function the tester is in, its server and its step
  todo,         \* ends that connect or disconnect has still to set, in order
  late,         \* history: requests made by an instance after its crash1
  fault         \* history: requests that met a fault while under way

cfgVars == <<instances, owner, current, rafts, connected, stored, saved, attached, tester,
             todo>>
vars == <<netVars, callVars, cfgVars, late, fault>>

Idle == [fn |-> "none", i |-> 1, at |-> "idle"]

(* make_config: one instance per server, everyone connected. *)
Init ==
  /\ CallInit
  /\ reliable = TRUE /\ done = FALSE /\ serving = TRUE
  /\ ends = {e \in Ends : e[1] <= N}
  /\ enabled = [e \in Ends |-> e \in ends]
  /\ connections = [e \in Ends |-> IF e \in ends THEN e[2] ELSE NilName]
  /\ servers = [i \in Names |-> i]
  /\ instances = N
  /\ owner = [k \in Instances |-> IF k <= N THEN k ELSE 0]
  /\ current = [i \in Names |-> i]
  /\ rafts = [i \in Names |-> i]
  /\ connected = Names
  /\ stored = [k \in Instances |-> {}]
  /\ saved = [i \in Names |-> {}]
  /\ attached = [i \in Names |-> i]
  /\ tester = Idle
  /\ todo = <<>>
  /\ late = {}
  /\ fault = {}

(* The outgoing ends of i and then its incoming ones. *)
EndsOf(i) == [j \in 1 .. N |-> <<current[i], j>>] \o [j \in 1 .. N |-> <<current[j], i>>]

(* What cfg.saved[i] holds. *)
Content(i) == IF attached[i] = 0 THEN saved[i] ELSE stored[attached[i]]

-----------------------------------------------------------------------------
(* disconnect(i), alone or as the first call of crash1(i) and start1(i). *)
Disconnect(fn, i) ==
  /\ tester.at = "idle"
  /\ connected' = connected \ {i}
  /\ todo' = EndsOf(i)
  /\ tester' = [fn |-> fn, i |-> i, at |-> "disable"]
  /\ UNCHANGED <<netVars, callVars, instances, owner, current, rafts, stored, saved, attached,
                 late>>

(* Plausible slip: connect does not ask whether the peer is connected. *)
ConnectToAll(i) ==
  /\ tester.at = "idle" /\ rafts[i] # 0
  /\ connected' = connected \cup {i}
  /\ todo' = EndsOf(i)
  /\ tester' = [fn |-> "connect", i |-> i, at |-> "enable"]
  /\ UNCHANGED <<netVars, callVars, instances, owner, current, rafts, stored, saved, attached,
                 late>>

(* connect(i); the tests connect servers that run. *)
Connect(i) ==
  /\ tester.at = "idle" /\ rafts[i] # 0
  /\ connected' = connected \cup {i}
  /\ todo' = SelectSeq(EndsOf(i), LAMBDA e : \E j \in connected' :
                                               e \in {<<current[i], j>>, <<current[j], i>>})
  /\ tester' = [fn |-> "connect", i |-> i, at |-> "enable"]
  /\ UNCHANGED <<netVars, callVars, instances, owner, current, rafts, stored, saved, attached,
                 late>>

(* One cfg.net.Enable of connect or disconnect. *)
EnableOne ==
  /\ tester.at \in {"enable", "disable"}
  /\ Enable(Head(todo), tester.at = "enable")
  /\ todo' = Tail(todo)
  /\ tester' = IF todo' # <<>> THEN tester
               ELSE IF tester.fn \in {"crash1", "start1"} THEN [tester EXCEPT !.at = "delete"]
               ELSE Idle
  /\ UNCHANGED <<callVars, instances, owner, current, rafts, connected, stored, saved, attached,
                 late>>

(* crash1: cfg.net.DeleteServer(i). *)
Delete ==
  /\ tester.at = "delete"
  /\ DeleteServer(tester.i)
  /\ tester' = [tester EXCEPT !.at = "copy"]
  /\ UNCHANGED <<callVars, instances, owner, current, rafts, connected, stored, saved, attached,
                 todo, late>>

(* crash1: cfg.saved[i] = cfg.saved[i].Copy(). *)
Copy ==
  /\ tester.at = "copy"
  /\ saved' = [saved EXCEPT ![tester.i] = Content(tester.i)]
  /\ attached' = [attached EXCEPT ![tester.i] = 0]
  /\ tester' = [tester EXCEPT !.at = "kill"]
  /\ UNCHANGED <<netVars, callVars, instances, owner, current, rafts, connected, stored, todo, late>>

(* crash1: rf.Kill(), which sets a flag of the instance, cfg.rafts[i] = nil *)
(* and one more fresh Persister.                                           *)
Kill ==
  /\ tester.at = "kill"
  /\ rafts' = [rafts EXCEPT ![tester.i] = 0]
  /\ tester' = IF tester.fn = "start1" THEN [tester EXCEPT !.at = "make"] ELSE Idle
  /\ UNCHANGED <<netVars, callVars, instances, owner, current, connected, stored, saved, attached,
                 todo, late>>

(* Plausible slip: the names of the ends are not changed. *)
MakeWithOldEnds ==
  LET k == instances + 1
  IN /\ tester.at = "make"
     /\ instances' = k
     /\ owner' = [owner EXCEPT ![k] = tester.i]
     /\ stored' = [stored EXCEPT ![k] = Content(tester.i)]
     /\ attached' = [attached EXCEPT ![tester.i] = k]
     /\ rafts' = [rafts EXCEPT ![tester.i] = k]
     /\ tester' = [tester EXCEPT !.at = "add"]
     /\ UNCHANGED <<netVars, callVars, current, connected, saved, todo, late>>

(* start1: fresh names and ends, a fresh copy of the Persister, Make. *)
Make ==
  LET k == instances + 1
  IN /\ tester.at = "make"
     /\ instances' = k
     /\ MakeEnds({k} \X Names, [e \in {k} \X Names |-> e[2]])
     /\ owner' = [owner EXCEPT ![k] = tester.i]
     /\ current' = [current EXCEPT ![tester.i] = k]
     /\ stored' = [stored EXCEPT ![k] = Content(tester.i)]
     /\ attached' = [attached EXCEPT ![tester.i] = k]
     /\ rafts' = [rafts EXCEPT ![tester.i] = k]
     /\ tester' = [tester EXCEPT !.at = "add"]
     /\ UNCHANGED <<callVars, connected, saved, todo, late>>

(* start1: a new labrpc.Server for the instance. *)
Add ==
  /\ tester.at = "add"
  /\ AddServer(tester.i, rafts[tester.i])
  /\ tester' = Idle
  /\ UNCHANGED <<callVars, instances, owner, current, rafts, connected, stored, saved, attached,
                 todo, late>>

(* setunreliable. *)
SetUnreliable ==
  /\ tester.at = "idle"
  /\ Reliable(~reliable)
  /\ UNCHANGED <<callVars, cfgVars, late>>

(* cleanup, the end of a test: Kill() for every instance, net.Cleanup(). *)
EndTest ==
  /\ tester.at = "idle"
  /\ Cleanup
  /\ tester' = [Idle EXCEPT !.at = "ended"]
  /\ UNCHANGED <<callVars, instances, owner, current, rafts, connected, stored, saved, attached,
                 todo, late>>

Tester ==
  \/ \E i \in Names : Disconnect("disconnect", i) \/ Disconnect("crash1", i) \/ Connect(i)
  \/ \E i \in Names : instances < MaxInstances /\ Disconnect("start1", i)
  \/ EnableOne \/ Delete \/ Copy \/ Kill \/ Make \/ Add \/ SetUnreliable \/ EndTest

-----------------------------------------------------------------------------
(* An instance, crashed or not, calls a peer. *)
PeerCalls(r, k, j) ==
  /\ j # owner[k]
  /\ Call(r, <<k, j>>)
  /\ late' = IF k # rafts[owner[k]] THEN late \cup {r} ELSE late
  /\ UNCHANGED cfgVars

(* The handler of r runs at its instance and persists. *)
HandlerRuns(r) ==
  /\ Handle(r) \/ HandleOrphan(r)
  /\ stored' = [stored EXCEPT ![snap[r].server] = @ \cup {r}]
  /\ UNCHANGED <<instances, owner, current, rafts, connected, saved, attached, tester,
                 todo, late>>

Network(r) == Progress(r) /\ UNCHANGED <<cfgVars, late>>

NetworkStops == Stop /\ UNCHANGED <<callVars, cfgVars, late>>

Faulty(r) ==
  LET e == endname[r]
  IN ~reliable \/ done \/ ~enabled[e] \/ servers[connections[e]] = 0

Next ==
  /\ \/ Tester \/ NetworkStops
     \/ \E r \in Requests :
          \/ Network(r) \/ HandlerRuns(r)
          \/ \E k \in 1 .. instances, j \in Names : PeerCalls(r, k, j)
  /\ fault' = {r \in Requests : pc'[r] # "idle" /\ (r \in fault \/ Faulty(r)')}

(* The goroutines of the network are scheduled; a handler may run for ever.*)
Spec ==
  /\ Init /\ [][Next]_vars
  /\ \A r \in Requests : WF_vars(Network(r) /\ Next)
  /\ WF_vars(NetworkStops /\ Next)

HandlersReturn == \A r \in Requests : WF_vars(HandlerRuns(r) /\ Next)

-----------------------------------------------------------------------------
(* Types of the network's, the calls' and the tester's state. *)
TypeOK ==
  /\ NetTypeOK /\ CallTypeOK
  /\ instances \in Instances
  /\ owner \in [Instances -> 0 .. N]
  /\ current \in [Names -> Instances]
  /\ {rafts, attached} \subseteq [Names -> 0 .. MaxInstances]
  /\ connected \subseteq Names
  /\ stored \in [Instances -> SUBSET Requests]
  /\ saved \in [Names -> SUBSET Requests]
  /\ tester \in [fn : {"none", "connect", "disconnect", "crash1", "start1"}, i : Names,
                  at : {"idle", "enable", "disable", "delete", "copy", "kill", "make", "add", "ended"}]
  /\ todo \in Seq(ends)
  /\ late \subseteq Requests /\ fault \subseteq Requests

(* labrpc.go 267 to 272, "this is needed to avoid situation in which a     *)
(* client gets a positive reply to an Append, but the server persisted the *)
(* update into the old Persister": what a Call has returned true for is in *)
(* cfg.saved, and the next instance will have it, whatever crash1 and      *)
(* start1 did while the call was under way.                                *)
AckedSurvives ==
  \A r \in Requests : result[r] => r \in Content(connections[endname[r]])

(* config.go 277, "so that old crashed instance's ClientEnds can't send":  *)
(* a request that an instance makes after its crash1 is never handled.     *)
OldEndsSilent == \A r \in late : ran[r] = 0

(* The state has its types and no request is handled twice.  At all times, *)
(* an end that connect or disconnect has not still to set is enabled       *)
(* exactly when it is the current one of a connected server and leads to a *)
(* connected server (connect, disconnect, crash1, start1).                 *)
EnabledMeansConnected ==
  /\ TypeOK
  /\ \A e \in ends \ {todo[n] : n \in DOMAIN todo} :
       enabled[e] <=> (\E i \in connected : e[1] = current[i]) /\ e[2] \in connected

(* labrpc.go 31, "Call() returns false if the network lost the request or  *)
(* reply or the server is down": a call that met no fault returns true.    *)
FalseOnlyOnFault ==
  \A r \in Requests \ fault : pc[r] = "returned" => result[r]

(* labrpc.go 37, "Call() is guaranteed to return (perhaps after a delay)   *)
(* *except* if the handler function on the server side does not return".   *)
EveryCallReturns ==
  HandlersReturn => \A r \in Requests : pc[r] = "send" ~> pc[r] = "returned"

(* processReq's polling: when the server has been deleted, the caller is   *)
(* answered even if the handler never returns.                             *)
DeadServerFreesCaller ==
  \A r \in Requests :
    (pc[r] = "wait" /\ servers[snap[r].name] # snap[r].server) ~> pc[r] = "returned"

(* The drain goroutine: no handler goroutine stays blocked on ech. *)
HandlersEnd ==
  HandlersReturn => \A r \in Requests : handler[r] = "running" ~> handler[r] = "ended"
=============================================================================
