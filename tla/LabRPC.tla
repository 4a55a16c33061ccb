------------------------------- MODULE LabRPC -------------------------------
(***************************************************************************)
(* The simulated network of MIT-6.5840 labrpc/labrpc.go.  ClientEnd.Call   *)
(* hands a request to the goroutine of MakeNetwork, which starts a         *)
(* goroutine processReq for it; processReq looks up the server, runs the   *)
(* handler in a goroutine of its own, waits for it or for the deletion of  *)
(* the server, and answers the caller.  Every access to the maps of        *)
(* Network takes rn.mu and is one step.                                    *)
(*                                                                         *)
(* A Server object is a number, 0 is nil.  Delays (short delays, long      *)
(* delays, long reordering) are the freedom of the steps to wait; the      *)
(* encoding of arguments and the RPC statistics are left out.              *)
(***************************************************************************)
EXTENDS Naturals, FiniteSets

CONSTANTS
  Requests,       \* the Calls that are made
  Ends,           \* endnames
  Names,          \* servernames
  NilName,        \* connections[e] before Connect
  Objects         \* Server objects; 0 is nil and is one of them

ASSUME LabRPCAssumption ==
  /\ NilName \notin Names
  /\ 0 \in Objects

VARIABLES
  reliable, ends, enabled, connections, servers, done,  \* Network
  serving,    \* the goroutine of MakeNetwork is in its loop
  pc,         \* pc[r]: where Call and processReq of request r are
  endname,    \* req.endname
  snap,       \* processReq's servername, server and reliable
  handler,    \* the goroutine that dispatches r
  replyOK,    \* processReq's replyOK
  result,     \* the value Call returns
  ran         \* history: times the handler has run r

netVars == <<reliable, ends, enabled, connections, servers, done, serving>>
callVars == <<pc, endname, snap, handler, replyOK, result, ran>>

NoSnap == [name |-> NilName, server |-> 0, reliable |-> TRUE]

CallInit ==
  /\ pc = [r \in Requests |-> "idle"]
  /\ endname = [r \in Requests |-> CHOOSE e \in Ends : TRUE]
  /\ snap = [r \in Requests |-> NoSnap]
  /\ handler = [r \in Requests |-> "none"]
  /\ replyOK = [r \in Requests |-> FALSE]
  /\ result = [r \in Requests |-> FALSE]
  /\ ran = [r \in Requests |-> 0]

Goto(r, from, to) ==
  /\ pc[r] = from
  /\ pc' = [pc EXCEPT ![r] = to]

Answer(r, ok) ==
  /\ result' = [result EXCEPT ![r] = ok]
  /\ pc' = [pc EXCEPT ![r] = "reply"]

-----------------------------------------------------------------------------
(* ClientEnd.Call, up to the select. *)
Call(r, e) ==
  /\ e \in ends
  /\ Goto(r, "idle", "send")
  /\ endname' = [endname EXCEPT ![r] = e]
  /\ UNCHANGED <<netVars, snap, handler, replyOK, result, ran>>

(* The goroutine of MakeNetwork receives the request.  After Cleanup its   *)
(* select may still prefer endCh, until it has taken <-rn.done.            *)
Accept(r) ==
  /\ serving
  /\ Goto(r, "send", "read")
  /\ UNCHANGED <<netVars, endname, snap, handler, replyOK, result, ran>>

(* Plausible slip: Call sends on e.ch without the select. *)
CallWithoutDone(r) == FALSE

(* Call's select takes <-e.done. *)
CallDestroyed(r) ==
  /\ done
  /\ Goto(r, "send", "returned")
  /\ result' = [result EXCEPT ![r] = FALSE]
  /\ UNCHANGED <<netVars, endname, snap, handler, replyOK, ran>>

(* readEndnameInfo, and the else branch of processReq. *)
ReadEndnameInfo(r) ==
  LET e == endname[r]
      name == connections[e]
      up == enabled[e] /\ name # NilName /\ servers[name] # 0
  IN /\ pc[r] = "read"
     /\ IF up
        THEN /\ pc' = [pc EXCEPT ![r] = "deliver"]
             /\ snap' = [snap EXCEPT ![r] =
                          [name |-> name, server |-> servers[name], reliable |-> reliable]]
             /\ UNCHANGED result
        ELSE Answer(r, FALSE) /\ UNCHANGED snap
     /\ UNCHANGED <<netVars, endname, handler, replyOK, ran>>

(* An unreliable network drops the request. *)
DropRequest(r) ==
  /\ pc[r] = "deliver" /\ ~snap[r].reliable
  /\ Answer(r, FALSE)
  /\ UNCHANGED <<netVars, endname, snap, handler, replyOK, ran>>

(* go func() { r := server.dispatch(req); ech <- r }() *)
Dispatch(r) ==
  /\ Goto(r, "deliver", "wait")
  /\ handler' = [handler EXCEPT ![r] = "running"]
  /\ UNCHANGED <<netVars, endname, snap, replyOK, result, ran>>

(* Server.dispatch and Service.dispatch: the method runs. *)
Handle(r) ==
  /\ handler[r] = "running"
  /\ handler' = [handler EXCEPT ![r] = "sending"]
  /\ ran' = [ran EXCEPT ![r] = @ + 1]
  /\ UNCHANGED <<netVars, pc, endname, snap, replyOK, result>>

(* case reply = <-ech *)
HandlerReplies(r) ==
  /\ handler[r] = "sending"
  /\ Goto(r, "wait", "check")
  /\ handler' = [handler EXCEPT ![r] = "ended"]
  /\ replyOK' = [replyOK EXCEPT ![r] = TRUE]
  /\ UNCHANGED <<netVars, endname, snap, result, ran>>

isServerDead(r) ==
  ~enabled[endname[r]] \/ servers[snap[r].name] # snap[r].server

(* Plausible slip: the goroutine that drains ech is not started. *)
GiveUpWithoutDrain(r) ==
  /\ Goto(r, "wait", "check")
  /\ isServerDead(r)
  /\ UNCHANGED <<netVars, endname, snap, handler, replyOK, result, ran>>

(* Plausible slip: only the end is looked at and not the server. *)
GiveUpLooksAtEnd(r) ==
  /\ Goto(r, "wait", "check")
  /\ ~enabled[endname[r]]
  /\ handler' = [handler EXCEPT ![r] = IF @ = "running" THEN "orphan" ELSE "ended"]
  /\ UNCHANGED <<netVars, endname, snap, replyOK, result, ran>>

(* case <-time.After(100 * time.Millisecond), with the server dead: a new  *)
(* goroutine drains ech.  While the server is alive the loop goes on.      *)
GiveUp(r) ==
  /\ Goto(r, "wait", "check")
  /\ isServerDead(r)
  /\ handler' = [handler EXCEPT ![r] = IF @ = "running" THEN "orphan" ELSE "ended"]
  /\ UNCHANGED <<netVars, endname, snap, replyOK, result, ran>>

(* The handler of a dead server runs to its end and is drained. *)
HandleOrphan(r) ==
  /\ handler[r] = "orphan"
  /\ handler' = [handler EXCEPT ![r] = "ended"]
  /\ ran' = [ran EXCEPT ![r] = @ + 1]
  /\ UNCHANGED <<netVars, pc, endname, snap, replyOK, result>>

(* Plausible slip: the server is not looked at again. *)
CheckWithoutRecheck(r) ==
  /\ pc[r] = "check"
  /\ \E ok \in BOOLEAN :
       /\ ok => replyOK[r]
       /\ ~ok => ~replyOK[r] \/ ~snap[r].reliable
       /\ Answer(r, ok)
  /\ UNCHANGED <<netVars, endname, snap, handler, replyOK, ran>>

(* Plausible slip: a reply is dropped though the network is reliable. *)
CheckDropsAlways(r) ==
  /\ pc[r] = "check"
  /\ \E ok \in BOOLEAN :
       /\ ok => replyOK[r] /\ ~isServerDead(r)
       /\ Answer(r, ok)
  /\ UNCHANGED <<netVars, endname, snap, handler, replyOK, ran>>

(* The second isServerDead and the choice of the answer: a failure when    *)
(* the server is dead, a dropped reply when the network is unreliable, or  *)
(* the reply.                                                              *)
Check(r) ==
  /\ pc[r] = "check"
  /\ \E ok \in BOOLEAN :
       /\ ok => replyOK[r] /\ ~isServerDead(r)
       /\ ~ok => ~replyOK[r] \/ isServerDead(r) \/ ~snap[r].reliable
       /\ Answer(r, ok)
  /\ UNCHANGED <<netVars, endname, snap, handler, replyOK, ran>>

(* rep := <-req.replyCh: Call returns. *)
Return(r) ==
  /\ Goto(r, "reply", "returned")
  /\ UNCHANGED <<netVars, endname, snap, handler, replyOK, result, ran>>

processReq(r) ==
  \/ ReadEndnameInfo(r) \/ DropRequest(r) \/ Dispatch(r) \/ HandlerReplies(r)
  \/ GiveUp(r) \/ Check(r)

(* What the goroutines of a Call do on their own. *)
Progress(r) ==
  \/ Accept(r) \/ CallDestroyed(r) \/ processReq(r) \/ Return(r)

-----------------------------------------------------------------------------
(* MakeEnd and Connect for a set of new ends: end e talks to server to[e]. *)
(* "a ClientEnd can only be connected once in its lifetime."               *)
MakeEnds(E, to) ==
  /\ E \cap ends = {}
  /\ ends' = ends \cup E
  /\ enabled' = [e \in Ends |-> enabled[e] /\ e \notin E]
  /\ connections' = [e \in Ends |-> IF e \in E THEN to[e] ELSE connections[e]]
  /\ UNCHANGED <<reliable, servers, done, serving>>

AddServer(n, rs) ==
  /\ servers' = [servers EXCEPT ![n] = rs]
  /\ UNCHANGED <<reliable, ends, enabled, connections, done, serving>>

DeleteServer(n) ==
  /\ servers' = [servers EXCEPT ![n] = 0]
  /\ UNCHANGED <<reliable, ends, enabled, connections, done, serving>>

Enable(e, b) ==
  /\ enabled' = [enabled EXCEPT ![e] = b]
  /\ UNCHANGED <<reliable, ends, connections, servers, done, serving>>

Reliable(yes) ==
  /\ reliable' = yes
  /\ UNCHANGED <<ends, enabled, connections, servers, done, serving>>

Cleanup ==
  /\ ~done
  /\ done' = TRUE
  /\ UNCHANGED <<reliable, ends, enabled, connections, servers, serving>>

(* The goroutine of MakeNetwork takes <-rn.done and returns. *)
Stop ==
  /\ done /\ serving
  /\ serving' = FALSE
  /\ UNCHANGED <<reliable, ends, enabled, connections, servers, done>>

-----------------------------------------------------------------------------
NetTypeOK ==
  /\ {reliable, done, serving} \subseteq BOOLEAN
  /\ ends \subseteq Ends
  /\ enabled \in [Ends -> BOOLEAN]
  /\ connections \in [Ends -> Names \cup {NilName}]
  /\ servers \in [Names -> Objects]

CallTypeOK ==
  /\ pc \in [Requests -> {"idle", "send", "read", "deliver", "wait", "check", "reply",
                          "returned"}]
  /\ endname \in [Requests -> Ends]
  /\ snap \in [Requests -> [name : Names \cup {NilName}, server : Objects,
                            reliable : BOOLEAN]]
  /\ handler \in [Requests -> {"none", "running", "sending", "orphan", "ended"}]
  /\ {replyOK, result} \subseteq [Requests -> BOOLEAN]
  /\ ran \in [Requests -> 0 .. 1]
=============================================================================
