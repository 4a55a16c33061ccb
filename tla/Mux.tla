--------------------------------- MODULE Mux ---------------------------------
(***************************************************************************)
(* The protocol multiplexer of 04_protocol_multiplexer/mux.go: many calls  *)
(* share one connection; sendLoop sends the requests, recvLoop hands each  *)
(* reply to the call that waits for its tag.                               *)
(*                                                                         *)
(* Init makes the map pending but never the channel m.send, so every send  *)
(* on it and every receive from it blocks.  SendMade = FALSE is the        *)
(* committed code; SendMade = TRUE has m.send = make(chan Msg) in Init and *)
(* lets the rest of the protocol be checked.                               *)
(*                                                                         *)
(* The remote service is external: it answers every request once, in any   *)
(* order.  Two concurrent calls with one tag make the second one panic.    *)
(***************************************************************************)
EXTENDS Naturals, Sequences, FiniteSets

CONSTANTS
  Callers,      \* goroutines that call Call
  Tags,         \* int64 tags
  Nobody,       \* no caller: a nil channel in pending
  MaxCalls,     \* bound: calls of each goroutine
  SendMade      \* m.send has been made

ASSUME MuxAssumption ==
  /\ Nobody \notin Callers
  /\ MaxCalls \in Nat
  /\ SendMade \in BOOLEAN

VARIABLES
  pending,    \* pending[t]: the caller whose channel is registered, or Nobody
  pc,         \* pc[g]: "idle", "send", "wait" or "panic"
  msg,        \* msg[g]: the request, <<tag, caller, number>>
  done,       \* done[g]: replies in the buffered channel of the call
  got,        \* got[g]: the replies that calls of g have returned, with msg
  sender,     \* sendLoop's request, or <<>>
  recv,       \* recvLoop's reply and the channel it found, or <<>>
  remote,     \* requests the service has not answered
  calls       \* calls[g]: calls begun

vars == <<pending, pc, msg, done, got, sender, recv, remote, calls>>

Tag(m) == m[1]    \* m.srv.ReadTag

Init ==
  /\ pending = [t \in Tags |-> Nobody]
  /\ pc = [g \in Callers |-> "idle"]
  /\ msg = [g \in Callers |-> <<>>]
  /\ done = [g \in Callers |-> <<>>]
  /\ got = [g \in Callers |-> {}]
  /\ sender = <<>>
  /\ recv = <<>>
  /\ remote = {}
  /\ calls = [g \in Callers |-> 0]

(* Plausible slip: the tag is not checked for a call under way. *)
RegisterUnchecked(g, t) ==
  /\ pc[g] = "idle" /\ calls[g] < MaxCalls
  /\ calls' = [calls EXCEPT ![g] = @ + 1]
  /\ msg' = [msg EXCEPT ![g] = <<t, g, calls[g]>>]
  /\ done' = [done EXCEPT ![g] = <<>>]
  /\ pending' = [pending EXCEPT ![t] = g]
  /\ pc' = [pc EXCEPT ![g] = "send"]
  /\ UNCHANGED <<got, sender, recv, remote>>

(* Call, up to m.mu.Unlock(). *)
Register(g, t) ==
  /\ pc[g] = "idle" /\ calls[g] < MaxCalls
  /\ calls' = [calls EXCEPT ![g] = @ + 1]
  /\ msg' = [msg EXCEPT ![g] = <<t, g, calls[g]>>]
  /\ done' = [done EXCEPT ![g] = <<>>]
  /\ \/ /\ pending[t] # Nobody
        /\ pc' = [pc EXCEPT ![g] = "panic"]
        /\ UNCHANGED pending
     \/ /\ pending[t] = Nobody
        /\ pending' = [pending EXCEPT ![t] = g]
        /\ pc' = [pc EXCEPT ![g] = "send"]
  /\ UNCHANGED <<got, sender, recv, remote>>

(* m.send <- args, received by sendLoop. *)
HandToSender(g) ==
  /\ SendMade
  /\ pc[g] = "send" /\ sender = <<>>
  /\ sender' = msg[g]
  /\ pc' = [pc EXCEPT ![g] = "wait"]
  /\ UNCHANGED <<pending, msg, done, got, recv, remote, calls>>

(* m.srv.Send(args) *)
SendToService ==
  /\ sender # <<>>
  /\ remote' = remote \cup {sender}
  /\ sender' = <<>>
  /\ UNCHANGED <<pending, pc, msg, done, got, recv, calls>>

(* recvLoop: Recv, ReadTag and the lookup under m.mu. *)
Recv(m) ==
  /\ recv = <<>> /\ m \in remote
  /\ remote' = remote \ {m}
  /\ recv' = <<m, pending[Tag(m)]>>
  /\ pending' = [pending EXCEPT ![Tag(m)] = Nobody]
  /\ UNCHANGED <<pc, msg, done, got, sender, calls>>

(* Plausible slip: a non-blocking send that drops the reply. *)
DeliverDropping ==
  /\ recv # <<>> /\ recv[2] # Nobody
  /\ \E d \in {<<>>, <<recv[1]>>} : done' = [done EXCEPT ![recv[2]] = d]
  /\ recv' = <<>>
  /\ UNCHANGED <<pending, pc, msg, got, sender, remote, calls>>

(* done <- reply; a reply nobody waits for panics, so recvLoop stays.      *)
Deliver ==
  /\ recv # <<>> /\ recv[2] # Nobody
  /\ done[recv[2]] = <<>>
  /\ done' = [done EXCEPT ![recv[2]] = <<recv[1]>>]
  /\ recv' = <<>>
  /\ UNCHANGED <<pending, pc, msg, got, sender, remote, calls>>

(* return <-done *)
Return(g) ==
  /\ pc[g] = "wait" /\ done[g] # <<>>
  /\ got' = [got EXCEPT ![g] = @ \cup {<<msg[g], done[g][1]>>}]
  /\ done' = [done EXCEPT ![g] = <<>>]
  /\ pc' = [pc EXCEPT ![g] = "idle"]
  /\ UNCHANGED <<pending, msg, sender, recv, remote, calls>>

RecvLoop == Deliver \/ \E m \in remote : Recv(m)

Next ==
  \/ \E g \in Callers : HandToSender(g) \/ Return(g) \/ \E t \in Tags : Register(g, t)
  \/ SendToService
  \/ RecvLoop

(* Every goroutine is scheduled and the service answers. *)
Spec ==
  /\ Init /\ [][Next]_vars
  /\ WF_vars(SendToService) /\ WF_vars(RecvLoop)
  /\ \A g \in Callers : SF_vars(HandToSender(g)) /\ WF_vars(Return(g))

-----------------------------------------------------------------------------
Messages == Tags \X Callers \X (0 .. MaxCalls)

(* Types of the map, of the loops' locals and of the callers' locals. *)
TypeOK ==
  /\ pending \in [Tags -> Callers \cup {Nobody}]
  /\ pc \in [Callers -> {"idle", "send", "wait", "panic"}]
  /\ msg \in [Callers -> Messages \cup {<<>>}]
  /\ done \in [Callers -> {<<>>} \cup {<<m>> : m \in Messages}]
  /\ got \in [Callers -> SUBSET (Messages \X Messages)]
  /\ sender \in Messages \cup {<<>>}
  /\ recv \in (Messages \X (Callers \cup {Nobody})) \cup {<<>>}
  /\ remote \subseteq Messages
  /\ calls \in [Callers -> 0 .. MaxCalls]

(* The state has its types, and the answer to a request goes to the call   *)
(* that made it, also when tags are reused by later calls (Call,           *)
(* recvLoop).                                                              *)
RepliesMatch == TypeOK /\ \A g \in Callers : \A r \in got[g] : r[1] = r[2]

(* recvLoop never meets a reply nobody waits for, so it never panics with  *)
(* "unexpected reply", and it never blocks on a call's channel.            *)
RecvLoopNeverStuck == recv # <<>> => recv[2] # Nobody /\ done[recv[2]] = <<>>

(* protocol_multiplexer.go, "Call makes a request with the given message   *)
(* and returns the reply".                                                 *)
EveryCallReturns == \A g \in Callers : pc[g] = "send" ~> pc[g] = "idle"
=============================================================================
