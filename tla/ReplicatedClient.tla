-------------------------- MODULE ReplicatedClient --------------------------
(***************************************************************************)
(* Client.Call, CallV2 and CallV3 of                                       *)
(* 03_replicated_service_client/client.go, called by several goroutines.   *)
(* An attempt is a goroutine that calls one server and sends the result on *)
(* the call's buffered channel done; the caller waits for a result or for  *)
(* its timer and then tries the next server.  CallV3 starts with the       *)
(* server that answered last, which all callers share under c.mu.          *)
(*                                                                         *)
(* Servers in down never answer.  A call leaves its late attempts behind:  *)
(* their channel is unreachable once the call has returned.                *)
(***************************************************************************)
EXTENDS Integers, Sequences, FiniteSets

CONSTANTS
  Callers,      \* goroutines that use the client
  NumServers,   \* len(c.servers)
  Versions,     \* the versions to be checked: 1 is Call, 2 CallV2, 3 CallV3
  Downs,        \* the sets of servers that may be down
  MaxCalls      \* bound: calls of each goroutine

ASSUME ReplicatedClientAssumption ==
  /\ NumServers \in Nat \ {0, 1}
  /\ Versions \subseteq {1, 2, 3}
  /\ Downs \subseteq SUBSET (0 .. NumServers - 1)
  /\ MaxCalls \in Nat

Ids == 0 .. NumServers - 1
NoReply == -1

VARIABLES
  version,    \* the version that is called
  down,       \* indices of the servers that never answer
  prefer,     \* c.prefer
  pc,         \* "idle", "select", "final", "done" or "returned"
  off,        \* off[g]: attempts started after the first
  base,       \* base[g]: the local copy of prefer
  asked,      \* asked[g]: attempts of this call, in order
  flying,     \* flying[g]: attempts that have not sent their result
  done,       \* done[g]: results in the channel, oldest first
  reply,      \* reply[g]: whose reply the call returns
  calls       \* calls[g]: calls begun

vars == <<version, down, prefer, pc, off, base, asked, flying, done, reply, calls>>

Init ==
  /\ version \in Versions
  /\ down \in Downs
  /\ prefer = 0
  /\ pc = [g \in Callers |-> "idle"]
  /\ off = [g \in Callers |-> 0]
  /\ base = [g \in Callers |-> 0]
  /\ asked = [g \in Callers |-> <<>>]
  /\ flying = [g \in Callers |-> {}]
  /\ done = [g \in Callers |-> <<>>]
  /\ reply = [g \in Callers |-> NoReply]
  /\ calls = [g \in Callers |-> 0]

(* A call begins with a fresh channel and one attempt. *)
Begin(g, first, from) ==
  /\ pc[g] \in {"idle", "returned"} /\ calls[g] < MaxCalls
  /\ calls' = [calls EXCEPT ![g] = @ + 1]
  /\ pc' = [pc EXCEPT ![g] = "select"]
  /\ off' = [off EXCEPT ![g] = 0]
  /\ base' = [base EXCEPT ![g] = from]
  /\ asked' = [asked EXCEPT ![g] = <<first>>]
  /\ flying' = [flying EXCEPT ![g] = {first}]
  /\ done' = [done EXCEPT ![g] = <<>>]
  /\ reply' = [reply EXCEPT ![g] = NoReply]
  /\ UNCHANGED prefer

BeginV1(g) == Begin(g, 1, 0)
BeginV2(g) == Begin(g, 0, 0)
BeginV3(g) == Begin(g, prefer, prefer)

(* callOne returns in an attempt's goroutine, which sends the result. *)
Answer(g, id, cap) ==
  /\ id \in flying[g] \ down
  /\ Len(done[g]) < cap
  /\ flying' = [flying EXCEPT ![g] = @ \ {id}]
  /\ done' = [done EXCEPT ![g] = Append(@, id)]
  /\ UNCHANGED <<prefer, pc, off, base, asked, reply, calls>>

(* A result is received in a select or in the final receive. *)
Receive(g, at, to) ==
  /\ pc[g] \in at /\ done[g] # <<>>
  /\ reply' = [reply EXCEPT ![g] = Head(done[g])]
  /\ done' = [done EXCEPT ![g] = Tail(@)]
  /\ pc' = [pc EXCEPT ![g] = to]
  /\ UNCHANGED <<prefer, off, base, asked, flying, calls>>

(* Call: the timer fires, and the call waits for the one attempt. *)
TimeoutV1(g) ==
  /\ pc[g] = "select"
  /\ pc' = [pc EXCEPT ![g] = "final"]
  /\ UNCHANGED <<prefer, off, base, asked, flying, done, reply, calls>>

(* The timer fires: the loop tries server id, or ends at label end. *)
TryNext(g, id, end) ==
  /\ pc[g] = "select"
  /\ off' = [off EXCEPT ![g] = @ + 1]
  /\ \/ /\ off[g] + 1 < NumServers
        /\ asked' = [asked EXCEPT ![g] = Append(@, id)]
        /\ flying' = [flying EXCEPT ![g] = @ \cup {id}]
        /\ UNCHANGED pc
     \/ /\ off[g] + 1 = NumServers
        /\ pc' = [pc EXCEPT ![g] = end]
        /\ UNCHANGED <<asked, flying>>
  /\ UNCHANGED <<prefer, base, done, reply, calls>>

(* Plausible slip: CallV2 gives up when the last timer fires. *)
TimeoutV2GivesUp(g) == TryNext(g, off[g] + 1, "returned")

TimeoutV2(g) == TryNext(g, off[g] + 1, "final")

(* Plausible slip: the shared c.prefer in place of the local copy. *)
TimeoutV3Shared(g) == TryNext(g, (prefer + off[g] + 1) % NumServers, "done")

(* Plausible slip: no t.Reset(timeout). *)
TimeoutV3NoReset(g) == off[g] = 0 /\ TryNext(g, (base[g] + off[g] + 1) % NumServers, "done")

TimeoutV3(g) == TryNext(g, (base[g] + off[g] + 1) % NumServers, "done")

(* Label Done: c.prefer = r.serverId, which is 0 when no result came. *)
RememberV3(g) ==
  /\ pc[g] = "done"
  /\ prefer' = IF reply[g] = NoReply THEN 0 ELSE reply[g]
  /\ pc' = [pc EXCEPT ![g] = "returned"]
  /\ UNCHANGED <<off, base, asked, flying, done, reply, calls>>

-----------------------------------------------------------------------------
(* Plausible slip: the channels of CallV2 and CallV3 have room for one. *)
DoneCapOne == 1

(* The capacity of done. *)
DoneCap == IF version = 1 THEN 1 ELSE NumServers

StepV1(g) == BeginV1(g) \/ TimeoutV1(g) \/ Receive(g, {"select", "final"}, "returned")
StepV2(g) == BeginV2(g) \/ TimeoutV2(g) \/ Receive(g, {"select", "final"}, "returned")
StepV3(g) == BeginV3(g) \/ TimeoutV3(g) \/ Receive(g, {"select"}, "done") \/ RememberV3(g)

Step(g) ==
  /\ \/ version = 1 /\ StepV1(g)
     \/ version = 2 /\ StepV2(g)
     \/ version = 3 /\ StepV3(g)
  /\ UNCHANGED <<version, down>>

Attempt(g, id) ==
  /\ Answer(g, id, DoneCap)
  /\ UNCHANGED <<version, down>>

Next == \E g \in Callers : Step(g) \/ \E id \in Ids : Attempt(g, id)

(* Every goroutine is scheduled, timers fire, servers that are up answer. *)
Spec ==
  /\ Init /\ [][Next]_vars
  /\ \A g \in Callers : WF_vars(Step(g)) /\ \A id \in Ids : WF_vars(Attempt(g, id))

-----------------------------------------------------------------------------
(* Types of the client's field and of the callers' locals. *)
TypeOK ==
  /\ prefer \in Ids
  /\ pc \in [Callers -> {"idle", "select", "final", "done", "returned"}]
  /\ off \in [Callers -> 0 .. NumServers]
  /\ base \in [Callers -> Ids]
  /\ asked \in [Callers -> Seq(Ids)]
  /\ flying \in [Callers -> SUBSET Ids]
  /\ done \in [Callers -> Seq(Ids)]
  /\ reply \in [Callers -> Ids \cup {NoReply}]
  /\ calls \in [Callers -> 0 .. MaxCalls]

(* The state has its types.  A call asks every server at most once,        *)
(* whatever other callers do to c.prefer meanwhile, and has asked them all *)
(* when it stops trying (the loops of CallV2 and CallV3).                  *)
AsksEachOnce ==
  /\ TypeOK
  /\ \A g \in Callers :
       /\ \A i, j \in DOMAIN asked[g] : asked[g][i] = asked[g][j] => i = j
       /\ off[g] = NumServers => Len(asked[g]) = NumServers

(* An attempt whose call has stopped listening can still send its result   *)
(* and end: the buffer has room for all of them (make(chan result,         *)
(* len(c.servers))).                                                       *)
AttemptsNeverBlock ==
  \A g \in Callers : Len(done[g]) + Cardinality(flying[g]) <= DoneCap

(* A call returns the reply of a server that was asked, or (CallV3 only)   *)
(* the zero Reply after every server has been given its timeout.           *)
RepliesOrTriedAll ==
  \A g \in Callers : pc[g] = "returned" =>
    \/ reply[g] \in {asked[g][i] : i \in DOMAIN asked[g]}
    \/ version = 3 /\ off[g] = NumServers

(* If a server is available, CallV2 and CallV3 return; Call returns if     *)
(* server 1, the one it asks, is available.                                *)
EveryCallReturns ==
  (version = 1 => 1 \notin down) =>
     <>[](\A g \in Callers : pc[g] = "returned" /\ calls[g] = MaxCalls)
=============================================================================
