--------------------------- MODULE PubSubServers ----------------------------
(***************************************************************************)
(* The two servers of 01_publish_subscribe as implementations of one       *)
(* interface, PubSub.  Which of them runs is chosen initially.             *)
(*                                                                         *)
(* ServerV1 (server_v1.go) is a mutex around a set of channels.  Publish   *)
(* holds s.mu while it sends to one subscriber after the other.  Subscribe *)
(* and Cancel do not block while they hold s.mu and are one step each.     *)
(*                                                                         *)
(* In ServerV2 (server_v2.go) one goroutine, loopV2, owns the              *)
(* subscriptions and answers requests that arrive on channels; every       *)
(* subscriber has a goroutine helperV3 that queues its events.             *)
(* DrainsQueue selects the condition of helperV3's loop (line 149).  FALSE *)
(* is the committed one, in != nil && len(q) > 0, which is false when the  *)
(* helper starts.  TRUE is the loop that its body and the promises of      *)
(* pub_sub.go call for, in != nil || len(q) > 0, and lets the rest of the  *)
(* protocol be checked.                                                    *)
(*                                                                         *)
(* All channels are unbuffered: a send is a step of sender and receiver    *)
(* together.  Any goroutine may call Subscribe and Cancel at any time: a   *)
(* call at the wrong time panics and ends the run.  A channel may be       *)
(* subscribed again after its Cancel; a send on a closed channel and the   *)
(* closing of one panic too.                                               *)
(***************************************************************************)
EXTENDS PubSub, FiniteSets

CONSTANTS
  DrainsQueue,
  Renewed,      \* bound: the channels that V2's callers subscribe again
  MaxSubs       \* bound: how often they are subscribed

Free == "free"    \* nobody holds s.mu

ASSUME ServersAssumption ==
  /\ Free \notin Publishers
  /\ MaxEvents \in Nat
  /\ MaxSubs \in Nat \ {0, 1}
  /\ DrainsQueue \in BOOLEAN

VARIABLES
  server,     \* 1 or 2
  todo,       \* channels (V2: their helpers) the event has not been sent to yet
  sub,        \* s.sub; V2: the channels in the map sub
  sent,       \* sent[p]: events of p that the server has begun to publish
  panicked,   \* a goroutine has panicked
  mu,         \* V1: the publisher that holds s.mu, or Free
  loop,       \* V2: where loopV2 is, "select", "publish" or "reply"
  answer,     \* V2: what loopV2 is about to send on r.ok
  client,     \* V2: client[c]: the call on c that waits for r.ok, or "none"
  helper,     \* V2: helper[h]: "none", "running" or "done"
  in,         \* V2: in[h]: helper's input is "open", "closed" or "nil"
  q           \* V2: q[h]: helper's queue

v2Vars == <<loop, answer, client, helper, in, q>>
serverVars == <<server, pubSubVars, todo, sub, sent, panicked, mu, v2Vars>>

(* V2: the goroutine helperV3 of the k-th subscription of c is <<c, k>>,   *)
(* and its out is c.                                                       *)
Helpers == Channels \X (1 .. MaxSubs)

(* V2: the helper in the map sub, if there is one. *)
HelperOf(c) == <<c, subs[c]>>

ServersInit ==
  /\ server \in {1, 2}
  /\ PubSubInit
  /\ todo = {}
  /\ sub = {}
  /\ sent = [p \in Publishers |-> 0]
  /\ panicked = FALSE
  /\ mu = Free
  /\ loop = "select"
  /\ answer = FALSE
  /\ client = [c \in Channels |-> "none"]
  /\ helper = [h \in Helpers |-> "none"]
  /\ in = [h \in Helpers |-> "open"]
  /\ q = [h \in Helpers |-> <<>>]

(* The histories when c is registered and when it is deleted. *)
Registered(c) ==
  /\ subs' = [subs EXCEPT ![c] = @ + 1]
  /\ from' = [from EXCEPT ![c] = IF @ = Never THEN Len(log) ELSE @]

Deleted(c) == upto' = [upto EXCEPT ![c] = IF @ = Never THEN Len(log) ELSE @]

-----------------------------------------------------------------------------
(* ServerV1 *)

PublishLock(p) ==
  /\ mu = Free
  /\ Len(log) < MaxEvents
  /\ mu' = p
  /\ todo' = sub
  /\ sent' = [sent EXCEPT ![p] = @ + 1]
  /\ log' = Append(log, <<p, sent[p] + 1>>)
  /\ UNCHANGED <<subs, from, upto, got, closed, sub, panicked>>

(* c <- e: received by the subscriber's goroutine, or a panic. *)
PublishSend(p, c) ==
  /\ mu = p
  /\ c \in todo
  /\ todo' = todo \ {c}
  /\ panicked' = closed[c]
  /\ got' = IF closed[c] THEN got ELSE [got EXCEPT ![c] = Append(@, <<p, sent[p]>>)]
  /\ UNCHANGED <<log, subs, from, upto, closed, mu, sub, sent>>

(* Plausible slip: no deferred unlock. *)
PublishWithoutUnlock(p) ==
  /\ mu = p
  /\ todo = {}
  /\ UNCHANGED <<pubSubVars, mu, todo, sub, sent, panicked>>

PublishUnlock(p) ==
  /\ mu = p
  /\ todo = {}
  /\ mu' = Free
  /\ UNCHANGED <<pubSubVars, todo, sub, sent, panicked>>

SubscribeV1(c) ==
  /\ mu = Free
  /\ panicked' = (c \in sub)
  /\ sub' = sub \cup {c}
  /\ IF c \in sub THEN UNCHANGED <<subs, from>> ELSE Registered(c)
  /\ UNCHANGED <<log, upto, got, closed, mu, todo, sent>>

(* Plausible slip: Cancel closes the channel and leaves it in s.sub. *)
CancelWithoutDelete(c) ==
  /\ mu = Free
  /\ panicked' = (c \notin sub \/ closed[c])
  /\ IF c \in sub
     THEN closed' = [closed EXCEPT ![c] = TRUE] /\ Deleted(c)
     ELSE UNCHANGED <<closed, upto>>
  /\ UNCHANGED <<log, subs, from, got, mu, todo, sub, sent>>

CancelV1(c) ==
  /\ mu = Free
  /\ panicked' = (c \notin sub \/ closed[c])
  /\ IF c \in sub /\ ~closed[c]
     THEN closed' = [closed EXCEPT ![c] = TRUE] /\ sub' = sub \ {c} /\ Deleted(c)
     ELSE UNCHANGED <<closed, sub, upto>>
  /\ UNCHANGED <<log, subs, from, got, mu, todo, sent>>

PublishStep(p) ==
  /\ ~panicked
  /\ PublishLock(p) \/ PublishUnlock(p) \/ \E c \in Channels : PublishSend(p, c)

ServerV1Next ==
  \/ \E p \in Publishers : PublishStep(p)
  \/ /\ ~panicked
     /\ \E c \in Channels : SubscribeV1(c) \/ CancelV1(c)

-----------------------------------------------------------------------------
(* ServerV2: loopV2 and helperV3 *)

(* helperV3: the loop condition. *)
Looping(h) ==
  IF DrainsQueue THEN in[h] # "nil" \/ q[h] # <<>>
                 ELSE in[h] # "nil" /\ q[h] # <<>>

(* Publish: s.publish <- e, received in the select of loopV2. *)
PublishV2(p) ==
  /\ loop = "select"
  /\ Len(log) < MaxEvents
  /\ loop' = "publish"
  /\ todo' = sub
  /\ sent' = [sent EXCEPT ![p] = @ + 1]
  /\ log' = Append(log, <<p, sent[p] + 1>>)
  /\ UNCHANGED <<subs, from, upto, got, closed, answer, client, sub, helper, in, q, panicked>>

(* Plausible slip: the helper keeps only the event that has come last. *)
LoopSendOverwrite(c) ==
  LET h == HelperOf(c)
  IN /\ loop = "publish"
     /\ c \in todo
     /\ helper[h] = "running" /\ Looping(h) /\ in[h] = "open"
     /\ todo' = todo \ {c}
     /\ q' = [q EXCEPT ![h] = <<log[Len(log)]>>]
     /\ UNCHANGED <<pubSubVars, loop, answer, client, sub, sent, helper, in, panicked>>

(* loopV2 sends h <- e and the helper appends the event to its queue. *)
LoopSend(c) ==
  LET h == HelperOf(c)
  IN /\ loop = "publish"
     /\ c \in todo
     /\ helper[h] = "running" /\ Looping(h) /\ in[h] = "open"
     /\ todo' = todo \ {c}
     /\ q' = [q EXCEPT ![h] = Append(@, log[Len(log)])]
     /\ UNCHANGED <<pubSubVars, loop, answer, client, sub, sent, helper, in, panicked>>

LoopPublished ==
  /\ loop = "publish"
  /\ todo = {}
  /\ loop' = "select"
  /\ UNCHANGED <<pubSubVars, todo, answer, client, sub, sent, helper, in, q, panicked>>

(* Subscribe: s.subscribe <- r, and loopV2's case up to the send on r.ok.  *)
(* A call at the wrong time is answered false.                             *)
SubscribeV2(c) ==
  /\ loop = "select"
  /\ client[c] = "none"
  /\ client' = [client EXCEPT ![c] = "subscribe"]
  /\ loop' = "reply"
  /\ answer' = (c \notin sub)
  /\ \/ /\ c \in sub
        /\ UNCHANGED <<subs, from, sub, helper>>
     \/ /\ c \notin sub
        /\ subs[c] = 0 \/ (c \in Renewed /\ subs[c] < MaxSubs)
        /\ Registered(c)
        /\ sub' = sub \cup {c}
        /\ helper' = [helper EXCEPT ![<<c, subs[c] + 1>>] = "running"]
  /\ UNCHANGED <<log, upto, got, closed, todo, sent, in, q, panicked>>

(* Plausible slip: the helper's input is not closed. *)
CancelWithoutClose(c) ==
  /\ loop = "select"
  /\ client[c] = "none"
  /\ client' = [client EXCEPT ![c] = "cancel"]
  /\ loop' = "reply"
  /\ answer' = (c \in sub)
  /\ IF c \in sub THEN Deleted(c) ELSE UNCHANGED upto
  /\ sub' = sub \ {c}
  /\ UNCHANGED <<log, subs, from, got, closed, todo, sent, helper, in, q, panicked>>

(* Cancel: s.cancel <- r, and loopV2's case up to the send on r.ok. *)
CancelV2(c) ==
  /\ loop = "select"
  /\ client[c] = "none"
  /\ client' = [client EXCEPT ![c] = "cancel"]
  /\ loop' = "reply"
  /\ answer' = (c \in sub)
  /\ \/ /\ c \notin sub
        /\ UNCHANGED <<upto, sub, in>>
     \/ /\ c \in sub
        /\ Deleted(c)
        /\ sub' = sub \ {c}
        /\ in' = [in EXCEPT ![HelperOf(c)] = "closed"]
  /\ UNCHANGED <<log, subs, from, got, closed, todo, sent, helper, q, panicked>>

(* r.ok <- answer: the caller returns or panics. *)
LoopReply(c) ==
  /\ loop = "reply"
  /\ client[c] # "none"
  /\ client' = [client EXCEPT ![c] = "none"]
  /\ loop' = "select"
  /\ panicked' = ~answer
  /\ UNCHANGED <<pubSubVars, todo, answer, sub, sent, helper, in, q>>

-----------------------------------------------------------------------------

(* helperV3 finds its input closed and stops receiving from it. *)
HelperInputClosed(h) ==
  /\ helper[h] = "running" /\ Looping(h) /\ in[h] = "closed"
  /\ in' = [in EXCEPT ![h] = "nil"]
  /\ UNCHANGED <<pubSubVars, loop, todo, answer, client, sub, sent, helper, q, panicked>>

(* Plausible slip: the helper sends its newest event first. *)
HelperSendNewest(h) ==
  /\ helper[h] = "running" /\ Looping(h) /\ q[h] # <<>> /\ ~closed[h[1]]
  /\ got' = [got EXCEPT ![h[1]] = Append(@, q[h][Len(q[h])])]
  /\ q' = [q EXCEPT ![h] = SubSeq(@, 1, Len(@) - 1)]
  /\ UNCHANGED <<log, subs, from, upto, closed, loop, todo, answer, client, sub, sent,
                 helper, in, panicked>>

(* sendOut <- next, received by the subscriber's goroutine. *)
HelperSend(h) ==
  /\ helper[h] = "running" /\ Looping(h) /\ q[h] # <<>> /\ ~closed[h[1]]
  /\ got' = [got EXCEPT ![h[1]] = Append(@, Head(q[h]))]
  /\ q' = [q EXCEPT ![h] = Tail(@)]
  /\ UNCHANGED <<log, subs, from, upto, closed, loop, todo, answer, client, sub, sent,
                 helper, in, panicked>>

(* sendOut <- next on a closed channel panics. *)
HelperSendClosed(h) ==
  /\ helper[h] = "running" /\ Looping(h) /\ q[h] # <<>> /\ closed[h[1]]
  /\ panicked' = TRUE
  /\ UNCHANGED <<pubSubVars, loop, todo, answer, client, sub, sent, helper, in, q>>

(* The loop ends and the helper closes the subscriber's channel. *)
HelperExit(h) ==
  /\ helper[h] = "running" /\ ~Looping(h)
  /\ helper' = [helper EXCEPT ![h] = "done"]
  /\ panicked' = closed[h[1]]
  /\ closed' = [closed EXCEPT ![h[1]] = TRUE]
  /\ UNCHANGED <<log, subs, from, upto, got, loop, todo, answer, client, sub, sent, in, q>>

Server ==
  \/ LoopPublished
  \/ \E p \in Publishers : PublishV2(p)
  \/ \E c \in Channels : LoopSend(c) \/ LoopReply(c)
  \/ \E h \in Helpers : HelperInputClosed(h) \/ HelperSendClosed(h) \/ HelperExit(h)

ServerV2Next ==
  /\ ~panicked
  /\ \/ Server
     \/ \E c \in Channels : SubscribeV2(c) \/ CancelV2(c)
     \/ \E h \in Helpers : HelperSend(h)

-----------------------------------------------------------------------------
ServersNext ==
  /\ \/ server = 1 /\ ServerV1Next /\ UNCHANGED v2Vars
     \/ server = 2 /\ ServerV2Next /\ UNCHANGED mu
  /\ UNCHANGED server

(* V1: the publishers are scheduled, and every subscriber goes on          *)
(* receiving until its channel is closed.  V2: Go schedules the server's   *)
(* goroutines; nothing is assumed of the subscribers, which may stop       *)
(* receiving.                                                              *)
ServersFairness ==
  /\ \A p \in Publishers :
       WF_serverVars(server = 1 /\ PublishStep(p) /\ UNCHANGED <<v2Vars, server>>)
  /\ WF_serverVars(server = 2 /\ ~panicked /\ Server /\ UNCHANGED <<server, mu>>)

ServersSpec == ServersInit /\ [][ServersNext]_serverVars /\ ServersFairness

(* The subscribers of V2 go on receiving. *)
Receiving ==
  \A h \in Helpers : WF_serverVars(server = 2 /\ ~panicked /\ HelperSend(h) /\ UNCHANGED <<server, mu>>)

-----------------------------------------------------------------------------
(* Types of the servers' fields and locals, and of the histories. *)
ServerTypes ==
  /\ server \in {1, 2}
  /\ log \in Seq(Events)
  /\ subs \in [Channels -> 0 .. MaxSubs]
  /\ from \in [Channels -> Never .. Len(log)]
  /\ upto \in [Channels -> Never .. Len(log)]
  /\ got \in [Channels -> Seq(Events)]
  /\ closed \in [Channels -> BOOLEAN]
  /\ todo \subseteq sub
  /\ sub \subseteq Channels
  /\ sent \in [Publishers -> 0 .. MaxEvents]
  /\ panicked \in BOOLEAN
  /\ mu \in Publishers \cup {Free}
  /\ loop \in {"select", "publish", "reply"}
  /\ answer \in BOOLEAN
  /\ client \in [Channels -> {"none", "subscribe", "cancel"}]
  /\ helper \in [Helpers -> {"none", "running", "done"}]
  /\ in \in [Helpers -> {"open", "closed", "nil"}]
  /\ q \in [Helpers -> Seq(Events)]

(* A channel that V1 may send on or close (it is in s.sub), or a helper of *)
(* V2 (it runs), is open, whichever calls come before (Publish, Subscribe, *)
(* Cancel, helperV3); the send and the close would panic.  Only if the     *)
(* channel was subscribed again after its Cancel can it be closed.         *)
NoSendOnClosed ==
  \A c \in Channels \ Reused :
    (\/ server = 1 /\ c \in sub
     \/ \E k \in 1 .. MaxSubs : helper[<<c, k>>] = "running") => ~closed[c]

(* The state has its types, and every event published to c is received,    *)
(* queued or about to be sent or queued, in the order of publication       *)
(* (Publish, loopV2, helperV3), unless c is subscribed again.              *)
NothingLost ==
  /\ ServerTypes
  /\ \A c \in Channels \ Reused :
       got[c] \o q[<<c, 1>>] \o (IF c \in todo THEN <<log[Len(log)]>> ELSE <<>>) = Segment(c)

(* Both servers keep the promises of pub_sub.go on order, on delivery and  *)
(* on closing; a channel that is subscribed again after its Cancel does    *)
(* not disturb the others.                                                 *)
ImplementsPubSub == PubSubSpec

(* pub_sub.go, "After any pending already-published events have been sent  *)
(* on c, the server will signal that the subscription is cancelled by      *)
(* closing c": a closed channel is a cancelled one with nothing pending,   *)
(* unless it is subscribed again.                                          *)
ClosedMeansCancelled ==
  \A c \in Channels \ Reused : closed[c] => upto[c] # Never /\ got[c] = Segment(c)

(* Every Publish ends.  V1 (pub_sub.go, "publishes the event e to all      *)
(* current subscribers"): each current subscriber then has the event, if   *)
(* subscribers receive.  V2 (comment at line 64, a subscriber that is too  *)
(* slow): the event is handed to all helpers even if no subscriber ever    *)
(* receives.                                                               *)
EveryPublishReturns ==
  <>[](\/ panicked
       \/ /\ todo = {} /\ Len(log) = MaxEvents
          /\ server = 1 => mu = Free /\ \A c \in Channels \ Reused : got[c] = Segment(c))

(* A cancelled channel is eventually closed if its subscriber receives. *)
CancelledGetsClosed ==
  Receiving => <>[](panicked \/ \A c \in Channels : upto[c] # Never => closed[c])
=============================================================================
