------------------------------- MODULE PubSub -------------------------------
(***************************************************************************)
(* What the PubSub interface of                                            *)
(* Go-Concurrency-Patterns-and-Hints/01_publish_subscribe/pub_sub.go       *)
(* promises: one order of events for all subscribers, which respects each  *)
(* publisher's program order, and a channel that is closed only after the  *)
(* subscription is cancelled and every event published before the cancel   *)
(* has been sent.  Module PubSubServers implements it.                     *)
(*                                                                         *)
(* Nothing is promised of a channel that is subscribed again after its     *)
(* Cancel: the server has closed it or is about to.                        *)
(***************************************************************************)
EXTENDS Integers, Sequences, Functions

CONSTANTS
  Publishers,   \* goroutines that call Publish
  Channels,     \* subscribers' channels
  MaxEvents     \* bound: Publish calls

VARIABLES
  log,          \* events in the order in which they were published
  subs,         \* subs[c]: times that c was subscribed
  from,         \* from[c]: Len(log) when c was first subscribed, or Never
  upto,         \* upto[c]: Len(log) when c was first cancelled, or Never
  got,          \* got[c]: events received on c
  closed        \* closed[c]: the server has closed c

pubSubVars == <<log, subs, from, upto, got, closed>>

Never == -1
Events == Publishers \X (1 .. MaxEvents)

(* Channels that were subscribed again after their Cancel. *)
Reused == {c \in Channels : subs[c] > 1}

(* The events that c has to receive. *)
Segment(c) ==
  IF from[c] = Never THEN <<>>
  ELSE SubSeq(log, from[c] + 1, IF upto[c] = Never THEN Len(log) ELSE upto[c])

PubSubInit ==
  /\ log = <<>>
  /\ subs = [c \in Channels |-> 0]
  /\ from = [c \in Channels |-> Never]
  /\ upto = [c \in Channels |-> Never]
  /\ got = [c \in Channels |-> <<>>]
  /\ closed = [c \in Channels |-> FALSE]

Publish(p, k) ==
  /\ \A j \in 1 .. k - 1 : <<p, j>> \in Range(log)
  /\ log' = Append(log, <<p, k>>)
  /\ UNCHANGED <<subs, from, upto, got, closed>>

Subscribe(c) ==
  /\ from[c] = Never
  /\ subs' = [subs EXCEPT ![c] = 1]
  /\ from' = [from EXCEPT ![c] = Len(log)]
  /\ UNCHANGED <<log, upto, got, closed>>

SubscribeAgain(c) ==
  /\ upto[c] # Never
  /\ subs' = [subs EXCEPT ![c] = @ + 1]
  /\ UNCHANGED <<log, from, upto, got, closed>>

Deliver(c) ==
  /\ Len(got[c]) < Len(Segment(c))
  /\ got' = [got EXCEPT ![c] = Append(@, Segment(c)[Len(@) + 1])]
  /\ UNCHANGED <<log, subs, from, upto, closed>>

(* The channel may be closed at once when no event is pending. *)
Cancel(c) ==
  /\ from[c] # Never
  /\ upto[c] = Never
  /\ upto' = [upto EXCEPT ![c] = Len(log)]
  /\ \/ UNCHANGED closed
     \/ /\ got[c] = Segment(c)
        /\ closed' = [closed EXCEPT ![c] = TRUE]
  /\ UNCHANGED <<log, subs, from, got>>

Close(c) ==
  /\ upto[c] # Never
  /\ got[c] = Segment(c)
  /\ closed' = [closed EXCEPT ![c] = TRUE]
  /\ UNCHANGED <<log, subs, from, upto, got>>

(* What happens to a reused channel does not concern the others. *)
Misused(c) ==
  /\ c \in Reused
  /\ \A d \in Channels \ {c} : got'[d] = got[d] /\ closed'[d] = closed[d]
  /\ UNCHANGED <<log, subs, from, upto>>

PubSubNext ==
  \/ \E p \in Publishers, k \in 1 .. MaxEvents : Publish(p, k)
  \/ \E c \in Channels :
       Subscribe(c) \/ SubscribeAgain(c) \/ Deliver(c) \/ Cancel(c) \/ Close(c) \/ Misused(c)

PubSubSpec == PubSubInit /\ [][PubSubNext]_pubSubVars
=============================================================================
