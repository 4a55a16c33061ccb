---------------------------- MODULE BoundedFIFO ----------------------------
(***************************************************************************)
(* What the shared buffer of CMU15-213/25-sync-advanced promises its       *)
(* callers ("an empty, bounded, shared FIFO buffer with n slots", sbuf.c): *)
(* an insert appends one item to a queue of at most n items, a removal     *)
(* hands the oldest item to exactly one remover.  Every operation is one   *)
(* step here; module Sbuf shows that the semaphore code implements it.     *)
(***************************************************************************)
EXTENDS Naturals, Sequences

CONSTANTS N, Producers, Consumers, Items, NoItem

VARIABLES
  queue,      \* items inserted and not yet removed, oldest first
  got         \* got[c]: the item remover c took last

fifoVars == <<queue, got>>

FIFOInit ==
  /\ queue = <<>>
  /\ got = [c \in Consumers |-> NoItem]

Insert(x) ==
  /\ Len(queue) < N
  /\ queue' = Append(queue, x)
  /\ UNCHANGED got

Remove(c) ==
  /\ queue # <<>>
  /\ queue' = Tail(queue)
  /\ got' = [got EXCEPT ![c] = Head(queue)]

FIFONext ==
  \/ \E x \in Items : Insert(x)
  \/ \E c \in Consumers : Remove(c)

FIFOSpec == FIFOInit /\ [][FIFONext]_fifoVars
=============================================================================
