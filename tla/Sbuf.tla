-------------------------------- MODULE Sbuf --------------------------------
(***************************************************************************)
(* The bounded buffer of CMU15-213/25-sync-advanced/sbuf.c: a ring of N    *)
(* slots, two cursors, a mutex and two counting semaphores.  Every P, V    *)
(* and memory access of sbuf_insert and sbuf_remove is a step of its own,  *)
(* so the steps of any number of inserting and removing threads interleave *)
(* in every way the semaphores allow.                                      *)
(*                                                                         *)
(* The cursors are C ints that are only ever incremented.  IntMax is the   *)
(* largest int; Succ wraps the way the compiled increment does, and CMod   *)
(* is C's remainder, which is negative for a negative dividend.            *)
(***************************************************************************)
EXTENDS Integers, Sequences, FiniteSets

CONSTANTS
  N,            \* number of slots
  Producers,    \* threads that call sbuf_insert
  Consumers,    \* threads that call sbuf_remove
  Items,        \* values that are inserted
  NoItem,       \* what an unwritten slot or an unset local holds
  IntMax,       \* largest value of a C int
  MaxInserts    \* bound: number of sbuf_insert calls of a behaviour

ASSUME SbufAssumption ==
  /\ N \in Nat \ {0}
  /\ IntMax \in Nat \ {0}
  /\ MaxInserts \in Nat
  /\ Producers \cap Consumers = {}
  /\ IsFiniteSet(Producers)
  /\ IsFiniteSet(Consumers)
  /\ NoItem \notin Items

VARIABLES
  buf,          \* sp->buf
  front,        \* sp->front
  rear,         \* sp->rear
  mutex,        \* sp->mutex
  slots,        \* sp->slots
  items,        \* sp->items
  pc,           \* where each thread is
  reg,          \* the incremented cursor a thread has in a register
  item,         \* the item argument or local of each thread
  inserts,      \* number of sbuf_insert calls so far
  fifo          \* history: items stored and not yet taken, oldest first

vars == <<buf, front, rear, mutex, slots, items, pc, reg, item, inserts, fifo>>

Threads == Producers \cup Consumers
Slot == 0 .. N - 1

InsertPCs == {"ins_lock", "ins_load", "ins_store", "ins_unlock", "ins_post"}
RemovePCs == {"rem_lock", "rem_load", "rem_store", "rem_unlock", "rem_post"}
StoringPCs == {"ins_lock", "ins_load", "ins_store"}   \* has a slot, not stored
StoredPCs == {"ins_unlock", "ins_post"}               \* stored, not announced
TakingPCs == {"rem_lock", "rem_load", "rem_store"}    \* has an item, not read
LockedPCs == {"ins_load", "ins_store", "ins_unlock",
              "rem_load", "rem_store", "rem_unlock"}  \* holds sp->mutex

Succ(i) == IF i = IntMax THEN -IntMax - 1 ELSE i + 1
CMod(a, n) == IF a >= 0 THEN a % n ELSE -((-a) % n)

Goto(t, from, to) ==
  /\ pc[t] = from
  /\ pc' = [pc EXCEPT ![t] = to]

-----------------------------------------------------------------------------
Init ==
  /\ buf = [i \in Slot |-> NoItem]
  /\ front = 0
  /\ rear = 0
  /\ mutex = 1
  /\ slots = N
  /\ items = 0
  /\ pc = [t \in Threads |-> "idle"]
  /\ reg = [t \in Threads |-> 0]
  /\ item = [t \in Threads |-> NoItem]
  /\ inserts = 0
  /\ fifo = <<>>

Lock(t, from, to) ==
  /\ Goto(t, from, to)
  /\ mutex > 0
  /\ mutex' = mutex - 1
  /\ UNCHANGED <<buf, front, rear, slots, items, reg, item, inserts, fifo>>

Unlock(t, from, to) ==
  /\ Goto(t, from, to)
  /\ mutex' = mutex + 1
  /\ UNCHANGED <<buf, front, rear, slots, items, reg, item, inserts, fifo>>

(* Plausible slip: sbuf_insert does not wait for a free slot. *)
InsertWaitWithoutP(t, x) ==
  /\ inserts < MaxInserts
  /\ Goto(t, "idle", "ins_lock")
  /\ item' = [item EXCEPT ![t] = x]
  /\ inserts' = inserts + 1
  /\ UNCHANGED <<buf, front, rear, mutex, slots, items, reg, fifo>>

(* sbuf_insert(sp, x), up to the return of P(&sp->slots). *)
InsertWait(t, x) ==
  /\ inserts < MaxInserts
  /\ Goto(t, "idle", "ins_lock")
  /\ slots > 0
  /\ slots' = slots - 1
  /\ item' = [item EXCEPT ![t] = x]
  /\ inserts' = inserts + 1
  /\ UNCHANGED <<buf, front, rear, mutex, items, reg, fifo>>

(* Plausible slip: the producer side forgets P(&sp->mutex). *)
InsertLockWithoutP(t) ==
  /\ Goto(t, "ins_lock", "ins_load")
  /\ UNCHANGED <<buf, front, rear, mutex, slots, items, reg, item, inserts, fifo>>

InsertLock(t) == Lock(t, "ins_lock", "ins_load")

InsertLoad(t) ==
  /\ Goto(t, "ins_load", "ins_store")
  /\ reg' = [reg EXCEPT ![t] = Succ(rear)]
  /\ UNCHANGED <<buf, front, rear, mutex, slots, items, item, inserts, fifo>>

(* Plausible slip: rear++ in place of ++rear. *)
InsertStorePostIncrement(t) ==
  /\ Goto(t, "ins_store", "ins_unlock")
  /\ rear' = reg[t]
  /\ buf' = [i \in Slot |-> IF i = CMod(rear, N) THEN item[t] ELSE buf[i]]
  /\ fifo' = Append(fifo, item[t])
  /\ UNCHANGED <<front, mutex, slots, items, reg, item, inserts>>

(* A store outside the ring changes no slot. *)
InsertStore(t) ==
  /\ Goto(t, "ins_store", "ins_unlock")
  /\ rear' = reg[t]
  /\ buf' = [i \in Slot |-> IF i = CMod(reg[t], N) THEN item[t] ELSE buf[i]]
  /\ fifo' = Append(fifo, item[t])
  /\ UNCHANGED <<front, mutex, slots, items, reg, item, inserts>>

InsertUnlock(t) == Unlock(t, "ins_unlock", "ins_post")

(* Plausible slip: sbuf_insert returns without V(&sp->items). *)
InsertPostWithoutV(t) ==
  /\ Goto(t, "ins_post", "idle")
  /\ UNCHANGED <<buf, front, rear, mutex, slots, items, reg, item, inserts, fifo>>

InsertPost(t) ==
  /\ Goto(t, "ins_post", "idle")
  /\ items' = items + 1
  /\ UNCHANGED <<buf, front, rear, mutex, slots, reg, item, inserts, fifo>>

-----------------------------------------------------------------------------
(* sbuf_remove(sp), up to the return of P(&sp->items). *)
RemoveWait(t) ==
  /\ Goto(t, "idle", "rem_lock")
  /\ items > 0
  /\ items' = items - 1
  /\ UNCHANGED <<buf, front, rear, mutex, slots, reg, item, inserts, fifo>>

RemoveLock(t) == Lock(t, "rem_lock", "rem_load")

RemoveLoad(t) ==
  /\ Goto(t, "rem_load", "rem_store")
  /\ reg' = [reg EXCEPT ![t] = Succ(front)]
  /\ UNCHANGED <<buf, front, rear, mutex, slots, items, item, inserts, fifo>>

(* A load from outside the ring yields any value. *)
RemoveStore(t) ==
  /\ Goto(t, "rem_store", "rem_unlock")
  /\ front' = reg[t]
  /\ \E x \in Items \cup {NoItem} :
       /\ CMod(reg[t], N) \in Slot => x = buf[CMod(reg[t], N)]
       /\ item' = [item EXCEPT ![t] = x]
  /\ fifo' = IF fifo = <<>> THEN fifo ELSE Tail(fifo)
  /\ UNCHANGED <<buf, rear, mutex, slots, items, reg, inserts>>

RemoveUnlock(t) == Unlock(t, "rem_unlock", "rem_post")

(* Plausible slip: sbuf_remove announces an item in place of a slot. *)
RemovePostWrongSemaphore(t) ==
  /\ Goto(t, "rem_post", "idle")
  /\ items' = items + 1
  /\ UNCHANGED <<buf, front, rear, mutex, slots, reg, item, inserts, fifo>>

RemovePost(t) ==
  /\ Goto(t, "rem_post", "idle")
  /\ slots' = slots + 1
  /\ UNCHANGED <<buf, front, rear, mutex, items, reg, item, inserts, fifo>>

-----------------------------------------------------------------------------
InsertStep(t) ==
  \/ InsertLock(t)
  \/ InsertLoad(t)
  \/ InsertStore(t)
  \/ InsertUnlock(t)
  \/ InsertPost(t)

RemoveStep(t) ==
  \/ RemoveWait(t)
  \/ RemoveLock(t)
  \/ RemoveLoad(t)
  \/ RemoveStore(t)
  \/ RemoveUnlock(t)
  \/ RemovePost(t)

Next ==
  \/ \E t \in Producers, x \in Items : InsertWait(t, x)
  \/ \E t \in Producers : InsertStep(t)
  \/ \E t \in Consumers : RemoveStep(t)

Spec == Init /\ [][Next]_vars

(* Each thread that can run is scheduled; no order is assumed between the *)
(* waiters of a semaphore.                                                *)
Fairness ==
  /\ \A t \in Producers : WF_vars(InsertStep(t))
  /\ \A t \in Consumers : WF_vars(RemoveStep(t))

FairSpec == Spec /\ Fairness

-----------------------------------------------------------------------------
(* Types of the buffer's fields and of the threads' locals. *)
TypeOK ==
  /\ buf \in [Slot -> Items \cup {NoItem}]
  /\ front \in -IntMax - 1 .. IntMax
  /\ rear \in -IntMax - 1 .. IntMax
  /\ mutex \in {0, 1}
  /\ slots \in 0 .. N
  /\ items \in 0 .. N
  /\ pc \in [Threads -> {"idle"} \cup InsertPCs \cup RemovePCs]
  /\ reg \in [Threads -> -IntMax - 1 .. IntMax]
  /\ item \in [Threads -> Items \cup {NoItem}]
  /\ inserts \in 0 .. MaxInserts
  /\ fifo \in Seq(Items \cup {NoItem})

At(S, labels) == {t \in S : pc[t] \in labels}
InCS == At(Threads, LockedPCs)

nInserting == Cardinality(At(Producers, InsertPCs))
nStoring == Cardinality(At(Producers, StoringPCs))
nStored == Cardinality(At(Producers, StoredPCs))
nRemoving == Cardinality(At(Consumers, RemovePCs))
nTaking == Cardinality(At(Consumers, TakingPCs))

(* sbuf.c, "Lock the buffer": at most one thread is between P(&sp->mutex)  *)
(* and V(&sp->mutex), and the semaphore is free exactly when none is.      *)
MutualExclusion ==
  /\ \A t, u \in InCS : t = u
  /\ mutex = 1 <=> InCS = {}

(* sbuf.h, "Counts available slots" and "Counts available items": a slot   *)
(* is free, or held by an insert under way, or announced as an item, or    *)
(* held by a removal under way; none is lost and none is counted twice.    *)
SlotAccounting ==
  /\ slots + items + nInserting + nRemoving = N
  /\ Len(fifo) = items + nStored + nTaking

(* sbuf.h, "buf[(front+1)%n] is first item" and "buf[rear%n] is last item". *)
FirstAndLastItem ==
  fifo # <<>> =>
    /\ CMod(Succ(front), N) \in Slot /\ buf[CMod(Succ(front), N)] = Head(fifo)
    /\ CMod(rear, N) \in Slot /\ buf[CMod(rear, N)] = fifo[Len(fifo)]

(* Between front and rear the ring holds exactly the items inserted and    *)
(* not yet removed, in insertion order: no insert overwrites an unread     *)
(* slot and no removal reads a slot twice (sbuf_insert, sbuf_remove).      *)
RingContents ==
  /\ Len(fifo) = rear - front
  /\ \A i \in 1 .. Len(fifo) : buf[(front + i) % N] = fifo[i]

(* The semaphore code implements the one-step FIFO of BoundedFIFO: the     *)
(* store to rear is the insertion, the store to front the removal.         *)
FIFO == INSTANCE BoundedFIFO WITH
          queue <- fifo,
          got <- [c \in Consumers |-> item[c]]
ImplementsFIFO == FIFO!FIFOSpec

(* Every sbuf_insert that got its slot stores its item, and every stored   *)
(* item is handed to a remover, whatever order the semaphores wake in.     *)
EveryItemRemoved ==
  \A k \in 1 .. MaxInserts :
    /\ inserts >= k ~> rear >= k
    /\ rear >= k ~> front >= k
=============================================================================
