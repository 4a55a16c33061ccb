------------------------------ MODULE SbufProofs ------------------------------
(***************************************************************************)
(* Proofs about Sbuf for every number of slots, every finite set of        *)
(* threads and every number of inserts that does not overflow the cursors. *)
(***************************************************************************)
EXTENDS Sbuf, FiniteSetTheorems, TLAPS

(***************************************************************************)
(* Counting threads by label: how a step of one thread changes the count.  *)
(***************************************************************************)

(* Number of threads of S whose label under f is in L. *)
Count(S, L, f) == Cardinality({u \in S : f[u] \in L})

(* What the counts of SlotAccounting are built from: the threads of S      *)
(* whose label is in L, when one thread t of S moves.                      *)
LEMMA CountMove ==
  ASSUME NEW S, IsFiniteSet(S), NEW L, NEW f, NEW g, NEW t \in S,
         \A u \in S : u # t => g[u] = f[u]
  PROVE  /\ Count(S, L, f) \in Nat
         /\ Count(S, L, g) \in Nat
         /\ Count(S, L, g) = Count(S, L, f)
              + (IF g[t] \in L THEN 1 ELSE 0) - (IF f[t] \in L THEN 1 ELSE 0)
<1> DEFINE A == {u \in S : f[u] \in L}
           B == {u \in S : g[u] \in L}
<1>1. IsFiniteSet(A) /\ Cardinality(A) \in Nat
  BY FS_Subset, FS_CardinalityType
<1>2. IsFiniteSet(B) /\ Cardinality(B) \in Nat
  BY FS_Subset, FS_CardinalityType
<1>3. ASSUME f[t] \in L <=> g[t] \in L  PROVE B = A
  BY <1>3
<1>4. ASSUME f[t] \notin L, g[t] \in L  PROVE Cardinality(B) = Cardinality(A) + 1
  <2>1. B = A \cup {t} /\ t \notin A
    BY <1>4
  <2>. QED
    BY Zenon, <2>1, <1>1, FS_AddElement
<1>5. ASSUME f[t] \in L, g[t] \notin L  PROVE Cardinality(B) = Cardinality(A) - 1
  <2>1. B = A \ {t} /\ t \in A
    BY <1>5
  <2>. QED
    BY Zenon, <2>1, <1>1, FS_RemoveElement
<1>6. Count(S, L, f) = Cardinality(A) /\ Count(S, L, g) = Cardinality(B)
  BY DEF Count
<1> HIDE DEF A, B
<1>. QED
  BY <1>1, <1>2, <1>3, <1>4, <1>5, <1>6

(* The ring index (++rear) % n: two cursor values less than n apart never  *)
(* name the same slot.                                                     *)
LEMMA ModInjective ==
  ASSUME NEW n \in Nat \ {0}, NEW a \in Nat, NEW b \in Nat,
         a < b, b - a < n
  PROVE  a % n # b % n
<1>1. a = n * (a \div n) + (a % n) /\ a \div n \in Int
  OBVIOUS
<1>2. b = n * (b \div n) + (b % n) /\ b \div n \in Int
  OBVIOUS
<1>3. SUFFICES ASSUME a % n = b % n PROVE FALSE
  OBVIOUS
<1> DEFINE q == b \div n - a \div n
<1>4. b - a = n * q /\ q \in Int
  BY <1>1, <1>2, <1>3
<1> HIDE DEF q
<1>5. CASE q <= 0
  <2>1. n * q <= 0
    BY <1>4, <1>5
  <2>. QED
    BY <2>1, <1>4
<1>6. CASE q >= 1
  <2>1. n * q >= n
    BY <1>4, <1>6
  <2>. QED
    BY <2>1, <1>4
<1>. QED
  BY <1>4, <1>5, <1>6

-----------------------------------------------------------------------------
(***************************************************************************)
(* The inductive invariant.  The checked properties are not inductive: the *)
(* cursors must be tied to the number of inserts (no overflow), to the     *)
(* register of the thread inside the critical section, and every thread    *)
(* must stay on its own side of the buffer.                                *)
(***************************************************************************)
Sides ==
  /\ \A t \in Producers : pc[t] \in {"idle"} \cup InsertPCs
  /\ \A t \in Consumers : pc[t] \in {"idle"} \cup RemovePCs

Locals ==
  /\ \A t \in Producers : pc[t] \in InsertPCs => item[t] \in Items
  /\ \A t \in Producers : pc[t] = "ins_store" => reg[t] = rear + 1
  /\ \A t \in Consumers : pc[t] = "rem_store" => reg[t] = front + 1

Cursors ==
  /\ front \in Nat
  /\ rear + nStoring = inserts

Stored == fifo \in Seq(Items)

IInv ==
  /\ TypeOK
  /\ MutualExclusion
  /\ SlotAccounting
  /\ RingContents
  /\ Sides
  /\ Locals
  /\ Cursors
  /\ Stored

(* A step of a producer changes the producer counts by its own move only   *)
(* and leaves the consumer counts alone (steps of sbuf_insert).            *)
LEMMA ProducerCounts ==
  ASSUME TypeOK, NEW t \in Producers, NEW from, NEW to, Goto(t, from, to), NEW L
  PROVE  /\ Cardinality(At(Producers, L)) \in Nat
         /\ Cardinality(At(Producers, L))' \in Nat
         /\ Cardinality(At(Producers, L))' = Cardinality(At(Producers, L))
              + (IF to \in L THEN 1 ELSE 0) - (IF from \in L THEN 1 ELSE 0)
         /\ Cardinality(At(Consumers, L)) \in Nat
         /\ At(Consumers, L)' = At(Consumers, L)
<1>1. /\ pc[t] = from /\ pc'[t] = to
      /\ \A u \in Threads : u # t => pc'[u] = pc[u]
      /\ t \notin Consumers
  BY SbufAssumption DEF TypeOK, Goto, Threads
<1>2. \A u \in Producers : u # t => pc'[u] = pc[u]
  BY <1>1 DEF Threads
<1>3. Cardinality(At(Consumers, L)) \in Nat
  BY SbufAssumption, FS_Subset, FS_CardinalityType DEF At
<1>4. At(Consumers, L)' = At(Consumers, L)
  BY <1>1 DEF At, Threads
<1>5. /\ Count(Producers, L, pc) \in Nat
      /\ Count(Producers, L, pc') \in Nat
      /\ Count(Producers, L, pc') = Count(Producers, L, pc)
           + (IF pc'[t] \in L THEN 1 ELSE 0) - (IF pc[t] \in L THEN 1 ELSE 0)
  BY <1>2, SbufAssumption, CountMove
<1>6. /\ Cardinality(At(Producers, L)) = Count(Producers, L, pc)
      /\ Cardinality(At(Producers, L))' = Count(Producers, L, pc')
  BY DEF At, Count
<1>. QED
  BY <1>1, <1>3, <1>4, <1>5, <1>6

(* The same for a step of a consumer (steps of sbuf_remove). *)
LEMMA ConsumerCounts ==
  ASSUME TypeOK, NEW t \in Consumers, NEW from, NEW to, Goto(t, from, to), NEW L
  PROVE  /\ Cardinality(At(Consumers, L)) \in Nat
         /\ Cardinality(At(Consumers, L))' \in Nat
         /\ Cardinality(At(Consumers, L))' = Cardinality(At(Consumers, L))
              + (IF to \in L THEN 1 ELSE 0) - (IF from \in L THEN 1 ELSE 0)
         /\ Cardinality(At(Producers, L)) \in Nat
         /\ At(Producers, L)' = At(Producers, L)
<1>1. /\ pc[t] = from /\ pc'[t] = to
      /\ \A u \in Threads : u # t => pc'[u] = pc[u]
      /\ t \notin Producers
  BY SbufAssumption DEF TypeOK, Goto, Threads
<1>2. \A u \in Consumers : u # t => pc'[u] = pc[u]
  BY <1>1 DEF Threads
<1>3. Cardinality(At(Producers, L)) \in Nat
  BY SbufAssumption, FS_Subset, FS_CardinalityType DEF At
<1>4. At(Producers, L)' = At(Producers, L)
  BY <1>1 DEF At, Threads
<1>5. /\ Count(Consumers, L, pc) \in Nat
      /\ Count(Consumers, L, pc') \in Nat
      /\ Count(Consumers, L, pc') = Count(Consumers, L, pc)
           + (IF pc'[t] \in L THEN 1 ELSE 0) - (IF pc[t] \in L THEN 1 ELSE 0)
  BY <1>2, SbufAssumption, CountMove
<1>6. /\ Cardinality(At(Consumers, L)) = Count(Consumers, L, pc)
      /\ Cardinality(At(Consumers, L))' = Count(Consumers, L, pc')
  BY DEF At, Count
<1>. QED
  BY <1>1, <1>3, <1>4, <1>5, <1>6


(* A thread that is at one of the labels is counted. *)
LEMMA Occupied ==
  ASSUME NEW S, IsFiniteSet(S), NEW t \in S, NEW L, pc[t] \in L
  PROVE  Cardinality(At(S, L)) >= 1
<1>1. IsFiniteSet(At(S, L)) /\ t \in At(S, L)
  BY FS_Subset DEF At
<1>2. Cardinality(At(S, L)) \in Nat /\ Cardinality(At(S, L)) # 0
  BY <1>1, FS_CardinalityType, FS_EmptySet
<1>. QED
  BY <1>2

(* 1 if label l is in L, else 0. *)
In(l, L) == IF l \in L THEN 1 ELSE 0

(* The accounting after a producer's step, as arithmetic on its move.      *)
LEMMA ProducerAccounting ==
  ASSUME IInv, NEW t \in Producers, NEW from, NEW to, Goto(t, from, to)
  PROVE  /\ nInserting \in Nat /\ nStoring \in Nat /\ nStored \in Nat
         /\ nRemoving \in Nat /\ nTaking \in Nat
         /\ nInserting' = nInserting + In(to, InsertPCs) - In(from, InsertPCs)
         /\ nStoring' = nStoring + In(to, StoringPCs) - In(from, StoringPCs)
         /\ nStored' = nStored + In(to, StoredPCs) - In(from, StoredPCs)
         /\ nRemoving' = nRemoving
         /\ nTaking' = nTaking
         /\ nInserting' \in Nat /\ nStoring' \in Nat /\ nStored' \in Nat
<1>1. TypeOK
  BY DEF IInv
<1>. QED
  BY <1>1, ProducerCounts DEF nInserting, nStoring, nStored, nRemoving, nTaking, In

(* The accounting after a consumer's step. *)
LEMMA ConsumerAccounting ==
  ASSUME IInv, NEW t \in Consumers, NEW from, NEW to, Goto(t, from, to)
  PROVE  /\ nInserting \in Nat /\ nStoring \in Nat /\ nStored \in Nat
         /\ nRemoving \in Nat /\ nTaking \in Nat
         /\ nRemoving' = nRemoving + In(to, RemovePCs) - In(from, RemovePCs)
         /\ nTaking' = nTaking + In(to, TakingPCs) - In(from, TakingPCs)
         /\ nInserting' = nInserting
         /\ nStoring' = nStoring
         /\ nStored' = nStored
         /\ nRemoving' \in Nat /\ nTaking' \in Nat
<1>1. TypeOK
  BY DEF IInv
<1>. QED
  BY <1>1, ConsumerCounts DEF nInserting, nStoring, nStored, nRemoving, nTaking, In

(* The facts every step needs about the numbers of the current state.      *)
LEMMA Numbers ==
  ASSUME IInv
  PROVE  /\ N \in Nat \ {0} /\ IntMax \in Nat /\ MaxInserts \in Nat
         /\ slots \in Nat /\ items \in Nat /\ mutex \in {0, 1}
         /\ front \in Nat /\ rear \in Int /\ inserts \in 0 .. MaxInserts
         /\ Len(fifo) \in Nat
         /\ slots + items + nInserting + nRemoving = N
         /\ Len(fifo) = items + nStored + nTaking
         /\ Len(fifo) = rear - front
         /\ rear + nStoring = inserts
BY SbufAssumption DEF IInv, TypeOK, SlotAccounting, RingContents, Cursors

(* sbuf_insert's P(&sp->slots) keeps the invariant. *)
LEMMA InsertWaitStep ==
  ASSUME IInv, NEW t \in Producers, NEW x \in Items, InsertWait(t, x)
  PROVE  IInv'
<1>1. Goto(t, "idle", "ins_lock")
  BY DEF InsertWait
<1>2. t \in Threads /\ pc[t] = "idle" /\ pc' = [pc EXCEPT ![t] = "ins_lock"]
  BY <1>1 DEF Goto, Threads
<1>3. /\ nInserting \in Nat /\ nStoring \in Nat /\ nStored \in Nat
      /\ nRemoving \in Nat /\ nTaking \in Nat
      /\ nInserting' \in Nat /\ nStoring' \in Nat /\ nStored' \in Nat
      /\ nInserting' = nInserting + 1 /\ nStoring' = nStoring + 1 /\ nStored' = nStored
      /\ nRemoving' = nRemoving /\ nTaking' = nTaking
  BY ProducerAccounting, <1>1 DEF In, InsertPCs, StoringPCs, StoredPCs
<1>a. slots' = slots - 1 /\ items' = items /\ inserts' = inserts + 1
      /\ front' = front /\ rear' = rear /\ fifo' = fifo /\ inserts < MaxInserts /\ slots > 0
  BY DEF InsertWait
<1>n. /\ N \in Nat \ {0} /\ IntMax \in Nat /\ MaxInserts \in Nat
      /\ slots \in Nat /\ items \in Nat /\ front \in Nat /\ rear \in Int
      /\ inserts \in 0 .. MaxInserts
      /\ slots + items + nInserting + nRemoving = N
      /\ Len(fifo) = items + nStored + nTaking
      /\ Len(fifo) = rear - front
      /\ rear + nStoring = inserts
  BY Numbers
<1>b. /\ slots' + items' + nInserting' + nRemoving' = N
      /\ Len(fifo') = items' + nStored' + nTaking'
      /\ rear' + nStoring' = inserts' /\ front' \in Nat
      /\ slots' \in 0 .. N /\ items' \in 0 .. N /\ inserts' \in 0 .. MaxInserts
  BY <1>n, <1>3, <1>a
<1>4. SlotAccounting' /\ Cursors'
  BY <1>b DEF SlotAccounting, Cursors
<1>c. /\ pc' \in [Threads -> {"idle"} \cup InsertPCs \cup RemovePCs]
      /\ reg' \in [Threads -> -IntMax - 1 .. IntMax]
      /\ item' \in [Threads -> Items \cup {NoItem}]
      /\ mutex' \in {0, 1}
  BY <1>2, <1>n, <1>3 DEF IInv, TypeOK, InsertWait, InsertPCs
<1>5. TypeOK'
  BY <1>a, <1>b, <1>c DEF IInv, TypeOK, InsertWait
<1>6. MutualExclusion'
  BY <1>2 DEF IInv, MutualExclusion, TypeOK, InsertWait, InCS, At, LockedPCs, Threads
<1>7. RingContents' /\ Stored'
  BY DEF IInv, RingContents, Stored, InsertWait
<1>8. Sides'
  BY <1>2, SbufAssumption DEF IInv, Sides, TypeOK, Threads, InsertPCs
<1>9. Locals'
  BY <1>2, SbufAssumption DEF IInv, Locals, TypeOK, Threads, InsertPCs, InsertWait
<1>. QED
  BY <1>4, <1>5, <1>6, <1>7, <1>8, <1>9 DEF IInv

(* sbuf_insert's P(&sp->mutex) keeps the invariant. *)
LEMMA InsertLockStep ==
  ASSUME IInv, NEW t \in Producers, InsertLock(t)
  PROVE  IInv'
<1>1. Goto(t, "ins_lock", "ins_load")
  BY DEF InsertLock, Lock
<1>2. t \in Threads /\ pc[t] = "ins_lock" /\ pc' = [pc EXCEPT ![t] = "ins_load"]
  BY <1>1 DEF Goto, Threads
<1>3. /\ nInserting \in Nat /\ nStoring \in Nat /\ nStored \in Nat
      /\ nRemoving \in Nat /\ nTaking \in Nat
      /\ nInserting' \in Nat /\ nStoring' \in Nat /\ nStored' \in Nat
      /\ nInserting' = nInserting /\ nStoring' = nStoring /\ nStored' = nStored
      /\ nRemoving' = nRemoving /\ nTaking' = nTaking
  BY ProducerAccounting, <1>1 DEF In, InsertPCs, StoringPCs, StoredPCs
<1>a. slots' = slots /\ items' = items /\ inserts' = inserts
      /\ front' = front /\ rear' = rear /\ fifo' = fifo
  BY DEF InsertLock, Lock
<1>n. /\ N \in Nat \ {0} /\ IntMax \in Nat /\ MaxInserts \in Nat
      /\ slots \in Nat /\ items \in Nat /\ front \in Nat /\ rear \in Int
      /\ inserts \in 0 .. MaxInserts
      /\ slots + items + nInserting + nRemoving = N
      /\ Len(fifo) = items + nStored + nTaking
      /\ Len(fifo) = rear - front
      /\ rear + nStoring = inserts
  BY Numbers
<1>b. /\ slots' + items' + nInserting' + nRemoving' = N
      /\ Len(fifo') = items' + nStored' + nTaking'
      /\ rear' + nStoring' = inserts' /\ front' \in Nat
      /\ slots' \in 0 .. N /\ items' \in 0 .. N /\ inserts' \in 0 .. MaxInserts
  BY <1>n, <1>3, <1>a
<1>4. SlotAccounting' /\ Cursors'
  BY <1>b DEF SlotAccounting, Cursors
<1>c. /\ pc' \in [Threads -> {"idle"} \cup InsertPCs \cup RemovePCs]
      /\ reg' \in [Threads -> -IntMax - 1 .. IntMax]
      /\ item' \in [Threads -> Items \cup {NoItem}]
      /\ mutex' \in {0, 1}
  BY <1>2, <1>n, <1>3 DEF IInv, TypeOK, InsertLock, Lock, InsertPCs
<1>5. TypeOK'
  BY <1>a, <1>b, <1>c DEF IInv, TypeOK, InsertLock, Lock
<1>6. MutualExclusion'
  BY <1>2 DEF IInv, MutualExclusion, TypeOK, InsertLock, Lock, InCS, At, LockedPCs, Threads
<1>7. RingContents' /\ Stored'
  BY DEF IInv, RingContents, Stored, InsertLock, Lock
<1>8. Sides'
  BY <1>2, SbufAssumption DEF IInv, Sides, TypeOK, Threads, InsertPCs
<1>9. Locals'
  BY <1>2, SbufAssumption DEF IInv, Locals, TypeOK, Threads, InsertPCs, InsertLock, Lock
<1>. QED
  BY <1>4, <1>5, <1>6, <1>7, <1>8, <1>9 DEF IInv

(* sbuf_insert's load and increment of rear keeps the invariant. *)
LEMMA InsertLoadStep ==
  ASSUME IInv, NEW t \in Producers, MaxInserts <= IntMax, InsertLoad(t)
  PROVE  IInv'
<1>1. Goto(t, "ins_load", "ins_store")
  BY DEF InsertLoad
<1>2. t \in Threads /\ pc[t] = "ins_load" /\ pc' = [pc EXCEPT ![t] = "ins_store"]
  BY <1>1 DEF Goto, Threads
<1>3. /\ nInserting \in Nat /\ nStoring \in Nat /\ nStored \in Nat
      /\ nRemoving \in Nat /\ nTaking \in Nat
      /\ nInserting' \in Nat /\ nStoring' \in Nat /\ nStored' \in Nat
      /\ nInserting' = nInserting /\ nStoring' = nStoring /\ nStored' = nStored
      /\ nRemoving' = nRemoving /\ nTaking' = nTaking
  BY ProducerAccounting, <1>1 DEF In, InsertPCs, StoringPCs, StoredPCs
<1>a. slots' = slots /\ items' = items /\ inserts' = inserts
      /\ front' = front /\ rear' = rear /\ fifo' = fifo
  BY DEF InsertLoad
<1>n. /\ N \in Nat \ {0} /\ IntMax \in Nat /\ MaxInserts \in Nat
      /\ slots \in Nat /\ items \in Nat /\ front \in Nat /\ rear \in Int
      /\ inserts \in 0 .. MaxInserts
      /\ slots + items + nInserting + nRemoving = N
      /\ Len(fifo) = items + nStored + nTaking
      /\ Len(fifo) = rear - front
      /\ rear + nStoring = inserts
  BY Numbers
<1>b. /\ slots' + items' + nInserting' + nRemoving' = N
      /\ Len(fifo') = items' + nStored' + nTaking'
      /\ rear' + nStoring' = inserts' /\ front' \in Nat
      /\ slots' \in 0 .. N /\ items' \in 0 .. N /\ inserts' \in 0 .. MaxInserts
  BY <1>n, <1>3, <1>a
<1>4. SlotAccounting' /\ Cursors'
  BY <1>b DEF SlotAccounting, Cursors
<1>d. nStoring >= 1
  BY <1>2, Occupied, SbufAssumption DEF nStoring, StoringPCs
<1>e. rear + 1 <= IntMax /\ Succ(rear) = rear + 1
  BY <1>n, <1>3, <1>d DEF Succ
<1>c. /\ pc' \in [Threads -> {"idle"} \cup InsertPCs \cup RemovePCs]
      /\ reg' \in [Threads -> -IntMax - 1 .. IntMax]
      /\ item' \in [Threads -> Items \cup {NoItem}]
      /\ mutex' \in {0, 1}
  BY <1>2, <1>e, <1>n DEF IInv, TypeOK, InsertLoad, InsertPCs
<1>5. TypeOK'
  BY <1>a, <1>b, <1>c DEF IInv, TypeOK, InsertLoad
<1>6. MutualExclusion'
  BY <1>2 DEF IInv, MutualExclusion, TypeOK, InsertLoad, InCS, At, LockedPCs, Threads
<1>7. RingContents' /\ Stored'
  BY DEF IInv, RingContents, Stored, InsertLoad
<1>8. Sides'
  BY <1>2, SbufAssumption DEF IInv, Sides, TypeOK, Threads, InsertPCs
<1>9. Locals'
  BY <1>2, <1>e, SbufAssumption DEF IInv, Locals, TypeOK, Threads, InsertPCs, InsertLoad
<1>. QED
  BY <1>4, <1>5, <1>6, <1>7, <1>8, <1>9 DEF IInv

(* sbuf_insert's V(&sp->mutex) keeps the invariant. *)
LEMMA InsertUnlockStep ==
  ASSUME IInv, NEW t \in Producers, InsertUnlock(t)
  PROVE  IInv'
<1>1. Goto(t, "ins_unlock", "ins_post")
  BY DEF InsertUnlock, Unlock
<1>2. t \in Threads /\ pc[t] = "ins_unlock" /\ pc' = [pc EXCEPT ![t] = "ins_post"]
  BY <1>1 DEF Goto, Threads
<1>3. /\ nInserting \in Nat /\ nStoring \in Nat /\ nStored \in Nat
      /\ nRemoving \in Nat /\ nTaking \in Nat
      /\ nInserting' \in Nat /\ nStoring' \in Nat /\ nStored' \in Nat
      /\ nInserting' = nInserting /\ nStoring' = nStoring /\ nStored' = nStored
      /\ nRemoving' = nRemoving /\ nTaking' = nTaking
  BY ProducerAccounting, <1>1 DEF In, InsertPCs, StoringPCs, StoredPCs
<1>a. slots' = slots /\ items' = items /\ inserts' = inserts
      /\ front' = front /\ rear' = rear /\ fifo' = fifo
  BY DEF InsertUnlock, Unlock
<1>n. /\ N \in Nat \ {0} /\ IntMax \in Nat /\ MaxInserts \in Nat
      /\ slots \in Nat /\ items \in Nat /\ front \in Nat /\ rear \in Int
      /\ inserts \in 0 .. MaxInserts
      /\ slots + items + nInserting + nRemoving = N
      /\ Len(fifo) = items + nStored + nTaking
      /\ Len(fifo) = rear - front
      /\ rear + nStoring = inserts
  BY Numbers
<1>b. /\ slots' + items' + nInserting' + nRemoving' = N
      /\ Len(fifo') = items' + nStored' + nTaking'
      /\ rear' + nStoring' = inserts' /\ front' \in Nat
      /\ slots' \in 0 .. N /\ items' \in 0 .. N /\ inserts' \in 0 .. MaxInserts
  BY <1>n, <1>3, <1>a
<1>4. SlotAccounting' /\ Cursors'
  BY <1>b DEF SlotAccounting, Cursors
<1>d. mutex = 0
  BY <1>2 DEF IInv, MutualExclusion, TypeOK, InCS, At, LockedPCs
<1>c. /\ pc' \in [Threads -> {"idle"} \cup InsertPCs \cup RemovePCs]
      /\ reg' \in [Threads -> -IntMax - 1 .. IntMax]
      /\ item' \in [Threads -> Items \cup {NoItem}]
      /\ mutex' \in {0, 1}
  BY <1>2, <1>d, <1>n DEF IInv, TypeOK, InsertUnlock, Unlock, InsertPCs
<1>5. TypeOK'
  BY <1>a, <1>b, <1>c DEF IInv, TypeOK, InsertUnlock, Unlock
<1>6. MutualExclusion'
  BY <1>2 DEF IInv, MutualExclusion, TypeOK, InsertUnlock, Unlock, InCS, At, LockedPCs, Threads
<1>7. RingContents' /\ Stored'
  BY DEF IInv, RingContents, Stored, InsertUnlock, Unlock
<1>8. Sides'
  BY <1>2, SbufAssumption DEF IInv, Sides, TypeOK, Threads, InsertPCs
<1>9. Locals'
  BY <1>2, SbufAssumption DEF IInv, Locals, TypeOK, Threads, InsertPCs, InsertUnlock, Unlock
<1>. QED
  BY <1>4, <1>5, <1>6, <1>7, <1>8, <1>9 DEF IInv

(* sbuf_insert's V(&sp->items) keeps the invariant. *)
LEMMA InsertPostStep ==
  ASSUME IInv, NEW t \in Producers, InsertPost(t)
  PROVE  IInv'
<1>1. Goto(t, "ins_post", "idle")
  BY DEF InsertPost
<1>2. t \in Threads /\ pc[t] = "ins_post" /\ pc' = [pc EXCEPT ![t] = "idle"]
  BY <1>1 DEF Goto, Threads
<1>3. /\ nInserting \in Nat /\ nStoring \in Nat /\ nStored \in Nat
      /\ nRemoving \in Nat /\ nTaking \in Nat
      /\ nInserting' \in Nat /\ nStoring' \in Nat /\ nStored' \in Nat
      /\ nInserting' = nInserting - 1 /\ nStoring' = nStoring /\ nStored' = nStored - 1
      /\ nRemoving' = nRemoving /\ nTaking' = nTaking
  BY ProducerAccounting, <1>1 DEF In, InsertPCs, StoringPCs, StoredPCs
<1>a. slots' = slots /\ items' = items + 1 /\ inserts' = inserts
      /\ front' = front /\ rear' = rear /\ fifo' = fifo
  BY DEF InsertPost
<1>n. /\ N \in Nat \ {0} /\ IntMax \in Nat /\ MaxInserts \in Nat
      /\ slots \in Nat /\ items \in Nat /\ front \in Nat /\ rear \in Int
      /\ inserts \in 0 .. MaxInserts
      /\ slots + items + nInserting + nRemoving = N
      /\ Len(fifo) = items + nStored + nTaking
      /\ Len(fifo) = rear - front
      /\ rear + nStoring = inserts
  BY Numbers
<1>b. /\ slots' + items' + nInserting' + nRemoving' = N
      /\ Len(fifo') = items' + nStored' + nTaking'
      /\ rear' + nStoring' = inserts' /\ front' \in Nat
      /\ slots' \in 0 .. N /\ items' \in 0 .. N /\ inserts' \in 0 .. MaxInserts
  BY <1>n, <1>3, <1>a
<1>4. SlotAccounting' /\ Cursors'
  BY <1>b DEF SlotAccounting, Cursors
<1>c. /\ pc' \in [Threads -> {"idle"} \cup InsertPCs \cup RemovePCs]
      /\ reg' \in [Threads -> -IntMax - 1 .. IntMax]
      /\ item' \in [Threads -> Items \cup {NoItem}]
      /\ mutex' \in {0, 1}
  BY <1>2, <1>n, <1>3 DEF IInv, TypeOK, InsertPost, InsertPCs
<1>5. TypeOK'
  BY <1>a, <1>b, <1>c DEF IInv, TypeOK, InsertPost
<1>6. MutualExclusion'
  BY <1>2 DEF IInv, MutualExclusion, TypeOK, InsertPost, InCS, At, LockedPCs, Threads
<1>7. RingContents' /\ Stored'
  BY DEF IInv, RingContents, Stored, InsertPost
<1>8. Sides'
  BY <1>2, SbufAssumption DEF IInv, Sides, TypeOK, Threads, InsertPCs
<1>9. Locals'
  BY <1>2, SbufAssumption DEF IInv, Locals, TypeOK, Threads, InsertPCs, InsertPost
<1>. QED
  BY <1>4, <1>5, <1>6, <1>7, <1>8, <1>9 DEF IInv

(* sbuf_remove's P(&sp->items) keeps the invariant. *)
LEMMA RemoveWaitStep ==
  ASSUME IInv, NEW t \in Consumers, RemoveWait(t)
  PROVE  IInv'
<1>1. Goto(t, "idle", "rem_lock")
  BY DEF RemoveWait
<1>2. t \in Threads /\ pc[t] = "idle" /\ pc' = [pc EXCEPT ![t] = "rem_lock"]
  BY <1>1 DEF Goto, Threads
<1>3. /\ nInserting \in Nat /\ nStoring \in Nat /\ nStored \in Nat
      /\ nRemoving \in Nat /\ nTaking \in Nat
      /\ nRemoving' \in Nat /\ nTaking' \in Nat
      /\ nRemoving' = nRemoving + 1 /\ nTaking' = nTaking + 1
      /\ nInserting' = nInserting /\ nStoring' = nStoring /\ nStored' = nStored
  BY ConsumerAccounting, <1>1 DEF In, RemovePCs, TakingPCs
<1>a. slots' = slots /\ items' = items - 1 /\ inserts' = inserts
      /\ front' = front /\ rear' = rear /\ fifo' = fifo /\ items > 0
  BY DEF RemoveWait
<1>n. /\ N \in Nat \ {0} /\ IntMax \in Nat /\ MaxInserts \in Nat
      /\ slots \in Nat /\ items \in Nat /\ front \in Nat /\ rear \in Int
      /\ inserts \in 0 .. MaxInserts
      /\ slots + items + nInserting + nRemoving = N
      /\ Len(fifo) = items + nStored + nTaking
      /\ Len(fifo) = rear - front
      /\ rear + nStoring = inserts
  BY Numbers
<1>b. /\ slots' + items' + nInserting' + nRemoving' = N
      /\ Len(fifo') = items' + nStored' + nTaking'
      /\ rear' + nStoring' = inserts' /\ front' \in Nat
      /\ slots' \in 0 .. N /\ items' \in 0 .. N /\ inserts' \in 0 .. MaxInserts
  BY <1>n, <1>3, <1>a
<1>4. SlotAccounting' /\ Cursors'
  BY <1>b DEF SlotAccounting, Cursors
<1>c. /\ pc' \in [Threads -> {"idle"} \cup InsertPCs \cup RemovePCs]
      /\ reg' \in [Threads -> -IntMax - 1 .. IntMax]
      /\ item' \in [Threads -> Items \cup {NoItem}]
      /\ mutex' \in {0, 1}
  BY <1>2, <1>n, <1>3 DEF IInv, TypeOK, RemoveWait, RemovePCs
<1>5. TypeOK'
  BY <1>a, <1>b, <1>c DEF IInv, TypeOK, RemoveWait
<1>6. MutualExclusion'
  BY <1>2 DEF IInv, MutualExclusion, TypeOK, RemoveWait, InCS, At, LockedPCs, Threads
<1>7. RingContents' /\ Stored'
  BY DEF IInv, RingContents, Stored, RemoveWait
<1>8. Sides'
  BY <1>2, SbufAssumption DEF IInv, Sides, TypeOK, Threads, RemovePCs
<1>9. Locals'
  BY <1>2, SbufAssumption DEF IInv, Locals, TypeOK, Threads, RemovePCs, RemoveWait
<1>. QED
  BY <1>4, <1>5, <1>6, <1>7, <1>8, <1>9 DEF IInv

(* sbuf_remove's P(&sp->mutex) keeps the invariant. *)
LEMMA RemoveLockStep ==
  ASSUME IInv, NEW t \in Consumers, RemoveLock(t)
  PROVE  IInv'
<1>1. Goto(t, "rem_lock", "rem_load")
  BY DEF RemoveLock, Lock
<1>2. t \in Threads /\ pc[t] = "rem_lock" /\ pc' = [pc EXCEPT ![t] = "rem_load"]
  BY <1>1 DEF Goto, Threads
<1>3. /\ nInserting \in Nat /\ nStoring \in Nat /\ nStored \in Nat
      /\ nRemoving \in Nat /\ nTaking \in Nat
      /\ nRemoving' \in Nat /\ nTaking' \in Nat
      /\ nRemoving' = nRemoving /\ nTaking' = nTaking
      /\ nInserting' = nInserting /\ nStoring' = nStoring /\ nStored' = nStored
  BY ConsumerAccounting, <1>1 DEF In, RemovePCs, TakingPCs
<1>a. slots' = slots /\ items' = items /\ inserts' = inserts
      /\ front' = front /\ rear' = rear /\ fifo' = fifo
  BY DEF RemoveLock, Lock
<1>n. /\ N \in Nat \ {0} /\ IntMax \in Nat /\ MaxInserts \in Nat
      /\ slots \in Nat /\ items \in Nat /\ front \in Nat /\ rear \in Int
      /\ inserts \in 0 .. MaxInserts
      /\ slots + items + nInserting + nRemoving = N
      /\ Len(fifo) = items + nStored + nTaking
      /\ Len(fifo) = rear - front
      /\ rear + nStoring = inserts
  BY Numbers
<1>b. /\ slots' + items' + nInserting' + nRemoving' = N
      /\ Len(fifo') = items' + nStored' + nTaking'
      /\ rear' + nStoring' = inserts' /\ front' \in Nat
      /\ slots' \in 0 .. N /\ items' \in 0 .. N /\ inserts' \in 0 .. MaxInserts
  BY <1>n, <1>3, <1>a
<1>4. SlotAccounting' /\ Cursors'
  BY <1>b DEF SlotAccounting, Cursors
<1>c. /\ pc' \in [Threads -> {"idle"} \cup InsertPCs \cup RemovePCs]
      /\ reg' \in [Threads -> -IntMax - 1 .. IntMax]
      /\ item' \in [Threads -> Items \cup {NoItem}]
      /\ mutex' \in {0, 1}
  BY <1>2, <1>n, <1>3 DEF IInv, TypeOK, RemoveLock, Lock, RemovePCs
<1>5. TypeOK'
  BY <1>a, <1>b, <1>c DEF IInv, TypeOK, RemoveLock, Lock
<1>6. MutualExclusion'
  BY <1>2 DEF IInv, MutualExclusion, TypeOK, RemoveLock, Lock, InCS, At, LockedPCs, Threads
<1>7. RingContents' /\ Stored'
  BY DEF IInv, RingContents, Stored, RemoveLock, Lock
<1>8. Sides'
  BY <1>2, SbufAssumption DEF IInv, Sides, TypeOK, Threads, RemovePCs
<1>9. Locals'
  BY <1>2, SbufAssumption DEF IInv, Locals, TypeOK, Threads, RemovePCs, RemoveLock, Lock
<1>. QED
  BY <1>4, <1>5, <1>6, <1>7, <1>8, <1>9 DEF IInv

(* sbuf_remove's load and increment of front keeps the invariant. *)
LEMMA RemoveLoadStep ==
  ASSUME IInv, NEW t \in Consumers, MaxInserts <= IntMax, RemoveLoad(t)
  PROVE  IInv'
<1>1. Goto(t, "rem_load", "rem_store")
  BY DEF RemoveLoad
<1>2. t \in Threads /\ pc[t] = "rem_load" /\ pc' = [pc EXCEPT ![t] = "rem_store"]
  BY <1>1 DEF Goto, Threads
<1>3. /\ nInserting \in Nat /\ nStoring \in Nat /\ nStored \in Nat
      /\ nRemoving \in Nat /\ nTaking \in Nat
      /\ nRemoving' \in Nat /\ nTaking' \in Nat
      /\ nRemoving' = nRemoving /\ nTaking' = nTaking
      /\ nInserting' = nInserting /\ nStoring' = nStoring /\ nStored' = nStored
  BY ConsumerAccounting, <1>1 DEF In, RemovePCs, TakingPCs
<1>a. slots' = slots /\ items' = items /\ inserts' = inserts
      /\ front' = front /\ rear' = rear /\ fifo' = fifo
  BY DEF RemoveLoad
<1>n. /\ N \in Nat \ {0} /\ IntMax \in Nat /\ MaxInserts \in Nat
      /\ slots \in Nat /\ items \in Nat /\ front \in Nat /\ rear \in Int
      /\ inserts \in 0 .. MaxInserts
      /\ slots + items + nInserting + nRemoving = N
      /\ Len(fifo) = items + nStored + nTaking
      /\ Len(fifo) = rear - front
      /\ rear + nStoring = inserts
  BY Numbers
<1>b. /\ slots' + items' + nInserting' + nRemoving' = N
      /\ Len(fifo') = items' + nStored' + nTaking'
      /\ rear' + nStoring' = inserts' /\ front' \in Nat
      /\ slots' \in 0 .. N /\ items' \in 0 .. N /\ inserts' \in 0 .. MaxInserts
  BY <1>n, <1>3, <1>a
<1>4. SlotAccounting' /\ Cursors'
  BY <1>b DEF SlotAccounting, Cursors
<1>d. nTaking >= 1
  BY <1>2, Occupied, SbufAssumption DEF nTaking, TakingPCs
<1>e. front + 1 <= IntMax /\ Succ(front) = front + 1
  BY <1>n, <1>3, <1>d DEF Succ
<1>c. /\ pc' \in [Threads -> {"idle"} \cup InsertPCs \cup RemovePCs]
      /\ reg' \in [Threads -> -IntMax - 1 .. IntMax]
      /\ item' \in [Threads -> Items \cup {NoItem}]
      /\ mutex' \in {0, 1}
  BY <1>2, <1>e, <1>n DEF IInv, TypeOK, RemoveLoad, RemovePCs
<1>5. TypeOK'
  BY <1>a, <1>b, <1>c DEF IInv, TypeOK, RemoveLoad
<1>6. MutualExclusion'
  BY <1>2 DEF IInv, MutualExclusion, TypeOK, RemoveLoad, InCS, At, LockedPCs, Threads
<1>7. RingContents' /\ Stored'
  BY DEF IInv, RingContents, Stored, RemoveLoad
<1>8. Sides'
  BY <1>2, SbufAssumption DEF IInv, Sides, TypeOK, Threads, RemovePCs
<1>9. Locals'
  BY <1>2, <1>e, SbufAssumption DEF IInv, Locals, TypeOK, Threads, RemovePCs, RemoveLoad
<1>. QED
  BY <1>4, <1>5, <1>6, <1>7, <1>8, <1>9 DEF IInv

(* sbuf_remove's V(&sp->mutex) keeps the invariant. *)
LEMMA RemoveUnlockStep ==
  ASSUME IInv, NEW t \in Consumers, RemoveUnlock(t)
  PROVE  IInv'
<1>1. Goto(t, "rem_unlock", "rem_post")
  BY DEF RemoveUnlock, Unlock
<1>2. t \in Threads /\ pc[t] = "rem_unlock" /\ pc' = [pc EXCEPT ![t] = "rem_post"]
  BY <1>1 DEF Goto, Threads
<1>3. /\ nInserting \in Nat /\ nStoring \in Nat /\ nStored \in Nat
      /\ nRemoving \in Nat /\ nTaking \in Nat
      /\ nRemoving' \in Nat /\ nTaking' \in Nat
      /\ nRemoving' = nRemoving /\ nTaking' = nTaking
      /\ nInserting' = nInserting /\ nStoring' = nStoring /\ nStored' = nStored
  BY ConsumerAccounting, <1>1 DEF In, RemovePCs, TakingPCs
<1>a. slots' = slots /\ items' = items /\ inserts' = inserts
      /\ front' = front /\ rear' = rear /\ fifo' = fifo
  BY DEF RemoveUnlock, Unlock
<1>n. /\ N \in Nat \ {0} /\ IntMax \in Nat /\ MaxInserts \in Nat
      /\ slots \in Nat /\ items \in Nat /\ front \in Nat /\ rear \in Int
      /\ inserts \in 0 .. MaxInserts
      /\ slots + items + nInserting + nRemoving = N
      /\ Len(fifo) = items + nStored + nTaking
      /\ Len(fifo) = rear - front
      /\ rear + nStoring = inserts
  BY Numbers
<1>b. /\ slots' + items' + nInserting' + nRemoving' = N
      /\ Len(fifo') = items' + nStored' + nTaking'
      /\ rear' + nStoring' = inserts' /\ front' \in Nat
      /\ slots' \in 0 .. N /\ items' \in 0 .. N /\ inserts' \in 0 .. MaxInserts
  BY <1>n, <1>3, <1>a
<1>4. SlotAccounting' /\ Cursors'
  BY <1>b DEF SlotAccounting, Cursors
<1>d. mutex = 0
  BY <1>2 DEF IInv, MutualExclusion, TypeOK, InCS, At, LockedPCs
<1>c. /\ pc' \in [Threads -> {"idle"} \cup InsertPCs \cup RemovePCs]
      /\ reg' \in [Threads -> -IntMax - 1 .. IntMax]
      /\ item' \in [Threads -> Items \cup {NoItem}]
      /\ mutex' \in {0, 1}
  BY <1>2, <1>d, <1>n DEF IInv, TypeOK, RemoveUnlock, Unlock, RemovePCs
<1>5. TypeOK'
  BY <1>a, <1>b, <1>c DEF IInv, TypeOK, RemoveUnlock, Unlock
<1>6. MutualExclusion'
  BY <1>2 DEF IInv, MutualExclusion, TypeOK, RemoveUnlock, Unlock, InCS, At, LockedPCs, Threads
<1>7. RingContents' /\ Stored'
  BY DEF IInv, RingContents, Stored, RemoveUnlock, Unlock
<1>8. Sides'
  BY <1>2, SbufAssumption DEF IInv, Sides, TypeOK, Threads, RemovePCs
<1>9. Locals'
  BY <1>2, SbufAssumption DEF IInv, Locals, TypeOK, Threads, RemovePCs, RemoveUnlock, Unlock
<1>. QED
  BY <1>4, <1>5, <1>6, <1>7, <1>8, <1>9 DEF IInv

(* sbuf_remove's V(&sp->slots) keeps the invariant. *)
LEMMA RemovePostStep ==
  ASSUME IInv, NEW t \in Consumers, RemovePost(t)
  PROVE  IInv'
<1>1. Goto(t, "rem_post", "idle")
  BY DEF RemovePost
<1>2. t \in Threads /\ pc[t] = "rem_post" /\ pc' = [pc EXCEPT ![t] = "idle"]
  BY <1>1 DEF Goto, Threads
<1>3. /\ nInserting \in Nat /\ nStoring \in Nat /\ nStored \in Nat
      /\ nRemoving \in Nat /\ nTaking \in Nat
      /\ nRemoving' \in Nat /\ nTaking' \in Nat
      /\ nRemoving' = nRemoving - 1 /\ nTaking' = nTaking
      /\ nInserting' = nInserting /\ nStoring' = nStoring /\ nStored' = nStored
  BY ConsumerAccounting, <1>1 DEF In, RemovePCs, TakingPCs
<1>a. slots' = slots + 1 /\ items' = items /\ inserts' = inserts
      /\ front' = front /\ rear' = rear /\ fifo' = fifo
  BY DEF RemovePost
<1>n. /\ N \in Nat \ {0} /\ IntMax \in Nat /\ MaxInserts \in Nat
      /\ slots \in Nat /\ items \in Nat /\ front \in Nat /\ rear \in Int
      /\ inserts \in 0 .. MaxInserts
      /\ slots + items + nInserting + nRemoving = N
      /\ Len(fifo) = items + nStored + nTaking
      /\ Len(fifo) = rear - front
      /\ rear + nStoring = inserts
  BY Numbers
<1>b. /\ slots' + items' + nInserting' + nRemoving' = N
      /\ Len(fifo') = items' + nStored' + nTaking'
      /\ rear' + nStoring' = inserts' /\ front' \in Nat
      /\ slots' \in 0 .. N /\ items' \in 0 .. N /\ inserts' \in 0 .. MaxInserts
  BY <1>n, <1>3, <1>a
<1>4. SlotAccounting' /\ Cursors'
  BY <1>b DEF SlotAccounting, Cursors
<1>c. /\ pc' \in [Threads -> {"idle"} \cup InsertPCs \cup RemovePCs]
      /\ reg' \in [Threads -> -IntMax - 1 .. IntMax]
      /\ item' \in [Threads -> Items \cup {NoItem}]
      /\ mutex' \in {0, 1}
  BY <1>2, <1>n, <1>3 DEF IInv, TypeOK, RemovePost, RemovePCs
<1>5. TypeOK'
  BY <1>a, <1>b, <1>c DEF IInv, TypeOK, RemovePost
<1>6. MutualExclusion'
  BY <1>2 DEF IInv, MutualExclusion, TypeOK, RemovePost, InCS, At, LockedPCs, Threads
<1>7. RingContents' /\ Stored'
  BY DEF IInv, RingContents, Stored, RemovePost
<1>8. Sides'
  BY <1>2, SbufAssumption DEF IInv, Sides, TypeOK, Threads, RemovePCs
<1>9. Locals'
  BY <1>2, SbufAssumption DEF IInv, Locals, TypeOK, Threads, RemovePCs, RemovePost
<1>. QED
  BY <1>4, <1>5, <1>6, <1>7, <1>8, <1>9 DEF IInv

(* A producer in sbuf_insert is before or after its store; a consumer that *)
(* has not read its slot is in sbuf_remove.                                *)
LEMMA CountParts ==
  ASSUME IInv
  PROVE  nInserting = nStoring + nStored /\ nTaking <= nRemoving
<1>1. /\ IsFiniteSet(At(Producers, StoringPCs)) /\ IsFiniteSet(At(Producers, StoredPCs))
      /\ IsFiniteSet(At(Consumers, RemovePCs)) /\ IsFiniteSet(At(Consumers, TakingPCs))
  BY SbufAssumption, FS_Subset DEF At
<1>2. /\ At(Producers, InsertPCs) = At(Producers, StoringPCs) \cup At(Producers, StoredPCs)
      /\ At(Producers, StoringPCs) \cap At(Producers, StoredPCs) = {}
  BY DEF At, InsertPCs, StoringPCs, StoredPCs
<1>3. At(Consumers, TakingPCs) \subseteq At(Consumers, RemovePCs)
  BY DEF At, RemovePCs, TakingPCs
<1>4. Cardinality({}) = 0
  BY FS_EmptySet
<1>5. nInserting = nStoring + nStored
  <2>1. Cardinality(At(Producers, StoringPCs)) \in Nat
        /\ Cardinality(At(Producers, StoredPCs)) \in Nat
    BY <1>1, FS_CardinalityType
  <2>2. Cardinality(At(Producers, InsertPCs))
          = Cardinality(At(Producers, StoringPCs)) + Cardinality(At(Producers, StoredPCs))
              - Cardinality({})
    BY <1>1, <1>2, FS_Union
  <2>. QED
    BY <1>4, <2>1, <2>2 DEF nInserting, nStoring, nStored
<1>6. nTaking <= nRemoving
  BY <1>1, <1>3, FS_Subset DEF nTaking, nRemoving
<1>. QED
  BY <1>5, <1>6

(* sbuf_insert's store keeps the invariant: the slot it writes is outside  *)
(* the part of the ring that holds items.                                  *)
LEMMA InsertStoreStep ==
  ASSUME IInv, NEW t \in Producers, MaxInserts <= IntMax, InsertStore(t)
  PROVE  IInv' /\ Len(fifo) < N /\ item[t] \in Items
<1>1. Goto(t, "ins_store", "ins_unlock")
  BY DEF InsertStore
<1>2. t \in Threads /\ pc[t] = "ins_store" /\ pc' = [pc EXCEPT ![t] = "ins_unlock"]
  BY <1>1 DEF Goto, Threads
<1>3. /\ nInserting \in Nat /\ nStoring \in Nat /\ nStored \in Nat
      /\ nRemoving \in Nat /\ nTaking \in Nat
      /\ nInserting' = nInserting /\ nStoring' = nStoring - 1 /\ nStored' = nStored + 1
      /\ nRemoving' = nRemoving /\ nTaking' = nTaking
  BY ProducerAccounting, <1>1 DEF In, InsertPCs, StoringPCs, StoredPCs
<1>n. /\ N \in Nat \ {0} /\ IntMax \in Nat /\ MaxInserts \in Nat
      /\ slots \in Nat /\ items \in Nat /\ front \in Nat /\ rear \in Int
      /\ inserts \in 0 .. MaxInserts
      /\ Len(fifo) \in Nat
      /\ slots + items + nInserting + nRemoving = N
      /\ Len(fifo) = items + nStored + nTaking
      /\ Len(fifo) = rear - front
      /\ rear + nStoring = inserts
  BY Numbers
<1>p. nInserting = nStoring + nStored /\ nTaking <= nRemoving
  BY CountParts
<1>d. nStoring >= 1
  BY <1>2, Occupied, SbufAssumption DEF nStoring, StoringPCs
<1>e. Len(fifo) < N /\ rear + 1 <= IntMax /\ rear \in Nat
  BY <1>n, <1>3, <1>p, <1>d
<1>f. reg[t] = rear + 1 /\ item[t] \in Items /\ fifo \in Seq(Items)
  BY <1>2 DEF IInv, Locals, Stored, InsertPCs
<1>a. /\ slots' = slots /\ items' = items /\ inserts' = inserts /\ front' = front
      /\ rear' = rear + 1 /\ fifo' = Append(fifo, item[t])
      /\ mutex' = mutex /\ reg' = reg /\ item' = item
  BY <1>f DEF InsertStore
<1>g. /\ fifo' \in Seq(Items) /\ Len(fifo') = Len(fifo) + 1
      /\ \A i \in 1 .. Len(fifo) : fifo'[i] = fifo[i]
      /\ fifo'[Len(fifo) + 1] = item[t]
  BY <1>a, <1>f
<1>b. /\ slots' + items' + nInserting' + nRemoving' = N
      /\ Len(fifo') = items' + nStored' + nTaking'
      /\ rear' + nStoring' = inserts' /\ front' \in Nat
      /\ rear' \in -IntMax - 1 .. IntMax
  BY <1>n, <1>3, <1>a, <1>e, <1>g
<1>4. SlotAccounting' /\ Cursors'
  BY <1>b DEF SlotAccounting, Cursors
<1>h. CMod(rear + 1, N) = (rear + 1) % N /\ (rear + 1) % N \in Slot
  BY <1>e, <1>n DEF CMod, Slot
<1>i. buf' = [i \in Slot |-> IF i = (rear + 1) % N THEN item[t] ELSE buf[i]]
  BY <1>f, <1>h DEF InsertStore
<1>c. /\ pc' \in [Threads -> {"idle"} \cup InsertPCs \cup RemovePCs]
      /\ buf' \in [Slot -> Items \cup {NoItem}]
  BY <1>2, <1>i, <1>f DEF IInv, TypeOK, InsertPCs
<1>j. fifo' \in Seq(Items \cup {NoItem})
  BY <1>f, <1>a DEF IInv, TypeOK
<1>5. TypeOK'
  BY <1>a, <1>b, <1>c, <1>j DEF IInv, TypeOK
<1>6. MutualExclusion'
  BY <1>2, <1>a DEF IInv, MutualExclusion, TypeOK, InCS, At, LockedPCs, Threads
<1>7. RingContents'
  <2>1. Len(fifo') = rear' - front'
    BY <1>n, <1>a, <1>g
  <2>2. ASSUME NEW i \in 1 .. Len(fifo)  PROVE buf'[(front' + i) % N] = fifo'[i]
    <3>1. front + i \in Nat /\ front + i < rear + 1 /\ (rear + 1) - (front + i) < N
      BY <1>n, <1>e
    <3>a. N \in Nat \ {0} /\ rear + 1 \in Nat
      BY <1>n, <1>e
    <3>b. (front + i) % N # (rear + 1) % N
      BY <3>1, <3>a, ModInjective
    <3>2. (front + i) % N # (rear + 1) % N /\ (front + i) % N \in Slot
      BY <3>1, <3>a, <3>b DEF Slot
    <3>3. buf[(front + i) % N] = fifo[i]
      BY DEF IInv, RingContents
    <3>. QED
      BY <3>2, <3>3, <1>i, <1>a, <1>g
  <2>3. buf'[(front' + (Len(fifo) + 1)) % N] = fifo'[Len(fifo) + 1]
    <3>1. front + (Len(fifo) + 1) = rear + 1
      BY <1>n
    <3>. QED
      BY <3>1, <1>h, <1>i, <1>a, <1>g
  <2>4. \A i \in 1 .. Len(fifo') : i \in 1 .. Len(fifo) \/ i = Len(fifo) + 1
    BY <1>g, <1>n
  <2>. QED
    BY <2>1, <2>2, <2>3, <2>4 DEF RingContents
<1>8. Sides' /\ Stored'
  BY <1>2, <1>g, SbufAssumption DEF IInv, Sides, Stored, TypeOK, Threads, InsertPCs
<1>9. Locals'
  <2>1. \A u \in Threads : pc[u] \in LockedPCs => u = t
    BY <1>2 DEF IInv, MutualExclusion, InCS, At, LockedPCs
  <2>. QED
    BY <1>2, <1>a, <2>1, SbufAssumption
    DEF IInv, Locals, TypeOK, Threads, InsertPCs, LockedPCs
<1>. QED
  BY <1>4, <1>5, <1>6, <1>7, <1>8, <1>9, <1>e, <1>f DEF IInv

(* sbuf_remove's load keeps the invariant: it reads the oldest item. *)
LEMMA RemoveStoreStep ==
  ASSUME IInv, NEW t \in Consumers, MaxInserts <= IntMax, RemoveStore(t)
  PROVE  /\ IInv'
         /\ fifo # <<>>
         /\ fifo' = Tail(fifo)
         /\ item' = [item EXCEPT ![t] = Head(fifo)]
<1>1. Goto(t, "rem_store", "rem_unlock")
  BY DEF RemoveStore
<1>2. t \in Threads /\ pc[t] = "rem_store" /\ pc' = [pc EXCEPT ![t] = "rem_unlock"]
  BY <1>1 DEF Goto, Threads
<1>3. /\ nInserting \in Nat /\ nStoring \in Nat /\ nStored \in Nat
      /\ nRemoving \in Nat /\ nTaking \in Nat
      /\ nInserting' = nInserting /\ nStoring' = nStoring /\ nStored' = nStored
      /\ nRemoving' = nRemoving /\ nTaking' = nTaking - 1
  BY ConsumerAccounting, <1>1 DEF In, RemovePCs, TakingPCs
<1>n. /\ N \in Nat \ {0} /\ IntMax \in Nat /\ MaxInserts \in Nat
      /\ slots \in Nat /\ items \in Nat /\ front \in Nat /\ rear \in Int
      /\ inserts \in 0 .. MaxInserts
      /\ Len(fifo) \in Nat
      /\ slots + items + nInserting + nRemoving = N
      /\ Len(fifo) = items + nStored + nTaking
      /\ Len(fifo) = rear - front
      /\ rear + nStoring = inserts
  BY Numbers
<1>d. nTaking >= 1
  BY <1>2, Occupied, SbufAssumption DEF nTaking, TakingPCs
<1>e. Len(fifo) >= 1 /\ front + 1 <= IntMax
  BY <1>n, <1>3, <1>d
<1>f. reg[t] = front + 1 /\ fifo \in Seq(Items)
  BY <1>2 DEF IInv, Locals, Stored
<1>h. CMod(front + 1, N) = (front + 1) % N /\ (front + 1) % N \in Slot
  BY <1>n DEF CMod, Slot
<1>i. buf[(front + 1) % N] = Head(fifo) /\ fifo # <<>>
  BY <1>e, <1>n, <1>f DEF IInv, RingContents
<1>a. /\ slots' = slots /\ items' = items /\ inserts' = inserts /\ rear' = rear
      /\ front' = front + 1 /\ fifo' = Tail(fifo)
      /\ mutex' = mutex /\ reg' = reg /\ buf' = buf
      /\ item' = [item EXCEPT ![t] = Head(fifo)]
  BY Zenon, <1>f, <1>h, <1>i DEF RemoveStore
<1>g. /\ fifo' \in Seq(Items) /\ Len(fifo') = Len(fifo) - 1
      /\ \A i \in 1 .. Len(fifo') : fifo'[i] = fifo[i + 1]
      /\ Head(fifo) \in Items
  BY <1>a, <1>f, <1>i
<1>b. /\ slots' + items' + nInserting' + nRemoving' = N
      /\ Len(fifo') = items' + nStored' + nTaking'
      /\ rear' + nStoring' = inserts' /\ front' \in Nat
      /\ front' \in -IntMax - 1 .. IntMax
  BY <1>n, <1>3, <1>a, <1>e, <1>g
<1>4. SlotAccounting' /\ Cursors'
  BY <1>b DEF SlotAccounting, Cursors
<1>c. /\ pc' \in [Threads -> {"idle"} \cup InsertPCs \cup RemovePCs]
      /\ item' \in [Threads -> Items \cup {NoItem}]
  BY <1>2, <1>a, <1>g DEF IInv, TypeOK, RemovePCs
<1>j. fifo' \in Seq(Items \cup {NoItem})
  BY <1>i, <1>a DEF IInv, TypeOK
<1>5. TypeOK'
  BY <1>a, <1>b, <1>c, <1>j DEF IInv, TypeOK
<1>6. MutualExclusion'
  BY <1>2, <1>a DEF IInv, MutualExclusion, TypeOK, InCS, At, LockedPCs, Threads
<1>7. RingContents'
  <2>1. Len(fifo') = rear' - front'
    BY <1>n, <1>a, <1>g
  <2>2. ASSUME NEW i \in 1 .. Len(fifo')  PROVE buf'[(front' + i) % N] = fifo'[i]
    <3>1. i + 1 \in 1 .. Len(fifo) /\ front' + i = front + (i + 1)
      BY <1>g, <1>n, <1>a
    <3>2. buf[(front + (i + 1)) % N] = fifo[i + 1]
      BY <3>1 DEF IInv, RingContents
    <3>. QED
      BY <3>1, <3>2, <1>a, <1>g
  <2>. QED
    BY <2>1, <2>2 DEF RingContents
<1>8. Sides' /\ Stored'
  BY <1>2, <1>g, SbufAssumption DEF IInv, Sides, Stored, TypeOK, Threads, RemovePCs
<1>9. Locals'
  <2>1. \A u \in Threads : pc[u] \in LockedPCs => u = t
    BY <1>2 DEF IInv, MutualExclusion, InCS, At, LockedPCs
  <2>. QED
    BY <1>2, <1>a, <2>1, SbufAssumption
    DEF IInv, Locals, TypeOK, Threads, RemovePCs, LockedPCs
<1>. QED
  BY <1>4, <1>5, <1>6, <1>7, <1>8, <1>9, <1>a, <1>i DEF IInv

-----------------------------------------------------------------------------
(* The initial buffer of sbuf_init satisfies the invariant. *)
LEMMA InitIInv ==
  ASSUME Init
  PROVE  IInv
<1>1. \A S, L : S \subseteq Threads /\ "idle" \notin L => At(S, L) = {}
  BY DEF Init, At
<1>2. /\ At(Producers, InsertPCs) = {} /\ At(Producers, StoringPCs) = {}
      /\ At(Producers, StoredPCs) = {} /\ At(Consumers, RemovePCs) = {}
      /\ At(Consumers, TakingPCs) = {} /\ InCS = {}
  BY <1>1 DEF InsertPCs, StoringPCs, StoredPCs, RemovePCs, TakingPCs, LockedPCs,
              Threads, InCS
<1>3. /\ nInserting = 0 /\ nStoring = 0 /\ nStored = 0
      /\ nRemoving = 0 /\ nTaking = 0
  BY <1>2, FS_EmptySet DEF nInserting, nStoring, nStored, nRemoving, nTaking
<1>4. TypeOK
  BY SbufAssumption DEF Init, TypeOK
<1>5. SlotAccounting /\ Cursors
  BY <1>3, SbufAssumption DEF Init, SlotAccounting, Cursors
<1>6. MutualExclusion
  BY <1>2 DEF Init, MutualExclusion
<1>7. RingContents /\ Stored
  BY DEF Init, RingContents, Stored
<1>8. Sides /\ Locals
  BY DEF Init, Sides, Locals, Threads, InsertPCs
<1>. QED
  BY <1>4, <1>5, <1>6, <1>7, <1>8 DEF IInv

(* Every step of every thread keeps the invariant. *)
LEMMA NextIInv ==
  ASSUME IInv, MaxInserts <= IntMax, [Next]_vars
  PROVE  IInv'
<1>1. CASE UNCHANGED vars
  <2>1. /\ UNCHANGED <<buf, front, rear, mutex, slots, items, pc, reg, item, inserts, fifo>>
    BY <1>1 DEF vars
  <2>. QED
    BY Zenon, <2>1 DEF IInv, TypeOK, MutualExclusion, SlotAccounting, RingContents, Sides,
                Locals, Cursors, Stored, InCS, At, nInserting, nStoring, nStored,
                nRemoving, nTaking
<1>2. ASSUME NEW t \in Producers, NEW x \in Items, InsertWait(t, x)  PROVE IInv'
  BY <1>2, InsertWaitStep
<1>3. ASSUME NEW t \in Producers, InsertStep(t)  PROVE IInv'
  BY <1>3, InsertLockStep, InsertLoadStep, InsertStoreStep, InsertUnlockStep,
     InsertPostStep DEF InsertStep
<1>4. ASSUME NEW t \in Consumers, RemoveStep(t)  PROVE IInv'
  BY <1>4, RemoveWaitStep, RemoveLockStep, RemoveLoadStep, RemoveStoreStep,
     RemoveUnlockStep, RemovePostStep DEF RemoveStep
<1>. QED
  BY <1>1, <1>2, <1>3, <1>4 DEF Next

(* As long as the int cursors do not overflow, sbuf_insert and sbuf_remove *)
(* keep the whole inductive invariant, for any number of slots and threads.*)
THEOREM Invariance == ASSUME MaxInserts <= IntMax PROVE Spec => []IInv
<1>1. Init => IInv
  BY InitIInv
<1>2. IInv /\ [Next]_vars => IInv'
  BY NextIInv
<1>. QED
  BY <1>1, <1>2, PTL DEF Spec

(* The index with which sbuf_insert is about to store, and the one with    *)
(* which sbuf_remove is about to load, is that of a slot.                  *)
IndicesInside ==
  \A t \in Threads : pc[t] \in {"ins_store", "rem_store"} => CMod(reg[t], N) \in Slot

(* No access to sp->buf is outside the array, for any number of slots and  *)
(* threads, as long as no cursor overflows.                                *)
THEOREM InsideTheArray == ASSUME MaxInserts <= IntMax PROVE Spec => []IndicesInside
<1>1. IInv => IndicesInside
  <2>. SUFFICES ASSUME IInv, NEW t \in Threads, pc[t] \in {"ins_store", "rem_store"}
       PROVE CMod(reg[t], N) \in Slot
    BY DEF IndicesInside
  <2>1. /\ N \in Nat \ {0} /\ front \in Nat /\ rear \in Int
        /\ Len(fifo) \in Nat /\ Len(fifo) = rear - front
    BY Numbers
  <2>2. reg[t] = rear + 1 \/ reg[t] = front + 1
    BY DEF IInv, Locals, Sides, Threads, InsertPCs, RemovePCs
  <2>3. reg[t] \in Nat
    BY <2>1, <2>2
  <2>. QED
    BY <2>1, <2>3 DEF CMod, Slot
<1>. QED
  BY <1>1, Invariance, PTL

(* sp->mutex protects the buffer: one thread at a time between P and V. *)
THEOREM Exclusion == ASSUME MaxInserts <= IntMax PROVE Spec => []MutualExclusion
<1>1. IInv => MutualExclusion
  BY DEF IInv
<1>. QED
  BY <1>1, Invariance, PTL

(* sp->slots and sp->items account for every slot of the buffer. *)
THEOREM Accounting == ASSUME MaxInserts <= IntMax PROVE Spec => []SlotAccounting
<1>1. IInv => SlotAccounting
  BY DEF IInv
<1>. QED
  BY <1>1, Invariance, PTL

(* The ring holds exactly the items inserted and not yet removed, in order.*)
THEOREM Contents == ASSUME MaxInserts <= IntMax PROVE Spec => []RingContents
<1>1. IInv => RingContents
  BY DEF IInv
<1>. QED
  BY <1>1, Invariance, PTL

(* The comments of sbuf.h on front and rear hold: buf[(front+1)%n] is the  *)
(* first item and buf[rear%n] the last, as long as no cursor overflows.    *)
THEOREM FirstAndLast == ASSUME MaxInserts <= IntMax PROVE Spec => []FirstAndLastItem
<1>1. IInv => FirstAndLastItem
  <2>. SUFFICES ASSUME IInv, fifo # <<>>
       PROVE /\ CMod(Succ(front), N) \in Slot /\ buf[CMod(Succ(front), N)] = Head(fifo)
             /\ CMod(rear, N) \in Slot /\ buf[CMod(rear, N)] = fifo[Len(fifo)]
    BY DEF FirstAndLastItem
  <2>1. /\ N \in Nat \ {0} /\ IntMax \in Nat /\ MaxInserts \in Nat
        /\ front \in Nat /\ rear \in Int /\ inserts \in 0 .. MaxInserts
        /\ Len(fifo) \in Nat
        /\ Len(fifo) = rear - front
        /\ rear + nStoring = inserts
    BY Numbers
  <2>2. nStoring \in Nat
    BY SbufAssumption, FS_Subset, FS_CardinalityType DEF nStoring, At
  <2>3. fifo \in Seq(Items)
    BY DEF IInv, Stored
  <2>4. Len(fifo) >= 1 /\ Head(fifo) = fifo[1]
    BY <2>1, <2>3
  <2>5. Succ(front) = front + 1 /\ rear \in Nat /\ front + Len(fifo) = rear
    BY <2>1, <2>2, <2>4 DEF Succ
  <2>6. /\ CMod(front + 1, N) = (front + 1) % N /\ (front + 1) % N \in Slot
        /\ CMod(rear, N) = rear % N /\ rear % N \in Slot
    BY <2>1, <2>5 DEF CMod, Slot
  <2>7. buf[(front + 1) % N] = fifo[1] /\ buf[(front + Len(fifo)) % N] = fifo[Len(fifo)]
    BY <2>1, <2>4 DEF IInv, RingContents
  <2>. QED
    BY <2>4, <2>5, <2>6, <2>7
<1>. QED
  BY <1>1, Invariance, PTL

(* Every step of sbuf_insert or sbuf_remove is a step of the FIFO or       *)
(* changes nothing that the FIFO's callers see.                            *)
LEMMA FIFOStep ==
  ASSUME IInv, MaxInserts <= IntMax, [Next]_vars
  PROVE  [FIFO!FIFONext]_(FIFO!fifoVars)
<1> DEFINE got == [c \in Consumers |-> item[c]]
<1>1. ASSUME UNCHANGED <<fifo, item>>  PROVE UNCHANGED FIFO!fifoVars
  BY <1>1 DEF FIFO!fifoVars
<1>2. ASSUME NEW t \in Producers, NEW x \in Items, InsertWait(t, x)
      PROVE  UNCHANGED FIFO!fifoVars
  <2>1. fifo' = fifo /\ item' = [item EXCEPT ![t] = x] /\ t \notin Consumers
    BY <1>2, SbufAssumption DEF InsertWait
  <2>2. \A c \in Consumers : item'[c] = item[c]
    BY <2>1 DEF IInv, TypeOK, Threads
  <2>. QED
    BY <2>1, <2>2 DEF FIFO!fifoVars
<1>3. ASSUME NEW t \in Producers, InsertStore(t)  PROVE FIFO!Insert(item[t])
  <2>1. Len(fifo) < N /\ fifo' = Append(fifo, item[t]) /\ item' = item
    BY <1>3, InsertStoreStep DEF InsertStore
  <2>. QED
    BY <2>1 DEF FIFO!Insert
<1>4. ASSUME NEW t \in Producers, InsertStore(t)  PROVE FIFO!FIFONext
  BY <1>3, <1>4, InsertStoreStep DEF FIFO!FIFONext
<1>5. ASSUME NEW t \in Consumers, RemoveStore(t)  PROVE FIFO!Remove(t)
  <2>1. fifo # <<>> /\ fifo' = Tail(fifo) /\ item' = [item EXCEPT ![t] = Head(fifo)]
    BY <1>5, RemoveStoreStep
  <2>2. [c \in Consumers |-> item'[c]] = [got EXCEPT ![t] = Head(fifo)]
    BY Zenon, <2>1 DEF IInv, TypeOK, Threads
  <2>. QED
    BY <2>1, <2>2 DEF FIFO!Remove
<1>6. ASSUME NEW t \in Producers, InsertStep(t), ~InsertStore(t)
      PROVE  UNCHANGED <<fifo, item>>
  BY <1>6 DEF InsertStep, InsertLock, InsertLoad, InsertUnlock, InsertPost, Lock, Unlock
<1>7. ASSUME NEW t \in Consumers, RemoveStep(t), ~RemoveStore(t)
      PROVE  UNCHANGED <<fifo, item>>
  BY <1>7 DEF RemoveStep, RemoveWait, RemoveLock, RemoveLoad, RemoveUnlock, RemovePost,
              Lock, Unlock
<1>8. ASSUME UNCHANGED vars  PROVE UNCHANGED <<fifo, item>>
  BY <1>8 DEF vars
<1>9. CASE UNCHANGED vars
  BY <1>1, <1>8, <1>9
<1>10. CASE \E t \in Producers, x \in Items : InsertWait(t, x)
  BY <1>2, <1>10
<1>11. CASE \E t \in Producers : InsertStep(t)
  BY <1>1, <1>4, <1>6, <1>11
<1>12. CASE \E t \in Consumers : RemoveStep(t)
  BY <1>1, <1>5, <1>7, <1>12 DEF FIFO!FIFONext
<1>. QED
  BY <1>9, <1>10, <1>11, <1>12 DEF Next

(* The semaphore code implements the bounded FIFO that sbuf.c promises,    *)
(* for every number of slots and threads, while no cursor overflows.       *)
THEOREM Refinement == ASSUME MaxInserts <= IntMax PROVE Spec => ImplementsFIFO
<1>1. Init => FIFO!FIFOInit
  BY DEF Init, FIFO!FIFOInit, Threads
<1>2. IInv /\ [Next]_vars => [FIFO!FIFONext]_(FIFO!fifoVars)
  BY FIFOStep
<1>. QED
  BY <1>1, <1>2, Invariance, PTL DEF Spec, ImplementsFIFO, FIFO!FIFOSpec
=============================================================================
