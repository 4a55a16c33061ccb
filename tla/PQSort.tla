------------------------------- MODULE PQSort -------------------------------
(***************************************************************************)
(* The parallel quicksort of CMU15-213/26-parallelism/pqsort/pqsort.c.     *)
(* tqsort sorts small ranges itself and spawns a sort_thread for others; a *)
(* sort_thread partitions its range, serially or with the threads of two   *)
(* further queues (copy to scratch, then partition blocks of it back), and *)
(* does the same for the two sides.                                        *)
(*                                                                         *)
(* Arrays are functions on 0 .. N-1, and ranges a base and nele.  A step   *)
(* is a call of spawn_task or join_tasks, a critical section, or the work  *)
(* on the thread's own range in between.                                   *)
(***************************************************************************)
EXTENDS Integers, FiniteSets, FiniteSetsExt, Functions, TLC, TaskQueue

CONSTANT
  Calls   \* calls of tqsort: the array, as a function on 0 .. n - 1, and the
          \* values of serial_sort_fraction and serial_partition_fraction

VARIABLES
  input,          \* history: the array to be sorted
  data,           \* base[]
  scratch,        \* scratch_base[]
  max_sort,       \* nele_max_sort_serial
  max_partition,  \* nele_max_partition_serial
  main,           \* where tqsort is
  local           \* local[t]: the locals of the running thread t

vars == <<queueVars, input, data, scratch, max_sort, max_partition, main, local>>
settings == <<input, max_sort, max_partition>>

N == Cardinality(DOMAIN input)

Main == <<"main">>
SortThread(base, nele) == <<"sort", base, nele>>
CopyThread(base, nele, b) == <<"copy", base, nele, b>>
PartitionThread(base, nele, b) == <<"partition", base, nele, b>>

-----------------------------------------------------------------------------
(* The serial functions, on an array a. *)
swap(a, i, j) == [a EXCEPT ![i] = a[j], ![j] = a[i]]

pivot(base, nele) == base + nele \div 2

(* The loop goes from an array, left and right to the next ones, until     *)
(* left and right have met.                                                *)
partition_sweep(a, base, nele, pval) ==
  LET sweep[x \in [DOMAIN a -> Nat], left \in Nat, right \in Int] ==
        LET l == Min({i \in left .. right + 1 : i = right + 1 \/ x[i] > pval})
            r == Max({i \in l - 1 .. right : i = l - 1 \/ x[i] < pval})
        IN IF l < r THEN sweep[swap(x, l, r), l + 1, r - 1]
           ELSE [a |-> x, left |-> l - base]
  IN sweep[a, base, base + nele - 1]

partition_serial(a, base, nele) ==
  LET p == pivot(base, nele)
      last == base + nele - 1
      s == partition_sweep(swap(a, p, last), base, nele - 1, a[p])
  IN [a |-> swap(s.a, base + s.left, last), left |-> s.left]

qsort_serial(a, base, nele) ==
  LET sort[x \in [DOMAIN a -> Nat], b \in Nat, n \in Nat] ==
        LET s == partition_serial(x, b, n)
            m == s.left
            left == IF m > 1 THEN sort[s.a, b, m] ELSE s.a
        IN CASE n <= 1 -> x
             [] n = 2 -> IF x[b] > x[b + 1] THEN swap(x, b, b + 1) ELSE x
             [] OTHER -> IF n - 1 > m + 1 THEN sort[left, b + m + 1, n - m - 1] ELSE left
  IN sort[a, base, nele]

-----------------------------------------------------------------------------
(* init_task's cutover for a fraction. *)
Cutover(fraction) ==
  IF fraction > 1 THEN Max({2, N \div fraction}) ELSE N

Init ==
  /\ QueueInit
  /\ \E c \in Calls :
       /\ input = c.array
       /\ max_sort = Cutover(c.sort)
       /\ max_partition = Cutover(c.partition)
  /\ data = input
  /\ scratch = [i \in DOMAIN input |-> 0]
  /\ main = "helper"
  /\ local = <<>>

NewSortThread == [pc |-> "partition", b |-> 0, m |-> 0, pval |-> 0, left |-> 0, right |-> 0]
NewBlockThread == [pc |-> "start", left |-> 0, at |-> 0, right |-> 0]

(* A thread starts with its arguments; the spawning thread s moves on.     *)
Started(t, new) == local' = local @@ (t :> new)
StartedBy(s, upd, t, new) == local' = [local EXCEPT ![s] = upd] @@ (t :> new)

(* tqsort_helper sorts a range itself. *)
SortsItself(base, nele) ==
  /\ nele <= max_sort
  /\ data' = qsort_serial(data, base, nele)
  /\ UNCHANGED queueVars

(* tqsort_helper spawns a sort_thread for a range. *)
Spawns(base, nele) ==
  /\ nele > max_sort
  /\ spawn_task(Main, SortThread(base, nele))
  /\ UNCHANGED data

(* tqsort: the first call of tqsort_helper. *)
MainHelper ==
  /\ main = "helper"
  /\ main' = "join"
  /\ \/ SortsItself(0, N) /\ UNCHANGED local
     \/ Spawns(0, N) /\ Started(SortThread(0, N), NewSortThread)
  /\ UNCHANGED <<settings, scratch>>

(* tqsort: join_tasks and the return. *)
MainJoin ==
  /\ main = "join"
  /\ \/ join_tasks(Main) /\ UNCHANGED main
     \/ Joined(Main) /\ main' = "returned" /\ UNCHANGED queueVars
  /\ UNCHANGED <<settings, data, scratch, local>>

-----------------------------------------------------------------------------
(* Number and extent of the blocks of dcopy_parallel and                   *)
(* partition_parallel, for the nele - 1 elements other than the pivot.     *)
Blocks(nele) == (nele - 1 + max_partition - 1) \div max_partition

BlockSize(nele) == (nele - 1) \div Blocks(nele)

BlockLength(nele, b) ==
  IF b < Blocks(nele) - 1 THEN BlockSize(nele) ELSE nele - 1 - b * BlockSize(nele)

BlockStart(base, nele, b) == base + b * BlockSize(nele)

At(t, pc) == t \in running /\ local[t].pc = pc

(* partition: serially, or the first steps of partition_parallel. *)
Partition(base, nele) ==
  LET t == SortThread(base, nele)
      p == pivot(base, nele)
  IN /\ At(t, "partition")
     /\ \/ /\ nele <= max_partition
           /\ \E s \in {partition_serial(data, base, nele)} :
                /\ data' = s.a
                /\ local' = [local EXCEPT ![t].pc = "left", ![t].m = s.left]
        \/ /\ nele > max_partition
           /\ data' = swap(data, p, base + nele - 1)
           /\ local' = [local EXCEPT ![t].pc = "copy", ![t].pval = data[p]]
     /\ UNCHANGED <<queueVars, settings, scratch, main>>

(* A loop of spawn_task, one thread per block, on a queue of its own. *)
SpawnBlocks(base, nele, pc, next, kind) ==
  LET t == SortThread(base, nele)
      b == local[t].b
      c == <<kind, base, nele, b>>    \* a CopyThread or a PartitionThread
  IN /\ At(t, pc)
     /\ spawn_task(t, c)
     /\ StartedBy(t, IF b + 1 < Blocks(nele) THEN [local[t] EXCEPT !.b = b + 1]
                     ELSE [local[t] EXCEPT !.b = 0, !.pc = next],
                  c, NewBlockThread)
     /\ UNCHANGED <<settings, data, scratch, main>>

(* dcopy_parallel: join_tasks, and then init_partition. *)
JoinCopies(base, nele) ==
  LET t == SortThread(base, nele)
  IN /\ At(t, "joinCopies")
     /\ \/ join_tasks(t) /\ UNCHANGED local
        \/ /\ Joined(t)
           /\ local' = [local EXCEPT ![t].pc = "blocks", ![t].left = 0, ![t].right = nele - 1]
           /\ UNCHANGED queueVars
     /\ UNCHANGED <<settings, data, scratch, main>>

(* partition_parallel: join_tasks, and then the pivot is swapped back. *)
JoinBlocks(base, nele) ==
  LET t == SortThread(base, nele)
      m == local[t].left
  IN /\ At(t, "joinBlocks")
     /\ \/ join_tasks(t) /\ UNCHANGED <<data, local>>
        \/ /\ Joined(t)
           /\ data' = swap(data, base + m, base + nele - 1)
           /\ local' = [local EXCEPT ![t].pc = "left", ![t].m = m]
           /\ UNCHANGED queueVars
     /\ UNCHANGED <<settings, scratch, main>>

(* sort_thread: tqsort_helper for the left side. *)
SortLeft(base, nele) ==
  LET t == SortThread(base, nele)
      m == local[t].m
      upd == [local[t] EXCEPT !.pc = "right"]
  IN /\ At(t, "left")
     /\ \/ /\ m <= 1
           /\ local' = [local EXCEPT ![t] = upd]
           /\ UNCHANGED <<queueVars, data>>
        \/ m > 1 /\ SortsItself(base, m) /\ local' = [local EXCEPT ![t] = upd]
        \/ m > 1 /\ Spawns(base, m) /\ StartedBy(t, upd, SortThread(base, m), NewSortThread)
     /\ UNCHANGED <<settings, scratch, main>>

(* sort_thread: tqsort_helper for the right side. *)
SortRight(base, nele) ==
  LET t == SortThread(base, nele)
      m == local[t].m
      upd == [local[t] EXCEPT !.pc = "return"]
      rbase == base + m + 1
      rnele == nele - m - 1
  IN /\ At(t, "right")
     /\ \/ /\ nele - 1 <= m + 1
           /\ local' = [local EXCEPT ![t] = upd]
           /\ UNCHANGED <<queueVars, data>>
        \/ /\ nele - 1 > m + 1
           /\ \/ SortsItself(rbase, rnele) /\ local' = [local EXCEPT ![t] = upd]
              \/ Spawns(rbase, rnele)
                   /\ StartedBy(t, upd, SortThread(rbase, rnele), NewSortThread)
     /\ UNCHANGED <<settings, scratch, main>>

(* A routine returns; its locals are gone. *)
Return(t) ==
  /\ EndThread(t)
  /\ local' = [u \in DOMAIN local \ {t} |-> local[u]]

SortReturns(base, nele) ==
  /\ At(SortThread(base, nele), "return")
  /\ Return(SortThread(base, nele))
  /\ UNCHANGED <<settings, data, scratch, main>>

-----------------------------------------------------------------------------
(* bcopy of n elements. *)
Copied(dest, to, src, from, n) ==
  [i \in DOMAIN dest |-> IF i \in to .. to + n - 1 THEN src[from + i - to] ELSE dest[i]]

(* copy_thread *)
Copy(base, nele, b) ==
  LET t == CopyThread(base, nele, b)
      at == BlockStart(base, nele, b)
  IN /\ At(t, "start")
     /\ scratch' = Copied(scratch, at, data, at, BlockLength(nele, b))
     /\ Return(t)
     /\ UNCHANGED <<settings, data, main>>

(* partition_thread: the sweep over the thread's block of scratch. *)
SweepBlock(base, nele, b) ==
  LET t == PartitionThread(base, nele, b)
      pval == local[SortThread(base, nele)].pval
  IN /\ At(t, "start")
     /\ \E s \in {partition_sweep(scratch, BlockStart(base, nele, b),
                                 BlockLength(nele, b), pval)} :
          /\ scratch' = s.a
          /\ local' = [local EXCEPT ![t].pc = "reserve", ![t].left = s.left]
     /\ UNCHANGED <<queueVars, settings, data, main>>

(* Plausible slip: the old next_right_index is used. *)
ReserveRightFirst(base, nele, b) ==
  LET t == PartitionThread(base, nele, b)
      par == SortThread(base, nele)
      nleft == local[t].left
      nright == BlockLength(nele, b) - nleft
  IN /\ At(t, "reserve")
     /\ local' = [local EXCEPT ![t].pc = "move", ![t].at = local[par].left,
                               ![t].right = local[par].right - 1,
                               ![par].left = @ + nleft, ![par].right = @ - nright]
     /\ UNCHANGED <<queueVars, settings, data, scratch, main>>

(* partition_thread: the critical section of par->mutex. *)
Reserve(base, nele, b) ==
  LET t == PartitionThread(base, nele, b)
      par == SortThread(base, nele)
      nleft == local[t].left
      nright == BlockLength(nele, b) - nleft
  IN /\ At(t, "reserve")
     /\ local' = [local EXCEPT ![t].pc = "move", ![t].at = local[par].left,
                               ![t].right = local[par].right - nright,
                               ![par].left = @ + nleft, ![par].right = @ - nright]
     /\ UNCHANGED <<queueVars, settings, data, scratch, main>>

(* partition_thread: the two calls of bcopy. *)
Move(base, nele, b) ==
  LET t == PartitionThread(base, nele, b)
      from == BlockStart(base, nele, b)
      nleft == local[t].left
      nright == BlockLength(nele, b) - nleft
      left == Copied(data, base + local[t].at, scratch, from, nleft)
  IN /\ At(t, "move")
     /\ data' = Copied(left, base + local[t].right, scratch, from + nleft, nright)
     /\ Return(t)
     /\ UNCHANGED <<settings, scratch, main>>

BlockStep(base, nele, b) ==
  Copy(base, nele, b) \/ SweepBlock(base, nele, b) \/ Reserve(base, nele, b)
    \/ Move(base, nele, b)

SortStep(base, nele) ==
  \/ Partition(base, nele)
  \/ SpawnBlocks(base, nele, "copy", "joinCopies", "copy")
  \/ JoinCopies(base, nele)
  \/ SpawnBlocks(base, nele, "blocks", "joinBlocks", "partition")
  \/ JoinBlocks(base, nele)
  \/ SortLeft(base, nele) \/ SortRight(base, nele) \/ SortReturns(base, nele)

Next ==
  \/ MainHelper \/ MainJoin
  \/ \E t \in running :
       \/ t[1] = "sort" /\ SortStep(t[2], t[3])
       \/ t[1] # "sort" /\ BlockStep(t[2], t[3], t[4])

(* Some thread that can go on does. *)
Spec == Init /\ [][Next]_vars /\ WF_vars(Next)

-----------------------------------------------------------------------------
Occurrences(a, v) == Cardinality({i \in DOMAIN a : a[i] = v})

(* tqsort returns with the array sorted: the elements are those of the     *)
(* input and in order, however the threads of all queues interleave.       *)
SortedOnReturn ==
  main = "returned" =>
    /\ \A v \in Range(input) \cup Range(data) : Occurrences(data, v) = Occurrences(input, v)
    /\ \A i \in 0 .. N - 2 : data[i] <= data[i + 1]

(* tqsort returns: no join waits for ever. *)
TqsortReturns == <>(main = "returned")
=============================================================================
