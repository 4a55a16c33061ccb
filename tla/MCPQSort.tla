------------------------------ MODULE MCPQSort ------------------------------
(* An instance of PQSort for TLC: arrays of four elements over three       *)
(* values, sorted and partitioned serially and by threads, and arrays of   *)
(* seven on which two sort threads run at a time.                          *)
EXTENDS PQSort

MCCalls ==
  [array : [0 .. 3 -> 1 .. 3], sort : {1, 3}, partition : {1, 2}]
    \cup [array : {[i \in 0 .. 6 |-> s[i + 1]] : s \in {<<3, 1, 2, 4, 7, 6, 5>>, <<6, 7, 5, 4, 2, 2, 1>>}},
          sort : {3}, partition : {1, 2}]

MCThreads ==
  LET ranges == {r \in (0 .. 6) \X (3 .. 7) : r[1] + r[2] <= 7}
  IN {SortThread(r[1], r[2]) : r \in ranges}
       \cup {CopyThread(r[1], r[2], b) : r \in ranges, b \in 0 .. 2}
       \cup {PartitionThread(r[1], r[2], b) : r \in ranges, b \in 0 .. 2}

MCQueues == {Main} \cup {t \in MCThreads : t[1] = "sort"}
=============================================================================
