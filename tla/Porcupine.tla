------------------------------ MODULE Porcupine ------------------------------
(***************************************************************************)
(* The linearizability checker of MIT-6.5840 porcupine/checker.go with the *)
(* key/value model of models/kv.go: checkOperations partitions a history   *)
(* by key, and checkParallel runs checkSingle on every part in a goroutine *)
(* of its own until all have answered, one has found its part illegal, or  *)
(* the timer fires.                                                        *)
(*                                                                         *)
(* checkSingle searches with backtracking on a doubly linked list of calls *)
(* and returns from which it lifts the operations it has linearized.  Node *)
(* 0 is the head, node k the k-th entry, Nil no node.  One step is one     *)
(* iteration of its loop.  A bitset is a set of ids and the cache a set of *)
(* pairs: equal bitsets have equal hashes, so the buckets make no          *)
(* difference.                                                             *)
(***************************************************************************)
EXTENDS Integers, FiniteSets, SequencesExt

CONSTANT Histories    \* sequences of operations with op, key, value, out, call and return

VARIABLES
  history, verbose, hasTimeout,   \* the arguments of checkOperations
  entries,                        \* entries[i]: the i-th part as a list of entries
  main, count, ok, timedOut,      \* checkParallel
  results, kill,                  \* the channel and the flag it shares with checkSingle
  next, prev, entry, calls, state, linearized, cache, longest,   \* checkSingle, by part
  running                         \* the parts whose goroutine has not ended

args == <<history, verbose, hasTimeout, entries>>
mainVars == <<main, count, ok, timedOut>>
searchVars == <<next, prev, entry, calls, state, linearized, cache, longest>>
vars == <<args, mainVars, results, kill, searchVars, running>>

Nil == -1
Parts == DOMAIN entries

-----------------------------------------------------------------------------
(* KvModel.Step on the value of one key. *)
StepOK(value, o) == o.op = "get" => o.out = value

NewState(value, o) ==
  CASE o.op = "get" -> value
    [] o.op = "put" -> o.value
    [] o.op = "append" -> value \o o.value

(* byTime.Less *)
Less(a, b) ==
  a.time < b.time \/ (a.time = b.time /\ a.kind = "call" /\ b.kind = "return")

(* makeEntries; an id is the place of the operation in its part. *)
makeEntries(ops) ==
  SetToSortSeq({[kind |-> "call", op |-> ops[k], id |-> k, time |-> ops[k].call] : k \in DOMAIN ops}
                 \cup
               {[kind |-> "return", op |-> ops[k], id |-> k, time |-> ops[k].return] : k \in DOMAIN ops},
               Less)

(* KvModel.Partition: one part per key. *)
Partition(h) ==
  LET keys == SetToSeq({h[k].key : k \in DOMAIN h})
  IN [i \in DOMAIN keys |-> SelectSeq(h, LAMBDA o : o.key = keys[i])]

(* The number of operations of part i, and the return entry of a call. *)
Size(i) == Len(entries[i]) \div 2

match(i, k) ==
  IF k = 0 \/ entries[i][k].kind = "return" THEN Nil
  ELSE CHOOSE m \in DOMAIN entries[i] :
         entries[i][m].kind = "return" /\ entries[i][m].id = entries[i][k].id

(* checkOperations up to the loops: makeLinkedEntries links all entries    *)
(* behind the head.                                                        *)
Init ==
  /\ history \in Histories
  /\ verbose \in BOOLEAN /\ hasTimeout \in BOOLEAN
  /\ entries = [i \in DOMAIN Partition(history) |-> makeEntries(Partition(history)[i])]
  /\ main = "select" /\ count = 0 /\ ok = TRUE /\ timedOut = FALSE
  /\ results = <<>> /\ kill = FALSE
  /\ next = [i \in Parts |-> [k \in 0 .. 2 * Size(i) |-> IF k = 2 * Size(i) THEN Nil ELSE k + 1]]
  /\ prev = [i \in Parts |-> [k \in 0 .. 2 * Size(i) |-> k - 1]]
  /\ entry = [i \in Parts |-> 1]
  /\ calls = [i \in Parts |-> <<>>]
  /\ state = [i \in Parts |-> <<>>]
  /\ linearized = [i \in Parts |-> {}]
  /\ cache = [i \in Parts |-> {}]
  /\ longest = [i \in Parts |-> [id \in 1 .. Size(i) |-> <<>>]]
  /\ running = Parts

-----------------------------------------------------------------------------
Ids(i, stack) == [j \in DOMAIN stack |-> entries[i][stack[j].entry].id]

(* Plausible slip: the channel has no buffer. *)
FinishUnbuffered(i, result) ==
  /\ main # "returned" /\ results = <<>>
  /\ running' = running \ {i}
  /\ results' = Append(results, result)
  /\ UNCHANGED <<args, mainVars, kill, next, prev, entry, calls, state, linearized, cache>>

(* checkSingle returns and its goroutine sends the result. *)
Finish(i, result) ==
  /\ running' = running \ {i}
  /\ results' = Append(results, result)
  /\ UNCHANGED <<args, mainVars, kill, next, prev, entry, calls, state, linearized, cache>>

(* The list is empty: everything has been linearized. *)
Linearized(i) ==
  /\ next[i][0] = Nil
  /\ longest' = [longest EXCEPT ![i] = [id \in DOMAIN @ |-> Ids(i, calls[i])]]
  /\ Finish(i, TRUE)

(* The kill flag is set. *)
Killed(i) ==
  /\ next[i][0] # Nil /\ kill
  /\ Finish(i, FALSE)
  /\ UNCHANGED longest

Looping(i) == next[i][0] # Nil /\ ~kill

(* Assign x to f[k] unless k is Nil. *)
Set(f, k, x) == IF k = Nil THEN f ELSE [f EXCEPT ![k] = x]

(* lift(e): the call e and its return leave the list. *)
lift(i, e) ==
  LET m == match(i, e)
      n1 == Set(next[i], prev[i][e], next[i][e])
      p1 == Set(prev[i], next[i][e], prev[i][e])
  IN /\ next' = [next EXCEPT ![i] = Set(n1, p1[m], n1[m])]
     /\ prev' = [prev EXCEPT ![i] = Set(p1, n1[m], p1[m])]

(* Plausible slip: the call goes back before its return does. *)
unliftCallFirst(i, e) ==
  LET m == match(i, e)
      n1 == Set(next[i], prev[i][e], e)
      p1 == Set(prev[i], next[i][e], e)
  IN /\ next' = [next EXCEPT ![i] = Set(n1, p1[m], n1[m])]
     /\ prev' = [prev EXCEPT ![i] = Set(p1, n1[m], m)]

(* unlift(e): they come back, in the opposite order. *)
unlift(i, e) ==
  LET m == match(i, e)
      n1 == Set(next[i], prev[i][m], m)
      p1 == Set(prev[i], next[i][m], m)
  IN /\ next' = [next EXCEPT ![i] = Set(n1, prev[i][e], e)]
     /\ prev' = [prev EXCEPT ![i] = Set(p1, next[i][e], e)]

(* The call at entry can be linearized next and leads somewhere new. *)
Extends(i) ==
  LET o == entries[i][entry[i]].op
      new == <<linearized[i] \cup {entries[i][entry[i]].id}, NewState(state[i], o)>>
  IN StepOK(state[i], o) /\ new \notin cache[i]

Linearize(i) ==
  LET e == entry[i]
      id == entries[i][e].id
      newState == NewState(state[i], entries[i][e].op)
  IN /\ Looping(i) /\ match(i, e) # Nil /\ Extends(i)
     /\ cache' = [cache EXCEPT ![i] = @ \cup {<<linearized[i] \cup {id}, newState>>}]
     /\ calls' = [calls EXCEPT ![i] = Append(@, [entry |-> e, state |-> state[i]])]
     /\ state' = [state EXCEPT ![i] = newState]
     /\ linearized' = [linearized EXCEPT ![i] = @ \cup {id}]
     /\ lift(i, e)
     /\ entry' = [entry EXCEPT ![i] = next'[i][0]]
     /\ UNCHANGED <<args, mainVars, results, kill, longest, running>>

(* The call cannot be linearized now, or that has been tried. *)
Skip(i) ==
  /\ Looping(i) /\ match(i, entry[i]) # Nil /\ ~Extends(i)
  /\ entry' = [entry EXCEPT ![i] = next[i][@]]
  /\ UNCHANGED <<args, mainVars, results, kill, next, prev, calls, state, linearized, cache,
                 longest, running>>

(* A return and nothing to undo: the part is not linearizable. *)
Refuted(i) ==
  /\ Looping(i) /\ match(i, entry[i]) = Nil /\ calls[i] = <<>>
  /\ Finish(i, FALSE)
  /\ UNCHANGED longest

(* Plausible slip: a later linearization replaces a longer one. *)
KeepLatest(i) ==
  [id \in DOMAIN longest[i] |->
     IF verbose /\ id \in linearized[i] THEN Ids(i, calls[i]) ELSE longest[i][id]]

(* computePartial: the linearization on the stack is kept for those of its *)
(* operations that have no longer one.                                     *)
Keep(i) ==
  [id \in DOMAIN longest[i] |->
     IF verbose /\ id \in linearized[i] /\ Len(calls[i]) > Len(longest[i][id])
     THEN Ids(i, calls[i]) ELSE longest[i][id]]

(* A return: the longest linearizations so far are kept, the last call is  *)
(* undone and the search goes on behind it.                                *)
Backtrack(i) ==
  LET top == calls[i][Len(calls[i])]
  IN /\ Looping(i) /\ match(i, entry[i]) = Nil /\ calls[i] # <<>>
     /\ longest' = [longest EXCEPT ![i] = Keep(i)]
     /\ state' = [state EXCEPT ![i] = top.state]
     /\ linearized' = [linearized EXCEPT ![i] = @ \ {entries[i][top.entry].id}]
     /\ calls' = [calls EXCEPT ![i] = Front(@)]
     /\ unlift(i, top.entry)
     /\ entry' = [entry EXCEPT ![i] = next'[i][top.entry]]
     /\ UNCHANGED <<args, mainVars, results, kill, cache, running>>

checkSingle(i) ==
  /\ i \in running
  /\ \/ Linearized(i) \/ Killed(i) \/ Linearize(i) \/ Skip(i) \/ Refuted(i) \/ Backtrack(i)

-----------------------------------------------------------------------------
(* checkParallel leaves its loop. *)
AfterLoop == IF verbose THEN "drain" ELSE "returned"

(* checkParallel: case result := <-results *)
Receive ==
  /\ main = "select" /\ results # <<>>
  /\ count' = count + 1
  /\ ok' = (ok /\ Head(results))
  /\ results' = Tail(results)
  /\ kill' = (kill \/ (~ok' /\ ~verbose))
  /\ main' = IF (~ok' /\ ~verbose) \/ count' >= Len(entries) THEN AfterLoop ELSE main
  /\ UNCHANGED <<args, timedOut, searchVars, running>>

(* checkParallel: case <-timeoutChan *)
Timeout ==
  /\ main = "select" /\ hasTimeout
  /\ timedOut' = TRUE
  /\ kill' = TRUE
  /\ main' = AfterLoop
  /\ UNCHANGED <<args, count, ok, results, searchVars, running>>

(* Plausible slip: the results of killed goroutines count. *)
DrainAll ==
  /\ main = "drain"
  /\ \/ /\ count < Len(entries) /\ results # <<>>
        /\ count' = count + 1
        /\ ok' = (ok /\ Head(results))
        /\ results' = Tail(results)
        /\ UNCHANGED main
     \/ /\ count >= Len(entries)
        /\ main' = "returned"
        /\ UNCHANGED <<count, results, ok>>
  /\ UNCHANGED <<args, timedOut, kill, searchVars, running>>

(* checkParallel: with computeInfo it waits for all goroutines. *)
Drain ==
  /\ main = "drain"
  /\ \/ /\ count < Len(entries) /\ results # <<>>
        /\ count' = count + 1
        /\ results' = Tail(results)
        /\ UNCHANGED main
     \/ /\ count >= Len(entries)
        /\ main' = "returned"
        /\ UNCHANGED <<count, results>>
  /\ UNCHANGED <<args, ok, timedOut, kill, searchVars, running>>

(* The CheckResult. *)
CheckResult ==
  CASE ~ok -> "Illegal"
    [] ok /\ timedOut -> "Unknown"
    [] ok /\ ~timedOut -> "Ok"

checkParallel == Receive \/ Timeout \/ Drain

Next == checkParallel \/ \E i \in running : checkSingle(i)

(* Go schedules checkParallel, when it can go on, and every goroutine. *)
Spec ==
  /\ Init /\ [][Next]_vars
  /\ WF_vars(Receive \/ Drain)
  /\ WF_vars(\E i \in running : checkSingle(i))

-----------------------------------------------------------------------------
(* The reference definition.  ls is an order in which the operations of h  *)
(* named in it may have taken effect: none comes before one that returned  *)
(* before it was called, whether that one is in ls or is left out, and     *)
(* every get returns what the store holds then.                            *)
RealTime(h, ls) ==
  \A a, b \in DOMAIN h : h[a].return < h[b].call /\ b \in Range(ls) =>
     \E j, k \in DOMAIN ls : j < k /\ ls[j] = a /\ ls[k] = b

ValueAfter(h, ls, key) ==
  FoldLeft(LAMBDA value, id : IF h[id].key = key THEN NewState(value, h[id]) ELSE value, <<>>, ls)

Legal(h, ls) ==
  \A j \in DOMAIN ls : StepOK(ValueAfter(h, SubSeq(ls, 1, j - 1), h[ls[j]].key), h[ls[j]])

Linearizations(h, ids) == {ls \in SetToSeqs(ids) : RealTime(h, ls) /\ Legal(h, ls)}

Linearizable(h) == Linearizations(h, DOMAIN h) # {}

(* The verdict of CheckOperations is right for the history as a whole,     *)
(* although every key is searched on its own, parts are killed when one    *)
(* fails or the timer fires, and their answers then mean nothing: "Ok" is  *)
(* said of linearizable histories only, "Illegal" of others only, and      *)
(* "Unknown" only after a timeout.                                         *)
VerdictCorrect ==
  main = "returned" =>
    CASE CheckResult = "Ok" -> Linearizable(history)
      [] CheckResult = "Illegal" -> ~Linearizable(history)
      [] CheckResult = "Unknown" -> timedOut

(* The info of a verbose check: what it keeps for an operation is a        *)
(* linearization of operations among which that one is, and, of a part     *)
(* that was searched to the end, no longer one exists ("longest            *)
(* linearizable prefix that includes the given entry", checker.go:185),    *)
(* although the cache cuts the search short.                               *)
LongestIsLongest ==
  main = "returned" /\ verbose =>
    \A i \in Parts :
      LET h == Partition(history)[i]
          all == UNION {Linearizations(h, ids) : ids \in SUBSET DOMAIN h}
      IN \A id \in DOMAIN h :
           /\ longest[i][id] # <<>> => longest[i][id] \in all /\ id \in Range(longest[i][id])
           /\ ~timedOut => \A ls \in all : id \in Range(ls) => Len(ls) <= Len(longest[i][id])

(* The nodes of part i from k on, as next links them, at most n of them. *)
Walk(i, k, n) ==
  LET walk[m \in 0 .. n] ==
        IF m = 0 THEN <<k>>
        ELSE IF Last(walk[m - 1]) = Nil THEN walk[m - 1]
        ELSE Append(walk[m - 1], next[i][Last(walk[m - 1])])
  IN walk[n]

(* However calls were lifted and put back, the list holds exactly the      *)
(* entries of the operations that are not linearized, in the order of      *)
(* time, and prev is the inverse of next along it; the search stands at an *)
(* entry of the list, and its stack, its bitset and its state agree.       *)
LinksInOrder ==
  \A i \in Parts :
    LET list == Walk(i, 0, 2 * Size(i) + 1)
        nodes == SelectSeq([k \in 1 .. 2 * Size(i) |-> k],
                           LAMBDA k : entries[i][k].id \notin linearized[i])
        ids == Ids(i, calls[i])
    IN /\ list = <<0>> \o nodes \o <<Nil>>
       /\ \A j \in 2 .. Len(list) - 1 : prev[i][list[j]] = list[j - 1]
       /\ nodes # <<>> => entry[i] \in Range(nodes)
       /\ Range(ids) = linearized[i] /\ Len(ids) = Cardinality(linearized[i])
       /\ state[i] = FoldLeft(LAMBDA v, id : NewState(v, Partition(history)[i][id]), <<>>, ids)

(* CheckOperations returns and leaves no goroutine behind, whether it has  *)
(* waited for them or not: results has room for every answer.  A check of  *)
(* an empty history without a timeout is the exception: it has no parts,   *)
(* and waits for a first result that nobody sends (checker.go:294).        *)
CheckReturns ==
  (history # <<>> \/ (hasTimeout /\ <>timedOut)) => <>(main = "returned" /\ running = {})
=============================================================================
