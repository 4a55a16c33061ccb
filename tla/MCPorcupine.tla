---------------------------- MODULE MCPorcupine ----------------------------
(***************************************************************************)
(* Porcupine on histories of up to three operations on two keys: every     *)
(* combination of puts, appends and gets with the values below, in time    *)
(* patterns with sequential, overlapping, nested and touching operations.  *)
(* Calls are in the order of the history, and no two calls and no two      *)
(* returns are at the same time, so the order of the entries is defined.   *)
(***************************************************************************)
EXTENDS Porcupine

CONSTANT Keys

Values == {<<>>, <<"a">>, <<"a", "a">>}

Kinds ==
  {[op |-> o, value |-> <<"a">>, out |-> <<>>] : o \in {"put", "append"}}
    \cup {[op |-> "get", value |-> <<>>, out |-> v] : v \in Values}

(* Pairs of call and return times. *)
Times ==
  {<< <<1, 6>>, <<2, 5>>, <<3, 4>> >>,
   << <<1, 4>>, <<2, 5>>, <<3, 6>> >>,
   << <<1, 3>>, <<2, 5>>, <<4, 6>> >>,
   << <<1, 2>>, <<2, 3>>, <<3, 4>> >>,
   << <<1, 6>>, <<2, 3>>, <<4, 5>> >>}

Operation(kind, key, time) ==
  [op |-> kind.op, value |-> kind.value, out |-> kind.out, key |-> key,
   call |-> time[1], return |-> time[2]]

MCHistories ==
  {<<>>} \cup
  {<<Operation(k, "x", <<1, 2>>)>> : k \in Kinds} \cup
  UNION {{[j \in 1 .. 3 |-> Operation(kinds[j], keys[j], times[j])] :
             kinds \in [1 .. 3 -> Kinds], keys \in {f \in [1 .. 3 -> Keys] : f[1] = "x"}}
           : times \in Times}
=============================================================================
