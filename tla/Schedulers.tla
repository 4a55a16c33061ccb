----------------------------- MODULE Schedulers -----------------------------
(***************************************************************************)
(* The ten versions of 02_work_scheduler/work_scheduler.go side by side:   *)
(* versions 1 and 2 are IdlePool, 3 to 10 WorkScheduler.  The version is   *)
(* chosen initially and only its own variables change.                     *)
(***************************************************************************)
EXTENDS WorkScheduler

CONSTANT NoServer

ASSUME NoServerAssumption == NoServer \notin Servers

VARIABLES idle, taken, collected, caller, held, pc, srv, calls

poolVars == <<idle, taken, collected, caller, held, pc, srv, calls>>

Pool == INSTANCE IdlePool WITH next <- taken, main <- caller, ran <- calls

AnyInit == Init /\ Pool!Start

AnyNext ==
  \/ Pool!Next /\ UNCHANGED ownVars
  \/ Next /\ UNCHANGED poolVars

AnySpec == AnyInit /\ [][AnyNext]_<<vars, poolVars>> /\ WF_vars(Next) /\ Pool!Fairness

-----------------------------------------------------------------------------
(* V1 and V2: the state has its types and a server runs one task at a      *)
(* time, see IdlePool.                                                     *)
OneTaskPerServer == Pool!TypeOK /\ Pool!OneTaskPerServer

(* V3 to V10: the state has its types and no task is lost or run twice,    *)
(* retries included, see WorkScheduler.                                    *)
NoTaskLostOrRunTwice == TypeOK /\ EachTaskOnce

(* When a version that waits (all but V1 and V4) returns, every task has   *)
(* run, see IdlePool and WorkScheduler.                                    *)
AnyReturnsWhenDone == ReturnsWhenDone /\ Pool!ReturnsWhenDone

(* Every version returns (V5 when there are enough servers), whenever the  *)
(* servers join and however often calls fail; V1 and V2 have every task    *)
(* run, see IdlePool and WorkScheduler.                                    *)
AnyEventuallyReturns == EventuallyReturns /\ (version \in {1, 2} => Pool!AllTasksRun)
=============================================================================
