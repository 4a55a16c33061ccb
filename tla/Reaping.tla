------------------------------- MODULE Reaping -------------------------------
(***************************************************************************)
(* How the programs of CMU15-213 15-ecf-signals reap their children:       *)
(* fork10 to fork15 of forks.c, procmask1.c, procmask2.c, waitforsignal.c, *)
(* sigsuspend.c and the shell of shellex.c.                                *)
(*                                                                         *)
(* The kernel part is what these programs rely on: a child that ends is a  *)
(* zombie until it is waited for and makes SIGCHLD pending; signals are    *)
(* not queued; a pending signal that is not masked interrupts the parent   *)
(* at any point, and while its handler runs the parent does not and the    *)
(* signal is masked.                                                       *)
(***************************************************************************)
EXTENDS Integers, FiniteSets

CONSTANTS
  Programs,   \* the programs to be checked
  N           \* #define N in forks.c; bound on the rounds of the endless loops

ASSUME ReapingAssumption == N \in Nat \ {0}

Children == 1 .. N

VARIABLES
  program,
  pc,        \* where main is; "done" when it has returned
  i,         \* the loop counter
  forked,    \* children forked so far
  child,     \* child[c]: "none", "running", "zombie" or "reaped"
  stopped,   \* children that were sent SIGINT
  blocked,   \* main has SIGCHLD blocked
  pending,   \* SIGCHLD is pending
  handler,   \* "none", "wait" or "return": where the SIGCHLD handler is
  ccount,    \* the global of forks.c
  jobs,      \* the job list of procmask1.c and procmask2.c
  pid,       \* the global of waitforsignal.c and sigsuspend.c
  bg         \* background jobs of the shell

parent == <<pc, i, forked, stopped, blocked, pid, bg>>
vars == <<program, parent, child, pending, handler, ccount, jobs>>

HasHandler == program \notin {"fork10", "fork11", "fork12", "fork13", "shellex"}
Alive == {c \in Children : child[c] = "running"}
Zombies == {c \in Children : child[c] = "zombie"}
Reaped == {c \in Children : child[c] = "reaped"}

Start ==
  CASE program \in {"procmask2", "waitforsignal", "sigsuspend"} -> "block"
    [] program = "shellex" -> "prompt"
    [] OTHER -> "fork"

Init ==
  /\ program \in Programs
  /\ pc = Start
  /\ i = 0 /\ forked = 0
  /\ child = [c \in Children |-> "none"]
  /\ stopped = {}
  /\ blocked = FALSE /\ pending = FALSE
  /\ handler = "none"
  /\ ccount = N
  /\ jobs = {} /\ pid = 0 /\ bg = {}

-----------------------------------------------------------------------------
(* The kernel *)

(* A child ends: at once or after its sleep, or, in the endless loops of   *)
(* fork12 and fork13, when SIGINT reaches it.                              *)
ChildExits(c) ==
  /\ c \in Alive
  /\ program \in {"fork12", "fork13"} => c \in stopped
  /\ child' = [child EXCEPT ![c] = "zombie"]
  /\ pending' = HasHandler
  /\ UNCHANGED <<program, parent, handler, ccount, jobs>>

(* Sigsuspend(&prev) waits with SIGCHLD unblocked. *)
Masked == blocked /\ pc # "suspend"

(* The parent is interrupted. *)
Deliver ==
  /\ pending /\ ~Masked /\ handler = "none"
  /\ pending' = FALSE
  /\ handler' = "wait"
  /\ UNCHANGED <<program, parent, child, ccount, jobs>>

(* SIGINT arrives: its handler does nothing, but Sigsuspend returns.  The  *)
(* kernel delivers a pending SIGCHLD before Sigsuspend returns, whatever   *)
(* else woke it.                                                           *)
Interrupt ==
  /\ program = "sigsuspend" /\ pc = "suspend" /\ handler = "none" /\ ~pending
  /\ pc' = "check"
  /\ UNCHANGED <<program, i, forked, stopped, blocked, pid, bg, child, pending, handler, ccount,
                 jobs>>

-----------------------------------------------------------------------------
(* The handlers *)

HandlerKeeps == UNCHANGED <<program, i, forked, stopped, blocked, bg, pending>>

(* child_handler reaps one child, counts it and returns.  The error exit   *)
(* for a parent without children, here and in sigchld_handler, is never    *)
(* taken: see ChildrenAccounted.                                           *)
child_handler ==
  /\ \/ /\ handler = "wait"
        /\ \E c \in Zombies : child' = [child EXCEPT ![c] = "reaped"]
        /\ ccount' = ccount - 1
        /\ handler' = "return"
     \/ /\ handler = "return"
        /\ handler' = "none"
        /\ UNCHANGED <<child, ccount>>
  /\ UNCHANGED <<pc, jobs, pid>>

(* Plausible slip: the loop of child_handler2 stops after one child. *)
child_handler2_once ==
  /\ handler = "wait"
  /\ \E c \in Zombies : child' = [child EXCEPT ![c] = "reaped"]
  /\ ccount' = ccount - 1
  /\ handler' = "none"
  /\ UNCHANGED <<pc, jobs, pid>>

(* child_handler2 reaps children, waiting for those that run, until there  *)
(* is none (ECHILD).                                                       *)
child_handler2 ==
  /\ handler = "wait"
  /\ \/ /\ \E c \in Zombies : child' = [child EXCEPT ![c] = "reaped"]
        /\ ccount' = ccount - 1
        /\ UNCHANGED handler
     \/ /\ Alive \cup Zombies = {}
        /\ handler' = "none"
        /\ UNCHANGED <<child, ccount>>
  /\ UNCHANGED <<pc, jobs, pid>>

(* handler of procmask1.c and procmask2.c: the same with the job list. *)
job_handler ==
  /\ handler = "wait"
  /\ \/ /\ \E c \in Zombies :
             /\ child' = [child EXCEPT ![c] = "reaped"]
             /\ jobs' = jobs \ {c}
        /\ UNCHANGED handler
     \/ /\ Alive \cup Zombies = {}
        /\ handler' = "none"
        /\ UNCHANGED <<child, jobs>>
  /\ UNCHANGED <<pc, ccount, pid>>

(* sigchld_handler of waitforsignal.c and sigsuspend.c; when it returns    *)
(* Sigsuspend does.                                                        *)
sigchld_handler ==
  /\ handler = "wait"
  /\ handler' = "none"
  /\ \E c \in Zombies :
       /\ child' = [child EXCEPT ![c] = "reaped"]
       /\ pid' = c
  /\ pc' = IF pc = "suspend" THEN "check" ELSE pc
  /\ UNCHANGED <<ccount, jobs>>

Handler ==
  /\ HandlerKeeps
  /\ \/ program = "fork14" /\ child_handler /\ UNCHANGED pid
     \/ program = "fork15" /\ child_handler2
     \/ program \in {"procmask1", "procmask2"} /\ job_handler
     \/ program \in {"waitforsignal", "sigsuspend"} /\ sigchld_handler

-----------------------------------------------------------------------------
(* The main programs *)

Goto(from, to) == pc = from /\ pc' = to

Fork == /\ forked' = forked + 1
        /\ child' = [child EXCEPT ![forked + 1] = "running"]

Reap(c) == c \in Zombies /\ child' = [child EXCEPT ![c] = "reaped"]

(* The loops of fork10 to fork15 that fork N children. *)
ForkAll(then) ==
  /\ Goto("fork", IF forked + 1 = N THEN then ELSE "fork")
  /\ Fork
  /\ UNCHANGED <<i, stopped, blocked, pid, bg, jobs>>

(* fork10: N times wait.  fork11: N times waitpid, in reverse order. *)
ReapNext(any) ==
  /\ Goto("wait", IF i + 1 = N THEN "done" ELSE "wait")
  /\ i' = i + 1
  /\ \E c \in Children : (any \/ c = N - i) /\ Reap(c)
  /\ UNCHANGED <<forked, stopped, blocked, pid, bg, jobs>>

(* fork12 and fork13: kill(pid[i], SIGINT) *)
Kill ==
  /\ Goto("kill", IF i + 1 = N THEN "wait" ELSE "kill")
  /\ stopped' = stopped \cup {i + 1}
  /\ i' = (i + 1) % N
  /\ UNCHANGED <<forked, child, blocked, pid, bg, jobs>>

fork10 == ForkAll("wait") \/ ReapNext(TRUE)
fork11 == ForkAll("wait") \/ ReapNext(FALSE)
fork12 == ForkAll("kill") \/ Kill \/ ReapNext(TRUE)

(* while (ccount > 0) ; *)
Spin ==
  /\ Goto("spin", "done") /\ ccount <= 0
  /\ UNCHANGED <<i, forked, child, stopped, blocked, pid, bg, jobs>>

fork14 == ForkAll("spin") \/ Spin

(* Sigprocmask at one label *)
SetBlocked(from, to, value) ==
  /\ Goto(from, to)
  /\ blocked' = value
  /\ UNCHANGED <<i, forked, child, stopped, pid, bg, jobs>>

ForkOne(to) ==
  /\ Goto("fork", to)
  /\ Fork
  /\ UNCHANGED <<i, stopped, blocked, pid, bg, jobs>>

addjob(to) ==
  /\ Goto("add", to)
  /\ jobs' = jobs \cup {forked}
  /\ UNCHANGED <<i, forked, child, stopped, blocked, pid, bg>>

(* The end of a round of an endless loop. *)
NextRound(first) == IF forked = N THEN "done" ELSE first

procmask1 ==
  \/ ForkOne("block")
  \/ SetBlocked("block", "add", TRUE)
  \/ addjob("unblock")
  \/ SetBlocked("unblock", NextRound("fork"), FALSE)

(* Plausible slip: SIGCHLD is blocked after the fork, as in procmask1. *)
procmask2_late ==
  \/ SetBlocked("block", "fork", FALSE)
  \/ ForkOne("mask")
  \/ SetBlocked("mask", "add", TRUE)
  \/ addjob("unblock")
  \/ SetBlocked("unblock", NextRound("block"), FALSE)

procmask2 ==
  \/ SetBlocked("block", "fork", TRUE)
  \/ ForkOne("mask")
  \/ SetBlocked("mask", "add", TRUE)
  \/ addjob("unblock")
  \/ SetBlocked("unblock", NextRound("block"), FALSE)

ClearPid(to) ==
  /\ Goto("clear", to)
  /\ pid' = 0
  /\ UNCHANGED <<i, forked, child, stopped, blocked, bg, jobs>>

Test(to) ==
  /\ Goto("check", to)
  /\ UNCHANGED <<i, forked, child, stopped, blocked, pid, bg, jobs>>

(* printf("."), the work after SIGCHLD was received *)
Work ==
  /\ Goto("work", NextRound("block"))
  /\ UNCHANGED <<i, forked, child, stopped, blocked, pid, bg, jobs>>

waitforsignal ==
  \/ SetBlocked("block", "fork", TRUE)
  \/ ForkOne("clear")
  \/ ClearPid("unblock")
  \/ SetBlocked("unblock", "check", FALSE)
  \/ pid # 0 /\ Test("work")
  \/ Work

sigsuspend ==
  \/ SetBlocked("block", "fork", TRUE)
  \/ ForkOne("clear")
  \/ ClearPid("check")
  \/ pid = 0 /\ Test("suspend")
  \/ pid # 0 /\ Test("unblock")
  \/ SetBlocked("unblock", "work", FALSE)
  \/ Work

(* eval: a command that is not built in is run by a child, and a           *)
(* foreground job is waited for; "quit" ends the shell.                    *)
eval ==
  \/ /\ forked < N
     /\ \E b \in BOOLEAN :
          /\ Goto("prompt", IF b THEN "prompt" ELSE "waitfg")
          /\ bg' = IF b THEN bg \cup {forked + 1} ELSE bg
     /\ Fork
     /\ UNCHANGED <<i, stopped, blocked, pid, jobs>>
  \/ /\ Goto("waitfg", "prompt")
     /\ Reap(forked)
     /\ UNCHANGED <<i, forked, stopped, blocked, pid, bg, jobs>>
  \/ /\ Goto("prompt", "done")
     /\ UNCHANGED <<i, forked, child, stopped, blocked, pid, bg, jobs>>

Main ==
  /\ handler = "none"
  /\ \/ program = "fork10" /\ fork10
     \/ program = "fork11" /\ fork11
     \/ program \in {"fork12", "fork13"} /\ fork12
     \/ program \in {"fork14", "fork15"} /\ fork14
     \/ program = "procmask1" /\ procmask1
     \/ program = "procmask2" /\ procmask2
     \/ program = "waitforsignal" /\ waitforsignal
     \/ program = "sigsuspend" /\ sigsuspend
     \/ program = "shellex" /\ eval
  /\ UNCHANGED <<program, pending, handler, ccount>>

Next ==
  Main \/ Handler \/ Deliver \/ Interrupt \/ \E c \in Children : ChildExits(c)

(* The kernel schedules the parent and its children and delivers signals;  *)
(* foreground jobs end and the user quits the shell.                       *)
Spec ==
  /\ Init /\ [][Next]_vars
  /\ WF_vars(Main) /\ WF_vars(Handler) /\ WF_vars(Deliver)
  /\ \A c \in Children : WF_vars(ChildExits(c))

-----------------------------------------------------------------------------
(* The state has its types. *)
TypeOK ==
  /\ program \in Programs
  /\ i \in 0 .. N /\ forked \in 0 .. N
  /\ child \in [Children -> {"none", "running", "zombie", "reaped"}]
  /\ stopped \subseteq Children /\ jobs \subseteq Children /\ bg \subseteq Children
  /\ {blocked, pending} \subseteq BOOLEAN
  /\ handler \in {"none", "wait", "return"}
  /\ ccount \in 0 .. N /\ pid \in 0 .. N

(* What the parent keeps about its children is right wherever SIGCHLD      *)
(* interrupts it: ccount of forks.c counts the children still to be        *)
(* reaped; procmask2, unlike procmask1, never holds a job that is gone,    *)
(* and knows every child outside the masked region; a round of             *)
(* waitforsignal and of sigsuspend goes on to its work only when the child *)
(* of that round is reaped; fork10 to fork13 and fork15 leave no zombie,   *)
(* the shell only background jobs; and the handlers that end the program   *)
(* when there is no child to wait for always have one.                     *)
ChildrenAccounted ==
  /\ TypeOK
  /\ program \in {"fork14", "fork15"} => ccount = N - Cardinality(Reaped)
  /\ program = "procmask2" =>
       /\ jobs \cap Reaped = {}
       /\ pc \in {"block", "done"} => jobs = Alive \cup Zombies
  /\ program \in {"waitforsignal", "sigsuspend"} /\ pc = "work" => pid = forked /\ Reaped = 1 .. forked
  /\ program \in {"fork10", "fork11", "fork12", "fork13", "fork15"} /\ pc = "done" =>
       Reaped = Children
  /\ program = "shellex" /\ pc = "prompt" => Alive \cup Zombies \subseteq bg
  /\ program \in {"fork14", "waitforsignal", "sigsuspend"} /\ handler = "wait" =>
       Alive \cup Zombies # {}

(* All children of fork14 have ended, and no signal is left that would     *)
(* have it reap those that have not been.                                  *)
SignalsMerged ==
  program = "fork14" /\ Alive = {} /\ Zombies # {} /\ ~pending /\ handler = "none"

(* Every wait ends: the N waits of fork10 to fork13, the spinning parent   *)
(* of fork15, the rounds of waitforsignal and sigsuspend (SIGCHLD cannot   *)
(* slip in between the test of pid and the wait) and of procmask1 and      *)
(* procmask2.  The spinning parent of fork14 waits forever when signals    *)
(* have merged, and only then ("Pending signals are not queued").          *)
EveryWaitEnds == <>(pc = "done") \/ <>[](pc = "spin" /\ SignalsMerged)
=============================================================================
