------------------------------- MODULE Runner -------------------------------
(***************************************************************************)
(* The supervisor runnerd (runner.c): it starts every service of its       *)
(* configuration, looks every half second which of them are still there,   *)
(* and stops when none is or when it is interrupted, killing the rest.     *)
(* How the configuration becomes commands is in ServiceConfig; here a      *)
(* service is only a process.                                              *)
(*                                                                         *)
(* The kernel's process table is part of the model: a child that exits is  *)
(* a zombie until it is waited for, and then its pid may be given to a      *)
(* stranger, a process that runnerd did not start.                         *)
(***************************************************************************)
EXTENDS Integers, FiniteSets

CONSTANTS N,    \* bound: services in the configuration
          Pid   \* process ids the kernel may give

ASSUME NAssumption == N \in Nat /\ -1 \notin Pid /\ 0 \notin Pid

VARIABLES
    pc,        \* where main() is
    running,   \* cleared by SIGINT
    size,      \* length of the list of pids
    pids,      \* the list: item -> pid, -1 once the process is taken for gone
    next,      \* the item the walk of the list is at
    count,     \* pid_count: items the current pass found running
    os,        \* pid -> its state in the kernel's process table
    struck     \* strangers that got SIGKILL

vars == <<pc, running, size, pids, next, count, os, struck>>

Final == {"closed", "aborted"}

TypeOK ==
    /\ pc \in {"starting", "check", "pass", "sleep", "kill"} \cup Final
    /\ running \in BOOLEAN
    /\ size \in 0 .. N
    /\ pids \in [1 .. N -> Pid \cup {-1, 0}]
    /\ \A i \in 1 .. N : pids[i] = 0 <=> i > size
    /\ next \in 1 .. N + 1
    /\ count \in 0 .. size
    /\ os \in [Pid -> {"free", "running", "zombie", "stranger"}]
    /\ struck \subseteq Pid

Items == 1 .. size
Children == {p \in Pid : os[p] \in {"running", "zombie"}}
Zombies == {p \in Pid : os[p] = "zombie"}
Listed == {pids[i] : i \in Items} \ {-1}

-----------------------------------------------------------------------------
(* The kernel.                                                             *)

ChildExits(p) ==
    /\ os[p] = "running"
    /\ os' = [os EXCEPT ![p] = "zombie"]
    /\ UNCHANGED <<pc, running, size, pids, next, count, struck>>

StrangerComes(p) ==
    /\ os[p] = "free" /\ pc \notin Final
    /\ os' = [os EXCEPT ![p] = "stranger"]
    /\ UNCHANGED <<pc, running, size, pids, next, count, struck>>

StrangerGoes(p) ==
    /\ os[p] = "stranger"
    /\ os' = [os EXCEPT ![p] = "free"]
    /\ UNCHANGED <<pc, running, size, pids, next, count, struck>>

\* SIGINT.
Interrupt ==
    /\ running /\ pc \notin Final
    /\ running' = FALSE
    /\ UNCHANGED <<pc, size, pids, next, count, os, struck>>

-----------------------------------------------------------------------------
(* Starting the services.                                                  *)

Init ==
    /\ pc = "starting" /\ running = TRUE
    /\ size = 0 /\ pids = [i \in 1 .. N |-> 0]
    /\ next = 1 /\ count = 0
    /\ os = [p \in Pid |-> "free"]
    /\ struck = {}

\* fork() succeeds: the pid is put on the list.
Start(p) ==
    /\ pc = "starting" /\ size < N
    /\ os[p] = "free"
    /\ os' = [os EXCEPT ![p] = "running"]
    /\ size' = size + 1
    /\ pids' = [pids EXCEPT ![size + 1] = p]
    /\ UNCHANGED <<pc, running, next, count, struck>>

\* fork() or the configuration fails an ASSERT: the process is aborted, and
\* the services that were started are left to themselves.
Abort ==
    /\ pc = "starting"
    /\ pc' = "aborted"
    /\ UNCHANGED <<running, size, pids, next, count, os, struck>>

Started ==
    /\ pc = "starting"
    /\ pc' = "check"
    /\ count' = size
    /\ UNCHANGED <<running, size, pids, next, os, struck>>

-----------------------------------------------------------------------------
(* The monitor loop: a pass over the list, then 500 ms of sleep.            *)

GoOnAlways == count # 0  \* (mutant: the signal is not looked at)
GoOn == running /\ count # 0

CountOn == count         \* (mutant: pid_count is not reset before the pass)
FirstCount == 0
CheckRunning ==
    /\ pc = "check"
    /\ pc' = IF GoOn THEN "pass" ELSE "kill"
    /\ count' = IF GoOn THEN FirstCount ELSE count
    /\ next' = 1
    /\ UNCHANGED <<running, size, pids, os, struck>>

\* waitpid(pid, WNOHANG) returns 0.  An item that is gone is not skipped:
\* waitpid(-1) is asked about any child.
NeverRunning == FALSE    \* (mutant: 0 is taken for the end of the child)
StillRunning == \/ pids[next] \in Pid /\ os[pids[next]] = "running"
                \/ pids[next] = -1 /\ Children # {} /\ Zombies = {}

FindRunning ==
    /\ pc = "pass" /\ next \in Items
    /\ StillRunning
    /\ count' = count + 1
    /\ next' = next + 1
    /\ UNCHANGED <<pc, running, size, pids, os, struck>>

\* waitpid returns the pid of a zombie, which it removes, or -1.
NotStruckOut == pids     \* (mutant: the item keeps the pid)
StruckOut == [pids EXCEPT ![next] = -1]
FindGone ==
    /\ pc = "pass" /\ next \in Items
    /\ ~StillRunning
    /\ LET waited == {p \in Zombies : pids[next] \in {p, -1}}
       IN  \/ waited = {} /\ UNCHANGED os
           \/ \E p \in waited : os' = [os EXCEPT ![p] = "free"]
    /\ pids' = StruckOut
    /\ next' = next + 1
    /\ UNCHANGED <<pc, running, size, count, struck>>

PassDone ==
    /\ pc = "pass" /\ next \notin Items
    /\ pc' = "sleep"
    /\ UNCHANGED <<running, size, pids, next, count, os, struck>>

Wake ==
    /\ pc = "sleep"
    /\ pc' = "check"
    /\ UNCHANGED <<running, size, pids, next, count, os, struck>>

-----------------------------------------------------------------------------
\* The loop is over: SIGKILL to what the list still names, and, if there
\* was such a process, waitpid on it.
KillItem ==
    /\ pc = "kill" /\ next \in Items
    /\ LET p == pids[next]
       IN  IF p = -1 THEN UNCHANGED <<os, struck>>
           ELSE /\ os' = [os EXCEPT ![p] = "free"]
                /\ struck' = IF os[p] = "stranger" THEN struck \cup {p} ELSE struck
    /\ next' = next + 1
    /\ UNCHANGED <<pc, running, size, pids, count>>

KillDone ==
    /\ pc = "kill" /\ next \notin Items
    /\ pc' = "closed"
    /\ UNCHANGED <<running, size, pids, next, count, os, struck>>

-----------------------------------------------------------------------------
Kernel == \E p \in Pid : ChildExits(p) \/ StrangerComes(p) \/ StrangerGoes(p)
Loop == CheckRunning \/ FindRunning \/ FindGone \/ PassDone \/ Wake \/ KillItem \/ KillDone
Next == Kernel \/ Interrupt \/ (\E p \in Pid : Start(p)) \/ Abort \/ Started \/ Loop

Spec == Init /\ [][Next]_vars

\* No step of the loop waits for anything but the end of the sleep.
LiveSpec == Spec /\ WF_vars(Loop)

-----------------------------------------------------------------------------
(* Properties.                                                             *)

\* Every child that has not been waited for is on the list, once, although
\* an item that is gone waits for the children of the others.  (136-149.)
ChildrenListed == \A p \in Children : \E i \in Items : \A j \in Items : pids[j] = p <=> j = i

\* When runnerd leaves in the regular way, it leaves no child behind.
\* (153-167.)
NoneLeft == pc = "closed" => Children = {}

\* The rest of the inductive invariant (see RunnerdProofs).
NoneReapedYet == pc = "starting" => \A i \in Items : pids[i] \in Children
CountsVisited == pc = "pass" => count < next
KilledSoFar == pc = "kill" => \A i \in Items : i < next => pids[i] \notin Children
SupervisorInv == /\ TypeOK /\ ChildrenListed /\ NoneLeft
                 /\ NoneReapedYet /\ CountsVisited /\ KilledSoFar

\* The final SIGKILLs reach services only, but for one way to go wrong: an
\* item that is gone waits for any child (138), and so may have waited for
\* the service of an item before it, which names its pid until the next pass.
\* An item after it is struck out in the same pass.  (136-167.)
StrangersSafe == \A p \in struck : \E i, j \in Items : i < j /\ pids[i] = p /\ pids[j] = -1

\* What makes it inductive (see RunnerdProofs): which items may name a
\* process that is no child any more.
StaleItems == \A i \in Items :
    \/ pids[i] \in Children \cup {-1}
    \/ \E j \in Items : i < j /\ pids[j] = -1
    \/ pc = "pass" /\ next <= i
    \/ pc = "kill" /\ i < next
    \/ pc = "closed"
NoneStruckYet == pc \notin {"kill", "closed"} => struck = {}

\* When all the services are gone, runnerd ends, so that systemd starts it
\* and them again ("Restart=always" in the unit file).
EndsWithServices == (pc \notin {"starting", "aborted"} /\ Children = {}) ~> pc = "closed"

\* SIGINT ends runnerd.
EndsOnSignal == (pc \notin {"starting", "aborted"} /\ ~running) ~> pc = "closed"

\* "kill all the remaining processes" (153): the services that remain, and
\* no other process.  It does not hold (see the README).
KillsOnlyServices == struck = {}
=============================================================================
