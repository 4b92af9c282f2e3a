------------------------------- MODULE Vterm -------------------------------
(***************************************************************************)
(* The terminal publisher (vterm/vterm.c): for every client that           *)
(* subscribes it forks a login on a pseudo-terminal and carries data       *)
(* between the terminal and the client.                                    *)
(*                                                                         *)
(* Before every select() the loop walks its table of terminals and asks    *)
(* the kernel (waitpid, WNOHANG) which of them are over; after it, it       *)
(* serves either one message of the tunnel or the terminals with output.   *)
(* The kernel's process table is part of the model: a child that exits is  *)
(* a zombie until it is waited for, and then its pid may be given to a      *)
(* process that has nothing to do with vterm (a stranger).                  *)
(*                                                                         *)
(* Terminals carry no text here, only the fact that there is some to read. *)
(* The table is a binary tree of the antd library; an insertion under a    *)
(* key it holds already replaces the data of that key.                     *)
(***************************************************************************)
EXTENDS Integers, FiniteSets

CONSTANTS Client,  \* client ids of the tunnel
          Pid,     \* process ids the kernel may give to a child
          None     \* "no terminal", "no client"

ASSUME NoneAssumption ==
    None \notin Client /\ None \notin Pid /\ None # -1 /\ -1 \notin Pid

VARIABLES
    pc,        \* where main() is
    running,   \* cleared by SIGINT and by fatal errors
    link,      \* state of the hotline socket
    procs,     \* the table: client -> pid of its terminal (-1: fork failed)
    output,    \* clients whose terminal has something to read
    todo,      \* nodes the current walk of the table has still to visit
    cur,       \* node whose terminal is over but not yet killed (in the walk)
    gone,      \* nodes whose data is freed and which are still in the table
    tsubs,     \* clients the tunnel holds as subscribers of the channel
    os,        \* pid -> its state in the kernel's process table
    faults     \* what has gone wrong so far

vars == <<pc, running, link, procs, output, todo, cur, gone, tsubs, os, faults>>
walk == <<todo, cur, gone>>

Final == {"closed", "crashed"}
FaultNames == {"twice",     \* a second SUBSCRIBE replaced a client's entry
               "told",      \* one was refused, and the client has a terminal
               "fork",      \* a terminal without a process was entered
               "freed"}     \* a freed node is read, its data freed again

Table == {c \in Client : procs[c] # None}

\* Walks visit, and descriptors belong to, nodes that are in the table.
TypeOK ==
    /\ pc \in {"opening", "loop", "scan", "select", "writing", "monitor",
               "shutdown", "closing"} \cup Final
    /\ running \in BOOLEAN
    /\ link \in {"up", "down"}
    /\ procs \in [Client -> Pid \cup {-1, None}]
    /\ output \subseteq Table
    /\ todo \subseteq Table /\ cur \in Table \cup {None} /\ gone \subseteq Table
    /\ tsubs \subseteq Client
    /\ os \in [Pid -> {"free", "running", "zombie", "stranger"}]
    /\ faults \subseteq FaultNames

Children == {p \in Pid : os[p] \in {"running", "zombie"}}
Zombies == {p \in Pid : os[p] = "zombie"}

\* The terminals that are in the table and not yet killed.
Held == Table \ (gone \cup {cur})

\* bst_delete on every node of a set; the descriptors of its terminals,
\* which terminal_kill has closed, can no longer be read.
DeleteOpen(S) == /\ procs' = [c \in Client |-> IF c \in S THEN None ELSE procs[c]]
                 /\ UNCHANGED output  \* (mutant: the descriptors stay open)
Delete(S) == /\ procs' = [c \in Client |-> IF c \in S THEN None ELSE procs[c]]
             /\ output' = output \ S

-----------------------------------------------------------------------------
(* The kernel.                                                             *)

\* terminal_kill's kill(p, SIGKILL), and waitpid(p) if kill succeeded.
NoWait(p) == IF p \in Children THEN [os EXCEPT ![p] = "zombie"]  \* (mutant: no waitpid)
             ELSE [os EXCEPT ![p] = "free"]
AfterKill(p) == [os EXCEPT ![p] = "free"]

\* kill(-1) signals every other process; waitpid(-1) then reaps one child.
AfterKillAll(reaped) ==
    [p \in Pid |-> IF p \in Children \ {reaped} THEN "zombie" ELSE "free"]

Kill(p) ==
    \/ p \in Pid /\ os' = AfterKill(p)
    \/ p = -1 /\ \E q \in IF Children = {} THEN {None} ELSE Children : os' = AfterKillAll(q)

ChildExits(p) ==
    /\ os[p] = "running"
    /\ os' = [os EXCEPT ![p] = "zombie"]
    /\ UNCHANGED <<pc, running, link, procs, output, walk, tsubs, faults>>

\* An unrelated process is given a free pid, or ends.
StrangerComes(p) ==
    /\ os[p] = "free" /\ pc \notin Final
    /\ os' = [os EXCEPT ![p] = "stranger"]
    /\ UNCHANGED <<pc, running, link, procs, output, walk, tsubs, faults>>

StrangerGoes(p) ==
    /\ os[p] = "stranger"
    /\ os' = [os EXCEPT ![p] = "free"]
    /\ UNCHANGED <<pc, running, link, procs, output, walk, tsubs, faults>>

\* The process on a terminal prints something.
Prints(c) ==
    /\ procs[c] \in Pid /\ os[procs[c]] = "running" /\ c \in Held
    /\ output' = output \cup {c}
    /\ UNCHANGED <<pc, running, link, procs, walk, tsubs, os, faults>>

-----------------------------------------------------------------------------
(* Start-up, signals and the tunnel service.                               *)

Init ==
    /\ pc = "opening" /\ running = TRUE /\ link = "up"
    /\ procs = [c \in Client |-> None]
    /\ output = {}
    /\ todo = {} /\ cur = None /\ gone = {}
    /\ tsubs = {}
    /\ os = [p \in Pid |-> "free"]
    /\ faults = {}

\* The answer to CHANNEL_OPEN is CHANNEL_OK or not.
OpenReply(ok) ==
    /\ pc = "opening"
    /\ pc' = "loop"
    /\ running' = (running /\ ok)
    /\ UNCHANGED <<link, procs, output, walk, tsubs, os, faults>>

OpenFails ==
    /\ pc = "opening" /\ link = "down"
    /\ pc' = "closed"
    /\ UNCHANGED <<running, link, procs, output, walk, tsubs, os, faults>>

\* SIGINT clears `running`; it wakes a process that is blocked in select,
\* and nothing if it lands just before select is entered.
Interrupt ==
    /\ pc \notin Final
    /\ running' = FALSE
    /\ \/ pc' = pc
       \/ pc = "select" /\ pc' = "loop"
    /\ UNCHANGED <<link, procs, output, walk, tsubs, os, faults>>

LinkDown ==
    /\ link = "up" /\ pc \notin Final
    /\ link' = "down"
    /\ UNCHANGED <<pc, running, procs, output, walk, tsubs, os, faults>>

-----------------------------------------------------------------------------
(* The walk before select(): set_sock_fd on every node.                    *)

\* while (running)
CheckRunning ==
    /\ pc = "loop"
    /\ pc' = IF running THEN "scan" ELSE "shutdown"
    /\ todo' = Table
    /\ UNCHANGED <<running, link, procs, output, cur, gone, tsubs, os, faults>>

Visits(c) == pc = "scan" /\ cur = None /\ c \in todo /\ todo' = todo \ {c}

\* waitpid returns 0: watch the terminal.
ScanRunning(c) ==
    /\ Visits(c)
    /\ \/ procs[c] \in Pid /\ os[procs[c]] = "running"
       \/ procs[c] = -1 /\ Children # {} /\ Zombies = {}
    /\ UNCHANGED <<pc, running, link, procs, output, cur, gone, tsubs, os, faults>>

\* waitpid returns the pid of a child that exited, or -1.  For pid -1 it
\* waits for any child.
ScanExited(c) ==
    /\ Visits(c)
    /\ cur' = c
    /\ \/ /\ procs[c] \in Pid /\ os[procs[c]] = "zombie"
          /\ os' = [os EXCEPT ![procs[c]] = "free"]
       \/ /\ procs[c] \in Pid /\ os[procs[c]] \in {"free", "stranger"}
          /\ UNCHANGED os
       \/ /\ procs[c] = -1
          /\ \E q \in Zombies : os' = [os EXCEPT ![q] = "free"]
       \/ /\ procs[c] = -1 /\ Children = {}
          /\ UNCHANGED os
    /\ UNCHANGED <<pc, running, link, procs, output, gone, tsubs, faults>>

\* unsubscribe(): kill the terminal, tell the client.
ScanKill ==
    /\ pc = "scan" /\ cur # None
    /\ Kill(procs[cur])
    /\ tsubs' = tsubs \ {cur}
    /\ gone' = gone \cup {cur}
    /\ cur' = None
    /\ UNCHANGED <<pc, running, link, procs, output, todo, faults>>

\* The nodes of the list leave the table.
ScanDone ==
    /\ pc = "scan" /\ cur = None /\ todo = {}
    /\ Delete(gone)
    /\ gone' = {}
    /\ pc' = "select"
    /\ UNCHANGED <<running, link, todo, cur, tsubs, os, faults>>

-----------------------------------------------------------------------------
(* select() reports the tunnel: one message, one handler.                  *)

Receives == pc = "select" /\ pc' = "loop" /\ UNCHANGED <<link, walk>>

\* msg_read reaches the end of a closed socket.
KeepRunningAfterReadError == running  \* (mutant: the error is only logged)
RunningAfterReadError == FALSE
ReadFails ==
    /\ Receives /\ link = "down"
    /\ running' = RunningAfterReadError
    /\ UNCHANGED <<procs, output, tsubs, os, faults>>

\* A SUBSCRIBE of a client that has a terminal replaces its entry.
Repeated(c) == IF procs[c] # None THEN {"twice"} ELSE {}

\* fork() succeeds.
Subscribe(c) ==
    /\ Receives
    /\ \E p \in Pid : /\ os[p] = "free"
                      /\ os' = [os EXCEPT ![p] = "running"]
                      /\ procs' = [procs EXCEPT ![c] = p]
    /\ output' = output \ {c}
    /\ tsubs' = tsubs \cup {c}
    /\ faults' = faults \cup Repeated(c)
    /\ UNCHANGED running

\* fork() fails: -1 is taken for the pid of the child.
SubscribeNoFork(c) ==
    /\ Receives
    /\ procs' = [procs EXCEPT ![c] = -1]
    /\ output' = output \ {c}
    /\ tsubs' = tsubs \cup {c}
    /\ faults' = faults \cup Repeated(c) \cup {"fork"}
    /\ UNCHANGED <<running, os>>

\* No pseudo-terminal: the client is told at once.
KeepsRefused(c) == tsubs \cup {c}  \* (mutant: the refusal is not sent)
AfterRefusal(c) == tsubs \ {c}
SubscribeNoTerminal(c) ==
    /\ Receives
    /\ tsubs' = AfterRefusal(c)
    /\ faults' = faults \cup IF procs[c] # None THEN {"told"} ELSE {}
    /\ UNCHANGED <<running, procs, output, os>>

Unsubscribe(c) ==
    /\ Receives
    /\ c \in tsubs
    /\ tsubs' = tsubs \ {c}
    /\ IF c \in Table THEN Kill(procs[c]) ELSE UNCHANGED os
    /\ Delete({c})
    /\ UNCHANGED <<running, faults>>

\* The terminal takes the data, and may echo it; a control message, or one
\* of another type, changes nothing but the size of a window.
Data(c) ==
    /\ Receives
    /\ c \in Table
    /\ output' \in {output, output \cup {c}}
    /\ UNCHANGED <<running, procs, tsubs, os, faults>>

\* The buffer of the terminal is full: write() blocks until somebody reads
\* the slave side, if ever.
DataBlocks(c) ==
    /\ pc = "select" /\ c \in Table
    /\ pc' = "writing"
    /\ UNCHANGED <<running, link, procs, output, walk, tsubs, os, faults>>

DataTaken ==
    /\ pc = "writing"
    /\ pc' = "loop"
    /\ UNCHANGED <<running, link, procs, output, walk, tsubs, os, faults>>

\* There is no terminal: tell the client.  (write() does not fail: the
\* process keeps the slave side of every terminal open.)
DataFails(c) ==
    /\ Receives
    /\ c \notin Table
    /\ tsubs' = tsubs \ {c}
    /\ UNCHANGED <<running, procs, output, os, faults>>

-----------------------------------------------------------------------------
(* select() reports terminals only: terminal_monitor on every node.        *)

MonitorStart ==
    /\ pc = "select" /\ link = "up" /\ output # {}
    /\ pc' = "monitor"
    /\ todo' = output
    /\ UNCHANGED <<running, link, procs, output, cur, gone, tsubs, os, faults>>

\* A full buffer may leave more to read.
MonitorRead(c) ==
    /\ pc = "monitor" /\ c \in todo /\ link = "up"
    /\ todo' = todo \ {c}
    /\ output' \in {output, output \ {c}}
    /\ UNCHANGED <<pc, running, link, procs, cur, gone, tsubs, os, faults>>

\* What was read cannot be sent.  (read() does not fail either.)
MonitorFails(c) ==
    /\ pc = "monitor" /\ c \in todo /\ link = "down"
    /\ todo' = todo \ {c}
    /\ Kill(procs[c])
    /\ gone' = gone \cup {c}
    /\ UNCHANGED <<pc, running, link, procs, output, cur, tsubs, faults>>

MonitorDone ==
    /\ pc = "monitor" /\ todo = {} /\ gone = {}
    /\ pc' = "loop"
    /\ UNCHANGED <<running, link, procs, output, walk, tsubs, os, faults>>

\* Each node of the list is deleted, and then its data, which terminal_kill
\* has freed, is read out of the deleted node and freed again.
MonitorDrop ==
    /\ pc = "monitor" /\ todo = {} /\ gone # {}
    /\ faults' = faults \cup {"freed"}
    /\ pc' \in {"loop", "crashed"}
    /\ Delete(gone)
    /\ gone' = {}
    /\ UNCHANGED <<running, link, todo, cur, tsubs, os>>

-----------------------------------------------------------------------------
(* Leaving the loop: unsubscribe() on every node, then close the channel.  *)

ShutdownKill(c) ==
    /\ pc = "shutdown" /\ c \in todo
    /\ todo' = todo \ {c}
    /\ Kill(procs[c])
    /\ gone' = gone \cup {c}
    /\ tsubs' = tsubs \ {c}
    /\ UNCHANGED <<pc, running, link, procs, output, cur, faults>>

SendClose ==
    /\ pc = "shutdown" /\ todo = {}
    /\ Delete(Table)
    /\ gone' = {}
    /\ pc' = "closing"
    /\ UNCHANGED <<running, link, todo, cur, tsubs, os, faults>>

\* The answer to CHANNEL_CLOSE, or the end of the socket.
Close ==
    /\ pc = "closing"
    /\ pc' = "closed"
    /\ UNCHANGED <<running, link, procs, output, walk, tsubs, os, faults>>

-----------------------------------------------------------------------------
Kernel == \/ \E p \in Pid : ChildExits(p) \/ StrangerComes(p) \/ StrangerGoes(p)
          \/ \E c \in Client : Prints(c)

Scan == \/ \E c \in Client : ScanRunning(c) \/ ScanExited(c)
        \/ ScanKill \/ ScanDone

Handlers == \E c \in Client :
    \/ Subscribe(c) \/ SubscribeNoFork(c) \/ SubscribeNoTerminal(c)
    \/ Unsubscribe(c) \/ Data(c) \/ DataBlocks(c) \/ DataFails(c)

Monitor == \/ \E c \in Client : MonitorRead(c) \/ MonitorFails(c)
           \/ MonitorDone \/ MonitorDrop

Shutdown == (\E c \in Client : ShutdownKill(c)) \/ SendClose

Next == \/ \E ok \in BOOLEAN : OpenReply(ok)
        \/ OpenFails \/ Interrupt \/ LinkDown \/ ReadFails
        \/ CheckRunning \/ Scan \/ Handlers \/ DataTaken \/ MonitorStart \/ Monitor
        \/ Shutdown \/ Close \/ Kernel

Spec == Init /\ [][Next]_vars

\* The process takes the steps it can take: select returns when a terminal
\* can be read, and a closed socket is read to its end.  Nothing is assumed
\* of the terminals.
LiveSpec ==
    /\ Spec
    /\ WF_vars(OpenFails) /\ WF_vars(CheckRunning) /\ WF_vars(Scan) /\ WF_vars(Monitor)
    /\ WF_vars(MonitorStart) /\ SF_vars(ReadFails) /\ WF_vars(Shutdown)
    /\ WF_vars(Close /\ link = "down")

-----------------------------------------------------------------------------
(* Properties.                                                             *)

\* The terminals that the publisher holds are its children, one each, and no
\* other child is left, running or unreaped, without an entry, whether a
\* terminal ended by itself, was closed by its client, failed, or the
\* publisher stopped.  A failed fork and what follows from it break this; an
\* entry that a second SUBSCRIBE replaced leaves its child behind, but takes
\* no terminal from any other client; nothing else breaks it.  (133-159,
\* 210-242, 513-516.)
ChildrenHeld ==
    "fork" \notin faults =>
        /\ {procs[c] : c \in Held} \subseteq Children
        /\ \A c, d \in Held : procs[c] = procs[d] => c = d
        /\ "twice" \notin faults => Children \subseteq {procs[c] : c \in Held}

\* Between two handlers, the clients with a terminal are exactly those the
\* tunnel holds as subscribers: no client is left waiting without having
\* been told, no terminal runs for a client that was.  A second SUBSCRIBE
\* that is refused a terminal and the failure path of terminal_monitor break
\* this, one that replaces an entry does not.  (191-208, 428-451, 470-481.)
SubscribersServed ==
    pc \in {"loop", "select", "writing", "shutdown", "closing"} /\ faults \cap {"told", "freed"} = {}
        => tsubs = Held

\* The rest of the inductive invariant (see VtermProofs): walks are over
\* when they should be, and a walk does not come back to a node; the final
\* walk has still to visit every node that is not killed; pids are pids, and
\* the terminal that is over is no child any more; who is still counted as a
\* subscriber on the way.
Walks == /\ pc \notin {"scan", "monitor", "shutdown"} => todo = {} /\ gone = {}
         /\ pc # "scan" => cur = None
         /\ todo \cap (gone \cup {cur}) = {} /\ cur \notin gone
         /\ pc = "shutdown" => Table = todo \cup gone
PidsKnown == "fork" \notin faults =>
                 /\ \A c \in Client : procs[c] # -1
                 /\ cur # None => procs[cur] \notin Children
Told == faults \cap {"told", "freed"} = {} =>
            tsubs = IF pc = "monitor" THEN Table ELSE Table \ gone
TerminalsInv == TypeOK /\ ChildrenHeld /\ Walks /\ PidsKnown /\ Told

\* When the tunnel service goes away, the publisher stops, unless it is
\* stuck in a write to a terminal that nobody reads.  (171, 415-419, 513-530.)
StopsWithTunnel == link = "down" ~> (pc \in Final \/ [](pc = "writing"))

\* "monitor the pid" (224): as long as nothing else is wrong, a terminal that
\* is over is noticed, and its client told.
ExitNoticed == \A c \in Client :
    (running /\ faults = {} /\ c \in Held /\ procs[c] \in Zombies)
        ~> (~running \/ faults # {} \/ c \notin tsubs \/ pc = "writing")

\* Data that is freed with a node (502-505) is data the node still has.  It
\* does not hold (see the README).
FreesOnce == "freed" \notin faults
=============================================================================
