---------------------------- MODULE VtermProofs ----------------------------
(* Proofs about Vterm, for any clients and process ids.                    *)
(*                                                                         *)
(* That the terminals of the table are children is not inductive: that     *)
(* terminal_kill takes away one child needs the pid to be a pid and no      *)
(* other terminal's (PidsKnown, ChildrenHeld), and that a handler may take  *)
(* a node out of the table needs that no walk is under way (Walks).         *)
EXTENDS Vterm, TLAPS

OsType == os \in [Pid -> {"free", "running", "zombie", "stranger"}]

\* terminal_kill takes at most the child that has the pid.
LEMMA KillTakesOne ==
    ASSUME OsType, NEW p \in Pid \cup {-1}, Kill(p)
    PROVE  /\ OsType'
           /\ p # -1 => Children' = Children \ {p}
<1>1. CASE p \in Pid /\ os' = AfterKill(p)
  BY <1>1, NoneAssumption DEF OsType, AfterKill, Children
<1>2. CASE p = -1 /\ \E q \in IF Children = {} THEN {None} ELSE Children : os' = AfterKillAll(q)
  BY <1>2 DEF OsType, AfterKillAll
<1> QED
  BY <1>1, <1>2 DEF Kill

LEMMA TerminalsStart == Init => TerminalsInv
<1> SUFFICES ASSUME Init PROVE TerminalsInv
  OBVIOUS
<1>1. Table = {}
  BY DEF Init, Table
<1>2. Children = {} /\ Held = {}
  BY <1>1 DEF Init, Children, Held
<1>3. TypeOK
  BY <1>1 DEF Init, TypeOK
<1> QED
  BY <1>1, <1>2, <1>3, NoneAssumption
  DEF Init, TerminalsInv, ChildrenHeld, Walks, PidsKnown, Told

\* Start-up, signals, the tunnel, and the steps that only change pc.
LEMMA QuietStep ==
    ASSUME TerminalsInv,
           UNCHANGED <<procs, cur, gone, tsubs, os, faults>>,
           output' \subseteq Table, running' \in BOOLEAN, link' \in {"up", "down"},
           \/ todo' = todo /\ pc' = pc
           \/ todo' = todo /\ gone = {} /\ pc \notin {"scan", "shutdown"}
              /\ (pc = "monitor" => todo = {})
              /\ pc' \in {"loop", "select", "writing", "closed"}
           \/ pc = "loop" /\ todo' = Table /\ pc' \in {"scan", "shutdown"}
           \/ pc = "select" /\ todo' \subseteq Table /\ pc' = "monitor"
           \/ pc \in {"scan", "monitor"} /\ pc' = pc /\ todo' \subseteq todo
    PROVE  TerminalsInv'
<1>1. Table' = Table /\ Held' = Held /\ Children' = Children
  BY DEF Table, Held, Children
<1>2. TypeOK'
  BY <1>1 DEF TerminalsInv, TypeOK, Final
<1>3. ChildrenHeld' /\ PidsKnown'
  BY <1>1 DEF TerminalsInv, ChildrenHeld, PidsKnown
<1>4. Walks'
  <2>1. None \notin Table
    BY NoneAssumption DEF Table
  <2> QED
    BY <1>1, <2>1 DEF TerminalsInv, Walks
<1>5. Told'
  BY <1>1 DEF TerminalsInv, Told, Walks
<1> QED
  BY <1>2, <1>3, <1>4, <1>5 DEF TerminalsInv

\* Exits and strangers: no child appears or disappears.
LEMMA KernelStep ==
    ASSUME TerminalsInv, Kernel
    PROVE  TerminalsInv'
<1>1. ASSUME NEW c \in Client, Prints(c) PROVE TerminalsInv'
  <2>1. output' \subseteq Table
    BY <1>1 DEF Prints, Held, TerminalsInv, TypeOK
  <2> QED
    BY <1>1, <2>1, QuietStep DEF Prints, walk, TerminalsInv, TypeOK
<1>2. ASSUME NEW p \in Pid, ChildExits(p) \/ StrangerComes(p) \/ StrangerGoes(p)
      PROVE  TerminalsInv'
  <2>1. /\ UNCHANGED <<pc, running, link, procs, output, todo, cur, gone, tsubs, faults>>
        /\ OsType /\ OsType' /\ Children' = Children
    BY <1>2 DEF ChildExits, StrangerComes, StrangerGoes, walk, TerminalsInv, TypeOK, OsType,
       Children
  <2>2. Table' = Table /\ Held' = Held
    BY <2>1 DEF Table, Held
  <2>3. TypeOK'
    BY <2>1, <2>2 DEF TerminalsInv, TypeOK, OsType
  <2> QED
    BY <2>1, <2>2, <2>3 DEF TerminalsInv, ChildrenHeld, Walks, PidsKnown, Told
<1> QED
  BY <1>1, <1>2 DEF Kernel

\* The steps of main() that touch neither the table nor the processes.
LEMMA MainStep ==
    ASSUME TerminalsInv,
           \/ \E ok \in BOOLEAN : OpenReply(ok)
           \/ OpenFails \/ Interrupt \/ LinkDown \/ ReadFails \/ CheckRunning
           \/ \E c \in Client : ScanRunning(c) \/ Data(c) \/ DataBlocks(c) \/ MonitorRead(c)
           \/ DataTaken \/ MonitorStart \/ MonitorDone \/ Close
    PROVE  TerminalsInv'
<1>1. /\ output \subseteq Table /\ running \in BOOLEAN /\ link \in {"up", "down"}
      /\ (pc \notin {"scan", "monitor", "shutdown"} => todo = {} /\ gone = {})
  BY DEF TerminalsInv, TypeOK, Walks
<1>2. CASE (\E ok \in BOOLEAN : OpenReply(ok)) \/ OpenFails
  BY <1>1, <1>2, QuietStep DEF OpenReply, OpenFails, walk
<1>3. CASE Interrupt \/ LinkDown
  BY <1>1, <1>3, QuietStep DEF Interrupt, LinkDown, walk
<1>4. CASE ReadFails
  BY <1>1, <1>4, QuietStep DEF ReadFails, Receives, RunningAfterReadError, walk
<1>5. CASE CheckRunning
  BY <1>1, <1>5, QuietStep DEF CheckRunning
<1>6. ASSUME NEW c \in Client, ScanRunning(c) \/ Data(c) \/ DataBlocks(c) \/ MonitorRead(c)
      PROVE  TerminalsInv'
  <2>1. CASE ScanRunning(c)
    BY <1>1, <2>1, QuietStep DEF ScanRunning, Visits
  <2>2. CASE Data(c)
    BY <1>1, <2>2, QuietStep DEF Data, Receives, walk
  <2>3. CASE DataBlocks(c)
    BY <1>1, <2>3, QuietStep DEF DataBlocks, walk
  <2>4. CASE MonitorRead(c)
    BY <1>1, <2>4, QuietStep DEF MonitorRead
  <2> QED
    BY <1>6, <2>1, <2>2, <2>3, <2>4
<1>7. CASE DataTaken \/ MonitorDone \/ Close
  BY <1>1, <1>7, QuietStep DEF DataTaken, MonitorDone, Close, walk
<1>8. CASE MonitorStart
  BY <1>1, <1>8, QuietStep DEF MonitorStart
<1> QED
  BY <1>2, <1>3, <1>4, <1>5, <1>6, <1>7, <1>8

Sound == "fork" \notin faults

\* The children that the publisher should have when it holds the nodes of S.
Kept(S) == {procs[d] : d \in S}

\* What the types and the walk say of the nodes.
LEMMA Nodes ==
    ASSUME TerminalsInv
    PROVE  /\ OsType /\ Children \subseteq Pid /\ None \notin Table /\ Table \subseteq Client
           /\ \A c \in Table : procs[c] \in Pid \cup {-1}
           /\ Sound => \A c \in Table : procs[c] \in Pid
           /\ procs \in [Client -> Pid \cup {-1, None}]
           /\ Held \subseteq Table
BY NoneAssumption DEF TerminalsInv, TypeOK, OsType, Children, Table, PidsKnown, Sound, Held

\* Killing the terminal of a node that is held leaves the others.
LEMMA KillHeld ==
    ASSUME TerminalsInv, NEW c \in Held, Kill(procs[c])
    PROVE  /\ OsType'
           /\ Sound => /\ Kept(Held \ {c}) \subseteq Children'
                       /\ "twice" \notin faults => Children' \subseteq Kept(Held \ {c})
                       /\ procs[c] \notin Children'
<1>1. c \in Table /\ procs[c] \in Pid \cup {-1} /\ OsType
  BY Nodes
<1>2. OsType' /\ (procs[c] # -1 => Children' = Children \ {procs[c]})
  BY <1>1, KillTakesOne
<1>3. ASSUME Sound
      PROVE  /\ Kept(Held \ {c}) \subseteq Children'
             /\ "twice" \notin faults => Children' \subseteq Kept(Held \ {c})
             /\ procs[c] \notin Children'
  <2>1. /\ Kept(Held) \subseteq Children /\ procs[c] # -1
        /\ "twice" \notin faults => Children \subseteq Kept(Held)
        /\ \A d \in Held : procs[c] = procs[d] => c = d
    BY <1>1, <1>3, Nodes DEF TerminalsInv, ChildrenHeld, PidsKnown, Sound, Kept
  <2>2. Children' = Children \ {procs[c]}
    BY <1>2, <2>1
  <2> QED
    BY <2>1, <2>2 DEF Kept
<1> QED
  BY <1>2, <1>3

\* The terminal of a node is over; its pid is no child's any more.
LEMMA ScanExitedStep ==
    ASSUME TerminalsInv, NEW c \in Client, ScanExited(c)
    PROVE  TerminalsInv'
<1>1. /\ pc = "scan" /\ pc' = "scan" /\ cur = None /\ c \in todo /\ todo' = todo \ {c} /\ cur' = c
      /\ UNCHANGED <<running, link, procs, output, gone, tsubs, faults>>
  BY DEF ScanExited, Visits
<1>2. c \in Table /\ c \notin gone /\ gone \subseteq Table /\ todo \subseteq Table
  BY <1>1 DEF TerminalsInv, TypeOK, Walks
<1>3. Table' = Table /\ c \in Held /\ Held' = Held \ {c}
  BY <1>1, <1>2, Nodes DEF Table, Held
<1>4. OsType'
  BY Nodes DEF ScanExited, OsType, Zombies
<1>5. ASSUME Sound
      PROVE  /\ Kept(Held') \subseteq Children'
             /\ "twice" \notin faults => Children' \subseteq Kept(Held')
             /\ procs[c] \notin Children'
  <2>1. /\ Kept(Held) \subseteq Children /\ procs[c] \in Children /\ procs[c] \in Pid
        /\ "twice" \notin faults => Children \subseteq Kept(Held)
        /\ \A d \in Held : procs[c] = procs[d] => c = d
    BY <1>3, <1>5, Nodes DEF TerminalsInv, ChildrenHeld, Sound, Kept
  <2>2. os' = [os EXCEPT ![procs[c]] = "free"]
    BY <2>1, NoneAssumption DEF ScanExited, Children
  <2>3. Children' = Children \ {procs[c]}
    BY <2>1, <2>2, Nodes DEF Children, OsType
  <2> QED
    BY <1>3, <2>1, <2>3 DEF Kept
<1>6. TypeOK'
  BY <1>1, <1>2, <1>3, <1>4 DEF TerminalsInv, TypeOK, OsType
<1>7. ChildrenHeld' /\ PidsKnown'
  BY <1>1, <1>3, <1>5 DEF TerminalsInv, ChildrenHeld, PidsKnown, Sound, Kept
<1>8. Walks' /\ Told'
  BY <1>1, <1>2, <1>3, Nodes DEF TerminalsInv, Walks, Told
<1> QED
  BY <1>6, <1>7, <1>8 DEF TerminalsInv

LEMMA ScanKillStep ==
    ASSUME TerminalsInv, ScanKill
    PROVE  TerminalsInv'
<1>1. /\ pc = "scan" /\ pc' = "scan" /\ cur # None /\ Kill(procs[cur])
      /\ tsubs' = tsubs \ {cur} /\ gone' = gone \cup {cur} /\ cur' = None
      /\ UNCHANGED <<running, link, procs, output, todo, faults>>
  BY DEF ScanKill
<1>2. cur \in Table /\ cur \notin gone /\ cur \notin todo /\ gone \subseteq Table
  BY <1>1 DEF TerminalsInv, TypeOK, Walks
<1>3. Table' = Table /\ Held' = Held
  BY <1>1, <1>2, Nodes DEF Table, Held
<1>4. OsType' /\ (procs[cur] # -1 => Children' = Children \ {procs[cur]})
  BY <1>1, <1>2, Nodes, KillTakesOne
<1>5. Sound => Children' = Children
  BY <1>1, <1>2, <1>4, Nodes DEF TerminalsInv, PidsKnown, Sound
<1>6. TypeOK'
  BY <1>1, <1>2, <1>3, <1>4 DEF TerminalsInv, TypeOK, OsType
<1>7. ChildrenHeld' /\ PidsKnown'
  BY <1>1, <1>3, <1>5 DEF TerminalsInv, ChildrenHeld, PidsKnown, Sound
<1>8. Walks'
  BY <1>1, <1>2, Nodes DEF TerminalsInv, Walks, TypeOK
<1>9. Told'
  BY <1>1, <1>3 DEF TerminalsInv, Told
<1> QED
  BY <1>6, <1>7, <1>8, <1>9 DEF TerminalsInv

\* Nodes whose terminals are dead leave the table.
LEMMA Deleted ==
    ASSUME TerminalsInv, NEW S, Delete(S)
    PROVE  /\ Table' = Table \ S /\ procs' \in [Client -> Pid \cup {-1, None}]
           /\ output' \subseteq Table'
           /\ \A c \in Table' : procs'[c] = procs[c]
           /\ Sound => \A c \in Client : procs'[c] # -1
BY NoneAssumption DEF Delete, Table, TerminalsInv, TypeOK, PidsKnown, Sound

LEMMA ScanDoneStep ==
    ASSUME TerminalsInv, ScanDone
    PROVE  TerminalsInv'
<1>1. /\ pc = "scan" /\ pc' = "select" /\ cur = None /\ todo = {} /\ Delete(gone) /\ gone' = {}
      /\ UNCHANGED <<running, link, todo, cur, tsubs, os, faults>>
  BY DEF ScanDone
<1>2. /\ Table' = Table \ gone /\ procs' \in [Client -> Pid \cup {-1, None}]
      /\ output' \subseteq Table'
      /\ \A c \in Table' : procs'[c] = procs[c]
      /\ Sound => \A c \in Client : procs'[c] # -1
  BY <1>1, Deleted
<1>3. Held = Table \ gone /\ Held' = Held /\ Children' = Children
  BY <1>1, <1>2, Nodes DEF Held, Children
<1>4. TypeOK'
  BY <1>1, <1>2 DEF TerminalsInv, TypeOK
<1>5. ChildrenHeld'
  <2>1. {procs'[c] : c \in Held'} = {procs[c] : c \in Held}
    BY <1>2, <1>3
  <2> QED
    BY <1>1, <1>2, <1>3, <2>1 DEF TerminalsInv, ChildrenHeld
<1>6. PidsKnown' /\ Walks' /\ Told'
  BY <1>1, <1>2 DEF TerminalsInv, PidsKnown, Walks, Told, Sound
<1> QED
  BY <1>4, <1>5, <1>6 DEF TerminalsInv

\* What holds between two handlers.
LEMMA Between ==
    ASSUME TerminalsInv, pc = "select"
    PROVE  /\ todo = {} /\ gone = {} /\ cur = None /\ Held = Table
           /\ (faults \cap {"told", "freed"} = {} => tsubs = Table)
BY Nodes DEF TerminalsInv, Walks, Told, Held

\* terminal_new, when fork succeeds: the pid was free, so it is no other
\* terminal's.
LEMMA SubscribeStep ==
    ASSUME TerminalsInv, NEW c \in Client, Subscribe(c)
    PROVE  TerminalsInv'
<1>1. PICK p \in Pid : /\ os[p] = "free" /\ os' = [os EXCEPT ![p] = "running"]
                       /\ procs' = [procs EXCEPT ![c] = p]
  BY DEF Subscribe
<1>2. /\ pc = "select" /\ pc' = "loop" /\ tsubs' = tsubs \cup {c} /\ output' = output \ {c}
      /\ faults' = faults \cup Repeated(c) /\ UNCHANGED <<running, link, todo, cur, gone>>
  BY DEF Subscribe, Receives, walk
<1>3. /\ todo = {} /\ gone = {} /\ cur = None /\ Held = Table
      /\ (faults \cap {"told", "freed"} = {} => tsubs = Table)
  BY <1>2, Between
<1>4. /\ Table' = Table \cup {c} /\ Held' = Table \cup {c}
      /\ procs' \in [Client -> Pid \cup {-1, None}] /\ procs'[c] = p
      /\ \A d \in Table \ {c} : procs'[d] = procs[d]
  BY <1>1, <1>2, <1>3, NoneAssumption, Nodes DEF Table, Held
<1>5. OsType' /\ Children' = Children \cup {p} /\ p \notin Children
  BY <1>1, Nodes DEF OsType, Children
<1>6. Repeated(c) \subseteq FaultNames /\ (c \in Table => Repeated(c) = {"twice"})
  BY DEF Repeated, FaultNames, Table
<1>7. TypeOK'
  BY <1>2, <1>3, <1>4, <1>5, <1>6 DEF TerminalsInv, TypeOK, OsType
<1>8. ASSUME "fork" \notin faults'
      PROVE  /\ {procs'[d] : d \in Held'} \subseteq Children'
             /\ "twice" \notin faults' => Children' \subseteq {procs'[d] : d \in Held'}
             /\ \A d, e \in Held' : procs'[d] = procs'[e] => d = e
             /\ \A d \in Client : procs'[d] # -1
  <2>1. /\ {procs[d] : d \in Table} \subseteq Children
        /\ "twice" \notin faults => Children \subseteq {procs[d] : d \in Table}
        /\ \A d, e \in Table : procs[d] = procs[e] => d = e
        /\ \A d \in Client : procs[d] # -1
    BY <1>2, <1>3, <1>8 DEF TerminalsInv, ChildrenHeld, PidsKnown
  <2>2. \A d \in Table \ {c} : procs[d] # p /\ procs'[d] = procs[d]
    BY <1>4, <1>5, <2>1
  <2>3. \A d \in Client : procs'[d] # -1
    BY <1>1, <2>1, NoneAssumption, Nodes
  <2>4. {procs'[d] : d \in Held'} = {procs[d] : d \in Table \ {c}} \cup {p}
    BY <1>4, <2>2
  <2>5. \A d, e \in Held' : procs'[d] = procs'[e] => d = e
    BY <1>4, <2>1, <2>2
  <2>6. "twice" \notin faults' => "twice" \notin faults /\ Table \ {c} = Table
    BY <1>2, <1>6
  <2> QED
    BY <1>5, <2>1, <2>3, <2>4, <2>5, <2>6
<1>9. ChildrenHeld' /\ PidsKnown'
  BY <1>2, <1>3, <1>8 DEF ChildrenHeld, PidsKnown
<1>10. Walks' /\ Told'
  BY <1>2, <1>3, <1>4, NoneAssumption DEF TerminalsInv, Walks, Told
<1> QED
  BY <1>7, <1>9, <1>10 DEF TerminalsInv

\* terminal_new, when fork fails.
LEMMA SubscribeNoForkStep ==
    ASSUME TerminalsInv, NEW c \in Client, SubscribeNoFork(c)
    PROVE  TerminalsInv'
<1>1. /\ pc = "select" /\ pc' = "loop" /\ tsubs' = tsubs \cup {c} /\ output' = output \ {c}
      /\ procs' = [procs EXCEPT ![c] = -1]
      /\ faults' = faults \cup Repeated(c) \cup {"fork"}
      /\ UNCHANGED <<running, link, todo, cur, gone, os>>
  BY DEF SubscribeNoFork, Receives, walk
<1>2. /\ todo = {} /\ gone = {} /\ cur = None
      /\ (faults \cap {"told", "freed"} = {} => tsubs = Table)
  BY <1>1, Between
<1>3. Table' = Table \cup {c} /\ procs' \in [Client -> Pid \cup {-1, None}]
  BY <1>1, NoneAssumption, Nodes DEF Table
<1>4. Repeated(c) \subseteq FaultNames
  BY DEF Repeated, FaultNames
<1>5. TypeOK'
  BY <1>1, <1>2, <1>3, <1>4 DEF TerminalsInv, TypeOK, FaultNames
<1>6. ChildrenHeld' /\ PidsKnown'
  BY <1>1 DEF ChildrenHeld, PidsKnown
<1>7. Walks' /\ Told'
  BY <1>1, <1>2, <1>3, NoneAssumption DEF TerminalsInv, Walks, Told
<1> QED
  BY <1>5, <1>6, <1>7 DEF TerminalsInv

\* A client that writes without a terminal is not in the table; one that is
\* refused a terminal may be, and that is what "told" records.
LEMMA RefuseStep ==
    ASSUME TerminalsInv, NEW c \in Client, SubscribeNoTerminal(c) \/ DataFails(c)
    PROVE  TerminalsInv'
<1>1. /\ pc = "select" /\ pc' = "loop" /\ tsubs' = tsubs \ {c}
      /\ faults \subseteq faults' /\ faults' \subseteq FaultNames
      /\ c \in Table => "told" \in faults'
      /\ UNCHANGED <<running, link, procs, output, todo, cur, gone, os>>
  BY DEF SubscribeNoTerminal, DataFails, Receives, walk, AfterRefusal, TerminalsInv, TypeOK,
     FaultNames, Table
<1>2. /\ todo = {} /\ gone = {} /\ cur = None
      /\ (faults \cap {"told", "freed"} = {} => tsubs = Table)
  BY <1>1, Between
<1>3. Table' = Table /\ Held' = Held /\ Children' = Children
  BY <1>1 DEF Table, Held, Children
<1>4. TypeOK'
  BY <1>1, <1>3 DEF TerminalsInv, TypeOK
<1>5. ChildrenHeld' /\ PidsKnown'
  BY <1>1, <1>3 DEF TerminalsInv, ChildrenHeld, PidsKnown
<1>6. Walks' /\ Told'
  BY <1>1, <1>2, <1>3 DEF TerminalsInv, Walks, Told
<1> QED
  BY <1>4, <1>5, <1>6 DEF TerminalsInv

LEMMA UnsubscribeStep ==
    ASSUME TerminalsInv, NEW c \in Client, Unsubscribe(c)
    PROVE  TerminalsInv'
<1>1. /\ pc = "select" /\ pc' = "loop" /\ tsubs' = tsubs \ {c} /\ Delete({c})
      /\ IF c \in Table THEN Kill(procs[c]) ELSE UNCHANGED os
      /\ UNCHANGED <<running, link, todo, cur, gone, faults>>
  BY DEF Unsubscribe, Receives, walk
<1>2. /\ todo = {} /\ gone = {} /\ cur = None /\ Held = Table
      /\ (faults \cap {"told", "freed"} = {} => tsubs = Table)
  BY <1>1, Between
<1>3. /\ Table' = Table \ {c} /\ procs' \in [Client -> Pid \cup {-1, None}]
      /\ output' \subseteq Table'
      /\ \A d \in Table' : procs'[d] = procs[d]
      /\ Sound => \A d \in Client : procs'[d] # -1
  BY <1>1, Deleted
<1>4. Held' = Table \ {c}
  BY <1>1, <1>2, <1>3, Nodes DEF Held
<1>5. /\ OsType'
      /\ Sound => /\ Kept(Held \ {c}) \subseteq Children'
                  /\ "twice" \notin faults => Children' \subseteq Kept(Held \ {c})
  <2>1. CASE c \in Table
    BY <1>1, <1>2, <2>1, KillHeld
  <2>2. CASE c \notin Table
    <3>1. OsType /\ os' = os /\ Held \ {c} = Held
      BY <1>1, <1>2, <2>2, Nodes
    <3> QED
      BY <3>1 DEF OsType, Children, TerminalsInv, ChildrenHeld, Sound, Kept
  <2> QED
    BY <2>1, <2>2
<1>6. TypeOK'
  BY <1>1, <1>2, <1>3, <1>5 DEF TerminalsInv, TypeOK, OsType
<1>7. ChildrenHeld'
  <2>1. {procs'[d] : d \in Held'} = Kept(Held \ {c})
    BY <1>2, <1>3, <1>4 DEF Kept
  <2> QED
    BY <1>1, <1>2, <1>3, <1>4, <1>5, <2>1 DEF TerminalsInv, ChildrenHeld, Sound
<1>8. PidsKnown' /\ Walks' /\ Told'
  BY <1>1, <1>2, <1>3, NoneAssumption DEF TerminalsInv, PidsKnown, Walks, Told, Sound
<1> QED
  BY <1>6, <1>7, <1>8 DEF TerminalsInv

\* The walks that kill: terminal_monitor when its output cannot be sent, and
\* the final one.
LEMMA WalkKillStep ==
    ASSUME TerminalsInv, NEW c \in Client, MonitorFails(c) \/ ShutdownKill(c)
    PROVE  TerminalsInv'
<1>1. /\ pc \in {"monitor", "shutdown"} /\ pc' = pc /\ c \in todo /\ todo' = todo \ {c}
      /\ Kill(procs[c]) /\ gone' = gone \cup {c}
      /\ tsubs' = IF pc = "monitor" THEN tsubs ELSE tsubs \ {c}
      /\ UNCHANGED <<running, link, procs, output, cur, faults>>
  BY DEF MonitorFails, ShutdownKill
<1>2. cur = None /\ c \in Table /\ c \notin gone /\ gone \subseteq Table /\ c # None
  BY <1>1, Nodes DEF TerminalsInv, TypeOK, Walks
<1>3. Table' = Table /\ c \in Held /\ Held' = Held \ {c}
  BY <1>1, <1>2, Nodes DEF Table, Held
<1>4. /\ OsType'
      /\ Sound => /\ Kept(Held \ {c}) \subseteq Children'
                  /\ "twice" \notin faults => Children' \subseteq Kept(Held \ {c})
  BY <1>1, <1>3, KillHeld
<1>5. TypeOK'
  BY <1>1, <1>2, <1>3, <1>4 DEF TerminalsInv, TypeOK, OsType
<1>6. ChildrenHeld' /\ PidsKnown'
  BY <1>1, <1>2, <1>3, <1>4 DEF TerminalsInv, ChildrenHeld, PidsKnown, Sound, Kept
<1>7. Walks' /\ Told'
  BY <1>1, <1>2, <1>3 DEF TerminalsInv, Walks, Told
<1> QED
  BY <1>5, <1>6, <1>7 DEF TerminalsInv

\* The nodes of a walk that has killed leave the table.
LEMMA WalkDropStep ==
    ASSUME TerminalsInv, MonitorDrop \/ SendClose
    PROVE  TerminalsInv'
<1>1. /\ todo = {} /\ cur = None /\ gone' = {} /\ Delete(gone)
      /\ \/ pc = "monitor" /\ pc' \in {"loop", "crashed"} /\ faults' = faults \cup {"freed"}
         \/ pc = "shutdown" /\ pc' = "closing" /\ faults' = faults /\ Table = gone
      /\ UNCHANGED <<running, link, todo, cur, tsubs, os>>
  BY DEF MonitorDrop, SendClose, TerminalsInv, Walks
<1>2. /\ Table' = Table \ gone /\ procs' \in [Client -> Pid \cup {-1, None}]
      /\ output' \subseteq Table'
      /\ \A c \in Table' : procs'[c] = procs[c]
      /\ Sound => \A c \in Client : procs'[c] # -1
  BY <1>1, Deleted
<1>3. Held = Table \ gone /\ Held' = Held /\ Children' = Children
  BY <1>1, <1>2, Nodes DEF Held, Children
<1>4. TypeOK'
  BY <1>1, <1>2 DEF TerminalsInv, TypeOK, FaultNames, Final
<1>5. ChildrenHeld'
  <2>1. {procs'[c] : c \in Held'} = {procs[c] : c \in Held}
    BY <1>2, <1>3
  <2> QED
    BY <1>1, <1>2, <1>3, <2>1 DEF TerminalsInv, ChildrenHeld
<1>6. PidsKnown' /\ Walks' /\ Told'
  BY <1>1, <1>2 DEF TerminalsInv, PidsKnown, Walks, Told, Sound
<1> QED
  BY <1>4, <1>5, <1>6 DEF TerminalsInv

LEMMA TerminalsStep == TerminalsInv /\ [Next]_vars => TerminalsInv'
<1> SUFFICES ASSUME TerminalsInv, [Next]_vars PROVE TerminalsInv'
  OBVIOUS
<1>1. CASE UNCHANGED vars
  <2>1. /\ UNCHANGED <<pc, running, link, procs, output, todo, cur, gone, tsubs, os, faults>>
        /\ output \subseteq Table /\ running \in BOOLEAN /\ link \in {"up", "down"}
    BY <1>1 DEF vars, TerminalsInv, TypeOK
  <2> QED
    BY <2>1, QuietStep
<1>2. CASE Next
  BY <1>2, MainStep, KernelStep, ScanExitedStep, ScanKillStep, ScanDoneStep, SubscribeStep,
     SubscribeNoForkStep, RefuseStep, UnsubscribeStep, WalkKillStep, WalkDropStep
  DEF Next, Scan, Handlers, Monitor, Shutdown
<1> QED
  BY <1>1, <1>2

\* The inductive invariant holds in every reachable state.
THEOREM TerminalsSafe == Spec => []TerminalsInv
BY TerminalsStart, TerminalsStep, PTL DEF Spec

\* The state keeps its type; in particular every walk visits, and every
\* descriptor that select watches belongs to, a node of the table.
THEOREM TypeCorrect == Spec => []TypeOK
BY TerminalsSafe, PTL DEF TerminalsInv

\* The terminals that the publisher holds are its children, one each, unless
\* fork failed; and it has no others, unless a SUBSCRIBE replaced an entry.
THEOREM HoldsItsChildren == Spec => []ChildrenHeld
BY TerminalsSafe, PTL DEF TerminalsInv

\* Between two handlers, and on the way out, the clients with a terminal are
\* exactly the tunnel's subscribers, unless one that has a terminal was refused
\* another or the failure path of terminal_monitor was taken.
THEOREM ServesSubscribers == Spec => []SubscribersServed
<1>1. TerminalsInv => SubscribersServed
  BY Nodes DEF TerminalsInv, Walks, Told, SubscribersServed, Held
<1> QED
  BY <1>1, TerminalsSafe, PTL
=============================================================================
