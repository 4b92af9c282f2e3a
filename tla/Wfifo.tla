-------------------------------- MODULE Wfifo --------------------------------
(***************************************************************************)
(* The wfifo publisher (wfifo/wfifo.c): it makes a FIFO in the file system *)
(* for all its clients, or one per user when it is given a directory, and  *)
(* either sends what other processes write into a FIFO to the clients      *)
(* (mode "r"), or writes the clients' data into it (mode "w").             *)
(*                                                                         *)
(* FIFOs stay open until the end and are looked up by the hash of their    *)
(* path.  A write to a full FIFO blocks the whole process.  Items of data   *)
(* are counted, not described; `heard` is no program state, it is the last  *)
(* item a client has got, or did not need because it subscribed later.     *)
(***************************************************************************)
EXTENDS Hotline

CONSTANTS Path, Hash,  \* paths of FIFOs, and values of simple_hash
          Fd,          \* descriptors
          None,        \* no descriptor, no file, no path
          Setups,      \* command lines: records [mode, base, path, hash]
          Capacity,    \* items a FIFO holds
          MaxItems     \* bound: items other processes write

\* base is the path of the common FIFO, None if there is one per user; path
\* gives a client's FIFO, hash its key.
ASSUME SetupsAssumption ==
    /\ None \notin Fd \cup Path /\ "orphan" \notin Fd \cup {None}
    /\ Capacity \in Nat \ {0} /\ MaxItems \in Nat
    /\ Setups \subseteq [mode : {"r", "w"}, base : Path \cup {None},
                         path : [Client -> Path], hash : [Path -> Hash]]

VARIABLES
    pc,        \* where main() is
    running,   \* cleared by SIGINT and by fatal errors
    setup,     \* the command line
    clients,   \* the tree of clients: client id -> descriptor of its FIFO
    handles,   \* the tree of FIFOs: hash of the path -> descriptor
    file,      \* path -> the FIFO there: a descriptor, "orphan" if nobody has it open
    fifo,      \* descriptor -> items in the FIFO
    written,   \* items written by other processes
    relayed,   \* descriptor -> items read from it for the clients
    ready,     \* FIFOs the current walk has still to read
    todo,      \* clients the current item has still to be sent to
    target,    \* FIFO write() is called for
    refused,   \* subscribers that could not be given a FIFO
    heard      \* client -> last item

fifos == <<handles, file, fifo, written, relayed>>
walk == <<ready, todo, target>>
vars == <<tunnel, pc, running, setup, clients, fifos, walk, refused, heard>>

Subscribed == {c \in Client : clients[c] # None}
Open == {handles[h] : h \in Hash} \ {None}

TypeOK ==
    /\ TunnelTypeOK
    /\ pc \in {"opening", "loop", "select", "reading", "writing", "shutdown", "closing", "closed"}
    /\ running \in BOOLEAN
    /\ setup \in Setups
    /\ clients \in [Client -> Fd \cup {None}]
    /\ handles \in [Hash -> Fd \cup {None}]
    /\ file \in [Path -> Fd \cup {None, "orphan"}]
    /\ fifo \in [Fd -> 0 .. Capacity]
    /\ written \in 0 .. MaxItems
    /\ relayed \in [Fd -> 0 .. MaxItems]
    /\ ready \subseteq Open /\ todo \subseteq Subscribed /\ target \in Open \cup {None}
    /\ refused \subseteq Client \ Subscribed
    /\ heard \in [Client -> 0 .. MaxItems]

-----------------------------------------------------------------------------
(* init_fifo() for path p.                                                 *)

LookupNothing(p) == None     \* (mutant: the table is not looked at)
Lookup(p) == handles[setup.hash[p]]

Finds(p, f) == f = Lookup(p) /\ f # None /\ UNCHANGED fifos

\* unlink, mkfifo, open, chown.
Creates(p, f) ==
    /\ Lookup(p) = None
    /\ f \in Fd \ Open
    /\ handles' = [handles EXCEPT ![setup.hash[p]] = f]
    /\ file' = [file EXCEPT ![p] = f]
    /\ fifo' = [fifo EXCEPT ![f] = 0]
    /\ UNCHANGED <<written, relayed>>

\* The user is not known (its FIFO is not even looked up); or mkfifo fails
\* after unlink; or open or chown fails, and the FIFO remains.
Fails(p) ==
    /\ \/ setup.base = None /\ UNCHANGED file
       \/ Lookup(p) = None /\ \E left \in {None, "orphan"} : file' = [file EXCEPT ![p] = left]
    /\ UNCHANGED <<handles, fifo, written, relayed>>

-----------------------------------------------------------------------------
(* Start-up: CHANNEL_OPEN is written; whatever the answer is, the common    *)
(* FIFO is made.                                                           *)

Init ==
    /\ TunnelInit
    /\ pc = "opening" /\ running = TRUE
    /\ setup \in Setups
    /\ clients = [c \in Client |-> None]
    /\ handles = [h \in Hash |-> None]
    /\ file = [p \in Path |-> None]
    /\ fifo = [f \in Fd |-> 0]
    /\ written = 0 /\ relayed = [f \in Fd |-> 0]
    /\ ready = {} /\ todo = {} /\ target = None
    /\ refused = {}
    /\ heard = [c \in Client |-> 0]

OpenReply(ok) ==
    /\ pc = "opening"
    /\ pc' = "loop"
    /\ running' = (running /\ ok)
    /\ IF setup.base = None THEN UNCHANGED fifos
       ELSE Fails(setup.base) \/ \E f \in Fd : Creates(setup.base, f)
    /\ UNCHANGED <<tunnel, setup, clients, walk, refused, heard>>

OpenFails ==
    /\ pc = "opening" /\ link = "down"
    /\ pc' = "closed"
    /\ UNCHANGED <<tunnel, running, setup, clients, fifos, walk, refused, heard>>

-----------------------------------------------------------------------------
(* The environment.                                                        *)

Tunnel ==
    /\ pc \notin {"opening", "closing", "closed"} /\ TunnelActs
    /\ UNCHANGED <<pc, running, setup, clients, fifos, walk, refused, heard>>

\* Before the channel is open, and after it is closed, the tunnel sends
\* nothing, but it may still go away.
TunnelBreaks ==
    /\ pc \in {"opening", "closing"} /\ LinkDown
    /\ UNCHANGED <<pc, running, setup, clients, fifos, walk, refused, heard>>

\* Another process opens the FIFO at path p and writes into it, or reads.
OutsideWrites(p) ==
    /\ setup.mode = "r" /\ file[p] \in Open
    /\ written < MaxItems /\ fifo[file[p]] < Capacity
    /\ fifo' = [fifo EXCEPT ![file[p]] = @ + 1]
    /\ written' = written + 1
    /\ UNCHANGED <<tunnel, pc, running, setup, clients, handles, file, relayed, walk, refused, heard>>

OutsideReads(p) ==
    /\ setup.mode = "w" /\ file[p] \in Open
    /\ fifo[file[p]] > 0
    /\ fifo' = [fifo EXCEPT ![file[p]] = @ - 1]
    /\ UNCHANGED <<tunnel, pc, running, setup, clients, handles, file, written, relayed, walk,
                   refused, heard>>

\* SIGINT.  It wakes a process that is blocked in select, and nothing if it
\* lands just before select is entered; write() is restarted.
Interrupt ==
    /\ pc # "closed"
    /\ running' = FALSE
    /\ \/ pc' = pc
       \/ pc = "select" /\ pc' = "loop"
    /\ UNCHANGED <<tunnel, setup, clients, fifos, walk, refused, heard>>

-----------------------------------------------------------------------------
(* The main loop: a message of the tunnel goes first.                      *)

CheckRunning ==
    /\ pc = "loop"
    /\ pc' = IF running THEN "select" ELSE "shutdown"
    /\ UNCHANGED <<tunnel, running, setup, clients, fifos, walk, refused, heard>>

Receives == pc = "select" /\ pc' = "loop" /\ UNCHANGED <<tsubs, setup, walk>>

KeepRunningAfterReadError == running  \* (mutant: the error is only logged)
RunningAfterReadError == FALSE
ReadFails ==
    /\ Receives /\ AtEnd /\ UNCHANGED <<link, hotline>>
    /\ running' = RunningAfterReadError
    /\ UNCHANGED <<clients, fifos, refused, heard>>

Subscribe(c) ==
    /\ Receives /\ Reads(Subscription(c))
    /\ \E f \in Fd :
          /\ Finds(setup.path[c], f) \/ Creates(setup.path[c], f)
          /\ clients' = [clients EXCEPT ![c] = f]
          /\ heard' = [heard EXCEPT ![c] = relayed[f]]
    /\ refused' = refused \ {c}
    /\ UNCHANGED running

\* There is no FIFO: the client is not entered, and not told.
InsertError(c) == [clients EXCEPT ![c] = "orphan"]  \* (mutant: -1 is not tested for)
AfterFailure(c) == clients
SubscribeFails(c) ==
    /\ Receives /\ Reads(Subscription(c))
    /\ Fails(setup.path[c])
    /\ clients' = AfterFailure(c)
    /\ refused' = refused \cup ({c} \ Subscribed)
    /\ UNCHANGED <<running, heard>>

\* The FIFO stays open.
DeleteNothing(c) == clients   \* (mutant: the node is not deleted)
Delete(c) == [clients EXCEPT ![c] = None]
Unsubscribe(c) ==
    /\ Receives /\ Reads(Unsubscription(c))
    /\ clients' = Delete(c)
    /\ refused' = refused \ {c}
    /\ UNCHANGED <<running, fifos, heard>>

\* A message of another type, empty data, or data of a client that has no
\* FIFO: nothing happens.
Ignore ==
    /\ Receives /\ \E m \in Requests : Reads(m)
    /\ UNCHANGED <<running, clients, fifos, refused, heard>>

\* "Channel is read only"; the loop ends when that cannot be written.
DataRefused ==
    /\ Receives /\ setup.mode = "r"
    /\ \E m \in Requests : Reads(m)
    /\ \E ok \in BOOLEAN : Accepted(ok) /\ running' = (running /\ ok)
    /\ UNCHANGED <<clients, fifos, refused, heard>>

\* write() to the client's FIFO, which returns once there is room.  (It
\* does not fail: the process itself holds the FIFO open for reading.)
Data(c) ==
    /\ pc = "select" /\ setup.mode = "w" /\ c \in Subscribed
    /\ \E m \in Requests : m.client = c /\ Reads(m)
    /\ pc' = "writing"
    /\ target' = clients[c]
    /\ UNCHANGED <<tsubs, running, setup, clients, fifos, ready, todo, refused, heard>>

WriteFifo ==
    /\ pc = "writing" /\ fifo[target] < Capacity
    /\ pc' = "loop"
    /\ fifo' = [fifo EXCEPT ![target] = @ + 1]
    /\ target' = None
    /\ UNCHANGED <<tunnel, running, setup, clients, handles, file, written, relayed, ready, todo,
                   refused, heard>>

-----------------------------------------------------------------------------
(* select reports FIFOs only.                                              *)

Filled == {f \in Open : fifo[f] > 0}

\* Mode "w": what nobody has read yet wakes select and is left alone.
Spin ==
    /\ pc = "select" /\ ~Readable /\ Filled # {} /\ setup.mode = "w"
    /\ pc' = "loop"
    /\ UNCHANGED <<tunnel, running, setup, clients, fifos, walk, refused, heard>>

\* Mode "r": monitor_fifo_handles on every FIFO.
ReadStart ==
    /\ pc = "select" /\ ~Readable /\ Filled # {} /\ setup.mode = "r"
    /\ pc' = "reading"
    /\ ready' = Filled
    /\ UNCHANGED <<tunnel, running, setup, clients, fifos, todo, target, refused, heard>>

\* send_data: the clients with this FIFO.
Everybody(f) == Subscribed   \* (mutant: the descriptors are not compared)
Receivers(f) == {c \in Subscribed : clients[c] = f}

\* The buffer may be too small for all there is.
ReadFifo(f) ==
    /\ pc = "reading" /\ todo = {} /\ f \in ready
    /\ \E n \in 1 .. fifo[f] : fifo' = [fifo EXCEPT ![f] = @ - n]
    /\ relayed' = [relayed EXCEPT ![f] = @ + 1]
    /\ ready' = ready \ {f}
    /\ todo' = Receivers(f)
    /\ UNCHANGED <<tunnel, pc, running, setup, clients, handles, file, written, target, refused, heard>>

\* read() fails, and the walk goes on.
ReadFifoFails(f) ==
    /\ pc = "reading" /\ todo = {} /\ f \in ready
    /\ ready' = ready \ {f}
    /\ UNCHANGED <<tunnel, pc, running, setup, clients, fifos, todo, target, refused, heard>>

\* On a broken connection the item is lost.
SendTo(c) ==
    /\ pc = "reading" /\ c \in todo
    /\ todo' = todo \ {c}
    /\ heard' = IF link = "up" THEN [heard EXCEPT ![c] = @ + 1] ELSE heard
    /\ UNCHANGED <<tunnel, pc, running, setup, clients, fifos, ready, target, refused>>

ReadDone ==
    /\ pc = "reading" /\ todo = {} /\ ready = {}
    /\ pc' = "loop"
    /\ UNCHANGED <<tunnel, running, setup, clients, fifos, walk, refused, heard>>

-----------------------------------------------------------------------------
(* Leaving the loop: unsubscribe() on every node, close the FIFOs, which    *)
(* stay in the file system, then the channel.                              *)

ShutdownTell(c) ==
    /\ pc = "shutdown" /\ c \in Subscribed
    /\ Tells(c)
    /\ clients' = [clients EXCEPT ![c] = None]
    /\ UNCHANGED <<pc, running, setup, fifos, walk, refused, heard>>

ToldSome == TRUE         \* (mutant: the channel is closed first)
ToldAll == Subscribed = {}
SendClose ==
    /\ pc = "shutdown" /\ ToldAll
    /\ pc' = "closing"
    /\ handles' = [h \in Hash |-> None]
    /\ UNCHANGED <<tunnel, running, setup, clients, file, fifo, written, relayed, walk, refused, heard>>

\* The final msg_read returns the answer, what was sent before it, or the
\* end of the socket.
Close ==
    /\ pc = "closing"
    /\ pc' = "closed"
    /\ UNCHANGED <<tunnel, running, setup, clients, fifos, walk, refused, heard>>

-----------------------------------------------------------------------------
Handlers == \/ \E c \in Client : Subscribe(c) \/ SubscribeFails(c) \/ Unsubscribe(c) \/ Data(c)
            \/ Ignore \/ DataRefused \/ ReadFails

Reading == \/ \E f \in Fd : ReadFifo(f) \/ ReadFifoFails(f)
           \/ \E c \in Client : SendTo(c)
           \/ ReadDone

Shutdown == (\E c \in Client : ShutdownTell(c)) \/ SendClose

Next ==
    \/ \E ok \in BOOLEAN : OpenReply(ok)
    \/ OpenFails \/ Tunnel \/ TunnelBreaks \/ Interrupt
    \/ \E p \in Path : OutsideWrites(p) \/ OutsideReads(p)
    \/ CheckRunning \/ Handlers \/ WriteFifo \/ Spin \/ ReadStart \/ Reading
    \/ Shutdown \/ Close

Spec == Init /\ [][Next]_vars

\* The process takes the steps it can take.  Nothing is assumed of the
\* processes at the other end of the FIFOs.
LiveSpec ==
    /\ Spec
    /\ WF_vars(OpenFails) /\ WF_vars(CheckRunning) /\ WF_vars(Handlers) /\ WF_vars(WriteFifo)
    /\ WF_vars(ReadStart) /\ WF_vars(Reading) /\ WF_vars(Shutdown)
    /\ WF_vars(Close /\ link = "down")

-----------------------------------------------------------------------------
(* Properties.                                                             *)

\* As long as it serves, the clients with a FIFO are the subscribers of the
\* tunnel, but for the messages not read yet and the clients that could not
\* be given a FIFO; when the channel is closed, every subscriber has been
\* told, except those and one whose subscription was never read.
\* (306-318, 376-387.)
Serves ==
    /\ pc \notin {"shutdown", "closing", "closed"} => InStep(Subscribed \cup refused)
    /\ pc = "closing" /\ link = "up" =>
          \A c \in tsubs : c \in refused \/ Queued(Subscription(c))

\* No other path has the hash of p.
Alone(p) == \A q \in Path : setup.hash[q] = setup.hash[p] => q = p

\* A client's FIFO is the one that other processes find at its path,
\* whatever failed and was tried again before, unless another path has the
\* same hash.  (125-201.)
Reachable == \A c \in Subscribed : Alone(setup.path[c]) => file[setup.path[c]] = clients[c]

\* What is read from a FIFO reaches every client of it, in order and once,
\* and no other client, as long as the connection holds.  (33-95, 365-373.)
R == INSTANCE Relay WITH
        Topic <- Fd, Nothing <- None,
        topic <- clients, published <- relayed, up <- link = "up"
Implements == R!Spec

\* When the tunnel service goes away, the publisher stops, unless it is
\* stuck in a write to a FIFO that nobody reads.  (297-301, 329, 376-394.)
StopsWithTunnel == link = "down" ~> (pc = "closed" \/ [](pc = "writing"))
-----------------------------------------------------------------------------
(* Why these hold: an invariant that every step keeps.                     *)

\* A walk over the FIFOs, and a write, is over when the loop goes on; only
\* mode "r" walks and only mode "w" writes, to a FIFO that is open.
WalkOver ==
    /\ pc # "reading" => ready = {} /\ todo = {}
    /\ pc # "writing" => target = None
    /\ pc = "reading" => setup.mode = "r"
    /\ pc = "writing" => setup.mode = "w" /\ target \in Open

\* Leaving the loop, there is no subscriber but those that are still to be
\* told, were refused, or whose subscription is not read any more.
Leaving ==
    /\ pc = "closing" => Subscribed = {}
    /\ pc \in {"shutdown", "closing"} /\ link = "up" =>
          \A c \in tsubs : c \in Subscribed \cup refused \/ Queued(Subscription(c))

\* What is sent on, and what waits, was written.
Counts == \A f \in Fd :
    /\ setup.mode = "r" => relayed[f] + fifo[f] <= written
    /\ setup.mode = "w" => relayed[f] = 0

\* A client's FIFO stays in the tree, and what the tree holds for a path that
\* shares its hash with no other is what lies at the path.
Kept == \A c \in Subscribed : Lookup(setup.path[c]) = clients[c]
InPlace == \A p \in Path : Lookup(p) # None /\ Alone(p) => file[p] = Lookup(p)

\* On an intact connection a client has heard all of its FIFO, but for the
\* item that is being sent.
UpToDate == link = "up" => \A c \in Subscribed :
    heard[c] = relayed[clients[c]] - IF c \in todo THEN 1 ELSE 0

FifoInv == TypeOK /\ Serves /\ WalkOver /\ Leaving /\ Counts /\ Kept /\ InPlace
           /\ UpToDate
=============================================================================
