# Verification of antd-tunnel-publishers

TLA+ models of the publishers of the antd tunnel, of the supervisor that runs them and
of the protocol they speak, model-checked with TLC; what the modules promise of every
state is also proved with TLAPS. Line numbers refer to `src/`.

## The system

The tunnel service of the antd web server (not in this repository) multiplexes
*channels* over Unix or TCP sockets. A *publisher* is a process that connects to it,
opens one channel, and then exchanges messages with the clients that subscribe to that
channel. `runnerd` starts the publishers a configuration names and watches them.

| Part | State it keeps | Operations | Hard because of |
|---|---|---|---|
| `tunnel.c`, wire protocol | none between calls | `msg_read`, `msg_write`, `open_socket` | short reads and writes, connection lost between any two bytes |
| `broadcast/broadcast.c` | tree client id -> user handle; handle = name, reference count, groups; reply buffer | SUBSCRIBE, UNSUBSCRIBE, DATA, CTRL (join, leave, query users, query groups), final unsubscription | handles shared by the clients of a user, freed with the last; notices before or after the change they announce; stale pointers |
| `vterm/vterm.c` | tree client id -> terminal (pid, master descriptor) | SUBSCRIBE (fork), UNSUBSCRIBE, DATA, CTRL (window size), walk before `select`, terminal output, final kill | children exit at any moment; pids are released by `waitpid`, reused by the kernel; nodes deleted later than their data |
| `runner.c`, configuration | one static command record | a call per line of the ini file, end of file | arrays filled across lines, cleared only when a service is started |
| `runner.c`, supervision | list of pids | start, poll every 500 ms, kill the rest | exits in any order, an item that is gone polls `waitpid(-1)`, signals |
| `wfifo/wfifo.c` | trees client id -> descriptor, path hash -> descriptor | SUBSCRIBE (`init_fifo`), UNSUBSCRIBE, DATA to a FIFO, FIFO to clients | `init_fifo` fails at any step and is tried again, FIFO full, hash collisions |
| `syslog/syslog.c` | set of clients | SUBSCRIBE, UNSUBSCRIBE, datagrams to all clients | errors and broken connections in the middle of a walk |
| `v4l2cam/v4l2cam.c` | settings, frame buffer and the flag that it is at the camera, camera and timer descriptors, set of clients | SUBSCRIBE, UNSUBSCRIBE, CTRL (settings), frames to all clients | the camera is closed and reopened while a frame is out, timer opened and closed with the first and last client, 0 and -1 both mean "none" |

Every publisher has one thread: it selects on its descriptors, handles one message or
one batch of local input, and selects again. Interaction is by messages with the tunnel,
signals (SIGINT), child processes and their pids, and FIFOs or device descriptors. What
makes them correct:

* *channel*: the channel is opened first, closed last; a client the tunnel counts as a
  subscriber is one the publisher serves; the publisher stops when the tunnel is gone.
* *broadcast*: a user's group memberships last exactly as long as one of its clients is
  subscribed; every member of a group learns of every join and leave.
* *vterm*: one child process per subscribed client, each killed and waited for once.
* *runnerd*: a service is started once with its own arguments; none is left behind;
  `runnerd` ends when they all have, because systemd restarts it (`Restart=always`).
* *wire*: messages arrive whole, in order and once.
* *wfifo, syslog*: every subscriber of a source gets each of its items in order and
  once, and nothing of another source; a client's FIFO is the one at its path.
* *v4l2cam*: every client knows the setting in force; the descriptors the program holds
  are the camera and its timer; it waits for no frame that cannot come.

## Modules

| Module | Models | Notes |
|---|---|---|
| `GroupService` | what the broadcast publisher promises | abstract: clients, users, groups |
| `Broadcast` | `broadcast.c` | implements `GroupService` |
| `BroadcastProofs` | | proofs about `Broadcast` |
| `Vterm` | `vterm.c` and the kernel's process table | |
| `VtermProofs` | | proofs about `Vterm` |
| `ServiceConfig` | `ini_handle`, `execute_command` | with a reference definition of what a file says |
| `Runner` | `main` of `runner.c` and the kernel's process table | |
| `RunnerdProofs` | | proofs about `ServiceConfig` and `Runner` |
| `MessageChannel` | what the connection is taken for | abstract: a FIFO whose end may be lost |
| `Wire` | `guard_read`, `guard_write`, `msg_read`, `msg_write` | implements `MessageChannel` |
| `WireProofs` | | proofs about `Wire` |
| `Hotline` | the tunnel service, as a publisher sees it through its socket | extended by the three publishers below |
| `HotlineProofs` | | lemmas about the messages on the way |
| `Relay` | what a publisher that only passes data on promises | abstract: topics, subscribers, counted items |
| `Syslog` | `syslog.c` | implements `Relay` with one topic |
| `SyslogProofs` | | proofs about `Syslog` |
| `Wfifo` | `wfifo.c`, the file system and the FIFOs | implements `Relay` with a topic per FIFO |
| `WfifoProofs` | | proofs about `Wfifo` |
| `V4l2cam` | `v4l2cam.c`, its table of descriptors and the camera driver | |
| `V4l2camProofs` | | proofs about `V4l2cam` |
| `MC*` | | small instances for TLC |

### How states and actions correspond to the code

A publisher's `pc` is the place in `main()` where it can be interrupted or observed:
waiting for the answer to CHANNEL_OPEN, testing `running`, blocked in `select`, in the
final loop, waiting for the answer to CHANNEL_CLOSE. A message handler is one action:
the process has one thread, and nothing it shares can change within a handler, except
through the kernel. In `Vterm` and `Runner`, where that matters, a walk over the table
is one action per node, and `waitpid` and the later `kill` are actions of their own.
Handlers whose outcome depends on the payload are split into one action per outcome
(`SubscribeTooLong`, `SubscribeAgain`, `SubscribeShared`, `SubscribeFirst`).

`Broadcast` keeps the heap explicit: `live`, `name`, `ref`, `groups` describe the
allocated `bc_client_t`, `clients` the tree that points at them, `reply` what
`response.data` points at, and `fault` records the first access through an invalid
pointer, after which the process may have died (`Dies`) or gone on. `view` is no program
state: it is what a client learns that queries a group and then follows the notices.
Group names are the hashes the program compares.

`Vterm` keeps, for each pid, the kernel's view (`free`, `running`, `zombie`, or held by
a `stranger`), so that `waitpid`, `kill` and the reuse of pids have their real effects,
for pid -1 too. `gone` are nodes whose data is freed and which are still in the tree.
Terminals carry no text. Reads and writes of the master side do not fail: the publisher
never closes its own descriptor of the slave side. A write to a terminal that nobody
reads blocks (`DataBlocks`), and nothing says that it ever returns.

`ServiceConfig` has one action per configuration line; a string is the number of its
line, an array a function on its indices with `Null` for NULL. `Runner` takes services
as mere processes.

`Wire` works on bytes: a message is seven fields, encoded most significant byte first; a
step moves any part of a field that fits the socket. The reader knows nothing but the
bytes. `Break` may happen anywhere, after which writes fail and what was not read may be
lost.

`Hotline` makes the delay between the tunnel and a publisher explicit, which `Broadcast`
and `Vterm` leave out: subscriptions and the clients' messages wait in `hotline` until
the publisher reads them, so the tunnel's set `tsubs` and the publisher's table differ
by what is on the way. `Agree` says exactly how: a client is a subscriber of the tunnel
iff it is in the table and no unsubscription of it is on the way, or a subscription is
that nothing takes back. What the publisher writes is taken to be handled at once. When
the connection breaks (`LinkDown`), any number of the messages on the way is lost, the
last ones first; a write that follows may fail or still be taken by the kernel
(`Accepted`). A
publisher's `select` prefers the hotline: its other descriptors are only served when
`Readable` is false (`syslog.c` 163-195, `wfifo.c` 294-365, `v4l2cam.c` 534-637).

`Syslog` and `Wfifo` count datagrams and items. The walk over the clients that sends one
is an action per client (`SendTo`), since the connection may break in between; `heard`
is no program state, it counts the items a client needs no more, those it was sent and
those from before its subscription, so that an item sent twice would show. `Wfifo` has
the command line in `setup` (mode, common FIFO or one per user, hashes of the paths),
the file system in `file` (a path has no file, an open FIFO, or an "orphan": one that
exists and that this process has not opened), and one action per way through
`init_fifo`: `Finds`, `Creates` and `Fails`, the last of which leaves behind what the
code leaves behind at each of its returns. In mode "r" the FIFOs with data are walked in
any order, as the tree visits them.

`V4l2cam` models the descriptor numbers, because the code tests them against 0 and -1:
`open` and `timerfd_create` return the lowest free one. Before the main loop, the camera
is 3, the first call of `cam_init_timer` closes descriptor 0 (the static `timerfd` is 0)
and gets it back, the connection to the system log is 4 and the hotline 5. `device` is
the driver: the descriptor that owns its buffer, whether it streams, where the frame is,
whether it is plugged in. A change of setting is `Control` (the payload is stored)
followed by one of the outcomes of `cam_apply_setting`: `CleanupFails`, `ReopenFails`,
`SettingRefused`, `SettingApplied`; they wait until `VIDIOC_DQBUF` returns
(`DequeueReturns`). If the camera is reopened as descriptor 0, because the timer had
been closed for want of clients or of a valid period, the next `cam_cleanup` does not
close it (316), the driver refuses the second handle, and the publisher ends: the model
follows the code in this, and `Descriptors` holds because it does end.

Assumed of libantd, from how its callers use it: `bst_insert` under a key that is there
replaces the data; `bst_delete` removes the node and not its data; `bst_for_each` visits
every node; `ini_parse` reports the lines in file order.

## Runs

| Run | Instance | Shows |
|---|---|---|
| `MCBroadcast` | 3 clients, 2 users, 1 group, 2 addresses; 52 237 states | `HandlesOwned`: reference counts are exact, no leak, no use after free outside the final loop. `OneHandlePerUser`. `ViewExact`: the notices are complete. `Implements`: refinement of `GroupService`. `StopsWithTunnel`. |
| `BroadcastShutdown` | the same | the final loop visits freed handles (finding) |
| `MCVterm` | 2 clients, 2 pids; 293 124 states | `ChildrenHeld`: the terminals in the table are children, one each, and there are no others. `SubscribersServed`: the subscribers are the clients with a terminal. `StopsWithTunnel`. |
| `VtermExit` | 1 client, 1 pid | a terminal's exit wakes nothing (finding) |
| `MCServiceConfig` | 2 sections, up to 7 lines, arrays of 4 + 1, 2 inherited variables; 371 298 states | `EachStartedOnce`, `OwnArguments`: every service is started once, with what the file says |
| `ConfigStrings` | the same | the check of line 67 is not enough (finding) |
| `MCRunner` | 3 services, 3 pids; 16 032 states | `ChildrenListed`, `NoneLeft`: no service is lost or left behind. `StrangersSafe`: the final SIGKILLs reach another process only through an item before one that is struck out. `EndsWithServices`, `EndsOnSignal`. |
| `MCWire` | 3 messages out of 3, socket of 5 bytes; 24 360 states | `Framed`: framing is never lost. `Implements`: refinement of `MessageChannel`. `ArrivesOrFails`. |
| `MCSyslog` | 2 clients, 3 datagrams, 2 messages on the way; 76 332 states | `Serves`: the clients served are the tunnel's subscribers, but for what is on the way, and all are told in the end. `Implements`: refinement of `Relay`. `StopsWithTunnel`. |
| `MCWfifo` | 2 clients; one FIFO for both and one each in mode "r", two paths of one hash in mode "w"; FIFOs of 1 item, 2 items written; 619 809 states | `Serves`, with the clients that could not be given a FIFO. `Reachable`: a client's FIFO is the one at its path. `Implements`: refinement of `Relay`. `StopsWithTunnel`. |
| `MCV4l2cam` | 2 clients, 2 settings (5 frames per second; 1, which is no valid period), 2 supported sizes, one of them asked for; 7 descriptors; 611 460 states | `Serves`, `SettingKnown`, `Descriptors`, `Awaited`, `Fits`: see the inventory; `StopsWithTunnel`, `EndsWithCamera`. |
| `V4l2camPaced` | the same | the timer is not read while its descriptor is 0 (finding) |

Runs with a finding state what a comment, an assertion or a test in the source says;
TLC's counterexample is the sequence of steps in which the program does otherwise.
`PROJECT.json` quotes the lines.

### Further disagreements

Four more properties state what the source says and do not hold. They are defined in the
modules, but no run is kept for them; TLC shows each by a counterexample within seconds
when it is named as an INVARIANT of the module's configuration.

* `AnswersErrors` (`Broadcast`, `MCBroadcast.cfg`): `BC_ERROR` formats "Client %d does
  not previously subscribe to the channel" (`broadcast.c:449`) and its likes into
  `response.data` (23), which points at `msg_buffer` only after an accepted control
  message (363). Until then it is NULL or the freed payload of the answer to
  CHANNEL_OPEN (283).
* `FreesOnce` (`Vterm`, `MCVterm.cfg`): when a terminal's output cannot be sent,
  `terminal_kill` frees the data of the node and leaves the node (266, 153); the cleanup
  deletes the node, then tests and frees `((bst_node_t *)(item->value.ptr))->data`
  (502-505).
* `ArgumentsEnd` (`ServiceConfig`, `MCServiceConfig.cfg`): `ASSERT(cmd.n_params <=
  MAX_ARGC, "Max arguments reached")` (68) and its like for the variables (69) let the
  last slot be filled, so that `execve` (50) gets arrays without the terminating NULL.
* `KillsOnlyServices` (`Runner`, `MCRunner.cfg`): "kill all the remaining processes"
  (153). An item that is gone is asked about again as `waitpid(-1)` (138, 143), which
  can consume the exit of a service whose item still has its pid; the final SIGKILL
  (158) then reaches whoever has the pid. `StrangersSafe` says that this is the only
  way, and is proved: the item whose pid is stale comes before one that is struck out,
  because an item after it is asked about, and struck out itself, in the same pass.

**Conditions in the properties.** `ChildrenHeld` excludes behaviours in which `fork`
failed (its -1 is entered as a pid). A second SUBSCRIBE of a client replaces the entry
of its running terminal (443): from then on `ChildrenHeld` allows children without an
entry, but still every terminal in the table has a child of its own. `SubscribersServed`
covers this case too; it excludes a client that has a terminal and is refused another,
which is told that it is unsubscribed (428-438) while its terminal stays, and the
failure path of `terminal_monitor`, which does not tell the client. The variable
`faults` records these events and nothing else; every other path, including shutdown and
refused terminals, is covered. `ViewExact` and `SubscribersServed` say nothing of what
is on a broken connection. `OwnArguments` excludes services that follow a section
without a program, whose lines leak into them, and arrays without terminator.
`Reachable` excludes paths with a common hash, `Fits` sizes the camera cannot do (the
driver's size is then not the setting's). `StopsWithTunnel` excludes behaviours in which
`Vterm` or `Wfifo` stays in a write that nobody reads, or `V4l2cam` in `VIDIOC_DQBUF`
for a frame that the camera does not deliver.

**Bounds.** Three clients of two users are the least with a shared handle and an
observer of another user; two addresses, so that a freed address is reused. Two clients
and two pids let a pid pass from one terminal to a stranger or to another terminal. With
arrays of four, seven lines reach every limit of the record, and two sections every
order of change. Three services let one item consume another's exit while a third runs.
Three messages put every field next to every other, with the payloads `TD` and `AN` and
ids whose bytes are the magic numbers. Two messages on the way (`MaxQueue`) are the
least that can undo each other, and let a subscription cross the publisher's own
unsubscription. Three datagrams, or two items of two FIFOs, put one before, one during
and one after a subscription. A FIFO of one item is full after one write. In `MCV4l2cam`
one setting asks for a size the camera cannot do and the other for a rate the timer
cannot do, so that the timer is missing and the camera is reopened in its place; seven
descriptors are one more than are ever open. Only one client sends requests in `MCWfifo`
and `MCV4l2cam`: the other one sees the effects. No run needs a state constraint: the
counters are bounded in the guards (`N`, `MaxLines`, `MaxSent`, `MaxQueue`,
`MaxDatagrams`, `MaxItems`, `Capacity`, `MaxFd`).

**Fairness.** The process takes the steps it can take, once it is not blocked: weak
fairness of the steps of its loop. `ReadFails` is strongly fair because a socket whose
peer is gone holds finitely many messages, so its end is reached although other messages
come first; with `Hotline` weak fairness is enough, because its queue is explicit and
nothing goes before a message. The publisher's own timer expires (`Pace`). Nothing is
assumed of the tunnel, of the services, of the terminals, of the processes at the other
end of the FIFOs, of the camera or of signals.

`CHECK_DEADLOCK FALSE`: every program may end, and does.

## Proofs

TLC checks the instances above; the theorems below hold for every value of the constants
that satisfies the assumptions the modules name. Each proof has one inductive invariant;
it stands at the end of the component's module with a comment on each part, and the
`*Safe` theorem says that it is invariant. TLC finds it in all states of the instance
(`INVARIANT HeapInv`, `TerminalsInv`, `ConfigInv`, `SupervisorInv`, `SyslogInv`,
`FifoInv` or `CamInv` in the module's configuration); `WireInv` says that a function
into the natural numbers exists, which TLC cannot enumerate, and is only proved.

**`BroadcastProofs`**, for any finite set of clients and any users, groups and
addresses.

* `HeapSafe`: `HeapInv` is invariant. `HandlesOwned` and `OneHandlePerUser` are not
  inductive by themselves: that a count is exact after a release needs the holders to
  share a live handle, that a new handle is the only one for its user needs every live
  handle to carry a user's name (`NamesKnown`) and an attached client, and the main loop
  must not see released nodes (`ReleasedAtExit`). The argument is counting: adding or
  removing one holder changes the cardinality of `Holders(h)` by one.
* `CountsExact`, `SharedByUser`, `TypeCorrect` follow.
* `ViewsExact`: on top of `HeapInv`, each handler preserves `ViewExact`.
* `ImplementsGroupService`: each handler is a step of `GroupService` or a stutter, under
  the refinement mapping of `Broadcast`.

**`VtermProofs`**, for any clients and pids. `ChildrenHeld` is not inductive: while a
walk over the table is on its way, the nodes whose terminal is over are still in the
tree. `Walks` says which nodes a walk has left behind (`gone`), which it has still to
visit, and that in the final loop these two are the whole table. `PidsKnown` keeps the
pid that a walk holds between `waitpid` and what follows out of the children, and -1 out
of the table; `Told` gives the tunnel's set at each place of the walk, before and after
CHANNEL_UNSUBSCRIBE is sent for a node that is to be deleted. `HoldsItsChildren`,
`ServesSubscribers` and `TypeCorrect` follow.

**`RunnerdProofs`**, both halves of `runner.c`.

* Configuration, for every file and every size of the arrays. `EachStartedOnce` and
  `OwnArguments` speak of what was started; what makes them inductive is `Mirrors`: the
  static record belongs to the section of the last line, and its arrays hold, from the
  first slot to the next free one, the lines of that section in file order and nothing
  behind them, unless the section before left something. When the record is given to a
  service, `Mirrors` turns into `GivenOwn` of that service; what is compared is the
  reference reading of the file (`Lines`, `Program`, `Ends`), which is defined without
  the record. `ConfigSafe`, `StartsEachOnce`, `GivesOwnArguments`, `ConfigTypeCorrect`.
* Supervision, for any number of services and pids. `SupervisorInv` is `ChildrenListed`
  with three facts about the loop (nothing is reaped while services are started; the
  count of a pass is below its position; the final walk has waited for all it has
  passed). `ChildrenStayListed` and `LeavesNone` follow. `SparesStrangers` needs two
  more facts, `StaleItems` and `NoneStruckYet`: an item whose process was waited for
  through another one either is still to come in the pass, which will strike it out, or
  comes before the one that was asked about, which is struck out.

**`HotlineProofs`** proves, for queues of any length, how each step of the tunnel and
each message that is read keeps the two sides in step (`Agree`). The next three use it.

**`SyslogProofs`**, for any clients, requests, queue length and number of datagrams.
`Serves` is not inductive, because on the way out the table and the tunnel's set shrink
together (`Leaving`: a subscriber that is not told yet is in the table, or its
subscription was never read), and `Implements` needs that a datagram is only taken when
the walk of the one before is over (`WalkOver`, `UpToDate`: everybody who is still to be
sent the current datagram has heard the one before, everybody else has heard it).
`SyslogSafe`, `ServesSubscribers`, `TypeCorrect` and `ImplementsRelay`.

**`WfifoProofs`**, for any command line (`Setups`), any file system and any capacity.
`Leaving`, `WalkOver` and `UpToDate` are those of `Syslog`, per FIFO and with the
clients that were refused. `Reachable` needs that the descriptor of a client never
leaves the tree of FIFOs (`Kept`: `init_fifo` enters a descriptor only for a hash that
has none), and that what the tree has for a path is the file at that path (`InPlace`, if
no other path has its hash). `Counts` bounds what is sent on by what was written.
`FifosSafe`, `ServesSubscribers`, `FifosReachable`, `TypeCorrect`; `ImplementsRelay`:
each item is heard once by each subscriber of its FIFO.

**`V4l2camProofs`**, for any settings, sizes, clients and number of descriptors. The
hard part is the table of descriptors: `Descriptors` is not inductive, since which
number `open` and `timerfd_create` return depends on every number in use. `Numbers`
finds the pattern: the camera and the timer share the numbers 0 and 3, each has one of
them or there is no timer, and nothing else ever changes. `Awaited` rests on `Streams`
and `AtCamera` (a buffer that is queued is at the handle in use, and the stream is on),
the sizes on `Sized`; `Intact` is the part of the loop in which no setting has failed to
be applied. `CameraSafe`, `ServesSubscribers`, `KnowsSetting`, `KeepsDescriptors`,
`AwaitsFrames`, `FramesFit`, `TypeCorrect`.

**`WireProofs`**, for any messages, any number of them and any capacity of the socket.
All messages together are one stream of bytes, in which message k begins after
`start[k]` bytes. `WireInv` says that reader and writer are each at a place of this
stream (`ReadPos`, `WritePos`), that the socket has the bytes in between (`InSocket`),
and that what the reader has collected of a message is a part of that message (`Has`),
as long as the reader goes on. That a byte of the stream belongs to one message, one
field and one place of it (`OnePlace`) is arithmetic on the offsets of the fields; that
the numbers arrive as they were sent is that `ntohs` and `ntohl` undo `htons` and
`htonl` (`ShortBytes`, `LongBytes`). It follows that the reader never meets another byte
where a magic number should be (`StaysFramed`), whatever the payloads look like, and
that a message is delivered as it was sent, whole, in order and once
(`ImplementsChannel`: the step that completes the last field is the delivery, every
other step a stutter). `InStepWithStream` is the invariant, `TypeCorrect` a part of it.

**Assumptions.** The sentinels (`NoHandle`, `NoUser`, `NoName`, `None`, -1, 0, "none",
"orphan") are not members of the sets they are added to; `Client` is finite in
`Broadcast`; the bounds are natural numbers, the capacities of a FIFO and a socket not
0; payloads have a size that an `int` can count, because `guard_read` and `guard_write`
do (`tunnel.c` 22, 48); the default setting of the camera has a valid period
(`Default.fps > 1`), and the clients' settings are settings.

**Only model-checked**: the liveness properties `StopsWithTunnel`, `EndsWithCamera`,
`EndsWithServices`, `EndsOnSignal` and `ArrivesOrFails`, because liveness under fairness
is out of the prover's reach. The properties of the runs with a finding do not hold, and
nothing is proved about them.

## Not modelled

* Of `wfifo`: the kind of the base path changing while the publisher runs, other
  processes that remove or replace a FIFO or read it in mode "r", permissions (`chown`
  and the uid of a user only fail or not).
* Of `v4l2cam`: the jpeg encoding and its quality, the frames' contents,
  `cam_grab_frame` (not called), failures of `VIDIOC_QUERYBUF` and `mmap` for the buffer
  just requested, a frame that `select` reports for a stream that is being stopped, and
  `timerfd_create` failing (334): the timer is then -1, as after a rate that the timer
  refuses, which is modelled.
* The system log: opening it and writing to it succeed.
* `open_socket`, `regex_match`, `msg_read_string`: no state; the latter is unused.
* Message contents and their layout, logging, window sizes, group names.
* Descriptors: the parent's copy of a terminal's slave side is never closed, so that one
  descriptor is lost per terminal.
* Blocking writes of the socket. (Those of a terminal and of a FIFO are modelled.)
* The order of the tunnel's and the publisher's messages in `Broadcast` and `Vterm`: a
  subscription and its handling are one step there.
* The channel id of CHANNEL_UNSUBSCRIBE messages, which the publishers leave
  uninitialised (the tunnel knows the channel by its socket).
* Build, packaging, continuous integration, the archives in `dist/`.

## Plan

Done: the core (`Broadcast` with its abstract specification and proofs, `Vterm`,
`ServiceConfig`, `Runner`, `Wire`), then the remaining publishers (`Hotline`, `Relay`,
`Syslog`, `Wfifo`, `V4l2cam`) with blocking writes, and the proofs of every safety
property and every refinement that the runs check.

What could follow, in this order:

* Repairs of the disagreements above (a test of the error code of `terminal_monitor`, a
  terminator for every array, no `waitpid(-1)`), as variants of the actions concerned,
  with the properties that hold for them proved without their conditions.
* Abstract specifications of `Vterm` (one terminal per subscriber) and of `V4l2cam`
  (every subscriber gets the frames of the setting in force), with refinements like
  those of `Broadcast` and `Wfifo`.
