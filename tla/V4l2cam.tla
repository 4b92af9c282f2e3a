------------------------------ MODULE V4l2cam ------------------------------
(***************************************************************************)
(* The camera publisher (v4l2cam/v4l2cam.c).  It keeps one frame buffer    *)
(* queued at the camera while it has clients, and sends each frame to all  *)
(* of them; any client may change the settings, which closes the camera    *)
(* and opens it again.  A message of the tunnel goes before a frame.       *)
(*                                                                         *)
(* Descriptors are the smallest free numbers, as the code's tests for 0    *)
(* and -1 depend on it: `table` is the process's table, `camera` and        *)
(* `timer` are the numbers the program holds.  0, 1 and 2 are open at the   *)
(* start, and the static `timerfd` is 0.  A setting is a frame size and a  *)
(* frame rate.  `view`, the last setting a client was sent, is no program  *)
(* state.                                                                  *)
(***************************************************************************)
EXTENDS Hotline

CONSTANTS Setting,    \* records [size, fps]
          Default,    \* the setting at the start
          Supported,  \* sizes the camera can do
          MaxFd       \* bound: the largest descriptor

VARIABLES
    pc,        \* where main() is
    running,   \* cleared by SIGINT and by fatal errors
    clients,   \* the tree of subscribed clients
    setting,   \* width, height and fps of video_setting
    camera,    \* fd of video_setting
    timer,     \* timerfd of video_setting
    buffer,    \* size of the frames in the mapped buffer, "none" if NULL
    queued,    \* the flag: the buffer is at the camera
    table,     \* descriptor -> what it refers to
    device,    \* the camera: owner of its buffer, streaming, frame, plugged
    view       \* client -> the setting it was sent last

program == <<setting, camera, timer, buffer, queued>>
vars == <<tunnel, pc, running, clients, program, table, device, view>>

Fds == 0 .. MaxFd
NoFd == -1

ASSUME SettingsAssumption ==
    /\ MaxFd \in Nat /\ MaxFd > 5
    /\ Default \in Setting /\ Default.fps > 1
    /\ \A s \in Setting : s.fps \in Nat
    /\ Supported # {} /\ "none" \notin Supported
    /\ \A m \in Requests : m.type = "CTRL" => m.setting \in Setting

TypeOK ==
    /\ TunnelTypeOK
    /\ pc \in {"opening", "loop", "select", "applying", "pacing", "cleanup", "shutdown",
               "closing", "closed"}
    /\ running \in BOOLEAN
    /\ clients \subseteq Client
    /\ setting \in Setting
    /\ camera \in Fds \cup {NoFd} /\ timer \in Fds \cup {NoFd}
    /\ buffer \in Supported \cup {"none"}
    /\ queued \in BOOLEAN
    /\ table \in [Fds -> {"free", "other", "camera", "timer", "sock"}]
    /\ device \in [owner : Fds \cup {NoFd}, streaming : BOOLEAN,
                   frame : {"none", "queued", "done"}, plugged : BOOLEAN]
    /\ view \in [Client -> Setting]

-----------------------------------------------------------------------------
(* Descriptors: close() and what the calls that make one return.           *)

Close(t, fd) == [t EXCEPT ![fd] = "free"]
CloseIf(test, t, fd) == IF test THEN Close(t, fd) ELSE t
Lowest(t) == CHOOSE fd \in Fds : t[fd] = "free" /\ \A low \in 0 .. fd - 1 : t[low] # "free"
Open(t, what) == [t EXCEPT ![Lowest(t)] = what]

\* The period of one second does not fit in tv_nsec.
ValidPeriod(fps) == fps > 1

\* cam_init_timer on the table t, `fd` being the old timer.
WithoutTimer(t, fd) == CloseIf(fd # NoFd, t, fd)
NewTimer(t, fd, fps) == IF ValidPeriod(fps) THEN Lowest(WithoutTimer(t, fd)) ELSE NoFd
TableWithTimer(t, fd, fps) ==
    IF ValidPeriod(fps) THEN Open(WithoutTimer(t, fd), "timer") ELSE WithoutTimer(t, fd)

-----------------------------------------------------------------------------
(* The camera.  Only the handle that allocated the buffer controls it, and *)
(* closing that handle releases the buffer.                                *)

Controls(fd) == device.plugged /\ fd # NoFd /\ device.owner = fd
Release(d) == [d EXCEPT !.owner = NoFd, !.streaming = FALSE, !.frame = "none"]

\* VIDIOC_DQBUF returns a frame, or an error.
FrameReady == device.frame = "done"
DequeueReturns == ~queued \/ FrameReady \/ ~device.plugged

\* select() reports the camera: a frame, an error, nothing to wait for.
CameraReady == FrameReady \/ ~device.plugged \/ ~device.streaming \/ device.frame = "none"

-----------------------------------------------------------------------------
(* Start-up: the camera is open with the default setting, the first timer  *)
(* has taken the place of descriptor 0, the log and the hotline came next, *)
(* CHANNEL_OPEN is written.                                                *)

Sock == 5
InitTable == [fd \in Fds |-> CASE fd = 0 -> "timer" [] fd = 3 -> "camera" [] fd = Sock -> "sock"
                               [] fd \in {1, 2, 4} -> "other" [] fd > Sock -> "free"]

Init ==
    /\ TunnelInit
    /\ pc = "opening" /\ running = TRUE
    /\ clients = {}
    /\ setting = Default
    /\ camera = 3 /\ timer = 0 /\ queued = FALSE
    /\ buffer \in IF Default.size \in Supported THEN {Default.size} ELSE Supported
    /\ table = InitTable
    /\ device = [owner |-> 3, streaming |-> FALSE, frame |-> "none", plugged |-> TRUE]
    /\ view = [c \in Client |-> Default]

\* cam_start_streaming on handle fd of camera d: it may be refused.
Starts(fd, d, started) == started => d.plugged /\ d.owner = fd

\* The answer is CHANNEL_OK or not; streaming starts all the same.
OpenReply(ok, started) ==
    /\ pc = "opening" /\ Starts(camera, device, started)
    /\ pc' = "loop"
    /\ running' = (running /\ ok /\ started)
    /\ device' = [device EXCEPT !.streaming = started]
    /\ UNCHANGED <<tunnel, clients, program, table, view>>

OpenFails ==
    /\ pc = "opening" /\ link = "down"
    /\ pc' = "closed"
    /\ UNCHANGED <<tunnel, running, clients, program, table, device, view>>

-----------------------------------------------------------------------------
(* The environment.                                                        *)

Tunnel ==
    /\ pc \notin {"opening", "closing", "closed"} /\ TunnelActs
    /\ UNCHANGED <<pc, running, clients, program, table, device, view>>

TunnelBreaks ==
    /\ pc \in {"opening", "closing"} /\ LinkDown
    /\ UNCHANGED <<pc, running, clients, program, table, device, view>>

Capture ==
    /\ device.plugged /\ device.streaming /\ device.frame = "queued"
    /\ device' = [device EXCEPT !.frame = "done"]
    /\ UNCHANGED <<tunnel, pc, running, clients, program, table, view>>

Unplug ==
    /\ device.plugged
    /\ device' = [device EXCEPT !.plugged = FALSE]
    /\ UNCHANGED <<tunnel, pc, running, clients, program, table, view>>

\* SIGINT; it wakes a process in select or usleep, not one that waits in
\* VIDIOC_DQBUF or read(), which are restarted.
Interrupt ==
    /\ pc # "closed"
    /\ running' = FALSE
    /\ \/ pc' = pc
       \/ pc = "select" /\ pc' = "loop"
    /\ UNCHANGED <<tunnel, clients, program, table, device, view>>

-----------------------------------------------------------------------------
(* The top of the loop.                                                    *)

LoopEnds ==
    /\ pc = "loop" /\ ~running
    /\ pc' = "cleanup"
    /\ UNCHANGED <<tunnel, running, clients, program, table, device, view>>

Loops == pc = "loop" /\ running /\ pc' = "select" /\ UNCHANGED <<tunnel, clients, view>>

QueueFrame ==
    /\ Loops /\ clients # {} /\ ~queued /\ Controls(camera)
    /\ queued' = TRUE
    /\ device' = [device EXCEPT !.frame = "queued"]
    /\ UNCHANGED <<running, setting, camera, timer, buffer, table>>

\* select is still called.
QueueFails ==
    /\ Loops /\ clients # {} /\ ~queued
    /\ running' = FALSE
    /\ UNCHANGED <<program, table, device>>

AwaitFrame ==
    /\ Loops /\ clients # {} /\ queued
    /\ UNCHANGED <<running, program, table, device>>

\* Nobody is there: the timer is closed.
StaleTimer == timer      \* (mutant: the number is kept)
ClosedTimer == NoFd
Rest ==
    /\ Loops /\ clients = {}
    /\ table' = CloseIf(timer # NoFd, table, timer)
    /\ timer' = ClosedTimer
    /\ UNCHANGED <<running, setting, camera, buffer, queued, device>>

-----------------------------------------------------------------------------
(* A message of the tunnel.                                                *)

Receives == pc = "select" /\ UNCHANGED <<tsubs, camera, buffer, queued, device>>

KeepRunningAfterReadError == running  \* (mutant: the error is only logged)
RunningAfterReadError == FALSE
ReadFails ==
    /\ Receives /\ AtEnd
    /\ pc' = "loop"
    /\ running' = RunningAfterReadError
    /\ UNCHANGED <<link, hotline, clients, setting, timer, table, view>>

\* The first client starts the timer; the client is sent the setting.
InsertNothing(c) == clients   \* (mutant: the client is only answered)
Insert(c) == clients \cup {c}
Subscribe(c) ==
    /\ Receives /\ Reads(Subscription(c))
    /\ pc' = "loop"
    /\ clients' = Insert(c)
    /\ IF clients = {}
       THEN /\ table' = TableWithTimer(table, timer, setting.fps)
            /\ timer' = NewTimer(table, timer, setting.fps)
       ELSE UNCHANGED <<table, timer>>
    /\ view' = IF link = "up" THEN [view EXCEPT ![c] = setting] ELSE view
    /\ \E ok \in BOOLEAN : Accepted(ok) /\ running' = (running /\ ok)
    /\ UNCHANGED setting

Unsubscribe(c) ==
    /\ Receives /\ Reads(Unsubscription(c))
    /\ pc' = "loop"
    /\ clients' = clients \ {c}
    /\ UNCHANGED <<running, setting, timer, table, view>>

\* The setting of a client is stored, then applied.
Control ==
    /\ Receives /\ \E m \in Requests : m.type = "CTRL" /\ Reads(m) /\ setting' = m.setting
    /\ pc' = "applying"
    /\ UNCHANGED <<running, clients, timer, table, view>>

\* A control message of the wrong size, or a message of any other type.
Other ==
    /\ Receives /\ \E m \in Requests : m.type # "CTRL" /\ Reads(m)
    /\ pc' = "loop"
    /\ UNCHANGED <<running, clients, setting, timer, table, view>>

-----------------------------------------------------------------------------
(* cam_apply_setting: cam_cleanup waits for the frame, releases the buffer *)
(* and closes the descriptors, except a camera or a timer that is number 0.*)

StillQueued == queued    \* (mutant: the flag is not reset)
Dequeued == FALSE

AfterCleanup ==
    /\ Controls(camera)
    /\ queued' = Dequeued
ClearedTable == CloseIf(timer > 0, CloseIf(camera > 0, table, camera), timer)
ClearedDevice == IF camera > 0 THEN Release(device) ELSE [device EXCEPT !.frame = "none"]

\* An ioctl of cam_cleanup fails: VIDIOC_DQBUF, or, with the frame taken back
\* or none to take, the one that follows.
StopsHalfway ==
    /\ \/ UNCHANGED <<queued, device>>
       \/ AfterCleanup /\ device' = [device EXCEPT !.frame = "none"]
    /\ UNCHANGED table

Applies == pc = "applying" /\ DequeueReturns /\ pc' = "loop" /\ UNCHANGED <<tunnel, clients, setting>>

\* cam_cleanup is called a second time, without closing; it may get further.
CleanupFails ==
    /\ Applies /\ StopsHalfway
    /\ running' = FALSE
    /\ buffer' = buffer \/ (buffer' = "none" /\ AfterCleanup)
    /\ UNCHANGED <<camera, timer, view>>

\* open fails.
ReopenFails ==
    /\ Applies /\ AfterCleanup
    /\ running' = FALSE
    /\ camera' = NoFd /\ buffer' = "none"
    /\ table' = ClearedTable /\ device' = ClearedDevice
    /\ UNCHANGED <<timer, view>>

\* The driver refuses the format, the rate or the buffer, as it must while
\* the old handle is open.
SettingRefused ==
    /\ Applies /\ AfterCleanup
    /\ running' = FALSE
    /\ camera' = Lowest(ClearedTable) /\ buffer' = "none"
    /\ table' = Open(ClearedTable, "camera") /\ device' = ClearedDevice
    /\ UNCHANGED <<timer, view>>

InformNobody == view          \* (mutant: the walk is missing)
Informed == [c \in Client |-> IF c \in clients THEN setting ELSE view[c]]

\* A size the camera cannot do is changed to one it can.  All clients are
\* sent the setting.
Reopened == Open(ClearedTable, "camera")
SizesFor(s) == IF s.size \in Supported THEN {s.size} ELSE Supported
OldBuffer(s) == {buffer}      \* (mutant: the old mapping is used)
AskedBuffer(s) == {s.size}    \* (mutant: the driver's size is not looked at)
NewBuffer(s) == SizesFor(s)
SettingApplied(started) ==
    /\ Applies /\ AfterCleanup /\ ClearedDevice.owner = NoFd
    /\ camera' = Lowest(ClearedTable)
    /\ buffer' \in NewBuffer(setting)
    /\ table' = TableWithTimer(Reopened, timer, setting.fps)
    /\ timer' = NewTimer(Reopened, timer, setting.fps)
    /\ device' = [ClearedDevice EXCEPT !.owner = camera', !.streaming = started]
    /\ running' = (running /\ started)
    /\ view' = IF started /\ link = "up" THEN Informed ELSE view

-----------------------------------------------------------------------------
(* The camera, when the hotline has nothing to read.                       *)

CameraTurn == pc = "select" /\ ~Readable /\ CameraReady
                            /\ UNCHANGED <<tunnel, clients, setting, camera, timer, buffer, table, view>>

\* read() of the timer is next, if its number is not 0.
Paces == pc' = IF timer > 0 THEN "pacing" ELSE "loop"

\* cam_send_frame_client: compress, send to every client, dequeue.
SendFrame ==
    /\ CameraTurn /\ clients # {} /\ queued /\ Controls(camera)
    /\ Paces
    /\ queued' = FALSE
    /\ device' = [device EXCEPT !.frame = "none"]
    /\ UNCHANGED running

IgnoreFrameError == running  \* (mutant: the error is only logged)
AfterFrameError == FALSE
FrameFails ==
    /\ CameraTurn /\ clients # {} /\ queued
    /\ pc' = "loop"
    /\ running' = AfterFrameError
    /\ UNCHANGED <<queued, device>>

NoFrame ==
    /\ CameraTurn /\ clients # {} /\ ~queued
    /\ Paces
    /\ UNCHANGED <<running, queued, device>>

Sleep ==
    /\ CameraTurn /\ clients = {}
    /\ pc' = "loop"
    /\ UNCHANGED <<running, queued, device>>

Pace ==
    /\ pc = "pacing"
    /\ pc' = "loop"
    /\ UNCHANGED <<tunnel, running, clients, program, table, device, view>>

-----------------------------------------------------------------------------
(* Leaving the loop: the camera first, then unsubscribe() on every node,   *)
(* then the channel.                                                       *)

Cleanup ==
    /\ pc = "cleanup" /\ DequeueReturns
    /\ pc' = "shutdown"
    /\ \/ /\ AfterCleanup
          /\ buffer' = "none"
          /\ table' = ClearedTable /\ device' = ClearedDevice
       \/ StopsHalfway /\ UNCHANGED buffer
    /\ UNCHANGED <<tunnel, running, clients, setting, camera, timer, view>>

ShutdownTell(c) ==
    /\ pc = "shutdown" /\ c \in clients
    /\ Tells(c)
    /\ clients' = clients \ {c}
    /\ UNCHANGED <<pc, running, program, table, device, view>>

ToldSome == TRUE         \* (mutant: the channel is closed first)
ToldAll == clients = {}
SendClose ==
    /\ pc = "shutdown" /\ ToldAll
    /\ pc' = "closing"
    /\ clients' = {}
    /\ UNCHANGED <<tunnel, running, program, table, device, view>>

\* The final msg_read returns the answer, what was sent before it, or the
\* end of the socket.
Final ==
    /\ pc = "closing"
    /\ pc' = "closed"
    /\ UNCHANGED <<tunnel, running, clients, program, table, device, view>>

-----------------------------------------------------------------------------
Handlers == \/ \E c \in Client : Subscribe(c) \/ Unsubscribe(c)
            \/ Control \/ Other \/ ReadFails

Loop == LoopEnds \/ QueueFrame \/ QueueFails \/ AwaitFrame \/ Rest

Apply == \/ CleanupFails \/ ReopenFails \/ SettingRefused
         \/ \E started \in BOOLEAN : SettingApplied(started)

Camera == SendFrame \/ FrameFails \/ NoFrame \/ Sleep \/ Pace

Shutdown == Cleanup \/ (\E c \in Client : ShutdownTell(c)) \/ SendClose

Next ==
    \/ \E ok, started \in BOOLEAN : OpenReply(ok, started)
    \/ OpenFails \/ Tunnel \/ TunnelBreaks \/ Capture \/ Unplug \/ Interrupt
    \/ Loop \/ Handlers \/ Apply \/ Camera \/ Shutdown \/ Final

Spec == Init /\ [][Next]_vars

\* The process takes the steps it can take, and its timer expires.  Nothing
\* is assumed of the camera.
LiveSpec ==
    /\ Spec
    /\ WF_vars(OpenFails) /\ WF_vars(Loop) /\ WF_vars(Handlers) /\ WF_vars(Apply)
    /\ WF_vars(Camera) /\ WF_vars(Shutdown) /\ WF_vars(Final /\ link = "down")

-----------------------------------------------------------------------------
(* Properties.                                                             *)

\* As long as it serves, the clients that frames are sent to are the
\* subscribers of the tunnel, but for the messages not read yet; when the
\* channel is closed, every subscriber has been told, except one whose
\* subscription was never read.  (546-572, 667-679.)
Serves ==
    /\ pc \notin {"cleanup", "shutdown", "closing", "closed"} => InStep(clients)
    /\ pc = "closing" /\ link = "up" => \A c \in tsubs : Queued(Subscription(c))

\* Every client knows the setting in force, whoever changed it and whenever
\* the client came.  (553-563, 608-620.)
SettingKnown ==
    pc \in {"loop", "select", "pacing"} /\ running /\ link = "up" =>
        \A c \in clients : view[c] = setting

\* The numbers the program uses are the camera, open once, and its timer:
\* neither is left open or taken for the other when numbers are given
\* again.  (316-323, 329-354, 369, 519-523.)
Descriptors ==
    pc \in {"select", "pacing"} => /\ {fd \in Fds : table[fd] = "camera"} = {camera}
                                   /\ {fd \in Fds : table[fd] = "timer"} = {timer} \ {NoFd}

\* The flag says what the driver holds: VIDIOC_DQBUF is never called for a
\* buffer that no frame will come to.  (275, 295-305, 508-518.)
Awaited ==
    queued /\ device.plugged /\ pc \in {"select", "applying", "cleanup"} =>
        device.owner = camera /\ device.streaming /\ device.frame # "none"

\* The frame that is compressed is as large as the setting says, if the
\* camera can do the size.  (163-195, 359-396, 579-593.)
Fits ==
    pc = "select" /\ queued /\ setting.size \in Supported => buffer = setting.size

\* When the tunnel service goes away, the publisher stops, unless the camera
\* keeps it waiting for a frame.  (537-541, 667-683.)
StopsWithTunnel == link = "down" ~> (pc = "closed" \/ [](pc \in {"applying", "cleanup"}))

\* When the camera is unplugged, a publisher with clients gives up, if no
\* messages keep it busy.  (508-517, 637-643.)
EndsWithCamera == ~device.plugged /\ clients # {} ~> ~running \/ Readable

\* As long as there is a timer, it is read after every frame.  ("check
\* timeout", 645; no timer is -1, 329, 519.)
Paced == [][SendFrame /\ timer # NoFd => pc' = "pacing"]_vars
-----------------------------------------------------------------------------
(* Why these hold: an invariant that every step keeps.                     *)

\* No setting has failed to be applied: after that the loop is left.
Intact == pc \in {"opening", "select", "pacing"} \/ (pc = "loop" /\ running)

\* Leaving the loop, there is no subscriber but those that are still to be
\* told, or whose subscription is not read any more.
Leaving ==
    /\ pc \in {"cleanup", "shutdown", "closing"} => ~running
    /\ pc = "closing" => clients = {}
    /\ pc \in {"cleanup", "shutdown", "closing"} /\ link = "up" =>
          \A c \in tsubs : c \in clients \/ Queued(Subscription(c))

\* Nothing was at the camera before the channel is open.
Opening == pc = "opening" => clients = {} /\ ~queued

\* In table t the camera cam and the timer tim share the numbers 0 and 3; the
\* others do not change.  (A camera that is number 0 is never closed, and
\* opening it a second time is refused, so that 3 stays with the timer.)
Numbers(t, cam, tim) ==
    /\ cam \in {0, 3} /\ tim \in {0, 3, NoFd} \ {cam}
    /\ \A fd \in Fds : /\ t[fd] = "camera" <=> fd = cam
                       /\ t[fd] = "timer" <=> fd = tim
                       /\ t[fd] = "free" <=> fd \notin {1, 2, 4, Sock, cam, tim}
Numbered == Intact \/ pc = "applying" => Numbers(table, camera, timer)

\* A publisher that goes on has a stream, and a buffer that is queued stays
\* at the handle in use.
Streams == running /\ pc \notin {"opening", "closed"} => device.streaming
AtCamera ==
    queued /\ device.plugged =>
        device.owner = camera /\ device.streaming /\ device.frame # "none"

\* The buffer has the size of the setting.
Sized == Intact /\ setting.size \in Supported => buffer = setting.size

CamInv == /\ TypeOK /\ Serves /\ SettingKnown /\ Leaving /\ Opening /\ Numbered
          /\ Streams /\ AtCamera /\ Sized
=============================================================================
