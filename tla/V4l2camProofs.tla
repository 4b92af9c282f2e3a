---------------------------- MODULE V4l2camProofs ----------------------------
(* Proofs about V4l2cam, for any clients, settings, sizes and bounds.       *)
(*                                                                         *)
(* The lemmas of HotlineProofs keep the two sides in step.  The first ones  *)
(* here are about descriptors: which number each call gives, and that the   *)
(* camera and the timer never get the same.                                *)
EXTENDS V4l2cam, HotlineProofs

Tables == [Fds -> {"free", "other", "camera", "timer", "sock"}]

LEMMA Bounds ==
    /\ MaxFd \in Nat /\ MaxFd > 5 /\ NoFd = -1 /\ NoFd \notin Fds
    /\ {0, 1, 2, 3, 4, 5} \subseteq Fds /\ \A fd \in Fds : fd \in Int /\ fd >= 0
    /\ "none" \notin Supported
BY SettingsAssumption DEF Fds, NoFd

\* The smallest free number, when it is 0 or 3.
LEMMA LowestIs ==
    ASSUME NEW t, NEW fd \in {0, 3}, t[fd] = "free",
           fd = 3 => t[0] # "free" /\ t[1] # "free" /\ t[2] # "free"
    PROVE  Lowest(t) = fd
<1> DEFINE P(x) == t[x] = "free" /\ \A low \in 0 .. x - 1 : t[low] # "free"
<1>1. fd \in Fds /\ P(fd)
  BY Bounds
<1>2. ASSUME NEW x \in Fds, P(x) PROVE x = fd
  <2>1. x \in Int /\ x >= 0 /\ fd \in Int /\ fd >= 0
    BY Bounds
  <2>2. ~(x < fd)
    BY <1>1, <1>2, <2>1
  <2>3. ~(fd < x)
    <3>1. fd < x => fd \in 0 .. x - 1
      BY <2>1
    <3> QED
      BY <1>2, <3>1
  <2> QED
    BY <2>1, <2>2, <2>3
<1>3. Lowest(t) = CHOOSE x \in Fds : P(x)
  BY DEF Lowest
<1> HIDE DEF P
<1> QED
  BY <1>1, <1>2, <1>3

\* cam_init_timer closes the old timer and takes the number that is free.
LEMMA TimerNumbers ==
    ASSUME NEW t \in Tables, NEW cam, NEW tim, Numbers(t, cam, tim), NEW fps \in Nat
    PROVE  /\ TableWithTimer(t, tim, fps) \in Tables
           /\ Numbers(TableWithTimer(t, tim, fps), cam, NewTimer(t, tim, fps))
<1> DEFINE u == WithoutTimer(t, tim)
<1>1. u \in Tables
  BY DEF WithoutTimer, CloseIf, Close, Tables
<1>2. Numbers(u, cam, NoFd)
  <2>1. \A fd \in Fds : u[fd] = IF fd = tim THEN "free" ELSE t[fd]
    BY Bounds DEF WithoutTimer, CloseIf, Close, Tables
  <2>2. tim # cam /\ cam \in {0, 3} /\ tim \in {0, 3, NoFd} /\ Sock = 5
    BY DEF Numbers, Sock
  <2> QED
    BY <2>1, <2>2, Bounds DEF Numbers
<1> HIDE DEF u
<1>3. CASE ValidPeriod(fps)
  <2> DEFINE new == IF cam = 3 THEN 0 ELSE 3
  <2>1. Lowest(u) = new /\ new \in Fds /\ u[new] = "free"
    <3>1. CASE cam = 3
      <4>1. u[0] = "free"
        BY <1>2, <3>1, Bounds DEF Numbers, Sock
      <4> QED
        BY <3>1, <4>1, LowestIs, Bounds
    <3>2. CASE cam = 0
      <4>1. u[3] = "free" /\ u[0] # "free" /\ u[1] # "free" /\ u[2] # "free"
        BY <1>2, <3>2, Bounds DEF Numbers, Sock
      <4> QED
        BY <3>2, <4>1, LowestIs, Bounds
    <3> QED
      BY <1>2, <3>1, <3>2 DEF Numbers
  <2>2. TableWithTimer(t, tim, fps) = [u EXCEPT ![new] = "timer"] /\ NewTimer(t, tim, fps) = new
    BY <1>3, <2>1 DEF TableWithTimer, NewTimer, Open, u
  <2>3. Numbers([u EXCEPT ![new] = "timer"], cam, new)
    BY <1>1, <1>2, <2>1, Bounds DEF Numbers, Sock, Tables
  <2> QED
    BY <1>1, <2>2, <2>3 DEF Tables
<1>4. CASE ~ValidPeriod(fps)
  BY <1>1, <1>2, <1>4 DEF TableWithTimer, NewTimer, u
<1> QED
  BY <1>3, <1>4

\* cam_cleanup, then open: a camera that was closed gets a number that no
\* timer has.
LEMMA ReopenNumbers ==
    ASSUME TypeOK, Numbers(table, camera, timer)
    PROVE  /\ ClearedTable \in Tables /\ Lowest(ClearedTable) \in {0, 3} /\ Reopened \in Tables
           /\ camera # 0 => Numbers(Reopened, Lowest(ClearedTable), timer)
<1>1. table \in Tables /\ camera \in {0, 3} /\ timer \in {0, 3, NoFd} \ {camera}
  BY DEF TypeOK, Tables, Numbers
<1>2. ClearedTable \in Tables
  BY <1>1 DEF ClearedTable, CloseIf, Close, Tables
<1>3. Reopened \in Tables
  BY <1>2 DEF Reopened, Open, Tables
<1>4. CASE camera = 0
  <2>1. /\ table[0] # "free" /\ table[1] # "free" /\ table[2] # "free"
        /\ timer = NoFd => table[3] = "free"
    BY <1>1, <1>4, Bounds DEF Numbers, Sock
  <2>2. timer = 3 \/ timer = NoFd
    BY <1>1, <1>4
  <2>3. ClearedTable[3] = "free" /\ \A fd \in {0, 1, 2} : ClearedTable[fd] = table[fd]
    <3>1. CASE timer = 3
      <4>1. ClearedTable = [table EXCEPT ![3] = "free"]
        BY <1>4, <3>1 DEF ClearedTable, CloseIf, Close
      <4> QED
        BY <1>1, <4>1, Bounds DEF Tables
    <3>2. CASE timer = NoFd
      <4>1. ClearedTable = table
        BY <1>4, <3>2 DEF ClearedTable, CloseIf, Close, NoFd
      <4> QED
        BY <2>1, <3>2, <4>1
    <3> QED
      BY <2>2, <3>1, <3>2
  <2>4. Lowest(ClearedTable) = 3
    BY <2>1, <2>3, LowestIs
  <2> QED
    BY <1>2, <1>3, <1>4, <2>4
<1>5. CASE camera = 3
  <2>1. timer \in {0, NoFd} /\ ClearedTable = [table EXCEPT ![3] = "free"]
    BY <1>1, <1>5, Bounds DEF ClearedTable, CloseIf, Close
  <2>2. \A fd \in Fds : ClearedTable[fd] = IF fd = 3 THEN "free" ELSE table[fd]
    BY <1>1, <2>1 DEF Tables
  <2>3. Lowest(ClearedTable) = IF timer = 0 THEN 3 ELSE 0
    <3>1. CASE timer = 0
      <4>1. table[0] # "free" /\ table[1] # "free" /\ table[2] # "free"
        BY <3>1, <1>5, Bounds DEF Numbers, Sock
      <4> QED
        BY <2>2, <3>1, <4>1, LowestIs, Bounds
    <3>2. CASE timer = NoFd
      <4>1. table[0] = "free"
        BY <3>2, <1>5, Bounds DEF Numbers, Sock
      <4> QED
        BY <2>2, <3>2, <4>1, LowestIs, Bounds
    <3> QED
      BY <2>1, <3>1, <3>2
  <2>4. \A fd \in Fds : Reopened[fd] =
            IF fd = Lowest(ClearedTable) THEN "camera" ELSE IF fd = 3 THEN "free" ELSE table[fd]
    BY <1>2, <2>2, <2>3, Bounds DEF Reopened, Open, Tables
  <2>5. Numbers(Reopened, Lowest(ClearedTable), timer)
    <3>1. \A fd \in Fds : /\ table[fd] = "camera" <=> fd = 3
                          /\ table[fd] = "timer" <=> fd = timer
                          /\ table[fd] = "free" <=> fd \notin {1, 2, 4, 5, 3, timer}
      BY <1>5 DEF Numbers, Sock
    <3>2. CASE timer = 0
      BY <2>3, <2>4, <3>1, <3>2, Bounds DEF Numbers, Sock
    <3>3. CASE timer = NoFd
      BY <2>3, <2>4, <3>1, <3>3, Bounds DEF Numbers, Sock
    <3> QED
      BY <2>1, <3>2, <3>3
  <2> QED
    BY <1>2, <1>3, <2>3, <2>5
<1> QED
  BY <1>1, <1>4, <1>5

Devices == [owner : Fds \cup {NoFd}, streaming : BOOLEAN, frame : {"none", "queued", "done"},
            plugged : BOOLEAN]

LEMMA CameraStarts == Init => CamInv
<1> SUFFICES ASSUME Init PROVE CamInv
  OBVIOUS
<1>1. \A fd \in Fds : table[fd] =
          IF fd = 0 THEN "timer" ELSE IF fd = 3 THEN "camera" ELSE IF fd = 5 THEN "sock"
          ELSE IF fd \in {1, 2, 4} THEN "other" ELSE "free"
  <2> SUFFICES ASSUME NEW fd \in Fds
               PROVE  table[fd] =
                        IF fd = 0 THEN "timer" ELSE IF fd = 3 THEN "camera" ELSE IF fd = 5
                        THEN "sock" ELSE IF fd \in {1, 2, 4} THEN "other" ELSE "free"
    OBVIOUS
  <2>1. table[fd] = CASE fd = 0 -> "timer" [] fd = 3 -> "camera" [] fd = Sock -> "sock"
                      [] fd \in {1, 2, 4} -> "other" [] fd > Sock -> "free"
    BY DEF Init, InitTable
  <2>2. fd \in Nat /\ Sock = 5
    BY Bounds DEF Sock
  <2> QED
    BY <2>1, <2>2
<1>2. table \in Tables
  <2> DEFINE F(fd) == CASE fd = 0 -> "timer" [] fd = 3 -> "camera" [] fd = Sock -> "sock"
                        [] fd \in {1, 2, 4} -> "other" [] fd > Sock -> "free"
  <2>1. table = [fd \in Fds |-> F(fd)]
    BY DEF Init, InitTable
  <2> HIDE DEF F
  <2>2. table = [fd \in Fds |-> table[fd]]
    BY <2>1
  <2> QED
    BY <1>1, <2>2 DEF Tables
<1>3. Numbers(table, camera, timer)
  BY <1>1, Bounds DEF Init, Numbers, Sock
<1>4. TypeOK
  <2>1. <<>> \in Seq(Message)
    OBVIOUS
  <2>2. buffer \in Supported
    BY DEF Init
  <2>3. device \in Devices
    BY Bounds DEF Init, Devices
  <2> QED
    BY <1>2, <2>1, <2>2, <2>3, Bounds, SettingsAssumption
    DEF Init, TunnelInit, TypeOK, TunnelTypeOK, Tables, Devices
<1>5. Agree(clients, hotline, tsubs)
  <2>1. hotline = <<>> /\ tsubs = {} /\ clients = {}
    BY DEF Init, TunnelInit
  <2>2. \A c \in Client : ~Joins(<<>>, c)
    BY DEF Joins
  <2> QED
    BY <2>1, <2>2 DEF Agree
<1>6. Sized
  BY DEF Init, Sized
<1> QED
  BY <1>3, <1>4, <1>5, <1>6
  DEF Init, CamInv, Serves, InStep, SettingKnown, Leaving, Opening, Numbered, Streams, AtCamera

\* The steps of the tunnel.
LEMMA TunnelStep ==
    ASSUME CamInv, Tunnel \/ TunnelBreaks
    PROVE  CamInv'
<1>1. /\ TunnelActs
      /\ UNCHANGED <<pc, running, clients, setting, camera, timer, buffer, queued, table, device,
                     view>>
  BY DEF Tunnel, TunnelBreaks, TunnelActs, program
<1>2. /\ TunnelTypeOK'
      /\ \A S : InStep(S) => (link' = "up" => Agree(S, hotline', tsubs'))
  BY <1>1, TunnelKeeps DEF CamInv, TypeOK
<1>3. TypeOK'
  BY <1>1, <1>2 DEF CamInv, TypeOK
<1>4. pc \notin {"cleanup", "shutdown", "closing", "closed"} => InStep(clients)'
  BY <1>1, <1>2 DEF CamInv, Serves, InStep
<1>5. link' = "up" => link = "up"
  BY <1>1 DEF TunnelActs, TunnelSubscribes, TunnelUnsubscribes, TunnelForwards, LinkDown
<1>6. ASSUME link' = "up", pc \in {"cleanup", "shutdown", "closing"}, NEW d \in tsubs'
      PROVE  d \in clients \/ Holds(hotline', Subscription(d))
  <2>1. \A c \in tsubs : c \in clients \/ Holds(hotline, Subscription(c))
    BY <1>5, <1>6 DEF CamInv, Leaving, Queued
  <2> QED
    BY <1>1, <1>6, <2>1, TunnelKeepsUntold DEF CamInv, TypeOK
<1>7. pc = "closing" => link' # "up"
  BY <1>5 DEF Tunnel, TunnelBreaks, LinkDown
<1>8. Serves'
  BY <1>1, <1>4, <1>7 DEF Serves
<1>9. Leaving' /\ SettingKnown' /\ Opening' /\ Numbered' /\ Streams' /\ AtCamera' /\ Sized'
  BY <1>1, <1>5, <1>6
  DEF CamInv, Leaving, SettingKnown, Opening, Numbered, Streams, AtCamera, Sized, Intact, Queued
<1> QED
  BY <1>3, <1>8, <1>9 DEF CamInv

\* The handlers of the tunnel's messages.
LEMMA HandlerStep ==
    ASSUME CamInv, Handlers
    PROVE  CamInv'
<1>1. /\ pc = "select" /\ InStep(clients) /\ TypeOK /\ TunnelTypeOK /\ Numbers(table, camera, timer)
      /\ SettingKnown /\ Streams /\ AtCamera /\ Sized
      /\ UNCHANGED <<tsubs, camera, buffer, queued, device>>
      /\ table \in Tables /\ setting \in Setting /\ setting.fps \in Nat
      /\ clients \subseteq Client /\ view \in [Client -> Setting] /\ running \in BOOLEAN
  BY SettingsAssumption
  DEF Handlers, Subscribe, Unsubscribe, Control, Other, ReadFails, Receives, CamInv, TypeOK,
      Serves, Numbered, Intact, Tables
<1>2. ASSUME link' = link, hotline' \in Seq(Message),
             Agree(clients, hotline, tsubs) => Agree(clients', hotline', tsubs),
             clients' \subseteq Client, running' \in BOOLEAN, running' => running,
             setting' \in Setting, table' \in Tables, timer' \in Fds \cup {NoFd},
             Numbers(table', camera, timer'), view' \in [Client -> Setting],
             \/ pc' = "applying"
             \/ pc' = "loop" /\ setting' = setting /\ SettingKnown'
      PROVE  CamInv'
  <2>1. TypeOK'
    BY <1>1, <1>2 DEF TypeOK, TunnelTypeOK, Tables
  <2>2. Serves'
    BY <1>1, <1>2 DEF Serves, InStep
  <2>3. SettingKnown' /\ Leaving' /\ Opening' /\ Streams' /\ AtCamera'
    BY <1>1, <1>2 DEF SettingKnown, Leaving, Opening, Streams, AtCamera
  <2>4. Numbered' /\ Sized'
    BY <1>1, <1>2 DEF Numbered, Sized, Intact
  <2> QED
    BY <2>1, <2>2, <2>3, <2>4 DEF CamInv
<1>t. timer \in Fds \cup {NoFd} /\ hotline \in Seq(Message)
  BY <1>1 DEF TypeOK, TunnelTypeOK
<1>3. ASSUME NEW c \in Client, Subscribe(c) PROVE CamInv'
  <2>1. /\ hotline' \in Seq(Message) /\ link' = link /\ hotline' = Tail(hotline)
        /\ hotline \in Seq(Message) /\ hotline # <<>> /\ Subscription(c) = Head(hotline)
        /\ pc' = "loop" /\ clients' = clients \cup {c} /\ setting' = setting
        /\ view' = IF link = "up" THEN [view EXCEPT ![c] = setting] ELSE view
    BY <1>1, <1>3, ReadTypes DEF Subscribe, Insert
  <2>2. Agree(clients, hotline, tsubs) => Agree(clients', hotline', tsubs)
    BY <2>1, AgreeAfterRead
  <2>3. /\ table' \in Tables /\ Numbers(table', camera, timer')
    BY <1>1, <1>3, TimerNumbers DEF Subscribe
  <2>4. timer' \in Fds \cup {NoFd}
    BY <2>3, Bounds DEF Numbers
  <2>5. view' \in [Client -> Setting]
    BY <1>1, <2>1
  <2>6. PICK ok \in BOOLEAN : running' = (running /\ ok)
    BY <1>3 DEF Subscribe
  <2>7. SettingKnown'
    BY <1>1, <2>1, <2>6 DEF SettingKnown
  <2> QED
    BY <1>1, <1>2, <2>1, <2>2, <2>3, <2>4, <2>5, <2>6, <2>7
<1>4. ASSUME NEW c \in Client, Unsubscribe(c) PROVE CamInv'
  <2>1. /\ hotline' \in Seq(Message) /\ link' = link /\ hotline' = Tail(hotline)
        /\ hotline \in Seq(Message) /\ hotline # <<>> /\ Unsubscription(c) = Head(hotline)
        /\ pc' = "loop" /\ clients' = clients \ {c}
        /\ UNCHANGED <<running, setting, timer, table, view>>
    BY <1>1, <1>4, ReadTypes DEF Unsubscribe
  <2>2. Agree(clients, hotline, tsubs) => Agree(clients', hotline', tsubs)
    BY <2>1, AgreeAfterRead
  <2>3. SettingKnown'
    BY <1>1, <2>1 DEF SettingKnown
  <2> QED
    BY <1>1, <1>2, <1>t, <2>1, <2>2, <2>3
<1>5. ASSUME Control PROVE CamInv'
  <2>1. PICK m \in Requests : m.type = "CTRL" /\ Reads(m) /\ setting' = m.setting
    BY <1>5 DEF Control
  <2>2. /\ hotline' \in Seq(Message) /\ link' = link /\ hotline' = Tail(hotline)
        /\ hotline \in Seq(Message) /\ hotline # <<>> /\ Head(hotline) \in Requests
        /\ pc' = "applying" /\ UNCHANGED <<running, clients, timer, table, view>>
    BY <1>1, <1>5, <2>1, ReadTypes DEF Control
  <2>3. setting' \in Setting
    BY <2>1, SettingsAssumption
  <2>4. Agree(clients, hotline, tsubs) => Agree(clients', hotline', tsubs)
    BY <2>2, AgreeAfterRead
  <2> QED
    BY <1>1, <1>2, <1>t, <2>2, <2>3, <2>4
<1>6. ASSUME Other PROVE CamInv'
  <2>1. /\ hotline' \in Seq(Message) /\ link' = link /\ hotline' = Tail(hotline)
        /\ hotline \in Seq(Message) /\ hotline # <<>> /\ Head(hotline) \in Requests
        /\ pc' = "loop" /\ UNCHANGED <<running, clients, setting, timer, table, view>>
    BY <1>1, <1>6, ReadTypes DEF Other
  <2>2. Agree(clients, hotline, tsubs) => Agree(clients', hotline', tsubs)
    BY <2>1, AgreeAfterRead
  <2>3. SettingKnown'
    BY <1>1, <2>1 DEF SettingKnown
  <2> QED
    BY <1>1, <1>2, <1>t, <2>1, <2>2, <2>3
<1>7. ASSUME ReadFails PROVE CamInv'
  <2>1. /\ pc' = "loop" /\ running' = FALSE
        /\ UNCHANGED <<link, hotline, clients, setting, timer, table, view>>
    BY <1>7 DEF ReadFails, RunningAfterReadError
  <2>2. SettingKnown'
    BY <2>1 DEF SettingKnown
  <2> QED
    BY <1>1, <1>2, <1>t, <2>1, <2>2
<1> QED
  BY <1>3, <1>4, <1>5, <1>6, <1>7 DEF Handlers

\* The steps that leave the hotline, the clients and the setting alone.
LEMMA OwnStep ==
    ASSUME CamInv,
           \/ \E ok, started \in BOOLEAN : OpenReply(ok, started)
           \/ OpenFails \/ Capture \/ Unplug \/ Interrupt \/ Loop \/ Camera \/ Final
    PROVE  CamInv'
<1>1. /\ UNCHANGED <<link, hotline, tsubs>>
      /\ UNCHANGED <<clients, setting, camera, buffer, view>>
  BY DEF OpenReply, OpenFails, Capture, Unplug, Interrupt, Loop, LoopEnds, Loops, QueueFrame,
     QueueFails, AwaitFrame, Rest, Camera, CameraTurn, SendFrame, FrameFails, NoFrame, Sleep, Pace,
     Final, tunnel, program
<1>t. /\ TypeOK /\ Serves /\ SettingKnown /\ Leaving /\ Opening /\ Numbered /\ Streams /\ AtCamera
      /\ Sized /\ running \in BOOLEAN /\ queued \in BOOLEAN /\ device \in Devices
      /\ table \in Tables /\ timer \in Fds \cup {NoFd}
  BY DEF CamInv, TypeOK, Devices, Tables
<1>2. ASSUME running' \in BOOLEAN, running' => running, queued' \in BOOLEAN, device' \in Devices,
             table' \in Tables, timer' \in Fds \cup {NoFd}, Numbered', Streams', AtCamera',
             pc' = "opening" => queued' = queued,
             \/ pc' = pc
             \/ /\ pc' \in {"loop", "select", "pacing"} /\ pc \in {"loop", "select", "pacing"}
                /\ Intact' => Intact
             \/ pc = "opening" /\ pc' \in {"loop", "closed"}
             \/ pc = "loop" /\ ~running /\ pc' = "cleanup"
             \/ pc = "closing" /\ pc' = "closed"
      PROVE  CamInv'
  <2>1. TypeOK'
    BY <1>1, <1>2, <1>t DEF TypeOK, TunnelTypeOK, Devices, Tables
  <2>2. Serves'
    <3>1. pc' \notin {"cleanup", "shutdown", "closing", "closed"} =>
              pc \notin {"cleanup", "shutdown", "closing", "closed"}
      BY <1>2
    <3>2. pc' = "closing" => pc = "closing"
      BY <1>2
    <3> QED
      BY <1>1, <1>t, <3>1, <3>2 DEF Serves, InStep, Queued
  <2>3. ASSUME pc = "loop", link = "up", NEW c \in tsubs
        PROVE  c \in clients \/ Queued(Subscription(c))
    <3>1. TunnelTypeOK /\ Agree(clients, hotline, tsubs)
      BY <2>3, <1>t DEF Serves, InStep, TypeOK
    <3> QED
      BY <2>3, <3>1, AllKnown DEF Queued
  <2>4. Leaving'
    BY <1>1, <1>2, <1>t, <2>3 DEF Leaving, Queued
  <2>5. SettingKnown' /\ Opening'
    BY <1>1, <1>2, <1>t DEF SettingKnown, Opening
  <2>6. Intact' => Intact
    BY <1>2 DEF Intact
  <2>7. Sized'
    BY <1>1, <1>t, <2>6 DEF Sized
  <2> QED
    BY <1>2, <2>1, <2>2, <2>4, <2>5, <2>7 DEF CamInv
<1>3. ASSUME UNCHANGED <<queued, table, timer, device>>, running' \in BOOLEAN, running' => running,
             \/ pc' = pc
             \/ /\ pc' \in {"loop", "select", "pacing"} /\ pc \in {"loop", "select", "pacing"}
                /\ Intact' => Intact
             \/ pc = "opening" /\ pc' = "closed"
             \/ pc = "loop" /\ ~running /\ pc' = "cleanup"
             \/ pc = "closing" /\ pc' = "closed"
      PROVE  CamInv'
  <2>1. Numbered'
    BY <1>1, <1>3, <1>t DEF Numbered, Intact
  <2>2. Streams' /\ AtCamera'
    BY <1>1, <1>3, <1>t DEF Streams, AtCamera
  <2> QED
    BY <1>2, <1>3, <1>t, <2>1, <2>2
<1>4. CASE OpenFails \/ Interrupt \/ Final
  <2>1. /\ UNCHANGED <<queued, table, timer, device>> /\ running' \in BOOLEAN
    BY <1>4, <1>t DEF OpenFails, Interrupt, Final, program
  <2>2. \/ pc' = pc
        \/ pc' = "loop" /\ pc = "select"
        \/ pc \in {"opening", "closing"} /\ pc' = "closed"
    BY <1>4 DEF OpenFails, Interrupt, Final
  <2>3. running' \in {running, FALSE}
    BY <1>4 DEF OpenFails, Interrupt, Final
  <2> QED
    BY <1>3, <2>1, <2>2, <2>3 DEF Intact
<1>5. CASE LoopEnds \/ QueueFails \/ AwaitFrame
  BY <1>3, <1>5, <1>t DEF LoopEnds, QueueFails, AwaitFrame, Loops, program, Intact
<1>6. CASE FrameFails \/ NoFrame \/ Sleep \/ Pace
  BY <1>3, <1>6, <1>t
  DEF FrameFails, AfterFrameError, NoFrame, Sleep, Pace, CameraTurn, Paces, program, Intact
<1>7. ASSUME NEW ok \in BOOLEAN, NEW started \in BOOLEAN, OpenReply(ok, started) PROVE CamInv'
  <2>1. /\ pc = "opening" /\ pc' = "loop" /\ running' = (running /\ ok /\ started) /\ ~queued
        /\ device' = [device EXCEPT !.streaming = started] /\ UNCHANGED <<queued, table, timer>>
    BY <1>7, <1>t DEF OpenReply, program, Opening
  <2>2. device' \in Devices /\ device'.streaming = started
    BY <1>t, <2>1 DEF Devices
  <2>3. Streams' /\ AtCamera' /\ Numbered'
    BY <1>1, <1>t, <2>1, <2>2 DEF Streams, AtCamera, Numbered, Intact
  <2> QED
    BY <1>2, <1>t, <2>1, <2>2, <2>3
<1>8. CASE Capture \/ Unplug
  <2>1. /\ UNCHANGED <<pc, running, queued, table, timer>> /\ device' \in Devices
        /\ device'.owner = device.owner /\ device'.streaming = device.streaming
        /\ device'.plugged => device.plugged
        /\ device'.frame \in {device.frame, "done"}
    BY <1>8, <1>t DEF Capture, Unplug, program, Devices
  <2>2. Streams' /\ AtCamera' /\ Numbered'
    BY <1>1, <1>t, <2>1 DEF Streams, AtCamera, Numbered, Intact
  <2> QED
    BY <1>2, <1>t, <2>1, <2>2
<1>9. CASE QueueFrame
  <2>1. /\ pc = "loop" /\ running /\ pc' = "select" /\ Controls(camera) /\ queued' = TRUE
        /\ device' = [device EXCEPT !.frame = "queued"] /\ UNCHANGED <<running, table, timer>>
    BY <1>9 DEF QueueFrame, Loops
  <2>2. /\ device' \in Devices /\ device'.owner = camera /\ device'.streaming /\ device'.frame # "none"
    BY <1>t, <2>1 DEF Devices, Controls, Streams
  <2>3. Streams' /\ AtCamera' /\ Numbered'
    BY <1>1, <1>t, <2>1, <2>2 DEF Streams, AtCamera, Numbered, Intact
  <2> QED
    BY <1>2, <1>t, <2>1, <2>2, <2>3 DEF Intact
<1>10. CASE SendFrame
  <2>1. /\ pc = "select" /\ pc' \in {"loop", "pacing"} /\ queued' = FALSE
        /\ device' = [device EXCEPT !.frame = "none"] /\ UNCHANGED <<running, table, timer>>
    BY <1>10 DEF SendFrame, CameraTurn, Paces
  <2>2. device' \in Devices /\ device'.streaming = device.streaming
    BY <1>t, <2>1 DEF Devices
  <2>3. Streams' /\ AtCamera' /\ Numbered'
    BY <1>1, <1>t, <2>1, <2>2 DEF Streams, AtCamera, Numbered, Intact
  <2> QED
    BY <1>2, <1>t, <2>1, <2>2, <2>3 DEF Intact
<1>11. CASE Rest
  <2>1. /\ pc = "loop" /\ running /\ pc' = "select" /\ table' = CloseIf(timer # NoFd, table, timer)
        /\ timer' = NoFd /\ UNCHANGED <<running, queued, device>>
    BY <1>11 DEF Rest, Loops, ClosedTimer
  <2>2. table' \in Tables
    BY <1>t, <2>1 DEF CloseIf, Close, Tables
  <2>3. Numbers(table, camera, timer)
    BY <1>t, <2>1 DEF Numbered, Intact
  <2>4. Numbers(table', camera, NoFd)
    <3>1. \A fd \in Fds : table'[fd] = IF fd = timer THEN "free" ELSE table[fd]
      BY <1>t, <2>1, Bounds DEF CloseIf, Close, Tables
    <3> QED
      BY <2>3, <3>1, Bounds DEF Numbers, Sock
  <2>5. Streams' /\ AtCamera' /\ Numbered'
    BY <1>1, <1>t, <2>1, <2>4 DEF Streams, AtCamera, Numbered, Intact
  <2> QED
    BY <1>2, <1>t, <2>1, <2>2, <2>5 DEF Intact
<1> QED
  BY <1>4, <1>5, <1>6, <1>7, <1>8, <1>9, <1>10, <1>11 DEF Loop, Camera

\* A cam_cleanup that fails halfway leaves what is queued at the camera.
LEMMA HalfwayKeeps ==
    ASSUME CamInv, StopsHalfway, camera' = camera
    PROVE  queued' \in BOOLEAN /\ device' \in Devices /\ table' = table /\ AtCamera'
<1>1. queued \in BOOLEAN /\ device \in Devices /\ AtCamera /\ table' = table
  BY DEF CamInv, TypeOK, Devices, StopsHalfway
<1>2. CASE UNCHANGED <<queued, device>>
  BY <1>1, <1>2 DEF AtCamera
<1>3. CASE AfterCleanup /\ device' = [device EXCEPT !.frame = "none"]
  <2>1. queued' = FALSE
    BY <1>3 DEF AfterCleanup, Dequeued
  <2>2. device' \in Devices
    BY <1>1, <1>3 DEF Devices
  <2> QED
    BY <1>1, <2>1, <2>2 DEF AtCamera
<1> QED
  BY <1>2, <1>3 DEF StopsHalfway

\* A setting is applied, or the publisher gives up.
LEMMA ApplyStep ==
    ASSUME CamInv, Apply
    PROVE  CamInv'
<1>1. /\ pc = "applying" /\ pc' = "loop" /\ UNCHANGED <<link, hotline, tsubs, clients, setting>>
  BY DEF Apply, CleanupFails, ReopenFails, SettingRefused, SettingApplied, Applies, tunnel
<1>t. /\ TypeOK /\ InStep(clients) /\ Streams /\ AtCamera /\ Numbers(table, camera, timer)
      /\ running \in BOOLEAN /\ queued \in BOOLEAN /\ device \in Devices /\ setting \in Setting
      /\ table \in Tables /\ timer \in Fds \cup {NoFd} /\ camera \in Fds \cup {NoFd}
      /\ buffer \in Supported \cup {"none"} /\ view \in [Client -> Setting] /\ setting.fps \in Nat
  BY <1>1, SettingsAssumption DEF CamInv, TypeOK, Devices, Tables, Serves, Numbered
<1>2. ASSUME running' \in BOOLEAN, queued' \in BOOLEAN, device' \in Devices, table' \in Tables,
             timer' \in Fds \cup {NoFd}, camera' \in Fds \cup {NoFd},
             buffer' \in Supported \cup {"none"}, view' \in [Client -> Setting],
             AtCamera',
             running' => /\ Numbers(table', camera', timer') /\ device'.streaming
                         /\ setting.size \in Supported => buffer' = setting.size
                         /\ link = "up" => \A c \in clients : view'[c] = setting
      PROVE  CamInv'
  <2>1. TypeOK'
    BY <1>1, <1>2, <1>t DEF TypeOK, TunnelTypeOK, Devices, Tables
  <2>2. Serves' /\ Leaving' /\ Opening'
    BY <1>1, <1>t DEF Serves, InStep, Leaving, Opening
  <2>3. SettingKnown' /\ Numbered' /\ Streams' /\ Sized'
    BY <1>1, <1>2 DEF SettingKnown, Numbered, Streams, Sized, Intact
  <2> QED
    BY <1>2, <2>1, <2>2, <2>3 DEF CamInv
<1>3. CASE CleanupFails
  <2>1. /\ running' = FALSE /\ buffer' \in {buffer, "none"}
        /\ UNCHANGED <<camera, timer, view>> /\ StopsHalfway
    BY <1>3 DEF CleanupFails
  <2>2. queued' \in BOOLEAN /\ device' \in Devices /\ table' = table /\ AtCamera'
    BY <2>1, HalfwayKeeps
  <2> QED
    BY <1>2, <1>t, <2>1, <2>2
<1>4. ClearedDevice \in Devices
  BY <1>t, Bounds DEF ClearedDevice, Release, Devices
<1>5. ClearedTable \in Tables /\ Lowest(ClearedTable) \in Fds /\ Reopened \in Tables
  BY <1>t, ReopenNumbers, Bounds
<1>6. CASE ReopenFails
  <2>1. /\ running' = FALSE /\ queued' = FALSE /\ camera' = NoFd /\ buffer' = "none"
        /\ table' = ClearedTable /\ device' = ClearedDevice /\ UNCHANGED <<timer, view>>
    BY <1>6 DEF ReopenFails, AfterCleanup, Dequeued
  <2> QED
    BY <1>2, <1>t, <1>4, <1>5, <2>1 DEF AtCamera
<1>7. CASE SettingRefused
  <2>1. /\ running' = FALSE /\ queued' = FALSE /\ camera' = Lowest(ClearedTable)
        /\ buffer' = "none" /\ table' = Reopened /\ device' = ClearedDevice
        /\ UNCHANGED <<timer, view>>
    BY <1>7 DEF SettingRefused, AfterCleanup, Dequeued, Reopened
  <2> QED
    BY <1>2, <1>t, <1>4, <1>5, <2>1 DEF AtCamera
<1>8. ASSUME NEW started \in BOOLEAN, SettingApplied(started) PROVE CamInv'
  <2>1. /\ queued' = FALSE /\ Controls(camera) /\ ClearedDevice.owner = NoFd
        /\ camera' = Lowest(ClearedTable) /\ buffer' \in SizesFor(setting)
        /\ table' = TableWithTimer(Reopened, timer, setting.fps)
        /\ timer' = NewTimer(Reopened, timer, setting.fps)
        /\ device' = [ClearedDevice EXCEPT !.owner = camera', !.streaming = started]
        /\ running' = (running /\ started)
        /\ view' = IF started /\ link = "up" THEN Informed ELSE view
    BY <1>8 DEF SettingApplied, AfterCleanup, Dequeued, NewBuffer
  <2>2. camera # 0
    <3>1. camera = 0 => ClearedDevice.owner = 0
      BY <1>t, <2>1 DEF ClearedDevice, Controls, Devices
    <3> QED
      BY <2>1, <3>1, Bounds
  <2>3. Numbers(Reopened, camera', timer)
    BY <1>t, <2>1, <2>2, ReopenNumbers
  <2>4. table' \in Tables /\ Numbers(table', camera', timer')
    BY <1>t, <1>5, <2>1, <2>3, TimerNumbers
  <2>5. timer' \in Fds \cup {NoFd} /\ camera' \in Fds
    BY <2>4, Bounds DEF Numbers
  <2>6. device' \in Devices /\ device'.streaming = started
    BY <1>4, <2>1, <2>5 DEF Devices
  <2>7. /\ buffer' \in Supported
        /\ setting.size \in Supported => buffer' = setting.size
    BY <2>1 DEF SizesFor
  <2>8. /\ view' \in [Client -> Setting]
        /\ started /\ link = "up" => \A c \in clients : view'[c] = setting
    BY <1>t, <2>1 DEF Informed, TypeOK
  <2> QED
    BY <1>2, <1>t, <2>1, <2>4, <2>5, <2>6, <2>7, <2>8 DEF AtCamera
<1> QED
  BY <1>3, <1>6, <1>7, <1>8 DEF Apply

\* The camera is released, then unsubscribe() for every client.
LEMMA ShutdownStep ==
    ASSUME CamInv, Shutdown
    PROVE  CamInv'
<1>1. /\ pc \in {"cleanup", "shutdown"} /\ ~running
      /\ pc' \in {"shutdown", "closing"}
      /\ UNCHANGED <<link, hotline, running, setting, camera, timer, view>>
  BY DEF Shutdown, Cleanup, ShutdownTell, SendClose, Tells, tunnel, program, CamInv, Leaving
<1>t. /\ TypeOK /\ Leaving /\ AtCamera
      /\ queued \in BOOLEAN /\ device \in Devices /\ table \in Tables
      /\ clients \subseteq Client /\ tsubs \subseteq Client
  BY DEF CamInv, TypeOK, TunnelTypeOK, Devices, Tables
<1>2. ASSUME queued' \in BOOLEAN, device' \in Devices, table' \in Tables,
             buffer' \in Supported \cup {"none"}, AtCamera', clients' \subseteq Client,
             tsubs' \subseteq Client, pc' = "closing" => clients' = {},
             link = "up" => \A c \in tsubs' : c \in clients' \/ Queued(Subscription(c))
      PROVE  CamInv'
  <2>1. TypeOK'
    BY <1>1, <1>2, <1>t DEF TypeOK, TunnelTypeOK, Devices, Tables
  <2>2. Serves' /\ Leaving'
    BY <1>1, <1>2 DEF Serves, Leaving, Queued
  <2>3. SettingKnown' /\ Opening' /\ Numbered' /\ Streams' /\ Sized'
    BY <1>1 DEF SettingKnown, Opening, Numbered, Streams, Sized, Intact
  <2> QED
    BY <1>2, <2>1, <2>2, <2>3 DEF CamInv
<1>3. link = "up" => \A c \in tsubs : c \in clients \/ Queued(Subscription(c))
  BY <1>1, <1>t DEF Leaving
<1>4. CASE Cleanup
  <2>1. UNCHANGED <<clients, tsubs>> /\ pc' = "shutdown"
    BY <1>4 DEF Cleanup, tunnel
  <2>2. CASE StopsHalfway /\ UNCHANGED buffer
    <3>1. queued' \in BOOLEAN /\ device' \in Devices /\ table' = table /\ AtCamera'
      BY <1>1, <2>2, HalfwayKeeps
    <3> QED
      BY <1>2, <1>3, <1>t, <2>1, <2>2, <3>1 DEF TypeOK
  <2>3. CASE AfterCleanup /\ buffer' = "none" /\ table' = ClearedTable /\ device' = ClearedDevice
    <3>1. device' \in Devices
      BY <1>t, <2>3, Bounds DEF ClearedDevice, Release, Devices
    <3>2. table' \in Tables
      BY <1>t, <2>3 DEF ClearedTable, CloseIf, Close, Tables
    <3> QED
      BY <1>2, <1>3, <1>t, <2>1, <2>3, <3>1, <3>2 DEF AfterCleanup, Dequeued, AtCamera
  <2> QED
    BY <1>4, <2>2, <2>3 DEF Cleanup
<1>5. ASSUME NEW c \in Client, ShutdownTell(c) PROVE CamInv'
  <2>1. /\ pc' = "shutdown" /\ clients' = clients \ {c} /\ tsubs' = tsubs \ {c}
        /\ UNCHANGED <<buffer, queued, table, device, camera>>
    BY <1>1, <1>5 DEF ShutdownTell, Tells, program
  <2>2. AtCamera' /\ buffer' \in Supported \cup {"none"}
    BY <1>t, <2>1 DEF AtCamera, TypeOK
  <2> QED
    BY <1>2, <1>3, <1>t, <2>1, <2>2
<1>6. CASE SendClose
  <2>1. clients = {} /\ clients' = {} /\ UNCHANGED <<tsubs, buffer, queued, table, device, camera>>
    BY <1>6 DEF SendClose, ToldAll, tunnel, program
  <2>2. AtCamera' /\ buffer' \in Supported \cup {"none"}
    BY <1>t, <2>1 DEF AtCamera, TypeOK
  <2> QED
    BY <1>2, <1>3, <1>t, <2>1, <2>2
<1> QED
  BY <1>4, <1>5, <1>6 DEF Shutdown

LEMMA CameraStep == CamInv /\ [Next]_vars => CamInv'
<1> SUFFICES ASSUME CamInv, [Next]_vars PROVE CamInv'
  OBVIOUS
<1>1. CASE UNCHANGED vars
  <2>1. /\ UNCHANGED <<link, hotline, tsubs>>
        /\ UNCHANGED <<pc, running, clients, setting, camera, timer, buffer, queued>>
        /\ UNCHANGED <<table, device, view>>
    BY <1>1 DEF vars, tunnel, program
  <2>2. TypeOK' /\ Serves'
    BY <2>1 DEF CamInv, TypeOK, TunnelTypeOK, Serves, InStep, Queued
  <2> QED
    BY <2>1, <2>2 DEF CamInv, Leaving, SettingKnown, Opening, Numbered, Streams, AtCamera, Sized,
       Intact, Queued
<1>2. CASE Next
  BY <1>2, TunnelStep, HandlerStep, OwnStep, ApplyStep, ShutdownStep DEF Next
<1> QED
  BY <1>1, <1>2

\* The inductive invariant holds in every reachable state.
THEOREM CameraSafe == Spec => []CamInv
BY CameraStarts, CameraStep, PTL DEF Spec

\* The state keeps its type; in particular there is always a free descriptor to
\* open the camera and the timer with (v4l2cam.c:316-323, 519-523).
THEOREM TypeCorrect == Spec => []TypeOK
<1>1. CamInv => TypeOK
  BY DEF CamInv
<1> QED
  BY <1>1, CameraSafe, PTL

\* The clients frames are sent to are the tunnel's subscribers, and each has been
\* told when the channel is closed (v4l2cam.c:546-572, 667-679).
THEOREM ServesSubscribers == Spec => []Serves
<1>1. CamInv => Serves
  BY DEF CamInv
<1> QED
  BY <1>1, CameraSafe, PTL

\* Every client knows the setting in force (v4l2cam.c:553-563, 608-620).
THEOREM KnowsSetting == Spec => []SettingKnown
<1>1. CamInv => SettingKnown
  BY DEF CamInv
<1> QED
  BY <1>1, CameraSafe, PTL

\* The camera and the timer are open once, under the numbers the program uses
\* (v4l2cam.c:316-323, 329-354, 369, 519-523).
THEOREM KeepsDescriptors == Spec => []Descriptors
<1>1. CamInv => Descriptors
  <2> SUFFICES ASSUME CamInv, pc \in {"select", "pacing"}
               PROVE  /\ {fd \in Fds : table[fd] = "camera"} = {camera}
                      /\ {fd \in Fds : table[fd] = "timer"} = {timer} \ {NoFd}
    BY DEF Descriptors
  <2>1. Numbers(table, camera, timer)
    BY DEF CamInv, Numbered, Intact
  <2> QED
    BY <2>1, Bounds DEF Numbers
<1> QED
  BY <1>1, CameraSafe, PTL

\* VIDIOC_DQBUF is never called for a buffer no frame will come to
\* (v4l2cam.c:275, 295-305, 508-518).
THEOREM AwaitsFrames == Spec => []Awaited
<1>1. CamInv => Awaited
  BY DEF CamInv, AtCamera, Awaited
<1> QED
  BY <1>1, CameraSafe, PTL

\* The buffer that is compressed has the size of the setting
\* (v4l2cam.c:163-195, 359-396, 579-593).
THEOREM FramesFit == Spec => []Fits
<1>1. CamInv => Fits
  BY DEF CamInv, Sized, Intact, Fits
<1> QED
  BY <1>1, CameraSafe, PTL
=============================================================================
