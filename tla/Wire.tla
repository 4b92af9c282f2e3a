-------------------------------- MODULE Wire --------------------------------
(***************************************************************************)
(* The wire protocol of the tunnel (tunnel.c): one direction of the        *)
(* connection, msg_write at one end and msg_read at the other.  A message   *)
(* is seven fields of bytes; write() and read() move any part of a field,   *)
(* and the connection may break between any two bytes.                     *)
(***************************************************************************)
EXTENDS Integers, Sequences

CONSTANTS Messages,  \* what is sent: records [type, channel, client, data]
          MaxSent,   \* bound: calls of msg_write
          Capacity   \* bytes the socket holds

ASSUME CapacityAssumption == Capacity \in Nat \ {0} /\ MaxSent \in Nat

Byte == 0 .. 255
Id == {n \in Nat : n < 65536}                    \* uint16_t
Sizes == {n \in Nat : n \div 16777216 < 128}     \* what an int counts (22, 48)
ASSUME MessagesAssumption ==
    /\ Messages \subseteq [type : 0 .. 7, channel : Id, client : Id, data : Seq(Byte)]
    /\ \A m \in Messages : Len(m.data) \in Sizes

VARIABLES
    sent,       \* the messages given to msg_write
    wfield,     \* the field it is writing; 0 outside of msg_write
    written,    \* n of guard_write: bytes of the field that are written
    socket,     \* bytes that are written and not read
    up,         \* the connection is not broken
    rfield,     \* the field msg_read is reading; 0 once it has failed
    got,        \* what guard_read has read of the field
    msg,        \* the header and payload msg_read has filled in so far
    noMemory,   \* malloc failed
    delivered   \* the messages msg_read has returned

writer == <<sent, wfield, written>>
reader == <<rfield, got, msg, noMemory, delivered>>
vars == <<writer, socket, up, reader>>

-----------------------------------------------------------------------------
(* The format.                                                             *)

MagicBegin == 65 * 256 + 78   \* "AN"
MagicEnd == 84 * 256 + 68     \* "TD"

\* The fields, by number.
Begin == 1
Type == 2
Channel == 3
Client == 4
Size == 5
Payload == 6
End == 7
Fields == Begin .. End

\* htons, htonl: most significant byte first.
ToNet(x, width) ==
    IF width = 2 THEN <<x \div 256, x % 256>>
    ELSE <<x \div 16777216, (x \div 65536) % 256, (x \div 256) % 256, x % 256>>

\* ntohs, ntohl.
FromNetSwapped(b) == IF Len(b) = 2 THEN b[1] + 256 * b[2]  \* (mutant: no ntohs)
                     ELSE b[1] + 256 * b[2] + 65536 * b[3] + 16777216 * b[4]
FromNet(b) == IF Len(b) = 2 THEN 256 * b[1] + b[2]
              ELSE 16777216 * b[1] + 65536 * b[2] + 256 * b[3] + b[4]

\* The bytes of a field of m.
Bytes(m, f) == CASE f = Begin   -> ToNet(MagicBegin, 2)
                 [] f = Type    -> <<m.type>>
                 [] f = Channel -> ToNet(m.channel, 2)
                 [] f = Client  -> ToNet(m.client, 2)
                 [] f = Size    -> ToNet(Len(m.data), 4)
                 [] f = Payload -> m.data
                 [] f = End     -> ToNet(MagicEnd, 2)

\* A message without data has no payload field.
Following(f, size) == IF f = Size /\ size = 0 THEN End ELSE f + 1

-----------------------------------------------------------------------------
(* msg_write.                                                              *)

Sending == sent[Len(sent)]

MsgWrite(m) ==
    /\ wfield = 0 /\ Len(sent) < MaxSent
    /\ sent' = Append(sent, m)
    /\ wfield' = Begin
    /\ UNCHANGED <<written, socket, up, reader>>

\* guard_write counts what write() took, and starts from 0 for every field.
CountedOnce(n, len) == 0         \* (mutant: a short write is taken for a full one)
CountedOn(n, len) == n           \* (mutant: the next field starts where this one ends)
Counted(n, len) == IF n = len THEN 0 ELSE n

WfieldAfter(n) ==
    IF Counted(n, Len(Bytes(Sending, wfield))) # 0 THEN wfield
    ELSE IF wfield = End THEN 0 ELSE Following(wfield, Len(Sending.data))

Write ==
    /\ wfield # 0 /\ up
    /\ LET b == Bytes(Sending, wfield)
       IN  \E n \in written + 1 .. Len(b) :
            /\ Len(socket) + n - written <= Capacity
            /\ socket' = socket \o SubSeq(b, written + 1, n)
            /\ written' = Counted(n, Len(b))
            /\ wfield' = WfieldAfter(n)
    /\ UNCHANGED <<sent, up, reader>>

\* write() returns -1, and so does msg_write: the rest is not sent.
WriteFails ==
    /\ wfield # 0 /\ ~up
    /\ wfield' = 0 /\ written' = 0
    /\ UNCHANGED <<sent, socket, up, reader>>

\* Either end exits or the connection is lost.
Break ==
    /\ up
    /\ up' = FALSE
    /\ UNCHANGED <<writer, socket, reader>>

-----------------------------------------------------------------------------
(* msg_read.                                                               *)

Width(f) == CASE f \in {Begin, Channel, Client, End} -> 2
              [] f = Type -> 1
              [] f = Size -> 4
              [] f = Payload -> msg.size

\* The checks of msg_check_number and of the type.
Accepts(f, b) == CASE f = Begin -> FromNet(b) = MagicBegin
                   [] f = Type  -> b[1] <= 7
                   [] f = End   -> FromNet(b) = MagicEnd
                   [] OTHER     -> TRUE

\* What the bytes of field f put into msg.
StoreSwapped(f, b) ==     \* (mutant: the ids are read in the other order)
    CASE f = Channel -> [msg EXCEPT !.client = FromNet(b)]
      [] f = Client  -> [msg EXCEPT !.channel = FromNet(b)]
      [] f = Type    -> [msg EXCEPT !.type = b[1]]
      [] f = Size    -> [msg EXCEPT !.size = FromNet(b), !.data = <<>>]
      [] f = Payload -> [msg EXCEPT !.data = b]
      [] OTHER       -> msg
Store(f, b) == CASE f = Type    -> [msg EXCEPT !.type = b[1]]
                 [] f = Channel -> [msg EXCEPT !.channel = FromNet(b)]
                 [] f = Client  -> [msg EXCEPT !.client = FromNet(b)]
                 [] f = Size    -> [msg EXCEPT !.size = FromNet(b), !.data = <<>>]
                 [] f = Payload -> [msg EXCEPT !.data = b]
                 [] OTHER       -> msg

Received == [type |-> msg.type, channel |-> msg.channel, client |-> msg.client,
             data |-> msg.data]

RfieldAfter(f, size) == IF f = End THEN Begin ELSE Following(f, size)

\* read() returns a part of the field: guard_read goes on.
ReadPart ==
    /\ rfield # 0
    /\ \E n \in 1 .. Len(socket) :
        /\ Len(got) + n < Width(rfield)
        /\ got' = got \o SubSeq(socket, 1, n)
        /\ socket' = SubSeq(socket, n + 1, Len(socket))
    /\ UNCHANGED <<writer, up, rfield, msg, noMemory, delivered>>

\* read() returns the rest of the field, which is checked and stored; the
\* last field completes the message.
ReadField ==
    /\ rfield # 0
    /\ LET n == Width(rfield) - Len(got)
           b == got \o SubSeq(socket, 1, n)
       IN  /\ Len(socket) >= n
           /\ socket' = SubSeq(socket, n + 1, Len(socket))
           /\ msg' = Store(rfield, b)
           /\ rfield' = IF Accepts(rfield, b) THEN RfieldAfter(rfield, msg'.size) ELSE 0
           /\ delivered' = IF rfield = End /\ Accepts(rfield, b)
                           THEN Append(delivered, Received) ELSE delivered
    /\ got' = <<>>
    /\ UNCHANGED <<writer, up, noMemory>>

\* malloc returns NULL for a payload.
NoMemory ==
    /\ rfield = Payload /\ got = <<>>
    /\ rfield' = 0 /\ noMemory' = TRUE
    /\ UNCHANGED <<writer, socket, up, got, msg, delivered>>

\* read() returns 0 or -1, and what was not read is lost.  msg_read returns
\* -1, except that a size that could not be read is taken for 0 when its
\* memory, partly overwritten, says so: the end magic number is read next.
ReadFails ==
    /\ rfield # 0 /\ ~up
    /\ socket' = <<>> /\ got' = <<>>
    /\ \/ rfield' = 0 /\ UNCHANGED msg
       \/ rfield = Size /\ rfield' = End /\ msg' = [msg EXCEPT !.size = 0, !.data = <<>>]
    /\ UNCHANGED <<writer, up, noMemory, delivered>>

-----------------------------------------------------------------------------
Init ==
    /\ sent = <<>> /\ wfield = 0 /\ written = 0
    /\ socket = <<>> /\ up = TRUE
    /\ rfield = Begin /\ got = <<>> /\ noMemory = FALSE
    /\ msg = [type |-> 0, channel |-> 0, client |-> 0, size |-> 0, data |-> <<>>]
    /\ delivered = <<>>

ReadStep == ReadPart \/ ReadField \/ ReadFails
WriteStep == Write \/ WriteFails
Next == (\E m \in Messages : MsgWrite(m)) \/ WriteStep \/ Break \/ ReadStep \/ NoMemory

Spec == Init /\ [][Next]_vars

\* guard_read and guard_write go on until they have moved the whole field.
LiveSpec == Spec /\ WF_vars(WriteStep) /\ WF_vars(ReadStep)

-----------------------------------------------------------------------------
(* Properties.                                                             *)

TypeOK ==
    /\ sent \in Seq(Messages) /\ Len(sent) <= MaxSent
    /\ wfield \in Fields \cup {0}
    /\ written \in Nat
    /\ wfield = 0 => written = 0
    /\ wfield # 0 => sent # <<>> /\ written < Len(Bytes(Sending, wfield))
    /\ socket \in Seq(Byte) /\ Len(socket) <= Capacity
    /\ up \in BOOLEAN /\ noMemory \in BOOLEAN
    /\ rfield \in Fields \cup {0}
    /\ got \in Seq(Byte)
    /\ rfield # 0 => Len(got) < Width(rfield)
    /\ msg \in [type : Byte, channel : Id, client : Id, size : Nat, data : Seq(Byte)]
    /\ delivered \in Seq(Messages) /\ Len(delivered) <= Len(sent)

\* The reader never loses the framing: whatever the payloads are, and
\* however the bytes are cut into reads and writes, msg_read only fails when
\* the connection or the memory does (msg_read, 221-261).
Framed == rfield = 0 => ~up \/ noMemory

\* Messages are delivered whole, unaltered, in order and once, also when the
\* connection breaks within one (msg_read 219-263, msg_write 265-319).
MessageChannel == INSTANCE MessageChannel
Implements == MessageChannel!Spec

\* What has been sent is delivered, unless the connection or the memory fails.
ArrivesOrFails == \A k \in 1 .. MaxSent : Len(sent) = k ~> Len(delivered) >= k \/ ~up \/ rfield = 0
-----------------------------------------------------------------------------
(* Why these hold: an invariant that every step keeps.                     *)

\* Where field f begins in a message with n bytes of data, and how long that
\* message is.
Offset(n, f) == CASE f = Begin   -> 0
                  [] f = Type    -> 2
                  [] f = Channel -> 3
                  [] f = Client  -> 5
                  [] f = Size    -> 7
                  [] f = Payload -> 11
                  [] f = End     -> 11 + n
Length(n) == 13 + n

\* Message k begins after start[k] bytes of the whole stream.
Starts(start) ==
    /\ start \in [1 .. Len(sent) + 1 -> Nat]
    /\ \A k \in 1 .. Len(sent) : start[k + 1] = start[k] + Length(Len(sent[k].data))
    /\ \A j, k \in 1 .. Len(sent) + 1 : j <= k => start[j] <= start[k]

\* How much of the stream has been read and written.
Reading == Len(delivered) + 1
ReadPos(start) == start[Reading] + Offset(msg.size, rfield) + Len(got)
WritePos(start) == IF wfield = 0 THEN start[Len(sent) + 1]
                   ELSE start[Len(sent)] + Offset(Len(Sending.data), wfield) + written

\* The reader goes on as long as there is something to read.
GoesOn == rfield # 0 /\ (up \/ socket # <<>>)

\* The socket has the part of the stream that is written and not read.
InSocket(start) ==
    /\ ReadPos(start) + Len(socket) <= start[Len(sent) + 1]
    /\ up => ReadPos(start) + Len(socket) = WritePos(start)
    /\ \A k \in 1 .. Len(sent), f \in Fields, i \in 1 .. Len(socket) :
          \A j \in 1 .. Len(Bytes(sent[k], f)) :
              ReadPos(start) + i = start[k] + Offset(Len(sent[k].data), f) + j
                  => socket[i] = Bytes(sent[k], f)[j]

\* What the reader has of the message it is at.
Has(m) ==
    /\ \A j \in 1 .. Len(got) : got[j] = Bytes(m, rfield)[j]
    /\ rfield > Type => msg.type = m.type
    /\ rfield > Channel => msg.channel = m.channel
    /\ rfield > Client => msg.client = m.client
    /\ rfield > Size => msg.size = Len(m.data) /\ (rfield = Payload => msg.size > 0)
    /\ rfield = End => msg.data = m.data

\* The reader is at the message it should be at, as long as it goes on.
InStep(start) == InSocket(start) /\ (Reading <= Len(sent) => Has(sent[Reading]))

WireInv ==
    /\ TypeOK /\ Framed
    /\ \E start : Starts(start) /\ (GoesOn => InStep(start))
=============================================================================
