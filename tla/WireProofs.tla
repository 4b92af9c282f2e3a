----------------------------- MODULE WireProofs -----------------------------
(* Proofs about Wire, for any messages, any number of them and any socket.  *)
EXTENDS Wire, TLAPS

-----------------------------------------------------------------------------
(* The format.                                                             *)

\* ntohs undoes htons, and ntohl undoes htonl.
LEMMA ShortBytes ==
    ASSUME NEW x \in Id
    PROVE  /\ ToNet(x, 2) \in Seq(Byte) /\ Len(ToNet(x, 2)) = 2
           /\ FromNet(ToNet(x, 2)) = x
<1>1. ToNet(x, 2) = <<x \div 256, x % 256>>
  BY SMT DEF ToNet
<1>2. x \div 256 \in Byte /\ x % 256 \in Byte /\ 256 * (x \div 256) + (x % 256) = x
  BY SMT DEF Id, Byte
<1>3. FromNet(<<x \div 256, x % 256>>) = 256 * (x \div 256) + (x % 256)
  BY SMT DEF FromNet
<1>4. <<x \div 256, x % 256>> \in Seq(Byte) /\ Len(<<x \div 256, x % 256>>) = 2
  BY SMT, <1>2
<1>5. FromNet(<<x \div 256, x % 256>>) = x
  BY SMT, <1>2, <1>3
<1> QED
  BY <1>1, <1>4, <1>5

LEMMA LongBytes ==
    ASSUME NEW n \in Sizes
    PROVE  /\ ToNet(n, 4) \in Seq(Byte) /\ Len(ToNet(n, 4)) = 4
           /\ FromNet(ToNet(n, 4)) = n
<1> DEFINE a == n \div 16777216
           b == (n \div 65536) % 256
           c == (n \div 256) % 256
           d == n % 256
<1>1. ToNet(n, 4) = <<a, b, c, d>>
  BY SMT DEF ToNet
<1>2. /\ a \in Byte /\ b \in Byte /\ c \in Byte /\ d \in Byte
      /\ a \in Int /\ b \in Int /\ c \in Int /\ d \in Int
  BY SMT DEF Byte, Sizes
<1>3. n \in Nat /\ 16777216 * a + 65536 * b + 256 * c + d = n
  BY SMT DEF Sizes
<1> HIDE DEF a, b, c, d
<1>4. FromNet(<<a, b, c, d>>) = 16777216 * a + 65536 * b + 256 * c + d
  <2>1. Len(<<a, b, c, d>>) = 4
    BY SMT
  <2> QED
    BY SMT, <2>1 DEF FromNet
<1>5. <<a, b, c, d>> \in Seq(Byte) /\ Len(<<a, b, c, d>>) = 4
  BY SMT, <1>2
<1>6. FromNet(<<a, b, c, d>>) = n
  BY SMT, <1>3, <1>4
<1> QED
  BY <1>1, <1>5, <1>6

LEMMA MessageTypes ==
    ASSUME NEW m \in Messages
    PROVE  /\ m = [type |-> m.type, channel |-> m.channel, client |-> m.client, data |-> m.data]
           /\ m.type \in 0 .. 7 /\ m.channel \in Id /\ m.client \in Id
           /\ m.data \in Seq(Byte) /\ Len(m.data) \in Sizes /\ Len(m.data) \in Nat
BY MessagesAssumption

\* The bytes of a field.
Room(n, f) == IF f = Type THEN 1 ELSE IF f = Size THEN 4 ELSE IF f = Payload THEN n ELSE 2

LEMMA SevenFields ==
    ASSUME NEW f \in Fields
    PROVE  f \in {Begin, Type, Channel, Client, Size, Payload, End} /\ f \in Nat
BY DEF Fields, Begin, Type, Channel, Client, Size, Payload, End

LEMMA FieldBytes ==
    ASSUME NEW m \in Messages, NEW f \in Fields
    PROVE  Bytes(m, f) \in Seq(Byte) /\ Len(Bytes(m, f)) = Room(Len(m.data), f)
<1> USE DEF Room, Begin, Type, Channel, Client, Size, Payload, End
<1>1. /\ MagicBegin \in Id /\ MagicEnd \in Id /\ m.type \in Byte
      /\ m.channel \in Id /\ m.client \in Id /\ m.data \in Seq(Byte) /\ Len(m.data) \in Sizes
  <2>1. MagicBegin \in Id /\ MagicEnd \in Id
    BY SMT DEF MagicBegin, MagicEnd, Id
  <2>2. \A x \in 0 .. 7 : x \in Byte
    BY DEF Byte
  <2> QED
    BY MessageTypes, <2>1, <2>2
<1>2. CASE f = Begin
  BY <1>1, <1>2, ShortBytes DEF Bytes
<1>3. CASE f = Type
  BY <1>1, <1>3 DEF Bytes
<1>4. CASE f = Channel
  BY <1>1, <1>4, ShortBytes DEF Bytes
<1>5. CASE f = Client
  BY <1>1, <1>5, ShortBytes DEF Bytes
<1>6. CASE f = Size
  BY <1>1, <1>6, LongBytes DEF Bytes
<1>7. CASE f = Payload
  BY <1>1, <1>7 DEF Bytes
<1>8. CASE f = End
  BY <1>1, <1>8, ShortBytes DEF Bytes
<1> QED
  BY <1>2, <1>3, <1>4, <1>5, <1>6, <1>7, <1>8, SevenFields

-----------------------------------------------------------------------------
(* Where the fields are.                                                   *)

LEMMA Layout ==
    ASSUME NEW n \in Nat, NEW f \in Fields
    PROVE  /\ Offset(n, f) \in Nat /\ Room(n, f) \in Nat /\ Length(n) \in Nat
           /\ (f # Payload \/ n > 0) => Room(n, f) > 0
           /\ f # End => /\ Following(f, n) \in Fields /\ Following(f, n) > f
                         /\ Offset(n, Following(f, n)) = Offset(n, f) + Room(n, f)
           /\ Offset(n, f) + Room(n, f) <= Length(n)
           /\ f = End => Offset(n, f) + Room(n, f) = Length(n)
<1> USE DEF Fields, Room, Offset, Length, Following, Begin, Type, Channel, Client, Size, Payload, End
<1>1. CASE f = Begin
  BY <1>1
<1>2. CASE f = Type
  BY <1>2
<1>3. CASE f = Channel
  BY <1>3
<1>4. CASE f = Client
  BY <1>4
<1>5. CASE f = Size
  BY <1>5
<1>6. CASE f = Payload
  BY <1>6
<1>7. CASE f = End
  BY <1>7
<1> QED
  BY <1>1, <1>2, <1>3, <1>4, <1>5, <1>6, <1>7, SevenFields

\* A field ends before the next one begins.
LEMMA FieldsApart ==
    ASSUME NEW n \in Nat, NEW f \in Fields, NEW g \in Fields, f < g
    PROVE  Offset(n, f) + Room(n, f) <= Offset(n, g)
<1> USE DEF Fields, Room, Offset, Begin, Type, Channel, Client, Size, Payload, End
<1>1. f \in 1 .. 6 /\ g \in 2 .. 7
  OBVIOUS
<1>2. CASE g = 2
  BY <1>2
<1>3. CASE g = 3
  BY <1>3
<1>4. CASE g = 4
  BY <1>4
<1>5. CASE g = 5
  BY <1>5
<1>6. CASE g = 6
  BY <1>6
<1>7. CASE g = 7
  BY <1>7
<1> QED
  BY <1>1, <1>2, <1>3, <1>4, <1>5, <1>6, <1>7

\* A message ends before the next one begins.
LEMMA StartsApart ==
    ASSUME sent \in Seq(Messages), NEW start, Starts(start),
           NEW k \in 1 .. Len(sent), NEW l \in 1 .. Len(sent) + 1
    PROVE  /\ start[k] \in Nat /\ start[l] \in Nat /\ Len(sent[k].data) \in Nat
           /\ k < l => start[k] + Length(Len(sent[k].data)) <= start[l]
<1>1. Len(sent) \in Nat /\ sent[k] \in Messages
  OBVIOUS
<1>2. k \in 1 .. Len(sent) + 1 /\ k + 1 \in 1 .. Len(sent) + 1 /\ (k < l => k + 1 <= l)
  BY <1>1
<1>3. /\ start[k] \in Nat /\ start[l] \in Nat
      /\ start[k + 1] = start[k] + Length(Len(sent[k].data))
      /\ k + 1 <= l => start[k + 1] <= start[l]
  BY <1>2 DEF Starts
<1> QED
  BY <1>1, <1>2, <1>3, MessageTypes

\* A byte of a field is a byte of its message.
LEMMA InField ==
    ASSUME NEW m \in Messages, NEW f \in Fields, NEW i \in 1 .. Len(Bytes(m, f))
    PROVE  LET n == Len(m.data)
           IN  /\ i \in Nat /\ i >= 1 /\ n \in Nat /\ Room(n, f) \in Nat
               /\ Offset(n, f) \in Nat /\ Length(n) \in Nat
               /\ i <= Room(n, f) /\ Offset(n, f) + i <= Length(n)
<1> DEFINE n == Len(m.data)
<1>1. n \in Nat /\ Len(Bytes(m, f)) = Room(n, f)
  BY MessageTypes, FieldBytes
<1> HIDE DEF n
<1>2. /\ Offset(n, f) \in Nat /\ Room(n, f) \in Nat /\ Length(n) \in Nat
      /\ Offset(n, f) + Room(n, f) <= Length(n)
  BY <1>1, Layout
<1>3. i \in Nat /\ i >= 1 /\ i <= Room(n, f)
  BY <1>1, <1>2
<1>4. Offset(n, f) + i <= Length(n)
  BY <1>2, <1>3
<1> QED
  BY <1>1, <1>2, <1>3, <1>4 DEF n

\* The arithmetic of it: two stretches that share a byte are the same one.
LEMMA SameStretch ==
    ASSUME NEW s \in Nat, NEW t \in Nat, NEW a \in Nat, NEW b \in Nat, NEW u \in Nat, NEW v \in Nat,
           NEW i \in Nat, NEW j \in Nat, i >= 1, j >= 1, a + i <= u, b + j <= v,
           NEW k \in Nat, NEW l \in Nat, k < l => s + u <= t, l < k => t + v <= s,
           s + a + i = t + b + j
    PROVE  k = l
OBVIOUS

LEMMA SamePlace ==
    ASSUME NEW a \in Nat, NEW b \in Nat, NEW u \in Nat, NEW v \in Nat,
           NEW i \in Nat, NEW j \in Nat, i >= 1, j >= 1, i <= u, j <= v,
           NEW f \in Nat, NEW g \in Nat, f < g => a + u <= b, g < f => b + v <= a,
           a + i = b + j
    PROVE  f = g
OBVIOUS

LEMMA Cancel ==
    ASSUME NEW s \in Nat, NEW a \in Nat, NEW b \in Nat, NEW i \in Nat, NEW j \in Nat,
           s + a + i = s + b + j
    PROVE  a + i = b + j
OBVIOUS

\* A byte of the stream belongs to one message, one field and one place.
LEMMA OnePlace ==
    ASSUME sent \in Seq(Messages), NEW start, Starts(start),
           NEW k, NEW f, NEW i, NEW l, NEW g, NEW j,
           k \in 1 .. Len(sent), f \in Fields, i \in 1 .. Len(Bytes(sent[k], f)),
           l \in 1 .. Len(sent), g \in Fields, j \in 1 .. Len(Bytes(sent[l], g)),
           start[k] + Offset(Len(sent[k].data), f) + i = start[l] + Offset(Len(sent[l].data), g) + j
    PROVE  k = l /\ f = g /\ i = j
<1> DEFINE n == Len(sent[k].data)
           r == Len(sent[l].data)
<1>1. sent[k] \in Messages /\ sent[l] \in Messages /\ k \in Nat /\ l \in Nat
      /\ k \in 1 .. Len(sent) + 1 /\ l \in 1 .. Len(sent) + 1
  <2>1. Len(sent) \in Nat
    OBVIOUS
  <2> QED
    BY <2>1
<1>2. /\ i \in Nat /\ i >= 1 /\ n \in Nat /\ Room(n, f) \in Nat
      /\ Offset(n, f) \in Nat /\ Length(n) \in Nat
      /\ i <= Room(n, f) /\ Offset(n, f) + i <= Length(n)
  BY <1>1, InField
<1>3. /\ j \in Nat /\ j >= 1 /\ r \in Nat /\ Room(r, g) \in Nat
      /\ Offset(r, g) \in Nat /\ Length(r) \in Nat
      /\ j <= Room(r, g) /\ Offset(r, g) + j <= Length(r)
  BY <1>1, InField
<1>4. /\ start[k] \in Nat /\ start[l] \in Nat
      /\ k < l => start[k] + Length(n) <= start[l]
      /\ l < k => start[l] + Length(r) <= start[k]
  BY <1>1, StartsApart
<1>5. start[k] + Offset(n, f) + i = start[l] + Offset(r, g) + j
  OBVIOUS
<1> HIDE DEF n, r
<1>6. k = l
  <2> DEFINE p == start[k]
             q == start[l]
             a == Offset(n, f)
             b == Offset(r, g)
             u == Length(n)
             v == Length(r)
  <2>1. /\ p \in Nat /\ q \in Nat /\ a \in Nat /\ b \in Nat /\ u \in Nat /\ v \in Nat
        /\ i \in Nat /\ j \in Nat /\ i >= 1 /\ j >= 1 /\ a + i <= u /\ b + j <= v
        /\ k \in Nat /\ l \in Nat /\ (k < l => p + u <= q) /\ (l < k => q + v <= p)
        /\ p + a + i = q + b + j
    BY <1>1, <1>2, <1>3, <1>4, <1>5
  <2> HIDE DEF p, q, a, b, u, v
  <2> QED
    BY ONLY <2>1, SameStretch
<1>7. n = r
  BY <1>6 DEF n, r
<1>8. /\ j \in Nat /\ j >= 1 /\ Room(n, g) \in Nat /\ Offset(n, g) \in Nat /\ j <= Room(n, g)
      /\ Offset(n, f) + i = Offset(n, g) + j
  <2>1. j \in Nat /\ j >= 1 /\ Room(n, g) \in Nat /\ Offset(n, g) \in Nat /\ j <= Room(n, g)
    BY ONLY <1>3, <1>7
  <2>2. start[k] + Offset(n, f) + i = start[k] + Offset(n, g) + j
    BY ONLY <1>5, <1>6, <1>7
  <2>3. i \in Nat /\ Offset(n, f) \in Nat /\ start[k] \in Nat
    BY ONLY <1>2, <1>4
  <2>4. Offset(n, f) + i = Offset(n, g) + j
    BY ONLY <2>1, <2>2, <2>3, Cancel
  <2> QED
    BY ONLY <2>1, <2>4
<1>9. f = g
  <2>1. f < g => Offset(n, f) + Room(n, f) <= Offset(n, g)
    BY <1>2, FieldsApart
  <2>2. g < f => Offset(n, g) + Room(n, g) <= Offset(n, f)
    BY <1>2, FieldsApart
  <2>3. f \in Nat /\ g \in Nat
    BY SevenFields
  <2> QED
    BY ONLY <1>2, <1>8, <2>1, <2>2, <2>3, SamePlace
<1> QED
  <2>1. Offset(n, f) + i = Offset(n, f) + j
    BY ONLY <1>8, <1>9
  <2>2. i = j
    BY ONLY <1>2, <1>8, <2>1
  <2> QED
    BY ONLY <1>6, <1>9, <2>2

-----------------------------------------------------------------------------
(* Reading.                                                                *)

\* What is in the socket belongs to a message that was sent, and the reader
\* knows what of it the next field needs.
LEMMA AtMessage ==
    ASSUME TypeOK, NEW start, Starts(start), InStep(start), rfield # 0, socket # <<>>
    PROVE  /\ Reading \in 1 .. Len(sent) /\ sent[Reading] \in Messages
           /\ Has(sent[Reading])
           /\ Width(rfield) = Len(Bytes(sent[Reading], rfield))
           /\ Offset(msg.size, rfield) = Offset(Len(sent[Reading].data), rfield)
<1>1. /\ Len(sent) \in Nat /\ Reading \in 1 .. Len(sent) + 1 /\ Len(got) \in Nat
      /\ Len(socket) \in Nat /\ Len(socket) >= 1 /\ msg.size \in Nat /\ rfield \in Fields
  BY DEF TypeOK, Reading
<1>2. Reading # Len(sent) + 1
  <2>1. SUFFICES ASSUME Reading = Len(sent) + 1 PROVE FALSE
    OBVIOUS
  <2>2. start[Reading] \in Nat /\ Offset(msg.size, rfield) \in Nat
    BY <1>1, Layout DEF Starts
  <2>3. start[Reading] + Offset(msg.size, rfield) + Len(got) + Len(socket) <= start[Reading]
    BY <2>1 DEF InStep, InSocket, ReadPos
  <2> QED
    BY ONLY <1>1, <2>2, <2>3
<1>3. Reading \in 1 .. Len(sent) /\ sent[Reading] \in Messages /\ Has(sent[Reading])
  <2>1. Reading \in 1 .. Len(sent)
    BY <1>1, <1>2
  <2> QED
    BY <2>1 DEF TypeOK, InStep
<1>4. /\ rfield = Payload \/ rfield = End => msg.size = Len(sent[Reading].data)
      /\ Len(Bytes(sent[Reading], rfield)) = Room(Len(sent[Reading].data), rfield)
  BY <1>1, <1>3, FieldBytes DEF Has, Size, Payload, End
<1>5. Width(rfield) = Room(Len(sent[Reading].data), rfield)
  BY <1>1, <1>4, SevenFields
     DEF Width, Room, Begin, Type, Channel, Client, Size, Payload, End
<1>6. Offset(msg.size, rfield) = Offset(Len(sent[Reading].data), rfield)
  BY <1>1, <1>4, SevenFields
     DEF Offset, Begin, Type, Channel, Client, Size, Payload, End
<1> QED
  BY <1>3, <1>4, <1>5, <1>6

\* What is read of a field is what was written of it.
LEMMA ReadBytes ==
    ASSUME TypeOK, NEW start, Starts(start), InStep(start), rfield # 0,
           NEW n, n \in 1 .. Len(socket), Len(got) + n <= Width(rfield)
    PROVE  LET b == got \o SubSeq(socket, 1, n)
           IN  /\ b \in Seq(Byte) /\ Len(b) = Len(got) + n
               /\ \A j \in 1 .. Len(b) : b[j] = Bytes(sent[Reading], rfield)[j]
<1> DEFINE b == got \o SubSeq(socket, 1, n)
           m == sent[Reading]
<1>0. got \in Seq(Byte) /\ socket \in Seq(Byte) /\ Len(got) \in Nat /\ n \in Nat /\ rfield \in Fields
  BY DEF TypeOK
<1>1. /\ SubSeq(socket, 1, n) \in Seq(Byte) /\ Len(SubSeq(socket, 1, n)) = n
      /\ \A i \in 1 .. n : SubSeq(socket, 1, n)[i] = socket[i]
  BY <1>0
<1>2. /\ b \in Seq(Byte) /\ Len(b) = Len(got) + n
      /\ \A j \in 1 .. Len(b) : b[j] = IF j <= Len(got) THEN got[j] ELSE socket[j - Len(got)]
  BY <1>0, <1>1
<1>3. socket # <<>>
  BY <1>0
<1>4. /\ Reading \in 1 .. Len(sent) /\ m \in Messages /\ Has(m)
      /\ Width(rfield) = Len(Bytes(m, rfield))
      /\ Offset(msg.size, rfield) = Offset(Len(m.data), rfield)
  BY <1>3, AtMessage
<1> HIDE DEF m, b
<1>5. ASSUME NEW j, j \in 1 .. Len(b) PROVE b[j] = Bytes(m, rfield)[j]
  <2>1. j \in Nat /\ j >= 1 /\ j <= Len(got) + n /\ j \in 1 .. Len(Bytes(m, rfield))
    <3>1. j \in Nat /\ j >= 1 /\ j <= Len(got) + n
      BY <1>0, <1>2, <1>5
    <3>2. Len(Bytes(m, rfield)) \in Nat
      BY <1>0, <1>4, FieldBytes, Layout, MessageTypes
    <3> QED
      BY <1>0, <1>4, <3>1, <3>2
  <2>2. CASE j <= Len(got)
    BY <1>0, <1>2, <1>4, <1>5, <2>1, <2>2 DEF Has
  <2>3. CASE j > Len(got)
    <3> DEFINE i == j - Len(got)
    <3>1. i \in 1 .. Len(socket) /\ b[j] = socket[i]
      BY <1>0, <1>2, <1>5, <2>1, <2>3
    <3>2. ReadPos(start) + i = start[Reading] + Offset(Len(m.data), rfield) + j
      <4>1. start[Reading] \in Nat /\ Offset(Len(m.data), rfield) \in Nat
        <5>1. start[Reading] \in Nat
          BY <1>4, StartsApart DEF TypeOK
        <5>2. Len(m.data) \in Nat
          BY <1>4, MessageTypes
        <5> QED
          BY <1>0, <5>1, <5>2, Layout
      <4> QED
        BY <1>0, <1>4, <2>1, <4>1 DEF ReadPos
    <3> HIDE DEF i
    <3>3. socket[i] = Bytes(m, rfield)[j]
      BY <1>0, <1>4, <2>1, <3>1, <3>2 DEF InStep, InSocket, m
    <3> QED
      BY <3>1, <3>3
  <2> QED
    BY <1>0, <2>1, <2>2, <2>3
<1> QED
  BY <1>2, <1>5 DEF b, m

\* What is left in the socket is what comes next.
LEMMA TakenFromSocket ==
    ASSUME TypeOK, NEW start, Starts(start), InSocket(start), rfield # 0,
           Reading \in 1 .. Len(sent) + 1,
           NEW n, n \in 1 .. Len(socket), socket' = SubSeq(socket, n + 1, Len(socket)),
           UNCHANGED <<writer, up>>, ReadPos(start)' = ReadPos(start) + n
    PROVE  InSocket(start)'
<1>1. /\ socket' \in Seq(Byte) /\ Len(socket') = Len(socket) - n
      /\ n \in Nat /\ Len(socket) \in Nat /\ n <= Len(socket)
      /\ \A i \in 1 .. Len(socket') : n + i \in 1 .. Len(socket) /\ socket'[i] = socket[n + i]
  <2>1. socket \in Seq(Byte) /\ Len(socket) \in Nat /\ n \in Nat /\ n <= Len(socket)
    BY DEF TypeOK
  <2>2. SubSeq(socket, n + 1, Len(socket)) \in Seq(Byte)
        /\ Len(SubSeq(socket, n + 1, Len(socket))) = Len(socket) - n
    BY <2>1
  <2>3. \A i \in 1 .. Len(socket) - n : SubSeq(socket, n + 1, Len(socket))[i] = socket[n + i]
    BY <2>1
  <2> QED
    BY <2>1, <2>2, <2>3
<1>2. ReadPos(start) \in Nat
  <2>1. start[Reading] \in Nat
    BY DEF Starts
  <2>2. Offset(msg.size, rfield) \in Nat /\ Len(got) \in Nat
    BY Layout DEF TypeOK
  <2> QED
    BY <2>1, <2>2 DEF ReadPos
<1>3. ReadPos(start)' + Len(socket') = ReadPos(start) + Len(socket)
  BY <1>1, <1>2
<1>4. WritePos(start)' = WritePos(start) /\ sent' = sent /\ up' = up
  BY DEF WritePos, writer, Sending
<1>5. ASSUME NEW k \in 1 .. Len(sent'), NEW f \in Fields, NEW i \in 1 .. Len(socket'),
             NEW j \in 1 .. Len(Bytes(sent'[k], f)),
             ReadPos(start)' + i = start[k] + Offset(Len(sent'[k].data), f) + j
      PROVE  socket'[i] = Bytes(sent'[k], f)[j]
  <2>0. sent' = sent
    BY <1>4
  <2>1. ReadPos(start) + (n + i) = ReadPos(start)' + i
    BY <1>1, <1>2
  <2>2. n + i \in 1 .. Len(socket) /\ socket'[i] = socket[n + i]
    BY <1>1
  <2>3. k \in 1 .. Len(sent) /\ j \in 1 .. Len(Bytes(sent[k], f))
    BY <2>0
  <2>4. ReadPos(start) + (n + i) = start[k] + Offset(Len(sent[k].data), f) + j
    BY <1>5, <2>0, <2>1
  <2>5. socket[n + i] = Bytes(sent[k], f)[j]
    BY <2>2, <2>3, <2>4, Zenon DEF InSocket
  <2> QED
    BY <2>0, <2>2, <2>5
<1>6. ReadPos(start)' + Len(socket') <= start[Len(sent') + 1]
  BY <1>3, <1>4 DEF InSocket
<1>7. up' => ReadPos(start)' + Len(socket') = WritePos(start)'
  BY <1>3, <1>4 DEF InSocket
<1> QED
  BY <1>5, <1>6, <1>7, Zenon DEF InSocket

\* What the field bytes decode to.
LEMMA Decoded ==
    ASSUME NEW m \in Messages
    PROVE  /\ FromNet(Bytes(m, Begin)) = MagicBegin
           /\ Bytes(m, Type)[1] = m.type
           /\ FromNet(Bytes(m, Channel)) = m.channel
           /\ FromNet(Bytes(m, Client)) = m.client
           /\ FromNet(Bytes(m, Size)) = Len(m.data)
           /\ Bytes(m, Payload) = m.data
           /\ FromNet(Bytes(m, End)) = MagicEnd
<1>1. MagicBegin \in Id /\ MagicEnd \in Id
  BY SMT DEF MagicBegin, MagicEnd, Id
<1>2. m.channel \in Id /\ m.client \in Id /\ Len(m.data) \in Sizes
  BY MessageTypes
<1>3. /\ Bytes(m, Begin) = ToNet(MagicBegin, 2)
      /\ Bytes(m, Type) = <<m.type>>
      /\ Bytes(m, Channel) = ToNet(m.channel, 2)
      /\ Bytes(m, Client) = ToNet(m.client, 2)
      /\ Bytes(m, Size) = ToNet(Len(m.data), 4)
      /\ Bytes(m, Payload) = m.data
      /\ Bytes(m, End) = ToNet(MagicEnd, 2)
  BY DEF Bytes, Begin, Type, Channel, Client, Size, Payload, End
<1> QED
  BY <1>1, <1>2, <1>3, ShortBytes, LongBytes

\* msg_read gets the whole field as it was written, and accepts it.
LEMMA ReadsField ==
    ASSUME TypeOK, NEW start, Starts(start), GoesOn => InStep(start), ReadField
    PROVE  /\ GoesOn /\ rfield \in Fields
           /\ Reading \in 1 .. Len(sent) /\ sent[Reading] \in Messages
           /\ Has(sent[Reading])
           /\ Offset(msg.size, rfield) = Offset(Len(sent[Reading].data), rfield)
           /\ \E n : /\ n \in 1 .. Len(socket)
                     /\ Len(got) + n = Len(Bytes(sent[Reading], rfield))
                     /\ socket' = SubSeq(socket, n + 1, Len(socket))
           /\ msg' = Store(rfield, Bytes(sent[Reading], rfield))
           /\ rfield' = RfieldAfter(rfield, msg'.size)
           /\ delivered' = IF rfield = End THEN Append(delivered, Received) ELSE delivered
           /\ got' = <<>> /\ UNCHANGED <<writer, up, noMemory>>
<1> DEFINE n == Width(rfield) - Len(got)
           b == got \o SubSeq(socket, 1, n)
           m == sent[Reading]
<1>1. /\ rfield # 0 /\ Len(socket) >= n
      /\ socket' = SubSeq(socket, n + 1, Len(socket))
      /\ msg' = Store(rfield, b)
      /\ rfield' = IF Accepts(rfield, b) THEN RfieldAfter(rfield, msg'.size) ELSE 0
      /\ delivered' = IF rfield = End /\ Accepts(rfield, b)
                      THEN Append(delivered, Received) ELSE delivered
      /\ got' = <<>> /\ UNCHANGED <<writer, up, noMemory>>
  BY DEF ReadField
<1>2. /\ Len(got) \in Nat /\ Len(socket) \in Nat /\ Width(rfield) \in Nat
      /\ Len(got) < Width(rfield) /\ rfield \in Fields /\ got \in Seq(Byte)
  <2>1. rfield \in Fields /\ msg.size \in Nat
    BY <1>1 DEF TypeOK
  <2>2. Width(rfield) \in Nat
    BY <2>1, SevenFields DEF Width, Begin, Type, Channel, Client, Size, Payload, End
  <2> QED
    BY <1>1, <2>1, <2>2 DEF TypeOK
<1>3. n \in 1 .. Len(socket) /\ Len(got) + n = Width(rfield)
  <2>1. n \in Nat /\ n >= 1 /\ Len(got) + n = Width(rfield)
    BY ONLY <1>2
  <2>2. Len(socket) >= n
    BY <1>1
  <2> HIDE DEF n
  <2> QED
    BY ONLY <1>2, <2>1, <2>2
<1>4. socket # <<>> /\ GoesOn
  BY <1>1, <1>3 DEF GoesOn, TypeOK
<1>5. InStep(start)
  BY <1>4
<1> HIDE DEF n, b, m
<1>6. /\ Reading \in 1 .. Len(sent) /\ m \in Messages /\ Has(m)
      /\ Width(rfield) = Len(Bytes(m, rfield))
      /\ Offset(msg.size, rfield) = Offset(Len(m.data), rfield)
  BY <1>1, <1>4, <1>5, AtMessage DEF m
<1>7. /\ b \in Seq(Byte) /\ Len(b) = Len(got) + n
      /\ \A j \in 1 .. Len(b) : b[j] = Bytes(m, rfield)[j]
  <2>1. Len(got) + n <= Width(rfield)
    BY <1>2, <1>3
  <2> QED
    BY <1>1, <1>3, <1>5, <2>1, ReadBytes DEF b, m
<1>8. b = Bytes(m, rfield)
  <2>1. Bytes(m, rfield) \in Seq(Byte) /\ Len(b) = Len(Bytes(m, rfield))
    BY <1>2, <1>3, <1>6, <1>7, FieldBytes
  <2> QED
    BY <1>7, <2>1
<1>9. Accepts(rfield, b)
  <2>1. m.type \in 0 .. 7
    BY <1>6, MessageTypes
  <2> QED
    BY <1>2, <1>6, <1>8, <2>1, Decoded, SevenFields
       DEF Accepts, Begin, Type, Channel, Client, Size, Payload, End
<1> QED
  BY <1>1, <1>2, <1>3, <1>4, <1>6, <1>8, <1>9 DEF m

\* How each field is stored.
LEMMA Stored ==
    ASSUME TypeOK, NEW m \in Messages, rfield \in Fields, Has(m),
           NEW r, r = Store(rfield, Bytes(m, rfield))
    PROVE  /\ r \in [type : Byte, channel : Id, client : Id, size : Nat, data : Seq(Byte)]
           /\ rfield >= Type => r.type = m.type
           /\ rfield >= Channel => r.channel = m.channel
           /\ rfield >= Client => r.client = m.client
           /\ rfield >= Size => r.size = Len(m.data)
           /\ rfield >= Payload => r.data = m.data
           /\ rfield = Size /\ Len(m.data) = 0 => r.data = m.data
           /\ rfield = End => r = msg
<1> USE DEF Begin, Type, Channel, Client, Size, Payload, End
<1>1. /\ msg \in [type : Byte, channel : Id, client : Id, size : Nat, data : Seq(Byte)]
      /\ rfield \in 1 .. 7
  BY DEF TypeOK, Fields
<1>2. /\ m.type \in Byte /\ m.channel \in Id /\ m.client \in Id /\ m.data \in Seq(Byte)
      /\ Len(m.data) \in Nat /\ (Len(m.data) = 0 => m.data = <<>>)
  <2>1. m.type \in 0 .. 7 => m.type \in Byte
    BY DEF Byte
  <2> QED
    BY <2>1, MessageTypes
<1>3. CASE rfield = Begin
  <2>1. r = msg
    BY <1>3 DEF Store
  <2> QED
    BY <1>1, <1>3, <2>1
<1>4. CASE rfield = Type
  <2>1. r = [msg EXCEPT !.type = m.type]
    BY <1>4, Decoded DEF Store
  <2> QED
    BY <1>1, <1>2, <1>4, <2>1
<1>5. CASE rfield = Channel
  <2>1. r = [msg EXCEPT !.channel = m.channel]
    BY <1>5, Decoded DEF Store
  <2> QED
    BY <1>1, <1>2, <1>5, <2>1 DEF Has
<1>6. CASE rfield = Client
  <2>1. r = [msg EXCEPT !.client = m.client]
    BY <1>6, Decoded DEF Store
  <2> QED
    BY <1>1, <1>2, <1>6, <2>1 DEF Has
<1>7. CASE rfield = Size
  <2>1. FromNet(Bytes(m, Size)) = Len(m.data)
    BY Decoded
  <2>2. Store(Size, Bytes(m, Size))
            = [msg EXCEPT !.size = FromNet(Bytes(m, Size)), !.data = <<>>]
    BY DEF Store
  <2>3. r = [msg EXCEPT !.size = Len(m.data), !.data = <<>>]
    BY <1>7, <2>1, <2>2
  <2> DEFINE q == [msg EXCEPT !.size = Len(m.data)]
  <2>q. q \in [type : Byte, channel : Id, client : Id, size : Nat, data : Seq(Byte)]
        /\ q.type = msg.type /\ q.channel = msg.channel /\ q.client = msg.client
        /\ q.size = Len(m.data)
    BY <1>1, <1>2
  <2>r. r = [q EXCEPT !.data = <<>>]
    BY <2>3
  <2>4. /\ r \in [type : Byte, channel : Id, client : Id, size : Nat, data : Seq(Byte)]
        /\ r.type = msg.type /\ r.channel = msg.channel /\ r.client = msg.client
        /\ r.size = Len(m.data) /\ r.data = <<>>
    <3> HIDE DEF q
    <3>1. <<>> \in Seq(Byte)
      OBVIOUS
    <3> QED
      BY <2>q, <2>r, <3>1
  <2>5. msg.type = m.type /\ msg.channel = m.channel /\ msg.client = m.client
    BY <1>7 DEF Has
  <2> QED
    BY <1>2, <1>7, <2>4, <2>5
<1>8. CASE rfield = Payload
  <2>1. r = [msg EXCEPT !.data = m.data]
    BY <1>8, Decoded DEF Store
  <2> QED
    BY <1>1, <1>2, <1>8, <2>1 DEF Has
<1>9. CASE rfield = End
  <2>1. r = msg
    BY <1>9 DEF Store
  <2> QED
    BY <1>1, <1>9, <2>1 DEF Has
<1> QED
  BY <1>1, <1>3, <1>4, <1>5, <1>6, <1>7, <1>8, <1>9

\* After a field the reader is where the next one begins.
LEMMA NextField ==
    ASSUME TypeOK, NEW start, Starts(start), GoesOn => InStep(start), ReadField
    PROVE  /\ rfield' \in Fields /\ Reading' \in 1 .. Len(sent) + 1
           /\ Width(rfield)' > 0 /\ Width(rfield)' \in Nat
           /\ ReadPos(start)' = start[Reading] + Offset(Len(sent[Reading].data), rfield)
                                    + Len(Bytes(sent[Reading], rfield))
           /\ Reading' <= Len(sent') => Has(sent[Reading])'
           /\ delivered' = IF rfield = End THEN Append(delivered, sent[Reading]) ELSE delivered
<1> DEFINE m == sent[Reading]
           s == Len(m.data)
<1>1. /\ rfield \in Fields /\ Reading \in 1 .. Len(sent) /\ m \in Messages /\ Has(m)
      /\ msg' = Store(rfield, Bytes(m, rfield))
      /\ rfield' = RfieldAfter(rfield, msg'.size)
      /\ delivered' = IF rfield = End THEN Append(delivered, Received) ELSE delivered
      /\ got' = <<>> /\ sent' = sent
      /\ \E n : n \in 1 .. Len(socket) /\ Len(got) + n = Len(Bytes(m, rfield))
  BY ReadsField DEF writer
<1>2. /\ s \in Nat /\ Len(Bytes(m, rfield)) = Room(s, rfield) /\ Room(s, rfield) \in Nat
      /\ Offset(s, rfield) \in Nat /\ Len(sent) \in Nat /\ Len(delivered) \in Nat
      /\ delivered \in Seq(Messages) /\ Len(got') = 0
  <2>1. s \in Nat
    BY <1>1, MessageTypes
  <2>2. Len(Bytes(m, rfield)) = Room(s, rfield)
    BY <1>1, FieldBytes
  <2> HIDE DEF m, s
  <2>3. Room(s, rfield) \in Nat /\ Offset(s, rfield) \in Nat
    BY <1>1, <2>1, Layout
  <2>4. Len(got') = 0
    BY <1>1
  <2>5. Len(sent) \in Nat /\ Len(delivered) \in Nat /\ delivered \in Seq(Messages)
    BY DEF TypeOK
  <2> QED
    BY <2>1, <2>2, <2>3, <2>4, <2>5
<1>3. Room(s, rfield) > 0
  BY <1>1, <1>2 DEF TypeOK
<1> HIDE DEF m, s
<1>4. /\ msg' \in [type : Byte, channel : Id, client : Id, size : Nat, data : Seq(Byte)]
      /\ rfield >= Type => msg'.type = m.type
      /\ rfield >= Channel => msg'.channel = m.channel
      /\ rfield >= Client => msg'.client = m.client
      /\ rfield >= Size => msg'.size = s
      /\ rfield >= Payload => msg'.data = m.data
      /\ rfield = Size /\ s = 0 => msg'.data = m.data
      /\ rfield = End => msg' = msg
  BY <1>1, Stored DEF s
<1>5. CASE rfield = End
  <2>1. rfield' = Begin
    BY <1>1, <1>5 DEF RfieldAfter
  <2>2. Received = m
    <3>1. /\ msg.type = m.type /\ msg.channel = m.channel /\ msg.client = m.client
          /\ msg.data = m.data
      BY <1>1, <1>5 DEF Has, End, Type, Channel, Client, Size, Payload
    <3> QED
      BY <1>1, <3>1, MessageTypes DEF Received
  <2>3. delivered' = Append(delivered, m)
    BY <1>1, <1>5, <2>2
  <2>4. Reading' = Reading + 1 /\ Reading' \in 1 .. Len(sent) + 1 /\ Reading \in Nat
    BY <1>1, <1>2, <2>3 DEF Reading
  <2>5. start[Reading + 1] = start[Reading] + Length(s) /\ start[Reading] \in Nat
        /\ Length(s) = Offset(s, rfield) + Room(s, rfield) /\ start[Reading + 1] \in Nat
    <3>1. Length(s) = Offset(s, rfield) + Room(s, rfield)
      BY <1>1, <1>2, <1>5, Layout
    <3>2. start[Reading + 1] = start[Reading] + Length(s)
      BY <1>1 DEF Starts, m, s
    <3>3. Reading \in 1 .. Len(sent) + 1 /\ Reading + 1 \in 1 .. Len(sent) + 1
      BY <1>1, <1>2
    <3> QED
      BY <3>1, <3>2, <3>3 DEF Starts
  <2>6. Offset(msg'.size, rfield') = 0 /\ Width(rfield)' = 2
    <3> USE DEF Begin, Type, Channel, Client, Size, Payload, End
    <3>1. Offset(msg'.size, Begin) = 0
      BY DEF Offset
    <3>2. Width(rfield)' = 2
      BY <2>1 DEF Width
    <3> QED
      BY <2>1, <3>1, <3>2
  <2>7. ReadPos(start)' = start[Reading + 1] + 0 + 0
    BY ONLY <1>2, <2>4, <2>6 DEF ReadPos
  <2>8. ReadPos(start)' = start[Reading] + Offset(s, rfield) + Room(s, rfield)
    BY ONLY <1>2, <2>5, <2>7
  <2>9. Has(sent[Reading])'
    BY <1>1, <2>1 DEF Has, Begin, Type, Channel, Client, Size, Payload, End
  <2> QED
    BY <1>1, <1>2, <1>5, <2>1, <2>3, <2>4, <2>6, <2>8, <2>9 DEF Fields, Begin, End, m, s
<1>6. CASE rfield # End
  <2>1. delivered' = delivered /\ Reading' = Reading /\ Reading \in Nat
    BY <1>1, <1>6 DEF Reading
  <2>2. rfield' = Following(rfield, s)
    BY <1>1, <1>4, <1>6 DEF RfieldAfter, Following, Size, End, Fields, Begin
  <2>3. /\ rfield' \in Fields /\ rfield' > rfield
        /\ Offset(s, rfield') = Offset(s, rfield) + Room(s, rfield)
    BY <1>1, <1>2, <1>6, <2>2, Layout
  <2>4. rfield' > Size => msg'.size = s
    BY <1>1, <1>4, <2>2, <2>3, SevenFields
       DEF Following, Begin, Type, Channel, Client, Size, Payload, End
  <2>5. Offset(msg'.size, rfield') = Offset(s, rfield')
    BY <2>3, <2>4, SevenFields
       DEF Offset, Begin, Type, Channel, Client, Size, Payload, End
  <2>6. rfield' = Payload => msg'.size = s /\ s > 0
    BY <1>1, <1>2, <2>2, <2>3, <2>4, SevenFields
       DEF Following, Begin, Type, Channel, Client, Size, Payload, End
  <2>7. Width(rfield)' > 0 /\ Width(rfield)' \in Nat
    BY <1>2, <2>3, <2>6, SevenFields
       DEF Width, Begin, Type, Channel, Client, Size, Payload, End
  <2>8. start[Reading] \in Nat
    BY <1>1, <1>2 DEF Starts
  <2>9. ReadPos(start)' = start[Reading] + Offset(s, rfield) + Room(s, rfield)
    <3>1. ReadPos(start)' = start[Reading] + Offset(s, rfield') + 0
      BY <1>2, <2>1, <2>5 DEF ReadPos
    <3> QED
      BY ONLY <1>2, <2>3, <2>8, <3>1
  <2>10. Has(m)'
    BY <1>1, <1>4, <2>1, <2>2, <2>3, <2>4, <2>6
       DEF Has, Following, Fields, Begin, Type, Channel, Client, Size, Payload, End, m, s
  <2> QED
    BY <1>1, <1>2, <1>6, <2>1, <2>3, <2>7, <2>9, <2>10 DEF m, s
<1> QED
  BY <1>5, <1>6

-----------------------------------------------------------------------------
(* The steps.                                                              *)

LEMMA WriterStays ==
    ASSUME TypeOK, UNCHANGED writer
    PROVE  /\ sent' \in Seq(Messages) /\ Len(sent') <= MaxSent
           /\ wfield' \in Fields \cup {0} /\ written' \in Nat
           /\ wfield' = 0 => written' = 0
           /\ wfield' # 0 => sent' # <<>> /\ written' < Len(Bytes(Sending, wfield))'
BY DEF TypeOK, writer, Sending

LEMMA Shorter ==
    ASSUME TypeOK, NEW n, n \in 1 .. Len(socket)
    PROVE  /\ SubSeq(socket, n + 1, Len(socket)) \in Seq(Byte)
           /\ Len(SubSeq(socket, n + 1, Len(socket))) <= Capacity
<1>1. socket \in Seq(Byte) /\ Len(socket) \in Nat /\ n \in Nat /\ n >= 1 /\ n <= Len(socket)
      /\ Len(socket) <= Capacity /\ Capacity \in Nat
  BY CapacityAssumption DEF TypeOK
<1>2. Len(SubSeq(socket, n + 1, Len(socket))) = Len(socket) - n
  BY <1>1
<1>3. Len(socket) - n <= Capacity
  BY <1>1
<1> QED
  BY <1>1, <1>2, <1>3

LEMMA ReadFieldKeeps ==
    ASSUME TypeOK, NEW start, Starts(start), GoesOn => InStep(start), ReadField
    PROVE  TypeOK' /\ Framed' /\ Starts(start)' /\ InStep(start)'
<1> DEFINE m == sent[Reading]
<1>1. /\ GoesOn /\ rfield \in Fields /\ Reading \in 1 .. Len(sent) /\ m \in Messages
      /\ Offset(msg.size, rfield) = Offset(Len(m.data), rfield)
      /\ \E n : /\ n \in 1 .. Len(socket)
                /\ Len(got) + n = Len(Bytes(m, rfield))
                /\ socket' = SubSeq(socket, n + 1, Len(socket))
      /\ msg' = Store(rfield, Bytes(m, rfield)) /\ Has(m)
      /\ got' = <<>> /\ UNCHANGED <<writer, up, noMemory>>
  BY ReadsField
<1>2. /\ rfield' \in Fields /\ Reading' \in 1 .. Len(sent) + 1
      /\ Width(rfield)' > 0 /\ Width(rfield)' \in Nat
      /\ ReadPos(start)' = start[Reading] + Offset(Len(m.data), rfield) + Len(Bytes(m, rfield))
      /\ Reading' <= Len(sent') => Has(sent[Reading])'
      /\ delivered' = IF rfield = End THEN Append(delivered, m) ELSE delivered
  BY NextField
<1> HIDE DEF m
<1>3. PICK n : /\ n \in 1 .. Len(socket)
               /\ Len(got) + n = Len(Bytes(m, rfield))
               /\ socket' = SubSeq(socket, n + 1, Len(socket))
  BY <1>1
<1>4. TypeOK'
  <2>1. msg' \in [type : Byte, channel : Id, client : Id, size : Nat, data : Seq(Byte)]
    BY <1>1, Stored
  <2>2. socket' \in Seq(Byte) /\ Len(socket') <= Capacity
    BY <1>3, Shorter
  <2>3. delivered' \in Seq(Messages) /\ Len(delivered') <= Len(sent')
    <3>1. delivered \in Seq(Messages) /\ Len(sent) \in Nat /\ Len(delivered) \in Nat
          /\ Len(delivered) + 1 <= Len(sent) /\ sent' = sent
      BY <1>1 DEF TypeOK, Reading, writer
    <3> QED
      BY <1>1, <1>2, <3>1
  <2>4. got' \in Seq(Byte) /\ Len(got') < Width(rfield)'
    BY <1>1, <1>2
  <2>5. up' \in BOOLEAN /\ noMemory' \in BOOLEAN
    BY <1>1 DEF TypeOK
  <2> QED
    BY <1>1, <1>2, <2>1, <2>2, <2>3, <2>4, <2>5, WriterStays DEF TypeOK
<1>5. Framed' /\ Starts(start)'
  <2>1. rfield' # 0 /\ sent' = sent
    BY <1>1, <1>2 DEF writer, Fields, Begin, End
  <2> QED
    BY <2>1 DEF Framed, Starts
<1>6. InSocket(start)'
  <2>1. /\ rfield # 0 /\ InSocket(start) /\ Reading \in 1 .. Len(sent) + 1
        /\ UNCHANGED <<writer, up>>
    <3>1. Len(sent) \in Nat
      BY DEF TypeOK
    <3> QED
      BY <1>1, <3>1 DEF GoesOn, InStep
  <2>2. ReadPos(start)' = ReadPos(start) + n
    <3>1. start[Reading] \in Nat
      BY <2>1 DEF Starts
    <3>2. Offset(Len(m.data), rfield) \in Nat
      BY <1>1, MessageTypes, Layout
    <3>3. Len(got) \in Nat /\ n \in Nat
      BY <1>3 DEF TypeOK
    <3>4. ReadPos(start) = start[Reading] + Offset(Len(m.data), rfield) + Len(got)
      BY <1>1 DEF ReadPos
    <3>5. start[Reading] + Offset(Len(m.data), rfield) + (Len(got) + n)
            = start[Reading] + Offset(Len(m.data), rfield) + Len(got) + n
      BY ONLY <3>1, <3>2, <3>3
    <3> QED
      BY <1>2, <1>3, <3>4, <3>5
  <2> QED
    BY <1>3, <2>1, <2>2, TakenFromSocket
<1> QED
  BY <1>2, <1>4, <1>5, <1>6 DEF InStep

LEMMA ReadPartKeeps ==
    ASSUME TypeOK, Framed, NEW start, Starts(start), GoesOn => InStep(start), ReadPart
    PROVE  TypeOK' /\ Framed' /\ Starts(start)' /\ InStep(start)'
<1>1. PICK n \in 1 .. Len(socket) :
        /\ Len(got) + n < Width(rfield)
        /\ got' = got \o SubSeq(socket, 1, n)
        /\ socket' = SubSeq(socket, n + 1, Len(socket))
  BY DEF ReadPart
<1>2. rfield # 0 /\ UNCHANGED <<writer, up, rfield, msg, noMemory, delivered>>
  BY DEF ReadPart
<1>3. socket # <<>> /\ InStep(start)
  BY <1>1, <1>2 DEF GoesOn, TypeOK
<1>4. /\ Reading \in 1 .. Len(sent) /\ sent[Reading] \in Messages /\ Has(sent[Reading])
      /\ Offset(msg.size, rfield) \in Nat /\ Width(rfield) \in Nat /\ Len(got) \in Nat
  <2>1. rfield \in Fields /\ msg.size \in Nat
    BY <1>2 DEF TypeOK
  <2>2. Width(rfield) \in Nat
    BY <2>1, SevenFields DEF Width, Begin, Type, Channel, Client, Size, Payload, End
  <2> QED
    BY <1>2, <1>3, <2>1, <2>2, AtMessage, Layout DEF TypeOK
<1>5. /\ got' \in Seq(Byte) /\ Len(got') = Len(got) + n
      /\ \A j \in 1 .. Len(got') : got'[j] = Bytes(sent[Reading], rfield)[j]
  <2>1. Len(got) + n <= Width(rfield)
    BY <1>1, <1>4
  <2> QED
    BY <1>1, <1>2, <1>3, <2>1, ReadBytes
<1>6. TypeOK'
  <2>1. socket' \in Seq(Byte) /\ Len(socket') <= Capacity
    BY <1>1, Shorter
  <2>2. Len(got') < Width(rfield)'
    BY <1>1, <1>2, <1>5 DEF Width
  <2> QED
    BY <1>2, <1>5, <2>1, <2>2, WriterStays DEF TypeOK, writer
<1>7. Framed' /\ Starts(start)' /\ Reading' = Reading
  BY <1>2 DEF Framed, Starts, writer, Reading
<1>8. InSocket(start)'
  <2>1. ReadPos(start)' = ReadPos(start) + n
    <3>1. start[Reading] \in Nat
      BY <1>4, StartsApart DEF TypeOK
    <3>2. ReadPos(start)' = start[Reading] + Offset(msg.size, rfield) + (Len(got) + n)
      BY <1>2, <1>5, <1>7 DEF ReadPos
    <3>3. n \in Nat
      BY <1>1
    <3>4. start[Reading] + Offset(msg.size, rfield) + (Len(got) + n)
            = start[Reading] + Offset(msg.size, rfield) + Len(got) + n
      BY ONLY <1>4, <3>1, <3>3
    <3> QED
      BY <3>2, <3>4 DEF ReadPos
  <2>2. Reading \in 1 .. Len(sent) + 1
    BY <1>4 DEF TypeOK
  <2> QED
    BY <1>1, <1>2, <1>3, <2>1, <2>2, TakenFromSocket DEF InStep
<1>9. Has(sent[Reading])'
  BY <1>2, <1>4, <1>5, <1>7 DEF Has, writer
<1> QED
  BY <1>6, <1>7, <1>8, <1>9 DEF InStep

\* What a write appends: the bytes of the field from the one after written on.
LEMMA Wrote ==
    ASSUME NEW s, NEW b, s \in Seq(Byte), b \in Seq(Byte),
           NEW w, NEW n, w \in Nat, n \in w + 1 .. Len(b),
           NEW r, r = s \o SubSeq(b, w + 1, n)
    PROVE  /\ r \in Seq(Byte) /\ Len(r) = Len(s) + (n - w)
           /\ \A i \in 1 .. Len(r) :
                /\ i <= Len(s) => r[i] = s[i]
                /\ i > Len(s) => r[i] = b[w + (i - Len(s))]
<1>1. /\ SubSeq(b, w + 1, n) \in Seq(Byte) /\ Len(SubSeq(b, w + 1, n)) = n - w
      /\ \A i \in 1 .. n - w : SubSeq(b, w + 1, n)[i] = b[w + i]
  BY SMTT(30)
<1>2. Len(s) \in Nat /\ n - w \in Nat
  OBVIOUS
<1> QED
  BY <1>1, <1>2

\* The arithmetic of it: p is where the message begins, q where it ends, o
\* where the field begins and r its size, from w to n the part that is written.
LEMMA PartWritten ==
    ASSUME NEW p \in Nat, NEW q \in Nat, NEW o \in Nat, NEW r \in Nat, NEW l \in Nat,
           NEW w \in Nat, NEW n \in Nat, n > w, n <= r, q = p + l, o + r <= l
    PROVE  /\ p + o + w \in Nat /\ p + o + n = p + o + w + (n - w) /\ p + o + n <= q
           /\ o + r = l /\ n = r => q = p + o + w + (n - w)
           /\ n = r => p + (o + r) + 0 = p + o + w + (n - w) /\ p + (o + r) + 0 <= q
OBVIOUS

\* After a write the writer is where it has written to.
LEMMA NextPart ==
    ASSUME TypeOK, NEW start, Starts(start), wfield # 0, sent' = sent,
           NEW n, n \in written + 1 .. Len(Bytes(Sending, wfield)),
           written' = Counted(n, Len(Bytes(Sending, wfield))), wfield' = WfieldAfter(n)
    PROVE  /\ wfield' \in Fields \cup {0} /\ written' \in Nat
           /\ wfield' = 0 => written' = 0
           /\ wfield' # 0 => written' < Len(Bytes(Sending, wfield'))
           /\ WritePos(start) \in Nat /\ WritePos(start)' = WritePos(start) + (n - written)
           /\ WritePos(start)' <= start[Len(sent) + 1]
<1> DEFINE m == Sending
           s == Len(m.data)
           k == Len(sent)
           b == Bytes(m, wfield)
<1>1. /\ k \in Nat /\ k >= 1 /\ wfield \in Fields /\ written \in Nat /\ m \in Messages
      /\ k \in 1 .. Len(sent) /\ k \in 1 .. Len(sent) + 1 /\ k + 1 \in 1 .. Len(sent) + 1
  BY DEF TypeOK, Sending
<1>2. /\ s \in Nat /\ Len(b) = Room(s, wfield) /\ Room(s, wfield) \in Nat
  BY <1>1, MessageTypes, FieldBytes, Layout
<1>3. n \in Nat /\ n > written /\ n <= Room(s, wfield)
  BY <1>1, <1>2
<1>4. /\ start[k] \in Nat /\ start[k + 1] \in Nat /\ start[k + 1] = start[k] + Length(s)
  BY <1>1 DEF Starts, Sending
<1>5. Sending' = m /\ Len(sent') = k
  BY DEF Sending
<1>6. WritePos(start) = start[k] + Offset(s, wfield) + written
  BY DEF WritePos
<1>7. written' = Counted(n, Room(s, wfield)) /\ wfield' = WfieldAfter(n)
  BY <1>2
<1>8. WfieldAfter(n) = IF Counted(n, Room(s, wfield)) # 0 THEN wfield
                       ELSE IF wfield = End THEN 0 ELSE Following(wfield, s)
  BY <1>2 DEF WfieldAfter
<1>9. /\ Offset(s, wfield) \in Nat /\ Length(s) \in Nat
      /\ Offset(s, wfield) + Room(s, wfield) <= Length(s)
      /\ wfield = End => Offset(s, wfield) + Room(s, wfield) = Length(s)
      /\ wfield # End => /\ Following(wfield, s) \in Fields
                         /\ Offset(s, Following(wfield, s)) = Offset(s, wfield) + Room(s, wfield)
  BY <1>1, <1>2, Layout
<1>p. /\ WritePos(start)' = IF wfield' = 0 THEN start[k + 1]
                            ELSE start[k] + Offset(s, wfield') + written'
  BY <1>5 DEF WritePos
<1>l. \A f \in Fields : Len(Bytes(m, f)) = Room(s, f)
  BY <1>1, FieldBytes
<1>z. 0 \notin Fields
  BY DEF Fields, Begin, End
<1> HIDE DEF m, s, k, b
<1>a. /\ start[k] + Offset(s, wfield) + written \in Nat
      /\ start[k] + Offset(s, wfield) + n
            = start[k] + Offset(s, wfield) + written + (n - written)
      /\ start[k] + Offset(s, wfield) + n <= start[k + 1]
      /\ Offset(s, wfield) + Room(s, wfield) = Length(s) /\ n = Room(s, wfield)
            => start[k + 1] = start[k] + Offset(s, wfield) + written + (n - written)
      /\ n = Room(s, wfield)
            => /\ start[k] + (Offset(s, wfield) + Room(s, wfield)) + 0
                     = start[k] + Offset(s, wfield) + written + (n - written)
               /\ start[k] + (Offset(s, wfield) + Room(s, wfield)) + 0 <= start[k + 1]
  <2>1. /\ start[k] \in Nat /\ start[k + 1] \in Nat /\ Offset(s, wfield) \in Nat
        /\ Room(s, wfield) \in Nat /\ Length(s) \in Nat /\ written \in Nat /\ n \in Nat
        /\ n > written /\ n <= Room(s, wfield) /\ start[k + 1] = start[k] + Length(s)
        /\ Offset(s, wfield) + Room(s, wfield) <= Length(s)
    BY <1>1, <1>2, <1>3, <1>4, <1>9
  <2> QED
    BY ONLY <2>1, PartWritten
<1>10. CASE n = Room(s, wfield) /\ wfield = End
  <2>1. written' = 0 /\ wfield' = 0
    BY <1>7, <1>8, <1>10 DEF Counted
  <2>2. WritePos(start)' = start[k + 1]
    BY <1>p, <2>1
  <2>3. start[k + 1] = start[k] + Offset(s, wfield) + written + (n - written)
    BY <1>9, <1>10, <1>a
  <2>4. start[k] + Offset(s, wfield) + written \in Nat
    BY <1>a
  <2> QED
    BY <1>4, <1>6, <2>1, <2>2, <2>3, <2>4 DEF k
<1>11. CASE n = Room(s, wfield) /\ wfield # End
  <2>1. written' = 0 /\ wfield' = Following(wfield, s) /\ wfield' \in Fields
    BY <1>7, <1>8, <1>9, <1>11 DEF Counted
  <2>2. WritePos(start)' = start[k] + (Offset(s, wfield) + Room(s, wfield)) + 0
    BY <1>9, <1>11, <1>p, <1>z, <2>1
  <2>3. /\ start[k] + (Offset(s, wfield) + Room(s, wfield)) + 0
             = start[k] + Offset(s, wfield) + written + (n - written)
        /\ start[k] + (Offset(s, wfield) + Room(s, wfield)) + 0 <= start[k + 1]
    BY <1>11, <1>a
  <2>4. Room(s, wfield') > 0
    <3>1. wfield' = Payload => s > 0
      BY <1>1, <1>2, <1>9, <2>1, <1>11, <1>3, SevenFields
         DEF Following, Begin, Type, Channel, Client, Size, Payload, End
    <3> QED
      BY <1>2, <2>1, <3>1, Layout
  <2>5. start[k] + Offset(s, wfield) + written \in Nat
    BY <1>a
  <2>6. written' < Len(Bytes(m, wfield'))
    BY <1>l, <2>1, <2>4
  <2> QED
    BY <1>6, <1>z, <2>1, <2>2, <2>3, <2>5, <2>6 DEF k, m
<1>12. CASE n # Room(s, wfield)
  <2>1. written' = n /\ wfield' = wfield
    BY <1>3, <1>7, <1>8, <1>12, <1>1 DEF Counted
  <2>2. WritePos(start)' = start[k] + Offset(s, wfield) + n
    BY <1>p, <1>1, <1>z, <2>1
  <2>3. /\ start[k] + Offset(s, wfield) + n = start[k] + Offset(s, wfield) + written + (n - written)
        /\ start[k] + Offset(s, wfield) + n <= start[k + 1]
    BY <1>a
  <2>4. n < Len(Bytes(m, wfield))
    BY <1>1, <1>2, <1>3, <1>12 DEF b
  <2>5. start[k] + Offset(s, wfield) + written \in Nat
    BY <1>a
  <2> QED
    BY <1>1, <1>3, <1>6, <1>z, <2>1, <2>2, <2>3, <2>4, <2>5 DEF k, m
<1> QED
  BY <1>10, <1>11, <1>12

LEMMA SameDistance ==
    ASSUME NEW r \in Nat, NEW l \in Nat, NEW s \in Nat, NEW o \in Nat, NEW w \in Nat,
           NEW i \in Nat, r + l = s + o + w
    PROVE  s + o + (w + (i - l)) = r + i
OBVIOUS

LEMMA WriteKeeps ==
    ASSUME TypeOK, Framed, NEW start, Starts(start), GoesOn => InStep(start), Write
    PROVE  TypeOK' /\ Framed' /\ Starts(start)' /\ (GoesOn' => InStep(start)')
<1> DEFINE b == Bytes(Sending, wfield)
           len == Len(socket)
<1>1. PICK n :
        /\ n \in written + 1 .. Len(b)
        /\ len + n - written <= Capacity
        /\ socket' = socket \o SubSeq(b, written + 1, n)
        /\ written' = Counted(n, Len(b))
        /\ wfield' = WfieldAfter(n)
  BY DEF Write
<1>2. wfield # 0 /\ up /\ UNCHANGED <<sent, up, reader>>
  BY DEF Write
<1>3. /\ wfield \in Fields /\ Sending \in Messages /\ written \in Nat /\ Len(sent) \in 1 .. Len(sent)
      /\ socket \in Seq(Byte) /\ len \in Nat /\ Capacity \in Nat
  BY <1>2, CapacityAssumption DEF TypeOK, Sending
<1>4. b \in Seq(Byte) /\ Len(b) \in Nat
  BY <1>3, FieldBytes
<1>5. /\ socket' \in Seq(Byte) /\ Len(socket') = len + (n - written)
      /\ \A i \in 1 .. Len(socket') :
            /\ i <= len => socket'[i] = socket[i]
            /\ i > len => socket'[i] = b[written + (i - len)]
  <2> HIDE DEF b
  <2>1. n \in written + 1 .. Len(b)
    BY <1>1
  <2>2. PICK r : r = socket \o SubSeq(b, written + 1, n)
    OBVIOUS
  <2>3. /\ r \in Seq(Byte) /\ Len(r) = Len(socket) + (n - written)
        /\ \A i \in 1 .. Len(r) :
            /\ i <= Len(socket) => r[i] = socket[i]
            /\ i > Len(socket) => r[i] = b[written + (i - Len(socket))]
    BY <1>3, <1>4, <2>1, <2>2, Wrote
  <2>4. socket' = r
    BY <1>1, <2>2
  <2> QED
    BY <2>3, <2>4
<1>6. /\ wfield' \in Fields \cup {0} /\ written' \in Nat
      /\ wfield' = 0 => written' = 0
      /\ wfield' # 0 => written' < Len(Bytes(Sending, wfield'))
      /\ WritePos(start) \in Nat /\ WritePos(start)' = WritePos(start) + (n - written)
      /\ WritePos(start)' <= start[Len(sent) + 1]
  BY <1>1, <1>2, NextPart
<1>7. WritePos(start) = start[Len(sent)] + Offset(Len(Sending.data), wfield) + written
  BY <1>2 DEF WritePos
<1>8. TypeOK'
  <2>1. Len(socket') <= Capacity
    BY <1>1, <1>3, <1>4, <1>5
  <2>2. sent' = sent /\ Sending' = Sending
    BY <1>2 DEF Sending
  <2>3. Width(rfield)' = Width(rfield)
    BY <1>2 DEF Width, reader
  <2> QED
    BY <1>2, <1>5, <1>6, <2>1, <2>2, <2>3 DEF TypeOK, reader
<1>9. Framed' /\ Starts(start)' /\ ReadPos(start)' = ReadPos(start) /\ Reading' = Reading
  BY <1>2 DEF Framed, Starts, ReadPos, Reading, reader
<1>10. ASSUME GoesOn' PROVE InStep(start)'
  <2>1. InStep(start) /\ rfield # 0
    BY <1>2, <1>10 DEF GoesOn, reader
  <2>2. /\ ReadPos(start) + len = WritePos(start)
    BY <1>2, <2>1 DEF InStep, InSocket
  <2>3. ReadPos(start) \in Nat
    <3>1. Reading \in 1 .. Len(sent) + 1 /\ rfield \in Fields /\ msg.size \in Nat /\ Len(got) \in Nat
      BY <2>1 DEF TypeOK, Reading
    <3>2. start[Reading] \in Nat /\ Offset(msg.size, rfield) \in Nat
      BY <3>1, Layout DEF Starts
    <3> QED
      BY <3>1, <3>2 DEF ReadPos
  <2>4. ReadPos(start) + Len(socket') = WritePos(start)'
    BY <1>1, <1>3, <1>4, <1>5, <1>6, <2>2, <2>3
  <2>5. Has(sent[Reading])' \/ ~(Reading' <= Len(sent'))
    BY <1>2, <1>9, <2>1 DEF InStep, Has, reader
  <2>6. ASSUME NEW k, k \in 1 .. Len(sent), NEW f, f \in Fields, NEW i, i \in 1 .. Len(socket'),
               NEW j, j \in 1 .. Len(Bytes(sent[k], f)),
               ReadPos(start) + i = start[k] + Offset(Len(sent[k].data), f) + j
        PROVE  socket'[i] = Bytes(sent[k], f)[j]
    <3>1. CASE i <= len
      <4>1. i \in 1 .. Len(socket) /\ socket'[i] = socket[i]
        BY <1>3, <1>5, <2>6, <3>1
      <4> QED
        BY <2>1, <2>6, <4>1, Zenon DEF InStep, InSocket
    <3>2. CASE i > len
      <4> DEFINE x == written + (i - len)
      <4>1. x \in 1 .. Len(b) /\ socket'[i] = b[x]
        <5>1. /\ i \in Nat /\ i > len /\ i <= len + (n - written) /\ len \in Nat
              /\ written \in Nat /\ n \in Nat /\ n <= Len(b) /\ Len(b) \in Nat
          BY <1>1, <1>3, <1>4, <1>5, <2>6, <3>2
        <5>2. x \in 1 .. Len(b)
          <6> HIDE DEF len, b
          <6> QED
            BY ONLY <5>1
        <5>3. socket'[i] = b[written + (i - len)]
          BY <1>5, <2>6, <3>2
        <5> QED
          BY <5>2, <5>3
      <4>2. start[Len(sent)] + Offset(Len(Sending.data), wfield) + x = ReadPos(start) + i
        <5>1. start[Len(sent)] \in Nat /\ Offset(Len(Sending.data), wfield) \in Nat
          <6>1. Len(Sending.data) \in Nat
            BY <1>3, MessageTypes
          <6>2. start[Len(sent)] \in Nat
            BY <1>3, StartsApart DEF TypeOK
          <6> QED
            BY <1>3, <6>1, <6>2, Layout
        <5>2. i \in Nat
          BY <2>6
        <5>3. ReadPos(start) + len
                = start[Len(sent)] + Offset(Len(Sending.data), wfield) + written
          BY <1>7, <2>2
        <5> QED
          <6>1. len \in Nat /\ written \in Nat
            BY <1>3
          <6> DEFINE p == start[Len(sent)]
                     o == Offset(Len(Sending.data), wfield)
                     r == ReadPos(start)
          <6>2. p \in Nat /\ o \in Nat /\ r \in Nat /\ r + len = p + o + written
            BY <2>3, <5>1, <5>3
          <6> HIDE DEF len, p, o, r
          <6>3. p + o + x = r + i
            BY ONLY <5>2, <6>1, <6>2, SameDistance
          <6> QED
            BY <6>3 DEF p, o, r
      <4> HIDE DEF x
      <4>3. start[Len(sent)] + Offset(Len(sent[Len(sent)].data), wfield) + x
              = start[k] + Offset(Len(sent[k].data), f) + j
        BY <2>6, <4>2 DEF Sending
      <4>4. x \in 1 .. Len(Bytes(sent[Len(sent)], wfield))
        BY <4>1 DEF Sending
      <4>5. Len(sent) = k /\ wfield = f /\ x = j
        <5>1. sent \in Seq(Messages)
          BY DEF TypeOK
        <5>2. /\ k \in 1 .. Len(sent) /\ f \in Fields /\ j \in 1 .. Len(Bytes(sent[k], f))
              /\ Len(sent) \in 1 .. Len(sent) /\ wfield \in Fields
          BY <1>3, <2>6
        <5> QED
          BY ONLY <4>3, <4>4, <5>1, <5>2, Starts(start), OnePlace, ZenonT(40)
      <4> QED
        BY <4>1, <4>5 DEF Sending
    <3> QED
      BY <1>3, <2>6, <3>1, <3>2
  <2>7. InSocket(start)'
    <3>1. ASSUME NEW k \in 1 .. Len(sent'), NEW f \in Fields, NEW i \in 1 .. Len(socket'),
                 NEW j \in 1 .. Len(Bytes(sent'[k], f)),
                 ReadPos(start)' + i = start[k] + Offset(Len(sent'[k].data), f) + j
          PROVE  socket'[i] = Bytes(sent'[k], f)[j]
      <4>1. sent' = sent
        BY <1>2
      <4> QED
        <5>1. /\ k \in 1 .. Len(sent) /\ j \in 1 .. Len(Bytes(sent[k], f))
              /\ ReadPos(start) + i = start[k] + Offset(Len(sent[k].data), f) + j
          BY <1>9, <3>1, <4>1
        <5>2. socket'[i] = Bytes(sent[k], f)[j]
          BY ONLY <5>1, <2>6, f \in Fields, i \in 1 .. Len(socket'), SMTT(30)
        <5> QED
          BY <4>1, <5>2
    <3>2. ReadPos(start)' + Len(socket') <= start[Len(sent') + 1]
      BY <1>2, <1>6, <1>9, <2>4
    <3>3. up' => ReadPos(start)' + Len(socket') = WritePos(start)'
      BY <1>9, <2>4
    <3> QED
      BY <3>1, <3>2, <3>3, Zenon DEF InSocket
  <2> QED
    BY <2>5, <2>7 DEF InStep
<1> QED
  BY <1>8, <1>9, <1>10

\* The next message begins where the last one ends.
OneMore(start, m) ==
    [k \in 1 .. Len(sent) + 2 |->
        IF k = Len(sent) + 2 THEN start[Len(sent) + 1] + Length(Len(m.data)) ELSE start[k]]

LEMMA OneMoreStart ==
    ASSUME sent \in Seq(Messages), NEW start, Starts(start),
           NEW m \in Messages, sent' = Append(sent, m),
           NEW next, next = OneMore(start, m)
    PROVE  Starts(next)' /\ \A k \in 1 .. Len(sent) + 1 : next[k] = start[k]
<1> DEFINE n == Len(sent)
           last == start[n + 1] + Length(Len(m.data))
<1>1. /\ n \in Nat /\ Len(sent') = n + 1 /\ sent'[n + 1] = m
      /\ \A k \in 1 .. n : sent'[k] = sent[k]
  OBVIOUS
<1>2. /\ start \in [1 .. n + 1 -> Nat] /\ n + 1 \in 1 .. n + 1
      /\ \A k \in 1 .. n : start[k + 1] = start[k] + Length(Len(sent[k].data))
      /\ \A j, k \in 1 .. n + 1 : j <= k => start[j] <= start[k]
  BY <1>1 DEF Starts
<1>3. last \in Nat /\ last >= start[n + 1]
  <2>1. start[n + 1] \in Nat /\ Length(Len(m.data)) \in Nat
    <3>1. Len(m.data) \in Nat
      BY MessageTypes
    <3> QED
      BY <1>2, <3>1 DEF Length
  <2> QED
    BY <2>1
<1> HIDE DEF n, last
<1>4. /\ next = [k \in 1 .. n + 2 |-> IF k = n + 2 THEN last ELSE start[k]]
      /\ 1 .. Len(sent') + 1 = 1 .. n + 2
  BY <1>1 DEF n, last, OneMore
<1>5. \A k \in 1 .. n + 1 : next[k] = start[k]
  BY <1>1, <1>4
<1>6. next[n + 2] = last
  BY <1>1, <1>4
<1>7. next \in [1 .. Len(sent') + 1 -> Nat]
  <2>1. \A k \in 1 .. n + 2 : k = n + 2 \/ k \in 1 .. n + 1
    BY <1>1
  <2>2. \A k \in 1 .. n + 2 : (IF k = n + 2 THEN last ELSE start[k]) \in Nat
    BY <1>2, <1>3, <2>1
  <2> QED
    BY <1>4, <2>2
<1>8. ASSUME NEW k \in 1 .. Len(sent') PROVE next[k + 1] = next[k] + Length(Len(sent'[k].data))
  <2>1. CASE k \in 1 .. n
    <3>1. k \in 1 .. n + 1 /\ k + 1 \in 1 .. n + 1 /\ sent'[k] = sent[k]
      BY <1>1, <2>1
    <3>2. next[k] = start[k] /\ next[k + 1] = start[k + 1]
      BY <1>5, <3>1
    <3>3. start[k + 1] = start[k] + Length(Len(sent[k].data))
      BY <1>2, <2>1
    <3> QED
      BY <3>1, <3>2, <3>3
  <2>2. CASE k = n + 1
    BY <1>1, <1>2, <1>5, <1>6, <2>2 DEF last
  <2> QED
    BY <1>1, <2>1, <2>2
<1>9. ASSUME NEW j \in 1 .. Len(sent') + 1, NEW k \in 1 .. Len(sent') + 1, j <= k
      PROVE  next[j] <= next[k]
  <2>1. CASE k \in 1 .. n + 1
    <3>1. j \in 1 .. n + 1
      BY <1>1, <1>9, <2>1
    <3>2. next[j] = start[j] /\ next[k] = start[k]
      BY <1>5, <2>1, <3>1
    <3>3. start[j] <= start[k]
      BY <1>2, <1>9, <2>1, <3>1
    <3> QED
      BY <3>2, <3>3
  <2>2. CASE j = n + 2
    BY <1>1, <1>3, <1>6, <1>9, <2>2
  <2>3. CASE k = n + 2 /\ j \in 1 .. n + 1
    <3>1. start[j] <= start[n + 1] /\ start[j] \in Nat /\ start[n + 1] \in Nat
      BY <1>1, <1>2, <2>3
    <3> QED
      <4>1. next[j] = start[j] /\ next[k] = last
        BY <1>5, <1>6, <2>3
      <4> QED
        BY <1>3, <3>1, <4>1
  <2> QED
    BY <1>1, <1>9, <2>1, <2>2, <2>3
<1> QED
  BY <1>5, <1>7, <1>8, <1>9 DEF Starts, n

LEMMA MsgWriteKeeps ==
    ASSUME TypeOK, Framed, NEW start, Starts(start), GoesOn => InStep(start),
           NEW m \in Messages, MsgWrite(m)
    PROVE  TypeOK' /\ Framed' /\ \E next : Starts(next)' /\ (GoesOn' => InStep(next)')
<1> DEFINE n == Len(sent)
<1>0. PICK next : next = OneMore(start, m)
  OBVIOUS
<1>1. /\ wfield = 0 /\ n < MaxSent /\ sent' = Append(sent, m) /\ wfield' = Begin
      /\ UNCHANGED <<written, socket, up, reader>> /\ sent \in Seq(Messages)
      /\ written = 0 /\ n \in Nat /\ MaxSent \in Nat
  BY CapacityAssumption DEF MsgWrite, TypeOK
<1>2. /\ Starts(next)' /\ \A k \in 1 .. n + 1 : next[k] = start[k]
  BY <1>0, <1>1, OneMoreStart
<1> HIDE DEF n
<1>3. /\ sent' \in Seq(Messages) /\ Len(sent') = n + 1 /\ sent'[n + 1] = m
      /\ \A k \in 1 .. n : sent'[k] = sent[k]
      /\ Sending' = m
  BY <1>1 DEF n, Sending
<1>4. TypeOK'
  <2>1. Len(Bytes(m, Begin)) = 2 /\ Begin \in Fields
    <3>1. Begin \in Fields
      BY DEF Fields, Begin, End
    <3> QED
      BY <3>1, FieldBytes DEF Room, Begin, Type, Size, Payload
  <2>2. Len(Bytes(Sending, wfield))' = 2
    BY <1>1, <1>3, <2>1
  <2>3. Width(rfield)' = Width(rfield)
    BY <1>1 DEF Width, reader
  <2>4. Len(delivered') <= Len(sent')
    <3>1. Len(delivered) \in Nat /\ Len(delivered) <= n
      BY DEF TypeOK, n
    <3> QED
      BY <1>1, <1>3, <3>1 DEF reader
  <2> QED
    BY <1>1, <1>3, <2>1, <2>2, <2>3, <2>4 DEF TypeOK, reader
<1>5. Framed' /\ Reading' = Reading
  BY <1>1 DEF Framed, Reading, reader
<1>6. ASSUME GoesOn' PROVE InStep(next)'
  <2>1. InStep(start) /\ rfield # 0
    BY <1>1, <1>6 DEF GoesOn, reader
  <2>2. /\ Reading \in 1 .. n + 1 /\ rfield \in Fields /\ msg.size \in Nat
        /\ Len(got) \in Nat /\ Len(socket) \in Nat /\ n + 1 \in 1 .. n + 1
    BY <1>1, <2>1 DEF TypeOK, Reading, n
  <2>3. /\ ReadPos(next)' = ReadPos(start) /\ next[n + 1] = start[n + 1]
    BY <1>1, <1>2, <1>5, <2>2 DEF ReadPos, reader
  <2>4. ReadPos(start) \in Nat /\ start[n + 1] \in Nat
    <3>1. start[Reading] \in Nat /\ Offset(msg.size, rfield) \in Nat /\ start[n + 1] \in Nat
      BY <2>2, Layout DEF Starts, n
    <3> QED
      BY <2>2, <3>1 DEF ReadPos
  <2>5. ReadPos(start) + Len(socket) <= start[n + 1]
    BY <2>1 DEF InStep, InSocket, n
  <2>6. ReadPos(next)' + Len(socket') <= next[Len(sent') + 1]
    <3>1. n + 1 \in 1 .. Len(sent') + 1 /\ Len(sent') + 1 \in 1 .. Len(sent') + 1
      BY <1>1, <1>3
    <3>2. next[n + 1] <= next[Len(sent') + 1] /\ next[Len(sent') + 1] \in Nat
      BY <1>1, <1>2, <1>3, <3>1 DEF Starts
    <3> QED
      BY <1>1, <2>2, <2>3, <2>4, <2>5, <3>2
  <2>7. up' => ReadPos(next)' + Len(socket') = WritePos(next)'
    <3>1. WritePos(next)' = next[n + 1] + 0 + 0
      BY <1>1, <1>3 DEF WritePos, Offset, Fields, Begin, Type, Channel, Client, Size, Payload, End
    <3>2. up => ReadPos(start) + Len(socket) = start[n + 1]
      BY <1>1, <2>1 DEF InStep, InSocket, WritePos, n
    <3> QED
      BY <1>1, <2>3, <2>4, <3>1, <3>2
  <2>8. ASSUME NEW k, k \in 1 .. n + 1, NEW f, f \in Fields, NEW i, i \in 1 .. Len(socket),
               NEW j, j \in 1 .. Len(Bytes(sent'[k], f)),
               ReadPos(start) + i = next[k] + Offset(Len(sent'[k].data), f) + j
        PROVE  socket[i] = Bytes(sent'[k], f)[j]
    <3>1. CASE k \in 1 .. n
      <4>1. sent'[k] = sent[k] /\ next[k] = start[k] /\ k \in 1 .. Len(sent)
        BY <1>1, <1>2, <1>3, <3>1 DEF n
      <4> QED
        <5>1. /\ j \in 1 .. Len(Bytes(sent[k], f)) /\ i \in 1 .. Len(socket)
              /\ ReadPos(start) + i = start[k] + Offset(Len(sent[k].data), f) + j
          BY <2>3, <2>8, <4>1
        <5>2. socket[i] = Bytes(sent[k], f)[j]
          BY <2>1, <2>8, <4>1, <5>1, Zenon DEF InStep, InSocket
        <5> QED
          BY <4>1, <5>2
    <3>2. CASE k = n + 1
      <4>1. sent'[k] = m /\ next[k] = start[n + 1]
        BY <1>3, <2>3, <3>2
      <4>2. j \in Nat /\ j >= 1 /\ Offset(Len(m.data), f) \in Nat
        BY <2>8, <4>1, InField
      <4>3. i \in Nat /\ i <= Len(socket)
        BY <1>1, <2>2, <2>8
      <4>4. ReadPos(start) + i = start[n + 1] + Offset(Len(m.data), f) + j
        BY <2>3, <2>8, <4>1
      <4>5. FALSE
        BY ONLY <2>2, <2>4, <2>5, <4>2, <4>3, <4>4
      <4> QED
        BY <4>5
    <3> QED
      BY <1>1, <1>3, <2>8, <3>1, <3>2
  <2>9. Reading' <= Len(sent') => Has(sent[Reading])'
    <3>1. CASE Reading \in 1 .. n
      BY <1>1, <1>3, <1>5, <2>1, <2>2, <3>1 DEF InStep, Has, reader, n
    <3>2. CASE Reading = n + 1
      <4>1. rfield = Begin /\ Len(got) = 0
        <5>1. ReadPos(start) = start[n + 1] + Offset(msg.size, rfield) + Len(got)
          BY <3>2 DEF ReadPos
        <5>2. Offset(msg.size, rfield) \in Nat
          BY <2>2, Layout
        <5>3. Offset(msg.size, rfield) = 0 /\ Len(got) = 0
          BY ONLY <2>2, <2>4, <2>5, <5>1, <5>2
        <5> QED
          BY <2>2, <5>3, SevenFields
             DEF Offset, Begin, Type, Channel, Client, Size, Payload, End
      <4> QED
        BY <1>1, <4>1 DEF Has, reader, Begin, Type, Channel, Client, Size, Payload, End
    <3>3. Reading \in 1 .. n \/ Reading = n + 1
      BY <1>1, <2>2
    <3> QED
      BY <3>1, <3>2, <3>3, Zenon
  <2>10. InSocket(next)'
    <3>1. ASSUME NEW k \in 1 .. Len(sent'), NEW f \in Fields, NEW i \in 1 .. Len(socket'),
                 NEW j \in 1 .. Len(Bytes(sent'[k], f)),
                 ReadPos(next)' + i = next[k] + Offset(Len(sent'[k].data), f) + j
          PROVE  socket'[i] = Bytes(sent'[k], f)[j]
      <4>1. k \in 1 .. Len(sent') /\ f \in Fields /\ i \in 1 .. Len(socket')
            /\ j \in 1 .. Len(Bytes(sent'[k], f))
        OBVIOUS
      <4>2. /\ k \in 1 .. n + 1 /\ i \in 1 .. Len(socket)
            /\ ReadPos(start) + i = next[k] + Offset(Len(sent'[k].data), f) + j
        BY <1>1, <1>3, <2>3, <3>1
      <4>3. socket[i] = Bytes(sent'[k], f)[j]
        BY ONLY <2>8, <4>1, <4>2
      <4> QED
        BY <1>1, <4>3
    <3> QED
      BY <2>6, <2>7, <3>1, Zenon DEF InSocket
  <2> QED
    BY <2>9, <2>10 DEF InStep
<1> QED
  BY <1>2, <1>4, <1>5, <1>6

-----------------------------------------------------------------------------
(* The invariant.                                                          *)

LEMMA InitInv == Init => WireInv
<1> SUFFICES ASSUME Init PROVE WireInv
  OBVIOUS
<1>1. /\ sent = <<>> /\ Len(sent) = 0 /\ wfield = 0 /\ written = 0 /\ socket = <<>> /\ up = TRUE
      /\ rfield = Begin /\ got = <<>> /\ noMemory = FALSE /\ delivered = <<>>
      /\ msg = [type |-> 0, channel |-> 0, client |-> 0, size |-> 0, data |-> <<>>]
  BY DEF Init
<1>2. TypeOK
  <2>1. Begin \in Fields /\ Width(Begin) = 2
    BY DEF Fields, Width, Begin, Type, Channel, Client, Size, Payload, End
  <2>2. msg \in [type : Byte, channel : Id, client : Id, size : Nat, data : Seq(Byte)]
    <3>1. 0 \in Byte /\ 0 \in Id /\ <<>> \in Seq(Byte)
      BY SMT DEF Byte, Id
    <3> QED
      BY <1>1, <3>1
  <2>3. Len(got) = 0 /\ Len(socket) = 0 /\ Len(delivered) = 0 /\ sent \in Seq(Messages)
        /\ socket \in Seq(Byte) /\ got \in Seq(Byte) /\ delivered \in Seq(Messages)
    BY <1>1
  <2>4. Width(rfield) = 2 /\ rfield \in Fields
    BY <1>1, <2>1
  <2>5. 0 <= Capacity /\ 0 <= MaxSent
    BY CapacityAssumption
  <2> QED
    <3>1. /\ sent \in Seq(Messages) /\ Len(sent) <= MaxSent
          /\ wfield \in Fields \cup {0} /\ written \in Nat
          /\ wfield = 0 /\ written = 0
      BY <1>1, <2>3, <2>5
    <3>2. /\ socket \in Seq(Byte) /\ Len(socket) <= Capacity
          /\ up \in BOOLEAN /\ noMemory \in BOOLEAN
      BY <1>1, <2>3, <2>5
    <3>3. /\ rfield \in Fields \cup {0} /\ got \in Seq(Byte) /\ Len(got) < Width(rfield)
          /\ delivered \in Seq(Messages) /\ Len(delivered) <= Len(sent)
      BY <1>1, <2>3, <2>4
    <3> QED
      BY ONLY <2>2, <3>1, <3>2, <3>3 DEF TypeOK
<1>3. Framed
  BY <1>1 DEF Framed, Begin
<1>4. PICK start : start = [k \in 1 .. 1 |-> 0]
  OBVIOUS
<1>5. Starts(start) /\ start[1] = 0
  BY <1>1, <1>4 DEF Starts
<1>6. InSocket(start)
  <2>1. Reading = 1 /\ Offset(msg.size, rfield) = 0
    BY <1>1 DEF Reading, Offset, Begin, Type, Channel, Client, Size, Payload, End
  <2>2. ReadPos(start) = 0 /\ WritePos(start) = 0
    BY <1>1, <1>5, <2>1 DEF ReadPos, WritePos
  <2> QED
    BY <1>1, <1>5, <2>2 DEF InSocket
<1> QED
  BY <1>1, <1>2, <1>3, <1>5, <1>6 DEF WireInv, InStep, Reading

LEMMA NextInv == WireInv /\ [Next]_vars => WireInv'
<1> SUFFICES ASSUME WireInv, [Next]_vars PROVE WireInv'
  OBVIOUS
<1>1. TypeOK /\ Framed
  BY DEF WireInv
<1>2. PICK start : Starts(start) /\ (GoesOn => InStep(start))
  BY DEF WireInv
<1>3. ASSUME NEW m \in Messages, MsgWrite(m) PROVE WireInv'
  BY <1>1, <1>2, <1>3, MsgWriteKeeps DEF WireInv
<1>4. CASE Write
  BY <1>1, <1>2, <1>4, WriteKeeps DEF WireInv
<1>5. CASE ReadPart
  BY <1>1, <1>2, <1>5, ReadPartKeeps DEF WireInv
<1>6. CASE ReadField
  BY <1>1, <1>2, <1>6, ReadFieldKeeps DEF WireInv
<1>7. CASE WriteFails \/ Break \/ UNCHANGED vars
  <2>1. /\ UNCHANGED <<sent, socket, reader>> /\ (up' => up) /\ up' \in BOOLEAN
        /\ written' \in Nat /\ wfield' \in Fields \cup {0}
        /\ (wfield' = 0 /\ written' = 0) \/ UNCHANGED <<wfield, written>>
        /\ up' => UNCHANGED <<wfield, written>>
    <3>0. wfield \in Fields \cup {0} /\ written \in Nat /\ up \in BOOLEAN
      BY <1>1 DEF TypeOK
    <3>1. CASE WriteFails
      BY <3>0, <3>1 DEF WriteFails, reader
    <3>2. CASE Break
      BY <3>0, <3>2 DEF Break, writer, reader
    <3>3. CASE UNCHANGED vars
      BY <3>0, <3>3 DEF vars, writer, reader
    <3> QED
      BY <1>7, <3>1, <3>2, <3>3
  <2>2. /\ Width(rfield)' = Width(rfield) /\ Sending' = Sending /\ Reading' = Reading
        /\ ReadPos(start)' = ReadPos(start)
    BY <2>1 DEF Width, Sending, reader, ReadPos, Reading
  <2>3. TypeOK'
    BY <1>1, <2>1, <2>2 DEF TypeOK, reader
  <2>4. Framed' /\ Starts(start)'
    BY <1>1, <1>2, <2>1 DEF Framed, Starts, reader
  <2>5. ASSUME GoesOn' PROVE InStep(start)'
    <3>1. InSocket(start) /\ (Reading <= Len(sent) => Has(sent[Reading]))
      BY <1>2, <2>1, <2>5 DEF GoesOn, reader, InStep
    <3>2. up' => ReadPos(start)' + Len(socket') = WritePos(start)'
      BY <2>1, <2>2, <3>1 DEF InSocket, WritePos
    <3>3. InSocket(start)'
      BY <2>1, <2>2, <3>1, <3>2 DEF InSocket
    <3>4. Reading' <= Len(sent') => Has(sent[Reading])'
      BY <2>1, <2>2, <3>1 DEF Has, reader
    <3> QED
      BY <3>3, <3>4 DEF InStep
  <2> QED
    BY <2>3, <2>4, <2>5 DEF WireInv
<1>8. CASE NoMemory \/ ReadFails
  <2>1. /\ UNCHANGED <<writer, up, delivered>> /\ socket' \in Seq(Byte)
        /\ Len(socket') <= Capacity /\ got' = <<>> /\ rfield' \in {0, End}
        /\ noMemory' \in BOOLEAN /\ (rfield' = 0 => noMemory' \/ ~up)
        /\ (rfield' = End => ~up /\ socket' = <<>>)
        /\ msg' \in [type : Byte, channel : Id, client : Id, size : Nat, data : Seq(Byte)]
    <3>1. CASE NoMemory
      BY <1>1, <3>1 DEF NoMemory, TypeOK, End
    <3>2. CASE ReadFails
      <4>1. msg' = msg \/ msg' = [msg EXCEPT !.size = 0, !.data = <<>>]
        BY <3>2 DEF ReadFails
      <4>2. msg' \in [type : Byte, channel : Id, client : Id, size : Nat, data : Seq(Byte)]
        <5>1. msg \in [type : Byte, channel : Id, client : Id, size : Nat, data : Seq(Byte)]
          BY <1>1 DEF TypeOK
        <5>2. <<>> \in Seq(Byte)
          OBVIOUS
        <5>3. [msg EXCEPT !.size = 0]
                \in [type : Byte, channel : Id, client : Id, size : Nat, data : Seq(Byte)]
          BY <5>1
        <5>4. [msg EXCEPT !.size = 0, !.data = <<>>]
                \in [type : Byte, channel : Id, client : Id, size : Nat, data : Seq(Byte)]
          BY <5>2, <5>3
        <5> QED
          BY <4>1, <5>1, <5>4
      <4> QED
        BY <1>1, <3>2, <4>2, CapacityAssumption DEF ReadFails, TypeOK
    <3> QED
      BY <1>8, <3>1, <3>2
  <2>2. TypeOK'
    <3>1. End \in Fields /\ (rfield' # 0 => Width(rfield)' = 2)
      BY <2>1 DEF Fields, Width, Begin, Type, Channel, Client, Size, Payload, End
    <3>2. delivered' \in Seq(Messages) /\ Len(delivered') <= Len(sent')
      BY <1>1, <2>1 DEF TypeOK, writer
    <3> QED
      BY <1>1, <2>1, <3>1, <3>2, WriterStays DEF TypeOK
  <2>3. Framed' /\ Starts(start)' /\ ~GoesOn'
    BY <1>2, <2>1 DEF Framed, Starts, GoesOn, writer
  <2> QED
    BY <2>2, <2>3 DEF WireInv
<1> QED
  BY <1>3, <1>4, <1>5, <1>6, <1>7, <1>8 DEF Next, WriteStep, ReadStep

\* The invariant: types, framing, and that the bytes in the socket and those
\* the reader has of its message are the part of the stream of messages that
\* is written and not delivered (guard_read, guard_write, msg_read, msg_write,
\* tunnel.c 22-73, 219-319).
THEOREM InStepWithStream == Spec => []WireInv
<1> QED
  BY InitInv, NextInv, PTL DEF Spec

\* The types of the variables of msg_write and msg_read (219-319).
THEOREM TypeCorrect == Spec => []TypeOK
<1>1. WireInv => TypeOK
  BY DEF WireInv
<1> QED
  BY <1>1, InStepWithStream, PTL

\* msg_read (219-263) only fails when the connection or the memory does,
\* whatever the messages are and wherever reads and writes are cut.
THEOREM StaysFramed == Spec => []Framed
<1>1. WireInv => Framed
  BY DEF WireInv
<1> QED
  BY <1>1, InStepWithStream, PTL

LEMMA NextImplements ==
    WireInv /\ [Next]_vars => [MessageChannel!Next]_<<sent, delivered>>
<1> SUFFICES ASSUME WireInv, [Next]_vars PROVE [MessageChannel!Next]_<<sent, delivered>>
  OBVIOUS
<1>1. TypeOK
  BY DEF WireInv
<1>2. PICK start : Starts(start) /\ (GoesOn => InStep(start))
  BY DEF WireInv
<1>3. ASSUME NEW m \in Messages, MsgWrite(m) PROVE MessageChannel!Send(m)
  BY <1>3 DEF MsgWrite, MessageChannel!Send, reader
<1>4. ASSUME ReadField PROVE MessageChannel!Deliver \/ UNCHANGED <<sent, delivered>>
  <2>1. /\ Reading \in 1 .. Len(sent) /\ sent' = sent
        /\ delivered' = IF rfield = End THEN Append(delivered, sent[Reading]) ELSE delivered
    BY <1>1, <1>2, <1>4, ReadsField, NextField DEF writer
  <2>2. Len(delivered) < Len(sent)
    BY <1>1, <2>1 DEF Reading, TypeOK
  <2> QED
    BY <2>1, <2>2 DEF Reading, MessageChannel!Deliver
<1>5. ASSUME WriteStep \/ Break \/ ReadPart \/ ReadFails \/ NoMemory \/ UNCHANGED vars
      PROVE  UNCHANGED <<sent, delivered>>
  BY <1>5 DEF WriteStep, Write, WriteFails, Break, ReadPart, ReadFails, NoMemory, vars, writer,
              reader
<1> QED
  BY <1>3, <1>4, <1>5 DEF Next, ReadStep, MessageChannel!Next

\* Messages arrive whole, unaltered, in order and once, and when the
\* connection breaks those that arrived are a prefix of those sent: msg_write
\* (265-319) and msg_read (219-263) implement MessageChannel.
THEOREM ImplementsChannel == Spec => Implements
<1>1. Init => MessageChannel!Init
  BY DEF Init, MessageChannel!Init
<1>2. WireInv /\ [Next]_vars => [MessageChannel!Next]_<<sent, delivered>>
  BY NextImplements
<1> QED
  BY <1>1, <1>2, InStepWithStream, PTL DEF Spec, Implements, MessageChannel!Spec
=============================================================================
