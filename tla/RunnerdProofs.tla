---------------------------- MODULE RunnerdProofs ----------------------------
(* Proofs about runnerd: its configuration (ServiceConfig), for any bounds  *)
(* and any file, and its supervision (Runner), for any number of services   *)
(* and pids.                                                               *)
EXTENDS Runner, ServiceConfig, TLAPS

-----------------------------------------------------------------------------
(* The configuration.                                                      *)

\* Command records with at most a parameters and variables and n strings.
Commands(a, n) ==
    [name : Section \cup {NoName}, params : [Slot -> Int], n_params : 0 .. a,
     envs : [Slot -> Int], n_envs : 0 .. a, s_p : 0 .. n]

\* One line stores at most one parameter and one variable, and takes at most
\* two strings.
LEMMA StoreBounds ==
    ASSUME NEW n \in Nat, NEW c \in Commands(MaxArgc, n), NEW key \in Keys, NEW v \in Int
    PROVE  Store(c, key, v) \in Commands(MaxArgc + 1, n + 2)
<1>1. /\ c.n_params \in 0 .. MaxArgc /\ c.n_envs \in 0 .. MaxArgc /\ c.s_p \in 0 .. n
      /\ c.params \in [Slot -> Int] /\ c.envs \in [Slot -> Int]
      /\ c.n_params \in Slot /\ c.n_envs \in Slot /\ 0 \in Slot
      /\ MaxArgc \in Nat
  BY BoundsAssumption DEF Commands, Slot
<1>1a. /\ c.n_params + 1 \in 0 .. MaxArgc + 1 /\ c.n_envs + 1 \in 0 .. MaxArgc + 1
      /\ c.s_p + 1 \in 0 .. n + 2 /\ c.s_p + 2 \in 0 .. n + 2
      /\ c.n_params \in 0 .. MaxArgc + 1 /\ c.n_envs \in 0 .. MaxArgc + 1
  BY <1>1
<1>2. CASE key = "param"
  <2>1. [c.params EXCEPT ![c.n_params] = v] \in [Slot -> Int]
    BY <1>1
  <2>2. Store(c, key, v) = [c EXCEPT !.params = [@ EXCEPT ![c.n_params] = v],
                                     !.n_params = @ + 1, !.s_p = @ + 1]
    BY <1>2 DEF Store, Commands
  <2> QED
    BY <1>1a, <1>1, <2>1, <2>2 DEF Commands
<1>3. CASE key = "exec"
  <2>1. /\ [c.params EXCEPT ![0] = v] \in [Slot -> Int]
        /\ [c.envs EXCEPT ![c.n_envs] = v] \in [Slot -> Int]
    BY <1>1
  <2>2. Store(c, key, v) = [c EXCEPT !.params = [@ EXCEPT ![0] = v],
                                     !.envs = [@ EXCEPT ![c.n_envs] = v],
                                     !.n_envs = @ + 1, !.s_p = @ + 2]
    BY <1>3 DEF Store, Commands
  <2> QED
    BY <1>1a, <1>1, <2>1, <2>2 DEF Commands
<1>4. CASE key = "other"
  <2>1. [c.envs EXCEPT ![c.n_envs] = v] \in [Slot -> Int]
    BY <1>1
  <2>2. Store(c, key, v) = [c EXCEPT !.envs = [@ EXCEPT ![c.n_envs] = v],
                                     !.n_envs = @ + 1, !.s_p = @ + 1]
    BY <1>4 DEF Store, Commands
  <2> QED
    BY <1>1a, <1>1, <2>1, <2>2 DEF Commands
<1> QED
  BY <1>2, <1>3, <1>4 DEF Keys

\* Opening a section takes one string and one parameter slot.
LEMMA OpenedBounds ==
    ASSUME ConfigTypeOK, Guarded, NEW s \in Section
    PROVE  Opened(s) \in Commands(MaxArgc, Slots)
<1>1. /\ cmd \in Commands(MaxArgc, Slots) /\ cmd.s_p < Slots
      /\ Zero \in Commands(MaxArgc, Slots) /\ Zero.s_p < Slots
  <2>1. cmd \in Commands(MaxArgc, Slots) /\ cmd.s_p < Slots
    BY BoundsAssumption DEF ConfigTypeOK, Guarded, Commands
  <2>2. MaxArgc \in Nat /\ Slots \in Nat /\ Slots > 0
    BY BoundsAssumption DEF Slots
  <2>3. Zero \in Commands(MaxArgc, Slots) /\ Zero.s_p < Slots
    BY <2>2 DEF Commands, Zero, Null
  <2> QED
    BY <2>1, <2>3
<1>2. ASSUME NEW c \in Commands(MaxArgc, Slots), c.s_p < Slots
      PROVE  [c EXCEPT !.name = s, !.n_params = 1, !.s_p = @ + 1] \in Commands(MaxArgc, Slots)
  <2>1. Slots \in Nat /\ c.s_p \in 0 .. Slots /\ 1 \in 0 .. MaxArgc
    BY BoundsAssumption DEF Commands, Slots
  <2>2. c.s_p + 1 \in 0 .. Slots
    BY <1>2, <2>1
  <2> QED
    BY <2>1, <2>2 DEF Commands
<1> QED
  BY <1>1, <1>2 DEF Opened, Cleared

\* The pointer arrays of cmd are never written out of bounds, whatever the
\* file; the assertions of lines 68 and 69 are enough for them.
THEOREM ConfigTypeCorrect == ConfigSpec => []ConfigTypeOK
<1>1. ConfigInit => ConfigTypeOK
  BY BoundsAssumption DEF ConfigInit, ConfigTypeOK, Zero, Slot, Slots, Null
<1>2. ConfigTypeOK /\ [ConfigNext]_config => ConfigTypeOK'
  <2> SUFFICES ASSUME ConfigTypeOK, [ConfigNext]_config PROVE ConfigTypeOK'
    OBVIOUS
  <2>1. ASSUME NEW s \in Section, NEW key \in Keys, Line(s, key) PROVE ConfigTypeOK'
    <3> DEFINE b == IF NewSection(s) THEN Opened(s) ELSE cmd
               c == Store(b, key, Len(file) + 1)
    <3>1. Len(file) + 1 \in Int /\ Slots \in Nat
      BY BoundsAssumption DEF ConfigTypeOK, Slots
    <3>2. b \in Commands(MaxArgc, Slots)
      BY <2>1, OpenedBounds, BoundsAssumption DEF Line, Guarded, ConfigTypeOK, Commands
    <3>3. c \in Commands(MaxArgc + 1, Slots + 2)
      BY <3>1, <3>2, StoreBounds
    <3>4. IF c.s_p <= Slots THEN cmd' = c /\ stage' = stage ELSE cmd' = cmd /\ stage' = "overflow"
      BY <2>1 DEF Line
    <3>5. file' \in Seq([section : Section, key : Keys])
      BY <2>1 DEF Line, ConfigTypeOK
    <3> HIDE DEF b, c
    <3>6. c.s_p <= Slots => c \in Commands(MaxArgc + 1, Slots)
      BY <3>1, <3>3 DEF Commands
    <3> QED
      BY <3>4, <3>5, <3>6 DEF ConfigTypeOK, Commands
  <2>2. CASE Refuse
    BY <2>2 DEF Refuse, ConfigTypeOK
  <2>3. CASE EndOfFile
    BY <2>3, BoundsAssumption DEF EndOfFile, ConfigTypeOK, Zero, Slot, Slots, Null
  <2>4. CASE UNCHANGED config
    BY <2>4 DEF config, ConfigTypeOK
  <2> QED
    BY <2>1, <2>2, <2>3, <2>4 DEF ConfigNext
<1> QED
  BY <1>1, <1>2, PTL DEF ConfigSpec

-----------------------------------------------------------------------------
(* What the file says, when a line is added.                               *)

Rows == [section : Section, key : Keys]

\* What it says of the lines before does not change.
LEMMA EarlierLines ==
    ASSUME file \in Seq(Rows), NEW l \in Rows, file' = Append(file, l)
    PROVE  /\ Len(file) \in Nat /\ Len(file') = Len(file) + 1 /\ file'[Len(file) + 1] = l
           /\ \A n \in 1 .. Len(file) : /\ file'[n] = file[n]
                                        /\ Block(n)' = Block(n)
                                        /\ HasExec(n)' <=> HasExec(n)
                                        /\ Fresh(n)' <=> Fresh(n)
                                        /\ \A K : Lines(n, K)' = Lines(n, K)
                                        /\ Program(n)' = Program(n)
<1>1. /\ Len(file) \in Nat /\ Len(file') = Len(file) + 1 /\ file'[Len(file) + 1] = l
      /\ \A n \in 1 .. Len(file) : file'[n] = file[n]
  OBVIOUS
<1>2. ASSUME NEW n \in 1 .. Len(file)
      PROVE  Block(n)' = Block(n) /\ Block(n) \subseteq 1 .. n
  <2>1. \A i \in 1 .. n : file'[i] = file[i] /\ \A j \in i .. n : file'[j] = file[j]
    BY <1>1
  <2> QED
    BY <2>1 DEF Block
<1>3. ASSUME NEW n \in 1 .. Len(file)
      PROVE  /\ HasExec(n)' <=> HasExec(n)
             /\ \A K : Lines(n, K)' = Lines(n, K)
  <2>1. \A i \in Block(n) : file'[i] = file[i]
    BY <1>1, <1>2
  <2> QED
    BY <1>2, <2>1 DEF HasExec, Lines
<1>4. ASSUME NEW n \in 1 .. Len(file) PROVE Fresh(n)' <=> Fresh(n)
  <2>1. \A m \in 1 .. n : m \in 1 .. Len(file) /\ (HasExec(m)' <=> HasExec(m))
    BY <1>1, <1>3
  <2> QED
    BY <1>2, <2>1 DEF Fresh
<1>5. ASSUME NEW n \in 1 .. Len(file) PROVE Program(n)' = Program(n)
  BY <1>3 DEF Program
<1> QED
  BY <1>1, <1>2, <1>3, <1>4, <1>5

\* A line of the section before joins its block; any other line begins one.
LEMMA LastLine ==
    ASSUME file \in Seq(Rows), NEW l \in Rows, file' = Append(file, l), NEW n, n = Len(file)
    PROVE  LET same == n > 0 /\ file[n].section = l.section
           IN  /\ Block(n + 1)' = {n + 1} \cup IF same THEN Block(n) ELSE {}
               /\ HasExec(n + 1)' <=> l.key = "exec" \/ (same /\ HasExec(n))
               /\ \A K : Lines(n + 1, K)' = (IF same THEN Lines(n, K) ELSE {})
                                                \cup (IF l.key \in K THEN {n + 1} ELSE {})
               /\ same => (Fresh(n + 1)' <=> Fresh(n))
               /\ ~same /\ n > 0 => (Fresh(n + 1)' <=> HasExec(n))
<1> DEFINE same == n > 0 /\ file[n].section = l.section
<1>1. /\ n \in Nat /\ Len(file') = n + 1 /\ file'[n + 1] = l
      /\ \A i \in 1 .. n : /\ file'[i] = file[i] /\ Block(i)' = Block(i)
                           /\ HasExec(i)' <=> HasExec(i)
  BY EarlierLines
<1>2. Block(n + 1)' = {n + 1} \cup IF same THEN Block(n) ELSE {}
  <2>1. \A i \in 1 .. n + 1 :
            i \in Block(n + 1)' <=> \A j \in i .. n + 1 : file'[j].section = l.section
    <3>1. Block(n + 1)' = {i \in 1 .. n + 1 :
              \A j \in i .. n + 1 : file'[j].section = file'[n + 1].section}
      BY DEF Block
    <3> QED
      BY <1>1, <3>1
  <2>2. n + 1 \in Block(n + 1)'
    BY <1>1, <2>1
  <2>3. ASSUME NEW i \in 1 .. n PROVE i \in Block(n + 1)' <=> same /\ i \in Block(n)
    <3>1. i \in Nat /\ i <= n /\ n > 0 /\ n \in i .. n + 1 /\ i \in 1 .. n + 1
          /\ (\A j \in i .. n : j \in 1 .. n /\ j \in i .. n + 1)
          /\ \A j \in i .. n + 1 : j = n + 1 \/ j \in i .. n
      BY <1>1
    <3>2. i \in Block(n) <=> \A j \in i .. n : file[j].section = file[n].section
      BY DEF Block
    <3>3. \A j \in i .. n : file'[j] = file[j]
      BY <1>1, <3>1
    <3> QED
      BY <1>1, <2>1, <3>1, <3>2, <3>3
  <2>4. Block(n + 1)' \subseteq 1 .. n + 1 /\ Block(n) \subseteq 1 .. n
    BY <1>1 DEF Block
  <2>5. 1 .. n + 1 = 1 .. n \cup {n + 1}
    BY <1>1
  <2> QED
    BY <2>2, <2>3, <2>4, <2>5
<1>3. Block(n) \subseteq 1 .. n /\ \A i \in 1 .. n : file'[i] = file[i]
  BY <1>1 DEF Block
<1>4. HasExec(n + 1)' <=> l.key = "exec" \/ (same /\ HasExec(n))
  BY <1>1, <1>2, <1>3 DEF HasExec
<1>5. ASSUME NEW K
      PROVE  Lines(n + 1, K)' = (IF same THEN Lines(n, K) ELSE {})
                                    \cup (IF l.key \in K THEN {n + 1} ELSE {})
  BY <1>1, <1>2, <1>3 DEF Lines
<1>6. ASSUME same PROVE Fresh(n + 1)' <=> Fresh(n)
  <2>1. Block(n + 1)' = {n + 1} \cup Block(n)
    BY <1>2, <1>6
  <2>2. n \in 1 .. n /\ \A j \in n .. n : j = n
    BY <1>1, <1>6
  <2>3. n \in Block(n)
    BY <2>2 DEF Block
  <2>4. \A m \in 1 .. n : /\ m \in 1 .. n + 1 /\ m # n + 1
                          /\ m + 1 = n + 1 => m = n
    BY <1>1
  <2>5. \A m \in 1 .. n + 1 : m = n + 1 \/ m \in 1 .. n
    BY <1>1
  <2> QED
    BY <1>1, <2>1, <2>3, <2>4, <2>5 DEF Fresh
<1>7. ASSUME ~same, n > 0 PROVE Fresh(n + 1)' <=> HasExec(n)
  <2>1. Block(n + 1)' = {n + 1}
    BY <1>2, <1>7
  <2>2. \A m \in 1 .. n + 1 : m \notin {n + 1} /\ m + 1 \in {n + 1} <=> m = n
    BY <1>1
  <2>3. n \in 1 .. n + 1 /\ n \in 1 .. n
    BY <1>1, <1>7
  <2> QED
    BY <1>1, <2>1, <2>2, <2>3 DEF Fresh
<1> QED
  BY <1>2, <1>4, <1>5, <1>6, <1>7

-----------------------------------------------------------------------------
(* The arrays of the record.                                               *)

Arrays == [Slot -> Int]

\* One more line, at the next free slot.
LEMMA StoredMore ==
    ASSUME NEW a \in Arrays, NEW first \in {0, 1}, NEW free \in Slot, first <= free,
           NEW S \in SUBSET Int, NEW v \in Int, \A x \in S : x < v,
           Stored(a, first, free, S), Free(a, free)
    PROVE  /\ [a EXCEPT ![free] = v] \in Arrays
           /\ Stored([a EXCEPT ![free] = v], first, free + 1, S \cup {v})
           /\ Free([a EXCEPT ![free] = v], free + 1)
<1> DEFINE b == [a EXCEPT ![free] = v]
<1>1. /\ free \in Nat /\ MaxArgc \in Nat /\ \A i \in Slot : i \in Nat
      /\ \A i \in first .. free - 1 : i \in Slot /\ i # free
      /\ \A i \in first .. (free + 1) - 1 : i = free \/ i \in first .. free - 1
      /\ free \in first .. (free + 1) - 1
      /\ \A i \in first .. free - 1 : i \in first .. (free + 1) - 1
  BY BoundsAssumption DEF Slot
<1>2. /\ b \in Arrays /\ b[free] = v
      /\ \A i \in Slot : i # free => b[i] = a[i]
  BY DEF Arrays
<1> HIDE DEF b
<1>3. /\ \A i \in first .. free - 1 : a[i] \in S
      /\ \A i, j \in first .. free - 1 : i < j => a[i] < a[j]
      /\ \A x \in S : \E i \in first .. free - 1 : a[i] = x
  BY DEF Stored
<1>4. \A i \in first .. (free + 1) - 1 : b[i] \in S \cup {v}
  BY <1>1, <1>2, <1>3
<1>5. ASSUME NEW i \in first .. (free + 1) - 1, NEW j \in first .. (free + 1) - 1, i < j
      PROVE  b[i] < b[j]
  <2>1. i \in first .. free - 1
    BY <1>1, <1>5
  <2>2. b[i] = a[i] /\ a[i] \in S
    BY <1>1, <1>2, <1>3, <2>1
  <2>3. CASE j = free
    BY <1>2, <2>2, <2>3
  <2>4. CASE j # free
    <3>1. j \in first .. free - 1 /\ b[j] = a[j]
      BY <1>1, <1>2, <2>4
    <3> QED
      BY <1>3, <1>5, <2>1, <2>2, <3>1
  <2> QED
    BY <2>3, <2>4
<1>6. \A x \in S \cup {v} : \E i \in first .. (free + 1) - 1 : b[i] = x
  <2>1. ASSUME NEW x \in S PROVE \E i \in first .. (free + 1) - 1 : b[i] = x
    <3>1. PICK i \in first .. free - 1 : a[i] = x
      BY <1>3
    <3> QED
      BY <1>1, <1>2, <3>1
  <2> QED
    BY <1>1, <1>2, <2>1
<1>7. Stored(b, first, free + 1, S \cup {v})
  BY <1>4, <1>5, <1>6 DEF Stored
<1>8. Free(b, free + 1)
  BY <1>1, <1>2 DEF Free
<1> QED
  BY <1>2, <1>7, <1>8 DEF b

\* The program is stored in slot 0, before the parameters.
LEMMA StoredProgram ==
    ASSUME NEW a \in Arrays, NEW free \in Nat, free >= 1, NEW S, NEW v \in Int,
           free - 1 \in Slot, Stored(a, 1, free, S), Free(a, free)
    PROVE  /\ [a EXCEPT ![0] = v] \in Arrays
           /\ Stored([a EXCEPT ![0] = v], 1, free, S) /\ Free([a EXCEPT ![0] = v], free)
<1>1. /\ MaxArgc \in Nat /\ 0 \in Slot /\ \A i \in Slot : i \in Nat
      /\ \A i \in 1 .. free - 1 : i \in Slot /\ i # 0
  BY BoundsAssumption DEF Slot
<1>2. [a EXCEPT ![0] = v] \in Arrays /\ \A i \in Slot : i # 0 => [a EXCEPT ![0] = v][i] = a[i]
  BY DEF Arrays
<1>3. Stored([a EXCEPT ![0] = v], 1, free, S)
  <2>1. \A i \in 1 .. free - 1 : [a EXCEPT ![0] = v][i] = a[i]
    BY <1>1, <1>2
  <2> QED
    BY <2>1 DEF Stored
<1>4. Free([a EXCEPT ![0] = v], free)
  <2>1. \A i \in Slot : i >= free => i # 0
    BY <1>1
  <2> QED
    BY <1>2, <2>1 DEF Free
<1> QED
  BY <1>2, <1>3, <1>4

\* What execve sees of an array whose first NULL is at m.
LEMMA EntriesAre ==
    ASSUME NEW a \in Arrays, NEW m \in Slot, a[m] = Null, \A j \in Slot : j < m => a[j] # Null
    PROVE  /\ Entries(a) \in Seq(Int) /\ Len(Entries(a)) = m
           /\ \A k \in 1 .. m : Entries(a)[k] = a[k - 1]
<1> DEFINE P(i) == /\ i = MaxArgc + 1 \/ a[i] = Null
                   /\ \A j \in Slot : j < i => a[j] # Null
<1>1. m \in Slot \cup {MaxArgc + 1} /\ P(m)
  OBVIOUS
<1>2. ASSUME NEW i \in Slot \cup {MaxArgc + 1}, P(i) PROVE i = m
  <2>1. i \in Nat /\ m \in Nat /\ m < MaxArgc + 1 /\ (i = MaxArgc + 1 \/ i \in Slot)
    BY BoundsAssumption DEF Slot
  <2>2. ~(m < i)
    BY <1>2
  <2>3. ~(i < m)
    BY <1>2, <2>1
  <2> QED
    BY <2>1, <2>2, <2>3
<1>3. m = CHOOSE i \in Slot \cup {MaxArgc + 1} : P(i)
  <2> HIDE DEF P
  <2> QED
    BY <1>1, <1>2
<1>4. Entries(a) = [k \in 1 .. m |-> a[k - 1]]
  BY <1>3 DEF Entries
<1>5. m \in Nat /\ \A k \in 1 .. m : k - 1 \in Slot
  BY BoundsAssumption DEF Slot
<1>6. \A k \in 1 .. m : a[k - 1] \in Int
  BY <1>5 DEF Arrays
<1> QED
  BY <1>4, <1>5, <1>6

-----------------------------------------------------------------------------
(* Starting a service.                                                     *)

\* What execute_command is called with.
Service(c, last) == [last |-> last, argv |-> Entries(c.params), env |-> Environment(c),
                     ended |-> Ended(c.params) /\ Ended(c.envs)]
Services == {Service(c, last) : c \in Commands(MaxArgc + 1, Slots), last \in Nat}

\* The lines of a block are numbers.
LEMMA LineNumbers ==
    ASSUME NEW n \in Nat, NEW K
    PROVE  Lines(n, K) \subseteq 1 .. n /\ Lines(n, K) \in SUBSET Int /\ \A x \in Lines(n, K) : x > 0
BY DEF Lines, Block

\* Of an array that ends, the part that is used ends with the first NULL.
LEMMA UsedPart ==
    ASSUME NEW a \in Arrays, Ended(a), NEW first \in {0, 1}, NEW free \in 0 .. MaxArgc + 1,
           first <= free, first = 1 => a[0] # Null,
           NEW S \in SUBSET Int, \A x \in S : x > 0, Stored(a, first, free, S), Free(a, free)
    PROVE  /\ free \in Slot /\ a[free] = Null /\ \A j \in Slot : j < free => a[j] # Null
<1>1. MaxArgc \in Nat /\ free \in Nat /\ \A i \in Slot : i \in Nat
  BY BoundsAssumption DEF Slot
<1>2. ASSUME NEW j \in Slot, j < free PROVE a[j] # Null
  <2>1. CASE first <= j
    <3>1. j \in first .. free - 1
      BY <1>1, <1>2, <2>1
    <3>2. a[j] \in S
      BY <3>1 DEF Stored
    <3> QED
      BY <3>2 DEF Null
  <2>2. CASE j < first
    <3>1. first = 1 /\ j = 0
      BY <1>1, <2>2
    <3> QED
      BY <3>1
  <2> QED
    BY <1>1, <2>1, <2>2
<1>3. free \in Slot
  <2>1. PICK i \in Slot : a[i] = Null
    BY DEF Ended
  <2>2. ~(i < free)
    BY <1>2, <2>1
  <2> QED
    BY <1>1, <2>2 DEF Slot
<1>4. a[free] = Null
  BY <1>1, <1>3 DEF Free
<1> QED
  BY <1>2, <1>3, <1>4

\* execute_command gives a service what the section says.
LEMMA StartsWithOwn ==
    ASSUME ConfigTypeOK, Mirrors, stage = "reading", Complete, NEW n, n = Len(file), n > 0
    PROVE  GivenOwn(Service(cmd, n))
<1> DEFINE l == Service(cmd, n)
           P == Lines(n, {"param"})
           E == Lines(n, {"exec", "other"})
<1> SUFFICES ASSUME Ended(cmd.params), Ended(cmd.envs), Fresh(n)
             PROVE  /\ Entries(cmd.params)[1] = Program(n)
                    /\ Lists(Tail(Entries(cmd.params)), P)
                    /\ \E k \in 0 .. Len(Environment(cmd)) :
                          /\ Lists(SubSeq(Environment(cmd), 1, k), E)
                          /\ \A i \in k + 1 .. Len(Environment(cmd)) : Environment(cmd)[i] = Inherited
  BY DEF GivenOwn, Service
<1>1. /\ cmd.params \in Arrays /\ cmd.envs \in Arrays /\ MaxArgc \in Nat /\ MaxArgc > 0
      /\ cmd.n_params \in 0 .. MaxArgc + 1 /\ cmd.n_envs \in 0 .. MaxArgc + 1
      /\ n \in Nat /\ Environ \in Nat
  BY BoundsAssumption DEF ConfigTypeOK, Arrays
<1>2. /\ cmd.n_params >= 1 /\ cmd.params[0] = Program(n) /\ cmd.params[0] # Null
      /\ Stored(cmd.params, 1, cmd.n_params, P) /\ Stored(cmd.envs, 0, cmd.n_envs, E)
      /\ Free(cmd.params, cmd.n_params) /\ Free(cmd.envs, cmd.n_envs)
  <2>1. file # <<>>
    BY <1>1 DEF ConfigTypeOK
  <2> QED
    BY <2>1 DEF Mirrors, Complete
<1>3. Entries(cmd.params)[1] = Program(n) /\ Lists(Tail(Entries(cmd.params)), P)
  <2> DEFINE m == cmd.n_params
             q == Entries(cmd.params)
  <2>1. /\ m \in Slot /\ cmd.params[m] = Null /\ \A j \in Slot : j < m => cmd.params[j] # Null
    BY <1>1, <1>2, LineNumbers, UsedPart
  <2>2. q \in Seq(Int) /\ Len(q) = m /\ \A k \in 1 .. m : q[k] = cmd.params[k - 1]
    BY <1>1, <2>1, EntriesAre
  <2> HIDE DEF q
  <2>3. m \in Nat /\ m >= 1
    BY <1>1, <1>2
  <2>4. /\ Len(Tail(q)) = m - 1
        /\ \A k \in 1 .. m - 1 : Tail(q)[k] = cmd.params[k]
    <3>1. \A k \in 1 .. m - 1 : k + 1 \in 1 .. m /\ (k + 1) - 1 = k
      BY <2>3
    <3> QED
      BY <2>2, <2>3, <3>1
  <2>5. Lists(Tail(q), P)
    <3>1. /\ \A k \in 1 .. m - 1 : cmd.params[k] \in P
          /\ \A j, k \in 1 .. m - 1 : j < k => cmd.params[j] < cmd.params[k]
          /\ \A x \in P : \E k \in 1 .. m - 1 : cmd.params[k] = x
      BY <1>2 DEF Stored
    <3> DEFINE w == Tail(q)
    <3>2. Len(w) = m - 1 /\ \A k \in 1 .. m - 1 : w[k] = cmd.params[k]
      BY <2>4
    <3> HIDE DEF w
    <3>3. \A j, k \in 1 .. Len(w) : j < k => w[j] < w[k]
      BY <3>1, <3>2
    <3>4. {w[k] : k \in 1 .. Len(w)} = P
      BY <3>1, <3>2
    <3> QED
      BY <3>3, <3>4 DEF Lists, w
  <2>6. q[1] = cmd.params[0]
    BY <2>2, <2>3
  <2> QED
    BY <1>2, <2>5, <2>6 DEF q
<1>4. \E k \in 0 .. Len(Environment(cmd)) :
          /\ Lists(SubSeq(Environment(cmd), 1, k), E)
          /\ \A i \in k + 1 .. Len(Environment(cmd)) : Environment(cmd)[i] = Inherited
  <2> DEFINE k == cmd.n_envs
             a == Fill(cmd)
             m == IF k + Environ < MaxArgc THEN k + Environ ELSE MaxArgc
             q == Entries(a)
  <2>1. /\ k \in Slot /\ \A j \in Slot : j < k => cmd.envs[j] # Null
    BY <1>1, <1>2, LineNumbers, UsedPart
  <2>2. k \in Nat /\ k <= MaxArgc /\ m \in Nat /\ k <= m /\ m <= MaxArgc /\ m \in Slot
    BY <1>1, <2>1 DEF Slot
  <2>3. /\ \A i \in Slot : i < k => a[i] = cmd.envs[i]
        /\ \A i \in Slot : k <= i /\ i < m => a[i] = Inherited
        /\ a[m] = Null /\ a \in Arrays
    <3>1. \A i \in Slot : i \in Nat /\ a[i] = IF k <= i /\ i < k + Environ /\ i < MaxArgc
                                              THEN Inherited ELSE cmd.envs[i]
      BY DEF Fill, Slot
    <3>2. cmd.envs[m] = Null
      BY <1>2, <2>2 DEF Free
    <3>3. a \in Arrays
      BY <1>1 DEF Fill, Arrays, Inherited
    <3> QED
      BY <1>1, <2>2, <3>1, <3>2, <3>3
  <2> HIDE DEF a, m
  <2>4. \A j \in Slot : j < m => a[j] # Null
    BY <2>1, <2>2, <2>3 DEF Inherited, Null, Slot
  <2>5. Environment(cmd) = q
    BY <2>2, <2>3 DEF Environment, Ended, a
  <2>6. q \in Seq(Int) /\ Len(q) = m /\ \A i \in 1 .. m : q[i] = a[i - 1]
    BY <2>2, <2>3, <2>4, EntriesAre
  <2> HIDE DEF q
  <2>7. ASSUME NEW i \in k + 1 .. m PROVE q[i] = Inherited
    <3>1. i - 1 \in Slot /\ k <= i - 1 /\ i - 1 < m /\ i \in 1 .. m
      BY <1>1, <2>2 DEF Slot
    <3> QED
      BY <2>3, <2>6, <3>1
  <2>8. SubSeq(q, 1, k) \in Seq(Int) /\ Len(SubSeq(q, 1, k)) = k
        /\ \A i \in 1 .. k : SubSeq(q, 1, k)[i] = cmd.envs[i - 1]
    <3>1. \A i \in 1 .. k : i \in 1 .. m /\ i - 1 \in Slot /\ i - 1 < k
      BY <1>1, <2>2 DEF Slot
    <3>2. SubSeq(q, 1, k) = [i \in 1 .. k |-> q[i]]
      BY <2>2, <2>6
    <3>3. \A i \in 1 .. k : q[i] = cmd.envs[i - 1] /\ q[i] \in Int
      BY <2>3, <2>6, <3>1
    <3> QED
      BY <2>2, <3>2, <3>3
  <2>9. Lists(SubSeq(q, 1, k), E)
    <3> DEFINE w == SubSeq(q, 1, k)
    <3>1. /\ \A i \in 0 .. k - 1 : cmd.envs[i] \in E
          /\ \A i, j \in 0 .. k - 1 : i < j => cmd.envs[i] < cmd.envs[j]
          /\ \A x \in E : \E i \in 0 .. k - 1 : cmd.envs[i] = x
      BY <1>2 DEF Stored
    <3>2. Len(w) = k /\ \A i \in 1 .. k : w[i] = cmd.envs[i - 1]
      BY <2>8
    <3> HIDE DEF w
    <3>3. \A i \in 1 .. k : i - 1 \in 0 .. k - 1
      BY <2>2
    <3>4. \A i, j \in 1 .. k : i < j => w[i] < w[j]
      <4>1. \A i, j \in 1 .. k : i < j => i - 1 < j - 1
        BY <2>2
      <4> QED
        BY <3>1, <3>2, <3>3, <4>1
    <3>5. \A i \in 1 .. k : w[i] \in E
      BY <3>1, <3>2, <3>3
    <3>6. ASSUME NEW x \in E PROVE \E i \in 1 .. k : w[i] = x
      <4>1. PICK i \in 0 .. k - 1 : cmd.envs[i] = x
        BY <3>1
      <4>2. i + 1 \in 1 .. k /\ (i + 1) - 1 = i
        BY <2>2
      <4>3. w[i + 1] = x
        BY <3>2, <4>1, <4>2
      <4> QED
        BY <4>2, <4>3
    <3>7. {w[i] : i \in 1 .. k} = E
      BY <3>5, <3>6
    <3>8. Lists(w, E)
      BY <3>2, <3>4, <3>7 DEF Lists
    <3> QED
      BY <3>8 DEF w
  <2> QED
    BY <2>2, <2>5, <2>6, <2>7, <2>9
<1> QED
  BY <1>3, <1>4

-----------------------------------------------------------------------------
(* A line is read: the section is opened, then the line is stored.         *)

Base(s) == IF NewSection(s) THEN Opened(s) ELSE cmd
Same(s) == file # <<>> /\ file[Len(file)].section = s
Before(s, K) == IF Same(s) THEN Lines(Len(file), K) ELSE {}

LEMMA SameSection ==
    ASSUME ConfigTypeOK, Mirrors, stage = "reading", NEW s \in Section
    PROVE  /\ NewSection(s) <=> ~Same(s)
           /\ file # <<>> <=> Len(file) > 0
           /\ Complete <=> file # <<>> /\ HasExec(Len(file))
<1>1. file # <<>> <=> Len(file) > 0
  BY DEF ConfigTypeOK
<1>2. CASE file = <<>>
  <2>1. 0 \in Slot
    BY BoundsAssumption DEF Slot
  <2> QED
    BY <1>1, <1>2, <2>1, BoundsAssumption DEF Mirrors, NewSection, Same, Zero, Complete
<1>3. CASE file # <<>>
  BY <1>1, <1>3 DEF Mirrors, NewSection, Same
<1> QED
  BY <1>1, <1>2, <1>3

\* The record once the section of the line is open: it has what the lines
\* before say of that section.
LEMMA Begins ==
    ASSUME ConfigTypeOK, Mirrors, stage = "reading", Guarded, NEW s \in Section, NEW key \in Keys,
           file' = Append(file, [section |-> s, key |-> key]), NEW n, n = Len(file)
    PROVE  /\ Base(s) \in Commands(MaxArgc, Slots) /\ Base(s).name = s /\ Base(s).n_params >= 1
           /\ Base(s).params[0] # Null <=> Same(s) /\ HasExec(n)
           /\ Fresh(n + 1)' =>
                 /\ Same(s) /\ HasExec(n) => Base(s).params[0] = Program(n)
                 /\ Stored(Base(s).params, 1, Base(s).n_params, Before(s, {"param"}))
                 /\ Stored(Base(s).envs, 0, Base(s).n_envs, Before(s, {"exec", "other"}))
                 /\ Free(Base(s).params, Base(s).n_params) /\ Free(Base(s).envs, Base(s).n_envs)
<1>1. cmd \in Commands(MaxArgc, Slots)
  BY BoundsAssumption DEF ConfigTypeOK, Guarded, Commands
<1>2. file \in Seq(Rows) /\ [section |-> s, key |-> key] \in Rows /\ n \in Nat
  BY DEF ConfigTypeOK, Rows
<1>3. /\ Same(s) => (Fresh(n + 1)' <=> Fresh(n))
      /\ ~Same(s) /\ n > 0 => (Fresh(n + 1)' <=> HasExec(n))
  BY <1>2, SameSection, LastLine DEF Same
<1>4. CASE Same(s)
  <2>1. Base(s) = cmd /\ file # <<>>
    BY <1>4, SameSection DEF Base, Same
  <2>2. cmd.name = s
    BY <1>4, <2>1 DEF Mirrors, Same
  <2> QED
    BY <1>1, <1>3, <1>4, <2>1, <2>2 DEF Mirrors, Before, Complete
<1>5. CASE ~Same(s)
  <2>1. Base(s) = Opened(s) /\ Base(s) \in Commands(MaxArgc, Slots)
    BY <1>5, SameSection, OpenedBounds DEF Base
  <2>2. CASE Complete \/ file = <<>>
    <3>1. Base(s) = [Zero EXCEPT !.name = s, !.n_params = 1, !.s_p = @ + 1]
      BY <2>1, <2>2, SameSection DEF Opened, Cleared, Mirrors
    <3>2. /\ Base(s).name = s /\ Base(s).n_params = 1 /\ Base(s).n_envs = 0
          /\ \A i \in Slot : Base(s).params[i] = Null /\ Base(s).envs[i] = Null
          /\ 0 \in Slot
      BY <3>1, BoundsAssumption DEF Zero, Slot
    <3>3. /\ Stored(Base(s).params, 1, 1, {}) /\ Stored(Base(s).envs, 0, 0, {})
          /\ Free(Base(s).params, 1) /\ Free(Base(s).envs, 0)
      <4>1. 1 .. 1 - 1 = {} /\ 0 .. 0 - 1 = {}
        OBVIOUS
      <4> QED
        BY <3>2, <4>1 DEF Stored, Free
    <3> QED
      BY <1>5, <2>1, <3>2, <3>3 DEF Before
  <2>3. CASE ~Complete /\ file # <<>>
    <3>1. Base(s) = [cmd EXCEPT !.name = s, !.n_params = 1, !.s_p = @ + 1]
      BY <2>1, <2>3 DEF Opened
    <3>2. Base(s).name = s /\ Base(s).n_params = 1 /\ Base(s).params = cmd.params
      BY <1>1, <3>1 DEF Commands
    <3>3. ~Fresh(n + 1)'
      BY <1>3, <1>5, <2>3, SameSection
    <3> QED
      BY <1>5, <2>1, <2>3, <3>2, <3>3 DEF Complete
  <2> QED
    BY <2>2, <2>3
<1> QED
  BY <1>4, <1>5

\* The lines of the section, with this one.
LEMMA LinesMore ==
    ASSUME ConfigTypeOK, NEW s \in Section, NEW key \in Keys,
           file' = Append(file, [section |-> s, key |-> key]), NEW n, n = Len(file)
    PROVE  /\ \A K : /\ key \in K => Lines(n + 1, K)' = Before(s, K) \cup {n + 1}
                     /\ key \notin K => Lines(n + 1, K)' = Before(s, K)
           /\ HasExec(n + 1)' <=> key = "exec" \/ (Same(s) /\ HasExec(n))
           /\ \A K : Before(s, K) \in SUBSET Int /\ \A x \in Before(s, K) : x < n + 1
<1>1. file \in Seq(Rows) /\ [section |-> s, key |-> key] \in Rows /\ n \in Nat
  BY DEF ConfigTypeOK, Rows
<1>2. Same(s) <=> n > 0 /\ file[n].section = s
  BY <1>1 DEF Same
<1>3. \A K : Lines(n + 1, K)' = Before(s, K) \cup (IF key \in K THEN {n + 1} ELSE {})
  BY <1>1, <1>2, LastLine DEF Before
<1>4. ASSUME NEW K
      PROVE  /\ key \in K => Lines(n + 1, K)' = Before(s, K) \cup {n + 1}
             /\ key \notin K => Lines(n + 1, K)' = Before(s, K)
  <2>1. Before(s, K) \cup {} = Before(s, K)
    OBVIOUS
  <2>2. Lines(n + 1, K)' = Before(s, K) \cup (IF key \in K THEN {n + 1} ELSE {})
    BY <1>3
  <2> QED
    BY <2>1, <2>2
<1>5. HasExec(n + 1)' <=> key = "exec" \/ (Same(s) /\ HasExec(n))
  BY <1>1, <1>2, LastLine
<1>6. ASSUME NEW K PROVE Before(s, K) \in SUBSET Int /\ \A x \in Before(s, K) : x < n + 1
  BY <1>1, LineNumbers DEF Before
<1> QED
  BY <1>4, <1>5, <1>6

\* The last line "exec" of the section is the program.
LEMMA LastProgram ==
    ASSUME ConfigTypeOK, Mirrors, stage = "reading", NEW s \in Section, NEW key \in Keys,
           file' = Append(file, [section |-> s, key |-> key]), NEW n, n = Len(file)
    PROVE  /\ key = "exec" => Program(n + 1)' = n + 1
           /\ key # "exec" /\ Same(s) => Program(n + 1)' = Program(n)
<1>1. file \in Seq(Rows) /\ [section |-> s, key |-> key] \in Rows /\ n \in Nat
  BY DEF ConfigTypeOK, Rows
<1>2. \A K : /\ key \in K => Lines(n + 1, K)' = Before(s, K) \cup {n + 1}
             /\ key \notin K => Lines(n + 1, K)' = Before(s, K)
  BY LinesMore
<1>3. CASE key = "exec"
  <2> DEFINE S == Lines(n + 1, {"exec"})'
  <2>1. S = Before(s, {"exec"}) \cup {n + 1} /\ \A x \in Before(s, {"exec"}) : x \in 1 .. n
    BY <1>1, <1>2, <1>3, LineNumbers DEF Before
  <2>2. Program(n + 1)' = CHOOSE i \in S : \A j \in S : j <= i
    BY DEF Program
  <2> HIDE DEF S
  <2>3. n + 1 \in S /\ \A j \in S : j <= n + 1
    BY <1>1, <2>1
  <2>4. \A i \in S : (\A j \in S : j <= i) => i = n + 1
    BY <1>1, <2>1
  <2> QED
    BY <1>3, <2>2, <2>3, <2>4
<1>4. CASE key # "exec" /\ Same(s)
  <2>1. Lines(n + 1, {"exec"})' = Lines(n, {"exec"})
    BY <1>2, <1>4 DEF Before
  <2> QED
    BY <1>4, <2>1 DEF Program
<1> QED
  BY <1>3, <1>4

\* What storing a line changes.
LEMMA StoreEffect ==
    ASSUME NEW c \in Commands(MaxArgc, Slots), NEW key \in Keys, NEW v \in Int
    PROVE  LET d == Store(c, key, v)
           IN  /\ d.name = c.name
               /\ key = "param" => /\ d.params = [c.params EXCEPT ![c.n_params] = v]
                                   /\ d.n_params = c.n_params + 1
                                   /\ d.envs = c.envs /\ d.n_envs = c.n_envs
               /\ key = "exec" => /\ d.params = [c.params EXCEPT ![0] = v]
                                  /\ d.n_params = c.n_params
               /\ key = "other" => d.params = c.params /\ d.n_params = c.n_params
               /\ key \in {"exec", "other"} => /\ d.envs = [c.envs EXCEPT ![c.n_envs] = v]
                                               /\ d.n_envs = c.n_envs + 1
<1>1. CASE key = "param"
  BY <1>1 DEF Store, Commands
<1>2. CASE key = "exec"
  BY <1>2 DEF Store, Commands
<1>3. CASE key = "other"
  BY <1>3 DEF Store, Commands
<1> QED
  BY <1>1, <1>2, <1>3 DEF Keys

\* The record has the line.
LEMMA StoresLine ==
    ASSUME ConfigTypeOK, ConfigTypeOK', Mirrors, stage = "reading", Guarded, NEW s \in Section, NEW key \in Keys,
           file' = Append(file, [section |-> s, key |-> key]),
           NEW n, n = Len(file), NEW b, b = Base(s), NEW d, d = Store(b, key, n + 1), cmd' = d
    PROVE  Mirrors'
<1>1. /\ file \in Seq(Rows) /\ [section |-> s, key |-> key] \in Rows /\ n \in Nat
      /\ 0 \in Slot /\ MaxArgc \in Nat
  BY BoundsAssumption DEF ConfigTypeOK, Rows, Slot
<1>3. /\ Len(file') = n + 1 /\ file'[n + 1] = [section |-> s, key |-> key] /\ file' # <<>>
  BY <1>1
<1>4. /\ HasExec(n + 1)' <=> key = "exec" \/ (Same(s) /\ HasExec(n))
      /\ \A K : /\ key \in K => Lines(n + 1, K)' = Before(s, K) \cup {n + 1}
                /\ key \notin K => Lines(n + 1, K)' = Before(s, K)
  BY LinesMore
<1>5. /\ b \in Commands(MaxArgc, Slots) /\ b.name = s /\ b.n_params >= 1
      /\ b.params[0] # Null <=> Same(s) /\ HasExec(n)
  BY Begins
<1>6. Fresh(n + 1)' =>
                 /\ Same(s) /\ HasExec(n) => b.params[0] = Program(n)
                 /\ Stored(b.params, 1, b.n_params, Before(s, {"param"}))
                 /\ Stored(b.envs, 0, b.n_envs, Before(s, {"exec", "other"}))
                 /\ Free(b.params, b.n_params) /\ Free(b.envs, b.n_envs)
  BY Begins
<1>7. \A K : Before(s, K) \in SUBSET Int /\ \A x \in Before(s, K) : x < n + 1
  BY LinesMore
<1>8. /\ key = "exec" => Program(n + 1)' = n + 1
      /\ key # "exec" /\ Same(s) => Program(n + 1)' = Program(n)
  BY LastProgram
<1>9. /\ d.name = b.name
      /\ key = "param" => /\ d.params = [b.params EXCEPT ![b.n_params] = n + 1]
                          /\ d.n_params = b.n_params + 1
                          /\ d.envs = b.envs /\ d.n_envs = b.n_envs
      /\ key = "exec" => d.params = [b.params EXCEPT ![0] = n + 1] /\ d.n_params = b.n_params
      /\ key = "other" => d.params = b.params /\ d.n_params = b.n_params
      /\ key \in {"exec", "other"} => /\ d.envs = [b.envs EXCEPT ![b.n_envs] = n + 1]
                                      /\ d.n_envs = b.n_envs + 1
  BY <1>1, <1>5, StoreEffect
<1>10. /\ b.params \in Arrays /\ b.envs \in Arrays
       /\ b.n_params \in Slot /\ b.n_params \in Nat /\ b.n_envs \in Slot /\ b.n_envs \in Nat
       /\ b.n_params - 1 \in Slot /\ b.n_params # 0 /\ n + 1 # Null
  <2>1. /\ b.params \in Arrays /\ b.envs \in Arrays
        /\ b.n_params \in 0 .. MaxArgc /\ b.n_envs \in 0 .. MaxArgc
    BY <1>5 DEF Commands, Arrays
  <2>2. b.n_params - 1 \in 0 .. MaxArgc /\ b.n_params # 0 /\ n + 1 # 0
    BY <1>1, <1>5, <2>1
  <2> QED
    BY <2>1, <2>2 DEF Slot, Null
<1>11. key = "param" \/ key = "exec" \/ key = "other"
  BY DEF Keys
<1>12. /\ d.n_params >= 1
       /\ d.params[0] # Null <=> HasExec(n + 1)'
       /\ key = "exec" => d.params[0] = n + 1
       /\ key # "exec" => d.params[0] = b.params[0]
  <2>1. CASE key = "param"
    <3>1. d.params[0] = b.params[0]
      BY <1>1, <1>9, <1>10, <2>1 DEF Arrays
    <3> QED
      BY <1>4, <1>5, <1>9, <1>10, <2>1, <3>1
  <2>2. CASE key = "exec"
    <3>1. d.params[0] = n + 1
      BY <1>1, <1>9, <1>10, <2>2 DEF Arrays
    <3> QED
      BY <1>4, <1>5, <1>9, <1>10, <2>2, <3>1
  <2>3. CASE key = "other"
    BY <1>4, <1>5, <1>9, <2>3
  <2> QED
    BY <1>11, <2>1, <2>2, <2>3
<1>13. ASSUME Fresh(n + 1)'
       PROVE  /\ HasExec(n + 1)' => d.params[0] = Program(n + 1)'
              /\ Stored(d.params, 1, d.n_params, Lines(n + 1, {"param"})')
              /\ Stored(d.envs, 0, d.n_envs, Lines(n + 1, {"exec", "other"})')
              /\ Free(d.params, d.n_params) /\ Free(d.envs, d.n_envs)
  <2>1. HasExec(n + 1)' => d.params[0] = Program(n + 1)'
    BY <1>4, <1>6, <1>8, <1>12, <1>13
  <2>2. /\ Stored(d.params, 1, d.n_params, Lines(n + 1, {"param"})')
        /\ Free(d.params, d.n_params)
    <3>1. CASE key = "param"
      <4>1. Lines(n + 1, {"param"})' = Before(s, {"param"}) \cup {n + 1}
        BY <1>4, <3>1
      <4>2. Stored(b.params, 1, b.n_params, Before(s, {"param"})) /\ Free(b.params, b.n_params)
        BY <1>6, <1>13
      <4>3. /\ Stored([b.params EXCEPT ![b.n_params] = n + 1], 1, b.n_params + 1,
                      Before(s, {"param"}) \cup {n + 1})
            /\ Free([b.params EXCEPT ![b.n_params] = n + 1], b.n_params + 1)
        <5>1. n + 1 \in Int /\ 1 \in {0, 1} /\ 1 <= b.n_params
          BY <1>1, <1>5
        <5> QED
          BY <1>7, <1>10, <4>2, <5>1, StoredMore
      <4> QED
        BY <1>9, <3>1, <4>1, <4>3
    <3>2. CASE key = "exec"
      <4>1. Lines(n + 1, {"param"})' = Before(s, {"param"})
        BY <1>4, <3>2
      <4>2. Stored(b.params, 1, b.n_params, Before(s, {"param"})) /\ Free(b.params, b.n_params)
        BY <1>6, <1>13
      <4>3. /\ Stored([b.params EXCEPT ![0] = n + 1], 1, b.n_params, Before(s, {"param"}))
            /\ Free([b.params EXCEPT ![0] = n + 1], b.n_params)
        <5>1. n + 1 \in Int /\ b.n_params >= 1
          BY <1>1, <1>5
        <5> QED
          BY <1>10, <4>2, <5>1, StoredProgram
      <4> QED
        BY <1>9, <3>2, <4>1, <4>3
    <3>3. CASE key = "other"
      <4>1. Lines(n + 1, {"param"})' = Before(s, {"param"})
        BY <1>4, <3>3
      <4> QED
        BY <1>6, <1>9, <1>13, <3>3, <4>1
    <3> QED
      BY <1>11, <3>1, <3>2, <3>3
  <2>3. /\ Stored(d.envs, 0, d.n_envs, Lines(n + 1, {"exec", "other"})')
        /\ Free(d.envs, d.n_envs)
    <3>1. CASE key = "param"
      <4>1. Lines(n + 1, {"exec", "other"})' = Before(s, {"exec", "other"})
        BY <1>4, <3>1
      <4> QED
        BY <1>6, <1>9, <1>13, <3>1, <4>1
    <3>2. CASE key \in {"exec", "other"}
      <4>1. Lines(n + 1, {"exec", "other"})' = Before(s, {"exec", "other"}) \cup {n + 1}
        BY <1>4, <3>2
      <4> QED
        <5>1. Stored(b.envs, 0, b.n_envs, Before(s, {"exec", "other"})) /\ Free(b.envs, b.n_envs)
          BY <1>6, <1>13
        <5>2. n + 1 \in Int /\ 0 \in {0, 1} /\ 0 <= b.n_envs
          BY <1>1, <1>10
        <5>3. /\ Stored([b.envs EXCEPT ![b.n_envs] = n + 1], 0, b.n_envs + 1,
                        Before(s, {"exec", "other"}) \cup {n + 1})
              /\ Free([b.envs EXCEPT ![b.n_envs] = n + 1], b.n_envs + 1)
          BY <1>7, <1>10, <5>1, <5>2, StoredMore
        <5> QED
          BY <1>9, <3>2, <4>1, <5>3
    <3> QED
      BY <1>11, <3>1, <3>2
  <2> QED
    BY <2>1, <2>2, <2>3
<1>14. d.name = file'[n + 1].section
  BY <1>3, <1>5, <1>9
<1> QED
  BY <1>3, <1>12, <1>13, <1>14 DEF Mirrors, Complete

-----------------------------------------------------------------------------
(* What has been started.                                                  *)

Lasts(q) == [k \in 1 .. Len(q) |-> q[k].last]

\* One more service, of a later section.
LEMMA StartsMore ==
    ASSUME NEW q \in Seq(Services), NEW e \in Services, NEW S \in SUBSET Int,
           Lists(Lasts(q), S), \A x \in S : x < e.last
    PROVE  Lists(Lasts(Append(q, e)), S \cup {e.last})
<1> DEFINE m == Len(q)
           w == Lasts(q)
           r == Lasts(Append(q, e))
<1>1. /\ m \in Nat /\ Len(Append(q, e)) = m + 1
      /\ \A k \in 1 .. m : Append(q, e)[k] = q[k]
      /\ Append(q, e)[m + 1] = e
      /\ \A k \in 1 .. m : k \in 1 .. m + 1
      /\ \A k \in 1 .. m + 1 : k \in Nat /\ (k \in 1 .. m \/ k = m + 1)
      /\ m + 1 \in 1 .. m + 1
  OBVIOUS
<1>2. Len(w) = m /\ \A k \in 1 .. m : w[k] = q[k].last
  BY <1>1 DEF Lasts
<1>3. Len(r) = m + 1 /\ r[m + 1] = e.last /\ \A k \in 1 .. m : r[k] = q[k].last
  BY <1>1 DEF Lasts
<1> HIDE DEF m, w, r
<1>4. /\ \A j, k \in 1 .. m : j < k => w[j] < w[k]
      /\ {w[k] : k \in 1 .. m} = S
  BY <1>2 DEF Lists, w
<1>5. /\ \A k \in 1 .. m : r[k] = w[k] /\ w[k] \in S
      /\ \A x \in S : \E k \in 1 .. m : r[k] = x
  BY <1>2, <1>3, <1>4
<1>6. ASSUME NEW j \in 1 .. m + 1, NEW k \in 1 .. m + 1, j < k PROVE r[j] < r[k]
  <2>1. j \in 1 .. m
    BY <1>1, <1>6
  <2>2. CASE k = m + 1
    BY <1>3, <1>5, <2>1, <2>2
  <2>3. CASE k \in 1 .. m
    BY <1>4, <1>5, <1>6, <2>1, <2>3
  <2> QED
    BY <1>1, <2>2, <2>3
<1>7. {r[k] : k \in 1 .. m + 1} = S \cup {e.last}
  <2>1. ASSUME NEW k \in 1 .. m + 1 PROVE r[k] \in S \cup {e.last}
    BY <1>1, <1>3, <1>5
  <2>2. ASSUME NEW x \in S \cup {e.last} PROVE \E k \in 1 .. m + 1 : r[k] = x
    BY <1>1, <1>3, <1>5
  <2> QED
    BY <2>1, <2>2
<1> QED
  BY <1>3, <1>6, <1>7 DEF Lists, r

\* The last lines of the sections that have a program.
Closing == {n \in Ends : HasExec(n)}

\* The invariant, with the type of what was started.
ReaderInv == ConfigInv /\ launched \in Seq(Services)

\* execute_command is called with the record.
LEMMA LaunchType == ASSUME ReaderInv PROVE LaunchLast \in Seq(Services)
<1>1. cmd \in Commands(MaxArgc + 1, Slots) /\ Len(file) \in Nat
  BY DEF ReaderInv, ConfigInv, ConfigTypeOK, Commands
<1>2. Service(cmd, Len(file)) \in Services
  BY <1>1 DEF Services
<1> QED
  BY <1>2 DEF LaunchLast, Launch, Service, ReaderInv

\* A step that starts the section that ends in n, if it has a program.
LEMMA StartsSection ==
    ASSUME ReaderInv, stage = "reading", NEW n, n = Len(file), n > 0, \A x \in Closing : x < n,
           launched' = LaunchLast, Closing' = Closing \cup (IF HasExec(n) THEN {n} ELSE {})
    PROVE  EachStartedOnce'
<1>1. Lists(Lasts(launched), Closing)
  BY DEF ReaderInv, ConfigInv, EachStartedOnce, Closing, Lasts
<1>2. n \in Nat /\ file # <<>> /\ Closing \in SUBSET Int
  BY DEF ReaderInv, ConfigInv, ConfigTypeOK, Closing, Ends
<1>3. Complete <=> HasExec(n)
  BY <1>2 DEF ReaderInv, ConfigInv, Mirrors
<1>4. Service(cmd, n) \in Services /\ Service(cmd, n).last = n
  <2>1. cmd \in Commands(MaxArgc + 1, Slots)
    BY DEF ReaderInv, ConfigInv, ConfigTypeOK, Commands
  <2> QED
    BY <1>2, <2>1 DEF Services, Service
<1>5. Lists(Lasts(launched'), Closing')
  <2>1. CASE HasExec(n)
    <3>1. launched' = Append(launched, Service(cmd, n)) /\ Closing' = Closing \cup {n}
      BY <1>3, <2>1 DEF LaunchLast, Launch, Service
    <3> QED
      BY <1>1, <1>2, <1>4, <3>1, StartsMore DEF ReaderInv
  <2>2. CASE ~HasExec(n)
    <3>1. launched' = launched /\ Closing' = Closing
      BY <1>3, <2>2 DEF LaunchLast
    <3> QED
      BY <1>1, <3>1
  <2> QED
    BY <2>1, <2>2
<1> QED
  BY <1>5 DEF EachStartedOnce, Closing, Lasts

\* What was given to a service stays its own.
LEMMA OwnStays ==
    ASSUME ReaderInv, stage = "reading", NEW n, n = Len(file), launched' \in {launched, LaunchLast},
           launched' # launched => n > 0,
           file' = file \/ (\E l \in Rows : file' = Append(file, l))
    PROVE  OwnArguments'
<1>1. file \in Seq(Rows) /\ n \in Nat
  BY DEF ReaderInv, ConfigInv, ConfigTypeOK, Rows
<1>2. ASSUME NEW l, l.last \in 1 .. n, GivenOwn(l) PROVE GivenOwn(l)'
  <2>1. /\ Fresh(l.last)' <=> Fresh(l.last)
        /\ Program(l.last)' = Program(l.last)
        /\ \A K : Lines(l.last, K)' = Lines(l.last, K)
    <3>1. CASE file' = file
      BY <3>1 DEF Fresh, Program, Lines, HasExec, Block
    <3>2. CASE \E r \in Rows : file' = Append(file, r)
      BY <1>1, <1>2, <3>2, EarlierLines
    <3> QED
      BY <3>1, <3>2
  <2> QED
    BY <1>2, <2>1 DEF GivenOwn
<1>3. ASSUME NEW k \in 1 .. Len(launched) PROVE launched[k].last \in 1 .. n /\ GivenOwn(launched[k])
  <2>1. Lists(Lasts(launched), Closing)
    BY DEF ReaderInv, ConfigInv, EachStartedOnce, Closing, Lasts
  <2>2. Len(launched) \in Nat /\ Len(Lasts(launched)) = Len(launched)
        /\ Lasts(launched)[k] = launched[k].last
    BY DEF ReaderInv, Lasts
  <2>3. launched[k].last \in Closing
    BY <2>1, <2>2 DEF Lists
  <2> QED
    BY <2>3 DEF Closing, Ends, ReaderInv, ConfigInv, OwnArguments
<1>4. CASE launched' = launched
  BY <1>2, <1>3, <1>4 DEF OwnArguments
<1>5. CASE launched' # launched
  <2>1. n > 0 /\ Complete /\ launched' = Append(launched, Service(cmd, n))
    BY <1>5 DEF LaunchLast, Launch, Service
  <2>2. GivenOwn(Service(cmd, n))
    BY <2>1, StartsWithOwn DEF ReaderInv, ConfigInv
  <2>3. Service(cmd, n).last \in 1 .. n
    BY <1>1, <2>1 DEF Service
  <2>4. ASSUME NEW k \in 1 .. Len(launched')
        PROVE  \/ launched'[k] = Service(cmd, n)
               \/ k \in 1 .. Len(launched) /\ launched'[k] = launched[k]
    BY <2>1 DEF ReaderInv
  <2>5. ASSUME NEW k \in 1 .. Len(launched')
        PROVE  launched'[k].last \in 1 .. n /\ GivenOwn(launched'[k])
    BY <1>3, <2>2, <2>3, <2>4
  <2> QED
    BY <1>2, <2>5 DEF OwnArguments
<1> QED
  BY <1>4, <1>5

-----------------------------------------------------------------------------
(* The invariant.                                                          *)

LEMMA ReaderStarts == ASSUME ConfigInit PROVE ReaderInv
<1>1. /\ 0 \in Slot /\ Zero \in Commands(MaxArgc, Slots) /\ file = <<>> /\ cmd = Zero
      /\ file \in Seq(Rows) /\ Len(file) = 0 /\ launched = <<>> /\ Len(launched) = 0
      /\ launched \in Seq(Services)
  BY BoundsAssumption DEF ConfigInit, Commands, Zero, Slots, Slot, Null
<1>2. ConfigTypeOK
  BY <1>1, BoundsAssumption DEF ConfigInit, ConfigTypeOK, Commands, Rows, Zero, Slots, Slot, Null
<1>3. Mirrors
  BY <1>1 DEF Mirrors
<1>4. EachStartedOnce
  <2>1. Ends = {} /\ 1 .. 0 = {}
    BY <1>1 DEF Ends
  <2> DEFINE w == [k \in 1 .. Len(launched) |-> launched[k].last]
  <2>2. Len(w) = 0
    BY <1>1
  <2> HIDE DEF w
  <2>3. Lists(w, {n \in Ends : HasExec(n)})
    BY <2>1, <2>2 DEF Lists
  <2> QED
    BY <2>3 DEF EachStartedOnce, w
<1>5. OwnArguments
  BY <1>1 DEF OwnArguments
<1> QED
  BY <1>1, <1>2, <1>3, <1>4, <1>5 DEF ReaderInv, ConfigInv

LEMMA LineInv ==
    ASSUME ReaderInv, ConfigTypeOK', NEW s \in Section, NEW key \in Keys, Line(s, key)
    PROVE  ReaderInv'
<1> DEFINE l == [section |-> s, key |-> key]
<1>1. /\ ConfigTypeOK /\ Mirrors /\ stage = "reading" /\ Guarded /\ l \in Rows /\ file \in Seq(Rows)
      /\ file' = Append(file, l) /\ Len(file) \in Nat /\ (file # <<>> <=> Len(file) > 0)
  BY DEF Line, ReaderInv, ConfigInv, Rows, ConfigTypeOK
<1>2. IF Store(Base(s), key, Len(file) + 1).s_p <= Slots
      THEN cmd' = Store(Base(s), key, Len(file) + 1) /\ stage' = stage
      ELSE cmd' = cmd /\ stage' = "overflow"
  BY DEF Line, Base
<1>3. Mirrors'
  <2>1. CASE stage' = "overflow"
    BY <2>1 DEF Mirrors
  <2>2. CASE stage' # "overflow"
    <3>1. cmd' = Store(Base(s), key, Len(file) + 1)
      BY <1>2, <2>2
    <3> QED
      BY <1>1, <3>1, StoresLine
  <2> QED
    BY <2>1, <2>2
<1>4. launched' = IF ~Same(s) /\ file # <<>> THEN LaunchLast ELSE launched
  <2>1. /\ NewSection(s) <=> ~Same(s)
        /\ file # <<>> <=> Len(file) > 0
        /\ Complete <=> file # <<>> /\ HasExec(Len(file))
    BY <1>1, SameSection
  <2> QED
    BY <2>1 DEF Line, LaunchLast
<1>5. launched' # launched => Len(file) > 0
  BY <1>1, <1>4
<1>6. OwnArguments'
  BY <1>1, <1>4, <1>5, OwnStays
<1>7. ASSUME stage' # "overflow", NEW n, n = Len(file)
      PROVE  /\ \A m \in Closing : m \in 1 .. n /\ m < n
             /\ Closing' = Closing \cup {m \in {n} : ~Same(s) /\ n > 0 /\ HasExec(n)}
  <2>1. /\ stage' = "reading" /\ n \in Nat /\ Len(file') = n + 1 /\ file'[n + 1] = l
        /\ \A m \in 1 .. n : file'[m] = file[m] /\ (HasExec(m)' <=> HasExec(m))
    BY <1>1, <1>2, <1>7, EarlierLines
  <2>2. Same(s) <=> n > 0 /\ file[n].section = s
    BY <1>1, <1>7 DEF Same
  <2>3. \A m : m \in Closing <=> /\ m \in 1 .. n /\ m # n /\ file[m + 1].section # file[m].section
                                 /\ HasExec(m)
    BY <1>1, <1>7 DEF Closing, Ends
  <2>4. \A m : m \in Closing' <=> /\ m \in 1 .. n + 1 /\ m # n + 1
                                  /\ file'[m + 1].section # file'[m].section /\ HasExec(m)'
    BY <2>1 DEF Closing, Ends
  <2>5. /\ \A m \in 1 .. n : m \in Nat /\ m \in 1 .. n + 1 /\ m # n + 1
                             /\ (m # n => m + 1 \in 1 .. n /\ m < n)
        /\ \A m \in 1 .. n + 1 : m # n + 1 => m \in 1 .. n
        /\ n \in 1 .. n <=> n > 0
    BY <2>1
  <2>6. ASSUME NEW m \in 1 .. n, m # n PROVE m \in Closing' <=> m \in Closing
    BY <2>1, <2>3, <2>4, <2>5, <2>6
  <2>7. n \in Closing' <=> ~Same(s) /\ n > 0 /\ HasExec(n)
    BY <2>1, <2>2, <2>4, <2>5
  <2>8. \A m \in Closing' : m \in 1 .. n
    BY <2>4, <2>5
  <2> QED
    BY <2>3, <2>5, <2>6, <2>7, <2>8
<1>8. EachStartedOnce'
  <2>1. CASE stage' = "overflow"
    BY <2>1 DEF EachStartedOnce
  <2>2. CASE stage' # "overflow" /\ ~Same(s) /\ file # <<>>
    <3>1. Closing' = Closing \cup (IF HasExec(Len(file)) THEN {Len(file)} ELSE {})
      BY <1>1, <1>7, <2>2
    <3>2. Len(file) > 0 /\ \A m \in Closing : m < Len(file)
      BY <1>1, <1>7, <2>2
    <3> QED
      BY <1>1, <1>4, <2>2, <3>1, <3>2, StartsSection
  <2>3. CASE stage' # "overflow" /\ (Same(s) \/ file = <<>>)
    <3>1. Closing' = Closing /\ launched' = launched
      <4>1. {m \in {Len(file)} : ~Same(s) /\ Len(file) > 0 /\ HasExec(Len(file))} = {}
        BY <1>1, <2>3
      <4>2. Closing \cup {} = Closing
        OBVIOUS
      <4>3. launched' = launched
        BY <1>4, <2>3
      <4> QED
        BY <1>7, <2>3, <4>1, <4>2, <4>3
    <3>2. Lists(Lasts(launched), Closing)
      BY <1>1 DEF ReaderInv, ConfigInv, EachStartedOnce, Closing, Lasts
    <3> QED
      BY <3>1, <3>2 DEF EachStartedOnce, Closing, Lasts
  <2> QED
    BY <2>1, <2>2, <2>3
<1>9. launched' \in Seq(Services)
  BY <1>1, <1>4, LaunchType DEF ReaderInv
<1> QED
  BY <1>3, <1>6, <1>8, <1>9 DEF ReaderInv, ConfigInv

LEMMA EndOfFileInv ==
    ASSUME ReaderInv, ConfigTypeOK', EndOfFile
    PROVE  ReaderInv'
<1>1. /\ ConfigTypeOK /\ Mirrors /\ stage = "reading" /\ stage' = "done" /\ file' = file
      /\ launched' = LaunchLast /\ Len(file) \in Nat /\ (file # <<>> <=> Len(file) > 0)
  BY DEF EndOfFile, ReaderInv, ConfigInv, ConfigTypeOK
<1>2. launched' # launched => Len(file) > 0
  <2>1. ASSUME file = <<>> PROVE ~Complete
    <3>1. 0 \in Slot
      BY BoundsAssumption DEF Slot
    <3> QED
      BY <1>1, <2>1, <3>1 DEF Mirrors, Complete, Zero
  <2> QED
    BY <1>1, <2>1 DEF LaunchLast
<1>3. OwnArguments'
  BY <1>1, <1>2, OwnStays
<1>4. ASSUME NEW n, n = Len(file)
      PROVE  /\ \A m \in Closing : m \in 1 .. n /\ m < n
             /\ Closing' = Closing \cup {m \in {n} : n > 0 /\ HasExec(n)}
  <2>1. \A m \in 1 .. n : HasExec(m)' <=> HasExec(m)
    BY <1>1 DEF HasExec, Block
  <2>2. \A m : m \in Closing <=> /\ m \in 1 .. n /\ m # n /\ file[m + 1].section # file[m].section
                                 /\ HasExec(m)
    BY <1>1, <1>4 DEF Closing, Ends
  <2>3. \A m : m \in Closing' <=> /\ m \in 1 .. n
                                  /\ m = n \/ file[m + 1].section # file[m].section
                                  /\ HasExec(m)'
    BY <1>1, <1>4 DEF Closing, Ends
  <2>4. \A m \in 1 .. n : m \in Nat /\ (m # n => m < n)
    BY <1>1, <1>4
  <2>5. n \in 1 .. n <=> n > 0
    BY <1>1, <1>4
  <2> QED
    BY <2>1, <2>2, <2>3, <2>4, <2>5
<1>5. EachStartedOnce'
  <2>1. CASE file # <<>>
    <3>1. Closing' = Closing \cup (IF HasExec(Len(file)) THEN {Len(file)} ELSE {})
      BY <1>1, <1>4, <2>1
    <3>2. Len(file) > 0 /\ \A m \in Closing : m < Len(file)
      BY <1>1, <1>4, <2>1
    <3> QED
      BY <1>1, <3>1, <3>2, StartsSection
  <2>2. CASE file = <<>>
    <3>1. Closing' = Closing /\ launched' = launched
      BY <1>1, <1>2, <1>4, <2>2
    <3>2. Lists(Lasts(launched), Closing)
      BY <1>1 DEF ReaderInv, ConfigInv, EachStartedOnce, Closing, Lasts
    <3> QED
      BY <3>1, <3>2 DEF EachStartedOnce, Closing, Lasts
  <2> QED
    BY <2>1, <2>2
<1>6. launched' \in Seq(Services)
  BY <1>1, LaunchType DEF ReaderInv
<1>7. Mirrors'
  BY <1>1 DEF Mirrors
<1> QED
  BY <1>3, <1>5, <1>6, <1>7 DEF ReaderInv, ConfigInv

\* Neither an ASSERT nor a step of nothing starts anything.
LEMMA RestInv ==
    ASSUME ReaderInv, ConfigTypeOK', Refuse \/ UNCHANGED config
    PROVE  ReaderInv'
<1>1. /\ file' = file /\ cmd' = cmd /\ launched' = launched
      /\ stage' = stage \/ (stage = "reading" /\ stage' = "aborted")
  BY DEF Refuse, config
<1>2. /\ Mirrors' /\ launched' \in Seq(Services)
  BY <1>1 DEF ReaderInv, ConfigInv, Mirrors, Complete, Fresh, Program, Lines, HasExec, Block
<1>3. OwnArguments'
  <2>1. ASSUME NEW l PROVE GivenOwn(l)' <=> GivenOwn(l)
    BY <1>1 DEF GivenOwn, Fresh, Program, Lines, HasExec, Block
  <2> QED
    BY <1>1, <2>1 DEF ReaderInv, ConfigInv, OwnArguments
<1>4. EachStartedOnce'
  <2>1. Ends' = Ends /\ \A n : HasExec(n)' <=> HasExec(n)
    BY <1>1 DEF Ends, HasExec, Block
  <2> QED
    BY <1>1, <2>1 DEF EachStartedOnce, ReaderInv, ConfigInv
<1> QED
  BY <1>2, <1>3, <1>4 DEF ReaderInv, ConfigInv

\* What runnerd has started is what the file read so far says, whatever the
\* file and however long.
THEOREM ConfigSafe == ConfigSpec => []ConfigInv
<1>1. ConfigInit => ReaderInv
  BY ReaderStarts
<1>2. ReaderInv /\ [ConfigNext]_config /\ ConfigTypeOK' => ReaderInv'
  <2> SUFFICES ASSUME ReaderInv, [ConfigNext]_config, ConfigTypeOK' PROVE ReaderInv'
    OBVIOUS
  <2>1. ASSUME NEW s \in Section, NEW key \in Keys, Line(s, key) PROVE ReaderInv'
    BY <2>1, LineInv
  <2>2. CASE Refuse
    BY <2>2, RestInv
  <2>3. CASE EndOfFile
    BY <2>3, EndOfFileInv
  <2>4. CASE UNCHANGED config
    BY <2>4, RestInv
  <2> QED
    BY <2>1, <2>2, <2>3, <2>4 DEF ConfigNext
<1>3. ReaderInv => ConfigInv
  BY DEF ReaderInv
<1> QED
  BY <1>1, <1>2, <1>3, ConfigTypeCorrect, PTL DEF ConfigSpec

\* Every section with a program is started exactly once, in file order.
THEOREM StartsEachOnce == ConfigSpec => []EachStartedOnce
BY ConfigSafe, PTL DEF ConfigInv

\* A service is given its own program, parameters and variables.
THEOREM GivesOwnArguments == ConfigSpec => []OwnArguments
BY ConfigSafe, PTL DEF ConfigInv

-----------------------------------------------------------------------------
(* The supervision.                                                        *)
(*                                                                         *)
(* ChildrenListed is the heart of the inductive invariant: it is kept by a  *)
(* pass because an item is only struck out when its process has just been  *)
(* waited for or had been, and it gives NoneLeft, because the last walk    *)
(* waits for everything the list names.                                    *)

\* No process becomes a child of runnerd while the list stays as it is.
LEMMA FewerChildren ==
    ASSUME SupervisorInv, TypeOK', Children' \subseteq Children, UNCHANGED <<size, pids>>,
           pc' = "starting" => pc = "starting" /\ Children' = Children,
           pc' = "pass" => count' < next',
           pc' = "kill" => (pc = "kill" /\ next' = next) \/ next' = 1,
           pc' = "closed" => Children' = {}
    PROVE  SupervisorInv'
<1>1. Items' = Items /\ Items \subseteq 1 .. N
  BY NAssumption DEF Items, SupervisorInv, TypeOK
<1>2. ChildrenListed'
  BY <1>1 DEF SupervisorInv, ChildrenListed
<1>3. NoneReapedYet' /\ CountsVisited' /\ NoneLeft'
  BY <1>1 DEF SupervisorInv, NoneReapedYet, CountsVisited, NoneLeft
<1>4. KilledSoFar'
  <2>1. CASE pc' = "kill" /\ pc = "kill" /\ next' = next
    BY <1>1, <2>1 DEF SupervisorInv, KilledSoFar
  <2>2. CASE next' = 1
    BY <1>1, <2>2, NAssumption DEF Items, KilledSoFar, SupervisorInv, TypeOK
  <2> QED
    BY <2>1, <2>2 DEF KilledSoFar
<1> QED
  BY <1>2, <1>3, <1>4 DEF SupervisorInv

\* A service that is started is a new child, and a new item.
LEMMA StartKeepsList ==
    ASSUME SupervisorInv, NEW p \in Pid, Start(p)
    PROVE  SupervisorInv'
<1>1. /\ size' = size + 1 /\ size \in Nat /\ size' \in 1 .. N
      /\ pids' = [pids EXCEPT ![size + 1] = p] /\ p \notin Children
      /\ pc' = "starting" /\ pc = "starting"
  BY NAssumption DEF Start, SupervisorInv, TypeOK, Children
<1>2. Children' = Children \cup {p}
  BY DEF Start, SupervisorInv, TypeOK, Children
<1>3. TypeOK'
  <2>1. pids' \in [1 .. N -> Pid \cup {-1, 0}] /\ size' \in 0 .. N /\ count' \in 0 .. size'
    BY <1>1, NAssumption DEF Start, SupervisorInv, TypeOK
  <2>2. \A i \in 1 .. N : pids'[i] = 0 <=> i > size'
    BY <1>1, NAssumption DEF SupervisorInv, TypeOK
  <2>3. os' \in [Pid -> {"free", "running", "zombie", "stranger"}]
    BY DEF Start, SupervisorInv, TypeOK
  <2> QED
    BY <1>1, <2>1, <2>2, <2>3 DEF Start, SupervisorInv, TypeOK
<1>4. Items' = Items \cup {size + 1} /\ size + 1 \notin Items /\ Items \subseteq 1 .. N
  BY <1>1, NAssumption DEF Items
<1>5. (\A i \in Items : pids'[i] = pids[i]) /\ pids'[size + 1] = p
  BY <1>1, <1>4 DEF SupervisorInv, TypeOK
<1>6. \A i \in Items : pids[i] \in Children /\ pids[i] # p
  BY <1>1 DEF SupervisorInv, NoneReapedYet
<1>7. NoneReapedYet'
  BY <1>2, <1>4, <1>5, <1>6 DEF NoneReapedYet
<1>8. ChildrenListed'
  <2> SUFFICES ASSUME NEW q \in Children \cup {p}
               PROVE  \E i \in Items' : \A j \in Items' : pids'[j] = q <=> j = i
    BY <1>2 DEF ChildrenListed
  <2>1. CASE q = p
    <3>1. \A j \in Items' : pids'[j] = p <=> j = size + 1
      BY <1>4, <1>5, <1>6
    <3> QED
      BY <1>4, <2>1, <3>1
  <2>2. CASE q \in Children
    <3>1. PICK i \in Items : \A j \in Items : pids[j] = q <=> j = i
      BY <2>2 DEF SupervisorInv, ChildrenListed
    <3>2. q # p
      BY <1>1, <2>2
    <3>3. \A j \in Items' : pids'[j] = q <=> j = i
      BY <1>4, <1>5, <3>1, <3>2
    <3> QED
      BY <1>4, <3>3
  <2> QED
    BY <2>1, <2>2
<1> QED
  BY <1>1, <1>3, <1>7, <1>8 DEF SupervisorInv, CountsVisited, KilledSoFar, NoneLeft

\* An item is struck out when its process is no longer a child.
LEMMA FindGoneKeepsList ==
    ASSUME SupervisorInv, FindGone
    PROVE  SupervisorInv'
<1> DEFINE waited == {p \in Zombies : pids[next] \in {p, -1}}
<1>1. /\ pc = "pass" /\ pc' = "pass" /\ next \in Items /\ next' = next + 1
      /\ next \in 1 .. N /\ size \in 0 .. N /\ Items = 1 .. size /\ Items' = Items
      /\ size' = size /\ count' = count
      /\ pids' = [pids EXCEPT ![next] = -1]
  BY NAssumption DEF FindGone, StruckOut, SupervisorInv, TypeOK, Items
<1>2. PICK gone \in SUBSET waited :
        /\ Children' = Children \ gone
        /\ gone = {} => waited = {}
        /\ os' \in [Pid -> {"free", "running", "zombie", "stranger"}]
  <2>1. ASSUME UNCHANGED os PROVE
        /\ Children' = Children
        /\ os' \in [Pid -> {"free", "running", "zombie", "stranger"}]
    BY <2>1 DEF Children, SupervisorInv, TypeOK
  <2>2. ASSUME NEW p \in waited, os' = [os EXCEPT ![p] = "free"] PROVE
        /\ Children' = Children \ {p}
        /\ os' \in [Pid -> {"free", "running", "zombie", "stranger"}]
    BY <2>2 DEF Children, Zombies, SupervisorInv, TypeOK
  <2>3. \/ waited = {} /\ UNCHANGED os
        \/ \E p \in waited : os' = [os EXCEPT ![p] = "free"]
    BY DEF FindGone
  <2>4. CASE waited = {} /\ UNCHANGED os
    <3>1. {} \in SUBSET waited /\ Children \ {} = Children
      OBVIOUS
    <3> QED
      BY <2>1, <2>4, <3>1
  <2>5. CASE \E p \in waited : os' = [os EXCEPT ![p] = "free"]
    <3>1. PICK p \in waited : os' = [os EXCEPT ![p] = "free"]
      BY <2>5
    <3>2. {p} \in SUBSET waited /\ {p} # {}
      OBVIOUS
    <3> QED
      BY <2>2, <3>1, <3>2
  <2> QED
    BY <2>3, <2>4, <2>5
<1>3. TypeOK'
  <2>1. pids' \in [1 .. N -> Pid \cup {-1, 0}] /\ next' \in 1 .. N + 1
    BY <1>1, NAssumption DEF SupervisorInv, TypeOK
  <2>2. \A i \in 1 .. N : pids'[i] = 0 <=> i > size'
    BY <1>1, NAssumption DEF SupervisorInv, TypeOK
  <2> QED
    BY <1>1, <1>2, <2>1, <2>2 DEF FindGone, SupervisorInv, TypeOK
<1>4. pids[next] \notin Children'
  <2> SUFFICES ASSUME pids[next] \in Children PROVE pids[next] \in waited /\ waited = {pids[next]}
    BY <1>2
  <2>1. pids[next] \in Pid /\ pids[next] # -1 /\ os[pids[next]] = "zombie"
    BY NAssumption DEF FindGone, StillRunning, Children
  <2> QED
    BY <2>1 DEF Zombies
<1>5. ChildrenListed'
  <2> SUFFICES ASSUME NEW p \in Children'
               PROVE  \E i \in Items' : \A j \in Items' : pids'[j] = p <=> j = i
    BY DEF ChildrenListed
  <2>1. p \in Children /\ p # pids[next] /\ p # -1
    BY <1>2, <1>4, NAssumption DEF Children
  <2>2. PICK i \in Items : \A j \in Items : pids[j] = p <=> j = i
    BY <2>1 DEF SupervisorInv, ChildrenListed
  <2>3. \A j \in Items : pids'[j] = IF j = next THEN -1 ELSE pids[j]
    BY <1>1, NAssumption DEF SupervisorInv, TypeOK
  <2>4. i # next
    BY <1>1, <2>1, <2>2
  <2>5. \A j \in Items : pids'[j] = p <=> j = i
    BY <2>1, <2>2, <2>3, <2>4
  <2> QED
    BY <1>1, <2>5
<1>6. CountsVisited'
  BY <1>1, NAssumption DEF SupervisorInv, CountsVisited, TypeOK
<1> QED
  BY <1>1, <1>3, <1>5, <1>6 DEF SupervisorInv, NoneReapedYet, KilledSoFar, NoneLeft

\* The last walk waits for the process of the item it is at.
LEMMA KillItemKeepsList ==
    ASSUME SupervisorInv, KillItem
    PROVE  SupervisorInv'
<1>1. /\ pc = "kill" /\ pc' = "kill" /\ next \in Items /\ next' = next + 1
      /\ next \in 1 .. N /\ size \in 0 .. N /\ Items = 1 .. size /\ Items' = Items
      /\ UNCHANGED <<running, size, count, pids>> /\ pids[next] \in Pid \cup {-1}
  BY NAssumption DEF KillItem, SupervisorInv, TypeOK, Items
<1>2. /\ Children' = Children \ {pids[next]}
      /\ os' \in [Pid -> {"free", "running", "zombie", "stranger"}]
      /\ struck' \subseteq Pid
  <2>1. CASE pids[next] = -1
    BY <2>1, NAssumption DEF KillItem, Children, SupervisorInv, TypeOK
  <2>2. CASE pids[next] \in Pid
    BY <1>1, <2>2, NAssumption DEF KillItem, Children, SupervisorInv, TypeOK
  <2> QED
    BY <1>1, <2>1, <2>2
<1>3. TypeOK'
  <2>1. next' \in 1 .. N + 1
    BY <1>1, NAssumption
  <2> QED
    BY <1>1, <1>2, <2>1 DEF SupervisorInv, TypeOK
<1>4. ChildrenListed'
  <2> SUFFICES ASSUME NEW p \in Children'
               PROVE  \E i \in Items' : \A j \in Items' : pids'[j] = p <=> j = i
    BY DEF ChildrenListed
  <2>1. p \in Children
    BY <1>2
  <2>2. PICK i \in Items : \A j \in Items : pids[j] = p <=> j = i
    BY <2>1 DEF SupervisorInv, ChildrenListed
  <2> QED
    BY <1>1, <2>2
<1>5. KilledSoFar'
  <2> SUFFICES ASSUME NEW i \in Items, i < next + 1 PROVE pids[i] \notin Children'
    BY <1>1 DEF KilledSoFar
  <2>1. i < next \/ i = next
    BY <1>1
  <2> QED
    BY <1>1, <1>2, <2>1 DEF SupervisorInv, KilledSoFar
<1> QED
  BY <1>1, <1>3, <1>4, <1>5 DEF SupervisorInv, NoneReapedYet, CountsVisited, NoneLeft

\* The inductive invariant holds at first.
LEMMA SupervisorStarts == Init => SupervisorInv
<1> SUFFICES ASSUME Init PROVE SupervisorInv
  OBVIOUS
<1>1. Children = {} /\ Items = {}
  BY DEF Init, Children, Items
<1>2. TypeOK
  BY NAssumption DEF Init, TypeOK
<1> QED
  BY <1>1, <1>2 DEF Init, SupervisorInv, ChildrenListed, NoneLeft, NoneReapedYet,
     CountsVisited, KilledSoFar

\* The inductive invariant is kept by every step.
LEMMA SupervisorStep == SupervisorInv /\ [Next]_vars => SupervisorInv'
<1> SUFFICES ASSUME SupervisorInv, [Next]_vars PROVE SupervisorInv'
  OBVIOUS
<1>1. ASSUME NEW p \in Pid, ChildExits(p) PROVE SupervisorInv'
  <2>1. TypeOK' /\ Children' = Children
    BY <1>1 DEF ChildExits, SupervisorInv, TypeOK, Children
  <2> QED
    BY <1>1, <2>1, FewerChildren DEF ChildExits, SupervisorInv, CountsVisited, NoneLeft
<1>2. ASSUME NEW p \in Pid, StrangerComes(p) \/ StrangerGoes(p) PROVE SupervisorInv'
  <2>1. TypeOK' /\ Children' = Children
    BY <1>2 DEF StrangerComes, StrangerGoes, SupervisorInv, TypeOK, Children
  <2> QED
    BY <1>2, <2>1, FewerChildren
    DEF StrangerComes, StrangerGoes, SupervisorInv, CountsVisited, NoneLeft
<1>3. ASSUME Interrupt \/ Abort \/ PassDone \/ Wake PROVE SupervisorInv'
  <2>1. TypeOK' /\ Children' = Children
    BY <1>3 DEF Interrupt, Abort, PassDone, Wake, SupervisorInv, TypeOK, Children, Final
  <2> QED
    BY <1>3, <2>1, FewerChildren
    DEF Interrupt, Abort, PassDone, Wake, SupervisorInv, CountsVisited, NoneLeft, Final
<1>4. ASSUME Started PROVE SupervisorInv'
  <2>1. TypeOK' /\ Children' = Children
    BY <1>4, NAssumption DEF Started, SupervisorInv, TypeOK, Children
  <2> QED
    BY <1>4, <2>1, FewerChildren DEF Started
<1>5. ASSUME CheckRunning PROVE SupervisorInv'
  <2>1. Children' = Children /\ pc' \in {"pass", "kill"} /\ next' = 1
        /\ (pc' = "pass" => count' = 0) /\ count' \in {0, count}
    BY <1>5 DEF CheckRunning, FirstCount, Children
  <2>2. TypeOK'
    BY <1>5, <2>1, NAssumption DEF CheckRunning, SupervisorInv, TypeOK
  <2> QED
    BY <1>5, <2>1, <2>2, FewerChildren DEF CheckRunning
<1>6. ASSUME FindRunning PROVE SupervisorInv'
  <2>1. next \in 1 .. size /\ size \in 0 .. N /\ count \in 0 .. size /\ count < next
    BY <1>6 DEF FindRunning, Items, SupervisorInv, TypeOK, CountsVisited
  <2>2. next' \in 1 .. N + 1 /\ count' \in 0 .. size /\ count' < next'
    BY <1>6, <2>1, NAssumption DEF FindRunning
  <2>3. TypeOK' /\ Children' = Children
    BY <1>6, <2>2 DEF FindRunning, SupervisorInv, TypeOK, Children
  <2> QED
    BY <1>6, <2>2, <2>3, FewerChildren DEF FindRunning
<1>7. ASSUME KillDone PROVE SupervisorInv'
  <2>1. \A i \in Items : i < next
    BY <1>7, NAssumption DEF KillDone, Items, SupervisorInv, TypeOK
  <2>2. Children = {}
    BY <1>7, <2>1 DEF KillDone, SupervisorInv, KilledSoFar, ChildrenListed
  <2>3. TypeOK' /\ Children' = Children
    BY <1>7 DEF KillDone, SupervisorInv, TypeOK, Children, Final
  <2> QED
    BY <1>7, <2>2, <2>3, FewerChildren DEF KillDone
<1>8. ASSUME UNCHANGED vars PROVE SupervisorInv'
  BY <1>8 DEF vars, SupervisorInv, TypeOK, ChildrenListed, NoneLeft, NoneReapedYet,
     CountsVisited, KilledSoFar, Items, Children
<1> QED
  BY <1>1, <1>2, <1>3, <1>4, <1>5, <1>6, <1>7, <1>8,
     StartKeepsList, FindGoneKeepsList, KillItemKeepsList
  DEF Next, Kernel, Loop

\* The inductive invariant holds in every reachable state.
THEOREM SupervisorSafe == Spec => []SupervisorInv
BY SupervisorStarts, SupervisorStep, PTL DEF Spec

\* The variables of runnerd keep their types (runner.c:93-170).
THEOREM TypeCorrect == Spec => []TypeOK
<1>1. SupervisorInv => TypeOK
  BY DEF SupervisorInv
<1> QED
  BY <1>1, SupervisorSafe, PTL

\* Whatever exits and is waited for in whichever order, a service that has
\* not been waited for is named by exactly one item (136-149).
THEOREM ChildrenStayListed == Spec => []ChildrenListed
<1>1. SupervisorInv => ChildrenListed
  BY DEF SupervisorInv
<1> QED
  BY <1>1, SupervisorSafe, PTL

\* When runnerd ends without an abort, none of its services is left (153-167).
THEOREM LeavesNone == Spec => []NoneLeft
<1>1. SupervisorInv => NoneLeft
  BY DEF SupervisorInv
<1> QED
  BY <1>1, SupervisorSafe, PTL

\* An item names a stranger only when an item after it was struck out: the
\* step that strikes an item out may have waited for the service of another,
\* and if that one is still to come in the pass it is struck out in turn.
LEMMA StrangersStep ==
    SupervisorInv /\ StaleItems /\ NoneStruckYet /\ StrangersSafe /\ [Next]_vars
        => StaleItems' /\ NoneStruckYet' /\ StrangersSafe'
<1> SUFFICES ASSUME SupervisorInv, StaleItems, NoneStruckYet, StrangersSafe, [Next]_vars
             PROVE  StaleItems' /\ NoneStruckYet' /\ StrangersSafe'
  OBVIOUS
<1> USE DEF Items
<1>t. /\ TypeOK /\ size \in 0 .. N /\ next \in 1 .. N + 1
      /\ pids \in [1 .. N -> Pid \cup {-1, 0}]
  BY DEF SupervisorInv, TypeOK
<1>1. ASSUME UNCHANGED <<size, pids, struck>>, Children' = Children,
             \/ pc' = pc /\ next' = next
             \/ pc' = "closed"
             \/ pc \in {"starting", "check", "sleep"}
             \/ pc = "pass" /\ next > size /\ pc' = "sleep"
      PROVE  StaleItems' /\ NoneStruckYet' /\ StrangersSafe'
  <2>1. StaleItems'
    BY <1>1, <1>t, NAssumption DEF StaleItems
  <2> QED
    BY <1>1, <2>1 DEF NoneStruckYet, StrangersSafe
<1>2. CASE \E p \in Pid : ChildExits(p) \/ StrangerComes(p) \/ StrangerGoes(p)
  <2>1. UNCHANGED <<size, pids, struck, pc, next>>
    BY <1>2 DEF ChildExits, StrangerComes, StrangerGoes
  <2>2. Children' = Children
    BY <1>2, <1>t DEF ChildExits, StrangerComes, StrangerGoes, Children, TypeOK
  <2> QED
    BY <1>1, <2>1, <2>2
<1>3. CASE Interrupt \/ Abort \/ Started \/ PassDone \/ Wake \/ CheckRunning
           \/ KillDone \/ UNCHANGED vars
  <2>1. next \notin 1 .. size => next > size
    BY <1>t, NAssumption
  <2>2. UNCHANGED <<size, pids, struck>> /\ Children' = Children
    BY <1>3 DEF Interrupt, Abort, Started, PassDone, Wake, CheckRunning, KillDone, Children, vars
  <2>3. \/ pc' = pc /\ next' = next
        \/ pc' = "closed"
        \/ pc \in {"starting", "check", "sleep"}
        \/ pc = "pass" /\ next > size /\ pc' = "sleep"
    BY <1>3, <2>1
    DEF Interrupt, Abort, Started, PassDone, Wake, CheckRunning, KillDone, vars
  <2> QED
    BY <1>1, <2>2, <2>3
<1>4. ASSUME NEW p \in Pid, Start(p) PROVE StaleItems' /\ NoneStruckYet' /\ StrangersSafe'
  <2>1. /\ size' = size + 1 /\ pc = "starting" /\ pc' = "starting" /\ struck' = struck
        /\ pids' = [pids EXCEPT ![size + 1] = p] /\ p \in Children' /\ Children \subseteq Children'
        /\ size + 1 \in 1 .. N
    BY <1>4, <1>t, NAssumption DEF Start, Children, TypeOK
  <2>2. \A i \in 1 .. size : pids'[i] = pids[i] /\ pids[i] \in Children
    BY <1>t, <2>1, NAssumption DEF SupervisorInv, NoneReapedYet
  <2>3. pids'[size + 1] = p /\ 1 .. size' = 1 .. size \cup {size + 1}
    BY <1>t, <2>1, NAssumption
  <2>4. StaleItems'
    BY <2>1, <2>2, <2>3 DEF StaleItems
  <2>5. struck' = {}
    BY <2>1 DEF NoneStruckYet
  <2> QED
    BY <2>4, <2>5 DEF NoneStruckYet, StrangersSafe
<1>5. ASSUME FindRunning PROVE StaleItems' /\ NoneStruckYet' /\ StrangersSafe'
  <2>1. /\ pc = "pass" /\ pc' = "pass" /\ next \in 1 .. size /\ next' = next + 1
        /\ UNCHANGED <<size, pids, struck>> /\ Children' = Children
        /\ pids[next] \in Children \cup {-1}
    BY <1>5, <1>t DEF FindRunning, StillRunning, Children
  <2>2. \A i \in 1 .. size : next <= i => i = next \/ next + 1 <= i
    BY <1>t, NAssumption
  <2>3. StaleItems'
    BY <2>1, <2>2 DEF StaleItems
  <2> QED
    BY <2>1, <2>3 DEF NoneStruckYet, StrangersSafe
<1>6. ASSUME FindGone PROVE StaleItems' /\ NoneStruckYet' /\ StrangersSafe'
  <2>1. /\ pc = "pass" /\ pc' = "pass" /\ next \in 1 .. size /\ next' = next + 1
        /\ size' = size /\ struck' = {}
        /\ pids'[next] = -1 /\ \A i \in 1 .. size : i # next => pids'[i] = pids[i]
    BY <1>6, <1>t, NAssumption DEF FindGone, StruckOut, NoneStruckYet
  <2>2. \A i \in 1 .. size : i < next \/ i = next \/ next + 1 <= i
    BY <1>t, NAssumption
  <2>3. StaleItems'
    BY <2>1, <2>2 DEF StaleItems
  <2> QED
    BY <2>1, <2>3 DEF NoneStruckYet, StrangersSafe
<1>7. ASSUME KillItem PROVE StaleItems' /\ NoneStruckYet' /\ StrangersSafe'
  <2>1. /\ pc = "kill" /\ pc' = "kill" /\ next \in 1 .. size /\ next' = next + 1
        /\ size' = size /\ pids' = pids
    BY <1>7 DEF KillItem
  <2>2. \A p \in Children : p # pids[next] => p \in Children'
    BY <1>7, <1>t DEF KillItem, Children, TypeOK
  <2>3. \A i, j \in 1 .. size : pids[i] \in Children /\ pids[j] = pids[i] => i = j
    BY DEF SupervisorInv, ChildrenListed
  <2>4. ASSUME NEW i \in 1 .. size
        PROVE  \/ pids[i] \in Children' \cup {-1}
               \/ \E j \in 1 .. size : i < j /\ pids[j] = -1
               \/ i < next + 1
    <3>1. i = next \/ i < next => i < next + 1
      BY <1>t, NAssumption
    <3>2. CASE i # next /\ pids[i] \in Children
      BY <2>1, <2>2, <2>3, <3>2
    <3> QED
      BY <2>1, <3>1, <3>2 DEF StaleItems
  <2>5. StaleItems'
    BY <2>1, <2>4 DEF StaleItems
  <2>6. ASSUME NEW p \in struck' PROVE \E i, j \in 1 .. size : i < j /\ pids[i] = p /\ pids[j] = -1
    <3>1. CASE p \in struck
      BY <3>1 DEF StrangersSafe
    <3>2. CASE p \notin struck
      <4>1. p = pids[next] /\ p # -1 /\ os[p] = "stranger"
        BY <1>7, <3>2 DEF KillItem
      <4>2. p \notin Children /\ ~(next < next)
        BY <4>1, <1>t, NAssumption DEF Children
      <4> QED
        BY <2>1, <4>1, <4>2 DEF StaleItems
    <3> QED
      BY <3>1, <3>2
  <2> QED
    BY <2>1, <2>5, <2>6 DEF NoneStruckYet, StrangersSafe
<1> QED
  BY <1>2, <1>3, <1>4, <1>5, <1>6, <1>7 DEF Next, Kernel, Loop

\* The final SIGKILLs reach a process that is no service only through an item
\* before one that was struck out, which may have waited for its service
\* (136-167).
THEOREM SparesStrangers == Spec => []StrangersSafe
<1>1. Init => StaleItems /\ NoneStruckYet /\ StrangersSafe
  BY NAssumption DEF Init, StaleItems, NoneStruckYet, StrangersSafe, Items
<1> QED
  BY <1>1, SupervisorSafe, StrangersStep, PTL DEF Spec
=============================================================================
