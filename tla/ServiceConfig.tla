---------------------------- MODULE ServiceConfig ----------------------------
(***************************************************************************)
(* How runnerd reads its configuration (runner.c: ini_handle and           *)
(* execute_command).  The ini library calls ini_handle once per line       *)
(* "name = value", in file order, with the section the line is in.  The    *)
(* lines of a section accumulate in one static record, cmd, and a service  *)
(* is started from it when the first line of another section, or the end   *)
(* of the file, is reached.                                                *)
(*                                                                         *)
(* The lines read so far are the variable `file`; a string of the file is  *)
(* represented by the number of its line.  An array of pointers is a       *)
(* function on its indices, Null where the pointer is NULL.                *)
(***************************************************************************)
EXTENDS Integers, Sequences

CONSTANTS Section,   \* section names
          MaxArgc,   \* MAX_ARGC
          Environ,   \* how many variables the environment of runnerd has
          MaxLines   \* bound: lines in the file

Keys == {"exec", "param", "other"}
Slot == 0 .. MaxArgc      \* the indices of cmd.params and cmd.envs
Slots == 2 * MaxArgc      \* the number of strings in cmd.strings
Null == 0
Inherited == -1           \* a variable of runnerd's own environment
NoName == "NULL"          \* the pointer: no section has this name

ASSUME BoundsAssumption ==
    /\ MaxArgc \in Nat \ {0} /\ Environ \in Nat /\ MaxLines \in Nat
    /\ NoName \notin Section

VARIABLES stage,     \* reading the file, at its end, or stopped
          file,      \* the lines read so far
          cmd,       \* the static runner_cmd_t
          launched   \* what execute_command has been called with

config == <<stage, file, cmd, launched>>

\* In particular no pointer is stored past the end of an array.
ConfigTypeOK ==
    /\ stage \in {"reading", "done", "aborted", "overflow"}
    /\ file \in Seq([section : Section, key : Keys])
    /\ cmd \in [name : Section \cup {NoName},
               params : [Slot -> Int], n_params : 0 .. MaxArgc + 1,
               envs : [Slot -> Int], n_envs : 0 .. MaxArgc + 1,
               s_p : 0 .. Slots]

Zero == [name |-> NoName, params |-> [i \in Slot |-> Null], envs |-> [i \in Slot |-> Null],
         n_params |-> 0, n_envs |-> 0, s_p |-> 0]

ConfigInit == stage = "reading" /\ file = <<>> /\ cmd = Zero /\ launched = <<>>

-----------------------------------------------------------------------------
(* execute_command: fill the environment, fork, execve in the child, clear  *)
(* the record in the parent.                                               *)

\* The environment is appended as long as the array has room before its
\* last slot.
Fill(c) == [i \in Slot |-> IF c.n_envs <= i /\ i < c.n_envs + Environ /\ i < MaxArgc
                           THEN Inherited ELSE c.envs[i]]

\* What execve sees of an array of pointers: the entries before the first
\* NULL, if there is one.
Ended(a) == \E i \in Slot : a[i] = Null
Entries(a) ==
    LET n == CHOOSE i \in Slot \cup {MaxArgc + 1} :
                 /\ i = MaxArgc + 1 \/ a[i] = Null
                 /\ \A j \in Slot : j < i => a[j] # Null
    IN  [k \in 1 .. n |-> a[k - 1]]

\* In memory the parameters follow the environment.
Environment(c) == IF Ended(Fill(c)) THEN Entries(Fill(c))
                  ELSE Entries(Fill(c)) \o Entries(c.params)

Launch(c, last) ==
    Append(launched, [last |-> last, argv |-> Entries(c.params), env |-> Environment(c),
                      ended |-> Ended(c.params) /\ Ended(c.envs)])

-----------------------------------------------------------------------------
(* ini_handle.                                                             *)

GuardedStrings == cmd.s_p < Slots  \* (mutant: the arrays are not checked)
Guarded == cmd.s_p < Slots /\ cmd.n_params <= MaxArgc /\ cmd.n_envs <= MaxArgc

NewSection(s) == cmd.name # s
Complete == cmd.params[0] # Null

\* A new section starts over with one parameter slot taken by "exec"; the
\* arrays are only cleared by execute_command.
LeftOver == cmd      \* (mutant: execute_command does not clear the record)
Cleared == Zero
Opened(s) == [(IF Complete THEN Cleared ELSE cmd) EXCEPT
                  !.name = s, !.n_params = 1, !.s_p = @ + 1]

\* The line goes to the parameters, or else to the environment; "exec" is
\* also the program, and a variable like any other line that is no "param".
Store(c, key, v) ==
    CASE key = "param" -> [c EXCEPT !.params[c.n_params] = v, !.n_params = @ + 1, !.s_p = @ + 1]
      [] key = "exec"  -> [c EXCEPT !.params[0] = v, !.envs[c.n_envs] = v, !.n_envs = @ + 1,
                                    !.s_p = @ + 2]
      [] key = "other" -> [c EXCEPT !.envs[c.n_envs] = v, !.n_envs = @ + 1, !.s_p = @ + 1]

Line(s, key) ==
    /\ stage = "reading" /\ Len(file) < MaxLines
    /\ Guarded
    /\ file' = Append(file, [section |-> s, key |-> key])
    /\ LET c == Store(IF NewSection(s) THEN Opened(s) ELSE cmd, key, Len(file) + 1)
       IN  IF c.s_p <= Slots THEN cmd' = c /\ stage' = stage
           ELSE cmd' = cmd /\ stage' = "overflow"   \* a string is written past the buffer
    /\ launched' = IF NewSection(s) /\ Complete THEN Launch(cmd, Len(file)) ELSE launched

\* An ASSERT stops the process.
Refuse ==
    /\ stage = "reading" /\ Len(file) < MaxLines
    /\ ~Guarded
    /\ stage' = "aborted"
    /\ UNCHANGED <<file, cmd, launched>>

\* main(), after ini_parse: the last section.
LastForgotten == launched  \* (mutant: no call after the end of the file)
LaunchLast == IF Complete THEN Launch(cmd, Len(file)) ELSE launched
EndOfFile ==
    /\ stage = "reading"
    /\ launched' = LaunchLast
    /\ cmd' = IF Complete THEN Zero ELSE cmd
    /\ stage' = "done"
    /\ UNCHANGED file

ConfigNext == (\E s \in Section, key \in Keys : Line(s, key)) \/ Refuse \/ EndOfFile

ConfigSpec == ConfigInit /\ [][ConfigNext]_config

-----------------------------------------------------------------------------
(* The reference: what a file says.                                        *)

\* The lines of the section whose last line is n.
Block(n) == {i \in 1 .. n : \A j \in i .. n : file[j].section = file[n].section}
Ends == {n \in 1 .. Len(file) :
            IF n = Len(file) THEN stage = "done" ELSE file[n + 1].section # file[n].section}
HasExec(n) == \E i \in Block(n) : file[i].key = "exec"

\* Its lines with a key in K, and the program among them: the last line
\* "exec".
Lines(n, K) == {i \in Block(n) : file[i].key \in K}
Program(n) == CHOOSE i \in Lines(n, {"exec"}) : \A j \in Lines(n, {"exec"}) : j <= i

\* The sequence q has the lines in S, in file order and once each.
Lists(q, S) == /\ \A j, k \in 1 .. Len(q) : j < k => q[j] < q[k]
               /\ {q[k] : k \in 1 .. Len(q)} = S

\* The section that ends in n does not follow one that was never started.
Fresh(n) == \A m \in 1 .. n : m \notin Block(n) /\ m + 1 \in Block(n) => HasExec(m)

-----------------------------------------------------------------------------
(* Properties.                                                             *)

\* Every section with a program is started exactly once, in file order.
\* (70-80, 126-130.)
EachStartedOnce ==
    stage # "overflow" =>
        Lists([k \in 1 .. Len(launched) |-> launched[k].last], {n \in Ends : HasExec(n)})

\* A service is given its own program, parameters and variables, in order,
\* and nothing of another section, provided that the arrays are not full and
\* that the section before it was started too: what a section without a
\* program leaves behind goes to the next one.  Of runnerd's own variables,
\* those that do not fit are dropped.  (81-100, 41-44, 58.)
GivenOwn(l) ==
    l.ended /\ Fresh(l.last) =>
        /\ l.argv[1] = Program(l.last)
        /\ Lists(Tail(l.argv), Lines(l.last, {"param"}))
        /\ \E n \in 0 .. Len(l.env) :
              /\ Lists(SubSeq(l.env, 1, n), Lines(l.last, {"exec", "other"}))
              /\ \A i \in n + 1 .. Len(l.env) : l.env[i] = Inherited
OwnArguments == \A k \in 1 .. Len(launched) : GivenOwn(launched[k])

\* "String buffer overflow" (67): the assertion keeps every string in the
\* buffer.
StringsFit == stage # "overflow"

\* "Max arguments reached", "Max environment variables reached" (68-69): what
\* a service is started with fits, its arrays end with NULL as execve requires.  It does
\* not hold (see the README).
ArgumentsEnd == \A k \in 1 .. Len(launched) : launched[k].ended
-----------------------------------------------------------------------------
(* Why these hold: an invariant that every step keeps.                     *)

\* Of the array a, the slots from the first up to the next free one have the
\* lines in S, in file order.
Stored(a, first, free, S) ==
    /\ \A i \in first .. free - 1 : a[i] \in S
    /\ \A i, j \in first .. free - 1 : i < j => a[i] < a[j]
    /\ \A x \in S : \E i \in first .. free - 1 : a[i] = x

\* Nothing is behind the next free slot.
Free(a, free) == \A i \in Slot : i >= free => a[i] = Null

\* The record belongs to the section of the last line, and has what that
\* section says.
Mirrors ==
    stage = "reading" =>
        IF file = <<>> THEN cmd = Zero
        ELSE LET n == Len(file)
             IN  /\ cmd.name = file[n].section /\ cmd.n_params >= 1
                 /\ Complete <=> HasExec(n)
                 /\ Fresh(n) =>
                       /\ HasExec(n) => cmd.params[0] = Program(n)
                       /\ Stored(cmd.params, 1, cmd.n_params, Lines(n, {"param"}))
                       /\ Stored(cmd.envs, 0, cmd.n_envs, Lines(n, {"exec", "other"}))
                       /\ Free(cmd.params, cmd.n_params) /\ Free(cmd.envs, cmd.n_envs)

ConfigInv == ConfigTypeOK /\ Mirrors /\ EachStartedOnce /\ OwnArguments
=============================================================================
