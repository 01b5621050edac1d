------------------------------ MODULE Commands ------------------------------
(***************************************************************************)
(* What execute_command of kernel/utils/utils.cpp makes of a line: which   *)
(* command it takes it for and what it hands to that command.  Lines come  *)
(* one after the other in shell_buffer, each over what is left of the ones *)
(* before; Shell has the Enter that comes while a command sleeps.          *)
(*                                                                         *)
(* A command's name is one unit of text, and so is any other character: no *)
(* name is the beginning of another one.  What a command prints or does is *)
(* elsewhere (Console, Ext2, Disk, Desktop).                               *)
(***************************************************************************)
EXTENDS Naturals, Sequences, SequencesExt

CONSTANTS Units,                \* names of commands and characters
          Lines,                \* what the user may type of them
          MAX_COMMAND_LEN,      \* the buffer, in units
          Digits,               \* the value of each digit
          WordSize, DriveSize,  \* 2^32; sectors a drive can be asked for, 2^28
          TicksPerSecond,
          MaxLines              \* bound

NUL == "NUL"
Space == " "

\* Commands that take no argument, and those whose name is only a beginning.
Alone == {"help", "clear", "calculator", "xeyes", "startwm"}
Files == {"mkdir", "rm", "touch"}

CommandAssumption ==
  /\ Lines \subseteq Seq(Units) /\ NUL \notin Units
  /\ MAX_COMMAND_LEN \in Nat \ {0} /\ MaxLines \in Nat
  /\ {WordSize, DriveSize, TicksPerSecond} \subseteq Nat \ {0} /\ DriveSize <= WordSize
  /\ DOMAIN Digits \cap {NUL, Space} = {} /\ \A c \in DOMAIN Digits : Digits[c] \in 0 .. 9

VARIABLES command_buffer,       \* shell_buffer
          command_line,         \* the last one entered, as the screen shows it
          call, arg,            \* the command it ran and what that was given
          entered               \* lines so far

commandVars == <<command_buffer, command_line, call, arg, entered>>

-----------------------------------------------------------------------------
(* Text.  A pointer to char is a place in shell_buffer.                    *)

\* What stands from a place of a buffer up to the next NUL.
CString(buffer, from) ==
  LET end == CHOOSE i \in from .. MAX_COMMAND_LEN - 1 :
               buffer[i] = NUL /\ \A j \in from .. i - 1 : buffer[j] # NUL
  IN  [i \in 1 .. end - from |-> buffer[from + i - 1]]

next_arg(s) ==
  LET first == CHOOSE i \in 1 .. Len(s) + 1 :
                 (i > Len(s) \/ s[i] # Space) /\ \A j \in 1 .. i - 1 : s[j] = Space
  IN  SubSeq(s, first, Len(s))

is_number(s) == s # <<>> /\ ToSet(s) \subseteq DOMAIN Digits

NextDigit(ret, c) == (ret * 10 + Digits[c]) % WordSize

\* Only numbers in base 10 get here: is_number refuses the x of the others.
string_to_int(s) ==
  LET ret[k \in 0 .. Len(s)] == IF k = 0 THEN 0 ELSE NextDigit(ret[k - 1], s[k])
  IN  ret[Len(s)]

\* Each key and the NUL after it; no more than there is room for.
Typed(s) == IF Len(s) < MAX_COMMAND_LEN THEN s ELSE SubSeq(s, 1, MAX_COMMAND_LEN - 1)

NeverEnded(s) ==                                        \* mutant: no NUL is written
  [i \in 0 .. MAX_COMMAND_LEN - 1 |-> IF i < Len(Typed(s)) THEN s[i + 1] ELSE command_buffer[i]]

Filled(s) == [i \in 0 .. MAX_COMMAND_LEN - 1 |->
                IF i < Len(Typed(s)) THEN s[i + 1]
                ELSE IF i = Len(Typed(s)) THEN NUL ELSE command_buffer[i]]

-----------------------------------------------------------------------------
(* execute_command.                                                        *)

PastSpace(command) == CString(command, 2)               \* mutant: takes for granted that a space follows

\* What follows the name and spaces.
Operand(command) == next_arg(CString(command, 1))

\* echo and readdisk take for granted that a space follows.
AfterSpace(command) == CString(command, 2)

Runs(name, given) == call' = name /\ arg' = given
Complains(what) == Runs(what, <<>>)

OwnWord(command) == command[1] \in {Space, NUL}

readdisk(given) ==
  IF ~is_number(given) THEN Complains("invalid LBA")
  ELSE \/ Runs("read_disk", string_to_int(given) % DriveSize)
       \/ Complains("out of memory")

Ticks(seconds) == (seconds * TicksPerSecond) % WordSize

execute_command(command) ==
  LET name == command[0]
      \* what is not a command, with or without what follows its name
      unknown == /\ ~(name \in Alone /\ CString(command, 0) = <<name>>)
                 /\ ~(name \in {"ls", "cd"} /\ OwnWord(command))
                 /\ name \notin {"echo", "readdisk", "sleep"} \cup Files
  IN  \/ name \in Alone /\ CString(command, 0) = <<name>> /\ Runs(name, <<>>)
      \/ name = "echo" /\ Runs("echo", AfterSpace(command))
      \/ name = "readdisk" /\ readdisk(AfterSpace(command))
      \/ name = "ls" /\ OwnWord(command) /\ Runs("ls", Operand(command))
      \/ /\ name = "cd" /\ OwnWord(command)
         /\ Runs("cd", IF Operand(command) = <<>> THEN <<"/">> ELSE Operand(command))
      \/ /\ name = "sleep"
         /\ IF is_number(Operand(command)) THEN Runs("sleep", Ticks(string_to_int(Operand(command))))
            ELSE Complains("invalid time")
      \/ /\ name \in Files
         /\ IF Operand(command) = <<>> THEN Complains("missing operand") ELSE Runs(name, Operand(command))
      \/ unknown /\ Runs("unknown", CString(command, 0))

CommandInit == /\ command_buffer = [i \in 0 .. MAX_COMMAND_LEN - 1 |-> NUL]
        /\ command_line = <<>> /\ call = "none" /\ arg = <<>>
        /\ entered = 0

\* A line and its Enter; afterwards only the first character is cleared.
EnterLine(s) ==
  /\ entered < MaxLines /\ entered' = entered + 1
  /\ command_line' = Typed(s)
  /\ execute_command(Filled(s))
  /\ command_buffer' = [Filled(s) EXCEPT ![0] = NUL]

CommandNext == \E s \in Lines : EnterLine(s)

CommandSpec == CommandInit /\ [][CommandNext]_commandVars

-----------------------------------------------------------------------------
(* Properties.                                                             *)

Bare == command_line \in {<<"echo">>, <<"readdisk">>}

Texts == {"echo", "ls", "cd", "unknown"} \cup Files

\* Nothing of an older line, still in the buffer behind the new one, reaches
\* a command: the text it is given is the end of the line on the screen, and
\* but for echo only spaces stand between it and the name (utils.cpp lines
\* 451-554, idt.cpp lines 232-254).  Without a space after it, echo and
\* readdisk do read what an older line left.
OnlyTypedText ==
  call \in Texts /\ ~Bare /\ ~(call = "cd" /\ arg = <<"/">>) =>
    /\ IsSuffix(arg, command_line)
    /\ call \in {"ls", "cd"} \cup Files =>
         command_line[1] = call /\ \A i \in 2 .. Len(command_line) - Len(arg) : command_line[i] = Space

\* What decimal digits are worth.
Worth(s) ==
  LET worth[k \in 0 .. Len(s)] == IF k = 0 THEN 0 ELSE 10 * worth[k - 1] + Digits[s[k]]
  IN  worth[Len(s)]

Argument == next_arg(Tail(command_line))

Spaced == Len(command_line) > 1 /\ command_line[2] = Space

\* A number within the limits is taken as it was typed: that sector is read,
\* for so many seconds the shell sleeps.  From 2^28 on another sector is
\* read than the one printed, and from 4294968 on another time is slept
\* (utils.cpp lines 411-440, 483-503, 519-526, timer.cpp line 18).
NumbersAsTyped ==
  /\ call = "read_disk" /\ Spaced /\ Worth(Argument) < DriveSize => arg = Worth(Argument)
  /\ call = "sleep" /\ Worth(Argument) * TicksPerSecond < WordSize
       => arg = Worth(Argument) * TicksPerSecond

\* A command gets what the user typed, text and numbers (lines 457-594).
HandedAsTyped == OnlyTypedText /\ NumbersAsTyped
=============================================================================
