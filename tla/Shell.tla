------------------------------- MODULE Shell --------------------------------
(***************************************************************************)
(* The command line: the keyboard interrupt of kernel/idt/idt.cpp, which   *)
(* edits shell_buffer and runs the command when Enter comes, and sleep()   *)
(* of kernel/idt/timer.cpp, the one command that turns interrupts on again *)
(* inside the handler.                                                     *)
(*                                                                         *)
(* A handler runs with interrupts off, so what it does up to its end, or   *)
(* up to the sti of sleep(), is one step.  From that sti on, every         *)
(* assignment is a step: the timer may switch to another thread and, once  *)
(* it is unmasked, the keyboard may interrupt the handler it came from.    *)
(* The threads are those of Multitasking, which the tasks implement.       *)
(*                                                                         *)
(* Keys are the characters they give, shift included.  How long a sleep    *)
(* lasts, and what other commands print, is left out.                      *)
(***************************************************************************)
EXTENDS Naturals, Sequences, SequencesExt

CONSTANTS Thread, Boot,
          Char,             \* characters a key can give
          NUL,              \* '\0'
          MAX_COMMAND_LEN,
          SleepLines,       \* the lines that are sleep commands
          StartLines,       \* those that start the window manager, a task
          MaxKeys           \* keys the user presses: bounds Press

Enter == "enter"
Backspace == "backspace"
Key == Char \cup {Enter, Backspace}

ASSUME BufferAssumption == MAX_COMMAND_LEN \in Nat /\ MAX_COMMAND_LEN > 1

ASSUME ThreadAssumption == Boot \in Thread

ASSUME CharAssumption == NUL \notin Key /\ Enter \notin Char /\ Backspace \notin Char

ASSUME KeysAssumption == MaxKeys \in Nat

VARIABLES running, waiting,                 \* the threads
          pending, presses,                 \* keys on their way, keys pressed
          keyboard_masked, mouse_masked,    \* the bits of the two PIC masks
          shell_buffer, buffer_index,
          frames,       \* of each thread, the unfinished handlers on its stack
          line,         \* what the screen shows since the last Enter
          quiet,        \* no key of it came while a handler was unfinished
          last          \* the last Enter: the line shown, the command run, quiet

threads == <<running, waiting>>
masks == <<keyboard_masked, mouse_masked>>
editor == <<shell_buffer, buffer_index>>
history == <<line, quiet, last>>
vars == <<threads, pending, presses, masks, editor, frames, history>>

Tasks == INSTANCE Multitasking

Idle == \A t \in Thread : frames[t] = <<>>

Init == /\ Tasks!Init
        /\ pending = <<>> /\ presses = 0
        /\ keyboard_masked = FALSE /\ mouse_masked = FALSE
        /\ shell_buffer = [i \in 0 .. MAX_COMMAND_LEN - 1 |-> NUL]
        /\ buffer_index = 0
        /\ frames = [t \in Thread |-> <<>>]
        /\ line = <<>> /\ quiet = TRUE
        /\ last = [shown |-> <<>>, ran |-> <<>>, quiet |-> TRUE]

-----------------------------------------------------------------------------
(* Typing.                                                                 *)

Press == /\ presses < MaxKeys
         /\ \E k \in Key : pending' = Append(pending, k)
         /\ presses' = presses + 1
         /\ UNCHANGED <<threads, masks, editor, frames, history>>

\* IRQ1 is taken by the running thread, which has interrupts on.
Irq1(k) == /\ ~keyboard_masked
           /\ pending # <<>> /\ k = Head(pending)
           /\ pending' = Tail(pending)
           /\ UNCHANGED presses

Room == buffer_index < MAX_COMMAND_LEN - 1

\* c is stored with a NUL after it, and shown.
TypeChar ==
  \E c \in Char :
    /\ Irq1(c)
    /\ Room
    /\ shell_buffer' = [i \in DOMAIN shell_buffer |->
                          IF i = buffer_index THEN c
                          ELSE IF i = buffer_index + 1 THEN NUL ELSE shell_buffer[i]]
    /\ buffer_index' = buffer_index + 1
    /\ line' = Append(line, c)
    /\ quiet' = (quiet /\ Idle)
    /\ UNCHANGED <<threads, masks, frames, last>>

TypeBackspace ==
  /\ Irq1(Backspace)
  /\ buffer_index > 0
  /\ buffer_index' = buffer_index - 1
  /\ shell_buffer' = [shell_buffer EXCEPT ![buffer_index - 1] = NUL]
  /\ line' = IF line = <<>> THEN <<>> ELSE Front(line)
  /\ quiet' = (quiet /\ Idle)
  /\ UNCHANGED <<threads, masks, frames, last>>

\* A full buffer, or nothing to delete: the key is dropped.
DropKey ==
  /\ \/ ~Room /\ \E c \in Char : Irq1(c)
     \/ buffer_index = 0 /\ Irq1(Backspace)
  /\ UNCHANGED <<threads, masks, editor, frames, history>>

-----------------------------------------------------------------------------
(* Enter.                                                                  *)

Terminated == [shell_buffer EXCEPT ![buffer_index] = NUL]

\* The string execute_command is given: up to the first NUL.
CString(buffer) ==
  LET stop == CHOOSE n \in DOMAIN buffer :
                buffer[n] = NUL /\ \A i \in 0 .. n - 1 : buffer[i] # NUL
  IN  [i \in 1 .. stop |-> buffer[i - 1]]

Command == CString(Terminated)

Ran == /\ last' = [shown |-> line, ran |-> Command, quiet |-> quiet /\ Idle]
       /\ line' = <<>>
       /\ quiet' = TRUE

\* Any command but sleep ends before the handler does.
RunCommand ==
  /\ Irq1(Enter)
  /\ Command \notin SleepLines
  /\ \/ /\ Command \in StartLines
        /\ \E t \in Thread : Tasks!Create(t)
     \/ /\ Command \in StartLines => Thread \subseteq waiting \cup {running}
        /\ UNCHANGED threads
  /\ buffer_index' = 0
  /\ shell_buffer' = [Terminated EXCEPT ![0] = NUL]
  /\ Ran
  /\ UNCHANGED <<masks, frames>>

SavedLate == [keyboard |-> TRUE, mouse |-> TRUE]            \* mutant: saved after masking

\* The masks as sleep() saves them.
Saved == [keyboard |-> keyboard_masked, mouse |-> mouse_masked]

\* sleep(): all but the timer is masked, then interrupts go on.
RunSleep ==
  /\ Irq1(Enter)
  /\ Command \in SleepLines
  /\ frames' = [frames EXCEPT ![running] = Append(@, [pc |-> "hlt", saved |-> Saved])]
  /\ keyboard_masked' = TRUE
  /\ mouse_masked' = TRUE
  /\ shell_buffer' = Terminated
  /\ Ran
  /\ UNCHANGED <<threads, buffer_index>>

-----------------------------------------------------------------------------
(* The rest of a handler that slept, interrupts on.  Only the innermost    *)
(* handler of the running thread goes on.                                  *)

Top(t) == Last(frames[t])

At(t, pc) == running = t /\ frames[t] # <<>> /\ Top(t).pc = pc

GoTo(t, pc) == frames' = [frames EXCEPT ![t][Len(frames[t])].pc = pc]

\* The time is over: the loop ends, the master PIC's mask is restored.
UnmaskMaster(t) ==
  /\ At(t, "hlt")
  /\ keyboard_masked' = Top(t).saved.keyboard
  /\ GoTo(t, "unmask_slave")
  /\ UNCHANGED <<threads, pending, presses, mouse_masked, editor, history>>

SlaveForgotten(t) ==                                        \* mutant: slave mask not restored
  /\ At(t, "unmask_slave")
  /\ GoTo(t, "reset_index")
  /\ UNCHANGED <<threads, pending, presses, masks, editor, history>>

UnmaskSlave(t) ==
  /\ At(t, "unmask_slave")
  /\ mouse_masked' = Top(t).saved.mouse
  /\ GoTo(t, "reset_index")
  /\ UNCHANGED <<threads, pending, presses, keyboard_masked, editor, history>>

IndexKept(t) ==                                             \* mutant: buffer_index not reset
  /\ At(t, "reset_index")
  /\ GoTo(t, "reset_buffer")
  /\ UNCHANGED <<threads, pending, presses, masks, editor, history>>

ResetIndex(t) ==
  /\ At(t, "reset_index")
  /\ buffer_index' = 0
  /\ GoTo(t, "reset_buffer")
  /\ UNCHANGED <<threads, pending, presses, masks, shell_buffer, history>>

ResetBuffer(t) ==
  /\ At(t, "reset_buffer")
  /\ shell_buffer' = [shell_buffer EXCEPT ![0] = NUL]
  /\ frames' = [frames EXCEPT ![t] = Front(@)]
  /\ UNCHANGED <<threads, pending, presses, masks, buffer_index, history>>

Resume(t) == UnmaskMaster(t) \/ UnmaskSlave(t) \/ ResetIndex(t) \/ ResetBuffer(t)

-----------------------------------------------------------------------------
\* The timer interrupt.
Tick == /\ \E t \in Thread : Tasks!Switch(t)
        /\ UNCHANGED <<pending, presses, masks, editor, frames, history>>

Keyboard == TypeChar \/ TypeBackspace \/ DropKey \/ RunCommand \/ RunSleep

Next == Press \/ Keyboard \/ Tick \/ \E t \in Thread : Resume(t)

\* An unmasked interrupt is taken; the timer ticks, so that time passes and
\* every thread gets the processor again and again, long enough for a step.
Fairness == WF_vars(Keyboard) /\ WF_vars(Tick) /\ \A t \in Thread : SF_vars(Resume(t))

Spec == Init /\ [][Next]_vars /\ Fairness

-----------------------------------------------------------------------------
(* Properties.                                                             *)

Frame == [pc : {"hlt", "unmask_slave", "reset_index", "reset_buffer"},
          saved : [keyboard : BOOLEAN, mouse : BOOLEAN]]

\* Types; the index always leaves place for the NUL after it.
TypeOK == /\ running \in Thread /\ waiting \subseteq Thread
          /\ pending \in Seq(Key) /\ presses \in 0 .. MaxKeys
          /\ keyboard_masked \in BOOLEAN /\ mouse_masked \in BOOLEAN
          /\ shell_buffer \in [0 .. MAX_COMMAND_LEN - 1 -> Char \cup {NUL}]
          /\ buffer_index \in 0 .. MAX_COMMAND_LEN - 1
          /\ frames \in [Thread -> Seq(Frame)]
          /\ line \in Seq(Char) /\ quiet \in BOOLEAN
          /\ last \in [shown : Seq(Char), ran : Seq(Char), quiet : BOOLEAN]

\* Handler k of thread t waits in sleep().
Asleep(t, k) == k \in DOMAIN frames[t] /\ frames[t][k].pc = "hlt"

\* The keyboard is masked exactly while a handler sleeps, and two never
\* sleep at once: it comes back after every sleep, however the sleepers of
\* several threads are switched and nested (timer.cpp lines 20-35).
KeyboardMaskedWhileSleeping ==
  /\ keyboard_masked <=> \E t \in Thread : \E k \in DOMAIN frames[t] : Asleep(t, k)
  /\ \A t, u \in Thread : \A k \in DOMAIN frames[t], l \in DOMAIN frames[u] :
        Asleep(t, k) /\ Asleep(u, l) => t = u /\ k = l

\* As long as the boot flow is alone, the mouse comes back too: handlers
\* that sleep are then nested in each other (timer.cpp lines 22, 35).
MouseBackWhenAlone == (waiting = {} /\ Idle) => ~mouse_masked

\* A line of which every key came when no handler was unfinished is run as
\* it was shown, whatever was typed during the sleeps before it (idt.cpp
\* lines 232-254).
QuietLineRuns == TypeOK /\ (last.quiet => last.ran = last.shown)

\* Every key pressed is handled in the end: sleeps do not lock the keyboard
\* out, and no handler is left unfinished.
EveryKeyHandled == []<>(pending = <<>> /\ Idle)

\* docs/console.md: "Whenever the user hits enter, I make it so that the
\* program goes to a newline, and check if the buffer_index is any valid
\* commands, and then if it is, I run the chosen command."
RunsWhatWasTyped == last.ran = last.shown

\* timer.cpp line 20, "save pic masks": when no handler is unfinished, they
\* are what they were.
MasksBack == Idle => ~keyboard_masked /\ ~mouse_masked
=============================================================================
