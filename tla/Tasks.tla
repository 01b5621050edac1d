------------------------------- MODULE Tasks --------------------------------
(***************************************************************************)
(* The tasks of kernel/tasks: a table of slots, the round-robin schedule() *)
(* called by every timer interrupt (kernel/idt/idt.cpp), the context       *)
(* switch of switch.s, task_create and task_exit.                          *)
(*                                                                         *)
(* A thread is a stack with what has been pushed on it; tasks[i].rsp is    *)
(* modelled by the thread it points to, and is Stale once that thread is   *)
(* resumed: the point it names is gone.  Interrupt handlers run with       *)
(* interrupts off, so schedule() and task_create are one step each;        *)
(* between two steps the running thread has interrupts on.                 *)
(***************************************************************************)
EXTENDS Naturals, FiniteSets

CONSTANTS MAX_TASKS,
          Thread,       \* every thread that may ever exist
          Boot,         \* the boot flow, task 0
          Frame, NULL,  \* pages for the stacks
          MayReturn     \* whether an entry function may return

ASSUME TasksAssumption == MAX_TASKS \in Nat \ {0}

\* The boot flow's stack, named after it, is not one of the pages.
ASSUME ThreadAssumption == Boot \in Thread \ Frame

ASSUME ReturnAssumption == MayReturn \in BOOLEAN

ASSUME NullAssumption == NULL \notin Thread \cup Frame

Slot == 0 .. MAX_TASKS - 1

Stale == NULL

VARIABLES state,        \* of each slot: 0 free, 1 ready
          rsp,          \* the thread each slot resumes
          current,      \* the slot that runs
          running,      \* the thread on the processor
          started,      \* threads that have run
          stack,        \* the page of each thread's stack
          exited,       \* threads that are in task_exit's loop
          avail, held, result,  \* of the frame allocator
          waited        \* ticks each ready slot has been passed over

frameVars == <<avail, held, result>>
table == <<state, rsp, current>>
vars == <<table, running, started, stack, exited, frameVars, waited>>

Frames == INSTANCE FrameAllocator

Born == DOMAIN stack

\* The boot flow's stack is below 2 MB, not one of the frames.
Init == /\ state = [i \in Slot |-> IF i = 0 THEN 1 ELSE 0]
        /\ rsp = [i \in Slot |-> Stale]
        /\ current = 0
        /\ running = Boot
        /\ started = {Boot}
        /\ stack = [t \in {Boot} |-> Boot]
        /\ exited = {}
        /\ avail = Frame /\ held = {} /\ result = NULL
        /\ waited = [i \in Slot |-> 0]

-----------------------------------------------------------------------------
(* schedule(): the do-while loop stops at the first ready slot after the   *)
(* current one, or back at the current one.                                *)

Ahead(d) == (current + d) % MAX_TASKS

StopsAfter(d) == /\ d \in 1 .. MAX_TASKS
                 /\ state[Ahead(d)] = 1 \/ d = MAX_TASKS
                 /\ \A e \in 1 .. d - 1 : state[Ahead(e)] # 1

FromZero(n) == /\ n \in Slot \ {current}             \* mutant: search not from current
               /\ state[n] = 1
               /\ \A m \in Slot \ {current} : m < n => state[m] # 1

Chosen(n) == \E d \in 1 .. MAX_TASKS : StopsAfter(d) /\ n = Ahead(d)

SwitchUnsaved(n) == /\ rsp' = [rsp EXCEPT ![n] = Stale]    \* mutant: rsp not stored
                    /\ running' = rsp[n]
                    /\ started' = started \cup {rsp[n]}
                    /\ current' = n

SwitchCrossed(n) == /\ rsp' = [rsp EXCEPT ![n] = running]  \* mutant: stored in the new slot
                    /\ running' = rsp[n]
                    /\ started' = started \cup {rsp[n]}
                    /\ current' = n

\* switch_task: the old thread's stack pointer goes to its slot, the new
\* one's is loaded.  A thread that never ran pops task_start: interrupts
\* on, then its entry; another returns into its own timer interrupt.
SwitchTo(n) == /\ rsp' = [rsp EXCEPT ![current] = running, ![n] = Stale]
               /\ running' = rsp[n]
               /\ started' = started \cup {rsp[n]}
               /\ current' = n

\* The count stops at MAX_TASKS, which is more than it should ever reach.
PassOver(n) ==
  waited' = [i \in Slot |-> IF i = n \/ state[i] # 1 THEN 0
                           ELSE IF waited[i] < MAX_TASKS THEN waited[i] + 1 ELSE MAX_TASKS]

Tick == \E n \in Slot :
          /\ Chosen(n)
          /\ IF n = current
             THEN UNCHANGED <<rsp, running, started, current>>
             ELSE SwitchTo(n)
          /\ PassOver(n)
          /\ UNCHANGED <<state, stack, exited, frameVars>>

-----------------------------------------------------------------------------
(* task_create, called by a shell command in the keyboard interrupt.       *)

FreeSlot(i) == /\ i \in 1 .. MAX_TASKS - 1
               /\ state[i] = 0
               /\ \A j \in 1 .. i - 1 : state[j] # 0

\* A refused page is not noticed: the stack is then the page of address 0.
StackFor(t) == \/ \E p \in Frame : Frames!Grant(p) /\ stack' = [u \in Born \cup {t} |-> IF u = t THEN p ELSE stack[u]]
               \/ Frames!Refuse /\ stack' = [u \in Born \cup {t} |-> IF u = t THEN NULL ELSE stack[u]]

Create == \E t \in Thread \ Born : \E i \in Slot :
            /\ FreeSlot(i)
            /\ StackFor(t)
            /\ rsp' = [rsp EXCEPT ![i] = t]
            /\ state' = [state EXCEPT ![i] = 1]
            /\ UNCHANGED <<current, running, started, exited, waited>>

\* No slot is free: -1, which no caller looks at.
CreateFails == /\ \A i \in 1 .. MAX_TASKS - 1 : state[i] # 0
               /\ UNCHANGED vars

ExitFreesStack ==                        \* mutant: the page it still runs on is freed
  /\ MayReturn
  /\ running \notin exited \cup {Boot}
  /\ state' = [state EXCEPT ![current] = 0]
  /\ exited' = exited \cup {running}
  /\ Frames!Return(stack[running])
  /\ UNCHANGED <<rsp, current, running, started, stack, waited>>

\* task_exit: an entry that returns lands here.  The stack is not freed.
Exit == /\ MayReturn
        /\ running \notin exited \cup {Boot}
        /\ state' = [state EXCEPT ![current] = 0]
        /\ exited' = exited \cup {running}
        /\ UNCHANGED <<rsp, current, running, started, stack, frameVars, waited>>

Next == Tick \/ Create \/ CreateFails \/ Exit

\* The timer keeps interrupting: every thread runs with interrupts on, or
\* halts waiting for one.
Spec == Init /\ [][Next]_vars /\ WF_vars(Tick)

-----------------------------------------------------------------------------
(* Properties.                                                             *)

Ready == {i \in Slot : state[i] = 1}

Waiting == {rsp[i] : i \in Ready \ {current}}

\* Types: slots hold threads that were created, the current slot included.
TypeOK == /\ state \in [Slot -> {0, 1}]
          /\ rsp \in [Slot -> Thread \cup {Stale}]
          /\ current \in Slot
          /\ Born \subseteq Thread /\ Boot \in Born
          /\ stack \in [Born -> Frame \cup {NULL, Boot}]
          /\ running \in started /\ started \subseteq Born
          /\ exited \subseteq Born
          /\ avail \subseteq Frame /\ held \subseteq Frame
          /\ result \in Frame \cup {NULL}
          /\ waited \in [Slot -> Nat]

\* What schedule() may resume is always a thread, at the point where it was
\* interrupted, and never the running one or one that another ready slot
\* resumes too, whatever the order of ticks, creations and exits (task.cpp
\* lines 7-27, switch.s lines 4-19).
NoThreadTwice ==
  /\ Stale \notin Waiting
  /\ \A i, j \in Ready \ {current} : rsp[i] = rsp[j] => i = j
  /\ running \notin Waiting

\* A ready slot is not passed over more often than there are other slots:
\* nobody starves, also while tasks are created and exit (task.cpp line 23).
BoundedWait == \A i \in Ready : waited[i] < MAX_TASKS

\* Two threads that can still run never share a stack page (task.cpp line
\* 10), as long as at most one creation found no page left.
StacksPrivate == \A t, u \in Waiting \cup {running} : t # u => stack[t] # stack[u]

\* With entries that never return, the slots implement plain multitasking:
\* each thread is in one place, and no switch loses one.
Plain == INSTANCE Multitasking WITH waiting <- Waiting
MultitaskingSpec == Plain!Spec

\* Every thread that waits gets the processor, again and again.
EveryThreadRuns == \A t \in Thread : t \in Waiting ~> running = t
=============================================================================
