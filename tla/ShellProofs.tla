---------------------------- MODULE ShellProofs -----------------------------
(***************************************************************************)
(* What is proved of sleep() in the keyboard interrupt, for any number of  *)
(* threads and keys and whatever the commands are: the keyboard is masked  *)
(* exactly while a handler sleeps, as long as the boot flow is the only    *)
(* thread the mouse comes back after every sleep, and a line typed while   *)
(* no handler was unfinished is run as it was shown.                       *)
(***************************************************************************)
EXTENDS Shell, WellFoundedInduction, TLAPS

\* The part of the types that the masks depend on.
FramesOK == /\ running \in Thread /\ waiting \subseteq Thread
            /\ keyboard_masked \in BOOLEAN /\ mouse_masked \in BOOLEAN
            /\ frames \in [Thread -> Seq(Frame)]

\* Only an unmasked keyboard interrupt starts a sleep.
SavedUnmasked ==
  \A t \in Thread : \A k \in DOMAIN frames[t] : frames[t][k].saved.keyboard = FALSE

IInv == FramesOK /\ SavedUnmasked /\ KeyboardMaskedWhileSleeping

-----------------------------------------------------------------------------
(* The three ways the unfinished handlers of a thread change.              *)

LEMMA PushFrame ==
  ASSUME FramesOK, NEW f \in Frame,
         frames' = [frames EXCEPT ![running] = Append(@, f)]
  PROVE  /\ frames' \in [Thread -> Seq(Frame)]
         /\ \A t \in Thread : t # running => frames'[t] = frames[t]
         /\ DOMAIN frames[running] = 1 .. Len(frames[running])
         /\ Len(frames[running]) \in Nat
         /\ DOMAIN frames'[running] = 1 .. Len(frames[running]) + 1
         /\ \A k \in 1 .. Len(frames[running]) : frames'[running][k] = frames[running][k]
         /\ frames'[running][Len(frames[running]) + 1] = f
<1>1. running \in Thread /\ frames[running] \in Seq(Frame)
  BY DEF FramesOK
<1>2. frames'[running] = Append(frames[running], f)
  BY <1>1 DEF FramesOK
<1>. QED
  BY <1>1, <1>2 DEF FramesOK

LEMMA AdvanceFrame ==
  ASSUME FramesOK, NEW t \in Thread, frames[t] # <<>>,
         NEW pc \in {"hlt", "unmask_slave", "reset_index", "reset_buffer"}, GoTo(t, pc)
  PROVE  /\ frames' \in [Thread -> Seq(Frame)]
         /\ \A u \in Thread : u # t => frames'[u] = frames[u]
         /\ Len(frames[t]) \in DOMAIN frames[t]
         /\ DOMAIN frames[t] = 1 .. Len(frames[t]) /\ Len(frames[t]) \in Nat
         /\ DOMAIN frames'[t] = DOMAIN frames[t]
         /\ \A k \in DOMAIN frames[t] :
               /\ frames'[t][k].saved = frames[t][k].saved
               /\ frames'[t][k].pc = IF k = Len(frames[t]) THEN pc ELSE frames[t][k].pc
<1> DEFINE n == Len(frames[t])
<1>1. frames[t] \in Seq(Frame) /\ n \in Nat \ {0} /\ n \in DOMAIN frames[t]
  BY DEF FramesOK
<1>2. frames' = [frames EXCEPT ![t] = [frames[t] EXCEPT ![n] = [frames[t][n] EXCEPT !.pc = pc]]]
  BY DEF GoTo
<1>3. frames[t][n] \in Frame
  BY <1>1
<1>4. [frames[t][n] EXCEPT !.pc = pc] \in Frame
  BY <1>3 DEF Frame
<1>5. frames'[t] = [frames[t] EXCEPT ![n] = [frames[t][n] EXCEPT !.pc = pc]]
  BY <1>2 DEF FramesOK
<1>6. frames'[t] \in Seq(Frame)
  BY <1>1, <1>4, <1>5
<1>7. \A k \in DOMAIN frames[t] : frames[t][k] \in Frame
  BY <1>1
<1>8. \A k \in DOMAIN frames[t] :
         /\ frames'[t][k].saved = frames[t][k].saved
         /\ frames'[t][k].pc = IF k = n THEN pc ELSE frames[t][k].pc
  BY <1>1, <1>5, <1>7 DEF Frame
<1>. QED
  BY <1>1, <1>2, <1>5, <1>6, <1>8 DEF FramesOK

LEMMA PopFrame ==
  ASSUME FramesOK, NEW t \in Thread, frames[t] # <<>>,
         frames' = [frames EXCEPT ![t] = Front(@)]
  PROVE  /\ frames' \in [Thread -> Seq(Frame)]
         /\ \A u \in Thread : u # t => frames'[u] = frames[u]
         /\ DOMAIN frames[t] = 1 .. Len(frames[t]) /\ Len(frames[t]) \in Nat \ {0}
         /\ DOMAIN frames'[t] = 1 .. Len(frames[t]) - 1
         /\ \A k \in 1 .. Len(frames[t]) - 1 : frames'[t][k] = frames[t][k]
<1>1. frames[t] \in Seq(Frame) /\ Len(frames[t]) \in Nat \ {0}
  BY DEF FramesOK
<1>2. frames'[t] = Front(frames[t])
  BY DEF FramesOK
<1>3. frames'[t] = SubSeq(frames[t], 1, Len(frames[t]) - 1)
  BY <1>2 DEF Front
<1>4. /\ frames'[t] \in Seq(Frame)
      /\ DOMAIN frames'[t] = 1 .. Len(frames[t]) - 1
      /\ \A k \in 1 .. Len(frames[t]) - 1 : frames'[t][k] = frames[t][k]
  BY <1>1, <1>3
<1>5. DOMAIN frames[t] = 1 .. Len(frames[t])
  BY <1>1
<1>. QED
  BY <1>1, <1>4, <1>5 DEF FramesOK

-----------------------------------------------------------------------------
(* The keyboard's mask.                                                    *)

\* A thread switch or a new thread.
LEMMA ThreadsStep ==
  ASSUME FramesOK, NEW t \in Thread, Tasks!Create(t) \/ Tasks!Switch(t)
  PROVE  running' \in Thread /\ waiting' \subseteq Thread
BY DEF FramesOK, Tasks!Create, Tasks!Switch

LEMMA StillFrames ==
  ASSUME IInv, UNCHANGED <<frames, keyboard_masked, mouse_masked>>,
         running' \in Thread, waiting' \subseteq Thread
  PROVE  IInv'
BY DEF IInv, FramesOK, SavedUnmasked, KeyboardMaskedWhileSleeping, Asleep

LEMMA SleepKeeps == ASSUME IInv, RunSleep PROVE IInv'
<1> DEFINE f == [pc |-> "hlt", saved |-> Saved]
           n == Len(frames[running]) + 1
<1>1. f \in Frame /\ f.saved.keyboard = FALSE
  BY DEF IInv, FramesOK, Frame, Saved, RunSleep, Irq1
<1>2. /\ frames' = [frames EXCEPT ![running] = Append(@, f)]
      /\ keyboard_masked = FALSE /\ keyboard_masked' = TRUE /\ mouse_masked' = TRUE
      /\ running' = running /\ waiting' = waiting
  BY DEF RunSleep, Irq1, threads, IInv, FramesOK
<1>3. /\ frames' \in [Thread -> Seq(Frame)]
      /\ \A t \in Thread : t # running => frames'[t] = frames[t]
      /\ DOMAIN frames[running] = 1 .. n - 1
      /\ n \in Nat \ {0}
      /\ DOMAIN frames'[running] = 1 .. n
      /\ \A k \in 1 .. n - 1 : frames'[running][k] = frames[running][k]
      /\ frames'[running][n] = f
  <2>1. Len(frames[running]) \in Nat /\ n - 1 = Len(frames[running])
    BY DEF IInv, FramesOK
  <2>2. FramesOK
    BY DEF IInv
  <2>3. /\ frames' \in [Thread -> Seq(Frame)]
        /\ \A t \in Thread : t # running => frames'[t] = frames[t]
        /\ DOMAIN frames[running] = 1 .. Len(frames[running])
        /\ DOMAIN frames'[running] = 1 .. Len(frames[running]) + 1
        /\ \A k \in 1 .. Len(frames[running]) : frames'[running][k] = frames[running][k]
        /\ frames'[running][Len(frames[running]) + 1] = f
    BY <1>1, <1>2, <2>2, PushFrame
  <2>. QED
    BY <2>1, <2>3
<1>4. \A t \in Thread : \A k \in DOMAIN frames[t] : ~Asleep(t, k)
  BY <1>2 DEF IInv, KeyboardMaskedWhileSleeping
<1>5. \A t \in Thread : \A k \in DOMAIN frames'[t] : Asleep(t, k)' <=> t = running /\ k = n
  BY <1>3, <1>4, SMTT(20) DEF Asleep, IInv, FramesOK
<1>6. KeyboardMaskedWhileSleeping'
  BY <1>2, <1>3, <1>5 DEF KeyboardMaskedWhileSleeping, IInv, FramesOK
<1>7. SavedUnmasked'
  BY <1>1, <1>3 DEF IInv, SavedUnmasked, FramesOK
<1>. QED
  BY <1>2, <1>3, <1>6, <1>7 DEF IInv, FramesOK

\* The sleeper ends: it was the only one.
LEMMA UnmaskMasterKeeps == ASSUME IInv, NEW t \in Thread, UnmaskMaster(t) PROVE IInv'
<1> DEFINE n == Len(frames[t])
<1>1. /\ frames[t] # <<>> /\ frames[t][n].pc = "hlt"
      /\ keyboard_masked' = frames[t][n].saved.keyboard
      /\ GoTo(t, "unmask_slave")
      /\ UNCHANGED <<running, waiting, mouse_masked>>
  BY DEF UnmaskMaster, At, Top, Last, threads
<1>2. /\ frames' \in [Thread -> Seq(Frame)]
      /\ \A u \in Thread : u # t => frames'[u] = frames[u]
      /\ n \in DOMAIN frames[t]
      /\ DOMAIN frames'[t] = DOMAIN frames[t]
      /\ \A k \in DOMAIN frames[t] :
            /\ frames'[t][k].saved = frames[t][k].saved
            /\ frames'[t][k].pc = IF k = n THEN "unmask_slave" ELSE frames[t][k].pc
  BY <1>1, AdvanceFrame DEF IInv
<1>3. Asleep(t, n)
  BY <1>1, <1>2 DEF Asleep
<1>4. \A u \in Thread : \A k \in DOMAIN frames[u] : Asleep(u, k) => u = t /\ k = n
  BY <1>2, <1>3 DEF IInv, KeyboardMaskedWhileSleeping
<1>5. \A u \in Thread : \A k \in DOMAIN frames'[u] : ~Asleep(u, k)'
  BY <1>2, <1>4 DEF Asleep
<1>6. keyboard_masked' = FALSE
  BY <1>1, <1>2 DEF IInv, SavedUnmasked
<1>7. KeyboardMaskedWhileSleeping'
  BY <1>5, <1>6 DEF KeyboardMaskedWhileSleeping
<1>8. SavedUnmasked'
  BY <1>2 DEF IInv, SavedUnmasked
<1>. QED
  BY <1>1, <1>2, <1>6, <1>7, <1>8 DEF IInv, FramesOK

\* A step of a handler that does not sleep any more.
LEMMA AwakeKeeps ==
  ASSUME IInv, NEW t \in Thread, frames[t] # <<>>, Top(t).pc # "hlt",
         NEW pc \in {"unmask_slave", "reset_index", "reset_buffer"}, GoTo(t, pc),
         UNCHANGED <<running, waiting, keyboard_masked>>, mouse_masked' \in BOOLEAN
  PROVE  IInv'
<1> DEFINE n == Len(frames[t])
<1>1. /\ frames' \in [Thread -> Seq(Frame)]
      /\ \A u \in Thread : u # t => frames'[u] = frames[u]
      /\ n \in DOMAIN frames[t]
      /\ DOMAIN frames'[t] = DOMAIN frames[t]
      /\ \A k \in DOMAIN frames[t] :
            /\ frames'[t][k].saved = frames[t][k].saved
            /\ frames'[t][k].pc = IF k = n THEN pc ELSE frames[t][k].pc
  BY AdvanceFrame DEF IInv
<1>2. frames[t][n].pc # "hlt"
  BY DEF Top, Last
<1>3. \A u \in Thread : /\ DOMAIN frames'[u] = DOMAIN frames[u]
                        /\ \A k \in DOMAIN frames[u] : Asleep(u, k)' <=> Asleep(u, k)
  BY <1>1, <1>2 DEF Asleep
<1>4. KeyboardMaskedWhileSleeping'
  BY <1>3 DEF IInv, KeyboardMaskedWhileSleeping
<1>5. SavedUnmasked'
  BY <1>1 DEF IInv, SavedUnmasked
<1>. QED
  BY <1>1, <1>4, <1>5 DEF IInv, FramesOK

LEMMA ResetBufferKeeps == ASSUME IInv, NEW t \in Thread, ResetBuffer(t) PROVE IInv'
<1> DEFINE n == Len(frames[t])
<1>1. /\ frames[t] # <<>> /\ frames[t][n].pc = "reset_buffer"
      /\ frames' = [frames EXCEPT ![t] = Front(@)]
      /\ UNCHANGED <<running, waiting, keyboard_masked, mouse_masked>>
  BY DEF ResetBuffer, At, Top, Last, threads, masks
<1>2. /\ frames' \in [Thread -> Seq(Frame)]
      /\ \A u \in Thread : u # t => frames'[u] = frames[u]
      /\ DOMAIN frames[t] = 1 .. n /\ n \in Nat \ {0}
      /\ DOMAIN frames'[t] = 1 .. n - 1
      /\ \A k \in 1 .. n - 1 : frames'[t][k] = frames[t][k]
  BY <1>1, PopFrame DEF IInv
<1>3. \A u \in Thread : \A k : Asleep(u, k)' <=> Asleep(u, k)
  BY <1>1, <1>2 DEF Asleep
<1>4. \A u \in Thread : \A k : k \in DOMAIN frames'[u] => k \in DOMAIN frames[u]
  BY <1>2, SMTT(20)
<1>5. KeyboardMaskedWhileSleeping'
  BY <1>1, <1>3, <1>4 DEF IInv, KeyboardMaskedWhileSleeping, Asleep
<1>6. SavedUnmasked'
  BY <1>2 DEF IInv, SavedUnmasked
<1>. QED
  BY <1>1, <1>2, <1>5, <1>6 DEF IInv, FramesOK

LEMMA ResumeKeeps == ASSUME IInv, NEW t \in Thread, Resume(t) PROVE IInv'
<1>1. CASE UnmaskMaster(t)
  BY <1>1, UnmaskMasterKeeps
<1>2. CASE UnmaskSlave(t)
  <2>1. Top(t) \in Frame
    BY <1>2 DEF UnmaskSlave, At, Top, Last, IInv, FramesOK
  <2>2. mouse_masked' \in BOOLEAN
    BY <1>2, <2>1 DEF UnmaskSlave, Frame
  <2>. QED
    BY <1>2, <2>2, AwakeKeeps DEF UnmaskSlave, At, threads
<1>3. CASE ResetIndex(t)
  <2>1. mouse_masked' \in BOOLEAN
    BY <1>3 DEF ResetIndex, masks, IInv, FramesOK
  <2>. QED
    BY <1>3, <2>1, AwakeKeeps DEF ResetIndex, At, threads, masks
<1>4. CASE ResetBuffer(t)
  BY <1>4, ResetBufferKeeps
<1>. QED
  BY <1>1, <1>2, <1>3, <1>4 DEF Resume

LEMMA InitIInv == Init => IInv
<1>. SUFFICES ASSUME Init PROVE IInv
  OBVIOUS
<1>1. FramesOK
  <2>1. <<>> \in Seq(Frame)
    OBVIOUS
  <2>. QED
    BY <2>1, ThreadAssumption DEF Init, Tasks!Init, FramesOK
<1>2. \A t \in Thread : DOMAIN frames[t] = {}
  BY DEF Init
<1>. QED
  BY <1>1, <1>2 DEF Init, IInv, SavedUnmasked, KeyboardMaskedWhileSleeping

LEMMA StepIInv == IInv /\ [Next]_vars => IInv'
<1>. SUFFICES ASSUME IInv, [Next]_vars PROVE IInv'
  OBVIOUS
<1>1. CASE Press \/ TypeChar \/ TypeBackspace \/ DropKey \/ UNCHANGED vars
  <2>1. UNCHANGED <<frames, keyboard_masked, mouse_masked, running, waiting>>
    BY <1>1 DEF Press, TypeChar, TypeBackspace, DropKey, vars, threads, masks
  <2>. QED
    BY <2>1, StillFrames DEF IInv, FramesOK
<1>2. CASE RunCommand
  <2>1. UNCHANGED <<frames, keyboard_masked, mouse_masked>>
    BY <1>2 DEF RunCommand, masks
  <2>2. running' \in Thread /\ waiting' \subseteq Thread
    <3>1. CASE UNCHANGED threads
      BY <3>1 DEF threads, IInv, FramesOK
    <3>2. CASE \E t \in Thread : Tasks!Create(t)
      BY <3>2, ThreadsStep DEF IInv
    <3>. QED
      BY <1>2, <3>1, <3>2 DEF RunCommand
  <2>. QED
    BY <2>1, <2>2, StillFrames
<1>3. CASE RunSleep
  BY <1>3, SleepKeeps
<1>4. CASE Tick
  <2>1. UNCHANGED <<frames, keyboard_masked, mouse_masked>>
    BY <1>4 DEF Tick, masks
  <2>2. running' \in Thread /\ waiting' \subseteq Thread
    BY <1>4, ThreadsStep DEF Tick, IInv
  <2>. QED
    BY <2>1, <2>2, StillFrames
<1>5. CASE \E t \in Thread : Resume(t)
  BY <1>5, ResumeKeeps
<1>. QED
  BY <1>1, <1>2, <1>3, <1>4, <1>5 DEF Next, Keyboard

\* The keyboard is masked exactly while a handler sleeps, and never by two
\* (timer.cpp lines 20-35), for any number of threads and nested handlers.
THEOREM KeyboardComesBack == Spec => []KeyboardMaskedWhileSleeping
<1>1. IInv => KeyboardMaskedWhileSleeping
  BY DEF IInv
<1>. QED
  BY <1>1, InitIInv, StepIInv, PTL DEF Spec

-----------------------------------------------------------------------------
(* The mouse's mask.  While the boot flow is the only thread the handlers  *)
(* that sleep are nested: what one saved says whether one below it still   *)
(* has the slave PIC masked.                                               *)

\* Handler k of the boot flow has not restored the slave PIC's mask.
Holds(k) == frames[Boot][k].pc \in {"hlt", "unmask_slave"}

Nested ==
  /\ running = Boot
  /\ \A t \in Thread : t # Boot => frames[t] = <<>>
  /\ mouse_masked <=> \E k \in DOMAIN frames[Boot] : Holds(k)
  /\ \A k \in DOMAIN frames[Boot] :
        frames[Boot][k].saved.mouse <=> \E j \in 1 .. k - 1 : Holds(j)

NestedWhenAlone == waiting = {} => Nested

\* Nobody goes away: who is alone now was alone before.
LEMMA StillAlone ==
  ASSUME FramesOK, Next, waiting' = {}
  PROVE  waiting = {} /\ running' = running
<1>1. CASE Press \/ TypeChar \/ TypeBackspace \/ DropKey \/ RunSleep
  BY <1>1 DEF Press, TypeChar, TypeBackspace, DropKey, RunSleep, threads
<1>2. CASE RunCommand
  BY <1>2 DEF RunCommand, threads, Tasks!Create
<1>3. CASE Tick
  BY <1>3 DEF Tick, Tasks!Switch
<1>4. CASE \E t \in Thread : Resume(t)
  BY <1>4 DEF Resume, UnmaskMaster, UnmaskSlave, ResetIndex, ResetBuffer, threads
<1>. QED
  BY <1>1, <1>2, <1>3, <1>4 DEF Next, Keyboard

\* A sleep that starts saves the mask, and sets it.
LEMMA SleepNested ==
  ASSUME FramesOK, Nested, RunSleep
  PROVE  Nested'
<1> DEFINE f == [pc |-> "hlt", saved |-> Saved]
<1>0. PICK n \in Nat : n = Len(frames[Boot])
  BY ThreadAssumption DEF FramesOK
<1>1. /\ running = Boot /\ running' = Boot
      /\ frames' = [frames EXCEPT ![running] = Append(@, f)]
      /\ mouse_masked' = TRUE
  BY DEF RunSleep, threads, Nested
<1>2. f \in Frame /\ f.saved.mouse = mouse_masked /\ f.pc = "hlt"
  BY DEF FramesOK, Frame, Saved
<1>3. /\ \A t \in Thread : t # Boot => frames'[t] = frames[t]
      /\ DOMAIN frames[Boot] = 1 .. n
      /\ n \in Nat
      /\ DOMAIN frames'[Boot] = 1 .. n + 1
      /\ \A k \in 1 .. n : frames'[Boot][k] = frames[Boot][k]
      /\ frames'[Boot][n + 1] = f
  BY <1>0, <1>1, <1>2, PushFrame
<1>4. /\ Holds(n + 1)'
      /\ \A k \in 1 .. n : Holds(k)' <=> Holds(k)
  BY <1>2, <1>3 DEF Holds
<1>5. \A k \in 1 .. n + 1 : frames'[Boot][k].saved.mouse <=> \E j \in 1 .. k - 1 : Holds(j)'
  <2>. SUFFICES ASSUME NEW k \in 1 .. n + 1
                PROVE  frames'[Boot][k].saved.mouse <=> \E j \in 1 .. k - 1 : Holds(j)'
    OBVIOUS
  <2>1. \A j \in 1 .. k - 1 : Holds(j)' <=> Holds(j)
    BY <1>3, <1>4
  <2>2. CASE k = n + 1
    <3>1. frames'[Boot][k].saved.mouse = mouse_masked /\ k - 1 = n
      BY <1>2, <1>3, <2>2
    <3>2. mouse_masked <=> \E j \in 1 .. n : Holds(j)
      BY <1>3 DEF Nested
    <3>. QED
      BY <2>1, <3>1, <3>2
  <2>3. CASE k \in 1 .. n
    BY <1>3, <2>1, <2>3 DEF Nested
  <2>. QED
    BY <1>3, <2>2, <2>3
<1>6. n + 1 \in DOMAIN frames'[Boot]
  BY <1>3
<1>. QED
  BY <1>1, <1>3, <1>4, <1>5, <1>6 DEF Nested

\* The innermost handler restores the mask it saved.
LEMMA AdvanceNested ==
  ASSUME FramesOK, Nested, frames[Boot] # <<>>, running' = Boot,
         NEW pc \in {"unmask_slave", "reset_index", "reset_buffer"}, GoTo(Boot, pc),
         \/ Top(Boot).pc = "hlt" /\ pc = "unmask_slave" /\ mouse_masked' = mouse_masked
         \/ Top(Boot).pc = "unmask_slave" /\ pc = "reset_index"
              /\ mouse_masked' = Top(Boot).saved.mouse
         \/ Top(Boot).pc = "reset_index" /\ pc = "reset_buffer" /\ mouse_masked' = mouse_masked
  PROVE  Nested'
<1>0. PICK n \in Nat : n = Len(frames[Boot])
  BY ThreadAssumption DEF FramesOK
<1>1. /\ \A u \in Thread : u # Boot => frames'[u] = frames[u]
      /\ n \in DOMAIN frames[Boot]
      /\ DOMAIN frames[Boot] = 1 .. n /\ n \in Nat
      /\ DOMAIN frames'[Boot] = DOMAIN frames[Boot]
      /\ \A k \in DOMAIN frames[Boot] :
            /\ frames'[Boot][k].saved = frames[Boot][k].saved
            /\ frames'[Boot][k].pc = IF k = n THEN pc ELSE frames[Boot][k].pc
  BY <1>0, ThreadAssumption, AdvanceFrame
<1>2. Top(Boot) = frames[Boot][n]
  BY <1>0 DEF Top, Last
<1>3. \A k \in 1 .. n - 1 : Holds(k)' <=> Holds(k)
  BY <1>1 DEF Holds
<1>4. \A k \in DOMAIN frames'[Boot] :
         frames'[Boot][k].saved.mouse <=> \E j \in 1 .. k - 1 : Holds(j)'
  <2>. SUFFICES ASSUME NEW k \in 1 .. n
                PROVE  frames'[Boot][k].saved.mouse <=> \E j \in 1 .. k - 1 : Holds(j)'
    BY <1>1
  <2>1. \A j \in 1 .. k - 1 : Holds(j)' <=> Holds(j)
    BY <1>1, <1>3
  <2>. QED
    BY <1>1, <2>1 DEF Nested
<1>5. mouse_masked' <=> \E k \in 1 .. n : Holds(k)'
  <2>1. CASE Top(Boot).pc = "hlt" /\ pc = "unmask_slave" /\ mouse_masked' = mouse_masked
    <3>1. Holds(n)' /\ Holds(n)
      BY <1>1, <1>2, <2>1 DEF Holds
    <3>. QED
      BY <1>1, <2>1, <3>1 DEF Nested
  <2>2. CASE Top(Boot).pc = "unmask_slave" /\ pc = "reset_index"
              /\ mouse_masked' = Top(Boot).saved.mouse
    <3>1. ~Holds(n)'
      BY <1>1, <2>2 DEF Holds
    <3>2. mouse_masked' <=> \E j \in 1 .. n - 1 : Holds(j)
      BY <1>1, <1>2, <2>2 DEF Nested
    <3>3. \A k \in 1 .. n : k = n \/ k \in 1 .. n - 1
      BY <1>1
    <3>. QED
      BY <1>1, <1>3, <3>1, <3>2, <3>3
  <2>3. CASE Top(Boot).pc = "reset_index" /\ pc = "reset_buffer" /\ mouse_masked' = mouse_masked
    <3>1. ~Holds(n)' /\ ~Holds(n)
      BY <1>1, <1>2, <2>3 DEF Holds
    <3>2. \A k \in 1 .. n : Holds(k)' <=> Holds(k)
      BY <1>1, <1>3, <3>1
    <3>. QED
      BY <1>1, <2>3, <3>2 DEF Nested
  <2>. QED
    BY <2>1, <2>2, <2>3
<1>. QED
  BY <1>1, <1>4, <1>5 DEF Nested

LEMMA PopNested ==
  ASSUME FramesOK, Nested, ResetBuffer(Boot)
  PROVE  Nested'
<1>0. PICK n \in Nat : n = Len(frames[Boot])
  BY ThreadAssumption DEF FramesOK
<1>1. /\ frames[Boot] # <<>> /\ frames[Boot][n].pc = "reset_buffer"
      /\ frames' = [frames EXCEPT ![Boot] = Front(@)]
      /\ running' = running /\ mouse_masked' = mouse_masked
  BY <1>0 DEF ResetBuffer, At, Top, Last, threads, masks
<1>2. /\ \A u \in Thread : u # Boot => frames'[u] = frames[u]
      /\ DOMAIN frames[Boot] = 1 .. n /\ n \in Nat \ {0}
      /\ DOMAIN frames'[Boot] = 1 .. n - 1
      /\ \A k \in 1 .. n - 1 : frames'[Boot][k] = frames[Boot][k]
  BY <1>0, <1>1, ThreadAssumption, PopFrame
<1>3. ~Holds(n)
  BY <1>1 DEF Holds
<1>4. \A k \in 1 .. n - 1 : Holds(k)' <=> Holds(k)
  BY <1>2 DEF Holds
<1>5. mouse_masked' <=> \E k \in 1 .. n - 1 : Holds(k)'
  <2>1. \A k \in 1 .. n : k = n \/ k \in 1 .. n - 1
    BY <1>2
  <2>2. \A k \in 1 .. n - 1 : k \in 1 .. n
    BY <1>2
  <2>. QED
    BY <1>1, <1>2, <1>3, <1>4, <2>1, <2>2 DEF Nested
<1>6. \A k \in 1 .. n - 1 : frames'[Boot][k].saved.mouse <=> \E j \in 1 .. k - 1 : Holds(j)'
  <2>. SUFFICES ASSUME NEW k \in 1 .. n - 1
                PROVE  frames'[Boot][k].saved.mouse <=> \E j \in 1 .. k - 1 : Holds(j)'
    OBVIOUS
  <2>1. k \in 1 .. n /\ \A j \in 1 .. k - 1 : Holds(j)' <=> Holds(j)
    BY <1>2, <1>4
  <2>. QED
    BY <1>2, <2>1 DEF Nested
<1>. QED
  BY <1>1, <1>2, <1>5, <1>6 DEF Nested

LEMMA InitNested == Init => NestedWhenAlone
BY ThreadAssumption DEF Init, Tasks!Init, NestedWhenAlone, Nested

LEMMA StepNested == IInv /\ NestedWhenAlone /\ [Next]_vars => NestedWhenAlone'
<1>. SUFFICES ASSUME FramesOK, NestedWhenAlone, [Next]_vars, waiting' = {} PROVE Nested'
  BY DEF IInv, NestedWhenAlone
<1>1. CASE UNCHANGED vars
  BY <1>1 DEF vars, threads, masks, NestedWhenAlone, Nested, Holds
<1>2. CASE Next
  <2>1. Nested /\ running' = Boot /\ running = Boot
    BY <1>2, StillAlone DEF NestedWhenAlone, Nested
  <2>2. CASE Press \/ TypeChar \/ TypeBackspace \/ DropKey \/ RunCommand \/ Tick
    <3>1. UNCHANGED <<frames, mouse_masked>>
      BY <2>2 DEF Press, TypeChar, TypeBackspace, DropKey, RunCommand, Tick, masks
    <3>. QED
      BY <2>1, <3>1 DEF Nested, Holds
  <2>3. CASE RunSleep
    BY <2>1, <2>3, SleepNested
  <2>4. CASE \E t \in Thread : Resume(t)
    <3>1. Resume(Boot)
      BY <2>1, <2>4 DEF Resume, UnmaskMaster, UnmaskSlave, ResetIndex, ResetBuffer, At
    <3>2. CASE UnmaskMaster(Boot)
      BY <2>1, <3>2, AdvanceNested DEF UnmaskMaster, At
    <3>3. CASE UnmaskSlave(Boot)
      BY <2>1, <3>3, AdvanceNested DEF UnmaskSlave, At
    <3>4. CASE ResetIndex(Boot)
      BY <2>1, <3>4, AdvanceNested DEF ResetIndex, At, masks
    <3>5. CASE ResetBuffer(Boot)
      BY <2>1, <3>5, PopNested
    <3>. QED
      BY <3>1, <3>2, <3>3, <3>4, <3>5 DEF Resume
  <2>. QED
    BY <1>2, <2>2, <2>3, <2>4 DEF Next, Keyboard
<1>. QED
  BY <1>1, <1>2

\* As long as the boot flow is alone, no nesting of sleeps leaves the mouse
\* masked when the last handler ends (timer.cpp lines 22 and 35).
THEOREM MouseComesBack == Spec => []MouseBackWhenAlone
<1>1. NestedWhenAlone => MouseBackWhenAlone
  BY ThreadAssumption DEF NestedWhenAlone, Nested, MouseBackWhenAlone, Idle
<1>. QED
  BY <1>1, InitIInv, StepIInv, InitNested, StepNested, PTL DEF Spec
-----------------------------------------------------------------------------
(* The line.  Between two handlers the buffer spells what the screen       *)
(* shows; while one is unfinished a line without keys is empty, and an     *)
(* index that is not back at 0 has a handler that will still reset it.     *)

EditorOK == /\ pending \in Seq(Key) /\ presses \in 0 .. MaxKeys
            /\ shell_buffer \in [0 .. MAX_COMMAND_LEN - 1 -> Char \cup {NUL}]
            /\ buffer_index \in 0 .. MAX_COMMAND_LEN - 1
            /\ line \in Seq(Char) /\ quiet \in BOOLEAN
            /\ last \in [shown : Seq(Char), ran : Seq(Char), quiet : BOOLEAN]

Spelled == /\ Len(line) = buffer_index
           /\ \A i \in 1 .. Len(line) : shell_buffer[i - 1] = line[i]

\* A handler that has not reset the index yet.
Unreset == \E t \in Thread : \E k \in DOMAIN frames[t] : frames[t][k].pc # "reset_buffer"

LineSpelled ==
  quiet => IF Idle THEN Spelled ELSE line = <<>> /\ (buffer_index = 0 \/ Unreset)

LastAsShown == last.quiet => last.ran = last.shown

LInv == EditorOK /\ LineSpelled /\ LastAsShown

\* The string a buffer with a NUL in it holds.
LEMMA CStringIs ==
  ASSUME NEW n \in Nat, NEW buffer \in [0 .. MAX_COMMAND_LEN - 1 -> Char \cup {NUL}],
         n \in 0 .. MAX_COMMAND_LEN - 1, buffer[n] = NUL, \A i \in 0 .. n - 1 : buffer[i] # NUL
  PROVE  /\ CString(buffer) = [i \in 1 .. n |-> buffer[i - 1]]
         /\ CString(buffer) \in Seq(Char)
<1> DEFINE Stop(k) == k \in DOMAIN buffer /\ buffer[k] = NUL /\ \A i \in 0 .. k - 1 : buffer[i] # NUL
           stop == CHOOSE k \in DOMAIN buffer :
                     buffer[k] = NUL /\ \A i \in 0 .. k - 1 : buffer[i] # NUL
<1>1. DOMAIN buffer = 0 .. MAX_COMMAND_LEN - 1
  OBVIOUS
<1>2. Stop(n)
  BY <1>1
<1>3. Stop(stop)
  BY <1>2
<1>4. stop = n
  <2>1. stop \in Nat
    BY <1>1, <1>3, BufferAssumption
  <2>. QED
    BY <1>2, <1>3, <2>1
<1>5. CString(buffer) = [i \in 1 .. n |-> buffer[i - 1]]
  BY <1>4 DEF CString
<1>6. \A i \in 1 .. n : buffer[i - 1] \in Char
  BY BufferAssumption
<1>7. [i \in 1 .. n |-> buffer[i - 1]] \in Seq(Char)
  BY <1>6
<1>. QED
  BY <1>5, <1>7

\* The buffer, with the NUL Enter puts after the last character.
LEMMA TerminatedIs ==
  ASSUME EditorOK
  PROVE  /\ Terminated \in [0 .. MAX_COMMAND_LEN - 1 -> Char \cup {NUL}]
         /\ Terminated[buffer_index] = NUL
         /\ \A i \in 0 .. MAX_COMMAND_LEN - 1 :
               i # buffer_index => Terminated[i] = shell_buffer[i]
BY DEF EditorOK, Terminated

\* What is run is a string of characters.
LEMMA CommandType == ASSUME EditorOK PROVE Command \in Seq(Char)
<1> DEFINE stops == {n \in 0 .. MAX_COMMAND_LEN - 1 : Terminated[n] = NUL}
<1>1. buffer_index \in stops /\ stops \subseteq Nat
  BY TerminatedIs, BufferAssumption DEF EditorOK
<1>2. PICK n \in stops : \A m \in stops : ~(<<m, n>> \in OpToRel(<, Nat))
  BY <1>1, NatLessThanWellFounded, WFMin
<1>3. n \in Nat /\ n \in 0 .. MAX_COMMAND_LEN - 1 /\ Terminated[n] = NUL
  BY <1>1, <1>2
<1>4. \A i \in 0 .. n - 1 : Terminated[i] # NUL
  <2>. SUFFICES ASSUME NEW i \in 0 .. n - 1, Terminated[i] = NUL PROVE FALSE
    OBVIOUS
  <2>1. i \in stops /\ i \in Nat /\ i < n
    BY <1>3, BufferAssumption
  <2>2. <<i, n>> \in OpToRel(<, Nat)
    BY <1>3, <2>1 DEF OpToRel
  <2>. QED
    BY <1>2, <2>1, <2>2
<1>. QED
  BY <1>3, <1>4, CStringIs, TerminatedIs DEF Command

\* A buffer that spells the line is run as the line.
LEMMA SpelledRuns == ASSUME EditorOK, Spelled PROVE Command = line
<1>1. buffer_index \in Nat /\ line \in Seq(Char) /\ Len(line) = buffer_index
  BY BufferAssumption DEF EditorOK, Spelled
<1>2. \A i \in 0 .. buffer_index - 1 : Terminated[i] = line[i + 1] /\ Terminated[i] # NUL
  <2>. SUFFICES ASSUME NEW i \in 0 .. buffer_index - 1
                PROVE  Terminated[i] = line[i + 1] /\ Terminated[i] # NUL
    OBVIOUS
  <2>1. i + 1 \in 1 .. Len(line) /\ (i + 1) - 1 = i
    BY <1>1
  <2>2. i \in 0 .. MAX_COMMAND_LEN - 1 /\ i # buffer_index
    BY BufferAssumption DEF EditorOK
  <2>3. shell_buffer[i] = line[i + 1]
    BY <2>1 DEF Spelled
  <2>4. line[i + 1] \in Char
    BY <1>1, <2>1
  <2>. QED
    BY <2>2, <2>3, <2>4, TerminatedIs, CharAssumption DEF Key
<1>3. Command = [i \in 1 .. buffer_index |-> Terminated[i - 1]]
  <2>1. PICK b \in [0 .. MAX_COMMAND_LEN - 1 -> Char \cup {NUL}] : b = Terminated
    BY TerminatedIs
  <2>2. PICK n \in Nat : n = buffer_index /\ n \in 0 .. MAX_COMMAND_LEN - 1
    BY <1>1 DEF EditorOK
  <2>3. b[n] = NUL
    BY <2>1, <2>2, TerminatedIs
  <2>4. \A i \in 0 .. n - 1 : b[i] # NUL
    BY <1>2, <2>1, <2>2
  <2>5. CString(b) = [i \in 1 .. n |-> b[i - 1]]
    BY <2>2, <2>3, <2>4, CStringIs
  <2>. QED
    BY <2>1, <2>2, <2>5 DEF Command
<1>4. \A i \in 1 .. buffer_index : Terminated[i - 1] = line[i]
  <2>. SUFFICES ASSUME NEW i \in 1 .. buffer_index PROVE Terminated[i - 1] = line[i]
    OBVIOUS
  <2>1. i - 1 \in 0 .. buffer_index - 1 /\ (i - 1) + 1 = i
    BY <1>1
  <2>. QED
    BY <1>2, <2>1
<1>5. line = [i \in 1 .. buffer_index |-> line[i]]
  BY <1>1
<1>. QED
  BY <1>3, <1>4, <1>5
-----------------------------------------------------------------------------
(* Each action.                                                            *)

\* A key that arrives while a handler is unfinished leaves no quiet line.
LEMMA TypeCharKeeps == ASSUME LInv, IInv, TypeChar PROVE LInv'
<1>1. PICK c \in Char :
        /\ pending # <<>> /\ pending' = Tail(pending) /\ presses' = presses
        /\ Room
        /\ shell_buffer' = [i \in DOMAIN shell_buffer |->
                              IF i = buffer_index THEN c
                              ELSE IF i = buffer_index + 1 THEN NUL ELSE shell_buffer[i]]
        /\ buffer_index' = buffer_index + 1
        /\ line' = Append(line, c)
        /\ quiet' = (quiet /\ Idle)
        /\ frames' = frames /\ last' = last
  BY DEF TypeChar, Irq1
<1>2. pending' \in Seq(Key)
  BY <1>1 DEF LInv, EditorOK
<1>3. /\ buffer_index' \in 0 .. MAX_COMMAND_LEN - 1
      /\ shell_buffer' \in [0 .. MAX_COMMAND_LEN - 1 -> Char \cup {NUL}]
      /\ \A i \in 0 .. MAX_COMMAND_LEN - 1 : i < buffer_index => shell_buffer'[i] = shell_buffer[i]
      /\ shell_buffer'[buffer_index] = c
  BY <1>1, BufferAssumption DEF LInv, EditorOK, Room
<1>4. /\ line' \in Seq(Char) /\ Len(line') = Len(line) + 1 /\ line'[Len(line) + 1] = c
      /\ \A i \in 1 .. Len(line) : line'[i] = line[i]
  BY <1>1 DEF LInv, EditorOK
<1>5. quiet' \in BOOLEAN
  BY <1>1
<1>6. EditorOK'
  BY <1>1, <1>2, <1>3, <1>4, <1>5 DEF LInv, EditorOK
<1>7. LastAsShown'
  BY <1>1 DEF LInv, LastAsShown
<1>8. ASSUME quiet' PROVE Idle' /\ Spelled'
  <2>1. quiet /\ Idle /\ Spelled /\ Idle'
    BY <1>1, <1>8 DEF LInv, LineSpelled, Idle
  <2>2. Len(line) \in Nat /\ Len(line) = buffer_index
    BY <2>1 DEF LInv, EditorOK, Spelled
  <2>3. \A i \in 1 .. Len(line') : shell_buffer'[i - 1] = line'[i]
    <3>. SUFFICES ASSUME NEW i \in 1 .. Len(line') PROVE shell_buffer'[i - 1] = line'[i]
      OBVIOUS
    <3>1. CASE i = Len(line) + 1
      BY <1>3, <1>4, <2>2, <3>1
    <3>2. CASE i \in 1 .. Len(line)
      <4>1. i - 1 \in 0 .. MAX_COMMAND_LEN - 1 /\ i - 1 < buffer_index
        BY <2>2, <3>2, BufferAssumption DEF LInv, EditorOK
      <4>. QED
        BY <1>3, <1>4, <2>1, <3>2, <4>1 DEF Spelled
    <3>. QED
      BY <1>4, <2>2, <3>1, <3>2
  <2>. QED
    BY <1>1, <1>4, <2>1, <2>2, <2>3 DEF Spelled
<1>. QED
  BY <1>6, <1>7, <1>8 DEF LInv, LineSpelled

LEMMA TypeBackspaceKeeps == ASSUME LInv, IInv, TypeBackspace PROVE LInv'
<1>1. /\ pending # <<>> /\ pending' = Tail(pending) /\ presses' = presses
      /\ buffer_index > 0
      /\ buffer_index' = buffer_index - 1
      /\ shell_buffer' = [shell_buffer EXCEPT ![buffer_index - 1] = NUL]
      /\ line' = IF line = <<>> THEN <<>> ELSE Front(line)
      /\ quiet' = (quiet /\ Idle)
      /\ frames' = frames /\ last' = last
  BY DEF TypeBackspace, Irq1
<1>2. pending' \in Seq(Key)
  BY <1>1 DEF LInv, EditorOK
<1>3. /\ buffer_index' \in 0 .. MAX_COMMAND_LEN - 1
      /\ shell_buffer' \in [0 .. MAX_COMMAND_LEN - 1 -> Char \cup {NUL}]
      /\ \A i \in 0 .. MAX_COMMAND_LEN - 1 : i < buffer_index - 1 => shell_buffer'[i] = shell_buffer[i]
  BY <1>1, BufferAssumption DEF LInv, EditorOK
<1>4. line' \in Seq(Char)
  BY <1>1 DEF LInv, EditorOK, Front
<1>5. quiet' \in BOOLEAN
  BY <1>1
<1>6. EditorOK'
  BY <1>1, <1>2, <1>3, <1>4, <1>5 DEF LInv, EditorOK
<1>7. LastAsShown'
  BY <1>1 DEF LInv, LastAsShown
<1>8. ASSUME quiet' PROVE Idle' /\ Spelled'
  <2>1. quiet /\ Idle /\ Spelled /\ Idle'
    BY <1>1, <1>8 DEF LInv, LineSpelled, Idle
  <2>2. Len(line) \in Nat \ {0} /\ Len(line) = buffer_index
    BY <1>1, <2>1 DEF LInv, EditorOK, Spelled
  <2>3. line' = SubSeq(line, 1, Len(line) - 1)
    BY <1>1, <2>2 DEF Front
  <2>4. Len(line') = Len(line) - 1 /\ \A i \in 1 .. Len(line') : line'[i] = line[i]
    BY <2>2, <2>3 DEF LInv, EditorOK
  <2>5. \A i \in 1 .. Len(line') : shell_buffer'[i - 1] = line'[i]
    <3>. SUFFICES ASSUME NEW i \in 1 .. Len(line') PROVE shell_buffer'[i - 1] = line'[i]
      OBVIOUS
    <3>1. i - 1 \in 0 .. MAX_COMMAND_LEN - 1 /\ i - 1 < buffer_index - 1 /\ i \in 1 .. Len(line)
      BY <2>2, <2>4, BufferAssumption DEF LInv, EditorOK
    <3>. QED
      BY <1>3, <2>1, <2>4, <3>1 DEF Spelled
  <2>. QED
    BY <1>1, <2>1, <2>2, <2>4, <2>5 DEF Spelled
<1>. QED
  BY <1>6, <1>7, <1>8 DEF LInv, LineSpelled

\* What is run is what is shown if no key came out of turn.
LEMMA RanKeeps == ASSUME EditorOK, LineSpelled, LastAsShown, Ran
                  PROVE  /\ line' = <<>> /\ quiet' = TRUE /\ LastAsShown'
                         /\ last' \in [shown : Seq(Char), ran : Seq(Char), quiet : BOOLEAN]
<1>1. /\ last' = [shown |-> line, ran |-> Command, quiet |-> quiet /\ Idle]
      /\ line' = <<>> /\ quiet' = TRUE
  BY DEF Ran
<1>2. line \in Seq(Char) /\ Command \in Seq(Char) /\ (quiet /\ Idle) \in BOOLEAN
  BY CommandType DEF EditorOK
<1>3. last' \in [shown : Seq(Char), ran : Seq(Char), quiet : BOOLEAN]
  BY <1>1, <1>2
<1>4. last'.shown = line /\ last'.ran = Command /\ last'.quiet = (quiet /\ Idle)
  BY <1>1
<1>5. quiet /\ Idle => Command = line
  BY SpelledRuns DEF LineSpelled
<1>. QED
  BY <1>1, <1>3, <1>4, <1>5 DEF LastAsShown

LEMMA EnterKeeps == ASSUME LInv, IInv, RunCommand \/ RunSleep PROVE LInv'
<1>1. /\ pending # <<>> /\ pending' = Tail(pending) /\ presses' = presses /\ Ran
  BY DEF RunCommand, RunSleep, Irq1
<1>2. pending' \in Seq(Key)
  BY <1>1 DEF LInv, EditorOK
<1>3. /\ line' = <<>> /\ quiet' = TRUE /\ LastAsShown' /\ line' \in Seq(Char)
      /\ last' \in [shown : Seq(Char), ran : Seq(Char), quiet : BOOLEAN]
  BY <1>1, RanKeeps DEF LInv
<1>4. CASE RunCommand
  <2>1. buffer_index' = 0 /\ shell_buffer' = [Terminated EXCEPT ![0] = NUL]
    BY <1>4 DEF RunCommand
  <2>2. shell_buffer' \in [0 .. MAX_COMMAND_LEN - 1 -> Char \cup {NUL}]
    BY <2>1, TerminatedIs DEF LInv
  <2>3. EditorOK'
    BY <1>1, <1>2, <1>3, <2>1, <2>2, BufferAssumption DEF EditorOK, LInv
  <2>4. Spelled' /\ LineSpelled'
    BY <1>3, <2>1 DEF Spelled, LineSpelled
  <2>. QED
    BY <1>3, <2>3, <2>4 DEF LInv
<1>5. CASE RunSleep
  <2>1. /\ buffer_index' = buffer_index /\ shell_buffer' = Terminated
        /\ frames' = [frames EXCEPT ![running] = Append(@, [pc |-> "hlt", saved |-> Saved])]
    BY <1>5 DEF RunSleep
  <2>2. EditorOK'
    BY <1>1, <1>2, <1>3, <2>1, TerminatedIs DEF EditorOK, LInv
  <2>3. [pc |-> "hlt", saved |-> Saved] \in Frame
    BY DEF IInv, FramesOK, Frame, Saved
  <2>4. /\ running \in Thread /\ Len(frames[running]) \in Nat
        /\ DOMAIN frames'[running] = 1 .. Len(frames[running]) + 1
        /\ frames'[running][Len(frames[running]) + 1] = [pc |-> "hlt", saved |-> Saved]
    BY <2>1, <2>3, PushFrame DEF IInv, FramesOK
  <2>5. Unreset'
    <3>1. Len(frames[running]) + 1 \in DOMAIN frames'[running]
      BY <2>4
    <3>. QED
      BY <2>4, <3>1 DEF Unreset
  <2>6. ~Idle'
    BY <2>4 DEF Idle
  <2>. QED
    BY <1>3, <2>2, <2>5, <2>6 DEF LInv, LineSpelled
<1>. QED
  BY <1>4, <1>5

\* A step that no key and no handler takes part in, or a key dropped.
LEMMA StillLine ==
  ASSUME LInv, UNCHANGED <<editor, frames, history>>,
         pending' \in Seq(Key), presses' \in 0 .. MaxKeys
  PROVE  LInv'
BY DEF LInv, EditorOK, LineSpelled, LastAsShown, Spelled, Idle, Unreset, editor, history

\* A handler goes on: the index goes to 0 before the handler is done with it.
LEMMA ResumeLine ==
  ASSUME LInv, IInv, NEW t \in Thread, Resume(t)
  PROVE  LInv'
<1>1. frames[t] # <<>> /\ UNCHANGED <<pending, presses, history>>
  BY DEF Resume, UnmaskMaster, UnmaskSlave, ResetIndex, ResetBuffer, At
<1>2. ~Idle /\ LastAsShown'
  BY <1>1 DEF Idle, LInv, LastAsShown, history
<1>3. quiet' = quiet /\ line' = line /\ last' = last
  BY <1>1 DEF history
<1>4. CASE UnmaskMaster(t) \/ UnmaskSlave(t) \/ ResetIndex(t)
  <2>1. PICK pc \in {"unmask_slave", "reset_index", "reset_buffer"} :
          /\ GoTo(t, pc)
          /\ shell_buffer' = shell_buffer
          /\ \/ pc # "reset_buffer" /\ buffer_index' = buffer_index
             \/ buffer_index' = 0
    BY <1>4 DEF UnmaskMaster, UnmaskSlave, ResetIndex, editor
  <2>2. /\ frames' \in [Thread -> Seq(Frame)]
        /\ \A u \in Thread : u # t => frames'[u] = frames[u]
        /\ Len(frames[t]) \in DOMAIN frames[t]
        /\ DOMAIN frames'[t] = DOMAIN frames[t]
        /\ \A k \in DOMAIN frames[t] :
              frames'[t][k].pc = IF k = Len(frames[t]) THEN pc ELSE frames[t][k].pc
    BY <1>1, <2>1, AdvanceFrame DEF IInv
  <2>3. ~Idle'
    BY <2>2 DEF Idle
  <2>4. buffer_index' = 0 \/ (buffer_index' = buffer_index /\ Unreset')
    BY <2>1, <2>2 DEF Unreset
  <2>5. EditorOK'
    BY <1>1, <1>3, <2>1, BufferAssumption DEF LInv, EditorOK
  <2>. QED
    BY <1>2, <1>3, <2>3, <2>4, <2>5 DEF LInv, LineSpelled
<1>5. CASE ResetBuffer(t)
  <2>1. /\ frames[t][Len(frames[t])].pc = "reset_buffer"
        /\ frames' = [frames EXCEPT ![t] = Front(@)]
        /\ buffer_index' = buffer_index
        /\ shell_buffer' = [shell_buffer EXCEPT ![0] = NUL]
    BY <1>5 DEF ResetBuffer, At, Top, Last
  <2>2. PICK n \in Nat \ {0} :
        /\ n = Len(frames[t])
        /\ \A u \in Thread : u # t => frames'[u] = frames[u]
        /\ DOMAIN frames[t] = 1 .. n
        /\ DOMAIN frames'[t] = 1 .. n - 1
        /\ \A k \in 1 .. n - 1 : frames'[t][k] = frames[t][k]
    BY <1>1, <2>1, PopFrame DEF IInv
  <2>3. EditorOK'
    BY <1>1, <1>3, <2>1, BufferAssumption DEF LInv, EditorOK
  <2>4. Unreset => Unreset'
    <3>. SUFFICES ASSUME NEW u \in Thread, NEW k \in DOMAIN frames[u],
                         frames[u][k].pc # "reset_buffer"
                  PROVE  k \in DOMAIN frames'[u] /\ frames'[u][k] = frames[u][k]
      BY DEF Unreset
    <3>. QED
      BY <2>1, <2>2
  <2>5. Unreset' => ~Idle'
    BY DEF Unreset, Idle
  <2>6. ASSUME quiet' PROVE line' = <<>> /\ (buffer_index' = 0 \/ Unreset')
    BY <1>2, <1>3, <2>1, <2>4, <2>6 DEF LInv, LineSpelled
  <2>7. ASSUME quiet', Idle' PROVE Spelled'
    BY <2>5, <2>6, <2>7 DEF Spelled
  <2>. QED
    BY <1>2, <2>3, <2>6, <2>7 DEF LInv, LineSpelled
<1>. QED
  BY <1>4, <1>5 DEF Resume

LEMMA InitLine == Init => LInv
<1>. SUFFICES ASSUME Init PROVE LInv
  OBVIOUS
<1>1. EditorOK
  BY BufferAssumption, KeysAssumption DEF Init, EditorOK
<1>2. LineSpelled /\ LastAsShown
  BY DEF Init, LineSpelled, LastAsShown, Spelled, Idle
<1>. QED
  BY <1>1, <1>2 DEF LInv

LEMMA StepLine == IInv /\ LInv /\ [Next]_vars => LInv'
<1>. SUFFICES ASSUME IInv, LInv, [Next]_vars PROVE LInv'
  OBVIOUS
<1>0. pending \in Seq(Key) /\ presses \in 0 .. MaxKeys
  BY DEF LInv, EditorOK
<1>1. CASE UNCHANGED vars
  BY <1>0, <1>1, StillLine DEF vars
<1>2. CASE Press
  <2>1. pending' \in Seq(Key) /\ presses' \in 0 .. MaxKeys
    BY <1>0, <1>2, KeysAssumption DEF Press
  <2>. QED
    BY <1>2, <2>1, StillLine DEF Press
<1>3. CASE TypeChar
  BY <1>3, TypeCharKeeps
<1>4. CASE TypeBackspace
  BY <1>4, TypeBackspaceKeeps
<1>5. CASE DropKey
  <2>1. pending' \in Seq(Key) /\ presses' \in 0 .. MaxKeys
    BY <1>0, <1>5 DEF DropKey, Irq1
  <2>. QED
    BY <1>5, <2>1, StillLine DEF DropKey
<1>6. CASE RunCommand \/ RunSleep
  BY <1>6, EnterKeeps
<1>7. CASE Tick
  BY <1>0, <1>7, StillLine DEF Tick
<1>8. CASE \E t \in Thread : Resume(t)
  BY <1>8, ResumeLine
<1>. QED
  BY <1>1, <1>2, <1>3, <1>4, <1>5, <1>6, <1>7, <1>8 DEF Next, Keyboard

\* A line whose keys all came while no handler was unfinished is run as it
\* was shown, whatever was typed during the sleeps before it (idt.cpp lines
\* 232-254), for a buffer of any length and any sleep commands.
THEOREM QuietLines == Spec => []QuietLineRuns
<1>1. IInv /\ LInv => QuietLineRuns
  BY DEF IInv, FramesOK, LInv, EditorOK, LastAsShown, QuietLineRuns, TypeOK
<1>. QED
  BY <1>1, InitIInv, StepIInv, InitLine, StepLine, PTL DEF Spec
=============================================================================
