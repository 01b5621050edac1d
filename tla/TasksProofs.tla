---------------------------- MODULE TasksProofs -----------------------------
(***************************************************************************)
(* What is proved of the scheduler, for any number of slots and threads:   *)
(* its types; that no stack is ever resumed twice; when no entry function  *)
(* returns, that the slots implement Multitasking; that nobody starves;    *)
(* and that threads have stacks of their own while memory nearly lasts.    *)
(***************************************************************************)
EXTENDS Tasks, FiniteSetTheorems, TLAPS

\* What schedule() can resume was created before.
WaitingBorn == Waiting \subseteq Born

IInv == TypeOK /\ NoThreadTwice /\ WaitingBorn

\* Going all the way round ends at the current slot.
LEMMA FullCircle == ASSUME NEW c \in Slot PROVE (c + MAX_TASKS) % MAX_TASKS = c
BY TasksAssumption DEF Slot

\* schedule() leaves the current slot only for a ready one.
LEMMA ChosenReady ==
  ASSUME TypeOK, NEW n \in Slot, Chosen(n), n # current
  PROVE  n \in Ready \ {current}
<1>1. PICK d \in 1 .. MAX_TASKS : StopsAfter(d) /\ n = Ahead(d)
  BY DEF Chosen
<1>2. d # MAX_TASKS
  BY <1>1, FullCircle DEF Ahead, TypeOK
<1>. QED
  BY <1>1, <1>2 DEF StopsAfter, Ready

LEMMA WaitingMember ==
  ASSUME NEW i \in Slot, state[i] = 1, i # current
  PROVE  rsp[i] \in Waiting
BY DEF Waiting, Ready

-----------------------------------------------------------------------------
(* The two changes of the table.                                           *)

\* A switch keeps every other waiting thread where it is, and puts the old
\* thread in the slot it ran from.
LEMMA SwitchStep ==
  ASSUME IInv, NEW n \in Ready \ {current}, SwitchTo(n), state' = state
  PROVE  /\ NoThreadTwice'
         /\ rsp[n] \in Waiting
         /\ Waiting' = (Waiting \ {rsp[n]}) \cup (IF state[current] = 1 THEN {running} ELSE {})
<1>. USE DEF IInv, TypeOK, Ready
<1>1. /\ rsp' = [rsp EXCEPT ![current] = running, ![n] = Stale]
      /\ running' = rsp[n]
      /\ current' = n
      /\ n # current /\ n \in Slot /\ current \in Slot
  BY DEF SwitchTo
<1>2. \A i \in Slot : rsp'[i] = IF i = n THEN Stale ELSE IF i = current THEN running ELSE rsp[i]
  BY <1>1
<1>3. rsp[n] \in Waiting
  BY <1>1, WaitingMember
<1>4. \A i \in Ready \ {current} : rsp[i] \in Waiting
  BY WaitingMember
<1>5. Ready' = Ready
  OBVIOUS
<1>6. Stale \notin Waiting'
  <2>. SUFFICES ASSUME NEW i \in Ready \ {n} PROVE rsp'[i] # Stale
    BY <1>1, <1>5 DEF Waiting
  <2>1. CASE i = current
    BY <1>2, <2>1, NullAssumption DEF Stale
  <2>2. CASE i # current
    BY <1>2, <1>4, <2>2 DEF NoThreadTwice
  <2>. QED
    BY <2>1, <2>2
<1>7. \A i, j \in Ready' \ {current'} : rsp'[i] = rsp'[j] => i = j
  <2>. SUFFICES ASSUME NEW i \in Ready \ {n}, NEW j \in Ready \ {n}, rsp'[i] = rsp'[j]
                PROVE  i = j
    BY <1>1, <1>5
  <2>. QED
    BY <1>2, <1>4 DEF NoThreadTwice
<1>8. running' \notin Waiting'
  <2>. SUFFICES ASSUME NEW i \in Ready \ {n}, rsp'[i] = rsp[n] PROVE FALSE
    BY <1>1, <1>5 DEF Waiting
  <2>. QED
    BY <1>1, <1>2, <1>3, <1>4 DEF NoThreadTwice
<1>9. Waiting' \subseteq (Waiting \ {rsp[n]}) \cup (IF state[current] = 1 THEN {running} ELSE {})
  <2>. SUFFICES ASSUME NEW i \in Ready \ {n}
                PROVE  rsp'[i] \in (Waiting \ {rsp[n]}) \cup (IF state[current] = 1 THEN {running} ELSE {})
    BY <1>1, <1>5 DEF Waiting
  <2>1. CASE i = current
    BY <1>2, <2>1
  <2>2. CASE i # current
    BY <1>1, <1>2, <1>4, <2>2 DEF NoThreadTwice
  <2>. QED
    BY <2>1, <2>2
<1>10. Waiting \ {rsp[n]} \subseteq Waiting'
  <2>. SUFFICES ASSUME NEW i \in Ready \ {current}, rsp[i] # rsp[n]
                PROVE  rsp[i] \in Waiting'
    BY DEF Waiting
  <2>1. i \in Ready' \ {current'} /\ rsp'[i] = rsp[i]
    BY <1>1, <1>2, <1>5
  <2>. QED
    BY <2>1 DEF Waiting
<1>11. state[current] = 1 => running \in Waiting'
  <2>. SUFFICES ASSUME state[current] = 1 PROVE running \in Waiting'
    OBVIOUS
  <2>1. current \in Ready' \ {current'} /\ rsp'[current] = running
    BY <1>1, <1>2, <1>5
  <2>. QED
    BY <2>1 DEF Waiting
<1>. QED
  BY <1>3, <1>6, <1>7, <1>8, <1>9, <1>10, <1>11 DEF NoThreadTwice

\* A new thread in a free slot waits, unless that slot is the current one.
LEMMA CreateStep ==
  ASSUME IInv, NEW t \in Thread \ Born, NEW i \in Slot, state[i] = 0,
         rsp' = [rsp EXCEPT ![i] = t], state' = [state EXCEPT ![i] = 1],
         UNCHANGED <<current, running>>
  PROVE  /\ NoThreadTwice'
         /\ Waiting' = Waiting \cup (IF i = current THEN {} ELSE {t})
<1>. USE DEF IInv, TypeOK
<1>1. /\ Ready' = Ready \cup {i} /\ i \notin Ready
      /\ \A j \in Slot : rsp'[j] = IF j = i THEN t ELSE rsp[j]
  BY DEF Ready
<1>2. \A j \in Ready \ {current} : rsp[j] \in Waiting /\ rsp[j] # t
  BY WaitingMember DEF Ready, WaitingBorn
<1>3. Waiting' \subseteq Waiting \cup (IF i = current THEN {} ELSE {t})
  <2>. SUFFICES ASSUME NEW j \in (Ready \cup {i}) \ {current}
                PROVE  rsp'[j] \in Waiting \cup (IF i = current THEN {} ELSE {t})
    BY <1>1 DEF Waiting
  <2>. QED
    BY <1>1, <1>2 DEF Ready
<1>4. Waiting \subseteq Waiting'
  <2>. SUFFICES ASSUME NEW j \in Ready \ {current} PROVE rsp[j] \in Waiting'
    BY DEF Waiting
  <2>1. j \in Ready' \ {current'} /\ rsp'[j] = rsp[j]
    BY <1>1 DEF Ready
  <2>. QED
    BY <2>1 DEF Waiting
<1>5. i # current => t \in Waiting'
  <2>. SUFFICES ASSUME i # current PROVE t \in Waiting'
    OBVIOUS
  <2>1. i \in Ready' \ {current'} /\ rsp'[i] = t
    BY <1>1
  <2>. QED
    BY <2>1 DEF Waiting
<1>6. t # Stale /\ t # running
  BY NullAssumption DEF Stale
<1>7. Stale \notin Waiting' /\ running' \notin Waiting'
  BY <1>3, <1>6 DEF NoThreadTwice
<1>8. \A j, k \in Ready' \ {current'} : rsp'[j] = rsp'[k] => j = k
  <2>. SUFFICES ASSUME NEW j \in (Ready \cup {i}) \ {current},
                       NEW k \in (Ready \cup {i}) \ {current}, rsp'[j] = rsp'[k]
                PROVE  j = k
    BY <1>1
  <2>. QED
    BY <1>1, <1>2 DEF NoThreadTwice, Ready
<1>. QED
  BY <1>3, <1>4, <1>5, <1>7, <1>8 DEF NoThreadTwice

-----------------------------------------------------------------------------
LEMMA InitIInv == Init => IInv
<1>. SUFFICES ASSUME Init PROVE IInv
  OBVIOUS
<1>1. Ready \ {current} = {}
  BY DEF Init, Ready
<1>2. Waiting = {}
  BY <1>1 DEF Waiting
<1>3. 0 \in Slot
  BY TasksAssumption DEF Slot
<1>4. TypeOK
  BY <1>3, ThreadAssumption DEF Init, TypeOK, Born
<1>. QED
  BY <1>1, <1>2, <1>4 DEF IInv, NoThreadTwice, WaitingBorn

LEMMA TickStep == ASSUME IInv, Tick PROVE IInv'
<1>1. PICK n \in Slot :
        /\ Chosen(n)
        /\ IF n = current THEN UNCHANGED <<rsp, running, started, current>> ELSE SwitchTo(n)
        /\ PassOver(n)
        /\ UNCHANGED <<state, stack, exited, frameVars>>
  BY DEF Tick
<1>2. waited' \in [Slot -> Nat]
  BY <1>1, TasksAssumption DEF PassOver, IInv, TypeOK
<1>3. Born' = Born
  BY <1>1 DEF Born
<1>4. CASE n = current
  <2>1. Waiting' = Waiting /\ Ready' = Ready
    BY <1>1, <1>4 DEF Waiting, Ready
  <2>. QED
    BY <1>1, <1>2, <1>3, <1>4, <2>1
       DEF IInv, TypeOK, NoThreadTwice, WaitingBorn, frameVars, Stale
<1>5. CASE n # current
  <2>1. n \in Ready \ {current}
    BY <1>1, <1>5, ChosenReady DEF IInv
  <2>2. SwitchTo(n) /\ state' = state
    BY <1>1, <1>5
  <2>3. /\ NoThreadTwice'
        /\ rsp[n] \in Waiting
        /\ Waiting' = (Waiting \ {rsp[n]}) \cup (IF state[current] = 1 THEN {running} ELSE {})
    BY <2>1, <2>2, SwitchStep
  <2>4. running \in Born /\ rsp[n] \in Born
    BY <2>3 DEF IInv, TypeOK, WaitingBorn
  <2>5. WaitingBorn'
    BY <1>3, <2>3, <2>4 DEF IInv, WaitingBorn
  <2>6. TypeOK'
    BY <1>1, <1>2, <1>3, <2>2, <2>4 DEF IInv, TypeOK, SwitchTo, frameVars, Stale
  <2>. QED
    BY <2>3, <2>5, <2>6 DEF IInv
<1>. QED
  BY <1>4, <1>5

\* What StackFor does to the stacks and the frame allocator.
LEMMA StackStep ==
  ASSUME TypeOK, NEW t \in Thread, StackFor(t)
  PROVE  /\ Born' = Born \cup {t}
         /\ stack' \in [Born' -> Frame \cup {NULL, Boot}]
         /\ avail' \subseteq Frame /\ held' \subseteq Frame
         /\ result' \in Frame \cup {NULL}
<1>1. CASE \E p \in Frame : Frames!Grant(p)
             /\ stack' = [u \in Born \cup {t} |-> IF u = t THEN p ELSE stack[u]]
  BY <1>1 DEF TypeOK, Born, Frames!Grant
<1>2. CASE Frames!Refuse
             /\ stack' = [u \in Born \cup {t} |-> IF u = t THEN NULL ELSE stack[u]]
  BY <1>2 DEF TypeOK, Born, Frames!Refuse
<1>. QED
  BY <1>1, <1>2 DEF StackFor

LEMMA CreateKeeps == ASSUME IInv, Create PROVE IInv'
<1>1. PICK t \in Thread \ Born, i \in Slot :
        /\ FreeSlot(i)
        /\ StackFor(t)
        /\ rsp' = [rsp EXCEPT ![i] = t]
        /\ state' = [state EXCEPT ![i] = 1]
        /\ UNCHANGED <<current, running, started, exited, waited>>
  BY DEF Create
<1>2. NoThreadTwice' /\ Waiting' = Waiting \cup (IF i = current THEN {} ELSE {t})
  BY <1>1, CreateStep DEF FreeSlot
<1>3. /\ Born' = Born \cup {t}
      /\ stack' \in [Born' -> Frame \cup {NULL, Boot}]
      /\ avail' \subseteq Frame /\ held' \subseteq Frame
      /\ result' \in Frame \cup {NULL}
  BY <1>1, StackStep DEF IInv
<1>4. WaitingBorn'
  BY <1>2, <1>3 DEF IInv, WaitingBorn
<1>5. TypeOK'
  BY <1>1, <1>3 DEF IInv, TypeOK, Stale
<1>. QED
  BY <1>2, <1>4, <1>5 DEF IInv

LEMMA ExitKeeps == ASSUME IInv, Exit PROVE IInv'
<1>1. Ready' \ {current'} = Ready \ {current}
  BY DEF Exit, Ready, IInv, TypeOK
<1>2. Waiting' = Waiting
  BY <1>1 DEF Exit, Waiting
<1>3. Born' = Born
  BY DEF Exit, Born
<1>. QED
  BY <1>1, <1>2, <1>3 DEF Exit, IInv, TypeOK, NoThreadTwice, WaitingBorn, frameVars, Stale

LEMMA Unchanged == ASSUME IInv, UNCHANGED vars PROVE IInv' /\ Waiting' = Waiting
BY DEF IInv, TypeOK, NoThreadTwice, WaitingBorn, Waiting, Ready, Born, vars, table, frameVars, Stale

LEMMA StepIInv == IInv /\ [Next]_vars => IInv'
BY TickStep, CreateKeeps, ExitKeeps, Unchanged DEF Next, CreateFails

\* The types hold for any number of slots, threads and frames.
THEOREM TypeCorrect == Spec => []TypeOK
<1>1. IInv => TypeOK
  BY DEF IInv
<1>. QED
  BY <1>1, InitIInv, StepIInv, PTL DEF Spec

\* No thread is resumed twice or from a stale point, whatever the order of
\* timer interrupts, creations and exits (task.cpp lines 7-27).
THEOREM NeverTwice == Spec => []NoThreadTwice
<1>1. IInv => NoThreadTwice
  BY DEF IInv
<1>. QED
  BY <1>1, InitIInv, StepIInv, PTL DEF Spec

-----------------------------------------------------------------------------
(* Refinement, when entries do not return: the current slot stays ready,   *)
(* so a creation never picks it.                                           *)

CurrentReady == state[current] = 1

LEMMA StepCurrentReady ==
  ASSUME ~MayReturn PROVE IInv /\ CurrentReady /\ [Next]_vars => CurrentReady'
<1>. SUFFICES ASSUME IInv, CurrentReady, [Next]_vars PROVE CurrentReady'
  OBVIOUS
<1>1. CASE Tick
  <2>1. PICK n \in Slot :
          /\ Chosen(n)
          /\ IF n = current THEN UNCHANGED <<rsp, running, started, current>> ELSE SwitchTo(n)
          /\ UNCHANGED state
    BY <1>1 DEF Tick
  <2>. QED
    BY <2>1, ChosenReady DEF IInv, CurrentReady, Ready, SwitchTo
<1>2. CASE Create
  BY <1>2 DEF Create, CurrentReady, IInv, TypeOK
<1>3. CASE UNCHANGED vars
  BY <1>3 DEF vars, table, CurrentReady
<1>. QED
  BY <1>1, <1>2, <1>3 DEF Next, CreateFails, Exit

LEMMA StepImplements ==
  ASSUME ~MayReturn PROVE IInv /\ CurrentReady /\ [Next]_vars => [Plain!Next]_(Plain!vars)
<1>. SUFFICES ASSUME IInv, CurrentReady, [Next]_vars PROVE [Plain!Next]_(Plain!vars)
  OBVIOUS
<1>1. CASE Tick
  <2>1. PICK n \in Slot :
          /\ Chosen(n)
          /\ IF n = current THEN UNCHANGED <<rsp, running, started, current>> ELSE SwitchTo(n)
          /\ UNCHANGED state
    BY <1>1 DEF Tick
  <2>2. CASE n = current
    BY <2>1, <2>2 DEF Plain!vars, Waiting, Ready
  <2>3. CASE n # current
    <3>1. n \in Ready \ {current}
      BY <2>1, <2>3, ChosenReady DEF IInv
    <3>2. /\ rsp[n] \in Waiting /\ running' = rsp[n]
          /\ Waiting' = (Waiting \ {rsp[n]}) \cup {running}
      BY <2>1, <2>3, <3>1, SwitchStep DEF CurrentReady, SwitchTo
    <3>3. rsp[n] \in Thread
      BY <3>2 DEF IInv, WaitingBorn, TypeOK
    <3>. QED
      BY <3>2, <3>3 DEF Plain!Next, Plain!Switch
  <2>. QED
    BY <2>2, <2>3
<1>2. CASE Create
  <2>1. PICK t \in Thread \ Born, i \in Slot :
          /\ FreeSlot(i)
          /\ rsp' = [rsp EXCEPT ![i] = t]
          /\ state' = [state EXCEPT ![i] = 1]
          /\ UNCHANGED <<current, running>>
    BY <1>2 DEF Create
  <2>2. i # current /\ state[i] = 0
    BY <2>1 DEF FreeSlot, CurrentReady
  <2>3. Waiting' = Waiting \cup {t}
    BY <2>1, <2>2, CreateStep
  <2>4. t \notin Waiting \cup {running}
    BY DEF IInv, WaitingBorn, TypeOK
  <2>. QED
    BY <2>1, <2>3, <2>4 DEF Plain!Next, Plain!Create
<1>3. CASE UNCHANGED vars
  BY <1>3, Unchanged DEF Plain!vars, vars
<1>. QED
  BY <1>1, <1>2, <1>3 DEF Next, CreateFails, Exit

\* With entries that never return, as every task of this kernel, no creation
\* and no switch ever loses or doubles a thread.
THEOREM Implements == ASSUME ~MayReturn PROVE Spec => MultitaskingSpec
<1>1. Init => CurrentReady /\ Plain!Init
  <2>. SUFFICES ASSUME Init PROVE CurrentReady /\ Plain!Init
    OBVIOUS
  <2>1. Ready \ {current} = {} /\ 0 \in Slot
    BY TasksAssumption DEF Init, Ready, Slot
  <2>. QED
    BY <2>1 DEF Init, CurrentReady, Plain!Init, Waiting
<1>. QED
  BY <1>1, InitIInv, StepIInv, StepCurrentReady, StepImplements, PTL
     DEF Spec, MultitaskingSpec, Plain!Spec

-----------------------------------------------------------------------------
(* Nobody starves.                                                         *)

\* How far ahead of the current slot slot i is.
Distance(i) == IF i >= current THEN i - current ELSE i + MAX_TASKS - current

\* A slot that waits was passed over at most as often as the current slot
\* can have come nearer to it.
WaitsInTurn ==
  /\ waited[current] = 0
  /\ \A i \in Slot : state[i] # 1 => waited[i] = 0
  /\ \A i \in Slot \ {current} : waited[i] + Distance(i) <= MAX_TASKS

LEMMA AheadIs ==
  ASSUME NEW c \in Slot, NEW d \in 1 .. MAX_TASKS
  PROVE  (c + d) % MAX_TASKS = IF c + d < MAX_TASKS THEN c + d ELSE c + d - MAX_TASKS
<1>1. MAX_TASKS \in Nat \ {0} /\ c \in 0 .. MAX_TASKS - 1
  BY TasksAssumption DEF Slot
<1>2. CASE c + d < MAX_TASKS
  BY <1>1, <1>2
<1>3. CASE c + d >= MAX_TASKS
  <2>1. c + d - MAX_TASKS \in 0 .. MAX_TASKS - 1
    BY <1>1, <1>3
  <2>. QED
    BY <1>1, <1>3, <2>1
<1>. QED
  BY <1>1, <1>2, <1>3

LEMMA DistanceIs ==
  ASSUME TypeOK, NEW i \in Slot \ {current}
  PROVE  Distance(i) \in 1 .. MAX_TASKS - 1 /\ Ahead(Distance(i)) = i
<1>1. MAX_TASKS \in Nat \ {0} /\ current \in 0 .. MAX_TASKS - 1 /\ i \in 0 .. MAX_TASKS - 1
  BY TasksAssumption DEF TypeOK, Slot
<1>2. Distance(i) \in 1 .. MAX_TASKS - 1
  BY <1>1 DEF Distance
<1>3. PICK d \in 1 .. MAX_TASKS : d = Distance(i)
  BY <1>1, <1>2
<1>4. Ahead(d) = IF current + d < MAX_TASKS THEN current + d ELSE current + d - MAX_TASKS
  BY <1>1, <1>3, AheadIs DEF Ahead, Slot
<1>5. Ahead(d) = i
  BY <1>1, <1>3, <1>4 DEF Distance
<1>. QED
  BY <1>2, <1>3, <1>5

\* A ready slot that schedule() does not take lies behind the one it takes,
\* and is nearer then.
LEMMA Nearer ==
  ASSUME TypeOK, NEW n \in Slot \ {current}, Chosen(n), current' = n,
         NEW i \in Ready \ {n, current}
  PROVE  Distance(i)' <= Distance(i) - 1
<1>1. MAX_TASKS \in Nat \ {0} /\ current \in 0 .. MAX_TASKS - 1 /\ i \in 0 .. MAX_TASKS - 1
      /\ n \in 0 .. MAX_TASKS - 1
  BY TasksAssumption DEF TypeOK, Slot, Ready
<1>2. PICK d \in 1 .. MAX_TASKS : StopsAfter(d) /\ n = Ahead(d)
  BY DEF Chosen
<1>3. Distance(i) \in 1 .. MAX_TASKS - 1 /\ Ahead(Distance(i)) = i
  BY DistanceIs DEF Ready
<1>4. ~(Distance(i) \in 1 .. d - 1)
  BY <1>3 , <1>2 DEF StopsAfter, Ready
<1>5. Distance(i) > d
  BY <1>1, <1>2, <1>3, <1>4
<1>6. n = IF current + d < MAX_TASKS THEN current + d ELSE current + d - MAX_TASKS
  BY <1>1, <1>2, AheadIs DEF Ahead, Slot
<1>7. Distance(i)' = IF i >= n THEN i - n ELSE i + MAX_TASKS - n
  BY DEF Distance
<1>. QED
  BY <1>1, <1>2, <1>3, <1>5, <1>6, <1>7 DEF Distance

\* If it takes none, no other slot is ready.
LEMMA NoneElse ==
  ASSUME TypeOK, Chosen(current), NEW i \in Ready
  PROVE  i = current
<1>. SUFFICES ASSUME i # current PROVE FALSE
  OBVIOUS
<1>1. MAX_TASKS \in Nat \ {0} /\ current \in 0 .. MAX_TASKS - 1
  BY TasksAssumption DEF TypeOK, Slot
<1>2. PICK d \in 1 .. MAX_TASKS : StopsAfter(d) /\ current = Ahead(d)
  BY DEF Chosen
<1>3. current = IF current + d < MAX_TASKS THEN current + d ELSE current + d - MAX_TASKS
  BY <1>1, <1>2, AheadIs DEF Ahead, Slot
<1>4. d = MAX_TASKS
  BY <1>1, <1>2, <1>3
<1>5. Distance(i) \in 1 .. MAX_TASKS - 1 /\ Ahead(Distance(i)) = i
  BY DistanceIs DEF Ready
<1>. QED
  BY <1>2, <1>4, <1>5 DEF StopsAfter, Ready

LEMMA StepWaitsInTurn == ASSUME IInv, WaitsInTurn, [Next]_vars PROVE WaitsInTurn'
<1>1. CASE Tick
  <2>1. PICK n \in Slot :
          /\ Chosen(n)
          /\ IF n = current THEN UNCHANGED <<rsp, running, started, current>> ELSE SwitchTo(n)
          /\ PassOver(n)
          /\ UNCHANGED state
    BY <1>1 DEF Tick
  <2>2. /\ MAX_TASKS \in Nat \ {0} /\ current' = n /\ state' = state
        /\ waited \in [Slot -> Nat]
        /\ \A i \in Slot : waited'[i] = IF i = n \/ state[i] # 1 THEN 0
                                        ELSE IF waited[i] < MAX_TASKS THEN waited[i] + 1 ELSE MAX_TASKS
    BY <2>1, TasksAssumption DEF PassOver, SwitchTo, IInv, TypeOK
  <2>3. ASSUME NEW i \in Slot \ {n} PROVE waited'[i] + Distance(i)' <= MAX_TASKS
    <3>1. current \in Slot /\ TypeOK /\ TypeOK'
      BY StepIInv DEF IInv, TypeOK
    <3>2. Distance(i)' \in 1 .. MAX_TASKS - 1
      BY <2>2, <3>1, DistanceIs, TasksAssumption DEF Distance, Slot
    <3>3. CASE state[i] # 1
      BY <2>2, <3>2, <3>3
    <3>4. CASE state[i] = 1 /\ i = current
      <4>1. waited'[i] <= 1
        BY <2>2, <3>1, <3>4 DEF WaitsInTurn
      <4>2. waited'[i] \in Nat
        BY <2>2, <3>1, <3>4
      <4>. QED
        BY <2>2, <3>2, <4>1, <4>2
    <3>5. CASE state[i] = 1 /\ i # current
      <4>1. i \in Ready
        BY <3>5 DEF Ready
      <4>2. n # current
        BY <2>1, <3>1, <3>5, <4>1, NoneElse
      <4>3. Distance(i)' <= Distance(i) - 1
        BY <2>1, <2>2, <3>1, <3>5, <4>1, <4>2, Nearer
      <4>4. waited[i] + Distance(i) <= MAX_TASKS /\ Distance(i) \in 1 .. MAX_TASKS - 1
        BY <3>1, <3>5, DistanceIs DEF WaitsInTurn
      <4>5. waited'[i] = waited[i] + 1
        BY <2>2, <3>5, <4>4
      <4>. QED
        BY <2>2, <3>2, <4>3, <4>4, <4>5
    <3>. QED
      BY <3>3, <3>4, <3>5
  <2>. QED
    BY <2>2, <2>3 DEF WaitsInTurn
<1>2. CASE Create
  BY <1>2 DEF Create, FreeSlot, WaitsInTurn, Distance, IInv, TypeOK
<1>3. CASE Exit
  BY <1>3 DEF Exit, WaitsInTurn, Distance, IInv, TypeOK
<1>4. CASE UNCHANGED vars
  BY <1>4 DEF vars, table, WaitsInTurn, Distance
<1>. QED
  BY <1>1, <1>2, <1>3, <1>4 DEF Next, CreateFails

\* Nobody starves, for any number of slots: a ready slot is passed over less
\* often than there are slots (task.cpp lines 18-27).
THEOREM Fair == Spec => []BoundedWait
<1>1. Init => WaitsInTurn
  <2>. SUFFICES ASSUME Init PROVE WaitsInTurn
    OBVIOUS
  <2>1. TypeOK
    BY InitIInv DEF IInv
  <2>2. \A i \in Slot \ {current} : Distance(i) \in 1 .. MAX_TASKS - 1
    BY <2>1, DistanceIs
  <2>. QED
    BY <2>1, <2>2, TasksAssumption DEF Init, WaitsInTurn, TypeOK
<1>2. IInv /\ WaitsInTurn => BoundedWait
  <2>. SUFFICES ASSUME IInv, WaitsInTurn, NEW i \in Ready PROVE waited[i] < MAX_TASKS
    BY DEF BoundedWait
  <2>1. CASE i = current
    BY <2>1, TasksAssumption DEF WaitsInTurn
  <2>2. CASE i # current
    <3>1. Distance(i) \in 1 .. MAX_TASKS - 1 /\ waited[i] + Distance(i) <= MAX_TASKS
      BY <2>2, DistanceIs DEF IInv, WaitsInTurn, Ready
    <3>2. waited[i] \in Nat
      BY DEF IInv, TypeOK, Ready
    <3>. QED
      BY <3>1, <3>2, TasksAssumption
  <2>. QED
    BY <2>1, <2>2
<1>. QED
  BY <1>1, <1>2, InitIInv, StepIInv, StepWaitsInTurn, PTL DEF Spec

-----------------------------------------------------------------------------
(* Stacks.  The first creation that is refused a page gets the page of     *)
(* address 0, which is its own as long as no second one is refused.        *)

\* There are more pages than threads but for the boot flow and one more.
AlmostEnough == /\ IsFiniteSet(Thread) /\ IsFiniteSet(Frame)
                /\ Cardinality(Thread) <= Cardinality(Frame) + 2

\* Every page that was granted is the stack of one thread; a thread without
\* one was refused it when none was left.
StackOwners ==
  /\ \A t \in Born : stack[t] = Boot <=> t = Boot
  /\ \A t, u \in Born : stack[t] = stack[u] => t = u
  /\ \A t \in Born : stack[t] \notin avail
  /\ \A p \in Frame \ avail : \E t \in Born : stack[t] = p

\* With every page granted and one thread without, all threads are born.
LEMMA NoSecondRefusal ==
  ASSUME AlmostEnough, TypeOK, StackOwners, avail = {}, NEW u \in Born, stack[u] = NULL
  PROVE  Thread \ Born = {}
<1>. SUFFICES ASSUME NEW t \in Thread \ Born PROVE FALSE
  OBVIOUS
<1>. DEFINE others == Thread \ {t, u, Boot}
            owner == [p \in Frame |-> CHOOSE v \in Born : stack[v] = p]
<1>1. u # Boot /\ u # t /\ t # Boot /\ {t, u, Boot} \subseteq Thread
  BY NullAssumption, ThreadAssumption DEF TypeOK, StackOwners
<1>2. \A p \in Frame : owner[p] \in Born /\ stack[owner[p]] = p
  BY DEF StackOwners
<1>3. \A p \in Frame : owner[p] \in others
  BY <1>1, <1>2, NullAssumption, ThreadAssumption DEF TypeOK, StackOwners
<1>4. owner \in Injection(Frame, others)
  BY <1>2, <1>3 DEF Injection, IsInjective
<1>5. IsFiniteSet(others) /\ Cardinality(others) = Cardinality(Thread) - 3
  <2>1. /\ IsFiniteSet(Thread \ {t}) /\ Cardinality(Thread \ {t}) = Cardinality(Thread) - 1
    BY <1>1, FS_RemoveElement DEF AlmostEnough
  <2>2. /\ IsFiniteSet((Thread \ {t}) \ {u})
        /\ Cardinality((Thread \ {t}) \ {u}) = Cardinality(Thread \ {t}) - 1
    BY <1>1, <2>1, FS_RemoveElement
  <2>3. /\ IsFiniteSet(((Thread \ {t}) \ {u}) \ {Boot})
        /\ Cardinality(((Thread \ {t}) \ {u}) \ {Boot}) = Cardinality((Thread \ {t}) \ {u}) - 1
    BY <1>1, <2>2, FS_RemoveElement
  <2>4. others = ((Thread \ {t}) \ {u}) \ {Boot}
    OBVIOUS
  <2>5. Cardinality(Thread) \in Nat
    BY FS_CardinalityType DEF AlmostEnough
  <2>. HIDE DEF others
  <2>. QED
    BY <2>1, <2>2, <2>3, <2>4, <2>5
<1>6. Cardinality(Frame) <= Cardinality(others)
  BY <1>4, <1>5, FS_Injection
<1>. HIDE DEF others
<1>7. Cardinality(Thread) \in Nat /\ Cardinality(Frame) \in Nat
  BY FS_CardinalityType DEF AlmostEnough
<1>. QED
  BY <1>5, <1>6, <1>7 DEF AlmostEnough

LEMMA StepStackOwners == ASSUME AlmostEnough, IInv, StackOwners, [Next]_vars PROVE StackOwners'
<1>1. CASE Create
  <2>1. PICK t \in Thread \ Born : StackFor(t)
    BY <1>1 DEF Create
  <2>2. t # Boot /\ Boot \notin Frame
    BY ThreadAssumption DEF IInv, TypeOK
  <2>3. CASE \E p \in Frame : Frames!Grant(p)
               /\ stack' = [u \in Born \cup {t} |-> IF u = t THEN p ELSE stack[u]]
    <3>1. PICK p \in Frame : Frames!Grant(p)
               /\ stack' = [u \in Born \cup {t} |-> IF u = t THEN p ELSE stack[u]]
      BY <2>3
    <3>2. p \in avail /\ avail' = avail \ {p}
      BY <3>1 DEF Frames!Grant
    <3>3. Born' = Born \cup {t}
      BY <3>1 DEF Born
    <3>. QED
      BY <2>2, <3>1, <3>2, <3>3 DEF StackOwners
  <2>4. CASE Frames!Refuse
               /\ stack' = [u \in Born \cup {t} |-> IF u = t THEN NULL ELSE stack[u]]
    <3>1. avail = {} /\ avail' = avail
      BY <2>4 DEF Frames!Refuse
    <3>2. Born' = Born \cup {t}
      BY <2>4 DEF Born
    <3>3. \A u \in Born : stack[u] # NULL
      BY <3>1, NoSecondRefusal DEF IInv
    <3>. QED
      BY <2>2, <2>4, <3>1, <3>2, <3>3, NullAssumption, ThreadAssumption DEF StackOwners
  <2>. QED
    BY <2>1, <2>3, <2>4 DEF StackFor
<1>2. CASE UNCHANGED <<stack, avail>>
  BY <1>2 DEF StackOwners, Born
<1>. QED
  BY <1>1, <1>2 DEF Next, CreateFails, Tick, Exit, frameVars, vars

\* With pages for all threads but one, no two threads share a stack (task.cpp
\* line 10).
THEOREM OwnStacks == ASSUME AlmostEnough PROVE Spec => []StacksPrivate
<1>1. Init => StackOwners
  BY ThreadAssumption DEF Init, StackOwners, Born
<1>2. IInv /\ StackOwners => StacksPrivate
  BY DEF IInv, TypeOK, WaitingBorn, StackOwners, StacksPrivate
<1>. QED
  BY <1>1, <1>2, InitIInv, StepIInv, StepStackOwners, PTL DEF Spec
=============================================================================
