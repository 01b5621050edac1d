---------------------------- MODULE PartsProofs -----------------------------
(***************************************************************************)
(* The parts that stand alone.                                             *)
(*                                                                         *)
(* Mouse, for every screen and every set of movements: the pointer stays   *)
(* on the screen, a quiet packet that comes whole puts the driver in step, *)
(* only a lost byte takes it out, and while it is in step the pointer      *)
(* follows the hand.                                                       *)
(*                                                                         *)
(* Boot, for every file and every memory map: the kernel gets both whole.  *)
(*                                                                         *)
(* Console, for every size of its surfaces and every text: the screen      *)
(* shows the end of the text, and no other surface changes.                *)
(*                                                                         *)
(* Commands, for every line and everything older lines left in the buffer: *)
(* a command gets what was typed.                                          *)
(*                                                                         *)
(* Eyes, for every place of the mouse whose squared distance is an int and *)
(* every size that lets a pupil move two pixels: the root is the root, and *)
(* the pupils look at the mouse from within the eyes.                      *)
(*                                                                         *)
(* Calculator, for every width of its ints and any text that holds one:    *)
(* the text on the display has the value that = would give.                *)
(***************************************************************************)
EXTENDS Mouse, Boot, Console, Commands, Eyes, Calculator, SequenceTheorems, WellFoundedInduction, TLAPS

-----------------------------------------------------------------------------
(* Mouse.                                                                  *)

\* Before the stream nothing is sent and no more is owed than was asked for;
\* two quiet bytes leave no packet with one byte in it.
Stepping ==
  /\ PointerOnScreen
  /\ owed + answers <= (booting + 1) \div 2
  /\ ~Streaming => place = 0 /\ ~settled
  /\ place = 2 /\ whole /\ Quiet(current) => mouse_cycle # 1
  /\ settled => InStep

\* A byte of a packet is a byte, and the first has bit 3.
LEMMA Bytes ==
  ASSUME NEW k \in Packets
  PROVE  /\ \A i \in 0 .. 2 : ByteOf(k, i) \in Byte
         /\ HasSync(ByteOf(k, 0))
<1>1. k.dx \in Int /\ k.dy \in Int /\ k.left \in BOOLEAN /\ k.overflow \in BOOLEAN
  BY PacketAssumption
<1>2. \A b \in BOOLEAN, v \in Nat : Bit(b, v) \in {0, v}
  BY DEF Bit
<1>3. /\ Bit(k.left, 1) \in {0, 1} /\ Bit(k.dx < 0, 16) \in {0, 16}
      /\ Bit(k.dy < 0, 32) \in {0, 32} /\ Bit(k.overflow, 64) \in {0, 64}
  BY <1>1 DEF Bit
<1>4. ByteOf(k, 0) \in Byte /\ HasSync(ByteOf(k, 0))
  BY <1>3 DEF ByteOf, Byte, HasSync
<1>5. ByteOf(k, 1) \in Byte /\ ByteOf(k, 2) \in Byte
  BY <1>1 DEF ByteOf, Byte
<1> QED
  BY <1>4, <1>5

\* Clamping gives a coordinate of the screen.
LEMMA Clamped ==
  ASSUME NEW n \in Int, NEW size \in Nat, size > 0
  PROVE  Within(0, n, size - 1) \in 0 .. size - 1
BY DEF Within

\* The handler keeps the driver's types, whatever the byte.
LEMMA HandlerTyped ==
  ASSUME PointerOnScreen, NEW b \in Byte, interrupt_handler(b)
  PROVE  /\ mouse_cycle' \in 0 .. 2 /\ mouse_packet' \in [0 .. 1 -> Byte]
         /\ mouse_x' \in 0 .. Width - 1 /\ mouse_y' \in 0 .. Height - 1
         /\ mouse_buttons' \in 0 .. 7
<1>1. CASE Desynced(b)
  BY <1>1 DEF interrupt_handler, packet, pointer, PointerOnScreen
<1>2. CASE ~Desynced(b)
  <2>1. mouse_cycle' \in 0 .. 2 /\ mouse_packet' \in [0 .. 1 -> Byte]
    BY <1>2 DEF interrupt_handler, NextCycle, PointerOnScreen
  <2>2. CASE mouse_cycle = 2 /\ mouse_packet[0] < 64
    <3>1. Move(mouse_packet[0], mouse_packet[1], b)
      BY <1>2, <2>2 DEF interrupt_handler
    <3>2. mouse_packet[0] \in Byte /\ mouse_packet[1] \in Byte
      BY DEF PointerOnScreen
    <3>3. mouse_buttons' \in 0 .. 7
      BY <3>1, <3>2 DEF Move, Byte
    <3>4. mouse_x + AsInt8(mouse_packet[1]) \in Int /\ mouse_y - AsInt8(b) \in Int
      BY <3>2 DEF AsInt8, Byte, PointerOnScreen
    <3>5. Width \in Nat /\ Width > 0 /\ Height \in Nat /\ Height > 0
      BY ScreenAssumption
    <3> QED
      BY <2>1, <3>1, <3>3, <3>4, <3>5, Clamped DEF Move
  <2>3. CASE ~(mouse_cycle = 2 /\ mouse_packet[0] < 64)
    BY <1>2, <2>1, <2>3 DEF interrupt_handler, pointer, PointerOnScreen
  <2> QED
    BY <2>2, <2>3
<1> QED
  BY <1>1, <1>2

\* A byte of the packet under way, received in step, leaves the driver in
\* step with what follows it.
LEMMA ReceivedInStep ==
  ASSUME PointerOnScreen, Receive, InStep
  PROVE  InStep'
<1> DEFINE b == ByteOf(current, place)
<1>1. /\ current \in Packets /\ place \in 0 .. 2 /\ mouse_cycle = place
      /\ mouse_packet \in [0 .. 1 -> Byte]
  BY DEF PointerOnScreen, InStep
<1>2. Streaming'
  BY DEF Receive, Streaming, init
<1>3. ~Desynced(b)
  BY <1>1, Bytes DEF Desynced
<1>4. /\ mouse_cycle' = (mouse_cycle + 1) % 3 /\ place' = (place + 1) % 3
      /\ mouse_packet' = IF mouse_cycle = 2 THEN mouse_packet
                         ELSE [mouse_packet EXCEPT ![mouse_cycle] = b]
      /\ place = 2 \/ current' = current
  BY <1>3 DEF Receive, interrupt_handler, NextCycle, Sent
<1>5. mouse_cycle' = place'
  BY <1>1, <1>4
<1>6. \A i \in 0 .. place' - 1 : mouse_packet'[i] = ByteOf(current', i)
  <2>1. CASE place = 2
    BY <2>1, <1>4
  <2>2. CASE place = 0
    BY <2>2, <1>1, <1>4
  <2>3. CASE place = 1
    <3>1. mouse_packet[0] = ByteOf(current, 0)
      BY <2>3 DEF InStep
    <3> QED
      BY <3>1, <2>3, <1>1, <1>4
  <2> QED
    BY <1>1, <2>1, <2>2, <2>3
<1> QED
  BY <1>2, <1>5, <1>6 DEF InStep

\* The last two bytes of a quiet packet are taken up or dropped, and leave
\* no packet begun, whatever the driver held before.
LEMMA QuietEnds ==
  ASSUME Stepping, Receive, whole, Quiet(current)
  PROVE  /\ place = 1 => mouse_cycle' # 1
         /\ place = 2 => mouse_cycle' = 0 /\ place' = 0
<1>1. /\ current \in Packets /\ place \in 0 .. 2 /\ mouse_cycle \in 0 .. 2
      /\ place = 2 => mouse_cycle # 1
  BY DEF Stepping, PointerOnScreen
<1>2. place > 0 => ~HasSync(ByteOf(current, place))
  BY <1>1 DEF Quiet
<1>3. place > 0 /\ mouse_cycle = 0 => mouse_cycle' = 0
  BY <1>2 DEF Receive, interrupt_handler, Desynced, packet
<1>4. mouse_cycle # 0 => mouse_cycle' = (mouse_cycle + 1) % 3
  BY DEF Receive, interrupt_handler, Desynced, NextCycle
<1>5. place' = (place + 1) % 3
  BY DEF Receive, Sent
<1> QED
  BY <1>1, <1>3, <1>4, <1>5

LEMMA InitStepping == MouseInit => Stepping
<1> SUFFICES ASSUME MouseInit PROVE Stepping
  OBVIOUS
<1>1. PointerOnScreen
  <2>1. whole \in BOOLEAN /\ settled \in BOOLEAN
    BY Zenon DEF MouseInit
  <2>2. mouse_packet \in [0 .. 1 -> Byte]
    BY DEF MouseInit, Byte
  <2> QED
    BY <2>1, <2>2, ScreenAssumption DEF MouseInit, PointerOnScreen
<1> QED
  BY <1>1 DEF MouseInit, Stepping, Streaming

LEMMA NextStepping == Stepping /\ [MouseNext]_mouseVars => Stepping'
<1> SUFFICES ASSUME Stepping, [MouseNext]_mouseVars
             PROVE  Stepping'
  OBVIOUS
<1> USE DEF Stepping
<1>0. PointerOnScreen
  OBVIOUS
<1>1. CASE mouse_write
  BY <1>1 DEF mouse_write, PointerOnScreen, Streaming, InStep, wire, packet, pointer, mouseHistory
<1>2. CASE Answer
  BY <1>2 DEF Answer, PointerOnScreen, Streaming, InStep, wire, packet, pointer, mouseHistory
<1>3. CASE ReadAnswer
  BY <1>3 DEF ReadAnswer, PointerOnScreen, Streaming, InStep, wire, packet, pointer, mouseHistory
<1>4. CASE LateAnswer
  <2>1. ACK \in Byte
    BY DEF ACK, Byte
  <2>2. interrupt_handler(ACK)
    BY <1>4 DEF LateAnswer
  <2>3. PointerOnScreen'
    BY <1>0, <1>4, <2>1, <2>2, HandlerTyped DEF LateAnswer, PointerOnScreen, wire, mouseHistory
  <2> QED
    BY <1>4, <2>3 DEF LateAnswer, PointerOnScreen, Streaming, wire, mouseHistory
<1>5. CASE Receive
  <2>1. ByteOf(current, place) \in Byte
    BY Bytes DEF PointerOnScreen
  <2>2. interrupt_handler(ByteOf(current, place))
    BY <1>5 DEF Receive
  <2>3. PointerOnScreen'
    <3>1. place' \in 0 .. 2 /\ current' \in Packets
      BY <1>5 DEF Receive, Sent, PointerOnScreen
    <3>2. whole' \in BOOLEAN /\ settled' \in BOOLEAN
      BY <1>5 DEF Receive, PointerOnScreen
    <3> QED
      BY <1>0, <1>5, <2>1, <2>2, <3>1, <3>2, HandlerTyped DEF Receive, PointerOnScreen, init
  <2>4. Streaming'
    BY <1>5 DEF Receive, Streaming, init
  <2>5. (place = 2 /\ whole /\ Quiet(current) => mouse_cycle # 1)'
    <3>1. CASE place = 1
      <4>0. current' = current
        BY <3>1, <1>5 DEF Receive, Sent
      <4>1. whole' => whole
        <5>1. whole' = (whole \/ place = 2) /\ place # 2
          BY <3>1, <1>5 DEF Receive
        <5> QED
          BY <5>1, Zenon
      <4>2. whole /\ Quiet(current) => mouse_cycle' # 1
        BY <3>1, <1>5, QuietEnds
      <4> QED
        BY <4>0, <4>1, <4>2, Zenon
    <3>2. CASE place # 1
      BY <3>2, <1>0, <1>5 DEF Receive, Sent, PointerOnScreen
    <3> QED
      BY <3>1, <3>2
  <2>6. settled' => InStep'
    <3>1. CASE settled
      BY <3>1, <1>0, <1>5, ReceivedInStep
    <3>2. CASE place = 2 /\ whole /\ Quiet(current)
      BY <3>2, <1>5, <2>4, QuietEnds DEF InStep
    <3> QED
      BY <3>1, <3>2, <1>5 DEF Receive
  <2> QED
    BY <1>5, <2>3, <2>4, <2>5, <2>6 DEF Receive, init, Streaming
<1>6. CASE Lose
  <2>1. PointerOnScreen'
    <3>1. place' \in 0 .. 2 /\ current' \in Packets
      BY <1>0, <1>6 DEF Lose, Sent, PointerOnScreen
    <3>2. whole' \in BOOLEAN /\ settled' \in BOOLEAN
      BY <1>6, Zenon DEF Lose
    <3> QED
      BY <1>0, <1>6, <3>1, <3>2 DEF Lose, PointerOnScreen, init, packet, pointer
  <2>2. Streaming' /\ UNCHANGED <<owed, answers, booting>>
    BY <1>6 DEF Lose, Streaming, init
  <2>3. ~settled'
    BY <1>6, Zenon DEF Lose
  <2>4. ~(place = 2 /\ whole)'
    <3>1. place = 2 => place' = 0
      BY <1>6 DEF Lose, Sent
    <3>2. place # 2 => ~whole'
      BY <1>6, Zenon DEF Lose
    <3>3. place' = 0 => place' # 2
      OBVIOUS
    <3> QED
      BY <3>1, <3>2, <3>3, Zenon
  <2> QED
    BY <2>1, <2>2, <2>3, <2>4 DEF Streaming
<1>7. CASE UNCHANGED mouseVars
  BY <1>7 DEF mouseVars, PointerOnScreen, Streaming, InStep, init, wire, packet, pointer, mouseHistory
<1> QED
  BY <1>1, <1>2, <1>3, <1>4, <1>5, <1>6, <1>7 DEF MouseNext

\* The strengthening is an invariant.
LEMMA SteppingHolds == MouseSpec => []Stepping
BY InitStepping, NextStepping, PTL DEF MouseSpec

\* The pointer never leaves the screen, whatever bytes are lost or late and
\* however packets are read wrongly (idt.cpp lines 184-204).
THEOREM OnScreen == MouseSpec => []PointerOnScreen
<1>1. Stepping => PointerOnScreen
  BY DEF Stepping
<1> QED
  BY <1>1, SteppingHolds, PTL

\* One quiet packet that comes whole puts the driver in step, for every set
\* of movements (idt.cpp lines 183-189).
THEOREM Settles == MouseSpec => []QuietPacketSettles
<1>1. Stepping => QuietPacketSettles
  BY DEF Stepping, QuietPacketSettles
<1> QED
  BY <1>1, SteppingHolds, PTL

\* Only a lost byte takes the driver out of step (idt.cpp lines 184-192).
THEOREM KeepsStep == MouseSpec => StaysInStep
<1>1. Stepping /\ [MouseNext]_mouseVars => [InStep => InStep' \/ Lose]_mouseVars
  <2> SUFFICES ASSUME Stepping, MouseNext, InStep
               PROVE  InStep' \/ Lose
    BY DEF mouseVars
  <2>1. PointerOnScreen /\ Streaming /\ booting = 4 /\ owed = 0 /\ answers = 0
    BY DEF Stepping, InStep, Streaming
  <2>2. ~mouse_write /\ ~Answer /\ ~ReadAnswer /\ ~LateAnswer
    BY <2>1 DEF mouse_write, Answer, ReadAnswer, LateAnswer
  <2> QED
    BY <2>1, <2>2, ReceivedInStep DEF MouseNext
<1> QED
  BY <1>1, SteppingHolds, PTL DEF MouseSpec, StaysInStep

\* The driver implements the promise: in step, the pointer does what the
\* hand does; out of step it is still on the screen (idt.cpp lines 186-205).
THEOREM Follows == MouseSpec => FollowsHand
<1> DEFINE pvars == <<mouse_x, mouse_y, mouse_buttons, InStep>>
<1>1. MouseInit => Promise!Init
  BY DEF MouseInit, Promise!Init, InStep
<1>2. Stepping /\ [MouseNext]_mouseVars => [Promise!Next]_pvars
  <2> SUFFICES ASSUME Stepping, [MouseNext]_mouseVars
               PROVE  [Promise!Next]_pvars
    OBVIOUS
  <2>0. PointerOnScreen /\ InStep \in BOOLEAN /\ InStep' \in BOOLEAN
    BY DEF Stepping, InStep
  <2>1. CASE UNCHANGED pointer
    BY <2>0, <2>1 DEF Promise!Next, Promise!Disturbed, pointer
  <2>2. CASE ~InStep
    <3>1. Stepping'
      BY NextStepping
    <3>2. /\ mouse_x' \in 0 .. Width - 1 /\ mouse_y' \in 0 .. Height - 1
          /\ mouse_buttons' \in 0 .. 7
      BY <3>1 DEF Stepping, PointerOnScreen
    <3> QED
      BY <2>0, <2>2, <3>2
      DEF Promise!Next, Promise!Stray, Promise!Columns, Promise!Rows
  <2>3. CASE InStep /\ Receive /\ place = 2 /\ mouse_packet[0] < 64
    <3>1. /\ mouse_cycle = 2 /\ current \in Packets
          /\ mouse_packet[0] = ByteOf(current, 0) /\ mouse_packet[1] = ByteOf(current, 1)
      BY <2>3, <2>0 DEF InStep, PointerOnScreen
    <3>2. Move(ByteOf(current, 0), ByteOf(current, 1), ByteOf(current, 2))
      BY <2>3, <3>1 DEF Receive, interrupt_handler, Desynced
    <3>3. /\ current.dx \in -256 .. 255 /\ current.dy \in -256 .. 255
          /\ current.left \in BOOLEAN /\ current.overflow \in BOOLEAN
      BY <3>1, PacketAssumption
    <3>4. Bit(current.left, 1) = (IF current.left THEN 1 ELSE 0)
      BY DEF Bit
    <3>5. ~current.overflow /\ mouse_buttons' = IF current.left THEN 1 ELSE 0
      <4>1. /\ Bit(current.dx < 0, 16) \in {0, 16} /\ Bit(current.dy < 0, 32) \in {0, 32}
            /\ current.overflow => Bit(current.overflow, 64) = 64
            /\ ~current.overflow => Bit(current.overflow, 64) = 0
        BY <3>3 DEF Bit
      <4>2. ByteOf(current, 0) = 8 + Bit(current.left, 1) + Bit(current.dx < 0, 16)
                                   + Bit(current.dy < 0, 32) + Bit(current.overflow, 64)
        BY DEF ByteOf
      <4>3. ~current.overflow
        BY <2>3, <3>1, <3>3, <3>4, <4>1, <4>2
      <4>4. ByteOf(current, 0) % 8 = IF current.left THEN 1 ELSE 0
        BY <3>3, <3>4, <4>1, <4>2, <4>3
      <4> QED
        BY <3>2, <4>3, <4>4 DEF Move
    <3>6. \A d \in -128 .. 127 : AsInt8(d % 256) = d
      BY DEF AsInt8
    <3>7. /\ mouse_x \in 0 .. Width - 1 /\ mouse_y \in 0 .. Height - 1
          /\ Width \in Nat /\ Height \in Nat
      BY <2>0, ScreenAssumption DEF PointerOnScreen
    <3>8. mouse_x' \in 0 .. Width - 1 /\ mouse_y' \in 0 .. Height - 1
      BY NextStepping DEF Stepping, PointerOnScreen
    <3>9. mouse_x' \in Promise!Moved(current.dx, mouse_x + current.dx, Width)
      <4>1. CASE current.dx \in -128 .. 127
        <5>1. AsInt8(ByteOf(current, 1)) = current.dx
          <6>1. ByteOf(current, 1) = current.dx % 256
            BY DEF ByteOf
          <6> QED
            BY <4>1, <3>6, <6>1
        <5>2. mouse_x' = Within(0, mouse_x + current.dx, Width - 1)
          BY <5>1, <3>2 DEF Move
        <5> QED
          BY <4>1, <5>2 DEF Promise!Moved, Promise!Within, Within
      <4>2. CASE current.dx \notin -128 .. 127
        BY <4>2, <3>8 DEF Promise!Moved
      <4> QED
        BY <4>1, <4>2
    <3>10. mouse_y' \in Promise!Moved(current.dy, mouse_y - current.dy, Height)
      <4>1. CASE current.dy \in -128 .. 127
        <5>1. AsInt8(ByteOf(current, 2)) = current.dy
          <6>1. ByteOf(current, 2) = current.dy % 256
            BY DEF ByteOf
          <6> QED
            BY <4>1, <3>6, <6>1
        <5>2. mouse_y' = Within(0, mouse_y - current.dy, Height - 1)
          BY <5>1, <3>2 DEF Move
        <5> QED
          BY <4>1, <5>2 DEF Promise!Moved, Promise!Within, Within
      <4>2. CASE current.dy \notin -128 .. 127
        BY <4>2, <3>8 DEF Promise!Moved
      <4> QED
        BY <4>1, <4>2
    <3> QED
      BY <2>0, <2>3, <3>1, <3>5, <3>9, <3>10 DEF Promise!Next, Promise!Follow
  <2>4. CASE InStep /\ ~(Receive /\ place = 2 /\ mouse_packet[0] < 64)
    <3>1. /\ mouse_cycle = place /\ answers = 0 /\ booting = 4 /\ owed = 0
      BY <2>4 DEF InStep, Streaming
    <3>2. UNCHANGED pointer
      BY <2>4, <3>1 DEF MouseNext, mouse_write, Answer, ReadAnswer, LateAnswer, Receive, Lose,
                        interrupt_handler, mouseVars
    <3> QED
      BY <2>1, <3>2
  <2> QED
    BY <2>0, <2>2, <2>3, <2>4
<1> QED
  BY <1>1, <1>2, SteppingHolds, PTL DEF MouseSpec, FollowsHand, Promise!Spec

-----------------------------------------------------------------------------
(* Boot.                                                                   *)

\* The steps after the file is read.
Loaded == {"graphics", "ask", "pool", "get", "exit", "copy", "jump", "kernel"}

\* What is loaded is the file up to where the firmware has read it.
ImageOK ==
  /\ position \in 0 .. FileSize /\ bytes_loaded = position
  /\ image = [i \in 1 .. position |-> i]
  /\ step \in Loaded /\ ~failed => position = FileSize

\* The map outgrows its slack only if grown says so.
SizeOK ==
  /\ descriptors \in Nat /\ grown \in Nat /\ map_size \in Nat
  /\ step \in {"pool", "get"} => map_size + grown = descriptors + 2

\* A map that was got is the last one until a change is noted, and with the
\* services the changes end.
Kept == map_size = descriptors /\ map.version = version

MapOK ==
  /\ step = "exit" /\ ~late => map_key = version /\ Kept
  /\ step = "copy" /\ map # NULL /\ grown <= 2 /\ ~late => ~services /\ Kept
  /\ step = "jump" /\ map # NULL /\ grown <= 2 /\ ~late =>
       ~services /\ map_copy = [size |-> descriptors, version |-> version]
  /\ HandsOverMap

MapTypes == late \in BOOLEAN /\ map \in [room : Nat, version : Int] /\ version \in Nat

BootInv == ImageOK /\ SizeOK /\ MapTypes /\ MapOK

LEMMA BootStarts == ASSUME BootAssumption, BootInit PROVE BootInv
<1>1. FileSize \in Nat /\ Descriptors \in Nat
  BY DEF BootAssumption
<1>2. image = [i \in 1 .. position |-> i]
  BY DEF BootInit
<1>3. ImageOK
  BY <1>1, <1>2 DEF BootInit, ImageOK, Loaded
<1>4. map \in [room : Nat, version : Int]
  BY DEF BootInit, NULL, Garbage
<1>5. MapTypes
  BY <1>4 DEF BootInit, MapTypes
<1>6. SizeOK
  BY <1>1 DEF BootInit, SizeOK
<1>7. MapOK
  BY DEF BootInit, MapOK, HandsOverMap
<1>. QED
  BY <1>3, <1>5, <1>6, <1>7 DEF BootInv

LEMMA ImageKept == ASSUME BootAssumption, ImageOK, [BootNext]_bootVars PROVE ImageOK'
<1>. USE DEF ImageOK, Loaded, Goto
<1>1. CASE ReadChunk
  <2>1. PICK n \in 1 .. ChunkSize :
          /\ position + n <= FileSize
          /\ position' = position + n
          /\ image' = [i \in DOMAIN image \cup (bytes_loaded + 1 .. bytes_loaded + n) |->
                         IF i > bytes_loaded THEN position + i - bytes_loaded ELSE image[i]]
          /\ bytes_loaded' = bytes_loaded + n
    BY <1>1 DEF ReadChunk
  <2>2. ChunkSize \in Nat /\ FileSize \in Nat
    BY DEF BootAssumption
  <2>3. position' \in 0 .. FileSize /\ bytes_loaded' = position'
    BY <2>1, <2>2
  <2>4. DOMAIN image \cup (bytes_loaded + 1 .. bytes_loaded + n) = 1 .. position'
    BY <2>1, <2>2
  <2>5. \A i \in 1 .. position' :
          (IF i > bytes_loaded THEN position + i - bytes_loaded ELSE image[i]) = i
    BY <2>1, <2>2
  <2>6. image' = [i \in 1 .. position' |-> i]
    BY <2>1, <2>4, <2>5
  <2>7. UNCHANGED step /\ step = "read"
    BY <1>1 DEF ReadChunk
  <2>. QED
    BY <2>3, <2>6, <2>7
<1>2. CASE ReadNoMore
  <2>1. /\ UNCHANGED <<position, bytes_loaded, image>>
        /\ step' = "graphics" /\ failed' = (position < FileSize)
    BY <1>2 DEF ReadNoMore, kernel, firmware
  <2>2. FileSize \in Nat /\ position \in 0 .. FileSize
    BY DEF BootAssumption
  <2>3. ~failed' => position = FileSize
    <3>1. ~(position < FileSize) => position = FileSize
      BY <2>2
    <3>. QED
      BY <2>1, <3>1, Zenon
  <2>. QED
    BY <2>1, <2>3
<1>3. CASE FirmwareEvent
  BY <1>3 DEF FirmwareEvent, kernel
<1>4. CASE TryHandle \/ NoVolume \/ OpenKernel
  BY <1>4 DEF TryHandle, NoVolume, OpenKernel, kernel, firmware, bootHistory
<1>5. CASE Graphics \/ AskSize \/ AllocatePool
  BY <1>5 DEF Graphics, AskSize, AllocatePool, kernel, firmware, bootHistory
<1>6. CASE GetMemoryMap
  BY <1>6 DEF GetMemoryMap, kernel, firmware
<1>7. CASE ExitBootServices \/ CopyMap \/ Jump
  BY <1>7 DEF ExitBootServices, CopyMap, Jump, kernel, firmware, bootHistory
<1>8. CASE UNCHANGED bootVars
  BY <1>8 DEF bootVars, kernel, firmware, bootHistory
<1>. QED
  BY <1>1, <1>2, <1>3, <1>4, <1>5, <1>6, <1>7, <1>8 DEF BootNext

\* Changes of the map are counted and noted.
LEMMA RemapCounts ==
  ASSUME SizeOK, MapTypes, NEW d \in 0 .. 2, Remap(d)
  PROVE  /\ descriptors' \in Nat /\ grown' \in Nat /\ version' \in Nat
         /\ descriptors' - grown' = descriptors - grown
BY DEF SizeOK, MapTypes, Remap

LEMMA MapKept ==
  ASSUME BootAssumption, SizeOK, MapTypes, MapOK, [BootNext]_bootVars
  PROVE  SizeOK' /\ MapTypes' /\ MapOK'
<1>. USE DEF SizeOK, MapTypes, MapOK, HandsOverMap, Kept, Goto
<1>1. CASE FirmwareEvent
  <2>1. PICK d \in 0 .. 2 : Remap(d)
    BY <1>1 DEF FirmwareEvent
  <2>2. UNCHANGED <<step, map_size, map>> /\ late' = TRUE
    BY <1>1 DEF FirmwareEvent, mapping
  <2>. QED
    BY <2>1, <2>2, RemapCounts
<1>2. CASE TryHandle \/ NoVolume \/ OpenKernel \/ ReadChunk \/ ReadNoMore \/ Graphics
  <2>1. /\ UNCHANGED <<descriptors, version, services, mapping, grown, late>>
        /\ step' \in {"find", "open", "halted", "read", "lost", "graphics", "ask"}
    BY <1>2 DEF TryHandle, NoVolume, OpenKernel, ReadChunk, ReadNoMore, Graphics, firmware, bootHistory
  <2>. QED
    BY <2>1 DEF mapping
<1>3. CASE AskSize
  BY <1>3 DEF AskSize, WithSlack, firmware
<1>4. CASE AllocatePool
  <2>1. step = "pool" /\ step' = "get" /\ UNCHANGED <<map_size, late>>
    BY <1>4 DEF AllocatePool
  <2>2. CASE \E d \in 0 .. 2 : Remap(d) /\ map' = [room |-> map_size, version |-> Garbage]
    <3>1. PICK d \in 0 .. 2 : Remap(d) /\ map' = [room |-> map_size, version |-> Garbage]
      BY <2>2
    <3>. QED
      BY <2>1, <3>1, RemapCounts DEF Garbage
  <2>3. CASE UNCHANGED <<map, descriptors, version, grown>>
    BY <2>1, <2>3
  <2>. QED
    BY <1>4, <2>2, <2>3 DEF AllocatePool
<1>5. CASE GetMemoryMap
  <2>1. /\ step = "get" /\ map_size + grown = descriptors + 2
        /\ UNCHANGED <<descriptors, version, services, grown>> /\ late' = FALSE
    BY <1>5 DEF GetMemoryMap, firmware
  <2>2. CASE map # NULL /\ map_size >= descriptors
    <3>1. step' = "exit" /\ map' = [map EXCEPT !.version = version] /\ map_key' = version
          /\ map_size' = descriptors
      BY <1>5, <2>2 DEF GetMemoryMap
    <3>2. map' \in [room : Nat, version : Int] /\ map'.version = version
      BY <3>1
    <3>3. SizeOK' /\ MapTypes'
      BY <2>1, <3>1, <3>2
    <3>4. MapOK'
      BY <2>1, <3>1, <3>2
    <3>. QED
      BY <3>3, <3>4
  <2>3. CASE ~(map # NULL /\ map_size >= descriptors)
    <3>1. step' = "copy" /\ UNCHANGED map /\ map_size' \in {descriptors, map_size}
      BY <1>5, <2>3 DEF GetMemoryMap
    <3>2. map # NULL => grown' > 2
      BY <2>1, <2>3
    <3>3. SizeOK' /\ MapTypes'
      BY <2>1, <3>1
    <3>4. ~(grown' <= 2) \/ map' = NULL
      BY <2>1, <3>1, <3>2
    <3>5. MapOK'
      BY <3>1, <3>4 DEF NULL
    <3>. QED
      BY <3>3, <3>5
  <2>. QED
    BY <2>2, <2>3
<1>6. CASE ExitBootServices
  BY <1>6 DEF ExitBootServices, mapping, bootHistory
<1>7. CASE CopyMap
  BY <1>7 DEF CopyMap, firmware, bootHistory
<1>8. CASE Jump
  BY <1>8 DEF Jump, firmware, mapping, bootHistory
<1>9. CASE UNCHANGED bootVars
  BY <1>9 DEF bootVars, firmware, mapping, bootHistory
<1>. QED
  BY <1>1, <1>2, <1>3, <1>4, <1>5, <1>6, <1>7, <1>8, <1>9 DEF BootNext

\* Without a read error the whole kernel is jumped to, in whatever pieces it
\* was read; and it finds the memory map as it is, its services left, where
\* there was a buffer, the map did not outgrow its slack and did not change
\* after it was got (bootloader.cpp lines 62-114).
THEOREM HandedOver == ASSUME BootAssumption PROVE BootSpec => []HandsOver
<1>1. BootInit => BootInv
  BY BootStarts
<1>2. BootInv /\ [BootNext]_bootVars => BootInv'
  BY ImageKept, MapKept DEF BootInv
<1>3. BootInv => HandsOver
  BY DEF BootInv, ImageOK, MapOK, Loaded, HandsOver, KernelWhole
<1>. QED
  BY <1>1, <1>2, <1>3, PTL DEF BootSpec

-----------------------------------------------------------------------------
(* Console.                                                                *)

\* Induction over the first numbers, for a set of them.
LEMMA UpTo ==
  ASSUME NEW n \in Nat, NEW T, 0 \in T, \A k \in 0 .. n - 1 : k \in T => k + 1 \in T
  PROVE  \A k \in 0 .. n : k \in T
<1> DEFINE bad == {k \in 0 .. n : k \notin T}
<1>1. SUFFICES ASSUME bad # {} PROVE FALSE
  OBVIOUS
<1>2. PICK x \in bad : \A y \in bad : ~(<<y, x>> \in OpToRel(<, Nat))
  <2>1. bad \subseteq Nat
    OBVIOUS
  <2>. QED
    BY <1>1, <2>1, NatLessThanWellFounded, WFMin
<1>3. x \in 0 .. n /\ x \notin T /\ x # 0
  BY <1>2
<1>4. x - 1 \in 0 .. n - 1 /\ x - 1 \in Nat /\ x \in Nat /\ x - 1 < x /\ (x - 1) + 1 = x
  BY <1>3
<1>5. x - 1 \notin T
  BY <1>3, <1>4
<1>6. x - 1 \in bad /\ <<x - 1, x>> \in OpToRel(<, Nat)
  BY <1>4, <1>5 DEF OpToRel
<1>. QED
  BY <1>2, <1>6

-----------------------------------------------------------------------------
(* Places.                                                                 *)

Chars == Glyphs \cup {"\n"}

\* What Places says of the function it chooses.
PlaceBy(str, b, f) ==
  f = [k \in 0 .. Len(str) |-> IF k = 0 THEN <<0, 0>> ELSE NextPlace(f[k - 1], str[k], b)]

LEMMA PlacesChosen == ASSUME NEW str, NEW b PROVE Places(str, b) = CHOOSE f : PlaceBy(str, b, f)
BY Zenon DEF Places, PlaceBy

LEMMA PlacesAre ==
  ASSUME NEW str, NEW b, Len(str) \in Nat
  PROVE  PlaceBy(str, b, Places(str, b))
<1> DEFINE n == Len(str)
           Upto(m, f) ==
             f = [k \in 0 .. m |-> IF k = 0 THEN <<0, 0>> ELSE NextPlace(f[k - 1], str[k], b)]
           T == {m \in 0 .. n : \E f : Upto(m, f)}
<1>1. 0 \in T
  <2> DEFINE g == [k \in 0 .. 0 |-> <<0, 0>>]
  <2>1. Upto(0, g) /\ 0 \in 0 .. n
    OBVIOUS
  <2>. HIDE DEF g
  <2>. QED
    BY <2>1
<1>2. ASSUME NEW m \in 0 .. n - 1, m \in T PROVE m + 1 \in T
  <2>1. PICK f : Upto(m, f)
    BY <1>2
  <2> DEFINE g == [k \in 0 .. m + 1 |-> IF k = m + 1 THEN NextPlace(f[m], str[m + 1], b) ELSE f[k]]
  <2>2. Upto(m + 1, g)
    <3>1. ASSUME NEW k \in 0 .. m + 1
          PROVE  g[k] = IF k = 0 THEN <<0, 0>> ELSE NextPlace(g[k - 1], str[k], b)
      <4>1. CASE k = m + 1
        <5>1. g[k] = NextPlace(f[m], str[m + 1], b) /\ k # 0
          BY <4>1
        <5>2. g[k - 1] = f[m]
          BY <4>1
        <5>. QED
          BY <4>1, <5>1, <5>2
      <4>2. CASE k # m + 1
        <5>1. k \in 0 .. m /\ g[k] = f[k]
          BY <4>2
        <5>2. k # 0 => g[k - 1] = f[k - 1]
          BY <4>2
        <5>. HIDE DEF g
        <5>. QED
          BY <2>1, <5>1, <5>2
      <4>. QED
        BY <4>1, <4>2
    <3>. QED
      BY <3>1
  <2>3. m + 1 \in 0 .. n
    OBVIOUS
  <2>. QED
    BY <2>2, <2>3
<1>3. n \in T
  <2>1. n \in Nat /\ n \in 0 .. n
    OBVIOUS
  <2>. HIDE DEF T, n
  <2>2. \A k \in 0 .. n : k \in T
    BY <1>1, <1>2, <2>1, UpTo
  <2>. QED
    BY <2>1, <2>2
<1>4. \E f : PlaceBy(str, b, f)
  BY <1>3 DEF PlaceBy
<1>. QED
  BY <1>4, PlacesChosen

\* The text begins at the top left; each place follows from the one before.
LEMMA PlacesStep ==
  ASSUME NEW str \in Seq(Chars), NEW b
  PROVE  /\ Len(str) \in Nat
         /\ Places(str, b)[0] = <<0, 0>>
         /\ \A k \in 1 .. Len(str) : Places(str, b)[k] = NextPlace(Places(str, b)[k - 1], str[k], b)
<1>1. Len(str) \in Nat
  OBVIOUS
<1> DEFINE p == Places(str, b)
<1>2. p = [k \in 0 .. Len(str) |-> IF k = 0 THEN <<0, 0>> ELSE NextPlace(p[k - 1], str[k], b)]
  BY <1>1, PlacesAre DEF PlaceBy
<1>. HIDE DEF p
<1>3. p[0] = <<0, 0>>
  BY <1>1, <1>2
<1>4. ASSUME NEW k \in 1 .. Len(str) PROVE p[k] = NextPlace(p[k - 1], str[k], b)
  <2>1. k \in 0 .. Len(str) /\ k # 0
    BY <1>1
  <2>. QED
    BY <1>2, <2>1, Zenon
<1>. QED
  BY <1>1, <1>3, <1>4 DEF p

Cell(b) == Nat \X (0 .. Columns[b] - 1)

LEMMA NextPlaceIn ==
  ASSUME ConsoleAssumption, NEW b \in Surfaces, NEW q \in Cell(b), NEW c
  PROVE  NextPlace(q, c, b) \in Cell(b)
<1>1. Columns[b] \in Nat /\ Columns[b] > 0
  BY DEF ConsoleAssumption
<1>2. PICK y \in Nat, x \in 0 .. Columns[b] - 1 : q = <<y, x>>
  BY DEF Cell
<1>. QED
  BY <1>1, <1>2 DEF NextPlace, Cell

LEMMA PlacesIn ==
  ASSUME ConsoleAssumption, NEW b \in Surfaces, NEW str \in Seq(Chars)
  PROVE  \A k \in 0 .. Len(str) : Places(str, b)[k] \in Cell(b)
<1> DEFINE p == Places(str, b)
           T == {k \in 0 .. Len(str) : p[k] \in Cell(b)}
<1>0. Len(str) \in Nat /\ p[0] = <<0, 0>> /\ \A k \in 1 .. Len(str) : p[k] = NextPlace(p[k - 1], str[k], b)
  BY PlacesStep
<1>. HIDE DEF p
<1>1. 0 \in T
  <2>1. Columns[b] \in Nat /\ Columns[b] > 0
    BY DEF ConsoleAssumption
  <2>2. <<0, 0>> \in Cell(b) /\ 0 \in 0 .. Len(str)
    BY <1>0, <2>1 DEF Cell
  <2>. QED
    BY <1>0, <2>2
<1>2. ASSUME NEW k \in 0 .. Len(str) - 1, k \in T PROVE k + 1 \in T
  <2>1. k + 1 \in 1 .. Len(str) /\ (k + 1) - 1 = k /\ p[k] \in Cell(b)
    BY <1>0, <1>2
  <2>2. p[k + 1] = NextPlace(p[k], str[k + 1], b)
    BY <1>0, <2>1
  <2>. QED
    BY <2>1, <2>2, NextPlaceIn
<1>3. \A k \in 0 .. Len(str) : k \in T
  <2>. HIDE DEF T
  <2>. QED
    BY <1>0, <1>1, <1>2, UpTo
<1>. QED
  BY <1>3 DEF p

\* Places follow one another in reading order.
Before(p, q) == p[1] < q[1] \/ (p[1] = q[1] /\ p[2] < q[2])

LEMMA PlacesGrow ==
  ASSUME ConsoleAssumption, NEW b \in Surfaces, NEW str \in Seq(Chars),
         NEW i \in 0 .. Len(str), NEW j \in 0 .. Len(str), i < j
  PROVE  Before(Places(str, b)[i], Places(str, b)[j])
<1> DEFINE p == Places(str, b)
           T == {d \in 0 .. Len(str) : i + d < Len(str) => Before(p[i], p[i + d + 1])}
<1>0. /\ Len(str) \in Nat /\ \A k \in 1 .. Len(str) : p[k] = NextPlace(p[k - 1], str[k], b)
      /\ \A k \in 0 .. Len(str) : p[k] \in Cell(b)
  BY PlacesStep, PlacesIn
<1>. HIDE DEF p
<1>1. ASSUME NEW k \in 0 .. Len(str) - 1 PROVE Before(p[k], p[k + 1])
  <2>1. p[k] \in Cell(b) /\ p[k + 1] = NextPlace(p[k], str[k + 1], b)
    BY <1>0
  <2>2. PICK y \in Nat, x \in Nat : p[k] = <<y, x>>
    BY <2>1 DEF Cell
  <2>. QED
    BY <2>1, <2>2 DEF NextPlace, Before
<1>2. 0 \in T
  BY <1>0, <1>1
<1>3. ASSUME NEW d \in 0 .. Len(str) - 1, d \in T PROVE d + 1 \in T
  <2>. SUFFICES ASSUME i + (d + 1) < Len(str) PROVE Before(p[i], p[i + (d + 1) + 1])
    BY <1>0
  <2>1. Before(p[i], p[i + d + 1])
    BY <1>0, <1>3
  <2>2. i + d + 1 \in 0 .. Len(str) - 1 /\ i + (d + 1) + 1 = (i + d + 1) + 1
    BY <1>0
  <2>3. Before(p[i + d + 1], p[i + (d + 1) + 1])
    BY <1>1, <2>2
  <2>4. p[i] \in Cell(b) /\ p[i + d + 1] \in Cell(b) /\ p[i + (d + 1) + 1] \in Cell(b)
    BY <1>0, <2>2
  <2>5. \A q1, q2, q3 \in Cell(b) : Before(q1, q2) /\ Before(q2, q3) => Before(q1, q3)
    <3>1. \A q \in Cell(b) : q[1] \in Nat /\ q[2] \in Int
      BY DEF Cell
    <3>. QED
      BY <3>1 DEF Before
  <2>. QED
    BY <2>1, <2>3, <2>4, <2>5
<1>4. \A d \in 0 .. Len(str) : d \in T
  <2>. HIDE DEF T
  <2>. QED
    BY <1>0, <1>2, <1>3, UpTo
<1>5. j - i - 1 \in 0 .. Len(str) /\ i + (j - i - 1) < Len(str) /\ i + (j - i - 1) + 1 = j
  BY <1>0
<1>6. Before(p[i], p[i + (j - i - 1) + 1])
  <2>1. j - i - 1 \in T
    BY <1>4, <1>5
  <2>. QED
    BY <1>5, <2>1
<1>. QED
  BY <1>5, <1>6 DEF p

\* What comes later does not move what came before.
LEMMA PlacesPrefix ==
  ASSUME NEW b, NEW str \in Seq(Chars), NEW t \in Seq(Chars),
         Len(t) <= Len(str), \A k \in 1 .. Len(t) : t[k] = str[k]
  PROVE  \A k \in 0 .. Len(t) : Places(t, b)[k] = Places(str, b)[k]
<1> DEFINE p == Places(str, b)
           q == Places(t, b)
           T == {k \in 0 .. Len(t) : q[k] = p[k]}
<1>0. /\ Len(str) \in Nat /\ p[0] = <<0, 0>>
      /\ \A k \in 1 .. Len(str) : p[k] = NextPlace(p[k - 1], str[k], b)
      /\ Len(t) \in Nat /\ q[0] = <<0, 0>>
      /\ \A k \in 1 .. Len(t) : q[k] = NextPlace(q[k - 1], t[k], b)
  BY PlacesStep
<1>. HIDE DEF p, q
<1>1. 0 \in T
  <2>1. 0 \in 0 .. Len(t)
    BY <1>0
  <2>. QED
    BY <1>0, <2>1
<1>2. ASSUME NEW k \in 0 .. Len(t) - 1, k \in T PROVE k + 1 \in T
  <2>1. /\ k + 1 \in 1 .. Len(t) /\ k + 1 \in 1 .. Len(str) /\ (k + 1) - 1 = k
        /\ k + 1 \in 0 .. Len(t)
    BY <1>0
  <2>2. p[k + 1] = NextPlace(p[k], str[k + 1], b) /\ q[k + 1] = NextPlace(q[k], t[k + 1], b)
    BY <1>0, <2>1
  <2>. QED
    BY <1>2, <2>1, <2>2
<1>3. \A k \in 0 .. Len(t) : k \in T
  <2>. HIDE DEF T
  <2>. QED
    BY <1>0, <1>1, <1>2, UpTo
<1>. QED
  BY <1>3 DEF p, q

-----------------------------------------------------------------------------
(* Layouts.                                                                *)

\* The characters of a text that go to one place.
Going(str, b, q) == {k \in 1 .. Len(str) : str[k] # "\n" /\ Places(str, b)[k - 1] = q}

CellOf(str, b, q) ==
  IF Going(str, b, q) = {} THEN Blank ELSE str[CHOOSE k \in Going(str, b, q) : TRUE]

LEMMA LayoutIs ==
  ASSUME NEW str, NEW b, NEW gone
  PROVE  Layout(str, b, gone) =
           [r \in 1 .. Rows[b] |-> [c \in 1 .. Columns[b] |-> CellOf(str, b, <<gone + r - 1, c - 1>>)]]
BY DEF Layout, CellOf, Going

\* Nothing went to where a text ends, nor beyond.
LEMMA Unused ==
  ASSUME ConsoleAssumption, NEW b \in Surfaces, NEW str \in Seq(Chars), NEW q \in Cell(b),
         ~Before(q, Places(str, b)[Len(str)])
  PROVE  Going(str, b, q) = {} /\ CellOf(str, b, q) = Blank
<1> DEFINE p == Places(str, b)
<1>1. Len(str) \in Nat /\ \A k \in 0 .. Len(str) : p[k] \in Cell(b)
  BY PlacesStep, PlacesIn
<1>2. ASSUME NEW k \in 1 .. Len(str) PROVE p[k - 1] # q
  <2>1. k - 1 \in 0 .. Len(str) /\ Len(str) \in 0 .. Len(str) /\ k - 1 < Len(str)
    BY <1>1
  <2>. QED
    BY <2>1, PlacesGrow
<1>3. Going(str, b, q) = {}
  BY <1>2 DEF Going
<1>. QED
  BY <1>3 DEF CellOf

\* A character more goes to where the text ended and leaves the rest.
LEMMA CellAppend ==
  ASSUME ConsoleAssumption, NEW b \in Surfaces, NEW str \in Seq(Chars), NEW c \in Chars, NEW q
  PROVE  CellOf(Append(str, c), b, q) =
           IF c # "\n" /\ q = Places(str, b)[Len(str)] THEN c ELSE CellOf(str, b, q)
<1> DEFINE n == Len(str)
           t == Append(str, c)
<1>1. n \in Nat /\ t \in Seq(Chars) /\ Len(t) = n + 1 /\ t[n + 1] = c
      /\ \A k \in 1 .. n : t[k] = str[k]
  OBVIOUS
<1>2. \A k \in 0 .. n : Places(str, b)[k] = Places(t, b)[k]
  <2>1. Len(str) <= Len(t) /\ \A k \in 1 .. Len(str) : str[k] = t[k]
    BY <1>1
  <2>. HIDE DEF t
  <2>. QED
    BY <1>1, <2>1, PlacesPrefix
<1>. HIDE DEF t, n
<1>3. Going(t, b, q) = Going(str, b, q) \cup
        (IF c # "\n" /\ q = Places(str, b)[n] THEN {n + 1} ELSE {})
  <2>1. ASSUME NEW k \in 1 .. n PROVE k \in Going(t, b, q) <=> k \in Going(str, b, q)
    <3>1. k \in 1 .. n + 1 /\ t[k] = str[k] /\ k - 1 \in 0 .. n
      BY <1>1
    <3>. QED
      BY <1>1, <1>2, <3>1 DEF Going, n
  <2>2. n + 1 \in Going(t, b, q) <=> (c # "\n" /\ q = Places(str, b)[n])
    <3>1. n + 1 \in 1 .. n + 1 /\ (n + 1) - 1 = n /\ n \in 0 .. n
      BY <1>1
    <3>. QED
      BY <1>1, <1>2, <3>1 DEF Going
  <2>3. Going(t, b, q) \subseteq 1 .. n + 1 /\ Going(str, b, q) \subseteq 1 .. n
    BY <1>1 DEF Going, n
  <2>4. \A k \in 1 .. n + 1 : k \in 1 .. n \/ k = n + 1
    BY <1>1
  <2>5. \A k \in 1 .. n : k # n + 1
    BY <1>1
  <2>. QED
    BY <2>1, <2>2, <2>3, <2>4, <2>5
<1>4. CASE c # "\n" /\ q = Places(str, b)[n]
  <2>1. n \in 0 .. n /\ q \in Cell(b)
    BY <1>1, <1>4, PlacesIn DEF n
  <2>2. Going(str, b, q) = {}
    <3>1. ~Before(q, q)
      BY <2>1 DEF Before, Cell
    <3>. QED
      BY <1>4, <2>1, <3>1, Unused DEF n
  <2>3. Going(t, b, q) = {n + 1}
    BY <1>3, <1>4, <2>2
  <2>4. (CHOOSE k \in Going(t, b, q) : TRUE) = n + 1
    BY <2>3
  <2>. QED
    BY <1>1, <1>4, <2>3, <2>4 DEF CellOf, t, n
<1>5. CASE ~(c # "\n" /\ q = Places(str, b)[n])
  <2>1. Going(t, b, q) = Going(str, b, q)
    BY <1>3, <1>5
  <2>2. CASE Going(str, b, q) = {}
    BY <1>5, <2>1, <2>2 DEF CellOf, t, n
  <2>3. CASE Going(str, b, q) # {}
    <3> DEFINE k == CHOOSE j \in Going(str, b, q) : TRUE
    <3>1. k \in Going(str, b, q)
      BY <2>3
    <3>2. k \in 1 .. n
      BY <3>1 DEF Going, n
    <3>3. CellOf(t, b, q) = t[k] /\ CellOf(str, b, q) = str[k]
      BY <2>1, <2>3 DEF CellOf
    <3>. HIDE DEF k
    <3>4. CellOf(t, b, q) = CellOf(str, b, q)
      BY <1>1, <3>2, <3>3
    <3>. QED
      BY <1>5, <3>4 DEF t, n
  <2>. QED
    BY <2>2, <2>3
<1>. QED
  BY <1>4, <1>5

\* The cells of a layout hold characters.
Cells == Glyphs \cup {Blank}

LEMMA CellTyped ==
  ASSUME NEW b, NEW str \in Seq(Chars), NEW q
  PROVE  CellOf(str, b, q) \in Cells
<1>1. CASE Going(str, b, q) = {}
  BY <1>1 DEF CellOf, Cells
<1>2. CASE Going(str, b, q) # {}
  <2>1. PICK k : k \in Going(str, b, q) /\ CellOf(str, b, q) = str[k]
    BY <1>2 DEF CellOf
  <2>2. k \in 1 .. Len(str) /\ str[k] # "\n"
    BY <2>1 DEF Going
  <2>3. str[k] \in Chars
    BY <2>2
  <2>. QED
    BY <2>1, <2>2, <2>3 DEF Cells, Chars
<1>. QED
  BY <1>1, <1>2

-----------------------------------------------------------------------------
(* The console.                                                            *)

Page(b) == [1 .. Rows[b] -> [1 .. Columns[b] -> Cells]]

AllPages == {pg \in [Surfaces -> UNION {Page(b) : b \in Surfaces}] : \A b \in Surfaces : pg[b] \in Page(b)}

\* The console on b, the cursor on a cell of it.
On(b) == [at : [ptr : {b}, x : 0 .. Columns[b] - 1, y : 0 .. Rows[b] - 1], to : {b}, pages : AllPages]

\* What the pages are before they scroll.
Written(s, c) == IF c = "\n" THEN s.pages
                 ELSE [s.pages EXCEPT ![s.to][s.at.y + 1][s.at.x + 1] = c]

LEMMA SizeIs ==
  ASSUME ConsoleAssumption, NEW b \in Surfaces
  PROVE  /\ Columns[b] \in Nat /\ Columns[b] > 0 /\ Rows[b] \in Nat /\ Rows[b] > 0
         /\ NoGlyph # "\n" /\ NoGlyph \notin Glyphs /\ "\n" \notin Glyphs
BY DEF ConsoleAssumption

LEMMA OnIs ==
  ASSUME NEW b, NEW s \in On(b)
  PROVE  /\ s.at.ptr = b /\ s.to = b /\ s.pages \in AllPages
         /\ s.at.x \in 0 .. Columns[b] - 1 /\ s.at.y \in 0 .. Rows[b] - 1
         /\ s = [at |-> [ptr |-> b, x |-> s.at.x, y |-> s.at.y], to |-> b, pages |-> s.pages]
BY DEF On

Drawn(pg, b, y, x, c) == [pg EXCEPT ![b][y][x] = c]

\* Drawing in a cell changes that cell.
LEMMA DrawnIs ==
  ASSUME NEW b \in Surfaces, NEW pg \in AllPages, NEW y \in 1 .. Rows[b], NEW x \in 1 .. Columns[b],
         NEW c \in Cells
  PROVE  /\ Drawn(pg, b, y, x, c) \in AllPages
         /\ \A q \in Surfaces : q # b => Drawn(pg, b, y, x, c)[q] = pg[q]
         /\ \A row \in 1 .. Rows[b], col \in 1 .. Columns[b] :
              Drawn(pg, b, y, x, c)[b][row][col] = IF row = y /\ col = x THEN c ELSE pg[b][row][col]
<1> DEFINE line == [pg[b][y] EXCEPT ![x] = c]
           page == [pg[b] EXCEPT ![y] = line]
           w == Drawn(pg, b, y, x, c)
<1>1. pg[b] \in Page(b) /\ pg[b][y] \in [1 .. Columns[b] -> Cells]
  BY DEF AllPages, Page
<1>2. line \in [1 .. Columns[b] -> Cells]
      /\ \A col \in 1 .. Columns[b] : line[col] = IF col = x THEN c ELSE pg[b][y][col]
  BY <1>1
<1>. HIDE DEF line
<1>3. page \in Page(b) /\ \A row \in 1 .. Rows[b] : page[row] = IF row = y THEN line ELSE pg[b][row]
  BY <1>1, <1>2 DEF Page
<1>. HIDE DEF page
<1>4. w = [pg EXCEPT ![b] = page]
  BY DEF page, line, Drawn
<1>5. w \in AllPages /\ w[b] = page /\ \A q \in Surfaces : q # b => w[q] = pg[q]
  BY <1>3, <1>4 DEF AllPages
<1>. HIDE DEF w
<1>6. ASSUME NEW row \in 1 .. Rows[b], NEW col \in 1 .. Columns[b]
      PROVE  w[b][row][col] = IF row = y /\ col = x THEN c ELSE pg[b][row][col]
  BY <1>2, <1>3, <1>5
<1>. QED
  BY <1>5, <1>6 DEF w

LEMMA WrittenIs ==
  ASSUME ConsoleAssumption, NEW b \in Surfaces, NEW s \in On(b), NEW c \in Chars
  PROVE  /\ Written(s, c) \in AllPages
         /\ \A q \in Surfaces : q # b => Written(s, c)[q] = s.pages[q]
         /\ \A row \in 1 .. Rows[b], col \in 1 .. Columns[b] :
              Written(s, c)[b][row][col] =
                IF c # "\n" /\ row = s.at.y + 1 /\ col = s.at.x + 1 THEN c ELSE s.pages[b][row][col]
<1>1. /\ s.pages \in AllPages /\ s.to = b
      /\ s.at.y + 1 \in 1 .. Rows[b] /\ s.at.x + 1 \in 1 .. Columns[b]
  BY OnIs, SizeIs
<1>2. CASE c = "\n"
  BY <1>1, <1>2 DEF Written
<1>3. CASE c # "\n"
  <2>1. c \in Cells
    BY <1>3 DEF Chars, Cells
  <2>2. Written(s, c) = Drawn(s.pages, b, s.at.y + 1, s.at.x + 1, c)
    BY <1>1, <1>3 DEF Written, Drawn
  <2> DEFINE y == s.at.y + 1
             x == s.at.x + 1
             w == Drawn(s.pages, b, y, x, c)
  <2>3. s.pages \in AllPages /\ y \in 1 .. Rows[b] /\ x \in 1 .. Columns[b]
    BY <1>1
  <2>. HIDE DEF x, y
  <2>4. /\ w \in AllPages
        /\ \A q \in Surfaces : q # b => w[q] = s.pages[q]
        /\ \A row \in 1 .. Rows[b], col \in 1 .. Columns[b] :
             w[b][row][col] = IF row = y /\ col = x THEN c ELSE s.pages[b][row][col]
    BY <2>1, <2>3, DrawnIs
  <2>. HIDE DEF w
  <2>5. Written(s, c) = w
    BY <2>2 DEF w, x, y
  <2>. QED
    BY <1>3, <2>4, <2>5 DEF x, y
<1>. QED
  BY <1>2, <1>3

\* What the functions of the console make of its state.
LEMMA NewLineIs ==
  ASSUME NEW b, NEW x, NEW y, NEW pg, NEW s,
         s = [at |-> [ptr |-> b, x |-> x, y |-> y], to |-> b, pages |-> pg]
  PROVE  NewLine(s) = [at |-> [ptr |-> b, x |-> 0, y |-> y + 1], to |-> b, pages |-> pg]
<1> DEFINE u == [s EXCEPT !.at.x = 0]
<1>1. u = [at |-> [ptr |-> b, x |-> 0, y |-> y], to |-> b, pages |-> pg]
  OBVIOUS
<1>2. NewLine(s) = [u EXCEPT !.at.y = y + 1]
  BY <1>1 DEF NewLine
<1>. HIDE DEF u
<1>3. [u EXCEPT !.at.y = y + 1] = [at |-> [ptr |-> b, x |-> 0, y |-> y + 1], to |-> b, pages |-> pg]
  BY <1>1
<1>. QED
  BY <1>2, <1>3

LEMMA PutIs ==
  ASSUME NEW b, NEW x, NEW y, NEW pg, NEW s, NEW c, c # NoGlyph,
         s = [at |-> [ptr |-> b, x |-> x, y |-> y], to |-> b, pages |-> pg],
         b \in Surfaces, y < Rows[b], x < Columns[b], c # "\n"
  PROVE  ssfn_putc(s, c) = [at |-> [ptr |-> b, x |-> x + 1, y |-> y], to |-> b, pages |-> Written(s, c)]
<1> DEFINE u == [s EXCEPT !.at.x = @ + 1]
<1>1. u = [at |-> [ptr |-> b, x |-> x + 1, y |-> y], to |-> b, pages |-> pg]
  OBVIOUS
<1>2. s.to \in Surfaces /\ s.at.y < Rows[s.to] /\ s.at.x < Columns[s.to]
  OBVIOUS
<1>. HIDE DEF u
<1>3. ssfn_putc(s, c) = [u EXCEPT !.pages = Written(s, c)]
  BY <1>2 DEF u, ssfn_putc, Written
<1>. QED
  BY <1>1, <1>3

\* One row up, the last one blank.
Up(pg, b) == [pg EXCEPT ![b] = [r \in 1 .. Rows[b] |-> IF r < Rows[b] THEN @[r + 1] ELSE Empty(b)[r]]]

LEMMA ScrollIs ==
  ASSUME NEW b, NEW x, NEW y, NEW pg, NEW s, Rows[b] \in Nat,
         s = [at |-> [ptr |-> b, x |-> x, y |-> y], to |-> b, pages |-> pg]
  PROVE  console_scroll(s) = [at |-> [ptr |-> b, x |-> 0, y |-> Rows[b] - 1], to |-> b,
                              pages |-> Up(pg, b)]
<1> DEFINE u == [s EXCEPT !.at.x = 0]
           v == [u EXCEPT !.at.y = Rows[b] - 1]
           w == [r \in 1 .. Rows[b] |-> IF r < Rows[b] THEN pg[b][r + 1] ELSE Empty(b)[r]]
<1>1. u = [at |-> [ptr |-> b, x |-> 0, y |-> y], to |-> b, pages |-> pg]
  OBVIOUS
<1>. HIDE DEF u
<1>2. v = [at |-> [ptr |-> b, x |-> 0, y |-> Rows[b] - 1], to |-> b, pages |-> pg]
  BY <1>1
<1>. HIDE DEF v
<1>3. console_scroll(s) = [v EXCEPT !.pages[b] = w]
  BY DEF console_scroll, RowCount, u, v
<1>. HIDE DEF w
<1>4. [v EXCEPT !.pages[b] = w] = [v EXCEPT !.pages = [pg EXCEPT ![b] = w]]
  BY <1>2
<1>5. Up(pg, b) = [pg EXCEPT ![b] = w]
  BY DEF Up, w
<1>. HIDE DEF Up
<1>. QED
  BY <1>2, <1>3, <1>4, <1>5

LEMMA PutcIs ==
  ASSUME ConsoleAssumption, NEW b \in Surfaces, NEW s \in On(b), NEW c \in Chars,
         NEW q, q = NextPlace(<<s.at.y, s.at.x>>, c, b)
  PROVE  /\ q[1] < Rows[b] => console_putc(s, c) =
              [at |-> [ptr |-> b, x |-> q[2], y |-> q[1]], to |-> b, pages |-> Written(s, c)]
         /\ q[1] >= Rows[b] => /\ q = <<Rows[b], 0>>
              /\ console_putc(s, c) = [at |-> [ptr |-> b, x |-> 0, y |-> Rows[b] - 1], to |-> b,
                                       pages |-> Up(Written(s, c), b)]
<1> DEFINE y == s.at.y
           x == s.at.x
           t == IF c = "\n" THEN NewLine(s) ELSE Wrapped(ssfn_putc(s, c))
<1>1. /\ y \in 0 .. Rows[b] - 1 /\ x \in 0 .. Columns[b] - 1
      /\ s = [at |-> [ptr |-> b, x |-> x, y |-> y], to |-> b, pages |-> s.pages]
  BY OnIs
<1>2. /\ Columns[b] \in Nat /\ Columns[b] > 0 /\ Rows[b] \in Nat /\ Rows[b] > 0
  BY SizeIs
<1>3. t = [at |-> [ptr |-> b, x |-> q[2], y |-> q[1]], to |-> b, pages |-> Written(s, c)]
  <2>1. CASE c = "\n"
    <3>1. q = <<y + 1, 0>>
      BY <2>1 DEF NextPlace
    <3>2. t = NewLine(s)
      BY <2>1
    <3>. HIDE DEF x, y, t
    <3>3. t = [at |-> [ptr |-> b, x |-> 0, y |-> y + 1], to |-> b, pages |-> s.pages]
      BY <1>1, <3>2, NewLineIs
    <3>. QED
      BY <2>1, <3>1, <3>3 DEF Written
  <2>2. CASE c # "\n"
    <3>1. c # NoGlyph
      BY <2>2, SizeIs DEF Chars
    <3>2. s.to \in Surfaces /\ s.at.y < Rows[s.to] /\ s.at.x < Columns[s.to]
      BY <1>1, <1>2, OnIs
    <3>3. y < Rows[b] /\ x < Columns[b]
      BY <1>1, <1>2
    <3>. HIDE DEF x, y
    <3>4. ssfn_putc(s, c) = [at |-> [ptr |-> b, x |-> x + 1, y |-> y], to |-> b, pages |-> Written(s, c)]
      BY <1>1, <2>2, <3>1, <3>3, PutIs
    <3>5. q = IF x + 1 = Columns[b] THEN <<y + 1, 0>> ELSE <<y, x + 1>>
      BY <2>2 DEF NextPlace, x, y
    <3>6. CASE x + 1 = Columns[b]
      <4>1. Wrapped(ssfn_putc(s, c)) = NewLine(ssfn_putc(s, c))
        BY <1>2, <3>4, <3>6 DEF Wrapped, RowLength
      <4>2. NewLine(ssfn_putc(s, c)) = [at |-> [ptr |-> b, x |-> 0, y |-> y + 1], to |-> b, pages |-> Written(s, c)]
        BY <3>4, NewLineIs
      <4>. QED
        BY <2>2, <3>5, <3>6, <4>1, <4>2
    <3>7. CASE x + 1 # Columns[b]
      <4>1. Wrapped(ssfn_putc(s, c)) = ssfn_putc(s, c)
        BY <1>1, <1>2, <3>4, <3>7 DEF Wrapped, RowLength
      <4>. QED
        BY <2>2, <3>4, <3>5, <3>7, <4>1
    <3>. QED
      BY <3>6, <3>7
  <2>. QED
    BY <2>1, <2>2
<1>4. q[1] \in 0 .. Rows[b] /\ (q[1] = Rows[b] => q = <<Rows[b], 0>>)
  <2>1. q \in {<<y + 1, 0>>, <<y, x + 1>>}
    BY DEF NextPlace
  <2>. QED
    BY <1>1, <1>2, <2>1
<1>5. console_putc(s, c) = IF PastBottom(t) THEN console_scroll(t) ELSE t
  BY DEF console_putc
<1>. HIDE DEF t
<1>6. PastBottom(t) <=> q[1] >= Rows[b]
  BY <1>2, <1>3, <1>4 DEF PastBottom, RowCount
<1>7. console_scroll(t) = [at |-> [ptr |-> b, x |-> 0, y |-> Rows[b] - 1], to |-> b,
                           pages |-> Up(Written(s, c), b)]
  BY <1>2, <1>3, ScrollIs
<1>. QED
  BY <1>2, <1>3, <1>4, <1>5, <1>6, <1>7

LEMMA UpIs ==
  ASSUME ConsoleAssumption, NEW b \in Surfaces, NEW pg \in AllPages
  PROVE  /\ Up(pg, b) \in AllPages
         /\ \A q \in Surfaces : q # b => Up(pg, b)[q] = pg[q]
         /\ \A row \in 1 .. Rows[b], col \in 1 .. Columns[b] :
              Up(pg, b)[b][row][col] = IF row < Rows[b] THEN pg[b][row + 1][col] ELSE Blank
<1> DEFINE page == [r \in 1 .. Rows[b] |-> IF r < Rows[b] THEN pg[b][r + 1] ELSE Empty(b)[r]]
<1>1. Up(pg, b) = [pg EXCEPT ![b] = page]
  BY DEF Up, AllPages
<1>2. page \in Page(b)
  <2>1. ASSUME NEW r \in 1 .. Rows[b] PROVE page[r] \in [1 .. Columns[b] -> Cells]
    <3>1. CASE r < Rows[b]
      <4>1. r + 1 \in 1 .. Rows[b] /\ pg[b] \in Page(b)
        BY <3>1, SizeIs DEF AllPages
      <4>. QED
        BY <3>1, <4>1 DEF Page
    <3>2. CASE ~(r < Rows[b])
      <4>1. Blank \in Cells
        BY DEF Cells
      <4>. QED
        BY <3>2, <4>1 DEF Empty
    <3>. QED
      BY <3>1, <3>2
  <2>. QED
    BY <2>1 DEF Page
<1>3. ASSUME NEW row \in 1 .. Rows[b], NEW col \in 1 .. Columns[b]
      PROVE  page[row][col] = IF row < Rows[b] THEN pg[b][row + 1][col] ELSE Blank
  BY DEF Empty
<1>. HIDE DEF page
<1>. QED
  BY <1>1, <1>2, <1>3 DEF AllPages

\* A character leaves the cursor on a cell and other surfaces alone.
LEMMA PutcOn ==
  ASSUME ConsoleAssumption, NEW b \in Surfaces, NEW s \in On(b), NEW c \in Chars
  PROVE  /\ console_putc(s, c) \in On(b)
         /\ \A q \in Surfaces : q # b => console_putc(s, c).pages[q] = s.pages[q]
<1> DEFINE q == NextPlace(<<s.at.y, s.at.x>>, c, b)
<1>1. <<s.at.y, s.at.x>> \in Cell(b)
  BY OnIs, SizeIs DEF Cell
<1>2. q \in Cell(b)
  BY <1>1, NextPlaceIn
<1>. HIDE DEF q
<1>3. /\ Columns[b] \in Nat /\ Columns[b] > 0 /\ Rows[b] \in Nat /\ Rows[b] > 0
  BY SizeIs
<1>4. q[1] \in Nat /\ q[2] \in 0 .. Columns[b] - 1
  BY <1>2, <1>3 DEF Cell
<1>5. CASE q[1] < Rows[b]
  <2>1. console_putc(s, c) = [at |-> [ptr |-> b, x |-> q[2], y |-> q[1]], to |-> b, pages |-> Written(s, c)]
    BY <1>5, PutcIs DEF q
  <2>. QED
    BY <1>3, <1>4, <1>5, <2>1, WrittenIs DEF On
<1>6. CASE q[1] >= Rows[b]
  <2>1. console_putc(s, c) = [at |-> [ptr |-> b, x |-> 0, y |-> Rows[b] - 1], to |-> b,
                              pages |-> Up(Written(s, c), b)]
    BY <1>6, PutcIs DEF q
  <2>2. Written(s, c) \in AllPages /\ \A r \in Surfaces : r # b => Written(s, c)[r] = s.pages[r]
    BY WrittenIs
  <2>3. Up(Written(s, c), b) \in AllPages
        /\ \A r \in Surfaces : r # b => Up(Written(s, c), b)[r] = Written(s, c)[r]
    BY <2>2, UpIs
  <2>. QED
    BY <1>3, <2>1, <2>2, <2>3 DEF On
<1>. QED
  BY <1>3, <1>4, <1>5, <1>6

\* The console on b shows a text of which so many rows are gone.
Shows(s, b, str, gone) ==
  /\ s \in On(b) /\ str \in Seq(Chars) /\ gone \in Nat
  /\ s.pages[b] = Layout(str, b, gone)
  /\ <<s.at.y + gone, s.at.x>> = Places(str, b)[Len(str)]

LEMMA PageIs ==
  ASSUME NEW b, NEW str, NEW gone, NEW page \in Page(b),
         \A row \in 1 .. Rows[b], col \in 1 .. Columns[b] :
           page[row][col] = CellOf(str, b, <<gone + row - 1, col - 1>>)
  PROVE  page = Layout(str, b, gone)
<1>1. ASSUME NEW row \in 1 .. Rows[b]
      PROVE  page[row] = [c \in 1 .. Columns[b] |-> CellOf(str, b, <<gone + row - 1, c - 1>>)]
  BY DEF Page
<1>. QED
  BY <1>1, LayoutIs DEF Page

LEMMA PutcShows ==
  ASSUME ConsoleAssumption, NEW b \in Surfaces, NEW c \in Chars, NEW s, NEW str, NEW gone,
         Shows(s, b, str, gone)
  PROVE  Shows(console_putc(s, c), b, Append(str, c), Scrolled(Append(str, c), b, gone))
<1> DEFINE n == Len(str)
           t == Append(str, c)
           y == s.at.y
           x == s.at.x
           q == NextPlace(<<y, x>>, c, b)
<1>1. /\ s \in On(b) /\ str \in Seq(Chars) /\ gone \in Nat /\ s.pages[b] = Layout(str, b, gone)
      /\ Places(str, b)[n] = <<y + gone, x>>
  BY DEF Shows
<1>2. /\ Columns[b] \in Nat /\ Columns[b] > 0 /\ Rows[b] \in Nat /\ Rows[b] > 0
      /\ x \in 0 .. Columns[b] - 1 /\ y \in 0 .. Rows[b] - 1
  BY <1>1, SizeIs, OnIs
<1>3. /\ n \in Nat /\ t \in Seq(Chars) /\ Len(t) = n + 1 /\ t[n + 1] = c
      /\ \A k \in 1 .. n : str[k] = t[k]
  BY <1>1
<1>. HIDE DEF t, n, x, y
<1>4. Places(t, b)[n + 1] = <<q[1] + gone, q[2]>>
  <2>1. Places(t, b)[n + 1] = NextPlace(Places(t, b)[n], c, b)
    <3>1. n + 1 \in 1 .. Len(t) /\ (n + 1) - 1 = n
      BY <1>3
    <3>. QED
      BY <1>3, <3>1, PlacesStep
  <2>2. Places(t, b)[n] = Places(str, b)[n]
    <3>1. n \in 0 .. n /\ Len(str) <= Len(t) /\ \A k \in 1 .. Len(str) : str[k] = t[k]
      BY <1>3 DEF n
    <3>. QED
      BY <1>1, <1>3, <3>1, PlacesPrefix DEF n
  <2>. QED
    BY <1>1, <1>2, <2>1, <2>2 DEF NextPlace
<1>5. ASSUME NEW row \in 1 .. Rows[b], NEW col \in 1 .. Columns[b]
      PROVE  Written(s, c)[b][row][col] = CellOf(t, b, <<gone + row - 1, col - 1>>)
  <2> DEFINE at == <<gone + row - 1, col - 1>>
  <2>1. s.pages[b][row][col] = CellOf(str, b, at)
    <3>1. s.pages[b] = [r \in 1 .. Rows[b] |->
             [l \in 1 .. Columns[b] |-> CellOf(str, b, <<gone + r - 1, l - 1>>)]]
      BY <1>1, LayoutIs
    <3>. QED
      BY <3>1
  <2>2. CellOf(t, b, at) = IF c # "\n" /\ at = <<y + gone, x>> THEN c ELSE CellOf(str, b, at)
    <3>1. str \in Seq(Chars)
      BY <1>1
    <3>. HIDE DEF at
    <3>2. CellOf(t, b, at) = IF c # "\n" /\ at = Places(str, b)[n] THEN c ELSE CellOf(str, b, at)
      BY <3>1, CellAppend DEF t, n
    <3>3. Places(str, b)[n] = <<y + gone, x>>
      BY <1>1
    <3>. QED
      BY <3>2, <3>3, Zenon
  <2>3. at = <<y + gone, x>> <=> (row = y + 1 /\ col = x + 1)
    BY <1>1, <1>2
  <2>4. Written(s, c)[b][row][col] =
          IF c # "\n" /\ row = y + 1 /\ col = x + 1 THEN c ELSE s.pages[b][row][col]
    BY <1>1, WrittenIs DEF x, y
  <2>. HIDE DEF at
  <2>5. Written(s, c)[b][row][col] = CellOf(t, b, at)
    BY <2>1, <2>2, <2>3, <2>4
  <2>. QED
    BY <2>5 DEF at
<1>6. Written(s, c) \in AllPages /\ Written(s, c)[b] \in Page(b)
  BY <1>1, WrittenIs DEF AllPages
<1>7. console_putc(s, c) \in On(b)
  BY <1>1, PutcOn
<1>8. q \in Cell(b)
  <2>1. <<y, x>> \in Cell(b)
    BY <1>2 DEF Cell
  <2>. QED
    BY <2>1, NextPlaceIn
<1>9. Scrolled(t, b, gone) = Greater(gone, q[1] + gone + 1 - Rows[b])
  BY <1>3, <1>4 DEF Scrolled
<1>. HIDE DEF q
<1>10. q[1] \in Nat /\ q[2] \in 0 .. Columns[b] - 1
  BY <1>2, <1>8 DEF Cell
<1>11. CASE q[1] < Rows[b]
  <2>1. console_putc(s, c) = [at |-> [ptr |-> b, x |-> q[2], y |-> q[1]], to |-> b, pages |-> Written(s, c)]
    BY <1>1, <1>11, PutcIs DEF q, x, y
  <2>2. Scrolled(t, b, gone) = gone
    <3>1. q[1] \in Nat /\ Rows[b] \in Nat /\ q[1] + 1 <= Rows[b]
      BY <1>2, <1>10, <1>11
    <3>2. \A i, j, k \in Nat : i + 1 <= j => IF k > i + k + 1 - j THEN TRUE ELSE k = i + k + 1 - j
      OBVIOUS
    <3>3. gone \in Nat
      BY <1>1
    <3>4. IF gone > q[1] + gone + 1 - Rows[b] THEN TRUE ELSE gone = q[1] + gone + 1 - Rows[b]
      BY <3>1, <3>2, <3>3
    <3>. QED
      BY <1>9, <3>4, Zenon DEF Greater
  <2>3. Written(s, c)[b] = Layout(t, b, gone)
    BY <1>5, <1>6, PageIs
  <2>4. /\ console_putc(s, c).at.y = q[1] /\ console_putc(s, c).at.x = q[2]
        /\ console_putc(s, c).pages[b] = Layout(t, b, gone)
    BY <2>1, <2>3
  <2>5. <<q[1] + gone, q[2]>> = Places(t, b)[Len(t)]
    BY <1>3, <1>4
  <2>6. Shows(console_putc(s, c), b, t, gone)
    BY <1>1, <1>3, <1>7, <2>4, <2>5 DEF Shows
  <2>. QED
    BY <2>2, <2>6 DEF t
<1>12. CASE q[1] >= Rows[b]
  <2>1. /\ q = <<Rows[b], 0>>
        /\ console_putc(s, c) = [at |-> [ptr |-> b, x |-> 0, y |-> Rows[b] - 1], to |-> b,
                                 pages |-> Up(Written(s, c), b)]
    BY <1>1, <1>12, PutcIs DEF q, x, y
  <2>2. Scrolled(t, b, gone) = gone + 1
    BY <1>1, <1>2, <1>9, <2>1 DEF Greater
  <2>3. Up(Written(s, c), b) \in AllPages /\ Up(Written(s, c), b)[b] \in Page(b)
    BY <1>6, UpIs DEF AllPages
  <2>4. ASSUME NEW row \in 1 .. Rows[b], NEW col \in 1 .. Columns[b]
        PROVE  Up(Written(s, c), b)[b][row][col] = CellOf(t, b, <<gone + 1 + row - 1, col - 1>>)
    <3>1. Up(Written(s, c), b)[b][row][col] = IF row < Rows[b] THEN Written(s, c)[b][row + 1][col] ELSE Blank
      BY <1>6, UpIs
    <3>2. CASE row < Rows[b]
      <4>1. row + 1 \in 1 .. Rows[b] /\ gone + (row + 1) - 1 = gone + 1 + row - 1
        <5>1. gone \in Nat
          BY <1>1
        <5>2. row \in Nat /\ row + 1 \in 1 .. Rows[b]
          BY <1>2, <3>2
        <5>. QED
          BY <5>1, <5>2
      <4>2. Written(s, c)[b][row + 1][col] = CellOf(t, b, <<gone + (row + 1) - 1, col - 1>>)
        BY <1>5, <4>1
      <4>. QED
        BY <3>1, <3>2, <4>1, <4>2
    <3>3. CASE ~(row < Rows[b])
      <4> DEFINE at == <<gone + 1 + row - 1, col - 1>>
      <4>1. at \in Cell(b) /\ row = Rows[b]
        <5>1. gone + 1 + row - 1 \in Nat /\ col - 1 \in 0 .. Columns[b] - 1 /\ row = Rows[b]
          <6>1. gone \in Nat
            BY <1>1
          <6>2. row \in Nat /\ row = Rows[b] /\ col - 1 \in 0 .. Columns[b] - 1
            BY <1>2, <3>3
          <6>. QED
            BY <6>1, <6>2
        <5>. QED
          BY <5>1 DEF Cell
      <4>2. Places(t, b)[Len(t)] = <<Rows[b] + gone, 0>>
        BY <1>3, <1>4, <2>1
      <4>3. ~Before(at, Places(t, b)[Len(t)])
        <5>1. gone + 1 + row - 1 = Rows[b] + gone /\ col - 1 \in Nat
          <6>1. gone \in Nat /\ col \in 1 .. Columns[b] /\ row = Rows[b]
            BY <1>1, <4>1
          <6>. QED
            BY <1>2, <6>1
        <5>2. Rows[b] + gone \in Nat
          BY <1>1, <1>2
        <5>3. at = <<Rows[b] + gone, col - 1>>
          BY <5>1
        <5>. HIDE DEF at
        <5>. QED
          BY <4>2, <5>1, <5>2, <5>3 DEF Before
      <4>. HIDE DEF at
      <4>4. CellOf(t, b, at) = Blank
        BY <1>3, <4>1, <4>3, Unused
      <4>. QED
        BY <3>1, <3>3, <4>4 DEF at
    <3>. QED
      BY <3>2, <3>3
  <2>5. Up(Written(s, c), b)[b] = Layout(t, b, gone + 1)
    BY <2>3, <2>4, PageIs
  <2>6. Rows[b] - 1 + (gone + 1) = Rows[b] + gone /\ gone + 1 \in Nat
    <3>1. gone \in Nat
      BY <1>1
    <3>2. Rows[b] \in Nat
      BY <1>2
    <3>. QED
      BY <3>1, <3>2
  <2>7. /\ console_putc(s, c).at.y = Rows[b] - 1 /\ console_putc(s, c).at.x = 0
        /\ console_putc(s, c).pages[b] = Layout(t, b, gone + 1)
    BY <2>1, <2>5
  <2>8. <<Rows[b] - 1 + (gone + 1), 0>> = Places(t, b)[Len(t)]
    <3>1. q[1] = Rows[b] /\ q[2] = 0
      BY <2>1
    <3>2. Places(t, b)[Len(t)] = <<Rows[b] + gone, 0>>
      BY <1>3, <1>4, <3>1
    <3>. QED
      BY <2>6, <3>2
  <2>9. Shows(console_putc(s, c), b, t, gone + 1)
    BY <1>3, <1>7, <2>6, <2>7, <2>8 DEF Shows
  <2>. QED
    BY <2>2, <2>9 DEF t
<1>. QED
  BY <1>2, <1>10, <1>11, <1>12

\* What console_puts says of the function it chooses.
PutBy(s, str, f) ==
  f = [k \in 0 .. Len(str) |-> IF k = 0 THEN s ELSE console_putc(f[k - 1], str[k])]

Puts(s, str) == CHOOSE f : PutBy(s, str, f)

LEMMA PutsChosen == ASSUME NEW s, NEW str PROVE console_puts(s, str) = Puts(s, str)[Len(str)]
BY Zenon DEF console_puts, Puts, PutBy

LEMMA PutsAre ==
  ASSUME NEW s, NEW str, Len(str) \in Nat
  PROVE  PutBy(s, str, Puts(s, str))
<1> DEFINE n == Len(str)
           Upto(m, f) ==
             f = [k \in 0 .. m |-> IF k = 0 THEN s ELSE console_putc(f[k - 1], str[k])]
           T == {m \in 0 .. n : \E f : Upto(m, f)}
<1>1. 0 \in T
  <2> DEFINE g == [k \in 0 .. 0 |-> s]
  <2>1. Upto(0, g) /\ 0 \in 0 .. n
    OBVIOUS
  <2>. HIDE DEF g
  <2>. QED
    BY <2>1
<1>2. ASSUME NEW m \in 0 .. n - 1, m \in T PROVE m + 1 \in T
  <2>1. PICK f : Upto(m, f)
    BY <1>2
  <2> DEFINE g == [k \in 0 .. m + 1 |-> IF k = m + 1 THEN console_putc(f[m], str[m + 1]) ELSE f[k]]
  <2>2. Upto(m + 1, g)
    <3>1. ASSUME NEW k \in 0 .. m + 1
          PROVE  g[k] = IF k = 0 THEN s ELSE console_putc(g[k - 1], str[k])
      <4>1. CASE k = m + 1
        <5>1. g[k] = console_putc(f[m], str[m + 1]) /\ k # 0
          BY <4>1
        <5>2. g[k - 1] = f[m]
          BY <4>1
        <5>. QED
          BY <4>1, <5>1, <5>2
      <4>2. CASE k # m + 1
        <5>1. k \in 0 .. m /\ g[k] = f[k]
          BY <4>2
        <5>2. k # 0 => g[k - 1] = f[k - 1]
          BY <4>2
        <5>. HIDE DEF g
        <5>. QED
          BY <2>1, <5>1, <5>2
      <4>. QED
        BY <4>1, <4>2
    <3>. QED
      BY <3>1
  <2>3. m + 1 \in 0 .. n
    OBVIOUS
  <2>. QED
    BY <2>2, <2>3
<1>3. n \in T
  <2>1. n \in Nat /\ n \in 0 .. n
    OBVIOUS
  <2>. HIDE DEF T, n
  <2>2. \A k \in 0 .. n : k \in T
    BY <1>1, <1>2, <2>1, UpTo
  <2>. QED
    BY <2>1, <2>2
<1>4. \E f : PutBy(s, str, f)
  BY <1>3 DEF PutBy
<1>. QED
  BY <1>4 DEF Puts

\* console_puts puts one character after the other.
LEMMA PutsStep ==
  ASSUME NEW str \in Seq(Chars), NEW s
  PROVE  /\ Len(str) \in Nat
         /\ Puts(s, str)[0] = s
         /\ \A k \in 1 .. Len(str) : Puts(s, str)[k] = console_putc(Puts(s, str)[k - 1], str[k])
         /\ console_puts(s, str) = Puts(s, str)[Len(str)]
<1>1. Len(str) \in Nat
  OBVIOUS
<1> DEFINE p == Puts(s, str)
<1>2. p = [k \in 0 .. Len(str) |-> IF k = 0 THEN s ELSE console_putc(p[k - 1], str[k])]
  BY <1>1, PutsAre DEF PutBy
<1>. HIDE DEF p
<1>3. p[0] = s
  BY <1>1, <1>2
<1>4. ASSUME NEW k \in 1 .. Len(str) PROVE p[k] = console_putc(p[k - 1], str[k])
  <2>1. k \in 0 .. Len(str) /\ k # 0
    BY <1>1
  <2>. QED
    BY <1>2, <2>1, Zenon
<1>. QED
  BY <1>1, <1>3, <1>4, PutsChosen DEF p

LEMMA PutsOn ==
  ASSUME ConsoleAssumption, NEW b \in Surfaces, NEW s \in On(b), NEW str \in Seq(Chars)
  PROVE  /\ console_puts(s, str) \in On(b)
         /\ \A q \in Surfaces : q # b => console_puts(s, str).pages[q] = s.pages[q]
<1> DEFINE p == Puts(s, str)
           Ok(t) == t \in On(b) /\ \A q \in Surfaces : q # b => t.pages[q] = s.pages[q]
           T == {k \in 0 .. Len(str) : Ok(p[k])}
<1>0. /\ Len(str) \in Nat /\ p[0] = s /\ console_puts(s, str) = p[Len(str)]
      /\ \A k \in 1 .. Len(str) : p[k] = console_putc(p[k - 1], str[k])
  BY PutsStep
<1>. HIDE DEF p
<1>1. 0 \in T
  <2>1. 0 \in 0 .. Len(str)
    BY <1>0
  <2>. QED
    BY <1>0, <2>1
<1>2. ASSUME NEW k \in 0 .. Len(str) - 1, k \in T PROVE k + 1 \in T
  <2>1. k + 1 \in 1 .. Len(str) /\ (k + 1) - 1 = k /\ k + 1 \in 0 .. Len(str)
    BY <1>0
  <2>2. p[k + 1] = console_putc(p[k], str[k + 1]) /\ str[k + 1] \in Chars
    BY <1>0, <2>1
  <2>3. Ok(p[k])
    BY <1>2
  <2>4. p[k] \in On(b)
    BY <2>3
  <2>5. p[k + 1] \in On(b) /\ \A q \in Surfaces : q # b => p[k + 1].pages[q] = p[k].pages[q]
    BY <2>2, <2>4, PutcOn
  <2>6. Ok(p[k + 1])
    BY <2>3, <2>5
  <2>. QED
    BY <2>1, <2>6
<1>3. \A k \in 0 .. Len(str) : k \in T
  <2>. HIDE DEF T
  <2>. QED
    BY <1>0, <1>1, <1>2, UpTo
<1>4. Len(str) \in 0 .. Len(str)
  BY <1>0
<1>. QED
  BY <1>0, <1>3, <1>4

\* What has left does not come back when a character is written.
LEMMA ScrolledAppend ==
  ASSUME ConsoleAssumption, NEW b \in Surfaces, NEW str \in Seq(Chars), NEW c \in Chars, NEW g \in Nat
  PROVE  Scrolled(Append(str, c), b, Scrolled(str, b, g)) = Scrolled(Append(str, c), b, g)
<1> DEFINE n == Len(str)
           t == Append(str, c)
<1>1. /\ n \in Nat /\ t \in Seq(Chars) /\ Len(t) = n + 1 /\ \A k \in 1 .. n : str[k] = t[k]
  OBVIOUS
<1>. HIDE DEF t
<1>2. Places(t, b)[n] = Places(str, b)[n]
  BY <1>1, PlacesPrefix
<1>3. Before(Places(t, b)[n], Places(t, b)[n + 1])
  <2>1. n \in 0 .. Len(t) /\ n + 1 \in 0 .. Len(t) /\ n < n + 1
    BY <1>1
  <2>. QED
    BY <1>1, <2>1, PlacesGrow
<1>4. Places(t, b)[n] \in Cell(b) /\ Places(t, b)[n + 1] \in Cell(b)
  <2>1. n \in 0 .. Len(t) /\ n + 1 \in 0 .. Len(t)
    BY <1>1
  <2>. QED
    BY <1>1, <2>1, PlacesIn
<1> DEFINE i == Places(str, b)[n][1]
           j == Places(t, b)[n + 1][1]
<1>5. i \in Nat /\ j \in Nat /\ i <= j
  BY <1>2, <1>3, <1>4 DEF Before, Cell
<1>6. Scrolled(str, b, g) = Greater(g, i + 1 - Rows[b])
  BY DEF Scrolled
<1>7. \A h : Scrolled(t, b, h) = Greater(h, j + 1 - Rows[b])
  BY <1>1 DEF Scrolled
<1>8. \A r \in Nat : Greater(Greater(g, i + 1 - r), j + 1 - r) = Greater(g, j + 1 - r)
  <2>. HIDE DEF i, j
  <2>. QED
    BY <1>5 DEF Greater
<1>9. Rows[b] \in Nat
  BY SizeIs
<1>. HIDE DEF i, j
<1>. QED
  BY <1>6, <1>7, <1>8, <1>9 DEF t

LEMMA ScrolledShown ==
  ASSUME ConsoleAssumption, NEW b \in Surfaces, NEW s, NEW str, NEW gone, Shows(s, b, str, gone)
  PROVE  Scrolled(str, b, gone) = gone
<1>1. /\ s \in On(b) /\ gone \in Nat /\ Places(str, b)[Len(str)] = <<s.at.y + gone, s.at.x>>
  BY DEF Shows
<1>2. s.at.y \in 0 .. Rows[b] - 1 /\ Rows[b] \in Nat
  BY <1>1, SizeIs, OnIs
<1>3. Scrolled(str, b, gone) = Greater(gone, s.at.y + gone + 1 - Rows[b])
  BY <1>1 DEF Scrolled
<1> DEFINE y == s.at.y
<1>4. \A i, j, k \in Nat : i + 1 <= j => IF k > i + k + 1 - j THEN TRUE ELSE k = i + k + 1 - j
  OBVIOUS
<1>5. y \in Nat /\ y + 1 <= Rows[b] /\ Rows[b] \in Nat /\ gone \in Nat
  BY <1>1, <1>2
<1>. HIDE DEF y
<1>6. IF gone > y + gone + 1 - Rows[b] THEN TRUE ELSE gone = y + gone + 1 - Rows[b]
  BY <1>4, <1>5
<1>. QED
  BY <1>3, <1>6, Zenon DEF Greater, y

LEMMA PutsShows ==
  ASSUME ConsoleAssumption, NEW b \in Surfaces, NEW str \in Seq(Chars), NEW s, NEW base, NEW gone,
         Shows(s, b, base, gone)
  PROVE  Shows(console_puts(s, str), b, base \o str, Scrolled(base \o str, b, gone))
<1> DEFINE p == Puts(s, str)
           text(k) == base \o SubSeq(str, 1, k)
           T == {k \in 0 .. Len(str) : Shows(p[k], b, text(k), Scrolled(text(k), b, gone))}
<1>0. /\ Len(str) \in Nat /\ p[0] = s /\ console_puts(s, str) = p[Len(str)]
      /\ \A k \in 1 .. Len(str) : p[k] = console_putc(p[k - 1], str[k])
      /\ base \in Seq(Chars) /\ gone \in Nat
  BY PutsStep DEF Shows
<1>. HIDE DEF p
<1>1. 0 \in T
  <2>1. text(0) = base /\ 0 \in 0 .. Len(str)
    BY <1>0
  <2>. HIDE DEF text
  <2>. QED
    BY <1>0, <2>1, ScrolledShown
<1>2. ASSUME NEW k \in 0 .. Len(str) - 1, k \in T PROVE k + 1 \in T
  <2>1. k + 1 \in 1 .. Len(str) /\ (k + 1) - 1 = k /\ k + 1 \in 0 .. Len(str)
    BY <1>0
  <2>2. p[k + 1] = console_putc(p[k], str[k + 1]) /\ str[k + 1] \in Chars
    BY <1>0, <2>1
  <2>3. text(k + 1) = Append(text(k), str[k + 1]) /\ text(k) \in Seq(Chars)
    BY <1>0, <2>1, <2>2
  <2>4. Shows(p[k], b, text(k), Scrolled(text(k), b, gone))
    BY <1>2
  <2>. HIDE DEF text
  <2>5. Shows(p[k + 1], b, text(k + 1), Scrolled(text(k + 1), b, Scrolled(text(k), b, gone)))
    BY <2>2, <2>3, <2>4, PutcShows
  <2>6. Scrolled(text(k + 1), b, Scrolled(text(k), b, gone)) = Scrolled(text(k + 1), b, gone)
    <3>1. \A t \in Seq(Chars), c \in Chars :
            Scrolled(Append(t, c), b, Scrolled(t, b, gone)) = Scrolled(Append(t, c), b, gone)
      BY <1>0, ScrolledAppend
    <3>. QED
      BY <2>2, <2>3, <3>1
  <2>. QED
    BY <2>1, <2>5, <2>6
<1>3. \A k \in 0 .. Len(str) : k \in T
  <2>. HIDE DEF T
  <2>. QED
    BY <1>0, <1>1, <1>2, UpTo
<1>4. Len(str) \in 0 .. Len(str) /\ text(Len(str)) = base \o str
  BY <1>0
<1>. HIDE DEF text
<1>. QED
  BY <1>0, <1>3, <1>4

LEMMA RowAboveIs ==
  ASSUME NEW b, NEW x, NEW y, NEW pg, NEW s,
         s = [at |-> [ptr |-> b, x |-> x, y |-> y], to |-> b, pages |-> pg]
  PROVE  RowAbove(s) = [ptr |-> b, x |-> Columns[b] - 1, y |-> y - 1]
<1> DEFINE at == s.at
           u == [at EXCEPT !.x = Columns[b] - 1]
<1>1. at = [ptr |-> b, x |-> x, y |-> y]
  OBVIOUS
<1>2. RowAbove(s) = [at EXCEPT !.x = Columns[b] - 1, !.y = @ - 1]
  BY DEF RowAbove, RowLength
<1>. HIDE DEF at
<1>3. u = [ptr |-> b, x |-> Columns[b] - 1, y |-> y]
  BY <1>1
<1>4. RowAbove(s) = [u EXCEPT !.y = y - 1]
  BY <1>1, <1>2
<1>. HIDE DEF u
<1>. QED
  BY <1>3, <1>4

\* One column back.
LEMMA BackspaceIs ==
  ASSUME ConsoleAssumption, NEW b \in Surfaces, NEW s \in On(b)
  PROVE  \/ s.at.x = 0 /\ s.at.y = 0 /\ console_backspace(s) = s
         \/ \E y \in 0 .. Rows[b] - 1, x \in 0 .. Columns[b] - 1 :
              /\ \/ y = s.at.y /\ x + 1 = s.at.x
                 \/ y + 1 = s.at.y /\ s.at.x = 0 /\ x + 1 = Columns[b]
              /\ console_backspace(s) = [at |-> [ptr |-> b, x |-> x, y |-> y], to |-> b,
                                         pages |-> Drawn(s.pages, b, y + 1, x + 1, Blank)]
<1> DEFINE at == s.at
           back == IF at.x >= 1 THEN [at EXCEPT !.x = @ - 1]
                   ELSE IF at.y >= 1 THEN RowAbove(s) ELSE at
<1>1. /\ Columns[b] \in Nat /\ Columns[b] > 0 /\ Rows[b] \in Nat /\ Rows[b] > 0
      /\ at.x \in 0 .. Columns[b] - 1 /\ at.y \in 0 .. Rows[b] - 1
      /\ at = [ptr |-> b, x |-> at.x, y |-> at.y]
      /\ s = [at |-> at, to |-> b, pages |-> s.pages]
  BY OnIs, SizeIs
<1>2. console_backspace(s) =
        IF back = at THEN s
        ELSE [s EXCEPT !.at = back, !.pages[at.ptr][back.y + 1][back.x + 1] = Blank]
  BY DEF console_backspace
<1>3. RowAbove(s) = [ptr |-> b, x |-> Columns[b] - 1, y |-> at.y - 1]
  <2> DEFINE x == at.x
             y == at.y
  <2>1. s = [at |-> [ptr |-> b, x |-> x, y |-> y], to |-> b, pages |-> s.pages]
    BY OnIs
  <2>. HIDE DEF x, y
  <2>2. RowAbove(s) = [ptr |-> b, x |-> Columns[b] - 1, y |-> y - 1]
    BY <2>1, RowAboveIs
  <2>. QED
    BY <2>2 DEF y
<1>. HIDE DEF back
<1>4. ASSUME NEW y, NEW x, back = [ptr |-> b, x |-> x, y |-> y], back # at
      PROVE  console_backspace(s) = [at |-> [ptr |-> b, x |-> x, y |-> y], to |-> b,
                                    pages |-> Drawn(s.pages, b, y + 1, x + 1, Blank)]
  <2> DEFINE pg == s.pages
             u == [s EXCEPT !.at = back]
             w == Drawn(pg, b, y + 1, x + 1, Blank)
  <2>1. u = [at |-> [ptr |-> b, x |-> x, y |-> y], to |-> b, pages |-> pg]
    BY <1>1, <1>4
  <2>2. console_backspace(s) = [u EXCEPT !.pages[b][y + 1][x + 1] = Blank]
    <3>1. back.y = y /\ back.x = x
      BY <1>4
    <3>2. at.ptr = b
      BY OnIs
    <3>. HIDE DEF at
    <3>3. console_backspace(s) = [s EXCEPT !.at = back, !.pages[b][y + 1][x + 1] = Blank]
      BY <1>2, <1>4, <3>1, <3>2, Zenon
    <3>. QED
      BY <3>3
  <2>. HIDE DEF u
  <2>3. [u EXCEPT !.pages[b][y + 1][x + 1] = Blank] = [u EXCEPT !.pages = w]
    BY <2>1 DEF Drawn
  <2>. HIDE DEF w
  <2>4. [u EXCEPT !.pages = w] = [at |-> [ptr |-> b, x |-> x, y |-> y], to |-> b, pages |-> w]
    BY <2>1
  <2>. QED
    BY <2>2, <2>3, <2>4 DEF w
<1>5. CASE at.x >= 1
  <2>. HIDE DEF at
  <2>1. back = [ptr |-> b, x |-> at.x - 1, y |-> at.y]
    BY <1>1, <1>5 DEF back
  <2>2. back # at
    <3>1. back.x = at.x - 1
      BY <2>1
    <3>. QED
      BY <1>1, <3>1
  <2>3. /\ at.y \in 0 .. Rows[b] - 1 /\ at.x - 1 \in 0 .. Columns[b] - 1 /\ (at.x - 1) + 1 = at.x
    BY <1>1, <1>5
  <2>. QED
    BY <1>4, <2>1, <2>2, <2>3 DEF at
<1>6. CASE ~(at.x >= 1) /\ at.y >= 1
  <2>1. back = [ptr |-> b, x |-> Columns[b] - 1, y |-> at.y - 1]
    BY <1>3, <1>6 DEF back
  <2>2. back # at
    <3>1. back.y = at.y - 1
      BY <2>1
    <3>. QED
      BY <1>1, <3>1
  <2>3. /\ at.y - 1 \in 0 .. Rows[b] - 1 /\ Columns[b] - 1 \in 0 .. Columns[b] - 1
        /\ (at.y - 1) + 1 = at.y /\ at.x = 0 /\ (Columns[b] - 1) + 1 = Columns[b]
    BY <1>1, <1>6
  <2>. HIDE DEF at
  <2>. QED
    BY <1>4, <2>1, <2>2, <2>3 DEF at
<1>7. CASE ~(at.x >= 1) /\ ~(at.y >= 1)
  <2>1. back = at /\ at.x = 0 /\ at.y = 0
    BY <1>1, <1>7 DEF back
  <2>. QED
    BY <1>2, <2>1
<1>. QED
  BY <1>5, <1>6, <1>7

LEMMA BackspaceOn ==
  ASSUME ConsoleAssumption, NEW b \in Surfaces, NEW s \in On(b)
  PROVE  /\ console_backspace(s) \in On(b)
         /\ \A q \in Surfaces : q # b => console_backspace(s).pages[q] = s.pages[q]
<1>1. CASE console_backspace(s) = s
  BY <1>1
<1>2. ASSUME NEW y \in 0 .. Rows[b] - 1, NEW x \in 0 .. Columns[b] - 1,
             console_backspace(s) = [at |-> [ptr |-> b, x |-> x, y |-> y], to |-> b,
                                    pages |-> Drawn(s.pages, b, y + 1, x + 1, Blank)]
      PROVE  /\ console_backspace(s) \in On(b)
             /\ \A q \in Surfaces : q # b => console_backspace(s).pages[q] = s.pages[q]
  <2> DEFINE w == Drawn(s.pages, b, y + 1, x + 1, Blank)
  <2>1. y + 1 \in 1 .. Rows[b] /\ x + 1 \in 1 .. Columns[b] /\ s.pages \in AllPages /\ Blank \in Cells
    BY OnIs, SizeIs DEF Cells
  <2>2. w \in AllPages /\ \A q \in Surfaces : q # b => w[q] = s.pages[q]
    BY <2>1, DrawnIs
  <2>. HIDE DEF w
  <2>3. console_backspace(s) = [at |-> [ptr |-> b, x |-> x, y |-> y], to |-> b, pages |-> w]
    BY <1>2 DEF w
  <2>. QED
    BY <2>2, <2>3 DEF On
<1>. QED
  BY <1>1, <1>2, BackspaceIs

\* Backspace takes the last character off the text, if its place is seen.
LEMMA BackspaceShows ==
  ASSUME ConsoleAssumption, NEW b \in Surfaces, NEW s, NEW str, NEW gone, Shows(s, b, str, gone),
         NEW t \in Seq(Chars), NEW c \in Glyphs, str = Append(t, c),
         gone <= Places(str, b)[Len(t)][1]
  PROVE  Shows(console_backspace(s), b, t, gone)
<1> DEFINE n == Len(t)
           P == Places(t, b)[n]
           v == P[2]
           u == P[1] - gone
<1>1. /\ s \in On(b) /\ gone \in Nat /\ s.pages[b] = Layout(str, b, gone)
      /\ Places(str, b)[Len(str)] = <<s.at.y + gone, s.at.x>>
  BY DEF Shows
<1>2. /\ Columns[b] \in Nat /\ Columns[b] > 0 /\ Rows[b] \in Nat /\ Rows[b] > 0
      /\ s.at.x \in 0 .. Columns[b] - 1 /\ s.at.y \in 0 .. Rows[b] - 1 /\ s.pages \in AllPages
  BY <1>1, SizeIs, OnIs
<1>3. /\ n \in Nat /\ str \in Seq(Chars) /\ Len(str) = n + 1 /\ str[n + 1] = c
      /\ \A k \in 1 .. n : t[k] = str[k]
  BY DEF Chars
<1>4. Places(str, b)[n] = P /\ P \in Cell(b)
  <2>1. n \in 0 .. n /\ Len(t) <= Len(str)
    BY <1>3
  <2>. QED
    BY <1>3, <2>1, PlacesPrefix, PlacesIn
<1>. HIDE DEF P, n
<1>5. u \in Nat /\ v \in 0 .. Columns[b] - 1 /\ P = <<u + gone, v>>
  BY <1>1, <1>2, <1>4 DEF Cell, n
<1>6. <<s.at.y + gone, s.at.x>> = NextPlace(P, c, b)
  <2>1. n + 1 \in 1 .. Len(str) /\ (n + 1) - 1 = n
    BY <1>3
  <2>. QED
    BY <1>1, <1>3, <1>4, <2>1, PlacesStep
<1>. HIDE DEF u, v
<1>7. c # "\n"
  BY SizeIs
<1>8. \/ v + 1 = Columns[b] /\ s.at.y = u + 1 /\ s.at.x = 0
      \/ v + 1 # Columns[b] /\ s.at.y = u /\ s.at.x = v + 1
  <2>1. NextPlace(P, c, b) = IF v + 1 = Columns[b] THEN <<u + gone + 1, 0>> ELSE <<u + gone, v + 1>>
    BY <1>5, <1>7 DEF NextPlace
  <2> DEFINE y == s.at.y
             x == s.at.x
  <2>2. y \in Nat /\ x \in Nat /\ gone \in Nat /\ u \in Nat /\ v \in Nat
    BY <1>1, <1>2, <1>5
  <2>3. <<y + gone, x>> = NextPlace(P, c, b)
    BY <1>6
  <2>. HIDE DEF x, y
  <2>4. CASE v + 1 = Columns[b]
    <3>1. y + gone = u + gone + 1 /\ x = 0
      BY <2>1, <2>3, <2>4
    <3>. QED
      BY <2>2, <2>4, <3>1 DEF x, y
  <2>5. CASE v + 1 # Columns[b]
    <3>1. y + gone = u + gone /\ x = v + 1
      BY <2>1, <2>3, <2>5
    <3>. QED
      BY <2>2, <2>5, <3>1 DEF x, y
  <2>. QED
    BY <2>4, <2>5
<1>9. u \in 0 .. Rows[b] - 1
  BY <1>2, <1>5, <1>8
<1> DEFINE w == Drawn(s.pages, b, u + 1, v + 1, Blank)
<1>10. console_backspace(s) = [at |-> [ptr |-> b, x |-> v, y |-> u], to |-> b, pages |-> w]
  <2>1. ~(s.at.x = 0 /\ s.at.y = 0)
    BY <1>2, <1>5, <1>8
  <2>2. PICK y \in 0 .. Rows[b] - 1, x \in 0 .. Columns[b] - 1 :
              /\ \/ y = s.at.y /\ x + 1 = s.at.x
                 \/ y + 1 = s.at.y /\ s.at.x = 0 /\ x + 1 = Columns[b]
              /\ console_backspace(s) = [at |-> [ptr |-> b, x |-> x, y |-> y], to |-> b,
                                         pages |-> Drawn(s.pages, b, y + 1, x + 1, Blank)]
    BY <1>1, <2>1, BackspaceIs
  <2>3. y \in Nat /\ x \in Nat /\ x < Columns[b] /\ u \in Nat /\ v \in Nat /\ v < Columns[b]
    BY <1>2, <1>5
  <2>4. CASE v + 1 = Columns[b] /\ s.at.y = u + 1 /\ s.at.x = 0
    <3>1. y + 1 = s.at.y /\ x + 1 = Columns[b]
      BY <2>2, <2>3, <2>4
    <3>. QED
      BY <2>2, <2>3, <2>4, <3>1
  <2>5. CASE v + 1 # Columns[b] /\ s.at.y = u /\ s.at.x = v + 1
    <3>1. y = s.at.y /\ x + 1 = s.at.x
      BY <2>2, <2>3, <2>5
    <3>. QED
      BY <2>2, <2>3, <2>5, <3>1
  <2>. QED
    BY <1>8, <2>4, <2>5
<1>11. /\ w \in AllPages
       /\ \A row \in 1 .. Rows[b], col \in 1 .. Columns[b] :
             w[b][row][col] = IF row = u + 1 /\ col = v + 1 THEN Blank ELSE s.pages[b][row][col]
  <2>1. u + 1 \in 1 .. Rows[b] /\ v + 1 \in 1 .. Columns[b] /\ Blank \in Cells
    BY <1>2, <1>5, <1>9 DEF Cells
  <2>2. s.pages \in AllPages
    BY <1>2
  <2>. QED
    BY <2>1, <2>2, DrawnIs
<1>. HIDE DEF w
<1>12. ASSUME NEW row \in 1 .. Rows[b], NEW col \in 1 .. Columns[b]
       PROVE  w[b][row][col] = CellOf(t, b, <<gone + row - 1, col - 1>>)
  <2> DEFINE at == <<gone + row - 1, col - 1>>
  <2>1. s.pages[b][row][col] = CellOf(str, b, at)
    <3>1. s.pages[b] = [r \in 1 .. Rows[b] |->
             [l \in 1 .. Columns[b] |-> CellOf(str, b, <<gone + r - 1, l - 1>>)]]
      BY <1>1, LayoutIs
    <3>. QED
      BY <3>1
  <2>2. CellOf(str, b, at) = IF at = P THEN c ELSE CellOf(t, b, at)
    <3>1. c \in Chars
      BY DEF Chars
    <3>. QED
      BY <1>7, <3>1, CellAppend DEF P, n
  <2>3. at = P => CellOf(t, b, at) = Blank
    <3>1. ~Before(P, P)
      BY <1>4 DEF Before, Cell
    <3>. QED
      BY <1>4, <3>1, Unused DEF P, n
  <2>4. at = P <=> (row = u + 1 /\ col = v + 1)
    <3>1. gone \in Nat /\ row \in Nat /\ col \in Nat /\ u \in Nat /\ v \in Nat
      BY <1>1, <1>2, <1>5
    <3>2. gone + row - 1 = u + gone <=> row = u + 1
      BY <3>1
    <3>3. col - 1 = v <=> col = v + 1
      BY <3>1
    <3>. QED
      BY <1>5, <3>2, <3>3
  <2>5. w[b][row][col] = IF row = u + 1 /\ col = v + 1 THEN Blank ELSE s.pages[b][row][col]
    BY <1>11
  <2>. HIDE DEF at
  <2>6. w[b][row][col] = CellOf(t, b, at)
    BY <2>1, <2>2, <2>3, <2>4, <2>5
  <2>. QED
    BY <2>6 DEF at
<1>13. w[b] = Layout(t, b, gone)
  <2>1. w[b] \in Page(b)
    BY <1>11 DEF AllPages
  <2>. QED
    BY <1>12, <2>1, PageIs
<1>14. console_backspace(s) \in On(b)
  BY <1>1, BackspaceOn
<1>. QED
  BY <1>1, <1>5, <1>10, <1>13, <1>14 DEF Shows, P, n

LEMMA ClearIs ==
  ASSUME NEW b, NEW x, NEW y, NEW pg, NEW s,
         s = [at |-> [ptr |-> b, x |-> x, y |-> y], to |-> b, pages |-> pg]
  PROVE  console_clear(s) = [at |-> [ptr |-> b, x |-> 0, y |-> 0], to |-> b,
                             pages |-> [pg EXCEPT ![b] = Empty(b)]]
<1> DEFINE u == [s EXCEPT !.at.x = 0]
           v == [u EXCEPT !.at.y = 0]
<1>1. u = [at |-> [ptr |-> b, x |-> 0, y |-> y], to |-> b, pages |-> pg]
  OBVIOUS
<1>. HIDE DEF u
<1>2. v = [at |-> [ptr |-> b, x |-> 0, y |-> 0], to |-> b, pages |-> pg]
  BY <1>1
<1>. HIDE DEF v
<1>3. console_clear(s) = [v EXCEPT !.pages[b] = Empty(b)]
  BY DEF console_clear, u, v
<1>. HIDE DEF Empty
<1>4. [v EXCEPT !.pages[b] = Empty(b)] = [v EXCEPT !.pages = [pg EXCEPT ![b] = Empty(b)]]
  BY <1>2
<1>. QED
  BY <1>2, <1>3, <1>4

LEMMA TargetIs ==
  ASSUME NEW b, NEW s \in On(b), NEW d
  PROVE  console_set_target(s, d) =
           [at |-> [ptr |-> d, x |-> 0, y |-> 0], to |-> d, pages |-> s.pages]
<1> DEFINE u == [s EXCEPT !.at = [ptr |-> d, x |-> 0, y |-> 0]]
<1>1. u = [at |-> [ptr |-> d, x |-> 0, y |-> 0], to |-> b, pages |-> s.pages]
  BY OnIs
<1>2. console_set_target(s, d) = [u EXCEPT !.to = d]
  BY DEF console_set_target
<1>. HIDE DEF u
<1>. QED
  BY <1>1, <1>2

\* An empty surface shows an empty text.
LEMMA EmptyShows ==
  ASSUME ConsoleAssumption, NEW b \in Surfaces, NEW pg \in AllPages, pg[b] = Empty(b), NEW s,
         s = [at |-> [ptr |-> b, x |-> 0, y |-> 0], to |-> b, pages |-> pg]
  PROVE  Shows(s, b, <<>>, 0)
<1>1. s \in On(b)
  BY SizeIs DEF On
<1>2. <<>> \in Seq(Chars) /\ Len(<<>>) = 0
  OBVIOUS
<1>3. Places(<<>>, b)[0] = <<0, 0>>
  BY <1>2, PlacesStep
<1>4. \A q : CellOf(<<>>, b, q) = Blank
  BY <1>2 DEF CellOf, Going
<1>5. Layout(<<>>, b, 0) = Empty(b)
  BY <1>4, LayoutIs DEF Empty
<1>. QED
  BY <1>1, <1>2, <1>3, <1>5 DEF Shows

LEMMA EmptyPages ==
  ASSUME ConsoleAssumption
  PROVE  /\ \A b \in Surfaces : Empty(b) \in Page(b)
         /\ [b \in Surfaces |-> Empty(b)] \in AllPages
<1>1. \A b \in Surfaces : Empty(b) \in Page(b)
  BY DEF Empty, Page, Cells
<1>. QED
  BY <1>1 DEF AllPages

LEMMA ClearShows ==
  ASSUME ConsoleAssumption, NEW b \in Surfaces, NEW s \in On(b)
  PROVE  /\ Shows(console_clear(s), b, <<>>, 0)
         /\ \A q \in Surfaces : q # b => console_clear(s).pages[q] = s.pages[q]
<1> DEFINE pg == [s.pages EXCEPT ![b] = Empty(b)]
           x == s.at.x
           y == s.at.y
           was == s.pages
<1>1. was \in AllPages /\ s = [at |-> [ptr |-> b, x |-> x, y |-> y], to |-> b, pages |-> was]
  BY OnIs
<1>. HIDE DEF x, y
<1>2. pg \in AllPages /\ pg[b] = Empty(b) /\ \A q \in Surfaces : q # b => pg[q] = was[q]
  BY <1>1, EmptyPages DEF AllPages
<1>3. console_clear(s) = [at |-> [ptr |-> b, x |-> 0, y |-> 0], to |-> b, pages |-> pg]
  BY <1>1, ClearIs
<1>. HIDE DEF pg
<1>. QED
  BY <1>2, <1>3, EmptyShows

-----------------------------------------------------------------------------
(* The line.                                                               *)

Index(p, b) == p[1] * Columns[b] + p[2]

LEMMA IndexIs ==
  ASSUME ConsoleAssumption, NEW b \in Surfaces, NEW q \in Cell(b)
  PROVE  /\ q[1] \in Nat /\ q[2] \in 0 .. Columns[b] - 1 /\ q[2] \in Nat
         /\ Index(q, b) = q[1] * Columns[b] + q[2] /\ Index(q, b) \in Nat
<1>1. Columns[b] \in Nat
  BY SizeIs
<1>2. q[1] \in Nat /\ q[2] \in 0 .. Columns[b] - 1 /\ q[2] \in Nat
  BY <1>1 DEF Cell
<1>3. q[1] * Columns[b] \in Nat
  BY <1>1, <1>2
<1>. QED
  BY <1>2, <1>3 DEF Index

\* The line is the end of the text, but for the keys without a glyph: at
\* tells how much of the text is there after each key.  The place where it
\* begins has not scrolled away, for the text is no longer than the line.
LineAt(line, str, b, gone, at) ==
  /\ at \in [0 .. Len(line) -> 0 .. Len(str)]
  /\ at[Len(line)] = Len(str)
  /\ gone <= Places(str, b)[at[0]][1]
  /\ \A i \in 1 .. Len(line) :
       /\ at[i] = IF line[i] = NoGlyph THEN at[i - 1] ELSE at[i - 1] + 1
       /\ line[i] # NoGlyph => str[at[i]] # "\n"
  /\ \A i \in 0 .. Len(line) :
       /\ at[0] <= at[i]
       /\ Index(Places(str, b)[at[i]], b) <= Index(Places(str, b)[at[0]], b) + i

Line(line, str, b, gone) == \E at : LineAt(line, str, b, gone, at)

LEMMA Below ==
  ASSUME NEW r \in Nat, NEW q \in Nat, NEW C \in Nat, NEW R \in Nat, NEW d \in Nat,
         r * C <= q * C + d, d < C * R
  PROVE  r < q + R
<1>. SUFFICES ASSUME r >= q + R PROVE FALSE
  OBVIOUS
<1>1. PICK k \in Nat : r = q + R + k
  <2>1. r - (q + R) \in Nat /\ r = q + R + (r - (q + R))
    OBVIOUS
  <2>. QED
    BY <2>1
<1>2. r * C = q * C + R * C + k * C
  BY <1>1
<1>3. q * C \in Nat /\ R * C \in Nat /\ k * C \in Nat /\ R * C = C * R
  OBVIOUS
<1>. QED
  BY <1>2, <1>3

LEMMA Shorter ==
  ASSUME NEW S, NEW str \in Seq(S), Len(str) > 0
  PROVE  /\ AllButLast(str) \in Seq(S) /\ Len(AllButLast(str)) = Len(str) - 1
         /\ \A k \in 1 .. Len(str) - 1 : AllButLast(str)[k] = str[k]
<1> DEFINE n == Len(str) - 1
<1>1. n \in Nat /\ Len(str) \in Nat /\ 1 + n = Len(str)
  OBVIOUS
<1>. HIDE DEF n
<1>2. SubSeq(str, 1, n) \in Seq(S)
  BY <1>1
<1>3. Len(SubSeq(str, 1, n)) = n
  BY <1>1
<1>4. \A k \in 1 .. n : SubSeq(str, 1, n)[k] = str[k]
  BY <1>1
<1>. QED
  BY <1>2, <1>3, <1>4 DEF AllButLast, n

\* An empty line begins where the text ends.
LEMMA LineBegins ==
  ASSUME ConsoleAssumption, NEW b \in Surfaces, NEW s, NEW str, NEW gone, Shows(s, b, str, gone)
  PROVE  Line(<<>>, str, b, gone)
<1> DEFINE n == Len(str)
           at == [i \in 0 .. 0 |-> n]
<1>1. /\ s \in On(b) /\ gone \in Nat /\ str \in Seq(Chars)
      /\ Places(str, b)[n] = <<s.at.y + gone, s.at.x>>
  BY DEF Shows
<1>2. s.at.y \in Nat
  BY <1>1, OnIs, SizeIs
<1>3. n \in Nat
  BY <1>1
<1>4. gone <= Places(str, b)[n][1]
  BY <1>1, <1>2
<1>5. Places(str, b)[n] \in Cell(b)
  BY <1>1, <1>3, PlacesIn
<1>6. Columns[b] \in Nat
  BY SizeIs
<1>7. Index(Places(str, b)[n], b) \in Nat
  BY <1>5, <1>6 DEF Index, Cell
<1>8. at \in [0 .. 0 -> 0 .. n] /\ at[0] = n
  BY <1>3
<1>9. Len(<<>>) = 0
  OBVIOUS
<1>. HIDE DEF at, n
<1>10. LineAt(<<>>, str, b, gone, at)
  <2>1. \A i \in 0 .. 0 : i = 0
    OBVIOUS
  <2>2. n <= n
    BY <1>3
  <2>3. Index(Places(str, b)[n], b) <= Index(Places(str, b)[n], b) + 0
    BY <1>7
  <2>. QED
    BY <1>4, <1>8, <1>9, <2>1, <2>2, <2>3 DEF LineAt, n
<1>. QED
  BY <1>10 DEF Line

LEMMA IndexNext ==
  ASSUME ConsoleAssumption, NEW b \in Surfaces, NEW q \in Cell(b), NEW c, c # "\n"
  PROVE  Index(NextPlace(q, c, b), b) = Index(q, b) + 1
<1>1. Columns[b] \in Nat /\ Columns[b] > 0
  BY SizeIs
<1>2. PICK y \in Nat, x \in 0 .. Columns[b] - 1 : q = <<y, x>>
  BY DEF Cell
<1>3. Index(q, b) = y * Columns[b] + x
  BY <1>2 DEF Index
<1>4. CASE x + 1 = Columns[b]
  <2>1. NextPlace(q, c, b) = <<y + 1, 0>>
    BY <1>2, <1>4 DEF NextPlace
  <2>2. (y + 1) * Columns[b] = y * Columns[b] + Columns[b]
    BY <1>1
  <2>3. y * Columns[b] \in Nat
    BY <1>1
  <2>4. Index(<<y + 1, 0>>, b) = (y + 1) * Columns[b] + 0
    BY DEF Index
  <2>. QED
    BY <1>1, <1>3, <1>4, <2>1, <2>2, <2>3, <2>4
<1>5. CASE x + 1 # Columns[b]
  <2>1. NextPlace(q, c, b) = <<y, x + 1>>
    BY <1>2, <1>5 DEF NextPlace
  <2>2. y * Columns[b] \in Nat
    BY <1>1
  <2>3. Index(<<y, x + 1>>, b) = y * Columns[b] + (x + 1)
    BY DEF Index
  <2>. QED
    BY <1>3, <2>1, <2>2, <2>3
<1>. QED
  BY <1>4, <1>5

\* A character typed ends on the screen.
LEMMA LineGrows ==
  ASSUME ConsoleAssumption, LineAssumption, NEW b \in Surfaces, NEW s, NEW str, NEW gone,
         Shows(s, b, str, gone), NEW line \in Seq(Letters \cup {NoGlyph}), Len(line) < MaxLine,
         NEW c \in Letters, Line(line, str, b, gone)
  PROVE  Line(Append(line, c), Append(str, c), b, Scrolled(Append(str, c), b, gone))
<1> DEFINE m == Len(line)
           n == Len(str)
           l == Append(line, c)
           t == Append(str, c)
           P == Places(str, b)
           Q == Places(t, b)
           C == Columns[b]
           R == Rows[b]
<1>1. PICK at : LineAt(line, str, b, gone, at)
  BY DEF Line
<1> DEFINE new == [i \in 0 .. m + 1 |-> IF i = m + 1 THEN n + 1 ELSE at[i]]
<1>2. str \in Seq(Chars) /\ gone \in Nat
  BY DEF Shows
<1>3. c # NoGlyph /\ c # "\n" /\ c \in Chars
  BY SizeIs DEF ConsoleAssumption, Chars
<1>4. /\ m \in Nat /\ Len(l) = m + 1 /\ l[m + 1] = c /\ \A i \in 1 .. m : l[i] = line[i]
  OBVIOUS
<1>5. /\ n \in Nat /\ t \in Seq(Chars) /\ Len(t) = n + 1 /\ t[n + 1] = c
      /\ \A k \in 1 .. n : str[k] = t[k]
  BY <1>2, <1>3
<1>. HIDE DEF l, t
<1>6. \A k \in 0 .. n : Q[k] = P[k] /\ P[k] \in Cell(b)
  BY <1>2, <1>5, PlacesPrefix, PlacesIn
<1>7. Q[n + 1] = NextPlace(P[n], c, b) /\ Q[n + 1] \in Cell(b)
  <2>1. n + 1 \in 1 .. Len(t) /\ (n + 1) - 1 = n /\ n \in 0 .. n
    BY <1>5
  <2>2. Q[n + 1] = NextPlace(Q[n], t[n + 1], b)
    BY <1>5, <2>1, PlacesStep
  <2>. QED
    BY <1>5, <1>6, <2>1, <2>2, NextPlaceIn
<1>. HIDE DEF P, Q, C, R, m, n
<1>8. /\ at \in [0 .. m -> 0 .. n] /\ at[m] = n /\ gone <= P[at[0]][1]
      /\ \A i \in 1 .. m : /\ at[i] = IF line[i] = NoGlyph THEN at[i - 1] ELSE at[i - 1] + 1
                           /\ line[i] # NoGlyph => str[at[i]] # "\n"
      /\ \A i \in 0 .. m : at[0] <= at[i] /\ Index(P[at[i]], b) <= Index(P[at[0]], b) + i
  BY <1>1 DEF LineAt, m, n, P
<1>9. /\ C \in Nat /\ C > 0 /\ R \in Nat /\ C - 1 + MaxLine < C * R /\ MaxLine \in Nat /\ m < MaxLine
  BY SizeIs DEF ConsoleAssumption, LineAssumption, C, R, m
<1>10. /\ 0 \in 0 .. m /\ m \in 0 .. m /\ at[0] \in 0 .. n /\ n \in 0 .. n /\ at[0] \in Nat
       /\ P[at[0]] \in Cell(b) /\ P[n] \in Cell(b)
  BY <1>4, <1>5, <1>6, <1>8
<1>11. Index(Q[n + 1], b) <= Index(P[at[0]], b) + (m + 1)
  <2>1. Index(Q[n + 1], b) = Index(P[n], b) + 1
    BY <1>3, <1>7, <1>10, IndexNext
  <2>2. Index(P[n], b) <= Index(P[at[0]], b) + m
    BY <1>8, <1>10
  <2>3. Index(P[n], b) \in Nat /\ Index(P[at[0]], b) \in Nat
    BY <1>10, IndexIs
  <2>. QED
    BY <1>4, <2>1, <2>2, <2>3
<1>12. Q[n + 1][1] < P[at[0]][1] + R
  <2> DEFINE r == Q[n + 1][1]
             q == P[at[0]][1]
             d == P[at[0]][2] + m + 1
  <2>1. r \in Nat /\ q \in Nat /\ P[at[0]][2] \in 0 .. C - 1 /\ Q[n + 1][2] \in Nat
    BY <1>7, <1>10, IndexIs DEF C
  <2>2. d \in Nat /\ d <= C - 1 + MaxLine
    <3>1. \A e \in 0 .. C - 1 : e + m + 1 \in Nat /\ e + m + 1 <= C - 1 + MaxLine
      BY <1>4, <1>9
    <3>. QED
      BY <2>1, <3>1
  <2>3. Index(Q[n + 1], b) = r * C + Q[n + 1][2] /\ Index(P[at[0]], b) = q * C + P[at[0]][2]
    BY DEF Index, C
  <2>4. r * C \in Nat /\ q * C \in Nat /\ C * R \in Nat
    <3>1. \A i, j \in Nat : i * j \in Nat
      OBVIOUS
    <3>. QED
      BY <1>9, <2>1, <3>1
  <2>. HIDE DEF r, q
  <2>5. r * C <= q * C + d
    <3> DEFINE e == P[at[0]][2]
               f == Q[n + 1][2]
    <3>1. r * C + f <= q * C + e + (m + 1)
      BY <1>11, <2>3
    <3>2. e \in Nat /\ f \in Nat
      BY <1>9, <2>1
    <3>. HIDE DEF e, f
    <3>3. r * C <= q * C + (e + m + 1)
      BY <1>4, <2>4, <3>1, <3>2
    <3>. QED
      BY <3>3 DEF e
  <2>6. d < C * R
    BY <1>9, <2>2, <2>4
  <2>. HIDE DEF d
  <2>7. r < q + R
    BY <1>9, <2>1, <2>2, <2>5, <2>6, Below
  <2>. QED
    BY <2>7 DEF r, q
<1>13. Scrolled(t, b, gone) <= Q[at[0]][1]
  <2>1. Scrolled(t, b, gone) = Greater(gone, Q[n + 1][1] + 1 - R)
    BY <1>5 DEF Scrolled, Q, R
  <2>2. Q[at[0]][1] = P[at[0]][1] /\ P[at[0]][1] \in Nat /\ Q[n + 1][1] \in Nat
    BY <1>6, <1>7, <1>10 DEF Cell
  <2> DEFINE r == Q[n + 1][1]
             q == P[at[0]][1]
  <2>3. r \in Nat /\ q \in Nat /\ r < q + R /\ gone <= q /\ Scrolled(t, b, gone) = Greater(gone, r + 1 - R)
    BY <1>8, <1>12, <2>1, <2>2
  <2>. HIDE DEF r, q
  <2>4. Scrolled(t, b, gone) <= q
    BY <1>2, <1>9, <2>3 DEF Greater
  <2>. QED
    BY <2>2, <2>4 DEF q
<1>14. new \in [0 .. m + 1 -> 0 .. n + 1] /\ new[m + 1] = n + 1 /\ new[0] = at[0]
       /\ \A i \in 0 .. m : new[i] = at[i]
  BY <1>4, <1>5, <1>8
<1>. HIDE DEF new
<1>15. ASSUME NEW i \in 1 .. m + 1
       PROVE  /\ new[i] = IF l[i] = NoGlyph THEN new[i - 1] ELSE new[i - 1] + 1
              /\ l[i] # NoGlyph => t[new[i]] # "\n"
  <2>1. CASE i = m + 1
    <3>1. i - 1 = m /\ new[i] = n + 1 /\ new[i - 1] = n /\ l[i] = c /\ t[new[i]] = c
      BY <1>4, <1>5, <1>8, <1>10, <1>14, <2>1
    <3>. QED
      BY <1>3, <3>1
  <2>2. CASE i # m + 1
    <3>1. i \in 1 .. m /\ i - 1 \in 0 .. m /\ i \in 0 .. m
      BY <1>4, <2>2
    <3>2. new[i] = at[i] /\ new[i - 1] = at[i - 1] /\ l[i] = line[i] /\ at[i - 1] \in 0 .. n /\ at[i] \in 0 .. n
      BY <1>4, <1>8, <1>14, <3>1
    <3>3. line[i] # NoGlyph => t[at[i]] = str[at[i]]
      BY <1>5, <1>8, <3>1, <3>2
    <3>. QED
      BY <1>8, <3>1, <3>2, <3>3
  <2>. QED
    BY <2>1, <2>2
<1>16. ASSUME NEW i \in 0 .. m + 1
       PROVE  new[0] <= new[i] /\ Index(Q[new[i]], b) <= Index(Q[new[0]], b) + i
  <2>1. CASE i = m + 1
    BY <1>5, <1>6, <1>10, <1>11, <1>14, <2>1
  <2>2. CASE i # m + 1
    <3>1. i \in 0 .. m /\ at[i] \in 0 .. n
      BY <1>4, <1>8, <2>2
    <3>2. new[i] = at[i] /\ new[0] = at[0]
      BY <1>14, <3>1
    <3>3. Q[at[i]] = P[at[i]] /\ Q[at[0]] = P[at[0]]
      BY <1>6, <1>10, <3>1
    <3>4. at[0] <= at[i] /\ Index(P[at[i]], b) <= Index(P[at[0]], b) + i
      BY <1>8, <3>1
    <3>. QED
      BY <3>2, <3>3, <3>4
  <2>. QED
    BY <2>1, <2>2
<1>17. LineAt(l, t, b, Scrolled(t, b, gone), new)
  BY <1>4, <1>5, <1>13, <1>14, <1>15, <1>16 DEF LineAt, Q
<1>. QED
  BY <1>17 DEF Line, l, t

\* So does a key without a glyph.
LEMMA LineStays ==
  ASSUME ConsoleAssumption, NEW b \in Surfaces, NEW str \in Seq(Chars), NEW gone,
         NEW line \in Seq(Letters \cup {NoGlyph}), Line(line, str, b, gone)
  PROVE  Line(Append(line, NoGlyph), str, b, gone)
<1> DEFINE m == Len(line)
           n == Len(str)
           l == Append(line, NoGlyph)
           P == Places(str, b)
<1>1. PICK at : LineAt(line, str, b, gone, at)
  BY DEF Line
<1> DEFINE new == [i \in 0 .. m + 1 |-> IF i = m + 1 THEN n ELSE at[i]]
<1>2. /\ m \in Nat /\ n \in Nat /\ Len(l) = m + 1 /\ l[m + 1] = NoGlyph
      /\ \A i \in 1 .. m : l[i] = line[i]
  OBVIOUS
<1>. HIDE DEF l
<1>3. \A k \in 0 .. n : Index(P[k], b) \in Nat
  <2>1. \A k \in 0 .. n : P[k] \in Cell(b)
    BY PlacesIn
  <2>. QED
    BY <2>1, IndexIs
<1>. HIDE DEF P, m, n
<1>4. /\ at \in [0 .. m -> 0 .. n] /\ at[m] = n /\ gone <= P[at[0]][1]
      /\ \A i \in 1 .. m : /\ at[i] = IF line[i] = NoGlyph THEN at[i - 1] ELSE at[i - 1] + 1
                           /\ line[i] # NoGlyph => str[at[i]] # "\n"
      /\ \A i \in 0 .. m : at[0] <= at[i] /\ Index(P[at[i]], b) <= Index(P[at[0]], b) + i
  BY <1>1 DEF LineAt, m, n, P
<1>5. /\ 0 \in 0 .. m /\ m \in 0 .. m /\ at[0] \in 0 .. n /\ n \in 0 .. n
  <2>1. 0 \in 0 .. m /\ m \in 0 .. m /\ n \in 0 .. n
    BY <1>2
  <2>2. at \in [0 .. m -> 0 .. n]
    BY <1>4
  <2>. QED
    BY <2>1, <2>2
<1>6. new \in [0 .. m + 1 -> 0 .. n] /\ new[m + 1] = n /\ new[0] = at[0]
       /\ \A i \in 0 .. m : new[i] = at[i]
  BY <1>2, <1>4
<1>. HIDE DEF new
<1>7. ASSUME NEW i \in 1 .. m + 1
       PROVE  /\ new[i] = IF l[i] = NoGlyph THEN new[i - 1] ELSE new[i - 1] + 1
              /\ l[i] # NoGlyph => str[new[i]] # "\n"
  <2>1. CASE i = m + 1
    <3>1. i - 1 = m /\ new[i] = n /\ new[i - 1] = n /\ l[i] = NoGlyph
      BY <1>2, <1>4, <1>5, <1>6, <2>1
    <3>. QED
      BY <3>1
  <2>2. CASE i # m + 1
    <3>1. i \in 1 .. m /\ i - 1 \in 0 .. m /\ i \in 0 .. m
      BY <1>2, <2>2
    <3>2. new[i] = at[i] /\ new[i - 1] = at[i - 1] /\ l[i] = line[i]
      BY <1>2, <1>4, <1>6, <3>1
    <3>. QED
      BY <1>4, <3>1, <3>2
  <2>. QED
    BY <2>1, <2>2
<1>8. ASSUME NEW i \in 0 .. m + 1
       PROVE  new[0] <= new[i] /\ Index(P[new[i]], b) <= Index(P[new[0]], b) + i
  <2>1. CASE i = m + 1
    <3>1. at[0] <= n /\ Index(P[n], b) <= Index(P[at[0]], b) + m
      BY <1>4, <1>5
    <3>2. Index(P[n], b) \in Nat /\ Index(P[at[0]], b) \in Nat
      BY <1>3, <1>5
    <3>. QED
      BY <1>2, <1>6, <2>1, <3>1, <3>2
  <2>2. CASE i # m + 1
    <3>1. i \in 0 .. m
      BY <1>2, <2>2
    <3>. QED
      BY <1>4, <1>6, <3>1
  <2>. QED
    BY <2>1, <2>2
<1>9. LineAt(l, str, b, gone, new)
  BY <1>2, <1>4, <1>6, <1>7, <1>8 DEF LineAt, P, n
<1>. QED
  BY <1>9 DEF Line, l

\* What Backspace takes off is a character that is seen.
LEMMA LineShrinks ==
  ASSUME ConsoleAssumption, NEW b \in Surfaces, NEW str \in Seq(Chars), NEW gone \in Nat,
         NEW line \in Seq(Letters \cup {NoGlyph}), line # <<>>, line[Len(line)] # NoGlyph,
         Line(line, str, b, gone)
  PROVE  /\ Len(str) > 0 /\ str[Len(str)] \in Glyphs
         /\ AllButLast(str) \in Seq(Chars) /\ str = Append(AllButLast(str), str[Len(str)])
         /\ gone <= Places(str, b)[Len(AllButLast(str))][1]
         /\ Line(AllButLast(line), AllButLast(str), b, gone)
<1> DEFINE m == Len(line)
           n == Len(str)
           l == AllButLast(line)
           t == AllButLast(str)
           P == Places(str, b)
           Q == Places(t, b)
<1>1. PICK at : LineAt(line, str, b, gone, at)
  BY DEF Line
<1> DEFINE new == [i \in 0 .. m - 1 |-> at[i]]
<1>2. m \in Nat /\ m > 0 /\ n \in Nat
  OBVIOUS
<1>3. /\ at \in [0 .. m -> 0 .. n] /\ at[m] = n /\ gone <= P[at[0]][1]
      /\ \A i \in 1 .. m : /\ at[i] = IF line[i] = NoGlyph THEN at[i - 1] ELSE at[i - 1] + 1
                           /\ line[i] # NoGlyph => str[at[i]] # "\n"
      /\ \A i \in 0 .. m : at[0] <= at[i] /\ Index(P[at[i]], b) <= Index(P[at[0]], b) + i
  BY <1>1 DEF LineAt
<1>4. /\ m \in 1 .. m /\ m - 1 \in 0 .. m /\ 0 \in 0 .. m /\ m \in 0 .. m
      /\ at[m - 1] \in 0 .. n /\ at[0] \in 0 .. n
  <2>1. m \in 1 .. m /\ m - 1 \in 0 .. m /\ 0 \in 0 .. m /\ m \in 0 .. m
    BY <1>2
  <2>2. at \in [0 .. m -> 0 .. n]
    BY <1>3
  <2>. HIDE DEF m, n
  <2>. QED
    BY <2>1, <2>2
<1>5. n = at[m - 1] + 1 /\ str[n] # "\n" /\ n > 0
  BY <1>2, <1>3, <1>4
<1>6. str[n] \in Glyphs
  BY <1>2, <1>5 DEF Chars
<1>7. /\ Len(l) = m - 1 /\ \A i \in 1 .. m - 1 : l[i] = line[i]
  <2>1. Len(line) > 0
    BY <1>2
  <2>. QED
    BY <2>1, Shorter
<1>8. /\ t \in Seq(Chars) /\ Len(t) = n - 1 /\ \A k \in 1 .. n - 1 : t[k] = str[k]
  BY <1>2, <1>5 DEF AllButLast
<1>9. str = Append(t, str[n])
  BY <1>2, <1>5, <1>8
<1>. HIDE DEF l, t
<1>10. \A k \in 0 .. n - 1 : Q[k] = P[k] /\ P[k] \in Cell(b)
  <2>1. Len(t) <= Len(str) /\ \A k \in 1 .. Len(t) : t[k] = str[k]
    BY <1>2, <1>8
  <2>2. \A k \in 0 .. Len(t) : Q[k] = P[k]
    BY <1>8, <2>1, PlacesPrefix
  <2>3. \A k \in 0 .. n : P[k] \in Cell(b)
    BY PlacesIn
  <2>. QED
    BY <1>2, <1>8, <2>2, <2>3
<1>11. ASSUME NEW i \in 0 .. m - 1 PROVE at[i] \in 0 .. n - 1
  <2> DEFINE T == {d \in 0 .. m - 1 : at[m - 1 - d] <= n - 1}
  <2>1. 0 \in T
    BY <1>2, <1>4, <1>5
  <2>2. ASSUME NEW d \in 0 .. (m - 1) - 1, d \in T PROVE d + 1 \in T
    <3>1. m - 1 - d \in 1 .. m /\ m - 1 - (d + 1) = (m - 1 - d) - 1 /\ m - 1 - (d + 1) \in 0 .. m
          /\ d + 1 \in 0 .. m - 1
      BY <1>2
    <3>2. at[m - 1 - d] \in {at[m - 1 - (d + 1)], at[m - 1 - (d + 1)] + 1}
      BY <1>3, <3>1
    <3>3. at[m - 1 - (d + 1)] \in Nat /\ at[m - 1 - d] <= n - 1 /\ at[m - 1 - d] \in Nat
      <4>1. m - 1 - d \in 0 .. m
        BY <3>1
      <4>2. at[m - 1 - (d + 1)] \in 0 .. n /\ at[m - 1 - d] \in 0 .. n
        BY <1>3, <3>1, <4>1
      <4>3. at[m - 1 - d] <= n - 1
        BY <2>2
      <4>. QED
        BY <1>2, <4>2, <4>3
    <3>. QED
      BY <1>2, <3>1, <3>2, <3>3
  <2>3. \A d \in 0 .. m - 1 : d \in T
    <3>1. m - 1 \in Nat
      BY <1>2
    <3>. HIDE DEF T, m
    <3>. QED
      BY <2>1, <2>2, <3>1, UpTo
  <2>4. m - 1 - i \in 0 .. m - 1 /\ m - 1 - (m - 1 - i) = i /\ i \in 0 .. m
    BY <1>2
  <2>5. at[i] <= n - 1
    BY <2>3, <2>4
  <2>6. at[i] \in 0 .. n
    BY <1>3, <2>4
  <2>. QED
    BY <1>2, <2>5, <2>6
<1>12. gone <= P[n - 1][1]
  <2>1. at[0] <= n - 1 /\ at[0] \in Nat /\ n - 1 \in 0 .. n /\ n - 1 \in 0 .. n - 1
    BY <1>2, <1>3, <1>4, <1>5
  <2>2. CASE at[0] = n - 1
    BY <1>3, <2>2
  <2>3. CASE at[0] < n - 1
    <3>1. Before(P[at[0]], P[n - 1])
      BY <1>4, <2>1, <2>3, PlacesGrow
    <3>2. at[0] \in 0 .. n - 1
      BY <2>1, <1>2
    <3>3. P[at[0]] \in Cell(b) /\ P[n - 1] \in Cell(b)
      BY <1>10, <2>1, <3>2
    <3>. QED
      BY <1>3, <3>1, <3>3 DEF Before, Cell
  <2>. QED
    BY <2>1, <2>2, <2>3
<1>. HIDE DEF P, Q, m, n
<1>13. /\ new \in [0 .. m - 1 -> 0 .. n - 1] /\ new[m - 1] = n - 1
       /\ 0 \in 0 .. m - 1 /\ \A i \in 0 .. m - 1 : new[i] = at[i] /\ at[i] \in 0 .. n - 1
  <2>1. at[m - 1] = n - 1 /\ m - 1 \in 0 .. m - 1 /\ 0 \in 0 .. m - 1
    BY <1>2, <1>4, <1>5
  <2>. QED
    BY <1>11, <2>1
<1>. HIDE DEF new
<1>14. gone <= Q[new[0]][1]
  <2>1. new[0] = at[0] /\ Q[at[0]] = P[at[0]]
    BY <1>10, <1>13
  <2>. QED
    BY <1>3, <2>1
<1>15. ASSUME NEW i \in 1 .. m - 1
       PROVE  /\ new[i] = IF l[i] = NoGlyph THEN new[i - 1] ELSE new[i - 1] + 1
              /\ l[i] # NoGlyph => t[new[i]] # "\n"
  <2>1. i \in 1 .. m /\ i - 1 \in 0 .. m - 1 /\ i \in 0 .. m - 1 /\ l[i] = line[i]
    BY <1>2, <1>7
  <2>2. new[i] = at[i] /\ new[i - 1] = at[i - 1] /\ at[i] \in 0 .. n - 1 /\ at[i - 1] \in 0 .. n - 1
    BY <1>13, <2>1
  <2>3. line[i] # NoGlyph => t[at[i]] = str[at[i]]
    BY <1>3, <1>8, <2>1, <2>2
  <2>. QED
    BY <1>3, <2>1, <2>2, <2>3
<1>16. ASSUME NEW i \in 0 .. m - 1
       PROVE  new[0] <= new[i] /\ Index(Q[new[i]], b) <= Index(Q[new[0]], b) + i
  <2>1. new[0] = at[0] /\ new[i] = at[i] /\ at[0] \in 0 .. n - 1 /\ at[i] \in 0 .. n - 1 /\ i \in 0 .. m
    BY <1>2, <1>13
  <2>. QED
    BY <1>3, <1>10, <2>1
<1>17. LineAt(l, t, b, gone, new)
  BY <1>7, <1>8, <1>13, <1>14, <1>15, <1>16 DEF LineAt, Q
<1>. QED
  BY <1>5, <1>6, <1>8, <1>9, <1>12, <1>17 DEF Line, l, t, n, P

-----------------------------------------------------------------------------
(* The invariant.                                                          *)

\* Until a key without a glyph is taken back the screen shows the text and
\* the line is its end.
ConsoleInv ==
  /\ g_console.ptr \in Surfaces /\ Now \in On(g_console.ptr)
  /\ shell_buffer \in Seq(Letters \cup {NoGlyph}) /\ Len(shell_buffer) <= MaxLine
  /\ opened \subseteq Terminals /\ erased \in BOOLEAN
  /\ ~erased => /\ Shows(Now, g_console.ptr, log, scrolled)
                /\ Line(shell_buffer, log, g_console.ptr, scrolled)

\* No surface changes but those of the console before and after.
OthersKept == \A q \in Surfaces : q # g_console.ptr /\ q # g_console'.ptr => pages'[q] = pages[q]

LEMMA NowIs ==
  ASSUME NEW b \in Surfaces, NEW t \in On(b), Becomes(t)
  PROVE  /\ Now' = t /\ g_console'.ptr = b /\ pages' = t.pages /\ g_console'.ptr \in Surfaces
         /\ Now' \in On(g_console'.ptr)
<1>1. t = [at |-> t.at, to |-> t.to, pages |-> t.pages] /\ t.at.ptr = b
  BY DEF On
<1>2. g_console' = t.at /\ ssfn_ptr' = t.to /\ pages' = t.pages
  BY DEF Becomes
<1>3. Now' = t
  BY <1>1, <1>2 DEF Now
<1>. QED
  BY <1>1, <1>2, <1>3

LEMMA CharsOf ==
  ASSUME ConsoleAssumption
  PROVE  /\ Prompt \in Seq(Chars) /\ \A out \in Outputs : out \in Seq(Chars)
         /\ "\n" \in Chars /\ Letters \subseteq Chars
         /\ <<"\n">> \o Prompt \in Seq(Chars)
         /\ \A out \in Outputs : <<"\n">> \o out \o <<"\n">> \o Prompt \in Seq(Chars)
<1>1. /\ Prompt \in Seq(Chars) /\ \A out \in Outputs : out \in Seq(Chars)
      /\ "\n" \in Chars /\ Letters \subseteq Chars
  BY DEF ConsoleAssumption, Chars
<1>2. <<"\n">> \in Seq(Chars)
  BY <1>1
<1>. QED
  BY <1>1, <1>2

LEMMA EmptyLine == <<>> \in Seq(Letters \cup {NoGlyph}) /\ (MaxLine \in Nat => Len(<<>>) <= MaxLine)
OBVIOUS

LEMMA ConsoleStarts == ASSUME ConsoleAssumption, ConsoleInit PROVE ConsoleInv
<1> DEFINE b == Framebuffer
           s == [at |-> [ptr |-> b, x |-> 0, y |-> 0], to |-> b, pages |-> [q \in Surfaces |-> Empty(q)]]
           t == console_puts(s, Prompt)
<1>1. /\ g_console = t.at /\ ssfn_ptr = t.to /\ pages = t.pages
      /\ shell_buffer = <<>> /\ opened = {}
      /\ log = Prompt /\ scrolled = Scrolled(Prompt, Framebuffer, 0) /\ erased = FALSE
  BY DEF ConsoleInit
<1>2. b \in Surfaces /\ Prompt \in Seq(Chars)
  BY CharsOf DEF Surfaces
<1>3. Shows(s, b, <<>>, 0)
  <2>1. [q \in Surfaces |-> Empty(q)] \in AllPages /\ [q \in Surfaces |-> Empty(q)][b] = Empty(b)
    BY <1>2, EmptyPages
  <2>. QED
    BY <1>2, <2>1, EmptyShows
<1>. HIDE DEF b, s
<1>4. Shows(t, b, <<>> \o Prompt, Scrolled(<<>> \o Prompt, b, 0))
  BY <1>2, <1>3, PutsShows
<1>5. <<>> \o Prompt = Prompt
  BY <1>2
<1>. HIDE DEF t
<1>6. Shows(t, b, log, scrolled) /\ t \in On(b)
  BY <1>1, <1>4, <1>5 DEF Shows, b
<1>7. t = [at |-> t.at, to |-> t.to, pages |-> t.pages] /\ t.at.ptr = b
  BY <1>6 DEF On
<1>8. Now = t /\ g_console.ptr = b
  BY <1>1, <1>7 DEF Now
<1>9. Line(shell_buffer, log, b, scrolled)
  BY <1>1, <1>2, <1>6, LineBegins
<1>10. MaxLine \in Nat
  BY DEF ConsoleAssumption
<1>. QED
  BY <1>1, <1>2, <1>6, <1>8, <1>9, <1>10, EmptyLine DEF ConsoleInv

LEMMA TypeCharKeeps ==
  ASSUME ConsoleAssumption, LineAssumption, ConsoleInv, NEW c \in Letters \cup {NoGlyph}, TypeChar(c)
  PROVE  ConsoleInv' /\ OthersKept
<1> DEFINE b == g_console.ptr
           s == Now
           t == console_putc(s, c)
<1>1. /\ b \in Surfaces /\ s \in On(b) /\ shell_buffer \in Seq(Letters \cup {NoGlyph})
      /\ opened \subseteq Terminals /\ erased \in BOOLEAN
      /\ ~erased => Shows(s, b, log, scrolled) /\ Line(shell_buffer, log, b, scrolled)
  BY DEF ConsoleInv
<1>2. /\ Len(shell_buffer) < MaxLine /\ Becomes(t) /\ shell_buffer' = Append(shell_buffer, c)
      /\ Logged(IF c = NoGlyph THEN log ELSE Append(log, c)) /\ UNCHANGED <<opened, erased>>
  BY DEF TypeChar
<1>3. s.pages = pages
  BY DEF Now
<1>4. shell_buffer' \in Seq(Letters \cup {NoGlyph}) /\ Len(shell_buffer') <= MaxLine
  <2>1. MaxLine \in Nat
    BY DEF ConsoleAssumption
  <2>. QED
    BY <1>1, <1>2, <2>1
<1>5. CASE c = NoGlyph
  <2>. HIDE DEF s
  <2>1. t = s
    <3>1. /\ s.at.x \in 0 .. Columns[b] - 1 /\ s.at.y \in 0 .. Rows[b] - 1 /\ s.at.ptr = b
          /\ Columns[b] \in Nat /\ Rows[b] \in Nat
      BY <1>1, OnIs, SizeIs
    <3>2. ~(s.at.x + 1 > RowLength(s)) /\ ~PastBottom(s)
      BY <3>1 DEF RowLength, PastBottom, RowCount
    <3>3. c # "\n"
      BY <1>5 DEF ConsoleAssumption
    <3>. QED
      BY <1>5, <3>2, <3>3 DEF console_putc, ssfn_putc, Wrapped
  <2>2. /\ Now' = s /\ g_console'.ptr = b /\ pages' = s.pages /\ g_console'.ptr \in Surfaces
        /\ Now' \in On(g_console'.ptr)
    BY <1>1, <1>2, <2>1, NowIs
  <2>3. ~erased => log' = log /\ scrolled' = scrolled
    BY <1>1, <1>2, <1>5, ScrolledShown DEF Logged
  <2>4. ~erased => log \in Seq(Chars)
    BY <1>1 DEF Shows
  <2>5. ~erased => Line(shell_buffer', log, b, scrolled)
    BY <1>1, <1>2, <1>5, <2>4, LineStays
  <2>6. erased' = erased /\ opened' = opened
    BY <1>2
  <2>. HIDE DEF b
  <2>7. ConsoleInv'
    BY <1>1, <1>4, <2>2, <2>3, <2>5, <2>6 DEF ConsoleInv
  <2>. QED
    BY <1>3, <2>2, <2>7 DEF OthersKept
<1>6. CASE c # NoGlyph
  <2>0. c \in Letters /\ c \in Chars
    BY <1>6, CharsOf
  <2>. HIDE DEF s
  <2>1. t \in On(b) /\ \A q \in Surfaces : q # b => t.pages[q] = s.pages[q]
    BY <1>1, <2>0, PutcOn
  <2>. HIDE DEF t
  <2>2. /\ Now' = t /\ g_console'.ptr = b /\ pages' = t.pages /\ g_console'.ptr \in Surfaces
        /\ Now' \in On(g_console'.ptr)
    BY <1>1, <1>2, <2>1, NowIs
  <2>3. log' = Append(log, c) /\ scrolled' = Scrolled(Append(log, c), b, scrolled)
    BY <1>2, <1>6 DEF Logged
  <2>4. ~erased => Shows(t, b, log', scrolled')
    BY <1>1, <2>0, <2>3, PutcShows DEF t
  <2>5. ~erased => Line(shell_buffer', log', b, scrolled')
    BY <1>1, <1>2, <2>0, <2>3, LineGrows
  <2>6. erased' = erased /\ opened' = opened
    BY <1>2
  <2>. HIDE DEF b
  <2>7. ConsoleInv'
    BY <1>1, <1>4, <2>2, <2>4, <2>5, <2>6 DEF ConsoleInv
  <2>. QED
    BY <1>3, <2>1, <2>2, <2>7 DEF OthersKept, b
<1>. QED
  BY <1>5, <1>6

LEMMA BackspaceKeeps ==
  ASSUME ConsoleAssumption, ConsoleInv, Backspace
  PROVE  ConsoleInv' /\ OthersKept
<1> DEFINE b == g_console.ptr
           s == Now
           t == console_backspace(s)
           last == shell_buffer[Len(shell_buffer)]
<1>1. /\ b \in Surfaces /\ s \in On(b) /\ shell_buffer \in Seq(Letters \cup {NoGlyph})
      /\ opened \subseteq Terminals /\ erased \in BOOLEAN /\ Len(shell_buffer) <= MaxLine
      /\ ~erased => Shows(s, b, log, scrolled) /\ Line(shell_buffer, log, b, scrolled)
  BY DEF ConsoleInv
<1>2. /\ shell_buffer # <<>> /\ Becomes(t) /\ shell_buffer' = AllButLast(shell_buffer)
      /\ IF last = NoGlyph THEN erased' = TRUE /\ UNCHANGED log
         ELSE log' = AllButLast(log) /\ UNCHANGED erased
      /\ UNCHANGED <<opened, scrolled>>
  BY DEF Backspace
<1>3. s.pages = pages
  BY DEF Now
<1>4. shell_buffer' \in Seq(Letters \cup {NoGlyph}) /\ Len(shell_buffer') <= MaxLine
  <2>1. MaxLine \in Nat
    BY DEF ConsoleAssumption
  <2>2. Len(shell_buffer) > 0 /\ Len(shell_buffer) \in Nat
    BY <1>1, <1>2
  <2>3. /\ AllButLast(shell_buffer) \in Seq(Letters \cup {NoGlyph})
        /\ Len(AllButLast(shell_buffer)) = Len(shell_buffer) - 1
    BY <1>1, <2>2, Shorter
  <2>. QED
    BY <1>1, <1>2, <2>1, <2>2, <2>3
<1>. HIDE DEF s
<1>5. t \in On(b) /\ \A q \in Surfaces : q # b => t.pages[q] = s.pages[q]
  BY <1>1, BackspaceOn
<1>. HIDE DEF t
<1>6. /\ Now' = t /\ g_console'.ptr = b /\ pages' = t.pages /\ g_console'.ptr \in Surfaces
      /\ Now' \in On(g_console'.ptr)
  BY <1>1, <1>2, <1>5, NowIs
<1>. HIDE DEF last
<1>7. CASE last = NoGlyph
  <2>1. erased' = TRUE /\ opened' = opened
    BY <1>2, <1>7
  <2>2. ConsoleInv'
    BY <1>1, <1>4, <1>6, <2>1 DEF ConsoleInv
  <2>. QED
    BY <1>3, <1>5, <1>6, <2>2 DEF OthersKept
<1>8. CASE last # NoGlyph
  <2>1. log' = AllButLast(log) /\ erased' = erased /\ opened' = opened /\ scrolled' = scrolled
    BY <1>2, <1>8
  <2>2. ASSUME ~erased PROVE Shows(t, b, log', scrolled') /\ Line(shell_buffer', log', b, scrolled')
    <3>1. Shows(s, b, log, scrolled) /\ log \in Seq(Chars) /\ scrolled \in Nat
          /\ Line(shell_buffer, log, b, scrolled)
      BY <1>1, <2>2 DEF Shows
    <3>. HIDE DEF b
    <3>2. /\ log[Len(log)] \in Glyphs
          /\ AllButLast(log) \in Seq(Chars) /\ log = Append(AllButLast(log), log[Len(log)])
          /\ scrolled <= Places(log, b)[Len(AllButLast(log))][1]
          /\ Line(AllButLast(shell_buffer), AllButLast(log), b, scrolled)
      BY <1>1, <1>2, <1>8, <3>1, LineShrinks DEF last
    <3>3. Shows(t, b, AllButLast(log), scrolled)
      BY <1>1, <3>1, <3>2, BackspaceShows DEF t
    <3>. QED
      BY <1>2, <2>1, <3>2, <3>3
  <2>. HIDE DEF b
  <2>3. ConsoleInv'
    BY <1>1, <1>4, <1>6, <2>1, <2>2 DEF ConsoleInv
  <2>. QED
    BY <1>3, <1>5, <1>6, <2>3 DEF OthersKept, b
<1>. QED
  BY <1>7, <1>8

LEMMA EnterKeeps ==
  ASSUME ConsoleAssumption, ConsoleInv, Enter
  PROVE  ConsoleInv' /\ OthersKept
<1> DEFINE b == g_console.ptr
           s == Now
<1>1. /\ b \in Surfaces /\ s \in On(b)
      /\ opened \subseteq Terminals /\ erased \in BOOLEAN
      /\ ~erased => Shows(s, b, log, scrolled)
  BY DEF ConsoleInv
<1>2. PICK out \in Outputs : /\ Becomes(console_puts(s, <<"\n">> \o out \o <<"\n">> \o Prompt))
                            /\ Logged(log \o (<<"\n">> \o out \o <<"\n">> \o Prompt))
  BY DEF Enter
<1> DEFINE str == <<"\n">> \o out \o <<"\n">> \o Prompt
           t == console_puts(s, str)
<1>3. /\ Becomes(t) /\ log' = log \o str /\ scrolled' = Scrolled(log \o str, b, scrolled)
      /\ shell_buffer' = <<>> /\ UNCHANGED <<opened, erased>> /\ s.pages = pages
      /\ MaxLine \in Nat
  BY <1>2 DEF Enter, Command, Logged, Now, ConsoleAssumption
<1>4. str \in Seq(Chars)
  BY CharsOf
<1>. HIDE DEF s, str
<1>5. t \in On(b) /\ \A q \in Surfaces : q # b => t.pages[q] = s.pages[q]
  BY <1>1, <1>4, PutsOn
<1>6. ~erased => Shows(t, b, log', scrolled')
  BY <1>1, <1>3, <1>4, PutsShows
<1>. HIDE DEF t
<1>7. /\ Now' = t /\ g_console'.ptr = b /\ pages' = t.pages /\ g_console'.ptr \in Surfaces
      /\ Now' \in On(g_console'.ptr)
  BY <1>1, <1>3, <1>5, NowIs
<1>8. ~erased => Line(<<>>, log', b, scrolled')
  BY <1>1, <1>6, LineBegins
<1>9. erased' = erased /\ opened' = opened
  BY <1>3
<1>. HIDE DEF b
<1>10. ConsoleInv'
  BY <1>1, <1>3, <1>6, <1>7, <1>8, <1>9, EmptyLine DEF ConsoleInv
<1>. QED
  BY <1>3, <1>5, <1>7, <1>10 DEF OthersKept, b

LEMMA RestartedKeeps ==
  ASSUME ConsoleAssumption, NEW b \in Surfaces, NEW s \in On(b), Restarted(s),
         shell_buffer' = <<>>, opened' \subseteq Terminals
  PROVE  /\ ConsoleInv' /\ g_console'.ptr = b
         /\ \A q \in Surfaces : q # b => pages'[q] = s.pages[q]
<1> DEFINE str == <<"\n">> \o Prompt
           u == console_clear(s)
           t == console_puts(u, str)
<1>1. /\ Becomes(t) /\ log' = str /\ scrolled' = Scrolled(str, s.at.ptr, 0) /\ erased' = FALSE
  BY DEF Restarted
<1>2. s.at.ptr = b /\ str \in Seq(Chars) /\ MaxLine \in Nat
  BY OnIs, CharsOf DEF ConsoleAssumption
<1>. HIDE DEF str
<1>3. Shows(u, b, <<>>, 0) /\ \A q \in Surfaces : q # b => u.pages[q] = s.pages[q]
  BY ClearShows
<1>. HIDE DEF u
<1>4. u \in On(b)
  BY <1>3 DEF Shows
<1>5. t \in On(b) /\ \A q \in Surfaces : q # b => t.pages[q] = u.pages[q]
  BY <1>2, <1>4, PutsOn
<1>6. Shows(t, b, log', scrolled')
  <2>1. <<>> \o str = str
    BY <1>2
  <2>2. Shows(t, b, <<>> \o str, Scrolled(<<>> \o str, b, 0))
    BY <1>2, <1>3, PutsShows
  <2>. QED
    BY <1>1, <1>2, <2>1, <2>2
<1>. HIDE DEF t
<1>7. /\ Now' = t /\ g_console'.ptr = b /\ pages' = t.pages /\ g_console'.ptr \in Surfaces
      /\ Now' \in On(g_console'.ptr)
  BY <1>1, <1>5, NowIs
<1>8. Line(<<>>, log', b, scrolled')
  BY <1>6, LineBegins
<1>9. ConsoleInv'
  BY <1>1, <1>2, <1>6, <1>7, <1>8, EmptyLine DEF ConsoleInv
<1>. QED
  BY <1>3, <1>5, <1>7, <1>9

LEMMA ClearKeeps ==
  ASSUME ConsoleAssumption, ConsoleInv, ClearCommand
  PROVE  ConsoleInv' /\ OthersKept
<1> DEFINE b == g_console.ptr
           s == console_putc(Now, "\n")
<1>1. b \in Surfaces /\ Now \in On(b) /\ Now.pages = pages /\ "\n" \in Chars
  BY CharsOf DEF ConsoleInv, Now
<1>2. s \in On(b) /\ \A q \in Surfaces : q # b => s.pages[q] = Now.pages[q]
  BY <1>1, PutcOn
<1>3. Restarted(s) /\ shell_buffer' = <<>> /\ opened' \subseteq Terminals
  BY DEF ClearCommand, Command, ConsoleInv
<1>. HIDE DEF s, b
<1>4. ConsoleInv' /\ g_console'.ptr = b /\ \A q \in Surfaces : q # b => pages'[q] = s.pages[q]
  BY <1>1, <1>2, <1>3, RestartedKeeps
<1>. QED
  BY <1>1, <1>2, <1>4 DEF OthersKept, b

LEMMA MoveKeeps ==
  ASSUME ConsoleAssumption, ConsoleInv, MoveToWindow
  PROVE  ConsoleInv' /\ OthersKept
<1> DEFINE b == g_console.ptr
           s == console_putc(Now, "\n")
<1>1. b \in Surfaces /\ Now \in On(b) /\ Now.pages = pages /\ "\n" \in Chars
  BY CharsOf DEF ConsoleInv, Now
<1>2. s \in On(b) /\ \A q \in Surfaces : q # b => s.pages[q] = Now.pages[q]
  BY <1>1, PutcOn
<1>3. PICK d \in Terminals \ opened :
        opened' = opened \cup {d} /\ Restarted(console_set_target(s, d))
  BY DEF MoveToWindow
<1>4. shell_buffer' = <<>> /\ opened' \subseteq Terminals /\ d \in Surfaces
  BY <1>3 DEF MoveToWindow, Command, ConsoleInv, Surfaces
<1> DEFINE m == console_set_target(s, d)
<1>. HIDE DEF s, b
<1>5. m = [at |-> [ptr |-> d, x |-> 0, y |-> 0], to |-> d, pages |-> s.pages]
  BY <1>2, TargetIs
<1>. HIDE DEF m
<1>6. m \in On(d) /\ m.pages = s.pages
  <2>1. s.pages \in AllPages
    BY <1>2, OnIs
  <2>. QED
    BY <1>4, <1>5, <2>1, SizeIs DEF On
<1>7. ConsoleInv' /\ g_console'.ptr = d /\ \A q \in Surfaces : q # d => pages'[q] = m.pages[q]
  BY <1>3, <1>4, <1>6, RestartedKeeps DEF m
<1>. QED
  BY <1>1, <1>2, <1>6, <1>7 DEF OthersKept, b

LEMMA ConsoleKeeps ==
  ASSUME ConsoleAssumption, LineAssumption, ConsoleInv, [ConsoleNext]_consoleVars
  PROVE  ConsoleInv' /\ OthersKept
<1>1. CASE \E c \in Letters \cup {NoGlyph} : TypeChar(c)
  BY <1>1, TypeCharKeeps
<1>2. CASE Backspace
  BY <1>2, BackspaceKeeps
<1>3. CASE Enter
  BY <1>3, EnterKeeps
<1>4. CASE ClearCommand
  BY <1>4, ClearKeeps
<1>5. CASE MoveToWindow
  BY <1>5, MoveKeeps
<1>6. CASE console_draw_glyph \/ UNCHANGED consoleVars
  <2>1. UNCHANGED <<g_console, ssfn_ptr, pages, shell_buffer, opened, log, scrolled, erased>>
    BY <1>6 DEF console_draw_glyph, RendererRestored, consoleVars, shown, history
  <2>2. Now' = Now
    BY <2>1 DEF Now
  <2>. QED
    BY <2>1, <2>2 DEF ConsoleInv, OthersKept
<1>. QED
  BY <1>1, <1>2, <1>3, <1>4, <1>5, <1>6 DEF ConsoleNext

LEMMA InvShows ==
  ASSUME ConsoleAssumption, ConsoleInv
  PROVE  ScreenShowsText
<1>1. /\ g_console.ptr \in Surfaces /\ Now \in On(g_console.ptr) /\ pages \in AllPages
      /\ g_console.x \in 0 .. Columns[g_console.ptr] - 1
      /\ g_console.y \in 0 .. Rows[g_console.ptr] - 1
  BY DEF ConsoleInv, Now, On
<1>2. ASSUME NEW b \in Surfaces
      PROVE  Len(pages[b]) = Rows[b] /\ \A r \in 1 .. Rows[b] : Len(pages[b][r]) = Columns[b]
  <2>1. pages[b] \in Page(b) /\ Rows[b] \in Nat /\ Columns[b] \in Nat
    BY <1>1, SizeIs DEF AllPages
  <2>2. pages[b] \in [1 .. Rows[b] -> [1 .. Columns[b] -> Cells]]
    BY <2>1 DEF Page
  <2>3. Len(pages[b]) = Rows[b]
    BY <2>1, <2>2
  <2>4. ASSUME NEW r \in 1 .. Rows[b] PROVE Len(pages[b][r]) = Columns[b]
    <3>1. pages[b][r] \in [1 .. Columns[b] -> Cells]
      BY <2>2
    <3>. QED
      BY <2>1, <3>1
  <2>. QED
    BY <2>3, <2>4
<1>3. CursorInside
  BY <1>1, <1>2 DEF CursorInside, ConsoleInv
<1>4. ~erased => /\ pages[g_console.ptr] = Layout(log, g_console.ptr, scrolled)
                /\ <<g_console.y + scrolled, g_console.x>> = Places(log, g_console.ptr)[Len(log)]
  BY DEF ConsoleInv, Shows, Now
<1>. QED
  BY <1>3, <1>4 DEF ScreenShowsText

LEMMA ConsoleHolds == ASSUME ConsoleAssumption, LineAssumption PROVE ConsoleSpec => []ConsoleInv
<1>1. ConsoleInit => ConsoleInv
  BY ConsoleStarts
<1>2. ConsoleInv /\ [ConsoleNext]_consoleVars => ConsoleInv'
  BY ConsoleKeeps
<1>. QED
  BY <1>1, <1>2, PTL DEF ConsoleSpec

\* For every size of the surfaces and every text that is printed the screen
\* shows the end of the text, the line last, if a whole line fits on the
\* screen (console.cpp lines 87-152, idt.cpp lines 232-254).
THEOREM TextOnScreen ==
  ASSUME ConsoleAssumption, LineAssumption PROVE ConsoleSpec => []ScreenShowsText
<1>1. ConsoleInv => ScreenShowsText
  BY InvShows
<1>. QED
  BY <1>1, ConsoleHolds, PTL

\* Nothing of the console appears on a surface that is not its own
\* (console.cpp lines 48-59, 156-190).
THEOREM OthersUntouched ==
  ASSUME ConsoleAssumption, LineAssumption PROVE ConsoleSpec => OnlyTargetChanges
<1>1. ConsoleInv /\ [ConsoleNext]_consoleVars =>
        [\A b \in Surfaces : b # g_console.ptr /\ b # g_console'.ptr => pages'[b] = pages[b]]_consoleVars
  BY ConsoleKeeps DEF OthersKept
<1>. QED
  BY <1>1, ConsoleHolds, PTL DEF ConsoleSpec, OnlyTargetChanges

-----------------------------------------------------------------------------
(* Commands: text.                                                         *)

\* What stands in a sequence from some place on.
From(s, k) == SubSeq(s, k + 1, Len(s))

LEMMA FromIs ==
  ASSUME NEW S, NEW s \in Seq(S), NEW k \in 0 .. Len(s)
  PROVE  /\ From(s, k) \in Seq(S) /\ Len(From(s, k)) = Len(s) - k
         /\ From(s, k) = [i \in 1 .. Len(s) - k |-> s[k + i]]
         /\ \A i \in 1 .. Len(s) - k : From(s, k)[i] = s[k + i]
         /\ IsSuffix(From(s, k), s)
<1> DEFINE t == From(s, k)
<1>1. Len(s) \in Nat /\ k \in Nat /\ Len(s) - k \in Nat /\ s \in [1 .. Len(s) -> S]
  OBVIOUS
<1>2. t \in Seq(S) /\ Len(t) = Len(s) - k /\ t = [i \in 1 .. Len(s) - k |-> s[k + i]]
  <2> DEFINE m == Len(s) - k
             f == [i \in 1 .. m |-> s[k + i]]
  <2>1. \A i \in 1 .. m : k + i \in 1 .. Len(s) /\ s[k + i] \in S
    BY <1>1
  <2>2. f \in Seq(S) /\ Len(f) = m
    BY <1>1, <2>1
  <2>3. /\ t \in Seq(S)
        /\ Len(t) = IF k + 1 <= Len(s) THEN Len(s) - (k + 1) + 1 ELSE 0
        /\ \A i \in 1 .. Len(s) - (k + 1) + 1 : t[i] = s[(k + 1) + i - 1]
    <3>1. \A i \in k + 1 .. Len(s) : s[i] \in S
      BY <1>1
    <3>. QED
      BY <1>1, <3>1, SubSeqProperties DEF From
  <2>4. Len(t) = m /\ \A i \in 1 .. m : t[i] = s[k + i]
    <3>1. m \in Nat /\ Len(s) - (k + 1) + 1 = m /\ (~(k + 1 <= Len(s)) => m = 0)
      <4> DEFINE n == Len(s)
      <4>1. n \in Nat /\ k \in Nat /\ n - k \in Nat
        BY <1>1
      <4>. HIDE DEF n
      <4>2. n - (k + 1) + 1 = n - k /\ (~(k + 1 <= n) => n - k = 0)
        BY <4>1
      <4>. QED
        BY <4>1, <4>2 DEF n
    <3>2. \A i \in 1 .. m : (k + 1) + i - 1 = k + i
      BY <1>1
    <3>. HIDE DEF t, m
    <3>. QED
      BY <2>3, <3>1, <3>2
  <2>. HIDE DEF t
  <2>5. t \in Seq(S) /\ Len(t) = m /\ \A i \in 1 .. m : t[i] = f[i]
    BY <2>3, <2>4
  <2>6. m \in Nat
    BY <1>1
  <2>. HIDE DEF f, m
  <2>7. t = f
    BY <2>2, <2>5, <2>6
  <2>. QED
    BY <2>2, <2>7 DEF f, m
<1>3. \A i \in 1 .. Len(s) - k : t[i] = s[k + i]
  BY <1>2
<1>. HIDE DEF t
<1>4. Reverse(s) \in Seq(S) /\ Len(Reverse(s)) = Len(s)
      /\ \A i \in 1 .. Len(s) : Reverse(s)[i] = s[Len(s) - i + 1]
  BY <1>1 DEF Reverse
<1>5. Reverse(t) \in Seq(S) /\ Len(Reverse(t)) = Len(t)
      /\ \A i \in 1 .. Len(t) : Reverse(t)[i] = t[Len(t) - i + 1]
  BY <1>2 DEF Reverse
<1> DEFINE n == Len(t)
           u == SubSeq(Reverse(t), 1, n)
           v == SubSeq(Reverse(s), 1, n)
<1>6. n \in Nat /\ n <= Len(s)
  BY <1>1, <1>2
<1>7. u \in Seq(S) /\ v \in Seq(S) /\ Len(u) = n /\ Len(v) = n
      /\ \A i \in 1 .. n : u[i] = Reverse(t)[i] /\ v[i] = Reverse(s)[i]
  BY <1>1, <1>4, <1>5, <1>6
<1>8. ASSUME NEW i \in 1 .. n PROVE u[i] = v[i]
  <2>1. Len(t) - i + 1 \in 1 .. Len(s) - k /\ k + (Len(t) - i + 1) = Len(s) - i + 1
    BY <1>1, <1>2, <1>6
  <2>2. t[Len(t) - i + 1] = s[Len(s) - i + 1]
    <3>1. t[Len(t) - i + 1] = s[k + (Len(t) - i + 1)]
      BY <1>3, <2>1
    <3>. QED
      BY <2>1, <3>1
  <2>3. i \in 1 .. Len(s) /\ i \in 1 .. Len(t)
    BY <1>1, <1>6
  <2>. QED
    BY <1>4, <1>5, <1>7, <2>2, <2>3
<1>9. u = v
  <2>. HIDE DEF u, v, n
  <2>. QED
    BY <1>6, <1>7, <1>8
<1>10. IsSuffix(t, s)
  BY <1>4, <1>5, <1>6, <1>9 DEF IsSuffix, IsPrefix
<1>. QED
  BY <1>2, <1>3, <1>10 DEF t

LEMMA FromFrom ==
  ASSUME NEW S, NEW s \in Seq(S), NEW k \in 0 .. Len(s), NEW l \in 0 .. Len(s) - k
  PROVE  From(From(s, k), l) = From(s, k + l)
<1> DEFINE t == From(s, k)
<1>1. Len(s) \in Nat /\ k + l \in 0 .. Len(s) /\ Len(s) - (k + l) \in Nat /\ Len(s) - k - l = Len(s) - (k + l)
  OBVIOUS
<1>2. t \in Seq(S) /\ Len(t) = Len(s) - k /\ \A i \in 1 .. Len(s) - k : t[i] = s[k + i]
  BY FromIs
<1>. HIDE DEF t
<1>3. l \in 0 .. Len(t)
  BY <1>2
<1>4. From(t, l) = [i \in 1 .. Len(t) - l |-> t[l + i]]
  <2>1. t \in Seq(S)
    BY <1>2
  <2>. QED
    BY <1>3, <2>1, FromIs
<1>5. From(s, k + l) = [i \in 1 .. Len(s) - (k + l) |-> s[(k + l) + i]]
  BY <1>1, FromIs
<1>6. ASSUME NEW i \in 1 .. Len(s) - (k + l) PROVE t[l + i] = s[(k + l) + i]
  <2>1. l + i \in 1 .. Len(s) - k /\ k + (l + i) = (k + l) + i
    BY <1>1
  <2>. QED
    BY <1>2, <2>1
<1>. QED
  BY <1>1, <1>2, <1>4, <1>5, <1>6 DEF t

\* A string ends at the first NUL.
LEMMA CStringIs ==
  ASSUME CommandAssumption, NEW s \in Seq(Units), Len(s) < MAX_COMMAND_LEN,
         NEW buffer, buffer[Len(s)] = NUL, \A i \in 0 .. Len(s) - 1 : buffer[i] = s[i + 1],
         NEW k \in 0 .. Len(s)
  PROVE  CString(buffer, k) = From(s, k)
<1> DEFINE M == MAX_COMMAND_LEN
           n == Len(s)
           Ends(i) == buffer[i] = NUL /\ \A j \in k .. i - 1 : buffer[j] # NUL
           end == CHOOSE i \in k .. M - 1 : Ends(i)
<1>1. n \in Nat /\ M \in Nat /\ n < M /\ n \in k .. M - 1
  BY DEF CommandAssumption
<1>2. \A j \in 0 .. n - 1 : buffer[j] # NUL
  <2>1. ASSUME NEW j \in 0 .. n - 1 PROVE buffer[j] # NUL
    <3>1. j + 1 \in 1 .. n
      BY <1>1
    <3>2. s[j + 1] \in Units
      BY <3>1
    <3>. QED
      BY <3>2 DEF CommandAssumption
  <2>. QED
    BY <2>1
<1>3. Ends(n)
  BY <1>1, <1>2
<1>4. end \in k .. M - 1 /\ Ends(end)
  BY <1>1, <1>3
<1>5. end = n
  <2>1. ~(end < n)
    BY <1>1, <1>2, <1>4
  <2>2. ~(n < end)
    BY <1>1, <1>3, <1>4
  <2>. QED
    BY <1>1, <1>4, <2>1, <2>2
<1>6. CString(buffer, k) = [i \in 1 .. end - k |-> buffer[k + i - 1]]
  BY DEF CString
<1>. HIDE DEF end, Ends
<1>7. ASSUME NEW i \in 1 .. n - k PROVE buffer[k + i - 1] = s[k + i]
  <2>1. k + i - 1 \in 0 .. n - 1 /\ (k + i - 1) + 1 = k + i
    BY <1>1
  <2>. QED
    BY <2>1
<1>8. From(s, k) = [i \in 1 .. n - k |-> s[k + i]]
  BY FromIs
<1>. QED
  BY <1>5, <1>6, <1>7, <1>8

\* Spaces and no more are passed over.
LEMMA NextArgIs ==
  ASSUME NEW S, NEW s \in Seq(S)
  PROVE  \E k \in 0 .. Len(s) : /\ next_arg(s) = From(s, k)
                                /\ \A j \in 1 .. k : s[j] = Space
                                /\ k < Len(s) => s[k + 1] # Space
<1> DEFINE n == Len(s)
           Stops(i) == (i > n \/ s[i] # Space) /\ \A j \in 1 .. i - 1 : s[j] = Space
           first == CHOOSE i \in 1 .. n + 1 : Stops(i)
           T == {k \in 0 .. n : \A j \in 1 .. k : s[j] = Space}
<1>1. n \in Nat
  OBVIOUS
<1>2. \E i \in 1 .. n + 1 : Stops(i)
  <2>1. SUFFICES ASSUME \A i \in 1 .. n + 1 : ~Stops(i) PROVE FALSE
    OBVIOUS
  <2>2. 0 \in T
    BY <1>1
  <2>3. ASSUME NEW k \in 0 .. n - 1, k \in T PROVE k + 1 \in T
    <3>1. k + 1 \in 1 .. n + 1 /\ ~(k + 1 > n) /\ (k + 1) - 1 = k
      BY <1>1
    <3>2. \A j \in 1 .. k : s[j] = Space
      BY <2>3
    <3>3. s[k + 1] = Space
      BY <2>1, <3>1, <3>2
    <3>4. \A j \in 1 .. k + 1 : j \in 1 .. k \/ j = k + 1
      BY <1>1
    <3>. QED
      BY <1>1, <3>1, <3>2, <3>3, <3>4
  <2>. HIDE DEF T
  <2>4. n \in T
    <3>1. n \in 0 .. n
      BY <1>1
    <3>. HIDE DEF n
    <3>. QED
      BY <1>1, <2>2, <2>3, <3>1, UpTo
  <2>5. Stops(n + 1)
    BY <1>1, <2>4 DEF T
  <2>. QED
    BY <1>1, <2>1, <2>5
<1>3. first \in 1 .. n + 1 /\ Stops(first)
  BY <1>2
<1>4. next_arg(s) = SubSeq(s, first, n)
  BY DEF next_arg
<1>. HIDE DEF first
<1>5. first - 1 \in 0 .. n /\ (first - 1) + 1 = first
  BY <1>1, <1>3
<1>6. /\ next_arg(s) = From(s, first - 1)
      /\ \A j \in 1 .. first - 1 : s[j] = Space
      /\ first - 1 < n => s[(first - 1) + 1] # Space
  BY <1>1, <1>3, <1>4, <1>5 DEF From
<1>. QED
  BY <1>5, <1>6

-----------------------------------------------------------------------------
(* Numbers.                                                                *)

\* A recursion over the characters of a text: each result follows from the
\* one before by G.
LEMMA Recursion ==
  ASSUME NEW n \in Nat, NEW G \in [Nat \X (1 .. n) -> Nat]
  PROVE  \E f \in [0 .. n -> Nat] : f[0] = 0 /\ \A k \in 1 .. n : f[k] = G[<<f[k - 1], k>>]
<1> DEFINE Upto(m, f) == f[0] = 0 /\ \A k \in 1 .. m : f[k] = G[<<f[k - 1], k>>]
           T == {m \in 0 .. n : \E f \in [0 .. m -> Nat] : Upto(m, f)}
<1>1. 0 \in T
  <2> DEFINE g == [k \in 0 .. 0 |-> 0]
  <2>1. g \in [0 .. 0 -> Nat] /\ Upto(0, g) /\ 0 \in 0 .. n
    OBVIOUS
  <2>. HIDE DEF g
  <2>. QED
    BY <2>1
<1>2. ASSUME NEW m \in 0 .. n - 1, m \in T PROVE m + 1 \in T
  <2>1. PICK f \in [0 .. m -> Nat] : Upto(m, f)
    BY <1>2
  <2> DEFINE g == [k \in 0 .. m + 1 |-> IF k = m + 1 THEN G[<<f[m], m + 1>>] ELSE f[k]]
  <2>2. m \in Nat /\ m \in 0 .. m /\ m + 1 \in 1 .. n /\ m + 1 \in 0 .. n
    OBVIOUS
  <2>3. g[m + 1] = G[<<f[m], m + 1>>] /\ g[m + 1] \in Nat
    <3>1. <<f[m], m + 1>> \in Nat \X (1 .. n)
      BY <2>2
    <3>2. m + 1 \in 0 .. m + 1
      BY <2>2
    <3>. QED
      BY <3>1, <3>2
  <2>4. \A k \in 0 .. m : g[k] = f[k]
    BY <2>2
  <2>5. \A k \in 0 .. m + 1 : k \in 0 .. m \/ k = m + 1
    BY <2>2
  <2>6. g \in [0 .. m + 1 -> Nat]
    <3>1. \A k \in 0 .. m + 1 : g[k] \in Nat
      BY <2>3, <2>4, <2>5
    <3>. QED
      BY <3>1
  <2>. HIDE DEF g
  <2>7. Upto(m + 1, g)
    <3>1. g[0] = 0
      BY <2>1, <2>2, <2>4
    <3>2. ASSUME NEW k \in 1 .. m + 1 PROVE g[k] = G[<<g[k - 1], k>>]
      <4>1. CASE k = m + 1
        <5>1. k - 1 = m
          BY <2>2, <4>1
        <5>2. g[k - 1] = f[m]
          BY <2>2, <2>4, <5>1
        <5>. QED
          BY <2>3, <4>1, <5>2
      <4>2. CASE k # m + 1
        <5>1. k \in 1 .. m /\ k \in 0 .. m /\ k - 1 \in 0 .. m
          BY <2>2, <4>2
        <5>2. g[k] = f[k] /\ g[k - 1] = f[k - 1]
          BY <2>4, <5>1
        <5>. QED
          BY <2>1, <5>1, <5>2
      <4>. QED
        BY <4>1, <4>2
    <3>. QED
      BY <3>1, <3>2
  <2>. QED
    BY <2>2, <2>6, <2>7
<1>3. n \in T
  <2>1. n \in 0 .. n
    OBVIOUS
  <2>. HIDE DEF T
  <2>. QED
    BY <1>1, <1>2, <2>1, UpTo
<1>. QED
  BY <1>3

\* What string_to_int and Worth say of the functions they choose.
Converts(s, f) == f = [k \in 0 .. Len(s) |-> IF k = 0 THEN 0 ELSE NextDigit(f[k - 1], s[k])]
Counts(s, f) == f = [k \in 0 .. Len(s) |-> IF k = 0 THEN 0 ELSE 10 * f[k - 1] + Digits[s[k]]]

LEMMA Chosen ==
  ASSUME NEW s
  PROVE  /\ string_to_int(s) = (CHOOSE f : Converts(s, f))[Len(s)]
         /\ Worth(s) = (CHOOSE f : Counts(s, f))[Len(s)]
<1>1. string_to_int(s) = (CHOOSE f : Converts(s, f))[Len(s)]
  BY Zenon DEF string_to_int, Converts
<1>2. Worth(s) = (CHOOSE f : Counts(s, f))[Len(s)]
  BY Zenon DEF Worth, Counts
<1>. QED
  BY <1>1, <1>2

\* The value of each digit on the way.
LEMMA Converted ==
  ASSUME CommandAssumption, NEW s \in Seq(DOMAIN Digits)
  PROVE  \E f : /\ string_to_int(s) = f[Len(s)] /\ f[0] = 0
                /\ \A k \in 1 .. Len(s) : f[k] = NextDigit(f[k - 1], s[k])
<1> DEFINE n == Len(s)
           G == [p \in Nat \X (1 .. n) |-> NextDigit(p[1], s[p[2]])]
<1>1. n \in Nat
  OBVIOUS
<1>2. G \in [Nat \X (1 .. n) -> Nat]
  <2>1. ASSUME NEW r \in Nat, NEW k \in 1 .. n PROVE NextDigit(r, s[k]) \in Nat
    <3>1. Digits[s[k]] \in Nat /\ WordSize \in Nat /\ WordSize > 0
      BY DEF CommandAssumption
    <3>2. r * 10 + Digits[s[k]] \in Nat
      BY <3>1
    <3>. HIDE DEF n
    <3>. QED
      BY <3>1, <3>2 DEF NextDigit
  <2>. QED
    BY <2>1
<1>3. \A r \in Nat, k \in 1 .. n : G[<<r, k>>] = NextDigit(r, s[k])
  OBVIOUS
<1>. HIDE DEF G
<1>4. PICK g \in [0 .. n -> Nat] : g[0] = 0 /\ \A k \in 1 .. n : g[k] = G[<<g[k - 1], k>>]
  <2>. HIDE DEF n
  <2>. QED
    BY <1>1, <1>2, Recursion
<1>5. Converts(s, g)
  <2>1. ASSUME NEW k \in 0 .. n PROVE g[k] = IF k = 0 THEN 0 ELSE NextDigit(g[k - 1], s[k])
    <3>1. CASE k = 0
      BY <1>4, <3>1
    <3>2. CASE k # 0
      <4>1. k \in 1 .. n /\ k - 1 \in 0 .. n
        BY <1>1, <3>2
      <4>2. g[k - 1] \in Nat
        BY <4>1
      <4>. QED
        BY <1>3, <1>4, <3>2, <4>1, <4>2
    <3>. QED
      BY <3>1, <3>2
  <2>. QED
    BY <2>1 DEF Converts
<1> DEFINE f == CHOOSE h : Converts(s, h)
<1>6. Converts(s, f)
  BY <1>5
<1>7. string_to_int(s) = f[n]
  BY Chosen
<1>. HIDE DEF f
<1>8. f = [k \in 0 .. n |-> IF k = 0 THEN 0 ELSE NextDigit(f[k - 1], s[k])]
  BY <1>6 DEF Converts
<1>9. f[0] = 0
  BY <1>1, <1>8
<1>10. ASSUME NEW k \in 1 .. n PROVE f[k] = NextDigit(f[k - 1], s[k])
  <2>1. k \in 0 .. n /\ k # 0
    BY <1>1
  <2>. QED
    BY <1>8, <2>1, Zenon
<1>. QED
  BY <1>7, <1>9, <1>10

LEMMA Counted ==
  ASSUME CommandAssumption, NEW s \in Seq(DOMAIN Digits)
  PROVE  \E f : /\ Worth(s) = f[Len(s)] /\ f[0] = 0
                /\ \A k \in 1 .. Len(s) : f[k] = 10 * f[k - 1] + Digits[s[k]]
<1> DEFINE n == Len(s)
           G == [p \in Nat \X (1 .. n) |-> 10 * p[1] + Digits[s[p[2]]]]
<1>1. n \in Nat
  OBVIOUS
<1>2. G \in [Nat \X (1 .. n) -> Nat]
  <2>1. ASSUME NEW r \in Nat, NEW k \in 1 .. n PROVE 10 * r + Digits[s[k]] \in Nat
    <3>1. Digits[s[k]] \in Nat
      BY DEF CommandAssumption
    <3>. QED
      BY <3>1
  <2>. QED
    BY <2>1
<1>3. \A r \in Nat, k \in 1 .. n : G[<<r, k>>] = 10 * r + Digits[s[k]]
  OBVIOUS
<1>. HIDE DEF G
<1>4. PICK g \in [0 .. n -> Nat] : g[0] = 0 /\ \A k \in 1 .. n : g[k] = G[<<g[k - 1], k>>]
  <2>. HIDE DEF n
  <2>. QED
    BY <1>1, <1>2, Recursion
<1>5. Counts(s, g)
  <2>1. ASSUME NEW k \in 0 .. n PROVE g[k] = IF k = 0 THEN 0 ELSE 10 * g[k - 1] + Digits[s[k]]
    <3>1. CASE k = 0
      BY <1>4, <3>1
    <3>2. CASE k # 0
      <4>1. k \in 1 .. n /\ k - 1 \in 0 .. n
        BY <1>1, <3>2
      <4>2. g[k - 1] \in Nat
        BY <4>1
      <4>. QED
        BY <1>3, <1>4, <3>2, <4>1, <4>2
    <3>. QED
      BY <3>1, <3>2
  <2>. QED
    BY <2>1 DEF Counts
<1> DEFINE f == CHOOSE h : Counts(s, h)
<1>6. Counts(s, f)
  BY <1>5
<1>7. Worth(s) = f[n]
  BY Chosen
<1>. HIDE DEF f
<1>8. f = [k \in 0 .. n |-> IF k = 0 THEN 0 ELSE 10 * f[k - 1] + Digits[s[k]]]
  BY <1>6 DEF Counts
<1>9. f[0] = 0
  BY <1>1, <1>8
<1>10. ASSUME NEW k \in 1 .. n PROVE f[k] = 10 * f[k - 1] + Digits[s[k]]
  <2>1. k \in 0 .. n /\ k # 0
    BY <1>1
  <2>. QED
    BY <1>8, <2>1, Zenon
<1>. QED
  BY <1>7, <1>9, <1>10

\* A number that a word can hold is converted as it is: nothing wrapped on
\* the way.
LEMMA NumberTaken ==
  ASSUME CommandAssumption, NEW s \in Seq(DOMAIN Digits)
  PROVE  Worth(s) \in Nat /\ (Worth(s) < WordSize => string_to_int(s) = Worth(s))
<1> DEFINE n == Len(s)
<1>1. n \in Nat /\ n \in 0 .. n /\ \A k \in 1 .. n : Digits[s[k]] \in Nat
  BY DEF CommandAssumption
<1>2. PICK w : Worth(s) = w[n] /\ w[0] = 0 /\ \A k \in 1 .. n : w[k] = 10 * w[k - 1] + Digits[s[k]]
  BY Counted
<1>3. PICK r : string_to_int(s) = r[n] /\ r[0] = 0 /\ \A k \in 1 .. n : r[k] = NextDigit(r[k - 1], s[k])
  BY Converted
<1>. HIDE DEF n
<1>4. \A k \in 0 .. n - 1 : k + 1 \in 1 .. n /\ (k + 1) - 1 = k
  BY <1>1
<1>5. \A k \in 0 .. n : w[k] \in Nat
  <2> DEFINE T == {k \in 0 .. n : w[k] \in Nat}
  <2>1. 0 \in T
    BY <1>1, <1>2
  <2>2. ASSUME NEW k \in 0 .. n - 1, k \in T PROVE k + 1 \in T
    <3>1. w[k + 1] = 10 * w[k] + Digits[s[k + 1]] /\ w[k] \in Nat /\ Digits[s[k + 1]] \in Nat
      BY <1>1, <1>2, <1>4, <2>2
    <3>. QED
      BY <1>1, <1>4, <3>1
  <2>. HIDE DEF T
  <2>3. \A k \in 0 .. n : k \in T
    BY <1>1, <2>1, <2>2, UpTo
  <2>. QED
    BY <2>3 DEF T
<1>6. ASSUME NEW k \in 0 .. n - 1 PROVE w[k] <= w[k + 1]
  <2>1. w[k + 1] = 10 * w[k] + Digits[s[k + 1]] /\ Digits[s[k + 1]] \in Nat /\ w[k] \in Nat
    BY <1>1, <1>2, <1>4, <1>5
  <2>. QED
    BY <2>1
<1>7. \A d \in 0 .. n : w[n - d] <= w[n]
  <2> DEFINE T == {d \in 0 .. n : w[n - d] <= w[n]}
  <2>1. 0 \in T
    <3>1. n - 0 = n /\ 0 \in 0 .. n /\ w[n] \in Nat
      BY <1>1, <1>5
    <3>. QED
      BY <3>1
  <2>2. ASSUME NEW d \in 0 .. n - 1, d \in T PROVE d + 1 \in T
    <3>1. n - (d + 1) \in 0 .. n - 1 /\ (n - (d + 1)) + 1 = n - d /\ d + 1 \in 0 .. n
          /\ n - d \in 0 .. n /\ n - (d + 1) \in 0 .. n
      BY <1>1
    <3>2. w[n - (d + 1)] <= w[n - d] /\ w[n - d] <= w[n]
      BY <1>6, <2>2, <3>1
    <3>3. w[n - (d + 1)] \in Nat /\ w[n - d] \in Nat /\ w[n] \in Nat
      BY <1>1, <1>5, <3>1
    <3>. QED
      BY <3>1, <3>2, <3>3
  <2>. HIDE DEF T
  <2>3. \A d \in 0 .. n : d \in T
    BY <1>1, <2>1, <2>2, UpTo
  <2>. QED
    BY <2>3 DEF T
<1>8. ASSUME w[n] < WordSize PROVE r[n] = w[n]
  <2> DEFINE T == {k \in 0 .. n : r[k] = w[k]}
  <2>1. 0 \in T
    BY <1>1, <1>2, <1>3
  <2>2. ASSUME NEW k \in 0 .. n - 1, k \in T PROVE k + 1 \in T
    <3>1. k + 1 \in 1 .. n /\ k + 1 \in 0 .. n /\ n - (k + 1) \in 0 .. n /\ n - (n - (k + 1)) = k + 1
      BY <1>1
    <3>2. w[k + 1] <= w[n] /\ w[k + 1] \in Nat /\ w[n] \in Nat /\ w[k] \in Nat /\ r[k] = w[k]
      BY <1>1, <1>5, <1>7, <2>2, <3>1
    <3>3. WordSize \in Nat /\ WordSize > 0 /\ w[k + 1] < WordSize
      BY <1>8, <3>2 DEF CommandAssumption
    <3>4. r[k + 1] = (w[k] * 10 + Digits[s[k + 1]]) % WordSize
      BY <1>3, <1>4, <3>2 DEF NextDigit
    <3>5. w[k] * 10 + Digits[s[k + 1]] = w[k + 1]
      <4>1. w[k + 1] = 10 * w[k] + Digits[s[k + 1]] /\ Digits[s[k + 1]] \in Nat
        BY <1>1, <1>2, <1>4
      <4>. QED
        BY <3>2, <4>1
    <3>6. w[k + 1] % WordSize = w[k + 1]
      <4>1. \A i, m \in Nat : m > 0 /\ i < m => i % m = i
        OBVIOUS
      <4>. QED
        BY <3>2, <3>3, <4>1
    <3>. QED
      BY <3>1, <3>4, <3>5, <3>6
  <2>. HIDE DEF T
  <2>3. \A k \in 0 .. n : k \in T
    BY <1>1, <2>1, <2>2, UpTo
  <2>. QED
    BY <1>1, <2>3 DEF T
<1>. QED
  BY <1>1, <1>2, <1>3, <1>5, <1>8

-----------------------------------------------------------------------------
(* Lines.                                                                  *)

\* The buffer holds the line that was typed, up to its NUL.
LEMMA FilledIs ==
  ASSUME CommandAssumption, NEW s \in Seq(Units)
  PROVE  /\ Typed(s) \in Seq(Units) /\ Len(Typed(s)) < MAX_COMMAND_LEN
         /\ Filled(s)[Len(Typed(s))] = NUL
         /\ \A i \in 0 .. Len(Typed(s)) - 1 : Filled(s)[i] = Typed(s)[i + 1]
<1> DEFINE M == MAX_COMMAND_LEN
           l == Typed(s)
           n == Len(l)
<1>1. M \in Nat /\ M > 0
  BY DEF CommandAssumption
<1>2. l \in Seq(Units) /\ n \in Nat /\ n < M /\ \A i \in 1 .. n : l[i] = s[i]
  <2>1. CASE Len(s) < M
    BY <2>1 DEF Typed
  <2>2. CASE ~(Len(s) < M)
    <3>1. l = SubSeq(s, 1, M - 1)
      BY <2>2 DEF Typed
    <3>2. \A i \in 1 .. M - 1 : s[i] \in Units
      BY <1>1, <2>2
    <3>3. /\ l \in Seq(Units)
          /\ n = IF 1 <= M - 1 THEN M - 1 - 1 + 1 ELSE 0
          /\ \A i \in 1 .. M - 1 - 1 + 1 : l[i] = s[1 + i - 1]
      <4>1. 1 \in Int /\ M - 1 \in Int
        BY <1>1
      <4>. QED
        BY <3>1, <3>2, <4>1, SubSeqProperties
    <3>4. n = M - 1 /\ M - 1 - 1 + 1 = M - 1
      BY <1>1, <3>3
    <3>5. \A i \in 1 .. n : 1 + i - 1 = i
      BY <1>1, <3>4
    <3>. HIDE DEF l, n
    <3>. QED
      BY <1>1, <3>3, <3>4, <3>5
  <2>. QED
    BY <2>1, <2>2
<1>. HIDE DEF l
<1>3. Filled(s) = [i \in 0 .. M - 1 |-> IF i < n THEN s[i + 1] ELSE IF i = n THEN NUL ELSE command_buffer[i]]
  BY DEF Filled, l
<1>4. Filled(s)[n] = NUL
  <2>1. n \in 0 .. M - 1 /\ ~(n < n)
    BY <1>1, <1>2
  <2>. QED
    BY <1>3, <2>1
<1>5. ASSUME NEW i \in 0 .. n - 1 PROVE Filled(s)[i] = l[i + 1]
  <2>1. i \in 0 .. M - 1 /\ i < n /\ i + 1 \in 1 .. n
    BY <1>1, <1>2
  <2>2. Filled(s)[i] = s[i + 1]
    BY <1>3, <2>1
  <2>. QED
    BY <1>2, <2>1, <2>2
<1>. QED
  BY <1>2, <1>4, <1>5 DEF l

LEMMA TailIs ==
  ASSUME NEW S, NEW s \in Seq(S), Len(s) > 0
  PROVE  Tail(s) = From(s, 1)
<1>1. Len(s) \in Nat /\ 1 \in 0 .. Len(s) /\ s # <<>>
  OBVIOUS
<1>2. From(s, 1) \in Seq(S) /\ Len(From(s, 1)) = Len(s) - 1
      /\ \A i \in 1 .. Len(s) - 1 : From(s, 1)[i] = s[1 + i]
  BY <1>1, FromIs
<1>3. Tail(s) \in Seq(S) /\ Len(Tail(s)) = Len(s) - 1
  BY <1>1
<1>4. ASSUME NEW i \in 1 .. Len(s) - 1 PROVE Tail(s)[i] = s[1 + i]
  BY <1>1
<1> DEFINE t == Tail(s)
           u == From(s, 1)
           m == Len(s) - 1
<1>5. m \in Nat /\ t \in Seq(S) /\ u \in Seq(S) /\ Len(t) = m /\ Len(u) = m /\ \A i \in 1 .. m : t[i] = u[i]
  BY <1>1, <1>2, <1>3, <1>4
<1>. HIDE DEF t, u, m
<1>6. t = u
  BY <1>5
<1>. QED
  BY <1>6 DEF t, u

\* What a command finds in the buffer is a part of the line.
LEMMA OperandIs ==
  ASSUME CommandAssumption, NEW s \in Seq(Units), Len(Typed(s)) > 0
  PROVE  /\ Operand(Filled(s)) = next_arg(Tail(Typed(s)))
         /\ \E m \in 1 .. Len(Typed(s)) :
              /\ Operand(Filled(s)) = From(Typed(s), m)
              /\ \A i \in 2 .. m : Typed(s)[i] = Space
              /\ m < Len(Typed(s)) => Typed(s)[m + 1] # Space
<1> DEFINE l == Typed(s)
           n == Len(l)
           t == From(l, 1)
<1>1. l \in Seq(Units) /\ n \in Nat /\ n > 0 /\ 1 \in 0 .. n
  BY FilledIs
<1>2. CString(Filled(s), 1) = t
  BY <1>1, FilledIs, CStringIs
<1>. HIDE DEF l
<1>3. Tail(l) = t
  BY <1>1, TailIs
<1>4. Operand(Filled(s)) = next_arg(t)
  BY <1>2 DEF Operand
<1>5. t \in Seq(Units) /\ Len(t) = n - 1 /\ \A i \in 1 .. n - 1 : t[i] = l[1 + i]
  BY <1>1, FromIs
<1>. HIDE DEF t
<1>6. PICK k \in 0 .. Len(t) : /\ next_arg(t) = From(t, k)
                               /\ \A j \in 1 .. k : t[j] = Space
                               /\ k < Len(t) => t[k + 1] # Space
  <2>1. t \in Seq(Units)
    BY <1>5
  <2>. QED
    BY <2>1, NextArgIs
<1>7. k \in 0 .. n - 1 /\ 1 + k \in 1 .. n
  BY <1>1, <1>5
<1>8. From(t, k) = From(l, 1 + k)
  BY <1>1, <1>7, FromFrom DEF t
<1>9. ASSUME NEW i \in 2 .. 1 + k PROVE l[i] = Space
  <2>1. i - 1 \in 1 .. k /\ i - 1 \in 1 .. n - 1 /\ 1 + (i - 1) = i
    BY <1>1, <1>7
  <2>2. t[i - 1] = Space /\ t[i - 1] = l[1 + (i - 1)]
    BY <1>5, <1>6, <2>1
  <2>. QED
    BY <2>1, <2>2
<1>10. ASSUME 1 + k < n PROVE l[(1 + k) + 1] # Space
  <2>1. k < n - 1 /\ k + 1 \in 1 .. n - 1 /\ 1 + (k + 1) = (1 + k) + 1
    BY <1>1, <1>7, <1>10
  <2>2. t[k + 1] # Space /\ t[k + 1] = l[1 + (k + 1)]
    BY <1>5, <1>6, <2>1
  <2>. QED
    BY <2>1, <2>2
<1>11. Operand(Filled(s)) = From(l, 1 + k)
  BY <1>4, <1>6, <1>8
<1>12. \E m \in 1 .. n : /\ Operand(Filled(s)) = From(l, m)
                         /\ \A i \in 2 .. m : l[i] = Space
                         /\ m < n => l[m + 1] # Space
  BY <1>7, <1>9, <1>10, <1>11
<1>. QED
  BY <1>3, <1>4, <1>12 DEF l

LEMMA IsNumber ==
  ASSUME NEW s \in Seq(Units), is_number(s)
  PROVE  s \in Seq(DOMAIN Digits) /\ Len(s) > 0 /\ s[1] \in DOMAIN Digits
<1>1. s # <<>> /\ \A i \in 1 .. Len(s) : s[i] \in DOMAIN Digits
  BY DEF is_number, ToSet
<1>2. Len(s) \in Nat /\ Len(s) > 0
  BY <1>1
<1>. QED
  BY <1>1, <1>2

LEMMA TicksIs ==
  ASSUME CommandAssumption, NEW w \in Nat, w * TicksPerSecond < WordSize
  PROVE  w < WordSize /\ Ticks(w) = w * TicksPerSecond
<1>1. PICK t \in Nat : TicksPerSecond = t + 1
  <2>1. TicksPerSecond \in Nat /\ TicksPerSecond > 0
    BY DEF CommandAssumption
  <2>2. TicksPerSecond - 1 \in Nat /\ TicksPerSecond = (TicksPerSecond - 1) + 1
    BY <2>1
  <2>. QED
    BY <2>2
<1>2. WordSize \in Nat /\ WordSize > 0
  BY DEF CommandAssumption
<1>3. w * TicksPerSecond = w * t + w /\ w * t \in Nat
  BY <1>1
<1>4. w * TicksPerSecond \in Nat /\ w < WordSize
  <2> DEFINE p == w * t
             q == w * TicksPerSecond
  <2>1. q = p + w /\ p \in Nat /\ q < WordSize
    BY <1>3
  <2>. HIDE DEF p, q
  <2>2. q \in Nat /\ w < WordSize
    BY <1>2, <2>1
  <2>. QED
    BY <2>2 DEF q
<1>. QED
  BY <1>2, <1>4 DEF Ticks

-----------------------------------------------------------------------------
(* What the property says of one line.                                     *)

TextAsTyped(c, a, l) ==
  c \in Texts /\ l \notin {<<"echo">>, <<"readdisk">>} /\ ~(c = "cd" /\ a = <<"/">>) =>
    /\ IsSuffix(a, l)
    /\ c \in {"ls", "cd"} \cup Files => l[1] = c /\ \A i \in 2 .. Len(l) - Len(a) : l[i] = Space

SectorAsTyped(c, a, l) ==
  c = "read_disk" /\ Len(l) > 1 /\ l[2] = Space /\ Worth(next_arg(Tail(l))) < DriveSize
    => a = Worth(next_arg(Tail(l)))

TimeAsTyped(c, a, l) ==
  c = "sleep" /\ Worth(next_arg(Tail(l))) * TicksPerSecond < WordSize
    => a = Worth(next_arg(Tail(l))) * TicksPerSecond

LEMMA HandedIs ==
  /\ HandedAsTyped <=> /\ TextAsTyped(call, arg, command_line)
                       /\ SectorAsTyped(call, arg, command_line)
                       /\ TimeAsTyped(call, arg, command_line)
  /\ HandedAsTyped' <=> /\ TextAsTyped(call', arg', command_line')
                        /\ SectorAsTyped(call', arg', command_line')
                        /\ TimeAsTyped(call', arg', command_line')
BY Zenon DEF HandedAsTyped, OnlyTypedText, NumbersAsTyped, Bare, Argument, Spaced,
             TextAsTyped, SectorAsTyped, TimeAsTyped

\* Whatever the buffer held before, the command that Enter runs gets the
\* text and the numbers of the line.
LEMMA LineHanded ==
  ASSUME CommandAssumption, NEW s \in Seq(Units), execute_command(Filled(s))
  PROVE  /\ TextAsTyped(call', arg', Typed(s))
         /\ SectorAsTyped(call', arg', Typed(s))
         /\ TimeAsTyped(call', arg', Typed(s))
<1> DEFINE l == Typed(s)
           n == Len(l)
           b == Filled(s)
           c == call'
           a == arg'
<1>1. l \in Seq(Units) /\ n \in Nat /\ b[n] = NUL
      /\ (n > 0 => b[0] = l[1]) /\ (n = 0 => b[0] = NUL)
  <2>1. l \in Seq(Units) /\ b[n] = NUL /\ \A i \in 0 .. n - 1 : b[i] = l[i + 1]
    BY FilledIs
  <2>. HIDE DEF l, b
  <2>2. n \in Nat /\ (n > 0 => 0 \in 0 .. n - 1) /\ 0 + 1 = 1
    BY <2>1
  <2>. QED
    BY <2>1, <2>2
<1>2. \A k \in 0 .. n : CString(b, k) = From(l, k)
  BY FilledIs, CStringIs
<1>3. n > 0 => /\ Operand(b) = next_arg(Tail(l))
               /\ \E m \in 1 .. n : /\ Operand(b) = From(l, m)
                                    /\ \A i \in 2 .. m : l[i] = Space
                                    /\ m < n => l[m + 1] # Space
  BY OperandIs
<1>4. execute_command(b)
  OBVIOUS
<1>. HIDE DEF l, b
<1>5. ASSUME NEW name, name = b[0], name # NUL PROVE n > 0 /\ l[1] = name
  BY <1>1, <1>5
<1>6. n > 0 => \E m \in 1 .. n : /\ Operand(b) = From(l, m) /\ IsSuffix(From(l, m), l)
                                 /\ \A i \in 2 .. n - Len(From(l, m)) : l[i] = Space
  <2>1. SUFFICES ASSUME n > 0
                 PROVE  \E m \in 1 .. n : /\ Operand(b) = From(l, m) /\ IsSuffix(From(l, m), l)
                                          /\ \A i \in 2 .. n - Len(From(l, m)) : l[i] = Space
    OBVIOUS
  <2>2. PICK m \in 1 .. n : Operand(b) = From(l, m) /\ \A i \in 2 .. m : l[i] = Space
    BY <1>3, <2>1
  <2>3. Len(From(l, m)) = n - m /\ IsSuffix(From(l, m), l)
    <3>1. m \in 0 .. Len(l)
      BY <1>1
    <3>. QED
      BY <1>1, <3>1, FromIs
  <2>4. n - (n - m) = m
    BY <1>1
  <2>. QED
    BY <2>2, <2>3, <2>4
<1>7. CASE b[0] \in Alone /\ c = b[0]
  BY <1>7 DEF Alone, Texts, Files, TextAsTyped, SectorAsTyped, TimeAsTyped, l
<1>8. CASE b[0] = "echo" /\ c = "echo" /\ a = CString(b, 2)
  <2>1. n > 0 /\ l[1] = "echo"
    BY <1>5, <1>8 DEF NUL
  <2>2. CASE n = 1
    <3>1. l = <<"echo">>
      BY <1>1, <2>1, <2>2
    <3>. QED
      BY <1>8, <3>1 DEF TextAsTyped, SectorAsTyped, TimeAsTyped, l
  <2>3. CASE n # 1
    <3>1. 2 \in 0 .. n
      <4>1. n \in Nat
        BY <1>1
      <4>. HIDE DEF n
      <4>. QED
        BY <2>1, <2>3, <4>1
    <3>2. IsSuffix(a, l)
      BY <1>1, <1>2, <1>8, <3>1, FromIs
    <3>. QED
      BY <1>8, <3>2 DEF TextAsTyped, SectorAsTyped, TimeAsTyped, l, Files
  <2>. QED
    BY <2>2, <2>3
<1>9. CASE b[0] = "readdisk" /\ c \in {"invalid LBA", "out of memory"}
  BY <1>9 DEF Texts, Files, TextAsTyped, SectorAsTyped, TimeAsTyped
<1>10. CASE /\ b[0] = "readdisk" /\ c = "read_disk"
            /\ is_number(CString(b, 2)) /\ a = string_to_int(CString(b, 2)) % DriveSize
  <2>1. n > 0
    BY <1>5, <1>10 DEF NUL
  <2>2. ASSUME n > 1, l[2] = Space, Worth(next_arg(Tail(l))) < DriveSize
        PROVE  a = Worth(next_arg(Tail(l)))
    <3> DEFINE given == From(l, 2)
    <3>1. 2 \in 0 .. n
      BY <1>1, <2>2
    <3>2. CString(b, 2) = given
      BY <1>2, <3>1
    <3>3. given \in Seq(Units) /\ Len(given) = n - 2 /\ \A i \in 1 .. n - 2 : given[i] = l[2 + i]
      <4>1. l \in Seq(Units)
        BY <1>1
      <4>. QED
        BY <3>1, <4>1, FromIs
    <3>. HIDE DEF given
    <3>4. given \in Seq(DOMAIN Digits) /\ Len(given) > 0 /\ given[1] \in DOMAIN Digits
      BY <1>10, <3>2, <3>3, IsNumber
    <3>5. n > 2 /\ l[3] \in DOMAIN Digits /\ l[3] # Space
      <4>1. n - 2 > 0 /\ n > 2 /\ 1 \in 1 .. n - 2 /\ 2 + 1 = 3
        BY <1>1, <3>3, <3>4
      <4>2. l[3] = given[1]
        BY <3>3, <4>1
      <4>. QED
        BY <3>4, <4>1, <4>2 DEF CommandAssumption
    <3>6. PICK m \in 1 .. n : /\ Operand(b) = From(l, m)
                              /\ \A i \in 2 .. m : l[i] = Space
                              /\ m < n => l[m + 1] # Space
      BY <1>3, <2>1
    <3>7. m = 2
      <4>1. ~(m >= 3)
        BY <3>5, <3>6
      <4>2. m # 1
        BY <1>1, <2>2, <3>5, <3>6
      <4>. QED
        BY <4>1, <4>2
    <3>8. next_arg(Tail(l)) = given
      BY <1>3, <2>1, <3>6, <3>7 DEF given
    <3>9. Worth(given) \in Nat /\ (Worth(given) < WordSize => string_to_int(given) = Worth(given))
      BY <3>4, NumberTaken
    <3>10. DriveSize \in Nat /\ DriveSize > 0 /\ WordSize \in Nat /\ DriveSize <= WordSize
      BY DEF CommandAssumption
    <3>11. Worth(given) < DriveSize
      BY <2>2, <3>8
    <3>12. string_to_int(given) = Worth(given)
      BY <3>9, <3>10, <3>11
    <3>13. Worth(given) % DriveSize = Worth(given)
      BY <3>9, <3>10, <3>11
    <3>. QED
      BY <1>10, <3>2, <3>8, <3>12, <3>13
  <2>3. SectorAsTyped(c, a, l)
    BY <2>2 DEF SectorAsTyped
  <2>4. c \notin Texts /\ c # "sleep"
    BY <1>10 DEF Texts, Files
  <2>. QED
    BY <2>3, <2>4 DEF TextAsTyped, TimeAsTyped, l
<1>11. CASE b[0] = "ls" /\ c = "ls" /\ a = Operand(b)
  <2>1. n > 0 /\ l[1] = "ls"
    BY <1>5, <1>11 DEF NUL
  <2>2. IsSuffix(a, l) /\ \A i \in 2 .. n - Len(a) : l[i] = Space
    BY <1>6, <1>11, <2>1
  <2>. QED
    BY <1>11, <2>1, <2>2 DEF TextAsTyped, SectorAsTyped, TimeAsTyped, l
<1>12. CASE b[0] = "cd" /\ c = "cd" /\ (a = <<"/">> \/ a = Operand(b))
  <2>1. n > 0 /\ l[1] = "cd"
    BY <1>5, <1>12 DEF NUL
  <2>2. CASE a = Operand(b)
    <3>1. IsSuffix(a, l) /\ \A i \in 2 .. n - Len(a) : l[i] = Space
      BY <1>6, <2>1, <2>2
    <3>. QED
      BY <1>12, <2>1, <3>1 DEF TextAsTyped, SectorAsTyped, TimeAsTyped, l
  <2>3. CASE a = <<"/">>
    BY <1>12, <2>3 DEF TextAsTyped, SectorAsTyped, TimeAsTyped
  <2>. QED
    BY <1>12, <2>2, <2>3
<1>13. CASE b[0] = "sleep" /\ c = "invalid time"
  BY <1>13 DEF Texts, Files, TextAsTyped, SectorAsTyped, TimeAsTyped
<1>14. CASE b[0] = "sleep" /\ c = "sleep" /\ is_number(Operand(b)) /\ a = Ticks(string_to_int(Operand(b)))
  <2>1. n > 0
    BY <1>5, <1>14 DEF NUL
  <2> DEFINE given == next_arg(Tail(l))
  <2>2. given = Operand(b)
    BY <1>3, <2>1
  <2>3. given \in Seq(Units)
    <3>1. PICK m \in 1 .. n : Operand(b) = From(l, m)
      BY <1>3, <2>1
    <3>2. m \in 0 .. Len(l)
      BY <1>1
    <3>. QED
      BY <1>1, <2>2, <3>1, <3>2, FromIs
  <2>. HIDE DEF given
  <2>4. given \in Seq(DOMAIN Digits)
    BY <1>14, <2>2, <2>3, IsNumber
  <2>5. Worth(given) \in Nat /\ (Worth(given) < WordSize => string_to_int(given) = Worth(given))
    BY <2>4, NumberTaken
  <2>6. ASSUME Worth(given) * TicksPerSecond < WordSize PROVE a = Worth(given) * TicksPerSecond
    <3>1. Worth(given) < WordSize /\ Ticks(Worth(given)) = Worth(given) * TicksPerSecond
      BY <2>5, <2>6, TicksIs
    <3>. QED
      BY <1>14, <2>2, <2>5, <3>1
  <2>7. TimeAsTyped(c, a, l)
    BY <2>6 DEF TimeAsTyped, given
  <2>8. c \notin Texts /\ c # "read_disk"
    BY <1>14 DEF Texts, Files
  <2>. QED
    BY <2>7, <2>8 DEF TextAsTyped, SectorAsTyped, l
<1>15. CASE c = "missing operand"
  BY <1>15 DEF Texts, Files, TextAsTyped, SectorAsTyped, TimeAsTyped
<1>16. CASE b[0] \in Files /\ c = b[0] /\ a = Operand(b)
  <2>1. n > 0 /\ l[1] = c
    <3>1. b[0] # NUL
      BY <1>16 DEF Files, NUL
    <3>. QED
      BY <1>5, <1>16, <3>1
  <2>2. IsSuffix(a, l) /\ \A i \in 2 .. n - Len(a) : l[i] = Space
    BY <1>6, <1>16, <2>1
  <2>3. c # "read_disk" /\ c # "sleep"
    BY <1>16 DEF Files
  <2>. QED
    BY <1>16, <2>1, <2>2, <2>3 DEF TextAsTyped, SectorAsTyped, TimeAsTyped, l
<1>17. CASE c = "unknown" /\ a = CString(b, 0)
  <2>1. 0 \in 0 .. n
    BY <1>1
  <2>2. IsSuffix(a, l)
    BY <1>1, <1>2, <1>17, <2>1, FromIs
  <2>. QED
    BY <1>17, <2>2 DEF TextAsTyped, SectorAsTyped, TimeAsTyped, l, Files
<1>18. \/ b[0] \in Alone /\ c = b[0]
       \/ b[0] = "echo" /\ c = "echo" /\ a = CString(b, 2)
       \/ b[0] = "readdisk" /\ c \in {"invalid LBA", "out of memory"}
       \/ /\ b[0] = "readdisk" /\ c = "read_disk"
          /\ is_number(CString(b, 2)) /\ a = string_to_int(CString(b, 2)) % DriveSize
       \/ b[0] = "ls" /\ c = "ls" /\ a = Operand(b)
       \/ b[0] = "cd" /\ c = "cd" /\ (a = <<"/">> \/ a = Operand(b))
       \/ b[0] = "sleep" /\ c = "invalid time"
       \/ b[0] = "sleep" /\ c = "sleep" /\ is_number(Operand(b)) /\ a = Ticks(string_to_int(Operand(b)))
       \/ c = "missing operand"
       \/ b[0] \in Files /\ c = b[0] /\ a = Operand(b)
       \/ c = "unknown" /\ a = CString(b, 0)
  BY <1>4, Zenon DEF execute_command, readdisk, Runs, Complains, AfterSpace
<1>. QED
  BY <1>7, <1>8, <1>9, <1>10, <1>11, <1>12, <1>13, <1>14, <1>15, <1>16, <1>17, <1>18 DEF l

\* The user's words reach the commands: text and numbers are those of the
\* line on the screen, whatever older lines left in the buffer.
THEOREM WordsReach == ASSUME CommandAssumption PROVE CommandSpec => []HandedAsTyped
<1>1. CommandInit => HandedAsTyped
  <2>1. SUFFICES ASSUME CommandInit PROVE HandedAsTyped
    OBVIOUS
  <2>2. call = "none"
    BY <2>1 DEF CommandInit
  <2>. QED
    BY <2>2, HandedIs DEF TextAsTyped, SectorAsTyped, TimeAsTyped, Texts, Files
<1>2. HandedAsTyped /\ [CommandNext]_commandVars => HandedAsTyped'
  <2>1. SUFFICES ASSUME HandedAsTyped, [CommandNext]_commandVars PROVE HandedAsTyped'
    OBVIOUS
  <2>2. CASE CommandNext
    <3>1. PICK s \in Lines : EnterLine(s)
      BY <2>2 DEF CommandNext
    <3>2. s \in Seq(Units) /\ execute_command(Filled(s)) /\ command_line' = Typed(s)
      BY <3>1 DEF EnterLine, CommandAssumption
    <3>3. /\ TextAsTyped(call', arg', Typed(s))
          /\ SectorAsTyped(call', arg', Typed(s))
          /\ TimeAsTyped(call', arg', Typed(s))
      BY <3>2, LineHanded
    <3>. QED
      BY <3>2, <3>3, HandedIs
  <2>3. CASE UNCHANGED commandVars
    <3>1. call' = call /\ arg' = arg /\ command_line' = command_line
      BY <2>3 DEF commandVars
    <3>. QED
      BY <2>1, <3>1, HandedIs
  <2>. QED
    BY <2>1, <2>2, <2>3
<1>. QED
  BY <1>1, <1>2, PTL DEF CommandSpec

-----------------------------------------------------------------------------
(* Eyes: the root.                                                         *)

\* What RootLoop says of the function it chooses.
LoopIs(value, f) ==
  f = [i \in 0 .. 16 |-> IF i = 0 THEN [value |-> value, res |-> 0, bit |-> TopBit]
                         ELSE RootStep(f[i - 1])]

LEMMA LoopChosen == ASSUME NEW value PROVE RootLoop(value) = CHOOSE f : LoopIs(value, f)
BY Zenon DEF RootLoop, LoopIs

LEMMA LoopSteps ==
  ASSUME NEW value
  PROVE  /\ RootLoop(value)[0] = [value |-> value, res |-> 0, bit |-> TopBit]
         /\ \A i \in 0 .. 15 : RootLoop(value)[i + 1] = RootStep(RootLoop(value)[i])
<1> DEFINE start == [value |-> value, res |-> 0, bit |-> TopBit]
           Upto(m, f) == f = [i \in 0 .. m |-> IF i = 0 THEN start ELSE RootStep(f[i - 1])]
           T == {m \in 0 .. 16 : \E f : Upto(m, f)}
<1>. HIDE DEF start
<1>1. 0 \in T
  <2> DEFINE g == [i \in 0 .. 0 |-> start]
  <2>1. Upto(0, g) /\ 0 \in 0 .. 16
    OBVIOUS
  <2>. HIDE DEF g
  <2>. QED
    BY <2>1
<1>2. ASSUME NEW m \in 0 .. 16 - 1, m \in T PROVE m + 1 \in T
  <2>1. PICK f : Upto(m, f)
    BY <1>2
  <2> DEFINE g == [i \in 0 .. m + 1 |-> IF i = m + 1 THEN RootStep(f[m]) ELSE f[i]]
  <2>2. Upto(m + 1, g)
    <3>1. ASSUME NEW i \in 0 .. m + 1
          PROVE  g[i] = IF i = 0 THEN start ELSE RootStep(g[i - 1])
      <4>1. CASE i = m + 1
        <5>1. g[i] = RootStep(f[m]) /\ i # 0
          BY <4>1
        <5>2. g[i - 1] = f[m]
          BY <4>1
        <5>. QED
          BY <5>1, <5>2
      <4>2. CASE i # m + 1
        <5>1. i \in 0 .. m /\ g[i] = f[i]
          BY <4>2
        <5>2. i # 0 => g[i - 1] = f[i - 1]
          BY <4>2
        <5>. HIDE DEF g
        <5>. QED
          BY <2>1, <5>1, <5>2
      <4>. QED
        BY <4>1, <4>2
    <3>. QED
      BY <3>1
  <2>3. m + 1 \in 0 .. 16
    OBVIOUS
  <2>. QED
    BY <2>2, <2>3
<1>3. 16 \in T
  <2>1. 16 \in Nat /\ 16 \in 0 .. 16
    OBVIOUS
  <2>. HIDE DEF T
  <2>2. \A m \in 0 .. 16 : m \in T
    BY <1>1, <1>2, <2>1, UpTo
  <2>. QED
    BY <2>1, <2>2
<1>4. LoopIs(value, RootLoop(value))
  <2>1. \E f : LoopIs(value, f)
    BY <1>3 DEF LoopIs, start
  <2>. QED
    BY <2>1, LoopChosen
<1> DEFINE r == RootLoop(value)
<1>. HIDE DEF r
<1>5. r = [i \in 0 .. 16 |-> IF i = 0 THEN start ELSE RootStep(r[i - 1])]
  BY <1>4, Zenon DEF LoopIs, start, r
<1>6. r[0] = start
  <2>1. 0 \in 0 .. 16
    OBVIOUS
  <2>. QED
    BY <1>5, <2>1, Zenon
<1>7. ASSUME NEW i \in 0 .. 15 PROVE r[i + 1] = RootStep(r[i])
  <2>1. i + 1 \in 0 .. 16 /\ i + 1 # 0 /\ (i + 1) - 1 = i
    OBVIOUS
  <2>2. r[i + 1] = RootStep(r[(i + 1) - 1])
    BY <1>5, <2>1, Zenon
  <2>. QED
    BY <2>1, <2>2
<1>. QED
  BY <1>6, <1>7 DEF r, start

\* Before the bit k of the root: the bits above it make a, which is right as
\* far as they go.
RootAt(v, s, k) ==
  \E a \in Nat : /\ s = [value |-> v - a * a, res |-> 2 * (a * k), bit |-> k * k]
                 /\ a * a <= v /\ v < (a + 2 * k) * (a + 2 * k)

\* One step decides on bit k.
LEMMA RootBit ==
  ASSUME NEW v \in Nat, NEW k \in Nat, NEW s, RootAt(v, s, k)
  PROVE  \E b \in Nat : /\ RootStep(s) = [value |-> v - b * b, res |-> b * k, bit |-> (k * k) \div 4]
                        /\ b * b <= v /\ v < (b + k) * (b + k)
<1>1. PICK a \in Nat : /\ s = [value |-> v - a * a, res |-> 2 * (a * k), bit |-> k * k]
                       /\ a * a <= v /\ v < (a + 2 * k) * (a + 2 * k)
  BY DEF RootAt
<1>2. PICK aa \in Nat, ak \in Nat, kk \in Nat : aa = a * a /\ ak = a * k /\ kk = k * k
  OBVIOUS
<1>3. (a + k) * (a + k) = aa + 2 * ak + kk /\ (a + k) * k = ak + kk
  BY <1>2
<1>4. /\ s.value = v - aa /\ s.res = 2 * ak /\ s.bit = kk /\ aa <= v
      /\ (2 * ak) \div 2 = ak
  BY <1>1, <1>2
<1>5. CASE v - aa >= 2 * ak + kk
  <2>1. RootStep(s) = [value |-> (v - aa) - (2 * ak + kk), res |-> ak + kk, bit |-> kk \div 4]
    BY <1>4, <1>5 DEF RootStep
  <2>2. (v - aa) - (2 * ak + kk) = v - (a + k) * (a + k) /\ (a + k) * (a + k) <= v
    BY <1>2, <1>3, <1>5
  <2>3. v < (a + k + k) * (a + k + k)
    <3>1. a + 2 * k = a + k + k
      OBVIOUS
    <3>. QED
      BY <1>1, <3>1
  <2>4. a + k \in Nat
    OBVIOUS
  <2>. QED
    BY <1>2, <1>3, <2>1, <2>2, <2>3, <2>4
<1>6. CASE ~(v - aa >= 2 * ak + kk)
  <2>1. RootStep(s) = [value |-> v - aa, res |-> ak, bit |-> kk \div 4]
    BY <1>4, <1>6 DEF RootStep
  <2>2. v < (a + k) * (a + k)
    BY <1>2, <1>3, <1>6
  <2>. QED
    BY <1>1, <1>2, <2>1, <2>2
<1>. QED
  BY <1>5, <1>6

LEMMA RootNext ==
  ASSUME NEW v \in Nat, NEW j \in Nat, NEW s, RootAt(v, s, 2 * j)
  PROVE  RootAt(v, RootStep(s), j)
<1>1. 2 * j \in Nat
  OBVIOUS
<1>2. PICK b \in Nat :
        /\ RootStep(s) = [value |-> v - b * b, res |-> b * (2 * j), bit |-> ((2 * j) * (2 * j)) \div 4]
        /\ b * b <= v /\ v < (b + 2 * j) * (b + 2 * j)
  BY <1>1, RootBit
<1>3. PICK jj \in Nat : jj = j * j
  OBVIOUS
<1>4. b * (2 * j) = 2 * (b * j) /\ (2 * j) * (2 * j) = 4 * jj
  BY <1>3
<1>5. (4 * jj) \div 4 = jj
  OBVIOUS
<1>. QED
  BY <1>2, <1>3, <1>4, <1>5 DEF RootAt

\* The bits of the root, highest first.
Bits ==
  << 32 * K, 16 * K, 8 * K, 4 * K, 2 * K, K, 512, 256, 128, 64, 32, 16, 8, 4, 2, 1 >>

\* The root rounded down, for every int.
LEMMA Root ==
  ASSUME NEW v \in 0 .. IntMax
  PROVE  /\ int_sqrt(v) \in Nat /\ int_sqrt(v) * int_sqrt(v) <= v
         /\ v < (int_sqrt(v) + 1) * (int_sqrt(v) + 1)
<1>1. CASE v = 0
  BY <1>1 DEF int_sqrt
<1>2. CASE v # 0
  <2> DEFINE f == RootLoop(v)
             T == {i \in 0 .. 15 : RootAt(v, f[i], Bits[i + 1])}
  <2>1. /\ f[0] = [value |-> v, res |-> 0, bit |-> TopBit]
        /\ \A i \in 0 .. 15 : f[i + 1] = RootStep(f[i])
    BY LoopSteps
  <2>. HIDE DEF f
  <2>2. 0 \in T
    <3>1. PICK h \in Nat : /\ h = Bits[1] /\ h * h = TopBit
                           /\ IntMax < (0 + 2 * h) * (0 + 2 * h)
      <4>1. K \in Nat /\ K = 32 * 32
        BY SMT DEF K
      <4>2. PICK kk \in Nat, kkk \in Nat : kk = K * K /\ kkk = kk * K /\ kkk = 1024 * kk
        <5>1. PICK kk \in Nat : kk = K * K
          BY <4>1
        <5>. QED
          BY <4>1, <5>1
      <4>3. Bits[1] = 32 * K
        BY SMT DEF Bits
      <4>4. (32 * K) * (32 * K) = 1024 * kk /\ (0 + 2 * (32 * K)) * (0 + 2 * (32 * K)) = 4096 * kk
        BY <4>1, <4>2
      <4>5. TopBit = kkk /\ IntMax = 2 * kkk - 1
        BY <4>2 DEF TopBit, IntMax
      <4>6. 32 * K \in Nat /\ 2 * kkk - 1 < 4096 * kk
        BY <4>1, <4>2
      <4>. QED
        BY <4>2, <4>3, <4>4, <4>5, <4>6
    <3>2. IntMax \in Int
      <4>1. K \in Int
        BY SMT DEF K
      <4>2. PICK kkk \in Int : kkk = K * K * K
        BY <4>1
      <4>. QED
        BY <4>2 DEF IntMax, TopBit
    <3>3. RootAt(v, f[0], h)
      <4>1. /\ v - 0 * 0 = v /\ 2 * (0 * h) = 0 /\ 0 * 0 <= v
            /\ v < (0 + 2 * h) * (0 + 2 * h)
        BY <3>1, <3>2
      <4>2. 0 \in Nat
        OBVIOUS
      <4>. QED
        BY <2>1, <3>1, <4>1, <4>2 DEF RootAt
    <3>4. 0 + 1 = 1 /\ 0 \in 0 .. 15
      OBVIOUS
    <3>. QED
      BY <3>1, <3>3, <3>4
  <2>3. ASSUME NEW i \in 0 .. 15 - 1, i \in T PROVE i + 1 \in T
    <3>1. PICK j \in Nat : j = Bits[i + 2] /\ Bits[i + 1] = 2 * j
      <4>1. K \in Nat /\ K = 2 * 512
        BY SMT DEF K
      <4>. QED
        BY <4>1 DEF Bits
    <3>2. RootAt(v, RootStep(f[i]), j)
      BY <2>3, <3>1, RootNext
    <3>3. i + 1 \in 0 .. 15 /\ (i + 1) + 1 = i + 2 /\ f[i + 1] = RootStep(f[i])
      BY <2>1
    <3>. QED
      BY <3>1, <3>2, <3>3
  <2>4. 15 \in T
    <3>1. 15 \in Nat /\ 15 \in 0 .. 15
      OBVIOUS
    <3>. HIDE DEF T
    <3>2. \A i \in 0 .. 15 : i \in T
      BY <2>2, <2>3, <3>1, UpTo
    <3>. QED
      BY <3>1, <3>2
  <2>5. RootAt(v, f[15], 1)
    <3>1. Bits[15 + 1] = 1
      BY SMT DEF Bits
    <3>. QED
      BY <2>4, <3>1
  <2>6. PICK b \in Nat : /\ RootStep(f[15]).res = b * 1
                         /\ b * b <= v /\ v < (b + 1) * (b + 1)
    <3>1. \E b \in Nat :
            /\ RootStep(f[15]) = [value |-> v - b * b, res |-> b * 1, bit |-> (1 * 1) \div 4]
            /\ b * b <= v /\ v < (b + 1) * (b + 1)
      BY <2>5, RootBit
    <3>. QED
      BY <3>1
  <2>7. f[16] = RootStep(f[15])
    <3>1. f[15 + 1] = RootStep(f[15])
      BY <2>1
    <3>. QED
      BY <3>1
  <2>8. int_sqrt(v) = b
    BY <1>2, <2>6, <2>7 DEF int_sqrt, f
  <2>. QED
    BY <2>6, <2>8
<1>. QED
  BY <1>1, <1>2

-----------------------------------------------------------------------------
(* Eyes: the pupils.                                                       *)

\* What is pulled keeps its direction and does not grow; what is far is
\* shortened to max_move parts of dist.
LEMMA Pulls ==
  ASSUME max_move \in Nat, NEW d \in Int, NEW dist \in Nat
  PROVE  \E n \in Nat, f \in Nat :
           /\ \/ d = n /\ Pulled(d, dist) = f
              \/ d = -n /\ Pulled(d, dist) = -f
           /\ f <= n
           /\ dist <= max_move => f = n
           /\ dist > max_move => f * dist <= n * max_move /\ n * max_move < (f + 1) * dist
<1>1. CASE ~(dist > max_move)
  <2>1. Pulled(d, dist) = d
    BY <1>1 DEF Pulled
  <2>2. CASE d >= 0
    BY <1>1, <2>1, <2>2
  <2>3. CASE d < 0
    <3>1. -d \in Nat /\ d = -(-d)
      BY <2>3
    <3>. QED
      BY <1>1, <2>1, <3>1
  <2>. QED
    BY <2>2, <2>3
<1>2. CASE dist > max_move
  <2>1. PICK n \in Nat : d = n \/ (d = -n /\ n # 0)
    <3>1. d >= 0 \/ (-d \in Nat /\ d = -(-d) /\ -d # 0)
      OBVIOUS
    <3>. QED
      BY <3>1
  <2>2. PICK a \in Nat : a = n * max_move
    OBVIOUS
  <2>3. PICK f \in Nat : f = a \div dist /\ f * dist <= a /\ a < (f + 1) * dist
    <3>1. a \div dist \in Nat
      BY <1>2
    <3>2. (a \div dist) * dist <= a /\ a < ((a \div dist) + 1) * dist
      BY <1>2
    <3>. QED
      BY <3>1, <3>2
  <2>4. f <= n
    <3>1. SUFFICES ASSUME f >= n + 1 PROVE FALSE
      OBVIOUS
    <3>2. f * dist >= (n + 1) * dist /\ (n + 1) * dist = n * dist + dist
      BY <3>1
    <3>3. n * dist >= n * max_move
      BY <1>2
    <3>. QED
      BY <1>2, <2>2, <2>3, <3>2, <3>3
  <2>5. CASE d = n
    <3>1. d * max_move = a
      BY <2>2, <2>5
    <3>2. Pulled(d, dist) = f
      BY <1>2, <2>3, <3>1 DEF Pulled, Truncated
    <3>. QED
      BY <1>2, <2>2, <2>3, <2>4, <2>5, <3>2
  <2>6. CASE d = -n /\ n # 0
    <3>1. d * max_move = -a
      BY <2>2, <2>6
    <3>2. Pulled(d, dist) = -f
      <4>1. CASE a = 0
        <5>1. 0 \div dist = 0
          <6>1. dist > 0
            BY <1>2
          <6>. QED
            BY <6>1
        <5>2. f = 0
          BY <2>3, <4>1, <5>1
        <5>3. PICK z \in Int : z = -a
          OBVIOUS
        <5>4. z = 0
          <6>1. z + a = 0
            BY <5>3
          <6>. QED
            BY <4>1, <6>1
        <5>5. Truncated(0, dist) = 0
          BY <5>1 DEF Truncated
        <5>6. Pulled(d, dist) = 0
          BY <1>2, <3>1, <5>3, <5>4, <5>5 DEF Pulled
        <5>7. PICK y \in Int : y = -f
          OBVIOUS
        <5>8. y = 0
          <6>1. y + f = 0
            BY <5>7
          <6>. QED
            BY <5>2, <6>1
        <5>. QED
          BY <5>6, <5>7, <5>8
      <4>2. CASE a # 0
        <5>1. ~(-a >= 0) /\ -(-a) = a
          BY <4>2
        <5>2. Truncated(-a, dist) = -f
          <6>1. PICK z \in Int : z = -a
            OBVIOUS
          <6>2. ~(z >= 0) /\ -z = a
            BY <5>1, <6>1
          <6>3. Truncated(z, dist) = -(a \div dist)
            BY <6>2 DEF Truncated
          <6>. QED
            BY <2>3, <6>1, <6>3
        <5>. QED
          BY <1>2, <3>1, <5>2 DEF Pulled
      <4>. QED
        BY <4>1, <4>2
    <3>. QED
      BY <1>2, <2>2, <2>3, <2>4, <2>6, <3>2
  <2>. QED
    BY <2>1, <2>5, <2>6
<1>. QED
  BY <1>1, <1>2

LEMMA Squares ==
  ASSUME NEW a \in Nat, NEW b \in Nat
  PROVE  /\ a <= b => a * a <= b * b
         /\ a < b => a * a < b * b
         /\ a * a <= b * b => a <= b
         /\ a * a < b * b => a < b
<1>1. ASSUME a <= b PROVE a * a <= b * b
  BY <1>1
<1>2. ASSUME a < b PROVE a * a < b * b
  <2>1. a * a <= a * b /\ a * b + b <= b * b + a
    <3>1. b - a \in Nat /\ b - a >= 1
      BY <1>2
    <3>2. PICK c \in Nat : b = a + c /\ c >= 1
      BY <3>1
    <3>3. a * b = a * a + a * c /\ b * b = a * b + b * c /\ b * c >= b /\ a * c >= 0
      BY <3>2
    <3>. QED
      BY <3>3
  <2>. QED
    BY <1>2, <2>1
<1>3. ASSUME a * a <= b * b PROVE a <= b
  <2>1. SUFFICES ASSUME b < a PROVE FALSE
    OBVIOUS
  <2>2. b * b < a * a
    <3>1. PICK c \in Nat : a = b + c /\ c >= 1
      <4>1. a - b \in Nat /\ a - b >= 1 /\ a = b + (a - b)
        BY <2>1
      <4>. QED
        BY <4>1
    <3>2. a * a = b * b + 2 * (b * c) + c * c /\ c * c >= 1 /\ b * c >= 0
      BY <3>1
    <3>. QED
      BY <3>2
  <2>. QED
    BY <1>3, <2>2
<1>4. ASSUME a * a < b * b PROVE a < b
  <2>1. SUFFICES ASSUME b <= a PROVE FALSE
    OBVIOUS
  <2>2. b * b <= a * a
    BY <2>1
  <2>. QED
    BY <1>4, <2>2
<1>. QED
  BY <1>1, <1>2, <1>3, <1>4

\* One product of squares.
LEMMA SquareOfProduct ==
  ASSUME NEW a \in Int, NEW b \in Int
  PROVE  (a * b) * (a * b) = (a * a) * (b * b)
OBVIOUS

\* A pupil moves by less than max_move + 1.
LEMMA Short ==
  ASSUME NEW M \in Nat, NEW D \in Nat,
         NEW n1 \in Nat, NEW n2 \in Nat, NEW f1 \in Nat, NEW f2 \in Nat,
         n1 * n1 + n2 * n2 < (D + 1) * (D + 1),
         D <= M => f1 = n1 /\ f2 = n2,
         D > M => f1 * D <= n1 * M /\ f2 * D <= n2 * M
  PROVE  f1 * f1 + f2 * f2 < (M + 1) * (M + 1)
<1>1. CASE D <= M
  <2>1. (D + 1) * (D + 1) <= (M + 1) * (M + 1)
    <3>1. D + 1 \in Nat /\ M + 1 \in Nat /\ D + 1 <= M + 1
      BY <1>1
    <3>. QED
      BY <3>1, Squares
  <2>. QED
    BY <1>1, <2>1
<1>2. CASE D > M
  <2>1. PICK S \in Nat : S = n1 * n1 + n2 * n2
    OBVIOUS
  <2>2. PICK F \in Nat : F = f1 * f1 + f2 * f2
    OBVIOUS
  <2>3. PICK DD \in Nat, MM \in Nat : DD = D * D /\ MM = M * M
    OBVIOUS
  <2>4. F * DD <= S * MM
    <3>1. (f1 * D) * (f1 * D) <= (n1 * M) * (n1 * M) /\ (f2 * D) * (f2 * D) <= (n2 * M) * (n2 * M)
      <4>1. f1 * D \in Nat /\ n1 * M \in Nat /\ f2 * D \in Nat /\ n2 * M \in Nat
        OBVIOUS
      <4>. QED
        BY <1>2, <4>1, Squares
    <3>2. /\ (f1 * D) * (f1 * D) = (f1 * f1) * DD /\ (f2 * D) * (f2 * D) = (f2 * f2) * DD
          /\ (n1 * M) * (n1 * M) = (n1 * n1) * MM /\ (n2 * M) * (n2 * M) = (n2 * n2) * MM
      BY <2>3, SquareOfProduct
    <3>3. F * DD = (f1 * f1) * DD + (f2 * f2) * DD /\ S * MM = (n1 * n1) * MM + (n2 * n2) * MM
      BY <2>1, <2>2
    <3>. QED
      BY <3>1, <3>2, <3>3
  <2>5. S * MM <= ((D + 1) * M) * ((D + 1) * M)
    <3>1. ((D + 1) * M) * ((D + 1) * M) = ((D + 1) * (D + 1)) * MM
      BY <2>3, SquareOfProduct
    <3>2. PICK E \in Nat : E = (D + 1) * (D + 1) /\ S < E
      BY <2>1
    <3>3. S * MM <= E * MM
      BY <3>2
    <3>. QED
      BY <3>1, <3>2, <3>3
  <2>6. ((D + 1) * M) * ((D + 1) * M) < ((M + 1) * D) * ((M + 1) * D)
    <3>1. (D + 1) * M = D * M + M /\ (M + 1) * D = D * M + D /\ D * M \in Nat
      OBVIOUS
    <3>2. (D + 1) * M \in Nat /\ (M + 1) * D \in Nat /\ (D + 1) * M < (M + 1) * D
      BY <1>2, <3>1
    <3>. QED
      BY <3>2, Squares
  <2>7. ((M + 1) * D) * ((M + 1) * D) = ((M + 1) * (M + 1)) * DD
    BY <2>3, SquareOfProduct
  <2>8. PICK B \in Nat : B = (M + 1) * (M + 1)
    OBVIOUS
  <2>9. F * DD < B * DD
    <3>1. /\ F * DD \in Nat /\ S * MM \in Nat /\ B * DD \in Nat
          /\ ((D + 1) * M) * ((D + 1) * M) \in Nat
      OBVIOUS
    <3>. QED
      BY <2>4, <2>5, <2>6, <2>7, <2>8, <3>1
  <2>10. F < B
    <3>1. SUFFICES ASSUME F >= B PROVE FALSE
      OBVIOUS
    <3>2. F * DD >= B * DD
      BY <3>1
    <3>. QED
      BY <2>9, <3>2
  <2>. QED
    BY <2>2, <2>8, <2>10
<1>. QED
  BY <1>1, <1>2

\* Two moves, of at most P and of less than E, are one of at most P + E.
LEMMA Added ==
  ASSUME NEW P \in Nat, NEW E \in Nat,
         NEW a1 \in Int, NEW a2 \in Int, NEW e1 \in Int, NEW e2 \in Int,
         a1 * a1 + a2 * a2 <= P * P, e1 * e1 + e2 * e2 <= E * E
  PROVE  (a1 + e1) * (a1 + e1) + (a2 + e2) * (a2 + e2) <= (P + E) * (P + E)
<1>1. PICK A \in Nat, B \in Nat : A = a1 * a1 + a2 * a2 /\ B = e1 * e1 + e2 * e2
  <2>1. a1 * a1 \in Nat /\ a2 * a2 \in Nat /\ e1 * e1 \in Nat /\ e2 * e2 \in Nat
    OBVIOUS
  <2>. QED
    BY <2>1
<1>2. PICK x \in Int : x = a1 * e1 + a2 * e2
  OBVIOUS
<1>3. PICK y \in Int : y = a1 * e2 - a2 * e1
  OBVIOUS
<1>4. x * x + y * y = A * B
  BY <1>1, <1>2, <1>3
<1>5. x <= P * E
  <2>1. SUFFICES ASSUME x > P * E PROVE FALSE
    BY <1>2
  <2>2. PICK q \in Nat : q = P * E
    OBVIOUS
  <2>3. x \in Nat /\ q < x
    BY <2>1, <2>2
  <2>4. q * q < x * x
    BY <2>3, Squares
  <2>5. x * x <= A * B
    <3>1. y * y \in Nat /\ x * x \in Nat /\ A * B \in Nat
      BY <2>3
    <3>. QED
      BY <1>4, <3>1
  <2>6. A * B <= (P * P) * (E * E)
    <3>1. PICK PP \in Nat, EE \in Nat : PP = P * P /\ EE = E * E /\ A <= PP /\ B <= EE
      BY <1>1
    <3>2. A * B <= PP * B /\ PP * B <= PP * EE
      BY <3>1
    <3>. QED
      BY <3>1, <3>2
  <2>7. (P * P) * (E * E) = q * q
    BY <2>2, SquareOfProduct
  <2>8. q * q \in Nat /\ x * x \in Nat /\ A * B \in Nat
    BY <2>3
  <2>. QED
    BY <2>4, <2>5, <2>6, <2>7, <2>8
<1>6. /\ (a1 + e1) * (a1 + e1) + (a2 + e2) * (a2 + e2) = A + 2 * x + B
      /\ (P + E) * (P + E) = P * P + 2 * (P * E) + E * E
  BY <1>1, <1>2
<1>. QED
  BY <1>1, <1>5, <1>6

\* What moves at all towards its end comes nearer to it.
LEMMA Nears ==
  ASSUME NEW n \in Nat, NEW f \in Nat, f <= n
  PROVE  /\ (n - f) * (n - f) <= n * n
         /\ f > 0 => (n - f) * (n - f) < n * n
<1>1. n - f \in Nat /\ n - f <= n /\ (f > 0 => n - f < n)
  OBVIOUS
<1>. QED
  BY <1>1, Squares

\* Along the longer axis the pupil does move.
LEMMA Moves ==
  ASSUME NEW M \in Nat, M >= 2, NEW D \in Nat,
         NEW n1 \in Nat, NEW n2 \in Nat, n2 <= n1, NEW f1 \in Nat,
         D * D <= n1 * n1 + n2 * n2, n1 * M < (f1 + 1) * D
  PROVE  f1 > 0
<1>1. SUFFICES ASSUME f1 = 0 PROVE FALSE
  OBVIOUS
<1>2. n1 * M < D
  BY <1>1
<1>3. n1 * 2 <= n1 * M
  OBVIOUS
<1>4. 2 * n1 \in Nat /\ 2 * n1 < D
  BY <1>2, <1>3
<1>5. (2 * n1) * (2 * n1) < D * D
  BY <1>4, Squares
<1>6. n2 * n2 <= n1 * n1
  BY Squares
<1>7. (2 * n1) * (2 * n1) = 4 * (n1 * n1) /\ n1 * n1 \in Nat /\ D * D \in Nat /\ n2 * n2 \in Nat
  OBVIOUS
<1>. QED
  BY <1>5, <1>6, <1>7

\* The squares do not see the direction.
LEMMA Unsigned ==
  ASSUME NEW d \in Int, NEW e \in Int, NEW n \in Nat, NEW f \in Nat,
         \/ d = n /\ e = f
         \/ d = -n /\ e = -f
  PROVE  /\ d * d = n * n /\ e * e = f * f /\ (e - d) * (e - d) = (n - f) * (n - f)
         /\ f = n => e = d
<1>1. CASE d = n /\ e = f
  BY <1>1
<1>2. CASE d = -n /\ e = -f
  <2>1. d + n = 0 /\ e + f = 0
    BY <1>2
  <2>2. PICK g \in Int : g = n - f
    OBVIOUS
  <2>3. e - d = g
    BY <2>1, <2>2
  <2>4. (-n) * (-n) = n * n /\ (-f) * (-f) = f * f
    OBVIOUS
  <2>. QED
    BY <1>2, <2>1, <2>2, <2>3, <2>4
<1>. QED
  BY <1>1, <1>2

\* What a pupil does for a mouse that is not too far.
LEMMA Looking ==
  ASSUME max_move \in Nat, max_move >= 2, IntMax \in Int,
         NEW m1 \in Int, NEW m2 \in Int, NEW c1 \in Int, NEW c2 \in Int,
         SquaredDistance(<<m1, m2>>, <<c1, c2>>) <= IntMax
  PROVE  \E e1 \in Int, e2 \in Int :
           /\ Pupil(<<c1, c2>>, <<m1, m2>>) = <<c1 + e1, c2 + e2>>
           /\ e1 * e1 + e2 * e2 <= (max_move + 1) * (max_move + 1)
           /\ \/ c1 + e1 = m1 /\ c2 + e2 = m2
              \/ SquaredDistance(<<c1 + e1, c2 + e2>>, <<m1, m2>>)
                   < SquaredDistance(<<c1, c2>>, <<m1, m2>>)
<1> DEFINE S == SquaredDistance(<<m1, m2>>, <<c1, c2>>)
           D == int_sqrt(S)
<1>1. PICK d1 \in Int, d2 \in Int : d1 = m1 - c1 /\ d2 = m2 - c2
  OBVIOUS
<1>2. S = d1 * d1 + d2 * d2
  BY <1>1 DEF SquaredDistance, Square
<1>3. S \in 0 .. IntMax
  <2>1. d1 * d1 >= 0 /\ d2 * d2 >= 0
    OBVIOUS
  <2>. QED
    BY <1>2, <2>1
<1>4. D \in Nat /\ D * D <= S /\ S < (D + 1) * (D + 1)
  <2>. HIDE DEF S
  <2>. QED
    BY <1>3, Root
<1>5. PICK M \in Nat : M = max_move /\ M >= 2
  OBVIOUS
<1>6. Pupil(<<c1, c2>>, <<m1, m2>>) = <<c1 + Pulled(d1, D), c2 + Pulled(d2, D)>>
  BY <1>1 DEF Pupil
<1>. HIDE DEF D, S
<1>7. PICK n1 \in Nat, f1 \in Nat :
        /\ \/ d1 = n1 /\ Pulled(d1, D) = f1
           \/ d1 = -n1 /\ Pulled(d1, D) = -f1
        /\ f1 <= n1
        /\ D <= M => f1 = n1
        /\ D > M => f1 * D <= n1 * M /\ n1 * M < (f1 + 1) * D
  <2>1. \E n \in Nat, f \in Nat :
          /\ \/ d1 = n /\ Pulled(d1, D) = f
             \/ d1 = -n /\ Pulled(d1, D) = -f
          /\ f <= n
          /\ D <= max_move => f = n
          /\ D > max_move => f * D <= n * max_move /\ n * max_move < (f + 1) * D
    BY <1>4, Pulls
  <2>. QED
    BY <1>5, <2>1
<1>8. PICK n2 \in Nat, f2 \in Nat :
        /\ \/ d2 = n2 /\ Pulled(d2, D) = f2
           \/ d2 = -n2 /\ Pulled(d2, D) = -f2
        /\ f2 <= n2
        /\ D <= M => f2 = n2
        /\ D > M => f2 * D <= n2 * M /\ n2 * M < (f2 + 1) * D
  <2>1. \E n \in Nat, f \in Nat :
          /\ \/ d2 = n /\ Pulled(d2, D) = f
             \/ d2 = -n /\ Pulled(d2, D) = -f
          /\ f <= n
          /\ D <= max_move => f = n
          /\ D > max_move => f * D <= n * max_move /\ n * max_move < (f + 1) * D
    BY <1>4, Pulls
  <2>. QED
    BY <1>5, <2>1
<1>9. PICK e1 \in Int, e2 \in Int : e1 = Pulled(d1, D) /\ e2 = Pulled(d2, D)
  BY <1>7, <1>8
<1>10. /\ d1 * d1 = n1 * n1 /\ e1 * e1 = f1 * f1 /\ (e1 - d1) * (e1 - d1) = (n1 - f1) * (n1 - f1)
       /\ f1 = n1 => e1 = d1
  BY <1>7, <1>9, Unsigned
<1>11. /\ d2 * d2 = n2 * n2 /\ e2 * e2 = f2 * f2 /\ (e2 - d2) * (e2 - d2) = (n2 - f2) * (n2 - f2)
       /\ f2 = n2 => e2 = d2
  BY <1>8, <1>9, Unsigned
<1>12. S = n1 * n1 + n2 * n2
  BY <1>2, <1>10, <1>11
<1>13. e1 * e1 + e2 * e2 <= (M + 1) * (M + 1)
  <2>1. f1 * f1 + f2 * f2 < (M + 1) * (M + 1)
    <3>1. n1 * n1 + n2 * n2 < (D + 1) * (D + 1)
      BY <1>4, <1>12
    <3>. QED
      BY <1>4, <1>7, <1>8, <3>1, Short
  <2>. QED
    BY <1>10, <1>11, <2>1
<1>14. CASE D <= M
  <2>1. c1 + e1 = m1 /\ c2 + e2 = m2
    BY <1>1, <1>7, <1>8, <1>10, <1>11, <1>14
  <2>. QED
    BY <1>5, <1>6, <1>9, <1>13, <2>1
<1>15. CASE D > M
  <2>1. f1 > 0 \/ f2 > 0
    <3>1. D * D <= n1 * n1 + n2 * n2 /\ D * D <= n2 * n2 + n1 * n1
      BY <1>4, <1>12
    <3>2. CASE n2 <= n1
      BY <1>4, <1>5, <1>7, <1>15, <3>1, <3>2, Moves
    <3>3. CASE n1 <= n2
      BY <1>4, <1>5, <1>8, <1>15, <3>1, <3>3, Moves
    <3>. QED
      BY <3>2, <3>3
  <2>2. /\ (n1 - f1) * (n1 - f1) <= n1 * n1 /\ (n2 - f2) * (n2 - f2) <= n2 * n2
        /\ f1 > 0 => (n1 - f1) * (n1 - f1) < n1 * n1
        /\ f2 > 0 => (n2 - f2) * (n2 - f2) < n2 * n2
    BY <1>7, <1>8, Nears
  <2>3. SquaredDistance(<<c1 + e1, c2 + e2>>, <<m1, m2>>)
          = (n1 - f1) * (n1 - f1) + (n2 - f2) * (n2 - f2)
    <3>1. c1 + e1 - m1 = e1 - d1 /\ c2 + e2 - m2 = e2 - d2
      BY <1>1
    <3>2. SquaredDistance(<<c1 + e1, c2 + e2>>, <<m1, m2>>)
            = (c1 + e1 - m1) * (c1 + e1 - m1) + (c2 + e2 - m2) * (c2 + e2 - m2)
      BY DEF SquaredDistance, Square
    <3>. QED
      BY <1>10, <1>11, <3>1, <3>2
  <2>4. SquaredDistance(<<c1, c2>>, <<m1, m2>>) = n1 * n1 + n2 * n2
    <3>1. (c1 - m1) * (c1 - m1) = d1 * d1 /\ (c2 - m2) * (c2 - m2) = d2 * d2
      BY <1>1
    <3>. QED
      BY <1>10, <1>11, <3>1 DEF SquaredDistance, Square
  <2>5. (n1 - f1) * (n1 - f1) + (n2 - f2) * (n2 - f2) < n1 * n1 + n2 * n2
    <3>1. /\ (n1 - f1) * (n1 - f1) \in Int /\ n1 * n1 \in Int
          /\ (n2 - f2) * (n2 - f2) \in Int /\ n2 * n2 \in Int
      OBVIOUS
    <3>. QED
      BY <2>1, <2>2, <3>1
  <2>6. SquaredDistance(<<c1 + e1, c2 + e2>>, <<m1, m2>>)
          < SquaredDistance(<<c1, c2>>, <<m1, m2>>)
    BY <2>3, <2>4, <2>5
  <2>. QED
    BY <1>5, <1>6, <1>9, <1>13, <2>6
<1>16. D <= M \/ D > M
  BY <1>4
<1>. QED
  BY <1>14, <1>15, <1>16

\* The looks at one place.
LEMMA LooksAt ==
  ASSUME EyesAssumption, NEW m \in Spots, NEW e \in Sides
  PROVE  LET square == SquaredDistance(m, Centre[e])
             dist == int_sqrt(square)
             pupil == Faces(m)[e]
         IN  /\ Square(dist) <= square /\ square < Square(dist + 1)
             /\ \A p \in Disc(pupil, PupilR) : SquaredDistance(p, Centre[e]) <= Square(EyeR)
             /\ pupil = m \/ SquaredDistance(pupil, m) < SquaredDistance(Centre[e], m)
<1>1. PICK c1 \in Int, c2 \in Int : Centre[e] = <<c1, c2>>
  <2>1. WinW \in Nat /\ WinH \in Nat
    BY DEF EyesAssumption
  <2>2. WinW \div 4 \in Int /\ WinH \div 2 \in Int /\ (WinW * 3) \div 4 \in Int
    BY <2>1
  <2>3. CASE e = "left"
    BY <2>2, <2>3 DEF Centre
  <2>4. CASE e = "right"
    BY <2>2, <2>4 DEF Centre
  <2>. QED
    BY <2>3, <2>4 DEF Sides
<1>2. PICK m1 \in Int, m2 \in Int : m = <<m1, m2>>
  BY DEF EyesAssumption, Spots
<1>3. PICK M \in Nat, P \in Nat : /\ M = max_move /\ P = PupilR /\ M >= 2
                                  /\ EyeR = P + (M + 1) + 1
  <2>1. PupilR \in Nat /\ EyeR \in Nat /\ max_move >= 2
    BY DEF EyesAssumption
  <2>. QED
    BY <2>1 DEF max_move
<1>4. IntMax \in Int
  <2>1. K \in Int
    BY SMT DEF K
  <2>2. PICK kkk \in Int : kkk = K * K * K
    BY <2>1
  <2>. QED
    BY <2>2 DEF IntMax, TopBit
<1>5. SquaredDistance(m, Centre[e]) <= IntMax
  BY DEF EyesAssumption
<1>6. PICK e1 \in Int, e2 \in Int :
        /\ Pupil(<<c1, c2>>, <<m1, m2>>) = <<c1 + e1, c2 + e2>>
        /\ e1 * e1 + e2 * e2 <= (M + 1) * (M + 1)
        /\ \/ c1 + e1 = m1 /\ c2 + e2 = m2
           \/ SquaredDistance(<<c1 + e1, c2 + e2>>, <<m1, m2>>)
                < SquaredDistance(<<c1, c2>>, <<m1, m2>>)
  BY <1>1, <1>2, <1>3, <1>4, <1>5, Looking
<1>7. Faces(m)[e] = <<c1 + e1, c2 + e2>>
  BY <1>1, <1>2, <1>6 DEF Faces
<1>8. /\ Square(int_sqrt(SquaredDistance(m, Centre[e]))) <= SquaredDistance(m, Centre[e])
      /\ SquaredDistance(m, Centre[e]) < Square(int_sqrt(SquaredDistance(m, Centre[e])) + 1)
  <2>1. SquaredDistance(m, Centre[e]) \in 0 .. IntMax
    <3>1. PICK d1 \in Int, d2 \in Int : d1 = m1 - c1 /\ d2 = m2 - c2
      OBVIOUS
    <3>2. SquaredDistance(m, Centre[e]) = d1 * d1 + d2 * d2
      BY <1>1, <1>2, <3>1 DEF SquaredDistance, Square
    <3>3. d1 * d1 >= 0 /\ d2 * d2 >= 0
      OBVIOUS
    <3>. QED
      BY <1>4, <1>5, <3>2, <3>3
  <2>. QED
    BY <2>1, Root DEF Square
<1>9. ASSUME NEW p \in Disc(Faces(m)[e], PupilR)
      PROVE  SquaredDistance(p, Centre[e]) <= Square(EyeR)
  <2>1. PICK p1 \in Int, p2 \in Int : p = <<p1, p2>>
    BY <1>3, <1>7 DEF Disc
  <2>2. SquaredDistance(p, Faces(m)[e]) <= Square(P)
    BY <1>3 DEF Disc
  <2>3. PICK a1 \in Int, a2 \in Int : a1 = p1 - (c1 + e1) /\ a2 = p2 - (c2 + e2)
    OBVIOUS
  <2>4. a1 * a1 + a2 * a2 <= P * P
    BY <1>7, <2>1, <2>2, <2>3 DEF SquaredDistance, Square
  <2>5. PICK E \in Nat : E = M + 1
    OBVIOUS
  <2>6. (a1 + e1) * (a1 + e1) + (a2 + e2) * (a2 + e2) <= (P + E) * (P + E)
    BY <1>6, <2>4, <2>5, Added
  <2>7. SquaredDistance(p, Centre[e]) = (a1 + e1) * (a1 + e1) + (a2 + e2) * (a2 + e2)
    <3>1. p1 - c1 = a1 + e1 /\ p2 - c2 = a2 + e2
      BY <2>3
    <3>. QED
      BY <1>1, <2>1, <3>1 DEF SquaredDistance, Square
  <2>8. (P + E) * (P + E) <= Square(EyeR)
    <3>1. P + E \in Nat /\ EyeR \in Nat /\ P + E <= EyeR
      BY <1>3, <2>5
    <3>. QED
      BY <3>1, Squares DEF Square
  <2>9. Square(EyeR) \in Int /\ (P + E) * (P + E) \in Int
    BY <1>3 DEF Square
  <2>. QED
    BY <2>6, <2>7, <2>8, <2>9
<1>10. Faces(m)[e] = m \/ SquaredDistance(Faces(m)[e], m) < SquaredDistance(Centre[e], m)
  BY <1>1, <1>2, <1>6, <1>7
<1>. QED
  BY <1>8, <1>9, <1>10

\* The eyes show what the last frame found.
EyesShow == frames > 0 => looked_at \in Spots /\ pupils = Faces(looked_at)

\* Wherever the mouse is, within what an int squares, the root is the root,
\* no pupil leaves its eye, and each is on the mouse or nearer to it than the
\* middle of its eye is (xeyes_task and int_sqrt, for every size of the
\* window and the eyes with a pupil that can move by two pixels or more).
THEOREM EyesLook == ASSUME EyesAssumption PROVE EyesSpec => []PupilsLook
<1>1. EyesInit => EyesShow
  BY DEF EyesInit, EyesShow
<1>2. ASSUME EyesShow, [EyesFrame]_eyesVars PROVE EyesShow'
  <2>1. CASE EyesFrame
    <3>1. PICK x \in MouseXs, y \in MouseYs : looked_at' = <<x, y>> /\ pupils' = Faces(<<x, y>>)
      BY <2>1 DEF EyesFrame
    <3>2. <<x, y>> \in Spots
      BY DEF Spots
    <3>. QED
      BY <3>1, <3>2 DEF EyesShow
  <2>2. CASE UNCHANGED eyesVars
    BY <1>2, <2>2 DEF eyesVars, EyesShow
  <2>. QED
    BY <1>2, <2>1, <2>2
<1>3. EyesShow => PupilsLook
  BY LooksAt DEF EyesShow, PupilsLook, RootIsFloor, PupilsInEyes, PupilsNearer
<1>. QED
  BY <1>1, <1>2, <1>3, PTL DEF EyesSpec

-----------------------------------------------------------------------------
(* Calculator: digits and the int.                                         *)

Figures == {Numeral(d) : d \in 0 .. 9}

LEMMA NumeralsDiffer ==
  ASSUME NEW d \in 0 .. 9, NEW e \in 0 .. 9, Numeral(d) = Numeral(e) PROVE d = e
<1> DEFINE f == <<"0", "1", "2", "3", "4", "5", "6", "7", "8", "9">>
<1>1. f[d + 1] = f[e + 1]
  BY DEF Numeral
<1>2. \A i \in 1 .. 10, j \in 1 .. 10 : f[i] = f[j] => i = j
  OBVIOUS
<1>. QED
  BY <1>1, <1>2

LEMMA FigureFacts ==
  /\ \A d \in 0 .. 9 : Numeral(d) \in Figures /\ DigitValue(Numeral(d)) = d
  /\ \A c \in Figures : DigitValue(c) \in 0 .. 9
  /\ "0" \in Figures /\ DigitValue("0") = 0
  /\ \A c \in Figures : c \notin {"+", "-", "*", "/"}
<1>1. ASSUME NEW d \in 0 .. 9 PROVE Numeral(d) \in Figures /\ DigitValue(Numeral(d)) = d
  <2>1. \A e \in 0 .. 9 : Numeral(e) = Numeral(d) => e = d
    BY NumeralsDiffer
  <2>. QED
    BY <2>1 DEF Figures, DigitValue
<1>2. \A c \in Figures : DigitValue(c) \in 0 .. 9
  BY <1>1 DEF Figures
<1>3. Numeral(0) = "0" /\ 0 \in 0 .. 9
  BY DEF Numeral
<1>4. ASSUME NEW d \in 0 .. 9 PROVE Numeral(d) \notin {"+", "-", "*", "/"}
  BY DEF Numeral
<1>. QED
  BY <1>1, <1>2, <1>3, <1>4 DEF Figures

\* Wrapping takes off a multiple of the number of values, and only one
\* multiple does it.
LEMMA WrapIs ==
  ASSUME CalculatorAssumption, NEW n \in Int
  PROVE  /\ Wrap(n) \in Int32
         /\ \E q \in Int : n = Wrap(n) + q * (2 * Half)
<1>1. PICK M \in Nat : M = 2 * Half /\ M > 0 /\ Half \in Nat
  BY DEF CalculatorAssumption
<1>2. PICK a \in Int : a = n + Half
  BY <1>1
<1>3. a % M \in 0 .. M - 1 /\ a \div M \in Int /\ a = M * (a \div M) + (a % M)
  BY <1>1
<1>4. PICK q \in Int, r \in Int : q = a \div M /\ r = a % M
  BY <1>3
<1>5. Wrap(n) = r - Half
  BY <1>1, <1>2, <1>4 DEF Wrap
<1>6. a = q * M + r
  BY <1>3, <1>4
<1>7. n = (r - Half) + q * M
  BY <1>1, <1>2, <1>6
<1>8. r - Half \in Int32
  BY <1>1, <1>3, <1>4 DEF Int32
<1>. QED
  BY <1>1, <1>5, <1>7, <1>8

LEMMA OneMultiple ==
  ASSUME NEW M \in Nat, NEW r \in Int, NEW s \in Int, NEW p \in Int, NEW q \in Int,
         r + p * M = s + q * M, r - s < M, s - r < M
  PROVE  r = s
<1>1. PICK k \in Int : k = q - p
  OBVIOUS
<1>2. r - s = k * M
  BY <1>1
<1>3. CASE k >= 1
  <2>1. k * M >= M
    BY <1>3
  <2>. QED
    BY <1>2, <2>1
<1>4. CASE k <= -1
  <2>1. k * M <= -M
    <3>1. PICK j \in Int : j = -k /\ j >= 1
      BY <1>4
    <3>2. j * M >= M /\ k * M = -(j * M)
      BY <3>1
    <3>. QED
      BY <3>2
  <2>. QED
    BY <1>2, <2>1
<1>5. CASE k = 0
  BY <1>2, <1>5
<1>. QED
  BY <1>3, <1>4, <1>5

LEMMA WrapOf ==
  ASSUME CalculatorAssumption, NEW r \in Int32, NEW q \in Int
  PROVE  Wrap(r + q * (2 * Half)) = r
<1>1. PICK M \in Nat : M = 2 * Half /\ Half \in Nat
  BY DEF CalculatorAssumption
<1>2. r \in Int
  BY <1>1 DEF Int32
<1>3. PICK n \in Int : n = r + q * M
  BY <1>2
<1>4. PICK s \in Int32, p \in Int : s = Wrap(n) /\ n = s + p * M
  BY <1>1, WrapIs
<1>5. s \in Int /\ r - s < M /\ s - r < M
  BY <1>1 DEF Int32
<1>6. r = s
  BY <1>2, <1>3, <1>4, <1>5, OneMultiple
<1>. QED
  BY <1>1, <1>3, <1>4, <1>6

LEMMA WrapKeeps == ASSUME CalculatorAssumption, NEW r \in Int32 PROVE Wrap(r) = r
<1>1. Half \in Nat
  BY DEF CalculatorAssumption
<1>2. r + 0 * (2 * Half) = r
  BY <1>1 DEF Int32
<1>. QED
  BY <1>2, WrapOf

LEMMA WrapShift ==
  ASSUME CalculatorAssumption, NEW n \in Int, NEW k \in Int
  PROVE  Wrap(n + k * (2 * Half)) = Wrap(n)
<1>1. PICK M \in Nat : M = 2 * Half /\ Half \in Nat
  BY DEF CalculatorAssumption
<1>2. PICK r \in Int32, q \in Int : r = Wrap(n) /\ n = r + q * M
  BY <1>1, WrapIs
<1>3. r \in Int
  BY <1>1 DEF Int32
<1>4. n + k * M = r + (q + k) * M /\ q + k \in Int
  BY <1>2, <1>3
<1>5. Wrap(r + (q + k) * M) = r
  BY <1>1, <1>4, WrapOf
<1>. QED
  BY <1>1, <1>2, <1>4, <1>5

\* One more digit, wrapped on the way or at the end.
LEMMA WrapDigit ==
  ASSUME CalculatorAssumption, NEW n \in Int, NEW d \in Int
  PROVE  Wrap(Wrap(Wrap(n) * 10) + d) = Wrap(10 * n + d)
<1>1. PICK M \in Nat : M = 2 * Half /\ Half \in Nat
  BY DEF CalculatorAssumption
<1>2. Int32 \subseteq Int
  BY <1>1 DEF Int32
<1>3. PICK x \in Int32, q \in Int : x = Wrap(n) /\ n = x + q * M
  BY <1>1, WrapIs
<1>4. PICK z \in Int : z = x * 10
  BY <1>2
<1>5. PICK y \in Int32, p \in Int : y = Wrap(z) /\ z = y + p * M
  BY <1>1, WrapIs
<1>6. PICK w \in Int, k \in Int : w = y + d /\ k = p + 10 * q
  BY <1>2
<1>7. 10 * n + d = w + k * M
  <2>1. x \in Int /\ y \in Int
    BY <1>2
  <2>2. PICK u \in Int, v \in Int : u = q * M /\ v = p * M
    OBVIOUS
  <2>3. n = x + u /\ z = y + v
    BY <1>3, <1>5, <2>2
  <2>4. k * M = v + 10 * u
    BY <1>6, <2>2
  <2>. QED
    BY <1>4, <1>6, <2>1, <2>3, <2>4
<1>8. Wrap(w + k * M) = Wrap(w)
  BY <1>1, WrapShift
<1>. QED
  BY <1>3, <1>4, <1>5, <1>6, <1>7, <1>8

LEMMA ApplyInt ==
  ASSUME CalculatorAssumption, NEW a \in Int32, NEW b \in Int32, NEW op
  PROVE  apply_op(a, b, op) \in Int32
<1>1. Half \in Nat /\ a \in Int /\ b \in Int
  BY DEF CalculatorAssumption, Int32
<1>2. PICK plus \in Int, minus \in Int, times \in Int : plus = a + b /\ minus = a - b /\ times = a * b
  BY <1>1
<1>3. b # 0 => Quotient(a, b) \in Int
  <2>1. SUFFICES ASSUME b # 0 PROVE Quotient(a, b) \in Int
    OBVIOUS
  <2>2. PICK m \in Nat, k \in Nat : m = Magnitude(a) /\ k = Magnitude(b) /\ k > 0
    <3>1. Magnitude(a) \in Nat
      BY <1>1 DEF Magnitude
    <3>2. Magnitude(b) \in Nat /\ Magnitude(b) > 0
      BY <1>1, <2>1 DEF Magnitude
    <3>. QED
      BY <3>1, <3>2
  <2>3. m \div k \in Int
    BY <2>2
  <2>. QED
    BY <2>2, <2>3 DEF Quotient
<1>4. Wrap(plus) \in Int32 /\ Wrap(minus) \in Int32 /\ Wrap(times) \in Int32
  BY WrapIs
<1>5. b # 0 => Wrap(Quotient(a, b)) \in Int32
  BY <1>3, WrapIs
<1>6. CASE op = "+"
  BY <1>2, <1>4, <1>6 DEF apply_op
<1>7. CASE op = "-"
  BY <1>2, <1>4, <1>7 DEF apply_op
<1>8. CASE op = "*"
  BY <1>2, <1>4, <1>8 DEF apply_op
<1>9. CASE op = "/"
  BY <1>5, <1>9 DEF apply_op
<1>10. CASE op \notin {"+", "-", "*", "/"}
  BY <1>10 DEF apply_op
<1>. QED
  BY <1>6, <1>7, <1>8, <1>9, <1>10

LEMMA ApplyNone == ASSUME NEW a, NEW b PROVE apply_op(a, b, "") = b
BY DEF apply_op

-----------------------------------------------------------------------------
(* Calculator: the number that a text of digits stands for.                *)

\* What Sums says of the function it chooses.
SumsIs(digits, f) ==
  f = [i \in 0 .. Len(digits) |-> IF i = 0 THEN 0 ELSE 10 * f[i - 1] + DigitValue(digits[i])]

LEMMA SumsChosen == ASSUME NEW digits PROVE Sums(digits) = CHOOSE f : SumsIs(digits, f)
BY Zenon DEF Sums, SumsIs

LEMMA SumsSteps ==
  ASSUME NEW digits, Len(digits) \in Nat
  PROVE  /\ Sums(digits)[0] = 0
         /\ \A i \in 1 .. Len(digits) :
              Sums(digits)[i] = 10 * Sums(digits)[i - 1] + DigitValue(digits[i])
<1> DEFINE n == Len(digits)
           more(x, i) == 10 * x + DigitValue(digits[i])
           Upto(m, f) == f = [i \in 0 .. m |-> IF i = 0 THEN 0 ELSE more(f[i - 1], i)]
           T == {m \in 0 .. n : \E f : Upto(m, f)}
<1>. HIDE DEF more
<1>1. 0 \in T
  <2> DEFINE g == [i \in 0 .. 0 |-> 0]
  <2>1. Upto(0, g) /\ 0 \in 0 .. n
    OBVIOUS
  <2>. HIDE DEF g
  <2>. QED
    BY <2>1
<1>2. ASSUME NEW m \in 0 .. n - 1, m \in T PROVE m + 1 \in T
  <2>1. PICK f : Upto(m, f)
    BY <1>2
  <2> DEFINE g == [i \in 0 .. m + 1 |-> IF i = m + 1 THEN more(f[m], i) ELSE f[i]]
  <2>2. Upto(m + 1, g)
    <3>1. ASSUME NEW i \in 0 .. m + 1
          PROVE  g[i] = IF i = 0 THEN 0 ELSE more(g[i - 1], i)
      <4>1. CASE i = m + 1
        <5>1. g[i] = more(f[m], i) /\ i # 0
          BY <4>1
        <5>2. g[i - 1] = f[m]
          BY <4>1
        <5>. HIDE DEF g
        <5>. QED
          BY <5>1, <5>2
      <4>2. CASE i # m + 1
        <5>1. i \in 0 .. m /\ g[i] = f[i]
          BY <4>2
        <5>2. i # 0 => g[i - 1] = f[i - 1]
          BY <4>2
        <5>. HIDE DEF g
        <5>. QED
          BY <2>1, <5>1, <5>2
      <4>. QED
        BY <4>1, <4>2
    <3>. QED
      BY <3>1
  <2>3. m + 1 \in 0 .. n
    OBVIOUS
  <2>. QED
    BY <2>2, <2>3
<1>3. n \in T
  <2>. HIDE DEF T
  <2>1. \A m \in 0 .. n : m \in T
    BY <1>1, <1>2, UpTo
  <2>. QED
    BY <2>1
<1>4. SumsIs(digits, Sums(digits))
  <2>1. \E f : SumsIs(digits, f)
    BY <1>3 DEF SumsIs, more
  <2>. QED
    BY <2>1, SumsChosen
<1> DEFINE r == Sums(digits)
<1>. HIDE DEF r
<1>5. r = [i \in 0 .. n |-> IF i = 0 THEN 0 ELSE 10 * r[i - 1] + DigitValue(digits[i])]
  BY <1>4, Zenon DEF SumsIs, r
<1>6. r[0] = 0
  <2>1. 0 \in 0 .. n
    OBVIOUS
  <2>. QED
    BY <1>5, <2>1, Zenon
<1>7. ASSUME NEW i \in 1 .. n PROVE r[i] = 10 * r[i - 1] + DigitValue(digits[i])
  <2>1. i \in 0 .. n /\ i # 0
    OBVIOUS
  <2>. QED
    BY <1>5, <2>1, Zenon
<1>. QED
  BY <1>6, <1>7 DEF r

LEMMA DecimalNat ==
  ASSUME NEW digits \in Seq(Figures)
  PROVE  \A i \in 0 .. Len(digits) : Sums(digits)[i] \in Nat
<1> DEFINE n == Len(digits)
           T == {i \in 0 .. n : Sums(digits)[i] \in Nat}
<1>1. n \in Nat
  OBVIOUS
<1>2. 0 \in T
  BY <1>1, SumsSteps
<1>3. ASSUME NEW i \in 0 .. n - 1, i \in T PROVE i + 1 \in T
  <2>1. i + 1 \in 1 .. n /\ (i + 1) - 1 = i
    BY <1>1
  <2>2. digits[i + 1] \in Figures
    BY <2>1
  <2>3. DigitValue(digits[i + 1]) \in Nat
    BY <2>2, FigureFacts
  <2>4. Sums(digits)[i + 1] = 10 * Sums(digits)[(i + 1) - 1] + DigitValue(digits[i + 1])
    BY <1>1, <2>1, SumsSteps
  <2>5. Sums(digits)[i] \in Nat
    BY <1>3
  <2>. HIDE DEF n
  <2>. QED
    BY <2>1, <2>3, <2>4, <2>5
<1>. HIDE DEF T
<1>4. \A i \in 0 .. n : i \in T
  BY <1>1, <1>2, <1>3, UpTo
<1>. QED
  BY <1>4 DEF T

LEMMA DecimalAppend ==
  ASSUME NEW digits \in Seq(Figures), NEW c \in Figures
  PROVE  Decimal(Append(digits, c)) = 10 * Decimal(digits) + DigitValue(c)
<1> DEFINE n == Len(digits)
           longer == Append(digits, c)
           T == {i \in 0 .. n : Sums(longer)[i] = Sums(digits)[i]}
<1>1. /\ n \in Nat /\ Len(longer) = n + 1 /\ Len(longer) \in Nat
      /\ longer[n + 1] = c /\ \A i \in 1 .. n : longer[i] = digits[i]
  OBVIOUS
<1>. HIDE DEF longer, n
<1>2. 0 \in T
  <2>1. Len(digits) \in Nat
    OBVIOUS
  <2>. QED
    BY <1>1, <2>1, SumsSteps
<1>3. ASSUME NEW i \in 0 .. n - 1, i \in T PROVE i + 1 \in T
  <2>1. i + 1 \in 1 .. n /\ (i + 1) - 1 = i /\ i + 1 \in 1 .. Len(longer) /\ n = Len(digits)
    BY <1>1 DEF n
  <2>2. Sums(longer)[i + 1] = 10 * Sums(longer)[(i + 1) - 1] + DigitValue(longer[i + 1])
    BY <1>1, <2>1, SumsSteps
  <2>3. Sums(digits)[i + 1] = 10 * Sums(digits)[(i + 1) - 1] + DigitValue(digits[i + 1])
    BY <1>1, <2>1, SumsSteps
  <2>4. Sums(longer)[i] = Sums(digits)[i] /\ longer[i + 1] = digits[i + 1]
    BY <1>1, <1>3, <2>1
  <2>5. Sums(longer)[i + 1] = Sums(digits)[i + 1]
    BY <2>1, <2>2, <2>3, <2>4
  <2>. QED
    BY <1>1, <2>1, <2>5
<1>. HIDE DEF T
<1>4. n \in T
  <2>1. \A i \in 0 .. n : i \in T
    BY <1>1, <1>2, <1>3, UpTo
  <2>. QED
    BY <1>1, <2>1
<1>5. Sums(longer)[n + 1] = 10 * Sums(longer)[(n + 1) - 1] + DigitValue(longer[n + 1])
  <2>1. n + 1 \in 1 .. Len(longer)
    BY <1>1
  <2>. QED
    BY <1>1, <2>1, SumsSteps
<1>6. (n + 1) - 1 = n
  BY <1>1
<1>. QED
  BY <1>1, <1>4, <1>5, <1>6 DEF T, Decimal, longer, n

LEMMA DecimalOne ==
  /\ Decimal(<<>>) = 0
  /\ \A c \in Figures : Decimal(<<c>>) = DigitValue(c)
<1>1. Decimal(<<>>) = 0
  BY SumsSteps DEF Decimal
<1>2. ASSUME NEW c \in Figures PROVE Decimal(<<c>>) = DigitValue(c)
  <2>1. Append(<<>>, c) = <<c>> /\ <<>> \in Seq(Figures)
    OBVIOUS
  <2>2. Decimal(Append(<<>>, c)) = 10 * Decimal(<<>>) + DigitValue(c)
    BY <2>1, DecimalAppend
  <2>3. DigitValue(c) \in Int
    BY FigureFacts
  <2>. QED
    BY <1>1, <2>1, <2>2, <2>3
<1>. QED
  BY <1>1, <1>2

NumeralsIs(f) ==
  f = [n \in 0 .. Half |-> IF n < 10 THEN <<Numeral(n)>>
                           ELSE Append(f[n \div 10], Numeral(n % 10))]

LEMMA NumeralsChosen == Numerals = CHOOSE f : NumeralsIs(f)
BY Zenon DEF Numerals, NumeralsIs

LEMMA Tenth ==
  ASSUME NEW n \in Nat
  PROVE  /\ n \div 10 \in Nat /\ n % 10 \in 0 .. 9 /\ n = 10 * (n \div 10) + (n % 10)
         /\ n >= 10 => n \div 10 < n
OBVIOUS

LEMMA NumeralsSteps ==
  ASSUME CalculatorAssumption, NEW n \in 0 .. Half
  PROVE  /\ n < 10 => Numerals[n] = <<Numeral(n)>>
         /\ n >= 10 => Numerals[n] = Append(Numerals[n \div 10], Numeral(n % 10))
<1>1. Half \in Nat /\ n \in Nat
  BY DEF CalculatorAssumption
<1> DEFINE one(x) == <<Numeral(x)>>
           more(s, x) == Append(s, Numeral(x % 10))
           Upto(m, f) == f = [x \in 0 .. m |-> IF x < 10 THEN one(x) ELSE more(f[x \div 10], x)]
           T == {m \in 0 .. Half : \E f : Upto(m, f)}
<1>. HIDE DEF one, more
<1>2. 0 \in T
  <2> DEFINE g == [x \in 0 .. 0 |-> one(x)]
  <2>1. Upto(0, g)
    <3>1. ASSUME NEW x \in 0 .. 0
          PROVE  g[x] = IF x < 10 THEN one(x) ELSE more(g[x \div 10], x)
      BY <3>1
    <3>. QED
      BY <3>1
  <2>2. 0 \in 0 .. Half
    BY <1>1
  <2>. HIDE DEF g
  <2>. QED
    BY <2>1, <2>2
<1>3. ASSUME NEW m \in 0 .. Half - 1, m \in T PROVE m + 1 \in T
  <2>1. PICK f : Upto(m, f)
    BY <1>3
  <2> DEFINE last == IF m + 1 < 10 THEN one(m + 1) ELSE more(f[(m + 1) \div 10], m + 1)
             g == [x \in 0 .. m + 1 |-> IF x = m + 1 THEN last ELSE f[x]]
  <2>. HIDE DEF last
  <2>2. Upto(m + 1, g)
    <3>1. ASSUME NEW x \in 0 .. m + 1
          PROVE  g[x] = IF x < 10 THEN one(x) ELSE more(g[x \div 10], x)
      <4>0. m \in Nat /\ x \in Nat
        BY <1>1
      <4>1. PICK t \in Nat : t = x \div 10 /\ (x >= 10 => t < x)
        BY <4>0, Tenth
      <4>2. x >= 10 => t \in 0 .. m /\ g[t] = f[t]
        BY <4>0, <4>1
      <4>3. CASE x = m + 1
        <5>1. g[x] = last
          BY <4>3
        <5>. HIDE DEF g
        <5>2. CASE x < 10
          BY <4>3, <5>1, <5>2 DEF last
        <5>3. CASE ~(x < 10)
          <6>1. last = more(f[t], x) /\ g[t] = f[t]
            BY <4>0, <4>1, <4>2, <4>3, <5>3 DEF last
          <6>. QED
            BY <4>1, <5>1, <5>3, <6>1
        <5>. QED
          BY <5>2, <5>3
      <4>4. CASE x # m + 1
        <5>1. x \in 0 .. m /\ g[x] = f[x]
          BY <4>0, <4>4
        <5>. HIDE DEF g
        <5>2. f[x] = IF x < 10 THEN one(x) ELSE more(f[x \div 10], x)
          BY <2>1, <5>1
        <5>3. CASE x < 10
          BY <5>1, <5>2, <5>3
        <5>4. CASE ~(x < 10)
          BY <4>0, <4>1, <4>2, <5>1, <5>2, <5>4
        <5>. QED
          BY <5>3, <5>4
      <4>. QED
        BY <4>3, <4>4
    <3>. QED
      BY <3>1
  <2>3. m + 1 \in 0 .. Half
    BY <1>1
  <2>. QED
    BY <2>2, <2>3
<1>4. Half \in T
  <2>. HIDE DEF T
  <2>1. \A m \in 0 .. Half : m \in T
    BY <1>1, <1>2, <1>3, UpTo
  <2>. QED
    BY <1>1, <2>1
<1>5. NumeralsIs(Numerals)
  <2>1. \E f : NumeralsIs(f)
    BY <1>4 DEF NumeralsIs, one, more
  <2>. QED
    BY <2>1, NumeralsChosen
<1> DEFINE r == Numerals
<1>. HIDE DEF r
<1>6. r = [x \in 0 .. Half |-> IF x < 10 THEN one(x) ELSE more(r[x \div 10], x)]
  BY <1>5, Zenon DEF NumeralsIs, r, one, more
<1>7. r[n] = IF n < 10 THEN one(n) ELSE more(r[n \div 10], n)
  BY <1>6, Zenon
<1>. QED
  BY <1>1, <1>7 DEF r, one, more

\* The digits that are written stand for the number.
LEMMA NumeralsTell ==
  ASSUME CalculatorAssumption
  PROVE  \A n \in 0 .. Half : /\ Numerals[n] \in Seq(Figures) /\ Numerals[n] # <<>>
                              /\ Decimal(Numerals[n]) = n
<1> DEFINE Good(n) == /\ Numerals[n] \in Seq(Figures) /\ Numerals[n] # <<>>
                      /\ Decimal(Numerals[n]) = n
           T == {m \in 0 .. Half : \A n \in 0 .. m : Good(n)}
<1>1. Half \in Nat
  BY DEF CalculatorAssumption
<1>2. ASSUME NEW n \in 0 .. Half, n < 10 PROVE Good(n)
  <2>1. Numerals[n] = <<Numeral(n)>> /\ n \in 0 .. 9
    BY <1>2, NumeralsSteps
  <2>2. Numeral(n) \in Figures /\ DigitValue(Numeral(n)) = n
    BY <2>1, FigureFacts
  <2>3. Decimal(<<Numeral(n)>>) = n
    BY <2>2, DecimalOne
  <2>4. <<Numeral(n)>> \in Seq(Figures) /\ <<Numeral(n)>> # <<>>
    BY <2>2
  <2>. QED
    BY <2>1, <2>3, <2>4
<1>3. 0 \in T
  <2>1. 0 \in 0 .. Half /\ 0 < 10 /\ \A n \in 0 .. 0 : n = 0
    BY <1>1
  <2>2. Good(0)
    BY <1>2, <2>1
  <2>. HIDE DEF Good
  <2>. QED
    BY <2>1, <2>2
<1>4. ASSUME NEW m \in 0 .. Half - 1, m \in T PROVE m + 1 \in T
  <2>1. m + 1 \in 0 .. Half /\ m \in Nat
    BY <1>1
  <2>2. Good(m + 1)
    <3>1. CASE m + 1 < 10
      BY <1>2, <2>1, <3>1
    <3>2. CASE m + 1 >= 10
      <4>1. PICK n \in 0 .. Half, t \in Nat, d \in 0 .. 9 :
              n = m + 1 /\ t = n \div 10 /\ d = n % 10 /\ n = 10 * t + d /\ t < n /\ n >= 10
        <5>1. m + 1 \in Nat
          BY <2>1
        <5>. QED
          BY <2>1, <3>2, <5>1, Tenth
      <4>2. t \in 0 .. m
        BY <2>1, <4>1
      <4>3. Good(t)
        BY <1>4, <4>2
      <4>4. Numerals[n] = Append(Numerals[t], Numeral(d))
        BY <4>1, NumeralsSteps
      <4>5. Numeral(d) \in Figures /\ DigitValue(Numeral(d)) = d
        BY FigureFacts
      <4>6. Decimal(Append(Numerals[t], Numeral(d))) = 10 * t + d
        BY <4>3, <4>5, DecimalAppend
      <4>7. Append(Numerals[t], Numeral(d)) \in Seq(Figures) /\ Append(Numerals[t], Numeral(d)) # <<>>
        BY <4>3, <4>5
      <4>8. Good(n)
        BY <4>1, <4>4, <4>6, <4>7
      <4>. QED
        BY <4>1, <4>8
    <3>. QED
      BY <2>1, <3>1, <3>2
  <2>3. \A n \in 0 .. m : Good(n)
    BY <1>4
  <2>4. \A n \in 0 .. m + 1 : n \in 0 .. m \/ n = m + 1
    BY <2>1
  <2>. HIDE DEF Good
  <2>. QED
    BY <2>1, <2>2, <2>3, <2>4
<1>. HIDE DEF T
<1>5. Half \in T
  <2>1. \A m \in 0 .. Half : m \in T
    BY <1>1, <1>3, <1>4, UpTo
  <2>. QED
    BY <1>1, <2>1
<1>. QED
  BY <1>5 DEF T

-----------------------------------------------------------------------------
(* Calculator: the value of a text.                                        *)

LEMMA LastOpIs ==
  ASSUME NEW t, NEW k \in Nat, OpsUpTo(t, k) # {}
  PROVE  /\ LastOp(t, k) \in OpsUpTo(t, k)
         /\ \A j \in OpsUpTo(t, k) : j <= LastOp(t, k)
<1> DEFINE S == OpsUpTo(t, k)
           gaps == {k - i : i \in S}
<1>1. S \subseteq 2 .. k
  BY DEF OpsUpTo
<1>. HIDE DEF S
<1>2. gaps \subseteq Nat /\ gaps # {}
  BY <1>1 DEF S
<1>3. PICK x \in gaps : \A y \in gaps : ~(<<y, x>> \in OpToRel(<, Nat))
  BY <1>2, NatLessThanWellFounded, WFMin
<1>4. PICK i \in S : x = k - i
  BY <1>3
<1>5. ASSUME NEW j \in S PROVE j <= i
  <2>1. k - j \in gaps /\ k - j \in Nat /\ x \in Nat
    BY <1>2, <1>3
  <2>2. ~(k - j < x)
    BY <1>3, <2>1 DEF OpToRel
  <2>. QED
    BY <1>1, <1>4, <2>2
<1>6. \E m \in S : \A j \in S : j <= m
  BY <1>5
<1>. QED
  BY <1>6 DEF LastOp, S

\* The last operator is known by what follows it.
LEMMA LastOpAt ==
  ASSUME NEW t, NEW k \in Nat, NEW l \in OpsUpTo(t, k), \A j \in OpsUpTo(t, k) : j <= l
  PROVE  LastOp(t, k) = l
<1>1. /\ LastOp(t, k) \in OpsUpTo(t, k)
      /\ \A j \in OpsUpTo(t, k) : j <= LastOp(t, k)
  BY LastOpIs
<1>2. OpsUpTo(t, k) \subseteq Int
  BY DEF OpsUpTo
<1>. QED
  BY <1>1, <1>2

\* What Values says of the function it chooses.
Applied(t, f, k) ==
  IF OpsUpTo(t, k) = {} THEN Number(SubSeq(t, 1, k))
  ELSE apply_op(f[LastOp(t, k) - 1], Number(SubSeq(t, LastOp(t, k) + 1, k)), t[LastOp(t, k)])

LEMMA ValuesChosen ==
  ASSUME NEW t
  PROVE  Values(t) = CHOOSE f : f = [k \in 1 .. Len(t) |-> Applied(t, f, k)]
BY Zenon DEF Values, Applied

\* Only what comes before the last operator matters.
LEMMA AppliedSame ==
  ASSUME NEW t, NEW k \in Nat, NEW f, NEW g, \A j \in 1 .. k - 1 : f[j] = g[j]
  PROVE  Applied(t, f, k) = Applied(t, g, k)
<1>1. CASE OpsUpTo(t, k) = {}
  BY <1>1 DEF Applied
<1>2. CASE OpsUpTo(t, k) # {}
  <2>1. LastOp(t, k) \in 2 .. k
    BY <1>2, LastOpIs DEF OpsUpTo
  <2>2. LastOp(t, k) - 1 \in 1 .. k - 1
    BY <2>1
  <2>3. f[LastOp(t, k) - 1] = g[LastOp(t, k) - 1]
    BY <2>2
  <2>. QED
    BY <2>3 DEF Applied
<1>. QED
  BY <1>1, <1>2

LEMMA ValuesSteps ==
  ASSUME NEW t, Len(t) \in Nat
  PROVE  \A k \in 1 .. Len(t) : Values(t)[k] = Applied(t, Values(t), k)
<1> DEFINE n == Len(t)
           Upto(m, f) == f = [k \in 1 .. m |-> Applied(t, f, k)]
           T == {m \in 0 .. n : \E f : Upto(m, f)}
<1>1. 0 \in T
  <2> DEFINE g == [k \in 1 .. 0 |-> Applied(t, 0, k)]
  <2>1. Upto(0, g) /\ 0 \in 0 .. n
    OBVIOUS
  <2>. HIDE DEF g
  <2>. QED
    BY <2>1
<1>2. ASSUME NEW m \in 0 .. n - 1, m \in T PROVE m + 1 \in T
  <2>1. PICK f : Upto(m, f)
    BY <1>2
  <2>2. PICK last : last = Applied(t, f, m + 1)
    OBVIOUS
  <2> DEFINE g == [k \in 1 .. m + 1 |-> IF k = m + 1 THEN last ELSE f[k]]
  <2>3. Upto(m + 1, g)
    <3>1. ASSUME NEW k \in 1 .. m + 1 PROVE g[k] = Applied(t, g, k)
      <4>1. m \in Nat /\ k \in Nat
        OBVIOUS
      <4>2. \A j \in 1 .. k - 1 : f[j] = g[j]
        BY <4>1
      <4>3. Applied(t, f, k) = Applied(t, g, k)
        BY <4>1, <4>2, AppliedSame
      <4>4. CASE k = m + 1
        <5>1. g[k] = last
          BY <4>4
        <5>. QED
          BY <2>2, <4>3, <4>4, <5>1
      <4>5. CASE k # m + 1
        <5>1. k \in 1 .. m /\ g[k] = f[k]
          BY <4>1, <4>5
        <5>2. f[k] = Applied(t, f, k)
          BY <2>1, <5>1
        <5>. QED
          BY <4>3, <5>1, <5>2
      <4>. QED
        BY <4>4, <4>5
    <3>. QED
      BY <3>1
  <2>4. m + 1 \in 0 .. n
    OBVIOUS
  <2>. QED
    BY <2>3, <2>4
<1>3. n \in T
  <2>. HIDE DEF T
  <2>1. \A m \in 0 .. n : m \in T
    BY <1>1, <1>2, UpTo
  <2>. QED
    BY <2>1
<1>4. Values(t) = [k \in 1 .. Len(t) |-> Applied(t, Values(t), k)]
  <2>1. \E f : f = [k \in 1 .. Len(t) |-> Applied(t, f, k)]
    BY <1>3
  <2>. QED
    BY <2>1, ValuesChosen, Zenon
<1> DEFINE r == Values(t)
<1>. HIDE DEF r
<1>5. r = [k \in 1 .. Len(t) |-> Applied(t, r, k)]
  BY <1>4 DEF r
<1>6. \A k \in 1 .. Len(t) : r[k] = Applied(t, r, k)
  BY <1>5, Zenon
<1>. QED
  BY <1>6 DEF r

LEMMA SubSame ==
  ASSUME NEW X, NEW s \in Seq(X), NEW t \in Seq(X), NEW a \in Nat, NEW b \in Nat,
         a >= 1, b <= Len(s), b <= Len(t), \A i \in 1 .. b : s[i] = t[i]
  PROVE  SubSeq(s, a, b) = SubSeq(t, a, b)
<1> DEFINE u == SubSeq(s, a, b)
           v == SubSeq(t, a, b)
           n == IF a <= b THEN b - a + 1 ELSE 0
<1>1. a \in Int /\ b \in Int /\ \A i \in a .. b : s[i] \in X /\ t[i] \in X /\ s[i] = t[i]
  OBVIOUS
<1>2. u \in Seq(X) /\ Len(u) = n /\ \A i \in 1 .. b - a + 1 : u[i] = s[a + i - 1]
  BY <1>1, SubSeqProperties
<1>3. v \in Seq(X) /\ Len(v) = n /\ \A i \in 1 .. b - a + 1 : v[i] = t[a + i - 1]
  BY <1>1, SubSeqProperties
<1>. HIDE DEF u, v
<1>4. \A i \in 1 .. n : i \in 1 .. b - a + 1 /\ a + i - 1 \in a .. b
  OBVIOUS
<1>. HIDE DEF n
<1>5. \A i \in 1 .. n : u[i] = v[i]
  BY <1>1, <1>2, <1>3, <1>4
<1>6. u = v
  BY <1>2, <1>3, <1>5, SeqEqual
<1>. QED
  BY <1>6 DEF u, v

\* The beginning of a text has the same values by itself.
LEMMA ValuesBegin ==
  ASSUME NEW X, NEW s \in Seq(X), NEW t \in Seq(X), Len(s) <= Len(t),
         \A i \in 1 .. Len(s) : s[i] = t[i]
  PROVE  \A k \in 1 .. Len(s) : Values(s)[k] = Values(t)[k]
<1> DEFINE n == Len(s)
           T == {m \in 0 .. n : \A k \in 1 .. m : Values(s)[k] = Values(t)[k]}
<1>1. n \in Nat /\ Len(t) \in Nat
  OBVIOUS
<1>2. 0 \in T
  BY <1>1
<1>3. ASSUME NEW m \in 0 .. n - 1, m \in T PROVE m + 1 \in T
  <2>1. PICK k \in Nat : k = m + 1 /\ k \in 1 .. n /\ k \in 1 .. Len(t) /\ k - 1 = m
    BY <1>1
  <2>2. Values(s)[k] = Applied(s, Values(s), k) /\ Values(t)[k] = Applied(t, Values(t), k)
    BY <1>1, <2>1, ValuesSteps
  <2>3. Applied(s, Values(s), k) = Applied(s, Values(t), k)
    <3>1. \A j \in 1 .. k - 1 : Values(s)[j] = Values(t)[j]
      BY <1>3, <2>1
    <3>. QED
      BY <3>1, AppliedSame
  <2>4. Applied(s, Values(t), k) = Applied(t, Values(t), k)
    <3>1. OpsUpTo(s, k) = OpsUpTo(t, k)
      <4>1. \A i \in 2 .. k : s[i] = t[i]
        BY <1>1, <2>1
      <4>. QED
        BY <4>1 DEF OpsUpTo
    <3>2. LastOp(s, k) = LastOp(t, k)
      BY <3>1 DEF LastOp
    <3>3. CASE OpsUpTo(s, k) = {}
      <4>1. SubSeq(s, 1, k) = SubSeq(t, 1, k)
        <5>1. k <= Len(s) /\ k <= Len(t) /\ 1 \in Nat /\ 1 >= 1 /\ \A i \in 1 .. k : s[i] = t[i]
          BY <1>1, <2>1
        <5>. QED
          BY <5>1, SubSame
      <4>. QED
        BY <3>1, <3>3, <4>1 DEF Applied
    <3>4. CASE OpsUpTo(s, k) # {}
      <4>1. PICK l \in Nat : l = LastOp(s, k) /\ l \in 2 .. k
        BY <3>4, LastOpIs DEF OpsUpTo
      <4>2. SubSeq(s, l + 1, k) = SubSeq(t, l + 1, k)
        <5>1. /\ k <= Len(s) /\ k <= Len(t) /\ l + 1 \in Nat /\ l + 1 >= 1
              /\ \A i \in 1 .. k : s[i] = t[i]
          BY <1>1, <2>1, <4>1
        <5>. QED
          BY <5>1, SubSame
      <4>3. s[l] = t[l]
        BY <1>1, <2>1, <4>1
      <4>. QED
        BY <3>1, <3>2, <3>4, <4>1, <4>2, <4>3 DEF Applied
    <3>. QED
      BY <3>3, <3>4
  <2>5. Values(s)[k] = Values(t)[k]
    BY <2>2, <2>3, <2>4
  <2>6. \A j \in 1 .. m + 1 : j \in 1 .. m \/ j = k
    BY <2>1
  <2>. QED
    BY <1>1, <1>3, <2>1, <2>5, <2>6
<1>. HIDE DEF T
<1>4. n \in T
  <2>1. \A m \in 0 .. n : m \in T
    BY <1>1, <1>2, <1>3, UpTo
  <2>. QED
    BY <1>1, <2>1
<1>. QED
  BY <1>4 DEF T

Marks == Figures \cup {"+", "-", "*", "/"}

LEMMA OperatorFacts ==
  ASSUME CalculatorAssumption
  PROVE  /\ Operators \subseteq Marks /\ Figures \subseteq Marks
         /\ \A c \in Figures : c \notin Operators /\ c # "-"
         /\ "" \notin Operators
BY FigureFacts DEF CalculatorAssumption, Marks

LEMMA FiguresAreMarks == ASSUME NEW d \in Seq(Figures) PROVE d \in Seq(Marks)
BY DEF Marks

LEMMA FiguresSay ==
  ASSUME CalculatorAssumption, NEW d \in Seq(Figures), d # <<>>
  PROVE  Number(d) = Wrap(Decimal(d))
<1>1. d[1] \in Figures
  OBVIOUS
<1>2. d[1] # "-"
  BY <1>1, OperatorFacts
<1>. QED
  BY <1>2 DEF Number

\* Without an operator a text is a number.
LEMMA PlainValue ==
  ASSUME CalculatorAssumption, NEW t \in Seq(Marks), t # <<>>,
         \A i \in 2 .. Len(t) : t[i] \in Figures
  PROVE  Value(t) = Number(t)
<1>1. Len(t) \in Nat /\ Len(t) \in 1 .. Len(t)
  OBVIOUS
<1>2. Values(t)[Len(t)] = Applied(t, Values(t), Len(t))
  BY <1>1, ValuesSteps
<1>3. OpsUpTo(t, Len(t)) = {}
  BY OperatorFacts DEF OpsUpTo
<1>4. SubSeq(t, 1, Len(t)) = t
  BY SubSeqFull
<1>. QED
  BY <1>2, <1>3, <1>4 DEF Value, Applied

\* The text of a number has its value.
LEMMA ItoaTells ==
  ASSUME CalculatorAssumption, NEW n \in Int32
  PROVE  /\ itoa_dec(n) \in Seq(Marks) /\ itoa_dec(n) # <<>>
         /\ \A i \in 2 .. Len(itoa_dec(n)) : itoa_dec(n)[i] \in Figures
         /\ Last(itoa_dec(n)) \in Figures
         /\ itoa_dec(n)[1] \in Figures \/ (itoa_dec(n)[1] = "-" /\ Len(itoa_dec(n)) > 1)
         /\ Value(itoa_dec(n)) = n
<1>1. Half \in Nat /\ n \in Int /\ -Half <= n /\ n < Half
  BY DEF CalculatorAssumption, Int32
<1>2. Magnitude(n) \in 0 .. Half /\ (n >= 0 => Magnitude(n) = n) /\ (n < 0 => Magnitude(n) = -n)
  BY <1>1 DEF Magnitude
<1>3. PICK d \in Seq(Figures) : d = Numerals[Magnitude(n)] /\ d # <<>> /\ Decimal(d) = Magnitude(n)
  BY <1>2, NumeralsTell
<1>4. d \in Seq(Marks) /\ Len(d) \in Nat /\ Len(d) >= 1 /\ \A i \in 1 .. Len(d) : d[i] \in Figures
  BY <1>3, FiguresAreMarks
<1>5. PICK t : t = itoa_dec(n)
  OBVIOUS
<1>6. Wrap(n) = n
  BY WrapKeeps
<1>7. CASE n >= 0
  <2>1. t = d
    <3>1. ~(n < 0)
      BY <1>1, <1>7
    <3>2. <<>> \o d = d
      BY ConcatEmptySeq
    <3>. QED
      BY <1>3, <1>5, <3>1, <3>2 DEF itoa_dec
  <2>2. /\ t \in Seq(Marks) /\ t # <<>> /\ t[1] \in Figures /\ t[Len(t)] \in Figures
        /\ \A i \in 2 .. Len(t) : t[i] \in Figures
    BY <1>3, <1>4, <2>1
  <2>3. Number(t) = n
    BY <1>2, <1>3, <1>6, <1>7, <2>1, FiguresSay
  <2>4. Value(t) = n
    BY <2>2, <2>3, PlainValue
  <2>. QED
    BY <1>5, <2>2, <2>4 DEF Last
<1>8. CASE n < 0
  <2>1. t = <<"-">> \o d
    BY <1>3, <1>5, <1>8 DEF itoa_dec
  <2>2. <<"-">> \in Seq(Marks) /\ Len(<<"-">>) = 1 /\ <<"-">>[1] = "-"
    BY DEF Marks
  <2>3. /\ t \in Seq(Marks) /\ Len(t) = 1 + Len(d)
        /\ \A i \in 1 .. 1 + Len(d) : t[i] = IF i <= 1 THEN <<"-">>[i] ELSE d[i - 1]
    BY <1>4, <2>1, <2>2, ConcatProperties
  <2>4. /\ t # <<>> /\ t[1] = "-" /\ Len(t) > 1
        /\ \A i \in 2 .. Len(t) : t[i] = d[i - 1] /\ t[i] \in Figures
    <3>1. t[1] = "-"
      BY <1>4, <2>2, <2>3
    <3>2. ASSUME NEW i \in 2 .. Len(t) PROVE t[i] = d[i - 1] /\ t[i] \in Figures
      <4>1. i \in 1 .. 1 + Len(d) /\ ~(i <= 1) /\ i - 1 \in 1 .. Len(d)
        BY <1>4, <2>3
      <4>. QED
        BY <1>4, <2>3, <4>1
    <3>. QED
      BY <1>4, <2>3, <3>1, <3>2
  <2>5. Tail(t) = d
    <3>1. Tail(t) \in Seq(Marks) /\ Len(Tail(t)) = Len(t) - 1
          /\ \A i \in 1 .. Len(Tail(t)) : Tail(t)[i] = t[i + 1]
      BY <2>3, <2>4, HeadTailProperties
    <3>2. ASSUME NEW i \in 1 .. Len(d) PROVE Tail(t)[i] = d[i]
      <4>1. i \in 1 .. Len(Tail(t)) /\ i + 1 \in 2 .. Len(t) /\ (i + 1) - 1 = i
        BY <1>4, <2>3, <3>1
      <4>2. t[i + 1] = d[(i + 1) - 1]
        BY <2>4, <4>1
      <4>. QED
        BY <3>1, <4>1, <4>2
    <3>3. Len(Tail(t)) = Len(d)
      BY <1>4, <2>3, <3>1
    <3>. QED
      BY <1>4, <3>1, <3>2, <3>3, SeqEqual
  <2>6. Number(t) = n
    <3>1. -Magnitude(n) = n
      BY <1>1, <1>2, <1>8
    <3>. QED
      BY <1>3, <1>6, <2>4, <2>5, <3>1 DEF Number
  <2>7. Value(t) = n
    BY <2>3, <2>4, <2>6, PlainValue
  <2>8. t[Len(t)] \in Figures
    BY <1>4, <2>3, <2>4
  <2>. QED
    BY <1>5, <2>3, <2>4, <2>7, <2>8 DEF Last
<1>. QED
  BY <1>1, <1>7, <1>8

\* An operator between two texts.
LEMMA JoinIs ==
  ASSUME NEW h \in Seq(Marks), NEW op \in Marks, NEW d \in Seq(Marks)
  PROVE  LET t == Append(h, op) \o d IN
         /\ t \in Seq(Marks) /\ Len(t) = Len(h) + 1 + Len(d)
         /\ \A i \in 1 .. Len(h) : t[i] = h[i]
         /\ t[Len(h) + 1] = op
         /\ \A i \in 1 .. Len(d) : t[Len(h) + 1 + i] = d[i]
<1> DEFINE a == Append(h, op)
           t == a \o d
<1>1. /\ a \in Seq(Marks) /\ Len(a) = Len(h) + 1 /\ Len(h) \in Nat /\ Len(d) \in Nat
      /\ a[Len(h) + 1] = op /\ \A i \in 1 .. Len(h) : a[i] = h[i]
  OBVIOUS
<1>. HIDE DEF a
<1>2. /\ t \in Seq(Marks) /\ Len(t) = Len(a) + Len(d)
      /\ \A i \in 1 .. Len(a) + Len(d) : t[i] = IF i <= Len(a) THEN a[i] ELSE d[i - Len(a)]
  BY <1>1, ConcatProperties
<1>. HIDE DEF t
<1>3. ASSUME NEW i \in 1 .. Len(h) PROVE t[i] = h[i]
  <2>1. i \in 1 .. Len(a) + Len(d) /\ i <= Len(a)
    BY <1>1
  <2>. QED
    BY <1>1, <1>2, <2>1
<1>4. t[Len(h) + 1] = op
  <2>1. Len(h) + 1 \in 1 .. Len(a) + Len(d) /\ Len(h) + 1 <= Len(a)
    BY <1>1
  <2>. QED
    BY <1>1, <1>2, <2>1
<1>5. ASSUME NEW i \in 1 .. Len(d) PROVE t[Len(h) + 1 + i] = d[i]
  <2>1. /\ Len(h) + 1 + i \in 1 .. Len(a) + Len(d) /\ ~(Len(h) + 1 + i <= Len(a))
        /\ Len(h) + 1 + i - Len(a) = i
    BY <1>1
  <2>. QED
    BY <1>2, <2>1
<1>6. Len(t) = Len(h) + 1 + Len(d)
  BY <1>1, <1>2
<1>. QED
  BY <1>2, <1>3, <1>4, <1>5, <1>6 DEF t, a

\* A text that an operator may follow.
Complete(h) == h \in Seq(Marks) /\ h # <<>> /\ WellFormed(h) /\ ~EndsInOperator(h)

\* After the operator nothing or a number without a sign.
LEMMA JoinTells ==
  ASSUME CalculatorAssumption, NEW h, Complete(h), NEW op \in Operators, NEW d \in Seq(Figures)
  PROVE  LET t == Append(h, op) \o d IN
         /\ WellFormed(t)
         /\ d = <<>> => EndsInOperator(t) /\ Last(t) = op /\ Front(t) = h
         /\ d # <<>> => ~EndsInOperator(t) /\ Value(t) = apply_op(Value(h), Number(d), op)
<1>1. h \in Seq(Marks) /\ op \in Marks /\ d \in Seq(Marks)
  BY OperatorFacts, FiguresAreMarks DEF Complete
<1>2. PICK n \in Nat, m \in Nat : n = Len(h) /\ m = Len(d) /\ n >= 1
  BY <1>1 DEF Complete
<1> DEFINE t == Append(h, op) \o d
<1>3. /\ t \in Seq(Marks) /\ Len(t) = n + 1 + m
      /\ \A i \in 1 .. n : t[i] = h[i]
      /\ t[n + 1] = op
      /\ \A i \in 1 .. m : t[n + 1 + i] = d[i]
  BY <1>1, <1>2, JoinIs
<1>. HIDE DEF t
<1>4. \A i \in 1 .. m : d[i] \in Figures /\ d[i] \notin Operators
  <2>1. \A i \in 1 .. m : d[i] \in Figures
    BY <1>2
  <2>. QED
    BY <2>1, OperatorFacts
<1>5. \A i \in n + 2 .. n + 1 + m : t[i] \in Figures /\ t[i] \notin Operators
  <2>1. ASSUME NEW i \in n + 2 .. n + 1 + m PROVE t[i] \in Figures /\ t[i] \notin Operators
    <3>1. i - (n + 1) \in 1 .. m /\ n + 1 + (i - (n + 1)) = i
      BY <1>2
    <3>2. t[n + 1 + (i - (n + 1))] = d[i - (n + 1)]
      BY <1>3, <3>1
    <3>. QED
      BY <1>4, <3>1, <3>2
  <2>. QED
    BY <2>1
<1>6. h[n] \notin Operators
  BY <1>2 DEF Complete, EndsInOperator, Last
<1>7. WellFormed(t)
  <2>1. SUFFICES ASSUME NEW i \in 1 .. n + 1 + m, t[i] \in Operators
                 PROVE  IF i = 1 THEN t[1] = "-" /\ Len(t) > 1 ELSE t[i - 1] \notin Operators
    <3>1. DOMAIN t = 1 .. n + 1 + m
      BY <1>3
    <3>. QED
      BY <3>1 DEF WellFormed
  <2>2. CASE i = 1
    <3>1. h[1] = t[1] /\ 1 \in DOMAIN h
      BY <1>1, <1>2, <1>3
    <3>2. t[1] = "-"
      BY <2>1, <2>2, <3>1 DEF Complete, WellFormed
    <3>. QED
      BY <1>2, <1>3, <2>2, <3>2
  <2>3. CASE i \in 2 .. n
    <3>1. i - 1 \in 1 .. n /\ i \in 1 .. n /\ i \in DOMAIN h
      BY <1>1, <1>2, <2>3
    <3>2. h[i] = t[i] /\ h[i - 1] = t[i - 1]
      BY <1>3, <3>1
    <3>3. h[i] \in Operators /\ i # 1
      BY <2>1, <2>3, <3>2
    <3>4. h[i - 1] \notin Operators
      BY <3>1, <3>3 DEF Complete, WellFormed
    <3>. QED
      BY <3>2, <3>3, <3>4
  <2>4. CASE i = n + 1
    <3>1. t[i - 1] = h[n]
      BY <1>2, <1>3, <2>4
    <3>. QED
      BY <1>2, <1>6, <2>4, <3>1
  <2>5. CASE i \in n + 2 .. n + 1 + m
    BY <1>5, <2>1, <2>5
  <2>. QED
    BY <1>2, <2>2, <2>3, <2>4, <2>5
<1>8. ASSUME d = <<>> PROVE EndsInOperator(t) /\ Last(t) = op /\ Front(t) = h
  <2>1. m = 0 /\ Len(t) = n + 1
    BY <1>2, <1>3, <1>8
  <2>2. Last(t) = op
    BY <1>3, <2>1 DEF Last
  <2>3. SubSeq(t, 1, n) = SubSeq(h, 1, n)
    <3>1. 1 \in Nat /\ 1 >= 1 /\ n <= Len(t) /\ n <= Len(h)
      BY <1>2, <2>1
    <3>. QED
      BY <1>1, <1>3, <3>1, SubSame
  <2>4. SubSeq(h, 1, n) = h
    BY <1>1, <1>2, SubSeqFull
  <2>5. Len(t) - 1 = n
    BY <2>1
  <2>6. Front(t) = h
    BY <2>3, <2>4, <2>5 DEF Front
  <2>. QED
    BY <2>2, <2>6 DEF EndsInOperator
<1>9. ASSUME d # <<>> PROVE ~EndsInOperator(t) /\ Value(t) = apply_op(Value(h), Number(d), op)
  <2>1. m >= 1
    BY <1>2, <1>9
  <2>2. PICK k \in Nat : k = n + 1 + m /\ k = Len(t) /\ k \in 1 .. Len(t)
    BY <1>2, <1>3
  <2>3. ~EndsInOperator(t)
    BY <1>2, <1>5, <2>1, <2>2 DEF EndsInOperator, Last
  <2>4. n + 1 \in OpsUpTo(t, k) /\ \A j \in OpsUpTo(t, k) : j <= n + 1
    <3>1. n + 1 \in OpsUpTo(t, k)
      BY <1>2, <1>3, <2>2 DEF OpsUpTo
    <3>2. ASSUME NEW j \in OpsUpTo(t, k) PROVE j <= n + 1
      <4>1. j \in 2 .. k /\ t[j] \in Operators
        BY DEF OpsUpTo
      <4>2. j \notin n + 2 .. n + 1 + m
        BY <1>5, <4>1
      <4>. QED
        BY <1>2, <2>2, <4>1, <4>2
    <3>. QED
      BY <3>1, <3>2
  <2>5. LastOp(t, k) = n + 1 /\ OpsUpTo(t, k) # {}
    BY <2>4, LastOpAt
  <2>6. Values(t)[k] = Applied(t, Values(t), k)
    BY <2>2, ValuesSteps
  <2>7. Values(t)[n] = Value(h)
    <3>1. Len(h) <= Len(t) /\ (\A i \in 1 .. Len(h) : h[i] = t[i]) /\ n \in 1 .. Len(h)
      BY <1>2, <1>3
    <3>2. \A i \in 1 .. Len(h) : Values(h)[i] = Values(t)[i]
      BY <1>1, <1>3, <3>1, ValuesBegin
    <3>. QED
      BY <1>2, <3>1, <3>2 DEF Value
  <2>8. SubSeq(t, (n + 1) + 1, k) = d
    <3>1. (n + 1) + 1 \in Int /\ k \in Int /\ \A i \in (n + 1) + 1 .. k : t[i] \in Figures
      BY <1>2, <1>5, <2>2
    <3> DEFINE u == SubSeq(t, (n + 1) + 1, k)
    <3>2. /\ u \in Seq(Figures)
          /\ Len(u) = IF (n + 1) + 1 <= k THEN k - ((n + 1) + 1) + 1 ELSE 0
          /\ \A i \in 1 .. k - ((n + 1) + 1) + 1 : u[i] = t[(n + 1) + 1 + i - 1]
      BY <3>1, SubSeqProperties
    <3>. HIDE DEF u
    <3>3. Len(u) = m /\ k - ((n + 1) + 1) + 1 = m
      BY <1>2, <2>1, <2>2, <3>2
    <3>4. ASSUME NEW i \in 1 .. m PROVE u[i] = d[i]
      <4>1. (n + 1) + 1 + i - 1 = n + 1 + i
        BY <1>2
      <4>. QED
        BY <1>3, <3>2, <3>3, <4>1
    <3>5. u = d
      BY <1>2, <3>2, <3>3, <3>4, SeqEqual
    <3>. QED
      BY <3>5 DEF u
  <2>9. (n + 1) - 1 = n
    BY <1>2
  <2>10. Value(t) = apply_op(Value(h), Number(d), op)
    BY <1>3, <2>2, <2>5, <2>6, <2>7, <2>8, <2>9 DEF Value, Applied
  <2>. QED
    BY <2>3, <2>10
<1>. QED
  BY <1>7, <1>8, <1>9 DEF t

-----------------------------------------------------------------------------
(* Calculator: the keys.                                                   *)

\* No operator waits: the text is the last result, or the number being typed.
NumberShown ==
  /\ pending_op = ""
  /\ \/ just_evaluated /\ expr_buf = itoa_dec(display_value)
     \/ /\ ~just_evaluated /\ expr_buf \in Seq(Figures) /\ expr_buf # <<>>
        /\ display_value = Wrap(Decimal(expr_buf))
        /\ start_new_number => expr_buf = <<"0">>

\* One waits: before it is what gave the pending value, after it nothing yet
\* or the number being typed.
SumShown ==
  /\ pending_op \in Operators /\ ~just_evaluated
  /\ \E h \in Seq(Marks), d \in Seq(Figures) :
       /\ Complete(h) /\ Value(h) = pending_value
       /\ expr_buf = Append(h, pending_op) \o d
       /\ \/ d = <<>> /\ start_new_number /\ display_value = pending_value
          \/ d # <<>> /\ ~start_new_number /\ display_value = Wrap(Decimal(d))

CalculatorOK ==
  /\ TextFits /\ expr_buf \in Seq(Marks)
  /\ just_evaluated => pending_op = "" /\ start_new_number
  /\ ~cut /\ ~stuck => NumberShown \/ SumShown

LEMMA RoomAtAll == ASSUME CalculatorAssumption PROVE BufSize \in Nat /\ 1 \in 1 .. BufSize - 1
<1>1. Half \in Nat /\ Half # 0 /\ BufSize \in Nat
  BY DEF CalculatorAssumption
<1>2. 0 \in Int32
  BY <1>1 DEF Int32
<1>3. Len(itoa_dec(0)) < BufSize /\ itoa_dec(0) \in Seq(Marks) /\ itoa_dec(0) # <<>>
  BY <1>2, ItoaTells DEF CalculatorAssumption
<1>4. Len(itoa_dec(0)) \in Nat /\ Len(itoa_dec(0)) >= 1
  BY <1>3
<1>. QED
  BY <1>1, <1>3, <1>4

LEMMA Longer ==
  ASSUME NEW S, NEW s \in Seq(S), NEW c \in S
  PROVE  Append(s, c) \in Seq(S) /\ Append(s, c) # <<>> /\ <<c>> \in Seq(S)
<1>1. Append(s, c) \in Seq(S) /\ Len(Append(s, c)) = Len(s) + 1 /\ Len(s) \in Nat
  OBVIOUS
<1>2. <<c>> \in Seq(S)
  OBVIOUS
<1>. QED
  BY <1>1, <1>2

LEMMA DecimalIsNat == ASSUME NEW d \in Seq(Figures) PROVE Decimal(d) \in Nat
<1>1. Len(d) \in 0 .. Len(d)
  OBVIOUS
<1>. QED
  BY <1>1, DecimalNat DEF Decimal

\* Reading a text of figures.
LEMMA FiguresComplete ==
  ASSUME CalculatorAssumption, NEW t \in Seq(Figures), t # <<>>
  PROVE  Complete(t) /\ Value(t) = Wrap(Decimal(t))
<1>1. t \in Seq(Marks) /\ Len(t) \in Nat /\ Len(t) >= 1 /\ \A i \in 1 .. Len(t) : t[i] \in Figures
  BY FiguresAreMarks
<1>2. \A i \in 1 .. Len(t) : t[i] \notin Operators
  BY <1>1, OperatorFacts
<1>3. WellFormed(t)
  <2>1. DOMAIN t = 1 .. Len(t)
    BY <1>1
  <2>. QED
    BY <1>2, <2>1 DEF WellFormed
<1>4. ~EndsInOperator(t)
  BY <1>1, <1>2 DEF EndsInOperator, Last
<1>5. \A i \in 2 .. Len(t) : t[i] \in Figures
  BY <1>1
<1>6. Value(t) = Number(t)
  BY <1>1, <1>5, PlainValue
<1>. QED
  BY <1>1, <1>3, <1>4, <1>6, FiguresSay DEF Complete

LEMMA ItoaComplete ==
  ASSUME CalculatorAssumption, NEW n \in Int32
  PROVE  Complete(itoa_dec(n)) /\ Value(itoa_dec(n)) = n
<1> DEFINE t == itoa_dec(n)
<1>1. /\ t \in Seq(Marks) /\ t # <<>>
      /\ \A i \in 2 .. Len(t) : t[i] \in Figures
      /\ Last(t) \in Figures
      /\ t[1] \in Figures \/ (t[1] = "-" /\ Len(t) > 1)
      /\ Value(t) = n
  BY ItoaTells
<1>. HIDE DEF t
<1>2. WellFormed(t)
  <2>1. DOMAIN t = 1 .. Len(t) /\ Len(t) \in Nat
    BY <1>1
  <2>2. ASSUME NEW i \in 1 .. Len(t), t[i] \in Operators
        PROVE  IF i = 1 THEN t[1] = "-" /\ Len(t) > 1 ELSE t[i - 1] \notin Operators
    <3>1. t[i] \notin Figures
      BY <2>2, OperatorFacts
    <3>2. i = 1
      BY <1>1, <2>1, <3>1
    <3>. QED
      BY <1>1, <3>1, <3>2
  <2>. QED
    BY <2>1, <2>2 DEF WellFormed
<1>3. ~EndsInOperator(t)
  BY <1>1, OperatorFacts DEF EndsInOperator
<1>. QED
  BY <1>1, <1>2, <1>3 DEF Complete, t

\* What is shown is what will be computed, whichever of the two it is.
LEMMA ShownTells ==
  ASSUME CalculatorAssumption, CalculatorOK, ~cut, ~stuck
  PROVE  \/ /\ pending_op \in Operators /\ start_new_number /\ display_value = pending_value
            /\ \E h \in Seq(Marks) : /\ Complete(h) /\ Value(h) = pending_value
                                     /\ expr_buf = Append(h, pending_op) \o <<>>
         \/ /\ ~(pending_op # "" /\ start_new_number)
            /\ Complete(expr_buf) /\ Value(expr_buf) = Result
<1>1. display_value \in Int32 /\ pending_value \in Int32
  BY DEF CalculatorOK, TextFits
<1>2. CASE NumberShown
  <2>1. pending_op = "" /\ Result = display_value
    BY <1>2, ApplyNone DEF NumberShown, Result
  <2>2. CASE just_evaluated
    BY <1>1, <1>2, <2>1, <2>2, ItoaComplete DEF NumberShown
  <2>3. CASE ~just_evaluated
    BY <1>2, <2>1, <2>3, FiguresComplete DEF NumberShown
  <2>. QED
    BY <2>2, <2>3
<1>3. CASE SumShown
  <2>1. PICK h \in Seq(Marks), d \in Seq(Figures) :
          /\ Complete(h) /\ Value(h) = pending_value
          /\ expr_buf = Append(h, pending_op) \o d
          /\ \/ d = <<>> /\ start_new_number /\ display_value = pending_value
             \/ d # <<>> /\ ~start_new_number /\ display_value = Wrap(Decimal(d))
    BY <1>3 DEF SumShown
  <2>2. pending_op \in Operators
    BY <1>3 DEF SumShown
  <2>3. CASE d = <<>>
    BY <2>1, <2>2, <2>3
  <2>4. CASE d # <<>>
    <3>1. Number(d) = display_value
      BY <2>1, <2>4, FiguresSay
    <3>2. /\ WellFormed(expr_buf) /\ ~EndsInOperator(expr_buf)
          /\ Value(expr_buf) = apply_op(Value(h), Number(d), pending_op)
      BY <2>1, <2>2, <2>4, JoinTells
    <3>3. expr_buf \in Seq(Marks) /\ expr_buf # <<>>
      <4>1. expr_buf \in Seq(Marks) /\ Len(expr_buf) >= 1
        <5>1. expr_buf \in Seq(Marks) /\ Len(expr_buf) \in 1 .. BufSize - 1
          BY DEF CalculatorOK, TextFits
        <5>. QED
          BY <5>1, RoomAtAll
      <4>. QED
        BY <4>1
    <3>4. ~start_new_number
      BY <2>1, <2>4
    <3>. QED
      BY <2>1, <3>1, <3>2, <3>3, <3>4 DEF Complete, Result
  <2>. QED
    BY <2>3, <2>4
<1>. QED
  BY <1>2, <1>3 DEF CalculatorOK

LEMMA CalculatorTells == ASSUME CalculatorAssumption, CalculatorOK PROVE TextTellsValue
<1>1. TextFits
  BY DEF CalculatorOK
<1>2. ASSUME ~cut, ~stuck
      PROVE  /\ WellFormed(expr_buf)
             /\ IF EndsInOperator(expr_buf)
                THEN /\ pending_op = Last(expr_buf) /\ start_new_number
                     /\ display_value = pending_value /\ Value(Front(expr_buf)) = pending_value
                ELSE Value(expr_buf) = Result
  <2>1. CASE /\ pending_op \in Operators /\ start_new_number /\ display_value = pending_value
             /\ \E h \in Seq(Marks) : /\ Complete(h) /\ Value(h) = pending_value
                                      /\ expr_buf = Append(h, pending_op) \o <<>>
    <3>1. PICK h \in Seq(Marks) : /\ Complete(h) /\ Value(h) = pending_value
                                  /\ expr_buf = Append(h, pending_op) \o <<>>
      BY <2>1
    <3>2. /\ WellFormed(expr_buf) /\ EndsInOperator(expr_buf)
          /\ Last(expr_buf) = pending_op /\ Front(expr_buf) = h
      <4>1. <<>> \in Seq(Figures)
        OBVIOUS
      <4>. QED
        BY <2>1, <3>1, <4>1, JoinTells
    <3>. QED
      BY <2>1, <3>1, <3>2
  <2>2. CASE Complete(expr_buf) /\ Value(expr_buf) = Result
    BY <2>2 DEF Complete
  <2>. QED
    BY <1>2, <2>1, <2>2, ShownTells
<1>. QED
  BY <1>1, <1>2 DEF TextTellsValue

LEMMA NoughtShown ==
  ASSUME CalculatorAssumption
  PROVE  /\ 0 \in Int32 /\ <<"0">> \in Seq(Figures) /\ <<"0">> # <<>> /\ Len(<<"0">>) = 1
         /\ Wrap(Decimal(<<"0">>)) = 0
<1>1. 0 \in Int32
  BY DEF Int32, CalculatorAssumption
<1>2. <<"0">> \in Seq(Figures)
  BY FigureFacts
<1>3. Decimal(<<"0">>) = 0
  BY DecimalOne, FigureFacts
<1>. QED
  BY <1>1, <1>2, <1>3, WrapKeeps

LEMMA CalculatorStarts == ASSUME CalculatorAssumption, CalculatorInit PROVE CalculatorOK
<1>1. TextFits
  BY NoughtShown, RoomAtAll DEF CalculatorInit, TextFits
<1>2. NumberShown
  BY NoughtShown DEF CalculatorInit, NumberShown
<1>3. expr_buf \in Seq(Marks)
  BY NoughtShown, FiguresAreMarks DEF CalculatorInit
<1>. QED
  BY <1>1, <1>2, <1>3 DEF CalculatorInit, CalculatorOK

LEMMA ResultInt == ASSUME CalculatorAssumption, CalculatorOK PROVE Result \in Int32
BY ApplyInt DEF CalculatorOK, TextFits, Result

\* A key that is appended leaves the text a text that fits.
LEMMA AppendFits ==
  ASSUME CalculatorAssumption, NEW t \in Seq(Marks), Len(t) \in 1 .. BufSize - 1,
         NEW c \in Marks, expr_append(t, c)
  PROVE  /\ expr_buf' \in Seq(Marks) /\ Len(expr_buf') \in 1 .. BufSize - 1
         /\ \/ cut' = TRUE
            \/ cut' = cut /\ expr_buf' = Append(t, c)
<1>1. BufSize \in Nat
  BY DEF CalculatorAssumption
<1>2. CASE RoomIn(t)
  <2>1. expr_buf' = Append(t, c) /\ cut' = cut
    BY <1>2 DEF expr_append
  <2>2. Append(t, c) \in Seq(Marks) /\ Len(Append(t, c)) = Len(t) + 1
    OBVIOUS
  <2>3. Len(t) + 1 \in 1 .. BufSize - 1
    BY <1>1, <1>2 DEF RoomIn
  <2>. QED
    BY <2>1, <2>2, <2>3
<1>3. CASE ~RoomIn(t)
  BY <1>3 DEF expr_append
<1>. QED
  BY <1>2, <1>3

LEMMA DigitOK ==
  ASSUME CalculatorAssumption, CalculatorOK, ~stuck, NEW c \in DigitKeys, Digit(c)
  PROVE  CalculatorOK'
<1>1. c \in Figures /\ DigitValue(c) \in Int32 /\ DigitValue(c) \in Nat /\ c \in Marks
  <2>1. c \in Figures /\ DigitValue(c) < Half
    BY DEF CalculatorAssumption, Figures
  <2>2. DigitValue(c) \in Nat /\ Half \in Nat
    BY <2>1, FigureFacts DEF CalculatorAssumption
  <2>3. DigitValue(c) \in Int32
    BY <2>1, <2>2 DEF Int32
  <2>. QED
    BY <2>1, <2>2, <2>3, OperatorFacts
<1>2. /\ display_value' = IF start_new_number THEN DigitValue(c)
                          ELSE Wrap(Wrap(display_value * 10) + DigitValue(c))
      /\ start_new_number' = FALSE /\ just_evaluated' = FALSE
      /\ pending_value' = pending_value /\ pending_op' = pending_op /\ stuck' = stuck
  BY DEF Digit
<1>3. /\ display_value \in Int32 /\ pending_value \in Int32
      /\ pending_op \in Operators \cup {""}
      /\ Len(expr_buf) \in 1 .. BufSize - 1 /\ expr_buf \in Seq(Marks)
      /\ just_evaluated => pending_op = "" /\ start_new_number
  BY DEF CalculatorOK, TextFits
<1>0. start_new_number \in BOOLEAN /\ cut \in BOOLEAN /\ stuck \in BOOLEAN
  BY DEF CalculatorOK, TextFits
<1>4. display_value' \in Int32
  <2>1. Int32 \subseteq Int
    BY DEF Int32, CalculatorAssumption
  <2>2. PICK x \in Int : x = display_value * 10
    <3>1. display_value \in Int
      BY <1>3, <2>1
    <3>. QED
      BY <3>1
  <2>3. PICK y \in Int : y = Wrap(x) + DigitValue(c)
    <3>1. Wrap(x) \in Int
      BY <2>1, WrapIs
    <3>. QED
      BY <1>1, <3>1
  <2>4. Wrap(y) \in Int32
    BY WrapIs
  <2>. QED
    BY <1>1, <1>2, <2>2, <2>3, <2>4
<1>5. CASE just_evaluated
  <2>1. expr_buf' = <<c>> /\ cut' = FALSE
    BY <1>5 DEF Digit
  <2>2. <<c>> \in Seq(Figures) /\ <<c>> # <<>> /\ Len(<<c>>) = 1 /\ <<c>> \in Seq(Marks)
    BY <1>1, FiguresAreMarks
  <2>3. display_value' = Wrap(Decimal(<<c>>))
    BY <1>1, <1>2, <1>3, <1>5, DecimalOne, WrapKeeps
  <2>4. NumberShown'
    BY <1>2, <1>3, <1>5, <2>1, <2>2, <2>3 DEF NumberShown
  <2>5. TextFits'
    BY <1>0, <1>2, <1>3, <1>4, <2>1, <2>2, RoomAtAll DEF TextFits
  <2>. QED
    BY <1>2, <2>1, <2>2, <2>4, <2>5 DEF CalculatorOK
<1>6. CASE ~just_evaluated
  <2>1. expr_append(expr_buf, c)
    BY <1>6 DEF Digit
  <2>2. /\ expr_buf' \in Seq(Marks) /\ Len(expr_buf') \in 1 .. BufSize - 1
        /\ \/ cut' = TRUE
           \/ cut' = cut /\ expr_buf' = Append(expr_buf, c)
    BY <1>1, <1>3, <2>1, AppendFits
  <2>3. TextFits'
    BY <1>0, <1>2, <1>3, <1>4, <2>2 DEF TextFits
  <2>4. ASSUME ~cut' PROVE NumberShown' \/ SumShown'
    <3>1. ~cut /\ expr_buf' = Append(expr_buf, c)
      BY <2>2, <2>4
    <3>2. CASE NumberShown
      <4>1. /\ pending_op = "" /\ expr_buf \in Seq(Figures) /\ expr_buf # <<>>
            /\ display_value = Wrap(Decimal(expr_buf))
            /\ start_new_number => expr_buf = <<"0">>
        BY <1>6, <3>2 DEF NumberShown
      <4>2. PICK n \in Nat : n = Decimal(expr_buf)
        BY <4>1, DecimalIsNat
      <4>3. Decimal(Append(expr_buf, c)) = 10 * n + DigitValue(c)
        BY <1>1, <4>1, <4>2, DecimalAppend
      <4>4. display_value' = Wrap(10 * n + DigitValue(c))
        <5>1. CASE start_new_number
          <6>1. n = 0
            BY <4>1, <4>2, <5>1, DecimalOne, FigureFacts
          <6>2. 10 * n + DigitValue(c) = DigitValue(c)
            BY <1>1, <6>1
          <6>. QED
            BY <1>1, <1>2, <5>1, <6>2, WrapKeeps
        <5>2. CASE ~start_new_number
          <6>1. Wrap(Wrap(Wrap(n) * 10) + DigitValue(c)) = Wrap(10 * n + DigitValue(c))
            BY <1>1, WrapDigit
          <6>2. display_value = Wrap(n)
            BY <4>1, <4>2
          <6>. QED
            BY <1>2, <5>2, <6>1, <6>2
        <5>. QED
          BY <5>1, <5>2
      <4>5. Append(expr_buf, c) \in Seq(Figures) /\ Append(expr_buf, c) # <<>>
        BY <1>1, <4>1, Longer
      <4>. QED
        BY <1>2, <3>1, <4>1, <4>3, <4>4, <4>5 DEF NumberShown
    <3>3. CASE SumShown
      <4>1. PICK h \in Seq(Marks), d \in Seq(Figures) :
              /\ Complete(h) /\ Value(h) = pending_value
              /\ expr_buf = Append(h, pending_op) \o d
              /\ \/ d = <<>> /\ start_new_number /\ display_value = pending_value
                 \/ d # <<>> /\ ~start_new_number /\ display_value = Wrap(Decimal(d))
        BY <3>3 DEF SumShown
      <4>2. pending_op \in Operators
        BY <3>3 DEF SumShown
      <4>3. PICK e \in Seq(Figures) : e = Append(d, c) /\ e # <<>>
        BY <1>1, Longer
      <4>4. expr_buf' = Append(h, pending_op) \o e
        <5>1. /\ pending_op \in Marks /\ d \in Seq(Marks)
              /\ Append(h, pending_op) \in Seq(Marks) /\ <<c>> \in Seq(Marks)
          <6>1. pending_op \in Marks /\ d \in Seq(Marks)
            BY <4>2, OperatorFacts, FiguresAreMarks
          <6>. QED
            BY <1>1, <6>1, Longer
        <5>2. Append(expr_buf, c) = expr_buf \o <<c>> /\ e = d \o <<c>>
          BY <1>1, <1>3, <4>3, <5>1, AppendIsConcat
        <5>. QED
          BY <3>1, <4>1, <5>1, <5>2, ConcatAssociative
      <4>5. PICK n \in Nat : n = Decimal(d)
        BY DecimalIsNat
      <4>6. Decimal(e) = 10 * n + DigitValue(c)
        BY <1>1, <4>3, <4>5, DecimalAppend
      <4>7. display_value' = Wrap(10 * n + DigitValue(c))
        <5>1. CASE d = <<>>
          <6>1. n = 0
            BY <4>5, <5>1, DecimalOne
          <6>2. 10 * n + DigitValue(c) = DigitValue(c)
            BY <1>1, <6>1
          <6>. QED
            BY <1>1, <1>2, <4>1, <5>1, <6>2, WrapKeeps
        <5>2. CASE d # <<>>
          <6>1. Wrap(Wrap(Wrap(n) * 10) + DigitValue(c)) = Wrap(10 * n + DigitValue(c))
            BY <1>1, WrapDigit
          <6>2. display_value = Wrap(n) /\ ~start_new_number
            BY <4>1, <4>5, <5>2
          <6>. QED
            BY <1>2, <6>1, <6>2
        <5>. QED
          BY <5>1, <5>2
      <4>8. Value(h) = pending_value' /\ Complete(h)
        BY <1>2, <4>1
      <4>. QED
        BY <1>2, <4>2, <4>3, <4>4, <4>6, <4>7, <4>8 DEF SumShown
    <3>. QED
      BY <3>1, <3>2, <3>3 DEF CalculatorOK
  <2>. QED
    BY <1>2, <2>2, <2>3, <2>4 DEF CalculatorOK
<1>. QED
  BY <1>5, <1>6

LEMMA ClearOK == ASSUME CalculatorAssumption, CalculatorOK, Clear PROVE CalculatorOK'
<1>1. /\ display_value' = 0 /\ pending_value' = 0 /\ pending_op' = ""
      /\ start_new_number' = TRUE /\ just_evaluated' = FALSE
      /\ expr_buf' = <<"0">> /\ cut' = FALSE /\ stuck' = stuck
  BY DEF Clear
<1>2. stuck \in BOOLEAN
  BY DEF CalculatorOK, TextFits
<1>3. TextFits'
  BY <1>1, <1>2, NoughtShown, RoomAtAll DEF TextFits
<1>4. NumberShown'
  BY <1>1, NoughtShown DEF NumberShown
<1>5. expr_buf' \in Seq(Marks)
  BY <1>1, NoughtShown, FiguresAreMarks
<1>. QED
  BY <1>1, <1>3, <1>4, <1>5 DEF CalculatorOK

\* In the trap only two flags have changed.
LEMMA TrappedOK ==
  ASSUME CalculatorAssumption, CalculatorOK, stuck' = TRUE, UNCHANGED <<numbers, display>>,
         just_evaluated' = FALSE \/ just_evaluated' = just_evaluated
  PROVE  CalculatorOK'
<1>1. /\ display_value' = display_value /\ pending_value' = pending_value /\ pending_op' = pending_op
      /\ start_new_number' = start_new_number /\ expr_buf' = expr_buf /\ cut' = cut
  BY DEF numbers, display
<1>2. /\ display_value \in Int32 /\ pending_value \in Int32
      /\ pending_op \in Operators \cup {""}
      /\ Len(expr_buf) \in 1 .. BufSize - 1 /\ expr_buf \in Seq(Marks)
  BY DEF CalculatorOK, TextFits
<1>3. /\ start_new_number \in BOOLEAN /\ just_evaluated \in BOOLEAN /\ cut \in BOOLEAN
      /\ just_evaluated => pending_op = "" /\ start_new_number
  BY DEF CalculatorOK, TextFits
<1>4. just_evaluated' \in BOOLEAN /\ (just_evaluated' => pending_op = "" /\ start_new_number)
  <2>1. CASE just_evaluated' = FALSE
    BY <2>1
  <2>2. CASE just_evaluated' = just_evaluated
    BY <1>3, <2>2, Zenon
  <2>. QED
    BY <2>1, <2>2
<1>5. TextFits'
  BY <1>1, <1>2, <1>3, <1>4 DEF TextFits
<1>. QED
  BY <1>1, <1>2, <1>4, <1>5 DEF CalculatorOK

LEMMA EqualsOK == ASSUME CalculatorAssumption, CalculatorOK, Equals PROVE CalculatorOK'
<1>1. CASE Trapped
  BY <1>1, TrappedOK DEF Equals
<1>2. CASE ~Trapped
  <2>1. /\ display_value' = Result /\ pending_op' = ""
        /\ start_new_number' = TRUE /\ just_evaluated' = TRUE
        /\ expr_buf' = itoa_dec(Result) /\ cut' = FALSE
        /\ pending_value' = pending_value /\ stuck' = stuck
    BY <1>2 DEF Equals
  <2>2. stuck \in BOOLEAN /\ pending_value \in Int32
    BY DEF CalculatorOK, TextFits
  <2>3. PICK n \in Int32 : n = Result
    BY ResultInt
  <2>4. itoa_dec(n) \in Seq(Marks) /\ itoa_dec(n) # <<>> /\ Len(itoa_dec(n)) < BufSize
    BY ItoaTells DEF CalculatorAssumption
  <2>5. Len(itoa_dec(n)) \in 1 .. BufSize - 1
    <3>1. Len(itoa_dec(n)) \in Nat /\ Len(itoa_dec(n)) >= 1
      BY <2>4
    <3>. QED
      BY <2>4, <3>1, RoomAtAll
  <2>6. TextFits'
    BY <2>1, <2>2, <2>3, <2>5 DEF TextFits
  <2>7. NumberShown'
    <3>1. expr_buf' = itoa_dec(display_value')
      BY <2>1
    <3>. QED
      BY <2>1, <3>1 DEF NumberShown, itoa_dec, Magnitude
  <2>. QED
    BY <2>1, <2>3, <2>4, <2>6, <2>7 DEF CalculatorOK
<1>. QED
  BY <1>1, <1>2

LEMMA OperatorOK ==
  ASSUME CalculatorAssumption, CalculatorOK, ~stuck, NEW op \in Operators, Operator(op)
  PROVE  CalculatorOK'
<1>1. /\ display_value \in Int32 /\ pending_value \in Int32
      /\ Len(expr_buf) \in 1 .. BufSize - 1 /\ expr_buf \in Seq(Marks)
  BY DEF CalculatorOK, TextFits
<1>2. cut \in BOOLEAN /\ stuck \in BOOLEAN
  BY DEF CalculatorOK, TextFits
<1>3. op \in Marks /\ <<>> \in Seq(Figures)
  <2>1. <<>> \in Seq(Figures)
    OBVIOUS
  <2>. QED
    BY <2>1, OperatorFacts
<1>4. CASE ~Doubled /\ Trapped
  BY <1>4, TrappedOK DEF Operator
<1>5. CASE Doubled
  <2>1. /\ display_value' = display_value /\ pending_value' = display_value
        /\ pending_op' = op /\ start_new_number' = TRUE /\ just_evaluated' = FALSE
        /\ expr_buf' = [expr_buf EXCEPT ![Len(expr_buf)] = op]
        /\ cut' = cut /\ stuck' = stuck
    BY <1>5 DEF Operator
  <2>2. PICK n \in Nat : n = Len(expr_buf) /\ n \in 1 .. Len(expr_buf) /\ n >= 1
    BY <1>1, RoomAtAll
  <2>3. /\ expr_buf' \in Seq(Marks) /\ Len(expr_buf') = n
        /\ expr_buf'[n] = op /\ \A i \in 1 .. n - 1 : expr_buf'[i] = expr_buf[i]
    BY <1>1, <1>3, <2>1, <2>2
  <2>4. TextFits'
    BY <1>1, <1>2, <2>1, <2>2, <2>3 DEF TextFits
  <2>5. ASSUME ~cut PROVE SumShown'
    <3>1. start_new_number /\ pending_op # ""
      BY <1>5 DEF Doubled
    <3>2. PICK h \in Seq(Marks) :
            /\ Complete(h) /\ Value(h) = pending_value /\ display_value = pending_value
            /\ expr_buf = Append(h, pending_op) \o <<>> /\ pending_op \in Operators
      BY <2>5, <3>1, ShownTells
    <3>3. expr_buf = Append(h, pending_op) /\ Append(h, op) \o <<>> = Append(h, op)
      <4>1. Append(h, pending_op) \in Seq(Marks) /\ Append(h, op) \in Seq(Marks)
        <5>1. pending_op \in Marks
          BY <3>2, OperatorFacts
        <5>. QED
          BY <1>3, <5>1, Longer
      <4>. QED
        BY <3>2, <4>1, ConcatEmptySeq
    <3>4. PICK m \in Nat : m = Len(h) /\ n = m + 1
      BY <2>2, <3>3
    <3>5. expr_buf' = Append(h, op)
      <4>1. /\ Append(h, op) \in Seq(Marks) /\ Len(Append(h, op)) = n
            /\ Append(h, op)[n] = op /\ \A i \in 1 .. n - 1 : Append(h, op)[i] = h[i]
        BY <1>3, <3>4
      <4>2. \A i \in 1 .. n - 1 : expr_buf[i] = h[i]
        BY <3>3, <3>4
      <4>3. \A i \in 1 .. n : i \in 1 .. n - 1 \/ i = n
        OBVIOUS
      <4>4. \A i \in 1 .. n : expr_buf'[i] = Append(h, op)[i]
        BY <2>3, <4>1, <4>2, <4>3
      <4>. QED
        BY <2>3, <4>1, <4>4, SeqEqual
    <3>6. expr_buf' = Append(h, pending_op') \o <<>> /\ Value(h) = pending_value'
      BY <2>1, <3>2, <3>3, <3>5
    <3>. QED
      BY <1>3, <2>1, <3>2, <3>6 DEF SumShown
  <2>. QED
    BY <1>2, <2>1, <2>3, <2>4, <2>5 DEF CalculatorOK
<1>6. CASE ~Doubled /\ ~Trapped
  <2>1. /\ display_value' = Result /\ pending_value' = Result
        /\ pending_op' = op /\ start_new_number' = TRUE /\ just_evaluated' = FALSE
        /\ expr_append(expr_buf, op) /\ stuck' = stuck
    BY <1>6 DEF Operator
  <2>2. /\ expr_buf' \in Seq(Marks) /\ Len(expr_buf') \in 1 .. BufSize - 1
        /\ \/ cut' = TRUE
           \/ cut' = cut /\ expr_buf' = Append(expr_buf, op)
    BY <1>1, <1>3, <2>1, AppendFits
  <2>3. Result \in Int32
    BY ResultInt
  <2>4. TextFits'
    BY <1>2, <2>1, <2>2, <2>3 DEF TextFits
  <2>5. ASSUME ~cut' PROVE SumShown'
    <3>1. ~cut /\ expr_buf' = Append(expr_buf, op)
      BY <2>2, <2>5
    <3>2. ~(pending_op # "" /\ start_new_number)
      BY <1>6 DEF Doubled
    <3>3. Complete(expr_buf) /\ Value(expr_buf) = Result
      <4>1. pending_op \in Operators => pending_op # ""
        BY OperatorFacts
      <4>. QED
        BY <3>1, <3>2, <4>1, ShownTells
    <3>4. Append(expr_buf, op) \o <<>> = Append(expr_buf, op)
      <4>1. Append(expr_buf, op) \in Seq(Marks)
        BY <1>1, <1>3, Longer
      <4>. QED
        BY <4>1, ConcatEmptySeq
    <3>5. /\ Value(expr_buf) = pending_value' /\ display_value' = pending_value'
          /\ expr_buf' = Append(expr_buf, pending_op') \o <<>>
      BY <2>1, <3>1, <3>3, <3>4
    <3>. QED
      BY <1>1, <1>3, <2>1, <3>3, <3>5 DEF SumShown
  <2>. QED
    BY <2>1, <2>2, <2>4, <2>5 DEF CalculatorOK
<1>. QED
  BY <1>4, <1>5, <1>6

\* What is shown is what will be computed (on_button, expr_append, itoa_dec
\* and apply_op of calculator.cpp), for ints and a text of any size that
\* holds them.
THEOREM TextTells == ASSUME CalculatorAssumption PROVE CalculatorSpec => []TextTellsValue
<1>1. CalculatorInit => CalculatorOK
  BY CalculatorStarts
<1>2. ASSUME CalculatorOK, [on_button]_calculatorVars PROVE CalculatorOK'
  <2>1. CASE on_button
    <3>1. ~stuck
      BY <2>1 DEF on_button
    <3>2. CASE \E c \in DigitKeys : Digit(c)
      BY <1>2, <3>1, <3>2, DigitOK
    <3>3. CASE Clear
      BY <1>2, <3>3, ClearOK
    <3>4. CASE Equals
      BY <1>2, <3>4, EqualsOK
    <3>5. CASE \E op \in Operators : Operator(op)
      BY <1>2, <3>1, <3>5, OperatorOK
    <3>. QED
      BY <2>1, <3>2, <3>3, <3>4, <3>5 DEF on_button
  <2>2. CASE UNCHANGED calculatorVars
    <3>1. /\ display_value' = display_value /\ pending_value' = pending_value
          /\ pending_op' = pending_op /\ start_new_number' = start_new_number
          /\ just_evaluated' = just_evaluated /\ expr_buf' = expr_buf /\ cut' = cut
          /\ stuck' = stuck
      BY <2>2 DEF calculatorVars, numbers, display
    <3>. QED
      BY <1>2, <3>1 DEF CalculatorOK, TextFits, NumberShown, SumShown, itoa_dec, Magnitude
  <2>. QED
    BY <1>2, <2>1, <2>2
<1>3. CalculatorOK => TextTellsValue
  BY CalculatorTells
<1>. QED
  BY <1>1, <1>2, <1>3, PTL DEF CalculatorSpec

=============================================================================
