------------------------------- MODULE Mouse --------------------------------
(***************************************************************************)
(* The mouse driver of kernel/idt/idt.cpp, byte by byte: init_mouse, whose *)
(* commands the mouse may answer too late, and the mouse's part of         *)
(* interrupt_handler, which puts packets of three bytes together.          *)
(*                                                                         *)
(* The mouse, the line and the controller are external.  A byte of a       *)
(* packet may be lost at any time.  The driver notices only a first byte   *)
(* without bit 3.  Buttons other than the left one are not pressed.  The   *)
(* handler returns at once when the controller holds no mouse byte; that   *)
(* step changes nothing.                                                   *)
(***************************************************************************)
EXTENDS Integers

CONSTANTS Width, Height,        \* the screen
          StartX, StartY,       \* the pointer at boot
          Packets               \* what the hand may do

Byte == 0 .. 255

ASSUME ScreenAssumption == /\ Width \in Nat /\ Height \in Nat
                           /\ StartX \in 0 .. Width - 1 /\ StartY \in 0 .. Height - 1

\* A movement has nine bits; dy counts upwards.
ASSUME PacketAssumption ==
  /\ Packets # {}
  /\ Packets \subseteq [dx : -256 .. 255, dy : -256 .. 255, left : BOOLEAN, overflow : BOOLEAN]

VARIABLES booting,              \* steps of init_mouse done, of 4
          owed,                 \* commands the mouse has not answered
          answers,              \* answers nobody has read
          current, place,       \* the packet under way, the next of its bytes
          mouse_cycle, mouse_packet,
          mouse_x, mouse_y, mouse_buttons,
          whole,                \* no byte of the packet under way is lost
          settled               \* a quiet packet came whole since the last loss

init == <<booting, owed, answers>>
wire == <<current, place>>
packet == <<mouse_cycle, mouse_packet>>
pointer == <<mouse_x, mouse_y, mouse_buttons>>
mouseHistory == <<whole, settled>>
mouseVars == <<init, wire, packet, pointer, mouseHistory>>

MouseInit ==
  /\ booting = 0 /\ owed = 0 /\ answers = 0
  /\ current \in Packets /\ place = 0
  /\ mouse_cycle = 0 /\ mouse_packet = [i \in 0 .. 1 |-> 0]
  /\ mouse_x = StartX /\ mouse_y = StartY /\ mouse_buttons = 0
  /\ whole = TRUE /\ settled = FALSE

-----------------------------------------------------------------------------
(* Bytes.                                                                  *)

ACK == 250

Bit(b, value) == IF b THEN value ELSE 0

\* The packet that reports a movement: left button, bit 3, signs, overflow.
ByteOf(k, i) ==
  IF i = 0 THEN 8 + Bit(k.left, 1) + Bit(k.dx < 0, 16) + Bit(k.dy < 0, 32) + Bit(k.overflow, 64)
  ELSE IF i = 1 THEN k.dx % 256 ELSE k.dy % 256

\* Neither of its last two bytes can pass for a first one.
HasSync(b) == (b \div 8) % 2 = 1

Quiet(k) == ~HasSync(ByteOf(k, 1)) /\ ~HasSync(ByteOf(k, 2))

\* The sign is taken from the byte, not from the flags.
AsInt8(b) == IF b < 128 THEN b ELSE b - 256

-----------------------------------------------------------------------------
(* init_mouse: two commands, each with one read for its answer.            *)

mouse_write ==
  /\ booting \in {0, 2}
  /\ booting' = booting + 1 /\ owed' = owed + 1
  /\ UNCHANGED <<answers, wire, packet, pointer, mouseHistory>>

\* The mouse answers, before or after the driver stops waiting for it.
Answer ==
  /\ owed > 0
  /\ owed' = owed - 1 /\ answers' = answers + 1
  /\ UNCHANGED <<booting, wire, packet, pointer, mouseHistory>>

\* mouse_wait ends with an answer or with its 100000 polls; what is read
\* then is not looked at.
ReadAnswer ==
  /\ booting \in {1, 3}
  /\ booting' = booting + 1
  /\ answers' = IF answers > 0 THEN answers - 1 ELSE 0
  /\ UNCHANGED <<owed, wire, packet, pointer, mouseHistory>>

-----------------------------------------------------------------------------
(* The interrupt.                                                          *)

Within(low, n, high) == IF n < low THEN low ELSE IF n > high THEN high ELSE n

MoveDown(flags, dx, dy) ==                              \* mutant: dy is added
  /\ mouse_buttons' = flags % 8
  /\ mouse_x' = Within(0, mouse_x + AsInt8(dx), Width - 1)
  /\ mouse_y' = Within(0, mouse_y + AsInt8(dy), Height - 1)

Move(flags, dx, dy) ==
  /\ mouse_buttons' = flags % 8
  /\ mouse_x' = Within(0, mouse_x + AsInt8(dx), Width - 1)
  /\ mouse_y' = Within(0, mouse_y - AsInt8(dy), Height - 1)

AnyFirstByte(b) == FALSE                                \* mutant: bit 3 is not tested

\* A first byte without bit 3 is dropped.
Desynced(b) == mouse_cycle = 0 /\ ~HasSync(b)

StoppedByOverflow ==                 \* mutant: an overflow returns before mouse_cycle = 0
  IF mouse_cycle = 2 /\ mouse_packet[0] >= 64 THEN 2 ELSE (mouse_cycle + 1) % 3

NextCycle == (mouse_cycle + 1) % 3

\* The third byte completes the packet and is not kept.
interrupt_handler(b) ==
  IF Desynced(b) THEN UNCHANGED <<packet, pointer>>
  ELSE /\ mouse_cycle' = NextCycle
       /\ mouse_packet' = IF mouse_cycle = 2 THEN mouse_packet
                          ELSE [mouse_packet EXCEPT ![mouse_cycle] = b]
       /\ IF mouse_cycle = 2 /\ mouse_packet[0] < 64
          THEN Move(mouse_packet[0], mouse_packet[1], b)
          ELSE UNCHANGED pointer

\* Interrupts come once init_mouse is over, the answers before the packets.
LateAnswer ==
  /\ booting = 4 /\ answers > 0
  /\ answers' = answers - 1
  /\ interrupt_handler(ACK)
  /\ UNCHANGED <<booting, owed, wire, mouseHistory>>

Streaming == booting = 4 /\ owed = 0 /\ answers = 0

\* The byte leaves the mouse; after the third there is another packet.
Sent == /\ place' = (place + 1) % 3
        /\ IF place = 2 THEN current' \in Packets ELSE current' = current

Receive ==
  /\ Streaming
  /\ interrupt_handler(ByteOf(current, place))
  /\ Sent
  /\ whole' = (whole \/ place = 2)
  /\ settled' = (settled \/ (place = 2 /\ whole /\ Quiet(current)))
  /\ UNCHANGED init

Lose ==
  /\ Streaming
  /\ Sent
  /\ whole' = (place = 2)
  /\ settled' = FALSE
  /\ UNCHANGED <<init, packet, pointer>>

MouseNext == mouse_write \/ Answer \/ ReadAnswer \/ LateAnswer \/ Receive \/ Lose

MouseSpec == MouseInit /\ [][MouseNext]_mouseVars

-----------------------------------------------------------------------------
(* Properties.                                                             *)

\* Types; the pointer is on the screen.
PointerOnScreen ==
  /\ booting \in 0 .. 4 /\ owed \in 0 .. 2 /\ answers \in 0 .. 2
  /\ current \in Packets /\ place \in 0 .. 2
  /\ mouse_cycle \in 0 .. 2 /\ mouse_packet \in [0 .. 1 -> Byte]
  /\ mouse_x \in 0 .. Width - 1 /\ mouse_y \in 0 .. Height - 1
  /\ mouse_buttons \in 0 .. 7
  /\ whole \in BOOLEAN /\ settled \in BOOLEAN

\* The driver holds what was sent of the packet under way, and no more.
InStep == /\ Streaming
          /\ mouse_cycle = place
          /\ \A i \in 0 .. place - 1 : mouse_packet[i] = ByteOf(current, i)

\* However many bytes were lost or answers came late, one quiet packet that
\* comes whole ends the confusion (idt.cpp lines 183-189).
QuietPacketSettles == settled => InStep

\* Nothing but a lost byte takes the driver out of step, an overflowing
\* packet included (idt.cpp lines 184-192).
StaysInStep == [][InStep => InStep' \/ Lose]_mouseVars

\* While it is in step the pointer follows the hand, on the screen always
\* (idt.cpp lines 186-205).
Promise == INSTANCE Pointer WITH x <- mouse_x, y <- mouse_y, buttons <- mouse_buttons,
                                 following <- InStep

FollowsHand == Promise!Spec
=============================================================================
