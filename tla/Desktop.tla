------------------------------ MODULE Desktop -------------------------------
(***************************************************************************)
(* The window manager of kernel/wm/wm.cpp with those it shares the screen  *)
(* with: the mouse and the keyboard interrupt (kernel/idt/idt.cpp,         *)
(* kernel/misc/console.cpp), the calculator and xeyes                      *)
(* (kernel/applications), started by commands (kernel/utils/utils.cpp).    *)
(*                                                                         *)
(* They all change the picture and mark what they changed in one dirty     *)
(* rectangle; the compositor redraws that rectangle and nothing else.      *)
(* Interrupt handlers and what is written between cli and sti are one      *)
(* step.  xeyes marks with interrupts on: every access is a step.          *)
(*                                                                         *)
(* Contents are left out: what matters of a pixel is whether it may have   *)
(* changed since it was painted.  A mouse packet is taken with its third   *)
(* byte; the first two only wait in mouse_packet.  Windows have the slots  *)
(* 1, 2, ... and are never closed; 0 is the null pointer.  The 16 ticks    *)
(* between two polls are any time.                                         *)
(***************************************************************************)
EXTENDS Integers, Sequences, FiniteSets

CONSTANTS Width, Height,        \* the screen
          TITLEBAR_H, CLOSE_MARGIN, CURSOR_W, CURSOR_H,
          MAX_WINDOWS, MAX_TASKS,
          Terminal, Calculator, XEyes,  \* where the commands open their windows
          Buttons,              \* the calculator's keys, boxes within its window
          StartX, StartY,       \* the mouse at boot
          Packets,              \* what the mouse may send
          MaxPackets, MaxKeys, MaxStarts    \* bounds

Placed == [x : Nat, y : Nat, width : Nat \ {0}, height : Nat \ {0}]

PlaceAssumption ==
  \A w \in {Terminal, Calculator, XEyes} :
    /\ w \in Placed
    /\ w.y >= TITLEBAR_H /\ w.x + w.width <= Width /\ w.y + w.height <= Height

MouseAssumption == /\ StartX \in 0 .. Width - 1 /\ StartY \in 0 .. Height - 1
                   /\ Packets \subseteq [dx : Int, dy : Int, left : BOOLEAN, overflow : BOOLEAN]

SizeAssumption == /\ {Width, Height, TITLEBAR_H, CURSOR_W, CURSOR_H} \subseteq Nat
                  /\ MAX_TASKS \in Nat \ {0}

BoundsAssumption == {MaxPackets, MaxKeys, MaxStarts} \subseteq Nat

DesktopAssumption == PlaceAssumption /\ MouseAssumption /\ SizeAssumption /\ BoundsAssumption

VARIABLES windows, window_count,
          console_window, calc_window, xeyes_window,
          tasks,                        \* tasks created so far
          mouse_x, mouse_y, left_button,
          have_dirty, dirty,            \* <<dx0, dy0, dx1, dy1>>
          dragging_window, drag_offset,
          compositors,                  \* one for each startwm that got a task
          calculator, xeyes,            \* the two tasks
          cursor,                       \* where the cursor was drawn last
          stale,        \* pixels of windows and desktop changed since painted
          ghost,        \* the same for pixels under the cursor
          overtaken,    \* another mark or a redraw came while xeyes marked
          early,        \* the mouse moved before a compositor's first frame
          packets, keys, clicks, hits   \* seen so far

screen == <<windows, window_count>>
apps == <<console_window, calc_window, xeyes_window, tasks>>
mouse == <<mouse_x, mouse_y, left_button>>
damage == <<have_dirty, dirty>>
drag == <<dragging_window, drag_offset>>
picture == <<cursor, stale, ghost>>
counts == <<packets, keys, clicks, hits>>
vars == <<screen, apps, mouse, damage, drag, compositors, calculator, xeyes,
          picture, overtaken, early, counts>>

Slots == DOMAIN windows

Starts == 1 .. MaxStarts

Lower(a, b) == IF a < b THEN a ELSE b
Upper(a, b) == IF a > b THEN a ELSE b

-----------------------------------------------------------------------------
(* Boxes of pixels, and what wm_draw and gfx_draw_cursor put there.        *)

Box(x, y, w, h) == (x .. x + w - 1) \X (y .. y + h - 1)

Screen == Box(0, 0, Width, Height)

Body(w) == Box(w.x, w.y, w.width, w.height)
TitleBar(w) == Box(w.x, w.y - TITLEBAR_H, w.width, TITLEBAR_H)
WithBorder(w) == Box(w.x - 1, w.y - TITLEBAR_H - 1, w.width + 2, w.height + TITLEBAR_H + 2)
CloseButton(w) == Box(w.x + w.width - TITLEBAR_H + CLOSE_MARGIN, w.y - TITLEBAR_H + CLOSE_MARGIN,
                      TITLEBAR_H - 2 * CLOSE_MARGIN, TITLEBAR_H - 2 * CLOSE_MARGIN)

\* The triangle of the cursor and its outline, as the box around them.
CursorBox(at) == Box(at[1] - 1, at[2] - 1, CURSOR_W + 1, CURSOR_H - 1)

\* Windows are drawn by layer, those of one layer by slot.
DrawnBefore(ws, i, j) == ws[i].layer < ws[j].layer \/ (ws[i].layer = ws[j].layer /\ i < j)

\* The part of which window a pixel shows.
Shows(ws, p) ==
  LET covering == {i \in DOMAIN ws : p \in WithBorder(ws[i])}
      top == CHOOSE i \in covering : \A j \in covering \ {i} : DrawnBefore(ws, j, i)
  IN  IF covering = {} THEN <<0, "desktop">>
      ELSE IF p \in Body(ws[top]) THEN <<top, "body">>
      ELSE IF p \in TitleBar(ws[top]) THEN <<top, "title">> ELSE <<top, "border">>

\* Where a change of a window's contents is seen.
Seen(i) == {p \in Screen : Shows(windows, p) = <<i, "body">>}

Rearranged(before, after) ==
  IF before = after THEN {} ELSE {p \in Screen : Shows(before, p) # Shows(after, p)}

-----------------------------------------------------------------------------
(* The dirty rectangle.                                                    *)

Rect(x, y, w, h) == <<x, y, x + w, y + h>>

Inside(r) == {p \in Screen : r[1] <= p[1] /\ p[1] < r[3] /\ r[2] <= p[2] /\ p[2] < r[4]}

\* mutant: the bottom edge is not widened
WidenedShort(r, s) == <<Lower(r[1], s[1]), Lower(r[2], s[2]), Upper(r[3], s[3]), r[4]>>

Widened(r, s) == <<Lower(r[1], s[1]), Lower(r[2], s[2]), Upper(r[3], s[3]), Upper(r[4], s[4])>>

add_dirty(d, r) == [have |-> TRUE, rect |-> IF d.have THEN Widened(d.rect, r) ELSE r]

Marked == [have |-> have_dirty, rect |-> dirty]

Mark(d) == have_dirty' = d.have /\ dirty' = d.rect

Dirty == IF have_dirty THEN Inside(dirty) ELSE {}

WholeScreen == Rect(0, 0, Width, Height)

\* add_dirty_window: the border and a pixel more.
WindowRect(w) == Rect(w.x - 2, w.y - TITLEBAR_H - 2, w.width + 4, w.height + TITLEBAR_H + 4)

\* What the console and the calculator mark: no border.
TitledRect(w) == Rect(w.x, w.y - TITLEBAR_H, w.width, w.height + TITLEBAR_H)

CursorRect(at) == Rect(at[1] - 2, at[2] - 2, CURSOR_W + 4, CURSOR_H + 4)

console_dirty == IF console_window = 0 THEN WholeScreen ELSE TitledRect(windows[console_window])

\* xeyes is in the middle of its add_dirty.
Marking == xeyes.pc \in {"fresh", "grow"}

\* Every other step that touches the rectangle meanwhile is noted.
NoteOvertaking == overtaken' = (overtaken \/ (Marking /\ damage' # damage))

Init == /\ windows = <<>> /\ window_count = 0
        /\ console_window = 0 /\ calc_window = 0 /\ xeyes_window = 0
        /\ tasks = 0
        /\ mouse_x = StartX /\ mouse_y = StartY /\ left_button = FALSE
        /\ have_dirty = TRUE /\ dirty = WholeScreen     \* by the boot messages
        /\ dragging_window = 0 /\ drag_offset = <<0, 0>>
        /\ compositors = <<>>
        /\ calculator = [pc |-> "off", left |-> FALSE]
        /\ xeyes = [pc |-> "off", rect |-> WholeScreen, next |-> 1]
        /\ cursor = <<StartX, StartY>>
        /\ stale = Screen /\ ghost = Screen
        /\ overtaken = FALSE /\ early = FALSE
        /\ packets = 0 /\ keys = 0 /\ clicks = 0 /\ hits = 0

-----------------------------------------------------------------------------
(* The mouse interrupt, when the third byte of a packet is there.          *)

Within(low, n, high) == Upper(low, Lower(n, high))

MousePacket ==
  \E k \in Packets :
    /\ packets < MaxPackets
    /\ packets' = packets + 1
    /\ IF k.overflow
       THEN UNCHANGED <<mouse, early, clicks>>
       ELSE /\ mouse_x' = Within(0, mouse_x + k.dx, Width - 1)
            /\ mouse_y' = Within(0, mouse_y - k.dy, Height - 1)
            /\ left_button' = k.left
            /\ clicks' = IF k.left /\ ~left_button THEN clicks + 1 ELSE clicks
            /\ early' = (early \/ /\ <<mouse_x, mouse_y>>' # <<mouse_x, mouse_y>>
                                  /\ \E c \in DOMAIN compositors : compositors[c].pc = "read")
    /\ UNCHANGED <<screen, apps, damage, drag, compositors, calculator, xeyes, picture,
                   overtaken, keys, hits>>

-----------------------------------------------------------------------------
(* The keyboard interrupt: whatever it runs prints on the console.         *)

\* What the console prints changes the body of its window.
Printed == Seen(console_window)

Press == keys < MaxKeys /\ keys' = keys + 1

\* A key, or a command that opens nothing.  (Before startwm the whole screen
\* is marked already.)
TypeKey ==
  /\ Press
  /\ console_window # 0
  /\ Mark(add_dirty(Marked, console_dirty))
  /\ stale' = stale \cup Printed
  /\ NoteOvertaking
  /\ UNCHANGED <<screen, apps, mouse, drag, compositors, calculator, xeyes, cursor, ghost,
                 early, packets, clicks, hits>>

\* wm_create_window in the first slot that is not in use.
wm_create_window(w) ==
  /\ Len(windows) < MAX_WINDOWS
  /\ windows' = Append(windows, [x |-> w.x, y |-> w.y, width |-> w.width, height |-> w.height,
                                 layer |-> window_count])
  /\ window_count' = window_count + 1

TaskSlotLeft == tasks < MAX_TASKS - 1

\* task_create: without a slot nothing happens, and nobody looks.
task_create == tasks' = IF TaskSlotLeft THEN tasks + 1 ELSE tasks

\* The console moves to the new window and is cleared; the old one keeps
\* what it shows.
StartWm ==
  /\ Press
  /\ Cardinality({i \in Slots : i \notin {calc_window, xeyes_window}}) < MaxStarts
  /\ wm_create_window(Terminal)
  /\ console_window' = Len(windows) + 1
  /\ task_create
  /\ compositors' = IF ~TaskSlotLeft THEN compositors
                    ELSE Append(compositors, [pc |-> "created", at |-> <<0, 0>>, left |-> FALSE])
  /\ Mark(add_dirty(add_dirty(Marked, console_dirty), TitledRect(Terminal)))
  /\ stale' = stale \cup Printed \cup Rearranged(windows, windows')
  /\ NoteOvertaking
  /\ UNCHANGED <<calc_window, xeyes_window, mouse, drag, calculator, xeyes, cursor, ghost,
                 early, packets, clicks, hits>>

\* Both commands refuse before startwm and when their window is there.
OpenWindow(w) ==
  /\ Press
  /\ console_window # 0
  /\ wm_create_window(w)
  /\ task_create
  /\ Mark(add_dirty(Marked, console_dirty))
  /\ stale' = stale \cup Printed \cup Rearranged(windows, windows')
  /\ NoteOvertaking
  /\ UNCHANGED <<console_window, mouse, drag, compositors, cursor, ghost,
                 early, packets, clicks, hits>>

OpenCalculator ==
  /\ calc_window = 0
  /\ OpenWindow(Calculator)
  /\ calc_window' = Len(windows) + 1
  /\ calculator' = IF TaskSlotLeft THEN [calculator EXCEPT !.pc = "created"] ELSE calculator
  /\ UNCHANGED <<xeyes_window, xeyes>>

OpenXEyes ==
  /\ xeyes_window = 0
  /\ OpenWindow(XEyes)
  /\ xeyes_window' = Len(windows) + 1
  /\ xeyes' = IF TaskSlotLeft THEN [xeyes EXCEPT !.pc = "created"] ELSE xeyes
  /\ UNCHANGED <<calc_window, calculator>>

-----------------------------------------------------------------------------
(* wm_task.                                                                *)

\* Before the first cli the mouse is read.
ReadMouse(c) ==
  /\ compositors[c].pc = "created"
  /\ compositors' = [compositors EXCEPT ![c] = [pc |-> "read", at |-> <<mouse_x, mouse_y>>,
                                                left |-> left_button]]
  /\ UNCHANGED <<screen, apps, mouse, damage, drag, calculator, xeyes, picture, overtaken,
                 early, counts>>

FirstFrame(c) ==
  /\ compositors[c].pc = "read"
  /\ compositors' = [compositors EXCEPT ![c].pc = "loop"]
  /\ cursor' = <<mouse_x, mouse_y>>
  /\ stale' = {} /\ ghost' = {}
  /\ UNCHANGED <<screen, apps, mouse, damage, drag, calculator, xeyes, overtaken, early, counts>>

wm_titlebar_hit_test(p) ==
  LET grips == {i \in Slots : p \in TitleBar(windows[i]) \ CloseButton(windows[i])}
  IN  IF grips = {} THEN 0
      ELSE CHOOSE i \in grips : \A j \in grips \ {i} :
             windows[i].layer > windows[j].layer \/ (windows[i].layer = windows[j].layer /\ i < j)

CountKept == window_count                               \* mutant: no ++

NextCount == window_count + 1

NoFloor(w, p) ==                                        \* mutant: the title bar may leave the screen
  [w EXCEPT !.x = Lower(Upper(p[1], 0), Width - w.width),
            !.y = Lower(Upper(p[2], 0), Height - w.height)]

\* The window, dragged to p but kept on the screen.
DraggedTo(w, p) ==
  [w EXCEPT !.x = Lower(Upper(p[1], 0), Width - w.width),
            !.y = Lower(Upper(p[2], TITLEBAR_H), Height - w.height)]

\* Two marks, if what they are made for has changed.
MarkChange(d, changed, r, s) == IF changed THEN add_dirty(add_dirty(d, r), s) ELSE d

\* The rectangle as it is clipped to the screen before it is redrawn.
Clipped(r) == <<Upper(r[1], 0), Upper(r[2], 0), Lower(r[3], Width), Lower(r[4], Height)>>

\* One turn of the loop: press or release, drag, cursor, redraw.
Frame(c) ==
  /\ compositors[c].pc = "loop"
  /\ LET now == <<mouse_x, mouse_y>>
         hit == IF left_button /\ ~compositors[c].left THEN wm_titlebar_hit_test(now) ELSE 0
         held == IF hit # 0 THEN hit ELSE IF left_button THEN dragging_window ELSE 0
         offset == IF hit # 0 THEN <<mouse_x - windows[hit].x, mouse_y - windows[hit].y>>
                   ELSE drag_offset
         raised == IF hit # 0 THEN [windows EXCEPT ![hit].layer = window_count] ELSE windows
         moved == IF held = 0 THEN raised
                  ELSE [raised EXCEPT ![held] =
                          DraggedTo(@, <<mouse_x - offset[1], mouse_y - offset[2]>>)]
         up == IF hit # 0 THEN add_dirty(Marked, WindowRect(windows[hit])) ELSE Marked
         away == MarkChange(up, moved # raised, WindowRect(raised[held]), WindowRect(moved[held]))
         d == MarkChange(away, compositors[c].at # now, CursorRect(compositors[c].at), CursorRect(now))
         painted == IF d.have THEN Inside(Clipped(d.rect)) ELSE {}
     IN  /\ windows' = moved
         /\ window_count' = IF hit # 0 THEN NextCount ELSE window_count
         /\ dragging_window' = held /\ drag_offset' = offset
         /\ compositors' = [compositors EXCEPT ![c] = [pc |-> "loop", at |-> now,
                                                       left |-> left_button]]
         /\ have_dirty' = FALSE
         /\ dirty' = IF d.have THEN Clipped(d.rect) ELSE dirty
         /\ cursor' = now
         /\ stale' = (stale \cup Rearranged(windows, moved)) \ painted
         /\ ghost' = (ghost \cup IF cursor = now THEN {}
                                 ELSE Screen \cap (CursorBox(cursor) \cup CursorBox(now))) \ painted
  /\ NoteOvertaking
  /\ UNCHANGED <<apps, mouse, calculator, xeyes, early, counts>>

-----------------------------------------------------------------------------
(* calculator_task.                                                        *)

DrawCalculator ==
  /\ Mark(add_dirty(Marked, TitledRect(windows[calc_window])))
  /\ stale' = stale \cup Seen(calc_window)

CalculatorFirst ==
  /\ calculator.pc = "created"
  /\ calculator' = [pc |-> "loop", left |-> left_button]
  /\ DrawCalculator
  /\ NoteOvertaking
  /\ UNCHANGED <<screen, apps, mouse, drag, compositors, xeyes, cursor, ghost, early, counts>>

Forgotten == calculator                                 \* mutant: the button is not remembered

Polled == [calculator EXCEPT !.left = left_button]

\* The mouse is on one of its keys, whatever window is in front there.
OnKey == LET w == windows[calc_window]
         IN  \E b \in Buttons : <<mouse_x, mouse_y>> \in Box(w.x + b.x, w.y + b.y, b.width, b.height)

CalculatorPoll ==
  /\ calculator.pc = "loop"
  /\ calculator' = Polled
  /\ IF left_button /\ ~calculator.left /\ OnKey
     THEN DrawCalculator /\ hits' = hits + 1
     ELSE UNCHANGED <<damage, stale, hits>>
  /\ NoteOvertaking
  /\ UNCHANGED <<screen, apps, mouse, drag, compositors, xeyes, cursor, ghost, early,
                 packets, keys, clicks>>

-----------------------------------------------------------------------------
(* xeyes_task, interrupts on: it draws, and then marks its body.           *)

XEyesDraw ==
  /\ xeyes.pc \in {"created", "hlt"}
  /\ LET w == windows[xeyes_window]
     IN  /\ stale' = stale \cup Seen(xeyes_window)
         /\ xeyes' = [pc |-> "test", rect |-> Rect(w.x, w.y, w.width, w.height), next |-> 1]
  /\ UNCHANGED <<screen, apps, mouse, damage, drag, compositors, calculator, cursor, ghost,
                 overtaken, early, counts>>

\* add_dirty reads have_dirty ...
XEyesTest ==
  /\ xeyes.pc = "test"
  /\ xeyes' = [xeyes EXCEPT !.pc = IF have_dirty THEN "grow" ELSE "fresh"]
  /\ UNCHANGED <<screen, apps, mouse, damage, drag, compositors, calculator, picture,
                 overtaken, early, counts>>

Halting == [pc |-> "hlt", rect |-> xeyes.rect, next |-> 1]

\* ... and then writes, or widens, dx0, dy0, dx1 and dy1 in turn.
XEyesWrite ==
  /\ Marking
  /\ xeyes.next <= 4
  /\ dirty' = [dirty EXCEPT ![xeyes.next] =
                 IF xeyes.pc = "fresh" THEN xeyes.rect[xeyes.next]
                 ELSE Widened(dirty, xeyes.rect)[xeyes.next]]
  /\ xeyes' = IF xeyes.pc = "grow" /\ xeyes.next = 4
              THEN Halting
              ELSE [xeyes EXCEPT !.next = @ + 1]
  /\ UNCHANGED <<screen, apps, mouse, have_dirty, drag, compositors, calculator, picture,
                 overtaken, early, counts>>

XEyesMarked ==
  /\ xeyes.pc = "fresh" /\ xeyes.next = 5
  /\ have_dirty' = TRUE
  /\ xeyes' = Halting
  /\ UNCHANGED <<screen, apps, mouse, dirty, drag, compositors, calculator, picture,
                 overtaken, early, counts>>

-----------------------------------------------------------------------------
Keyboard == TypeKey \/ StartWm \/ OpenCalculator \/ OpenXEyes

WmTask == \E c \in DOMAIN compositors : ReadMouse(c) \/ FirstFrame(c) \/ Frame(c)

Apps == CalculatorFirst \/ CalculatorPoll \/ XEyesDraw \/ XEyesTest \/ XEyesWrite \/ XEyesMarked

Next == MousePacket \/ Keyboard \/ WmTask \/ Apps

Spec == Init /\ [][Next]_vars

-----------------------------------------------------------------------------
(* Properties.                                                             *)

\* Types; the mouse and every window, title bar included, are on the screen.
TypeOK ==
  /\ \A i \in Slots : /\ windows[i].x \in 0 .. Width - windows[i].width
                      /\ windows[i].y \in TITLEBAR_H .. Height - windows[i].height
                      /\ windows[i].layer \in 0 .. window_count - 1
  /\ {console_window, calc_window, xeyes_window, dragging_window} \subseteq {0} \cup Slots
  /\ tasks \in 0 .. MAX_TASKS - 1
  /\ mouse_x \in 0 .. Width - 1 /\ mouse_y \in 0 .. Height - 1
  /\ {left_button, have_dirty, overtaken, early} \subseteq BOOLEAN
  /\ stale \subseteq Screen /\ ghost \subseteq Screen

\* Parts of the picture that their task has not drawn and marked yet, and
\* those it leaves out of its mark: borders, and the title bar of xeyes.
NotClaimed(p) ==
  LET shown == Shows(windows, p)
  IN  \/ shown[2] = "border"
      \/ shown[1] # 0 /\ shown[1] = calc_window /\ calculator.pc # "loop"
      \/ shown[1] # 0 /\ shown[1] = xeyes_window /\ (xeyes.pc # "hlt" \/ shown[2] = "title")

\* Whatever changed since it was painted will be redrawn: no order of
\* output, clicks, drags, openings and frames of one or more compositors
\* loses a change, as long as no mark overtook xeyes, the one that marks
\* with interrupts on (wm.cpp lines 27-40, 72-75, 152-207).
NothingLeftStale ==
  ~overtaken => \A p \in stale \ Dirty : NotClaimed(p)

\* One compositor never leaves a cursor behind where the mouse was, unless
\* the mouse moves between its first read and its first frame (wm.cpp lines
\* 131, 138, 183-188).
NoGhostCursor ==
  ~overtaken /\ ~early /\ Len(compositors) <= 1 => ghost \subseteq Dirty

\* What the screen shows is what was drawn, or soon will be.
PictureKept == NothingLeftStale /\ NoGhostCursor

\* Where a title bar is seen, its window is the one a press takes hold of:
\* the order of drawing and of the hit test agree after any openings and
\* raises (wm.cpp lines 78-109).
GrabsWhatIsSeen ==
  \A i \in Slots : \A p \in TitleBar(windows[i]) \ CloseButton(windows[i]) :
    p \in Screen /\ Shows(windows, p)[1] = i => wm_titlebar_hit_test(p) = i

\* The calculator takes no click for two, however its polls and the mouse
\* interrupts interleave (calculator.cpp lines 174-178).
OneKeyPerClick == hits <= clicks
=============================================================================
