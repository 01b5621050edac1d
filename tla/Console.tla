------------------------------ MODULE Console -------------------------------
(***************************************************************************)
(* The console of kernel/misc/console.cpp, as the keyboard interrupt and   *)
(* the commands use it, and the font renderer it shares with the windows   *)
(* (ssfn_putc of ssfn.h).                                                  *)
(*                                                                         *)
(* The unit is the cell: every character that the font knows is 8 by 16    *)
(* pixels, and framebuffer and terminal are whole numbers of cells.        *)
(* Control characters have no glyph; Tab and Escape can be typed.  Colours *)
(* are left out.  The interrupt and those who draw text on windows keep    *)
(* each other out with cli: every action is one step.  It begins with the  *)
(* first prompt.                                                           *)
(***************************************************************************)
EXTENDS Integers, Sequences

CONSTANTS Framebuffer, Terminals,       \* what the console may be shown on
          Columns, Rows,                \* their sizes in cells
          Glyphs,                       \* characters the font has
          Letters,                      \* those that can be typed
          NoGlyph,                      \* a key without glyph
          Prompt, Outputs,              \* what the shell and commands print
          MaxLine, MaxCommands          \* bounds

Surfaces == {Framebuffer} \cup Terminals

Blank == " "

ConsoleAssumption ==
  /\ Framebuffer \notin Terminals
  /\ \A b \in Surfaces : Columns[b] \in Nat \ {0} /\ Rows[b] \in Nat \ {0}
  /\ Letters \subseteq Glyphs /\ Glyphs \cap {NoGlyph, "\n"} = {} /\ NoGlyph # "\n"
  /\ {Prompt} \cup Outputs \subseteq Seq(Glyphs \cup {"\n"})
  /\ {MaxLine, MaxCommands} \subseteq Nat

\* A line that begins in the last column of the first row ends on the screen:
\* 255 characters (MAX_COMMAND_LEN, idt.cpp) where there are 80 by 25 cells.
LineAssumption == \A b \in Surfaces : Columns[b] - 1 + MaxLine < Columns[b] * Rows[b]

VARIABLES g_console,            \* [ptr, x, y]
          ssfn_ptr,             \* ssfn_dst.ptr, with its pitch and size
          pages,                \* what each surface shows
          shell_buffer,
          opened,               \* terminals in use
          log,                  \* text since the console was cleared
          scrolled,             \* rows of it that left at the top
          erased,               \* a character without glyph was taken back
          commands              \* so far

shown == <<g_console, ssfn_ptr, pages>>
history == <<log, scrolled, erased>>
consoleVars == <<shown, shell_buffer, opened, history, commands>>

Empty(b) == [r \in 1 .. Rows[b] |-> [c \in 1 .. Columns[b] |-> Blank]]

-----------------------------------------------------------------------------
(* The console, as functions of <<cursor, pages>>.                         *)

Now == [at |-> g_console, to |-> ssfn_ptr, pages |-> pages]

RowLength(s) == Columns[s.at.ptr]
RowCount(s) == Rows[s.at.ptr]

\* ssfn_putc draws at the cursor of the console, clipped to its own target,
\* and moves on; a character without glyph does neither.
ssfn_putc(s, c) ==
  IF c = NoGlyph THEN s
  ELSE [s EXCEPT !.at.x = @ + 1,
                 !.pages = IF s.to \in Surfaces /\ s.at.y < Rows[s.to] /\ s.at.x < Columns[s.to]
                           THEN [@ EXCEPT ![s.to][s.at.y + 1][s.at.x + 1] = c]
                           ELSE @]

console_scroll(s) ==
  [s EXCEPT !.at.x = 0, !.at.y = RowCount(s) - 1,
            !.pages[s.at.ptr] = [r \in 1 .. RowCount(s) |->
                                   IF r < RowCount(s) THEN @[r + 1] ELSE Empty(s.at.ptr)[r]]]

NewLine(s) == [s EXCEPT !.at.x = 0, !.at.y = @ + 1]

Wrapped(s) == IF s.at.x + 1 > RowLength(s) THEN NewLine(s) ELSE s

PastBottom(s) == s.at.y + 1 > RowCount(s)

console_putc(s, c) ==
  LET t == IF c = "\n" THEN NewLine(s) ELSE Wrapped(ssfn_putc(s, c))
  IN  IF PastBottom(t) THEN console_scroll(t) ELSE t

console_puts(s, str) ==
  LET put[k \in 0 .. Len(str)] == IF k = 0 THEN s ELSE console_putc(put[k - 1], str[k])
  IN  put[Len(str)]

FirstColumn(s) == [s.at EXCEPT !.y = @ - 1]             \* mutant: stays in column 0

\* One column back, from the first to the last of the row above.
RowAbove(s) == [s.at EXCEPT !.x = RowLength(s) - 1, !.y = @ - 1]

console_backspace(s) ==
  LET back == IF s.at.x >= 1 THEN [s.at EXCEPT !.x = @ - 1]
              ELSE IF s.at.y >= 1 THEN RowAbove(s) ELSE s.at
  IN  IF back = s.at THEN s
      ELSE [s EXCEPT !.at = back, !.pages[s.at.ptr][back.y + 1][back.x + 1] = Blank]

console_clear(s) ==
  [s EXCEPT !.at.x = 0, !.at.y = 0, !.pages[s.at.ptr] = Empty(s.at.ptr)]

KeepsRenderer(s, b) == [s EXCEPT !.at = [ptr |-> b, x |-> 0, y |-> 0]]  \* mutant: ssfn_dst.ptr stays

console_set_target(s, b) == [s EXCEPT !.at = [ptr |-> b, x |-> 0, y |-> 0], !.to = b]

Becomes(s) == g_console' = s.at /\ ssfn_ptr' = s.to /\ pages' = s.pages

-----------------------------------------------------------------------------
(* The text that should be seen.                                           *)

NextPlace(p, c, b) == IF c = "\n" \/ p[2] + 1 = Columns[b] THEN <<p[1] + 1, 0>>
                                                           ELSE <<p[1], p[2] + 1>>

\* Where each character goes, rows and columns from 0, and after the last
\* the cursor.
Places(str, b) ==
  LET place[k \in 0 .. Len(str)] == IF k = 0 THEN <<0, 0>> ELSE NextPlace(place[k - 1], str[k], b)
  IN  place

Greater(a, b) == IF a > b THEN a ELSE b

\* Rows scrolled away once str is written: what is gone does not come back.
Scrolled(str, b, before) == Greater(before, Places(str, b)[Len(str)][1] + 1 - Rows[b])

Layout(str, b, gone) ==
  LET place == Places(str, b)
      At(r, c) == {k \in 1 .. Len(str) : str[k] # "\n" /\ place[k - 1] = <<gone + r - 1, c - 1>>}
  IN  [r \in 1 .. Rows[b] |-> [c \in 1 .. Columns[b] |->
         IF At(r, c) = {} THEN Blank ELSE str[CHOOSE k \in At(r, c) : TRUE]]]

Logged(str) == log' = str /\ scrolled' = Scrolled(str, g_console.ptr, scrolled)

-----------------------------------------------------------------------------
ConsoleInit ==
  LET s == console_puts([at |-> [ptr |-> Framebuffer, x |-> 0, y |-> 0], to |-> Framebuffer,
                         pages |-> [b \in Surfaces |-> Empty(b)]], Prompt)
  IN  /\ g_console = s.at /\ ssfn_ptr = s.to /\ pages = s.pages
      /\ shell_buffer = <<>> /\ opened = {}
      /\ log = Prompt /\ scrolled = Scrolled(Prompt, Framebuffer, 0) /\ erased = FALSE
      /\ commands = 0

\* A key that is neither Enter nor Backspace.
TypeChar(c) ==
  /\ Len(shell_buffer) < MaxLine
  /\ Becomes(console_putc(Now, c))
  /\ shell_buffer' = Append(shell_buffer, c)
  /\ Logged(IF c = NoGlyph THEN log ELSE Append(log, c))
  /\ UNCHANGED <<opened, erased, commands>>

AllButLast(str) == SubSeq(str, 1, Len(str) - 1)

\* One character leaves the line; the log loses the one that was seen.
Backspace ==
  /\ shell_buffer # <<>>
  /\ Becomes(console_backspace(Now))
  /\ shell_buffer' = AllButLast(shell_buffer)
  /\ IF shell_buffer[Len(shell_buffer)] = NoGlyph
     THEN erased' = TRUE /\ UNCHANGED log
     ELSE log' = AllButLast(log) /\ UNCHANGED erased
  /\ UNCHANGED <<opened, scrolled, commands>>

Command == /\ commands < MaxCommands /\ commands' = commands + 1
           /\ shell_buffer' = <<>>

\* A command that prints.
Enter ==
  /\ Command
  /\ \E out \in Outputs :
       LET str == <<"\n">> \o out \o <<"\n">> \o Prompt
       IN  Becomes(console_puts(Now, str)) /\ Logged(log \o str)
  /\ UNCHANGED <<opened, erased>>

\* The log begins anew with a cleared console.
Restarted(s) ==
  LET str == <<"\n">> \o Prompt
  IN  /\ Becomes(console_puts(console_clear(s), str))
      /\ log' = str /\ scrolled' = Scrolled(str, s.at.ptr, 0) /\ erased' = FALSE

ClearCommand ==
  /\ Command
  /\ Restarted(console_putc(Now, "\n"))
  /\ UNCHANGED opened

\* startwm: the console moves to the buffer of a new window.
MoveToWindow ==
  /\ Command
  /\ \E b \in Terminals \ opened :
       /\ opened' = opened \cup {b}
       /\ Restarted(console_set_target(console_putc(Now, "\n"), b))

LeavesTarget == ssfn_ptr' = "window"                    \* mutant: ptr is not restored

\* console_draw_glyph has the renderer draw on a window or the back buffer,
\* and puts back what the console had set.
RendererRestored == UNCHANGED ssfn_ptr

console_draw_glyph == /\ opened # {}
                      /\ RendererRestored
                      /\ UNCHANGED <<g_console, pages, shell_buffer, opened, history, commands>>

ConsoleNext ==
  \/ \E c \in Letters \cup {NoGlyph} : TypeChar(c)
  \/ Backspace
  \/ Enter \/ ClearCommand \/ MoveToWindow
  \/ console_draw_glyph

ConsoleSpec == ConsoleInit /\ [][ConsoleNext]_consoleVars

-----------------------------------------------------------------------------
(* Properties.                                                             *)

\* Types; between two interrupts the cursor is on a whole cell of its
\* surface, so that nothing is written beside it.
CursorInside ==
  /\ g_console.ptr \in Surfaces
  /\ g_console.x \in 0 .. Columns[g_console.ptr] - 1
  /\ g_console.y \in 0 .. Rows[g_console.ptr] - 1
  /\ \A b \in Surfaces : Len(pages[b]) = Rows[b] /\ \A r \in 1 .. Rows[b] : Len(pages[b][r]) = Columns[b]
  /\ Len(shell_buffer) <= MaxLine /\ opened \subseteq Terminals /\ erased \in BOOLEAN

\* However lines wrap, scroll and are taken back, the console shows the end
\* of the text broken into rows, the line typed so far last and the cursor
\* after it; until a character without glyph is taken back, which takes a
\* visible one away, the prompt's too (console.cpp lines 87-152, idt.cpp
\* lines 232-254).
ScreenShowsText ==
  /\ CursorInside
  /\ ~erased => /\ pages[g_console.ptr] = Layout(log, g_console.ptr, scrolled)
                /\ <<g_console.y + scrolled, g_console.x>> = Places(log, g_console.ptr)[Len(log)]

\* Once the console has moved to a terminal nothing of it appears on any
\* other surface, whoever used the renderer meanwhile (lines 48-59, 156-190).
OnlyTargetChanges ==
  [][\A b \in Surfaces : b # g_console.ptr /\ b # g_console'.ptr => pages'[b] = pages[b]]_consoleVars
=============================================================================
