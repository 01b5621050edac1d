----------------------------- MODULE MCDesktop ------------------------------
(***************************************************************************)
(* The machine around its user, part by part: the windows, what the        *)
(* calculator's keys do, what the eyes look at, the text of the console,   *)
(* what a line of it is taken for, and the boot loader before all that.    *)
(* The parts share no state beyond what Desktop has of them, so a          *)
(* behaviour shows one of them; the others stay as they are.               *)
(***************************************************************************)
EXTENDS Desktop, Boot, Console, Commands, Eyes, Calculator

VARIABLE part

-----------------------------------------------------------------------------
(* The parts.                                                              *)

\* Press, drag down and right, drag up and left, release, move, and a packet
\* that is discarded.  dy counts upwards.
MCPackets ==
  {[dx |-> 0,  dy |-> 0,  left |-> TRUE,  overflow |-> FALSE],
   [dx |-> 4,  dy |-> -1, left |-> TRUE,  overflow |-> FALSE],
   [dx |-> -2, dy |-> 2,  left |-> TRUE,  overflow |-> FALSE],
   [dx |-> 4,  dy |-> -1, left |-> FALSE, overflow |-> FALSE],
   [dx |-> 0,  dy |-> 0,  left |-> FALSE, overflow |-> TRUE]}

\* The calculator opens half over the terminal and half beside it, xeyes
\* within it.
MCTerminal == [x |-> 1, y |-> 3, width |-> 4, height |-> 2]
MCCalculator == [x |-> 4, y |-> 3, width |-> 3, height |-> 1]
MCXEyes == [x |-> 2, y |-> 4, width |-> 2, height |-> 1]
MCButtons == {[x |-> 2, y |-> 0, width |-> 1, height |-> 1]}

\* Around and beyond a screen of 1024 by 768, seen from the window.
MCMouseXs == {-300, -77, -5, 0, 18, 100, 160, 200, 723} \cup 25 .. 55 \cup 105 .. 135
MCMouseYs == {-200, -13, 0, 100, 567} \cup 35 .. 65

\* A framebuffer of 3 by 2 cells, terminals of 2 by 3.
MCColumns == [b \in {"framebuffer", "first", "second"} |-> IF b = "framebuffer" THEN 3 ELSE 2]
MCRows == [b \in {"framebuffer", "first", "second"} |-> IF b = "framebuffer" THEN 2 ELSE 3]

MCGlyphs == {"a", "o", "$"}
MCPrompt == <<"$">>
MCOutputs == {<<>>, <<"o", "\n", "o", "o">>}

\* Text with and without the space, numbers within and beyond the limits.
MCLines ==
  {<<>>} \cup {<<name>> \o tail :
    name \in {"help", "echo", "readdisk", "ls", "cd", "sleep", "mkdir", "rm", "q"},
    tail \in {<<>>, <<" ">>, <<" ", "7">>, <<" ", "1", "7">>, <<" ", "7", "1">>,
             <<" ", "1", "7", "7", "1">>, <<" ", " ", "q">>, <<"q", " ", "1">>}}

MCDigits == [c \in {"1", "7"} |-> IF c = "1" THEN 1 ELSE 7]
MCUnits == UNION {ToSet(s) : s \in MCLines}

ASSUME PartsAssumption ==
  /\ DesktopAssumption /\ BootAssumption
  /\ CalculatorAssumption /\ EyesAssumption
  /\ ConsoleAssumption /\ LineAssumption /\ CommandAssumption

MCInit == /\ part \in {"desktop", "calculator", "eyes", "console", "words", "loader"}
          /\ Init /\ CalculatorInit /\ EyesInit /\ ConsoleInit /\ CommandInit /\ BootInit

\* Nothing is asked of these parts any more.
Idle == /\ part # "desktop"
        /\ UNCHANGED <<vars, bootVars, calculatorVars, eyesVars, consoleVars, commandVars>>

MCNext ==
  /\ part' = part
  /\ \/ part = "desktop" /\ Next
        /\ UNCHANGED <<bootVars, calculatorVars, eyesVars, consoleVars, commandVars>>
     \/ part = "calculator" /\ on_button
        /\ UNCHANGED <<vars, bootVars, eyesVars, consoleVars, commandVars>>
     \/ part = "eyes" /\ EyesFrame
        /\ UNCHANGED <<vars, bootVars, calculatorVars, consoleVars, commandVars>>
     \/ part = "console" /\ ConsoleNext
        /\ UNCHANGED <<vars, bootVars, calculatorVars, eyesVars, commandVars>>
     \/ part = "words" /\ CommandNext
        /\ UNCHANGED <<vars, bootVars, calculatorVars, eyesVars, consoleVars>>
     \/ part = "loader" /\ BootNext
        /\ UNCHANGED <<vars, calculatorVars, eyesVars, consoleVars, commandVars>>
     \/ Idle

MCSpec == MCInit /\ [][MCNext]_<<part, vars, bootVars, calculatorVars, eyesVars, consoleVars, commandVars>>
=============================================================================
