----------------------------- MODULE Calculator -----------------------------
(***************************************************************************)
(* The arithmetic of kernel/applications/calculator.cpp: what a key does   *)
(* to the two operands, the operator and the text of the display.  Desktop *)
(* has the task that turns clicks into keys.                               *)
(*                                                                         *)
(* An int32_t has 2 * Half values here; the build does not trap overflows  *)
(* of + - *, they wrap.  The most negative number divided by -1 is what    *)
(* idiv does trap: interrupt_handler knows nothing of exception 0 and      *)
(* returns to the same instruction, interrupts off, so nothing ever        *)
(* happens again.                                                          *)
(***************************************************************************)
EXTENDS Integers, Sequences, SequencesExt

CONSTANTS DigitKeys, Operators, \* keys, besides C and =
          Half,                 \* 2^31
          BufSize,              \* sizeof(expr_buf), its final 0 included
          MaxPresses            \* bound

VARIABLES display_value, pending_value,
          pending_op,           \* "" for none
          start_new_number, just_evaluated,
          expr_buf,             \* the text shown, without the final 0
          cut,                  \* a key was left out of the text
          stuck,                \* in the trap of a division
          pressed               \* keys so far

numbers == <<display_value, pending_value, pending_op, start_new_number>>
display == <<expr_buf, cut>>
calculatorVars == <<numbers, just_evaluated, display, stuck, pressed>>

Int32 == -Half .. Half - 1

CalculatorInit ==
  /\ display_value = 0 /\ pending_value = 0 /\ pending_op = ""
  /\ start_new_number = TRUE /\ just_evaluated = FALSE
  /\ expr_buf = <<"0">> /\ cut = FALSE
  /\ stuck = FALSE /\ pressed = 0

-----------------------------------------------------------------------------
(* Numbers and text.                                                       *)

Wrap(n) == ((n + Half) % (2 * Half)) - Half

Magnitude(n) == IF n < 0 THEN -n ELSE n

\* Division towards zero.
Quotient(a, b) ==
  LET q == Magnitude(a) \div Magnitude(b) IN IF (a < 0) = (b < 0) THEN q ELSE -q

apply_op(a, b, op) ==
  CASE op = "+" -> Wrap(a + b)
    [] op = "-" -> Wrap(a - b)
    [] op = "*" -> Wrap(a * b)
    [] op = "/" -> IF b = 0 THEN a ELSE Wrap(Quotient(a, b))
    [] OTHER -> b

Traps(a, b, op) == op = "/" /\ a = -Half /\ b = -1

Numeral(d) == <<"0", "1", "2", "3", "4", "5", "6", "7", "8", "9">>[d + 1]

DigitValue(c) == CHOOSE d \in 0 .. 9 : Numeral(d) = c

\* The digits come out last first, and are turned round.
Numerals[n \in 0 .. Half] ==
  IF n < 10 THEN <<Numeral(n)>> ELSE Append(Numerals[n \div 10], Numeral(n % 10))

itoa_dec(n) == (IF n < 0 THEN <<"-">> ELSE <<>>) \o Numerals[Magnitude(n)]

\* A digit is a number, and the text of any number fits.
CalculatorAssumption ==
  /\ DigitKeys \subseteq {Numeral(d) : d \in 0 .. 9}
  /\ Operators \subseteq {"+", "-", "*", "/"}
  /\ Half \in Nat \ {0} /\ BufSize \in Nat /\ MaxPresses \in Nat
  /\ \A c \in DigitKeys : DigitValue(c) < Half
  /\ \A n \in Int32 : Len(itoa_dec(n)) < BufSize

RoomIn(t) == Len(t) < BufSize - 1

\* expr_append: a key without room is not shown.
expr_append(t, c) ==
  IF RoomIn(t) THEN expr_buf' = Append(t, c) /\ UNCHANGED cut ELSE expr_buf' = t /\ cut' = TRUE

-----------------------------------------------------------------------------
(* on_button.                                                              *)

Digit(c) ==
  /\ display_value' = IF start_new_number THEN DigitValue(c)
                      ELSE Wrap(Wrap(display_value * 10) + DigitValue(c))
  /\ start_new_number' = FALSE
  /\ just_evaluated' = FALSE
  /\ IF just_evaluated THEN expr_buf' = <<c>> /\ cut' = FALSE ELSE expr_append(expr_buf, c)
  /\ UNCHANGED <<pending_value, pending_op, stuck>>

Clear ==
  /\ display_value' = 0 /\ pending_value' = 0 /\ pending_op' = ""
  /\ start_new_number' = TRUE /\ just_evaluated' = FALSE
  /\ expr_buf' = <<"0">> /\ cut' = FALSE
  /\ UNCHANGED stuck

Trapped == Traps(pending_value, display_value, pending_op)

Result == apply_op(pending_value, display_value, pending_op)

Equals ==
  IF Trapped THEN stuck' = TRUE /\ UNCHANGED <<numbers, just_evaluated, display>>
  ELSE /\ display_value' = Result
       /\ pending_op' = ""
       /\ start_new_number' = TRUE /\ just_evaluated' = TRUE
       /\ expr_buf' = itoa_dec(Result) /\ cut' = FALSE
       /\ UNCHANGED <<pending_value, stuck>>

AfterAnyOperator == pending_op # ""                     \* mutant: not only when doubled

\* Another operator straight after one.
Doubled == pending_op # "" /\ start_new_number

\* The doubled one takes the place of the last character of the text.
Operator(op) ==
  /\ just_evaluated' = FALSE
  /\ IF ~Doubled /\ Trapped THEN stuck' = TRUE /\ UNCHANGED <<numbers, display>>
     ELSE /\ display_value' = IF Doubled THEN display_value ELSE Result
          /\ pending_value' = display_value'
          /\ pending_op' = op
          /\ start_new_number' = TRUE
          /\ IF Doubled THEN expr_buf' = [expr_buf EXCEPT ![Len(expr_buf)] = op] /\ UNCHANGED cut
                        ELSE expr_append(expr_buf, op)
          /\ UNCHANGED stuck

on_button ==
  /\ ~stuck
  /\ pressed < MaxPresses /\ pressed' = pressed + 1
  /\ \/ \E c \in DigitKeys : Digit(c)
     \/ Clear
     \/ Equals
     \/ \E op \in Operators : Operator(op)

CalculatorSpec == CalculatorInit /\ [][on_button]_calculatorVars

-----------------------------------------------------------------------------
(* Properties.                                                             *)

\* Types; the text and its final 0 stay within expr_buf.
TextFits ==
  /\ display_value \in Int32 /\ pending_value \in Int32
  /\ pending_op \in Operators \cup {""}
  /\ {start_new_number, just_evaluated, cut, stuck} \subseteq BOOLEAN
  /\ Len(expr_buf) \in 1 .. BufSize - 1

\* What the first digits stand for, for each count of them.
Sums(digits) ==
  LET sum[i \in 0 .. Len(digits)] == IF i = 0 THEN 0 ELSE 10 * sum[i - 1] + DigitValue(digits[i])
  IN  sum

Decimal(digits) == Sums(digits)[Len(digits)]

Number(t) == Wrap(IF t[1] = "-" THEN -Decimal(Tail(t)) ELSE Decimal(t))

OpsUpTo(t, k) == {i \in 2 .. k : t[i] \in Operators}
LastOp(t, k) == CHOOSE i \in OpsUpTo(t, k) : \A j \in OpsUpTo(t, k) : j <= i

\* What the first characters of a text do: its operators taken from left to
\* right, whatever their precedence.
Values(t) ==
  LET value[k \in 1 .. Len(t)] ==
        IF OpsUpTo(t, k) = {} THEN Number(SubSeq(t, 1, k))
        ELSE apply_op(value[LastOp(t, k) - 1], Number(SubSeq(t, LastOp(t, k) + 1, k)), t[LastOp(t, k)])
  IN  value

Value(t) == Values(t)[Len(t)]

EndsInOperator(t) == Last(t) \in Operators

\* Numbers with one operator between them; the first may have a sign.
WellFormed(t) ==
  \A i \in DOMAIN t : t[i] \in Operators =>
    IF i = 1 THEN t[1] = "-" /\ Len(t) > 1 ELSE t[i - 1] \notin Operators

\* What is shown is what will be computed: after any keys the text, read
\* from left to right, has the value the next = would give, signs, overflows
\* and division by zero included, unless it was cut (calculator.cpp lines
\* 32-43, 69-93, 113-152).
TextTellsValue ==
  /\ TextFits
  /\ ~cut /\ ~stuck =>
       /\ WellFormed(expr_buf)
       /\ IF EndsInOperator(expr_buf)
          THEN /\ pending_op = Last(expr_buf) /\ start_new_number
               /\ display_value = pending_value /\ Value(Front(expr_buf)) = pending_value
          ELSE Value(expr_buf) = Result
=============================================================================
