SPECIFICATION Spec
CONSTANTS
  Thread = {Boot, wm}
  Boot = Boot
  Char <- MCChar
  NUL = NUL
  MAX_COMMAND_LEN = 3
  SleepLines <- MCSleepLines
  StartLines <- MCStartLines
  MaxKeys = 6
INVARIANT MasksBack
CHECK_DEADLOCK FALSE
