SPECIFICATION MCSpec
CONSTANTS
  Width = 8
  Height = 7
  TITLEBAR_H = 2
  CLOSE_MARGIN = 0
  CURSOR_W = 2
  CURSOR_H = 2
  MAX_WINDOWS = 4
  MAX_TASKS = 3
  Terminal <- MCTerminal
  Calculator <- MCCalculator
  XEyes <- MCXEyes
  Buttons <- MCButtons
  StartX = 2
  StartY = 2
  Packets <- MCPackets
  MaxPackets = 2
  MaxKeys = 3
  MaxStarts = 2
  Handles = 2
  FileSize = 3
  ChunkSize = 2
  Descriptors = 2
  MaxEvents = 2
  Framebuffer = "framebuffer"
  Terminals = {"first", "second"}
  Columns <- MCColumns
  Rows <- MCRows
  Glyphs <- MCGlyphs
  Letters = {"a"}
  NoGlyph = "tab"
  Prompt <- MCPrompt
  Outputs <- MCOutputs
  MaxLine = 3
  MaxCommands = 2
  Units <- MCUnits
  Lines <- MCLines
  MAX_COMMAND_LEN = 6
  Digits <- MCDigits
  WordSize = 128
  DriveSize = 32
  TicksPerSecond = 3
  MaxLines = 3
  DigitKeys = {"0", "4", "7"}
  Operators = {"+", "-", "*", "/"}
  Half = 8
  BufSize = 5
  MaxPresses = 6
  WinW = 160
  WinH = 100
  EyeR = 22
  PupilR = 7
  MouseXs <- MCMouseXs
  MouseYs <- MCMouseYs
  MaxFrames = 1
INVARIANTS
  TypeOK
  PictureKept
  GrabsWhatIsSeen
  OneKeyPerClick
  HandsOver
  TextTellsValue
  PupilsLook
  ScreenShowsText
  HandedAsTyped

  
