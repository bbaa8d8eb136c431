SPECIFICATION ProcessorSpec
CONSTANTS
  Modes = {"z80", "8080"}
  Unset = {255}
  TextAt = 768
  Leaders <- AllLeaders
  Follower <- NearTail
  Operand <- HereOperand
  Seconds <- Probes
  Chains <- TwoChains
  Repeats = {1, 513}
  BlockTexts <- RepeatedTexts
  Area <- SixBytes
  Sources = {0, 2, 4, 65534}
  Destinations = {0, 1, 3, 4, 65535}
  Counts = {1, 2, 3, 5, 40}
  Sought = {9, 11, 13}
  Phrases <- StackPhrases
  Length = 4
  Routines <- TwoRoutines
  Bases = {2, 40001}
  Cells = 65533
  Operands = {0, 1, 8, 15, 16, 127, 128, 255}
  Digits = {0, 5, 9}
  Corners = {0, 1, 255, 32767, 32768, 65535}
  Multipliers = {0, 1, 2, 85, 127, 128, 170, 255}
  Scratch = {8, 9, 12, 13}
  Outer <- OuterPairs
  Inner <- InnerPairs
  Values = {18, 227}
  Stacks = {2, 50001}
  DiskModes = {"ok", "error"}
  Programs <- MCPrograms
INVARIANTS
  ModesAgree LastLeaderWins ArithmeticIsExact NumbersAreExact BlockIsExact UndoRestores
PROPERTIES WordStackSpec SystemCallsSpec
