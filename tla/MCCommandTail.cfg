SPECIFICATION ProcessSpec
CONSTANTS
  Argument <- MCArgument
  Regular <- MCRegular
  MaxArgs = 2
  Code = {g1, g2}
  Start = g1
  Boot = Boot
  Bdos = Bdos
  Bios = {"boot", "wboot", "conin", "disk", "other"}
  SaveFile = TRUE
  DiskMode = "error"
  StackMax = 3
  Limit = 4
  Ways = {"any", "waits", "lines", "asks", "direct"}
  Printable = {x}
  CtrlC = ctrlC
  CtrlU = ctrlU
  CtrlZ = ctrlZ
  Del = del
  Cr = cr
  Lf = lf
  Other = {tab}
  Nul = nul
  NoChar = noChar
  NoLine = noLine
  CtrlCExitCount = 3
  LineMax = {0, 3}
  Keys = {x, ctrlC, ctrlU, del, lf, tab}
  TypeBound = 4
INVARIANT TailKept
