SPECIFICATION SearchSpec
CONSTANTS
  x = x
  cr = cr
  lf = lf
  z = z
  zero = zero
  n1 = n1
  n2 = n2
  low1 = low1
  low2 = low2
  up1 = up1
  up2 = up2
  mixed1 = mixed1
  i1 = i1
  i2 = i2
  Cr = cr
  Lf = lf
  CtrlZ = z
  Zero = zero
  NoFile = NoFile
  Closed = Closed
  NotOpen = NotOpen
  NoExt = NoExt
  Byte <- MCByte
  Name = {n1, n2}
  Path = {low1, low2, up1, up2, mixed1}
  Inode = {i1, i2}
  ExtOf <- MCExtOf
  TextExt = {"BAS"}
  BinaryExt = {"COM"}
  Lower <- MCLower
  AsIs <- MCAsIs
  Sibling <- MCSibling
  Mappings <- MCMappings
  Control = {}
  HeuristicMin = 20
  HeuristicMax = 512
  DefaultMode = "auto"
  DefaultEol = TRUE
  RecSize = 1
  FcbCount = 1
  Fd = {d1}
  ReadOnly = {}
  CrMod = 1
  ExtentRecords = 1
  GuestFcb = {}
  GuestDma = {}
  InitialDisk <- MCDisk
  InitialMap <- MCMap
  FileBound = 1
  Cwd = {low1, low2, up1, up2, mixed1}
  CpmName <- MCCpmName
  Valid = {low1, low2, up1, up2, mixed1}
  Blank = Blank
  Pattern83 <- MCPatterns
PROPERTIES EntryLeadsToFile ListingIsExact RenameMovesFile
