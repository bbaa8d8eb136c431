SPECIFICATION WorldsSpec
CONSTANTS
  x = x
  cr = cr
  lf = lf
  z = z
  zero = zero
  textFile = textFile
  rawFile = rawFile
  p2 = p2
  i2 = i2
  p1 = p1
  i1 = i1
  Cr = cr
  Lf = lf
  CtrlZ = z
  Zero = zero
  NoFile = NoFile
  Closed = Closed
  NotOpen = NotOpen
  NoExt = NoExt
  Byte <- MCByte
  Name = {textFile, rawFile}
  Path = {p1, p2}
  Inode = {i1, i2}
  ExtOf <- MCExtOf
  TextExt = {"BAS"}
  BinaryExt = {"COM"}
  Lower <- MCLower
  AsIs <- MCLower
  Sibling <- MCSibling
  Mappings <- MCMappings
  Control = {}
  HeuristicMin = 20
  HeuristicMax = 512
  DefaultMode = "binary"
  DefaultEol = TRUE
  RecSize = 2
  FcbCount = 1
  Fd = {d1, d2}
  ReadOnly = {}
  CrMod = 1
  ExtentRecords = 1
  GuestFcb <- MCGuestFcb
  GuestDma <- MCGuestDma
  InitialDisk <- MCDisk
  InitialMap <- MCMap
  FileBound = 4
SYMMETRY MCSymmetry
INVARIANT WindowFresh
PROPERTY DirectSpec
