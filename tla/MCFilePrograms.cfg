SPECIFICATION ClientsSpec
CONSTANTS
  x = x
  cr = cr
  lf = lf
  z = z
  zero = zero
  n1 = n1
  n2 = n2
  n3 = n3
  p2 = p2
  p3 = p3
  i2 = i2
  Clients = {"copy", "index", "save"}
  Lengths = {0, 1, 6, 23, 25}
  TextBound = 10
  Indexed = n3
  EntryBound = 3
  Saved = n1
  Documents <- MCDocuments
  Source = n1
  Target = n2
  SourceByte = {x, cr, lf, z}
  SourceBound = 4
  p1 = p1
  i1 = i1
  Cr = cr
  Lf = lf
  CtrlZ = z
  Zero = zero
  NoFile = NoFile
  Closed = Closed
  NotOpen = NotOpen
  NoExt = NoExt
  Byte <- MCByte
  Name = {n1, n2, n3}
  Path = {p1, p2, p3}
  Inode = {i1, i2}
  ExtOf <- MCExtOf
  TextExt = {"BAS"}
  BinaryExt = {"DAT"}
  Lower <- MCLower
  AsIs <- MCLower
  Sibling <- MCSibling
  Mappings <- MCMappings
  Control = {}
  HeuristicMin = 20
  HeuristicMax = 512
  DefaultMode = "auto"
  DefaultEol = TRUE
  RecSize = 3
  FcbCount = 2
  Fd = {d1, d2}
  ReadOnly = {}
  CrMod = 8
  ExtentRecords = 4
  GuestFcb = {}
  GuestDma = {}
  InitialDisk <- MCDisk
  InitialMap <- MCMap
  FileBound = 25
INVARIANTS CopyIsExact IndexFindsRecord SaveIsExact
PROPERTY CopyEnds
