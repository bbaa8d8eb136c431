SPECIFICATION Spec
CONSTANTS
  x = x
  cr = cr
  lf = lf
  z = z
  zero = zero
  n1 = n1
  low = low
  i1 = i1
  i2 = i2
  Cr = cr
  Lf = lf
  CtrlZ = z
  Zero = zero
  NoFile = NoFile
  Closed = Closed
  NotOpen = NotOpen
  NoExt = NoExt
  Byte <- MCByte
  Name <- MCName
  Path <- MCPath
  Inode <- MCInode
  ExtOf <- MCExtOf
  TextExt = {"BAS"}
  BinaryExt = {"COM"}
  Lower <- MCLower
  AsIs <- MCLower
  Sibling <- MCSibling
  Mappings <- MCMappings
  Control = {}
  HeuristicMin = 20
  HeuristicMax = 512
  DefaultMode = "binary"
  DefaultEol = TRUE
  RecSize = 1
  FcbCount = 2
  Fd = {d1, d2}
  ReadOnly = {}
  CrMod = 1
  ExtentRecords = 1
  GuestFcb <- MCGuestFcb
  GuestDma <- MCGuestDma
  InitialDisk <- MCDisk
  InitialMap <- MCMap
  FileBound = 1
SYMMETRY MCSymmetry
INVARIANTS TypeOK HandleOwnership StreamShape
PROPERTIES OrphanOnlyByReopen ClosingWritesOut RandomWriteIsDurable FailureChangesNoFile
