SPECIFICATION CharactersSpec
CONSTANTS
  Byte <- MCByte
  Cr = 13
  Lf = 10
  CtrlZ = 26
  Zero = 0
  Path = {"p"}
  Inode = {1, 2, 3}
  NoFile = NoFile
  RecSize = 4
  InputBound = 5
  Closed = Closed
  Yes = 255
  Low7 <- MCLow7
  Outputs <- MCOutputs
  Hosts <- MCHosts
  Setups <- MCSetups
  CallBound = 5
CHECK_DEADLOCK FALSE
INVARIANTS BufferBound FileIsWhatWasSent ReaderGivesFile
PROPERTY LoopsCompute
