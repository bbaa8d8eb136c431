SPECIFICATION ConfigSpec
CONSTANTS
  Byte <- MCByte
  Cr = "cr"
  Lf = "lf"
  CtrlZ = "^Z"
  Zero = "0"
  Path <- MCPath
  Inode <- MCInode
  NoFile = NoFile
  RecSize = 2
  Name <- MCName
  ExtOf <- MCExtOf
  NoExt = ""
  TextExt = {"BAS"}
  BinaryExt = {"COM"}
  Lower <- MCLower
  AsIs <- MCAsIs
  Sibling <- MCSibling
  Control = {"^A"}
  HeuristicMin = 1
  HeuristicMax = 2
  Dir <- MCDir
  Absolute <- MCAbsolutes
  Creatable <- MCCreatable
  Expansion <- MCExpansion
  Configs <- MCConfigs
  Environs <- MCEnvirons
  Hosts <- MCHosts
  Home = "/h"
CHECK_DEADLOCK FALSE
INVARIANTS LookupFollowsFile DeviceIsLastNamed
