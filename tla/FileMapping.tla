----------------------------- MODULE FileMapping -----------------------------
(***************************************************************************)
(* How a CP/M file name becomes a Unix path: match_pattern,                *)
(* detect_file_mode, is_text_file_heuristic and find_unix_file_ex of       *)
(* src/src/cpmemu.cc.  A name and a path are opaque values; the functions  *)
(* below say which path the code builds from a name.                       *)
(***************************************************************************)
EXTENDS TextConversion

CONSTANTS
  Name,           \* normalised CP/M names
  ExtOf,          \* ExtOf[n]: the extension of name n, or NoExt
  NoExt,
  TextExt,        \* .BAS .MAC .ASM .TXT .DOC .LST .PRN
  BinaryExt,      \* .COM .EXE .OVL .OVR .SYS .BIN .DAT
  Lower,          \* Lower[n]: n in lower case, in the current directory
  AsIs,           \* AsIs[n]: n in upper case, in the current directory
  Sibling,        \* Sibling[p][n]: n in lower case, in the directory of p
  Mappings,       \* file_mappings: the configuration's mappings, in order
  Control,        \* the bytes is_text_file_heuristic counts as control characters
  HeuristicMin,   \* the size up to which a file always looks like text: 20
  HeuristicMax,   \* how many of its bytes is_text_file_heuristic reads: 512
  DefaultMode,    \* default_mode
  DefaultEol      \* default_eol_convert

Ext == {ExtOf[n] : n \in Name}

Pattern == [kind : {"exact"}, name : Name] \cup [kind : {"ext"}, ext : Ext]
             \cup [kind : {"any"}]

ASSUME MappingAssumption ==
  /\ ExtOf \in [Name -> Ext] /\ TextExt \cap BinaryExt = {}
  /\ NoExt \notin TextExt \cup BinaryExt
  /\ Lower \in [Name -> Path] /\ AsIs \in [Name -> Path]
  /\ Sibling \in [Path -> [Name -> Path]]
  /\ Mappings \in Seq([pattern : Pattern, path : Path, mode : Mode, eol : BOOLEAN])
  /\ Control \subseteq Byte \ {Cr, Lf, CtrlZ} /\ HeuristicMin \in Nat /\ HeuristicMax \in Nat
  /\ DefaultMode \in Mode /\ DefaultEol \in BOOLEAN

\* file_map; NoFile where it has no entry.
FileMap == [Name -> Path \cup {NoFile}]

MatchPattern(pattern, n) ==
  \/ pattern.kind = "any"
  \/ pattern.kind = "exact" /\ pattern.name = n
  \/ pattern.kind = "ext" /\ pattern.ext = ExtOf[n] /\ ExtOf[n] # NoExt

LooksLikeText(bytes) ==
  LET nread    == AtMost(Len(bytes), HeuristicMax)
      controls == Cardinality({k \in 1..nread : bytes[k] \in Control})
  IN  ~(nread > HeuristicMin /\ controls * 20 > nread)

DetectFileMode(n, p, dir, data) ==
  CASE ExtOf[n] \in TextExt   -> "text"
    [] ExtOf[n] \in BinaryExt -> "binary"
    [] OTHER -> IF Exists(dir, p) /\ LooksLikeText(data[dir[p]]) THEN "text" ELSE "binary"

\* The first mapping whose pattern matches n and whose path exists, if there is one.
Applies(i, n, dir) == MatchPattern(Mappings[i].pattern, n) /\ Exists(dir, Mappings[i].path)

Mapped(n, dir) == \E i \in DOMAIN Mappings : Applies(i, n, dir)

FirstMapping(n, dir) ==
  Mappings[CHOOSE i \in DOMAIN Mappings :
             Applies(i, n, dir) /\ \A j \in 1..(i - 1) : ~Applies(j, n, dir)]

FindPath(n, dir, fileMap) ==
  IF Mapped(n, dir) THEN FirstMapping(n, dir).path
  ELSE IF fileMap[n] # NoFile THEN fileMap[n]
  ELSE IF Exists(dir, Lower[n]) THEN Lower[n]
  ELSE IF Exists(dir, AsIs[n]) THEN AsIs[n] ELSE NoFile

\* find_unix_file_ex: path NoFile stands for the empty string.
FindUnixFileEx(n, dir, data, fileMap) ==
  LET path     == FindPath(n, dir, fileMap)
      detected == DetectFileMode(n, path, dir, data)
  IN  IF Mapped(n, dir)
      THEN LET m == FirstMapping(n, dir)
           IN  [path |-> path, eol |-> m.eol,
                mode |-> IF m.mode = "auto" THEN detected ELSE m.mode]
      ELSE [path |-> path, eol |-> DefaultEol,
            mode |-> IF path = NoFile THEN "auto" ELSE detected]
=============================================================================
