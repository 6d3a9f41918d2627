SPECIFICATION Spec
CONSTANTS
  Sessions = {s1}
  Exporters = {e1}
  Contents = {c1, c2}
  NoFile = NoFile
  Empty = Empty
  Torn = Torn
  Unknown = Unknown
  MaxAccidents = 1
SYMMETRY ActorSymmetry
INVARIANTS SaveIsWhole NothingLeftBehind
PROPERTIES BackupFirst OrphanedLockFreezes RegisterSpec
