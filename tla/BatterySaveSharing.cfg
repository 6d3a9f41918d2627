SPECIFICATION Spec
CONSTANTS
  Sessions = {s1, s2}
  Exporters = {e1}
  Contents = {c1, c2}
  NoFile = NoFile
  Empty = Empty
  Torn = Torn
  Unknown = Unknown
  MaxAccidents = 0
INVARIANTS MutualExclusion BaselinesAgree
PROPERTY TransactionsEnd
