CONSTANTS
  Threads = {t1, t2, t3}
  Value = {a, b}
  Size = 2
  None = None
SPECIFICATION Spec
SYMMETRY Symmetric
INVARIANTS
  TypeOK
  NoLostWakeup
PROPERTIES
  IsChannel
