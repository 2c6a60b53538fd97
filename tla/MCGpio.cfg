SPECIFICATION Spec
CONSTANTS
  Thread = {t1, t2}
  Pin = {0, 1}
  Index = {0, 7, 33}
INVARIANTS
  TypeOK
  MaskIsCurrent
PROPERTIES
  WriteDisturbsOnly
