SPECIFICATION Spec
CONSTANTS
  Thread = {t1}
  Pin = {0, 1}
  Index = {0, 1}
PROPERTIES
  SuccessMeansSet
