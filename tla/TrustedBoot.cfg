SPECIFICATION Spec
CONSTANTS
  Native = TRUE
  CSL_MAX = 40
  SA_MAX = 16
INVARIANTS
  TypeOK
  NormalWorldConfined
