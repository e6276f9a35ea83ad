\* The instance of the padding run; stops at an eager draft step that counts no
\* real tokens.
SPECIFICATION Spec
CONSTANTS
  DpSize = 2
  AttnTp = 2
  Servers <- MCServers
  MaxRows = 2
  MaxExtend = 2
  MaxPrefix = 1
INVARIANTS CountReal
