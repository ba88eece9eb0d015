CONSTANTS
  VPN_SHIFT = 1
  VABits = 1
  Tables = {0, 1}
  ROTables = {}
  PTEs <- MCPTEs32
  PTEWrites <- MCWrites32
  Mem0 <- MCMem32
  Sv_modes = {0, 1}
  ASID_bits = 1
  updatePTEA = TRUE
  updatePTED = TRUE
  priv_1_11 = TRUE
  unified = TRUE
  vmiPageMax = 2
  MissVAs = {0}
  MissPages = 2
  MaxEntries = 4
  Statuses <- MCStatus
  Artifact = {FALSE}
  Roots = {0}
  Saves = {1}
SPECIFICATION Spec
INVARIANTS
  AliasesAccounted
PROPERTIES
  ImplementsTranslation
  MissResolves
