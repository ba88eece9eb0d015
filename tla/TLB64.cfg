CONSTANTS
  VPN_SHIFT = 1
  VABits = 5
  Tables = {0}
  ROTables = {0}
  PTEs <- MCPTEs64
  PTEWrites <- MCWrites64
  Mem0 <- MCMem64
  Sv_modes = {0, 8, 9}
  ASID_bits = 0
  updatePTEA = TRUE
  updatePTED = TRUE
  priv_1_11 = TRUE
  unified = FALSE
  vmiPageMax = 2
  MissVAs = {3}
  MissPages = 2
  MaxEntries = 2
  Statuses <- MCStatuses
  Artifact = {FALSE, TRUE}
  Roots = {0}
  Saves = {}
SPECIFICATION Spec
PROPERTIES
  ImplementsTranslation
