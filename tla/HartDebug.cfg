\* Debug mode with debug_mode "halt" and the two translation contexts: halt
\* requests, program buffer, resume, single step and reset, with a debugger
\* that writes DMStall, over every write of MPRV, MPP, satp and dcsr.
CONSTANTS
  Modes = {1, 3}
  ISA_N = FALSE
  Interrupts = {}
  Exceptions = {2}
  debug_mode = "halt"
  clears_MPRV = FALSE
  wfi_is_nop = FALSE
  HasVM = TRUE
  ArtifactWrites = {"DMStall"}
  Written = {"mstatus", "MPP", "MPRV", "satp", "dcsr", "step", "mprven", "prv", "medeleg"}
  Nets = {"reset", "haltreq", "resethaltreq"}
SPECIFICATION Spec
INVARIANTS
  RunStateAgrees
  DebugStateAgrees
  CodeModeTracksSatp
PROPERTIES
  NestedEntryKeepsResumeState
  
  PrivilegeGuarded
