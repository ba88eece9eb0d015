\* Machine, Supervisor and User mode with the N extension, no Debug mode:
\* delegation down to User mode, every alias of the interrupt registers.
CONSTANTS
  Modes = {0, 1, 3}
  ISA_N = TRUE
  Interrupts = {0, 1}
  Exceptions = {9}
  debug_mode = "none"
  clears_MPRV = TRUE
  wfi_is_nop = FALSE
  HasVM = FALSE
  ArtifactWrites = {}
  Written = {"mstatus", "sstatus", "ustatus", "IE", "mie", "sie", "uie", "mip", "sip", "uip",
             "mideleg", "sideleg", "medeleg", "sedeleg"}
  Nets = {}
SPECIFICATION Spec
INVARIANTS
  NoLostInterrupt
  WFIOnlyWhenIdle
  PendingComposed
PROPERTIES
  TrapMasksOthers
