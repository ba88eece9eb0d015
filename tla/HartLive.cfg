\* Interrupts, the NMI and reset inputs, WFI and single step against Debug
\* mode entries and exits, under the fairness of the simulator's own promises.
CONSTANTS
  Modes = {0, 3}
  ISA_N = FALSE
  Interrupts = {7}
  Exceptions = {2}
  debug_mode = "halt"
  clears_MPRV = TRUE
  wfi_is_nop = FALSE
  HasVM = FALSE
  ArtifactWrites = {"DM", "DMStall"}
  Written = {"mstatus", "IE", "mie", "dcsr", "step", "ebreak"}
  Nets = {"nmi", "reset"}
SPECIFICATION FairSpec
PROPERTIES
  InterruptServed
  StepCompletes
