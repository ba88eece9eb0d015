CONSTANTS
  Configurations <- ClaimConfigurations
  Skipping = {"write_1", "write_any", "always_dirty"}
  FRegs = {1}
  FRMs = {0, 5}
SPECIFICATION FPSpec
INVARIANTS
  DirtyReported
CHECK_DEADLOCK FALSE
