\* Three overlapping entries with a grain of 16 bytes, registers only: NA4 is
\* not selectable and addresses are read with the grain.
CONSTANTS
  PMP_registers = 3
  PMP_grain = 2
  entriesPerCFG = 4
  AddrBits = 3
  Privs = {{"R"}}
  WrittenModes = {"TOR", "NA4", "NAPOT"}
  LockedModes = {"TOR"}
  MissModes = {}
  MissWords = 0
  Artifact = {FALSE}
SPECIFICATION Spec
INVARIANTS
  RangeUniform
PROPERTIES
  LockedRegionFixed
