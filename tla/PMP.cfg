\* Two entries, of Machine mode and of the modes below it, with misses over
\* ranges of up to all words; every write is an artifact access, which reaches
\* locked entries too.
CONSTANTS
  PMP_registers = 2
  PMP_grain = 0
  entriesPerCFG = 4
  AddrBits = 2
  Privs = {{"R"}}
  WrittenModes = {"TOR", "NAPOT"}
  LockedModes = {"TOR"}
  MissModes = {"S", "M"}
  MissWords = 4
  Artifact = {TRUE}
SPECIFICATION Spec
PROPERTIES
  WritesInvalidate
  MissMapsRange
