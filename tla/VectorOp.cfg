CONSTANTS
  VLEN = 64
  SLEN = 32
  GRAN = 4
  Instructions <- MCInstructions
  Settings <- MCSettings
  MaxFaults = 2

SPECIFICATION Spec

INVARIANTS
  SourcesIntact
  BodyExact
  TailZeroed
  ProcessedOnce
  FaultOnlyFirst
  LanesAligned
PROPERTIES
  Completes
