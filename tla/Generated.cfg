CONSTANTS
  VLENB = 4
  SEW_min = 16
  ELEN = 32
  VSEWs = {0, 1, 2}
  VLMULs = {1}
  AVLs = {0, 9}
  VStarts = {0, 2}
  VRegs = {0, 1}
  RunVersions = {0, 7}
  Configurations <- MCConfigurations
  Skipping = {"write_1", "always_dirty"}
  FRegs = {1}
  FRMs = {0, 5}
  XLEN = 8
  WORD = 4
  BYTE = 2
  SEW = 4
  EXP = 2
  FRAC = 2
  Values = {0, 1, 7, 8, 127, 128, 250, 255}
  Accumulators = {0, 120, 127, 128, 250, 255}
  JumpTargets = {4, 6}
SPECIFICATION GeneratedSpec
INVARIANTS
  TranslationCurrent
  
  FPKnowledgeTrue
  DirtyReported
  ArchCurrent
  ScalarCorrect
  ElementCorrect
