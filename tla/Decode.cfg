CONSTANTS
  Harts <- AllHarts
  Probes <- AllProbes
SPECIFICATION Spec
INVARIANTS
  OneMeaning
  CompressedAgrees
  FreeBitsRead
  LegalForXLEN
