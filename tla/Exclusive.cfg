\* Two harts, two granules and two data domains.
CONSTANTS
  Harts = {h1, h2}
  Granules = {g1, g2}
  Domains = {d1, d2}
  RISCV_NO_TAG = NoTag
  NoHart = NoHart
  xret_preserves_lr = TRUE
SYMMETRY Symmetry
SPECIFICATION Spec
INVARIANTS
  ReservationIntact
PROPERTIES
  CallbacksPairUp
