\* Every page, two things to select, one change of the page in flight.
SPECIFICATION Spec
CONSTANTS
  Items = {i1, i2}
  Pages <- AllPages
  Slots = {1}
  MaxAsks <- Asks
SYMMETRY Symmetry
INVARIANTS PanelTypeOK  NoForeignData
\* A page that failed to load waits until the user leaves it.
CHECK_DEADLOCK FALSE
