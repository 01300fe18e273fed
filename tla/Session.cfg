SPECIFICATION Spec
CONSTANTS
  Keys = {k1, k2}
  Prints = {p1, p2}
  Tuis = {u}
  Execs = {e1, e2}
  None = None
  MaxFaults = 2
SYMMETRY Alike
INVARIANTS MarkerTellsKey
PROPERTIES KeyAtAttach HeadroomAtAttach LoginIsRemoved
