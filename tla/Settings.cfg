SPECIFICATION Spec
CONSTANTS
  Procs = {p1, p2}
  Tuis = {u}
  Tastes = {theme, effort}
  MaxFaults = 1
SYMMETRY Alike
INVARIANTS MarkersAreHonest
PROPERTIES OnlyStrangersUndo
