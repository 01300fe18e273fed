SPECIFICATION Spec
CONSTANTS
  Procs = {p1, p2}
  Tuis = {u}
  Tastes = {effort}
  MaxFaults = 0
INVARIANT TuneIsApplied
