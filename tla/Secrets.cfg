SPECIFICATION Spec
CONSTANTS
  Old = t1
  Tokens = {t1, t2}
  Requests = {r1, r2}
  Tuis = {u}
  Serve = serve
  None = None
  Blank = Blank
  MaxFaults = 2
SYMMETRY Alike
INVARIANTS ToldIsStored LateRefusalsBounded
PROPERTIES MoveKeepsACopy
