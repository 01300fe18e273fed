SPECIFICATION Spec
CONSTANTS
  Procs = {t1, t2}
  Launchers = {t1}
  Keys = {"LOADOUT", "EFFORT", "BATCH", "STACKS", "SKILLS"}
  x = x
  y = y
  Values = {x, y}
  None = None
  Lost = Lost
  Options <- TwoStacks
  Bare <- NothingToChoose
  Asked <- ToChoose
  Files <- FirstFiles
  First <- FirstImages
  MaxEvents = 2
INVARIANTS SavedIsKept
PROPERTIES LaunchIsOfOneTune RecreateIsForeseen SessionHasStacks
CHECK_DEADLOCK FALSE
