\* Four nodes on four lists.
SPECIFICATION Spec
CONSTANTS
  N = 4
  Lists = {"free", "inUse", "waitReg", "toWake"}
  Free = "free"
INVARIANT BackwardsToo
PROPERTY Implements
