\* Two publishers of two artifacts; every call may fail.
SPECIFICATION Spec
CONSTANTS
  Publishers = {p1, p2}
  NumFiles = 2
  MayFail = {"mkdir", "temporary", "open", "fill", "rename", "rmtree"}
INVARIANTS TemporaryRemoved
PROPERTIES ContentsKept Atomic
CHECK_DEADLOCK FALSE
