\* Two publishers of two files.  In a world that is not calm every effect may fail,
\* processes die, and other programs take and free the output name.
SPECIFICATION FairSpec
CONSTANTS
  Publishers = {p1, p2}
  NumFiles = 2
  MayFail = {"stat", "stage", "open", "fill", "rename", "unlink", "rmdir", "heap"}
  Absent = Absent
  Foreign = Foreign
INVARIANTS PublishedComplete StageAccounted
PROPERTIES NeverReplaced Atomic SomeoneSucceeds NothingLeft
CHECK_DEADLOCK FALSE
