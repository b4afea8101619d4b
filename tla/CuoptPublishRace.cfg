\* One publisher, no failing call: another program makes an empty output directory
\* between the second check and the rename.
SPECIFICATION Spec
CONSTANTS
  Publishers = {p1}
  NumFiles = 1
  MayFail = {}
PROPERTIES AppearedIsRefused
CHECK_DEADLOCK FALSE
