\* Every program under every budget, where any allocation may fail.
SPECIFICATION Spec
CONSTANTS
  Programs <- MCPrograms
  Polls = {0, 1, 2, Unlimited, Callback}
  Unlimited = Unlimited
  Callback = Callback
  MaxBlocks = 8
  Build <- Combine
INVARIANTS RunsAsMeant NoneReadAfterRelease EachReleasedOnce
PROPERTIES Ends
CHECK_DEADLOCK FALSE
