CONSTANTS
  Tasks = {1, 2, 3, 4}
  Priority <- Priorities
  Timeshare = {1, 2, 3}
  IdleTask = 4
  Careful = TRUE
SPECIFICATION DevicesSpec
INVARIANTS FilesKeepData BlocksOwnedOnce BytesInOrder DescriptorsSound
INVARIANTS WaitersWake ProcessesReaped CallsAgree BestTaskRuns NobodyLost
CHECK_DEADLOCK FALSE
