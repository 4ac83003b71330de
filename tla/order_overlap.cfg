\* Two requests at a time; a read of the database may fail as well.
SPECIFICATION Spec
CONSTANTS
  Request = {r1, r2}
  Job = {j1}
  NoJob = NoJob
  Op <- AllOps
  Target <- ShortLine
  Body <- AnyBodies
  Crashes = TRUE
  ReadFailures = TRUE
SYMMETRY RequestSymmetry
PROPERTIES ReopenedOnlyByStaleWrite FinishedJobsSettle
