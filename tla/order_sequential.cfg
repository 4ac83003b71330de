\* One request at a time; every handler; handlers may die between two steps.
SPECIFICATION Spec
CONSTANTS
  Request = {r1}
  Job = {j1, j2}
  NoJob = NoJob
  Op <- MountedOps
  Target <- MainLine
  Body <- LineBodies
  Crashes = TRUE
  ReadFailures = FALSE
INVARIANTS TypeOK ResumeIsLegal OneActiveTransport
PROPERTIES ImplementsLifecycle EditsStopAtPickup SalesOnlyReleases OnlyEditsForgetHold
