\* A reconciliation, one deletion and one user at a time.
CONSTANTS
  Parts = {"account"}
  ReleaseRequest = {q1, q2}
  MAX_ATTEMPTS = 2
  MaxCodes = 2
  MaxCalls = 3
  ReleaseTarget = {"rejected_by_customer"}
  ReleaseFailures = TRUE
  OtpRequest = {q1, q2}
  OTP_ATTEMPTS = 2
  OTP_LIMIT = 2
  MaxOtps = 3
  OtpFailures = TRUE
  TfaRequest = {q1, q2}
  TFA_ATTEMPTS = 2
  MaxTfa = 3
  TfaFailures = TRUE
  RoomRequest = {q1, q2}
  Room = {x1, x2}
  Seller = {seller}
  Agent = {agent}
  NoRoom = NoRoom
  NoOwner = NoOwner
  MaxRejoins = 1
  RoomFailures = TRUE
  Mail = {m1}
  Provider = {p1}
  AreaRole = {role}
  NoRole = NoRole
  NoAccount = NoAccount
  NoMail = NoMail
  JobSlot = {q1}
  JOB_ATTEMPTS = 1
  MaxUsers = 1
  MaxJobs = 1
  AccountFailures = TRUE
SPECIFICATION Spec
CHECK_DEADLOCK FALSE
PROPERTY
  ReconcileDeletesOnlyDrift
