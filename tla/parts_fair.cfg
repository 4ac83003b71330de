\* One request or job at a time, fair scheduling, and jobs that try again.
CONSTANTS
  Parts = {"room", "account"}
  ReleaseRequest = {q1}
  MAX_ATTEMPTS = 1
  MaxCodes = 0
  MaxCalls = 0
  ReleaseTarget = {}
  ReleaseFailures = FALSE
  OtpRequest = {q1}
  OTP_ATTEMPTS = 1
  OTP_LIMIT = 1
  MaxOtps = 0
  OtpFailures = FALSE
  TfaRequest = {q1}
  TFA_ATTEMPTS = 1
  MaxTfa = 0
  TfaFailures = FALSE
  RoomRequest = {q1}
  Room = {x1}
  Seller = {seller}
  Agent = {agent}
  NoRoom = NoRoom
  NoOwner = NoOwner
  MaxRejoins = 1
  RoomFailures = TRUE
  Mail = {m1}
  Provider = {p1, p2}
  AreaRole = {role}
  NoRole = NoRole
  NoAccount = NoAccount
  NoMail = NoMail
  JobSlot = {q1}
  JOB_ATTEMPTS = 2
  MaxUsers = 2
  MaxJobs = 1
  AccountFailures = TRUE
SPECIFICATION FairSpec
CHECK_DEADLOCK FALSE
PROPERTIES
  ClosedRoomEndsSession
  SweepEndsTheRest
  DeletedUsersAreForgotten
