\* Two requests, handlers or jobs at a time in each component.
CONSTANTS
  Parts = {"release", "portal", "twofactor", "room", "account"}
  ReleaseRequest = {q1, q2}
  MAX_ATTEMPTS = 2
  MaxCodes = 2
  MaxCalls = 3
  ReleaseTarget = {"rejected_by_customer"}
  ReleaseFailures = TRUE
  OtpRequest = {q1, q2}
  OTP_ATTEMPTS = 2
  OTP_LIMIT = 2
  MaxOtps = 3
  OtpFailures = TRUE
  TfaRequest = {q1, q2}
  TFA_ATTEMPTS = 2
  MaxTfa = 3
  TfaFailures = TRUE
  RoomRequest = {q1, q2}
  Room = {x1, x2}
  Seller = {seller}
  Agent = {}
  NoRoom = NoRoom
  NoOwner = NoOwner
  MaxRejoins = 1
  RoomFailures = TRUE
  Mail = {m1}
  Provider = {p1}
  AreaRole = {role}
  NoRole = NoRole
  NoAccount = NoAccount
  NoMail = NoMail
  JobSlot = {q1, q2}
  JOB_ATTEMPTS = 1
  MaxUsers = 2
  MaxJobs = 2
  AccountFailures = TRUE
SPECIFICATION Spec
SYMMETRY Symmetry
CHECK_DEADLOCK FALSE
INVARIANTS
  PartsTypeOK
  CodeOpensOnce
  SentCodeWasMailed
  UsedCodeWasAccepted
  UsedUpOnlyByFailure
  WrongTriesLock
  LiveCodesAreFew
  LiveCodeWasMailed
  SecondRoomIsALeftover
  EndIsLoggedOnce
  LeftoversAreExplained
  RolesAgree
PROPERTIES
  IssuesAreLimited
  OtpLimitsHold
  TfaLimitsHold
  RowsOnlyMoveForward
  UsersKeepTheirAccounts
