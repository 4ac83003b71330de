\* One document is sent and signed, one request at a time, nothing fails.
SPECIFICATION FairSpec
CONSTANTS
  Request = {r1}
  Doc = {d1}
  NoDoc = NoDoc
  Content = {c1}
  Op = {"send", "webhook", "poll"}
  Crashes = FALSE
  ReadFailures = FALSE
PROPERTY PollShowsTheRealStatus
