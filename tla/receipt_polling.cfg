\* One request at a time and fair scheduling; webhooks are lost, repeated and late.
SPECIFICATION FairSpec
CONSTANTS
  Request = {r1}
  Doc = {d1}
  NoDoc = NoDoc
  Content = {c1, c2}
  Op <- AllOps
  Crashes = FALSE
  ReadFailures = FALSE
PROPERTY PollMakesUpForWebhooks
