\* One request at a time; webhooks are lost, repeated and late; handlers die.
SPECIFICATION Spec
CONSTANTS
  Request = {r1}
  Doc = {d1, d2}
  NoDoc = NoDoc
  Content = {c1, c2}
  Op <- AllOps
  Crashes = TRUE
  ReadFailures = FALSE
SYMMETRY Symmetry
INVARIANT TypeOK
PROPERTIES EditLeavesNothingSigned OnlyWebhooksSignOldTerms
