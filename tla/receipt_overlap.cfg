\* Two requests at a time; handlers die and reads fail.
SPECIFICATION Spec
CONSTANTS
  Request = {r1, r2}
  Doc = {d1}
  NoDoc = NoDoc
  Content = {c1, c2}
  Op = {"send", "paper", "invalidate", "edit", "webhook", "poll"}
  Crashes = TRUE
  ReadFailures = TRUE
SYMMETRY Symmetry
INVARIANT StatusIsEarned
PROPERTY ForgottenIsForever
