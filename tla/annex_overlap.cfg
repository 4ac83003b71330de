\* Two requests at a time; handlers die and writes fail.
SPECIFICATION Spec
CONSTANTS
  Request = {r1, r2}
  Annex = {a1}
  NoAnnex = NoAnnex
  Amount = {0, 1}
  MaxEntries = 3
  MaxAmount = 1
  Op = {"quote", "legacy", "annex", "accept", "webhook", "email", "patch"}
  Crashes = TRUE
  ReadFailures = FALSE
SYMMETRY Symmetry
PROPERTY SettledAnnexStays
