\* One request at a time and no failures; three prices, two annexes.
SPECIFICATION Spec
CONSTANTS
  Request = {r1}
  Annex = {a1, a2}
  NoAnnex = NoAnnex
  Amount = {0, 2, 3}
  MaxEntries = 4
  MaxAmount = 9
  Op = {"quote", "annex", "accept", "webhook", "email"}
  Crashes = FALSE
  ReadFailures = FALSE
SYMMETRY Symmetry
INVARIANT TypeOK
INVARIANT AcceptedIsCharged
INVARIANT HistoryIsALedger
PROPERTY QuoteLeavesNothingPending
