\* A change of price and the annex for it, one request at a time, nothing fails.
SPECIFICATION Spec
CONSTANTS
  Request = {r1}
  Annex = {a1, a2}
  NoAnnex = NoAnnex
  Amount = {2, 3}
  MaxEntries = 4
  MaxAmount = 9
  Op = {"quote", "annex", "accept", "webhook", "email"}
  Crashes = FALSE
  ReadFailures = FALSE
INVARIANT AcceptedAtTheQuotedPrice
