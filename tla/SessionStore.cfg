SPECIFICATION FairSpec
CONSTANTS
  a = a
  b = b
  p = p
  q = q
  None = None
  Keys = {a, b}
  Processes = {p, q}
  Texts <- AllTexts
  Legacy <- OneSession
  Ops <- Mixed
  Faults = {"crash", "write error"}
  MaxOps = 3
  MaxCrashes = 1
INVARIANTS TypeOK Durable
PROPERTIES Implements Returns
CHECK_DEADLOCK FALSE
