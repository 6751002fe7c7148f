SPECIFICATION Spec
CONSTANTS
  ann = ann
  bob = bob
  lan = lan
  wan = wan
  w1 = w1
  w2 = w2
  r1 = r1
  r2 = r2
  r3 = r3
  Accounts = {ann, bob}
  Networks = {lan, wan}
  Workers = {w1, w2}
  Requests = {r1, r2, r3}
  Threads = 2
  MaxUser = 1
  MaxNetwork = 1
  MaxLocal = 1
  MaxSends = 2
  MaxCrashes = 1
  Forms <- MCForms
  Blank <- MCBlank
SYMMETRY MCSymmetry
CHECK_DEADLOCK FALSE
INVARIANTS
  TypeOK
  AccountIsBounded
  NetworkIsBounded
  SuccessClears
