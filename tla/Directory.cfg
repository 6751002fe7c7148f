SPECIFICATION Spec
CONSTANTS
  ann = ann
  tom = tom
  net = net
  block = block
  n1 = n1
  n2 = n2
  r1 = r1
  r2 = r2
  r3 = r3
  People = {ann, tom}
  Teachers = {tom}
  NoOne = noOne
  Keep = keep
  Blocks = {block}
  Names = {n1, n2}
  Categories = {net}
  Requests = {r1, r2, r3}
  Threads = 2
  MaxMissed = 1
  Seeded = seeded
  SeedCategories <- MCCategory
  SeedMappings <- MCMapping
  SeedStaff <- MCStaff
  Forms <- MCForms
  Blank <- MCBlank
SYMMETRY MCSymmetry
CHECK_DEADLOCK FALSE
INVARIANTS
  TypeOK
  RemovalTakesEffect
  AssignmentTakesEffect
  NoReferenceLost
  RowsKeepCategory
  NamesAreUnique
