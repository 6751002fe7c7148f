SPECIFICATION Spec
CONSTANTS
  ann = ann
  tom = tom
  net = net
  block = block
  n1 = n1
  n2 = n2
  r1 = r1
  r2 = r2
  r3 = r3
  People = {ann, tom}
  Teachers = {tom}
  NoOne = noOne
  Keep = keep
  Blocks = {block}
  Names = {n1, n2}
  Categories = {net}
  Requests = {r1}
  Threads = 1
  MaxMissed = 1
  Seeded = seeded
  SeedCategories <- MCCategory
  SeedMappings <- MCBoth
  SeedStaff <- MCStaff
  Forms <- MCDemotions
  Blank <- MCBlank
CHECK_DEADLOCK FALSE
INVARIANT
  DemotionClears
