SPECIFICATION Spec
CONSTANTS
  v1 = v1
  v2 = v2
  roles = roles
  users = users
  probe = probe
  column = column
  roles0 = roles0
  roles1 = roles1
  roles2 = roles2
  roles7 = roles7
  users1 = users1
  users2 = users2
  probe1 = probe1
  column1 = column1
  Runners = {r1, r2}
  NoRunner = noRunner
  Files = {1, 7, 8}
  Versions = {v1, v2}
  Absent = absent
  Objects = {roles, users, probe, column}
  Effects = {roles0, roles1, roles2, roles7, users1, users2, probe1, column1}
  Object <- MCObject
  Mode <- MCMode
  Found <- MCFound
  Up <- MCUp
  Down <- MCDown
  NoDown = noDown
  NoTarget = noTarget
  Baseline = {1}
  Commands <- MCCommands
  OnDisk <- MCOnDisk
  MaxStarts = 3
  MaxEdits = 1
  MaxLosses = 1
CHECK_DEADLOCK FALSE
INVARIANTS
  TypeOK
  OneWriter
  SnapshotIsCurrent
  TrackedMeansApplied
  FullUpInOrder
PROPERTIES
  LockIsFreed
  UpCompletes
