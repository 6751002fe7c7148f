SPECIFICATION FairSpec
CONSTANTS
  r1 = r1
  r2 = r2
  r3 = r3
  k1 = k1
  Role <- MCRole
  ViewRole <- MCViewRole
  Dept <- MCDept
  Org <- MCOrg
  CatDept <- MCCatDept
  DefaultCA <- MCDefaultCA
  Aliases <- MCAliases
  Canon <- MCCanon
  DeptNames <- MCDeptNames
  NoDept = "noDept"
  NoUser = 0
  NoBlock = "noBlock"
  AllBlocks = "All Blocks"
  NoId = 0
  KeyOwner <- MCKeyOwner
  Selections <- MCSelections
  MaxAttempts = 3
  Users <- MCUsers
  Active <- MCUsers
  Categories <- MCCategories
  Mappings <- MCMappings
  Blocks <- MCBlocks
  Keys = {k1}
  Ids = {1, 2, 3}
  Seeds <- MCLiftSeed
  Requests = {r1, r2}
  Threads = 2
  MaxFaults = 1
INVARIANTS
  TypeOK
  OneTicketPerSubmission
  AssigneeInDepartment
  AuditedReassignIsComplete
PROPERTY
  ImplementsStaleBoard
  ResolvedIsAnnounced
  RequestsEnd
