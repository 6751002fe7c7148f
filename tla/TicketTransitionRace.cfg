SPECIFICATION Spec
CONSTANTS
  r1 = r1
  r2 = r2
  r3 = r3
  k1 = k1
  Role <- MCRole
  ViewRole <- MCViewRole
  Dept <- MCDept
  Org <- MCOrg
  CatDept <- MCCatDept
  DefaultCA <- MCDefaultCA
  Aliases <- MCAliases
  Canon <- MCCanon
  DeptNames <- MCDeptNames
  NoDept = "noDept"
  NoUser = 0
  NoBlock = "noBlock"
  AllBlocks = "All Blocks"
  NoId = 0
  KeyOwner <- MCKeyOwner
  Selections <- MCOneTicket
  MaxAttempts = 3
  Users <- MCFewUsers
  Active <- MCFewUsers
  Categories = {"network"}
  Mappings <- MCFewMappings
  Blocks = {"All Blocks"}
  Keys = {}
  Ids = {1}
  Seeds <- MCOneSeed
  Requests = {r1, r2}
  Threads = 2
  MaxFaults = 0
PROPERTY
  TransitionsEnforced
