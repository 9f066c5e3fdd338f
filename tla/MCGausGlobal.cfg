SPECIFICATION Spec
CONSTANTS
  app = app
  lib = lib
  here = here
  there = there
  opt = opt
  None = None
  Users <- MCUsers
  Servers <- MCServers
  Options <- MCOptions
  MaxInits <- MCMaxInits
SYMMETRY UserSymmetry
INVARIANTS
  TypeOK
  CallsAreSafe
  CallsUseOneEnvironment
  SetUpIsBalanced
PROPERTIES
  EnvironmentIsConstant
