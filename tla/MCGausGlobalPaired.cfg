SPECIFICATION Spec
CONSTANTS
  app = app
  lib = lib
  here = here
  there = there
  opt = opt
  None = None
  Users <- MCUsers
  Servers <- MCServers
  Options <- MCOptions
  MaxInits <- MCOneInit
SYMMETRY UserSymmetry
INVARIANT PairedUserIsServed
