SPECIFICATION Spec
CONSTANTS
  MaxRouter = 2
  Methods = {"GET"}
  Names <- MCNames
  RoutePaths <- MCRoutePaths
  MountPaths <- MCMountPaths
  Targets <- MCTargets
  MaxRegistrations = 4
CHECK_DEADLOCK FALSE
INVARIANTS
  TypeOK
  GuardsComeFirst
  RightHandler
  NotFoundIsHonest
  EachDeletedOnce
