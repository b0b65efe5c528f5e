SPECIFICATION Spec
CONSTANTS
  m1 = m1
  m2 = m2
  v1 = v1
  v2 = v2
  Models <- SomeModels
  Setups <- SomeSetups
  Versions <- SomeVersions
  MaxRestarts = 1
  MaxObstructed = 1
  Compiled <- SomeCompiled
  Registered <- SomeRegistered
SYMMETRY VersionSymmetry
INVARIANTS
  TypeOK
  OwnKernels
  NothingForgotten
  CacheExclusion
  GpuModeDocumented
PROPERTIES
  SaveReported
  ThreadBudget
