SPECIFICATION Spec
CONSTANTS
  Targets <- SomeTargets
  FeatureSets <- SomeFeatureSets
  Environments <- SomeEnvironments
  Inferences <- SomeInferences
INVARIANTS
  ProfileAsDocumented
  LinksComplete
  RequestedUsable
  ConfigAccepted
