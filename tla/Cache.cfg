SPECIFICATION Spec
CONSTANTS
  b1 = b1  b2 = b2  b3 = b3  tag1 = tag1  tag2 = tag2  mnn = mnn  shared = shared
  Builders = {b1, b2, b3}
  Artifacts = {tag1, mnn}
  Sources = {mnn}
  Wants <- SharedWants
  Files = {shared, mnn}
  FileOf <- SharedFiles
  AtStart = {"absent", "corrupt", "pinned"}
  NoArtifact = NoArtifact
INVARIANTS
  UnpacksVerified
  PrebuiltComplete
PROPERTIES
  ArchiveNeverSpoiled
