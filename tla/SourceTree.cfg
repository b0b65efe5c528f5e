SPECIFICATION Spec
CONSTANTS
  b1 = b1  b2 = b2  b3 = b3  tag1 = tag1  tag2 = tag2  mnn = mnn  shared = shared
  Builders = {b3}
  Artifacts = {mnn}
  Sources = {mnn}
  Wants <- SharedWants
  Files = {mnn}
  FileOf <- OwnFiles
  AtStart = {"absent"}
  NoArtifact = NoArtifact
INVARIANTS
  SourceComplete
