SPECIFICATION Spec
CONSTANTS
  b1 = b1  b2 = b2  b3 = b3  tag1 = tag1  tag2 = tag2  mnn = mnn  shared = shared
  Builders = {b1}
  Artifacts = {tag1, tag2}
  Sources = {}
  Wants <- AnyWants
  Files = {tag1, tag2}
  FileOf <- OwnFiles
  AtStart = {"absent"}
  NoArtifact = NoArtifact
INVARIANTS
  PrebuiltComplete
