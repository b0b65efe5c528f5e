SPECIFICATION Spec
CONSTANTS
  b1 = b1  b2 = b2  b3 = b3  tag1 = tag1  tag2 = tag2  mnn = mnn  shared = shared
  Builders = {b1, b2}
  Artifacts = {tag1}
  Sources = {}
  Wants <- SharedWants
  Files = {shared}
  FileOf <- SharedFiles
  AtStart = {"absent"}
  NoArtifact = NoArtifact
INVARIANTS
  SharingHarmless
