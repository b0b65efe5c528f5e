SPECIFICATION AdapterSpec
CONSTANTS
  left = left  right = right  out1 = out1  out2 = out2
  MaxRank = 2
  Limit = 6
  WordMax = 31
  Models <- SomeModels
  Calls <- SomeCalls
  NoCall = NoCall
  AdapterCalls <- SomeAdapterCalls
  Results <- SomeResults
INVARIANTS
  LayersAgree
  NeverRejected
  DeclaredDimensions
  SliceFitsShape
