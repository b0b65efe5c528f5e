SPECIFICATION InferenceSpec
CONSTANTS
  r1 = r1
  r2 = r2
  r3 = r3
  small = small
  large = large
  v1 = v1
  v2 = v2
  InputCount = 2
  Shapes = {small, large}
  Values = {v1, v2}
  Invalid = Invalid
  Unresolved = Unresolved
  Garbage = Garbage
  Requests = {r1, r2, r3}
  ShapeOf <- Shape
  ValueOf <- Value
  OrderOf <- Order
  NoRequest = NoRequest
INVARIANTS
  OwnOutputs
  HealthyRunsSucceed
