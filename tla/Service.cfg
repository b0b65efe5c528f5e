SPECIFICATION FairSpec
CONSTANTS
  m1 = m1  m2 = m2  b1 = b1  t1 = t1  s1 = s1  u1 = u1
  Models = {m1}
  Serialized = {m1}
  Faulty = {m1}
  GateUsers = {u1}
  BlockingRuns = {b1}
  TryRuns = {t1}
  Timed = {t1}
  Saves = {s1}
  ModelOf <- OneModel
  QueueCapacity = 2
  Free = Free
  NoCall = NoCall
  Shutdown = Shutdown
INVARIANTS
  NoLostCall
  StoppedMeansPanic
  OutcomeHonest
  ShutdownDrains
PROPERTIES
  ServiceImplemented
  CallsReturn
  AcceptedSettled
