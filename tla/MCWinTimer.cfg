SPECIFICATION FairSpec
CONSTANTS
  Queues = {q1, q2}
  Datas = {d1, d2}
  Periods <- Periodic
  Epoch = 8
  MaxTime = 3
  MaxCalls = 3
  NoStart = NoStart
INVARIANTS
  TypeOK
  Lifetime
  OwnResult
PROPERTIES
  PostsAsStarted
  NeverEarly
  Returns
  KeepsFiring
