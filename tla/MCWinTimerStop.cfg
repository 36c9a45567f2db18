SPECIFICATION Spec
CONSTANTS
  Queues = {q1}
  Datas = {d1}
  Periods <- Periodic
  Epoch = 8
  MaxTime = 3
  MaxCalls = 2
  NoStart = NoStart
PROPERTIES
  NoSignalAfterStop
