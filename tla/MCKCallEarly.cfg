SPECIFICATION AnyTimeSpec
CONSTANTS
  l1 = l1
  l2 = l2
  k1 = k1
  k2 = k2
  k3 = k3
  a1 = a1
  a2 = a2
  w1 = w1
  w2 = w2
  Garbage = Garbage
  NoKC = NoKC
  Loops = {l1}
  Workers = {w1, w2}
  KCalls = {k1, k2}
  Owner <- OneLoop
  Sync = {}
  Posting = {l1}
  Signalling = {l1}
  Ops = {1}
  Args = {a1}
  SQCap = 1
  CQCap = 2
  SemMax = 1
INVARIANT
  ReturnsResults
