CONSTANTS
  N = 8
  Threads = {t1, t2}
  Requests = {1, 2}
  MaxCalls = 5
  Nobody = nobody
SPECIFICATION Spec
INVARIANTS ListSound AssertionsHold LeaksReported
PROPERTIES Disjoint CallsReturn
