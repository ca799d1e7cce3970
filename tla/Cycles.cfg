SPECIFICATION Spec
CONSTANTS
  f1 = f1
  p1 = p1
  LoopThreads = {l1, l2}
  RequestThreads = {q1}
  Threads = {l1, l2, q1}
  Feeds = {f1}
  Pages = {p1}
  Sources = {f1, p1}
  Host <- OneHost
  Interval <- Rates
  MaxAttempts = 3
  MaxBackoff = 2
  RetryAfters = {0, 3}
INVARIANT SlotsSpaced
INVARIANT OneLoop
PROPERTY StopHeeded
PROPERTY EveryCycleEnds
PROPERTY PassRecurs
