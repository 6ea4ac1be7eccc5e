SPECIFICATION PipelineSpec
CONSTANTS
  None = None  EmptyPayload = EmptyPayload
  r1 = r1  r2 = r2  bad = bad  garbled = garbled  other = other
  t1 = t1  t2 = t2  s1 = s1  b1 = b1  b2 = b2  n1 = n1  n2 = n2  k1 = k1  v1 = v1
  Requests = {r1, r2, bad}
  Decoded <- MCDecoded
  Transport <- MCTransport
  Panics = {r1, bad}
  Capacity = 1
  RingCapacity = 1
  MaxAttempts <- MCMaxAttempts
  TraceIds = {t1, t2}
  SpanIds = {s1}
  Bodies = {b1, b2}
  AttrValues = {v1}
  KeyNames = {k1}
  ServiceNames = {n1, n2}
  NameLen <- MCNameLen
  InternerCap = 2
  Batches <- MCBatches
  MaxBatches = 3
  MaxMemoryBytes = 200
  ClockSteps = {1}
CHECK_DEADLOCK FALSE
INVARIANTS AppliedIsReadable NumbersAddUp PanelShowsAnswered
PROPERTIES PanelsNeverGoBack
