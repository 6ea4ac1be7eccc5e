SPECIFICATION DemoFairSpec
CONSTANTS
  None = None
  t1 = t1  t2 = t2
  s1 = s1  s2 = s2
  k1 = k1  k2 = k2  n1 = n1  n2 = n2
  b1 = b1  b2 = b2  v1 = v1
  q1 = q1  q2 = q2
  Queries <- MCQueries
  TraceIds <- MCTraceIds
  SpanIds <- MCSpanIds
  KeyNames = {k1, k2, "http.status_code"}
  ServiceNames <- MCServices
  Bodies <- MCBodies
  AttrValues = {v1, "Int(200)", "Str(200)"}
  Batches <- MCBatches
  NameLen <- MCNameLen
  InternerCap = 1
  MaxMemoryBytes = 300
  ClockSteps = {1}
  MaxBatches = 3
CHECK_DEADLOCK FALSE
INVARIANTS TypeOK EvictionLedger BudgetRestored TracesConsistent SeedDeterministic
PROPERTIES ImplementsSpanStore QuietEvictedFirst EveryBatchAnnounced
