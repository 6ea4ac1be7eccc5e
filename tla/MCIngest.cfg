SPECIFICATION IngestFairSpec
CONSTANTS
  None = None  EmptyPayload = EmptyPayload
  r1 = r1  r2 = r2  r3 = r3  garbled = garbled  empty = empty
  t1 = t1  s1 = s1  b1 = b1  n1 = n1
  Requests = {r1, r2, r3, garbled, empty}
  Decoded <- MCDecoded
  Transport <- MCTransport
  Panics = {empty}
  Capacity = 2
  RingCapacity = 2
  MaxAttempts <- MCMaxAttempts
CHECK_DEADLOCK FALSE
INVARIANTS IngestTypeOK ExactlyOnce AckOrderKept
PROPERTIES EveryRequestAnswered AcknowledgedApplied
