SPECIFICATION ReadSpec
CONSTANTS
  None = None
  t1 = t1  t2 = t2
  s1 = s1  s2 = s2
  k1 = k1  k2 = k2
  b1 = b1  b2 = b2
  TraceIds = {t1, t2}
  SpanIds = {s1, s2}
  KeyNames = {k1, k2}
  ServiceNames = {"cart", "shop"}
  Bodies = {b1, b2}
  AttrValues <- MCAttrValues
  Batches <- MCBatches
  NameLen <- MCNameLen
  InternerCap = 1
  MaxMemoryBytes = 160
  ClockSteps = {0}
  MaxBatches = 4
  Strings <- MCStrings
  NameOf <- MCNameOf
  StatusMessageOf <- MCStatusMessageOf
  StartOf <- MCStartOf
  EndOf <- MCEndOf
  Texts <- MCTexts
  RawValues <- MCRawValues
  Tokens <- MCTokens
  ParseI64 <- MCParseI64
  ParseReal <- MCParseReal
  DurationNum <- MCDurationNum
  DurationUnit <- MCDurationUnit
  ContainedIn <- MCContains
  StartNanos <- MCStartOf
  EndNanos <- MCEndOf
  StatusCodeOf <- MCStatusCodeOf
  Exact = 4
  MaxU64 = 20
CHECK_DEADLOCK FALSE
INVARIANTS GenerationPinsRows ListingCurrent PayloadDecodes DurationCoversSpans DumpHonest OrderingSound
PROPERTIES AnswerStable
