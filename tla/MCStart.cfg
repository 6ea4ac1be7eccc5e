SPECIFICATION FairSpec
CONSTANTS
  None = None
  demo = demo  plain = plain  asker = asker  other = other
  Invocations = {demo, plain, asker}
  Arguments <- MCArguments
  Others = {other}
  MaxRows = 1
CHECK_DEADLOCK FALSE
INVARIANTS BannerTrue OneOfUsListens AnswersSeeded OutputComplete
PROPERTIES EveryInvocationSettles
