SPECIFICATION FairSpec
CONSTANTS
  None = None
  c1 = c1
  c2 = c2
  MaxBytes = 5
  Slots = 1
  Conns <- TwoConns
  Http1 <- JustC1
  Silent <- Nobody
  Peeks = 3
  MaxAcceptErrors = 1
  TonicMayStop = TRUE
INVARIANT OnlyPrefacesForwarded
PROPERTIES NoConnectionDropped PrefaceNeverRefused EveryConnectionDecided CompleteRequestAnswered
CHECK_DEADLOCK FALSE
