SPECIFICATION FairSpec
CONSTANTS
  None = None
  c1 = c1
  c2 = c2
  MaxBytes = 5
  Slots = 1
  Conns <- TwoConns
  Http1 <- Nobody
  Silent <- JustC1
  Peeks = 2
  MaxAcceptErrors = 0
  TonicMayStop = FALSE
PROPERTIES EveryConnectionDecided
CHECK_DEADLOCK FALSE
