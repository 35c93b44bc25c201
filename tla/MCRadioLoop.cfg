\* All three images, any number of receptions and batches.
CONSTANTS
  Ids = 3
  NExch = 2
SPECIFICATION Spec
INVARIANTS
  EventIsWhole
  
  ExchangeIsHonest
  
\* After a missed edge a slave really stops (see NeverDeaf).
CHECK_DEADLOCK FALSE
