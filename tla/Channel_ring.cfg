CONSTANTS
  Producers = {p1, p2}
  PerProducer = 3
  Cap = 2
  Empty = Empty
SPECIFICATION FairSpec
CHECK_DEADLOCK FALSE
INVARIANTS
  TypeOK
  NoDataRace
  SendBlocksWhenFull
PROPERTIES
  ImplementsFifo
  AllDelivered
