\* Two visits to one slot.
SPECIFICATION FairSpec
CONSTANTS
  Requests = {r1, r2}
  Items = 3
INVARIANTS
  SlotIsTheStream
  StreamsEndTold
  WorkStopsWithTheReader
PROPERTIES
  EveryRequestAnswered
CHECK_DEADLOCK FALSE
