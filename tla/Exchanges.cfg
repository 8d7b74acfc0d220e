CONSTANTS
  P = 5
  Counts <- SomeCounts
  Rendezvous = TRUE
  MaxExchanges = 2
  SparseExchanges <- SomePairs
SPECIFICATION ExchangesSpec
INVARIANTS AllMatch SegmentsAddressed
PROPERTIES AllDeliver
