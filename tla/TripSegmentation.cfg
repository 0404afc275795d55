SPECIFICATION Spec
CONSTANTS
    Places <- MCPlaces
    Far <- MCFar
    STOP_TIME = 2
    LowerDate = 0
    UpperDate = 8
    Tables <- MCTables
    Times <- MCTimes
    Length = 7
    MaxArrivals = 1
    Null = Null
INVARIANTS
    TypeOK
    AggregatedApart
    SpikesLeftOut
    SegmentsAreTrips
    NoRowMissed
    CountedOnce
    PageRenders
