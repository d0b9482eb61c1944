SPECIFICATION FairSpec
CONSTANTS
    Requests <- MCRequests
    Hooks <- MCHooks
    Deliveries <- MCDeliveries
    Stamp <- MCStamp
    Carries <- MCCarries
    WellFormed <- MCWellFormed
    Instant <- MCInstant
    Skew = 1
    Capacity = 1
    MaxInFlight = 2
    MaxTime = 3
INVARIANTS NeverOverLimit OneRunPerDelivery FrozenByRunsInside
PROPERTIES SlotsComeBack
CHECK_DEADLOCK FALSE
