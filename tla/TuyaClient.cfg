SPECIFICATION Spec
CONSTANTS
    MaxSkipped = 2
    MaxInFlight = 2
INVARIANT StaysAsConfirmed
PROPERTIES Authoritative JobReturns DriverShrinks
