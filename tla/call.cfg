SPECIFICATION RuntimeSpec
CONSTANTS
    Calls <- MCCalls
    Places <- MCPlaces
    BodyLimit = 40
    Radix <- BaseThree
    MaxAttempt <- Thirteen
    Inputs <- FramedBodies
    Jobs <- MCJobs
    Deliveries <- MCDeliveries
    Limits <- MCLimits
INVARIANTS
    HandlerSeesWhatWasSent
    OwnRequestsAccepted
    CredentialsAllOrNothing
    SameArm
    HeadersReadBack
    FramesExactly
    BodyBounded
    StrictAgrees
    NothingSilent
    FailsForAReason
PROPERTIES
    SettlesBelowMax
    StreamInOrder
    ListingEnds
CHECK_DEADLOCK FALSE
