SPECIFICATION ClientSpec
CONSTANTS
    Jobs <- OpenJobs
    Deliveries <- MCDeliveries
    Limits <- MCLimits
INVARIANT ItemDriftIsKept
CHECK_DEADLOCK FALSE
