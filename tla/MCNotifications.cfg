\* Two recipients, one channel, two workers, one fault; the job is over in the end.
CONSTANTS
    w1 = w1
    w2 = w2
    Deliveries = {1, 2}
    Channels = {1}
    Workers = {w1, w2}
    Nobody = Nobody
    NoChannel = NoChannel
    Tries = 2
    MaxFaults = 1
SPECIFICATION LiveSpec
CHECK_DEADLOCK FALSE
INVARIANTS
    TypeOK
    CopiesAreCounted
    DeliveredWasSent
    PendingIsLookedAfter
PROPERTIES
    EveryCampaignCompletes
