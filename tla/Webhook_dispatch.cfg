\* Three rows, one of them a replay at least, two replicas, two attempts, two replay requests that share Redis.
SPECIFICATION Spec
CONSTANTS
    redis = redis
    Subscriptions = {s1}
    NoSubscription = NoSubscription
    MaxDeliveries = 3
    MaxEnqueued = 2
    Workers = {w1, w2}
    MaxParallel = 2
    MaxAttempts = 2
    Requests = {r1, r2}
    Stores = {redis}
    StoreOf <- OneStore
CHECK_DEADLOCK FALSE
INVARIANTS
    InFlightExact
    OutcomesExact
    ReplayedOnce
PROPERTIES
    NothingAfterVerdict
    Settles
