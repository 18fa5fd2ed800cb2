\* Three requests, two of them at a time, one fault.
SPECIFICATION Spec
CONSTANTS
    Kinds = {"chat", "plain", "risky", "build", "riskyBuild"}
    MaxRequests = 3
    MaxActive = 2
    MaxFaults = 1
CHECK_DEADLOCK FALSE
INVARIANTS
    ConsentExact
    AwaitingExplained
PROPERTY
    WaitsEnd
