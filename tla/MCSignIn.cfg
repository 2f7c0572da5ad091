SPECIFICATION Spec
CONSTANTS
    Runs = {"run"}
    Lifetime = 2
    Margin = 2
    Retries = 2
    MaxDelay = 1
    AttemptTime = 1
    Timeout = 1
    Rotates = FALSE
    ClientSecrets = {1}
    None = None
    MaxTime = 3
    MaxGrants = 3
    MaxEvents = 5
    MaxFaults = 2
INVARIANTS FirstAttemptIsFresh StaysSignedIn
PROPERTIES EveryCommandEnds
CHECK_DEADLOCK FALSE
