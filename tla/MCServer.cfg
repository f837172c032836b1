SPECIFICATION FairSpec
CONSTANTS
    None = None
    Replicas = {r1, r2}
    Environments <- SomeEnvironments
    MaxInFlight = 1
INVARIANTS
    TypeOK
    SeededWhenServing
    SchemaReady
    RequestsDrained
PROPERTIES
    Stops
