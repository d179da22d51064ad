CONSTANTS
    Clients <- MCClients
    Scripts <- MCScripts
    Engines = {"e1", "e2"}
    SystemNames = {"HTTP"}
    SystemEngine = "io"
    Preloaded = {"p"}
    CHANNEL = 2
    MAX_QUEUE = 2
SPECIFICATION Spec
INVARIANTS TypeOK Confirmed NoCycles KnownStaysKnown CachedAgree NumberedAsDescribed
PROPERTIES RegistryGrows RefusedChangesNothing Answered
CHECK_DEADLOCK FALSE
