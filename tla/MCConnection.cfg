CONSTANTS
    Endpoints <- mcEndpoints
    Uris <- mcUris
    UriOf <- mcUriOf
    Dialable <- mcDialable
    CertPaths <- mcCerts
    ReadableCerts <- mcReadable
    DefaultLocal = "pipe"
    Blank = Blank
    None = None
    Requests = {r1, r2}
    Startup = Startup
    StartupOptions <- mcStartupOptions
    Workload <- mcEveryShape
    TriedBodies <- mcEveryBody
SPECIFICATION Spec
INVARIANTS
    Inductive
    ActiveClientUsable
    NeverDisposedTwice
    NoClientLeaked
    DisposedOnlyBySwitch
    ReportsAnActiveConnection
    UpdateStatusTellsSwitch
    CallsGoToActiveClients
    CallsMoveForward
PROPERTIES
    EveryRequestAnswered
    KeepsPromise
CHECK_DEADLOCK FALSE
