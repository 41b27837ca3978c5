\* Three CurlHttps, two clients, one request at a time.
CONSTANTS
    h1 = h1
    h2 = h2
    h3 = h3
    c1 = c1
    c2 = c2
    Https <- ThreeHttps
    Clients <- TwoClients
    None = none
    MaxBody = 2
    MaxChunk = 2
    MaxSent = 2
    MaxReceived = 2
    Errors = {e1}
SYMMETRY Interchangeable
SPECIFICATION HttpSpec
INVARIANTS
    CountIsExact
    InitsAlternate
    LibraryOutlivesUsers
    FailureIsReported
    CallbacksHaveTheirData
    HandlesNeedLibrary
