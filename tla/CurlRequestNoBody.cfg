\* The upload of a request without a body.
CONSTANTS
    MaxBody = 2
    MaxChunk = 2
    MaxSent = 3
    MaxReceived = 4
    Errors = {e1}
SPECIFICATION Spec
INVARIANT
    EmptyBodySendsNothing
