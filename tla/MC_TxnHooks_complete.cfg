\* Progress of the hook chain when the response getters succeed.
CONSTANTS
    ServerRespMayFail = FALSE

SPECIFICATION Spec

\* A closed transaction stops.
CHECK_DEADLOCK FALSE

PROPERTY
    TxnCompletes
