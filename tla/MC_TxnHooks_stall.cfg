\* Progress of the hook chain when TSHttpTxnServerRespGet may fail.
CONSTANTS
    ServerRespMayFail = TRUE

SPECIFICATION Spec

CHECK_DEADLOCK FALSE

PROPERTY
    TxnCompletes
