\* Safety of the hook chain, with the response getters allowed to fail.
CONSTANTS
    ServerRespMayFail = TRUE

SPECIFICATION Spec

\* A transaction stalled by check_response_cache, and a closed one, stop.
CHECK_DEADLOCK FALSE

INVARIANTS
    HeaderSetOwnership
    CacheOnlyCookieFree
    PushedOnce
