\* endpoints_make when calloc may fail, and may return NULL for zero elements.
CONSTANTS
    Shapes <- MCShapes
    AllocMayFail = TRUE

SPECIFICATION Spec

\* endpoints_make returns.
CHECK_DEADLOCK FALSE

INVARIANT
    CrashOnlyOnOOM
