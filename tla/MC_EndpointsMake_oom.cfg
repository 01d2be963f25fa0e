\* endpoints_make when calloc may fail.
CONSTANTS
    Shapes <- MCShapes
    AllocMayFail = TRUE

SPECIFICATION Spec

\* endpoints_make returns.
CHECK_DEADLOCK FALSE

INVARIANT
    MakeNoNullDeref
