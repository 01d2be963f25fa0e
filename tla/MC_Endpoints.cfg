CONSTANTS
    Absent = Absent
    Objects <- MCObjects

SPECIFICATION Spec

\* endpoints_equal returns; its final states have no successor.
CHECK_DEADLOCK FALSE

INVARIANT EqualMatchesReference
