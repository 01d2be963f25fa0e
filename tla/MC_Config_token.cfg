CONSTANTS
    Lines <- MCLines
    MaxLines = 3
    SaCases = {"nofile", "empty", "newline", "token"}

SPECIFICATION Spec

\* k8s_config_load returns; its final states have no successor.
CHECK_DEADLOCK FALSE



INVARIANT ReturnedTokenValid
