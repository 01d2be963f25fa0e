------------------------------ MODULE MC_Config ------------------------------
EXTENDS Config, TLC

Line(o, c, v) == [opt |-> o, colon |-> c, val |-> v]

(* Comments, empty lines, option lines with and without ':', every
   value class, and an unknown option. *)
MCLines ==
    {Line("#", FALSE, "v"), Line("blank", FALSE, "v"),
     Line("server", TRUE, "h"), Line("server", TRUE, "h:p"),
     Line("token", TRUE, "v"), Line("token", FALSE, "v"),
     Line("certfile", TRUE, "v"), Line("keyfile", TRUE, "v"),
     Line("cafile", TRUE, "v"),
     Line("tls", TRUE, "true"), Line("tls", TRUE, "false"), Line("tls", TRUE, "bad"),
     Line("remap", TRUE, "false"), Line("other", TRUE, "v")}
=============================================================================
