------------------------------- MODULE Config -------------------------------
(***************************************************************************)
(* k8s_config_load (src/config.c): build the plugin configuration from the *)
(* service-account token file and, if a path is given, a config file of    *)
(* "option: value" lines.                                                  *)
(*                                                                         *)
(* A line is abstracted to its option name (or "#" for a comment, "blank"  *)
(* for an empty line), whether it has a ':' and a value class: "true",     *)
(* "false", "bad" for the booleans, "h" or "h:p" (host, host with port)    *)
(* for server, "v" otherwise.  Leading blanks, which the isspace loops     *)
(* skip, are left out.  Each pointer field of k8s_config_t is "null",      *)
(* "set", or "freed" (dangling); co_host is "sa" when it came from the     *)
(* service-account branch and "file" when from a server line; co_port is   *)
(* "443", "env" (KUBERNETES_SERVICE_PORT) or "file" (the port of a server    *)
(* line).                                                                  *)
(***************************************************************************)
EXTENDS Integers, Sequences

CONSTANTS
    Lines,      \* the abstract config lines a file may contain
    MaxLines,   \* bound on the length of the config file
    SaCases     \* what the service-account token file holds

Options == {"server", "token", "certfile", "keyfile", "cafile", "tls", "remap"}
BoolOptions == {"tls", "remap"}

ASSUME ConfigAssumption ==
    /\ MaxLines \in Nat
    /\ SaCases \subseteq {"nofile", "empty", "newline", "token"}
    /\ \A l \in Lines :
          /\ l.opt \in Options \cup {"#", "blank", "other"}
          /\ l.colon \in BOOLEAN
          /\ l.val \in {"true", "false", "bad", "h", "h:p", "v"}

Files == UNION {[1..n -> Lines] : n \in 0..MaxLines}

Pointer == {"null", "set", "freed"}

VARIABLES
    pc,       \* "start", "sa", "open", "loop", then "done" (ret returned),
              \* "nomem", "openfail", "error" (NULL returned) or "crashed"
    given,    \* file != NULL
    file,     \* the lines of the config file
    i,        \* lineno + 1: the next line fgets returns
    sa,       \* the case of the service-account token file
    envport,  \* KUBERNETES_SERVICE_PORT is set
    ret,      \* the k8s_config_t being filled in
    ub        \* "none", or the first undefined behaviour the code reached

vars == <<pc, given, file, i, sa, envport, ret, ub>>

Config == [host : {"null", "sa", "file"}, port : {"0", "443", "env", "file"},
           token : Pointer, certfile : BOOLEAN, keyfile : BOOLEAN,
           cafile : BOOLEAN, tls : BOOLEAN, remap : BOOLEAN]

TypeOK ==
    /\ pc \in {"start", "sa", "open", "loop", "done", "nomem", "openfail",
               "error", "crashed"}
    /\ given \in BOOLEAN
    /\ file \in Files
    /\ i \in 1..Len(file) + 1
    /\ sa \in SaCases \cup {"unread"}
    /\ envport \in BOOLEAN
    /\ ret \in Config
    /\ ub \in {"none", "line_underflow", "null_value"}

(* The calloc'd config before the defaults of lines 53-55. *)
Zeroed == [host |-> "null", port |-> "0", token |-> "null", certfile |-> FALSE,
           keyfile |-> FALSE, cafile |-> FALSE, tls |-> FALSE, remap |-> FALSE]

Init ==
    /\ pc = "start"
    /\ given \in BOOLEAN
    /\ file \in IF given THEN Files ELSE {<<>>}
    /\ i = 1
    /\ sa = "unread"
    /\ envport = FALSE
    /\ ret = Zeroed
    /\ ub = "none"

-----------------------------------------------------------------------------
(* calloc, then the defaults co_tls = 1, co_remap = 1, co_port = 443. *)
LoadStart ==
    /\ pc = "start"
    /\ \/ pc' = "nomem" /\ UNCHANGED ret
       \/ /\ pc' = "sa"
          /\ ret' = [ret EXCEPT !.tls = TRUE, !.remap = TRUE, !.port = "443"]
    /\ UNCHANGED <<given, file, i, sa, envport, ub>>

(* The service-account token file: its first line, stripped of trailing
   CR and LF, is the token, and the API server comes from the
   environment.  A first line that is only a newline is stripped to ""
   and the strip loop then reads line[-1].  With no file argument the
   config is returned here. *)
ReadServiceAccount ==
    /\ pc = "sa"
    /\ \E s \in SaCases, p \in BOOLEAN :
          /\ sa' = s
          /\ envport' = p
          /\ ret' = IF s \in {"newline", "token"}
                    THEN [ret EXCEPT !.token = "set", !.host = "sa",
                                     !.port = IF p THEN "env" ELSE @]
                    ELSE ret
          /\ ub' = IF s = "newline" /\ ub = "none" THEN "line_underflow" ELSE ub
    /\ pc' = IF given THEN "open" ELSE "done"
    /\ UNCHANGED <<given, file, i>>

(* fopen of the config file. *)
OpenFile ==
    /\ pc = "open"
    /\ pc' \in {"loop", "openfail"}
    /\ UNCHANGED <<given, file, i, sa, envport, ret, ub>>

(* Mutant: a server line with no port keeps the previous port. *)
AssignKeepPort(r, l) ==
    CASE l.opt = "server" ->
            [r EXCEPT !.host = "file", !.port = IF l.val = "h:p" THEN "file" ELSE @]
      [] l.opt = "token" -> [r EXCEPT !.token = "set"]
      [] l.opt \in {"certfile", "keyfile", "cafile"} -> [r EXCEPT ![l.opt] = TRUE]
      [] l.opt \in BoolOptions -> [r EXCEPT ![l.opt] = (l.val = "true")]

(* The assignment an option line with a value makes (lines 110-150). *)
Assign(r, l) ==
    CASE l.opt = "server" ->
            [r EXCEPT !.host = "file", !.port = IF l.val = "h:p" THEN "file" ELSE "443"]
      [] l.opt = "token" -> [r EXCEPT !.token = "set"]
      [] l.opt \in {"certfile", "keyfile", "cafile"} -> [r EXCEPT ![l.opt] = TRUE]
      [] l.opt \in BoolOptions -> [r EXCEPT ![l.opt] = (l.val = "true")]

(* A line is accepted when it is a comment or an option whose value the
   code takes. *)
Accepted(l) ==
    \/ l.opt = "#"
    \/ /\ l.opt \in Options
       /\ l.colon
       /\ l.opt \in BoolOptions => l.val \in {"true", "false"}

(* Mutant: the loop advances twice per line. *)
ParseLineDoubleStep ==
    /\ pc = "loop"
    /\ i <= Len(file)
    /\ Accepted(file[i])
    /\ ret' = IF file[i].opt = "#" THEN ret ELSE Assign(ret, file[i])
    /\ i' = i + 2
    /\ UNCHANGED <<pc, given, file, sa, envport, ub>>

(* One iteration of the fgets loop (lines 87-156).  An empty line is
   skipped, but only after line 95 has read line[strlen(line) - 1] =
   line[-1].  A comment is skipped.  A known option with no ':' leaves
   value NULL, which strdup or strcmp dereferences.  A boolean option
   with another value, or an unknown option, goes to error. *)
ParseLine ==
    /\ pc = "loop"
    /\ i <= Len(file)
    /\ LET l == file[i] IN
       \/ /\ l.opt = "blank"
          /\ ub' = IF ub = "none" THEN "line_underflow" ELSE ub
          /\ i' = i + 1
          /\ UNCHANGED <<pc, ret>>
       \/ /\ Accepted(l)
          /\ ret' = IF l.opt = "#" THEN ret ELSE Assign(ret, l)
          /\ i' = i + 1
          /\ UNCHANGED <<pc, ub>>
       \/ /\ l.opt \in Options
          /\ ~l.colon
          /\ pc' = "crashed"
          /\ ub' = IF ub = "none" THEN "null_value" ELSE ub
          /\ UNCHANGED <<i, ret>>
       \/ /\ l.opt \in {"other"} \cup BoolOptions
          /\ l.colon \/ l.opt = "other"
          /\ ~Accepted(l)
          /\ pc' = "error"
          /\ UNCHANGED <<i, ret, ub>>
    /\ UNCHANGED <<given, file, sa, envport>>

(* After the loop (lines 158-187): with a keyfile the token is freed
   (but the pointer is kept); then a keyfile needs a certfile and the
   reverse, some credential and a server are required.  Every failure
   goes to error, which frees the strings and returns NULL. *)
Checks ==
    /\ pc = "loop"
    /\ i > Len(file)
    /\ LET r == IF ret.keyfile /\ ret.token = "set"
                THEN [ret EXCEPT !.token = "freed"] ELSE ret
           bad == \/ r.keyfile /\ ~r.certfile
                  \/ r.certfile /\ ~r.keyfile
                  \/ r.token = "null" /\ ~r.keyfile
                  \/ r.host = "null"
       IN  /\ ret' = r
           /\ pc' = IF bad THEN "error" ELSE "done"
    /\ UNCHANGED <<given, file, i, sa, envport, ub>>

Next == LoadStart \/ ReadServiceAccount \/ OpenFile \/ ParseLine \/ Checks

Spec == Init /\ [][Next]_vars

-----------------------------------------------------------------------------
(* The reference: what the file means, read declaratively.  The last line
   of an option decides its value. *)
LastLine(o) ==
    LET I == {k \in 1..Len(file) : file[k].opt = o}
    IN  IF I = {} THEN 0 ELSE CHOOSE k \in I : \A j \in I : j <= k

Has(o) == LastLine(o) # 0
SaToken == sa \in {"newline", "token"}

Expected ==
    [host |-> IF Has("server") THEN "file" ELSE IF SaToken THEN "sa" ELSE "null",
     port |-> IF Has("server")
              THEN IF file[LastLine("server")].val = "h:p" THEN "file" ELSE "443"
              ELSE IF SaToken /\ envport THEN "env" ELSE "443",
     certfile |-> Has("certfile"), keyfile |-> Has("keyfile"),
     cafile |-> Has("cafile"),
     tls |-> ~Has("tls") \/ file[LastLine("tls")].val = "true",
     remap |-> ~Has("remap") \/ file[LastLine("remap")].val = "true"]

(* Every line is empty or accepted, and the options set are consistent. *)
FileAccepted ==
    /\ \A k \in 1..Len(file) : file[k].opt = "blank" \/ Accepted(file[k])
    /\ Expected.keyfile = Expected.certfile
    /\ Has("token") \/ SaToken \/ Expected.keyfile
    /\ Expected.host # "null"

(* k8s_config_load returns exactly the configuration the file and the
   service account describe, later lines overriding earlier ones, and
   returns NULL (error) exactly when a config file was given that is
   malformed or incomplete. *)
LoadMatchesReference ==
    /\ pc = "done" =>
          /\ given => FileAccepted
          /\ \A f \in DOMAIN Expected : ret[f] = Expected[f]
          /\ ret.token # "null" <=> (Has("token") \/ SaToken)
    /\ pc = "error" => given /\ ~FileAccepted

(* k8s_config_load never reaches undefined behaviour: it never reads
   before its line buffer and never dereferences a NULL value. *)
NoUndefinedBehaviour ==
    ub = "none"

(* A configuration k8s_config_load returns holds no dangling pointer:
   a non-NULL co_token has not been freed. *)
ReturnedTokenValid ==
    pc = "done" => ret.token # "freed"

=============================================================================
