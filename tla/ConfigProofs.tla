---------------------------- MODULE ConfigProofs ----------------------------
(***************************************************************************)
(* Proofs about k8s_config_load (module Config), for every set of line     *)
(* kinds and every file length.                                            *)
(*                                                                         *)
(* LoadMatchesReference speaks of the whole file, and of the last line of  *)
(* each option in it; the loop reads one line per step.  It is not         *)
(* inductive: nothing in it says what ret holds while the loop runs.       *)
(* CfgInv says it: after lines 1..i-1, ret is what those lines describe    *)
(* (Prefix(i), built from the last line of each option before i), and      *)
(* each of those lines was empty or accepted.  At the end of the loop      *)
(* i = Len(file) + 1 and Prefix(i) is Expected.                            *)
(***************************************************************************)
EXTENDS Config, SequenceTheorems, TLAPS

(* The lines before line n that set option o, and the last of them. *)
Before(o, n) == {k \in 1..(n - 1) : file[k].opt = o}

(* The greatest line number of a set, 0 for none. *)
MaxOf(I) == IF I = {} THEN 0 ELSE CHOOSE k \in I : \A j \in I : j <= k

LastBefore(o, n) == MaxOf(Before(o, n))

(* The config after the defaults, before the service account. *)
Started == [host |-> "null", port |-> "443", token |-> "null", certfile |-> FALSE,
            keyfile |-> FALSE, cafile |-> FALSE, tls |-> TRUE, remap |-> TRUE]

(* What k8s_config_load holds in ret once lines 1..n-1 are parsed. *)
Prefix(n) ==
    LET srv == LastBefore("server", n)
    IN
    [host |-> IF srv # 0 THEN "file" ELSE IF SaToken THEN "sa" ELSE "null",
     port |-> IF srv # 0
              THEN IF file[srv].val = "h:p" THEN "file" ELSE "443"
              ELSE IF SaToken /\ envport THEN "env" ELSE "443",
     token |-> IF LastBefore("token", n) # 0 \/ SaToken THEN "set" ELSE "null",
     certfile |-> LastBefore("certfile", n) # 0,
     keyfile |-> LastBefore("keyfile", n) # 0,
     cafile |-> LastBefore("cafile", n) # 0,
     tls |-> LastBefore("tls", n) = 0 \/ file[LastBefore("tls", n)].val = "true",
     remap |-> LastBefore("remap", n) = 0
                  \/ file[LastBefore("remap", n)].val = "true"]

(* The fields of k8s_config_t the model follows. *)
Fields == {"host", "port", "token", "certfile", "keyfile", "cafile", "tls", "remap"}

(* ret holds, field by field, what the first n - 1 lines describe. *)
Holds(r, n) == \A f \in Fields : r[f] = Prefix(n)[f]

CfgInv ==
    /\ TypeOK
    /\ ~given => file = <<>>
    /\ pc \in {"start", "sa", "open"} => i = 1
    /\ pc = "start" => ret = Zeroed
    /\ pc = "sa" => \A f \in Fields : ret[f] = Started[f]
    /\ pc \in {"open", "loop"} =>
          /\ given
          /\ Holds(ret, i)
          /\ \A k \in 1..(i - 1) : file[k].opt = "blank" \/ Accepted(file[k])
    /\ LoadMatchesReference

-----------------------------------------------------------------------------
(* A file is a sequence of at most MaxLines lines. *)
LEMMA FileIsSeq ==
    ASSUME NEW f \in Files
    PROVE  /\ f \in Seq(Lines)
           /\ Len(f) \in 0..MaxLines
           /\ DOMAIN f = 1..Len(f)
<1>1. PICK n \in 0..MaxLines : f \in [1..n -> Lines]
    BY DEF Files
<1>2. f \in Seq(Lines)
    <2>0. MaxLines \in Nat
        BY ConfigAssumption, Zenon
    <2>1. n \in Nat
        BY <1>1, <2>0
    <2>2. Seq(Lines) = UNION {[1..m -> Lines] : m \in Nat}
        BY SeqDef
    <2>3. QED
        BY <1>1, <2>1, <2>2
<1>3. Len(f) = n
    BY <1>1, <1>2, LenProperties
<1>4. QED
    BY <1>1, <1>2, <1>3

(* Before the first line no option has been set. *)
LEMMA LastBeforeFirst ==
    ASSUME NEW o
    PROVE  LastBefore(o, 1) = 0
BY DEF LastBefore, Before, MaxOf

(* Reading line n: it becomes the last line of its own option, and leaves
   the last line of every other option where it was. *)
LEMMA LastBeforeStep ==
    ASSUME NEW o, NEW n \in Nat \ {0}
    PROVE  LastBefore(o, n + 1) = IF file[n].opt = o THEN n ELSE LastBefore(o, n)
<1>1. CASE file[n].opt = o
    <2> DEFINE I == Before(o, n + 1)
    <2>1. n \in I /\ \A j \in I : j <= n
        BY <1>1 DEF Before
    <2>2. \A k \in I : (\A j \in I : j <= k) => k = n
        BY <2>1 DEF Before
    <2>3. (CHOOSE k \in I : \A j \in I : j <= k) = n
        BY <2>1, <2>2
    <2>4. QED
        BY <1>1, <2>1, <2>3 DEF LastBefore, MaxOf
<1>2. CASE file[n].opt # o
    <2>1. Before(o, n + 1) = Before(o, n)
        BY <1>2 DEF Before
    <2>2. QED
        BY <1>2, <2>1 DEF LastBefore
<1>3. QED
    BY <1>1, <1>2

(* After the whole file, the last line before the end is LastLine. *)
LEMMA LastBeforeEnd ==
    ASSUME NEW o, Len(file) \in Nat
    PROVE  LastBefore(o, Len(file) + 1) = LastLine(o)
<1>1. Before(o, Len(file) + 1) = {k \in 1..Len(file) : file[k].opt = o}
    BY DEF Before
<1>2. LastLine(o) = MaxOf({k \in 1..Len(file) : file[k].opt = o})
    BY DEF LastLine, MaxOf
<1>3. QED
    BY <1>1, <1>2 DEF LastBefore

-----------------------------------------------------------------------------
(* A line of a file is one of Lines, with the fields ConfigAssumption
   gives it. *)
LEMMA LineFields ==
    ASSUME file \in Files, NEW n \in 1..Len(file)
    PROVE  /\ file[n] \in Lines
           /\ file[n].opt \in Options \cup {"#", "blank", "other"}
           /\ file[n].val \in {"true", "false", "bad", "h", "h:p", "v"}
<1>1. file \in Seq(Lines) /\ DOMAIN file = 1..Len(file)
    BY FileIsSeq
<1>2. file[n] \in Lines
    BY <1>1, LenProperties
<1>3. QED
    BY <1>2, ConfigAssumption

(* One pass of the loop body over an empty, comment or accepted line moves
   the described config the way Assign moves ret. *)
LEMMA PrefixStep ==
    ASSUME file \in Files, NEW n \in 1..Len(file),
           file[n].opt = "blank" \/ Accepted(file[n]),
           NEW r \in Config, Holds(r, n)
    PROVE  Holds(IF file[n].opt \in {"#", "blank"} THEN r ELSE Assign(r, file[n]), n + 1)
<1>0. n \in Nat \ {0}
    BY FileIsSeq
<1>1. \A o : LastBefore(o, n + 1) = IF file[n].opt = o THEN n ELSE LastBefore(o, n)
    BY <1>0, LastBeforeStep
<1>2. file[n].opt \in Options \cup {"#", "blank"}
    BY LineFields DEF Accepted
<1>3. CASE file[n].opt \in {"#", "blank"}
    BY <1>1, <1>3 DEF Holds, Prefix, Options
<1>4. CASE file[n].opt = "server"
    <2>1. Assign(r, file[n]) = [r EXCEPT !.host = "file", !.port = IF file[n].val = "h:p" THEN "file" ELSE "443"]
        BY <1>4 DEF Assign, BoolOptions
    <2>2. /\ LastBefore("server", n + 1) = n
          /\ \A o \in Options \ {"server"} : LastBefore(o, n + 1) = LastBefore(o, n)
        BY <1>1, <1>4
    <2>3. /\ Assign(r, file[n]).host = "file" /\ Assign(r, file[n]).port = IF file[n].val = "h:p" THEN "file" ELSE "443"
          /\ \A f \in Fields \ {"host", "port"} : Assign(r, file[n])[f] = r[f]
        BY <2>1 DEF Config, Fields
    <2>4. /\ Prefix(n + 1).host = "file" /\ Prefix(n + 1).port = IF file[n].val = "h:p" THEN "file" ELSE "443"
          /\ \A f \in Fields \ {"host", "port"} : Prefix(n + 1)[f] = Prefix(n)[f]
        BY <1>0, <1>4, <2>2 DEF Prefix, Fields, Options
    <2>5. QED
        BY <1>4, <2>3, <2>4 DEF Holds
<1>5. CASE file[n].opt = "token"
    <2>1. Assign(r, file[n]) = [r EXCEPT !.token = "set"]
        BY <1>5 DEF Assign, BoolOptions
    <2>2. /\ LastBefore("token", n + 1) = n
          /\ \A o \in Options \ {"token"} : LastBefore(o, n + 1) = LastBefore(o, n)
        BY <1>1, <1>5
    <2>3. /\ Assign(r, file[n]).token = "set"
          /\ \A f \in Fields \ {"token"} : Assign(r, file[n])[f] = r[f]
        BY <2>1 DEF Config, Fields
    <2>4. /\ Prefix(n + 1).token = "set"
          /\ \A f \in Fields \ {"token"} : Prefix(n + 1)[f] = Prefix(n)[f]
        BY <1>0, <1>5, <2>2 DEF Prefix, Fields, Options
    <2>5. QED
        BY <1>5, <2>3, <2>4 DEF Holds
<1>6. CASE file[n].opt = "certfile"
    <2>1. Assign(r, file[n]) = [r EXCEPT ![file[n].opt] = TRUE]
        BY <1>6 DEF Assign, BoolOptions
    <2>2. /\ LastBefore("certfile", n + 1) = n
          /\ \A o \in Options \ {"certfile"} : LastBefore(o, n + 1) = LastBefore(o, n)
        BY <1>1, <1>6
    <2>3. /\ Assign(r, file[n]).certfile = TRUE
          /\ \A f \in Fields \ {"certfile"} : Assign(r, file[n])[f] = r[f]
        BY <1>6, <2>1 DEF Config, Fields
    <2>4. /\ Prefix(n + 1).certfile = TRUE
          /\ \A f \in Fields \ {"certfile"} : Prefix(n + 1)[f] = Prefix(n)[f]
        <3>1. Prefix(n + 1).certfile = TRUE
            BY <1>0, <2>2 DEF Prefix
        <3>2. \A f \in Fields \ {"certfile"} : Prefix(n + 1)[f] = Prefix(n)[f]
            BY <2>2 DEF Prefix, Fields, Options
        <3>3. QED
            BY <3>1, <3>2
    <2>5. QED
        BY <1>6, <2>3, <2>4 DEF Holds
<1>7. CASE file[n].opt = "keyfile"
    <2>1. Assign(r, file[n]) = [r EXCEPT ![file[n].opt] = TRUE]
        BY <1>7 DEF Assign, BoolOptions
    <2>2. /\ LastBefore("keyfile", n + 1) = n
          /\ \A o \in Options \ {"keyfile"} : LastBefore(o, n + 1) = LastBefore(o, n)
        BY <1>1, <1>7
    <2>3. /\ Assign(r, file[n]).keyfile = TRUE
          /\ \A f \in Fields \ {"keyfile"} : Assign(r, file[n])[f] = r[f]
        BY <1>7, <2>1 DEF Config, Fields
    <2>4. /\ Prefix(n + 1).keyfile = TRUE
          /\ \A f \in Fields \ {"keyfile"} : Prefix(n + 1)[f] = Prefix(n)[f]
        <3>1. Prefix(n + 1).keyfile = TRUE
            BY <1>0, <2>2 DEF Prefix
        <3>2. \A f \in Fields \ {"keyfile"} : Prefix(n + 1)[f] = Prefix(n)[f]
            BY <2>2 DEF Prefix, Fields, Options
        <3>3. QED
            BY <3>1, <3>2
    <2>5. QED
        BY <1>7, <2>3, <2>4 DEF Holds
<1>8. CASE file[n].opt = "cafile"
    <2>1. Assign(r, file[n]) = [r EXCEPT ![file[n].opt] = TRUE]
        BY <1>8 DEF Assign, BoolOptions
    <2>2. /\ LastBefore("cafile", n + 1) = n
          /\ \A o \in Options \ {"cafile"} : LastBefore(o, n + 1) = LastBefore(o, n)
        BY <1>1, <1>8
    <2>3. /\ Assign(r, file[n]).cafile = TRUE
          /\ \A f \in Fields \ {"cafile"} : Assign(r, file[n])[f] = r[f]
        BY <1>8, <2>1 DEF Config, Fields
    <2>4. /\ Prefix(n + 1).cafile = TRUE
          /\ \A f \in Fields \ {"cafile"} : Prefix(n + 1)[f] = Prefix(n)[f]
        <3>1. Prefix(n + 1).cafile = TRUE
            BY <1>0, <2>2 DEF Prefix
        <3>2. \A f \in Fields \ {"cafile"} : Prefix(n + 1)[f] = Prefix(n)[f]
            BY <2>2 DEF Prefix, Fields, Options
        <3>3. QED
            BY <3>1, <3>2
    <2>5. QED
        BY <1>8, <2>3, <2>4 DEF Holds
<1>9. CASE file[n].opt = "tls"
    <2>1. Assign(r, file[n]) = [r EXCEPT ![file[n].opt] = (file[n].val = "true")]
        BY <1>9 DEF Assign, BoolOptions
    <2>2. /\ LastBefore("tls", n + 1) = n
          /\ \A o \in Options \ {"tls"} : LastBefore(o, n + 1) = LastBefore(o, n)
        BY <1>1, <1>9
    <2>3. /\ Assign(r, file[n]).tls = (file[n].val = "true")
          /\ \A f \in Fields \ {"tls"} : Assign(r, file[n])[f] = r[f]
        BY <1>9, <2>1 DEF Config, Fields
    <2>4. /\ Prefix(n + 1).tls = (file[n].val = "true")
          /\ \A f \in Fields \ {"tls"} : Prefix(n + 1)[f] = Prefix(n)[f]
        BY <1>0, <1>9, <2>2 DEF Prefix, Fields, Options
    <2>5. QED
        BY <1>9, <2>3, <2>4 DEF Holds
<1>10. CASE file[n].opt = "remap"
    <2>1. Assign(r, file[n]) = [r EXCEPT ![file[n].opt] = (file[n].val = "true")]
        BY <1>10 DEF Assign, BoolOptions
    <2>2. /\ LastBefore("remap", n + 1) = n
          /\ \A o \in Options \ {"remap"} : LastBefore(o, n + 1) = LastBefore(o, n)
        BY <1>1, <1>10
    <2>3. /\ Assign(r, file[n]).remap = (file[n].val = "true")
          /\ \A f \in Fields \ {"remap"} : Assign(r, file[n])[f] = r[f]
        BY <1>10, <2>1 DEF Config, Fields
    <2>4. /\ Prefix(n + 1).remap = (file[n].val = "true")
          /\ \A f \in Fields \ {"remap"} : Prefix(n + 1)[f] = Prefix(n)[f]
        BY <1>0, <1>10, <2>2 DEF Prefix, Fields, Options
    <2>5. QED
        BY <1>10, <2>3, <2>4 DEF Holds
<1>11. QED
    BY <1>2, <1>3, <1>4, <1>5, <1>6, <1>7, <1>8, <1>9, <1>10 DEF Options, BoolOptions

(* At the end of the file the described config is Expected. *)
LEMMA PrefixEnd ==
    ASSUME file \in Files
    PROVE  /\ \A f \in DOMAIN Expected : Prefix(Len(file) + 1)[f] = Expected[f]
           /\ Prefix(Len(file) + 1).token # "null" <=> Has("token") \/ SaToken
<1>1. \A o : LastBefore(o, Len(file) + 1) = LastLine(o)
    BY LastBeforeEnd, FileIsSeq
<1>2. QED
    BY <1>1 DEF Prefix, Expected, Has
-----------------------------------------------------------------------------
(* A step that leaves the file and the service account alone leaves what
   they describe alone. *)
LEMMA SameInputs ==
    ASSUME file' = file, sa' = sa, envport' = envport
    PROVE  /\ \A n : Prefix(n)' = Prefix(n)
           /\ Expected' = Expected
           /\ FileAccepted' = FileAccepted
           /\ SaToken' = SaToken
           /\ \A o : Has(o)' = Has(o)
<1>1. \A o, n : LastBefore(o, n)' = LastBefore(o, n)
    BY DEF LastBefore, Before, MaxOf
<1>2. \A o : LastLine(o)' = LastLine(o)
    BY DEF LastLine
<1>3. SaToken' = SaToken
    BY DEF SaToken
<1>4. \A o : Has(o)' = Has(o)
    BY <1>2 DEF Has
<1>5. \A n : Prefix(n)' = Prefix(n)
    BY <1>1, <1>3 DEF Prefix
<1>6. Expected' = Expected
    BY <1>2, <1>3, <1>4 DEF Expected
<1>7. QED
    BY <1>3, <1>4, <1>5, <1>6 DEF FileAccepted

(* The initial states satisfy the inductive invariant. *)
LEMMA InitCfgInv ==
    Init => CfgInv
<1> SUFFICES ASSUME Init PROVE CfgInv
    OBVIOUS
<1>1. file \in Files
    <2>1. <<>> \in [1..0 -> Lines]
        OBVIOUS
    <2>2. 0 \in 0..MaxLines
        <3>1. MaxLines \in Nat
            BY ConfigAssumption, Zenon
        <3>2. QED
            BY <3>1
    <2>3. <<>> \in Files
        BY <2>1, <2>2 DEF Files
    <2>4. QED
        BY <2>3 DEF Init
<1>2. Len(file) \in Nat
    BY <1>1, FileIsSeq
<1>3. Zeroed \in Config
    BY DEF Zeroed, Config, Pointer
<1>4. TypeOK
    <2>1. i \in 1..Len(file) + 1
        BY <1>2 DEF Init
    <2>2. QED
        BY <1>1, <1>3, <2>1, Zenon DEF Init, TypeOK
<1>5. QED
    BY <1>4 DEF Init, CfgInv, LoadMatchesReference
(* An option line assigns a value of the field's type. *)
LEMMA AssignType ==
    ASSUME NEW r \in Config, NEW l \in Lines, l.opt \in Options
    PROVE  Assign(r, l) \in Config
<1>1. l.val \in {"true", "false", "bad", "h", "h:p", "v"}
    BY ConfigAssumption, Zenon
<1>2. CASE l.opt = "server"
    BY <1>2 DEF Assign, BoolOptions, Config
<1>3. CASE l.opt = "token"
    BY <1>3 DEF Assign, BoolOptions, Config, Pointer
<1>4. CASE l.opt \in {"certfile", "keyfile", "cafile"}
    BY <1>4 DEF Assign, BoolOptions, Config
<1>5. CASE l.opt \in BoolOptions
    BY <1>5 DEF Assign, BoolOptions, Config
<1>6. QED
    BY <1>2, <1>3, <1>4, <1>5 DEF Options, BoolOptions

(* calloc and the defaults: the config is Started when the service account
   is read. *)
LEMMA LoadStartCfgInv ==
    ASSUME CfgInv, LoadStart
    PROVE  CfgInv'
<1>1. pc = "start" /\ i = 1 /\ ret = Zeroed
    BY DEF LoadStart, CfgInv
<1>2. CASE pc' = "nomem" /\ UNCHANGED ret
    BY <1>2 DEF LoadStart, CfgInv, TypeOK, LoadMatchesReference
<1>3. CASE pc' = "sa" /\ ret' = [ret EXCEPT !.tls = TRUE, !.remap = TRUE, !.port = "443"]
    <2>1. \A f \in Fields : ret'[f] = Started[f]
        BY <1>1, <1>3 DEF Zeroed, Started, Fields
    <2>2. ret' \in Config
        BY <1>1, <1>3 DEF Zeroed, Config, Pointer
    <2>3. TypeOK'
        BY <1>3, <2>2 DEF LoadStart, CfgInv, TypeOK
    <2>4. QED
        BY <1>1, <1>3, <2>1, <2>3 DEF LoadStart, CfgInv, LoadMatchesReference
<1>4. QED
    BY <1>2, <1>3 DEF LoadStart

(* fopen: the loop starts on line 1 with ret as the service account left it. *)
LEMMA OpenFileCfgInv ==
    ASSUME CfgInv, OpenFile
    PROVE  CfgInv'
<1>1. pc = "open" /\ i = 1 /\ given /\ Holds(ret, 1)
    BY DEF OpenFile, CfgInv
<1>2. Holds(ret, i)'
    BY <1>1, SameInputs DEF OpenFile, Holds
<1>3. TypeOK'
    BY DEF OpenFile, CfgInv, TypeOK
<1>4. QED
    BY <1>1, <1>2, <1>3 DEF OpenFile, CfgInv, LoadMatchesReference
(* The service account: before any line, ret is what the service account
   describes; with no config file that is the whole reference. *)
LEMMA ReadServiceAccountCfgInv ==
    ASSUME CfgInv, ReadServiceAccount
    PROVE  CfgInv'
<1>1. pc = "sa" /\ i = 1 /\ \A f \in Fields : ret[f] = Started[f]
    BY DEF ReadServiceAccount, CfgInv
<1>2. PICK s \in SaCases, p \in BOOLEAN :
          /\ sa' = s
          /\ envport' = p
          /\ ret' = IF s \in {"newline", "token"}
                    THEN [ret EXCEPT !.token = "set", !.host = "sa",
                                     !.port = IF p THEN "env" ELSE @]
                    ELSE ret
          /\ ub' = IF s = "newline" /\ ub = "none" THEN "line_underflow" ELSE ub
    BY DEF ReadServiceAccount
<1>3. ret \in Config
    BY DEF CfgInv, TypeOK
<1>4. \A o : LastBefore(o, 1)' = 0
    BY DEF LastBefore, Before, MaxOf
<1>5. Holds(ret, 1)'
    <2>1. SaToken' = (s \in {"newline", "token"})
        BY <1>2 DEF SaToken
    <2>2. \A f \in Fields : ret'[f] = Prefix(1)'[f]
        BY <1>1, <1>2, <1>3, <1>4, <2>1 DEF Prefix, Started, Fields, Config
    <2>3. QED
        BY <2>2 DEF Holds
<1>6. TypeOK'
    <2>1. ret' \in Config
        BY <1>2, <1>3 DEF Config, Pointer
    <2>2. sa' \in SaCases /\ envport' \in BOOLEAN
        BY <1>2
    <2>3. ub' \in {"none", "line_underflow", "null_value"}
        BY <1>2 DEF CfgInv, TypeOK
    <2>4. QED
        BY <2>1, <2>2, <2>3 DEF ReadServiceAccount, CfgInv, TypeOK
<1>7. CASE given
    BY <1>1, <1>5, <1>6, <1>7 DEF ReadServiceAccount, CfgInv, LoadMatchesReference
<1>8. CASE ~given
    <2>1. file' = <<>>
        BY <1>8 DEF ReadServiceAccount, CfgInv
    <2>2. \A o : LastLine(o)' = 0 /\ ~Has(o)'
        BY <2>1 DEF LastLine, Has
    <2>3. \A f \in DOMAIN Expected' : Expected'[f] = Prefix(1)'[f]
        <3>1. /\ Expected'.host = Prefix(1)'.host
              /\ Expected'.port = Prefix(1)'.port
            BY <1>4, <2>2 DEF Expected, Prefix
        <3>2. /\ Expected'.certfile = Prefix(1)'.certfile
              /\ Expected'.keyfile = Prefix(1)'.keyfile
              /\ Expected'.cafile = Prefix(1)'.cafile
            <4>1. ~Has("certfile")' /\ ~Has("keyfile")' /\ ~Has("cafile")'
                BY <2>2
            <4>2. /\ Expected'.certfile = FALSE /\ Expected'.keyfile = FALSE
                  /\ Expected'.cafile = FALSE
                BY <4>1 DEF Expected
            <4>3. /\ Prefix(1)'.certfile = FALSE /\ Prefix(1)'.keyfile = FALSE
                  /\ Prefix(1)'.cafile = FALSE
                <5>1. /\ LastBefore("certfile", 1)' = 0
                      /\ LastBefore("keyfile", 1)' = 0
                      /\ LastBefore("cafile", 1)' = 0
                    BY <1>4
                <5>2. QED
                    BY <5>1 DEF Prefix
            <4>4. QED
                BY <4>2, <4>3
        <3>3. /\ Expected'.tls = Prefix(1)'.tls
              /\ Expected'.remap = Prefix(1)'.remap
            <4>1. ~Has("tls")' /\ ~Has("remap")'
                BY <2>2
            <4>2. Expected'.tls /\ Expected'.remap
                BY <4>1, Zenon DEF Expected
            <4>3. Prefix(1)'.tls /\ Prefix(1)'.remap
                BY <1>4, Zenon DEF Prefix
            <4>4. QED
                BY <4>2, <4>3
        <3>4. DOMAIN Expected' = {"host", "port", "certfile", "keyfile", "cafile", "tls", "remap"}
            BY DEF Expected
        <3>5. QED
            BY <3>1, <3>2, <3>3, <3>4
    <2>4. Prefix(1)'.token # "null" <=> Has("token")' \/ SaToken'
        BY <1>4, <2>2 DEF Prefix
    <2>5. DOMAIN Expected' \subseteq Fields
        BY DEF Expected, Fields
    <2>6. LoadMatchesReference'
        BY <1>5, <1>8, <2>3, <2>4, <2>5 DEF ReadServiceAccount, LoadMatchesReference, Holds, Fields
    <2>7. QED
        BY <1>6, <1>8, <2>1, <2>6 DEF ReadServiceAccount, CfgInv
<1>9. QED
    BY <1>7, <1>8
(* One pass of the fgets loop keeps ret equal to what the lines read so
   far describe, and goes to error only on a line the reference rejects. *)
LEMMA ParseLineCfgInv ==
    ASSUME CfgInv, ParseLine
    PROVE  CfgInv'
<1>1. /\ pc = "loop" /\ given /\ TypeOK /\ Holds(ret, i)
      /\ \A k \in 1..(i - 1) : file[k].opt = "blank" \/ Accepted(file[k])
    BY DEF ParseLine, CfgInv
<1>2. /\ file \in Files /\ Len(file) \in Nat /\ i \in 1..Len(file)
      /\ ret \in Config /\ ub \in {"none", "line_underflow", "null_value"}
    BY <1>1, FileIsSeq DEF ParseLine, TypeOK
<1>3. file[i].opt \in Options \cup {"#", "blank", "other"}
    BY <1>2, LineFields
<1>4. /\ \A n : Prefix(n)' = Prefix(n)
      /\ FileAccepted' = FileAccepted
    BY SameInputs DEF ParseLine
<1>5. ASSUME file[i].opt = "blank" \/ Accepted(file[i]),
             ret' = (IF file[i].opt \in {"#", "blank"} THEN ret ELSE Assign(ret, file[i])),
             i' = i + 1, pc' = pc,
             ub' \in {"none", "line_underflow", "null_value"}
      PROVE  CfgInv'
    <2>1. Holds(ret', i + 1)
        BY <1>1, <1>2, <1>5, PrefixStep
    <2>2. Holds(ret, i)'
        BY <1>4, <1>5, <2>1 DEF Holds
    <2>3. \A k \in 1..(i' - 1) : file'[k].opt = "blank" \/ Accepted(file'[k])
        BY <1>1, <1>2, <1>5 DEF ParseLine
    <2>4. ret' \in Config
        BY <1>2, <1>3, <1>5, LineFields, AssignType DEF Accepted
    <2>5. TypeOK'
        BY <1>1, <1>2, <1>5, <2>4 DEF ParseLine, TypeOK
    <2>6. QED
        BY <1>1, <1>5, <2>2, <2>3, <2>5 DEF ParseLine, CfgInv, LoadMatchesReference
<1>6. CASE /\ file[i].opt = "blank"
           /\ ub' = IF ub = "none" THEN "line_underflow" ELSE ub
           /\ i' = i + 1
           /\ UNCHANGED <<pc, ret>>
    BY <1>2, <1>6, <1>5
<1>7. CASE /\ Accepted(file[i])
           /\ ret' = IF file[i].opt = "#" THEN ret ELSE Assign(ret, file[i])
           /\ i' = i + 1
           /\ UNCHANGED <<pc, ub>>
    <2>1. file[i].opt # "blank"
        BY <1>7 DEF Accepted, Options
    <2>2. QED
        BY <1>2, <1>7, <2>1, <1>5
<1>8. CASE /\ file[i].opt \in Options
           /\ ~file[i].colon
           /\ pc' = "crashed"
           /\ ub' = IF ub = "none" THEN "null_value" ELSE ub
           /\ UNCHANGED <<i, ret>>
    <2>1. TypeOK'
        BY <1>1, <1>2, <1>8 DEF ParseLine, TypeOK
    <2>2. QED
        BY <1>8, <2>1 DEF ParseLine, CfgInv, LoadMatchesReference
<1>9. CASE /\ file[i].opt \in {"other"} \cup BoolOptions
           /\ file[i].colon \/ file[i].opt = "other"
           /\ ~Accepted(file[i])
           /\ pc' = "error"
           /\ UNCHANGED <<i, ret, ub>>
    <2>1. ~FileAccepted
        BY <1>2, <1>9 DEF FileAccepted, BoolOptions
    <2>2. TypeOK'
        BY <1>1, <1>9 DEF ParseLine, TypeOK
    <2>3. QED
        BY <1>1, <1>4, <1>9, <2>1, <2>2 DEF ParseLine, CfgInv, LoadMatchesReference
<1>10. QED
    BY <1>6, <1>7, <1>8, <1>9 DEF ParseLine
(* The checks after the loop: ret is then Expected, so the checks fail
   exactly when the reference rejects the file. *)
LEMMA ChecksCfgInv ==
    ASSUME CfgInv, Checks
    PROVE  CfgInv'
<1>1. /\ pc = "loop" /\ given /\ TypeOK /\ Holds(ret, i)
      /\ \A k \in 1..(i - 1) : file[k].opt = "blank" \/ Accepted(file[k])
    BY DEF Checks, CfgInv
<1>2. /\ file \in Files /\ Len(file) \in Nat /\ i = Len(file) + 1
      /\ ret \in Config
    BY <1>1, FileIsSeq DEF Checks, TypeOK
<1>3. /\ \A f \in DOMAIN Expected : ret[f] = Expected[f]
      /\ ret.token # "null" <=> Has("token") \/ SaToken
    <2>1. /\ \A f \in DOMAIN Expected : Prefix(Len(file) + 1)[f] = Expected[f]
          /\ Prefix(Len(file) + 1).token # "null" <=> Has("token") \/ SaToken
        BY <1>2, PrefixEnd
    <2>2. DOMAIN Expected \subseteq Fields
        BY DEF Expected, Fields
    <2>3. "token" \in Fields
        BY DEF Fields
    <2>4. QED
        BY <1>1, <1>2, <2>1, <2>2, <2>3 DEF Holds
<1> DEFINE r == IF ret.keyfile /\ ret.token = "set"
                THEN [ret EXCEPT !.token = "freed"] ELSE ret
           bad == \/ r.keyfile /\ ~r.certfile
                  \/ r.certfile /\ ~r.keyfile
                  \/ r.token = "null" /\ ~r.keyfile
                  \/ r.host = "null"
<1>4. ret' = r /\ pc' = IF bad THEN "error" ELSE "done"
    BY DEF Checks
<1>5. /\ r \in Config
      /\ \A f \in Fields \ {"token"} : r[f] = ret[f]
      /\ r.token # "null" <=> ret.token # "null"
    BY <1>2 DEF Config, Pointer, Fields
<1>6. /\ \A f \in DOMAIN Expected : r[f] = Expected[f]
      /\ r.token # "null" <=> Has("token") \/ SaToken
    <2>1. DOMAIN Expected \subseteq Fields \ {"token"}
        BY DEF Expected, Fields
    <2>2. QED
        BY <1>3, <1>5, <2>1
<1>7. bad <=> ~FileAccepted
    <2>1. /\ r.keyfile = Expected.keyfile /\ r.certfile = Expected.certfile
          /\ r.host = Expected.host
        BY <1>6 DEF Expected
    <2>2. Expected.keyfile \in BOOLEAN /\ Expected.certfile \in BOOLEAN
        BY DEF Expected, Has
    <2>3. \A k \in 1..Len(file) : file[k].opt = "blank" \/ Accepted(file[k])
        BY <1>1, <1>2
    <2>4. QED
        BY <1>6, <2>1, <2>2, <2>3 DEF FileAccepted
<1>8. /\ Expected' = Expected /\ FileAccepted' = FileAccepted
      /\ SaToken' = SaToken /\ Has("token")' = Has("token")
    BY SameInputs DEF Checks
<1>9. TypeOK'
    BY <1>1, <1>4, <1>5 DEF Checks, TypeOK
<1>10. LoadMatchesReference'
    BY <1>1, <1>4, <1>6, <1>7, <1>8 DEF Checks, LoadMatchesReference
<1>11. QED
    BY <1>4, <1>9, <1>10 DEF Checks, CfgInv
-----------------------------------------------------------------------------
(* Every step of k8s_config_load, and a stutter, keeps CfgInv. *)
LEMMA NextCfgInv ==
    CfgInv /\ [Next]_vars => CfgInv'
<1> SUFFICES ASSUME CfgInv, [Next]_vars PROVE CfgInv'
    OBVIOUS
<1>1. CASE LoadStart
    BY <1>1, LoadStartCfgInv
<1>2. CASE ReadServiceAccount
    BY <1>2, ReadServiceAccountCfgInv
<1>3. CASE OpenFile
    BY <1>3, OpenFileCfgInv
<1>4. CASE ParseLine
    BY <1>4, ParseLineCfgInv
<1>5. CASE Checks
    BY <1>5, ChecksCfgInv
<1>6. CASE UNCHANGED vars
    <2>1. /\ \A n : Prefix(n)' = Prefix(n)
          /\ Expected' = Expected /\ FileAccepted' = FileAccepted
          /\ SaToken' = SaToken /\ \A o : Has(o)' = Has(o)
        BY <1>6, SameInputs DEF vars
    <2>2. QED
        BY <1>6, <2>1 DEF vars, CfgInv, TypeOK, Holds, LoadMatchesReference
<1>7. QED
    BY <1>1, <1>2, <1>3, <1>4, <1>5, <1>6 DEF Next

(* CfgInv holds in every reachable state of k8s_config_load. *)
THEOREM CfgInvariant ==
    Spec => []CfgInv
BY InitCfgInv, NextCfgInv, PTL DEF Spec

(* k8s_config_load keeps its variables in their types: every pointer field
   of the config is NULL, set or freed, the line counter stays within the
   file plus one. *)
THEOREM ConfigTypeCorrect ==
    Spec => []TypeOK
<1>1. CfgInv => TypeOK
    BY DEF CfgInv
<1>2. QED
    BY CfgInvariant, <1>1, PTL

(* Whenever k8s_config_load returns, it returns exactly the configuration
   the config file and the service account describe, the last line of an
   option deciding its value, and it returns NULL exactly when a config
   file was given that is malformed or incomplete: the fgets loop, the
   service-account branch and the checks after the loop agree with the
   declarative reading of the file for every file length and every set
   of line kinds. *)
THEOREM LoadCorrect ==
    Spec => []LoadMatchesReference
<1>1. CfgInv => LoadMatchesReference
    BY DEF CfgInv
<1>2. QED
    BY CfgInvariant, <1>1, PTL

====
