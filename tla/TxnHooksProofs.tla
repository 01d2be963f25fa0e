--------------------------- MODULE TxnHooksProofs ---------------------------
(***************************************************************************)
(* Proofs about the hook chain of TxnHooks, for both values of             *)
(* ServerRespMayFail.                                                      *)
(*                                                                         *)
(* None of the three safety properties is inductive, because each depends  *)
(* on which continuations are still to run on the current hook:            *)
(*  - set_headers may free the hash at TXN_CLOSE only if it did not free   *)
(*    it before, and reads it at SEND_RESPONSE_HDR only if close has not   *)
(*    come;                                                                *)
(*  - server_push may push at READ_RESPONSE_HDR only if it did not push    *)
(*    at the cache lookup;                                                 *)
(*  - the response may be stored with Set-Cookie unless                    *)
(*    check_response_cache is still to run on READ_RESPONSE_HDR.           *)
(* IInv gives the shapes hooks and pending can take, and ties the hash,    *)
(* the push count and the cache setting to them.                           *)
(***************************************************************************)
EXTENDS TxnHooks, SequenceTheorems, TLAPS

RrhSeqs == {<<>>, <<"check_response_cache">>, <<"server_push">>,
            <<"server_push", "check_response_cache">>}

SendSeqs == {<<>>, <<"add_cache_status">>, <<"set_headers">>,
             <<"set_headers", "add_cache_status">>}

(* What handle_remap may have added to each hook. *)
HooksShape ==
    /\ phase = "start" => hooks = [h \in Hooks |-> <<>>]
    /\ phase # "start" =>
          /\ hooks["clc"] \in {<<>>, <<"server_push">>}
          /\ hooks["rrh"] \in RrhSeqs
          /\ hooks["send"] \in {<<"set_headers">>, <<"set_headers", "add_cache_status">>}
          /\ hooks["close"] = <<"set_headers">>

(* The continuations still to run are a suffix of the current hook's. *)
PendingShape ==
    /\ phase \in {"start", "remapped", "closed"} => pending = <<>>
    /\ phase = "clc" => pending \in {<<>>, <<"server_push">>}
    /\ phase = "rrh" => pending \in RrhSeqs
    /\ phase = "send" => pending \in SendSeqs
    /\ phase = "close" => pending \in {<<>>, <<"set_headers">>}

(* set_headers has run on TXN_CLOSE. *)
CloseDone == phase = "closed" \/ (phase = "close" /\ pending = <<>>)

(* The hash is owned by set_headers_cont until its close, or was freed by
   handle_remap's cleanup, and the free count follows. *)
Ownership ==
    /\ phase = "start" => ~hasHdrs
    /\ inCont => hasHdrs
    /\ hasHdrs /\ ~inCont => freed
    /\ inCont => (freed <=> CloseDone)
    /\ ~hasHdrs => ~freed
    /\ frees = IF freed THEN 1 ELSE 0
    /\ ~readFreed

(* server_push has pushed nothing while it may still push. *)
PushInv ==
    /\ pushes \in 0..1
    /\ phase \in {"start", "remapped"} => pushes = 0
    /\ phase = "clc" /\ ~PushesFrom(cstatus) => pushes = 0
    /\ phase \in {"clc", "rrh"} /\ pending # <<>> /\ Head(pending) = "server_push"
          => pushes = 0

(* Caching is on for a remapped request only if its cookies allowed it and
   check_response_cache is on READ_RESPONSE_HDR, and it is still to run
   whenever Set-Cookie has been seen with caching on. *)
CacheInv ==
    /\ result = "ok" /\ cacheOn =>
          /\ CheckCookies(cookieHdr)
          /\ hooks["rrh"] \in {<<"check_response_cache">>,
                               <<"server_push", "check_response_cache">>}
    /\ phase = "rrh" /\ result = "ok" /\ cacheOn /\ setCookie =>
          pending \in {<<"check_response_cache">>,
                       <<"server_push", "check_response_cache">>}
    /\ stored => phase \in {"send", "close", "closed"}
    /\ stored /\ result = "ok" => CheckCookies(cookieHdr) /\ ~setCookie

IInv == TypeOK /\ HooksShape /\ PendingShape /\ Ownership /\ PushInv /\ CacheInv

-----------------------------------------------------------------------------
LEMMA InitIInv == Init => IInv
<1> SUFFICES ASSUME Init PROVE IInv
    OBVIOUS
<1>1. TypeOK
    <2>1. hooks \in [Hooks -> Seq(Conts)] /\ pending \in Seq(Conts)
        BY DEF Init
    <2>2. phase \in Phases /\ result \in Results \cup {"nourl", "none"}
          /\ cstatus \in CacheStatuses \cup {"none"}
        BY DEF Init, Phases
    <2>3. /\ setCookie \in BOOLEAN /\ stored \in BOOLEAN
          /\ hasHdrs \in BOOLEAN /\ inCont \in BOOLEAN
          /\ freed \in BOOLEAN /\ readFreed \in BOOLEAN
        BY Zenon DEF Init
    <2>4. frees \in Nat /\ pushes \in Nat /\ live \subseteq Conts
        BY DEF Init
    <2>5. QED
        BY Zenon, <2>1, <2>2, <2>3, <2>4 DEF Init, TypeOK
<1>2. HooksShape /\ PendingShape /\ Ownership /\ PushInv /\ CacheInv
    BY DEF Init, HooksShape, PendingShape, Ownership, CloseDone, PushInv, CacheInv
<1>3. QED
    BY <1>1, <1>2 DEF IInv

(* The invariant's definitions, for the steps below. *)
USE DEF IInv, TypeOK, HooksShape, PendingShape, Ownership, CloseDone, PushInv,
        CacheInv, RrhSeqs, SendSeqs, Hooks, Conts, Phases

(* Concatenations of the one-element sequences handle_remap builds. *)
LEMMA ConcatCases ==
    ASSUME NEW a, NEW b
    PROVE  /\ <<>> \o <<b>> = <<b>>
           /\ <<a>> \o <<b>> = <<a, b>>
           /\ <<a>> \o <<>> = <<a>>
           /\ <<>> \o <<>> = <<>>
<1>1. <<>> \o <<b>> = <<b>>
    OBVIOUS
<1>2. <<a>> \o <<b>> = <<a, b>>
    <2>1. <<a>> \in Seq({a, b}) /\ <<b>> \in Seq({a, b}) /\ <<a, b>> \in Seq({a, b})
        OBVIOUS
    <2>2. /\ <<a>> \o <<b>> \in Seq({a, b})
          /\ Len(<<a>> \o <<b>>) = 2
          /\ \A i \in 1..2 : (<<a>> \o <<b>>)[i] = IF i <= 1 THEN a ELSE b
        BY <2>1, ConcatProperties
    <2>3. Len(<<a, b>>) = 2 /\ <<a, b>>[1] = a /\ <<a, b>>[2] = b
        OBVIOUS
    <2>4. \A i \in 1..Len(<<a>> \o <<b>>) : (<<a>> \o <<b>>)[i] = <<a, b>>[i]
        BY <2>2, <2>3
    <2>5. QED
        BY <2>1, <2>2, <2>3, <2>4, SeqEqual
<1>3. <<a>> \o <<>> = <<a>>
    <2>1. <<a>> \in Seq({a})
        OBVIOUS
    <2>2. QED
        BY <2>1, ConcatEmptySeq
<1>4. <<>> \o <<>> = <<>>
    OBVIOUS
<1>5. QED
    BY <1>1, <1>2, <1>3, <1>4

(* The sequences of continuations a hook may hold. *)
LEMMA HookSeqsTyped ==
    /\ {<<>>, <<"server_push">>} \subseteq Seq(Conts)
    /\ RrhSeqs \subseteq Seq(Conts)
    /\ SendSeqs \subseteq Seq(Conts)
    /\ {<<"set_headers">>, <<"set_headers", "add_cache_status">>} \subseteq Seq(Conts)
BY DEF Conts, RrhSeqs, SendSeqs

LEMMA HandleRemapIInv == IInv /\ HandleRemap => IInv'
<1> SUFFICES ASSUME IInv, HandleRemap PROVE IInv'
    OBVIOUS
<1>1. PICK r \in Results, h, urlOk, push, cache \in BOOLEAN :
          LET hdrs    == h /\ r \in {"synthetic", "ok"}
              ok      == r = "ok" /\ urlOk
              toCont  == hdrs /\ (r = "synthetic" \/ ok)
              inRes   == hdrs /\ LeftInResult(r, ok)
              checked == ok /\ cache /\ CheckCookies(cookieHdr)
              pushC   == IF ok /\ push THEN <<"server_push">> ELSE <<>>
          IN
          /\ result' = IF r = "ok" /\ ~urlOk THEN "nourl" ELSE r
          /\ hasHdrs' = hdrs
          /\ inCont' = toCont
          /\ freed' = inRes
          /\ frees' = IF inRes THEN 1 ELSE 0
          /\ hooks' = [hooks EXCEPT
                !["clc"]   = pushC,
                !["rrh"]   = pushC \o (IF checked THEN <<"check_response_cache">> ELSE <<>>),
                !["send"]  = <<"set_headers">> \o
                             (IF ok /\ cache THEN <<"add_cache_status">> ELSE <<>>),
                !["close"] = <<"set_headers">>]
          /\ live' = {"set_headers"}
                     \cup (IF ok /\ push THEN {"server_push"} ELSE {})
                     \cup (IF ok /\ cache THEN {"add_cache_status"} ELSE {})
                     \cup (IF checked THEN {"check_response_cache"} ELSE {})
          /\ cacheOn' = IF ok THEN checked ELSE cacheOn
    BY DEF HandleRemap
<1> DEFINE ok == r = "ok" /\ urlOk
           checked == ok /\ cache /\ CheckCookies(cookieHdr)
<1> DEFINE pushC == IF ok /\ push THEN <<"server_push">> ELSE <<>>
           crc == IF checked THEN <<"check_response_cache">> ELSE <<>>
           acs == IF ok /\ cache THEN <<"add_cache_status">> ELSE <<>>
<1>2. /\ hooks'["clc"] = pushC
      /\ hooks'["rrh"] = pushC \o crc
      /\ hooks'["send"] = <<"set_headers">> \o acs
      /\ hooks'["close"] = <<"set_headers">>
      /\ hooks' = [k \in Hooks |-> hooks'[k]]
    BY <1>1
<1>3. /\ pushC \in {<<>>, <<"server_push">>}
      /\ pushC \o crc \in RrhSeqs
      /\ checked => pushC \o crc \in {<<"check_response_cache">>,
                                       <<"server_push", "check_response_cache">>}
      /\ <<"set_headers">> \o acs \in {<<"set_headers">>, <<"set_headers", "add_cache_status">>}
    BY ConcatCases
<1>4. phase = "start" /\ phase' = "remapped" /\ pending' = pending /\ pending = <<>>
      /\ UNCHANGED <<stalled, cookieHdr, cstatus, setCookie, stored, readFreed, pushes>>
    BY DEF HandleRemap
<1>5. hooks' \in [Hooks -> Seq(Conts)]
    <2>1. \A k \in Hooks : hooks'[k] \in Seq(Conts)
        BY <1>2, <1>3, HookSeqsTyped
    <2>2. QED
        BY <2>1, <1>2, Zenon
<1>6. TypeOK'
    BY <1>1, <1>4, <1>5 DEF Results
<1>7. (HooksShape /\ PendingShape)'
    BY <1>2, <1>3, <1>4
<1>8. Ownership'
    BY <1>1, <1>4 DEF LeftInResult
<1>9. PushInv'
    BY <1>4
<1>10. CacheInv'
    <2>1. result' = "ok" /\ cacheOn' => CheckCookies(cookieHdr') /\ checked
        BY <1>1, <1>4
    <2>2. QED
        BY <2>1, <1>2, <1>3, <1>4
<1>11. QED
    BY <1>6, <1>7, <1>8, <1>9, <1>10

(* Head and Tail of the continuation lists a hook can hold. *)
LEMMA HeadTailCases ==
    ASSUME NEW a, NEW b
    PROVE  /\ Head(<<a>>) = a /\ Tail(<<a>>) = <<>>
           /\ Head(<<a, b>>) = a /\ Tail(<<a, b>>) = <<b>>
           /\ <<a>> # <<>> /\ <<a, b>> # <<>>
OBVIOUS

LEMMA CacheLookupIInv == IInv /\ CacheLookup => IInv'
<1> SUFFICES ASSUME IInv, CacheLookup PROVE IInv'
    OBVIOUS
<1>1. /\ phase = "remapped" /\ phase' = "clc" /\ pending = <<>>
      /\ pending' = hooks["clc"] /\ cstatus' \in CacheStatuses
    BY DEF CacheLookup, Idle, Deliver, CacheStatuses
<1>2. UNCHANGED <<hooks, stalled, result, cookieHdr, cacheOn, setCookie, stored,
                  hasHdrs, inCont, freed, frees, readFreed, pushes, live>>
    BY DEF CacheLookup, hdrVars
<1>3. QED
    BY <1>1, <1>2, HeadTailCases DEF CacheStatuses

LEMMA OriginResponseIInv == IInv /\ OriginResponse => IInv'
<1> SUFFICES ASSUME IInv, OriginResponse PROVE IInv'
    OBVIOUS
<1>1. /\ phase = "clc" /\ phase' = "rrh" /\ pending = <<>> /\ ~PushesFrom(cstatus)
      /\ pending' = hooks["rrh"] /\ setCookie' \in BOOLEAN
    BY DEF OriginResponse, Idle, Deliver, PushesFrom
<1>2. UNCHANGED <<hooks, stalled, result, cookieHdr, cacheOn, cstatus, stored,
                  hasHdrs, inCont, freed, frees, readFreed, pushes, live>>
    BY DEF OriginResponse, hdrVars
<1>3. QED
    BY <1>1, <1>2, HeadTailCases

LEMMA SendResponseIInv == IInv /\ SendResponse => IInv'
<1> SUFFICES ASSUME IInv, SendResponse PROVE IInv'
    OBVIOUS
<1>1. /\ phase \in {"clc", "rrh"} /\ phase' = "send" /\ pending = <<>>
      /\ pending' = hooks["send"] /\ stored' = (phase = "rrh" /\ cacheOn)
    BY DEF SendResponse, Idle, Deliver
<1>2. UNCHANGED <<hooks, stalled, result, cookieHdr, cacheOn, cstatus, setCookie,
                  hasHdrs, inCont, freed, frees, readFreed, pushes, live>>
    BY DEF SendResponse, hdrVars
<1>3. stored' /\ result = "ok" => CheckCookies(cookieHdr) /\ ~setCookie
    BY <1>1, HeadTailCases
<1>4. QED
    BY <1>1, <1>2, <1>3

LEMMA CloseIInv == IInv /\ Close => IInv'
<1> SUFFICES ASSUME IInv, Close PROVE IInv'
    OBVIOUS
<1>1. /\ phase \in {"remapped", "clc", "rrh", "send"} /\ phase' = "close"
      /\ pending = <<>> /\ pending' = hooks["close"]
    BY DEF Close, Idle, Deliver
<1>2. UNCHANGED <<hooks, stalled, result, cookieHdr, cacheOn, cstatus, setCookie,
                  stored, hasHdrs, inCont, freed, frees, readFreed, pushes, live>>
    BY DEF Close, hdrVars
<1>3. pending' = <<"set_headers">> /\ ~CloseDone /\ ~CloseDone'
    BY <1>1, <1>2, HeadTailCases
<1>4. TypeOK' /\ HooksShape' /\ PendingShape'
    BY <1>1, <1>2, <1>3
<1>5. Ownership'
    BY <1>1, <1>2, <1>3
<1>6. PushInv' /\ CacheInv'
    BY <1>1, <1>2, <1>3
<1>7. QED
    BY <1>4, <1>5, <1>6

LEMMA ClosedIInv == IInv /\ Closed => IInv'
<1> SUFFICES ASSUME IInv, Closed PROVE IInv'
    OBVIOUS
<1>1. phase = "close" /\ phase' = "closed" /\ pending = <<>>
    BY DEF Closed, Idle
<1>2. UNCHANGED <<hooks, pending, stalled, result, cookieHdr, cacheOn, cstatus,
                  setCookie, stored, hasHdrs, inCont, freed, frees, readFreed,
                  pushes, live>>
    BY DEF Closed, hdrVars
<1>3. QED
    BY <1>1, <1>2

(* The continuation k heads the current hook's list only on the hooks
   handle_remap added it to. *)
LEMMA CalledWhere ==
    ASSUME IInv, NEW k \in Conts, Called(k)
    PROVE  /\ phase \in {"clc", "rrh", "send", "close"}
           /\ k = "server_push" => \/ phase = "clc" /\ pending = <<"server_push">>
                                   \/ phase = "rrh" /\ pending = <<"server_push">>
                                   \/ phase = "rrh"
                                      /\ pending = <<"server_push", "check_response_cache">>
           /\ k = "check_response_cache" =>
                 phase = "rrh" /\ pending = <<"check_response_cache">>
           /\ k = "set_headers" =>
                 \/ phase = "send" /\ pending = <<"set_headers">>
                 \/ phase = "send" /\ pending = <<"set_headers", "add_cache_status">>
                 \/ phase = "close" /\ pending = <<"set_headers">>
           /\ k = "add_cache_status" =>
                 phase = "send" /\ pending = <<"add_cache_status">>
BY HeadTailCases DEF Called

LEMMA SetHeadersIInv == IInv /\ SetHeaders => IInv'
<1> SUFFICES ASSUME IInv, SetHeaders PROVE IInv'
    OBVIOUS
<1>1. UNCHANGED <<phase, hooks, stalled, result, cookieHdr, cacheOn, cstatus,
                  setCookie, stored, hasHdrs, inCont, pushes, live>>
    BY DEF SetHeaders
<1>2. CASE phase = "send"
    <2>1. /\ pending \in {<<"set_headers">>, <<"set_headers", "add_cache_status">>}
          /\ readFreed' = (readFreed \/ (inCont /\ freed))
          /\ UNCHANGED <<freed, frees>> /\ pending' = Tail(pending)
        BY <1>2, CalledWhere DEF SetHeaders, Reenable
    <2>2. pending' \in {<<>>, <<"add_cache_status">>} /\ ~CloseDone
        BY <1>2, <2>1, HeadTailCases
    <2>3. TypeOK'
        BY <1>1, <1>2, <2>1, <2>2, HookSeqsTyped
    <2>7. HooksShape' /\ PendingShape'
        BY <1>1, <1>2, <2>1, <2>2
    <2>4. Ownership'
        BY <1>1, <1>2, <2>1, <2>2
    <2>5. PushInv' /\ CacheInv'
        BY <1>1, <1>2, <2>1, <2>2
    <2>6. QED
        BY <2>3, <2>7, <2>4, <2>5
<1>3. CASE phase = "close"
    <2>1. /\ pending = <<"set_headers">> /\ pending' = <<>>
          /\ freed' = (freed \/ inCont)
          /\ frees' = frees + (IF inCont THEN 1 ELSE 0)
          /\ UNCHANGED readFreed
        BY <1>3, CalledWhere, HeadTailCases DEF SetHeaders, Reenable
    <2>2. QED
        BY <1>1, <1>3, <2>1
<1>4. QED
    BY <1>2, <1>3, CalledWhere DEF SetHeaders

LEMMA ServerPushIInv == IInv /\ ServerPush => IInv'
<1> SUFFICES ASSUME IInv, ServerPush PROVE IInv'
    OBVIOUS
<1>1. UNCHANGED <<phase, hooks, stalled, result, cookieHdr, cacheOn, cstatus,
                  setCookie, stored, hasHdrs, inCont, freed, frees, readFreed, live>>
    BY DEF ServerPush, hdrVars
<1>2. /\ Called("server_push")
      /\ pending' = Tail(pending)
      /\ \/ phase = "clc" /\ pending = <<"server_push">>
         \/ phase = "rrh" /\ pending = <<"server_push">>
         \/ phase = "rrh" /\ pending = <<"server_push", "check_response_cache">>
    BY CalledWhere DEF ServerPush, Reenable
<1>3. pushes = 0
    BY <1>2, HeadTailCases
<1>4. /\ pushes' \in 0..1
      /\ phase = "clc" /\ ~PushesFrom(cstatus) => pushes' = 0
    <2>1. CASE phase = "clc" /\ ~PushesFrom(cstatus) /\ UNCHANGED pushes
        BY <1>3, <2>1
    <2>2. CASE /\ phase = "rrh" \/ PushesFrom(cstatus)
               /\ \E got \in RespGot : pushes' = pushes + (IF got THEN 1 ELSE 0)
        <3>1. PICK got \in RespGot : pushes' = pushes + (IF got THEN 1 ELSE 0)
            BY <2>2
        <3>2. QED
            BY <1>3, <2>2, <3>1 DEF RespGot
    <2>3. QED
        BY <2>1, <2>2 DEF ServerPush
<1>5. \/ phase = "clc" /\ pending' = <<>>
      \/ phase = "rrh" /\ pending' = <<>>
      \/ phase = "rrh" /\ pending = <<"server_push", "check_response_cache">>
                       /\ pending' = <<"check_response_cache">>
    <2>1. CASE pending = <<"server_push">>
        BY <1>2, <2>1, HeadTailCases
    <2>2. CASE pending = <<"server_push", "check_response_cache">>
        BY <1>2, <2>2, HeadTailCases
    <2>3. QED
        BY <1>2, <2>1, <2>2
<1>6. TypeOK'
    <2>1. pending' \in RrhSeqs
        BY <1>5
    <2>2. pending' \in Seq(Conts)
        BY <2>1, HookSeqsTyped
    <2>3. pushes' \in Nat
        BY <1>4
    <2>4. QED
        BY <1>1, <2>2, <2>3
<1>11. HooksShape' /\ PendingShape'
    BY <1>1, <1>5
<1>7. Ownership'
    BY <1>1, <1>5
<1>8. PushInv'
    <2>1. phase \in {"clc", "rrh"} /\ pending' # <<>> => Head(pending') # "server_push"
        BY <1>5, HeadTailCases
    <2>2. PushesFrom(cstatus)' = PushesFrom(cstatus)
        BY <1>1 DEF PushesFrom
    <2>3. QED
        BY <1>1, <1>2, <1>4, <1>5, <2>1, <2>2
<1>9. CacheInv'
    <2>1. <<"server_push">> \notin {<<"check_response_cache">>,
                                    <<"server_push", "check_response_cache">>}
        BY HeadTailCases
    <2>2. CheckCookies(cookieHdr)' = CheckCookies(cookieHdr)
        BY <1>1 DEF CheckCookies, ShouldIgnoreCookie
    <2>3. phase = "rrh" /\ result = "ok" /\ cacheOn /\ setCookie
             => pending' \in {<<"check_response_cache">>,
                              <<"server_push", "check_response_cache">>}
        <3>1. CASE phase = "rrh" /\ pending = <<"server_push">>
            BY <3>1, <2>1
        <3>2. CASE pending = <<"server_push", "check_response_cache">>
            BY <1>2, <3>2, HeadTailCases
        <3>3. CASE phase = "clc"
            BY <3>3
        <3>4. QED
            BY <1>2, <3>1, <3>2, <3>3
    <2>4. (result = "ok" /\ cacheOn
              => /\ CheckCookies(cookieHdr)
                 /\ hooks["rrh"] \in {<<"check_response_cache">>,
                                      <<"server_push", "check_response_cache">>})'
        BY <1>1, <2>2
    <2>5. (stored => phase \in {"send", "close", "closed"})'
        BY <1>1
    <2>6. (stored /\ result = "ok" => CheckCookies(cookieHdr) /\ ~setCookie)'
        BY <1>1, <2>2
    <2>7. QED
        BY <1>1, <2>3, <2>4, <2>5, <2>6
<1>10. QED
    BY <1>6, <1>11, <1>7, <1>8, <1>9

LEMMA AddCacheStatusIInv == IInv /\ AddCacheStatus => IInv'
<1> SUFFICES ASSUME IInv, AddCacheStatus PROVE IInv'
    OBVIOUS
<1>1. phase = "send" /\ pending' = <<>>
    BY CalledWhere, HeadTailCases DEF AddCacheStatus, Reenable
<1>2. UNCHANGED <<phase, hooks, stalled, result, cookieHdr, cacheOn, cstatus,
                  setCookie, stored, hasHdrs, inCont, freed, frees, readFreed,
                  pushes, live>>
    BY DEF AddCacheStatus, hdrVars
<1>3. QED
    BY <1>1, <1>2

LEMMA CheckResponseCacheIInv == IInv /\ CheckResponseCache => IInv'
<1> SUFFICES ASSUME IInv, CheckResponseCache PROVE IInv'
    OBVIOUS
<1>1. phase = "rrh" /\ pending = <<"check_response_cache">>
    BY CalledWhere DEF CheckResponseCache
<1>2. UNCHANGED <<phase, hooks, result, cookieHdr, cstatus, setCookie, stored,
                  hasHdrs, inCont, freed, frees, readFreed, pushes, live>>
    BY DEF CheckResponseCache, hdrVars
<1>3. \/ stalled' = TRUE /\ UNCHANGED <<pending, cacheOn>>
      \/ cacheOn' = (cacheOn /\ ~setCookie) /\ pending' = <<>> /\ UNCHANGED stalled
    BY <1>1, HeadTailCases DEF CheckResponseCache, Reenable
<1>4. CASE stalled' = TRUE /\ UNCHANGED <<pending, cacheOn>>
    BY <1>1, <1>2, <1>4
<1>5. CASE cacheOn' = (cacheOn /\ ~setCookie) /\ pending' = <<>> /\ UNCHANGED stalled
    <2>1. TypeOK' /\ HooksShape' /\ PendingShape'
        BY <1>1, <1>2, <1>5
    <2>2. Ownership' /\ PushInv'
        BY <1>1, <1>2, <1>5
    <2>3. CacheInv'
        BY <1>1, <1>2, <1>5
    <2>4. QED
        BY <2>1, <2>2, <2>3
<1>6. QED
    BY <1>3, <1>4, <1>5

LEMMA NextIInv == IInv /\ [Next]_vars => IInv'
<1> SUFFICES ASSUME IInv, [Next]_vars PROVE IInv'
    OBVIOUS
<1>1. CASE UNCHANGED vars
    BY <1>1 DEF vars
<1>2. QED
    BY <1>1, HandleRemapIInv, CacheLookupIInv, OriginResponseIInv,
       SendResponseIInv, CloseIInv, ClosedIInv, SetHeadersIInv, ServerPushIInv,
       AddCacheStatusIInv, CheckResponseCacheIInv DEF Next

HIDE DEF IInv, TypeOK, HooksShape, PendingShape, Ownership, CloseDone, PushInv,
        CacheInv, RrhSeqs, SendSeqs, Hooks, Conts, Phases

-----------------------------------------------------------------------------
(* handle_remap's cleanup and set_headers' TXN_CLOSE branch together free a
   transaction's rz_headers hash once, never twice, and set_headers never
   copies it into the response after it was freed. *)
THEOREM HeadersFreedOnce == Spec => []HeaderSetOwnership
<1>1. Init => IInv
    BY InitIInv
<1>2. IInv /\ [Next]_vars => IInv'
    BY NextIInv
<1>3. IInv => HeaderSetOwnership
    BY DEF IInv, TypeOK, Ownership, CloseDone, HeaderSetOwnership
<1>4. QED
    BY <1>1, <1>2, <1>3, PTL DEF Spec

(* server_push, on both CACHE_LOOKUP_COMPLETE and READ_RESPONSE_HDR, pushes
   from at most one response, because it pushes at the cache lookup only on
   a fresh hit, after which the origin is never asked. *)
THEOREM PushOnce == Spec => []PushedOnce
<1>1. IInv => PushedOnce
    BY DEF IInv, PushInv, PushedOnce
<1>2. QED
    BY <1>1, InitIInv, NextIInv, PTL DEF Spec

(* A remapped request's response is cached only if check_cookies found no
   cookie but ignored ones and check_response_cache found no Set-Cookie. *)
THEOREM CachedCookieFree == Spec => []CacheOnlyCookieFree
<1>1. IInv => CacheOnlyCookieFree
    <2> SUFFICES ASSUME IInv, stored, result = "ok"
                 PROVE  cookieHdr.tokens \subseteq {"ignored"} /\ ~setCookie
        BY DEF CacheOnlyCookieFree
    <2>1. CheckCookies(cookieHdr) /\ ~setCookie /\ cookieHdr \in CookieHdrs
        BY DEF IInv, CacheInv, TypeOK
    <2>2. CASE cookieHdr.present
        BY <2>1, <2>2 DEF CheckCookies, ShouldIgnoreCookie
    <2>3. CASE ~cookieHdr.present
        <3>1. cookieHdr = [present |-> FALSE, tokens |-> {}]
            BY <2>1, <2>3 DEF CookieHdrs
        <3>2. QED
            BY <2>1, <3>1
    <2>4. QED
        BY <2>2, <2>3
<1>2. QED
    BY <1>1, InitIInv, NextIInv, PTL DEF Spec

====
