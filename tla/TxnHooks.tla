------------------------------ MODULE TxnHooks ------------------------------
(***************************************************************************)
(* The per-transaction hook chain that handle_remap (src/tsapi/remap.c)    *)
(* sets up, and the handlers Traffic Server later calls on it.             *)
(*                                                                         *)
(* handle_remap creates set_headers_cont for every transaction (hooked to  *)
(* SEND_RESPONSE_HDR and TXN_CLOSE) and, on a successful remap, server_push *)
(* (READ_RESPONSE_HDR and CACHE_LOOKUP_COMPLETE), add_cache_status          *)
(* (SEND_RESPONSE_HDR) and check_response_cache (READ_RESPONSE_HDR).  The   *)
(* hash of extra response headers that remap_run returns (rz_headers) is   *)
(* handed over to set_headers_cont, which frees it at TXN_CLOSE; what is   *)
(* not handed over is freed by remap_result_free in handle_remap's cleanup.*)
(*                                                                         *)
(* Traffic Server delivers the hooks of one transaction in order: cache    *)
(* lookup, then (unless the hit is fresh) the origin's response header,    *)
(* then the client response header, then close; the client may go away    *)
(* at any point, and close is always delivered.  The continuations of one  *)
(* hook run one after the other in the order they were added, and the next *)
(* one runs only when the previous handler has called TSHttpTxnReenable.   *)
(*                                                                         *)
(* The slot and the DNS path of handle_remap are in SnapshotSlot; here     *)
(* handle_remap is one step and the database lookup is its result.         *)
(***************************************************************************)
EXTENDS Naturals, Sequences

CONSTANTS
    ServerRespMayFail   \* TSHttpTxnServerRespGet / CachedRespGet may fail

ASSUME ServerRespMayFail \in BOOLEAN

(* remap_run's results, grouped by what handle_remap does with them:
   "synthetic"   RR_SYNTHETIC: own response, headers handed over;
   "intercept"   400/403/401/503: a fixed synth response;
   "passthrough" no database, RR_ERR_NO_HOST/NO_PATH, default: nothing;
   "ok"          RR_OK. *)
Results == {"synthetic", "intercept", "passthrough", "ok"}

(* One token of the request's Cookie header: a name=value pair matching a
   glob of rp_ignore_cookies, one matching none, and a token without '='. *)
CookieKinds == {"ignored", "kept", "noeq"}

(* The request's Cookie header: absent, or present with the kinds of its
   tokens (none when the value is empty). *)
CookieHdrs ==
    {[present |-> FALSE, tokens |-> {}]}
    \cup [present : {TRUE}, tokens : SUBSET CookieKinds]

Hooks == {"clc", "rrh", "send", "close"}
Conts == {"set_headers", "server_push", "add_cache_status", "check_response_cache"}

(* TSHttpTxnCacheLookupStatusGet: with caching off the lookup is skipped. *)
CacheStatuses == {"miss", "hit_stale", "hit_fresh", "skipped"}

Phases == {"start", "remapped"} \cup Hooks \cup {"closed"}

VARIABLES
    phase,      \* the hook being delivered, or start/remapped/closed
    hooks,      \* hook -> the continuations added to it, in order
    pending,    \* continuations of the current hook still to be called
    stalled,    \* a handler returned without TSHttpTxnReenable
    result,     \* remap_run's result ("nourl": RR_OK, no URL); "none" before
    cookieHdr,  \* the request's Cookie header
    cacheOn,    \* TS_CONFIG_HTTP_CACHE_HTTP of the transaction
    cstatus,    \* the cache lookup status
    setCookie,  \* the origin's response carries Set-Cookie
    stored,     \* the origin's response was written to the cache
    hasHdrs,    \* remap_run returned an rz_headers hash
    inCont,     \* set_headers_cont's data is that hash
    freed,      \* the hash has been freed
    frees,      \* number of hash_free calls on it
    readFreed,  \* set_headers read the hash after it was freed
    pushes,     \* number of responses server_push pushed from
    live        \* continuations created and not destroyed

vars == <<phase, hooks, pending, stalled, result, cookieHdr, cacheOn, cstatus,
          setCookie, stored, hasHdrs, inCont, freed, frees, readFreed, pushes,
          live>>

hdrVars == <<hasHdrs, inCont, freed, frees, readFreed>>

TypeOK ==
    /\ phase \in Phases
    /\ hooks \in [Hooks -> Seq(Conts)]
    /\ pending \in Seq(Conts)
    /\ stalled \in BOOLEAN
    /\ result \in Results \cup {"nourl", "none"}
    /\ cookieHdr \in CookieHdrs
    /\ cacheOn \in BOOLEAN
    /\ cstatus \in CacheStatuses \cup {"none"}
    /\ setCookie \in BOOLEAN /\ stored \in BOOLEAN
    /\ hasHdrs \in BOOLEAN /\ inCont \in BOOLEAN
    /\ freed \in BOOLEAN /\ readFreed \in BOOLEAN
    /\ frees \in Nat
    /\ pushes \in Nat
    /\ live \subseteq Conts

-----------------------------------------------------------------------------
(* Mutant: the ok path hands the hash over without clearing res.rz_headers. *)
LeftInResultOkNotNulled(r, ok) == r # "synthetic"

(* Mutant: server_push also processes stale hits at cache lookup. *)
PushesFromAnyHit(s) == s \in {"hit_fresh", "hit_stale"}

(* Mutant: should_ignore_cookie ignores a token without '='. *)
ShouldIgnoreCookieNoEq(c) == c # "kept"

(* handle_remap's cleanup frees the rz_headers hash unless it was handed to
   set_headers_cont and res.rz_headers set to NULL: on the synthetic path,
   and on the ok path past url_from_remap_result. *)
LeftInResult(r, ok) == ~(r = "synthetic" \/ ok)

(* server_push at CACHE_LOOKUP_COMPLETE processes only fresh hits. *)
PushesFrom(s) == s = "hit_fresh"

(* should_ignore_cookie: a token without '=' is never ignored; otherwise it
   is ignored when one of the path's globs matches it. *)
ShouldIgnoreCookie(c) == c = "ignored"

(* check_cookies' can_cache: no Cookie header, or every token ignored (the
   header is then removed). *)
CheckCookies(h) == ~h.present \/ \A c \in h.tokens : ShouldIgnoreCookie(c)

Init ==
    /\ phase = "start"
    /\ hooks = [h \in Hooks |-> <<>>]
    /\ pending = <<>>
    /\ stalled = FALSE
    /\ result = "none"
    /\ cookieHdr \in CookieHdrs
    /\ cacheOn \in BOOLEAN          \* proxy.config.http.cache.http
    /\ cstatus = "none"
    /\ setCookie = FALSE
    /\ stored = FALSE
    /\ hasHdrs = FALSE
    /\ inCont = FALSE
    /\ freed = FALSE
    /\ frees = 0
    /\ readFreed = FALSE
    /\ pushes = 0
    /\ live = {}

(* handle_remap, from set_headers_cont's creation to the cleanup:
   remap_run's result r, whether it returned headers, whether
   url_from_remap_result succeeded, and the path's rp_server_push and
   rp_cache flags.  The hash goes to set_headers_cont on the synthetic
   path and past url_from_remap_result on the ok path; otherwise
   remap_result_free frees it. *)
HandleRemap ==
    /\ phase = "start"
    /\ \E r \in Results, h, urlOk, push, cache \in BOOLEAN :
        LET hdrs    == h /\ r \in {"synthetic", "ok"}
            ok      == r = "ok" /\ urlOk
            toCont  == hdrs /\ (r = "synthetic" \/ ok)
            inRes   == hdrs /\ LeftInResult(r, ok)
            checked == ok /\ cache /\ CheckCookies(cookieHdr)
            pushC   == IF ok /\ push THEN <<"server_push">> ELSE <<>>
        IN
        /\ result' = IF r = "ok" /\ ~urlOk THEN "nourl" ELSE r
        /\ hasHdrs' = hdrs
        /\ inCont' = toCont
        /\ freed' = inRes
        /\ frees' = IF inRes THEN 1 ELSE 0
        /\ hooks' = [hooks EXCEPT
              !["clc"]   = pushC,
              !["rrh"]   = pushC \o (IF checked THEN <<"check_response_cache">> ELSE <<>>),
              !["send"]  = <<"set_headers">> \o
                           (IF ok /\ cache THEN <<"add_cache_status">> ELSE <<>>),
              !["close"] = <<"set_headers">>]
        /\ live' = {"set_headers"}
                   \cup (IF ok /\ push THEN {"server_push"} ELSE {})
                   \cup (IF ok /\ cache THEN {"add_cache_status"} ELSE {})
                   \cup (IF checked THEN {"check_response_cache"} ELSE {})
        /\ cacheOn' = IF ok THEN checked ELSE cacheOn
    /\ phase' = "remapped"
    /\ UNCHANGED <<pending, stalled, cookieHdr, cstatus, setCookie, stored,
                   readFreed, pushes>>

-----------------------------------------------------------------------------
(* Traffic Server's side: it moves to the next hook only when every
   continuation of the current one has re-enabled the transaction. *)
Idle == pending = <<>> /\ ~stalled

Deliver(h) == phase' = h /\ pending' = hooks[h]

(* CACHE_LOOKUP_COMPLETE, with the lookup's status. *)
CacheLookup ==
    /\ Idle
    /\ phase = "remapped"
    /\ \E s \in IF cacheOn THEN CacheStatuses \ {"skipped"} ELSE {"skipped"} :
          cstatus' = s
    /\ Deliver("clc")
    /\ UNCHANGED <<hooks, stalled, result, cookieHdr, cacheOn, setCookie, stored,
                   hdrVars, pushes, live>>

(* READ_RESPONSE_HDR: the origin answered, with or without Set-Cookie. *)
OriginResponse ==
    /\ Idle
    /\ phase = "clc"
    /\ cstatus # "hit_fresh"
    /\ \E sc \in BOOLEAN : setCookie' = sc
    /\ Deliver("rrh")
    /\ UNCHANGED <<hooks, stalled, result, cookieHdr, cacheOn, cstatus, stored,
                   hdrVars, pushes, live>>

(* SEND_RESPONSE_HDR: after a fresh hit, an origin response (written to the
   cache when the transaction's cache.http is on), or an origin error. *)
SendResponse ==
    /\ Idle
    /\ phase \in {"clc", "rrh"}
    /\ stored' = (phase = "rrh" /\ cacheOn)
    /\ Deliver("send")
    /\ UNCHANGED <<hooks, stalled, result, cookieHdr, cacheOn, cstatus, setCookie,
                   hdrVars, pushes, live>>

(* TXN_CLOSE: after the response, or when the client goes away earlier. *)
Close ==
    /\ Idle
    /\ phase \in {"remapped", "clc", "rrh", "send"}
    /\ Deliver("close")
    /\ UNCHANGED <<hooks, stalled, result, cookieHdr, cacheOn, cstatus, setCookie,
                   stored, hdrVars, pushes, live>>

(* The transaction is gone once its close hooks have re-enabled it. *)
Closed ==
    /\ Idle
    /\ phase = "close"
    /\ phase' = "closed"
    /\ UNCHANGED <<hooks, pending, stalled, result, cookieHdr, cacheOn, cstatus,
                   setCookie, stored, hdrVars, pushes, live>>

-----------------------------------------------------------------------------
(* The handlers.  Called(k): k is the next continuation of the hook. *)
Called(k) == pending # <<>> /\ ~stalled /\ Head(pending) = k

Reenable == pending' = Tail(pending)

(* The response getters of server_push and check_response_cache. *)
RespGot == IF ServerRespMayFail THEN BOOLEAN ELSE {TRUE}

(* set_headers: at SEND_RESPONSE_HDR it copies the hash into the response,
   at TXN_CLOSE it calls hash_free on it (a no-op on NULL). *)
SetHeaders ==
    /\ Called("set_headers")
    /\ \/ /\ phase = "send"
          /\ readFreed' = (readFreed \/ (inCont /\ freed))
          /\ UNCHANGED <<freed, frees>>
       \/ /\ phase = "close"
          /\ freed' = (freed \/ inCont)
          /\ frees' = frees + (IF inCont THEN 1 ELSE 0)
          /\ UNCHANGED readFreed
    /\ Reenable
    /\ UNCHANGED <<phase, hooks, stalled, result, cookieHdr, cacheOn, cstatus,
                   setCookie, stored, hasHdrs, inCont, pushes, live>>

(* server_push: at CACHE_LOOKUP_COMPLETE it skips all but the statuses it
   processes; otherwise it pushes the Link URLs of the cached or server
   response when it can get that response.  Every path re-enables. *)
ServerPush ==
    /\ Called("server_push")
    /\ \/ /\ phase = "clc"
          /\ ~PushesFrom(cstatus)
          /\ UNCHANGED pushes
       \/ /\ phase = "rrh" \/ PushesFrom(cstatus)
          /\ \E got \in RespGot : pushes' = pushes + (IF got THEN 1 ELSE 0)
    /\ Reenable
    /\ UNCHANGED <<phase, hooks, stalled, result, cookieHdr, cacheOn, cstatus,
                   setCookie, stored, hdrVars, live>>

(* Mutant: add_cache_status returns without re-enabling. *)
AddCacheStatusNoReenable ==
    /\ Called("add_cache_status")
    /\ stalled' = TRUE
    /\ UNCHANGED <<phase, hooks, pending, result, cookieHdr, cacheOn, cstatus,
                   setCookie, stored, hdrVars, pushes, live>>

(* add_cache_status: sets X-Cache-Status and re-enables. *)
AddCacheStatus ==
    /\ Called("add_cache_status")
    /\ Reenable
    /\ UNCHANGED <<phase, hooks, stalled, result, cookieHdr, cacheOn, cstatus,
                   setCookie, stored, hdrVars, pushes, live>>

(* check_response_cache: returns early, without re-enabling, when it cannot
   get the server response; otherwise turns caching off on Set-Cookie. *)
CheckResponseCache ==
    /\ Called("check_response_cache")
    /\ \/ /\ FALSE \in RespGot
          /\ stalled' = TRUE
          /\ UNCHANGED <<pending, cacheOn>>
       \/ /\ cacheOn' = (cacheOn /\ ~setCookie)
          /\ Reenable
          /\ UNCHANGED stalled
    /\ UNCHANGED <<phase, hooks, result, cookieHdr, cstatus, setCookie, stored,
                   hdrVars, pushes, live>>

Next ==
    \/ HandleRemap
    \/ CacheLookup \/ OriginResponse \/ SendResponse \/ Close \/ Closed
    \/ SetHeaders \/ ServerPush \/ AddCacheStatus \/ CheckResponseCache

(* Traffic Server keeps driving the transaction and calls the handler of
   each continuation it reaches; the client's early close is one of the
   steps, never forced. *)
Spec == Init /\ [][Next]_vars /\ WF_vars(Next)

-----------------------------------------------------------------------------
(* The rz_headers hash of a transaction is freed exactly once by the time the
   transaction is gone (by remap_result_free or by set_headers at TXN_CLOSE),
   never twice, and set_headers never copies it into a response after it
   was freed. *)
HeaderSetOwnership ==
    /\ frees <= 1
    /\ ~readFreed
    /\ phase = "closed" => frees = IF hasHdrs THEN 1 ELSE 0

(* A response of a remapped request is written to the cache only if the
   request carried no cookie but ignored ones (check_cookies) and the
   response carries no Set-Cookie (check_response_cache). *)
CacheOnlyCookieFree ==
    stored /\ result = "ok" =>
        /\ cookieHdr.tokens \subseteq {"ignored"}
        /\ ~setCookie

(* server_push, hooked to both CACHE_LOOKUP_COMPLETE and READ_RESPONSE_HDR,
   pushes from at most one response of a transaction. *)
PushedOnce == pushes <= 1

(* Every transaction's hooks are re-enabled through to TXN_CLOSE. *)
TxnCompletes == <>(phase = "closed")

====
