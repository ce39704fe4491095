--------------------------- MODULE LibUrlRedirector ---------------------------
(***************************************************************************)
(* The lua_url_redirector library (lualib/lua_selectors/ami_extractors.lua *)
(* lines 120-521): the same Redis protocol as the url_redirector plugin,   *)
(* written with callbacks.  url_redirector_process_urls calls              *)
(* resolve_cached(task, u, u, key, 1, resolve_url); each Redis or HTTP     *)
(* request returns at once and its callback runs later, so the tasks of    *)
(* several workers interleave at every callback.  pc names the callback a  *)
(* task waits for.  A Lua error raised in a callback ends the task's       *)
(* resolution ("raised").                                                  *)
(*                                                                         *)
(* One URL key is modelled; a HEAD request to u is answered with any       *)
(* member of Replies[u].                                                   *)
(***************************************************************************)
EXTENDS Integers, FiniteSets

CONSTANTS
    Tasks,           \* tasks (of any worker) that meet the same URL
    Urls,            \* the URL and the URLs its redirects lead to
    Orig,            \* the URL found in the message; its key is the key
    Replies,         \* [Urls -> SUBSET ({"200", "other", "noloc"} \cup Urls)]
    Redirectors,     \* hosts of redirector_hosts_map
    RedirectorsOnly, \* settings.redirectors_only
    NestedLimit,     \* settings.nested_limit
    TopCount,        \* settings.top_urls_count
    InitOthers,      \* members of the top-urls set from other URLs at start
    MaxOthers        \* bound on those members

ASSUME Orig \in Urls /\ Redirectors \subseteq Urls
ASSUME NestedLimit \in Nat /\ TopCount \in Nat \ {0}
ASSUME InitOthers \in 0..MaxOthers

VARIABLES
    kv,         \* value of the URL's key: "nil", "processing" or a URL
    zmine,      \* URLs of the chain in the top-urls set
    zothers,    \* other members of the top-urls set
    pc,         \* the callback each task waits for, "done" or "raised"
    cur,        \* the url argument of resolve_cached / resolve_url
    ntries,     \* the ntries argument
    resolver,   \* the url_resolver argument is set (not nil)
    res,        \* the url argument of cache_url, sent with SETEX
    redirected, \* orig_url:set_redirected target, or "none"
    reserved,   \* the task's SET NX returned OK
    failed,     \* a Redis or HTTP call of the task failed
    expired     \* a "processing" reservation has expired at some point

vars == <<kv, zmine, zothers, pc, cur, ntries, resolver, res, redirected,
          reserved, failed, expired>>
taskVars == <<pc, cur, ntries, resolver, res, redirected, reserved, failed>>

Card == Cardinality(zmine) + zothers

Finished(t) == pc[t] \in {"done", "raised"}

-----------------------------------------------------------------------------
adjust_url(t, u) == redirected' = [redirected EXCEPT ![t] = u]

Goto(t, p) == pc' = [pc EXCEPT ![t] = p]

\* cache_url: adjust when the answer differs from the original URL, then
\* SETEX key expire url, with ZINCRBY top_urls 1 url on the same connection.
cache_url(t, u) ==
    /\ IF u # Orig THEN adjust_url(t, u) ELSE UNCHANGED redirected
    /\ res' = [res EXCEPT ![t] = u]
    /\ Goto(t, "set")

\* resolve_url: past nested_limit the current URL is cached, otherwise a
\* HEAD request is sent.
resolve_url(t) ==
    IF ntries[t] > NestedLimit
    THEN cache_url(t, cur[t])
    ELSE Goto(t, "head") /\ UNCHANGED <<res, redirected>>

\* redis_get_cb.  A cached URL is applied unless it is the original one and
\* ends the call.  Anything else (an error, 'processing', no value) falls
\* through: at ntries == 1 the key is reserved with SET NX, otherwise
\* url_resolver is called, and a nil url_resolver raises.
GetReply(t) ==
    /\ pc[t] = "get"
    /\ \E err \in BOOLEAN :
         \/ /\ ~err /\ kv \in Urls
            /\ IF kv # Orig THEN adjust_url(t, kv) ELSE UNCHANGED redirected
            /\ Goto(t, "done")
            /\ UNCHANGED res
         \/ /\ err \/ kv \notin Urls
            /\ \/ /\ ntries[t] = 1
                  /\ Goto(t, "reserve")
                  /\ UNCHANGED <<res, redirected>>
               \/ /\ ntries[t] > 1
                  /\ IF resolver[t] THEN resolve_url(t)
                     ELSE Goto(t, "raised") /\ UNCHANGED <<res, redirected>>
    /\ UNCHANGED <<kv, zmine, zothers, cur, ntries, resolver, reserved, failed, expired>>

\* Mutant: a refused reservation looks the key up again.
ReserveReplyRetry(t) ==
    /\ pc[t] = "reserve"
    /\ IF kv = "nil"
       THEN /\ kv' = "processing"
            /\ reserved' = [reserved EXCEPT ![t] = TRUE]
            /\ resolve_url(t)
       ELSE /\ Goto(t, "get")
            /\ UNCHANGED <<kv, reserved, res, redirected>>
    /\ UNCHANGED <<zmine, zothers, cur, ntries, resolver, failed, expired>>

\* Mutant: the reservation written without NX.
ReserveReplyNoNX(t) ==
    /\ pc[t] = "reserve"
    /\ kv' = "processing"
    /\ reserved' = [reserved EXCEPT ![t] = TRUE]
    /\ resolve_url(t)
    /\ UNCHANGED <<zmine, zothers, cur, ntries, resolver, failed, expired>>

\* redis_reserve_cb for SET key 'processing' EX timeout*2 NX: OK only if the
\* key is empty, and then url_resolver runs; otherwise nothing more happens.
ReserveReply(t) ==
    /\ pc[t] = "reserve"
    /\ IF kv = "nil"
       THEN /\ kv' = "processing"
            /\ reserved' = [reserved EXCEPT ![t] = TRUE]
            /\ resolve_url(t)
       ELSE /\ Goto(t, "done")
            /\ UNCHANGED <<kv, reserved, res, redirected>>
    /\ UNCHANGED <<zmine, zothers, cur, ntries, resolver, failed, expired>>

\* A Redis request that cannot be scheduled, or whose callback gets an error
\* (the GET error is GetReply's): the task logs it and stops.
RedisFail(t) ==
    /\ pc[t] \in {"get", "reserve", "set", "card", "trim"}
    /\ Goto(t, "done")
    /\ failed' = [failed EXCEPT ![t] = TRUE]
    /\ UNCHANGED <<kv, zmine, zothers, cur, ntries, resolver, res, redirected,
                   reserved, expired>>

\* http_callback.  An error, 200, another code or a redirect without a
\* usable Location caches the current URL.  A 301/302 to a host outside
\* redirector_hosts_map (with redirectors_only) caches the target.  Any
\* other redirect calls M.resolve_cached(task, orig_url, redir_url, key,
\* ntries + 1), without a url_resolver.
HeadReply(t) ==
    /\ pc[t] = "head"
    /\ \E r \in Replies[cur[t]] \cup {"error"} :
         \/ /\ r \in {"200", "other", "noloc", "error"}
            /\ cache_url(t, cur[t])
            /\ failed' = [failed EXCEPT ![t] = failed[t] \/ r = "error"]
            /\ UNCHANGED <<cur, ntries, resolver>>
         \/ /\ r \in Urls
            /\ RedirectorsOnly /\ r \notin Redirectors
            /\ cache_url(t, r)
            /\ UNCHANGED <<cur, ntries, resolver, failed>>
         \/ /\ r \in Urls
            /\ ~RedirectorsOnly \/ r \in Redirectors
            /\ cur' = [cur EXCEPT ![t] = r]
            /\ ntries' = [ntries EXCEPT ![t] = @ + 1]
            /\ resolver' = [resolver EXCEPT ![t] = FALSE]
            /\ Goto(t, "get")
            /\ UNCHANGED <<res, redirected, failed>>
    /\ UNCHANGED <<kv, zmine, zothers, reserved, expired>>

\* redis_set_cb: the SETEX and the ZINCRBY are applied; ZCARD is sent.
SetReply(t) ==
    /\ pc[t] = "set"
    /\ kv' = res[t]
    /\ zmine' = zmine \cup {res[t]}
    /\ Goto(t, "card")
    /\ UNCHANGED <<zothers, cur, ntries, resolver, res, redirected, reserved,
                   failed, expired>>

\* redis_card_cb: ZREMRANGEBYRANK when the set holds more than twice
\* top_urls_count.
CardReply(t) ==
    /\ pc[t] = "card"
    /\ Goto(t, IF Card > 2 * TopCount THEN "trim" ELSE "done")
    /\ UNCHANGED <<kv, zmine, zothers, cur, ntries, resolver, res, redirected,
                   reserved, failed, expired>>

\* ZREMRANGEBYRANK top_urls 0 (top_urls_count + 1) removes the
\* top_urls_count + 2 lowest-ranked members, whichever they are.
TrimReply(t) ==
    /\ pc[t] = "trim"
    /\ LET n == IF Card < TopCount + 2 THEN Card ELSE TopCount + 2 IN
       \E gone \in SUBSET zmine, k \in 0..zothers :
         /\ Cardinality(gone) + k = n
         /\ zmine' = zmine \ gone
         /\ zothers' = zothers - k
    /\ Goto(t, "done")
    /\ UNCHANGED <<kv, cur, ntries, resolver, res, redirected, reserved,
                   failed, expired>>

\* Redis expires the key: the reservation after timeout*2, a result after
\* settings.expire.
Expire ==
    /\ kv # "nil"
    /\ kv' = "nil"
    /\ expired' = (expired \/ kv = "processing")
    /\ UNCHANGED <<zmine, zothers, taskVars>>

\* Tasks for other URLs add their URLs to the top-urls set.
OtherUrlCached ==
    /\ zothers < MaxOthers
    /\ zothers' = zothers + 1
    /\ UNCHANGED <<kv, zmine, expired, taskVars>>

\* url_redirector_process_urls: resolve_cached(task, u, u, key, 1,
\* resolve_url), which sends the GET.
Init ==
    /\ kv = "nil"
    /\ zmine = {}
    /\ zothers = InitOthers
    /\ pc = [t \in Tasks |-> "get"]
    /\ cur = [t \in Tasks |-> Orig]
    /\ ntries = [t \in Tasks |-> 1]
    /\ resolver = [t \in Tasks |-> TRUE]
    /\ res = [t \in Tasks |-> Orig]
    /\ redirected = [t \in Tasks |-> "none"]
    /\ reserved = [t \in Tasks |-> FALSE]
    /\ failed = [t \in Tasks |-> FALSE]
    /\ expired = FALSE

TaskStep(t) ==
    \/ GetReply(t) \/ ReserveReply(t) \/ RedisFail(t) \/ HeadReply(t)
    \/ SetReply(t) \/ CardReply(t) \/ TrimReply(t)

Next ==
    \/ \E t \in Tasks : TaskStep(t)
    \/ Expire
    \/ OtherUrlCached

\* Every pending callback runs: Redis and the HTTP client answer or time
\* out.  Expiry and other URLs are not required to happen.
Fairness == \A t \in Tasks : WF_vars(TaskStep(t))

Spec == Init /\ [][Next]_vars /\ Fairness

-----------------------------------------------------------------------------
(* Properties                                                              *)

\* Types; adjust_url is never asked to redirect the original URL to itself
\* (both callers compare with tostring(orig_url) first).
TypeOK ==
    /\ kv \in {"nil", "processing"} \cup Urls
    /\ zmine \subseteq Urls /\ zothers \in 0..MaxOthers
    /\ pc \in [Tasks -> {"get", "reserve", "head", "set", "card", "trim", "done", "raised"}]
    /\ cur \in [Tasks -> Urls] /\ res \in [Tasks -> Urls]
    /\ ntries \in [Tasks -> 1..NestedLimit + 2]
    /\ resolver \in [Tasks -> BOOLEAN]
    /\ redirected \in [Tasks -> (Urls \ {Orig}) \cup {"none"}]
    /\ reserved \in [Tasks -> BOOLEAN] /\ failed \in [Tasks -> BOOLEAN]
    /\ expired \in BOOLEAN

\* A task works under its reservation from the OK of SET NX until its
\* SETEX is applied, it stops, or it raises.
Resolving(t) == reserved[t] /\ pc[t] \in {"head", "get", "set"}

\* Where following the redirects of u (at hop n) ends, Redis aside, for
\* HEAD replies that are always the same.
RECURSIVE ChainEnd(_, _)
ChainEnd(u, n) ==
    LET r == CHOOSE x \in Replies[u] : TRUE IN
    IF n > NestedLimit \/ r \notin Urls THEN u
    ELSE IF RedirectorsOnly /\ r \notin Redirectors THEN r
    ELSE ChainEnd(r, n + 1)

\* settings.nested_limit, "How many redirects to follow": a task that
\* reserved the URL and met no error and no expiry ends with the URL marked
\* as redirected to the end of its redirect chain.
ChainFollowed ==
    \A t \in Tasks :
      (Finished(t) /\ reserved[t] /\ ~failed[t] /\ ~expired) =>
        redirected[t] = IF ChainEnd(Orig, 1) = Orig THEN "none" ELSE ChainEnd(Orig, 1)

=============================================================================
