----------------------------- MODULE UrlRedirector -----------------------------
(***************************************************************************)
(* The url_redirector plugin (src/plugins/lua/url_redirector.lua), the     *)
(* coroutine version: for each redirector URL of a message, a task looks   *)
(* up the Redis key of the URL (GET), reserves it with SET NX EX when the  *)
(* key is empty, follows the redirect with HTTP HEAD requests up to        *)
(* nested_limit hops, caches the answer (SETEX, ZINCRBY on the top-urls    *)
(* set) and trims the top-urls set (ZCARD, ZREMRANGEBYRANK).  Every Redis  *)
(* and HTTP call suspends the task's coroutine, so the tasks of several    *)
(* workers interleave at each of them on the shared Redis server.          *)
(*                                                                         *)
(* One URL key is modelled; the URLs of its redirect chain are model       *)
(* values, the other members of the top-urls set are a count; a HEAD      *)
(* request to u is answered with any member of Replies[u].                 *)
(***************************************************************************)
EXTENDS Integers, FiniteSets

CONSTANTS
    Tasks,           \* tasks (of any worker) that meet the same URL
    Urls,            \* the URL and the URLs its redirects lead to
    Orig,            \* the URL found in the messages; its key is the key
    Replies,         \* [Urls -> SUBSET ({"200", "other", "noloc"} \cup Urls)]: HEAD replies
    Redirectors,     \* hosts of redirector_hosts_map
    RedirectorsOnly, \* settings.redirectors_only
    NestedLimit,     \* settings.nested_limit
    TopCount,        \* settings.top_urls_count
    InitOthers,      \* members of the top-urls set from other URLs at start
    MaxOthers        \* bound on those members (other tasks keep adding)

ASSUME Orig \in Urls /\ Redirectors \subseteq Urls
ASSUME NestedLimit \in Nat \ {0} /\ TopCount \in Nat \ {0}
ASSUME InitOthers \in 0..MaxOthers

VARIABLES
    kv,         \* value of the URL's key: "nil", "processing" or a URL
    zmine,      \* URLs of the chain in the top-urls set
    zothers,    \* other members of the top-urls set
    pc,         \* where each task's coroutine is suspended
    cur,        \* the URL resolve_cached / resolve_url is at
    ntries,     \* the ntries argument
    res,        \* the URL handed to cache_url
    redirected, \* orig_url:set_redirected target, or "none"
    reserved,   \* the task's SET NX returned OK
    failed,     \* a Redis or HTTP call of the task failed
    expired     \* a "processing" reservation has expired at some point

vars == <<kv, zmine, zothers, pc, cur, ntries, res, redirected, reserved,
          failed, expired>>
taskVars == <<pc, cur, ntries, res, redirected, reserved, failed>>

Card == Cardinality(zmine) + zothers

-----------------------------------------------------------------------------
(* adjust_url: the original URL is marked as redirected to u.              *)
adjust_url(t, u) == redirected' = [redirected EXCEPT ![t] = u]

\* resolve_cached, the GET and its reply: a cached URL is applied unless it is
\* the original one, a reservation (anyone's) ends the resolution, an empty
\* key is reserved first when ntries == 1.
Get(t) ==
    /\ pc[t] = "get"
    /\ \/ /\ kv \in Urls
          /\ IF kv # Orig THEN adjust_url(t, kv) ELSE UNCHANGED redirected
          /\ pc' = [pc EXCEPT ![t] = "done"]
       \/ /\ kv = "processing"
          /\ pc' = [pc EXCEPT ![t] = "done"]
          /\ UNCHANGED redirected
       \/ /\ kv = "nil"
          /\ pc' = [pc EXCEPT ![t] = IF ntries[t] = 1 THEN "reserve" ELSE "head"]
          /\ UNCHANGED redirected
    /\ UNCHANGED <<kv, zmine, zothers, cur, ntries, res, reserved, failed, expired>>

\* SET key 'processing' EX timeout*2 NX: the reply is OK only if the key is
\* still empty; otherwise the resolution stops.
Reserve(t) ==
    /\ pc[t] = "reserve"
    /\ IF kv = "nil"
       THEN /\ kv' = "processing"
            /\ reserved' = [reserved EXCEPT ![t] = TRUE]
            /\ pc' = [pc EXCEPT ![t] = "head"]
       ELSE /\ pc' = [pc EXCEPT ![t] = "done"]
            /\ UNCHANGED <<kv, reserved>>
    /\ UNCHANGED <<zmine, zothers, cur, ntries, res, redirected, failed, expired>>

\* A Redis command of the resolution fails (connection error or timeout).
\* cache_url has already set the redirected URL when its SETEX fails.
RedisFail(t) ==
    /\ pc[t] \in {"get", "reserve", "cache", "card", "trim"}
    /\ pc' = [pc EXCEPT ![t] = "done"]
    /\ failed' = [failed EXCEPT ![t] = TRUE]
    /\ IF pc[t] = "cache" /\ res[t] # Orig THEN adjust_url(t, res[t]) ELSE UNCHANGED redirected
    /\ UNCHANGED <<kv, zmine, zothers, cur, ntries, res, reserved, expired>>

ToCache(t, u) ==
    /\ res' = [res EXCEPT ![t] = u]
    /\ pc' = [pc EXCEPT ![t] = "cache"]
    /\ UNCHANGED <<cur, ntries>>

\* resolve_cached(task, orig_url, redir_url, key, ntries + 1).
Follow(t, r) ==
    /\ cur' = [cur EXCEPT ![t] = r]
    /\ ntries' = [ntries EXCEPT ![t] = @ + 1]
    /\ pc' = [pc EXCEPT ![t] = "get"]

\* Mutant: the limit test off by one.
PastLimitOffByOne(t) == ntries[t] > NestedLimit + 1

\* resolve_url's first test: ntries > settings.nested_limit.
PastLimit(t) == ntries[t] > NestedLimit

\* resolve_url: past nested_limit the current URL is the answer; otherwise a
\* HEAD request.  A 301/302 to a redirector recurses into resolve_cached with
\* ntries + 1, and its result is dropped: resolve_url then returns nil and
\* nothing more is cached for this call.
Head(t) ==
    /\ pc[t] = "head"
    /\ \/ /\ PastLimit(t)
          /\ ToCache(t, cur[t])
          /\ UNCHANGED failed
       \/ /\ ~PastLimit(t)
          /\ \E r \in Replies[cur[t]] \cup {"error"} :
               \/ /\ r \in {"200", "other", "noloc", "error"}
                  /\ ToCache(t, cur[t])
                  /\ failed' = [failed EXCEPT ![t] = failed[t] \/ r = "error"]
               \/ /\ r \in Urls
                  /\ RedirectorsOnly /\ r \notin Redirectors
                  /\ ToCache(t, r)
                  /\ UNCHANGED failed
               \/ /\ r \in Urls
                  /\ ~RedirectorsOnly \/ r \in Redirectors
                  /\ Follow(t, r)
                  /\ UNCHANGED <<res, failed>>
    /\ UNCHANGED <<kv, zmine, zothers, redirected, reserved, expired>>

\* cache_url: adjust when the answer differs from the original URL, then
\* SETEX key expire url pipelined with ZINCRBY top_urls 1 url; redis_set_cb
\* issues ZCARD.
Cache(t) ==
    /\ pc[t] = "cache"
    /\ IF res[t] # Orig THEN adjust_url(t, res[t]) ELSE UNCHANGED redirected
    /\ kv' = res[t]
    /\ zmine' = zmine \cup {res[t]}
    /\ pc' = [pc EXCEPT ![t] = "card"]
    /\ UNCHANGED <<zothers, cur, ntries, res, reserved, failed, expired>>

\* redis_card_cb: trim when the set holds more than twice top_urls_count.
CardReply(t) ==
    /\ pc[t] = "card"
    /\ pc' = [pc EXCEPT ![t] = IF Card > 2 * TopCount THEN "trim" ELSE "done"]
    /\ UNCHANGED <<kv, zmine, zothers, cur, ntries, res, redirected, reserved,
                   failed, expired>>

\* ZREMRANGEBYRANK top_urls 0 (top_urls_count + 1): ranks 0 to
\* top_urls_count + 1 inclusive, the lowest-scored members, whichever they are.
Trim(t) ==
    /\ pc[t] = "trim"
    /\ LET n == IF Card < TopCount + 2 THEN Card ELSE TopCount + 2 IN
       \E gone \in SUBSET zmine, k \in 0..zothers :
         /\ Cardinality(gone) + k = n
         /\ zmine' = zmine \ gone
         /\ zothers' = zothers - k
    /\ pc' = [pc EXCEPT ![t] = "done"]
    /\ UNCHANGED <<kv, cur, ntries, res, redirected, reserved, failed, expired>>

\* Redis expires the key: the reservation after timeout*2, a result after
\* settings.expire.
Expire ==
    /\ kv # "nil"
    /\ kv' = "nil"
    /\ expired' = (expired \/ kv = "processing")
    /\ UNCHANGED <<zmine, zothers, taskVars>>

\* Tasks for other URLs add their URLs to the top-urls set.
OtherUrlCached ==
    /\ zothers < MaxOthers
    /\ zothers' = zothers + 1
    /\ UNCHANGED <<kv, zmine, expired, taskVars>>

\* url_redirector_process_url: resolve_cached(task, url, url, key, 1).
Init ==
    /\ kv = "nil"
    /\ zmine = {}
    /\ zothers = InitOthers
    /\ pc = [t \in Tasks |-> "get"]
    /\ cur = [t \in Tasks |-> Orig]
    /\ ntries = [t \in Tasks |-> 1]
    /\ res = [t \in Tasks |-> Orig]
    /\ redirected = [t \in Tasks |-> "none"]
    /\ reserved = [t \in Tasks |-> FALSE]
    /\ failed = [t \in Tasks |-> FALSE]
    /\ expired = FALSE

TaskStep(t) ==
    Get(t) \/ Reserve(t) \/ RedisFail(t) \/ Head(t) \/ Cache(t) \/ CardReply(t) \/ Trim(t)

Next ==
    \/ \E t \in Tasks : TaskStep(t)
    \/ Expire
    \/ OtherUrlCached

\* Every suspended coroutine is resumed: Redis and the HTTP client answer or
\* time out.  Expiry and other URLs are not required to happen.
Fairness == \A t \in Tasks : WF_vars(TaskStep(t))

Spec == Init /\ [][Next]_vars /\ Fairness

-----------------------------------------------------------------------------
(* Properties                                                              *)

TypeOK ==
    /\ kv \in {"nil", "processing"} \cup Urls
    /\ zmine \subseteq Urls /\ zothers \in 0..MaxOthers
    /\ pc \in [Tasks -> {"get", "reserve", "head", "cache", "card", "trim", "done"}]
    /\ cur \in [Tasks -> Urls] /\ res \in [Tasks -> Urls]
    /\ ntries \in [Tasks -> 1..NestedLimit + 1]
    /\ redirected \in [Tasks -> Urls \cup {"none"}]
    /\ reserved \in [Tasks -> BOOLEAN] /\ failed \in [Tasks -> BOOLEAN]
    /\ expired \in BOOLEAN

\* A task resolves the URL under its reservation from the SET NX reply until
\* it writes the result (or gives up).
Resolving(t) == reserved[t] /\ pc[t] \in {"head", "get", "cache"}

\* Where following the redirects of u (at hop n) ends, Redis aside, for HEAD
\* replies that are always the same: the rules resolve_url applies to each.
RECURSIVE ChainEnd(_, _)
ChainEnd(u, n) ==
    LET r == CHOOSE x \in Replies[u] : TRUE IN
    IF n > NestedLimit \/ r \notin Urls THEN u
    ELSE IF RedirectorsOnly /\ r \notin Redirectors THEN r
    ELSE ChainEnd(r, n + 1)

\* settings.nested_limit, "How many redirects to follow": a task that
\* reserved the URL and met no error and no expiry ends with the URL marked
\* as redirected to the end of its redirect chain.
ChainFollowed ==
    \A t \in Tasks :
      (pc[t] = "done" /\ reserved[t] /\ ~failed[t] /\ ~expired) =>
        redirected[t] = IF ChainEnd(Orig, 1) = Orig THEN "none" ELSE ChainEnd(Orig, 1)

\* settings.top_urls_count, "how many top urls to save", and the log of
\* redis_trim_cb, "trimmed url set to top_urls_count elements": a trim
\* leaves top_urls_count members in the set.
TrimKeepsTopCount ==
    [][\A t \in Tasks : (pc[t] = "trim" /\ pc'[t] = "done" /\ ~failed'[t]) => Card' >= TopCount]_vars

=============================================================================
