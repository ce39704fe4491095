----------------------------- MODULE Redirectors -----------------------------
(***************************************************************************)
(* The two implementations of the URL redirector, the coroutine plugin     *)
(* (UrlRedirector) and the callback library (LibUrlRedirector), share one  *)
(* Redis: both keep the URL's result under key_prefix .. base32(hash(url)) *)
(* and count URLs in top_urls_key, with the same defaults ('rdr:',         *)
(* 'rdr:top_urls').  Scanners running either version against one Redis    *)
(* meet on the same key.  The key, the top-urls set and the expiry history *)
(* are shared; each version's tasks keep their own variables.              *)
(***************************************************************************)
EXTENDS Integers, FiniteSets

CONSTANTS
    CTasks,          \* tasks running the coroutine plugin
    LTasks,          \* tasks running the callback library
    Urls, Orig, Replies, Redirectors, RedirectorsOnly, NestedLimit,
    TopCount, InitOthers, MaxOthers

VARIABLES
    kv, zmine, zothers, expired,
    cpc, ccur, cntries, cres, credirected, creserved, cfailed,
    lpc, lcur, lntries, lresolver, lres, lredirected, lreserved, lfailed

cvars == <<cpc, ccur, cntries, cres, credirected, creserved, cfailed>>
lvars == <<lpc, lcur, lntries, lresolver, lres, lredirected, lreserved, lfailed>>
vars == <<kv, zmine, zothers, expired, cvars, lvars>>

C == INSTANCE UrlRedirector
       WITH Tasks <- CTasks, pc <- cpc, cur <- ccur, ntries <- cntries,
            res <- cres, redirected <- credirected, reserved <- creserved,
            failed <- cfailed

L == INSTANCE LibUrlRedirector
       WITH Tasks <- LTasks, pc <- lpc, cur <- lcur, ntries <- lntries,
            resolver <- lresolver, res <- lres, redirected <- lredirected,
            reserved <- lreserved, failed <- lfailed

Init == C!Init /\ L!Init

\* A step of either version's task leaves the other version's tasks alone;
\* Redis expiry and other URLs are the same environment for both.
Next ==
    \/ \E t \in CTasks : C!TaskStep(t) /\ UNCHANGED lvars
    \/ \E t \in LTasks : L!TaskStep(t) /\ UNCHANGED cvars
    \/ C!Expire /\ UNCHANGED lvars
    \/ C!OtherUrlCached /\ UNCHANGED lvars

Fairness ==
    /\ \A t \in CTasks : WF_vars(C!TaskStep(t) /\ UNCHANGED lvars)
    /\ \A t \in LTasks : WF_vars(L!TaskStep(t) /\ UNCHANGED cvars)

Spec == Init /\ [][Next]_vars /\ Fairness

-----------------------------------------------------------------------------
(* Properties                                                              *)

TypeOK == C!TypeOK /\ L!TypeOK

\* "Reserve key in Redis that we are processing this redirection": while no
\* reservation has expired, at most one task of either version resolves the
\* URL, whatever the version of the task that reserved it.
ReservationExclusive ==
    ~expired =>
      Cardinality({t \in CTasks : C!Resolving(t)}) + Cardinality({t \in LTasks : L!Resolving(t)}) <= 1

\* Every task of either version comes to an end (done, or raised in a
\* callback), whatever the other version leaves in the key.
AllTasksFinish ==
    <>(/\ \A t \in CTasks : cpc[t] = "done"
       /\ \A t \in LTasks : L!Finished(t))

\* settings.nested_limit, "How many redirects to follow", for either
\* version: a task that reserved the URL and met no error and no expiry
\* ends with the URL marked as redirected to the end of its chain.
ChainFollowed == C!ChainFollowed /\ L!ChainFollowed

=============================================================================
