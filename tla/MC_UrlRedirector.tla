-------------------------- MODULE MC_UrlRedirector --------------------------
(***************************************************************************)
(* Two tasks meet the redirector URL U0, which redirects to U1, U1 to U2   *)
(* and U2 back to U1: a redirect loop among redirector hosts that only     *)
(* nested_limit ends.  top_urls_count is 1, so the top-urls set is trimmed *)
(* once it holds three members.                                            *)
(***************************************************************************)
EXTENDS UrlRedirector, TLC

CONSTANTS T1, T2, U0, U1, U2

MC_Tasks == {T1, T2}
MC_Urls == {U0, U1, U2}
MC_Replies == (U0 :> {U1}) @@ (U1 :> {U2}) @@ (U2 :> {U1})
MC_Redirectors == {U0, U1, U2}

Symmetry == Permutations(MC_Tasks)

=============================================================================
