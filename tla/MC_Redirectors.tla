--------------------------- MODULE MC_Redirectors ---------------------------
(***************************************************************************)
(* Two plugin tasks and one library task meet the redirector URL U0.  U0   *)
(* answers with a redirect to the redirector U1 or to U2, outside          *)
(* redirector_hosts_map; U1 redirects back to U0 or answers 200; U2 has no *)
(* Location.  The loop U0 -> U1 -> U0 reaches nested_limit = 2.            *)
(* top_urls_count is 1, so two cached URLs and one other member call for   *)
(* a trim.                                                                 *)
(***************************************************************************)
EXTENDS Redirectors, TLC

CONSTANTS C1, C2, L1, U0, U1, U2

MC_CTasks == {C1, C2}
MC_LTasks == {L1}
MC_Urls == {U0, U1, U2}
MC_Replies == (U0 :> {U1, U2}) @@ (U1 :> {U0, "200"}) @@ (U2 :> {"noloc"})
MC_Redirectors == {U0, U1}

\* A chain through the redirector U1 to U2, which answers 200.
MC_RepliesChain == (U0 :> {U1}) @@ (U1 :> {U2}) @@ (U2 :> {"200"})
MC_CTask == {C1}

=============================================================================
