------------------------- MODULE MC_MapsController -------------------------
(***************************************************************************)
(* Three map URIs: U1 and U2 share the alias A (two files of the same     *)
(* name in different places), U3 has the alias B.  The configuration      *)
(* lists U1 twice and a static map.  U1 and U2 answer K1 differently.     *)
(***************************************************************************)
EXTENDS MapsController, TLC

CONSTANTS U1, U2, U3, A, B, K1, K2, V1, V2

MC_Uris == {U1, U2, U3}
MC_ConfigMaps == <<U1, Static, U2, U1, U3>>
MC_AliasOf == (U1 :> A) @@ (U2 :> A) @@ (U3 :> B)
MC_Keys == {K1, K2}
MC_Val ==
    (U1 :> (K1 :> V1 @@ K2 :> NoValue))
    @@ (U2 :> (K1 :> V2 @@ K2 :> V2))
    @@ (U3 :> (K1 :> NoValue @@ K2 :> V1))
MC_KeyLists == {<<K1, K2>>, <<K2>>}
\* all maps; an alias two URIs share; an unknown name after a known one; a
\* URI and an alias
MC_NameLists == {<<>>, <<A>>, <<U3, BadName>>, <<U2, B>>}

=============================================================================
