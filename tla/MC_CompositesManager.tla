------------------------- MODULE MC_CompositesManager -------------------------
(***************************************************************************)
(* A configuration for CompositesManager: a chain of composites C1 -> C2   *)
(* -> C3 -> PF (PF a postfilter symbol) that needs the classification's    *)
(* fixed point to be iterated, a redefinition of C2 by a plugin, a         *)
(* composite with an unknown policy, a disabled one, one without an        *)
(* expression, one that does not parse, and a composites map whose files  *)
(* carry good lines, a missing and an invalid score.                       *)
(***************************************************************************)
EXTENDS CompositesManager, TLC

CONSTANTS C1, C2, C3, C4, C5, F, PF, S0, S1, S2

At(m, n) == [mod |-> m, name |-> n]

MC_Names == {C1, C2, C3, C4, C5}
MC_Syms == {F, PF}
MC_SecondPassSyms == {PF}
MC_Scores == {S0, S1, S2}

MC_UclConf ==
    [n \in {C1, C2, C3, C4, C5} |->
        CASE n = C1 -> [enabled |-> TRUE, expr |-> {At("", C2)},
                        score |-> S1, policy |-> "absent"]
          [] n = C2 -> [enabled |-> TRUE, expr |-> {At("", C3), At("-", F)},
                        score |-> "absent", policy |-> "leave"]
          [] n = C3 -> [enabled |-> TRUE, expr |-> {At("", PF)},
                        score |-> S2, policy |-> "remove_sym"]
          [] n = C4 -> [enabled |-> FALSE, expr |-> {At("", F)},
                        score |-> S1, policy |-> "absent"]
          [] n = C5 -> [enabled |-> TRUE, expr |-> NoExpr,
                        score |-> S1, policy |-> "remove"]]

MC_StrConf == (C2 :> {At("", F)}) @@ (C4 :> BadExpr)

MC_MapFiles ==
    { << [name |-> C4, score |-> S1, expr |-> {At("", C3)}],
         [name |-> C5, score |-> "missing", expr |-> {At("", F)}],
         [name |-> C1, score |-> "invalid", expr |-> {At("", F)}] >>,
      << [name |-> C5, score |-> S2, expr |-> BadExpr],
         [name |-> C1, score |-> S0, expr |-> {At("", PF)}] >> }

MC_MaxReloads == 2

\* The same configuration with C3 = "~PF": keep PF when C3 fires.
MC_UclConfModifier == [MC_UclConf EXCEPT ![C3].expr = {At("~", PF)}]

=============================================================================
