-------------------------- MODULE CompositeRegistry --------------------------
(***************************************************************************)
(* What spec.md promises of the set of composite definitions, whatever the *)
(* manager's internals: the definition each name currently has.            *)
(*   - 4.3.4 and 7 (ConfigError): a definition that does not parse, or is   *)
(*     otherwise malformed, is rejected and ignored;                       *)
(*   - 6 (composite map file format): lines with a missing score or an     *)
(*     invalid expression are rejected, well-formed entries replace prior  *)
(*     definitions of the same name silently;                              *)
(*   - 7 (MapLoadError): a failed reload retains the previous value.       *)
(* spec.md says nothing of two configuration definitions of one name; the  *)
(* second may replace the first or be ignored.  A disabled definition      *)
(* defines nothing.                                                        *)
(*                                                                         *)
(* A map reload is one step here: the chunks before it, and a reload that  *)
(* fails, change no definition.                                            *)
(***************************************************************************)
EXTENDS Naturals, Sequences

CONSTANTS
    Names,      \* composite names
    Scores,     \* valid scores
    Policies,   \* policy names a definition may carry
    UclConf,    \* [Names -> object] of the configuration's composites section
    StrConf,    \* name -> expression, added by Lua plugins
    MapFiles,   \* contents a composites map may deliver on a reload
    BadExpr,    \* an expression that does not parse
    NoExpr      \* no expression given

VARIABLES
    registry,   \* name -> {its current expression}, or {} if it has none
    pending,    \* configuration definitions not processed yet
    loaded      \* the map contents last applied, <<>> before any

vars == <<registry, pending, loaded>>

\* A configuration definition: <<"ucl", n>> or <<"str", n>>.
Expr(d) == IF d[1] = "ucl" THEN UclConf[d[2]].expr ELSE StrConf[d[2]]

WellFormed(d) ==
    /\ Expr(d) \notin {BadExpr, NoExpr}
    /\ d[1] = "ucl" =>
          /\ UclConf[d[2]].enabled
          /\ UclConf[d[2]].policy \in Policies \cup {"absent"}

Init ==
    /\ registry = [n \in Names |-> {}]
    /\ pending = {<<"ucl", n>> : n \in DOMAIN UclConf} \cup
                 {<<"str", n>> : n \in DOMAIN StrConf}
    /\ loaded = <<>>

\* A configuration definition is processed: a malformed one is ignored, a
\* well-formed one defines its name, or, when the name is taken, either
\* replaces it or is ignored.
Configure(d) ==
    /\ d \in pending
    /\ pending' = pending \ {d}
    /\ UNCHANGED loaded
    /\ IF ~WellFormed(d) THEN UNCHANGED registry
       ELSE \/ registry' = [registry EXCEPT ![d[2]] = {Expr(d)}]
            \/ registry[d[2]] # {} /\ UNCHANGED registry

LineOk(l) == l.score \in Scores /\ l.expr # BadExpr

\* The definitions after applying the lines of a map from i on.
RECURSIVE Apply(_, _, _)
Apply(r, lines, i) ==
    IF i > Len(lines) THEN r
    ELSE Apply(IF LineOk(lines[i]) THEN [r EXCEPT ![lines[i].name] = {lines[i].expr}]
               ELSE r,
               lines, i + 1)

\* A successful reload of the map.
Reload(f) ==
    /\ registry' = Apply(registry, f, 1)
    /\ loaded' = f
    /\ UNCHANGED pending

Next ==
    \/ \E d \in pending : Configure(d)
    \/ \E f \in MapFiles : Reload(f)

Spec == Init /\ [][Next]_vars
=============================================================================
