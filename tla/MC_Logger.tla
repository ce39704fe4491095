------------------------------ MODULE MC_Logger ------------------------------
(***************************************************************************)
(* Three tables: T1 holds T2 and, under the string key "k", T3; T2 holds   *)
(* T1 (a cycle through the array parts), then T3 twice (a table shared,    *)
(* not cyclic); T3 holds itself.  Four formats cover every conversion:     *)
(* sequential %s, positional %2 and %1d, %% and a bare %u, a precision     *)
(* %.2f, a position past LUA_MAX_ARGS and %0, and a bare %f after two      *)
(* characters.  Stacks are every sequence of up to three of these values,  *)
(* and the same after a module and uid.                                    *)
(***************************************************************************)
EXTENDS Logger, TLC

CONSTANTS T1, T2, T3

Tab(t) == [type |-> "table", x |-> t]
Num == [type |-> "number", x |-> <<"7">>]
Ud(c) == [type |-> "userdata", x |-> c]

F1 == Str(<<"%", "s", "%", "s">>)
F2 == Str(<<"%", "2", "%", "%", "%", "1", "d", "%", "u">>)
F3 == Str(<<"%", ".", "2", "f", "%", "5", "%", "0">>)
F4 == Str(<<"x", "=", "%", "f">>)
F5 == Str(<<"%", "s", "%", "s", "%", "s">>)

MC_Tables == {T1, T2, T3}

\* Cycles through integer keys only: T1-T2-T1, T3-T3 and T1-T2-T3-T1,
\* one longer than a ring of two slots.
MC_Heap ==
    (T1 :> [arr |-> <<Tab(T2), Num>>, hash |-> <<<<Str(<<"k">>), Tab(T3)>>>>])
    @@ (T2 :> [arr |-> <<Tab(T1), Tab(T3), Tab(T3)>>, hash |-> <<>>])
    @@ (T3 :> [arr |-> <<Tab(T3), Tab(T1)>>, hash |-> <<<<Str(<<"n">>), Num>>>>])

Nil == [type |-> "nil", x |-> <<>>]
Uids == {Str(<<"u">>), Ud("task"), Ud("noclass"), Ud("nometa")}

Vals == {F1, F2, F3, F4, Num, Tab(T1), Tab(T3), Ud("task"), Ud("noclass"), Ud("nometa")}

Short(k) == UNION {[1..n -> Vals] : n \in 1..k}

\* errx and slog arguments, and logx and debugm arguments: a module name
\* or nil, and a uid string or userdata, before the rest.
\* A format and exactly LUA_MAX_ARGS arguments, all used by F5: the last
\* argument args_used tracks.
AtCap == {<<f>> \o v : f \in {F1, F5}, v \in [1..MaxArgs -> {Num, Tab(T3), Ud("task")}]}

MC_Stacks ==
    Short(3) \cup AtCap
    \cup {<<Num, m, u>> \o s : m \in {Str(<<"m">>), Nil}, u \in Uids, s \in Short(2)}
    \cup {<<m, u>> \o s : m \in {Str(<<"m">>), Nil}, u \in Uids, s \in Short(2)}

=============================================================================
