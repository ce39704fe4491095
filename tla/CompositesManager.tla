-------------------------- MODULE CompositesManager --------------------------
(***************************************************************************)
(* The composites manager of src/libserver/composites/composites_manager.cxx *)
(* It holds every composite definition of a configuration: those from the  *)
(* UCL "composites" section (add_composite(name, obj, silent)), those a Lua *)
(* plugin adds as a string (add_composite(name, expr, silent, score)), and  *)
(* those of a composites map, read chunk by chunk (map_read) and parsed    *)
(* line by line when the read ends (map_fin).  process_dependencies splits *)
(* the composites into a first and a second evaluation pass.               *)
(*                                                                         *)
(* Data is abstracted to what the classification and the registry tell     *)
(* apart: an expression is its set of atoms, an atom a prefix (modifier)   *)
(* and a name, a score a small integer.                                    *)
(***************************************************************************)
EXTENDS Integers, Sequences, FiniteSets

CONSTANTS
    Names,          \* composite names
    Syms,           \* plain symbols known to the symbol cache
    SecondPassSyms, \* symbols flagged postfilter, classifier or nostat
    Scores,         \* score values a definition can carry
    DefaultScore,   \* cfg->unknown_weight, or 0.0 when it is NaN
    UclConf,        \* [Names -> UCL object] of the composites section
    StrConf,        \* function: name -> expression, added by Lua plugins
    MapFiles,       \* contents a composites map may deliver on a read
    MaxReloads,     \* bound on the number of map reads
    BadExpr,        \* an expression rspamd_parse_expression rejects
    NoExpr          \* the "expression" key is missing from a UCL object

ASSUME SecondPassSyms \subseteq Syms /\ Names \cap Syms = {}
ASSUME MaxReloads \in Nat

VARIABLES
    comps,     \* composites: name -> index into objs (0 = absent)
    objs,      \* all_composites: sequence of [name, expr, policy]
    first,     \* first_pass_composites: sequence of indices into objs
    second,    \* second_pass_composites
    sym,       \* score registered for the composite symbol in the cfg
    pending,   \* configuration inputs not loaded yet
    frozen,    \* process_dependencies has run
    snapshot,  \* [comps, objs] as process_dependencies saw them
    reading,   \* a map read is in progress
    curData,   \* map_cb_data.cur_data: "null" or the callback data "cbd"
    buf,       \* map_cbdata.buf: the lines received so far
    toRead,    \* the lines of the file the current read still has to deliver
    reloads,   \* map reads started so far
    lastAdd,   \* result of the last add_composite call: "none", "ok", "fail"
    readFile,  \* history: the file the current (or last) map read delivers
    applied    \* history: the file the last complete map read added from

vars == <<comps, objs, first, second, sym, pending, frozen, snapshot,
          reading, curData, buf, toRead, reloads, lastAdd, readFile, applied>>

-----------------------------------------------------------------------------
(* Data                                                                    *)

Mods == {"", "~", "-", "^"}
Atom == [mod : Mods, name : Names \cup Syms]
Policies == {"remove_all", "remove_symbol", "remove_weight", "leave", "unknown"}
Line == [name : Names, score : Scores \cup {"missing", "invalid"},
         expr : (SUBSET Atom) \cup {BadExpr}]

\* The text the expression walker hands to the callbacks for an atom: the
\* atom as written, modifier prefix included.
AtomText(a) == IF a.mod = "" THEN a.name ELSE <<a.mod, a.name>>

\* composite_policy_from_str: the table of accepted policy names.
PolicyTable ==
    [s \in {"remove", "remove_all", "default", "remove_symbol",
            "remove_weight", "leave", "remove_none"} |->
        CASE s \in {"remove", "remove_all", "default"} -> "remove_all"
          [] s = "remove_symbol"                     -> "remove_symbol"
          [] s = "remove_weight"                     -> "remove_weight"
          [] s \in {"leave", "remove_none"}          -> "leave"]
composite_policy_from_str(s) ==
    IF s \in DOMAIN PolicyTable THEN PolicyTable[s] ELSE "unknown"

-----------------------------------------------------------------------------
(* Manager state transformers; st is [comps, objs, sym].                   *)

\* new_composite: append to all_composites, index it by name.
new_composite(st, n, e) ==
    [st EXCEPT !.objs  = Append(@, [name |-> n, expr |-> e, policy |-> "remove_all"]),
               !.comps = [@ EXCEPT ![n] = Len(st.objs) + 1]]

\* rspamd_config_add_symbol: the composite's score in the metric.
rspamd_config_add_symbol(st, n, s) == [st EXCEPT !.sym = [@ EXCEPT ![n] = s]]

Fail(st) == [st |-> st, ok |-> FALSE]
Done(st) == [st |-> st, ok |-> TRUE]

\* Mutant: the lookup of "expression" is not checked before parsing.
AddFromUclUnchecked(st, n, obj, silent) ==
    IF ~obj.enabled THEN Fail(st)
    ELSE IF st.comps[n] # 0 /\ silent THEN Fail(st)
    ELSE IF obj.expr = BadExpr THEN Fail(st)
    ELSE Done(rspamd_config_add_symbol(new_composite(st, n, obj.expr), n, DefaultScore))

\* add_composite(name, obj, silent): the UCL form.
AddFromUcl(st, n, obj, silent) ==
    IF ~obj.enabled THEN Fail(st)
    ELSE IF st.comps[n] # 0 /\ silent THEN Fail(st)
    ELSE IF obj.expr \in {NoExpr, BadExpr} THEN Fail(st)
    ELSE LET s1    == new_composite(st, n, obj.expr)
             score == IF obj.score = "absent" THEN DefaultScore ELSE obj.score
             s2    == rspamd_config_add_symbol(s1, n, score)
             p     == composite_policy_from_str(obj.policy)
             s3    == [s2 EXCEPT !.objs[Len(s2.objs)].policy = p]
         IN  IF obj.policy = "absent" THEN Done(s2)
             ELSE IF p = "unknown" THEN Fail(s3)
             ELSE Done(s3)

\* add_composite(name, expr, silent, score): the string form.
AddFromString(st, n, e, silent, score) ==
    IF st.comps[n] # 0 /\ silent THEN Fail(st)
    ELSE IF e = BadExpr THEN Fail(st)
    ELSE Done(new_composite(rspamd_config_add_symbol(st, n, score), n, e))

\* The body of the string_foreach_line lambda of map_fin, over all lines.
RECURSIVE map_fin_lines(_, _)
map_fin_lines(st, lines) ==
    IF lines = <<>> THEN st
    ELSE LET l  == Head(lines)
             st2 == IF l.score \in {"missing", "invalid"} THEN st
                    ELSE AddFromString(st, l.name, l.expr, TRUE, l.score).st
         IN  map_fin_lines(st2, Tail(lines))

-----------------------------------------------------------------------------
(* Two-pass classification (process_dependencies)                         *)

IsComposite(st, t) == t \in Names /\ st.comps[t] # 0

\* composite_dep_callback over all atoms: a direct second-pass dependency.
DirectlySecondPass(st, i) ==
    \E a \in st.objs[i].expr :
        LET t == AtomText(a) IN ~IsComposite(st, t) /\ t \in SecondPassSyms

\* The lambda of the transitive pass: an atom names a marked composite.
HasSecondPassDep(st, i, set) ==
    \E a \in st.objs[i].expr :
        LET t == AtomText(a) IN IsComposite(st, t) /\ st.comps[t] \in set

\* One sweep of the do ... while (changed) body, in first_pass order.
RECURSIVE Sweep(_, _, _, _)
Sweep(st, order, set, changed) ==
    IF order = <<>> THEN [set |-> set, changed |-> changed]
    ELSE LET i == Head(order) IN
         IF i \notin set /\ HasSecondPassDep(st, i, set)
         THEN Sweep(st, Tail(order), set \cup {i}, TRUE)
         ELSE Sweep(st, Tail(order), set, changed)

\* Mutant: a single sweep instead of repeating until nothing changes.
TransitiveOnce(st, order, set) == Sweep(st, order, set, FALSE).set

RECURSIVE Transitive(_, _, _)
Transitive(st, order, set) ==
    LET r == Sweep(st, order, set, FALSE)
    IN  IF r.changed THEN Transitive(st, order, r.set) ELSE r.set



SecondPassSet(st, order) ==
    Transitive(st, order, {i \in 1..Len(st.objs) : DirectlySecondPass(st, i)})

-----------------------------------------------------------------------------
(* Actions                                                                 *)

Mgr == [comps |-> comps, objs |-> objs, sym |-> sym]
SetMgr(st) == comps' = st.comps /\ objs' = st.objs /\ sym' = st.sym

\* The composites section of the configuration: one object per name.
LoadUcl(n) ==
    /\ ~frozen
    /\ <<"ucl", n>> \in pending
    /\ \E silent \in BOOLEAN :
         LET r == AddFromUcl(Mgr, n, UclConf[n], silent) IN
         /\ SetMgr(r.st)
         /\ lastAdd' = IF r.ok THEN "ok" ELSE "fail"
    /\ pending' = pending \ {<<"ucl", n>>}
    /\ UNCHANGED <<first, second, frozen, snapshot, reading, curData, buf,
                   toRead, reloads, readFile, applied>>

\* rspamd_composites_manager_add_from_string[_silent]: a plugin's add_composite.
LoadString(n) ==
    /\ ~frozen
    /\ <<"str", n>> \in pending
    /\ \E silent \in BOOLEAN :
         LET r == AddFromString(Mgr, n, StrConf[n], silent, DefaultScore) IN
         /\ SetMgr(r.st)
         /\ lastAdd' = IF r.ok THEN "ok" ELSE "fail"
    /\ pending' = pending \ {<<"str", n>>}
    /\ UNCHANGED <<first, second, frozen, snapshot, reading, curData, buf,
                   toRead, reloads, readFile, applied>>

process_dependencies ==
    /\ ~frozen
    /\ LET order == [k \in 1..Len(objs) |-> k]
           set   == SecondPassSet(Mgr, order)
       IN  /\ first'  = SelectSeq(order, LAMBDA i : i \notin set)
           /\ second' = SelectSeq(order, LAMBDA i : i \in set)
    /\ frozen' = TRUE
    /\ snapshot' = [comps |-> comps, objs |-> objs]
    /\ UNCHANGED <<comps, objs, sym, pending, reading, curData, buf, toRead,
                   reloads, lastAdd, readFile, applied>>

\* The map subsystem starts a read: cur_data is reset, prev_data kept.
MapReadStart ==
    /\ frozen /\ ~reading
    /\ reloads < MaxReloads
    /\ \E f \in MapFiles : toRead' = f /\ readFile' = f
    /\ reading' = TRUE
    /\ curData' = "null"
    /\ reloads' = reloads + 1
    /\ UNCHANGED <<comps, objs, first, second, sym, pending, frozen, snapshot,
                   buf, lastAdd, applied>>

\* A map_read that appends even the first chunk of a read to the old buffer.
map_readNoReset ==
    /\ reading /\ toRead # <<>>
    /\ \E k \in 1..Len(toRead) :
         /\ buf' = buf \o SubSeq(toRead, 1, k)
         /\ toRead' = SubSeq(toRead, k + 1, Len(toRead))
    /\ curData' = "cbd"
    /\ UNCHANGED <<comps, objs, first, second, sym, pending, frozen, snapshot,
                   reading, reloads, lastAdd, readFile, applied>>

\* map_read: one chunk; the first chunk of a read reuses prev_data, clearing it.
map_read ==
    /\ reading /\ toRead # <<>>
    /\ \E k \in 1..Len(toRead) :
         LET chunk == SubSeq(toRead, 1, k) IN
         /\ buf' = IF curData = "null" THEN chunk ELSE buf \o chunk
         /\ toRead' = SubSeq(toRead, k + 1, Len(toRead))
    /\ curData' = "cbd"
    /\ UNCHANGED <<comps, objs, first, second, sym, pending, frozen, snapshot,
                   reading, reloads, lastAdd, readFile, applied>>

\* map_fin: an errored read (at any point) clears the buffer; a complete one
\* adds every line with a valid score and a parsable expression.
map_fin ==
    /\ reading
    /\ \/ /\ buf' = IF curData = "cbd" THEN <<>> ELSE buf
          /\ UNCHANGED <<comps, objs, sym, applied>>
       \/ /\ toRead = <<>>
          /\ IF curData = "cbd" THEN SetMgr(map_fin_lines(Mgr, buf))
                                ELSE UNCHANGED <<comps, objs, sym>>
          /\ applied' = readFile
          /\ UNCHANGED buf
    /\ reading' = FALSE
    /\ toRead' = <<>>
    /\ lastAdd' = "none"
    /\ UNCHANGED <<first, second, pending, frozen, snapshot, curData, reloads,
                   readFile>>

Init ==
    /\ comps = [n \in Names |-> 0]
    /\ objs = <<>>
    /\ first = <<>>
    /\ second = <<>>
    /\ sym = [n \in Names |-> "none"]
    /\ pending = {<<"ucl", n>> : n \in DOMAIN UclConf} \cup
                 {<<"str", n>> : n \in DOMAIN StrConf}
    /\ frozen = FALSE
    /\ snapshot = [comps |-> comps, objs |-> objs]
    /\ reading = FALSE
    /\ curData = "null"
    /\ buf = <<>>
    /\ toRead = <<>>
    /\ reloads = 0
    /\ lastAdd = "none"
    /\ readFile = <<>>
    /\ applied = <<>>

\* Configuration loading ends once every input has been processed.
Next ==
    \/ \E n \in Names : LoadUcl(n) \/ LoadString(n)
    \/ pending = {} /\ process_dependencies
    \/ MapReadStart
    \/ map_read
    \/ map_fin

Spec == Init /\ [][Next]_vars

-----------------------------------------------------------------------------
(* Properties                                                              *)

TypeOK ==
    /\ comps \in [Names -> 0..Len(objs)]
    /\ \A i \in 1..Len(objs) :
         /\ objs[i].name \in Names /\ objs[i].policy \in Policies
         /\ objs[i].expr \notin {BadExpr, NoExpr} /\ objs[i].expr \subseteq Atom
    /\ {first[k] : k \in 1..Len(first)} \cup {second[k] : k \in 1..Len(second)}
         \subseteq 1..Len(objs)
    /\ sym \in [Names -> Scores \cup {DefaultScore, "none"}]
    /\ frozen \in BOOLEAN /\ reading \in BOOLEAN
    /\ curData \in {"null", "cbd"}
    /\ buf \in Seq(Line) /\ toRead \in Seq(Line) /\ readFile \in Seq(Line)
    /\ applied \in Seq(Line)
    /\ reloads \in 0..MaxReloads
    /\ lastAdd \in {"none", "ok", "fail"}

\* The dependency relation the classification is about: a composite name
\* points at the composites and symbols its current definition's atoms name.
DepEdges(st) ==
    {<<n, t>> \in Names \X (Names \cup Syms) :
        /\ IsComposite(st, n)
        /\ \E a \in st.objs[st.comps[n]].expr : AtomText(a) = t}

\* The nodes reachable from S along E: the least fixed point above S.
RECURSIVE Reachable(_, _)
Reachable(E, S) ==
    LET S2 == S \cup {e[2] : e \in {d \in E : d[1] \in S}}
    IN  IF S2 = S THEN S ELSE Reachable(E, S2)

\* A composite object needs the second pass iff one of its atoms is a
\* second-pass symbol, or a composite from which a second-pass symbol is
\* reachable.
NeedsSecondPass(st, i) ==
    \E a \in st.objs[i].expr :
        LET t == AtomText(a) IN
        \/ ~IsComposite(st, t) /\ t \in SecondPassSyms
        \/ IsComposite(st, t) /\ Reachable(DepEdges(st), {t}) \cap SecondPassSyms # {}

\* process_dependencies: every composite registered when it ran lands in
\* exactly one pass, and in the second pass exactly when it depends, directly
\* or through other composites (redefinitions included), on a postfilter,
\* classifier or nostat symbol.
ClassificationMatchesClosure ==
    frozen =>
      LET st == snapshot IN
      /\ Len(first) + Len(second) = Len(st.objs)
      /\ \A i \in 1..Len(st.objs) :
           \/ /\ \E k \in 1..Len(second) : second[k] = i
              /\ NeedsSecondPass(st, i)
           \/ /\ \E k \in 1..Len(first) : first[k] = i
              /\ ~NeedsSecondPass(st, i)


\* The classification spec.md 4.3.2 describes: an atom names a symbol or a
\* composite whatever modifiers (~, -, ^) prefix it.
NamedEdges(st) ==
    {<<n, t>> \in Names \X (Names \cup Syms) :
        /\ IsComposite(st, n)
        /\ \E a \in st.objs[st.comps[n]].expr : a.name = t}
NamesSecondPass(st, i) ==
    \E a \in st.objs[i].expr :
        Reachable(NamedEdges(st), {a.name}) \cap SecondPassSyms # {}

\* spec.md 4.3.2: process_dependencies puts a composite in the second pass
\* exactly when one of its atoms, modifiers aside, is a postfilter,
\* classifier or nostat symbol or leads to one through other composites.
SecondPassPerSpec ==
    frozen =>
      \A i \in 1..Len(snapshot.objs) :
        (\E k \in 1..Len(second) : second[k] = i) <=> NamesSecondPass(snapshot, i)

\* The registry spec.md describes, seen through the manager: a name's
\* definition is the expression of the object comps points it to.
Registry == INSTANCE CompositeRegistry WITH
    Policies <- DOMAIN PolicyTable,
    registry <- [n \in Names |-> IF comps[n] = 0 THEN {} ELSE {objs[comps[n]].expr}],
    loaded <- applied

\* The manager implements that registry: every add_composite, map read and
\* classification step is a step of the registry or leaves it unchanged,
\* so rejected definitions leave no composite behind, and a map reload
\* replaces the definitions its well-formed lines name.
ImplementsRegistry == Registry!Spec

\* map_read resets the reused buffer on the first chunk of each read, and
\* map_fin parses that buffer: while a read is in progress, the buffer
\* holds exactly the part of this read's file delivered so far, so lines
\* of an earlier read (kept in prev_data) never reach map_fin again.
MapBufferIsFileRead ==
    reading /\ curData = "cbd" => buf \o toRead = readFile
=============================================================================
