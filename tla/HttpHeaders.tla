----------------------------- MODULE HttpHeaders -----------------------------
(***************************************************************************)
(* The http_headers plugin (src/plugins/lua/http_headers.lua): conditions  *)
(* on DKIM_CHECK, SPF_CHECK and DMARC_CALLBACK that read a DKIM, SPF or    *)
(* DMARC request header, insert the symbols it carries, and decide whether *)
(* the check itself runs.                                                  *)
(*                                                                         *)
(* A header is a record: its state is "absent", "unparsable"               *)
(* (parse_string fails) or "object", and the parsed object's results (read *)
(* by DKIM only) and result fields may be "absent".  An inserted result is *)
(* [check, sym, opt]; the DKIM trace option domain:char is the pair        *)
(* <<domain, char>>.                                                       *)
(*                                                                         *)
(* The scheduler's side (spec.md 4.1.3, step 2) is modelled from spec.md:  *)
(* a condition's result either lets the symbol run or marks it completed   *)
(* without running.  spec.md calls the second outcome "skip"; the plugin   *)
(* returns true on a parse error, where the check has to run, so false is  *)
(* skip.                                                                   *)
(***************************************************************************)
EXTENDS Sequences, SequencesExt

CONSTANTS
    Headers     \* the request headers a task may carry: [Checks -> header]

Checks == {"DKIM_CHECK", "SPF_CHECK", "DMARC_CALLBACK"}

VARIABLES
    hdr,        \* check -> the request header its condition reads
    status,     \* check -> "pending", "runnable", "completed" or "ran"
    inserted    \* task results inserted, in order

vars == <<hdr, status, inserted>>

Ins(c, s, o) == [check |-> c, sym |-> s, opt |-> o]

\* The symbols and trace characters of the settings tables (defaults).
dkim_symbols == [symbol_allow |-> "R_DKIM_ALLOW", symbol_deny |-> "R_DKIM_REJECT",
                 symbol_tempfail |-> "R_DKIM_TEMPFAIL", symbol_na |-> "R_DKIM_NA",
                 symbol_permfail |-> "R_DKIM_PERMFAIL", symbol_trace |-> "DKIM_TRACE"]
dkim_trace == [pass |-> "+", fail |-> "-", temperror |-> "?", permerror |-> "~"]

\* The if/elseif chains: a result value -> the symbol it inserts.  A value
\* outside the domain matches no branch and inserts nothing.
DkimVerdict ==
    ("pass" :> <<"symbol_allow", "pass">>) @@ ("allow" :> <<"symbol_allow", "pass">>) @@
    ("fail" :> <<"symbol_deny", "fail">>) @@ ("reject" :> <<"symbol_deny", "fail">>) @@
    ("tempfail" :> <<"symbol_tempfail", "temperror">>) @@
    ("softfail" :> <<"symbol_tempfail", "temperror">>) @@
    ("permfail" :> <<"symbol_permfail", "permerror">>)

SpfVerdict ==
    ("pass" :> "R_SPF_ALLOW") @@ ("allow" :> "R_SPF_ALLOW") @@
    ("fail" :> "R_SPF_FAIL") @@ ("reject" :> "R_SPF_FAIL") @@
    ("neutral" :> "R_SPF_NEUTRAL") @@ ("softfail" :> "R_SPF_SOFTFAIL") @@
    ("permfail" :> "R_SPF_PERMFAIL") @@ ("na" :> "R_SPF_NA")

DmarcVerdict ==
    ("pass" :> "DMARC_POLICY_ALLOW") @@ ("allow" :> "DMARC_POLICY_ALLOW") @@
    ("fail" :> "DMARC_POLICY_REJECT") @@ ("reject" :> "DMARC_POLICY_REJECT") @@
    ("quarantine" :> "DMARC_POLICY_QUARANTINE") @@ ("tempfail" :> "DMARC_DNSFAIL") @@
    ("softfail" :> "DMARC_POLICY_SOFTFAIL") @@ ("none" :> "DMARC_POLICY_SOFTFAIL") @@
    ("permfail" :> "DMARC_BAD_POLICY") @@ ("badpolicy" :> "DMARC_BAD_POLICY") @@
    ("na" :> "DMARC_NA")

\* results, or the single result as one entry of domain 'unknown'.
DkimEntries(o) ==
    IF o.results # "absent" THEN o.results
    ELSE IF o.result # "absent" THEN <<[result |-> o.result, domain |-> "unknown"]>>
    ELSE <<>>

\* The body of the ipairs loop for one entry.
DkimInserts(e) ==
    LET dom == IF e.domain = "absent" THEN "unknown" ELSE e.domain
    IN  IF e.result \in DOMAIN DkimVerdict
        THEN LET v == DkimVerdict[e.result]
             IN  << Ins("DKIM_CHECK", dkim_symbols[v[1]], "http header"),
                    Ins("DKIM_CHECK", dkim_symbols.symbol_trace,
                        <<dom, dkim_trace[v[2]]>>) >>
        ELSE IF e.result = "na"
        THEN << Ins("DKIM_CHECK", dkim_symbols.symbol_na, "http header") >>
        ELSE << >>

\* A condition's outcome: its return value and the results it inserted.
Cond(ret, ins) == [ret |-> ret, ins |-> ins]

dkim_condition(h) ==
    IF h.state = "absent" THEN Cond(FALSE, <<>>)
    ELSE IF h.state = "unparsable" THEN Cond(TRUE, <<>>)
    ELSE LET es == DkimEntries(h)
         IN  Cond(FALSE, FlattenSeq([k \in DOMAIN es |-> DkimInserts(es[k])]))

\* The SPF and DMARC conditions: one result, one symbol.
SingleCondition(c, table, h) ==
    IF h.state = "absent" THEN Cond(FALSE, <<>>)
    ELSE IF h.state = "unparsable" THEN Cond(TRUE, <<>>)
    ELSE IF h.result \in DOMAIN table
         THEN Cond(FALSE, << Ins(c, table[h.result], "http header") >>)
         ELSE Cond(FALSE, <<>>)

spf_condition(h) == SingleCondition("SPF_CHECK", SpfVerdict, h)
dmarc_condition(h) == SingleCondition("DMARC_CALLBACK", DmarcVerdict, h)

\* add_condition: the condition registered for each check.
Condition(c, h) ==
    CASE c = "DKIM_CHECK"     -> dkim_condition(h)
      [] c = "SPF_CHECK"      -> spf_condition(h)
      [] c = "DMARC_CALLBACK" -> dmarc_condition(h)

-----------------------------------------------------------------------------
Init ==
    /\ hdr \in Headers
    /\ status = [c \in Checks |-> "pending"]
    /\ inserted = <<>>

\* The scheduler checks the conditions of a pending symbol: a false one
\* marks it completed, otherwise it becomes runnable.
CheckConditions(c) ==
    /\ status[c] = "pending"
    /\ LET r == Condition(c, hdr[c])
       IN  /\ inserted' = inserted \o r.ins
           /\ status' = [status EXCEPT ![c] = IF r.ret THEN "runnable" ELSE "completed"]
    /\ UNCHANGED hdr

\* The check itself runs and records its own verdict.
RunSymbol(c) ==
    /\ status[c] = "runnable"
    /\ status' = [status EXCEPT ![c] = "ran"]
    /\ inserted' = Append(inserted, Ins(c, c, "verdict"))
    /\ UNCHANGED hdr

Next == \E c \in Checks : CheckConditions(c) \/ RunSymbol(c)

Spec == Init /\ [][Next]_vars

-----------------------------------------------------------------------------
\* The comment above each condition, "Disable DKIM checks if passed via
\* HTTP headers": a check is only skipped when its header passed a result.
\* Every check that is done either ran or had a result of its own inserted
\* from the header.
CheckDecided ==
    \A c \in Checks :
        status[c] \in {"completed", "ran"} =>
            \/ status[c] = "ran"
            \/ \E k \in DOMAIN inserted : inserted[k].check = c
=============================================================================
