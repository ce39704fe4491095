-------------------------------- MODULE Logger --------------------------------
(***************************************************************************)
(* The Lua logger's formatter (lua_logger.c): lua_logger_do_log and its    *)
(* callers (errx/warnx/infox/messagex/debugx, slog, logx, debugm), the     *)
(* format-string engine lua_logger_log_format_str, and the value printers *)
(* lua_logger_out_type / out_table with their loop-detection trace ring.   *)
(*                                                                         *)
(* Each C call runs to completion, so each API call is one action from the *)
(* Lua stack it is given to what it logs or returns.  Output is abstracted *)
(* to tokens of one byte each: a token is written by rspamd_snprintf only  *)
(* when at least two bytes remain (one for the NUL), so the truncation     *)
(* points of the byte buffer are kept while the wording is left out.       *)
(*                                                                         *)
(* Lua values are records [type, x]: for a string or a number x is its     *)
(* text (a sequence of one-character strings), for a table its identity   *)
(* in Heap, for a userdata its class as lua_logger_get_id finds it.        *)
(***************************************************************************)
EXTENDS Integers, Sequences, SequencesExt

CONSTANTS
    MaxArgs,      \* LUA_MAX_ARGS
    TracePoints,  \* TRACE_POINTS: size of the loop-detection ring
    BufLen,       \* sizeof(logbuf), in tokens
    Tables,       \* table identities (lua_topointer)
    Heap,         \* [Tables -> [arr: array part, hash: <<key, value>> pairs]]
    NoTable,      \* a NULL trace slot
    Stacks        \* the Lua stacks the API functions are called with

VARIABLES
    call,    \* the API function last called
    args,    \* its Lua stack
    result   \* [kind, out]: what it logged or returned, or how it failed

vars == <<call, args, result>>

DigitVal == [c \in {"0", "1", "2", "3", "4", "5", "6", "7", "8", "9"} |->
               CHOOSE n \in 0..9 : <<"0", "1", "2", "3", "4", "5", "6", "7", "8", "9">>[n + 1] = c]
IsDigit(ch) == ch \in DOMAIN DigitVal
Str(s) == [type |-> "string", x |-> s]

\* rspamd_snprintf of one token into remain bytes.
Put(tok, remain) == IF remain >= 2 THEN <<tok>> ELSE <<>>

\* MOVE_BUF: advance past r bytes; a full buffer ends the table.
Move(acc, o) ==
    [acc EXCEPT !.out = @ \o o, !.remain = @ - Len(o), !.oob = acc.remain - Len(o) <= 1]

FreshTrace == [traces |-> [i \in 0..TracePoints - 1 |-> NoTable], level |-> 0]

\* The character at i of a format, "" past its end (the NUL).
At(fmt, i) == IF i \in DOMAIN fmt THEN fmt[i] ELSE ""

-----------------------------------------------------------------------------
(* Scalars: out_int, out_double, out_num, out_boolean, out_userdata,       *)
(* out_str and the fixed strings of out_type.                              *)

IsNumStr(s) == Len(s) > 0 /\ \A i \in DOMAIN s : IsDigit(s[i])
Numeric(v) == v.type = "number" \/ (v.type = "string" /\ IsNumStr(v.x))

lua_logger_out_int(v, uns) ==
    <<IF uns THEN "uint" ELSE "int", IF Numeric(v) THEN v.x ELSE <<"0">>>>

\* "%.*f" of a whole number whose digits are x: a point and prec zeros
\* after the digits, no point when prec = 0.
FixedText(x, prec) ==
    x \o (IF prec = 0 THEN <<>> ELSE <<".">> \o [i \in 1..prec |-> "0"])

\* rspamd_snprintf into len bytes: at most len - 1 characters and a NUL;
\* it returns the number of characters written.
Snprintf(text, len) == SubSeq(text, 1, IF Len(text) < len THEN Len(text) ELSE len - 1)

\* The trailing-zero trim of the default format: p goes back from the
\* last character over zeros (never past the first), steps over a '.',
\* and the NUL goes one past p; p - outbuf is the length returned.
TrimLen(s) ==
    LET q == Max({1} \cup {i \in DOMAIN s : s[i] # "0"})
    IN  IF s[q] = "." THEN q + 1 ELSE q

\* The characters the trim reports: when the text was cut right after the
\* '.', it counts the NUL rspamd_snprintf wrote as one of them.
Trimmed(s) == SubSeq(s \o <<"NUL">>, 1, TrimLen(s))

\* The characters out_double writes into len bytes and reports: "%.*f"
\* with a precision, "%.6f" trimmed without one; a value that is not a
\* number nor a numeric string prints 0.
lua_logger_out_double(v, prec, len) ==
    LET s == Snprintf(IF Numeric(v) THEN FixedText(v.x, IF prec >= 0 THEN prec ELSE 6)
                      ELSE IF prec >= 0 THEN FixedText(<<"0">>, prec)
                      ELSE <<"0", ".", "0">>, len)
        c == IF Numeric(v) /\ prec < 0 /\ s # <<>> THEN Trimmed(s) ELSE s
    IN  [i \in DOMAIN c |-> <<"double", c[i]>>]

\* A userdata without a metatable, and an empty string, print nothing.
ScalarOut(v, remain) ==
    IF (v.type = "userdata" /\ v.x = "nometa") \/ (v.type = "string" /\ v.x = <<>>)
    THEN <<>>
    ELSE Put(<<v.type, v.x>>, remain)

-----------------------------------------------------------------------------
(* The mutually recursive printers.                                        *)

RECURSIVE FormatStr(_, _, _), FmtLoop(_, _, _, _), lua_logger_out_type(_, _, _),
          lua_logger_out_table(_, _, _), ArrItems(_, _, _), HashItems(_, _, _)

\* The "[%2] = %1" format out_table prints a string-keyed entry with.
FmtFirst == <<"[", "%", "2", "]", " ", "=", " ", "%", "1">>
FmtNext  == <<",", " ">> \o FmtFirst

\* The ipairs loop: "[i] = " and the value, with the caller's trace.
ArrItems(t, i, acc) ==
    IF acc.oob \/ i > Len(Heap[t].arr) THEN acc
    ELSE LET a1 == [Move(acc, Put(<<IF acc.first THEN "idx" ELSE ",idx", i>>, acc.remain))
                      EXCEPT !.first = FALSE]
             o  == lua_logger_out_type(Heap[t].arr[i], a1.remain, a1.trace)
         IN  IF a1.oob THEN a1
             ELSE ArrItems(t, i + 1, [Move(a1, o.out) EXCEPT !.trace = o.trace])

\* The pairs loop over string keys: each entry goes through
\* lua_logger_log_format_str, whose lua_logger_out starts a fresh trace.
HashItems(t, j, acc) ==
    IF acc.oob \/ j > Len(Heap[t].hash) THEN acc
    ELSE LET e == Heap[t].hash[j]
             o == FormatStr(IF acc.first THEN FmtFirst ELSE FmtNext, <<e[2], e[1]>>, acc.remain)
         IN  HashItems(t, j + 1, [Move(acc, o) EXCEPT !.first = FALSE])

lua_logger_out_table(t, remain, tr) ==
    LET seen == {i \in 0..TracePoints - 1 : tr.traces[i] = t} IN
    IF seen # {}
    THEN [out |-> Put(IF (tr.level + TracePoints - 1) % TracePoints \in seen
                      THEN <<"self", t>> ELSE <<"ref", t>>, remain),
          trace |-> tr]
    ELSE LET tr1  == [traces |-> [tr.traces EXCEPT ![tr.level % TracePoints] = t],
                      level |-> tr.level + 1]
             a1   == Move([out |-> <<>>, remain |-> remain, trace |-> tr1, first |-> TRUE,
                           oob |-> FALSE], Put(<<"{", t>>, remain))
             body == IF a1.oob THEN a1 ELSE HashItems(t, 1, ArrItems(t, 1, a1))
         IN  [out |-> body.out \o (IF body.oob THEN <<>> ELSE Put(<<"}", t>>, body.remain)),
              trace |-> [body.trace EXCEPT !.level = @ - 1]]

lua_logger_out_type(v, remain, tr) ==
    IF remain = 0 THEN [out |-> <<>>, trace |-> tr]
    ELSE IF v.type = "table" THEN lua_logger_out_table(v.x, remain, tr)
    ELSE [out |-> ScalarOut(v, remain), trace |-> tr]

-----------------------------------------------------------------------------
(* lua_logger_log_format_str                                               *)

\* The digits of a precision, from i on.
RECURSIVE Precision(_, _, _)
Precision(fmt, i, v) ==
    IF IsDigit(At(fmt, i)) THEN Precision(fmt, i + 1, v * 10 + DigitVal[At(fmt, i)])
    ELSE [end |-> i, val |-> v]

\* A positional argument number; end 0 when it reaches LUA_MAX_ARGS.
RECURSIVE ArgNum(_, _, _)
ArgNum(fmt, i, n) ==
    IF ~IsDigit(At(fmt, i)) THEN [end |-> i, val |-> n]
    ELSE IF n * 10 + DigitVal[At(fmt, i)] >= MaxArgs THEN [end |-> 0, val |-> n]
    ELSE ArgNum(fmt, i + 1, n * 10 + DigitVal[At(fmt, i)])

\* The conversion after a '%' at c-1: where the format goes on, the type,
\* the precision and the argument it takes.  next = c: nothing parsed.
Conversion(fmt, c, cur) ==
    LET ch == At(fmt, c)
        P(n, t, p, a) == [next |-> n, type |-> t, prec |-> p, cur |-> a]
        None == P(c, "string", -1, cur)
        pr == Precision(fmt, c + 1, 0)
        an == ArgNum(fmt, c, 0)
    IN  CASE ch = "." -> IF At(fmt, pr.end) = "f" THEN P(pr.end + 1, "double", pr.val, cur + 1)
                         ELSE None
          [] ch = "s" -> P(c + 1, "string", -1, cur + 1)
          [] ch = "d" -> P(c + 1, "int", -1, cur + 1)
          [] ch = "u" -> IF At(fmt, c + 1) = "d" THEN P(c + 2, "uint", -1, cur + 1) ELSE None
          [] ch = "f" -> P(c + 1, "double", -1, cur + 1)
          [] IsDigit(ch) /\ an.end = 0 -> None
          [] IsDigit(ch) ->
               CASE At(fmt, an.end) = "d" -> P(an.end + 1, "int", -1, an.val)
                 [] At(fmt, an.end) = "u" /\ At(fmt, an.end + 1) = "d" ->
                      P(an.end + 2, "uint", -1, an.val)
                 [] At(fmt, an.end) = "f" -> P(an.end + 1, "double", -1, an.val)
                 [] OTHER -> P(an.end, "string", -1, an.val)
          [] OTHER -> None

\* g_assert(r < remain) after each conversion: when it fails the worker
\* aborts, marked by an "abort" token after what was written.
g_assert(ok) == IF ok THEN <<>> ELSE <<<<"abort", "">>>>

\* Mutant: the args_used guard off by one, cur_arg < LUA_MAX_ARGS.
OutArgCapOffByOne(a, sp, st) ==
    LET n == sp.cur
        o == IF n < 1 \/ n > Len(a) THEN Put(<<"missing", "">>, st.remain)
             ELSE CASE sp.type = "int"    -> Put(lua_logger_out_int(a[n], FALSE), st.remain)
                    [] sp.type = "uint"   -> Put(lua_logger_out_int(a[n], TRUE), st.remain)
                    [] sp.type = "double" -> lua_logger_out_double(a[n], sp.prec, st.remain)
                    [] OTHER -> lua_logger_out_type(a[n], st.remain, FreshTrace).out
    IN  [st EXCEPT !.out = @ \o o \o g_assert(Len(o) < st.remain), !.remain = @ - Len(o), !.cur = n,
                   !.used = IF 1 <= n /\ n <= Len(a) /\ n < MaxArgs THEN @ \cup {n} ELSE @]

\* One argument printed: a placeholder when out of range, else by type;
\* the first LUA_MAX_ARGS arguments are marked used.
OutArg(a, sp, st) ==
    LET n == sp.cur
        o == IF n < 1 \/ n > Len(a) THEN Put(<<"missing", "">>, st.remain)
             ELSE CASE sp.type = "int"    -> Put(lua_logger_out_int(a[n], FALSE), st.remain)
                    [] sp.type = "uint"   -> Put(lua_logger_out_int(a[n], TRUE), st.remain)
                    [] sp.type = "double" -> lua_logger_out_double(a[n], sp.prec, st.remain)
                    [] OTHER -> lua_logger_out_type(a[n], st.remain, FreshTrace).out
    IN  [st EXCEPT !.out = @ \o o \o g_assert(Len(o) < st.remain), !.remain = @ - Len(o), !.cur = n,
                   !.used = IF 1 <= n /\ n <= Len(a) /\ n <= MaxArgs THEN @ \cup {n} ELSE @]

Lit(st, ch) == [st EXCEPT !.out = @ \o <<<<"lit", ch>>>>, !.remain = @ - 1]

\* Mutant: the loop writes into the byte kept for the NUL.
RECURSIVE FmtLoopNoNul(_, _, _, _)
FmtLoopNoNul(fmt, a, p, st) ==
    IF st.remain <= 0 \/ p > Len(fmt) THEN st
    ELSE IF fmt[p] # "%" THEN FmtLoopNoNul(fmt, a, p + 1, Lit(st, fmt[p]))
    ELSE IF At(fmt, p + 1) = "%" THEN FmtLoopNoNul(fmt, a, p + 2, Lit(st, "%"))
    ELSE LET sp == Conversion(fmt, p + 1, st.cur) IN
         IF sp.next = p + 1 THEN FmtLoopNoNul(fmt, a, p + 1, Lit(st, "%"))
         ELSE FmtLoopNoNul(fmt, a, sp.next, OutArg(a, sp, st))

FmtLoop(fmt, a, p, st) ==
    IF st.remain <= 1 \/ p > Len(fmt) THEN st
    ELSE IF fmt[p] # "%" THEN FmtLoop(fmt, a, p + 1, Lit(st, fmt[p]))
    ELSE IF At(fmt, p + 1) = "%" THEN FmtLoop(fmt, a, p + 2, Lit(st, "%"))
    ELSE LET sp == Conversion(fmt, p + 1, st.cur) IN
         IF sp.next = p + 1 THEN FmtLoop(fmt, a, p + 1, Lit(st, "%"))
         ELSE FmtLoop(fmt, a, sp.next, OutArg(a, sp, st))

\* Mutant: the count of extra arguments subtracted the wrong way round.
ExtraWarningSwapped(st, a) ==
    IF Cardinality(st.used) > 0 /\ Cardinality(st.used) < Len(a) /\ st.remain > 1
    THEN <<<<"extra", Cardinality(st.used) - Len(a)>>>>
    ELSE <<>>

\* " <EXTRA n ARGUMENTS>" when some but not all arguments were used.
ExtraWarning(st, a) ==
    IF Cardinality(st.used) > 0 /\ Cardinality(st.used) < Len(a) /\ st.remain > 1
    THEN <<<<"extra", Len(a) - Cardinality(st.used)>>>>
    ELSE <<>>

FormatStr(fmt, a, remain) ==
    LET st == FmtLoop(fmt, a, 1, [out |-> <<>>, remain |-> remain, cur |-> 0, used |-> {}])
    IN  st.out \o ExtraWarning(st, a)

-----------------------------------------------------------------------------
(* lua_logger_get_id and the API functions                                 *)

\* The uid of a userdata: NULL without a metatable; a metatable with no
\* class name reaches strcmp(NULL, ...), which faults; any other class
\* gives a uid, "" when the class is unknown or its object invalid.
lua_logger_get_id(v) ==
    CASE v.type # "userdata" \/ v.x = "nometa" -> "null"
      [] v.x = "noclass"                       -> "crash"
      [] OTHER                                 -> "uid"

Res(k, o) == [kind |-> k, out |-> o, fmtArgs |-> <<>>]

\* The value at i of a stack; LUA_TNONE past its top.
ValueAt(s, i) == IF i \in DOMAIN s THEN s[i] ELSE [type |-> "none", x |-> <<>>]
TypeAt(s, i) == ValueAt(s, i).type

\* lua_tostring: the text of a string or a number, else NULL.
HasText(s, i) == TypeAt(s, i) \in {"string", "number"}

\* lua_logger_log_format with the format at p and the arguments after it.
LogFormat(s, p) == FormatStr(s[p].x, SubSeq(s, p + 1, Len(s)), BufLen)

\* A logged result; fmtArgs records the format and the arguments it got.
\* A failed g_assert aborts the worker before anything is logged or returned.
Logged(k, s, p) ==
    LET o == LogFormat(s, p)
    IN  [kind |-> IF \E i \in DOMAIN o : o[i][1] = "abort" THEN "abort" ELSE k,
         out |-> o,
         fmtArgs |-> <<s[p].x, SubSeq(s, p + 1, Len(s))>>]

\* An optional uid userdata, then the format: at start, else the first
\* string after it.
lua_logger_do_log(s, is_string) ==
    LET uid  == IF TypeAt(s, 1) = "userdata" THEN lua_logger_get_id(s[1]) ELSE "none"
        p1   == IF TypeAt(s, 1) = "userdata" THEN 2 ELSE 1
        p2   == IF TypeAt(s, p1) # "string" THEN 1 ELSE p1
        more == {i \in p2 + 1..Len(s) : TypeAt(s, i) = "string"}
        p3   == IF TypeAt(s, p2) = "string" \/ more = {} THEN p2 ELSE Min(more)
    IN  CASE uid = "crash"              -> Res("crash", <<>>)
          [] uid = "null"               -> Res("error", <<>>)
          [] TypeAt(s, p3) # "string"   -> Res("error", <<>>)
          [] OTHER -> Logged(IF is_string THEN "string" ELSE "log", s, p3)

\* logx and debugm after the uid: a format at p, or a stack level at p
\* and the format at p + 1.
ModuleLog(s, p) ==
    CASE TypeAt(s, p) = "string" -> Logged("log", s, p)
      [] TypeAt(s, p) = "number" /\ HasText(s, p + 1) -> Logged("log", s, p + 1)
      [] TypeAt(s, p) = "number" -> Res("nothing", <<>>)
      [] OTHER -> Res("error", <<>>)

LogxResult(s) ==
    LET uid == CASE TypeAt(s, 3) = "string"   -> "uid"
                 [] TypeAt(s, 3) = "userdata" -> lua_logger_get_id(ValueAt(s, 3))
                 [] OTHER                     -> "uid"
    IN  CASE uid = "crash" -> Res("crash", <<>>)
          [] uid = "null" \/ ~HasText(s, 2) -> Res("error", <<>>)
          [] OTHER -> ModuleLog(s, 4)

DebugmResult(s) ==
    LET uid == IF TypeAt(s, 2) = "string" THEN "uid" ELSE lua_logger_get_id(ValueAt(s, 2))
    IN  CASE ~HasText(s, 1) -> Res("error", <<>>)
          [] uid = "crash"  -> Res("crash", <<>>)
          [] uid = "null"   -> Res("error", <<>>)
          [] OTHER -> ModuleLog(s, 3)

\* errx, warnx, infox, messagex, debugx: the level is not modelled.  The
\* formatter keeps no state between calls, so a behaviour is one call on
\* one stack.
lua_logger_errx ==
    /\ call = "none" /\ call' = "errx" /\ result' = lua_logger_do_log(args, FALSE)
    /\ UNCHANGED args

lua_logger_slog ==
    /\ call = "none" /\ call' = "slog" /\ result' = lua_logger_do_log(args, TRUE)
    /\ UNCHANGED args

\* logx(level, module, uid, [stack level,] format, ...)
lua_logger_logx ==
    /\ call = "none" /\ call' = "logx" /\ result' = LogxResult(args)
    /\ UNCHANGED args

\* debugm(module, uid or object, [stack level,] format, ...)
lua_logger_debugm ==
    /\ call = "none" /\ call' = "debugm" /\ result' = DebugmResult(args)
    /\ UNCHANGED args

Init ==
    /\ call = "none"
    /\ args \in Stacks
    /\ result = Res("none", <<>>)

Next ==
    \/ lua_logger_errx
    \/ lua_logger_slog
    \/ lua_logger_logx
    \/ lua_logger_debugm

Spec == Init /\ [][Next]_vars

-----------------------------------------------------------------------------
(* Properties                                                              *)

Calls == {"none", "errx", "slog", "logx", "debugm"}
Kinds == {"none", "log", "string", "nothing", "error", "crash", "abort"}
TokenKinds == {"{", "}", "self", "ref", "idx", ",idx", "lit", "missing", "extra", "abort",
               "int", "uint", "double", "number", "string", "boolean", "nil", "userdata"}

TypeOK ==
    /\ call \in Calls
    /\ result.kind \in Kinds
    /\ \A i \in DOMAIN result.out :
         /\ result.out[i][1] \in TokenKinds
         /\ result.out[i][1] \in {"{", "}", "self", "ref"} => result.out[i][2] \in Tables
         /\ result.out[i][1] = "extra" => result.out[i][2] \in 1..Len(args)

\* The tables open (printed "{" and not yet "}") before position p.
OpenBefore(out, p) ==
    FoldLeft(LAMBDA o, tok : IF tok[1] = "{" THEN Append(o, tok[2])
                             ELSE IF tok[1] = "}" THEN Front(o) ELSE o,
             <<>>, SubSeq(out, 1, p - 1))

\* What a call logs fits logbuf with its terminating NUL, however deep the
\* tables and formats that print into it (g_assert(r < remain) in
\* lua_logger_log_format_str and MOVE_BUF in lua_logger_out_table).
BufferBound == Len(result.out) <= BufLen - 1

RECURSIVE FmtRefs(_, _, _)
FmtRefs(fmt, p, cur) ==
    IF p > Len(fmt) THEN {}
    ELSE IF fmt[p] # "%" THEN FmtRefs(fmt, p + 1, cur)
    ELSE IF At(fmt, p + 1) = "%" THEN FmtRefs(fmt, p + 2, cur)
    ELSE LET sp == Conversion(fmt, p + 1, cur) IN
         IF sp.next = p + 1 THEN FmtRefs(fmt, p + 1, cur)
         ELSE {sp.cur} \cup FmtRefs(fmt, sp.next, sp.cur)

\* lua_logger_log_format_str appends " <EXTRA n ARGUMENTS>" ("Check for
\* extra arguments"): when it does, the format refers to some argument
\* and n is the number of arguments it never refers to, positional
\* references, repeats and missing ones included; when it does not, the
\* format refers to none or all of them, or the buffer is full.  This is
\* claimed up to LUA_MAX_ARGS arguments, the last one tracked in args_used;
\* past it the count is known to be wrong (a used argument past the cap
\* is never counted).
ExtraArgsCounted ==
    result.fmtArgs # <<>> /\ Len(result.fmtArgs[2]) <= MaxArgs =>
        LET n     == Len(result.fmtArgs[2])
            refs  == FmtRefs(result.fmtArgs[1], 1, 0) \cap 1..n
            extra == {k \in DOMAIN result.out : result.out[k][1] = "extra"}
        IN  IF extra # {}
            THEN refs # {} /\ \A k \in extra : result.out[k][2] = n - Cardinality(refs)
            ELSE refs = {} \/ refs = 1..n \/ Len(result.out) >= BufLen - 1
====
