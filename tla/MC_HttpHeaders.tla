---------------------------- MODULE MC_HttpHeaders ----------------------------
(***************************************************************************)
(* Request headers for HttpHeaders: each of the DKIM, SPF and DMARC        *)
(* headers is absent, unparsable, an empty object, a single result (one    *)
(* the chains know, tempfail, and one they do not), or a DKIM results list *)
(* with and without domains, which takes precedence over result.           *)
(***************************************************************************)
EXTENDS HttpHeaders

Obj(rs, r) == [state |-> "object", results |-> rs, result |-> r]
None(st) == [state |-> st, results |-> "absent", result |-> "absent"]
Entry(r, d) == [result |-> r, domain |-> d]

MC_HeaderValues ==
    { None("absent"), None("unparsable"),
      Obj("absent", "absent"),
      Obj("absent", "pass"),
      Obj("absent", "tempfail"),
      Obj("absent", "bogus"),
      Obj(<<Entry("fail", "d1"), Entry("na", "absent")>>, "pass"),
      Obj(<<>>, "pass") }

MC_Headers == [Checks -> MC_HeaderValues]
=============================================================================
