--------------------------- MODULE MC_HtmlContent ---------------------------
(* Contents of up to four tags for HtmlContent: every block tree shape with *)
(* parent[i] < i, root_tag either the virtual root the parser creates or a *)
(* plain tag, and the other tags drawn from the kinds that the walks tell  *)
(* apart.                                                                  *)
EXTENDS HtmlContent

\* The virtual <html> root the parser puts above the document.
KVirt == [id |-> "HTML", flags |-> {"VIRTUAL"}, attrs |-> {}]
KA    == [id |-> "A",    flags |-> {},          attrs |-> {"href"}]
KImg  == [id |-> "IMG",  flags |-> {},          attrs |-> {"src"}]
\* A non-link tag the parser flagged FL_HREF, carrying both attributes.
KHref == [id |-> "DIV",  flags |-> {"HREF"},    attrs |-> {"href", "src"}]
KXml  == [id |-> "A",    flags |-> {"XML"},     attrs |-> {"href"}]
KBrok == [id |-> "A",    flags |-> {"BROKEN"},  attrs |-> {"href"}]
\* Not a link tag, although it has a src.
KDiv  == [id |-> "DIV",  flags |-> {},          attrs |-> {"src"}]

Kinds == {KVirt, KA, KImg, KHref, KXml, KBrok, KDiv}

\* Parent functions with parent[i] < i for tags 2..n.
Parents(n) == {p \in [2..n -> 1..n] : \A i \in 2..n : p[i] < i}

Trees(n, K) ==
    {[root |-> TRUE, tags |-> ts, parent |-> p] :
        ts \in {s \in [1..n -> K] : s[1] \in {KVirt, KA}},
        p \in Parents(n)}

MC_Contents ==
    {EmptyContent} \cup UNION {Trees(n, Kinds) : n \in 1..4}
=============================================================================
