---------------------------- MODULE HtmlContent ----------------------------
(***************************************************************************)
(* The tag walks of rspamd's parsed HTML (struct html_content,             *)
(* src/libserver/html/html.hxx): traverse_block_tags in pre and post       *)
(* order over the block tree under root_tag, traverse_all_tags over the    *)
(* tags in document order, and for_each_clickable_attr, which hands the    *)
(* href or src attribute of every link-bearing tag to a callback.  Every   *)
(* walk stops at the first false returned by its callback.                 *)
(*                                                                         *)
(* A content is a record: root says whether root_tag is set, tags is       *)
(* all_tags in document order (a tag is its id, its flags and the set of   *)
(* attributes it carries) and parent[i] < i is the block parent of tag i,  *)
(* tag 1 being root_tag.  The callback is abstracted to the set refuse of  *)
(* tags on which it returns false.  One behaviour is one call of one walk. *)
(***************************************************************************)
EXTENDS Naturals, Sequences, SequencesExt

CONSTANTS
    Contents    \* the parsed contents a walk may be called on

VARIABLES
    content,    \* the html_content walked
    refuse,     \* tags on which the callback returns false
    op,         \* the walk called: "none", "pre", "post", "all", "click"
    calls,      \* the callback invocations, in order
    ret         \* the walk's return value

vars == <<content, refuse, op, calls, ret>>

\* A freshly constructed html_content: root_tag is nullptr, all_tags empty.
EmptyContent == [root |-> FALSE, tags |-> <<>>, parent |-> <<>>]

Tags(c) == 1..Len(c.tags)

\* root->children, kept in the order the parser attached them.
Children(c, i) == SetToSortSeq({j \in Tags(c) \ {1} : c.parent[j] = i}, <)

\* Walk results: the callbacks made and whether the walk completed.
Done(cs) == [calls |-> cs, ok |-> TRUE]
Stopped(cs) == [calls |-> cs, ok |-> FALSE]

RECURSIVE ChildrenLoopSkipSubtree(_, _, _, _, _), ChildrenLoop(_, _, _, _, _),
          rec_functor_pre_order(_, _, _), rec_functor_post_order(_, _, _),
          Functor(_, _, _, _)

\* A children loop that skips a failed subtree instead of aborting.
ChildrenLoopSkipSubtree(c, r, how, kids, done) ==
    IF kids = <<>> THEN Done(done)
    ELSE ChildrenLoop(c, r, how, Tail(kids),
                      done \o Functor(c, r, how, Head(kids)).calls)

\* for (c : root->children) if (!rec(c, rec)) return false;
ChildrenLoop(c, r, how, kids, done) ==
    IF kids = <<>> THEN Done(done)
    ELSE LET s == Functor(c, r, how, Head(kids))
         IN  IF s.ok THEN ChildrenLoop(c, r, how, Tail(kids), done \o s.calls)
             ELSE Stopped(done \o s.calls)

\* func(root) first; the children only if it returned true.
rec_functor_pre_order(c, r, i) ==
    IF i \in r THEN Stopped(<<i>>)
    ELSE ChildrenLoop(c, r, "pre", Children(c, i), <<i>>)

\* The children first; func(root) only if all of them returned true.
rec_functor_post_order(c, r, i) ==
    LET s == ChildrenLoop(c, r, "post", Children(c, i), <<>>)
    IN  IF s.ok THEN [calls |-> Append(s.calls, i), ok |-> i \notin r]
        ELSE s

Functor(c, r, how, i) ==
    IF how = "pre" THEN rec_functor_pre_order(c, r, i)
    ELSE rec_functor_post_order(c, r, i)

traverse_block_tags(c, r, how) ==
    IF ~c.root THEN Stopped(<<>>) ELSE Functor(c, r, how, 1)

\* traverse_all_tags skips FL_XML and FL_VIRTUAL tags.
VisibleNoVirtual(t) == "XML" \notin t.flags
Visible(t) == t.flags \cap {"XML", "VIRTUAL"} = {}

RECURSIVE AllTagsFrom(_, _, _, _)
AllTagsFrom(c, r, i, done) ==
    IF i > Len(c.tags) THEN Done(done)
    ELSE IF ~Visible(c.tags[i]) THEN AllTagsFrom(c, r, i + 1, done)
    ELSE IF i \in r THEN Stopped(Append(done, i))
    ELSE AllTagsFrom(c, r, i + 1, Append(done, i))

traverse_all_tags(c, r) == AllTagsFrom(c, r, 1, <<>>)

\* for_each_clickable_attr: the tags it looks at, and the one attribute
\* it reports of each: href if present, else src.
Skipped(t) == t.flags \cap {"XML", "VIRTUAL", "BROKEN"} # {}
HasLink(t) == "HREF" \in t.flags \/ t.id \in {"A", "IMG", "LINK", "BASE"}
ClickAttr(t) == {a \in t.attrs \cap {"href", "src"} :
                    a = "href" \/ "href" \notin t.attrs}

RECURSIVE ClickFromNoStop(_, _, _, _), ClickFrom(_, _, _, _)
\* A clickable walk that ignores the callback's false.
ClickFromNoStop(c, r, i, done) ==
    IF i > Len(c.tags) THEN done
    ELSE LET t == c.tags[i]
         IN  IF Skipped(t) \/ ~HasLink(t) \/ ClickAttr(t) = {}
             THEN ClickFromNoStop(c, r, i + 1, done)
             ELSE ClickFromNoStop(c, r, i + 1,
                     Append(done, <<i, CHOOSE a \in ClickAttr(t) : TRUE>>))

ClickFrom(c, r, i, done) ==
    IF i > Len(c.tags) THEN done
    ELSE LET t == c.tags[i]
             d == Append(done, <<i, CHOOSE a \in ClickAttr(t) : TRUE>>)
         IN  IF Skipped(t) \/ ~HasLink(t) \/ ClickAttr(t) = {}
             THEN ClickFrom(c, r, i + 1, done)
             ELSE IF i \in r THEN d ELSE ClickFrom(c, r, i + 1, d)

for_each_clickable_attr(c, r) == ClickFrom(c, r, 1, <<>>)

-----------------------------------------------------------------------------
Init ==
    /\ content \in Contents
    /\ refuse \in SUBSET Tags(content)
    /\ op = "none"
    /\ calls = <<>>
    /\ ret = FALSE

TraverseBlockTags ==
    /\ op = "none"
    /\ \E how \in {"pre", "post"} :
          LET s == traverse_block_tags(content, refuse, how)
          IN  /\ op' = how
              /\ calls' = s.calls
              /\ ret' = s.ok
    /\ UNCHANGED <<content, refuse>>

TraverseAllTags ==
    /\ op = "none"
    /\ LET s == traverse_all_tags(content, refuse)
       IN  /\ op' = "all"
           /\ calls' = s.calls
           /\ ret' = s.ok
    /\ UNCHANGED <<content, refuse>>

\* for_each_clickable_attr returns void: ret keeps its initial value.
ForEachClickableAttr ==
    /\ op = "none"
    /\ op' = "click"
    /\ calls' = for_each_clickable_attr(content, refuse)
    /\ UNCHANGED <<content, refuse, ret>>

Next == TraverseBlockTags \/ TraverseAllTags \/ ForEachClickableAttr

Spec == Init /\ [][Next]_vars

-----------------------------------------------------------------------------
(* Reference definitions, stated over whole sequences.                     *)

RECURSIVE PreSeq(_, _), PostSeq(_, _)
PreSeq(c, i) ==
    <<i>> \o FlattenSeq([k \in 1..Len(Children(c, i)) |->
                            PreSeq(c, Children(c, i)[k])])
PostSeq(c, i) ==
    FlattenSeq([k \in 1..Len(Children(c, i)) |->
                   PostSeq(c, Children(c, i)[k])]) \o <<i>>

\* The prefix of s up to and including its first element in r.
StopAt(s, r) ==
    IF \E k \in DOMAIN s : s[k] \in r
    THEN SubSeq(s, 1, CHOOSE k \in DOMAIN s :
                          s[k] \in r /\ \A j \in 1..k-1 : s[j] \notin r)
    ELSE s

DocOrder(c) == [i \in Tags(c) |-> i]

\* traverse_block_tags calls func on the tags of the tree under root_tag
\* in pre (post) order, and a false from func ends the whole walk, not
\* only the subtree it was called on: the calls are the full order cut
\* after the first refused tag, and the result is true iff no call
\* returned false (and false when root_tag is unset).
BlockTraversalOrder ==
    op \in {"pre", "post"} =>
        LET full == IF ~content.root THEN <<>>
                    ELSE IF op = "pre" THEN PreSeq(content, 1)
                    ELSE PostSeq(content, 1)
        IN  /\ calls = StopAt(full, refuse)
            /\ ret = (content.root /\ \A k \in DOMAIN full : full[k] \notin refuse)

\* traverse_all_tags hands func every tag but the XML and virtual ones, in
\* document order, up to the first that it refuses, and returns true iff
\* it refused none.
AllTagsOrder ==
    op = "all" =>
        LET Shown(i) == content.tags[i].flags \cap {"XML", "VIRTUAL"} = {}
            full == SelectSeq(DocOrder(content), Shown)
        IN  /\ calls = StopAt(full, refuse)
            /\ ret = \A k \in DOMAIN full : full[k] \notin refuse

\* for_each_clickable_attr hands the callback, in document order, one
\* clickable attribute of every link tag (FL_HREF, or A, IMG, LINK, BASE)
\* that is not XML, virtual or broken and has an href or src, and stops at
\* the first tag whose callback returns false ("return false to stop
\* iteration").  Which attribute a tag with both gets is left open: the
\* doc comment's "all clickable attributes" and the code's else-if differ.
ClickableAttrsReported ==
    op = "click" =>
        LET t == content.tags
            Link(i) == /\ t[i].flags \cap {"XML", "VIRTUAL", "BROKEN"} = {}
                       /\ "HREF" \in t[i].flags \/ t[i].id \in {"A", "IMG", "LINK", "BASE"}
                       /\ t[i].attrs \cap {"href", "src"} # {}
        IN  /\ [k \in DOMAIN calls |-> calls[k][1]]
                  = StopAt(SelectSeq(DocOrder(content), Link), refuse)
            /\ \A k \in DOMAIN calls : calls[k][2] \in t[calls[k][1]].attrs \cap {"href", "src"}
=============================================================================
