---------------------------- MODULE MapsController ----------------------------
(***************************************************************************)
(* The controller's maps endpoints (rules/controller/maps.lua): list,      *)
(* query, query_specific and query_json.  A handler runs to completion on  *)
(* the controller's event loop, so each request is one action; what it    *)
(* sends on the connection (send_ucl, send_error) and whether it raises a  *)
(* Lua error are recorded in last.  maps_cache and maps_aliases are filled *)
(* once, from rspamd_config:get_maps(), by the first request.              *)
(*                                                                         *)
(* Maps are model values with their contents given as a function; the     *)
(* iteration order of pairs() over a table of maps is any order.           *)
(***************************************************************************)
EXTENDS Integers, Sequences, SequencesExt

CONSTANTS
    Uris,        \* map URIs
    Static,      \* the URI of static maps ('static')
    ConfigMaps,  \* rspamd_config:get_maps(): a sequence of URIs, duplicates included
    AliasOf,     \* [Uris -> alias]: uri:match('/([^/]+)$')
    Keys,        \* keys a request asks for
    Val,         \* [Uris -> [Keys -> value or NoValue]]: m:get_key(key)
    NoValue,
    BadName,     \* a requested name that is neither a URI nor an alias
    KeyLists,    \* the key lists requests carry
    NameLists    \* the map-name lists requests carry (<<>>: no maps parameter)

Names == Uris \cup {AliasOf[u] : u \in Uris} \cup {BadName}

VARIABLES
    cache,  \* [filled, maps (maps_cache's keys), aliases (maps_aliases)]
    last    \* the last request: [handler, req, out (responses sent), raised]

vars == <<cache, last>>

-----------------------------------------------------------------------------
(* maybe_fill_maps_cache: on first use, every non-static URI is cached;    *)
(* an alias keeps the first URI that has it.                               *)
\* Mutant: a later URI with the same alias takes the alias over.
RECURSIVE FillCacheLastAlias(_, _)
FillCacheLastAlias(c, seq) ==
    IF seq = <<>> THEN c
    ELSE LET u == Head(seq) IN
         FillCacheLastAlias(
           IF u = Static \/ u \in c.maps THEN c
           ELSE [c EXCEPT !.maps = @ \cup {u}, !.aliases = (AliasOf[u] :> u) @@ @],
           Tail(seq))

\* Mutant: the 'static' URI is not skipped.
RECURSIVE FillCacheWithStatic(_, _)
FillCacheWithStatic(c, seq) ==
    IF seq = <<>> THEN c
    ELSE LET u == Head(seq) IN
         FillCacheWithStatic(
           IF u \in c.maps THEN c
           ELSE [c EXCEPT !.maps = @ \cup {u}],
           Tail(seq))

RECURSIVE FillCache(_, _)
FillCache(c, seq) ==
    IF seq = <<>> THEN c
    ELSE LET u == Head(seq) IN
         FillCache(
           IF u = Static \/ u \in c.maps THEN c
           ELSE [c EXCEPT !.maps = @ \cup {u},
                          !.aliases = IF AliasOf[u] \in DOMAIN @ THEN @
                                      ELSE (AliasOf[u] :> u) @@ @],
           Tail(seq))

maybe_fill_maps_cache(c) ==
    IF c.filled THEN c
    ELSE FillCache([filled |-> TRUE, maps |-> {}, aliases |-> <<>>], ConfigMaps)

\* check_specific_map: a hit, or a miss reported when report_misses is set.
check_specific_map(key, uri, misses) ==
    IF Val[uri][key] # NoValue
    THEN [hit |-> TRUE,
          add |-> <<[map |-> uri, key |-> key, hit |-> TRUE, value |-> Val[uri][key]]>>]
    ELSE [hit |-> FALSE,
          add |-> IF misses THEN <<[map |-> uri, key |-> key, hit |-> FALSE,
                                    value |-> NoValue]>>
                  ELSE <<>>]

\* The inner loop over the maps for one key: with one_shot it stops at the
\* first hit.
RECURSIVE CheckMaps(_, _, _, _)
CheckMaps(key, order, req, results) ==
    IF order = <<>> THEN results
    ELSE LET r == check_specific_map(key, Head(order), req.report_misses) IN
         IF req.one_shot /\ r.hit THEN results \o r.add
         ELSE CheckMaps(key, Tail(order), req, results \o r.add)

\* The outer loop over the keys; pairs() visits the maps in the same order
\* for every key.
RECURSIVE CheckKeys(_, _, _, _)
CheckKeys(keys, order, req, results) ==
    IF keys = <<>> THEN results
    ELSE CheckKeys(Tail(keys), order, req, CheckMaps(Head(keys), order, req, results))

\* The requested names resolved against the cache: a URI, else an alias,
\* else an unknown name.
Resolve(c, n) ==
    IF n \in c.maps THEN n
    ELSE IF n \in DOMAIN c.aliases THEN c.aliases[n]
    ELSE BadName

Ucl(results) == [code |-> 200, results |-> results]
Err(code) == [code |-> code, results |-> <<>>]

Requests ==
    [keys : KeyLists, names : NameLists,
     one_shot : BOOLEAN, report_misses : BOOLEAN, report_hit_indexes : BOOLEAN,
     body : {"ok", "unparsable", "invalid"}]

\* The maps a request asks for: all of them without a maps parameter.
Wanted(c, req) ==
    IF req.names = <<>> THEN c.maps
    ELSE {Resolve(c, req.names[i]) : i \in DOMAIN req.names} \ {BadName}

Answer(h, req, out, raised) ==
    last' = [handler |-> h, req |-> req, out |-> out, raised |-> raised]

-----------------------------------------------------------------------------
(* Handlers                                                                *)

handle_list_maps ==
    LET c == maybe_fill_maps_cache(cache) IN
    /\ cache' = c
    /\ Answer("list", CHOOSE r \in Requests : TRUE, <<Ucl(<<>>)>>, FALSE)

\* handle_query_map: no maps parameter, every cached map.
handle_query_map ==
    LET c == maybe_fill_maps_cache(cache) IN
    \E req \in Requests, order \in SetToSeqs(c.maps) :
      /\ req.names = <<>> /\ ~req.report_hit_indexes /\ req.body = "ok"
      /\ cache' = c
      /\ Answer("query", req, <<Ucl(CheckKeys(req.keys, order, req, <<>>))>>, FALSE)

\* handle_query_specific_map: an unknown name gets a 404, and the handler
\* goes on to check the other maps and send the results.
handle_query_specific_map ==
    LET c == maybe_fill_maps_cache(cache) IN
    \E req \in Requests :
      LET unknown == SelectSeq(req.names, LAMBDA n : Resolve(c, n) = BadName)
      IN \E order \in SetToSeqs(Wanted(c, req)) :
           /\ ~req.report_hit_indexes /\ req.body = "ok"
           /\ cache' = c
           /\ Answer("query_specific", req,
                     [i \in DOMAIN unknown |-> Err(404)]
                       \o <<Ucl(CheckKeys(req.keys, order, req, <<>>))>>,
                     FALSE)

\* handle_query_json: a body that does not parse or does not fit the schema,
\* or an unknown map name, gets a 400 and the handler returns.  On a hit with
\* report_hit_indexes, res.hit indexes the boolean res and raises.
handle_query_json ==
    LET c == maybe_fill_maps_cache(cache) IN
    \E req \in Requests :
      /\ cache' = c
      /\ \/ /\ req.body # "ok"
            /\ Answer("query_json", req, <<Err(400)>>, FALSE)
         \/ /\ req.body = "ok"
            /\ \E i \in DOMAIN req.names : Resolve(c, req.names[i]) = BadName
            /\ Answer("query_json", req, <<Err(400)>>, FALSE)
         \/ /\ req.body = "ok"
            /\ \A i \in DOMAIN req.names : Resolve(c, req.names[i]) # BadName
            /\ \E order \in SetToSeqs(Wanted(c, req)) :
                 LET results == CheckKeys(req.keys, order, req, <<>>)
                     raises  == req.report_hit_indexes /\ \E j \in DOMAIN results : results[j].hit
                 IN  Answer("query_json", req, IF raises THEN <<>> ELSE <<Ucl(results)>>, raises)

Init ==
    /\ cache = [filled |-> FALSE, maps |-> {}, aliases |-> <<>>]
    /\ last = [handler |-> "none", req |-> CHOOSE r \in Requests : TRUE,
               out |-> <<>>, raised |-> FALSE]

Next ==
    \/ handle_list_maps
    \/ handle_query_map
    \/ handle_query_specific_map
    \/ handle_query_json

Spec == Init /\ [][Next]_vars


-----------------------------------------------------------------------------
(* Properties                                                              *)

Response == [code : {200, 400, 404}, results : Seq([map : Uris, key : Keys,
              hit : BOOLEAN, value : {Val[u][k] : u \in Uris, k \in Keys}])]

TypeOK ==
    /\ cache.filled \in BOOLEAN
    /\ cache.maps \subseteq Uris
    /\ \A a \in DOMAIN cache.aliases : cache.aliases[a] \in cache.maps
    /\ last.handler \in {"none", "list", "query", "query_specific", "query_json"}
    /\ last.req \in Requests
    /\ last.out \in Seq(Response)
    /\ last.raised \in BOOLEAN

\* The maps a request means, from the configuration: a URI names its map,
\* an alias the first configured map with that alias.
ConfigUris == ToSet(ConfigMaps) \ {Static}
Aliased(a) == {i \in DOMAIN ConfigMaps : ConfigMaps[i] \in ConfigUris /\ AliasOf[ConfigMaps[i]] = a}
FirstWithAlias(a) == ConfigMaps[CHOOSE i \in Aliased(a) : \A j \in Aliased(a) : i <= j]
Meant(req) ==
    IF req.names = <<>> THEN ConfigUris
    ELSE {n \in ToSet(req.names) : n \in ConfigUris}
         \cup {FirstWithAlias(a) : a \in {n \in ToSet(req.names) \ ConfigUris : Aliased(n) # {}}}

\* The results a query sends answer it: every hit is a map the request
\* means that holds the key with that value; every such map is reported for
\* each key (exactly one of them with one_shot); misses are reported only
\* when asked for and only for maps without the key.
ResultsMatchMaps ==
    (last.handler \in {"query", "query_specific", "query_json"}
       /\ last.out # <<>> /\ Last(last.out).code = 200) =>
      LET q == last.req
          R == ToSet(Last(last.out).results)
          C == Meant(q)
      IN  /\ \A r \in R :
               /\ r.map \in C /\ r.key \in ToSet(q.keys)
               /\ r.hit => r.value = Val[r.map][r.key]
               /\ ~r.hit => q.report_misses /\ Val[r.map][r.key] = NoValue
          /\ \A k \in ToSet(q.keys) :
               LET hits == {r.map : r \in {x \in R : x.key = k /\ x.hit}}
                   want == {u \in C : Val[u][k] # NoValue}
               IN  IF q.one_shot THEN hits \subseteq want /\ (want # {} <=> Cardinality(hits) = 1)
                   ELSE hits = want

\* Every request handled gets exactly one response on its connection, and
\* the handler does not fail with a Lua error.
OneResponse ==
    last.handler # "none" => Len(last.out) = 1 /\ ~last.raised

=============================================================================
