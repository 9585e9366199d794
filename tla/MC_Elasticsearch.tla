-------------------------- MODULE MC_Elasticsearch --------------------------
(* Four entries of metricPlace, chosen for the paths they share: two under *)
(* "indices" (one of them, total_percolate, gone from Elasticsearch 7),    *)
(* one under "http" and one three levels down under "jvm".  The node      *)
(* documents are the shapes the versions produce, plus one where an inner *)
(* key holds a string, one where a leaf does, and one with no "http".     *)
EXTENDS ElasticsearchContract, TLC

CONSTANTS NotObj

MCNotAnObject == NotObj

MCMetrics == {"http_opened", "total_get", "total_percolate", "heap_used"}
MCKeys == {"http", "total_opened", "indices", "get", "total", "percolate",
           "jvm", "mem", "heap_used_in_bytes"}
MCMetricPlace ==
    [http_opened     |-> <<"http", "total_opened">>,
     total_get       |-> <<"indices", "get", "total">>,
     total_percolate |-> <<"indices", "percolate", "total">>,
     heap_used       |-> <<"jvm", "mem", "heap_used_in_bytes">>]

Common ==
    (<<"http">> :> Object) @@ (<<"http", "total_opened">> :> Num(5))
    @@ (<<"jvm">> :> Object) @@ (<<"jvm", "mem">> :> Object)

Indices ==
    (<<"indices">> :> Object) @@ (<<"indices", "get">> :> Object)
    @@ (<<"indices", "get", "total">> :> Num(7))

\* Elasticsearch 6: every path present.
DocV6 == Common @@ Indices @@ (<<"jvm", "mem", "heap_used_in_bytes">> :> Num(100))
         @@ (<<"indices", "percolate">> :> Object)
         @@ (<<"indices", "percolate", "total">> :> Num(2))
\* Elasticsearch 7: no percolate section.
DocV7 == Common @@ Indices @@ (<<"jvm", "mem", "heap_used_in_bytes">> :> Num(100))
\* "indices" is not an object: every metric below it fails.
DocFlat == Common @@ (<<"indices">> :> Other)
           @@ (<<"jvm", "mem", "heap_used_in_bytes">> :> Num(100))
\* A leaf that is not a number.
DocStringLeaf == Common @@ Indices @@ (<<"jvm", "mem", "heap_used_in_bytes">> :> Other)

\* A node with the HTTP module disabled: no "http" section at all.
DocNoHttp == (<<"jvm">> :> Object) @@ (<<"jvm", "mem">> :> Object) @@ Indices
             @@ (<<"jvm", "mem", "heap_used_in_bytes">> :> Num(100))

MCDocs == {DocV6, DocV7, DocFlat, DocStringLeaf, DocNoHttp}

MCPayloads ==
    [json : BOOLEAN,
     nodes : {NotObj} \cup {<<>>}
             \cup {<<n>> : n \in MCDocs \cup {NotObj}}
             \cup {<<DocV6, DocV7>>}]
=============================================================================
