------------------------ MODULE ElasticsearchContract ------------------------
(***************************************************************************)
(* The Elasticsearch plugin's FetchMetrics against the plugin contract.    *)
(* A payload is acceptable when it decodes, "nodes" is an object holding  *)
(* exactly one node and that node is an object, and, unless               *)
(* -suppress-missing-error is set, every metricPlace path leads to a      *)
(* number (the spec's structured-path extraction policy).  Its sample set *)
(* is the metrics found in the node, with their values.                   *)
(***************************************************************************)
EXTENDS Elasticsearch

Node(p) == p.nodes[1]

ValidPayload(suppressMissing, p) ==
    /\ p.json
    /\ p.nodes # NotAnObject
    /\ Len(p.nodes) = 1
    /\ Node(p) # NotAnObject
    /\ ~suppressMissing => Found(Node(p)) = Metrics

SampleSet(suppressMissing, p) == [k \in Found(Node(p)) |-> KindAt(Node(p), MetricPlace[k]).val]

Phase == IF pc \in {"start", "wait"} THEN "start"
         ELSE IF pc \in {"decode", "metrics"} THEN "fetched"
         ELSE "done"

Out == IF exit = "running" THEN [status |-> "running", stat |-> <<>>]
       ELSE IF exit = "ok" THEN [status |-> "emitted", stat |-> stat]
       ELSE [status |-> "failed", stat |-> <<>>]

Contract == INSTANCE PluginContract
                WITH Configs <- SuppressModes, Payloads <- Payloads, NoPayload <- NoPayload,
                     Valid <- ValidPayload, Extract <- SampleSet,
                     config <- suppress, phase <- Phase, payload <- payload, out <- Out

\* ImplementsContract: every behaviour of
\* FetchMetrics, in every map-iteration order, is a behaviour of the plugin
\* contract: the node's found metrics are emitted for an acceptable payload
\* and a run on any other payload fails with nothing emitted.  With
\* -suppress-missing-error off, a node missing a metric is not acceptable.
ImplementsContract == Contract!Spec
=============================================================================
