---------------------------- MODULE Elasticsearch ----------------------------
(***************************************************************************)
(* One invocation of mackerel-plugin-elasticsearch: ElasticsearchPlugin.   *)
(* FetchMetrics requests /_nodes/_local/stats, decodes the JSON, picks the *)
(* single node under "nodes" and looks every entry of metricPlace up in it *)
(* with getFloatValue, in the randomized order of Go's map iteration.  A   *)
(* metric whose path does not lead to a number is skipped; the flag        *)
(* -suppress-missing-error only decides whether the skip is logged.       *)
(*                                                                         *)
(* The JSON payload is abstracted to what the code distinguishes: whether *)
(* it decodes, whether "nodes" is an object, how many nodes it holds, and *)
(* for the node document the kind found at every path metricPlace walks   *)
(* (an object, a number, or anything else).  The outcome of the process  *)
(* (exit) follows the plugin helper's contract: a returned error ends it  *)
(* with a diagnostic and a non-zero status, a runtime panic with a stack  *)
(* trace and status 2, a returned map with the metrics output.            *)
(***************************************************************************)
EXTENDS Naturals, Sequences, FiniteSets

CONSTANTS
    Metrics,        \* the metric names, the keys of metricPlace
    Keys,           \* JSON object keys
    MetricPlace,    \* metricPlace: metric name -> path of keys in the node
    Docs,           \* node documents: path -> the JSON value's kind
    Payloads,       \* decoded responses (see PayloadType)
    NotAnObject,    \* a JSON value that is not an object (or absent)
    SuppressModes   \* the values -suppress-missing-error may take

Path == Seq(Keys) \ {<<>>}
\* What encoding/json decodes a value into: float64, map[string]interface{}
\* or anything else (string, bool, array, nil).
Kind == [type : {"number", "object", "other"}, val : Nat]
Num(n) == [type |-> "number", val |-> n]
Object == [type |-> "object", val |-> 0]
Other == [type |-> "other", val |-> 0]
IsDoc(d) == DOMAIN d \subseteq Path /\ \A p \in DOMAIN d : d[p] \in Kind
\* A payload: does it decode as JSON, and what is s["nodes"]: not an object,
\* or an object whose values (one per node) are listed in a sequence.
PayloadType == [json : BOOLEAN, nodes : {NotAnObject} \cup Seq(Docs \cup {NotAnObject})]

ASSUME ConstantsAssumption ==
    /\ IsFiniteSet(Metrics)
    /\ MetricPlace \in [Metrics -> Path]
    /\ \A d \in Docs : IsDoc(d)
    /\ NotAnObject \notin Docs
    /\ Payloads \subseteq PayloadType
    /\ SuppressModes \subseteq BOOLEAN /\ SuppressModes # {}

VARIABLES
    suppress,   \* p.SuppressMissingError
    pc,         \* "start", "wait" (in client.Do), "decode", "metrics", "done"
    payload,    \* the response body
    doc,        \* the node document
    todo,       \* the metricPlace entries the range loop has not visited
    stat,       \* the map FetchMetrics returns
    exit        \* "running", "ok", "error" (returned error) or "panic"

vars == <<suppress, pc, payload, doc, todo, stat, exit>>

NoPayload == [json |-> FALSE, nodes |-> NotAnObject]
NoDoc == <<>>

-----------------------------------------------------------------------------
(* getFloatValue(s, keys): every key but the last must lead to an object   *)
(* ("Cannot handle as a hash" otherwise), the last to a number ("Not       *)
(* float64" otherwise).  A missing key reads as nil, which is neither.     *)
KindAt(d, p) == IF p \in DOMAIN d THEN d[p] ELSE [type |-> "absent", val |-> 0]

Prefix(keys, i) == SubSeq(keys, 1, i)

IsFloatAt(d, keys) ==
    /\ \A i \in 1..(Len(keys) - 1) : KindAt(d, Prefix(keys, i)).type = "object"
    /\ KindAt(d, keys).type = "number"

\* (val, err): the number found, or ok = FALSE for either of the two errors.
GetFloatValue(d, keys) == [ok |-> IsFloatAt(d, keys), val |-> KindAt(d, keys).val]

\* The metrics whose path leads to a number in document d.
Found(d) == {k \in Metrics : IsFloatAt(d, MetricPlace[k])}

-----------------------------------------------------------------------------
Finish(outcome) ==
    /\ pc' = "done"
    /\ exit' = outcome

\* http.NewRequest, the User-Agent and basic-auth headers and the client
\* with InsecureSkipVerify; then client.Do blocks until the server answers.
\* The client has no Timeout.  NewRequest rejects a URI built from a -host
\* or -port that does not parse.
SendRequest ==
    /\ pc = "start"
    /\ \/ Finish("error")
       \/ /\ pc' = "wait"
          /\ UNCHANGED exit
    /\ UNCHANGED <<suppress, payload, doc, todo, stat>>

\* The server (or the network) completes client.Do: connection refused or
\* TLS failure (an error, returned), or a response of any status.
Respond ==
    /\ pc = "wait"
    /\ \/ /\ Finish("error")
          /\ UNCHANGED payload
       \/ /\ \E p \in Payloads : payload' = p
          /\ pc' = "decode"
          /\ UNCHANGED exit
    /\ UNCHANGED <<suppress, doc, todo, stat>>

\* Seeded bug for mutation testing: metrics looked up in the nodes object
\* itself instead of in nodes[n].
DecodeNodesAsNode ==
    /\ pc = "decode"
    /\ \/ /\ ~payload.json
          /\ Finish("error")
          /\ UNCHANGED <<doc, todo>>
       \/ /\ payload.json
          /\ payload.nodes = NotAnObject
          /\ Finish("panic")
          /\ UNCHANGED <<doc, todo>>
       \/ /\ payload.json
          /\ payload.nodes # NotAnObject
          /\ Len(payload.nodes) > 1
          /\ Finish("error")
          /\ UNCHANGED <<doc, todo>>
       \/ /\ payload.json
          /\ payload.nodes # NotAnObject
          /\ \/ Len(payload.nodes) = 0
             \/ Len(payload.nodes) = 1 /\ payload.nodes[1] = NotAnObject
          /\ Finish("panic")
          /\ UNCHANGED <<doc, todo>>
       \/ /\ payload.json
          /\ payload.nodes # NotAnObject
          /\ Len(payload.nodes) = 1
          /\ payload.nodes[1] # NotAnObject
          /\ doc' = payload.nodes
          /\ todo' = Metrics
          /\ pc' = "metrics"
          /\ UNCHANGED exit
    /\ UNCHANGED <<suppress, payload, stat>>

\* decoder.Decode, then nodes := s["nodes"].(map[string]interface{}) and the
\* range over nodes that remembers the last key and rejects a second one,
\* then nodes[n].(map[string]interface{}).  Both type assertions are
\* unchecked: a value that is not an object panics.  With no node, n is ""
\* and nodes[""] is nil, which panics the same way.
Decode ==
    /\ pc = "decode"
    /\ \/ /\ ~payload.json
          /\ Finish("error")
          /\ UNCHANGED <<doc, todo>>
       \/ /\ payload.json
          /\ payload.nodes = NotAnObject
          /\ Finish("panic")
          /\ UNCHANGED <<doc, todo>>
       \/ /\ payload.json
          /\ payload.nodes # NotAnObject
          /\ Len(payload.nodes) > 1
          /\ Finish("error")
          /\ UNCHANGED <<doc, todo>>
       \/ /\ payload.json
          /\ payload.nodes # NotAnObject
          /\ \/ Len(payload.nodes) = 0
             \/ Len(payload.nodes) = 1 /\ payload.nodes[1] = NotAnObject
          /\ Finish("panic")
          /\ UNCHANGED <<doc, todo>>
       \/ /\ payload.json
          /\ payload.nodes # NotAnObject
          /\ Len(payload.nodes) = 1
          /\ payload.nodes[1] # NotAnObject
          /\ doc' = payload.nodes[1]
          /\ todo' = Metrics
          /\ pc' = "metrics"
          /\ UNCHANGED exit
    /\ UNCHANGED <<suppress, payload, stat>>

\* Seeded bug for mutation testing: the loop stops at the first missing
\* metric (break instead of continue).
ExtractBreak(k) ==
    /\ pc = "metrics"
    /\ k \in todo
    /\ LET v == GetFloatValue(doc, MetricPlace[k]) IN
       IF v.ok
       THEN /\ stat' = [m \in DOMAIN stat \cup {k} |-> IF m = k THEN v.val ELSE stat[m]]
            /\ todo' = todo \ {k}
       ELSE /\ todo' = {}
            /\ UNCHANGED stat
    /\ UNCHANGED <<suppress, pc, payload, doc, exit>>

\* One iteration of "for k, v := range metricPlace": Go's map order is
\* unspecified, so any remaining entry may come next.  A value found is
\* stored in stat; a missing one is skipped (and logged by logger.Errorf
\* unless suppress is set: the flag changes nothing else).
Extract(k) ==
    /\ pc = "metrics"
    /\ k \in todo
    /\ LET v == GetFloatValue(doc, MetricPlace[k]) IN
       IF v.ok
       THEN stat' = [m \in DOMAIN stat \cup {k} |-> IF m = k THEN v.val ELSE stat[m]]
       ELSE UNCHANGED stat
    /\ todo' = todo \ {k}
    /\ UNCHANGED <<suppress, pc, payload, doc, exit>>

\* The loop is over: return stat, nil, and the helper outputs the metrics.
ReturnStat ==
    /\ pc = "metrics"
    /\ todo = {}
    /\ Finish("ok")
    /\ UNCHANGED <<suppress, payload, doc, todo, stat>>

-----------------------------------------------------------------------------
Init ==
    /\ suppress \in SuppressModes
    /\ pc = "start"
    /\ payload = NoPayload
    /\ doc = NoDoc
    /\ todo = {}
    /\ stat = <<>>
    /\ exit = "running"

PluginStep == SendRequest \/ Decode \/ (\E k \in Metrics : Extract(k)) \/ ReturnStat

Next == PluginStep \/ Respond

\* The process is single-threaded and always runnable; the server is not
\* assumed to answer.
Spec == Init /\ [][Next]_vars /\ WF_vars(PluginStep)

-----------------------------------------------------------------------------
TypeOK ==
    /\ suppress \in BOOLEAN
    /\ pc \in {"start", "wait", "decode", "metrics", "done"}
    /\ payload \in PayloadType
    /\ doc \in Docs \cup {NoDoc}
    /\ todo \subseteq Metrics
    /\ \E D \in SUBSET Metrics : stat \in [D -> Nat]
    /\ exit \in {"running", "ok", "error", "panic"}

\* ExtractMatchesDocument: whatever order the range loop visits metricPlace
\* in, a successful FetchMetrics returns exactly the metrics whose path
\* leads to a number in the node document, each with that number; a
\* missing metric never hides the others.
ExtractMatchesDocument ==
    exit = "ok" =>
        /\ DOMAIN stat = Found(doc)
        /\ \A k \in DOMAIN stat : stat[k] = KindAt(doc, MetricPlace[k]).val

\* NoPanic: every failure of FetchMetrics is a returned error that the
\* helper reports as one diagnostic line (the spec's error taxonomy), never
\* a runtime panic.
NoPanic == exit # "panic"

\* MissingFailsRun: with -suppress-missing-error off, a declared metric
\* missing from the node document fails the run and nothing is output (the
\* spec's ExtractionError scenario).
MissingFailsRun == (exit = "ok" /\ ~suppress) => Found(doc) = Metrics

\* Termination: every invocation ends, whatever the server does (the spec:
\* every transport enforces a bounded wait).
Termination == <>(pc = "done")
=============================================================================
