------------------------- MODULE Elasticsearch_proofs -------------------------
(***************************************************************************)
(* Proofs about one invocation of the Elasticsearch plugin's FetchMetrics, *)
(* for every metricPlace table, every set of node documents and payloads, *)
(* and both settings of -suppress-missing-error.                          *)
(***************************************************************************)
EXTENDS ElasticsearchContract, TLAPS

USE ConstantsAssumption

-----------------------------------------------------------------------------
(* Type correctness.                                                       *)

\* The initial state of FetchMetrics is well typed.
LEMMA TypeInit == Init => TypeOK
<1> SUFFICES ASSUME Init PROVE TypeOK
  OBVIOUS
<1>1. stat \in [{} -> Nat]
  BY DEF Init
<1>. QED
  BY <1>1 DEF Init, TypeOK, NoPayload, PayloadType, NoDoc

\* The number getFloatValue returns is a natural number: a document maps
\* each of its paths to a Kind.
LEMMA KindVal ==
    ASSUME NEW d \in Docs \cup {NoDoc}, NEW p
    PROVE  KindAt(d, p).val \in Nat
<1>1. CASE d \in Docs
  BY <1>1 DEF KindAt, IsDoc, Kind
<1>2. CASE d = NoDoc
  BY <1>2 DEF KindAt, NoDoc
<1>. QED
  BY <1>1, <1>2

\* Adding metric k with value v to a sample set over D gives one over D + k.
LEMMA AddSample ==
    ASSUME NEW D, NEW s \in [D -> Nat], NEW k, NEW v \in Nat
    PROVE  [m \in D \cup {k} |-> IF m = k THEN v ELSE s[m]] \in [D \cup {k} -> Nat]
OBVIOUS

\* Every step of FetchMetrics, and every step of the server, preserves the
\* types.
LEMMA TypeStep == TypeOK /\ [Next]_vars => TypeOK'
<1> SUFFICES ASSUME TypeOK, [Next]_vars PROVE TypeOK'
  OBVIOUS
<1> USE DEF TypeOK
<1>1. CASE SendRequest
  BY <1>1 DEF SendRequest, Finish
<1>2. CASE Respond
  BY <1>2 DEF Respond, Finish
<1>3. CASE Decode
  <2>1. payload.nodes # NotAnObject /\ Len(payload.nodes) = 1
          => payload.nodes[1] \in Docs \cup {NotAnObject}
    BY DEF PayloadType
  <2>. QED
    BY <1>3, <2>1 DEF Decode, Finish
<1>4. ASSUME NEW k \in Metrics, Extract(k) PROVE TypeOK'
  <2>1. PICK D \in SUBSET Metrics : stat \in [D -> Nat]
    OBVIOUS
  <2>2. KindAt(doc, MetricPlace[k]).val \in Nat
    BY KindVal
  <2>3. CASE GetFloatValue(doc, MetricPlace[k]).ok
    <3>1. stat' = [m \in D \cup {k} |-> IF m = k THEN KindAt(doc, MetricPlace[k]).val ELSE stat[m]]
      BY <1>4, <2>1, <2>3 DEF Extract, GetFloatValue
    <3>2. stat' \in [D \cup {k} -> Nat]
      BY <2>1, <2>2, <3>1, AddSample
    <3>. QED
      BY <1>4, <3>2 DEF Extract
  <2>4. CASE ~GetFloatValue(doc, MetricPlace[k]).ok
    BY <1>4, <2>4 DEF Extract
  <2>. QED
    BY <2>3, <2>4
<1>5. CASE ReturnStat
  BY <1>5 DEF ReturnStat, Finish
<1>6. CASE UNCHANGED vars
  BY <1>6 DEF vars
<1>. QED
  BY <1>1, <1>2, <1>3, <1>4, <1>5, <1>6 DEF Next, PluginStep

\* Every variable of FetchMetrics keeps its type in every reachable state.
LEMMA TypeCorrect == Spec => []TypeOK
BY TypeInit, TypeStep, PTL DEF Spec

-----------------------------------------------------------------------------
(* What a successful FetchMetrics returns.                                 *)

\* The range loop's invariant: the metrics already visited that lead to a
\* number in the node are exactly the keys of stat, each with its number.
Visited ==
    /\ DOMAIN stat = {k \in Metrics \ todo : IsFloatAt(doc, MetricPlace[k])}
    /\ \A k \in DOMAIN stat : stat[k] = KindAt(doc, MetricPlace[k]).val

\* The inductive invariant.  ExtractMatchesDocument alone is not inductive:
\* ReturnStat needs the loop invariant, and the loop invariant needs stat
\* to be empty when the loop starts.
IInv ==
    /\ TypeOK
    /\ pc \in {"start", "wait", "decode"} => stat = <<>>
    /\ (pc = "metrics" \/ exit = "ok") => Visited
    /\ exit = "ok" => todo = {}
    /\ pc # "done" => exit = "running"

LEMMA IInvInit == Init => IInv
<1> SUFFICES ASSUME Init PROVE IInv
  OBVIOUS
<1>. QED
  BY TypeInit DEF Init, IInv

LEMMA IInvStep == IInv /\ [Next]_vars => IInv'
<1> SUFFICES ASSUME IInv, [Next]_vars PROVE IInv'
  OBVIOUS
<1>1. TypeOK'
  BY TypeStep DEF IInv
<1> USE DEF IInv
<1>2. CASE SendRequest
  BY <1>1, <1>2 DEF SendRequest, Finish
<1>3. CASE Respond
  BY <1>1, <1>3 DEF Respond, Finish
<1>4. CASE Decode
  <2>1. CASE pc' = "metrics"
    <3>1. stat = <<>> /\ stat' = stat /\ todo' = Metrics
      BY <1>4, <2>1 DEF Decode, Finish
    <3>2. Visited'
      BY <3>1 DEF Visited
    <3>. QED
      BY <1>1, <1>4, <2>1, <3>2 DEF Decode, Finish
  <2>2. CASE pc' = "done"
    BY <1>1, <1>4, <2>2 DEF Decode, Finish
  <2>. QED
    BY <1>4, <2>1, <2>2 DEF Decode, Finish
<1>5. ASSUME NEW k \in Metrics, Extract(k) PROVE IInv'
  <2>1. pc = "metrics" /\ k \in todo /\ todo' = todo \ {k} /\ UNCHANGED <<doc, pc, exit>>
    BY <1>5 DEF Extract
  <2>2. Visited
    BY <2>1
  <2>3. CASE GetFloatValue(doc, MetricPlace[k]).ok
    <3>1. stat' = [m \in DOMAIN stat \cup {k} |->
                     IF m = k THEN KindAt(doc, MetricPlace[k]).val ELSE stat[m]]
      BY <1>5, <2>3 DEF Extract, GetFloatValue
    <3>2. IsFloatAt(doc, MetricPlace[k])
      BY <2>3 DEF GetFloatValue
    <3>3. Visited'
      BY <2>1, <2>2, <3>1, <3>2 DEF Visited
    <3>. QED
      BY <1>1, <2>1, <3>3
  <2>4. CASE ~GetFloatValue(doc, MetricPlace[k]).ok
    <3>1. stat' = stat
      BY <1>5, <2>4 DEF Extract
    <3>2. ~IsFloatAt(doc, MetricPlace[k])
      BY <2>4 DEF GetFloatValue
    <3>3. Visited'
      BY <2>1, <2>2, <3>1, <3>2 DEF Visited
    <3>. QED
      BY <1>1, <2>1, <3>3
  <2>. QED
    BY <2>3, <2>4
<1>6. CASE ReturnStat
  BY <1>1, <1>6 DEF ReturnStat, Finish, Visited
<1>7. CASE UNCHANGED vars
  BY <1>1, <1>7 DEF vars, Visited
<1>. QED
  BY <1>2, <1>3, <1>4, <1>5, <1>6, <1>7 DEF Next, PluginStep

\* Whatever order Go's map iteration visits metricPlace in, a successful
\* FetchMetrics returns exactly the metrics whose path leads to a number in
\* the node document, each with that number.
THEOREM ExtractMatchesDocumentHolds == Spec => []ExtractMatchesDocument
<1>1. IInv => ExtractMatchesDocument
  BY DEF IInv, Visited, ExtractMatchesDocument, Found
<1>. QED
  BY IInvInit, IInvStep, <1>1, PTL DEF Spec

-----------------------------------------------------------------------------
(* FetchMetrics implements the plugin contract.                            *)

\* Once the node has been picked, the payload is acceptable apart from the
\* metrics it may miss, and doc is its node.
Picked ==
    /\ payload \in Payloads
    /\ payload.json
    /\ payload.nodes # NotAnObject
    /\ Len(payload.nodes) = 1
    /\ Node(payload) # NotAnObject
    /\ doc = Node(payload)

\* The invariant the refinement rests on.
RInv ==
    /\ IInv
    /\ suppress \in SuppressModes
    /\ pc = "decode" => payload \in Payloads
    /\ (pc = "metrics" \/ exit = "ok") => Picked

LEMMA RInvInit == Init => RInv
BY IInvInit DEF Init, RInv

LEMMA RInvStep == RInv /\ [Next]_vars => RInv'
<1> SUFFICES ASSUME RInv, [Next]_vars PROVE RInv'
  OBVIOUS
<1>1. IInv'
  BY IInvStep DEF RInv
<1> USE DEF RInv
<1>2. CASE SendRequest
  BY <1>1, <1>2 DEF SendRequest, Finish, IInv
<1>3. CASE Respond
  BY <1>1, <1>3 DEF Respond, Finish, IInv
<1>4. CASE Decode
  <2>1. CASE pc' = "metrics"
    <3>1. Picked'
      BY <1>4, <2>1 DEF Decode, Finish, Picked, Node
    <3>. QED
      BY <1>1, <1>4, <2>1, <3>1 DEF Decode
  <2>2. CASE pc' = "done"
    <3>1. exit' # "ok"
      BY <1>4, <2>2 DEF Decode, Finish
    <3>. QED
      BY <1>1, <1>4, <2>2, <3>1 DEF Decode
  <2>. QED
    BY <1>4, <2>1, <2>2 DEF Decode, Finish
<1>5. ASSUME NEW k \in Metrics, Extract(k) PROVE RInv'
  BY <1>1, <1>5 DEF Extract, Picked
<1>6. CASE ReturnStat
  BY <1>1, <1>6 DEF ReturnStat, Finish, Picked
<1>7. CASE UNCHANGED vars
  BY <1>1, <1>7 DEF vars, Picked
<1>. QED
  BY <1>2, <1>3, <1>4, <1>5, <1>6, <1>7 DEF Next, PluginStep

\* The initial state of FetchMetrics maps to the contract's initial state.
LEMMA ContractInit == Init => Contract!Init
BY DEF Init, Contract!Init, Contract!Running, Phase, Out

\* With -suppress-missing-error set, every step of FetchMetrics maps to a
\* step of the contract or to a stutter.
LEMMA ContractStep ==
    ASSUME SuppressModes = {TRUE}
    PROVE  RInv /\ [Next]_vars => [Contract!Next]_Contract!cvars
<1> SUFFICES ASSUME RInv, [Next]_vars PROVE [Contract!Next]_Contract!cvars
  OBVIOUS
<1>0. suppress = TRUE /\ TypeOK
  BY DEF RInv, IInv
<1>1. CASE SendRequest
  BY <1>1 DEF SendRequest, Finish, Contract!FetchFail, Contract!Failed,
             Contract!Next, Contract!cvars, Contract!Running, Phase, Out, RInv, IInv
<1>2. CASE Respond
  BY <1>2 DEF Respond, Finish, Contract!FetchFail, Contract!Fetch, Contract!Failed,
             Contract!Next, Contract!cvars, Contract!Running, Phase, Out, RInv, IInv
<1>3. CASE Decode
  <2>1. CASE pc' = "metrics"
    BY <1>3, <2>1 DEF Decode, Finish, Contract!cvars, Contract!Running, Phase, Out, RInv, IInv
  <2>2. CASE pc' = "done"
    <3>0. payload \in Payloads
      BY <1>3 DEF Decode, RInv
    <3>a. ~(/\ payload.json
            /\ payload.nodes # NotAnObject
            /\ Len(payload.nodes) = 1
            /\ payload.nodes[1] # NotAnObject)
      <4> SUFFICES ASSUME payload.json, payload.nodes # NotAnObject,
                          Len(payload.nodes) = 1, payload.nodes[1] # NotAnObject
                   PROVE  FALSE
        OBVIOUS
      <4>1. ~(Len(payload.nodes) > 1) /\ Len(payload.nodes) # 0
        OBVIOUS
      <4>. QED
        BY <1>3, <2>2, <4>1, Zenon DEF Decode, Finish
    <3>1. payload \in Payloads /\ ~ValidPayload(suppress, payload)
      BY <3>0, <3>a DEF ValidPayload, Node
    <3>2. Contract!Fail
      BY <1>3, <2>2, <3>1 DEF Decode, Finish, Contract!Fail, Contract!Failed,
                              Phase, Out, RInv, IInv
    <3>. QED
      BY <3>2 DEF Contract!Next
  <2>. QED
    BY <1>3, <2>1, <2>2 DEF Decode, Finish
<1>4. ASSUME NEW k \in Metrics, Extract(k) PROVE [Contract!Next]_Contract!cvars
  BY <1>4 DEF Extract, Contract!cvars, Contract!Running, Phase, Out, RInv, IInv
<1>5. CASE ReturnStat
  <2>1. Picked /\ Visited /\ todo = {}
    BY <1>5 DEF ReturnStat, RInv, IInv
  <2>2. ValidPayload(suppress, payload)
    BY <1>0, <2>1 DEF ValidPayload, Picked
  <2>3. PICK D \in SUBSET Metrics : stat \in [D -> Nat]
    BY <1>0 DEF TypeOK
  <2>4. stat = SampleSet(suppress, payload)
    BY <2>1, <2>3 DEF SampleSet, Picked, Visited, Found
  <2>5. Contract!Emit
    BY <1>5, <2>2, <2>4 DEF ReturnStat, Finish, Contract!Emit, Phase, Out, RInv, IInv
  <2>. QED
    BY <2>5 DEF Contract!Next
<1>6. CASE UNCHANGED vars
  BY <1>6 DEF vars, Contract!cvars, Phase, Out
<1>. QED
  BY <1>1, <1>2, <1>3, <1>4, <1>5, <1>6 DEF Next, PluginStep

\* With -suppress-missing-error set, every behaviour of FetchMetrics is a
\* behaviour of the plugin contract: the metrics found in the node are
\* emitted for an acceptable payload, and any other run fails with nothing
\* emitted.
THEOREM ImplementsContractHolds ==
    ASSUME SuppressModes = {TRUE}
    PROVE  Spec => ImplementsContract
<1>1. Spec => []RInv
  BY RInvInit, RInvStep, PTL DEF Spec
<1>. QED
  BY <1>1, ContractInit, ContractStep, PTL DEF Spec, ImplementsContract, Contract!Spec
=============================================================================
