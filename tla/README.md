# Formal models of the Mackerel metric plugins

This directory holds TLA+ models of the three metric plugins in `src/`, with TLC
runs and TLAPS proofs:

- Elasticsearch, at `src/mackerel-plugin-elasticsearch/lib/elasticsearch.go`, lines 1–312.
- HAProxy, the `package mphaproxy` source concatenated into the same file, lines 313–500.
- PHP-FPM, at `src/mackerel-plugin-php-fpm/lib/php-fpm.go`.

`PROJECT.json` is the machine-readable index of this material. It lists:

- the components;
- the runs;
- the mutants;
- the map from every definition to the lines it translates;
- the findings, the hazards and the theorems.

## The system

Each plugin is a short-lived process that Mackerel's agent runs once per
minute. `Do` parses the flags, builds the plugin struct and hands it to the
helper library go-mackerel-plugin.

The helper library is not part of this source tree. The spec describes it in §3, §4.4 and §4.5. Its job is to:

- call `FetchMetrics` once;
- turn counters marked `Diff` into per-minute rates, using a scratch file from the previous run;
- print `name\tvalue\tepoch` lines.

`FetchMetrics` is where the plugins differ, and each one is a small sequential state machine:

* **HAProxy** (`fetchMetricsFromTCP` / `fetchMetricsFromSocket` / `parseStats`).
  - The stats CSV comes either from the HTTP stats page, with a 5 s client timeout and a status check, or from the stats Unix socket, with no deadline and an unchecked write of `show stat`.
  - `parseStats` reads records one at a time. It aborts on any record with fewer than 60 columns, skips rows that are not `BACKEND`, aborts on an unparsable cell, and sums columns 7, 8, 9 and 13 of the BACKEND rows.
  - The error from `reader.Read` is not checked. An I/O error or timeout surfaces only because the record returned with it (a single empty field) fails the width check.
* **Elasticsearch** (`FetchMetrics`, `getFloatValue`).
  - It sends a GET with basic auth to `/_nodes/_local/stats`, using a client that has no timeout, and decodes the JSON.
  - It asserts, without a check, that `nodes` is an object. It takes the single node: two or more is an error, and zero leaves `n = ""`.
  - It asserts, again without a check, that the node is an object.
  - It then walks each `metricPlace` path, in Go's randomized map order, and skips every metric it cannot find. `-suppress-missing-error` only silences the log line.
* **PHP-FPM** (`getStatus`, `FetchMetrics`).
  - It sends a GET (or FastCGI) request with a `-timeout` second client timeout. Any HTTP status is accepted.
  - It calls `json.Unmarshal` into a `*PhpFpmStatus` and ignores the error.
  - It dereferences the result to return nine `uint64` fields.

The plugins do not interact with each other. Inside one invocation, the
actors are the plugin process and its peer: the server, or the HAProxy stats
socket. The peer may answer, fail, or stall at any point.

## Modules

| Module | Models | Notes |
|---|---|---|
| `HAProxy` | `FetchMetrics`, both transports, the `parseStats` loop (lines 364–457), `Do` as `Init` | core |
| `MC_HAProxy` | five concrete records, bodies of up to three records | TLC instance |
| `PluginContract` | what one invocation promises: fetch once, then emit the sample set of an acceptable payload or fail with nothing | abstract spec |
| `HAProxyContract` | refinement mapping from `HAProxy` to `PluginContract` | refinement |
| `HAProxyRates` | successive HAProxy invocations, restarts and overlapping processes, and the helper's rate conversion (spec §4.4) | composition |
| `MC_HAProxyRates` | three processes, symmetric | TLC instance |
| `HAProxy_proofs` | TLAPS proofs of `TypeOK`, `ParseVerdict`, `ResultIsBackendTotal` and the refinement | theorems |
| `HAProxyRates_proofs` | TLAPS proofs of `TypeOK`, `NoOverReport` and `ExactWithoutRestart` | theorems |
| `Elasticsearch` | `FetchMetrics` and `getFloatValue` (lines 70–157), `Do` as `Init` | core |
| `MC_Elasticsearch` | four real `metricPlace` entries, five node documents | TLC instance |
| `ElasticsearchContract` | refinement mapping from `Elasticsearch` to `PluginContract` | refinement |
| `Elasticsearch_proofs` | TLAPS proofs of `TypeOK`, `ExtractMatchesDocument` and the refinement | theorems |
| `PhpFpm` | `getStatus` and `FetchMetrics` (lines 98–150), `Do` as `Init` | core |
| `MC_PhpFpm` | two status fields, every object over them | TLC instance |
| `PhpFpm_proofs` | TLAPS proof of `TypeOK` | theorems |

### How state and actions correspond to the code

**HAProxy.**

State:

- `useSocket` is `p.Socket != ""`.
- `uriOK` is whether `http.NewRequest` accepts the URI.
- `pc` is one of `start`, `parse` (inside `parseStats`) or `done`.
- `body` is the stream the peer sends:
  - a sequence of records, each with its width, its `svname` and the four summed cells (a number or `NotANumber`);
  - a tail, which is `EOF` or `ReadError`.
- `sent` is how much of the stream the peer has delivered so far.
- `pos` is the reader's cursor.
- `stat` is the Go map of sums, where a missing key reads as 0 (`Get`).
- `result` is the `(err, stat)` that `FetchMetrics` returns.

Actions:

- `FetchTCP` and `FetchSocket` are the two transports with all of their early returns.
- `PeerSend` is the environment delivering one more record.
- Each branch of the loop body is one action:
  - `ReadShort` (line 421);
  - `SkipRow` (line 425);
  - `ReadUnparsable` (lines 431–452);
  - `AddBackend` (lines 429–453);
  - `ReadEOF` (line 417);
  - `ReadFailed` (an unchecked error, then line 421).
- `ReadTimeout` is the 5 s client timeout firing while the reader waits, and exists on TCP only.

**Elasticsearch.**

State:

- `suppress` is the `-suppress-missing-error` flag.
- `payload` records:
  - whether the body decodes;
  - whether `nodes` is an object;
  - the node values.
- `doc` is the selected node, a map from key paths to the kind found there: a number with its value, an object, or something else.
- `todo` is the set of `metricPlace` entries the range loop has not yet visited.
- `stat` is the map being returned.
- `exit` is one of `running`, `ok`, `error` or `panic`.

Actions:

- `SendRequest` covers `NewRequest` through to `client.Do`.
- `Respond` is the server answering or the connection failing.
- `Decode` covers the decode, both type assertions and the node count (lines 126–143).
- `Extract(k)` is one loop iteration for any remaining key. This is how Go's unspecified map order is modelled.
- `ReturnStat` is `return stat, nil`.
- `getFloatValue` is the operator `IsFloatAt`. Every key except the last must lead to an object, and the last must lead to a number.

**PHP-FPM.**

State:

- `timeout` is the `-timeout` value.
- `response` is the HTTP status and the body's kind: invalid JSON, `null`, a non-object, or an object. An object is a partial map from fields to a number or a value that does not fit `uint64`.
- `pc`, `stat` and `exit` are as in the Elasticsearch model.

Actions:

- `SendRequest`, `Respond` and `Deadline`. `Deadline` is the client timeout firing, and is enabled only when `timeout > 0`.
- `Decode`:
  - `invalid` and `null` leave a nil pointer, and the dereference panics;
  - a non-object gives all zeros;
  - an object gives `FieldValue` per field, which is 0 when the field is absent or mistyped.

**Rates across invocations (`HAProxyRates`).**

State:

- `count[p]` is the BACKEND sum HAProxy process `p` reports. The four metrics are fed by the same traffic, so one number per process stands for all four.
- `live` is the set of processes answering the stats page; `started` those started so far.
- `record` is the helper's scratch file: the time and sample set of the last successful invocation.
- `now` counts invocations (one per agent interval), and `out` is what the last one emitted: per metric, the increase and the interval it covers.
- `traffic`, `trafficAt` and `lastStart` are history variables: the work done in total, at each invocation, and when a process last started.

Actions:

- `Serve(p)`, `Start(p)` and `Stop(p)` are the environment. Without `Overlap` a new process replaces the old one (a restart); with it both answer (nbproc > 1, or the old process of a soft reload).
- `Run` is one invocation: `FetchMetrics` (lines 364–370) fails, and nothing is emitted and the scratch file is kept, or it reads the counters of one live process. The helper's `Convert` then emits, for each `Diff` metric of `graphdef` (330–353), the increase since the saved observation, clamped at zero, over the time since it, and overwrites the scratch file.

`Convert` is modelled from spec §4.4, since the helper is not in this tree.

**The contract and its refinements.** `PluginContract` has a configuration, a phase (`start`, `fetched`, `done`), the payload and the outcome. `Fetch` reads a payload, `FetchFail` fails before one arrives, `Emit` emits `Extract(config, payload)` when `Valid(config, payload)`, and `Fail` ends with nothing when what was read is not acceptable.

- `HAProxyContract` maps `pc` to the phase (`parse` is `fetched`), the stream to the payload, and `result` to the outcome. A stream is valid when `Accepted`, and its sample set is `Totals` of its rows.
- `ElasticsearchContract` maps `start`/`wait` to `start` and `decode`/`metrics` to `fetched`. `ValidPayload` is the decode and node checks of lines 126–143 (and, with suppress off, every metric present). `SampleSet` is the metrics `getFloatValue` finds in the node, with their values.

`Finish` stands for the helper's exit behaviour. That code is not in this tree, so `Finish` is modelled from the spec.

## Runs

Pass runs:

| Run | cfg | Checks | Shows |
|---|---|---|---|
| haproxy_parse | `HAProxy.cfg` | `TypeOK`, `ParseVerdict`, `ResultIsBackendTotal`, `ImplementsContract`, `TerminationOverTCP` | Over both transports and every body of up to three records, a run succeeds exactly when the whole stream is acceptable. A failure carries no partial sums. A success returns the BACKEND column sums, and no key when there is no BACKEND row. Every behaviour is a behaviour of `PluginContract`. Over HTTP the client timeout ends the invocation even when the peer stalls mid-body. 10 321 states. |
| es_extract | `Elasticsearch.cfg` | `TypeOK`, `ExtractMatchesDocument`, `ImplementsContract` | With `-suppress-missing-error` set, in every iteration order a successful fetch returns exactly the metrics whose path leads to a number, with that number, and `FetchMetrics` implements the contract. With the flag off it does not implement it: that is the `es_missing_fails_run` divergence. The flag only gates a log line, and the proofs cover both settings. |
| phpfpm_termination | `PhpFpm.cfg` | `TypeOK`, `Termination` | With `-timeout 5`, every invocation ends. |
| haproxy_rates | `HAProxyRates.cfg` | `TypeOK`, `NoOverReport`, `ExactWithoutRestart` | Over four invocations, up to three restarts and failed fetches in between, an emitted increase never exceeds the work done in the interval it covers, and equals it when no restart intervened. 273 702 states. |

Violation runs. Each one checks one property that the spec states, and TLC finds it broken by the code:

| Run | Property | What the counterexample is |
|---|---|---|
| haproxy_termination_socket | `Termination` | The socket accepts the connection and never writes. There is no deadline, so the plugin hangs. |
| es_no_panic | `NoPanic` | A JSON answer without `nodes`, or with an empty `nodes`, panics at line 135 or 143. |
| es_missing_fails_run | `MissingFailsRun` | A metric is missing and suppress is off, yet the run succeeds with the other metrics. |
| es_termination | `Termination` | The server never answers, and the client has no timeout. |
| phpfpm_no_panic | `NoPanic` | An HTML error page reaches `json.Unmarshal`. Its error is ignored and the nil status is dereferenced. |
| phpfpm_emits_only_present | `EmitsOnlyPresent` | An absent or mistyped field is reported as 0. |
| phpfpm_no_emit_on_http_error | `NoEmitOnHTTPError` | A 500 answer with a JSON body is reported as metrics. |
| haproxy_rates_overlap | `NoOverReport` | Two HAProxy processes answer in turn. The first invocation reads one with count 0, the next reads the other with count 1, and an increase of 1 is emitted for an interval with no traffic. The spec's rate rule assumes one monotone counter per target (a spec gap). |

### Bounds

**HAProxy.** The five records cover:

- a 59-column row and a 60-column row (both sides of the width check);
- a FRONTEND row with a non-number cell, which must be ignored;
- two good BACKEND rows with different cells, so that sums and swapped columns are distinguishable;
- a BACKEND row with an unparsable cell.

Bodies hold up to 3 records. That is enough for a bad record after two good ones, which is the case `ParseVerdict` is about.

**Elasticsearch.** The documents are:

- the v6 and v7 shapes of the node stats, where v7 has no percolate;
- a document where an intermediate key is a number, not an object;
- a document with a string leaf.

- a document with no `http` section (the HTTP module disabled).

The payload set covers every `Decode` branch, including two nodes and zero nodes.

**Rates.** Three processes (symmetric, so `SYMMETRY` over their permutations), counters up to 3 and four invocations. That is enough for a failed invocation between two successful ones, a restart between them, and a restart followed by traffic that exceeds the saved value (the case the clamp does not catch). The runs stop at the bound, so deadlock checking is off: the bound, not the system, ends them.

**PHP-FPM.** There are two fields. The objects include every combination of absent, numeric and mistyped.

### Fairness

Each invocation is a single goroutine that is always runnable, so its own
steps get weak fairness (`WF_vars(PluginStep)`). This includes the client
timeouts: Go's HTTP client cancels a request once its deadline passes.

The peer (`PeerSend`, `Respond`) gets no fairness. A server may stall
forever, and that is exactly the case where the spec requires a bounded
wait.

### Mutants

Each property of a pass run is broken by a plausible bug in the code:

| Mutant | Property it breaks |
|---|---|
| dropping the `bytes_out` block | `TypeOK` |
| swapping columns 8 and 9 | `ResultIsBackendTotal` |
| treating a read error as EOF | `ParseVerdict` |
| a client without `Timeout` | `TerminationOverTCP` |
| looking metrics up in `nodes` itself instead of in the node | `TypeOK` |
| `break` instead of `continue` on a missing metric | `ExtractMatchesDocument` |
| keeping a mistyped value | `TypeOK` |
| no deadline | `Termination` |
| treating a read error as EOF | `ImplementsContract` (HAProxy) |
| `break` instead of `continue` on a missing metric | `ImplementsContract` (Elasticsearch) |
| a rate that is not clamped at a reset | `TypeOK` (rates) |
| a failed invocation stamping the scratch file with its time | `NoOverReport` |
| the interval counted one step too long | `ExactWithoutRestart` |

## Proofs

`HAProxy_proofs` proves the following for every set of records, every
bound and both transports. The only assumption is `ConstantsAssumption`: records are well typed, bodies are within `MaxRows`, and the sentinels are distinct.

* `TypeCorrect`: `Spec => []TypeOK`. `TypeStep` has one case per action. The `AddBackend` case shows that the new sums are naturals.
* `ParseVerdictHolds`: `Spec => []ParseVerdict`.
  - `ParseVerdict` alone is not inductive. When `ReadEOF` returns success, it must know that every record already consumed was acceptable.
  - The inductive invariant `IInv` therefore adds: while in `parse`, every record before `pos` satisfies `RowAccepted`.
  - `SkipRow` and `AddBackend` extend that prefix.
  - `ReadShort`, `ReadUnparsable`, `ReadFailed` and `ReadTimeout` each produce a witness that the body is not `Accepted`. The lemma `RejectedRow` covers the first two.
* `ResultIsBackendTotalHolds`: `Spec => []ResultIsBackendTotal`.
  - The reference `BackendSum` is the last of the running sums `PrefixSums(BackendColumn(rows, m))`, which is a recursive function over the prefix index.
  - `PrefixSumsDef` proves that it satisfies its equation: 0 at index 0, and at index i the sum at i - 1 plus c[i]. A recursive function is defined as the function that satisfies its equation, so the proof shows such a function exists on every prefix 0..k. It takes the least k without one, using the library facts `NatLessThanWellFounded` and `WFMin`, which have no operator parameters. That least k is neither 0 nor one more than a k that has one.
  - The inductive invariant `SInv` adds `Accumulated`. While in `parse`, the Go map has keys exactly when a BACKEND row has been read, and `Get(stat, m)` is the running sum up to `pos - 1`.
  - `SkipRow` adds 0 to that sum, `AddBackend` adds the cell, and `ReadEOF` turns the sum at `Len(rows)` into `Totals`.
* `ImplementsContractHolds`: `Spec => ImplementsContract`, under the hypothesis `TruncationClosed`. The hypothesis says that the peer may stall after any prefix of a body it may send, so the stream a read timeout leaves is a payload the contract allows. `MC_HAProxy`'s bodies satisfy it.
  - `RInv` combines `IInv`, `SInv` and the fact that the body being read is one of `Bodies`.
  - A fetch maps to `Fetch` or `FetchFail`.
  - The four failing exits of the loop map to `Fail`, using `ParseVerdict`.
  - `ReadEOF` maps to `Emit`, using `ParseVerdict` and `ResultIsBackendTotal`.
  - `PeerSend`, `SkipRow` and `AddBackend` are stutters.

`HAProxyRates_proofs` proves the rate properties for every set of processes and every bound:

* `TypeCorrect`: `Spec => []TypeOK`, with or without `Overlap`.
* `NoOverReportHolds` and `ExactWithoutRestartHolds`, assuming `Overlap = FALSE`. With overlap `NoOverReport` is false; the `haproxy_rates_overlap` run finds the counterexample. The inductive invariant `IInv` says:
  - at most one process is live;
  - a process that has not started has a zero counter;
  - the live counter is bounded by the traffic since the last start;
  - `trafficAt` is monotone and bounded by `traffic`;
  - the key relation: when the scratch file is newer than the last start, the live counter equals each saved sample plus the traffic since the saved time.
  - The lemma `ConvertUniform` computes the helper's conversion of a uniform sample set.

`PhpFpm_proofs` proves `TypeCorrect`: `Spec => []TypeOK`. The lemma `FieldValueType` shows that the value `json.Unmarshal` leaves in a field is always a uint64.

`Elasticsearch_proofs` proves, for every `metricPlace`, set of documents and payloads allowed by `ConstantsAssumption`:

* `TypeCorrect`: `Spec => []TypeOK`.
* `ExtractMatchesDocumentHolds`: `Spec => []ExtractMatchesDocument`. The inductive invariant `IInv` adds `Visited`: while in the loop, and after success, the domain of `stat` is exactly the visited metrics that `IsFloatAt` finds, each with its value. It also says `stat` is empty before the loop and `exit` stays `running` until `done`. This is what makes the result independent of the visiting order.
* `ImplementsContractHolds`: under `SuppressModes = {TRUE}`, `Spec => ImplementsContract`. `RInv` strengthens `IInv` with `Picked`: in the loop and after success, the payload is valid and `doc` is its node. `ContractInit` maps the initial state, and `ContractStep` maps each action to a contract step or a stutter: `Decode` to `Fail` or a stutter, `Extract` to a stutter, and `ReturnStat` to `Emit`, where `Visited` with an empty `todo` gives `stat = SampleSet(...)`.

The following are checked by TLC only:

- Liveness (`Termination`, `TerminationOverTCP`). TLAPS cannot reason about `ENABLED` and fairness here.
- The properties that are violated, in the `violation` runs. Their counterexamples are the findings.

## Not modelled

* **The graph definitions** of Elasticsearch and PHP-FPM, which are static tables. HAProxy's feeds `HAProxyRates`.
* **Most of the helper library**: the output format, and the scratch file's encoding and naming. Rate conversion is modelled for HAProxy only, from the spec.
* **BACKEND membership changes between invocations** (hazard at line 435): the rate model gives each process one counter, so a backend added or removed is not represented.
* **The ignored `show stat` write error** (hazard at line 406): a peer that drops the request gives an empty stream. The code, the model and the spec all treat that as a legal answer with no BACKEND row, so no property catches it. Detecting it would need the write's error, which the code discards.
* **The `FastCGITransport`** used by PHP-FPM with `-fcgi`. It is not in this tree. The model treats it like HTTP with the same deadline.
* **Flag parsing and tempfile naming**, which are pure formatting.
* **`-timeout 0` for PHP-FPM.** It disables the deadline, which is a hazard listed in `PROJECT.json`. The checked run uses 5.

## Plan

1. **A `MetricPath` module** that checks `IsFloatAt` against a tree-shaped reference JSON.
2. **Backend membership in the rate model**, to cover the hazard at line 435.
3. **More proofs:** an action property, and lemmas about `Convert` for sample sets that are not uniform.
