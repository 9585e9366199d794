--------------------------- MODULE PluginContract ---------------------------
(***************************************************************************)
(* What one invocation of any plugin promises, independent of its          *)
(* transport and payload format: Start -> Fetched -> Emitted | Failed,     *)
(* every state terminal on failure.  A run emits metrics only when the     *)
(* payload it read is acceptable, and then exactly the sample set the      *)
(* extraction rules give for that payload; otherwise it fails with nothing *)
(* emitted.  The plugin modules implement this specification through a    *)
(* refinement mapping (see HAProxyContract and ElasticsearchContract).     *)
(***************************************************************************)
CONSTANTS
    Configs,        \* the configurations the flags can resolve to
    Payloads,       \* the payloads a fetch can return
    NoPayload,      \* the payload before anything was fetched
    Valid(_, _),    \* under a configuration, the payload is acceptable
    Extract(_, _)   \* the metric sample set an acceptable payload gives

VARIABLES
    config,     \* the configuration, resolved once and never changed
    phase,      \* "start", "fetched" or "done"
    payload,    \* what the fetch returned
    out         \* [status |-> "running" | "emitted" | "failed", stat |-> sample set]

cvars == <<config, phase, payload, out>>

Running == [status |-> "running", stat |-> <<>>]
Failed == [status |-> "failed", stat |-> <<>>]

Init ==
    /\ config \in Configs
    /\ phase = "start"
    /\ payload = NoPayload
    /\ out = Running

\* The one fetch attempt returns a payload.
Fetch ==
    /\ phase = "start"
    /\ phase' = "fetched"
    /\ payload' \in Payloads
    /\ UNCHANGED <<config, out>>

\* The fetch fails (configuration, connection, protocol, timeout).
FetchFail ==
    /\ phase = "start"
    /\ phase' = "done"
    /\ out' = Failed
    /\ UNCHANGED <<config, payload>>

\* An acceptable payload is turned into its sample set and emitted.
Emit ==
    /\ phase = "fetched"
    /\ Valid(config, payload)
    /\ phase' = "done"
    /\ out' = [status |-> "emitted", stat |-> Extract(config, payload)]
    /\ UNCHANGED <<config, payload>>

\* Reading or extracting fails: what was read, in the end, is not
\* acceptable (a read that breaks off mid-stream reads an unacceptable
\* payload), and nothing is emitted.
Fail ==
    /\ phase = "fetched"
    /\ payload' \in Payloads
    /\ ~Valid(config, payload')
    /\ phase' = "done"
    /\ out' = Failed
    /\ UNCHANGED config

Next == Fetch \/ FetchFail \/ Emit \/ Fail

Spec == Init /\ [][Next]_cvars
=============================================================================
