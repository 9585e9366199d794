---------------------------- MODULE HAProxyRates ----------------------------
(***************************************************************************)
(* Successive invocations of the HAProxy plugin, each one fetch through    *)
(* the plugin contract (a failure, or the BACKEND sums of the stats page   *)
(* the peer served), followed by the helper's counter-to-rate conversion   *)
(* against the previous observation kept in the scratch file.             *)
(*                                                                         *)
(* The counters live in HAProxy processes.  A process starts at zero and  *)
(* only counts up; a restart or reload starts a new process.  With        *)
(* Overlap, several processes answer the stats page at once (nbproc > 1,  *)
(* or the old process of a soft reload still serving): a fetch reads the  *)
(* counters of whichever process accepted the connection.                 *)
(*                                                                         *)
(* The four graph metrics are fed by the same traffic, so a process's     *)
(* counters are modelled by one number per process.  Time counts the      *)
(* agent's invocations: one per interval, so consecutive observations     *)
(* never share a timestamp.  traffic and trafficAt are history variables: *)
(* the work all processes have done, in total and at each invocation.     *)
(***************************************************************************)
EXTENDS Naturals

CONSTANTS
    Procs,      \* HAProxy processes, in the order they may be started
    MaxCount,   \* bound on the counter of one process
    MaxRuns,    \* bound on the number of invocations
    Overlap     \* whether two processes may serve the stats page together

\* graphdef: every metric of the HAProxy plugin is a counter (Diff: true).
Diff == [m \in {"sessions", "bytes_in", "bytes_out", "connection_errors"} |-> TRUE]

Metrics == DOMAIN Diff

ASSUME ConstantsAssumption ==
    /\ MaxCount \in Nat
    /\ MaxRuns \in Nat
    /\ Overlap \in BOOLEAN

NoRecord == [time |-> 0, stat |-> <<>>]

VARIABLES
    count,      \* count[p]: the BACKEND sum process p reports
    live,       \* the processes answering the stats page
    started,    \* the processes started so far
    record,     \* the scratch file: time and sample set of the last success
    now,        \* the invocations so far
    out,        \* what the last invocation emitted: metric -> [delta, dt]
    traffic,    \* history: the work counted by all processes
    trafficAt,  \* history: traffic at each invocation
    lastStart   \* history: the invocation before which a process last started

vars == <<count, live, started, record, now, out, traffic, trafficAt, lastStart>>

-----------------------------------------------------------------------------
\* A request served by process p moves its counters.
Serve(p) ==
    /\ p \in live
    /\ count[p] < MaxCount
    /\ count' = [count EXCEPT ![p] = @ + 1]
    /\ traffic' = traffic + 1
    /\ UNCHANGED <<live, started, record, now, out, trafficAt, lastStart>>

\* A new process starts with zeroed counters.  Without Overlap it replaces
\* the running one (a restart); with it, both answer until Stop.
Start(p) ==
    /\ p \in Procs \ started
    /\ started' = started \cup {p}
    /\ live' = IF Overlap THEN live \cup {p} ELSE {p}
    /\ lastStart' = now
    /\ UNCHANGED <<count, record, now, out, traffic, trafficAt>>

\* An old process finishes and stops answering.
Stop(p) ==
    /\ p \in live
    /\ live' = live \ {p}
    /\ UNCHANGED <<count, started, record, now, out, traffic, trafficAt, lastStart>>

-----------------------------------------------------------------------------
\* Seeded bug for mutation testing: the increase not clamped at a reset.
ConvertNoClamp(prev, cur, t) ==
    [m \in {k \in DOMAIN cur : ~Diff[k] \/ k \in DOMAIN prev.stat} |->
        IF Diff[m]
        THEN [delta |-> cur[m] - prev.stat[m], dt |-> t - prev.time]
        ELSE [delta |-> cur[m], dt |-> 0]]

\* Seeded bug for mutation testing: the interval counted one step too long.
ConvertDtOffByOne(prev, cur, t) ==
    [m \in {k \in DOMAIN cur : ~Diff[k] \/ k \in DOMAIN prev.stat} |->
        IF Diff[m]
        THEN [delta |-> IF cur[m] >= prev.stat[m] THEN cur[m] - prev.stat[m] ELSE 0,
              dt |-> t - prev.time + 1]
        ELSE [delta |-> cur[m], dt |-> 0]]

\* The helper's conversion (spec 4.4): a counter is emitted as its increase
\* since the previous observation, clamped at zero, over the time between
\* them, and omitted when there is no previous observation of it; a gauge
\* is emitted as read.
Convert(prev, cur, t) ==
    [m \in {k \in DOMAIN cur : ~Diff[k] \/ k \in DOMAIN prev.stat} |->
        IF Diff[m]
        THEN [delta |-> IF cur[m] >= prev.stat[m] THEN cur[m] - prev.stat[m] ELSE 0,
              dt |-> t - prev.time]
        ELSE [delta |-> cur[m], dt |-> 0]]

\* The sample set FetchMetrics returns when process p answers: its BACKEND
\* sum for every metric.
Sample(p) == [m \in Metrics |-> count[p]]

\* Seeded bug for mutation testing: a failed invocation stamps the scratch
\* file with its time, keeping the old sample set.
RunFailureTouchesRecord ==
    /\ now < MaxRuns
    /\ now' = now + 1
    /\ trafficAt' = [i \in 0..(now + 1) |-> IF i = now + 1 THEN traffic ELSE trafficAt[i]]
    /\ \/ /\ out' = <<>>
          /\ record' = [time |-> now + 1, stat |-> record.stat]
       \/ \E p \in live :
            /\ out' = Convert(record, Sample(p), now + 1)
            /\ record' = [time |-> now + 1, stat |-> Sample(p)]
    /\ UNCHANGED <<count, live, started, traffic, lastStart>>

\* One invocation: FetchMetrics fails (nothing emitted, the scratch file
\* kept), or reads the stats page of a live process, and the helper emits
\* the converted sample set and overwrites the scratch file with it.
Run ==
    /\ now < MaxRuns
    /\ now' = now + 1
    /\ trafficAt' = [i \in 0..(now + 1) |-> IF i = now + 1 THEN traffic ELSE trafficAt[i]]
    /\ \/ /\ out' = <<>>
          /\ UNCHANGED record
       \/ \E p \in live :
            /\ out' = Convert(record, Sample(p), now + 1)
            /\ record' = [time |-> now + 1, stat |-> Sample(p)]
    /\ UNCHANGED <<count, live, started, traffic, lastStart>>

-----------------------------------------------------------------------------
Init ==
    /\ count = [p \in Procs |-> 0]
    /\ live = {}
    /\ started = {}
    /\ record = NoRecord
    /\ now = 0
    /\ out = <<>>
    /\ traffic = 0
    /\ trafficAt = [i \in {0} |-> 0]
    /\ lastStart = 0

Next ==
    \/ \E p \in Procs : Serve(p) \/ Start(p) \/ Stop(p)
    \/ Run

Spec == Init /\ [][Next]_vars

-----------------------------------------------------------------------------
TypeOK ==
    /\ count \in [Procs -> 0..MaxCount]
    /\ live \subseteq started /\ started \subseteq Procs
    /\ record.time \in 0..now /\ DOMAIN record.stat \subseteq Metrics
    /\ now \in 0..MaxRuns
    /\ DOMAIN out \subseteq Metrics
    /\ \A m \in DOMAIN out : out[m].delta \in Nat /\ out[m].dt \in 0..now
    /\ traffic \in Nat /\ trafficAt \in [0..now -> Nat]

\* NoOverReport: an emitted counter increase never exceeds the work that
\* HAProxy really counted between the two observations it compares: the
\* reset clamp turns a restart into a zero, never into a spike.
NoOverReport ==
    \A m \in DOMAIN out :
        out[m].delta <= trafficAt[now] - trafficAt[now - out[m].dt]

\* ExactWithoutRestart: when no process started between the two
\* observations, the emitted increase is exactly the work counted between
\* them.
ExactWithoutRestart ==
    \A m \in DOMAIN out :
        lastStart < now - out[m].dt =>
            out[m].delta = trafficAt[now] - trafficAt[now - out[m].dt]
=============================================================================
