------------------------- MODULE HAProxyRates_proofs -------------------------
(***************************************************************************)
(* Proofs that the helper's rate conversion of the HAProxy counters never  *)
(* over-reports, and is exact between restarts, for any number of         *)
(* processes, counter bound and number of invocations, when one HAProxy    *)
(* process answers at a time (Overlap = FALSE).                            *)
(*                                                                         *)
(* The inductive invariant ties the scratch file to the live process: if   *)
(* no process started since the saved observation, the live process is the *)
(* one observed, and its counter has grown by exactly the traffic since;   *)
(* otherwise it started later, and counts at most the traffic since it     *)
(* started.                                                                *)
(***************************************************************************)
EXTENDS HAProxyRates, TLAPS

USE ConstantsAssumption

\* The saved sample set is empty (no success yet) or has every metric.
Saved == DOMAIN record.stat = Metrics

\* TypeOK, with the saved sample set's values typed: inductive whether or
\* not processes overlap.
TInv ==
    /\ TypeOK
    /\ record.stat \in {<<>>} \cup [Metrics -> Nat]

IInv ==
    /\ TInv
    /\ \A p \in Procs \ started : count[p] = 0
    /\ \A p, q \in live : p = q
    /\ lastStart \in 0..now
    /\ \A i, j \in 0..now : i <= j => trafficAt[i] <= trafficAt[j]
    /\ trafficAt[now] <= traffic
    /\ \A p \in live : count[p] <= traffic - trafficAt[lastStart]
    /\ \A p \in live :
         Saved /\ lastStart < record.time =>
            \A m \in Metrics : count[p] = record.stat[m] + (traffic - trafficAt[record.time])
    /\ NoOverReport
    /\ ExactWithoutRestart
-----------------------------------------------------------------------------
\* What the conversion gives when every metric is a counter: for each
\* metric saved in the previous observation, the clamped increase over the
\* time since it.
LEMMA ConvertShape ==
    ASSUME NEW prev, NEW cur, NEW t, DOMAIN cur = Metrics
    PROVE  /\ DOMAIN Convert(prev, cur, t) = Metrics \cap DOMAIN prev.stat
           /\ \A m \in DOMAIN Convert(prev, cur, t) :
                Convert(prev, cur, t)[m] =
                    [delta |-> IF cur[m] >= prev.stat[m] THEN cur[m] - prev.stat[m] ELSE 0,
                     dt |-> t - prev.time]
BY DEF Convert, Diff, Metrics

\* The same, for the sample set HAProxy gives: the counter of the process
\* that answered, for every metric.
LEMMA ConvertUniform ==
    ASSUME NEW prev, NEW p, NEW t
    PROVE  /\ DOMAIN Convert(prev, Sample(p), t) = Metrics \cap DOMAIN prev.stat
           /\ \A m \in Metrics \cap DOMAIN prev.stat :
                /\ Convert(prev, Sample(p), t)[m].delta =
                     IF count[p] >= prev.stat[m] THEN count[p] - prev.stat[m] ELSE 0
                /\ Convert(prev, Sample(p), t)[m].dt = t - prev.time
BY DEF Convert, Sample, Diff, Metrics

\* The conversion of two typed observations is typed: a natural increase
\* over an interval no longer than the time elapsed.
LEMMA ConvertType ==
    ASSUME NEW prev, NEW cur \in [Metrics -> Nat], NEW t \in Nat,
           prev.stat \in {<<>>} \cup [Metrics -> Nat], prev.time \in 0..t
    PROVE  /\ DOMAIN Convert(prev, cur, t) \subseteq Metrics
           /\ \A m \in DOMAIN Convert(prev, cur, t) :
                /\ Convert(prev, cur, t)[m].delta \in Nat
                /\ Convert(prev, cur, t)[m].dt \in 0..t
<1>1. DOMAIN Convert(prev, cur, t) = Metrics \cap DOMAIN prev.stat
  BY ConvertShape
<1>2. ASSUME NEW m \in DOMAIN Convert(prev, cur, t)
      PROVE  /\ Convert(prev, cur, t)[m].delta \in Nat
             /\ Convert(prev, cur, t)[m].dt \in 0..t
  <2>1. m \in Metrics /\ prev.stat \in [Metrics -> Nat]
    BY <1>1, <1>2
  <2>2. Convert(prev, cur, t)[m] =
            [delta |-> IF cur[m] >= prev.stat[m] THEN cur[m] - prev.stat[m] ELSE 0,
             dt |-> t - prev.time]
    <3>1. DOMAIN cur = Metrics
      OBVIOUS
    <3>. QED
      BY <1>2, <3>1, ConvertShape, Zenon
  <2>. QED
    BY <2>1, <2>2
<1>. QED
  BY <1>1, <1>2

LEMMA TInvInit == Init => TInv
BY DEF Init, TInv, TypeOK, NoRecord

LEMMA TInvStep == TInv /\ [Next]_vars => TInv'
<1> SUFFICES ASSUME TInv, [Next]_vars PROVE TInv'
  OBVIOUS
<1>1. ASSUME NEW p \in Procs, Serve(p) PROVE TInv'
  BY <1>1 DEF Serve, TInv, TypeOK
<1>2. ASSUME NEW p \in Procs, Start(p) PROVE TInv'
  BY <1>2 DEF Start, TInv, TypeOK
<1>3. ASSUME NEW p \in Procs, Stop(p) PROVE TInv'
  BY <1>3 DEF Stop, TInv, TypeOK
<1>4. CASE Run
  <2>1. now' = now + 1 /\ now' \in 0..MaxRuns
    BY <1>4 DEF Run, TInv, TypeOK
  <2>2. trafficAt' \in [0..now' -> Nat]
    BY <1>4, <2>1 DEF Run, TInv, TypeOK
  <2>3. UNCHANGED <<count, live, started, traffic>>
    BY <1>4 DEF Run
  <2>4. CASE out' = <<>> /\ UNCHANGED record
    <3>1. DOMAIN out' = {}
      BY <2>4
    <3>2. record'.time \in 0..now'
      BY <2>1, <2>4 DEF TInv, TypeOK
    <3>. QED
      BY <2>1, <2>2, <2>3, <2>4, <3>1, <3>2 DEF TInv, TypeOK
  <2>5. ASSUME NEW p \in live,
               out' = Convert(record, Sample(p), now + 1),
               record' = [time |-> now + 1, stat |-> Sample(p)]
        PROVE  TInv'
    <3>1. Sample(p) \in [Metrics -> Nat]
      BY DEF TInv, TypeOK, Sample
    <3>2. /\ record.time \in 0..(now + 1) /\ now + 1 \in Nat
          /\ record.stat \in {<<>>} \cup [Metrics -> Nat]
      BY DEF TInv, TypeOK
    <3>3. /\ DOMAIN out' \subseteq Metrics
          /\ \A m \in DOMAIN out' : out'[m].delta \in Nat /\ out'[m].dt \in 0..(now + 1)
      BY <2>5, <3>1, <3>2, ConvertType, Zenon
    <3>4. record'.time \in 0..now' /\ DOMAIN record'.stat \subseteq Metrics
      BY <2>1, <2>5, <3>2 DEF Sample
    <3>5. record'.stat \in {<<>>} \cup [Metrics -> Nat]
      BY <2>5, <3>1
    <3>. QED
      BY <2>1, <2>2, <2>3, <3>3, <3>4, <3>5 DEF TInv, TypeOK
  <2>. QED
    BY <1>4, <2>4, <2>5 DEF Run
<1>5. CASE UNCHANGED vars
  BY <1>5 DEF vars, TInv, TypeOK
<1>. QED
  BY <1>1, <1>2, <1>3, <1>4, <1>5 DEF Next

\* Every reachable state of the invocations and the scratch file is well
\* typed, in particular every emitted increase is a natural number: the
\* reset clamp never lets a restart produce a negative rate.
THEOREM TypeCorrect == Spec => []TypeOK
<1>1. Spec => []TInv
  BY TInvInit, TInvStep, PTL DEF Spec
<1>. QED
  BY <1>1, PTL DEF TInv

-----------------------------------------------------------------------------
LEMMA IInvInit == Init => IInv
<1> SUFFICES ASSUME Init PROVE IInv
  OBVIOUS
<1>1. TInv
  BY TInvInit
<1>. QED
  BY <1>1 DEF Init, IInv, NoRecord, Saved, NoOverReport, ExactWithoutRestart

\* With one HAProxy process answering at a time, every step keeps the
\* scratch file consistent with the live process's counter.
LEMMA IInvStep ==
    ASSUME Overlap = FALSE
    PROVE  IInv /\ [Next]_vars => IInv'
<1> SUFFICES ASSUME IInv, [Next]_vars PROVE IInv'
  OBVIOUS
<1>0. TInv /\ TInv'
  BY TInvStep DEF IInv
<1>1. ASSUME NEW p \in Procs, Serve(p) PROVE IInv'
  <2>1. \A q \in live : q = p
    BY <1>1 DEF Serve, IInv
  <2>2. /\ p \in started /\ live' = live /\ started' = started
        /\ count'[p] = count[p] + 1 /\ traffic' = traffic + 1
        /\ \A q \in Procs \ {p} : count'[q] = count[q]
        /\ UNCHANGED <<record, now, out, trafficAt, lastStart>>
    BY <1>1 DEF Serve, IInv, TInv, TypeOK
  <2>3. /\ lastStart \in 0..now /\ traffic \in Nat /\ count[p] \in Nat
        /\ trafficAt[now] \in Nat /\ trafficAt[lastStart] \in Nat
        /\ record.time \in 0..now /\ trafficAt[record.time] \in Nat
    BY DEF IInv, TInv, TypeOK
  <2>4. \A q \in live' : count'[q] <= traffic' - trafficAt'[lastStart']
    BY <2>1, <2>2, <2>3 DEF IInv
  <2>5. \A q \in live' : Saved' /\ lastStart' < record'.time =>
           \A m \in Metrics : count'[q] = record'.stat[m] + (traffic' - trafficAt'[record'.time])
    <3>1. ASSUME NEW q \in live', Saved', lastStart' < record'.time, NEW m \in Metrics
          PROVE  count'[q] = record'.stat[m] + (traffic' - trafficAt'[record'.time])
      <4>1. q = p /\ Saved /\ lastStart < record.time
        BY <2>1, <2>2, <3>1 DEF Saved
      <4>2. record.stat[m] \in Nat
        BY <4>1 DEF IInv, TInv, Saved
      <4>3. count[p] = record.stat[m] + (traffic - trafficAt[record.time])
        BY <1>1, <4>1 DEF Serve, IInv
      <4>. QED
        BY <2>2, <2>3, <4>1, <4>2, <4>3
    <3>. QED
      BY <3>1
  <2>6. NoOverReport' /\ ExactWithoutRestart'
    BY <2>2 DEF IInv, NoOverReport, ExactWithoutRestart
  <2>. QED
    BY <1>0, <2>1, <2>2, <2>3, <2>4, <2>5, <2>6 DEF IInv
<1>2. ASSUME NEW p \in Procs, Start(p) PROVE IInv'
  <2>1. live' = {p} /\ count[p] = 0 /\ lastStart' = now
    BY <1>2 DEF Start, IInv
  <2>2. ~(lastStart' < record'.time)
    BY <1>2, <2>1 DEF Start, IInv, TInv, TypeOK
  <2>3. ExactWithoutRestart'
    BY <1>0, <1>2, <2>1 DEF Start, TInv, TypeOK, ExactWithoutRestart
  <2>4. /\ UNCHANGED <<count, record, now, out, traffic, trafficAt>>
        /\ started' = started \cup {p}
    BY <1>2 DEF Start
  <2>5. \A q \in Procs \ started' : count'[q] = 0
    BY <2>4 DEF IInv
  <2>6. \A q \in live' : count'[q] <= traffic' - trafficAt'[lastStart']
    <3>1. trafficAt[now] <= traffic /\ trafficAt[now] \in Nat /\ traffic \in Nat
      BY <1>0 DEF IInv, TInv, TypeOK
    <3>. QED
      BY <2>1, <2>4, <3>1
  <2>7. lastStart' \in 0..now' /\ NoOverReport'
    BY <1>0, <2>1, <2>4 DEF IInv, TInv, TypeOK, NoOverReport
  <2>. QED
    BY <1>0, <2>1, <2>2, <2>3, <2>4, <2>5, <2>6, <2>7 DEF IInv
<1>3. ASSUME NEW p \in Procs, Stop(p) PROVE IInv'
  BY <1>0, <1>3 DEF Stop, IInv, Saved, NoOverReport, ExactWithoutRestart
<1>4. CASE Run
  <2>1. /\ now' = now + 1
        /\ trafficAt' = [i \in 0..(now + 1) |-> IF i = now + 1 THEN traffic ELSE trafficAt[i]]
        /\ UNCHANGED <<count, live, started, traffic, lastStart>>
    BY <1>4 DEF Run
  <2>2. /\ \A i \in 0..now : trafficAt'[i] = trafficAt[i]
        /\ trafficAt'[now'] = traffic
        /\ \A i, j \in 0..now' : i <= j => trafficAt'[i] <= trafficAt'[j]
    BY <2>1 DEF IInv, TInv, TypeOK
  <2>0. /\ lastStart \in 0..now /\ record.time \in 0..now /\ now \in Nat
        /\ trafficAt[now] <= traffic
    BY DEF IInv, TInv, TypeOK
  <2>3. CASE out' = <<>> /\ UNCHANGED record
    <3>1. trafficAt'[lastStart'] = trafficAt[lastStart]
          /\ trafficAt'[record'.time] = trafficAt[record.time]
      BY <2>0, <2>1, <2>2, <2>3
    <3>2. lastStart' \in 0..now' /\ trafficAt'[now'] <= traffic'
      BY <2>0, <2>1, <2>2
    <3>3. NoOverReport' /\ ExactWithoutRestart'
      BY <2>3 DEF NoOverReport, ExactWithoutRestart
    <3>4. \A q \in Procs \ started' : count'[q] = 0
      BY <2>1 DEF IInv
    <3>5. \A q \in live' : count'[q] <= traffic' - trafficAt'[lastStart']
      BY <2>1, <3>1 DEF IInv
    <3>6. \A q \in live' : Saved' /\ lastStart' < record'.time =>
             \A m \in Metrics : count'[q] = record'.stat[m] + (traffic' - trafficAt'[record'.time])
      BY <2>1, <2>3, <3>1 DEF IInv, Saved
    <3>. QED
      BY <1>0, <2>1, <2>2, <3>2, <3>3, <3>4, <3>5, <3>6 DEF IInv
  <2>4. ASSUME NEW p \in live,
               out' = Convert(record, Sample(p), now + 1),
               record' = [time |-> now + 1, stat |-> Sample(p)]
        PROVE  IInv'
    <3>1. \A q \in live : q = p
      BY DEF IInv
    <3>2. \A q \in live' : Saved' /\ lastStart' < record'.time =>
             \A m \in Metrics : count'[q] = record'.stat[m] + (traffic' - trafficAt'[record'.time])
      BY <2>1, <2>2, <2>4, <3>1 DEF IInv, TInv, TypeOK, Sample
    <3>0. PICK u : u = now + 1 /\ out' = Convert(record, Sample(p), u)
      BY <2>4, Zenon
    <3>3. ASSUME NEW m \in DOMAIN out'
          PROVE  /\ out'[m].delta <= trafficAt'[now'] - trafficAt'[now' - out'[m].dt]
                 /\ lastStart' < now' - out'[m].dt =>
                       out'[m].delta = trafficAt'[now'] - trafficAt'[now' - out'[m].dt]
      <4>1. m \in Metrics \cap DOMAIN record.stat /\ record.stat \in [Metrics -> Nat]
        <5>1. m \in Metrics \cap DOMAIN record.stat
          BY <3>0, <3>3, ConvertUniform
        <5>. QED
          BY <5>1 DEF IInv, TInv
      <4>2. /\ out'[m].delta = IF count[p] >= record.stat[m] THEN count[p] - record.stat[m] ELSE 0
            /\ out'[m].dt = now + 1 - record.time
            /\ lastStart' = lastStart
        <5>1. /\ Convert(record, Sample(p), u)[m].delta =
                     IF count[p] >= record.stat[m] THEN count[p] - record.stat[m] ELSE 0
              /\ Convert(record, Sample(p), u)[m].dt = u - record.time
          BY <4>1, ConvertUniform
        <5>2. /\ out'[m].delta = IF count[p] >= record.stat[m] THEN count[p] - record.stat[m] ELSE 0
              /\ out'[m].dt = u - record.time
          BY <3>0, <5>1, Zenon
        <5>3. lastStart' = lastStart
          BY <2>1
        <5>4. record.time \in Nat /\ now \in Nat
          BY DEF IInv, TInv, TypeOK
        <5>. QED
          BY <3>0, <5>2, <5>3, <5>4
      <4>3. /\ record.time \in 0..now /\ lastStart \in 0..now /\ now \in Nat
            /\ count[p] \in Nat /\ record.stat[m] \in Nat /\ traffic \in Nat
            /\ trafficAt[record.time] \in Nat /\ trafficAt[lastStart] \in Nat
            /\ trafficAt[record.time] <= traffic
        BY <4>1 DEF IInv, TInv, TypeOK
      <4>4. now' - out'[m].dt = record.time
        <5>1. now' = now + 1
          BY <2>1
        <5>2. out'[m].dt = now + 1 - record.time
          BY <4>2
        <5>. QED
          BY <4>3, <5>1, <5>2
      <4>5. trafficAt'[now'] - trafficAt'[now' - out'[m].dt] = traffic - trafficAt[record.time]
        <5>1. trafficAt'[record.time] = trafficAt[record.time]
          BY <2>2, <4>3
        <5>. QED
          BY <2>2, <4>4, <5>1
      <4>6. CASE lastStart < record.time
        <5>1. count[p] = record.stat[m] + (traffic - trafficAt[record.time])
          BY <4>1, <4>6 DEF IInv, Saved
        <5>. QED
          BY <4>2, <4>3, <4>4, <4>5, <5>1
      <4>7. CASE ~(lastStart < record.time)
        <5>1. count[p] <= traffic - trafficAt[lastStart]
          BY DEF IInv
        <5>2. trafficAt[record.time] <= trafficAt[lastStart]
          BY <4>3, <4>7 DEF IInv
        <5>. QED
          BY <4>2, <4>3, <4>4, <4>5, <4>7, <5>1, <5>2
      <4>. QED
        BY <4>6, <4>7
    <3>4. NoOverReport' /\ ExactWithoutRestart'
      BY <3>3 DEF NoOverReport, ExactWithoutRestart
    <3>5. \A q \in live' : count'[q] <= traffic' - trafficAt'[lastStart']
      <4>1. trafficAt'[lastStart'] = trafficAt[lastStart]
        BY <2>0, <2>1, <2>2
      <4>. QED
        BY <2>1, <4>1 DEF IInv
    <3>6. lastStart' \in 0..now' /\ trafficAt'[now'] <= traffic'
      BY <2>0, <2>1, <2>2
    <3>7. \A q \in Procs \ started' : count'[q] = 0
      BY <2>1 DEF IInv
    <3>. QED
      BY <1>0, <2>1, <2>2, <3>2, <3>4, <3>5, <3>6, <3>7 DEF IInv
  <2>. QED
    BY <1>4, <2>3, <2>4 DEF Run
<1>5. CASE UNCHANGED vars
  BY <1>0, <1>5 DEF vars, IInv, Saved, NoOverReport, ExactWithoutRestart
<1>. QED
  BY <1>1, <1>2, <1>3, <1>4, <1>5 DEF Next

\* With one HAProxy process answering at a time (a restart replaces it),
\* an emitted counter increase never exceeds the work HAProxy counted
\* between the two observations compared, for any number of restarts,
\* failed invocations and counter values.
THEOREM NoOverReportHolds ==
    ASSUME Overlap = FALSE
    PROVE  Spec => []NoOverReport
<1>1. Spec => []IInv
  BY IInvInit, IInvStep, PTL DEF Spec
<1>. QED
  BY <1>1, PTL DEF IInv

\* With one HAProxy process answering at a time, an increase emitted over
\* an interval in which no process started is exactly the work counted in
\* it.
THEOREM ExactWithoutRestartHolds ==
    ASSUME Overlap = FALSE
    PROVE  Spec => []ExactWithoutRestart
<1>1. Spec => []IInv
  BY IInvInit, IInvStep, PTL DEF Spec
<1>. QED
  BY <1>1, PTL DEF IInv
=============================================================================
