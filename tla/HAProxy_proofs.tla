---------------------------- MODULE HAProxy_proofs ----------------------------
(***************************************************************************)
(* Proofs about one invocation of the HAProxy plugin's FetchMetrics, for   *)
(* every set of records, every bound on the body and both transports.     *)
(***************************************************************************)
EXTENDS HAProxyContract, WellFoundedInduction, TLAPS

USE ConstantsAssumption

-----------------------------------------------------------------------------
(* The running sums.                                                       *)

\* PrefixSums(c) is a recursive function, defined as the function that
\* satisfies its equation; the equation holds because such a function
\* exists on every prefix 0..k.  A k without one would have a least such
\* k (less-than is well founded on Nat), and that least k is neither 0 nor
\* one more than a k that has one.
LEMMA PrefixSumsDef ==
    ASSUME NEW S, NEW c \in Seq(S)
    PROVE  /\ PrefixSums(c)[0] = 0
           /\ \A i \in 1..Len(c) : PrefixSums(c)[i] = PrefixSums(c)[i - 1] + c[i]
<1> DEFINE Eq(g, k) == g = [i \in 0..k |-> IF i = 0 THEN 0 ELSE g[i - 1] + c[i]]
           T == {k \in 0..Len(c) : ~\E g : Eq(g, k)}
           R == OpToRel(<, Nat)
<1>1. T = {}
  <2> SUFFICES ASSUME T # {} PROVE FALSE
    OBVIOUS
  <2>0. T \subseteq Nat
    BY DEF T
  <2>1. \E x \in T : \A y \in T : ~(<<y, x>> \in R)
    BY <2>0, NatLessThanWellFounded, WFMin DEF R
  <2>2. PICK x \in T : \A y \in T : ~(<<y, x>> \in R)
    BY <2>1
  <2>3. x \in 0..Len(c) /\ ~\E g : Eq(g, x)
    BY <2>2 DEF T
  <2>4. \A y \in 0..Len(c) : y < x => \E g : Eq(g, y)
    <3>1. \A y \in 0..Len(c) : y < x => <<y, x>> \in R
      BY <2>3 DEF R, OpToRel
    <3>. QED
      BY <2>2, <3>1, Zenon DEF T
  <2>5. CASE x = 0
    <3>1. Eq([i \in 0..0 |-> 0], 0)
      BY DEF Eq
    <3>. QED
      BY <2>3, <2>5, <3>1
  <2>6. CASE x # 0
    <3>0. x - 1 \in 0..Len(c) /\ x - 1 < x
      BY <2>3, <2>6
    <3>1. PICK g : Eq(g, x - 1)
      BY <2>4, <3>0, Zenon
    <3> DEFINE h == [i \in 0..x |-> IF i = x THEN g[x - 1] + c[x] ELSE g[i]]
    <3>2. Eq(h, x)
      <4>1. \A i \in 0..(x - 1) : g[i] = IF i = 0 THEN 0 ELSE g[i - 1] + c[i]
        BY <3>1 DEF Eq
      <4>2. \A i \in 0..x : h[i] = IF i = 0 THEN 0 ELSE h[i - 1] + c[i]
        BY <2>3, <2>6, <4>1 DEF h
      <4>. QED
        BY <4>2 DEF Eq, h
    <3>. QED
      BY <2>3, <3>2
  <2>. QED
    BY <2>5, <2>6
<1>2. \E g : Eq(g, Len(c))
  BY <1>1 DEF T
<1>3. Eq(PrefixSums(c), Len(c))
  BY <1>2 DEF PrefixSums, Eq
<1>. QED
  BY <1>3 DEF Eq

-----------------------------------------------------------------------------
(* Type correctness.                                                       *)

\* The initial state of FetchMetrics is well typed: the stream is a
\* sequence of records, the reader's cursor stays within it and the
\* accumulators are numbers.
LEMMA TypeInit == Init => TypeOK
BY DEF Init, TypeOK, EmptyBody, BodyType, StatType, NoError, TransportErrors, ParseErrors

\* Every step of FetchMetrics, and every step of the peer, preserves the types.
LEMMA TypeStep == TypeOK /\ [Next]_vars => TypeOK'
  <2> SUFFICES ASSUME TypeOK, [Next]_vars PROVE TypeOK'
    OBVIOUS
  <2> USE DEF TypeOK, BodyType, StatType, NoError, TransportErrors, ParseErrors
  <2>1. CASE FetchTCP
    BY <2>1 DEF FetchTCP, Fail, Return
  <2>2. CASE FetchSocket
    BY <2>2 DEF FetchSocket, Fail, Return
  <2>3. CASE PeerSend
    BY <2>3 DEF PeerSend
  <2>4. CASE ReadShort
    BY <2>4 DEF ReadShort, Fail, Return
  <2>5. CASE SkipRow
    BY <2>5 DEF SkipRow, RowAvailable
  <2>6. CASE ReadUnparsable
    BY <2>6 DEF ReadUnparsable, Fail, Return
  <2>7. CASE AddBackend
    <3>1. Row \in RowType
      BY <2>7 DEF AddBackend, RowAvailable, Row
    <3>2. \A m \in Metrics : Row.cell[m] \in Nat
      BY <3>1, <2>7 DEF AddBackend, RowType, Cells
    <3>3. \A m \in Metrics : Get(stat, m) \in Nat
      BY DEF Get
    <3>4. stat' \in [Metrics -> Nat]
      BY <3>2, <3>3, <2>7 DEF AddBackend
    <3>. QED
      BY <3>4, <2>7 DEF AddBackend, RowAvailable
  <2>8. CASE ReadEOF
    BY <2>8 DEF ReadEOF, Return, AtTail
  <2>9. CASE ReadFailed
    BY <2>9 DEF ReadFailed, Fail, Return
  <2>10. CASE ReadTimeout
    BY <2>10 DEF ReadTimeout, Fail, Return
  <2>11. CASE UNCHANGED vars
    BY <2>11 DEF vars
  <2>. QED
    BY <2>1, <2>2, <2>3, <2>4, <2>5, <2>6, <2>7, <2>8, <2>9, <2>10, <2>11
       DEF Next, PluginStep

\* Every variable of FetchMetrics keeps its type in every reachable state.
LEMMA TypeCorrect == Spec => []TypeOK
BY TypeInit, TypeStep, PTL DEF Spec

-----------------------------------------------------------------------------
(* The verdict of parseStats.                                              *)

\* The inductive invariant: inside parseStats, every record already read
\* was acceptable (otherwise the loop would have returned), and once
\* FetchMetrics has returned, the verdict matches the stream.  ParseVerdict
\* alone is not inductive: ReadEOF needs the first conjunct.
IInv ==
    /\ TypeOK
    /\ pc = "parse" => \A i \in 1..(pos - 1) : RowAccepted(body.rows[i])
    /\ ParseVerdict

LEMMA IInvInit == Init => IInv
<1> SUFFICES ASSUME Init PROVE IInv
  OBVIOUS
<1>1. TypeOK
  BY TypeInit
<1>. QED
  BY <1>1 DEF Init, IInv, ParseVerdict, Parsed, NoError, ParseErrors

\* A record the loop reads and then fails on makes the stream unacceptable.
LEMMA RejectedRow ==
    ASSUME TypeOK, RowAvailable, ~RowAccepted(Row)
    PROVE  ~Accepted(body)
BY DEF TypeOK, RowAvailable, Row, Accepted

LEMMA IInvStep == IInv /\ [Next]_vars => IInv'
<1> SUFFICES ASSUME IInv, [Next]_vars PROVE IInv'
  OBVIOUS
<1>1. TypeOK'
  BY TypeStep DEF IInv
<1> USE DEF IInv, ParseVerdict, Parsed, NoError, ParseErrors
<1>2. CASE FetchTCP
  BY <1>1, <1>2 DEF FetchTCP, Fail, Return, TransportErrors
<1>3. CASE FetchSocket
  BY <1>1, <1>3 DEF FetchSocket, Fail, Return, TransportErrors
<1>4. CASE PeerSend
  BY <1>1, <1>4 DEF PeerSend
<1>5. CASE ReadShort
  <2>1. Row.width \in Nat
    BY <1>5 DEF ReadShort, RowAvailable, Row, TypeOK, BodyType, RowType
  <2>2. ~RowAccepted(Row)
    BY <1>5, <2>1 DEF ReadShort, RowAccepted, MinColumns
  <2>3. ~Accepted(body)
    BY <1>5, <2>2, RejectedRow DEF ReadShort
  <2>. QED
    BY <1>1, <1>5, <2>3 DEF ReadShort, Fail, Return
<1>6. CASE SkipRow
  <2>1. RowAccepted(body.rows[pos])
    BY <1>6 DEF SkipRow, Row, RowAccepted
  <2>2. \A i \in 1..(pos' - 1) : RowAccepted(body'.rows[i])
    BY <1>6, <2>1 DEF SkipRow, RowAvailable, TypeOK
  <2>. QED
    BY <1>1, <1>6, <2>2 DEF SkipRow
<1>7. CASE ReadUnparsable
  <2>1. ~RowAccepted(Row)
    BY <1>7 DEF ReadUnparsable, RowAccepted
  <2>2. ~Accepted(body)
    BY <1>7, <2>1, RejectedRow DEF ReadUnparsable
  <2>. QED
    BY <1>1, <1>7, <2>2 DEF ReadUnparsable, Fail, Return
<1>8. CASE AddBackend
  <2>1. RowAccepted(body.rows[pos])
    BY <1>8 DEF AddBackend, Row, RowAccepted
  <2>2. \A i \in 1..(pos' - 1) : RowAccepted(body'.rows[i])
    BY <1>8, <2>1 DEF AddBackend, RowAvailable, TypeOK
  <2>. QED
    BY <1>1, <1>8, <2>2 DEF AddBackend
<1>9. CASE ReadEOF
  <2>1. Accepted(body)
    BY <1>9 DEF ReadEOF, AtTail, Accepted
  <2>. QED
    BY <1>1, <1>9, <2>1 DEF ReadEOF, Return, AtTail
<1>10. CASE ReadFailed
  <2>1. ~Accepted(body)
    BY <1>10 DEF ReadFailed, Accepted
  <2>. QED
    BY <1>1, <1>10, <2>1 DEF ReadFailed, Fail, Return, AtTail
<1>11. CASE ReadTimeout
  <2>1. ~Accepted(body')
    BY <1>11 DEF ReadTimeout, Accepted
  <2>. QED
    BY <1>1, <1>11, <2>1 DEF ReadTimeout, Fail, Return
<1>12. CASE UNCHANGED vars
  BY <1>1, <1>12 DEF vars
<1>. QED
  BY <1>2, <1>3, <1>4, <1>5, <1>6, <1>7, <1>8, <1>9, <1>10, <1>11, <1>12
     DEF Next, PluginStep

\* parseStats reports success exactly when every record of the stream is
\* acceptable and the stream ends cleanly: a short record, an unparsable
\* BACKEND cell, an I/O error or a read timeout after valid rows still fails
\* the run, and a failed run returns no partial accumulators (the code's
\* unchecked error from reader.Read relies on the width check to end the
\* loop).
THEOREM ParseVerdictHolds == Spec => []ParseVerdict
<1>1. IInv => ParseVerdict
  BY DEF IInv
<1>. QED
  BY IInvInit, IInvStep, <1>1, PTL DEF Spec

-----------------------------------------------------------------------------
(* The totals parseStats returns.                                          *)

\* What a record adds to a column, for every record of a stream.
LEMMA BackendColumnDef ==
    ASSUME NEW rows \in Seq(RowType), NEW m \in Metrics
    PROVE  /\ BackendColumn(rows, m) \in Seq(Cells)
           /\ Len(BackendColumn(rows, m)) = Len(rows)
           /\ \A i \in 1..Len(rows) :
                BackendColumn(rows, m)[i] = IF IsBackend(rows[i]) THEN rows[i].cell[m] ELSE 0
<1>1. \A i \in 1..Len(rows) : rows[i].cell[m] \in Cells
  <2> SUFFICES ASSUME NEW i \in 1..Len(rows) PROVE rows[i].cell[m] \in Cells
    OBVIOUS
  <2>1. rows[i] \in RowType
    OBVIOUS
  <2>2. rows[i].cell \in [Metrics -> Cells]
    BY <2>1 DEF RowType
  <2>. QED
    BY <2>2
<1>2. BackendColumn(rows, m) \in [1..Len(rows) -> Cells]
  BY <1>1 DEF BackendColumn, Cells
<1>. QED
  BY <1>2 DEF BackendColumn

\* The running BACKEND sum of a column: zero before the first record, and
\* each record adds its cell if it is a BACKEND row.
LEMMA BackendSumsDef ==
    ASSUME NEW rows \in Seq(RowType), NEW m \in Metrics
    PROVE  /\ PrefixSums(BackendColumn(rows, m))[0] = 0
           /\ \A i \in 1..Len(rows) :
                PrefixSums(BackendColumn(rows, m))[i] =
                    PrefixSums(BackendColumn(rows, m))[i - 1]
                    + (IF IsBackend(rows[i]) THEN rows[i].cell[m] ELSE 0)
<1>1. BackendColumn(rows, m) \in Seq(Cells)
  BY BackendColumnDef
<1>. QED
  BY <1>1, BackendColumnDef, PrefixSumsDef

\* The inductive invariant: inside parseStats, the Go map has a key exactly
\* when a BACKEND row has been read, and each accumulator is the running
\* BACKEND sum of its column over the records read so far.
Accumulated ==
    pc = "parse" =>
        /\ stat = <<>> <=> ~\E i \in 1..(pos - 1) : IsBackend(body.rows[i])
        /\ \A m \in Metrics :
              Get(stat, m) = PrefixSums(BackendColumn(body.rows, m))[pos - 1]

SInv == TypeOK /\ Accumulated /\ ResultIsBackendTotal

LEMMA SInvInit == Init => SInv
BY TypeInit DEF Init, SInv, Accumulated, ResultIsBackendTotal

\* The body parseStats reads is a sequence of records.
LEMMA RowsType ==
    ASSUME NEW b \in BodyType
    PROVE  b.rows \in Seq(RowType)
BY DEF BodyType

LEMMA SInvStep == SInv /\ [Next]_vars => SInv'
<1> SUFFICES ASSUME SInv, [Next]_vars PROVE SInv'
  OBVIOUS
<1>1. TypeOK /\ TypeOK'
  BY TypeStep DEF SInv
<1>2. body.rows \in Seq(RowType) /\ body'.rows \in Seq(RowType)
  BY <1>1, RowsType DEF TypeOK
<1> USE DEF SInv
<1>3. CASE FetchTCP \/ FetchSocket
  <2>1. CASE pc' = "parse"
    <3>1. pos' = 1 /\ stat' = <<>>
      BY <1>3, <2>1 DEF FetchTCP, FetchSocket, Fail, Return
    <3>2. \A m \in Metrics : Get(stat', m) = 0
      BY <3>1 DEF Get
    <3>. QED
      BY <1>1, <1>2, <2>1, <3>1, <3>2, BackendSumsDef
         DEF Accumulated, ResultIsBackendTotal
  <2>2. CASE pc' # "parse"
    BY <1>1, <1>3, <2>2 DEF FetchTCP, FetchSocket, Fail, Return, Accumulated,
       ResultIsBackendTotal, NoError
  <2>. QED
    BY <2>1, <2>2
<1>4. CASE PeerSend
  BY <1>1, <1>4 DEF PeerSend, Accumulated, ResultIsBackendTotal
<1>5. CASE ReadShort \/ ReadUnparsable \/ ReadFailed \/ ReadTimeout
  BY <1>1, <1>5 DEF ReadShort, ReadUnparsable, ReadFailed, ReadTimeout, Fail,
     Return, Accumulated, ResultIsBackendTotal, NoError
<1>6. CASE SkipRow \/ AddBackend
  <2>1. pc = "parse" /\ pc' = "parse" /\ pos \in 1..Len(body.rows) /\ pos' = pos + 1
        /\ body' = body /\ UNCHANGED result
    BY <1>1, <1>6 DEF SkipRow, AddBackend, RowAvailable, TypeOK
  <2>2. \A m \in Metrics :
          PrefixSums(BackendColumn(body.rows, m))[pos] =
              PrefixSums(BackendColumn(body.rows, m))[pos - 1]
              + (IF IsBackend(Row) THEN Row.cell[m] ELSE 0)
    BY <1>2, <2>1, BackendSumsDef DEF Row
  <2>3. \A m \in Metrics : Get(stat, m) \in Nat
    BY <1>1 DEF TypeOK, StatType, Get
  <2>4. CASE SkipRow
    <3>1. ~IsBackend(Row) /\ stat' = stat
      BY <2>4 DEF SkipRow
    <3>2. (\E i \in 1..(pos' - 1) : IsBackend(body'.rows[i]))
            <=> \E i \in 1..(pos - 1) : IsBackend(body.rows[i])
      BY <2>1, <3>1 DEF Row
    <3>3. \A m \in Metrics :
            Get(stat', m) = PrefixSums(BackendColumn(body'.rows, m))[pos' - 1]
      BY <2>1, <2>2, <2>3, <3>1 DEF Accumulated
    <3>. QED
      BY <1>1, <2>1, <3>1, <3>2, <3>3 DEF Accumulated, ResultIsBackendTotal
  <2>5. CASE AddBackend
    <3>1. IsBackend(Row) /\ stat' = [m \in Metrics |-> Get(stat, m) + Row.cell[m]]
      BY <2>5 DEF AddBackend
    <3>2. stat' # <<>> /\ \E i \in 1..(pos' - 1) : IsBackend(body'.rows[i])
      BY <2>1, <3>1 DEF Row, Metrics
    <3>3. \A m \in Metrics :
            Get(stat', m) = PrefixSums(BackendColumn(body'.rows, m))[pos' - 1]
      BY <2>1, <2>2, <3>1 DEF Accumulated, Get
    <3>. QED
      BY <1>1, <2>1, <3>2, <3>3 DEF Accumulated, ResultIsBackendTotal
  <2>. QED
    BY <1>6, <2>4, <2>5
<1>7. CASE ReadEOF
  <2>1. pc = "parse" /\ pos - 1 = Len(body.rows) /\ body' = body /\ pc' = "done"
        /\ result'.stat = stat /\ result'.err = NoError
    BY <1>1, <1>7 DEF ReadEOF, AtTail, Return, TypeOK
  <2>2. \A m \in Metrics : Get(stat, m) = BackendSum(body.rows, m)
    BY <2>1 DEF Accumulated, BackendSum
  <2>3. stat = Totals(body.rows)
    <3>1. CASE \E i \in 1..Len(body.rows) : IsBackend(body.rows[i])
      <4>1. stat \in [Metrics -> Nat]
        BY <1>1, <2>1, <3>1 DEF Accumulated, TypeOK, StatType
      <4>2. stat = [m \in Metrics |-> BackendSum(body.rows, m)]
        BY <2>2, <4>1 DEF Get
      <4>. QED
        BY <3>1, <4>2 DEF Totals
    <3>2. CASE ~\E i \in 1..Len(body.rows) : IsBackend(body.rows[i])
      <4>1. stat = <<>>
        BY <2>1, <3>2 DEF Accumulated
      <4>. QED
        BY <3>2, <4>1 DEF Totals
    <3>. QED
      BY <3>1, <3>2
  <2>4. ResultIsBackendTotal'
    BY <2>1, <2>3 DEF ResultIsBackendTotal
  <2>. QED
    BY <1>1, <2>1, <2>4 DEF Accumulated
<1>8. CASE UNCHANGED vars
  BY <1>1, <1>8 DEF vars, Accumulated, ResultIsBackendTotal
<1>. QED
  BY <1>3, <1>4, <1>5, <1>6, <1>7, <1>8 DEF Next, PluginStep

\* A successful parseStats returns, for each of the four metrics, the sum
\* of its column over exactly the BACKEND rows of the stream, and no key at
\* all when the stream has none: FRONTEND and server rows are skipped, the
\* first BACKEND row creates the keys of the Go map, and every later one
\* adds to them.
THEOREM ResultIsBackendTotalHolds == Spec => []ResultIsBackendTotal
<1>1. SInv => ResultIsBackendTotal
  BY DEF SInv
<1>. QED
  BY SInvInit, SInvStep, <1>1, PTL DEF Spec

-----------------------------------------------------------------------------
(* FetchMetrics implements the plugin contract.                            *)

\* A peer that may send a body may also stall after any prefix of it: the
\* stream a read timeout leaves (the records read so far, then an error) is
\* one the peer could have sent.
TruncationClosed ==
    \A b \in Bodies : \A n \in 0..Len(b.rows) :
        [rows |-> SubSeq(b.rows, 1, n), tail |-> ReadError] \in Bodies

\* The invariant the refinement rests on: the verdict, the totals, and the
\* stream being read is one the peer may send.
RInv ==
    /\ IInv
    /\ SInv
    /\ pc = "parse" => body \in Bodies

LEMMA RInvInit == Init => RInv
BY IInvInit, SInvInit DEF Init, RInv

LEMMA RInvStep ==
    ASSUME TruncationClosed
    PROVE  RInv /\ [Next]_vars => RInv'
<1> SUFFICES ASSUME RInv, [Next]_vars PROVE RInv'
  OBVIOUS
<1>1. IInv' /\ SInv'
  BY IInvStep, SInvStep DEF RInv
<1>2. CASE FetchTCP \/ FetchSocket
  BY <1>1, <1>2 DEF FetchTCP, FetchSocket, Fail, Return, RInv
<1>3. CASE pc' # "parse"
  BY <1>1, <1>3 DEF RInv
<1>4. CASE pc' = "parse" /\ ~(FetchTCP \/ FetchSocket)
  <2>1. pc = "parse" /\ body' = body
    BY <1>4 DEF Next, PluginStep, vars, ReadShort, SkipRow, ReadUnparsable, AddBackend,
       ReadEOF, ReadFailed, ReadTimeout, PeerSend, Fail, Return, AtTail, RowAvailable
  <2>. QED
    BY <1>1, <2>1 DEF RInv
<1>. QED
  BY <1>2, <1>3, <1>4

\* The initial state of FetchMetrics maps to the contract's initial state.
LEMMA ContractInit == Init => Contract!Init
BY DEF Init, Contract!Init, Contract!Running, Phase, Out

\* Every step of FetchMetrics maps to a step of the contract or to a
\* stutter.
LEMMA ContractStep ==
    ASSUME TruncationClosed
    PROVE  RInv /\ [Next]_vars => [Contract!Next]_Contract!cvars
<1> SUFFICES ASSUME RInv, [Next]_vars PROVE [Contract!Next]_Contract!cvars
  OBVIOUS
<1>0. TypeOK /\ IInv' /\ SInv'
  BY IInvStep, SInvStep DEF RInv, IInv
<1>1. CASE FetchTCP \/ FetchSocket
  <2>1. CASE pc' = "parse"
    BY <1>1, <2>1 DEF FetchTCP, FetchSocket, Fail, Return, Contract!Fetch, Contract!Next,
       Phase, Out
  <2>2. CASE pc' # "parse"
    BY <1>1, <2>2 DEF FetchTCP, FetchSocket, Fail, Return, Contract!FetchFail,
       Contract!Failed, Contract!Next, Phase, Out, NoError, TransportErrors
  <2>. QED
    BY <2>1, <2>2
<1>2. CASE PeerSend \/ SkipRow \/ AddBackend
  BY <1>2 DEF PeerSend, SkipRow, AddBackend, RowAvailable, Contract!cvars, Phase, Out
<1>3. CASE ReadShort \/ ReadUnparsable \/ ReadFailed \/ ReadTimeout
  <2>1. pc = "parse" /\ pc' = "done" /\ result'.err # NoError /\ result'.err \in ParseErrors
        /\ UNCHANGED <<useSocket, uriOK>>
    BY <1>3 DEF ReadShort, ReadUnparsable, ReadFailed, ReadTimeout, Fail, Return,
       RowAvailable, AtTail, NoError, ParseErrors
  <2>2. body' \in Bodies
    <3>1. body \in Bodies
      BY <2>1 DEF RInv
    <3>2. CASE ReadTimeout
      <4>1. pos - 1 \in 0..Len(body.rows)
        BY <1>0 DEF TypeOK
      <4>. QED
        BY <3>1, <3>2, <4>1 DEF TruncationClosed, ReadTimeout
    <3>. QED
      BY <1>3, <3>1, <3>2 DEF ReadShort, ReadUnparsable, ReadFailed
  <2>3. ~Accepted(body')
    BY <1>0, <2>1 DEF IInv, ParseVerdict, Parsed
  <2>4. Contract!Fail
    BY <2>1, <2>2, <2>3 DEF Contract!Fail, Contract!Failed, Phase, Out, Return, Fail
  <2>. QED
    BY <2>4 DEF Contract!Next
<1>4. CASE ReadEOF
  <2>1. pc = "parse" /\ pc' = "done" /\ result'.err = NoError /\ result'.stat = stat
        /\ UNCHANGED <<useSocket, uriOK, body>>
    BY <1>4 DEF ReadEOF, AtTail, Return
  <2>2. Accepted(body) /\ stat = Totals(body.rows)
    BY <1>0, <2>1 DEF IInv, ParseVerdict, Parsed, SInv, ResultIsBackendTotal
  <2>3. Contract!Emit
    BY <2>1, <2>2 DEF Contract!Emit, Phase, Out
  <2>. QED
    BY <2>3 DEF Contract!Next
<1>5. CASE UNCHANGED vars
  BY <1>5 DEF vars, Contract!cvars, Phase, Out
<1>. QED
  BY <1>1, <1>2, <1>3, <1>4, <1>5 DEF Next, PluginStep

\* Every behaviour of FetchMetrics, over either transport and whatever the
\* peer sends, is a behaviour of the plugin contract: the stream is fetched
\* once, then either the BACKEND sums of an acceptable stream are emitted
\* or the run fails with nothing emitted.  The hypothesis says the peer may
\* stall after any prefix of a body it may send.
THEOREM ImplementsContractHolds ==
    ASSUME TruncationClosed
    PROVE  Spec => ImplementsContract
<1>1. Spec => []RInv
  BY RInvInit, RInvStep, PTL DEF Spec
<1>. QED
  BY <1>1, ContractInit, ContractStep, PTL DEF Spec, ImplementsContract, Contract!Spec
=============================================================================
