------------------------------- MODULE HAProxy -------------------------------
(***************************************************************************)
(* One invocation of HAProxyPlugin.FetchMetrics (mackerel-plugin-haproxy): *)
(* the choice between the HTTP stats page and the stats Unix socket, the   *)
(* transport's early returns, and the parseStats loop that reads the CSV   *)
(* stats one record at a time, skips every row whose svname is not         *)
(* BACKEND, aborts on a record with fewer than 60 columns or an            *)
(* unparsable number, and sums four columns of the BACKEND rows.           *)
(*                                                                         *)
(* The response body is data chosen by the peer when the connection is     *)
(* established; the peer then makes it available record by record         *)
(* (variable sent), and may stop sending at any point.  A read that times  *)
(* out, or an I/O error, is seen by encoding/csv as a sticky error: Read   *)
(* returns it with a record of fewer than 60 fields (a single empty field  *)
(* in current Go), which parseStats does not tell apart from a short       *)
(* record.                                                                 *)
(***************************************************************************)
EXTENDS Naturals, Sequences

CONSTANTS
    Rows,          \* the CSV records the peer may send
    Bodies,        \* the response bodies the peer may send
    MaxRows,       \* bound on the number of records of a body
    NotANumber,    \* a cell strconv.ParseFloat rejects (e.g. "")
    EOF,           \* the stream ends cleanly (csv.Reader returns io.EOF)
    ReadError,     \* the stream ends with an I/O error or a read timeout
    SocketModes,   \* the values -socket may give: "" (FALSE) or a path (TRUE)
    URIModes       \* whether http.NewRequest accepts the URI

\* The four accumulators of parseStats; a record's cell[m] is the column
\* summed into m: columns[7], [8], [9] and [13] respectively.
Metrics == {"sessions", "bytes_in", "bytes_out", "connection_errors"}

\* parseStats rejects a record with fewer columns than this.
MinColumns == 60

Cells == Nat \cup {NotANumber}
RowType == [width : Nat, svname : {"BACKEND", "FRONTEND"}, cell : [Metrics -> Cells]]
BodyType == [rows : Seq(Rows), tail : {EOF, ReadError}]

\* The errors FetchMetrics can return, by the line that returns them.
TransportErrors == {"request", "do", "status", "dial"}
ParseErrors == {"tooShort", "cannotGet"}
NoError == "none"

ASSUME ConstantsAssumption ==
    /\ Rows \subseteq RowType
    /\ Bodies \subseteq BodyType
    /\ MaxRows \in Nat
    /\ \A b \in Bodies : Len(b.rows) <= MaxRows
    /\ NotANumber \notin Nat
    /\ EOF # ReadError
    /\ SocketModes \subseteq BOOLEAN /\ SocketModes # {}
    /\ URIModes \subseteq BOOLEAN /\ URIModes # {}

VARIABLES
    useSocket,  \* p.Socket != ""
    uriOK,      \* http.NewRequest succeeds on p.URI + ";csv;norefresh"
    pc,         \* "start", "parse" (inside parseStats) or "done" (returned)
    body,       \* the stream parseStats reads
    sent,       \* how many records (plus the tail) the peer has made available
    pos,        \* index of the next record reader.Read returns
    stat,       \* the Go map stat of parseStats
    result      \* what FetchMetrics returned: [err, stat]

vars == <<useSocket, uriOK, pc, body, sent, pos, stat, result>>

EmptyBody == [rows |-> <<>>, tail |-> EOF]

\* The value a missing key of a Go map[string]float64 reads as.
Get(s, m) == IF m \in DOMAIN s THEN s[m] ELSE 0

\* A row parseStats sums: svname is BACKEND.
IsBackend(r) == r.svname = "BACKEND"

Return(err, s) ==
    /\ pc' = "done"
    /\ result' = [err |-> err, stat |-> s]

Fail(err) == Return(err, <<>>)

-----------------------------------------------------------------------------
(* FetchMetrics with p.Socket = "": fetchMetricsFromTCP.  NewRequest may   *)
(* reject the URI, client.Do may fail (refused, TLS, 5 s timeout), a       *)
(* status other than 200 is an error, otherwise the body is parsed.        *)
FetchTCP ==
    /\ pc = "start"
    /\ ~useSocket
    /\ \/ /\ ~uriOK
          /\ Fail("request")
          /\ UNCHANGED <<body, sent, pos, stat>>
       \/ /\ uriOK
          /\ \/ /\ Fail("do")
                /\ UNCHANGED <<body, sent, pos, stat>>
             \/ /\ Fail("status")
                /\ UNCHANGED <<body, sent, pos, stat>>
             \/ /\ \E b \in Bodies : body' = b
                /\ pc' = "parse"
                /\ sent' = 0 /\ pos' = 1 /\ stat' = <<>>
                /\ UNCHANGED result
    /\ UNCHANGED <<useSocket, uriOK>>

(* FetchMetrics with p.Socket set: fetchMetricsFromSocket.  A failed Dial  *)
(* is returned; the result of writing "show stat" is ignored, so a peer    *)
(* that drops the request shows up only as an empty or broken body.       *)
FetchSocket ==
    /\ pc = "start"
    /\ useSocket
    /\ \/ /\ Fail("dial")
          /\ UNCHANGED <<body, sent, pos, stat>>
       \/ /\ \E b \in Bodies : body' = b
          /\ pc' = "parse"
          /\ sent' = 0 /\ pos' = 1 /\ stat' = <<>>
          /\ UNCHANGED result
    /\ UNCHANGED <<useSocket, uriOK>>

\* The peer makes one more record, or the end of the stream, available.
PeerSend ==
    /\ pc = "parse"
    /\ sent <= Len(body.rows)
    /\ sent' = sent + 1
    /\ UNCHANGED <<useSocket, uriOK, pc, body, pos, stat, result>>

-----------------------------------------------------------------------------
(* One iteration of the parseStats loop on an available record.            *)
RowAvailable == pc = "parse" /\ pos <= sent /\ pos <= Len(body.rows)
Row == body.rows[pos]

\* len(columns) < 60: the whole parse fails.
ReadShort ==
    /\ RowAvailable
    /\ Row.width < MinColumns
    /\ Fail("tooShort")
    /\ UNCHANGED <<useSocket, uriOK, body, sent, pos, stat>>

\* columns[1] != "BACKEND": continue.
SkipRow ==
    /\ RowAvailable
    /\ Row.width >= MinColumns
    /\ ~IsBackend(Row)
    /\ pos' = pos + 1
    /\ UNCHANGED <<useSocket, uriOK, pc, body, sent, stat, result>>

\* One of columns 7, 8, 9, 13 of a BACKEND row is not a number.
ReadUnparsable ==
    /\ RowAvailable
    /\ Row.width >= MinColumns
    /\ IsBackend(Row)
    /\ \E m \in Metrics : Row.cell[m] = NotANumber
    /\ Fail("cannotGet")
    /\ UNCHANGED <<useSocket, uriOK, body, sent, pos, stat>>

\* Seeded bugs of the accumulation, for mutation testing of the properties:
\* the bytes_out block dropped, and columns 8 and 9 read the wrong way round.
AddBackendDroppedBlock ==
    /\ RowAvailable
    /\ Row.width >= MinColumns
    /\ IsBackend(Row)
    /\ \A m \in Metrics : Row.cell[m] # NotANumber
    /\ stat' = [m \in Metrics \ {"bytes_out"} |-> Get(stat, m) + Row.cell[m]]
    /\ pos' = pos + 1
    /\ UNCHANGED <<useSocket, uriOK, pc, body, sent, result>>

SwapBytes(m) == CASE m = "bytes_in" -> "bytes_out"
                  [] m = "bytes_out" -> "bytes_in"
                  [] OTHER -> m

AddBackendSwappedColumns ==
    /\ RowAvailable
    /\ Row.width >= MinColumns
    /\ IsBackend(Row)
    /\ \A m \in Metrics : Row.cell[m] # NotANumber
    /\ stat' = [m \in Metrics |-> Get(stat, m) + Row.cell[SwapBytes(m)]]
    /\ pos' = pos + 1
    /\ UNCHANGED <<useSocket, uriOK, pc, body, sent, result>>

\* stat["sessions"] += data, ... for the four columns of a BACKEND row.
AddBackend ==
    /\ RowAvailable
    /\ Row.width >= MinColumns
    /\ IsBackend(Row)
    /\ \A m \in Metrics : Row.cell[m] # NotANumber
    /\ stat' = [m \in Metrics |-> Get(stat, m) + Row.cell[m]]
    /\ pos' = pos + 1
    /\ UNCHANGED <<useSocket, uriOK, pc, body, sent, result>>

\* Every record has been read and the stream ends.
AtTail == pc = "parse" /\ pos = Len(body.rows) + 1 /\ sent > Len(body.rows)

\* reader.Read returns io.EOF: break, return stat.
ReadEOF ==
    /\ AtTail
    /\ body.tail = EOF
    /\ Return(NoError, stat)
    /\ UNCHANGED <<useSocket, uriOK, body, sent, pos, stat>>

\* Seeded bug: a read error ends the loop like io.EOF does.
ReadFailedAsEOF ==
    /\ AtTail
    /\ body.tail = ReadError
    /\ Return(NoError, stat)
    /\ UNCHANGED <<useSocket, uriOK, body, sent, pos, stat>>

\* reader.Read returns an error the loop does not check, with a record of
\* fewer than 60 fields: the width check ends the parse with "too short".
ReadFailed ==
    /\ AtTail
    /\ body.tail = ReadError
    /\ Fail("tooShort")
    /\ UNCHANGED <<useSocket, uriOK, body, sent, pos, stat>>

\* Seeded bug: an http.Client without Timeout never abandons the read.
ReadTimeoutNoDeadline ==
    /\ FALSE
    /\ pc = "parse"
    /\ ~useSocket
    /\ pos > sent
    /\ body' = [rows |-> SubSeq(body.rows, 1, pos - 1), tail |-> ReadError]
    /\ Fail("tooShort")
    /\ UNCHANGED <<useSocket, uriOK, sent, pos, stat>>

\* The http.Client Timeout (5 s) covers reading the body: while the TCP
\* reader waits for a record, the deadline may fire.  From then on the
\* stream is the records read so far followed by an error.
ReadTimeout ==
    /\ pc = "parse"
    /\ ~useSocket
    /\ pos > sent
    /\ body' = [rows |-> SubSeq(body.rows, 1, pos - 1), tail |-> ReadError]
    /\ Fail("tooShort")
    /\ UNCHANGED <<useSocket, uriOK, sent, pos, stat>>

-----------------------------------------------------------------------------
Init ==
    /\ useSocket \in SocketModes
    /\ uriOK \in URIModes
    /\ pc = "start"
    /\ body = EmptyBody
    /\ sent = 0
    /\ pos = 1
    /\ stat = <<>>
    /\ result = [err |-> NoError, stat |-> <<>>]

\* The steps the plugin process takes; the peer's PeerSend is not among them.
PluginStep ==
    \/ FetchTCP \/ FetchSocket
    \/ ReadShort \/ SkipRow \/ ReadUnparsable \/ AddBackend
    \/ ReadEOF \/ ReadFailed \/ ReadTimeout

Next == PluginStep \/ PeerSend

\* The process is single-threaded and always runnable; the peer is not
\* assumed to make progress.
Spec == Init /\ [][Next]_vars /\ WF_vars(PluginStep)

-----------------------------------------------------------------------------
StatType == [Metrics -> Nat] \cup {<<>>}

TypeOK ==
    /\ useSocket \in BOOLEAN
    /\ uriOK \in BOOLEAN
    /\ pc \in {"start", "parse", "done"}
    /\ body \in BodyType
    /\ sent \in 0..(Len(body.rows) + 1)
    /\ pos \in 1..(Len(body.rows) + 1)
    /\ stat \in StatType
    /\ result \in [err : {NoError} \cup TransportErrors \cup ParseErrors, stat : StatType]

\* The spec's reading of the stats CSV: a record is acceptable when it has
\* at least the minimum width and, if it is a BACKEND row, numbers in the
\* summed columns; a stream is acceptable when all its records are and it
\* ends cleanly.
RowAccepted(r) ==
    /\ r.width >= MinColumns
    /\ IsBackend(r) => \A m \in Metrics : r.cell[m] # NotANumber

Accepted(b) ==
    /\ b.tail = EOF
    /\ \A i \in 1..Len(b.rows) : RowAccepted(b.rows[i])

\* What record i adds to column m: its cell on a BACKEND row, nothing on
\* any other.
BackendColumn(rows, m) ==
    [i \in 1..Len(rows) |-> IF IsBackend(rows[i]) THEN rows[i].cell[m] ELSE 0]

\* The running sums of a sequence of numbers: PrefixSums(c)[i] is the sum
\* of c[1], ..., c[i].
PrefixSums(c) ==
    LET s[i \in 0..Len(c)] == IF i = 0 THEN 0 ELSE s[i - 1] + c[i]
    IN  s

\* The sum of column m over the BACKEND rows of rows.
BackendSum(rows, m) == PrefixSums(BackendColumn(rows, m))[Len(rows)]

\* The accumulators parseStats should return: no key without a BACKEND row.
Totals(rows) ==
    IF \E i \in 1..Len(rows) : IsBackend(rows[i])
    THEN [m \in Metrics |-> BackendSum(rows, m)]
    ELSE <<>>

Parsed == pc = "done" /\ result.err \in {NoError} \cup ParseErrors

\* ParseVerdict: parseStats succeeds exactly when the whole stream is
\* acceptable.  A short record, an unparsable BACKEND cell, an I/O error or
\* a read timeout anywhere in the stream, even after valid rows, fails the
\* run, and a failed run carries no partial accumulators.
ParseVerdict ==
    Parsed =>
        /\ result.err = NoError <=> Accepted(body)
        /\ result.err # NoError => result.stat = <<>>

\* ResultIsBackendTotal: a successful parse returns, for each metric, the
\* sum of its column over exactly the BACKEND rows, and no key at all when
\* the stream has no BACKEND row.
ResultIsBackendTotal ==
    (pc = "done" /\ result.err = NoError) => result.stat = Totals(body.rows)

\* Termination: every invocation of FetchMetrics returns, whatever the peer
\* does (the spec: every transport enforces a bounded wait).
Termination == <>(pc = "done")

\* TerminationOverTCP: an invocation that fetches over HTTP always returns:
\* the client's 5 s timeout ends a stalled connection or body.
TerminationOverTCP == ~useSocket => <>(pc = "done")
=============================================================================
