----------------------------- MODULE MC_HAProxy -----------------------------
(* A small instance of HAProxy: five kinds of record, bodies of up to      *)
(* three records.  The BACKEND rows carry different numbers in each of the *)
(* four summed columns so that a column read from the wrong place changes  *)
(* a total; one BACKEND row is exactly 60 columns wide and the short row  *)
(* 59, the boundary of the width check.                                    *)
EXTENDS HAProxyContract, SequencesExt

CONSTANTS NaN, Eof, RdErr

MCNotANumber == NaN
MCEOF == Eof
MCReadError == RdErr

Cols(s, bi, bo, ce) ==
    [sessions |-> s, bytes_in |-> bi, bytes_out |-> bo, connection_errors |-> ce]

\* Too short: 59 columns (a wrong URI or socket, or a changed format).
ShortRow == [width |-> 59, svname |-> "BACKEND", cell |-> Cols(1, 1, 1, 1)]
\* A FRONTEND row: its connection-error column is empty in HAProxy's output.
FrontRow == [width |-> 62, svname |-> "FRONTEND", cell |-> Cols(3, 3, 3, NaN)]
\* Two BACKEND rows, one at exactly the minimum width.
BackRow1 == [width |-> 60, svname |-> "BACKEND", cell |-> Cols(1, 2, 3, 0)]
BackRow2 == [width |-> 62, svname |-> "BACKEND", cell |-> Cols(2, 0, 1, 1)]
\* A BACKEND row whose last summed column does not parse.
BadBackRow == [width |-> 62, svname |-> "BACKEND", cell |-> Cols(1, 1, 1, NaN)]

MCRows == {ShortRow, FrontRow, BackRow1, BackRow2, BadBackRow}
MCMaxRows == 3
MCBodies == [rows : BoundedSeq(MCRows, MCMaxRows), tail : {Eof, RdErr}]
=============================================================================
