--------------------------- MODULE HAProxyContract ---------------------------
(***************************************************************************)
(* The HAProxy plugin's FetchMetrics implements the plugin contract.  The  *)
(* refinement mapping reads the contract's phase off pc, the payload off   *)
(* the stream parseStats reads, and the outcome off what FetchMetrics      *)
(* returned.  A stream is acceptable when every record is (Accepted), and *)
(* its sample set is the BACKEND column sums (Totals).                    *)
(***************************************************************************)
EXTENDS HAProxy

Phase == IF pc = "start" THEN "start"
         ELSE IF pc = "parse" THEN "fetched"
         ELSE "done"

Out == IF pc # "done" THEN [status |-> "running", stat |-> <<>>]
       ELSE IF result.err = NoError THEN [status |-> "emitted", stat |-> result.stat]
       ELSE [status |-> "failed", stat |-> <<>>]

Contract == INSTANCE PluginContract
                WITH Configs <- SocketModes \X URIModes,
                     Payloads <- Bodies, NoPayload <- EmptyBody,
                     Valid <- LAMBDA c, b : Accepted(b),
                     Extract <- LAMBDA c, b : Totals(b.rows),
                     config <- <<useSocket, uriOK>>, phase <- Phase, payload <- body, out <- Out

\* ImplementsContract: every behaviour of FetchMetrics, over either
\* transport and whatever the peer sends, is a behaviour of the plugin
\* contract: the stream fetched once, then either the BACKEND sums of an
\* acceptable stream emitted, or a failure with nothing emitted.
ImplementsContract == Contract!Spec
=============================================================================
