------------------------------- MODULE PhpFpm -------------------------------
(***************************************************************************)
(* One invocation of mackerel-plugin-php-fpm: FetchMetrics calls getStatus *)
(* (an HTTP GET of the status page, optionally over FastCGI, with          *)
(* http.Client Timeout set from -timeout seconds), unmarshals the body     *)
(* into a *PhpFpmStatus ignoring the error, and dereferences the result to *)
(* return nine uint64 fields.                                              *)
(*                                                                         *)
(* The body is abstracted to what json.Unmarshal distinguishes: text that  *)
(* is not valid JSON, the literal null, valid JSON that is not an object   *)
(* (the struct is allocated and left zero), or an object whose status     *)
(* fields are present with a number, present with a value that does not  *)
(* fit a uint64 (a type error, skipped), or absent.                        *)
(***************************************************************************)
EXTENDS Naturals

CONSTANTS
    Fields,         \* the json names of the fields FetchMetrics returns
    Statuses,       \* HTTP status codes the server may answer with
    Objects,        \* the JSON objects the server may send (see IsObject)
    Mistyped,       \* a field value that does not fit uint64 ("-1", "x")
    TimeoutModes    \* the values -timeout may take, in seconds

\* A status object maps some fields to a number or to a mistyped value.
IsObject(o) == DOMAIN o \subseteq Fields /\ \A f \in DOMAIN o : o[f] \in Nat \cup {Mistyped}

BodyKinds == {"invalid", "null", "nonObject", "object"}
ResponseType == [status : Statuses, kind : BodyKinds, object : Objects]

ASSUME ConstantsAssumption ==
    /\ Mistyped \notin Nat
    /\ \A o \in Objects : IsObject(o)
    /\ Objects # {}
    /\ Statuses \subseteq Nat /\ Statuses # {}
    /\ TimeoutModes \subseteq Nat /\ TimeoutModes # {}

VARIABLES
    timeout,    \* p.Timeout
    pc,         \* "start", "wait" (in client.Do / ReadAll), "decode", "done"
    response,   \* the status and body the server sent
    stat,       \* the map FetchMetrics returns
    exit        \* "running", "ok", "error" (returned error) or "panic"

vars == <<timeout, pc, response, stat, exit>>

NoResponse == [status |-> 200, kind |-> "invalid", object |-> CHOOSE o \in Objects : TRUE]

Finish(outcome) ==
    /\ pc' = "done"
    /\ exit' = outcome

-----------------------------------------------------------------------------
\* http.NewRequest on -url (a URL that does not parse is an error), the
\* User-Agent header, then client.Do.
SendRequest ==
    /\ pc = "start"
    /\ \/ Finish("error")
       \/ /\ pc' = "wait"
          /\ UNCHANGED exit
    /\ UNCHANGED <<timeout, response, stat>>

\* The server answers client.Do and ReadAll completes, or the connection
\* fails (refused, reset): an error, returned.  Any status is accepted.
Respond ==
    /\ pc = "wait"
    /\ \/ /\ Finish("error")
          /\ UNCHANGED response
       \/ /\ \E r \in ResponseType : response' = r
          /\ pc' = "decode"
          /\ UNCHANGED exit
    /\ UNCHANGED <<timeout, stat>>

\* Seeded bug for mutation testing: a client whose Timeout is never set.
DeadlineNeverSet ==
    /\ FALSE
    /\ pc = "wait"
    /\ timeout > 0
    /\ Finish("error")
    /\ UNCHANGED <<timeout, response, stat>>

\* http.Client Timeout covers the request and reading the body; a Timeout
\* of zero means no timeout at all.
Deadline ==
    /\ pc = "wait"
    /\ timeout > 0
    /\ Finish("error")
    /\ UNCHANGED <<timeout, response, stat>>

\* Seeded bug for mutation testing: a mistyped value kept as it was sent.
FieldValueUnchecked(o, f) == IF f \in DOMAIN o THEN o[f] ELSE 0

\* The value json.Unmarshal leaves in field f: the number when the field is
\* present and fits, the zero value otherwise.
FieldValue(o, f) == IF f \in DOMAIN o /\ o[f] \in Nat THEN o[f] ELSE 0

\* json.Unmarshal(body, &status), error ignored, then FetchMetrics reads
\* status.TotalProcesses, ...: invalid JSON and null leave status nil and the
\* dereference panics; any other JSON allocates the struct.
Decode ==
    /\ pc = "decode"
    /\ \/ /\ response.kind \in {"invalid", "null"}
          /\ Finish("panic")
          /\ UNCHANGED stat
       \/ /\ response.kind = "nonObject"
          /\ stat' = [f \in Fields |-> 0]
          /\ Finish("ok")
       \/ /\ response.kind = "object"
          /\ stat' = [f \in Fields |-> FieldValue(response.object, f)]
          /\ Finish("ok")
    /\ UNCHANGED <<timeout, response>>

-----------------------------------------------------------------------------
Init ==
    /\ timeout \in TimeoutModes
    /\ pc = "start"
    /\ response = NoResponse
    /\ stat = <<>>
    /\ exit = "running"

PluginStep == SendRequest \/ Deadline \/ Decode

Next == PluginStep \/ Respond

\* The process and its timer are always runnable; the server is not assumed
\* to answer.
Spec == Init /\ [][Next]_vars /\ WF_vars(PluginStep)

-----------------------------------------------------------------------------
TypeOK ==
    /\ timeout \in Nat
    /\ pc \in {"start", "wait", "decode", "done"}
    /\ response \in ResponseType \cup {NoResponse}
    /\ stat \in [Fields -> Nat] \cup {<<>>}
    /\ exit \in {"running", "ok", "error", "panic"}

\* NoPanic: every failure of FetchMetrics is a returned error reported as one
\* diagnostic line, never a nil-pointer panic.
NoPanic == exit # "panic"

\* EmitsOnlyPresent: a successful run reports only the fields the status
\* page really contained (the spec: a run emits the metrics present in the
\* payload, and a missing field is not emitted as zero).
EmitsOnlyPresent ==
    exit = "ok" =>
        /\ response.kind = "object"
        /\ \A f \in Fields : f \in DOMAIN response.object /\ response.object[f] \in Nat

\* NoEmitOnHTTPError: a status page answering with a non-success status
\* fails the run with nothing output (the spec's HTTP 500 scenario).
NoEmitOnHTTPError == exit = "ok" => response.status = 200

\* Termination: every invocation ends, whatever the server does.
Termination == <>(pc = "done")
=============================================================================
