------------------------------ MODULE Classify ------------------------------
(***************************************************************************)
(* How one attempt of a `tools/call` can end, the failure class each ending *)
(* gets, whether the class may be retried, and which classes are recorded. *)
(***************************************************************************)
EXTENDS Naturals

Transports == {"stdio", "http"}

Results == {"result", "tool_error", "input_required"}

\* Endings of a request that was written to the upstream: the result, a
\* JSON-RPC error that no retry can mend (-32700, -32600, -32601, -32602), any
\* other JSON-RPC error, the timeout; over HTTP also a 401 or 403, another
\* HTTP status, and a failing fetch.
UpstreamEndings(transport) ==
    Results \cup {"bad_request", "rpc_error", "timeout"}
            \cup (IF transport = "http" THEN {"http_auth", "http_status", "fetch_failed"} ELSE {})

\* The other endings: the link was down or failed before the request left, the
\* connection closed while it was open, the client cancelled it.
Outcomes == UpstreamEndings("http") \cup {"unsent", "closed", "cancelled"}

PreSend == {"unsent", "fetch_failed"}

ClassOf(outcome) ==
    CASE outcome = "result"                         -> "ok"
      [] outcome \in PreSend                        -> "transport_pre_execution"
      [] outcome \in {"closed", "http_status"}      -> "transport_post_execution"
      [] outcome = "rpc_error"                      -> "upstream_error"
      [] outcome \in {"bad_request", "http_auth"}   -> "non_retryable"
      [] OTHER                                      -> outcome

MayHaveExecuted == {"timeout", "upstream_error", "transport_post_execution"}

\* Mutant of Retryable: a timeout is taken for a transient transport failure.
Retryable_Timeouts(outcome, idempotent) ==
    \/ ClassOf(outcome) \in {"transport_pre_execution", "timeout"}
    \/ ClassOf(outcome) \in MayHaveExecuted /\ idempotent

Retryable(outcome, idempotent) ==
    \/ ClassOf(outcome) = "transport_pre_execution"
    \/ ClassOf(outcome) \in MayHaveExecuted /\ idempotent

\* The classes failureClassFromD4 maps to a persisted class.
Recorded(outcome) ==
    ClassOf(outcome) \in
        MayHaveExecuted \cup {"transport_pre_execution", "non_retryable", "tool_error"}
=============================================================================
