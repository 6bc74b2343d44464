--------------------------- MODULE MCCallPipeline ---------------------------
(* Small instances of CallPipeline for TLC. *)
EXTENDS CallPipeline, TLC

Plain == [verdict |-> "allowed", idempotent |-> FALSE, captureToolErrors |-> FALSE,
          keyed |-> FALSE]
Idempotent == [Plain EXCEPT !.idempotent = TRUE]
Keyed == [Plain EXCEPT !.keyed = TRUE]
KeyedRetried == [Keyed EXCEPT !.captureToolErrors = TRUE, !.idempotent = TRUE]
Denied == [Keyed EXCEPT !.verdict = "denied"]

JustPlain == {Plain}
JustIdempotent == {Idempotent}
Mixed == {Plain, KeyedRetried, Denied}
Symmetry == Permutations(Calls)
=============================================================================
