----------------------------- MODULE MCHistory -----------------------------
(* Small instances of History for TLC. *)
EXTENDS History, TLC

Kind(caller, tool, decision, latency) ==
    [caller |-> caller, tool |-> tool, decision |-> decision, latency |-> latency,
     requestBytes |-> latency + 1, responseBytes |-> 2]
SomeKinds ==
    {Kind("local", "read", "failed", 4), Kind("bot", "read", "denied", 2)}

\* What earlier sessions left: a caller with three latencies, and an old file.
Earlier(id, at, kind) == [id |-> id, at |-> at] @@ kind
SomeFiles ==
    {{Earlier(1, -5, Kind("local", "read", "failed", 4)),
      Earlier(2, -2, Kind("local", "read", "allowed", 9)),
      Earlier(3, -1, Kind("local", "read", "allowed", 2))},
     {Earlier(1, -9, Kind("bot", "read", "allowed", 3)),
      Earlier(2, -4, Kind("local", "write", "cancelled", 7)),
      Earlier(3, 0, Kind("local", "read", "allowed", 5))}}

LastDay == [since |-> Default, until |-> Default, tool |-> AnyValue, caller |-> AnyValue]
Typed(at, text) == [at |-> at, text |-> text]
SomeRequests ==
    {LastDay,
     [LastDay EXCEPT !.since = Stamped(-5), !.until = Stamped(1), !.caller = "local"],
     [LastDay EXCEPT !.since = Typed(-2, WithoutMilliseconds(-2)),
                     !.until = Typed(0, WithoutMilliseconds(0))],
     [LastDay EXCEPT !.since = Typed(-4, WithOffset(-4, 0)), !.until = Typed(0, WithOffset(0, 2))]}
Symmetry == Permutations(Writers)
=============================================================================
