------------------------------ MODULE Redrive ------------------------------
(***************************************************************************)
(* What replay promises, with no database, lease, clock or statement in    *)
(* sight: a captured record is taken by one invocation at a time, which    *)
(* sends its call at most once and then either settles the record for good *)
(* or, if it never reached the tool or died, gives it back.  A record can  *)
(* be called again only after it was given back.                           *)
(***************************************************************************)
CONSTANTS Records, Replayers

VARIABLES
    phase,  \* the life of a record
    calls   \* who has sent the call of which record

Init ==
    /\ phase = [r \in Records |-> "absent"]
    /\ calls = {}

Become(r, from, to) ==
    /\ phase[r] = from
    /\ phase' = [phase EXCEPT ![r] = to]

Capture(r) == Become(r, "absent", "pending") /\ UNCHANGED calls
Take(r) == Become(r, "pending", "taken") /\ UNCHANGED calls
GiveBack(r) == Become(r, "taken", "pending") /\ UNCHANGED calls

Send(p, r) ==
    /\ Become(r, "taken", "called")
    /\ <<p, r>> \notin calls
    /\ calls' = calls \cup {<<p, r>>}

\* The outcome of the call is recorded: the record is never called again.
Settle(r) == Become(r, "called", "replayed") /\ UNCHANGED calls

\* The invocation died with the call out: nobody knows whether it was executed.
Lose(r) == Become(r, "called", "pending") /\ UNCHANGED calls

Next ==
    \E r \in Records :
        \/ Capture(r) \/ Take(r) \/ GiveBack(r) \/ Settle(r) \/ Lose(r)
        \/ \E p \in Replayers : Send(p, r)

Spec == Init /\ [][Next]_<<phase, calls>>
=============================================================================
