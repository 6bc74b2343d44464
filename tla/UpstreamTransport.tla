-------------------------- MODULE UpstreamTransport --------------------------
(***************************************************************************)
(* UpstreamTransport and its FrameDecoder: the pipe from the child, line    *)
(* framing, the chain of promises that yields between frames, the handlers *)
(* of the SDK, and the child's death racing everything that is written to  *)
(* it.  ClientTransport uses the same decoder.                             *)
(*                                                                         *)
(* Every frame is two pieces, the second of which ends its line; the pipe  *)
(* may be read at any piece.  Microtasks run in the order in which they     *)
(* were queued, and before the next event of the loop.                     *)
(***************************************************************************)
EXTENDS Naturals, Sequences, FiniteSetsExt

CONSTANTS
    Kinds,        \* the frames the child writes: a subset of AllKinds
    MaxFrames     \* bound on the frames it writes

AllKinds == {"response", "notification", "batch", "garbage"}

ASSUME TransportAssumption == Kinds \subseteq AllKinds /\ MaxFrames \in Nat \ {0}

VARIABLES
    child,        \* "none", "failed" (spawn), "running", "dead", or "reaped"
    exitedWell,   \* its exit code is 0 and no signal ended it
    written,      \* the kinds of the frames it wrote, in order
    pipe,         \* pieces it wrote that are not read yet
    stdin,        \* "open" or "ended"
    buffer,       \* the pieces of the line that is not complete yet
    chain,        \* lines whose processLine is yet to start
    tasks,        \* the microtask queue
    handled,      \* (history) the frames processLine has dispatched, 0 for a mangled one
    effects,      \* (history) the frames whose handlers have run
    closing, closed,
    closes,       \* calls of onclose
    blamed,       \* an exit was reported to onerror
    crashed       \* an 'error' event of stdin met no listener

decoderVars == <<buffer, chain, tasks, handled, effects>>
lifeVars == <<stdin, closing, closed, closes, blamed>>
vars == <<child, exitedWell, written, pipe, decoderVars, lifeVars, crashed>>

Pieces(n) == <<[frame |-> n, last |-> FALSE], [frame |-> n, last |-> TRUE]>>
Blank == <<[frame |-> 0, last |-> TRUE]>>

Init ==
    /\ child = "none" /\ exitedWell = FALSE
    /\ written = <<>> /\ pipe = <<>>
    /\ stdin = "open"
    /\ buffer = <<>> /\ chain = <<>> /\ tasks = <<>>
    /\ handled = <<>> /\ effects = <<>>
    /\ closing = FALSE /\ closed = FALSE /\ closes = 0
    /\ blamed = FALSE /\ crashed = FALSE

\* The event loop takes its next event.
NextEvent == ~crashed /\ tasks = <<>>

\* connected
Connected == child # "none" /\ ~closed

-----------------------------------------------------------------------------
\* The child

\* start(): the process is spawned, or its 'error' event will tell.
Start ==
    /\ NextEvent /\ child = "none"
    /\ child' \in {"running", "failed"}
    /\ UNCHANGED <<exitedWell, written, pipe, decoderVars, lifeVars, crashed>>

Write ==
    /\ child = "running" /\ ~crashed
    /\ \/ /\ Len(written) < MaxFrames
          /\ \E kind \in Kinds : written' = Append(written, kind)
          /\ pipe' = pipe \o Pieces(Len(written) + 1)
       \/ pipe = <<>> /\ buffer = <<>> /\ pipe' = Blank /\ UNCHANGED written
    /\ UNCHANGED <<child, exitedWell, decoderVars, lifeVars, crashed>>

\* It may die in the middle of a frame; what is in the pipe stays there.
Die ==
    /\ child = "running" /\ ~crashed
    /\ child' = "dead"
    /\ exitedWell' \in BOOLEAN
    /\ pipe' \in {pipe} \cup
         (IF Len(written) < MaxFrames THEN {Append(pipe, Pieces(Len(written) + 1)[1])} ELSE {})
    /\ UNCHANGED <<written, decoderVars, lifeVars, crashed>>

-----------------------------------------------------------------------------
\* FrameDecoder

Ends(s) == {i \in DOMAIN s : s[i].last}

\* The frame on the line that ends at i: 0 if part of it is missing.
LineAt(s, i) ==
    IF i > 1 /\ s[i - 1] = Pieces(s[i].frame)[1] THEN s[i].frame ELSE 0

\* The k-th of a set of positions.
Nth(S, k) == CHOOSE i \in S : Cardinality({j \in S : j <= i}) = k

\* What is before the last newline is split into lines, blank ones are dropped.
Split(all) ==
    LET ends == {i \in Ends(all) : all[i].frame # 0}
        last == IF Ends(all) = {} THEN 0 ELSE Max(Ends(all))
    IN  [lines |-> [k \in 1..Cardinality(ends) |-> LineAt(all, Nth(ends, k))],
         rest  |-> SubSeq(all, last + 1, Len(all))]

\* Mutant of SplitLines: the rest of the last chunk is not put before the next.
SplitLines_NoRest(rest, chunk) == Split(chunk)

SplitLines(rest, chunk) == Split(rest \o chunk)

Line(n) == [type |-> "line", frame |-> n]
Handler(n) == [type |-> "handler", frame |-> n]
Resume == [type |-> "resume", frame |-> 0]

\* A chunk is read.  processLine of its first line is queued as a microtask,
\* each further one when its predecessor is done.
Read ==
    /\ NextEvent
    /\ \E n \in 1..Len(pipe) :
        LET split == SplitLines(buffer, SubSeq(pipe, 1, n))
        IN  /\ pipe' = SubSeq(pipe, n + 1, Len(pipe))
            /\ buffer' = split.rest
            /\ IF split.lines = <<>> THEN UNCHANGED <<tasks, chain>>
               ELSE tasks' = <<Line(split.lines[1])>> /\ chain' = Tail(split.lines)
    /\ UNCHANGED <<child, exitedWell, written, handled, effects, lifeVars, crashed>>

KindOf(n) == IF n = 0 THEN "garbage" ELSE written[n]

\* Mutant of ProcessLine: no yield between two frames of a chunk.
ProcessLine_NoYield(n) ==
    /\ handled' = Append(handled, n)
    /\ LET next == IF chain = <<>> THEN <<>> ELSE <<Line(Head(chain))>>
           handler == IF KindOf(n) = "notification" THEN <<Handler(n)>> ELSE <<>>
       IN  tasks' = next \o Tail(tasks) \o handler
    /\ chain' = IF chain = <<>> THEN <<>> ELSE Tail(chain)
    /\ effects' = IF KindOf(n) \in {"response", "batch"} THEN Append(effects, n) ELSE effects

\* Mutant of ProcessLine: the error of an unreadable line rejects the chain.
ProcessLine_Rejects(n) ==
    /\ handled' = Append(handled, n)
    /\ IF KindOf(n) = "garbage" THEN tasks' = Tail(tasks) /\ chain' = <<>>
       ELSE /\ tasks' = Tail(tasks) \o
                  (IF KindOf(n) = "notification" THEN <<Handler(n)>> ELSE <<>>) \o <<Resume>>
            /\ UNCHANGED chain
    /\ effects' = IF KindOf(n) \in {"response", "batch"} THEN Append(effects, n) ELSE effects

\* A response settles its request and a batch is relayed at once; the SDK runs
\* the handler of a notification as a microtask.  Then processLine yields.
ProcessLine(n) ==
    /\ handled' = Append(handled, n)
    /\ tasks' = Tail(tasks) \o
            (IF KindOf(n) = "notification" THEN <<Handler(n)>> ELSE <<>>) \o <<Resume>>
    /\ effects' = IF KindOf(n) \in {"response", "batch"} THEN Append(effects, n) ELSE effects
    /\ UNCHANGED chain

RunTask ==
    /\ ~crashed /\ tasks # <<>>
    /\ LET task == Head(tasks)
       IN  \/ task.type = "line" /\ ProcessLine(task.frame)
           \/ /\ task.type = "handler"
              /\ effects' = Append(effects, task.frame)
              /\ tasks' = Tail(tasks)
              /\ UNCHANGED <<chain, handled>>
           \/ /\ task.type = "resume"
              /\ IF chain = <<>> THEN tasks' = Tail(tasks) /\ UNCHANGED chain
                 ELSE tasks' = Append(Tail(tasks), Line(Head(chain))) /\ chain' = Tail(chain)
              /\ UNCHANGED <<handled, effects>>
    /\ UNCHANGED <<child, exitedWell, written, pipe, buffer, lifeVars, crashed>>

-----------------------------------------------------------------------------
\* The end of the transport

Finish ==
    /\ closed' = TRUE
    /\ closes' = IF closed THEN closes ELSE closes + 1

\* Mutant of ChildError: a child that could not be spawned is only reported.
ChildError_NoFinish ==
    /\ NextEvent /\ child = "failed"
    /\ child' = "reaped"
    /\ UNCHANGED <<exitedWell, written, pipe, decoderVars, lifeVars, crashed>>

\* watchChildError
ChildError ==
    /\ NextEvent /\ child = "failed"
    /\ child' = "reaped"
    /\ Finish
    /\ UNCHANGED <<exitedWell, written, pipe, decoderVars, stdin, closing, blamed, crashed>>

\* Mutant of ChildExit: an exit that close() brought about is reported too.
ChildExit_Always ==
    /\ NextEvent /\ child = "dead"
    /\ child' = "reaped"
    /\ blamed' = (blamed \/ ~exitedWell)
    /\ Finish
    /\ UNCHANGED <<exitedWell, written, pipe, decoderVars, stdin, closing, crashed>>

\* watchChildExit: the 'exit' event does not wait for what is in the pipe.
ChildExit ==
    /\ NextEvent /\ child = "dead"
    /\ child' = "reaped"
    /\ blamed' = (blamed \/ (~closing /\ ~exitedWell))
    /\ Finish
    /\ UNCHANGED <<exitedWell, written, pipe, decoderVars, stdin, closing, crashed>>

\* close(): stdin ends, the child is asked to terminate.
Close ==
    /\ NextEvent /\ child # "none"
    /\ ~closed
    /\ closing' = TRUE /\ stdin' = "ended"
    /\ Finish
    /\ UNCHANGED <<child, exitedWell, written, pipe, decoderVars, blamed, crashed>>

-----------------------------------------------------------------------------
\* Writing to the child

\* Nobody reads the pipe any more, but the exit is not known yet: the write
\* fails with an 'error' event that has no listener, unless the exit destroys
\* stdin before.
BrokenPipe == child = "dead" /\ crashed' \in BOOLEAN

\* The SDK writes a request; it lets go of the transport on onclose.
Send ==
    /\ NextEvent /\ Connected
    /\ BrokenPipe
    /\ UNCHANGED <<child, exitedWell, written, pipe, decoderVars, lifeVars>>

\* A batch of the client is written without a look at `connected`: after end()
\* on a stream that is not destroyed yet that is an error, too.
SendBatch ==
    /\ NextEvent /\ child # "none"
    /\ BrokenPipe \/ (stdin = "ended" /\ child \in {"running", "dead"} /\ crashed' = TRUE)
    /\ UNCHANGED <<child, exitedWell, written, pipe, decoderVars, lifeVars>>

Next ==
    \/ Start \/ Write \/ Die
    \/ Read \/ RunTask
    \/ ChildError \/ ChildExit \/ Close
    \/ Send \/ SendBatch

Spec == Init /\ [][Next]_vars

\* The event loop polls its descriptors and runs its microtasks.
FairSpec ==
    Spec /\ WF_vars(Read) /\ WF_vars(RunTask) /\ WF_vars(ChildError) /\ WF_vars(ChildExit)

-----------------------------------------------------------------------------
\* Wherever the pipe is cut into chunks, processLine sees every frame whole,
\* once and in the order the child wrote them.
FramesInOrder == \A i \in DOMAIN handled : handled[i] = i

\* A response or a batch never overtakes the notification before it, although
\* the handlers of notifications run later: why the chain yields.
ProgressNotOvertaken ==
    \A i, j \in DOMAIN effects : i < j => effects[i] < effects[j]

\* Whichever of exit, error and close() come together, the transport ends once
\* and for its first cause: onclose is called when it closes and only then, and an
\* end that close() brought about is never reported as the upstream's.
OneEndOneCause ==
    [][ /\ closes' = (IF closed' THEN 1 ELSE 0)
        /\ closing /\ ~blamed => ~blamed' ]_vars

\* No frame that was completely written is lost: not behind garbage, not behind
\* a frame that is cut, not when the child dies before the pipe is read.
FramesArrive ==
    \A n \in 1..MaxFrames : (Len(written) >= n) ~> (Len(handled) >= n \/ crashed)

\* A child that dies or cannot be spawned ends the transport.
DeathCloses == (child \in {"dead", "failed"}) ~> (closed \/ crashed)
=============================================================================
