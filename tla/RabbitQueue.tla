----------------------------- MODULE RabbitQueue -----------------------------
(***************************************************************************)
(* RabbitMqQueueProvider in one proxy process: concurrent enqueues share   *)
(* the local index and one lazily opened broker connection, which teardown *)
(* closes while enqueues may be running.                                   *)
(*                                                                         *)
(* A connection is named after the capture that opens it: ensureChannel    *)
(* opens at most one per enqueue.  amqplib and the broker are external:    *)
(* several frames may be read at once, so that any of their events may come *)
(* between a reply and the continuation that waits for it.                 *)
(***************************************************************************)
EXTENDS FiniteSets

CONSTANTS
    Captures,     \* the enqueue calls of the process
    Nobody        \* undefined

ASSUME RabbitAssumption == Nobody \notin Captures

VARIABLES
    pc,           \* where an enqueue is
    using,        \* the channel it publishes on
    sockets,      \* the connections: "none", "open" or "closed"
    channels,     \* their confirm channels, likewise
    attached,     \* connections whose 'close' handlers are attached
    connection, channel,    \* this.connection and this.channel
    unconfirmed,  \* messages written and neither confirmed nor refused
    awaits,       \* the messages waitForConfirms of an enqueue waits for
    indexed,      \* records in the local index
    delivered,    \* records the broker has stored
    warned,       \* enqueues that ended with a warning
    phase,        \* of close(), or "crashed"
    grabbed       \* the channel and the connection close() took

enqueueVars == <<pc, using, awaits, warned>>
brokerVars == <<sockets, channels, unconfirmed, delivered>>
heldVars == <<attached, connection, channel>>
closeVars == <<phase, grabbed>>
vars == <<enqueueVars, brokerVars, heldVars, closeVars, indexed>>

Ended == {"returned", "rejected"}
PCs == {"idle", "indexed", "connecting", "setup", "attach", "publish", "confirming"} \cup Ended
Lifetimes == {"none", "open", "closed"}

TypeOK ==
    /\ pc \in [Captures -> PCs]
    /\ using \in [Captures -> Captures \cup {Nobody}]
    /\ awaits \in [Captures -> SUBSET Captures]
    /\ sockets \in [Captures -> Lifetimes] /\ channels \in [Captures -> Lifetimes]
    /\ connection \in Captures \cup {Nobody} /\ channel \in Captures \cup {Nobody}
    /\ attached \subseteq Captures /\ unconfirmed \subseteq Captures
    /\ indexed \subseteq Captures /\ delivered \subseteq Captures /\ warned \subseteq Captures
    /\ phase \in {"open", "closing_channel", "closing_connection", "closed", "crashed"}
    /\ grabbed \in [channel : Captures \cup {Nobody}, connection : Captures \cup {Nobody}]
    /\ \A c \in Captures : pc[c] \in {"publish", "confirming"} => using[c] \in Captures

Init ==
    /\ pc = [c \in Captures |-> "idle"]
    /\ using = [c \in Captures |-> Nobody]
    /\ awaits = [c \in Captures |-> {}]
    /\ sockets = [c \in Captures |-> "none"]
    /\ channels = [c \in Captures |-> "none"]
    /\ attached = {} /\ connection = Nobody /\ channel = Nobody
    /\ unconfirmed = {} /\ indexed = {} /\ delivered = {} /\ warned = {}
    /\ phase = "open"
    /\ grabbed = [channel |-> Nobody, connection |-> Nobody]

At(c, label) == pc[c] = label /\ phase # "crashed"
Goto(c, label) == pc' = [pc EXCEPT ![c] = label]

\* The catch clause of enqueue: the record stays in the index, the id returns.
Warn(c) == Goto(c, "returned") /\ warned' = warned \cup {c}

-----------------------------------------------------------------------------
\* enqueue and ensureChannel

\* The insert throws once close() has closed the index, and so does enqueue.
Enqueue(c) ==
    /\ At(c, "idle")
    /\ \/ phase = "open" /\ indexed' = indexed \cup {c} /\ Goto(c, "indexed")
       \/ phase # "open" /\ Goto(c, "rejected") /\ UNCHANGED indexed
    /\ UNCHANGED <<using, awaits, warned, brokerVars, heldVars, closeVars>>

\* A channel that is held is used as it is; nobody waits for a connection that
\* another enqueue is opening.
EnsureChannel(c) ==
    /\ At(c, "indexed")
    /\ \/ /\ channel # Nobody
          /\ using' = [using EXCEPT ![c] = channel] /\ Goto(c, "publish")
       \/ channel = Nobody /\ Goto(c, "connecting") /\ UNCHANGED using
    /\ UNCHANGED <<awaits, warned, brokerVars, heldVars, closeVars, indexed>>

Connected(c) ==
    /\ At(c, "connecting")
    /\ sockets' = [sockets EXCEPT ![c] = "open"]
    /\ channels' = [channels EXCEPT ![c] = "open"]
    /\ Goto(c, "setup")
    /\ UNCHANGED <<using, awaits, warned, unconfirmed, delivered, heldVars, closeVars, indexed>>

ConnectFails(c) ==
    /\ At(c, "connecting")
    /\ Warn(c)
    /\ UNCHANGED <<using, awaits, brokerVars, heldVars, closeVars, indexed>>

\* The channel, the exchange, the queue and the binding are there.
SetUp(c) ==
    /\ At(c, "setup")
    /\ Goto(c, "attach")
    /\ UNCHANGED <<using, awaits, warned, brokerVars, heldVars, closeVars, indexed>>

\* The broker refuses one of them: that closes the channel, not the connection.
SetupRefused(c) ==
    /\ At(c, "setup")
    /\ channels' = [channels EXCEPT ![c] = "closed"]
    /\ Warn(c)
    /\ UNCHANGED <<using, awaits, sockets, unconfirmed, delivered, heldVars, closeVars, indexed>>

\* The continuation after bindQueue: whatever was held is replaced.
Attach(c) ==
    /\ At(c, "attach")
    /\ attached' = attached \cup {c}
    /\ connection' = c /\ channel' = c
    /\ using' = [using EXCEPT ![c] = c] /\ Goto(c, "publish")
    /\ UNCHANGED <<awaits, warned, brokerVars, closeVars, indexed>>

\* Mutant of Publish: enqueue does not wait for the confirm.
Publish_Unconfirmed(c) ==
    /\ At(c, "publish")
    /\ \/ /\ channels[using[c]] = "open"
          /\ unconfirmed' = unconfirmed \cup {c}
          /\ Goto(c, "returned")
          /\ UNCHANGED warned
       \/ channels[using[c]] # "open" /\ Warn(c) /\ UNCHANGED unconfirmed
    /\ UNCHANGED <<awaits, using, sockets, channels, delivered, heldVars, closeVars, indexed>>

\* publish throws on a closed channel; waitForConfirms then waits for every
\* message of the channel that is still unconfirmed.
Publish(c) ==
    /\ At(c, "publish")
    /\ \/ /\ channels[using[c]] = "open"
          /\ unconfirmed' = unconfirmed \cup {c}
          /\ awaits' = [awaits EXCEPT ![c] = {d \in unconfirmed' : using[d] = using[c]}]
          /\ Goto(c, "confirming")
          /\ UNCHANGED warned
       \/ channels[using[c]] # "open" /\ Warn(c) /\ UNCHANGED <<unconfirmed, awaits>>
    /\ UNCHANGED <<using, sockets, channels, delivered, heldVars, closeVars, indexed>>

\* The wait fails because the channel is gone.
ConfirmFails(c) ==
    /\ At(c, "confirming")
    /\ channels[using[c]] = "closed"
    /\ Warn(c)
    /\ UNCHANGED <<using, awaits, brokerVars, heldVars, closeVars, indexed>>

-----------------------------------------------------------------------------
\* The broker

Written(c) == phase # "crashed" /\ c \in unconfirmed /\ channels[using[c]] = "open"

Store(c) ==
    /\ Written(c) /\ c \notin delivered
    /\ delivered' = delivered \cup {c}
    /\ UNCHANGED <<enqueueVars, sockets, channels, unconfirmed, heldVars, closeVars, indexed>>

\* Mutant of Confirm: only the enqueue of the message itself hears of it.
Confirm_OwnOnly(c) ==
    /\ Written(c) /\ c \in delivered
    /\ unconfirmed' = unconfirmed \ {c}
    /\ awaits' = [awaits EXCEPT ![c] = @ \ {c}]
    /\ pc' = [pc EXCEPT ![c] = IF pc[c] = "confirming" /\ awaits[c] = {c} THEN "returned" ELSE @]
    /\ UNCHANGED <<using, warned, sockets, channels, delivered, heldVars, closeVars, indexed>>

Confirm(c) ==
    /\ Written(c) /\ c \in delivered
    /\ unconfirmed' = unconfirmed \ {c}
    /\ awaits' = [d \in Captures |-> awaits[d] \ {c}]
    /\ pc' = [d \in Captures |->
                IF pc[d] = "confirming" /\ awaits[d] = {c} THEN "returned" ELSE pc[d]]
    /\ UNCHANGED <<using, warned, sockets, channels, delivered, heldVars, closeVars, indexed>>

\* A refused message fails every enqueue that waits for it.
Refuse(c) ==
    /\ Written(c) /\ c \notin delivered
    /\ LET waiting == {d \in Captures : pc[d] = "confirming" /\ c \in awaits[d]}
       IN  /\ pc' = [d \in Captures |-> IF d \in waiting THEN "returned" ELSE pc[d]]
           /\ warned' = warned \cup waiting
    /\ unconfirmed' = unconfirmed \ {c}
    /\ UNCHANGED <<using, awaits, sockets, channels, delivered, heldVars, closeVars, indexed>>

\* Mutant of ForgetChannel: the handler forgets whatever channel is held.
ForgetChannel_Any(k) == channel' = IF k \in attached THEN Nobody ELSE channel

\* The 'close' handler of the channel.
ForgetChannel(k) == channel' = IF k \in attached /\ channel = k THEN Nobody ELSE channel

\* The 'close' handlers of a connection and its channel.
Forget(k) ==
    /\ connection' = IF k \in attached /\ connection = k THEN Nobody ELSE connection
    /\ ForgetChannel(k)

\* Mutant of ChannelCloses: the handler of the channel forgets the connection too.
ChannelCloses_ForgetsBoth(k) ==
    /\ phase # "crashed"
    /\ channels[k] = "open" /\ pc[k] # "setup"
    /\ channels' = [channels EXCEPT ![k] = "closed"]
    /\ Forget(k)
    /\ UNCHANGED <<enqueueVars, sockets, unconfirmed, delivered, attached>>
    /\ UNCHANGED <<closeVars, indexed>>

\* The broker closes the channel of a connection that has been set up.
ChannelCloses(k) ==
    /\ phase # "crashed"
    /\ channels[k] = "open" /\ pc[k] # "setup"
    /\ channels' = [channels EXCEPT ![k] = "closed"]
    /\ ForgetChannel(k)
    /\ UNCHANGED <<enqueueVars, sockets, unconfirmed, delivered, attached, connection>>
    /\ UNCHANGED <<closeVars, indexed>>

\* A connection ends.  A setup under way fails.  Handlers that are attached
\* forget it; one that ends before that is not noticed.
ConnectionEnds(k) ==
    /\ phase # "crashed"
    /\ sockets[k] = "open"
    /\ sockets' = [sockets EXCEPT ![k] = "closed"]
    /\ channels' = [channels EXCEPT ![k] = "closed"]
    /\ \/ pc[k] = "setup" /\ Warn(k)
       \/ pc[k] # "setup" /\ UNCHANGED <<pc, warned>>
    /\ Forget(k)
    /\ UNCHANGED <<using, awaits, unconfirmed, delivered, attached, closeVars, indexed>>

\* It breaks: an 'error' event that has no listener yet is an uncaught
\* exception.  With the listener it is ConnectionEnds.
ConnectionBreaks(k) ==
    /\ phase # "crashed"
    /\ sockets[k] = "open" /\ k \notin attached
    /\ phase' = "crashed"
    /\ UNCHANGED <<enqueueVars, brokerVars, heldVars, grabbed, indexed>>

-----------------------------------------------------------------------------
\* close()

Close ==
    /\ phase = "open"
    /\ phase' = "closing_channel"
    /\ grabbed' = [channel |-> channel, connection |-> connection]
    /\ channel' = Nobody /\ connection' = Nobody
    /\ UNCHANGED <<enqueueVars, brokerVars, attached, indexed>>

\* Closing what is closed already fails, which is ignored.
CloseChannel ==
    /\ phase = "closing_channel"
    /\ phase' = "closing_connection"
    /\ channels' = [k \in Captures |-> IF k = grabbed.channel THEN "closed" ELSE channels[k]]
    /\ UNCHANGED <<enqueueVars, sockets, unconfirmed, delivered, heldVars, grabbed, indexed>>

CloseConnection ==
    /\ phase = "closing_connection"
    /\ phase' = "closed"
    /\ sockets' = [k \in Captures |-> IF k = grabbed.connection THEN "closed" ELSE sockets[k]]
    /\ channels' = [k \in Captures |-> IF k = grabbed.connection THEN "closed" ELSE channels[k]]
    /\ UNCHANGED <<enqueueVars, unconfirmed, delivered, heldVars, grabbed, indexed>>

-----------------------------------------------------------------------------
Setup(c) == Connected(c) \/ ConnectFails(c) \/ SetUp(c) \/ SetupRefused(c)
Continue(c) == EnsureChannel(c) \/ Attach(c) \/ Publish(c) \/ ConfirmFails(c)
Broker(c) == Store(c) \/ Confirm(c) \/ Refuse(c)

Next ==
    \/ \E c \in Captures :
        \/ Enqueue(c) \/ Continue(c)
        \/ Setup(c) \/ Broker(c)
        \/ ChannelCloses(c) \/ ConnectionEnds(c) \/ ConnectionBreaks(c)
    \/ Close \/ CloseChannel \/ CloseConnection

Spec == Init /\ [][Next]_vars

\* Continuations run; connect gives up after its timeout; the broker answers
\* what it was sent or its connection ends, which fails the wait.
FairSpec ==
    /\ Spec
    /\ \A c \in Captures : WF_vars(Continue(c)) /\ WF_vars(Setup(c)) /\ WF_vars(Broker(c))
    /\ WF_vars(CloseChannel) /\ WF_vars(CloseConnection)

-----------------------------------------------------------------------------
\* An enqueue that returns without a warning is at the broker: the confirmed
\* publish of enqueue, with other messages in flight on the same channel.  And
\* whatever the broker has, or enqueue accepted, is in the local index that
\* replay reads: a crash, a warning or a teardown loses no capture.
NoSilentLoss ==
    \A c \in Captures :
        /\ pc[c] = "returned" /\ c \notin warned => c \in delivered
        /\ pc[c] = "returned" \/ c \in unconfirmed \/ c \in delivered => c \in indexed

\* The 'close' of a replaced connection or channel never makes the adapter
\* forget a live channel.
LiveChannelIsKept ==
    [][ channel # Nobody /\ channels'[channel] = "open" /\ phase' = phase
            => channel' # Nobody ]_vars

\* Every enqueue ends while the broker answers, also when its messages share
\* the channel with refused ones and the connection ends under it.
EnqueueEnds ==
    \A c \in Captures : (pc[c] # "idle") ~> (pc[c] \in Ended \/ phase = "crashed")

\* close() can close a connection only if one is still held.  As soon as one was
\* set up, one is held, is in the hands of close(), or has ended, whatever
\* channels and connections end in between: a process that set up a single
\* connection leaves none open.  (Of several connections that concurrent
\* enqueues set up, all but the last are replaced and stay open.)
ConnectionIsNotForgotten ==
    phase # "crashed" /\ attached # {} =>
        \E k \in attached :
            \/ sockets[k] = "closed" \/ k = connection
            \/ phase \in {"closing_channel", "closing_connection"} /\ k = grabbed.connection
=============================================================================
