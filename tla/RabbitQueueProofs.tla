-------------------------- MODULE RabbitQueueProofs --------------------------
(***************************************************************************)
(* What holds of RabbitQueue for any number of concurrent enqueues.        *)
(***************************************************************************)
EXTENDS RabbitQueue, TLAPS

\* The types hold: every enqueue, connection and channel is in a state the
\* adapter knows.
THEOREM TypeCorrect == Spec => []TypeOK
<1>1. Init => TypeOK
  BY DEF Init, TypeOK, PCs, Lifetimes, Ended
<1>2. TypeOK /\ [Next]_vars => TypeOK'
  <2> SUFFICES ASSUME TypeOK, [Next]_vars PROVE TypeOK'
    OBVIOUS
  <2> USE DEF TypeOK, PCs, Lifetimes, Ended, enqueueVars, brokerVars, heldVars, closeVars
  <2>1. ASSUME NEW c \in Captures, Enqueue(c) PROVE TypeOK'
    BY <2>1 DEF Enqueue, Goto
  <2>2. ASSUME NEW c \in Captures, Continue(c) PROVE TypeOK'
    <3>1. CASE EnsureChannel(c)
      BY <3>1 DEF EnsureChannel, At, Goto
    <3>2. CASE Attach(c)
      BY <3>2 DEF Attach, Goto
    <3>3. CASE Publish(c)
      BY <3>3 DEF Publish, At, Goto, Warn
    <3>4. CASE ConfirmFails(c)
      BY <3>4 DEF ConfirmFails, Goto, Warn
    <3> QED
      BY <2>2, <3>1, <3>2, <3>3, <3>4 DEF Continue
  <2>3. ASSUME NEW c \in Captures, Setup(c) PROVE TypeOK'
    BY <2>3 DEF Setup, Connected, ConnectFails, SetUp, SetupRefused, Goto, Warn
  <2>4. ASSUME NEW c \in Captures, Broker(c) PROVE TypeOK'
    <3>1. CASE Store(c)
      BY <3>1 DEF Store
    <3>2. CASE Confirm(c)
      BY <3>2 DEF Confirm
    <3>3. CASE Refuse(c)
      BY <3>3 DEF Refuse
    <3> QED
      BY <2>4, <3>1, <3>2, <3>3 DEF Broker
  <2>5. ASSUME NEW k \in Captures, ChannelCloses(k) PROVE TypeOK'
    BY <2>5 DEF ChannelCloses, ForgetChannel
  <2>6. ASSUME NEW k \in Captures, ConnectionEnds(k) PROVE TypeOK'
    BY <2>6 DEF ConnectionEnds, Forget, ForgetChannel, Goto, Warn
  <2>7. ASSUME NEW k \in Captures, ConnectionBreaks(k) PROVE TypeOK'
    BY <2>7 DEF ConnectionBreaks
  <2>8. CASE Close \/ CloseChannel \/ CloseConnection
    BY <2>8 DEF Close, CloseChannel, CloseConnection
  <2>9. CASE UNCHANGED vars
    BY <2>9 DEF vars
  <2> QED
    BY <2>1, <2>2, <2>3, <2>4, <2>5, <2>6, <2>7, <2>8, <2>9 DEF Next
<1> QED
  BY <1>1, <1>2, PTL DEF Spec

-----------------------------------------------------------------------------
\* What an enqueue knows: its record is in the index once it is past the
\* insert, its message is on its way only after that, and it stops waiting for
\* its own message only when the broker has it.
EnqueueInv ==
    \A c \in Captures :
        /\ pc[c] \notin {"idle", "rejected"} => c \in indexed
        /\ c \in unconfirmed \cup delivered => pc[c] \in {"confirming", "returned"}
        /\ pc[c] = "confirming" /\ c \notin delivered => c \in awaits[c]

LEMMA EnqueueInvStep ==
    TypeOK /\ EnqueueInv /\ NoSilentLoss /\ [Next]_vars => EnqueueInv' /\ NoSilentLoss'
<1> SUFFICES ASSUME TypeOK, EnqueueInv, NoSilentLoss, [Next]_vars
             PROVE  EnqueueInv' /\ NoSilentLoss'
  OBVIOUS
<1> USE DEF TypeOK, EnqueueInv, NoSilentLoss, At,
            enqueueVars, brokerVars, heldVars, closeVars
<1>1. ASSUME NEW c \in Captures, Enqueue(c) PROVE EnqueueInv' /\ NoSilentLoss'
  BY <1>1 DEF Enqueue, Goto
<1>2. ASSUME NEW c \in Captures, EnsureChannel(c) \/ Attach(c)
      PROVE  EnqueueInv' /\ NoSilentLoss'
  BY <1>2 DEF EnsureChannel, Attach, Goto
<1>3. ASSUME NEW c \in Captures, Publish(c) PROVE EnqueueInv' /\ NoSilentLoss'
  <2>1. CASE /\ unconfirmed' = unconfirmed \cup {c}
             /\ awaits' = [awaits EXCEPT ![c] = {d \in unconfirmed' : using[d] = using[c]}]
             /\ Goto(c, "confirming")
             /\ UNCHANGED warned
    <3>1. c \in awaits'[c]
      BY <2>1
    <3> QED
      BY <1>3, <2>1, <3>1 DEF Publish, Goto
  <2>2. CASE Warn(c) /\ UNCHANGED <<unconfirmed, awaits>>
    BY <1>3, <2>2 DEF Publish, Goto, Warn
  <2> QED
    BY <1>3, <2>1, <2>2 DEF Publish
<1>4. ASSUME NEW c \in Captures, ConfirmFails(c) PROVE EnqueueInv' /\ NoSilentLoss'
  BY <1>4 DEF ConfirmFails, Goto, Warn
<1>5. ASSUME NEW c \in Captures, Setup(c) PROVE EnqueueInv' /\ NoSilentLoss'
  BY <1>5 DEF Setup, Connected, ConnectFails, SetUp, SetupRefused, Goto, Warn
<1>6. ASSUME NEW c \in Captures, Store(c) PROVE EnqueueInv' /\ NoSilentLoss'
  BY <1>6 DEF Store, Written
<1>7. ASSUME NEW c \in Captures, Confirm(c) PROVE EnqueueInv' /\ NoSilentLoss'
  <2>1. \A d \in Captures : pc[d] = "confirming" /\ d # c => c # d /\
            (d \notin delivered => d \in awaits'[d])
    BY <1>7 DEF Confirm
  <2> QED
    BY <1>7, <2>1 DEF Confirm, Written
<1>8. ASSUME NEW c \in Captures, Refuse(c) PROVE EnqueueInv' /\ NoSilentLoss'
  BY <1>8 DEF Refuse, Written
<1>9. ASSUME NEW k \in Captures, ChannelCloses(k) \/ ConnectionBreaks(k)
      PROVE  EnqueueInv' /\ NoSilentLoss'
  BY <1>9 DEF ChannelCloses, ConnectionBreaks
<1>10. ASSUME NEW k \in Captures, ConnectionEnds(k) PROVE EnqueueInv' /\ NoSilentLoss'
  BY <1>10 DEF ConnectionEnds, Goto, Warn
<1>11. CASE Close \/ CloseChannel \/ CloseConnection
  BY <1>11 DEF Close, CloseChannel, CloseConnection
<1>12. CASE UNCHANGED vars
  BY <1>12 DEF vars
<1> QED
  BY <1>1, <1>2, <1>3, <1>4, <1>5, <1>6, <1>7, <1>8, <1>9, <1>10, <1>11, <1>12
  DEF Next, Continue, Broker

\* However many enqueues share channels with refused messages and connections
\* that end: one that returns without a warning is stored by the broker, and
\* what is accepted or stored is in the local index.
THEOREM ReturnedIsDelivered == Spec => []NoSilentLoss
<1>1. Init => EnqueueInv /\ NoSilentLoss
  BY DEF Init, EnqueueInv, NoSilentLoss
<1> QED
  BY <1>1, EnqueueInvStep, TypeCorrect, PTL DEF Spec

-----------------------------------------------------------------------------
\* A connection is attached once, by an enqueue that is past its setup.
AttachInv ==
    /\ ConnectionIsNotForgotten
    /\ \A c \in attached : pc[c] \notin {"idle", "indexed", "connecting", "setup", "attach"}

\* In whatever order connections are opened, replaced and lost, one that was set
\* up is held, being closed or closed.
THEOREM OneIsHeldOrClosed == Spec => []ConnectionIsNotForgotten
<1>1. Init => AttachInv
  BY DEF Init, AttachInv, ConnectionIsNotForgotten
<1>2. TypeOK /\ AttachInv /\ [Next]_vars => AttachInv'
  <2> SUFFICES ASSUME TypeOK, AttachInv, [Next]_vars PROVE AttachInv'
    OBVIOUS
  <2> USE DEF TypeOK, AttachInv, ConnectionIsNotForgotten, Lifetimes, PCs, Ended, At, Goto, Warn,
             enqueueVars, brokerVars, heldVars, closeVars
  <2>1. ASSUME NEW c \in Captures, Enqueue(c) PROVE AttachInv'
    BY <2>1 DEF Enqueue
  <2>2. ASSUME NEW c \in Captures, EnsureChannel(c) \/ Publish(c) \/ ConfirmFails(c)
        PROVE  AttachInv'
    BY <2>2 DEF EnsureChannel, Publish, ConfirmFails
  <2>3. ASSUME NEW c \in Captures, Attach(c) PROVE AttachInv'
    BY <2>3 DEF Attach
  <2>4. ASSUME NEW c \in Captures, Setup(c) PROVE AttachInv'
    BY <2>4 DEF Setup, Connected, ConnectFails, SetUp, SetupRefused
  <2>5. ASSUME NEW c \in Captures, Broker(c) PROVE AttachInv'
    BY <2>5 DEF Broker, Store, Confirm, Refuse
  <2>6. ASSUME NEW k \in Captures, ChannelCloses(k) PROVE AttachInv'
    BY <2>6 DEF ChannelCloses
  <2>7. ASSUME NEW k \in Captures, ConnectionEnds(k) PROVE AttachInv'
    BY <2>7 DEF ConnectionEnds, Forget
  <2>8. ASSUME NEW k \in Captures, ConnectionBreaks(k) PROVE AttachInv'
    BY <2>8 DEF ConnectionBreaks
  <2>9. CASE Close
    BY <2>9 DEF Close
  <2>10. CASE CloseChannel
    BY <2>10 DEF CloseChannel
  <2>11. CASE CloseConnection
    BY <2>11 DEF CloseConnection
  <2>12. CASE UNCHANGED vars
    BY <2>12 DEF vars
  <2> QED
    BY <2>1, <2>2, <2>3, <2>4, <2>5, <2>6, <2>7, <2>8, <2>9, <2>10, <2>11, <2>12
    DEF Next, Continue
<1> QED
  BY <1>1, <1>2, TypeCorrect, PTL DEF Spec, AttachInv

-----------------------------------------------------------------------------
\* Only its own death, a replacement or close() takes the held channel away: a
\* late 'close' event of another connection does not.
THEOREM OnlyItsOwnClose == Spec => LiveChannelIsKept
<1> DEFINE Kept == channel # Nobody /\ channels'[channel] = "open" /\ phase' = phase
                      => channel' # Nobody
<1>1. TypeOK /\ [Next]_vars => [Kept]_vars
  <2> SUFFICES ASSUME TypeOK, Next, channel # Nobody,
                      channels'[channel] = "open", phase' = phase
               PROVE  channel' # Nobody
    BY DEF vars, heldVars
  <2> USE DEF TypeOK, Lifetimes, enqueueVars, brokerVars, heldVars, closeVars
  <2>1. ASSUME NEW c \in Captures, Enqueue(c) PROVE channel' # Nobody
    BY <2>1 DEF Enqueue
  <2>2. ASSUME NEW c \in Captures, Continue(c) PROVE channel' # Nobody
    BY <2>2, RabbitAssumption DEF Continue, EnsureChannel, Attach, Publish, ConfirmFails
  <2>3. ASSUME NEW c \in Captures, Setup(c) PROVE channel' # Nobody
    BY <2>3 DEF Setup, Connected, ConnectFails, SetUp, SetupRefused
  <2>4. ASSUME NEW c \in Captures, Broker(c) PROVE channel' # Nobody
    BY <2>4 DEF Broker, Store, Confirm, Refuse
  <2>5. ASSUME NEW k \in Captures, ChannelCloses(k) \/ ConnectionEnds(k)
        PROVE  channel' # Nobody
    BY <2>5 DEF ChannelCloses, ConnectionEnds, Forget, ForgetChannel
  <2>6. ASSUME NEW k \in Captures, ConnectionBreaks(k) PROVE channel' # Nobody
    BY <2>6 DEF ConnectionBreaks
  <2>7. CASE Close \/ CloseChannel \/ CloseConnection
    BY <2>7 DEF Close, CloseChannel, CloseConnection
  <2> QED
    BY <2>1, <2>2, <2>3, <2>4, <2>5, <2>6, <2>7 DEF Next
<1> QED
  BY <1>1, TypeCorrect, PTL DEF Spec, LiveChannelIsKept
=============================================================================
