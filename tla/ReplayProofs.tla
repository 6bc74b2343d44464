---------------------------- MODULE ReplayProofs ----------------------------
(***************************************************************************)
(* Theorems about Replay for any number of records, keys and invocations   *)
(* and for any lease, timeouts and clock bound.                            *)
(***************************************************************************)
EXTENDS Replay, TLAPS

\* Whichever record p takes up next, or none, its local state stays well typed.
LEMMA TakeUpType ==
    ASSUME TypeOK, NEW p \in Replayers, NEW left \in SUBSET Records, TakeUp(p, left)
    PROVE  /\ pc' \in [Replayers -> PCs]
           /\ cur' \in [Replayers -> Records \cup {0}]
           /\ \A q \in Replayers : pc'[q] \notin {"idle"} \cup Ended => cur'[q] \in Records
BY DEF TypeOK, TakeUp, Goto, PCs, Ended

LEMMA ReportType ==
    ASSUME TypeOK, NEW p \in Replayers, cur[p] \in Records, NEW report \in Reports,
           Report(p, report)
    PROVE  /\ pc' \in [Replayers -> PCs]
           /\ cur' \in [Replayers -> Records \cup {0}]
           /\ \A q \in Replayers : pc'[q] \notin {"idle"} \cup Ended => cur'[q] \in Records
           /\ result' \in [Replayers -> [Records -> Reports]]
           /\ ok' \in [Replayers -> BOOLEAN]
           /\ at' \in [Replayers -> Nat]
           /\ deadline' \in [Replayers -> Nat]
<1> DEFINE left == {r \in selected[p] : result[p][r] = "none" /\ r # cur[p]}
<1>1. left \in SUBSET Records
  BY DEF TypeOK
<1>2. TakeUp(p, left)
  BY DEF Report
<1>3. /\ pc' \in [Replayers -> PCs]
      /\ cur' \in [Replayers -> Records \cup {0}]
      /\ \A q \in Replayers : pc'[q] \notin {"idle"} \cup Ended => cur'[q] \in Records
  <2> HIDE DEF left
  <2> QED BY <1>1, <1>2, TakeUpType
<1>4. result' \in [Replayers -> [Records -> Reports]]
  BY DEF Report, TypeOK
<1>5. /\ ok' \in [Replayers -> BOOLEAN]
      /\ at' \in [Replayers -> Nat]
      /\ deadline' \in [Replayers -> Nat]
  BY DEF Report, Forget, TypeOK
<1> QED BY <1>3, <1>4, <1>5

LEMMA ContinueType ==
    ASSUME TypeOK, NEW p \in Replayers, cur[p] \in Records, NEW label \in Timed,
           NEW bound \in Nat, Continue(p, label, bound)
    PROVE  /\ pc' \in [Replayers -> PCs]
           /\ cur' \in [Replayers -> Records \cup {0}]
           /\ \A q \in Replayers : pc'[q] \notin {"idle"} \cup Ended => cur'[q] \in Records
           /\ result' \in [Replayers -> [Records -> Reports]]
           /\ deadline' \in [Replayers -> Nat]
BY DEF TypeOK, DlqTypeOK, Continue, Goto, PCs, Timed, Ended

LEMMA ForgetType ==
    ASSUME TypeOK, NEW p \in Replayers, Forget(p)
    PROVE  /\ ok' \in [Replayers -> BOOLEAN]
           /\ at' \in [Replayers -> Nat]
           /\ deadline' \in [Replayers -> Nat]
BY DEF TypeOK, Forget

\* Every step keeps the types: one case per action.
LEMMA TypeStep == TypeOK /\ [Next]_vars => TypeOK'
<1> SUFFICES ASSUME TypeOK, [Next]_vars PROVE TypeOK'
  OBVIOUS
<1> USE DlqAssumption, ReplayAssumption
<1>0. \A p \in Replayers : pc[p] \notin {"idle"} \cup Ended => cur[p] \in Records
  BY DEF TypeOK
<1>1. ASSUME NEW r \in Records, Capture(r) PROVE TypeOK'
  BY <1>1 DEF TypeOK, DlqTypeOK, Capture, Enqueue, runVars, attemptVars
<1>2. ASSUME NEW r \in Records, LiveSuccess(r) PROVE TypeOK'
  <2>1. LiveKey(r) \in Keys /\ HashOf[r] \in Hashes
    BY <1>2 DEF LiveSuccess, LiveKey
  <2> QED BY <1>2, <2>1 DEF TypeOK, DlqTypeOK, LiveSuccess, RecordExecution, Timestamps,
                           runVars, attemptVars
<1>3. ASSUME Tick PROVE TypeOK'
  BY <1>3 DEF TypeOK, DlqTypeOK, Tick, runVars, attemptVars
<1>4. ASSUME NEW p \in Replayers, NEW m \in Commands, NEW r \in Records, StartRecord(p, m, r)
      PROVE  TypeOK'
  <2>1. m \in Modes
    OBVIOUS
  <2>2. /\ mode' \in [Replayers -> Modes]
        /\ selected' \in [Replayers -> SUBSET Records]
        /\ result' \in [Replayers -> [Records -> Reports]]
    <3>1. CASE result' = [result EXCEPT ![p][r] = "failed"]
      BY <1>4, <2>1, <3>1 DEF TypeOK, StartRecord, Reports
    <3>2. CASE UNCHANGED result
      BY <1>4, <2>1, <3>2 DEF TypeOK, StartRecord
    <3> QED BY <1>4, <3>1, <3>2 DEF StartRecord
  <2>3. /\ pc' \in [Replayers -> PCs]
        /\ cur' \in [Replayers -> Records \cup {0}]
        /\ \A q \in Replayers : pc'[q] \notin {"idle"} \cup Ended => cur'[q] \in Records
    <3>1. CASE TakeUp(p, {r})
      BY <3>1, TakeUpType
    <3>2. CASE Goto(p, "exited") /\ UNCHANGED cur
      BY <3>2 DEF TypeOK, Goto, PCs, Ended
    <3> QED BY <1>4, <3>1, <3>2 DEF StartRecord
  <2> QED BY <1>4, <2>2, <2>3 DEF TypeOK, DlqTypeOK, StartRecord, dlqVars, attemptVars
<1>5. ASSUME NEW p \in Replayers, NEW m \in Commands, StartBatch(p, m) PROVE TypeOK'
  <2>1. m \in Modes
    OBVIOUS
  <2>2. Newest(Limit) \in SUBSET Records
    BY DEF Newest, Pending
  <2>3. /\ pc' \in [Replayers -> PCs]
        /\ cur' \in [Replayers -> Records \cup {0}]
        /\ \A q \in Replayers : pc'[q] \notin {"idle"} \cup Ended => cur'[q] \in Records
    BY <1>5, <2>2, TakeUpType DEF StartBatch
  <2>4. /\ mode' \in [Replayers -> Modes]
        /\ selected' \in [Replayers -> SUBSET Records]
    BY <1>5, <2>1, <2>2 DEF TypeOK, StartBatch
  <2> QED BY <1>5, <2>3, <2>4 DEF TypeOK, DlqTypeOK, StartBatch, dlqVars, attemptVars
<1>6. ASSUME NEW p \in Replayers, ComputeVerdict(p) PROVE TypeOK'
  <2>1. cur[p] \in Records
    BY <1>0, <1>6 DEF ComputeVerdict, At, Ended
  <2>2. CASE Report(p, "skipped")
    BY <1>6, <2>1, <2>2, ReportType DEF TypeOK, DlqTypeOK, ComputeVerdict, dlqVars, Reports
  <2>3. CASE Goto(p, "claim") /\ UNCHANGED <<cur, result, attemptVars>>
    BY <1>6, <2>1, <2>3 DEF TypeOK, DlqTypeOK, ComputeVerdict, dlqVars, attemptVars, Goto, PCs, Ended
  <2> QED BY <1>6, <2>2, <2>3 DEF ComputeVerdict
<1>7. ASSUME NEW p \in Replayers, ClaimRecord(p) PROVE TypeOK'
  <2>1. cur[p] \in Records
    BY <1>0, <1>7 DEF ClaimRecord, At, Ended
  <2>2. CASE Claim(cur[p]) /\ Continue(p, "connect", ConnectBound) /\ UNCHANGED <<ok, at>>
    BY <1>7, <2>1, <2>2, ContinueType
       DEF TypeOK, DlqTypeOK, ClaimRecord, Claim, Timestamps, Timed, Holding
  <2>3. CASE Report(p, "skipped") /\ UNCHANGED <<status, claimExpiry>>
    BY <1>7, <2>1, <2>3, ReportType DEF TypeOK, DlqTypeOK, ClaimRecord, Reports
  <2> QED BY <1>7, <2>2, <2>3 DEF ClaimRecord
<1>8. ASSUME NEW p \in Replayers, SendCall(p) PROVE TypeOK'
  <2>1. cur[p] \in Records
    BY <1>0, <1>8 DEF SendCall, At, Ended
  <2> QED BY <1>8, <2>1, ContinueType
          DEF TypeOK, DlqTypeOK, SendCall, dlqVars, Timed, Holding
<1>9. ASSUME NEW p \in Replayers, ConnectFails(p) PROVE TypeOK'
  <2>1. cur[p] \in Records
    BY <1>0, <1>9 DEF ConnectFails, At, Ended
  <2> QED BY <1>9, <2>1, ContinueType
          DEF TypeOK, DlqTypeOK, ConnectFails, dlqVars, Timed, Holding
<1>10. ASSUME NEW p \in Replayers, Answer(p) PROVE TypeOK'
  <2>1. cur[p] \in Records
    BY <1>0, <1>10 DEF Answer, At, Ended
  <2>2. ok' \in [Replayers -> BOOLEAN]
    BY <1>10 DEF TypeOK, Answer
  <2> QED BY <1>10, <2>1, <2>2, ContinueType
          DEF TypeOK, DlqTypeOK, Answer, dlqVars, Timed, Holding
<1>11. ASSUME NEW p \in Replayers, ReleaseRecord(p) PROVE TypeOK'
  <2>1. cur[p] \in Records
    BY <1>0, <1>11 DEF ReleaseRecord, At, Ended
  <2>2. claimExpiry' \in [Records -> Timestamps]
    BY <1>11 DEF TypeOK, DlqTypeOK, ReleaseRecord, Release, Timestamps
  <2> QED BY <1>11, <2>1, <2>2, ReportType
          DEF TypeOK, DlqTypeOK, ReleaseRecord, Release, Reports
<1>12. ASSUME NEW p \in Replayers, ResolveRecord(p) PROVE TypeOK'
  <2>1. cur[p] \in Records
    BY <1>0, <1>12 DEF ResolveRecord, At, Ended
  <2>2. CASE /\ Resolve(cur[p])
             /\ Continue(p, "audit", Slack)
             /\ at' = [at EXCEPT ![p] = clock]
             /\ UNCHANGED ok
    BY <1>12, <2>1, <2>2, ContinueType
       DEF TypeOK, DlqTypeOK, ResolveRecord, Resolve, Timed
  <2>3. CASE /\ Goto(p, "aborted") /\ Forget(p) /\ UNCHANGED <<cur, result>>
             /\ UNCHANGED <<status, claimExpiry>>
    BY <1>12, <2>1, <2>3, ForgetType
       DEF TypeOK, DlqTypeOK, ResolveRecord, Goto, PCs, Ended
  <2>4. CASE Report(p, "failed") /\ UNCHANGED <<status, claimExpiry>>
    BY <1>12, <2>1, <2>4, ReportType DEF TypeOK, DlqTypeOK, ResolveRecord, Reports
  <2> QED BY <1>12, <2>2, <2>3, <2>4 DEF ResolveRecord
<1>13. ASSUME NEW p \in Replayers, AuditReplay(p) PROVE TypeOK'
  <2>1. cur[p] \in Records
    BY <1>0, <1>13 DEF AuditReplay, At, Ended
  <2>2. audit' \subseteq AuditEntries
    BY <1>13, <2>1 DEF TypeOK, AuditReplay, AuditEntries
  <2>3. CASE Continue(p, "index", Slack) /\ UNCHANGED <<ok, at>>
    BY <1>13, <2>1, <2>2, <2>3, ContinueType
       DEF TypeOK, DlqTypeOK, AuditReplay, dlqVars, Timed
  <2>4. CASE Report(p, Outcome(p))
    <3>1. Outcome(p) \in Reports
      BY DEF Outcome, Reports
    <3> QED BY <1>13, <2>1, <2>2, <2>4, <3>1, ReportType
            DEF TypeOK, DlqTypeOK, AuditReplay, dlqVars
  <2> QED BY <1>13, <2>3, <2>4 DEF AuditReplay
<1>14. ASSUME NEW p \in Replayers, IndexExecution(p) PROVE TypeOK'
  <2>1. cur[p] \in Records
    BY <1>0, <1>14 DEF IndexExecution, At, Ended
  <2>2. Outcome(p) \in Reports
    BY DEF Outcome, Reports
  <2>3. executions' \in [Keys -> [hash : Hashes \cup {NoHash}, at : Timestamps]]
    <3>1. [hash |-> HashOf[cur[p]], at |-> at[p]] \in [hash : Hashes \cup {NoHash}, at : Timestamps]
      BY <2>1 DEF TypeOK, Timestamps
    <3> QED BY <1>14, <3>1 DEF TypeOK, DlqTypeOK, IndexExecution, RecordExecution
  <2> QED BY <1>14, <2>1, <2>2, <2>3, ReportType DEF TypeOK, DlqTypeOK, IndexExecution
<1>15. ASSUME NEW p \in Replayers, Crash(p) PROVE TypeOK'
  BY <1>15, ForgetType DEF TypeOK, DlqTypeOK, Crash, dlqVars, Goto, PCs, Ended
<1>16. CASE UNCHANGED vars
  BY <1>16 DEF TypeOK, DlqTypeOK, vars, dlqVars, runVars, attemptVars
<1> QED
  BY <1>1, <1>2, <1>3, <1>4, <1>5, <1>6, <1>7, <1>8, <1>9, <1>10, <1>11, <1>12, <1>13,
     <1>14, <1>15, <1>16 DEF Next, Start, Step

LEMMA TypeInit == Init => TypeOK
BY DlqAssumption, ReplayAssumption
   DEF Init, DlqInit, TypeOK, DlqTypeOK, PCs, Ended, Modes, Reports, Timestamps, NULL, NoExecution

\* The types hold in every reachable state, with no assumption but those on
\* the constants.
THEOREM TypeCorrect == Spec => []TypeOK
BY TypeInit, TypeStep, PTL DEF Spec

-----------------------------------------------------------------------------
\* Frame facts: a step of p says nothing about the others.
OthersKept(p) ==
    \A q \in Replayers \ {p} :
        pc'[q] = pc[q] /\ cur'[q] = cur[q] /\ deadline'[q] = deadline[q]

LEMMA ReportFrame ==
    ASSUME TypeOK, NEW p \in Replayers, NEW report \in Reports, Report(p, report)
    PROVE  OthersKept(p) /\ pc'[p] \in {"exited", "verdict"}
BY DEF TypeOK, Report, TakeUp, Goto, Forget, OthersKept

LEMMA ContinueFrame ==
    ASSUME TypeOK, NEW p \in Replayers, NEW label, NEW bound, Continue(p, label, bound)
    PROVE  /\ OthersKept(p)
           /\ pc'[p] = label /\ cur' = cur /\ deadline'[p] = clock + bound
BY DEF TypeOK, Continue, Goto, OthersKept

\* A step after which p holds nothing keeps the invariant if it touches only the
\* record p held, and settles it in case its call had gone out.
LEMMA LetGo ==
    ASSUME LeaseInv, TypeOK', NEW p \in Replayers, OthersKept(p),
           pc'[p] \notin Holding, pc'[p] # "aborted",
           clock' = clock, sent' = sent,
           \A r \in Records : ~Holds(p, r) =>
               status'[r] = status[r] /\ claimExpiry'[r] = claimExpiry[r],
           pc[p] = "crashed" => pc'[p] = "crashed",
           \A r \in Records :
               Holds(p, r) /\ <<p, r>> \in sent => pc'[p] = "crashed" \/ status'[r] = "replayed",
           \A r \in Records : status[r] = "replayed" => status'[r] = "replayed"
    PROVE  LeaseInv'
<1> USE DEF OthersKept
<1>1. ASSUME NEW q \in Replayers, pc'[q] \in Holding
      PROVE  /\ q # p /\ pc[q] \in Holding /\ cur'[q] = cur[q] /\ cur[q] \in Records
             /\ ~Holds(p, cur[q])
  <2>1. q # p /\ pc[q] = pc'[q] /\ cur'[q] = cur[q]
    BY <1>1
  <2>2. cur[q] \in Records
    BY <1>1, <2>1 DEF LeaseInv, TypeOK, Holding, Ended
  <2>3. Holds(q, cur[q])
    BY <1>1, <2>1 DEF Holds
  <2> QED BY <1>1, <2>1, <2>2, <2>3 DEF LeaseInv, OneHolder
<1>2. LeaseCovers'
  <2> SUFFICES ASSUME NEW q \in Replayers, pc'[q] \in Holding
               PROVE  /\ status'[cur'[q]] = "pending"
                      /\ clock' <= deadline'[q]
                      /\ deadline'[q] + StillNeeded(q)' <= claimExpiry'[cur'[q]]
    BY DEF LeaseCovers
  <2>1. StillNeeded(q)' = StillNeeded(q)
    BY <1>1 DEF StillNeeded
  <2> QED BY <1>1, <2>1 DEF LeaseInv, LeaseCovers
<1>3. OneHolder'
  <2> SUFFICES ASSUME NEW q1 \in Replayers, NEW q2 \in Replayers, NEW r \in Records,
                      Holds(q1, r)', Holds(q2, r)'
               PROVE  q1 = q2
    BY DEF OneHolder
  <2> QED BY <1>1 DEF Holds, LeaseInv, OneHolder
<1>4. CallsSettled'
  <2> SUFFICES ASSUME NEW q \in Replayers, NEW r \in Records, <<q, r>> \in sent
               PROVE  \/ pc'[q] = "crashed"
                      \/ cur'[q] = r /\ pc'[q] \in {"answer", "resolve"}
                      \/ status'[r] = "replayed"
    BY DEF CallsSettled
  <2>1. CASE q = p
    BY <2>1 DEF LeaseInv, CallsSettled, Holds, Holding
  <2>2. CASE q # p
    BY <2>2 DEF LeaseInv, CallsSettled
  <2> QED BY <2>1, <2>2
<1>5. AtMostOnceUnlessCrash'
  BY DEF LeaseInv, AtMostOnceUnlessCrash
<1>6. OutcomeIsKept'
  BY <1>1, <1>2 DEF LeaseInv, OutcomeIsKept, LeaseCovers, At, Holding
<1> QED BY <1>2, <1>3, <1>4, <1>5, <1>6 DEF LeaseInv

\* A step that takes p from one holding step to the next keeps the invariant if
\* the new deadline fits the lease.
LEMMA HoldOn ==
    ASSUME LeaseInv, TypeOK', NEW p \in Replayers, OthersKept(p),
           pc[p] \in Holding, pc'[p] \in Holding, cur' = cur,
           clock' = clock, status' = status, claimExpiry' = claimExpiry,
           clock <= deadline'[p],
           deadline'[p] + StillNeeded(p)' <= claimExpiry[cur[p]],
           \/ sent' = sent /\ (pc[p] \in {"answer", "resolve"} => pc'[p] \in {"answer", "resolve"})
           \/ sent' = sent \cup {<<p, cur[p]>>} /\ pc'[p] = "answer"
    PROVE  LeaseInv'
<1> USE DEF OthersKept
<1>0. cur[p] \in Records /\ status[cur[p]] = "pending"
  BY DEF LeaseInv, TypeOK, LeaseCovers, Holding, Ended
<1>1. \A q \in Replayers : q # p => StillNeeded(q)' = StillNeeded(q)
  BY DEF StillNeeded
<1>2. LeaseCovers'
  <2> SUFFICES ASSUME NEW q \in Replayers, pc'[q] \in Holding
               PROVE  /\ status'[cur'[q]] = "pending"
                      /\ clock' <= deadline'[q]
                      /\ deadline'[q] + StillNeeded(q)' <= claimExpiry'[cur'[q]]
    BY DEF LeaseCovers
  <2>1. CASE q = p
    BY <1>0, <2>1
  <2>2. CASE q # p
    BY <1>1, <2>2 DEF LeaseInv, LeaseCovers
  <2> QED BY <2>1, <2>2
<1>3. OneHolder'
  BY DEF LeaseInv, OneHolder, Holds
<1>4. CallsSettled'
  <2> SUFFICES ASSUME NEW q \in Replayers, NEW r \in Records, <<q, r>> \in sent'
               PROVE  \/ pc'[q] = "crashed"
                      \/ cur'[q] = r /\ pc'[q] \in {"answer", "resolve"}
                      \/ status'[r] = "replayed"
    BY DEF CallsSettled
  <2>1. CASE <<q, r>> \notin sent
    BY <2>1
  <2>2. CASE <<q, r>> \in sent /\ q # p
    BY <2>2 DEF LeaseInv, CallsSettled
  <2>3. CASE <<q, r>> \in sent /\ q = p
    BY <2>3 DEF LeaseInv, CallsSettled, Holding
  <2> QED BY <2>1, <2>2, <2>3
<1>5. AtMostOnceUnlessCrash'
  <2> SUFFICES ASSUME NEW q1 \in Replayers, NEW q2 \in Replayers, NEW r \in Records,
                      <<q1, r>> \in sent', <<q2, r>> \in sent', q1 # q2
               PROVE  "crashed" \in {pc'[q1], pc'[q2]}
    BY DEF AtMostOnceUnlessCrash
  <2>1. ASSUME NEW q \in Replayers, q # p, <<q, cur[p]>> \in sent PROVE pc'[q] = "crashed"
    <3>1. Holds(p, cur[p])
      BY DEF Holds
    <3>2. ~Holds(q, cur[p])
      BY <1>0, <2>1, <3>1 DEF LeaseInv, OneHolder
    <3> QED BY <1>0, <2>1, <3>2 DEF LeaseInv, CallsSettled, Holds, Holding
  <2>2. CASE <<q1, r>> \in sent /\ <<q2, r>> \in sent
    <3>1. "crashed" \in {pc[q1], pc[q2]}
      BY <2>2 DEF LeaseInv, AtMostOnceUnlessCrash
    <3> QED BY <3>1 DEF Holding
  <2>3. CASE <<q1, r>> \notin sent
    BY <2>1, <2>3
  <2>4. CASE <<q2, r>> \notin sent
    BY <2>1, <2>4
  <2> QED BY <2>2, <2>3, <2>4
<1>6. OutcomeIsKept'
  BY <1>0 DEF LeaseInv, OutcomeIsKept, At, Holding
<1> QED BY <1>2, <1>3, <1>4, <1>5, <1>6 DEF LeaseInv

\* Every step keeps the lease invariant, if an invocation is done with a record
\* before its lease runs out: one case per action.
LEMMA LeaseStep == ASSUME HoldFitsLease PROVE LeaseInv /\ [Next]_vars => LeaseInv'
<1> SUFFICES ASSUME LeaseInv, [Next]_vars PROVE LeaseInv'
  OBVIOUS
<1> USE DlqAssumption, ReplayAssumption
<1>a. TypeOK
  BY DEF LeaseInv
<1>b. TypeOK'
  BY <1>a, TypeStep
<1>c. \A p \in Replayers : pc[p] \in Holding => cur[p] \in Records /\ Holds(p, cur[p])
  BY <1>a DEF TypeOK, Holding, Ended, Holds
<1>d. clock \in Nat /\ deadline \in [Replayers -> Nat] /\ claimExpiry \in [Records -> Timestamps]
  BY <1>a DEF TypeOK, DlqTypeOK
<1>1. ASSUME NEW r \in Records, Capture(r) PROVE LeaseInv'
  <2>1. /\ UNCHANGED <<clock, claimExpiry, pc, cur, deadline, sent>>
        /\ \A s \in Records : status[s] # "absent" => status'[s] = status[s]
    BY <1>1, <1>a DEF Capture, Enqueue, runVars, attemptVars, TypeOK, DlqTypeOK
  <2>2. \A p \in Replayers : StillNeeded(p)' = StillNeeded(p)
    BY <2>1 DEF StillNeeded
  <2>3. LeaseCovers'
    BY <1>c, <2>1, <2>2 DEF LeaseInv, LeaseCovers
  <2>4. OneHolder' /\ AtMostOnceUnlessCrash'
    BY <2>1 DEF LeaseInv, OneHolder, Holds, AtMostOnceUnlessCrash
  <2>5. CallsSettled'
    BY <2>1 DEF LeaseInv, CallsSettled
  <2>6. OutcomeIsKept'
    BY <1>c, <2>1 DEF LeaseInv, OutcomeIsKept, At, Holding
  <2> QED BY <1>b, <2>3, <2>4, <2>5, <2>6 DEF LeaseInv
<1>2. ASSUME NEW r \in Records, LiveSuccess(r) PROVE LeaseInv'
  <2>1. UNCHANGED <<clock, status, claimExpiry, pc, cur, deadline, sent>>
    BY <1>2 DEF LiveSuccess, runVars, attemptVars
  <2> QED BY <1>b, <2>1 DEF LeaseInv, LeaseCovers, StillNeeded, OneHolder, Holds, CallsSettled,
                            AtMostOnceUnlessCrash, OutcomeIsKept, At
<1>3. ASSUME Tick PROVE LeaseInv'
  <2>1. UNCHANGED <<status, claimExpiry, pc, cur, deadline, sent>> /\ clock' = clock + 1
    BY <1>3 DEF Tick, runVars, attemptVars
  <2>2. \A p \in Replayers : pc[p] \in Holding => clock + 1 <= deadline[p]
    BY <1>3, <1>d DEF Tick, Timed
  <2>3. LeaseCovers'
    BY <2>1, <2>2 DEF LeaseInv, LeaseCovers, StillNeeded
  <2> QED BY <1>b, <2>1, <2>3 DEF LeaseInv, OneHolder, Holds, CallsSettled,
                                  AtMostOnceUnlessCrash, OutcomeIsKept, At
<1>4. ASSUME NEW p \in Replayers, NEW m \in Commands, NEW r \in Records, StartRecord(p, m, r)
      PROVE  LeaseInv'
  <2>1. OthersKept(p) /\ pc'[p] \in {"exited", "verdict"} /\ pc[p] = "idle"
    BY <1>4, <1>a DEF StartRecord, TakeUp, Goto, At, OthersKept, attemptVars, TypeOK
  <2>2. UNCHANGED <<clock, status, claimExpiry, sent>>
    BY <1>4 DEF StartRecord, dlqVars
  <2> QED BY <1>b, <2>1, <2>2, LetGo DEF Holding, Holds
<1>5. ASSUME NEW p \in Replayers, NEW m \in Commands, StartBatch(p, m) PROVE LeaseInv'
  <2>1. OthersKept(p) /\ pc'[p] \in {"exited", "verdict"} /\ pc[p] = "idle"
    BY <1>5, <1>a DEF StartBatch, TakeUp, Goto, At, OthersKept, attemptVars, TypeOK
  <2>2. UNCHANGED <<clock, status, claimExpiry, sent>>
    BY <1>5 DEF StartBatch, dlqVars
  <2> QED BY <1>b, <2>1, <2>2, LetGo DEF Holding, Holds
<1>6. ASSUME NEW p \in Replayers, ComputeVerdict(p) PROVE LeaseInv'
  <2>1. OthersKept(p) /\ pc'[p] \in {"exited", "verdict", "claim"}
    <3>1. CASE Report(p, "skipped")
      BY <1>a, <3>1, ReportFrame DEF Reports
    <3>2. CASE Goto(p, "claim") /\ UNCHANGED <<cur, attemptVars>>
      BY <1>a, <3>2 DEF Goto, OthersKept, attemptVars, TypeOK
    <3> QED BY <1>6, <3>1, <3>2 DEF ComputeVerdict
  <2>2. UNCHANGED <<clock, status, claimExpiry, sent>> /\ pc[p] = "verdict"
    BY <1>6 DEF ComputeVerdict, dlqVars, At
  <2> QED BY <1>b, <2>1, <2>2, LetGo DEF Holding, Holds
<1>7. ASSUME NEW p \in Replayers, ClaimRecord(p) PROVE LeaseInv'
  <2>0. pc[p] = "claim" /\ clock' = clock /\ sent' = sent /\ cur[p] \in Records
    BY <1>7, <1>a DEF ClaimRecord, At, TypeOK, Ended
  <2>1. CASE Claim(cur[p]) /\ Continue(p, "connect", ConnectBound)
    <3>1. /\ OthersKept(p) /\ pc'[p] = "connect" /\ cur' = cur
          /\ deadline'[p] = clock + ConnectBound
      BY <1>a, <2>1, ContinueFrame
    <3>2. /\ status' = status /\ status[cur[p]] = "pending"
          /\ claimExpiry' = [claimExpiry EXCEPT ![cur[p]] = clock + Lease]
          /\ claimExpiry[cur[p]] = NULL \/ claimExpiry[cur[p]] < clock
      BY <2>1 DEF Claim, Claimable
    <3>3. \A q \in Replayers : pc[q] \in Holding => cur[q] # cur[p]
      \* A holder of the record would have a lease that is not over.
      <4> SUFFICES ASSUME NEW q \in Replayers, pc[q] \in Holding, cur[q] = cur[p] PROVE FALSE
        OBVIOUS
      <4>1. clock <= deadline[q] /\ deadline[q] + StillNeeded(q) <= claimExpiry[cur[p]]
        BY DEF LeaseInv, LeaseCovers
      <4>2. StillNeeded(q) \in Nat
        BY <2>0 DEF StillNeeded
      <4>3. clock \in Nat /\ deadline[q] \in Nat /\ claimExpiry[cur[p]] \in Nat \cup {-1}
        BY <1>d, <2>0 DEF Timestamps, NULL
      <4> QED BY <3>2, <4>1, <4>2, <4>3 DEF NULL
    <3>4. LeaseCovers'
      <4> SUFFICES ASSUME NEW q \in Replayers, pc'[q] \in Holding
                   PROVE  /\ status'[cur'[q]] = "pending"
                          /\ clock' <= deadline'[q]
                          /\ deadline'[q] + StillNeeded(q)' <= claimExpiry'[cur'[q]]
        BY DEF LeaseCovers
      <4>1. CASE q = p
        <5>1. StillNeeded(q)' = Timeout[cur[p]] + Slack
          BY <3>1, <4>1 DEF StillNeeded
        <5>2. claimExpiry'[cur[p]] = clock + Lease
          BY <1>d, <2>0, <3>2
        <5>3. ConnectBound + Timeout[cur[p]] + Slack <= Lease /\ Timeout[cur[p]] \in Nat
          BY <2>0 DEF HoldFitsLease
        <5> QED BY <1>d, <2>0, <3>1, <3>2, <4>1, <5>1, <5>2, <5>3
      <4>2. CASE q # p
        <5>1. pc[q] \in Holding /\ deadline'[q] = deadline[q] /\ StillNeeded(q)' = StillNeeded(q)
          BY <3>1, <4>2 DEF OthersKept, StillNeeded
        <5>2. cur[q] # cur[p] /\ claimExpiry'[cur[q]] = claimExpiry[cur[q]]
          BY <1>c, <1>d, <2>0, <3>2, <3>3, <5>1
        <5> QED BY <2>0, <3>1, <3>2, <5>1, <5>2 DEF LeaseInv, LeaseCovers
      <4> QED BY <4>1, <4>2
    <3>5. OneHolder'
      BY <3>1, <3>3 DEF LeaseInv, OneHolder, Holds, OthersKept, Holding
    <3>6. CallsSettled'
      BY <2>0, <3>1, <3>2 DEF LeaseInv, CallsSettled, OthersKept
    <3>7. AtMostOnceUnlessCrash'
      BY <2>0, <3>1 DEF LeaseInv, AtMostOnceUnlessCrash, OthersKept
    <3>8. OutcomeIsKept'
      BY <3>1, <3>2 DEF LeaseInv, OutcomeIsKept, At, OthersKept
    <3> QED BY <1>b, <3>4, <3>5, <3>6, <3>7, <3>8 DEF LeaseInv
  <2>2. CASE Report(p, "skipped") /\ UNCHANGED <<status, claimExpiry>>
    <3>1. OthersKept(p) /\ pc'[p] \in {"exited", "verdict"}
      BY <1>a, <2>2, ReportFrame DEF Reports
    <3> QED BY <1>b, <2>0, <2>2, <3>1, LetGo DEF Holding, Holds
  <2> QED BY <1>7, <2>1, <2>2 DEF ClaimRecord
<1>8. ASSUME NEW p \in Replayers, SendCall(p) PROVE LeaseInv'
  <2>1. pc[p] = "connect" /\ cur[p] \in Records
    BY <1>8, <1>c DEF SendCall, At, Holding
  <2>2. /\ OthersKept(p) /\ pc'[p] = "answer" /\ cur' = cur
        /\ deadline'[p] = clock + Timeout[cur[p]]
    BY <1>8, <1>a, ContinueFrame DEF SendCall
  <2>3. /\ UNCHANGED <<clock, status, claimExpiry>>
        /\ sent' = sent \cup {<<p, cur[p]>>}
    BY <1>8 DEF SendCall, dlqVars
  <2>4. deadline'[p] + StillNeeded(p)' <= claimExpiry[cur[p]] /\ clock <= deadline'[p]
    <3>1. /\ clock <= deadline[p]
          /\ deadline[p] + (Timeout[cur[p]] + Slack) <= claimExpiry[cur[p]]
      BY <2>1 DEF LeaseInv, LeaseCovers, StillNeeded, Holding
    <3>2. StillNeeded(p)' = Slack
      BY <2>2 DEF StillNeeded
    <3>3. clock \in Nat /\ deadline[p] \in Nat /\ claimExpiry[cur[p]] \in Int
          /\ Timeout[cur[p]] \in Nat
      BY <1>d, <2>1 DEF Timestamps, NULL
    <3> QED BY <2>2, <3>1, <3>2, <3>3
  <2> QED BY <1>b, <2>1, <2>2, <2>3, <2>4, HoldOn DEF Holding
<1>9. ASSUME NEW p \in Replayers, ConnectFails(p) PROVE LeaseInv'
  <2>1. pc[p] = "connect" /\ cur[p] \in Records
    BY <1>9, <1>c DEF ConnectFails, At, Holding
  <2>2. /\ OthersKept(p) /\ pc'[p] = "release" /\ cur' = cur
        /\ deadline'[p] = clock + Slack
    BY <1>9, <1>a, ContinueFrame DEF ConnectFails
  <2>3. UNCHANGED <<clock, status, claimExpiry, sent>>
    BY <1>9 DEF ConnectFails, dlqVars
  <2>4. deadline'[p] + StillNeeded(p)' <= claimExpiry[cur[p]] /\ clock <= deadline'[p]
    <3>1. /\ clock <= deadline[p]
          /\ deadline[p] + (Timeout[cur[p]] + Slack) <= claimExpiry[cur[p]]
      BY <2>1 DEF LeaseInv, LeaseCovers, StillNeeded, Holding
    <3>2. StillNeeded(p)' = 0
      BY <2>2 DEF StillNeeded
    <3>3. clock \in Nat /\ deadline[p] \in Nat /\ claimExpiry[cur[p]] \in Int
          /\ Timeout[cur[p]] \in Nat
      BY <1>d, <2>1 DEF Timestamps, NULL
    <3> QED BY <2>2, <3>1, <3>2, <3>3
  <2> QED BY <1>b, <2>1, <2>2, <2>3, <2>4, HoldOn DEF Holding
<1>10. ASSUME NEW p \in Replayers, Answer(p) PROVE LeaseInv'
  <2>1. pc[p] = "answer" /\ cur[p] \in Records
    BY <1>10, <1>c DEF Answer, At, Holding
  <2>2. /\ OthersKept(p) /\ pc'[p] = "resolve" /\ cur' = cur
        /\ deadline'[p] = clock + Slack
    BY <1>10, <1>a, ContinueFrame DEF Answer
  <2>3. UNCHANGED <<clock, status, claimExpiry, sent>>
    BY <1>10 DEF Answer, dlqVars
  <2>4. deadline'[p] + StillNeeded(p)' <= claimExpiry[cur[p]] /\ clock <= deadline'[p]
    <3>1. clock <= deadline[p] /\ deadline[p] + Slack <= claimExpiry[cur[p]]
      BY <2>1 DEF LeaseInv, LeaseCovers, StillNeeded, Holding
    <3>2. StillNeeded(p)' = 0
      BY <2>2 DEF StillNeeded
    <3>3. clock \in Nat /\ deadline[p] \in Nat /\ claimExpiry[cur[p]] \in Int
      BY <1>d, <2>1 DEF Timestamps, NULL
    <3> QED BY <2>2, <3>1, <3>2, <3>3
  <2> QED BY <1>b, <2>1, <2>2, <2>3, <2>4, HoldOn DEF Holding
<1>11. ASSUME NEW p \in Replayers, ReleaseRecord(p) PROVE LeaseInv'
  <2>1. pc[p] = "release" /\ cur[p] \in Records
    BY <1>11, <1>c DEF ReleaseRecord, At, Holding
  <2>2. OthersKept(p) /\ pc'[p] \in {"exited", "verdict"}
    BY <1>11, <1>a, ReportFrame DEF ReleaseRecord, Reports
  <2>3. /\ UNCHANGED <<clock, status, sent>>
        /\ \A r \in Records : r # cur[p] => claimExpiry'[r] = claimExpiry[r]
    BY <1>11, <1>d, <2>1 DEF ReleaseRecord, Release
  <2>4. \A r \in Records : Holds(p, r) <=> r = cur[p]
    BY <2>1 DEF Holds, Holding
  <2>5. <<p, cur[p]>> \notin sent
    BY <2>1 DEF LeaseInv, CallsSettled, LeaseCovers, Holding
  <2> QED BY <1>b, <2>1, <2>2, <2>3, <2>4, <2>5, LetGo DEF Holding
<1>12. ASSUME NEW p \in Replayers, ResolveRecord(p) PROVE LeaseInv'
  <2>1. pc[p] = "resolve" /\ cur[p] \in Records
    BY <1>12, <1>c DEF ResolveRecord, At, Holding
  <2>2. status[cur[p]] = "pending"
    BY <2>1 DEF LeaseInv, LeaseCovers, Holding
  <2>3. Resolve(cur[p]) /\ Continue(p, "audit", Slack) /\ clock' = clock /\ sent' = sent
    BY <1>12, <2>2 DEF ResolveRecord
  <2>4. OthersKept(p) /\ pc'[p] = "audit"
    BY <1>a, <2>3, ContinueFrame
  <2>5. /\ status' = [status EXCEPT ![cur[p]] = "replayed"] /\ claimExpiry' = claimExpiry
        /\ status \in [Records -> {"absent", "pending", "replayed"}]
    BY <1>a, <2>3 DEF Resolve, TypeOK, DlqTypeOK
  <2>6. \A r \in Records : Holds(p, r) <=> r = cur[p]
    BY <2>1 DEF Holds, Holding
  <2> QED BY <1>b, <2>1, <2>3, <2>4, <2>5, <2>6, LetGo DEF Holding
<1>13. ASSUME NEW p \in Replayers, AuditReplay(p) PROVE LeaseInv'
  <2>1. OthersKept(p) /\ pc'[p] \in {"exited", "verdict", "index"}
    <3>1. CASE Report(p, Outcome(p))
      BY <1>a, <3>1, ReportFrame DEF Outcome, Reports
    <3>2. CASE Continue(p, "index", Slack)
      BY <1>a, <3>2, ContinueFrame
    <3> QED BY <1>13, <3>1, <3>2 DEF AuditReplay
  <2>2. UNCHANGED <<clock, status, claimExpiry, sent>> /\ pc[p] = "audit"
    BY <1>13 DEF AuditReplay, dlqVars, At
  <2> QED BY <1>b, <2>1, <2>2, LetGo DEF Holding, Holds
<1>14. ASSUME NEW p \in Replayers, IndexExecution(p) PROVE LeaseInv'
  <2>1. OthersKept(p) /\ pc'[p] \in {"exited", "verdict"}
    BY <1>14, <1>a, ReportFrame DEF IndexExecution, Outcome, Reports
  <2>2. UNCHANGED <<clock, status, claimExpiry, sent>> /\ pc[p] = "index"
    BY <1>14 DEF IndexExecution, At
  <2> QED BY <1>b, <2>1, <2>2, LetGo DEF Holding, Holds
<1>15. ASSUME NEW p \in Replayers, Crash(p) PROVE LeaseInv'
  <2>1. OthersKept(p) /\ pc'[p] = "crashed"
    BY <1>15, <1>a DEF Crash, Goto, Forget, OthersKept, TypeOK
  <2>2. UNCHANGED <<clock, status, claimExpiry, sent>>
    BY <1>15 DEF Crash, dlqVars
  <2> QED BY <1>b, <2>1, <2>2, LetGo DEF Holding
<1>16. CASE UNCHANGED vars
  <2>1. UNCHANGED <<clock, status, claimExpiry, pc, cur, deadline, sent>>
    BY <1>16 DEF vars, dlqVars, runVars, attemptVars
  <2> QED BY <1>b, <2>1 DEF LeaseInv, LeaseCovers, StillNeeded, OneHolder, Holds, CallsSettled,
                            AtMostOnceUnlessCrash, OutcomeIsKept, At
<1> QED
  BY <1>1, <1>2, <1>3, <1>4, <1>5, <1>6, <1>7, <1>8, <1>9, <1>10, <1>11, <1>12, <1>13,
     <1>14, <1>15, <1>16 DEF Next, Start, Step

LEMMA LeaseInit == Init => LeaseInv
BY TypeInit DEF Init, LeaseInv, LeaseCovers, OneHolder, Holds, CallsSettled,
                AtMostOnceUnlessCrash, OutcomeIsKept, At, Holding

\* The inductive invariant, for every lease the holding time fits.
THEOREM LeaseSafe == ASSUME HoldFitsLease PROVE Spec => []LeaseInv
<1>1. LeaseInv /\ [Next]_vars => LeaseInv'
  BY LeaseStep
<1> QED BY <1>1, LeaseInit, PTL DEF Spec

\* No two live invocations ever work on the same record.
THEOREM MutualExclusion == ASSUME HoldFitsLease PROVE Spec => []OneHolder
<1>1. LeaseInv => OneHolder
  BY DEF LeaseInv
<1> QED BY <1>1, LeaseSafe, PTL

\* No record is executed twice unless one of the executors died.
THEOREM AtMostOnce == ASSUME HoldFitsLease PROVE Spec => []AtMostOnceUnlessCrash
<1>1. LeaseInv => AtMostOnceUnlessCrash
  BY DEF LeaseInv
<1> QED BY <1>1, LeaseSafe, PTL

\* No outcome of an executed call is refused by resolve(), no batch is aborted.
THEOREM OutcomeKept == ASSUME HoldFitsLease PROVE Spec => []OutcomeIsKept
<1>1. LeaseInv => OutcomeIsKept
  BY DEF LeaseInv
<1> QED BY <1>1, LeaseSafe, PTL

-----------------------------------------------------------------------------
(***************************************************************************)
(* What the commands leave behind and what they report.  None of these     *)
(* theorems needs an invocation to be faster than its lease.               *)
(***************************************************************************)

-----------------------------------------------------------------------------
\* What Report and Continue do to the invocation that calls them, and that they
\* do nothing to the others.

LocalKept(q) ==
    /\ pc'[q] = pc[q] /\ cur'[q] = cur[q] /\ result'[q] = result[q]
    /\ ok'[q] = ok[q] /\ at'[q] = at[q] /\ deadline'[q] = deadline[q]

AllOthersKept(p) == \A q \in Replayers \ {p} : LocalKept(q)

\* An invocation that has reported its record exits or takes up one that it has
\* not reported yet.
LEMMA ReportEffect ==
    ASSUME TypeOK, NEW p \in Replayers, cur[p] \in Records, NEW report \in Reports,
           Report(p, report)
    PROVE  /\ AllOthersKept(p)
           /\ pc'[p] \in {"exited", "verdict"}
           /\ result'[p] = [result[p] EXCEPT ![cur[p]] = report]
           /\ pc'[p] = "verdict" => cur'[p] \in Records /\ result'[p][cur'[p]] = "none"
<1> DEFINE left == {r \in selected[p] : result[p][r] = "none" /\ r # cur[p]}
<1>1. result' = [result EXCEPT ![p][cur[p]] = report] /\ TakeUp(p, left) /\ Forget(p)
  BY DEF Report
<1>2. left \subseteq Records
  BY DEF TypeOK
<1>3. result'[p] = [result[p] EXCEPT ![cur[p]] = report]
  BY <1>1 DEF TypeOK
<1>4. pc'[p] = "exited" \/ (pc'[p] = "verdict" /\ cur'[p] \in left)
  BY <1>1 DEF TypeOK, TakeUp, Goto
<1>5. \A r \in left : r \in Records /\ result'[p][r] = "none"
  BY <1>2, <1>3 DEF TypeOK
<1>6. AllOthersKept(p)
  <2> HIDE DEF left
  <2> QED BY <1>1 DEF TypeOK, TakeUp, Goto, Forget, AllOthersKept, LocalKept
<1> QED
  BY <1>3, <1>4, <1>5, <1>6

LEMMA ContinueEffect ==
    ASSUME TypeOK, NEW p \in Replayers, NEW label, NEW bound, Continue(p, label, bound)
    PROVE  /\ \A q \in Replayers \ {p} : pc'[q] = pc[q] /\ deadline'[q] = deadline[q]
           /\ cur' = cur /\ result' = result
           /\ pc'[p] = label /\ deadline'[p] = clock + bound
BY DEF TypeOK, Continue, Goto

-----------------------------------------------------------------------------
\* The steps that neither replay, audit nor index a record: they touch none of
\* the three tables but for a row a live call refreshes, and they bring nobody to
\* the statements that write them.
Quiet ==
    /\ audit' = audit
    /\ \A r \in Records : status'[r] = "replayed" <=> status[r] = "replayed"
    /\ \A k \in Keys : executions'[k] = executions[k] \/ executions'[k].at = clock
    /\ \/ clock' = clock
       \/ clock' = clock + 1 /\ \A p \in Replayers : pc[p] \in Timed => clock < deadline[p]
    /\ \A p \in Replayers :
          /\ pc'[p] \in {"audit", "index"} => LocalKept(p)
          /\ pc[p] \in {"audit", "index", "crashed"} =>
                 cur'[p] = cur[p] /\ pc'[p] \in {pc[p], "crashed"}

\* The steps of p outside the last three statements are quiet.
LEMMA QuietStep ==
    ASSUME NEW p \in Replayers, AllOthersKept(p), audit' = audit, clock' = clock,
           executions' = executions,
           \A r \in Records : status'[r] = "replayed" <=> status[r] = "replayed",
           pc'[p] \notin {"audit", "index"},
           \/ pc[p] \notin {"audit", "index", "crashed"}
           \/ pc'[p] = "crashed" /\ cur'[p] = cur[p]
    PROVE  Quiet
BY DEF Quiet, AllOthersKept, LocalKept

LEMMA MostStepsAreQuiet ==
    ASSUME TypeOK, [Next]_vars,
           ~ \E p \in Replayers : ResolveRecord(p) \/ AuditReplay(p) \/ IndexExecution(p)
    PROVE  Quiet
<1> USE DlqAssumption, ReplayAssumption
<1>0. \A p \in Replayers : pc[p] \notin {"idle"} \cup Ended => cur[p] \in Records
  BY DEF TypeOK
<1>1. ASSUME NEW r \in Records, Capture(r) PROVE Quiet
  BY <1>1 DEF TypeOK, DlqTypeOK, Capture, Enqueue, Quiet, LocalKept, runVars, attemptVars
<1>2. ASSUME NEW r \in Records, LiveSuccess(r) PROVE Quiet
  BY <1>2 DEF TypeOK, DlqTypeOK, LiveSuccess, RecordExecution, Quiet, LocalKept, runVars,
              attemptVars
<1>3. CASE Tick
  BY <1>3 DEF Tick, Quiet, LocalKept, runVars, attemptVars
<1>4. ASSUME NEW p \in Replayers, NEW m \in Commands, NEW r \in Records, StartRecord(p, m, r)
      PROVE  Quiet
  <2>1. AllOthersKept(p) /\ pc[p] = "idle" /\ pc'[p] \in {"exited", "verdict"}
    BY <1>4 DEF TypeOK, StartRecord, TakeUp, Goto, At, AllOthersKept, LocalKept, attemptVars
  <2> QED BY <1>4, <2>1, QuietStep DEF StartRecord, dlqVars
<1>5. ASSUME NEW p \in Replayers, NEW m \in Commands, StartBatch(p, m) PROVE Quiet
  <2>1. AllOthersKept(p) /\ pc[p] = "idle" /\ pc'[p] \in {"exited", "verdict"}
    BY <1>5 DEF TypeOK, StartBatch, TakeUp, Goto, At, AllOthersKept, LocalKept, attemptVars
  <2> QED BY <1>5, <2>1, QuietStep DEF StartBatch, dlqVars
<1>6. ASSUME NEW p \in Replayers, ComputeVerdict(p) PROVE Quiet
  <2>1. pc[p] = "verdict" /\ cur[p] \in Records
    BY <1>0, <1>6 DEF ComputeVerdict, At, Ended
  <2>2. AllOthersKept(p) /\ pc'[p] \in {"exited", "verdict", "claim"}
    <3>1. CASE Report(p, "skipped")
      BY <2>1, <3>1, ReportEffect DEF Reports
    <3>2. CASE Goto(p, "claim") /\ UNCHANGED <<cur, result, attemptVars>>
      BY <3>2 DEF TypeOK, Goto, AllOthersKept, LocalKept, attemptVars
    <3> QED BY <1>6, <3>1, <3>2 DEF ComputeVerdict
  <2> QED BY <1>6, <2>1, <2>2, QuietStep DEF ComputeVerdict, dlqVars
<1>7. ASSUME NEW p \in Replayers, ClaimRecord(p) PROVE Quiet
  <2>1. pc[p] = "claim" /\ cur[p] \in Records
    BY <1>0, <1>7 DEF ClaimRecord, At, Ended
  <2>2. AllOthersKept(p) /\ pc'[p] \in {"exited", "verdict", "connect"} /\ status' = status
    <3>1. CASE Report(p, "skipped") /\ UNCHANGED status
      BY <2>1, <3>1, ReportEffect DEF Reports
    <3>2. CASE Claim(cur[p]) /\ Continue(p, "connect", ConnectBound) /\ UNCHANGED <<ok, at>>
      BY <3>2, ContinueEffect DEF Claim, AllOthersKept, LocalKept
    <3> QED BY <1>7, <3>1, <3>2 DEF ClaimRecord
  <2> QED BY <1>7, <2>1, <2>2, QuietStep DEF ClaimRecord
<1>8. ASSUME NEW p \in Replayers, SendCall(p) \/ ConnectFails(p) PROVE Quiet
  <2>1. pc[p] = "connect"
    BY <1>8 DEF SendCall, ConnectFails, At
  <2>2. AllOthersKept(p) /\ pc'[p] \in {"answer", "release"}
    BY <1>8, ContinueEffect DEF SendCall, ConnectFails, AllOthersKept, LocalKept
  <2> QED BY <1>8, <2>1, <2>2, QuietStep DEF SendCall, ConnectFails, dlqVars
<1>9. ASSUME NEW p \in Replayers, Answer(p) PROVE Quiet
  <2>1. pc[p] = "answer"
    BY <1>9 DEF Answer, At
  <2>2. \A q \in Replayers \ {p} : ok'[q] = ok[q] /\ at'[q] = at[q]
    BY <1>9 DEF TypeOK, Answer
  <2>3. AllOthersKept(p) /\ pc'[p] = "resolve"
    BY <1>9, <2>2, ContinueEffect DEF Answer, AllOthersKept, LocalKept
  <2> QED BY <1>9, <2>1, <2>3, QuietStep DEF Answer, dlqVars
<1>10. ASSUME NEW p \in Replayers, ReleaseRecord(p) PROVE Quiet
  <2>1. pc[p] = "release" /\ cur[p] \in Records
    BY <1>0, <1>10 DEF ReleaseRecord, At, Ended
  <2>2. AllOthersKept(p) /\ pc'[p] \in {"exited", "verdict"}
    BY <1>10, <2>1, ReportEffect DEF ReleaseRecord, Reports
  <2> QED BY <1>10, <2>1, <2>2, QuietStep DEF ReleaseRecord, Release
<1>11. ASSUME NEW p \in Replayers, Crash(p) PROVE Quiet
  <2>1. AllOthersKept(p) /\ pc'[p] = "crashed" /\ cur' = cur
    BY <1>11 DEF TypeOK, Crash, Goto, Forget, AllOthersKept, LocalKept
  <2> QED BY <1>11, <2>1, QuietStep DEF Crash, dlqVars
<1>12. CASE UNCHANGED vars
  BY <1>12 DEF vars, dlqVars, runVars, attemptVars, Quiet, LocalKept
<1> QED
  BY <1>1, <1>2, <1>3, <1>4, <1>5, <1>6, <1>7, <1>8, <1>9, <1>10, <1>11, <1>12
     DEF Next, Start, Step

-----------------------------------------------------------------------------
\* One audit entry for every replay, and one replay for every audit entry.

\* A record at its audit statement is resolved, is not audited yet, and has one
\* invocation there: resolve() lets only one pass.
AuditInv ==
    /\ \A e \in audit : status[e.record] = "replayed"
    /\ \A e, f \in audit : e.record = f.record => e = f
    /\ \A p \in Replayers : At(p, "audit") =>
          status[cur[p]] = "replayed" /\ \A e \in audit : e.record # cur[p]
    /\ \A p, q \in Replayers : At(p, "audit") /\ At(q, "audit") /\ cur[p] = cur[q] => p = q
    /\ \A r \in Records : status[r] = "replayed" =>
          \/ \E e \in audit : e.record = r
          \/ \E p \in Replayers : cur[p] = r /\ pc[p] \in {"audit", "crashed"}

LEMMA QuietKeepsAudit == TypeOK /\ AuditInv /\ Quiet => AuditInv'
<1> SUFFICES ASSUME TypeOK, AuditInv, Quiet PROVE AuditInv'
  OBVIOUS
<1>1. /\ audit' = audit /\ \A e \in audit : e.record \in Records
      /\ \A r \in Records : status'[r] = "replayed" <=> status[r] = "replayed"
  BY DEF Quiet, TypeOK, AuditEntries
<1>2. \A p \in Replayers : At(p, "audit")' => At(p, "audit") /\ cur'[p] = cur[p] /\ cur[p] \in Records
  BY DEF Quiet, LocalKept, At, TypeOK, Ended
<1>3. \A p \in Replayers : pc[p] \in {"audit", "crashed"} =>
          cur'[p] = cur[p] /\ pc'[p] \in {"audit", "crashed"}
  BY DEF Quiet
<1> QED
  BY <1>1, <1>2, <1>3 DEF AuditInv, At

\* resolve() finds the record pending, so nobody has audited it or is about to.
LEMMA ResolveKeepsAudit ==
    ASSUME TypeOK, AuditInv, NEW p \in Replayers, ResolveRecord(p)
    PROVE  AuditInv'
<1>1. pc[p] = "resolve" /\ cur[p] \in Records /\ audit' = audit
  BY DEF ResolveRecord, At, TypeOK, Ended
<1>2. CASE status[cur[p]] = "pending"
  <2>1. Resolve(cur[p]) /\ Continue(p, "audit", Slack)
    BY <1>2 DEF ResolveRecord
  <2>2. /\ \A r \in Records : status'[r] = IF r = cur[p] THEN "replayed" ELSE status[r]
        /\ cur' = cur /\ pc'[p] = "audit" /\ \A q \in Replayers \ {p} : pc'[q] = pc[q]
    BY <1>1, <2>1, ContinueEffect DEF Resolve, TypeOK, DlqTypeOK
  <2>3. \A e \in audit : e.record \in Records /\ e.record # cur[p]
    BY <1>2 DEF AuditInv, TypeOK, AuditEntries
  <2>4. \A q \in Replayers : pc[q] = "audit" => cur[q] \in Records /\ cur[q] # cur[p]
    BY <1>2 DEF AuditInv, At, TypeOK, Ended
  <2> QED
    BY <1>1, <2>2, <2>3, <2>4 DEF AuditInv, At
<1>3. CASE status[cur[p]] # "pending"
  <2>1. status' = status
    BY <1>3 DEF ResolveRecord, Resolve
  <2>2. pc'[p] \in {"exited", "verdict", "aborted"} /\ \A q \in Replayers \ {p} : pc'[q] = pc[q] /\ cur'[q] = cur[q]
    <3>1. CASE Goto(p, "aborted") /\ UNCHANGED cur
      BY <3>1 DEF Goto, TypeOK
    <3>2. CASE Report(p, "failed")
      BY <1>1, <3>2, ReportEffect DEF AllOthersKept, LocalKept, Reports
    <3> QED
      BY <1>3, <3>1, <3>2 DEF ResolveRecord, Resolve
  <2> QED
    BY <1>1, <2>1, <2>2 DEF AuditInv, At
<1> QED
  BY <1>2, <1>3

LEMMA AuditKeepsAudit ==
    ASSUME TypeOK, AuditInv, NEW p \in Replayers, AuditReplay(p)
    PROVE  AuditInv'
<1> DEFINE entry == [record |-> cur[p], by |-> p, ok |-> ok[p], at |-> at[p]]
<1>1. pc[p] = "audit" /\ cur[p] \in Records /\ status' = status /\ audit' = audit \cup {entry}
  BY DEF AuditReplay, At, TypeOK, Ended, dlqVars
<1>2. /\ pc'[p] \in {"exited", "verdict", "index"}
      /\ \A q \in Replayers \ {p} : pc'[q] = pc[q] /\ cur'[q] = cur[q]
  <2>1. CASE Continue(p, "index", Slack)
    BY <2>1, ContinueEffect
  <2>2. CASE Report(p, Outcome(p))
    BY <1>1, <2>2, ReportEffect DEF AllOthersKept, LocalKept, Outcome, Reports
  <2> QED
    BY <2>1, <2>2 DEF AuditReplay
<1>3. entry.record = cur[p]
  OBVIOUS
<1> HIDE DEF entry
<1> QED
  BY <1>1, <1>2, <1>3 DEF AuditInv, At

LEMMA IndexKeepsAudit ==
    ASSUME TypeOK, AuditInv, NEW p \in Replayers, IndexExecution(p)
    PROVE  AuditInv'
<1>1. pc[p] = "index" /\ cur[p] \in Records /\ status' = status /\ audit' = audit
  BY DEF IndexExecution, At, TypeOK, Ended
<1>2. /\ pc'[p] \in {"exited", "verdict"}
      /\ \A q \in Replayers \ {p} : pc'[q] = pc[q] /\ cur'[q] = cur[q]
  BY <1>1, ReportEffect DEF IndexExecution, AllOthersKept, LocalKept, Outcome, Reports
<1> QED
  BY <1>1, <1>2 DEF AuditInv, At

\* However leases expire and calls are repeated, a replayed record has exactly
\* one audit entry, unless the invocation that resolved it died right there.
THEOREM OneAudit == Spec => []OneAuditPerReplay
<1>1. Init => AuditInv
  BY DEF Init, DlqInit, AuditInv, At
<1>2. TypeOK /\ AuditInv /\ [Next]_vars => AuditInv'
  BY MostStepsAreQuiet, QuietKeepsAudit, ResolveKeepsAudit, AuditKeepsAudit, IndexKeepsAudit
<1>3. AuditInv => OneAuditPerReplay
  BY DEF AuditInv, OneAuditPerReplay
<1> QED
  BY <1>1, <1>2, <1>3, TypeCorrect, PTL DEF Spec

-----------------------------------------------------------------------------
\* The idempotency guard.

Keyed(e) == e.ok /\ ArgKey[e.record] # NoKey

\* The invocation that wrote e is about to index the execution.
Indexing(e) == At(e.by, "index") /\ cur[e.by] = e.record /\ at[e.by] = e.at

\* The row of the key of e is not much older than e: a replay that resolved
\* before e may index after it.
Indexed(e) ==
    /\ executions[ArgKey[e.record]].at # NULL
    /\ executions[ArgKey[e.record]].at + 2 * Slack >= e.at

\* Between resolve() and the index lie two statements of at most Slack each.
GuardInv ==
    /\ \A e \in audit : e.at <= clock
    /\ \A p \in Replayers : At(p, "audit") =>
          at[p] <= clock /\ clock <= deadline[p] /\ deadline[p] <= at[p] + Slack
    /\ \A p \in Replayers : At(p, "index") =>
          /\ at[p] <= clock /\ clock <= deadline[p] /\ deadline[p] <= at[p] + 2 * Slack
          /\ ArgKey[cur[p]] # NoKey
    /\ \A e \in audit : Keyed(e) => At(e.by, "crashed") \/ Indexing(e) \/ Indexed(e)

\* What the proofs need to know of the types.
LEMMA EntryType ==
    ASSUME TypeOK, NEW e \in audit
    PROVE  /\ e.record \in Records /\ e.by \in Replayers /\ e.ok \in BOOLEAN /\ e.at \in Nat
           /\ Keyed(e) => ArgKey[e.record] \in Keys
BY DlqAssumption DEF TypeOK, AuditEntries, Keyed

LEMMA IndexRowType == ASSUME TypeOK, NEW k \in Keys PROVE executions[k].at \in Nat \cup {NULL}
BY DEF TypeOK, DlqTypeOK, Timestamps

LEMMA TimeTypes ==
    ASSUME TypeOK
    PROVE  /\ clock \in Nat /\ Slack \in Nat /\ NULL = -1
           /\ \A p \in Replayers : at[p] \in Nat /\ deadline[p] \in Nat
BY ReplayAssumption DEF TypeOK, DlqTypeOK, NULL

\* A row that is written now is younger than every audit entry.
LEMMA QuietKeepsGuard == TypeOK /\ GuardInv /\ Quiet => GuardInv'
<1> SUFFICES ASSUME TypeOK, GuardInv, Quiet PROVE GuardInv'
  OBVIOUS
<1>1. audit' = audit /\ clock' \in Nat /\ clock <= clock'
  BY TimeTypes DEF Quiet
<1>2. \A e \in audit' : e.at <= clock'
  <2> SUFFICES ASSUME NEW e \in audit PROVE e.at <= clock'
    BY <1>1
  <2> QED
    BY <1>1, EntryType, TimeTypes DEF GuardInv
<1>3. ASSUME NEW p \in Replayers, pc'[p] \in {"audit", "index"}
      PROVE  LocalKept(p) /\ clock' <= deadline[p] /\ pc[p] = pc'[p]
  <2>1. LocalKept(p) /\ pc[p] = pc'[p]
    BY <1>3 DEF Quiet, LocalKept
  <2>2. clock <= deadline[p] /\ pc[p] \in Timed
    BY <1>3, <2>1 DEF GuardInv, At, Timed
  <2> QED
    BY <2>1, <2>2, TimeTypes DEF Quiet
<1>4. \A p \in Replayers : At(p, "audit")' =>
          at'[p] <= clock' /\ clock' <= deadline'[p] /\ deadline'[p] <= at'[p] + Slack
  BY <1>1, <1>3, TimeTypes DEF GuardInv, At, LocalKept
<1>5. \A p \in Replayers : At(p, "index")' =>
          /\ at'[p] <= clock' /\ clock' <= deadline'[p] /\ deadline'[p] <= at'[p] + 2 * Slack
          /\ ArgKey[cur'[p]] # NoKey
  BY <1>1, <1>3, TimeTypes DEF GuardInv, At, LocalKept
<1>6. ASSUME NEW e \in audit, Keyed(e) PROVE (At(e.by, "crashed") \/ Indexing(e) \/ Indexed(e))'
  <2>1. e.by \in Replayers /\ e.at \in Nat /\ ArgKey[e.record] \in Keys
    BY <1>6, EntryType
  <2>2. CASE At(e.by, "crashed")
    BY <2>1, <2>2 DEF Quiet, At
  <2>3. CASE Indexing(e)
    BY <2>1, <2>3 DEF Quiet, Indexing, At, LocalKept
  <2>4. CASE Indexed(e)
    <3>1. executions'[ArgKey[e.record]] = executions[ArgKey[e.record]]
              \/ executions'[ArgKey[e.record]].at = clock
      BY <2>1 DEF Quiet
    <3>2. e.at <= clock
      BY DEF GuardInv
    <3> QED
      BY <2>1, <2>4, <3>1, <3>2, TimeTypes DEF Indexed
  <2> QED
    BY <1>6, <2>2, <2>3, <2>4 DEF GuardInv
<1> QED
  BY <1>1, <1>2, <1>4, <1>5, <1>6 DEF GuardInv, Keyed

\* Entries of other invocations are not affected by a step of p that leaves the
\* index alone, nor are their statements.
LEMMA OthersKeepGuard ==
    ASSUME TypeOK, GuardInv, NEW p \in Replayers, AllOthersKept(p), clock' = clock
    PROVE  /\ \A q \in Replayers \ {p} : At(q, "audit")' =>
                 at'[q] <= clock' /\ clock' <= deadline'[q] /\ deadline'[q] <= at'[q] + Slack
           /\ \A q \in Replayers \ {p} : At(q, "index")' =>
                 /\ at'[q] <= clock' /\ clock' <= deadline'[q] /\ deadline'[q] <= at'[q] + 2 * Slack
                 /\ ArgKey[cur'[q]] # NoKey
           /\ \A e \in audit : Keyed(e) /\ e.by # p =>
                 (At(e.by, "crashed") \/ Indexing(e))' \/ Indexed(e)
<1>1. \A q \in Replayers \ {p} : LocalKept(q)
  BY DEF AllOthersKept
<1>2. \A e \in audit : e.by \in Replayers
  BY EntryType
<1> QED
  BY <1>1, <1>2 DEF GuardInv, At, LocalKept, Indexing

LEMMA ResolveKeepsGuard ==
    ASSUME TypeOK, TypeOK', GuardInv, NEW p \in Replayers, ResolveRecord(p)
    PROVE  GuardInv'
<1>1. /\ pc[p] = "resolve" /\ cur[p] \in Records
      /\ audit' = audit /\ clock' = clock /\ executions' = executions
  BY DEF ResolveRecord, At, TypeOK, Ended
<1>2. /\ AllOthersKept(p)
      /\ \/ pc'[p] \in {"exited", "verdict", "aborted"}
         \/ pc'[p] = "audit" /\ at'[p] = clock /\ deadline'[p] = clock + Slack
  <2>1. CASE Continue(p, "audit", Slack) /\ at' = [at EXCEPT ![p] = clock] /\ UNCHANGED ok
    BY <2>1, ContinueEffect DEF AllOthersKept, LocalKept, TypeOK
  <2>2. CASE Goto(p, "aborted") /\ Forget(p) /\ UNCHANGED <<cur, result>>
    BY <2>2 DEF Goto, Forget, AllOthersKept, LocalKept, TypeOK
  <2>3. CASE Report(p, "failed")
    BY <1>1, <2>3, ReportEffect DEF Reports
  <2> QED
    BY <2>1, <2>2, <2>3 DEF ResolveRecord
<1>3. \A e \in audit : Keyed(e) => (At(e.by, "crashed") \/ Indexing(e) \/ Indexed(e))'
  <2> SUFFICES ASSUME NEW e \in audit, Keyed(e)
               PROVE  (At(e.by, "crashed") \/ Indexing(e) \/ Indexed(e))'
    OBVIOUS
  <2>1. CASE e.by # p
    BY <1>1, <1>2, <2>1, OthersKeepGuard DEF Indexed
  <2>2. CASE e.by = p
    BY <1>1, <2>2 DEF GuardInv, At, Indexing, Indexed
  <2> QED
    BY <2>1, <2>2
<1>4. \A q \in Replayers : At(q, "audit")' =>
          at'[q] <= clock' /\ clock' <= deadline'[q] /\ deadline'[q] <= at'[q] + Slack
  BY <1>1, <1>2, OthersKeepGuard, TimeTypes DEF At
<1>5. \A q \in Replayers : At(q, "index")' =>
          /\ at'[q] <= clock' /\ clock' <= deadline'[q] /\ deadline'[q] <= at'[q] + 2 * Slack
          /\ ArgKey[cur'[q]] # NoKey
  BY <1>1, <1>2, OthersKeepGuard DEF At
<1> QED
  BY <1>1, <1>3, <1>4, <1>5 DEF GuardInv, Keyed

\* The entry p writes is its own last attempt, which it goes on to index.
LEMMA AuditKeepsGuard ==
    ASSUME TypeOK, TypeOK', GuardInv, NEW p \in Replayers, AuditReplay(p)
    PROVE  GuardInv'
<1> DEFINE entry == [record |-> cur[p], by |-> p, ok |-> ok[p], at |-> at[p]]
<1>1. /\ pc[p] = "audit" /\ cur[p] \in Records
      /\ audit' = audit \cup {entry} /\ clock' = clock /\ executions' = executions
  BY DEF AuditReplay, At, TypeOK, Ended, dlqVars
<1>2. /\ AllOthersKept(p)
      /\ \/ /\ pc'[p] \in {"exited", "verdict"}
            /\ ~Keyed(entry)
         \/ /\ pc'[p] = "index" /\ deadline'[p] = clock + Slack
            /\ ok'[p] = ok[p] /\ at'[p] = at[p] /\ cur'[p] = cur[p]
            /\ ArgKey[cur[p]] # NoKey
  <2>1. CASE ok[p] /\ ArgKey[cur[p]] # NoKey /\ Continue(p, "index", Slack) /\ UNCHANGED <<ok, at>>
    <3>1. /\ \A q \in Replayers \ {p} : pc'[q] = pc[q] /\ deadline'[q] = deadline[q]
          /\ cur' = cur /\ result' = result
          /\ pc'[p] = "index" /\ deadline'[p] = clock + Slack
      BY <2>1, ContinueEffect
    <3> HIDE DEF entry
    <3> QED
      BY <2>1, <3>1 DEF AllOthersKept, LocalKept
  <2>2. CASE ~(ok[p] /\ ArgKey[cur[p]] # NoKey) /\ Report(p, Outcome(p))
    BY <1>1, <2>2, ReportEffect DEF Outcome, Reports, Keyed
  <2> QED
    BY <2>1, <2>2 DEF AuditReplay
<1>3. entry.by = p /\ entry.record = cur[p] /\ entry.at = at[p]
  OBVIOUS
<1> HIDE DEF entry
<1>4. at[p] <= clock /\ clock <= at[p] + Slack
  BY <1>1, TimeTypes DEF GuardInv, At
<1>5. ASSUME NEW e \in audit', Keyed(e) PROVE (At(e.by, "crashed") \/ Indexing(e) \/ Indexed(e))'
  <2>1. CASE e = entry
    BY <1>2, <1>3, <1>5, <2>1 DEF Indexing, At
  <2>2. CASE e \in audit /\ e.by # p
    BY <1>1, <1>2, <1>5, <2>2, OthersKeepGuard DEF Indexed
  <2>3. CASE e \in audit /\ e.by = p
    BY <1>1, <1>5, <2>3 DEF GuardInv, At, Indexing, Indexed
  <2> QED
    BY <1>1, <2>1, <2>2, <2>3
<1>6. \A q \in Replayers : At(q, "audit")' =>
          at'[q] <= clock' /\ clock' <= deadline'[q] /\ deadline'[q] <= at'[q] + Slack
  BY <1>1, <1>2, OthersKeepGuard DEF At
<1>7. \A q \in Replayers : At(q, "index")' =>
          /\ at'[q] <= clock' /\ clock' <= deadline'[q] /\ deadline'[q] <= at'[q] + 2 * Slack
          /\ ArgKey[cur'[q]] # NoKey
  <2>1. At(p, "index")' =>
          /\ at'[p] <= clock' /\ clock' <= deadline'[p] /\ deadline'[p] <= at'[p] + 2 * Slack
          /\ ArgKey[cur'[p]] # NoKey
    BY <1>1, <1>2, <1>4, TimeTypes DEF At
  <2> QED
    BY <1>1, <1>2, <2>1, OthersKeepGuard
<1>8. \A e \in audit' : e.at <= clock'
  BY <1>1, <1>3, <1>4 DEF GuardInv
<1> QED
  BY <1>5, <1>6, <1>7, <1>8 DEF GuardInv, Keyed

\* The row p writes is at most 2 * Slack old, so no entry is much younger.
LEMMA IndexKeepsGuard ==
    ASSUME TypeOK, TypeOK', GuardInv, NEW p \in Replayers, IndexExecution(p)
    PROVE  GuardInv'
<1>1. /\ pc[p] = "index" /\ cur[p] \in Records /\ ArgKey[cur[p]] \in Keys
      /\ audit' = audit /\ clock' = clock
  BY DlqAssumption DEF IndexExecution, GuardInv, At, TypeOK, Ended
<1>2. AllOthersKept(p) /\ pc'[p] \in {"exited", "verdict"}
  BY <1>1, ReportEffect DEF IndexExecution, Outcome, Reports
<1>3. at[p] \in Nat /\ clock <= at[p] + 2 * Slack
  BY <1>1, TimeTypes DEF GuardInv, At
<1>4. \A k \in Keys : \/ k # ArgKey[cur[p]] /\ executions'[k] = executions[k]
                      \/ k = ArgKey[cur[p]] /\ executions'[k].at = at[p]
  BY <1>1 DEF IndexExecution, RecordExecution, TypeOK, DlqTypeOK
<1>5. ASSUME NEW e \in audit, Keyed(e) PROVE (At(e.by, "crashed") \/ Indexing(e) \/ Indexed(e))'
  <2>1. e.by \in Replayers /\ e.at \in Nat /\ e.at <= clock /\ ArgKey[e.record] \in Keys
    BY <1>5, EntryType DEF GuardInv
  <2>2. CASE ArgKey[e.record] = ArgKey[cur[p]]
    BY <1>3, <1>4, <2>1, <2>2, TimeTypes DEF Indexed
  <2>3. CASE ArgKey[e.record] # ArgKey[cur[p]]
    <3>1. executions'[ArgKey[e.record]] = executions[ArgKey[e.record]]
      BY <1>4, <2>1, <2>3
    <3>2. CASE e.by # p
      BY <1>1, <1>2, <1>5, <3>1, <3>2, OthersKeepGuard DEF Indexed
    <3>3. CASE e.by = p
      BY <1>1, <1>5, <2>3, <3>1, <3>3 DEF GuardInv, At, Indexing, Indexed
    <3> QED
      BY <3>2, <3>3
  <2> QED
    BY <2>2, <2>3
<1>6. \A q \in Replayers : At(q, "audit")' =>
          at'[q] <= clock' /\ clock' <= deadline'[q] /\ deadline'[q] <= at'[q] + Slack
  BY <1>1, <1>2, OthersKeepGuard DEF At
<1>7. \A q \in Replayers : At(q, "index")' =>
          /\ at'[q] <= clock' /\ clock' <= deadline'[q] /\ deadline'[q] <= at'[q] + 2 * Slack
          /\ ArgKey[cur'[q]] # NoKey
  BY <1>1, <1>2, OthersKeepGuard DEF At
<1> QED
  BY <1>1, <1>5, <1>6, <1>7 DEF GuardInv, Keyed

LEMMA GuardStep == TypeOK /\ TypeOK' /\ GuardInv /\ [Next]_vars => GuardInv'
BY MostStepsAreQuiet, QuietKeepsGuard, ResolveKeepsGuard, AuditKeepsGuard, IndexKeepsGuard

\* Only the guard itself, passed, takes an invocation from its verdict to the
\* claim; every other step moves it elsewhere or leaves it where it is.
LEMMA OnlyThroughTheGuard ==
    ASSUME TypeOK, [Next]_vars, NEW q \in Replayers, At(q, "verdict"), At(q, "claim")'
    PROVE  ComputeVerdict(q) /\ ~Refused(q)
<1>0. \A p \in Replayers : pc[p] \notin {"idle"} \cup Ended => cur[p] \in Records
  BY DEF TypeOK
<1>1. pc[q] = "verdict" /\ pc'[q] = "claim" /\ pc' # pc
  BY DEF At
<1>2. ASSUME NEW p \in Replayers, p # q,
             \/ ComputeVerdict(p) \/ ClaimRecord(p) \/ SendCall(p) \/ ConnectFails(p)
             \/ ReleaseRecord(p) \/ Answer(p) \/ ResolveRecord(p) \/ AuditReplay(p)
             \/ IndexExecution(p) \/ Crash(p) \/ Start(p)
      PROVE  pc'[q] = pc[q]
  <2>1. Outcome(p) \in Reports /\ "skipped" \in Reports /\ "failed" \in Reports
    BY DEF Outcome, Reports
  <2>2. \A label, bound : Continue(p, label, bound) => pc'[q] = pc[q]
    BY <1>2, ContinueEffect
  <2>3. \A label : Goto(p, label) => pc'[q] = pc[q]
    BY <1>2 DEF Goto, TypeOK
  <2>4. \A left : TakeUp(p, left) => pc'[q] = pc[q]
    BY <1>2, <2>3 DEF TakeUp
  <2>5. \A report : Report(p, report) => pc'[q] = pc[q]
    BY <2>4 DEF Report
  <2> QED
    BY <1>2, <2>2, <2>3, <2>4, <2>5
       DEF ComputeVerdict, ClaimRecord, SendCall, ConnectFails, ReleaseRecord, Answer,
           ResolveRecord, AuditReplay, IndexExecution, Crash, Start, StartRecord, StartBatch
<1>3. ~ (\E r \in Records : Capture(r) \/ LiveSuccess(r)) /\ ~Tick /\ ~UNCHANGED vars
  BY <1>1 DEF Capture, LiveSuccess, Tick, runVars, vars
<1>4. ~Start(q) /\ ~Crash(q) /\ ~ (Step(q) /\ ~ComputeVerdict(q))
  BY <1>1 DEF Start, StartBatch, StartRecord, Crash, Goto, TypeOK, Step, At, ClaimRecord, SendCall,
     ConnectFails, ReleaseRecord, Answer, ResolveRecord, AuditReplay, IndexExecution
<1>5. ComputeVerdict(q)
  BY <1>1, <1>2, <1>3, <1>4 DEF Next, Step
<1>6. ~Report(q, "skipped")
  BY <1>0, <1>1, ReportEffect DEF Reports, Ended
<1> QED
  BY <1>5, <1>6 DEF ComputeVerdict

\* The guard is honoured across invocations, for any window and any bound on
\* a statement.
THEOREM DedupGuard == Spec => DedupHonoured
<1> DEFINE Honoured == \A e \in audit, q \in Replayers :
              /\ At(q, "verdict") /\ At(q, "claim")' /\ ~mode[q].force
              /\ e.ok /\ ArgKey[e.record] # NoKey /\ pc[e.by] # "crashed"
              /\ ArgKey[cur[q]] = ArgKey[e.record]
              => clock \notin e.at + 2 * Slack + 1 .. e.at + DedupWindow - 2 * Slack
<1>1. Init => GuardInv
  BY DEF Init, DlqInit, GuardInv, At
<1>2. TypeOK /\ GuardInv /\ [Next]_vars => Honoured
  <2> SUFFICES ASSUME TypeOK, GuardInv, [Next]_vars, NEW e \in audit, NEW q \in Replayers,
                      At(q, "verdict"), At(q, "claim")', ~mode[q].force,
                      Keyed(e), pc[e.by] # "crashed", ArgKey[cur[q]] = ArgKey[e.record],
                      e.at + 2 * Slack + 1 <= clock, clock <= e.at + DedupWindow - 2 * Slack
               PROVE  FALSE
    BY EntryType, TimeTypes, DlqAssumption DEF Keyed
  <2> DEFINE row == executions[ArgKey[e.record]]
  <2>1. e.by \in Replayers /\ e.at \in Nat /\ ArgKey[e.record] \in Keys /\ row.at \in Nat \cup {NULL}
    BY EntryType, IndexRowType
  <2>2. ~WithinWindow(row)
    BY OnlyThroughTheGuard DEF Refused, Duplicate, Keyed
  <2>3. ~Indexing(e)
    BY <2>1, TimeTypes DEF GuardInv, Indexing, At
  <2>4. row.at # NULL /\ row.at + 2 * Slack >= e.at
    BY <2>3 DEF GuardInv, At, Indexed
  <2> HIDE DEF row
  <2> QED
    BY <2>1, <2>2, <2>4, TimeTypes, DlqAssumption DEF WithinWindow
<1> QED
  BY <1>1, <1>2, GuardStep, TypeCorrect, PTL DEF Spec, DedupHonoured

-----------------------------------------------------------------------------
\* What a command reports.

\* The three tables only grow: a replay, an entry and a row are there for good.
Grows ==
    /\ audit \subseteq audit'
    /\ \A r \in Records : status[r] = "replayed" => status'[r] = "replayed"
    /\ \A k \in Keys : executions[k].at # NULL => executions'[k].at # NULL

LEMMA TablesGrow == TypeOK /\ [Next]_vars => Grows
<1> SUFFICES ASSUME TypeOK, [Next]_vars PROVE Grows
  OBVIOUS
<1>1. ASSUME NEW p \in Replayers, ResolveRecord(p) PROVE Grows
  BY <1>1 DEF ResolveRecord, Resolve, Grows, TypeOK, DlqTypeOK
<1>2. ASSUME NEW p \in Replayers, AuditReplay(p) PROVE Grows
  BY <1>2 DEF AuditReplay, dlqVars, Grows
<1>3. ASSUME NEW p \in Replayers, IndexExecution(p) PROVE Grows
  BY <1>3, TimeTypes DEF IndexExecution, RecordExecution, Grows, TypeOK, DlqTypeOK
<1>4. CASE Quiet
  BY <1>4, TimeTypes DEF Quiet, Grows
<1> QED
  BY <1>1, <1>2, <1>3, <1>4, MostStepsAreQuiet

\* A step of p does nothing to the others, and of the calls sent it changes
\* only its own.
LEMMA OwnStep ==
    ASSUME TypeOK, NEW p \in Replayers, Start(p) \/ Step(p) \/ Crash(p)
    PROVE  /\ AllOthersKept(p)
           /\ sent' = sent \/ (At(p, "connect") /\ At(p, "answer")' /\ sent' = sent \cup {<<p, cur[p]>>})
<1>0. pc[p] \notin {"idle"} \cup Ended => cur[p] \in Records
  BY DEF TypeOK
<1>1. sent' = sent \/ (At(p, "connect") /\ At(p, "answer")' /\ sent' = sent \cup {<<p, cur[p]>>})
  <2>1. SendCall(p) => At(p, "connect") /\ At(p, "answer")' /\ sent' = sent \cup {<<p, cur[p]>>}
    BY ContinueEffect DEF SendCall, At
  <2>2. Start(p) \/ Crash(p) => sent' = sent
    BY DEF Start, StartRecord, StartBatch, Crash
  <2>3. Step(p) => SendCall(p) \/ sent' = sent
    BY DEF Step, ComputeVerdict, ClaimRecord, ConnectFails, ReleaseRecord, Answer, ResolveRecord,
           AuditReplay, IndexExecution
  <2> QED
    BY <2>1, <2>2, <2>3
<1>2. ASSUME NEW label, NEW bound, Continue(p, label, bound), UNCHANGED <<ok, at>>
      PROVE  AllOthersKept(p)
  BY <1>2, ContinueEffect DEF AllOthersKept, LocalKept
<1>3. ASSUME NEW report \in Reports, pc[p] \notin {"idle"} \cup Ended, Report(p, report)
      PROVE  AllOthersKept(p)
  BY <1>0, <1>3, ReportEffect
<1>4. Start(p) => AllOthersKept(p)
  <2>1. \A m \in Commands : StartBatch(p, m) => AllOthersKept(p)
    BY DEF TypeOK, StartBatch, TakeUp, Goto, AllOthersKept, LocalKept, attemptVars
  <2>2. \A m \in Commands, r \in Records : StartRecord(p, m, r) => AllOthersKept(p)
    BY DEF TypeOK, StartRecord, TakeUp, Goto, AllOthersKept, LocalKept, attemptVars
  <2> QED
    BY <2>1, <2>2 DEF Start
<1>5. ComputeVerdict(p) \/ ClaimRecord(p) => AllOthersKept(p)
  <2>1. Goto(p, "claim") /\ UNCHANGED <<cur, result, attemptVars>> => AllOthersKept(p)
    BY DEF Goto, TypeOK, AllOthersKept, LocalKept, attemptVars
  <2> QED
    BY <1>2, <1>3, <2>1 DEF ComputeVerdict, ClaimRecord, At, Ended, Reports
<1>6. SendCall(p) \/ ConnectFails(p) => AllOthersKept(p)
  BY <1>2 DEF SendCall, ConnectFails
<1>7. Answer(p) => AllOthersKept(p)
  <2> SUFFICES ASSUME Answer(p) PROVE AllOthersKept(p)
    OBVIOUS
  <2>1. \A q \in Replayers \ {p} : ok'[q] = ok[q] /\ at' = at
    BY DEF TypeOK, Answer
  <2> QED
    BY <2>1, ContinueEffect DEF Answer, AllOthersKept, LocalKept
<1>8. ReleaseRecord(p) \/ IndexExecution(p) => AllOthersKept(p)
  BY <1>3 DEF ReleaseRecord, IndexExecution, Outcome, At, Ended, Reports
<1>9. ResolveRecord(p) => AllOthersKept(p)
  <2>1. Continue(p, "audit", Slack) /\ at' = [at EXCEPT ![p] = clock] /\ UNCHANGED ok
            => AllOthersKept(p)
    BY ContinueEffect DEF AllOthersKept, LocalKept, TypeOK
  <2>2. Goto(p, "aborted") /\ Forget(p) /\ UNCHANGED <<cur, result>> => AllOthersKept(p)
    BY DEF Goto, Forget, AllOthersKept, LocalKept, TypeOK
  <2> QED
    BY <1>3, <2>1, <2>2 DEF ResolveRecord, At, Ended, Reports
<1>10. AuditReplay(p) => AllOthersKept(p)
  BY <1>2, <1>3 DEF AuditReplay, Outcome, At, Ended, Reports
<1>11. Crash(p) => AllOthersKept(p)
  BY DEF TypeOK, Crash, Goto, Forget, AllOthersKept, LocalKept
<1> QED
  BY <1>1, <1>4, <1>5, <1>6, <1>7, <1>8, <1>9, <1>10, <1>11 DEF Step

MayHaveSent == {"answer", "resolve", "audit", "index", "aborted", "crashed"}

\* What the report "ok" of p promises of r.
Audited(p, r) == \E e \in audit : e.record = r /\ e.by = p /\ e.ok

Done(p, r) ==
    /\ status[r] = "replayed"
    /\ Audited(p, r)
    /\ ArgKey[r] # NoKey => executions[ArgKey[r]].at # NULL

\* p reports on a record once, when it is done with it: what it has sent it is
\* still working on, or it has reported it as executed.
ReportOf(p) ==
    /\ At(p, "idle") => \A r \in Records : result[p][r] = "none" /\ <<p, r>> \notin sent
    /\ pc[p] \notin {"idle", "exited"} => result[p][cur[p]] = "none"
    /\ \A r \in Records : <<p, r>> \in sent =>
          result[p][r] \in {"ok", "failed"} \/ (cur[p] = r /\ pc[p] \in MayHaveSent)
    /\ pc[p] \in {"audit", "index"} => status[cur[p]] = "replayed"
    /\ At(p, "index") => ok[p] /\ Audited(p, cur[p])
    /\ \A r \in Records : result[p][r] = "ok" => Done(p, r)

ReportInv == \A p \in Replayers : ReportOf(p)

LEMMA GrowsKeepsDone ==
    ASSUME Grows, NEW p \in Replayers, NEW r \in Records
    PROVE  (Audited(p, r) => Audited(p, r)') /\ (Done(p, r) => Done(p, r)')
BY DlqAssumption DEF Grows, Audited, Done

LEMMA OthersKeepReport ==
    ASSUME TypeOK, Grows, NEW q \in Replayers, LocalKept(q), ReportOf(q),
           \A r \in Records : <<q, r>> \in sent' <=> <<q, r>> \in sent
    PROVE  ReportOf(q)'
<1>1. pc[q] \in {"audit", "index"} => cur[q] \in Records
  BY DEF TypeOK, Ended
<1>2. \A r \in Records : (Audited(q, r) => Audited(q, r)') /\ (Done(q, r) => Done(q, r)')
  BY GrowsKeepsDone
<1> QED
  BY <1>1, <1>2 DEF ReportOf, LocalKept, At, Grows

\* p reports: as executed if its call may have gone out, and as "ok" only what
\* is done.
LEMMA ReportingKeepsReport ==
    ASSUME TypeOK, Grows, NEW p \in Replayers, ReportOf(p), NEW report \in Reports,
           pc[p] \notin {"idle"} \cup Ended, Report(p, report), sent' = sent,
           pc[p] \in MayHaveSent => report \in {"ok", "failed"},
           report = "ok" => \A r \in Records : r = cur[p] => Done(p, r)'
    PROVE  ReportOf(p)'
<1>1. cur[p] \in Records /\ result[p][cur[p]] = "none"
  BY DEF TypeOK, ReportOf, Ended
<1>2. /\ pc'[p] \in {"exited", "verdict"}
      /\ result'[p] = [result[p] EXCEPT ![cur[p]] = report]
      /\ pc'[p] = "verdict" => result'[p][cur'[p]] = "none"
  BY <1>1, ReportEffect
<1>3. \A r \in Records : result'[p][r] = IF r = cur[p] THEN report ELSE result[p][r]
  BY <1>1, <1>2 DEF TypeOK
<1>4. \A r \in Records : Done(p, r) => Done(p, r)'
  BY GrowsKeepsDone
<1>5. \A r \in Records : <<p, r>> \in sent => result'[p][r] \in {"ok", "failed"}
  BY <1>1, <1>3 DEF ReportOf
<1>6. \A r \in Records : result'[p][r] = "ok" => Done(p, r)'
  BY <1>3, <1>4 DEF ReportOf
<1> QED
  BY <1>2, <1>5, <1>6 DEF ReportOf, At

\* p goes on with its record.
LEMMA GoingOnKeepsReport ==
    ASSUME TypeOK, Grows, NEW p \in Replayers, ReportOf(p),
           pc[p] \notin {"idle"} \cup Ended, pc'[p] \notin {"idle", "exited"},
           cur' = cur, result' = result,
           pc[p] \in MayHaveSent => pc'[p] \in MayHaveSent,
           \/ sent' = sent
           \/ sent' = sent \cup {<<p, cur[p]>>} /\ pc'[p] \in MayHaveSent,
           pc'[p] \in {"audit", "index"} => status'[cur[p]] = "replayed",
           pc'[p] = "index" => ok'[p] /\ Audited(p, cur[p])'
    PROVE  ReportOf(p)'
<1>1. \A r \in Records : Done(p, r) => Done(p, r)'
  BY GrowsKeepsDone
<1>2. \A r \in Records : <<p, r>> \in sent' => <<p, r>> \in sent \/ (r = cur[p] /\ pc'[p] \in MayHaveSent)
  OBVIOUS
<1> QED
  BY <1>1, <1>2 DEF ReportOf, At, Ended

\* The steps of p itself, one case per action.
LEMMA OwnStepKeepsReport ==
    ASSUME TypeOK, Grows, NEW p \in Replayers, ReportOf(p), Start(p) \/ Step(p) \/ Crash(p)
    PROVE  ReportOf(p)'
<1> USE DEF MayHaveSent, Reports
<1>0. pc[p] \notin {"idle"} \cup Ended => cur[p] \in Records
  BY DEF TypeOK
<1>1. \A r \in Records : Done(p, r) => Done(p, r)'
  BY GrowsKeepsDone
<1>2. ASSUME NEW m \in Commands, StartBatch(p, m) PROVE ReportOf(p)'
  <2>1. pc[p] = "idle" /\ result' = result /\ sent' = sent
    BY <1>2 DEF StartBatch, At
  <2>2. pc'[p] = "exited" \/ (pc'[p] = "verdict" /\ cur'[p] \in Records)
    BY <1>2 DEF StartBatch, TakeUp, Goto, TypeOK, Newest, Pending
  <2> QED
    BY <2>1, <2>2 DEF ReportOf, At
<1>3. ASSUME NEW m \in Commands, NEW r \in Records, StartRecord(p, m, r) PROVE ReportOf(p)'
  <2>1. pc[p] = "idle" /\ sent' = sent
    BY <1>3 DEF StartRecord, At
  <2>2. \/ pc'[p] = "exited" /\ result'[p] = [result[p] EXCEPT ![r] = "failed"]
        \/ pc'[p] \in {"exited", "verdict"} /\ result' = result
    BY <1>3 DEF StartRecord, TakeUp, Goto, TypeOK
  <2>3. pc'[p] = "verdict" => cur'[p] \in Records
    BY <1>3 DEF StartRecord, TakeUp, Goto, TypeOK
  <2>4. \A s \in Records : <<p, s>> \notin sent /\ result[p][s] = "none" /\ result'[p][s] \in {"none", "failed"}
    BY <2>1, <2>2 DEF ReportOf, At, TypeOK
  <2>5. pc'[p] = "verdict" => result'[p][cur'[p]] = "none"
    BY <2>2, <2>3, <2>4 DEF ReportOf, At
  <2> QED
    BY <2>1, <2>2, <2>4, <2>5 DEF ReportOf, At
<1>4. CASE ComputeVerdict(p)
  <2>1. pc[p] = "verdict" /\ sent' = sent
    BY <1>4 DEF ComputeVerdict, At
  <2>2. CASE Report(p, "skipped")
    BY <2>1, <2>2, ReportingKeepsReport DEF Ended
  <2>3. CASE Goto(p, "claim") /\ UNCHANGED <<cur, result, attemptVars>>
    <3>1. pc'[p] = "claim"
      BY <2>3 DEF Goto, TypeOK
    <3> QED
      BY <2>1, <2>3, <3>1, GoingOnKeepsReport DEF Ended
  <2> QED
    BY <1>4, <2>2, <2>3 DEF ComputeVerdict
<1>5. CASE ClaimRecord(p)
  <2>1. pc[p] = "claim" /\ sent' = sent
    BY <1>5 DEF ClaimRecord, At
  <2>2. CASE Report(p, "skipped")
    BY <2>1, <2>2, ReportingKeepsReport DEF Ended
  <2>3. CASE Continue(p, "connect", ConnectBound)
    BY <2>1, <2>3, ContinueEffect, GoingOnKeepsReport DEF Ended
  <2> QED
    BY <1>5, <2>2, <2>3 DEF ClaimRecord
<1>6. CASE SendCall(p)
  <2>1. pc[p] = "connect" /\ sent' = sent \cup {<<p, cur[p]>>} /\ Continue(p, "answer", Timeout[cur[p]])
    BY <1>6 DEF SendCall, At
  <2> QED
    BY <2>1, ContinueEffect, GoingOnKeepsReport DEF Ended
<1>7. CASE ConnectFails(p)
  <2>1. pc[p] = "connect" /\ sent' = sent /\ Continue(p, "release", Slack)
    BY <1>7 DEF ConnectFails, At
  <2> QED
    BY <2>1, ContinueEffect, GoingOnKeepsReport DEF Ended
<1>8. CASE ReleaseRecord(p)
  <2>1. pc[p] = "release" /\ sent' = sent /\ Report(p, "failed")
    BY <1>8 DEF ReleaseRecord, At
  <2> QED
    BY <2>1, ReportingKeepsReport DEF Ended
<1>9. CASE Answer(p)
  <2>1. pc[p] = "answer" /\ sent' = sent /\ Continue(p, "resolve", Slack)
    BY <1>9 DEF Answer, At
  <2> QED
    BY <2>1, ContinueEffect, GoingOnKeepsReport DEF Ended
<1>10. CASE ResolveRecord(p)
  <2>1. pc[p] = "resolve" /\ sent' = sent /\ cur[p] \in Records
    BY <1>0, <1>10 DEF ResolveRecord, At, Ended
  <2>2. CASE Report(p, "failed")
    BY <2>1, <2>2, ReportingKeepsReport DEF Ended
  <2>3. CASE Goto(p, "aborted") /\ UNCHANGED <<cur, result>>
    <3>1. pc'[p] = "aborted"
      BY <2>3 DEF Goto, TypeOK
    <3> QED
      BY <2>1, <2>3, <3>1, GoingOnKeepsReport DEF Ended
  <2>4. CASE Resolve(cur[p]) /\ Continue(p, "audit", Slack)
    <3>1. status'[cur[p]] = "replayed"
      BY <2>1, <2>4 DEF Resolve, TypeOK, DlqTypeOK
    <3> QED
      BY <2>1, <2>4, <3>1, ContinueEffect, GoingOnKeepsReport DEF Ended
  <2> QED
    BY <1>10, <2>2, <2>3, <2>4 DEF ResolveRecord
<1>11. CASE AuditReplay(p)
  <2> DEFINE entry == [record |-> cur[p], by |-> p, ok |-> ok[p], at |-> at[p]]
  <2>1. /\ pc[p] = "audit" /\ sent' = sent /\ cur[p] \in Records /\ ok[p] \in BOOLEAN
        /\ status'[cur[p]] = "replayed"
    BY <1>0, <1>11 DEF AuditReplay, At, Ended, TypeOK, ReportOf, dlqVars
  <2>2. entry \in audit' /\ entry.record = cur[p] /\ entry.by = p /\ entry.ok = ok[p]
    BY <1>11 DEF AuditReplay
  <2> HIDE DEF entry
  <2>3. CASE ok[p] /\ Continue(p, "index", Slack) /\ UNCHANGED ok
    <3>1. cur' = cur /\ Audited(p, cur[p])'
      BY <2>2, <2>3, ContinueEffect DEF Audited
    <3> QED
      BY <2>1, <2>3, <3>1, ContinueEffect, GoingOnKeepsReport DEF Ended
  <2>4. CASE ~(ok[p] /\ ArgKey[cur[p]] # NoKey) /\ Report(p, Outcome(p))
    <3>1. ASSUME Outcome(p) = "ok", NEW r \in Records, r = cur[p] PROVE Done(p, r)'
      <4>1. Audited(p, r)'
        BY <2>2, <3>1 DEF Outcome, Audited
      <4> QED
        BY <2>1, <2>4, <3>1, <4>1 DEF Done, Outcome
    <3>2. Outcome(p) \in {"ok", "failed"}
      BY DEF Outcome
    <3> QED
      BY <2>1, <2>4, <3>1, <3>2, ReportingKeepsReport DEF Ended
  <2> QED
    BY <1>11, <2>3, <2>4 DEF AuditReplay
<1>12. CASE IndexExecution(p)
  <2>1. /\ pc[p] = "index" /\ sent' = sent /\ cur[p] \in Records /\ Report(p, Outcome(p))
        /\ status[cur[p]] = "replayed" /\ ok[p] /\ Audited(p, cur[p])
    BY <1>0, <1>12 DEF IndexExecution, At, Ended, ReportOf
  <2>2. ArgKey[cur[p]] # NoKey => executions'[ArgKey[cur[p]]].at # NULL
    BY <1>12, <2>1, DlqAssumption, TimeTypes
       DEF IndexExecution, RecordExecution, TypeOK, DlqTypeOK
  <2>3. ASSUME NEW r \in Records, r = cur[p] PROVE Done(p, r)'
    BY <2>1, <2>2, <2>3, GrowsKeepsDone DEF Grows, Done
  <2> QED
    BY <2>1, <2>3, ReportingKeepsReport DEF Ended, Outcome
<1>13. CASE Crash(p)
  <2>1. pc[p] \notin {"idle"} \cup Ended /\ pc'[p] = "crashed" /\ UNCHANGED <<cur, result, sent>>
    BY <1>13 DEF Crash, Goto, TypeOK
  <2> QED
    BY <2>1, GoingOnKeepsReport DEF Ended
<1> QED
  BY <1>2, <1>3, <1>4, <1>5, <1>6, <1>7, <1>8, <1>9, <1>10, <1>11, <1>12, <1>13 DEF Start, Step

LEMMA ReportStep == TypeOK /\ ReportInv /\ [Next]_vars => ReportInv'
<1> SUFFICES ASSUME TypeOK, ReportInv, [Next]_vars, NEW q \in Replayers
             PROVE  ReportOf(q)'
  BY DEF ReportInv
<1>1. Grows
  BY TablesGrow
<1>2. ReportOf(q)
  BY DEF ReportInv
<1>3. ASSUME NEW p \in Replayers, Start(p) \/ Step(p) \/ Crash(p) PROVE ReportOf(q)'
  <2>1. CASE p = q
    BY <1>1, <1>2, <1>3, <2>1, OwnStepKeepsReport
  <2>2. CASE p # q
    <3>1. LocalKept(q) /\ \A r \in Records : <<q, r>> \in sent' <=> <<q, r>> \in sent
      BY <1>3, <2>2, OwnStep DEF AllOthersKept
    <3> QED
      BY <1>1, <1>2, <3>1, OthersKeepReport
  <2> QED
    BY <2>1, <2>2
<1>4. CASE UNCHANGED <<runVars, sent>>
  <2>1. LocalKept(q)
    BY <1>4 DEF runVars, attemptVars, LocalKept
  <2> QED
    BY <1>1, <1>2, <1>4, <2>1, OthersKeepReport
<1> QED
  BY <1>3, <1>4 DEF Next, Capture, LiveSuccess, Tick, vars

\* Whatever ran beside a command, what it reported as skipped it has not sent,
\* and what it reported as a success is settled, audited and indexed.
THEOREM ReportsAreTrue == Spec => []ReportIsTrue
<1>1. Init => ReportInv
  BY DEF Init, ReportInv, ReportOf, At
<1>2. TypeOK /\ ReportInv => ReportIsTrue
  <2> SUFFICES ASSUME TypeOK, ReportInv PROVE ReportIsTrue
    OBVIOUS
  <2>1. \A p \in Replayers, r \in Records : result[p][r] = "skipped" => <<p, r>> \notin sent
    BY DEF ReportInv, ReportOf, MayHaveSent
  <2>2. \A p \in Replayers : selected[p] \subseteq Records
    BY DEF TypeOK
  <2> QED
    BY <2>1, <2>2 DEF ReportInv, ReportOf, Done, Audited, ReportIsTrue
<1> QED
  BY <1>1, <1>2, ReportStep, TypeCorrect, PTL DEF Spec

-----------------------------------------------------------------------------
(***************************************************************************)
(* Replay implements Redrive, if an invocation is done with a record       *)
(* before its lease runs out.  A claim takes a record, tools/call sends,   *)
(* resolve() settles; release() and a crash give the record back;          *)
(* everything else is a stuttering step.                                   *)
(***************************************************************************)

Called(p) == pc[p] \in {"answer", "resolve"}

-----------------------------------------------------------------------------
\* The phase of a record, read off its holder before and after a step.

LEMMA PhaseOfHeld ==
    ASSUME OneHolder, NEW p \in Replayers, NEW r \in Records, status[r] = "pending", Holds(p, r)
    PROVE  Phase(r) = IF Called(p) THEN "called" ELSE "taken"
BY DEF OneHolder, Phase, Called

LEMMA PhaseOfHeldNext ==
    ASSUME OneHolder', NEW p \in Replayers, NEW r \in Records, status'[r] = "pending", Holds(p, r)'
    PROVE  Phase(r)' = IF Called(p)' THEN "called" ELSE "taken"
BY DEF OneHolder, Phase, Called

LEMMA PhaseOfFree ==
    ASSUME TypeOK, NEW r \in Records, \A p \in Replayers : ~Holds(p, r)
    PROVE  Phase(r) = status[r]
BY DEF Phase, TypeOK, DlqTypeOK

LEMMA PhaseOfFreeNext ==
    ASSUME TypeOK', NEW r \in Records, \A p \in Replayers : ~Holds(p, r)'
    PROVE  Phase(r)' = status'[r]
BY DEF Phase, TypeOK, DlqTypeOK

\* The phase of a record depends on its status and on its holders only.
LEMMA PhaseKept ==
    ASSUME NEW r \in Records, status'[r] = status[r],
           \A q \in Replayers : /\ Holds(q, r)' <=> Holds(q, r)
                                /\ Holds(q, r) => (Called(q)' <=> Called(q))
    PROVE  Phase(r)' = Phase(r)
BY DEF Phase, Called

\* A step of p changes the phase of no record but the one p holds or will hold.
LEMMA OtherPhasesKept ==
    ASSUME NEW p \in Replayers, OthersKept(p), NEW r \in Records,
           status'[r] = status[r], ~Holds(p, r), ~Holds(p, r)'
    PROVE  Phase(r)' = Phase(r)
<1>1. \A q \in Replayers : /\ Holds(q, r)' <=> Holds(q, r)
                           /\ Holds(q, r) => (Called(q)' <=> Called(q))
  BY DEF OthersKept, Holds, Called
<1> QED
  BY <1>1, PhaseKept

LEMMA Becomes ==
    ASSUME NEW r \in Records, \A s \in Records \ {r} : Phase(s)' = Phase(s)
    PROVE  R!Become(r, Phase(r), Phase(r)')
BY DEF R!Become

-----------------------------------------------------------------------------
\* The steps of an invocation.

\* It neither takes, sends, settles nor gives back: nothing happens to Redrive.
LEMMA Stutters ==
    ASSUME NEW p \in Replayers, OthersKept(p), status' = status, sent' = sent,
           \/ pc[p] \notin Holding /\ pc'[p] \notin Holding
           \/ /\ pc[p] \in Holding /\ pc'[p] \in Holding /\ cur'[p] = cur[p]
              /\ Called(p)' <=> Called(p)
    PROVE  UNCHANGED <<[r \in Records |-> Phase(r)], sent>>
<1> SUFFICES ASSUME NEW r \in Records PROVE Phase(r)' = Phase(r)
  OBVIOUS
<1>1. \A q \in Replayers : /\ Holds(q, r)' <=> Holds(q, r)
                           /\ Holds(q, r) => (Called(q)' <=> Called(q))
  BY DEF OthersKept, Holds, Called
<1> QED
  BY <1>1, PhaseKept

\* What p holds is pending, and p is its only holder.
LEMMA HeldRecord ==
    ASSUME LeaseInv, NEW p \in Replayers, pc[p] \in Holding
    PROVE  /\ cur[p] \in Records /\ Holds(p, cur[p]) /\ status[cur[p]] = "pending"
           /\ Phase(cur[p]) = IF Called(p) THEN "called" ELSE "taken"
           /\ \A q \in Replayers : Holds(q, cur[p]) => q = p
<1>1. cur[p] \in Records /\ Holds(p, cur[p]) /\ status[cur[p]] = "pending"
  BY DEF LeaseInv, TypeOK, LeaseCovers, Holds, Holding, Ended
<1> QED
  BY <1>1, PhaseOfHeld DEF LeaseInv, OneHolder

\* p leaves the record it held: what becomes of it is what its status says.
LEMMA LeavesRecord ==
    ASSUME LeaseInv, LeaseInv', NEW p \in Replayers, OthersKept(p),
           pc[p] \in Holding, pc'[p] \notin Holding,
           \A s \in Records \ {cur[p]} : status'[s] = status[s]
    PROVE  R!Become(cur[p], IF Called(p) THEN "called" ELSE "taken", status'[cur[p]])
<1>1. /\ cur[p] \in Records
      /\ Phase(cur[p]) = IF Called(p) THEN "called" ELSE "taken"
      /\ \A q \in Replayers : Holds(q, cur[p]) => q = p
  BY HeldRecord
<1> DEFINE r == cur[p]
<1>2. \A s \in Records : ~Holds(p, s)'
  BY DEF Holds
<1>3. \A s \in Records \ {r} : Phase(s)' = Phase(s)
  <2> SUFFICES ASSUME NEW s \in Records \ {r} PROVE Phase(s)' = Phase(s)
    OBVIOUS
  <2> QED
    BY <1>2, OtherPhasesKept DEF Holds
<1>4. \A s \in Records : s = r => Phase(s)' = status'[r]
  <2> SUFFICES ASSUME NEW s \in Records, s = r PROVE Phase(s)' = status'[r]
    OBVIOUS
  <2>1. \A q \in Replayers : ~Holds(q, s)'
    BY <1>1, <1>2 DEF OthersKept, Holds
  <2> QED
    BY <2>1, PhaseOfFreeNext DEF LeaseInv
<1>5. PICK s \in Records : s = r
  BY <1>1
<1> QED
  BY <1>1, <1>3, <1>4, <1>5, Becomes

LEMMA CaptureRefines ==
    ASSUME LeaseInv, LeaseInv', NEW r \in Records, Capture(r)
    PROVE  R!Capture(r)
<1>1. /\ status[r] = "absent" /\ status' = [status EXCEPT ![r] = "pending"]
      /\ UNCHANGED <<pc, cur, sent>>
  BY DEF Capture, Enqueue, runVars
<1>2. \A q \in Replayers, s \in Records : Holds(q, s)' <=> Holds(q, s)
  BY <1>1 DEF Holds
<1>3. \A q \in Replayers : ~Holds(q, r)
  BY <1>1 DEF LeaseInv, LeaseCovers, Holds
<1>4. \A s \in Records \ {r} : Phase(s)' = Phase(s)
  <2> SUFFICES ASSUME NEW s \in Records \ {r} PROVE Phase(s)' = Phase(s)
    OBVIOUS
  <2>1. status'[s] = status[s] /\ \A q \in Replayers : Called(q)' <=> Called(q)
    BY <1>1 DEF Called, LeaseInv, TypeOK, DlqTypeOK
  <2> QED
    BY <1>2, <2>1, PhaseKept
<1>5. Phase(r) = "absent"
  BY <1>1, <1>3, PhaseOfFree DEF LeaseInv
<1>6. Phase(r)' = "pending"
  <2>1. status'[r] = "pending"
    BY <1>1 DEF LeaseInv, TypeOK, DlqTypeOK
  <2> QED
    BY <1>2, <1>3, <2>1, PhaseOfFreeNext DEF LeaseInv
<1> QED
  BY <1>1, <1>4, <1>5, <1>6, Becomes DEF R!Capture

\* The claim: nobody held the record before, or there were two holders now.
LEMMA ClaimRefines ==
    ASSUME LeaseInv, LeaseInv', NEW p \in Replayers, pc[p] = "claim", cur[p] \in Records,
           Claim(cur[p]), Continue(p, "connect", ConnectBound), sent' = sent
    PROVE  R!Take(cur[p])
<1>1. /\ OthersKept(p) /\ pc'[p] = "connect" /\ cur' = cur
      /\ status' = status /\ status[cur[p]] = "pending"
  BY ContinueFrame DEF Claim, Claimable, LeaseInv
<1>2. Holds(p, cur[p])' /\ \A q \in Replayers : ~Holds(q, cur[p])
  <2>1. Holds(p, cur[p])'
    BY <1>1 DEF Holds, Holding
  <2>2. \A q \in Replayers : q # p => (Holds(q, cur[p])' <=> Holds(q, cur[p]))
    BY <1>1 DEF Holds, OthersKept
  <2>3. ~Holds(p, cur[p])
    BY DEF Holds, Holding
  <2> QED
    BY <1>1, <2>1, <2>2, <2>3 DEF LeaseInv, OneHolder
<1>3. \A s \in Records \ {cur[p]} : Phase(s)' = Phase(s)
  <2> SUFFICES ASSUME NEW s \in Records \ {cur[p]} PROVE Phase(s)' = Phase(s)
    OBVIOUS
  <2> QED
    BY <1>1, OtherPhasesKept DEF Holds
<1>4. Phase(cur[p]) = "pending"
  BY <1>1, <1>2, PhaseOfFree DEF LeaseInv
<1>5. Phase(cur[p])' = "taken"
  BY <1>1, <1>2, PhaseOfHeldNext DEF LeaseInv, Called
<1> QED
  BY <1>1, <1>3, <1>4, <1>5, Becomes DEF R!Take

\* tools/call: p has not sent the call of this record before, or it would have
\* reported the record as executed.
LEMMA SendRefines ==
    ASSUME LeaseInv, LeaseInv', ReportInv, NEW p \in Replayers, SendCall(p)
    PROVE  R!Send(p, cur[p])
<1>1. pc[p] = "connect" /\ status' = status /\ sent' = sent \cup {<<p, cur[p]>>}
  BY DEF SendCall, At, dlqVars
<1>2. OthersKept(p) /\ pc'[p] = "answer" /\ cur' = cur
  BY ContinueFrame DEF SendCall, LeaseInv
<1>3. cur[p] \in Records /\ status[cur[p]] = "pending" /\ Phase(cur[p]) = "taken"
  BY <1>1, HeldRecord DEF Called, Holding
<1>4. \A s \in Records \ {cur[p]} : Phase(s)' = Phase(s)
  <2> SUFFICES ASSUME NEW s \in Records \ {cur[p]} PROVE Phase(s)' = Phase(s)
    OBVIOUS
  <2> QED
    BY <1>1, <1>2, OtherPhasesKept DEF Holds
<1>5. Phase(cur[p])' = "called"
  <2>1. Holds(p, cur[p])'
    BY <1>2 DEF Holds, Holding
  <2> QED
    BY <1>1, <1>2, <1>3, <2>1, PhaseOfHeldNext DEF LeaseInv, Called
<1>6. <<p, cur[p]>> \notin sent
  BY <1>1, <1>3 DEF ReportInv, ReportOf, MayHaveSent
<1>7. R!Become(cur[p], "taken", "called")
  BY <1>2, <1>3, <1>4, <1>5, Becomes
<1> QED
  BY <1>1, <1>6, <1>7 DEF R!Send

\* resolve() finds the record pending, so the outcome is always recorded.
LEMMA ResolveRefines ==
    ASSUME LeaseInv, LeaseInv', NEW p \in Replayers, ResolveRecord(p)
    PROVE  R!Settle(cur[p])
<1>1. pc[p] = "resolve" /\ cur[p] \in Records /\ status[cur[p]] = "pending" /\ sent' = sent
  BY HeldRecord DEF ResolveRecord, At, Holding
<1>2. Resolve(cur[p]) /\ Continue(p, "audit", Slack)
  BY <1>1 DEF ResolveRecord
<1>3. OthersKept(p) /\ pc'[p] = "audit"
  BY <1>2, ContinueFrame DEF LeaseInv
<1>4. status'[cur[p]] = "replayed" /\ \A s \in Records \ {cur[p]} : status'[s] = status[s]
  BY <1>1, <1>2 DEF Resolve, LeaseInv, TypeOK, DlqTypeOK
<1> QED
  BY <1>1, <1>3, <1>4, LeavesRecord DEF Called, Holding, R!Settle

\* release() after a failed connection, and a crash of a holder.
LEMMA GiveBackRefines ==
    ASSUME LeaseInv, LeaseInv', NEW p \in Replayers, pc[p] \in Holding,
           ReleaseRecord(p) \/ Crash(p)
    PROVE  R!GiveBack(cur[p]) \/ R!Lose(cur[p])
<1>1. status' = status /\ sent' = sent /\ status[cur[p]] = "pending"
  BY HeldRecord DEF ReleaseRecord, Release, Crash, dlqVars
<1>2. OthersKept(p) /\ pc'[p] \notin Holding
  <2>1. CASE ReleaseRecord(p)
    BY <2>1, ReportFrame DEF ReleaseRecord, LeaseInv, Reports, Holding
  <2>2. CASE Crash(p)
    BY <2>2 DEF Crash, Goto, Forget, OthersKept, LeaseInv, TypeOK, Holding
  <2> QED
    BY <2>1, <2>2
<1>3. R!Become(cur[p], IF Called(p) THEN "called" ELSE "taken", "pending")
  BY <1>1, <1>2, LeavesRecord
<1> QED
  BY <1>1, <1>3 DEF R!GiveBack, R!Lose

-----------------------------------------------------------------------------
LEMMA RefinementStep ==
    LeaseInv /\ LeaseInv' /\ ReportInv /\ [Next]_vars
        => [R!Next]_<<[r \in Records |-> Phase(r)], sent>>
<1> SUFFICES ASSUME LeaseInv, LeaseInv', ReportInv, [Next]_vars
             PROVE  R!Next \/ UNCHANGED <<[r \in Records |-> Phase(r)], sent>>
  OBVIOUS
<1> DEFINE Stutter == UNCHANGED <<[r \in Records |-> Phase(r)], sent>>
<1>0. /\ TypeOK
      /\ \A p \in Replayers : pc[p] \notin {"idle"} \cup Ended => cur[p] \in Records
  BY DEF LeaseInv, TypeOK
<1>1. ASSUME NEW r \in Records, Capture(r) PROVE R!Next
  BY <1>1, CaptureRefines DEF R!Next
<1>2. CASE UNCHANGED <<status, pc, cur, sent>>
  <2> SUFFICES ASSUME NEW r \in Records PROVE Phase(r)' = Phase(r)
    BY <1>2
  <2>1. \A q \in Replayers : /\ Holds(q, r)' <=> Holds(q, r)
                             /\ Holds(q, r) => (Called(q)' <=> Called(q))
    BY <1>2 DEF Holds, Called
  <2> QED
    BY <1>2, <2>1, PhaseKept
<1>3. ASSUME NEW p \in Replayers, Start(p) PROVE Stutter
  <2>1. /\ OthersKept(p) /\ status' = status /\ sent' = sent
        /\ pc[p] = "idle" /\ pc'[p] \in {"exited", "verdict"}
    <3>1. ASSUME NEW m \in Commands, StartBatch(p, m)
          PROVE  /\ OthersKept(p) /\ status' = status /\ sent' = sent
                 /\ pc[p] = "idle" /\ pc'[p] \in {"exited", "verdict"}
      BY <1>0, <3>1 DEF StartBatch, TakeUp, Goto, At, OthersKept, attemptVars, TypeOK, dlqVars
    <3>2. ASSUME NEW m \in Commands, NEW r \in Records, StartRecord(p, m, r)
          PROVE  /\ OthersKept(p) /\ status' = status /\ sent' = sent
                 /\ pc[p] = "idle" /\ pc'[p] \in {"exited", "verdict"}
      BY <1>0, <3>2 DEF StartRecord, TakeUp, Goto, At, OthersKept, attemptVars, TypeOK, dlqVars
    <3> QED
      BY <1>3, <3>1, <3>2 DEF Start
  <2> QED
    BY <2>1, Stutters DEF Holding
<1>4. ASSUME NEW p \in Replayers, ComputeVerdict(p) PROVE Stutter
  <2>1. OthersKept(p) /\ pc'[p] \in {"exited", "verdict", "claim"}
    <3>1. CASE Report(p, "skipped")
      BY <1>0, <3>1, ReportFrame DEF Reports
    <3>2. CASE Goto(p, "claim") /\ UNCHANGED <<cur, attemptVars>>
      BY <1>0, <3>2 DEF Goto, OthersKept, attemptVars, TypeOK
    <3> QED
      BY <1>4, <3>1, <3>2 DEF ComputeVerdict
  <2> QED
    BY <1>4, <2>1, Stutters DEF ComputeVerdict, At, dlqVars, Holding
<1>5. ASSUME NEW p \in Replayers, ClaimRecord(p) PROVE R!Next \/ Stutter
  <2>1. pc[p] = "claim" /\ cur[p] \in Records /\ sent' = sent
    BY <1>0, <1>5 DEF ClaimRecord, At, Ended
  <2>2. CASE Claim(cur[p]) /\ Continue(p, "connect", ConnectBound)
    BY <2>1, <2>2, ClaimRefines DEF R!Next
  <2>3. CASE Report(p, "skipped") /\ UNCHANGED status
    <3>1. OthersKept(p) /\ pc'[p] \in {"exited", "verdict"}
      BY <1>0, <2>3, ReportFrame DEF Reports
    <3> QED
      BY <2>1, <2>3, <3>1, Stutters DEF Holding
  <2> QED
    BY <1>5, <2>2, <2>3 DEF ClaimRecord
<1>6. ASSUME NEW p \in Replayers, SendCall(p) PROVE R!Next
  <2>1. cur[p] \in Records
    BY <1>6, HeldRecord DEF SendCall, At, Holding
  <2> QED
    BY <1>6, <2>1, SendRefines DEF R!Next
<1>7. ASSUME NEW p \in Replayers, ConnectFails(p) \/ Answer(p) PROVE Stutter
  <2>1. /\ OthersKept(p) /\ cur' = cur /\ status' = status /\ sent' = sent
        /\ \/ pc[p] = "connect" /\ pc'[p] = "release"
           \/ pc[p] = "answer" /\ pc'[p] = "resolve"
    BY <1>0, <1>7, ContinueFrame DEF ConnectFails, Answer, At, dlqVars
  <2> QED
    BY <2>1, Stutters DEF Holding, Called
<1>8. ASSUME NEW p \in Replayers, ReleaseRecord(p) PROVE R!Next
  <2>1. pc[p] \in Holding
    BY <1>8 DEF ReleaseRecord, At, Holding
  <2> QED
    BY <1>8, <2>1, HeldRecord, GiveBackRefines DEF R!Next
<1>9. ASSUME NEW p \in Replayers, ResolveRecord(p) PROVE R!Next
  <2>1. cur[p] \in Records
    BY <1>9, HeldRecord DEF ResolveRecord, At, Holding
  <2> QED
    BY <1>9, <2>1, ResolveRefines DEF R!Next
<1>10. ASSUME NEW p \in Replayers, AuditReplay(p) \/ IndexExecution(p) PROVE Stutter
  <2>1. /\ pc[p] \in {"audit", "index"} /\ status' = status /\ sent' = sent
        /\ Outcome(p) \in Reports
    BY <1>10 DEF AuditReplay, IndexExecution, At, dlqVars, Outcome, Reports
  <2>2. OthersKept(p) /\ pc'[p] \in {"exited", "verdict", "index"}
    <3>1. CASE Report(p, Outcome(p))
      BY <1>0, <2>1, <3>1, ReportFrame
    <3>2. CASE Continue(p, "index", Slack)
      BY <1>0, <3>2, ContinueFrame
    <3> QED
      BY <1>10, <3>1, <3>2 DEF AuditReplay, IndexExecution
  <2> QED
    BY <2>1, <2>2, Stutters DEF Holding
<1>11. ASSUME NEW p \in Replayers, Crash(p) PROVE R!Next \/ Stutter
  <2>1. CASE pc[p] \in Holding
    BY <1>11, <2>1, HeldRecord, GiveBackRefines DEF R!Next
  <2>2. CASE pc[p] \notin Holding
    <3>1. OthersKept(p) /\ pc'[p] = "crashed" /\ status' = status /\ sent' = sent
      BY <1>0, <1>11 DEF Crash, Goto, Forget, OthersKept, TypeOK, dlqVars
    <3> QED
      BY <2>2, <3>1, Stutters DEF Holding
  <2> QED
    BY <2>1, <2>2
<1>12. ASSUME Tick \/ (\E r \in Records : LiveSuccess(r)) \/ UNCHANGED vars
       PROVE  UNCHANGED <<status, pc, cur, sent>>
  BY <1>12 DEF Tick, LiveSuccess, vars, dlqVars, runVars
<1> QED
  BY <1>1, <1>2, <1>3, <1>4, <1>5, <1>6, <1>7, <1>8, <1>9, <1>10, <1>11, <1>12 DEF Next, Step

LEMMA RefinementInit == Init => R!Init
<1> SUFFICES ASSUME Init PROVE R!Init
  OBVIOUS
<1>1. \A r \in Records : status[r] = "absent" /\ \A p \in Replayers : ~Holds(p, r)
  BY DEF Init, DlqInit, Holds, Holding
<1>2. \A r \in Records : Phase(r) = "absent"
  BY <1>1, TypeInit, PhaseOfFree
<1> QED
  BY <1>2 DEF Init, R!Init

\* Replay keeps the promise of Redrive step by step.
THEOREM Refinement == ASSUME HoldFitsLease PROVE Spec => ImplementsRedrive
<1>1. Spec => []LeaseInv
  BY LeaseSafe
<1>2. Init => ReportInv
  BY DEF Init, ReportInv, ReportOf, At
<1> QED
  BY <1>1, <1>2, ReportStep, TypeCorrect, RefinementInit, RefinementStep, PTL
     DEF Spec, ImplementsRedrive, R!Spec
=============================================================================
