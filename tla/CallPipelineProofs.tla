------------------------- MODULE CallPipelineProofs -------------------------
(***************************************************************************)
(* Theorems about CallPipeline for any number of calls and attempts, any   *)
(* profiles, either transport, either queue provider, with and without     *)
(* failing databases.                                                      *)
(***************************************************************************)
EXTENDS CallPipeline, TLAPS

-----------------------------------------------------------------------------
\* Lemmas about the classification.

\* Every ending of an attempt that is neither a result nor a cancellation has
\* a persisted class.
LEMMA FailuresAreRecorded ==
    ASSUME NEW ending \in Outcomes, ending \notin Results, ending # "cancelled"
    PROVE  Recorded(ending)
BY DEF Outcomes, UpstreamEndings, Results, Recorded, ClassOf, PreSend, MayHaveExecuted

\* A tool that is not idempotent is retried only after an ending that counts as
\* unsent.
LEMMA OnlyUnsentIsRetried ==
    ASSUME NEW ending \in Outcomes, Retryable(ending, FALSE)
    PROVE  ending \in PreSend
BY DEF Outcomes, UpstreamEndings, Results, Retryable, ClassOf, PreSend, MayHaveExecuted

\* Over stdio no ending of a request that was sent counts as unsent.
LEMMA SentIsSent ==
    ASSUME NEW ending \in UpstreamEndings("stdio")
    PROVE  ending \notin PreSend
BY DEF UpstreamEndings, Results, PreSend

-----------------------------------------------------------------------------
\* Types: a call that may still make an attempt has one left.
TypeInv ==
    /\ TypeOK
    /\ \A c \in Calls :
          pc[c] \in {"idle", "dry_run", "attempt", "backoff"} => attempts[c] < MaxAttempts

\* Every variable keeps its type; in particular no call ever begins more than
\* MaxAttempts attempts (the loop of runWithRetry).
THEOREM TypeCorrect == Spec => []TypeOK
<1>1. Init => TypeInv
  <2> SUFFICES ASSUME Init PROVE TypeInv
    OBVIOUS
  <2>1. profile \in [Calls -> AllProfiles]
    BY PipelineAssumption DEF Init
  <2>2. transport \in Transports
    BY PipelineAssumption DEF Init
  <2>3. attempts \in [Calls -> 0..MaxAttempts] /\ \A c \in Calls : attempts[c] < MaxAttempts
    BY PipelineAssumption DEF Init
  <2>4. /\ outcome \in [Calls -> Outcomes \cup {"none"}]
        /\ events \in [Calls -> Nat] /\ forwarded \in [Calls -> Nat]
    BY DEF Init
  <2> QED
    BY <2>1, <2>2, <2>3, <2>4 DEF Init, TypeInv, TypeOK, PCs, Busy, Waiting,
       Handles, Answers, Phases
<1>2. TypeInv /\ [Next]_vars => TypeInv'
  <2> SUFFICES ASSUME TypeInv, [Next]_vars PROVE TypeInv'
    OBVIOUS
  <2> USE DEF callVars, sessionVars, databaseVars, Goto, At, NextEvent, Attached,
             TypeInv, TypeOK, PCs, Busy, Waiting, Handles, Answers, Phases
  <2>1. ASSUME NEW c \in Calls, Arrive(c) PROVE TypeInv'
    BY <2>1, PipelineAssumption DEF Arrive, AllProfiles, Verdicts
  <2>2. ASSUME NEW c \in Calls, DryRun(c) PROVE TypeInv'
    BY <2>2, PipelineAssumption DEF DryRun
  <2>3. ASSUME NEW c \in Calls, Attempt(c) PROVE TypeInv'
    BY <2>3, PipelineAssumption DEF Attempt, Outcomes
  <2>4. ASSUME NEW c \in Calls, Classify(c) PROVE TypeInv'
    BY <2>4, PipelineAssumption DEF Classify, AfterCall
  <2>5. ASSUME NEW c \in Calls, Capture(c) PROVE TypeInv'
    BY <2>5, PipelineAssumption DEF Capture, OnQueue, QueueThrows, Runs, Throws
  <2>6. ASSUME NEW c \in Calls, AuditCapture(c) PROVE TypeInv'
    BY <2>6, PipelineAssumption DEF AuditCapture, OnStore, StoreThrows, Runs, Throws
  <2>7. ASSUME NEW c \in Calls, Index(c) PROVE TypeInv'
    BY <2>7, PipelineAssumption DEF Index, OnQueue, QueueThrows, Runs, Throws
  <2>8. ASSUME NEW c \in Calls, Log(c) PROVE TypeInv'
    BY <2>8, PipelineAssumption DEF Log, OnStore, StoreThrows, Runs, Throws,
       Respond, Reply
  <2>9. ASSUME NEW c \in Calls, DenyLog(c) PROVE TypeInv'
    BY <2>9, PipelineAssumption DEF DenyLog, OnStore, StoreThrows, Runs, Throws
  <2>10. ASSUME NEW c \in Calls, DenyAudit(c) PROVE TypeInv'
    BY <2>10, PipelineAssumption DEF DenyAudit, OnStore, StoreThrows, Runs, Throws,
       Respond
  <2>11. ASSUME NEW c \in Calls, Cancel(c) PROVE TypeInv'
    BY <2>11, PipelineAssumption DEF Cancel, Settle, Outcomes
  <2>12. ASSUME NEW c \in Calls, BackoffEnds(c) PROVE TypeInv'
    BY <2>12, PipelineAssumption DEF BackoffEnds
  <2>13. ASSUME NEW c \in Calls, Publish(c) PROVE TypeInv'
    BY <2>13, PipelineAssumption DEF Publish
  <2>14. ASSUME NEW c \in Calls, NEW ending \in UpstreamEndings(transport), Answered(c, ending)
        PROVE  TypeInv'
    BY <2>14, PipelineAssumption DEF Answered, Settle, Outcomes, UpstreamEndings,
       Transports
  <2>15. CASE ClientEof
    BY <2>15, PipelineAssumption DEF ClientEof, EndSession, ResolveClosed, Settle,
       Outcomes
  <2>16. CASE UpstreamDies
    BY <2>16, PipelineAssumption DEF UpstreamDies, EndSession, ResolveClosed,
       Settle, Outcomes
  <2>17. CASE Kill
    BY <2>17, PipelineAssumption DEF Kill
  <2>18. CASE CloseLink
    BY <2>18, PipelineAssumption DEF CloseLink, ResolveClosed, Settle, Outcomes
  <2>19. CASE Detach
    BY <2>19, PipelineAssumption DEF Detach
  <2>20. CASE CloseQueue
    BY <2>20, PipelineAssumption DEF CloseQueue, Closed
  <2>21. CASE CloseStore
    BY <2>21, PipelineAssumption DEF CloseStore, Closed
  <2>22. CASE UNCHANGED vars
    BY <2>22 DEF vars
  <2> QED
    BY <2>1, <2>2, <2>3, <2>4, <2>5, <2>6, <2>7, <2>8, <2>9, <2>10, <2>11, <2>12,
       <2>13, <2>14, <2>15, <2>16, <2>17, <2>18, <2>19, <2>20, <2>21, <2>22 DEF
       Next, Run, Teardown
<1> QED
  BY <1>1, <1>2, PTL DEF Spec, TypeInv

-----------------------------------------------------------------------------
\* The order of teardown: a session that is torn down was ended by someone, and
\* the databases close after the server is detached.
SessionInv ==
    /\ phase \notin {"serving", "killed"} => endedBy # "nobody"
    /\ queueDb = "closed" => phase \in {"queue_closed", "closed", "killed"}
    /\ storeDb = "closed" => phase \in {"closed", "killed"}
    /\ ExitCodeHonest

\* SessionInv always holds.
THEOREM SessionInvHolds == Spec => []SessionInv
<1>1. Init => SessionInv
  BY DEF Init, SessionInv, ExitCodeHonest
<1>2. TypeOK /\ SessionInv /\ [Next]_vars => SessionInv'
  <2> SUFFICES ASSUME TypeOK, SessionInv, [Next]_vars PROVE SessionInv'
    OBVIOUS
  <2> USE DEF callVars, sessionVars, databaseVars, Goto, At, NextEvent, Attached,
             SessionInv, ExitCodeHonest, TypeOK, PCs, Busy, Waiting, Handles, Answers,
             Phases
  <2>1. ASSUME NEW c \in Calls, Arrive(c) PROVE SessionInv'
    BY <2>1 DEF Arrive, AllProfiles, Verdicts
  <2>2. ASSUME NEW c \in Calls, DryRun(c) PROVE SessionInv'
    BY <2>2 DEF DryRun
  <2>3. ASSUME NEW c \in Calls, Attempt(c) PROVE SessionInv'
    BY <2>3 DEF Attempt
  <2>4. ASSUME NEW c \in Calls, Classify(c) PROVE SessionInv'
    BY <2>4 DEF Classify, AfterCall
  <2>5. ASSUME NEW c \in Calls, Capture(c) PROVE SessionInv'
    BY <2>5 DEF Capture, OnQueue, QueueThrows, Runs, Throws
  <2>6. ASSUME NEW c \in Calls, AuditCapture(c) PROVE SessionInv'
    BY <2>6 DEF AuditCapture, OnStore, StoreThrows, Runs, Throws
  <2>7. ASSUME NEW c \in Calls, Index(c) PROVE SessionInv'
    BY <2>7 DEF Index, OnQueue, QueueThrows, Runs, Throws
  <2>8. ASSUME NEW c \in Calls, Log(c) PROVE SessionInv'
    BY <2>8 DEF Log, OnStore, StoreThrows, Runs, Throws, Respond, Reply
  <2>9. ASSUME NEW c \in Calls, DenyLog(c) PROVE SessionInv'
    BY <2>9 DEF DenyLog, OnStore, StoreThrows, Runs, Throws
  <2>10. ASSUME NEW c \in Calls, DenyAudit(c) PROVE SessionInv'
    BY <2>10 DEF DenyAudit, OnStore, StoreThrows, Runs, Throws, Respond
  <2>11. ASSUME NEW c \in Calls, Cancel(c) PROVE SessionInv'
    BY <2>11 DEF Cancel, Settle
  <2>12. ASSUME NEW c \in Calls, BackoffEnds(c) PROVE SessionInv'
    BY <2>12 DEF BackoffEnds
  <2>13. ASSUME NEW c \in Calls, Publish(c) PROVE SessionInv'
    BY <2>13 DEF Publish
  <2>14. ASSUME NEW c \in Calls, NEW ending \in UpstreamEndings(transport), Answered(c, ending)
        PROVE  SessionInv'
    BY <2>14 DEF Answered, Settle
  <2>15. CASE ClientEof
    BY <2>15 DEF ClientEof, EndSession, ResolveClosed, Settle
  <2>16. CASE UpstreamDies
    BY <2>16 DEF UpstreamDies, EndSession, ResolveClosed, Settle
  <2>17. CASE Kill
    BY <2>17 DEF Kill
  <2>18. CASE CloseLink
    BY <2>18 DEF CloseLink, ResolveClosed, Settle
  <2>19. CASE Detach
    BY <2>19 DEF Detach
  <2>20. CASE CloseQueue
    BY <2>20 DEF CloseQueue, Closed
  <2>21. CASE CloseStore
    BY <2>21 DEF CloseStore, Closed
  <2>22. CASE UNCHANGED vars
    BY <2>22 DEF vars
  <2> QED
    BY <2>1, <2>2, <2>3, <2>4, <2>5, <2>6, <2>7, <2>8, <2>9, <2>10, <2>11, <2>12,
       <2>13, <2>14, <2>15, <2>16, <2>17, <2>18, <2>19, <2>20, <2>21, <2>22 DEF
       Next, Run, Teardown
<1> QED
  BY <1>1, <1>2, TypeCorrect, PTL DEF Spec

\* The exit code blames the upstream only if its process ended the session, and
\* is clean only after the client left: `closed` keeps its first resolution.
THEOREM ExitCode == Spec => []ExitCodeHonest
<1>1. SessionInv => ExitCodeHonest
  BY DEF SessionInv
<1> QED
  BY <1>1, SessionInvHolds, PTL

-----------------------------------------------------------------------------
\* Owed(c): a failure of c that the client is about to see must be captured.
\* On its way to the final log line an owed failure is captured, or one of its
\* statements failed, or the queue is closed, and then nobody is attached.
Owed(c) ==
    \/ outcome[c] \notin Results \cup {"cancelled"}
    \/ outcome[c] = "tool_error" /\ profile[c].captureToolErrors

CaptureInv ==
    /\ CaptureBeforeError
    /\ \A c \in Calls :
          /\ pc[c] \in {"settled", "backoff", "capture", "publish", "audit", "index", "log"}
                => outcome[c] \in Outcomes
          /\ outcome[c] = "cancelled" => c \in aborted
          /\ pc[c] = "index" => ~Owed(c)
          /\ pc[c] \in {"publish", "audit"} => c \in captured
          /\ pc[c] = "log" /\ Owed(c) => c \in captured \cup faulted \/ queueDb = "closed"

\* For every session: whatever failure the client has seen is in the queue,
\* unless the database itself failed while it was open.
THEOREM SeenFailuresAreCaptured == Spec => []CaptureBeforeError
<1>1. Init => CaptureInv
  BY DEF Init, CaptureInv, CaptureBeforeError, Owed
<1>2. TypeOK /\ SessionInv /\ CaptureInv /\ [Next]_vars => CaptureInv'
  <2> SUFFICES ASSUME TypeOK, SessionInv, CaptureInv, [Next]_vars PROVE CaptureInv'
    OBVIOUS
  <2> USE DEF callVars, sessionVars, databaseVars, Goto, At, NextEvent, Attached,
             CaptureInv, CaptureBeforeError, Owed, TypeOK, PCs, Busy, Waiting, Handles,
             Answers, Phases
  <2>1. ASSUME NEW c \in Calls, Arrive(c) PROVE CaptureInv'
    BY <2>1, FailuresAreRecorded DEF Arrive, AllProfiles, Verdicts
  <2>2. ASSUME NEW c \in Calls, DryRun(c) PROVE CaptureInv'
    BY <2>2, FailuresAreRecorded DEF DryRun
  <2>3. ASSUME NEW c \in Calls, Attempt(c) PROVE CaptureInv'
    BY <2>3, FailuresAreRecorded DEF Attempt, Outcomes
  <2>4. ASSUME NEW c \in Calls, Classify(c) PROVE CaptureInv'
    BY <2>4, FailuresAreRecorded DEF Classify, AfterCall, Results
  <2>5. ASSUME NEW c \in Calls, Capture(c) PROVE CaptureInv'
    BY <2>5, FailuresAreRecorded DEF Capture, OnQueue, QueueThrows, Runs, Throws
  <2>6. ASSUME NEW c \in Calls, AuditCapture(c) PROVE CaptureInv'
    BY <2>6, FailuresAreRecorded DEF AuditCapture, OnStore, StoreThrows, Runs, Throws
  <2>7. ASSUME NEW c \in Calls, Index(c) PROVE CaptureInv'
    BY <2>7, FailuresAreRecorded DEF Index, OnQueue, QueueThrows, Runs, Throws, Results
  <2>8. ASSUME NEW c \in Calls, Log(c) PROVE CaptureInv'
    BY <2>8, FailuresAreRecorded DEF Log, OnStore, StoreThrows, Runs, Throws,
       Respond, Reply, SessionInv, Results
  <2>9. ASSUME NEW c \in Calls, DenyLog(c) PROVE CaptureInv'
    BY <2>9, FailuresAreRecorded DEF DenyLog, OnStore, StoreThrows, Runs, Throws
  <2>10. ASSUME NEW c \in Calls, DenyAudit(c) PROVE CaptureInv'
    BY <2>10, FailuresAreRecorded DEF DenyAudit, OnStore, StoreThrows, Runs, Throws,
       Respond
  <2>11. ASSUME NEW c \in Calls, Cancel(c) PROVE CaptureInv'
    BY <2>11, FailuresAreRecorded DEF Cancel, Settle, Outcomes
  <2>12. ASSUME NEW c \in Calls, BackoffEnds(c) PROVE CaptureInv'
    BY <2>12, FailuresAreRecorded DEF BackoffEnds
  <2>13. ASSUME NEW c \in Calls, Publish(c) PROVE CaptureInv'
    BY <2>13, FailuresAreRecorded DEF Publish
  <2>14. ASSUME NEW c \in Calls, NEW ending \in UpstreamEndings(transport), Answered(c, ending)
        PROVE  CaptureInv'
    BY <2>14, FailuresAreRecorded DEF Answered, Settle, Outcomes, UpstreamEndings,
       Transports, Results
  <2>15. CASE ClientEof
    BY <2>15, FailuresAreRecorded DEF ClientEof, EndSession, ResolveClosed, Settle,
       Outcomes
  <2>16. CASE UpstreamDies
    BY <2>16, FailuresAreRecorded DEF UpstreamDies, EndSession, ResolveClosed,
       Settle, Outcomes
  <2>17. CASE Kill
    BY <2>17, FailuresAreRecorded DEF Kill
  <2>18. CASE CloseLink
    BY <2>18, FailuresAreRecorded DEF CloseLink, ResolveClosed, Settle, Outcomes
  <2>19. CASE Detach
    BY <2>19, FailuresAreRecorded DEF Detach
  <2>20. CASE CloseQueue
    BY <2>20, FailuresAreRecorded DEF CloseQueue, Closed
  <2>21. CASE CloseStore
    BY <2>21, FailuresAreRecorded DEF CloseStore, Closed
  <2>22. CASE UNCHANGED vars
    BY <2>22 DEF vars
  <2> QED
    BY <2>1, <2>2, <2>3, <2>4, <2>5, <2>6, <2>7, <2>8, <2>9, <2>10, <2>11, <2>12,
       <2>13, <2>14, <2>15, <2>16, <2>17, <2>18, <2>19, <2>20, <2>21, <2>22 DEF
       Next, Run, Teardown
<1>3. TypeOK /\ SessionInv /\ CaptureInv => CaptureBeforeError
  BY DEF CaptureInv
<1> QED
  BY <1>1, <1>2, <1>3, TypeCorrect, SessionInvHolds, PTL DEF Spec

-----------------------------------------------------------------------------
\* Until a call reaches the step that captures or indexes it, it is neither.
ExclusionInv ==
    /\ DatabasesAgree
    /\ \A c \in Calls :
          /\ pc[c] \notin {"log", "done"} => c \notin indexed
          /\ pc[c] \notin {"publish", "audit", "log", "done"} => c \notin captured
          /\ pc[c] = "publish" => c \in captured

\* Capture and indexing exclude each other, and the broker knows no record that
\* the index does not: for every call, at every moment.
THEOREM CapturedOrIndexed == Spec => []DatabasesAgree
<1>1. Init => ExclusionInv
  BY DEF Init, ExclusionInv, DatabasesAgree
<1>2. TypeOK /\ ExclusionInv /\ [Next]_vars => ExclusionInv'
  <2> SUFFICES ASSUME TypeOK, ExclusionInv, [Next]_vars PROVE ExclusionInv'
    OBVIOUS
  <2> USE DEF callVars, sessionVars, databaseVars, Goto, At, NextEvent, Attached,
             ExclusionInv, DatabasesAgree, TypeOK, PCs, Busy, Waiting, Handles, Answers,
             Phases
  <2>1. ASSUME NEW c \in Calls, Arrive(c) PROVE ExclusionInv'
    BY <2>1 DEF Arrive, AllProfiles, Verdicts
  <2>2. ASSUME NEW c \in Calls, DryRun(c) PROVE ExclusionInv'
    BY <2>2 DEF DryRun
  <2>3. ASSUME NEW c \in Calls, Attempt(c) PROVE ExclusionInv'
    BY <2>3 DEF Attempt
  <2>4. ASSUME NEW c \in Calls, Classify(c) PROVE ExclusionInv'
    BY <2>4 DEF Classify, AfterCall
  <2>5. ASSUME NEW c \in Calls, Capture(c) PROVE ExclusionInv'
    BY <2>5 DEF Capture, OnQueue, QueueThrows, Runs, Throws
  <2>6. ASSUME NEW c \in Calls, AuditCapture(c) PROVE ExclusionInv'
    BY <2>6 DEF AuditCapture, OnStore, StoreThrows, Runs, Throws
  <2>7. ASSUME NEW c \in Calls, Index(c) PROVE ExclusionInv'
    BY <2>7 DEF Index, OnQueue, QueueThrows, Runs, Throws
  <2>8. ASSUME NEW c \in Calls, Log(c) PROVE ExclusionInv'
    BY <2>8 DEF Log, OnStore, StoreThrows, Runs, Throws, Respond, Reply
  <2>9. ASSUME NEW c \in Calls, DenyLog(c) PROVE ExclusionInv'
    BY <2>9 DEF DenyLog, OnStore, StoreThrows, Runs, Throws
  <2>10. ASSUME NEW c \in Calls, DenyAudit(c) PROVE ExclusionInv'
    BY <2>10 DEF DenyAudit, OnStore, StoreThrows, Runs, Throws, Respond
  <2>11. ASSUME NEW c \in Calls, Cancel(c) PROVE ExclusionInv'
    BY <2>11 DEF Cancel, Settle
  <2>12. ASSUME NEW c \in Calls, BackoffEnds(c) PROVE ExclusionInv'
    BY <2>12 DEF BackoffEnds
  <2>13. ASSUME NEW c \in Calls, Publish(c) PROVE ExclusionInv'
    BY <2>13 DEF Publish
  <2>14. ASSUME NEW c \in Calls, NEW ending \in UpstreamEndings(transport), Answered(c, ending)
        PROVE  ExclusionInv'
    BY <2>14 DEF Answered, Settle
  <2>15. CASE ClientEof
    BY <2>15 DEF ClientEof, EndSession, ResolveClosed, Settle
  <2>16. CASE UpstreamDies
    BY <2>16 DEF UpstreamDies, EndSession, ResolveClosed, Settle
  <2>17. CASE Kill
    BY <2>17 DEF Kill
  <2>18. CASE CloseLink
    BY <2>18 DEF CloseLink, ResolveClosed, Settle
  <2>19. CASE Detach
    BY <2>19 DEF Detach
  <2>20. CASE CloseQueue
    BY <2>20 DEF CloseQueue, Closed
  <2>21. CASE CloseStore
    BY <2>21 DEF CloseStore, Closed
  <2>22. CASE UNCHANGED vars
    BY <2>22 DEF vars
  <2> QED
    BY <2>1, <2>2, <2>3, <2>4, <2>5, <2>6, <2>7, <2>8, <2>9, <2>10, <2>11, <2>12,
       <2>13, <2>14, <2>15, <2>16, <2>17, <2>18, <2>19, <2>20, <2>21, <2>22 DEF
       Next, Run, Teardown
<1>3. TypeOK /\ ExclusionInv => DatabasesAgree
  BY DEF ExclusionInv
<1> QED
  BY <1>1, <1>2, <1>3, TypeCorrect, PTL DEF Spec

-----------------------------------------------------------------------------
\* The event of a call is written by the step that answers it, or by the one
\* before that in a denial.
EventInv ==
    /\ OneEventPerCall
    /\ \A c \in Calls :
          /\ pc[c] \notin {"deny_audit", "done"} => events[c] = 0
          /\ pc[c] = "deny_audit" => events[c] = 1 \/ c \in faulted \/ storeDb = "closed"
          /\ pc[c] # "done" => answer[c] = "none"

\* One call event for every answered call, never two.
THEOREM OneEvent == Spec => []OneEventPerCall
<1>1. Init => EventInv
  BY DEF Init, EventInv, OneEventPerCall
<1>2. TypeOK /\ SessionInv /\ EventInv /\ [Next]_vars => EventInv'
  <2> SUFFICES ASSUME TypeOK, SessionInv, EventInv, [Next]_vars PROVE EventInv'
    OBVIOUS
  <2> USE DEF callVars, sessionVars, databaseVars, Goto, At, NextEvent, Attached,
             EventInv, OneEventPerCall, TypeOK, PCs, Busy, Waiting, Handles, Answers,
             Phases
  <2>1. ASSUME NEW c \in Calls, Arrive(c) PROVE EventInv'
    BY <2>1 DEF Arrive, AllProfiles, Verdicts
  <2>2. ASSUME NEW c \in Calls, DryRun(c) PROVE EventInv'
    BY <2>2 DEF DryRun
  <2>3. ASSUME NEW c \in Calls, Attempt(c) PROVE EventInv'
    BY <2>3 DEF Attempt
  <2>4. ASSUME NEW c \in Calls, Classify(c) PROVE EventInv'
    BY <2>4 DEF Classify, AfterCall
  <2>5. ASSUME NEW c \in Calls, Capture(c) PROVE EventInv'
    BY <2>5 DEF Capture, OnQueue, QueueThrows, Runs, Throws
  <2>6. ASSUME NEW c \in Calls, AuditCapture(c) PROVE EventInv'
    BY <2>6 DEF AuditCapture, OnStore, StoreThrows, Runs, Throws
  <2>7. ASSUME NEW c \in Calls, Index(c) PROVE EventInv'
    BY <2>7 DEF Index, OnQueue, QueueThrows, Runs, Throws
  <2>8. ASSUME NEW c \in Calls, Log(c) PROVE EventInv'
    BY <2>8 DEF Log, OnStore, StoreThrows, Runs, Throws, Respond, Reply, SessionInv
  <2>9. ASSUME NEW c \in Calls, DenyLog(c) PROVE EventInv'
    BY <2>9 DEF DenyLog, OnStore, StoreThrows, Runs, Throws
  <2>10. ASSUME NEW c \in Calls, DenyAudit(c) PROVE EventInv'
    BY <2>10 DEF DenyAudit, OnStore, StoreThrows, Runs, Throws, Respond, SessionInv
  <2>11. ASSUME NEW c \in Calls, Cancel(c) PROVE EventInv'
    BY <2>11 DEF Cancel, Settle
  <2>12. ASSUME NEW c \in Calls, BackoffEnds(c) PROVE EventInv'
    BY <2>12 DEF BackoffEnds
  <2>13. ASSUME NEW c \in Calls, Publish(c) PROVE EventInv'
    BY <2>13 DEF Publish
  <2>14. ASSUME NEW c \in Calls, NEW ending \in UpstreamEndings(transport), Answered(c, ending)
        PROVE  EventInv'
    BY <2>14 DEF Answered, Settle
  <2>15. CASE ClientEof
    BY <2>15 DEF ClientEof, EndSession, ResolveClosed, Settle
  <2>16. CASE UpstreamDies
    BY <2>16 DEF UpstreamDies, EndSession, ResolveClosed, Settle
  <2>17. CASE Kill
    BY <2>17 DEF Kill
  <2>18. CASE CloseLink
    BY <2>18 DEF CloseLink, ResolveClosed, Settle
  <2>19. CASE Detach
    BY <2>19 DEF Detach
  <2>20. CASE CloseQueue
    BY <2>20 DEF CloseQueue, Closed
  <2>21. CASE CloseStore
    BY <2>21 DEF CloseStore, Closed
  <2>22. CASE UNCHANGED vars
    BY <2>22 DEF vars
  <2> QED
    BY <2>1, <2>2, <2>3, <2>4, <2>5, <2>6, <2>7, <2>8, <2>9, <2>10, <2>11, <2>12,
       <2>13, <2>14, <2>15, <2>16, <2>17, <2>18, <2>19, <2>20, <2>21, <2>22 DEF
       Next, Run, Teardown
<1>3. TypeOK /\ SessionInv /\ EventInv => OneEventPerCall
  BY DEF EventInv
<1> QED
  BY <1>1, <1>2, <1>3, TypeCorrect, SessionInvHolds, PTL DEF Spec

-----------------------------------------------------------------------------
\* A tool that is not idempotent gets another attempt only if none has left the
\* process, or the link that took it is gone and stays gone.
Refused(c) == profile[c].verdict \in {"bad_credential", "denied"}

SendInv ==
    /\ \A c \in Calls :
          /\ forwarded[c] <= attempts[c]
          /\ pc[c] \in {"idle", "deny_log", "deny_audit", "dry_run"} => attempts[c] = 0
          /\ Refused(c) => pc[c] \in {"idle", "deny_log", "deny_audit", "done"} /\ forwarded[c] = 0
          /\ ~Refused(c) => pc[c] \notin {"deny_log", "deny_audit"}
          /\ pc[c] \in {"settled", "backoff"} => outcome[c] \in Outcomes
    /\ transport = "stdio" =>
          \A c \in Calls : ~profile[c].idempotent =>
             /\ forwarded[c] <= 1
             /\ pc[c] \in {"attempt", "backoff"} => forwarded[c] = 0 \/ link # "up"
             /\ pc[c] = "settled" /\ outcome[c] \in PreSend => link # "up"

\* Over stdio the upstream sees a call of a tool that is not idempotent at most
\* once, any other at most MaxAttempts times, and a denied call never.
THEOREM SendsBounded == Spec => []SendsAreBounded
<1>1. Init => SendInv
  BY DEF Init, SendInv, Refused
<1>2. TypeOK /\ SendInv /\ [Next]_vars => SendInv'
  <2> SUFFICES ASSUME TypeOK, SendInv, [Next]_vars PROVE SendInv'
    OBVIOUS
  <2> USE DEF callVars, sessionVars, databaseVars, Goto, At, SendInv, Refused, TypeOK,
             PCs, Busy, Waiting
  <2>1. ASSUME NEW c \in Calls, Arrive(c) PROVE SendInv'
    BY <2>1, OnlyUnsentIsRetried DEF NextEvent, Attached, Arrive, AllProfiles,
       Verdicts, Handles, Answers, Phases, AllProfiles, Verdicts
  <2>2. ASSUME NEW c \in Calls, DryRun(c) PROVE SendInv'
    BY <2>2, OnlyUnsentIsRetried DEF NextEvent, Attached, DryRun, Handles, Answers, Phases
  <2>3. ASSUME NEW c \in Calls, Attempt(c) PROVE SendInv'
    BY <2>3, OnlyUnsentIsRetried DEF NextEvent, Attached, Attempt, Handles, Answers,
       Phases, Outcomes, PreSend
  <2>4. ASSUME NEW c \in Calls, Classify(c) PROVE SendInv'
    <3>1. profile[c].idempotent \in BOOLEAN /\ outcome[c] \in Outcomes
      BY <2>4 DEF Classify, AllProfiles
    <3>2. pc'[c] = "backoff" /\ ~profile[c].idempotent => outcome[c] \in PreSend
      <4> SUFFICES ASSUME pc'[c] = "backoff", ~profile[c].idempotent
                   PROVE  outcome[c] \in PreSend
        OBVIOUS
      <4>1. Retryable(outcome[c], profile[c].idempotent)
        BY <2>4 DEF Classify, AfterCall
      <4>2. Retryable(outcome[c], FALSE)
        BY <3>1, <4>1
      <4> QED
        BY <3>1, <4>2, OnlyUnsentIsRetried
    <3> QED
      BY <2>4, <3>2 DEF Classify, AfterCall
  <2>5. ASSUME NEW c \in Calls, Capture(c) PROVE SendInv'
    BY <2>5, OnlyUnsentIsRetried DEF NextEvent, Attached, Capture, OnQueue,
       QueueThrows, Runs, Throws, Handles, Answers, Phases
  <2>6. ASSUME NEW c \in Calls, AuditCapture(c) PROVE SendInv'
    BY <2>6, OnlyUnsentIsRetried DEF NextEvent, Attached, AuditCapture, OnStore,
       StoreThrows, Runs, Throws, Handles, Answers, Phases
  <2>7. ASSUME NEW c \in Calls, Index(c) PROVE SendInv'
    BY <2>7, OnlyUnsentIsRetried DEF NextEvent, Attached, Index, OnQueue,
       QueueThrows, Runs, Throws, Handles, Answers, Phases
  <2>8. ASSUME NEW c \in Calls, Log(c) PROVE SendInv'
    BY <2>8, OnlyUnsentIsRetried DEF NextEvent, Attached, Log, OnStore, StoreThrows,
       Runs, Throws, Respond, Reply, Handles, Answers, Phases
  <2>9. ASSUME NEW c \in Calls, DenyLog(c) PROVE SendInv'
    BY <2>9, OnlyUnsentIsRetried DEF NextEvent, Attached, DenyLog, OnStore,
       StoreThrows, Runs, Throws, Handles, Answers, Phases
  <2>10. ASSUME NEW c \in Calls, DenyAudit(c) PROVE SendInv'
    BY <2>10, OnlyUnsentIsRetried DEF NextEvent, Attached, DenyAudit, OnStore,
       StoreThrows, Runs, Throws, Respond, Handles, Answers, Phases
  <2>11. ASSUME NEW c \in Calls, Cancel(c) PROVE SendInv'
    BY <2>11, OnlyUnsentIsRetried DEF NextEvent, Attached, Cancel, Settle, Handles,
       Answers, Phases, Outcomes, PreSend
  <2>12. ASSUME NEW c \in Calls, BackoffEnds(c) PROVE SendInv'
    BY <2>12, OnlyUnsentIsRetried DEF NextEvent, Attached, BackoffEnds, Handles,
       Answers, Phases
  <2>13. ASSUME NEW c \in Calls, Publish(c) PROVE SendInv'
    BY <2>13, OnlyUnsentIsRetried DEF NextEvent, Attached, Publish, Handles,
       Answers, Phases
  <2>14. ASSUME NEW c \in Calls, NEW ending \in UpstreamEndings(transport), Answered(c, ending)
        PROVE  SendInv'
    BY <2>14, OnlyUnsentIsRetried DEF NextEvent, Attached, Answered, Settle,
       Handles, Answers, Phases, Outcomes, UpstreamEndings, Transports, Results,
       PreSend
  <2>15. CASE ClientEof
    BY <2>15, OnlyUnsentIsRetried DEF NextEvent, Attached, ClientEof, EndSession,
       ResolveClosed, Settle, Handles, Answers, Phases, Outcomes, PreSend
  <2>16. CASE UpstreamDies
    BY <2>16, OnlyUnsentIsRetried DEF NextEvent, Attached, UpstreamDies, EndSession,
       ResolveClosed, Settle, Handles, Answers, Phases, Outcomes, PreSend
  <2>17. CASE Kill
    BY <2>17, OnlyUnsentIsRetried DEF NextEvent, Attached, Kill, Handles, Answers, Phases
  <2>18. CASE CloseLink
    BY <2>18, OnlyUnsentIsRetried DEF NextEvent, Attached, CloseLink, ResolveClosed,
       Settle, Handles, Answers, Phases, Outcomes, PreSend
  <2>19. CASE Detach
    BY <2>19, OnlyUnsentIsRetried DEF NextEvent, Attached, Detach, Handles, Answers,
       Phases
  <2>20. CASE CloseQueue
    BY <2>20, OnlyUnsentIsRetried DEF NextEvent, Attached, CloseQueue, Closed,
       Handles, Answers, Phases
  <2>21. CASE CloseStore
    BY <2>21, OnlyUnsentIsRetried DEF NextEvent, Attached, CloseStore, Closed,
       Handles, Answers, Phases
  <2>22. CASE UNCHANGED vars
    BY <2>22 DEF vars, Handles, Answers, Phases
  <2> QED
    BY <2>1, <2>2, <2>3, <2>4, <2>5, <2>6, <2>7, <2>8, <2>9, <2>10, <2>11, <2>12,
       <2>13, <2>14, <2>15, <2>16, <2>17, <2>18, <2>19, <2>20, <2>21, <2>22 DEF
       Next, Run, Teardown
<1>3. TypeOK /\ SendInv => SendsAreBounded
  <2> SUFFICES ASSUME TypeOK, SendInv, transport = "stdio", NEW c \in Calls
               PROVE  forwarded[c] <= IF Refused(c) THEN 0
                                       ELSE IF profile[c].idempotent THEN MaxAttempts ELSE 1
    BY DEF SendsAreBounded, Refused
  <2>1. /\ profile[c].idempotent \in BOOLEAN
        /\ attempts[c] \in 0..MaxAttempts
        /\ forwarded[c] \in Nat
    BY DEF TypeOK, AllProfiles
  <2>2. CASE Refused(c)
    BY <2>1, <2>2 DEF SendInv
  <2>3. CASE ~Refused(c) /\ profile[c].idempotent
    BY <2>1, <2>3, PipelineAssumption DEF SendInv
  <2>4. CASE ~Refused(c) /\ ~profile[c].idempotent
    BY <2>1, <2>4 DEF SendInv
  <2> QED
    BY <2>2, <2>3, <2>4
<1> QED
  BY <1>1, <1>2, <1>3, TypeCorrect, PTL DEF Spec

-----------------------------------------------------------------------------
\* A cancelled call has no open request; it is on its way to a capture only if
\* its attempt found the link down, and a link that is down stays down.
AbortInv ==
    \A c \in aborted :
        /\ pc[c] # "sent"
        /\ pc[c] = "settled" =>
              outcome[c] = "cancelled" \/ (outcome[c] = "unsent" /\ link # "up")
        /\ pc[c] = "capture" => outcome[c] = "unsent" /\ link # "up"

\* AbortInv always holds.
THEOREM AbortInvHolds == Spec => []AbortInv
<1>1. Init => AbortInv
  BY DEF Init, AbortInv
<1>2. TypeOK /\ AbortInv /\ [Next]_vars => AbortInv'
  <2> SUFFICES ASSUME TypeOK, AbortInv, [Next]_vars PROVE AbortInv'
    OBVIOUS
  <2> USE DEF callVars, sessionVars, databaseVars, Goto, At, NextEvent, Attached,
             AbortInv, TypeOK, PCs, Busy, Waiting, Handles, Answers, Phases
  <2>1. ASSUME NEW c \in Calls, Arrive(c) PROVE AbortInv'
    BY <2>1 DEF Arrive, AllProfiles, Verdicts
  <2>2. ASSUME NEW c \in Calls, DryRun(c) PROVE AbortInv'
    BY <2>2 DEF DryRun
  <2>3. ASSUME NEW c \in Calls, Attempt(c) PROVE AbortInv'
    BY <2>3 DEF Attempt
  <2>4. ASSUME NEW c \in Calls, Classify(c) PROVE AbortInv'
    BY <2>4 DEF Classify, AfterCall, Results
  <2>5. ASSUME NEW c \in Calls, Capture(c) PROVE AbortInv'
    BY <2>5 DEF Capture, OnQueue, QueueThrows, Runs, Throws
  <2>6. ASSUME NEW c \in Calls, AuditCapture(c) PROVE AbortInv'
    BY <2>6 DEF AuditCapture, OnStore, StoreThrows, Runs, Throws
  <2>7. ASSUME NEW c \in Calls, Index(c) PROVE AbortInv'
    BY <2>7 DEF Index, OnQueue, QueueThrows, Runs, Throws
  <2>8. ASSUME NEW c \in Calls, Log(c) PROVE AbortInv'
    BY <2>8 DEF Log, OnStore, StoreThrows, Runs, Throws, Respond, Reply
  <2>9. ASSUME NEW c \in Calls, DenyLog(c) PROVE AbortInv'
    BY <2>9 DEF DenyLog, OnStore, StoreThrows, Runs, Throws
  <2>10. ASSUME NEW c \in Calls, DenyAudit(c) PROVE AbortInv'
    BY <2>10 DEF DenyAudit, OnStore, StoreThrows, Runs, Throws, Respond
  <2>11. ASSUME NEW c \in Calls, Cancel(c) PROVE AbortInv'
    BY <2>11 DEF Cancel, Settle
  <2>12. ASSUME NEW c \in Calls, BackoffEnds(c) PROVE AbortInv'
    BY <2>12 DEF BackoffEnds
  <2>13. ASSUME NEW c \in Calls, Publish(c) PROVE AbortInv'
    BY <2>13 DEF Publish
  <2>14. ASSUME NEW c \in Calls, NEW ending \in UpstreamEndings(transport), Answered(c, ending)
        PROVE  AbortInv'
    BY <2>14 DEF Answered, Settle
  <2>15. CASE ClientEof
    BY <2>15 DEF ClientEof, EndSession, ResolveClosed, Settle
  <2>16. CASE UpstreamDies
    BY <2>16 DEF UpstreamDies, EndSession, ResolveClosed, Settle
  <2>17. CASE Kill
    BY <2>17 DEF Kill
  <2>18. CASE CloseLink
    BY <2>18 DEF CloseLink, ResolveClosed, Settle
  <2>19. CASE Detach
    BY <2>19 DEF Detach
  <2>20. CASE CloseQueue
    BY <2>20 DEF CloseQueue, Closed
  <2>21. CASE CloseStore
    BY <2>21 DEF CloseStore, Closed
  <2>22. CASE UNCHANGED vars
    BY <2>22 DEF vars
  <2> QED
    BY <2>1, <2>2, <2>3, <2>4, <2>5, <2>6, <2>7, <2>8, <2>9, <2>10, <2>11, <2>12,
       <2>13, <2>14, <2>15, <2>16, <2>17, <2>18, <2>19, <2>20, <2>21, <2>22 DEF
       Next, Run, Teardown
<1> QED
  BY <1>1, <1>2, TypeCorrect, PTL DEF Spec

-----------------------------------------------------------------------------
\* No call is sent into a link that is down or after its cancellation, and a
\* cancelled call is captured only because a retry found the link down:
\* attemptToolCall, the only step that sends, looks at the link, then at the
\* signal.
THEOREM LinkAndSignal == Spec => LinkAndSignalAreObeyed
<1> DEFINE Obeyed(c) ==
      /\ link # "up" \/ c \in aborted => forwarded'[c] = forwarded[c]
      /\ c \in aborted /\ c \in captured' \ captured => outcome[c] = "unsent" /\ link # "up"
<1>1. ASSUME TypeOK, AbortInv, [Next]_vars, NEW c \in Calls PROVE Obeyed(c)
  <2> USE DEF callVars, sessionVars, databaseVars
  <2>1. ASSUME NEW d \in Calls, Attempt(d) PROVE Obeyed(c)
    BY <1>1, <2>1 DEF Attempt, TypeOK
  <2>2. ASSUME NEW d \in Calls, Capture(d) PROVE Obeyed(c)
    BY <1>1, <2>2 DEF Capture, At, AbortInv
  <2>3. ASSUME NEW d \in Calls,
               \/ DryRun(d) \/ Classify(d) \/ AuditCapture(d) \/ Index(d)
               \/ Log(d) \/ DenyLog(d) \/ DenyAudit(d)
        PROVE  Obeyed(c)
    BY <2>3 DEF DryRun, Classify, AuditCapture, Index, Log, DenyLog, DenyAudit
  <2>4. ASSUME NEW d \in Calls, Arrive(d) \/ Cancel(d) \/ BackoffEnds(d) \/ Publish(d)
        PROVE  Obeyed(c)
    BY <2>4 DEF Arrive, Cancel, BackoffEnds, Publish
  <2>5. ASSUME NEW d \in Calls, NEW ending \in UpstreamEndings(transport), Answered(d, ending)
        PROVE  Obeyed(c)
    BY <2>5 DEF Answered
  <2>6. CASE ClientEof \/ UpstreamDies \/ Kill \/ Teardown
    BY <2>6 DEF ClientEof, UpstreamDies, Kill, Teardown, CloseLink, Detach,
       CloseQueue, CloseStore
  <2>7. CASE UNCHANGED vars
    BY <2>7 DEF vars
  <2> QED
    BY <1>1, <2>1, <2>2, <2>3, <2>4, <2>5, <2>6, <2>7 DEF Next, Run
<1>2. TypeOK /\ AbortInv /\ [Next]_vars => [\A c \in Calls : Obeyed(c)]_vars
  BY <1>1
<1> QED
  BY <1>2, TypeCorrect, AbortInvHolds, PTL DEF Spec, LinkAndSignalAreObeyed

-----------------------------------------------------------------------------
\* A call that was open when the upstream died is still running towards its
\* answer, which keeps the event that goes on with teardown waiting.
InFlight(c) ==
    /\ link = "died" /\ ~eof
    /\ outcome[c] = "closed" /\ ~profile[c].idempotent /\ c \notin aborted

FlushInv ==
    /\ link = "up" => phase \in {"serving", "ended", "killed"} /\ \A c \in Calls : outcome[c] # "closed"
    /\ link = "died" => \A c \in Calls : pc[c] # "sent"
    /\ \A c \in Calls : InFlight(c) =>
          \/ pc[c] = "done" /\ answer[c] = "error"
          \/ pc[c] \in {"settled", "capture", "audit", "log"} /\ phase \in {"serving", "ended", "killed"}

\* A tool that is not idempotent is not retried after the connection closed.
LEMMA ClosedIsNotRetried == ~Retryable("closed", FALSE) /\ Recorded("closed")
BY DEF Retryable, Recorded, ClassOf, PreSend, MayHaveExecuted

\* run.ts goes on with teardown in a setImmediate callback: with the SQLite
\* queue, whose captures need no event, the error of every call in flight is
\* written before the server is detached.
THEOREM ErrorsFlush == ASSUME Provider = "sqlite" PROVE Spec => []InFlightErrorsFlush
<1>1. Init => FlushInv
  BY DEF Init, FlushInv, InFlight
<1>2. TypeOK /\ FlushInv /\ [Next]_vars => FlushInv'
  <2> SUFFICES ASSUME TypeOK, FlushInv, [Next]_vars PROVE FlushInv'
    OBVIOUS
  <2> USE DEF callVars, sessionVars, databaseVars, Goto, At, NextEvent, Attached,
             FlushInv, InFlight, TypeOK, PCs, Busy, Waiting, Handles, Answers, Phases
  <2>1. ASSUME NEW c \in Calls, Arrive(c) PROVE FlushInv'
    <3>1. pc[c] = "idle" /\ ~InFlight(c) /\ UNCHANGED <<phase, link, eof, outcome, profile, aborted, answer>>
      BY <2>1 DEF Arrive
    <3>2. pc'[c] # "sent" /\ \A d \in Calls \ {c} : pc'[d] = pc[d]
      BY <2>1 DEF Arrive, AllProfiles, Verdicts
    <3> QED
      BY <3>1, <3>2
  <2>2. ASSUME NEW c \in Calls, DryRun(c) PROVE FlushInv'
    BY <2>2 DEF DryRun
  <2>3. ASSUME NEW c \in Calls, Attempt(c) PROVE FlushInv'
    BY <2>3 DEF Attempt
  <2>4. ASSUME NEW c \in Calls, Classify(c) PROVE FlushInv'
    <3>1. profile[c].idempotent \in BOOLEAN
      BY DEF AllProfiles
    <3>2. outcome[c] = "closed" /\ ~profile[c].idempotent => pc'[c] = "capture"
      BY <2>4, <3>1, ClosedIsNotRetried DEF Classify, AfterCall, Results
    <3> QED
      BY <2>4, <3>2 DEF Classify, AfterCall
  <2>5. ASSUME NEW c \in Calls, Capture(c) PROVE FlushInv'
    BY <2>5 DEF Capture, OnQueue, QueueThrows, Runs, Throws
  <2>6. ASSUME NEW c \in Calls, AuditCapture(c) PROVE FlushInv'
    BY <2>6 DEF AuditCapture, OnStore, StoreThrows, Runs, Throws
  <2>7. ASSUME NEW c \in Calls, Index(c) PROVE FlushInv'
    BY <2>7 DEF Index, OnQueue, QueueThrows, Runs, Throws
  <2>8. ASSUME NEW c \in Calls, Log(c) PROVE FlushInv'
    BY <2>8 DEF Log, OnStore, StoreThrows, Runs, Throws, Respond, Reply, Results
  <2>9. ASSUME NEW c \in Calls, DenyLog(c) PROVE FlushInv'
    BY <2>9 DEF DenyLog, OnStore, StoreThrows, Runs, Throws
  <2>10. ASSUME NEW c \in Calls, DenyAudit(c) PROVE FlushInv'
    BY <2>10 DEF DenyAudit, OnStore, StoreThrows, Runs, Throws, Respond
  <2>11. ASSUME NEW c \in Calls, Cancel(c) PROVE FlushInv'
    BY <2>11 DEF Cancel, Settle
  <2>12. ASSUME NEW c \in Calls, BackoffEnds(c) PROVE FlushInv'
    BY <2>12 DEF BackoffEnds
  <2>13. ASSUME NEW c \in Calls, Publish(c) PROVE FlushInv'
    BY <2>13 DEF Publish
  <2>14. ASSUME NEW c \in Calls, NEW ending \in UpstreamEndings(transport), Answered(c, ending)
        PROVE  FlushInv'
    BY <2>14 DEF Answered, Settle, UpstreamEndings, Results
  <2>15. CASE ClientEof
    BY <2>15 DEF ClientEof, EndSession, ResolveClosed, Settle
  <2>16. CASE UpstreamDies
    BY <2>16 DEF UpstreamDies, EndSession, ResolveClosed, Settle
  <2>17. CASE Kill
    BY <2>17 DEF Kill
  <2>18. CASE CloseLink
    BY <2>18 DEF CloseLink, ResolveClosed, Settle
  <2>19. CASE Detach
    BY <2>19 DEF Detach
  <2>20. CASE CloseQueue
    BY <2>20 DEF CloseQueue
  <2>21. CASE CloseStore
    BY <2>21 DEF CloseStore
  <2>22. CASE UNCHANGED vars
    BY <2>22 DEF vars
  <2> QED
    BY <2>1, <2>2, <2>3, <2>4, <2>5, <2>6, <2>7, <2>8, <2>9, <2>10, <2>11, <2>12,
       <2>13, <2>14, <2>15, <2>16, <2>17, <2>18, <2>19, <2>20, <2>21, <2>22 DEF
       Next, Run, Teardown
<1>3. FlushInv => InFlightErrorsFlush
  BY DEF FlushInv, InFlight, InFlightErrorsFlush
<1> QED
  BY <1>1, <1>2, <1>3, TypeCorrect, PTL DEF Spec
=============================================================================
