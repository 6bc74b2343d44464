--------------------------- MODULE HistoryProofs ---------------------------
(***************************************************************************)
(* Theorems about History for any processes that share the file, any       *)
(* retention of each, any existing file and any length of a day.           *)
(***************************************************************************)
EXTENDS History, FiniteSetTheorems, WellFoundedInduction, TLAPS

\* The types retention rests on, and the two facts about time that make it
\* safe: an entry in a writer's hand has waited for less than a day, and no
\* cutoff is nearer than the retention of some process.
TimeInv ==
    /\ now \in Int
    /\ retentionDays \in [Processes -> Nat]
    /\ pc \in [Processes -> {"started", "parsed", "open", "selected", "printed"}]
    /\ stamped \in [Writers -> [at : Int, kind : CallKinds] \cup {Nothing}]
    /\ DOMAIN selected = Reports
    /\ \A e \in recorded : e.at \in Int
    /\ cutoffs \subseteq Int
    /\ \A w \in Writers : stamped[w] # Nothing => now - stamped[w].at <= Slack
    /\ \A cutoff \in cutoffs :
          \E p \in Processes : retentionDays[p] # 0 /\ cutoff <= now - retentionDays[p] * Day

\* The table is what was recorded less what some cutoff expired, and nothing
\* else.
ExactRetention == callEvents = {e \in recorded : \A cutoff \in cutoffs : e.at >= cutoff}

RetentionInv == TimeInv /\ ExactRetention

\* A retention that prunes keeps a whole day.
LEMMA AtLeastADay ==
    ASSUME NEW d \in Nat, d # 0
    PROVE  d * Day \in Int /\ d * Day >= Day
<1>1. Day \in Nat
  BY HistoryAssumption
<1>2. PICK k \in Nat : d = k + 1
  <2>1. d - 1 \in Nat /\ d = (d - 1) + 1
    OBVIOUS
  <2> QED
    BY <2>1
<1>3. k * Day \in Nat
  BY <1>1, <1>2
<1>4. (k + 1) * Day = k * Day + Day
  BY <1>1, <1>2
<1> QED
  BY <1>1, <1>2, <1>3, <1>4

LEMMA InitRetention == Init => RetentionInv
<1> SUFFICES ASSUME Init PROVE RetentionInv
  OBVIOUS
<1>1. \A e \in recorded : e.at \in Int
  BY HistoryAssumption DEF Init
<1>2. retentionDays \in [Processes -> Nat]
  BY HistoryAssumption DEF Init
<1>3. ExactRetention
  BY DEF Init, ExactRetention
<1> QED
  BY <1>1, <1>2, <1>3 DEF Init, RetentionInv, TimeInv

\* The opening process is the witness for its own cutoff.
LEMMA OpenKeepsRetention ==
    ASSUME RetentionInv, NEW p \in Processes, OpenStore(p)
    PROVE  RetentionInv'
<1> USE DEF RetentionInv, TimeInv
<1>1. CASE retentionDays[p] = 0
  BY <1>1 DEF OpenStore, PruneCallEvents, Goto, ExactRetention, reportVars
<1>2. CASE retentionDays[p] # 0
  <2> DEFINE cutoff == now - retentionDays[p] * Day
  <2>1. cutoff \in Int
    BY <1>2, AtLeastADay
  <2>2. callEvents' = callEvents \ {row \in callEvents : row.at < cutoff}
    BY <1>2 DEF OpenStore, PruneCallEvents, Expired
  <2>3. cutoffs' = cutoffs \cup {cutoff}
    BY <1>2 DEF OpenStore, PruneCallEvents
  <2>4. UNCHANGED <<now, retentionDays, stamped, recorded, selected>>
    BY DEF OpenStore, reportVars
  <2>5. pc' \in [Processes -> {"started", "parsed", "open", "selected", "printed"}]
    BY DEF OpenStore, Goto
  <2> HIDE DEF cutoff
  <2>6. ExactRetention'
    BY <2>1, <2>2, <2>3, <2>4 DEF ExactRetention
  <2>7. \A c \in cutoffs' :
           \E q \in Processes : retentionDays'[q] # 0 /\ c <= now' - retentionDays'[q] * Day
    <3> SUFFICES ASSUME NEW c \in cutoffs'
                 PROVE \E q \in Processes : retentionDays'[q] # 0 /\ c <= now' - retentionDays'[q] * Day
      OBVIOUS
    <3>1. CASE c \in cutoffs
      BY <3>1, <2>4
    <3>2. CASE c = cutoff
      <4>1. c <= now - retentionDays[p] * Day
        BY <3>2, <2>1 DEF cutoff
      <4> QED
        BY <4>1, <1>2, <2>4
    <3> QED
      BY <3>1, <3>2, <2>3
  <2> QED
    BY <2>1, <2>3, <2>4, <2>5, <2>6, <2>7
<1> QED
  BY <1>1, <1>2

\* An entry that is inserted is younger than every cutoff.
LEMMA RecordKeepsRetention ==
    ASSUME RetentionInv, NEW w \in Writers, RecordCall(w)
    PROVE  RetentionInv'
<1> USE DEF RetentionInv, TimeInv
<1>1. stamped[w].at \in Int /\ now - stamped[w].at <= Slack
  BY DEF RecordCall
<1>2. Row(w).at = stamped[w].at
  BY DEF Row
<1>3. \A cutoff \in cutoffs : Row(w).at >= cutoff
  <2> SUFFICES ASSUME NEW cutoff \in cutoffs PROVE stamped[w].at >= cutoff
    BY <1>2
  <2>1. PICK p \in Processes : retentionDays[p] # 0 /\ cutoff <= now - retentionDays[p] * Day
    OBVIOUS
  <2>2. retentionDays[p] * Day \in Int /\ retentionDays[p] * Day >= Day
    BY <2>1, AtLeastADay
  <2>3. Day \in Nat /\ Slack \in Nat /\ Slack < Day
    BY HistoryAssumption
  <2> QED
    BY <1>1, <2>1, <2>2, <2>3
<1>4. /\ callEvents' = callEvents \cup {Row(w)} /\ recorded' = recorded \cup {Row(w)}
      /\ stamped' = [stamped EXCEPT ![w] = Nothing]
      /\ UNCHANGED <<now, retentionDays, pc, cutoffs, selected>>
  BY DEF RecordCall, reportVars
<1>5. ExactRetention'
  BY <1>3, <1>4 DEF ExactRetention
<1>6. \A e \in recorded' : e.at \in Int
  BY <1>1, <1>2, <1>4
<1> QED
  BY <1>4, <1>5, <1>6

\* Every other step leaves the file alone.
LEMMA StepKeepsRetention == RetentionInv /\ [Next]_vars => RetentionInv'
<1> SUFFICES ASSUME RetentionInv, [Next]_vars PROVE RetentionInv'
  OBVIOUS
<1> USE DEF RetentionInv, TimeInv, fileVars, reportVars
<1>1. CASE Tick
  <2>1. /\ now' = now + 1 /\ UNCHANGED <<retentionDays, pc, stamped, callEvents, recorded, cutoffs, selected>>
        /\ \A w \in Writers : stamped[w] # Nothing => now - stamped[w].at < Slack
    BY <1>1 DEF Tick
  <2>2. \A w \in Writers : stamped'[w] # Nothing => now' - stamped'[w].at <= Slack
    <3> SUFFICES ASSUME NEW w \in Writers, stamped[w] # Nothing
                 PROVE  now + 1 - stamped[w].at <= Slack
      BY <2>1
    <3>1. stamped[w].at \in Int /\ Slack \in Int
      BY HistoryAssumption
    <3> QED
      BY <2>1, <3>1
  <2>3. \A c \in cutoffs' :
           \E p \in Processes : retentionDays'[p] # 0 /\ c <= now' - retentionDays'[p] * Day
    <3> SUFFICES ASSUME NEW c \in cutoffs'
                 PROVE \E p \in Processes : retentionDays'[p] # 0 /\ c <= now' - retentionDays'[p] * Day
      OBVIOUS
    <3>1. PICK p \in Processes : retentionDays[p] # 0 /\ c <= now - retentionDays[p] * Day
      BY <2>1
    <3>2. retentionDays[p] * Day \in Int
      BY <3>1, AtLeastADay
    <3>3. c \in Int /\ retentionDays' = retentionDays /\ now' = now + 1
      BY <2>1
    <3> QED
      BY <3>1, <3>2, <3>3
  <2> QED
    BY <2>1, <2>2, <2>3 DEF ExactRetention
<1>2. ASSUME NEW p \in Processes, OpenStore(p) PROVE RetentionInv'
  BY <1>2, OpenKeepsRetention
<1>3. ASSUME NEW w \in Writers, RecordCall(w) PROVE RetentionInv'
  BY <1>3, RecordKeepsRetention
<1>4. ASSUME NEW w \in Writers, RecordFails(w) PROVE RetentionInv'
  BY <1>4 DEF RecordFails, ExactRetention
<1>5. ASSUME NEW w \in Writers, Audit(w) PROVE RetentionInv'
  BY <1>5 DEF Audit, ExactRetention
<1>6. ASSUME NEW w \in Writers, NEW kind \in CallKinds, Stamp(w, kind) PROVE RetentionInv'
  <2>1. now - now <= Slack
    BY HistoryAssumption
  <2> QED
    BY <1>6, <2>1 DEF Stamp, ExactRetention
<1>7. ASSUME NEW r \in Reports, SelectCalls(r) PROVE RetentionInv'
  BY <1>7 DEF SelectCalls, ExactRetention, Goto
<1>8. ASSUME NEW r \in Reports, PrintReport(r) PROVE RetentionInv'
  BY <1>8 DEF PrintReport, ExactRetention, Goto
<1>9. ASSUME NEW r \in Reports, NEW request \in Requests, Parse(r, request) PROVE RetentionInv'
  BY <1>9 DEF Parse, ExactRetention, Goto
<1>10. CASE UNCHANGED vars
  BY <1>10 DEF vars, ExactRetention
<1> QED
  BY <1>1, <1>2, <1>3, <1>4, <1>5, <1>6, <1>7, <1>8, <1>9, <1>10 DEF Next

\* Whatever the order in which processes of any retention open the store and
\* write to it, the file holds exactly the call events no cutoff has expired.
THEOREM RetentionExact == Spec => []RetentionInv
<1> QED
  BY InitRetention, StepKeepsRetention, PTL DEF Spec

\* Nothing that is within the retention of every process is ever deleted.
THEOREM RecentKept == Spec => []RecentIsKept
<1>1. RetentionInv => RecentIsKept
  <2> SUFFICES ASSUME RetentionInv, NEW e \in recorded,
                      \A p \in Processes :
                          retentionDays[p] = 0 \/ e.at >= now - retentionDays[p] * Day
               PROVE  e \in callEvents
    BY DEF RecentIsKept
  <2>1. ASSUME NEW cutoff \in cutoffs PROVE e.at >= cutoff
    <3>1. PICK p \in Processes : retentionDays[p] # 0 /\ cutoff <= now - retentionDays[p] * Day
      BY <2>1 DEF RetentionInv, TimeInv
    <3>2. retentionDays[p] * Day \in Int
      BY <3>1, AtLeastADay DEF RetentionInv, TimeInv
    <3> QED
      BY <3>1, <3>2 DEF RetentionInv, TimeInv
  <2> QED
    BY <2>1 DEF RetentionInv, ExactRetention
<1> QED
  BY <1>1, RetentionExact, PTL

\* Nothing that an opening process found expired is there, then or later.
THEOREM ExpiredGone == Spec => []ExpiredIsGone
<1>1. RetentionInv => ExpiredIsGone
  BY DEF RetentionInv, ExactRetention, ExpiredIsGone
<1> QED
  BY <1>1, RetentionExact, PTL

\* Only its own first statement takes a report from the open store to a selection.
LEMMA OnlySelectCalls ==
    ASSUME RetentionInv, Next, NEW r \in Reports, pc[r] = "open", pc'[r] = "selected"
    PROVE  SelectCalls(r)
<1> USE DEF RetentionInv, TimeInv, Goto
<1>1. ASSUME NEW p \in Processes, OpenStore(p) PROVE FALSE
  BY <1>1 DEF OpenStore
<1>2. ASSUME NEW q \in Reports, SelectCalls(q) PROVE q = r
  BY <1>2 DEF SelectCalls, Processes
<1>3. ASSUME NEW q \in Reports, PrintReport(q) PROVE FALSE
  BY <1>3 DEF PrintReport, Processes
<1>4. ASSUME NEW q \in Reports, NEW request \in Requests, Parse(q, request) PROVE FALSE
  BY <1>4 DEF Parse, Processes
<1>5. ASSUME NEW w \in Writers, RecordCall(w) \/ RecordFails(w) \/ Audit(w) PROVE FALSE
  BY <1>5 DEF RecordCall, RecordFails, Audit
<1>6. ASSUME NEW w \in Writers, NEW kind \in CallKinds, Stamp(w, kind) PROVE FALSE
  BY <1>6 DEF Stamp
<1>7. CASE Tick
  BY <1>7 DEF Tick
<1> QED
  BY <1>1, <1>2, <1>3, <1>4, <1>5, <1>6, <1>7 DEF Next

-----------------------------------------------------------------------------
\* The window of a report

\* An instant lies in the second its text names.
LEMMA InSecond ==
    ASSUME NEW at \in Int
    PROVE  /\ at \div Second \in Int /\ Second * (at \div Second) \in Int
           /\ Second * (at \div Second) <= at /\ at < Second * (at \div Second) + Second
           /\ at % Second = at - Second * (at \div Second)
BY SecondAssumption

LEMMA Scale ==
    ASSUME NEW a \in Int, NEW b \in Int, a <= b
    PROVE  Second * a \in Int /\ Second * b \in Int /\ Second * a <= Second * b
<1>1. PICK n \in Nat : b = a + n
  <2>1. b - a \in Nat /\ b = a + (b - a)
    OBVIOUS
  <2> QED
    BY <2>1
<1>2. Second * n \in Nat /\ Second * a \in Int
  BY SecondAssumption
<1>3. Second * b = Second * a + Second * n
  BY <1>1, SecondAssumption
<1> QED
  BY <1>2, <1>3

\* The texts of ToISOString sort as the instants they are of.
LEMMA StampOrder ==
    ASSUME NEW a \in Int, NEW b \in Int
    PROVE  NotAfter(ToISOString(a), ToISOString(b)) <=> a <= b
<1> DEFINE s == a \div Second
           t == b \div Second
<1>1. /\ s \in Int /\ Second * s \in Int /\ Second * s <= a /\ a < Second * s + Second
      /\ a % Second = a - Second * s
  BY InSecond
<1>2. /\ t \in Int /\ Second * t \in Int /\ Second * t <= b /\ b < Second * t + Second
      /\ b % Second = b - Second * t
  BY InSecond
<1>3. NotAfter(ToISOString(a), ToISOString(b)) <=> s < t \/ (s = t /\ a % Second <= b % Second)
  BY DEF NotAfter, ToISOString
<1> HIDE DEF s, t
<1>4. Second \in Int
  BY SecondAssumption
<1>5. CASE s < t
  <2>1. Second * (s + 1) <= Second * t
    BY <1>1, <1>2, <1>5, Scale
  <2>2. Second * (s + 1) = Second * s + Second
    BY <1>1, <1>4
  <2> QED
    BY <1>1, <1>2, <1>3, <1>4, <1>5, <2>1, <2>2
<1>6. CASE s = t
  BY <1>1, <1>2, <1>3, <1>4, <1>6
<1>7. CASE t < s
  <2>1. Second * (t + 1) <= Second * s
    BY <1>1, <1>2, <1>7, Scale
  <2>2. Second * (t + 1) = Second * t + Second
    BY <1>2, <1>4
  <2> QED
    BY <1>1, <1>2, <1>3, <1>4, <1>7, <2>1, <2>2
<1> QED
  BY <1>1, <1>2, <1>5, <1>6, <1>7

\* A stamp that sorts before a bound, or after it, is on that side of the bound's
\* instant, give or take its blur.
LEMMA BoundMisses ==
    ASSUME NEW bound \in Bounds, NEW at \in Int
    PROVE  /\ Blur(bound) \in Nat
           /\ NotAfter(bound.text, ToISOString(at)) => bound.at - Blur(bound) <= at
           /\ bound.at + Blur(bound) <= at => NotAfter(bound.text, ToISOString(at))
           /\ NotAfter(ToISOString(at), bound.text) => at <= bound.at + Blur(bound)
           /\ at <= bound.at - Blur(bound) => NotAfter(ToISOString(at), bound.text)
<1>0. bound.at \in Int /\ bound.text \in Int \X Int
  BY DEF Bounds
<1>1. CASE bound = Stamped(bound.at)
  <2>1. Blur(bound) = 0
    BY <1>1 DEF Blur
  <2>2. bound.text = ToISOString(bound.at)
    BY <1>1 DEF Stamped
  <2> QED
    BY <1>0, <2>1, <2>2, StampOrder
<1>2. CASE bound # Stamped(bound.at)
  <2> DEFINE x == bound.text[1]
             s == bound.at \div Second
             t == at \div Second
             far == Second * Distance(x, s)
  <2>1. x \in Int /\ Second \in Nat /\ Second \in Int
    BY <1>0, SecondAssumption
  <2>2. s \in Int /\ Second * s \in Int /\ Second * s <= bound.at /\ bound.at < Second * s + Second
    BY <1>0, InSecond
  <2>3. t \in Int /\ Second * t \in Int /\ Second * t <= at /\ at < Second * t + Second
    BY InSecond
  <2>4. /\ x < t => NotAfter(bound.text, ToISOString(at))
        /\ NotAfter(bound.text, ToISOString(at)) => x <= t
        /\ t < x => NotAfter(ToISOString(at), bound.text)
        /\ NotAfter(ToISOString(at), bound.text) => t <= x
    BY <2>1, <2>3 DEF NotAfter, ToISOString
  <2>5. Blur(bound) = Second + far
    BY <1>2 DEF Blur
  <2> HIDE DEF x, s, t
  <2>6. /\ Second * x \in Int /\ far \in Nat
        /\ Second * x - Second * s <= far /\ Second * s - Second * x <= far
    <3>1. Distance(x, s) \in Nat /\ x - s <= Distance(x, s) /\ s - x <= Distance(x, s)
      BY <2>1, <2>2 DEF Distance
    <3>2. /\ Second * (x - s) <= Second * Distance(x, s)
          /\ Second * (s - x) <= Second * Distance(x, s)
      BY <2>1, <2>2, <3>1, Scale
    <3>3. /\ Second * (x - s) = Second * x - Second * s
          /\ Second * (s - x) = Second * s - Second * x /\ Second * x \in Int
      BY <2>1, <2>2
    <3>4. far \in Nat
      BY <2>1, <3>1
    <3> QED
      BY <3>2, <3>3, <3>4
  <2> HIDE DEF far
  <2>7. ASSUME x <= t PROVE Second * x <= Second * t
    BY <2>1, <2>3, <2>7, Scale
  <2>8. ASSUME t <= x PROVE Second * t <= Second * x
    BY <2>1, <2>3, <2>8, Scale
  <2>9. bound.at + Blur(bound) <= at => x < t
    <3> SUFFICES ASSUME t <= x PROVE at < bound.at + Blur(bound)
      BY <1>0, <2>1, <2>3, <2>5, <2>6
    <3> QED
      BY <1>0, <2>1, <2>2, <2>3, <2>5, <2>6, <2>8
  <2>10. at <= bound.at - Blur(bound) => t < x
    <3> SUFFICES ASSUME x <= t PROVE bound.at - Blur(bound) < at
      BY <1>0, <2>1, <2>3, <2>5, <2>6
    <3> QED
      BY <1>0, <2>1, <2>2, <2>3, <2>5, <2>6, <2>7
  <2>11. x <= t => bound.at - Blur(bound) <= at
    BY <1>0, <2>1, <2>2, <2>3, <2>5, <2>6, <2>7
  <2>12. t <= x => at <= bound.at + Blur(bound)
    BY <1>0, <2>1, <2>2, <2>3, <2>5, <2>6, <2>8
  <2> QED
    BY <2>1, <2>4, <2>5, <2>6, <2>9, <2>10, <2>11, <2>12
<1> QED
  BY <1>1, <1>2

\* The bounds of a report that knows its options are texts, with the instants
\* they name.
QueryInv ==
    /\ DOMAIN query = Reports
    /\ \A r \in Reports : pc[r] # "started" => {query[r].since, query[r].until} \subseteq Bounds

LEMMA WindowHasBounds ==
    ASSUME now \in Int, NEW request \in Requests
    PROVE  {Window(request).since, Window(request).until} \subseteq Bounds
<1>1. ASSUME NEW at \in Int PROVE Stamped(at) \in Bounds
  <2>1. at \div Second \in Int /\ at % Second \in Int
    BY InSecond
  <2> QED
    BY <2>1 DEF Stamped, ToISOString, Bounds
<1>2. now - Day \in Int
  BY HistoryAssumption
<1>3. {request.since, request.until} \subseteq Bounds \cup {Default}
  BY HistoryAssumption
<1> QED
  BY <1>1, <1>2, <1>3 DEF Window

LEMMA StepKeepsQuery == RetentionInv /\ QueryInv /\ [Next]_vars => QueryInv'
<1> SUFFICES ASSUME RetentionInv, QueryInv, [Next]_vars PROVE QueryInv'
  OBVIOUS
<1> USE DEF QueryInv
<1>1. /\ pc \in [Processes -> {"started", "parsed", "open", "selected", "printed"}]
      /\ now \in Int
  BY DEF RetentionInv, TimeInv
<1>2. ASSUME NEW p \in Processes, OpenStore(p) PROVE QueryInv'
  <2>1. p \in Reports => pc[p] # "started"
    BY <1>2, HistoryAssumption DEF OpenStore
  <2>2. query' = query /\ \A r \in Reports : r # p => pc'[r] = pc[r]
    BY <1>1, <1>2 DEF OpenStore, Goto, reportVars, Processes
  <2> QED
    BY <2>1, <2>2
<1>3. ASSUME NEW r \in Reports, NEW request \in Requests, Parse(r, request) PROVE QueryInv'
  <2>1. /\ query' = [query EXCEPT ![r] = Window(request)]
        /\ \A q \in Reports : q # r => pc'[q] = pc[q]
    BY <1>1, <1>3 DEF Parse, Goto, Processes
  <2>2. {Window(request).since, Window(request).until} \subseteq Bounds
    BY <1>1, WindowHasBounds
  <2>3. /\ DOMAIN query' = Reports /\ query'[r] = Window(request)
        /\ \A q \in Reports : q # r => query'[q] = query[q]
    BY <2>1
  <2> QED
    BY <2>1, <2>2, <2>3
<1>4. ASSUME NEW r \in Reports, SelectCalls(r) \/ PrintReport(r) PROVE QueryInv'
  <2>1. query' = query /\ pc[r] # "started" /\ \A q \in Reports : q # r => pc'[q] = pc[q]
    BY <1>1, <1>4 DEF SelectCalls, PrintReport, Goto, Processes
  <2> QED
    BY <2>1
<1>5. CASE UNCHANGED <<pc, query>>
  BY <1>5
<1>6. ASSUME NEW w \in Writers,
             \/ RecordCall(w) \/ RecordFails(w) \/ Audit(w)
             \/ \E kind \in CallKinds : Stamp(w, kind)
      PROVE  UNCHANGED <<pc, query>>
  BY <1>6 DEF RecordCall, RecordFails, Audit, Stamp, reportVars
<1>7. CASE Tick \/ UNCHANGED vars
  BY <1>5, <1>7 DEF Tick, vars, reportVars
<1> QED
  BY <1>2, <1>3, <1>4, <1>5, <1>6, <1>7 DEF Next

\* A report selects every recorded call of its window but those that retention
\* has expired, and no other; a bound that is not written as a stamp is only about
\* right.
THEOREM ReportComplete == Spec => ReportIsComplete
<1> DEFINE Complete(r) ==
      LET q == query[r]
          since == q.since
          until == q.until
      IN  /\ \A e \in Unexpired :
                Asked(q, since.at + Blur(since), until.at - Blur(until), e) => e \in selected'[r]
          /\ \A e \in selected'[r] :
                /\ e \in Unexpired
                /\ Asked(q, since.at - Blur(since), until.at + Blur(until), e)
<1>1. ASSUME RetentionInv, QueryInv, Next, NEW r \in Reports, pc[r] = "open", pc'[r] = "selected"
      PROVE  Complete(r)
  <2> DEFINE q == query[r]
  <2>1. selected'[r] = Selected(q, callEvents) /\ callEvents = Unexpired
    BY <1>1, OnlySelectCalls DEF SelectCalls, RetentionInv, TimeInv, ExactRetention, Unexpired
  <2>2. q.since \in Bounds /\ q.until \in Bounds
    BY <1>1 DEF QueryInv
  <2>3. \A e \in Unexpired : e.at \in Int
    BY <1>1 DEF RetentionInv, TimeInv, Unexpired
  <2> HIDE DEF q
  <2>4. ASSUME NEW e \in Unexpired,
               Asked(q, q.since.at + Blur(q.since), q.until.at - Blur(q.until), e)
        PROVE  e \in selected'[r]
    <3>1. InWindow(q, e.at)
      BY <2>2, <2>3, <2>4, BoundMisses DEF Asked, InWindow
    <3> QED
      BY <2>1, <2>4, <3>1 DEF Selected, CallWhere, Asked
  <2>5. ASSUME NEW e \in selected'[r]
        PROVE  /\ e \in Unexpired
               /\ Asked(q, q.since.at - Blur(q.since), q.until.at + Blur(q.until), e)
    <3>1. e \in Unexpired /\ CallWhere(q, e)
      BY <2>1, <2>5 DEF Selected
    <3>2. q.since.at - Blur(q.since) <= e.at /\ e.at <= q.until.at + Blur(q.until)
      BY <2>2, <2>3, <3>1, BoundMisses DEF CallWhere, InWindow
    <3> QED
      BY <3>1, <3>2 DEF CallWhere, Asked
  <2> QED
    BY <2>4, <2>5 DEF q
<1>2. RetentionInv /\ QueryInv /\ Next =>
        \A r \in Reports : pc[r] = "open" /\ pc'[r] = "selected" => Complete(r)
  BY <1>1
<1>3. Init => QueryInv
  BY DEF Init, QueryInv, Processes
<1>4. RetentionInv /\ QueryInv /\ [Next]_vars /\ ~ UNCHANGED vars =>
        \A r \in Reports : pc[r] = "open" /\ pc'[r] = "selected" => Complete(r)
  BY <1>2
<1> QED
  BY <1>3, <1>4, StepKeepsQuery, RetentionExact, PTL DEF Spec, ReportIsComplete

-----------------------------------------------------------------------------
\* The report

\* Induction over the naturals, of a set.
LEMMA SetInduction ==
    ASSUME NEW T \in SUBSET Nat, 0 \in T, \A n \in T : n + 1 \in T
    PROVE  T = Nat
<1> SUFFICES ASSUME Nat \ T # {} PROVE FALSE
  OBVIOUS
<1>1. PICK x \in Nat \ T : \A y \in Nat \ T : ~(<<y, x>> \in OpToRel(<, Nat))
  <2>1. Nat \ T \subseteq Nat
    OBVIOUS
  <2> QED
    BY <2>1, NatLessThanWellFounded, WFMin
<1>2. \A y \in Nat \ T : ~(y < x)
  BY <1>1 DEF OpToRel
<1>3. x # 0 /\ x - 1 \in Nat
  OBVIOUS
<1>4. x - 1 \in T
  BY <1>2, <1>3
<1> QED
  BY <1>3, <1>4

\* Induction over the subsets of a finite set.
LEMMA FiniteInduction ==
    ASSUME NEW S, IsFiniteSet(S), NEW T, {} \in T,
           \A s \in SUBSET S : s # {} => \E x \in s : s \ {x} \in T => s \in T
    PROVE  \A s \in SUBSET S : s \in T
<1> DEFINE U == {n \in Nat : \A s \in SUBSET S : Cardinality(s) = n => s \in T}
<1>1. \A s \in SUBSET S : IsFiniteSet(s) /\ Cardinality(s) \in Nat
  BY FS_Subset, FS_CardinalityType
<1>2. 0 \in U
  BY <1>1, FS_EmptySet
<1>3. ASSUME NEW n \in U PROVE n + 1 \in U
  <2> SUFFICES ASSUME NEW s \in SUBSET S, Cardinality(s) = n + 1 PROVE s \in T
    OBVIOUS
  <2>0. n \in Nat /\ n + 1 # 0 /\ n + 1 - 1 = n
    OBVIOUS
  <2> HIDE DEF U
  <2>1. s # {}
    BY <2>0, FS_EmptySet
  <2>2. PICK x \in s : s \ {x} \in T => s \in T
    BY <2>1
  <2>3. Cardinality(s \ {x}) = n
    <3>1. IsFiniteSet(s)
      BY <1>1
    <3>2. Cardinality(s \ {x}) = Cardinality(s) - 1
      BY <3>1, FS_RemoveElement
    <3> QED
      BY <2>0, <3>2
  <2>4. s \ {x} \in T
    BY <2>3 DEF U
  <2> QED
    BY <2>2, <2>4
<1>4. U = Nat
  <2> HIDE DEF U
  <2>1. U \subseteq Nat
    BY DEF U
  <2> QED
    BY <1>2, <1>3, <2>1, SetInduction
<1> QED
  BY <1>1, <1>4

\* The recursions over the subsets of S that take one element after another.
Recursions(S, B, base, pick, step) ==
    {f \in [SUBSET S -> B] :
        \A s \in SUBSET S : f[s] = IF s = {} THEN base ELSE step[<<pick[s], f[s \ {pick[s]}]>>]}

\* Such a recursion has a value.
LEMMA SubsetRecursion ==
    ASSUME NEW S, IsFiniteSet(S), NEW B, NEW base \in B, NEW pick,
           \A s \in SUBSET S : s # {} => pick[s] \in s,
           NEW step \in [S \X B -> B]
    PROVE  Recursions(S, B, base, pick, step) # {}
<1> DEFINE Value(f, s) == IF s = {} THEN base ELSE step[<<pick[s], f[s \ {pick[s]}]>>]
           Reaches(n) == \E f \in [SUBSET S -> B] :
                            \A s \in SUBSET S : Cardinality(s) <= n => f[s] = Value(f, s)
           U == {n \in Nat : Reaches(n)}
<1>1. \A s \in SUBSET S : IsFiniteSet(s) /\ Cardinality(s) \in Nat
  BY FS_Subset, FS_CardinalityType
<1>2. ASSUME NEW s \in SUBSET S, s # {}
      PROVE  /\ Cardinality(s) >= 1 /\ s \ {pick[s]} \in SUBSET S
             /\ Cardinality(s \ {pick[s]}) = Cardinality(s) - 1
  <2>1. IsFiniteSet(s) /\ Cardinality(s) \in Nat /\ pick[s] \in s
    BY <1>1, <1>2
  <2>2. Cardinality(s) # 0
    BY <2>1, <1>2, FS_EmptySet
  <2>3. Cardinality(s \ {pick[s]}) = Cardinality(s) - 1
    BY <2>1, FS_RemoveElement
  <2> QED
    BY <2>1, <2>2, <2>3
<1>3. Reaches(0)
  <2> DEFINE f == [s \in SUBSET S |-> base]
  <2>1. f \in [SUBSET S -> B]
    OBVIOUS
  <2>2. \A s \in SUBSET S : Cardinality(s) <= 0 => f[s] = Value(f, s)
    <3> SUFFICES ASSUME NEW s \in SUBSET S, Cardinality(s) <= 0 PROVE s = {}
      OBVIOUS
    <3>1. Cardinality(s) \in Nat /\ ~(Cardinality(s) >= 1)
      BY <1>1
    <3> QED
      BY <1>2, <3>1
  <2> HIDE DEF f
  <2> QED
    BY <2>1, <2>2
<1>4. ASSUME NEW n \in Nat, Reaches(n) PROVE Reaches(n + 1)
  <2>1. PICK f \in [SUBSET S -> B] : \A s \in SUBSET S : Cardinality(s) <= n => f[s] = Value(f, s)
    BY <1>4
  <2> DEFINE g == [s \in SUBSET S |-> Value(f, s)]
  <2>2. g \in [SUBSET S -> B]
    <3> SUFFICES ASSUME NEW s \in SUBSET S PROVE Value(f, s) \in B
      OBVIOUS
    <3>1. CASE s = {}
      BY <3>1
    <3>2. CASE s # {}
      <4>1. f[s \ {pick[s]}] \in B /\ pick[s] \in S
        BY <3>2
      <4> QED
        BY <4>1, <3>2
    <3> QED
      BY <3>1, <3>2
  <2>3. \A s \in SUBSET S : g[s] = Value(f, s)
    OBVIOUS
  <2>4. \A s \in SUBSET S : Cardinality(s) <= n => g[s] = f[s]
    BY <2>1, <2>3
  <2> HIDE DEF g
  <2>5. \A s \in SUBSET S : Cardinality(s) <= n + 1 => g[s] = Value(g, s)
    <3> SUFFICES ASSUME NEW s \in SUBSET S, Cardinality(s) <= n + 1 PROVE g[s] = Value(g, s)
      OBVIOUS
    <3>1. CASE s = {}
      BY <3>1, <2>3
    <3>2. CASE s # {}
      <4>1. g[s \ {pick[s]}] = f[s \ {pick[s]}]
        BY <3>2, <1>1, <1>2, <2>4
      <4> QED
        BY <4>1, <2>3, <3>2
    <3> QED
      BY <3>1, <3>2
  <2> QED
    BY <2>2, <2>5
<1> HIDE DEF Reaches
<1>5. Reaches(Cardinality(S))
  <2>1. 0 \in U /\ \A n \in U : n + 1 \in U
    BY <1>3, <1>4
  <2>2. U \subseteq Nat
    OBVIOUS
  <2> HIDE DEF U
  <2>3. U = Nat
    BY <2>1, <2>2, SetInduction
  <2>4. Cardinality(S) \in U
    BY <1>1, <2>3
  <2> QED
    BY <2>4 DEF U
<1>6. PICK f \in [SUBSET S -> B] :
          \A s \in SUBSET S : Cardinality(s) <= Cardinality(S) => f[s] = Value(f, s)
  BY <1>5 DEF Reaches
<1>7. \A s \in SUBSET S : Cardinality(s) <= Cardinality(S)
  BY FS_Subset
<1> QED
  BY <1>6, <1>7 DEF Recursions


\* A sum takes one value after another.
IsSumOf(f, S, values) ==
    /\ f \in [SUBSET S -> Int] /\ f[{}] = 0
    /\ \A s \in SUBSET S : s # {} => \E x \in s : f[s] = values[x] + f[s \ {x}]

LEMMA SumRecursion ==
    ASSUME NEW S, IsFiniteSet(S), NEW values \in [S -> Int]
    PROVE  \E f : IsSumOf(f, S, values) /\ SumFunction(values) = f[S]
<1> DEFINE pick == [s \in SUBSET S |-> CHOOSE x \in s : TRUE]
           step == [a \in S \X Int |-> values[a[1]] + a[2]]
           body(f) == [s \in SUBSET S |-> IF s = {} THEN 0
                          ELSE values[CHOOSE x \in s : TRUE] + f[s \ {CHOOSE x \in s : TRUE}]]
           sum == CHOOSE f : f = body(f)
<1>1. \A s \in SUBSET S : s # {} => pick[s] \in s /\ pick[s] = CHOOSE x \in s : TRUE
  OBVIOUS
<1>2. step \in [S \X Int -> Int] /\ \A x \in S, n \in Int : step[<<x, n>>] = values[x] + n
  OBVIOUS
<1> HIDE DEF pick, step
<1>3. PICK f \in Recursions(S, Int, 0, pick, step) : TRUE
  <2>1. 0 \in Int /\ \A s \in SUBSET S : s # {} => pick[s] \in s
    BY <1>1
  <2>2. Recursions(S, Int, 0, pick, step) # {}
    BY <1>2, <2>1, SubsetRecursion
  <2> QED
    BY <2>2
<1>4. f \in [SUBSET S -> Int] /\ f[{}] = 0
  BY <1>3 DEF Recursions
<1>5. ASSUME NEW s \in SUBSET S, s # {}
      PROVE  f[s] = values[CHOOSE x \in s : TRUE] + f[s \ {CHOOSE x \in s : TRUE}]
  <2>1. f[s] = step[<<pick[s], f[s \ {pick[s]}]>>]
    BY <1>3, <1>5 DEF Recursions
  <2>2. pick[s] \in S /\ f[s \ {pick[s]}] \in Int
    BY <1>1, <1>4, <1>5
  <2> QED
    BY <1>1, <1>2, <1>5, <2>1, <2>2
<1>6. f = body(f)
  BY <1>4, <1>5
<1> HIDE DEF body
<1>7. sum = body(sum)
  BY <1>6
<1>8. SumFunction(values) = sum[S]
  BY DEF body, SumFunction, SumFunctionOnSet, FoldFunctionOnSet, MapThenFoldSet
<1> HIDE DEF sum
<1>9. /\ DOMAIN sum = SUBSET S /\ sum[{}] = 0
      /\ sum = [s \in SUBSET S |-> sum[s]]
  BY <1>7 DEF body
<1>10. ASSUME NEW s \in SUBSET S, s # {} PROVE \E x \in s : sum[s] = values[x] + sum[s \ {x}]
  <2>1. (CHOOSE x \in s : TRUE) \in s
    BY <1>10
  <2>2. sum[s] = values[CHOOSE x \in s : TRUE] + sum[s \ {CHOOSE x \in s : TRUE}]
    BY <1>7, <1>10 DEF body
  <2> QED
    BY <2>1, <2>2
<1>11. \A s \in SUBSET S : sum[s] \in Int
  <2> DEFINE T == {s \in SUBSET S : sum[s] \in Int}
  <2>1. {} \in T
    BY <1>9
  <2>2. ASSUME NEW s \in SUBSET S, s # {} PROVE \E x \in s : s \ {x} \in T => s \in T
    <3>1. PICK x \in s : sum[s] = values[x] + sum[s \ {x}]
      BY <1>10, <2>2
    <3>2. ASSUME s \ {x} \in T PROVE s \in T
      <4>1. values[x] \in Int /\ sum[s \ {x}] \in Int
        BY <3>2
      <4>2. sum[s] \in Int
        BY <3>1, <4>1
      <4> QED
        BY <4>2
    <3> QED
      BY <3>2
  <2> HIDE DEF T
  <2>3. \A s \in SUBSET S : s \in T
    BY <2>1, <2>2, FiniteInduction
  <2> QED
    BY <2>3 DEF T
<1>12. sum \in [SUBSET S -> Int]
  BY <1>9, <1>11
<1>13. IsSumOf(sum, S, values)
  BY <1>9, <1>10, <1>12 DEF IsSumOf
<1> QED
  BY <1>8, <1>13

\* The rows that fall under some of the keys are counted once.
LEMMA PartitionSum ==
    ASSUME NEW R, IsFiniteSet(R), NEW K, IsFiniteSet(K), NEW h,
           \A row \in R : h[row] \in K,
           NEW count, count = [k \in K |-> Cardinality({row \in R : h[row] = k})]
    PROVE  SumFunction(count) = Cardinality(R)
<1> DEFINE under(s) == {row \in R : h[row] \in s}
<1>1. \A P \in SUBSET R : IsFiniteSet(P) /\ Cardinality(P) \in Nat
  BY FS_Subset, FS_CardinalityType
<1>2. count \in [K -> Int]
  <2> SUFFICES ASSUME NEW k \in K PROVE Cardinality({row \in R : h[row] = k}) \in Int
    OBVIOUS
  <2>1. {row \in R : h[row] = k} \in SUBSET R
    OBVIOUS
  <2> QED
    BY <1>1, <2>1
<1>3. PICK f : IsSumOf(f, K, count) /\ SumFunction(count) = f[K]
  BY <1>2, SumRecursion
<1> DEFINE U == {s \in SUBSET K : f[s] = Cardinality(under(s))}
<1>4. {} \in U
  <2>1. under({}) = {}
    OBVIOUS
  <2>2. f[{}] = 0
    BY <1>3 DEF IsSumOf
  <2> QED
    BY <2>1, <2>2, FS_EmptySet
<1>5. ASSUME NEW s \in SUBSET K, s # {} PROVE \E x \in s : s \ {x} \in U => s \in U
  <2>1. PICK x \in s : f[s] = count[x] + f[s \ {x}]
    BY <1>3, <1>5 DEF IsSumOf
  <2>2. ASSUME s \ {x} \in U PROVE s \in U
    <3> DEFINE one == {row \in R : h[row] = x}
    <3>1. count[x] = Cardinality(one)
      BY <1>2
    <3>2. f[s \ {x}] = Cardinality(under(s \ {x}))
      BY <2>2
    <3>3. /\ under(s) = one \cup under(s \ {x}) /\ one \cap under(s \ {x}) = {}
          /\ one \in SUBSET R /\ under(s \ {x}) \in SUBSET R
      OBVIOUS
    <3> HIDE DEF one, under
    <3>4. IsFiniteSet(one) /\ IsFiniteSet(under(s \ {x}))
      BY <1>1, <3>3
    <3>5. Cardinality(under(s)) = Cardinality(one) + Cardinality(under(s \ {x})) - Cardinality({})
      BY <3>3, <3>4, FS_Union
    <3>6. Cardinality(one) \in Nat /\ Cardinality(under(s \ {x})) \in Nat /\ Cardinality({}) = 0
      BY <1>1, <3>3, FS_EmptySet
    <3>7. f[s] = Cardinality(under(s))
      BY <2>1, <3>1, <3>2, <3>5, <3>6
    <3> QED
      BY <3>7
  <2> QED
    BY <2>2
<1> HIDE DEF U
<1>6. K \in U
  <2>1. \A s \in SUBSET K : s \in U
    BY <1>4, <1>5, FiniteInduction
  <2> QED
    BY <2>1
<1>7. under(K) = R
  OBVIOUS
<1> QED
  BY <1>3, <1>6, <1>7 DEF U

-----------------------------------------------------------------------------
\* The rows that take w at most.
UpTo(rows, w) == {row \in rows : row.latency <= w}

\* The latencies of the rows in ascending order, said without order: the i-th is
\* one of them, at least i do not exceed it, and fewer than i are below it.
IsAscendingOf(q, rows) ==
    /\ q \in Seq(Int) /\ Len(q) = Cardinality(rows)
    /\ \A i \in 1..Len(q) :
          /\ \E row \in rows : row.latency = q[i]
          /\ Cardinality(UpTo(rows, q[i])) >= i
          /\ \A w \in Int : w < q[i] => Cardinality(UpTo(rows, w)) < i

\* There is a fastest row.
LEMMA FastestIs ==
    ASSUME NEW R, IsFiniteSet(R), \A row \in R : row.latency \in Int
    PROVE  \A s \in SUBSET R : s # {} =>
              Fastest(s) \in s /\ \A other \in s : Fastest(s).latency <= other.latency
<1> DEFINE Has(s) == \E row \in s : \A other \in s : row.latency <= other.latency
           T == {s \in SUBSET R : s # {} => Has(s)}
<1>1. {} \in T
  OBVIOUS
<1>2. ASSUME NEW s \in SUBSET R, s # {} PROVE \E x \in s : s \ {x} \in T => s \in T
  <2>1. PICK x \in s : TRUE
    BY <1>2
  <2>2. ASSUME s \ {x} \in T PROVE s \in T
    <3>1. CASE s = {x}
      <4>1. x.latency <= x.latency
        OBVIOUS
      <4>2. Has(s)
        BY <3>1, <4>1
      <4> QED
        BY <4>2
    <3>2. CASE s \ {x} # {}
      <4>1. PICK row \in s \ {x} : \A other \in s \ {x} : row.latency <= other.latency
        BY <2>2, <3>2
      <4>2. row.latency \in Int /\ x.latency \in Int
        OBVIOUS
      <4>3. CASE row.latency <= x.latency
        <5>1. \A other \in s : row.latency <= other.latency
          BY <4>1, <4>3
        <5> QED
          BY <5>1
      <4>4. CASE ~(row.latency <= x.latency)
        <5>1. \A other \in s : x.latency <= other.latency
          <6> SUFFICES ASSUME NEW other \in s PROVE x.latency <= other.latency
            OBVIOUS
          <6>1. other.latency \in Int
            OBVIOUS
          <6>2. CASE other = x
            BY <6>1, <6>2
          <6>3. CASE other \in s \ {x}
            BY <4>1, <4>2, <4>4, <6>1, <6>3
          <6> QED
            BY <6>2, <6>3
        <5> QED
          BY <5>1
      <4> QED
        BY <4>3, <4>4
    <3> QED
      BY <3>1, <3>2
  <2> QED
    BY <2>2
<1> HIDE DEF T
<1>3. \A s \in SUBSET R : s \in T
  BY <1>1, <1>2, FiniteInduction
<1> SUFFICES ASSUME NEW s \in SUBSET R, s # {}
             PROVE  Fastest(s) \in s /\ \A other \in s : Fastest(s).latency <= other.latency
  OBVIOUS
<1>4. Has(s)
  BY <1>3 DEF T
<1> QED
  BY <1>4 DEF Fastest

\* One row more, no slower than the others.
LEMMA AscendingNext ==
    ASSUME NEW s, IsFiniteSet(s), \A row \in s : row.latency \in Int,
           NEW x \in s, \A other \in s : x.latency <= other.latency,
           NEW q, IsAscendingOf(q, s \ {x})
    PROVE  IsAscendingOf(<<x.latency>> \o q, s)
<1> DEFINE v == x.latency
           p == <<v>> \o q
           rest == s \ {x}
<1>1. v \in Int /\ q \in Seq(Int)
  BY DEF IsAscendingOf
<1>2. /\ p \in Seq(Int) /\ Len(p) = Len(q) + 1 /\ p[1] = v
      /\ \A i \in 2..Len(p) : i - 1 \in 1..Len(q) /\ p[i] = q[i - 1]
  BY <1>1
<1>3. Len(p) = Cardinality(s)
  <2>1. Len(q) = Cardinality(s \ {x}) /\ Len(q) \in Nat
    BY <1>1 DEF IsAscendingOf
  <2>2. Cardinality(s \ {x}) = Cardinality(s) - 1 /\ Cardinality(s) \in Nat
    BY FS_RemoveElement, FS_CardinalityType
  <2> QED
    BY <1>2, <2>1, <2>2
<1> HIDE DEF p, v
<1>4. ASSUME NEW w \in Int
      PROVE  /\ IsFiniteSet(UpTo(s, w)) /\ Cardinality(UpTo(s, w)) \in Nat
             /\ v <= w => Cardinality(UpTo(s, w)) = Cardinality(UpTo(rest, w)) + 1
             /\ w < v => Cardinality(UpTo(s, w)) = 0
             /\ Cardinality(UpTo(rest, w)) \in Nat
  <2>1. UpTo(s, w) \in SUBSET s /\ UpTo(rest, w) \in SUBSET s
    BY DEF UpTo
  <2>2. /\ IsFiniteSet(UpTo(s, w)) /\ IsFiniteSet(UpTo(rest, w))
        /\ Cardinality(UpTo(s, w)) \in Nat /\ Cardinality(UpTo(rest, w)) \in Nat
    BY <2>1, FS_Subset, FS_CardinalityType
  <2>3. ASSUME v <= w PROVE Cardinality(UpTo(s, w)) = Cardinality(UpTo(rest, w)) + 1
    <3>1. UpTo(s, w) = UpTo(rest, w) \cup {x} /\ x \notin UpTo(rest, w)
      BY <2>3 DEF UpTo, v
    <3> QED
      BY <2>2, <3>1, FS_AddElement
  <2>4. ASSUME w < v PROVE Cardinality(UpTo(s, w)) = 0
    <3>1. \A row \in s : ~(row.latency <= w)
      BY <1>1, <2>4 DEF v
    <3>2. UpTo(s, w) = {}
      BY <3>1 DEF UpTo
    <3> QED
      BY <3>2, FS_EmptySet
  <2> QED
    BY <2>2, <2>3, <2>4
<1>5. ASSUME NEW i \in 1..Len(p)
      PROVE  /\ \E row \in s : row.latency = p[i]
             /\ Cardinality(UpTo(s, p[i])) >= i
             /\ \A w \in Int : w < p[i] => Cardinality(UpTo(s, w)) < i
  <2>1. CASE i = 1
    <3>1. p[i] = v /\ v <= v
      BY <1>1, <1>2, <2>1
    <3>2. x.latency = v
      BY DEF v
    <3>3. Cardinality(UpTo(s, v)) >= 1
      BY <1>1, <1>4, <3>1
    <3>4. \A w \in Int : w < v => Cardinality(UpTo(s, w)) < 1
      BY <1>4
    <3> QED
      BY <2>1, <3>1, <3>2, <3>3, <3>4
  <2>2. CASE i \in 2..Len(p)
    <3> DEFINE j == i - 1
    <3>0. i \in Int /\ i >= 2
      BY <1>2, <2>2
    <3>1. j \in 1..Len(q) /\ p[i] = q[j] /\ q[j] \in Int
      BY <1>1, <1>2, <2>2
    <3>2. PICK row \in rest : row.latency = q[j]
      BY <3>1 DEF IsAscendingOf
    <3>3. v <= q[j]
      BY <3>2 DEF v
    <3>4. Cardinality(UpTo(rest, q[j])) >= j
      BY <3>1 DEF IsAscendingOf
    <3>5. Cardinality(UpTo(s, q[j])) >= i
      <4>1. /\ Cardinality(UpTo(s, q[j])) = Cardinality(UpTo(rest, q[j])) + 1
            /\ Cardinality(UpTo(rest, q[j])) \in Nat
        BY <1>4, <3>1, <3>3
      <4>2. i = j + 1 /\ j \in Nat
        BY <3>0
      <4> HIDE DEF j
      <4> QED
        BY <3>4, <4>1, <4>2
    <3>6. ASSUME NEW w \in Int, w < q[j] PROVE Cardinality(UpTo(s, w)) < i
      <4>1. Cardinality(UpTo(rest, w)) < j
        BY <3>1, <3>6 DEF IsAscendingOf
      <4>2. \/ Cardinality(UpTo(s, w)) = Cardinality(UpTo(rest, w)) + 1
            \/ Cardinality(UpTo(s, w)) = 0
        <5>1. CASE v <= w
          BY <1>4, <5>1
        <5>2. CASE w < v
          BY <1>4, <5>2
        <5> QED
          BY <1>1, <5>1, <5>2
      <4>3. i = j + 1 /\ j \in Nat /\ i >= 2
        BY <3>0
      <4>4. Cardinality(UpTo(rest, w)) \in Nat
        BY <1>4
      <4> HIDE DEF j
      <4> QED
        BY <4>1, <4>2, <4>3, <4>4
    <3> QED
      BY <3>1, <3>2, <3>5, <3>6
  <2> QED
    BY <2>1, <2>2
<1> QED
  BY <1>2, <1>3, <1>5 DEF IsAscendingOf, p, v

\* What the columns of latencies are computed from.
LEMMA LatenciesAscend ==
    ASSUME NEW R, IsFiniteSet(R), \A row \in R : row.latency \in Int
    PROVE  IsAscendingOf(Latencies(R), R)
<1> DEFINE pick == [s \in SUBSET R |-> Fastest(s)]
           step == [a \in R \X Seq(Int) |-> <<a[1].latency>> \o a[2]]
           body(f) == [s \in SUBSET R |-> IF s = {} THEN <<>>
                                          ELSE <<Fastest(s).latency>> \o f[s \ {Fastest(s)}]]
           sorted == CHOOSE f : f = body(f)
<1>1. \A s \in SUBSET R : s # {} => pick[s] \in s /\ pick[s] = Fastest(s)
  BY FastestIs
<1>2. step \in [R \X Seq(Int) -> Seq(Int)]
  <2>1. ASSUME NEW x \in R, NEW q \in Seq(Int) PROVE <<x.latency>> \o q \in Seq(Int)
    OBVIOUS
  <2> QED
    BY <2>1
<1>3. \A x \in R, q \in Seq(Int) : step[<<x, q>>] = <<x.latency>> \o q
  OBVIOUS
<1> HIDE DEF pick, step
<1>4. PICK f \in Recursions(R, Seq(Int), <<>>, pick, step) : TRUE
  <2>1. <<>> \in Seq(Int) /\ \A s \in SUBSET R : s # {} => pick[s] \in s
    BY <1>1
  <2>2. Recursions(R, Seq(Int), <<>>, pick, step) # {}
    BY <1>2, <2>1, SubsetRecursion
  <2> QED
    BY <2>2
<1>5. f = body(f)
  <2>1. f \in [SUBSET R -> Seq(Int)]
    BY <1>4 DEF Recursions
  <2>2. ASSUME NEW s \in SUBSET R
        PROVE  f[s] = IF s = {} THEN <<>> ELSE <<Fastest(s).latency>> \o f[s \ {Fastest(s)}]
    <3>1. CASE s = {}
      BY <1>4, <3>1 DEF Recursions
    <3>2. CASE s # {}
      <4>1. f[s] = step[<<pick[s], f[s \ {pick[s]}]>>]
        BY <1>4, <3>2 DEF Recursions
      <4>2. pick[s] \in R /\ f[s \ {pick[s]}] \in Seq(Int)
        BY <1>1, <2>1, <3>2
      <4>3. step[<<pick[s], f[s \ {pick[s]}]>>] = <<pick[s].latency>> \o f[s \ {pick[s]}]
        BY <1>3, <4>2
      <4> QED
        BY <1>1, <3>2, <4>1, <4>3
    <3> QED
      BY <3>1, <3>2
  <2>3. f = [s \in SUBSET R |-> f[s]]
    BY <2>1
  <2> QED
    BY <2>2, <2>3
<1> HIDE DEF body
<1>6. sorted = body(sorted)
  BY <1>5
<1>7. Latencies(R) = sorted[R]
  BY DEF body, Latencies
<1> HIDE DEF sorted
<1> DEFINE T == {s \in SUBSET R : IsAscendingOf(sorted[s], s)}
<1>8. {} \in T
  <2>1. sorted[{}] = <<>>
    BY <1>6 DEF body
  <2>2. <<>> \in Seq(Int) /\ Len(<<>>) = 0 /\ 1..0 = {}
    OBVIOUS
  <2>3. IsAscendingOf(<<>>, {})
    BY <2>2, FS_EmptySet DEF IsAscendingOf
  <2> QED
    BY <2>1, <2>3
<1>9. ASSUME NEW s \in SUBSET R, s # {} PROVE \E x \in s : s \ {x} \in T => s \in T
  <2> DEFINE x == Fastest(s)
  <2>1. x \in s /\ \A other \in s : x.latency <= other.latency
    BY <1>9, FastestIs
  <2>2. sorted[s] = <<x.latency>> \o sorted[s \ {x}]
    BY <1>6, <1>9 DEF body
  <2> HIDE DEF x
  <2>3. ASSUME s \ {x} \in T PROVE s \in T
    <3>1. IsAscendingOf(sorted[s \ {x}], s \ {x})
      BY <2>3
    <3>2. IsFiniteSet(s) /\ \A row \in s : row.latency \in Int
      BY FS_Subset
    <3>3. IsAscendingOf(<<x.latency>> \o sorted[s \ {x}], s)
      BY <2>1, <3>1, <3>2, AscendingNext
    <3> QED
      BY <2>2, <3>3
  <2> QED
    BY <2>1, <2>3
<1> HIDE DEF T
<1>10. \A s \in SUBSET R : s \in T
  BY <1>8, <1>9, FiniteInduction
<1> QED
  BY <1>7, <1>10 DEF T

\* The nearest rank, for the two percentiles that are shown.
LEMMA NearestRankIs ==
    ASSUME NEW R, IsFiniteSet(R), R # {}, \A row \in R : row.latency \in Int,
           NEW p \in {50, 95}
    PROVE  IsPercentile(NearestRank(Latencies(R), p), R, p)
<1> DEFINE q == Latencies(R)
           n == Cardinality(R)
           rank == Ceil(p * n, 100)
           v == NearestRank(q, p)
<1>1. IsAscendingOf(q, R)
  BY LatenciesAscend
<1>2. n \in Nat /\ n >= 1
  BY FS_CardinalityType, FS_EmptySet
<1>3. q \in Seq(Int) /\ Len(q) = n
  BY <1>1 DEF IsAscendingOf
<1>4. rank \in 1..n /\ 100 * rank >= p * n /\ 100 * (rank - 1) < p * n
  <2> HIDE DEF n
  <2>1. CASE p = 50
    BY <1>2, <2>1 DEF Ceil
  <2>2. CASE p = 95
    BY <1>2, <2>2 DEF Ceil
  <2> QED
    BY <2>1, <2>2
<1>5. v = q[rank]
  <2>1. q # <<>>
    BY <1>2, <1>3
  <2>2. v = q[Min({Max({rank, 1}), n})]
    BY <1>3, <2>1 DEF NearestRank
  <2> HIDE DEF rank, n, q, v
  <2>3. Max({rank, 1}) = rank
    <3>1. rank \in {rank, 1} /\ \A y \in {rank, 1} : rank >= y
      BY <1>2, <1>4
    <3>2. \A x \in {rank, 1} : (\A y \in {rank, 1} : x >= y) => x = rank
      BY <1>2, <1>4
    <3> QED
      BY <3>1, <3>2 DEF Max
  <2>4. Min({rank, n}) = rank
    <3>1. rank \in {rank, n} /\ \A y \in {rank, n} : rank <= y
      BY <1>2, <1>4
    <3>2. \A x \in {rank, n} : (\A y \in {rank, n} : x <= y) => x = rank
      BY <1>2, <1>4
    <3> QED
      BY <3>1, <3>2 DEF Min
  <2> QED
    BY <2>2, <2>3, <2>4
<1> HIDE DEF rank, n, q, v
<1>6. /\ v \in Int /\ \E row \in R : row.latency = v
      /\ Cardinality(UpTo(R, v)) >= rank
      /\ \A w \in Int : w < v => Cardinality(UpTo(R, w)) < rank
  BY <1>1, <1>3, <1>4, <1>5 DEF IsAscendingOf
<1>7. \A w \in Int : Cardinality(UpTo(R, w)) \in Nat
  <2> SUFFICES ASSUME NEW w \in Int PROVE Cardinality(UpTo(R, w)) \in Nat
    OBVIOUS
  <2>1. UpTo(R, w) \in SUBSET R
    BY DEF UpTo
  <2> QED
    BY <2>1, FS_Subset, FS_CardinalityType
<1>8. 100 * Cardinality(UpTo(R, v)) >= p * n
  <2>1. Cardinality(UpTo(R, v)) \in Nat
    BY <1>6, <1>7
  <2>2. 100 * Cardinality(UpTo(R, v)) >= 100 * rank
    BY <1>4, <1>6, <2>1
  <2> QED
    BY <1>2, <1>4, <2>1, <2>2
<1>9. ASSUME NEW row \in R, 100 * Cardinality(UpTo(R, row.latency)) >= p * n
      PROVE  v <= row.latency
  <2> SUFFICES ASSUME row.latency < v PROVE FALSE
    BY <1>6
  <2>1. Cardinality(UpTo(R, row.latency)) < rank /\ Cardinality(UpTo(R, row.latency)) \in Nat
    BY <1>6, <1>7
  <2> DEFINE c == Cardinality(UpTo(R, row.latency))
  <2>2. c \in Nat /\ c <= rank - 1
    BY <1>2, <1>4, <2>1
  <2>3. 100 * c >= p * n
    BY <1>9
  <2> HIDE DEF c
  <2>4. 100 * c <= 100 * (rank - 1)
    BY <1>2, <1>4, <2>2
  <2>5. p * n \in Nat
    BY <1>2
  <2> QED
    BY <1>2, <1>4, <2>2, <2>3, <2>4, <2>5
<1> QED
  BY <1>6, <1>8, <1>9 DEF IsPercentile, UpTo, n, v, q

\* Math.round of a mean is the nearest integer.
LEMMA AverageIs ==
    ASSUME NEW R, IsFiniteSet(R), R # {}, NEW values \in [R -> Int]
    PROVE  IsRoundedMean(Average(values), values)
<1> DEFINE sum == SumFunction(values)
           n == Cardinality(R)
           v == (2 * sum + n) \div (2 * n)
<1>1. sum \in Int
  <2>1. PICK f : IsSumOf(f, R, values) /\ sum = f[R]
    BY SumRecursion
  <2> QED
    BY <2>1 DEF IsSumOf
<1>2. n \in Nat /\ n >= 1
  BY FS_CardinalityType, FS_EmptySet
<1>3. Average(values) = v /\ DOMAIN values = R
  BY DEF Average
<1> HIDE DEF sum, n
<1>4. 2 * sum - n < 2 * n * v /\ 2 * n * v <= 2 * sum + n
  <2> DEFINE a == 2 * sum + n
             b == 2 * n
  <2>1. a \in Int /\ b \in Nat /\ b >= 1
    BY <1>1, <1>2
  <2> HIDE DEF a, b
  <2>2. a \div b \in Int /\ b * (a \div b) <= a /\ a < b * (a \div b) + b
    BY <2>1
  <2>3. v = a \div b
    BY DEF a, b
  <2> HIDE DEF v
  <2>4. b * v = 2 * n * v /\ b * v \in Int
    BY <1>2, <2>1, <2>2, <2>3 DEF b
  <2> QED
    BY <1>1, <1>2, <2>1, <2>2, <2>3, <2>4 DEF a, b
<1> QED
  BY <1>3, <1>4 DEF IsRoundedMean, sum, n

\* One line of the table.
LEMMA LineIs ==
    ASSUME NEW G, IsFiniteSet(G), G # {}, \A row \in G : IsCall(row)
    PROVE  LET line == ToToolMetrics(G)
           IN  /\ line.calls = Cardinality(G)
               /\ line.errors = Cardinality({row \in G : row.decision = "failed"})
               /\ IsPercentile(line.p50, G, 50)
               /\ IsPercentile(line.p95, G, 95)
               /\ IsRoundedMean(line.requestBytes, [row \in G |-> row.requestBytes])
               /\ IsRoundedMean(line.responseBytes, [row \in G |-> row.responseBytes])
<1>1. \A row \in G : row.latency \in Int /\ row.requestBytes \in Int /\ row.responseBytes \in Int
  BY DEF IsCall
<1>2. /\ IsPercentile(NearestRank(Latencies(G), 50), G, 50)
      /\ IsPercentile(NearestRank(Latencies(G), 95), G, 95)
  BY <1>1, NearestRankIs
<1> DEFINE request == [row \in G |-> row.requestBytes]
           response == [row \in G |-> row.responseBytes]
<1>3. request \in [G -> Int] /\ response \in [G -> Int]
  BY <1>1
<1> HIDE DEF request, response
<1>4. IsRoundedMean(Average(request), request) /\ IsRoundedMean(Average(response), response)
  BY <1>3, AverageIs
<1> DEFINE line == ToToolMetrics(G)
<1>5. /\ line.calls = Cardinality(G)
      /\ line.errors = Cardinality({row \in G : row.decision = "failed"})
      /\ line.p50 = NearestRank(Latencies(G), 50) /\ line.p95 = NearestRank(Latencies(G), 95)
      /\ line.requestBytes = Average(request) /\ line.responseBytes = Average(response)
  BY DEF ToToolMetrics, request, response
<1> HIDE DEF line
<1>6. /\ line.calls = Cardinality(G)
      /\ line.errors = Cardinality({row \in G : row.decision = "failed"})
      /\ IsPercentile(line.p50, G, 50)
      /\ IsPercentile(line.p95, G, 95)
      /\ IsRoundedMean(line.requestBytes, request)
      /\ IsRoundedMean(line.responseBytes, response)
  BY <1>2, <1>4, <1>5
<1> QED
  BY <1>6 DEF line, request, response

\* What a report computes from its rows is what its headings promise.
THEOREM ReportOfRows ==
    ASSUME NEW R, IsFiniteSet(R), \A row \in R : IsCall(row)
    PROVE  IsReportOf(Tools(R), DecisionTotals(R), R)
<1> DEFINE keys == {GroupOf(row) : row \in R}
           group(key) == {row \in R : GroupOf(row) = key}
           tools == Tools(R)
           decisions == DecisionTotals(R)
           failed == {row \in R : row.decision = "failed"}
<1>1. /\ DOMAIN tools = keys /\ \A key \in keys : tools[key] = ToToolMetrics(group(key))
      /\ decisions = [d \in Decisions |-> Cardinality({row \in R : row.decision = d})]
  BY DEF Tools, DecisionTotals
<1> HIDE DEF tools, decisions
<1>2. \A row \in R : GroupOf(row) \in keys
  OBVIOUS
<1>3. IsFiniteSet(keys)
  <2> DEFINE h == [row \in R |-> GroupOf(row)]
  <2>1. h \in Surjection(R, keys)
    BY DEF Surjection
  <2> QED
    BY <2>1, FS_Surjection
<1>4. IsFiniteSet(Decisions)
  <2>1. /\ Decisions = {"allowed", "denied", "failed"} \cup {"cancelled"}
        /\ {"allowed", "denied", "failed"} = {"allowed", "denied"} \cup {"failed"}
        /\ {"allowed", "denied"} = {"allowed"} \cup {"denied"}
    BY DEF Decisions
  <2>2. IsFiniteSet({"allowed"})
    BY FS_Singleton
  <2>3. IsFiniteSet({"allowed"} \cup {"denied"})
    BY <2>2, FS_AddElement
  <2>4. IsFiniteSet({"allowed", "denied"} \cup {"failed"})
    BY <2>1, <2>3, FS_AddElement
  <2>5. IsFiniteSet({"allowed", "denied", "failed"} \cup {"cancelled"})
    BY <2>1, <2>4, FS_AddElement
  <2> QED
    BY <2>1, <2>5
<1>5. ASSUME NEW key \in keys
      PROVE  /\ group(key) # {} /\ group(key) = {row \in R : row.caller = key[1] /\ row.tool = key[2]}
             /\ IsFiniteSet(group(key)) /\ \A row \in group(key) : IsCall(row)
  <2>1. PICK one \in R : key = GroupOf(one)
    OBVIOUS
  <2>2. group(key) = {row \in R : row.caller = key[1] /\ row.tool = key[2]}
    BY <2>1 DEF GroupOf
  <2>3. one \in group(key)
    BY <2>1
  <2>4. IsFiniteSet(group(key))
    BY FS_Subset
  <2> QED
    BY <2>2, <2>3, <2>4
<1>6. \A key \in keys :
          LET G == {row \in R : row.caller = key[1] /\ row.tool = key[2]}
          IN  /\ tools[key].calls = Cardinality(G) /\ G # {}
              /\ tools[key].errors = Cardinality({row \in G : row.decision = "failed"})
              /\ IsPercentile(tools[key].p50, G, 50)
              /\ IsPercentile(tools[key].p95, G, 95)
              /\ IsRoundedMean(tools[key].requestBytes, [row \in G |-> row.requestBytes])
              /\ IsRoundedMean(tools[key].responseBytes, [row \in G |-> row.responseBytes])
  <2> SUFFICES ASSUME NEW key \in keys
               PROVE  LET G == {row \in R : row.caller = key[1] /\ row.tool = key[2]}
                      IN  /\ tools[key].calls = Cardinality(G) /\ G # {}
                          /\ tools[key].errors = Cardinality({row \in G : row.decision = "failed"})
                          /\ IsPercentile(tools[key].p50, G, 50)
                          /\ IsPercentile(tools[key].p95, G, 95)
                          /\ IsRoundedMean(tools[key].requestBytes, [row \in G |-> row.requestBytes])
                          /\ IsRoundedMean(tools[key].responseBytes, [row \in G |-> row.responseBytes])
    OBVIOUS
  <2> DEFINE G == {row \in R : row.caller = key[1] /\ row.tool = key[2]}
  <2>1. IsFiniteSet(G) /\ G # {} /\ (\A row \in G : IsCall(row)) /\ tools[key] = ToToolMetrics(G)
    BY <1>1, <1>5
  <2> HIDE DEF G
  <2>2. /\ tools[key].calls = Cardinality(G)
        /\ tools[key].errors = Cardinality({row \in G : row.decision = "failed"})
        /\ IsPercentile(tools[key].p50, G, 50)
        /\ IsPercentile(tools[key].p95, G, 95)
        /\ IsRoundedMean(tools[key].requestBytes, [row \in G |-> row.requestBytes])
        /\ IsRoundedMean(tools[key].responseBytes, [row \in G |-> row.responseBytes])
    BY <2>1, LineIs
  <2> QED
    BY <2>1, <2>2 DEF G
<1> DEFINE h == [row \in R |-> GroupOf(row)]
           calls == [key \in keys |-> Cardinality({row \in R : h[row] = key})]
           errors == [key \in keys |-> Cardinality({row \in failed : h[row] = key})]
<1>7. IsFiniteSet(failed)
  BY FS_Subset
<1>8. SumFunction(calls) = Cardinality(R)
  <2>1. \A row \in R : h[row] \in keys
    OBVIOUS
  <2> HIDE DEF h, keys
  <2> QED
    BY <1>3, <2>1, PartitionSum
<1>9. SumFunction(errors) = Cardinality(failed)
  <2>1. \A row \in failed : h[row] \in keys
    OBVIOUS
  <2> HIDE DEF h, keys, failed
  <2> QED
    BY <1>3, <1>7, <2>1, PartitionSum
<1>10. SumFunction(decisions) = Cardinality(R)
  <2> DEFINE d == [row \in R |-> row.decision]
             each == [k \in Decisions |-> Cardinality({row \in R : d[row] = k})]
  <2>1. \A row \in R : d[row] \in Decisions
    BY DEF IsCall
  <2>2. decisions = each
    <3>1. \A k \in Decisions : {row \in R : row.decision = k} = {row \in R : d[row] = k}
      OBVIOUS
    <3> QED
      BY <1>1, <3>1
  <2> HIDE DEF d
  <2>3. SumFunction(each) = Cardinality(R)
    BY <1>4, <2>1, PartitionSum
  <2> QED
    BY <2>2, <2>3
<1>11. [key \in DOMAIN tools |-> tools[key].calls] = calls
  <2>1. \A key \in keys : tools[key].calls = Cardinality({row \in R : h[row] = key})
    <3> SUFFICES ASSUME NEW key \in keys
                 PROVE  tools[key].calls = Cardinality({row \in R : h[row] = key})
      OBVIOUS
    <3>1. {row \in R : h[row] = key} = group(key)
      OBVIOUS
    <3>2. tools[key].calls = Cardinality(group(key))
      BY <1>5, <1>6
    <3> QED
      BY <3>1, <3>2
  <2> QED
    BY <1>1, <2>1
<1>12. [key \in DOMAIN tools |-> tools[key].errors] = errors
  <2>1. \A key \in keys : tools[key].errors = Cardinality({row \in failed : h[row] = key})
    <3> SUFFICES ASSUME NEW key \in keys
                 PROVE  tools[key].errors = Cardinality({row \in failed : h[row] = key})
      OBVIOUS
    <3>1. {row \in failed : h[row] = key} = {row \in group(key) : row.decision = "failed"}
      OBVIOUS
    <3>2. tools[key].errors = Cardinality({row \in group(key) : row.decision = "failed"})
      BY <1>5, <1>6
    <3> QED
      BY <3>1, <3>2
  <2> QED
    BY <1>1, <2>1
<1> HIDE DEF calls, errors, keys, failed
<1>13. Totals(tools).calls = Cardinality(R) /\ Totals(tools).errors = Cardinality(failed)
  BY <1>8, <1>9, <1>11, <1>12 DEF Totals
<1>14. decisions["failed"] = Cardinality(failed)
  BY <1>1 DEF Decisions, failed
<1> QED
  BY <1>1, <1>2, <1>6, <1>10, <1>13, <1>14 DEF IsReportOf, tools, decisions

-----------------------------------------------------------------------------
\* What a report computes with: its rows are finitely many call events.
AreCalls(rows) == IsFiniteSet(rows) /\ \A row \in rows : IsCall(row)

ReportInv ==
    /\ AreCalls(callEvents)
    /\ DOMAIN selected = Reports
    /\ DOMAIN printed = Reports
    /\ \A r \in Reports :
          /\ AreCalls(selected[r])
          /\ pc[r] = "printed" => /\ printed[r].tools = Tools(selected[r])
                                  /\ printed[r].decisions = DecisionTotals(selected[r])

LEMMA SomeAreCalls ==
    ASSUME NEW rows, AreCalls(rows), NEW some \in SUBSET rows
    PROVE  AreCalls(some)
BY FS_Subset DEF AreCalls

LEMMA InitReport == Init => ReportInv
<1> SUFFICES ASSUME Init PROVE ReportInv
  OBVIOUS
<1>1. AreCalls(callEvents)
  BY HistoryAssumption DEF Init, AreCalls
<1>2. AreCalls({})
  BY FS_EmptySet DEF AreCalls
<1> QED
  BY <1>1, <1>2 DEF Init, ReportInv, Processes

LEMMA StepKeepsReport == RetentionInv /\ ReportInv /\ [Next]_vars => ReportInv'
<1> SUFFICES ASSUME RetentionInv, ReportInv, [Next]_vars PROVE ReportInv'
  OBVIOUS
<1> USE DEF ReportInv
<1>1. ASSUME NEW p \in Processes, OpenStore(p) PROVE ReportInv'
  <2>1. callEvents' \in SUBSET callEvents
    BY <1>1 DEF OpenStore, PruneCallEvents
  <2>2. AreCalls(callEvents')
    BY <2>1, SomeAreCalls
  <2>3. \A r \in Reports : pc'[r] = "printed" => pc[r] = "printed"
    BY <1>1 DEF OpenStore, Goto, RetentionInv, TimeInv, Processes
  <2>4. UNCHANGED <<selected, printed>>
    BY <1>1 DEF OpenStore, reportVars
  <2> QED
    BY <2>2, <2>3, <2>4
<1>2. ASSUME NEW w \in Writers, RecordCall(w) PROVE ReportInv'
  <2>1. callEvents' = callEvents \cup {Row(w)} /\ UNCHANGED <<pc, selected, printed>>
    BY <1>2 DEF RecordCall, reportVars
  <2>2. stamped[w].kind \in CallKinds
    BY <1>2 DEF RecordCall, RetentionInv, TimeInv
  <2>3. IsCall(Row(w))
    <3>1. IsCall(stamped[w].kind)
      BY <2>2, HistoryAssumption
    <3> QED
      BY <3>1 DEF IsCall, Row
  <2>4. AreCalls(callEvents')
    <3>1. IsFiniteSet(callEvents')
      BY <2>1, FS_AddElement DEF AreCalls
    <3> QED
      BY <2>1, <2>3, <3>1 DEF AreCalls
  <2> QED
    BY <2>1, <2>4
<1>3. ASSUME NEW r \in Reports, SelectCalls(r) PROVE ReportInv'
  <2>1. /\ UNCHANGED <<callEvents, printed>> /\ pc' = [pc EXCEPT ![r] = "selected"]
        /\ selected' = [selected EXCEPT ![r] = Selected(query[r], callEvents)]
    BY <1>3 DEF SelectCalls, Goto, fileVars
  <2>2. AreCalls(Selected(query[r], callEvents))
    BY SomeAreCalls DEF Selected
  <2>3. /\ r \in DOMAIN pc /\ r \in DOMAIN selected
    BY DEF RetentionInv, TimeInv, Processes
  <2>4. pc'[r] = "selected" /\ selected'[r] = Selected(query[r], callEvents)
    BY <2>1, <2>3
  <2>5. \A q \in Reports \ {r} : pc'[q] = pc[q] /\ selected'[q] = selected[q]
    BY <2>1 DEF RetentionInv, TimeInv, Processes
  <2>6. DOMAIN selected' = Reports
    BY <2>1 DEF RetentionInv, TimeInv
  <2>7. ASSUME NEW q \in Reports
        PROVE  /\ AreCalls(selected'[q])
               /\ pc'[q] = "printed" => /\ printed[q].tools = Tools(selected'[q])
                                        /\ printed[q].decisions = DecisionTotals(selected'[q])
    <3>1. CASE q = r
      BY <2>2, <2>4, <3>1
    <3>2. CASE q # r
      BY <2>5, <3>2
    <3> QED
      BY <3>1, <3>2
  <2> QED
    BY <2>1, <2>6, <2>7
<1>4. ASSUME NEW r \in Reports, PrintReport(r) PROVE ReportInv'
  <2> DEFINE report == [tools |-> Tools(selected[r]),
                        decisions |-> DecisionTotals(selected[r]),
                        replayed |-> CountReplays(query[r])]
  <2>1. /\ UNCHANGED <<callEvents, selected>> /\ pc' = [pc EXCEPT ![r] = "printed"]
        /\ printed' = [printed EXCEPT ![r] = report]
    BY <1>4 DEF PrintReport, Goto, fileVars
  <2>2. report.tools = Tools(selected[r]) /\ report.decisions = DecisionTotals(selected[r])
    OBVIOUS
  <2> HIDE DEF report
  <2>3. printed'[r] = report /\ \A q \in Reports \ {r} : pc'[q] = pc[q] /\ printed'[q] = printed[q]
    BY <2>1 DEF RetentionInv, TimeInv, Processes
  <2>4. DOMAIN printed' = Reports
    BY <2>1
  <2>5. ASSUME NEW q \in Reports
        PROVE  /\ AreCalls(selected[q])
               /\ pc'[q] = "printed" => /\ printed'[q].tools = Tools(selected[q])
                                        /\ printed'[q].decisions = DecisionTotals(selected[q])
    <3>1. CASE q = r
      BY <2>2, <2>3, <3>1
    <3>2. CASE q # r
      BY <2>3, <3>2
    <3> QED
      BY <3>1, <3>2
  <2> QED
    BY <2>1, <2>4, <2>5
<1>5. ASSUME NEW r \in Reports, NEW request \in Requests, Parse(r, request) PROVE ReportInv'
  <2>1. UNCHANGED <<callEvents, selected, printed>> /\ pc' = [pc EXCEPT ![r] = "parsed"]
    BY <1>5 DEF Parse, Goto, fileVars
  <2>2. \A q \in Reports : pc'[q] = "printed" => pc[q] = "printed"
    BY <2>1 DEF RetentionInv, TimeInv, Processes
  <2> QED
    BY <2>1, <2>2
<1>6. CASE UNCHANGED <<pc, callEvents, selected, printed>>
  BY <1>6
<1>7. ASSUME NEW w \in Writers, RecordFails(w) \/ Audit(w) \/ \E kind \in CallKinds : Stamp(w, kind)
      PROVE  UNCHANGED <<pc, callEvents, selected, printed>>
  BY <1>7 DEF RecordFails, Audit, Stamp, fileVars, reportVars
<1>8. CASE Tick \/ UNCHANGED vars
  BY <1>6, <1>8 DEF Tick, vars, fileVars, reportVars
<1> QED
  BY <1>1, <1>2, <1>3, <1>4, <1>5, <1>6, <1>7, <1>8 DEF Next

\* A printed report says of the rows it selected what its headings promise: each
\* is counted in one line and under one decision, the totals add up, the
\* percentiles are nearest ranks and the averages are rounded means.
THEOREM ReportExact == Spec => []ReportIsExact
<1>1. ReportInv => ReportIsExact
  BY ReportOfRows DEF ReportInv, ReportIsExact, AreCalls
<1> QED
  BY <1>1, InitReport, StepKeepsReport, RetentionExact, PTL DEF Spec
=============================================================================
