------------------------------ MODULE Metrics ------------------------------
(***************************************************************************)
(* What SqliteStore.metrics and the report compute from the call events    *)
(* that a query selected.  A call event is a record with an id, the time   *)
(* `at`, its caller, tool and decision, its latency and its two sizes.     *)
(***************************************************************************)
EXTENDS Integers, Sequences, FiniteSets, FiniteSetsExt, Functions

Decisions == {"allowed", "denied", "failed", "cancelled"}
AnyValue == "any"     \* the filter is not given

CONSTANT Second     \* ticks of the clock

ASSUME SecondAssumption == Second \in Nat \ {0}

-----------------------------------------------------------------------------
\* Times as texts, as far as their order goes: the second that is written, and
\* the place of what follows it among the milliseconds 0 .. Second - 1.

\* "00:00.123Z", as every time of the tables is written.
ToISOString(at) == <<at \div Second, at % Second>>

\* "00:00Z": "Z" sorts after the "." of a stamp.
WithoutMilliseconds(at) == <<at \div Second, Second>>

\* "02:00+02:00", in a zone that much ahead: a sign sorts before "."; so does the
\* end of a date without a time, which is one with nothing ahead.
WithOffset(at, ahead) == <<(at + ahead) \div Second, -1>>

\* a <= b of two columns of texts.
NotAfter(a, b) == a[1] < b[1] \/ (a[1] = b[1] /\ a[2] <= b[2])

\* Mutant of InWindow: the end is exclusive.
InWindow_HalfOpen(query, at) ==
    /\ NotAfter(query.since.text, ToISOString(at))
    /\ ~ NotAfter(query.until.text, ToISOString(at))

\* A stamp is compared with the texts of the bounds.
InWindow(query, at) ==
    /\ NotAfter(query.since.text, ToISOString(at))
    /\ NotAfter(ToISOString(at), query.until.text)

CallWhere(query, row) ==
    /\ InWindow(query, row.at)
    /\ query.tool \in {AnyValue, row.tool}
    /\ query.caller \in {AnyValue, row.caller}

Selected(query, rows) == {row \in rows : CallWhere(query, row)}

Ceil(a, b) == (a + b - 1) \div b

\* Mutant of NearestRank: the rank is rounded down.
NearestRank_Floor(ascending, percentile) ==
    IF ascending = <<>> THEN 0
    ELSE LET rank == (percentile * Len(ascending)) \div 100
         IN  ascending[Min({Max({rank, 1}), Len(ascending)})]

NearestRank(ascending, percentile) ==
    IF ascending = <<>> THEN 0
    ELSE LET rank == Ceil(percentile * Len(ascending), 100)
         IN  ascending[Min({Max({rank, 1}), Len(ascending)})]

\* Math.round of the mean.
Average(values) ==
    LET n == Cardinality(DOMAIN values)
    IN  (2 * SumFunction(values) + n) \div (2 * n)

Fastest(rows) == CHOOSE row \in rows : \A other \in rows : row.latency <= other.latency

\* The latencies of the rows, ascending.
Latencies(rows) ==
    LET sorted[s \in SUBSET rows] ==
            IF s = {} THEN <<>> ELSE <<Fastest(s).latency>> \o sorted[s \ {Fastest(s)}]
    IN  sorted[rows]

ToToolMetrics(group) ==
    LET latencies == Latencies(group)
    IN  [calls |-> Cardinality(group),
         errors |-> Cardinality({row \in group : row.decision = "failed"}),
         p50 |-> NearestRank(latencies, 50),
         p95 |-> NearestRank(latencies, 95),
         requestBytes |-> Average([row \in group |-> row.requestBytes]),
         responseBytes |-> Average([row \in group |-> row.responseBytes])]

GroupOf(row) == <<row.caller, row.tool>>

\* One line per caller and tool; their order on the screen is left out.
Tools(rows) ==
    LET keys == {GroupOf(row) : row \in rows}
    IN  [key \in keys |-> ToToolMetrics({row \in rows : GroupOf(row) = key})]

DecisionTotals(rows) ==
    [d \in Decisions |-> Cardinality({row \in rows : row.decision = d})]

\* totalsOf: summed over the rows of the table.
Totals(tools) ==
    [calls |-> SumFunction([key \in DOMAIN tools |-> tools[key].calls]),
     errors |-> SumFunction([key \in DOMAIN tools |-> tools[key].errors])]

-----------------------------------------------------------------------------
\* The reference: what the columns mean.

\* The least value that at least percentile % of the latencies do not exceed.
IsPercentile(v, group, percentile) ==
    LET upTo(w) == Cardinality({row \in group : row.latency <= w})
        Enough(w) == 100 * upTo(w) >= percentile * Cardinality(group)
    IN  /\ \E row \in group : row.latency = v
        /\ Enough(v)
        /\ \A row \in group : Enough(row.latency) => v <= row.latency

\* The nearest integer to the mean, halves up.
IsRoundedMean(v, values) ==
    LET sum == SumFunction(values)
        n == Cardinality(DOMAIN values)
    IN  2 * sum - n < 2 * n * v /\ 2 * n * v <= 2 * sum + n

\* A table and totals that say of these rows what their headings promise: every
\* row is counted in one line and under one decision.
IsReportOf(tools, decisions, rows) ==
    /\ \A row \in rows : GroupOf(row) \in DOMAIN tools
    /\ \A key \in DOMAIN tools :
          LET group == {row \in rows : row.caller = key[1] /\ row.tool = key[2]}
          IN  /\ tools[key].calls = Cardinality(group) /\ group # {}
              /\ tools[key].errors = Cardinality({row \in group : row.decision = "failed"})
              /\ IsPercentile(tools[key].p50, group, 50)
              /\ IsPercentile(tools[key].p95, group, 95)
              /\ IsRoundedMean(tools[key].requestBytes, [row \in group |-> row.requestBytes])
              /\ IsRoundedMean(tools[key].responseBytes, [row \in group |-> row.responseBytes])
    /\ Totals(tools).calls = Cardinality(rows)
    /\ Totals(tools).errors = decisions["failed"]
    /\ SumFunction(decisions) = Cardinality(rows)
=============================================================================
