------------------------------- MODULE Figures -------------------------------
(***************************************************************************)
(* The event metrics of the console: the rows events, agent_tasks and      *)
(* task_logs leave (internal/telemetry), the summary and the chart the hub *)
(* computes from them, the backend it chooses, and the cache that answers  *)
(* a panel again for half a minute (api/handlers_observability.go).        *)
(*                                                                         *)
(* The hub's clock is finer than the database's: instants are the hub's,   *)
(* and the database keeps multiples of Grain.  What Prometheus answers is  *)
(* outside the system: its figures are Scraped.                            *)
(***************************************************************************)
EXTENDS Integers, FiniteSetsExt, Functions

CONSTANTS EventIds, Viewers,
          Grain,          \* a microsecond of the database, in the hub's units
          Stride, Window,   \* rangeOption.Step and rangeOption.Duration
          MaxPoints,      \* maxSeriesPoints
          TTL,            \* observabilityCacheTTL
          LogRetention,   \* tasklogs.DefaultRetention
          MaxInstant, MaxRows

ASSUME FiguresAssumption ==
    /\ {Grain, Stride, Window, MaxPoints, TTL, LogRetention, MaxInstant, MaxRows}
          \subseteq Nat
    /\ Grain > 0 /\ Stride > Grain /\ Stride % Grain = 0 /\ Window % Stride = 0
    /\ Window \div Stride =< MaxPoints /\ Window < LogRetention

VARIABLES instant,
          wiring,     \* what cmd/hub found at startup
          writing,    \* rows stamped by a statement that has not committed
          ledger,     \* the committed rows
          shelf,      \* observabilityCache
          viewers     \* what each viewer's last request is at

figuresVars == <<instant, wiring, writing, ledger, shelf, viewers>>

Metrics == {"events_consumed", "triggers_matched", "events_routed", "routing_errors"}
\* A panel is the summary of the window, the summary without a range, or a
\* metric's chart.
Panels == {"window", "ever"} \union Metrics
Scraped == -1
NoBackend == "none"
NoValue == [source |-> NoBackend, end |-> 0, since |-> 0, stored |-> 0, known |-> {},
            figures |-> [m \in Metrics |-> Scraped], points |-> <<>>]

FiguresInit ==
    /\ instant = 0
    /\ wiring \in [pin : {"postgres", "prometheus"}, prom : BOOLEAN, ready : BOOLEAN]
    /\ writing = {} /\ ledger = {}
    /\ shelf = [p \in Panels |-> [expires |-> -1, value |-> NoValue]]
    /\ viewers = [v \in Viewers |-> [step |-> "idle", panel |-> "ever", at |-> 0,
                                     value |-> NoValue]]

-----------------------------------------------------------------------------
(* internal/telemetry *)

Truncated(t) == t - (t % Grain)

KindOf == [m \in Metrics |-> CASE m = "events_consumed" -> "event"
                                [] m = "routing_errors" -> "error"
                                [] OTHER -> "task"]
\* metricSpec.countExpr
Counted(metric, rows) ==
    IF metric = "events_routed" THEN Cardinality({row.event : row \in rows})
    ELSE Cardinality(rows)

WithinClosed(metric, rows, from, until) ==
    {row \in rows : /\ row.kind = KindOf[metric]
                    /\ row.at >= Truncated(from) /\ row.at =< Truncated(until)}
\* metricSpec.windowPredicate: [since, until), in the database's precision.
Within(metric, rows, from, until) ==
    {row \in rows : /\ row.kind = KindOf[metric]
                    /\ row.at >= Truncated(from) /\ row.at < Truncated(until)}

Totals(rows, from, until) ==
    [m \in Metrics |-> Counted(m, Within(m, rows, from, until))]

\* The buckets start at the window's start and only those with rows come back.
Series(metric, rows, from, until) ==
    LET Nth(row) == (row.at - Truncated(from)) \div Stride
        found == Within(metric, rows, from, until)
    IN  {[start |-> Truncated(from) + Stride * n,
          count |-> Counted(metric, {row \in found : Nth(row) = n})] :
         n \in {Nth(row) : row \in found}}

-----------------------------------------------------------------------------
(* api.denseBuckets *)

NearestBelow(d) == IF d < 0 THEN 0 ELSE d \div Stride
Nearest(d) == (2 * d + Stride) \div (2 * Stride)
NoChart == <<>>

DenseBuckets(buckets, start, end) ==
    LET count == Min({(end - start) \div Stride, MaxPoints})
        Index(b) == Nearest(b.start - start)
        kept == {b \in buckets : Index(b) \in 0..(count - 1)}
        Drift(b) == b.start - start - Stride * Index(b)
    IN  IF \E b \in kept : Drift(b) \notin (-Grain)..Grain THEN NoChart
        ELSE [i \in 0..(count - 1) |->
                 SumFunctionOnSet([b \in kept |-> b.count], {b \in kept : Index(b) = i})]

-----------------------------------------------------------------------------
(* Rows *)

\* A row is stamped when its statement starts and seen when it commits.
StampRow(kind, e) ==
    LET row == [kind |-> kind, event |-> e, at |-> Truncated(instant)]
    IN  /\ Cardinality(ledger \union writing) < MaxRows
        /\ row \notin ledger \union writing
        /\ writing' = writing \union {row}
        /\ UNCHANGED <<instant, wiring, ledger, shelf, viewers>>

CommitRow(row) ==
    /\ row \in writing
    /\ writing' = writing \ {row}
    /\ ledger' = ledger \union {row}
    /\ UNCHANGED <<instant, wiring, shelf, viewers>>

\* tasklogs.Prune; events and agent_tasks are not pruned.
PruneLogs ==
    /\ ledger' = {row \in ledger : row.kind = "error" => row.at >= instant - LogRetention}
    /\ ledger' # ledger
    /\ UNCHANGED <<instant, wiring, writing, shelf, viewers>>

TimePasses ==
    /\ instant < MaxInstant
    /\ instant' = instant + 1
    /\ UNCHANGED <<wiring, writing, ledger, shelf, viewers>>

-----------------------------------------------------------------------------
(* Requests *)

\* Server.metricsBackend: a pin is not answered from the other backend.
Backend ==
    IF wiring.pin = "prometheus"
    THEN IF wiring.prom THEN "prometheus" ELSE NoBackend
    ELSE IF wiring.ready THEN "postgres"
    ELSE IF wiring.prom THEN "prometheus" ELSE NoBackend

FreshAlways(p) == shelf[p].expires >= 0
\* promCache.get
Fresh(p) == shelf[p].expires >= 0 /\ instant =< shelf[p].expires

Told(v, p, value) ==
    viewers' = [viewers EXCEPT ![v] = [step |-> "told", panel |-> p, at |-> instant,
                                       value |-> value]]

Ask(v, p) ==
    /\ viewers[v].step \in {"idle", "told"}
    /\ Backend # NoBackend
    /\ IF Fresh(p) THEN Told(v, p, shelf[p].value)
       ELSE viewers' = [viewers EXCEPT ![v] =
               [step |-> "asked", panel |-> p, at |-> instant,
                value |-> [NoValue EXCEPT
                             !.source = Backend, !.end = instant, !.known = ledger,
                             !.since = IF p = "ever" THEN 0 ELSE instant - Window]]]
    /\ UNCHANGED <<instant, wiring, writing, ledger, shelf>>

\* summaryFromPrometheus: a windowed summary counts the errors from task_logs.
FromPrometheus(p, value) ==
    [m \in Metrics |->
        IF p = "window" /\ m = "routing_errors"
        THEN Cardinality({row \in ledger : row.kind = "error"
                                           /\ row.at >= Truncated(value.since)})
        ELSE Scraped]

Read(v) ==
    LET p == viewers[v].panel
        value == viewers[v].value
        start == value.end - Window
    IN  /\ viewers[v].step = "asked"
        /\ viewers' = [viewers EXCEPT ![v].step = "read",
             ![v].value =
                IF value.source = "prometheus"
                THEN [value EXCEPT !.figures = FromPrometheus(p, value)]
                ELSE IF p \in Metrics
                THEN [value EXCEPT !.points =
                        DenseBuckets(Series(p, ledger, start, value.end), start, value.end)]
                ELSE [value EXCEPT !.figures = Totals(ledger, value.since, value.end)]]
        /\ UNCHANGED <<instant, wiring, writing, ledger, shelf>>

\* 502: nothing is cached.
ReadFails(v) ==
    /\ viewers[v].step = "asked"
    /\ viewers' = [viewers EXCEPT ![v].step = "idle", ![v].value = NoValue]
    /\ UNCHANGED <<instant, wiring, writing, ledger, shelf>>

Store(v) ==
    LET p == viewers[v].panel
        value == [viewers[v].value EXCEPT !.stored = instant]
    IN  /\ viewers[v].step = "read"
        /\ shelf' = [shelf EXCEPT ![p] = [expires |-> instant + TTL, value |-> value]]
        /\ Told(v, p, value)
        /\ UNCHANGED <<instant, wiring, writing, ledger>>

-----------------------------------------------------------------------------
Write == \/ \E k \in {"event", "task", "error"}, e \in EventIds : StampRow(k, e)
         \/ \E row \in writing : CommitRow(row)
         \/ PruneLogs
View(v) == (\E p \in Panels : Ask(v, p)) \/ Read(v) \/ ReadFails(v) \/ Store(v)

FiguresNext == Write \/ TimePasses \/ \E v \in Viewers : View(v)

FiguresSpec == FiguresInit /\ [][FiguresNext]_figuresVars

-----------------------------------------------------------------------------
FiguresTypeOK ==
    /\ instant \in 0..MaxInstant
    /\ \A row \in writing \union ledger : row.at \in 0..instant
    /\ \A v \in Viewers : viewers[v].step \in {"idle", "asked", "read", "told"}
    /\ \A p \in Panels : shelf[p].expires =< instant + TTL

(* telemetry.Series and denseBuckets: whatever the offset between the two   *)
(* clocks, no chart is refused, each bar counts exactly the rows stamped in *)
(* its slice of the window, and the bars of a metric that counts rows add   *)
(* up to its figure of the summary; those of events_routed, which counts    *)
(* events, add up to no less.                                               *)
ChartAgrees ==
    \A m \in Metrics :
        LET start == instant - Window
            points == DenseBuckets(Series(m, ledger, start, instant), start, instant)
            Slice(i) == {row \in ledger :
                            /\ row.kind = KindOf[m]
                            /\ row.at >= Truncated(start) + Stride * i
                            /\ row.at < Truncated(start) + Stride * (i + 1)}
            total == Totals(ledger, start, instant)[m]
            sum == SumFunction(points)
        IN  /\ DOMAIN points = 0..(Window \div Stride - 1)
            /\ \A i \in DOMAIN points : points[i] = Counted(m, Slice(i))
            /\ IF m = "events_routed" THEN sum >= total ELSE sum = total

(* getMetricsSummary and promCache: a summary is never told later than the  *)
(* TTL after it was stored, names the backend that computed it, and its     *)
(* figures count every row of its window that was there when the request    *)
(* began (and, of the errors, is still within its retention) and none that  *)
(* the records do not hold, though rows are stamped, committed and pruned   *)
(* and other requests fill the cache meanwhile.                             *)
FiguresHold ==
    \A v \in Viewers :
        LET value == viewers[v].value
            Rows(m, rows) == Within(m, rows, value.since, value.end)
        IN  viewers[v].step = "told" =>
              /\ viewers[v].at =< value.stored + TTL
              /\ value.source = Backend
              /\ \A m \in Metrics : value.figures[m] # Scraped =>
                    /\ m # "routing_errors" =>
                          value.figures[m] =< Counted(m, Rows(m, ledger))
                    /\ value.figures[m] >= Counted(m, {row \in Rows(m, value.known) :
                          m = "routing_errors" => row.at >= value.stored - LogRetention})
=============================================================================
