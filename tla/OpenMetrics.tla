----------------------------- MODULE OpenMetrics -----------------------------
(***************************************************************************)
(* fwoop::OpenMetricsPublisher and its metrics: the application registers  *)
(* series and metrics and changes their values while the threads of the    *)
(* server's pool, and any thread that calls print(), go through them and   *)
(* encode them into buffers.  Nothing here takes a lock.                   *)
(*                                                                         *)
(* Text is modelled by its length in bytes.  What the language leaves      *)
(* undefined (a read through the iterator of a vector that has moved, a    *)
(* write past the end of a buffer or of the buckets) sets "undefined", and *)
(* nothing is said of the program afterwards.                              *)
(***************************************************************************)
EXTENDS Integers, Sequences, SequencesExt

CONSTANTS
    Threads,        \* the threads of the application that count
    Readers,        \* the handlers of /metrics, and the threads that print()
    Series,         \* name, unit and summary are lengths:
    Profile,        \* [Series -> [kind, name, unit, summary]]
    Metrics,        \* labels: the length of the name and value of each
    Owner,          \* [Metrics -> [series, labels]]
    Values,         \* what gauges are set to and histograms record
    BufferSize,     \* 1024 in the source
    Low, High, NumBuckets,  \* the parameters of every histogram
    MaxCalls        \* bound on the calls the application makes

Largest == 999
NotLoaded == "none"

ASSUME MetricsAssumption ==
    /\ Profile \in [Series -> [kind : {"counter", "gauge", "gaugehistogram"},
                               name : Nat \ {0}, unit : Nat, summary : Nat]]
    /\ Owner \in [Metrics -> [series : Series, labels : Seq(Nat)]]
    /\ NotLoaded \notin Metrics
    /\ Values \subseteq 0..Largest /\ MaxCalls \in 0..Largest
    /\ BufferSize \in Nat \ {0} /\ NumBuckets \in Nat \ {0}
    /\ Low \in Nat /\ High \in Nat /\ Low < High /\ High <= Largest

VARIABLES
    d_series,       \* the publisher's series, in the order of their registration
    d_metrics,      \* and the metrics of each
    value,          \* d_count of a counter, d_value of a gauge
    d_buckets,      \* the buckets of a histogram, none once it is reset
    loaded,         \* d_count as a thread inside increment() has read it
    reader,         \* the loops over d_series under way
    undefined,      \* something undefined has happened
    calls,          \* history: the calls the application has made,
    returned,       \*   how many increments of a counter have returned,
    overlapped,     \*   counters that two threads incremented at once,
    careless        \*   and what the application did that the code cannot take

state == <<d_series, d_metrics, value, d_buckets>>
history == <<calls, returned, overlapped, careless>>
vars == <<state, loaded, reader, undefined, history>>

Kind(m) == Profile[Owner[m].series].kind
Counters == {m \in Metrics : Kind(m) = "counter"}
Gauges == {m \in Metrics : Kind(m) = "gauge"}
Histograms == {m \in Metrics : Kind(m) = "gaugehistogram"}
IsRegistered(m) == m \in ToSet(d_metrics[Owner[m].series])
Reading == {r \in Readers : reader[r].pc # "idle"}

Fresh == [b \in 1..NumBuckets |-> 0]
Idle == [pc |-> "idle"]

-----------------------------------------------------------------------------
(***************************************************************************)
(* The lengths of what is encoded.                                         *)
(***************************************************************************)
\* Values and bounds have three digits at most (Largest).
Digits(v) == IF v < 10 THEN 1 ELSE IF v < 100 THEN 2 ELSE 3
TypeLength(kind) == CASE kind = "counter" -> 7 [] kind = "gauge" -> 5 [] OTHER -> 14

\* # HELP name summary, # TYPE name type, # UNIT name unit.
MetadataLength(s) ==
    LET p == Profile[s]
        help == 7 + p.name + (IF p.summary > 0 THEN 1 + p.summary ELSE 0) + 1
        type == 7 + p.name + 1 + TypeLength(p.kind) + 1
        unit == 7 + p.name + 1 + p.unit + 1
    IN  help + type + unit

Total(lengths) ==
    LET n[i \in 0..Len(lengths)] == IF i = 0 THEN 0 ELSE n[i - 1] + lengths[i]
    IN  n[Len(lengths)]

\* name{label="value",...}
NameWithLabels(m) ==
    LET labels == Owner[m].labels
    IN  Profile[Owner[m].series].name + 2 + Len(labels) * 3 + Total(labels)
            + (IF labels = <<>> THEN 0 ELSE Len(labels) - 1)

LineLength(m, v) == NameWithLabels(m) + 1 + Digits(v) + 1

\* A bucket's line is name_bucket{le="bound",label="value",...} count.  What is
\* compared with the room left counts neither the quotes, nor the labels, nor
\* the closing brace and space.
BoundLength(b) ==
    IF b = NumBuckets THEN 4 ELSE Digits(Low + ((b - 1) * (High - Low)) \div NumBuckets) + 7
CheckedLength(m, b, v) ==
    Profile[Owner[m].series].name + 7 + 4 + BoundLength(b) + Digits(v) + 1
BucketLength(m, b, v) ==
    LET labels == Owner[m].labels
    IN  CheckedLength(m, b, v) + 2 + Total(labels) + 4 * Len(labels) + 2

-----------------------------------------------------------------------------
(***************************************************************************)
(* Faulty variants, one per property.                                      *)
(***************************************************************************)
\* The buffer is doubled only for a metric longer than all of it.
Resized_IgnoresUsed(buffer, length) ==
    IF length > buffer.size THEN 2 * buffer.size ELSE buffer.size

\* increment() counts a copy.
Stored_Nothing(t) == loaded[t].count

\* The count goes down.
Stored_Less(t) == loaded[t].count - 1

\* A new metric is put before those of its series.
Pushed_InFront(metrics, m) == <<m>> \o metrics

-----------------------------------------------------------------------------
(***************************************************************************)
(* The buffers, as [size, used].  One is overrun when it is used past its  *)
(* size; the bytes that are copied in are written before anyone looks.     *)
(***************************************************************************)
Overrun(buffer) == buffer.used > buffer.size

\* GaugeHistogramMetric::encode() doubles its buffer until a bucket seems to fit.
WithBucket(buffer, m, b, v) ==
    LET fits(size) == CheckedLength(m, b, v) < size - buffer.used
        doubled[size \in Nat] == IF fits(size) THEN size ELSE doubled[2 * size]
    IN  [size |-> doubled[buffer.size], used |-> buffer.used + BucketLength(m, b, v)]

Buckets(m, shown) ==
    LET written[b \in 0..NumBuckets] ==
            IF b = 0 THEN [size |-> BufferSize, used |-> 0]
            ELSE IF Overrun(written[b - 1]) THEN written[b - 1]
            ELSE WithBucket(written[b - 1], m, b, shown[b])
    IN  written[NumBuckets]

\* MetricSeries::encode() doubles its buffer once when a metric does not fit.
Resized(buffer, length) ==
    IF buffer.used + length > buffer.size THEN 2 * buffer.size ELSE buffer.size
WithMetric(buffer, length) ==
    [size |-> Resized(buffer, length), used |-> buffer.used + length]

\* The text of a metric; gauges are encoded as counters are.
Length(m, shown) ==
    IF m \in Histograms THEN Buckets(m, shown).used ELSE LineLength(m, shown)

\* Metadata, and a metric whose text, whatever its values, fit a buffer nobody
\* has doubled.
MetadataFits(s) == MetadataLength(s) <= BufferSize
Fits(m) ==
    /\ LineLength(m, Largest) <= BufferSize
    /\ m \in Histograms =>
          Total([b \in 1..NumBuckets |-> BucketLength(m, b, Largest)]) <= BufferSize

-----------------------------------------------------------------------------
(***************************************************************************)
(* The application.  Registering is left to one thread at a time, as is    *)
(* recording in one histogram; a vector may move whenever it grows.        *)
(***************************************************************************)
Init ==
    /\ d_series = <<>>
    /\ d_metrics = [s \in Series |-> <<>>]
    /\ value = [m \in Counters \cup Gauges |-> 0]
    /\ d_buckets = [m \in Histograms |-> Fresh]
    /\ loaded = [t \in Threads |-> [metric |-> NotLoaded, count |-> 0]]
    /\ reader = [r \in Readers |-> Idle]
    /\ undefined = FALSE
    /\ calls = 0
    /\ returned = [m \in Counters |-> 0]
    /\ overlapped = {} /\ careless = {}

Call(mistakes) ==
    /\ calls < MaxCalls
    /\ calls' = calls + 1
    /\ careless' = careless \cup mistakes

RegisteredDuringRead == IF Reading = {} THEN {} ELSE {"registered"}

\* newCounterSeries(), newGaugeSeries(), newGaugeHistogramSeries().
NewSeries(s, moves) ==
    /\ s \notin ToSet(d_series)
    /\ d_series' = Append(d_series, s)
    /\ reader' = [r \in Readers |->
                     IF r \in Reading /\ moves THEN [reader[r] EXCEPT !.moved = TRUE] ELSE reader[r]]
    /\ Call(RegisteredDuringRead \cup (IF MetadataFits(s) THEN {} ELSE {"long"}))
    /\ UNCHANGED <<d_metrics, value, d_buckets, loaded, undefined, returned, overlapped>>

Pushed(metrics, m) == Append(metrics, m)

\* newCounter(), newGauge(), newGaugeHistogram().
NewMetric(m, moves) ==
    LET s == Owner[m].series
    IN  /\ s \in ToSet(d_series) /\ ~IsRegistered(m)
        /\ d_metrics' = [d_metrics EXCEPT ![s] = Pushed(@, m)]
        /\ reader' = [r \in Readers |->
                         IF reader[r].pc = "metrics" /\ reader[r].series = s /\ moves
                         THEN [reader[r] EXCEPT !.metricsMoved = TRUE] ELSE reader[r]]
        /\ Call(RegisteredDuringRead \cup (IF Fits(m) THEN {} ELSE {"long"}))
        /\ UNCHANGED <<d_series, value, d_buckets, loaded, undefined, returned, overlapped>>

\* increment(): d_count++ reads the count, and stores it in a second step.
Load(t, m) ==
    /\ IsRegistered(m) /\ loaded[t].metric = NotLoaded
    /\ loaded' = [loaded EXCEPT ![t] = [metric |-> m, count |-> value[m]]]
    /\ overlapped' = IF \E u \in Threads : loaded[u].metric = m
                     THEN overlapped \cup {m} ELSE overlapped
    /\ Call({})
    /\ UNCHANGED <<state, reader, undefined, returned>>

Stored(t) == loaded[t].count + 1

Store(t) ==
    LET m == loaded[t].metric
    IN  /\ m # NotLoaded
        /\ value' = [value EXCEPT ![m] = Stored(t)]
        /\ loaded' = [loaded EXCEPT ![t].metric = NotLoaded]
        /\ returned' = [returned EXCEPT ![m] = @ + 1]
        /\ UNCHANGED <<d_series, d_metrics, d_buckets, reader, undefined, calls, overlapped, careless>>

Set(m, v) ==
    /\ IsRegistered(m)
    /\ value' = [value EXCEPT ![m] = v]
    /\ Call({})
    /\ UNCHANGED <<d_series, d_metrics, d_buckets, loaded, reader, undefined, returned, overlapped>>

\* The bin a determinant is recorded in, counted from 1: one past the last for
\* a determinant of d_high.
Bin(determinant) == 1 + ((determinant - Low) * NumBuckets) \div (High - Low)

Record(m, determinant, v) ==
    LET bin == Bin(determinant)
    IN  /\ IsRegistered(m)
        /\ Call(IF determinant = High THEN {"high"} ELSE {})
        /\ IF determinant < Low \/ determinant > High THEN UNCHANGED <<d_buckets, undefined>>
           ELSE IF bin \in DOMAIN d_buckets[m]
           THEN d_buckets' = [d_buckets EXCEPT ![m][bin] = v] /\ UNCHANGED undefined
           ELSE undefined' = TRUE /\ UNCHANGED d_buckets
        /\ UNCHANGED <<d_series, d_metrics, value, loaded, reader, returned, overlapped>>

Reset(m) ==
    /\ IsRegistered(m)
    /\ d_buckets' = [d_buckets EXCEPT ![m] = <<>>]
    /\ Call({"reset"})
    /\ UNCHANGED <<d_series, d_metrics, value, loaded, reader, undefined, returned, overlapped>>

-----------------------------------------------------------------------------
(***************************************************************************)
(* handleMetricsEvent(), and print().  A loop over a vector reads its      *)
(* bounds when it begins and copies each element when it comes to it.      *)
(***************************************************************************)
Request(r) ==
    /\ reader[r].pc = "idle"
    /\ reader' = [reader EXCEPT ![r] =
            [pc |-> "series", next |-> 1, end |-> Len(d_series), moved |-> FALSE, page |-> <<>>,
             began |-> [series |-> d_series, metrics |-> d_metrics, returned |-> returned]]]
    /\ UNCHANGED <<state, loaded, undefined, history>>

Undefine == undefined' = TRUE /\ UNCHANGED <<state, loaded, reader, history>>

\* encode() of the next series: its metadata, and the bounds of its metrics.
BeginSeries(r) ==
    LET loop == reader[r]
    IN  /\ loop.pc = "series" /\ loop.next <= loop.end
        /\ IF loop.moved THEN Undefine
           ELSE LET s == d_series[loop.next]
                    buffer == [size |-> BufferSize, used |-> MetadataLength(s)]
                IN  IF Overrun(buffer) THEN Undefine
                    ELSE /\ reader' = [reader EXCEPT ![r] =
                                [pc |-> "metrics", next |-> loop.next, end |-> loop.end,
                                 moved |-> loop.moved, began |-> loop.began,
                                 page |-> Append(loop.page, [series |-> s, lines |-> <<>>]),
                                 series |-> s, nextMetric |-> 1, endMetric |-> Len(d_metrics[s]),
                                 metricsMoved |-> FALSE, buffer |-> buffer]]
                         /\ UNCHANGED <<state, loaded, undefined, history>>

\* What encode() of a metric reads.
Shown(m) == IF m \in Histograms THEN d_buckets[m] ELSE value[m]

EncodeMetric(r) ==
    LET loop == reader[r]
    IN  /\ loop.pc = "metrics" /\ loop.nextMetric <= loop.endMetric
        /\ IF loop.metricsMoved THEN Undefine
           ELSE LET m == d_metrics[loop.series][loop.nextMetric]
                    shown == Shown(m)
                    buffer == WithMetric(loop.buffer, Length(m, shown))
                IN  IF \/ m \in Histograms /\ (shown = <<>> \/ Overrun(Buckets(m, shown)))
                       \/ Overrun(buffer)
                    THEN Undefine
                    ELSE /\ reader' = [reader EXCEPT
                                ![r].nextMetric = @ + 1, ![r].buffer = buffer,
                                ![r].page[Len(loop.page)].lines =
                                    Append(@, [metric |-> m, shown |-> shown])]
                         /\ UNCHANGED <<state, loaded, undefined, history>>

EndSeries(r) ==
    LET loop == reader[r]
    IN  /\ loop.pc = "metrics" /\ loop.nextMetric > loop.endMetric
        /\ reader' = [reader EXCEPT ![r] =
                [pc |-> "series", next |-> loop.next + 1, end |-> loop.end, moved |-> loop.moved,
                 page |-> loop.page, began |-> loop.began]]
        /\ UNCHANGED <<state, loaded, undefined, history>>

\* The body is set, or printed.
Respond(r) ==
    /\ reader[r].pc = "series" /\ reader[r].next > reader[r].end
    /\ reader' = [reader EXCEPT ![r] = Idle]
    /\ UNCHANGED <<state, loaded, undefined, history>>

Next ==
    /\ ~undefined
    /\ \/ \E s \in Series, moves \in BOOLEAN : NewSeries(s, moves)
       \/ \E m \in Metrics, moves \in BOOLEAN : NewMetric(m, moves)
       \/ \E t \in Threads : Store(t) \/ \E m \in Counters : Load(t, m)
       \/ \E m \in Gauges, v \in Values : Set(m, v)
       \/ \E m \in Histograms, determinant \in (Low - 1)..(High + 1), v \in Values : Record(m, determinant, v)
       \/ \E m \in Histograms : Reset(m)
       \/ \E r \in Readers :
             Request(r) \/ BeginSeries(r) \/ EncodeMetric(r) \/ EndSeries(r) \/ Respond(r)

Spec == Init /\ [][Next]_vars

-----------------------------------------------------------------------------
(***************************************************************************)
(* Properties.                                                             *)
(***************************************************************************)
TypeOK ==
    /\ IsInjective(d_series) /\ ToSet(d_series) \subseteq Series
    /\ \A s \in Series : IsInjective(d_metrics[s]) /\ \A m \in ToSet(d_metrics[s]) : Owner[m].series = s
    /\ value \in [Counters \cup Gauges -> Nat]
    /\ \A m \in Histograms : d_buckets[m] \in {<<>>} \cup [1..NumBuckets -> Values \cup {0}]
    /\ \A t \in Threads : loaded[t].metric \in Counters \cup {NotLoaded} /\ loaded[t].count \in Nat
    /\ \A r \in Readers : reader[r].pc \in {"idle", "series", "metrics"}
    /\ undefined \in BOOLEAN /\ calls \in 0..MaxCalls
    /\ overlapped \subseteq Counters /\ careless \subseteq {"registered", "reset", "high", "long"}

\* A program that registers nothing while a page is made, only metadata and
\* metrics whose text alone fits the first buffer, never resets a histogram and records below
\* its d_high never does anything undefined: the buckets' encode() and the one
\* doubling of the series' encode() suffice whatever else is in the series, and
\* a determinant has a bucket.
CarefulUseIsDefined == undefined => careless # {}

\* A page begins with the series that were registered when it was asked for, and
\* each of them with the metrics it had then, whatever is registered meanwhile.
PageIsComplete ==
    \A r \in Reading :
        reader[r].pc = "series" /\ reader[r].next > reader[r].end =>
            LET page == reader[r].page
                began == reader[r].began
                Encoded(i) == [j \in DOMAIN page[i].lines |-> page[i].lines[j].metric]
            IN  /\ IsPrefix(began.series, [i \in DOMAIN page |-> page[i].series])
                /\ \A i \in DOMAIN page : IsPrefix(began.metrics[page[i].series], Encoded(i))

\* A counter that threads do not increment at the same time shows at least the
\* increments that had returned when the page was asked for, so that it does not
\* go down from one page to the next, and no more than have returned by now.
CountersAreCurrent ==
    \A r \in Reading : \A i \in DOMAIN reader[r].page :
        \A line \in ToSet(reader[r].page[i].lines) :
            line.metric \in Counters \ overlapped =>
                /\ reader[r].began.returned[line.metric] <= line.shown
                /\ line.shown <= returned[line.metric]
=============================================================================
