------------------------- MODULE OpenMetricsProofs --------------------------
(***************************************************************************)
(* What a page of metrics contains and how current its counts are, proved  *)
(* for any number of threads, readers, series and metrics.                 *)
(*                                                                         *)
(* Three facts carry it.  The vectors only grow at their end (Grows), so   *)
(* that a place a loop has passed, or a bound it has read, stays good      *)
(* (PlaceOK, PageOK).  A count is that of the increments that returned     *)
(* as long as no two threads overlapped (CountOK).  And a line that is on  *)
(* a page is never touched again.                                          *)
(*                                                                         *)
(* A careful program (CarefulOK) never fills a buffer.  What it registers  *)
(* fits alone, so a doubling that starts from a size the system gives      *)
(* reaches the need in finitely many turns (the recursion is defined,      *)
(* DoublingExists), and the buffer, doubled or not, then holds it:         *)
(* bucket by bucket (HistogramFits) and metric by metric (MetricFits).     *)
(***************************************************************************)
EXTENDS OpenMetrics, SequenceTheorems, WellFoundedInduction, TLAPS

Texts == Nat \cup {<<>>} \cup [1..NumBuckets -> Values \cup {0}]
Line == [metric : Metrics, shown : Texts]
Entry == [series : Series, lines : Seq(Line)]
Begun == [series : Seq(Series), metrics : [Series -> Seq(Metrics)], returned : [Counters -> Nat]]

Types ==
    /\ d_series \in Seq(Series) /\ IsInjective(d_series)
    /\ d_metrics \in [Series -> Seq(Metrics)]
    /\ \A s \in Series : IsInjective(d_metrics[s]) /\ \A j \in 1..Len(d_metrics[s]) : Owner[d_metrics[s][j]].series = s
    /\ value \in [Counters \cup Gauges -> Nat]
    /\ d_buckets \in [Histograms -> {<<>>} \cup [1..NumBuckets -> Values \cup {0}]]
    /\ loaded \in [Threads -> [metric : Counters \cup {NotLoaded}, count : Nat]]
    /\ undefined \in BOOLEAN /\ calls \in 0..MaxCalls
    /\ returned \in [Counters -> Nat]
    /\ overlapped \subseteq Counters /\ careless \subseteq {"registered", "reset", "high", "long"}

\* A counter that is not overlapped is loaded by one thread at most, which has its
\* count, and its count is the number of increments that returned.
CountOK ==
    \A m \in Counters \ overlapped :
        /\ value[m] = returned[m]
        /\ \A t \in Threads : loaded[t].metric = m => loaded[t].count = value[m]
        /\ \A t, u \in Threads : loaded[t].metric = m /\ loaded[u].metric = m => t = u

-----------------------------------------------------------------------------
\* The two kinds of loop under way.
IsSeriesLoop(l) ==
    l = [pc |-> "series", next |-> l.next, end |-> l.end, moved |-> l.moved, page |-> l.page, began |-> l.began]

IsMetricsLoop(l) ==
    l = [pc |-> "metrics", next |-> l.next, end |-> l.end, moved |-> l.moved, began |-> l.began,
         page |-> l.page, series |-> l.series, nextMetric |-> l.nextMetric, endMetric |-> l.endMetric,
         metricsMoved |-> l.metricsMoved, buffer |-> l.buffer]

\* What was registered and had returned when the page was asked for still is, and has.
BegunOK(l) ==
    /\ l.began \in Begun
    /\ Len(l.began.series) <= Len(d_series)
    /\ \A i \in 1..Len(l.began.series) : d_series[i] = l.began.series[i]
    /\ \A s \in Series :
          /\ Len(l.began.metrics[s]) <= Len(d_metrics[s])
          /\ \A j \in 1..Len(l.began.metrics[s]) : d_metrics[s][j] = l.began.metrics[s][j]
    /\ \A m \in Counters : l.began.returned[m] <= returned[m]

\* The bounds of a loop were read when everything that began was there.
PlaceOK(l) ==
    /\ l.next \in Nat \ {0} /\ l.end \in Nat
    /\ Len(l.began.series) <= l.end /\ l.end <= Len(d_series)
    /\ l.pc = "series" => l.next = Len(l.page) + 1
    /\ l.pc = "metrics" =>
          /\ l.next = Len(l.page)
          /\ l.series \in Series /\ l.series = l.page[l.next].series
          /\ l.nextMetric \in Nat \ {0} /\ l.endMetric \in Nat
          /\ Len(l.began.metrics[l.series]) <= l.endMetric /\ l.endMetric <= Len(d_metrics[l.series])
          /\ l.nextMetric = Len(l.page[l.next].lines) + 1

\* What is on the page are the elements of the vectors, in their order, with all
\* metrics that began of each series but the one under way.
PageOK(l) ==
    /\ l.page \in Seq(Entry)
    /\ Len(l.page) <= Len(d_series)
    /\ \A i \in 1..Len(l.page) :
          /\ l.page[i].series = d_series[i]
          /\ Len(l.page[i].lines) <= Len(d_metrics[l.page[i].series])
          /\ \A j \in 1..Len(l.page[i].lines) :
                l.page[i].lines[j].metric = d_metrics[l.page[i].series][j]
          /\ l.pc = "series" \/ i < Len(l.page) =>
                Len(l.began.metrics[l.page[i].series]) <= Len(l.page[i].lines)

LineOK(l, line) ==
    line.metric \in Counters \ overlapped =>
        /\ line.shown \in Nat
        /\ l.began.returned[line.metric] <= line.shown
        /\ line.shown <= returned[line.metric]

CurrentOK(l) ==
    \A i \in 1..Len(l.page) : \A j \in 1..Len(l.page[i].lines) : LineOK(l, l.page[i].lines[j])

LoopOK(l) ==
    \/ l = Idle
    \/ /\ IsSeriesLoop(l) \/ IsMetricsLoop(l)
       /\ BegunOK(l) /\ PlaceOK(l) /\ PageOK(l) /\ CurrentOK(l)

ReadersOK == reader = [r \in Readers |-> reader[r]] /\ \A r \in Readers : LoopOK(reader[r])

IInv == Types /\ CountOK /\ ReadersOK

-----------------------------------------------------------------------------
\* The application and its readers only add.
Grows ==
    /\ Len(d_series) <= Len(d_series') /\ \A i \in 1..Len(d_series) : d_series'[i] = d_series[i]
    /\ \A s \in Series :
          /\ Len(d_metrics[s]) <= Len(d_metrics'[s])
          /\ \A j \in 1..Len(d_metrics[s]) : d_metrics'[s][j] = d_metrics[s][j]
    /\ \A m \in Counters : returned[m] <= returned'[m]
    /\ overlapped \subseteq overlapped'

LEMMA AppendNew ==
    ASSUME NEW S, NEW seq \in Seq(S), NEW x \in S, IsInjective(seq), x \notin ToSet(seq)
    PROVE  /\ Append(seq, x) \in Seq(S) /\ IsInjective(Append(seq, x))
           /\ Len(Append(seq, x)) = Len(seq) + 1 /\ Append(seq, x)[Len(seq) + 1] = x
           /\ \A i \in 1..Len(seq) : Append(seq, x)[i] = seq[i]
<1>1. /\ Append(seq, x) \in Seq(S)
      /\ Len(Append(seq, x)) = Len(seq) + 1 /\ Append(seq, x)[Len(seq) + 1] = x
      /\ \A i \in 1..Len(seq) : Append(seq, x)[i] = seq[i]
  BY AppendProperties
<1>2. \A i \in 1..Len(seq) : seq[i] # x
  BY DEF ToSet
<1>3. \A i, j \in 1..Len(seq) : seq[i] = seq[j] => i = j
  BY DEF IsInjective
<1>4. ASSUME NEW i \in 1..(Len(seq) + 1), NEW j \in 1..(Len(seq) + 1),
             Append(seq, x)[i] = Append(seq, x)[j]
      PROVE  i = j
  <2>1. Len(seq) \in Nat
    OBVIOUS
  <2>2. CASE i \in 1..Len(seq) /\ j \in 1..Len(seq)
    BY <1>1, <1>3, <1>4, <2>2
  <2>3. CASE i = Len(seq) + 1 /\ j \in 1..Len(seq)
    BY <1>1, <1>2, <1>4, <2>3
  <2>4. CASE j = Len(seq) + 1 /\ i \in 1..Len(seq)
    BY <1>1, <1>2, <1>4, <2>4
  <2>5. CASE i = Len(seq) + 1 /\ j = Len(seq) + 1
    BY <2>5
  <2> QED
    BY <2>1, <2>2, <2>3, <2>4, <2>5
<1>5. DOMAIN Append(seq, x) = 1..(Len(seq) + 1)
  BY <1>1
<1> QED
  BY <1>1, <1>4, <1>5 DEF IsInjective

LEMMA KindsDiffer ==
    /\ Counters \subseteq Metrics /\ Gauges \subseteq Metrics /\ Histograms \subseteq Metrics
    /\ Counters \cap Gauges = {} /\ Metrics = Counters \cup Gauges \cup Histograms
    /\ Counters \cap Histograms = {} /\ Gauges \cap Histograms = {}
BY MetricsAssumption DEF Counters, Gauges, Histograms, Kind

\* What a step that leaves the application alone keeps.
LEMMA SameState ==
    ASSUME Types, CountOK, UNCHANGED <<state, loaded, history>>, undefined' \in BOOLEAN
    PROVE  Types' /\ CountOK' /\ Grows
<1>1. UNCHANGED <<d_series, d_metrics, value, d_buckets, loaded, calls, returned, overlapped, careless>>
  BY DEF state, history
<1>2. Types'
  BY <1>1 DEF Types
<1>3. CountOK'
  BY <1>1 DEF CountOK
<1>4. Grows
  BY <1>1 DEF Grows, Types
<1> QED
  BY <1>2, <1>3, <1>4

LEMMA CallTypes ==
    ASSUME Types, NEW mistakes \in SUBSET {"registered", "reset", "high", "long"}, Call(mistakes)
    PROVE  calls' \in 0..MaxCalls /\ careless' \subseteq {"registered", "reset", "high", "long"}
BY MetricsAssumption DEF Types, Call, Largest

-----------------------------------------------------------------------------
\* Each call of the application keeps its types and counts, and only adds.
LEMMA NewSeriesAdds ==
    ASSUME Types, CountOK, NEW s \in Series, NEW moves \in BOOLEAN, NewSeries(s, moves)
    PROVE  Types' /\ CountOK' /\ Grows
<1>1. /\ s \notin ToSet(d_series) /\ d_series' = Append(d_series, s)
      /\ UNCHANGED <<d_metrics, value, d_buckets, loaded, undefined, returned, overlapped>>
  BY DEF NewSeries
<1>2. calls' \in 0..MaxCalls /\ careless' \subseteq {"registered", "reset", "high", "long"}
  BY CallTypes DEF NewSeries, RegisteredDuringRead
<1>3. /\ d_series' \in Seq(Series) /\ IsInjective(d_series')
      /\ Len(d_series') = Len(d_series) + 1
      /\ \A i \in 1..Len(d_series) : d_series'[i] = d_series[i]
  BY <1>1, AppendNew DEF Types
<1>4. Types'
  BY <1>1, <1>2, <1>3 DEF Types
<1>5. CountOK'
  BY <1>1 DEF CountOK
<1>6. Grows
  BY <1>1, <1>3 DEF Grows, Types
<1> QED
  BY <1>4, <1>5, <1>6

LEMMA NewMetricAdds ==
    ASSUME Types, CountOK, NEW m \in Metrics, NEW moves \in BOOLEAN, NewMetric(m, moves)
    PROVE  Types' /\ CountOK' /\ Grows
<1> DEFINE s == Owner[m].series
<1>1. s \in Series
  BY MetricsAssumption
<1>2. /\ m \notin ToSet(d_metrics[s]) /\ d_metrics' = [d_metrics EXCEPT ![s] = Append(@, m)]
      /\ UNCHANGED <<d_series, value, d_buckets, loaded, undefined, returned, overlapped>>
  BY DEF NewMetric, Pushed, IsRegistered
<1>3. calls' \in 0..MaxCalls /\ careless' \subseteq {"registered", "reset", "high", "long"}
  BY CallTypes DEF NewMetric, RegisteredDuringRead
<1>4. d_metrics[s] \in Seq(Metrics) /\ IsInjective(d_metrics[s])
  BY <1>1 DEF Types
<1>5. /\ Append(d_metrics[s], m) \in Seq(Metrics) /\ IsInjective(Append(d_metrics[s], m))
      /\ Len(Append(d_metrics[s], m)) = Len(d_metrics[s]) + 1
      /\ Append(d_metrics[s], m)[Len(d_metrics[s]) + 1] = m
      /\ \A i \in 1..Len(d_metrics[s]) : Append(d_metrics[s], m)[i] = d_metrics[s][i]
  BY <1>2, <1>4, AppendNew
<1>6. d_metrics'[s] = Append(d_metrics[s], m) /\ \A z \in Series \ {s} : d_metrics'[z] = d_metrics[z]
  BY <1>1, <1>2 DEF Types
<1> HIDE DEF s
<1>7. \A j \in 1..Len(d_metrics'[s]) : Owner[d_metrics'[s][j]].series = s
  <2> SUFFICES ASSUME NEW j \in 1..Len(d_metrics'[s]) PROVE Owner[d_metrics'[s][j]].series = s
    OBVIOUS
  <2>1. Len(d_metrics[s]) \in Nat
    BY <1>4
  <2>2. CASE j \in 1..Len(d_metrics[s])
    BY <1>1, <1>5, <1>6, <2>2 DEF Types
  <2>3. CASE j = Len(d_metrics[s]) + 1
    BY <1>5, <1>6, <2>3 DEF s
  <2> QED
    BY <1>5, <1>6, <2>1, <2>2, <2>3
<1>8. Types'
  <2>1. d_metrics' \in [Series -> Seq(Metrics)]
    BY <1>1, <1>2, <1>5 DEF Types
  <2>2. ASSUME NEW z \in Series
        PROVE  IsInjective(d_metrics'[z]) /\ \A j \in 1..Len(d_metrics'[z]) : Owner[d_metrics'[z][j]].series = z
    <3>1. CASE z = s
      BY <1>5, <1>6, <1>7, <3>1
    <3>2. CASE z # s
      BY <1>6, <3>2 DEF Types
    <3> QED
      BY <3>1, <3>2
  <2> QED
    BY <1>2, <1>3, <2>1, <2>2 DEF Types
<1>9. CountOK'
  BY <1>2 DEF CountOK
<1>10. Grows
  <2>1. ASSUME NEW z \in Series
        PROVE  /\ Len(d_metrics[z]) <= Len(d_metrics'[z])
               /\ \A j \in 1..Len(d_metrics[z]) : d_metrics'[z][j] = d_metrics[z][j]
    <3>1. d_metrics[z] \in Seq(Metrics)
      BY DEF Types
    <3>2. CASE z = s
      BY <1>4, <1>5, <1>6, <3>1, <3>2
    <3>3. CASE z # s
      BY <1>6, <3>1, <3>3
    <3> QED
      BY <3>2, <3>3
  <2> QED
    BY <1>2, <2>1 DEF Grows, Types
<1> QED
  BY <1>8, <1>9, <1>10

LEMMA LoadAdds ==
    ASSUME Types, CountOK, NEW t \in Threads, NEW m \in Counters, Load(t, m)
    PROVE  Types' /\ CountOK' /\ Grows
<1>1. /\ loaded' = [loaded EXCEPT ![t] = [metric |-> m, count |-> value[m]]]
      /\ overlapped' = IF \E u \in Threads : loaded[u].metric = m THEN overlapped \cup {m} ELSE overlapped
      /\ UNCHANGED <<d_series, d_metrics, value, d_buckets, undefined, returned>>
  BY DEF Load, state
<1>2. calls' \in 0..MaxCalls /\ careless' \subseteq {"registered", "reset", "high", "long"}
  BY CallTypes DEF Load
<1>3. value[m] \in Nat /\ m \in Metrics
  BY KindsDiffer DEF Types
<1>4. Types'
  BY <1>1, <1>2, <1>3 DEF Types
<1>5. CountOK'
  <2> SUFFICES ASSUME NEW c \in Counters, c \notin overlapped'
               PROVE  /\ value'[c] = returned'[c]
                      /\ \A u \in Threads : loaded'[u].metric = c => loaded'[u].count = value'[c]
                      /\ \A u, v \in Threads : loaded'[u].metric = c /\ loaded'[v].metric = c => u = v
    BY DEF CountOK
  <2>1. c \notin overlapped /\ (c = m => \A u \in Threads : loaded[u].metric # m)
    BY <1>1
  <2>2. /\ value[c] = returned[c]
        /\ \A u \in Threads : loaded[u].metric = c => loaded[u].count = value[c]
        /\ \A u, v \in Threads : loaded[u].metric = c /\ loaded[v].metric = c => u = v
    BY <2>1 DEF CountOK
  <2>3. /\ loaded'[t] = [metric |-> m, count |-> value[m]]
        /\ \A u \in Threads \ {t} : loaded'[u] = loaded[u]
    BY <1>1 DEF Types
  <2> QED
    BY <1>1, <2>1, <2>2, <2>3
<1>6. Grows
  BY <1>1 DEF Grows, Types
<1> QED
  BY <1>4, <1>5, <1>6

LEMMA StoreAdds ==
    ASSUME Types, CountOK, NEW t \in Threads, Store(t)
    PROVE  Types' /\ CountOK' /\ Grows
<1> DEFINE m == loaded[t].metric
<1>1. m \in Counters /\ loaded[t].count \in Nat
  BY DEF Store, Types
<1>2. /\ value' = [value EXCEPT ![m] = loaded[t].count + 1]
      /\ loaded' = [loaded EXCEPT ![t].metric = NotLoaded]
      /\ returned' = [returned EXCEPT ![m] = @ + 1]
      /\ UNCHANGED <<d_series, d_metrics, d_buckets, undefined, calls, overlapped, careless>>
  BY DEF Store, Stored
<1>3. /\ loaded'[t].metric = NotLoaded
      /\ \A u \in Threads \ {t} : loaded'[u] = loaded[u]
  BY <1>2 DEF Types
<1>4. /\ value'[m] = loaded[t].count + 1 /\ returned'[m] = returned[m] + 1
      /\ \A c \in Counters \ {m} : value'[c] = value[c] /\ returned'[c] = returned[c]
  BY <1>1, <1>2 DEF Types
<1>5. /\ value' \in [Counters \cup Gauges -> Nat] /\ returned' \in [Counters -> Nat]
      /\ loaded' \in [Threads -> [metric : Counters \cup {NotLoaded}, count : Nat]]
  BY <1>1, <1>2 DEF Types
<1>6. Types'
  BY <1>2, <1>5 DEF Types
<1>7. CountOK'
  <2> SUFFICES ASSUME NEW c \in Counters, c \notin overlapped'
               PROVE  /\ value'[c] = returned'[c]
                      /\ \A u \in Threads : loaded'[u].metric = c => loaded'[u].count = value'[c]
                      /\ \A u, v \in Threads : loaded'[u].metric = c /\ loaded'[v].metric = c => u = v
    BY DEF CountOK
  <2>1. /\ value[c] = returned[c]
        /\ \A u \in Threads : loaded[u].metric = c => loaded[u].count = value[c]
        /\ \A u, v \in Threads : loaded[u].metric = c /\ loaded[v].metric = c => u = v
    BY <1>2 DEF CountOK
  <2>2. NotLoaded # c
    BY MetricsAssumption, KindsDiffer
  <2>3. CASE c = m
    BY <1>1, <1>3, <1>4, <2>1, <2>2, <2>3
  <2>4. CASE c # m
    BY <1>3, <1>4, <2>1, <2>2, <2>4
  <2> QED
    BY <2>3, <2>4
<1>8. Grows
  <2>1. ASSUME NEW c \in Counters PROVE returned[c] <= returned'[c]
    <3>1. returned[c] \in Nat
      BY DEF Types
    <3> QED
      BY <1>4, <3>1
  <2> QED
    BY <1>2, <2>1 DEF Grows, Types
<1> QED
  BY <1>6, <1>7, <1>8

LEMMA SetAdds ==
    ASSUME Types, CountOK, NEW m \in Gauges, NEW v \in Values, Set(m, v)
    PROVE  Types' /\ CountOK' /\ Grows
<1>1. /\ value' = [value EXCEPT ![m] = v]
      /\ UNCHANGED <<d_series, d_metrics, d_buckets, loaded, undefined, returned, overlapped>>
  BY DEF Set
<1>2. calls' \in 0..MaxCalls /\ careless' \subseteq {"registered", "reset", "high", "long"}
  BY CallTypes DEF Set
<1>3. v \in Nat
  BY MetricsAssumption DEF Largest
<1>4. Types'
  BY <1>1, <1>2, <1>3 DEF Types
<1>5. \A c \in Counters : value'[c] = value[c]
  BY <1>1, KindsDiffer DEF Types
<1>6. CountOK'
  BY <1>1, <1>5 DEF CountOK
<1>7. Grows
  BY <1>1 DEF Grows, Types
<1> QED
  BY <1>4, <1>6, <1>7

LEMMA BucketsAdd ==
    ASSUME Types, CountOK, NEW m \in Histograms,
           (\E determinant \in (Low - 1)..(High + 1), v \in Values : Record(m, determinant, v)) \/ Reset(m)
    PROVE  Types' /\ CountOK' /\ Grows
<1>1. UNCHANGED <<d_series, d_metrics, value, loaded, returned, overlapped>>
  BY DEF Record, Reset
<1>2. calls' \in 0..MaxCalls /\ careless' \subseteq {"registered", "reset", "high", "long"}
  BY CallTypes DEF Record, Reset
<1>3. /\ d_buckets' \in [Histograms -> {<<>>} \cup [1..NumBuckets -> Values \cup {0}]]
      /\ undefined' \in BOOLEAN
  <2>1. CASE Reset(m)
    BY <2>1 DEF Reset, Types
  <2>2. ASSUME NEW determinant \in (Low - 1)..(High + 1), NEW v \in Values, Record(m, determinant, v)
        PROVE  /\ d_buckets' \in [Histograms -> {<<>>} \cup [1..NumBuckets -> Values \cup {0}]]
               /\ undefined' \in BOOLEAN
    <3>1. CASE UNCHANGED d_buckets
      <4>1. undefined' = undefined \/ undefined' = TRUE
        BY <2>2 DEF Record
      <4> QED
        BY <3>1, <4>1 DEF Types
    <3>2. CASE /\ Bin(determinant) \in DOMAIN d_buckets[m]
               /\ d_buckets' = [d_buckets EXCEPT ![m][Bin(determinant)] = v] /\ UNCHANGED undefined
      <4> DEFINE bin == Bin(determinant)
      <4>1. d_buckets[m] \in [1..NumBuckets -> Values \cup {0}]
        BY <3>2 DEF Types
      <4>2. [d_buckets[m] EXCEPT ![bin] = v] \in [1..NumBuckets -> Values \cup {0}]
        BY <4>1
      <4>3. d_buckets' = [d_buckets EXCEPT ![m] = [d_buckets[m] EXCEPT ![bin] = v]]
        BY <3>2
      <4> HIDE DEF bin
      <4> QED
        BY <3>2, <4>2, <4>3 DEF Types
    <3> QED
      BY <2>2, <3>1, <3>2 DEF Record
  <2> QED
    BY <2>1, <2>2
<1>4. Types'
  BY <1>1, <1>2, <1>3 DEF Types
<1>5. CountOK'
  BY <1>1 DEF CountOK
<1>6. Grows
  BY <1>1 DEF Grows, Types
<1> QED
  BY <1>4, <1>5, <1>6

-----------------------------------------------------------------------------
\* A loop that is not at a step itself, though a vector may have moved under it.
LEMMA LoopKept ==
    ASSUME Types, Types', Grows, NEW r \in Readers, LoopOK(reader[r]),
           \/ reader'[r] = reader[r]
           \/ reader[r].pc # "idle" /\ reader'[r] = [reader[r] EXCEPT !.moved = TRUE]
           \/ reader[r].pc = "metrics" /\ reader'[r] = [reader[r] EXCEPT !.metricsMoved = TRUE]
    PROVE  LoopOK(reader[r])'
<1>1. CASE reader[r] = Idle
  <2>1. reader'[r] = Idle
    BY <1>1 DEF Idle
  <2> QED
    BY <2>1 DEF LoopOK, Idle
<1>2. CASE /\ IsSeriesLoop(reader[r]) \/ IsMetricsLoop(reader[r])
           /\ BegunOK(reader[r]) /\ PlaceOK(reader[r]) /\ PageOK(reader[r]) /\ CurrentOK(reader[r])
  <2>1. /\ reader'[r].pc = reader[r].pc /\ reader'[r].page = reader[r].page
        /\ reader'[r].began = reader[r].began
        /\ reader'[r].next = reader[r].next /\ reader'[r].end = reader[r].end
        /\ reader[r].pc = "metrics" =>
              /\ reader'[r].series = reader[r].series
              /\ reader'[r].nextMetric = reader[r].nextMetric /\ reader'[r].endMetric = reader[r].endMetric
        /\ IsSeriesLoop(reader'[r]) \/ IsMetricsLoop(reader'[r])
    <3>1. CASE IsSeriesLoop(reader[r])
      BY <3>1 DEF IsSeriesLoop
    <3>2. CASE IsMetricsLoop(reader[r])
      BY <3>2 DEF IsMetricsLoop
    <3> QED
      BY <1>2, <3>1, <3>2
  <2>2. /\ reader[r].began.series \in Seq(Series) /\ reader[r].began.metrics \in [Series -> Seq(Metrics)]
        /\ reader[r].began.returned \in [Counters -> Nat]
    BY <1>2 DEF BegunOK, Begun
  <2>3. BegunOK(reader[r])'
    <3>1. /\ reader[r].began \in Begun
          /\ Len(reader[r].began.series) <= Len(d_series')
          /\ \A i \in 1..Len(reader[r].began.series) : d_series'[i] = reader[r].began.series[i]
      BY <1>2, <2>2 DEF BegunOK, Grows, Types
    <3>2. ASSUME NEW s \in Series
          PROVE  /\ Len(reader[r].began.metrics[s]) <= Len(d_metrics'[s])
                 /\ \A j \in 1..Len(reader[r].began.metrics[s]) : d_metrics'[s][j] = reader[r].began.metrics[s][j]
      <4>1. /\ d_metrics[s] \in Seq(Metrics) /\ d_metrics'[s] \in Seq(Metrics)
            /\ reader[r].began.metrics[s] \in Seq(Metrics)
        BY <2>2 DEF Types
      <4>2. /\ Len(reader[r].began.metrics[s]) <= Len(d_metrics[s])
            /\ \A j \in 1..Len(reader[r].began.metrics[s]) : d_metrics[s][j] = reader[r].began.metrics[s][j]
            /\ Len(d_metrics[s]) <= Len(d_metrics'[s])
            /\ \A j \in 1..Len(d_metrics[s]) : d_metrics'[s][j] = d_metrics[s][j]
        BY <1>2 DEF BegunOK, Grows
      <4> QED
        BY <4>1, <4>2
    <3>3. ASSUME NEW m \in Counters
          PROVE  reader[r].began.returned[m] <= returned'[m]
      <4>1. reader[r].began.returned[m] \in Nat /\ returned[m] \in Nat /\ returned'[m] \in Nat
        BY <2>2 DEF Types
      <4>2. reader[r].began.returned[m] <= returned[m] /\ returned[m] <= returned'[m]
        BY <1>2 DEF BegunOK, Grows
      <4> QED
        BY <4>1, <4>2
    <3> QED
      BY <2>1, <3>1, <3>2, <3>3 DEF BegunOK
  <2>4. PlaceOK(reader[r])'
    <3>1. /\ reader[r].next \in Nat \ {0} /\ reader[r].end \in Nat
          /\ Len(reader[r].began.series) <= reader[r].end /\ reader[r].end <= Len(d_series')
      <4>1. Len(d_series) \in Nat /\ Len(d_series') \in Nat
        BY DEF Types
      <4> QED
        BY <1>2, <4>1 DEF PlaceOK, Grows
    <3>2. ASSUME reader[r].pc = "metrics" PROVE reader[r].endMetric <= Len(d_metrics'[reader[r].series])
      <4>1. /\ reader[r].series \in Series /\ reader[r].endMetric \in Nat
            /\ reader[r].endMetric <= Len(d_metrics[reader[r].series])
        BY <1>2, <3>2 DEF PlaceOK
      <4>2. d_metrics[reader[r].series] \in Seq(Metrics) /\ d_metrics'[reader[r].series] \in Seq(Metrics)
        BY <4>1 DEF Types
      <4>3. Len(d_metrics[reader[r].series]) <= Len(d_metrics'[reader[r].series])
        BY <4>1 DEF Grows
      <4> QED
        BY <4>1, <4>2, <4>3
    <3> QED
      BY <1>2, <2>1, <3>1, <3>2 DEF PlaceOK
  <2>5. PageOK(reader[r])'
    <3>1. reader[r].page \in Seq(Entry) /\ Len(reader[r].page) <= Len(d_series')
      <4>1. Len(d_series) \in Nat /\ Len(d_series') \in Nat
        BY DEF Types
      <4> QED
        BY <1>2, <4>1 DEF PageOK, Grows
    <3>2. ASSUME NEW i \in 1..Len(reader[r].page)
          PROVE  /\ reader[r].page[i].series = d_series'[i]
                 /\ Len(reader[r].page[i].lines) <= Len(d_metrics'[reader[r].page[i].series])
                 /\ \A j \in 1..Len(reader[r].page[i].lines) :
                       reader[r].page[i].lines[j].metric = d_metrics'[reader[r].page[i].series][j]
      <4>1. /\ reader[r].page[i].series = d_series[i] /\ Len(reader[r].page) <= Len(d_series)
            /\ Len(reader[r].page[i].lines) <= Len(d_metrics[reader[r].page[i].series])
            /\ \A j \in 1..Len(reader[r].page[i].lines) :
                  reader[r].page[i].lines[j].metric = d_metrics[reader[r].page[i].series][j]
        BY <1>2 DEF PageOK
      <4>2. reader[r].page[i].series \in Series /\ reader[r].page[i].lines \in Seq(Line)
        <5>1. reader[r].page[i] \in Entry
          BY <3>1
        <5> QED
          BY <5>1 DEF Entry
      <4>3. /\ d_metrics[reader[r].page[i].series] \in Seq(Metrics)
            /\ d_metrics'[reader[r].page[i].series] \in Seq(Metrics)
        BY <4>2 DEF Types
      <4>4. /\ Len(d_metrics[reader[r].page[i].series]) <= Len(d_metrics'[reader[r].page[i].series])
            /\ \A j \in 1..Len(d_metrics[reader[r].page[i].series]) :
                  d_metrics'[reader[r].page[i].series][j] = d_metrics[reader[r].page[i].series][j]
        BY <4>2 DEF Grows
      <4>5. reader[r].page[i].series = d_series'[i]
        BY <3>1, <4>1 DEF Grows, Types
      <4> DEFINE s == reader[r].page[i].series
                 lines == reader[r].page[i].lines
      <4>6. /\ lines \in Seq(Line) /\ d_metrics[s] \in Seq(Metrics) /\ d_metrics'[s] \in Seq(Metrics)
            /\ Len(lines) <= Len(d_metrics[s]) /\ Len(d_metrics[s]) <= Len(d_metrics'[s])
            /\ \A j \in 1..Len(lines) : lines[j].metric = d_metrics[s][j]
            /\ \A j \in 1..Len(d_metrics[s]) : d_metrics'[s][j] = d_metrics[s][j]
        BY <4>1, <4>2, <4>3, <4>4
      <4>7. s = d_series'[i]
        BY <4>5
      <4> HIDE DEF s, lines
      <4>8. Len(lines) <= Len(d_metrics'[s]) /\ \A j \in 1..Len(lines) : lines[j].metric = d_metrics'[s][j]
        BY <4>6
      <4> QED
        BY <4>7, <4>8 DEF s, lines
    <3>3. \A i \in 1..Len(reader[r].page) :
             reader[r].pc = "series" \/ i < Len(reader[r].page) =>
                Len(reader[r].began.metrics[reader[r].page[i].series]) <= Len(reader[r].page[i].lines)
      BY <1>2 DEF PageOK
    <3>4. /\ reader'[r].pc = reader[r].pc /\ reader'[r].page = reader[r].page
          /\ reader'[r].began = reader[r].began
      BY <2>1
    <3> QED
      <4> DEFINE page == reader[r].page
                 began == reader[r].began
      <4>1. /\ page \in Seq(Entry) /\ Len(page) <= Len(d_series')
            /\ \A i \in 1..Len(page) :
                  /\ page[i].series = d_series'[i]
                  /\ Len(page[i].lines) <= Len(d_metrics'[page[i].series])
                  /\ \A j \in 1..Len(page[i].lines) : page[i].lines[j].metric = d_metrics'[page[i].series][j]
                  /\ reader[r].pc = "series" \/ i < Len(page) =>
                        Len(began.metrics[page[i].series]) <= Len(page[i].lines)
        BY <3>1, <3>2, <3>3
      <4>2. reader'[r].pc = reader[r].pc /\ reader'[r].page = page /\ reader'[r].began = began
        BY <3>4
      <4> HIDE DEF page, began
      <4> QED
        BY <4>1, <4>2 DEF PageOK
  <2>6. CurrentOK(reader[r])'
    <3> SUFFICES ASSUME NEW i \in 1..Len(reader[r].page), NEW j \in 1..Len(reader[r].page[i].lines),
                        reader[r].page[i].lines[j].metric \in Counters \ overlapped'
                 PROVE  /\ reader[r].page[i].lines[j].shown \in Nat
                        /\ reader[r].began.returned[reader[r].page[i].lines[j].metric] <= reader[r].page[i].lines[j].shown
                        /\ reader[r].page[i].lines[j].shown <= returned'[reader[r].page[i].lines[j].metric]
      BY <2>1 DEF CurrentOK, LineOK
    <3> DEFINE line == reader[r].page[i].lines[j]
    <3>1. LineOK(reader[r], line) /\ line.metric \in Counters \ overlapped
      BY <1>2 DEF CurrentOK, Grows
    <3>2. /\ line.metric \in Counters
          /\ line.shown \in Nat
          /\ reader[r].began.returned[line.metric] <= line.shown
          /\ line.shown <= returned[line.metric]
      BY <3>1 DEF LineOK
    <3>3. returned[line.metric] \in Nat /\ returned'[line.metric] \in Nat /\ returned[line.metric] <= returned'[line.metric]
      BY <3>2 DEF Grows, Types
    <3>4. reader[r].began.returned[line.metric] \in Nat
      BY <2>2, <3>2
    <3> HIDE DEF line
    <3>5. line.shown \in Nat /\ line.shown <= returned'[line.metric]
      BY <3>2, <3>3
    <3> QED
      BY <3>2, <3>5 DEF line
  <2> QED
    BY <2>1, <2>3, <2>4, <2>5, <2>6 DEF LoopOK
<1> QED
  BY <1>1, <1>2 DEF LoopOK

-----------------------------------------------------------------------------
\* The steps of a loop, each for its own reader.
LEMMA RequestBegins ==
    ASSUME Types, ReadersOK, NEW r \in Readers, Request(r)
    PROVE  LoopOK(reader[r])'
<1> DEFINE l == [pc |-> "series", next |-> 1, end |-> Len(d_series), moved |-> FALSE, page |-> <<>>,
                 began |-> [series |-> d_series, metrics |-> d_metrics, returned |-> returned]]
<1>1. /\ reader'[r] = l
      /\ UNCHANGED <<d_series, d_metrics, returned, overlapped>>
  BY DEF Request, ReadersOK, state, history
<1>2. IsSeriesLoop(l)
  BY DEF IsSeriesLoop
<1>3. /\ l.pc = "series" /\ l.next = 1 /\ l.end = Len(d_series) /\ l.page = <<>>
      /\ l.began.series = d_series /\ l.began.metrics = d_metrics /\ l.began.returned = returned
      /\ l.began \in Begun
  BY DEF Begun, Types
<1> HIDE DEF l
<1>4. BegunOK(reader[r])'
  <2>1. \A m \in Counters : returned[m] \in Nat
    BY DEF Types
  <2>2. \A s \in Series : d_metrics[s] \in Seq(Metrics)
    BY DEF Types
  <2> QED
    BY <1>1, <1>3, <2>1, <2>2 DEF BegunOK, Types
<1>5. PlaceOK(reader[r])'
  BY <1>1, <1>3 DEF PlaceOK, Types
<1>6. PageOK(reader[r])'
  BY <1>1, <1>3 DEF PageOK, Types
<1>7. CurrentOK(reader[r])'
  BY <1>1, <1>3 DEF CurrentOK
<1> QED
  BY <1>1, <1>2, <1>4, <1>5, <1>6, <1>7 DEF LoopOK

LEMMA BeginSeriesKeeps ==
    ASSUME Types, ReadersOK, NEW r \in Readers, BeginSeries(r), reader' # reader
    PROVE  LoopOK(reader[r])'
<1> DEFINE loop == reader[r]
           s == d_series[loop.next]
           buffer == [size |-> BufferSize, used |-> MetadataLength(s)]
           l == [pc |-> "metrics", next |-> loop.next, end |-> loop.end,
                 moved |-> loop.moved, began |-> loop.began,
                 page |-> Append(loop.page, [series |-> s, lines |-> <<>>]),
                 series |-> s, nextMetric |-> 1, endMetric |-> Len(d_metrics[s]),
                 metricsMoved |-> FALSE, buffer |-> buffer]
<1>1. /\ loop.pc = "series" /\ loop.next <= loop.end
      /\ reader'[r] = l
      /\ UNCHANGED <<d_series, d_metrics, returned, overlapped>>
  BY DEF BeginSeries, Undefine, ReadersOK, state, history
<1>2. BegunOK(loop) /\ PlaceOK(loop) /\ PageOK(loop) /\ CurrentOK(loop)
  BY <1>1 DEF ReadersOK, LoopOK, Idle
<1>3. IsMetricsLoop(l)
  BY DEF IsMetricsLoop
<1>4. /\ l.pc = "metrics" /\ l.next = loop.next /\ l.end = loop.end /\ l.began = loop.began
      /\ l.page = Append(loop.page, [series |-> s, lines |-> <<>>])
      /\ l.series = s /\ l.nextMetric = 1 /\ l.endMetric = Len(d_metrics[s])
  OBVIOUS
<1> HIDE DEF l
<1>5. /\ loop.next = Len(loop.page) + 1 /\ loop.next \in Nat \ {0} /\ loop.end \in Nat /\ loop.end <= Len(d_series)
      /\ Len(loop.began.series) <= loop.end
  BY <1>1, <1>2 DEF PlaceOK
<1>6. /\ s \in Series /\ d_metrics[s] \in Seq(Metrics) /\ loop.page \in Seq(Entry)
      /\ loop.next <= Len(d_series)
  BY SMTT(30), <1>1, <1>2, <1>5 DEF Types, PageOK
<1>7. [series |-> s, lines |-> <<>>] \in Entry
  BY <1>6 DEF Entry
<1>8. /\ l.page \in Seq(Entry) /\ Len(l.page) = loop.next
      /\ \A i \in 1..Len(loop.page) : l.page[i] = loop.page[i]
      /\ l.page[loop.next] = [series |-> s, lines |-> <<>>]
  BY <1>4, <1>5, <1>6, <1>7, AppendProperties
<1>9. l.page[loop.next].series = s /\ l.page[loop.next].lines = <<>>
  BY <1>8
<1>10. /\ loop.began \in Begun
       /\ Len(loop.began.metrics[s]) <= Len(d_metrics[s])
  BY <1>2, <1>6 DEF BegunOK
<1> HIDE DEF loop, s
<1>11. BegunOK(reader[r])'
  BY SMTT(30), <1>1, <1>2, <1>4 DEF BegunOK
<1>12. PlaceOK(reader[r])'
  BY <1>1, <1>4, <1>5, <1>6, <1>8, <1>9, <1>10 DEF PlaceOK
<1>13. PageOK(reader[r])'
  <2>1. ASSUME NEW i \in 1..Len(l.page)
        PROVE  /\ l.page[i].series = d_series[i]
               /\ Len(l.page[i].lines) <= Len(d_metrics[l.page[i].series])
               /\ \A j \in 1..Len(l.page[i].lines) : l.page[i].lines[j].metric = d_metrics[l.page[i].series][j]
               /\ i < Len(l.page) => Len(l.began.metrics[l.page[i].series]) <= Len(l.page[i].lines)
    <3>1. CASE i \in 1..Len(loop.page)
      BY <1>1, <1>2, <1>4, <1>8, <3>1 DEF PageOK
    <3>2. CASE i = loop.next
      <4>1. l.page[i].series = s /\ l.page[i].lines = <<>> /\ ~(i < Len(l.page))
        BY <1>5, <1>8, <1>9, <3>2
      <4>2. s = d_series[i]
        BY <3>2 DEF s
      <4> QED
        BY <1>6, <4>1, <4>2
    <3>3. i \in 1..Len(loop.page) \/ i = loop.next
      BY <1>5, <1>6, <1>8
    <3> QED
      BY <3>1, <3>2, <3>3
  <2> QED
    BY <1>1, <1>4, <1>6, <1>8, <2>1 DEF PageOK
<1>14. CurrentOK(reader[r])'
  <2> SUFFICES ASSUME NEW i \in 1..Len(l.page), NEW j \in 1..Len(l.page[i].lines)
               PROVE  LineOK(l, l.page[i].lines[j])
    BY <1>1 DEF CurrentOK, LineOK
  <2>1. CASE i \in 1..Len(loop.page)
    BY <1>2, <1>4, <1>8, <2>1 DEF CurrentOK, LineOK
  <2>2. CASE i = loop.next
    BY <1>9, <2>2
  <2> QED
    BY <1>5, <1>8, <2>1, <2>2
<1> QED
  BY <1>1, <1>3, <1>11, <1>12, <1>13, <1>14 DEF LoopOK

LEMMA EntryExcept ==
    ASSUME NEW entry \in Entry, NEW lines
    PROVE  [entry EXCEPT !.lines = lines] = [series |-> entry.series, lines |-> lines]
BY DEF Entry

LEMMA EncodeMetricKeeps ==
    ASSUME Types, CountOK, ReadersOK, NEW r \in Readers, EncodeMetric(r), reader' # reader
    PROVE  LoopOK(reader[r])'
<1> DEFINE loop == reader[r]
           n == Len(loop.page)
           s == loop.series
           m == d_metrics[s][loop.nextMetric]
           line == [metric |-> m, shown |-> Shown(m)]
           l == reader'[r]
<1>1. /\ loop.pc = "metrics" /\ loop.nextMetric <= loop.endMetric
      /\ UNCHANGED <<d_series, d_metrics, value, returned, overlapped>>
  BY DEF EncodeMetric, Undefine, state, history
<1>2. IsMetricsLoop(loop) /\ BegunOK(loop) /\ PlaceOK(loop) /\ PageOK(loop) /\ CurrentOK(loop)
  BY <1>1 DEF ReadersOK, LoopOK, Idle, IsSeriesLoop
<1>3. \E buffer : l = [loop EXCEPT !.nextMetric = @ + 1, !.buffer = buffer, !.page[n].lines = Append(@, line)]
  <2>1. \E buffer :
            reader' = [reader EXCEPT ![r].nextMetric = @ + 1, ![r].buffer = buffer,
                                     ![r].page[n].lines = Append(@, line)]
    BY Zenon DEF EncodeMetric, Undefine
  <2>2. PICK buffer :
            reader' = [reader EXCEPT ![r].nextMetric = @ + 1, ![r].buffer = buffer,
                                     ![r].page[n].lines = Append(@, line)]
    BY <2>1
  <2> HIDE DEF line, n
  <2>3. r \in DOMAIN reader
    BY DEF ReadersOK
  <2>4. l = [loop EXCEPT !.nextMetric = @ + 1, !.buffer = buffer, !.page[n].lines = Append(@, line)]
    BY <2>2, <2>3
  <2> QED
    BY <2>4
<1>4. /\ l.pc = "metrics" /\ l.next = loop.next /\ l.end = loop.end /\ l.began = loop.began
      /\ l.series = s /\ l.nextMetric = loop.nextMetric + 1 /\ l.endMetric = loop.endMetric
      /\ l.page = [loop.page EXCEPT ![n].lines = Append(@, line)]
      /\ IsMetricsLoop(l)
  BY <1>1, <1>2, <1>3 DEF IsMetricsLoop
<1>5. /\ loop.page \in Seq(Entry) /\ n \in Nat \ {0} /\ loop.next = n /\ n <= Len(d_series)
      /\ s \in Series /\ s = loop.page[n].series /\ loop.nextMetric \in Nat \ {0} /\ loop.endMetric \in Nat
      /\ loop.nextMetric = Len(loop.page[n].lines) + 1
      /\ loop.endMetric <= Len(d_metrics[s])
  BY <1>1, <1>2 DEF PlaceOK, PageOK
<1>6. /\ d_metrics[s] \in Seq(Metrics) /\ m \in Metrics
      /\ loop.nextMetric <= Len(d_metrics[s])
  <2>1. d_metrics[s] \in Seq(Metrics)
    BY <1>5 DEF Types
  <2> HIDE DEF loop, s
  <2>2. Len(d_metrics[s]) \in Nat
    BY <2>1
  <2>3. loop.nextMetric \in 1..Len(d_metrics[s])
    <3>1. loop.nextMetric \in Nat \ {0} /\ loop.nextMetric <= Len(d_metrics[s])
      BY SMTT(30), <1>1, <1>5, <2>2
    <3> QED
      BY <2>2, <3>1
  <2> QED
    BY <2>1, <2>2, <2>3 DEF m
<1>7. Shown(m) \in Texts
  <2>1. CASE m \in Histograms
    BY <2>1 DEF Shown, Types, Texts
  <2>2. CASE m \notin Histograms
    BY <1>6, <2>2, KindsDiffer DEF Shown, Types, Texts
  <2> QED
    BY <2>1, <2>2
<1>8. line \in Line /\ line.metric = m /\ line.shown = Shown(m)
  BY <1>6, <1>7 DEF Line
<1>9. m \in Counters \ overlapped => LineOK(loop, line)
  <2> SUFFICES ASSUME m \in Counters, m \notin overlapped PROVE LineOK(loop, line)
    OBVIOUS
  <2>1. Shown(m) = value[m] /\ value[m] = returned[m] /\ returned[m] \in Nat
    BY KindsDiffer DEF Shown, CountOK, Types
  <2>2. loop.began.returned[m] <= returned[m]
    BY <1>2 DEF BegunOK
  <2>3. line.metric = m /\ line.shown = Shown(m)
    BY <1>8
  <2> HIDE DEF line, m, loop
  <2> QED
    BY SMTT(30), <2>1, <2>2, <2>3 DEF LineOK
<1> HIDE DEF line, m, s, l
<1> DEFINE lines == loop.page[n].lines
<1>10. lines \in Seq(Line)
  <2>1. loop.page[n] \in Entry
    BY <1>5
  <2> QED
    BY <2>1 DEF Entry
<1>11. /\ Append(lines, line) \in Seq(Line) /\ Len(Append(lines, line)) = loop.nextMetric
       /\ \A j \in 1..Len(lines) : Append(lines, line)[j] = lines[j]
       /\ Append(lines, line)[loop.nextMetric] = line
       /\ Len(lines) \in Nat /\ loop.nextMetric = Len(lines) + 1
  <2>1. loop.nextMetric = Len(lines) + 1
    BY <1>5
  <2> HIDE DEF lines
  <2>2. Len(lines) \in Nat
    BY <1>10
  <2> QED
    BY <1>8, <1>10, <2>1, <2>2, AppendProperties
<1> HIDE DEF loop, n, lines
<1>12. /\ l.page \in Seq(Entry) /\ Len(l.page) = n
       /\ \A i \in 1..n : i # n => l.page[i] = loop.page[i]
       /\ l.page[n].series = s /\ l.page[n].lines = Append(lines, line)
  <2>1. /\ loop.page[n] \in Entry /\ loop.page[n].series = s
        /\ loop.page = [i \in 1..n |-> loop.page[i]]
    BY <1>5 DEF n
  <2>2. [loop.page[n] EXCEPT !.lines = Append(lines, line)] = [series |-> s, lines |-> Append(lines, line)]
    BY <2>1, EntryExcept
  <2>3. l.page = [loop.page EXCEPT ![n] = [series |-> s, lines |-> Append(lines, line)]]
    BY <1>4, <2>2 DEF lines, loop
  <2>4. [series |-> s, lines |-> Append(lines, line)] \in Entry
    BY <1>5, <1>11 DEF Entry
  <2> QED
    BY <1>5, <2>1, <2>3, <2>4 DEF n
<1>13. BegunOK(reader[r])'
  BY <1>1, <1>2, <1>4 DEF BegunOK, l, loop
<1>14. PlaceOK(reader[r])'
  <2>1. /\ loop.end \in Nat /\ Len(loop.began.series) <= loop.end /\ loop.end <= Len(d_series)
        /\ Len(loop.began.metrics[s]) <= loop.endMetric
    BY <1>1, <1>2 DEF PlaceOK, s, loop
  <2> QED
    BY SMTT(30), <1>1, <1>4, <1>5, <1>11, <1>12, <2>1 DEF PlaceOK, l
<1>15. PageOK(reader[r])'
  <2>1. ASSUME NEW i \in 1..n
        PROVE  /\ l.page[i].series = d_series[i]
               /\ Len(l.page[i].lines) <= Len(d_metrics[l.page[i].series])
               /\ \A j \in 1..Len(l.page[i].lines) : l.page[i].lines[j].metric = d_metrics[l.page[i].series][j]
               /\ i < n => Len(l.began.metrics[l.page[i].series]) <= Len(l.page[i].lines)
    <3>1. CASE i # n
      <4>1. /\ loop.page[i].series = d_series[i]
            /\ Len(loop.page[i].lines) <= Len(d_metrics[loop.page[i].series])
            /\ \A j \in 1..Len(loop.page[i].lines) :
                  loop.page[i].lines[j].metric = d_metrics[loop.page[i].series][j]
            /\ i < n => Len(loop.began.metrics[loop.page[i].series]) <= Len(loop.page[i].lines)
        BY <1>2 DEF PageOK, n
      <4> QED
        BY <1>4, <1>12, <3>1, <4>1
    <3>2. CASE i = n
      <4>1. /\ s = d_series[n]
            /\ \A j \in 1..Len(lines) : lines[j].metric = d_metrics[s][j]
        BY <1>2, <1>5 DEF PageOK, lines, n
      <4>2. line.metric = d_metrics[s][loop.nextMetric]
        BY <1>8 DEF m
      <4>3. ASSUME NEW j \in 1..loop.nextMetric PROVE Append(lines, line)[j].metric = d_metrics[s][j]
        <5>1. CASE j \in 1..Len(lines)
          BY <1>11, <4>1, <5>1
        <5>2. CASE j = loop.nextMetric
          BY <1>11, <4>2, <5>2
        <5> QED
          BY <1>11, <5>1, <5>2
      <4>4. loop.nextMetric <= Len(d_metrics[s])
        BY <1>6
      <4>5. l.page[i].series = s /\ l.page[i].lines = Append(lines, line) /\ ~(i < n)
        BY <1>5, <1>12, <3>2
      <4> QED
        BY <1>11, <3>2, <4>1, <4>3, <4>4, <4>5
    <3> QED
      BY <3>1, <3>2
  <2>2. /\ l.page \in Seq(Entry) /\ Len(l.page) <= Len(d_series)
        /\ \A i \in 1..Len(l.page) :
              /\ l.page[i].series = d_series[i]
              /\ Len(l.page[i].lines) <= Len(d_metrics[l.page[i].series])
              /\ \A j \in 1..Len(l.page[i].lines) : l.page[i].lines[j].metric = d_metrics[l.page[i].series][j]
              /\ l.pc = "series" \/ i < Len(l.page) => Len(l.began.metrics[l.page[i].series]) <= Len(l.page[i].lines)
    BY <1>4, <1>5, <1>12, <2>1
  <2> QED
    BY <1>1, <2>2 DEF PageOK, l
<1>16. CurrentOK(reader[r])'
  <2> SUFFICES ASSUME NEW i \in 1..n, NEW j \in 1..Len(l.page[i].lines)
               PROVE  LineOK(loop, l.page[i].lines[j])
    BY <1>1, <1>4, <1>12 DEF CurrentOK, LineOK, l
  <2>1. CASE i # n
    BY <1>2, <1>12, <2>1 DEF CurrentOK, n
  <2>2. CASE i = n /\ j \in 1..Len(lines)
    BY <1>2, <1>5, <1>11, <1>12, <2>2 DEF CurrentOK, lines, n
  <2>3. CASE i = n /\ j = loop.nextMetric
    <3>1. l.page[i].lines[j] = line
      BY <1>11, <1>12, <2>3
    <3>2. LineOK(loop, line)
      BY <1>8, <1>9 DEF LineOK
    <3> QED
      BY <3>1, <3>2
  <2>4. i = n => j \in 1..Len(lines) \/ j = loop.nextMetric
    <3>1. i = n => Len(l.page[i].lines) = Len(lines) + 1
      BY <1>11, <1>12
    <3> QED
      BY <1>11, <3>1
  <2> QED
    BY <2>1, <2>2, <2>3, <2>4
<1> QED
  BY <1>4, <1>13, <1>14, <1>15, <1>16 DEF LoopOK, l

LEMMA EndSeriesKeeps ==
    ASSUME Types, ReadersOK, NEW r \in Readers, EndSeries(r)
    PROVE  LoopOK(reader[r])'
<1> DEFINE loop == reader[r]
           n == Len(loop.page)
           l == [pc |-> "series", next |-> loop.next + 1, end |-> loop.end, moved |-> loop.moved,
                 page |-> loop.page, began |-> loop.began]
<1>1. /\ loop.pc = "metrics" /\ loop.nextMetric > loop.endMetric
      /\ reader'[r] = l
      /\ UNCHANGED <<d_series, d_metrics, returned, overlapped>>
  BY DEF EndSeries, ReadersOK, state, history
<1>2. BegunOK(loop) /\ PlaceOK(loop) /\ PageOK(loop) /\ CurrentOK(loop)
  BY <1>1 DEF ReadersOK, LoopOK, Idle
<1>3. IsSeriesLoop(l)
  BY DEF IsSeriesLoop
<1>4. /\ l.pc = "series" /\ l.next = loop.next + 1 /\ l.end = loop.end
      /\ l.page = loop.page /\ l.began = loop.began
  OBVIOUS
<1>5. /\ loop.page \in Seq(Entry) /\ n \in Nat \ {0} /\ loop.next = n /\ n <= Len(d_series)
      /\ loop.end \in Nat /\ Len(loop.began.series) <= loop.end /\ loop.end <= Len(d_series)
  BY <1>1, <1>2 DEF PlaceOK, PageOK
<1>6. Len(loop.began.metrics[loop.page[n].series]) <= Len(loop.page[n].lines)
  <2>1. /\ loop.nextMetric = Len(loop.page[n].lines) + 1 /\ loop.endMetric \in Nat
        /\ loop.series \in Series /\ loop.series = loop.page[n].series
        /\ Len(loop.began.metrics[loop.series]) <= loop.endMetric
    BY <1>1, <1>2, <1>5 DEF PlaceOK
  <2>2. Len(loop.page[n].lines) \in Nat
    <3>1. loop.page[n] \in Entry
      BY <1>5
    <3> QED
      BY <3>1 DEF Entry
  <2>3. Len(loop.began.metrics[loop.series]) \in Nat
    <3>1. loop.began \in Begun
      BY <1>2 DEF BegunOK
    <3>2. loop.began.metrics \in [Series -> Seq(Metrics)]
      BY <3>1 DEF Begun
    <3>3. loop.series \in Series
      BY <2>1
    <3> HIDE DEF loop, n, l
    <3>4. loop.began.metrics[loop.series] \in Seq(Metrics)
      BY <3>2, <3>3
    <3> QED
      BY <3>4
  <2> HIDE DEF loop, n
  <2>4. loop.endMetric <= Len(loop.page[n].lines)
    BY <1>1, <2>1, <2>2
  <2>5. Len(loop.began.metrics[loop.series]) <= Len(loop.page[n].lines)
    <3> DEFINE before == Len(loop.began.metrics[loop.series])
               now == Len(loop.page[n].lines)
    <3>1. before \in Nat /\ now \in Nat /\ before <= loop.endMetric /\ loop.endMetric <= now
      BY <2>1, <2>2, <2>3, <2>4
    <3>2. loop.endMetric \in Nat
      BY <2>1
    <3> HIDE DEF before, now
    <3>3. before <= now
      BY <3>1, <3>2
    <3> QED
      BY <3>3 DEF before, now
  <2> QED
    BY <2>1, <2>5
<1> HIDE DEF l, loop, n
<1>7. BegunOK(reader[r])'
  BY <1>1, <1>2, <1>4 DEF BegunOK
<1>8. PlaceOK(reader[r])'
  BY <1>1, <1>4, <1>5 DEF PlaceOK, n
<1>9. PageOK(reader[r])'
  <2>1. ASSUME NEW i \in 1..n
        PROVE  /\ loop.page[i].series = d_series[i]
               /\ Len(loop.page[i].lines) <= Len(d_metrics[loop.page[i].series])
               /\ \A j \in 1..Len(loop.page[i].lines) :
                     loop.page[i].lines[j].metric = d_metrics[loop.page[i].series][j]
               /\ Len(loop.began.metrics[loop.page[i].series]) <= Len(loop.page[i].lines)
    <3>1. CASE i = n
      BY <1>2, <1>6, <3>1 DEF PageOK, n
    <3>2. CASE i # n
      <4>1. i < n
        BY <1>5, <3>2
      <4> QED
        BY <1>2, <4>1 DEF PageOK, n
    <3> QED
      BY <3>1, <3>2
  <2> QED
    BY <1>1, <1>4, <1>5, <2>1 DEF PageOK, n
<1>10. CurrentOK(reader[r])'
  BY <1>1, <1>2, <1>4 DEF CurrentOK, LineOK
<1> QED
  BY <1>1, <1>3, <1>7, <1>8, <1>9, <1>10 DEF LoopOK

-----------------------------------------------------------------------------
\* A step of one reader, given what it makes of its own loop.
LEMMA ReaderSteps ==
    ASSUME IInv, NEW r \in Readers, UNCHANGED <<state, loaded, history>>, undefined' \in BOOLEAN,
           NEW l, reader' = [reader EXCEPT ![r] = l], LoopOK(reader[r])'
    PROVE  IInv'
<1>1. Types' /\ CountOK' /\ Grows
  BY SameState DEF IInv
<1>2. reader' = [u \in Readers |-> reader'[u]] /\ \A u \in Readers \ {r} : reader'[u] = reader[u]
  BY DEF IInv, ReadersOK
<1>3. ASSUME NEW u \in Readers PROVE LoopOK(reader[u])'
  <2>1. CASE u = r
    BY <2>1
  <2>2. CASE u # r
    BY <1>1, <1>2, <2>2, LoopKept DEF IInv, ReadersOK
  <2> QED
    BY <2>1, <2>2
<1> QED
  BY <1>1, <1>2, <1>3 DEF IInv, ReadersOK

\* A step of the application, given what the loops under way see of it.
LEMMA ApplicationSteps ==
    ASSUME IInv, Types', CountOK', Grows,
           reader' = [u \in Readers |-> reader'[u]],
           \A u \in Readers :
               \/ reader'[u] = reader[u]
               \/ reader[u].pc # "idle" /\ reader'[u] = [reader[u] EXCEPT !.moved = TRUE]
               \/ reader[u].pc = "metrics" /\ reader'[u] = [reader[u] EXCEPT !.metricsMoved = TRUE]
    PROVE  IInv'
<1>1. ASSUME NEW u \in Readers PROVE LoopOK(reader[u])'
  BY LoopKept DEF IInv, ReadersOK
<1> QED
  BY <1>1 DEF IInv, ReadersOK

LEMMA InitInv == Init => IInv
<1> SUFFICES ASSUME Init PROVE IInv
  OBVIOUS
<1> USE DEF Init
<1>1. Types
  <2>1. /\ d_series = <<>> /\ IsInjective(d_series)
        /\ \A s \in Series : d_metrics[s] = <<>> /\ IsInjective(d_metrics[s])
    BY DEF IsInjective
  <2>2. d_buckets \in [Histograms -> {<<>>} \cup [1..NumBuckets -> Values \cup {0}]]
    BY DEF Fresh
  <2>3. calls \in 0..MaxCalls
    BY MetricsAssumption DEF Largest
  <2>4. d_metrics \in [Series -> Seq(Metrics)]
    OBVIOUS
  <2>5. /\ value \in [Counters \cup Gauges -> Nat] /\ returned \in [Counters -> Nat]
        /\ loaded \in [Threads -> [metric : Counters \cup {NotLoaded}, count : Nat]]
    OBVIOUS
  <2>6. \A s \in Series : \A j \in 1..Len(d_metrics[s]) : Owner[d_metrics[s][j]].series = s
    BY <2>1
  <2>7. d_series \in Seq(Series)
    BY <2>1
  <2> QED
    BY <2>1, <2>2, <2>3, <2>4, <2>5, <2>6, <2>7 DEF Types
<1>2. CountOK
  BY MetricsAssumption, KindsDiffer DEF CountOK
<1>3. ReadersOK
  BY DEF ReadersOK, LoopOK
<1> QED
  BY <1>1, <1>2, <1>3 DEF IInv

LEMMA NextInv == IInv /\ [Next]_vars => IInv'
<1> SUFFICES ASSUME IInv, [Next]_vars PROVE IInv'
  OBVIOUS
<1>1. Types /\ CountOK /\ ReadersOK
  BY DEF IInv
<1>2. ASSUME UNCHANGED vars PROVE IInv'
  <2>1. UNCHANGED <<state, loaded, history>> /\ reader' = reader /\ undefined' \in BOOLEAN
    BY <1>1, <1>2 DEF vars, Types
  <2>2. Types' /\ CountOK' /\ Grows
    BY <1>1, <2>1, SameState
  <2> QED
    BY <1>1, <2>1, <2>2, ApplicationSteps DEF ReadersOK
<1>3. ASSUME NEW s \in Series, NEW moves \in BOOLEAN, NewSeries(s, moves) PROVE IInv'
  <2>1. Types' /\ CountOK' /\ Grows
    BY <1>1, <1>3, NewSeriesAdds
  <2>2. reader' = [u \in Readers |->
                      IF u \in Reading /\ moves THEN [reader[u] EXCEPT !.moved = TRUE] ELSE reader[u]]
    BY <1>3 DEF NewSeries
  <2> QED
    BY <2>1, <2>2, ApplicationSteps DEF Reading
<1>4. ASSUME NEW m \in Metrics, NEW moves \in BOOLEAN, NewMetric(m, moves) PROVE IInv'
  <2>1. Types' /\ CountOK' /\ Grows
    BY <1>1, <1>4, NewMetricAdds
  <2>2. reader' = [u \in Readers |->
                      IF reader[u].pc = "metrics" /\ reader[u].series = Owner[m].series /\ moves
                      THEN [reader[u] EXCEPT !.metricsMoved = TRUE] ELSE reader[u]]
    BY <1>4 DEF NewMetric
  <2> QED
    BY <2>1, <2>2, ApplicationSteps
<1>5. ASSUME reader' = reader, Types', CountOK', Grows PROVE IInv'
  BY <1>1, <1>5, ApplicationSteps DEF ReadersOK
<1>6. ASSUME NEW t \in Threads, Store(t) PROVE IInv'
  BY <1>1, <1>5, <1>6, StoreAdds DEF Store
<1>7. ASSUME NEW t \in Threads, NEW m \in Counters, Load(t, m) PROVE IInv'
  BY <1>1, <1>5, <1>7, LoadAdds DEF Load
<1>8. ASSUME NEW m \in Gauges, NEW v \in Values, Set(m, v) PROVE IInv'
  BY <1>1, <1>5, <1>8, SetAdds DEF Set
<1>9. ASSUME NEW m \in Histograms,
             (\E determinant \in (Low - 1)..(High + 1), v \in Values : Record(m, determinant, v)) \/ Reset(m)
      PROVE  IInv'
  <2>1. reader' = reader
    BY <1>9 DEF Record, Reset
  <2> QED
    BY <1>1, <1>5, <1>9, <2>1, BucketsAdd
<1>10. ASSUME Undefine PROVE IInv'
  <2>1. Types' /\ CountOK' /\ Grows
    BY <1>1, <1>10, SameState DEF Undefine
  <2> QED
    BY <1>5, <1>10, <2>1 DEF Undefine
<1>11. ASSUME NEW r \in Readers, Request(r) PROVE IInv'
  <2>1. LoopOK(reader[r])'
    BY <1>1, <1>11, RequestBegins
  <2>2. UNCHANGED <<state, loaded, history>> /\ undefined' \in BOOLEAN
    BY <1>1, <1>11 DEF Request, Types
  <2>3. reader' = [reader EXCEPT ![r] = reader'[r]]
    BY <1>1, <1>11 DEF Request, ReadersOK
  <2> QED
    BY <2>1, <2>2, <2>3, ReaderSteps
<1>12. ASSUME NEW r \in Readers, BeginSeries(r) PROVE IInv'
  <2>1. CASE Undefine
    BY <1>10, <2>1
  <2>2. CASE ~Undefine /\ reader' # reader
    <3>1. LoopOK(reader[r])'
      BY <1>1, <1>12, <2>2, BeginSeriesKeeps
    <3>2. UNCHANGED <<state, loaded, history>> /\ undefined' \in BOOLEAN
      BY <1>1, <1>12, <2>2 DEF BeginSeries, Types
    <3>3. reader' = [reader EXCEPT ![r] = reader'[r]]
      BY <1>1, <1>12, <2>2 DEF BeginSeries, ReadersOK
    <3> QED
      BY <3>1, <3>2, <3>3, ReaderSteps
  <2>3. CASE ~Undefine /\ reader' = reader
    <3>1. UNCHANGED <<state, loaded, history>> /\ undefined' \in BOOLEAN
      BY <1>1, <1>12, <2>3 DEF BeginSeries, Types
    <3> QED
      BY <1>1, <1>5, <2>3, <3>1, SameState
  <2> QED
    BY <2>1, <2>2, <2>3
<1>13. ASSUME NEW r \in Readers, EncodeMetric(r) PROVE IInv'
  <2>1. CASE Undefine
    BY <1>10, <2>1
  <2>2. CASE ~Undefine /\ reader' # reader
    <3>1. LoopOK(reader[r])'
      BY <1>1, <1>13, <2>2, EncodeMetricKeeps
    <3>2. UNCHANGED <<state, loaded, history>> /\ undefined' \in BOOLEAN
      BY <1>1, <1>13, <2>2, Zenon DEF EncodeMetric, Types
    <3>3. reader' = [reader EXCEPT ![r] = reader'[r]]
      BY <1>1, <1>13, <2>2 DEF EncodeMetric, ReadersOK
    <3> QED
      BY <3>1, <3>2, <3>3, ReaderSteps
  <2>3. CASE ~Undefine /\ reader' = reader
    <3>1. UNCHANGED <<state, loaded, history>> /\ undefined' \in BOOLEAN
      BY <1>1, <1>13, <2>3, Zenon DEF EncodeMetric, Types
    <3> QED
      BY <1>1, <1>5, <2>3, <3>1, SameState
  <2> QED
    BY <2>1, <2>2, <2>3
<1>14. ASSUME NEW r \in Readers, EndSeries(r) PROVE IInv'
  <2>1. LoopOK(reader[r])'
    BY <1>1, <1>14, EndSeriesKeeps
  <2>2. UNCHANGED <<state, loaded, history>> /\ undefined' \in BOOLEAN
    BY <1>1, <1>14 DEF EndSeries, Types
  <2>3. reader' = [reader EXCEPT ![r] = reader'[r]]
    BY <1>1, <1>14 DEF EndSeries, ReadersOK
  <2> QED
    BY <2>1, <2>2, <2>3, ReaderSteps
<1>15. ASSUME NEW r \in Readers, Respond(r) PROVE IInv'
  <2>1. reader' = [reader EXCEPT ![r] = Idle] /\ UNCHANGED <<state, loaded, history>> /\ undefined' \in BOOLEAN
    BY <1>1, <1>15 DEF Respond, Types
  <2>2. reader'[r] = Idle
    BY <1>1, <2>1 DEF ReadersOK
  <2>3. LoopOK(reader[r])'
    BY <2>2 DEF LoopOK, Idle
  <2> QED
    BY <2>1, <2>3, ReaderSteps
<1> QED
  BY <1>2, <1>3, <1>4, <1>6, <1>7, <1>8, <1>9, <1>11, <1>12, <1>13, <1>14, <1>15 DEF Next

\* The conjunction is inductive, so it holds of every program and its readers.
THEOREM Invariance == Spec => []IInv
BY InitInv, NextInv, PTL DEF Spec

-----------------------------------------------------------------------------
\* Nothing is registered twice, every metric is kept in its own series, and a
\* bucket is never recorded that is not there.
THEOREM TypeCorrect == Spec => []TypeOK
<1>1. ASSUME IInv PROVE TypeOK
  <2>1. Types /\ ReadersOK
    BY <1>1 DEF IInv
  <2>2. ToSet(d_series) \subseteq Series /\ \A s \in Series : \A m \in ToSet(d_metrics[s]) : Owner[m].series = s
    <3>1. d_series \in Seq(Series) /\ \A s \in Series : d_metrics[s] \in Seq(Metrics)
      BY <2>1 DEF Types
    <3>2. \A s \in Series : \A j \in 1..Len(d_metrics[s]) : Owner[d_metrics[s][j]].series = s
      BY <2>1 DEF Types
    <3>3. \A i \in DOMAIN d_series : d_series[i] \in Series
      BY <3>1
    <3>4. \A s \in Series : DOMAIN d_metrics[s] = 1..Len(d_metrics[s])
      BY <3>1
    <3> QED
      BY <3>2, <3>3, <3>4 DEF ToSet
  <2>3. \A r \in Readers : reader[r].pc \in {"idle", "series", "metrics"}
    BY <2>1 DEF ReadersOK, LoopOK, Idle, IsSeriesLoop, IsMetricsLoop
  <2> QED
    BY <2>1, <2>2, <2>3 DEF Types, TypeOK
<1> QED
  BY <1>1, Invariance, PTL

\* A page holds, in their order, at least the series and the metrics that were
\* registered when it was asked for, whatever is registered meanwhile.
THEOREM PageComplete == Spec => []PageIsComplete
<1>1. ASSUME NEW S, NEW s \in Seq(S), NEW t \in Seq(S), Len(s) <= Len(t), \A i \in 1..Len(s) : s[i] = t[i]
      PROVE  IsPrefix(s, t)
  <2>1. SubSeq(s, 1, Len(s)) = s
    BY SubSeqFull
  <2>2. /\ SubSeq(t, 1, Len(s)) \in Seq(S)
        /\ Len(SubSeq(t, 1, Len(s))) = Len(s)
        /\ \A i \in 1..Len(s) : SubSeq(t, 1, Len(s))[i] = t[i]
    BY <1>1
  <2>3. SubSeq(t, 1, Len(s)) = s
    BY <1>1, <2>2, SeqEqual
  <2> QED
    BY <1>1, <2>1, <2>3 DEF IsPrefix
<1>2. ASSUME IInv, NEW r \in Reading, reader[r].pc = "series", reader[r].next > reader[r].end
      PROVE  LET page == reader[r].page
                 began == reader[r].began
                 Encoded(i) == [j \in DOMAIN page[i].lines |-> page[i].lines[j].metric]
             IN  /\ IsPrefix(began.series, [i \in DOMAIN page |-> page[i].series])
                 /\ \A i \in DOMAIN page : IsPrefix(began.metrics[page[i].series], Encoded(i))
  <2> DEFINE page == reader[r].page
             began == reader[r].began
             Encoded(i) == [j \in DOMAIN page[i].lines |-> page[i].lines[j].metric]
             Named == [i \in DOMAIN page |-> page[i].series]
  <2>1. r \in Readers /\ BegunOK(reader[r]) /\ PlaceOK(reader[r]) /\ PageOK(reader[r])
    BY <1>2 DEF Reading, IInv, ReadersOK, LoopOK, Idle
  <2>2. /\ page \in Seq(Entry) /\ \A i \in 1..Len(page) : page[i] \in Entry
        /\ began.series \in Seq(Series) /\ began.metrics \in [Series -> Seq(Metrics)]
    BY <2>1 DEF PageOK, BegunOK, Begun
  <2>3. Len(began.series) <= Len(page)
    <3>1. /\ Len(began.series) <= reader[r].end /\ reader[r].next = Len(page) + 1
          /\ reader[r].end \in Nat /\ Len(began.series) \in Nat /\ Len(page) \in Nat
      BY <1>2, <2>1, <2>2 DEF PlaceOK
    <3> HIDE DEF page, began
    <3> QED
      BY <1>2, <3>1
  <2>4. IsPrefix(began.series, Named)
    <3>1. \A i \in 1..Len(page) : page[i].series \in Series
      BY <2>2 DEF Entry
    <3>2. Named \in Seq(Series) /\ Len(Named) = Len(page)
      BY SMTT(30), <2>2, <3>1
    <3>3. \A i \in 1..Len(began.series) : began.series[i] = Named[i]
      <4>1. \A i \in 1..Len(began.series) : d_series[i] = began.series[i]
        BY <2>1 DEF BegunOK
      <4>2. \A i \in 1..Len(page) : page[i].series = d_series[i]
        BY <2>1 DEF PageOK
      <4>3. \A i \in 1..Len(page) : Named[i] = page[i].series
        BY <2>2
      <4>4. Len(began.series) \in Nat /\ Len(page) \in Nat
        BY <2>2
      <4> HIDE DEF page, began, Named
      <4>5. ASSUME NEW i \in 1..Len(began.series) PROVE began.series[i] = Named[i]
        <5>1. i \in 1..Len(page)
          BY <2>3, <4>4
        <5> QED
          BY <4>1, <4>2, <4>3, <5>1
      <4> QED
        BY <4>5
    <3> QED
      BY <1>1, <2>2, <2>3, <3>2, <3>3
  <2>5. ASSUME NEW i \in DOMAIN page PROVE IsPrefix(began.metrics[page[i].series], Encoded(i))
    <3> DEFINE s == page[i].series
               lines == page[i].lines
    <3>1. i \in 1..Len(page) /\ s \in Series /\ lines \in Seq(Line) /\ began.metrics[s] \in Seq(Metrics)
      <4>1. i \in 1..Len(page) /\ page[i] \in Entry
        BY <2>2
      <4>2. s \in Series /\ lines \in Seq(Line)
        BY <4>1 DEF Entry
      <4> HIDE DEF page, began, s, lines
      <4> QED
        BY <2>2, <4>1, <4>2
    <3>2. /\ Len(began.metrics[s]) <= Len(lines) /\ Len(lines) <= Len(d_metrics[s])
          /\ \A j \in 1..Len(lines) : lines[j].metric = d_metrics[s][j]
      BY <1>2, <2>1, <3>1 DEF PageOK
    <3>3. \A j \in 1..Len(began.metrics[s]) : d_metrics[s][j] = began.metrics[s][j]
      BY <2>1, <3>1 DEF BegunOK
    <3> HIDE DEF page, began, s, lines
    <3>4. \A j \in 1..Len(lines) : lines[j].metric \in Metrics
      <4>1. \A j \in 1..Len(lines) : lines[j] \in Line
        BY <3>1
      <4> QED
        BY <4>1 DEF Line
    <3>5. Encoded(i) = [j \in 1..Len(lines) |-> lines[j].metric]
      BY <3>1 DEF lines
    <3> HIDE DEF Encoded
    <3>6. Encoded(i) \in Seq(Metrics) /\ Len(Encoded(i)) = Len(lines)
      BY <3>1, <3>4, <3>5
    <3>7. \A j \in 1..Len(began.metrics[s]) : began.metrics[s][j] = Encoded(i)[j]
      BY <3>1, <3>2, <3>3, <3>5
    <3> QED
      BY <1>1, <3>1, <3>2, <3>6, <3>7 DEF s
  <2> QED
    BY <2>4, <2>5
<1>3. IInv => PageIsComplete
  BY <1>2 DEF PageIsComplete
<1> QED
  BY <1>3, Invariance, PTL

\* A counter that is not incremented by two threads at once shows at least what
\* had returned when the page was asked for, and never more than has returned.
THEOREM CountersCurrent == Spec => []CountersAreCurrent
<1>1. ASSUME IInv, NEW r \in Reading, NEW i \in DOMAIN reader[r].page, NEW line \in ToSet(reader[r].page[i].lines),
             line.metric \in Counters \ overlapped
      PROVE  reader[r].began.returned[line.metric] <= line.shown /\ line.shown <= returned[line.metric]
  <2>1. r \in Readers /\ PageOK(reader[r]) /\ CurrentOK(reader[r])
    BY <1>1 DEF Reading, IInv, ReadersOK, LoopOK, Idle
  <2>2. reader[r].page \in Seq(Entry) /\ i \in 1..Len(reader[r].page) /\ reader[r].page[i] \in Entry
    BY <2>1 DEF PageOK
  <2>3. reader[r].page[i].lines \in Seq(Line)
    BY <2>2 DEF Entry
  <2>4. PICK j \in 1..Len(reader[r].page[i].lines) : line = reader[r].page[i].lines[j]
    BY <2>3 DEF ToSet
  <2>5. LineOK(reader[r], line)
    BY <2>1, <2>2, <2>4 DEF CurrentOK
  <2> QED
    BY <1>1, <2>5 DEF LineOK
<1>2. IInv => CountersAreCurrent
  BY <1>1 DEF CountersAreCurrent
<1> QED
  BY <1>2, Invariance, PTL

-----------------------------------------------------------------------------
(***************************************************************************)
(* Sums, and the lengths of what is encoded.                               *)
(***************************************************************************)
\* Induction over the naturals, for a property given as a set.
LEMMA FromZero ==
    ASSUME NEW T, 0 \in T, \A i \in Nat : i \in T => i + 1 \in T
    PROVE  \A i \in Nat : i \in T
<1> DEFINE Missing == {i \in Nat : i \notin T}
<1>1. ASSUME Missing # {} PROVE FALSE
  <2>1. IsWellFoundedOn(OpToRel(<,Nat), Nat) /\ Missing \subseteq Nat
    BY NatLessThanWellFounded
  <2>2. PICK x \in Missing : \A y \in Missing : ~(<<y, x>> \in OpToRel(<,Nat))
    BY <1>1, <2>1, WFMin
  <2>3. x \in Nat /\ x # 0 /\ x \notin T
    BY <2>2
  <2>4. x - 1 \in Nat /\ x - 1 < x /\ (x - 1) + 1 = x
    BY <2>3
  <2>5. x - 1 \in T
    BY <2>2, <2>3, <2>4 DEF OpToRel
  <2> QED
    BY <2>3, <2>4, <2>5
<1> QED
  BY <1>1

Sums(g, s, n) == g = [i \in 0..n |-> IF i = 0 THEN 0 ELSE g[i - 1] + s[i]]

LEMMA SumsExist ==
    ASSUME NEW s, NEW n \in Nat
    PROVE  \E g : Sums(g, s, n)
<1> DEFINE T == {k \in Nat : \E g : Sums(g, s, k)}
<1>1. 0 \in T
  <2>1. Sums([i \in 0..0 |-> 0], s, 0)
    BY DEF Sums
  <2> QED
    BY <2>1
<1>2. ASSUME NEW k \in Nat, k \in T PROVE k + 1 \in T
  <2>1. PICK g : Sums(g, s, k)
    BY <1>2
  <2> DEFINE new == g[k] + s[k + 1]
             h == [i \in 0..(k + 1) |-> IF i = k + 1 THEN new ELSE g[i]]
  <2>2. ASSUME NEW i \in 0..(k + 1)
        PROVE  h[i] = IF i = 0 THEN 0 ELSE h[i - 1] + s[i]
    <3>1. CASE i = k + 1
      BY <3>1
    <3>2. CASE i # k + 1
      <4>1. i \in 0..k
        BY <3>2
      <4>2. g[i] = IF i = 0 THEN 0 ELSE g[i - 1] + s[i]
        BY <2>1, <4>1 DEF Sums
      <4>3. h[i] = g[i] /\ (i # 0 => h[i - 1] = g[i - 1])
        BY <3>2
      <4> QED
        BY <4>2, <4>3
    <3> QED
      BY <3>1, <3>2
  <2>3. Sums(h, s, k + 1)
    BY <2>2 DEF Sums
  <2> QED
    BY <2>3
<1> HIDE DEF T
<1>3. n \in T
  BY <1>1, <1>2, FromZero
<1> QED
  BY <1>3 DEF T

LEMMA TotalIs ==
    ASSUME NEW s, Len(s) \in Nat
    PROVE  \E g : /\ g[0] = 0 /\ \A i \in 1..Len(s) : g[i] = g[i - 1] + s[i]
                  /\ Total(s) = g[Len(s)]
<1> DEFINE g == CHOOSE f : Sums(f, s, Len(s))
           n == Len(s)
<1>1. Sums(g, s, n)
  BY SumsExist
<1>2. Total(s) = g[n]
  BY DEF Total, Sums
<1> HIDE DEF g, n
<1>3. \A i \in 0..n : g[i] = IF i = 0 THEN 0 ELSE g[i - 1] + s[i]
  BY <1>1 DEF Sums
<1>4. n \in Nat
  BY DEF n
<1>5. g[0] = 0 /\ \A i \in 1..n : g[i] = g[i - 1] + s[i]
  <2>1. 0 \in 0..n /\ \A i \in 1..n : i \in 0..n /\ i # 0
    BY <1>4
  <2> QED
    BY <1>3, <2>1
<1> QED
  BY <1>2, <1>5 DEF n

LEMMA TotalType ==
    ASSUME NEW s \in Seq(Nat)
    PROVE  Total(s) \in Nat
<1>1. Len(s) \in Nat /\ \A i \in 1..Len(s) : s[i] \in Nat
  BY LenProperties, ElementOfSeq
<1> DEFINE n == Len(s)
<1>2. PICK g : g[0] = 0 /\ (\A i \in 1..n : g[i] = g[i - 1] + s[i]) /\ Total(s) = g[n]
  BY <1>1, TotalIs
<1> DEFINE T == {k \in Nat : k <= n => g[k] \in Nat}
<1> HIDE DEF n
<1>3. 0 \in T
  BY <1>2
<1>4. ASSUME NEW k \in Nat, k \in T PROVE k + 1 \in T
  <2>1. SUFFICES ASSUME k + 1 <= n PROVE g[k + 1] \in Nat
    OBVIOUS
  <2>2. k + 1 \in 1..n /\ (k + 1) - 1 = k /\ k <= n
    BY <1>1, <2>1 DEF n
  <2>3. g[k + 1] = g[k] + s[k + 1]
    BY <1>2, <2>2
  <2>4. g[k] \in Nat /\ s[k + 1] \in Nat
    BY <1>1, <1>4, <2>2 DEF n
  <2>5. \A a, b \in Nat : a + b \in Nat
    OBVIOUS
  <2> QED
    BY <2>3, <2>4, <2>5
<1> HIDE DEF T
<1>5. n \in T /\ n <= n
  <2>1. n \in Nat
    BY <1>1 DEF n
  <2>2. \A k \in Nat : k \in T
    BY <1>3, <1>4, FromZero
  <2> QED
    BY <2>1, <2>2
<1> QED
  BY <1>2, <1>5 DEF T

\* A metric's name and its lines are longest with a number of three digits.
LEMMA LineLengths ==
    ASSUME NEW m \in Metrics
    PROVE  /\ \A v : LineLength(m, v) \in Nat /\ LineLength(m, v) <= LineLength(m, Largest)
           /\ \A b \in Nat : \A v : /\ CheckedLength(m, b, v) \in Nat /\ BucketLength(m, b, v) \in Nat
                                    /\ BucketLength(m, b, v) <= BucketLength(m, b, Largest)
<1> DEFINE labels == Owner[m].labels
           name == Profile[Owner[m].series].name
<1>1. labels \in Seq(Nat) /\ name \in Nat
  BY MetricsAssumption
<1>2. Len(labels) \in Nat /\ Total(labels) \in Nat
  BY <1>1, TotalType, LenProperties
<1>3. Digits(Largest) = 3 /\ \A v : Digits(v) \in 1..3
  BY DEF Digits, Largest
<1>4. NameWithLabels(m) \in Nat
  <2>1. labels # <<>> => Len(labels) - 1 \in Nat
    BY <1>1, <1>2, EmptySeq
  <2>2. (IF labels = <<>> THEN 0 ELSE Len(labels) - 1) \in Nat
    BY <2>1
  <2>3. \A a, b, c, d \in Nat : a + 2 + b * 3 + c + d \in Nat
    OBVIOUS
  <2> HIDE DEF labels, name
  <2>4. name + 2 + Len(labels) * 3 + Total(labels) + (IF labels = <<>> THEN 0 ELSE Len(labels) - 1) \in Nat
    BY <1>1, <1>2, <2>2, <2>3
  <2> QED
    BY <2>4 DEF NameWithLabels, labels, name
<1>5. ASSUME NEW v
      PROVE  LineLength(m, v) \in Nat /\ LineLength(m, v) <= LineLength(m, Largest)
  <2>1. \A a \in Nat : \A d \in 1..3 : a + 1 + d + 1 \in Nat /\ a + 1 + d + 1 <= a + 1 + 3 + 1
    OBVIOUS
  <2> QED
    BY <1>3, <1>4, <2>1 DEF LineLength
<1>6. ASSUME NEW b \in Nat, NEW v
      PROVE  /\ CheckedLength(m, b, v) \in Nat /\ BucketLength(m, b, v) \in Nat
             /\ BucketLength(m, b, v) <= BucketLength(m, b, Largest)
  <2>1. BoundLength(b) \in Nat
    <3>1. \A d \in 1..3 : d + 7 \in Nat
      OBVIOUS
    <3> QED
      BY <1>3, <3>1 DEF BoundLength
  <2>2. \A a, c \in Nat : \A d \in 1..3 :
            a + 7 + 4 + c + d + 1 \in Nat /\ a + 7 + 4 + c + d + 1 <= a + 7 + 4 + c + 3 + 1
    OBVIOUS
  <2> HIDE DEF name, labels
  <2>3. \A u : CheckedLength(m, b, u) = name + 7 + 4 + BoundLength(b) + Digits(u) + 1
    BY DEF CheckedLength, name
  <2>4. /\ CheckedLength(m, b, v) \in Nat /\ CheckedLength(m, b, Largest) \in Nat
        /\ CheckedLength(m, b, v) <= CheckedLength(m, b, Largest)
    <3>1. Digits(v) \in 1..3 /\ Digits(Largest) = 3
      BY <1>3
    <3>2. name \in Nat
      BY <1>1 DEF name
    <3> DEFINE c == BoundLength(b)
               d == Digits(v)
    <3> HIDE DEF c, d
    <3>3. /\ name + 7 + 4 + c + d + 1 \in Nat /\ name + 7 + 4 + c + 3 + 1 \in Nat
          /\ name + 7 + 4 + c + d + 1 <= name + 7 + 4 + c + 3 + 1
      <4>1. c \in Nat /\ d \in 1..3 /\ 3 \in 1..3
        BY <2>1, <3>1 DEF c, d
      <4> QED
        BY <2>2, <3>2, <4>1
    <3> QED
      BY <2>3, <3>1, <3>3 DEF c, d
  <2>5. \A a, c, t, l \in Nat : a <= c => /\ a + 2 + t + 4 * l + 2 \in Nat
                                          /\ a + 2 + t + 4 * l + 2 <= c + 2 + t + 4 * l + 2
    OBVIOUS
  <2>6. \A u : BucketLength(m, b, u) = CheckedLength(m, b, u) + 2 + Total(labels) + 4 * Len(labels) + 2
    BY DEF BucketLength, labels
  <2> QED
    BY <1>2, <2>4, <2>5, <2>6
<1> QED
  BY <1>5, <1>6

-----------------------------------------------------------------------------
(***************************************************************************)
(* The buffer of a histogram.  Doubling it ends, and does not shrink it.   *)
(***************************************************************************)
Doubles(f, need, used) ==
    f = [size \in Nat |-> IF need < size - used THEN size ELSE f[2 * size]]

\* The sizes from which k doublings are enough.
Near(k, need, used) == {size \in Nat : size = 0 \/ size + k > need + used}

LEMMA NearFacts ==
    ASSUME NEW need \in Nat, NEW used \in Nat
    PROVE  /\ \A k \in Nat : \A size \in Near(k, need, used) :
                 size \in Nat /\ size \in Near(k + 1, need, used) /\ 2 * size \in Near(k, need, used)
           /\ \A size \in Near(0, need, used) : size = 0 \/ need < size - used
           /\ \A k \in Nat : \A size \in Near(k + 1, need, used) :
                 size # 0 => 2 * size \in Near(k, need, used)
           /\ Near(need + used, need, used) = Nat
BY DEF Near

LEMMA DoublingExists ==
    ASSUME NEW need \in Nat, NEW used \in Nat
    PROVE  \E f : Doubles(f, need, used)
<1> DEFINE Within(k) == Near(k, need, used)
           Step(f, size) == IF need < size - used THEN size ELSE f[2 * size]
           T == {k \in Nat : \E f : f = [size \in Within(k) |-> Step(f, size)]}
<1>1. 0 \in T
  <2> DEFINE f == [size \in Within(0) |-> size]
  <2>1. \A size \in Within(0) : Step(f, size) = size
    <3>1. ASSUME NEW size \in Within(0), ~(need < size - used) PROVE f[2 * size] = size
      <4>1. size = 0 /\ 2 * size = size
        BY <3>1, NearFacts
      <4> QED
        BY <3>1, <4>1
    <3> QED
      BY <3>1
  <2>2. f = [size \in Within(0) |-> Step(f, size)]
    BY <2>1
  <2> QED
    BY <2>2
<1>2. ASSUME NEW k \in Nat, k \in T PROVE k + 1 \in T
  <2>1. PICK f : f = [size \in Within(k) |-> Step(f, size)]
    BY <1>2
  <2> DEFINE next == [size \in Within(k + 1) |-> IF size \in Within(k) THEN f[size] ELSE Step(f, size)]
  <2>2. \A size \in Within(k) : size \in Within(k + 1) /\ next[size] = f[size] /\ 2 * size \in Within(k)
    BY NearFacts
  <2>3. \A size \in Within(k + 1) : size \notin Within(k) => next[size] = Step(f, size) /\ size # 0
    BY DEF Near
  <2>4. next = [size \in Within(k + 1) |-> next[size]]
    OBVIOUS
  <2> HIDE DEF next
  <2>5. ASSUME NEW size \in Within(k + 1) PROVE next[size] = Step(next, size)
    <3>1. 2 * size \in Within(k)
      BY <2>2, <2>3, NearFacts
    <3>2. Step(next, size) = Step(f, size)
      BY <2>2, <3>1
    <3>3. CASE size \in Within(k)
      <4>1. f[size] = Step(f, size)
        BY <2>1, <3>3
      <4> QED
        BY <2>2, <3>2, <3>3, <4>1
    <3>4. CASE size \notin Within(k)
      BY <2>3, <3>2, <3>4
    <3> QED
      BY <3>3, <3>4
  <2>6. next = [size \in Within(k + 1) |-> Step(next, size)]
    BY <2>4, <2>5
  <2> QED
    BY <2>6
<1> HIDE DEF T
<1>3. need + used \in T
  <2>1. need + used \in Nat
    OBVIOUS
  <2> QED
    BY <1>1, <1>2, <2>1, FromZero
<1>4. PICK f : f = [size \in Within(need + used) |-> Step(f, size)]
  BY <1>3 DEF T
<1>5. Within(need + used) = Nat
  BY NearFacts
<1>6. Doubles(f, need, used)
  BY <1>4, <1>5 DEF Doubles
<1> QED
  BY <1>6

LEMMA DoublingGrows ==
    ASSUME NEW need \in Nat, NEW used \in Nat, NEW f, Doubles(f, need, used)
    PROVE  \A size \in Nat \ {0} : f[size] \in Nat /\ f[size] >= size
<1> DEFINE T == {k \in Nat : \A size \in Near(k, need, used) \ {0} : f[size] \in Nat /\ f[size] >= size}
<1>1. \A size \in Nat : f[size] = IF need < size - used THEN size ELSE f[2 * size]
  BY DEF Doubles
<1>2. 0 \in T
  <2>1. ASSUME NEW size \in Near(0, need, used) \ {0} PROVE f[size] = size /\ size \in Nat
    BY <1>1, <2>1 DEF Near
  <2> QED
    BY <2>1
<1>3. ASSUME NEW k \in Nat, k \in T PROVE k + 1 \in T
  <2>1. ASSUME NEW size \in Near(k + 1, need, used) \ {0} PROVE f[size] \in Nat /\ f[size] >= size
    <3>1. size \in Nat /\ size # 0 /\ 2 * size \in Near(k, need, used) \ {0} /\ 2 * size >= size
      BY <2>1, NearFacts DEF Near
    <3>2. f[2 * size] \in Nat /\ f[2 * size] >= 2 * size
      BY <1>3, <3>1
    <3>3. f[2 * size] >= size
      <4>1. \A a, b \in Nat : b >= 2 * a => b >= a
        OBVIOUS
      <4> QED
        BY <3>1, <3>2, <4>1
    <3>4. CASE need < size - used
      <4>1. f[size] = size
        BY <1>1, <3>1, <3>4
      <4> QED
        BY <3>1, <4>1
    <3>5. CASE ~(need < size - used)
      <4>1. f[size] = f[2 * size]
        BY <1>1, <3>1, <3>5
      <4> QED
        BY <3>2, <3>3, <4>1
    <3> QED
      BY <3>4, <3>5
  <2> QED
    BY <2>1
<1> HIDE DEF T
<1>4. need + used \in T
  <2>1. need + used \in Nat
    OBVIOUS
  <2> QED
    BY <1>2, <1>3, <2>1, FromZero
<1>5. \A size \in Near(need + used, need, used) \ {0} : f[size] \in Nat /\ f[size] >= size
  BY <1>4 DEF T
<1> QED
  BY <1>5, NearFacts

Buffer == [size : Nat \ {0}, used : Nat]

\* One bucket more takes its length, and leaves the buffer no smaller.
LEMMA BucketWritten ==
    ASSUME NEW buffer \in Buffer, NEW m \in Metrics, NEW b \in Nat, NEW v
    PROVE  /\ WithBucket(buffer, m, b, v) \in Buffer
           /\ WithBucket(buffer, m, b, v).size >= buffer.size
           /\ WithBucket(buffer, m, b, v).used = buffer.used + BucketLength(m, b, v)
<1> DEFINE need == CheckedLength(m, b, v)
           used == buffer.used
           f == CHOOSE f : Doubles(f, need, used)
<1>1. need \in Nat /\ BucketLength(m, b, v) \in Nat /\ used \in Nat /\ buffer.size \in Nat \ {0}
  BY LineLengths DEF Buffer
<1>2. WithBucket(buffer, m, b, v) =
          [size |-> f[buffer.size], used |-> buffer.used + BucketLength(m, b, v)]
  BY DEF WithBucket, Doubles
<1> HIDE DEF need, used
<1>3. Doubles(f, need, used)
  BY <1>1, DoublingExists
<1> HIDE DEF f
<1>4. f[buffer.size] \in Nat /\ f[buffer.size] >= buffer.size
  BY <1>1, <1>3, DoublingGrows
<1>5. \A x, y \in Nat : x >= y /\ y # 0 => x \in Nat \ {0}
  OBVIOUS
<1>6. f[buffer.size] \in Nat \ {0}
  BY <1>1, <1>4, <1>5
<1>7. buffer.used + BucketLength(m, b, v) \in Nat
  BY <1>1 DEF used
<1> QED
  BY <1>2, <1>4, <1>6, <1>7 DEF Buffer

Fills(g, m, shown) ==
    g = [b \in 0..NumBuckets |->
            IF b = 0 THEN [size |-> BufferSize, used |-> 0]
            ELSE IF Overrun(g[b - 1]) THEN g[b - 1]
            ELSE WithBucket(g[b - 1], m, b, shown[b])]

LEMMA FillingExists ==
    ASSUME NEW m, NEW shown
    PROVE  \E g : Fills(g, m, shown)
<1> DEFINE Step(g, b) == IF b = 0 THEN [size |-> BufferSize, used |-> 0]
                         ELSE IF Overrun(g[b - 1]) THEN g[b - 1]
                         ELSE WithBucket(g[b - 1], m, b, shown[b])
           T == {k \in Nat : \E g : g = [b \in 0..k |-> Step(g, b)]}
<1>1. 0 \in T
  <2> DEFINE g == [b \in 0..0 |-> [size |-> BufferSize, used |-> 0]]
  <2>1. g = [b \in 0..0 |-> Step(g, b)]
    OBVIOUS
  <2> QED
    BY <2>1
<1>2. ASSUME NEW k \in Nat, k \in T PROVE k + 1 \in T
  <2>1. PICK g : g = [b \in 0..k |-> Step(g, b)]
    BY <1>2
  <2> DEFINE next == [b \in 0..(k + 1) |-> IF b \in 0..k THEN g[b] ELSE Step(g, b)]
  <2>2. /\ \A b \in 0..k : b \in 0..(k + 1) /\ next[b] = g[b]
        /\ next[k + 1] = Step(g, k + 1) /\ next = [b \in 0..(k + 1) |-> next[b]]
    OBVIOUS
  <2> HIDE DEF next
  <2>3. ASSUME NEW b \in 0..(k + 1) PROVE next[b] = Step(next, b)
    <3>1. b # 0 => b - 1 \in 0..k
      OBVIOUS
    <3>2. b # 0 => next[b - 1] = g[b - 1]
      BY <2>2, <3>1
    <3>3. Step(next, b) = Step(g, b)
      BY <3>2
    <3>4. b \in 0..k => g[b] = Step(g, b)
      BY <2>1
    <3>5. b \in 0..k \/ b = k + 1
      OBVIOUS
    <3> HIDE DEF Step
    <3> QED
      BY <2>2, <3>3, <3>4, <3>5
  <2>4. next = [b \in 0..(k + 1) |-> Step(next, b)]
    BY <2>2, <2>3
  <2> QED
    BY <2>4
<1> HIDE DEF T
<1>3. NumBuckets \in T
  BY <1>1, <1>2, FromZero, MetricsAssumption
<1>4. PICK g : g = [b \in 0..NumBuckets |-> Step(g, b)]
  BY <1>3 DEF T
<1>5. Fills(g, m, shown)
  BY <1>4 DEF Fills
<1> QED
  BY <1>5

\* A histogram whose longest text fits a buffer nobody has doubled fits its own,
\* whatever it shows.
LEMMA HistogramFits ==
    ASSUME NEW m \in Histograms, Fits(m), NEW shown
    PROVE  /\ Buckets(m, shown).used \in Nat /\ Buckets(m, shown).used <= BufferSize
           /\ ~Overrun(Buckets(m, shown))
<1> DEFINE g == CHOOSE g : Fills(g, m, shown)
           longest == [b \in 1..NumBuckets |-> BucketLength(m, b, Largest)]
<1>1. Fills(g, m, shown)
  BY FillingExists
<1>2. Buckets(m, shown) = g[NumBuckets]
  BY DEF Buckets, Fills
<1> HIDE DEF g
<1>3. NumBuckets \in Nat /\ BufferSize \in Nat \ {0} /\ Len(longest) = NumBuckets
  BY MetricsAssumption
<1>4. m \in Metrics /\ Total(longest) <= BufferSize
  BY DEF Fits, Histograms
<1>5. /\ g[0] = [size |-> BufferSize, used |-> 0]
      /\ \A b \in 1..NumBuckets : g[b] = IF Overrun(g[b - 1]) THEN g[b - 1]
                                         ELSE WithBucket(g[b - 1], m, b, shown[b])
  <2>1. \A b \in 0..NumBuckets : g[b] =
            IF b = 0 THEN [size |-> BufferSize, used |-> 0]
            ELSE IF Overrun(g[b - 1]) THEN g[b - 1]
            ELSE WithBucket(g[b - 1], m, b, shown[b])
    BY <1>1 DEF Fills
  <2>2. 0 \in 0..NumBuckets /\ \A b \in 1..NumBuckets : b \in 0..NumBuckets /\ b # 0
    BY <1>3
  <2> QED
    BY <2>1, <2>2
<1>6. PICK t : /\ t[0] = 0 /\ \A b \in 1..NumBuckets : t[b] = t[b - 1] + longest[b]
               /\ Total(longest) = t[NumBuckets]
  <2>1. Len(longest) \in Nat
    BY <1>3
  <2> HIDE DEF longest
  <2>2. PICK t : /\ t[0] = 0 /\ \A b \in 1..Len(longest) : t[b] = t[b - 1] + longest[b]
                 /\ Total(longest) = t[Len(longest)]
    BY <2>1, TotalIs
  <2> QED
    BY <1>3, <2>2
<1>7. \A b \in 1..NumBuckets :
          /\ longest[b] \in Nat /\ BucketLength(m, b, shown[b]) \in Nat
          /\ BucketLength(m, b, shown[b]) <= longest[b]
  BY <1>4, LineLengths
<1> DEFINE n == NumBuckets
           T == {k \in Nat : k <= n => /\ g[k] \in Buffer /\ g[k].size >= BufferSize
                                       /\ t[k] \in Nat /\ g[k].used <= t[k]}
<1> HIDE DEF longest, n
<1>8. 0 \in T
  BY <1>3, <1>5, <1>6 DEF Buffer
<1>9. ASSUME NEW k \in Nat, k \in T PROVE k + 1 \in T
  <2>1. SUFFICES ASSUME k + 1 <= n
                 PROVE  /\ g[k + 1] \in Buffer /\ g[k + 1].size >= BufferSize
                        /\ t[k + 1] \in Nat /\ g[k + 1].used <= t[k + 1]
    OBVIOUS
  <2> DEFINE b == k + 1
             before == g[k]
  <2>2. b \in 1..NumBuckets /\ b - 1 = k /\ b \in Nat /\ k <= n
    BY <1>3, <2>1 DEF n
  <2>3. /\ before \in Buffer /\ before.size >= BufferSize
        /\ t[k] \in Nat /\ before.used <= t[k]
    BY <1>9, <2>2
  <2> HIDE DEF b
  <2>4. /\ t[b] = t[k] + longest[b]
        /\ g[b] = IF Overrun(before) THEN before ELSE WithBucket(before, m, b, shown[b])
    BY <1>5, <1>6, <2>2
  <2>5. /\ longest[b] \in Nat /\ BucketLength(m, b, shown[b]) \in Nat
        /\ BucketLength(m, b, shown[b]) <= longest[b]
    BY <1>7, <2>2
  <2> HIDE DEF before
  <2>6. before.used \in Nat /\ before.size \in Nat
    BY <2>3 DEF Buffer
  <2>7. \A w, x, y, z \in Nat :
            w <= x /\ y <= z => x + z \in Nat /\ w <= x + z /\ w + y <= x + z
    OBVIOUS
  <2>8. /\ t[k] + longest[b] \in Nat /\ before.used <= t[k] + longest[b]
        /\ before.used + BucketLength(m, b, shown[b]) <= t[k] + longest[b]
    BY <2>3, <2>5, <2>6, <2>7
  <2>9. CASE Overrun(before)
    BY <2>3, <2>4, <2>8, <2>9 DEF b
  <2>10. CASE ~Overrun(before)
    <3> DEFINE after == WithBucket(before, m, b, shown[b])
    <3>1. after \in Buffer /\ after.size >= before.size
          /\ after.used = before.used + BucketLength(m, b, shown[b])
      BY <1>4, <2>2, <2>3, BucketWritten
    <3> HIDE DEF after
    <3>2. g[b] = after
      BY <2>4, <2>10 DEF after
    <3>3. \A x, y, z \in Nat : x >= y /\ y >= z => x >= z
      OBVIOUS
    <3>4. after.size >= BufferSize
      <4>1. after.size \in Nat
        BY <3>1 DEF Buffer
      <4> QED
        BY <1>3, <2>3, <2>6, <3>1, <3>3, <4>1
    <3> QED
      BY <2>4, <2>8, <3>1, <3>2, <3>4 DEF b
  <2> QED
    BY <2>9, <2>10
<1> HIDE DEF T
<1>10. n \in T
  <2>1. n \in Nat
    BY <1>3 DEF n
  <2>2. \A k \in Nat : k \in T
    BY <1>8, <1>9, FromZero
  <2> QED
    BY <2>1, <2>2
<1>11. g[n] \in Buffer /\ g[n].size >= BufferSize /\ t[n] \in Nat /\ g[n].used <= t[n]
  <2>1. n <= n
    BY <1>3 DEF n
  <2> QED
    BY <1>10, <2>1 DEF T
<1>12. Buckets(m, shown) = g[n] /\ t[n] <= BufferSize
  BY <1>2, <1>4, <1>6 DEF n
<1>13. g[n].used \in Nat /\ g[n].size \in Nat
  BY <1>11 DEF Buffer
<1>14. \A w, x, y, z \in Nat : w <= x /\ x <= y /\ z >= y => w <= y /\ ~(w > z)
  OBVIOUS
<1>15. g[n].used <= BufferSize /\ ~(g[n].used > g[n].size)
  BY <1>3, <1>11, <1>12, <1>13, <1>14
<1> QED
  BY <1>12, <1>13, <1>15 DEF Overrun

\* A record below d_high has a bucket.
LEMMA BinHasBucket ==
    ASSUME NEW determinant \in Int, Low <= determinant, determinant < High
    PROVE  Bin(determinant) \in 1..NumBuckets
<1> DEFINE a == determinant - Low
           d == High - Low
           n == NumBuckets
           q == (a * n) \div d
<1>1. a \in Nat /\ d \in Nat \ {0} /\ n \in Nat \ {0} /\ a < d
  BY MetricsAssumption
<1> HIDE DEF a, d, n
<1>2. a * n \in Nat /\ a * n < d * n
  <2>1. a * n \in Nat
    BY <1>1
  <2>2. (d - a) * n >= 1 /\ d * n = a * n + (d - a) * n
    BY <1>1
  <2> QED
    BY <1>1, <2>1, <2>2
<1>3. q \in Nat /\ q * d <= a * n
  BY <1>1, <1>2
<1>4. q < n
  <2>1. SUFFICES ASSUME q >= n PROVE FALSE
    BY <1>1, <1>3
  <2>2. q * d >= n * d
    BY <1>1, <1>3, <2>1
  <2> QED
    BY <1>1, <1>2, <1>3, <2>2
<1>5. Bin(determinant) = 1 + q
  BY DEF Bin, a, d, n
<1> QED
  BY <1>1, <1>3, <1>4, <1>5 DEF n

-----------------------------------------------------------------------------
(***************************************************************************)
(* A program that makes no mistake.                                        *)
(***************************************************************************)
LoopCareful(l) ==
    /\ l.pc \in {"series", "metrics"} => l.moved = FALSE
    /\ l.pc = "metrics" =>
          /\ l.metricsMoved = FALSE
          /\ l.buffer \in Buffer /\ l.buffer.used <= l.buffer.size /\ BufferSize <= l.buffer.size

CarefulOK ==
    careless = {} =>
        /\ undefined = FALSE
        /\ \A i \in 1..Len(d_series) : MetadataFits(d_series[i])
        /\ \A s \in Series : \A j \in 1..Len(d_metrics[s]) : Fits(d_metrics[s][j])
        /\ \A m \in Histograms : d_buckets[m] # <<>>
        /\ \A r \in Readers : LoopCareful(reader[r])

LEMMA FreshBuckets ==
    ASSUME NEW S, NEW f \in [1..NumBuckets -> S]
    PROVE  f # <<>>
<1>1. 1 \in DOMAIN f
  BY MetricsAssumption
<1>2. DOMAIN <<>> = {}
  OBVIOUS
<1> QED
  BY <1>1, <1>2

\* Who registers while a page is made is not careful.
LEMMA NewSeriesCareful ==
    ASSUME Types, ReadersOK, CarefulOK, NEW s \in Series, NEW moves \in BOOLEAN, NewSeries(s, moves)
    PROVE  CarefulOK'
<1> SUFFICES ASSUME careless' = {} PROVE CarefulOK'
  BY DEF CarefulOK
<1>1. careless = {} /\ Reading = {} /\ MetadataFits(s)
  BY DEF NewSeries, Call, RegisteredDuringRead
<1>2. reader' = reader
  BY <1>1 DEF NewSeries, ReadersOK
<1>3. /\ d_series' = Append(d_series, s) /\ UNCHANGED <<d_metrics, d_buckets, undefined>>
  BY DEF NewSeries
<1>4. \A i \in 1..Len(d_series') : MetadataFits(d_series'[i])
  <2>1. d_series \in Seq(Series)
    BY DEF Types
  <2>2. /\ Len(d_series') = Len(d_series) + 1 /\ Len(d_series) \in Nat
        /\ d_series'[Len(d_series) + 1] = s
        /\ \A i \in 1..Len(d_series) : d_series'[i] = d_series[i]
    BY <1>3, <2>1, AppendProperties, LenProperties
  <2>3. \A i \in 1..Len(d_series) : MetadataFits(d_series[i])
    BY <1>1 DEF CarefulOK
  <2>4. ASSUME NEW i \in 1..Len(d_series') PROVE i \in 1..Len(d_series) \/ i = Len(d_series) + 1
    BY <2>2
  <2> QED
    BY <1>1, <2>2, <2>3, <2>4
<1> QED
  BY <1>1, <1>2, <1>3, <1>4 DEF CarefulOK

LEMMA NewMetricCareful ==
    ASSUME Types, ReadersOK, CarefulOK, NEW m \in Metrics, NEW moves \in BOOLEAN, NewMetric(m, moves)
    PROVE  CarefulOK'
<1> SUFFICES ASSUME careless' = {} PROVE CarefulOK'
  BY DEF CarefulOK
<1> DEFINE s == Owner[m].series
<1>1. careless = {} /\ Reading = {} /\ Fits(m)
  BY DEF NewMetric, Call, RegisteredDuringRead
<1>2. reader' = reader
  <2>1. \A r \in Readers : reader[r].pc = "idle"
    BY <1>1 DEF Reading
  <2> QED
    BY <2>1 DEF NewMetric, ReadersOK
<1>3. d_metrics' = [d_metrics EXCEPT ![s] = Append(@, m)] /\ UNCHANGED <<d_series, d_buckets, undefined>>
  BY DEF NewMetric, Pushed
<1>4. ASSUME NEW z \in Series, NEW j \in 1..Len(d_metrics'[z]) PROVE Fits(d_metrics'[z][j])
  <2>1. d_metrics \in [Series -> Seq(Metrics)]
    BY DEF Types
  <2>2. \A i \in 1..Len(d_metrics[z]) : Fits(d_metrics[z][i])
    BY <1>1 DEF CarefulOK
  <2>3. CASE z # s
    BY <1>3, <1>4, <2>1, <2>2, <2>3
  <2>4. CASE z = s
    <3> DEFINE before == d_metrics[z]
    <3>1. d_metrics'[z] = Append(before, m) /\ before \in Seq(Metrics)
      BY <1>3, <2>1, <2>4
    <3> HIDE DEF before
    <3>2. /\ Len(d_metrics'[z]) = Len(before) + 1 /\ Len(before) \in Nat
          /\ d_metrics'[z][Len(before) + 1] = m
          /\ \A i \in 1..Len(before) : d_metrics'[z][i] = before[i]
      BY <3>1, AppendProperties, LenProperties
    <3>3. j \in 1..Len(before) \/ j = Len(before) + 1
      BY <1>4, <3>2
    <3> QED
      BY <1>1, <2>2, <3>2, <3>3 DEF before
  <2> QED
    BY <2>3, <2>4
<1> QED
  BY <1>1, <1>2, <1>3, <1>4 DEF CarefulOK

LEMMA BucketsCareful ==
    ASSUME Types, Types', CarefulOK, NEW m \in Histograms,
           (\E determinant \in (Low - 1)..(High + 1), v \in Values : Record(m, determinant, v)) \/ Reset(m)
    PROVE  CarefulOK'
<1> SUFFICES ASSUME careless' = {} PROVE CarefulOK'
  BY DEF CarefulOK
<1>1. ~Reset(m)
  BY DEF Reset, Call
<1>2. PICK determinant \in (Low - 1)..(High + 1), v \in Values : Record(m, determinant, v)
  BY <1>1
<1>3. /\ careless = {} /\ determinant # High
      /\ UNCHANGED <<d_series, d_metrics, reader>>
  BY <1>2 DEF Record, Call
<1>4. \A h \in Histograms : d_buckets[h] \in [1..NumBuckets -> Values \cup {0}]
  BY <1>3 DEF CarefulOK, Types
<1>5. (\A h \in Histograms : d_buckets'[h] # <<>>) /\ UNCHANGED undefined
  <2>1. CASE determinant < Low \/ determinant > High
    BY <1>2, <1>3, <2>1 DEF Record, CarefulOK
  <2>2. CASE ~(determinant < Low \/ determinant > High)
    <3>1. determinant \in Int /\ Low <= determinant /\ determinant < High
      BY <1>3, <2>2, MetricsAssumption
    <3>2. Bin(determinant) \in 1..NumBuckets
      BY <3>1, BinHasBucket
    <3> DEFINE bin == Bin(determinant)
    <3>3. bin \in DOMAIN d_buckets[m]
      BY <1>4, <3>2
    <3>4. d_buckets' = [d_buckets EXCEPT ![m][bin] = v] /\ UNCHANGED undefined
      BY <1>2, <2>2, <3>3 DEF Record
    <3> HIDE DEF bin
    <3>5. ASSUME NEW h \in Histograms PROVE d_buckets'[h] # <<>>
      <4>1. DOMAIN d_buckets'[h] = DOMAIN d_buckets[h]
        BY <3>4 DEF Types
      <4>2. 1 \in DOMAIN d_buckets'[h]
        BY <1>4, <4>1, MetricsAssumption
      <4> QED
        BY <4>2
    <3> QED
      BY <3>4, <3>5
  <2> QED
    BY <2>1, <2>2
<1> QED
  BY <1>3, <1>5 DEF CarefulOK

\* A step of one loop that leaves it careful, and nothing undefined.
LEMMA ReaderCareful ==
    ASSUME ReadersOK, CarefulOK, NEW r \in Readers, UNCHANGED <<state, undefined, history>>,
           NEW l, reader' = [reader EXCEPT ![r] = l], careless = {} => LoopCareful(l)
    PROVE  CarefulOK'
<1>1. \A u \in Readers : reader'[u] = IF u = r THEN l ELSE reader[u]
  BY DEF ReadersOK
<1>2. UNCHANGED <<d_series, d_metrics, d_buckets, undefined, careless>>
  BY DEF state, history
<1> SUFFICES ASSUME careless = {} PROVE CarefulOK'
  BY <1>2 DEF CarefulOK
<1>3. ASSUME NEW u \in Readers PROVE LoopCareful(reader'[u])
  BY <1>1 DEF CarefulOK
<1>4. \A u \in Readers : LoopCareful(reader[u])'
  BY <1>3 DEF LoopCareful
<1> QED
  BY <1>2, <1>4 DEF CarefulOK

LEMMA BeginSeriesCareful ==
    ASSUME Types, ReadersOK, CarefulOK, NEW r \in Readers, BeginSeries(r)
    PROVE  CarefulOK'
<1> DEFINE loop == reader[r]
           s == d_series[loop.next]
           buffer == [size |-> BufferSize, used |-> MetadataLength(s)]
           l == [pc |-> "metrics", next |-> loop.next, end |-> loop.end,
                 moved |-> loop.moved, began |-> loop.began,
                 page |-> Append(loop.page, [series |-> s, lines |-> <<>>]),
                 series |-> s, nextMetric |-> 1, endMetric |-> Len(d_metrics[s]),
                 metricsMoved |-> FALSE, buffer |-> buffer]
<1> SUFFICES ASSUME careless' = {} PROVE CarefulOK'
  BY DEF CarefulOK
<1>1. careless = {} /\ loop.pc = "series" /\ loop.next <= loop.end
  BY DEF BeginSeries, Undefine, history
<1>2. loop.moved = FALSE
  BY <1>1 DEF CarefulOK, LoopCareful
<1>3. PlaceOK(loop)
  BY <1>1 DEF ReadersOK, LoopOK, Idle
<1>4. loop.next \in 1..Len(d_series) /\ s \in Series
  <2>1. loop.next \in Nat \ {0} /\ loop.end \in Nat /\ loop.end <= Len(d_series) /\ Len(d_series) \in Nat
    BY <1>3 DEF PlaceOK, Types
  <2>2. loop.next \in 1..Len(d_series)
    BY <1>1, <2>1
  <2> QED
    BY <2>2 DEF Types
<1>5. MetadataLength(s) \in Nat /\ MetadataLength(s) <= BufferSize
  <2>1. MetadataFits(s)
    BY <1>1, <1>4 DEF CarefulOK
  <2>2. MetadataLength(s) \in Nat
    <3>1. /\ Profile[s].name \in Nat /\ Profile[s].unit \in Nat /\ Profile[s].summary \in Nat
          /\ TypeLength(Profile[s].kind) \in Nat
      BY <1>4, MetricsAssumption DEF TypeLength
    <3>2. (IF Profile[s].summary > 0 THEN 1 + Profile[s].summary ELSE 0) \in Nat
      BY <3>1
    <3>3. \A a, b, c, d \in Nat : (7 + a + b + 1) + (7 + a + 1 + c + 1) + (7 + a + 1 + d + 1) \in Nat
      OBVIOUS
    <3> QED
      BY <3>1, <3>2, <3>3 DEF MetadataLength
  <2> QED
    BY <2>1, <2>2 DEF MetadataFits
<1>6. buffer \in Buffer /\ ~Overrun(buffer) /\ buffer.used <= buffer.size /\ BufferSize <= buffer.size
  BY <1>5, MetricsAssumption DEF Buffer, Overrun
<1>7. reader' = [reader EXCEPT ![r] = l] /\ UNCHANGED <<state, undefined, history>>
  BY <1>2, <1>6 DEF BeginSeries
<1>8. l.pc = "metrics" /\ l.moved = FALSE /\ l.metricsMoved = FALSE /\ l.buffer = buffer
  BY <1>2
<1> HIDE DEF l, buffer
<1>9. LoopCareful(l)
  BY <1>6, <1>8 DEF LoopCareful
<1> QED
  BY <1>7, <1>9, ReaderCareful

\* One doubling makes room for a metric that fits a whole buffer.
LEMMA MetricFits ==
    ASSUME NEW buffer \in Buffer, buffer.used <= buffer.size, BufferSize <= buffer.size,
           NEW length \in Nat, length <= BufferSize
    PROVE  LET after == WithMetric(buffer, length)
           IN  /\ after \in Buffer /\ ~Overrun(after)
               /\ after.used <= after.size /\ BufferSize <= after.size
<1> DEFINE size == buffer.size
           used == buffer.used
<1>1. size \in Nat \ {0} /\ used \in Nat /\ BufferSize \in Nat
  BY MetricsAssumption DEF Buffer
<1>2. WithMetric(buffer, length) =
          [size |-> IF used + length > size THEN 2 * size ELSE size, used |-> used + length]
  BY DEF WithMetric, Resized
<1>3. used <= size /\ BufferSize <= size
  OBVIOUS
<1> HIDE DEF size, used
<1>4. CASE used + length > size
  BY <1>1, <1>2, <1>3, <1>4 DEF Buffer, Overrun
<1>5. CASE ~(used + length > size)
  BY <1>1, <1>2, <1>3, <1>5 DEF Buffer, Overrun
<1> QED
  BY <1>4, <1>5

LEMMA EncodeMetricCareful ==
    ASSUME Types, ReadersOK, CarefulOK, NEW r \in Readers, EncodeMetric(r)
    PROVE  CarefulOK'
<1> DEFINE loop == reader[r]
           n == Len(loop.page)
           s == loop.series
           m == d_metrics[s][loop.nextMetric]
           shown == Shown(m)
           line == [metric |-> m, shown |-> shown]
           buffer == WithMetric(loop.buffer, Length(m, shown))
           l == [loop EXCEPT !.nextMetric = @ + 1, !.buffer = buffer, !.page[n].lines = Append(@, line)]
<1> SUFFICES ASSUME careless' = {} PROVE CarefulOK'
  BY DEF CarefulOK
<1>1. careless = {} /\ loop.pc = "metrics" /\ loop.nextMetric <= loop.endMetric
  BY DEF EncodeMetric, Undefine, history
<1>2. /\ loop.moved = FALSE /\ loop.metricsMoved = FALSE
      /\ loop.buffer \in Buffer /\ loop.buffer.used <= loop.buffer.size /\ BufferSize <= loop.buffer.size
  BY <1>1 DEF CarefulOK, LoopCareful
<1>3. PlaceOK(loop) /\ IsMetricsLoop(loop)
  BY <1>1 DEF ReadersOK, LoopOK, Idle, IsSeriesLoop
<1>4. s \in Series /\ loop.nextMetric \in 1..Len(d_metrics[s]) /\ m \in Metrics
  <2>1. /\ s \in Series /\ loop.nextMetric \in Nat \ {0} /\ loop.endMetric \in Nat
        /\ loop.endMetric <= Len(d_metrics[s])
    BY <1>1, <1>3 DEF PlaceOK
  <2>2. d_metrics[s] \in Seq(Metrics)
    BY <2>1 DEF Types
  <2>3. Len(d_metrics[s]) \in Nat
    BY <2>2, LenProperties
  <2> HIDE DEF loop, s
  <2>4. loop.nextMetric \in 1..Len(d_metrics[s])
    BY <1>1, <2>1, <2>3
  <2> QED
    BY <2>1, <2>2, <2>4, ElementOfSeq
<1>5. Fits(m)
  BY <1>1, <1>4 DEF CarefulOK
<1>6. /\ ~(m \in Histograms /\ (shown = <<>> \/ Overrun(Buckets(m, shown))))
      /\ Length(m, shown) \in Nat /\ Length(m, shown) <= BufferSize
  <2>1. CASE m \in Histograms
    <3>1. shown # <<>>
      BY <1>1, <2>1 DEF Shown, CarefulOK
    <3> HIDE DEF m, shown
    <3>2. /\ Buckets(m, shown).used \in Nat /\ Buckets(m, shown).used <= BufferSize
          /\ ~Overrun(Buckets(m, shown))
      BY <1>5, <2>1, HistogramFits
    <3> QED
      BY <2>1, <3>1, <3>2 DEF Length
  <2>2. CASE m \notin Histograms
    <3> HIDE DEF m, shown
    <3>1. /\ LineLength(m, shown) \in Nat /\ LineLength(m, Largest) \in Nat
          /\ LineLength(m, shown) <= LineLength(m, Largest)
      BY <1>4, LineLengths
    <3>2. LineLength(m, Largest) <= BufferSize /\ BufferSize \in Nat
      BY <1>5, MetricsAssumption DEF Fits
    <3>3. \A a, b, c \in Nat : a <= b /\ b <= c => a <= c
      OBVIOUS
    <3>4. LineLength(m, shown) <= BufferSize
      BY <3>1, <3>2, <3>3
    <3> QED
      BY <2>2, <3>1, <3>4 DEF Length
  <2> QED
    BY <2>1, <2>2
<1>7. /\ buffer \in Buffer /\ ~Overrun(buffer)
      /\ buffer.used <= buffer.size /\ BufferSize <= buffer.size
  BY <1>2, <1>6, MetricFits
<1>8. /\ reader' = [reader EXCEPT ![r].nextMetric = @ + 1, ![r].buffer = buffer,
                                  ![r].page[n].lines = Append(@, line)]
      /\ UNCHANGED <<state, undefined, history>>
  <2>1. ~loop.metricsMoved
    BY <1>2
  <2> HIDE DEF Buffer
  <2> QED
    BY <1>6, <1>7, <2>1, Zenon DEF EncodeMetric
<1>9. reader' = [reader EXCEPT ![r] = l]
  <2> HIDE DEF buffer, line, n
  <2> QED
    BY <1>8 DEF ReadersOK
<1>10. l.pc = "metrics" /\ l.moved = FALSE /\ l.metricsMoved = FALSE /\ l.buffer = buffer
  <2> HIDE DEF buffer, line, n
  <2> QED
    BY <1>1, <1>2, <1>3 DEF IsMetricsLoop
<1> HIDE DEF l, buffer
<1>11. LoopCareful(l)
  BY <1>7, <1>10 DEF LoopCareful
<1> QED
  BY <1>8, <1>9, <1>11, ReaderCareful

LEMMA CarefulInv == IInv /\ IInv' /\ CarefulOK /\ [Next]_vars => CarefulOK'
<1> SUFFICES ASSUME IInv, IInv', CarefulOK, [Next]_vars PROVE CarefulOK'
  OBVIOUS
<1>1. Types /\ Types' /\ ReadersOK
  BY DEF IInv
<1>2. ASSUME UNCHANGED <<d_series, d_metrics, d_buckets, undefined, reader>>, careless \subseteq careless'
      PROVE  CarefulOK'
  <2>1. careless' = {} => careless = {}
    BY <1>2
  <2> QED
    BY <1>2, <2>1 DEF CarefulOK, LoopCareful
<1>3. CASE UNCHANGED vars
  BY <1>2, <1>3 DEF vars, state, history
<1>4. ASSUME NEW s \in Series, NEW moves \in BOOLEAN, NewSeries(s, moves) PROVE CarefulOK'
  BY <1>1, <1>4, NewSeriesCareful
<1>5. ASSUME NEW m \in Metrics, NEW moves \in BOOLEAN, NewMetric(m, moves) PROVE CarefulOK'
  BY <1>1, <1>5, NewMetricCareful
<1>6. ASSUME NEW t \in Threads, Store(t) \/ \E m \in Counters : Load(t, m) PROVE CarefulOK'
  BY <1>2, <1>6 DEF Store, Load, Call, state
<1>7. ASSUME NEW m \in Gauges, NEW v \in Values, Set(m, v) PROVE CarefulOK'
  BY <1>2, <1>7 DEF Set, Call
<1>8. ASSUME NEW m \in Histograms,
             (\E determinant \in (Low - 1)..(High + 1), v \in Values : Record(m, determinant, v)) \/ Reset(m)
      PROVE  CarefulOK'
  BY <1>1, <1>8, BucketsCareful
<1>9. ASSUME NEW r \in Readers, Request(r) PROVE CarefulOK'
  <2> DEFINE l == [pc |-> "series", next |-> 1, end |-> Len(d_series), moved |-> FALSE, page |-> <<>>,
                   began |-> [series |-> d_series, metrics |-> d_metrics, returned |-> returned]]
  <2>1. reader' = [reader EXCEPT ![r] = l] /\ UNCHANGED <<state, undefined, history>>
    BY <1>9 DEF Request
  <2>2. LoopCareful(l)
    BY DEF LoopCareful
  <2> QED
    BY <1>1, <2>1, <2>2, ReaderCareful
<1>10. ASSUME NEW r \in Readers, EndSeries(r) PROVE CarefulOK'
  <2> DEFINE loop == reader[r]
             l == [pc |-> "series", next |-> loop.next + 1, end |-> loop.end, moved |-> loop.moved,
                   page |-> loop.page, began |-> loop.began]
  <2>1. reader' = [reader EXCEPT ![r] = l] /\ UNCHANGED <<state, undefined, history>> /\ loop.pc = "metrics"
    BY <1>10 DEF EndSeries
  <2>2. careless = {} => loop.moved = FALSE
    BY <2>1 DEF CarefulOK, LoopCareful
  <2>3. careless = {} => LoopCareful(l)
    BY <2>2 DEF LoopCareful
  <2> QED
    BY <1>1, <2>1, <2>3, ReaderCareful
<1>11. ASSUME NEW r \in Readers, Respond(r) PROVE CarefulOK'
  <2>1. reader' = [reader EXCEPT ![r] = Idle] /\ UNCHANGED <<state, undefined, history>>
    BY <1>11 DEF Respond
  <2>2. LoopCareful(Idle)
    BY DEF LoopCareful, Idle
  <2> QED
    BY <1>1, <2>1, <2>2, ReaderCareful
<1>12. ASSUME NEW r \in Readers, BeginSeries(r) \/ EncodeMetric(r) PROVE CarefulOK'
  BY <1>1, <1>12, BeginSeriesCareful, EncodeMetricCareful
<1> QED
  BY <1>3, <1>4, <1>5, <1>6, <1>7, <1>8, <1>9, <1>10, <1>11, <1>12 DEF Next

\* A careful program does nothing undefined: what it registers fits the buffers, each
\* bucket and each metric in its turn, and what it records has a bucket, for any
\* series, metrics, labels and size of buffer.
THEOREM CarefulUse == Spec => []CarefulUseIsDefined
<1>1. Init => CarefulOK
  <2> SUFFICES ASSUME Init PROVE CarefulOK
    OBVIOUS
  <2>1. \A m \in Histograms : d_buckets[m] # <<>>
    <3>1. Fresh \in [1..NumBuckets -> {0}]
      BY DEF Fresh
    <3>2. Fresh # <<>>
      BY <3>1, FreshBuckets
    <3> QED
      BY <3>2 DEF Init
  <2>2. \A r \in Readers : LoopCareful(reader[r])
    BY DEF Init, LoopCareful, Idle
  <2> QED
    BY <2>1, <2>2 DEF Init, CarefulOK
<1>2. CarefulOK => CarefulUseIsDefined
  BY DEF CarefulOK, CarefulUseIsDefined
<1> QED
  BY <1>1, <1>2, CarefulInv, Invariance, PTL DEF Spec
=============================================================================
