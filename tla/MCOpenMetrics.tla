---------------------------- MODULE MCOpenMetrics ----------------------------
(***************************************************************************)
(* Instance of OpenMetrics for TLC, with the buffer of the source: the     *)
(* metadata of one series and one of its two metrics fill it, so that the  *)
(* second has it doubled.  The buckets of two histograms do not fit it:     *)
(* "tape" has its own doubled, "net" writes past its end.                  *)
(***************************************************************************)
EXTENDS OpenMetrics

SomeSeries == {"requests", "load", "latency"}
SomeProfile ==
    "requests" :> [kind |-> "counter", name |-> 20, unit |-> 7, summary |-> 800]
        @@ "load" :> [kind |-> "gauge", name |-> 12, unit |-> 7, summary |-> 0]
        @@ "latency" :> [kind |-> "gaugehistogram", name |-> 12, unit |-> 7, summary |-> 40]

SomeMetrics == {"get", "put", "cpu", "disk", "tape", "net"}
SomeOwner ==
    "get" :> [series |-> "requests", labels |-> <<60>>]
        @@ "put" :> [series |-> "requests", labels |-> <<20, 40>>]
        @@ "cpu" :> [series |-> "load", labels |-> <<>>]
        @@ "disk" :> [series |-> "latency", labels |-> <<20>>]
        @@ "tape" :> [series |-> "latency", labels |-> <<240, 222>>]
        @@ "net" :> [series |-> "latency", labels |-> <<200, 200>>]
=============================================================================
