--------------------------- MODULE MetricsWindow ---------------------------
(***************************************************************************)
(* The latency percentiles of the metrics endpoint: Metrics.record and     *)
(* Metrics.snapshot (api/metrics.py) over a window of the last samples.    *)
(***************************************************************************)
EXTENDS Lists

CONSTANTS
    Sizes,       \* values of max_samples
    Starts(_),   \* the latencies recorded so far when a window of that size is first looked at
    Latencies,   \* those of the next requests
    MaxBeyond    \* bound: requests beyond the size of the window

ASSUME MetricsAssumption ==
    /\ Sizes \subseteq Nat \ {0}
    /\ Latencies \subseteq Nat
    /\ \A n \in Sizes : Starts(n) \subseteq Seq(Nat)
    /\ MaxBeyond \in Nat

VARIABLES
    maxlen,      \* of the deque
    latencies,   \* the deque
    recorded,    \* history: every latency, in order
    shown        \* what the last snapshot returned

metricsVars == <<maxlen, latencies, recorded, shown>>

LastOf(s) == SubSeq(s, (IF Len(s) > maxlen THEN Len(s) - maxlen ELSE 0) + 1, Len(s))

MetricsInit ==
    /\ maxlen \in Sizes
    /\ recorded \in Starts(maxlen)
    /\ latencies = LastOf(recorded)
    /\ shown = [p50 |-> 0, p95 |-> 0]

\* appending to a full deque drops its oldest sample
record(latency) ==
    /\ Len(recorded) < maxlen + MaxBeyond
    /\ recorded' = Append(recorded, latency)
    /\ latencies' = LastOf(Append(latencies, latency))
    /\ UNCHANGED <<maxlen, shown>>

\* Mutant: the ranks count from one.
percentileFromOne(percent) ==
    LET lats == Sorted(latencies, latencies)
        total == Len(lats)
        index == (percent * total) \div 100
    IN  IF total = 0 THEN 0 ELSE lats[IF index = 0 THEN total ELSE index]

\* lats[int(total * share)] of the sorted samples, the last one at most
percentile(percent) ==
    LET lats == Sorted(latencies, latencies)
        total == Len(lats)
        index == (percent * total) \div 100
    IN  IF total = 0 THEN 0 ELSE lats[(IF index < total THEN index ELSE total - 1) + 1]

snapshot ==
    /\ shown' = [p50 |-> percentile(50), p95 |-> percentile(95)]
    /\ UNCHANGED <<maxlen, latencies, recorded>>

MetricsNext == snapshot \/ \E latency \in Latencies : record(latency)

MetricsSpec == MetricsInit /\ [][MetricsNext]_metricsVars

----------------------------------------------------------------------------
(* Properties *)

\* v has percent % of the samples s at or below it, and the rest at or above it
IsPercentile(v, percent, s) ==
    /\ 100 * Cardinality({i \in DOMAIN s : s[i] <= v}) >= percent * Len(s)
    /\ 100 * Cardinality({i \in DOMAIN s : s[i] >= v}) >= (100 - percent) * Len(s)

\* What a snapshot shows are percentiles of the most recent max_samples requests, no
\* older one counts and none of them is left out, whatever their number (the index into
\* the sorted deque; the latency_ms of the metrics endpoint).
ShownArePercentiles ==
    [][shown' # shown /\ recorded # <<>> =>
          /\ IsPercentile(shown'.p50, 50, LastOf(recorded))
          /\ IsPercentile(shown'.p95, 95, LastOf(recorded))]_metricsVars
=============================================================================
