------------------------------- MODULE Metrics -------------------------------
(***************************************************************************)
(* The metrics registry: a counter and a histogram that are recorded       *)
(* together (record_http_request and its like), and their rendering for    *)
(* GET /metrics.  The registry's lock makes each of them one step.  Values *)
(* are the small numbers 0 .. MaxValue; which label names a series is      *)
(* made of is left out.                                                    *)
(*                                                                         *)
(* Bound: MaxObservations observations of a series.                             *)
(***************************************************************************)
EXTENDS Naturals, Sequences, SequencesExt

CONSTANTS
    Series,            \* label values in use
    Buckets,           \* the upper bounds of the buckets, rising
    MaxValue,
    MaxObservations

VARIABLES
    total,       \* the counter of a series
    histogram,   \* its HistogramValue; the sum is left out
    rendered     \* what the last GET /metrics said

vars == <<total, histogram, rendered>>

EmptyHistogram == [count |-> 0, bucket_counts |-> [i \in DOMAIN Buckets |-> 0]]

\* observe: every bucket whose bound the value does not exceed.
Observe(h, v) ==
    [count |-> h.count + 1,
     bucket_counts |-> [i \in DOMAIN Buckets |->
        IF v <= Buckets[i] THEN h.bucket_counts[i] + 1 ELSE h.bucket_counts[i]]]

\* render: the running sum of the bucket counts, then the count.
Render(s) ==
    [total  |-> total[s],
     bucket |-> [i \in DOMAIN Buckets |->
        FoldLeft(LAMBDA sum, n : sum + n, 0, SubSeq(histogram[s].bucket_counts, 1, i))],
     inf    |-> histogram[s].count,
     count  |-> histogram[s].count]

Record(s, v) ==
    /\ total[s] < MaxObservations
    /\ total' = [total EXCEPT ![s] = @ + 1]
    /\ histogram' = [histogram EXCEPT ![s] = Observe(@, v)]
    /\ UNCHANGED rendered

Scrape ==
    /\ rendered' = [s \in Series |-> Render(s)]
    /\ UNCHANGED <<total, histogram>>

Init ==
    /\ total = [s \in Series |-> 0]
    /\ histogram = [s \in Series |-> EmptyHistogram]
    /\ rendered = [s \in Series |-> Render(s)]

Next ==
    \/ \E s \in Series, v \in 0 .. MaxValue : Record(s, v)
    \/ Scrape

Spec == Init /\ [][Next]_vars

-----------------------------------------------------------------------------
\* Prometheus-style metrics: the bucket of a bound counts some of all the observations.
RenderedBuckets ==
    \A s \in Series : \A i \in DOMAIN Buckets : rendered[s].bucket[i] <= rendered[s].count
=============================================================================
