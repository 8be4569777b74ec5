---------------------------- MODULE LatencyMetrics ----------------------------
(***************************************************************************)
(* generator/src/metrics.ts: what a run reports of its requests, and how   *)
(* the reports of its worker threads become one.                           *)
(*                                                                         *)
(* Latencies are whole milliseconds, and the rest of a Metrics is its two  *)
(* counts.  The mean is left as its sum; elapsedMs and rpsActual, which    *)
(* need a clock, are left out.                                             *)
(***************************************************************************)
EXTENDS Integers, Sequences, SequencesExt, FiniteSets, FiniteSetsExt

\* p50, p90, p99 and p999, in thousandths.
Ranks == {500, 900, 990, 999}

Smaller(a, b) == IF a < b THEN a ELSE b

\* percentile(); TLA+ counts from one.
Percentile(sorted, p) ==
  sorted[Smaller((Len(sorted) * p) \div 1000, Len(sorted) - 1) + 1]

\* A latency goes after those that are no larger.
Insert(sorted, latency) ==
  LET n == CHOOSE n \in 0..Len(sorted) :
             /\ \A i \in 1..n : sorted[i] <= latency
             /\ n < Len(sorted) => sorted[n + 1] > latency
  IN  InsertAt(sorted, n + 1, latency)

\* The sort, by insertion, as the order is all that tells one sort from another.
Sorted(latencies) ==
  LET sort[n \in 0..Len(latencies)] ==
        IF n = 0 THEN <<>> ELSE Insert(sort[n - 1], latencies[n])
  IN  sort[Len(latencies)]

Sum(numbers) == FoldSeq(+, 0, numbers)

NoRequests ==
  [total |-> 0, success |-> 0, error |-> 0, percentiles |-> [p \in Ranks |-> 0],
   min |-> 0, max |-> 0, sum |-> 0]

Snapshot(sorted, success, error) ==
  IF sorted = <<>> THEN NoRequests
  ELSE [total |-> Len(sorted), success |-> success, error |-> error,
        percentiles |-> [p \in Ranks |-> Percentile(sorted, p)],
        min |-> Head(sorted), max |-> Last(sorted), sum |-> Sum(sorted)]

\* Metrics.result()
Result(latencies, success, error) ==
  [snapshot  |-> Snapshot(Sorted(latencies), success, error),
   latencies |-> Sorted(latencies)]

\* A fault: a worker is represented by the percentiles it reported.
PoolReported(results) ==
  FlattenSeq([i \in DOMAIN results |->
    [j \in DOMAIN results[i].latencies |-> results[i].snapshot.percentiles[500]]])

\* The latencies of all workers.
Pool(results) == FlattenSeq([i \in DOMAIN results |-> results[i].latencies])

\* Metrics.merge()
Merge(results) ==
  IF Len(results) = 1 THEN results[1].snapshot
  ELSE Snapshot(Sorted(Pool(results)),
                Sum([i \in DOMAIN results |-> results[i].snapshot.success]),
                Sum([i \in DOMAIN results |-> results[i].snapshot.error]))
=============================================================================
