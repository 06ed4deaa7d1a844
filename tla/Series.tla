--------------------------------- MODULE Series ----------------------------------
(***************************************************************************)
(* The numbers behind the dashboard's ribbon (netdbg_server/api/series.py) *)
(* for one probe and one target: the share of good samples in each bucket  *)
(* of the queried window, and the worst share among the bucket's           *)
(* sub-buckets.  Latencies and names are left out.                         *)
(***************************************************************************)
EXTENDS Integers, FiniteSetsExt

CONSTANTS
    TargetBuckets,     \* _TARGET_BUCKETS
    MinBucket,         \* _MIN_BUCKET_MS
    WorstSub,          \* _WORST_SUB_MS
    WorstMinSamples    \* _WORST_MIN_SAMPLES

ASSUME SeriesConstants ==
    /\ {TargetBuckets, MinBucket, WorstSub, WorstMinSamples} \subseteq Nat \ {0}
    /\ MinBucket <= WorstSub
    /\ WorstMinSamples > 1

BucketMs(from, to) == Max({MinBucket, Max({1, to - from}) \div TargetBuckets})

\* Mutant: the sub-bucket is as wide as the bucket.
SubMsCoarse(bucket) == bucket

SubMs(bucket) == Min({bucket, Max({MinBucket, WorstSub})})

FloorTo(ts, width) == (ts \div width) * width

\* In thousandths, as the answer rounds them.
Rate(ok, n) == (2000 * ok + n) \div (2 * n)

\* The colour of a rate on the dashboard (web/static/app.js).
StatusOf(rate) ==
    CASE rate >= 750 -> "good"
      [] rate \in 500 .. 749 -> "warning"
      [] rate \in 150 .. 499 -> "serious"
      [] OTHER -> "critical"

\* Mutant: every sub-bucket counts.
CountsFrail(n) == n > 0

\* Whether a sub-bucket of n samples counts for the worst.
Counts(n) == n >= WorstMinSamples

Bucketed(rows, from, to) ==
    LET bucket == BucketMs(from, to)
        sub == SubMs(bucket)
        queried == {i \in DOMAIN rows : from <= rows[i].ts /\ rows[i].ts <= to}
        cut(in, width) == {{i \in in : FloorTo(rows[i].ts, width) = b} :
                              b \in {FloorTo(rows[i].ts, width) : i \in in}}
        rate(in) == Rate(Cardinality({i \in in : rows[i].success}), Cardinality(in))
    IN  {[bucket_ts |-> FloorTo(rows[Min(in)].ts, bucket),
          okRate |-> rate(in),
          worst |-> Min({1000} \cup {rate(g) : g \in {h \in cut(in, sub) : Counts(Cardinality(h))}})] :
            in \in cut(queried, bucket)}
=============================================================================
