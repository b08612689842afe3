------------------------ MODULE ExponentialHistogram ------------------------
(***************************************************************************)
(* One data point of an exponential histogram (opentelemetry-sdk/src/      *)
(* metrics/internal/exponential_histogram.rs): counts in consecutive bins  *)
(* whose width is a power of two of the scale, which is lowered when a     *)
(* value would not fit in max_size bins.                                   *)
(*                                                                         *)
(* A value other than zero is its sign and the index of its bin at the     *)
(* largest scale; at a lower scale, get_bin gives that index shifted       *)
(* right, since a bin there is a union of bins here.  Scales are counted   *)
(* from the smallest one.  Sum, minimum and maximum are left out, and with *)
(* them the panic of a debug build in which the sum of integers overflows. *)
(*                                                                         *)
(* The distance of two bins is an i32 in the code, and at the largest      *)
(* scale two values of f64 can be further apart: then a debug build panics *)
(* in scale_change, and in a release build the distance wraps to a         *)
(* negative one, nothing is rescaled, and ExpoBuckets::record panics for   *)
(* the capacity it asks for.  Either way the mutex that makes an operation *)
(* one step is poisoned.                                                   *)
(*                                                                         *)
(* A definition marked as a slip is not part of the model: it is a wrong   *)
(* form of the definition after it, which the properties must reject.      *)
(***************************************************************************)
EXTENDS Integers, Sequences, SequencesExt, FiniteSetsExt

CONSTANTS
    ExpoMaxScale,            \* EXPO_MAX_SCALE - EXPO_MIN_SCALE: 30 in the code
    ExpoMaxSizes,            \* the values of max_size
    ExpoBelow, ExpoAbove,    \* the bins of the values at the largest scale
    ExpoIntLimit,            \* the first distance that i32 does not have: 2^31
    ExpoMaxCount             \* bound on the measurements of one data point

ASSUME ExpoAssumption ==
    /\ ExpoMaxSizes \subseteq Nat \ {0} /\ ExpoIntLimit \in Nat \ {0}
    /\ {ExpoMaxScale, ExpoBelow, ExpoAbove, ExpoMaxCount} \subseteq Nat

VARIABLES
    maxSize, scale, expoCount, zeroCount,   \* ExpoHistogramDataPoint
    buckets,      \* pos_buckets and neg_buckets: the first bin and the counts
    poisoned,     \* the mutex around the data point is poisoned
    kept,         \* history: how often each value went into the buckets
    underflows,   \* history: measurements dropped by a scale underflow
    panicked      \* history: the values whose measurement panicked

expoVars == <<maxSize, scale, expoCount, zeroCount, buckets, poisoned, kept, underflows, panicked>>

ExpoIndices == (-ExpoBelow)..ExpoAbove
Signs == {"pos", "neg"}
NoBuckets == [sign \in Signs |-> [start |-> 0, counts |-> <<>>]]
NoValuesKept == [sign \in Signs |-> [x \in ExpoIndices |-> 0]]

PowerOf2[n \in Nat] == IF n = 0 THEN 1 ELSE 2 * PowerOf2[n - 1]
ShiftRight(x, n) == x \div PowerOf2[n]
GetBin(x, atScale) == ShiftRight(x, ExpoMaxScale - atScale)
EndBin(b) == b.start + Len(b.counts) - 1

(* The bins to hold: one inside leaves the others, which fit, out of it. *)
RangeWith(b, bin) == IF b.start >= bin THEN <<bin, EndBin(b)>> ELSE <<b.start, bin>>

TooFar(b, bin) ==
    LET range == RangeWith(b, bin) IN b.counts # <<>> /\ range[2] - range[1] >= ExpoIntLimit

(* scale_change: the least shift under which the range fits, or one too many. *)
ScaleChange(b, bin) ==
    LET range == RangeWith(b, bin)
        fits == {n \in 0..ExpoMaxScale : ShiftRight(range[2], n) - ShiftRight(range[1], n) < maxSize}
    IN IF b.counts = <<>> THEN 0 ELSE Min(fits \cup {ExpoMaxScale + 1})

(* Slip: the first bin is taken for the first of its group. *)
AlignedOffset(b, steps) == 0
GroupOffset(b, steps) == b.start % steps

(* ExpoBuckets::downscale: groups of bins are merged in place. *)
Grouping(b, n) ==
    LET steps == PowerOf2[n] IN [steps |-> steps, offset |-> GroupOffset(b, steps)]
Merge(group, counts, i) ==
    LET at == i + group.offset
    IN [counts EXCEPT ![at \div group.steps + 1] =
            counts[i + 1] + (IF at % group.steps = 0 THEN 0 ELSE @)]
Merged(group, counts, places) ==
    FoldLeft(LAMBDA merged, i : Merge(group, merged, i), counts, places)
Downscale(b, n) ==
    LET group == Grouping(b, n)
        last == Len(b.counts) - 1
    IN [start |-> ShiftRight(b.start, n),
        counts |-> IF last <= 0 THEN b.counts
                   ELSE SubSeq(Merged(group, b.counts, [i \in 1..last |-> i]),
                               1, (last + group.offset) \div group.steps + 1)]

(* ExpoBuckets::record: the counts grow to the new bin on either side. *)
CountIn(b, bin) ==
    IF b.counts = <<>> THEN [start |-> bin, counts |-> <<1>>]
    ELSE LET low == Min({b.start, bin})
             high == Max({EndBin(b), bin})
             old(at) == IF at \in b.start..EndBin(b) THEN b.counts[at - b.start + 1] ELSE 0
         IN [start |-> low,
             counts |-> [i \in 1..(high - low + 1) |->
                            old(low + i - 1) + (IF low + i - 1 = bin THEN 1 ELSE 0)]]

ExpoInit ==
    /\ maxSize \in ExpoMaxSizes
    /\ scale = ExpoMaxScale /\ expoCount = 0 /\ zeroCount = 0 /\ buckets = NoBuckets
    /\ kept = NoValuesKept /\ underflows = 0 /\ poisoned = FALSE /\ panicked = {}

(* Aggregator::update: a measurement that finds the mutex poisoned is lost. *)
Update ==
    /\ ~poisoned /\ expoCount < ExpoMaxCount
    /\ expoCount' = expoCount + 1

(* ExpoHistogramDataPoint::record *)
RecordZero ==
    /\ Update
    /\ zeroCount' = zeroCount + 1
    /\ UNCHANGED <<maxSize, scale, buckets, poisoned, kept, underflows, panicked>>

RecordValue(sign, x) ==
    /\ Update
    /\ ~TooFar(buckets[sign], GetBin(x, scale))
    /\ LET change == ScaleChange(buckets[sign], GetBin(x, scale))
           scaled == [s \in Signs |-> Downscale(buckets[s], change)]
       IN IF scale - change < 0
          THEN underflows' = underflows + 1 /\ UNCHANGED <<scale, buckets, kept>>
          ELSE /\ scale' = scale - change
               /\ buckets' = [scaled EXCEPT ![sign] = CountIn(@, GetBin(x, scale - change))]
               /\ kept' = [kept EXCEPT ![sign][x] = @ + 1]
               /\ UNCHANGED underflows
    /\ UNCHANGED <<maxSize, zeroCount, poisoned, panicked>>

RecordTooFar(sign, x) ==
    /\ Update
    /\ TooFar(buckets[sign], GetBin(x, scale))
    /\ poisoned' = TRUE /\ panicked' = panicked \cup {<<sign, x>>}
    /\ UNCHANGED <<maxSize, scale, zeroCount, buckets, kept, underflows>>

(* clone_and_reset, by a delta collection, takes the data out of a poisoned *)
(* mutex.  The point of no attributes keeps its mutex for the next cycle,   *)
(* any other one is made anew.                                              *)
ResetPoint ==
    /\ scale' = ExpoMaxScale /\ expoCount' = 0 /\ zeroCount' = 0 /\ buckets' = NoBuckets
    /\ kept' = NoValuesKept /\ underflows' = 0 /\ panicked' = {}
    /\ poisoned' \in {poisoned, FALSE}
    /\ UNCHANGED maxSize

ExpoNext ==
    \/ RecordZero
    \/ \E sign \in Signs, x \in ExpoIndices : RecordValue(sign, x) \/ RecordTooFar(sign, x)
    \/ ResetPoint

ExpoSpec == ExpoInit /\ [][ExpoNext]_expoVars

-----------------------------------------------------------------------------
ValuesKept(sign) == {x \in ExpoIndices : kept[sign][x] > 0}
BinsAt(sign, atScale) == {GetBin(x, atScale) : x \in ValuesKept(sign)}
KeptIn(sign, bin) ==
    MapThenSumSet(LAMBDA x : kept[sign][x], {x \in ExpoIndices : GetBin(x, scale) = bin})
KeptTotal == [sign \in Signs |-> MapThenSumSet(LAMBDA x : kept[sign][x], ExpoIndices)]
FitsAt(atScale) ==
    \A sign \in Signs :
        \/ ValuesKept(sign) = {}
        \/ Max(BinsAt(sign, atScale)) - Min(BinsAt(sign, atScale)) < maxSize
SortedInto(sign, b) ==
    IF ValuesKept(sign) = {} THEN b.counts = <<>>
    ELSE /\ b.start = Min(BinsAt(sign, scale)) /\ EndBin(b) = Max(BinsAt(sign, scale))
         /\ \A i \in DOMAIN b.counts : b.counts[i] = KeptIn(sign, b.start + i - 1)

(* Whatever the order of the values and of the changes of scale, the        *)
(* buckets are what sorting all values into bins at the present scale would *)
(* give, in at most max_size bins of either sign; the scale is the largest  *)
(* at which that is so.  What is counted and missing was dropped by a scale *)
(* underflow, or panicked: at most one value, and one too far for an i32    *)
(* from a value in the buckets.                                             *)
BucketsExact ==
    /\ \A sign \in Signs : SortedInto(sign, buckets[sign])
    /\ FitsAt(scale)
    /\ scale < ExpoMaxScale => ~FitsAt(scale + 1)
    /\ expoCount = zeroCount + underflows + Cardinality(panicked)
                     + MapThenSumSet(LAMBDA sign : KeptTotal[sign], Signs)
    /\ Cardinality(panicked) <= 1
    /\ \A p \in panicked : \E y \in ValuesKept(p[1]) : \/ p[2] - y >= ExpoIntLimit
                                                      \/ y - p[2] >= ExpoIntLimit
=============================================================================
