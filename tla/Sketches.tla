------------------------------ MODULE Sketches ------------------------------
(***************************************************************************)
(* Two summaries that are smaller than what they sum up.                   *)
(*                                                                         *)
(* SmallLfuSketch (src/utils/smallLfu.js): a count-min sketch of 4-bit     *)
(* counters, two to a byte.  Index says which counter of a row counts a    *)
(* key.  How many increments a period has depends on a cardinality         *)
(* estimate, so a period may end at any increment.                         *)
(*                                                                         *)
(* PowerHistogram (src/helpers/powerHistogram.js): a DDSketch, which keeps *)
(* how many samples fell between two powers of gamma, and the running      *)
(* totals of its buckets from one question to the next.  Its sum is        *)
(* floating-point arithmetic and left out.                                 *)
(***************************************************************************)
EXTENDS Integers, Sequences, FiniteSets

LOCAL INSTANCE SequencesExt
LOCAL INSTANCE Functions

CONSTANTS SKeys, Depth, Width, Column   \* Column[row][key] \in 0..Width-1

ASSUME LfuSketchConstants ==
  /\ IsFiniteSet(SKeys) /\ Depth \in 1..8 /\ Width \in {2, 4, 8}
  /\ Column \in [0..Depth - 1 -> [SKeys -> 0..Width - 1]]

VARIABLES
  bytes,    \* counters
  seen      \* history: for each key a counter of its own, with the same cap and halving

svars == << bytes, seen >>
Rows == 0..Depth - 1
Bytes == 0..(Width * Depth) \div 2 - 1

Zeroes == [b \in Bytes |-> 0]
SInit == bytes = Zeroes /\ seen = [k \in SKeys |-> 0]

Index(key, row) == row * Width + Column[row][key]
Counter(i) == IF i % 2 = 1 THEN bytes[i \div 2] \div 16 ELSE bytes[i \div 2] % 16

\* What _set leaves of the byte of index i.
SetNibble(byte, i, value) ==
  IF i % 2 = 1 THEN (byte % 16) + 16 * (value % 16) ELSE (byte \div 16) * 16 + (value % 16)

Estimate(key) ==
  LET all == { Counter(Index(key, row)) : row \in Rows }
  IN  CHOOSE v \in all : \A u \in all : v <= u

\* The rows of a key have different bytes or different nibbles: each is counted once.
Incremented(key) ==
  LET hit == { Index(key, row) : row \in Rows }
      after(b, i) == IF i \in hit /\ Counter(i) < 15 THEN Counter(i) + 1 ELSE Counter(i)
  IN  [b \in Bytes |-> SetNibble(SetNibble(bytes[b], 2 * b, after(b, 2 * b)), 2 * b + 1, after(b, 2 * b + 1))]

\* Bug: the low nibble's mask lets a bit of the high one in.
HalveByteWide(b) == ((b \div 2) % 16) + 16 * ((b \div 32) % 8)

\* ((b >>> 1) & 0x07) | (((b >>> 5) & 0x07) << 4)
HalveByte(b) == ((b \div 2) % 8) + 16 * ((b \div 32) % 8)

Halved(f) == [b \in Bytes |-> HalveByte(f[b])]

Counted(key) == [seen EXCEPT ![key] = IF @ < 15 THEN @ + 1 ELSE @]

Increment(key) ==
  /\ bytes' = Incremented(key)
  /\ seen' = Counted(key)

\* The increment that ends the period.
IncrementAndReset(key) ==
  /\ bytes' = Halved(Incremented(key))
  /\ seen' = [k \in SKeys |-> Counted(key)[k] \div 2]

ClearSketch == bytes # Zeroes /\ bytes' = Zeroes /\ seen' = [k \in SKeys |-> 0]

SNext == (\E key \in SKeys : Increment(key) \/ IncrementAndReset(key)) \/ ClearSketch

\* A key is never estimated below its own count, and a key that shares no row with all of
\* the others not above it: packing, saturating and halving confuse no two counters.
EstimatesAreSound ==
  \A key \in SKeys :
    /\ Estimate(key) >= seen[key]
    /\ (\E row \in Rows : \A k \in SKeys \ {key} : Column[row][k] # Column[row][key])
         => Estimate(key) <= seen[key]

-----------------------------------------------------------------------------
(* PowerHistogram                                                          *)

CONSTANTS
  Gamma,          \* (1 + alpha) / (1 - alpha), where alpha is relativeAccuracy
  Samples,        \* the values that are recorded
  Infinite,       \* stands for Infinity among them
  MaxSamples,     \* bound on the samples of one histogram
  Quantiles,      \* the percentiles that are asked for
  Histograms, Unordered

ASSUME HistogramConstants ==
  /\ Gamma \in Nat \ {0, 1} /\ Samples \subseteq 0..Infinite /\ MaxSamples \in Nat
  /\ Quantiles \subseteq 1..100 /\ IsFiniteSet(Histograms)

VARIABLES
  hist,      \* the histograms
  recorded   \* history: how often each value was recorded

histVars == << hist, recorded >>

Power[i \in Nat] == IF i = 0 THEN 1 ELSE Gamma * Power[i - 1]
Indices == 0..CHOOSE i \in 0..Infinite : Power[i] >= Infinite /\ \A j \in 0..i - 1 : Power[j] < Infinite

\* _index(): v lies above the power of gamma before this one, and not above this one.
BucketIndex(v) == CHOOSE i \in Indices : v <= Power[i] /\ \A j \in 0..i - 1 : Power[j] < v

NewHistogram ==
  [ buckets |-> [i \in Indices |-> 0], zeros |-> 0, infs |-> 0, total |-> 0,
    least |-> Infinite, most |-> -1, order |-> Unordered ]

HistInit ==
  /\ hist = [h \in Histograms |-> NewHistogram]
  /\ recorded = [h \in Histograms |-> [v \in Samples |-> 0]]

\* _bucketOrder(): the buckets in use in ascending order, and how many samples are in
\* each of them and the ones before.
BucketOrder(h) ==
  LET used == SetToSortSeq({i \in Indices : h.buckets[i] > 0}, <)
  IN  IF h.order # Unordered THEN h.order
      ELSE [ indices |-> used,
             prefix  |-> [n \in DOMAIN used |-> FoldFunctionOnSet(+, 0, h.buckets, Range(SubSeq(used, 1, n)))] ]

\* record()
Sampled(h, v) ==
  LET valued == [h EXCEPT !.total = @ + 1, !.least = IF v < @ THEN v ELSE @,
                         !.most = IF v > @ THEN v ELSE @]
  IN  CASE v = 0        -> [valued EXCEPT !.zeros = @ + 1]
        [] v = Infinite -> [h EXCEPT !.total = @ + 1, !.infs = @ + 1]
        [] OTHER        -> [valued EXCEPT !.buckets[BucketIndex(v)] = @ + 1, !.order = Unordered]

\* Bug: the totals of before are kept.
MergedWithOldOrder(h, other) ==
  [ buckets |-> [i \in Indices |-> h.buckets[i] + other.buckets[i]],
    zeros |-> h.zeros + other.zeros, infs |-> h.infs + other.infs, total |-> h.total + other.total,
    least |-> IF other.least < h.least THEN other.least ELSE h.least,
    most |-> IF other.most > h.most THEN other.most ELSE h.most,
    order |-> h.order ]

\* merge()
Merged(h, other) ==
  [ buckets |-> [i \in Indices |-> h.buckets[i] + other.buckets[i]],
    zeros |-> h.zeros + other.zeros, infs |-> h.infs + other.infs, total |-> h.total + other.total,
    least |-> IF other.least < h.least THEN other.least ELSE h.least,
    most |-> IF other.most > h.most THEN other.most ELSE h.most,
    order |-> Unordered ]

\* fromJSON(toJSON())
Copied(h) == [h EXCEPT !.order = Unordered]

\* percentile(q / 100), times 1 + gamma.
PercentileOf(h, q) ==
  LET sorted  == BucketOrder(h)
      n       == Len(sorted.indices)
      reached == {i \in 1..n : 100 * (h.zeros + sorted.prefix[i]) >= q * h.total}
      first   == CHOOSE i \in reached : \A j \in reached : i <= j
      value   == 2 * Power[sorted.indices[first]]
      clamped == CASE value < (1 + Gamma) * h.least -> (1 + Gamma) * h.least
                   [] value > (1 + Gamma) * h.most  -> (1 + Gamma) * h.most
                   [] OTHER -> value
  IN  IF h.zeros > 0 /\ q * h.total <= 100 * h.zeros THEN 0
      ELSE IF reached # {} THEN clamped
      ELSE (1 + Gamma) * IF h.infs > 0 THEN Infinite ELSE h.most

\* countAtOrBelow() of a power of gamma, where no bucket has to be shared.
CountUpTo(h, k) ==
  LET sorted == BucketOrder(h)
      below  == {i \in DOMAIN sorted.indices : sorted.indices[i] < k}
      inside == IF k \in Range(sorted.indices) THEN h.buckets[k] ELSE 0
  IN  h.zeros + inside + IF below = {} THEN 0 ELSE sorted.prefix[Cardinality(below)]

Many(h) == FoldFunction(+, 0, recorded[h])

RecordSample(h, v) ==
  /\ Many(h) < MaxSamples
  /\ hist' = [hist EXCEPT ![h] = Sampled(@, v)]
  /\ recorded' = [recorded EXCEPT ![h][v] = @ + 1]

MergeHistograms(h, g) ==
  /\ Many(h) + Many(g) <= MaxSamples
  /\ hist' = [hist EXCEPT ![h] = Merged(@, hist[g])]
  /\ recorded' = [recorded EXCEPT ![h] = [v \in Samples |-> @[v] + recorded[g][v]]]

\* A histogram sent to another worker.
SendHistogram(h, g) ==
  /\ hist' = [hist EXCEPT ![g] = Copied(hist[h])]
  /\ recorded' = [recorded EXCEPT ![g] = recorded[h]]

\* A percentile is asked for, and the order is kept for the next one.
Ask(h) ==
  /\ hist[h].total > 0
  /\ hist' = [hist EXCEPT ![h].order = BucketOrder(hist[h])]
  /\ UNCHANGED recorded

ResetHistogram(h) ==
  /\ hist' = [hist EXCEPT ![h] = NewHistogram]
  /\ recorded' = [recorded EXCEPT ![h] = [v \in Samples |-> 0]]

HistNext ==
  \E h \in Histograms :
    \/ \E v \in Samples : RecordSample(h, v)
    \/ \E g \in Histograms : MergeHistograms(h, g) \/ (g # h /\ SendHistogram(h, g))
    \/ Ask(h) \/ ResetHistogram(h)

UpTo(h, x) == FoldFunctionOnSet(+, 0, recorded[h], {v \in Samples : v <= x})

\* Whatever was recorded, merged, sent and asked before: a percentile is within the
\* relative accuracy (gamma - 1) / (gamma + 1) of the sample that has that rank, the ends and
\* infinity are exact, and the samples up to a power of gamma are counted exactly.
QuantilesAreClose ==
  \A h \in Histograms :
    /\ hist[h].total = Many(h)
    /\ Many(h) > 0 => \A q \in Quantiles :
         LET rank  == {v \in Samples : 100 * UpTo(h, v) >= q * Many(h)}
             exact == CHOOSE v \in rank : \A u \in rank : v <= u
             error == PercentileOf(hist[h], q) - (1 + Gamma) * exact
         IN  IF exact \in {0, Infinite} THEN error = 0
             ELSE error \in -(Gamma - 1) * exact..(Gamma - 1) * exact
    /\ \A k \in Indices : Power[k] < Infinite => CountUpTo(hist[h], k) = UpTo(h, Power[k])
=============================================================================
