-------------------------------- MODULE Feed --------------------------------
(***************************************************************************)
(* Bars and feed integrity (core/data): one symbol's tape folded into      *)
(* 10-second and 1-minute bars at once, and the detector of a stale feed.  *)
(* Prints may arrive late and out of order; a flush may come at any time.  *)
(***************************************************************************)
EXTENDS Integers, Sequences, FiniteSets, FiniteSetsExt, SequencesExt

CONSTANTS
    PrintTimes,     \* seconds of the day at which prints happen
    PrintPrices,
    MaxPrints,      \* bound: prints
    MaxFlushes,     \* bound: flushes
    Staleness,      \* FEED_STALENESS_SECONDS
    SlowStaleness   \* a threshold set for a key of its own

ASSUME FeedAssumption ==
    /\ PrintTimes \subseteq Nat /\ PrintPrices \subseteq Nat
    /\ {MaxPrints, MaxFlushes, Staleness, SlowStaleness} \subseteq Nat

VARIABLES
    fdBuilders,     \* the two bar builders
    fdBars,         \* the bars they emitted
    fdPrints,       \* every print, with the builders that left it out (history)
    fdFlushes,      \* flushes so far
    fdLast,         \* the latest timestamp recorded, per key
    fdChecked       \* the last stale check: [key, now, stale]

barVars == <<fdBuilders, fdBars, fdPrints, fdFlushes>>
staleVars == <<fdLast, fdChecked>>
feedVars == <<barVars, staleVars>>

Timeframes == {"10s", "1m"}
TimeframeSeconds == [tf \in Timeframes |-> IF tf = "10s" THEN 10 ELSE 60]
BucketStart(t, tf) == t - (t % TimeframeSeconds[tf])

None == -1
Keys == {"tape", "bars"}
Threshold(key) == IF key = "bars" THEN SlowStaleness ELSE Staleness

EmptyBar == [volume |-> 0]
FeedInit ==
    /\ fdBuilders = [tf \in Timeframes |-> [bucket |-> None, bar |-> EmptyBar]]
    /\ fdBars = [tf \in Timeframes |-> <<>>]
    /\ fdPrints = <<>> /\ fdFlushes = 0
    /\ fdLast = [key \in Keys |-> None]
    /\ fdChecked = [key |-> "tape", now |-> 0, stale |-> TRUE]

-----------------------------------------------------------------------------

FirstPrint(price) == [open |-> price, high |-> price, low |-> price, close |-> price, volume |-> 1]

Folded(bar, price) ==
    IF bar = EmptyBar THEN FirstPrint(price)
    ELSE [bar EXCEPT !.high = Max({@, price}), !.low = Min({@, price}), !.close = price,
                     !.volume = @ + 1]

Late(builder, bucket) == builder.bucket # None /\ bucket < builder.bucket

\* Mutation: the bar that was emitted goes on in the next bucket.
KeepsBar(builder) == builder

\* What is left of the builder when its bar is emitted.
Finalized(builder) == [builder EXCEPT !.bar = EmptyBar]

OnPrint(builder, bucket, price) ==
    LET next == IF builder.bucket # None /\ bucket > builder.bucket THEN Finalized(builder) ELSE builder
    IN  IF Late(builder, bucket) THEN builder
        ELSE [bucket |-> bucket, bar |-> Folded(next.bar, price)]

\* The bar a builder emits; none if it holds no print.
Emitted(builder) ==
    IF builder.bar = EmptyBar THEN <<>> ELSE <<[ts |-> builder.bucket, bar |-> builder.bar]>>

EmittedBy(builder, bucket) ==
    IF builder.bucket # None /\ bucket > builder.bucket THEN Emitted(builder) ELSE <<>>

\* One print fans out to both builders.
OnTape ==
    /\ Len(fdPrints) < MaxPrints
    /\ \E t \in PrintTimes, price \in PrintPrices :
          LET bucket == [tf \in Timeframes |-> BucketStart(t, tf)]
          IN  /\ fdBuilders' = [tf \in Timeframes |-> OnPrint(fdBuilders[tf], bucket[tf], price)]
              /\ fdBars' = [tf \in Timeframes |-> fdBars[tf] \o EmittedBy(fdBuilders[tf], bucket[tf])]
              /\ fdPrints' = Append(fdPrints, [ts |-> t, price |-> price,
                                 late |-> {tf \in Timeframes : Late(fdBuilders[tf], bucket[tf])}])
    /\ UNCHANGED <<fdFlushes, staleVars>>

\* The bucket stays: a print of it that is still to come opens it again.
Flush ==
    /\ fdFlushes < MaxFlushes /\ fdFlushes' = fdFlushes + 1
    /\ fdBars' = [tf \in Timeframes |-> fdBars[tf] \o Emitted(fdBuilders[tf])]
    /\ fdBuilders' = [tf \in Timeframes |-> Finalized(fdBuilders[tf])]
    /\ UNCHANGED <<fdPrints, staleVars>>

\* A late timestamp does not move the clock of a key back.
RecordSeen ==
    /\ \E key \in Keys, t \in PrintTimes : fdLast' = [fdLast EXCEPT ![key] = Max({@, t})]
    /\ UNCHANGED <<barVars, fdChecked>>

IsStale(key, now) == fdLast[key] = None \/ now - fdLast[key] > Threshold(key)

CheckStale ==
    /\ \E key \in Keys, now \in PrintTimes :
          fdChecked' = [key |-> key, now |-> now, stale |-> IsStale(key, now)]
    /\ UNCHANGED <<barVars, fdLast>>

BarsNext == OnTape \/ Flush
StaleNext == RecordSeen \/ CheckStale

FeedSpec == FeedInit /\ [][BarsNext \/ StaleNext]_feedVars

-----------------------------------------------------------------------------

BarsOf(tf) == fdBars[tf] \o Emitted(fdBuilders[tf])
Within(bars, minute) == {i \in DOMAIN bars : BucketStart(bars[i].ts, "1m") = minute}
VolumeWithin(bars, minute) ==
    SumFunctionOnSet([i \in DOMAIN bars |-> bars[i].bar.volume], Within(bars, minute))
Covers(wide, bar) == bar.high <= wide.high /\ bar.low >= wide.low

Minutes == {BucketStart(t, "1m") : t \in PrintTimes}
Missed(minute) == {i \in DOMAIN fdPrints : /\ BucketStart(fdPrints[i].ts, "1m") = minute
                                           /\ fdPrints[i].late = {"10s"}}

\* The two series of one tape tell the same story, whatever the order of the
\* prints and the flushes: the 10-second bars of a minute stay within its range,
\* and their volume is the minute's but for the prints that were late for them.
SeriesAgree ==
    \A minute \in Minutes :
        /\ VolumeWithin(BarsOf("1m"), minute)
              = VolumeWithin(BarsOf("10s"), minute) + Cardinality(Missed(minute))
        /\ \A i \in Within(BarsOf("10s"), minute) : \E j \in Within(BarsOf("1m"), minute) :
              Covers(BarsOf("1m")[j].bar, BarsOf("10s")[i].bar)

\* What a step preserves: both builders are at the buckets of one print, the
\* latest, and a 10-second bar that is open lies within the minute that is open.
Bars == [open : Nat, high : Nat, low : Nat, close : Nat, volume : Nat \ {0}]

FeedTyped ==
    /\ fdBuilders \in [Timeframes -> [bucket : {None} \cup Nat, bar : {EmptyBar} \cup Bars]]
    /\ fdBars \in [Timeframes -> Seq([ts : Nat, bar : Bars])]
    /\ fdPrints \in Seq([ts : PrintTimes, price : PrintPrices, late : SUBSET Timeframes])

BuildersInStep ==
    \/ \A tf \in Timeframes : fdBuilders[tf] = [bucket |-> None, bar |-> EmptyBar]
    \/ \E t \in PrintTimes : \A tf \in Timeframes : fdBuilders[tf].bucket = BucketStart(t, tf)

OpenBarCovered ==
    fdBuilders["10s"].bar # EmptyBar =>
        fdBuilders["1m"].bar # EmptyBar /\ Covers(fdBuilders["1m"].bar, fdBuilders["10s"].bar)

FeedInv == FeedTyped /\ BuildersInStep /\ OpenBarCovered /\ SeriesAgree
=============================================================================
