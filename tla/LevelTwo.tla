------------------------------ MODULE LevelTwo ------------------------------
(***************************************************************************)
(* The level-2 provider (adapters/l2): a ring buffer of depth snapshots, a *)
(* window of tape prints, and the four detectors over them, for one        *)
(* symbol.  The two streams are each in order of time, but one may run     *)
(* ahead of the other.  The side of a print is inferred in the code and    *)
(* read by no detector; it is left out.                                    *)
(***************************************************************************)
EXTENDS ConfigDefaults, Sequences, FiniteSetsExt, SequencesExt

CONSTANTS
    Snapshots,      \* L2_DEPTH_SNAPSHOTS
    Window,         \* L2_WINDOW_SECS
    DepthTicks,     \* ticks of the depth feed: [bids, asks, bidSize, ask, askSize]
    TapeTicks,      \* prints: [price, size]
    Delays,         \* seconds between two ticks of a stream
    MaxTicks        \* bound: ticks since the last reset, of each stream

ASSUME LevelTwoAssumption ==
    /\ Snapshots \in Nat \ {0, 1} /\ Window \in Nat \ {0}
    /\ Delays \subseteq Nat /\ MaxTicks \in Nat

VARIABLES
    l2Book,         \* the snapshots kept
    l2Tape,         \* the prints kept
    l2Signal,       \* the last answer
    l2Depths,       \* every complete depth tick since the last reset (history)
    l2Prints        \* every print since the last reset (history)

l2Vars == <<l2Book, l2Tape, l2Signal, l2Depths, l2Prints>>

LevelTwoInit ==
    l2Book = <<>> /\ l2Tape = <<>> /\ l2Signal = "UNKNOWN" /\ l2Depths = <<>> /\ l2Prints = <<>>

LastOne(seq) == seq[Len(seq)]
Latest(seq, n) == SubSeq(seq, IF Len(seq) > n THEN Len(seq) - n + 1 ELSE 1, Len(seq))
NextTimes(log) == IF log = <<>> THEN Delays ELSE {LastOne(log).ts + d : d \in Delays}

-----------------------------------------------------------------------------
(* The detectors.                                                          *)

BidSizes(snaps) == {snaps[i].bidSize : i \in DOMAIN snaps}

DetectSpoof(snaps, agg) ==
    LET large == {i \in DOMAIN snaps : snaps[i].bidSize >= Default("SPOOF_BID_MIN_SHARES")}
    IN  /\ Len(snaps) >= 2 /\ large # {}
        /\ 5 * LastOne(snaps).bidSize <= Max(BidSizes(snaps))
        /\ LastOne(snaps).ts - snaps[Min(large)].ts <= Default("SPOOF_DECAY_SECS")
        /\ agg.shares < Default("SPOOF_MIN_PRINTS")

DetectIceberg(snaps, agg) ==
    /\ agg.prints > 0
    /\ agg.shares >= Default("ICEBERG_ABSORBED_MIN")
    /\ LastOne(snaps).askSize <= Default("ICEBERG_DISPLAY_MAX")
    /\ agg.last - agg.first \in -Default("ICEBERG_ADVANCE_MAX_CENTS") .. Default("ICEBERG_ADVANCE_MAX_CENTS")

DetectAbsorbBreak(snaps, agg) ==
    LET early == 1 .. (Len(snaps) \div 2)
    IN  /\ Len(snaps) >= 3
        /\ \E i \in early : snaps[i].askSize >= Default("ABSORB_ASK_MIN_SHARES")
        /\ agg.shares >= Default("ABSORB_TAPE_MIN_SHARES")
        /\ LastOne(snaps).ask - Min({snaps[i].ask : i \in early}) >= Default("ABSORB_BREAK_MIN_CENTS")

DetectRealFloor(snaps, agg) ==
    LET lookback == Latest(snaps, Default("FLOOR_MIN_STABLE_SNAPS"))
    IN  /\ LastOne(snaps).bidSize >= Default("FLOOR_BID_MIN_SHARES")
        /\ \A i \in DOMAIN lookback : lookback[i].bidSize >= Default("FLOOR_BID_MIN_SHARES") \div 2
        /\ agg.shares >= Default("FLOOR_MIN_PRINTS")

\* Danger first.
Signal(snaps, agg) ==
    IF DetectSpoof(snaps, agg) THEN "SPOOF"
    ELSE IF DetectIceberg(snaps, agg) THEN "ICEBERG"
    ELSE IF DetectAbsorbBreak(snaps, agg) THEN "ABSORB_BREAK"
    ELSE IF DetectRealFloor(snaps, agg) THEN "SUPPORT"
    ELSE "UNKNOWN"

-----------------------------------------------------------------------------

\* Half a book is skipped.
OnDepth ==
    /\ Len(l2Depths) < MaxTicks
    /\ \E tick \in DepthTicks, t \in NextTimes(l2Depths) :
          IF tick.bids /\ tick.asks
          THEN LET snap == [ts |-> t, bidSize |-> tick.bidSize, ask |-> tick.ask, askSize |-> tick.askSize]
               IN  /\ l2Book' = Latest(Append(l2Book, snap), Snapshots)
                   /\ l2Depths' = Append(l2Depths, snap)
          ELSE UNCHANGED <<l2Book, l2Depths>>
    /\ UNCHANGED <<l2Tape, l2Signal, l2Prints>>

OnTapePrint ==
    /\ Len(l2Prints) < MaxTicks
    /\ \E tick \in TapeTicks, t \in NextTimes(l2Prints) :
          LET print == [ts |-> t, price |-> tick.price, size |-> tick.size]
          IN  l2Tape' = Append(l2Tape, print) /\ l2Prints' = Append(l2Prints, print)
    /\ UNCHANGED <<l2Book, l2Signal, l2Depths>>

\* Mutation: a print of exactly the age of the window is dropped too.
EvictedEarly(tape, now) ==
    LET kept == {i \in DOMAIN tape : tape[i].ts > now - Window}
    IN  IF kept = {} THEN <<>> ELSE SubSeq(tape, Min(kept), Len(tape))

\* Prints leave at the front only, up to the first that is young enough.
Evicted(tape, now) ==
    LET kept == {i \in DOMAIN tape : tape[i].ts >= now - Window}
    IN  IF kept = {} THEN <<>> ELSE SubSeq(tape, Min(kept), Len(tape))

Aggregate(tape) ==
    IF tape = <<>> THEN [shares |-> 0, prints |-> 0, first |-> 0, last |-> 0]
    ELSE [shares |-> FoldSeq(LAMBDA p, sum : p.size + sum, 0, tape), prints |-> Len(tape),
          first |-> tape[1].price, last |-> LastOne(tape).price]

\* The time of the newest snapshot counts as now, whatever the tape's own time.
Evaluate ==
    /\ IF l2Prints = <<>> \/ l2Book = <<>>
       THEN l2Signal' = "UNKNOWN" /\ UNCHANGED l2Tape
       ELSE /\ l2Tape' = Evicted(l2Tape, LastOne(l2Book).ts)
            /\ l2Signal' = Signal(l2Book, Aggregate(l2Tape'))
    /\ UNCHANGED <<l2Book, l2Depths, l2Prints>>

ResetSymbol ==
    /\ l2Book' = <<>> /\ l2Tape' = <<>> /\ l2Depths' = <<>> /\ l2Prints' = <<>>
    /\ UNCHANGED l2Signal

LevelTwoNext == OnDepth \/ OnTapePrint \/ Evaluate \/ ResetSymbol

LevelTwoSpec == LevelTwoInit /\ [][LevelTwoNext]_l2Vars

-----------------------------------------------------------------------------

\* Whatever was evicted by earlier answers and however far one stream is ahead,
\* the next answer is given from the newest Snapshots complete books and from
\* exactly the prints that are not older than the window when the newest book
\* comes, those after that book among them: the end of the whole record since the
\* reset.  An eviction never loses what a later answer needs.
WindowIsComplete ==
    /\ l2Book = Latest(l2Depths, Snapshots)
    /\ l2Book # <<>> =>
          LET now == LastOne(l2Book).ts
          IN  \E n \in 0 .. Len(l2Prints) :
                 /\ Evicted(l2Tape, now) = SubSeq(l2Prints, n + 1, Len(l2Prints))
                 /\ \A i \in DOMAIN l2Prints : i > n <=> l2Prints[i].ts >= now - Window

\* What a step preserves: both streams are in order, and what was evicted was
\* too old for the newest book.
InOrder(log) == \A i, j \in DOMAIN log : i <= j => log[i].ts <= log[j].ts

SnapsTaken ==
    [ts : Nat, bidSize : {tick.bidSize : tick \in DepthTicks},
     ask : {tick.ask : tick \in DepthTicks}, askSize : {tick.askSize : tick \in DepthTicks}]
PrintsTaken ==
    [ts : Nat, price : {tick.price : tick \in TapeTicks}, size : {tick.size : tick \in TapeTicks}]

TooOld(n) ==
    /\ l2Tape = SubSeq(l2Prints, n + 1, Len(l2Prints))
    /\ n # 0 => l2Depths # <<>>
    /\ \A i \in 1 .. n : l2Prints[i].ts < LastOne(l2Depths).ts - Window

WindowInv ==
    /\ l2Depths \in Seq(SnapsTaken) /\ InOrder(l2Depths)
    /\ l2Prints \in Seq(PrintsTaken) /\ InOrder(l2Prints)
    /\ l2Book = Latest(l2Depths, Snapshots)
    /\ \E n \in 0 .. Len(l2Prints) : TooOld(n)
=============================================================================
