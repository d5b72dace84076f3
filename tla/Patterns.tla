------------------------------ MODULE Patterns ------------------------------
(***************************************************************************)
(* Candle geometry: src/core/strategy/patterns.py and the pullback finder  *)
(* of src/core/strategy/entry_gate.py.                                     *)
(*                                                                         *)
(* A bar is a record of open, high, low and close in cents and a volume; a *)
(* list of bars has the newest, the signal bar, at its end.  Averages and  *)
(* ratios are compared with both sides multiplied out, so they are exact.  *)
(* The confidence of a match is left out: nothing in the code reads it.    *)
(***************************************************************************)
EXTENDS Integers, Sequences, FiniteSetsExt

CONSTANTS
    SurgeMin,            \* SURGE_MIN_CANDLES
    PullbackMax,         \* PULLBACK_MAX_CANDLES
    FlagMax,             \* FLAG_CONSOLIDATION_MAX, in hundredths
    LightVolumeRatio,    \* LIGHT_VOLUME_RATIO, in hundredths
    SpikeLookback        \* VOLUME_SPIKE_LOOKBACK, in bars

ASSUME PatternAssumption ==
    /\ {SurgeMin, PullbackMax, SpikeLookback} \subseteq Nat \ {0}
    /\ {FlagMax, LightVolumeRatio} \subseteq 0 .. 100

\* The absence of an optional price.
None == -1

Signal(bars) == bars[Len(bars)]
Prior(bars) == bars[Len(bars) - 1]

\* Red, green, or neither when the candle closes where it opened.
Colour(bar) == IF bar.c > bar.o THEN "green"
               ELSE IF bar.c < bar.o THEN "red" ELSE "doji"

\* How many bars of one colour stand in a row up to and including `last`.
Run(bars, last, colour) ==
    Max({k \in 0 .. last :
            \A i \in (last - k + 1) .. last : Colour(bars[i]) = colour})

Highs(bars, S) == {bars[i].h : i \in S}
Lows(bars, S) == {bars[i].l : i \in S}
Volume(bars, S) == MapThenSumSet(LAMBDA i : bars[i].v, S)

\* One to PullbackMax red bars before the signal bar, and at least SurgeMin
\* green ones before them: a set of at most one context.  The retrace ratio is
\* depth / move.
FindPullbackContext(bars) ==
    LET n == Len(bars)
        count == Min({PullbackMax, Run(bars, n - 1, "red")})
        top == n - 1 - count
        surge == Run(bars, top, "green")
        pullback == (top + 1) .. (n - 1)
        high == Max(Highs(bars, (top - surge + 1) .. top))
        start == bars[top - surge + 1].l
        low == Min(Lows(bars, pullback))
    IN  IF \/ n < SurgeMin + PullbackMax + 1
           \/ count = 0
           \/ surge < SurgeMin
           \/ high <= start
        THEN {}
        ELSE {[count |-> count, low |-> low, high |-> high,
               depth |-> high - low, move |-> high - start]}

RetraceAtMost(ctx, hundredths) == ctx.depth * 100 <= hundredths * ctx.move

\* An upper shadow of at least twice the body, or any real one over no body.
IsToppingCandle(bar) ==
    LET body == IF bar.c >= bar.o THEN bar.c - bar.o ELSE bar.o - bar.c
        shadow == bar.h - Max({bar.o, bar.c})
    IN  shadow >= 1 /\ (body = 0 \/ shadow >= 2 * body)

-----------------------------------------------------------------------------
(* The session's VWAP is the quotient pv / (3 vol) of two sums: None while *)
(* vol is 0.                                                               *)

AboveVwap(price, vwap) == vwap.vol > 0 /\ price * 3 * vwap.vol > vwap.pv
BelowVwap(price, vwap) == vwap.vol > 0 /\ price * 3 * vwap.vol < vwap.pv

-----------------------------------------------------------------------------
(* The detectors.                                                          *)

\* The bars whose volume stands for the pullback: the loops start one bar
\* early, so the last bar of the surge is among them.
PullbackBars(bars, ctx) == (Len(bars) - 1 - ctx.count) .. (Len(bars) - 1)
\* The green ones of the five bars before those.
SurgeBars(bars, ctx) ==
    {i \in Max({1, Len(bars) - 6 - ctx.count}) .. (Len(bars) - 2 - ctx.count) :
        Colour(bars[i]) = "green"}

\* average pullback volume <= average surge volume * percent / 100
LighterThanSurge(bars, ctx, percent) ==
    LET P == PullbackBars(bars, ctx)
        S == SurgeBars(bars, ctx)
    IN  \/ Volume(bars, S) = 0
        \/ Volume(bars, P) * Cardinality(S) * 100
               <= Volume(bars, S) * Cardinality(P) * percent

IsMicroPullback(bars, ctx) == Len(bars) >= 4 /\ LighterThanSurge(bars, ctx, 80)

IsAbcd(bars, ctx) ==
    LET bounceEnd == Len(bars) - 1 - ctx.count
        bounce == Run(bars, bounceEnd, "green")
        firstEnd == bounceEnd - bounce
        first == Run(bars, firstEnd, "red")
        h1 == Max(Highs(bars, (firstEnd + 1) .. bounceEnd))
        p1 == Min(Lows(bars, (firstEnd - first + 1) .. firstEnd))
    IN  /\ Len(bars) >= 8
        /\ bounceEnd >= 4
        /\ bounce > 0 /\ first > 0
        /\ ctx.low >= p1
        /\ Signal(bars).h * 100 >= h1 * 95

IsBullFlag(bars, ctx) ==
    /\ Len(bars) >= 5
    /\ ctx.count <= 3
    /\ RetraceAtMost(ctx, FlagMax)
    /\ LighterThanSurge(bars, ctx, 100)

\* The two or three bars before the signal share a high within three cents.
IsFlatTop(bars) ==
    LET n == Len(bars)
        highs == Highs(bars, Max({2, n - 3}) .. (n - 1))
    IN  n >= 4 /\ Max(highs) - Min(highs) <= 3 /\ Signal(bars).h > Max(highs)

GreenSignal(bars) == Len(bars) >= 2 /\ Colour(Signal(bars)) = "green"

IsVwapBreak(bars, vwap) ==
    Len(bars) >= 2 /\ AboveVwap(Signal(bars).c, vwap) /\ ~AboveVwap(Prior(bars).c, vwap)

IsRedToGreen(bars, prevClose) ==
    /\ prevClose # None /\ Len(bars) >= 2
    /\ Signal(bars).c > prevClose /\ Prior(bars).c <= prevClose

\* The recognised patterns, best first; a tie of rank goes to the earlier.
PatternOrder ==
    <<"micro_pullback", "abcd", "bull_flag", "flat_top", "gap_and_go",
      "vwap_break", "halt_resumption", "red_to_green", "reverse_split_squeeze">>

RecognizePattern(bars, ctx, vwap, sym, reverseSplit) ==
    LET matches == [p \in {PatternOrder[i] : i \in DOMAIN PatternOrder} |->
            CASE p = "micro_pullback" -> IsMicroPullback(bars, ctx)
              [] p = "abcd" -> IsAbcd(bars, ctx)
              [] p = "bull_flag" -> IsBullFlag(bars, ctx)
              [] p = "flat_top" -> IsFlatTop(bars)
              [] p = "gap_and_go" -> sym.gap >= 40 /\ GreenSignal(bars)
              [] p = "vwap_break" -> IsVwapBreak(bars, vwap)
              [] p = "halt_resumption" -> sym.haltedResume /\ GreenSignal(bars)
              [] p = "red_to_green" -> IsRedToGreen(bars, sym.prevClose)
              [] p = "reverse_split_squeeze" -> reverseSplit /\ GreenSignal(bars)]
        found == {i \in DOMAIN PatternOrder : matches[PatternOrder[i]]}
    IN  IF found = {} THEN "none" ELSE PatternOrder[Min(found)]

-----------------------------------------------------------------------------
(* The universal invalidation set.  macd is "unseeded" while there is no   *)
(* point, "partial" while the point has no signal line, then "up" or "down".*)

LightVolumeAfterSpike(bars) ==
    LET n == Len(bars)
        prior == Max({1, n - SpikeLookback + 1}) .. (n - 1)
        spike == Max({bars[i].v : i \in prior})
    IN  /\ n >= 3
        /\ prior # {}
        /\ spike * Cardinality(prior) > 3 * Volume(bars, prior)
        /\ Signal(bars).v * 100 < spike * LightVolumeRatio

IsFailedPattern(bars, vwap, ema9, macd, ctx) ==
    LET now == Signal(bars)
        before == Prior(bars)
    IN  /\ Len(bars) >= 2
        /\ \/ IsToppingCandle(before) /\ now.l < before.l
           \/ now.h - before.h \in 1 .. 5 /\ now.c < before.c
           \/ now.c < before.l
           \/ ema9 # None /\ now.c < ema9
           \/ BelowVwap(now.c, vwap)
           \/ macd \in {"partial", "down"}
           \/ ~RetraceAtMost(ctx, 50)
           \/ LightVolumeAfterSpike(bars)
=============================================================================
