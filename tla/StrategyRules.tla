---------------------------- MODULE StrategyRules ----------------------------
(***************************************************************************)
(* The pure decisions of the strategy: the entry gate E1-E7                *)
(* (entry_gate.py), the conviction score (conviction.py) and the exit      *)
(* rules P1-P8 (exit_engine.py, bailout.py), all in src/core.              *)
(*                                                                         *)
(* Money is in cents, conviction in ten-thousandths.  A context `ctx` is   *)
(* one of those FindPullbackContext returns.                               *)
(***************************************************************************)
EXTENDS Patterns

CONSTANTS
    RetraceMax,              \* RETRACE_MAX, in hundredths
    SpreadMin, SpreadMax,    \* SPREAD_MIN, SPREAD_MAX
    EntryTrigger,            \* ENTRY_TRIGGER
    StopBasis,               \* STOP_BASIS
    BailoutBars,             \* BAILOUT_SECONDS, in whole one-minute bars
    BailoutMove,             \* BAILOUT_MOVE
    MoveBeTrigger,           \* MOVE_BE_TRIGGER
    PsychStep, PsychTol,     \* PSYCH_LEVEL_STEP, PSYCH_LEVEL_TOLERANCE
    WatchRank                \* ATTENTION_WATCH_RANK

ASSUME RuleAssumption ==
    /\ RetraceMax \in 0 .. 100
    /\ EntryTrigger \in {"candle_close", "mid_candle"}
    /\ StopBasis \in {"pullback_low", "prev_candle_low"}
    /\ {SpreadMin, SpreadMax, BailoutBars, PsychTol, WatchRank} \subseteq Nat
    /\ MoveBeTrigger \in Nat \ {0}
    /\ BailoutMove \in Int /\ PsychStep \in Int

-----------------------------------------------------------------------------
(* The entry gate.  `view` is what the session hands over with a bar:      *)
(* the scanner's verdict, level 2, the spread and the market's state.      *)

\* Entering inside a candle is for hot markets only.
EffectiveTrigger(market) ==
    IF EntryTrigger = "mid_candle" /\ market # "hot" THEN "candle_close" ELSE EntryTrigger

\* Mutation: the high of the candle decides under both triggers.
CrossesInside(bars, trigger) == Len(bars) >= 2 /\ Signal(bars).h > Prior(bars).h
Crosses(bars, trigger) ==
    /\ Len(bars) >= 2
    /\ IF trigger = "mid_candle" THEN Signal(bars).h > Prior(bars).h
                                 ELSE Signal(bars).c > Prior(bars).h

EntryGate(bars, macd, view) ==
    /\ view.tierB
    /\ Crosses(bars, EffectiveTrigger(view.market))
    /\ macd = "up"
    /\ \E ctx \in FindPullbackContext(bars) :
            ctx.count <= PullbackMax /\ RetraceAtMost(ctx, RetraceMax)
    /\ view.l2 \in {"support", "absorb_break"}
    /\ view.spread \in SpreadMin .. SpreadMax

-----------------------------------------------------------------------------
(* Conviction: weighted scores in hundredths, two bonuses, two limits.     *)

PatternScore(p) ==
    CASE p = "micro_pullback" -> 100
      [] p = "abcd" -> 90
      [] p \in {"bull_flag", "flat_top"} -> 80
      [] p = "gap_and_go" -> 70
      [] p = "vwap_break" -> 65
      [] p = "halt_resumption" -> 60
      [] p \in {"red_to_green", "reverse_split_squeeze"} -> 50
      [] p = "none" -> 25

\* The score of the highest step at or below x; 0 under the lowest.
Step(x, steps) ==
    LET reached == {s \in steps : x >= s[1]}
    IN  IF reached = {} THEN 0 ELSE Max({s[2] : s \in reached})

RvolScore(rvol) == Step(rvol, {<<5, 40>>, <<10, 55>>, <<30, 75>>, <<50, 85>>,
                               <<80, 95>>, <<100, 100>>})

\* Float in thousands of shares; an unknown one is neutral.
FloatScore(float) ==
    CASE float = None -> 50
      [] float \in 0 .. 999 -> 100
      [] float \in 1000 .. 4999 -> 90
      [] float \in 5000 .. 9999 -> 75
      [] float \in 10000 .. 20000 -> 60
      [] float > 20000 -> 0

AttentionScore(attention) ==
    CASE attention = "prime" -> 100 [] attention = "watch" -> 75 [] attention = "ignore" -> 40

SpreadScore(spread) ==
    CASE spread <= 2 \/ spread > 10 -> 0
      [] spread \in 3 .. 5 -> 100
      [] spread \in 6 .. 7 -> 85
      [] spread \in 8 .. 10 -> 70

RetraceScore(ctx) ==
    CASE RetraceAtMost(ctx, 25) -> 100
      [] ~RetraceAtMost(ctx, 25) /\ RetraceAtMost(ctx, 35) -> 75
      [] ~RetraceAtMost(ctx, 35) /\ RetraceAtMost(ctx, 50) -> 50
      [] ~RetraceAtMost(ctx, 50) -> 0

\* Within two percent of the EMA, and above VWAP.
NearEma(price, ema9) ==
    LET dist == IF price >= ema9 THEN price - ema9 ELSE ema9 - price
    IN  ema9 # None /\ dist * 100 <= 2 * Max({ema9, 1})

ScoreConviction(pattern, view, ctx, price, ema9, vwap) ==
    LET composite == 30 * PatternScore(pattern) + 25 * RvolScore(view.rvol)
                     + 15 * FloatScore(view.float) + 15 * AttentionScore(view.attention)
                     + 8 * SpreadScore(view.spread) + 7 * RetraceScore(ctx)
                     + (IF NearEma(price, ema9) THEN 500 ELSE 0)
                     + (IF AboveVwap(price, vwap) THEN 300 ELSE 0)
    IN  Max({2500, Min({10000, composite})})

-----------------------------------------------------------------------------
(* Stop and target of an entry at the close of the signal bar.             *)

StopPrice(bars, ctx) ==
    IF StopBasis = "prev_candle_low" /\ Len(bars) >= 2 THEN Prior(bars).l ELSE ctx.low

\* Two to one, with a cent of risk when the stop is not below the entry.
TargetPrice(entry, stop) == entry + 2 * (IF entry > stop THEN entry - stop ELSE 1)

-----------------------------------------------------------------------------
(* The exit rules.  bar.ts is the minute of a bar.                         *)

\* Two consecutive bars since the entry, the entry's own bar included.
HasHigherHighOnRisingVolume(bars, pos) ==
    \E i \in 2 .. (Len(bars) - 1) :
        /\ bars[i - 1].ts >= pos.entryTs
        /\ bars[i].h > bars[i - 1].h
        /\ bars[i].h > pos.entry
        /\ bars[i].v >= bars[i - 1].v

\* The level nearest to the price is below it, above it, or at it.
AtPsychLevel(price) ==
    /\ PsychStep > 0
    /\ LET above == price % PsychStep IN above <= PsychTol \/ PsychStep - above <= PsychTol

ExitOrder ==
    <<"hard_stop", "time_stop", "l2_reversal", "topping_tail", "scale_strength",
      "first_red_close", "vwap_guard", "lost_popularity">>

ExitHolds(reason, pos, bars, l2, vwap, rank, intradayHigh) ==
    LET bar == Signal(bars)
        price == bar.c
        gain == price - pos.entry
    IN  CASE reason = "hard_stop" -> price <= pos.stop
          [] reason = "time_stop" ->
                /\ bar.ts - pos.entryTs >= BailoutBars /\ gain < BailoutMove
                /\ ~HasHigherHighOnRisingVolume(bars, pos)
          [] reason = "l2_reversal" -> l2 \in {"spoof", "iceberg"}
          [] reason = "topping_tail" ->
                Len(bars) >= 2 /\ IsToppingCandle(Prior(bars)) /\ bar.l < Prior(bars).l
          [] reason = "scale_strength" ->
                /\ \/ price > intradayHigh /\ pos.watermark < intradayHigh
                   \/ AtPsychLevel(price)
                /\ gain >= MoveBeTrigger
          [] reason = "first_red_close" -> Colour(bar) = "red"
          [] reason = "vwap_guard" -> gain >= MoveBeTrigger /\ BelowVwap(price, vwap)
          [] reason = "lost_popularity" -> rank # None /\ rank > WatchRank

\* Mutation: the hard stop fires under the stop only.
EvaluateExitStrict(pos, bars, l2, vwap, rank, intradayHigh) ==
    LET holding == {i \in DOMAIN ExitOrder :
                        /\ ExitHolds(ExitOrder[i], pos, bars, l2, vwap, rank, intradayHigh)
                        /\ ExitOrder[i] = "hard_stop" => Signal(bars).c # pos.stop}
    IN  IF holding = {} THEN "hold" ELSE ExitOrder[Min(holding)]

\* The reason that comes first in the order of priority, or "hold".
EvaluateExit(pos, bars, l2, vwap, rank, intradayHigh) ==
    LET holding == {i \in DOMAIN ExitOrder :
                        ExitHolds(ExitOrder[i], pos, bars, l2, vwap, rank, intradayHigh)}
    IN  IF holding = {} THEN "hold" ELSE ExitOrder[Min(holding)]
=============================================================================
