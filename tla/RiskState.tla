----------------------------- MODULE RiskState -----------------------------
(***************************************************************************)
(* The daily risk state of core/risk and the functions over it, as         *)
(* operators on one record.  They are shared by RiskManager (the guard on  *)
(* its own) and by LiveSession (the guard inside the live trading loops).  *)
(*                                                                         *)
(* Money is an integer number of cents; every fraction of the              *)
(* configuration is an integer number of hundredths, so a comparison of    *)
(* Decimals is the comparison with both sides multiplied by 100.           *)
(***************************************************************************)
EXTENDS Integers, FiniteSets

CONSTANTS
  Symbols,            \* tickers
  Prices,             \* entry prices
  ThreeStrikes,       \* THREE_STRIKES
  MaxTradesPerDay,    \* MAX_TRADES_PER_DAY
  MaxDailyLossPct,    \* MAX_DAILY_LOSS_PCT, hundredths of the equity
  AvgWinDayPnl,       \* AVG_WIN_DAY_PNL
  BrokerHardLockout,  \* BROKER_HARD_LOCKOUT
  GiveBackWarn,       \* GIVE_BACK_WARN, hundredths of the peak
  GiveBackHard,       \* GIVE_BACK_HARD, hundredths of the peak
  HaltReasons         \* reasons an outside caller gives to halt_session

ASSUME RiskConfig ==
  /\ Prices \subseteq Nat
  /\ ThreeStrikes \in Nat \ {0}
  /\ MaxTradesPerDay \in Nat
  /\ {MaxDailyLossPct, AvgWinDayPnl, BrokerHardLockout} \subseteq Nat
  /\ GiveBackWarn \in 0 .. 100
  /\ GiveBackHard \in GiveBackWarn .. 100

Strikes    == "three_strikes"
NoReason   == "none"
NoPosition == -1

RiskStates ==
  [realized  : Int,
   peak      : Nat,
   losses    : Nat,
   trades    : Nat,
   halted    : BOOLEAN,
   reason    : HaltReasons \union {Strikes, NoReason},
   positions : [Symbols -> Prices \union {NoPosition}]]

FreshState ==
  [realized |-> 0, peak |-> 0, losses |-> 0, trades |-> 0,
   halted |-> FALSE, reason |-> NoReason,
   positions |-> [s \in Symbols |-> NoPosition]]

IsOpen(risk, s) == risk.positions[s] # NoPosition

Larger(a, b)  == IF a > b THEN a ELSE b
Smaller(a, b) == IF a < b THEN a ELSE b

----------------------------------------------------------------------------
(* State changes *)

AfterOpen(risk, s, price) ==
  [risk EXCEPT !.positions = [@ EXCEPT ![s] = price], !.trades = @ + 1]

\* Mutants of AfterClose: the peak follows the result down; the halt comes
\* one loss late; a break-even close keeps the streak.
CloseLosesPeak(risk, s, pnl) ==
  LET realized == risk.realized + pnl
      losses   == IF pnl < 0 THEN risk.losses + 1 ELSE 0
  IN  [risk EXCEPT !.realized = realized, !.peak = realized, !.losses = losses,
                   !.halted = @ \/ losses >= ThreeStrikes,
                   !.positions = [@ EXCEPT ![s] = NoPosition]]

CloseHaltsLate(risk, s, pnl) ==
  LET realized == risk.realized + pnl
      losses   == IF pnl < 0 THEN risk.losses + 1 ELSE 0
  IN  [risk EXCEPT !.realized = realized, !.peak = IF @ > realized THEN @ ELSE realized,
                   !.losses = losses, !.halted = @ \/ losses > ThreeStrikes,
                   !.positions = [@ EXCEPT ![s] = NoPosition]]

CloseKeepsStreak(risk, s, pnl) ==
  LET realized == risk.realized + pnl
      losses   == IF pnl < 0 THEN risk.losses + 1 ELSE IF pnl = 0 THEN risk.losses ELSE 0
  IN  [risk EXCEPT !.realized = realized, !.peak = IF @ > realized THEN @ ELSE realized,
                   !.losses = losses, !.halted = @ \/ losses >= ThreeStrikes,
                   !.positions = [@ EXCEPT ![s] = NoPosition]]

\* The streak counts losing closes; any other close, a zero one included,
\* resets it.  A halt keeps the first reason it was given here.
AfterClose(risk, s, pnl) ==
  LET realized == risk.realized + pnl
      losses   == IF pnl < 0 THEN risk.losses + 1 ELSE 0
      struck   == ~risk.halted /\ losses >= ThreeStrikes
  IN  [realized  |-> realized,
       peak      |-> Larger(risk.peak, realized),
       losses    |-> losses,
       trades    |-> risk.trades,
       halted    |-> risk.halted \/ struck,
       reason    |-> IF struck THEN Strikes ELSE risk.reason,
       positions |-> [risk.positions EXCEPT ![s] = NoPosition]]

AfterHalt(risk, why) == [risk EXCEPT !.halted = TRUE, !.reason = why]

\* record_close of every symbol of S, each with a zero result: how the
\* live loops drop a set of positions.
AfterFlatCloses(risk, S) ==
  IF S = {} THEN risk
  ELSE [realized  |-> risk.realized,
        peak      |-> Larger(risk.peak, risk.realized),
        losses    |-> 0,
        trades    |-> risk.trades,
        halted    |-> risk.halted,
        reason    |-> risk.reason,
        positions |-> [s \in Symbols |-> IF s \in S THEN NoPosition
                                         ELSE risk.positions[s]]]

----------------------------------------------------------------------------
(* The pre-trade gate and the live monitors *)

\* Hundredths of money: equity times the percentage, against the two floors.
EffectiveLimit(equity) ==
  Smaller(equity * MaxDailyLossPct,
          Smaller(100 * AvgWinDayPnl, 100 * BrokerHardLockout))

DailyLossHit(risk, equity) == 100 * risk.realized <= -EffectiveLimit(equity)

\* Mutant of GiveBackVeto: the gate lets the boundary through.
GiveBackVetoStrict(risk) ==
  /\ risk.peak > 0
  /\ 100 * risk.realized < risk.peak * (100 - GiveBackHard)

\* The gate compares the day's result with a threshold below the peak ...
GiveBackVeto(risk) ==
  /\ risk.peak > 0
  /\ 100 * risk.realized <= risk.peak * (100 - GiveBackHard)

\* ... the monitor compares the fraction of the peak that was given back.
GivenBack(risk, pct) == 100 * (risk.peak - risk.realized) >= pct * risk.peak

GiveBackLevel(risk) ==
  IF risk.peak <= 0 THEN "none"
  ELSE IF GivenBack(risk, GiveBackHard) THEN "halt"
  ELSE IF GivenBack(risk, GiveBackWarn) THEN "warn"
  ELSE "none"

\* A signal is [symbol, entry, universe, rrOk, catalystSkip, late]: the last
\* four say whether E1 confirmed the Five Pillars, the target is at least
\* RR_MIN away, the catalyst is on the skip list, and it is past
\* HARD_STOP_TIME.
Vetoes(risk, sig, equity) ==
  IF risk.halted THEN {"halted"}
  ELSE {v \in {"no_five_pillar", "rr_below_min", "daily_loss_limit",
               "give_back_hard", "three_strikes", "average_down",
               "pdt_limit", "skip_catalyst", "hard_stop_time"} :
          \/ v = "no_five_pillar"   /\ ~sig.universe
          \/ v = "rr_below_min"     /\ ~sig.rrOk
          \/ v = "daily_loss_limit" /\ DailyLossHit(risk, equity)
          \/ v = "give_back_hard"   /\ GiveBackVeto(risk)
          \/ v = "three_strikes"    /\ risk.losses >= ThreeStrikes
          \/ v = "average_down"     /\ IsOpen(risk, sig.symbol)
                                    /\ sig.entry < risk.positions[sig.symbol]
          \/ v = "pdt_limit"        /\ risk.trades >= MaxTradesPerDay
          \/ v = "skip_catalyst"    /\ sig.catalystSkip
          \/ v = "hard_stop_time"   /\ sig.late}

=============================================================================
