------------------------------- MODULE Replay -------------------------------
(***************************************************************************)
(* The backtest: core/backtest/replay.py over the fill model and the sim   *)
(* days.  One event, a bar with its context, is handled in one step: the   *)
(* day boundary, the end-of-day check, the mental stop and the signals, in *)
(* that order.  The risk manager is RiskState's record; of the strategy    *)
(* engine only the position it tracks matters, its signals are chosen      *)
(* freely among those it can give in that state.                           *)
(*                                                                         *)
(* Prices are cents, money is in millionths of a dollar.                   *)
(***************************************************************************)
EXTENDS RiskState, Sequences, FiniteSetsExt, SequencesExt

CONSTANTS
    ReplayBars,     \* lows and closes of bars
    ReplayShares,   \* sizes the guard may approve
    MaxDays,        \* bound: days
    MaxTrades       \* bound: trades before the last day begins or goes on

ASSUME ReplayAssumption ==
    /\ ReplayBars \subseteq [low : Nat, close : Nat] /\ ReplayShares \subseteq Nat
    /\ MaxDays \in Nat /\ MaxTrades \in Nat

VARIABLE rp     \* the state of the replay, the guard and the engine

-----------------------------------------------------------------------------
(* The fill model.                                                         *)

LatencySlip == 5
BuyOffset == 5

EntrySlippage(ask) == Max({1, Min({5, (ask \div 100) \div 10})})
EntryPrice(ask) == ask + BuyOffset + EntrySlippage(ask)
\* One fill in ten is half filled.
EntryShares(requested) == {requested, Max({1, requested \div 2})}
BuyFees(shares) == 300 * shares

StopFill(stop, low) == Max({1, Min({stop - LatencySlip, low - 1})})
TargetFill(bid) == Max({1, bid - 1})
SellFees(shares) == Min({195 * shares, 9790000}) + 300 * shares

-----------------------------------------------------------------------------
(* A day: its trades are [net, vetoed].                                    *)

Completed(trades) == {i \in DOMAIN trades : ~trades[i].vetoed}

\* The result of the completed trades among the first n, and the peak on the way.
NetUpTo(trades, n) ==
    SumFunctionOnSet([i \in DOMAIN trades |-> trades[i].net], Completed(trades) \cap 1 .. n)
NetOf(trades) == NetUpTo(trades, Len(trades))
PeakOf(trades) == Max({NetUpTo(trades, n) : n \in 0 .. Len(trades)})

\* Mutation: the vetoed entries are counted into the accuracy.
DayOverAll(trades) ==
    [pnl |-> NetOf(trades), peak |-> PeakOf(trades), trades |-> Len(trades),
     wins |-> Cardinality({i \in DOMAIN trades : trades[i].net > 0})]

\* _finalise_day with the counts of SimDay.
Day(trades) ==
    [pnl |-> NetOf(trades), peak |-> PeakOf(trades), trades |-> Cardinality(Completed(trades)),
     wins |-> Cardinality({i \in Completed(trades) : trades[i].net > 0})]

-----------------------------------------------------------------------------
(* The steps of one event, as functions of the replay's state.             *)

NoOpen == [symbol |-> "none"]

ReplayInit ==
    rp = [today |-> FALSE, trades |-> <<>>, days |-> <<>>, open |-> NoOpen, over |-> FALSE,
          risk |-> FreshState, engine |-> {}]

HasOpen(st) == st.open # NoOpen

\* _complete_trade
CompleteTrade(st, price) ==
    LET pos == st.open
        fees == BuyFees(pos.shares) + SellFees(pos.shares)
        net == (price - pos.entry) * pos.shares * 10000 - fees
    IN  [st EXCEPT !.trades = Append(@, [net |-> net, vetoed |-> FALSE]),
                   !.risk = AfterClose(@, pos.symbol, net),
                   !.engine = @ \ {pos.symbol},
                   !.open = NoOpen]

\* Mutation: the position is taken over into the new day.
NewDayCarried(st, bar) ==
    [st EXCEPT !.days = IF st.today THEN Append(@, Day(st.trades)) ELSE @,
               !.today = TRUE, !.trades = <<>>, !.risk = FreshState]

\* The residual position is sold at the first close of the new day and counted
\* into the old one; then the guard is reset.
NewDay(st, bar) ==
    LET flat == IF HasOpen(st) /\ st.today THEN CompleteTrade(st, TargetFill(bar.close)) ELSE st
    IN  [flat EXCEPT !.days = IF st.today THEN Append(@, Day(flat.trades)) ELSE @,
                     !.today = TRUE, !.trades = <<>>, !.risk = FreshState]

\* The end of day, or the stop, against the bar of whatever symbol it is.
Flattened(st, bar) == CompleteTrade(st, TargetFill(bar.close))
Stopped(st, bar) == CompleteTrade(st, StopFill(st.open.stop, bar.low))
StopHit(st, bar) == bar.low <= st.open.stop

\* The engine gives exits for a symbol it tracks and drops it when it says to
\* sell all; it gives entries for the others.
Signals(st, symbol) ==
    {[kind |-> "none"]} \cup
    IF symbol \in st.engine THEN {[kind |-> "exit"], [kind |-> "scale"]}
                            ELSE {[kind |-> "entry", approved |-> a] : a \in BOOLEAN}

\* Vetoes that the guard's own state makes; the others are free.
GuardRefuses(st, symbol, ask) ==
    \/ st.risk.halted
    \/ st.risk.losses >= ThreeStrikes \/ st.risk.trades >= MaxTradesPerDay
    \/ IsOpen(st.risk, symbol) /\ ask < st.risk.positions[symbol]

Entered(st, symbol, ask, stop, shares) ==
    [st EXCEPT !.risk = AfterOpen(@, symbol, EntryPrice(ask)),
               !.engine = @ \cup {symbol},
               !.open = [symbol |-> symbol, entry |-> EntryPrice(ask), stop |-> stop,
                         shares |-> shares]]

Handled(st, symbol, bar, sig, stop, shares) ==
    CASE sig.kind = "entry" /\ ~HasOpen(st) ->
            IF sig.approved /\ ~GuardRefuses(st, symbol, bar.close)
            THEN Entered(st, symbol, bar.close, stop, shares)
            ELSE [st EXCEPT !.trades = Append(@, [net |-> 0, vetoed |-> TRUE])]
      [] sig.kind = "exit" /\ HasOpen(st) ->
            CompleteTrade([st EXCEPT !.engine = @ \ {symbol}], TargetFill(bar.close))
      [] sig.kind = "scale" /\ HasOpen(st) -> [st EXCEPT !.open.stop = @ + 10]
      [] OTHER -> st

TradesOf(days) == FoldSeq(LAMBDA day, sum : day.trades + sum, 0, days)

\* One event of the sequence, of a new day or of today, early or past the time
\* to flatten, at which nothing is approved any more.
ReplayEvent ==
    \E symbol \in Symbols, bar \in ReplayBars, newDay \in BOOLEAN, late \in BOOLEAN :
        /\ ~rp.over
        /\ ~rp.today => newDay
        /\ newDay => Len(rp.days) < MaxDays
        /\ newDay \/ Len(rp.trades) + TradesOf(rp.days) < MaxTrades
        /\ LET st == IF newDay THEN NewDay(rp, bar) ELSE rp
           IN  IF HasOpen(st) /\ late THEN rp' = Flattened(st, bar)
               ELSE IF HasOpen(st) /\ StopHit(st, bar) THEN rp' = Stopped(st, bar)
               ELSE \E sig \in Signals(st, symbol), requested \in ReplayShares :
                       \E shares \in EntryShares(requested) :
                           /\ sig.kind = "entry" /\ late => ~sig.approved
                           /\ rp' = Handled(st, symbol, bar, sig, bar.low - 10, shares)

\* The events are used up: the last bar closes what is left, and the day.
ReplayFlush ==
    \E bar \in ReplayBars :
        /\ rp.today /\ ~rp.over
        /\ LET flat == IF HasOpen(rp) THEN Flattened(rp, bar) ELSE rp
           IN  rp' = [flat EXCEPT !.days = Append(@, Day(flat.trades)), !.over = TRUE]

ReplayNext == ReplayEvent \/ ReplayFlush

ReplaySpec == ReplayInit /\ [][ReplayNext]_rp

-----------------------------------------------------------------------------

\* The replay's position, the guard's and the engine's are one and the same
\* after every bar: stops, scale-outs, end-of-day sales, new days and the bars of
\* another symbol keep the three in step.
ReplayLedgersAgree ==
    LET held == IF HasOpen(rp) THEN {rp.open.symbol} ELSE {}
    IN  rp.engine = held /\ {s \in Symbols : IsOpen(rp.risk, s)} = held

\* The guard judges the day by the same numbers that the report of the day will
\* show, and a reported accuracy counts the trades that happened and no veto.
ReplayDayIsGuardDay ==
    /\ rp.today => NetOf(rp.trades) = rp.risk.realized
                   /\ PeakOf(rp.trades) = rp.risk.peak
    /\ Cardinality(Completed(rp.trades)) + (IF HasOpen(rp) THEN 1 ELSE 0) = rp.risk.trades
    /\ \A i \in DOMAIN rp.days : rp.days[i].trades <= MaxTradesPerDay
=============================================================================
