------------------------------ MODULE DemoRules ------------------------------
(***************************************************************************)
(* The pure parts of src/core/demo/engine.py: the two tiers of a scan, the *)
(* simplified entry gate, the size of an order, the daily risk record and  *)
(* the statistics over the journal.                                        *)
(*                                                                         *)
(* Prices are in cents, changes and volumes ratios in tenths, floats in    *)
(* thousands of shares.  A bar is a record of o, h, l, c.                  *)
(***************************************************************************)
EXTENDS Integers, Sequences, FiniteSetsExt, SequencesExt

CONSTANTS
    PerTradeRisk,       \* cfg.per_trade_risk
    MaxPositionSize,    \* cfg.max_position_size
    E6Enabled           \* cfg.e6_enabled

ASSUME DemoRulesAssumption ==
    PerTradeRisk \in Nat /\ MaxPositionSize \in Nat \ {0} /\ E6Enabled \in BOOLEAN

\* A value that the code leaves out.
Absent == -1

-----------------------------------------------------------------------------
(* The scan: a snapshot has the price, the change of the day, the float,   *)
(* the volume ratio and the catalyst verifier's word for one symbol.       *)

\* Without a verifier the fifth pillar is waived.
CatalystHolds(snap) == snap.catalyst \in {"no_verifier", "VERIFIED"}

InTierA(snap) ==
    /\ snap.price # Absent
    /\ snap.change >= 40 /\ snap.price \in 100 .. 2000
    /\ snap.catalyst # "SKIP"

InTierB(snap) ==
    /\ InTierA(snap)
    /\ snap.price \in 200 .. 2000
    /\ snap.float # Absent /\ snap.float <= 20000
    /\ snap.rvol # Absent /\ snap.rvol >= 50
    /\ snap.change >= 100
    /\ CatalystHolds(snap)

-----------------------------------------------------------------------------
(* The entry gate: the last bar breaks out of two red ones.                *)

\* A set of at most one gate result.
EvaluateEntryGate(bars, macdUp, spread) ==
    LET n == Len(bars)
        breakout == bars[n]
        pullback == {bars[i] : i \in (n - 2) .. (n - 1)}
        surgeFrom == IF n >= 8 THEN n - 7 ELSE 1
        high == Max({bars[i].h : i \in surgeFrom .. (n - 1)})
        start == bars[surgeFrom].l
        low == Min({bar.l : bar \in pullback})
    IN  IF /\ n >= 6
           /\ \A bar \in pullback : bar.c < bar.o
           /\ breakout.h > bars[n - 1].h
           /\ macdUp
           /\ high > start /\ 2 * (low - high) >= start - high
           /\ ~E6Enabled
           /\ spread \in 3 .. 10
        THEN {[entry |-> breakout.c, stop |-> low]} ELSE {}

\* Mutation: the cap on the shares of an order is forgotten.
SizedUncapped(pnl, entry, stop) ==
    LET full == PerTradeRisk \div (entry - stop)
    IN  IF entry <= stop THEN 0 ELSE IF pnl <= 0 THEN full \div 4 ELSE full

\* A quarter of the size until the day is in profit; 0 is a veto.
Sized(pnl, entry, stop) ==
    LET full == PerTradeRisk \div (entry - stop)
    IN  IF entry <= stop THEN 0
        ELSE Min({MaxPositionSize, IF pnl <= 0 THEN full \div 4 ELSE full})

-----------------------------------------------------------------------------
(* The daily record.                                                       *)

FreshRisk == [pnl |-> 0, peak |-> 0, streak |-> 0, trades |-> 0, wins |-> 0,
              losses |-> 0, halted |-> FALSE]

\* Mutation: a result of zero is neither a win nor a loss.
RecordCloseIgnoresZero(risk, pnl) ==
    [risk EXCEPT !.pnl = @ + pnl, !.peak = Max({@, risk.pnl + pnl}),
                 !.wins = IF pnl > 0 THEN @ + 1 ELSE @,
                 !.losses = IF pnl < 0 THEN @ + 1 ELSE @,
                 !.streak = IF pnl > 0 THEN 0 ELSE IF pnl < 0 THEN @ + 1 ELSE @]

\* A result of zero counts as a loss.
RecordClose(risk, pnl) ==
    LET r == [risk EXCEPT !.pnl = @ + pnl, !.peak = Max({@, risk.pnl + pnl})]
    IN  IF pnl > 0 THEN [r EXCEPT !.wins = @ + 1, !.streak = 0]
                   ELSE [r EXCEPT !.losses = @ + 1, !.streak = @ + 1]

Halt(risk) == [risk EXCEPT !.halted = TRUE]

\* What an entry is refused for, and what a finished exit halts for.
DayIsOver(risk, maxLoss) == risk.streak >= 3 \/ risk.pnl <= -maxLoss

-----------------------------------------------------------------------------
(* The journal: a sequence of closes with their lot, their shares, their   *)
(* result, the time of the exit and what made it.                          *)

\* Of two trades the one with the earlier exit, or the one journalled first.
Sooner(trades, i, j) ==
    trades[i].ts < trades[j].ts \/ (trades[i].ts = trades[j].ts /\ i < j)

\* Mutation: the trades are taken as they were journalled.
AsJournalled(trades) == trades

\* The trades in the order of their exits, a stable sort.
ByExit(trades) ==
    LET Place(i) == 1 + Cardinality({j \in DOMAIN trades : Sooner(trades, j, i)})
    IN  [k \in DOMAIN trades |-> trades[CHOOSE i \in DOMAIN trades : Place(i) = k]]

Pnls(trades) == [i \in DOMAIN trades |-> trades[i].pnl]
SumOf(seq) == FoldSeq(LAMBDA x, acc : x + acc, 0, seq)
RunningPnl(trades) == [i \in DOMAIN trades |-> SumOf(SubSeq(Pnls(trades), 1, i))]

\* The walk over the equity curve of performance_summary, exits in order: the
\* peak, the trough since the peak, and the deepest fall as a pair of drop and
\* peak.
DrawdownWalk(journal) ==
    LET Deeper(drop, peak, worst) == peak > 0 /\ drop * worst.peak > worst.drop * peak
        Walk(w, running) ==
            IF running > w.peak
            THEN [w EXCEPT !.peak = running, !.trough = running]
            ELSE IF running < w.trough
            THEN [w EXCEPT !.trough = running,
                           !.worst = IF Deeper(w.peak - running, w.peak, @)
                                     THEN [drop |-> w.peak - running, peak |-> w.peak] ELSE @]
            ELSE w
    IN  FoldLeft(Walk, [peak |-> 0, trough |-> 0, worst |-> [drop |-> 0, peak |-> 1]],
                 RunningPnl(ByExit(journal))).worst
=============================================================================
