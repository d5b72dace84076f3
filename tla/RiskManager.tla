---------------------------- MODULE RiskManager ----------------------------
(***************************************************************************)
(* core/risk/manager.py: the mandatory gate between a strategy signal and  *)
(* an order, with the trade results that drive it.                         *)
(*                                                                         *)
(* The manager is not thread-safe; its callers (the bar loops) serialise   *)
(* entries, so at most one approved trade is on its way to the broker at a *)
(* time.  Closes arrive from other loops and may land between the approval *)
(* and the fill: pending is the approval that is not yet a position.       *)
(*                                                                         *)
(* results is a history variable: the results of the closes since the last *)
(* reset, which the manager itself does not keep.                          *)
(***************************************************************************)
EXTENDS RiskState, Sizing, Sequences, SequencesExt

CONSTANTS
  Pnls,          \* possible results of a close
  Equities,      \* equities a caller may pass to evaluate
  Contexts,      \* sizing contexts a signal may carry
  MaxCloses      \* bound: closes in one session

ASSUME ManagerConfig ==
  /\ Pnls \subseteq Int
  /\ Equities \subseteq Nat
  /\ Contexts \subseteq SizingContexts

VARIABLES risk, pending, results

vars == <<risk, pending, results>>

Nothing == [symbol |-> "nothing"]

Signals ==
  [symbol : Symbols, entry : Prices, universe : BOOLEAN, rrOk : BOOLEAN,
   catalystSkip : BOOLEAN, late : BOOLEAN]

Orders == [symbol : Symbols, entry : Prices, shares : Nat \ {0}]

TypeOK ==
  /\ risk \in RiskStates
  /\ pending \in Orders \union {Nothing}
  /\ results \in Seq(Int)

Init ==
  /\ risk = FreshState
  /\ pending = Nothing
  /\ results = <<>>

----------------------------------------------------------------------------

\* Called by a session before its loops start.
ResetSession ==
  /\ pending = Nothing
  /\ risk' = FreshState
  /\ results' = <<>>
  /\ UNCHANGED pending

\* A veto, sizing_zero included, leaves nothing behind.
Evaluate(sig, equity, ctx) ==
  LET shares == ComputeSize(risk.realized, ctx)
  IN  /\ pending = Nothing
      /\ Vetoes(risk, sig, equity) = {}
      /\ shares # 0
      /\ pending' = [symbol |-> sig.symbol, entry |-> sig.entry,
                     shares |-> shares]
      /\ UNCHANGED <<risk, results>>

\* The broker took the order: the caller records the position ...
RecordOpen ==
  /\ pending # Nothing
  /\ risk' = AfterOpen(risk, pending.symbol, pending.entry)
  /\ pending' = Nothing
  /\ UNCHANGED results

\* ... or it refused, and the caller forgets the approval.
OrderRefused ==
  /\ pending # Nothing
  /\ pending' = Nothing
  /\ UNCHANGED <<risk, results>>

RecordClose(s, pnl) ==
  /\ IsOpen(risk, s)
  /\ Len(results) < MaxCloses
  /\ risk' = AfterClose(risk, s, pnl)
  /\ results' = Append(results, pnl)
  /\ UNCHANGED pending

HaltSession(why) ==
  /\ risk' = AfterHalt(risk, why)
  /\ UNCHANGED <<pending, results>>

Next ==
  \/ ResetSession
  \/ \E sig \in Signals, equity \in Equities, ctx \in Contexts :
       Evaluate(sig, equity, ctx)
  \/ RecordOpen
  \/ OrderRefused
  \/ \E s \in Symbols, pnl \in Pnls : RecordClose(s, pnl)
  \/ \E why \in HaltReasons : HaltSession(why)

Spec == Init /\ [][Next]_vars

----------------------------------------------------------------------------
(* Invariants *)

\* The peak never falls behind the day's result, and starts at zero.
PeakCoversRealized == risk.peak >= risk.realized

\* U5: three losses in a row and the session is halted, whoever halted it.
StrikesHalt == risk.losses >= ThreeStrikes => risk.halted

\* The day-trade count never passes the configured maximum, although the
\* count moves only when a fill is recorded and an approval may be waiting.
TradesWithinCap ==
  /\ risk.trades <= MaxTradesPerDay
  /\ pending # Nothing => risk.trades < MaxTradesPerDay

\* The guard rests on these three, at every moment between its calls.
GuardInv == PeakCoversRealized /\ StrikesHalt /\ TradesWithinCap

\* C3 is written twice, as a fraction in the monitor and as a threshold in
\* the gate: a session the monitor calls "halt" is one the gate refuses.
MonitorAgreesWithGate == (GiveBackLevel(risk) = "halt") <=> GiveBackVeto(risk)

----------------------------------------------------------------------------
(* Action properties: what is never approved *)

Approval == pending' # pending /\ pending' # Nothing

\* Somewhere in this session's results, ThreeStrikes losses in a row.
StruckOut ==
  \E k \in 1 .. Len(results) - ThreeStrikes + 1 :
    \A j \in k .. k + ThreeStrikes - 1 : results[j] < 0

\* What the guard keeps of the results: the streak is the run of losses at
\* their end, and it has seen every run of ThreeStrikes losses.
StreakInv ==
  /\ risk.losses <= Len(results)
  /\ \A j \in Len(results) - risk.losses + 1 .. Len(results) : results[j] < 0
  /\ \/ risk.losses = Len(results)
     \/ results[Len(results) - risk.losses] >= 0
  /\ StruckOut => risk.halted

Net(rs) == FoldSeq(LAMBDA pnl, sum : pnl + sum, 0, rs)

\* The losses at the end of rs.
TrailingLosses(rs) ==
  CHOOSE n \in 0 .. Len(rs) :
    /\ \A k \in Len(rs) - n + 1 .. Len(rs) : rs[k] < 0
    /\ n = Len(rs) \/ rs[Len(rs) - n] >= 0

\* The numbers of the day are what the results of its closes say: the total,
\* its highest point so far (zero at least), the losing streak at the end of
\* the day so far.  They are updated one close at a time, whatever opens,
\* halts and refusals come in between.
DayMatchesResults ==
  /\ risk.realized = Net(results)
  /\ \A p \in Prefixes(results) : Net(p) <= risk.peak
  /\ risk.peak = 0 \/ \E p \in Prefixes(results) : Net(p) = risk.peak
  /\ risk.losses = TrailingLosses(results)

\* U5: after three losses in a row nothing is approved for the rest of the
\* session, whatever the later closes bring: a win resets the streak, it
\* does not lift the halt.
NoTradeAfterThreeStrikes == [][Approval => ~StruckOut]_vars

\* What is approved respects every cap the configuration knows, however the
\* roundings and multipliers combine: the icebreaker until the day is up,
\* the starter cap until the cushion is built, the hard ceiling always.
SizeWithinCaps ==
  [][Approval =>
       /\ pending'.shares <= MaxSize
       /\ risk.realized <= 0 => pending'.shares <= Icebreaker
       /\ risk.realized \in 1 .. CushionPnl - 1 => pending'.shares <= StarterCap]_vars

=============================================================================
