--------------------------- MODULE StrategyEngine ---------------------------
(***************************************************************************)
(* src/core/strategy/engine.py for one symbol: the running session state,  *)
(* the position it believes in, and the signal of each bar.  Its callers,  *)
(* the sessions and the replay, fill the entries and report the closes.    *)
(*                                                                         *)
(* The day's tape is a sequence of sets of candle shapes: each minute has  *)
(* one of the shapes of its set, or no bar at all where the set holds      *)
(* NoBar (a frozen session drops bars).  The values of EMA and MACD are    *)
(* free once they are seeded; when they are seeded, and the VWAP, are exact.*)
(***************************************************************************)
EXTENDS StrategyRules

CONSTANTS
    BarWindow,        \* _BAR_WINDOW: one-minute bars kept
    EmaSeed,          \* updates until the EMA has a value
    SlowSeed,         \* updates until there is a MACD point
    SignalSeed,       \* updates until the point has a signal line
    Tape,             \* the shapes each minute of the day may have
    Open,             \* the price the day opens at
    TenSecondShapes,  \* shapes of ten-second bars
    MaxExtra,         \* bound: bars beyond one a minute
    MaxSessions,      \* bound: sessions
    EmaOffsets,       \* EMA values explored, relative to the close
    Views,            \* what the session hands over with a bar
    FillOffsets,      \* fill price above the signal's entry price
    Opens,            \* records of prevClose and gap: how a next day may begin
    Ranks             \* market ranks explored

\* The place of a minute without a bar.
NoBar == [v |-> 0]

\* A candle's open and close lie between its low and its high.
IsCandle(shape) ==
    /\ shape \in [o : Int, h : Int, l : Int, c : Int, v : Nat]
    /\ {shape.o, shape.c} \subseteq shape.l .. shape.h

ASSUME EngineAssumption ==
    /\ {BarWindow, MaxSessions} \subseteq Nat \ {0}
    /\ {EmaSeed, SlowSeed, SignalSeed} \subseteq Nat
    /\ EmaSeed <= SlowSeed /\ SlowSeed <= SignalSeed
    /\ Open \in Int /\ Len(Tape) \in Nat
    /\ \A m \in 1 .. Len(Tape) : \A shape \in Tape[m] \ {NoBar} : IsCandle(shape)
    /\ \A shape \in TenSecondShapes : IsCandle(shape)
    /\ EmaOffsets \subseteq Int /\ FillOffsets \subseteq Nat
    /\ Opens \subseteq [prevClose : Int, gap : Int]
    /\ Views \subseteq [tierB : BOOLEAN, l2 : STRING, spread : Int, market : STRING,
                        rvol : Int, float : Nat \cup {None},
                        attention : {"prime", "watch", "ignore"}, reverseSplit : BOOLEAN]

VARIABLES
    sym,        \* the SymbolState
    out,        \* what the last on_bar returned, until the caller has acted on it
    minute,     \* the clock, in minutes of the session
    sessions    \* how many sessions have begun

vars == <<sym, out, minute, sessions>>

NoPosition == [held |-> FALSE]
Silent == [kind |-> "none"]

\* A session's own fields as reset_session leaves them.
FreshSession(prevClose, gap) ==
    [bars |-> <<>>, updates |-> 0, pv |-> 0, vol |-> 0, position |-> NoPosition,
     intradayHigh |-> 0, prevClose |-> prevClose, gap |-> gap,
     haltedResume |-> FALSE, rank |-> None]

Init ==
    /\ sym = FreshSession(None, 0)
    /\ out = Silent
    /\ minute = 0
    /\ sessions = 1

-----------------------------------------------------------------------------
(* Feeding a bar.                                                          *)

LastPrice == IF sym.bars = <<>> THEN Open ELSE Signal(sym.bars).c

\* A shape is a candle around the price the last one closed at.
BarOf(shape) ==
    LET p == LastPrice
    IN  [o |-> p + shape.o, h |-> p + shape.h, l |-> p + shape.l, c |-> p + shape.c,
         v |-> shape.v, ts |-> minute + 1]

\* Every bar, of whatever timeframe, moves the indicators and the day's high.
Absorb(bar) ==
    [sym EXCEPT !.updates = @ + 1,
                !.pv = @ + (bar.h + bar.l + bar.c) * bar.v,
                !.vol = @ + bar.v,
                !.intradayHigh = Max({@, bar.h})]

\* Mutation: one bar too many is kept.
KeepOneMore(seq, k) == SubSeq(seq, Max({1, Len(seq) - k}), Len(seq))
KeepLast(seq, k) == SubSeq(seq, Max({1, Len(seq) - k + 1}), Len(seq))

Vwap(s) == [pv |-> s.pv, vol |-> s.vol]
EmaValues(s, price) == IF s.updates < EmaSeed THEN {None} ELSE {price + d : d \in EmaOffsets}
MacdValues(s) ==
    IF s.updates < SlowSeed THEN {"unseeded"}
    ELSE IF s.updates < SignalSeed THEN {"partial"} ELSE {"up", "down"}

EntrySignal(s, view, ema9, ctx) ==
    LET bar == Signal(s.bars)
        pattern == RecognizePattern(s.bars, ctx, Vwap(s), s, view.reverseSplit)
        stop == StopPrice(s.bars, ctx)
    IN  [kind |-> "entry", pattern |-> pattern, trigger |-> EffectiveTrigger(view.market),
         conviction |-> ScoreConviction(pattern, view, ctx, bar.c, ema9, Vwap(s)),
         entry |-> bar.c, stop |-> stop, target |-> TargetPrice(bar.c, stop)]

\* Not in a position: an entry, a warning about a failed pattern, or nothing.
SignalFlat(s, view, ema9, macd) ==
    LET contexts == FindPullbackContext(s.bars)
    IN  IF EntryGate(s.bars, macd, view)
        THEN EntrySignal(s, view, ema9, CHOOSE ctx \in contexts : TRUE)
        ELSE IF \E ctx \in contexts : IsFailedPattern(s.bars, Vwap(s), ema9, macd, ctx)
             THEN [kind |-> "failed"] ELSE Silent

\* In a position: the high watermark, then the exit rules.
Watched(s) == [s EXCEPT !.position.watermark = Max({@, Signal(s.bars).c})]

SignalHolding(s, view) ==
    LET reason == EvaluateExit(s.position, s.bars, view.l2, Vwap(s), s.rank, s.intradayHigh)
    IN  CASE reason = "hold" -> Silent
          [] reason = "scale_strength" ->
                [kind |-> "scale", reason |-> reason, stop |-> s.position.entry]
          [] OTHER -> [kind |-> "exit", reason |-> reason]

\* A one-minute bar: on_bar to its end.
OneMinuteBar ==
    /\ minute < Len(Tape)
    /\ minute' = minute + 1
    /\ \E shape \in Tape[minute + 1] \ {NoBar}, view \in Views :
        LET bar == BarOf(shape)
            fed == [Absorb(bar) EXCEPT !.bars = KeepLast(Append(@, bar), BarWindow)]
        IN  IF fed.position.held
            THEN LET s == Watched(fed)
                 IN  /\ out' = SignalHolding(s, view)
                     /\ sym' = IF out'.kind = "exit"
                               THEN [s EXCEPT !.position = NoPosition] ELSE s
            ELSE /\ \E ema9 \in EmaValues(fed, bar.c), macd \in MacdValues(fed) :
                        out' = SignalFlat(fed, view, ema9, macd)
                 /\ sym' = fed
    /\ UNCHANGED sessions

\* A ten-second bar (or one of an unknown timeframe) signals nothing.
TenSecondBar ==
    /\ sym.updates < minute + MaxExtra
    /\ \E shape \in TenSecondShapes : sym' = Absorb(BarOf(shape))
    /\ out' = Silent
    /\ UNCHANGED <<minute, sessions>>

\* A minute the session drops: its bar never reaches the engine.
MissedMinute ==
    /\ minute < Len(Tape) /\ NoBar \in Tape[minute + 1]
    /\ minute' = minute + 1
    /\ UNCHANGED <<sym, out, sessions>>

-----------------------------------------------------------------------------
(* The callers.                                                            *)

\* The entry is filled at or above the signal's price; its bar's time is the
\* position's entry time.
OpenPosition ==
    /\ out.kind = "entry"
    /\ \E offset \in FillOffsets :
        sym' = [sym EXCEPT !.position =
                  [held |-> TRUE, entry |-> out.entry + offset, stop |-> out.stop, target |-> out.target,
                   entryTs |-> Signal(sym.bars).ts,
                   watermark |-> out.entry + offset]]
    /\ out' = Silent
    /\ UNCHANGED <<minute, sessions>>

ClosePosition ==
    /\ sym.position.held
    /\ sym' = [sym EXCEPT !.position = NoPosition]
    /\ UNCHANGED <<out, minute, sessions>>

\* Mutation: the new position record starts with a new watermark.
UpdateStopAfresh ==
    /\ out.kind = "scale" /\ sym.position.held
    /\ sym' = [sym EXCEPT !.position.stop = out.stop, 
                        !.position.watermark = sym.position.entry]
    /\ out' = Silent
    /\ UNCHANGED <<minute, sessions>>

\* The caller scaled out as the signal said.
UpdateStop ==
    /\ out.kind = "scale" /\ sym.position.held
    /\ sym' = [sym EXCEPT !.position.stop = out.stop]
    /\ out' = Silent
    /\ UNCHANGED <<minute, sessions>>

SetHaltedResume ==
    /\ \E value \in BOOLEAN : value # sym.haltedResume
                              /\ sym' = [sym EXCEPT !.haltedResume = value]
    /\ UNCHANGED <<out, minute, sessions>>

SetMarketRank ==
    /\ \E rank \in Ranks : rank # sym.rank /\ sym' = [sym EXCEPT !.rank = rank]
    /\ UNCHANGED <<out, minute, sessions>>

\* Mutation: the VWAP of the day before lives on.
ResetKeepsVwap ==
    /\ minute = Len(Tape) /\ sessions < MaxSessions
    /\ \E day \in Opens :
        sym' = [FreshSession(day.prevClose, day.gap) EXCEPT !.pv = sym.pv, !.vol = sym.vol]
    /\ out' = Silent
    /\ minute' = 0
    /\ sessions' = sessions + 1

\* The caller has the previous close and the gap of the day that begins.
ResetSession ==
    /\ minute = Len(Tape) /\ sessions < MaxSessions
    /\ \E day \in Opens : sym' = FreshSession(day.prevClose, day.gap)
    /\ out' = Silent
    /\ minute' = 0
    /\ sessions' = sessions + 1

Next ==
    \/ OneMinuteBar
    \/ TenSecondBar
    \/ MissedMinute
    \/ OpenPosition
    \/ ClosePosition
    \/ UpdateStop
    \/ SetHaltedResume
    \/ SetMarketRank
    \/ ResetSession

Spec == Init /\ [][Next]_vars

-----------------------------------------------------------------------------
(* Properties.                                                             *)

Holding == sym.position.held

\* Types: the session's counters, the position if there is one, the signal.
TypeOK ==
    /\ {sym.updates, sym.vol, sym.intradayHigh} \subseteq Nat /\ sym.pv \in Int
    /\ Len(sym.bars) <= BarWindow
    /\ sym.haltedResume \in BOOLEAN /\ sym.rank \in Ranks \cup {None}
    /\ Holding => {sym.position.entry, sym.position.stop, sym.position.target,
                   sym.position.watermark} \subseteq Int
    /\ out.kind \in {"none", "entry", "failed", "scale", "exit"}
    /\ minute \in 0 .. Len(Tape) /\ sessions \in 1 .. MaxSessions

\* An entry taken on the close of its candle has its stop below and its target
\* twice as far above, whatever the pullback looked like: the risk that
\* evaluate_entry_gate never compares, and that compute_size divides by, is
\* positive.
EntryIsTradable ==
    out.kind = "entry" /\ out.trigger = "candle_close" =>
        /\ out.stop < out.entry
        /\ out.target - out.entry = 2 * (out.entry - out.stop)
        /\ out.conviction \in 2500 .. 10000

\* Whatever was signalled and moved in between, a position the engine still
\* believes in closed its last bar above its stop: a raised stop is never put
\* above a close that nobody will look at again.
StopHonoured ==
    Holding /\ Signal(sym.bars).ts > sym.position.entryTs
        => Signal(sym.bars).c > sym.position.stop

\* The high watermark is the best of the fill and of every close the engine
\* saw since the entry: moving the stop does not lose it, and a close that has
\* left the window of bars still counts.
WatermarkSeesEveryClose ==
    LET since == {j \in DOMAIN sym.bars : sym.bars[j].ts > sym.position.entryTs}
        seen == {sym.position.entry} \cup {sym.bars[i].c : i \in since}
    IN  Holding =>
            /\ sym.position.watermark >= Max(seen)
            /\ since # DOMAIN sym.bars => sym.position.watermark = Max(seen)

\* The VWAP averages this session's bars only: it never lies above the
\* session's high, also when yesterday traded far higher.
VwapWithinSession == sym.pv <= 3 * sym.vol * sym.intradayHigh

\* "Trigger: retest/break HOD OR hit $0.50/$1.00 psyche level" (exit_engine.py):
\* a close above every earlier price of the day, with the move-to-breakeven gain
\* made and no stronger exit, scales out.
HodBreakScales ==
    [][Holding /\ sym'.bars # sym.bars /\ minute' # minute
         /\ Signal(sym'.bars).c > sym.intradayHigh
         /\ Signal(sym'.bars).c - sym.position.entry >= MoveBeTrigger
         /\ sessions' = sessions
         => out'.kind \in {"scale", "exit"}]_vars
=============================================================================
