---------------------------- MODULE LiveSession ----------------------------
(***************************************************************************)
(* core/live/session.py: the live trading session.  Five asyncio tasks     *)
(* share the tracked positions, the freeze flag, the strategy engine and   *)
(* the risk manager, and talk to one broker:                               *)
(*                                                                         *)
(*   bar     turns each 1-minute bar into an entry or an exit order        *)
(*   stop    polls the quote of every tracked position (mental stop, U13)  *)
(*   eod     flattens everything at EOD_FLATTEN_TIME and ends the session  *)
(*   recon   compares the broker's positions with the tracked ones         *)
(*   watch   freezes entries on a stale feed and tries to flatten          *)
(*                                                                         *)
(* The event loop runs one task at a time and switches only at an await,   *)
(* so an action is the code from one await to the next.  wait[t] is what   *)
(* task t awaits: a request goes out with status "sent", the broker acts   *)
(* on it in a step of its own, and a later step of t resumes with the      *)
(* reply, which may be old news by then.                                   *)
(*                                                                         *)
(* Every position is one lot.  Bars, quotes and share counts are left      *)
(* out: a bar may or may not signal, and breached is the set of symbols    *)
(* whose bid is at or below the stop of a position in them.                *)
(***************************************************************************)
EXTENDS RiskState

CONSTANTS
  MaxAttempts,   \* RECONNECT_MAX_ATTEMPTS
  MaxHeld,       \* bound: lots of one symbol at the broker
  Faults,        \* what may go wrong outside, a subset of FaultKinds
  NoSymbol

FaultKinds ==
  {"refused",         \* an order is rejected
   "unfilled",        \* an order is accepted and expires without a fill
   "lost_ack",        \* an order fills and the call reports an error
   "short",           \* a sale of what is not held fills, as margin accounts do
   "flatten_error",   \* close_all_positions closes some or none, yet acks come back
   "positions_error", \* get_all_positions fails: the adapter answers {}
   "quote_error"}     \* get_quote raises

ASSUME SessionConfig ==
  /\ MaxAttempts \in Nat
  /\ MaxHeld \in Nat \ {0}
  /\ Faults \subseteq FaultKinds
  /\ NoSymbol \notin Symbols
  /\ Prices # {}

VARIABLES
  session,     \* "running", "stopping" (stop event set) or "ended"
  tracked,     \* the symbols of _open
  engine,      \* the symbols with a position in the strategy engine
  risk,        \* the risk manager's state
  frozen,      \* _frozen
  feed,        \* age of _last_bar_ts: "silent" (None), "fresh" or "stale"
  clock,       \* "morning", "late" (past HARD_STOP_TIME), "close" (past EOD)
  breached,    \* symbols whose bid is at or below the stop
  wait,        \* what each task awaits
  todo,        \* the positions the stop task has still to look at in this pass
  attempt,     \* the flatten attempt the watch task is in
  reported,    \* the positions the broker last reported to the recon task
  held,        \* lots the broker really holds, negative when short
  eodDone,     \* history: the end-of-day flatten has completed
  frozenBuys,  \* history: buys sent since the freeze began
  reconciled   \* history: a reconciliation completed since the freeze began

history == <<eodDone, frozenBuys, reconciled>>
market  == <<feed, clock, breached>>
vars == <<session, tracked, engine, risk, frozen, feed, clock, breached, wait,
          todo, attempt, reported, held, eodDone, frozenBuys, reconciled>>

\* What the broker lets an account hold of one symbol.
Lots == (IF "short" \in Faults THEN -MaxHeld ELSE 0) .. MaxHeld

Tasks == {"bar", "stop", "eod", "recon", "watch"}

Asleep == [op |-> "none", sym |-> NoSymbol, status |-> "idle"]
Dead   == [op |-> "dead", sym |-> NoSymbol, status |-> "idle"]
Sent(op, s) == [op |-> op, sym |-> s, status |-> "sent"]

Waits ==
  [op     : {"none", "dead", "quote", "buy", "sell", "flatten", "positions", "delay"},
   sym    : Symbols \union {NoSymbol},
   status : {"idle", "sent", "accepted", "refused"}]

TypeOK ==
  /\ session \in {"running", "stopping", "ended"}
  /\ tracked \subseteq Symbols
  /\ engine \subseteq Symbols
  /\ risk \in RiskStates
  /\ frozen \in BOOLEAN
  /\ feed \in {"silent", "fresh", "stale"}
  /\ clock \in {"morning", "late", "close"}
  /\ breached \subseteq Symbols
  /\ wait \in [Tasks -> Waits]
  /\ todo \subseteq Symbols
  /\ attempt \in 0 .. MaxAttempts
  /\ reported \subseteq Symbols
  /\ held \in [Symbols -> Lots]
  /\ eodDone \in BOOLEAN
  /\ frozenBuys \in Nat
  /\ reconciled \in BOOLEAN

\* run() has passed its gates, reset the engine and the guard and started
\* the tasks; the broker is flat, as U3 leaves it.
Init ==
  /\ session = "running"
  /\ tracked = {} /\ engine = {} /\ risk = FreshState
  /\ frozen = FALSE
  /\ feed = "silent" /\ clock = "morning" /\ breached = {}
  /\ wait = [t \in Tasks |-> Asleep]
  /\ todo = {} /\ attempt = 0 /\ reported = {}
  /\ held = [s \in Symbols |-> 0]
  /\ eodDone = FALSE /\ frozenBuys = 0 /\ reconciled = FALSE

\* The one entry price: nothing here depends on its amount.
Entry == CHOOSE p \in Prices : TRUE

Resumes(t, op) == session # "ended" /\ wait[t].op = op
Wakes(t) == session # "ended" /\ wait[t] = Asleep  \* sleep, then no second look
Answered(t, op) == Resumes(t, op) /\ wait[t].status \in {"accepted", "refused"}
Awaits(t, w) == wait' = [wait EXCEPT ![t] = w]

\* Mutant of Forget: the engine is not told.
ForgetButEngine(S) ==
  /\ risk' = AfterFlatCloses(risk, S)
  /\ engine' = engine
  /\ tracked' = tracked \ S

\* record_close, close_position and the removal from _open, for a set of
\* symbols; every live caller reports a result of zero.
Forget(S) ==
  /\ risk' = AfterFlatCloses(risk, S)
  /\ engine' = engine \ S
  /\ tracked' = tracked \ S

----------------------------------------------------------------------------
(* bar: _bar_loop, _handle_entry, _handle_exit *)

\* Mutant of BarArrives: the freeze is not looked at.
BarIgnoresFreeze(s) ==
  /\ Wakes("bar") /\ session = "running"
  /\ feed' = "fresh"
  /\ Awaits("bar", Sent("quote", s))
  /\ UNCHANGED <<session, tracked, engine, risk, frozen, clock, breached, todo,
                 attempt, reported, held, history>>

\* A bar refreshes the watchdog's clock even when the freeze then skips it.
BarArrives(s) ==
  /\ Wakes("bar") /\ session = "running"
  /\ feed' = "fresh"
  /\ IF frozen THEN UNCHANGED wait ELSE Awaits("bar", Sent("quote", s))
  /\ UNCHANGED <<session, tracked, engine, risk, frozen, clock, breached, todo,
                 attempt, reported, held, history>>

\* Mutant of BarIsLate: HARD_STOP_TIME is not enforced.
BarNeverLate == {FALSE}

\* The gate reads the bar's own time: a bar that waited in the queue past
\* HARD_STOP_TIME still counts as an early one.
BarIsLate == CASE clock = "morning" -> {FALSE}
               [] clock = "late"    -> BOOLEAN
               [] clock = "close"   -> {TRUE}

Signal(s, late) ==
  [symbol |-> s, entry |-> Entry, universe |-> TRUE, rrOk |-> TRUE,
   catalystSkip |-> FALSE, late |-> late]

\* Mutant of BarEnters: only the engine is asked for a position.
BarEntersTwice(s) ==
  /\ Resumes("bar", "quote") /\ wait["bar"].sym = s
  /\ s \notin engine
  /\ \E late \in BarIsLate : Vetoes(risk, Signal(s, late), 100 * AvgWinDayPnl) = {}
  /\ Awaits("bar", Sent("buy", s))
  /\ frozenBuys' = frozenBuys + (IF frozen THEN 1 ELSE 0)
  /\ UNCHANGED <<session, tracked, engine, risk, frozen, market, todo, attempt,
                 reported, held, eodDone, reconciled>>

\* The freeze is not looked at again once the quote is here.
BarEnters(s) ==
  /\ Resumes("bar", "quote") /\ wait["bar"].sym = s
  /\ s \notin engine                     \* the engine looks for entries
  /\ s \notin tracked
  /\ \E late \in BarIsLate : Vetoes(risk, Signal(s, late), 100 * AvgWinDayPnl) = {}
  /\ Awaits("bar", Sent("buy", s))
  /\ frozenBuys' = frozenBuys + (IF frozen THEN 1 ELSE 0)
  /\ UNCHANGED <<session, tracked, engine, risk, frozen, market, todo, attempt,
                 reported, held, eodDone, reconciled>>

\* The engine forgets its position before the broker has agreed to sell.
BarExits(s) ==
  /\ Resumes("bar", "quote") /\ wait["bar"].sym = s
  /\ s \in engine
  /\ engine' = engine \ {s}
  /\ Awaits("bar", IF s \in tracked THEN Sent("sell", s) ELSE Asleep)
  /\ UNCHANGED <<session, tracked, risk, frozen, market, todo, attempt,
                 reported, held, history>>

\* No signal, a scale-out (which the live loop ignores) or a veto.
BarPasses ==
  /\ Resumes("bar", "quote")
  /\ Awaits("bar", Asleep)
  /\ UNCHANGED <<session, tracked, engine, risk, frozen, market, todo, attempt,
                 reported, held, history>>

\* Nothing catches an exception in this task.
BarQuoteFails ==
  /\ Resumes("bar", "quote") /\ "quote_error" \in Faults
  /\ Awaits("bar", Dead)
  /\ UNCHANGED <<session, tracked, engine, risk, frozen, market, todo, attempt,
                 reported, held, history>>

BarBuyAnswered(s) ==
  /\ Answered("bar", "buy") /\ wait["bar"].sym = s
  /\ IF wait["bar"].status = "accepted"
     THEN /\ risk' = AfterOpen(risk, s, Entry)
          /\ engine' = engine \union {s}
          /\ tracked' = tracked \union {s}
     ELSE UNCHANGED <<risk, engine, tracked>>
  /\ Awaits("bar", Asleep)
  /\ UNCHANGED <<session, frozen, market, todo, attempt, reported, held, history>>

\* `del self._open[symbol]` raises when another task took the symbol out
\* during the sale, and the exception ends the task.
BarSellAnswered(s) ==
  /\ Answered("bar", "sell") /\ wait["bar"].sym = s
  /\ IF wait["bar"].status = "accepted"
     THEN /\ risk' = AfterClose(risk, s, 0)
          /\ engine' = engine \ {s}
          /\ tracked' = tracked \ {s}
          /\ Awaits("bar", IF s \in tracked THEN Asleep ELSE Dead)
     ELSE /\ Awaits("bar", Asleep)
          /\ UNCHANGED <<risk, engine, tracked>>
  /\ UNCHANGED <<session, frozen, market, todo, attempt, reported, held, history>>

----------------------------------------------------------------------------
(* stop: _mental_stop_loop *)

\* Mutant of StopPassStarts: the polls end with the entries of the day.
StopPassEndsEarly ==
  /\ clock = "morning"
  /\ Wakes("stop") /\ todo = {}
  /\ ~frozen
  /\ tracked # {}
  /\ todo' = tracked
  /\ UNCHANGED <<session, tracked, engine, risk, frozen, market, wait, attempt,
                 reported, held, history>>

\* A pass starts from a copy of _open; a freeze skips the whole pass.
StopPassStarts ==
  /\ Wakes("stop") /\ todo = {}
  /\ ~frozen
  /\ tracked # {}
  /\ todo' = tracked
  /\ UNCHANGED <<session, tracked, engine, risk, frozen, market, wait, attempt,
                 reported, held, history>>

\* The copy is trusted: a symbol that left _open meanwhile is still sold.
StopFires(s) ==
  /\ Resumes("stop", "none") /\ s \in todo
  /\ s \in breached
  /\ Awaits("stop", Sent("sell", s))
  /\ UNCHANGED <<session, tracked, engine, risk, frozen, market, todo, attempt,
                 reported, held, history>>

\* Not breached, or the quote failed and the loop goes on.
StopHolds(s) ==
  /\ Resumes("stop", "none") /\ s \in todo
  /\ s \notin breached \/ "quote_error" \in Faults
  /\ todo' = todo \ {s}
  /\ UNCHANGED <<session, tracked, engine, risk, frozen, market, wait, attempt,
                 reported, held, history>>

\* The missing key, when there is one, is caught here.
StopSellAnswered(s) ==
  /\ Answered("stop", "sell") /\ wait["stop"].sym = s
  /\ IF wait["stop"].status = "accepted"
     THEN Forget({s})
     ELSE UNCHANGED <<risk, engine, tracked>>
  /\ todo' = todo \ {s}
  /\ Awaits("stop", Asleep)
  /\ UNCHANGED <<session, frozen, market, attempt, reported, held, history>>

----------------------------------------------------------------------------
(* eod: _eod_flatten_loop *)

\* Mutant of EodFlattens: the comparison with EOD_FLATTEN_TIME is inverted.
EodInverted ==
  /\ Wakes("eod")
  /\ clock # "close" /\ tracked # {}
  /\ Awaits("eod", Sent("flatten", NoSymbol))
  /\ UNCHANGED <<session, tracked, engine, risk, frozen, market, todo, attempt,
                 reported, held, history>>

EodFlattens ==
  /\ Wakes("eod")
  /\ clock = "close" /\ tracked # {}
  /\ Awaits("eod", Sent("flatten", NoSymbol))
  /\ UNCHANGED <<session, tracked, engine, risk, frozen, market, todo, attempt,
                 reported, held, history>>

\* Mutant of EodAnswered: only what the engine still has is cleared.
EodClearsEngine ==
  /\ Answered("eod", "flatten")
  /\ Forget(engine)
  /\ session' = "stopping"
  /\ eodDone' = TRUE
  /\ Awaits("eod", Asleep)
  /\ UNCHANGED <<frozen, market, todo, attempt, reported, held, frozenBuys,
                 reconciled>>

\* The acks are not looked at.
EodAnswered ==
  /\ Answered("eod", "flatten")
  /\ Forget(tracked)
  /\ session' = "stopping"
  /\ eodDone' = TRUE
  /\ Awaits("eod", Asleep)
  /\ UNCHANGED <<frozen, market, todo, attempt, reported, held, frozenBuys,
                 reconciled>>

----------------------------------------------------------------------------
(* recon: _reconcile_loop *)

ReconAsks ==
  /\ Wakes("recon")
  /\ Awaits("recon", Sent("positions", NoSymbol))
  /\ UNCHANGED <<session, tracked, engine, risk, frozen, market, todo, attempt,
                 reported, held, history>>

\* Mutant of InternalOnly: the difference is taken the wrong way round.
BrokerOnly == reported \ tracked

\* What the broker held when it answered against what is tracked now.
\* Ghosts and quantity differences are only logged.
InternalOnly == tracked \ reported

ReconAnswered ==
  /\ Answered("recon", "positions")
  /\ Forget(InternalOnly)
  /\ reconciled' = TRUE
  /\ reported' = {}
  /\ Awaits("recon", Asleep)
  /\ UNCHANGED <<session, frozen, market, todo, attempt, held, eodDone,
                 frozenBuys>>

----------------------------------------------------------------------------
(* watch: _feed_watchdog_loop, _handle_disconnect *)

WatchUnfreezes ==
  /\ Wakes("watch")
  /\ feed = "fresh" /\ frozen
  /\ frozen' = FALSE
  /\ frozenBuys' = 0
  /\ UNCHANGED <<session, tracked, engine, risk, market, wait, todo, attempt,
                 reported, held, eodDone, reconciled>>

\* Mutant of WatchFreezes: the flatten belongs to the moment of the freeze.
WatchFreezesOnce ==
  /\ Wakes("watch")
  /\ feed = "stale" /\ ~frozen
  /\ frozen' = TRUE
  /\ reconciled' = (reconciled /\ frozen)
  /\ IF tracked # {} /\ MaxAttempts > 0
     THEN Awaits("watch", Sent("flatten", NoSymbol)) /\ attempt' = 1
     ELSE UNCHANGED <<wait, attempt>>
  /\ UNCHANGED <<session, tracked, engine, risk, market, todo, reported, held,
                 eodDone, frozenBuys>>

WatchFreezes ==
  /\ Wakes("watch")
  /\ feed = "stale"
  /\ frozen' = TRUE
  /\ reconciled' = (reconciled /\ frozen)
  /\ IF tracked # {} /\ MaxAttempts > 0
     THEN Awaits("watch", Sent("flatten", NoSymbol)) /\ attempt' = 1
     ELSE UNCHANGED <<wait, attempt>>
  /\ UNCHANGED <<session, tracked, engine, risk, market, todo, reported, held,
                 eodDone, frozenBuys>>

\* Any ack at all, an error ack included, counts as a flat account.
WatchAnswered ==
  /\ Answered("watch", "flatten")
  /\ IF wait["watch"].status = "accepted"
     THEN Forget(tracked) /\ Awaits("watch", Asleep) /\ attempt' = 0
     ELSE /\ Awaits("watch", [Asleep EXCEPT !.op = "delay"])
          /\ UNCHANGED <<risk, engine, tracked, attempt>>
  /\ UNCHANGED <<session, frozen, market, todo, reported, held, history>>

\* Mutant of WatchRetries: one attempt too many.
WatchRetriesOneMore ==
  /\ Resumes("watch", "delay")
  /\ IF attempt <= MaxAttempts
     THEN Awaits("watch", Sent("flatten", NoSymbol)) /\ attempt' = attempt + 1
     ELSE Awaits("watch", Asleep) /\ attempt' = 0
  /\ UNCHANGED <<session, tracked, engine, risk, frozen, market, todo, reported,
                 held, history>>

WatchRetries ==
  /\ Resumes("watch", "delay")
  /\ IF attempt < MaxAttempts
     THEN Awaits("watch", Sent("flatten", NoSymbol)) /\ attempt' = attempt + 1
     ELSE Awaits("watch", Asleep) /\ attempt' = 0
  /\ UNCHANGED <<session, tracked, engine, risk, frozen, market, todo, reported,
                 held, history>>

----------------------------------------------------------------------------
(* The session itself *)

\* stop() from outside.
Stop ==
  /\ session = "running"
  /\ session' = "stopping"
  /\ UNCHANGED <<tracked, engine, risk, frozen, market, wait, todo, attempt,
                 reported, held, history>>

\* run() sees the stop event and cancels the tasks; requests that are out
\* are not withdrawn.
RunEnds ==
  /\ session = "stopping"
  /\ session' = "ended"
  /\ UNCHANGED <<tracked, engine, risk, frozen, market, wait, todo, attempt,
                 reported, held, history>>

----------------------------------------------------------------------------
(* The market and the broker *)

\* Nothing outside moves once the session is over, except the broker.
FeedStops ==
  /\ session # "ended"
  /\ feed = "fresh"
  /\ feed' = "stale"
  /\ UNCHANGED <<session, tracked, engine, risk, frozen, clock, breached, wait,
                 todo, attempt, reported, held, history>>

\* Hours lie between HARD_STOP_TIME and EOD_FLATTEN_TIME: no buy is out
\* for that long.
ClockMoves ==
  /\ session # "ended"
  /\ \/ clock = "morning" /\ clock' = "late"
     \/ clock = "late" /\ wait["bar"].op \notin {"quote", "buy"} /\ clock' = "close"
  /\ UNCHANGED <<session, tracked, engine, risk, frozen, feed, breached, wait,
                 todo, attempt, reported, held, history>>

\* Only a position has a stop to breach; a copy of it may outlive it.
PriceMoves(s) ==
  /\ session # "ended"
  /\ s \in tracked \union breached
  /\ breached' = IF s \in breached THEN breached \ {s} ELSE breached \union {s}
  /\ UNCHANGED <<session, tracked, engine, risk, frozen, feed, clock, wait,
                 todo, attempt, reported, held, history>>

Out(t, op) == wait[t].op = op /\ wait[t].status = "sent"
Replies(t, status) == wait' = [wait EXCEPT ![t].status = status]

\* delta lots of s if the order fills.
OrderExecutes(t, s, delta) ==
  /\ \/ /\ held[s] + delta \in Lots
        /\ held' = [held EXCEPT ![s] = @ + delta]
        /\ \/ Replies(t, "accepted")
           \/ "lost_ack" \in Faults /\ Replies(t, "refused")
     \/ /\ held[s] + delta \notin Lots \/ "refused" \in Faults
        /\ UNCHANGED held
        /\ Replies(t, "refused")
     \/ /\ "unfilled" \in Faults
        /\ UNCHANGED held
        /\ Replies(t, "accepted")
  /\ UNCHANGED <<session, tracked, engine, risk, frozen, market, todo, attempt,
                 reported, history>>

BrokerBuys(s) == Out("bar", "buy") /\ wait["bar"].sym = s /\ OrderExecutes("bar", s, 1)

BrokerSells(t, s) == Out(t, "sell") /\ wait[t].sym = s /\ OrderExecutes(t, s, -1)

\* An empty account gives no acks; an error gives one.
BrokerFlattens(t) ==
  /\ Out(t, "flatten")
  /\ \/ /\ held' = [s \in Symbols |-> 0]
        /\ Replies(t, IF \E s \in Symbols : held[s] # 0 THEN "accepted" ELSE "refused")
     \/ /\ "flatten_error" \in Faults
        /\ \E S \in SUBSET Symbols :
             held' = [s \in Symbols |-> IF s \in S THEN 0 ELSE held[s]]
        /\ Replies(t, "accepted")
  /\ UNCHANGED <<session, tracked, engine, risk, frozen, market, todo, attempt,
                 reported, history>>

\* get_broker_positions leaves out a short position.
BrokerReports ==
  /\ Out("recon", "positions")
  /\ \/ reported' = {s \in Symbols : held[s] > 0}
     \/ "positions_error" \in Faults /\ reported' = {}
  /\ Replies("recon", "accepted")
  /\ UNCHANGED <<session, tracked, engine, risk, frozen, market, todo, attempt,
                 held, history>>

----------------------------------------------------------------------------

BarTask ==
  \/ \E s \in Symbols : BarEnters(s) \/ BarExits(s)
  \/ BarPasses
  \/ BarQuoteFails
  \/ \E s \in Symbols : BarBuyAnswered(s) \/ BarSellAnswered(s)

StopTask ==
  \/ StopPassStarts
  \/ \E s \in Symbols : StopFires(s) \/ StopHolds(s) \/ StopSellAnswered(s)

EodTask == EodFlattens \/ EodAnswered

ReconTask == ReconAsks \/ ReconAnswered

WatchTask == WatchUnfreezes \/ WatchFreezes \/ WatchAnswered \/ WatchRetries

Serves(t) ==
  \/ \E s \in Symbols : (t = "bar" /\ BrokerBuys(s)) \/ BrokerSells(t, s)
  \/ BrokerFlattens(t)
  \/ t = "recon" /\ BrokerReports

Broker == \E t \in Tasks : Serves(t)

Environment ==
  \/ \E s \in Symbols : BarArrives(s) \/ PriceMoves(s)
  \/ FeedStops
  \/ ClockMoves
  \/ Stop

Next ==
  BarTask \/ StopTask \/ EodTask \/ ReconTask \/ WatchTask \/ RunEnds \/ Broker
    \/ Environment

Spec == Init /\ [][Next]_vars

\* The event loop gives every task its turn and the broker answers every
\* call; a task's sleep ends.  Bars, prices, the clock and the operator
\* promise nothing.
FairSpec ==
  /\ Spec
  /\ WF_vars(BarTask)
  /\ WF_vars(StopTask)
  /\ WF_vars(EodTask)
  /\ WF_vars(ReconTask)
  /\ WF_vars(WatchTask)
  /\ WF_vars(RunEnds)
  /\ \A t \in Tasks : WF_vars(Serves(t))

----------------------------------------------------------------------------
(* Safety *)

\* The three ledgers of one position never drift apart: at every await the
\* risk manager has exactly the tracked positions open, and the strategy
\* engine has no position the session does not track.  Seven places close a
\* position, each updating the three by hand.
LedgersAgree ==
  /\ {s \in Symbols : IsOpen(risk, s)} = tracked
  /\ engine \subseteq tracked

\* An entry that is out at the broker never overwrites a tracked position
\* when it is answered, and the trade it becomes still fits the day's cap:
\* both were checked before the await and are used after it.
EntryStillValid ==
  wait["bar"].op = "buy" =>
    /\ wait["bar"].sym \notin tracked
    /\ risk.trades < MaxTradesPerDay

\* The freeze is tested before the quote is awaited, so a bar that is already
\* past the test may still buy; the runbook's "no new entry signals are
\* processed" holds but for that one order.
OneEntryPerFreeze == frozenBuys <= 1

\* When the end-of-day flatten is done nothing is tracked any more, and
\* nothing becomes tracked later: no entry order survives into that hour.
EodUntracks == eodDone => tracked = {}

\* The two strengthened to what a step preserves: a bar past the freeze test
\* has not bought yet; a flatten that is out belongs to the last hour, in
\* which no buy is out.
FreezeInv ==
  /\ OneEntryPerFreeze
  /\ ~frozen \/ wait["bar"].op = "quote" => frozenBuys = 0

EodInv ==
  /\ EodUntracks
  /\ eodDone \/ wait["eod"].op = "flatten" => clock = "close"
  /\ clock = "close" => wait["bar"].op # "buy"

\* The same of the account itself, for a broker that does what it is asked.
EodMeansFlat == eodDone => \A s \in Symbols : held[s] = 0

\* Such a broker closes what it acknowledges to have closed and sells nothing
\* that is not there; it may still refuse, lose an answer or fill nothing.
BrokerObeys == Faults \cap {"short", "flatten_error"} = {}

\* From the flatten on, not only from its answer on, the account is flat.
FlatInv ==
  eodDone \/ (wait["eod"].op = "flatten" /\ wait["eod"].status # "sent") =>
    \A s \in Symbols : held[s] = 0

\* "No short-sell path exists in the execution layer."
NeverShort == \A s \in Symbols : held[s] >= 0

\* "On reconnect: reconcile positions before resuming any new entries."
ReconciledBeforeResume == [][frozen /\ ~frozen' => reconciled]_vars

\* "If unreachable after all attempts: stays frozen (positions held, no new
\* entries)." (core/live/session.py): what the watchdog stops tracking, the
\* account does not hold.
UnreachableKeepsPositions ==
  [][\A s \in Symbols :
       wait["watch"].op = "flatten" /\ wait'["watch"] = Asleep /\ s \in tracked /\ held[s] > 0
         => s \in tracked']_vars

----------------------------------------------------------------------------
(* Liveness *)

\* A position that session and account agree on, with no answer on its way that
\* would make the session forget it.
Agreed(s) ==
  /\ s \in tracked /\ held[s] = 1
  /\ \A t \in Tasks : wait[t].status # "accepted"

\* When the feed stops, such a position is sold by a broker that does what it is
\* asked: also one that an order past the freeze test opens when the freeze has
\* already begun, and one whose flatten came before its fill.
StaleFeedFlattens ==
  \A s \in Symbols :
    (feed = "stale" /\ Agreed(s)) ~> (held[s] = 0 \/ feed # "stale" \/ session = "ended")

\* A stop that stays breached is worked, unless the freeze suspends the polls.
BreachedStopsExit ==
  \A s \in Symbols :
    <>[](s \in breached /\ ~frozen) => []<>(s \notin tracked \/ session = "ended")

\* A position the broker does not have does not stay tracked.
OrphansLeave ==
  \A s \in Symbols : []<>(s \notin tracked \/ held[s] > 0 \/ session = "ended")

\* A session that reaches EOD_FLATTEN_TIME with positions lets go of them all.
EodComes ==
  (clock = "close" /\ tracked # {}) ~> (tracked = {} \/ session = "ended")

\* U3 "never hold overnight", which the runbook says holds by construction:
\* a session that runs at EOD_FLATTEN_TIME leaves the account flat, unless
\* it is stopped before it could.
NeverOvernight ==
  (clock = "close" /\ session = "running") ~>
    ((\A s \in Symbols : held[s] = 0) \/ (session = "ended" /\ ~eodDone))

=============================================================================
