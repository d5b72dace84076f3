----------------------------- MODULE DemoEngine -----------------------------
(***************************************************************************)
(* src/core/demo/engine.py with its wiring: one event loop, in which the   *)
(* engine's main loop and the operator's requests, each a coroutine of its *)
(* own, take turns at every await.  An action is what runs between two     *)
(* awaits.                                                                 *)
(*                                                                         *)
(* A position is an object that a coroutine may still hold when the book   *)
(* has forgotten or replaced it, so the positions bought live in `lots` in *)
(* the order of their purchase, and `book` maps a symbol to the lot it is  *)
(* tracked under.                                                          *)
(*                                                                         *)
(* Of the clock there is the order in which the times that a close will be *)
(* journalled with are read.  Whether the scan and the strategy are due in *)
(* an iteration, and whether a position is older than BAILOUT_SECONDS, is  *)
(* free.                                                                   *)
(***************************************************************************)
EXTENDS DemoRules

CONSTANTS
    Symbols,
    Snapshots,      \* what a scan may see of a symbol
    BarHistories,   \* what get_bars may return
    Spreads,        \* spreads a quote may have
    Quotes,         \* bids explored
    ManualSizes,    \* quantities of manual orders
    LossLimits,     \* values of MAX_DAILY_LOSS, as configured or overridden
    OpKinds,        \* the operator's requests that are explored
    Refusals,       \* the orders that the broker may refuse
    MaxBuys,        \* bound: the loop buys while fewer orders have been sent
    MaxRequests     \* bound: the operator's requests

ASSUME DemoAssumption ==
    /\ Refusals \subseteq {"buy", "sell"} /\ MaxBuys \in Nat /\ MaxRequests \in Nat
    /\ Quotes \subseteq Nat /\ ManualSizes \subseteq Nat \ {0}
    /\ BarHistories \subseteq Seq([o : Nat, h : Nat, l : Nat, c : Nat])
    /\ LossLimits \subseteq Nat /\ LossLimits # {}
    /\ OpKinds \subseteq {"close", "scale", "stop", "buy", "sell", "trade", "flatten",
                          "kill", "halt", "pause", "override", "scan"}

VARIABLES
    risk,       \* DemoRisk
    lots,       \* the positions ever bought
    book,       \* positions: 0, or the lot a symbol is tracked under
    journal,    \* closed_trades
    tierB,      \* _last_scan_tier_b
    loop,       \* where the main loop is, with its local variables
    op,         \* where each request of the operator is
    paused, autoTrade, maxLoss,
    acct,       \* shares in the broker's account
    requests,   \* the operator's requests so far
    killed,     \* a kill switch has been answered (history)
    late,       \* positions opened after the halt (history)
    gated       \* orders that were past their gate when the day was halted (history)

vars == <<risk, lots, book, journal, tierB, loop, op, paused, autoTrade, maxLoss,
          acct, requests, killed, late, gated>>
settings == <<paused, autoTrade, maxLoss>>
history == <<killed, late, gated>>

Slots == 1 .. MaxRequests
Idle == [at |-> "idle"]

Init ==
    /\ risk = FreshRisk
    /\ lots = <<>> /\ journal = <<>>
    /\ book = [s \in Symbols |-> 0]
    /\ tierB = {}
    /\ loop = Idle /\ op = [r \in Slots |-> Idle]
    /\ paused = FALSE /\ autoTrade = TRUE /\ maxLoss \in LossLimits
    /\ acct = [s \in Symbols |-> 0]
    /\ requests = 0 /\ killed = FALSE /\ late = 0 /\ gated = 0

-----------------------------------------------------------------------------
(* The broker, when it answers: it may refuse an order, it never sells     *)
(* more than there is.                                                     *)

Answers(side) == {TRUE, side \notin Refusals}

Sell(symbol, shares, accepted) ==
    acct' = [acct EXCEPT ![symbol] = IF accepted THEN Max({0, @ - shares}) ELSE @]

CloseAll(accepted) == acct' = IF accepted THEN [s \in Symbols |-> 0] ELSE acct

\* A position is bought and tracked, over one that may be there.
Track(symbol, shares, entry, stop) ==
    /\ lots' = Append(lots, [sym |-> symbol, bought |-> shares, shares |-> shares,
                             entry |-> entry, stop |-> stop, scaled |-> FALSE,
                             scalers |-> 0, closers |-> 0])
    /\ book' = [book EXCEPT ![symbol] = Len(lots) + 1]
    /\ acct' = [acct EXCEPT ![symbol] = @ + shares]
    /\ risk' = [risk EXCEPT !.trades = @ + 1]
    /\ late' = IF risk.halted THEN late + 1 ELSE late

\* The operator's orders to buy that are on their way, and whether the loop may
\* add to what has been sent; the operator's are bounded by the requests.
Ordering == {r \in Slots : op[r].at = "buying"}
MayBuy == Len(lots) + Cardinality(Ordering) < MaxBuys

\* The coroutines that have passed the gate and have not opened their position.
PastGate == Cardinality(Ordering) + (IF loop.at \in {"signalled", "buying"} THEN 1 ELSE 0)

\* The day's record becomes r, which may be halted for the first time.
HaltsTo(r) ==
    /\ risk' = r
    /\ gated' = IF r.halted /\ ~risk.halted THEN PastGate ELSE gated

\* The clock, later than every time that is recorded or will be.
Exiting == {"close_quote", "closing", "scale_quote", "scaling"}
Now == 1 + Max({0} \cup {journal[i].ts : i \in DOMAIN journal}
                   \cup {op[r].now : r \in {q \in Slots : op[q].at \in Exiting}}
                   \cup (IF loop.at = "idle" THEN {} ELSE {loop.now}))

\* A close is journalled and counted in one go, with the time that its coroutine
\* read before its awaits.
Journalled(t, reason, shares, pnl) ==
    /\ journal' = Append(journal, [lot |-> t.lot, shares |-> shares, pnl |-> pnl,
                                   ts |-> t.now, reason |-> reason])
    /\ risk' = RecordClose(risk, pnl)

-----------------------------------------------------------------------------
(* The main loop: _run_scan, _run_strategy, _run_exits.                    *)

\* The scan only reads until it replaces the lists.
Scan(due) == IF due THEN tierB' \in {{s \in Symbols : InTierB(snap[s])} :
                                        snap \in [Symbols -> Snapshots]}
                    ELSE UNCHANGED tierB

\* The positions of the moment the monitor begins, as (symbol, lot) pairs.
Tracked == {<<s, book[s]>> : s \in {t \in Symbols : book[t] # 0}}

\* Before the next symbol of the strategy, before the next one of the monitor.
Strategy(todo) == [at |-> "strategy", todo |-> todo, now |-> loop.now]
Exits(todo) == [at |-> "exits", todo |-> todo, now |-> loop.now]

StartIteration ==
    /\ loop.at = "idle"
    /\ \E due \in BOOLEAN : Scan(due)
    /\ loop' = [at |-> "scanned", now |-> Now]
    /\ UNCHANGED <<risk, lots, book, journal, op, settings, acct, history, requests>>

StartStrategy ==
    /\ loop.at = "scanned"
    /\ \E due \in BOOLEAN : loop' = Strategy(IF due THEN tierB ELSE {})
    /\ UNCHANGED <<risk, lots, book, journal, tierB, op, settings, acct, history, requests>>

\* A symbol that is tracked is skipped; the others wait for bars and a quote.
PickSymbol ==
    /\ loop.at = "strategy" /\ loop.todo # {}
    /\ \E s \in loop.todo :
        loop' = IF book[s] # 0 THEN Strategy(loop.todo \ {s})
                ELSE [at |-> "data", sym |-> s, todo |-> loop.todo \ {s}, now |-> loop.now]
    /\ UNCHANGED <<risk, lots, book, journal, tierB, op, settings, acct, history, requests>>

\* The halt that a veto for strikes or losses makes.
HaltedByGate == IF ~risk.halted /\ ~paused /\ DayIsOver(risk, maxLoss) THEN Halt(risk) ELSE risk

\* Mutation: the gate does not look at the halt.
OpenThoughHalted == ~paused /\ ~DayIsOver(risk, maxLoss)

Open == ~risk.halted /\ ~paused /\ ~DayIsOver(risk, maxLoss)

\* The gates, then the await of the signal's broadcast: approved or not, or no
\* data.  The entry window is one more reason to veto.
Decide ==
    /\ loop.at = "data"
    /\ \/ loop' = Strategy(loop.todo) /\ UNCHANGED <<risk, gated>>     \* no bars, no quote
       \/ \E bars \in BarHistories, up \in BOOLEAN, spread \in Spreads :
            \E gate \in EvaluateEntryGate(bars, up, spread), inWindow \in BOOLEAN :
                LET shares == Sized(risk.pnl, gate.entry, gate.stop)
                IN  IF Open /\ inWindow /\ shares > 0
                    THEN /\ loop' = [at |-> "signalled", sym |-> loop.sym, todo |-> loop.todo,
                                     now |-> loop.now, shares |-> shares,
                                     entry |-> gate.entry, stop |-> gate.stop]
                         /\ UNCHANGED <<risk, gated>>
                    ELSE /\ loop' = Strategy(loop.todo)
                         /\ HaltsTo(IF inWindow THEN HaltedByGate ELSE risk)
    /\ UNCHANGED <<lots, book, journal, tierB, op, settings, acct, killed, late, requests>>

\* AUTO_TRADE is read after the broadcast.
SendBuy ==
    /\ loop.at = "signalled"
    /\ loop' = IF autoTrade /\ MayBuy THEN [loop EXCEPT !.at = "buying"] ELSE Strategy(loop.todo)
    /\ UNCHANGED <<risk, lots, book, journal, tierB, op, settings, acct, history, requests>>

BuyAnswered ==
    /\ loop.at = "buying"
    /\ \E accepted \in Answers("buy") :
        IF accepted
        THEN Track(loop.sym, loop.shares, loop.entry, loop.stop)
        ELSE UNCHANGED <<lots, book, acct, risk, late>>
    /\ loop' = Strategy(loop.todo)
    /\ UNCHANGED <<journal, tierB, op, settings, killed, gated, requests>>

StartExits ==
    /\ loop.at = "strategy" /\ loop.todo = {}
    /\ loop' = Exits(Tracked)
    /\ UNCHANGED <<risk, lots, book, journal, tierB, op, settings, acct, history, requests>>

\* Mutation: a lot that has been scaled out is left to run.
ExitKindsUnlessScaled(lot, bid) ==
    IF lot.scaled THEN {"hold"} ELSE IF bid <= lot.stop THEN {"exit"}
    ELSE {IF older /\ bid - lot.entry < 10 THEN "exit"
          ELSE IF (bid - lot.entry) * 20 >= lot.entry THEN "scale"
          ELSE "hold" : older \in BOOLEAN}

\* What the monitor does with a lot at a bid: P1 and P2 exit, P5 scales out.
ExitKinds(lot, bid) ==
    IF bid <= lot.stop THEN {"exit"}
    ELSE {IF older /\ bid - lot.entry < 10 /\ ~lot.scaled THEN "exit"
          ELSE IF ~lot.scaled /\ (bid - lot.entry) * 20 >= lot.entry THEN "scale"
          ELSE "hold" : older \in BOOLEAN}

Half(shares) == Max({1, shares \div 2})

\* The monitor's turn at one position, when its quote comes.  A quote that fails
\* skips the position.
QuoteComes(p) ==
    \E bid \in Quotes : \E kind \in ExitKinds(lots[p[2]], bid) :
        loop' = IF kind = "hold" THEN Exits(loop.todo \ {p})
                ELSE [at |-> "selling", kind |-> kind, sym |-> p[1], lot |-> p[2],
                      half |-> Half(lots[p[2]].shares), price |-> bid,
                      todo |-> loop.todo \ {p}, now |-> loop.now]

Monitor ==
    /\ loop.at = "exits" /\ loop.todo # {}
    /\ \E p \in loop.todo : loop' = Exits(loop.todo \ {p}) \/ QuoteComes(p)
    /\ UNCHANGED <<risk, lots, book, journal, tierB, op, settings, acct, history, requests>>

\* Mutation: the position is not marked as scaled.
HalfSoldUnmarked(lot, half) == [lot EXCEPT !.shares = @ - half, !.stop = lot.entry]

\* The half sold, the stop goes to the entry.
HalfSold(lot, half) == [lot EXCEPT !.shares = @ - half, !.scaled = TRUE, !.stop = lot.entry]

\* _scale_out after its sale: whatever the ack says.
ScaledOut(t) ==
    /\ lots' = [lots EXCEPT ![t.lot] = HalfSold(@, t.half)]
    /\ Journalled(t, "scale", t.half, (t.price - lots[t.lot].entry) * t.half)
    /\ \E accepted \in Answers("sell") : Sell(t.sym, t.half, accepted)

LoopScaledOut ==
    /\ loop.at = "selling" /\ loop.kind = "scale"
    /\ ScaledOut(loop)
    /\ loop' = Exits(loop.todo)
    /\ UNCHANGED <<book, tierB, op, settings, history, requests>>

\* A full close after its sale: the lot the coroutine holds is journalled, the
\* symbol's entry is deleted, and a deletion of nothing raises.
ClosedOut(t) ==
    /\ \E accepted \in Answers("sell") : Sell(t.sym, acct[t.sym], accepted)
    /\ Journalled(t, "close", lots[t.lot].shares,
                  (t.price - lots[t.lot].entry) * lots[t.lot].shares)
    /\ book' = [book EXCEPT ![t.sym] = 0]
    /\ UNCHANGED lots

LoopClosedOut ==
    /\ loop.at = "selling" /\ loop.kind = "exit"
    /\ ClosedOut(loop)
    /\ loop' = IF book[loop.sym] = 0 THEN Idle
               ELSE [at |-> "reporting", todo |-> loop.todo, now |-> loop.now]
    /\ UNCHANGED <<tierB, op, settings, history, requests>>

\* The halt is decided after the awaits of two broadcasts.
Reported ==
    /\ loop.at = "reporting"
    /\ HaltsTo(IF DayIsOver(risk, maxLoss) THEN Halt(risk) ELSE risk)
    /\ loop' = Exits(loop.todo)
    /\ UNCHANGED <<lots, book, journal, tierB, op, settings, acct, killed, late, requests>>

EndIteration ==
    /\ loop.at = "exits" /\ loop.todo = {}
    /\ loop' = Idle
    /\ UNCHANGED <<risk, lots, book, journal, tierB, op, settings, acct, history, requests>>

-----------------------------------------------------------------------------
(* The operator's requests: request r is a coroutine of its own, which the *)
(* loop and the other requests overtake at every await.                    *)

Asked(r, kind) == r \in Slots /\ r = requests + 1 /\ kind \in OpKinds
Served == requests' = requests + 1

\* Where request r goes on, and where it ends.
Goes(r, to) == op' = [op EXCEPT ![r] = to]
Ends(r) == Goes(r, Idle)

\* close_position and scale_out_position look the lot up, read the clock, then
\* await a quote.
AskClose(r) ==
    /\ Asked(r, "close")
    /\ \E s \in Symbols :
        /\ Goes(r, [at |-> "close_quote", sym |-> s, lot |-> book[s], now |-> Now])
        /\ lots' = IF book[s] = 0 THEN lots ELSE [lots EXCEPT ![book[s]].closers = @ + 1]
    /\ Served
    /\ UNCHANGED <<risk, book, journal, tierB, loop, settings, acct, history>>

AskScale(r) ==
    /\ Asked(r, "scale")
    /\ \E s \in Symbols :
        /\ book[s] # 0 /\ lots[book[s]].shares > 1
        /\ Goes(r, [at |-> "scale_quote", sym |-> s, lot |-> book[s], now |-> Now])
        /\ lots' = [lots EXCEPT ![book[s]].scalers = @ + 1]
    /\ Served
    /\ UNCHANGED <<risk, book, journal, tierB, loop, settings, acct, history>>

\* A quote that fails leaves the entry price as the mark.
Marks(lot) == Quotes \cup (IF lot = 0 THEN {0} ELSE {lots[lot].entry})

OpQuoted(r) ==
    /\ op[r].at \in {"close_quote", "scale_quote"}
    /\ \E price \in Marks(op[r].lot) :
        Goes(r, [at |-> IF op[r].at = "close_quote" THEN "closing" ELSE "scaling",
                 sym |-> op[r].sym, lot |-> op[r].lot, now |-> op[r].now, price |-> price,
                 half |-> IF op[r].lot = 0 THEN 0 ELSE Half(lots[op[r].lot].shares)])
    /\ UNCHANGED <<risk, lots, book, journal, tierB, loop, settings, acct, history, requests>>

OpScaledOut(r) ==
    /\ op[r].at = "scaling"
    /\ ScaledOut(op[r])
    /\ Ends(r)
    /\ UNCHANGED <<book, tierB, loop, settings, history, requests>>

OpClosedOut(r) ==
    /\ op[r].at = "closing"
    /\ IF op[r].lot # 0 THEN ClosedOut(op[r])
       ELSE /\ \E accepted \in Answers("sell") : Sell(op[r].sym, acct[op[r].sym], accepted)
            /\ UNCHANGED <<lots, book, journal, risk>>
    /\ Ends(r)
    /\ UNCHANGED <<tierB, loop, settings, history, requests>>

MoveStop(r) ==
    /\ Asked(r, "stop")
    /\ \E s \in Symbols, price \in Quotes :
        book[s] # 0 /\ lots' = [lots EXCEPT ![book[s]].stop = price]
    /\ Served
    /\ UNCHANGED <<risk, book, journal, tierB, loop, op, settings, acct, history>>

\* A manual order to buy passes the guardrails, which halt; the size of a
\* suggested trade is the gate's.  Nothing is awaited before it is sent.
SendOpBuy(r, symbol, shares, entry, stop, suggested) ==
    /\ IF Open THEN Goes(r, [at |-> "buying", sym |-> symbol, shares |-> shares,
                             entry |-> entry, stop |-> stop, suggested |-> suggested])
               ELSE UNCHANGED op
    /\ HaltsTo(HaltedByGate)
    /\ Served
    /\ UNCHANGED <<lots, book, journal, tierB, loop, settings, acct, killed, late>>

ManualBuy(r) ==
    /\ Asked(r, "buy")
    /\ \E s \in Symbols, qty \in ManualSizes, limit \in Quotes :
        SendOpBuy(r, s, Min({qty, MaxPositionSize}), limit, limit - 20, 0)

ManualTrade(r) ==
    /\ Asked(r, "trade")
    /\ \E s \in Symbols, most \in ManualSizes, entry \in Quotes, stop \in Quotes :
        LET sized == Min({most, Sized(risk.pnl, entry, stop)})
        IN  IF sized > 0 \/ ~Open THEN SendOpBuy(r, s, sized, entry + 5, entry - 15, stop)
            ELSE UNCHANGED vars

OpBuyAnswered(r) ==
    /\ op[r].at = "buying"
    /\ \E accepted \in Answers("buy") :
        IF accepted
        THEN /\ Track(op[r].sym, op[r].shares, op[r].entry, op[r].stop)
             /\ Goes(r, IF op[r].suggested = 0 THEN Idle
                        ELSE [at |-> "stopping", sym |-> op[r].sym, stop |-> op[r].suggested])
        ELSE Ends(r) /\ UNCHANGED <<lots, book, acct, risk, late>>
    /\ UNCHANGED <<journal, tierB, loop, settings, killed, gated, requests>>

\* After the broadcasts a suggested trade sets the stop of whatever is tracked.
OpStopSet(r) ==
    /\ op[r].at = "stopping"
    /\ lots' = IF book[op[r].sym] = 0 THEN lots
               ELSE [lots EXCEPT ![book[op[r].sym]].stop = op[r].stop]
    /\ Ends(r)
    /\ UNCHANGED <<risk, book, journal, tierB, loop, settings, acct, history, requests>>

\* A manual sale leaves the book alone.
ManualSell(r) ==
    /\ Asked(r, "sell")
    /\ \E s \in Symbols, qty \in ManualSizes :
        Goes(r, [at |-> "selling", sym |-> s, qty |-> qty])
    /\ Served
    /\ UNCHANGED <<risk, lots, book, journal, tierB, loop, settings, acct, history>>

OpSellAnswered(r) ==
    /\ op[r].at = "selling"
    /\ \E accepted \in Answers("sell") : Sell(op[r].sym, op[r].qty, accepted)
    /\ Ends(r)
    /\ UNCHANGED <<risk, lots, book, journal, tierB, loop, settings, history, requests>>

\* flatten_all, and the kill switch, which halts first.
AskFlatten(r) ==
    /\ \E kind \in {"flatten", "kill"} :
        /\ Asked(r, kind)
        /\ HaltsTo(IF kind = "kill" THEN Halt(risk) ELSE risk)
        /\ Goes(r, [at |-> "flattening", kill |-> kind = "kill"])
    /\ Served
    /\ UNCHANGED <<lots, book, journal, tierB, loop, settings, acct, killed, late>>

Flattened(r) ==
    /\ op[r].at = "flattening"
    /\ \E accepted \in Answers("sell") : CloseAll(accepted)
    /\ book' = [s \in Symbols |-> 0]
    /\ killed' = (killed \/ op[r].kill)
    /\ Ends(r)
    /\ UNCHANGED <<risk, lots, journal, tierB, loop, settings, late, gated, requests>>

HaltDay(r) ==
    /\ Asked(r, "halt")
    /\ HaltsTo(Halt(risk))
    /\ Served
    /\ UNCHANGED <<lots, book, journal, tierB, loop, op, settings, acct, killed, late>>

\* Pause and resume: no risk manager is registered whose halt would forbid it.
PauseOrResume(r) ==
    /\ Asked(r, "pause")
    /\ paused' = ~paused
    /\ Served
    /\ UNCHANGED <<risk, lots, book, journal, tierB, loop, op, autoTrade, maxLoss, acct, history>>

ManualScan(r) ==
    /\ Asked(r, "scan")
    /\ Scan(TRUE)
    /\ Served
    /\ UNCHANGED <<risk, lots, book, journal, loop, op, settings, acct, history>>

SetOverride(r) ==
    /\ Asked(r, "override")
    /\ \/ autoTrade' = ~autoTrade /\ UNCHANGED maxLoss
       \/ maxLoss' \in LossLimits /\ UNCHANGED autoTrade
    /\ Served
    /\ UNCHANGED <<risk, lots, book, journal, tierB, loop, op, paused, acct, history>>

-----------------------------------------------------------------------------

LoopNext ==
    \/ StartIteration \/ StartStrategy \/ PickSymbol \/ Decide \/ SendBuy \/ BuyAnswered
    \/ StartExits \/ Monitor \/ LoopScaledOut \/ LoopClosedOut \/ Reported \/ EndIteration

OpNext == \E r \in Slots :
    \/ AskClose(r) \/ AskScale(r) \/ OpQuoted(r) \/ OpScaledOut(r) \/ OpClosedOut(r)
    \/ MoveStop(r) \/ ManualBuy(r) \/ ManualTrade(r) \/ OpBuyAnswered(r) \/ OpStopSet(r)
    \/ ManualSell(r) \/ OpSellAnswered(r) \/ AskFlatten(r) \/ Flattened(r) \/ HaltDay(r)
    \/ PauseOrResume(r) \/ ManualScan(r) \/ SetOverride(r)

Next == LoopNext \/ OpNext

Spec == Init /\ [][Next]_vars

\* The event loop runs what is ready, the broker answers, and the quotes of a
\* symbol do not fail for ever.
Quoted(s) == Monitor /\ \E p \in loop.todo : p[1] = s /\ QuoteComes(p)
Fairness == WF_vars(LoopNext) /\ \A s \in Symbols : SF_vars(Quoted(s))

FairSpec == Spec /\ Fairness

-----------------------------------------------------------------------------
(* Properties.                                                             *)

\* Types of the record, the lots, the book and the coroutines.
TypeOK ==
    /\ {risk.peak, risk.streak, risk.trades, risk.wins, risk.losses} \subseteq Nat
    /\ risk.pnl \in Int /\ risk.halted \in BOOLEAN
    /\ book \in [Symbols -> 0 .. Len(lots)]
    /\ \A s \in Symbols : book[s] # 0 => lots[book[s]].sym = s
    /\ \A i \in DOMAIN lots : lots[i].bought \in 1 .. MaxPositionSize
    /\ tierB \subseteq Symbols /\ acct \in [Symbols -> Nat]
    /\ loop.at \in {"idle", "scanned", "strategy", "data", "signalled", "buying", "exits",
                    "selling", "reporting"}
    /\ \A r \in Slots : op[r].at \in {"idle", "close_quote", "closing", "scale_quote", "scaling",
                                      "buying", "stopping", "selling", "flattening"}

\* A halt, by whichever of the gate, an exit, the operator or the kill switch,
\* lets no position be opened after it but by the orders that were past their
\* gate at that moment, each of them one: neither a later signal of the loop nor
\* a later request of the operator, resumed or not, adds another.
OnlyGatedOrdersAfterHalt == late <= gated

\* The monitor and the operator's requests hold the same lot over their awaits,
\* and nothing locks it.  Each still acts at most once on it: a lot is closed
\* once more than the operator asked at the most, and the halves sold of it
\* oversell only what scale-outs asked beside the monitor's and the first one of
\* the operator can sell.
EachActsOnce ==
    \A i \in DOMAIN lots :
        LET closes == {k \in DOMAIN journal : journal[k].lot = i /\ journal[k].reason = "close"}
            beside == Max({0, lots[i].scalers - 1})
        IN  /\ Cardinality(closes) <= 1 + lots[i].closers
            /\ lots[i].shares >= -(beside * Half(lots[i].bought))

\* The day's numbers are those of the journal, through every close that two
\* coroutines record and every close that raises: the sum, its peak, the wins,
\* the losses and the losses in a row.
RiskMatchesJournal ==
    LET n == Len(journal)
        running == RunningPnl(journal)
        won == {i \in 1 .. n : journal[i].pnl > 0}
    IN  /\ risk.pnl = SumOf(Pnls(journal))
        /\ risk.peak = Max({0} \cup {running[i] : i \in 1 .. n})
        /\ risk.wins = Cardinality(won) /\ risk.losses = n - risk.wins
        /\ risk.streak = n - Max({0} \cup won)

\* The drawdown that the dashboard shows is the deepest fall of the day's equity
\* below its highest point so far, as a share of that point, over every journal
\* that partial closes, losses and oversold remainders can write.  The equity at
\* an exit is what all exits up to its time have made, although coroutines that
\* overtake each other journal them in another order.
DrawdownIsDeepest ==
    LET found == DrawdownWalk(journal)
        Equity(i) == SumFunctionOnSet(Pnls(journal),
                        {j \in DOMAIN journal : j = i \/ Sooner(journal, j, i)})
        HighBefore(i, j) ==
            /\ Equity(i) > 0
            /\ \A k \in DOMAIN journal : Sooner(journal, k, j) => Equity(k) <= Equity(i)
        falls == {[drop |-> Equity(i) - Equity(j), peak |-> Equity(i)] :
                    i \in DOMAIN journal, j \in DOMAIN journal}
    IN  /\ \A i, j \in DOMAIN journal : Sooner(journal, i, j) /\ HighBefore(i, j) =>
                (Equity(i) - Equity(j)) * found.peak <= found.drop * Equity(i)
        /\ found.drop > 0 => found \in falls

\* A tracked position whose stop every quote breaches leaves the book, or the
\* operator moves its stop, although quotes fail and other closes make the
\* monitor's pass raise; what the broker answers to the sale is not looked at.
BreachedStopsLeave ==
    \A s \in Symbols :
        LET Breached == book[s] # 0 /\ lots[book[s]].stop >= Max(Quotes)
        IN  Breached ~> ~Breached

\* "Session halted and positions cancelled." (api/routers/controls.py): once the
\* kill switch is answered the account gains no more shares.
KilledMeansFlat == [][killed => \A s \in Symbols : acct'[s] <= acct[s]]_vars
=============================================================================
