------------------------- MODULE LiveSessionProofs -------------------------
(***************************************************************************)
(* Theorems of LiveSession, for any set of symbols, any limits and every   *)
(* combination of faults.                                                  *)
(***************************************************************************)
EXTENDS LiveSession, TLAPS

(***************************************************************************)
(* The operators on the risk record, as the live loops use them.           *)
(***************************************************************************)

\* A session starts from a well-formed risk state with nothing open.
LEMMA FreshFacts ==
  /\ FreshState \in RiskStates
  /\ \A s \in Symbols : ~IsOpen(FreshState, s)
  /\ FreshState.trades = 0
  BY DEF FreshState, RiskStates, NoPosition, NoReason, Strikes, IsOpen

\* Recording a fill opens exactly that symbol and counts one trade.
LEMMA OpenFacts ==
  ASSUME NEW r \in RiskStates, NEW s \in Symbols, NEW p \in Prices
  PROVE  /\ AfterOpen(r, s, p) \in RiskStates
         /\ \A u \in Symbols : IsOpen(AfterOpen(r, s, p), u) <=> (IsOpen(r, u) \/ u = s)
         /\ AfterOpen(r, s, p).trades = r.trades + 1
  <1>1. Prices \subseteq Nat
    BY RiskConfig DEF RiskConfig
  <1>2. [r.positions EXCEPT ![s] = p] \in [Symbols -> Prices \union {NoPosition}]
    BY DEF RiskStates
  <1>3. r.trades + 1 \in Nat
    BY DEF RiskStates
  <1>4. AfterOpen(r, s, p) \in RiskStates
    BY <1>2, <1>3 DEF AfterOpen, RiskStates
  <1>5. ASSUME NEW u \in Symbols
        PROVE  IsOpen(AfterOpen(r, s, p), u) <=> (IsOpen(r, u) \/ u = s)
    <2>1. AfterOpen(r, s, p).positions[u] = IF u = s THEN p ELSE r.positions[u]
      BY DEF AfterOpen, RiskStates
    <2>2. p # NoPosition
      BY <1>1 DEF NoPosition
    <2>3. QED
      BY <2>1, <2>2 DEF IsOpen
  <1>6. AfterOpen(r, s, p).trades = r.trades + 1
    BY DEF AfterOpen, RiskStates
  <1>7. QED
    BY <1>4, <1>5, <1>6

\* Recording a close of zero shuts exactly that symbol.
LEMMA CloseFacts ==
  ASSUME NEW r \in RiskStates, NEW s \in Symbols
  PROVE  /\ AfterClose(r, s, 0) \in RiskStates
         /\ \A u \in Symbols : IsOpen(AfterClose(r, s, 0), u) <=> (IsOpen(r, u) /\ u # s)
         /\ AfterClose(r, s, 0).trades = r.trades
  BY RiskConfig DEF RiskConfig, AfterClose, Larger, IsOpen, RiskStates,
     NoPosition, NoReason, Strikes

\* Dropping a set of positions shuts exactly that set.
LEMMA FlatFacts ==
  ASSUME NEW r \in RiskStates, NEW S \in SUBSET Symbols
  PROVE  /\ AfterFlatCloses(r, S) \in RiskStates
         /\ \A u \in Symbols : IsOpen(AfterFlatCloses(r, S), u) <=> (IsOpen(r, u) /\ u \notin S)
         /\ AfterFlatCloses(r, S).trades = r.trades
  BY DEF AfterFlatCloses, Larger, IsOpen, RiskStates, NoPosition, NoReason, Strikes

\* The gate refuses a late bar, and refuses beyond the day's trade count.
LEMMA VetoFacts ==
  ASSUME NEW r \in RiskStates, NEW sig, NEW equity, Vetoes(r, sig, equity) = {}
  PROVE  ~(r.trades >= MaxTradesPerDay) /\ ~sig.late
  BY DEF Vetoes

(***************************************************************************)
(* Type correctness.                                                       *)
(***************************************************************************)

\* What a task can be set to await.
LEMMA WaitFacts ==
  /\ Asleep \in Waits /\ Dead \in Waits
  /\ [Asleep EXCEPT !.op = "delay"] \in Waits
  /\ \A s \in Symbols \union {NoSymbol} :
       \A op \in {"quote", "buy", "sell", "flatten", "positions"} : Sent(op, s) \in Waits
  BY DEF Asleep, Dead, Sent, Waits

\* The lots an account may hold; none is always allowed.
LEMMA LotFacts == Lots \subseteq Int /\ 0 \in Lots
  BY SessionConfig DEF SessionConfig, Lots

\* The one price is one of the prices.
LEMMA EntryIsPrice == Entry \in Prices
  BY SessionConfig DEF SessionConfig, Entry

\* The session starts well formed.
LEMMA TypeInit == Init => TypeOK
  <1> SUFFICES ASSUME Init PROVE TypeOK
    OBVIOUS
  <1>1. wait \in [Tasks -> Waits]
    BY WaitFacts DEF Init
  <1>2. held \in [Symbols -> Lots]
    BY LotFacts DEF Init
  <1>3. risk \in RiskStates /\ 0 \in 0 .. MaxAttempts
    BY FreshFacts, SessionConfig DEF Init, SessionConfig
  <1>4. QED
    BY <1>1, <1>2, <1>3 DEF Init, TypeOK

\* Steps of the bar task keep the types.
LEMMA TypeBar == TypeOK /\ BarTask => TypeOK'
  <1> SUFFICES ASSUME TypeOK, BarTask PROVE TypeOK'
    OBVIOUS
  <1> USE WaitFacts DEF TypeOK, Awaits, Tasks, history, market
  <1>1. ASSUME NEW s \in Symbols, BarEnters(s) PROVE TypeOK'
    BY <1>1 DEF BarEnters
  <1>2. ASSUME NEW s \in Symbols, BarExits(s) PROVE TypeOK'
    BY <1>2 DEF BarExits
  <1>3. CASE BarPasses
    BY <1>3 DEF BarPasses
  <1>4. CASE BarQuoteFails
    BY <1>4 DEF BarQuoteFails
  <1>5. ASSUME NEW s \in Symbols, BarBuyAnswered(s) PROVE TypeOK'
    <2>1. AfterOpen(risk, s, Entry) \in RiskStates
      BY OpenFacts, EntryIsPrice
    <2>2. QED
      BY <1>5, <2>1 DEF BarBuyAnswered
  <1>6. ASSUME NEW s \in Symbols, BarSellAnswered(s) PROVE TypeOK'
    <2>1. AfterClose(risk, s, 0) \in RiskStates
      BY CloseFacts
    <2>2. QED
      BY <1>6, <2>1 DEF BarSellAnswered
  <1>7. QED
    BY <1>1, <1>2, <1>3, <1>4, <1>5, <1>6 DEF BarTask

\* Forget keeps the three ledgers well formed.
LEMMA TypeForget ==
  ASSUME TypeOK, NEW S \in SUBSET Symbols, Forget(S)
  PROVE  /\ risk' \in RiskStates
         /\ engine' \subseteq Symbols
         /\ tracked' \subseteq Symbols
  BY FlatFacts DEF Forget, TypeOK

\* Steps of the stop task keep the types.
LEMMA TypeStop == TypeOK /\ StopTask => TypeOK'
  <1> SUFFICES ASSUME TypeOK, StopTask PROVE TypeOK'
    OBVIOUS
  <1> USE WaitFacts DEF Awaits, Tasks, history, market
  <1>1. CASE StopPassStarts
    BY <1>1 DEF StopPassStarts, TypeOK
  <1>2. ASSUME NEW s \in Symbols, StopFires(s) PROVE TypeOK'
    BY <1>2 DEF StopFires, TypeOK
  <1>3. ASSUME NEW s \in Symbols, StopHolds(s) PROVE TypeOK'
    BY <1>3 DEF StopHolds, TypeOK
  <1>4. ASSUME NEW s \in Symbols, StopSellAnswered(s) PROVE TypeOK'
    <2>1. /\ risk' \in RiskStates
          /\ engine' \subseteq Symbols
          /\ tracked' \subseteq Symbols
      BY <1>4, TypeForget DEF StopSellAnswered, TypeOK
    <2>2. QED
      BY <1>4, <2>1 DEF StopSellAnswered, TypeOK
  <1>5. QED
    BY <1>1, <1>2, <1>3, <1>4 DEF StopTask

\* Steps of the end-of-day task keep the types.
LEMMA TypeEod == TypeOK /\ EodTask => TypeOK'
  <1> SUFFICES ASSUME TypeOK, EodTask PROVE TypeOK'
    OBVIOUS
  <1> USE WaitFacts DEF Awaits, Tasks, history, market
  <1>1. CASE EodFlattens
    BY <1>1 DEF EodFlattens, TypeOK
  <1>2. CASE EodAnswered
    <2>1. /\ risk' \in RiskStates
          /\ engine' \subseteq Symbols
          /\ tracked' \subseteq Symbols
      BY <1>2, TypeForget DEF EodAnswered, TypeOK
    <2>2. QED
      BY <1>2, <2>1 DEF EodAnswered, TypeOK
  <1>3. QED
    BY <1>1, <1>2 DEF EodTask

\* Steps of the reconciliation keep the types.
LEMMA TypeRecon == TypeOK /\ ReconTask => TypeOK'
  <1> SUFFICES ASSUME TypeOK, ReconTask PROVE TypeOK'
    OBVIOUS
  <1> USE WaitFacts DEF Awaits, Tasks, history, market
  <1>1. CASE ReconAsks
    BY <1>1 DEF ReconAsks, TypeOK
  <1>2. CASE ReconAnswered
    <2>1. /\ risk' \in RiskStates
          /\ engine' \subseteq Symbols
          /\ tracked' \subseteq Symbols
      BY <1>2, TypeForget DEF ReconAnswered, InternalOnly, TypeOK
    <2>2. QED
      BY <1>2, <2>1 DEF ReconAnswered, TypeOK
  <1>3. QED
    BY <1>1, <1>2 DEF ReconTask

\* Steps of the watchdog keep the types.
LEMMA TypeWatch == TypeOK /\ WatchTask => TypeOK'
  <1> SUFFICES ASSUME TypeOK, WatchTask PROVE TypeOK'
    OBVIOUS
  <1> USE WaitFacts, SessionConfig DEF Awaits, Tasks, history, market, SessionConfig
  <1>1. CASE WatchUnfreezes
    BY <1>1 DEF WatchUnfreezes, TypeOK
  <1>2. CASE WatchFreezes
    BY <1>2 DEF WatchFreezes, TypeOK
  <1>3. CASE WatchAnswered
    <2>1. /\ risk' \in RiskStates
          /\ engine' \subseteq Symbols
          /\ tracked' \subseteq Symbols
      BY <1>3, TypeForget DEF WatchAnswered, TypeOK
    <2>2. QED
      BY <1>3, <2>1 DEF WatchAnswered, TypeOK
  <1>4. CASE WatchRetries
    BY <1>4 DEF WatchRetries, TypeOK
  <1>5. QED
    BY <1>1, <1>2, <1>3, <1>4 DEF WatchTask

\* An answer of the broker keeps the types.
LEMMA TypeBroker == TypeOK /\ Broker => TypeOK'
  <1> SUFFICES ASSUME TypeOK, NEW t \in Tasks, Serves(t) PROVE TypeOK'
    BY DEF Broker
  <1> USE DEF history, market
  <1>1. ASSUME NEW status \in {"accepted", "refused"}, Replies(t, status)
        PROVE  wait' \in [Tasks -> Waits]
    BY <1>1 DEF Replies, TypeOK, Waits
  <1>2. ASSUME NEW u \in Tasks, NEW s \in Symbols, NEW delta \in {1, -1},
               u = t, OrderExecutes(u, s, delta)
        PROVE  TypeOK'
    <2>1. wait' \in [Tasks -> Waits]
      BY <1>1, <1>2 DEF OrderExecutes
    <2>2. held' \in [Symbols -> Lots]
      BY <1>2 DEF OrderExecutes, TypeOK
    <2>3. QED
      BY <1>2, <2>1, <2>2 DEF OrderExecutes, TypeOK
  <1>3. ASSUME NEW s \in Symbols, t = "bar", BrokerBuys(s) PROVE TypeOK'
    BY <1>2, <1>3 DEF BrokerBuys
  <1>4. ASSUME NEW s \in Symbols, BrokerSells(t, s) PROVE TypeOK'
    BY <1>2, <1>4 DEF BrokerSells
  <1>5. CASE BrokerFlattens(t)
    <2>1. wait' \in [Tasks -> Waits]
      BY <1>1, <1>5 DEF BrokerFlattens
    <2>2. held' \in [Symbols -> Lots]
      BY <1>5, LotFacts DEF BrokerFlattens, TypeOK
    <2>3. QED
      BY <1>5, <2>1, <2>2 DEF BrokerFlattens, TypeOK
  <1>6. CASE t = "recon" /\ BrokerReports
    <2>1. wait' \in [Tasks -> Waits]
      BY <1>1, <1>6 DEF BrokerReports
    <2>2. QED
      BY <1>6, <2>1 DEF BrokerReports, TypeOK
  <1>7. QED
    BY <1>3, <1>4, <1>5, <1>6 DEF Serves

\* A step of the market or the operator keeps the types.
LEMMA TypeEnvironment == TypeOK /\ (Environment \/ RunEnds) => TypeOK'
  <1> SUFFICES ASSUME TypeOK, Environment \/ RunEnds PROVE TypeOK'
    OBVIOUS
  <1> USE WaitFacts DEF TypeOK, Awaits, Tasks, history, market
  <1>1. ASSUME NEW s \in Symbols, BarArrives(s) PROVE TypeOK'
    BY <1>1 DEF BarArrives
  <1>2. ASSUME NEW s \in Symbols, PriceMoves(s) PROVE TypeOK'
    BY <1>2 DEF PriceMoves
  <1>3. CASE FeedStops
    BY <1>3 DEF FeedStops
  <1>4. CASE ClockMoves
    BY <1>4 DEF ClockMoves
  <1>5. CASE Stop
    BY <1>5 DEF Stop
  <1>6. CASE RunEnds
    BY <1>6 DEF RunEnds
  <1>7. QED
    BY <1>1, <1>2, <1>3, <1>4, <1>5, <1>6 DEF Environment

\* Every step keeps the types, a stuttering one included.
LEMMA TypeNext == TypeOK /\ [Next]_vars => TypeOK'
  <1>1. CASE UNCHANGED vars
    BY <1>1 DEF TypeOK, vars
  <1>2. QED
    BY <1>1, TypeBar, TypeStop, TypeEod, TypeRecon, TypeWatch, TypeBroker,
       TypeEnvironment DEF Next

\* The session's state stays what it is declared to be, in particular the
\* account within what a broker lets it hold and the watchdog within its
\* configured number of attempts.
THEOREM TypeCorrect == Spec => []TypeOK
  BY TypeInit, TypeNext, PTL DEF Spec

(***************************************************************************)
(* The ledgers.                                                            *)
(***************************************************************************)

\* Dropping a set of positions drops it from the three ledgers alike.
LEMMA LedgersForget ==
  ASSUME TypeOK, LedgersAgree, NEW S \in SUBSET Symbols, Forget(S)
  PROVE  LedgersAgree'
  BY FlatFacts DEF Forget, LedgersAgree, TypeOK

\* No step moves one ledger without the others.  A buy that is answered adds
\* to all three, a sale or a flatten takes out of all three, and the only
\* step that touches a single ledger takes the engine's position away.
LEMMA LedgersNext == TypeOK /\ LedgersAgree /\ [Next]_vars => LedgersAgree'
  <1> SUFFICES ASSUME TypeOK, LedgersAgree, [Next]_vars PROVE LedgersAgree'
    OBVIOUS
  <1>1. ASSUME UNCHANGED <<risk, engine, tracked>> PROVE LedgersAgree'
    BY <1>1 DEF LedgersAgree, IsOpen
  <1>2. CASE UNCHANGED vars
    BY <1>1, <1>2 DEF vars
  <1>3. CASE BarTask
    <2>1. ASSUME NEW s \in Symbols, BarEnters(s) PROVE LedgersAgree'
      BY <1>1, <2>1 DEF BarEnters
    <2>2. ASSUME NEW s \in Symbols, BarExits(s) PROVE LedgersAgree'
      BY <2>2 DEF BarExits, LedgersAgree, IsOpen
    <2>3. CASE BarPasses \/ BarQuoteFails
      BY <1>1, <2>3 DEF BarPasses, BarQuoteFails
    <2>4. ASSUME NEW s \in Symbols, BarBuyAnswered(s) PROVE LedgersAgree'
      <3>1. CASE wait["bar"].status = "accepted"
        BY <2>4, <3>1, OpenFacts, EntryIsPrice DEF BarBuyAnswered, LedgersAgree, TypeOK
      <3>2. CASE wait["bar"].status # "accepted"
        BY <1>1, <2>4, <3>2 DEF BarBuyAnswered
      <3>3. QED
        BY <3>1, <3>2
    <2>5. ASSUME NEW s \in Symbols, BarSellAnswered(s) PROVE LedgersAgree'
      <3>1. CASE wait["bar"].status = "accepted"
        BY <2>5, <3>1, CloseFacts DEF BarSellAnswered, LedgersAgree, TypeOK
      <3>2. CASE wait["bar"].status # "accepted"
        BY <1>1, <2>5, <3>2 DEF BarSellAnswered
      <3>3. QED
        BY <3>1, <3>2
    <2>6. QED
      BY <1>3, <2>1, <2>2, <2>3, <2>4, <2>5 DEF BarTask
  <1>4. CASE StopTask
    <2>1. ASSUME NEW s \in Symbols, StopSellAnswered(s) PROVE LedgersAgree'
      BY <1>1, <2>1, LedgersForget DEF StopSellAnswered
    <2>2. QED
      BY <1>1, <1>4, <2>1 DEF StopTask, StopPassStarts, StopFires, StopHolds
  <1>5. CASE EodTask
    <2>1. CASE EodAnswered
      BY <2>1, LedgersForget DEF EodAnswered, TypeOK
    <2>2. QED
      BY <1>1, <1>5, <2>1 DEF EodTask, EodFlattens
  <1>6. CASE ReconTask
    <2>1. CASE ReconAnswered
      BY <2>1, LedgersForget DEF ReconAnswered, InternalOnly, TypeOK
    <2>2. QED
      BY <1>1, <1>6, <2>1 DEF ReconTask, ReconAsks
  <1>7. CASE WatchTask
    <2>1. CASE WatchAnswered
      BY <1>1, <2>1, LedgersForget DEF WatchAnswered, TypeOK
    <2>2. QED
      BY <1>1, <1>7, <2>1 DEF WatchTask, WatchUnfreezes, WatchFreezes, WatchRetries
  <1>8. CASE RunEnds \/ Environment
    BY <1>1, <1>8 DEF RunEnds, Environment, BarArrives, PriceMoves, FeedStops,
       ClockMoves, Stop
  <1>9. CASE Broker
    BY <1>1, <1>9 DEF Broker, Serves, BrokerBuys, BrokerSells, OrderExecutes,
       BrokerFlattens, BrokerReports
  <1>10. QED
    BY <1>2, <1>3, <1>4, <1>5, <1>6, <1>7, <1>8, <1>9 DEF Next

\* At every await of every task, whatever the broker and the market did: the
\* risk manager's open positions are the tracked ones, and the engine holds
\* none that is not tracked.
THEOREM LedgersNeverDrift == Spec => []LedgersAgree
  <1>1. Init => LedgersAgree
    BY FreshFacts DEF Init, LedgersAgree
  <1>2. QED
    BY <1>1, TypeCorrect, LedgersNext, PTL DEF Spec

(***************************************************************************)
(* Entries that are out.                                                   *)
(***************************************************************************)

\* An order that is out stays valid: only the bar task adds a position or
\* counts a trade, and it is the one that waits.
LEMMA EntryNext == TypeOK /\ EntryStillValid /\ [Next]_vars => EntryStillValid'
  <1> SUFFICES ASSUME TypeOK, EntryStillValid, [Next]_vars PROVE EntryStillValid'
    OBVIOUS
  <1>1. ASSUME wait'["bar"].op = wait["bar"].op, wait'["bar"].sym = wait["bar"].sym,
               tracked' \subseteq tracked, risk'.trades = risk.trades
        PROVE  EntryStillValid'
    BY <1>1 DEF EntryStillValid
  <1>2. ASSUME wait'["bar"].op # "buy" PROVE EntryStillValid'
    BY <1>2 DEF EntryStillValid
  <1>3. ASSUME NEW S \in SUBSET Symbols, Forget(S)
        PROVE  tracked' \subseteq tracked /\ risk'.trades = risk.trades
    BY <1>3, FlatFacts DEF Forget, TypeOK
  <1>4. CASE UNCHANGED vars
    BY <1>1, <1>4 DEF vars
  <1>5. CASE BarTask
    <2> USE DEF Tasks, TypeOK, Awaits, Asleep, Dead, Sent
    <2>1. ASSUME NEW s \in Symbols, BarEnters(s) PROVE EntryStillValid'
      <3>1. /\ wait'["bar"] = Sent("buy", s)
            /\ s \notin tracked' /\ risk' = risk
        BY <2>1 DEF BarEnters
      <3>2. ~(risk.trades >= MaxTradesPerDay)
        BY <2>1, VetoFacts DEF BarEnters
      <3>3. risk.trades \in Nat /\ MaxTradesPerDay \in Nat
        BY RiskConfig DEF RiskConfig, RiskStates
      <3>4. QED
        BY <3>1, <3>2, <3>3 DEF EntryStillValid
    <2>2. ASSUME NEW s \in Symbols, BarExits(s) PROVE EntryStillValid'
      BY <1>2, <2>2 DEF BarExits
    <2>3. CASE BarPasses \/ BarQuoteFails
      BY <1>2, <2>3 DEF BarPasses, BarQuoteFails
    <2>4. ASSUME NEW s \in Symbols, BarBuyAnswered(s) PROVE EntryStillValid'
      BY <1>2, <2>4 DEF BarBuyAnswered
    <2>5. ASSUME NEW s \in Symbols, BarSellAnswered(s) PROVE EntryStillValid'
      BY <1>2, <2>5 DEF BarSellAnswered
    <2>6. QED
      BY <1>5, <2>1, <2>2, <2>3, <2>4, <2>5 DEF BarTask
  <1>6. ASSUME NEW t \in Tasks \ {"bar"}, NEW w, Awaits(t, w)
        PROVE  wait'["bar"] = wait["bar"]
    BY <1>6 DEF Awaits, Tasks, TypeOK
  <1>7. CASE StopTask
    <2>1. ASSUME NEW s \in Symbols, StopSellAnswered(s) PROVE EntryStillValid'
      BY <1>1, <1>3, <1>6, <2>1 DEF StopSellAnswered, Tasks
    <2>2. ASSUME NEW s \in Symbols, StopFires(s) PROVE EntryStillValid'
      BY <1>1, <1>6, <2>2 DEF StopFires, Tasks
    <2>3. QED
      BY <1>1, <1>7, <2>1, <2>2 DEF StopTask, StopPassStarts, StopHolds
  <1>8. CASE EodTask
    <2>1. CASE EodAnswered
      BY <1>1, <1>3, <1>6, <2>1 DEF EodAnswered, Tasks, TypeOK
    <2>2. CASE EodFlattens
      BY <1>1, <1>6, <2>2 DEF EodFlattens, Tasks
    <2>3. QED
      BY <1>8, <2>1, <2>2 DEF EodTask
  <1>9. CASE ReconTask
    <2>1. CASE ReconAnswered
      BY <1>1, <1>3, <1>6, <2>1 DEF ReconAnswered, InternalOnly, Tasks, TypeOK
    <2>2. CASE ReconAsks
      BY <1>1, <1>6, <2>2 DEF ReconAsks, Tasks
    <2>3. QED
      BY <1>9, <2>1, <2>2 DEF ReconTask
  <1>10. CASE WatchTask
    <2>1. CASE WatchAnswered
      BY <1>1, <1>3, <1>6, <2>1 DEF WatchAnswered, Tasks, TypeOK
    <2>2. CASE WatchFreezes
      BY <1>1, <1>6, <2>2 DEF WatchFreezes, Tasks
    <2>3. CASE WatchRetries
      BY <1>1, <1>6, <2>3 DEF WatchRetries, Tasks
    <2>4. CASE WatchUnfreezes
      BY <1>1, <2>4 DEF WatchUnfreezes
    <2>5. QED
      BY <1>10, <2>1, <2>2, <2>3, <2>4 DEF WatchTask
  <1>11. CASE RunEnds \/ Environment
    <2>1. ASSUME NEW s \in Symbols, BarArrives(s) PROVE EntryStillValid'
      BY <1>1, <1>2, <2>1 DEF BarArrives, Awaits, Sent, Tasks, TypeOK
    <2>2. QED
      BY <1>1, <1>11, <2>1 DEF RunEnds, Environment, PriceMoves, FeedStops,
         ClockMoves, Stop
  <1>12. CASE Broker
    <2>1. PICK t \in Tasks : Serves(t)
      BY <1>12 DEF Broker
    <2>2. tracked' = tracked /\ risk' = risk
      BY <2>1 DEF Serves, BrokerBuys, BrokerSells, OrderExecutes, BrokerFlattens,
         BrokerReports
    <2>3. \E u \in Tasks, status \in {"accepted", "refused"} : Replies(u, status)
      BY <2>1 DEF Serves, BrokerBuys, BrokerSells, OrderExecutes, BrokerFlattens,
         BrokerReports, Tasks
    <2>4. wait'["bar"].op = wait["bar"].op /\ wait'["bar"].sym = wait["bar"].sym
      BY <2>3 DEF Replies, Tasks, TypeOK, Waits
    <2>5. QED
      BY <1>1, <2>2, <2>4
  <1>13. QED
    BY <1>4, <1>5, <1>7, <1>8, <1>9, <1>10, <1>11, <1>12 DEF Next

\* What the gate approved before the await still stands when the broker
\* answers: the symbol is not tracked by then and the day's count has room.
THEOREM EntriesStayValid == Spec => []EntryStillValid
  <1>1. Init => EntryStillValid
    BY DEF Init, EntryStillValid, Asleep, Tasks
  <1>2. QED
    BY <1>1, TypeCorrect, EntryNext, PTL DEF Spec

(***************************************************************************)
(* The freeze.                                                             *)
(***************************************************************************)

\* The counter moves only when a bar that passed the test before the freeze
\* buys, and the next bar does not pass.
LEMMA FreezeNext == TypeOK /\ FreezeInv /\ [Next]_vars => FreezeInv'
  <1> SUFFICES ASSUME TypeOK, FreezeInv, [Next]_vars PROVE FreezeInv'
    OBVIOUS
  <1> USE DEF FreezeInv, OneEntryPerFreeze
  <1>1. ASSUME wait'["bar"].op \in {wait["bar"].op, "none", "dead", "sell"},
               frozen' = frozen \/ frozen' = TRUE, frozenBuys' = frozenBuys
        PROVE  FreezeInv'
    BY <1>1
  <1>2. CASE UNCHANGED vars
    BY <1>1, <1>2 DEF vars
  <1>3. CASE BarTask
    <2> USE DEF Tasks, TypeOK, Awaits, Asleep, Dead, Sent, history
    <2>1. ASSUME NEW s \in Symbols, BarEnters(s) PROVE FreezeInv'
      BY <2>1 DEF BarEnters, Resumes
    <2>2. ASSUME NEW s \in Symbols, BarExits(s) PROVE FreezeInv'
      BY <1>1, <2>2 DEF BarExits
    <2>3. CASE BarPasses \/ BarQuoteFails
      BY <1>1, <2>3 DEF BarPasses, BarQuoteFails
    <2>4. ASSUME NEW s \in Symbols, BarBuyAnswered(s) PROVE FreezeInv'
      BY <1>1, <2>4 DEF BarBuyAnswered
    <2>5. ASSUME NEW s \in Symbols, BarSellAnswered(s) PROVE FreezeInv'
      BY <1>1, <2>5 DEF BarSellAnswered
    <2>6. QED
      BY <1>3, <2>1, <2>2, <2>3, <2>4, <2>5 DEF BarTask
  <1>4. ASSUME NEW t \in Tasks \ {"bar"}, NEW w, Awaits(t, w)
        PROVE  wait'["bar"] = wait["bar"]
    BY <1>4 DEF Awaits, Tasks, TypeOK
  <1>5. CASE StopTask
    <2>1. wait'["bar"] = wait["bar"]
      BY <1>4, <1>5 DEF StopTask, StopPassStarts, StopFires, StopHolds,
         StopSellAnswered, Tasks
    <2>2. QED
      BY <1>1, <1>5, <2>1 DEF StopTask, StopPassStarts, StopFires, StopHolds,
         StopSellAnswered, history
  <1>6. CASE EodTask \/ ReconTask
    <2>1. wait'["bar"] = wait["bar"]
      BY <1>4, <1>6 DEF EodTask, ReconTask, EodFlattens, EodAnswered, ReconAsks,
         ReconAnswered, Tasks
    <2>2. QED
      BY <1>1, <1>6, <2>1 DEF EodTask, ReconTask, EodFlattens, EodAnswered, ReconAsks,
         ReconAnswered, history
  <1>7. CASE WatchTask
    <2>1. CASE WatchUnfreezes
      BY <2>1 DEF WatchUnfreezes
    <2>2. CASE WatchFreezes \/ WatchAnswered \/ WatchRetries
      <3>1. wait'["bar"] = wait["bar"]
        BY <1>4, <2>2 DEF WatchFreezes, WatchAnswered, WatchRetries, Tasks
      <3>2. QED
        BY <1>1, <2>2, <3>1 DEF WatchFreezes, WatchAnswered, WatchRetries, history
    <2>3. QED
      BY <1>7, <2>1, <2>2 DEF WatchTask
  <1>8. CASE RunEnds \/ Environment
    <2>1. ASSUME NEW s \in Symbols, BarArrives(s) PROVE FreezeInv'
      BY <1>1, <2>1 DEF BarArrives, Awaits, Sent, Tasks, TypeOK, history
    <2>2. QED
      BY <1>1, <1>8, <2>1 DEF RunEnds, Environment, PriceMoves, FeedStops,
         ClockMoves, Stop, history
  <1>9. CASE Broker
    <2>1. PICK t \in Tasks : Serves(t)
      BY <1>9 DEF Broker
    <2>2. frozen' = frozen /\ frozenBuys' = frozenBuys
      BY <2>1 DEF Serves, BrokerBuys, BrokerSells, OrderExecutes, BrokerFlattens,
         BrokerReports, history
    <2>3. \E u \in Tasks, status \in {"accepted", "refused"} : Replies(u, status)
      BY <2>1 DEF Serves, BrokerBuys, BrokerSells, OrderExecutes, BrokerFlattens,
         BrokerReports, Tasks
    <2>4. wait'["bar"].op = wait["bar"].op
      BY <2>3 DEF Replies, Tasks, TypeOK, Waits
    <2>5. QED
      BY <1>1, <2>2, <2>4
  <1>10. QED
    BY <1>2, <1>3, <1>5, <1>6, <1>7, <1>8, <1>9 DEF Next

\* One freeze lets at most one buy out, however many bars, tasks and faults
\* there are: the bar that was waiting for its quote when the freeze came.
THEOREM AtMostOneEntryPerFreeze == Spec => []OneEntryPerFreeze
  <1>1. Init => FreezeInv
    BY DEF Init, FreezeInv, OneEntryPerFreeze
  <1>2. FreezeInv => OneEntryPerFreeze
    BY DEF FreezeInv
  <1>3. QED
    BY <1>1, <1>2, TypeCorrect, FreezeNext, PTL DEF Spec

(***************************************************************************)
(* The end of the day.                                                     *)
(***************************************************************************)

\* A flatten is sent in the last hour, no buy is out in that hour, and only
\* an answered buy would track anything again.
LEMMA EodNext == TypeOK /\ EodInv /\ [Next]_vars => EodInv'
  <1> SUFFICES ASSUME TypeOK, EodInv, [Next]_vars PROVE EodInv'
    OBVIOUS
  <1> USE DEF EodInv, EodUntracks
  <1>1. ASSUME wait'["bar"].op \in {wait["bar"].op, "none", "dead", "sell", "quote"},
               wait'["eod"].op = wait["eod"].op,
               tracked' \subseteq tracked, clock' = clock, eodDone' = eodDone
        PROVE  EodInv'
    BY <1>1
  <1>2. CASE UNCHANGED vars
    BY <1>1, <1>2 DEF vars
  <1>3. ASSUME NEW t \in Tasks, NEW w, Awaits(t, w)
        PROVE  \A u \in Tasks : wait'[u] = IF u = t THEN w ELSE wait[u]
    BY <1>3 DEF Awaits, TypeOK
  <1>4. ASSUME NEW S \in SUBSET Symbols, Forget(S) PROVE tracked' \subseteq tracked
    BY <1>4 DEF Forget
  <1>5. CASE BarTask
    <2> USE <1>3 DEF Tasks, Asleep, Dead, Sent, history, market
    <2>1. ASSUME NEW s \in Symbols, BarEnters(s) PROVE EodInv'
      <3>1. clock # "close"
        <4>1. PICK late \in BarIsLate :
                Vetoes(risk, Signal(s, late), 100 * AvgWinDayPnl) = {}
          BY <2>1 DEF BarEnters
        <4>2. ~Signal(s, late).late
          BY <4>1, VetoFacts DEF TypeOK
        <4>3. late # TRUE
          BY <4>2 DEF Signal
        <4>4. clock = "close" => BarIsLate = {TRUE}
          BY DEF BarIsLate
        <4>5. QED
          BY <4>3, <4>4
      <3>2. QED
        BY <2>1, <3>1 DEF BarEnters
    <2>2. ASSUME NEW s \in Symbols, BarExits(s) PROVE EodInv'
      BY <1>1, <2>2 DEF BarExits
    <2>3. CASE BarPasses \/ BarQuoteFails
      BY <1>1, <2>3 DEF BarPasses, BarQuoteFails
    <2>4. ASSUME NEW s \in Symbols, BarBuyAnswered(s) PROVE EodInv'
      <3>1. clock # "close" /\ ~eodDone
        BY <2>4 DEF BarBuyAnswered, Answered, Resumes
      <3>2. QED
        BY <2>4, <3>1 DEF BarBuyAnswered
    <2>5. ASSUME NEW s \in Symbols, BarSellAnswered(s) PROVE EodInv'
      BY <1>1, <2>5 DEF BarSellAnswered
    <2>6. QED
      BY <1>5, <2>1, <2>2, <2>3, <2>4, <2>5 DEF BarTask
  <1>6. CASE StopTask
    <2>1. wait'["bar"] = wait["bar"] /\ wait'["eod"] = wait["eod"]
      BY <1>3, <1>6 DEF StopTask, StopPassStarts, StopFires, StopHolds,
         StopSellAnswered, Tasks
    <2>2. QED
      BY <1>1, <1>4, <1>6, <2>1 DEF StopTask, StopPassStarts, StopFires, StopHolds,
         StopSellAnswered, history, market
  <1>7. CASE EodTask
    <2> USE <1>3 DEF Tasks, Asleep, Sent, history, market
    <2>1. CASE EodFlattens
      BY <2>1 DEF EodFlattens
    <2>2. CASE EodAnswered
      <3>1. tracked' = {}
        BY <2>2 DEF EodAnswered, Forget
      <3>2. QED
        BY <2>2, <3>1 DEF EodAnswered, Answered, Resumes
    <2>3. QED
      BY <1>7, <2>1, <2>2 DEF EodTask
  <1>8. CASE ReconTask
    <2>1. wait'["bar"] = wait["bar"] /\ wait'["eod"] = wait["eod"]
      BY <1>3, <1>8 DEF ReconTask, ReconAsks, ReconAnswered, Tasks
    <2>2. tracked' \subseteq tracked
      BY <1>4, <1>8 DEF ReconTask, ReconAsks, ReconAnswered, InternalOnly, TypeOK
    <2>3. QED
      BY <1>1, <1>8, <2>1, <2>2 DEF ReconTask, ReconAsks, ReconAnswered, history, market
  <1>9. CASE WatchTask
    <2>1. wait'["bar"] = wait["bar"] /\ wait'["eod"] = wait["eod"]
      BY <1>3, <1>9 DEF WatchTask, WatchUnfreezes, WatchFreezes, WatchAnswered,
         WatchRetries, Tasks
    <2>2. tracked' \subseteq tracked
      BY <1>4, <1>9 DEF WatchTask, WatchUnfreezes, WatchFreezes, WatchAnswered,
         WatchRetries, TypeOK
    <2>3. QED
      BY <1>1, <1>9, <2>1, <2>2 DEF WatchTask, WatchUnfreezes, WatchFreezes,
         WatchAnswered, WatchRetries, history, market
  <1>10. CASE RunEnds \/ Environment
    <2>1. ASSUME NEW s \in Symbols, BarArrives(s) PROVE EodInv'
      BY <1>1, <1>3, <2>1 DEF BarArrives, Sent, Tasks, history
    <2>2. CASE ClockMoves
      BY <2>2 DEF ClockMoves, history
    <2>3. QED
      BY <1>1, <1>10, <2>1, <2>2 DEF RunEnds, Environment, PriceMoves, FeedStops,
         Stop, history, market
  <1>11. CASE Broker
    <2>1. PICK t \in Tasks : Serves(t)
      BY <1>11 DEF Broker
    <2>2. tracked' = tracked /\ clock' = clock /\ eodDone' = eodDone
      BY <2>1 DEF Serves, BrokerBuys, BrokerSells, OrderExecutes, BrokerFlattens,
         BrokerReports, history, market
    <2>3. \E u \in Tasks, status \in {"accepted", "refused"} : Replies(u, status)
      BY <2>1 DEF Serves, BrokerBuys, BrokerSells, OrderExecutes, BrokerFlattens,
         BrokerReports, Tasks
    <2>4. wait'["bar"].op = wait["bar"].op /\ wait'["eod"].op = wait["eod"].op
      BY <2>3 DEF Replies, Tasks, TypeOK, Waits
    <2>5. QED
      BY <1>1, <2>2, <2>4
  <1>12. QED
    BY <1>2, <1>5, <1>6, <1>7, <1>8, <1>9, <1>10, <1>11 DEF Next

\* After the end-of-day flatten nothing is tracked, and nothing will be.
THEOREM NothingTrackedAfterEod == Spec => []EodUntracks
  <1>1. Init => EodInv
    BY DEF Init, EodInv, EodUntracks, Asleep, Tasks
  <1>2. EodInv => EodUntracks
    BY DEF EodInv
  <1>3. QED
    BY <1>1, <1>2, TypeCorrect, EodNext, PTL DEF Spec

----------------------------------------------------------------------------
(* The account at the end of the day.                                      *)

\* Under a broker that obeys, no account holds less than nothing.
LEMMA LotsObeyed == BrokerObeys => -1 \notin Lots
  BY SessionConfig DEF BrokerObeys, Lots

\* A step of the session keeps the account flat once the flatten was served.
LEMMA FlatNext ==
  ASSUME BrokerObeys
  PROVE  TypeOK /\ EodInv /\ FlatInv /\ [Next]_vars => FlatInv'
  <1> SUFFICES ASSUME TypeOK, EodInv, FlatInv, [Next]_vars PROVE FlatInv'
    OBVIOUS
  <1>1. ASSUME wait'["eod"] = wait["eod"], held' = held, eodDone' = eodDone
        PROVE  FlatInv'
    BY <1>1 DEF FlatInv
  <1>2. CASE UNCHANGED vars
    BY <1>1, <1>2 DEF vars
  <1>3. ASSUME NEW t \in Tasks, NEW w, Awaits(t, w)
        PROVE  \A u \in Tasks : wait'[u] = IF u = t THEN w ELSE wait[u]
    BY <1>3 DEF Awaits, TypeOK
  <1>4. CASE BarTask
    <2>1. wait'["eod"] = wait["eod"]
      BY <1>3, <1>4 DEF BarTask, BarEnters, BarExits, BarPasses, BarQuoteFails,
         BarBuyAnswered, BarSellAnswered, Tasks
    <2>2. QED
      BY <1>1, <1>4, <2>1 DEF BarTask, BarEnters, BarExits, BarPasses, BarQuoteFails,
         BarBuyAnswered, BarSellAnswered, history
  <1>5. CASE StopTask
    <2>1. wait'["eod"] = wait["eod"]
      BY <1>3, <1>5 DEF StopTask, StopPassStarts, StopFires, StopHolds,
         StopSellAnswered, Tasks
    <2>2. QED
      BY <1>1, <1>5, <2>1 DEF StopTask, StopPassStarts, StopFires, StopHolds,
         StopSellAnswered, history
  <1>6. CASE EodTask
    <2>1. CASE EodFlattens
      <3>1. wait'["eod"].status = "sent" /\ eodDone' = eodDone /\ held' = held
        BY <1>3, <2>1 DEF EodFlattens, Sent, Tasks, history
      <3>2. QED
        BY <3>1 DEF FlatInv
    <2>2. CASE EodAnswered
      <3>1. wait["eod"].op = "flatten" /\ wait["eod"].status # "sent" /\ held' = held
        BY <2>2 DEF EodAnswered, Answered, Resumes
      <3>2. QED
        BY <3>1 DEF FlatInv
    <2>3. QED
      BY <1>6, <2>1, <2>2 DEF EodTask
  <1>7. CASE ReconTask
    <2>1. wait'["eod"] = wait["eod"]
      BY <1>3, <1>7 DEF ReconTask, ReconAsks, ReconAnswered, Tasks
    <2>2. QED
      BY <1>1, <1>7, <2>1 DEF ReconTask, ReconAsks, ReconAnswered, history
  <1>8. CASE WatchTask
    <2>1. wait'["eod"] = wait["eod"]
      BY <1>3, <1>8 DEF WatchTask, WatchUnfreezes, WatchFreezes, WatchAnswered,
         WatchRetries, Tasks
    <2>2. QED
      BY <1>1, <1>8, <2>1 DEF WatchTask, WatchUnfreezes, WatchFreezes, WatchAnswered,
         WatchRetries, history
  <1>9. CASE RunEnds \/ Environment
    <2>1. wait'["eod"] = wait["eod"]
      BY <1>3, <1>9 DEF RunEnds, Environment, BarArrives, PriceMoves, FeedStops,
         ClockMoves, Stop, Tasks
    <2>2. QED
      BY <1>1, <1>9, <2>1 DEF RunEnds, Environment, BarArrives, PriceMoves, FeedStops,
         ClockMoves, Stop, history
  <1>10. CASE Broker
    <2>1. PICK t \in Tasks : Serves(t)
      BY <1>10 DEF Broker
    <2>2. ASSUME NEW u \in Tasks, NEW status, Replies(u, status)
          PROVE  /\ u # "eod" => wait'["eod"] = wait["eod"]
                 /\ wait'["eod"].op = wait["eod"].op
      BY <2>2 DEF Replies, TypeOK, Waits, Tasks
    <2>3. eodDone' = eodDone
      BY <2>1 DEF Serves, BrokerBuys, BrokerSells, OrderExecutes, BrokerFlattens,
         BrokerReports, history
    <2>4. ASSUME NEW s \in Symbols, BrokerBuys(s) PROVE FlatInv'
      <3>1. clock # "close"
        BY <2>4 DEF BrokerBuys, Out, EodInv
      <3>2. ~eodDone /\ wait["eod"].op # "flatten"
        BY <3>1 DEF EodInv
      <3>3. wait'["eod"].op = wait["eod"].op
        BY <2>2, <2>4 DEF BrokerBuys, OrderExecutes, Tasks
      <3>4. QED
        BY <2>3, <3>2, <3>3 DEF FlatInv
    <2>5. ASSUME NEW s \in Symbols, BrokerSells(t, s) PROVE FlatInv'
      <3>1. wait["eod"].op = "flatten" => t # "eod"
        BY <2>5 DEF BrokerSells, Out
      <3>2. /\ wait'["eod"].op = wait["eod"].op
            /\ t # "eod" => wait'["eod"] = wait["eod"]
        BY <2>2, <2>5 DEF BrokerSells, OrderExecutes
      <3>3. ASSUME held[s] = 0 PROVE held' = held
        <4>1. held[s] + (-1) \notin Lots
          BY <3>3, LotsObeyed
        <4>2. QED
          BY <2>5, <4>1 DEF BrokerSells, OrderExecutes
      <3>4. QED
        BY <2>3, <3>1, <3>2, <3>3 DEF FlatInv
    <2>6. CASE BrokerFlattens(t)
      <3>1. "flatten_error" \notin Faults
        BY DEF BrokerObeys
      <3>2. held' = [s \in Symbols |-> 0]
        BY <2>6, <3>1 DEF BrokerFlattens
      <3>3. QED
        BY <3>2 DEF FlatInv
    <2>7. CASE t = "recon" /\ BrokerReports
      BY <1>1, <2>2, <2>3, <2>7 DEF BrokerReports, Tasks
    <2>8. QED
      BY <2>1, <2>4, <2>5, <2>6, <2>7 DEF Serves
  <1>11. QED
    BY <1>2, <1>4, <1>5, <1>6, <1>7, <1>8, <1>9, <1>10 DEF Next

\* Once the end-of-day flatten is done, a broker that obeys holds nothing for
\* the account any more, whatever was lost, refused or left unfilled before:
\* no buy is out in that hour and a late sale finds nothing to sell.
THEOREM FlatAfterEod == ASSUME BrokerObeys PROVE Spec => []EodMeansFlat
  <1>1. Init => EodInv /\ FlatInv
    BY DEF Init, EodInv, EodUntracks, FlatInv, Asleep, Tasks
  <1>2. FlatInv => EodMeansFlat
    BY DEF FlatInv, EodMeansFlat
  <1>3. QED
    BY <1>1, <1>2, TypeCorrect, EodNext, FlatNext, PTL DEF Spec
=============================================================================
