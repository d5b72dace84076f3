--------------------------- MODULE BacktestProofs ---------------------------
(***************************************************************************)
(* Theorems of PaperSession and of Replay, the two simulations over one    *)
(* guard, for any symbols, prices and limits.                              *)
(***************************************************************************)
EXTENDS PaperSession, Replay, FiniteFacts

(***************************************************************************)
(* The risk record, as both use it.                                        *)
(***************************************************************************)

OpenSet(r) == {s \in Symbols : IsOpen(r, s)}

\* A fresh daily state (DailyRiskState) has nothing open and no trades.
LEMMA FreshIsShut ==
  /\ FreshState \in RiskStates
  /\ OpenSet(FreshState) = {}
  /\ FreshState.trades = 0
  BY DEF FreshState, RiskStates, NoPosition, NoReason, Strikes, IsOpen, OpenSet

\* A recorded fill opens its symbol and counts one trade.
LEMMA RecordedOpen ==
  ASSUME NEW r \in RiskStates, NEW s \in Symbols, NEW p \in Prices
  PROVE  /\ AfterOpen(r, s, p) \in RiskStates
         /\ OpenSet(AfterOpen(r, s, p)) = OpenSet(r) \cup {s}
         /\ AfterOpen(r, s, p).trades = r.trades + 1
  <1>1. Prices \subseteq Nat
    BY RiskConfig DEF RiskConfig
  <1>2. [r.positions EXCEPT ![s] = p] \in [Symbols -> Prices \union {NoPosition}]
    BY DEF RiskStates
  <1>3. r.trades + 1 \in Nat
    BY DEF RiskStates
  <1>4. AfterOpen(r, s, p) \in RiskStates
    BY <1>2, <1>3 DEF AfterOpen, RiskStates
  <1>5. \A u \in Symbols : AfterOpen(r, s, p).positions[u] = IF u = s THEN p ELSE r.positions[u]
    BY DEF AfterOpen, RiskStates
  <1>6. p # NoPosition
    BY <1>1 DEF NoPosition
  <1>7. \A u \in Symbols : IsOpen(AfterOpen(r, s, p), u) <=> (IsOpen(r, u) \/ u = s)
    BY <1>5, <1>6 DEF IsOpen
  <1>8. AfterOpen(r, s, p).trades = r.trades + 1
    BY DEF AfterOpen, RiskStates
  <1>9. QED
    BY <1>4, <1>7, <1>8 DEF OpenSet

\* Closes of zero shut their symbols.
LEMMA RecordedFlat ==
  ASSUME NEW r \in RiskStates, NEW S \in SUBSET Symbols
  PROVE  /\ AfterFlatCloses(r, S) \in RiskStates
         /\ OpenSet(AfterFlatCloses(r, S)) = OpenSet(r) \ S
         /\ AfterFlatCloses(r, S).trades = r.trades
  <1>1. /\ AfterFlatCloses(r, S) \in RiskStates
        /\ \A u \in Symbols : IsOpen(AfterFlatCloses(r, S), u) <=> (IsOpen(r, u) /\ u \notin S)
        /\ AfterFlatCloses(r, S).trades = r.trades
    BY DEF AfterFlatCloses, Larger, IsOpen, RiskStates, NoPosition, NoReason, Strikes
  <1>2. QED
    BY <1>1 DEF OpenSet

(***************************************************************************)
(* The paper session.                                                      *)
(***************************************************************************)

PaperTypeOK ==
  /\ psOpen \subseteq Symbols
  /\ psEngine \subseteq Symbols
  /\ psRisk \in RiskStates
  /\ psBar \in [at : {"bars", "over", "dead", "cancelled"}]
               \cup [at : {"quote", "buy", "sell"}, symbol : Symbols]
  /\ psStop \in [at : {"sleep", "quote", "over"}, todo : SUBSET Symbols]
                \cup [at : {"sell"}, symbol : Symbols, todo : SUBSET Symbols]
                \cup [at : {"cancelled"}]
  /\ psEod \in [at : {"sleep", "flatten", "over", "dead", "cancelled"}]
  /\ psStopped \in BOOLEAN
  /\ psHeld \in [Symbols -> Int]
  /\ psLost \in Nat

\* The symbols the stop loop has still to look at or is selling.
StopHas ==
  IF psStop.at = "quote" THEN psStop.todo
  ELSE IF psStop.at = "sell" THEN psStop.todo \cup {psStop.symbol}
  ELSE {}

BarSells(s) == psBar = Await("sell", s)

\* The sales of a symbol that may still be executed and answered before another
\* entry: two while it is open, one by each loop; later those that are out.
MaySell(s) ==
  IF psBar = At("cancelled") THEN 0
  ELSE IF s \in psOpen THEN 2
  ELSE (IF BarSells(s) THEN 1 ELSE 0) + (IF s \in StopHas THEN 1 ELSE 0)

\* Whoever has something to sell has it from an entry.
SellersFollowEntry ==
  psOpen # {} \/ psBar.at = "sell" \/ psStop.at \in {"quote", "sell"} => psRisk.trades >= 1

\* Each entry pays for two sales.
SalesArePaid == \A s \in Symbols : psHeld[s] + psRisk.trades + psLost + 1 >= MaySell(s)

TasksInStep ==
  /\ psBar = At("cancelled") => psStop.at = "cancelled" /\ psEod = At("cancelled")
  /\ psStop.at = "sell" => psStop.symbol \notin psStop.todo

PaperInv ==
  PaperTypeOK /\ PaperBooksAgree /\ TasksInStep /\ SellersFollowEntry /\ SalesArePaid

(***************************************************************************)
(* One lemma per action.  In each, the books are the two conjuncts of      *)
(* PaperBooksAgree, and MaySell is followed for one symbol u.              *)
(***************************************************************************)

\* What a place of a task tells of it.
LEMMA Places ==
  ASSUME PaperTypeOK
  PROVE  /\ psBar.at \in {"quote", "buy", "sell"}
              => psBar.symbol \in Symbols /\ psBar = Await(psBar.at, psBar.symbol)
         /\ psBar.at \in {"bars", "over", "dead", "cancelled"} => psBar = At(psBar.at)
         /\ \A s : BarSells(s) <=> psBar.at = "sell" /\ psBar.symbol = s
         /\ psBar = At("cancelled") <=> psBar.at = "cancelled"
  BY DEF PaperTypeOK, Await, At, BarSells

\* What stays in the account of a symbol, with the credits.
Credit(u) == psHeld[u] + psRisk.trades + psLost + 1

\* The numbers are numbers, and a credit is as large as what may be sold.
LEMMA Credits ==
  ASSUME PaperInv, NEW u \in Symbols
  PROVE  /\ psHeld[u] \in Int /\ psRisk.trades \in Nat /\ psLost \in Nat
         /\ MaySell(u) \in 0 .. 2
         /\ Credit(u) \in Int /\ Credit(u) >= MaySell(u)
  <1>1. psHeld[u] \in Int /\ psRisk.trades \in Nat /\ psLost \in Nat
    BY DEF PaperInv, PaperTypeOK, RiskStates
  <1>2. MaySell(u) \in 0 .. 2
    <2>1. \A a, b \in {0, 1} : a + b \in 0 .. 2
      OBVIOUS
    <2>2. QED
      BY <2>1 DEF MaySell
  <1>3. Credit(u) >= MaySell(u)
    BY DEF PaperInv, SalesArePaid, Credit
  <1>4. QED
    BY <1>1, <1>2, <1>3 DEF Credit

\* The session starts flat.
LEMMA PaperInvInit == PaperInit => PaperInv
  <1> SUFFICES ASSUME PaperInit PROVE PaperInv
    OBVIOUS
  <1>1. PaperTypeOK
    <2>1. psRisk \in RiskStates
      BY FreshIsShut DEF PaperInit
    <2>2. /\ psBar \in [at : {"bars", "over", "dead", "cancelled"}]
          /\ psEod \in [at : {"sleep", "flatten", "over", "dead", "cancelled"}]
      BY DEF PaperInit, At
    <2>3. psStop \in [at : {"sleep", "quote", "over"}, todo : SUBSET Symbols]
      BY DEF PaperInit
    <2>4. psHeld \in [Symbols -> Int] /\ psLost \in Nat
      BY DEF PaperInit
    <2>5. QED
      BY <2>1, <2>2, <2>3, <2>4 DEF PaperInit, PaperTypeOK
  <1>2. PaperBooksAgree
    <2>1. OpenSet(psRisk) = {} /\ psOpen = {} /\ psEngine = {}
      BY FreshIsShut DEF PaperInit
    <2>2. QED
      BY <2>1 DEF PaperBooksAgree, OpenSet
  <1>3. TasksInStep /\ SellersFollowEntry
    BY DEF PaperInit, TasksInStep, SellersFollowEntry, At
  <1>4. SalesArePaid
    <2> SUFFICES ASSUME NEW u \in Symbols PROVE Credit(u) >= MaySell(u)
      BY DEF SalesArePaid, Credit
    <2>1. MaySell(u) = 0
      BY DEF PaperInit, MaySell, BarSells, StopHas, At, Await
    <2>2. Credit(u) = 1
      BY FreshIsShut DEF PaperInit, Credit
    <2>3. QED
      BY <2>1, <2>2
  <1>5. QED
    BY <1>1, <1>2, <1>3, <1>4 DEF PaperInv

\* A bar arrives, or the bar loop sees the stop event.
LEMMA BarArrivesKeeps ==
  ASSUME PaperInv, BarArrives
  PROVE  PaperInv'
  <1>1. PaperTypeOK'
    BY DEF PaperInv, PaperTypeOK, BarArrives, psBooks, At, Await
  <1>2. PaperBooksAgree' /\ TasksInStep' /\ SellersFollowEntry'
    BY DEF PaperInv, PaperBooksAgree, TasksInStep, SellersFollowEntry, BarArrives, psBooks, At, Await
  <1>3. SalesArePaid'
    <2> SUFFICES ASSUME NEW u \in Symbols PROVE Credit(u)' >= MaySell(u)'
      BY DEF SalesArePaid, Credit
    <2>1. MaySell(u)' = MaySell(u)
      BY DEF MaySell, BarSells, StopHas, BarArrives, psBooks, At, Await
    <2>2. Credit(u)' = Credit(u)
      BY DEF Credit, BarArrives, psBooks
    <2>3. QED
      BY <2>1, <2>2, Credits
  <1>4. QED
    BY <1>1, <1>2, <1>3 DEF PaperInv

\* The quote of a bar is there: nothing, a sale or an order to buy follows.
LEMMA BarQuotedKeeps ==
  ASSUME PaperInv, BarQuoted
  PROVE  PaperInv'
  <1>1. PaperTypeOK'
    BY Places DEF PaperInv, PaperTypeOK, BarQuoted, At, Await, Dead
  <1>2. PaperBooksAgree' /\ TasksInStep' /\ SellersFollowEntry'
    BY Places DEF PaperInv, PaperBooksAgree, TasksInStep, SellersFollowEntry, BarQuoted, At, Await, Dead
  <1>3. SalesArePaid'
    <2> SUFFICES ASSUME NEW u \in Symbols PROVE Credit(u)' >= MaySell(u)'
      BY DEF SalesArePaid, Credit
    <2>1. MaySell(u)' = MaySell(u)
      BY Places DEF PaperInv, MaySell, BarSells, StopHas, BarQuoted, At, Await, Dead
    <2>2. Credit(u)' = Credit(u)
      BY DEF Credit, BarQuoted
    <2>3. QED
      BY <2>1, <2>2, Credits
  <1>4. QED
    BY <1>1, <1>2, <1>3 DEF PaperInv

\* An order to buy is answered: filled, not filled, or lost with the bar loop.
LEMMA EntryAnsweredKeeps ==
  ASSUME PaperInv, EntryAnswered
  PROVE  PaperInv'
  <1> DEFINE s == psBar.symbol
  <1>0. s \in Symbols /\ psBar.at = "buy" /\ psBar # At("cancelled")
    BY Places DEF PaperInv, EntryAnswered, At
  <1>1. ASSUME NEW price \in Prices,
               psOpen' = psOpen \cup {s}, psEngine' = psEngine \cup {s},
               psRisk' = AfterOpen(psRisk, s, price), Fill(s, 1, TRUE), psBar' = At("bars"),
               UNCHANGED <<psStop, psEod, psStopped, psLost>>
        PROVE  PaperInv'
    <2>1. /\ psRisk' \in RiskStates
          /\ {u \in Symbols : IsOpen(psRisk', u)} = {u \in Symbols : IsOpen(psRisk, u)} \cup {s}
          /\ psRisk'.trades = psRisk.trades + 1
      BY <1>0, <1>1, RecordedOpen DEF PaperInv, PaperTypeOK, OpenSet
    <2>2. psHeld' \in [Symbols -> Int] /\ psHeld'[s] = psHeld[s] + 1
          /\ \A u \in Symbols : u # s => psHeld'[u] = psHeld[u]
      BY <1>0, <1>1 DEF Fill, PaperInv, PaperTypeOK
    <2>3. PaperTypeOK'
      BY <1>0, <1>1, <2>1, <2>2 DEF PaperInv, PaperTypeOK, At
    <2>4. PaperBooksAgree'
      BY <1>1, <2>1 DEF PaperInv, PaperBooksAgree
    <2>5. TasksInStep' /\ SellersFollowEntry'
      BY <1>1, <2>1 DEF PaperInv, PaperTypeOK, RiskStates, TasksInStep, SellersFollowEntry, At
    <2>6. SalesArePaid'
      <3> SUFFICES ASSUME NEW u \in Symbols PROVE Credit(u)' >= MaySell(u)'
        BY DEF SalesArePaid, Credit
      <3>1. CASE u = s
        <4>1. MaySell(u)' = 2
          BY <1>1, <3>1 DEF MaySell, At
        <4>2. Credit(u)' = Credit(u) + 2
          BY <1>0, <1>1, <2>1, <2>2, <3>1, Credits DEF Credit
        <4>3. QED
          BY <4>1, <4>2, Credits
      <3>2. CASE u # s
        <4>1. MaySell(u)' = MaySell(u)
          BY <1>0, <1>1, <3>2 DEF MaySell, BarSells, StopHas, At, Await
        <4>2. Credit(u)' = Credit(u) + 1
          BY <1>0, <1>1, <2>1, <2>2, <3>2, Credits DEF Credit
        <4>3. QED
          BY <4>1, <4>2, Credits
      <3>3. QED
        BY <3>1, <3>2
    <2>7. QED
      BY <2>3, <2>4, <2>5, <2>6 DEF PaperInv
  <1>2. ASSUME psBar' \in {At("bars"), Dead}, NEW lots \in {0, 1}, psHeld' = [psHeld EXCEPT ![s] = @ + lots],
               UNCHANGED <<psBooks, psStop, psEod, psStopped, psLost>>
        PROVE  PaperInv'
    <2>1. PaperTypeOK'
      BY <1>0, <1>2 DEF PaperInv, PaperTypeOK, psBooks, At, Dead
    <2>2. PaperBooksAgree' /\ TasksInStep' /\ SellersFollowEntry'
      BY <1>2 DEF PaperInv, PaperBooksAgree, TasksInStep, SellersFollowEntry, psBooks, At, Dead
    <2>3. SalesArePaid'
      <3> SUFFICES ASSUME NEW u \in Symbols PROVE Credit(u)' >= MaySell(u)'
        BY DEF SalesArePaid, Credit
      <3>1. MaySell(u)' = MaySell(u)
        BY <1>0, <1>2 DEF MaySell, BarSells, StopHas, psBooks, At, Await, Dead
      <3>2. Credit(u)' = Credit(u) + (IF u = s THEN lots ELSE 0)
        BY <1>0, <1>2, Credits DEF Credit, psBooks, PaperInv, PaperTypeOK
      <3>3. QED
        BY <3>1, <3>2, Credits
    <2>4. QED
      BY <2>1, <2>2, <2>3 DEF PaperInv
  <1>3. CASE psBar' = At("bars") /\ UNCHANGED <<psBooks, psHeld>>
    <2>1. psHeld' = [psHeld EXCEPT ![s] = @ + 0]
      BY <1>0, <1>3 DEF PaperInv, PaperTypeOK
    <2>2. QED
      BY <1>2, <1>3, <2>1 DEF EntryAnswered
  <1>4. ASSUME psBar' = Dead, UNCHANGED psBooks, NEW executed \in BOOLEAN, Fill(s, 1, executed)
        PROVE  PaperInv'
    BY <1>2, <1>4 DEF EntryAnswered, Fill
  <1>5. QED
    BY <1>1, <1>3, <1>4 DEF EntryAnswered

\* A sale of the bar loop is answered: executed, refused, or lost with the loop.
LEMMA ExitAnsweredKeeps ==
  ASSUME PaperInv, ExitAnswered
  PROVE  PaperInv'
  <1> DEFINE s == psBar.symbol
  <1>0. /\ s \in Symbols /\ psBar.at = "sell" /\ psBar # At("cancelled")
        /\ UNCHANGED <<psStop, psEod, psStopped>>
        /\ \A u : BarSells(u) <=> u = s
        /\ psBar' \in {At("bars"), Dead} => psBar' # At("cancelled") /\ \A u : ~BarSells(u)'
    BY Places DEF PaperInv, ExitAnswered, At, Await, BarSells, Dead
  <1>1. ASSUME psBar' \in {At("bars"), Dead}, Fill(s, -1, TRUE), Forget({s}), RecordCloses({s}),
               UNCHANGED psLost
        PROVE  PaperInv'
    <2>1. /\ psRisk' \in RiskStates
          /\ {u \in Symbols : IsOpen(psRisk', u)} = {u \in Symbols : IsOpen(psRisk, u)} \ {s}
          /\ psRisk'.trades = psRisk.trades
      BY <1>0, <1>1, RecordedFlat DEF PaperInv, PaperTypeOK, OpenSet, RecordCloses
    <2>2. psHeld' \in [Symbols -> Int] /\ psHeld'[s] = psHeld[s] - 1
          /\ \A u \in Symbols : u # s => psHeld'[u] = psHeld[u]
      BY <1>0, <1>1 DEF Fill, PaperInv, PaperTypeOK
    <2>3. PaperTypeOK'
      BY <1>0, <1>1, <2>1, <2>2 DEF PaperInv, PaperTypeOK, At, Dead, Forget
    <2>4. PaperBooksAgree'
      BY <1>1, <2>1 DEF PaperInv, PaperBooksAgree, Forget
    <2>5. TasksInStep' /\ SellersFollowEntry'
      BY <1>0, <1>1, <2>1 DEF PaperInv, TasksInStep, SellersFollowEntry, At, Dead, Forget
    <2>6. SalesArePaid'
      <3> SUFFICES ASSUME NEW u \in Symbols PROVE Credit(u)' >= MaySell(u)'
        BY DEF SalesArePaid, Credit
      <3>1. CASE u = s
        <4>1. MaySell(u)' <= MaySell(u) - 1
          BY <1>0, <1>1, <3>1 DEF MaySell, StopHas, Forget
        <4>2. Credit(u)' = Credit(u) - 1
          BY <1>0, <1>1, <2>1, <2>2, <3>1, Credits DEF Credit
        <4>3. QED
          BY <4>1, <4>2, Credits DEF MaySell
      <3>2. CASE u # s
        <4>1. MaySell(u)' = MaySell(u)
          BY <1>0, <1>1, <3>2 DEF MaySell, StopHas, Forget
        <4>2. Credit(u)' = Credit(u)
          BY <1>0, <1>1, <2>1, <2>2, <3>2, Credits DEF Credit
        <4>3. QED
          BY <4>1, <4>2, Credits
      <3>3. QED
        BY <3>1, <3>2
    <2>7. QED
      BY <2>3, <2>4, <2>5, <2>6 DEF PaperInv
  <1>2. ASSUME psBar' \in {At("bars"), Dead}, UNCHANGED psBooks,
               \/ UNCHANGED <<psHeld, psLost>>
               \/ psLost' = psLost + 1 /\ Fill(s, -1, TRUE)
        PROVE  PaperInv'
    <2>1. PaperTypeOK'
      BY <1>0, <1>2 DEF PaperInv, PaperTypeOK, psBooks, At, Dead, Fill
    <2>2. PaperBooksAgree' /\ TasksInStep' /\ SellersFollowEntry'
      BY <1>0, <1>2 DEF PaperInv, PaperBooksAgree, TasksInStep, SellersFollowEntry, psBooks, At, Dead
    <2>3. SalesArePaid'
      <3> SUFFICES ASSUME NEW u \in Symbols PROVE Credit(u)' >= MaySell(u)'
        BY DEF SalesArePaid, Credit
      <3>1. MaySell(u)' <= MaySell(u) /\ MaySell(u)' \in Int
        BY <1>0, <1>2 DEF MaySell, StopHas, psBooks
      <3>2. Credit(u)' >= Credit(u) /\ Credit(u)' \in Int
        BY <1>0, <1>2, Credits DEF Credit, psBooks, PaperInv, PaperTypeOK, Fill
      <3>3. QED
        BY <3>1, <3>2, Credits
    <2>4. QED
      BY <2>1, <2>2, <2>3 DEF PaperInv
  <1>3. CASE /\ Fill(s, -1, TRUE) /\ Forget({s}) /\ RecordCloses({s})
             /\ UNCHANGED psLost
             /\ psBar' = IF s \in psOpen THEN At("bars") ELSE Dead
    BY <1>1, <1>3
  <1>4. CASE psBar' = At("bars") /\ UNCHANGED <<psBooks, psHeld, psLost>>
    BY <1>2, <1>4
  <1>5. CASE psBar' = Dead /\ UNCHANGED psBooks /\ RaisedSale(s)
    BY <1>2, <1>5 DEF RaisedSale
  <1>6. QED
    BY <1>3, <1>4, <1>5 DEF ExitAnswered

\* The stop loop wakes up with the positions of the moment.
LEMMA StopWakesKeeps ==
  ASSUME PaperInv, StopWakes
  PROVE  PaperInv'
  <1>1. PaperTypeOK'
    BY DEF PaperInv, PaperTypeOK, StopWakes, psBooks
  <1>2. PaperBooksAgree' /\ TasksInStep' /\ SellersFollowEntry'
    BY DEF PaperInv, PaperBooksAgree, TasksInStep, SellersFollowEntry, StopWakes, psBooks, At
  <1>3. SalesArePaid'
    <2> SUFFICES ASSUME NEW u \in Symbols PROVE Credit(u)' >= MaySell(u)'
      BY DEF SalesArePaid, Credit
    <2>1. MaySell(u)' = MaySell(u)
      BY DEF MaySell, BarSells, StopHas, StopWakes, psBooks
    <2>2. Credit(u)' = Credit(u)
      BY DEF Credit, StopWakes, psBooks
    <2>3. QED
      BY <2>1, <2>2, Credits
  <1>4. QED
    BY <1>1, <1>2, <1>3 DEF PaperInv

\* The stop loop looks at one of its symbols.
LEMMA StopQuotedKeeps ==
  ASSUME PaperInv, StopQuoted
  PROVE  PaperInv'
  <1>1. PICK s \in psStop.todo :
           psStop' \in {[at |-> "sell", symbol |-> s, todo |-> psStop.todo \ {s}],
                         NextStop(psStop.todo \ {s})}
    BY DEF StopQuoted
  <1>2. psStop.at = "quote" /\ psStop.todo \subseteq Symbols
    BY DEF PaperInv, PaperTypeOK, StopQuoted
  <1>3. PaperTypeOK'
    BY <1>1, <1>2 DEF PaperInv, PaperTypeOK, StopQuoted, NextStop, psBooks
  <1>4. PaperBooksAgree' /\ TasksInStep' /\ SellersFollowEntry'
    BY <1>1, <1>2 DEF PaperInv, PaperBooksAgree, TasksInStep, SellersFollowEntry, StopQuoted, NextStop,
      psBooks, At
  <1>5. SalesArePaid'
    <2> SUFFICES ASSUME NEW u \in Symbols PROVE Credit(u)' >= MaySell(u)'
      BY DEF SalesArePaid, Credit
    <2>1. StopHas' \subseteq StopHas
      BY <1>1, <1>2 DEF StopHas, NextStop
    <2>2. MaySell(u)' <= MaySell(u) /\ MaySell(u)' \in Int
      BY <2>1 DEF MaySell, BarSells, StopQuoted, psBooks
    <2>3. Credit(u)' = Credit(u)
      BY DEF Credit, StopQuoted, psBooks
    <2>4. QED
      BY <2>2, <2>3, Credits
  <1>6. QED
    BY <1>3, <1>4, <1>5 DEF PaperInv

\* A sale of the stop loop is over: recorded whatever the answer, or raised.
LEMMA StopSoldKeeps ==
  ASSUME PaperInv, StopSold
  PROVE  PaperInv'
  <1> DEFINE s == psStop.symbol
  <1>0. /\ s \in Symbols /\ psStop.at = "sell" /\ psStop.todo \subseteq Symbols /\ s \notin psStop.todo
        /\ UNCHANGED <<psBar, psEod, psStopped>>
        /\ psStop' = NextStop(psStop.todo)
        /\ StopHas = psStop.todo \cup {s} /\ StopHas' = psStop.todo
        /\ psBar # At("cancelled")
    BY DEF PaperInv, PaperTypeOK, TasksInStep, StopSold, NextStop, StopHas, At
  <1>1. ASSUME NEW executed \in BOOLEAN,
               Forget({s}), RecordCloses({s}), UNCHANGED psLost, Fill(s, -1, executed)
        PROVE  PaperInv'
    <2>1. /\ psRisk' \in RiskStates
          /\ {u \in Symbols : IsOpen(psRisk', u)} = {u \in Symbols : IsOpen(psRisk, u)} \ {s}
          /\ psRisk'.trades = psRisk.trades
      BY <1>0, <1>1, RecordedFlat DEF PaperInv, PaperTypeOK, OpenSet, RecordCloses
    <2>2. psHeld' \in [Symbols -> Int] /\ psHeld'[s] >= psHeld[s] - 1
          /\ \A u \in Symbols : u # s => psHeld'[u] = psHeld[u]
      BY <1>0, <1>1 DEF Fill, PaperInv, PaperTypeOK
    <2>3. PaperTypeOK'
      BY <1>0, <1>1, <2>1, <2>2 DEF PaperInv, PaperTypeOK, NextStop, Forget
    <2>4. PaperBooksAgree'
      BY <1>1, <2>1 DEF PaperInv, PaperBooksAgree, Forget
    <2>5. TasksInStep' /\ SellersFollowEntry'
      BY <1>0, <1>1, <2>1 DEF PaperInv, TasksInStep, SellersFollowEntry, NextStop, Forget, At
    <2>6. SalesArePaid'
      <3> SUFFICES ASSUME NEW u \in Symbols PROVE Credit(u)' >= MaySell(u)'
        BY DEF SalesArePaid, Credit
      <3>1. CASE u = s
        <4>1. MaySell(u)' <= MaySell(u) - 1 /\ MaySell(u)' \in Int
          BY <1>0, <1>1, <3>1 DEF MaySell, BarSells, Forget
        <4>2. Credit(u)' >= Credit(u) - 1 /\ Credit(u)' \in Int
          BY <1>0, <1>1, <2>1, <2>2, <3>1, Credits DEF Credit
        <4>3. QED
          BY <4>1, <4>2, Credits
      <3>2. CASE u # s
        <4>1. MaySell(u)' = MaySell(u)
          BY <1>0, <1>1, <3>2 DEF MaySell, BarSells, Forget
        <4>2. Credit(u)' = Credit(u)
          BY <1>0, <1>1, <2>1, <2>2, <3>2, Credits DEF Credit
        <4>3. QED
          BY <4>1, <4>2, Credits
      <3>3. QED
        BY <3>1, <3>2
    <2>7. QED
      BY <2>3, <2>4, <2>5, <2>6 DEF PaperInv
  <1>2. ASSUME UNCHANGED psBooks, RaisedSale(s)
        PROVE  PaperInv'
    <2>1. PaperTypeOK'
      BY <1>0, <1>2 DEF PaperInv, PaperTypeOK, psBooks, NextStop, Fill, RaisedSale
    <2>2. PaperBooksAgree' /\ TasksInStep' /\ SellersFollowEntry'
      BY <1>0, <1>2 DEF PaperInv, PaperBooksAgree, TasksInStep, SellersFollowEntry, psBooks, NextStop, At
    <2>3. SalesArePaid'
      <3> SUFFICES ASSUME NEW u \in Symbols PROVE Credit(u)' >= MaySell(u)'
        BY DEF SalesArePaid, Credit
      <3>1. MaySell(u)' <= MaySell(u) /\ MaySell(u)' \in Int
        BY <1>0, <1>2 DEF MaySell, BarSells, psBooks
      <3>2. Credit(u)' >= Credit(u) /\ Credit(u)' \in Int
        BY <1>0, <1>2, Credits DEF Credit, psBooks, PaperInv, PaperTypeOK, Fill, RaisedSale
      <3>3. QED
        BY <3>1, <3>2, Credits
    <2>4. QED
      BY <2>1, <2>2, <2>3 DEF PaperInv
  <1>3. QED
    BY <1>1, <1>2 DEF StopSold, StopForgets

\* The end-of-day loop wakes up.
LEMMA EodWakesKeeps ==
  ASSUME PaperInv, EodWakes
  PROVE  PaperInv'
  <1>1. PaperTypeOK'
    BY DEF PaperInv, PaperTypeOK, EodWakes, psBooks, At
  <1>2. PaperBooksAgree' /\ TasksInStep' /\ SellersFollowEntry'
    BY DEF PaperInv, PaperBooksAgree, TasksInStep, SellersFollowEntry, EodWakes, psBooks, At
  <1>3. SalesArePaid'
    BY DEF PaperInv, SalesArePaid, MaySell, BarSells, StopHas, EodWakes, psBooks
  <1>4. QED
    BY <1>1, <1>2, <1>3 DEF PaperInv

\* The flatten is over: the account may be flat, the books are, unless it raised.
\* Whoever still has something to sell has it from an entry, which pays for it.
LEMMA EodFlattenedKeeps ==
  ASSUME PaperInv, EodFlattened
  PROVE  PaperInv'
  <1>1. /\ psHeld' \in {psHeld, [s \in Symbols |-> 0]}
        /\ UNCHANGED <<psBar, psStop, psLost>>
        /\ psEod' \in {At("over"), Dead}
        /\ psStopped' \in BOOLEAN
    BY DEF EodFlattened, PaperInv, PaperTypeOK
  <1>2. \/ Forget(psOpen) /\ RecordCloses(psOpen)
        \/ UNCHANGED psBooks
    BY DEF EodFlattened
  <1>3. /\ psRisk' \in RiskStates
        /\ {u \in Symbols : IsOpen(psRisk', u)} = psOpen'
        /\ psRisk'.trades = psRisk.trades
        /\ psEngine' \subseteq psOpen' /\ psOpen' \subseteq psOpen
    <2>1. CASE Forget(psOpen) /\ RecordCloses(psOpen)
      <3>1. /\ psRisk' \in RiskStates /\ psRisk'.trades = psRisk.trades
            /\ {u \in Symbols : IsOpen(psRisk', u)} = {u \in Symbols : IsOpen(psRisk, u)} \ psOpen
        BY <2>1, RecordedFlat DEF PaperInv, PaperTypeOK, OpenSet, RecordCloses
      <3>2. QED
        BY <2>1, <3>1 DEF PaperInv, PaperBooksAgree, Forget
    <2>2. CASE UNCHANGED psBooks
      BY <2>2 DEF psBooks, PaperInv, PaperTypeOK, PaperBooksAgree
    <2>3. QED
      BY <1>2, <2>1, <2>2
  <1>4. psHeld' \in [Symbols -> Int]
    BY <1>1 DEF PaperInv, PaperTypeOK
  <1>5. PaperTypeOK'
    BY <1>1, <1>3, <1>4 DEF PaperInv, PaperTypeOK, At, Dead
  <1>6. PaperBooksAgree' /\ SellersFollowEntry'
    BY <1>1, <1>3 DEF PaperInv, PaperBooksAgree, SellersFollowEntry
  <1>7. TasksInStep'
    BY <1>1 DEF PaperInv, TasksInStep, EodFlattened, At
  <1>8. SalesArePaid'
    <2> SUFFICES ASSUME NEW u \in Symbols PROVE Credit(u)' >= MaySell(u)'
      BY DEF SalesArePaid, Credit
    <2>1. MaySell(u)' <= MaySell(u) /\ MaySell(u)' \in Int
      BY <1>1, <1>3 DEF MaySell, BarSells, StopHas
    <2>2. CASE psHeld'[u] = psHeld[u]
      BY <1>1, <1>3, <2>1, <2>2, Credits DEF Credit
    <2>3. CASE psHeld'[u] = 0 /\ MaySell(u) = 0
      BY <1>1, <1>3, <2>1, <2>3, Credits DEF Credit
    <2>4. CASE psHeld'[u] = 0 /\ MaySell(u) # 0
      <3>1. psRisk.trades >= 1
        BY <2>4 DEF MaySell, BarSells, StopHas, Await, PaperInv, SellersFollowEntry
      <3>2. Credit(u)' >= 2 /\ Credit(u)' \in Int
        BY <1>1, <1>3, <2>4, <3>1, Credits DEF Credit
      <3>3. QED
        BY <2>1, <3>2, Credits
    <2>5. QED
      BY <1>1, <2>2, <2>3, <2>4
  <1>9. QED
    BY <1>5, <1>6, <1>7, <1>8 DEF PaperInv

\* Somebody stops the session.
LEMMA CallerStopsKeeps ==
  ASSUME PaperInv, CallerStops
  PROVE  PaperInv'
  BY DEF PaperInv, PaperTypeOK, PaperBooksAgree, TasksInStep, SellersFollowEntry, SalesArePaid,
    MaySell, BarSells, StopHas, CallerStops, psBooks, psTasks

\* The tasks are cancelled; what they were selling is sold once more at most.
LEMMA PaperEndsKeeps ==
  ASSUME PaperInv, PaperEnds
  PROVE  PaperInv'
  <1>1. PICK bought, sold, stopped \in BOOLEAN :
          psHeld' = [s \in Symbols |-> psHeld[s]
              + (IF bought /\ psBar = Await("buy", s) THEN 1 ELSE 0)
              - (IF sold /\ psBar = Await("sell", s) THEN 1 ELSE 0)
              - (IF stopped /\ psStop.at = "sell" /\ psStop.symbol = s THEN 1 ELSE 0)]
    BY DEF PaperEnds
  <1>2. \A a, b, c \in {0, 1} : \A h \in Int : h + a - b - c \in Int
    OBVIOUS
  <1>3. psHeld' \in [Symbols -> Int]
    BY <1>1, <1>2 DEF PaperInv, PaperTypeOK
  <1>4. PaperTypeOK'
    BY <1>3 DEF PaperInv, PaperTypeOK, PaperEnds, psBooks, At
  <1>5. PaperBooksAgree' /\ TasksInStep' /\ SellersFollowEntry'
    BY DEF PaperInv, PaperBooksAgree, TasksInStep, SellersFollowEntry, PaperEnds, psBooks, At
  <1>6. SalesArePaid'
    <2> SUFFICES ASSUME NEW u \in Symbols PROVE Credit(u)' >= MaySell(u)'
      BY DEF SalesArePaid, Credit
    <2> DEFINE b == IF BarSells(u) THEN 1 ELSE 0
               c == IF psStop.at = "sell" /\ psStop.symbol = u THEN 1 ELSE 0
    <2>1. MaySell(u)' = 0
      BY DEF MaySell, PaperEnds
    <2>2. psHeld'[u] >= psHeld[u] - b - c
      BY <1>1, Credits DEF BarSells
    <2>3. b \in {0, 1} /\ c \in {0, 1} /\ MaySell(u) >= b + c
      BY DEF MaySell, StopHas, PaperEnds
    <2> HIDE DEF b, c
    <2>4. Credit(u)' >= Credit(u) - b - c
      <3>1. psRisk' = psRisk /\ psLost' = psLost
        BY DEF PaperEnds, psBooks
      <3>2. QED
        BY <1>3, <2>2, <2>3, <3>1, Credits DEF Credit
    <2>5. Credit(u)' \in Int
      BY <1>4, <1>3 DEF Credit, PaperTypeOK, RiskStates
    <2>6. QED
      BY <2>1, <2>3, <2>4, <2>5, Credits
  <1>7. QED
    BY <1>4, <1>5, <1>6 DEF PaperInv

\* Every step of the session keeps the invariant.
LEMMA PaperInvNext == PaperInv /\ [PaperNext]_psVars => PaperInv'
  <1> SUFFICES ASSUME PaperInv, [PaperNext]_psVars PROVE PaperInv'
    OBVIOUS
  <1>1. CASE UNCHANGED psVars
    BY <1>1 DEF psVars, psBooks, psTasks, PaperInv, PaperTypeOK, PaperBooksAgree, TasksInStep,
      SellersFollowEntry, SalesArePaid, MaySell, BarSells, StopHas
  <1>2. QED
    BY <1>1, BarArrivesKeeps, BarQuotedKeeps, EntryAnsweredKeeps, ExitAnsweredKeeps,
      StopWakesKeeps, StopQuotedKeeps, StopSoldKeeps, EodWakesKeeps, EodFlattenedKeeps,
      CallerStopsKeeps, PaperEndsKeeps DEF PaperNext

\* The paper session keeps its inductive invariant.
LEMMA PaperInvariant == PaperSpec => []PaperInv
  BY PaperInvInit, PaperInvNext, PTL DEF PaperSpec

\* The three tasks of the paper session (core/backtest/paper_session.py), in any
\* interleaving of their awaits, leave _open, the guard and the engine in step.
THEOREM PaperBooksStayAgreed == PaperSpec => []PaperBooksAgree
  <1>1. PaperInv => PaperBooksAgree
    BY DEF PaperInv
  <1>2. QED
    BY <1>1, PaperInvariant, PTL

\* However often the bar loop, the stop loop and the flatten race to sell one
\* position, an account is short by at most one lot, one more for every entry of
\* the day, and one for every sale whose answer was lost.
THEOREM PaperSellsStayBounded == PaperSpec => []PaperSellsBounded
  <1>1. PaperInv => PaperSellsBounded
    <2> SUFFICES ASSUME PaperInv, NEW s \in Symbols
                 PROVE  psHeld[s] >= -1 - psRisk.trades - psLost
      BY DEF PaperSellsBounded
    <2>1. QED
      BY Credits DEF Credit
  <1>2. QED
    BY <1>1, PaperInvariant, PTL

(***************************************************************************)
(* The replay: what a trade adds to the report of its day.                 *)
(***************************************************************************)

TradeRecords == [net : Int, vetoed : BOOLEAN]

Nets(trades) == [i \in DOMAIN trades |-> trades[i].net]

\* The result of the first trades is a sum of integers.
LEMMA NetIsSum ==
  ASSUME NEW trades \in Seq(TradeRecords), NEW n \in Nat
  PROVE  /\ IsFiniteSet(Completed(trades) \cap 1 .. n)
         /\ NetUpTo(trades, n) = SumOver(Nets(trades), Completed(trades) \cap 1 .. n)
         /\ NetUpTo(trades, n) \in Int
  <1> DEFINE S == Completed(trades) \cap 1 .. n
  <1>1. IsFiniteSet(S)
    <2>1. IsFiniteSet(1 .. n) /\ S \subseteq 1 .. n
      BY FS_Interval
    <2>2. QED
      BY <2>1, FS_Subset
  <1>2. NetUpTo(trades, n) = SumOver(Nets(trades), S)
    BY SumSetIs DEF NetUpTo, Nets
  <1>3. \A i \in S : Nets(trades)[i] \in Int
    <2>1. \A i \in DOMAIN trades : trades[i] \in TradeRecords
      BY LenProperties, ElementOfSeq
    <2>2. QED
      BY <2>1 DEF Nets, Completed, TradeRecords
  <1>4. SumOver(Nets(trades), S) \in Int
    <2> HIDE DEF S
    <2> QED BY <1>1, <1>3, SumType
  <1>5. QED
    BY <1>1, <1>2, <1>4

\* The report of a day without trades.
LEMMA NoTrades ==
  /\ <<>> \in Seq(TradeRecords)
  /\ NetOf(<<>>) = 0 /\ PeakOf(<<>>) = 0 /\ Cardinality(Completed(<<>>)) = 0
  <1>1. <<>> \in Seq(TradeRecords) /\ Len(<<>>) = 0 /\ Completed(<<>>) = {}
    BY DEF Completed
  <1>2. NetUpTo(<<>>, 0) = 0
    <2>1. NetUpTo(<<>>, 0) = SumOver(Nets(<<>>), {})
      BY <1>1, NetIsSum
    <2>2. QED
      BY <2>1, FS_EmptySet, SumPicked
  <1>3. {NetUpTo(<<>>, n) : n \in 0 .. Len(<<>>)} = {0}
    BY <1>1, <1>2
  <1>4. Max({0}) = 0
    BY MaxIs
  <1>5. QED
    BY <1>1, <1>2, <1>3, <1>4, FS_EmptySet DEF NetOf, PeakOf

\* A result is never above its peak, and the peak is the result of some trades.
LEMMA PeakIsHighest ==
  ASSUME NEW trades \in Seq(TradeRecords)
  PROVE  /\ NetOf(trades) \in Int /\ PeakOf(trades) \in Int
         /\ \A n \in 0 .. Len(trades) : PeakOf(trades) >= NetUpTo(trades, n)
         /\ \E n \in 0 .. Len(trades) : PeakOf(trades) = NetUpTo(trades, n)
  <1> DEFINE R == {NetUpTo(trades, n) : n \in 0 .. Len(trades)}
  <1>1. Len(trades) \in Nat /\ IsFiniteSet(0 .. Len(trades))
    BY LenProperties, FS_Interval
  <1>2. R \subseteq Int /\ R # {}
    <2>1. 0 \in 0 .. Len(trades) /\ \A n \in 0 .. Len(trades) : n \in Nat
      BY <1>1
    <2>2. \A n \in 0 .. Len(trades) : NetUpTo(trades, n) \in Int
      BY <2>1, NetIsSum
    <2>3. QED
      BY <2>1, <2>2
  <1>3. IsFiniteSet(R)
    <2> DEFINE f == [n \in 0 .. Len(trades) |-> NetUpTo(trades, n)]
    <2>1. R = {f[n] : n \in 0 .. Len(trades)} /\ f \in [0 .. Len(trades) -> R]
      OBVIOUS
    <2>2. \A r \in R : \E n \in 0 .. Len(trades) : f[n] = r
      OBVIOUS
    <2> HIDE DEF f, R
    <2>3. f \in Surjection(0 .. Len(trades), R)
      BY <2>1, <2>2 DEF Surjection
    <2>4. QED
      BY <1>1, <2>3, FS_Surjection
  <1>4. Max(R) \in R /\ \A y \in R : Max(R) >= y
    <2> HIDE DEF R
    <2> QED BY <1>2, <1>3, MaxFacts
  <1>5. PeakOf(trades) = Max(R)
    BY DEF PeakOf
  <1>6. NetOf(trades) \in Int
    BY <1>1, NetIsSum DEF NetOf
  <1>7. QED
    BY <1>2, <1>4, <1>5, <1>6

\* One more trade: a completed one is added to the result and counted, a vetoed
\* one is not, and the peak follows.
LEMMA TradeAdded ==
  ASSUME NEW trades \in Seq(TradeRecords), NEW t \in TradeRecords
  PROVE  LET longer == Append(trades, t)
             done   == Cardinality(Completed(trades))
         IN  /\ longer \in Seq(TradeRecords)
             /\ NetOf(longer) = NetOf(trades) + (IF t.vetoed THEN 0 ELSE t.net)
             /\ PeakOf(longer) = Larger(PeakOf(trades), NetOf(longer))
             /\ done \in Nat
             /\ Cardinality(Completed(longer)) = done + (IF t.vetoed THEN 0 ELSE 1)
  <1> DEFINE longer == Append(trades, t)
             n == Len(trades)
  <1>1. n \in Nat /\ DOMAIN trades = 1 .. n
    BY LenProperties
  <1>2. /\ longer \in Seq(TradeRecords) /\ Len(longer) = n + 1 /\ DOMAIN longer = 1 .. (n + 1)
        /\ longer[n + 1] = t
        /\ \A i \in 1 .. n : longer[i] = trades[i]
    BY <1>1, AppendProperties, LenProperties
  <1>3. t.vetoed \in BOOLEAN /\ t.net \in Int
    BY DEF TradeRecords
  <1> HIDE DEF longer, n
  <1>4. Completed(longer) = IF t.vetoed THEN Completed(trades) ELSE Completed(trades) \cup {n + 1}
    BY <1>1, <1>2, <1>3 DEF Completed
  <1>5. Completed(trades) \subseteq 1 .. n /\ n + 1 \notin 1 .. n
    BY <1>1 DEF Completed
  <1>6. \A i \in Completed(trades) : Nets(longer)[i] = Nets(trades)[i]
    BY <1>1, <1>2 DEF Nets, Completed
  <1>7. \A m \in 0 .. n : NetUpTo(longer, m) = NetUpTo(trades, m)
    <2> SUFFICES ASSUME NEW m \in 0 .. n PROVE NetUpTo(longer, m) = NetUpTo(trades, m)
      OBVIOUS
    <2>1. m \in Nat /\ n + 1 \notin 1 .. m
      BY <1>1
    <2>2. Completed(longer) \cap 1 .. m = Completed(trades) \cap 1 .. m
      BY <1>4, <2>1
    <2>3. SumOver(Nets(longer), Completed(trades) \cap 1 .. m)
            = SumOver(Nets(trades), Completed(trades) \cap 1 .. m)
      BY <1>6, <2>1, NetIsSum, SumSame
    <2>4. QED
      BY <1>2, <2>1, <2>2, <2>3, NetIsSum
  <1>8. NetOf(longer) = NetOf(trades) + (IF t.vetoed THEN 0 ELSE t.net)
    <2> DEFINE S == Completed(trades) \cap 1 .. n
               T == Completed(longer) \cap 1 .. (n + 1)
    <2>1. /\ NetOf(longer) = SumOver(Nets(longer), T)
          /\ NetOf(trades) = SumOver(Nets(trades), S)
          /\ IsFiniteSet(S) /\ IsFiniteSet(T) /\ NetOf(trades) \in Int
      <3>1. n + 1 \in Nat /\ NetOf(longer) = NetUpTo(longer, n + 1) /\ NetOf(trades) = NetUpTo(trades, n)
        BY <1>1, <1>2 DEF NetOf, n
      <3>2. /\ NetUpTo(longer, n + 1) = SumOver(Nets(longer), T)
            /\ IsFiniteSet(T)
        BY <1>2, <3>1, NetIsSum
      <3>3. /\ NetUpTo(trades, n) = SumOver(Nets(trades), S) /\ NetUpTo(trades, n) \in Int
            /\ IsFiniteSet(S)
        BY <1>1, NetIsSum
      <3>4. QED
        BY <3>1, <3>2, <3>3
    <2>2. SumOver(Nets(longer), S) = SumOver(Nets(trades), S)
      BY <1>6, <2>1, SumSame
    <2>3. CASE t.vetoed
      <3>1. T = S
        BY <1>1, <1>4, <1>5, <2>3
      <3> HIDE DEF S, T
      <3>2. SumOver(Nets(longer), T) = SumOver(Nets(longer), S)
        BY <3>1
      <3>3. QED
        BY <2>1, <2>2, <2>3, <3>2
    <2>4. CASE ~t.vetoed
      <3>1. n + 1 \in T /\ T \ {n + 1} = S
        BY <1>1, <1>4, <1>5, <2>4
      <3>2. Nets(longer)[n + 1] = t.net
        BY <1>1, <1>2 DEF Nets
      <3>3. \A i \in T : Nets(longer)[i] \in Int
        <4>1. \A i \in 1 .. (n + 1) : longer[i] \in TradeRecords
          BY <1>1, <1>2, ElementOfSeq
        <4>2. QED
          BY <1>2, <4>1 DEF Nets, Completed, TradeRecords
      <3> HIDE DEF S, T
      <3>4. SumOver(Nets(longer), T) = t.net + SumOver(Nets(longer), S)
        BY <2>1, <3>1, <3>2, <3>3, SumRemove
      <3>5. QED
        BY <1>3, <2>1, <2>2, <2>4, <3>4
    <2>5. QED
      BY <2>3, <2>4
  <1>9. PeakOf(longer) = Larger(PeakOf(trades), NetOf(longer))
    <2>1. NetUpTo(longer, n + 1) = NetOf(longer)
      BY <1>2 DEF NetOf
    <2>2. /\ PeakOf(longer) \in Int /\ PeakOf(trades) \in Int /\ NetOf(longer) \in Int
          /\ \A m \in 0 .. (n + 1) : PeakOf(longer) >= NetUpTo(longer, m)
          /\ \E m \in 0 .. (n + 1) : PeakOf(longer) = NetUpTo(longer, m)
          /\ \A m \in 0 .. n : PeakOf(trades) >= NetUpTo(trades, m)
          /\ \E m \in 0 .. n : PeakOf(trades) = NetUpTo(trades, m)
      BY <1>2, PeakIsHighest DEF n
    <2>3. PeakOf(longer) >= PeakOf(trades)
      BY <1>1, <1>7, <2>2
    <2>4. PeakOf(longer) >= NetOf(longer)
      BY <1>1, <2>1, <2>2
    <2>5. PeakOf(longer) = NetOf(longer) \/ PeakOf(longer) <= PeakOf(trades)
      <3>1. PICK m \in 0 .. (n + 1) : PeakOf(longer) = NetUpTo(longer, m)
        BY <2>2
      <3>2. m = n + 1 \/ m \in 0 .. n
        BY <1>1
      <3>3. QED
        BY <1>7, <2>1, <2>2, <3>1, <3>2
    <2>6. QED
      BY <2>2, <2>3, <2>4, <2>5 DEF Larger
  <1>10. /\ Cardinality(Completed(trades)) \in Nat
         /\ Cardinality(Completed(longer))
              = Cardinality(Completed(trades)) + (IF t.vetoed THEN 0 ELSE 1)
    <2>1. IsFiniteSet(Completed(trades)) /\ n + 1 \notin Completed(trades)
      BY <1>1, <1>5, FS_Interval, FS_Subset
    <2>2. Cardinality(Completed(trades)) \in Nat
      BY <2>1, FS_CardinalityType
    <2>3. Cardinality(Completed(trades) \cup {n + 1}) = Cardinality(Completed(trades)) + 1
      BY <2>1, FS_AddElement
    <2>4. QED
      BY <1>3, <1>4, <2>2, <2>3
  <1>11. QED
    BY <1>2, <1>8, <1>9, <1>10 DEF longer

(***************************************************************************)
(* The replay's state, and the steps of one event on it.                   *)
(***************************************************************************)

\* The guard's record; the prices are those that were paid.
ReplayRisks ==
  [realized  : Int,
   peak      : Int,
   losses    : Nat,
   trades    : Nat,
   halted    : BOOLEAN,
   reason    : {NoReason, Strikes},
   positions : [Symbols -> Int]]

Positions == [symbol : Symbols, entry : Nat, stop : Int, shares : Int]

ReplayStates ==
  [today  : BOOLEAN,
   trades : Seq(TradeRecords),
   days   : Seq([pnl : Int, peak : Int, trades : 0 .. MaxTradesPerDay, wins : Nat]),
   open   : Positions \cup {NoOpen},
   over   : BOOLEAN,
   risk   : ReplayRisks,
   engine : SUBSET Symbols]

HeldBy(st) == IF HasOpen(st) THEN {st.open.symbol} ELSE {}

LedgersOf(st) == st.engine = HeldBy(st) /\ OpenSet(st.risk) = HeldBy(st)

DayOf(st) ==
  /\ NetOf(st.trades) = st.risk.realized
  /\ PeakOf(st.trades) = st.risk.peak
  /\ Cardinality(Completed(st.trades)) + (IF HasOpen(st) THEN 1 ELSE 0) = st.risk.trades
  /\ st.risk.trades <= MaxTradesPerDay

\* What every step of an event keeps.
Sound(st) ==
  /\ st \in ReplayStates
  /\ ~st.today => ~HasOpen(st)
  /\ LedgersOf(st)
  /\ DayOf(st)

ReplayInv == Sound(rp)

\* A position that is held is a position.
LEMMA Held ==
  ASSUME NEW st, st \in ReplayStates
  PROVE  /\ HasOpen(st) <=> st.open \in Positions
         /\ NoOpen \notin Positions
         /\ HasOpen(st) => HeldBy(st) = {st.open.symbol} /\ st.open.symbol \in Symbols
         /\ ~HasOpen(st) => HeldBy(st) = {} /\ st.open = NoOpen
  <1>1. NoOpen \notin Positions
    <2>1. DOMAIN NoOpen = {"symbol"}
      BY DEF NoOpen
    <2>2. \A pos \in Positions : DOMAIN pos = {"symbol", "entry", "stop", "shares"}
      BY DEF Positions
    <2>3. "entry" \notin {"symbol"}
      OBVIOUS
    <2>4. QED
      BY <2>1, <2>2, <2>3
  <1>2. QED
    BY <1>1 DEF HasOpen, HeldBy, ReplayStates, Positions

\* The prices and fees of the fill model are numbers, and a bought price is no
\* sign of an empty position.
LEMMA FillTypes ==
  ASSUME NEW a \in Nat, NEW b \in Int, NEW shares \in Int
  PROVE  /\ EntryPrice(a) \in Nat
         /\ TargetFill(a) \in Int /\ StopFill(b, a) \in Int
         /\ BuyFees(shares) \in Int /\ SellFees(shares) \in Int
         /\ EntryShares(shares) \subseteq Int
  <1>1. Min({5, (a \div 100) \div 10}) \in Int
    BY MinOfTwo
  <1>2. EntrySlippage(a) \in Int /\ EntrySlippage(a) >= 1
    BY <1>1, MaxOfTwo DEF EntrySlippage
  <1>3. EntryPrice(a) \in Nat
    BY <1>2 DEF EntryPrice, BuyOffset
  <1>4. TargetFill(a) \in Int
    BY MaxOfTwo DEF TargetFill
  <1>5. Min({b - LatencySlip, a - 1}) \in Int
    BY MinOfTwo DEF LatencySlip
  <1>6. StopFill(b, a) \in Int
    BY <1>5, MaxOfTwo DEF StopFill
  <1>7. BuyFees(shares) \in Int /\ SellFees(shares) \in Int
    <2>1. Min({195 * shares, 9790000}) \in Int
      BY MinOfTwo
    <2>2. QED
      BY <2>1 DEF BuyFees, SellFees
  <1>8. EntryShares(shares) \subseteq Int
    <2>1. shares \div 2 \in Int
      OBVIOUS
    <2>2. Max({1, shares \div 2}) \in Int
      BY <2>1, MaxOfTwo
    <2>3. QED
      BY <2>2 DEF EntryShares
  <1>9. QED
    BY <1>3, <1>4, <1>6, <1>7, <1>8

\* A close shuts its symbol and adds its result.
LEMMA RecordedClose ==
  ASSUME NEW r \in ReplayRisks, NEW s \in Symbols, NEW net \in Int
  PROVE  /\ AfterClose(r, s, net) \in ReplayRisks
         /\ OpenSet(AfterClose(r, s, net)) = OpenSet(r) \ {s}
         /\ AfterClose(r, s, net).trades = r.trades
         /\ AfterClose(r, s, net).realized = r.realized + net
         /\ AfterClose(r, s, net).peak = Larger(r.peak, r.realized + net)
  <1> DEFINE c == AfterClose(r, s, net)
  <1>1. /\ c.realized = r.realized + net /\ c.peak = Larger(r.peak, r.realized + net)
        /\ c.trades = r.trades
        /\ c.positions = [r.positions EXCEPT ![s] = NoPosition]
    BY DEF AfterClose
  <1>2. c \in ReplayRisks
    BY DEF AfterClose, ReplayRisks, Larger, NoPosition
  <1>3. \A u \in Symbols : c.positions[u] = IF u = s THEN NoPosition ELSE r.positions[u]
    BY <1>1 DEF ReplayRisks
  <1>4. \A u \in Symbols : IsOpen(c, u) <=> (IsOpen(r, u) /\ u # s)
    BY <1>3 DEF IsOpen
  <1>5. QED
    BY <1>1, <1>2, <1>4 DEF OpenSet

\* A fill opens its symbol and counts one trade.
LEMMA RecordedEntry ==
  ASSUME NEW r \in ReplayRisks, NEW s \in Symbols, NEW p \in Nat
  PROVE  /\ AfterOpen(r, s, p) \in ReplayRisks
         /\ OpenSet(AfterOpen(r, s, p)) = OpenSet(r) \cup {s}
         /\ AfterOpen(r, s, p).trades = r.trades + 1
         /\ AfterOpen(r, s, p).realized = r.realized
         /\ AfterOpen(r, s, p).peak = r.peak
  <1> DEFINE c == AfterOpen(r, s, p)
  <1>1. /\ c.realized = r.realized /\ c.peak = r.peak /\ c.trades = r.trades + 1
        /\ c.positions = [r.positions EXCEPT ![s] = p]
    BY DEF AfterOpen, ReplayRisks
  <1>2. c \in ReplayRisks
    <2>1. [r.positions EXCEPT ![s] = p] \in [Symbols -> Int] /\ r.trades + 1 \in Nat
      BY DEF ReplayRisks
    <2>2. QED
      BY <2>1 DEF AfterOpen, ReplayRisks
  <1>3. \A u \in Symbols : c.positions[u] = IF u = s THEN p ELSE r.positions[u]
    BY <1>1 DEF ReplayRisks
  <1>4. p # NoPosition
    BY DEF NoPosition
  <1>5. \A u \in Symbols : IsOpen(c, u) <=> (IsOpen(r, u) \/ u = s)
    BY <1>3, <1>4 DEF IsOpen
  <1>6. QED
    BY <1>1, <1>2, <1>5 DEF OpenSet

\* What a position needs to be sold: the engine may have dropped it already.
Sellable(st) ==
  /\ st \in ReplayStates
  /\ HasOpen(st)
  /\ st.engine \subseteq HeldBy(st) /\ OpenSet(st.risk) = HeldBy(st)
  /\ DayOf(st)

\* The fields that a trade changes, changed within their types.
LEMMA StateOf ==
  ASSUME NEW st \in ReplayStates, NEW T \in Seq(TradeRecords), NEW r \in ReplayRisks,
         NEW E \in SUBSET Symbols
  PROVE  /\ [st EXCEPT !.trades = T, !.risk = r, !.engine = E, !.open = NoOpen] \in ReplayStates
         /\ [st EXCEPT !.trades = T] \in ReplayStates
         /\ \A o \in Positions : [st EXCEPT !.risk = r, !.engine = E, !.open = o] \in ReplayStates
         /\ \A o \in Positions : [st EXCEPT !.open = o] \in ReplayStates
  BY DEF ReplayStates

\* A sale leaves nothing held, in any of the three ledgers, and the guard and
\* the report count the same result.
LEMMA TradeCompleted ==
  ASSUME NEW st, Sellable(st), NEW price \in Int
  PROVE  LET c == CompleteTrade(st, price)
         IN  /\ Sound(c) /\ ~HasOpen(c)
             /\ c.today = st.today /\ c.over = st.over /\ c.days = st.days
  <1> DEFINE pos == st.open
             fees == BuyFees(pos.shares) + SellFees(pos.shares)
             net == (price - pos.entry) * pos.shares * 10000 - fees
             trade == [net |-> net, vetoed |-> FALSE]
             c == CompleteTrade(st, price)
  <1>1. pos \in Positions /\ pos.symbol \in Symbols /\ HeldBy(st) = {pos.symbol}
        /\ pos.entry \in Nat /\ pos.shares \in Int
    BY Held DEF Sellable, Positions
  <1>2. /\ st.trades \in Seq(TradeRecords) /\ st.risk \in ReplayRisks /\ st.engine \subseteq Symbols
        /\ DOMAIN st = {"today", "trades", "days", "open", "over", "risk", "engine"}
    BY DEF Sellable, ReplayStates
  <1>3. fees \in Int
    BY <1>1, FillTypes
  <1>4. net \in Int
    <2>1. \A a, b, e, f \in Int : (a - b) * e * 10000 - f \in Int
      OBVIOUS
    <2>2. QED
      BY <1>1, <1>3, <2>1
  <1>5. /\ c.trades = Append(st.trades, trade)
        /\ c.risk = AfterClose(st.risk, pos.symbol, net)
        /\ c.engine = st.engine \ {pos.symbol}
        /\ c.open = NoOpen
        /\ c.today = st.today /\ c.over = st.over /\ c.days = st.days
    BY <1>2 DEF CompleteTrade
  <1> HIDE DEF pos, fees, net
  <1>6. trade \in TradeRecords /\ trade.net = net /\ ~trade.vetoed
    BY <1>4 DEF TradeRecords
  <1>7. c \in ReplayStates
    <2>1. c.trades \in Seq(TradeRecords)
      BY <1>2, <1>5, <1>6, TradeAdded
    <2>2. c.risk \in ReplayRisks
      BY <1>1, <1>2, <1>4, <1>5, RecordedClose
    <2>3. c.engine \in SUBSET Symbols
      BY <1>2, <1>5
    <2> DEFINE d == [st EXCEPT !.trades = c.trades, !.risk = c.risk, !.engine = c.engine,
                               !.open = NoOpen]
    <2>4. c = d
      BY <1>5 DEF CompleteTrade, pos, fees, net
    <2>5. st \in ReplayStates
      BY DEF Sellable
    <2>6. d \in ReplayStates
      <3> HIDE DEF c
      <3> QED BY <2>1, <2>2, <2>3, <2>5, StateOf
    <2> HIDE DEF c, d
    <2>7. QED
      BY <2>4, <2>6
  <1>8. ~HasOpen(c) /\ HeldBy(c) = {}
    BY <1>5 DEF HasOpen, HeldBy
  <1>9. LedgersOf(c)
    <2>1. c.engine = {}
      BY <1>1, <1>5 DEF Sellable
    <2>2. OpenSet(c.risk) = {}
      BY <1>1, <1>2, <1>4, <1>5, RecordedClose DEF Sellable
    <2>3. QED
      BY <1>8, <2>1, <2>2 DEF LedgersOf
  <1>10. DayOf(c)
    <2>1. /\ NetOf(c.trades) = NetOf(st.trades) + net
          /\ PeakOf(c.trades) = Larger(PeakOf(st.trades), NetOf(c.trades))
          /\ Cardinality(Completed(st.trades)) \in Nat
          /\ Cardinality(Completed(c.trades)) = Cardinality(Completed(st.trades)) + 1
      <3> HIDE DEF trade, c
      <3>1. QED
        BY <1>2, <1>5, <1>6, TradeAdded
    <2>2. /\ c.risk.realized = st.risk.realized + net
          /\ c.risk.peak = Larger(st.risk.peak, st.risk.realized + net)
          /\ c.risk.trades = st.risk.trades
      BY <1>1, <1>2, <1>4, <1>5, RecordedClose
    <2> HIDE DEF trade, c
    <2>3. QED
      BY <1>8, <2>1, <2>2 DEF Sellable, DayOf
  <1>11. QED
    BY <1>5, <1>7, <1>8, <1>9, <1>10 DEF Sound

\* What is held can be sold, also after the engine has dropped a symbol.
LEMMA HeldIsSellable ==
  ASSUME NEW st, Sound(st), HasOpen(st), NEW T
  PROVE  /\ Sellable(st)
         /\ Sellable([st EXCEPT !.engine = @ \ T])
  <1> DEFINE d == [st EXCEPT !.engine = @ \ T]
  <1>1. Sellable(st)
    BY DEF Sound, LedgersOf, Sellable
  <1>2. /\ d.today = st.today /\ d.trades = st.trades /\ d.days = st.days /\ d.open = st.open
        /\ d.over = st.over /\ d.risk = st.risk /\ d.engine = st.engine \ T
        /\ d \in ReplayStates
    BY DEF Sound, ReplayStates
  <1> HIDE DEF d
  <1>3. Sellable(d)
    BY <1>1, <1>2 DEF Sellable, HasOpen, HeldBy, DayOf
  <1>4. QED
    BY <1>1, <1>3 DEF d

\* The report of a sound day is a report, and counts no more than the guard allows.
LEMMA DayReport ==
  ASSUME NEW st, Sound(st), ~HasOpen(st)
  PROVE  Append(st.days, Day(st.trades))
           \in Seq([pnl : Int, peak : Int, trades : 0 .. MaxTradesPerDay, wins : Nat])
  <1> DEFINE done == Completed(st.trades)
             won == {i \in done : st.trades[i].net > 0}
  <1>1. st.trades \in Seq(TradeRecords) /\ st.risk \in ReplayRisks
    BY DEF Sound, ReplayStates
  <1>2. NetOf(st.trades) \in Int /\ PeakOf(st.trades) \in Int
    BY <1>1, PeakIsHighest
  <1>3. IsFiniteSet(done)
    <2>1. Len(st.trades) \in Nat /\ DOMAIN st.trades = 1 .. Len(st.trades)
      BY <1>1, LenProperties
    <2>2. IsFiniteSet(1 .. Len(st.trades)) /\ done \subseteq 1 .. Len(st.trades)
      BY <2>1, FS_Interval DEF Completed
    <2>3. QED
      BY <2>2, FS_Subset
  <1>4. Cardinality(done) \in Nat /\ Cardinality(won) \in Nat
    <2>1. IsFiniteSet(won)
      BY <1>3, FS_Subset
    <2>2. QED
      BY <1>3, <2>1, FS_CardinalityType
  <1>5. Cardinality(done) \in 0 .. MaxTradesPerDay
    <2>1. Cardinality(done) = st.risk.trades /\ st.risk.trades <= MaxTradesPerDay
      <3>1. Cardinality(done) + 0 = st.risk.trades /\ st.risk.trades <= MaxTradesPerDay
        BY DEF Sound, DayOf
      <3>2. QED
        BY <1>4, <3>1
    <2>2. QED
      BY <1>4, <2>1, RiskConfig DEF RiskConfig
  <1>6. Day(st.trades) \in [pnl : Int, peak : Int, trades : 0 .. MaxTradesPerDay, wins : Nat]
    BY <1>2, <1>4, <1>5 DEF Day
  <1>7. QED
    BY <1>6, AppendProperties DEF Sound, ReplayStates

\* A new day sells what is left of the old one and starts the guard afresh.
LEMMA NewDayIsSound ==
  ASSUME NEW st, Sound(st), NEW bar \in ReplayBars
  PROVE  Sound(NewDay(st, bar)) /\ ~HasOpen(NewDay(st, bar)) /\ NewDay(st, bar).today
  <1> DEFINE flat == IF HasOpen(st) /\ st.today THEN CompleteTrade(st, TargetFill(bar.close)) ELSE st
             d == NewDay(st, bar)
  <1>1. TargetFill(bar.close) \in Int
    BY FillTypes, ReplayAssumption DEF ReplayAssumption
  <1>2. Sound(flat) /\ ~HasOpen(flat) /\ flat.today = st.today
    <2>1. CASE HasOpen(st) /\ st.today
      BY <1>1, <2>1, HeldIsSellable, TradeCompleted
    <2>2. CASE ~(HasOpen(st) /\ st.today)
      BY <2>2 DEF Sound
    <2>3. QED
      BY <2>1, <2>2
  <1>3. /\ d = [flat EXCEPT !.days = IF st.today THEN Append(@, Day(flat.trades)) ELSE @,
                            !.today = TRUE, !.trades = <<>>, !.risk = FreshState]
    BY DEF NewDay
  <1> HIDE DEF flat, d
  <1>4. Append(flat.days, Day(flat.trades))
          \in Seq([pnl : Int, peak : Int, trades : 0 .. MaxTradesPerDay, wins : Nat])
    BY <1>2, DayReport
  <1>5. FreshState \in ReplayRisks /\ OpenSet(FreshState) = {}
        /\ FreshState.realized = 0 /\ FreshState.peak = 0 /\ FreshState.trades = 0
    BY DEF FreshState, ReplayRisks, NoReason, NoPosition, OpenSet, IsOpen
  <1>6. <<>> \in Seq(TradeRecords)
    BY NoTrades
  <1>7. /\ d.today = TRUE /\ d.trades = <<>> /\ d.risk = FreshState /\ d.open = flat.open
        /\ d.engine = flat.engine /\ d.over = flat.over
        /\ d.days = flat.days \/ d.days = Append(flat.days, Day(flat.trades))
        /\ d \in ReplayStates
    BY <1>2, <1>3, <1>4, <1>5, <1>6 DEF Sound, ReplayStates
  <1>8. ~HasOpen(d) /\ HeldBy(d) = {} /\ HeldBy(flat) = {}
    BY <1>2, <1>7 DEF HasOpen, HeldBy
  <1>9. LedgersOf(d)
    BY <1>2, <1>5, <1>7, <1>8 DEF Sound, LedgersOf
  <1>10. DayOf(d)
    <2>1. NetOf(d.trades) = 0 /\ PeakOf(d.trades) = 0 /\ Cardinality(Completed(d.trades)) = 0
      BY <1>7, NoTrades
    <2>2. 0 <= MaxTradesPerDay
      BY RiskConfig DEF RiskConfig
    <2>3. QED
      BY <1>5, <1>7, <1>8, <2>1, <2>2 DEF DayOf
  <1>11. QED
    BY <1>7, <1>8, <1>9, <1>10 DEF Sound, d

\* The signals of a bar: a veto is written down, an entry opens the three ledgers,
\* an exit shuts them, a scale-out raises the stop.
LEMMA HandledIsSound ==
  ASSUME NEW st, Sound(st), st.today, NEW symbol \in Symbols, NEW bar \in ReplayBars,
         NEW sig \in Signals(st, symbol), NEW stop \in Int, NEW shares \in Int
  PROVE  Sound(Handled(st, symbol, bar, sig, stop, shares))
  <1> DEFINE h == Handled(st, symbol, bar, sig, stop, shares)
  <1>0. /\ st \in ReplayStates /\ st.trades \in Seq(TradeRecords) /\ st.risk \in ReplayRisks
        /\ st.engine \in SUBSET Symbols
        /\ bar.close \in Nat
    BY ReplayAssumption DEF Sound, ReplayStates, ReplayAssumption
  <1>1. CASE sig.kind = "entry" /\ ~HasOpen(st)
    <2>1. CASE sig.approved /\ ~GuardRefuses(st, symbol, bar.close)
      <3> DEFINE p == EntryPrice(bar.close)
                 r == AfterOpen(st.risk, symbol, p)
                 o == [symbol |-> symbol, entry |-> p, stop |-> stop, shares |-> shares]
                 E == st.engine \cup {symbol}
                 e == [st EXCEPT !.risk = r, !.engine = E, !.open = o]
      <3>1. h = e
        BY <1>1, <2>1 DEF Handled, Entered
      <3>2. p \in Nat
        BY <1>0, FillTypes
      <3> HIDE DEF p
      <3>3. o \in Positions
        BY <3>2 DEF Positions
      <3>4. /\ r \in ReplayRisks /\ OpenSet(r) = OpenSet(st.risk) \cup {symbol}
            /\ r.trades = st.risk.trades + 1 /\ r.realized = st.risk.realized
            /\ r.peak = st.risk.peak
        BY <1>0, <3>2, RecordedEntry
      <3>5. E \in SUBSET Symbols
        BY <1>0
      <3> DEFINE s == o.symbol
      <3>6. s = symbol
        OBVIOUS
      <3> HIDE DEF r, o, E, s
      <3>7. e \in ReplayStates
        BY <1>0, <3>3, <3>4, <3>5, StateOf
      <3>8. /\ e.risk = r /\ e.engine = E /\ e.open = o
            /\ e.today = st.today /\ e.trades = st.trades
        BY <1>0 DEF ReplayStates
      <3> HIDE DEF e
      <3>9. HasOpen(e) /\ HeldBy(e) = {symbol} /\ HeldBy(st) = {}
        BY <1>0, <1>1, <3>3, <3>6, <3>7, <3>8, Held DEF s
      <3>10. LedgersOf(e)
        BY <3>4, <3>8, <3>9 DEF Sound, LedgersOf, E
      <3>11. DayOf(e)
        <4>1. st.risk.trades < MaxTradesPerDay /\ st.risk.trades \in Nat
          <5>1. ~(st.risk.trades >= MaxTradesPerDay) /\ st.risk.trades \in Nat
            BY <1>0, <2>1 DEF GuardRefuses, ReplayRisks
          <5>2. QED
            BY <5>1, RiskConfig DEF RiskConfig
        <4>2. Cardinality(Completed(st.trades)) = st.risk.trades
          <5>1. Cardinality(Completed(st.trades)) + 0 = st.risk.trades
            BY <1>1 DEF Sound, DayOf
          <5>2. Cardinality(Completed(st.trades)) \in Nat
            <6>1. [net |-> 0, vetoed |-> TRUE] \in TradeRecords
              BY DEF TradeRecords
            <6>2. QED
              BY <1>0, <6>1, TradeAdded
          <5>3. QED
            BY <5>1, <5>2
        <4>3. QED
          BY <3>4, <3>8, <3>9, <4>1, <4>2, RiskConfig DEF Sound, DayOf, RiskConfig
      <3>12. QED
        BY <3>1, <3>7, <3>8, <3>10, <3>11 DEF Sound
    <2>2. CASE ~(sig.approved /\ ~GuardRefuses(st, symbol, bar.close))
      <3> DEFINE veto == [net |-> 0, vetoed |-> TRUE]
                 T == Append(st.trades, veto)
                 v == [st EXCEPT !.trades = T]
      <3>1. h = v
        BY <1>1, <2>2 DEF Handled
      <3>2. veto \in TradeRecords /\ veto.vetoed
        BY DEF TradeRecords
      <3> HIDE DEF veto
      <3>3. /\ T \in Seq(TradeRecords)
            /\ NetOf(T) = NetOf(st.trades) + 0
            /\ PeakOf(T) = Larger(PeakOf(st.trades), NetOf(T))
            /\ Cardinality(Completed(st.trades)) \in Nat
            /\ Cardinality(Completed(T)) = Cardinality(Completed(st.trades)) + 0
        BY <1>0, <3>2, TradeAdded
      <3>4. /\ NetOf(st.trades) \in Int /\ PeakOf(st.trades) \in Int
            /\ PeakOf(st.trades) >= NetOf(st.trades)
        <4>1. Len(st.trades) \in 0 .. Len(st.trades)
          BY <1>0, LenProperties
        <4>2. QED
          BY <1>0, <4>1, PeakIsHighest DEF NetOf
      <3> HIDE DEF T
      <3>5. v \in ReplayStates
        BY <1>0, <3>3, StateOf
      <3>6. /\ v.trades = T /\ v.risk = st.risk /\ v.engine = st.engine /\ v.open = st.open
            /\ v.today = st.today
        BY <1>0 DEF ReplayStates
      <3> HIDE DEF v
      <3>7. LedgersOf(v) /\ ~HasOpen(v)
        BY <1>1, <3>6 DEF Sound, LedgersOf, HeldBy, HasOpen
      <3>8. DayOf(v)
        BY <1>1, <3>3, <3>4, <3>6, <3>7 DEF Sound, DayOf, Larger
      <3>9. QED
        BY <3>1, <3>5, <3>6, <3>7, <3>8 DEF Sound
    <2>3. QED
      BY <2>1, <2>2
  <1>2. CASE sig.kind = "exit" /\ HasOpen(st)
    <2> DEFINE d == [st EXCEPT !.engine = @ \ {symbol}]
    <2>1. h = CompleteTrade(d, TargetFill(bar.close))
      BY <1>2 DEF Handled
    <2>2. Sellable(d) /\ TargetFill(bar.close) \in Int
      BY <1>0, <1>2, HeldIsSellable, FillTypes
    <2> HIDE DEF d
    <2>3. QED
      BY <2>1, <2>2, TradeCompleted
  <1>3. CASE sig.kind = "scale" /\ HasOpen(st)
    <2> DEFINE o == [st.open EXCEPT !.stop = @ + 10]
               d == [st EXCEPT !.open = o]
    <2>1. h = d
      BY <1>3 DEF Handled
    <2>2. st.open \in Positions
      BY <1>0, <1>3, Held
    <2>3. o \in Positions /\ o.symbol = st.open.symbol
      BY <2>2 DEF Positions
    <2> HIDE DEF o
    <2>4. d \in ReplayStates
      BY <1>0, <2>3, StateOf
    <2>5. /\ d.trades = st.trades /\ d.risk = st.risk /\ d.engine = st.engine /\ d.open = o
          /\ d.today = st.today
      BY <1>0 DEF ReplayStates
    <2> HIDE DEF d
    <2>6. HasOpen(d) /\ HeldBy(d) = HeldBy(st)
      BY <1>0, <1>3, <2>3, <2>4, <2>5, Held
    <2>7. LedgersOf(d) /\ DayOf(d)
      BY <1>3, <2>5, <2>6 DEF Sound, LedgersOf, DayOf
    <2>8. QED
      BY <2>1, <2>4, <2>5, <2>7 DEF Sound
  <1>4. CASE ~(sig.kind = "entry" /\ ~HasOpen(st)) /\ ~(sig.kind = "exit" /\ HasOpen(st))
             /\ ~(sig.kind = "scale" /\ HasOpen(st))
    BY <1>4 DEF Handled
  <1>5. QED
    BY <1>1, <1>2, <1>3, <1>4

\* The replay starts with nothing.
LEMMA ReplayInvInit == ReplayInit => ReplayInv
  <1> SUFFICES ASSUME ReplayInit PROVE Sound(rp)
    BY DEF ReplayInv
  <1>1. FreshState \in ReplayRisks /\ OpenSet(FreshState) = {}
        /\ FreshState.realized = 0 /\ FreshState.peak = 0 /\ FreshState.trades = 0
    BY DEF FreshState, ReplayRisks, NoReason, NoPosition, OpenSet, IsOpen
  <1>2. /\ rp.today = FALSE /\ rp.trades = <<>> /\ rp.open = NoOpen /\ rp.risk = FreshState
        /\ rp.engine = {}
    BY DEF ReplayInit
  <1>3. rp \in ReplayStates
    BY <1>1, NoTrades DEF ReplayInit, ReplayStates
  <1>4. ~HasOpen(rp) /\ HeldBy(rp) = {}
    BY <1>2 DEF HasOpen, HeldBy
  <1>5. LedgersOf(rp)
    BY <1>1, <1>2, <1>4 DEF LedgersOf
  <1>6. DayOf(rp)
    <2>1. NetOf(rp.trades) = 0 /\ PeakOf(rp.trades) = 0 /\ Cardinality(Completed(rp.trades)) = 0
      BY <1>2, NoTrades
    <2>2. QED
      BY <1>1, <1>2, <1>4, <2>1, RiskConfig DEF DayOf, RiskConfig
  <1>7. QED
    BY <1>3, <1>4, <1>5, <1>6 DEF Sound

\* A bar of whatever symbol, early or late, on a new day or not.
LEMMA ReplayEventKeeps ==
  ASSUME ReplayInv, ReplayEvent
  PROVE  ReplayInv'
  <1>1. PICK symbol \in Symbols, bar \in ReplayBars, newDay \in BOOLEAN, late \in BOOLEAN :
          /\ ~rp.today => newDay
          /\ LET st == IF newDay THEN NewDay(rp, bar) ELSE rp
             IN  IF HasOpen(st) /\ late THEN rp' = Flattened(st, bar)
                 ELSE IF HasOpen(st) /\ StopHit(st, bar) THEN rp' = Stopped(st, bar)
                 ELSE \E sig \in Signals(st, symbol), requested \in ReplayShares :
                         \E shares \in EntryShares(requested) :
                             rp' = Handled(st, symbol, bar, sig, bar.low - 10, shares)
    BY DEF ReplayEvent
  <1> DEFINE st == IF newDay THEN NewDay(rp, bar) ELSE rp
  <1>2. bar.low \in Nat /\ bar.close \in Nat
    BY ReplayAssumption DEF ReplayAssumption
  <1>3. Sound(st) /\ st.today
    <2>1. rp.today \in BOOLEAN
      BY DEF ReplayInv, Sound, ReplayStates
    <2>2. QED
      BY <1>1, <2>1, NewDayIsSound DEF ReplayInv
  <1>4. \/ HasOpen(st) /\ rp' = Flattened(st, bar)
        \/ HasOpen(st) /\ rp' = Stopped(st, bar)
        \/ \E sig \in Signals(st, symbol), requested \in ReplayShares :
              \E shares \in EntryShares(requested) :
                rp' = Handled(st, symbol, bar, sig, bar.low - 10, shares)
    BY <1>1
  <1> HIDE DEF st
  <1>5. CASE HasOpen(st) /\ rp' = Flattened(st, bar)
    <2>1. TargetFill(bar.close) \in Int
      BY <1>2, FillTypes
    <2>2. QED
      BY <1>3, <1>5, <2>1, HeldIsSellable, TradeCompleted DEF Flattened, ReplayInv
  <1>6. CASE HasOpen(st) /\ rp' = Stopped(st, bar)
    <2>1. st.open.stop \in Int
      BY <1>3, <1>6, Held DEF Sound, Positions
    <2>2. StopFill(st.open.stop, bar.low) \in Int
      BY <1>2, <2>1, FillTypes
    <2>3. QED
      BY <1>3, <1>6, <2>2, HeldIsSellable, TradeCompleted DEF Stopped, ReplayInv
  <1>7. ASSUME NEW sig \in Signals(st, symbol), NEW requested \in ReplayShares,
               NEW shares \in EntryShares(requested),
               rp' = Handled(st, symbol, bar, sig, bar.low - 10, shares)
        PROVE  ReplayInv'
    <2>1. requested \in Int
      BY ReplayAssumption DEF ReplayAssumption
    <2>2. shares \in Int
      BY <1>2, <2>1, FillTypes
    <2>3. bar.low - 10 \in Int
      BY <1>2
    <2>4. QED
      BY <1>3, <1>7, <2>2, <2>3, HandledIsSound DEF ReplayInv
  <1>8. QED
    BY <1>4, <1>5, <1>6, <1>7

\* The last bar closes what is left.
LEMMA ReplayFlushKeeps ==
  ASSUME ReplayInv, ReplayFlush
  PROVE  ReplayInv'
  <1>1. PICK bar \in ReplayBars :
          LET flat == IF HasOpen(rp) THEN Flattened(rp, bar) ELSE rp
          IN  rp' = [flat EXCEPT !.days = Append(@, Day(flat.trades)), !.over = TRUE]
    BY DEF ReplayFlush
  <1> DEFINE flat == IF HasOpen(rp) THEN Flattened(rp, bar) ELSE rp
  <1>2. TargetFill(bar.close) \in Int
    BY FillTypes, ReplayAssumption DEF ReplayAssumption
  <1>3. Sound(flat) /\ ~HasOpen(flat)
    BY <1>2, HeldIsSellable, TradeCompleted DEF Flattened, ReplayInv
  <1>4. rp' = [flat EXCEPT !.days = Append(@, Day(flat.trades)), !.over = TRUE]
    BY <1>1
  <1> HIDE DEF flat
  <1>5. /\ rp'.today = flat.today /\ rp'.trades = flat.trades /\ rp'.open = flat.open
        /\ rp'.risk = flat.risk /\ rp'.engine = flat.engine
        /\ rp' \in ReplayStates
    BY <1>3, <1>4, DayReport DEF Sound, ReplayStates
  <1>6. Sound(rp')
    BY <1>3, <1>5 DEF Sound, LedgersOf, DayOf, HeldBy, HasOpen
  <1>7. QED
    BY <1>6 DEF ReplayInv

\* The replay keeps its inductive invariant after every bar.
LEMMA ReplayInvariant == ReplaySpec => []ReplayInv
  <1>1. ReplayInv /\ [ReplayNext]_rp => ReplayInv'
    BY ReplayEventKeeps, ReplayFlushKeeps DEF ReplayNext, ReplayInv
  <1>2. QED
    BY <1>1, ReplayInvInit, PTL DEF ReplaySpec

\* After every bar of a replay (core/backtest/replay.py) its position, the guard's
\* and the engine's are the same one: for any prices, and although one position
\* is stopped, flattened and carried over days by the bars of other symbols.
THEOREM ReplayLedgersStayAgreed == ReplaySpec => []ReplayLedgersAgree
  <1>1. ReplayInv => ReplayLedgersAgree
    BY DEF ReplayInv, Sound, LedgersOf, HeldBy, OpenSet, ReplayLedgersAgree
  <1>2. QED
    BY <1>1, ReplayInvariant, PTL

\* The result and the peak that _finalise_day adds up from a day's trades are those
\* the guard counted while it judged them, however many trades and vetoes there
\* were; the completed trades are the guard's, and never more than it allows.
THEOREM ReplayDayStaysGuardDay == ReplaySpec => []ReplayDayIsGuardDay
  <1>1. ReplayInv => ReplayDayIsGuardDay
    <2> SUFFICES ASSUME ReplayInv PROVE ReplayDayIsGuardDay
      OBVIOUS
    <2>1. \A i \in DOMAIN rp.days : rp.days[i].trades <= MaxTradesPerDay
      <3> DEFINE Reports == [pnl : Int, peak : Int, trades : 0 .. MaxTradesPerDay, wins : Nat]
      <3>0. rp.days \in Seq(Reports)
        BY DEF ReplayInv, Sound, ReplayStates
      <3>1. \A i \in DOMAIN rp.days : rp.days[i].trades \in 0 .. MaxTradesPerDay
        <4>1. \A i \in DOMAIN rp.days : rp.days[i] \in Reports
          <5> HIDE DEF Reports
          <5> QED BY <3>0, LenProperties, ElementOfSeq
        <4>2. QED
          BY <4>1
      <3>2. QED
        BY <3>1, RiskConfig DEF RiskConfig
    <2>2. QED
      BY <2>1 DEF ReplayInv, Sound, DayOf, ReplayDayIsGuardDay
  <1>2. QED
    BY <1>1, ReplayInvariant, PTL
=============================================================================
