-------------------------- MODULE DemoEngineProofs --------------------------
(***************************************************************************)
(* Theorems of DemoEngine: its safety properties hold for any symbols,     *)
(* quotes, bars, sizes and limits, for any number of requests, and for any *)
(* interleaving of the main loop with them and of them with each other.    *)
(*                                                                         *)
(* The invariant has parts that are proved one after the other: the types  *)
(* of the books and of the local variables of the coroutines, the orders   *)
(* that are past their gate, the day's numbers against the journal, and    *)
(* the halves and closes that are still to come.  The drawdown needs no    *)
(* invariant but the types: it is about every journal.                     *)
(***************************************************************************)
EXTENDS DemoEngine, FiniteFacts

(***************************************************************************)
(* Facts about the pure rules.                                             *)
(***************************************************************************)

\* Products of numbers that are not negative keep an order.
LEMMA TimesMonotone ==
  ASSUME NEW a \in Int, NEW b \in Int, NEW c \in Nat, a <= b
  PROVE  a * c <= b * c
  <1>1. b - a \in Nat
    OBVIOUS
  <1>2. (b - a) * c >= 0
    BY <1>1
  <1>3. (b - a) * c = b * c - a * c
    OBVIOUS
  <1>4. a * c \in Int /\ b * c \in Int
    OBVIOUS
  <1>5. QED
    BY <1>2, <1>3, <1>4

\* Half of a position is at least one share, and less than all of two or more.
LEMMA HalfFacts ==
  ASSUME NEW n \in Int
  PROVE  /\ Half(n) \in Nat \ {0} /\ Half(n) \in Int
         /\ n <= 1 => Half(n) = 1
         /\ n >= 2 => n - Half(n) >= 1
         /\ Half(n) = Max({1, n \div 2})
  <1>1. Half(n) = IF 1 >= n \div 2 THEN 1 ELSE n \div 2
    BY MaxOfTwo DEF Half
  <1>2. QED
    BY <1>1 DEF Half

\* A size that is not a veto is within the cap.
LEMMA SizedFacts ==
  ASSUME NEW pnl \in Int, NEW entry \in Int, NEW stop \in Int
  PROVE  Sized(pnl, entry, stop) \in Int /\ Sized(pnl, entry, stop) <= MaxPositionSize
  <1> DEFINE full == PerTradeRisk \div (entry - stop)
             n == IF pnl <= 0 THEN full \div 4 ELSE full
  <1>1. CASE entry <= stop
    BY <1>1, DemoRulesAssumption DEF Sized, DemoRulesAssumption
  <1>2. CASE ~(entry <= stop)
    <2>1. full \in Int
      BY <1>2, DemoRulesAssumption DEF DemoRulesAssumption
    <2> HIDE DEF full
    <2>2. n \in Int
      BY <2>1
    <2> HIDE DEF n
    <2>3. Min({MaxPositionSize, n}) \in Int /\ Min({MaxPositionSize, n}) <= MaxPositionSize
      BY <2>2, MinOfTwo, DemoRulesAssumption DEF DemoRulesAssumption
    <2>4. Sized(pnl, entry, stop) = Min({MaxPositionSize, n})
      BY <1>2 DEF Sized, n, full
    <2>5. QED
      BY <2>3, <2>4
  <1>3. QED
    BY <1>1, <1>2

\* The prices that the gate gives are prices of bars.
LEMMA GateFacts ==
  ASSUME NEW bars \in BarHistories, NEW up, NEW spread, NEW gate \in EvaluateEntryGate(bars, up, spread)
  PROVE  gate.entry \in Int /\ gate.stop \in Int
  <1> DEFINE Bars == [o : Nat, h : Nat, l : Nat, c : Nat]
             n == Len(bars)
             pullback == {bars[i] : i \in (n - 2) .. (n - 1)}
             low == Min({bar.l : bar \in pullback})
  <1>1. bars \in Seq(Bars) /\ n \in Nat
    BY DemoAssumption, LenProperties DEF DemoAssumption
  <1>2. n >= 6 /\ gate = [entry |-> bars[n].c, stop |-> low]
    BY DEF EvaluateEntryGate
  <1>3. \A i \in 1 .. n : bars[i] \in Bars
    <2> HIDE DEF Bars
    <2> QED BY <1>1, ElementOfSeq
  <1>4. bars[n].c \in Int /\ bars[n - 1].l \in Int /\ bars[n - 2].l \in Int
    <2>1. n \in 1 .. n /\ n - 1 \in 1 .. n /\ n - 2 \in 1 .. n
      BY <1>1, <1>2
    <2> HIDE DEF n
    <2>2. bars[n] \in Bars /\ bars[n - 1] \in Bars /\ bars[n - 2] \in Bars
      BY <1>3, <2>1
    <2>3. QED
      BY <2>2
  <1>5. {bar.l : bar \in pullback} = {bars[n - 2].l, bars[n - 1].l}
    <2>1. (n - 2) .. (n - 1) = {n - 2, n - 1}
      <3>1. \A k \in Int : (k - 2) .. (k - 1) = {k - 2, k - 1}
        OBVIOUS
      <3> HIDE DEF n
      <3>2. QED
        BY <1>1, <3>1
    <2> HIDE DEF n
    <2>2. pullback = {bars[n - 2], bars[n - 1]}
      BY <2>1
    <2>3. QED
      BY <2>2
  <1>6. low \in Int
    <2>1. low = Min({bars[n - 2].l, bars[n - 1].l})
      BY <1>5
    <2> HIDE DEF n, low
    <2>2. QED
      BY <1>4, <2>1, MinOfTwo
  <1>7. QED
    BY <1>2, <1>4, <1>6

(***************************************************************************)
(* The types: the books, and what each coroutine knows where it awaits.    *)
(***************************************************************************)

RiskRecords == [pnl : Int, peak : Nat, streak : Nat, trades : Nat, wins : Nat, losses : Nat,
                halted : BOOLEAN]

LotRecords == [sym : Symbols, bought : 1 .. MaxPositionSize, shares : Int, entry : Int,
               stop : Int, scaled : BOOLEAN, scalers : Nat, closers : Nat]

Closes == [lot : Nat, shares : Int, pnl : Int, ts : Nat, reason : {"scale", "close"}]

OrderRecords == [at : {"signalled", "buying"}, sym : Symbols, todo : SUBSET Symbols, now : Nat,
                 shares : 1 .. MaxPositionSize, entry : Int, stop : Int]

BooksTyped ==
  /\ risk \in RiskRecords
  /\ lots \in Seq(LotRecords)
  /\ book \in [Symbols -> 0 .. Len(lots)]
  /\ \A s \in Symbols : book[s] # 0 => lots[book[s]].sym = s
  /\ journal \in Seq(Closes)
  /\ tierB \subseteq Symbols
  /\ acct \in [Symbols -> Nat]

LoopTyped ==
  /\ loop.at \in {"idle", "scanned", "strategy", "data", "signalled", "buying", "exits",
                   "selling", "reporting"}
  /\ loop.at # "idle" => loop.now \in Nat
  /\ loop.at \in {"strategy", "data"} => loop.todo \subseteq Symbols
  /\ loop.at = "data" => loop.sym \in Symbols
  /\ loop.at \in {"signalled", "buying"} => loop \in OrderRecords
  /\ loop.at \in {"exits", "selling", "reporting"} => loop.todo \subseteq Symbols \X (1 .. Len(lots))
  /\ loop.at = "selling" =>
        /\ loop.kind \in {"exit", "scale"} /\ loop.sym \in Symbols /\ loop.lot \in 1 .. Len(lots)
        /\ loop.half \in Nat \ {0} /\ loop.price \in Int

\* What a request knows, while n positions have been bought.
RequestTyped(t, n) ==
  /\ t.at \in {"idle", "close_quote", "closing", "scale_quote", "scaling", "buying",
               "stopping", "selling", "flattening"}
  /\ t.at \in {"close_quote", "closing"} => t.sym \in Symbols /\ t.lot \in 0 .. n
  /\ t.at \in {"scale_quote", "scaling"} => t.sym \in Symbols /\ t.lot \in 1 .. n
  /\ t.at \in Exiting => t.now \in Nat
  /\ t.at \in {"closing", "scaling"} => t.price \in Int
  /\ t.at = "scaling" => t.half \in Nat \ {0}
  /\ t.at = "buying" =>
        /\ t.sym \in Symbols /\ t.shares \in 1 .. MaxPositionSize
        /\ t.entry \in Int /\ t.stop \in Int /\ t.suggested \in Int
  /\ t.at = "stopping" => t.sym \in Symbols /\ t.stop \in Int
  /\ t.at = "selling" => t.sym \in Symbols /\ t.qty \in Nat

\* Every request that has not been asked yet is idle.
OpTyped ==
  /\ requests \in Nat
  /\ op = [r \in Slots |-> op[r]]
  /\ \A r \in Slots : RequestTyped(op[r], Len(lots))
  /\ \A r \in Slots : r > requests => op[r] = Idle

Typed == BooksTyped /\ LoopTyped /\ OpTyped

\* The orders of the operator that are on their way are finitely many.
LEMMA OrderingFinite ==
  /\ IsFiniteSet(Ordering) /\ Cardinality(Ordering) \in Nat /\ PastGate \in Nat
  <1>1. IsFiniteSet(Slots)
    BY FS_Interval, DemoAssumption DEF Slots, DemoAssumption
  <1>2. IsFiniteSet(Ordering)
    BY <1>1, FS_Subset DEF Ordering
  <1>3. Cardinality(Ordering) \in Nat
    BY <1>2, FS_CardinalityType
  <1>4. QED
    BY <1>2, <1>3 DEF PastGate

\* A request that goes on is one order more or less, or none.
LEMMA OrderingMoves ==
  ASSUME OpTyped, NEW r \in Slots, NEW to, Goes(r, to)
  PROVE  /\ op'[r] = to /\ \A q \in Slots : q # r => op'[q] = op[q]
         /\ op' = [q \in Slots |-> op'[q]]
         /\ Cardinality(Ordering') = Cardinality(Ordering) + (IF to.at = "buying" THEN 1 ELSE 0)
                                        - (IF op[r].at = "buying" THEN 1 ELSE 0)
         /\ to.at = "buying" => r \in Ordering'
  <1>1. /\ op'[r] = to /\ \A q \in Slots : q # r => op'[q] = op[q]
        /\ op' = [q \in Slots |-> op'[q]]
    BY DEF Goes, OpTyped
  <1>2. Ordering' = {q \in Slots : op'[q].at = "buying"}
    BY DEF Ordering
  <1> DEFINE others == {q \in Slots : q # r /\ op[q].at = "buying"}
  <1>3. IsFiniteSet(others) /\ Cardinality(others) \in Nat /\ r \notin others
    <2>1. others \subseteq Ordering
      BY DEF Ordering
    <2>2. QED
      BY <2>1, OrderingFinite, FS_Subset, FS_CardinalityType
  <1>4. Cardinality(others \cup {r}) = Cardinality(others) + 1
    BY <1>3, FS_AddElement
  <1>5. Ordering = IF op[r].at = "buying" THEN others \cup {r} ELSE others
    BY DEF Ordering
  <1>6. Ordering' = IF to.at = "buying" THEN others \cup {r} ELSE others
    BY <1>1, <1>2
  <1> HIDE DEF others
  <1>7. Cardinality(Ordering') = Cardinality(Ordering) + (IF to.at = "buying" THEN 1 ELSE 0)
                                    - (IF op[r].at = "buying" THEN 1 ELSE 0)
    BY <1>3, <1>4, <1>5, <1>6
  <1>8. QED
    BY <1>1, <1>6, <1>7

\* What that means for the orders past their gate.
LEMMA RequestOrders ==
  ASSUME OpTyped, NEW r \in Slots, NEW to, Goes(r, to), UNCHANGED loop
  PROVE  PastGate' = PastGate + (IF to.at = "buying" THEN 1 ELSE 0)
                     - (IF op[r].at = "buying" THEN 1 ELSE 0)
  <1>1. Cardinality(Ordering') = Cardinality(Ordering) + (IF to.at = "buying" THEN 1 ELSE 0)
                                    - (IF op[r].at = "buying" THEN 1 ELSE 0)
    BY OrderingMoves
  <1>2. Cardinality(Ordering) \in Nat
    BY OrderingFinite
  <1>3. QED
    BY <1>1, <1>2 DEF PastGate

\* While the requests wait, the loop alone has orders that come and go.
LEMMA LoopOrders ==
  ASSUME UNCHANGED op
  PROVE  PastGate' = PastGate + (IF loop'.at \in {"signalled", "buying"} THEN 1 ELSE 0)
                     - (IF loop.at \in {"signalled", "buying"} THEN 1 ELSE 0)
  <1>1. Ordering' = Ordering
    BY DEF Ordering
  <1>2. Cardinality(Ordering) \in Nat
    BY OrderingFinite
  <1>3. QED
    BY <1>1, <1>2 DEF PastGate

\* What is past its gate is counted in numbers, before a step and after it.
LEMMA PastGateNumbers == PastGate \in Int /\ PastGate' \in Int
  <1>1. PastGate \in Int
    BY OrderingFinite
  <1>2. (PastGate \in Int)'
    BY <1>1, PTL
  <1>3. QED
    BY <1>1, <1>2

\* What the types say of a position, of the next one and of a changed one.
LEMMA LotFacts ==
  ASSUME BooksTyped
  PROVE  /\ Len(lots) \in Nat /\ DOMAIN lots = 1 .. Len(lots)
         /\ \A i \in 1 .. Len(lots) : lots[i] \in LotRecords
         /\ \A lot \in LotRecords : /\ Append(lots, lot) \in Seq(LotRecords)
                                    /\ Len(Append(lots, lot)) = Len(lots) + 1
                                    /\ Append(lots, lot)[Len(lots) + 1] = lot
                                    /\ \A i \in 1 .. Len(lots) : Append(lots, lot)[i] = lots[i]
  <1>1. lots \in Seq(LotRecords)
    BY DEF BooksTyped
  <1>2. QED
    BY <1>1, LenProperties, ElementOfSeq, AppendProperties

\* A position whose shares, stop or mark change stays where it is and what it is.
LEMMA LotChanged ==
  ASSUME BooksTyped, NEW i \in 1 .. Len(lots), NEW lot \in LotRecords
  PROVE  LET ls == [lots EXCEPT ![i] = lot]
         IN  /\ ls \in Seq(LotRecords) /\ Len(ls) = Len(lots)
             /\ ls[i] = lot /\ \A j \in 1 .. Len(lots) : j # i => ls[j] = lots[j]
  BY LotFacts, ExceptSeq DEF BooksTyped

\* A half sold: the lot keeps its symbol and what was bought.
LEMMA ScaledLot ==
  ASSUME BooksTyped, NEW i \in 1 .. Len(lots), NEW half \in Int
  PROVE  LET lot == HalfSold(lots[i], half)
         IN  /\ lot \in LotRecords
             /\ lot.sym = lots[i].sym /\ lot.bought = lots[i].bought
             /\ lot.shares = lots[i].shares - half /\ lot.scaled = TRUE
             /\ lot.scalers = lots[i].scalers /\ lot.closers = lots[i].closers
  <1> DEFINE x == lots[i]
  <1>1. x \in LotRecords
    BY LotFacts
  <1> HIDE DEF x
  <1>2. x.shares - half \in Int /\ x.entry \in Int
    BY <1>1 DEF LotRecords
  <1>3. /\ HalfSold(x, half) \in LotRecords
        /\ HalfSold(x, half).sym = x.sym /\ HalfSold(x, half).bought = x.bought
        /\ HalfSold(x, half).shares = x.shares - half /\ HalfSold(x, half).scaled = TRUE
        /\ HalfSold(x, half).scalers = x.scalers /\ HalfSold(x, half).closers = x.closers
    BY <1>1, <1>2 DEF LotRecords, HalfSold
  <1>4. QED
    BY <1>3 DEF x

\* A stop moved.
LEMMA StoppedLot ==
  ASSUME BooksTyped, NEW i \in 1 .. Len(lots), NEW stop \in Int
  PROVE  LET lot == [lots[i] EXCEPT !.stop = stop]
         IN  /\ lot \in LotRecords
             /\ lot.sym = lots[i].sym /\ lot.bought = lots[i].bought
             /\ lot.shares = lots[i].shares /\ lot.scaled = lots[i].scaled
             /\ lot.scalers = lots[i].scalers /\ lot.closers = lots[i].closers
             /\ [lots EXCEPT ![i].stop = stop] = [lots EXCEPT ![i] = lot]
  <1>1. lots[i] \in LotRecords
    BY LotFacts
  <1>2. QED
    BY <1>1 DEF LotRecords

\* A request that holds a position is counted with it.
LEMMA CountedLot ==
  ASSUME BooksTyped, NEW i \in 1 .. Len(lots)
  PROVE  /\ LET lot == [lots[i] EXCEPT !.closers = @ + 1]
            IN  /\ lot \in LotRecords
                /\ lot.sym = lots[i].sym /\ lot.bought = lots[i].bought
                /\ lot.shares = lots[i].shares /\ lot.scaled = lots[i].scaled
                /\ lot.scalers = lots[i].scalers /\ lot.closers = lots[i].closers + 1
                /\ [lots EXCEPT ![i].closers = @ + 1] = [lots EXCEPT ![i] = lot]
         /\ LET lot == [lots[i] EXCEPT !.scalers = @ + 1]
            IN  /\ lot \in LotRecords
                /\ lot.sym = lots[i].sym /\ lot.bought = lots[i].bought
                /\ lot.shares = lots[i].shares /\ lot.scaled = lots[i].scaled
                /\ lot.scalers = lots[i].scalers + 1 /\ lot.closers = lots[i].closers
                /\ [lots EXCEPT ![i].scalers = @ + 1] = [lots EXCEPT ![i] = lot]
  <1>1. lots[i] \in LotRecords
    BY LotFacts
  <1>2. lots[i].closers + 1 \in Nat /\ lots[i].scalers + 1 \in Nat
    BY <1>1 DEF LotRecords
  <1>3. QED
    BY <1>1, <1>2 DEF LotRecords

\* What a close does to the day's record.
LEMMA CloseFacts ==
  ASSUME NEW r \in RiskRecords, NEW pnl \in Int
  PROVE  LET c == RecordClose(r, pnl)
         IN  /\ c \in RiskRecords
             /\ c.pnl = r.pnl + pnl /\ c.peak = Max({r.peak, r.pnl + pnl})
             /\ c.wins = r.wins + (IF pnl > 0 THEN 1 ELSE 0)
             /\ c.losses = r.losses + (IF pnl > 0 THEN 0 ELSE 1)
             /\ c.streak = IF pnl > 0 THEN 0 ELSE r.streak + 1
             /\ c.halted = r.halted /\ c.trades = r.trades
  <1> DEFINE m == Max({r.peak, r.pnl + pnl})
             d == [r EXCEPT !.pnl = @ + pnl, !.peak = m]
  <1>1. r.peak \in Nat /\ r.pnl + pnl \in Int /\ r.wins \in Nat /\ r.losses \in Nat
        /\ r.streak \in Nat
    BY DEF RiskRecords
  <1>2. m \in Nat
    BY <1>1, MaxOfTwo
  <1>3. RecordClose(r, pnl) = IF pnl > 0 THEN [d EXCEPT !.wins = @ + 1, !.streak = 0]
                              ELSE [d EXCEPT !.losses = @ + 1, !.streak = @ + 1]
    BY DEF RecordClose
  <1> HIDE DEF m
  <1>4. /\ d \in RiskRecords /\ d.pnl = r.pnl + pnl /\ d.peak = m /\ d.wins = r.wins
        /\ d.losses = r.losses /\ d.streak = r.streak /\ d.halted = r.halted
        /\ d.trades = r.trades
    BY <1>1, <1>2 DEF RiskRecords
  <1> HIDE DEF d
  <1>5. CASE pnl > 0
    <2> DEFINE e == [d EXCEPT !.wins = @ + 1, !.streak = 0]
    <2>1. /\ e \in RiskRecords /\ e.pnl = d.pnl /\ e.peak = d.peak /\ e.wins = d.wins + 1
          /\ e.losses = d.losses /\ e.streak = 0 /\ e.halted = d.halted /\ e.trades = d.trades
      <3>1. d \in RiskRecords /\ d.wins + 1 \in Nat
        BY <1>1, <1>4
      <3>2. QED
        BY <3>1 DEF RiskRecords
    <2>2. RecordClose(r, pnl) = e
      BY <1>3, <1>5
    <2> HIDE DEF e
    <2>3. QED
      BY <1>1, <1>4, <1>5, <2>1, <2>2 DEF m
  <1>6. CASE ~(pnl > 0)
    <2> DEFINE e == [d EXCEPT !.losses = @ + 1, !.streak = @ + 1]
    <2>1. /\ e \in RiskRecords /\ e.pnl = d.pnl /\ e.peak = d.peak /\ e.wins = d.wins
          /\ e.losses = d.losses + 1 /\ e.streak = d.streak + 1 /\ e.halted = d.halted
          /\ e.trades = d.trades
      <3>1. d \in RiskRecords /\ d.losses + 1 \in Nat /\ d.streak + 1 \in Nat
        BY <1>1, <1>4
      <3>2. QED
        BY <3>1 DEF RiskRecords
    <2>2. RecordClose(r, pnl) = e
      BY <1>3, <1>6
    <2> HIDE DEF e
    <2>3. QED
      BY <1>1, <1>4, <1>6, <2>1, <2>2 DEF m
  <1>7. QED
    BY <1>5, <1>6

\* A close is journalled as a close, and the record stays a record.
LEMMA ClosesTyped ==
  ASSUME BooksTyped, NEW t, t.lot \in 1 .. Len(lots), t.now \in Nat,
         NEW reason \in {"scale", "close"}, NEW shares \in Int, NEW pnl \in Int,
         Journalled(t, reason, shares, pnl)
  PROVE  /\ journal' \in Seq(Closes) /\ risk' \in RiskRecords
         /\ risk'.halted = risk.halted
  <1>1. [lot |-> t.lot, shares |-> shares, pnl |-> pnl, ts |-> t.now, reason |-> reason] \in Closes
    BY LotFacts DEF Closes
  <1>2. journal' \in Seq(Closes)
    BY <1>1, AppendProperties DEF Journalled, BooksTyped
  <1>3. risk' \in RiskRecords /\ risk'.halted = risk.halted
    BY CloseFacts DEF Journalled, BooksTyped
  <1>4. QED
    BY <1>2, <1>3

\* A sale, and a purchase, leave a number of shares in the account.
LEMMA AccountTyped ==
  ASSUME BooksTyped, NEW s \in Symbols, NEW n \in Int, NEW accepted, Sell(s, n, accepted)
  PROVE  acct' \in [Symbols -> Nat]
  <1>1. Max({0, acct[s] - n}) \in Nat
    <2>1. acct[s] - n \in Int
      BY DEF BooksTyped
    <2>2. QED
      BY <2>1, MaxOfTwo
  <1>2. QED
    BY <1>1 DEF Sell, BooksTyped

\* The types hold at the start.
LEMMA TypedInit == Init => Typed
  <1> SUFFICES ASSUME Init PROVE Typed
    OBVIOUS
  <1>1. LoopTyped /\ OpTyped
    BY DEF Init, Idle, LoopTyped, OpTyped, RequestTyped, Exiting
  <1>3. risk \in RiskRecords
    BY DEF Init, FreshRisk, RiskRecords
  <1>4. BooksTyped
    BY <1>3 DEF Init, BooksTyped
  <1>5. QED
    BY <1>1, <1>4 DEF Typed

\* Steps that change no book keep the books typed.
LEMMA BooksStay ==
  ASSUME BooksTyped, UNCHANGED <<lots, book, journal, tierB, acct>>,
         risk' \in RiskRecords
  PROVE  BooksTyped'
  BY DEF BooksTyped

\* The scan offers symbols.
LEMMA ScanTyped ==
  ASSUME BooksTyped, NEW due, Scan(due)
  PROVE  tierB' \subseteq Symbols
  BY DEF Scan, BooksTyped

\* What a request knows stays known while positions are added.
LEMMA RequestStays ==
  ASSUME NEW n \in Nat, NEW m \in Nat, n <= m, NEW t, RequestTyped(t, n)
  PROVE  RequestTyped(t, m)
  <1>1. 0 .. n \subseteq 0 .. m /\ 1 .. n \subseteq 1 .. m
    OBVIOUS
  <1>2. QED
    BY <1>1 DEF RequestTyped

\* The requests keep what they know while the loop takes its turn.
LEMMA OpStays ==
  ASSUME Typed, UNCHANGED <<op, requests>>, Len(lots') \in Nat, Len(lots') >= Len(lots)
  PROVE  OpTyped'
  <1>1. \A r \in Slots : RequestTyped(op[r], Len(lots'))
    BY LotFacts, RequestStays DEF Typed, OpTyped
  <1>2. QED
    BY <1>1 DEF Typed, OpTyped

\* One request goes on, one that was asked before or the one that is asked now.
LEMMA OpGoes ==
  ASSUME Typed, NEW r \in Slots, NEW to, Goes(r, to), RequestTyped(to, Len(lots')),
         Len(lots') \in Nat, Len(lots') >= Len(lots),
         \/ UNCHANGED requests /\ op[r].at # "idle"
         \/ requests' = requests + 1 /\ r = requests + 1
  PROVE  OpTyped'
  <1>1. /\ op'[r] = to /\ \A q \in Slots : q # r => op'[q] = op[q]
        /\ op' = [q \in Slots |-> op'[q]]
    BY OrderingMoves DEF Typed
  <1>2. \A q \in Slots : RequestTyped(op'[q], Len(lots'))
    BY <1>1, LotFacts, RequestStays DEF Typed, OpTyped
  <1>3. r \in Int /\ \A q \in Slots : q \in Int
    BY DemoAssumption DEF Slots, DemoAssumption
  <1>4. requests \in Nat /\ \A q \in Slots : q > requests => op[q] = Idle
    BY DEF Typed, OpTyped
  <1>5. requests' \in Nat /\ r <= requests'
    BY <1>3, <1>4 DEF Idle
  <1>6. ASSUME NEW q \in Slots, q > requests' PROVE op'[q] = Idle
    BY <1>1, <1>3, <1>4, <1>5, <1>6
  <1>7. QED
    BY <1>1, <1>2, <1>5, <1>6 DEF OpTyped

\* A request that is served at once stays idle.
LEMMA OpServed ==
  ASSUME Typed, UNCHANGED op, NEW r \in Slots, r = requests + 1, Served,
         Len(lots') \in Nat, Len(lots') >= Len(lots)
  PROVE  OpTyped'
  <1>1. \A q \in Slots : RequestTyped(op[q], Len(lots'))
    BY LotFacts, RequestStays DEF Typed, OpTyped
  <1>2. \A q \in Slots : q \in Int
    BY DemoAssumption DEF Slots, DemoAssumption
  <1>3. requests' \in Nat /\ \A q \in Slots : q > requests' => op[q] = Idle
    BY <1>2 DEF Typed, OpTyped, Served
  <1>4. QED
    BY <1>1, <1>3 DEF Typed, OpTyped

\* The slot of a new request is idle.
LEMMA AskedIdle ==
  ASSUME OpTyped, NEW r, NEW kind, Asked(r, kind)
  PROVE  r \in Slots /\ r = requests + 1 /\ op[r] = Idle /\ op[r].at = "idle"
  <1>1. r \in Slots /\ r > requests
    BY DEF Asked, OpTyped
  <1>2. QED
    BY <1>1 DEF Asked, OpTyped, Idle

\* The same of the main loop.
LEMMA LoopStays ==
  ASSUME Typed, UNCHANGED loop, Len(lots') \in Nat, Len(lots') >= Len(lots)
  PROVE  LoopTyped'
  <1>1. 1 .. Len(lots) \subseteq 1 .. Len(lots')
    BY LotFacts DEF Typed
  <1>2. Symbols \X (1 .. Len(lots)) \subseteq Symbols \X (1 .. Len(lots'))
    BY <1>1
  <1>3. QED
    BY <1>1, <1>2 DEF Typed, LoopTyped

\* A position bought goes into the books.
LEMMA TrackTyped ==
  ASSUME Typed, NEW s \in Symbols, NEW shares \in 1 .. MaxPositionSize, NEW entry \in Int,
         NEW stop \in Int, Track(s, shares, entry, stop), UNCHANGED <<journal, tierB>>
  PROVE  BooksTyped' /\ Len(lots') = Len(lots) + 1
  <1> DEFINE lot == [sym |-> s, bought |-> shares, shares |-> shares, entry |-> entry,
                     stop |-> stop, scaled |-> FALSE, scalers |-> 0, closers |-> 0]
             n == Len(lots)
  <1>1. lot \in LotRecords /\ lot.sym = s
    BY DEF LotRecords
  <1>2. lots' = Append(lots, lot)
    BY DEF Track
  <1> HIDE DEF lot
  <1>3. /\ n \in Nat /\ lots' \in Seq(LotRecords) /\ Len(lots') = n + 1
        /\ lots'[n + 1] = lot /\ \A i \in 1 .. n : lots'[i] = lots[i]
    BY <1>1, <1>2, LotFacts DEF Typed
  <1>4. book' \in [Symbols -> 0 .. Len(lots')]
    <2>1. 0 .. n \subseteq 0 .. (n + 1) /\ n + 1 \in 0 .. (n + 1)
      BY <1>3
    <2>2. book \in [Symbols -> 0 .. n] /\ book' = [book EXCEPT ![s] = n + 1]
      BY DEF Track, Typed, BooksTyped
    <2> HIDE DEF n
    <2>3. QED
      BY <1>3, <2>1, <2>2
  <1>5. ASSUME NEW u \in Symbols, book'[u] # 0 PROVE lots'[book'[u]].sym = u
    <2>1. book'[u] = IF u = s THEN n + 1 ELSE book[u]
      BY DEF Track, Typed, BooksTyped
    <2>2. CASE u = s
      BY <1>1, <1>3, <2>1, <2>2
    <2>3. CASE u # s
      <3>1. book[u] \in 1 .. n /\ lots[book[u]].sym = u
        BY <1>3, <1>5, <2>1, <2>3 DEF Typed, BooksTyped
      <3>2. QED
        BY <1>3, <2>1, <2>3, <3>1
    <2>4. QED
      BY <2>2, <2>3
  <1>7. acct' \in [Symbols -> Nat]
    <2>1. shares \in Nat
      BY DemoRulesAssumption DEF DemoRulesAssumption
    <2>2. QED
      BY <2>1 DEF Track, Typed, BooksTyped
  <1>8. risk' \in RiskRecords
    <2>1. risk.trades + 1 \in Nat
      BY DEF Typed, BooksTyped, RiskRecords
    <2>2. QED
      BY <2>1 DEF Track, Typed, BooksTyped, RiskRecords
  <1>9. QED
    BY <1>3, <1>4, <1>5, <1>7, <1>8 DEF Typed, BooksTyped

\* One position replaced by another of the same symbol leaves the books typed.
LEMMA LotsTyped ==
  ASSUME Typed, NEW i \in 1 .. Len(lots), NEW lot \in LotRecords, lot.sym = lots[i].sym,
         lots' = [lots EXCEPT ![i] = lot]
  PROVE  /\ lots' \in Seq(LotRecords) /\ Len(lots') = Len(lots)
         /\ \A j \in 1 .. Len(lots) : lots'[j].sym = lots[j].sym
  <1>1. /\ lots' \in Seq(LotRecords) /\ Len(lots') = Len(lots)
        /\ lots'[i] = lot /\ \A j \in 1 .. Len(lots) : j # i => lots'[j] = lots[j]
    BY LotChanged DEF Typed
  <1>2. QED
    BY <1>1

\* The books after a step that keeps the number of positions.
LEMMA BooksFollow ==
  ASSUME Typed, risk' \in RiskRecords, lots' \in Seq(LotRecords), Len(lots') = Len(lots),
         \A j \in 1 .. Len(lots) : lots'[j].sym = lots[j].sym,
         \A s \in Symbols : book'[s] \in {0, book[s]}, DOMAIN book' = Symbols,
         book' \in [Symbols -> 0 .. Len(lots)],
         journal' \in Seq(Closes), UNCHANGED tierB, acct' \in [Symbols -> Nat]
  PROVE  BooksTyped'
  <1>2. ASSUME NEW s \in Symbols, book'[s] # 0 PROVE lots'[book'[s]].sym = s
    <2>1. book'[s] = book[s]
      BY <1>2
    <2>2. book[s] \in 1 .. Len(lots) /\ lots[book[s]].sym = s
      BY <1>2, <2>1, LotFacts DEF Typed, BooksTyped
    <2>3. lots'[book[s]].sym = lots[book[s]].sym
      BY <2>2
    <2>4. QED
      BY <2>1, <2>2, <2>3
  <1>3. QED
    BY <1>2 DEF Typed, BooksTyped

\* The clock reads a number.
LEMMA NowTyped ==
  ASSUME Typed
  PROVE  Now \in Nat
  <1> DEFINE Out == {q \in Slots : op[q].at \in Exiting}
             J == {journal[i].ts : i \in DOMAIN journal}
             O == {op[r].now : r \in Out}
             M == IF loop.at = "idle" THEN {} ELSE {loop.now}
             all == {0} \cup J \cup O \cup M
  <1>1. J \subseteq Nat /\ IsFiniteSet(J)
    <2>1. journal \in Seq(Closes) /\ DOMAIN journal = 1 .. Len(journal) /\ Len(journal) \in Nat
      BY LenProperties DEF Typed, BooksTyped
    <2>2. \A i \in DOMAIN journal : journal[i] \in Closes
      BY <2>1, ElementOfSeq
    <2>3. J \subseteq Nat
      BY <2>2 DEF Closes
    <2> DEFINE times == [i \in DOMAIN journal |-> journal[i].ts]
    <2>4. J = {times[i] : i \in DOMAIN journal}
      OBVIOUS
    <2>5. IsFiniteSet(DOMAIN journal)
      BY <2>1, FS_Interval
    <2> HIDE DEF times
    <2>6. QED
      BY <2>3, <2>4, <2>5, ImageFinite
  <1>2. O \subseteq Nat /\ IsFiniteSet(O)
    <2>1. IsFiniteSet(Slots) /\ Out \subseteq Slots
      BY FS_Interval, DemoAssumption DEF Slots, DemoAssumption
    <2>2. IsFiniteSet(Out)
      BY <2>1, FS_Subset
    <2>3. O \subseteq Nat
      BY <2>1 DEF Typed, OpTyped, RequestTyped
    <2> DEFINE nows == [r \in Out |-> op[r].now]
    <2>4. O = {nows[r] : r \in Out}
      OBVIOUS
    <2> HIDE DEF nows, Out
    <2>5. QED
      BY <2>2, <2>3, <2>4, ImageFinite
  <1>3. M \subseteq Nat /\ IsFiniteSet(M)
    BY FS_EmptySet, FS_Singleton DEF Typed, LoopTyped
  <1>4. IsFiniteSet({0}) /\ {0} \subseteq Nat
    BY FS_Singleton
  <1>5. Now = 1 + Max(all)
    BY DEF Now
  <1> HIDE DEF J, O, M
  <1>6. IsFiniteSet({0} \cup J) /\ IsFiniteSet(({0} \cup J) \cup O)
    BY <1>1, <1>2, <1>4, FS_Union
  <1>7. IsFiniteSet(all)
    BY <1>3, <1>6, FS_Union
  <1>8. all \in SUBSET Int /\ all # {} /\ all \subseteq Nat
    BY <1>1, <1>2, <1>3
  <1> HIDE DEF all
  <1>9. Max(all) \in all
    BY <1>7, <1>8, MaxFacts
  <1>10. Max(all) \in Nat
    BY <1>8, <1>9
  <1>11. QED
    BY <1>5, <1>10

(***************************************************************************)
(* The types, step by step: the main loop.                                 *)
(***************************************************************************)

\* The scan and the strategy's start: symbols to do, and no order sent.
LEMMA StartTyped ==
  ASSUME Typed, StartIteration \/ StartStrategy \/ PickSymbol
  PROVE  Typed'
  <1>1. tierB' \subseteq Symbols
    BY ScanTyped DEF Typed, BooksTyped, StartIteration, StartStrategy, PickSymbol
  <1>2. UNCHANGED <<risk, lots, book, journal, acct, op, requests>>
    BY DEF StartIteration, StartStrategy, PickSymbol
  <1>4. LoopTyped'
    <2>1. CASE StartIteration
      BY <2>1, NowTyped DEF StartIteration, LoopTyped
    <2>2. CASE StartStrategy \/ PickSymbol
      BY <1>1, <1>2, <2>2 DEF Typed, BooksTyped, LoopTyped, StartStrategy, PickSymbol, Strategy
    <2>3. QED
      BY <2>1, <2>2
  <1>5. OpTyped'
    BY <1>2, LotFacts, OpStays DEF Typed
  <1>6. BooksTyped'
    <2>1. risk' \in RiskRecords /\ lots' \in Seq(LotRecords) /\ Len(lots') = Len(lots)
      BY <1>2 DEF Typed, BooksTyped
    <2>2. QED
      BY <1>1, <1>2, <2>1 DEF Typed, BooksTyped
  <1>7. QED
    BY <1>4, <1>5, <1>6 DEF Typed

\* The halt of a gate, and any halt, leave a record of the day.
LEMMA HaltFacts ==
  ASSUME NEW r \in RiskRecords
  PROVE  /\ Halt(r) \in RiskRecords /\ Halt(r).halted
         /\ Halt(r).pnl = r.pnl /\ Halt(r).peak = r.peak /\ Halt(r).streak = r.streak
         /\ Halt(r).wins = r.wins /\ Halt(r).losses = r.losses
  BY DEF Halt, RiskRecords

\* The gates approve an order that is within the cap, or none.
LEMMA DecideTyped ==
  ASSUME Typed, Decide
  PROVE  /\ Typed' /\ risk' \in {risk, Halt(risk)}
         /\ loop'.at \in {"strategy", "signalled"}
         /\ loop'.at = "signalled" => Open /\ UNCHANGED <<risk, gated>>
         /\ gated' = IF risk'.halted /\ ~risk.halted THEN PastGate ELSE gated
  <1> DEFINE Signal(shares, gate) ==
               [at |-> "signalled", sym |-> loop.sym, todo |-> loop.todo, now |-> loop.now,
                shares |-> shares, entry |-> gate.entry, stop |-> gate.stop]
  <1>0. /\ loop.at = "data" /\ loop.todo \subseteq Symbols /\ loop.sym \in Symbols
        /\ loop.now \in Nat
    BY DEF Decide, Typed, LoopTyped
  <1>u. UNCHANGED <<lots, book, journal, tierB, op, settings, acct, killed, late, requests>>
    BY DEF Decide
  <1>1. \/ loop' = Strategy(loop.todo) /\ risk' \in {risk, Halt(risk)} /\ HaltsTo(risk')
        \/ \E entry, stop, shares \in Int :
             /\ loop' = Signal(shares, [entry |-> entry, stop |-> stop])
             /\ shares \in 1 .. MaxPositionSize /\ Open /\ UNCHANGED <<risk, gated>>
    <2>1. CASE loop' = Strategy(loop.todo) /\ UNCHANGED <<risk, gated>>
      BY <2>1 DEF HaltsTo
    <2>2. ASSUME NEW bars \in BarHistories, NEW up \in BOOLEAN, NEW spread \in Spreads,
                 NEW gate \in EvaluateEntryGate(bars, up, spread), NEW inWindow \in BOOLEAN,
                 LET shares == Sized(risk.pnl, gate.entry, gate.stop)
                 IN  IF Open /\ inWindow /\ shares > 0
                     THEN loop' = Signal(shares, gate) /\ UNCHANGED <<risk, gated>>
                     ELSE /\ loop' = Strategy(loop.todo)
                          /\ HaltsTo(IF inWindow THEN HaltedByGate ELSE risk)
          PROVE  <1>1!1 \/ <1>1!2
      <3> DEFINE shares == Sized(risk.pnl, gate.entry, gate.stop)
      <3>1. gate.entry \in Int /\ gate.stop \in Int
        BY GateFacts
      <3>2. shares \in Int /\ shares <= MaxPositionSize
        <4>1. risk.pnl \in Int
          BY DEF Typed, BooksTyped, RiskRecords
        <4>2. QED
          BY <3>1, <4>1, SizedFacts
      <3>3. HaltedByGate \in {risk, Halt(risk)}
        BY DEF HaltedByGate
      <3>4. CASE Open /\ inWindow /\ shares > 0
        <4>1. shares \in 1 .. MaxPositionSize
          BY <3>2, <3>4, DemoRulesAssumption DEF DemoRulesAssumption
        <4>2. /\ loop' = Signal(shares, [entry |-> gate.entry, stop |-> gate.stop])
              /\ UNCHANGED <<risk, gated>>
          BY <2>2, <3>4
        <4> HIDE DEF shares
        <4>3. QED
          BY <3>1, <3>4, <4>1, <4>2
      <3>5. CASE ~(Open /\ inWindow /\ shares > 0)
        <4>1. /\ loop' = Strategy(loop.todo)
              /\ HaltsTo(IF inWindow THEN HaltedByGate ELSE risk)
          BY <2>2, <3>5
        <4>2. risk' = IF inWindow THEN HaltedByGate ELSE risk
          BY <4>1 DEF HaltsTo
        <4>3. HaltsTo(risk')
          BY <4>1, <4>2
        <4>4. QED
          BY <3>3, <4>1, <4>2, <4>3
      <3>6. QED
        BY <3>4, <3>5
    <2>3. QED
      BY <2>1, <2>2 DEF Decide
  <1>2. risk' \in RiskRecords /\ risk' \in {risk, Halt(risk)}
    BY <1>1, HaltFacts DEF Typed, BooksTyped
  <1>3. /\ loop'.at \in {"strategy", "signalled"}
        /\ loop'.at = "signalled" => Open /\ UNCHANGED <<risk, gated>>
        /\ LoopTyped'
    <2>1. CASE loop' = Strategy(loop.todo)
      BY <1>0, <2>1 DEF Strategy, LoopTyped
    <2>2. ASSUME NEW entry \in Int, NEW stop \in Int, NEW shares \in 1 .. MaxPositionSize,
                 loop' = Signal(shares, [entry |-> entry, stop |-> stop]), Open,
                 UNCHANGED <<risk, gated>>
          PROVE  <1>3
      <3>1. loop' \in OrderRecords /\ loop'.at = "signalled" /\ loop'.now = loop.now
        BY <1>0, <2>2 DEF OrderRecords
      <3>2. QED
        BY <1>0, <2>2, <3>1 DEF LoopTyped
    <2>3. QED
      BY <1>1, <2>1, <2>2
  <1>7. gated' = IF risk'.halted /\ ~risk.halted THEN PastGate ELSE gated
    BY <1>1 DEF HaltsTo
  <1>4. BooksTyped'
    BY <1>2, <1>u, BooksStay DEF Typed
  <1>5. OpTyped'
    BY <1>u, LotFacts, OpStays DEF Typed
  <1>6. QED
    BY <1>2, <1>3, <1>4, <1>5, <1>7 DEF Typed

\* The order of a signal is sent, or not.
LEMMA SendBuyTyped ==
  ASSUME Typed, SendBuy
  PROVE  Typed' /\ loop'.at \in {"strategy", "buying"}
  <1>0. loop.at = "signalled"
    BY DEF SendBuy
  <1>1. loop \in OrderRecords
    BY <1>0 DEF Typed, LoopTyped
  <1>u. UNCHANGED <<risk, lots, book, journal, tierB, op, settings, acct, history, requests>>
    BY DEF SendBuy
  <1>2. LoopTyped' /\ loop'.at \in {"strategy", "buying"}
    <2>1. CASE loop' = [loop EXCEPT !.at = "buying"]
      <3>1. loop' \in OrderRecords /\ loop'.at = "buying" /\ loop'.now \in Nat
        BY <1>1, <2>1 DEF OrderRecords
      <3>2. QED
        BY <2>1, <3>1 DEF LoopTyped
    <2>2. CASE loop' = Strategy(loop.todo)
      BY <1>1, <2>2 DEF LoopTyped, Strategy, OrderRecords
    <2>3. QED
      BY <2>1, <2>2 DEF SendBuy
  <1>3. OpTyped'
    BY <1>u, LotFacts, OpStays DEF Typed
  <1>5. BooksTyped'
    BY <1>u DEF Typed, BooksTyped
  <1>6. QED
    BY <1>2, <1>3, <1>5 DEF Typed

\* The answer to an order: the position is tracked, or nothing changed.
LEMMA BuyAnsweredTyped ==
  ASSUME Typed, BuyAnswered
  PROVE  Typed'
  <1>0. loop.at = "buying"
    BY DEF BuyAnswered
  <1>1. loop \in OrderRecords
    BY <1>0 DEF Typed, LoopTyped
  <1>u. UNCHANGED <<journal, tierB, op, settings, killed, requests>> /\ loop' = Strategy(loop.todo)
    BY DEF BuyAnswered
  <1>3. LoopTyped'
    BY <1>1, <1>u DEF LoopTyped, Strategy, OrderRecords
  <1>4. BooksTyped' /\ Len(lots') >= Len(lots) /\ Len(lots') \in Nat
    <2>0. Len(lots) \in Nat
      BY LotFacts DEF Typed
    <2>1. CASE Track(loop.sym, loop.shares, loop.entry, loop.stop)
      <3>1. BooksTyped' /\ Len(lots') = Len(lots) + 1
        <4>1. /\ loop.sym \in Symbols /\ loop.shares \in 1 .. MaxPositionSize
              /\ loop.entry \in Int /\ loop.stop \in Int
          BY <1>1 DEF OrderRecords
        <4>2. QED
          BY <1>u, <2>1, <4>1, TrackTyped
      <3>2. QED
        BY <2>0, <3>1
    <2>2. CASE UNCHANGED <<lots, book, acct, risk, late>>
      <3>1. BooksTyped'
        BY <1>u, <2>2, BooksStay DEF Typed, BooksTyped
      <3>2. QED
        BY <2>0, <2>2, <3>1
    <2>3. QED
      BY <2>1, <2>2 DEF BuyAnswered
  <1>5. OpTyped'
    BY <1>4, <1>u, OpStays
  <1>6. QED
    BY <1>3, <1>4, <1>5 DEF Typed

\* The monitor takes the tracked positions, quotes them one by one and ends.
LEMMA MonitorTyped ==
  ASSUME Typed, StartExits \/ Monitor \/ EndIteration
  PROVE  Typed' /\ loop'.at \in {"idle", "exits", "selling"}
  <1>u. UNCHANGED <<risk, lots, book, journal, tierB, op, settings, acct, history, requests>>
    BY DEF StartExits, Monitor, EndIteration
  <1>1. LoopTyped' /\ loop'.at \in {"idle", "exits", "selling"}
    <2>1. CASE StartExits
      <3>1. Tracked \subseteq Symbols \X (1 .. Len(lots))
        BY LotFacts DEF Tracked, Typed, BooksTyped
      <3>2. loop.now \in Nat
        BY <2>1 DEF StartExits, Typed, LoopTyped
      <3>3. QED
        BY <1>u, <2>1, <3>1, <3>2 DEF StartExits, LoopTyped, Exits
    <2>2. CASE EndIteration
      BY <2>2 DEF EndIteration, LoopTyped, Idle
    <2>3. ASSUME NEW p \in loop.todo, loop.at = "exits",
                 loop' = Exits(loop.todo \ {p}) \/ QuoteComes(p)
          PROVE  LoopTyped' /\ loop'.at \in {"exits", "selling"}
      <3>1. loop.todo \subseteq Symbols \X (1 .. Len(lots)) /\ loop.now \in Nat
        BY <2>3 DEF Typed, LoopTyped
      <3>2. CASE loop' = Exits(loop.todo \ {p})
        BY <1>u, <3>1, <3>2 DEF LoopTyped, Exits
      <3>3. ASSUME NEW bid \in Quotes, NEW kind \in ExitKinds(lots[p[2]], bid), kind # "hold",
                   loop' = [at |-> "selling", kind |-> kind, sym |-> p[1], lot |-> p[2],
                            half |-> Half(lots[p[2]].shares), price |-> bid,
                            todo |-> loop.todo \ {p}, now |-> loop.now]
            PROVE  LoopTyped' /\ loop'.at \in {"exits", "selling"}
        <4>1. p[1] \in Symbols /\ p[2] \in 1 .. Len(lots)
          BY <3>1
        <4>2. kind \in {"exit", "scale"}
          BY <3>3 DEF ExitKinds
        <4>3. bid \in Int
          BY DemoAssumption DEF DemoAssumption
        <4>4. Half(lots[p[2]].shares) \in Nat \ {0}
          <5>1. lots[p[2]].shares \in Int
            BY <4>1, LotFacts DEF LotRecords, Typed
          <5>2. QED
            BY <5>1, HalfFacts
        <4>5. QED
          BY <1>u, <3>1, <3>3, <4>1, <4>2, <4>3, <4>4 DEF LoopTyped
      <3>4. QED
        BY <2>3, <3>2, <3>3 DEF QuoteComes
    <2>4. QED
      BY <2>1, <2>2, <2>3 DEF Monitor
  <1>2. OpTyped'
    BY <1>u, LotFacts, OpStays DEF Typed
  <1>4. BooksTyped'
    BY <1>u, BooksStay DEF Typed, BooksTyped
  <1>5. QED
    BY <1>1, <1>2, <1>4 DEF Typed

\* A scale-out, the monitor's or the operator's, keeps the books typed.
LEMMA ScaledOutTyped ==
  ASSUME Typed, NEW t, t.sym \in Symbols, t.lot \in 1 .. Len(lots), t.half \in Nat \ {0},
         t.price \in Int, t.now \in Nat, ScaledOut(t), UNCHANGED <<book, tierB>>
  PROVE  BooksTyped' /\ Len(lots') = Len(lots) /\ risk'.halted = risk.halted
  <1> DEFINE lot == HalfSold(lots[t.lot], t.half)
             pnl == (t.price - lots[t.lot].entry) * t.half
  <1>1. lot \in LotRecords /\ lot.sym = lots[t.lot].sym
    <2>1. BooksTyped /\ t.half \in Int
      BY DEF Typed
    <2>2. QED
      BY <2>1, ScaledLot
  <1>2. lots' = [lots EXCEPT ![t.lot] = lot]
    BY DEF ScaledOut
  <1> HIDE DEF lot
  <1>3. /\ lots' \in Seq(LotRecords) /\ Len(lots') = Len(lots)
        /\ \A j \in 1 .. Len(lots) : lots'[j].sym = lots[j].sym
    BY <1>1, <1>2, LotsTyped
  <1>4. pnl \in Int
    <2>1. lots[t.lot].entry \in Int
      BY LotFacts DEF Typed, LotRecords
    <2>2. QED
      BY <2>1
  <1>5. Journalled(t, "scale", t.half, pnl)
    BY DEF ScaledOut
  <1> HIDE DEF pnl
  <1>6. journal' \in Seq(Closes) /\ risk' \in RiskRecords /\ risk'.halted = risk.halted
    <2>1. BooksTyped /\ t.half \in Int
      BY DEF Typed
    <2>2. QED
      BY <1>4, <1>5, <2>1, ClosesTyped
  <1>7. acct' \in [Symbols -> Nat]
    <2>1. \E accepted \in Answers("sell") : Sell(t.sym, t.half, accepted)
      BY DEF ScaledOut
    <2>2. QED
      BY <2>1, AccountTyped DEF Typed
  <1>8. book' \in [Symbols -> 0 .. Len(lots)] /\ \A s \in Symbols : book'[s] \in {0, book[s]}
    BY DEF Typed, BooksTyped
  <1>9. BooksTyped'
    BY <1>3, <1>6, <1>7, <1>8, BooksFollow
  <1>10. QED
    BY <1>3, <1>6, <1>9

\* So does a full close, and the symbol's entry is gone.
LEMMA ClosedOutTyped ==
  ASSUME Typed, NEW t, t.sym \in Symbols, t.lot \in 1 .. Len(lots), t.price \in Int,
         t.now \in Nat, ClosedOut(t), UNCHANGED tierB
  PROVE  BooksTyped' /\ UNCHANGED lots /\ risk'.halted = risk.halted
  <1> DEFINE pnl == (t.price - lots[t.lot].entry) * lots[t.lot].shares
  <1>1. lots[t.lot].entry \in Int /\ lots[t.lot].shares \in Int
    BY LotFacts DEF Typed, LotRecords
  <1>2. pnl \in Int
    BY <1>1
  <1>3. Journalled(t, "close", lots[t.lot].shares, pnl) /\ UNCHANGED lots
    BY DEF ClosedOut
  <1> HIDE DEF pnl
  <1>4. journal' \in Seq(Closes) /\ risk' \in RiskRecords /\ risk'.halted = risk.halted
    BY <1>1, <1>2, <1>3, ClosesTyped DEF Typed
  <1>5. acct' \in [Symbols -> Nat]
    <2>1. \E accepted \in Answers("sell") : Sell(t.sym, acct[t.sym], accepted)
      BY DEF ClosedOut
    <2>2. acct[t.sym] \in Int
      BY DEF Typed, BooksTyped
    <2>3. QED
      BY <2>1, <2>2, AccountTyped DEF Typed
  <1>6. book' \in [Symbols -> 0 .. Len(lots)] /\ \A s \in Symbols : book'[s] \in {0, book[s]}
    <2>1. 0 \in 0 .. Len(lots)
      BY LotFacts DEF Typed
    <2>2. book' = [book EXCEPT ![t.sym] = 0]
      BY DEF ClosedOut
    <2>3. QED
      BY <2>1, <2>2 DEF Typed, BooksTyped
  <1>7. BooksTyped'
    <2>1. lots' \in Seq(LotRecords) /\ Len(lots') = Len(lots)
          /\ \A j \in 1 .. Len(lots) : lots'[j].sym = lots[j].sym
      BY <1>3 DEF Typed, BooksTyped
    <2>2. QED
      BY <1>4, <1>5, <1>6, <2>1, BooksFollow
  <1>8. QED
    BY <1>3, <1>4, <1>7

\* The monitor's sales, and the halt after the report.
LEMMA LoopSoldTyped ==
  ASSUME Typed, LoopScaledOut \/ LoopClosedOut
  PROVE  /\ Typed' /\ risk'.halted = risk.halted
         /\ loop'.at \in {"idle", "exits", "reporting"}
  <1>0. loop.at = "selling"
    BY DEF LoopScaledOut, LoopClosedOut
  <1>1. /\ loop.kind \in {"exit", "scale"} /\ loop.sym \in Symbols /\ loop.lot \in 1 .. Len(lots)
        /\ loop.half \in Nat \ {0} /\ loop.price \in Int /\ loop.now \in Nat
        /\ loop.todo \subseteq Symbols \X (1 .. Len(lots))
    BY <1>0 DEF Typed, LoopTyped
  <1>2. loop'.at \in {"idle", "exits", "reporting"} /\ UNCHANGED <<tierB, op, requests>>
    BY DEF LoopScaledOut, LoopClosedOut, Idle, Exits
  <1>4. BooksTyped' /\ Len(lots') = Len(lots) /\ risk'.halted = risk.halted
    <2>1. CASE LoopScaledOut
      BY <1>1, <1>2, <2>1, ScaledOutTyped DEF LoopScaledOut
    <2>2. CASE LoopClosedOut
      BY <1>1, <1>2, <2>2, ClosedOutTyped DEF LoopClosedOut
    <2>3. QED
      BY <2>1, <2>2
  <1>5. LoopTyped'
    <2>1. loop' \in {Idle, [at |-> "reporting", todo |-> loop.todo, now |-> loop.now],
                     Exits(loop.todo)}
      BY DEF LoopScaledOut, LoopClosedOut
    <2>2. QED
      BY <1>1, <1>4, <2>1 DEF LoopTyped, Idle, Exits
  <1>6. OpTyped'
    <2>1. Len(lots') \in Nat
      BY <1>4, LotFacts DEF Typed
    <2>2. QED
      BY <1>2, <1>4, <2>1, LotFacts, OpStays DEF Typed
  <1>7. QED
    BY <1>2, <1>4, <1>5, <1>6 DEF Typed

\* The reported sale (_monitor_positions after its await) keeps the types.
LEMMA ReportedTyped ==
  ASSUME Typed, Reported
  PROVE  Typed' /\ loop'.at = "exits" /\ risk' \in {risk, Halt(risk)} /\ HaltsTo(risk')
  <1>0. /\ loop.at = "reporting" /\ loop.todo \subseteq Symbols \X (1 .. Len(lots))
        /\ loop.now \in Nat
    BY DEF Typed, LoopTyped, Reported
  <1>u. /\ UNCHANGED <<lots, book, journal, tierB, op, settings, acct, killed, late, requests>>
        /\ loop' = Exits(loop.todo)
    BY DEF Reported
  <1>1. risk' \in {risk, Halt(risk)} /\ risk' \in RiskRecords /\ HaltsTo(risk')
    BY HaltFacts DEF Reported, HaltsTo, Typed, BooksTyped
  <1>2. LoopTyped' /\ loop'.at = "exits"
    BY <1>0, <1>u DEF LoopTyped, Exits
  <1>4. BooksTyped'
    BY <1>1, <1>u, BooksStay DEF Typed
  <1>5. OpTyped'
    BY <1>u, LotFacts, OpStays DEF Typed
  <1>6. QED
    BY <1>1, <1>2, <1>4, <1>5 DEF Typed

\* The main loop keeps the types.
LEMMA LoopTypedNext == Typed /\ LoopNext => Typed'
  BY StartTyped, DecideTyped, SendBuyTyped, BuyAnsweredTyped, MonitorTyped, LoopSoldTyped,
     ReportedTyped DEF LoopNext

(***************************************************************************)
(* The types, step by step: the operator's requests.                       *)
(***************************************************************************)

\* A step of a request that changes no book but the list of the scan.
LEMMA OpWaitsTyped ==
  ASSUME Typed, UNCHANGED <<lots, book, journal, acct, loop>>, tierB' \subseteq Symbols,
         risk' \in RiskRecords, OpTyped'
  PROVE  Typed'
  <1>2. BooksTyped'
    BY DEF Typed, BooksTyped
  <1>3. LoopTyped'
    BY LotFacts, LoopStays DEF Typed
  <1>4. QED
    BY <1>2, <1>3 DEF Typed

\* While no coroutine moves the same orders are past their gate.
LEMMA NothingMoves ==
  ASSUME UNCHANGED <<loop, op>>
  PROVE  PastGate' = PastGate
  BY DEF PastGate, Ordering

\* A position that is counted is the same one otherwise.
LEMMA CountedTyped ==
  ASSUME Typed, NEW i \in 1 .. Len(lots),
         \/ lots' = [lots EXCEPT ![i].closers = @ + 1]
         \/ lots' = [lots EXCEPT ![i].scalers = @ + 1]
  PROVE  /\ lots' \in Seq(LotRecords) /\ Len(lots') = Len(lots)
         /\ \A j \in 1 .. Len(lots) : lots'[j].sym = lots[j].sym
  <1>1. PICK lot \in LotRecords : lots' = [lots EXCEPT ![i] = lot] /\ lot.sym = lots[i].sym
    BY CountedLot DEF Typed
  <1>2. QED
    BY <1>1, LotsTyped

\* The requests that look a lot up, and the manual sale.
LEMMA AskedTyped ==
  ASSUME Typed, NEW r \in Slots, AskClose(r) \/ AskScale(r) \/ ManualSell(r)
  PROVE  Typed' /\ UNCHANGED risk /\ PastGate' = PastGate
  <1>u. UNCHANGED <<risk, book, journal, tierB, loop, acct>>
    BY DEF AskClose, AskScale, ManualSell
  <1>0. op[r] = Idle /\ r = requests + 1 /\ requests' = requests + 1
    BY AskedIdle DEF AskClose, AskScale, ManualSell, Served, Typed
  <1>1. /\ lots' \in Seq(LotRecords) /\ Len(lots') = Len(lots)
        /\ \A j \in 1 .. Len(lots) : lots'[j].sym = lots[j].sym
    <2>1. CASE UNCHANGED lots
      BY <2>1 DEF Typed, BooksTyped
    <2>2. CASE \E i \in 1 .. Len(lots) : \/ lots' = [lots EXCEPT ![i].closers = @ + 1]
                                         \/ lots' = [lots EXCEPT ![i].scalers = @ + 1]
      BY <2>2, CountedTyped
    <2>3. \A s \in Symbols : book[s] # 0 => book[s] \in 1 .. Len(lots)
      BY LotFacts DEF Typed, BooksTyped
    <2>4. CASE AskClose(r)
      BY <2>1, <2>2, <2>3, <2>4 DEF AskClose
    <2>5. CASE AskScale(r)
      BY <2>2, <2>3, <2>5 DEF AskScale
    <2>6. CASE ManualSell(r)
      BY <2>1, <2>6 DEF ManualSell
    <2>7. QED
      BY <2>4, <2>5, <2>6
  <1>2. PICK to : Goes(r, to) /\ to.at # "buying" /\ RequestTyped(to, Len(lots'))
    <2>1. CASE AskClose(r)
      <3>1. PICK s \in Symbols : Goes(r, [at |-> "close_quote", sym |-> s, lot |-> book[s], now |-> Now])
        BY <2>1 DEF AskClose
      <3>2. book[s] \in 0 .. Len(lots')
        BY <1>1 DEF Typed, BooksTyped
      <3>3. QED
        BY <3>1, <3>2, NowTyped DEF RequestTyped
    <2>2. CASE AskScale(r)
      <3>1. PICK s \in Symbols :
              /\ book[s] # 0
              /\ Goes(r, [at |-> "scale_quote", sym |-> s, lot |-> book[s], now |-> Now])
        BY <2>2 DEF AskScale
      <3>2. book[s] \in 1 .. Len(lots')
        BY <1>1, <3>1, LotFacts DEF Typed, BooksTyped
      <3>3. QED
        BY <3>1, <3>2, NowTyped DEF RequestTyped
    <2>3. CASE ManualSell(r)
      <3>1. PICK s \in Symbols, qty \in ManualSizes :
              Goes(r, [at |-> "selling", sym |-> s, qty |-> qty])
        BY <2>3 DEF ManualSell
      <3>2. qty \in Nat
        BY DemoAssumption DEF DemoAssumption
      <3>3. QED
        BY <3>1, <3>2 DEF RequestTyped, Exiting
    <2>4. QED
      BY <2>1, <2>2, <2>3
  <1>3. OpTyped'
    <2>1. Len(lots') \in Nat /\ Len(lots') >= Len(lots)
      BY <1>1, LotFacts DEF Typed
    <2>2. QED
      BY <1>0, <1>2, <2>1, OpGoes
  <1>4. PastGate' = PastGate
    BY <1>u, <1>0, <1>2, RequestOrders, PastGateNumbers DEF Typed, Idle
  <1>5. BooksTyped'
    <2>1. risk' \in RiskRecords /\ book' \in [Symbols -> 0 .. Len(lots)] /\ journal' \in Seq(Closes)
          /\ acct' \in [Symbols -> Nat] /\ UNCHANGED tierB /\ DOMAIN book' = Symbols
          /\ \A s \in Symbols : book'[s] \in {0, book[s]}
      BY <1>u DEF Typed, BooksTyped
    <2>2. QED
      BY <1>1, <2>1, BooksFollow
  <1>6. LoopTyped'
    BY <1>u, <1>1, LotFacts, LoopStays DEF Typed
  <1>7. QED
    BY <1>u, <1>3, <1>4, <1>5, <1>6 DEF Typed

\* The quote of a request gives the price and the half.
LEMMA OpQuotedTyped ==
  ASSUME Typed, NEW r \in Slots, OpQuoted(r)
  PROVE  Typed' /\ PastGate' = PastGate
  <1> DEFINE t == op[r]
  <1>u. UNCHANGED <<risk, lots, book, journal, tierB, loop, acct, requests>>
    BY DEF OpQuoted
  <1>0. /\ t.at \in {"close_quote", "scale_quote"} /\ t.sym \in Symbols /\ t.now \in Nat
        /\ t.lot \in 0 .. Len(lots) /\ (t.at = "scale_quote" => t.lot \in 1 .. Len(lots))
    <2>1. RequestTyped(t, Len(lots)) /\ t.at \in {"close_quote", "scale_quote"}
      BY DEF OpQuoted, Typed, OpTyped
    <2> HIDE DEF t
    <2>2. QED
      BY <2>1, LotFacts DEF RequestTyped, Exiting, Typed
  <1>1. PICK price \in Marks(t.lot) :
          Goes(r, [at |-> IF t.at = "close_quote" THEN "closing" ELSE "scaling",
                   sym |-> t.sym, lot |-> t.lot, now |-> t.now, price |-> price,
                   half |-> IF t.lot = 0 THEN 0 ELSE Half(lots[t.lot].shares)])
    BY DEF OpQuoted
  <1>x. op[r].at \notin {"buying", "idle"}
    BY <1>0
  <1> HIDE DEF t
  <1>2. t.lot # 0 => lots[t.lot] \in LotRecords
    BY <1>0, LotFacts DEF Typed
  <1>3. price \in Int
    BY <1>2, DemoAssumption DEF Marks, DemoAssumption, LotRecords
  <1>4. t.at = "scale_quote" => t.lot # 0 /\ Half(lots[t.lot].shares) \in Nat \ {0}
    <2>1. SUFFICES ASSUME t.at = "scale_quote" PROVE t.lot # 0 /\ Half(lots[t.lot].shares) \in Nat \ {0}
      OBVIOUS
    <2>2. t.lot # 0
      BY <1>0, <2>1, LotFacts DEF Typed
    <2>3. lots[t.lot].shares \in Int
      BY <1>2, <2>2 DEF LotRecords
    <2>4. QED
      BY <2>2, <2>3, HalfFacts
  <1>5. PICK to : Goes(r, to) /\ to.at \in {"closing", "scaling"} /\ RequestTyped(to, Len(lots'))
    <2> DEFINE to == [at |-> IF t.at = "close_quote" THEN "closing" ELSE "scaling",
                      sym |-> t.sym, lot |-> t.lot, now |-> t.now, price |-> price,
                      half |-> IF t.lot = 0 THEN 0 ELSE Half(lots[t.lot].shares)]
    <2>1. /\ to.at = (IF t.at = "close_quote" THEN "closing" ELSE "scaling") /\ to.sym = t.sym
          /\ to.lot = t.lot /\ to.price = price /\ to.now = t.now
          /\ to.half = (IF t.lot = 0 THEN 0 ELSE Half(lots[t.lot].shares))
      OBVIOUS
    <2>2. Goes(r, to)
      BY <1>1
    <2> HIDE DEF to
    <2>3. CASE t.at = "close_quote"
      BY <1>u, <1>0, <1>3, <2>1, <2>2, <2>3 DEF RequestTyped
    <2>4. CASE t.at = "scale_quote"
      BY <1>u, <1>0, <1>3, <1>4, <2>1, <2>2, <2>4 DEF RequestTyped
    <2>5. QED
      BY <1>0, <2>3, <2>4
  <1>6. OpTyped'
    BY <1>u, <1>x, <1>5, LotFacts, OpGoes DEF Typed
  <1>7. PastGate' = PastGate
    BY <1>u, <1>x, <1>5, RequestOrders, PastGateNumbers DEF Typed
  <1>8. Typed'
    BY <1>u, <1>6, OpWaitsTyped DEF Typed, BooksTyped
  <1>9. QED
    BY <1>7, <1>8

\* The settings, the halts and the scan of the operator.
LEMMA SettingsTyped ==
  ASSUME Typed, NEW r \in Slots,
         HaltDay(r) \/ PauseOrResume(r) \/ ManualScan(r) \/ SetOverride(r) \/ AskFlatten(r)
  PROVE  /\ Typed' /\ risk' \in {risk, Halt(risk)}
         /\ HaltsTo(risk') /\ PastGate' = PastGate
  <1>u. UNCHANGED <<lots, book, journal, loop, acct>>
    BY DEF HaltDay, PauseOrResume, ManualScan, SetOverride, AskFlatten
  <1>0. op[r] = Idle /\ r = requests + 1 /\ Served
    BY AskedIdle DEF HaltDay, PauseOrResume, ManualScan, SetOverride, AskFlatten, Typed
  <1>1. risk' \in {risk, Halt(risk)} /\ HaltsTo(risk')
    <2>1. CASE HaltDay(r)
      BY <2>1 DEF HaltDay, HaltsTo
    <2>2. CASE AskFlatten(r)
      BY <2>2 DEF AskFlatten, HaltsTo
    <2>3. CASE PauseOrResume(r) \/ ManualScan(r) \/ SetOverride(r)
      BY <2>3 DEF PauseOrResume, ManualScan, SetOverride, HaltsTo, history
    <2>4. QED
      BY <2>1, <2>2, <2>3
  <1>2. risk' \in RiskRecords
    BY <1>1, HaltFacts DEF Typed, BooksTyped
  <1>3. tierB' \subseteq Symbols
    BY ScanTyped DEF HaltDay, PauseOrResume, ManualScan, SetOverride, AskFlatten, Typed, BooksTyped
  <1>n. Len(lots') \in Nat /\ Len(lots') >= Len(lots)
    BY <1>u, LotFacts DEF Typed
  <1>4. OpTyped' /\ PastGate' = PastGate
    <2>1. CASE UNCHANGED op
      BY <1>u, <1>0, <1>n, <2>1, OpServed, NothingMoves
    <2>2. CASE AskFlatten(r)
      <3>1. PICK kind : Goes(r, [at |-> "flattening", kill |-> kind = "kill"])
        BY <2>2 DEF AskFlatten
      <3> DEFINE to == [at |-> "flattening", kill |-> kind = "kill"]
      <3>2. to.at = "flattening" /\ Goes(r, to)
        BY <3>1
      <3> HIDE DEF to
      <3>3. RequestTyped(to, Len(lots'))
        BY <3>2 DEF RequestTyped, Exiting
      <3>4. OpTyped'
        BY <1>0, <1>n, <3>2, <3>3, OpGoes DEF Served
      <3>5. QED
        BY <1>u, <1>0, <3>2, <3>4, RequestOrders, PastGateNumbers DEF Typed, Idle
    <2>3. QED
      BY <2>1, <2>2 DEF HaltDay, PauseOrResume, ManualScan, SetOverride
  <1>5. Typed'
    BY <1>u, <1>2, <1>3, <1>4, OpWaitsTyped
  <1>6. QED
    BY <1>1, <1>4, <1>5

\* The operator's scale-out and full close.
LEMMA OpSoldTyped ==
  ASSUME Typed, NEW r \in Slots, OpScaledOut(r) \/ OpClosedOut(r)
  PROVE  /\ Typed' /\ risk'.halted = risk.halted
         /\ PastGate' = PastGate
  <1> DEFINE t == op[r]
  <1>0. /\ t.at \in {"scaling", "closing"} /\ t.sym \in Symbols /\ t.price \in Int /\ t.now \in Nat
        /\ t.lot \in 0 .. Len(lots)
        /\ t.at = "scaling" => t.lot \in 1 .. Len(lots) /\ t.half \in Nat \ {0}
    <2>1. RequestTyped(t, Len(lots)) /\ t.at \in {"scaling", "closing"}
      BY DEF OpScaledOut, OpClosedOut, Typed, OpTyped
    <2> HIDE DEF t
    <2>2. QED
      BY <2>1, LotFacts DEF RequestTyped, Exiting, Typed
  <1>1. UNCHANGED <<tierB, loop, requests>> /\ Goes(r, Idle) /\ t.at \notin {"buying", "idle"}
    BY <1>0 DEF OpScaledOut, OpClosedOut, Ends
  <1>2. PastGate' = PastGate
    BY <1>1, RequestOrders, PastGateNumbers DEF Typed, Idle
  <1>3. BooksTyped' /\ Len(lots') = Len(lots) /\ risk'.halted = risk.halted
    <2>1. CASE OpScaledOut(r)
      <3>1. t.at = "scaling" /\ ScaledOut(t) /\ UNCHANGED book
        BY <2>1 DEF OpScaledOut
      <3> HIDE DEF t
      <3>2. QED
        BY <1>0, <1>1, <3>1, ScaledOutTyped
    <2>2. CASE OpClosedOut(r) /\ t.lot # 0
      <3>1. t.lot \in 1 .. Len(lots) /\ ClosedOut(t)
        BY <1>0, <2>2, LotFacts DEF OpClosedOut, Typed
      <3> HIDE DEF t
      <3>2. QED
        BY <1>0, <1>1, <3>1, ClosedOutTyped
    <2>3. CASE OpClosedOut(r) /\ t.lot = 0
      <3>1. /\ UNCHANGED <<lots, book, journal, risk>>
            /\ \E accepted \in Answers("sell") : Sell(t.sym, acct[t.sym], accepted)
        BY <2>3 DEF OpClosedOut
      <3> HIDE DEF t
      <3>2. acct' \in [Symbols -> Nat]
        <4>1. BooksTyped /\ acct[t.sym] \in Int
          BY <1>0 DEF Typed, BooksTyped
        <4>2. QED
          BY <1>0, <3>1, <4>1, AccountTyped
      <3>3. QED
        BY <1>1, <3>1, <3>2, BooksFollow DEF Typed, BooksTyped
    <2>4. QED
      BY <2>1, <2>2, <2>3
  <1>4. OpTyped'
    <2>1. Len(lots') \in Nat /\ Len(lots') >= Len(lots)
      BY <1>3, LotFacts DEF Typed
    <2>2. RequestTyped(Idle, Len(lots'))
      BY DEF RequestTyped, Idle, Exiting
    <2>3. QED
      BY <1>1, <2>1, <2>2, OpGoes
  <1>5. LoopTyped'
    BY <1>1, <1>3, LotFacts, LoopStays DEF Typed
  <1>6. QED
    BY <1>2, <1>3, <1>4, <1>5 DEF Typed

\* A stop moved, at once or after the report of a suggested trade.
LEMMA StopMovedTyped ==
  ASSUME Typed, NEW s \in Symbols, book[s] # 0, NEW stop \in Int,
         lots' = [lots EXCEPT ![book[s]].stop = stop],
         UNCHANGED <<risk, book, journal, tierB, acct>>
  PROVE  BooksTyped' /\ Len(lots') = Len(lots)
  <1>1. book[s] \in 1 .. Len(lots)
    BY LotFacts DEF Typed, BooksTyped
  <1>2. PICK lot \in LotRecords : lots' = [lots EXCEPT ![book[s]] = lot] /\ lot.sym = lots[book[s]].sym
    BY <1>1, StoppedLot DEF Typed
  <1>3. /\ lots' \in Seq(LotRecords) /\ Len(lots') = Len(lots)
        /\ \A j \in 1 .. Len(lots) : lots'[j].sym = lots[j].sym
    BY <1>1, <1>2, LotsTyped
  <1>4. BooksTyped'
    BY <1>3, BooksFollow DEF Typed, BooksTyped
  <1>5. QED
    BY <1>3, <1>4

\* The two stop requests keep the types and touch no numbers of the day.
LEMMA StopTyped ==
  ASSUME Typed, NEW r \in Slots, MoveStop(r) \/ OpStopSet(r)
  PROVE  /\ Typed' /\ UNCHANGED risk
         /\ PastGate' = PastGate
  <1>u. UNCHANGED <<risk, book, journal, tierB, loop, acct>>
    BY DEF MoveStop, OpStopSet
  <1>1. PastGate' = PastGate
    <2>1. CASE MoveStop(r)
      BY <2>1, NothingMoves, PastGateNumbers DEF MoveStop
    <2>2. CASE OpStopSet(r)
      BY <2>2, RequestOrders, PastGateNumbers DEF OpStopSet, Ends, Idle, Typed
    <2>3. QED
      BY <2>1, <2>2
  <1>2. BooksTyped' /\ Len(lots') = Len(lots)
    <2>1. CASE MoveStop(r)
      <3>1. PICK s \in Symbols, price \in Quotes :
              book[s] # 0 /\ lots' = [lots EXCEPT ![book[s]].stop = price]
        BY <2>1 DEF MoveStop
      <3>2. price \in Int
        BY DemoAssumption DEF DemoAssumption
      <3>3. QED
        BY <1>u, <3>1, <3>2, StopMovedTyped
    <2>2. CASE OpStopSet(r) /\ book[op[r].sym] # 0
      <3>1. op[r].sym \in Symbols /\ op[r].stop \in Int
        BY <2>2 DEF OpStopSet, Typed, OpTyped, RequestTyped
      <3>2. lots' = [lots EXCEPT ![book[op[r].sym]].stop = op[r].stop]
        BY <2>2 DEF OpStopSet
      <3>3. QED
        BY <1>u, <2>2, <3>1, <3>2, StopMovedTyped
    <2>3. CASE OpStopSet(r) /\ book[op[r].sym] = 0
      <3>1. UNCHANGED lots
        BY <2>3 DEF OpStopSet
      <3>2. QED
        BY <1>u, <3>1, BooksStay DEF Typed, BooksTyped
    <2>4. QED
      BY <2>1, <2>2, <2>3
  <1>3. OpTyped'
    <2>1. Len(lots') \in Nat /\ Len(lots') >= Len(lots)
      BY <1>2, LotFacts DEF Typed
    <2>2. RequestTyped(Idle, Len(lots'))
      BY DEF RequestTyped, Idle, Exiting
    <2>3. CASE MoveStop(r)
      BY <2>1, <2>3, OpServed, AskedIdle DEF MoveStop, Typed
    <2>4. CASE OpStopSet(r)
      BY <2>1, <2>2, <2>4, OpGoes DEF OpStopSet, Ends
    <2>5. QED
      BY <2>3, <2>4
  <1>4. LoopTyped'
    BY <1>u, <1>2, LotFacts, LoopStays DEF Typed
  <1>5. QED
    BY <1>u, <1>1, <1>2, <1>3, <1>4 DEF Typed

\* An order of the operator is sent past an open gate.
LEMMA SendOpBuyTyped ==
  ASSUME Typed, NEW r \in Slots, r = requests + 1, op[r] = Idle,
         NEW s \in Symbols, NEW shares \in Int,
         NEW entry \in Int, NEW stop \in Int, NEW suggested \in Int,
         Open => shares \in 1 .. MaxPositionSize, SendOpBuy(r, s, shares, entry, stop, suggested)
  PROVE  /\ Typed' /\ risk' \in {risk, Halt(risk)} /\ HaltsTo(risk')
         /\ PastGate' = PastGate \/ (PastGate' = PastGate + 1 /\ Open)
  <1>u. UNCHANGED <<lots, book, journal, tierB, loop, acct>> /\ requests' = requests + 1
    BY DEF SendOpBuy, Served
  <1>1. risk' \in {risk, Halt(risk)} /\ risk' \in RiskRecords /\ HaltsTo(risk')
    BY HaltFacts DEF SendOpBuy, HaltsTo, HaltedByGate, Typed, BooksTyped
  <1>n. Len(lots') \in Nat /\ Len(lots') >= Len(lots)
    BY <1>u, LotFacts DEF Typed
  <1>2. /\ OpTyped'
        /\ PastGate' = PastGate \/ (PastGate' = PastGate + 1 /\ Open)
    <2>1. CASE ~Open
      <3>1. UNCHANGED op
        BY <2>1 DEF SendOpBuy
      <3>2. OpTyped'
        BY <1>u, <1>n, <3>1, OpServed DEF Served
      <3>3. QED
        BY <1>u, <3>1, <3>2, NothingMoves, PastGateNumbers
    <2>2. CASE Open
      <3> DEFINE to == [at |-> "buying", sym |-> s, shares |-> shares, entry |-> entry,
                        stop |-> stop, suggested |-> suggested]
      <3>1. Goes(r, to) /\ to.at = "buying"
        BY <2>2 DEF SendOpBuy
      <3>2. RequestTyped(to, Len(lots'))
        BY <2>2 DEF RequestTyped, Exiting
      <3> HIDE DEF to
      <3>3. OpTyped'
        BY <1>u, <1>n, <3>1, <3>2, OpGoes
      <3>4. PastGate' = PastGate + 1
        BY <1>u, <3>1, RequestOrders, PastGateNumbers DEF Typed, Idle
      <3>5. QED
        BY <2>2, <3>3, <3>4, PastGateNumbers
    <2>3. QED
      BY <2>1, <2>2
  <1>5. BooksTyped'
    BY <1>u, <1>1 DEF Typed, BooksTyped
  <1>6. LoopTyped'
    BY <1>u, LotFacts, LoopStays DEF Typed
  <1>7. QED
    BY <1>1, <1>2, <1>5, <1>6 DEF Typed

\* A manual buy keeps the types; its order goes out only past an open gate.
LEMMA OpBuyTyped ==
  ASSUME Typed, NEW r \in Slots, ManualBuy(r) \/ ManualTrade(r)
  PROVE  \/ UNCHANGED vars
         \/ /\ Typed' /\ risk' \in {risk, Halt(risk)} /\ HaltsTo(risk')
            /\ UNCHANGED <<lots, late, loop>>
            /\ PastGate' = PastGate \/ (PastGate' = PastGate + 1 /\ Open)
  <1>0. r = requests + 1 /\ op[r] = Idle
    BY AskedIdle DEF ManualBuy, ManualTrade, Typed
  <1>m. MaxPositionSize \in Nat \ {0}
    BY DemoRulesAssumption DEF DemoRulesAssumption
  <1>1. CASE ManualBuy(r)
    <2>1. PICK s \in Symbols, qty \in ManualSizes, limit \in Quotes :
            SendOpBuy(r, s, Min({qty, MaxPositionSize}), limit, limit - 20, 0)
      BY <1>1 DEF ManualBuy
    <2>2. qty \in Nat \ {0} /\ limit \in Int
      BY DemoAssumption DEF DemoAssumption
    <2>3. Min({qty, MaxPositionSize}) \in 1 .. MaxPositionSize
      BY <1>m, <2>2, MinOfTwo
    <2>4. UNCHANGED <<lots, late, loop>>
      BY <2>1 DEF SendOpBuy
    <2> HIDE DEF Open
    <2>5. limit - 20 \in Int /\ Min({qty, MaxPositionSize}) \in Int
      BY <1>m, <2>2, <2>3
    <2>6. QED
      BY <1>0, <2>1, <2>2, <2>3, <2>4, <2>5, SendOpBuyTyped
  <1>2. CASE ManualTrade(r)
    <2>1. PICK s \in Symbols, most \in ManualSizes, entry \in Quotes, stop \in Quotes :
            LET sized == Min({most, Sized(risk.pnl, entry, stop)})
            IN  IF sized > 0 \/ ~Open THEN SendOpBuy(r, s, sized, entry + 5, entry - 15, stop)
                ELSE UNCHANGED vars
      BY <1>2 DEF ManualTrade
    <2> DEFINE sized == Min({most, Sized(risk.pnl, entry, stop)})
    <2>2. most \in Nat \ {0} /\ entry \in Int /\ stop \in Int
      BY DemoAssumption DEF DemoAssumption
    <2>3. Sized(risk.pnl, entry, stop) \in Int /\ Sized(risk.pnl, entry, stop) <= MaxPositionSize
      <3>1. risk.pnl \in Int
        BY DEF Typed, BooksTyped, RiskRecords
      <3>2. QED
        BY <2>2, <3>1, SizedFacts
    <2>4. sized \in Int /\ sized <= MaxPositionSize
      BY <1>m, <2>2, <2>3, MinOfTwo
    <2>5. CASE sized > 0 \/ ~Open
      <3>1. SendOpBuy(r, s, sized, entry + 5, entry - 15, stop)
        BY <2>1, <2>5
      <3> HIDE DEF sized
      <3>2. UNCHANGED <<lots, late, loop>>
        BY <3>1 DEF SendOpBuy
      <3>3. Open => sized \in 1 .. MaxPositionSize
        BY <1>m, <2>4, <2>5
      <3>4. entry + 5 \in Int /\ entry - 15 \in Int
        BY <2>2
      <3>5. QED
        BY <1>0, <2>2, <2>4, <3>1, <3>2, <3>3, <3>4, SendOpBuyTyped
    <2>6. CASE ~(sized > 0 \/ ~Open)
      BY <2>1, <2>6
    <2>7. QED
      BY <2>5, <2>6
  <1>3. QED
    BY <1>1, <1>2

\* The answer to an order of the operator.
LEMMA OpBuyAnsweredTyped ==
  ASSUME Typed, NEW r \in Slots, OpBuyAnswered(r)
  PROVE  Typed' /\ PastGate' = PastGate - 1
  <1> DEFINE t == op[r]
  <1>0. /\ t.at = "buying" /\ t.sym \in Symbols /\ t.shares \in 1 .. MaxPositionSize
        /\ t.entry \in Int /\ t.stop \in Int /\ t.suggested \in Int
    <2>1. RequestTyped(t, Len(lots)) /\ t.at = "buying"
      BY DEF OpBuyAnswered, Typed, OpTyped
    <2> HIDE DEF t
    <2>2. QED
      BY <2>1 DEF RequestTyped
  <1>u. UNCHANGED <<journal, tierB, loop, requests>>
    BY DEF OpBuyAnswered
  <1>1. PICK to \in {Idle, [at |-> "stopping", sym |-> t.sym, stop |-> t.suggested]} : Goes(r, to)
    BY DEF OpBuyAnswered, Ends
  <1>2. to.at # "buying" /\ \A n : RequestTyped(to, n)
    BY <1>0 DEF RequestTyped, Idle, Exiting
  <1>x. op[r].at = "buying"
    BY <1>0
  <1>3. PastGate' = PastGate - 1
    BY <1>u, <1>x, <1>1, <1>2, RequestOrders, PastGateNumbers DEF Typed
  <1>4. BooksTyped' /\ Len(lots') >= Len(lots) /\ Len(lots') \in Nat
    <2>0. Len(lots) \in Nat
      BY LotFacts DEF Typed
    <2>1. CASE Track(t.sym, t.shares, t.entry, t.stop)
      <3> HIDE DEF t
      <3>1. BooksTyped' /\ Len(lots') = Len(lots) + 1
        BY <1>0, <1>u, <2>1, TrackTyped
      <3>2. QED
        BY <2>0, <3>1
    <2>2. CASE UNCHANGED <<lots, book, acct, risk, late>>
      <3>1. BooksTyped'
        BY <1>u, <2>2, BooksStay DEF Typed, BooksTyped
      <3>2. QED
        BY <2>0, <2>2, <3>1
    <2>3. QED
      BY <2>1, <2>2 DEF OpBuyAnswered
  <1>5. LoopTyped'
    BY <1>4, <1>u, LoopStays
  <1>6. OpTyped'
    BY <1>u, <1>x, <1>1, <1>2, <1>4, OpGoes
  <1>7. QED
    BY <1>3, <1>4, <1>5, <1>6 DEF Typed

\* A manual sale, and the close of everything.
LEMMA OpEndsTyped ==
  ASSUME Typed, NEW r \in Slots, OpSellAnswered(r) \/ Flattened(r)
  PROVE  Typed' /\ UNCHANGED risk /\ PastGate' = PastGate
  <1>0. op[r].at \in {"selling", "flattening"}
    BY DEF OpSellAnswered, Flattened
  <1>u. UNCHANGED <<risk, lots, journal, tierB, loop, requests>> /\ Goes(r, Idle)
    BY DEF OpSellAnswered, Flattened, Ends
  <1>1. PastGate' = PastGate
    BY <1>0, <1>u, RequestOrders, PastGateNumbers DEF Typed, Idle
  <1>2. acct' \in [Symbols -> Nat]
    <2>1. CASE OpSellAnswered(r)
      <3>1. op[r].sym \in Symbols /\ op[r].qty \in Int
        BY <2>1 DEF OpSellAnswered, Typed, OpTyped, RequestTyped
      <3>2. \E accepted \in Answers("sell") : Sell(op[r].sym, op[r].qty, accepted)
        BY <2>1 DEF OpSellAnswered
      <3>3. QED
        BY <3>1, <3>2, AccountTyped DEF Typed
    <2>2. CASE Flattened(r)
      BY <2>2 DEF Flattened, CloseAll, Typed, BooksTyped
    <2>3. QED
      BY <2>1, <2>2
  <1>3. book' \in [Symbols -> 0 .. Len(lots)] /\ \A s \in Symbols : book'[s] \in {0, book[s]}
    <2>1. CASE OpSellAnswered(r)
      BY <2>1 DEF OpSellAnswered, Typed, BooksTyped
    <2>2. CASE Flattened(r)
      <3>1. 0 \in 0 .. Len(lots) /\ book' = [s \in Symbols |-> 0]
        BY <2>2, LotFacts DEF Flattened, Typed
      <3>2. QED
        BY <3>1
    <2>3. QED
      BY <2>1, <2>2
  <1>4. BooksTyped'
    BY <1>u, <1>2, <1>3, BooksFollow DEF Typed, BooksTyped
  <1>5. LoopTyped'
    BY <1>u, LotFacts, LoopStays DEF Typed
  <1>6. OpTyped'
    <2>1. RequestTyped(Idle, Len(lots'))
      BY DEF RequestTyped, Idle, Exiting
    <2>2. QED
      BY <1>0, <1>u, <2>1, LotFacts, OpGoes DEF Typed
  <1>7. QED
    BY <1>u, <1>1, <1>4, <1>5, <1>6 DEF Typed

\* A step in which nothing happens keeps the types.
LEMMA StutterTyped ==
  ASSUME Typed, UNCHANGED vars
  PROVE  Typed'
  <1>1. risk' \in RiskRecords /\ tierB' \subseteq Symbols
    BY DEF vars, Typed, BooksTyped
  <1>2. OpTyped'
    BY LotFacts, OpStays DEF vars, Typed
  <1>3. UNCHANGED <<lots, book, journal, acct, loop>>
    BY DEF vars
  <1>4. QED
    BY <1>1, <1>2, <1>3, OpWaitsTyped

\* The requests keep the types, and so does every step.
LEMMA TypedNext == Typed /\ [Next]_vars => Typed'
  <1>1. ASSUME Typed, OpNext PROVE Typed'
    <2>1. PICK r \in Slots :
            \/ AskClose(r) \/ AskScale(r) \/ OpQuoted(r) \/ OpScaledOut(r) \/ OpClosedOut(r)
            \/ MoveStop(r) \/ ManualBuy(r) \/ ManualTrade(r) \/ OpBuyAnswered(r) \/ OpStopSet(r)
            \/ ManualSell(r) \/ OpSellAnswered(r) \/ AskFlatten(r) \/ Flattened(r) \/ HaltDay(r)
            \/ PauseOrResume(r) \/ ManualScan(r) \/ SetOverride(r)
      BY <1>1 DEF OpNext
    <2>2. QED
      BY <1>1, <2>1, AskedTyped, OpQuotedTyped, SettingsTyped, OpSoldTyped, StopTyped, OpBuyTyped,
         OpBuyAnsweredTyped, OpEndsTyped, StutterTyped
  <1>2. QED
    BY <1>1, StutterTyped, LoopTypedNext DEF Next

\* The types of the run's invariant.
LEMMA TypedMeansTypeOK == Typed => TypeOK
  <1> SUFFICES ASSUME Typed PROVE TypeOK
    OBVIOUS
  <1>1. /\ {risk.peak, risk.streak, risk.trades, risk.wins, risk.losses} \subseteq Nat
        /\ risk.pnl \in Int /\ risk.halted \in BOOLEAN
    BY DEF Typed, BooksTyped, RiskRecords
  <1>2. \A i \in DOMAIN lots : lots[i].bought \in 1 .. MaxPositionSize
    BY LotFacts DEF Typed, LotRecords
  <1>3. loop.at \in {"idle", "scanned", "strategy", "data", "signalled", "buying", "exits",
                     "selling", "reporting"}
    BY DEF Typed, LoopTyped
  <1>4. \A r \in Slots : op[r].at \in {"idle", "close_quote", "closing", "scale_quote", "scaling",
                                       "buying", "stopping", "selling", "flattening"}
    BY DEF Typed, OpTyped, RequestTyped
  <1>5. QED
    BY <1>1, <1>2, <1>3, <1>4 DEF Typed, BooksTyped, TypeOK

\* The record, the books and the coroutines keep their types, and a tracked
\* symbol's position is one of that symbol: through every order, close, halt and
\* exception of DemoEngine (core/demo/engine.py), with requests of the operator
\* that overtake the loop and each other.
THEOREM DemoTypesHold == Spec => []TypeOK
  <1>1. Spec => []Typed
    BY TypedInit, TypedNext, PTL DEF Spec
  <1>2. QED
    BY <1>1, TypedMeansTypeOK, PTL

(***************************************************************************)
(* The halt and the orders that are past their gate.                       *)
(***************************************************************************)

\* Nothing is late before the halt; after it what is late and what may still be
\* are no more than the orders that were past their gate at the halt.
LateInv ==
  /\ late \in Nat /\ gated \in Nat
  /\ ~risk.halted => late = 0
  /\ risk.halted => late + PastGate <= gated

\* A new day starts with no late position.
LEMMA LateInit == Init => LateInv
  BY DEF Init, FreshRisk, LateInv

\* Positions and orders: an order less, or one that became a position.
LEMMA LateSums ==
  ASSUME NEW x \in Nat, NEW p \in Int, NEW q \in Int, NEW g \in Int
  PROVE  /\ x + p <= g /\ q <= p => x + q <= g
         /\ x + p <= g /\ q = p - 1 => x + q <= g /\ (x + 1) + q <= g
         /\ x = 0 /\ q <= p => x + q <= p
  OBVIOUS

\* A step that opens no position and, once the day is halted, sends no order.
LEMMA LateKept ==
  ASSUME Typed, LateInv, UNCHANGED late, HaltsTo(risk'),
         risk' \in {risk, Halt(risk)} \/ risk'.halted = risk.halted,
         risk'.halted => PastGate' <= PastGate
  PROVE  LateInv'
  <1>1. PastGate \in Nat /\ PastGate' \in Int /\ late \in Nat /\ gated \in Nat
    BY OrderingFinite, PastGateNumbers DEF LateInv
  <1>2. risk.halted \in BOOLEAN /\ risk'.halted \in BOOLEAN /\ (risk.halted => risk'.halted)
    BY HaltFacts DEF Typed, BooksTyped, RiskRecords
  <1>3. gated' = IF risk'.halted /\ ~risk.halted THEN PastGate ELSE gated
    BY DEF HaltsTo
  <1>4. CASE risk.halted
    <2>1. late + PastGate' <= gated
      <3>1. late + PastGate <= gated /\ PastGate' <= PastGate
        BY <1>2, <1>4 DEF LateInv
      <3>2. PastGate \in Int /\ gated \in Int
        BY <1>1
      <3>3. QED
        BY <1>1, <3>1, <3>2, LateSums
    <2>2. QED
      BY <1>1, <1>2, <1>3, <1>4, <2>1 DEF LateInv
  <1>5. CASE ~risk.halted
    <2>1. late' = 0 /\ gated' \in Nat
      BY <1>1, <1>3, <1>5 DEF LateInv
    <2>2. ASSUME risk'.halted PROVE late' + PastGate' <= gated'
      <3>1. gated' = PastGate /\ PastGate' <= PastGate
        BY <1>3, <1>5, <2>2
      <3>2. PastGate \in Int
        BY <1>1
      <3>3. late' + PastGate' <= PastGate
        BY <1>1, <2>1, <3>1, <3>2, LateSums
      <3>4. QED
        BY <3>1, <3>3
    <2>3. QED
      BY <2>1, <2>2 DEF LateInv
  <1>6. QED
    BY <1>4, <1>5

\* A position opened is late after the halt, and no longer past a gate.
LEMMA LateOpened ==
  ASSUME Typed, LateInv, PastGate' = PastGate - 1, UNCHANGED gated,
         \/ \E s, shares, entry, stop : Track(s, shares, entry, stop)
         \/ UNCHANGED <<lots, book, acct, risk, late>>
  PROVE  LateInv'
  <1>1. PastGate \in Nat /\ PastGate' \in Int /\ late \in Nat /\ gated \in Nat /\ risk \in RiskRecords
    BY OrderingFinite, PastGateNumbers DEF LateInv, Typed, BooksTyped
  <1>2. risk'.halted = risk.halted /\ late' \in {late, IF risk.halted THEN late + 1 ELSE late}
    <2>1. [risk EXCEPT !.trades = @ + 1].halted = risk.halted
      BY <1>1 DEF RiskRecords
    <2>2. QED
      BY <2>1 DEF Track
  <1>3. CASE risk.halted
    <2>1. late + PastGate <= gated /\ late' \in {late, late + 1} /\ risk'.halted
      BY <1>2, <1>3 DEF LateInv
    <2>2. late' \in Nat /\ late' + PastGate' <= gated
      <3>1. PastGate \in Int /\ gated \in Int /\ late \in Nat
        BY <1>1
      <3>2. late + PastGate' <= gated /\ (late + 1) + PastGate' <= gated
        BY <1>1, <2>1, <3>1, LateSums
      <3>3. CASE late' = late
        BY <3>1, <3>2, <3>3
      <3>4. CASE late' = late + 1
        BY <3>1, <3>2, <3>4
      <3>5. QED
        BY <2>1, <3>3, <3>4
    <2>3. QED
      BY <1>1, <2>1, <2>2 DEF LateInv
  <1>4. CASE ~risk.halted
    BY <1>1, <1>2, <1>4 DEF LateInv
  <1>5. QED
    BY <1>3, <1>4

\* A step of the loop keeps LateInv: its order was past the gate before the halt.
LEMMA LateLoop ==
  ASSUME Typed, LateInv, LoopNext
  PROVE  LateInv'
  <1>1. CASE StartIteration \/ StartStrategy \/ PickSymbol
    <2>1. UNCHANGED <<risk, late, gated, op>> /\ loop'.at \notin {"signalled", "buying"}
      BY <1>1 DEF StartIteration, StartStrategy, PickSymbol, Strategy, history
    <2>2. PastGate' <= PastGate /\ HaltsTo(risk')
      BY <2>1, LoopOrders, PastGateNumbers DEF HaltsTo
    <2>3. QED
      BY <2>1, <2>2, LateKept
  <1>2. CASE Decide
    <2>1. /\ risk' \in {risk, Halt(risk)} /\ loop'.at \in {"strategy", "signalled"}
          /\ loop'.at = "signalled" => Open /\ UNCHANGED <<risk, gated>>
          /\ HaltsTo(risk')
      BY <1>2, DecideTyped DEF HaltsTo
    <2>2. UNCHANGED <<late, op>> /\ loop.at = "data"
      BY <1>2 DEF Decide
    <2>3. Open => ~risk.halted
      BY DEF Open
    <2>4. risk'.halted => PastGate' <= PastGate
      BY <2>1, <2>2, <2>3, LoopOrders, PastGateNumbers
    <2>5. QED
      BY <2>1, <2>2, <2>4, LateKept
  <1>3. CASE SendBuy
    <2>1. UNCHANGED <<risk, late, gated, op>> /\ loop.at = "signalled"
      BY <1>3 DEF SendBuy, history
    <2>2. PastGate' <= PastGate /\ HaltsTo(risk')
      BY <2>1, LoopOrders, PastGateNumbers DEF HaltsTo
    <2>3. QED
      BY <2>1, <2>2, LateKept
  <1>4. CASE BuyAnswered
    <2>1. UNCHANGED <<op, gated>> /\ loop.at = "buying" /\ loop'.at = "strategy"
      BY <1>4 DEF BuyAnswered, Strategy
    <2>2. PastGate' = PastGate - 1
      BY <2>1, LoopOrders, PastGateNumbers
    <2>3. \/ \E s, shares, entry, stop : Track(s, shares, entry, stop)
          \/ UNCHANGED <<lots, book, acct, risk, late>>
      BY <1>4 DEF BuyAnswered
    <2>4. QED
      BY <2>1, <2>2, <2>3, LateOpened
  <1>5. CASE StartExits \/ Monitor \/ EndIteration
    <2>1. UNCHANGED <<risk, late, gated, op>> /\ loop'.at \in {"idle", "exits", "selling"}
      BY <1>5, MonitorTyped DEF StartExits, Monitor, EndIteration, history
    <2>2. PastGate' <= PastGate /\ HaltsTo(risk')
      BY <2>1, LoopOrders, PastGateNumbers DEF HaltsTo
    <2>3. QED
      BY <2>1, <2>2, LateKept
  <1>6. CASE LoopScaledOut \/ LoopClosedOut
    <2>1. UNCHANGED <<late, gated, op>> /\ loop.at = "selling"
      BY <1>6 DEF LoopScaledOut, LoopClosedOut, history
    <2>2. risk'.halted = risk.halted /\ loop'.at \in {"idle", "exits", "reporting"}
      BY <1>6, LoopSoldTyped
    <2>3. PastGate' <= PastGate /\ HaltsTo(risk')
      BY <2>1, <2>2, LoopOrders, PastGateNumbers DEF HaltsTo
    <2>4. QED
      BY <2>1, <2>2, <2>3, LateKept
  <1>7. CASE Reported
    <2>1. UNCHANGED <<late, op>> /\ loop.at = "reporting"
      BY <1>7 DEF Reported
    <2>2. loop'.at = "exits" /\ risk' \in {risk, Halt(risk)} /\ HaltsTo(risk')
      BY <1>7, ReportedTyped
    <2>3. PastGate' <= PastGate
      BY <2>1, <2>2, LoopOrders, PastGateNumbers
    <2>4. QED
      BY <2>1, <2>2, <2>3, LateKept
  <1>8. QED
    BY <1>1, <1>2, <1>3, <1>4, <1>5, <1>6, <1>7 DEF LoopNext

\* A step of the operator keeps LateInv, the requests that halt included.
LEMMA LateOp ==
  ASSUME Typed, LateInv, OpNext
  PROVE  LateInv'
  <1>0. PICK r \in Slots :
            \/ AskClose(r) \/ AskScale(r) \/ OpQuoted(r) \/ OpScaledOut(r) \/ OpClosedOut(r)
            \/ MoveStop(r) \/ ManualBuy(r) \/ ManualTrade(r) \/ OpBuyAnswered(r) \/ OpStopSet(r)
            \/ ManualSell(r) \/ OpSellAnswered(r) \/ AskFlatten(r) \/ Flattened(r) \/ HaltDay(r)
            \/ PauseOrResume(r) \/ ManualScan(r) \/ SetOverride(r)
    BY DEF OpNext
  <1>1. ASSUME UNCHANGED <<late, gated>>, PastGate' = PastGate, risk'.halted = risk.halted
        PROVE  LateInv'
    <2>1. HaltsTo(risk') /\ PastGate' <= PastGate
      BY <1>1, PastGateNumbers DEF HaltsTo
    <2>2. QED
      BY <1>1, <2>1, LateKept
  <1>2. CASE AskClose(r) \/ AskScale(r) \/ ManualSell(r)
    <2>1. UNCHANGED <<late, gated>>
      BY <1>2 DEF AskClose, AskScale, ManualSell, history
    <2>2. QED
      BY <1>1, <1>2, <2>1, AskedTyped
  <1>3. CASE OpQuoted(r)
    <2>1. UNCHANGED <<risk, late, gated>>
      BY <1>3 DEF OpQuoted, history
    <2>2. QED
      BY <1>1, <1>3, <2>1, OpQuotedTyped
  <1>4. CASE HaltDay(r) \/ PauseOrResume(r) \/ ManualScan(r) \/ SetOverride(r) \/ AskFlatten(r)
    <2>1. UNCHANGED late
      BY <1>4 DEF HaltDay, PauseOrResume, ManualScan, SetOverride, AskFlatten, history
    <2>2. risk' \in {risk, Halt(risk)} /\ HaltsTo(risk') /\ PastGate' = PastGate
      BY <1>4, SettingsTyped
    <2>3. QED
      BY <2>1, <2>2, PastGateNumbers, LateKept
  <1>5. CASE OpScaledOut(r) \/ OpClosedOut(r)
    <2>1. UNCHANGED <<late, gated>>
      BY <1>5 DEF OpScaledOut, OpClosedOut, history
    <2>2. QED
      BY <1>1, <1>5, <2>1, OpSoldTyped
  <1>6. CASE MoveStop(r) \/ OpStopSet(r)
    <2>1. UNCHANGED <<late, gated>>
      BY <1>6 DEF MoveStop, OpStopSet, history
    <2>2. QED
      BY <1>1, <1>6, <2>1, StopTyped
  <1>7. CASE ManualBuy(r) \/ ManualTrade(r)
    <2>1. CASE UNCHANGED vars
      BY <1>1, <2>1, NothingMoves DEF vars
    <2>2. CASE ~UNCHANGED vars
      <3>1. /\ risk' \in {risk, Halt(risk)} /\ HaltsTo(risk') /\ UNCHANGED <<lots, late, loop>>
            /\ PastGate' = PastGate \/ (PastGate' = PastGate + 1 /\ Open)
        BY <1>7, <2>2, OpBuyTyped
      <3>2. CASE PastGate' = PastGate
        BY <3>1, <3>2, PastGateNumbers, LateKept
      <3>3. CASE Open
        <4>1. ~risk'.halted
          BY <1>7, <2>2, <3>3 DEF ManualBuy, ManualTrade, SendOpBuy, HaltsTo, HaltedByGate, Open
        <4>2. QED
          BY <3>1, <4>1, LateKept
      <3>4. QED
        BY <3>1, <3>2, <3>3
    <2>3. QED
      BY <2>1, <2>2
  <1>8. CASE OpBuyAnswered(r)
    <2>1. PastGate' = PastGate - 1 /\ UNCHANGED gated
      BY <1>8, OpBuyAnsweredTyped DEF OpBuyAnswered
    <2>2. \/ \E s, shares, entry, stop : Track(s, shares, entry, stop)
          \/ UNCHANGED <<lots, book, acct, risk, late>>
      BY <1>8 DEF OpBuyAnswered
    <2>3. QED
      BY <2>1, <2>2, LateOpened
  <1>9. CASE OpSellAnswered(r) \/ Flattened(r)
    <2>1. UNCHANGED <<late, gated>>
      BY <1>9 DEF OpSellAnswered, Flattened, history
    <2>2. QED
      BY <1>1, <1>9, <2>1, OpEndsTyped
  <1>10. QED
    BY <1>0, <1>2, <1>3, <1>4, <1>5, <1>6, <1>7, <1>8, <1>9

\* Whoever halts the day, the gate, an exit, the operator or the kill switch, and
\* whatever requests of the operator are in flight together with the loop's order:
\* the positions opened after it are no more than the orders that were past their
\* gate at that moment (_run_strategy, the orders of the operator).
THEOREM OnlyGatedAfterTheHalt == Spec => []OnlyGatedOrdersAfterHalt
  <1>1. Typed /\ LateInv /\ [Next]_vars => LateInv'
    <2>1. ASSUME LateInv, UNCHANGED vars PROVE LateInv'
      <3>1. PastGate' = PastGate /\ UNCHANGED <<risk, late, gated>>
        BY <2>1, NothingMoves DEF vars
      <3>2. QED
        BY <2>1, <3>1 DEF LateInv
    <2>2. QED
      BY <2>1, LateLoop, LateOp DEF Next
  <1>2. Typed /\ LateInv => OnlyGatedOrdersAfterHalt
    <2>1. SUFFICES ASSUME Typed, LateInv PROVE late <= gated
      BY DEF OnlyGatedOrdersAfterHalt
    <2>2. late \in Nat /\ gated \in Nat /\ risk.halted \in BOOLEAN /\ PastGate \in Nat
      BY <2>1, OrderingFinite DEF LateInv, Typed, BooksTyped, RiskRecords
    <2>3. QED
      BY <2>1, <2>2 DEF LateInv
  <1>3. QED
    BY TypedInit, TypedNext, LateInit, <1>1, <1>2, PTL DEF Spec

(***************************************************************************)
(* The day's numbers and the journal.                                      *)
(***************************************************************************)

\* The results of the journal are a sequence of numbers, and grow with it.
LEMMA PnlsFacts ==
  ASSUME NEW j \in Seq(Closes), NEW c \in Closes
  PROVE  /\ Pnls(j) \in Seq(Int) /\ Len(Pnls(j)) = Len(j) /\ Len(j) \in Nat
         /\ DOMAIN j = 1 .. Len(j)
         /\ Append(j, c) \in Seq(Closes) /\ Len(Append(j, c)) = Len(j) + 1
         /\ DOMAIN Append(j, c) = 1 .. (Len(j) + 1)
         /\ \A i \in 1 .. Len(j) : Append(j, c)[i] = j[i] /\ j[i].pnl \in Int
         /\ Append(j, c)[Len(j) + 1] = c /\ c.pnl \in Int
         /\ Pnls(Append(j, c)) = Append(Pnls(j), c.pnl)
  <1> DEFINE n == Len(j)
             longer == Append(j, c)
  <1>1. n \in Nat /\ DOMAIN j = 1 .. n /\ \A i \in 1 .. n : j[i] \in Closes
    BY LenProperties, ElementOfSeq
  <1>2. /\ longer \in Seq(Closes) /\ Len(longer) = n + 1 /\ DOMAIN longer = 1 .. (n + 1)
        /\ longer[n + 1] = c /\ \A i \in 1 .. n : longer[i] = j[i]
    BY AppendProperties, LenProperties
  <1>3. c.pnl \in Int /\ \A i \in 1 .. n : j[i].pnl \in Int
    BY <1>1 DEF Closes
  <1> DEFINE p == Pnls(j)
  <1>4. p = [i \in 1 .. n |-> j[i].pnl]
    BY <1>1 DEF Pnls
  <1>5. p \in Seq(Int) /\ Len(p) = n
    <2>1. \A i \in 1 .. n : p[i] \in Int
      BY <1>3, <1>4
    <2> HIDE DEF p, n
    <2>2. p \in [1 .. n -> Int]
      BY <1>4, <2>1
    <2>3. QED
      BY <1>1, <2>2, LenProperties
  <1> DEFINE q == Append(p, c.pnl)
  <1>6. /\ Len(q) = n + 1 /\ q \in Seq(Int) /\ DOMAIN q = 1 .. (n + 1)
        /\ q[n + 1] = c.pnl /\ \A i \in 1 .. n : q[i] = p[i]
    <2> HIDE DEF p, n
    <2> QED BY <1>3, <1>5, AppendProperties, LenProperties
  <1>7. Pnls(longer) = [i \in 1 .. (n + 1) |-> longer[i].pnl]
    BY <1>2 DEF Pnls
  <1>8. Pnls(longer) = q
    <2>1. q = [i \in 1 .. (n + 1) |-> q[i]]
      <3> HIDE DEF q, n, p
      <3> QED BY <1>6, LenProperties
    <2>2. ASSUME NEW i \in 1 .. (n + 1) PROVE q[i] = longer[i].pnl
      <3>1. i \in 1 .. n \/ i = n + 1
        BY <1>1
      <3>2. CASE i \in 1 .. n
        <4>1. q[i] = p[i] /\ p[i] = j[i].pnl /\ longer[i] = j[i]
          BY <1>2, <1>4, <1>6, <3>2
        <4>2. QED
          BY <4>1
      <3>3. CASE i = n + 1
        BY <1>2, <1>6, <3>3
      <3>4. QED
        BY <3>1, <3>2, <3>3
    <2> HIDE DEF q, n, longer
    <2>3. QED
      BY <1>7, <2>1, <2>2
  <1>9. QED
    BY <1>1, <1>2, <1>3, <1>5, <1>8

\* A prefix stays what it was when the sequence grows, and so does its sum.
LEMMA PrefixFacts ==
  ASSUME NEW seq \in Seq(Int), NEW x \in Int
  PROVE  /\ \A i \in 1 .. Len(seq) : /\ SubSeq(Append(seq, x), 1, i) = SubSeq(seq, 1, i)
                                     /\ SumOf(SubSeq(seq, 1, i)) \in Int
         /\ SumOf(SubSeq(Append(seq, x), 1, Len(seq) + 1)) = SumOf(seq) + x
         /\ SumOf(seq) \in Int
  <1> DEFINE n == Len(seq)
             longer == Append(seq, x)
  <1>1. /\ n \in Nat /\ longer \in Seq(Int) /\ Len(longer) = n + 1 /\ longer[n + 1] = x
        /\ \A i \in 1 .. n : longer[i] = seq[i] /\ seq[i] \in Int
    BY LenProperties, AppendProperties, ElementOfSeq
  <1>s. \A t : SumOf(t) = Total(t)
    BY DEF SumOf, Total
  <1>2. ASSUME NEW i \in 1 .. n
        PROVE  SubSeq(longer, 1, i) = SubSeq(seq, 1, i) /\ SumOf(SubSeq(seq, 1, i)) \in Int
    <2>1. i \in 0 .. Len(seq) /\ i \in 0 .. Len(longer) /\ 1 .. i \subseteq 1 .. n
      BY <1>1
    <2>2. SubSeq(longer, 1, i) = Restrict(longer, 1 .. i)
      <3> HIDE DEF longer
      <3> QED BY <1>1, <2>1, SubSeqRestrict
    <2>3. SubSeq(seq, 1, i) = Restrict(seq, 1 .. i)
      BY <2>1, SubSeqRestrict
    <2>4. Restrict(longer, 1 .. i) = Restrict(seq, 1 .. i)
      <3> HIDE DEF longer, n
      <3> QED BY <1>1, <2>1 DEF Restrict
    <2>5. SubSeq(seq, 1, i) \in Seq(Int)
      <3>1. \A k \in 1 .. i : seq[k] \in Int
        <4> HIDE DEF n
        <4> QED BY <1>1, <2>1
      <3>2. i \in Int
        BY <1>1
      <3>3. QED
        BY <3>1, <3>2, SubSeqProperties
    <2>6. SumOf(SubSeq(seq, 1, i)) \in Int
      <3> DEFINE t == SubSeq(seq, 1, i)
      <3>1. t \in Seq(Int)
        BY <2>5
      <3> HIDE DEF t
      <3>2. Total(t) \in Int
        BY <3>1, TotalAppend
      <3>3. QED
        BY <1>s, <3>2 DEF t
    <2>7. QED
      BY <2>2, <2>3, <2>4, <2>6
  <1>3. SubSeq(longer, 1, n + 1) = longer
    <2> HIDE DEF longer, n
    <2> QED BY <1>1, SubSeqFull
  <1>4. SumOf(longer) = SumOf(seq) + x /\ SumOf(seq) \in Int
    BY <1>s, TotalAppend
  <1>5. QED
    BY <1>2, <1>3, <1>4

\* What the record tells of the journal: the sum, the highest running sum so
\* far, the wins, the losses, and the place of the last win.
Won(j) == {i \in 1 .. Len(j) : j[i].pnl > 0}
Reached(j) == {0} \cup {RunningPnl(j)[i] : i \in 1 .. Len(j)}
LastWin(j) == {0} \cup Won(j)

Told(r, j) ==
  /\ r.pnl = SumOf(Pnls(j))
  /\ r.peak \in Reached(j) /\ \A y \in Reached(j) : r.peak >= y
  /\ r.wins = Cardinality(Won(j)) /\ r.losses = Len(j) - r.wins
  /\ Len(j) - r.streak \in LastWin(j) /\ \A y \in LastWin(j) : Len(j) - r.streak >= y

\* The day begins with an empty journal.
LEMMA ToldFresh == Told(FreshRisk, <<>>)
  <1>1. Won(<<>>) = {} /\ Reached(<<>>) = {0} /\ LastWin(<<>>) = {0}
    BY DEF Won, Reached, LastWin
  <1>2. SumOf(Pnls(<<>>)) = 0
    <2>1. Pnls(<<>>) = <<>>
      BY DEF Pnls
    <2>2. QED
      BY <2>1, TotalEmpty DEF SumOf, Total
  <1>3. Cardinality({}) = 0
    BY FS_EmptySet
  <1>4. /\ FreshRisk.pnl = 0 /\ FreshRisk.peak = 0 /\ FreshRisk.wins = 0
        /\ FreshRisk.losses = 0 /\ FreshRisk.streak = 0
    BY DEF FreshRisk
  <1>5. Len(<<>>) = 0
    OBVIOUS
  <1>6. Len(<<>>) - FreshRisk.streak = 0 /\ Len(<<>>) - FreshRisk.wins = 0
    BY <1>4, <1>5
  <1>7. \A y \in {0} : 0 >= y
    OBVIOUS
  <1>8. /\ FreshRisk.peak \in Reached(<<>>) /\ \A y \in Reached(<<>>) : FreshRisk.peak >= y
    BY <1>1, <1>4, <1>7
  <1>9. /\ Len(<<>>) - FreshRisk.streak \in LastWin(<<>>)
        /\ \A y \in LastWin(<<>>) : Len(<<>>) - FreshRisk.streak >= y
    BY <1>1, <1>6, <1>7
  <1>10. FreshRisk.wins = Cardinality(Won(<<>>)) /\ FreshRisk.losses = Len(<<>>) - FreshRisk.wins
    BY <1>1, <1>3, <1>4, <1>6
  <1>11. QED
    BY <1>2, <1>4, <1>8, <1>9, <1>10 DEF Told

\* A close more: the sum and its peak, the wins and the losses, the streak.
LEMMA ToldClose ==
  ASSUME NEW r \in RiskRecords, NEW j \in Seq(Closes), NEW c \in Closes, Told(r, j)
  PROVE  Told(RecordClose(r, c.pnl), Append(j, c))
  <1> DEFINE n == Len(j)
             longer == Append(j, c)
             s == RecordClose(r, c.pnl)
             sum == SumOf(Pnls(j)) + c.pnl
  <1>1. /\ n \in Nat /\ DOMAIN j = 1 .. n /\ c.pnl \in Int /\ Pnls(j) \in Seq(Int)
        /\ Len(Pnls(j)) = n /\ Len(longer) = n + 1 /\ DOMAIN longer = 1 .. (n + 1)
        /\ longer[n + 1] = c /\ Pnls(longer) = Append(Pnls(j), c.pnl)
        /\ \A i \in 1 .. n : longer[i] = j[i] /\ j[i].pnl \in Int
    BY PnlsFacts
  <1>2. /\ r.pnl \in Int /\ r.peak \in Nat /\ r.wins \in Nat /\ r.losses \in Nat
        /\ r.streak \in Nat
    BY DEF RiskRecords
  <1>3. /\ s.pnl = r.pnl + c.pnl /\ s.peak = Max({r.peak, r.pnl + c.pnl})
        /\ s.wins = r.wins + (IF c.pnl > 0 THEN 1 ELSE 0)
        /\ s.losses = r.losses + (IF c.pnl > 0 THEN 0 ELSE 1)
        /\ s.streak = IF c.pnl > 0 THEN 0 ELSE r.streak + 1
    BY <1>1, CloseFacts
  <1>t. Told(r, j)
    OBVIOUS
  <1> HIDE DEF s, longer
  <1>4. /\ SumOf(Pnls(longer)) = sum
        /\ \A i \in 1 .. n : /\ RunningPnl(longer)[i] = RunningPnl(j)[i]
                             /\ RunningPnl(j)[i] \in Int
        /\ RunningPnl(longer)[n + 1] = sum
    <2> DEFINE p == Pnls(j)
    <2>1. /\ \A i \in 1 .. n : /\ SubSeq(Append(p, c.pnl), 1, i) = SubSeq(p, 1, i)
                               /\ SumOf(SubSeq(p, 1, i)) \in Int
          /\ SumOf(SubSeq(Append(p, c.pnl), 1, n + 1)) = sum
      <3> HIDE DEF p, n
      <3> QED BY <1>1, PrefixFacts DEF p
    <2>2. /\ \A i \in 1 .. n : RunningPnl(j)[i] = SumOf(SubSeq(p, 1, i))
          /\ \A i \in 1 .. (n + 1) : RunningPnl(longer)[i] = SumOf(SubSeq(Append(p, c.pnl), 1, i))
      <3> HIDE DEF n
      <3> QED BY <1>1 DEF RunningPnl
    <2>3. \A i \in 1 .. n : i \in 1 .. (n + 1)
      BY <1>1
    <2>4. n + 1 \in 1 .. (n + 1)
      BY <1>1
    <2>5. SumOf(Append(p, c.pnl)) = sum
      <3>1. SubSeq(Append(p, c.pnl), 1, n + 1) = Append(p, c.pnl)
        <4> DEFINE q == Append(p, c.pnl)
        <4>1. q \in Seq(Int) /\ Len(q) = n + 1
          <5> HIDE DEF p, n
          <5> QED BY <1>1, AppendProperties DEF p
        <4> HIDE DEF q
        <4>2. SubSeq(q, 1, Len(q)) = q
          BY <4>1, SubSeqFull
        <4>3. QED
          BY <4>1, <4>2 DEF q
      <3>2. QED
        BY <2>1, <3>1
    <2>6. Pnls(longer) = Append(p, c.pnl)
      BY <1>1
    <2> HIDE DEF p, n, sum
    <2>7. \A i \in 1 .. n : /\ RunningPnl(longer)[i] = RunningPnl(j)[i]
                             /\ RunningPnl(j)[i] \in Int
      BY <2>1, <2>2, <2>3
    <2>8. RunningPnl(longer)[n + 1] = sum
      BY <2>1, <2>2, <2>4
    <2>9. SumOf(Pnls(longer)) = sum
      BY <2>5, <2>6
    <2>10. QED
      BY <2>7, <2>8, <2>9
  <1>5. s.pnl = SumOf(Pnls(longer))
    BY <1>3, <1>4, <1>t DEF Told
  <1>6. s.peak \in Reached(longer) /\ \A y \in Reached(longer) : s.peak >= y
    <2>1. Reached(longer) = Reached(j) \cup {sum}
      <3>1. 1 .. (n + 1) = 1 .. n \cup {n + 1}
        BY <1>1
      <3>2. {RunningPnl(longer)[i] : i \in 1 .. (n + 1)}
              = {RunningPnl(j)[i] : i \in 1 .. n} \cup {sum}
        <4> HIDE DEF n, sum
        <4> QED BY <1>4, <3>1
      <3>3. QED
        BY <1>1, <3>2 DEF Reached
    <2>2. r.peak \in Reached(j) /\ \A y \in Reached(j) : r.peak >= y
      BY <1>t DEF Told
    <2>3. \A y \in Reached(j) : y \in Int
      BY <1>4 DEF Reached
    <2>4. sum \in Int /\ r.pnl + c.pnl = sum
      BY <1>1, <1>2, <1>t DEF Told
    <2> HIDE DEF sum
    <2>5. s.peak = IF r.peak >= sum THEN r.peak ELSE sum
      BY <1>2, <1>3, <2>4, MaxOfTwo
    <2>6. QED
      BY <1>2, <2>1, <2>2, <2>3, <2>4, <2>5
  <1>7. \A i \in Won(j) : i \in 1 .. n
    BY DEF Won
  <1>8. Won(longer) = IF c.pnl > 0 THEN Won(j) \cup {n + 1} ELSE Won(j)
    <2>1. 1 .. (n + 1) = 1 .. n \cup {n + 1}
      BY <1>1
    <2> HIDE DEF n
    <2>2. QED
      BY <1>1, <2>1 DEF Won, n
  <1>9. s.wins = Cardinality(Won(longer)) /\ s.losses = Len(longer) - s.wins
    <2>1. IsFiniteSet(Won(j))
      <3>1. Won(j) \subseteq 1 .. n /\ IsFiniteSet(1 .. n)
        BY <1>1, <1>7, FS_Interval
      <3>2. QED
        BY <3>1, FS_Subset
    <2>2. r.wins = Cardinality(Won(j)) /\ r.losses = n - r.wins
      BY <1>t DEF Told
    <2>3. n + 1 \notin Won(j)
      BY <1>1, <1>7
    <2> HIDE DEF n
    <2>4. CASE c.pnl > 0
      <3>1. Cardinality(Won(longer)) = Cardinality(Won(j)) + 1
        BY <1>8, <2>1, <2>3, <2>4, FS_AddElement
      <3>2. QED
        BY <1>1, <1>2, <1>3, <2>2, <2>4, <3>1
    <2>5. CASE ~(c.pnl > 0)
      BY <1>1, <1>2, <1>3, <1>8, <2>2, <2>5
    <2>6. QED
      BY <2>4, <2>5
  <1>10. /\ Len(longer) - s.streak \in LastWin(longer)
         /\ \A y \in LastWin(longer) : Len(longer) - s.streak >= y
    <2>1. n - r.streak \in LastWin(j) /\ \A y \in LastWin(j) : n - r.streak >= y
      BY <1>t DEF Told
    <2>2. \A y \in LastWin(j) : y \in 0 .. n
      BY <1>1, <1>7 DEF LastWin
    <2> HIDE DEF n
    <2>3. CASE c.pnl > 0
      <3>1. LastWin(longer) = LastWin(j) \cup {n + 1} /\ s.streak = 0
        BY <1>3, <1>8, <2>3 DEF LastWin
      <3>2. QED
        BY <1>1, <2>2, <3>1
    <2>4. CASE ~(c.pnl > 0)
      <3>1. LastWin(longer) = LastWin(j) /\ s.streak = r.streak + 1
        BY <1>3, <1>8, <2>4 DEF LastWin
      <3>2. Len(longer) - s.streak = n - r.streak
        <4>1. \A m, k \in Int : (m + 1) - (k + 1) = m - k
          OBVIOUS
        <4>2. n \in Int /\ r.streak \in Int /\ Len(longer) = n + 1
          BY <1>1, <1>2
        <4>3. QED
          BY <3>1, <4>1, <4>2
      <3>3. QED
        BY <2>1, <3>1, <3>2
    <2>5. QED
      BY <2>3, <2>4
  <1>11. QED
    BY <1>5, <1>6, <1>9, <1>10 DEF Told, s, longer

\* A halt or a trade counted tells nothing else of the journal.
LEMMA ToldQuiet ==
  ASSUME Typed, Told(risk, journal), UNCHANGED journal,
         \/ risk' \in {risk, Halt(risk)}
         \/ \E s, shares, entry, stop : Track(s, shares, entry, stop)
  PROVE  Told(risk, journal)'
  <1>1. risk \in RiskRecords
    BY DEF Typed, BooksTyped
  <1>2. /\ risk'.pnl = risk.pnl /\ risk'.peak = risk.peak /\ risk'.wins = risk.wins
        /\ risk'.losses = risk.losses /\ risk'.streak = risk.streak
    <2>1. CASE risk' \in {risk, Halt(risk)}
      BY <1>1, <2>1, HaltFacts
    <2>2. CASE risk' = [risk EXCEPT !.trades = @ + 1]
      BY <1>1, <2>2 DEF RiskRecords
    <2>3. QED
      BY <2>1, <2>2 DEF Track
  <1>3. Told(risk', journal)
    BY <1>2 DEF Told
  <1>j. journal' = journal
    OBVIOUS
  <1>k. Told(risk', journal')
    BY <1>3, <1>j
  <1>4. QED
    BY <1>k DEF Told, Won, Reached, LastWin, Pnls, RunningPnl

\* A close of a position, whoever made it.
LEMMA ToldJournalled ==
  ASSUME Typed, Told(risk, journal), NEW t, t.lot \in 1 .. Len(lots), t.now \in Nat,
         NEW reason \in {"scale", "close"}, NEW shares \in Int, NEW pnl \in Int,
         Journalled(t, reason, shares, pnl)
  PROVE  Told(risk, journal)'
  <1> DEFINE c == [lot |-> t.lot, shares |-> shares, pnl |-> pnl, ts |-> t.now, reason |-> reason]
  <1>1. c \in Closes /\ c.pnl = pnl
    BY LotFacts DEF Closes, Typed
  <1>2. journal' = Append(journal, c) /\ risk' = RecordClose(risk, pnl)
    BY DEF Journalled
  <1> HIDE DEF c
  <1>3. Told(RecordClose(risk, c.pnl), Append(journal, c))
    BY <1>1, ToldClose DEF Typed, BooksTyped
  <1>4. Told(risk', journal')
    BY <1>1, <1>2, <1>3
  <1>5. QED
    BY <1>4 DEF Told, Won, Reached, LastWin, Pnls, RunningPnl

\* The sales of the monitor and of the operator.
LEMMA ToldSold ==
  ASSUME Typed, Told(risk, journal), NEW t, t.lot \in 1 .. Len(lots), t.price \in Int,
         t.now \in Nat, (ScaledOut(t) /\ t.half \in Nat \ {0}) \/ ClosedOut(t)
  PROVE  Told(risk, journal)'
  <1> DEFINE i == t.lot
  <1>1. lots[i].entry \in Int /\ lots[i].shares \in Int
    BY LotFacts DEF Typed, LotRecords
  <1>2. CASE ScaledOut(t) /\ t.half \in Nat \ {0}
    <2>1. t.half \in Int /\ (t.price - lots[i].entry) * t.half \in Int
      BY <1>1, <1>2
    <2>2. Journalled(t, "scale", t.half, (t.price - lots[i].entry) * t.half)
      BY <1>2 DEF ScaledOut
    <2>3. QED
      BY <2>1, <2>2, ToldJournalled
  <1>3. CASE ClosedOut(t)
    <2>1. (t.price - lots[i].entry) * lots[i].shares \in Int
      BY <1>1
    <2>2. Journalled(t, "close", lots[i].shares, (t.price - lots[i].entry) * lots[i].shares)
      BY <1>3 DEF ClosedOut
    <2>3. QED
      BY <1>1, <2>1, <2>2, ToldJournalled
  <1>4. QED
    BY <1>2, <1>3

\* Every step keeps the day's numbers those of the journal.
LEMMA ToldNext == Typed /\ Told(risk, journal) /\ [Next]_vars => Told(risk, journal)'
  <1> SUFFICES ASSUME Typed, Told(risk, journal) PROVE [Next]_vars => Told(risk, journal)'
    OBVIOUS
  <1>1. ASSUME LoopNext PROVE Told(risk, journal)'
    <2>1. CASE StartIteration \/ StartStrategy \/ PickSymbol \/ SendBuy \/ StartExits
               \/ Monitor \/ EndIteration
      <3>1. UNCHANGED <<risk, journal>>
        BY <2>1 DEF StartIteration, StartStrategy, PickSymbol, SendBuy, StartExits, Monitor,
                    EndIteration
      <3>2. QED
        BY <3>1, ToldQuiet
    <2>2. CASE Decide \/ Reported
      <3>1. UNCHANGED journal
        BY <2>2 DEF Decide, Reported
      <3>2. risk' \in {risk, Halt(risk)}
        BY <2>2, DecideTyped, ReportedTyped
      <3>3. QED
        BY <3>1, <3>2, ToldQuiet
    <2>3. CASE BuyAnswered
      <3>1. UNCHANGED journal
            /\ (UNCHANGED risk \/ Track(loop.sym, loop.shares, loop.entry, loop.stop))
        BY <2>3 DEF BuyAnswered
      <3>2. QED
        BY <3>1, ToldQuiet
    <2>4. CASE LoopScaledOut \/ LoopClosedOut
      <3>1. loop.at = "selling" /\ (ScaledOut(loop) \/ ClosedOut(loop))
        BY <2>4 DEF LoopScaledOut, LoopClosedOut
      <3>2. /\ loop.lot \in 1 .. Len(lots) /\ loop.price \in Int /\ loop.half \in Nat \ {0}
            /\ loop.now \in Nat
        BY <3>1 DEF Typed, LoopTyped
      <3>3. QED
        BY <3>1, <3>2, ToldSold
    <2>5. QED
      BY <1>1, <2>1, <2>2, <2>3, <2>4 DEF LoopNext
  <1>2. ASSUME OpNext PROVE Told(risk, journal)'
    <2>0. PICK r \in Slots :
            \/ AskClose(r) \/ AskScale(r) \/ OpQuoted(r) \/ OpScaledOut(r) \/ OpClosedOut(r)
            \/ MoveStop(r) \/ ManualBuy(r) \/ ManualTrade(r) \/ OpBuyAnswered(r) \/ OpStopSet(r)
            \/ ManualSell(r) \/ OpSellAnswered(r) \/ AskFlatten(r) \/ Flattened(r) \/ HaltDay(r)
            \/ PauseOrResume(r) \/ ManualScan(r) \/ SetOverride(r)
      BY <1>2 DEF OpNext
    <2>t. RequestTyped(op[r], Len(lots))
      BY DEF Typed, OpTyped
    <2>1. CASE AskClose(r) \/ AskScale(r) \/ OpQuoted(r) \/ MoveStop(r) \/ OpStopSet(r)
               \/ ManualSell(r) \/ OpSellAnswered(r) \/ Flattened(r) \/ PauseOrResume(r)
               \/ ManualScan(r) \/ SetOverride(r)
      <3>1. UNCHANGED <<risk, journal>>
        BY <2>1 DEF AskClose, AskScale, OpQuoted, MoveStop, OpStopSet, ManualSell, OpSellAnswered,
                    Flattened, PauseOrResume, ManualScan, SetOverride
      <3>2. QED
        BY <3>1, ToldQuiet
    <2>2. CASE OpScaledOut(r)
      <3>1. op[r].at = "scaling" /\ ScaledOut(op[r])
        BY <2>2 DEF OpScaledOut
      <3>2. /\ op[r].lot \in 1 .. Len(lots) /\ op[r].price \in Int /\ op[r].half \in Nat \ {0}
            /\ op[r].now \in Nat
        BY <2>t, <3>1 DEF RequestTyped, Exiting
      <3>3. QED
        BY <3>1, <3>2, ToldSold
    <2>3. CASE OpClosedOut(r)
      <3>1. /\ op[r].at = "closing" /\ op[r].lot \in 0 .. Len(lots) /\ op[r].price \in Int
            /\ op[r].now \in Nat
        BY <2>t, <2>3 DEF OpClosedOut, RequestTyped, Exiting
      <3>2. CASE op[r].lot = 0
        <4>1. UNCHANGED <<risk, journal>>
          BY <2>3, <3>2 DEF OpClosedOut
        <4>2. QED
          BY <4>1, ToldQuiet
      <3>3. CASE op[r].lot # 0
        <4>1. ClosedOut(op[r]) /\ op[r].lot \in 1 .. Len(lots)
          BY <2>3, <3>1, <3>3, LotFacts DEF OpClosedOut, Typed
        <4>2. QED
          BY <3>1, <4>1, ToldSold
      <3>4. QED
        BY <3>2, <3>3
    <2>4. CASE ManualBuy(r) \/ ManualTrade(r)
      <3>1. risk' \in {risk, Halt(risk)}
        BY <2>4, OpBuyTyped DEF vars
      <3>2. UNCHANGED journal
        BY <2>4 DEF ManualBuy, ManualTrade, SendOpBuy, vars
      <3>3. QED
        BY <3>1, <3>2, ToldQuiet
    <2>5. CASE AskFlatten(r) \/ HaltDay(r)
      <3>1. risk' \in {risk, Halt(risk)} /\ UNCHANGED journal
        BY <2>5, SettingsTyped DEF AskFlatten, HaltDay
      <3>2. QED
        BY <3>1, ToldQuiet
    <2>6. CASE OpBuyAnswered(r)
      <3>1. UNCHANGED journal
            /\ (UNCHANGED risk \/ Track(op[r].sym, op[r].shares, op[r].entry, op[r].stop))
        BY <2>6 DEF OpBuyAnswered
      <3>2. QED
        BY <3>1, ToldQuiet
    <2>7. QED
      BY <2>0, <2>1, <2>2, <2>3, <2>4, <2>5, <2>6
  <1>3. ASSUME UNCHANGED vars PROVE Told(risk, journal)'
    BY <1>3, ToldQuiet DEF vars
  <1>4. QED
    BY <1>1, <1>2, <1>3 DEF Next

\* What the record tells is what the run's invariant asks of it.
LEMMA ToldMatches == Typed /\ Told(risk, journal) => RiskMatchesJournal
  <1> SUFFICES ASSUME Typed, Told(risk, journal) PROVE RiskMatchesJournal
    OBVIOUS
  <1> DEFINE n == Len(journal)
  <1>1. journal \in Seq(Closes) /\ risk \in RiskRecords /\ n \in Nat /\ DOMAIN journal = 1 .. n
    BY LenProperties DEF Typed, BooksTyped
  <1>2. Max(Reached(journal)) = risk.peak
    <2>1. Reached(journal) \in SUBSET Int
      <3>1. [lot |-> 0, shares |-> 0, pnl |-> 0, ts |-> 0, reason |-> "close"] \in Closes
        BY DEF Closes
      <3>2. Pnls(journal) \in Seq(Int) /\ Len(Pnls(journal)) = n
        BY <1>1, <3>1, PnlsFacts
      <3>3. ASSUME NEW i \in 1 .. n PROVE RunningPnl(journal)[i] \in Int
        <4>1. SumOf(SubSeq(Pnls(journal), 1, i)) \in Int
          <5> DEFINE p == Pnls(journal)
          <5>1. p \in Seq(Int) /\ i \in 1 .. Len(p) /\ 0 \in Int
            BY <3>2
          <5> HIDE DEF p, n
          <5>2. QED
            BY <5>1, PrefixFacts DEF p
        <4>2. QED
          BY <1>1, <4>1 DEF RunningPnl
      <3>4. QED
        BY <3>3 DEF Reached
    <2>2. risk.peak \in Reached(journal) /\ \A y \in Reached(journal) : risk.peak >= y
      BY DEF Told
    <2>3. QED
      BY <2>1, <2>2, MaxIs
  <1>3. n - risk.streak = Max(LastWin(journal))
    <2>1. LastWin(journal) \in SUBSET Int
      BY <1>1 DEF LastWin, Won
    <2>2. n - risk.streak \in LastWin(journal)
          /\ \A y \in LastWin(journal) : n - risk.streak >= y
      BY DEF Told
    <2>3. QED
      BY <2>1, <2>2, MaxIs
  <1>4. risk.streak = n - Max(LastWin(journal))
    <2>1. \A m, k, x \in Int : m - k = x => k = m - x
      OBVIOUS
    <2>2. n \in Int /\ risk.streak \in Int /\ n - risk.streak \in Int
      BY <1>1 DEF RiskRecords
    <2>3. QED
      BY <1>3, <2>1, <2>2
  <1>5. /\ risk.pnl = SumOf(Pnls(journal))
        /\ risk.wins = Cardinality(Won(journal)) /\ risk.losses = n - risk.wins
    BY DEF Told
  <1>6. QED
    BY <1>2, <1>4, <1>5 DEF RiskMatchesJournal, Reached, LastWin, Won

\* The day's numbers are those of the journal through every close that
\* several coroutines record and every close that raises: the sum, its peak, the wins,
\* the losses and the losses in a row (RiskState.record_close, closed_trades).
THEOREM DayIsTheJournal == Spec => []RiskMatchesJournal
  <1>1. Init => Told(risk, journal)
    BY ToldFresh DEF Init
  <1>2. QED
    BY TypedInit, TypedNext, ToldNext, ToldMatches, <1>1, PTL DEF Spec

(***************************************************************************)
(* The halves and the closes of a lot.  Who is about to sell a lot is a    *)
(* request that holds it, or the loop.                                     *)
(***************************************************************************)

AtScale == {"scale_quote", "scaling"}
AtClose == {"close_quote", "closing"}

Holding(kinds, i) == {r \in Slots : op[r].at \in kinds /\ op[r].lot = i}
Holders(kinds, i) == Cardinality(Holding(kinds, i))

CloseRecords(i) == {k \in DOMAIN journal : journal[k].lot = i /\ journal[k].reason = "close"}

LoopScales(i) == loop.at = "selling" /\ loop.kind = "scale" /\ loop.lot = i

\* The loop still has the lot to look at, or is about to close it.
LoopCloses(i) ==
  \/ \E s \in Symbols : book[s] = i
  \/ loop.at \in {"exits", "selling", "reporting"} /\ <<lots[i].sym, i>> \in loop.todo
  \/ loop.at = "selling" /\ loop.kind = "exit" /\ loop.lot = i

One(b) == IF b THEN 1 ELSE 0

\* After k sales of a half.
AfterSales(shares, bought, k) == shares <= bought /\ bought - Half(bought) * k <= shares

\* The sales of halves that may have been made of a lot: one for each request
\* that has asked and no longer waits, and the loop's, unless it is to come.
LoopSale(i) == One(lots[i].scaled /\ ~LoopScales(i))
Sales(i) == lots[i].scalers - Holders(AtScale, i) + LoopSale(i)

HalvesLeft(i) ==
  /\ lots[i].scalers > 0 => lots[i].bought >= 2
  /\ AfterSales(lots[i].shares, lots[i].bought, Sales(i))

\* Every close that is journalled or still to come has been asked for, but the
\* loop's one.
LoopClose(i) == One(LoopCloses(i))

ClosesLeft(i) ==
  Cardinality(CloseRecords(i)) + Holders(AtClose, i) + LoopClose(i) <= 1 + lots[i].closers

\* What the loop and the requests know of the lots they hold.
LoopKnows ==
  /\ loop.at \in {"exits", "selling", "reporting"} => \A p \in loop.todo : lots[p[2]].sym = p[1]
  /\ loop.at = "selling" => /\ lots[loop.lot].sym = loop.sym
                            /\ <<loop.sym, loop.lot>> \notin loop.todo
  /\ loop.at = "selling" /\ loop.kind = "scale" => loop.half <= Half(lots[loop.lot].bought)

RequestsKnow ==
  \A r \in Slots : op[r].at = "scaling" => op[r].half <= Half(lots[op[r].lot].bought)

ActsInv ==
  /\ \A i \in 1 .. Len(lots) : HalvesLeft(i) /\ ClosesLeft(i)
  /\ \A k \in DOMAIN journal : journal[k].lot \in 1 .. Len(lots)
  /\ LoopKnows /\ RequestsKnow

\* A lot that a step leaves as it is, but for its prices.
SameLot(i) ==
  /\ lots'[i].sym = lots[i].sym /\ lots'[i].bought = lots[i].bought
  /\ lots'[i].shares = lots[i].shares /\ lots'[i].scaled = lots[i].scaled
  /\ lots'[i].scalers = lots[i].scalers /\ lots'[i].closers = lots[i].closers

\* Half of more is not less.
LEMMA HalfRises ==
  ASSUME NEW n \in Int, NEW m \in Int, n <= m
  PROVE  Half(n) <= Half(m)
  <1>1. Half(n) = IF 1 >= n \div 2 THEN 1 ELSE n \div 2
    BY MaxOfTwo DEF Half
  <1>2. Half(m) = IF 1 >= m \div 2 THEN 1 ELSE m \div 2
    BY MaxOfTwo DEF Half
  <1>3. n \div 2 <= m \div 2 /\ n \div 2 \in Int /\ m \div 2 \in Int
    OBVIOUS
  <1>4. QED
    BY <1>1, <1>2, <1>3

\* What holds after some sales holds after more.
LEMMA SalesMore ==
  ASSUME NEW shares \in Int, NEW bought \in Int, NEW k \in Int, NEW m \in Int, k <= m,
         AfterSales(shares, bought, k)
  PROVE  AfterSales(shares, bought, m)
  <1> DEFINE h == Half(bought)
  <1>1. h \in Nat
    BY HalfFacts
  <1> HIDE DEF h
  <1>2. k * h <= m * h /\ k * h \in Int /\ m * h \in Int
    BY <1>1, TimesMonotone
  <1>3. h * k = k * h /\ h * m = m * h
    BY <1>1
  <1>4. bought - h * m <= bought - h * k
    BY <1>2, <1>3
  <1>5. QED
    BY <1>2, <1>3, <1>4 DEF AfterSales, h

\* One sale of no more than a half.
LEMMA HalfGone ==
  ASSUME NEW shares \in Int, NEW bought \in Int, NEW k \in Int, NEW m \in Int, k + 1 <= m,
         AfterSales(shares, bought, k), NEW half \in Nat, half <= Half(bought)
  PROVE  AfterSales(shares - half, bought, m)
  <1> DEFINE h == Half(bought)
  <1>1. h \in Nat
    BY HalfFacts
  <1> HIDE DEF h
  <1>2. h * (k + 1) = h * k + h /\ h * k \in Int /\ h * (k + 1) \in Int
    BY <1>1
  <1>3. bought - h * k <= shares /\ shares <= bought /\ half <= h
    BY DEF AfterSales, h
  <1>4. bought - h * (k + 1) <= shares - half /\ shares - half <= bought
    BY <1>1, <1>2, <1>3
  <1>5. AfterSales(shares - half, bought, k + 1)
    BY <1>4 DEF AfterSales, h
  <1>6. QED
    BY <1>5, SalesMore

\* A lot of two or more has two halves, any lot one.
LEMMA SalesEnd ==
  ASSUME NEW shares \in Int, NEW bought \in Nat \ {0}, NEW asked \in Nat, asked > 0 => bought >= 2,
         NEW k \in Int, k <= asked + 1, AfterSales(shares, bought, k)
  PROVE  shares >= -(Max({0, asked - 1}) * Half(bought))
  <1> DEFINE h == Half(bought)
  <1>1. h \in Nat /\ h <= bought /\ (asked > 0 => h + h <= bought)
    <2>1. h = IF 1 >= bought \div 2 THEN 1 ELSE bought \div 2
      BY MaxOfTwo DEF Half
    <2>2. QED
      BY <2>1
  <1>2. bought - h * (asked + 1) <= shares
    <2>1. asked + 1 \in Int /\ bought \in Int
      OBVIOUS
    <2>2. AfterSales(shares, bought, asked + 1)
      BY <2>1, SalesMore
    <2>3. QED
      BY <2>2 DEF AfterSales
  <1> HIDE DEF h
  <1>3. CASE asked = 0
    <2>1. Max({0, asked - 1}) = 0
      BY <1>3, MaxOfTwo
    <2>2. h * (asked + 1) = h /\ 0 * h = 0
      BY <1>1, <1>3
    <2>3. QED
      BY <1>1, <1>2, <2>1, <2>2 DEF h
  <1>4. CASE asked > 0
    <2>1. Max({0, asked - 1}) = asked - 1
      BY <1>4, MaxOfTwo
    <2>2. h * (asked + 1) = (asked - 1) * h + (h + h) /\ (asked - 1) * h \in Int
      <3>1. asked \in Int
        OBVIOUS
      <3>2. h * (asked + 1) = h * asked + h /\ (asked - 1) * h = h * asked - h /\ h * asked \in Int
        BY <1>1, <3>1
      <3>3. QED
        BY <1>1, <3>2
    <2>3. -((asked - 1) * h) <= shares
      BY <1>1, <1>2, <1>4, <2>2
    <2>4. QED
      BY <2>1, <2>2, <2>3 DEF h
  <1>5. QED
    BY <1>3, <1>4

\* A request that goes on holds what it now holds, and no longer what it held.
LEMMA HoldersMove ==
  ASSUME OpTyped, NEW r \in Slots, NEW to, Goes(r, to), NEW kinds, NEW i
  PROVE  Holders(kinds, i)' = Holders(kinds, i) + One(to.at \in kinds /\ to.lot = i)
                                - One(op[r].at \in kinds /\ op[r].lot = i)
  <1>1. op'[r] = to /\ \A q \in Slots : q # r => op'[q] = op[q]
    BY OrderingMoves
  <1>2. Holding(kinds, i)' = {q \in Slots : op'[q].at \in kinds /\ op'[q].lot = i}
    BY DEF Holding
  <1> DEFINE others == {q \in Slots : q # r /\ op[q].at \in kinds /\ op[q].lot = i}
  <1>3. IsFiniteSet(others) /\ Cardinality(others) \in Nat /\ r \notin others
    <2>1. IsFiniteSet(Slots) /\ others \subseteq Slots
      BY FS_Interval, DemoAssumption DEF Slots, DemoAssumption
    <2>2. QED
      BY <2>1, FS_Subset, FS_CardinalityType
  <1>4. Cardinality(others \cup {r}) = Cardinality(others) + 1
    BY <1>3, FS_AddElement
  <1>5. Holding(kinds, i) = IF op[r].at \in kinds /\ op[r].lot = i THEN others \cup {r} ELSE others
    BY DEF Holding
  <1>6. Holding(kinds, i)' = IF to.at \in kinds /\ to.lot = i THEN others \cup {r} ELSE others
    BY <1>1, <1>2
  <1>7. Holders(kinds, i)' = Cardinality(Holding(kinds, i)')
    BY DEF Holders
  <1> HIDE DEF others
  <1>8. QED
    BY <1>3, <1>4, <1>5, <1>6, <1>7 DEF Holders, One

\* How many hold a lot is a number.
LEMMA HoldersNumber ==
  ASSUME NEW kinds, NEW i
  PROVE  Holders(kinds, i) \in Nat
  <1>1. IsFiniteSet(Slots)
    BY FS_Interval, DemoAssumption DEF Slots, DemoAssumption
  <1>2. IsFiniteSet(Holding(kinds, i))
    BY <1>1, FS_Subset DEF Holding
  <1>3. QED
    BY <1>2, FS_CardinalityType DEF Holders

\* While no request moves, they hold what they held.
LEMMA HoldersStay ==
  ASSUME UNCHANGED op, NEW kinds, NEW i
  PROVE  Holders(kinds, i)' = Holders(kinds, i)
  BY DEF Holders, Holding

\* The closes of a lot are finitely many.
LEMMA RecordsNumber ==
  ASSUME Typed, NEW i
  PROVE  IsFiniteSet(CloseRecords(i)) /\ Cardinality(CloseRecords(i)) \in Nat
  <1> DEFINE n == Len(journal)
  <1>1. n \in Nat /\ DOMAIN journal = 1 .. n
    BY LenProperties DEF Typed, BooksTyped
  <1> HIDE DEF n
  <1>2. IsFiniteSet(DOMAIN journal)
    BY <1>1, FS_Interval
  <1>3. IsFiniteSet(CloseRecords(i))
    BY <1>2, FS_Subset DEF CloseRecords
  <1>4. QED
    BY <1>3, FS_CardinalityType

\* A full close is one record more of its lot, and of no other; a scale-out is none.
LEMMA RecordsGrow ==
  ASSUME Typed, NEW t, t.lot \in 1 .. Len(lots), t.now \in Nat, NEW reason \in {"scale", "close"},
         NEW shares \in Int, NEW pnl \in Int, Journalled(t, reason, shares, pnl),
         NEW i
  PROVE  /\ Cardinality(CloseRecords(i)')
              = Cardinality(CloseRecords(i)) + One(reason = "close" /\ t.lot = i)
         /\ \A k \in DOMAIN journal' : \/ k \in DOMAIN journal /\ journal'[k] = journal[k]
                                       \/ journal'[k].lot = t.lot
  <1> DEFINE c == [lot |-> t.lot, shares |-> shares, pnl |-> pnl, ts |-> t.now, reason |-> reason]
             n == Len(journal)
  <1>1. c \in Closes /\ c.lot = t.lot /\ c.reason = reason
    <2>1. t.lot \in Nat
      BY LotFacts DEF Typed
    <2>2. QED
      BY <2>1 DEF Closes
  <1>2. journal' = Append(journal, c)
    BY DEF Journalled
  <1> HIDE DEF c
  <1>3. /\ n \in Nat /\ DOMAIN journal = 1 .. n /\ DOMAIN journal' = 1 .. (n + 1)
        /\ journal'[n + 1] = c /\ \A k \in 1 .. n : journal'[k] = journal[k]
    BY <1>1, <1>2, PnlsFacts DEF Typed, BooksTyped
  <1> HIDE DEF n
  <1>4. CloseRecords(i)' = {k \in DOMAIN journal' : journal'[k].lot = i /\ journal'[k].reason = "close"}
    BY DEF CloseRecords
  <1>5. CloseRecords(i) = {k \in 1 .. n : journal[k].lot = i /\ journal[k].reason = "close"}
    BY <1>3 DEF CloseRecords
  <1>6. 1 .. (n + 1) = (1 .. n) \cup {n + 1} /\ n + 1 \notin 1 .. n
    BY <1>3
  <1>7. CloseRecords(i)' = IF reason = "close" /\ t.lot = i THEN CloseRecords(i) \cup {n + 1}
                           ELSE CloseRecords(i)
    BY <1>1, <1>3, <1>4, <1>5, <1>6
  <1>8. n + 1 \notin CloseRecords(i)
    BY <1>5, <1>6
  <1>9. Cardinality(CloseRecords(i)) \in Nat /\ IsFiniteSet(CloseRecords(i))
    BY RecordsNumber
  <1>10. Cardinality(CloseRecords(i) \cup {n + 1}) = Cardinality(CloseRecords(i)) + 1
    BY <1>8, <1>9, FS_AddElement
  <1>11. \A k \in DOMAIN journal' : \/ k \in DOMAIN journal /\ journal'[k] = journal[k]
                                    \/ journal'[k].lot = t.lot
    BY <1>1, <1>3, <1>6
  <1>12. QED
    BY <1>7, <1>9, <1>10, <1>11 DEF One

\* What the numbers of a lot are.
LEMMA LotNumbers ==
  ASSUME Typed, NEW i \in 1 .. Len(lots)
  PROVE  /\ lots[i].shares \in Int /\ lots[i].bought \in Nat \ {0} /\ lots[i].scaled \in BOOLEAN
         /\ lots[i].scalers \in Nat /\ lots[i].closers \in Nat
         /\ Sales(i) \in Int /\ Sales(i) <= lots[i].scalers + 1
  <1>1. lots[i] \in LotRecords
    BY LotFacts DEF Typed
  <1>2. /\ lots[i].shares \in Int /\ lots[i].bought \in Nat \ {0} /\ lots[i].scaled \in BOOLEAN
        /\ lots[i].scalers \in Nat /\ lots[i].closers \in Nat
    BY <1>1, DemoRulesAssumption DEF LotRecords, DemoRulesAssumption
  <1>3. Holders(AtScale, i) \in Nat
    BY HoldersNumber
  <1>4. QED
    BY <1>2, <1>3 DEF Sales, LoopSale, One

\* A lot that a step leaves alone has the halves it had,
LEMMA HalvesKept ==
  ASSUME Typed, NEW i \in 1 .. Len(lots), HalvesLeft(i),
         lots'[i].bought = lots[i].bought, lots'[i].shares = lots[i].shares,
         lots'[i].scaled = lots[i].scaled, lots'[i].scalers = lots[i].scalers,
         Holders(AtScale, i)' = Holders(AtScale, i),
         lots[i].scaled /\ LoopScales(i)' => LoopScales(i)
  PROVE  HalvesLeft(i)'
  <1>1. Holders(AtScale, i) \in Int
    BY HoldersNumber
  <1>2. /\ lots[i].shares \in Int /\ lots[i].bought \in Int /\ lots[i].scalers \in Int
        /\ Sales(i) \in Int
    BY LotNumbers
  <1>3. Sales(i)' \in Int /\ Sales(i) <= Sales(i)'
    <2>1. Sales(i)' = lots[i].scalers - Holders(AtScale, i) + One(lots[i].scaled /\ ~(LoopScales(i)'))
      BY DEF Sales, LoopSale
    <2>2. QED
      BY <1>1, <1>2, <2>1 DEF Sales, LoopSale, One
  <1>4. AfterSales(lots[i].shares, lots[i].bought, Sales(i)')
    BY <1>2, <1>3, SalesMore DEF HalvesLeft
  <1>5. QED
    BY <1>4 DEF HalvesLeft

\* and the closes.
LEMMA ClosesKept ==
  ASSUME Typed, NEW i \in 1 .. Len(lots), ClosesLeft(i), lots'[i].closers = lots[i].closers,
         Holders(AtClose, i)' = Holders(AtClose, i),
         Cardinality(CloseRecords(i)') = Cardinality(CloseRecords(i)),
         LoopCloses(i)' => LoopCloses(i)
  PROVE  ClosesLeft(i)'
  <1>1. Holders(AtClose, i) \in Int /\ Cardinality(CloseRecords(i)) \in Int
    BY HoldersNumber, RecordsNumber
  <1>2. lots[i].closers \in Int
    BY LotNumbers
  <1>3. LoopClose(i)' <= LoopClose(i) /\ LoopClose(i)' \in Int
        /\ LoopClose(i) \in Int
    BY DEF LoopClose, One
  <1>4. Cardinality(CloseRecords(i)) + Holders(AtClose, i) + LoopClose(i) <= 1 + lots[i].closers
    BY DEF ClosesLeft
  <1>5. Cardinality(CloseRecords(i)) + Holders(AtClose, i) + LoopClose(i)'
           <= 1 + lots[i].closers
    BY <1>1, <1>2, <1>3, <1>4
  <1>6. QED
    BY <1>5 DEF ClosesLeft

\* A step that leaves all lots alone, and every request where it holds what it held.
LEMMA ActsKept ==
  ASSUME Typed, ActsInv, Len(lots') = Len(lots), UNCHANGED journal,
         \A i \in 1 .. Len(lots) :
            /\ SameLot(i)
            /\ Holders(AtScale, i)' = Holders(AtScale, i)
            /\ Holders(AtClose, i)' = Holders(AtClose, i)
            /\ lots[i].scaled /\ LoopScales(i)' => LoopScales(i)
            /\ LoopCloses(i)' => LoopCloses(i),
         LoopKnows', RequestsKnow'
  PROVE  ActsInv'
  <1>1. ASSUME NEW i \in 1 .. Len(lots) PROVE HalvesLeft(i)'
    <2>1. HalvesLeft(i)
      BY DEF ActsInv
    <2>2. QED
      BY <2>1, HalvesKept DEF SameLot
  <1>2. ASSUME NEW i \in 1 .. Len(lots) PROVE ClosesLeft(i)'
    <2>1. ClosesLeft(i) /\ lots'[i].closers = lots[i].closers
      BY DEF ActsInv, SameLot
    <2>2. CloseRecords(i)' = CloseRecords(i)
      BY DEF CloseRecords
    <2>3. QED
      BY <2>1, <2>2, ClosesKept
  <1>3. QED
    BY <1>1, <1>2 DEF ActsInv

\* The loop knows what it knew while it waits,
LEMMA LoopKnowsStill ==
  ASSUME Typed, LoopKnows, UNCHANGED loop, \A i \in 1 .. Len(lots) :
            lots'[i].sym = lots[i].sym /\ lots'[i].bought = lots[i].bought
  PROVE  LoopKnows'
  <1>1. loop.at \in {"exits", "selling", "reporting"} =>
           \A p \in loop.todo : p[2] \in 1 .. Len(lots)
    BY DEF Typed, LoopTyped
  <1>2. loop.at = "selling" => loop.lot \in 1 .. Len(lots)
    BY DEF Typed, LoopTyped
  <1>3. QED
    BY <1>1, <1>2 DEF LoopKnows

\* and so do the requests.
LEMMA RequestsKnowStill ==
  ASSUME Typed, RequestsKnow, UNCHANGED op,
         \A i \in 1 .. Len(lots) : lots'[i].bought = lots[i].bought
  PROVE  RequestsKnow'
  <1>1. \A r \in Slots : op[r].at = "scaling" => op[r].lot \in 1 .. Len(lots)
    BY DEF Typed, OpTyped, RequestTyped
  <1>2. QED
    BY <1>1 DEF RequestsKnow

\* A request that goes on knows what half it sells.
LEMMA RequestsKnowMove ==
  ASSUME Typed, RequestsKnow, NEW r \in Slots, NEW to, Goes(r, to),
         \A i \in 1 .. Len(lots) : lots'[i].bought = lots[i].bought,
         to.at = "scaling" => to.lot \in 1 .. Len(lots) /\ to.half <= Half(lots[to.lot].bought)
  PROVE  RequestsKnow'
  <1>1. op'[r] = to /\ \A q \in Slots : q # r => op'[q] = op[q]
    BY OrderingMoves DEF Typed
  <1>2. \A q \in Slots : op[q].at = "scaling" => op[q].lot \in 1 .. Len(lots)
    BY DEF Typed, OpTyped, RequestTyped
  <1>3. QED
    BY <1>1, <1>2 DEF RequestsKnow

\* A step of the loop that changes no lot.
LEMMA ActsLoop ==
  ASSUME Typed, ActsInv, UNCHANGED <<lots, journal, op>>,
         \A i \in 1 .. Len(lots) : /\ lots[i].scaled => ~(LoopScales(i)')
                                   /\ LoopCloses(i)' => LoopCloses(i),
         LoopKnows'
  PROVE  ActsInv'
  <1>1. \A i \in 1 .. Len(lots) : /\ SameLot(i)
                                  /\ Holders(AtScale, i)' = Holders(AtScale, i)
                                  /\ Holders(AtClose, i)' = Holders(AtClose, i)
    BY HoldersStay DEF SameLot
  <1>2. RequestsKnow'
    BY RequestsKnowStill DEF ActsInv
  <1>3. QED
    BY <1>1, <1>2, ActsKept

\* A step of a request that changes no lot and holds what it held.
LEMMA ActsRequest ==
  ASSUME Typed, ActsInv, Len(lots') = Len(lots), UNCHANGED <<journal, loop>>,
         \A i \in 1 .. Len(lots) : SameLot(i),
         \A s \in Symbols : book'[s] \in {0, book[s]},
         NEW r \in Slots, NEW to, Goes(r, to),
         \A i \in 1 .. Len(lots) :
            /\ to.at \in AtScale /\ to.lot = i <=> op[r].at \in AtScale /\ op[r].lot = i
            /\ to.at \in AtClose /\ to.lot = i <=> op[r].at \in AtClose /\ op[r].lot = i,
         to.at = "scaling" => to.lot \in 1 .. Len(lots) /\ to.half <= Half(lots[to.lot].bought)
  PROVE  ActsInv'
  <1>1. ASSUME NEW i \in 1 .. Len(lots)
        PROVE  /\ Holders(AtScale, i)' = Holders(AtScale, i)
               /\ Holders(AtClose, i)' = Holders(AtClose, i)
    <2>1. /\ Holders(AtScale, i)' = Holders(AtScale, i) + One(to.at \in AtScale /\ to.lot = i)
                                      - One(op[r].at \in AtScale /\ op[r].lot = i)
          /\ Holders(AtClose, i)' = Holders(AtClose, i) + One(to.at \in AtClose /\ to.lot = i)
                                      - One(op[r].at \in AtClose /\ op[r].lot = i)
      BY HoldersMove DEF Typed
    <2>2. Holders(AtScale, i) \in Int /\ Holders(AtClose, i) \in Int
      BY HoldersNumber
    <2>3. QED
      BY <2>1, <2>2 DEF One
  <1>2. \A i \in 1 .. Len(lots) : (LoopScales(i)' => LoopScales(i)) /\ (LoopCloses(i)' => LoopCloses(i))
    BY DEF LoopScales, LoopCloses, SameLot
  <1>3. LoopKnows' /\ RequestsKnow'
    BY LoopKnowsStill, RequestsKnowMove DEF ActsInv, SameLot
  <1>4. QED
    BY <1>1, <1>2, <1>3, ActsKept

\* One who was to sell a half has sold it.
LEMMA SalesGrow ==
  ASSUME Typed, NEW u \in 1 .. Len(lots), lots'[u].scalers = lots[u].scalers,
         Holders(AtScale, u)' \in Nat,
         Holders(AtScale, u)' - LoopSale(u)' <= Holders(AtScale, u) - 1 - LoopSale(u)
  PROVE  Sales(u)' \in Int /\ Sales(u) + 1 <= Sales(u)'
  <1>1. LoopSale(u) \in Int /\ LoopSale(u)' \in Int
    BY DEF LoopSale, One
  <1>2. lots[u].scalers \in Int /\ Holders(AtScale, u) \in Int
    BY LotNumbers, HoldersNumber
  <1>3. /\ Sales(u) = lots[u].scalers - Holders(AtScale, u) + LoopSale(u)
        /\ Sales(u)' = lots[u].scalers - Holders(AtScale, u)' + LoopSale(u)'
    BY DEF Sales
  <1>4. QED
    BY <1>1, <1>2, <1>3

\* One who was to close a lot has closed it.
LEMMA ClosesGrow ==
  ASSUME Typed, NEW u \in 1 .. Len(lots), ClosesLeft(u), lots'[u].closers = lots[u].closers,
         Cardinality(CloseRecords(u)') = Cardinality(CloseRecords(u)) + 1,
         Holders(AtClose, u)' \in Nat,
         Holders(AtClose, u)' + LoopClose(u)' + 1 <= Holders(AtClose, u) + LoopClose(u)
  PROVE  ClosesLeft(u)'
  <1>1. /\ Cardinality(CloseRecords(u)) \in Int /\ Holders(AtClose, u) \in Int
        /\ lots[u].closers \in Int
    BY RecordsNumber, HoldersNumber, LotNumbers
  <1>2. LoopClose(u) \in Int /\ LoopClose(u)' \in Int
    BY DEF LoopClose, One
  <1>3. Cardinality(CloseRecords(u)) + Holders(AtClose, u) + LoopClose(u) <= 1 + lots[u].closers
    BY DEF ClosesLeft
  <1>4. (Cardinality(CloseRecords(u)) + 1) + Holders(AtClose, u)' + LoopClose(u)'
           <= 1 + lots[u].closers
    BY <1>1, <1>2, <1>3
  <1>5. QED
    BY <1>4 DEF ClosesLeft

\* A half sold, by the loop or by a request.
LEMMA ActsScaled ==
  ASSUME Typed, ActsInv, NEW t, NEW u \in 1 .. Len(lots), t.lot = u, t.half \in Nat \ {0}, t.price \in Int,
         t.now \in Nat, ScaledOut(t), t.half <= Half(lots[u].bought), UNCHANGED book,
         \A i \in 1 .. Len(lots) :
            /\ Holders(AtClose, i)' = Holders(AtClose, i)
            /\ i # u => Holders(AtScale, i)' = Holders(AtScale, i)
            /\ i # u /\ LoopScales(i)' => LoopScales(i)
            /\ lots'[i].sym = lots[i].sym => (LoopCloses(i)' => LoopCloses(i)),
         Holders(AtScale, u)' \in Nat,
         lots'[u].scaled =>
            Holders(AtScale, u)' - LoopSale(u)' <= Holders(AtScale, u) - 1 - LoopSale(u),
         (\A i \in 1 .. Len(lots) : lots'[i].sym = lots[i].sym /\ lots'[i].bought = lots[i].bought)
            => LoopKnows' /\ RequestsKnow'
  PROVE  ActsInv'
  <1> DEFINE lot == HalfSold(lots[u], t.half)
             pnl == (t.price - lots[u].entry) * t.half
  <1>1. /\ lot \in LotRecords /\ lot.sym = lots[u].sym /\ lot.bought = lots[u].bought
        /\ lot.shares = lots[u].shares - t.half /\ lot.scaled = TRUE
        /\ lot.scalers = lots[u].scalers /\ lot.closers = lots[u].closers
    <2>1. BooksTyped /\ t.half \in Int
      BY DEF Typed
    <2>2. QED
      BY <2>1, ScaledLot
  <1>2. lots' = [lots EXCEPT ![u] = lot]
    BY DEF ScaledOut
  <1>3. pnl \in Int
    <2>1. lots[u].entry \in Int
      BY LotFacts DEF Typed, LotRecords
    <2>2. QED
      BY <2>1
  <1>4. Journalled(t, "scale", t.half, pnl)
    BY DEF ScaledOut
  <1> HIDE DEF lot, pnl
  <1>5. /\ Len(lots') = Len(lots) /\ lots'[u] = lot
        /\ \A j \in 1 .. Len(lots) : j # u => lots'[j] = lots[j]
    BY <1>1, <1>2, LotChanged DEF Typed
  <1>6. \A i \in 1 .. Len(lots) : /\ lots'[i].sym = lots[i].sym /\ lots'[i].bought = lots[i].bought
                                  /\ lots'[i].closers = lots[i].closers
                                  /\ i # u => SameLot(i)
    BY <1>1, <1>5 DEF SameLot
  <1>7. ASSUME NEW i \in 1 .. Len(lots) PROVE ClosesLeft(i)'
    <2>1. Cardinality(CloseRecords(i)') = Cardinality(CloseRecords(i)) + One(FALSE)
      <3>1. Cardinality(CloseRecords(i)')
              = Cardinality(CloseRecords(i)) + One("scale" = "close" /\ t.lot = i)
        BY <1>3, <1>4, RecordsGrow
      <3>2. QED
        BY <3>1 DEF One
    <2>2. Cardinality(CloseRecords(i)) \in Int
      BY RecordsNumber
    <2>3. Cardinality(CloseRecords(i)') = Cardinality(CloseRecords(i))
      BY <2>1, <2>2 DEF One
    <2>4. ClosesLeft(i) /\ (LoopCloses(i)' => LoopCloses(i))
      BY <1>6 DEF ActsInv
    <2>5. QED
      BY <1>6, <2>3, <2>4, ClosesKept
  <1>8. ASSUME NEW i \in 1 .. Len(lots), i # u PROVE HalvesLeft(i)'
    <2>1. HalvesLeft(i) /\ SameLot(i)
      BY <1>6, <1>8 DEF ActsInv
    <2>2. QED
      BY <1>8, <2>1, HalvesKept DEF SameLot
  <1>9. HalvesLeft(u)'
    <2>1. /\ lots[u].shares \in Int /\ lots[u].bought \in Int /\ lots[u].scalers \in Int
          /\ Sales(u) \in Int /\ lots[u].scaled \in BOOLEAN
      BY LotNumbers
    <2>2. Holders(AtScale, u) \in Int
      BY HoldersNumber
    <2>3. /\ lots'[u].scaled /\ lots'[u].scalers = lots[u].scalers
          /\ lots'[u].bought = lots[u].bought /\ lots'[u].shares = lots[u].shares - t.half
      BY <1>1, <1>5
    <2>4. Sales(u)' \in Int /\ Sales(u) + 1 <= Sales(u)'
      BY <2>3, SalesGrow
    <2>5. AfterSales(lots[u].shares - t.half, lots[u].bought, Sales(u)')
      <3>1. AfterSales(lots[u].shares, lots[u].bought, Sales(u)) /\ t.half \in Nat
        BY DEF ActsInv, HalvesLeft
      <3>2. QED
        BY <2>1, <2>4, <3>1, HalfGone
    <2>6. lots[u].scalers > 0 => lots[u].bought >= 2
      BY DEF ActsInv, HalvesLeft
    <2>7. QED
      BY <2>3, <2>5, <2>6 DEF HalvesLeft
  <1>10. \A k \in DOMAIN journal' : journal'[k].lot \in 1 .. Len(lots')
    <2>1. \A k \in DOMAIN journal' : \/ k \in DOMAIN journal /\ journal'[k] = journal[k]
                                     \/ journal'[k].lot = t.lot
      <3>1. t.half \in Int /\ t.lot \in 1 .. Len(lots)
        OBVIOUS
      <3>2. QED
        BY <1>3, <1>4, <3>1, RecordsGrow
    <2>2. QED
      BY <1>5, <2>1 DEF ActsInv
  <1>11. QED
    BY <1>5, <1>6, <1>7, <1>8, <1>9, <1>10 DEF ActsInv

\* A full close, by the loop or by a request, that was counted before.
LEMMA ActsClosed ==
  ASSUME Typed, ActsInv, NEW t, NEW u \in 1 .. Len(lots), t.lot = u, t.price \in Int, t.now \in Nat,
         ClosedOut(t),
         \A i \in 1 .. Len(lots) :
            /\ Holders(AtScale, i)' = Holders(AtScale, i)
            /\ LoopScales(i)' => LoopScales(i)
            /\ i # u => Holders(AtClose, i)' = Holders(AtClose, i)
            /\ i # u => (LoopCloses(i)' => LoopCloses(i)),
         Holders(AtClose, u)' \in Nat,
         Holders(AtClose, u)' + LoopClose(u)' + 1
            <= Holders(AtClose, u) + LoopClose(u),
         LoopKnows', RequestsKnow'
  PROVE  ActsInv'
  <1> DEFINE pnl == (t.price - lots[u].entry) * lots[u].shares
  <1>1. lots[u].shares \in Int /\ lots[u].entry \in Int
    BY LotFacts DEF Typed, LotRecords
  <1>2. pnl \in Int
    BY <1>1
  <1>3. Journalled(t, "close", lots[u].shares, pnl) /\ UNCHANGED lots
    BY DEF ClosedOut
  <1> HIDE DEF pnl
  <1>4. \A i \in 1 .. Len(lots) : SameLot(i)
    BY <1>3 DEF SameLot
  <1>5. ASSUME NEW i \in 1 .. Len(lots)
        PROVE  Cardinality(CloseRecords(i)') = Cardinality(CloseRecords(i)) + One(u = i)
    <2>1. Cardinality(CloseRecords(i)')
            = Cardinality(CloseRecords(i)) + One("close" = "close" /\ t.lot = i)
      BY <1>1, <1>2, <1>3, RecordsGrow
    <2>2. QED
      BY <2>1 DEF One
  <1>6. ASSUME NEW i \in 1 .. Len(lots) PROVE HalvesLeft(i)'
    <2>1. HalvesLeft(i)
      BY DEF ActsInv
    <2>2. QED
      BY <1>4, <2>1, HalvesKept DEF SameLot
  <1>7. ASSUME NEW i \in 1 .. Len(lots), i # u PROVE ClosesLeft(i)'
    <2>1. ClosesLeft(i) /\ lots'[i].closers = lots[i].closers
      BY <1>3 DEF ActsInv
    <2>2. Cardinality(CloseRecords(i)') = Cardinality(CloseRecords(i))
      BY <1>5, <1>7, RecordsNumber DEF One
    <2>3. QED
      BY <1>7, <2>1, <2>2, ClosesKept
  <1>8. ClosesLeft(u)'
    <2>1. Cardinality(CloseRecords(u)') = Cardinality(CloseRecords(u)) + 1
      BY <1>5 DEF One
    <2>2. ClosesLeft(u) /\ lots'[u].closers = lots[u].closers
      BY <1>3 DEF ActsInv
    <2>3. QED
      BY <2>1, <2>2, ClosesGrow
  <1>9. \A k \in DOMAIN journal' : journal'[k].lot \in 1 .. Len(lots')
    <2>1. \A k \in DOMAIN journal' : \/ k \in DOMAIN journal /\ journal'[k] = journal[k]
                                     \/ journal'[k].lot = t.lot
      BY <1>1, <1>2, <1>3, RecordsGrow
    <2>2. QED
      BY <1>3, <2>1 DEF ActsInv
  <1>10. QED
    BY <1>3, <1>6, <1>7, <1>8, <1>9 DEF ActsInv

\* A position bought begins with nothing sold and nothing asked.
LEMMA ActsTracked ==
  ASSUME Typed, ActsInv, NEW s \in Symbols, NEW shares \in 1 .. MaxPositionSize, NEW entry \in Int,
         NEW stop \in Int, Track(s, shares, entry, stop), UNCHANGED journal,
         OpTyped', \A r \in Slots : op'[r].at \notin AtScale \cup AtClose \/ op'[r] = op[r],
         \A i \in 1 .. Len(lots) : Holders(AtScale, i)' = Holders(AtScale, i)
                                   /\ Holders(AtClose, i)' = Holders(AtClose, i),
         UNCHANGED loop \/ loop'.at = "strategy"
  PROVE  ActsInv'
  <1> DEFINE lot == [sym |-> s, bought |-> shares, shares |-> shares, entry |-> entry,
                     stop |-> stop, scaled |-> FALSE, scalers |-> 0, closers |-> 0]
  <1>n. PICK n \in Nat, m \in Nat : n = Len(lots) /\ m = n + 1
    <2>1. Len(lots) \in Nat
      BY LotFacts DEF Typed
    <2>2. Len(lots) + 1 \in Nat
      BY <2>1
    <2>3. QED
      BY <2>1, <2>2
  <1>1. lot \in LotRecords
    BY DEF LotRecords
  <1>2. lots' = Append(lots, lot)
    BY DEF Track
  <1>3. /\ Len(lots') = m /\ lots'[m] = lot
        /\ \A i \in 1 .. n : lots'[i] = lots[i]
    <2> HIDE DEF lot
    <2> QED BY <1>n, <1>1, <1>2, LotFacts DEF Typed
  <1>4. lots'[m].bought = shares /\ lots'[m].shares = shares /\ lots'[m].scaled = FALSE
        /\ lots'[m].scalers = 0 /\ lots'[m].closers = 0
    BY <1>3
  <1> HIDE DEF lot
  <1>5. book' = [book EXCEPT ![s] = m] /\ book \in [Symbols -> 0 .. n]
    BY <1>n DEF Track, Typed, BooksTyped
  <1>6. \A i \in 1 .. n : SameLot(i)
    BY <1>3 DEF SameLot
  <1>7. ASSUME NEW i \in 1 .. n
        PROVE  /\ LoopScales(i)' => LoopScales(i)
               /\ LoopCloses(i)' => LoopCloses(i)
    <2>1. LoopScales(i)' => LoopScales(i)
      BY DEF LoopScales
    <2>2. \A u \in Symbols : book'[u] = i => book[u] = i
      BY <1>n, <1>5
    <2>3. lots'[i].sym = lots[i].sym
      BY <1>3
    <2>4. LoopCloses(i)' => LoopCloses(i)
      BY <2>2, <2>3 DEF LoopCloses
    <2>5. QED
      BY <2>1, <2>4
  <1>8. ASSUME NEW i \in 1 .. n PROVE HalvesLeft(i)' /\ ClosesLeft(i)'
    <2>0. i \in 1 .. Len(lots)
      BY <1>n
    <2>1. HalvesLeft(i) /\ ClosesLeft(i) /\ SameLot(i)
      BY <1>6, <2>0 DEF ActsInv
    <2>2. CloseRecords(i)' = CloseRecords(i)
      BY DEF CloseRecords
    <2>3. HalvesLeft(i)'
      BY <1>7, <2>0, <2>1, HalvesKept DEF SameLot
    <2>4. ClosesLeft(i)'
      BY <1>7, <2>0, <2>1, <2>2, ClosesKept DEF SameLot
    <2>5. QED
      BY <2>3, <2>4
  <1>9. ASSUME NEW kinds, kinds \in {AtScale, AtClose} PROVE Holders(kinds, m)' = 0
    <2>1. ASSUME NEW r \in Slots, op'[r].at \in kinds PROVE op'[r].lot # m
      <3>1. op'[r] = op[r] /\ op[r].at \in AtScale \cup AtClose
        BY <1>9, <2>1
      <3>2. op[r].lot \in 0 .. n
        BY <1>n, <3>1 DEF Typed, OpTyped, RequestTyped, AtScale, AtClose
      <3>3. QED
        BY <1>n, <3>1, <3>2
    <2>2. Holding(kinds, m)' = {r \in Slots : op'[r].at \in kinds /\ op'[r].lot = m}
      BY DEF Holding
    <2>3. Holding(kinds, m)' = {}
      BY <2>1, <2>2
    <2>4. QED
      BY <2>3, FS_EmptySet DEF Holders
  <1>10. HalvesLeft(m)'
    <2>1. Sales(m)' = 0
      <3>1. Sales(m)' = lots'[m].scalers - Holders(AtScale, m)' + LoopSale(m)'
        BY DEF Sales
      <3>2. LoopSale(m)' = 0
        BY <1>4 DEF LoopSale, One
      <3>3. Holders(AtScale, m)' = 0
        BY <1>9
      <3>4. QED
        BY <1>4, <3>1, <3>2, <3>3
    <2>2. AfterSales(shares, shares, 0)
      <3>1. shares \in Int
        BY DemoRulesAssumption DEF DemoRulesAssumption
      <3>2. Half(shares) \in Int
        BY <3>1, HalfFacts
      <3>3. Half(shares) * 0 = 0
        BY <3>2
      <3>4. QED
        BY <3>1, <3>3 DEF AfterSales
    <2>3. QED
      BY <1>4, <2>1, <2>2 DEF HalvesLeft
  <1>11. ClosesLeft(m)'
    <2>1. CloseRecords(m)' = {}
      <3>1. CloseRecords(m)'
              = {k \in DOMAIN journal : journal[k].lot = m /\ journal[k].reason = "close"}
        BY DEF CloseRecords
      <3>2. \A k \in DOMAIN journal : journal[k].lot # m
        BY <1>n DEF ActsInv
      <3>3. QED
        BY <3>1, <3>2
    <2>2. LoopClose(m)' \in {0, 1}
      BY DEF LoopClose, One
    <2>3. Cardinality(CloseRecords(m)') = 0
      BY <2>1, FS_EmptySet
    <2>4. Holders(AtClose, m)' = 0
      BY <1>9
    <2>5. QED
      BY <1>4, <2>2, <2>3, <2>4 DEF ClosesLeft
  <1>12. \A k \in DOMAIN journal' : journal'[k].lot \in 1 .. Len(lots')
    BY <1>n, <1>3 DEF ActsInv
  <1>13. LoopKnows'
    <2>1. CASE UNCHANGED loop
      <3>1. LoopKnows /\ \A i \in 1 .. Len(lots) :
              lots'[i].sym = lots[i].sym /\ lots'[i].bought = lots[i].bought
        BY <1>n, <1>6 DEF ActsInv, SameLot
      <3>2. QED
        BY <2>1, <3>1, LoopKnowsStill
    <2>2. CASE loop'.at = "strategy"
      BY <2>2 DEF LoopKnows
    <2>3. QED
      BY <2>1, <2>2
  <1>14. RequestsKnow'
    <2>1. ASSUME NEW r \in Slots, op'[r].at = "scaling"
          PROVE  op'[r].half <= Half(lots'[op'[r].lot].bought)
      <3>1. op'[r] = op[r]
        BY <2>1 DEF AtScale
      <3>2. op[r].lot \in 1 .. n /\ op[r].half <= Half(lots[op[r].lot].bought)
        BY <1>n, <2>1, <3>1 DEF Typed, OpTyped, RequestTyped, ActsInv, RequestsKnow
      <3>3. QED
        BY <1>3, <3>1, <3>2
    <2>2. QED
      BY <2>1 DEF RequestsKnow
  <1>15. \A i \in 1 .. Len(lots') : i \in 1 .. n \/ i = m
    BY <1>n, <1>3
  <1>16. \A i \in 1 .. Len(lots') : HalvesLeft(i)' /\ ClosesLeft(i)'
    BY <1>8, <1>10, <1>11, <1>15
  <1>17. QED
    BY <1>12, <1>13, <1>14, <1>16 DEF ActsInv

\* The loop, before and after it looks at the positions.
LEMMA ActsAway ==
  ASSUME Typed, ActsInv, UNCHANGED <<lots, book, journal, op>>,
         loop'.at \notin {"exits", "selling", "reporting"}
  PROVE  ActsInv'
  <1>1. \A i \in 1 .. Len(lots) : /\ ~(LoopScales(i)')
                                  /\ LoopCloses(i)' => LoopCloses(i)
    BY DEF LoopScales, LoopCloses
  <1>2. LoopKnows'
    BY DEF LoopKnows
  <1>3. QED
    BY <1>1, <1>2, ActsLoop

\* The loop takes up the positions that are tracked,
LEMMA ActsStartExits ==
  ASSUME Typed, ActsInv, StartExits
  PROVE  ActsInv'
  <1>1. UNCHANGED <<lots, book, journal, op>> /\ loop' = Exits(Tracked)
    BY DEF StartExits
  <1>2. loop'.at = "exits" /\ loop'.todo = Tracked
    BY <1>1 DEF Exits
  <1>3. \A p \in Tracked : p[1] \in Symbols /\ p[2] = book[p[1]] /\ book[p[1]] # 0
    BY DEF Tracked
  <1>4. ASSUME NEW i \in 1 .. Len(lots), LoopCloses(i)' PROVE LoopCloses(i)
    <2>1. \E s \in Symbols : book[s] = i
      <3>1. CASE \E s \in Symbols : book'[s] = i
        BY <1>1, <3>1
      <3>2. CASE <<lots'[i].sym, i>> \in loop'.todo
        BY <1>2, <1>3, <3>2
      <3>3. QED
        BY <1>2, <1>4, <3>1, <3>2 DEF LoopCloses
    <2>2. QED
      BY <2>1 DEF LoopCloses
  <1>5. \A i \in 1 .. Len(lots) : ~(LoopScales(i)')
    BY <1>2 DEF LoopScales
  <1>6. LoopKnows'
    <2>1. \A p \in Tracked : lots[p[2]].sym = p[1]
      BY <1>3 DEF Typed, BooksTyped
    <2>2. QED
      BY <1>1, <1>2, <2>1 DEF LoopKnows
  <1>7. QED
    BY <1>1, <1>4, <1>5, <1>6, ActsLoop

\* turns from one to the next,
LEMMA ActsMonitor ==
  ASSUME Typed, ActsInv, Monitor
  PROVE  ActsInv'
  <1>1. /\ UNCHANGED <<lots, book, journal, op>> /\ loop.at = "exits"
        /\ \E p \in loop.todo : loop' = Exits(loop.todo \ {p}) \/ QuoteComes(p)
    BY DEF Monitor
  <1>2. PICK p \in loop.todo : loop' = Exits(loop.todo \ {p}) \/ QuoteComes(p)
    BY <1>1
  <1>3. /\ p[1] \in Symbols /\ p[2] \in 1 .. Len(lots) /\ p = <<p[1], p[2]>>
        /\ \A q \in loop.todo : lots[q[2]].sym = q[1]
    <2>1. p \in Symbols \X (1 .. Len(lots))
      BY <1>1 DEF Typed, LoopTyped
    <2>2. QED
      BY <1>1, <2>1 DEF ActsInv, LoopKnows
  <1>4. CASE loop' = Exits(loop.todo \ {p})
    <2>1. loop'.at = "exits" /\ loop'.todo \subseteq loop.todo
      BY <1>4 DEF Exits
    <2>2. \A i \in 1 .. Len(lots) : /\ ~(LoopScales(i)')
                                    /\ LoopCloses(i)' => LoopCloses(i)
      BY <1>1, <2>1 DEF LoopScales, LoopCloses
    <2>3. LoopKnows'
      BY <1>1, <1>3, <2>1 DEF LoopKnows
    <2>4. QED
      BY <1>1, <2>2, <2>3, ActsLoop
  <1>5. CASE QuoteComes(p)
    <2>1. PICK bid \in Quotes : \E kind \in ExitKinds(lots[p[2]], bid) :
             loop' = IF kind = "hold" THEN Exits(loop.todo \ {p})
                     ELSE [at |-> "selling", kind |-> kind, sym |-> p[1], lot |-> p[2],
                           half |-> Half(lots[p[2]].shares), price |-> bid,
                           todo |-> loop.todo \ {p}, now |-> loop.now]
      BY <1>5 DEF QuoteComes
    <2>2. PICK kind \in ExitKinds(lots[p[2]], bid) :
             loop' = IF kind = "hold" THEN Exits(loop.todo \ {p})
                     ELSE [at |-> "selling", kind |-> kind, sym |-> p[1], lot |-> p[2],
                           half |-> Half(lots[p[2]].shares), price |-> bid,
                           todo |-> loop.todo \ {p}, now |-> loop.now]
      BY <2>1
    <2>3. CASE kind = "hold"
      BY <1>4, <2>2, <2>3
    <2>4. CASE kind # "hold"
      <3>1. /\ loop'.at = "selling" /\ loop'.kind = kind /\ loop'.sym = p[1] /\ loop'.lot = p[2]
            /\ loop'.half = Half(lots[p[2]].shares) /\ loop'.todo = loop.todo \ {p}
        BY <2>2, <2>4
      <3>2. kind = "scale" => ~lots[p[2]].scaled
        BY DEF ExitKinds
      <3>3. \A i \in 1 .. Len(lots) : lots[i].scaled => ~(LoopScales(i)')
        BY <3>1, <3>2 DEF LoopScales
      <3>4. ASSUME NEW i \in 1 .. Len(lots), LoopCloses(i)' PROVE LoopCloses(i)
        <4>1. CASE \E s \in Symbols : book'[s] = i
          BY <1>1, <4>1 DEF LoopCloses
        <4>2. CASE <<lots'[i].sym, i>> \in loop'.todo
          BY <1>1, <3>1, <4>2 DEF LoopCloses
        <4>3. CASE loop'.lot = i
          <5>1. p = <<lots[i].sym, i>>
            BY <1>3, <3>1, <4>3
          <5>2. QED
            BY <1>1, <5>1 DEF LoopCloses
        <4>4. QED
          BY <3>4, <4>1, <4>2, <4>3 DEF LoopCloses
      <3>5. Half(lots[p[2]].shares) <= Half(lots[p[2]].bought)
        <4>1. AfterSales(lots[p[2]].shares, lots[p[2]].bought, Sales(p[2]))
          BY <1>3 DEF ActsInv, HalvesLeft
        <4>2. lots[p[2]].shares \in Int /\ lots[p[2]].bought \in Int
          BY <1>3, LotNumbers
        <4>3. QED
          BY <4>1, <4>2, HalfRises DEF AfterSales
      <3>6. LoopKnows'
        <4>1. lots[p[2]].sym = p[1] /\ <<p[1], p[2]>> \notin loop.todo \ {p}
          BY <1>3
        <4>2. QED
          BY <1>1, <1>3, <3>1, <3>5, <4>1 DEF LoopKnows
      <3>7. QED
        BY <1>1, <3>3, <3>4, <3>6, ActsLoop
    <2>5. QED
      BY <2>3, <2>4
  <1>6. QED
    BY <1>2, <1>4, <1>5

\* and goes on after a report.
LEMMA ActsReported ==
  ASSUME Typed, ActsInv, Reported
  PROVE  ActsInv'
  <1>1. /\ UNCHANGED <<lots, book, journal, op>> /\ loop.at = "reporting"
        /\ loop' = Exits(loop.todo)
    BY DEF Reported
  <1>2. loop'.at = "exits" /\ loop'.todo = loop.todo
    BY <1>1 DEF Exits
  <1>3. \A i \in 1 .. Len(lots) : /\ ~(LoopScales(i)')
                                  /\ LoopCloses(i)' => LoopCloses(i)
    BY <1>1, <1>2 DEF LoopScales, LoopCloses
  <1>4. LoopKnows'
    BY <1>1, <1>2 DEF LoopKnows, ActsInv
  <1>5. QED
    BY <1>1, <1>3, <1>4, ActsLoop

\* The loop sells its half,
LEMMA ActsLoopScaled ==
  ASSUME Typed, ActsInv, LoopScaledOut
  PROVE  ActsInv'
  <1>1. /\ loop.at = "selling" /\ loop.kind = "scale" /\ ScaledOut(loop)
        /\ loop' = Exits(loop.todo) /\ UNCHANGED <<book, op>>
    BY DEF LoopScaledOut
  <1>2. loop'.at = "exits" /\ loop'.todo = loop.todo
    BY <1>1 DEF Exits
  <1>3. /\ loop.lot \in 1 .. Len(lots) /\ loop.half \in Nat \ {0} /\ loop.price \in Int
        /\ loop.now \in Nat /\ loop.todo \subseteq Symbols \X (1 .. Len(lots))
    BY <1>1 DEF Typed, LoopTyped
  <1>4. PICK u \in 1 .. Len(lots) : loop.lot = u
    BY <1>3
  <1>5. loop.half <= Half(lots[u].bought)
    BY <1>1, <1>4 DEF ActsInv, LoopKnows
  <1>6. \A i \in 1 .. Len(lots) :
           /\ Holders(AtClose, i)' = Holders(AtClose, i)
           /\ Holders(AtScale, i)' = Holders(AtScale, i)
           /\ ~(LoopScales(i)')
    BY <1>1, <1>2, HoldersStay DEF LoopScales
  <1>7. \A i \in 1 .. Len(lots) :
           lots'[i].sym = lots[i].sym => (LoopCloses(i)' => LoopCloses(i))
    BY <1>1, <1>2 DEF LoopCloses
  <1>8. LoopSale(u) = 0 /\ (lots'[u].scaled => LoopSale(u)' = 1)
    <2>1. LoopScales(u)
      BY <1>1, <1>4 DEF LoopScales
    <2>2. QED
      BY <1>6, <2>1 DEF LoopSale, One
  <1>9. Holders(AtScale, u) \in Nat /\ Holders(AtScale, u)' = Holders(AtScale, u)
    BY <1>6, HoldersNumber
  <1>10. lots'[u].scaled =>
            Holders(AtScale, u)' - LoopSale(u)' <= Holders(AtScale, u) - 1 - LoopSale(u)
    BY <1>8, <1>9
  <1>11. ASSUME \A i \in 1 .. Len(lots) : lots'[i].sym = lots[i].sym /\ lots'[i].bought = lots[i].bought
         PROVE  LoopKnows' /\ RequestsKnow'
    <2>1. \A q \in loop.todo : q[2] \in 1 .. Len(lots) /\ lots[q[2]].sym = q[1]
      BY <1>1, <1>3 DEF ActsInv, LoopKnows
    <2>2. LoopKnows'
      BY <1>2, <1>11, <2>1 DEF LoopKnows
    <2>3. RequestsKnow'
      BY <1>1, <1>11, RequestsKnowStill DEF ActsInv
    <2>4. QED
      BY <2>2, <2>3
  <1>12. QED
    BY <1>1, <1>3, <1>4, <1>5, <1>6, <1>7, <1>9, <1>10, <1>11, ActsScaled

\* and closes what it has not closed before.
LEMMA ActsLoopClosed ==
  ASSUME Typed, ActsInv, LoopClosedOut
  PROVE  ActsInv'
  <1>1. /\ loop.at = "selling" /\ loop.kind = "exit" /\ ClosedOut(loop) /\ UNCHANGED op
        /\ loop' \in {Idle, [at |-> "reporting", todo |-> loop.todo, now |-> loop.now]}
    BY DEF LoopClosedOut
  <1>2. /\ loop'.at \in {"idle", "reporting"} /\ (loop'.at = "reporting" => loop'.todo = loop.todo)
    BY <1>1 DEF Idle
  <1>3. /\ loop.lot \in 1 .. Len(lots) /\ loop.price \in Int /\ loop.sym \in Symbols
        /\ loop.now \in Nat /\ loop.todo \subseteq Symbols \X (1 .. Len(lots))
        /\ lots[loop.lot].sym = loop.sym /\ <<loop.sym, loop.lot>> \notin loop.todo
    BY <1>1 DEF Typed, LoopTyped, ActsInv, LoopKnows
  <1>4. PICK u \in 1 .. Len(lots) : loop.lot = u
    BY <1>3
  <1>5. /\ UNCHANGED lots /\ book' = [book EXCEPT ![loop.sym] = 0]
        /\ \A s \in Symbols : book'[s] = IF s = loop.sym THEN 0 ELSE book[s]
    BY <1>1 DEF ClosedOut, Typed, BooksTyped
  <1>6. \A i \in 1 .. Len(lots) :
           /\ Holders(AtClose, i)' = Holders(AtClose, i)
           /\ Holders(AtScale, i)' = Holders(AtScale, i)
           /\ ~(LoopScales(i)')
    BY <1>1, <1>2, HoldersStay DEF LoopScales
  <1>7. ASSUME NEW i \in 1 .. Len(lots), LoopCloses(i)' PROVE LoopCloses(i) /\ i # u
    <2>1. i \in Nat /\ i # 0
      OBVIOUS
    <2>2. CASE \E s \in Symbols : book'[s] = i
      <3>1. PICK s \in Symbols : book'[s] = i
        BY <2>2
      <3>2. s # loop.sym /\ book[s] = i
        BY <1>5, <2>1, <3>1
      <3>3. lots[i].sym = s
        BY <2>1, <3>2 DEF Typed, BooksTyped
      <3>4. QED
        BY <1>3, <1>4, <3>2, <3>3 DEF LoopCloses
    <2>3. CASE loop'.at = "reporting" /\ <<lots'[i].sym, i>> \in loop'.todo
      <3>1. <<lots[i].sym, i>> \in loop.todo
        BY <1>2, <1>5, <2>3
      <3>2. QED
        BY <1>1, <1>3, <1>4, <3>1 DEF LoopCloses
    <2>4. QED
      BY <1>2, <1>7, <2>2, <2>3 DEF LoopCloses
  <1>8. LoopClose(u) = 1 /\ LoopClose(u)' = 0
    <2>1. LoopCloses(u) /\ ~(LoopCloses(u)')
      BY <1>1, <1>4, <1>7 DEF LoopCloses
    <2>2. QED
      BY <2>1 DEF LoopClose, One
  <1>9. /\ Holders(AtClose, u)' \in Nat
        /\ Holders(AtClose, u)' + LoopClose(u)' + 1 <= Holders(AtClose, u) + LoopClose(u)
    <2>1. Holders(AtClose, u) \in Nat /\ Holders(AtClose, u)' = Holders(AtClose, u)
      BY <1>6, HoldersNumber
    <2>2. QED
      BY <1>8, <2>1
  <1>10. LoopKnows' /\ RequestsKnow'
    <2>1. LoopKnows'
      BY <1>1, <1>2, <1>5 DEF ActsInv, LoopKnows
    <2>2. QED
      BY <1>1, <1>5, <2>1, RequestsKnowStill DEF ActsInv
  <1>11. QED
    BY <1>1, <1>3, <1>4, <1>6, <1>7, <1>9, <1>10, ActsClosed

\* A request that is counted with its lot changes nothing else of it.
LEMMA ActsCounted ==
  ASSUME Typed, NEW u \in 1 .. Len(lots),
         \/ lots' = [lots EXCEPT ![u].closers = @ + 1]
         \/ lots' = [lots EXCEPT ![u].scalers = @ + 1]
  PROVE  /\ Len(lots') = Len(lots)
         /\ \A i \in 1 .. Len(lots) : i # u => SameLot(i)
         /\ lots'[u].sym = lots[u].sym /\ lots'[u].bought = lots[u].bought
         /\ lots'[u].shares = lots[u].shares /\ lots'[u].scaled = lots[u].scaled
         /\ lots' = [lots EXCEPT ![u].closers = @ + 1] =>
               lots'[u].closers = lots[u].closers + 1 /\ lots'[u].scalers = lots[u].scalers
         /\ lots' = [lots EXCEPT ![u].scalers = @ + 1] =>
               lots'[u].scalers = lots[u].scalers + 1 /\ lots'[u].closers = lots[u].closers
  <1>1. CASE lots' = [lots EXCEPT ![u].closers = @ + 1]
    <2>1. PICK lot \in LotRecords :
             /\ lots' = [lots EXCEPT ![u] = lot]
             /\ lot.sym = lots[u].sym /\ lot.bought = lots[u].bought
             /\ lot.shares = lots[u].shares /\ lot.scaled = lots[u].scaled
             /\ lot.scalers = lots[u].scalers /\ lot.closers = lots[u].closers + 1
      BY <1>1, CountedLot DEF Typed
    <2>2. /\ Len(lots') = Len(lots) /\ lots'[u] = lot
          /\ \A i \in 1 .. Len(lots) : i # u => lots'[i] = lots[i]
      BY <2>1, LotChanged DEF Typed
    <2>3. lots' # [lots EXCEPT ![u].scalers = @ + 1]
      <3>1. PICK other \in LotRecords :
               /\ [lots EXCEPT ![u].scalers = @ + 1] = [lots EXCEPT ![u] = other]
               /\ other.closers = lots[u].closers
        BY CountedLot DEF Typed
      <3>2. [lots EXCEPT ![u] = other][u] = other
        BY LotChanged DEF Typed
      <3>3. lots[u].closers \in Int
        BY LotNumbers
      <3>4. QED
        BY <2>1, <2>2, <3>1, <3>2, <3>3
    <2>4. QED
      BY <2>1, <2>2, <2>3 DEF SameLot
  <1>2. CASE lots' = [lots EXCEPT ![u].scalers = @ + 1]
    <2>1. PICK lot \in LotRecords :
             /\ lots' = [lots EXCEPT ![u] = lot]
             /\ lot.sym = lots[u].sym /\ lot.bought = lots[u].bought
             /\ lot.shares = lots[u].shares /\ lot.scaled = lots[u].scaled
             /\ lot.scalers = lots[u].scalers + 1 /\ lot.closers = lots[u].closers
      BY <1>2, CountedLot DEF Typed
    <2>2. /\ Len(lots') = Len(lots) /\ lots'[u] = lot
          /\ \A i \in 1 .. Len(lots) : i # u => lots'[i] = lots[i]
      BY <2>1, LotChanged DEF Typed
    <2>3. lots' # [lots EXCEPT ![u].closers = @ + 1]
      <3>1. PICK other \in LotRecords :
               /\ [lots EXCEPT ![u].closers = @ + 1] = [lots EXCEPT ![u] = other]
               /\ other.closers = lots[u].closers + 1
        BY CountedLot DEF Typed
      <3>2. [lots EXCEPT ![u] = other][u] = other
        BY LotChanged DEF Typed
      <3>3. lots[u].closers \in Int
        BY LotNumbers
      <3>4. QED
        BY <2>1, <2>2, <3>1, <3>2, <3>3
    <2>4. QED
      BY <2>1, <2>2, <2>3 DEF SameLot
  <1>3. QED
    BY <1>1, <1>2

\* A close asked for is one more that may come,
LEMMA ActsAskClose ==
  ASSUME Typed, ActsInv, NEW r \in Slots, AskClose(r)
  PROVE  ActsInv'
  <1>1. op[r] = Idle /\ op[r].at = "idle" /\ UNCHANGED <<book, journal, loop>>
    BY AskedIdle DEF AskClose, Typed
  <1>2. PICK s \in Symbols :
          /\ Goes(r, [at |-> "close_quote", sym |-> s, lot |-> book[s], now |-> Now])
          /\ lots' = IF book[s] = 0 THEN lots ELSE [lots EXCEPT ![book[s]].closers = @ + 1]
    BY DEF AskClose
  <1>3. PICK to : Goes(r, to) /\ to.at = "close_quote" /\ to.lot = book[s]
    BY <1>2
  <1>4. CASE book[s] = 0
    <2>1. UNCHANGED lots /\ \A i \in 1 .. Len(lots) : SameLot(i) /\ to.lot # i
      BY <1>2, <1>3, <1>4 DEF SameLot
    <2>2. \A u \in Symbols : book'[u] \in {0, book[u]}
      BY <1>1
    <2>3. /\ to.at \notin AtScale /\ op[r].at \notin AtScale \cup AtClose /\ to.at # "scaling"
      BY <1>1, <1>3 DEF AtScale, AtClose
    <2>4. QED
      BY <1>1, <1>3, <2>1, <2>2, <2>3, ActsRequest
  <1>5. CASE book[s] # 0
    <2>1. PICK u \in 1 .. Len(lots) : u = book[s]
      BY <1>5, LotFacts DEF Typed, BooksTyped
    <2>2. lots' = [lots EXCEPT ![u].closers = @ + 1]
      BY <1>2, <1>5, <2>1
    <2>3. /\ Len(lots') = Len(lots) /\ \A i \in 1 .. Len(lots) : i # u => SameLot(i)
          /\ lots'[u].sym = lots[u].sym /\ lots'[u].bought = lots[u].bought
          /\ lots'[u].shares = lots[u].shares /\ lots'[u].scaled = lots[u].scaled
          /\ lots'[u].closers = lots[u].closers + 1 /\ lots'[u].scalers = lots[u].scalers
      BY <2>2, ActsCounted
    <2>4. ASSUME NEW i \in 1 .. Len(lots)
          PROVE  /\ Holders(AtScale, i)' = Holders(AtScale, i)
                 /\ Holders(AtClose, i)' = Holders(AtClose, i) + (IF i = u THEN 1 ELSE 0)
      <3>1. /\ Holders(AtScale, i)' = Holders(AtScale, i) + One(to.at \in AtScale /\ to.lot = i)
                                        - One(op[r].at \in AtScale /\ op[r].lot = i)
            /\ Holders(AtClose, i)' = Holders(AtClose, i) + One(to.at \in AtClose /\ to.lot = i)
                                        - One(op[r].at \in AtClose /\ op[r].lot = i)
        BY <1>3, HoldersMove DEF Typed
      <3>2. /\ to.at \notin AtScale /\ op[r].at \notin AtScale /\ op[r].at \notin AtClose
            /\ to.at \in AtClose /\ to.lot = u
        BY <1>1, <1>3, <2>1 DEF AtScale, AtClose
      <3>3. Holders(AtScale, i) \in Int /\ Holders(AtClose, i) \in Int
        BY HoldersNumber
      <3>4. Holders(AtScale, i)' = Holders(AtScale, i)
        BY <3>1, <3>2, <3>3 DEF One
      <3>5. CASE i = u
        BY <3>1, <3>2, <3>3, <3>4, <3>5 DEF One
      <3>6. CASE i # u
        BY <3>1, <3>2, <3>3, <3>4, <3>6 DEF One
      <3>7. QED
        BY <3>5, <3>6
    <2>5. \A i \in 1 .. Len(lots) : lots'[i].sym = lots[i].sym /\ lots'[i].bought = lots[i].bought
                                    /\ lots'[i].shares = lots[i].shares
                                    /\ lots'[i].scaled = lots[i].scaled
                                    /\ lots'[i].scalers = lots[i].scalers
      BY <2>3 DEF SameLot
    <2>6. \A i \in 1 .. Len(lots) : /\ LoopScales(i)' => LoopScales(i)
                                    /\ LoopCloses(i)' => LoopCloses(i)
      BY <1>1, <2>5 DEF LoopScales, LoopCloses
    <2>7. ASSUME NEW i \in 1 .. Len(lots) PROVE HalvesLeft(i)'
      <3>1. HalvesLeft(i)
        BY DEF ActsInv
      <3>2. QED
        BY <2>4, <2>5, <2>6, <3>1, HalvesKept
    <2>8. ASSUME NEW i \in 1 .. Len(lots) PROVE CloseRecords(i)' = CloseRecords(i)
      BY <1>1 DEF CloseRecords
    <2>9. ASSUME NEW i \in 1 .. Len(lots), i # u PROVE ClosesLeft(i)'
      <3>1. ClosesLeft(i) /\ lots'[i].closers = lots[i].closers
        BY <2>3, <2>9 DEF ActsInv, SameLot
      <3>2. Holders(AtClose, i)' = Holders(AtClose, i)
        BY <2>4, <2>9, HoldersNumber
      <3>3. QED
        BY <2>6, <2>8, <3>1, <3>2, ClosesKept
    <2>10. ClosesLeft(u)'
      <3>1. /\ Cardinality(CloseRecords(u)) \in Int /\ Holders(AtClose, u) \in Int
            /\ lots[u].closers \in Int
        BY RecordsNumber, HoldersNumber, LotNumbers
      <3>2. LoopClose(u)' <= LoopClose(u) /\ LoopClose(u) \in Int /\ LoopClose(u)' \in Int
        BY <2>6 DEF LoopClose, One
      <3>3. Cardinality(CloseRecords(u)) + Holders(AtClose, u) + LoopClose(u) <= 1 + lots[u].closers
        BY DEF ActsInv, ClosesLeft
      <3>4. Holders(AtClose, u)' = Holders(AtClose, u) + 1
        BY <2>4
      <3>5. Cardinality(CloseRecords(u)) + (Holders(AtClose, u) + 1) + LoopClose(u)'
               <= 1 + (lots[u].closers + 1)
        BY <3>1, <3>2, <3>3
      <3>6. QED
        BY <2>3, <2>8, <3>4, <3>5 DEF ClosesLeft
    <2>11. \A k \in DOMAIN journal' : journal'[k].lot \in 1 .. Len(lots')
      BY <1>1, <2>3 DEF ActsInv
    <2>12. LoopKnows'
      BY <1>1, <2>5, LoopKnowsStill DEF ActsInv
    <2>13. RequestsKnow'
      BY <1>3, <2>5, RequestsKnowMove DEF ActsInv
    <2>14. QED
      BY <2>3, <2>7, <2>9, <2>10, <2>11, <2>12, <2>13 DEF ActsInv
  <1>6. QED
    BY <1>4, <1>5

\* and a scale-out asked for is one more half, of a lot that has two.
LEMMA ActsAskScale ==
  ASSUME Typed, ActsInv, NEW r \in Slots, AskScale(r)
  PROVE  ActsInv'
  <1>1. op[r] = Idle /\ op[r].at = "idle" /\ UNCHANGED <<book, journal, loop>>
    BY AskedIdle DEF AskScale, Typed
  <1>2. PICK s \in Symbols :
          /\ book[s] # 0 /\ lots[book[s]].shares > 1
          /\ Goes(r, [at |-> "scale_quote", sym |-> s, lot |-> book[s], now |-> Now])
          /\ lots' = [lots EXCEPT ![book[s]].scalers = @ + 1]
    BY DEF AskScale
  <1>3. PICK to : Goes(r, to) /\ to.at = "scale_quote" /\ to.lot = book[s]
    BY <1>2
  <1>4. PICK u \in 1 .. Len(lots) : u = book[s]
    BY <1>2, LotFacts DEF Typed, BooksTyped
  <1>5. lots' = [lots EXCEPT ![u].scalers = @ + 1]
    BY <1>2, <1>4
  <1>6. /\ Len(lots') = Len(lots) /\ \A i \in 1 .. Len(lots) : i # u => SameLot(i)
        /\ lots'[u].sym = lots[u].sym /\ lots'[u].bought = lots[u].bought
        /\ lots'[u].shares = lots[u].shares /\ lots'[u].scaled = lots[u].scaled
        /\ lots'[u].scalers = lots[u].scalers + 1 /\ lots'[u].closers = lots[u].closers
    BY <1>5, ActsCounted
  <1>7. ASSUME NEW i \in 1 .. Len(lots)
        PROVE  /\ Holders(AtClose, i)' = Holders(AtClose, i)
               /\ Holders(AtScale, i)' = Holders(AtScale, i) + (IF i = u THEN 1 ELSE 0)
    <2>1. /\ Holders(AtScale, i)' = Holders(AtScale, i) + One(to.at \in AtScale /\ to.lot = i)
                                      - One(op[r].at \in AtScale /\ op[r].lot = i)
          /\ Holders(AtClose, i)' = Holders(AtClose, i) + One(to.at \in AtClose /\ to.lot = i)
                                      - One(op[r].at \in AtClose /\ op[r].lot = i)
      BY <1>3, HoldersMove DEF Typed
    <2>2. /\ to.at \notin AtClose /\ op[r].at \notin AtScale /\ op[r].at \notin AtClose
          /\ to.at \in AtScale /\ to.lot = u
      BY <1>1, <1>3, <1>4 DEF AtScale, AtClose
    <2>3. Holders(AtScale, i) \in Int /\ Holders(AtClose, i) \in Int
      BY HoldersNumber
    <2>4. Holders(AtClose, i)' = Holders(AtClose, i)
      BY <2>1, <2>2, <2>3 DEF One
    <2>5. CASE i = u
      BY <2>1, <2>2, <2>3, <2>4, <2>5 DEF One
    <2>6. CASE i # u
      BY <2>1, <2>2, <2>3, <2>4, <2>6 DEF One
    <2>7. QED
      BY <2>5, <2>6
  <1>8. \A i \in 1 .. Len(lots) : lots'[i].sym = lots[i].sym /\ lots'[i].bought = lots[i].bought
                                  /\ lots'[i].closers = lots[i].closers
                                  /\ lots'[i].scaled = lots[i].scaled
    BY <1>6 DEF SameLot
  <1>9. \A i \in 1 .. Len(lots) : /\ LoopScales(i)' => LoopScales(i)
                                  /\ LoopCloses(i)' => LoopCloses(i)
    BY <1>1, <1>8 DEF LoopScales, LoopCloses
  <1>10. ASSUME NEW i \in 1 .. Len(lots) PROVE ClosesLeft(i)'
    <2>1. ClosesLeft(i)
      BY DEF ActsInv
    <2>2. CloseRecords(i)' = CloseRecords(i)
      BY <1>1 DEF CloseRecords
    <2>3. QED
      BY <1>7, <1>8, <1>9, <2>1, <2>2, ClosesKept
  <1>11. ASSUME NEW i \in 1 .. Len(lots), i # u PROVE HalvesLeft(i)'
    <2>1. HalvesLeft(i) /\ SameLot(i)
      BY <1>6, <1>11 DEF ActsInv
    <2>2. Holders(AtScale, i)' = Holders(AtScale, i)
      BY <1>7, <1>11, HoldersNumber
    <2>3. QED
      BY <1>9, <2>1, <2>2, HalvesKept DEF SameLot
  <1>12. HalvesLeft(u)'
    <2>1. /\ lots[u].shares \in Int /\ lots[u].bought \in Int /\ lots[u].scalers \in Int
          /\ Sales(u) \in Int /\ Holders(AtScale, u) \in Int
      BY LotNumbers, HoldersNumber
    <2>2. AfterSales(lots[u].shares, lots[u].bought, Sales(u))
      BY DEF ActsInv, HalvesLeft
    <2>3. lots[u].bought >= 2
      BY <1>2, <1>4, <2>1, <2>2 DEF AfterSales
    <2>4. LoopSale(u)' = LoopSale(u) /\ LoopSale(u) \in Int
      <3>1. LoopScales(u)' <=> LoopScales(u)
        BY <1>1 DEF LoopScales
      <3>2. LoopSale(u)' = One(lots[u].scaled /\ ~(LoopScales(u)'))
        BY <1>8 DEF LoopSale
      <3>3. QED
        BY <3>1, <3>2 DEF LoopSale, One
    <2>5. Sales(u)' = Sales(u)
      <3>1. Sales(u)' = lots'[u].scalers - Holders(AtScale, u)' + LoopSale(u)'
        BY DEF Sales
      <3>2. Holders(AtScale, u)' = Holders(AtScale, u) + 1
        BY <1>7
      <3>3. QED
        BY <1>6, <2>1, <2>4, <3>1, <3>2 DEF Sales
    <2>6. QED
      BY <1>6, <2>2, <2>3, <2>5 DEF HalvesLeft
  <1>13. \A k \in DOMAIN journal' : journal'[k].lot \in 1 .. Len(lots')
    BY <1>1, <1>6 DEF ActsInv
  <1>14. LoopKnows'
    BY <1>1, <1>8, LoopKnowsStill DEF ActsInv
  <1>15. RequestsKnow'
    BY <1>3, <1>8, RequestsKnowMove DEF ActsInv
  <1>16. QED
    BY <1>6, <1>10, <1>11, <1>12, <1>13, <1>14, <1>15 DEF ActsInv

\* A quote that comes settles the half that is sold.
LEMMA ActsQuoted ==
  ASSUME Typed, ActsInv, NEW r \in Slots, OpQuoted(r)
  PROVE  ActsInv'
  <1>1. op[r].at \in {"close_quote", "scale_quote"} /\ UNCHANGED <<lots, book, journal, loop>>
    BY DEF OpQuoted
  <1>2. PICK price \in Marks(op[r].lot) :
          Goes(r, [at |-> IF op[r].at = "close_quote" THEN "closing" ELSE "scaling",
                   sym |-> op[r].sym, lot |-> op[r].lot, now |-> op[r].now, price |-> price,
                   half |-> IF op[r].lot = 0 THEN 0 ELSE Half(lots[op[r].lot].shares)])
    BY DEF OpQuoted
  <1>3. PICK to : /\ Goes(r, to) /\ to.lot = op[r].lot
                  /\ to.at = (IF op[r].at = "close_quote" THEN "closing" ELSE "scaling")
                  /\ to.half = (IF op[r].lot = 0 THEN 0 ELSE Half(lots[op[r].lot].shares))
    <2> DEFINE to == [at |-> IF op[r].at = "close_quote" THEN "closing" ELSE "scaling",
                      sym |-> op[r].sym, lot |-> op[r].lot, now |-> op[r].now, price |-> price,
                      half |-> IF op[r].lot = 0 THEN 0 ELSE Half(lots[op[r].lot].shares)]
    <2>1. /\ to.lot = op[r].lot
          /\ to.at = (IF op[r].at = "close_quote" THEN "closing" ELSE "scaling")
          /\ to.half = (IF op[r].lot = 0 THEN 0 ELSE Half(lots[op[r].lot].shares))
      OBVIOUS
    <2>2. Goes(r, to)
      BY <1>2
    <2>3. QED
      BY <2>1, <2>2
  <1>4. /\ to.at \in AtScale <=> op[r].at \in AtScale
        /\ to.at \in AtClose <=> op[r].at \in AtClose
    BY <1>1, <1>3 DEF AtScale, AtClose
  <1>5. ASSUME to.at = "scaling"
        PROVE  to.lot \in 1 .. Len(lots) /\ to.half <= Half(lots[to.lot].bought)
    <2>1. op[r].lot \in 1 .. Len(lots)
      BY <1>1, <1>3, <1>5 DEF Typed, OpTyped, RequestTyped
    <2>2. PICK u \in 1 .. Len(lots) : u = op[r].lot
      BY <2>1
    <2>3. to.lot = u /\ to.half = Half(lots[u].shares)
      BY <1>3, <2>2
    <2>4. lots[u].shares \in Int /\ lots[u].bought \in Int /\ lots[u].shares <= lots[u].bought
      BY LotNumbers DEF ActsInv, HalvesLeft, AfterSales
    <2>5. QED
      BY <2>3, <2>4, HalfRises
  <1>6. \A i \in 1 .. Len(lots) :
           /\ to.at \in AtScale /\ to.lot = i <=> op[r].at \in AtScale /\ op[r].lot = i
           /\ to.at \in AtClose /\ to.lot = i <=> op[r].at \in AtClose /\ op[r].lot = i
    BY <1>3, <1>4
  <1>7. (\A i \in 1 .. Len(lots) : SameLot(i)) /\ (\A s \in Symbols : book'[s] \in {0, book[s]})
    BY <1>1 DEF SameLot
  <1>8. QED
    BY <1>1, <1>3, <1>5, <1>6, <1>7, ActsRequest

\* A half that a request sells,
LEMMA ActsOpScaled ==
  ASSUME Typed, ActsInv, NEW r \in Slots, OpScaledOut(r)
  PROVE  ActsInv'
  <1>1. op[r].at = "scaling" /\ ScaledOut(op[r]) /\ Goes(r, Idle) /\ UNCHANGED <<book, loop>>
    BY DEF OpScaledOut, Ends
  <1>2. /\ op[r].lot \in 1 .. Len(lots) /\ op[r].half \in Nat \ {0} /\ op[r].price \in Int
        /\ op[r].now \in Nat
    <2>1. RequestTyped(op[r], Len(lots))
      BY DEF Typed, OpTyped
    <2>2. QED
      BY <1>1, <2>1 DEF RequestTyped, Exiting
  <1>3. PICK u \in 1 .. Len(lots) : op[r].lot = u
    BY <1>2
  <1>4. op[r].half <= Half(lots[u].bought)
    BY <1>1, <1>3 DEF ActsInv, RequestsKnow
  <1>5. ASSUME NEW i \in 1 .. Len(lots)
        PROVE  /\ Holders(AtClose, i)' = Holders(AtClose, i)
               /\ i # u => Holders(AtScale, i)' = Holders(AtScale, i)
               /\ i = u => Holders(AtScale, i)' = Holders(AtScale, i) - 1
               /\ Holders(AtScale, i)' \in Int
    <2>1. /\ Holders(AtScale, i)' = Holders(AtScale, i) + One(Idle.at \in AtScale /\ Idle.lot = i)
                                      - One(op[r].at \in AtScale /\ op[r].lot = i)
          /\ Holders(AtClose, i)' = Holders(AtClose, i) + One(Idle.at \in AtClose /\ Idle.lot = i)
                                      - One(op[r].at \in AtClose /\ op[r].lot = i)
      BY <1>1, HoldersMove DEF Typed
    <2>2. /\ Idle.at \notin AtScale /\ Idle.at \notin AtClose
          /\ op[r].at \in AtScale /\ op[r].at \notin AtClose
      BY <1>1 DEF AtScale, AtClose, Idle
    <2>3. Holders(AtScale, i) \in Int /\ Holders(AtClose, i) \in Int
      BY HoldersNumber
    <2>4. Holders(AtClose, i)' = Holders(AtClose, i)
      BY <2>1, <2>2, <2>3 DEF One
    <2>5. CASE i = u
      BY <1>3, <2>1, <2>2, <2>3, <2>4, <2>5 DEF One
    <2>6. CASE i # u
      BY <1>3, <2>1, <2>2, <2>3, <2>4, <2>6 DEF One
    <2>7. QED
      BY <2>5, <2>6
  <1>6. Holders(AtScale, u)' \in Nat
    <2>1. op[r].at \in AtScale /\ op[r].lot = u
      BY <1>1, <1>3 DEF AtScale
    <2>2. r \in Holding(AtScale, u) /\ IsFiniteSet(Holding(AtScale, u))
      <3>1. IsFiniteSet(Slots)
        BY FS_Interval, DemoAssumption DEF Slots, DemoAssumption
      <3>2. QED
        BY <2>1, <3>1, FS_Subset DEF Holding
    <2>3. Holders(AtScale, u) # 0 /\ Holders(AtScale, u) \in Nat
      BY <2>2, FS_EmptySet, HoldersNumber DEF Holders
    <2>4. Holders(AtScale, u)' = Holders(AtScale, u) - 1
      BY <1>5
    <2>5. QED
      BY <2>3, <2>4
  <1>7. \A i \in 1 .. Len(lots) : /\ LoopScales(i)' => LoopScales(i)
                                  /\ lots'[i].sym = lots[i].sym => (LoopCloses(i)' => LoopCloses(i))
    BY <1>1 DEF LoopScales, LoopCloses
  <1>8. ASSUME lots'[u].scaled
        PROVE  Holders(AtScale, u)' - LoopSale(u)' <= Holders(AtScale, u) - 1 - LoopSale(u)
    <2>1. LoopScales(u)' <=> LoopScales(u)
      BY <1>1 DEF LoopScales
    <2>2. LoopSale(u)' = One(lots'[u].scaled /\ ~(LoopScales(u)'))
      BY DEF LoopSale
    <2>3. LoopSale(u) <= LoopSale(u)' /\ LoopSale(u) \in Int /\ LoopSale(u)' \in Int
      BY <1>8, <2>1, <2>2 DEF LoopSale, One
    <2>4. Holders(AtScale, u)' = Holders(AtScale, u) - 1 /\ Holders(AtScale, u) \in Int
      BY <1>5, HoldersNumber
    <2>5. QED
      BY <2>3, <2>4
  <1>9. ASSUME \A i \in 1 .. Len(lots) : lots'[i].sym = lots[i].sym /\ lots'[i].bought = lots[i].bought
        PROVE  LoopKnows' /\ RequestsKnow'
    <2>1. LoopKnows'
      BY <1>1, <1>9, LoopKnowsStill DEF ActsInv
    <2>2. RequestsKnow'
      BY <1>1, <1>9, RequestsKnowMove DEF ActsInv, Idle
    <2>3. QED
      BY <2>1, <2>2
  <1>10. QED
    BY <1>1, <1>2, <1>3, <1>4, <1>5, <1>6, <1>7, <1>8, <1>9, ActsScaled

\* and a lot that it closes.
LEMMA ActsOpClosed ==
  ASSUME Typed, ActsInv, NEW r \in Slots, OpClosedOut(r)
  PROVE  ActsInv'
  <1>1. op[r].at = "closing" /\ Goes(r, Idle) /\ UNCHANGED loop
    BY DEF OpClosedOut, Ends
  <1>2. /\ op[r].lot \in 0 .. Len(lots) /\ op[r].price \in Int /\ op[r].now \in Nat
        /\ op[r].sym \in Symbols
    <2>1. RequestTyped(op[r], Len(lots))
      BY DEF Typed, OpTyped
    <2>2. QED
      BY <1>1, <2>1 DEF RequestTyped, Exiting
  <1>i. Idle.at \notin AtScale /\ Idle.at \notin AtClose /\ Idle.at # "scaling"
        /\ op[r].at \notin AtScale /\ op[r].at \in AtClose
    BY <1>1 DEF AtScale, AtClose, Idle
  <1>3. CASE op[r].lot = 0
    <2>1. UNCHANGED <<lots, book, journal>>
      BY <1>3 DEF OpClosedOut
    <2>2. (\A i \in 1 .. Len(lots) : SameLot(i) /\ op[r].lot # i)
          /\ (\A s \in Symbols : book'[s] \in {0, book[s]})
      BY <1>3, <2>1 DEF SameLot
    <2>3. QED
      BY <1>1, <1>i, <2>1, <2>2, ActsRequest
  <1>4. CASE op[r].lot # 0
    <2>1. PICK u \in 1 .. Len(lots) : op[r].lot = u
      BY <1>2, <1>4, LotFacts DEF Typed
    <2>2. ClosedOut(op[r])
      BY <1>4 DEF OpClosedOut
    <2>3. /\ UNCHANGED lots /\ book' = [book EXCEPT ![op[r].sym] = 0]
          /\ \A s \in Symbols : book'[s] \in {0, book[s]}
      BY <2>2 DEF ClosedOut, Typed, BooksTyped
    <2>4. ASSUME NEW i \in 1 .. Len(lots)
          PROVE  /\ Holders(AtScale, i)' = Holders(AtScale, i)
                 /\ i # u => Holders(AtClose, i)' = Holders(AtClose, i)
                 /\ i = u => Holders(AtClose, i)' = Holders(AtClose, i) - 1
      <3>1. /\ Holders(AtScale, i)' = Holders(AtScale, i) + One(Idle.at \in AtScale /\ Idle.lot = i)
                                        - One(op[r].at \in AtScale /\ op[r].lot = i)
            /\ Holders(AtClose, i)' = Holders(AtClose, i) + One(Idle.at \in AtClose /\ Idle.lot = i)
                                        - One(op[r].at \in AtClose /\ op[r].lot = i)
        BY <1>1, HoldersMove DEF Typed
      <3>2. Holders(AtScale, i) \in Int /\ Holders(AtClose, i) \in Int
        BY HoldersNumber
      <3>3. Holders(AtScale, i)' = Holders(AtScale, i)
        BY <1>i, <3>1, <3>2 DEF One
      <3>4. CASE i = u
        BY <1>i, <2>1, <3>1, <3>2, <3>3, <3>4 DEF One
      <3>5. CASE i # u
        BY <1>i, <2>1, <3>1, <3>2, <3>3, <3>5 DEF One
      <3>6. QED
        BY <3>4, <3>5
    <2>5. \A i \in 1 .. Len(lots) : /\ LoopScales(i)' => LoopScales(i)
                                    /\ LoopCloses(i)' => LoopCloses(i)
      <3>1. \A i \in 1 .. Len(lots) : LoopScales(i)' => LoopScales(i)
        BY <1>1 DEF LoopScales
      <3>2. ASSUME NEW i \in 1 .. Len(lots), NEW s \in Symbols, book'[s] = i PROVE book[s] = i
        <4>1. i # 0
          BY LotFacts DEF Typed
        <4>2. QED
          BY <2>3, <3>2, <4>1
      <3>3. \A i \in 1 .. Len(lots) : LoopCloses(i)' => LoopCloses(i)
        BY <1>1, <2>3, <3>2 DEF LoopCloses
      <3>4. QED
        BY <3>1, <3>3
    <2>6. /\ Holders(AtClose, u)' \in Nat
          /\ Holders(AtClose, u)' + LoopClose(u)' + 1 <= Holders(AtClose, u) + LoopClose(u)
      <3>1. r \in Holding(AtClose, u) /\ IsFiniteSet(Holding(AtClose, u))
        <4>1. IsFiniteSet(Slots)
          BY FS_Interval, DemoAssumption DEF Slots, DemoAssumption
        <4>2. QED
          BY <1>i, <2>1, <4>1, FS_Subset DEF Holding
      <3>2. Holders(AtClose, u) # 0 /\ Holders(AtClose, u) \in Nat
        BY <3>1, FS_EmptySet, HoldersNumber DEF Holders
      <3>3. Holders(AtClose, u)' = Holders(AtClose, u) - 1
        BY <2>4
      <3>4. LoopClose(u)' <= LoopClose(u) /\ LoopClose(u) \in Int /\ LoopClose(u)' \in Int
        BY <2>5 DEF LoopClose, One
      <3>5. QED
        BY <3>2, <3>3, <3>4
    <2>7. LoopKnows' /\ RequestsKnow'
      <3>1. LoopKnows'
        BY <1>1, <2>3, LoopKnowsStill DEF ActsInv
      <3>2. RequestsKnow'
        BY <1>1, <1>i, <2>3, RequestsKnowMove DEF ActsInv
      <3>3. QED
        BY <3>1, <3>2
    <2>8. QED
      BY <1>2, <2>1, <2>2, <2>4, <2>5, <2>6, <2>7, ActsClosed
  <1>5. QED
    BY <1>3, <1>4

\* A stop that moves.
LEMMA ActsStop ==
  ASSUME Typed, ActsInv, NEW r \in Slots, MoveStop(r) \/ OpStopSet(r)
  PROVE  ActsInv'
  <1>1. UNCHANGED <<book, journal, loop>>
    BY DEF MoveStop, OpStopSet
  <1>2. ASSUME NEW s \in Symbols, book[s] # 0, NEW stop \in Int,
               lots' = [lots EXCEPT ![book[s]].stop = stop]
        PROVE  Len(lots') = Len(lots) /\ \A i \in 1 .. Len(lots) : SameLot(i)
    <2>1. PICK u \in 1 .. Len(lots) : u = book[s]
      BY <1>2, LotFacts DEF Typed, BooksTyped
    <2>2. PICK lot \in LotRecords :
             /\ lots' = [lots EXCEPT ![u] = lot]
             /\ lot.sym = lots[u].sym /\ lot.bought = lots[u].bought
             /\ lot.shares = lots[u].shares /\ lot.scaled = lots[u].scaled
             /\ lot.scalers = lots[u].scalers /\ lot.closers = lots[u].closers
      BY <1>2, <2>1, StoppedLot DEF Typed
    <2>3. /\ Len(lots') = Len(lots) /\ lots'[u] = lot
          /\ \A i \in 1 .. Len(lots) : i # u => lots'[i] = lots[i]
      BY <2>2, LotChanged DEF Typed
    <2>4. QED
      BY <2>2, <2>3 DEF SameLot
  <1>3. CASE MoveStop(r)
    <2>1. UNCHANGED op
      BY <1>3 DEF MoveStop
    <2>2. Len(lots') = Len(lots) /\ \A i \in 1 .. Len(lots) : SameLot(i)
      <3>1. PICK s \in Symbols, price \in Quotes :
              book[s] # 0 /\ lots' = [lots EXCEPT ![book[s]].stop = price]
        BY <1>3 DEF MoveStop
      <3>2. price \in Int
        BY DemoAssumption DEF DemoAssumption
      <3>3. QED
        BY <1>2, <3>1, <3>2
    <2>3. \A i \in 1 .. Len(lots) : /\ Holders(AtScale, i)' = Holders(AtScale, i)
                                    /\ Holders(AtClose, i)' = Holders(AtClose, i)
      BY <2>1, HoldersStay
    <2>4. \A i \in 1 .. Len(lots) : /\ LoopScales(i)' => LoopScales(i)
                                    /\ LoopCloses(i)' => LoopCloses(i)
      BY <1>1, <2>2 DEF LoopScales, LoopCloses, SameLot
    <2>5. LoopKnows' /\ RequestsKnow'
      BY <1>1, <2>1, <2>2, LoopKnowsStill, RequestsKnowStill DEF ActsInv, SameLot
    <2>6. QED
      BY <1>1, <2>2, <2>3, <2>4, <2>5, ActsKept
  <1>4. CASE OpStopSet(r)
    <2>1. /\ op[r].at = "stopping" /\ Goes(r, Idle) /\ op[r].sym \in Symbols /\ op[r].stop \in Int
          /\ lots' = IF book[op[r].sym] = 0 THEN lots
                     ELSE [lots EXCEPT ![book[op[r].sym]].stop = op[r].stop]
      BY <1>4 DEF OpStopSet, Ends, Typed, OpTyped, RequestTyped
    <2>2. Len(lots') = Len(lots) /\ \A i \in 1 .. Len(lots) : SameLot(i)
      <3>1. CASE book[op[r].sym] = 0
        BY <2>1, <3>1 DEF SameLot
      <3>2. CASE book[op[r].sym] # 0
        BY <1>2, <2>1, <3>2
      <3>3. QED
        BY <3>1, <3>2
    <2>3. /\ Idle.at \notin AtScale /\ Idle.at \notin AtClose /\ Idle.at # "scaling"
          /\ op[r].at \notin AtScale /\ op[r].at \notin AtClose
      BY <2>1 DEF AtScale, AtClose, Idle
    <2>4. \A s \in Symbols : book'[s] \in {0, book[s]}
      BY <1>1
    <2>5. QED
      BY <1>1, <2>1, <2>2, <2>3, <2>4, ActsRequest
  <1>5. QED
    BY <1>3, <1>4

\* A request that neither holds a lot before the step nor after it, and touches none.
LEMMA ActsElsewhere ==
  ASSUME Typed, ActsInv, NEW r \in Slots, UNCHANGED <<lots, journal, loop>>,
         \A s \in Symbols : book'[s] \in {0, book[s]},
         UNCHANGED op \/ \E to : /\ Goes(r, to) /\ to.at \notin AtScale \cup AtClose
                                 /\ op[r].at \notin AtScale \cup AtClose
  PROVE  ActsInv'
  <1>1. \A i \in 1 .. Len(lots) : SameLot(i)
    BY DEF SameLot
  <1>2. CASE UNCHANGED op
    <2>1. \A i \in 1 .. Len(lots) : /\ Holders(AtScale, i)' = Holders(AtScale, i)
                                    /\ Holders(AtClose, i)' = Holders(AtClose, i)
      BY <1>2, HoldersStay
    <2>2. \A i \in 1 .. Len(lots) : /\ LoopScales(i)' => LoopScales(i)
                                    /\ LoopCloses(i)' => LoopCloses(i)
      <3>1. \A i \in 1 .. Len(lots) : i # 0
        BY LotFacts DEF Typed
      <3>2. QED
        BY <3>1 DEF LoopScales, LoopCloses
    <2>3. LoopKnows' /\ RequestsKnow'
      BY <1>2, LoopKnowsStill, RequestsKnowStill DEF ActsInv
    <2>4. QED
      BY <1>1, <2>1, <2>2, <2>3, ActsKept
  <1>3. CASE \E to : /\ Goes(r, to) /\ to.at \notin AtScale \cup AtClose
                     /\ op[r].at \notin AtScale \cup AtClose
    <2>1. PICK to : /\ Goes(r, to) /\ to.at \notin AtScale \cup AtClose
                    /\ op[r].at \notin AtScale \cup AtClose
      BY <1>3
    <2>2. to.at # "scaling"
      BY <2>1 DEF AtScale
    <2>3. QED
      BY <1>1, <2>1, <2>2, ActsRequest
  <1>4. QED
    BY <1>2, <1>3

\* The orders, the manual sale, the flatten and the settings of the operator.
LEMMA ActsOthers ==
  ASSUME Typed, ActsInv, NEW r \in Slots,
         \/ ManualBuy(r) \/ ManualTrade(r) \/ ManualSell(r) \/ OpSellAnswered(r)
         \/ AskFlatten(r) \/ Flattened(r) \/ HaltDay(r) \/ PauseOrResume(r)
         \/ ManualScan(r) \/ SetOverride(r)
  PROVE  ActsInv' \/ UNCHANGED vars
  <1>a. \A kind : Asked(r, kind) => op[r].at \notin AtScale \cup AtClose
    BY AskedIdle DEF Typed, AtScale, AtClose
  <1>1. CASE ManualBuy(r) \/ ManualTrade(r)
    <2>1. ASSUME NEW s, NEW shares, NEW entry, NEW stop, NEW suggested,
                 SendOpBuy(r, s, shares, entry, stop, suggested)
          PROVE  ActsInv'
      <3>1. /\ UNCHANGED <<lots, book, journal, loop>>
            /\ \/ UNCHANGED op
               \/ Goes(r, [at |-> "buying", sym |-> s, shares |-> shares,
                           entry |-> entry, stop |-> stop, suggested |-> suggested])
        BY <2>1 DEF SendOpBuy
      <3>2. UNCHANGED op \/ \E to : Goes(r, to) /\ to.at \notin AtScale \cup AtClose
        BY <3>1 DEF AtScale, AtClose
      <3>3. op[r].at \notin AtScale \cup AtClose
        BY <1>1, <1>a DEF ManualBuy, ManualTrade
      <3>4. QED
        BY <3>1, <3>2, <3>3, ActsElsewhere
    <2>2. QED
      BY <1>1, <2>1 DEF ManualBuy, ManualTrade
  <1>2. CASE ManualSell(r) \/ AskFlatten(r)
    <2>1. UNCHANGED <<lots, book, journal, loop>>
      BY <1>2 DEF ManualSell, AskFlatten
    <2>2. \E to : Goes(r, to) /\ to.at \notin AtScale \cup AtClose
      <3>1. CASE ManualSell(r)
        <4>1. PICK s \in Symbols, qty \in ManualSizes :
                Goes(r, [at |-> "selling", sym |-> s, qty |-> qty])
          BY <3>1 DEF ManualSell
        <4>2. QED
          BY <4>1 DEF AtScale, AtClose
      <3>2. CASE AskFlatten(r)
        <4>1. PICK kind \in {"flatten", "kill"} :
                Goes(r, [at |-> "flattening", kill |-> kind = "kill"])
          BY <3>2 DEF AskFlatten
        <4> DEFINE to == [at |-> "flattening", kill |-> kind = "kill"]
        <4>2. Goes(r, to) /\ to.at = "flattening"
          BY <4>1
        <4> HIDE DEF to
        <4>3. QED
          BY <4>2 DEF AtScale, AtClose
      <3>3. QED
        BY <1>2, <3>1, <3>2
    <2>3. op[r].at \notin AtScale \cup AtClose
      BY <1>2, <1>a DEF ManualSell, AskFlatten
    <2>4. QED
      BY <2>1, <2>2, <2>3, ActsElsewhere
  <1>3. CASE OpSellAnswered(r) \/ Flattened(r)
    <2>1. UNCHANGED <<lots, journal, loop>> /\ \A s \in Symbols : book'[s] \in {0, book[s]}
      BY <1>3 DEF OpSellAnswered, Flattened
    <2>2. Goes(r, Idle) /\ Idle.at \notin AtScale \cup AtClose
      BY <1>3 DEF OpSellAnswered, Flattened, Ends, AtScale, AtClose, Idle
    <2>3. op[r].at \notin AtScale \cup AtClose
      BY <1>3 DEF OpSellAnswered, Flattened, AtScale, AtClose
    <2>4. QED
      BY <2>1, <2>2, <2>3, ActsElsewhere
  <1>4. CASE HaltDay(r) \/ PauseOrResume(r) \/ ManualScan(r) \/ SetOverride(r)
    <2>1. UNCHANGED <<lots, book, journal, loop, op>>
      BY <1>4 DEF HaltDay, PauseOrResume, ManualScan, SetOverride
    <2>2. QED
      BY <2>1, ActsElsewhere
  <1>5. QED
    BY <1>1, <1>2, <1>3, <1>4

\* The answer to an order of the operator.
LEMMA ActsOpBought ==
  ASSUME Typed, ActsInv, NEW r \in Slots, OpBuyAnswered(r)
  PROVE  ActsInv'
  <1>1. op[r].at = "buying" /\ UNCHANGED <<journal, loop>>
    BY DEF OpBuyAnswered
  <1>2. PICK to : Goes(r, to) /\ to.at \notin AtScale \cup AtClose
    BY DEF OpBuyAnswered, Ends, Idle, AtScale, AtClose
  <1>3. op[r].at \notin AtScale \cup AtClose
    BY <1>1 DEF AtScale, AtClose
  <1>4. CASE Track(op[r].sym, op[r].shares, op[r].entry, op[r].stop)
    <2>1. PICK s \in Symbols, shares \in 1 .. MaxPositionSize, entry \in Int, stop \in Int :
            Track(s, shares, entry, stop)
      <3>1. RequestTyped(op[r], Len(lots))
        BY DEF Typed, OpTyped
      <3>2. /\ op[r].sym \in Symbols /\ op[r].shares \in 1 .. MaxPositionSize
            /\ op[r].entry \in Int /\ op[r].stop \in Int
        BY <1>1, <3>1 DEF RequestTyped
      <3>3. QED
        BY <1>4, <3>2
    <2>2. \A q \in Slots : op'[q].at \notin AtScale \cup AtClose \/ op'[q] = op[q]
      BY <1>2, OrderingMoves DEF Typed
    <2>3. \A i \in 1 .. Len(lots) : /\ Holders(AtScale, i)' = Holders(AtScale, i)
                                    /\ Holders(AtClose, i)' = Holders(AtClose, i)
      <3>1. ASSUME NEW i \in 1 .. Len(lots)
            PROVE  /\ Holders(AtScale, i)' = Holders(AtScale, i)
                   /\ Holders(AtClose, i)' = Holders(AtClose, i)
        <4>1. /\ Holders(AtScale, i)' = Holders(AtScale, i) + One(to.at \in AtScale /\ to.lot = i)
                                          - One(op[r].at \in AtScale /\ op[r].lot = i)
              /\ Holders(AtClose, i)' = Holders(AtClose, i) + One(to.at \in AtClose /\ to.lot = i)
                                          - One(op[r].at \in AtClose /\ op[r].lot = i)
          BY <1>2, HoldersMove DEF Typed
        <4>2. Holders(AtScale, i) \in Int /\ Holders(AtClose, i) \in Int
          BY HoldersNumber
        <4>3. QED
          BY <1>2, <1>3, <4>1, <4>2 DEF One
      <3>2. QED
        BY <3>1
    <2>4. OpTyped'
      BY OpBuyAnsweredTyped DEF Typed
    <2>5. QED
      BY <1>1, <2>1, <2>2, <2>3, <2>4, ActsTracked
  <1>5. CASE UNCHANGED <<lots, book, acct, risk, late>>
    BY <1>1, <1>2, <1>3, <1>5, ActsElsewhere
  <1>6. QED
    BY <1>4, <1>5 DEF OpBuyAnswered

\* The answer to an order of the loop.
LEMMA ActsBought ==
  ASSUME Typed, ActsInv, BuyAnswered
  PROVE  ActsInv'
  <1>1. loop.at = "buying" /\ UNCHANGED <<journal, op>> /\ loop'.at = "strategy"
    BY DEF BuyAnswered, Strategy
  <1>2. CASE Track(loop.sym, loop.shares, loop.entry, loop.stop)
    <2>1. PICK s \in Symbols, shares \in 1 .. MaxPositionSize, entry \in Int, stop \in Int :
            Track(s, shares, entry, stop)
      BY <1>1, <1>2 DEF Typed, LoopTyped, OrderRecords
    <2>2. \A i \in 1 .. Len(lots) : /\ Holders(AtScale, i)' = Holders(AtScale, i)
                                    /\ Holders(AtClose, i)' = Holders(AtClose, i)
      BY <1>1, HoldersStay
    <2>3. OpTyped'
      BY BuyAnsweredTyped DEF Typed
    <2>4. QED
      BY <1>1, <2>1, <2>2, <2>3, ActsTracked
  <1>3. CASE UNCHANGED <<lots, book, acct, risk, late>>
    BY <1>1, <1>3, ActsAway
  <1>4. QED
    BY <1>2, <1>3 DEF BuyAnswered

\* At the start nothing is bought, and then every step keeps it.
LEMMA ActsInit == Init => ActsInv
  <1> SUFFICES ASSUME Init PROVE ActsInv
    OBVIOUS
  <1>1. lots = <<>> /\ journal = <<>> /\ loop.at = "idle" /\ \A r \in Slots : op[r].at = "idle"
    BY DEF Init, Idle
  <1>2. 1 .. Len(lots) = {} /\ DOMAIN journal = {}
    BY <1>1
  <1>3. QED
    BY <1>1, <1>2 DEF ActsInv, LoopKnows, RequestsKnow

\* Every step keeps it.
LEMMA ActsNext == Typed /\ ActsInv /\ [Next]_vars => ActsInv'
  <1>1. ASSUME Typed, ActsInv, UNCHANGED vars PROVE ActsInv'
    <2>1. UNCHANGED <<lots, book, journal, loop, op>>
      BY <1>1 DEF vars
    <2>2. \A i \in 1 .. Len(lots) : /\ SameLot(i)
                                    /\ Holders(AtScale, i)' = Holders(AtScale, i)
                                    /\ Holders(AtClose, i)' = Holders(AtClose, i)
                                    /\ LoopScales(i)' => LoopScales(i)
                                    /\ LoopCloses(i)' => LoopCloses(i)
      BY <2>1, HoldersStay DEF SameLot, LoopScales, LoopCloses
    <2>3. LoopKnows' /\ RequestsKnow'
      BY <1>1, <2>1, LoopKnowsStill, RequestsKnowStill DEF ActsInv
    <2>4. QED
      BY <1>1, <2>1, <2>2, <2>3, ActsKept
  <1>2. ASSUME Typed, ActsInv, LoopNext PROVE ActsInv'
    <2>1. CASE StartIteration \/ StartStrategy \/ PickSymbol \/ Decide \/ SendBuy \/ EndIteration
      <3>1. UNCHANGED <<lots, book, journal, op>>
        BY <2>1 DEF StartIteration, StartStrategy, PickSymbol, Decide, SendBuy, EndIteration
      <3>2. loop'.at \notin {"exits", "selling", "reporting"}
        <4>1. CASE StartIteration \/ StartStrategy \/ PickSymbol \/ EndIteration
          BY <4>1 DEF StartIteration, StartStrategy, PickSymbol, EndIteration, Strategy, Idle
        <4>2. CASE Decide
          <5>1. loop'.at \in {"strategy", "signalled"}
            BY <1>2, <4>2, DecideTyped
          <5>2. QED
            BY <5>1
        <4>3. CASE SendBuy
          <5>1. loop'.at \in {"strategy", "buying"}
            BY <1>2, <4>3, SendBuyTyped
          <5>2. QED
            BY <5>1
        <4>4. QED
          BY <2>1, <4>1, <4>2, <4>3
      <3>3. QED
        BY <1>2, <3>1, <3>2, ActsAway
    <2>2. QED
      BY <1>2, <2>1, ActsBought, ActsStartExits, ActsMonitor, ActsLoopScaled, ActsLoopClosed,
         ActsReported DEF LoopNext
  <1>3. ASSUME Typed, ActsInv, OpNext PROVE ActsInv'
    <2>1. PICK r \in Slots :
            \/ AskClose(r) \/ AskScale(r) \/ OpQuoted(r) \/ OpScaledOut(r) \/ OpClosedOut(r)
            \/ MoveStop(r) \/ ManualBuy(r) \/ ManualTrade(r) \/ OpBuyAnswered(r) \/ OpStopSet(r)
            \/ ManualSell(r) \/ OpSellAnswered(r) \/ AskFlatten(r) \/ Flattened(r) \/ HaltDay(r)
            \/ PauseOrResume(r) \/ ManualScan(r) \/ SetOverride(r)
      BY <1>3 DEF OpNext
    <2>2. QED
      BY <1>1, <1>3, <2>1, ActsAskClose, ActsAskScale, ActsQuoted, ActsOpScaled, ActsOpClosed,
         ActsStop, ActsOpBought, ActsOthers
  <1>4. QED
    BY <1>1, <1>2, <1>3 DEF Next

\* However many requests of the operator hold a lot over their awaits beside the
\* monitor, and in whatever order they act (_run_exits, scale_out_position,
\* close_position): each sells its half or closes the lot once, so a lot is
\* closed once more than was asked at the most, and the halves oversell only what
\* scale-outs asked beside the first one and the monitor's can sell.
THEOREM EveryoneActsOnce == Spec => []EachActsOnce
  <1>1. Typed /\ ActsInv => EachActsOnce
    <2>1. SUFFICES ASSUME Typed, ActsInv, NEW i \in DOMAIN lots
                   PROVE  /\ Cardinality(CloseRecords(i)) <= 1 + lots[i].closers
                          /\ lots[i].shares >= -(Max({0, lots[i].scalers - 1}) * Half(lots[i].bought))
      BY DEF EachActsOnce, CloseRecords
    <2>2. i \in 1 .. Len(lots) /\ HalvesLeft(i) /\ ClosesLeft(i)
      BY <2>1, LotFacts DEF Typed, ActsInv
    <2>3. /\ lots[i].shares \in Int /\ lots[i].bought \in Nat \ {0} /\ lots[i].scalers \in Nat
          /\ lots[i].closers \in Nat /\ Sales(i) \in Int /\ Sales(i) <= lots[i].scalers + 1
      BY <2>1, <2>2, LotNumbers
    <2>4. lots[i].shares >= -(Max({0, lots[i].scalers - 1}) * Half(lots[i].bought))
      BY <2>2, <2>3, SalesEnd DEF HalvesLeft
    <2>5. Holders(AtClose, i) \in Nat /\ LoopClose(i) \in {0, 1} /\ Cardinality(CloseRecords(i)) \in Nat
      BY <2>1, HoldersNumber, RecordsNumber DEF LoopClose, One
    <2>6. Cardinality(CloseRecords(i)) <= 1 + lots[i].closers
      <3>1. Cardinality(CloseRecords(i)) + Holders(AtClose, i) + LoopClose(i) <= 1 + lots[i].closers
        BY <2>2 DEF ClosesLeft
      <3>2. QED
        BY <2>3, <2>5, <3>1
    <2>7. QED
      BY <2>4, <2>6
  <1>2. QED
    BY TypedInit, TypedNext, ActsInit, ActsNext, <1>1, PTL DEF Spec

(***************************************************************************)
(* The drawdown of the performance report.                                 *)
(***************************************************************************)

\* One step of the walk over the equity curve, as DrawdownWalk takes it.
DeeperFall(drop, peak, worst) == peak > 0 /\ drop * worst.peak > worst.drop * peak

WalkStep(w, running) ==
  IF running > w.peak
  THEN [w EXCEPT !.peak = running, !.trough = running]
  ELSE IF running < w.trough
  THEN [w EXCEPT !.trough = running,
                 !.worst = IF DeeperFall(w.peak - running, w.peak, @)
                           THEN [drop |-> w.peak - running, peak |-> w.peak] ELSE @]
  ELSE w

WalkStart == [peak |-> 0, trough |-> 0, worst |-> [drop |-> 0, peak |-> 1]]

\* The walk over the places of a set, the last of them last.
Walks(g, curve, S) ==
  g = [s \in SUBSET S |-> IF s = {} THEN WalkStart ELSE WalkStep(g[s \ {Max(s)}], curve[Max(s)])]

Walker(curve, S) == CHOOSE g : Walks(g, curve, S)

\* DrawdownWalk is such a walk over all places.
LEMMA WalkIs ==
  ASSUME NEW j
  PROVE  DrawdownWalk(j)
           = LET curve == RunningPnl(ByExit(j))
             IN  Walker(curve, DOMAIN curve)[DOMAIN curve].worst
  BY DEF DrawdownWalk, FoldLeft, MapThenFoldSet, Walker, Walks, WalkStep, WalkStart, DeeperFall

\* Two walks agree where both are defined.
LEMMA WalksAgree ==
  ASSUME NEW S \in SUBSET Nat, NEW T \in SUBSET Nat, NEW curve, NEW g, NEW k,
         Walks(g, curve, S), Walks(k, curve, T),
         NEW U, IsFiniteSet(U), U \subseteq S, U \subseteq T
  PROVE  g[U] = k[U]
  <1> DEFINE F == {V \in SUBSET U : g[V] # k[V]}
  <1>1. SUFFICES ASSUME g[U] # k[U] PROVE FALSE
    OBVIOUS
  <1>2. F \in SUBSET FiniteSubsetsOf(U) /\ F # {}
    BY <1>1, FS_FiniteSubsetsOfFinite
  <1>3. PICK V \in F : \A W \in F : W \subseteq V => W = V
    <2> HIDE DEF F
    <2> QED BY <1>2, SmallestSet
  <1>4. /\ g[V] = IF V = {} THEN WalkStart ELSE WalkStep(g[V \ {Max(V)}], curve[Max(V)])
        /\ k[V] = IF V = {} THEN WalkStart ELSE WalkStep(k[V \ {Max(V)}], curve[Max(V)])
    <2>1. V \in SUBSET S /\ V \in SUBSET T
      OBVIOUS
    <2>2. QED
      BY <2>1 DEF Walks
  <1>5. V # {} /\ V # V \ {Max(V)}
    <2>1. V # {}
      BY <1>4
    <2>2. V \in SUBSET Int /\ IsFiniteSet(V)
      <3>1. V \subseteq U
        OBVIOUS
      <3> HIDE DEF F
      <3>2. IsFiniteSet(V)
        BY <3>1, FS_Subset
      <3>3. V \subseteq Int
        BY <3>1
      <3>4. QED
        BY <3>2, <3>3
    <2>3. Max(V) \in V
      BY <2>1, <2>2, MaxFacts
    <2>4. QED
      BY <2>1, <2>3
  <1>6. g[V \ {Max(V)}] = k[V \ {Max(V)}]
    BY <1>3, <1>5
  <1>7. QED
    BY <1>4, <1>5, <1>6

\* There is a walk over every finite set of places.
LEMMA WalkExists ==
  ASSUME NEW curve, NEW S \in SUBSET Nat, IsFiniteSet(S)
  PROVE  Walks(Walker(curve, S), curve, S)
  <1> DEFINE F == {T \in SUBSET S : ~Walks(Walker(curve, T), curve, T)}
  <1>1. SUFFICES ASSUME F # {} PROVE FALSE
    OBVIOUS
  <1>2. F \in SUBSET FiniteSubsetsOf(S)
    BY FS_FiniteSubsetsOfFinite
  <1>3. PICK T \in F : \A V \in F : V \subseteq T => V = T
    <2> HIDE DEF F
    <2> QED BY <1>1, <1>2, SmallestSet
  <1>4. \A V \in SUBSET T : V # T => Walks(Walker(curve, V), curve, V)
    BY <1>3
  <1> DEFINE Rest(s) == s \ {Max(s)}
             h == [s \in SUBSET T |-> IF s = {} THEN WalkStart
                                      ELSE WalkStep(Walker(curve, Rest(s))[Rest(s)], curve[Max(s)])]
  <1>p. ASSUME NEW s \in SUBSET T, s # {} PROVE Max(s) \in s
    <2>1. s \in SUBSET Int /\ IsFiniteSet(s)
      <3>1. s \subseteq S
        OBVIOUS
      <3> HIDE DEF F
      <3>2. IsFiniteSet(s)
        BY <3>1, FS_Subset
      <3>3. s \subseteq Int
        BY <3>1
      <3>4. QED
        BY <3>2, <3>3
    <2>2. QED
      BY <1>p, <2>1, MaxFacts
  <1>5. ASSUME NEW s \in SUBSET T, s # {}
        PROVE  h[Rest(s)] = Walker(curve, Rest(s))[Rest(s)]
    <2> DEFINE r == Rest(s)
    <2>1. r \in SUBSET T /\ r # T
      BY <1>p, <1>5
    <2>2. Walks(Walker(curve, r), curve, r)
      BY <2>1, <1>4
    <2>3. Walker(curve, r)[r] = IF r = {} THEN WalkStart
                                ELSE WalkStep(Walker(curve, r)[Rest(r)], curve[Max(r)])
      BY <2>2 DEF Walks
    <2>4. CASE r # {}
      <3>1. Rest(r) \subseteq r /\ Rest(r) \subseteq T /\ Rest(r) # T
        BY <2>1
      <3>2. Walks(Walker(curve, Rest(r)), curve, Rest(r))
        BY <3>1, <1>4
      <3>3. IsFiniteSet(Rest(r)) /\ r \in SUBSET Nat /\ Rest(r) \in SUBSET Nat
        BY <2>1, <3>1, FS_Subset
      <3>4. Walker(curve, r)[Rest(r)] = Walker(curve, Rest(r))[Rest(r)]
        <4> HIDE DEF r, Rest
        <4> QED BY <2>2, <3>1, <3>2, <3>3, WalksAgree
      <3>5. QED
        BY <2>1, <2>3, <2>4, <3>4
    <2>5. CASE r = {}
      BY <2>1, <2>3, <2>5
    <2>6. QED
      BY <2>4, <2>5
  <1>6. Walks(h, curve, T)
    BY <1>5 DEF Walks
  <1>7. Walks(Walker(curve, T), curve, T)
    <2> HIDE DEF h
    <2> QED BY <1>6 DEF Walker
  <1>8. QED
    BY <1>7

\* And can be cancelled.
LEMMA TimesCancel ==
  ASSUME NEW a \in Int, NEW b \in Int, NEW c \in Nat \ {0}, a * c <= b * c
  PROVE  a <= b
  <1>1. SUFFICES ASSUME b < a PROVE FALSE
    OBVIOUS
  <1>2. b + 1 <= a /\ b + 1 \in Int
    BY <1>1
  <1>3. (b + 1) * c <= a * c
    BY <1>2, TimesMonotone
  <1>4. (b + 1) * c = b * c + c
    OBVIOUS
  <1>5. a * c \in Int /\ b * c \in Int
    OBVIOUS
  <1>6. QED
    BY <1>3, <1>4, <1>5

\* Falls are compared as fractions of their peaks: a fall that was no deeper
\* than the worst is no deeper than one that is deeper than the worst.
LEMMA FallsCompare ==
  ASSUME NEW a \in Int, NEW b \in Nat \ {0}, NEW w \in Int, NEW v \in Nat \ {0},
         NEW d \in Int, NEW p \in Nat \ {0}, a * v <= w * b, w * p <= d * v
  PROVE  a * p <= d * b
  <1>1. /\ a * v \in Int /\ w * b \in Int /\ w * p \in Int /\ d * v \in Int
        /\ a * p \in Int /\ d * b \in Int
    OBVIOUS
  <1>2. (a * v) * p <= (w * b) * p
    BY <1>1, TimesMonotone
  <1>3. (w * p) * b <= (d * v) * b
    BY <1>1, TimesMonotone
  <1>4. (a * v) * p = (a * p) * v /\ (w * b) * p = (w * p) * b /\ (d * v) * b = (d * b) * v
    OBVIOUS
  <1>5. (a * p) * v <= (d * b) * v
    <2> DEFINE x == (a * p) * v
               y == (w * p) * b
               z == (d * b) * v
    <2>1. x \in Int /\ y \in Int /\ z \in Int
      BY <1>1
    <2>2. x <= y /\ y <= z
      BY <1>2, <1>3, <1>4
    <2> HIDE DEF x, y, z
    <2>3. x <= z
      BY <2>1, <2>2
    <2>4. QED
      BY <2>3 DEF x, z
  <1>6. QED
    BY <1>1, <1>5, TimesCancel

(***************************************************************************)
(* What the walk has found after m places of a curve.                      *)
(***************************************************************************)

WalkStates == [peak : Nat, trough : Int, worst : [drop : Nat, peak : Nat \ {0}]]

HighUntil(curve, i, j) == curve[i] > 0 /\ \A k \in 1 .. (j - 1) : curve[k] <= curve[i]

\* The fall from i to j is no deeper than the worst.
NoDeeper(curve, worst, i, j) ==
  (curve[i] - curve[j]) * worst.peak <= worst.drop * curve[i]

\* The peak is the highest point so far, or 0; the trough is not above it and
\* no deeper a fall than the worst, which is a fall of the curve.
Walked(w, curve, m) ==
  /\ w \in WalkStates
  /\ \A k \in 1 .. m : curve[k] <= w.peak
  /\ w.peak = 0 \/ \E k \in 1 .. m : curve[k] = w.peak
  /\ w.trough <= w.peak
  /\ (w.peak - w.trough) * w.worst.peak <= w.worst.drop * w.peak \/ w.peak = 0
  /\ w.worst.drop > 0 =>
        \E i, j \in 1 .. m : w.worst = [drop |-> curve[i] - curve[j], peak |-> curve[i]]
  /\ \A i, j \in 1 .. m : i < j /\ HighUntil(curve, i, j) => NoDeeper(curve, w.worst, i, j)

\* Before the first place nothing has fallen.
LEMMA WalkedStart == ASSUME NEW curve PROVE Walked(WalkStart, curve, 0)
  BY DEF Walked, WalkStart, WalkStates

\* Who is high until the next place is as high as the peak.
LEMMA HighIsPeak ==
  ASSUME NEW curve, NEW m \in Nat, \A k \in 1 .. m : curve[k] \in Int, NEW w, Walked(w, curve, m),
         NEW i \in 1 .. m, HighUntil(curve, i, m + 1)
  PROVE  curve[i] = w.peak /\ w.peak > 0
  <1>1. /\ curve[i] > 0 /\ \A k \in 1 .. m : curve[k] <= curve[i]
    BY DEF HighUntil
  <1>2. /\ curve[i] <= w.peak /\ w.peak \in Nat
        /\ w.peak = 0 \/ \E k \in 1 .. m : curve[k] = w.peak
    BY DEF Walked, WalkStates
  <1>3. QED
    BY <1>1, <1>2

\* A step of the walk keeps that up.
LEMMA WalkedNext ==
  ASSUME NEW curve, NEW m \in Nat, \A k \in 1 .. (m + 1) : curve[k] \in Int,
         NEW w, Walked(w, curve, m)
  PROVE  Walked(WalkStep(w, curve[m + 1]), curve, m + 1)
  <1> DEFINE r == curve[m + 1]
             x == WalkStep(w, r)
  <1>1. /\ w.peak \in Nat /\ w.trough \in Int /\ w.worst \in [drop : Nat, peak : Nat \ {0}]
        /\ w.worst.drop \in Nat /\ w.worst.peak \in Nat \ {0}
        /\ w = [peak |-> w.peak, trough |-> w.trough, worst |-> w.worst]
    BY DEF Walked, WalkStates
  <1>2. /\ \A k \in 1 .. m : curve[k] \in Int /\ curve[k] <= w.peak
        /\ w.peak = 0 \/ \E k \in 1 .. m : curve[k] = w.peak
        /\ w.trough <= w.peak
        /\ (w.peak - w.trough) * w.worst.peak <= w.worst.drop * w.peak \/ w.peak = 0
        /\ w.worst.drop > 0 =>
              \E i, j \in 1 .. m : w.worst = [drop |-> curve[i] - curve[j], peak |-> curve[i]]
        /\ \A i, j \in 1 .. m : i < j /\ HighUntil(curve, i, j) => NoDeeper(curve, w.worst, i, j)
    BY DEF Walked
  <1>3. r \in Int /\ 1 .. (m + 1) = 1 .. m \cup {m + 1} /\ m + 1 \in 1 .. (m + 1)
    OBVIOUS
  <1>4. \A i \in 1 .. m : HighUntil(curve, i, m + 1) => curve[i] = w.peak /\ w.peak > 0
    BY <1>2, HighIsPeak
  <1> HIDE DEF r
  <1>5. ASSUME NEW worst, worst.drop > 0 /\ worst = w.worst
        PROVE  \E i, j \in 1 .. (m + 1) : worst = [drop |-> curve[i] - curve[j], peak |-> curve[i]]
    BY <1>2, <1>3, <1>5
  \* The new place ends a fall; the falls that ended before are the old ones.
  <1>6. ASSUME NEW worst,
               \A i, j \in 1 .. m : i < j /\ HighUntil(curve, i, j) => NoDeeper(curve, worst, i, j),
               w.peak > 0 => (w.peak - r) * worst.peak <= worst.drop * w.peak
        PROVE  \A i, j \in 1 .. (m + 1) :
                  i < j /\ HighUntil(curve, i, j) => NoDeeper(curve, worst, i, j)
    <2> SUFFICES ASSUME NEW i \in 1 .. (m + 1), NEW j \in 1 .. (m + 1), i < j,
                        HighUntil(curve, i, j)
                 PROVE  NoDeeper(curve, worst, i, j)
      OBVIOUS
    <2>1. i \in 1 .. m
      OBVIOUS
    <2>2. CASE j \in 1 .. m
      BY <1>6, <2>1, <2>2
    <2>3. CASE j = m + 1
      <3>1. curve[i] = w.peak /\ w.peak > 0 /\ curve[j] = r
        BY <1>4, <2>1, <2>3 DEF r
      <3>2. QED
        BY <1>6, <3>1 DEF NoDeeper
    <2>4. QED
      BY <1>3, <2>2, <2>3
  <1>7. CASE r > w.peak
    <2>1. x = [peak |-> r, trough |-> r, worst |-> w.worst]
      BY <1>1, <1>7 DEF WalkStep
    <2>2. x.peak = r /\ x.trough = r /\ x.worst = w.worst /\ r \in Nat
      BY <1>1, <1>3, <1>7, <2>1
    <2>3. x \in WalkStates
      BY <1>1, <2>1, <2>2 DEF WalkStates
    <2>4. (r - r) * w.worst.peak <= w.worst.drop * r
      <3>1. w.worst.drop * r >= 0
        BY <1>1, <2>2
      <3>2. r - r = 0 /\ 0 * w.worst.peak = 0
        BY <1>1, <1>3
      <3>3. QED
        BY <3>1, <3>2
    <2>5. (w.peak - r) * w.worst.peak <= w.worst.drop * w.peak
      <3>1. (w.peak - r) * w.worst.peak <= 0 * w.worst.peak
        <4>1. w.peak - r \in Int /\ 0 \in Int /\ w.worst.peak \in Nat /\ w.peak - r <= 0
          BY <1>1, <1>3, <1>7
        <4>2. QED
          BY <4>1, TimesMonotone
      <3>2. 0 * w.worst.peak = 0 /\ w.worst.drop * w.peak >= 0
        BY <1>1
      <3>3. (w.peak - r) * w.worst.peak \in Int /\ w.worst.drop * w.peak \in Int
        BY <1>1, <1>3
      <3>4. QED
        BY <3>1, <3>2, <3>3
    <2>6. \A i, j \in 1 .. (m + 1) :
             i < j /\ HighUntil(curve, i, j) => NoDeeper(curve, w.worst, i, j)
      BY <1>2, <1>6, <2>5
    <2>7. \A k \in 1 .. (m + 1) : curve[k] <= r
      BY <1>1, <1>2, <1>3, <1>7 DEF r
    <2> HIDE DEF x
    <2>8. QED
      <3>1. \E k \in 1 .. (m + 1) : curve[k] = r
        BY <1>3 DEF r
      <3>2. x.worst.drop > 0 =>
              \E i, j \in 1 .. (m + 1) : x.worst = [drop |-> curve[i] - curve[j], peak |-> curve[i]]
        BY <1>5, <2>2
      <3>3. x.trough <= x.peak
        BY <2>2
      <3>4. (x.peak - x.trough) * x.worst.peak <= x.worst.drop * x.peak
        BY <2>2, <2>4
      <3>5. \A i, j \in 1 .. (m + 1) :
               i < j /\ HighUntil(curve, i, j) => NoDeeper(curve, x.worst, i, j)
        BY <2>2, <2>6
      <3>6. Walked(x, curve, m + 1)
        BY <2>2, <2>3, <2>7, <3>1, <3>2, <3>3, <3>4, <3>5 DEF Walked
      <3>7. QED
        BY <3>6 DEF x, r
  <1>8. ASSUME r <= w.peak
        PROVE  /\ \A k \in 1 .. (m + 1) : curve[k] <= w.peak
               /\ w.peak = 0 \/ \E k \in 1 .. (m + 1) : curve[k] = w.peak
    BY <1>2, <1>3, <1>8 DEF r
  <1>9. CASE r <= w.peak /\ r < w.trough /\ DeeperFall(w.peak - r, w.peak, w.worst)
    <2> DEFINE worst == [drop |-> w.peak - r, peak |-> w.peak]
    <2>1. x = [peak |-> w.peak, trough |-> r, worst |-> worst]
      <3>1. ~(r > w.peak)
        BY <1>1, <1>3, <1>9
      <3>2. x = [w EXCEPT !.trough = r, !.worst = worst]
        BY <1>9, <3>1 DEF WalkStep
      <3> HIDE DEF x, worst
      <3>3. QED
        BY <1>1, <3>2
    <2>2. /\ w.peak > 0 /\ (w.peak - r) * w.worst.peak > w.worst.drop * w.peak
          /\ w.peak - r \in Nat
      BY <1>1, <1>3, <1>9 DEF DeeperFall
    <2>3. x.peak = w.peak /\ x.trough = r /\ x.worst = worst /\ x \in WalkStates
      BY <1>1, <1>3, <2>1, <2>2 DEF WalkStates
    <2>4. worst.drop = w.peak - r /\ worst.peak = w.peak
      OBVIOUS
    <2> HIDE DEF worst
    <2>5. (w.peak - r) * worst.peak <= worst.drop * w.peak
      BY <1>1, <1>3, <2>4
    <2>6. ASSUME NEW i \in 1 .. m, NEW j \in 1 .. m, i < j, HighUntil(curve, i, j)
          PROVE  NoDeeper(curve, worst, i, j)
      <3>1. NoDeeper(curve, w.worst, i, j) /\ curve[i] > 0 /\ curve[i] \in Int /\ curve[j] \in Int
        BY <1>2, <2>6 DEF HighUntil
      <3>2. (curve[i] - curve[j]) * w.worst.peak <= w.worst.drop * curve[i]
        BY <3>1 DEF NoDeeper
      <3>3. curve[i] - curve[j] \in Int /\ curve[i] \in Nat \ {0} /\ w.peak \in Nat \ {0}
            /\ w.peak - r \in Int /\ w.worst.drop \in Int /\ w.worst.peak \in Nat \ {0}
        BY <1>1, <1>3, <2>2, <3>1
      <3>4. w.worst.drop * w.peak <= (w.peak - r) * w.worst.peak
        <4>1. w.worst.drop * w.peak \in Int /\ (w.peak - r) * w.worst.peak \in Int
          BY <1>1, <1>3
        <4>2. QED
          BY <2>2, <4>1
      <3>5. (curve[i] - curve[j]) * w.peak <= (w.peak - r) * curve[i]
        <4> DEFINE a == curve[i] - curve[j]
                   b == curve[i]
                   d == w.peak - r
                   p == w.peak
                   v == w.worst.peak
                   z == w.worst.drop
        <4>1. /\ a \in Int /\ b \in Nat \ {0} /\ d \in Int /\ p \in Nat \ {0}
              /\ v \in Nat \ {0} /\ z \in Int
          BY <3>3
        <4>2. a * v <= z * b /\ z * p <= d * v
          BY <3>2, <3>4
        <4> HIDE DEF a, b, d, p, v, z
        <4>3. a * p <= d * b
          BY <4>1, <4>2, FallsCompare
        <4>4. QED
          BY <4>3 DEF a, b, d, p
      <3>6. QED
        BY <2>4, <3>5 DEF NoDeeper
    <2>7. \A i, j \in 1 .. (m + 1) : i < j /\ HighUntil(curve, i, j) => NoDeeper(curve, worst, i, j)
      BY <1>6, <2>5, <2>6
    <2>8. \E i, j \in 1 .. (m + 1) : worst = [drop |-> curve[i] - curve[j], peak |-> curve[i]]
      <3>1. PICK k \in 1 .. m : curve[k] = w.peak
        BY <1>1, <1>2, <2>2
      <3>2. k \in 1 .. (m + 1) /\ worst = [drop |-> curve[k] - curve[m + 1], peak |-> curve[k]]
        BY <1>3, <3>1 DEF worst, r
      <3>3. QED
        BY <1>3, <3>2
    <2> HIDE DEF x
    <2>9. QED
      BY <1>3, <1>8, <1>9, <2>3, <2>5, <2>7, <2>8 DEF Walked, x, r
  <1>10. CASE r <= w.peak /\ ~(r < w.trough /\ DeeperFall(w.peak - r, w.peak, w.worst))
    <2> DEFINE trough == IF r < w.trough THEN r ELSE w.trough
    <2>1. x = [peak |-> w.peak, trough |-> trough, worst |-> w.worst]
      <3>1. ~(r > w.peak)
        BY <1>1, <1>3, <1>10
      <3>2. CASE r < w.trough
        BY <1>1, <1>10, <3>1, <3>2 DEF WalkStep
      <3>3. CASE ~(r < w.trough)
        BY <1>1, <3>1, <3>3 DEF WalkStep
      <3>4. QED
        BY <3>2, <3>3
    <2>2. trough \in Int /\ trough <= r /\ trough <= w.peak
      BY <1>1, <1>2, <1>3, <1>10
    <2>3. (w.peak - trough) * w.worst.peak <= w.worst.drop * w.peak \/ w.peak = 0
      <3>1. CASE r < w.trough
        <4>1. (w.peak - r) * w.worst.peak \in Int /\ w.worst.drop * w.peak \in Int
          BY <1>1, <1>3
        <4>2. w.peak = 0 \/ (w.peak - r) * w.worst.peak <= w.worst.drop * w.peak
          BY <1>1, <1>10, <3>1, <4>1 DEF DeeperFall
        <4>3. QED
          BY <3>1, <4>2
      <3>2. CASE ~(r < w.trough)
        BY <1>2, <3>2
      <3>3. QED
        BY <3>1, <3>2
    <2> HIDE DEF trough
    <2>4. x.peak = w.peak /\ x.trough = trough /\ x.worst = w.worst /\ x \in WalkStates
      BY <1>1, <2>1, <2>2 DEF WalkStates
    <2>5. w.peak > 0 => (w.peak - r) * w.worst.peak <= w.worst.drop * w.peak
      <3>1. (w.peak - r) * w.worst.peak <= (w.peak - trough) * w.worst.peak
        <4>1. w.peak - r \in Int /\ w.peak - trough \in Int /\ w.peak - r <= w.peak - trough
          BY <1>1, <1>3, <2>2
        <4>2. QED
          BY <1>1, <4>1, TimesMonotone
      <3>2. /\ (w.peak - r) * w.worst.peak \in Int /\ (w.peak - trough) * w.worst.peak \in Int
            /\ w.worst.drop * w.peak \in Int
        BY <1>1, <1>3, <2>2
      <3>3. QED
        BY <2>3, <3>1, <3>2
    <2>6. \A i, j \in 1 .. (m + 1) :
             i < j /\ HighUntil(curve, i, j) => NoDeeper(curve, w.worst, i, j)
      BY <1>2, <1>6, <2>5
    <2>7. x.worst.drop > 0 =>
            \E i, j \in 1 .. (m + 1) : x.worst = [drop |-> curve[i] - curve[j], peak |-> curve[i]]
      BY <1>5, <2>4
    <2> HIDE DEF x
    <2>8. QED
      BY <1>8, <1>10, <2>2, <2>3, <2>4, <2>6, <2>7 DEF Walked, x, r
  <1>11. QED
    BY <1>1, <1>3, <1>7, <1>9, <1>10 DEF x, r

\* After any number of places of a curve of numbers.
LEMMA WalkedAlong ==
  ASSUME NEW n \in Nat, NEW curve, \A k \in 1 .. n : curve[k] \in Int
  PROVE  Walked(Walker(curve, 1 .. n)[1 .. n], curve, n)
  <1> DEFINE At(m) == Walker(curve, 1 .. n)[1 .. m]
             F == {m \in 0 .. n : ~Walked(At(m), curve, m)}
  <1>1. Walks(Walker(curve, 1 .. n), curve, 1 .. n)
    <2>1. IsFiniteSet(1 .. n) /\ 1 .. n \in SUBSET Nat
      BY FS_Interval
    <2>2. QED
      BY <2>1, WalkExists
  <1>2. At(0) = WalkStart
    <2>1. 1 .. 0 = {} /\ 1 .. 0 \in SUBSET (1 .. n)
      OBVIOUS
    <2>2. QED
      BY <1>1, <2>1 DEF Walks
  <1>3. ASSUME NEW m \in 0 .. (n - 1)
        PROVE  At(m + 1) = WalkStep(At(m), curve[m + 1])
    <2> DEFINE s == 1 .. (m + 1)
    <2>1. s \in SUBSET (1 .. n) /\ s # {} /\ s \in SUBSET Int /\ m + 1 \in s
          /\ \A y \in s : m + 1 >= y
      OBVIOUS
    <2>2. s \ {m + 1} = 1 .. m
      OBVIOUS
    <2> HIDE DEF s
    <2>3. Max(s) = m + 1
      BY <2>1, MaxIs
    <2>4. Walker(curve, 1 .. n)[s] = WalkStep(Walker(curve, 1 .. n)[s \ {Max(s)}], curve[Max(s)])
      BY <1>1, <2>1 DEF Walks
    <2>5. QED
      BY <2>2, <2>3, <2>4 DEF s
  <1>4. F = {}
    <2>1. SUFFICES ASSUME F # {} PROVE FALSE
      OBVIOUS
    <2>2. PICK m \in F : \A k \in F : m <= k
      <3>1. F \in SUBSET Nat
        OBVIOUS
      <3> HIDE DEF F
      <3>2. QED
        BY <2>1, <3>1, LeastNatural
    <2>3. m \in 0 .. n /\ ~Walked(At(m), curve, m)
      OBVIOUS
    <2> HIDE DEF At
    <2>4. m # 0
      BY <1>2, <2>3, WalkedStart
    <2>5. m - 1 \in 0 .. (n - 1) /\ m - 1 \in 0 .. n /\ m = (m - 1) + 1 /\ m - 1 \notin F
          /\ m - 1 \in Nat
      BY <2>2, <2>3, <2>4
    <2>6. Walked(At(m - 1), curve, m - 1)
      BY <2>5
    <2>7. \A k \in 1 .. ((m - 1) + 1) : curve[k] \in Int
      BY <2>5
    <2>8. Walked(WalkStep(At(m - 1), curve[(m - 1) + 1]), curve, (m - 1) + 1)
      BY <2>5, <2>6, <2>7, WalkedNext
    <2>9. At((m - 1) + 1) = WalkStep(At(m - 1), curve[(m - 1) + 1])
      BY <1>3, <2>5
    <2>10. QED
      BY <2>3, <2>5, <2>8, <2>9
  <1>5. n \in 0 .. n
    OBVIOUS
  <1>6. QED
    BY <1>4, <1>5

\* The results of a sequence of trades are as many numbers.
LEMMA PnlsAre ==
  ASSUME NEW j \in Seq(Closes)
  PROVE  Pnls(j) \in Seq(Int) /\ Len(Pnls(j)) = Len(j)
  <1>1. [lot |-> 0, shares |-> 0, pnl |-> 0, ts |-> 0, reason |-> "close"] \in Closes
    BY DEF Closes
  <1>2. QED
    BY <1>1, PnlsFacts

(***************************************************************************)
(* The trades in the order of their exits.  The place of a trade is one    *)
(* more than the number of those that left sooner.                         *)
(***************************************************************************)

SoonerThan(j, i) == {k \in DOMAIN j : Sooner(j, k, i)}
PlaceOf(j, i) == 1 + Cardinality(SoonerThan(j, i))
PlacedUpTo(j, m) == {i \in DOMAIN j : PlaceOf(j, i) <= m}

\* Trades are in a strict order.
LEMMA SoonerOrders ==
  ASSUME NEW j \in Seq(Closes), NEW a \in DOMAIN j, NEW b \in DOMAIN j, NEW c \in DOMAIN j
  PROVE  /\ ~Sooner(j, a, a)
         /\ a # b => Sooner(j, a, b) \/ Sooner(j, b, a)
         /\ Sooner(j, a, b) => ~Sooner(j, b, a)
         /\ Sooner(j, a, b) /\ Sooner(j, b, c) => Sooner(j, a, c)
  <1>1. a \in Nat /\ b \in Nat /\ c \in Nat
    BY LenProperties
  <1>2. j[a] \in Closes /\ j[b] \in Closes /\ j[c] \in Closes
    BY ElementOfSeq, LenProperties
  <1>3. j[a].ts \in Nat /\ j[b].ts \in Nat /\ j[c].ts \in Nat
    BY <1>2 DEF Closes
  <1>4. QED
    BY <1>1, <1>3 DEF Sooner

\* A trade that left sooner has an earlier place.
LEMMA PlacesRise ==
  ASSUME NEW j \in Seq(Closes), NEW a \in DOMAIN j, NEW b \in DOMAIN j
  PROVE  /\ PlaceOf(j, a) \in 1 .. Len(j)
         /\ Sooner(j, a, b) <=> PlaceOf(j, a) < PlaceOf(j, b)
         /\ PlaceOf(j, a) = PlaceOf(j, b) => a = b
  <1>1. Len(j) \in Nat /\ DOMAIN j = 1 .. Len(j)
    BY LenProperties
  <1>2. /\ IsFiniteSet(DOMAIN j) /\ Cardinality(DOMAIN j) = Len(j)
    <2> DEFINE n == Len(j)
    <2>1. n \in Nat /\ DOMAIN j = 1 .. n
      BY <1>1
    <2> HIDE DEF n
    <2>2. IsFiniteSet(1 .. n) /\ Cardinality(1 .. n) = IF 1 > n THEN 0 ELSE n - 1 + 1
      BY <2>1, FS_Interval
    <2>3. Cardinality(1 .. n) = n
      BY <2>1, <2>2
    <2>4. QED
      BY <2>1, <2>2, <2>3 DEF n
  <1>3. \A i \in DOMAIN j : IsFiniteSet(SoonerThan(j, i)) /\ Cardinality(SoonerThan(j, i)) \in Nat
    <2> TAKE i \in DOMAIN j
    <2>1. SoonerThan(j, i) \subseteq DOMAIN j
      BY DEF SoonerThan
    <2>2. QED
      BY <1>2, <2>1, FS_Subset, FS_CardinalityType
  <1>4. ASSUME NEW i \in DOMAIN j, NEW k \in DOMAIN j, Sooner(j, i, k)
        PROVE  PlaceOf(j, i) < PlaceOf(j, k)
    <2>1. i \in SoonerThan(j, k) /\ i \notin SoonerThan(j, i)
      BY <1>4, SoonerOrders DEF SoonerThan
    <2>2. SoonerThan(j, i) \subseteq SoonerThan(j, k)
      BY <1>4, SoonerOrders DEF SoonerThan
    <2>3. /\ Cardinality(SoonerThan(j, i)) <= Cardinality(SoonerThan(j, k))
          /\ Cardinality(SoonerThan(j, i)) # Cardinality(SoonerThan(j, k))
      BY <1>3, <2>1, <2>2, FS_Subset
    <2>4. QED
      BY <1>3, <2>3 DEF PlaceOf
  <1>5. PlaceOf(j, a) \in 1 .. Len(j)
    <2>1. SoonerThan(j, a) \subseteq DOMAIN j /\ a \notin SoonerThan(j, a)
      BY SoonerOrders DEF SoonerThan
    <2>2. Cardinality(SoonerThan(j, a)) <= Len(j) /\ Cardinality(SoonerThan(j, a)) # Len(j)
      BY <1>2, <2>1, FS_Subset
    <2>3. QED
      BY <1>1, <1>3, <2>2 DEF PlaceOf
  <1>6. PlaceOf(j, a) \in Int /\ PlaceOf(j, b) \in Int
    BY <1>3 DEF PlaceOf
  <1>7. Sooner(j, a, b) => PlaceOf(j, a) < PlaceOf(j, b)
    BY <1>4
  <1>8. Sooner(j, b, a) => PlaceOf(j, b) < PlaceOf(j, a)
    BY <1>4
  <1>9. a # b => Sooner(j, a, b) \/ Sooner(j, b, a)
    BY SoonerOrders
  <1>10. QED
    BY <1>5, <1>6, <1>7, <1>8, <1>9

\* Every place is taken.
LEMMA PlacesTaken ==
  ASSUME NEW j \in Seq(Closes), NEW p \in 1 .. Len(j)
  PROVE  \E i \in DOMAIN j : PlaceOf(j, i) = p
  <1> DEFINE S == DOMAIN j
             f == [i \in S |-> PlaceOf(j, i)]
  <1>1. S = 1 .. Len(j) /\ Len(j) \in Nat
    BY LenProperties
  <1>2. IsFiniteSet(S)
    BY <1>1, FS_Interval
  <1>3. f \in Injection(S, S)
    <2>1. \A i \in S : PlaceOf(j, i) \in S
      BY <1>1, PlacesRise
    <2>2. \A i, k \in S : PlaceOf(j, i) = PlaceOf(j, k) => i = k
      BY PlacesRise
    <2> HIDE DEF S
    <2>3. f \in [S -> S] /\ \A i, k \in S : f[i] = f[k] => i = k
      BY <2>1, <2>2
    <2>4. QED
      BY <2>3 DEF Injection, IsInjective
  <1>4. f \in Surjection(S, S)
    <2> HIDE DEF S, f
    <2> QED BY <1>2, <1>3, FS_Injection
  <1>5. PICK i \in S : f[i] = p
    <2>1. p \in S
      BY <1>1
    <2> HIDE DEF S, f
    <2>2. QED
      BY <1>4, <2>1 DEF Surjection
  <1>6. QED
    BY <1>5

\* What the sort does: each trade comes to its place.
LEMMA ByExitIs ==
  ASSUME NEW j \in Seq(Closes)
  PROVE  /\ ByExit(j) \in Seq(Closes) /\ Len(ByExit(j)) = Len(j)
         /\ \A i \in DOMAIN j : ByExit(j)[PlaceOf(j, i)] = j[i]
  <1> DEFINE Of(p) == CHOOSE i \in DOMAIN j : PlaceOf(j, i) = p
             sorted == [p \in DOMAIN j |-> j[Of(p)]]
  <1>1. ByExit(j) = sorted
    BY DEF ByExit, PlaceOf, SoonerThan
  <1>2. Len(j) \in Nat /\ DOMAIN j = 1 .. Len(j)
    BY LenProperties
  <1>3. \A p \in DOMAIN j : Of(p) \in DOMAIN j /\ PlaceOf(j, Of(p)) = p
    BY <1>2, PlacesTaken
  <1>4. ASSUME NEW i \in DOMAIN j
        PROVE  PlaceOf(j, i) \in DOMAIN j /\ Of(PlaceOf(j, i)) = i
    <2>1. PlaceOf(j, i) \in DOMAIN j
      BY <1>2, PlacesRise
    <2>2. Of(PlaceOf(j, i)) \in DOMAIN j /\ PlaceOf(j, Of(PlaceOf(j, i))) = PlaceOf(j, i)
      BY <1>3, <2>1
    <2> HIDE DEF Of
    <2>3. QED
      BY <2>1, <2>2, PlacesRise
  <1>5. \A p \in DOMAIN j : j[Of(p)] \in Closes
    <2> HIDE DEF Of
    <2> QED BY <1>2, <1>3, ElementOfSeq
  <1> HIDE DEF Of
  <1>6. sorted \in Seq(Closes) /\ Len(sorted) = Len(j)
    <2>1. sorted \in [1 .. Len(j) -> Closes]
      BY <1>2, <1>5
    <2> HIDE DEF sorted
    <2>2. sorted \in Seq(Closes)
      BY <1>2, <2>1, SeqDef
    <2>3. DOMAIN sorted = 1 .. Len(j)
      BY <2>1
    <2>4. QED
      BY <1>2, <2>2, <2>3, LenProperties
  <1>7. QED
    BY <1>1, <1>4, <1>6

\* The results up to a place are those of the trades placed up to there.
LEMMA ExitsSum ==
  ASSUME NEW j \in Seq(Closes), NEW q \in 0 .. Len(j)
  PROVE  SumOver(Pnls(ByExit(j)), 1 .. q) = SumOver(Pnls(j), PlacedUpTo(j, q))
  <1> DEFINE n == Len(j)
             f == Pnls(ByExit(j))
             g == Pnls(j)
             F == {m \in 0 .. n : SumOver(f, 1 .. m) # SumOver(g, PlacedUpTo(j, m))}
  <1>1. n \in Nat /\ DOMAIN j = 1 .. n /\ IsFiniteSet(DOMAIN j)
    BY LenProperties, FS_Interval
  <1>2. /\ f \in Seq(Int) /\ Len(f) = n /\ g \in Seq(Int) /\ Len(g) = n
        /\ \A i \in 1 .. n : f[i] \in Int /\ g[i] \in Int
        /\ \A i \in DOMAIN j : PlaceOf(j, i) \in 1 .. n /\ f[PlaceOf(j, i)] = g[i]
    <2>1. ByExit(j) \in Seq(Closes) /\ Len(ByExit(j)) = n
      BY ByExitIs
    <2>2. DOMAIN ByExit(j) = 1 .. n
      BY <2>1, LenProperties
    <2>3. f \in Seq(Int) /\ Len(f) = n /\ g \in Seq(Int) /\ Len(g) = n
      BY <2>1, PnlsAre
    <2>4. \A i \in 1 .. n : f[i] \in Int /\ g[i] \in Int
      <3> HIDE DEF f, g, n
      <3> QED BY <2>3, ElementOfSeq
    <2>5. ASSUME NEW i \in DOMAIN j PROVE PlaceOf(j, i) \in 1 .. n /\ f[PlaceOf(j, i)] = g[i]
      <3>1. PlaceOf(j, i) \in 1 .. n /\ ByExit(j)[PlaceOf(j, i)] = j[i]
        BY ByExitIs, PlacesRise
      <3>2. QED
        BY <2>2, <3>1 DEF Pnls
    <2>6. QED
      BY <2>3, <2>4, <2>5
  <1>3. \A m \in 0 .. n : IsFiniteSet(1 .. m) /\ IsFiniteSet(PlacedUpTo(j, m))
    <2> TAKE m \in 0 .. n
    <2>1. PlacedUpTo(j, m) \subseteq DOMAIN j /\ m \in Int
      BY DEF PlacedUpTo
    <2>2. IsFiniteSet(PlacedUpTo(j, m))
      BY <1>1, <2>1, FS_Subset
    <2>3. IsFiniteSet(1 .. m)
      BY <2>1, FS_Interval
    <2>4. QED
      BY <2>2, <2>3
  <1>4. SUFFICES ASSUME F # {} PROVE FALSE
    OBVIOUS
  <1>5. PICK m \in F : \A k \in F : m <= k
    <2>1. F \in SUBSET Nat
      OBVIOUS
    <2> HIDE DEF F
    <2>2. QED
      BY <1>4, <2>1, LeastNatural
  <1>6. m \in 0 .. n /\ SumOver(f, 1 .. m) # SumOver(g, PlacedUpTo(j, m))
    OBVIOUS
  <1> HIDE DEF f, g
  <1>7. m # 0
    <2>1. 1 .. 0 = {} /\ PlacedUpTo(j, 0) = {}
      BY <1>2 DEF PlacedUpTo
    <2>2. SumOver(f, {}) = 0 /\ SumOver(g, {}) = 0
      BY FS_EmptySet, SumPicked
    <2>3. QED
      BY <1>6, <2>1, <2>2
  <1>8. m - 1 \in 0 .. n /\ m - 1 \notin F
    BY <1>1, <1>5, <1>6, <1>7
  <1>9. SumOver(f, 1 .. (m - 1)) = SumOver(g, PlacedUpTo(j, m - 1))
    BY <1>8
  <1> HIDE DEF F
  <1>10. PICK i \in DOMAIN j : PlaceOf(j, i) = m
    BY <1>1, <1>6, <1>7, PlacesTaken
  <1>11. /\ i \in PlacedUpTo(j, m) /\ PlacedUpTo(j, m) \ {i} = PlacedUpTo(j, m - 1)
    <2>1. \A k \in DOMAIN j : PlaceOf(j, k) \in 1 .. n /\ (PlaceOf(j, k) = m => k = i)
      BY <1>2, <1>10, PlacesRise
    <2>2. \A k \in DOMAIN j : PlaceOf(j, k) <= m /\ k # i <=> PlaceOf(j, k) <= m - 1
      BY <1>1, <1>6, <1>10, <2>1
    <2>3. QED
      BY <1>1, <1>6, <1>10, <2>2 DEF PlacedUpTo
  <1>12. m \in 1 .. m /\ (1 .. m) \ {m} = 1 .. (m - 1)
    BY <1>1, <1>6, <1>7
  <1>13. SumOver(f, 1 .. m) = f[m] + SumOver(f, (1 .. m) \ {m})
    <2>1. \A k \in 1 .. m : f[k] \in Int
      BY <1>1, <1>2, <1>6
    <2>2. QED
      BY <1>3, <1>6, <1>12, <2>1, SumRemove
  <1>14. SumOver(g, PlacedUpTo(j, m)) = g[i] + SumOver(g, PlacedUpTo(j, m) \ {i})
    <2>1. \A k \in PlacedUpTo(j, m) : g[k] \in Int
      BY <1>1, <1>2 DEF PlacedUpTo
    <2>2. QED
      BY <1>3, <1>6, <1>11, <2>1, SumRemove
  <1>15. QED
    BY <1>2, <1>6, <1>9, <1>10, <1>11, <1>12, <1>13, <1>14

\* The curve at the place of a trade is the equity at its exit.
LEMMA RunningIsEquity ==
  ASSUME NEW j \in Seq(Closes), NEW i \in DOMAIN j
  PROVE  RunningPnl(ByExit(j))[PlaceOf(j, i)]
           = SumFunctionOnSet(Pnls(j), {k \in DOMAIN j : k = i \/ Sooner(j, k, i)})
  <1> DEFINE n == Len(j)
             p == PlaceOf(j, i)
             f == Pnls(ByExit(j))
             prefix == SubSeq(f, 1, p)
  <1>1. n \in Nat /\ DOMAIN j = 1 .. n /\ p \in 1 .. n
    BY LenProperties, PlacesRise
  <1>2. ByExit(j) \in Seq(Closes) /\ Len(ByExit(j)) = n /\ DOMAIN ByExit(j) = 1 .. n
    BY ByExitIs, LenProperties
  <1>3. f \in Seq(Int) /\ Len(f) = n
    BY <1>2, PnlsAre
  <1>4. RunningPnl(ByExit(j))[p] = SumOf(prefix)
    <2> HIDE DEF p, n
    <2> QED BY <1>1, <1>2 DEF RunningPnl
  <1>5. SumOf(prefix) = SumOver(prefix, DOMAIN prefix)
    BY FoldIsSumOver DEF SumOf
  <1>6. DOMAIN prefix = 1 .. p /\ \A k \in 1 .. p : prefix[k] = f[k]
    <2> HIDE DEF f, p, n
    <2>1. \A k \in 1 .. p : f[k] \in Int
      BY <1>1, <1>3, ElementOfSeq
    <2>2. /\ prefix \in Seq(Int) /\ Len(prefix) = p
          /\ \A k \in 1 .. p : prefix[k] = f[k]
      <3> HIDE DEF prefix
      <3>1. prefix = SubSeq(f, 1, p)
        BY DEF prefix
      <3>2. 1 \in Int /\ p \in Int /\ 1 <= p /\ p <= Len(f)
        BY <1>1, <1>3
      <3>3. /\ prefix \in Seq(Int) /\ Len(prefix) = IF 1 <= p THEN p - 1 + 1 ELSE 0
            /\ \A k \in 1 .. (p - 1 + 1) : prefix[k] = f[1 + k - 1]
        BY <1>3, <2>1, <3>1, <3>2, SubSeqProperties
      <3>4. p - 1 + 1 = p /\ \A k \in 1 .. p : 1 + k - 1 = k
        BY <3>2
      <3>5. QED
        BY <3>2, <3>3, <3>4
    <2>3. QED
      BY <2>2, LenProperties
  <1>7. IsFiniteSet(1 .. p)
    BY <1>1, FS_Interval
  <1>8. SumOver(prefix, 1 .. p) = SumOver(f, 1 .. p)
    <2> HIDE DEF prefix, f, p
    <2> QED BY <1>6, <1>7, SumSame
  <1>9. SumOver(f, 1 .. p) = SumOver(Pnls(j), PlacedUpTo(j, p))
    <2>1. p \in 0 .. Len(j)
      BY <1>1
    <2> HIDE DEF p
    <2>2. QED
      BY <2>1, ExitsSum
  <1>10. PlacedUpTo(j, p) = {k \in DOMAIN j : k = i \/ Sooner(j, k, i)}
    <2>1. \A k \in DOMAIN j :
            /\ PlaceOf(j, k) \in 1 .. Len(j)
            /\ Sooner(j, k, i) <=> PlaceOf(j, k) < PlaceOf(j, i)
            /\ PlaceOf(j, k) = PlaceOf(j, i) => k = i
      BY PlacesRise
    <2>2. \A k \in DOMAIN j : PlaceOf(j, k) <= p <=> k = i \/ Sooner(j, k, i)
      BY <1>1, <2>1
    <2>3. QED
      BY <2>2 DEF PlacedUpTo
  <1>11. QED
    <2> HIDE DEF prefix, f, p
    <2>1. RunningPnl(ByExit(j))[p] = SumOver(Pnls(j), PlacedUpTo(j, p))
      BY <1>4, <1>5, <1>6, <1>8, <1>9
    <2>2. SumFunctionOnSet(Pnls(j), PlacedUpTo(j, p)) = SumOver(Pnls(j), PlacedUpTo(j, p))
      BY SumSetIs
    <2>3. QED
      BY <1>10, <2>1, <2>2 DEF p

\* The running sums of a journal are numbers.
LEMMA RunningTyped ==
  ASSUME NEW j \in Seq(Closes)
  PROVE  /\ Len(j) \in Nat /\ DOMAIN j = 1 .. Len(j)
         /\ DOMAIN RunningPnl(j) = 1 .. Len(j)
         /\ \A i \in 1 .. Len(j) : RunningPnl(j)[i] \in Int
  <1> DEFINE n == Len(j)
             p == Pnls(j)
  <1>2. p \in Seq(Int) /\ Len(p) = n /\ n \in Nat /\ DOMAIN j = 1 .. n
    BY PnlsAre, LenProperties
  <1>3. ASSUME NEW i \in 1 .. n PROVE SumOf(SubSeq(p, 1, i)) \in Int
    <2>1. p \in Seq(Int) /\ i \in 1 .. Len(p) /\ 0 \in Int
      BY <1>2
    <2> HIDE DEF p, n
    <2>2. QED
      BY <2>1, PrefixFacts
  <1>4. RunningPnl(j) = [i \in 1 .. n |-> SumOf(SubSeq(p, 1, i))]
    BY <1>2 DEF RunningPnl
  <1> HIDE DEF p, n
  <1>5. QED
    BY <1>2, <1>3, <1>4 DEF n

\* The walk finds the deepest fall of the curve of any journal.
LEMMA WalkFinds ==
  ASSUME NEW j \in Seq(Closes)
  PROVE  LET curve == RunningPnl(ByExit(j))
             found == DrawdownWalk(j)
             n == Len(j)
         IN  /\ \A i, k \in 1 .. n : i < k /\ HighUntil(curve, i, k) => NoDeeper(curve, found, i, k)
             /\ found.drop > 0 =>
                   \E i, k \in 1 .. n : found = [drop |-> curve[i] - curve[k], peak |-> curve[i]]
  <1> DEFINE n == Len(j)
             curve == RunningPnl(ByExit(j))
             w == Walker(curve, 1 .. n)[1 .. n]
  <1>1. n \in Nat /\ DOMAIN curve = 1 .. n /\ \A i \in 1 .. n : curve[i] \in Int
    BY ByExitIs, RunningTyped
  <1>2. DrawdownWalk(j) = w.worst
    BY <1>1, WalkIs
  <1>3. Walked(w, curve, n)
    <2> HIDE DEF n, curve
    <2> QED BY <1>1, WalkedAlong
  <1> HIDE DEF w, n, curve
  <1>4. QED
    BY <1>2, <1>3 DEF Walked, n, curve

\* The drawdown of the report is the deepest fall of the day's equity below its
\* highest point so far, whatever the journal and in whatever order its closes
\* were written (performance_summary).
THEOREM DrawdownStaysDeepest == Spec => []DrawdownIsDeepest
  <1>1. Typed => DrawdownIsDeepest
    <2> SUFFICES ASSUME Typed PROVE DrawdownIsDeepest
      OBVIOUS
    <2> DEFINE curve == RunningPnl(ByExit(journal))
               found == DrawdownWalk(journal)
               n == Len(journal)
               Place(i) == PlaceOf(journal, i)
               Equity(i) == SumFunctionOnSet(Pnls(journal),
                               {k \in DOMAIN journal : k = i \/ Sooner(journal, k, i)})
               HighBefore(i, k) == /\ Equity(i) > 0
                                   /\ \A m \in DOMAIN journal :
                                         Sooner(journal, m, k) => Equity(m) <= Equity(i)
    <2>1. journal \in Seq(Closes)
      BY DEF Typed, BooksTyped
    <2>2. n \in Nat /\ DOMAIN journal = 1 .. n
      BY <2>1, LenProperties
    <2>3. \A i, k \in 1 .. n : i < k /\ HighUntil(curve, i, k) => NoDeeper(curve, found, i, k)
      BY <2>1, WalkFinds
    <2>4. found.drop > 0 =>
            \E i, k \in 1 .. n : found = [drop |-> curve[i] - curve[k], peak |-> curve[i]]
      BY <2>1, WalkFinds
    <2>5. \A i \in DOMAIN journal : Place(i) \in 1 .. n /\ curve[Place(i)] = Equity(i)
      BY <2>1, PlacesRise, RunningIsEquity
    <2>6. \A i, k \in DOMAIN journal : Sooner(journal, i, k) <=> Place(i) < Place(k)
      BY <2>1, PlacesRise
    <2>7. \A p \in 1 .. n : \E i \in DOMAIN journal : Place(i) = p
      BY <2>1, PlacesTaken
    <2> HIDE DEF curve, found, n, Place, Equity
    <2>8. ASSUME NEW i \in DOMAIN journal, NEW k \in DOMAIN journal,
                 Sooner(journal, i, k), HighBefore(i, k)
          PROVE  (Equity(i) - Equity(k)) * found.peak <= found.drop * Equity(i)
      <3>1. \A p \in 1 .. (Place(k) - 1) : curve[p] <= curve[Place(i)]
        <4> TAKE p \in 1 .. (Place(k) - 1)
        <4>1. p \in 1 .. n /\ p < Place(k)
          BY <2>2, <2>5
        <4>2. PICK m \in DOMAIN journal : Place(m) = p
          BY <2>7, <4>1
        <4>3. Sooner(journal, m, k)
          BY <2>6, <4>1, <4>2
        <4>4. QED
          BY <2>5, <2>8, <4>2, <4>3
      <3>2. HighUntil(curve, Place(i), Place(k))
        BY <2>5, <2>8, <3>1 DEF HighUntil
      <3>3. NoDeeper(curve, found, Place(i), Place(k))
        BY <2>3, <2>5, <2>6, <2>8, <3>2
      <3>4. QED
        BY <2>5, <3>3 DEF NoDeeper
    <2>9. ASSUME found.drop > 0
          PROVE  \E i, k \in DOMAIN journal :
                    found = [drop |-> Equity(i) - Equity(k), peak |-> Equity(i)]
      <3>1. PICK p \in 1 .. n, q \in 1 .. n : found = [drop |-> curve[p] - curve[q], peak |-> curve[p]]
        BY <2>4, <2>9
      <3>2. PICK i \in DOMAIN journal, k \in DOMAIN journal : Place(i) = p /\ Place(k) = q
        BY <2>7
      <3>3. found = [drop |-> Equity(i) - Equity(k), peak |-> Equity(i)]
        BY <2>5, <3>1, <3>2
      <3>4. QED
        BY <3>3
    <2>10. QED
      BY <2>8, <2>9 DEF DrawdownIsDeepest, found, Equity
  <1>2. QED
    BY TypedInit, TypedNext, <1>1, PTL DEF Spec
=============================================================================
