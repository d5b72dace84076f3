---------------------------- MODULE PaperSession ----------------------------
(***************************************************************************)
(* The paper session (core/backtest/paper_session.py): three asyncio tasks *)
(* over one dict of positions, one guard and one strategy engine.  A task  *)
(* is described by where it awaits; everything between two awaits is one   *)
(* step.  Every position is one lot, and an order is executed, or not, by  *)
(* the time its call returns.                                              *)
(***************************************************************************)
EXTENDS RiskState

CONSTANT MaxLost    \* bound: sales that are executed although the call raises

VARIABLES
    psOpen,     \* symbols of _open
    psEngine,   \* symbols the strategy engine tracks
    psRisk,     \* the risk manager
    psBar,      \* _bar_loop
    psStop,     \* _mental_stop_loop
    psEod,      \* _eod_flatten_loop
    psStopped,  \* _stop_event
    psHeld,     \* lots in the account, per symbol
    psLost      \* sales executed without an answer (history)

psBooks == <<psOpen, psEngine, psRisk>>
psTasks == <<psBar, psStop, psEod>>
psVars == <<psBooks, psTasks, psStopped, psHeld, psLost>>

At(place) == [at |-> place]
Await(place, s) == [at |-> place, symbol |-> s]
Dead == At("dead")

PaperInit ==
    /\ psOpen = {} /\ psEngine = {} /\ psRisk = FreshState
    /\ psBar = At("bars") /\ psStop = [at |-> "sleep", todo |-> {}] /\ psEod = At("sleep")
    /\ psStopped = FALSE
    /\ psHeld = [s \in Symbols |-> 0] /\ psLost = 0

\* An order of one lot, executed or not.
Fill(s, lots, executed) == psHeld' = [psHeld EXCEPT ![s] = @ + IF executed THEN lots ELSE 0]

\* record_close with a result of zero, close_position, and the entry of _open.
Forget(symbols) ==
    /\ psOpen' = psOpen \ symbols
    /\ psEngine' = psEngine \ symbols

RecordCloses(symbols) == psRisk' = AfterFlatCloses(psRisk, symbols)

\* A sale that raises may have been executed all the same.
RaisedSale(s) ==
    \/ UNCHANGED <<psHeld, psLost>>
    \/ psLost < MaxLost /\ psLost' = psLost + 1 /\ Fill(s, -1, TRUE)

-----------------------------------------------------------------------------
(* The bar loop.  Only the stop event ends it in good order: an exception  *)
(* of a quote or an order ends the task, and nobody is told.               *)

GuardAllows == ~psRisk.halted /\ psRisk.losses < ThreeStrikes /\ psRisk.trades < MaxTradesPerDay

BarArrives ==
    /\ psBar = At("bars")
    /\ IF psStopped THEN psBar' = At("over") ELSE \E s \in Symbols : psBar' = Await("quote", s)
    /\ UNCHANGED <<psBooks, psStop, psEod, psStopped, psHeld, psLost>>

\* The engine forgets a symbol when it says to sell it, before anything is sold.
BarQuoted ==
    /\ psBar.at = "quote"
    /\ LET s == psBar.symbol
       IN  \/ /\ psBar' \in {At("bars"), Dead}
              /\ UNCHANGED psEngine
           \/ /\ s \in psEngine
              /\ psEngine' = psEngine \ {s}
              /\ psBar' = IF s \in psOpen THEN Await("sell", s) ELSE At("bars")
           \/ /\ s \notin psEngine /\ s \notin psOpen /\ GuardAllows
              /\ psBar' = Await("buy", s)
              /\ UNCHANGED psEngine
    /\ UNCHANGED <<psOpen, psRisk, psStop, psEod, psStopped, psHeld, psLost>>

EntryAnswered ==
    /\ psBar.at = "buy"
    /\ LET s == psBar.symbol
       IN  \/ \E price \in Prices :
                 /\ psOpen' = psOpen \cup {s} /\ psEngine' = psEngine \cup {s}
                 /\ psRisk' = AfterOpen(psRisk, s, price)
                 /\ Fill(s, 1, TRUE) /\ psBar' = At("bars")
           \/ psBar' = At("bars") /\ UNCHANGED <<psBooks, psHeld>>
           \/ /\ psBar' = Dead /\ UNCHANGED psBooks
              /\ \E executed \in BOOLEAN : Fill(s, 1, executed)
    /\ UNCHANGED <<psStop, psEod, psStopped, psLost>>

\* An accepted sale of a position that the stop loop has deleted meanwhile is
\* recorded once more, and the KeyError of the del ends the task.
ExitAnswered ==
    /\ psBar.at = "sell"
    /\ LET s == psBar.symbol
       IN  \/ /\ Fill(s, -1, TRUE) /\ Forget({s}) /\ RecordCloses({s})
              /\ UNCHANGED psLost
              /\ psBar' = IF s \in psOpen THEN At("bars") ELSE Dead
           \/ psBar' = At("bars") /\ UNCHANGED <<psBooks, psHeld, psLost>>
           \/ psBar' = Dead /\ UNCHANGED psBooks /\ RaisedSale(s)
    /\ UNCHANGED <<psStop, psEod, psStopped>>

-----------------------------------------------------------------------------
(* The stop loop goes through the positions of the moment it woke up, and  *)
(* swallows every exception.  The stop event is looked at before a sleep   *)
(* and not after it.                                                       *)

StopWakes ==
    /\ psStop.at = "sleep"
    /\ psOpen # {}
    /\ psStop' = [at |-> "quote", todo |-> psOpen]
    /\ UNCHANGED <<psBooks, psBar, psEod, psStopped, psHeld, psLost>>

NextStop(todo) ==
    IF todo # {} THEN [at |-> "quote", todo |-> todo]
    ELSE [at |-> IF psStopped THEN "over" ELSE "sleep", todo |-> {}]

StopQuoted ==
    /\ psStop.at = "quote"
    /\ \E s \in psStop.todo :
          psStop' \in {[at |-> "sell", symbol |-> s, todo |-> psStop.todo \ {s}], \* breached
                       NextStop(psStop.todo \ {s})}
    /\ UNCHANGED <<psBooks, psBar, psEod, psStopped, psHeld, psLost>>

\* Mutation: the position stays in the dict.
StopForgetsEngineOnly(s) == psOpen' = psOpen /\ psEngine' = psEngine \ {s}

StopForgets(s) == Forget({s})

\* The answer of the broker is not looked at; a call that raises records nothing.
StopSold ==
    /\ psStop.at = "sell"
    /\ psStop' = NextStop(psStop.todo)
    /\ \/ /\ StopForgets(psStop.symbol) /\ RecordCloses({psStop.symbol})
          /\ UNCHANGED psLost
          /\ \E executed \in BOOLEAN : Fill(psStop.symbol, -1, executed)
       \/ UNCHANGED psBooks /\ RaisedSale(psStop.symbol)
    /\ UNCHANGED <<psBar, psEod, psStopped>>

-----------------------------------------------------------------------------
(* The end of the day and of the session.                                  *)

EodWakes ==
    /\ psEod = At("sleep") /\ psOpen # {}
    /\ psEod' = At("flatten")
    /\ UNCHANGED <<psBooks, psBar, psStop, psStopped, psHeld, psLost>>

\* The flatten is not looked at either; if it raises the task is gone and the
\* session does not stop by itself.
EodFlattened ==
    /\ psEod = At("flatten")
    /\ psHeld' \in {psHeld, [s \in Symbols |-> 0]}
    /\ \/ /\ Forget(psOpen) /\ RecordCloses(psOpen)
          /\ psStopped' = TRUE /\ psEod' = At("over")
       \/ psEod' = Dead /\ UNCHANGED <<psBooks, psStopped>>
    /\ UNCHANGED <<psBar, psStop, psLost>>

CallerStops ==
    /\ ~psStopped /\ psStopped' = TRUE
    /\ UNCHANGED <<psBooks, psTasks, psHeld, psLost>>

\* run() cancels the tasks; an order on its way is executed or not.
PaperEnds ==
    /\ psStopped /\ psBar # At("cancelled")
    /\ psBar' = At("cancelled") /\ psStop' = [at |-> "cancelled"] /\ psEod' = At("cancelled")
    /\ \E bought, sold, stopped \in BOOLEAN :
          psHeld' = [s \in Symbols |-> psHeld[s]
              + (IF bought /\ psBar = Await("buy", s) THEN 1 ELSE 0)
              - (IF sold /\ psBar = Await("sell", s) THEN 1 ELSE 0)
              - (IF stopped /\ psStop.at = "sell" /\ psStop.symbol = s THEN 1 ELSE 0)]
    /\ UNCHANGED <<psBooks, psStopped, psLost>>

PaperNext ==
    \/ BarArrives \/ BarQuoted \/ EntryAnswered \/ ExitAnswered
    \/ StopWakes \/ StopQuoted \/ StopSold
    \/ EodWakes \/ EodFlattened \/ CallerStops \/ PaperEnds

PaperSpec == PaperInit /\ [][PaperNext]_psVars

-----------------------------------------------------------------------------

\* The dict of positions and the guard always name the same symbols, and the
\* engine tracks none that they do not: the three tasks, a deletion that fails
\* half-way and a sale recorded twice leave the books of the session in step.
PaperBooksAgree ==
    /\ {s \in Symbols : IsOpen(psRisk, s)} = psOpen
    /\ psEngine \subseteq psOpen

\* The bar loop and the stop loop may both sell one position, the latter from a
\* list that is out of date, and the flatten may come before both; but none is
\* sold again and again: beyond the sales whose answer was lost, there are at
\* most two for every entry.
PaperSellsBounded == \A s \in Symbols : psHeld[s] >= -1 - psRisk.trades - psLost
=============================================================================
