---------------------------- MODULE MCComponents ----------------------------
(***************************************************************************)
(* The components that share no state, checked in one run.  The first      *)
(* state chooses the part that runs; the others stay as they start, so the *)
(* graph is the sum of the parts' graphs and not their product.            *)
(***************************************************************************)
EXTENDS ConfigStore, Replay, SimGate, PaperSession, Feed, LevelTwo, Scanner, News, Dashboard,
    HaltTape

VARIABLE part

TunedTextsDef ==
    { [kind |-> "whole", n |-> 2], [kind |-> "hundredths", n |-> 150], [kind |-> "clock", minute |-> 630] }

ReplayBarsDef == { [low |-> 100, close |-> 110], [low |-> 85, close |-> 100] }

SimDaysDef ==
    { [trades |-> 0, wins |-> 0], [trades |-> 3, wins |-> 2], [trades |-> 3, wins |-> 1] }
AccountsDef == { [known |-> TRUE, buyingPower |-> 500], [known |-> TRUE, buyingPower |-> 499] }

\* A large bid that goes, an offer that is absorbed, half a book, and prints
\* that are small or large.
Book(bid, ask, askSize) ==
    [bids |-> TRUE, asks |-> TRUE, bidSize |-> bid, ask |-> ask, askSize |-> askSize]
DepthTicksDef == { Book(25000, 500, 6000), Book(3000, 506, 400), [Book(0, 0, 0) EXCEPT !.asks = FALSE] }
TapeTicksDef == { [price |-> 500, size |-> 50], [price |-> 505, size |-> 3000] }

\* Quotes around the thresholds of both tiers, sources of the float that
\* disagree, and a catalyst that one of its sources spoils.
Plain(price, change, gap, rank) ==
    [ price |-> price, change |-> change, gap |-> gap, rank |-> rank, atHod |-> FALSE,
      surge |-> NoSurge, halted |-> FALSE, split |-> FALSE, ipo |-> FALSE, mover |-> FALSE ]
ScanQuotesDef ==
    { Plain(200, 1000, 0, 1),
      [Plain(2000, 999, 1500, NoRank) EXCEPT !.surge = 500, !.mover = TRUE],
      [Plain(30, 2000, 0, 11) EXCEPT !.atHod = TRUE, !.halted = TRUE, !.ipo = TRUE] }
Source(source, shares, free) == [source |-> source, shares |-> shares, free |-> free]
FloatListsDef ==
    { {},
      {Source("ref", 15000, TRUE), Source("edgar", 18000, FALSE)},
      {Source("ref", 15000, TRUE), Source("vendor", 24000, TRUE)},
      {Source("ref", 19500, TRUE), Source("vendor", 19900, TRUE), Source("edgar", 30000, FALSE)},
      {Source("ref", 0, TRUE), Source("edgar", 60000, FALSE)} }
HistoriesDef == { <<>>, <<100>>, <<100, 100, -1>>, <<900, 100, 200, 300>> }
Confirmed ==
    [ secAnswers |-> TRUE, filings |-> {}, headlines |-> {[blocks |-> FALSE]},
      model |-> [tag |-> "accepted", confidence |-> 70] ]
CatalystCasesDef ==
    { Confirmed, [Confirmed EXCEPT !.headlines = {}],
      [Confirmed EXCEPT !.model.confidence = 69], [Confirmed EXCEPT !.model.tag = "off"],
      [Confirmed EXCEPT !.headlines = {[blocks |-> FALSE], [blocks |-> TRUE]}],
      [Confirmed EXCEPT !.filings = {[form |-> "dilution", age |-> 30]}],
      [Confirmed EXCEPT !.secAnswers = FALSE, !.filings = {[form |-> "dilution", age |-> 30]}],
      [Confirmed EXCEPT !.filings =
          {[form |-> "dilution", age |-> 31], [form |-> "dilution", age |-> -1]}] }

Article(about, blocks, accepted, at) ==
    [about |-> about, blocks |-> blocks, accepted |-> accepted, at |-> at]
BackfillsDef ==
    { << Article({"A"}, TRUE, FALSE, 0), Article({"A"}, FALSE, TRUE, -50),
         Article({"A"}, FALSE, TRUE, -70) >>,
      << Article({}, FALSE, TRUE, 0) >> }

DaySnapshotsDef ==
    { [movers |-> 3, gappers |-> 2, followed |-> 2, winners |-> 2, gain |-> 80],
      [movers |-> 0, gappers |-> 1, followed |-> 0, winners |-> 0, gain |-> 0],
      [movers |-> 1, gappers |-> 0, followed |-> 0, winners |-> 2, gain |-> 50] }

-----------------------------------------------------------------------------

Parts == {"config", "replay", "gate", "paper", "bars", "staleness", "level2", "scanner",
          "news", "dashboard", "halt"}

Frozen(itself, vars) == IF part \in itself THEN TRUE ELSE UNCHANGED vars

\* The other parts stay as they are.
OthersStay ==
    /\ UNCHANGED part
    /\ Frozen({"config"}, cfgVars)
    /\ Frozen({"replay"}, rp)
    /\ Frozen({"gate"}, gateVars)
    /\ Frozen({"paper"}, psVars)
    /\ Frozen({"bars", "staleness"}, feedVars)
    /\ Frozen({"level2"}, l2Vars)
    /\ Frozen({"scanner"}, scVars)
    /\ Frozen({"news"}, nwVars)
    /\ Frozen({"dashboard"}, dbVars)
    /\ Frozen({"halt"}, haltVars)

PartsInit ==
    /\ part \in Parts
    /\ ConfigInit /\ ReplayInit /\ GateStart /\ PaperInit /\ FeedInit /\ LevelTwoInit
    /\ ScannerInit /\ NewsInit /\ DashboardInit /\ HaltTapeInit
    /\ part = "gate" \/ ~gateLive

PartsNext ==
    \/ part = "config" /\ ConfigNext /\ OthersStay
    \/ part = "replay" /\ ReplayNext /\ OthersStay
    \/ part = "gate" /\ GateSteps /\ OthersStay
    \/ part = "paper" /\ PaperNext /\ OthersStay
    \/ part = "bars" /\ BarsNext /\ OthersStay
    \/ part = "staleness" /\ StaleNext /\ OthersStay
    \/ part = "level2" /\ LevelTwoNext /\ OthersStay
    \/ part = "scanner" /\ ScannerNext /\ OthersStay
    \/ part = "news" /\ NewsNext /\ OthersStay
    \/ part = "dashboard" /\ DashboardNext /\ OthersStay
    \/ part = "halt" /\ HaltTapeNext /\ OthersStay

partsVars ==
    << part, cfgVars, rp, gateVars, psVars, feedVars, l2Vars, scVars, nwVars, dbVars, haltVars >>

PartsSpec == PartsInit /\ [][PartsNext]_partsVars
=============================================================================
