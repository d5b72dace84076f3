------------------------------ MODULE HaltTape ------------------------------
(***************************************************************************)
(* The market state over a rolling window of days                          *)
(* (adapters/market_state) and the entries around a trading halt           *)
(* (core/halt) that it gates.  No caller in the repository joins the two:  *)
(* the state a decision gets is taken as classified just before it.        *)
(*                                                                         *)
(* Rates are pairs compared by cross-multiplication, gains and thresholds  *)
(* are in hundredths.  Of a day only what the state reads is kept.         *)
(***************************************************************************)
EXTENDS ConfigDefaults, Sequences, SequencesExt

CONSTANTS
    HotWindowDays,  \* MS_HOT_WINDOW_DAYS
    MinWindowDays,  \* MS_MIN_WINDOW_DAYS
    DaySnapshots,   \* [movers, gappers, followed, winners, gain]
    HaltPrices,     \* prices around a halt
    BandDistances,  \* distances to the band, in hundredths of a percent
    MaxHaltDays     \* bound: days recorded

ASSUME HaltTapeAssumption == HotWindowDays \in Nat \ {0} /\ MinWindowDays \in Nat

VARIABLES
    msWindow,   \* RollingMarketStateProvider._window
    msRehab,    \* RollingMarketStateProvider._rehab
    msHistory,  \* every day recorded
    haltLast    \* the last decision with what it was made from

haltVars == <<msWindow, msRehab, msHistory, haltLast>>

HaltModes == {"post_halt", "pre_halt"}
HaltTypes == {"luld_up", "luld_down", "news", "unknown"}
NoDecision == [decision |-> "none"]

HaltTapeInit == msWindow = <<>> /\ msRehab = FALSE /\ msHistory = <<>> /\ haltLast = NoDecision

-----------------------------------------------------------------------------
(* The market state.                                                       *)

SumOf(days, field) == FoldSeq(LAMBDA day, sum : day[field] + sum, 0, days)

\* A rate is a pair; without anything to divide by it is missing.
ComputeFeatures(days) ==
    [ days   |-> Len(days),
      movers |-> SumOf(days, "movers"),
      follow |-> [num |-> 100 * SumOf(days, "followed"),
                  den |-> SumOf(days, "gappers")],
      green  |-> [num |-> SumOf(days, "gain"),
                  den |-> SumOf(days, "winners")] ]

RateAtLeast(rate, threshold) == rate.den > 0 /\ rate.num >= threshold * rate.den

\* Three hot signals and no cold one; a missing rate is a cold signal.
ClassifyTape(features) ==
    IF /\ features.days >= MinWindowDays
       /\ features.movers >= Default("MS_HOT_BIG_MOVERS_MIN")
       /\ RateAtLeast(features.follow, Default("MS_HOT_FOLLOW_THROUGH_MIN"))
       /\ RateAtLeast(features.green, Default("MS_HOT_AVG_GREEN_MIN"))
    THEN "HOT" ELSE "COLD"

ProviderState == IF msRehab THEN "REHAB" ELSE ClassifyTape(ComputeFeatures(msWindow))

\* Mutation: the window is pruned one day late.
PrunedLate(window) == IF Len(window) > HotWindowDays + 1 THEN Tail(window) ELSE window
Pruned(window) == IF Len(window) > HotWindowDays THEN Tail(window) ELSE window

RecordSnapshot ==
    \E day \in DaySnapshots :
        /\ Len(msHistory) < MaxHaltDays
        /\ msWindow' = Pruned(Append(msWindow, day))
        /\ msHistory' = Append(msHistory, day)
        /\ UNCHANGED <<msRehab, haltLast>>

SetRehab == \E active \in BOOLEAN : msRehab' = active /\ UNCHANGED <<msWindow, msHistory, haltLast>>

-----------------------------------------------------------------------------
(* The decisions.                                                          *)

\* A resumption: down is refused unless the price is back above a vwap.
EvaluateHaltResumption(mode, halt, resume) ==
    LET down      == halt.type \in {"luld_down", "unknown"} \/ resume.price < halt.price
        reclaimed == resume.price > resume.vwap /\ resume.vwap > 0
    IN  IF down /\ ~reclaimed THEN "BLOCKED"
        ELSE IF mode = "post_halt" /\ resume.price >= halt.price /\ resume.green THEN "ENTER"
        ELSE "SKIP"

\* An entry before the halt, towards the upper band.
EvaluatePreHaltEntry(mode, signal, state) ==
    IF mode # "pre_halt" \/ state # "HOT" \/ ~signal.buyerOnBid
       \/ signal.distance > Default("PRE_HALT_BAND_ENTRY_PCT") THEN "SKIP"
    ELSE IF signal.price < signal.vwap THEN "BLOCKED" ELSE "ENTER"

Resumption ==
    \E mode \in HaltModes, type \in HaltTypes, price, at, vwap \in HaltPrices, green \in BOOLEAN :
        /\ haltLast' = [decision |-> EvaluateHaltResumption(mode, [type |-> type, price |-> price],
                                       [price |-> at, vwap |-> vwap, green |-> green]),
                        kind |-> "resumption"]
        /\ UNCHANGED <<msWindow, msRehab, msHistory>>

PreHalt ==
    \E mode \in HaltModes, price, vwap \in HaltPrices, distance \in BandDistances, buyer \in BOOLEAN :
        /\ haltLast' = [decision |-> EvaluatePreHaltEntry(mode,
                                       [price |-> price, vwap |-> vwap, distance |-> distance,
                                        buyerOnBid |-> buyer], ProviderState),
                        kind |-> "pre_halt", history |-> msHistory, rehab |-> msRehab]
        /\ UNCHANGED <<msWindow, msRehab, msHistory>>

HaltTapeNext == RecordSnapshot \/ SetRehab \/ Resumption \/ PreHalt

HaltTapeSpec == HaltTapeInit /\ [][HaltTapeNext]_haltVars

-----------------------------------------------------------------------------

\* The days a market state is allowed to look at.
LastDays(days) == LET n == Len(days) IN SubSeq(days, IF n > HotWindowDays THEN n - HotWindowDays + 1 ELSE 1, n)

\* An entry into a halt is taken only when, over everything recorded so far, the
\* last days of the window and none before them make the tape hot, and never in
\* recovery: heat of days that have left the window buys no gap risk.
PreHaltNeedsHotTape ==
    haltLast.decision = "ENTER" /\ haltLast.kind = "pre_halt" =>
        /\ ~haltLast.rehab
        /\ ClassifyTape(ComputeFeatures(LastDays(haltLast.history))) = "HOT"

\* What a step preserves: the pruned window is the end of the record.
TapeInv ==
    /\ msHistory \in Seq(DaySnapshots)
    /\ msWindow = LastDays(msHistory)
    /\ PreHaltNeedsHotTape
=============================================================================
