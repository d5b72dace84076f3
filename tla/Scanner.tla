------------------------------ MODULE Scanner ------------------------------
(***************************************************************************)
(* The scanner (core/scanner): relative volume from a cached baseline, the *)
(* float from sources that disagree, and the two tiers over both.          *)
(*                                                                         *)
(* Prices and percentages are in hundredths.  A ratio is kept as a pair    *)
(* and compared by cross-multiplication.                                   *)
(***************************************************************************)
EXTENDS ConfigDefaults, Catalyst, Sequences, FiniteSetsExt, SequencesExt

CONSTANTS
    BaselineDays,   \* the window of the baseline
    MinHistoryDays, \* usable days below which the confidence is low
    Histories,      \* daily volumes, most recent last; negative: unusable
    DayVolumes,     \* volumes of today
    FloatLists,     \* sets of [source, shares (thousands), free]; 0: missing
    ScanQuotes          \* [price, change, gap, rank, atHod, surge, halted, split, ipo, mover]

ASSUME ScannerAssumption ==
    /\ BaselineDays \in Nat \ {0} /\ MinHistoryDays \in Nat
    /\ Histories \subseteq Seq(Int) /\ DayVolumes \subseteq Nat
    /\ \A sources \in FloatLists : IsFiniteSet(sources) /\ \A c \in sources : c.shares \in Int
    /\ \A quote \in ScanQuotes : {quote.price, quote.change, quote.gap} \subseteq Int

VARIABLES
    scBaseline,     \* the cached baseline of the symbol
    scResult,       \* the last scan result with what it was made from
    scLists         \* what the sub-scanners list

scVars == <<scBaseline, scResult, scLists>>

NoRank == 0         \* an unknown rank
NoSurge == -10000   \* an unknown surge
NoBaseline == [total |-> 0, days |-> 0]
NoResult == [tierB |-> FALSE]

ScannerInit == scBaseline = NoBaseline /\ scResult = NoResult /\ scLists = {}

-----------------------------------------------------------------------------
(* Relative volume.                                                        *)

RollingBaseline(volumes) ==
    LET usable == {i \in DOMAIN volumes : i > Len(volumes) - BaselineDays /\ volumes[i] >= 0}
    IN  [total |-> SumFunctionOnSet(volumes, usable), days |-> Cardinality(usable)]

\* Today's volume over the mean of the baseline, as a pair.
RvolFor(volume, base) ==
    [ num |-> volume * base.days, den |-> base.total,
      confidence |-> IF base.total = 0 THEN "unknown"
                     ELSE IF base.days < MinHistoryDays THEN "low" ELSE "high" ]

Known(rvol) == rvol.confidence # "unknown"
AtLeast(rvol, hundredths) == Known(rvol) /\ 100 * rvol.num >= hundredths * rvol.den

-----------------------------------------------------------------------------
(* The float.                                                              *)

Ceiling(name) == Default(name) \div 1000   \* share counts are in thousands

\* The seeded thresholds of the wide net lie around those of the gates.
ASSUME TiersNest ==
    /\ {Default("PRICE_MIN"), Default("PRICE_MAX"), Default("TIER_A_PRICE_MIN"),
        Default("TIER_A_PRICE_MAX"), Default("ROC_MIN"), Default("TIER_A_GAP_MIN"),
        Default("RVOL_MIN"), Default("TIER_A_RVOL_MIN"), Ceiling("FLOAT_HARD_CEILING"),
        Ceiling("TIER_A_FLOAT_CEILING")} \subseteq Nat
    /\ Default("TIER_A_PRICE_MIN") <= Default("PRICE_MIN")
    /\ Default("PRICE_MAX") <= Default("TIER_A_PRICE_MAX")
    /\ Default("TIER_A_GAP_MIN") <= Default("ROC_MIN")
    /\ Default("TIER_A_RVOL_MIN") <= Default("RVOL_MIN")
    /\ Ceiling("FLOAT_HARD_CEILING") <= Ceiling("TIER_A_FLOAT_CEILING")

Shares(sources) == {c.shares : c \in sources}
Spread(values) == 100 * (Max(values) - Min(values)) > Default("FLOAT_DISAGREE_TOLERANCE") * Min(values)
WithTolerance(n) == (n * (100 + Default("FLOAT_DISAGREE_TOLERANCE"))) \div 100

\* Mutation: the sources are reconciled to the smallest of them.
ResolveFloatMin(sources) ==
    LET valid == {c \in sources : c.shares > 0}
    IN  IF valid = {} THEN [shares |-> 0, confidence |-> "unknown"]
        ELSE [shares |-> Min(Shares(valid)), confidence |-> "high"]

ResolveFloat(sources) ==
    LET valid     == {c \in sources : c.shares > 0}
        free      == {c \in valid : c.free}
        sharesOut == valid \ free
        primary   == IF free # {} THEN free ELSE sharesOut
        chosen    == Max(Shares(primary))
        confidence ==
            IF Cardinality(primary) > 1 /\ Spread(Shares(primary)) THEN "low"
            ELSE IF free = {} \/ sharesOut = {} THEN "medium"
            ELSE IF chosen > WithTolerance(Max(Shares(sharesOut))) THEN "low"
            ELSE "high"
    IN  IF valid = {} THEN [shares |-> 0, confidence |-> "unknown"]
        ELSE [shares |-> chosen, confidence |-> confidence]

KnownFloat(flt) == flt.confidence # "unknown"

-----------------------------------------------------------------------------
(* The two tiers.                                                          *)

TierA(cand) ==
    /\ cand.quote.price \in Default("TIER_A_PRICE_MIN") .. Default("TIER_A_PRICE_MAX")
    /\ Max({cand.quote.gap, cand.quote.change}) >= Default("TIER_A_GAP_MIN")
    /\ AtLeast(cand.rvol, Default("TIER_A_RVOL_MIN"))
    /\ KnownFloat(cand.float) => cand.float.shares <= Ceiling("TIER_A_FLOAT_CEILING")

Pillars(cand) ==
    /\ cand.quote.price \in Default("PRICE_MIN") .. Default("PRICE_MAX")
    /\ cand.float.confidence \in {"high", "medium"}
    /\ cand.float.shares <= Ceiling("FLOAT_HARD_CEILING")
    /\ cand.rvol.confidence = "high" /\ AtLeast(cand.rvol, Default("RVOL_MIN"))
    /\ cand.quote.change >= Default("ROC_MIN")
    /\ cand.catalyst = "VERIFIED"

Attention(rank) ==
    IF rank = NoRank \/ rank > Default("ATTENTION_WATCH_RANK") THEN "IGNORE"
    ELSE IF rank <= Default("ATTENTION_PRIME_RANK") THEN "PRIME" ELSE "WATCH"

\* The sub-scanners that list a candidate.
SubScanners(cand) ==
    LET q == cand.quote
    IN  {name \in {"top_gainers", "low_float", "hod_momentum", "running_up", "halt", "split_ipo",
                   "continuation"} :
            CASE name = "top_gainers"  -> q.price > 50
              [] name = "low_float"    -> /\ KnownFloat(cand.float)
                                          /\ cand.float.shares < Ceiling("LOW_FLOAT_SUBSCAN_CEILING")
                                          /\ q.price < Default("PRICE_MAX")
              [] name = "hod_momentum" -> q.atHod
              [] name = "running_up"   -> ~q.atHod /\ q.surge # NoSurge /\ q.surge >= Default("RUNNING_UP_PCT")
              [] name = "halt"         -> q.halted
              [] name = "split_ipo"    -> q.split \/ q.ipo
              [] name = "continuation" -> q.mover}

-----------------------------------------------------------------------------

UpdateBaseline ==
    /\ \E volumes \in Histories : scBaseline' = RollingBaseline(volumes)
    /\ UNCHANGED <<scResult, scLists>>

ScanSymbol ==
    \E quote \in ScanQuotes, sources \in FloatLists, volume \in DayVolumes, case \in CatalystCases :
        LET rvol == RvolFor(volume, scBaseline)
            reaction == AtLeast(rvol, 500) /\ quote.change >= 1000
            cand == [quote |-> quote, float |-> ResolveFloat(sources), rvol |-> rvol,
                     catalyst |-> ClassifyCatalyst(reaction, case)]
        IN  /\ scResult' = [tierA |-> TierA(cand), tierB |-> Pillars(cand),
                            attention |-> Attention(quote.rank),
                            sources |-> sources, history |-> scBaseline, volume |-> volume,
                            case |-> case]
            /\ scLists' = SubScanners(cand)
            /\ UNCHANGED scBaseline

ScannerNext == UpdateBaseline \/ ScanSymbol

ScannerSpec == ScannerInit /\ [][ScannerNext]_scVars

-----------------------------------------------------------------------------

\* A symbol that may be traded is on the watchlist too, although its gates and
\* the wide net have separate thresholds; no source of its free float is above
\* the ceiling, its relative volume rests on enough days of history, the model
\* confirms its catalyst with enough confidence, and no headline and no filing
\* that the SEC answered with blocks it.
TradeableHoldsUp ==
    LET case == scResult.case
    IN  scResult.tierB =>
            /\ scResult.tierA
            /\ \A c \in scResult.sources : c.free => c.shares <= Ceiling("FLOAT_HARD_CEILING")
            /\ scResult.history.days >= MinHistoryDays
            /\ case.model.tag = "accepted" /\ case.model.confidence >= Threshold70
            /\ case.headlines # NoHeadlines /\ \A h \in case.headlines : ~h.blocks
            /\ case.secAnswers =>
                    \A f \in case.filings : f.form = "dilution" => f.age \notin 0 .. FilingLookback
            /\ 100 * scResult.volume * scResult.history.days
                    >= Default("RVOL_MIN") * scResult.history.total

\* What a step preserves: the cached baseline is a sum over some days.
ScannerInv == scBaseline.total \in Nat /\ scBaseline.days \in Nat /\ TradeableHoldsUp
=============================================================================
