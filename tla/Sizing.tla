------------------------------- MODULE Sizing -------------------------------
(***************************************************************************)
(* The share count of an approved trade: core/risk/sizing.py and the       *)
(* capital ramp of core/live that is applied on top of it.                 *)
(*                                                                         *)
(* Every multiplier is a whole number of hundredths and every              *)
(* multiplication is rounded down to whole shares, one after the other as  *)
(* the code does, because the order of the roundings shows in the result.  *)
(***************************************************************************)
EXTENDS Integers

CONSTANTS
  MaxSize,           \* MAX_SIZE
  IcebreakerPct,     \* ICEBREAKER_FRACTION
  StarterCap,        \* STARTER_CAP
  CushionPnl,        \* CUSHION_PNL_THRESHOLD
  PerTradeRisk,      \* PER_TRADE_RISK_DOLLARS
  RiskFormula,       \* SIZING_MODE = risk_formula (else flat_block)
  MondayPct,         \* DOW_MONDAY_MULT
  FridayPct,         \* DOW_FRIDAY_MULT
  RehabCap,          \* MARKET_STATE_REHAB_CAP
  ColdPct,           \* MARKET_STATE_COLD_MULT
  RampTier,          \* CAPITAL_RAMP_TIER: "MICRO", "STARTER" or "FULL"
  RampMicroShares,   \* CAPITAL_RAMP_MICRO_SHARES
  RampStarterShares  \* CAPITAL_RAMP_STARTER_SHARES

ASSUME SizingConfig ==
  /\ {MaxSize, StarterCap, CushionPnl, PerTradeRisk, RehabCap,
      RampMicroShares, RampStarterShares} \subseteq Nat
  /\ {IcebreakerPct, MondayPct, FridayPct, ColdPct} \subseteq 0 .. 100
  /\ RiskFormula \in BOOLEAN
  /\ RampTier \in {"MICRO", "STARTER", "FULL"}

NoLiquidityCap == 0     \* None, and any non-positive cap, leave the size alone

AtMost(n, cap) == IF n <= cap THEN n ELSE cap
AtLeast(n, low) == IF n >= low THEN n ELSE low

\* n shares times pct hundredths, rounded down.
Portion(n, pct) == (n * pct) \div 100

Icebreaker == AtLeast(Portion(MaxSize, IcebreakerPct), 1)

RawShares(pnl, perShare) ==
  IF RiskFormula THEN PerTradeRisk \div perShare
  ELSE IF pnl >= CushionPnl THEN MaxSize
  ELSE StarterCap

\* Mutant of Cushioned: a day at exactly zero gets the starter size.
CushionedAtZero(raw, pnl) ==
  IF pnl < 0 THEN AtMost(raw, Icebreaker)
  ELSE IF pnl < CushionPnl THEN AtMost(raw, StarterCap)
  ELSE raw

\* No cushion yet: icebreaker size.  Some, but below the threshold: starter.
Cushioned(raw, pnl) ==
  IF pnl <= 0 THEN AtMost(raw, Icebreaker)
  ELSE IF pnl < CushionPnl THEN AtMost(raw, StarterCap)
  ELSE raw

DayWeighted(n, day) ==
  CASE day = "mon" -> Portion(n, MondayPct)
    [] day = "fri" -> Portion(n, FridayPct)
    [] OTHER       -> n

MarketWeighted(n, market) ==
  CASE market = "REHAB" -> AtMost(n, RehabCap)
    [] market = "COLD"  -> Portion(n, ColdPct)
    [] OTHER            -> n

LiquidityCapped(n, cap) == IF cap > 0 THEN AtMost(n, cap) ELSE n

\* The distance from entry to stop, the conviction in hundredths, and the
\* day, market and liquidity that weigh on the size.
SizingContexts ==
  [perShare   : Int,
   conviction : 0 .. 100,
   day        : {"mon", "mid", "fri"},
   market     : {"HOT", "COLD", "REHAB"},
   liquidity  : Int]

ComputeSize(pnl, ctx) ==
  IF RiskFormula /\ ctx.perShare <= 0 THEN 0
  ELSE LET base     == Cushioned(RawShares(pnl, ctx.perShare), pnl)
           believed == Portion(base, ctx.conviction)
           dayed    == DayWeighted(believed, ctx.day)
           weighed  == MarketWeighted(dayed, ctx.market)
       IN  AtLeast(AtMost(LiquidityCapped(weighed, ctx.liquidity), MaxSize), 0)

RampApply(shares) ==
  CASE RampTier = "MICRO"   -> AtMost(shares, RampMicroShares)
    [] RampTier = "STARTER" -> AtMost(shares, RampStarterShares)
    [] RampTier = "FULL"    -> shares

=============================================================================
