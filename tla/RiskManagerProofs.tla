------------------------- MODULE RiskManagerProofs -------------------------
(***************************************************************************)
(* Theorems of RiskManager, for every configuration the assumptions allow. *)
(***************************************************************************)
EXTENDS RiskManager, FiniteFacts

(***************************************************************************)
(* The operators on the risk record.                                       *)
(***************************************************************************)

\* Every change the guard makes to its state yields a state of the guard.
LEMMA StateChanges ==
  ASSUME NEW r \in RiskStates, NEW s \in Symbols
  PROVE  /\ FreshState \in RiskStates
         /\ \A p \in Prices : AfterOpen(r, s, p) \in RiskStates
         /\ \A n \in Int : AfterClose(r, s, n) \in RiskStates
         /\ \A why \in HaltReasons : AfterHalt(r, why) \in RiskStates
  <1> USE RiskConfig DEF RiskStates, NoPosition, NoReason, Strikes
  <1>1. FreshState \in RiskStates
    BY DEF FreshState
  <1>2. ASSUME NEW p \in Prices PROVE AfterOpen(r, s, p) \in RiskStates
    <2>1. [r.positions EXCEPT ![s] = p] \in [Symbols -> Prices \union {NoPosition}]
      OBVIOUS
    <2>2. r.trades + 1 \in Nat
      OBVIOUS
    <2>3. QED
      BY <2>1, <2>2 DEF AfterOpen
  <1>3. ASSUME NEW n \in Int PROVE AfterClose(r, s, n) \in RiskStates
    BY DEF AfterClose, Larger
  <1>4. ASSUME NEW why \in HaltReasons PROVE AfterHalt(r, why) \in RiskStates
    BY DEF AfterHalt
  <1>5. QED
    BY <1>1, <1>2, <1>3, <1>4

\* The fresh state needs no symbol to be well formed.
LEMMA FreshIsState == FreshState \in RiskStates
  BY DEF FreshState, RiskStates, NoPosition, NoReason, Strikes

(***************************************************************************)
(* The sizing rules.                                                       *)
(***************************************************************************)

\* A share of at most a hundred hundredths never exceeds the whole.
LEMMA PortionShrinks ==
  ASSUME NEW n \in Nat, NEW pct \in 0 .. 100
  PROVE  Portion(n, pct) \in 0 .. n
  <1>1. n * pct \in 0 .. n * 100
    BY Z3
  <1>2. QED
    BY <1>1 DEF Portion

\* The icebreaker is a number of shares, whatever fraction is configured.
LEMMA IcebreakerIsNat == Icebreaker \in Nat
  <1>1. MaxSize \in Nat /\ IcebreakerPct \in 0 .. 100
    BY SizingConfig DEF SizingConfig
  <1>2. Portion(MaxSize, IcebreakerPct) \in 0 .. MaxSize
    BY <1>1, PortionShrinks
  <1>3. QED
    BY <1>1, <1>2 DEF Icebreaker, AtLeast

\* The count before the multipliers: a natural number, and within the
\* icebreaker or the starter cap while the day has not earned more.
LEMMA CushionedBounds ==
  ASSUME NEW pnl \in Int, NEW perShare \in Int, RiskFormula => perShare > 0
  PROVE  LET base == Cushioned(RawShares(pnl, perShare), pnl)
         IN  /\ base \in Nat
             /\ pnl <= 0 => base <= Icebreaker
             /\ pnl \in 1 .. CushionPnl - 1 => base <= StarterCap
  <1> DEFINE raw == RawShares(pnl, perShare)
  <1>1. /\ {MaxSize, StarterCap, CushionPnl, PerTradeRisk} \subseteq Nat
        /\ RiskFormula \in BOOLEAN
    BY SizingConfig DEF SizingConfig
  <1>2. raw \in Nat
    <2>1. CASE RiskFormula
      <3>1. perShare > 0 /\ PerTradeRisk \in Nat
        BY <1>1, <2>1
      <3>2. PerTradeRisk \div perShare \in Nat
        BY <3>1
      <3>3. QED
        BY <2>1, <3>2 DEF RawShares
    <2>2. CASE ~RiskFormula
      BY <1>1, <2>2 DEF RawShares
    <2>3. QED
      BY <1>1, <2>1, <2>2
  <1> HIDE DEF raw
  <1>3. QED
    BY <1>1, <1>2, IcebreakerIsNat DEF Cushioned, AtMost, raw

\* The multipliers and the caps only ever take shares away.
LEMMA WeighingShrinks ==
  ASSUME NEW n \in Nat, NEW ctx \in SizingContexts
  PROVE  LET believed == Portion(n, ctx.conviction)
             dayed    == DayWeighted(believed, ctx.day)
             weighed  == MarketWeighted(dayed, ctx.market)
         IN  LiquidityCapped(weighed, ctx.liquidity) \in 0 .. n
  <1> DEFINE believed == Portion(n, ctx.conviction)
             dayed    == DayWeighted(believed, ctx.day)
             weighed  == MarketWeighted(dayed, ctx.market)
  <1>1. /\ {MondayPct, FridayPct, ColdPct} \subseteq 0 .. 100
        /\ RehabCap \in Nat
    BY SizingConfig DEF SizingConfig
  <1>2. believed \in 0 .. n
    BY PortionShrinks DEF SizingContexts
  <1>3. dayed \in 0 .. believed
    <2>1. believed \in Nat
      BY <1>2
    <2> HIDE DEF believed
    <2>2. Portion(believed, MondayPct) \in 0 .. believed
      BY <1>1, <2>1, PortionShrinks
    <2>3. Portion(believed, FridayPct) \in 0 .. believed
      BY <1>1, <2>1, PortionShrinks
    <2>4. QED
      BY <2>1, <2>2, <2>3 DEF DayWeighted, SizingContexts
  <1>4. weighed \in 0 .. dayed
    <2>1. dayed \in Nat
      BY <1>2, <1>3
    <2> HIDE DEF dayed
    <2>2. Portion(dayed, ColdPct) \in 0 .. dayed
      BY <1>1, <2>1, PortionShrinks
    <2>3. QED
      BY <1>1, <2>1, <2>2 DEF MarketWeighted, AtMost, SizingContexts
  <1> HIDE DEF believed, dayed, weighed
  <1>5. LiquidityCapped(weighed, ctx.liquidity) \in 0 .. n
    BY <1>2, <1>3, <1>4 DEF LiquidityCapped, AtMost, SizingContexts
  <1>6. QED
    BY <1>5 DEF believed, dayed, weighed

\* What the sizing rules return, for every signal and every day: a number
\* of shares within every cap that applies.
THEOREM SizeBounds ==
  ASSUME NEW pnl \in Int, NEW ctx \in SizingContexts
  PROVE  /\ ComputeSize(pnl, ctx) \in 0 .. MaxSize
         /\ pnl <= 0 => ComputeSize(pnl, ctx) <= Icebreaker
         /\ pnl \in 1 .. CushionPnl - 1 => ComputeSize(pnl, ctx) <= StarterCap
  <1>1. {MaxSize, StarterCap, CushionPnl} \subseteq Nat /\ Icebreaker \in Nat
    BY SizingConfig, IcebreakerIsNat DEF SizingConfig
  <1>2. CASE RiskFormula /\ ctx.perShare <= 0
    BY <1>1, <1>2 DEF ComputeSize
  <1>3. CASE ~(RiskFormula /\ ctx.perShare <= 0)
    <2> DEFINE base == Cushioned(RawShares(pnl, ctx.perShare), pnl)
    <2>1. ctx.perShare \in Int /\ (RiskFormula => ctx.perShare > 0)
      BY <1>3 DEF SizingContexts
    <2>2. /\ base \in Nat
          /\ pnl <= 0 => base <= Icebreaker
          /\ pnl \in 1 .. CushionPnl - 1 => base <= StarterCap
      BY <2>1, CushionedBounds
    <2> HIDE DEF base
    <2> DEFINE weighed == MarketWeighted(DayWeighted(Portion(base, ctx.conviction), ctx.day), ctx.market)
               capped  == LiquidityCapped(weighed, ctx.liquidity)
    <2>3. capped \in 0 .. base
      BY <2>2, WeighingShrinks
    <2>4. ComputeSize(pnl, ctx) = AtLeast(AtMost(capped, MaxSize), 0)
      BY <1>3 DEF ComputeSize, base
    <2> HIDE DEF capped
    <2>5. QED
      BY <1>1, <2>2, <2>3, <2>4 DEF AtLeast, AtMost
  <1>4. QED
    BY <1>2, <1>3

\* The capital ramp of the live session takes shares away from an approved
\* size and never adds any, in every tier, and a micro or starter session
\* stays within its tier's shares.
THEOREM RampShrinks ==
  ASSUME NEW shares \in Nat
  PROVE  /\ RampApply(shares) \in 0 .. shares
         /\ RampTier = "MICRO" => RampApply(shares) <= RampMicroShares
         /\ RampTier = "STARTER" => RampApply(shares) <= RampStarterShares
  <1>1. /\ {RampMicroShares, RampStarterShares} \subseteq Nat
        /\ RampTier \in {"MICRO", "STARTER", "FULL"}
    BY SizingConfig DEF SizingConfig
  <1>2. QED
    BY <1>1 DEF RampApply, AtMost

(***************************************************************************)
(* Type correctness.                                                       *)
(***************************************************************************)

\* A new manager starts well formed.
LEMMA TypeInit == Init => TypeOK
  BY FreshIsState DEF Init, TypeOK

\* Every operation leaves the state well formed.
LEMMA TypeNext == TypeOK /\ [Next]_vars => TypeOK'
  <1> SUFFICES ASSUME TypeOK, [Next]_vars PROVE TypeOK'
    OBVIOUS
  <1> USE DEF TypeOK
  <1>1. CASE ResetSession
    BY <1>1, FreshIsState DEF ResetSession
  <1>2. ASSUME NEW sig \in Signals, NEW equity \in Equities, NEW ctx \in Contexts,
               Evaluate(sig, equity, ctx)
        PROVE  TypeOK'
    <2>1. risk.realized \in Int /\ ctx \in SizingContexts
      BY ManagerConfig DEF ManagerConfig, RiskStates
    <2>2. ComputeSize(risk.realized, ctx) \in Nat
      BY <2>1, SizeBounds, SizingConfig DEF SizingConfig
    <2>3. pending' \in Orders
      BY <1>2, <2>2 DEF Evaluate, Orders, Signals
    <2>4. QED
      BY <1>2, <2>3 DEF Evaluate
  <1>3. CASE RecordOpen
    <2>1. pending.symbol \in Symbols /\ pending.entry \in Prices
      BY <1>3 DEF RecordOpen, Orders
    <2>2. QED
      BY <1>3, <2>1, StateChanges DEF RecordOpen
  <1>4. CASE OrderRefused
    BY <1>4 DEF OrderRefused
  <1>5. ASSUME NEW s \in Symbols, NEW pnl \in Pnls, RecordClose(s, pnl)
        PROVE  TypeOK'
    <2>1. pnl \in Int
      BY ManagerConfig DEF ManagerConfig
    <2>2. risk' \in RiskStates
      BY <1>5, <2>1, StateChanges DEF RecordClose
    <2>3. results' \in Seq(Int)
      BY <1>5, <2>1 DEF RecordClose
    <2>4. QED
      BY <1>5, <2>2, <2>3 DEF RecordClose
  <1>6. ASSUME NEW why \in HaltReasons, HaltSession(why)
        PROVE  TypeOK'
    BY <1>6 DEF HaltSession, AfterHalt, RiskStates
  <1>7. CASE UNCHANGED vars
    BY <1>7 DEF vars
  <1>8. QED
    BY <1>1, <1>2, <1>3, <1>4, <1>5, <1>6, <1>7 DEF Next

\* Whatever the loops do to it, the guard's state stays the record it was
\* declared as, and an approved order names a known symbol, an entry price
\* and at least one share.
THEOREM TypeCorrect == Spec => []TypeOK
  BY TypeInit, TypeNext, PTL DEF Spec

(***************************************************************************)
(* The guard's invariant.                                                  *)
(***************************************************************************)

\* A fresh day satisfies the guard's invariant.
LEMMA GuardInit == Init => GuardInv
  BY RiskConfig DEF Init, GuardInv, PeakCoversRealized, StrikesHalt,
     TradesWithinCap, FreshState, RiskConfig

\* Each conjunct of GuardInv is inductive on its own, so the proof has one
\* step per operation.  Only a close moves the day's result, the peak and the
\* streak; only a recorded fill moves the trade count, and then the approval
\* it consumes was given below the cap.
LEMMA GuardNext == TypeOK /\ GuardInv /\ [Next]_vars => GuardInv'
  <1> SUFFICES ASSUME TypeOK, GuardInv, [Next]_vars PROVE GuardInv'
    OBVIOUS
  <1> USE DEF GuardInv, PeakCoversRealized, StrikesHalt, TradesWithinCap
  <1>0. /\ risk.realized \in Int /\ risk.peak \in Nat /\ risk.losses \in Nat
        /\ risk.trades \in Nat /\ risk.halted \in BOOLEAN
        /\ MaxTradesPerDay \in Nat /\ ThreeStrikes \in Nat \ {0}
    BY RiskConfig DEF TypeOK, RiskStates, RiskConfig
  <1>1. CASE ResetSession
    BY <1>0, <1>1 DEF ResetSession, FreshState
  <1>2. ASSUME NEW sig \in Signals, NEW equity \in Equities, NEW ctx \in Contexts,
               Evaluate(sig, equity, ctx)
        PROVE  GuardInv'
    <2>1. risk.trades < MaxTradesPerDay
      BY <1>0, <1>2 DEF Evaluate, Vetoes
    <2>2. QED
      BY <1>0, <1>2, <2>1 DEF Evaluate
  <1>3. CASE RecordOpen
    <2>1. /\ risk'.trades = risk.trades + 1
          /\ risk'.realized = risk.realized /\ risk'.peak = risk.peak
          /\ risk'.losses = risk.losses /\ risk'.halted = risk.halted
      BY <1>3 DEF RecordOpen, AfterOpen, TypeOK, RiskStates
    <2>2. risk.trades < MaxTradesPerDay
      BY <1>3 DEF RecordOpen
    <2>3. QED
      BY <1>0, <1>3, <2>1, <2>2 DEF RecordOpen
  <1>4. CASE OrderRefused
    BY <1>4 DEF OrderRefused
  <1>5. ASSUME NEW s \in Symbols, NEW pnl \in Pnls, RecordClose(s, pnl)
        PROVE  GuardInv'
    <2>1. pnl \in Int
      BY ManagerConfig DEF ManagerConfig
    <2>2. /\ risk'.realized = risk.realized + pnl
          /\ risk'.peak = Larger(risk.peak, risk.realized + pnl)
          /\ risk'.trades = risk.trades
          /\ risk'.losses = IF pnl < 0 THEN risk.losses + 1 ELSE 0
          /\ risk'.halted = (risk.halted \/ (~risk.halted /\ risk'.losses >= ThreeStrikes))
          /\ pending' = pending
      BY <1>5 DEF RecordClose, AfterClose
    <2>3. PeakCoversRealized'
      BY <1>0, <2>1, <2>2 DEF Larger
    <2>4. StrikesHalt'
      BY <2>2
    <2>5. TradesWithinCap'
      BY <2>2
    <2>6. QED
      BY <2>3, <2>4, <2>5
  <1>6. ASSUME NEW why \in HaltReasons, HaltSession(why)
        PROVE  GuardInv'
    BY <1>0, <1>6 DEF HaltSession, AfterHalt, TypeOK, RiskStates
  <1>7. CASE UNCHANGED vars
    BY <1>7 DEF vars
  <1>8. QED
    BY <1>1, <1>2, <1>3, <1>4, <1>5, <1>6, <1>7 DEF Next

\* At every moment of every session: the peak covers the day's result, a full
\* losing streak has halted the session, and the trade count is within its cap
\* even while an approved order is on its way to the broker.
THEOREM GuardCorrect == Spec => []GuardInv
  BY TypeCorrect, TypeInit, GuardInit, GuardNext, PTL DEF Spec

(***************************************************************************)
(* The two forms of the give-back rule.                                    *)
(***************************************************************************)

\* Product over a difference, for the two ways of writing the give-back rule.
LEMMA TimesDistributes ==
  ASSUME NEW a \in Int, NEW b \in Int
  PROVE  a * (100 - b) = 100 * a - b * a
  <1>1. a * (100 - b) = a * 100 - a * b
    BY Z3
  <1>2. a * b = b * a
    BY Z3
  <1>3. QED
    BY <1>1, <1>2, Z3

\* On any state of the guard the fraction form and the threshold form agree.
LEMMA GiveBackAgrees ==
  ASSUME NEW r \in RiskStates
  PROVE  (GiveBackLevel(r) = "halt") <=> GiveBackVeto(r)
  <1>1. /\ r.realized \in Int /\ r.peak \in Nat /\ r.peak \in Int
        /\ GiveBackHard \in Int
    BY RiskConfig DEF RiskConfig, RiskStates
  <1>2. r.peak * (100 - GiveBackHard) = 100 * r.peak - GiveBackHard * r.peak
    BY <1>1, TimesDistributes, Zenon
  <1>3. /\ GiveBackHard * r.peak \in Int
        /\ r.peak * (100 - GiveBackHard) \in Int
    BY <1>1, Z3
  <1>4. GivenBack(r, GiveBackHard) <=> 100 * r.realized <= r.peak * (100 - GiveBackHard)
    BY <1>1, <1>2, <1>3 DEF GivenBack
  <1>5. GiveBackLevel(r) = "halt" <=> r.peak > 0 /\ GivenBack(r, GiveBackHard)
    BY <1>1 DEF GiveBackLevel
  <1>6. QED
    BY <1>4, <1>5 DEF GiveBackVeto

\* The monitor's "halt" and the gate's give-back veto are one condition, so
\* neither can let through what the other stops.
THEOREM MonitorsAgree == Spec => []MonitorAgreesWithGate
  <1>1. TypeOK => MonitorAgreesWithGate
    BY GiveBackAgrees DEF TypeOK, MonitorAgreesWithGate
  <1>2. QED
    BY <1>1, TypeCorrect, PTL

(***************************************************************************)
(* Three strikes.                                                          *)
(***************************************************************************)

\* Before the first close the streak is empty.
LEMMA StreakInit == Init => StreakInv
  <1> SUFFICES ASSUME Init PROVE StreakInv
    OBVIOUS
  <1>1. risk.losses = 0 /\ Len(results) = 0
    BY DEF Init, FreshState
  <1>2. ~StruckOut
    BY <1>1, RiskConfig DEF StruckOut, RiskConfig
  <1>3. QED
    BY <1>1, <1>2 DEF StreakInv

\* The one step that can complete a run of losses.  A run that ends before
\* the new result was there already; one that ends with it needs the streak
\* to have been ThreeStrikes - 1 long, so the close itself halts.
LEMMA StreakClose ==
  ASSUME TypeOK, StreakInv, NEW s \in Symbols, NEW pnl \in Int, RecordClose(s, pnl)
  PROVE  StreakInv'
  <1> DEFINE n == Len(results)
             T == ThreeStrikes
  <1>1. /\ n \in Nat /\ risk.losses \in Nat /\ risk.halted \in BOOLEAN
        /\ T \in Nat \ {0}
        /\ \A j \in 1 .. n : results[j] \in Int
    BY RiskConfig DEF TypeOK, RiskStates, RiskConfig
  <1>2. /\ Len(results') = n + 1
        /\ \A j \in 1 .. n : results'[j] = results[j]
        /\ results'[n + 1] = pnl
    BY DEF RecordClose, TypeOK
  <1>3. /\ risk'.losses = IF pnl < 0 THEN risk.losses + 1 ELSE 0
        /\ risk'.halted = (risk.halted \/ (~risk.halted /\ risk'.losses >= T))
    BY DEF RecordClose, AfterClose
  <1>4. /\ risk.losses <= n
        /\ \A j \in n - risk.losses + 1 .. n : results[j] < 0
        /\ risk.losses = n \/ results[n - risk.losses] >= 0
        /\ StruckOut => risk.halted
    BY DEF StreakInv
  <1> HIDE DEF n, T
  <1>5. /\ risk'.losses <= n + 1
        /\ \A j \in n + 1 - risk'.losses + 1 .. n + 1 : results'[j] < 0
        /\ risk'.losses = n + 1 \/ results'[n + 1 - risk'.losses] >= 0
    <2>1. CASE pnl < 0
      <3>1. /\ risk'.losses = risk.losses + 1 /\ risk.losses \in Nat /\ n \in Nat
            /\ n + 1 - (risk.losses + 1) + 1 = n - risk.losses + 1
            /\ n + 1 - (risk.losses + 1) = n - risk.losses
        <4>1. risk'.losses = risk.losses + 1 /\ risk.losses \in Nat /\ n \in Nat
          BY <1>1, <1>3, <2>1
        <4>2. QED
          BY <4>1
      <3>2. \A j \in n - risk.losses + 1 .. n + 1 : results'[j] < 0
        <4> SUFFICES ASSUME NEW j \in n - risk.losses + 1 .. n + 1 PROVE results'[j] < 0
          OBVIOUS
        <4>1. j = n + 1 \/ (j \in n - risk.losses + 1 .. n /\ j \in 1 .. n)
          BY <1>4, <3>1
        <4>2. QED
          BY <1>2, <1>4, <2>1, <4>1
      <3>3. risk.losses = n \/ (n - risk.losses \in 1 .. n /\ results'[n - risk.losses] >= 0)
        BY <1>2, <1>4, <3>1
      <3>4. QED
        BY <1>4, <3>1, <3>2, <3>3
    <2>2. CASE ~(pnl < 0)
      BY <1>1, <1>2, <1>3, <2>2
    <2>3. QED
      BY <2>1, <2>2
  <1>6. ASSUME StruckOut' PROVE risk'.halted
    <2>1. \E k \in 1 .. Len(results') - T + 1 : \A j \in k .. k + T - 1 : results'[j] < 0
      BY <1>6, Zenon DEF StruckOut, T
    <2>2. PICK k \in 1 .. Len(results') - T + 1 : \A j \in k .. k + T - 1 : results'[j] < 0
      BY <2>1, Zenon
    <2>3. /\ k \in 1 .. n + 1 - T + 1
          /\ \A j \in k .. k + T - 1 : results'[j] < 0
      BY <1>1, <1>2, <2>2
    <2>4. CASE k + T - 1 <= n
      <3>1. k \in 1 .. n - T + 1
        BY <1>1, <2>3, <2>4
      <3>2. \A j \in k .. k + T - 1 : results[j] < 0
        BY <1>1, <1>2, <2>3, <2>4
      <3>3. StruckOut
        BY <3>1, <3>2 DEF StruckOut, n, T
      <3>4. QED
        BY <1>3, <1>4, <3>3
    <2>5. CASE ~(k + T - 1 <= n)
      <3>1. k + T - 1 = n + 1
        BY <1>1, <2>3, <2>5
      <3>2. pnl < 0
        BY <1>1, <1>2, <2>3, <3>1
      <3>3. risk.losses + 1 >= T
        <4>1. SUFFICES ASSUME risk.losses + 1 < T PROVE FALSE
          BY <1>1
        <4>2. n - risk.losses \in k .. n /\ n - risk.losses >= 1
          BY <1>1, <1>4, <2>3, <3>1, <4>1
        <4>3. results[n - risk.losses] < 0
          BY <1>1, <1>2, <2>3, <3>1, <4>2
        <4>4. risk.losses # n
          BY <1>1, <4>2
        <4>5. QED
          BY <1>1, <1>4, <4>2, <4>3, <4>4
      <3>4. QED
        BY <1>3, <3>2, <3>3
    <2>6. QED
      BY <2>4, <2>5
  <1>7. /\ risk'.losses <= Len(results')
        /\ \A j \in Len(results') - risk'.losses + 1 .. Len(results') : results'[j] < 0
        /\ risk'.losses = Len(results') \/ results'[Len(results') - risk'.losses] >= 0
    BY <1>1, <1>2, <1>3, <1>5
  <1>8. QED
    BY <1>6, <1>7, Zenon DEF StreakInv

\* Every operation keeps the streak in step with the results.
LEMMA StreakNext == TypeOK /\ StreakInv /\ [Next]_vars => StreakInv'
  <1> SUFFICES ASSUME TypeOK, StreakInv, [Next]_vars PROVE StreakInv'
    OBVIOUS
  <1>1. CASE ResetSession
    <2>1. risk'.losses = 0 /\ Len(results') = 0
      BY <1>1 DEF ResetSession, FreshState
    <2>2. ~StruckOut'
      BY <2>1, RiskConfig DEF StruckOut, RiskConfig
    <2>3. QED
      BY <2>1, <2>2 DEF StreakInv
  <1>2. ASSUME results' = results, risk'.losses = risk.losses,
               risk.halted => risk'.halted
        PROVE  StreakInv'
    BY <1>2 DEF StreakInv, StruckOut
  <1>3. ASSUME NEW sig \in Signals, NEW equity \in Equities, NEW ctx \in Contexts,
               Evaluate(sig, equity, ctx)
        PROVE  StreakInv'
    BY <1>2, <1>3 DEF Evaluate
  <1>4. CASE RecordOpen
    BY <1>2, <1>4 DEF RecordOpen, AfterOpen, TypeOK, RiskStates
  <1>5. CASE OrderRefused
    BY <1>2, <1>5 DEF OrderRefused
  <1>6. ASSUME NEW s \in Symbols, NEW pnl \in Pnls, RecordClose(s, pnl)
        PROVE  StreakInv'
    BY <1>6, StreakClose, ManagerConfig DEF ManagerConfig
  <1>7. ASSUME NEW why \in HaltReasons, HaltSession(why)
        PROVE  StreakInv'
    BY <1>2, <1>7 DEF HaltSession, AfterHalt, TypeOK, RiskStates
  <1>8. CASE UNCHANGED vars
    BY <1>2, <1>8 DEF vars
  <1>9. QED
    BY <1>1, <1>3, <1>4, <1>5, <1>6, <1>7, <1>8 DEF Next

\* The streak counter is the run of losses at the end of the day's results,
\* and a run of ThreeStrikes anywhere in them has halted the session.
THEOREM StreakCorrect == Spec => []StreakInv
  BY TypeCorrect, TypeInit, StreakInit, StreakNext, PTL DEF Spec

(***************************************************************************)
(* The numbers of the day.                                                 *)
(***************************************************************************)

\* The result and the peak against the results so far; the streak follows
\* from StreakInv.
NumbersInv ==
  /\ risk.realized = Net(results)
  /\ \A p \in Prefixes(results) : Net(p) <= risk.peak
  /\ risk.peak = 0 \/ \E p \in Prefixes(results) : Net(p) = risk.peak

\* A total is a number, and one more result adds to it.
LEMMA NetAppend ==
  ASSUME NEW rs \in Seq(Int), NEW pnl \in Int
  PROVE  Net(rs) \in Int /\ Net(Append(rs, pnl)) = Net(rs) + pnl
  BY TotalAppend DEF Net, Total

\* The days before a close are the days before it still, and the whole.
LEMMA PrefixesAppend ==
  ASSUME NEW rs \in Seq(Int), NEW pnl \in Int
  PROVE  Prefixes(Append(rs, pnl)) = Prefixes(rs) \union {Append(rs, pnl)}
  <1> DEFINE longer == Append(rs, pnl)
             n == Len(rs)
  <1>1. n \in Nat /\ longer \in Seq(Int) /\ Len(longer) = n + 1
    BY AppendProperties, LenProperties
  <1>2. \A j \in 1 .. n : longer[j] = rs[j] /\ rs[j] \in Int
    BY AppendProperties, ElementOfSeq
  <1>3. SubSeq(longer, 1, n + 1) = longer
    <2> HIDE DEF longer
    <2>1. SubSeq(longer, 1, Len(longer)) = longer
      BY <1>1, SubSeqFull
    <2>2. QED
      BY <1>1, <2>1
  <1>4. ASSUME NEW m \in 0 .. n PROVE SubSeq(longer, 1, m) = SubSeq(rs, 1, m)
    <2> HIDE DEF longer, n
    <2>1. m \in Int /\ \A j \in 1 .. m : longer[j] \in Int /\ rs[j] \in Int /\ longer[j] = rs[j]
      BY <1>1, <1>2
    <2>2. /\ SubSeq(longer, 1, m) \in Seq(Int)
          /\ Len(SubSeq(longer, 1, m)) = IF 1 <= m THEN m - 1 + 1 ELSE 0
          /\ \A j \in 1 .. m - 1 + 1 : SubSeq(longer, 1, m)[j] = longer[1 + j - 1]
      BY <2>1, SubSeqProperties
    <2>3. /\ SubSeq(rs, 1, m) \in Seq(Int)
          /\ Len(SubSeq(rs, 1, m)) = IF 1 <= m THEN m - 1 + 1 ELSE 0
          /\ \A j \in 1 .. m - 1 + 1 : SubSeq(rs, 1, m)[j] = rs[1 + j - 1]
      BY <2>1, SubSeqProperties
    <2>4. m \in Nat
      BY <1>1
    <2>5. Len(SubSeq(longer, 1, m)) = m /\ Len(SubSeq(rs, 1, m)) = m
      BY <2>2, <2>3, <2>4
    <2>6. \A j \in 1 .. m : SubSeq(longer, 1, m)[j] = SubSeq(rs, 1, m)[j]
      <3>1. SUFFICES ASSUME NEW j \in 1 .. m PROVE SubSeq(longer, 1, m)[j] = SubSeq(rs, 1, m)[j]
        OBVIOUS
      <3>2. j \in 1 .. m - 1 + 1 /\ 1 + j - 1 = j
        BY <2>4
      <3>3. QED
        BY <2>1, <2>2, <2>3, <3>2
    <2>7. QED
      BY <2>2, <2>3, <2>5, <2>6, SeqEqual
  <1>5. Prefixes(longer) = {SubSeq(longer, 1, m) : m \in 0 .. n + 1}
    BY <1>1 DEF Prefixes
  <1>6. Prefixes(rs) = {SubSeq(rs, 1, m) : m \in 0 .. n}
    BY DEF Prefixes
  <1>7. \A m : m \in 0 .. n + 1 <=> m \in 0 .. n \/ m = n + 1
    BY <1>1
  <1> HIDE DEF longer, n
  <1>8. QED
    BY <1>3, <1>4, <1>5, <1>6, <1>7 DEF longer

\* A fresh day has no results.
LEMMA NumbersFresh ==
  ASSUME risk = FreshState, results = <<>>
  PROVE  NumbersInv
  <1>1. Net(<<>>) = 0
    BY TotalEmpty DEF Net, Total
  <1>2. \A p \in Prefixes(results) : p = <<>>
    <2>1. SUFFICES ASSUME NEW p \in Prefixes(results) PROVE p = <<>>
      OBVIOUS
    <2>2. Len(results) = 0
      OBVIOUS
    <2>3. PICK m \in 0 .. 0 : p = SubSeq(results, 1, m)
      BY <2>1, <2>2 DEF Prefixes
    <2>4. m = 0 /\ m \in Int /\ 1 \in Int /\ m < 1
      OBVIOUS
    <2>5. QED
      BY <2>3, <2>4, SubSeqEmpty
  <1>3. risk.realized = 0 /\ risk.peak = 0
    BY DEF FreshState
  <1>4. QED
    BY <1>1, <1>2, <1>3 DEF NumbersInv

\* A close moves the total, and the peak if the total has passed it.
LEMMA NumbersClose ==
  ASSUME TypeOK, NumbersInv, NEW s \in Symbols, NEW pnl \in Int, RecordClose(s, pnl)
  PROVE  NumbersInv'
  <1> DEFINE net == Net(results)
             after == net + pnl
  <1>1. results \in Seq(Int) /\ risk.realized \in Int /\ risk.peak \in Nat
    BY DEF TypeOK, RiskStates
  <1>2. /\ risk'.realized = risk.realized + pnl
        /\ risk'.peak = Larger(risk.peak, risk.realized + pnl)
        /\ results' = Append(results, pnl)
    BY DEF RecordClose, AfterClose
  <1>3. net \in Int /\ Net(results') = after
    BY <1>1, <1>2, NetAppend
  <1>4. Prefixes(results') = Prefixes(results) \union {results'}
    BY <1>1, <1>2, PrefixesAppend
  <1>5. risk.realized = net
    BY DEF NumbersInv
  <1> HIDE DEF net
  <1>6. risk'.realized = after /\ risk'.peak = Larger(risk.peak, after)
    BY <1>2, <1>5
  <1>7. /\ risk'.peak \in Int /\ risk'.peak >= risk.peak /\ risk'.peak >= after
        /\ risk'.peak = risk.peak \/ risk'.peak = after
    BY <1>1, <1>3, <1>6 DEF Larger
  <1>8. \A p \in Prefixes(results) : Net(p) \in Int
    <2>1. SUFFICES ASSUME NEW p \in Prefixes(results) PROVE Net(p) \in Int
      OBVIOUS
    <2>2. PICK m \in 0 .. Len(results) : p = SubSeq(results, 1, m)
      BY DEF Prefixes
    <2>3. m \in Int /\ \A j \in 1 .. m : results[j] \in Int
      BY <1>1, ElementOfSeq, LenProperties
    <2>4. p \in Seq(Int)
      BY <2>2, <2>3, SubSeqProperties
    <2>5. QED
      BY <2>4, NetAppend
  <1>9. \A p \in Prefixes(results') : Net(p) <= risk'.peak
    <2>1. SUFFICES ASSUME NEW p \in Prefixes(results') PROVE Net(p) <= risk'.peak
      OBVIOUS
    <2>2. CASE p \in Prefixes(results)
      BY <1>1, <1>7, <1>8, <2>2 DEF NumbersInv
    <2>3. CASE p = results'
      BY <1>3, <1>7, <2>3
    <2>4. QED
      BY <1>4, <2>2, <2>3
  <1>10. risk'.peak = 0 \/ \E p \in Prefixes(results') : Net(p) = risk'.peak
    <2>1. CASE risk'.peak = risk.peak
      BY <1>4, <2>1 DEF NumbersInv
    <2>2. CASE risk'.peak = after
      BY <1>3, <1>4, <2>2
    <2>3. QED
      BY <1>7, <2>1, <2>2
  <1>11. QED
    BY <1>3, <1>6, <1>9, <1>10 DEF NumbersInv

\* Nothing but a close and a reset touches the numbers.
LEMMA NumbersNext == TypeOK /\ NumbersInv /\ [Next]_vars => NumbersInv'
  <1> SUFFICES ASSUME TypeOK, NumbersInv, [Next]_vars PROVE NumbersInv'
    OBVIOUS
  <1>1. CASE ResetSession
    <2>1. risk' = FreshState /\ results' = <<>>
      BY <1>1 DEF ResetSession
    <2>2. (risk = FreshState /\ results = <<>> => NumbersInv)'
      BY NumbersFresh, PTL
    <2>3. QED
      BY <2>1, <2>2
  <1>2. ASSUME results' = results, risk'.realized = risk.realized, risk'.peak = risk.peak
        PROVE  NumbersInv'
    BY <1>2 DEF NumbersInv
  <1>3. ASSUME NEW sig \in Signals, NEW equity \in Equities, NEW ctx \in Contexts,
               Evaluate(sig, equity, ctx)
        PROVE  NumbersInv'
    BY <1>2, <1>3 DEF Evaluate
  <1>4. CASE RecordOpen
    BY <1>2, <1>4 DEF RecordOpen, AfterOpen, TypeOK, RiskStates
  <1>5. CASE OrderRefused
    BY <1>2, <1>5 DEF OrderRefused
  <1>6. ASSUME NEW s \in Symbols, NEW pnl \in Pnls, RecordClose(s, pnl)
        PROVE  NumbersInv'
    BY <1>6, NumbersClose, ManagerConfig DEF ManagerConfig
  <1>7. ASSUME NEW why \in HaltReasons, HaltSession(why)
        PROVE  NumbersInv'
    BY <1>2, <1>7 DEF HaltSession, AfterHalt, TypeOK, RiskStates
  <1>8. CASE UNCHANGED vars
    BY <1>2, <1>8 DEF vars
  <1>9. QED
    BY <1>1, <1>3, <1>4, <1>5, <1>6, <1>7, <1>8 DEF Next

\* There is one run of losses at the end of the results, and the streak is it.
LEMMA StreakIsTrailing ==
  ASSUME TypeOK, StreakInv
  PROVE  risk.losses = TrailingLosses(results)
  <1> DEFINE n == Len(results)
             Trails(k) == /\ \A j \in n - k + 1 .. n : results[j] < 0
                          /\ k = n \/ results[n - k] >= 0
  <1>1. /\ n \in Nat /\ risk.losses \in 0 .. n
        /\ \A j \in 1 .. n : results[j] \in Int
    BY ElementOfSeq, LenProperties DEF TypeOK, RiskStates, StreakInv
  <1>2. Trails(risk.losses)
    BY DEF StreakInv
  <1>3. ASSUME NEW k \in 0 .. n, NEW m \in 0 .. n, Trails(k), Trails(m), k < m PROVE FALSE
    <2>1. n - k \in n - m + 1 .. n /\ n - k \in 1 .. n /\ k # n
      BY <1>1, <1>3
    <2>2. results[n - k] < 0 /\ results[n - k] >= 0
      BY <1>3, <2>1
    <2>3. QED
      BY <1>1, <2>1, <2>2
  <1>4. TrailingLosses(results) = CHOOSE k \in 0 .. n : Trails(k)
    BY DEF TrailingLosses
  <1> HIDE DEF Trails, n
  <1>5. \A k \in 0 .. n : Trails(k) => k = risk.losses
    <2>1. SUFFICES ASSUME NEW k \in 0 .. n, Trails(k), k # risk.losses PROVE FALSE
      OBVIOUS
    <2>2. k < risk.losses \/ risk.losses < k
      BY <1>1, <2>1
    <2>3. QED
      BY <1>1, <1>2, <1>3, <2>1, <2>2
  <1>6. QED
    BY <1>1, <1>2, <1>4, <1>5

\* The result, the peak and the streak of the day are what the results of its
\* closes say, whatever opens, halts, refusals and resets come between
\* (record_close, reset_session), for every number of closes.
THEOREM DayStaysTheResults == Spec => []DayMatchesResults
  <1>1. Init => NumbersInv
    BY NumbersFresh DEF Init
  <1>2. TypeOK /\ StreakInv /\ NumbersInv => DayMatchesResults
    BY StreakIsTrailing DEF NumbersInv, DayMatchesResults
  <1>3. QED
    BY <1>1, <1>2, NumbersNext, TypeCorrect, StreakCorrect, PTL DEF Spec

\* Only Evaluate approves, and it approves nothing for a halted session or
\* outside the sizes the rules compute.
LEMMA ApprovalStep ==
  ASSUME TypeOK, [Next]_vars, Approval
  PROVE  /\ ~risk.halted
         /\ \E ctx \in Contexts : pending'.shares = ComputeSize(risk.realized, ctx)
  <1>1. PICK sig \in Signals, equity \in Equities, ctx \in Contexts :
          Evaluate(sig, equity, ctx)
    BY DEF Approval, Next, vars, ResetSession, RecordOpen, OrderRefused, RecordClose, HaltSession
  <1>2. ~risk.halted
    BY <1>1 DEF Evaluate, Vetoes
  <1>3. pending'.shares = ComputeSize(risk.realized, ctx)
    BY <1>1 DEF Evaluate
  <1>4. QED
    BY <1>2, <1>3

\* U5 for every number of strikes and every day: once the results hold that
\* many losses in a row, no later evaluation of the session approves a trade.
THEOREM ThreeStrikesEndTheDay == Spec => NoTradeAfterThreeStrikes
  <1>1. TypeOK /\ StreakInv /\ [Next]_vars => [Approval => ~StruckOut]_vars
    BY ApprovalStep DEF StreakInv
  <1>2. QED
    BY <1>1, TypeCorrect, StreakCorrect, PTL DEF NoTradeAfterThreeStrikes, Spec

\* Every approved size respects the ceiling, and the icebreaker and starter
\* caps of the day it was approved on, for every configuration.
THEOREM ApprovedSizeWithinCaps == Spec => SizeWithinCaps
  <1> DEFINE Sized ==
        Approval =>
          /\ pending'.shares <= MaxSize
          /\ risk.realized <= 0 => pending'.shares <= Icebreaker
          /\ risk.realized \in 1 .. CushionPnl - 1 => pending'.shares <= StarterCap
  <1>1. TypeOK /\ [Next]_vars => [Sized]_vars
    <2> SUFFICES ASSUME TypeOK, [Next]_vars, Approval
                 PROVE  /\ pending'.shares <= MaxSize
                        /\ risk.realized <= 0 => pending'.shares <= Icebreaker
                        /\ risk.realized \in 1 .. CushionPnl - 1 => pending'.shares <= StarterCap
      OBVIOUS
    <2>1. PICK ctx \in Contexts : pending'.shares = ComputeSize(risk.realized, ctx)
      BY ApprovalStep
    <2>2. risk.realized \in Int /\ ctx \in SizingContexts /\ MaxSize \in Nat
      BY ManagerConfig, SizingConfig DEF ManagerConfig, SizingConfig, TypeOK, RiskStates
    <2>3. QED
      BY <2>1, <2>2, SizeBounds
  <1>2. QED
    BY <1>1, TypeCorrect, PTL DEF SizeWithinCaps, Spec

=============================================================================
