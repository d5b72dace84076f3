------------------------------ MODULE SimGate ------------------------------
(***************************************************************************)
(* The simulator gate (core/backtest/sim_gate.py) and the checks before a  *)
(* live session that read it (core/live/readiness.py).                     *)
(*                                                                         *)
(* The gate keeps a list of days: a failing day empties it, every day is   *)
(* appended, and the list is cut to its last Required days.                *)
(***************************************************************************)
EXTENDS Integers, Sequences, SequencesExt

CONSTANTS
    Required,       \* SIM_GATE_DAYS
    Accuracy,       \* SIM_GATE_ACCURACY in hundredths
    SimDays,        \* days [trades, wins] that are explored
    Accounts,       \* [known, buyingPower] the broker may answer
    MinBuyingPower, \* READINESS_MIN_BUYING_POWER
    MaxDrift,       \* CLOCK_DRIFT_MAX_MS
    MaxLog          \* bound: days

ASSUME GateAssumption == Required \in Nat \ {0} /\ MaxLog \in Nat /\ MaxDrift \in Nat

VARIABLES
    gateDays,       \* _qualifying_days
    gateLog,        \* every day that was recorded (history)
    gateLive,       \* LIVE_ENABLED
    gateReady       \* the answer of the last readiness check

gateVars == <<gateDays, gateLog, gateLive, gateReady>>

Qualifies(day) == day.trades > 0 /\ 100 * day.wins >= Accuracy * day.trades

GateStart ==
    /\ gateDays = <<>> /\ gateLog = <<>>
    /\ gateLive \in BOOLEAN /\ gateReady = FALSE

LastOf(seq, n) == SubSeq(seq, IF Len(seq) > n THEN Len(seq) - n + 1 ELSE 1, Len(seq))

\* Mutation: a failing day is left out instead of ending the streak.
GoodOnly(days, day) == LastOf(IF Qualifies(day) THEN Append(days, day) ELSE days, Required)

\* A failing day empties the list, and is then kept in it.
Kept(days, day) ==
    LastOf(IF Qualifies(day) THEN Append(days, day) ELSE <<day>>, Required)

\* The qualifying days at the end of a list.
Trailing(days) ==
    LET good(n) == \A i \in (Len(days) - n + 1) .. Len(days) : Qualifies(days[i])
    IN  CHOOSE n \in 0 .. Len(days) : good(n) /\ (n = Len(days) \/ ~good(n + 1))

Satisfied == Trailing(gateDays) >= Required

RecordDay ==
    /\ Len(gateLog) < MaxLog
    /\ \E day \in SimDays : gateDays' = Kept(gateDays, day) /\ gateLog' = Append(gateLog, day)
    /\ UNCHANGED <<gateLive, gateReady>>

\* The admin signs off, or withdraws it, between sessions.
SignOff ==
    /\ gateLive' = ~gateLive
    /\ UNCHANGED <<gateDays, gateLog, gateReady>>

\* The checks; PDT_EQUITY only warns and is left out.  A broker that fails
\* counts as an unknown account without buying power, a feed or a clock that
\* fails as a failed check.
NoAccount == [known |-> FALSE, buyingPower |-> 0]
AccountTypeOk(account) == account.known
BuyingPowerOk(account) == account.buyingPower >= MinBuyingPower
CapitalTierOk(tier) == tier \in {"MICRO", "STARTER", "FULL"}
ClockDriftOk(drift) == drift \in 0 .. (MaxDrift - 1)
DataFeedOk(quote) == quote.answered /\ quote.bid > 0 /\ quote.ask > 0

Failed == -1
Quotes == [answered : BOOLEAN, bid : {0, 1}, ask : {0, 1}]

CheckAll ==
    \E account \in Accounts \cup {NoAccount}, tier \in {"STARTER", "FULL", "starter plus"},
       drift \in {Failed, MaxDrift - 1, MaxDrift}, quote \in Quotes :
        /\ gateReady' = ( /\ gateLive /\ Satisfied
                          /\ AccountTypeOk(account) /\ BuyingPowerOk(account)
                          /\ CapitalTierOk(tier)
                          /\ ClockDriftOk(drift) /\ DataFeedOk(quote) )
        /\ UNCHANGED <<gateDays, gateLog, gateLive>>

GateSteps == RecordDay \/ SignOff \/ CheckAll

GateSpec == GateStart /\ [][GateSteps]_gateVars

-----------------------------------------------------------------------------

Streak == INSTANCE StreakGate WITH
    verdicts <- [i \in DOMAIN gateLog |-> Qualifies(gateLog[i])],
    streak   <- Trailing(gateDays)

\* The list that is emptied, refilled and trimmed implements the counter of good
\* days in a row that the spec describes.
StreakPromise == Streak!Promise

\* Every check that passes does so after Required good days in a row at the end
\* of the whole record, however the list was cut and emptied since.
ReadyMeansProven ==
    [][gateReady' /\ ~gateReady =>
        /\ gateLive
        /\ Len(gateLog) >= Required
        /\ \A i \in (Len(gateLog) - Required + 1) .. Len(gateLog) : Qualifies(gateLog[i])]_gateVars
=============================================================================
