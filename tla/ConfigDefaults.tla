--------------------------- MODULE ConfigDefaults ---------------------------
(***************************************************************************)
(* core/config.py without its service: the seed rows and how a stored text *)
(* is parsed.                                                              *)
(*                                                                         *)
(* A row is a text with its declared type.  A text is what it reads as:    *)
(* whole numbers, numbers in hundredths, booleans, times in minutes after  *)
(* midnight, words.                                                        *)
(***************************************************************************)
EXTENDS Integers, FiniteSets, TLC

-----------------------------------------------------------------------------
(* The seed rows, in the order of DEFAULTS.                                *)

I(n) == [type |-> "int", text |-> [kind |-> "whole", n |-> n]]
D(hundredths) == [type |-> "decimal", text |-> [kind |-> "hundredths", n |-> hundredths]]
B(b) == [type |-> "bool", text |-> [kind |-> "boolean", b |-> b]]
T(hh, mm) == [type |-> "time", text |-> [kind |-> "clock", minute |-> 60 * hh + mm]]
S(word) == [type |-> "str", text |-> [kind |-> "word", word |-> word]]

PillarDefaults ==
  [ SWEET_SPOT_LOW |-> D(500), SWEET_SPOT_HIGH |-> D(1000), PRICE_MIN |-> D(200),
    PRICE_MAX |-> D(2000), HARD_AVOID_BELOW |-> D(200),
    FLOAT_HARD_CEILING |-> I(20000000), RVOL_MIN |-> D(500), ROC_MIN |-> D(1000) ]

RiskDefaults ==
  [ MAX_DAILY_LOSS_MODE |-> S("min_pct_acct_or_avg_win"), MAX_DAILY_LOSS_PCT |-> D(10),
    BROKER_HARD_LOCKOUT |-> D(500000), GIVE_BACK_WARN |-> D(25),
    GIVE_BACK_HARD |-> D(50), THREE_STRIKES |-> I(3), RR_MIN |-> D(200),
    DOW_MONDAY_MULT |-> D(50), FIRST_SCALE_FRACTION |-> D(50),
    STOP_BASIS |-> S("pullback_low"), MOVE_BE_TRIGGER |-> D(10), SCAN_START |-> T(7, 0),
    HARD_STOP_TIME |-> T(11, 0), STALE_NO_TRADE_MIN |-> I(60) ]

EntryDefaults ==
  [ HTB_ONLY_FILTER |-> B(FALSE), RETRACE_MAX |-> D(50), RETRACE_PREFERRED |-> D(25),
    SPREAD_MIN |-> D(3), SPREAD_MAX |-> D(10), ENTRY_TRIGGER |-> S("candle_close"),
    CATALYST_VERIFY_MODE |-> S("before"), SIZING_MODE |-> S("risk_formula"),
    PER_TRADE_RISK_DOLLARS |-> D(100000), MAX_SIZE |-> I(10000),
    STARTER_CAP |-> I(5000), ICEBREAKER_FRACTION |-> D(25),
    CUSHION_PNL_THRESHOLD |-> D(100000), HALT_MODE |-> S("post_halt") ]

ExecutionDefaults ==
  [ BUY_OFFSET |-> D(5), BAILOUT_SECONDS |-> I(60), BAILOUT_MOVE |-> D(10),
    SIM_GATE_DAYS |-> I(10), SIM_GATE_ACCURACY |-> D(60), LIVE_ENABLED |-> B(FALSE),
    MAX_TRADES_PER_DAY |-> I(1), PLATFORM |-> S("vendor_agnostic"),
    MARKET_STATE_DEFAULT |-> S("COLD"), PULLBACK_MAX_CANDLES |-> I(3),
    SURGE_MIN_CANDLES |-> I(2), PSYCH_LEVEL_STEP |-> D(50),
    PSYCH_LEVEL_TOLERANCE |-> D(3), FLAG_CONSOLIDATION_MAX |-> D(25),
    LIGHT_VOLUME_RATIO |-> D(30), VOLUME_SPIKE_LOOKBACK |-> I(10) ]

SizingDefaults ==
  [ AVG_WIN_DAY_PNL |-> D(100000), LIQUIDITY_CAP_FRACTION |-> D(10),
    MARKET_STATE_COLD_MULT |-> D(50), MARKET_STATE_REHAB_CAP |-> I(1000),
    EOD_FLATTEN_TIME |-> T(15, 55), DOW_FRIDAY_MULT |-> D(75) ]

ScannerDefaults ==
  [ TIER_A_GAP_MIN |-> D(400), TIER_A_RVOL_MIN |-> D(200),
    TIER_A_FLOAT_CEILING |-> I(50000000), TIER_A_PRICE_MIN |-> D(100),
    TIER_A_PRICE_MAX |-> D(2000), ATTENTION_PRIME_RANK |-> I(3),
    ATTENTION_WATCH_RANK |-> I(10), VOLUME_SWEET_LOW |-> I(5000000),
    VOLUME_SWEET_HIGH |-> I(25000000), RUNNING_UP_PCT |-> D(500),
    RUNNING_UP_WINDOW_MIN |-> I(5), LOW_FLOAT_SUBSCAN_CEILING |-> I(5000000),
    RVOL_BASELINE_DAYS |-> I(50), RVOL_MIN_HISTORY_DAYS |-> I(20),
    FLOAT_DISAGREE_TOLERANCE |-> D(5), REQUIRE_SIP |-> B(TRUE),
    FEED_STALENESS_SECONDS |-> D(500) ]

LiveDefaults ==
  [ LIVE_POLL_MS |-> I(100), RECONCILE_INTERVAL_S |-> I(30),
    RECONNECT_MAX_ATTEMPTS |-> I(3), RECONNECT_DELAY_S |-> I(5),
    CAPITAL_RAMP_TIER |-> S("MICRO"), CAPITAL_RAMP_MICRO_SHARES |-> I(100),
    CAPITAL_RAMP_STARTER_SHARES |-> I(2000), READINESS_MIN_BUYING_POWER |-> D(500000),
    READINESS_MIN_EQUITY |-> D(2500000), CLOCK_DRIFT_MAX_MS |-> I(500),
    CATALYST_LLM_ENABLED |-> B(TRUE),
    CATALYST_LLM_MODEL |-> S("claude-haiku-4-5-20251001"),
    CATALYST_CONFIDENCE_THRESHOLD |-> D(70), CATALYST_FILING_LOOKBACK_DAYS |-> I(30),
    CATALYST_MAX_HEADLINES |-> I(5) ]

LevelTwoDefaults ==
  [ L2_WINDOW_SECS |-> I(30), L2_DEPTH_SNAPSHOTS |-> I(20),
    SPOOF_BID_MIN_SHARES |-> I(20000), SPOOF_DECAY_SECS |-> I(5),
    SPOOF_MIN_PRINTS |-> I(100), ICEBERG_ABSORBED_MIN |-> I(5000),
    ICEBERG_ADVANCE_MAX_CENTS |-> I(2), ICEBERG_DISPLAY_MAX |-> I(600),
    FLOOR_BID_MIN_SHARES |-> I(10000), FLOOR_MIN_PRINTS |-> I(200),
    FLOOR_MIN_STABLE_SNAPS |-> I(2), ABSORB_ASK_MIN_SHARES |-> I(5000),
    ABSORB_TAPE_MIN_SHARES |-> I(3000), ABSORB_BREAK_MIN_CENTS |-> I(5) ]

MarketStateDefaults ==
  [ MS_HOT_WINDOW_DAYS |-> I(5), MS_MIN_WINDOW_DAYS |-> I(3),
    MS_HOT_BIG_MOVERS_MIN |-> I(2), MS_HOT_FOLLOW_THROUGH_MIN |-> D(60),
    MS_HOT_AVG_GREEN_MIN |-> D(25), MS_COLD_FOLLOW_THROUGH_MAX |-> D(35),
    MS_COLD_AVG_GREEN_MAX |-> D(10), ATTENTION_RVOL_SCALE |-> D(10000),
    BACKSTOP_ENABLED |-> B(FALSE), BACKSTOP_OFFSET |-> D(50),
    LATENCY_WARN_MS |-> I(200) ]

HaltDefaults ==
  [ PRE_HALT_BAND_ENTRY_PCT |-> D(100), CONTINUATION_MIN_DAY1_PCT |-> D(10000),
    CONTINUATION_HOLD_PCT |-> D(70), CONTINUATION_RVOL_DONE_PCT |-> D(25),
    CONTINUATION_RETRACE_DONE_PCT |-> D(50), CONTINUATION_SIZE_FRACTION |-> D(50),
    ADV_CAP_FRACTION |-> D(1), DEPTH_CAP_LEVELS |-> I(3), SSR_LOG_ONLY |-> B(TRUE),
    WASH_SALE_WARN_ENABLED |-> B(TRUE), COMPLIANCE_SHORTING_ENABLED |-> B(FALSE) ]

Defaults ==
    PillarDefaults @@ RiskDefaults @@ EntryDefaults @@ ExecutionDefaults @@ SizingDefaults
    @@ ScannerDefaults @@ LiveDefaults @@ LevelTwoDefaults @@ MarketStateDefaults @@ HaltDefaults

\* The keys whose spec_ref is one of the conflicts C1 to C16.
ConflictKeys ==
    { "SWEET_SPOT_LOW", "SWEET_SPOT_HIGH", "MAX_DAILY_LOSS_MODE", "MAX_DAILY_LOSS_PCT",
      "BROKER_HARD_LOCKOUT", "GIVE_BACK_WARN", "GIVE_BACK_HARD", "FIRST_SCALE_FRACTION",
      "STOP_BASIS", "MOVE_BE_TRIGGER", "SCAN_START", "HARD_STOP_TIME", "HTB_ONLY_FILTER",
      "RETRACE_MAX", "RETRACE_PREFERRED", "ENTRY_TRIGGER", "CATALYST_VERIFY_MODE",
      "SIZING_MODE", "MAX_SIZE", "HALT_MODE", "PLATFORM", "AVG_WIN_DAY_PNL" }

-----------------------------------------------------------------------------
(* Parsing.  A text that does not parse raises, at the read.               *)

Parses(text, type) ==
    \/ type = "str"
    \/ type = "int" /\ text.kind = "whole"
    \/ type = "decimal" /\ text.kind \in {"whole", "hundredths"}
    \/ type = "bool" /\ text.kind = "boolean"
    \/ type = "bool" /\ text.kind = "whole" /\ text.n \in {0, 1}
    \/ type = "time" /\ text.kind = "clock"

\* Numbers come out whole for an int and in hundredths for a decimal.
ParseValue(text, type) ==
    CASE type = "int" -> text.n
      [] type = "decimal" -> IF text.kind = "whole" THEN 100 * text.n ELSE text.n
      [] type = "bool" -> IF text.kind = "whole" THEN text.n = 1 ELSE text.b
      [] type = "time" -> text.minute
      [] type = "str" -> IF text.kind = "word" THEN text.word ELSE text

\* Reading a key with the getter of a type: the key is there, the text parses,
\* the value has the getter's type.
Reads(rows, key, type) ==
    key \in DOMAIN rows /\ rows[key].type = type /\ Parses(rows[key].text, type)
Get(rows, key) == ParseValue(rows[key].text, rows[key].type)

\* The seed can be read: every default parses as the type of its row.
ASSUME DefaultsParse == \A key \in DOMAIN Defaults : Reads(Defaults, key, Defaults[key].type)

\* A service straight from the defaults.
Default(key) == Get(Defaults, key)
=============================================================================
