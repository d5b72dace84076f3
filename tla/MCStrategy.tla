----------------------------- MODULE MCStrategy -----------------------------
(* A day of ten minutes for the strategy engine: a surge with or without a  *)
(* red bar in it, a light or heavy pullback, a breakout minute and two      *)
(* minutes with every kind of candle.                                       *)
EXTENDS StrategyEngine

Candle(h, l, c, v) == [o |-> 0, h |-> h, l |-> l, c |-> c, v |-> v]

Green == Candle(4, 0, 4, 4)
Red == Candle(0, -2, -2, 1)
FullRed == Candle(0, -2, -2, 3)
HeavyRed == Candle(0, -3, -3, 9)
Crash == Candle(0, -12, -12, 2)
Gapped == [o |-> -6, h |-> -4, l |-> -6, c |-> -4, v |-> 2]
Spike == Candle(5, -4, -4, 5)     \* crosses inside the candle, closes under all
Tailed == Candle(12, 0, 4, 4)     \* topping tail
Climax == Candle(12, 0, 4, 400)   \* the same, and the day's VWAP follows it
Shake == Candle(0, -5, -1, 1)     \* undercuts the bar before, hardly lower

MCTape == << {Green}, {Green}, {Green, NoBar}, {Green, Crash}, {Green}, {Green},
             {Red, FullRed, HeavyRed}, {Green, Spike}, {Green, Tailed, Climax, Gapped, NoBar},
             {Green, Red, Shake} >>
MCTenSecond == {Candle(3, -3, 0, 2)}

View(tierB, l2, spread, market) ==
    [tierB |-> tierB, l2 |-> l2, spread |-> spread, market |-> market, rvol |-> 30,
     float |-> 4000, attention |-> "prime", reverseSplit |-> FALSE]

MCViews == { View(TRUE, "support", 4, "hot"),
             [View(TRUE, "absorb_break", 9, "cold")
                EXCEPT !.rvol = 0, !.float = None, !.attention = "ignore", !.reverseSplit = TRUE],
             View(TRUE, "iceberg", 4, "hot"),
             View(FALSE, "support", 4, "cold"),
             View(TRUE, "support", 12, "rehab") }
MCEmaOffsets == {-2, 2}
\* A day that opens flat under yesterday's close, and one that gaps up.
MCOpens == { [prevClose |-> 122, gap |-> 0], [prevClose |-> 100, gap |-> 40] }
=============================================================================
