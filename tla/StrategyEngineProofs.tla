------------------------ MODULE StrategyEngineProofs ------------------------
(***************************************************************************)
(* Theorems of StrategyEngine: its safety properties hold for every tape   *)
(* of candles, every setting, every view, and however often the callers    *)
(* fill, scale, close and begin a new session.                             *)
(*                                                                         *)
(* The invariant is stated about a session s and the clock, so that the    *)
(* lemmas about feeding a bar can speak of the session that the bar leads  *)
(* to before the engine has decided anything about it.                     *)
(***************************************************************************)
EXTENDS StrategyEngine, FiniteFacts

Candles == [o : Int, h : Int, l : Int, c : Int, v : Nat, ts : Nat]

Positions == [held : {TRUE}, entry : Int, stop : Int, target : Int, entryTs : Nat, watermark : Int]
                \cup {NoPosition}

Sessions == [bars : Seq(Candles), updates : Nat, pv : Int, vol : Nat, position : Positions,
             intradayHigh : Nat, prevClose : Int, gap : Int, haltedResume : BOOLEAN,
             rank : Ranks \cup {None}]

Reasons == {"hold", "hard_stop", "time_stop", "l2_reversal", "topping_tail", "scale_strength",
            "first_red_close", "vwap_guard", "lost_popularity"}
Shapes == {"none", "micro_pullback", "abcd", "bull_flag", "flat_top", "gap_and_go",
           "vwap_break", "halt_resumption", "red_to_green", "reverse_split_squeeze"}

\* What a bar may answer with.
Signals == {Silent, [kind |-> "failed"]}
             \cup [kind : {"entry"}, pattern : Shapes, trigger : {"candle_close", "mid_candle"},
                   conviction : Int, entry : Int, stop : Int, target : Int]
             \cup [kind : {"scale"}, reason : Reasons, stop : Int]
             \cup [kind : {"exit"}, reason : Reasons]

\* A bar of the window: a candle of a minute that has passed.
Sound(bar, clock) ==
    /\ bar.l <= bar.o /\ bar.o <= bar.h
    /\ bar.l <= bar.c /\ bar.c <= bar.h
    /\ bar.ts <= clock

\* The window: candles, in the order of their minutes.
Window(bars, clock) ==
    /\ Len(bars) <= BarWindow
    /\ \A j \in 1 .. Len(bars) : Sound(bars[j], clock)
    /\ \A i, j \in 1 .. Len(bars) : i < j => bars[i].ts < bars[j].ts

\* The watermark is at least the fill and every close since; as long as the
\* window reaches back to the entry, one of them is what it equals.
Marked(pos, bars) ==
    /\ pos.watermark >= pos.entry
    /\ \A j \in 1 .. Len(bars) : bars[j].ts > pos.entryTs => pos.watermark >= bars[j].c
    /\ (\E j \in 1 .. Len(bars) : bars[j].ts <= pos.entryTs)
         => \/ pos.watermark = pos.entry
            \/ \E j \in 1 .. Len(bars) : bars[j].ts > pos.entryTs /\ bars[j].c = pos.watermark

\* The types and the window; a position is of a bar that has been seen.
Typed ==
    /\ sym \in Sessions /\ out \in Signals
    /\ minute \in 0 .. Len(Tape) /\ sessions \in 1 .. MaxSessions
    /\ Window(sym.bars, minute)
    /\ Holding => sym.bars # <<>> /\ sym.position.entryTs <= minute

VwapInv == VwapWithinSession

\* A position is above its stop, unless the bar is the one it was entered on;
\* the scale-out that waits for the caller moves the stop to a fill that the
\* last close is above.
StopInv ==
    /\ Holding => \/ Signal(sym.bars).ts = sym.position.entryTs
                  \/ Signal(sym.bars).c > sym.position.stop
    /\ Holding /\ out.kind = "scale" =>
            out.stop = sym.position.entry /\ Signal(sym.bars).c > sym.position.entry

\* The entry that waits for its fill is on the last bar.
EntryInv ==
    /\ out.kind = "entry" => ~Holding /\ sym.bars # <<>>
    /\ EntryIsTradable

MarkInv == Holding => Marked(sym.position, sym.bars)

IInv == Typed /\ VwapInv /\ StopInv /\ EntryInv /\ MarkInv

-----------------------------------------------------------------------------
(* Feeding a bar.                                                          *)

\* The price a bar is built on is a number.
LEMMA LastPriceType ==
  ASSUME Typed
  PROVE  LastPrice \in Int
  <1>1. sym.bars \in Seq(Candles) /\ Open \in Int
    BY EngineAssumption DEF Typed, Sessions
  <1>2. CASE sym.bars = <<>>
    BY <1>1, <1>2 DEF LastPrice
  <1>3. CASE sym.bars # <<>>
    <2>1. Len(sym.bars) \in 1 .. Len(sym.bars)
      BY <1>1, <1>3, EmptySeq
    <2>2. Signal(sym.bars) \in Candles
      BY <1>1, <2>1, ElementOfSeq DEF Signal
    <2>3. QED
      BY <1>3, <2>2 DEF LastPrice, Candles
  <1>4. QED
    BY <1>2, <1>3

\* The next bar is a candle of the minute after the clock.
LEMMA BarFacts ==
  ASSUME Typed, NEW shape, IsCandle(shape)
  PROVE  /\ BarOf(shape) \in Candles
         /\ BarOf(shape).ts = minute + 1
         /\ Sound(BarOf(shape), minute + 1)
         /\ BarOf(shape).v = shape.v
  <1> DEFINE p == LastPrice
  <1>1. p \in Int
    BY LastPriceType
  <1>2. minute \in Nat
    BY EngineAssumption DEF Typed
  <1>3. /\ shape.o \in Int /\ shape.h \in Int /\ shape.l \in Int /\ shape.c \in Int
        /\ shape.v \in Nat
    BY DEF IsCandle
  <1>4. /\ shape.l <= shape.o /\ shape.o <= shape.h
        /\ shape.l <= shape.c /\ shape.c <= shape.h
    BY <1>3 DEF IsCandle
  <1>5. BarOf(shape) = [o |-> p + shape.o, h |-> p + shape.h, l |-> p + shape.l,
                        c |-> p + shape.c, v |-> shape.v, ts |-> minute + 1]
    BY DEF BarOf
  <1> HIDE DEF p
  <1>6. BarOf(shape) \in Candles
    BY <1>1, <1>2, <1>3, <1>5 DEF Candles
  <1>7. /\ BarOf(shape).o = p + shape.o /\ BarOf(shape).h = p + shape.h
        /\ BarOf(shape).l = p + shape.l /\ BarOf(shape).c = p + shape.c
        /\ BarOf(shape).v = shape.v /\ BarOf(shape).ts = minute + 1
    BY <1>5
  <1>8. Sound(BarOf(shape), minute + 1)
    BY <1>1, <1>2, <1>3, <1>4, <1>7 DEF Sound
  <1>9. QED
    BY <1>6, <1>7, <1>8

\* A larger factor of a natural makes a larger product.
LEMMA ProductGrows ==
  ASSUME NEW a \in Nat, NEW x \in Int, NEW y \in Int, x <= y
  PROVE  a * x <= a * y
  <1>1. PICK d \in Nat : y = x + d
    <2>1. y - x \in Nat /\ y = x + (y - x)
      OBVIOUS
    <2>2. QED
      BY <2>1
  <1>2. a * d \in Nat
    OBVIOUS
  <1>3. a * y = a * x + a * d
    BY <1>1
  <1>4. QED
    BY <1>2, <1>3

\* The step of the VWAP's bound, in numbers: p and v are the sums so far, i
\* the high so far, h the new one, t and w the bar's price and volume.
LEMMA SumUnderHigh ==
  ASSUME NEW p \in Int, NEW t \in Int, NEW h \in Int, NEW i \in Int,
         NEW v \in Nat, NEW w \in Nat,
         p <= 3 * v * i, (3 * v) * i <= (3 * v) * h, w * t <= w * (3 * h)
  PROVE  p + t * w <= 3 * (v + w) * h
  <1>1. 3 * (v + w) * h = (3 * v) * h + w * (3 * h)
    OBVIOUS
  <1>2. t * w = w * t
    OBVIOUS
  <1>3. (3 * v) * i \in Int /\ (3 * v) * h \in Int /\ w * t \in Int /\ w * (3 * h) \in Int
    OBVIOUS
  <1>4. QED
    BY <1>1, <1>2, <1>3

\* What absorbing a bar does to the session's fields, and that the VWAP stays
\* under the session's high.
LEMMA AbsorbFacts ==
  ASSUME Typed, VwapInv, NEW bar \in Candles, Sound(bar, minute + 1)
  PROVE  /\ Absorb(bar) \in Sessions
         /\ Absorb(bar).bars = sym.bars
         /\ Absorb(bar).position = sym.position
         /\ Absorb(bar).pv <= 3 * Absorb(bar).vol * Absorb(bar).intradayHigh
  <1> DEFINE high == Max({sym.intradayHigh, bar.h})
             typical == bar.h + bar.l + bar.c
  <1>1. /\ sym \in Sessions /\ minute \in Nat
        /\ sym.updates \in Nat /\ sym.pv \in Int /\ sym.vol \in Nat /\ sym.intradayHigh \in Nat
    BY EngineAssumption DEF Typed, Sessions
  <1>2. /\ bar.h \in Int /\ bar.l \in Int /\ bar.c \in Int /\ bar.v \in Nat
        /\ bar.l <= bar.h /\ bar.c <= bar.h
    BY <1>1 DEF Candles, Sound
  <1>3. high = IF sym.intradayHigh >= bar.h THEN sym.intradayHigh ELSE bar.h
    BY <1>1, <1>2, MaxOfTwo
  <1>4. high \in Nat /\ high >= sym.intradayHigh /\ high >= bar.h
    BY <1>1, <1>2, <1>3
  <1>5. /\ Absorb(bar).bars = sym.bars /\ Absorb(bar).position = sym.position
        /\ Absorb(bar).pv = sym.pv + typical * bar.v /\ Absorb(bar).vol = sym.vol + bar.v
        /\ Absorb(bar).intradayHigh = high
    BY <1>1 DEF Absorb, Sessions
  <1>6. Absorb(bar) = [sym EXCEPT !.updates = sym.updates + 1, !.pv = sym.pv + typical * bar.v,
                                  !.vol = sym.vol + bar.v, !.intradayHigh = high]
    BY <1>1 DEF Absorb, Sessions
  <1>7. typical \in Int /\ typical <= 3 * high
    BY <1>2, <1>4
  <1> HIDE DEF high, typical
  <1>8. sym.updates + 1 \in Nat /\ sym.pv + typical * bar.v \in Int /\ sym.vol + bar.v \in Nat
    BY <1>1, <1>2, <1>7
  <1>9. Absorb(bar) \in Sessions
    BY <1>1, <1>4, <1>6, <1>8 DEF Sessions
  <1>10. bar.v * typical <= bar.v * (3 * high)
    BY <1>2, <1>4, <1>7, ProductGrows
  <1>11. (3 * sym.vol) * sym.intradayHigh <= (3 * sym.vol) * high
    BY <1>1, <1>4, ProductGrows
  <1>12. sym.pv <= 3 * sym.vol * sym.intradayHigh
    BY DEF VwapInv, VwapWithinSession
  <1>13. sym.pv + typical * bar.v <= 3 * (sym.vol + bar.v) * high
    <2>1. PICK p \in Int : p = sym.pv
      BY <1>1
    <2>2. PICK v \in Nat : v = sym.vol
      BY <1>1
    <2>3. PICK i \in Int : i = sym.intradayHigh
      BY <1>1
    <2>4. PICK w \in Nat : w = bar.v
      BY <1>2
    <2>5. typical \in Int /\ high \in Int
      BY <1>4, <1>7
    <2>6. p <= 3 * v * i /\ (3 * v) * i <= (3 * v) * high /\ w * typical <= w * (3 * high)
      BY <1>10, <1>11, <1>12, <2>1, <2>2, <2>3, <2>4
    <2>7. p + typical * w <= 3 * (v + w) * high
      BY <2>5, <2>6, SumUnderHigh
    <2>8. QED
      BY <2>1, <2>2, <2>4, <2>7
  <1>14. QED
    BY <1>5, <1>9, <1>13

\* The window with one more bar: the bars move one place down when it was full.
Moved(kept, bars, bar, d) ==
    /\ kept \in Seq(Candles) /\ d \in {0, 1}
    /\ Len(kept) \in 1 .. BarWindow /\ Len(kept) = Len(bars) + 1 - d
    /\ kept[Len(kept)] = bar
    /\ \A j \in 1 .. (Len(kept) - 1) : kept[j] = bars[j + d]

\* What KeepLast leaves of a window and a new bar.
LEMMA WindowMoves ==
  ASSUME NEW bars \in Seq(Candles), Len(bars) <= BarWindow, NEW bar \in Candles
  PROVE  \E d \in {0, 1} : Moved(KeepLast(Append(bars, bar), BarWindow), bars, bar, d)
  <1> DEFINE longer == Append(bars, bar)
             n == Len(bars)
             first == Max({1, n + 1 - BarWindow + 1})
             kept == SubSeq(longer, first, n + 1)
             d == IF n = BarWindow THEN 1 ELSE 0
  <1>1. BarWindow \in Nat /\ BarWindow >= 1 /\ n \in Nat /\ n <= BarWindow
    BY EngineAssumption, LenProperties
  <1>2. /\ longer \in Seq(Candles) /\ Len(longer) = n + 1 /\ longer[n + 1] = bar
        /\ \A j \in 1 .. n : longer[j] = bars[j]
    BY AppendProperties
  <1>3. KeepLast(longer, BarWindow) = kept
    <2>1. KeepLast(longer, BarWindow)
            = SubSeq(longer, Max({1, Len(longer) - BarWindow + 1}), Len(longer))
      BY DEF KeepLast
    <2>2. Len(longer) = n + 1
      BY <1>2
    <2> HIDE DEF longer, n
    <2>3. Len(longer) - BarWindow + 1 = n + 1 - BarWindow + 1
      BY <1>1, <2>2
    <2>4. QED
      BY <2>1, <2>2, <2>3, Zenon
  <1>4. first = 1 + d /\ d \in {0, 1}
    <2>1. n + 1 - BarWindow + 1 \in Int
      BY <1>1
    <2>2. first = IF 1 >= n + 1 - BarWindow + 1 THEN 1 ELSE n + 1 - BarWindow + 1
      BY <2>1, MaxOfTwo
    <2>3. QED
      BY <1>1, <2>2
  <1>5. first \in Int /\ n + 1 \in Int /\ n + 1 - first + 1 = n + 1 - d /\ n + 1 - d \in 1 .. BarWindow
    <2> HIDE DEF first, n
    <2>1. d = 1 => n = BarWindow
      OBVIOUS
    <2>2. d = 0 => n # BarWindow
      OBVIOUS
    <2> HIDE DEF d
    <2>3. QED
      BY <1>1, <1>4, <2>1, <2>2
  <1>6. \A j \in 1 .. n + 1 : longer[j] \in Candles
    BY <1>2, ElementOfSeq
  <1> HIDE DEF first, d, n, longer
  <1>7. \A j \in first .. n + 1 : longer[j] \in Candles
    BY <1>1, <1>4, <1>6
  <1>8. /\ kept \in Seq(Candles) /\ Len(kept) = n + 1 - d
        /\ \A j \in 1 .. n + 1 - first + 1 : kept[j] = longer[first + j - 1]
    BY <1>1, <1>4, <1>5, <1>7, SubSeqProperties
  <1> HIDE DEF kept
  <1>9. \A j \in 1 .. (n + 1 - d) : kept[j] = longer[j + d]
    BY <1>1, <1>4, <1>5, <1>8
  <1>10. kept[n + 1 - d] = bar
    BY <1>1, <1>2, <1>4, <1>5, <1>9
  <1>11. \A j \in 1 .. (n + 1 - d - 1) : kept[j] = bars[j + d]
    <2>1. SUFFICES ASSUME NEW j \in 1 .. (n + 1 - d - 1) PROVE kept[j] = bars[j + d]
      OBVIOUS
    <2>2. j \in 1 .. (n + 1 - d) /\ j + d \in 1 .. n
      BY <1>1, <1>4
    <2>3. QED
      BY <1>2, <1>9, <2>2
  <1>12. Moved(kept, bars, bar, d)
    BY <1>4, <1>5, <1>8, <1>10, <1>11 DEF Moved, n
  <1>13. QED
    BY <1>3, <1>4, <1>12 DEF longer

\* A window stays one when the bar of the next minute comes in.
LEMMA WindowKept ==
  ASSUME NEW bars \in Seq(Candles), NEW clock \in Nat, Window(bars, clock),
         NEW bar \in Candles, bar.ts = clock + 1, Sound(bar, clock + 1),
         NEW kept, NEW d, Moved(kept, bars, bar, d)
  PROVE  Window(kept, clock + 1)
  <1> DEFINE n == Len(kept)
  <1>1. n \in Nat /\ n >= 1 /\ n <= BarWindow /\ n = Len(bars) + 1 - d /\ d \in {0, 1}
    BY EngineAssumption DEF Moved
  <1>2. kept[n] = bar /\ \A j \in 1 .. (n - 1) : kept[j] = bars[j + d] /\ j + d \in 1 .. Len(bars)
    BY <1>1 DEF Moved
  <1>3. \A j \in 1 .. Len(bars) : Sound(bars[j], clock) /\ bars[j] \in Candles
    <2>1. \A j \in 1 .. Len(bars) : bars[j] \in Candles
      BY ElementOfSeq
    <2>2. QED
      BY <2>1 DEF Window
  <1>4. \A j \in 1 .. Len(bars) : Sound(bars[j], clock + 1)
    <2>1. SUFFICES ASSUME NEW j \in 1 .. Len(bars) PROVE Sound(bars[j], clock + 1)
      OBVIOUS
    <2>2. PICK b \in Candles : b = bars[j]
      BY <1>3
    <2>3. Sound(b, clock)
      BY <1>3, <2>2
    <2>4. Sound(b, clock + 1)
      BY <2>3 DEF Sound, Candles
    <2>5. QED
      BY <2>2, <2>4
  <1>5. \A j \in 1 .. n : Sound(kept[j], clock + 1)
    <2>1. SUFFICES ASSUME NEW j \in 1 .. n PROVE Sound(kept[j], clock + 1)
      OBVIOUS
    <2>2. j = n \/ j \in 1 .. (n - 1)
      BY <1>1
    <2>3. QED
      BY <1>2, <1>4, <2>2
  <1>6. \A i, j \in 1 .. n : i < j => kept[i].ts < kept[j].ts
    <2>1. SUFFICES ASSUME NEW i \in 1 .. n, NEW j \in 1 .. n, i < j
                   PROVE  kept[i].ts < kept[j].ts
      OBVIOUS
    <2>2. i \in 1 .. (n - 1) /\ (j = n \/ j \in 1 .. (n - 1))
      BY <1>1, <2>1
    <2>3. kept[i] = bars[i + d] /\ i + d \in 1 .. Len(bars)
      BY <1>2, <2>2
    <2>4. CASE j = n
      <3>1. bars[i + d].ts <= clock /\ bars[i + d].ts \in Nat
        BY <1>3, <2>3 DEF Sound, Candles
      <3>2. QED
        BY <1>2, <2>3, <2>4, <3>1
    <2>5. CASE j \in 1 .. (n - 1)
      <3>1. kept[j] = bars[j + d] /\ j + d \in 1 .. Len(bars) /\ i + d < j + d
        BY <1>1, <1>2, <2>1, <2>5
      <3>2. QED
        BY <2>3, <3>1 DEF Window
    <2>6. QED
      BY <2>2, <2>4, <2>5
  <1>7. QED
    BY <1>1, <1>5, <1>6 DEF Window

\* The watermark that sees the new bar is right for the new window.
LEMMA MarkKept ==
  ASSUME NEW bars \in Seq(Candles), NEW clock \in Nat, Window(bars, clock),
         NEW bar \in Candles, bar.ts = clock + 1,
         NEW kept, NEW d, Moved(kept, bars, bar, d),
         NEW pos, pos.entryTs \in Nat, pos.entryTs <= clock, pos.watermark \in Int,
         pos.entry \in Int, Marked(pos, bars),
         NEW after, after.entry = pos.entry, after.entryTs = pos.entryTs,
         after.watermark = Max({pos.watermark, bar.c})
  PROVE  Marked(after, kept)
  <1> DEFINE n == Len(kept)
             e == pos.entryTs
  <1>1. n \in Nat /\ n >= 1 /\ n = Len(bars) + 1 - d /\ d \in {0, 1} /\ Len(bars) \in Nat
    BY EngineAssumption, LenProperties DEF Moved
  <1>2. kept[n] = bar /\ \A j \in 1 .. (n - 1) : kept[j] = bars[j + d] /\ j + d \in 1 .. Len(bars)
    BY <1>1 DEF Moved
  <1>3. \A j \in 1 .. Len(bars) : bars[j].c \in Int /\ bars[j].ts \in Nat
    <2>1. \A j \in 1 .. Len(bars) : bars[j] \in Candles
      BY ElementOfSeq
    <2>2. QED
      BY <2>1 DEF Candles
  <1>4. bar.c \in Int
    BY DEF Candles
  <1>5. after.watermark = IF pos.watermark >= bar.c THEN pos.watermark ELSE bar.c
    BY <1>4, MaxOfTwo
  <1>6. after.watermark \in Int /\ after.watermark >= pos.watermark /\ after.watermark >= bar.c
    BY <1>4, <1>5
  <1>7. after.watermark >= after.entry
    BY <1>6 DEF Marked
  <1>8. \A j \in 1 .. n : kept[j].ts > e => after.watermark >= kept[j].c
    <2>1. SUFFICES ASSUME NEW j \in 1 .. n, kept[j].ts > e PROVE after.watermark >= kept[j].c
      OBVIOUS
    <2>2. CASE j = n
      BY <1>2, <1>6, <2>2
    <2>3. CASE j \in 1 .. (n - 1)
      <3>1. kept[j] = bars[j + d] /\ j + d \in 1 .. Len(bars)
        BY <1>2, <2>3
      <3>2. pos.watermark >= bars[j + d].c
        BY <2>1, <3>1 DEF Marked
      <3>3. QED
        BY <1>3, <1>6, <3>1, <3>2
    <2>4. QED
      BY <1>1, <2>2, <2>3
  <1>9. ASSUME NEW k \in 1 .. n, kept[k].ts <= e
        PROVE  after.watermark = pos.entry \/ \E j \in 1 .. n : kept[j].ts > e /\ kept[j].c = after.watermark
    <2>1. k # n
      BY <1>2, <1>9
    <2>2. kept[k] = bars[k + d] /\ k + d \in 1 .. Len(bars) /\ k \in 1 .. (n - 1)
      BY <1>1, <1>2, <2>1
    <2>3. n \in 1 .. n /\ kept[n].ts > e /\ kept[n].c = bar.c
      BY <1>1, <1>2
    <2>4. CASE after.watermark = bar.c
      BY <2>3, <2>4
    <2>5. CASE after.watermark = pos.watermark
      <3>1. bars[k + d].ts <= e
        BY <1>9, <2>2
      <3>2. CASE pos.watermark = pos.entry
        BY <2>5, <3>2
      <3>3. CASE pos.watermark # pos.entry
        <4>1. PICK i \in 1 .. Len(bars) : bars[i].ts > e /\ bars[i].c = pos.watermark
          BY <2>2, <3>1, <3>3 DEF Marked
        <4>2. k + d < i
          <5>1. CASE i < k + d
            <6>1. bars[i].ts < bars[k + d].ts
              BY <2>2, <5>1 DEF Window
            <6>2. bars[i].ts \in Nat /\ bars[k + d].ts \in Nat
              BY <1>3, <2>2
            <6>3. QED
              BY <3>1, <4>1, <6>1, <6>2
          <5>2. CASE i = k + d
            BY <1>3, <2>2, <3>1, <4>1, <5>2
          <5>3. QED
            BY <1>1, <5>1, <5>2
        <4>3. i - d \in 1 .. (n - 1)
          BY <1>1, <4>2
        <4>4. kept[i - d] = bars[i]
          <5>1. kept[i - d] = bars[i - d + d] /\ i - d + d = i
            BY <1>1, <1>2, <4>3
          <5>2. QED
            BY <5>1
        <4>5. i - d \in 1 .. n
          BY <1>1, <4>3
        <4>6. kept[i - d].ts > e /\ kept[i - d].c = after.watermark
          BY <2>5, <4>1, <4>4
        <4>7. QED
          BY <4>5, <4>6
      <3>4. QED
        BY <3>2, <3>3
    <2>6. QED
      BY <1>5, <2>4, <2>5
  <1>10. QED
    BY <1>7, <1>8, <1>9 DEF Marked

-----------------------------------------------------------------------------
(* In a position: what the exit rules answer.                              *)

\* The least number of a set of naturals is its minimum.
LEMMA MinOfNaturals ==
  ASSUME NEW S \in SUBSET Nat, S # {}
  PROVE  Min(S) \in S /\ \A k \in S : Min(S) <= k
  <1>1. PICK m \in S : \A k \in S : m <= k
    BY LeastNatural
  <1>2. Min(S) = m
    BY <1>1, MinIs
  <1>3. QED
    BY <1>1, <1>2

\* The order of priority decides: an answer other than the hard stop says that
\* the hard stop does not hold, and a scale-out that its own rule does.
LEMMA ExitFacts ==
  ASSUME NEW pos, NEW bars, NEW l2, NEW vwap, NEW rank, NEW high,
         NEW reason, reason = EvaluateExit(pos, bars, l2, vwap, rank, high)
  PROVE  /\ reason \in Reasons
         /\ reason \in {"hold", "scale_strength"} => ~(Signal(bars).c <= pos.stop)
         /\ reason = "scale_strength" => Signal(bars).c - pos.entry >= MoveBeTrigger
  <1> DEFINE Holds(i) == ExitHolds(ExitOrder[i], pos, bars, l2, vwap, rank, high)
             holding == {i \in DOMAIN ExitOrder : Holds(i)}
  <1>1. /\ DOMAIN ExitOrder = 1 .. 8
        /\ ExitOrder[1] = "hard_stop" /\ ExitOrder[2] = "time_stop"
        /\ ExitOrder[3] = "l2_reversal" /\ ExitOrder[4] = "topping_tail"
        /\ ExitOrder[5] = "scale_strength" /\ ExitOrder[6] = "first_red_close"
        /\ ExitOrder[7] = "vwap_guard" /\ ExitOrder[8] = "lost_popularity"
    BY DEF ExitOrder
  <1>2. Holds(1) <=> Signal(bars).c <= pos.stop
    BY <1>1 DEF ExitHolds
  <1>3. Holds(5) => Signal(bars).c - pos.entry >= MoveBeTrigger
    BY <1>1 DEF ExitHolds
  <1>4. reason = IF holding = {} THEN "hold" ELSE ExitOrder[Min(holding)]
    BY DEF EvaluateExit
  <1>5. holding \in SUBSET (1 .. 8) /\ (1 \in holding <=> Holds(1)) /\ (5 \in holding <=> Holds(5))
    BY <1>1
  <1> HIDE DEF holding, Holds
  <1>6. CASE holding = {}
    BY <1>2, <1>4, <1>5, <1>6 DEF Reasons
  <1>7. CASE holding # {}
    <2>1. Min(holding) \in holding /\ \A k \in holding : Min(holding) <= k
      BY <1>5, <1>7, MinOfNaturals
    <2>2. PICK m \in 1 .. 8 : m = Min(holding)
      BY <1>5, <2>1
    <2>3. reason = ExitOrder[m] /\ m \in holding
      BY <1>4, <1>7, <2>1, <2>2
    <2>4. m = 1 \/ m = 2 \/ m = 3 \/ m = 4 \/ m = 5 \/ m = 6 \/ m = 7 \/ m = 8
      BY <2>2
    <2>5. reason \in Reasons
      BY <1>1, <2>3, <2>4 DEF Reasons
    <2>6. reason \in {"hold", "scale_strength"} => m = 5
      BY <1>1, <2>3, <2>4
    <2>7. m = 5 => 1 \notin holding
      BY <2>1, <2>2
    <2>8. QED
      BY <1>1, <1>2, <1>3, <1>5, <2>3, <2>4, <2>5, <2>6, <2>7
  <1>8. QED
    BY <1>6, <1>7

\* The fields of a position.
LEMMA HeldTypes ==
  ASSUME NEW pos \in Positions, pos.held
  PROVE  /\ pos \in [held : {TRUE}, entry : Int, stop : Int, target : Int, entryTs : Nat,
                    watermark : Int]
         /\ pos.entry \in Int /\ pos.stop \in Int /\ pos.target \in Int
         /\ pos.entryTs \in Nat /\ pos.watermark \in Int
  <1>1. pos # NoPosition
    BY DEF NoPosition
  <1>2. QED
    BY <1>1 DEF Positions

\* The answer of a bar in a position: unless it is an exit, the bar closed above
\* the stop; if it asks to scale out, the close is above the entry, and that is
\* where the stop goes.
LEMMA HoldingAnswer ==
  ASSUME NEW s \in Sessions, s.position.held, s.bars # <<>>, NEW view
  PROVE  /\ SignalHolding(s, view) \in Signals
         /\ SignalHolding(s, view).kind \in {"none", "scale", "exit"}
         /\ SignalHolding(s, view).kind # "exit" => Signal(s.bars).c > s.position.stop
         /\ SignalHolding(s, view).kind = "scale" =>
                /\ SignalHolding(s, view).stop = s.position.entry
                /\ Signal(s.bars).c > s.position.entry
  <1> DEFINE reason == EvaluateExit(s.position, s.bars, view.l2, Vwap(s), s.rank, s.intradayHigh)
             price == Signal(s.bars).c
  <1>1. s.position.entry \in Int /\ s.position.stop \in Int
    BY HeldTypes DEF Sessions
  <1>2. price \in Int
    <2>1. s.bars \in Seq(Candles)
      BY DEF Sessions
    <2>2. Len(s.bars) \in 1 .. Len(s.bars)
      BY <2>1, EmptySeq
    <2>3. Signal(s.bars) \in Candles
      BY <2>1, <2>2, ElementOfSeq DEF Signal
    <2>4. QED
      BY <2>3 DEF Candles
  <1>3. /\ reason \in Reasons
        /\ reason \in {"hold", "scale_strength"} => ~(price <= s.position.stop)
        /\ reason = "scale_strength" => price - s.position.entry >= MoveBeTrigger
    BY ExitFacts
  <1>4. SignalHolding(s, view) =
          CASE reason = "hold" -> Silent
            [] reason = "scale_strength" ->
                  [kind |-> "scale", reason |-> reason, stop |-> s.position.entry]
            [] OTHER -> [kind |-> "exit", reason |-> reason]
    BY DEF SignalHolding
  <1>5. MoveBeTrigger \in Int /\ MoveBeTrigger >= 1
    BY RuleAssumption
  <1> HIDE DEF reason, price
  <1>6. CASE reason = "hold"
    <2>1. SignalHolding(s, view) = Silent
      BY <1>4, <1>6
    <2>2. price > s.position.stop
      BY <1>1, <1>2, <1>3, <1>6
    <2>3. QED
      BY <2>1, <2>2 DEF Silent, Signals, price
  <1>7. CASE reason = "scale_strength"
    <2>1. SignalHolding(s, view) = [kind |-> "scale", reason |-> reason, stop |-> s.position.entry]
      BY <1>4, <1>7
    <2>2. price > s.position.stop /\ price > s.position.entry
      BY <1>1, <1>2, <1>3, <1>5, <1>7
    <2>3. SignalHolding(s, view) \in Signals
      BY <1>1, <1>3, <2>1 DEF Signals
    <2>4. QED
      BY <2>1, <2>2, <2>3 DEF price
  <1>8. CASE reason # "hold" /\ reason # "scale_strength"
    <2>1. SignalHolding(s, view) = [kind |-> "exit", reason |-> reason]
      BY <1>4, <1>8
    <2>2. SignalHolding(s, view) \in Signals
      BY <1>3, <2>1 DEF Signals
    <2>3. QED
      BY <2>1, <2>2
  <1>9. QED
    BY <1>6, <1>7, <1>8

-----------------------------------------------------------------------------
(* Not in a position: the pattern, its conviction, the stop and the target.*)

\* The maximum of some of the first numbers is one of them.
LEMMA MaxInInterval ==
  ASSUME NEW n \in Nat, NEW S \in SUBSET (0 .. n), S # {}
  PROVE  Max(S) \in 0 .. n
  <1>1. IsFiniteSet(0 .. n)
    BY FS_Interval
  <1>2. IsFiniteSet(S)
    BY <1>1, FS_Subset
  <1>3. S \in SUBSET Int
    OBVIOUS
  <1>4. QED
    BY <1>2, <1>3, MaxFacts

\* A pattern is one of the ten names.
LEMMA PatternType ==
  ASSUME NEW bars, NEW ctx, NEW vwap, NEW s, NEW split
  PROVE  RecognizePattern(bars, ctx, vwap, s, split) \in Shapes
  <1>1. /\ DOMAIN PatternOrder = 1 .. 9
        /\ \A i \in 1 .. 9 : PatternOrder[i] \in Shapes
    BY DEF PatternOrder, Shapes
  <1>2. PICK found \in SUBSET (1 .. 9) : 
          RecognizePattern(bars, ctx, vwap, s, split)
            = IF found = {} THEN "none" ELSE PatternOrder[Min(found)]
    BY <1>1 DEF RecognizePattern
  <1>3. CASE found = {}
    BY <1>2, <1>3 DEF Shapes
  <1>4. CASE found # {}
    <2>1. found \in SUBSET Nat
      OBVIOUS
    <2>2. Min(found) \in 1 .. 9
      BY <1>4, <2>1, MinOfNaturals
    <2>3. QED
      BY <1>1, <1>2, <1>4, <2>2
  <1>5. QED
    BY <1>3, <1>4

\* The relative-volume score is a number: one of its steps, or 0.
LEMMA RvolScoreType ==
  ASSUME NEW rvol
  PROVE  RvolScore(rvol) \in Int
  <1> DEFINE steps == {<<5, 40>>, <<10, 55>>, <<30, 75>>, <<50, 85>>, <<80, 95>>, <<100, 100>>}
             reached == {s \in steps : rvol >= s[1]}
             values == {s[2] : s \in reached}
  <1>1. RvolScore(rvol) = IF reached = {} THEN 0 ELSE Max(values)
    BY DEF RvolScore, Step
  <1>2. \A s \in steps : s[2] \in 0 .. 100
    OBVIOUS
  <1>3. values \in SUBSET (0 .. 100) /\ (reached # {} => values # {})
    BY <1>2
  <1> HIDE DEF reached, values, steps
  <1>4. reached # {} => Max(values) \in 0 .. 100
    BY <1>3, MaxInInterval
  <1>5. QED
    BY <1>1, <1>4

\* Every float has a score, the unknown one too.
LEMMA FloatScoreType ==
  ASSUME NEW float \in Nat \cup {None}
  PROVE  FloatScore(float) \in Int
  <1> DEFINE unknown == float = None
             nano == float \in 0 .. 999
             low == float \in 1000 .. 4999
             medium == float \in 5000 .. 9999
             wide == float \in 10000 .. 20000
             large == float > 20000
  <1>1. FloatScore(float) = CASE unknown -> 50 [] nano -> 100 [] low -> 90 [] medium -> 75
                              [] wide -> 60 [] large -> 0
    BY DEF FloatScore
  <1>2. unknown \/ nano \/ low \/ medium \/ wide \/ large
    <2>1. CASE ~unknown
      <3>1. float \in Nat
        <4> HIDE DEF nano, low, medium, wide, large
        <4> QED BY <2>1
      <3>2. CASE float <= 999
        <4>1. nano
          BY <3>1, <3>2
        <4> HIDE DEF unknown, nano, low, medium, wide, large
        <4>2. QED
          BY <4>1
      <3>3. CASE float > 999 /\ float <= 4999
        <4>1. low
          BY <3>1, <3>3
        <4> HIDE DEF unknown, nano, low, medium, wide, large
        <4>2. QED
          BY <4>1
      <3>4. CASE float > 4999 /\ float <= 9999
        <4>1. medium
          BY <3>1, <3>4
        <4> HIDE DEF unknown, nano, low, medium, wide, large
        <4>2. QED
          BY <4>1
      <3>5. CASE float > 9999 /\ float <= 20000
        <4>1. wide
          BY <3>1, <3>5
        <4> HIDE DEF unknown, nano, low, medium, wide, large
        <4>2. QED
          BY <4>1
      <3>6. CASE float > 20000
        <4>1. large
          BY <3>6
        <4> HIDE DEF unknown, nano, low, medium, wide, large
        <4>2. QED
          BY <4>1
      <3> HIDE DEF unknown, nano, low, medium, wide, large
      <3>7. QED
        BY <3>1, <3>2, <3>3, <3>4, <3>5, <3>6
    <2> HIDE DEF unknown, nano, low, medium, wide, large
    <2>2. QED
      BY <2>1
  <1> HIDE DEF unknown, nano, low, medium, wide, large
  <1>3. QED
    BY <1>1, <1>2

\* What a conviction may be, in units of a ten-thousandth.
Convictions == 2500 .. 10000

\* Conviction stays between its two limits.
LEMMA ConvictionRange ==
  ASSUME NEW pattern \in Shapes, NEW view \in Views, NEW ctx, NEW price, NEW ema9, NEW vwap
  PROVE  ScoreConviction(pattern, view, ctx, price, ema9, vwap) \in Convictions
  <1> DEFINE near == IF NearEma(price, ema9) THEN 500 ELSE 0
             above == IF AboveVwap(price, vwap) THEN 300 ELSE 0
             composite == 30 * PatternScore(pattern) + 25 * RvolScore(view.rvol)
                     + 15 * FloatScore(view.float) + 15 * AttentionScore(view.attention)
                     + 8 * SpreadScore(view.spread) + 7 * RetraceScore(ctx) + near + above
  <1>1. /\ view.float \in Nat \cup {None} /\ view.spread \in Int
        /\ view.attention \in {"prime", "watch", "ignore"}
    BY EngineAssumption
  <1>2. PatternScore(pattern) \in Int
    BY DEF PatternScore, Shapes
  <1>3. RvolScore(view.rvol) \in Int
    BY RvolScoreType
  <1>4. FloatScore(view.float) \in Int
    BY <1>1, FloatScoreType
  <1>5. AttentionScore(view.attention) \in Int
    BY <1>1 DEF AttentionScore
  <1>6. SpreadScore(view.spread) \in Int
    BY <1>1 DEF SpreadScore
  <1>7. RetraceScore(ctx) \in Int
    BY DEF RetraceScore
  <1>8. near \in Int /\ above \in Int
    OBVIOUS
  <1>9. ScoreConviction(pattern, view, ctx, price, ema9, vwap)
          = Max({2500, Min({10000, composite})})
    BY DEF ScoreConviction
  <1> HIDE DEF near, above
  <1>10. composite \in Int
    BY <1>2, <1>3, <1>4, <1>5, <1>6, <1>7, <1>8
  <1> HIDE DEF composite
  <1>11. Min({10000, composite}) = IF 10000 <= composite THEN 10000 ELSE composite
    BY <1>10, MinOfTwo
  <1>12. Min({10000, composite}) \in Int /\ Min({10000, composite}) <= 10000
    BY <1>10, <1>11
  <1>13. Max({2500, Min({10000, composite})})
           = IF 2500 >= Min({10000, composite}) THEN 2500 ELSE Min({10000, composite})
    BY <1>12, MaxOfTwo
  <1>14. Max({2500, Min({10000, composite})}) \in Convictions
    <2> DEFINE low == Min({10000, composite})
    <2>1. low \in Int /\ low <= 10000
      BY <1>12
    <2>2. Max({2500, low}) = IF 2500 >= low THEN 2500 ELSE low
      BY <1>13
    <2> HIDE DEF low
    <2>3. (IF 2500 >= low THEN 2500 ELSE low) \in Convictions
      BY <2>1 DEF Convictions
    <2>4. QED
      BY <2>2, <2>3 DEF low
  <1>15. QED
    BY <1>9, <1>14

\* A run of one colour has a length.
LEMMA RunType ==
  ASSUME NEW bars, NEW last \in Nat, NEW colour
  PROVE  Run(bars, last, colour) \in 0 .. last
  <1> DEFINE lengths == {k \in 0 .. last : \A i \in (last - k + 1) .. last : Colour(bars[i]) = colour}
  <1>1. Run(bars, last, colour) = Max(lengths)
    BY DEF Run
  <1>2. 0 \in lengths /\ lengths \in SUBSET (0 .. last)
    OBVIOUS
  <1> HIDE DEF lengths
  <1>3. Max(lengths) \in 0 .. last
    BY <1>2, MaxInInterval
  <1>4. QED
    BY <1>1, <1>3

\* The bar before the signal bar belongs to the pullback, so the low of the
\* pullback is at most its low.
LEMMA ContextLow ==
  ASSUME NEW bars \in Seq(Candles), NEW ctx \in FindPullbackContext(bars)
  PROVE  /\ Len(bars) >= 2
         /\ ctx.low \in Int
         /\ ctx.low <= Prior(bars).l
  <1> DEFINE n == Len(bars)
             count == Min({PullbackMax, Run(bars, n - 1, "red")})
             top == n - 1 - count
             pullback == (top + 1) .. (n - 1)
             lows == {bars[i].l : i \in pullback}
  <1>1. n \in Nat /\ PullbackMax \in Nat /\ PullbackMax >= 1 /\ SurgeMin \in Nat /\ SurgeMin >= 1
    BY PatternAssumption, LenProperties
  <1>2. n >= SurgeMin + PullbackMax + 1 /\ count # 0 /\ ctx.low = Min(lows)
    <2> DEFINE surge == Run(bars, top, "green")
               high == Max(Highs(bars, (top - surge + 1) .. top))
               start == bars[top - surge + 1].l
               found == [count |-> count, low |-> Min(lows), high |-> high,
                         depth |-> high - Min(lows), move |-> high - start]
    <2>1. FindPullbackContext(bars)
            = IF n < SurgeMin + PullbackMax + 1 \/ count = 0 \/ surge < SurgeMin \/ high <= start
              THEN {} ELSE {found}
      BY DEF FindPullbackContext, Lows
    <2>2. found.low = Min(lows)
      OBVIOUS
    <2> HIDE DEF found, surge, high, start, lows, count, n
    <2>3. ~(n < SurgeMin + PullbackMax + 1) /\ count # 0 /\ ctx = found
      BY <2>1
    <2>4. QED
      BY <1>1, <2>2, <2>3
  <1>3. n >= 2
    BY <1>1, <1>2
  <1>4. Run(bars, n - 1, "red") \in 0 .. (n - 1)
    BY <1>1, <1>3, RunType
  <1>5. count = IF PullbackMax <= Run(bars, n - 1, "red") THEN PullbackMax ELSE Run(bars, n - 1, "red")
    BY <1>1, <1>4, MinOfTwo
  <1>6. count \in 1 .. (n - 1)
    BY <1>1, <1>2, <1>3, <1>4, <1>5
  <1> HIDE DEF count, n
  <1>7. pullback \subseteq 1 .. n /\ n - 1 \in pullback
    BY <1>1, <1>3, <1>6
  <1>8. \A i \in pullback : bars[i].l \in Int
    <2>1. \A i \in 1 .. n : bars[i] \in Candles
      BY ElementOfSeq DEF n
    <2>2. QED
      BY <1>7, <2>1 DEF Candles
  <1>9. IsFiniteSet(pullback)
    BY <1>1, <1>6, FS_Interval
  <1>10. IsFiniteSet(lows)
    <2> DEFINE f == [i \in pullback |-> bars[i].l]
    <2>1. lows = {f[i] : i \in pullback}
      OBVIOUS
    <2> HIDE DEF f, pullback
    <2>2. QED
      BY <1>9, <2>1, ImageFinite
  <1>11. lows \in SUBSET Int /\ lows # {} /\ bars[n - 1].l \in lows
    BY <1>7, <1>8
  <1> HIDE DEF lows
  <1>12. Min(lows) \in lows /\ Min(lows) <= bars[n - 1].l
    BY <1>10, <1>11, MinFacts
  <1>13. QED
    BY <1>2, <1>3, <1>11, <1>12 DEF Prior, n

\* An entry on the close of its candle: the close is above the high of the bar
\* before, the stop at most that bar's low, and the target twice as far.
Tradable(signal) ==
    signal.kind = "entry" /\ signal.trigger = "candle_close" =>
        /\ signal.stop < signal.entry
        /\ signal.target - signal.entry = 2 * (signal.entry - signal.stop)
        /\ signal.conviction \in Convictions

\* What is said of the last signal, before a step.
LEMMA TradableIs == EntryIsTradable <=> Tradable(out)
  BY DEF EntryIsTradable, Tradable, Convictions

\* And after a step.
LEMMA TradableNext ==
  ASSUME Tradable(out')
  PROVE  EntryIsTradable'
  <1>1. ASSUME out'.kind = "entry", out'.trigger = "candle_close"
        PROVE  /\ out'.stop < out'.entry
               /\ out'.target - out'.entry = 2 * (out'.entry - out'.stop)
               /\ out'.conviction \in Convictions
    BY <1>1 DEF Tradable
  <1>2. ASSUME out'.kind = "entry", out'.trigger = "candle_close"
        PROVE  out'.conviction \in 2500 .. 10000
    BY <1>1, <1>2, SMTT(20) DEF Convictions
  <1>3. QED
    BY <1>1, <1>2, SMTT(20) DEF EntryIsTradable

\* The signal of an entry that has passed the gate.
LEMMA EntryAnswer ==
  ASSUME NEW s \in Sessions, NEW clock, Window(s.bars, clock), NEW view \in Views, NEW ema9,
         NEW ctx \in FindPullbackContext(s.bars), Crosses(s.bars, EffectiveTrigger(view.market))
  PROVE  /\ EntrySignal(s, view, ema9, ctx) \in Signals
         /\ EntrySignal(s, view, ema9, ctx).kind = "entry"
         /\ Tradable(EntrySignal(s, view, ema9, ctx))
  <1> DEFINE bar == Signal(s.bars)
             pattern == RecognizePattern(s.bars, ctx, Vwap(s), s, view.reverseSplit)
             trigger == EffectiveTrigger(view.market)
             conviction == ScoreConviction(pattern, view, ctx, bar.c, ema9, Vwap(s))
             stop == StopPrice(s.bars, ctx)
             target == TargetPrice(bar.c, stop)
             signal == [kind |-> "entry", pattern |-> pattern, trigger |-> trigger,
                        conviction |-> conviction, entry |-> bar.c, stop |-> stop,
                        target |-> target]
  <1>1. s.bars \in Seq(Candles) /\ Len(s.bars) \in Nat /\ Len(s.bars) >= 2
    BY ContextLow, LenProperties DEF Sessions
  <1>2. bar \in Candles /\ Prior(s.bars) \in Candles /\ Sound(Prior(s.bars), clock)
    <2>1. Len(s.bars) \in 1 .. Len(s.bars) /\ Len(s.bars) - 1 \in 1 .. Len(s.bars)
      BY <1>1
    <2>2. \A j \in 1 .. Len(s.bars) : s.bars[j] \in Candles
      BY <1>1, ElementOfSeq
    <2>3. QED
      BY <2>1, <2>2 DEF Signal, Prior, Window
  <1>3. bar.c \in Int /\ Prior(s.bars).l \in Int /\ Prior(s.bars).h \in Int /\ Prior(s.bars).o \in Int
    BY <1>2 DEF Candles
  <1>4. Prior(s.bars).l <= Prior(s.bars).h
    BY <1>2, <1>3 DEF Sound
  <1>5. ctx.low \in Int /\ ctx.low <= Prior(s.bars).l
    BY <1>1, ContextLow
  <1>6. stop \in Int /\ stop <= Prior(s.bars).l
    BY <1>1, <1>3, <1>5 DEF StopPrice
  <1>7. trigger \in {"candle_close", "mid_candle"}
    BY RuleAssumption DEF EffectiveTrigger
  <1>8. pattern \in Shapes
    BY PatternType
  <1>9. conviction \in Convictions
    <2> HIDE DEF pattern, bar
    <2> DEFINE vwap == Vwap(s)
               price == bar.c
    <2> HIDE DEF vwap, price
    <2>1. ScoreConviction(pattern, view, ctx, price, ema9, vwap) \in Convictions
      BY <1>8, ConvictionRange
    <2>2. QED
      BY <2>1, Zenon DEF vwap, price
  <1>10. target = bar.c + 2 * (IF bar.c > stop THEN bar.c - stop ELSE 1)
    BY DEF TargetPrice
  <1>11. trigger = "candle_close" => bar.c > Prior(s.bars).h
    BY DEF Crosses
  <1>12. EntrySignal(s, view, ema9, ctx) = signal
    BY DEF EntrySignal
  <1> HIDE DEF bar, pattern, trigger, conviction, stop, target
  <1>13. target \in Int
    BY <1>3, <1>6, <1>10
  <1>14. signal \in Signals
    <2>1. conviction \in Int
      BY <1>9 DEF Convictions
    <2>2. signal \in [kind : {"entry"}, pattern : Shapes, trigger : {"candle_close", "mid_candle"},
                      conviction : Int, entry : Int, stop : Int, target : Int]
      BY <1>3, <1>6, <1>7, <1>8, <1>13, <2>1
    <2>3. QED
      BY <2>2 DEF Signals
  <1>15. ASSUME trigger = "candle_close"
         PROVE  stop < bar.c /\ target - bar.c = 2 * (bar.c - stop)
    <2>1. stop < bar.c
      BY <1>3, <1>4, <1>6, <1>11, <1>15
    <2>2. QED
      BY <1>3, <1>6, <1>10, <2>1
  <1>16. Tradable(signal)
    BY <1>9, <1>15 DEF Tradable
  <1>17. QED
    BY <1>12, <1>14, <1>16

\* The answer of a bar outside a position: an entry, a warning or nothing.
LEMMA FlatAnswer ==
  ASSUME NEW s \in Sessions, NEW clock, Window(s.bars, clock), NEW view \in Views,
         NEW ema9, NEW macd
  PROVE  /\ SignalFlat(s, view, ema9, macd) \in Signals
         /\ SignalFlat(s, view, ema9, macd).kind \in {"none", "failed", "entry"}
         /\ Tradable(SignalFlat(s, view, ema9, macd))
  <1> DEFINE contexts == FindPullbackContext(s.bars)
             chosen == CHOOSE ctx \in contexts : TRUE
             warned == \E ctx \in contexts : IsFailedPattern(s.bars, Vwap(s), ema9, macd, ctx)
  <1>1. SignalFlat(s, view, ema9, macd)
          = IF EntryGate(s.bars, macd, view) THEN EntrySignal(s, view, ema9, chosen)
            ELSE IF warned THEN [kind |-> "failed"] ELSE Silent
    BY DEF SignalFlat
  <1>2. CASE EntryGate(s.bars, macd, view)
    <2>1. contexts # {} /\ Crosses(s.bars, EffectiveTrigger(view.market))
      BY <1>2 DEF EntryGate
    <2>2. chosen \in contexts
      BY <2>1
    <2> HIDE DEF chosen
    <2>3. /\ EntrySignal(s, view, ema9, chosen) \in Signals
          /\ EntrySignal(s, view, ema9, chosen).kind = "entry"
          /\ Tradable(EntrySignal(s, view, ema9, chosen))
      BY <2>1, <2>2, EntryAnswer
    <2>4. QED
      BY <1>1, <1>2, <2>3
  <1>3. CASE ~EntryGate(s.bars, macd, view)
    <2> HIDE DEF chosen, warned
    <2>1. SignalFlat(s, view, ema9, macd) \in {[kind |-> "failed"], Silent}
      BY <1>1, <1>3
    <2>2. \A signal \in {[kind |-> "failed"], Silent} :
             /\ signal \in Signals /\ signal.kind \in {"none", "failed", "entry"}
             /\ Tradable(signal)
      <3>1. \A signal \in {[kind |-> "failed"], Silent} : signal \in Signals
        BY DEF Signals, Silent
      <3>2. \A signal \in {[kind |-> "failed"], Silent} : signal.kind \in {"none", "failed"}
        BY DEF Silent
      <3>3. \A signal : signal.kind \in {"none", "failed"} => Tradable(signal)
        BY DEF Tradable
      <3>4. QED
        BY <3>1, <3>2, <3>3
    <2>3. QED
      BY <2>1, <2>2
  <1>4. QED
    BY <1>2, <1>3

-----------------------------------------------------------------------------
(* The invariant.                                                          *)

\* The session a one-minute bar leads to, before the engine looks at it.
Fed(bar) == [Absorb(bar) EXCEPT !.bars = KeepLast(Append(@, bar), BarWindow)]

\* Its bars are the window with the new one at the end; its VWAP is bounded.
LEMMA FedFacts ==
  ASSUME Typed, VwapInv, NEW bar \in Candles, Sound(bar, minute + 1), bar.ts = minute + 1
  PROVE  /\ Fed(bar) \in Sessions
         /\ Fed(bar).position = sym.position
         /\ \E d \in {0, 1} : Moved(Fed(bar).bars, sym.bars, bar, d)
         /\ Window(Fed(bar).bars, minute + 1)
         /\ Fed(bar).bars # <<>> /\ Signal(Fed(bar).bars) = bar
         /\ Fed(bar).pv <= 3 * Fed(bar).vol * Fed(bar).intradayHigh
  <1> DEFINE kept == KeepLast(Append(sym.bars, bar), BarWindow)
             a == Absorb(bar)
  <1>1. /\ a \in Sessions /\ a.bars = sym.bars /\ a.position = sym.position
        /\ a.pv <= 3 * a.vol * a.intradayHigh
    BY AbsorbFacts
  <1>2. sym.bars \in Seq(Candles) /\ Window(sym.bars, minute) /\ Len(sym.bars) <= BarWindow
    BY DEF Typed, Sessions, Window
  <1>3. PICK d \in {0, 1} : Moved(kept, sym.bars, bar, d)
    BY <1>2, WindowMoves
  <1>4. minute \in Nat
    BY EngineAssumption DEF Typed
  <1>5. Window(kept, minute + 1)
    BY <1>2, <1>3, <1>4, WindowKept
  <1>6. Fed(bar) = [a EXCEPT !.bars = KeepLast(Append(a.bars, bar), BarWindow)]
    BY <1>1 DEF Fed, Sessions
  <1>7. Fed(bar) = [a EXCEPT !.bars = kept]
    BY <1>1, <1>6
  <1>8. kept \in Seq(Candles) /\ Len(kept) \in 1 .. BarWindow /\ kept[Len(kept)] = bar
    BY <1>3 DEF Moved
  <1>9. kept # <<>> /\ Signal(kept) = bar
    BY <1>8, EmptySeq DEF Signal
  <1> HIDE DEF kept, a
  <1>10. /\ Fed(bar) \in Sessions /\ Fed(bar).bars = kept /\ Fed(bar).position = a.position
         /\ Fed(bar).pv = a.pv /\ Fed(bar).vol = a.vol /\ Fed(bar).intradayHigh = a.intradayHigh
    BY <1>1, <1>7, <1>8 DEF Sessions
  <1>11. QED
    BY <1>1, <1>3, <1>5, <1>9, <1>10

\* The invariant holds initially.
LEMMA IInvInit == Init => IInv
  <1>1. SUFFICES ASSUME Init PROVE IInv
    OBVIOUS
  <1>2. /\ sym.bars = <<>> /\ sym.updates = 0 /\ sym.pv = 0 /\ sym.vol = 0
        /\ sym.position = NoPosition /\ sym.intradayHigh = 0
    BY <1>1 DEF Init, FreshSession
  <1>3. out = Silent /\ minute = 0 /\ sessions = 1
    BY <1>1 DEF Init
  <1>4. ~Holding
    BY <1>2 DEF Holding, NoPosition
  <1>5. Typed
    <2>1. sym \in Sessions
      BY <1>1, EmptySeq DEF Init, FreshSession, Sessions, Positions, NoPosition, None
    <2>2. Window(sym.bars, minute)
      BY <1>2, EngineAssumption DEF Window
    <2>3. out \in Signals
      BY <1>3 DEF Signals, Silent
    <2>4. QED
      BY <1>3, <1>4, <2>1, <2>2, <2>3, EngineAssumption DEF Typed
  <1>6. VwapInv
    BY <1>2 DEF VwapInv, VwapWithinSession
  <1>7. QED
    BY <1>3, <1>4, <1>5, <1>6 DEF IInv, StopInv, EntryInv, EntryIsTradable, MarkInv, Silent

\* A minute's bar: the window moves on, the VWAP takes the bar in, and the
\* answer is that of the exit rules or of the entry gate.
LEMMA OneMinuteBarKeeps == IInv /\ OneMinuteBar => IInv'
  <1>1. SUFFICES ASSUME IInv, OneMinuteBar PROVE IInv'
    OBVIOUS
  <1>2. PICK shape \in Tape[minute + 1] \ {NoBar} : \E view \in Views :
        LET bar == BarOf(shape)
            fed == [Absorb(bar) EXCEPT !.bars = KeepLast(Append(@, bar), BarWindow)]
        IN  IF fed.position.held
            THEN LET s == Watched(fed)
                 IN  /\ out' = SignalHolding(s, view)
                     /\ sym' = IF out'.kind = "exit"
                               THEN [s EXCEPT !.position = NoPosition] ELSE s
            ELSE /\ \E ema9 \in EmaValues(fed, bar.c), macd \in MacdValues(fed) :
                        out' = SignalFlat(fed, view, ema9, macd)
                 /\ sym' = fed
    BY <1>1 DEF OneMinuteBar
  <1> DEFINE bar == BarOf(shape)
             fed == Fed(bar)
             s == Watched(fed)
  <1>3. PICK view \in Views :
        IF fed.position.held
        THEN /\ out' = SignalHolding(s, view)
             /\ sym' = IF out'.kind = "exit" THEN [s EXCEPT !.position = NoPosition] ELSE s
        ELSE /\ \E ema9 \in EmaValues(fed, bar.c), macd \in MacdValues(fed) :
                    out' = SignalFlat(fed, view, ema9, macd)
             /\ sym' = fed
    BY <1>2 DEF Fed
  <1>4. Typed /\ VwapInv /\ StopInv /\ EntryInv /\ MarkInv
    BY <1>1 DEF IInv
  <1>5. minute \in Nat /\ minute < Len(Tape) /\ minute' = minute + 1 /\ sessions' = sessions
    BY <1>1, <1>4, EngineAssumption DEF OneMinuteBar, Typed
  <1>6. minute' \in 0 .. Len(Tape) /\ sessions' \in 1 .. MaxSessions
    BY <1>4, <1>5, EngineAssumption DEF Typed
  <1>7. IsCandle(shape)
    <2>1. minute + 1 \in 1 .. Len(Tape)
      BY <1>5, EngineAssumption
    <2>2. QED
      BY <2>1, EngineAssumption
  <1>8. bar \in Candles /\ Sound(bar, minute + 1) /\ bar.ts = minute + 1
    BY <1>4, <1>7, BarFacts
  <1> HIDE DEF bar
  <1>9. /\ fed \in Sessions /\ fed.position = sym.position
        /\ Window(fed.bars, minute + 1)
        /\ fed.bars # <<>> /\ Signal(fed.bars) = bar
        /\ fed.pv <= 3 * fed.vol * fed.intradayHigh
    BY <1>4, <1>8, FedFacts
  <1>10. PICK d \in {0, 1} : Moved(fed.bars, sym.bars, bar, d)
    BY <1>4, <1>8, FedFacts
  <1> HIDE DEF fed
  <1>11. CASE ~Holding
    <2>1. ~fed.position.held
      BY <1>9, <1>11 DEF Holding
    <2>2. sym' = fed
      BY <1>3, <2>1
    <2>3. PICK ema9, macd : out' = SignalFlat(fed, view, ema9, macd)
      BY <1>3, <2>1
    <2>4. out' \in Signals /\ out'.kind \in {"none", "failed", "entry"} /\ Tradable(out')
      BY <1>9, <2>3, FlatAnswer
    <2>5. ~Holding'
      BY <2>1, <2>2 DEF Holding
    <2>6. Typed'
      BY <1>5, <1>6, <1>9, <2>2, <2>4, <2>5 DEF Typed
    <2>7. VwapInv'
      BY <1>9, <2>2 DEF VwapInv, VwapWithinSession
    <2>8. StopInv' /\ MarkInv'
      BY <2>5 DEF StopInv, MarkInv
    <2>9. EntryInv'
      <3>1. EntryIsTradable'
        BY <2>4, TradableNext
      <3>2. sym'.bars # <<>>
        BY <1>9, <2>2
      <3>3. QED
        BY <2>5, <3>1, <3>2 DEF EntryInv
    <2>10. QED
      BY <2>6, <2>7, <2>8, <2>9 DEF IInv
  <1>12. CASE Holding
    <2> DEFINE mark == Max({sym.position.watermark, bar.c})
    <2>1. fed.position.held /\ fed.position \in Positions
      BY <1>4, <1>9, <1>12 DEF Holding, Sessions
    <2>2. /\ fed.position \in [held : {TRUE}, entry : Int, stop : Int, target : Int,
                               entryTs : Nat, watermark : Int]
          /\ fed.position.entry \in Int /\ fed.position.stop \in Int /\ fed.position.target \in Int
          /\ fed.position.entryTs \in Nat /\ fed.position.watermark \in Int
      BY <2>1, HeldTypes
    <2>3. s = [fed EXCEPT !.position = [fed.position EXCEPT !.watermark = mark]]
      BY <1>9, <2>2 DEF Watched, Sessions
    <2>4. bar.c \in Int
      BY <1>8 DEF Candles
    <2>5. mark \in Int
      <3>1. mark = IF sym.position.watermark >= bar.c THEN sym.position.watermark ELSE bar.c
        BY <1>9, <2>2, <2>4, MaxOfTwo
      <3>2. QED
        BY <1>9, <2>2, <2>4, <3>1
    <2> HIDE DEF mark
    <2>6. /\ s \in Sessions /\ s.bars = fed.bars
          /\ s.pv = fed.pv /\ s.vol = fed.vol /\ s.intradayHigh = fed.intradayHigh
          /\ s.position = [fed.position EXCEPT !.watermark = mark]
      <3> DEFINE marked == [fed.position EXCEPT !.watermark = mark]
      <3>1. marked \in Positions
        BY <2>2, <2>5 DEF Positions
      <3> HIDE DEF marked
      <3>2. QED
        BY <1>9, <2>3, <3>1 DEF Sessions, marked
    <2>7. /\ s.position.held /\ s.position.entry = sym.position.entry
          /\ s.position.stop = sym.position.stop /\ s.position.entryTs = sym.position.entryTs
          /\ s.position.watermark = mark
      BY <1>9, <2>1, <2>2, <2>6
    <2> HIDE DEF s
    <2>8. /\ out' = SignalHolding(s, view)
          /\ sym' = IF out'.kind = "exit" THEN [s EXCEPT !.position = NoPosition] ELSE s
      BY <1>3, <2>1
    <2>9. s.bars # <<>>
      BY <1>9, <2>6
    <2>10. /\ out' \in Signals /\ out'.kind \in {"none", "scale", "exit"}
           /\ out'.kind # "exit" => bar.c > s.position.stop
           /\ out'.kind = "scale" => out'.stop = s.position.entry /\ bar.c > s.position.entry
      BY <1>9, <2>6, <2>7, <2>8, <2>9, HoldingAnswer
    <2>11. /\ sym' \in Sessions /\ sym'.bars = fed.bars
           /\ sym'.pv = fed.pv /\ sym'.vol = fed.vol /\ sym'.intradayHigh = fed.intradayHigh
      <3>1. CASE out'.kind = "exit"
        <4>1. sym' = [s EXCEPT !.position = NoPosition]
          BY <2>8, <3>1
        <4>2. NoPosition \in Positions
          BY DEF Positions
        <4>3. QED
          BY <2>6, <4>1, <4>2 DEF Sessions
      <3>2. CASE out'.kind # "exit"
        BY <2>6, <2>8, <3>2
      <3>3. QED
        BY <3>1, <3>2
    <2>12. Holding' => out'.kind # "exit" /\ sym' = s
      <3>1. CASE out'.kind = "exit"
        <4>1. sym'.position = NoPosition
          BY <2>6, <2>8, <3>1 DEF Sessions
        <4>2. QED
          BY <4>1 DEF Holding, NoPosition
      <3>2. CASE out'.kind # "exit"
        BY <2>8, <3>2
      <3>3. QED
        BY <3>1, <3>2
    <2>13. sym.position.entryTs <= minute /\ sym.position.entryTs \in Nat
      BY <1>4, <1>9, <1>12, <2>2 DEF Typed
    <2>14. Typed'
      <3>1. Holding' => sym'.position.entryTs <= minute'
        BY <1>5, <2>7, <2>12, <2>13
      <3>2. QED
        BY <1>5, <1>6, <1>9, <2>10, <2>11, <3>1 DEF Typed
    <2>15. VwapInv'
      BY <1>9, <2>11 DEF VwapInv, VwapWithinSession
    <2>16. StopInv'
      BY <1>9, <2>10, <2>11, <2>12 DEF StopInv
    <2>17. EntryInv'
      <3>1. out'.kind # "entry"
        BY <2>10
      <3>2. Tradable(out')
        BY <3>1 DEF Tradable
      <3>3. QED
        BY <3>1, <3>2, TradableNext DEF EntryInv
    <2>18. MarkInv'
      <3>1. Marked(sym.position, sym.bars)
        BY <1>4, <1>12 DEF MarkInv
      <3>2. sym.bars \in Seq(Candles) /\ Window(sym.bars, minute)
        BY <1>4 DEF Typed, Sessions
      <3>3. Marked(s.position, fed.bars)
        BY <1>5, <1>8, <1>9, <1>10, <2>2, <2>7, <2>13, <3>1, <3>2, MarkKept DEF mark
      <3>4. QED
        BY <2>11, <2>12, <3>3 DEF MarkInv
    <2>19. QED
      BY <2>14, <2>15, <2>16, <2>17, <2>18 DEF IInv
  <1>13. QED
    BY <1>11, <1>12

\* A ten-second bar moves the sums and the high, and nothing else.
LEMMA TenSecondBarKeeps == IInv /\ TenSecondBar => IInv'
  <1>1. SUFFICES ASSUME IInv, TenSecondBar PROVE IInv'
    OBVIOUS
  <1>2. PICK shape \in TenSecondShapes : sym' = Absorb(BarOf(shape))
    BY <1>1 DEF TenSecondBar
  <1>3. Typed /\ VwapInv /\ StopInv /\ MarkInv
    BY <1>1 DEF IInv
  <1>4. out' = Silent /\ minute' = minute /\ sessions' = sessions
    BY <1>1 DEF TenSecondBar
  <1>5. BarOf(shape) \in Candles /\ Sound(BarOf(shape), minute + 1)
    BY <1>3, BarFacts, EngineAssumption
  <1>6. /\ sym' \in Sessions /\ sym'.bars = sym.bars /\ sym'.position = sym.position
        /\ sym'.pv <= 3 * sym'.vol * sym'.intradayHigh
    BY <1>2, <1>3, <1>5, AbsorbFacts
  <1>7. Holding' = Holding
    BY <1>6 DEF Holding
  <1>8. Typed'
    BY <1>3, <1>4, <1>6, <1>7 DEF Typed, Signals
  <1>9. VwapInv'
    BY <1>6 DEF VwapInv, VwapWithinSession
  <1>10. StopInv' /\ MarkInv'
    BY <1>3, <1>4, <1>6, <1>7 DEF StopInv, MarkInv, Silent
  <1>11. EntryInv'
    BY <1>4 DEF EntryInv, EntryIsTradable, Silent
  <1>12. QED
    BY <1>8, <1>9, <1>10, <1>11 DEF IInv

\* The fill of an entry: the position starts at its last bar.
LEMMA OpenPositionKeeps == IInv /\ OpenPosition => IInv'
  <1>1. SUFFICES ASSUME IInv, OpenPosition PROVE IInv'
    OBVIOUS
  <1>2. PICK offset \in FillOffsets :
          sym' = [sym EXCEPT !.position =
                    [held |-> TRUE, entry |-> out.entry + offset, stop |-> out.stop,
                     target |-> out.target, entryTs |-> Signal(sym.bars).ts,
                     watermark |-> out.entry + offset]]
    BY <1>1 DEF OpenPosition
  <1> DEFINE pos == [held |-> TRUE, entry |-> out.entry + offset, stop |-> out.stop,
                     target |-> out.target, entryTs |-> Signal(sym.bars).ts,
                     watermark |-> out.entry + offset]
  <1>3. Typed /\ VwapInv /\ EntryInv
    BY <1>1 DEF IInv
  <1>4. out.kind = "entry" /\ out' = Silent /\ minute' = minute /\ sessions' = sessions
    BY <1>1 DEF OpenPosition
  <1>5. out.entry \in Int /\ out.stop \in Int /\ out.target \in Int
    BY <1>3, <1>4 DEF Typed, Signals, Silent
  <1>6. offset \in Int
    BY EngineAssumption
  <1>7. sym.bars # <<>> /\ sym.bars \in Seq(Candles) /\ Window(sym.bars, minute)
    BY <1>3, <1>4 DEF EntryInv, Typed, Sessions
  <1>8. Len(sym.bars) \in Nat /\ Len(sym.bars) >= 1
    BY <1>7, EmptySeq
  <1>9. \A j \in 1 .. Len(sym.bars) : sym.bars[j] \in Candles
    BY <1>7, ElementOfSeq
  <1>10. Signal(sym.bars).ts \in Nat /\ Signal(sym.bars).ts <= minute
    <2>1. Len(sym.bars) \in 1 .. Len(sym.bars)
      BY <1>8
    <2>2. Sound(Signal(sym.bars), minute) /\ Signal(sym.bars) \in Candles
      BY <1>7, <1>9, <2>1 DEF Signal, Window
    <2>3. QED
      BY <2>2 DEF Sound, Candles
  <1>11. pos \in Positions
    BY <1>5, <1>6, <1>10 DEF Positions
  <1>12. pos.held /\ pos.entry = pos.watermark /\ pos.entryTs = Signal(sym.bars).ts
         /\ pos.entry \in Int
    BY <1>5, <1>6
  <1> HIDE DEF pos
  <1>13. /\ sym' \in Sessions /\ sym'.bars = sym.bars /\ sym'.position = pos
         /\ sym'.pv = sym.pv /\ sym'.vol = sym.vol /\ sym'.intradayHigh = sym.intradayHigh
    BY <1>2, <1>3, <1>11 DEF Typed, Sessions, pos
  <1>14. Holding'
    BY <1>12, <1>13 DEF Holding
  <1>15. Typed'
    BY <1>3, <1>4, <1>7, <1>10, <1>12, <1>13 DEF Typed, Signals
  <1>16. VwapInv'
    BY <1>3, <1>13 DEF VwapInv, VwapWithinSession
  <1>17. StopInv'
    BY <1>4, <1>12, <1>13 DEF StopInv, Silent
  <1>18. EntryInv'
    BY <1>4 DEF EntryInv, EntryIsTradable, Silent
  <1>19. MarkInv'
    <2>1. \A j \in 1 .. Len(sym.bars) : ~(sym.bars[j].ts > pos.entryTs)
      <3>1. SUFFICES ASSUME NEW j \in 1 .. Len(sym.bars) PROVE ~(sym.bars[j].ts > pos.entryTs)
        OBVIOUS
      <3>2. sym.bars[j].ts \in Nat
        BY <1>9 DEF Candles
      <3>3. CASE j = Len(sym.bars)
        BY <1>10, <1>12, <3>3 DEF Signal
      <3>4. CASE j < Len(sym.bars)
        <4>1. sym.bars[j].ts < sym.bars[Len(sym.bars)].ts
          BY <1>7, <1>8, <3>4 DEF Window
        <4>2. QED
          BY <1>10, <1>12, <3>2, <4>1 DEF Signal
      <3>5. QED
        BY <1>8, <3>3, <3>4
    <2>2. Marked(pos, sym.bars)
      BY <1>12, <2>1 DEF Marked
    <2>3. QED
      BY <1>13, <2>2 DEF MarkInv
  <1>20. QED
    BY <1>15, <1>16, <1>17, <1>18, <1>19 DEF IInv

\* The caller reports a close.
LEMMA ClosePositionKeeps == IInv /\ ClosePosition => IInv'
  <1>1. SUFFICES ASSUME IInv, ClosePosition PROVE IInv'
    OBVIOUS
  <1>2. Typed /\ VwapInv /\ EntryInv
    BY <1>1 DEF IInv
  <1>3. sym' = [sym EXCEPT !.position = NoPosition] /\ UNCHANGED <<out, minute, sessions>>
    BY <1>1 DEF ClosePosition
  <1>4. NoPosition \in Positions
    BY DEF Positions
  <1>5. /\ sym' \in Sessions /\ sym'.bars = sym.bars /\ sym'.position = NoPosition
        /\ sym'.pv = sym.pv /\ sym'.vol = sym.vol /\ sym'.intradayHigh = sym.intradayHigh
    BY <1>2, <1>3, <1>4 DEF Typed, Sessions
  <1>6. ~Holding'
    BY <1>5 DEF Holding, NoPosition
  <1>7. Typed'
    BY <1>2, <1>3, <1>5, <1>6 DEF Typed
  <1>8. VwapInv'
    BY <1>2, <1>5 DEF VwapInv, VwapWithinSession
  <1>9. EntryInv'
    <2>1. Tradable(out')
      BY <1>2, <1>3, TradableIs DEF EntryInv
    <2>2. EntryIsTradable'
      BY <2>1, TradableNext
    <2>3. QED
      BY <1>2, <1>3, <1>5, <1>6, <2>2 DEF EntryInv
  <1>10. QED
    BY <1>6, <1>7, <1>8, <1>9 DEF IInv, StopInv, MarkInv

\* The stop goes to the fill, which the last close is above.
LEMMA UpdateStopKeeps == IInv /\ UpdateStop => IInv'
  <1>1. SUFFICES ASSUME IInv, UpdateStop PROVE IInv'
    OBVIOUS
  <1>2. Typed /\ VwapInv /\ StopInv /\ MarkInv
    BY <1>1 DEF IInv
  <1>3. /\ out.kind = "scale" /\ Holding /\ sym' = [sym EXCEPT !.position.stop = out.stop]
        /\ out' = Silent /\ minute' = minute /\ sessions' = sessions
    BY <1>1 DEF UpdateStop, Holding
  <1>4. out.stop = sym.position.entry /\ Signal(sym.bars).c > sym.position.entry
    BY <1>2, <1>3 DEF StopInv
  <1>5. /\ sym.position \in [held : {TRUE}, entry : Int, stop : Int, target : Int,
                             entryTs : Nat, watermark : Int]
        /\ sym.position.entry \in Int
    BY <1>2, <1>3, HeldTypes DEF Typed, Sessions, Holding
  <1> DEFINE pos == [sym.position EXCEPT !.stop = out.stop]
  <1>6. /\ pos \in Positions /\ pos.held /\ pos.stop = out.stop
        /\ pos.entry = sym.position.entry /\ pos.entryTs = sym.position.entryTs
        /\ pos.watermark = sym.position.watermark
    BY <1>4, <1>5 DEF Positions
  <1>7. sym' = [sym EXCEPT !.position = pos]
    BY <1>2, <1>3 DEF Typed, Sessions
  <1> HIDE DEF pos
  <1>8. /\ sym' \in Sessions /\ sym'.bars = sym.bars /\ sym'.position = pos
        /\ sym'.pv = sym.pv /\ sym'.vol = sym.vol /\ sym'.intradayHigh = sym.intradayHigh
    BY <1>2, <1>6, <1>7 DEF Typed, Sessions
  <1>9. Typed'
    BY <1>2, <1>3, <1>6, <1>8 DEF Typed, Signals
  <1>10. VwapInv'
    BY <1>2, <1>8 DEF VwapInv, VwapWithinSession
  <1>11. StopInv'
    BY <1>3, <1>4, <1>6, <1>8 DEF StopInv, Silent
  <1>12. EntryInv'
    BY <1>3 DEF EntryInv, EntryIsTradable, Silent
  <1>13. MarkInv'
    <2>1. Marked(sym.position, sym.bars)
      BY <1>2, <1>3 DEF MarkInv
    <2>2. Marked(pos, sym.bars)
      BY <1>6, <2>1 DEF Marked
    <2>3. QED
      BY <1>8, <2>2 DEF MarkInv
  <1>14. QED
    BY <1>9, <1>10, <1>11, <1>12, <1>13 DEF IInv

\* A flag of the session, its rank, or the clock alone moves.
LEMMA SideStepsKeep ==
  IInv /\ (SetHaltedResume \/ SetMarketRank \/ MissedMinute \/ UNCHANGED vars) => IInv'
  <1>1. SUFFICES ASSUME IInv, SetHaltedResume \/ SetMarketRank \/ MissedMinute \/ UNCHANGED vars
                 PROVE  IInv'
    OBVIOUS
  <1>2. Typed /\ VwapInv /\ StopInv /\ EntryInv /\ MarkInv
    BY <1>1 DEF IInv
  <1>3. minute \in Nat /\ sym \in Sessions
    BY <1>2, EngineAssumption DEF Typed
  <1>4. /\ sym' \in Sessions /\ sym'.bars = sym.bars /\ sym'.position = sym.position
        /\ sym'.pv = sym.pv /\ sym'.vol = sym.vol /\ sym'.intradayHigh = sym.intradayHigh
        /\ out' = out /\ sessions' = sessions
    <2>1. CASE SetHaltedResume
      BY <1>3, <2>1 DEF SetHaltedResume, Sessions
    <2>2. CASE SetMarketRank
      BY <1>3, <2>2 DEF SetMarketRank, Sessions
    <2>3. CASE MissedMinute
      BY <1>3, <2>3 DEF MissedMinute
    <2>4. CASE UNCHANGED vars
      BY <1>3, <2>4 DEF vars
    <2>5. QED
      BY <1>1, <2>1, <2>2, <2>3, <2>4
  <1>5. minute' \in 0 .. Len(Tape) /\ minute <= minute'
    BY <1>1, <1>2, <1>3, EngineAssumption
      DEF SetHaltedResume, SetMarketRank, MissedMinute, vars, Typed
  <1>6. Window(sym'.bars, minute')
    <2>1. sym.bars \in Seq(Candles) /\ Window(sym.bars, minute)
      BY <1>2, <1>3 DEF Sessions, Typed
    <2>2. \A j \in 1 .. Len(sym.bars) : sym.bars[j] \in Candles
      BY <2>1, ElementOfSeq
    <2>3. \A j \in 1 .. Len(sym.bars) : Sound(sym.bars[j], minute')
      <3>1. SUFFICES ASSUME NEW j \in 1 .. Len(sym.bars) PROVE Sound(sym.bars[j], minute')
        OBVIOUS
      <3>2. Sound(sym.bars[j], minute) /\ sym.bars[j].ts \in Nat
        BY <2>1, <2>2 DEF Window, Candles
      <3>3. QED
        BY <1>3, <1>5, <3>2, EngineAssumption DEF Sound
    <2>4. QED
      BY <1>4, <2>1, <2>3 DEF Window
  <1>7. Holding' = Holding
    BY <1>4 DEF Holding
  <1>8. Holding' => sym'.bars # <<>> /\ sym'.position.entryTs <= minute'
    <2>1. SUFFICES ASSUME Holding PROVE sym.bars # <<>> /\ sym.position.entryTs <= minute'
      BY <1>4, <1>7
    <2>2. sym.position.entryTs \in Nat
      BY <1>3, <2>1, HeldTypes DEF Sessions, Holding
    <2>3. QED
      BY <1>2, <1>3, <1>5, <2>1, <2>2, EngineAssumption DEF Typed
  <1>9. Typed'
    BY <1>2, <1>4, <1>5, <1>6, <1>8 DEF Typed
  <1>10. VwapInv' /\ StopInv' /\ MarkInv'
    BY <1>2, <1>4, <1>7 DEF VwapInv, VwapWithinSession, StopInv, MarkInv
  <1>11. EntryInv'
    <2>1. out' = out
      BY <1>2, <1>4
    <2>2. Tradable(out')
      BY <1>2, <2>1, TradableIs DEF EntryInv
    <2>3. EntryIsTradable'
      BY <2>2, TradableNext
    <2>4. QED
      BY <1>2, <1>4, <1>7, <2>1, <2>3 DEF EntryInv
  <1>12. QED
    BY <1>9, <1>10, <1>11 DEF IInv

\* A new session starts from nothing.
LEMMA ResetSessionKeeps == IInv /\ ResetSession => IInv'
  <1>1. SUFFICES ASSUME IInv, ResetSession PROVE IInv'
    OBVIOUS
  <1>2. PICK day \in Opens : sym' = FreshSession(day.prevClose, day.gap)
    BY <1>1 DEF ResetSession
  <1>3. day.prevClose \in Int /\ day.gap \in Int
    BY EngineAssumption
  <1>4. out' = Silent /\ minute' = 0 /\ sessions' \in 1 .. MaxSessions
    BY <1>1, EngineAssumption DEF ResetSession, IInv, Typed
  <1>5. /\ sym'.bars = <<>> /\ sym'.pv = 0 /\ sym'.vol = 0
        /\ sym'.position = NoPosition /\ sym'.intradayHigh = 0
    BY <1>2 DEF FreshSession
  <1>6. ~Holding'
    BY <1>5 DEF Holding, NoPosition
  <1>7. Typed'
    <2>1. sym' \in Sessions
      BY <1>2, <1>3, EmptySeq DEF FreshSession, Sessions, Positions, NoPosition
    <2>2. Window(sym'.bars, minute')
      BY <1>5, EngineAssumption DEF Window
    <2>3. out' \in Signals
      BY <1>4 DEF Signals
    <2>4. QED
      BY <1>4, <1>6, <2>1, <2>2, <2>3, EngineAssumption DEF Typed
  <1>8. VwapInv'
    BY <1>5 DEF VwapInv, VwapWithinSession
  <1>9. QED
    BY <1>4, <1>6, <1>7, <1>8 DEF IInv, StopInv, EntryInv, EntryIsTradable, MarkInv, Silent

\* Every step keeps the invariant.
LEMMA IInvNext == IInv /\ [Next]_vars => IInv'
  BY OneMinuteBarKeeps, TenSecondBarKeeps, OpenPositionKeeps, ClosePositionKeeps,
     UpdateStopKeeps, SideStepsKeep, ResetSessionKeeps DEF Next

\* The invariant of the engine: typed sessions with a window in order, and the
\* four facts the safety properties are read off from.
LEMMA EngineInvariant == Spec => []IInv
  BY IInvInit, IInvNext, PTL DEF Spec

-----------------------------------------------------------------------------
(* What the invariant says of the engine.                                  *)

\* The types of the session, the position and the signal (SymbolState, on_bar),
\* and that never more than _BAR_WINDOW bars are kept.
THEOREM EngineTypesHold == Spec => []TypeOK
  <1>1. IInv => TypeOK
    <2>1. SUFFICES ASSUME Typed PROVE TypeOK
      BY DEF IInv
    <2>2. /\ sym.updates \in Nat /\ sym.vol \in Nat /\ sym.intradayHigh \in Nat /\ sym.pv \in Int
          /\ sym.haltedResume \in BOOLEAN /\ sym.rank \in Ranks \cup {None}
      BY <2>1 DEF Typed, Sessions
    <2>3. Len(sym.bars) <= BarWindow
      BY <2>1 DEF Typed, Window
    <2>4. Holding => {sym.position.entry, sym.position.stop, sym.position.target,
                      sym.position.watermark} \subseteq Int
      BY <2>1, HeldTypes DEF Typed, Sessions, Holding
    <2>5. out.kind \in {"none", "entry", "failed", "scale", "exit"}
      BY <2>1 DEF Typed, Signals, Silent
    <2>6. QED
      BY <2>1, <2>2, <2>3, <2>4, <2>5 DEF TypeOK, Typed
  <1>2. QED
    BY <1>1, EngineInvariant, PTL

\* An entry on the close of its candle has a positive risk and a target twice
\* as far (evaluate_entry_gate, compute_stop, compute_target), for every
\* pullback the finder accepts and every history of bars.
THEOREM EntriesAreTradable == Spec => []EntryIsTradable
  <1>1. IInv => EntryIsTradable
    BY DEF IInv, EntryInv
  <1>2. QED
    BY <1>1, EngineInvariant, PTL

\* A position the engine still believes in closed its last bar above its stop,
\* wherever update_stop has moved it and however late (evaluate_exit, on_bar).
THEOREM StopStaysHonoured == Spec => []StopHonoured
  <1>1. IInv => StopHonoured
    <2>1. SUFFICES ASSUME IInv, Holding, Signal(sym.bars).ts > sym.position.entryTs
                   PROVE  Signal(sym.bars).c > sym.position.stop
      BY DEF StopHonoured
    <2>2. sym.position.entryTs \in Nat
      BY <2>1, HeldTypes DEF IInv, Typed, Sessions, Holding
    <2>3. QED
      BY <2>1, <2>2 DEF IInv, StopInv
  <1>2. QED
    BY <1>1, EngineInvariant, PTL

\* The watermark of a position has seen every close since its entry, those that
\* have left the window too (on_bar, update_stop).
THEOREM WatermarkStaysTrue == Spec => []WatermarkSeesEveryClose
  <1>1. ASSUME IInv PROVE WatermarkSeesEveryClose
    <2> DEFINE e == sym.position.entryTs
               since == {j \in DOMAIN sym.bars : sym.bars[j].ts > e}
               closes == {sym.bars[i].c : i \in since}
               seen == {sym.position.entry} \cup closes
    <2>1. SUFFICES ASSUME Holding
                   PROVE  /\ sym.position.watermark >= Max(seen)
                          /\ since # DOMAIN sym.bars => sym.position.watermark = Max(seen)
      BY DEF WatermarkSeesEveryClose
    <2>2. /\ sym.bars \in Seq(Candles) /\ Marked(sym.position, sym.bars)
          /\ sym.position.held /\ sym.position \in Positions
      BY <1>1, <2>1 DEF IInv, Typed, Sessions, MarkInv, Holding
    <2>3. sym.position.entry \in Int /\ e \in Nat /\ sym.position.watermark \in Int
      BY <2>2, HeldTypes
    <2>4. Len(sym.bars) \in Nat /\ DOMAIN sym.bars = 1 .. Len(sym.bars)
      BY <2>2, LenProperties
    <2>5. \A j \in DOMAIN sym.bars : sym.bars[j].c \in Int /\ sym.bars[j].ts \in Nat
      <3>1. \A j \in 1 .. Len(sym.bars) : sym.bars[j] \in Candles
        BY <2>2, ElementOfSeq
      <3>2. QED
        BY <2>4, <3>1 DEF Candles
    <2>6. IsFiniteSet(since)
      <3>1. IsFiniteSet(DOMAIN sym.bars)
        BY <2>4, FS_Interval
      <3>2. QED
        BY <3>1, FS_Subset
    <2>7. IsFiniteSet(closes)
      <3> DEFINE f == [i \in since |-> sym.bars[i].c]
      <3>1. closes = {f[i] : i \in since}
        OBVIOUS
      <3> HIDE DEF f, since
      <3>2. QED
        BY <2>6, <3>1, ImageFinite
    <2>8. closes \in SUBSET Int
      BY <2>5
    <2>9. \A y \in closes : sym.position.watermark >= y
      BY <2>2, <2>4 DEF Marked
    <2>10. since # DOMAIN sym.bars => sym.position.watermark \in seen
      <3>1. SUFFICES ASSUME NEW k \in DOMAIN sym.bars, k \notin since
                     PROVE  sym.position.watermark \in seen
        OBVIOUS
      <3>2. sym.bars[k].ts <= e
        BY <2>3, <2>5, <3>1
      <3>3. CASE sym.position.watermark = sym.position.entry
        BY <3>3
      <3>4. CASE sym.position.watermark # sym.position.entry
        <4>1. PICK j \in 1 .. Len(sym.bars) :
                 sym.bars[j].ts > e /\ sym.bars[j].c = sym.position.watermark
          BY <2>2, <2>4, <3>1, <3>2, <3>4 DEF Marked
        <4>2. QED
          BY <2>4, <4>1
      <3>5. QED
        BY <3>3, <3>4
    <2> HIDE DEF closes, since
    <2>11. IsFiniteSet(seen)
      <3>1. IsFiniteSet({sym.position.entry})
        BY FS_Singleton
      <3>2. QED
        BY <2>7, <3>1, FS_Union
    <2>12. seen \in SUBSET Int /\ seen # {}
      BY <2>3, <2>8
    <2>13. \A y \in seen : sym.position.watermark >= y
      BY <2>2, <2>9 DEF Marked
    <2> HIDE DEF seen
    <2>14. Max(seen) \in seen /\ sym.position.watermark >= Max(seen)
      BY <2>11, <2>12, <2>13, MaxFacts
    <2>15. sym.position.watermark \in seen => Max(seen) = sym.position.watermark
      BY <2>12, <2>13, MaxIs
    <2>16. QED
      BY <2>10, <2>14, <2>15
  <1>2. QED
    BY <1>1, EngineInvariant, PTL

\* The VWAP never lies above the session's high: what it averages is of this
\* session (indicators.py, reset_session).
THEOREM VwapStaysWithinSession == Spec => []VwapWithinSession
  <1>1. IInv => VwapWithinSession
    BY DEF IInv, VwapInv
  <1>2. QED
    BY <1>1, EngineInvariant, PTL
=============================================================================
