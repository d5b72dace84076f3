--------------------------- MODULE ComponentProofs ---------------------------
(***************************************************************************)
(* Proofs about the components beside the trading loops.                   *)
(***************************************************************************)
EXTENDS HaltTape, ConfigStore, LevelTwo, Scanner, News, Dashboard, Feed,
    FiniteFacts, TLAPS

-----------------------------------------------------------------------------
(* The market state's window.                                              *)

\* Pruning a longer record by one is taking the end of it.
LEMMA WindowOfLonger ==
  ASSUME NEW Days, NEW days \in Seq(Days), NEW day \in Days
  PROVE  /\ LastDays(<<>>) = <<>>
         /\ Pruned(Append(LastDays(days), day)) = LastDays(Append(days, day))
  <1> DEFINE n == Len(days)
             w == HotWindowDays
             longer == Append(days, day)
             cut == LastDays(days)
             start == IF n > w THEN n - w + 1 ELSE 1
             begin == IF n + 1 > w THEN n + 1 - w + 1 ELSE 1
  <1>1. n \in Nat /\ w \in Nat /\ w >= 1
    BY HaltTapeAssumption, LenProperties
  <1>0. LastDays(<<>>) = <<>>
    BY <1>1 DEF LastDays
  <1>2. /\ longer \in Seq(Days) /\ Len(longer) = n + 1
        /\ \A i \in 1 .. n : longer[i] = days[i]
        /\ longer[n + 1] = day
    BY AppendProperties
  <1>3. start \in 1 .. n + 1 /\ begin \in 1 .. n + 1
    BY <1>1
  <1>4. cut = SubSeq(days, start, n) /\ LastDays(longer) = SubSeq(longer, begin, n + 1)
    <2>1. cut = SubSeq(days, start, n)
      BY DEF LastDays
    <2>2. LastDays(longer) = SubSeq(longer, IF Len(longer) > w THEN Len(longer) - w + 1 ELSE 1,
                                    Len(longer))
      BY DEF LastDays
    <2>3. LastDays(longer) = SubSeq(longer, begin, n + 1)
      <3>1. Len(longer) = n + 1
        BY <1>2
      <3> HIDE DEF longer, n, w
      <3> QED BY <1>1, <2>2, <3>1
    <2>4. QED
      BY <2>1, <2>3
  <1>5. /\ cut \in Seq(Days) /\ Len(cut) = n - start + 1
        /\ \A i \in 1 .. n - start + 1 : cut[i] = days[start + i - 1]
    <2> HIDE DEF cut, start, n
    <2> QED BY <1>1, <1>3, <1>4 DEF n
  <1>6. /\ LastDays(longer) \in Seq(Days) /\ Len(LastDays(longer)) = n + 1 - begin + 1
        /\ \A i \in 1 .. n + 1 - begin + 1 : LastDays(longer)[i] = longer[begin + i - 1]
    <2> HIDE DEF begin, n, longer
    <2> QED BY <1>1, <1>2, <1>3, <1>4
  <1> DEFINE c == Append(cut, day)
  <1>7. /\ c \in Seq(Days) /\ Len(c) = n - start + 2
        /\ \A i \in 1 .. n - start + 1 : c[i] = days[start + i - 1]
        /\ c[n - start + 2] = day
    <2> HIDE DEF cut, start, n
    <2>1. n - start + 1 \in Nat
      BY <1>1, <1>3
    <2>2. /\ c \in Seq(Days) /\ Len(c) = Len(cut) + 1 /\ c[Len(cut) + 1] = day
          /\ \A i \in 1 .. Len(cut) : c[i] = cut[i]
      BY <1>5, AppendProperties
    <2>3. n - start + 1 + 1 = n - start + 2
      BY <1>1, <1>3
    <2> HIDE DEF c
    <2>4. QED
      BY <1>5, <2>1, <2>2, <2>3
  <1>8. CASE n >= w
    <2>1. start = n - w + 1 /\ begin = n - w + 2
      BY <1>1, <1>8
    <2>2. Pruned(c) = Tail(c)
      <3> HIDE DEF c, n, start
      <3> QED BY <1>1, <1>7, <2>1 DEF Pruned
    <2>3. Tail(c) = LastDays(longer)
      <3> HIDE DEF c, n, start, begin, longer
      <3>1. c # <<>>
        BY <1>1, <1>7, <2>1
      <3>2. /\ Tail(c) \in Seq(Days) /\ Len(Tail(c)) = w
            /\ \A i \in 1 .. w : Tail(c)[i] = c[i + 1]
        BY <1>1, <1>7, <2>1, <3>1
      <3>3. ASSUME NEW i \in 1 .. w PROVE Tail(c)[i] = LastDays(longer)[i]
        <4>0. i \in Int /\ 1 <= i /\ i <= w
          BY <1>1
        <4>1. LastDays(longer)[i] = longer[n - w + 1 + i]
          <5>1. n + 1 - begin + 1 = w /\ begin + i - 1 = n - w + 1 + i
            BY <1>1, <2>1, <4>0
          <5>2. LastDays(longer)[i] = longer[begin + i - 1]
            BY <1>6, <5>1
          <5>3. QED
            BY <5>1, <5>2
        <4>2. CASE i < w
          <5>0. n \in Int /\ w \in Int /\ n >= w
            BY <1>1, <1>8
          <5>1. n - w + 1 + i \in 1 .. n /\ i + 1 \in 1 .. n - start + 1
            <6>1. n - w + 1 + i \in 1 .. n
              BY <4>0, <4>2, <5>0
            <6>2. n - start + 1 = w
              BY <2>1, <5>0
            <6>3. i + 1 \in 1 .. w
              BY <4>0, <4>2, <5>0
            <6>4. QED
              BY <6>1, <6>2, <6>3
          <5>2. c[i + 1] = days[n - w + 1 + i]
            BY <1>1, <1>7, <2>1, <5>1
          <5>3. QED
            BY <1>2, <3>2, <4>1, <5>1, <5>2
        <4>3. CASE i = w
          <5>1. n - w + 1 + i = n + 1 /\ i + 1 = n - start + 2
            BY <1>1, <2>1, <4>3
          <5>2. QED
            BY <1>2, <1>7, <3>2, <4>1, <5>1
        <4>4. QED
          <5>1. i < w \/ i = w
            BY <1>1, <4>0
          <5>2. QED
            BY <4>2, <4>3, <5>1
      <3>4. Len(LastDays(longer)) = w
        BY <1>1, <1>6, <2>1
      <3>5. QED
        BY <1>6, <3>2, <3>3, <3>4, SeqEqual
    <2>4. QED
      BY <1>0, <2>2, <2>3
  <1>9. CASE n < w
    <2>1. start = 1 /\ begin = 1
      BY <1>1, <1>9
    <2>2. Pruned(c) = c
      <3> HIDE DEF c, n, start
      <3> QED BY <1>1, <1>7, <1>9, <2>1 DEF Pruned
    <2>3. c = LastDays(longer)
      <3> HIDE DEF c, n, start, begin, longer
      <3>3. \A i \in 1 .. n + 1 : c[i] = LastDays(longer)[i]
        BY <1>1, <1>2, <1>6, <1>7, <2>1
      <3>4. Len(LastDays(longer)) = n + 1 /\ Len(c) = n + 1
        BY <1>1, <1>6, <1>7, <2>1
      <3>5. QED
        BY <1>6, <1>7, <3>3, <3>4, SeqEqual
    <2>4. QED
      BY <1>0, <2>2, <2>3
  <1>10. QED
    BY <1>1, <1>8, <1>9

\* Every step of the tape keeps what was claimed of it.
LEMMA TapeNext == TapeInv /\ [HaltTapeNext]_haltVars => TapeInv'
  <1> SUFFICES ASSUME TapeInv, [HaltTapeNext]_haltVars PROVE TapeInv'
    OBVIOUS
  <1> USE DEF TapeInv
  <1>1. ASSUME UNCHANGED <<msWindow, msHistory, haltLast>> PROVE TapeInv'
    <2>1. PreHaltNeedsHotTape'
      BY <1>1 DEF PreHaltNeedsHotTape
    <2>2. QED
      BY <1>1, <2>1 DEF LastDays
  <1>2. CASE RecordSnapshot
    <2>1. PICK day \in DaySnapshots :
            /\ msWindow' = Pruned(Append(msWindow, day))
            /\ msHistory' = Append(msHistory, day)
            /\ haltLast' = haltLast
      BY <1>2 DEF RecordSnapshot
    <2>2. msHistory' \in Seq(DaySnapshots)
      BY <2>1, AppendProperties
    <2>3. msWindow' = LastDays(msHistory')
      BY <2>1, WindowOfLonger
    <2>4. PreHaltNeedsHotTape'
      BY <2>1 DEF PreHaltNeedsHotTape
    <2>5. QED
      BY <2>2, <2>3, <2>4 DEF LastDays
  <1>3. CASE Resumption
    <2>1. haltLast'.kind = "resumption" /\ UNCHANGED <<msWindow, msHistory>>
      BY <1>3 DEF Resumption
    <2>2. QED
      BY <2>1 DEF PreHaltNeedsHotTape, LastDays
  <1>4. CASE PreHalt
    <2>1. PICK mode \in HaltModes, price \in HaltPrices, vwap \in HaltPrices,
               distance \in BandDistances, buyer \in BOOLEAN :
            haltLast' = [decision |-> EvaluatePreHaltEntry(mode,
                                        [price |-> price, vwap |-> vwap, distance |-> distance,
                                         buyerOnBid |-> buyer], ProviderState),
                         kind |-> "pre_halt", history |-> msHistory, rehab |-> msRehab]
      BY <1>4 DEF PreHalt
    <2>2. UNCHANGED <<msWindow, msHistory>>
      BY <1>4 DEF PreHalt
    <2>3. haltLast'.decision = "ENTER" => ProviderState = "HOT"
      BY <2>1 DEF EvaluatePreHaltEntry
    <2>4. ProviderState = "HOT" => ~msRehab /\ ClassifyTape(ComputeFeatures(msWindow)) = "HOT"
      BY DEF ProviderState
    <2>5. haltLast'.history = msHistory /\ haltLast'.rehab = msRehab
      BY <2>1
    <2>6. PreHaltNeedsHotTape'
      BY <2>3, <2>4, <2>5 DEF PreHaltNeedsHotTape
    <2>7. QED
      BY <2>2, <2>6 DEF LastDays
  <1>5. CASE SetRehab \/ UNCHANGED haltVars
    BY <1>1, <1>5 DEF SetRehab, haltVars
  <1>6. QED
    BY <1>2, <1>3, <1>4, <1>5 DEF HaltTapeNext

\* Entries into a halt are taken on a hot tape only, for every window, every
\* record of days and whatever decisions came before.
THEOREM GapRiskNeedsHeat == HaltTapeSpec => []PreHaltNeedsHotTape
  <1>1. HaltTapeInit => TapeInv
    <2>1. LastDays(<<>>) = <<>> /\ <<>> \in Seq(DaySnapshots)
      BY HaltTapeAssumption DEF LastDays
    <2>2. QED
      BY <2>1 DEF HaltTapeInit, TapeInv, NoDecision, PreHaltNeedsHotTape
  <1>2. TapeInv => PreHaltNeedsHotTape
    BY DEF TapeInv
  <1>3. QED
    BY <1>1, <1>2, TapeNext, PTL DEF HaltTapeSpec

-----------------------------------------------------------------------------
(* The configuration table.                                                *)

\* Every migration, edit and deletion keeps what was tuned with its row.
LEMMA ConfigKept == ConfigInv /\ [ConfigNext]_cfgVars => ConfigInv'
  <1> SUFFICES ASSUME ConfigInv, [ConfigNext]_cfgVars PROVE ConfigInv'
    OBVIOUS
  <1> USE DEF ConfigInv, TuningSurvivesSeeding
  <1>1. CASE Upgrade
    BY <1>1 DEF Upgrade, Seeded
  <1>2. CASE Downgrade
    <2> DEFINE kept == IF cfgRevision = 1 THEN {} ELSE DOMAIN cfgRows \ DOMAIN ScannerDefaults
    <2>1. cfgRows' = Restricted(cfgRows, kept) /\ cfgTuned' = Restricted(cfgTuned, kept)
      BY <1>2 DEF Downgrade
    <2> HIDE DEF kept
    <2>2. QED
      BY <2>1 DEF Restricted
  <1>3. CASE LoadConfig \/ EndSession \/ UNCHANGED cfgVars
    BY <1>3 DEF LoadConfig, EndSession, cfgVars
  <1>4. CASE Tune
    <2>1. PICK key \in TunedKeys, text \in TunedTexts :
            /\ key \in DOMAIN cfgRows
            /\ cfgRows' = [cfgRows EXCEPT ![key] = [type |-> @.type, text |-> text]]
            /\ cfgTuned' = [k \in DOMAIN cfgTuned \cup {key} |->
                              IF k = key THEN text ELSE cfgTuned[k]]
      BY <1>4 DEF Tune, Edit
    <2>2. DOMAIN cfgRows' = DOMAIN cfgRows /\ cfgRows'[key].text = text
      BY <2>1
    <2>3. \A k \in DOMAIN cfgRows : k # key => cfgRows'[k] = cfgRows[k]
      BY <2>1
    <2>4. /\ DOMAIN cfgTuned' = DOMAIN cfgTuned \cup {key} /\ cfgTuned'[key] = text
          /\ \A k \in DOMAIN cfgTuned : k # key => cfgTuned'[k] = cfgTuned[k]
      BY <2>1
    <2>5. QED
      BY <2>1, <2>2, <2>3, <2>4
  <1>5. CASE DeleteRow
    <2>1. PICK key \in TunedKeys :
            cfgRows' = Without(cfgRows, key) /\ cfgTuned' = Without(cfgTuned, key)
      BY <1>5 DEF DeleteRow
    <2>2. QED
      BY <2>1 DEF Without, Restricted
  <1>6. QED
    BY <1>1, <1>2, <1>3, <1>4, <1>5 DEF ConfigNext

\* What operators tuned outlives the migrations, for any keys, any texts and
\* any number of edits, upgrades and downgrades.
THEOREM TuningStays == ConfigSpec => []TuningSurvivesSeeding
  <1>1. ConfigInit => ConfigInv
    BY DEF ConfigInit, ConfigInv, TuningSurvivesSeeding, NoRows
  <1>2. QED
    BY <1>1, ConfigKept, PTL DEF ConfigSpec, ConfigInv

-----------------------------------------------------------------------------
(* The level-2 window.                                                     *)

\* The newest members of a longer log are the newest of the newest and the one
\* that came.
LEMMA LatestGrows ==
  ASSUME NEW Elems, NEW log \in Seq(Elems), NEW x \in Elems, NEW k \in Nat \ {0}
  PROVE  Latest(Append(Latest(log, k), x), k) = Latest(Append(log, x), k)
  <1> DEFINE n == Len(log)
             cut == IF n > k THEN n - k ELSE 0
             longer == Append(log, x)
             newest == EndFrom(log, cut)
  <1>1. n \in Nat /\ cut \in 0 .. n /\ n - cut \in Nat
    BY LenProperties
  <1>2. longer \in Seq(Elems) /\ Len(longer) = n + 1
    BY AppendProperties
  <1>3. \A q \in Seq(Elems) : Latest(q, k) = EndFrom(q, IF Len(q) > k THEN Len(q) - k ELSE 0)
    <2> SUFFICES ASSUME NEW q \in Seq(Elems)
                 PROVE  Latest(q, k) = EndFrom(q, IF Len(q) > k THEN Len(q) - k ELSE 0)
      OBVIOUS
    <2>1. Len(q) \in Nat
      BY LenProperties
    <2>2. QED
      BY <2>1 DEF Latest, EndFrom
  <1>4. Latest(log, k) = newest
    BY <1>3
  <1>5. Append(newest, x) = EndFrom(longer, cut)
    <2>1. cut \in 0 .. Len(log)
      BY <1>1
    <2> HIDE DEF cut, n
    <2>2. QED
      BY <2>1, EndFromAppend
  <1>6. EndFrom(longer, cut) \in Seq(Elems) /\ Len(EndFrom(longer, cut)) = n + 1 - cut
    <2>1. \A q \in Seq(Elems) : \A j \in 0 .. Len(q) :
            EndFrom(q, j) \in Seq(Elems) /\ Len(EndFrom(q, j)) = Len(q) - j
      BY EndFromIs
    <2> HIDE DEF cut, n, longer
    <2>2. cut \in 0 .. Len(longer)
      BY <1>1, <1>2
    <2>3. EndFrom(longer, cut) \in Seq(Elems) /\ Len(EndFrom(longer, cut)) = Len(longer) - cut
      BY <1>2, <2>1, <2>2
    <2>4. QED
      BY <1>1, <1>2, <2>3
  <1> DEFINE more == IF n + 1 - cut > k THEN n + 1 - cut - k ELSE 0
  <1>7. Latest(EndFrom(longer, cut), k) = EndFrom(EndFrom(longer, cut), more)
    <2> DEFINE end == EndFrom(longer, cut)
    <2>1. Latest(end, k) = EndFrom(end, IF Len(end) > k THEN Len(end) - k ELSE 0)
      <3> HIDE DEF end
      <3> QED BY <1>3, <1>6 DEF end
    <2>2. Len(end) = n + 1 - cut
      BY <1>6
    <2> HIDE DEF cut, n, end
    <2>3. QED
      BY <1>1, <2>1, <2>2 DEF end
  <1>8. EndFrom(EndFrom(longer, cut), more) = EndFrom(longer, cut + more)
    <2>1. \A q \in Seq(Elems) : \A j \in 0 .. Len(q) : \A m \in 0 .. (Len(q) - j) :
            EndFrom(EndFrom(q, j), m) = EndFrom(q, j + m)
      BY EndFromEnd
    <2>2. more \in 0 .. (n + 1 - cut) /\ cut \in 0 .. (n + 1) /\ n + 1 - cut \in Nat
      <3> HIDE DEF n, cut
      <3> QED BY <1>1
    <2>3. cut \in 0 .. Len(longer) /\ more \in 0 .. (Len(longer) - cut)
      <3> HIDE DEF cut, n, longer, more
      <3> QED BY <1>1, <1>2, <2>2
    <2> HIDE DEF cut, n, longer, more
    <2>4. QED
      BY <1>2, <2>1, <2>3
  <1>9. cut + more = IF n + 1 > k THEN n + 1 - k ELSE 0
    <2> HIDE DEF n
    <2>1. CASE n > k
      BY <1>1, <2>1
    <2>2. CASE ~(n > k)
      BY <1>1, <2>2
    <2>3. QED
      BY <2>1, <2>2
  <1>10. Latest(longer, k) = EndFrom(longer, cut + more)
    <2> HIDE DEF longer, cut, more
    <2>1. Latest(longer, k) = EndFrom(longer, IF Len(longer) > k THEN Len(longer) - k ELSE 0)
      BY <1>2, <1>3
    <2>2. QED
      BY <1>1, <1>2, <1>9, <2>1
  <1>11. QED
    <2> HIDE DEF cut, more, newest
    <2> QED BY <1>4, <1>5, <1>7, <1>8, <1>10

\* The last of the newest members is the last of the log.
LEMMA LatestLast ==
  ASSUME NEW Elems, NEW log \in Seq(Elems), NEW k \in Nat \ {0}
  PROVE  /\ Latest(log, k) = <<>> <=> log = <<>>
         /\ log # <<>> => LastOne(Latest(log, k)) = LastOne(log)
         /\ Latest(<<>>, k) = <<>>
  <1> DEFINE n == Len(log)
             cut == IF n > k THEN n - k ELSE 0
             newest == EndFrom(log, cut)
  <1>1. n \in Nat /\ cut \in 0 .. n /\ (n > 0 => n - cut >= 1) /\ (n = 0 <=> log = <<>>)
    BY LenProperties, EmptySeq
  <1>2. Latest(log, k) = newest
    <2>1. Len(log) \in Nat
      BY LenProperties
    <2>2. QED
      BY <2>1 DEF Latest, EndFrom
  <1>3. /\ newest \in Seq(Elems) /\ Len(newest) = n - cut
        /\ \A i \in 1 .. (n - cut) : newest[i] = log[cut + i]
    <2>1. cut \in 0 .. Len(log)
      BY <1>1
    <2> HIDE DEF cut
    <2>2. QED
      BY <2>1, EndFromIs
  <1> HIDE DEF newest
  <1>4. newest = <<>> <=> n - cut = 0
    BY <1>1, <1>3, EmptySeq
  <1>5. n - cut = 0 <=> n = 0
    BY <1>1
  <1>6. ASSUME log # <<>> PROVE LastOne(newest) = LastOne(log)
    <2>1. n - cut \in 1 .. (n - cut) /\ cut + (n - cut) = n
      BY <1>1, <1>6
    <2> HIDE DEF cut, n
    <2>2. newest[n - cut] = log[n]
      BY <1>3, <2>1
    <2>3. QED
      BY <1>3, <2>2 DEF LastOne, n
  <1>7. Latest(<<>>, k) = <<>>
    BY DEF Latest
  <1>8. QED
    BY <1>1, <1>2, <1>4, <1>5, <1>6, <1>7

\* Of the end of an ordered record, eviction keeps what is young enough, if
\* what is not in that end is too old.
LEMMA EvictedIs ==
  ASSUME NEW prints \in Seq(PrintsTaken), InOrder(prints), NEW now \in Int,
         NEW n \in 0 .. Len(prints), \A i \in 1 .. n : prints[i].ts < now - Window
  PROVE  \E k \in n .. Len(prints) :
            /\ Evicted(EndFrom(prints, n), now) = EndFrom(prints, k)
            /\ \A i \in DOMAIN prints : i > k <=> prints[i].ts >= now - Window
  <1> DEFINE m == Len(prints)
             tape == EndFrom(prints, n)
             kept == {i \in DOMAIN tape : tape[i].ts >= now - Window}
             old == now - Window
  <1>1. m \in Nat /\ n \in Nat /\ n <= m /\ DOMAIN prints = 1 .. m /\ old \in Int
    BY LevelTwoAssumption, LenProperties
  <1>2. /\ tape \in Seq(PrintsTaken) /\ Len(tape) = m - n
        /\ \A i \in 1 .. (m - n) : tape[i] = prints[n + i]
    BY EndFromIs
  <1>3. DOMAIN tape = 1 .. (m - n)
    <2> HIDE DEF tape, m
    <2> QED BY <1>1, <1>2, LenProperties
  <1>4. \A i \in 1 .. m : prints[i].ts \in Int
    <2>1. \A i \in 1 .. m : prints[i] \in PrintsTaken
      BY <1>1, ElementOfSeq
    <2>2. QED
      BY <2>1 DEF PrintsTaken
  <1>5. Evicted(tape, now) = IF kept = {} THEN <<>> ELSE SubSeq(tape, Min(kept), Len(tape))
    BY DEF Evicted
  <1>6. \A i \in 1 .. (m - n) : i \in kept <=> prints[n + i].ts >= old
    <2> HIDE DEF tape, m
    <2> QED BY <1>2, <1>3
  <1>7. kept \in SUBSET (1 .. (m - n))
    <2> HIDE DEF tape, m
    <2> QED BY <1>3
  <1> HIDE DEF kept
  <1>8. CASE kept = {}
    <2>1. EndFrom(prints, m) = <<>>
      <3>1. \A q \in Seq(PrintsTaken) : \A j \in 0 .. Len(q) :
              EndFrom(q, j) \in Seq(PrintsTaken) /\ Len(EndFrom(q, j)) = Len(q) - j
        BY EndFromIs
      <3>2. EndFrom(prints, m) \in Seq(PrintsTaken) /\ Len(EndFrom(prints, m)) = 0
        BY <1>1, <3>1
      <3>3. QED
        BY <3>2, EmptySeq
    <2>2. ASSUME NEW i \in 1 .. m PROVE ~(prints[i].ts >= old)
      <3>1. CASE i <= n
        <4>1. prints[i].ts < old
          BY <1>1, <3>1
        <4>2. QED
          BY <1>1, <1>4, <4>1
      <3>2. CASE i > n
        <4>1. i - n \in 1 .. (m - n) /\ n + (i - n) = i
          BY <1>1, <3>2
        <4>2. QED
          BY <1>6, <1>8, <4>1
      <3>3. QED
        BY <1>1, <3>1, <3>2
    <2>3. m \in n .. m /\ \A i \in 1 .. m : ~(i > m)
      BY <1>1
    <2>4. Evicted(tape, now) = EndFrom(prints, m)
      BY <1>5, <1>8, <2>1
    <2>5. QED
      BY <1>1, <2>2, <2>3, <2>4
  <1>9. CASE kept # {}
    <2> DEFINE first == Min(kept)
               k == n + first - 1
    <2>1. first \in kept /\ \A j \in kept : first <= j
      <3>1. kept \in SUBSET Int /\ IsFiniteSet(kept)
        <4>1. IsFiniteSet(1 .. (m - n))
          BY <1>1, FS_Interval
        <4>2. IsFiniteSet(kept)
          BY <1>7, <4>1, FS_Subset
        <4>3. kept \in SUBSET Int
          <5> HIDE DEF m
          <5> QED BY <1>1, <1>7
        <4>4. QED
          BY <4>2, <4>3
      <3>2. QED
        BY <1>9, <3>1, MinFacts
    <2>2. first \in 1 .. (m - n)
      BY <1>7, <2>1
    <2> HIDE DEF first
    <2>3. first \in Int /\ 1 <= first /\ first <= m - n
      BY <1>1, <2>2
    <2>4. k \in n .. m /\ first - 1 \in 0 .. (m - n) /\ n + (first - 1) = k
      BY <1>1, <2>3
    <2>5. SubSeq(tape, first, Len(tape)) = EndFrom(tape, first - 1)
      BY <2>3 DEF EndFrom
    <2>6. EndFrom(tape, first - 1) = EndFrom(prints, k)
      <3>1. \A j \in 0 .. (Len(prints) - n) :
              EndFrom(EndFrom(prints, n), j) = EndFrom(prints, n + j)
        BY EndFromEnd
      <3>2. EndFrom(tape, first - 1) = EndFrom(prints, n + (first - 1))
        BY <2>4, <3>1
      <3>3. QED
        BY <2>4, <3>2
    <2>7. Evicted(tape, now) = EndFrom(prints, k)
      <3> HIDE DEF tape, k
      <3> QED BY <1>5, <1>9, <2>5, <2>6 DEF first
    <2>8. ASSUME NEW i \in 1 .. m PROVE i > k <=> prints[i].ts >= old
      <3>1. CASE i <= n
        <4>1. prints[i].ts < old
          BY <1>1, <3>1
        <4>2. ~(i > k)
          BY <1>1, <2>3, <3>1
        <4>3. QED
          BY <1>1, <1>4, <4>1, <4>2
      <3>2. CASE i > n /\ i <= k
        <4>1. i - n \in 1 .. (m - n) /\ n + (i - n) = i /\ i - n < first
          BY <1>1, <2>3, <3>2
        <4>2. i - n \notin kept
          BY <2>1, <2>3, <4>1
        <4>3. ~(prints[i].ts >= old)
          BY <1>6, <4>1, <4>2
        <4>4. ~(i > k)
          BY <1>1, <2>3, <3>2
        <4>5. QED
          BY <4>3, <4>4
      <3>3. CASE i > k
        <4>1. prints[n + first].ts >= old
          BY <1>6, <2>1, <2>2
        <4>2. n + first \in 1 .. m /\ n + first <= i
          BY <1>1, <2>3, <3>3
        <4>3. prints[n + first].ts <= prints[i].ts
          BY <1>1, <4>2 DEF InOrder
        <4>4. QED
          BY <1>1, <1>4, <3>3, <4>1, <4>2, <4>3
      <3>4. QED
        BY <1>1, <2>4, <3>1, <3>2, <3>3
    <2> HIDE DEF k
    <2>9. QED
      BY <1>1, <2>4, <2>7, <2>8
  <1>10. QED
    BY <1>8, <1>9

\* A later member keeps a log in order.
LEMMA OrderKept ==
  ASSUME NEW Elems, NEW log \in Seq(Elems), \A i \in 1 .. Len(log) : log[i].ts \in Nat, InOrder(log),
         NEW x \in Elems, x.ts \in NextTimes(log)
  PROVE  /\ InOrder(Append(log, x)) /\ x.ts \in Nat
         /\ LastOne(Append(log, x)) = x
         /\ log # <<>> => LastOne(log).ts \in Nat /\ LastOne(log).ts <= x.ts
  <1> DEFINE m == Len(log)
             longer == Append(log, x)
  <1>1. m \in Nat /\ DOMAIN log = 1 .. m /\ (m = 0 <=> log = <<>>)
    BY LenProperties, EmptySeq
  <1>2. /\ longer \in Seq(Elems) /\ Len(longer) = m + 1 /\ DOMAIN longer = 1 .. (m + 1)
        /\ \A i \in 1 .. m : longer[i] = log[i]
        /\ longer[m + 1] = x
    BY AppendProperties, LenProperties
  <1>3. x.ts \in Nat /\ (log # <<>> => LastOne(log).ts \in Nat /\ LastOne(log).ts <= x.ts)
    <2>1. CASE log = <<>>
      BY <2>1, LevelTwoAssumption DEF NextTimes
    <2>2. CASE log # <<>>
      <3>1. log[m].ts \in Nat
        BY <1>1, <2>2
      <3>2. PICK d \in Delays : x.ts = log[m].ts + d
        BY <2>2 DEF NextTimes, LastOne
      <3>3. d \in Nat
        BY <3>2, LevelTwoAssumption
      <3>4. QED
        BY <3>1, <3>2, <3>3 DEF LastOne
    <2>3. QED
      BY <2>1, <2>2
  <1>4. ASSUME NEW i \in 1 .. m PROVE log[i].ts <= x.ts
    <2>1. i <= m /\ m \in 1 .. m /\ log # <<>>
      BY <1>1
    <2>2. log[i].ts <= log[m].ts
      BY <1>1, <2>1 DEF InOrder
    <2>3. log[m].ts <= x.ts
      BY <1>3, <2>1 DEF LastOne
    <2>4. log[i].ts \in Nat /\ log[m].ts \in Nat
      BY <2>1
    <2>5. QED
      BY <1>3, <2>2, <2>3, <2>4
  <1>5. InOrder(longer)
    <2>1. SUFFICES ASSUME NEW i \in 1 .. (m + 1), NEW j \in 1 .. (m + 1), i <= j
                   PROVE  longer[i].ts <= longer[j].ts
      BY <1>2 DEF InOrder
    <2>2. CASE j = m + 1
      <3>1. CASE i = m + 1
        BY <1>2, <1>3, <2>2, <3>1
      <3>2. CASE i # m + 1
        <4>1. i \in 1 .. m
          BY <1>1, <3>2
        <4>2. QED
          BY <1>2, <1>4, <2>2, <4>1
      <3>3. QED
        BY <3>1, <3>2
    <2>3. CASE j # m + 1
      <3>1. i \in 1 .. m /\ j \in 1 .. m
        BY <1>1, <2>1, <2>3
      <3>2. QED
        BY <1>1, <1>2, <2>1, <3>1 DEF InOrder
    <2>4. QED
      BY <2>2, <2>3
  <1>6. LastOne(longer) = x
    BY <1>2 DEF LastOne
  <1>7. QED
    BY <1>3, <1>5, <1>6

\* Every tick, answer and reset keeps both windows.
LEMMA WindowNext == WindowInv /\ [LevelTwoNext]_l2Vars => WindowInv'
  <1> SUFFICES ASSUME WindowInv, [LevelTwoNext]_l2Vars PROVE WindowInv'
    OBVIOUS
  <1>1. PICK n \in 0 .. Len(l2Prints) : TooOld(n)
    BY DEF WindowInv
  <1>2. /\ l2Depths \in Seq(SnapsTaken) /\ InOrder(l2Depths)
        /\ l2Prints \in Seq(PrintsTaken) /\ InOrder(l2Prints)
        /\ l2Book = Latest(l2Depths, Snapshots)
    BY DEF WindowInv
  <1>3. /\ \A i \in 1 .. Len(l2Prints) : l2Prints[i].ts \in Nat
        /\ \A i \in 1 .. Len(l2Depths) : l2Depths[i].ts \in Nat
    <2>1. /\ \A i \in 1 .. Len(l2Prints) : l2Prints[i] \in PrintsTaken
          /\ \A i \in 1 .. Len(l2Depths) : l2Depths[i] \in SnapsTaken
      BY <1>2, ElementOfSeq
    <2>2. QED
      BY <2>1 DEF PrintsTaken, SnapsTaken
  <1>4. Snapshots \in Nat \ {0} /\ Window \in Nat
    BY LevelTwoAssumption
  <1>5. Len(l2Prints) \in Nat /\ n \in Nat
    BY <1>2, LenProperties
  <1>6. l2Tape = EndFrom(l2Prints, n)
    BY <1>1 DEF TooOld, EndFrom
  <1>7. ASSUME UNCHANGED <<l2Book, l2Tape, l2Depths, l2Prints>> PROVE WindowInv'
    BY <1>7 DEF WindowInv, TooOld
  <1>8. CASE OnDepth
    <2>1. PICK tick \in DepthTicks, t \in NextTimes(l2Depths) :
            IF tick.bids /\ tick.asks
            THEN LET snap == [ts |-> t, bidSize |-> tick.bidSize, ask |-> tick.ask,
                              askSize |-> tick.askSize]
                 IN  /\ l2Book' = Latest(Append(l2Book, snap), Snapshots)
                     /\ l2Depths' = Append(l2Depths, snap)
            ELSE UNCHANGED <<l2Book, l2Depths>>
      BY <1>8 DEF OnDepth
    <2>2. UNCHANGED <<l2Tape, l2Prints>>
      BY <1>8 DEF OnDepth
    <2>3. CASE tick.bids /\ tick.asks
      <3> DEFINE snap == [ts |-> t, bidSize |-> tick.bidSize, ask |-> tick.ask,
                          askSize |-> tick.askSize]
      <3>1. l2Book' = Latest(Append(l2Book, snap), Snapshots) /\ l2Depths' = Append(l2Depths, snap)
        BY <2>1, <2>3
      <3>2. snap.ts = t /\ t \in Nat
        <4>1. t \in Nat
          <5>1. CASE l2Depths = <<>>
            BY <5>1, LevelTwoAssumption DEF NextTimes
          <5>2. CASE l2Depths # <<>>
            <6>1. PICK d \in Delays : t = l2Depths[Len(l2Depths)].ts + d
              BY <5>2 DEF NextTimes, LastOne
            <6>2. Len(l2Depths) \in 1 .. Len(l2Depths)
              BY <1>2, <5>2, LenProperties, EmptySeq
            <6>3. QED
              BY <1>3, <6>1, <6>2, LevelTwoAssumption
          <5>3. QED
            BY <5>1, <5>2
        <4>2. QED
          BY <4>1
      <3>3. snap \in SnapsTaken
        BY <3>2 DEF SnapsTaken
      <3> HIDE DEF snap
      <3>4. /\ InOrder(Append(l2Depths, snap))
            /\ LastOne(Append(l2Depths, snap)) = snap
            /\ l2Depths # <<>> => LastOne(l2Depths).ts \in Nat /\ LastOne(l2Depths).ts <= snap.ts
        BY <1>2, <1>3, <3>2, <3>3, OrderKept
      <3>5. l2Depths' \in Seq(SnapsTaken) /\ l2Depths' # <<>>
        BY <1>2, <3>1, <3>3, AppendProperties
      <3>6. l2Book' = Latest(l2Depths', Snapshots)
        BY <1>2, <1>4, <3>1, <3>3, LatestGrows
      <3>7. TooOld(n)'
        <4>1. ASSUME NEW i \in 1 .. n PROVE l2Prints[i].ts < snap.ts - Window
          <5>1. l2Depths # <<>> /\ i \in 1 .. Len(l2Prints)
            BY <1>1, <1>5 DEF TooOld
          <5>2. l2Prints[i].ts < LastOne(l2Depths).ts - Window
            BY <1>1 DEF TooOld
          <5>3. l2Prints[i].ts \in Nat
            BY <1>3, <5>1
          <5>4. QED
            BY <1>4, <3>2, <3>4, <5>1, <5>2, <5>3
        <4>2. QED
          BY <1>1, <2>2, <3>1, <3>4, <3>5, <4>1 DEF TooOld
      <3>8. n \in 0 .. Len(l2Prints')
        BY <2>2
      <3>9. InOrder(l2Depths)' /\ InOrder(l2Prints)' /\ l2Prints' \in Seq(PrintsTaken)
        BY <1>2, <2>2, <3>1, <3>4 DEF InOrder
      <3>10. QED
        BY <3>5, <3>6, <3>7, <3>8, <3>9 DEF WindowInv
    <2>4. CASE ~(tick.bids /\ tick.asks)
      BY <1>7, <2>1, <2>2, <2>4
    <2>5. QED
      BY <2>3, <2>4
  <1>9. CASE OnTapePrint
    <2>1. PICK tick \in TapeTicks, t \in NextTimes(l2Prints) :
            LET print == [ts |-> t, price |-> tick.price, size |-> tick.size]
            IN  l2Tape' = Append(l2Tape, print) /\ l2Prints' = Append(l2Prints, print)
      BY <1>9 DEF OnTapePrint
    <2>2. UNCHANGED <<l2Book, l2Depths>>
      BY <1>9 DEF OnTapePrint
    <2> DEFINE print == [ts |-> t, price |-> tick.price, size |-> tick.size]
    <2>3. l2Tape' = Append(l2Tape, print) /\ l2Prints' = Append(l2Prints, print)
      BY <2>1
    <2>4. print.ts = t /\ t \in Nat
      <3>1. t \in Nat
        <4>1. CASE l2Prints = <<>>
          BY <4>1, LevelTwoAssumption DEF NextTimes
        <4>2. CASE l2Prints # <<>>
          <5>1. PICK d \in Delays : t = l2Prints[Len(l2Prints)].ts + d
            BY <4>2 DEF NextTimes, LastOne
          <5>2. Len(l2Prints) \in 1 .. Len(l2Prints)
            BY <1>2, <4>2, LenProperties, EmptySeq
          <5>3. QED
            BY <1>3, <5>1, <5>2, LevelTwoAssumption
        <4>3. QED
          BY <4>1, <4>2
      <3>2. QED
        BY <3>1
    <2>5. print \in PrintsTaken
      BY <2>4 DEF PrintsTaken
    <2> HIDE DEF print
    <2>6. InOrder(Append(l2Prints, print))
      BY <1>2, <1>3, <2>4, <2>5, OrderKept
    <2>7. /\ l2Prints' \in Seq(PrintsTaken) /\ Len(l2Prints') = Len(l2Prints) + 1
          /\ \A i \in 1 .. Len(l2Prints) : l2Prints'[i] = l2Prints[i]
      BY <1>2, <2>3, <2>5, AppendProperties
    <2>8. l2Tape' = EndFrom(l2Prints', n) /\ n \in 0 .. Len(l2Prints')
      BY <1>2, <1>6, <2>3, <2>5, EndFromAppend
    <2>9. TooOld(n)'
      <3>1. ASSUME NEW i \in 1 .. n PROVE l2Prints'[i].ts < LastOne(l2Depths).ts - Window
        <4>1. i \in 1 .. Len(l2Prints)
          BY <1>5
        <4>2. QED
          BY <1>1, <2>7, <4>1 DEF TooOld
      <3>2. QED
        BY <1>1, <2>2, <2>8, <3>1 DEF TooOld, EndFrom
    <2>10. InOrder(l2Prints)' /\ InOrder(l2Depths)'
      BY <1>2, <2>2, <2>3, <2>6 DEF InOrder
    <2>11. l2Book' = Latest(l2Depths', Snapshots) /\ l2Depths' \in Seq(SnapsTaken)
      BY <1>2, <2>2
    <2>12. QED
      BY <2>7, <2>8, <2>9, <2>10, <2>11 DEF WindowInv
  <1>10. CASE Evaluate
    <2>1. UNCHANGED <<l2Book, l2Depths, l2Prints>>
      BY <1>10 DEF Evaluate
    <2>2. CASE l2Prints = <<>> \/ l2Book = <<>>
      BY <1>7, <1>10, <2>1, <2>2 DEF Evaluate
    <2>3. CASE l2Prints # <<>> /\ l2Book # <<>>
      <3> DEFINE now == LastOne(l2Book).ts
      <3>1. l2Tape' = Evicted(l2Tape, now)
        BY <1>10, <2>3 DEF Evaluate
      <3>2. l2Depths # <<>> /\ LastOne(l2Book) = LastOne(l2Depths)
        BY <1>2, <1>4, <2>3, LatestLast
      <3>3. now \in Nat
        <4>1. Len(l2Depths) \in 1 .. Len(l2Depths)
          BY <1>2, <3>2, LenProperties, EmptySeq
        <4>2. QED
          BY <1>3, <3>2, <4>1 DEF LastOne
      <3>4. now = LastOne(l2Depths).ts
        BY <3>2
      <3> HIDE DEF now
      <3>5. \A i \in 1 .. n : l2Prints[i].ts < now - Window
        BY <1>1, <3>4 DEF TooOld
      <3>6. PICK k \in n .. Len(l2Prints) :
              /\ Evicted(EndFrom(l2Prints, n), now) = EndFrom(l2Prints, k)
              /\ \A i \in DOMAIN l2Prints : i > k <=> l2Prints[i].ts >= now - Window
        BY <1>2, <3>3, <3>5, EvictedIs
      <3>7. k \in 0 .. Len(l2Prints) /\ k \in Nat
        BY <1>5
      <3>8. l2Tape' = EndFrom(l2Prints, k)
        BY <1>6, <3>1, <3>6
      <3>9. ASSUME NEW i \in 1 .. k PROVE l2Prints[i].ts < now - Window
        <4>1. i \in DOMAIN l2Prints /\ i \in 1 .. Len(l2Prints) /\ ~(i > k)
          BY <1>2, <1>5, <3>7, LenProperties
        <4>2. ~(l2Prints[i].ts >= now - Window)
          BY <3>6, <4>1
        <4>3. QED
          BY <1>3, <1>4, <3>3, <4>1, <4>2
      <3>10. TooOld(k)'
        BY <2>1, <3>2, <3>4, <3>8, <3>9 DEF TooOld, EndFrom
      <3>11. QED
        BY <1>2, <2>1, <3>7, <3>10 DEF WindowInv, InOrder
    <2>4. QED
      BY <2>2, <2>3
  <1>11. CASE ResetSymbol
    <2>1. l2Book' = <<>> /\ l2Tape' = <<>> /\ l2Depths' = <<>> /\ l2Prints' = <<>>
      BY <1>11 DEF ResetSymbol
    <2>2. Latest(<<>>, Snapshots) = <<>>
      BY <1>2, <1>4, LatestLast
    <2>3. TooOld(0)'
      BY <2>1 DEF TooOld
    <2>4. QED
      BY <2>1, <2>2, <2>3 DEF WindowInv, InOrder
  <1>12. CASE UNCHANGED l2Vars
    BY <1>7, <1>12 DEF l2Vars
  <1>13. QED
    BY <1>8, <1>9, <1>10, <1>11, <1>12 DEF LevelTwoNext

\* What a step preserves says that the windows are complete.
LEMMA WindowHolds == WindowInv => WindowIsComplete
  <1> SUFFICES ASSUME WindowInv, l2Book # <<>>
               PROVE  \E k \in 0 .. Len(l2Prints) :
                        /\ Evicted(l2Tape, LastOne(l2Book).ts)
                             = SubSeq(l2Prints, k + 1, Len(l2Prints))
                        /\ \A i \in DOMAIN l2Prints :
                              i > k <=> l2Prints[i].ts >= LastOne(l2Book).ts - Window
    BY DEF WindowInv, WindowIsComplete
  <1> DEFINE now == LastOne(l2Book).ts
  <1>1. PICK n \in 0 .. Len(l2Prints) : TooOld(n)
    BY DEF WindowInv
  <1>2. /\ l2Depths \in Seq(SnapsTaken) /\ l2Prints \in Seq(PrintsTaken) /\ InOrder(l2Prints)
        /\ l2Book = Latest(l2Depths, Snapshots)
    BY DEF WindowInv
  <1>3. l2Depths # <<>> /\ LastOne(l2Book) = LastOne(l2Depths)
    BY <1>2, LevelTwoAssumption, LatestLast
  <1>4. now \in Nat
    <2>1. Len(l2Depths) \in 1 .. Len(l2Depths)
      BY <1>2, <1>3, LenProperties, EmptySeq
    <2>2. l2Depths[Len(l2Depths)] \in SnapsTaken
      BY <1>2, <2>1, ElementOfSeq
    <2>3. QED
      BY <1>3, <2>2 DEF SnapsTaken, LastOne
  <1>5. \A i \in 1 .. n : l2Prints[i].ts < now - Window
    BY <1>1, <1>3 DEF TooOld
  <1>6. l2Tape = EndFrom(l2Prints, n)
    BY <1>1 DEF TooOld, EndFrom
  <1> HIDE DEF now
  <1>7. \E k \in n .. Len(l2Prints) :
          /\ Evicted(EndFrom(l2Prints, n), now) = EndFrom(l2Prints, k)
          /\ \A i \in DOMAIN l2Prints : i > k <=> l2Prints[i].ts >= now - Window
    <2>1. l2Prints \in Seq(PrintsTaken) /\ InOrder(l2Prints) /\ n \in 0 .. Len(l2Prints)
      BY <1>2
    <2>2. QED
      BY <1>4, <1>5, <2>1, EvictedIs
  <1>8. PICK k \in n .. Len(l2Prints) :
          /\ Evicted(EndFrom(l2Prints, n), now) = EndFrom(l2Prints, k)
          /\ \A i \in DOMAIN l2Prints : i > k <=> l2Prints[i].ts >= now - Window
    BY <1>7, Zenon
  <1>9. k \in 0 .. Len(l2Prints)
    BY <1>2, LenProperties
  <1>10. QED
    BY <1>6, <1>8, <1>9 DEF now, EndFrom

\* The detectors never look at less, or at more, than the newest books and the
\* prints of the window, for any ticks in any interleaving of the two streams.
THEOREM WindowsStayComplete == LevelTwoSpec => []WindowIsComplete
  <1>1. LevelTwoInit => WindowInv
    <2> SUFFICES ASSUME LevelTwoInit PROVE WindowInv
      OBVIOUS
    <2>1. l2Book = <<>> /\ l2Tape = <<>> /\ l2Depths = <<>> /\ l2Prints = <<>>
      BY DEF LevelTwoInit
    <2>2. Latest(<<>>, Snapshots) = <<>>
      BY DEF Latest
    <2>3. TooOld(0)
      BY <2>1 DEF TooOld
    <2>4. QED
      BY <2>1, <2>2, <2>3 DEF WindowInv, InOrder
  <1>2. QED
    BY <1>1, WindowNext, WindowHolds, PTL DEF LevelTwoSpec

-----------------------------------------------------------------------------
(* The scanner.                                                            *)

\* A baseline is a number of shares over a number of days.
LEMMA BaselineTyped ==
  ASSUME NEW volumes \in Histories
  PROVE  RollingBaseline(volumes).total \in Nat /\ RollingBaseline(volumes).days \in Nat
  <1> DEFINE usable == {i \in DOMAIN volumes : i > Len(volumes) - BaselineDays /\ volumes[i] >= 0}
  <1>1. volumes \in Seq(Int)
    BY ScannerAssumption
  <1>2. DOMAIN volumes = 1 .. Len(volumes) /\ Len(volumes) \in Nat
    BY <1>1, LenProperties
  <1>3. \A i \in DOMAIN volumes : volumes[i] \in Int
    BY <1>1, <1>2, ElementOfSeq
  <1>4. IsFiniteSet(usable)
    <2>1. IsFiniteSet(1 .. Len(volumes))
      BY <1>2, FS_Interval
    <2>2. usable \in SUBSET (1 .. Len(volumes))
      BY <1>2
    <2> HIDE DEF usable
    <2>3. QED
      BY <2>1, <2>2, FS_Subset
  <1>5. \A i \in usable : volumes[i] \in Nat
    BY <1>3
  <1>6. RollingBaseline(volumes) = [total |-> SumFunctionOnSet(volumes, usable),
                                    days |-> Cardinality(usable)]
    BY DEF RollingBaseline
  <1> HIDE DEF usable
  <1>7. SumFunctionOnSet(volumes, usable) \in Nat
    BY <1>4, <1>5, SumSetIs, SumNatural
  <1>8. Cardinality(usable) \in Nat
    BY <1>4, FS_CardinalityType
  <1>9. QED
    BY <1>6, <1>7, <1>8

\* No source of the free float that has a value is above the float a symbol is
\* given, if it is known well enough to be traded.
LEMMA FloatCovers ==
  ASSUME NEW sources, IsFiniteSet(sources), \A c \in sources : c.shares \in Int,
         ResolveFloat(sources).confidence \in {"high", "medium"}
  PROVE  /\ ResolveFloat(sources).shares \in Int
         /\ \A c \in sources : c.free => c.shares <= ResolveFloat(sources).shares \/ c.shares <= 0
  <1> DEFINE valid     == {c \in sources : c.shares > 0}
             free      == {c \in valid : c.free}
             sharesOut == valid \ free
             primary   == IF free # {} THEN free ELSE sharesOut
             chosen    == Max(Shares(primary))
  <1>1. valid # {} /\ ResolveFloat(sources).shares = chosen
    BY DEF ResolveFloat
  <1>2. primary # {} /\ primary \in SUBSET sources
    BY <1>1
  <1>3. IsFiniteSet(Shares(primary)) /\ Shares(primary) \in SUBSET Int /\ Shares(primary) # {}
    <2> HIDE DEF primary
    <2>1. IsFiniteSet(primary)
      BY <1>2, FS_Subset
    <2> DEFINE value == [c \in primary |-> c.shares]
    <2>2. Shares(primary) = {value[c] : c \in primary}
      BY DEF Shares
    <2>3. IsFiniteSet({value[c] : c \in primary})
      <3> HIDE DEF value
      <3> QED BY <2>1, ImageFinite
    <2>4. QED
      BY <1>2, <2>2, <2>3 DEF Shares
  <1>4. chosen \in Shares(primary) /\ \A n \in Shares(primary) : chosen >= n
    <2> HIDE DEF primary
    <2> QED BY <1>3, MaxFacts
  <1>5. ASSUME NEW c \in sources, c.free, c.shares > 0 PROVE c.shares <= chosen
    <2>1. c \in primary
      BY <1>5
    <2> HIDE DEF primary
    <2>2. c.shares \in Shares(primary)
      BY <2>1 DEF Shares
    <2>3. QED
      BY <1>3, <1>4, <2>2
  <1>6. chosen \in Int
    <2> HIDE DEF primary
    <2> QED BY <1>3, <1>4
  <1> HIDE DEF chosen
  <1>7. QED
    BY <1>1, <1>5, <1>6

\* A symbol that passes every gate is in the wide net, too.
LEMMA PillarsInTheNet ==
  ASSUME NEW cand, Pillars(cand), {cand.quote.price, cand.quote.change, cand.quote.gap} \subseteq Int,
         cand.float.shares \in Int, cand.rvol.num \in Int, cand.rvol.den \in Nat
  PROVE  TierA(cand)
  <1> USE TiersNest
  <1>1. cand.quote.price \in Default("TIER_A_PRICE_MIN") .. Default("TIER_A_PRICE_MAX")
    BY DEF Pillars
  <1>2. Max({cand.quote.gap, cand.quote.change}) >= Default("TIER_A_GAP_MIN")
    <2>1. Max({cand.quote.gap, cand.quote.change})
            = IF cand.quote.gap >= cand.quote.change THEN cand.quote.gap ELSE cand.quote.change
      BY MaxOfTwo
    <2>2. cand.quote.change >= Default("ROC_MIN")
      BY DEF Pillars
    <2>3. QED
      BY <2>1, <2>2
  <1>3. AtLeast(cand.rvol, Default("TIER_A_RVOL_MIN"))
    <2>1. Known(cand.rvol) /\ 100 * cand.rvol.num >= Default("RVOL_MIN") * cand.rvol.den
      BY DEF Pillars, AtLeast
    <2>2. Default("RVOL_MIN") * cand.rvol.den >= Default("TIER_A_RVOL_MIN") * cand.rvol.den
      <3>1. \A a, b, d \in Nat : a <= b => b * d >= a * d
        OBVIOUS
      <3>2. QED
        BY <3>1
    <2>3. QED
      <3>1. PICK x, y, z \in Int : /\ x = 100 * cand.rvol.num
                                   /\ y = Default("RVOL_MIN") * cand.rvol.den
                                   /\ z = Default("TIER_A_RVOL_MIN") * cand.rvol.den
        OBVIOUS
      <3>2. QED
        BY <2>1, <2>2, <3>1 DEF AtLeast
  <1>4. KnownFloat(cand.float) => cand.float.shares <= Ceiling("TIER_A_FLOAT_CEILING")
    BY DEF Pillars
  <1>5. QED
    BY <1>1, <1>2, <1>3, <1>4 DEF TierA

\* What the catalyst's sources have for a symbol that may be traded.
CatalystHeld(case) ==
  /\ case.model.tag = "accepted" /\ case.model.confidence >= Threshold70
  /\ case.headlines # NoHeadlines /\ \A h \in case.headlines : ~h.blocks
  /\ case.secAnswers =>
        \A f \in case.filings : f.form = "dilution" => f.age \notin 0 .. FilingLookback

\* A verified catalyst has been past every layer.
LEMMA VerifiedPassed ==
  ASSUME NEW reaction, NEW case, ClassifyCatalyst(reaction, case) = "VERIFIED"
  PROVE  CatalystHeld(case)
  <1>1. ~HasRecentFiling(case, "dilution")
    BY DEF ClassifyCatalyst
  <1>2. case.headlines # NoHeadlines /\ ~(\E h \in case.headlines : h.blocks)
    BY DEF ClassifyCatalyst
  <1>3. case.model.tag = "accepted" /\ case.model.confidence >= Threshold70
    BY DEF ClassifyCatalyst
  <1>4. QED
    BY <1>1, <1>2, <1>3 DEF HasRecentFiling, CatalystHeld

\* Every update of the baseline and every scan keeps what was claimed.
LEMMA ScannerKept == ScannerInv /\ [ScannerNext]_scVars => ScannerInv'
  <1> SUFFICES ASSUME ScannerInv, [ScannerNext]_scVars PROVE ScannerInv'
    OBVIOUS
  <1>1. ASSUME scResult' = scResult, scBaseline'.total \in Nat, scBaseline'.days \in Nat
        PROVE  ScannerInv'
    <2>1. TradeableHoldsUp'
      BY <1>1 DEF ScannerInv, TradeableHoldsUp
    <2>2. QED
      BY <1>1, <2>1 DEF ScannerInv
  <1>2. CASE UpdateBaseline
    BY <1>1, <1>2, BaselineTyped DEF UpdateBaseline
  <1>3. CASE UNCHANGED scVars
    BY <1>1, <1>3 DEF scVars, ScannerInv
  <1>4. CASE ScanSymbol
    <2>1. PICK quote \in ScanQuotes, sources \in FloatLists, volume \in DayVolumes,
               case \in CatalystCases :
            LET rvol == RvolFor(volume, scBaseline)
                reaction == AtLeast(rvol, 500) /\ quote.change >= 1000
                cand == [quote |-> quote, float |-> ResolveFloat(sources), rvol |-> rvol,
                         catalyst |-> ClassifyCatalyst(reaction, case)]
            IN  /\ scResult' = [tierA |-> TierA(cand), tierB |-> Pillars(cand),
                                attention |-> Attention(quote.rank),
                                sources |-> sources, history |-> scBaseline, volume |-> volume,
                                case |-> case]
                /\ scLists' = SubScanners(cand)
                /\ UNCHANGED scBaseline
      BY <1>4 DEF ScanSymbol
    <2> DEFINE rvol == RvolFor(volume, scBaseline)
               reaction == AtLeast(rvol, 500) /\ quote.change >= 1000
               cand == [quote |-> quote, float |-> ResolveFloat(sources), rvol |-> rvol,
                        catalyst |-> ClassifyCatalyst(reaction, case)]
    <2>2. /\ scResult'.tierA = TierA(cand) /\ scResult'.tierB = Pillars(cand)
          /\ scResult'.sources = sources /\ scResult'.history = scBaseline
          /\ scResult'.volume = volume /\ scResult'.case = case
          /\ scBaseline' = scBaseline
      BY <2>1
    <2>3. /\ cand.quote = quote /\ cand.float = ResolveFloat(sources) /\ cand.rvol = rvol
          /\ cand.catalyst = ClassifyCatalyst(reaction, case)
      OBVIOUS
    <2>4. scBaseline.total \in Nat /\ scBaseline.days \in Nat /\ volume \in Nat
      BY ScannerAssumption DEF ScannerInv
    <2>5. /\ rvol.num = volume * scBaseline.days /\ rvol.den = scBaseline.total
          /\ rvol.confidence = "high" => scBaseline.days >= MinHistoryDays
      BY <2>4, ScannerAssumption DEF RvolFor
    <2>6. rvol.num \in Int /\ rvol.den \in Nat
      <3>1. \A a, b \in Nat : a * b \in Int
        OBVIOUS
      <3>2. QED
        BY <2>4, <2>5, <3>1
    <2> HIDE DEF rvol, reaction, cand
    <2>7. ASSUME Pillars(cand)
          PROVE  /\ TierA(cand)
                 /\ \A c \in sources : c.free => c.shares <= Ceiling("FLOAT_HARD_CEILING")
                 /\ scBaseline.days >= MinHistoryDays
                 /\ CatalystHeld(case)
                 /\ 100 * volume * scBaseline.days >= Default("RVOL_MIN") * scBaseline.total
      <3>1. /\ ResolveFloat(sources).confidence \in {"high", "medium"}
            /\ ResolveFloat(sources).shares <= Ceiling("FLOAT_HARD_CEILING")
            /\ rvol.confidence = "high" /\ AtLeast(rvol, Default("RVOL_MIN"))
            /\ ClassifyCatalyst(reaction, case) = "VERIFIED"
        BY <2>3, <2>7 DEF Pillars
      <3>2. IsFiniteSet(sources) /\ \A c \in sources : c.shares \in Int
        BY ScannerAssumption
      <3>3. /\ ResolveFloat(sources).shares \in Int
            /\ \A c \in sources : c.free => c.shares <= ResolveFloat(sources).shares \/ c.shares <= 0
        BY <3>1, <3>2, FloatCovers
      <3>4. {quote.price, quote.change, quote.gap} \subseteq Int
        BY ScannerAssumption
      <3>5. TierA(cand)
        BY <2>3, <2>6, <2>7, <3>3, <3>4, PillarsInTheNet
      <3>6. Ceiling("FLOAT_HARD_CEILING") \in Nat
        BY TiersNest
      <3>7. \A c \in sources : c.free => c.shares <= Ceiling("FLOAT_HARD_CEILING")
        BY <3>1, <3>2, <3>3, <3>6
      <3>8. 100 * (volume * scBaseline.days) >= Default("RVOL_MIN") * scBaseline.total
        BY <2>5, <3>1 DEF AtLeast
      <3>9. 100 * volume * scBaseline.days = 100 * (volume * scBaseline.days)
        <4>1. \A a, b \in Nat : 100 * a * b = 100 * (a * b)
          OBVIOUS
        <4>2. QED
          BY <2>4, <4>1
      <3>10. QED
        BY <2>5, <3>1, <3>5, <3>7, <3>8, <3>9, VerifiedPassed
    <2>8. TradeableHoldsUp'
      BY <2>2, <2>7 DEF TradeableHoldsUp, CatalystHeld
    <2>9. QED
      BY <2>2, <2>4, <2>8 DEF ScannerInv
  <1>5. QED
    BY <1>2, <1>3, <1>4 DEF ScannerNext

\* What may be traded holds up against everything it was made from, for any
\* baseline, any sources of the float and any answers of the catalyst's.
THEOREM TradeablesHoldUp == ScannerSpec => []TradeableHoldsUp
  <1>1. ScannerInit => ScannerInv
    BY DEF ScannerInit, ScannerInv, NoBaseline, NoResult, TradeableHoldsUp
  <1>2. QED
    BY <1>1, ScannerKept, PTL DEF ScannerSpec, ScannerInv

-----------------------------------------------------------------------------
(* The news cache.                                                         *)

\* The first n members of a sequence.
LEMMA LeadingIs ==
  ASSUME NEW Elems, NEW q \in Seq(Elems), NEW n \in Nat
  PROVE  /\ Leading(q, n) \in Seq(Elems)
         /\ Len(Leading(q, n)) = IF Len(q) > n THEN n ELSE Len(q)
         /\ \A i \in 1 .. Len(Leading(q, n)) : Leading(q, n)[i] = q[i]
  <1> DEFINE m == Len(q)
             cut == IF m > n THEN n ELSE m
  <1>1. m \in Nat /\ cut \in 0 .. m
    BY LenProperties
  <1>2. \A i \in 1 .. cut : q[i] \in Elems
    <2>1. \A i \in 1 .. m : q[i] \in Elems
      BY ElementOfSeq
    <2> HIDE DEF cut, m
    <2>2. QED
      BY <1>1, <2>1
  <1>3. Leading(q, n) = SubSeq(q, 1, cut)
    BY DEF Leading
  <1> HIDE DEF cut
  <1>4. /\ SubSeq(q, 1, cut) \in Seq(Elems)
        /\ Len(SubSeq(q, 1, cut)) = IF 1 <= cut THEN cut - 1 + 1 ELSE 0
        /\ \A i \in 1 .. (cut - 1 + 1) : SubSeq(q, 1, cut)[i] = q[1 + i - 1]
    <2>1. 1 \in Int /\ cut \in Int
      BY <1>1
    <2>2. QED
      BY <1>2, <2>1, SubSeqProperties
  <1>5. Len(SubSeq(q, 1, cut)) = cut /\ cut - 1 + 1 = cut
    BY <1>1, <1>4
  <1>6. ASSUME NEW i \in 1 .. cut PROVE SubSeq(q, 1, cut)[i] = q[i]
    <2>1. 1 + i - 1 = i
      BY <1>1
    <2>2. QED
      BY <1>4, <1>5, <2>1
  <1>7. QED
    BY <1>3, <1>4, <1>5, <1>6 DEF cut

\* One more member in front of a sequence.
LEMMA InFront ==
  ASSUME NEW Elems, NEW q \in Seq(Elems), NEW x \in Elems
  PROVE  /\ <<x>> \o q \in Seq(Elems) /\ Len(<<x>> \o q) = Len(q) + 1
         /\ (<<x>> \o q)[1] = x
         /\ \A i \in 1 .. Len(q) : (<<x>> \o q)[i + 1] = q[i]
  <1>1. <<x>> \in Seq(Elems) /\ Len(<<x>>) = 1 /\ <<x>>[1] = x
    OBVIOUS
  <1>2. Len(q) \in Nat
    BY LenProperties
  <1>3. QED
    BY <1>1, <1>2, ConcatProperties

\* An article that is stored is the newest of each symbol it is filed under,
\* and moves the others of that symbol by one place.
LEMMA StoreKept ==
  ASSUME NEW cache, NEW log, Caches(cache, log), NEW article \in Pieces
  PROVE  Caches(Store(cache, article), Append(log, article))
  <1> DEFINE more == Append(log, article)
             next == Store(cache, article)
             n == Len(log)
  <1>1. cache \in [Keyed -> Seq(Pieces)] /\ log \in Seq(Pieces)
    BY DEF Caches
  <1>2. /\ more \in Seq(Pieces) /\ Len(more) = n + 1 /\ n \in Nat
        /\ DOMAIN more = 1 .. (n + 1) /\ DOMAIN log = 1 .. n
        /\ \A i \in 1 .. n : more[i] = log[i]
        /\ more[n + 1] = article
    BY <1>1, AppendProperties, LenProperties
  <1>3. CacheSize \in Nat /\ CacheSize >= 1
    BY NewsAssumption
  <1> HIDE DEF more, n
  <1>4. ASSUME NEW s \in Keyed
        PROVE  /\ cache[s] \in Seq(Pieces)
               /\ IsFiniteSet(About(s, log)) /\ About(s, log) \subseteq 1 .. n
               /\ \A i : IsFiniteSet(Later(s, log, i)) /\ Cardinality(Later(s, log, i)) \in Nat
    <2>1. IsFiniteSet(1 .. n) /\ About(s, log) \subseteq 1 .. n
      <3>1. n \in Int
        BY <1>2
      <3>2. IsFiniteSet(1 .. n)
        BY <3>1, FS_Interval
      <3>3. DOMAIN log = 1 .. n
        BY <1>2
      <3>4. QED
        BY <3>2, <3>3 DEF About
    <2>2. IsFiniteSet(About(s, log))
      BY <2>1, FS_Subset
    <2>3. \A i : Later(s, log, i) \subseteq About(s, log)
      BY DEF Later
    <2>4. \A i : IsFiniteSet(Later(s, log, i))
      BY <2>2, <2>3, FS_Subset
    <2>5. \A i : Cardinality(Later(s, log, i)) \in Nat
      BY <2>4, FS_CardinalityType
    <2>6. QED
      BY <1>1, <2>1, <2>2, <2>4, <2>5
  <1>5. ASSUME NEW s \in Keyed
        PROVE  /\ \A i \in About(s, log) :
                     Cardinality(Later(s, log, i)) + 1 <= CacheSize
                       => /\ Cardinality(Later(s, log, i)) + 1 \in DOMAIN cache[s]
                          /\ cache[s][Cardinality(Later(s, log, i)) + 1] = log[i]
               /\ \A place \in DOMAIN cache[s] :
                     /\ place <= CacheSize
                     /\ \E i \in About(s, log) : Cardinality(Later(s, log, i)) + 1 = place
    BY DEF Caches
  <1> DEFINE Right(s) ==
               /\ next[s] \in Seq(Pieces)
               /\ \A i \in About(s, more) :
                     LET place == Cardinality(Later(s, more, i)) + 1
                     IN  place <= CacheSize => place \in DOMAIN next[s] /\ next[s][place] = more[i]
               /\ \A place \in DOMAIN next[s] :
                     /\ place <= CacheSize
                     /\ \E i \in About(s, more) : Cardinality(Later(s, more, i)) + 1 = place
  <1>6. ASSUME NEW s \in Keyed, s \notin FiledUnder(article) PROVE Right(s)
    <2>1. next[s] = cache[s]
      BY <1>6 DEF Store
    <2>2. About(s, more) = About(s, log)
      BY <1>2, <1>6 DEF About
    <2>3. \A i : Later(s, more, i) = Later(s, log, i)
      BY <2>2 DEF Later
    <2>4. \A i \in About(s, log) : more[i] = log[i]
      BY <1>2, <1>4
    <2> HIDE DEF next
    <2>5. QED
      BY <1>4, <1>5, <2>1, <2>2, <2>3, <2>4
  <1>7. ASSUME NEW s \in Keyed, s \in FiledUnder(article) PROVE Right(s)
    <2> DEFINE front == <<article>> \o cache[s]
    <2>1. next[s] = Leading(front, CacheSize)
      BY <1>7 DEF Store
    <2>2. /\ front \in Seq(Pieces) /\ Len(front) = Len(cache[s]) + 1 /\ front[1] = article
          /\ \A i \in 1 .. Len(cache[s]) : front[i + 1] = cache[s][i]
      BY <1>4, InFront
    <2> HIDE DEF next, front
    <2>3. /\ next[s] \in Seq(Pieces)
          /\ Len(next[s]) = IF Len(front) > CacheSize THEN CacheSize ELSE Len(front)
          /\ \A i \in 1 .. Len(next[s]) : next[s][i] = front[i]
      BY <1>3, <2>1, <2>2, LeadingIs
    <2>4. /\ Len(cache[s]) \in Nat /\ DOMAIN cache[s] = 1 .. Len(cache[s])
          /\ DOMAIN next[s] = 1 .. Len(next[s])
      BY <1>4, <2>3, LenProperties
    <2>5. About(s, more) = About(s, log) \cup {n + 1}
      BY <1>2, <1>7 DEF About
    <2>6. \A i \in About(s, log) : Later(s, more, i) = Later(s, log, i) \cup {n + 1}
      <3> TAKE i \in About(s, log)
      <3>1. i \in 1 .. n
        BY <1>4
      <3>2. QED
        BY <1>2, <2>5, <3>1 DEF Later
    <2>7. ASSUME NEW i \in About(s, log)
          PROVE  Cardinality(Later(s, more, i)) = Cardinality(Later(s, log, i)) + 1
      <3>1. n + 1 \notin Later(s, log, i)
        BY <1>2, <1>4 DEF Later
      <3>2. QED
        BY <1>4, <2>6, <3>1, FS_AddElement
    <2>8. Cardinality(Later(s, more, n + 1)) = 0
      <3>1. Later(s, more, n + 1) = {}
        BY <1>2, <1>4, <2>5 DEF Later
      <3>2. QED
        BY <3>1, FS_EmptySet
    <2>9. ASSUME NEW i \in About(s, more), Cardinality(Later(s, more, i)) + 1 <= CacheSize
          PROVE  /\ Cardinality(Later(s, more, i)) + 1 \in DOMAIN next[s]
                 /\ next[s][Cardinality(Later(s, more, i)) + 1] = more[i]
      <3>1. CASE i = n + 1
        <4>1. 1 \in 1 .. Len(next[s])
          BY <1>3, <2>2, <2>3, <2>4
        <4>2. QED
          BY <1>2, <2>2, <2>3, <2>4, <2>8, <3>1, <4>1
      <3>2. CASE i \in About(s, log)
        <4> DEFINE place == Cardinality(Later(s, log, i)) + 1
        <4>1. place \in Nat /\ Cardinality(Later(s, more, i)) + 1 = place + 1
          BY <1>4, <2>7, <3>2
        <4>2. place \in DOMAIN cache[s] /\ cache[s][place] = log[i]
          BY <1>3, <1>5, <2>9, <3>2, <4>1
        <4> HIDE DEF place
        <4>3. place \in 1 .. Len(cache[s])
          BY <2>4, <4>2
        <4>4. place + 1 \in 1 .. Len(next[s])
          BY <1>3, <2>2, <2>3, <2>4, <2>9, <4>1, <4>3
        <4>5. next[s][place + 1] = log[i]
          BY <2>2, <2>3, <4>2, <4>3, <4>4
        <4>6. more[i] = log[i]
          BY <1>2, <1>4, <3>2
        <4>7. QED
          BY <2>4, <4>1, <4>4, <4>5, <4>6
      <3>3. QED
        BY <2>5, <3>1, <3>2
    <2>10. ASSUME NEW place \in DOMAIN next[s]
           PROVE  /\ place <= CacheSize
                  /\ \E i \in About(s, more) : Cardinality(Later(s, more, i)) + 1 = place
      <3>1. place \in 1 .. Len(next[s]) /\ place <= CacheSize
        BY <1>3, <2>2, <2>3, <2>4
      <3>2. CASE place = 1
        BY <2>5, <2>8, <3>1, <3>2
      <3>3. CASE place # 1
        <4>1. place - 1 \in DOMAIN cache[s]
          BY <1>3, <2>2, <2>3, <2>4, <3>1, <3>3
        <4>2. PICK i \in About(s, log) : Cardinality(Later(s, log, i)) + 1 = place - 1
          BY <1>5, <4>1
        <4>3. Cardinality(Later(s, more, i)) + 1 = place
          <5>1. place \in Int
            BY <2>4, <3>1
          <5>2. QED
            BY <1>4, <2>7, <4>2, <5>1
        <4>4. QED
          BY <2>5, <3>1, <4>3
      <3>4. QED
        BY <3>2, <3>3
    <2>11. QED
      BY <2>3, <2>9, <2>10
  <1>8. \A s \in Keyed : Right(s)
    BY <1>6, <1>7
  <1>9. next \in [Keyed -> Seq(Pieces)]
    <2>1. next = [s \in Keyed |-> next[s]]
      BY DEF Store
    <2> HIDE DEF next
    <2>2. QED
      BY <1>8, <2>1
  <1> HIDE DEF next
  <1>10. Caches(next, more)
    BY <1>2, <1>8, <1>9 DEF Caches
  <1>11. QED
    BY <1>10 DEF next, more

\* A backfill is stored one article after the other.
LEMMA BackfillKept ==
  ASSUME NEW cache, NEW articles \in Seq(Pieces), Caches(cache, <<>>)
  PROVE  Caches(StoredAll(cache, articles), articles)
  <1> DEFINE m == Len(articles)
             Walks(g, n) == g = [i \in 0 .. n |-> IF i = 0 THEN cache
                                                  ELSE Store(g[i - 1], articles[i])]
             Stuck == {n \in 0 .. m : \A g : ~Walks(g, n)}
             first(n) == SubSeq(articles, 1, n)
  <1>1. m \in Nat
    BY LenProperties
  <1>2. ASSUME Stuck # {} PROVE FALSE
    <2>1. Stuck \in SUBSET Nat
      BY <1>1
    <2>2. PICK n \in Stuck : \A k \in Stuck : n <= k
      <3> HIDE DEF Stuck
      <3> QED BY <1>2, <2>1, LeastNatural
    <2>3. n \in 0 .. m /\ \A g : ~Walks(g, n)
      OBVIOUS
    <2>4. n # 0
      <3>1. Walks([i \in 0 .. 0 |-> cache], 0)
        OBVIOUS
      <3>2. QED
        BY <2>3, <3>1
    <2>5. n - 1 \in 0 .. m /\ n - 1 \notin Stuck
      BY <1>1, <2>2, <2>3, <2>4
    <2>6. PICK g : Walks(g, n - 1)
      BY <2>5
    <2> DEFINE h == [i \in 0 .. n |-> IF i < n THEN g[i] ELSE Store(g[n - 1], articles[n])]
    <2>7. ASSUME NEW i \in 0 .. n
          PROVE  h[i] = IF i = 0 THEN cache ELSE Store(h[i - 1], articles[i])
      <3>1. CASE i = 0
        <4>1. 0 \in 0 .. (n - 1) /\ 0 < n /\ 0 \in 0 .. n
          BY <2>3, <2>4
        <4>2. g[0] = cache
          BY <2>6, <4>1
        <4>3. QED
          BY <3>1, <4>1, <4>2
      <3>2. CASE i # 0 /\ i < n
        <4>1. i \in 0 .. (n - 1) /\ i - 1 \in 0 .. n /\ i - 1 < n
          BY <2>3, <3>2
        <4>2. g[i] = Store(g[i - 1], articles[i])
          BY <2>6, <3>2, <4>1
        <4>3. h[i] = g[i] /\ h[i - 1] = g[i - 1]
          BY <3>2, <4>1
        <4> HIDE DEF h
        <4>4. QED
          BY <3>2, <4>2, <4>3
      <3>3. CASE i = n
        <4>1. n - 1 \in 0 .. n /\ n - 1 < n /\ n \in 0 .. n /\ ~(n < n)
          BY <2>3, <2>4
        <4>2. h[n] = Store(g[n - 1], articles[n]) /\ h[n - 1] = g[n - 1]
          BY <4>1
        <4> HIDE DEF h
        <4>3. QED
          BY <2>4, <3>3, <4>2
      <3>4. QED
        BY <2>3, <3>1, <3>2, <3>3
    <2>8. Walks(h, n)
      <3>1. h = [i \in 0 .. n |-> h[i]]
        OBVIOUS
      <3> HIDE DEF h
      <3>2. QED
        BY <2>7, <3>1
    <2>9. QED
      BY <2>3, <2>8
  <1> DEFINE upTo == CHOOSE g : Walks(g, m)
  <1>3. Walks(upTo, m)
    <2>1. \E g : Walks(g, m)
      BY <1>1, <1>2
    <2> HIDE DEF Walks
    <2>2. QED
      BY <2>1
  <1>4. StoredAll(cache, articles) = upTo[m]
    BY DEF StoredAll
  <1> HIDE DEF upTo
  <1>5. /\ upTo[0] = cache
        /\ \A i \in 1 .. m : upTo[i] = Store(upTo[i - 1], articles[i])
    BY <1>1, <1>3
  <1> DEFINE Wrong == {n \in 0 .. m : ~Caches(upTo[n], first(n))}
  <1>6. ASSUME Wrong # {} PROVE FALSE
    <2>1. Wrong \in SUBSET Nat
      BY <1>1
    <2>2. PICK n \in Wrong : \A k \in Wrong : n <= k
      <3> HIDE DEF Wrong
      <3> QED BY <1>6, <2>1, LeastNatural
    <2>3. n \in 0 .. m /\ ~Caches(upTo[n], first(n))
      OBVIOUS
    <2>4. n # 0
      <3>1. first(0) = <<>>
        OBVIOUS
      <3>2. QED
        BY <1>5, <2>3, <3>1
    <2>5. n - 1 \in 0 .. m /\ n - 1 \notin Wrong /\ n \in 1 .. m
      BY <1>1, <2>2, <2>3, <2>4
    <2>6. Caches(upTo[n - 1], first(n - 1))
      BY <2>5
    <2>7. articles[n] \in Pieces
      BY <2>5, ElementOfSeq
    <2>8. first(n) = Append(first(n - 1), articles[n])
      <3>1. \A k \in 0 .. m : /\ first(k) \in Seq(Pieces) /\ Len(first(k)) = k
                              /\ \A i \in 1 .. k : first(k)[i] = articles[i]
        <4> TAKE k \in 0 .. m
        <4>1. \A i \in 1 .. k : articles[i] \in Pieces
          BY <1>1, ElementOfSeq
        <4>2. /\ first(k) \in Seq(Pieces)
              /\ Len(first(k)) = IF 1 <= k THEN k - 1 + 1 ELSE 0
              /\ \A i \in 1 .. (k - 1 + 1) : first(k)[i] = articles[1 + i - 1]
          <5>1. 1 \in Int /\ k \in Int
            BY <1>1
          <5>2. QED
            BY <4>1, <5>1, SubSeqProperties
        <4> HIDE DEF first
        <4>3. Len(first(k)) = k /\ k - 1 + 1 = k
          BY <1>1, <4>2
        <4>4. ASSUME NEW i \in 1 .. k PROVE first(k)[i] = articles[i]
          <5>1. 1 + i - 1 = i
            BY <1>1
          <5>2. QED
            BY <4>2, <4>3, <5>1
        <4>5. QED
          BY <4>2, <4>3, <4>4
      <3> DEFINE short == first(n - 1)
                 long  == first(n)
                 both  == Append(short, articles[n])
      <3>2. /\ short \in Seq(Pieces) /\ Len(short) = n - 1 /\ n - 1 \in Nat
            /\ \A i \in 1 .. (n - 1) : short[i] = articles[i]
        BY <1>1, <2>5, <3>1
      <3>3. /\ long \in Seq(Pieces) /\ Len(long) = n
            /\ \A i \in 1 .. n : long[i] = articles[i]
        BY <2>3, <3>1
      <3> HIDE DEF first, short, long
      <3>4. /\ both \in Seq(Pieces) /\ Len(both) = n - 1 + 1 /\ both[n - 1 + 1] = articles[n]
            /\ \A i \in 1 .. (n - 1) : both[i] = short[i]
        BY <2>7, <3>2, AppendProperties
      <3> HIDE DEF both
      <3>5. n - 1 + 1 = n
        BY <2>5, <1>1
      <3>6. ASSUME NEW i \in 1 .. n PROVE both[i] = long[i]
        <4>1. i = n \/ i \in 1 .. (n - 1)
          BY <1>1, <2>5
        <4>2. QED
          BY <3>2, <3>3, <3>4, <3>5, <4>1
      <3>7. Len(both) = n
        BY <3>4, <3>5
      <3>8. both = long
        BY <3>3, <3>4, <3>6, <3>7, SeqEqual
      <3>9. QED
        BY <3>8 DEF both, long, short
    <2>9. upTo[n] = Store(upTo[n - 1], articles[n])
      BY <1>5, <2>5
    <2> HIDE DEF Wrong, first
    <2>10. Caches(Store(upTo[n - 1], articles[n]), Append(first(n - 1), articles[n]))
      BY <2>6, <2>7, StoreKept
    <2>11. QED
      BY <2>3, <2>8, <2>9, <2>10
  <1>7. Caches(upTo[m], first(m))
    BY <1>1, <1>6
  <1>8. first(m) = articles
    <2>1. \A i \in 1 .. m : articles[i] \in Pieces
      BY ElementOfSeq
    <2>2. /\ first(m) \in Seq(Pieces)
          /\ Len(first(m)) = IF 1 <= m THEN m - 1 + 1 ELSE 0
          /\ \A i \in 1 .. (m - 1 + 1) : first(m)[i] = articles[1 + i - 1]
      <3>1. 1 \in Int /\ m \in Int
        BY <1>1
      <3> HIDE DEF m
      <3>2. QED
        BY <2>1, <3>1, SubSeqProperties
    <2>3. Len(first(m)) = m
      <3> HIDE DEF first, m
      <3> QED BY <1>1, <2>2
    <2>4. ASSUME NEW i \in 1 .. m PROVE first(m)[i] = articles[i]
      <3> HIDE DEF first, m
      <3>1. i \in 1 .. (m - 1 + 1) /\ 1 + i - 1 = i
        BY <1>1
      <3>2. QED
        BY <2>2, <3>1
    <2> HIDE DEF first
    <2>5. QED
      BY <2>2, <2>3, <2>4, SeqEqual
  <1>9. QED
    BY <1>4, <1>7, <1>8

\* A verdict is about what was stored when it was given.
LEMMA VerdictStays ==
  ASSUME NewsInv, nwVerdict' = nwVerdict,
         \A i \in 1 .. Len(nwStored) : nwStored'[i] = nwStored[i]
  PROVE  VerifiedIsUnblocked'
  <1> SUFFICES ASSUME nwVerdict.status = "VERIFIED" PROVE VerifiedIsUnblocked'
    BY DEF VerifiedIsUnblocked
  <1> DEFINE symbol == nwVerdict.symbol
             seen   == nwVerdict.seen
             about  == StoredAbout(symbol, seen)
             last   == {i \in about : Cardinality({j \in about : j > i}) < CacheSize}
  <1>1. nwStored \in Seq(Pieces) /\ seen \in 0 .. Len(nwStored)
    BY DEF NewsInv, Caches
  <1>2. \A i \in 1 .. seen : i \in 1 .. Len(nwStored)
    BY <1>1, LenProperties
  <1>3. about' = about
    <2>1. about' = {i \in 1 .. seen : symbol \in nwStored'[i].about}
      BY DEF StoredAbout
    <2>2. about = {i \in 1 .. seen : symbol \in nwStored[i].about}
      BY DEF StoredAbout
    <2> HIDE DEF about
    <2>3. QED
      BY <1>2, <2>1, <2>2
  <1>4. \A i \in about : nwStored'[i] = nwStored[i]
    BY <1>2 DEF StoredAbout
  <1>5. LET young == {i \in last : nwStored[i].at >= nwVerdict.clock - Lookback}
        IN  (\A i \in young : ~nwStored[i].blocks) /\ (\E i \in young : nwStored[i].accepted)
    BY DEF NewsInv, VerifiedIsUnblocked
  <1>6. {i \in last : nwStored'[i].at >= nwVerdict.clock - Lookback}
          = {i \in last : nwStored[i].at >= nwVerdict.clock - Lookback}
    <2> HIDE DEF about
    <2> QED BY <1>4
  <1> DEFINE lastNow == {i \in about' : Cardinality({j \in about' : j > i}) < CacheSize}
             youngNow == {i \in lastNow : nwStored'[i].at >= nwVerdict.clock - Lookback}
  <1>7. (\A i \in youngNow : ~nwStored'[i].blocks) /\ (\E i \in youngNow : nwStored'[i].accepted)
    <2>1. lastNow = last
      <3> HIDE DEF about
      <3> QED BY <1>3
    <2> HIDE DEF about, lastNow
    <2>2. QED
      BY <1>4, <1>5, <1>6, <2>1
  <1>8. QED
    BY <1>7 DEF VerifiedIsUnblocked

\* A verdict is right when it is given.
LEMMA VerdictIsRight ==
  ASSUME NewsInv, Verify
  PROVE  /\ VerifiedIsUnblocked'
         /\ nwVerdict'.symbol \in Tickers /\ nwVerdict'.seen = Len(nwStored)
  <1>1. PICK symbol \in Tickers :
          nwVerdict' = [symbol |-> symbol, status |-> VerdictOf(RecentNews(symbol)),
                        clock |-> nwClock, seen |-> Len(nwStored)]
    BY DEF Verify
  <1>2. nwStored' = nwStored
    BY DEF Verify
  <1>3. /\ nwVerdict'.symbol = symbol /\ nwVerdict'.seen = Len(nwStored)
        /\ nwVerdict'.clock = nwClock
        /\ nwVerdict'.status = VerdictOf(RecentNews(symbol))
    BY <1>1
  <1> SUFFICES ASSUME nwVerdict'.status = "VERIFIED" PROVE VerifiedIsUnblocked'
    BY <1>3 DEF VerifiedIsUnblocked
  <1>4. nwStored \in Seq(Pieces) /\ symbol \in Keyed /\ symbol # "*"
    BY NewsAssumption DEF NewsInv, Caches, Keyed
  <1>5. DOMAIN nwStored = 1 .. Len(nwStored) /\ \A i \in 1 .. Len(nwStored) : nwStored[i] \in Pieces
    BY <1>4, LenProperties, ElementOfSeq
  <1> DEFINE about == StoredAbout(symbol, Len(nwStored))
  <1>6. about = About(symbol, nwStored)
    <2>1. \A i \in 1 .. Len(nwStored) :
            symbol \in FiledUnder(nwStored[i]) <=> symbol \in nwStored[i].about
      BY <1>4 DEF FiledUnder
    <2>2. QED
      BY <1>5, <2>1 DEF About, StoredAbout
  <1>7. \A i : {j \in about : j > i} = Later(symbol, nwStored, i)
    BY <1>6 DEF Later
  <1>8. ASSUME NEW i \in about
        PROVE  Cardinality(Later(symbol, nwStored, i)) \in Nat
    <2>1. IsFiniteSet(1 .. Len(nwStored))
      BY <1>4, LenProperties, FS_Interval
    <2>2. Later(symbol, nwStored, i) \subseteq 1 .. Len(nwStored)
      BY <1>5 DEF Later, About
    <2>3. QED
      BY <2>1, <2>2, FS_Subset, FS_CardinalityType
  <1>9. /\ \A i \in About(symbol, nwStored) :
              Cardinality(Later(symbol, nwStored, i)) + 1 <= CacheSize
                => /\ Cardinality(Later(symbol, nwStored, i)) + 1 \in DOMAIN nwCache[symbol]
                   /\ nwCache[symbol][Cardinality(Later(symbol, nwStored, i)) + 1] = nwStored[i]
        /\ \A place \in DOMAIN nwCache[symbol] :
              /\ place <= CacheSize
              /\ \E i \in About(symbol, nwStored) :
                    Cardinality(Later(symbol, nwStored, i)) + 1 = place
    BY <1>4 DEF NewsInv, Caches
  <1> DEFINE last  == {i \in about : Cardinality({j \in about : j > i}) < CacheSize}
             young == {i \in last : nwStored[i].at >= nwClock - Lookback}
             items == RecentNews(symbol)
  <1> HIDE DEF about
  <1>10. CacheSize \in Nat
    BY NewsAssumption
  <1>11. \A i \in last : Cardinality(Later(symbol, nwStored, i)) + 1 <= CacheSize
    <2> TAKE i \in last
    <2>1. i \in about /\ Cardinality({j \in about : j > i}) < CacheSize
      OBVIOUS
    <2>2. {j \in about : j > i} = Later(symbol, nwStored, i)
      BY <1>7
    <2> HIDE DEF last
    <2>3. QED
      BY <1>8, <1>10, <2>1, <2>2
  <1>12. \A i \in young : nwStored[i] \in items
    <2> TAKE i \in young
    <2>1. /\ Cardinality(Later(symbol, nwStored, i)) + 1 \in DOMAIN nwCache[symbol]
          /\ nwCache[symbol][Cardinality(Later(symbol, nwStored, i)) + 1] = nwStored[i]
      BY <1>6, <1>9, <1>11
    <2>2. QED
      BY <2>1 DEF RecentNews
  <1>13. \A item \in items : \E i \in young : nwStored[i] = item
    <2> TAKE item \in items
    <2>1. PICK place \in DOMAIN nwCache[symbol] :
            item = nwCache[symbol][place] /\ item.at >= nwClock - Lookback
      BY DEF RecentNews
    <2>2. PICK i \in About(symbol, nwStored) :
            Cardinality(Later(symbol, nwStored, i)) + 1 = place
      BY <1>9, <2>1
    <2>3. nwStored[i] = item
      BY <1>9, <2>1, <2>2
    <2>4. Cardinality({j \in about : j > i}) < CacheSize
      BY <1>6, <1>7, <1>8, <1>9, <1>10, <2>2
    <2>5. i \in young
      BY <1>6, <2>1, <2>3, <2>4
    <2>6. QED
      BY <2>3, <2>5
  <1> HIDE DEF last, young, items
  <1>14. /\ \A item \in items : Classify(item) # "SKIP"
         /\ \E item \in items : Classify(item) = "VERIFIED"
    <2>1. VerdictOf(items) = "VERIFIED"
      BY <1>3 DEF items
    <2>2. QED
      BY <2>1 DEF VerdictOf
  <1>15. \A i \in young : ~nwStored[i].blocks
    BY <1>12, <1>14 DEF Classify
  <1>16. \E i \in young : nwStored[i].accepted
    <2>1. PICK item \in items : Classify(item) = "VERIFIED"
      BY <1>14
    <2>2. item.accepted
      BY <2>1 DEF Classify
    <2>3. QED
      BY <1>13, <2>2
  <1>17. LET about2 == StoredAbout(nwVerdict.symbol, nwVerdict.seen)'
             last2  == {i \in about2 : Cardinality({j \in about2 : j > i}) < CacheSize}
             young2 == {i \in last2 : nwStored'[i].at >= nwVerdict'.clock - Lookback}
         IN  (\A i \in young2 : ~nwStored'[i].blocks) /\ (\E i \in young2 : nwStored'[i].accepted)
    <2>1. StoredAbout(nwVerdict.symbol, nwVerdict.seen)' = about
      BY <1>2, <1>3 DEF StoredAbout, about
    <2>2. QED
      BY <1>2, <1>3, <1>15, <1>16, <2>1 DEF young, last
  <1>18. QED
    BY <1>17 DEF VerifiedIsUnblocked

\* Whatever is published, fetched, lost or verified keeps what was claimed.
LEMMA NewsKept == NewsInv /\ [NewsNext]_nwVars => NewsInv'
  <1> SUFFICES ASSUME NewsInv, [NewsNext]_nwVars PROVE NewsInv'
    OBVIOUS
  <1>1. Caches(nwCache, nwStored) /\ nwClock \in Nat /\ nwStored \in Seq(Pieces)
    BY DEF NewsInv, Caches
  <1>2. ASSUME Caches(nwCache', nwStored'), nwClock' \in Nat, nwVerdict' = nwVerdict,
               nwTask' = "idle" => nwStored' = <<>>,
               Len(nwStored) <= Len(nwStored'),
               \A i \in 1 .. Len(nwStored) : nwStored'[i] = nwStored[i]
        PROVE  NewsInv'
    <2>1. VerifiedIsUnblocked'
      BY <1>2, VerdictStays
    <2>2. Caches(nwCache, nwStored)'
      BY <1>2 DEF Caches, About, Later, FiledUnder
    <2>3. Len(nwStored') \in Nat /\ Len(nwStored) \in Nat
      BY <1>1, <1>2, LenProperties DEF Caches
    <2>4. nwVerdict.status = "VERIFIED" =>
            nwVerdict.symbol \in Tickers /\ nwVerdict.seen \in 0 .. Len(nwStored')
      BY <1>2, <2>3 DEF NewsInv
    <2>5. QED
      BY <1>2, <2>1, <2>2, <2>4 DEF NewsInv
  <1>3. Len(nwStored) <= Len(nwStored)
    BY <1>1, LenProperties
  <1>4. CASE StartNews
    <2>1. PICK articles \in Backfills \cup {<<>>} :
            nwCache' = StoredAll(nwCache, articles) /\ nwStored' = nwStored \o articles
      BY <1>4 DEF StartNews
    <2>2. nwStored = <<>> /\ nwTask' = "connected" /\ UNCHANGED <<nwVerdict, nwClock>>
      BY <1>4 DEF StartNews, NewsInv
    <2>3. articles \in Seq(Pieces)
      <3>1. <<>> \in Seq(Pieces)
        BY EmptySeq
      <3>2. Backfills \subseteq Seq(Pieces)
        BY NewsAssumption
      <3>3. QED
        BY <2>1, <3>1, <3>2
    <2>4. Caches(StoredAll(nwCache, articles), articles)
      BY <1>1, <2>2, <2>3, BackfillKept
    <2>5. nwStored' = articles
      BY <2>1, <2>2, <2>3, ConcatEmptySeq
    <2>6. Caches(nwCache', nwStored')
      BY <2>1, <2>4, <2>5
    <2>7. Len(nwStored) <= Len(nwStored') /\ \A i \in 1 .. Len(nwStored) : nwStored'[i] = nwStored[i]
      <3>1. Len(nwStored) = 0 /\ Len(nwStored') \in Nat
        BY <2>2, <2>3, <2>5, LenProperties
      <3>2. QED
        BY <3>1
    <2>8. QED
      BY <1>1, <1>2, <2>2, <2>6, <2>7
  <1>5. CASE Publish
    <2>1. PICK delay \in NewsDelays : nwClock' = nwClock + delay
      BY <1>5 DEF Publish
    <2>2. nwClock' \in Nat
      BY <1>1, <2>1, NewsAssumption
    <2>3. PICK article \in Articles(nwClock') :
            IF nwTask = "connected"
            THEN nwCache' = Store(nwCache, article) /\ nwStored' = Append(nwStored, article)
            ELSE UNCHANGED <<nwCache, nwStored>>
      BY <1>5 DEF Publish
    <2>4. UNCHANGED <<nwVerdict, nwTask>>
      BY <1>5 DEF Publish
    <2>5. article \in Pieces
      BY <2>2 DEF Articles, Pieces
    <2>6. CASE nwTask = "connected"
      <3>1. nwCache' = Store(nwCache, article) /\ nwStored' = Append(nwStored, article)
        BY <2>3, <2>6
      <3>2. Caches(Store(nwCache, article), Append(nwStored, article))
        BY <1>1, <2>5, StoreKept
      <3>3. /\ Len(nwStored') = Len(nwStored) + 1 /\ Len(nwStored) \in Nat
            /\ \A i \in 1 .. Len(nwStored) : nwStored'[i] = nwStored[i]
        BY <1>1, <2>5, <3>1, AppendProperties, LenProperties
      <3>4. Len(nwStored) <= Len(nwStored')
        BY <3>3
      <3>5. QED
        BY <1>2, <2>2, <2>4, <2>6, <3>1, <3>2, <3>3, <3>4
    <2>7. CASE nwTask # "connected"
      BY <1>1, <1>2, <1>3, <2>2, <2>3, <2>4, <2>7 DEF NewsInv
    <2>8. QED
      BY <2>6, <2>7
  <1>6. CASE StreamEnds \/ Reconnect \/ StopNews \/ UNCHANGED nwVars
    <2>1. UNCHANGED <<nwCache, nwStored, nwVerdict, nwClock>>
      BY <1>6 DEF StreamEnds, Reconnect, StopNews, nwVars
    <2>2. nwTask' = "idle" => nwTask = "idle"
      BY <1>6 DEF StreamEnds, Reconnect, StopNews, nwVars
    <2>3. QED
      BY <1>1, <1>2, <1>3, <2>1, <2>2 DEF NewsInv
  <1>7. CASE Verify
    <2>1. UNCHANGED <<nwCache, nwStored, nwClock, nwTask>>
      BY <1>7 DEF Verify
    <2>2. /\ VerifiedIsUnblocked'
          /\ nwVerdict'.symbol \in Tickers /\ nwVerdict'.seen = Len(nwStored)
      BY <1>7, VerdictIsRight
    <2>3. Caches(nwCache, nwStored)'
      <3>1. nwCache' = nwCache /\ nwStored' = nwStored
        BY <2>1
      <3>2. Caches(nwCache', nwStored')
        BY <1>1, <3>1
      <3>3. QED
        BY <3>2 DEF Caches, About, Later, FiledUnder
    <2>4. nwVerdict'.seen \in 0 .. Len(nwStored')
      BY <1>1, <2>1, <2>2, LenProperties
    <2>5. QED
      BY <1>1, <2>1, <2>2, <2>3, <2>4 DEF NewsInv
  <1>8. QED
    BY <1>4, <1>5, <1>6, <1>7 DEF NewsNext

\* A verified catalyst is never beside a blocking article that is still cached
\* by count and young enough, in whatever order articles came, for any size of
\* the cache and any number of symbols.
THEOREM VerifiedStaysUnblocked == NewsSpec => []VerifiedIsUnblocked
  <1>1. NewsInit => NewsInv
    <2> SUFFICES ASSUME NewsInit PROVE NewsInv
      OBVIOUS
    <2>1. nwCache = [s \in Keyed |-> <<>>] /\ nwStored = <<>>
      BY DEF NewsInit
    <2>2. Caches(nwCache, nwStored)
      BY <2>1 DEF Caches, About
    <2>3. nwVerdict.status = "UNVERIFIED" /\ nwClock = 0
      BY DEF NewsInit
    <2>4. QED
      BY <2>1, <2>2, <2>3 DEF NewsInv, VerifiedIsUnblocked
  <1>2. QED
    BY <1>1, NewsKept, PTL DEF NewsSpec, NewsInv

-----------------------------------------------------------------------------
(* The dashboard's messages.                                               *)

\* What waits for the lock is a socket, a whole state or a signal.
LEMMA Requested ==
  ASSUME NEW request \in Requests
  PROVE  \/ /\ IsSocket(request) /\ request.socket \in Sockets
            /\ ~IsWhole(request) /\ ~IsSignal(request)
         \/ /\ IsWhole(request) /\ request.message \in Messages /\ request.message.view \in Views
            /\ ~IsSocket(request) /\ ~IsSignal(request)
         \/ /\ IsSignal(request) /\ request.message \in Messages /\ request.message.id \in Nat
            /\ ~IsSocket(request) /\ ~IsWhole(request)
  BY DEF Requests, Messages, IsSocket, IsWhole, IsSignal

\* What is put in the queue is what it says.
LEMMA RequestMade ==
  /\ \A s \in Sockets :
        /\ [socket |-> s] \in Requests /\ IsSocket([socket |-> s])
        /\ ~IsWhole([socket |-> s]) /\ ~IsSignal([socket |-> s])
  /\ \A m \in Messages :
        /\ [message |-> m] \in Requests /\ ~IsSocket([message |-> m])
        /\ IsWhole([message |-> m]) <=> m.kind = "state"
        /\ IsSignal([message |-> m]) <=> m.kind = "signal"
  BY DEF Requests, IsSocket, IsWhole, IsSignal

\* A message is one or the other.
LEMMA MessageIs ==
  ASSUME NEW m \in Messages
  PROVE  \/ m.kind = "state" /\ m.view \in Views
         \/ m.kind = "signal" /\ m.id \in Nat
  BY DEF Messages

\* A view with more signals, and what the page's reducer makes of a message.
LEMMA WithFacts ==
  ASSUME NEW view \in Views, NEW ids \in SUBSET Nat, NEW more \in SUBSET Nat
  PROVE  /\ With(view, ids) \in Views /\ With(view, ids).version = view.version
         /\ With(view, ids).signals = view.signals \cup ids
         /\ With(With(view, ids), more) = With(view, ids \cup more)
         /\ ids \subseteq view.signals => With(view, ids) = view
         /\ With(view, {}) = view
  BY DEF With, Views

\* What the page's reducer makes of a message.
LEMMA AppliedIs ==
  ASSUME NEW m \in Messages, NEW view \in Views
  PROVE  /\ Applied(view, m) \in Views
         /\ m.kind = "state" => Applied(view, m) = m.view
         /\ m.kind = "signal" => Applied(view, m) = With(view, {m.id})
  BY DEF Messages, Views, Applied, With

\* Nothing waits in an empty queue.
LEMMA NothingWaits ==
  ASSUME NEW n
  PROVE  SignalsAfter(<<>>, n) = {} /\ NoWholeAfter(<<>>, n)
  BY DEF SignalsAfter, NoWholeAfter

\* Joining the end of the queue.
LEMMA QueueAppend ==
  ASSUME NEW queue \in Seq(Requests), NEW request \in Requests, NEW n \in Nat, n <= Len(queue)
  PROVE  /\ SignalsAfter(Append(queue, request), n)
              = SignalsAfter(queue, n) \cup (IF IsSignal(request) THEN {request.message.id} ELSE {})
         /\ NoWholeAfter(Append(queue, request), n) <=> NoWholeAfter(queue, n) /\ ~IsWhole(request)
  <1> DEFINE longer == Append(queue, request)
             k == Len(queue)
  <1>1. /\ longer \in Seq(Requests) /\ k \in Nat /\ DOMAIN queue = 1 .. k
        /\ DOMAIN longer = 1 .. (k + 1) /\ longer[k + 1] = request
        /\ \A i \in 1 .. k : longer[i] = queue[i]
    BY AppendProperties, LenProperties
  <1> HIDE DEF longer, k
  <1>2. \A i \in 1 .. k : IsSignal(longer[i]) = IsSignal(queue[i]) /\ IsWhole(longer[i]) = IsWhole(queue[i])
    BY <1>1
  <1>3. n \in Nat /\ n <= k
    BY DEF k
  <1>4. NoWholeAfter(longer, n) <=> NoWholeAfter(queue, n) /\ ~IsWhole(request)
    <2>1. ASSUME NoWholeAfter(longer, n) PROVE NoWholeAfter(queue, n) /\ ~IsWhole(request)
      BY <1>1, <1>2, <1>3, <2>1 DEF NoWholeAfter
    <2>2. ASSUME NoWholeAfter(queue, n), ~IsWhole(request) PROVE NoWholeAfter(longer, n)
      <3> SUFFICES ASSUME NEW i \in DOMAIN longer, i > n PROVE ~IsWhole(longer[i])
        BY DEF NoWholeAfter
      <3>1. i \in 1 .. k \/ i = k + 1
        BY <1>1
      <3>2. QED
        BY <1>1, <1>2, <2>2, <3>1 DEF NoWholeAfter
    <2>3. QED
      BY <2>1, <2>2
  <1>5. SignalsAfter(longer, n)
          = SignalsAfter(queue, n) \cup (IF IsSignal(request) THEN {request.message.id} ELSE {})
    <2>1. ASSUME NEW x \in SignalsAfter(longer, n)
          PROVE  x \in SignalsAfter(queue, n) \/ (IsSignal(request) /\ x = request.message.id)
      <3>1. PICK i \in DOMAIN longer : i > n /\ IsSignal(longer[i]) /\ x = longer[i].message.id
        BY <2>1 DEF SignalsAfter
      <3>2. i \in 1 .. k \/ i = k + 1
        BY <1>1
      <3>3. CASE i \in 1 .. k
        BY <1>1, <1>2, <3>1, <3>3 DEF SignalsAfter
      <3>4. QED
        BY <1>1, <3>1, <3>2, <3>3
    <2>2. ASSUME NEW x \in SignalsAfter(queue, n) PROVE x \in SignalsAfter(longer, n)
      <3>1. PICK i \in DOMAIN queue : i > n /\ IsSignal(queue[i]) /\ x = queue[i].message.id
        BY <2>2 DEF SignalsAfter
      <3>2. i \in DOMAIN longer /\ longer[i] = queue[i]
        BY <1>1
      <3>3. QED
        BY <3>1, <3>2 DEF SignalsAfter
    <2>3. ASSUME IsSignal(request) PROVE request.message.id \in SignalsAfter(longer, n)
      <3>1. k + 1 \in DOMAIN longer /\ k + 1 > n
        BY <1>1, <1>3
      <3>2. QED
        BY <1>1, <2>3, <3>1 DEF SignalsAfter
    <2>4. QED
      BY <2>1, <2>2, <2>3
  <1>6. QED
    BY <1>4, <1>5 DEF longer

\* The first in the queue leaves it.
LEMMA QueueTail ==
  ASSUME NEW queue \in Seq(Requests), queue # <<>>
  PROVE  /\ \A n \in Nat :
              /\ SignalsAfter(Tail(queue), n) = SignalsAfter(queue, n + 1)
              /\ NoWholeAfter(Tail(queue), n) <=> NoWholeAfter(queue, n + 1)
         /\ SignalsAfter(queue, 0)
              = SignalsAfter(queue, 1) \cup (IF IsSignal(Head(queue)) THEN {Head(queue).message.id} ELSE {})
         /\ NoWholeAfter(queue, 0) <=> NoWholeAfter(queue, 1) /\ ~IsWhole(Head(queue))
         /\ Tail(queue) \in Seq(Requests) /\ Head(queue) \in Requests
         /\ 1 \in DOMAIN queue /\ queue[1] = Head(queue)
         /\ \A i \in DOMAIN Tail(queue) : i + 1 \in DOMAIN queue /\ Tail(queue)[i] = queue[i + 1]
         /\ DOMAIN Tail(queue) \subseteq Nat /\ DOMAIN queue \subseteq Nat
  <1> DEFINE rest == Tail(queue)
             k == Len(queue)
  <1>1. /\ k \in Nat /\ k >= 1 /\ DOMAIN queue = 1 .. k
        /\ rest \in Seq(Requests) /\ Len(rest) = k - 1 /\ DOMAIN rest = 1 .. (k - 1)
    BY EmptySeq, HeadTailProperties, LenProperties
  <1>2. Head(queue) = queue[1] /\ queue[1] \in Requests
    BY <1>1, ElementOfSeq
  <1>3. \A i \in 1 .. (k - 1) : rest[i] = queue[i + 1]
    BY <1>1
  <1>h. rest = Tail(queue)
    OBVIOUS
  <1> HIDE DEF rest, k
  <1>4. \A i \in DOMAIN rest : i + 1 \in DOMAIN queue /\ rest[i] = queue[i + 1]
    BY <1>1, <1>3
  <1>5. ASSUME NEW n \in Nat
        PROVE  /\ SignalsAfter(rest, n) = SignalsAfter(queue, n + 1)
               /\ NoWholeAfter(rest, n) <=> NoWholeAfter(queue, n + 1)
    <2>1. ASSUME NEW i \in DOMAIN queue, i > n + 1
          PROVE  i - 1 \in DOMAIN rest /\ i - 1 > n /\ rest[i - 1] = queue[i]
      <3>1. i \in 1 .. k /\ i - 1 \in 1 .. (k - 1)
        BY <1>1, <2>1
      <3>2. (i - 1) + 1 = i /\ i - 1 > n
        BY <3>1, <2>1
      <3>3. QED
        BY <1>1, <1>3, <3>1, <3>2
    <2>2. ASSUME NEW i \in DOMAIN rest, i > n
          PROVE  i + 1 \in DOMAIN queue /\ i + 1 > n + 1 /\ rest[i] = queue[i + 1]
      BY <1>1, <1>4, <2>2
    <2>3. SignalsAfter(rest, n) \subseteq SignalsAfter(queue, n + 1)
      <3> SUFFICES ASSUME NEW x \in SignalsAfter(rest, n) PROVE x \in SignalsAfter(queue, n + 1)
        OBVIOUS
      <3>1. PICK i \in DOMAIN rest : i > n /\ IsSignal(rest[i]) /\ x = rest[i].message.id
        BY DEF SignalsAfter
      <3>2. QED
        BY <2>2, <3>1 DEF SignalsAfter
    <2>4. SignalsAfter(queue, n + 1) \subseteq SignalsAfter(rest, n)
      <3> SUFFICES ASSUME NEW x \in SignalsAfter(queue, n + 1) PROVE x \in SignalsAfter(rest, n)
        OBVIOUS
      <3>1. PICK i \in DOMAIN queue : i > n + 1 /\ IsSignal(queue[i]) /\ x = queue[i].message.id
        BY DEF SignalsAfter
      <3>2. QED
        BY <2>1, <3>1 DEF SignalsAfter
    <2>5. NoWholeAfter(rest, n) => NoWholeAfter(queue, n + 1)
      BY <2>1 DEF NoWholeAfter
    <2>6. NoWholeAfter(queue, n + 1) => NoWholeAfter(rest, n)
      BY <2>2 DEF NoWholeAfter
    <2>7. QED
      BY <2>3, <2>4, <2>5, <2>6
  <1>6. \A i \in DOMAIN queue : i > 0 /\ (i = 1 \/ i > 1)
    BY <1>1
  <1>7. SignalsAfter(queue, 0)
          = SignalsAfter(queue, 1) \cup (IF IsSignal(queue[1]) THEN {queue[1].message.id} ELSE {})
    BY <1>1, <1>6 DEF SignalsAfter
  <1>8. NoWholeAfter(queue, 0) <=> NoWholeAfter(queue, 1) /\ ~IsWhole(queue[1])
    BY <1>1, <1>6 DEF NoWholeAfter
  <1>9. DOMAIN rest \subseteq Nat /\ DOMAIN queue \subseteq Nat /\ 1 \in DOMAIN queue
    BY <1>1
  <1>10. QED
    BY <1>1, <1>2, <1>4, <1>5, <1>7, <1>8, <1>9, <1>h

\* Signals that wait are numbers.
LEMMA SignalsTyped ==
  ASSUME NEW queue \in Seq(Requests), NEW n
  PROVE  SignalsAfter(queue, n) \in SUBSET Nat
  <1> SUFFICES ASSUME NEW i \in DOMAIN queue, IsSignal(queue[i])
      PROVE  queue[i].message.id \in Nat
    BY DEF SignalsAfter
  <1>1. queue[i] \in Requests
    BY ElementOfSeq, LenProperties
  <1>2. QED
    BY <1>1, Requested

\* The invariant's parts, of any state.
Right(view, state, killed) == view = state \/ (killed /\ view.version = Foreign.version)

WholesRight(queue, state, killed) ==
  \A i \in DOMAIN queue :
    IsWhole(queue[i]) /\ NoWholeAfter(queue, i) =>
      Right(With(queue[i].message.view, SignalsAfter(queue, i)), state, killed)

Shows(socket, cast, shown) ==
  IF socket \in cast.todo THEN Applied(shown[socket], cast.message) ELSE shown[socket]

PagesRight(queue, place, cast, shown, state, killed) ==
  NoWholeAfter(queue, 0) =>
    \A s \in Sockets :
      place[s] = "on" => Right(With(Shows(s, cast, shown), SignalsAfter(queue, 0)), state, killed)

WaitsOnce(queue, place) ==
  \A i \in DOMAIN queue : IsSocket(queue[i]) =>
    /\ place[queue[i].socket] \in {"waiting", "broken"}
    /\ \A j \in DOMAIN queue : IsSocket(queue[j]) /\ queue[j].socket = queue[i].socket => i = j

SentTo(place, conns, cast) ==
  /\ \A s \in conns \cup cast.todo : place[s] \in {"on", "broken", "closed"}
  /\ \A s \in cast.dead : place[s] \in {"broken", "closed"}
  /\ \A s \in Sockets : place[s] = "on" => s \in conns

SignalsTold(queue, state, cast) ==
  /\ SignalsAfter(queue, 0) \subseteq state.signals
  /\ ~cast.free /\ cast.message.kind = "signal" => cast.message.id \in state.signals

\* The invariant is its parts, before a step and after it.
LEMMA PartsOfInv ==
  /\ SocketsApart <=> WaitsOnce(dbQueue, dbPlace) /\ SentTo(dbPlace, dbConns, dbCast)
  /\ SignalsKnown <=> SignalsTold(dbQueue, dbState, dbCast)
  /\ LastWholeCounts <=> WholesRight(dbQueue, dbState, dbKilled)
  /\ PagesWillShow <=> PagesRight(dbQueue, dbPlace, dbCast, dbShown, dbState, dbKilled)
  <1>1. SocketsApart <=> WaitsOnce(dbQueue, dbPlace) /\ SentTo(dbPlace, dbConns, dbCast)
    BY DEF SocketsApart, WaitsOnce, SentTo
  <1>2. SignalsKnown <=> SignalsTold(dbQueue, dbState, dbCast)
    BY DEF SignalsKnown, SignalsTold
  <1>3. LastWholeCounts <=> WholesRight(dbQueue, dbState, dbKilled)
    BY DEF LastWholeCounts, WholesRight, ToBeShown, Right
  <1>4. PagesWillShow <=> PagesRight(dbQueue, dbPlace, dbCast, dbShown, dbState, dbKilled)
    BY DEF PagesWillShow, PageWillShow, PagesRight, Shows, ToBeShown, Right
  <1>5. QED
    BY <1>1, <1>2, <1>3, <1>4

\* And it is made of them after the step.
LEMMA PartsOfInvNext ==
  ASSUME DashboardTyped', WaitsOnce(dbQueue', dbPlace'), SentTo(dbPlace', dbConns', dbCast'),
         SignalsTold(dbQueue', dbState', dbCast'),
         ~dbSkipped' => /\ WholesRight(dbQueue', dbState', dbKilled')
                        /\ PagesRight(dbQueue', dbPlace', dbCast', dbShown', dbState', dbKilled')
  PROVE  DashboardInv'
  <1>1. SocketsApart'
    BY DEF SocketsApart, WaitsOnce, SentTo, IsSocket
  <1>2. SignalsKnown'
    BY DEF SignalsKnown, SignalsTold, SignalsAfter, IsSignal, IsSocket
  <1>3. ASSUME ~dbSkipped' PROVE LastWholeCounts' /\ PagesWillShow'
    <2>1. LastWholeCounts'
      BY <1>3 DEF LastWholeCounts, WholesRight, ToBeShown, Right, IsWhole, IsSocket, IsSignal,
         NoWholeAfter, SignalsAfter, With
    <2>2. PagesWillShow'
      BY <1>3 DEF PagesWillShow, PageWillShow, PagesRight, Shows, ToBeShown, Right, IsWhole, IsSocket,
         IsSignal, NoWholeAfter, SignalsAfter, With, Applied
    <2>3. QED
      BY <2>1, <2>2
  <1>4. QED
    BY <1>1, <1>2, <1>3 DEF DashboardInv

\* A signal added to what the engine has and to what is shown.
LEMMA RightGrows ==
  ASSUME NEW view \in Views, NEW state \in Views, NEW killed, NEW id \in Nat,
         Right(view, state, killed)
  PROVE  Right(With(view, {id}), With(state, {id}), killed)
  <1>1. {id} \in SUBSET Nat
    OBVIOUS
  <1>2. With(view, {id}).version = view.version
    BY <1>1, WithFacts
  <1>3. QED
    BY <1>2 DEF Right

\* What the broadcasts of a step rely on.
LEMMA FreeIsNoCast ==
  ASSUME DashboardTyped
  PROVE  /\ dbCast.free => dbCast = NoCast
         /\ ~dbCast.free => dbCast \in Casts
         /\ NoCast.todo = {} /\ NoCast.dead = {} /\ NoCast.free
         /\ \A m \in Messages, conns \in SUBSET Sockets :
               /\ CastOf(m, conns) \in Casts /\ CastOf(m, conns).message = m
               /\ CastOf(m, conns).todo = conns /\ CastOf(m, conns).dead = {} /\ ~CastOf(m, conns).free
  <1>1. NoCast.todo = {} /\ NoCast.dead = {} /\ NoCast.free = TRUE
    BY DEF NoCast
  <1>2. \A c \in Casts : c.free = FALSE
    BY DEF Casts
  <1>3. dbCast = NoCast \/ dbCast \in Casts
    BY DEF DashboardTyped
  <1>4. \A m \in Messages, conns \in SUBSET Sockets :
               /\ CastOf(m, conns) \in Casts /\ CastOf(m, conns).message = m
               /\ CastOf(m, conns).todo = conns /\ CastOf(m, conns).dead = {} /\ ~CastOf(m, conns).free
    BY DEF Casts, CastOf
  <1>5. QED
    BY <1>1, <1>2, <1>3, <1>4

\* What broadcast_json is given is shown in the end: a whole state that is to be
\* shown now, or the signal that the engine's state has got.
LEMMA BroadcastKept ==
  ASSUME DashboardInv, NEW m \in Messages, Broadcast(m),
         dbState' \in [version : Nat, signals : SUBSET Nat], dbKilled' \in BOOLEAN,
         IsFiniteSet(dbState'.signals), dbState.signals \subseteq dbState'.signals,
         m.kind = "state" => Right(m.view, dbState', dbKilled'),
         m.kind = "signal" => dbState' = With(dbState, {m.id}) /\ dbKilled' = dbKilled
  PROVE  DashboardInv'
  <1>1. /\ DashboardTyped
        /\ WaitsOnce(dbQueue, dbPlace) /\ SentTo(dbPlace, dbConns, dbCast)
        /\ SignalsTold(dbQueue, dbState, dbCast)
        /\ ~dbSkipped => /\ WholesRight(dbQueue, dbState, dbKilled)
                         /\ PagesRight(dbQueue, dbPlace, dbCast, dbShown, dbState, dbKilled)
    BY PartsOfInv DEF DashboardInv
  <1>2. UNCHANGED <<dbPlace, dbConns, dbShown>>
    BY DEF Broadcast
  <1>3. /\ dbState \in Views /\ dbState' \in Views /\ dbQueue \in Seq(Requests)
        /\ dbShown \in [Sockets -> Views] /\ dbConns \subseteq Sockets /\ dbSkipped \in BOOLEAN
    BY <1>1 DEF DashboardTyped, Views
  <1>4. m.kind = "signal" => m.id \in Nat /\ m.id \in dbState'.signals
    <2> SUFFICES ASSUME m.kind = "signal" PROVE m.id \in Nat /\ m.id \in dbState'.signals
      OBVIOUS
    <2>1. m.id \in Nat
      BY MessageIs
    <2>2. {m.id} \in SUBSET Nat
      BY <2>1
    <2>3. With(dbState, {m.id}).signals = dbState.signals \cup {m.id}
      BY <1>3, <2>2, WithFacts
    <2>4. QED
      BY <2>1, <2>3
  <1>5. m.kind = "state" \/ m.kind = "signal"
    BY MessageIs
  <1>6. CASE dbConns = {}
    <2>1. UNCHANGED <<dbCast, dbQueue>> /\ dbSkipped' = (dbSkipped \/ dbQueue # <<>>)
      BY <1>6 DEF Broadcast
    <2>2. DashboardTyped'
      BY <1>1, <1>2, <2>1 DEF DashboardTyped
    <2>3. WaitsOnce(dbQueue', dbPlace') /\ SentTo(dbPlace', dbConns', dbCast')
      BY <1>1, <1>2, <2>1
    <2>4. SignalsTold(dbQueue', dbState', dbCast')
      BY <1>1, <2>1 DEF SignalsTold
    <2>5. ASSUME ~dbSkipped'
          PROVE  /\ WholesRight(dbQueue', dbState', dbKilled')
                 /\ PagesRight(dbQueue', dbPlace', dbCast', dbShown', dbState', dbKilled')
      <3>1. dbQueue' = <<>>
        BY <2>1, <2>5
      <3>2. WholesRight(dbQueue', dbState', dbKilled')
        BY <3>1 DEF WholesRight
      <3>3. \A s \in Sockets : dbPlace'[s] # "on"
        BY <1>1, <1>2, <1>6 DEF SentTo
      <3>4. QED
        BY <3>2, <3>3 DEF PagesRight
    <2>6. QED
      BY <2>2, <2>3, <2>4, <2>5, PartsOfInvNext
  <1>7. CASE dbConns # {} /\ LockIsFree
    <2>1. /\ dbCast' = CastOf(m, dbConns) /\ UNCHANGED dbQueue
          /\ dbSkipped' = (dbSkipped /\ m.kind # "state")
      BY <1>7 DEF Broadcast
    <2>2. dbQueue = <<>> /\ dbCast = NoCast
      BY <1>1, <1>7, FreeIsNoCast DEF LockIsFree
    <2>3. /\ dbCast' \in Casts /\ dbCast'.todo = dbConns /\ dbCast'.dead = {} /\ ~dbCast'.free
          /\ dbCast'.message = m
      BY <1>1, <1>3, <2>1, FreeIsNoCast
    <2>4. DashboardTyped'
      BY <1>1, <1>2, <2>1, <2>3 DEF DashboardTyped
    <2>5. WaitsOnce(dbQueue', dbPlace')
      BY <1>1, <1>2, <2>1
    <2>6. SentTo(dbPlace', dbConns', dbCast')
      BY <1>1, <1>2, <2>3 DEF SentTo
    <2>7. SignalsTold(dbQueue', dbState', dbCast')
      BY <1>4, <2>1, <2>2, <2>3, NothingWaits DEF SignalsTold
    <2>8. ASSUME ~dbSkipped'
          PROVE  /\ WholesRight(dbQueue', dbState', dbKilled')
                 /\ PagesRight(dbQueue', dbPlace', dbCast', dbShown', dbState', dbKilled')
      <3>1. WholesRight(dbQueue', dbState', dbKilled')
        BY <2>1, <2>2 DEF WholesRight
      <3>2. ASSUME NEW s \in Sockets, dbPlace'[s] = "on"
            PROVE  Right(With(Shows(s, dbCast', dbShown'), SignalsAfter(dbQueue', 0)), dbState', dbKilled')
        <4>1. s \in dbConns /\ dbShown[s] \in Views
          BY <1>1, <1>2, <1>3, <3>2 DEF SentTo
        <4>2. Shows(s, dbCast', dbShown') = Applied(dbShown[s], m)
          BY <1>2, <2>3, <4>1 DEF Shows
        <4>3. With(Applied(dbShown[s], m), SignalsAfter(dbQueue', 0)) = Applied(dbShown[s], m)
          <5>1. SignalsAfter(dbQueue', 0) = {} /\ Applied(dbShown[s], m) \in Views
            BY <2>1, <2>2, <4>1, NothingWaits, AppliedIs
          <5>2. QED
            BY <5>1, WithFacts
        <4>4. Right(Applied(dbShown[s], m), dbState', dbKilled')
          <5>1. CASE m.kind = "state"
            BY <4>1, <5>1, AppliedIs
          <5>2. CASE m.kind = "signal"
            <6>1. ~dbSkipped
              BY <1>3, <2>1, <2>8, <5>2
            <6>2. NoWholeAfter(dbQueue, 0) /\ SignalsAfter(dbQueue, 0) = {} /\ Shows(s, dbCast, dbShown) = dbShown[s]
              BY <1>1, <2>2, NothingWaits, FreeIsNoCast DEF Shows
            <6>3. Right(With(dbShown[s], {}), dbState, dbKilled)
              BY <1>1, <1>2, <3>2, <6>1, <6>2 DEF PagesRight
            <6>4. Right(dbShown[s], dbState, dbKilled)
              BY <4>1, <6>3, WithFacts
            <6>5. Right(With(dbShown[s], {m.id}), With(dbState, {m.id}), dbKilled)
              BY <1>3, <1>4, <4>1, <5>2, <6>4, RightGrows
            <6>6. QED
              BY <4>1, <5>2, <6>5, AppliedIs
          <5>3. QED
            BY <1>5, <5>1, <5>2
        <4>5. QED
          BY <4>2, <4>3, <4>4
      <3>3. QED
        BY <3>1, <3>2 DEF PagesRight
    <2>9. QED
      BY <2>4, <2>5, <2>6, <2>7, <2>8, PartsOfInvNext
  <1>8. CASE dbConns # {} /\ ~LockIsFree
    <2> DEFINE request == [message |-> m]
    <2>1. /\ dbQueue' = Append(dbQueue, request) /\ UNCHANGED dbCast
          /\ dbSkipped' = (dbSkipped /\ m.kind # "state")
      BY <1>8 DEF Broadcast
    <2>2. /\ request \in Requests /\ ~IsSocket(request) /\ request.message = m
          /\ IsWhole(request) <=> m.kind = "state"
          /\ IsSignal(request) <=> m.kind = "signal"
      BY RequestMade
    <2> HIDE DEF request
    <2>3. /\ Len(dbQueue) \in Nat /\ dbQueue' \in Seq(Requests) /\ Len(dbQueue') = Len(dbQueue) + 1
          /\ DOMAIN dbQueue = 1 .. Len(dbQueue) /\ DOMAIN dbQueue' = 1 .. (Len(dbQueue) + 1)
          /\ dbQueue'[Len(dbQueue) + 1] = request
          /\ \A i \in 1 .. Len(dbQueue) : dbQueue'[i] = dbQueue[i]
      BY <1>3, <2>1, <2>2, AppendProperties, LenProperties
    <2>4. \A n \in Nat : n <= Len(dbQueue) =>
            /\ SignalsAfter(dbQueue', n) = SignalsAfter(dbQueue, n) \cup (IF m.kind = "signal" THEN {m.id} ELSE {})
            /\ NoWholeAfter(dbQueue', n) <=> NoWholeAfter(dbQueue, n) /\ m.kind # "state"
      BY <1>3, <2>1, <2>2, QueueAppend
    <2>5. DashboardTyped'
      BY <1>1, <1>2, <2>1, <2>3 DEF DashboardTyped
    <2>6. WaitsOnce(dbQueue', dbPlace')
      <3>1. \A i \in DOMAIN dbQueue' : IsSocket(dbQueue'[i]) => i \in DOMAIN dbQueue /\ dbQueue'[i] = dbQueue[i]
        BY <2>2, <2>3
      <3>2. QED
        BY <1>1, <1>2, <3>1 DEF WaitsOnce
    <2>7. SentTo(dbPlace', dbConns', dbCast')
      BY <1>1, <1>2, <2>1
    <2>8. SignalsTold(dbQueue', dbState', dbCast')
      BY <1>1, <1>4, <2>1, <2>3, <2>4 DEF SignalsTold
    <2>9. ASSUME ~dbSkipped'
          PROVE  /\ WholesRight(dbQueue', dbState', dbKilled')
                 /\ PagesRight(dbQueue', dbPlace', dbCast', dbShown', dbState', dbKilled')
      <3>1. ASSUME m.kind = "signal"
            PROVE  \A view \in Views, ids \in SUBSET Nat :
                     Right(With(view, ids), dbState, dbKilled)
                       => Right(With(view, ids \cup {m.id}), dbState', dbKilled')
        <4> SUFFICES ASSUME NEW view \in Views, NEW ids \in SUBSET Nat,
                            Right(With(view, ids), dbState, dbKilled)
                     PROVE  Right(With(view, ids \cup {m.id}), With(dbState, {m.id}), dbKilled)
          BY <3>1
        <4>1. With(view, ids) \in Views /\ {m.id} \in SUBSET Nat
          BY <1>4, <3>1, WithFacts
        <4>2. Right(With(With(view, ids), {m.id}), With(dbState, {m.id}), dbKilled)
          BY <1>3, <1>4, <3>1, <4>1, RightGrows
        <4>3. With(With(view, ids), {m.id}) = With(view, ids \cup {m.id})
          BY <4>1, WithFacts
        <4>4. QED
          BY <4>2, <4>3
      <3>2. m.kind = "signal" => ~dbSkipped
        BY <1>3, <2>1, <2>9
      <3>3. ASSUME NEW i \in DOMAIN dbQueue', IsWhole(dbQueue'[i]), NoWholeAfter(dbQueue', i)
            PROVE  Right(With(dbQueue'[i].message.view, SignalsAfter(dbQueue', i)), dbState', dbKilled')
        <4>1. i \in 1 .. Len(dbQueue) \/ i = Len(dbQueue) + 1
          BY <2>3
        <4>2. CASE i = Len(dbQueue) + 1
          <5>1. m.kind = "state" /\ dbQueue'[i] = request /\ m.view \in Views
            BY <2>2, <2>3, <3>3, <4>2, MessageIs
          <5>2. SignalsAfter(dbQueue', i) = {}
            BY <2>3, <4>2 DEF SignalsAfter
          <5>3. QED
            BY <2>2, <5>1, <5>2, WithFacts
        <4>3. CASE i \in 1 .. Len(dbQueue)
          <5>1. i \in Nat /\ i <= Len(dbQueue) /\ i \in DOMAIN dbQueue /\ dbQueue'[i] = dbQueue[i]
            BY <2>3, <4>3
          <5>2. m.kind = "signal" /\ NoWholeAfter(dbQueue, i) /\ IsWhole(dbQueue[i])
            BY <1>5, <2>4, <3>3, <5>1
          <5>3. Right(With(dbQueue[i].message.view, SignalsAfter(dbQueue, i)), dbState, dbKilled)
            BY <1>1, <3>2, <5>1, <5>2 DEF WholesRight
          <5>4. dbQueue[i].message.view \in Views /\ SignalsAfter(dbQueue, i) \in SUBSET Nat
            <6>1. dbQueue[i] \in Requests
              BY <1>3, <4>3, ElementOfSeq
            <6>2. QED
              BY <1>3, <5>2, <6>1, Requested, SignalsTyped
          <5>5. SignalsAfter(dbQueue', i) = SignalsAfter(dbQueue, i) \cup {m.id}
            BY <2>4, <5>1, <5>2
          <5>6. QED
            BY <3>1, <5>1, <5>2, <5>3, <5>4, <5>5
        <4>4. QED
          BY <4>1, <4>2, <4>3
      <3>4. ASSUME NoWholeAfter(dbQueue', 0), NEW s \in Sockets, dbPlace'[s] = "on"
            PROVE  Right(With(Shows(s, dbCast', dbShown'), SignalsAfter(dbQueue', 0)), dbState', dbKilled')
        <4>1. m.kind = "signal" /\ NoWholeAfter(dbQueue, 0)
          BY <1>5, <2>3, <2>4, <3>4
        <4>2. SignalsAfter(dbQueue', 0) = SignalsAfter(dbQueue, 0) \cup {m.id}
          BY <2>3, <2>4, <4>1
        <4>3. Right(With(Shows(s, dbCast, dbShown), SignalsAfter(dbQueue, 0)), dbState, dbKilled)
          BY <1>1, <1>2, <3>2, <3>4, <4>1 DEF PagesRight
        <4>4. Shows(s, dbCast, dbShown) \in Views /\ SignalsAfter(dbQueue, 0) \in SUBSET Nat
          <5>1. dbShown[s] \in Views
            BY <1>3
          <5>2. s \in dbCast.todo => dbCast.message \in Messages
            BY <1>1, FreeIsNoCast DEF Casts
          <5>3. QED
            BY <1>3, <5>1, <5>2, AppliedIs, SignalsTyped DEF Shows
        <4>5. Shows(s, dbCast', dbShown') = Shows(s, dbCast, dbShown)
          BY <1>2, <2>1
        <4>6. QED
          BY <3>1, <4>1, <4>2, <4>3, <4>4, <4>5
      <3>5. QED
        BY <3>3, <3>4 DEF WholesRight, PagesRight
    <2>10. QED
      BY <2>5, <2>6, <2>7, <2>8, <2>9, PartsOfInvNext
  <1>9. QED
    BY <1>6, <1>7, <1>8

\* A socket joins with the whole state of the moment, so it misses nothing, and
\* nothing older that waits may go to it but what it has already.
LEMMA JoinedKept ==
  ASSUME DashboardInv, NEW socket \in Sockets, Joined(socket), NEW queue \in Seq(Requests),
         dbCast.free, dbPlace[socket] \in {"new", "waiting", "broken"},
         UNCHANGED <<dbState, dbCast, dbKilled, dbSkipped>>, dbQueue' = queue,
         \A place \in [Sockets -> {"new", "waiting", "on", "broken", "closed"}] :
            (\A s \in Sockets : s # socket => place[s] = dbPlace[s])
              /\ (dbPlace[socket] = "broken" => place[socket] = "broken") => WaitsOnce(queue, place),
         SignalsAfter(queue, 0) \subseteq dbState.signals,
         SignalsAfter(queue, 0) = SignalsAfter(dbQueue, 0),
         NoWholeAfter(queue, 0) => NoWholeAfter(dbQueue, 0),
         WholesRight(dbQueue, dbState, dbKilled) => WholesRight(queue, dbState, dbKilled)
  PROVE  DashboardInv'
  <1>1. /\ DashboardTyped /\ SentTo(dbPlace, dbConns, dbCast) /\ SignalsTold(dbQueue, dbState, dbCast)
        /\ ~dbSkipped => /\ WholesRight(dbQueue, dbState, dbKilled)
                         /\ PagesRight(dbQueue, dbPlace, dbCast, dbShown, dbState, dbKilled)
    BY PartsOfInv DEF DashboardInv
  <1>2. /\ dbState \in Views /\ dbShown \in [Sockets -> Views] /\ dbCast.todo = {} /\ dbCast.dead = {}
        /\ dbPlace \in [Sockets -> {"new", "waiting", "on", "broken", "closed"}] /\ dbConns \subseteq Sockets
    BY <1>1, FreeIsNoCast DEF DashboardTyped, Views
  <1>3. SignalsTold(dbQueue', dbState', dbCast')
    BY <1>1 DEF SignalsTold
  <1>4. ASSUME ~dbSkipped' PROVE WholesRight(dbQueue', dbState', dbKilled')
    BY <1>1, <1>4
  <1>5. CASE dbPlace[socket] = "broken"
    <2>1. UNCHANGED <<dbConns, dbPlace, dbShown>>
      BY <1>5 DEF Joined
    <2>2. DashboardTyped'
      BY <1>1, <2>1 DEF DashboardTyped
    <2>3. WaitsOnce(dbQueue', dbPlace') /\ SentTo(dbPlace', dbConns', dbCast')
      BY <1>1, <1>2, <1>5, <2>1
    <2>4. ASSUME ~dbSkipped'
          PROVE  PagesRight(dbQueue', dbPlace', dbCast', dbShown', dbState', dbKilled')
      BY <1>1, <2>1, <2>4 DEF PagesRight
    <2>5. QED
      BY <1>3, <1>4, <2>2, <2>3, <2>4, PartsOfInvNext
  <1>6. CASE dbPlace[socket] # "broken"
    <2>1. /\ dbConns' = dbConns \cup {socket}
          /\ dbPlace' = [dbPlace EXCEPT ![socket] = "on"]
          /\ dbShown' = [dbShown EXCEPT ![socket] = dbState]
      BY <1>6 DEF Joined
    <2>2. DashboardTyped'
      BY <1>1, <1>2, <2>1 DEF DashboardTyped
    <2>3. WaitsOnce(dbQueue', dbPlace')
      <3>1. dbPlace' \in [Sockets -> {"new", "waiting", "on", "broken", "closed"}]
        BY <1>2, <2>1
      <3>2. \A s \in Sockets : s # socket => dbPlace'[s] = dbPlace[s]
        BY <1>2, <2>1
      <3>3. WaitsOnce(queue, dbPlace')
        BY <1>6, <3>1, <3>2
      <3>4. QED
        BY <3>3
    <2>4. SentTo(dbPlace', dbConns', dbCast')
      BY <1>1, <1>2, <2>1 DEF SentTo
    <2>5. ASSUME ~dbSkipped'
          PROVE  PagesRight(dbQueue', dbPlace', dbCast', dbShown', dbState', dbKilled')
      <3> SUFFICES ASSUME NoWholeAfter(queue, 0), NEW s \in Sockets, dbPlace'[s] = "on"
                   PROVE  Right(With(Shows(s, dbCast, dbShown'), SignalsAfter(queue, 0)), dbState, dbKilled)
        BY DEF PagesRight
      <3>1. Shows(s, dbCast, dbShown') = dbShown'[s]
        BY <1>2 DEF Shows
      <3>2. CASE s = socket
        <4>1. dbShown'[s] = dbState
          BY <1>2, <2>1, <3>2
        <4>2. With(dbState, SignalsAfter(queue, 0)) = dbState
          BY <1>2, SignalsTyped, WithFacts
        <4>3. QED
          BY <3>1, <4>1, <4>2 DEF Right
      <3>3. CASE s # socket
        <4>1. dbShown'[s] = dbShown[s] /\ dbPlace[s] = "on" /\ Shows(s, dbCast, dbShown) = dbShown[s]
          BY <1>2, <2>1, <3>3 DEF Shows
        <4>2. QED
          BY <1>1, <2>5, <3>1, <4>1 DEF PagesRight
      <3>4. QED
        BY <3>2, <3>3
    <2>6. QED
      BY <1>3, <1>4, <2>2, <2>3, <2>4, <2>5, PartsOfInvNext
  <1>7. QED
    BY <1>5, <1>6

\* A page connects, at once or by waiting for the lock.
LEMMA ConnectKept ==
  ASSUME DashboardInv, Connect
  PROVE  DashboardInv'
  <1>1. /\ DashboardTyped
        /\ WaitsOnce(dbQueue, dbPlace) /\ SentTo(dbPlace, dbConns, dbCast)
        /\ SignalsTold(dbQueue, dbState, dbCast)
        /\ ~dbSkipped => /\ WholesRight(dbQueue, dbState, dbKilled)
                         /\ PagesRight(dbQueue, dbPlace, dbCast, dbShown, dbState, dbKilled)
    BY PartsOfInv DEF DashboardInv
  <1>2. PICK socket \in Sockets :
          /\ dbPlace[socket] = "new"
          /\ IF LockIsFree
             THEN Joined(socket) /\ UNCHANGED dbQueue
             ELSE /\ dbQueue' = Append(dbQueue, [socket |-> socket])
                  /\ dbPlace' = [dbPlace EXCEPT ![socket] = "waiting"]
                  /\ UNCHANGED <<dbConns, dbShown>>
    BY DEF Connect
  <1>3. UNCHANGED <<dbState, dbCast, dbKilled, dbSkipped>>
    BY DEF Connect
  <1>4. /\ dbQueue \in Seq(Requests) /\ dbConns \subseteq Sockets /\ dbState \in Views
        /\ dbPlace \in [Sockets -> {"new", "waiting", "on", "broken", "closed"}]
    BY <1>1 DEF DashboardTyped, Views
  <1>5. CASE LockIsFree
    <2>1. dbQueue = <<>> /\ dbCast.free
      BY <1>5 DEF LockIsFree
    <2>2. \A place : WaitsOnce(dbQueue, place)
      BY <2>1 DEF WaitsOnce
    <2>3. Joined(socket) /\ UNCHANGED dbQueue
      BY <1>2, <1>5
    <2>4. SignalsAfter(dbQueue, 0) \subseteq dbState.signals
      BY <1>1 DEF SignalsTold
    <2>5. QED
      BY <1>2, <1>3, <1>4, <2>1, <2>2, <2>3, <2>4, JoinedKept
  <1>6. CASE ~LockIsFree
    <2> DEFINE request == [socket |-> socket]
    <2>1. /\ dbQueue' = Append(dbQueue, request) /\ UNCHANGED <<dbConns, dbShown>>
          /\ dbPlace' = [dbPlace EXCEPT ![socket] = "waiting"]
      BY <1>2, <1>6
    <2>2. /\ request \in Requests /\ IsSocket(request) /\ request.socket = socket
          /\ ~IsWhole(request) /\ ~IsSignal(request)
      BY RequestMade
    <2> HIDE DEF request
    <2>3. /\ Len(dbQueue) \in Nat /\ dbQueue' \in Seq(Requests) /\ Len(dbQueue') = Len(dbQueue) + 1
          /\ DOMAIN dbQueue = 1 .. Len(dbQueue) /\ DOMAIN dbQueue' = 1 .. (Len(dbQueue) + 1)
          /\ dbQueue'[Len(dbQueue) + 1] = request
          /\ \A i \in 1 .. Len(dbQueue) : dbQueue'[i] = dbQueue[i]
      BY <1>4, <2>1, <2>2, AppendProperties, LenProperties
    <2>4. \A n \in Nat : n <= Len(dbQueue) =>
            /\ SignalsAfter(dbQueue', n) = SignalsAfter(dbQueue, n)
            /\ NoWholeAfter(dbQueue', n) <=> NoWholeAfter(dbQueue, n)
      BY <1>4, <2>1, <2>2, QueueAppend
    <2>5. DashboardTyped'
      BY <1>1, <1>3, <1>4, <2>1, <2>3 DEF DashboardTyped
    <2>6. WaitsOnce(dbQueue', dbPlace')
      <3>1. ASSUME NEW i \in DOMAIN dbQueue', IsSocket(dbQueue'[i])
            PROVE  \/ i = Len(dbQueue) + 1 /\ dbQueue'[i].socket = socket
                   \/ /\ i \in DOMAIN dbQueue /\ dbQueue'[i] = dbQueue[i] /\ dbQueue[i].socket # socket
                      /\ dbPlace[dbQueue[i].socket] \in {"waiting", "broken"}
                      /\ dbQueue[i].socket \in Sockets
        <4>1. CASE i = Len(dbQueue) + 1
          BY <2>2, <2>3, <4>1
        <4>2. CASE i \in 1 .. Len(dbQueue)
          <5>1. i \in DOMAIN dbQueue /\ dbQueue'[i] = dbQueue[i] /\ dbQueue[i] \in Requests
            BY <1>4, <2>3, <4>2, ElementOfSeq
          <5>2. dbPlace[dbQueue[i].socket] \in {"waiting", "broken"} /\ dbQueue[i].socket \in Sockets
            BY <1>1, <3>1, <5>1, Requested DEF WaitsOnce
          <5>3. QED
            BY <1>2, <5>1, <5>2
        <4>3. QED
          BY <2>3, <4>1, <4>2
      <3>2. ASSUME NEW i \in DOMAIN dbQueue', IsSocket(dbQueue'[i])
            PROVE  dbPlace'[dbQueue'[i].socket] \in {"waiting", "broken"}
        BY <1>4, <2>1, <3>1, <3>2
      <3>3. ASSUME NEW i \in DOMAIN dbQueue', IsSocket(dbQueue'[i]),
                   NEW j \in DOMAIN dbQueue', IsSocket(dbQueue'[j]), dbQueue'[j].socket = dbQueue'[i].socket
            PROVE  i = j
        BY <1>1, <3>1, <3>3 DEF WaitsOnce
      <3>4. QED
        BY <3>2, <3>3 DEF WaitsOnce
    <2>7. SentTo(dbPlace', dbConns', dbCast')
      BY <1>1, <1>2, <1>3, <1>4, <2>1 DEF SentTo
    <2>8. SignalsTold(dbQueue', dbState', dbCast')
      BY <1>1, <1>3, <2>3, <2>4 DEF SignalsTold
    <2>9. ASSUME ~dbSkipped'
          PROVE  /\ WholesRight(dbQueue', dbState', dbKilled')
                 /\ PagesRight(dbQueue', dbPlace', dbCast', dbShown', dbState', dbKilled')
      <3>1. ASSUME NEW i \in DOMAIN dbQueue', IsWhole(dbQueue'[i])
            PROVE  i \in DOMAIN dbQueue /\ dbQueue'[i] = dbQueue[i] /\ i \in Nat /\ i <= Len(dbQueue)
        BY <2>2, <2>3, <3>1
      <3>2. WholesRight(dbQueue', dbState', dbKilled')
        BY <1>1, <1>3, <2>4, <2>9, <3>1 DEF WholesRight
      <3>3. ASSUME NoWholeAfter(dbQueue', 0), NEW s \in Sockets, dbPlace'[s] = "on"
            PROVE  Right(With(Shows(s, dbCast', dbShown'), SignalsAfter(dbQueue', 0)), dbState', dbKilled')
        <4>1. dbPlace[s] = "on"
          BY <1>4, <2>1, <3>3
        <4>2. NoWholeAfter(dbQueue, 0) /\ SignalsAfter(dbQueue', 0) = SignalsAfter(dbQueue, 0)
          BY <2>3, <2>4, <3>3
        <4>3. QED
          BY <1>1, <1>3, <2>1, <2>9, <4>1, <4>2 DEF PagesRight
      <3>4. QED
        BY <3>2, <3>3 DEF PagesRight
    <2>10. QED
      BY <2>5, <2>6, <2>7, <2>8, <2>9, PartsOfInvNext
  <1>7. QED
    BY <1>5, <1>6

\* A send that returns has put the message on the page; one that raises met a
\* socket that will not be on again.
LEMMA SendNextKept ==
  ASSUME DashboardInv, SendNext
  PROVE  DashboardInv'
  <1>1. /\ DashboardTyped
        /\ WaitsOnce(dbQueue, dbPlace) /\ SentTo(dbPlace, dbConns, dbCast)
        /\ SignalsTold(dbQueue, dbState, dbCast)
        /\ ~dbSkipped => /\ WholesRight(dbQueue, dbState, dbKilled)
                         /\ PagesRight(dbQueue, dbPlace, dbCast, dbShown, dbState, dbKilled)
    BY PartsOfInv DEF DashboardInv
  <1>2. PICK socket \in dbCast.todo :
          IF dbPlace[socket] = "on"
          THEN /\ dbCast' = [dbCast EXCEPT !.todo = @ \ {socket}]
               /\ dbShown' = [dbShown EXCEPT ![socket] = Applied(@, dbCast.message)]
          ELSE /\ dbCast' = AfterFailure(dbCast, socket)
               /\ UNCHANGED dbShown
    BY DEF SendNext
  <1>3. UNCHANGED <<dbState, dbPlace, dbConns, dbQueue, dbKilled, dbSkipped>>
    BY DEF SendNext
  <1>4. dbCast \in Casts /\ dbShown \in [Sockets -> Views]
    BY <1>1, <1>2, FreeIsNoCast DEF DashboardTyped
  <1>5. socket \in Sockets /\ dbCast.message \in Messages
    BY <1>2, <1>4 DEF Casts
  <1>6. /\ dbCast' \in Casts /\ dbCast'.message = dbCast.message /\ dbCast'.todo = dbCast.todo \ {socket}
        /\ dbCast'.free = dbCast.free
        /\ dbPlace[socket] = "on" => dbCast'.dead = dbCast.dead
        /\ dbPlace[socket] # "on" => dbCast'.dead = dbCast.dead \cup {socket}
    <2>1. CASE dbPlace[socket] = "on"
      <3>1. dbCast' = [dbCast EXCEPT !.todo = @ \ {socket}]
        BY <1>2, <2>1
      <3>2. dbCast' = [message |-> dbCast.message, todo |-> dbCast.todo \ {socket},
                       dead |-> dbCast.dead, free |-> dbCast.free]
        BY <1>4, <3>1 DEF Casts
      <3>3. dbCast.todo \ {socket} \in SUBSET Sockets
        BY <1>4 DEF Casts
      <3>4. dbCast' \in Casts
        BY <1>4, <3>2, <3>3 DEF Casts
      <3>5. QED
        BY <2>1, <3>2, <3>4
    <2>2. CASE dbPlace[socket] # "on"
      <3>1. dbCast' = [dbCast EXCEPT !.todo = @ \ {socket}, !.dead = @ \cup {socket}]
        BY <1>2, <2>2 DEF AfterFailure
      <3>2. dbCast'.dead = dbCast.dead \cup {socket} /\ dbCast'.todo = dbCast.todo \ {socket}
        BY <1>4, <3>1 DEF Casts
      <3>3. dbCast' \in Casts
        <4>1. dbCast.dead \cup {socket} \in SUBSET Sockets /\ dbCast.todo \ {socket} \in SUBSET Sockets
          BY <1>4, <1>5 DEF Casts
        <4>2. dbCast' = [message |-> dbCast.message, todo |-> dbCast.todo \ {socket},
                         dead |-> dbCast.dead \cup {socket}, free |-> FALSE]
          BY <1>4, <3>1 DEF Casts
        <4>3. QED
          BY <1>5, <4>1, <4>2 DEF Casts
      <3>4. QED
        BY <1>4, <2>2, <3>1, <3>2, <3>3 DEF Casts
    <2>3. QED
      BY <2>1, <2>2
  <1>7. /\ dbShown' \in [Sockets -> Views]
        /\ \A s \in Sockets : s # socket => dbShown'[s] = dbShown[s]
        /\ dbPlace[socket] = "on" => dbShown'[socket] = Applied(dbShown[socket], dbCast.message)
    <2>1. Applied(dbShown[socket], dbCast.message) \in Views
      BY <1>4, <1>5, AppliedIs
    <2>2. QED
      BY <1>2, <1>4, <1>5, <2>1
  <1>8. DashboardTyped'
    BY <1>1, <1>3, <1>6, <1>7 DEF DashboardTyped
  <1>9. SentTo(dbPlace', dbConns', dbCast')
    BY <1>1, <1>2, <1>3, <1>6 DEF SentTo
  <1>10. SignalsTold(dbQueue', dbState', dbCast')
    BY <1>1, <1>3, <1>6 DEF SignalsTold
  <1>11. ASSUME ~dbSkipped'
         PROVE  PagesRight(dbQueue', dbPlace', dbCast', dbShown', dbState', dbKilled')
    <2>1. ASSUME NEW s \in Sockets, dbPlace'[s] = "on"
          PROVE  Shows(s, dbCast', dbShown') = Shows(s, dbCast, dbShown)
      BY <1>2, <1>3, <1>6, <1>7, <2>1 DEF Shows
    <2>2. QED
      BY <1>1, <1>3, <1>11, <2>1 DEF PagesRight
  <1>12. QED
    BY <1>1, <1>3, <1>8, <1>9, <1>10, <1>11, PartsOfInvNext

\* The broadcast that ends drops the sockets that raised; none of them is on.
LEMMA CastEndsKept ==
  ASSUME DashboardInv, CastEnds
  PROVE  DashboardInv'
  <1>1. /\ DashboardTyped
        /\ WaitsOnce(dbQueue, dbPlace) /\ SentTo(dbPlace, dbConns, dbCast)
        /\ SignalsTold(dbQueue, dbState, dbCast)
        /\ ~dbSkipped => /\ WholesRight(dbQueue, dbState, dbKilled)
                         /\ PagesRight(dbQueue, dbPlace, dbCast, dbShown, dbState, dbKilled)
    BY PartsOfInv DEF DashboardInv
  <1>2. /\ dbCast.todo = {} /\ dbConns' = dbConns \ dbCast.dead /\ dbCast' = NoCast
        /\ UNCHANGED <<dbState, dbPlace, dbQueue, dbShown, dbKilled, dbSkipped>>
    BY DEF CastEnds
  <1>3. NoCast.todo = {} /\ NoCast.dead = {} /\ NoCast.free
    BY <1>1, FreeIsNoCast
  <1>4. DashboardTyped'
    BY <1>1, <1>2 DEF DashboardTyped
  <1>5. SentTo(dbPlace', dbConns', dbCast')
    BY <1>1, <1>2, <1>3 DEF SentTo
  <1>6. SignalsTold(dbQueue', dbState', dbCast')
    BY <1>1, <1>2, <1>3 DEF SignalsTold
  <1>7. \A s : Shows(s, dbCast', dbShown') = Shows(s, dbCast, dbShown)
    BY <1>2, <1>3 DEF Shows
  <1>8. ASSUME ~dbSkipped'
        PROVE  PagesRight(dbQueue', dbPlace', dbCast', dbShown', dbState', dbKilled')
    BY <1>1, <1>2, <1>7, <1>8 DEF PagesRight
  <1>9. QED
    BY <1>1, <1>2, <1>4, <1>5, <1>6, <1>8, PartsOfInvNext

\* The first in the queue gets the lock: a socket joins, a message is sent.
LEMMA HandedOnKept ==
  ASSUME DashboardInv, LockHandedOn
  PROVE  DashboardInv'
  <1>1. /\ DashboardTyped
        /\ WaitsOnce(dbQueue, dbPlace) /\ SentTo(dbPlace, dbConns, dbCast)
        /\ SignalsTold(dbQueue, dbState, dbCast)
        /\ ~dbSkipped => /\ WholesRight(dbQueue, dbState, dbKilled)
                         /\ PagesRight(dbQueue, dbPlace, dbCast, dbShown, dbState, dbKilled)
    BY PartsOfInv DEF DashboardInv
  <1> DEFINE next == Head(dbQueue)
             rest == Tail(dbQueue)
  <1>2. /\ dbCast.free /\ dbQueue # <<>> /\ dbQueue' = rest
        /\ UNCHANGED <<dbState, dbKilled, dbSkipped>>
        /\ IF IsSocket(next)
           THEN Joined(next.socket) /\ UNCHANGED dbCast
           ELSE dbCast' = CastOf(next.message, dbConns) /\ UNCHANGED <<dbConns, dbPlace, dbShown>>
    BY DEF LockHandedOn, IsSocket
  <1>3. /\ dbQueue \in Seq(Requests) /\ dbConns \in SUBSET Sockets /\ dbState \in Views
        /\ dbShown \in [Sockets -> Views]
        /\ dbPlace \in [Sockets -> {"new", "waiting", "on", "broken", "closed"}]
    BY <1>1 DEF DashboardTyped, Views
  <1>4. /\ rest \in Seq(Requests) /\ next \in Requests
        /\ 1 \in DOMAIN dbQueue /\ dbQueue[1] = next
        /\ \A i \in DOMAIN rest : i + 1 \in DOMAIN dbQueue /\ rest[i] = dbQueue[i + 1]
        /\ DOMAIN rest \subseteq Nat \ {0} /\ DOMAIN dbQueue \subseteq Nat
        /\ \A n \in Nat : /\ SignalsAfter(rest, n) = SignalsAfter(dbQueue, n + 1)
                          /\ NoWholeAfter(rest, n) <=> NoWholeAfter(dbQueue, n + 1)
        /\ SignalsAfter(dbQueue, 0)
             = SignalsAfter(dbQueue, 1) \cup (IF IsSignal(next) THEN {next.message.id} ELSE {})
        /\ NoWholeAfter(dbQueue, 0) <=> NoWholeAfter(dbQueue, 1) /\ ~IsWhole(next)
    <2>1. rest \in Seq(Requests) /\ dbQueue # <<>>
      BY <1>2, <1>3, QueueTail
    <2>2. DOMAIN rest \subseteq Nat \ {0}
      BY <2>1, LenProperties
    <2>3. QED
      BY <1>3, <2>1, <2>2, QueueTail
  <1> HIDE DEF next, rest
  <1>5. /\ SignalsAfter(rest, 0) = SignalsAfter(dbQueue, 1)
        /\ NoWholeAfter(rest, 0) <=> NoWholeAfter(dbQueue, 1)
    BY <1>4
  <1>6. SignalsAfter(rest, 0) \subseteq dbState.signals
    BY <1>1, <1>4, <1>5 DEF SignalsTold
  <1>7. WholesRight(dbQueue, dbState, dbKilled) => WholesRight(rest, dbState, dbKilled)
    <2> SUFFICES ASSUME WholesRight(dbQueue, dbState, dbKilled), NEW i \in DOMAIN rest,
                        IsWhole(rest[i]), NoWholeAfter(rest, i)
                 PROVE  Right(With(rest[i].message.view, SignalsAfter(rest, i)), dbState, dbKilled)
      BY DEF WholesRight
    <2>1. i \in Nat /\ i + 1 \in DOMAIN dbQueue /\ rest[i] = dbQueue[i + 1]
      BY <1>4
    <2>2. NoWholeAfter(dbQueue, i + 1) /\ SignalsAfter(rest, i) = SignalsAfter(dbQueue, i + 1)
      BY <1>4, <2>1
    <2>3. QED
      BY <2>1, <2>2 DEF WholesRight
  <1>8. ASSUME NEW place, NEW socket,
               \A i \in DOMAIN rest : IsSocket(rest[i]) => place[rest[i].socket] = dbPlace[rest[i].socket]
        PROVE  WaitsOnce(rest, place)
    <2>0. \A i, j \in DOMAIN dbQueue :
            /\ IsSocket(dbQueue[i]) => dbPlace[dbQueue[i].socket] \in {"waiting", "broken"}
            /\ IsSocket(dbQueue[i]) /\ IsSocket(dbQueue[j]) /\ dbQueue[j].socket = dbQueue[i].socket => i = j
      BY <1>1 DEF WaitsOnce
    <2>1. ASSUME NEW i \in DOMAIN rest, IsSocket(rest[i])
          PROVE  place[rest[i].socket] \in {"waiting", "broken"}
      <3>1. i + 1 \in DOMAIN dbQueue /\ rest[i] = dbQueue[i + 1]
        BY <1>4
      <3>2. dbPlace[rest[i].socket] \in {"waiting", "broken"}
        BY <2>0, <2>1, <3>1
      <3>3. QED
        BY <1>8, <2>1, <3>2
    <2>2. ASSUME NEW i \in DOMAIN rest, IsSocket(rest[i]),
                 NEW j \in DOMAIN rest, IsSocket(rest[j]), rest[j].socket = rest[i].socket
          PROVE  i = j
      <3>0. /\ i + 1 \in DOMAIN dbQueue /\ rest[i] = dbQueue[i + 1] /\ i \in Nat
            /\ j + 1 \in DOMAIN dbQueue /\ rest[j] = dbQueue[j + 1] /\ j \in Nat
        BY <1>4
      <3>1. i + 1 = j + 1 /\ i \in Nat /\ j \in Nat
        BY <2>0, <2>2, <3>0
      <3>2. QED
        BY <3>1
    <2>3. QED
      BY <2>1, <2>2 DEF WaitsOnce
  <1>9. CASE IsSocket(next)
    <2>1. /\ next.socket \in Sockets /\ ~IsWhole(next) /\ ~IsSignal(next)
          /\ dbPlace[next.socket] \in {"new", "waiting", "broken"}
      BY <1>1, <1>4, <1>9, Requested DEF WaitsOnce
    <2>2. ASSUME NEW i \in DOMAIN rest, IsSocket(rest[i])
          PROVE  rest[i].socket # next.socket /\ rest[i].socket \in Sockets
      <3>1. i + 1 # 1 /\ i + 1 \in DOMAIN dbQueue /\ rest[i] = dbQueue[i + 1]
        BY <1>4
      <3>2. rest[i].socket # next.socket
        BY <1>1, <1>4, <1>9, <2>2, <3>1 DEF WaitsOnce
      <3>3. rest[i] \in Requests
        BY <1>4, ElementOfSeq, LenProperties
      <3>4. QED
        BY <2>2, <3>2, <3>3, Requested
    <2>3. ASSUME NEW place, \A s \in Sockets : s # next.socket => place[s] = dbPlace[s]
          PROVE  WaitsOnce(rest, place)
      BY <1>8, <2>2, <2>3
    <2>4. /\ SignalsAfter(rest, 0) = SignalsAfter(dbQueue, 0)
          /\ NoWholeAfter(rest, 0) => NoWholeAfter(dbQueue, 0)
      BY <1>4, <1>5, <2>1
    <2>5. Joined(next.socket) /\ UNCHANGED <<dbState, dbCast, dbKilled, dbSkipped>>
      BY <1>2, <1>9
    <2>6. QED
      BY <1>2, <1>4, <1>6, <1>7, <2>1, <2>3, <2>4, <2>5, JoinedKept
  <1>10. CASE ~IsSocket(next)
    <2> DEFINE m == next.message
    <2>1. /\ IsWhole(next) \/ IsSignal(next)
          /\ IsWhole(next) => m.kind = "state" /\ m.view \in Views
          /\ IsSignal(next) => m.kind = "signal" /\ m.id \in Nat
          /\ m \in Messages
      BY <1>4, <1>10, Requested DEF IsWhole, IsSignal
    <2>m. m = next.message
      OBVIOUS
    <2> HIDE DEF m
    <2>2. /\ dbCast' = CastOf(m, dbConns) /\ UNCHANGED <<dbConns, dbPlace, dbShown>>
          /\ dbCast = NoCast /\ dbCast.todo = {}
      BY <1>1, <1>2, <1>10, <2>m, FreeIsNoCast
    <2>3. /\ dbCast' \in Casts /\ dbCast'.todo = dbConns /\ dbCast'.dead = {} /\ ~dbCast'.free
          /\ dbCast'.message = m
      BY <1>1, <1>3, <2>1, <2>2, FreeIsNoCast
    <2>4. DashboardTyped'
      BY <1>1, <1>2, <1>4, <2>2, <2>3 DEF DashboardTyped
    <2>5. WaitsOnce(dbQueue', dbPlace')
      BY <1>2, <1>8, <2>2
    <2>6. SentTo(dbPlace', dbConns', dbCast')
      BY <1>1, <2>2, <2>3 DEF SentTo
    <2>7. SignalsTold(dbQueue', dbState', dbCast')
      BY <1>1, <1>2, <1>4, <1>6, <2>1, <2>3, <2>m DEF SignalsTold
    <2>8. ASSUME ~dbSkipped'
          PROVE  PagesRight(dbQueue', dbPlace', dbCast', dbShown', dbState', dbKilled')
      <3> SUFFICES ASSUME NoWholeAfter(rest, 0), NEW s \in Sockets, dbPlace[s] = "on"
                   PROVE  Right(With(Shows(s, dbCast', dbShown), SignalsAfter(rest, 0)), dbState, dbKilled)
        BY <1>2, <2>2 DEF PagesRight
      <3>1. s \in dbConns /\ dbShown[s] \in Views
        BY <1>1, <1>3 DEF SentTo
      <3>2. Shows(s, dbCast', dbShown) = Applied(dbShown[s], m)
        BY <2>3, <3>1 DEF Shows
      <3>3. CASE IsWhole(next)
        <4>1. Right(With(m.view, SignalsAfter(dbQueue, 1)), dbState, dbKilled)
          BY <1>1, <1>2, <1>4, <1>5, <2>8, <2>m, <3>3 DEF WholesRight
        <4>2. Applied(dbShown[s], m) = m.view
          BY <2>1, <3>1, <3>3, AppliedIs
        <4>3. QED
          BY <1>5, <3>2, <4>1, <4>2
      <3>4. CASE IsSignal(next)
        <4>1. ~IsWhole(next)
          BY <1>4, <3>4, Requested
        <4>2. NoWholeAfter(dbQueue, 0) /\ SignalsAfter(dbQueue, 0) = SignalsAfter(rest, 0) \cup {m.id}
          BY <1>4, <1>5, <2>m, <3>4, <4>1
        <4>3. Shows(s, dbCast, dbShown) = dbShown[s]
          BY <2>2 DEF Shows
        <4>4. Right(With(dbShown[s], SignalsAfter(rest, 0) \cup {m.id}), dbState, dbKilled)
          BY <1>1, <1>2, <2>8, <4>2, <4>3 DEF PagesRight
        <4>5. SignalsAfter(rest, 0) \in SUBSET Nat /\ {m.id} \in SUBSET Nat
          BY <1>4, <2>1, <3>4, SignalsTyped
        <4>6. /\ Applied(dbShown[s], m) = With(dbShown[s], {m.id})
              /\ With(With(dbShown[s], {m.id}), SignalsAfter(rest, 0))
                   = With(dbShown[s], {m.id} \cup SignalsAfter(rest, 0))
          BY <2>1, <3>1, <3>4, <4>5, AppliedIs, WithFacts
        <4>7. {m.id} \cup SignalsAfter(rest, 0) = SignalsAfter(rest, 0) \cup {m.id}
          OBVIOUS
        <4>8. QED
          BY <3>2, <4>4, <4>6, <4>7
      <3>5. QED
        BY <2>1, <3>3, <3>4
    <2>9. QED
      BY <1>1, <1>2, <1>7, <2>4, <2>5, <2>6, <2>7, <2>8, PartsOfInvNext
  <1>11. QED
    BY <1>9, <1>10

\* A socket that breaks or disconnects is not on, and waits no more than before.
LEMMA LeavingKept ==
  ASSUME DashboardInv, Break \/ Disconnect
  PROVE  DashboardInv'
  <1>1. /\ DashboardTyped
        /\ WaitsOnce(dbQueue, dbPlace) /\ SentTo(dbPlace, dbConns, dbCast)
        /\ SignalsTold(dbQueue, dbState, dbCast)
        /\ ~dbSkipped => /\ WholesRight(dbQueue, dbState, dbKilled)
                         /\ PagesRight(dbQueue, dbPlace, dbCast, dbShown, dbState, dbKilled)
    BY PartsOfInv DEF DashboardInv
  <1>2. UNCHANGED <<dbState, dbQueue, dbCast, dbShown, dbKilled, dbSkipped>>
    BY DEF Break, Disconnect
  <1>3. /\ dbPlace \in [Sockets -> {"new", "waiting", "on", "broken", "closed"}]
        /\ dbConns \subseteq Sockets
        /\ \A i \in DOMAIN dbQueue : IsSocket(dbQueue[i]) => dbQueue[i].socket \in Sockets
    <2>1. dbQueue \in Seq(Requests)
      BY <1>1 DEF DashboardTyped
    <2>2. \A i \in DOMAIN dbQueue : dbQueue[i] \in Requests
      BY <2>1, ElementOfSeq, LenProperties
    <2>3. QED
      BY <1>1, <2>2, Requested DEF DashboardTyped
  <1>4. ASSUME NEW socket \in Sockets, NEW place \in {"broken", "closed"},
               dbPlace' = [dbPlace EXCEPT ![socket] = place],
               dbConns' = dbConns \/ (dbConns' = dbConns \ {socket}),
               WaitsOnce(dbQueue', dbPlace'), dbPlace[socket] # "new",
               place = "closed" => dbPlace[socket] = "broken",
               \A s \in dbConns' \cup dbCast'.todo \cup dbCast'.dead : s \in Sockets /\ dbPlace[s] # "waiting"
        PROVE  DashboardInv'
    <2>1. /\ dbPlace' \in [Sockets -> {"new", "waiting", "on", "broken", "closed"}]
          /\ \A s \in Sockets : dbPlace'[s] = IF s = socket THEN place ELSE dbPlace[s]
      BY <1>3, <1>4
    <2>2. DashboardTyped'
      BY <1>1, <1>2, <1>3, <1>4, <2>1 DEF DashboardTyped
    <2>3. SentTo(dbPlace', dbConns', dbCast')
      BY <1>1, <1>2, <1>3, <1>4, <2>1 DEF SentTo
    <2>4. SignalsTold(dbQueue', dbState', dbCast')
      BY <1>1, <1>2
    <2>5. ASSUME ~dbSkipped'
          PROVE  PagesRight(dbQueue', dbPlace', dbCast', dbShown', dbState', dbKilled')
      <3>1. \A s \in Sockets : dbPlace'[s] = "on" => dbPlace[s] = "on"
        BY <1>4, <2>1
      <3>2. QED
        BY <1>1, <1>2, <2>5, <3>1 DEF PagesRight
    <2>6. QED
      BY <1>1, <1>2, <1>4, <2>2, <2>3, <2>4, <2>5, PartsOfInvNext
  <1>5. \A s \in dbConns \cup dbCast.todo \cup dbCast.dead : s \in Sockets /\ dbPlace[s] # "waiting"
    <2>1. \A s \in dbConns \cup dbCast.todo \cup dbCast.dead : dbPlace[s] # "waiting"
      BY <1>1 DEF SentTo
    <2>2. dbCast.todo \subseteq Sockets /\ dbCast.dead \subseteq Sockets
      BY <1>1, FreeIsNoCast DEF Casts
    <2>3. QED
      BY <1>3, <2>1, <2>2
  <1>6. CASE Break
    <2>1. PICK socket \in Sockets :
            dbPlace[socket] \in {"waiting", "on"} /\ dbPlace' = [dbPlace EXCEPT ![socket] = "broken"]
      BY <1>6 DEF Break
    <2>2. dbConns' = dbConns
      BY <1>6 DEF Break
    <2>3. WaitsOnce(dbQueue', dbPlace')
      BY <1>1, <1>2, <1>3, <2>1 DEF WaitsOnce
    <2>4. QED
      BY <1>2, <1>4, <1>5, <2>1, <2>2, <2>3
  <1>7. CASE Disconnect
    <2>1. PICK socket \in Sockets :
            /\ dbPlace[socket] = "broken"
            /\ \A i \in DOMAIN dbQueue : IsSocket(dbQueue[i]) => dbQueue[i].socket # socket
            /\ dbConns' = dbConns \ {socket}
            /\ dbPlace' = [dbPlace EXCEPT ![socket] = "closed"]
      BY <1>7 DEF Disconnect, IsSocket
    <2>2. WaitsOnce(dbQueue', dbPlace')
      BY <1>1, <1>2, <1>3, <2>1 DEF WaitsOnce
    <2>3. QED
      BY <1>2, <1>4, <1>5, <2>1, <2>2
  <1>8. QED
    BY <1>6, <1>7

\* Every step of the manager, the engine, the operator and the sockets.
LEMMA DashboardKept == DashboardInv /\ [DashboardNext]_dbVars => DashboardInv'
  <1> SUFFICES ASSUME DashboardInv, [DashboardNext]_dbVars PROVE DashboardInv'
    OBVIOUS
  <1>1. /\ dbState \in [version : Nat, signals : SUBSET Nat] /\ dbKilled \in BOOLEAN
        /\ IsFiniteSet(dbState.signals) /\ DashboardTyped
    BY DEF DashboardInv, DashboardTyped
  <1>2. CASE UpdateState
    <2>1. /\ dbState' = [dbState EXCEPT !.version = @ + 1] /\ dbKilled' = FALSE
          /\ Broadcast(Whole(dbState'))
      BY <1>2 DEF UpdateState
    <2>2. /\ dbState' \in [version : Nat, signals : SUBSET Nat]
          /\ dbState'.signals = dbState.signals
      BY <1>1, <2>1
    <2>3. /\ Whole(dbState') \in Messages /\ Whole(dbState').kind = "state"
          /\ Whole(dbState').view = dbState'
      BY <2>2 DEF Whole, Messages, Views
    <2>4. IsFiniteSet(dbState'.signals)
      BY <1>1, <2>2
    <2>5. Whole(dbState').kind # "signal"
      BY <2>3
    <2>6. Right(Whole(dbState').view, dbState', dbKilled')
      BY <2>3 DEF Right
    <2>7. QED
      BY <2>1, <2>2, <2>3, <2>4, <2>5, <2>6, BroadcastKept
  <1>3. CASE AddSignal
    <2>1. PICK id \in {Cardinality(dbState.signals)} :
            dbState' = [dbState EXCEPT !.signals = @ \cup {id}] /\ Broadcast(OneSignal(id))
      BY <1>3 DEF AddSignal
    <2>2. dbKilled' = dbKilled
      BY <1>3 DEF AddSignal
    <2>3. id \in Nat
      BY <1>1, <2>1, FS_CardinalityType
    <2>4. /\ dbState' \in [version : Nat, signals : SUBSET Nat]
          /\ dbState.signals \subseteq dbState'.signals /\ dbState' = With(dbState, {id})
      BY <1>1, <2>1, <2>3 DEF With
    <2>5. /\ OneSignal(id) \in Messages /\ OneSignal(id).kind = "signal" /\ OneSignal(id).id = id
      BY <2>3 DEF OneSignal, Messages
    <2>6. dbState'.signals = dbState.signals \cup {id}
      BY <1>1, <2>1
    <2>7. IsFiniteSet(dbState'.signals)
      BY <1>1, <2>6, FS_AddElement
    <2>8. QED
      BY <1>1, <2>1, <2>2, <2>4, <2>5, <2>7, BroadcastKept
  <1>4. CASE KillSwitch
    <2>1. dbKilled' = TRUE /\ Broadcast(Whole(Foreign)) /\ dbState' = dbState
      BY <1>4 DEF KillSwitch
    <2>2. /\ Whole(Foreign) \in Messages /\ Whole(Foreign).kind = "state"
          /\ Whole(Foreign).view = Foreign
      BY DEF Whole, Messages, Views, Foreign
    <2>3. QED
      BY <1>1, <2>1, <2>2, BroadcastKept DEF Right
  <1>5. CASE UNCHANGED dbVars
    <2>1. UNCHANGED <<dbState, dbPlace, dbConns, dbQueue, dbCast, dbShown, dbKilled, dbSkipped>>
      BY <1>5 DEF dbVars
    <2>2. DashboardTyped'
      BY <1>1, <2>1 DEF DashboardTyped
    <2>3. QED
      BY <2>1, <2>2, PartsOfInv, PartsOfInvNext DEF DashboardInv
  <1>6. QED
    BY <1>2, <1>3, <1>4, <1>5, ConnectKept, SendNextKept, CastEndsKept, HandedOnKept, LeavingKept
       DEF DashboardNext

\* Once nothing is being sent or waits, every page that is connected shows the
\* engine's state or the kill switch's, for any number of sockets and updates.
THEOREM PagesDoCatchUp == DashboardSpec => []PagesCatchUp
  <1>1. DashboardInit => DashboardInv
    <2> SUFFICES ASSUME DashboardInit PROVE DashboardInv
      OBVIOUS
    <2>1. /\ dbState = [version |-> 0, signals |-> {}] /\ dbPlace = [s \in Sockets |-> "new"]
          /\ dbShown = [s \in Sockets |-> Blank] /\ dbConns = {} /\ dbQueue = <<>> /\ dbCast = NoCast
          /\ dbKilled = FALSE /\ dbSkipped = FALSE
      BY DEF DashboardInit
    <2>2. IsFiniteSet(dbState.signals) /\ dbQueue \in Seq(Requests)
      BY <2>1, FS_EmptySet, EmptySeq
    <2>3. DashboardTyped
      <3>1. dbState \in [version : Nat, signals : SUBSET Nat] /\ Blank \in Views
        BY <2>1 DEF Blank, Views
      <3>2. dbPlace \in [Sockets -> {"new", "waiting", "on", "broken", "closed"}]
        BY <2>1
      <3>3. dbShown \in [Sockets -> Views]
        BY <2>1, <3>1
      <3>4. dbCast \in {NoCast} \cup Casts /\ dbConns \subseteq Sockets
        BY <2>1
      <3>5. {dbKilled, dbSkipped} \subseteq BOOLEAN
        BY <2>1
      <3>6. QED
        BY <2>2, <3>1, <3>2, <3>3, <3>4, <3>5 DEF DashboardTyped
    <2>4. SocketsApart
      BY <2>1 DEF SocketsApart, NoCast
    <2>5. SignalsKnown
      BY <2>1, NothingWaits DEF SignalsKnown, NoCast
    <2>6. LastWholeCounts /\ PagesWillShow
      BY <2>1 DEF LastWholeCounts, PagesWillShow
    <2>7. QED
      BY <2>3, <2>4, <2>5, <2>6 DEF DashboardInv
  <1>2. DashboardInv => PagesCatchUp
    <2> SUFFICES ASSUME DashboardInv, LockIsFree, ~dbSkipped, NEW s \in Sockets, dbPlace[s] = "on"
                 PROVE  /\ s \in dbConns
                        /\ dbShown[s] = dbState \/ (dbKilled /\ dbShown[s].version = Foreign.version)
      BY DEF PagesCatchUp
    <2>1. DashboardTyped /\ SentTo(dbPlace, dbConns, dbCast)
          /\ PagesRight(dbQueue, dbPlace, dbCast, dbShown, dbState, dbKilled)
      BY PartsOfInv DEF DashboardInv
    <2>2. dbQueue = <<>> /\ dbCast.todo = {} /\ dbShown[s] \in Views
      <3>1. dbQueue = <<>> /\ dbCast.free
        BY DEF LockIsFree
      <3>2. dbCast.todo = {}
        BY <2>1, <3>1, FreeIsNoCast
      <3>3. QED
        BY <2>1, <3>1, <3>2 DEF DashboardTyped
    <2>3. /\ NoWholeAfter(dbQueue, 0) /\ SignalsAfter(dbQueue, 0) = {}
          /\ Shows(s, dbCast, dbShown) = dbShown[s]
      BY <2>2, NothingWaits DEF Shows
    <2>4. Right(With(dbShown[s], {}), dbState, dbKilled)
      BY <2>1, <2>3 DEF PagesRight
    <2>5. With(dbShown[s], {}) = dbShown[s]
      BY <2>2, WithFacts
    <2>6. s \in dbConns
      BY <2>1 DEF SentTo
    <2>7. dbShown[s] = dbState \/ (dbKilled /\ dbShown[s].version = Foreign.version)
      BY <2>4, <2>5 DEF Right
    <2>8. QED
      BY <2>6, <2>7
  <1>3. QED
    BY <1>1, <1>2, DashboardKept, PTL DEF DashboardSpec

-----------------------------------------------------------------------------
(* Two series of bars from one tape.                                       *)

\* The buckets of the two timeframes: a bucket begins at the latest with its
\* print, later prints have no earlier ones, and one of ten seconds lies within
\* one minute.
LEMMA Buckets ==
  ASSUME NEW t \in Nat
  PROVE  /\ BucketStart(t, "10s") = t - (t % 10) /\ BucketStart(t, "1m") = t - (t % 60)
         /\ BucketStart(t, "10s") \in Nat /\ BucketStart(t, "1m") \in Nat
         /\ BucketStart(BucketStart(t, "10s"), "1m") = BucketStart(t, "1m")
         /\ BucketStart(BucketStart(t, "1m"), "1m") = BucketStart(t, "1m")
  <1>1. TimeframeSeconds["10s"] = 10 /\ TimeframeSeconds["1m"] = 60
    BY DEF TimeframeSeconds, Timeframes
  <1>2. BucketStart(t, "10s") = t - (t % 10) /\ \A u : BucketStart(u, "1m") = u - (u % 60)
    BY <1>1 DEF BucketStart
  <1>3. t - (t % 10) \in Nat /\ t - (t % 60) \in Nat
    OBVIOUS
  <1>4. (t - (t % 10)) - ((t - (t % 10)) % 60) = t - (t % 60)
    OBVIOUS
  <1>5. (t - (t % 60)) - ((t - (t % 60)) % 60) = t - (t % 60)
    OBVIOUS
  <1>6. QED
    BY <1>2, <1>3, <1>4, <1>5

\* In the order of the prints.
LEMMA BucketsInOrder ==
  ASSUME NEW t \in Nat, NEW u \in Nat, NEW tf \in Timeframes
  PROVE  /\ t <= u => BucketStart(t, tf) <= BucketStart(u, tf)
         /\ BucketStart(t, "1m") < BucketStart(u, "1m") => BucketStart(t, "10s") < BucketStart(u, "10s")
         /\ BucketStart(t, "10s") > BucketStart(u, "10s") => t > u
         /\ BucketStart(t, "1m") > BucketStart(u, "1m") => t > u
  <1>1. tf = "10s" \/ tf = "1m"
    BY DEF Timeframes
  <1>2. t <= u => t - (t % 10) <= u - (u % 10)
    OBVIOUS
  <1>3. t <= u => t - (t % 60) <= u - (u % 60)
    OBVIOUS
  <1>4. t - (t % 60) < u - (u % 60) => t - (t % 10) < u - (u % 10)
    OBVIOUS
  <1>5. u <= t => u - (u % 10) <= t - (t % 10)
    OBVIOUS
  <1>6. t - (t % 10) > u - (u % 10) => t > u
    OBVIOUS
  <1>7. t - (t % 60) > u - (u % 60) => t > u
    OBVIOUS
  <1>8. QED
    BY <1>1, <1>2, <1>3, <1>4, <1>6, <1>7, Buckets

\* A bar with prints in it is not the empty one.
LEMMA BarHasPrints ==
  ASSUME NEW bar \in Bars
  PROVE  bar # EmptyBar /\ bar.volume \in Nat \ {0}
         /\ bar.high \in Nat /\ bar.low \in Nat
  <1>1. bar.volume \in Nat \ {0} /\ bar.high \in Nat /\ bar.low \in Nat
    BY DEF Bars
  <1>2. EmptyBar.volume = 0
    BY DEF EmptyBar
  <1>3. bar # EmptyBar
    BY <1>1, <1>2
  <1>4. QED
    BY <1>1, <1>3

\* A print adds one to the volume and widens the range to its price.
LEMMA FoldedIs ==
  ASSUME NEW bar \in {EmptyBar} \cup Bars, NEW price \in Nat
  PROVE  /\ Folded(bar, price) \in Bars
         /\ Folded(bar, price).volume = bar.volume + 1
         /\ Folded(bar, price).low <= price /\ price <= Folded(bar, price).high
         /\ bar = EmptyBar => /\ Folded(bar, price) = FirstPrint(price)
                              /\ Folded(bar, price).low = price /\ Folded(bar, price).high = price
         /\ bar # EmptyBar =>
               /\ Folded(bar, price).high = IF bar.high >= price THEN bar.high ELSE price
               /\ Folded(bar, price).low = IF bar.low <= price THEN bar.low ELSE price
  <1>1. CASE bar = EmptyBar
    <2>1. Folded(bar, price) = [open |-> price, high |-> price, low |-> price, close |-> price,
                                volume |-> 1]
      BY <1>1 DEF Folded, FirstPrint
    <2>2. bar.volume = 0
      BY <1>1 DEF EmptyBar
    <2>3. QED
      BY <1>1, <2>1, <2>2 DEF Bars, FirstPrint
  <1>2. CASE bar # EmptyBar
    <2>1. bar \in Bars /\ bar.high \in Int /\ bar.low \in Int
      BY <1>2 DEF Bars
    <2>2. /\ Max({bar.high, price}) = IF bar.high >= price THEN bar.high ELSE price
          /\ Min({bar.low, price}) = IF bar.low <= price THEN bar.low ELSE price
      BY <2>1, MaxOfTwo, MinOfTwo
    <2>3. Folded(bar, price) = [open |-> bar.open, high |-> Max({bar.high, price}),
                                low |-> Min({bar.low, price}), close |-> price,
                                volume |-> bar.volume + 1]
      BY <1>2, <2>1 DEF Folded, Bars
    <2> DEFINE high == Max({bar.high, price})
               low == Min({bar.low, price})
    <2>4. /\ high \in Nat /\ low \in Nat /\ low <= price /\ price <= high
          /\ bar.open \in Nat /\ bar.volume + 1 \in Nat \ {0}
      BY <2>1, <2>2 DEF Bars
    <2> HIDE DEF high, low
    <2>5. Folded(bar, price) = [open |-> bar.open, high |-> high, low |-> low, close |-> price,
                                volume |-> bar.volume + 1]
      BY <2>3 DEF high, low
    <2>6. high = (IF bar.high >= price THEN bar.high ELSE price)
          /\ low = (IF bar.low <= price THEN bar.low ELSE price)
      BY <2>2 DEF high, low
    <2>7. QED
      BY <1>2, <2>4, <2>5, <2>6 DEF Bars
  <1>3. QED
    BY <1>1, <1>2

Emissions == [ts : Nat, bar : Bars]
\* A builder that has seen no print holds no bar.
Builders == {b \in [bucket : {None} \cup Nat, bar : {EmptyBar} \cup Bars] :
               b.bucket = None => b.bar = EmptyBar}
Emission(bucket, bar) == [ts |-> bucket, bar |-> bar]

\* The series of a builder, with the bar it still holds, before and after a print.
Series(bars, builder) == bars \o Emitted(builder)
Sent(bars, builder, bucket) == bars \o EmittedBy(builder, bucket)
SeriesWith(bars, builder, bucket, price) ==
  Series(Sent(bars, builder, bucket), OnPrint(builder, bucket, price))

\* The print goes on with the bar that is open.
Continues(builder, bucket) == builder.bucket = bucket /\ builder.bar # EmptyBar
Begins(builder, bucket) == ~Late(builder, bucket) /\ ~Continues(builder, bucket)

\* What it then does to the series.
Grows(bars, builder, bucket, price) ==
  /\ OnPrint(builder, bucket, price).bar = Folded(builder.bar, price)
  /\ Series(bars, builder) = Append(bars, Emission(bucket, builder.bar))
  /\ SeriesWith(bars, builder, bucket, price)
       = Append(bars, Emission(bucket, Folded(builder.bar, price)))
Joins(bars, builder, bucket, price) ==
  /\ OnPrint(builder, bucket, price).bar = Folded(EmptyBar, price)
  /\ SeriesWith(bars, builder, bucket, price)
       = Append(Series(bars, builder), Emission(bucket, Folded(EmptyBar, price)))

\* A print leaves a series alone, its last bar takes the print, or a bar begins.
LEMMA SeriesAfterPrint ==
  ASSUME NEW bars \in Seq(Emissions), NEW bucket \in Nat, NEW price \in Nat,
         NEW builder \in Builders
  PROVE  /\ Series(bars, builder) \in Seq(Emissions)
         /\ Sent(bars, builder, bucket) \in Seq(Emissions)
         /\ OnPrint(builder, bucket, price) \in Builders
         /\ Late(builder, bucket) =>
              /\ SeriesWith(bars, builder, bucket, price) = Series(bars, builder)
              /\ OnPrint(builder, bucket, price) = builder
         /\ ~Late(builder, bucket) =>
              /\ OnPrint(builder, bucket, price).bucket = bucket
              /\ OnPrint(builder, bucket, price).bar \in Bars
         /\ Continues(builder, bucket) =>
              ~Late(builder, bucket) /\ builder.bar \in Bars /\ Grows(bars, builder, bucket, price)
         /\ Begins(builder, bucket) => Joins(bars, builder, bucket, price)
  <1> DEFINE before == Series(bars, builder)
             next == OnPrint(builder, bucket, price)
             sent == Sent(bars, builder, bucket)
             after == SeriesWith(bars, builder, bucket, price)
             open == Emission(builder.bucket, builder.bar)
  <1>1. /\ builder.bucket \in {None} \cup Nat /\ builder.bar \in {EmptyBar} \cup Bars
        /\ None \notin Nat /\ (builder.bucket = None => builder.bar = EmptyBar)
        /\ builder = [bucket |-> builder.bucket, bar |-> builder.bar]
    BY DEF None, Builders
  <1>2. ASSUME NEW s \in Seq(Emissions), NEW e \in Emissions
        PROVE  s \o <<e>> = Append(s, e) /\ Append(s, e) \in Seq(Emissions)
    BY AppendProperties, ConcatProperties
  <1>3. ASSUME NEW s \in Seq(Emissions)
        PROVE  s \o <<>> = s
    BY <1>3, ConcatEmptySeq
  <1>4. /\ builder.bar = EmptyBar => Emitted(builder) = <<>>
        /\ builder.bar # EmptyBar => Emitted(builder) = <<open>> /\ open \in Emissions
                                       /\ builder.bucket \in Nat
    BY <1>1 DEF Emitted, Emissions, Emission
  <1>5. before \in Seq(Emissions)
        /\ (builder.bar = EmptyBar => before = bars)
        /\ (builder.bar # EmptyBar => before = Append(bars, open))
    BY <1>2, <1>3, <1>4 DEF Series
  <1>6. sent \in Seq(Emissions) /\ (sent = bars \/ sent = before)
        /\ (builder.bucket # None /\ bucket > builder.bucket => sent = before)
        /\ (~(builder.bucket # None /\ bucket > builder.bucket) => sent = bars)
    BY <1>3, <1>5 DEF EmittedBy, Sent, Series
  <1>0. Continues(builder, bucket) => ~Late(builder, bucket)
    BY <1>1 DEF Continues, Late
  <1>7. CASE Late(builder, bucket)
    <2>1. next = builder
      BY <1>7 DEF OnPrint
    <2>2. sent = bars
      <3>1. builder.bucket \in Nat /\ bucket < builder.bucket
        BY <1>1, <1>7 DEF Late
      <3>2. QED
        BY <1>6, <3>1
    <2>3. after = before
      BY <2>1, <2>2 DEF SeriesWith, Series
    <2>4. QED
      BY <1>0, <1>5, <1>6, <1>7, <2>1, <2>3 DEF Begins
  <1>8. CASE ~Late(builder, bucket)
    <2> DEFINE moves == builder.bucket # None /\ bucket > builder.bucket
               held == IF moves THEN EmptyBar ELSE builder.bar
    <2>1. next = [bucket |-> bucket, bar |-> Folded(held, price)]
      <3>1. CASE moves
        <4>1. Finalized(builder) = [bucket |-> builder.bucket, bar |-> EmptyBar]
          BY <1>1 DEF Finalized
        <4>2. QED
          BY <1>8, <3>1, <4>1 DEF OnPrint
      <3>2. CASE ~moves
        BY <1>8, <3>2 DEF OnPrint
      <3>3. QED
        BY <3>1, <3>2
    <2>2. held \in {EmptyBar} \cup Bars
      BY <1>1
    <2> DEFINE new == Folded(held, price)
    <2>3. new \in Bars
      BY <2>2, FoldedIs
    <2>4. next.bucket = bucket /\ next.bar = new
      BY <2>1
    <2>5. new # EmptyBar /\ Emission(bucket, new) \in Emissions
      BY <2>3, BarHasPrints DEF Emissions, Emission
    <2> HIDE DEF new
    <2>6. Emitted(next) = <<Emission(bucket, new)>>
      BY <2>4, <2>5 DEF Emitted, Emission
    <2>0. next \in Builders
      <3>1. new \in Bars /\ None \notin Nat
        BY <2>3 DEF None
      <3> HIDE DEF new
      <3>2. QED
        BY <2>1, <3>1 DEF Builders, new
    <2> HIDE DEF next
    <2>7. after = Append(sent, Emission(bucket, new))
      <3>1. after = sent \o <<Emission(bucket, new)>>
        BY <2>6 DEF SeriesWith, Series, next
      <3> HIDE DEF after, sent
      <3>2. QED
        BY <1>2, <1>6, <2>5, <3>1
    <2>8. CASE Continues(builder, bucket)
      <3>0. builder.bucket = bucket /\ builder.bar # EmptyBar /\ builder.bar \in Bars
        BY <1>1, <2>8 DEF Continues
      <3>1. ~moves
        BY <3>0
      <3>2. sent = bars /\ held = builder.bar
        BY <1>6, <3>1
      <3>3. before = Append(bars, Emission(bucket, builder.bar))
        BY <1>5, <3>0
      <3>4. new = Folded(builder.bar, price)
        BY <3>2 DEF new
      <3>5. /\ next.bar = Folded(builder.bar, price)
            /\ after = Append(bars, Emission(bucket, Folded(builder.bar, price)))
        BY <2>4, <2>7, <3>2, <3>4
      <3>6. next.bar \in Bars /\ next.bucket = bucket /\ sent \in Seq(Emissions)
        BY <1>6, <2>3, <2>4
      <3> HIDE DEF moves, held
      <3>7. Grows(bars, builder, bucket, price)
        BY <3>3, <3>5 DEF Grows, next
      <3> HIDE DEF before, sent, after, next
      <3>8. QED
        BY <1>5, <1>8, <2>0, <2>8, <3>0, <3>6, <3>7 DEF before, sent, next, Begins
    <2>9. CASE ~Continues(builder, bucket)
      <3>1. held = EmptyBar /\ sent = before
        <4>1. CASE moves
          BY <1>6, <4>1
        <4>2. CASE ~moves
          <5>1. builder.bar = EmptyBar
            BY <1>1, <1>8, <2>9, <4>2 DEF Late, Continues
          <5>2. QED
            BY <1>5, <1>6, <4>2, <5>1
        <4>3. QED
          BY <4>1, <4>2
      <3>2. new = Folded(EmptyBar, price)
        BY <3>1 DEF new
      <3>3. /\ next.bar = Folded(EmptyBar, price)
            /\ after = Append(before, Emission(bucket, Folded(EmptyBar, price)))
        BY <2>4, <2>7, <3>1, <3>2
      <3>4. next.bar \in Bars /\ next.bucket = bucket /\ sent \in Seq(Emissions)
        BY <1>6, <2>3, <2>4
      <3> HIDE DEF moves, held
      <3>5. Joins(bars, builder, bucket, price)
        BY <3>3 DEF Joins, next
      <3> HIDE DEF before, sent, after, next
      <3>6. QED
        BY <1>5, <1>8, <2>0, <2>9, <3>4, <3>5 DEF before, sent, next, Begins
    <2>10. QED
      BY <2>8, <2>9
  <1>9. QED
    BY <1>7, <1>8
\* What becomes of the bar.
LEMMA BarAfterPrint ==
  ASSUME NEW bucket \in Nat, NEW price \in Nat,
         NEW builder \in Builders
  PROVE  /\ Late(builder, bucket) => OnPrint(builder, bucket, price) = builder
         /\ ~Late(builder, bucket) => /\ OnPrint(builder, bucket, price).bucket = bucket
                                     /\ OnPrint(builder, bucket, price).bar \in Bars
         /\ Continues(builder, bucket) =>
              /\ ~Late(builder, bucket)
              /\ OnPrint(builder, bucket, price).bar = Folded(builder.bar, price)
         /\ ~Late(builder, bucket) /\ ~Continues(builder, bucket) =>
              OnPrint(builder, bucket, price).bar = Folded(EmptyBar, price)
  <1> DEFINE bars == <<>>
  <1>1. bars \in Seq(Emissions)
    OBVIOUS
  <1> HIDE DEF bars
  <1> DEFINE before == Series(bars, builder)
             after == SeriesWith(bars, builder, bucket, price)
             next == OnPrint(builder, bucket, price)
  <1>2. Late(builder, bucket) => after = before /\ next = builder
    BY <1>1, SeriesAfterPrint
  <1>3. ~Late(builder, bucket) => next.bucket = bucket /\ next.bar \in Bars
    BY <1>1, SeriesAfterPrint
  <1>4. Continues(builder, bucket) => ~Late(builder, bucket)
    BY <1>1, SeriesAfterPrint
  <1>5. ASSUME Continues(builder, bucket)
        PROVE  next.bar = Folded(builder.bar, price)
    <2>1. Grows(bars, builder, bucket, price)
      BY <1>1, <1>5, SeriesAfterPrint
    <2>2. QED
      BY <2>1 DEF Grows
  <1>6. ASSUME ~Late(builder, bucket), ~Continues(builder, bucket)
        PROVE  next.bar = Folded(EmptyBar, price)
    <2>1. Begins(builder, bucket)
      BY <1>6 DEF Begins
    <2>2. Joins(bars, builder, bucket, price)
      BY <1>1, <2>1, SeriesAfterPrint
    <2>3. QED
      BY <2>2 DEF Joins
  <1>7. QED
    BY <1>2, <1>3, <1>4, <1>5, <1>6

\* What one more bar at the end of a series changes of a minute.
LEMMA WithinAppend ==
  ASSUME NEW bars \in Seq(Emissions), NEW e \in Emissions, NEW minute
  PROVE  /\ Within(Append(bars, e), minute)
              = Within(bars, minute)
                  \cup (IF BucketStart(e.ts, "1m") = minute THEN {Len(bars) + 1} ELSE {})
         /\ Within(bars, minute) \subseteq 1 .. Len(bars) /\ Len(bars) \in Nat
         /\ Append(bars, e)[Len(bars) + 1] = e
         /\ \A i \in 1 .. Len(bars) : Append(bars, e)[i] = bars[i] /\ bars[i] \in Emissions
  <1> DEFINE n == Len(bars)
             longer == Append(bars, e)
  <1>1. n \in Nat /\ DOMAIN bars = 1 .. n /\ DOMAIN longer = 1 .. (n + 1)
        /\ longer[n + 1] = e
        /\ \A i \in 1 .. n : longer[i] = bars[i] /\ bars[i] \in Emissions
    BY LenProperties, AppendProperties, ElementOfSeq
  <1>2. 1 .. (n + 1) = (1 .. n) \cup {n + 1}
    BY <1>1
  <1> HIDE DEF n, longer
  <1>3. /\ Within(longer, minute) = {i \in 1 .. (n + 1) : BucketStart(longer[i].ts, "1m") = minute}
        /\ Within(bars, minute) = {i \in 1 .. n : BucketStart(bars[i].ts, "1m") = minute}
    BY <1>1 DEF Within
  <1>4. Within(longer, minute)
          = Within(bars, minute) \cup (IF BucketStart(e.ts, "1m") = minute THEN {n + 1} ELSE {})
    BY <1>1, <1>2, <1>3
  <1>5. QED
    BY <1>1, <1>3, <1>4 DEF n, longer

\* The volume of a minute is a number.
LEMMA VolumeIsNumber ==
  ASSUME NEW bars \in Seq(Emissions), NEW minute
  PROVE  VolumeWithin(bars, minute) \in Int
  <1> DEFINE n == Len(bars)
             f == [i \in DOMAIN bars |-> bars[i].bar.volume]
             had == Within(bars, minute)
  <1>1. n \in Nat /\ DOMAIN bars = 1 .. n /\ \A i \in 1 .. n : bars[i] \in Emissions
    BY LenProperties, ElementOfSeq
  <1> HIDE DEF n
  <1>2. had \subseteq 1 .. n
    BY <1>1 DEF Within
  <1>3. IsFiniteSet(had)
    BY <1>1, <1>2, FS_Interval, FS_Subset
  <1>4. ASSUME NEW i \in had
        PROVE  f[i] \in Int
    <2>1. bars[i] \in Emissions /\ f[i] = bars[i].bar.volume
      BY <1>1, <1>2
    <2>2. QED
      BY <2>1 DEF Emissions, Bars
  <1>5. VolumeWithin(bars, minute) = SumOver(f, had)
    BY SumSetIs DEF VolumeWithin
  <1> HIDE DEF f, had
  <1>6. QED
    BY <1>3, <1>4, <1>5, SumType

\* A bar adds its volume to its minute, and nothing to another.
LEMMA VolumeAppend ==
  ASSUME NEW bars \in Seq(Emissions), NEW e \in Emissions, NEW minute
  PROVE  VolumeWithin(Append(bars, e), minute)
           = VolumeWithin(bars, minute)
               + (IF BucketStart(e.ts, "1m") = minute THEN e.bar.volume ELSE 0)
  <1> DEFINE n == Len(bars)
             longer == Append(bars, e)
             f == [i \in DOMAIN bars |-> bars[i].bar.volume]
             g == [i \in DOMAIN longer |-> longer[i].bar.volume]
             had == Within(bars, minute)
             has == Within(longer, minute)
  <1>1. /\ has = had \cup (IF BucketStart(e.ts, "1m") = minute THEN {n + 1} ELSE {})
        /\ had \subseteq 1 .. n /\ n \in Nat /\ longer[n + 1] = e
        /\ \A i \in 1 .. n : longer[i] = bars[i] /\ bars[i] \in Emissions
    BY WithinAppend
  <1>2. DOMAIN bars = 1 .. n /\ DOMAIN longer = 1 .. (n + 1)
    BY LenProperties, AppendProperties
  <1>3. /\ \A i \in 1 .. n : f[i] \in Int /\ g[i] = f[i]
        /\ g[n + 1] = e.bar.volume /\ e.bar.volume \in Int
    <2>1. n + 1 \in 1 .. (n + 1) /\ \A i \in 1 .. n : i \in 1 .. (n + 1)
      <3> HIDE DEF n
      <3> QED BY <1>1
    <2>2. ASSUME NEW x \in Emissions
          PROVE  x.bar.volume \in Int
      BY DEF Emissions, Bars
    <2>3. QED
      BY <1>1, <1>2, <2>1, <2>2
  <1>4. VolumeWithin(bars, minute) = SumOver(f, had) /\ VolumeWithin(longer, minute) = SumOver(g, has)
    BY SumSetIs DEF VolumeWithin
  <1>5. IsFiniteSet(had) /\ IsFiniteSet(has)
    <2>1. IsFiniteSet(1 .. n)
      BY <1>1, FS_Interval
    <2>2. IsFiniteSet(1 .. (n + 1))
      BY <1>1, FS_Interval
    <2>3. has \subseteq 1 .. (n + 1)
      BY <1>1
    <2>4. QED
      BY <1>1, <2>1, <2>2, <2>3, FS_Subset
  <1> HIDE DEF n, longer, f, g, had, has
  <1>6. \A i \in had : f[i] \in Int /\ g[i] = f[i]
    BY <1>1, <1>3
  <1>7. SumOver(f, had) \in Int /\ SumOver(g, had) = SumOver(f, had)
    BY <1>5, <1>6, SumType, SumSame
  <1>8. CASE BucketStart(e.ts, "1m") = minute
    <2>1. n + 1 \in has /\ has \ {n + 1} = had
      BY <1>1, <1>8
    <2>2. \A i \in has : g[i] \in Int
      BY <1>1, <1>3, <1>6, <1>8
    <2>3. SumOver(g, has) = g[n + 1] + SumOver(g, has \ {n + 1})
      BY <1>5, <2>1, <2>2, SumRemove
    <2>4. SumOver(g, has) = e.bar.volume + SumOver(f, had)
      BY <1>3, <1>7, <2>1, <2>3
    <2>5. QED
      BY <1>3, <1>4, <1>7, <1>8, <2>4 DEF longer
  <1>9. CASE BucketStart(e.ts, "1m") # minute
    <2>1. has = had
      BY <1>1, <1>9
    <2>2. QED
      BY <1>4, <1>7, <1>9, <2>1 DEF longer
  <1>10. QED
    BY <1>8, <1>9

\* A print that a series takes adds one to the volume of its minute: whether the
\* last bar goes on with it or a bar begins.
LEMMA VolumeAfterPrint ==
  ASSUME NEW bars \in Seq(Emissions), NEW bucket \in Nat, NEW price \in Nat, NEW minute,
         NEW builder \in Builders
  PROVE  /\ VolumeWithin(Series(bars, builder), minute) \in Int
         /\ VolumeWithin(SeriesWith(bars, builder, bucket, price), minute)
              = VolumeWithin(Series(bars, builder), minute)
                  + (IF ~Late(builder, bucket) /\ BucketStart(bucket, "1m") = minute
                     THEN 1 ELSE 0)
  <1> DEFINE before == Series(bars, builder)
             next == OnPrint(builder, bucket, price)
             after == SeriesWith(bars, builder, bucket, price)
             first == Folded(EmptyBar, price)
             more == Folded(builder.bar, price)
             here == BucketStart(bucket, "1m") = minute
  <1>0. builder.bar \in {EmptyBar} \cup Bars
    BY DEF Builders
  <1>1. before \in Seq(Emissions)
    BY SeriesAfterPrint
  <1>2. Late(builder, bucket) => after = before
    BY SeriesAfterPrint
  <1>3. ASSUME Continues(builder, bucket)
        PROVE  /\ ~Late(builder, bucket) /\ builder.bar \in Bars
               /\ before = Append(bars, Emission(bucket, builder.bar))
               /\ after = Append(bars, Emission(bucket, more))
    <2>1. ~Late(builder, bucket) /\ builder.bar \in Bars /\ Grows(bars, builder, bucket, price)
      BY <1>3, SeriesAfterPrint
    <2>2. QED
      BY <2>1 DEF Grows
  <1>10. ASSUME Begins(builder, bucket)
         PROVE  after = Append(before, Emission(bucket, first))
    <2>1. Joins(bars, builder, bucket, price)
      BY <1>10, SeriesAfterPrint
    <2>2. QED
      BY <2>1 DEF Joins
  <1> HIDE DEF before, next, after, first, more, here
  <1>4. VolumeWithin(before, minute) \in Int
    BY <1>1, VolumeIsNumber
  <1>5. ASSUME NEW s \in Seq(Emissions), NEW bar \in Bars
        PROVE  /\ VolumeWithin(s, minute) \in Int
               /\ VolumeWithin(Append(s, Emission(bucket, bar)), minute)
                    = VolumeWithin(s, minute) + (IF here THEN bar.volume ELSE 0)
    <2>1. /\ Emission(bucket, bar) \in Emissions
          /\ Emission(bucket, bar).ts = bucket /\ Emission(bucket, bar).bar = bar
      BY DEF Emission, Emissions
    <2>2. QED
      BY <2>1, VolumeAppend, VolumeIsNumber DEF here
  <1>6. CASE Late(builder, bucket)
    <2>1. VolumeWithin(after, minute) = VolumeWithin(before, minute) + 0
      BY <1>2, <1>4, <1>6
    <2>2. QED
      BY <1>4, <1>6, <2>1 DEF before, after, here
  <1>7. CASE Continues(builder, bucket)
    <2>1. /\ ~Late(builder, bucket) /\ builder.bar \in Bars
          /\ before = Append(bars, Emission(bucket, builder.bar))
          /\ after = Append(bars, Emission(bucket, more))
      BY <1>3, <1>7
    <2>2. more \in Bars /\ more.volume = builder.bar.volume + 1
      BY <2>1, FoldedIs DEF more
    <2>3. builder.bar.volume \in Int
      BY <2>1, BarHasPrints
    <2> DEFINE base == VolumeWithin(bars, minute)
    <2>4. base \in Int /\ VolumeWithin(before, minute) = base + (IF here THEN builder.bar.volume ELSE 0)
      BY <1>5, <2>1
    <2>5. VolumeWithin(after, minute) = base + (IF here THEN more.volume ELSE 0)
      BY <1>5, <2>1, <2>2
    <2> HIDE DEF base
    <2>6. VolumeWithin(after, minute) = VolumeWithin(before, minute) + (IF here THEN 1 ELSE 0)
      BY <2>2, <2>3, <2>4, <2>5
    <2>7. QED
      BY <1>4, <2>1, <2>6 DEF before, after, here
  <1>8. CASE Begins(builder, bucket)
    <2>1. first \in Bars /\ first.volume = 1
      <3>1. EmptyBar.volume = 0
        BY DEF EmptyBar
      <3>2. first \in Bars /\ first.volume = EmptyBar.volume + 1
        BY FoldedIs DEF first
      <3>3. QED
        BY <3>1, <3>2
    <2>2. VolumeWithin(after, minute) = VolumeWithin(before, minute) + (IF here THEN 1 ELSE 0)
      BY <1>1, <1>5, <1>8, <1>10, <2>1
    <2>3. QED
      BY <1>4, <1>8, <2>2 DEF before, after, here, Begins
  <1>9. QED
    BY <1>6, <1>7, <1>8 DEF Begins
(***************************************************************************)
(* Which bars lie within the bars of the minute.                           *)
(***************************************************************************)

Covered(tens, ones, minute) ==
  \A i \in Within(tens, minute) : \E j \in Within(ones, minute) : Covers(ones[j].bar, tens[i].bar)

\* One more bar of a minute covers no less.
LEMMA CoveredStays ==
  ASSUME NEW tens \in Seq(Emissions), NEW ones \in Seq(Emissions), NEW e \in Emissions, NEW minute,
         Covered(tens, ones, minute)
  PROVE  Covered(tens, Append(ones, e), minute)
  <1>1. ASSUME NEW i \in Within(tens, minute)
        PROVE  \E j \in Within(Append(ones, e), minute) : Covers(Append(ones, e)[j].bar, tens[i].bar)
    <2>1. PICK j \in Within(ones, minute) : Covers(ones[j].bar, tens[i].bar)
      BY DEF Covered
    <2>2. Append(ones, e)[j] = ones[j] /\ j \in Within(Append(ones, e), minute)
      BY <2>1, WithinAppend
    <2>3. QED
      BY <2>1, <2>2
  <1>2. QED
    BY <1>1 DEF Covered

\* Nor does a last bar that widens.
LEMMA CoveredWidens ==
  ASSUME NEW tens \in Seq(Emissions), NEW ones \in Seq(Emissions), NEW minute,
         NEW e \in Emissions, NEW wide \in Emissions,
         wide.ts = e.ts, Covers(wide.bar, e.bar), Covered(tens, Append(ones, e), minute)
  PROVE  Covered(tens, Append(ones, wide), minute)
  <1> DEFINE before == Append(ones, e)
             after == Append(ones, wide)
  <1>1. ASSUME NEW i \in Within(tens, minute)
        PROVE  \E j \in Within(after, minute) : Covers(after[j].bar, tens[i].bar)
    <2>1. PICK j \in Within(before, minute) : Covers(before[j].bar, tens[i].bar)
      BY DEF Covered
    <2>2. j \in Within(after, minute)
          /\ (after[j] = before[j] \/ (before[j] = e /\ after[j] = wide))
      <3>1. /\ Within(before, minute)
                = Within(ones, minute)
                    \cup (IF BucketStart(e.ts, "1m") = minute THEN {Len(ones) + 1} ELSE {})
            /\ Within(ones, minute) \subseteq 1 .. Len(ones) /\ before[Len(ones) + 1] = e
            /\ \A k \in 1 .. Len(ones) : before[k] = ones[k]
        BY WithinAppend
      <3>2. /\ Within(after, minute)
                = Within(ones, minute)
                    \cup (IF BucketStart(wide.ts, "1m") = minute THEN {Len(ones) + 1} ELSE {})
            /\ after[Len(ones) + 1] = wide
            /\ \A k \in 1 .. Len(ones) : after[k] = ones[k]
        BY WithinAppend
      <3> HIDE DEF before, after
      <3>3. QED
        BY <2>1, <3>1, <3>2
    <2>3. /\ tens[i].bar.high \in Nat /\ tens[i].bar.low \in Nat
      <3>1. DOMAIN tens = 1 .. Len(tens) /\ i \in DOMAIN tens
        BY LenProperties DEF Within
      <3>2. tens[i] \in Emissions
        BY <3>1, ElementOfSeq
      <3>3. QED
        BY <3>2 DEF Emissions, Bars
    <2>4. /\ e.bar.high \in Nat /\ e.bar.low \in Nat /\ wide.bar.high \in Nat /\ wide.bar.low \in Nat
      BY DEF Emissions, Bars
    <2> HIDE DEF before, after
    <2>5. Covers(after[j].bar, tens[i].bar)
      <3>1. CASE after[j] = before[j]
        BY <2>1, <3>1
      <3>2. CASE before[j] = e /\ after[j] = wide
        BY <2>1, <2>3, <2>4, <3>2 DEF Covers
      <3>3. QED
        BY <2>2, <3>1, <3>2
    <2>6. QED
      BY <2>2, <2>5
  <1>2. QED
    BY <1>1 DEF Covered

\* A bar that the minute's last one covers may join the series, and any may leave
\* its end.
LEMMA CoveredJoin ==
  ASSUME NEW tens \in Seq(Emissions), NEW ones \in Seq(Emissions), NEW minute, NEW x \in Emissions
  PROVE  /\ Covered(Append(tens, x), ones, minute) => Covered(tens, ones, minute)
         /\ \A e \in Emissions :
              Covered(tens, Append(ones, e), minute) /\ Covers(e.bar, x.bar)
                /\ BucketStart(e.ts, "1m") = BucketStart(x.ts, "1m")
                  => Covered(Append(tens, x), Append(ones, e), minute)
  <1> DEFINE longer == Append(tens, x)
  <1>1. /\ Within(longer, minute)
            = Within(tens, minute)
                \cup (IF BucketStart(x.ts, "1m") = minute THEN {Len(tens) + 1} ELSE {})
        /\ Within(tens, minute) \subseteq 1 .. Len(tens) /\ longer[Len(tens) + 1] = x
        /\ \A k \in 1 .. Len(tens) : longer[k] = tens[k]
    BY WithinAppend
  <1> HIDE DEF longer
  <1>2. Covered(longer, ones, minute) => Covered(tens, ones, minute)
    BY <1>1 DEF Covered
  <1>3. ASSUME NEW e \in Emissions, Covered(tens, Append(ones, e), minute), Covers(e.bar, x.bar),
               BucketStart(e.ts, "1m") = BucketStart(x.ts, "1m")
        PROVE  Covered(longer, Append(ones, e), minute)
    <2> DEFINE more == Append(ones, e)
    <2>1. /\ Within(more, minute)
              = Within(ones, minute)
                  \cup (IF BucketStart(e.ts, "1m") = minute THEN {Len(ones) + 1} ELSE {})
          /\ more[Len(ones) + 1] = e
      BY WithinAppend
    <2> HIDE DEF more
    <2>2. ASSUME NEW i \in Within(longer, minute)
          PROVE  \E j \in Within(more, minute) : Covers(more[j].bar, longer[i].bar)
      <3>1. CASE i \in Within(tens, minute)
        <4>1. longer[i] = tens[i]
          BY <1>1, <3>1
        <4>2. QED
          BY <1>3, <3>1, <4>1 DEF Covered, more
      <3>2. CASE i \notin Within(tens, minute)
        <4>1. i = Len(tens) + 1 /\ BucketStart(x.ts, "1m") = minute /\ longer[i] = x
          BY <1>1, <2>2, <3>2
        <4>2. Len(ones) + 1 \in Within(more, minute) /\ more[Len(ones) + 1] = e
          BY <1>3, <2>1, <4>1
        <4>3. QED
          BY <1>3, <4>1, <4>2
      <3>3. QED
        BY <3>1, <3>2
    <2>3. QED
      BY <2>2 DEF Covered, more
  <1>4. QED
    BY <1>2, <1>3 DEF longer

\* A print that widens a bar widens what it covers.
LEMMA FoldedCovers ==
  ASSUME NEW wide \in Bars, NEW bar \in Bars, NEW price \in Nat
  PROVE  /\ Covers(Folded(wide, price), wide)
         /\ Covers(wide, bar) => /\ Covers(Folded(wide, price), bar)
                                 /\ Covers(Folded(wide, price), Folded(bar, price))
  <1>1. /\ Folded(wide, price).high = IF wide.high >= price THEN wide.high ELSE price
        /\ Folded(wide, price).low = IF wide.low <= price THEN wide.low ELSE price
    BY BarHasPrints, FoldedIs
  <1>2. /\ Folded(bar, price).high = IF bar.high >= price THEN bar.high ELSE price
        /\ Folded(bar, price).low = IF bar.low <= price THEN bar.low ELSE price
    BY BarHasPrints, FoldedIs
  <1>3. wide.high \in Nat /\ wide.low \in Nat /\ bar.high \in Nat /\ bar.low \in Nat
    BY BarHasPrints
  <1>4. QED
    BY <1>1, <1>2, <1>3 DEF Covers

\* And the bar of its price alone.
LEMMA FoldedCoversFirst ==
  ASSUME NEW wide \in {EmptyBar} \cup Bars, NEW price \in Nat
  PROVE  Covers(Folded(wide, price), Folded(EmptyBar, price))
  <1>1. Folded(wide, price).low <= price /\ price <= Folded(wide, price).high
    BY FoldedIs
  <1>2. Folded(EmptyBar, price).low = price /\ Folded(EmptyBar, price).high = price
    BY FoldedIs
  <1>3. QED
    BY <1>1, <1>2 DEF Covers
(***************************************************************************)
(* The step of one print.                                                  *)
(***************************************************************************)

\* What the two series were and are, and what the print's bucket is to each.
LEMMA PrintStep ==
  ASSUME FeedTyped, BuildersInStep, NEW t \in PrintTimes, NEW price \in PrintPrices
  PROVE  /\ t \in Nat /\ price \in Nat
         /\ \A tf \in Timeframes :
              /\ fdBuilders[tf] \in Builders /\ fdBars[tf] \in Seq(Emissions)
              /\ BucketStart(t, tf) \in Nat
         /\ "10s" \in Timeframes /\ "1m" \in Timeframes
  <1>1. t \in Nat /\ price \in Nat
    BY FeedAssumption
  <1>2. "10s" \in Timeframes /\ "1m" \in Timeframes /\ \A tf \in Timeframes : tf = "10s" \/ tf = "1m"
    BY DEF Timeframes
  <1>3. \A u \in PrintTimes : \A tf \in Timeframes : BucketStart(u, tf) \in Nat
    <2>1. ASSUME NEW u \in PrintTimes
          PROVE  BucketStart(u, "10s") \in Nat /\ BucketStart(u, "1m") \in Nat
      <3>1. u \in Nat
        BY FeedAssumption
      <3>2. QED
        BY <3>1, Buckets
    <2>2. QED
      BY <1>2, <2>1
  <1>4. \A tf \in Timeframes :
          /\ fdBuilders[tf] \in [bucket : {None} \cup Nat, bar : {EmptyBar} \cup Bars]
          /\ fdBars[tf] \in Seq(Emissions)
    BY DEF FeedTyped, Emissions
  <1>5. ASSUME NEW tf \in Timeframes, fdBuilders[tf].bucket = None
        PROVE  fdBuilders[tf].bar = EmptyBar
    <2>1. CASE \A x \in Timeframes : fdBuilders[x] = [bucket |-> None, bar |-> EmptyBar]
      BY <2>1
    <2>2. CASE \E u \in PrintTimes : \A x \in Timeframes : fdBuilders[x].bucket = BucketStart(u, x)
      <3>1. fdBuilders[tf].bucket \in Nat
        BY <1>3, <2>2
      <3>2. QED
        BY <1>5, <3>1 DEF None
    <2>3. QED
      BY <2>1, <2>2 DEF BuildersInStep
  <1>6. \A tf \in Timeframes : fdBuilders[tf] \in Builders
    BY <1>4, <1>5 DEF Builders
  <1>7. QED
    BY <1>1, <1>2, <1>3, <1>4, <1>6

\* A print that is late for the minute is late for its ten seconds; one that is
\* late for its ten seconds alone belongs to the minute that is open.
LEMMA LateInOrder ==
  ASSUME FeedTyped, BuildersInStep, NEW t \in PrintTimes
  PROVE  /\ Late(fdBuilders["1m"], BucketStart(t, "1m"))
              => Late(fdBuilders["10s"], BucketStart(t, "10s"))
         /\ (/\ Late(fdBuilders["10s"], BucketStart(t, "10s"))
             /\ ~Late(fdBuilders["1m"], BucketStart(t, "1m")))
              => fdBuilders["1m"].bucket = BucketStart(t, "1m")
         /\ fdBuilders["10s"].bucket = BucketStart(t, "10s")
              => fdBuilders["1m"].bucket = BucketStart(t, "1m")
  <1> DEFINE b10 == fdBuilders["10s"].bucket
             b1 == fdBuilders["1m"].bucket
             t10 == BucketStart(t, "10s")
             t1 == BucketStart(t, "1m")
  <1>1. "10s" \in Timeframes /\ "1m" \in Timeframes
    BY DEF Timeframes
  <1>2. t \in Nat
    BY FeedAssumption
  <1>3. t10 \in Nat /\ t1 \in Nat /\ BucketStart(t10, "1m") = t1
    BY <1>2, Buckets
  <1>4. CASE \A x \in Timeframes : fdBuilders[x] = [bucket |-> None, bar |-> EmptyBar]
    <2>1. b10 = None /\ b1 = None
      BY <1>1, <1>4
    <2>2. ~Late(fdBuilders["1m"], t1) /\ ~Late(fdBuilders["10s"], t10)
      BY <2>1 DEF Late
    <2>3. b10 # t10
      <3> HIDE DEF t10, b10
      <3> QED BY <1>3, <2>1 DEF None
    <2>4. QED
      BY <2>2, <2>3
  <1>5. CASE \E u \in PrintTimes : \A x \in Timeframes : fdBuilders[x].bucket = BucketStart(u, x)
    <2>1. PICK u \in PrintTimes : \A x \in Timeframes : fdBuilders[x].bucket = BucketStart(u, x)
      BY <1>5
    <2>2. b10 = BucketStart(u, "10s") /\ b1 = BucketStart(u, "1m")
      BY <1>1, <2>1
    <2>3. u \in Nat
      BY FeedAssumption
    <2>4. b10 \in Nat /\ b1 \in Nat /\ BucketStart(b10, "1m") = b1
      BY <2>2, <2>3, Buckets
    <2>5. t1 < b1 => t10 < b10
      BY <1>1, <1>2, <2>2, <2>3, BucketsInOrder
    <2>6. t10 < b10 => t1 <= b1
      <3>1. BucketStart(u, "10s") > BucketStart(t, "10s") => u > t
        BY <1>1, <1>2, <2>3, BucketsInOrder
      <3>2. t <= u => BucketStart(t, "1m") <= BucketStart(u, "1m")
        BY <1>1, <1>2, <2>3, BucketsInOrder
      <3> DEFINE u10 == BucketStart(u, "10s")
                 u1 == BucketStart(u, "1m")
      <3>3. u10 = b10 /\ u1 = b1
        BY <2>2
      <3> HIDE DEF t10, t1, b10, b1, u10, u1
      <3>4. (u10 > t10 => u > t) /\ (t <= u => t1 <= u1)
        BY <3>1, <3>2 DEF t10, t1, u10, u1
      <3>5. QED
        BY <1>2, <1>3, <2>3, <2>4, <3>3, <3>4
    <2>7. b10 = t10 => b1 = t1
      BY <1>3, <2>4
    <2> HIDE DEF t10, t1, b10, b1
    <2>8. /\ t1 < b1 => t10 < b10
          /\ t10 < b10 /\ ~(t1 < b1) => b1 = t1
          /\ b10 = t10 => b1 = t1
      BY <1>3, <2>4, <2>5, <2>6, <2>7
    <2>9. b10 # None /\ b1 # None
      BY <2>4 DEF None
    <2>10. /\ Late(fdBuilders["1m"], t1) <=> t1 < b1
           /\ Late(fdBuilders["10s"], t10) <=> t10 < b10
      BY <2>9 DEF Late, b10, b1
    <2>11. /\ Late(fdBuilders["1m"], t1) => Late(fdBuilders["10s"], t10)
           /\ Late(fdBuilders["10s"], t10) /\ ~Late(fdBuilders["1m"], t1) => b1 = t1
      BY <2>8, <2>10
    <2>12. QED
      BY <2>8, <2>11 DEF t10, t1, b10, b1
  <1>6. QED
    BY <1>4, <1>5 DEF BuildersInStep

\* What the print does to the state.
LEMMA TapeIs ==
  ASSUME FeedTyped, BuildersInStep, NEW t \in PrintTimes, NEW price \in PrintPrices,
         fdBuilders' = [tf \in Timeframes |-> OnPrint(fdBuilders[tf], BucketStart(t, tf), price)],
         fdBars' = [tf \in Timeframes |->
                      fdBars[tf] \o EmittedBy(fdBuilders[tf], BucketStart(t, tf))],
         NEW tf \in Timeframes
  PROVE  /\ fdBuilders'[tf] = OnPrint(fdBuilders[tf], BucketStart(t, tf), price)
         /\ fdBars'[tf] = Sent(fdBars[tf], fdBuilders[tf], BucketStart(t, tf))
         /\ fdBuilders'[tf] \in Builders /\ fdBars'[tf] \in Seq(Emissions)
         /\ BarsOf(tf) = Series(fdBars[tf], fdBuilders[tf])
         /\ BarsOf(tf)' = SeriesWith(fdBars[tf], fdBuilders[tf], BucketStart(t, tf), price)
  <1>1. /\ fdBuilders'[tf] = OnPrint(fdBuilders[tf], BucketStart(t, tf), price)
        /\ fdBars'[tf] = Sent(fdBars[tf], fdBuilders[tf], BucketStart(t, tf))
    BY DEF Sent
  <1>2. /\ BarsOf(tf) = Series(fdBars[tf], fdBuilders[tf])
        /\ BarsOf(tf)' = fdBars'[tf] \o Emitted(fdBuilders'[tf])
    BY DEF BarsOf, Series, Emitted
  <1>3. BarsOf(tf)' = SeriesWith(fdBars[tf], fdBuilders[tf], BucketStart(t, tf), price)
    BY <1>1, <1>2 DEF SeriesWith, Series
  <1>4. /\ price \in Nat /\ fdBuilders[tf] \in Builders /\ fdBars[tf] \in Seq(Emissions)
        /\ BucketStart(t, tf) \in Nat
    BY PrintStep
  <1>5. /\ OnPrint(fdBuilders[tf], BucketStart(t, tf), price) \in Builders
        /\ Sent(fdBars[tf], fdBuilders[tf], BucketStart(t, tf)) \in Seq(Emissions)
    BY <1>4, SeriesAfterPrint
  <1>6. QED
    BY <1>1, <1>2, <1>3, <1>5

\* Both builders are still at the buckets of one print, and the open bar of ten
\* seconds within the open minute.
LEMMA TapeKeepsOpenBars ==
  ASSUME FeedTyped, BuildersInStep, OpenBarCovered, NEW t \in PrintTimes, NEW price \in PrintPrices,
         fdBuilders' = [tf \in Timeframes |-> OnPrint(fdBuilders[tf], BucketStart(t, tf), price)],
         fdBars' = [tf \in Timeframes |->
                      fdBars[tf] \o EmittedBy(fdBuilders[tf], BucketStart(t, tf))]
  PROVE  BuildersInStep' /\ OpenBarCovered'
  <1> DEFINE t10 == BucketStart(t, "10s")
             t1 == BucketStart(t, "1m")
             b10 == fdBuilders["10s"]
             b1 == fdBuilders["1m"]
             n10 == OnPrint(b10, t10, price)
             n1 == OnPrint(b1, t1, price)
  <1>1. /\ price \in Nat /\ t10 \in Nat /\ t1 \in Nat
        /\ b10 \in Builders /\ fdBars["10s"] \in Seq(Emissions)
        /\ b1 \in Builders /\ fdBars["1m"] \in Seq(Emissions)
    BY PrintStep
  <1>2. fdBuilders'["10s"] = n10 /\ fdBuilders'["1m"] = n1
    BY TapeIs, PrintStep
  <1>3. /\ Late(b1, t1) => Late(b10, t10)
        /\ Late(b10, t10) /\ ~Late(b1, t1) => b1.bucket = t1
        /\ b10.bucket = t10 => b1.bucket = t1
    BY LateInOrder
  <1>4. /\ Late(b10, t10) => n10 = b10
        /\ ~Late(b10, t10) => n10.bucket = t10
        /\ Late(b1, t1) => n1 = b1
        /\ ~Late(b1, t1) => n1.bucket = t1
    <2>1. Late(b10, t10) => n10 = b10
      BY <1>1, BarAfterPrint
    <2>2. ~Late(b10, t10) => n10.bucket = t10
      BY <1>1, BarAfterPrint
    <2>3. Late(b1, t1) => n1 = b1
      BY <1>1, BarAfterPrint
    <2>4. ~Late(b1, t1) => n1.bucket = t1
      BY <1>1, BarAfterPrint
    <2>5. QED
      BY <2>1, <2>2, <2>3, <2>4
  <1>5. /\ b10.bar # EmptyBar => b10.bar \in Bars /\ b1.bar \in Bars /\ Covers(b1.bar, b10.bar)
        /\ b1.bar \in {EmptyBar} \cup Bars
    BY <1>1 DEF OpenBarCovered, Builders
  <1>6. /\ Continues(b10, t10) => ~Late(b10, t10) /\ n10.bar = Folded(b10.bar, price)
        /\ ~Late(b10, t10) /\ ~Continues(b10, t10) => n10.bar = Folded(EmptyBar, price)
        /\ Continues(b1, t1) => ~Late(b1, t1) /\ n1.bar = Folded(b1.bar, price)
        /\ ~Late(b1, t1) => n1.bar \in Bars
        /\ ~Late(b1, t1) /\ ~Continues(b1, t1) => n1.bar = Folded(EmptyBar, price)
    <2>1. Continues(b10, t10) => ~Late(b10, t10) /\ n10.bar = Folded(b10.bar, price)
      BY <1>1, BarAfterPrint
    <2>2. ~Late(b10, t10) /\ ~Continues(b10, t10) => n10.bar = Folded(EmptyBar, price)
      BY <1>1, BarAfterPrint
    <2>3. Continues(b1, t1) => ~Late(b1, t1) /\ n1.bar = Folded(b1.bar, price)
      BY <1>1, BarAfterPrint
    <2>4. ~Late(b1, t1) => n1.bar \in Bars
      BY <1>1, BarAfterPrint
    <2>5. ~Late(b1, t1) /\ ~Continues(b1, t1) => n1.bar = Folded(EmptyBar, price)
      BY <1>1, BarAfterPrint
    <2>6. QED
      BY <2>1, <2>2, <2>3, <2>4, <2>5
  <1> HIDE DEF t10, t1, b10, b1, n10, n1
  <1>7. BuildersInStep'
    <2>1. CASE ~Late(b10, t10)
      <3>1. n10.bucket = t10 /\ n1.bucket = t1
        BY <1>3, <1>4, <2>1
      <3>2. \A tf \in Timeframes : fdBuilders'[tf].bucket = BucketStart(t, tf)
        BY <1>2, <3>1 DEF Timeframes, t10, t1
      <3>3. \E u \in PrintTimes : \A tf \in Timeframes : fdBuilders'[tf].bucket = BucketStart(u, tf)
        BY <3>2
      <3>4. QED
        BY <3>3 DEF BuildersInStep, BucketStart
    <2>2. CASE Late(b10, t10)
      <3>1. n10.bucket = b10.bucket /\ n1.bucket = b1.bucket
        BY <1>3, <1>4, <2>2
      <3>2. b10.bucket # None
        BY <2>2 DEF Late
      <3>3. PICK u \in PrintTimes : \A tf \in Timeframes : fdBuilders[tf].bucket = BucketStart(u, tf)
        BY <3>2 DEF BuildersInStep, b10, Timeframes
      <3>4. \A tf \in Timeframes : fdBuilders'[tf].bucket = BucketStart(u, tf)
        BY <1>2, <3>1, <3>3 DEF Timeframes, b10, b1
      <3>5. \E v \in PrintTimes : \A tf \in Timeframes : fdBuilders'[tf].bucket = BucketStart(v, tf)
        BY <3>4
      <3>6. QED
        BY <3>5 DEF BuildersInStep, BucketStart
    <2>3. QED
      BY <2>1, <2>2
  <1>8. n10.bar # EmptyBar => n1.bar # EmptyBar /\ Covers(n1.bar, n10.bar)
    <2>1. CASE Late(b10, t10)
      <3>1. SUFFICES ASSUME b10.bar # EmptyBar
                     PROVE  n1.bar # EmptyBar /\ Covers(n1.bar, b10.bar)
        BY <1>4, <2>1
      <3>2. b10.bar \in Bars /\ b1.bar \in Bars /\ Covers(b1.bar, b10.bar)
        BY <1>5, <3>1
      <3>3. b1.bar # EmptyBar
        BY <3>2, BarHasPrints
      <3>4. CASE Late(b1, t1)
        BY <1>4, <3>2, <3>3, <3>4
      <3>5. CASE ~Late(b1, t1)
        <4>1. n1.bar = Folded(b1.bar, price) /\ n1.bar \in Bars
          BY <1>3, <1>6, <2>1, <3>3, <3>5 DEF Continues
        <4>2. Covers(Folded(b1.bar, price), b10.bar)
          BY <1>1, <3>2, FoldedCovers
        <4>3. n1.bar # EmptyBar
          BY <4>1, BarHasPrints
        <4>4. QED
          BY <4>1, <4>2, <4>3
      <3>6. QED
        BY <3>4, <3>5
    <2>2. CASE ~Late(b10, t10)
      <3>1. ~Late(b1, t1) /\ n1.bar \in Bars
        BY <1>3, <1>6, <2>2
      <3>2. n1.bar # EmptyBar
        BY <3>1, BarHasPrints
      <3>3. CASE Continues(b10, t10)
        <4>1. b10.bar # EmptyBar /\ b1.bucket = t1
          BY <1>3, <3>3 DEF Continues
        <4>2. b10.bar \in Bars /\ b1.bar \in Bars /\ Covers(b1.bar, b10.bar)
          BY <1>5, <4>1
        <4>3. b1.bar # EmptyBar
          BY <4>2, BarHasPrints
        <4>4. n1.bar = Folded(b1.bar, price) /\ n10.bar = Folded(b10.bar, price)
          BY <1>6, <3>3, <4>1, <4>3 DEF Continues
        <4>5. Covers(Folded(b1.bar, price), Folded(b10.bar, price))
          BY <1>1, <4>2, FoldedCovers
        <4>6. QED
          BY <3>2, <4>4, <4>5
      <3>4. CASE ~Continues(b10, t10)
        <4>1. n10.bar = Folded(EmptyBar, price)
          BY <1>6, <2>2, <3>4
        <4>2. n1.bar = Folded(b1.bar, price) \/ n1.bar = Folded(EmptyBar, price)
          BY <1>6, <3>1
        <4>3. /\ Covers(Folded(b1.bar, price), Folded(EmptyBar, price))
              /\ Covers(Folded(EmptyBar, price), Folded(EmptyBar, price))
          BY <1>1, <1>5, FoldedCoversFirst
        <4>4. QED
          BY <3>2, <4>1, <4>2, <4>3
      <3>5. QED
        BY <3>3, <3>4
    <2>3. QED
      BY <2>1, <2>2
  <1>9. OpenBarCovered'
    BY <1>2, <1>8 DEF OpenBarCovered, Covers
  <1>10. QED
    BY <1>7, <1>9

\* The print joins those the ten seconds missed if it is late for them alone.
LEMMA MissedAfterPrint ==
  ASSUME FeedTyped, NEW p \in [ts : PrintTimes, price : PrintPrices, late : SUBSET Timeframes],
         fdPrints' = Append(fdPrints, p), NEW minute
  PROVE  /\ Cardinality(Missed(minute)) \in Nat
         /\ Cardinality(Missed(minute)')
              = Cardinality(Missed(minute))
                  + (IF BucketStart(p.ts, "1m") = minute /\ p.late = {"10s"} THEN 1 ELSE 0)
  <1> DEFINE n == Len(fdPrints)
             counts == BucketStart(p.ts, "1m") = minute /\ p.late = {"10s"}
             Were == Missed(minute)
             Are == Missed(minute)'
  <1>1. /\ n \in Nat /\ DOMAIN fdPrints = 1 .. n /\ DOMAIN fdPrints' = 1 .. (n + 1)
        /\ fdPrints'[n + 1] = p /\ \A i \in 1 .. n : fdPrints'[i] = fdPrints[i]
    BY LenProperties, AppendProperties DEF FeedTyped
  <1>2. /\ Were = {i \in DOMAIN fdPrints : BucketStart(fdPrints[i].ts, "1m") = minute
                                             /\ fdPrints[i].late = {"10s"}}
        /\ Are = {i \in DOMAIN fdPrints' : BucketStart(fdPrints'[i].ts, "1m") = minute
                                             /\ fdPrints'[i].late = {"10s"}}
    BY DEF Missed, BucketStart
  <1> HIDE DEF n
  <1>3. 1 .. (n + 1) = (1 .. n) \cup {n + 1} /\ n + 1 \notin 1 .. n
    BY <1>1
  <1>4. /\ Were \subseteq 1 .. n /\ n + 1 \notin Were
        /\ Are = Were \cup (IF counts THEN {n + 1} ELSE {})
    <2> HIDE DEF Were, Are
    <2>1. /\ Were = {i \in 1 .. n : BucketStart(fdPrints[i].ts, "1m") = minute
                                      /\ fdPrints[i].late = {"10s"}}
          /\ Are = {i \in (1 .. n) \cup {n + 1} : BucketStart(fdPrints'[i].ts, "1m") = minute
                                      /\ fdPrints'[i].late = {"10s"}}
      BY <1>1, <1>2, <1>3
    <2>2. QED
      BY <1>1, <1>3, <2>1
  <1>5. IsFiniteSet(Were)
    <2> HIDE DEF Were
    <2>1. IsFiniteSet(1 .. n)
      BY <1>1, FS_Interval
    <2>2. QED
      BY <1>4, <2>1, FS_Subset
  <1> HIDE DEF Were, Are, counts
  <1>6. Cardinality(Were) \in Nat
    BY <1>5, FS_CardinalityType
  <1>7. Cardinality(Are) = Cardinality(Were) + (IF counts THEN 1 ELSE 0)
    <2>1. CASE counts
      <3>1. Are = Were \cup {n + 1}
        BY <1>4, <2>1
      <3>2. QED
        BY <1>4, <1>5, <2>1, <3>1, FS_AddElement
    <2>2. CASE ~counts
      <3>1. Are = Were
        BY <1>4, <2>2
      <3>2. QED
        BY <1>6, <2>2, <3>1
    <2>3. QED
      BY <2>1, <2>2
  <1>8. QED
    BY <1>6, <1>7 DEF Were, Are, counts

\* What one print does to the volumes of a minute.
LEMMA TapeKeepsVolumes ==
  ASSUME FeedTyped, BuildersInStep, NEW t \in PrintTimes, NEW price \in PrintPrices,
         fdBuilders' = [tf \in Timeframes |-> OnPrint(fdBuilders[tf], BucketStart(t, tf), price)],
         fdBars' = [tf \in Timeframes |->
                      fdBars[tf] \o EmittedBy(fdBuilders[tf], BucketStart(t, tf))],
         fdPrints' = Append(fdPrints, [ts |-> t, price |-> price,
                        late |-> {tf \in Timeframes : Late(fdBuilders[tf], BucketStart(t, tf))}]),
         NEW minute,
         VolumeWithin(BarsOf("1m"), minute)
           = VolumeWithin(BarsOf("10s"), minute) + Cardinality(Missed(minute))
  PROVE  VolumeWithin(BarsOf("1m")', minute)
           = VolumeWithin(BarsOf("10s")', minute) + Cardinality(Missed(minute)')
  <1> DEFINE t10 == BucketStart(t, "10s")
             t1 == BucketStart(t, "1m")
             late10 == Late(fdBuilders["10s"], t10)
             late1 == Late(fdBuilders["1m"], t1)
             late == {tf \in Timeframes : Late(fdBuilders[tf], BucketStart(t, tf))}
             here == t1 = minute
             v10 == VolumeWithin(BarsOf("10s"), minute)
             v1 == VolumeWithin(BarsOf("1m"), minute)
             w10 == VolumeWithin(BarsOf("10s")', minute)
             w1 == VolumeWithin(BarsOf("1m")', minute)
             m == Cardinality(Missed(minute))
             k == Cardinality(Missed(minute)')
  <1>1. /\ t \in Nat /\ price \in Nat /\ t10 \in Nat /\ t1 \in Nat
        /\ fdBuilders["10s"] \in Builders /\ fdBars["10s"] \in Seq(Emissions)
        /\ fdBuilders["1m"] \in Builders /\ fdBars["1m"] \in Seq(Emissions)
        /\ "10s" \in Timeframes /\ "1m" \in Timeframes
    BY PrintStep
  <1>2. BucketStart(t10, "1m") = t1 /\ BucketStart(t1, "1m") = t1
    BY <1>1, Buckets
  <1>3. /\ BarsOf("10s") = Series(fdBars["10s"], fdBuilders["10s"])
        /\ BarsOf("10s")' = SeriesWith(fdBars["10s"], fdBuilders["10s"], t10, price)
    BY <1>1, TapeIs
  <1>4. /\ BarsOf("1m") = Series(fdBars["1m"], fdBuilders["1m"])
        /\ BarsOf("1m")' = SeriesWith(fdBars["1m"], fdBuilders["1m"], t1, price)
    BY <1>1, TapeIs
  <1>5. v10 \in Int /\ w10 = v10 + (IF ~late10 /\ here THEN 1 ELSE 0)
    <2>1. /\ VolumeWithin(Series(fdBars["10s"], fdBuilders["10s"]), minute) \in Int
          /\ VolumeWithin(SeriesWith(fdBars["10s"], fdBuilders["10s"], t10, price), minute)
               = VolumeWithin(Series(fdBars["10s"], fdBuilders["10s"]), minute)
                   + (IF ~Late(fdBuilders["10s"], t10) /\ BucketStart(t10, "1m") = minute
                      THEN 1 ELSE 0)
      BY <1>1, VolumeAfterPrint
    <2>2. QED
      BY <1>2, <1>3, <2>1
  <1>6. v1 \in Int /\ w1 = v1 + (IF ~late1 /\ here THEN 1 ELSE 0)
    <2>1. /\ VolumeWithin(Series(fdBars["1m"], fdBuilders["1m"]), minute) \in Int
          /\ VolumeWithin(SeriesWith(fdBars["1m"], fdBuilders["1m"], t1, price), minute)
               = VolumeWithin(Series(fdBars["1m"], fdBuilders["1m"]), minute)
                   + (IF ~Late(fdBuilders["1m"], t1) /\ BucketStart(t1, "1m") = minute
                      THEN 1 ELSE 0)
      BY <1>1, VolumeAfterPrint
    <2>2. QED
      BY <1>2, <1>4, <2>1
  <1>7. m \in Nat /\ k = m + (IF here /\ late = {"10s"} THEN 1 ELSE 0)
    <2> DEFINE p == [ts |-> t, price |-> price, late |-> late]
    <2>1. p \in [ts : PrintTimes, price : PrintPrices, late : SUBSET Timeframes]
      OBVIOUS
    <2>2. p.ts = t /\ p.late = late /\ fdPrints' = Append(fdPrints, p)
      OBVIOUS
    <2> HIDE DEF p
    <2>3. /\ m \in Nat
          /\ k = m + (IF BucketStart(p.ts, "1m") = minute /\ p.late = {"10s"} THEN 1 ELSE 0)
      BY <2>1, <2>2, MissedAfterPrint
    <2>4. QED
      BY <2>2, <2>3
  <1>8. late1 => late10
    BY LateInOrder
  <1>9. late = {"10s"} <=> late10 /\ ~late1
    <2>1. "10s" # "1m" /\ \A tf \in Timeframes : tf = "10s" \/ tf = "1m"
      BY DEF Timeframes
    <2>2. ("10s" \in late <=> late10) /\ ("1m" \in late <=> late1)
      BY <1>1
    <2>3. late \subseteq Timeframes
      OBVIOUS
    <2> HIDE DEF late, late10, late1
    <2>4. QED
      BY <2>1, <2>2, <2>3
  <1>10. v1 = v10 + m
    OBVIOUS
  <1> HIDE DEF late10, late1, late, here, v10, v1, w10, w1, m, k
  <1>11. w1 = w10 + k
    BY <1>5, <1>6, <1>7, <1>8, <1>9, <1>10
  <1>12. QED
    BY <1>11 DEF w1, w10, k

\* A print leaves every bar of ten seconds within one of its minute.
LEMMA TapeKeepsCover ==
  ASSUME FeedTyped, BuildersInStep, OpenBarCovered, NEW t \in PrintTimes, NEW price \in PrintPrices,
         fdBuilders' = [tf \in Timeframes |-> OnPrint(fdBuilders[tf], BucketStart(t, tf), price)],
         fdBars' = [tf \in Timeframes |->
                      fdBars[tf] \o EmittedBy(fdBuilders[tf], BucketStart(t, tf))],
         NEW minute, Covered(BarsOf("10s"), BarsOf("1m"), minute)
  PROVE  Covered(BarsOf("10s")', BarsOf("1m")', minute)
  <1> DEFINE t10 == BucketStart(t, "10s")
             t1 == BucketStart(t, "1m")
             b10 == fdBuilders["10s"]
             b1 == fdBuilders["1m"]
             n10 == OnPrint(b10, t10, price)
             n1 == OnPrint(b1, t1, price)
             tens == fdBars["10s"]
             ones == fdBars["1m"]
             S10 == BarsOf("10s")
             S1 == BarsOf("1m")
             T10 == BarsOf("10s")'
             T1 == BarsOf("1m")'
  <1>1. /\ t \in Nat /\ price \in Nat /\ t10 \in Nat /\ t1 \in Nat
        /\ b10 \in Builders /\ tens \in Seq(Emissions)
        /\ b1 \in Builders /\ ones \in Seq(Emissions)
        /\ "10s" \in Timeframes /\ "1m" \in Timeframes
    BY PrintStep
  <1>2. /\ BucketStart(t10, "1m") = BucketStart(t1, "1m")
    BY <1>1, Buckets
  <1>3. /\ S10 = Series(tens, b10) /\ T10 = SeriesWith(tens, b10, t10, price)
        /\ fdBuilders'["10s"] = n10
    BY <1>1, TapeIs
  <1>4. /\ S1 = Series(ones, b1) /\ T1 = SeriesWith(ones, b1, t1, price)
        /\ fdBuilders'["1m"] = n1
    BY <1>1, TapeIs
  <1>5. Late(b1, t1) => Late(b10, t10)
    BY LateInOrder
  <1>6. n10.bar # EmptyBar => n1.bar # EmptyBar /\ Covers(n1.bar, n10.bar)
    <2>1. OpenBarCovered'
      BY TapeKeepsOpenBars
    <2>2. QED
      BY <1>3, <1>4, <2>1 DEF OpenBarCovered, Covers
  <1>7. S10 \in Seq(Emissions) /\ S1 \in Seq(Emissions)
    <2>1. Series(tens, b10) \in Seq(Emissions)
      BY <1>1, SeriesAfterPrint
    <2>2. Series(ones, b1) \in Seq(Emissions)
      BY <1>1, SeriesAfterPrint
    <2>3. QED
      BY <1>3, <1>4, <2>1, <2>2
  <1> HIDE DEF t10, t1, b10, b1, n10, n1, tens, ones, S10, S1, T10, T1
  <1>8. ASSUME NEW bucket \in Nat, NEW bar \in Bars
        PROVE  /\ Emission(bucket, bar) \in Emissions
               /\ Emission(bucket, bar).ts = bucket /\ Emission(bucket, bar).bar = bar
    BY DEF Emission, Emissions
  <1>9. ASSUME ~Late(b1, t1)
        PROVE  \E before \in Seq(Emissions) :
                  T1 = Append(before, Emission(t1, n1.bar)) /\ Covered(S10, T1, minute)
    <2>1. n1.bar \in Bars
      BY <1>1, <1>9, BarAfterPrint DEF n1
    <2>2. CASE Continues(b1, t1)
      <3>1. n1.bar = Folded(b1.bar, price)
        BY <1>1, <2>2, BarAfterPrint DEF n1
      <3>2. S1 = Append(ones, Emission(t1, b1.bar))
        <4>1. Grows(ones, b1, t1, price)
          BY <1>1, <2>2, SeriesAfterPrint
        <4>2. Series(ones, b1) = Append(ones, Emission(t1, b1.bar))
          BY <4>1 DEF Grows
        <4>3. QED
          BY <1>4, <4>2
      <3>3. T1 = Append(ones, Emission(t1, n1.bar))
        <4>1. Grows(ones, b1, t1, price)
          BY <1>1, <2>2, SeriesAfterPrint
        <4>2. SeriesWith(ones, b1, t1, price)
               = Append(ones, Emission(t1, Folded(b1.bar, price)))
          BY <4>1 DEF Grows
        <4>3. QED
          BY <1>4, <3>1, <4>2
      <3>4. b1.bar \in Bars
        BY <1>1, <2>2 DEF Continues, Builders
      <3>5. Covers(n1.bar, b1.bar)
        BY <1>1, <3>1, <3>4, FoldedCovers
      <3> DEFINE e == Emission(t1, b1.bar)
                 wide == Emission(t1, n1.bar)
      <3>6. /\ e \in Emissions /\ wide \in Emissions /\ wide.ts = e.ts
            /\ Covers(wide.bar, e.bar)
        BY <1>1, <1>8, <2>1, <3>4, <3>5
      <3>7. Covered(S10, Append(ones, e), minute)
        BY <3>2 DEF S10, S1
      <3> HIDE DEF e, wide
      <3>8. Covered(S10, Append(ones, wide), minute)
        BY <1>1, <1>7, <3>6, <3>7, CoveredWidens
      <3>9. QED
        BY <1>1, <3>3, <3>8 DEF wide
    <2>3. CASE ~Continues(b1, t1)
      <3>1. n1.bar = Folded(EmptyBar, price)
        BY <1>1, <1>9, <2>3, BarAfterPrint DEF n1
      <3>2. T1 = Append(S1, Emission(t1, n1.bar))
        <4>1. Joins(ones, b1, t1, price)
          BY <1>1, <1>9, <2>3, SeriesAfterPrint DEF Begins
        <4>2. SeriesWith(ones, b1, t1, price)
               = Append(Series(ones, b1), Emission(t1, Folded(EmptyBar, price)))
          BY <4>1 DEF Joins
        <4>3. QED
          BY <1>4, <3>1, <4>2
      <3>3. Emission(t1, n1.bar) \in Emissions
        BY <1>1, <1>8, <2>1
      <3>4. Covered(S10, S1, minute)
        BY DEF S10, S1
      <3>5. Covered(S10, Append(S1, Emission(t1, n1.bar)), minute)
        BY <1>7, <3>3, <3>4, CoveredStays
      <3>6. QED
        BY <1>7, <3>2, <3>5
    <2>4. QED
      BY <2>2, <2>3
  <1>10. CASE Late(b10, t10)
    <2>1. T10 = S10
      BY <1>1, <1>3, <1>10, SeriesAfterPrint
    <2>2. CASE Late(b1, t1)
      <3>1. T1 = S1
        BY <1>1, <1>4, <2>2, SeriesAfterPrint
      <3>2. Covered(S10, S1, minute)
        BY DEF S10, S1
      <3>3. QED
        BY <2>1, <3>1, <3>2 DEF T10, T1
    <2>3. CASE ~Late(b1, t1)
      BY <1>9, <2>1, <2>3 DEF T10, T1
    <2>4. QED
      BY <2>2, <2>3
  <1>11. CASE ~Late(b10, t10)
    <2>1. PICK before \in Seq(Emissions) :
             T1 = Append(before, Emission(t1, n1.bar)) /\ Covered(S10, T1, minute)
      BY <1>5, <1>9, <1>11
    <2>2. n1.bar \in Bars
      BY <1>1, <1>5, <1>11, BarAfterPrint DEF n1
    <2>3. n10.bar \in Bars
      BY <1>1, <1>11, BarAfterPrint DEF n10
    <2>4. Covers(n1.bar, n10.bar)
      BY <1>6, <2>3, BarHasPrints
    <2> DEFINE e == Emission(t1, n1.bar)
               x == Emission(t10, n10.bar)
    <2>5. /\ e \in Emissions /\ x \in Emissions /\ Covers(e.bar, x.bar)
          /\ BucketStart(e.ts, "1m") = BucketStart(x.ts, "1m")
      BY <1>1, <1>2, <1>8, <2>2, <2>3, <2>4
    <2>6. \E rest \in Seq(Emissions) : T10 = Append(rest, x) /\ Covered(rest, T1, minute)
      <3>1. CASE Continues(b10, t10)
        <4>1. n10.bar = Folded(b10.bar, price)
          BY <1>1, <3>1, BarAfterPrint DEF n10
        <4>2. S10 = Append(tens, Emission(t10, b10.bar))
          <5>1. Grows(tens, b10, t10, price)
            BY <1>1, <3>1, SeriesAfterPrint
          <5>2. Series(tens, b10) = Append(tens, Emission(t10, b10.bar))
            BY <5>1 DEF Grows
          <5>3. QED
            BY <1>3, <5>2
        <4>3. T10 = Append(tens, Emission(t10, n10.bar))
          <5>1. Grows(tens, b10, t10, price)
            BY <1>1, <3>1, SeriesAfterPrint
          <5>2. SeriesWith(tens, b10, t10, price)
                 = Append(tens, Emission(t10, Folded(b10.bar, price)))
            BY <5>1 DEF Grows
          <5>3. QED
            BY <1>3, <4>1, <5>2
        <4>4. b10.bar \in Bars
          BY <1>1, <3>1 DEF Continues, Builders
        <4>5. Emission(t10, b10.bar) \in Emissions
          BY <1>1, <1>8, <4>4
        <4>6. T1 \in Seq(Emissions)
          BY <2>1, <2>5, AppendProperties
        <4>7. Covered(Append(tens, Emission(t10, b10.bar)), T1, minute)
          BY <2>1, <4>2
        <4>8. Covered(tens, T1, minute)
          BY <1>1, <4>5, <4>6, <4>7, CoveredJoin
        <4>9. QED
          BY <1>1, <4>3, <4>8
      <3>2. CASE ~Continues(b10, t10)
        <4>1. n10.bar = Folded(EmptyBar, price)
          BY <1>1, <1>11, <3>2, BarAfterPrint DEF n10
        <4>2. T10 = Append(S10, Emission(t10, n10.bar))
          <5>1. Joins(tens, b10, t10, price)
            BY <1>1, <1>11, <3>2, SeriesAfterPrint DEF Begins
          <5>2. SeriesWith(tens, b10, t10, price)
                 = Append(Series(tens, b10), Emission(t10, Folded(EmptyBar, price)))
            BY <5>1 DEF Joins
          <5>3. QED
            BY <1>3, <4>1, <5>2
        <4>3. QED
          BY <1>7, <2>1, <4>2
      <3>3. QED
        BY <3>1, <3>2
    <2>7. PICK rest \in Seq(Emissions) : T10 = Append(rest, x) /\ Covered(rest, T1, minute)
      BY <2>6
    <2> HIDE DEF e, x
    <2>8. T1 = Append(before, e)
      BY <2>1 DEF e
    <2>9. Covered(Append(rest, x), Append(before, e), minute)
      BY <2>5, <2>7, <2>8, CoveredJoin
    <2>10. QED
      BY <2>7, <2>8, <2>9 DEF T10, T1
  <1>12. QED
    BY <1>10, <1>11

\* A minute of the two series: its volumes agree and its ten seconds are covered.
LEMMA AgreeIs ==
  SeriesAgree <=>
    \A minute \in Minutes :
       /\ VolumeWithin(BarsOf("1m"), minute)
            = VolumeWithin(BarsOf("10s"), minute) + Cardinality(Missed(minute))
       /\ Covered(BarsOf("10s"), BarsOf("1m"), minute)
  BY DEF SeriesAgree, Covered

\* At the start there is nothing to disagree about.
LEMMA FeedStarts == FeedInit => FeedInv
  <1> SUFFICES ASSUME FeedInit
               PROVE  FeedInv
    OBVIOUS
  <1>1. /\ \A tf \in Timeframes : /\ fdBuilders[tf] = [bucket |-> None, bar |-> EmptyBar]
                                  /\ fdBars[tf] = <<>>
        /\ "10s" \in Timeframes /\ "1m" \in Timeframes
    BY DEF FeedInit, Timeframes
  <1>2. FeedTyped
    <2>1. [bucket |-> None, bar |-> EmptyBar] \in [bucket : {None} \cup Nat, bar : {EmptyBar} \cup Bars]
      OBVIOUS
    <2>2. QED
      BY <2>1 DEF FeedInit, FeedTyped
  <1>3. BuildersInStep /\ OpenBarCovered
    BY <1>1 DEF BuildersInStep, OpenBarCovered
  <1>4. \A tf \in Timeframes : BarsOf(tf) = <<>>
    <2>1. ASSUME NEW tf \in Timeframes
          PROVE  BarsOf(tf) = <<>>
      <3>1. Emitted(fdBuilders[tf]) = <<>> /\ fdBars[tf] = <<>>
        BY <1>1 DEF Emitted
      <3>2. QED
        BY <3>1 DEF BarsOf
    <2>2. QED
      BY <2>1
  <1>5. ASSUME NEW minute
        PROVE  Within(<<>>, minute) = {} /\ VolumeWithin(<<>>, minute) = 0 /\ Missed(minute) = {}
    <2>1. Within(<<>>, minute) = {}
      BY DEF Within
    <2>2. Missed(minute) = {}
      BY DEF Missed, FeedInit
    <2> DEFINE f == [i \in DOMAIN <<>> |-> <<>>[i].bar.volume]
    <2>3. VolumeWithin(<<>>, minute) = SumOver(f, {})
      BY <2>1, SumSetIs DEF VolumeWithin
    <2> HIDE DEF f
    <2>4. SumOver(f, {}) = 0
      BY SumPicked, FS_EmptySet
    <2>5. QED
      BY <2>1, <2>2, <2>3, <2>4
  <1>6. Cardinality({}) = 0
    BY FS_EmptySet
  <1>7. ASSUME NEW minute \in Minutes
        PROVE  /\ VolumeWithin(BarsOf("1m"), minute)
                    = VolumeWithin(BarsOf("10s"), minute) + Cardinality(Missed(minute))
               /\ Covered(BarsOf("10s"), BarsOf("1m"), minute)
    <2>1. BarsOf("1m") = <<>> /\ BarsOf("10s") = <<>>
      BY <1>1, <1>4
    <2>2. /\ Within(<<>>, minute) = {} /\ VolumeWithin(<<>>, minute) = 0
          /\ Cardinality(Missed(minute)) = 0
      BY <1>5, <1>6
    <2>3. VolumeWithin(BarsOf("1m"), minute) = 0 /\ VolumeWithin(BarsOf("10s"), minute) = 0
      BY <2>1, <2>2
    <2>4. Within(BarsOf("10s"), minute) = {}
      BY <2>1, <2>2
    <2>5. QED
      BY <2>2, <2>3, <2>4 DEF Covered
  <1>8. SeriesAgree
    BY <1>7, AgreeIs
  <1>9. QED
    BY <1>2, <1>3, <1>8 DEF FeedInv

\* A print on the tape keeps them together.
LEMMA TapeKeeps == FeedInv /\ OnTape => FeedInv'
  <1> SUFFICES ASSUME FeedInv, OnTape
               PROVE  FeedInv'
    OBVIOUS
  <1>1. FeedTyped /\ BuildersInStep /\ OpenBarCovered /\ SeriesAgree
    BY DEF FeedInv
  <1>2. PICK t \in PrintTimes, price \in PrintPrices :
          LET bucket == [tf \in Timeframes |-> BucketStart(t, tf)]
          IN  /\ fdBuilders' = [tf \in Timeframes |-> OnPrint(fdBuilders[tf], bucket[tf], price)]
              /\ fdBars' = [tf \in Timeframes |-> fdBars[tf] \o EmittedBy(fdBuilders[tf], bucket[tf])]
              /\ fdPrints' = Append(fdPrints, [ts |-> t, price |-> price,
                                 late |-> {tf \in Timeframes : Late(fdBuilders[tf], bucket[tf])}])
    BY DEF OnTape
  <1> DEFINE bucket == [tf \in Timeframes |-> BucketStart(t, tf)]
             late == {tf \in Timeframes : Late(fdBuilders[tf], BucketStart(t, tf))}
  <1>3. /\ \A tf \in Timeframes : bucket[tf] = BucketStart(t, tf)
        /\ fdBuilders' = [tf \in Timeframes |-> OnPrint(fdBuilders[tf], bucket[tf], price)]
        /\ fdBars' = [tf \in Timeframes |-> fdBars[tf] \o EmittedBy(fdBuilders[tf], bucket[tf])]
        /\ fdPrints' = Append(fdPrints, [ts |-> t, price |-> price,
                          late |-> {tf \in Timeframes : Late(fdBuilders[tf], bucket[tf])}])
    BY <1>2
  <1> HIDE DEF bucket
  <1>4. fdBuilders' = [tf \in Timeframes |-> OnPrint(fdBuilders[tf], BucketStart(t, tf), price)]
    BY <1>3
  <1>5. fdBars' = [tf \in Timeframes |-> fdBars[tf] \o EmittedBy(fdBuilders[tf], BucketStart(t, tf))]
    BY <1>3
  <1>6. fdPrints' = Append(fdPrints, [ts |-> t, price |-> price, late |-> late])
    <2>1. {tf \in Timeframes : Late(fdBuilders[tf], bucket[tf])} = late
      BY <1>3
    <2>2. QED
      BY <1>3, <2>1
  <1>7. FeedTyped'
    <2>1. ASSUME NEW tf \in Timeframes
          PROVE  fdBuilders'[tf] \in Builders /\ fdBars'[tf] \in Seq(Emissions)
      BY <1>1, <1>4, <1>5, TapeIs
    <2>2. fdBuilders' \in [Timeframes -> Builders]
      BY <1>4, <2>1
    <2>3. fdBars' \in [Timeframes -> Seq(Emissions)]
      BY <1>5, <2>1
    <2>4. fdPrints' \in Seq([ts : PrintTimes, price : PrintPrices, late : SUBSET Timeframes])
      <3>1. [ts |-> t, price |-> price, late |-> late]
              \in [ts : PrintTimes, price : PrintPrices, late : SUBSET Timeframes]
        OBVIOUS
      <3>2. fdPrints \in Seq([ts : PrintTimes, price : PrintPrices, late : SUBSET Timeframes])
        BY <1>1 DEF FeedTyped
      <3> HIDE DEF late
      <3>3. QED
        BY <1>6, <3>1, <3>2, AppendProperties
    <2>5. QED
      BY <2>2, <2>3, <2>4 DEF FeedTyped, Builders, Emissions, Bars, EmptyBar, Timeframes, None
  <1>8. BuildersInStep' /\ OpenBarCovered'
    BY <1>1, <1>4, <1>5, TapeKeepsOpenBars
  <1>9. ASSUME NEW minute \in Minutes
        PROVE  /\ VolumeWithin(BarsOf("1m")', minute)
                    = VolumeWithin(BarsOf("10s")', minute) + Cardinality(Missed(minute)')
               /\ Covered(BarsOf("10s")', BarsOf("1m")', minute)
    <2>1. /\ VolumeWithin(BarsOf("1m"), minute)
               = VolumeWithin(BarsOf("10s"), minute) + Cardinality(Missed(minute))
          /\ Covered(BarsOf("10s"), BarsOf("1m"), minute)
      BY <1>1, AgreeIs
    <2>2. VolumeWithin(BarsOf("1m")', minute)
            = VolumeWithin(BarsOf("10s")', minute) + Cardinality(Missed(minute)')
      BY <1>1, <1>4, <1>5, <1>6, <2>1, TapeKeepsVolumes
    <2>3. Covered(BarsOf("10s")', BarsOf("1m")', minute)
      BY <1>1, <1>4, <1>5, <2>1, TapeKeepsCover
    <2>4. QED
      BY <2>2, <2>3
  <1>10. SeriesAgree'
    BY <1>9 DEF SeriesAgree, Covered, Minutes, BucketStart, VolumeWithin, Within, Covers
  <1>11. QED
    BY <1>7, <1>8, <1>10 DEF FeedInv

\* A flush moves the open bars to the series they were already part of.
LEMMA FlushKeeps == FeedInv /\ Flush => FeedInv'
  <1> SUFFICES ASSUME FeedInv, Flush
               PROVE  FeedInv'
    OBVIOUS
  <1>1. FeedTyped /\ BuildersInStep /\ OpenBarCovered /\ SeriesAgree
    BY DEF FeedInv
  <1>2. /\ fdBars' = [tf \in Timeframes |-> fdBars[tf] \o Emitted(fdBuilders[tf])]
        /\ fdBuilders' = [tf \in Timeframes |-> Finalized(fdBuilders[tf])]
        /\ fdPrints' = fdPrints
    BY DEF Flush
  <1>3. ASSUME NEW tf \in Timeframes
        PROVE  /\ fdBuilders'[tf] = [bucket |-> fdBuilders[tf].bucket, bar |-> EmptyBar]
               /\ fdBuilders'[tf] \in Builders
               /\ fdBars'[tf] = BarsOf(tf) /\ fdBars'[tf] \in Seq(Emissions)
               /\ BarsOf(tf)' = BarsOf(tf)
    <2>1. /\ fdBuilders[tf] \in [bucket : {None} \cup Nat, bar : {EmptyBar} \cup Bars]
          /\ fdBars[tf] \in Seq(Emissions)
      BY <1>1 DEF FeedTyped, Emissions
    <2>2. /\ fdBuilders'[tf] = [bucket |-> fdBuilders[tf].bucket, bar |-> EmptyBar]
          /\ fdBuilders[tf].bucket \in {None} \cup Nat
          /\ fdBuilders[tf].bar \in {EmptyBar} \cup Bars
      BY <1>2, <2>1 DEF Finalized
    <2>3. Emitted(fdBuilders[tf]) \in Seq(Emissions)
      <3>1. CASE fdBuilders[tf].bar = EmptyBar
        BY <3>1 DEF Emitted
      <3>2. CASE fdBuilders[tf].bar # EmptyBar
        <4>1. fdBuilders[tf].bucket \in Nat
          <5>1. CASE \A x \in Timeframes : fdBuilders[x] = [bucket |-> None, bar |-> EmptyBar]
            BY <3>2, <5>1
          <5>2. CASE \E u \in PrintTimes : \A x \in Timeframes :
                       fdBuilders[x].bucket = BucketStart(u, x)
            <6>1. PICK u \in PrintTimes : fdBuilders[tf].bucket = BucketStart(u, tf)
              BY <5>2
            <6>2. BucketStart(u, "10s") \in Nat /\ BucketStart(u, "1m") \in Nat
              BY FeedAssumption, Buckets
            <6>3. QED
              BY <6>1, <6>2 DEF Timeframes
          <5>3. QED
            BY <1>1, <5>1, <5>2 DEF BuildersInStep
        <4>2. [ts |-> fdBuilders[tf].bucket, bar |-> fdBuilders[tf].bar] \in Emissions
          BY <2>2, <3>2, <4>1 DEF Emissions
        <4> DEFINE e == [ts |-> fdBuilders[tf].bucket, bar |-> fdBuilders[tf].bar]
        <4>3. Emitted(fdBuilders[tf]) = <<e>>
          BY <3>2 DEF Emitted
        <4> HIDE DEF e
        <4>4. QED
          BY <4>2, <4>3 DEF e
      <3>3. QED
        BY <3>1, <3>2
    <2>4. fdBars'[tf] = BarsOf(tf)
      BY <1>2 DEF BarsOf
    <2>5. fdBars'[tf] \in Seq(Emissions)
      BY <2>1, <2>3, <2>4, ConcatProperties DEF BarsOf
    <2>6. BarsOf(tf)' = fdBars'[tf] \o Emitted(fdBuilders'[tf])
      BY DEF BarsOf, Emitted
    <2>7. Emitted(fdBuilders'[tf]) = <<>>
      BY <2>2 DEF Emitted
    <2>8. BarsOf(tf)' = fdBars'[tf]
      BY <2>5, <2>6, <2>7, ConcatEmptySeq
    <2>9. QED
      BY <2>2, <2>4, <2>5, <2>8 DEF Builders
  <1>4. FeedTyped'
    <2>1. fdBuilders' \in [Timeframes -> Builders] /\ fdBars' \in [Timeframes -> Seq(Emissions)]
      BY <1>2, <1>3
    <2>2. fdPrints' \in Seq([ts : PrintTimes, price : PrintPrices, late : SUBSET Timeframes])
      BY <1>1, <1>2 DEF FeedTyped
    <2>3. QED
      BY <2>1, <2>2 DEF FeedTyped, Builders, Emissions, Bars, EmptyBar, Timeframes, None
  <1>5. BuildersInStep'
    <2>1. CASE \A x \in Timeframes : fdBuilders[x] = [bucket |-> None, bar |-> EmptyBar]
      <3>1. \A x \in Timeframes : fdBuilders'[x] = [bucket |-> None, bar |-> EmptyBar]
        BY <1>3, <2>1
      <3>2. QED
        BY <3>1 DEF BuildersInStep, Timeframes, None, EmptyBar
    <2>2. CASE \E u \in PrintTimes : \A x \in Timeframes : fdBuilders[x].bucket = BucketStart(u, x)
      <3>1. PICK u \in PrintTimes : \A x \in Timeframes : fdBuilders[x].bucket = BucketStart(u, x)
        BY <2>2
      <3>2. ASSUME NEW x \in Timeframes
            PROVE  fdBuilders'[x].bucket = fdBuilders[x].bucket
        <4>1. fdBuilders'[x] = [bucket |-> fdBuilders[x].bucket, bar |-> EmptyBar]
          BY <1>3
        <4>2. QED
          BY <4>1
      <3>3. ASSUME NEW x \in Timeframes
            PROVE  fdBuilders'[x].bucket = BucketStart(u, x)
        <4>1. fdBuilders'[x].bucket = fdBuilders[x].bucket
          BY <3>2
        <4>2. fdBuilders[x].bucket = BucketStart(u, x)
          BY <3>1
        <4>3. QED
          BY <4>1, <4>2
      <3>4. \E v \in PrintTimes : \A x \in Timeframes : fdBuilders'[x].bucket = BucketStart(v, x)
        BY <3>3
      <3>5. QED
        BY <3>4 DEF BuildersInStep, BucketStart
    <2>3. QED
      BY <1>1, <2>1, <2>2 DEF BuildersInStep
  <1>6. OpenBarCovered'
    <2>1. fdBuilders'["10s"].bar = EmptyBar
      BY <1>3 DEF Timeframes
    <2>2. QED
      BY <2>1 DEF OpenBarCovered, EmptyBar
  <1>7. SeriesAgree'
    <2>1. BarsOf("10s")' = BarsOf("10s") /\ BarsOf("1m")' = BarsOf("1m")
      BY <1>3 DEF Timeframes
    <2>2. \A minute : Missed(minute)' = Missed(minute)
      BY <1>2 DEF Missed, BucketStart
    <2>3. QED
      BY <1>1, <2>1, <2>2 DEF SeriesAgree, Minutes, BucketStart, VolumeWithin, Within, Covers
  <1>8. QED
    BY <1>4, <1>5, <1>6, <1>7 DEF FeedInv

\* The clock of the stale feed leaves the bars alone.
LEMMA FeedStutters == FeedInv /\ UNCHANGED barVars => FeedInv'
  <1> SUFFICES ASSUME FeedInv, UNCHANGED barVars
               PROVE  FeedInv'
    OBVIOUS
  <1>1. fdBuilders' = fdBuilders /\ fdBars' = fdBars /\ fdPrints' = fdPrints
    BY DEF barVars
  <1>2. FeedTyped' = FeedTyped
    BY <1>1 DEF FeedTyped
  <1>3. BuildersInStep' = BuildersInStep
    BY <1>1 DEF BuildersInStep
  <1>4. OpenBarCovered' = OpenBarCovered
    BY <1>1 DEF OpenBarCovered
  <1>5. \A tf : BarsOf(tf)' = BarsOf(tf)
    BY <1>1 DEF BarsOf
  <1>6. \A minute : Missed(minute)' = Missed(minute)
    BY <1>1 DEF Missed
  <1>7. SeriesAgree' = SeriesAgree
    BY <1>5, <1>6 DEF SeriesAgree
  <1>8. QED
    BY <1>2, <1>3, <1>4, <1>7 DEF FeedInv

\* The 10-second and the 1-minute bars of one tape tell the same story
\* (core/data/bars.py): the volumes of a minute agree but for the prints that came
\* late for their ten seconds, and no bar of ten seconds leaves the range of its
\* minute, for any tape, of any length, and any flushes.
THEOREM SeriesStayAgreed == FeedSpec => []SeriesAgree
  <1>1. FeedInit => FeedInv
    BY FeedStarts
  <1>2. FeedInv /\ [BarsNext \/ StaleNext]_feedVars => FeedInv'
    <2> SUFFICES ASSUME FeedInv, [BarsNext \/ StaleNext]_feedVars
                 PROVE  FeedInv'
      OBVIOUS
    <2>1. CASE OnTape
      BY <2>1, TapeKeeps
    <2>2. CASE Flush
      BY <2>2, FlushKeeps
    <2>3. CASE StaleNext
      <3>1. UNCHANGED barVars
        BY <2>3 DEF StaleNext, RecordSeen, CheckStale
      <3>2. QED
        BY <3>1, FeedStutters
    <2>4. CASE UNCHANGED feedVars
      <3>1. UNCHANGED barVars
        BY <2>4 DEF feedVars
      <3>2. QED
        BY <3>1, FeedStutters
    <2>5. QED
      BY <2>1, <2>2, <2>3, <2>4 DEF BarsNext
  <1>3. FeedInv => SeriesAgree
    BY DEF FeedInv
  <1>4. QED
    BY <1>1, <1>2, <1>3, PTL DEF FeedSpec
=============================================================================
