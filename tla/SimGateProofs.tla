--------------------------- MODULE SimGateProofs ---------------------------
(***************************************************************************)
(* Theorems of SimGate: the list of days implements the counter of         *)
(* StreakGate, and a check that passes rests on the whole record.  Both    *)
(* hold for any length of the streak, any days and any verdict on a day.   *)
(***************************************************************************)
EXTENDS SimGate, FiniteFacts

(***************************************************************************)
(* The operators on a list of days.                                        *)
(***************************************************************************)

\* The last n of a sequence.
LEMMA LastOfFacts ==
  ASSUME NEW S, NEW seq \in Seq(S), NEW n \in Nat \ {0}
  PROVE  /\ LastOf(seq, n) \in Seq(S)
         /\ Len(LastOf(seq, n)) = IF Len(seq) > n THEN n ELSE Len(seq)
         /\ \A i \in 1 .. Len(LastOf(seq, n)) :
              LastOf(seq, n)[i] = seq[Len(seq) - Len(LastOf(seq, n)) + i]
  <1>1. Len(seq) \in Nat
    BY LenProperties
  <1>2. CASE Len(seq) > n
    <2> DEFINE m == Len(seq) - n + 1
    <2>1. m \in 1 .. Len(seq) + 1 /\ Len(seq) \in m - 1 .. Len(seq)
      BY <1>1, <1>2
    <2>2. /\ SubSeq(seq, m, Len(seq)) \in Seq(S)
          /\ Len(SubSeq(seq, m, Len(seq))) = Len(seq) - m + 1
          /\ \A i \in 1 .. Len(seq) - m + 1 : SubSeq(seq, m, Len(seq))[i] = seq[m + i - 1]
      <3> HIDE DEF m
      <3> QED BY <2>1, SubSeqProperties
    <2>3. QED
      BY <1>1, <1>2, <2>2 DEF LastOf
  <1>3. CASE ~(Len(seq) > n)
    <2>1. LastOf(seq, n) = seq
      BY <1>3, SubSeqFull DEF LastOf
    <2>2. \A i \in 1 .. Len(seq) : Len(seq) - Len(seq) + i = i
      BY <1>1
    <2>3. QED
      BY <1>3, <2>1, <2>2
  <1>4. QED
    BY <1>2, <1>3

\* The last n days qualify.
GoodEnd(days, n) == \A i \in (Len(days) - n + 1) .. Len(days) : Qualifies(days[i])

\* Trailing(days) is the number of qualifying days at the end: they qualify, and
\* the one before them does not.
LEMMA TrailingFacts ==
  ASSUME NEW days \in Seq(SimDays)
  PROVE  /\ Trailing(days) \in 0 .. Len(days)
         /\ GoodEnd(days, Trailing(days))
         /\ Trailing(days) = Len(days) \/ ~GoodEnd(days, Trailing(days) + 1)
  <1> DEFINE Ends == {n \in 0 .. Len(days) : n = Len(days) \/ ~GoodEnd(days, n + 1)}
  <1>1. Len(days) \in Nat
    BY LenProperties
  <1>2. Ends \in SUBSET Nat /\ Ends # {}
    BY <1>1
  <1>3. PICK m \in Ends : \A k \in Ends : m <= k
    <2> HIDE DEF Ends
    <2> QED BY <1>2, LeastNatural
  <1>4. GoodEnd(days, m)
    <2>1. CASE m = 0
      BY <1>1, <2>1 DEF GoodEnd
    <2>2. CASE m # 0
      <3>1. m \in 0 .. Len(days)
        OBVIOUS
      <3>2. m - 1 \in 0 .. Len(days) /\ ~(m <= m - 1) /\ (m - 1) + 1 = m
        BY <1>1, <2>2, <3>1
      <3>3. m - 1 \notin Ends
        <4> HIDE DEF Ends
        <4> QED BY <1>3, <3>2
      <3>4. GoodEnd(days, (m - 1) + 1)
        BY <3>2, <3>3
      <3>5. QED
        BY <3>2, <3>4
    <2>3. QED
      BY <2>1, <2>2
  <1>5. \E n \in 0 .. Len(days) : GoodEnd(days, n) /\ (n = Len(days) \/ ~GoodEnd(days, n + 1))
    BY <1>3, <1>4
  <1>6. Trailing(days) = CHOOSE n \in 0 .. Len(days) :
                           GoodEnd(days, n) /\ (n = Len(days) \/ ~GoodEnd(days, n + 1))
    BY DEF Trailing, GoodEnd
  <1>7. QED
    BY <1>5, <1>6

\* A shorter end of an end that qualifies qualifies.
LEMMA GoodEndShorter ==
  ASSUME NEW days \in Seq(SimDays), NEW n \in Nat, NEW m \in Nat, m <= n, GoodEnd(days, n)
  PROVE  GoodEnd(days, m)
  <1>1. Len(days) \in Nat
    BY LenProperties
  <1>2. QED
    BY <1>1 DEF GoodEnd

\* That makes Trailing unique.
LEMMA TrailingIs ==
  ASSUME NEW days \in Seq(SimDays), NEW n \in 0 .. Len(days), GoodEnd(days, n),
         n = Len(days) \/ ~GoodEnd(days, n + 1)
  PROVE  Trailing(days) = n
  <1> DEFINE t == Trailing(days)
  <1>1. Len(days) \in Nat
    BY LenProperties
  <1>2. t \in 0 .. Len(days) /\ GoodEnd(days, t) /\ (t = Len(days) \/ ~GoodEnd(days, t + 1))
    BY TrailingFacts
  <1> HIDE DEF t
  <1>3. ~(t < n)
    BY <1>1, <1>2, GoodEndShorter
  <1>4. ~(n < t)
    BY <1>1, <1>2, GoodEndShorter
  <1>5. QED
    BY <1>1, <1>2, <1>3, <1>4 DEF t

\* A day is either good enough or not.
LEMMA VerdictIsBoolean == \A day : Qualifies(day) \in BOOLEAN
  BY DEF Qualifies

\* A day is kept at the end of a list of at most Required days, which is the
\* former list's end but for the oldest day where there is no room, or for
\* everything where the day fails.
LEMMA KeptFacts ==
  ASSUME NEW days \in Seq(SimDays), Len(days) <= Required, NEW day \in SimDays
  PROVE  /\ Kept(days, day) \in Seq(SimDays)
         /\ Len(Kept(days, day)) = IF ~Qualifies(day) THEN 1
                                   ELSE IF Len(days) < Required THEN Len(days) + 1 ELSE Required
         /\ Kept(days, day)[Len(Kept(days, day))] = day
         /\ \A i \in 1 .. Len(Kept(days, day)) - 1 :
              Kept(days, day)[i] = days[Len(days) - Len(Kept(days, day)) + 1 + i]
  <1>1. Required \in Nat \ {0} /\ Len(days) \in Nat
    BY GateAssumption, LenProperties DEF GateAssumption
  <1>2. CASE Qualifies(day)
    <2> DEFINE more == Append(days, day)
    <2>1. /\ more \in Seq(SimDays) /\ Len(more) = Len(days) + 1
          /\ \A i \in 1 .. Len(days) : more[i] = days[i]
          /\ more[Len(days) + 1] = day
      BY AppendProperties
    <2>2. Kept(days, day) = LastOf(more, Required)
      BY <1>2 DEF Kept
    <2> HIDE DEF more
    <2>3. /\ LastOf(more, Required) \in Seq(SimDays)
          /\ Len(LastOf(more, Required))
               = IF Len(more) > Required THEN Required ELSE Len(more)
          /\ \A i \in 1 .. Len(LastOf(more, Required)) :
               LastOf(more, Required)[i] = more[Len(more) - Len(LastOf(more, Required)) + i]
      BY <1>1, <2>1, LastOfFacts
    <2> DEFINE k == LastOf(more, Required)
    <2>4. Len(k) = IF Len(days) < Required THEN Len(days) + 1 ELSE Required
      BY <1>1, <2>1, <2>3
    <2>5. k[Len(k)] = day
      <3>1. Len(k) \in 1 .. Len(k) /\ Len(more) - Len(k) + Len(k) = Len(days) + 1
        BY <1>1, <2>1, <2>4
      <3>2. k[Len(k)] = more[Len(more) - Len(k) + Len(k)]
        BY <2>3, <3>1
      <3>3. QED
        BY <2>1, <3>1, <3>2
    <2>6. ASSUME NEW i \in 1 .. Len(k) - 1
          PROVE  k[i] = days[Len(days) - Len(k) + 1 + i]
      <3> DEFINE j == Len(days) - Len(k) + 1 + i
      <3>1. i \in 1 .. Len(k) /\ Len(more) - Len(k) + i = j /\ j \in 1 .. Len(days)
        BY <1>1, <2>1, <2>4
      <3>2. k[i] = more[j]
        BY <2>3, <3>1
      <3>3. QED
        BY <2>1, <3>1, <3>2
    <2>7. k = Kept(days, day) /\ k \in Seq(SimDays)
      BY <2>2, <2>3
    <2> HIDE DEF k
    <2>8. QED
      BY <1>2, <2>4, <2>5, <2>6, <2>7
  <1>3. CASE ~Qualifies(day)
    <2> DEFINE one == <<day>>
    <2>1. one \in Seq(SimDays) /\ Len(one) = 1 /\ one[1] = day
      OBVIOUS
    <2>2. Kept(days, day) = LastOf(one, Required)
      BY <1>3 DEF Kept
    <2> HIDE DEF one
    <2>3. SubSeq(one, 1, Len(one)) = one
      BY <2>1, SubSeqFull
    <2>4. Kept(days, day) = one
      BY <1>1, <2>1, <2>2, <2>3 DEF LastOf
    <2>5. 1 .. Len(one) - 1 = {}
      BY <2>1
    <2>6. QED
      BY <1>3, <2>1, <2>4, <2>5
  <1>4. QED
    BY <1>2, <1>3

\* Keeping a day counts it: a failing day ends the streak, a good one extends it
\* up to Required.
LEMMA KeptStreak ==
  ASSUME NEW days \in Seq(SimDays), Len(days) <= Required, NEW day \in SimDays
  PROVE  Trailing(Kept(days, day)) = IF ~Qualifies(day) THEN 0
                                     ELSE IF Trailing(days) < Required THEN Trailing(days) + 1
                                     ELSE Trailing(days)
  <1> DEFINE k == Kept(days, day)
             t == Trailing(days)
  <1>1. /\ k \in Seq(SimDays) /\ Len(k) \in Nat
        /\ Required \in Nat \ {0} /\ Len(days) \in Nat
    BY KeptFacts, LenProperties, GateAssumption DEF GateAssumption
  <1>2. t \in 0 .. Len(days) /\ GoodEnd(days, t) /\ (t = Len(days) \/ ~GoodEnd(days, t + 1))
    BY TrailingFacts
  <1>3. /\ Len(k) = IF ~Qualifies(day) THEN 1
                    ELSE IF Len(days) < Required THEN Len(days) + 1 ELSE Required
        /\ k[Len(k)] = day
        /\ \A i \in 1 .. Len(k) - 1 : k[i] = days[Len(days) - Len(k) + 1 + i]
    BY KeptFacts
  <1> HIDE DEF k, t
  <1>4. CASE ~Qualifies(day)
    <2>1. GoodEnd(k, 0)
      BY <1>1 DEF GoodEnd
    <2>2. ~GoodEnd(k, 0 + 1)
      BY <1>1, <1>3, <1>4 DEF GoodEnd
    <2>3. Trailing(k) = 0
      BY <1>1, <2>1, <2>2, TrailingIs
    <2>4. QED
      BY <1>4, <2>3 DEF k
  <1>5. ASSUME Qualifies(day), NEW m \in 0 .. Len(k), m <= t + 1
        PROVE  GoodEnd(k, m)
    <2> SUFFICES ASSUME NEW i \in (Len(k) - m + 1) .. Len(k) PROVE Qualifies(k[i])
      BY DEF GoodEnd
    <2>1. CASE i = Len(k)
      BY <1>3, <1>5, <2>1
    <2>2. CASE i # Len(k)
      <3> DEFINE j == Len(days) - Len(k) + 1 + i
      <3>1. i \in 1 .. Len(k) - 1 /\ j \in (Len(days) - t + 1) .. Len(days)
        BY <1>1, <1>2, <1>5, <2>2
      <3>2. k[i] = days[j]
        BY <1>3, <3>1
      <3>3. Qualifies(days[j])
        BY <1>2, <3>1 DEF GoodEnd
      <3>4. QED
        BY <3>2, <3>3
    <2>3. QED
      BY <2>1, <2>2
  <1>6. CASE Qualifies(day) /\ t < Required
    <2>1. t + 1 \in 0 .. Len(k)
      BY <1>1, <1>2, <1>3, <1>6
    <2>2. GoodEnd(k, t + 1)
      BY <1>1, <1>2, <1>5, <1>6, <2>1
    <2>3. ASSUME t + 1 # Len(k) PROVE ~GoodEnd(k, (t + 1) + 1)
      <3>1. t # Len(days)
        BY <1>1, <1>2, <1>3, <1>6, <2>1, <2>3
      <3>2. ~Qualifies(days[Len(days) - t])
        BY <1>1, <1>2, <3>1 DEF GoodEnd
      <3> DEFINE i == Len(k) - t - 1
      <3>3. i \in 1 .. Len(k) - 1 /\ Len(days) - Len(k) + 1 + i = Len(days) - t
        BY <1>1, <1>2, <2>1, <2>3
      <3>4. k[i] = days[Len(days) - t]
        BY <1>3, <3>3
      <3>5. i \in (Len(k) - ((t + 1) + 1) + 1) .. Len(k)
        <4>1. Len(k) \in Int /\ t \in Nat
          BY <1>1, <1>2
        <4>2. Len(k) - ((t + 1) + 1) + 1 = i /\ i <= Len(k) /\ i \in Int
          BY <4>1
        <4> HIDE DEF i
        <4>3. QED
          BY <4>1, <4>2
      <3> HIDE DEF i
      <3>6. QED
        BY <3>2, <3>4, <3>5 DEF GoodEnd
    <2>4. Trailing(k) = t + 1
      BY <1>1, <2>1, <2>2, <2>3, TrailingIs
    <2>5. QED
      BY <1>6, <2>4 DEF k, t
  <1>7. CASE Qualifies(day) /\ ~(t < Required)
    <2>1. t = Len(k)
      BY <1>1, <1>2, <1>3, <1>7
    <2>2. GoodEnd(k, t) /\ t \in 0 .. Len(k)
      BY <1>1, <1>2, <1>5, <1>7, <2>1
    <2>3. Trailing(k) = t
      BY <1>1, <2>1, <2>2, TrailingIs
    <2>4. QED
      BY <1>7, <2>3 DEF k, t
  <1>8. QED
    BY <1>4, <1>6, <1>7

(***************************************************************************)
(* The invariant: the list is the end of the record.                       *)
(***************************************************************************)

GateTypeOK ==
  /\ gateLog \in Seq(SimDays) /\ gateDays \in Seq(SimDays)
  /\ gateLive \in BOOLEAN /\ gateReady \in BOOLEAN

ListIsEndOfRecord ==
  /\ Len(gateDays) <= Required
  /\ Len(gateDays) <= Len(gateLog)
  /\ \A i \in 1 .. Len(gateDays) : gateDays[i] = gateLog[Len(gateLog) - Len(gateDays) + i]

GateInv == GateTypeOK /\ ListIsEndOfRecord

\* An empty list is the end of an empty record.
LEMMA GateInvInit == GateStart => GateInv
  <1> SUFFICES ASSUME GateStart PROVE GateInv
    OBVIOUS
  <1>1. <<>> \in Seq(SimDays) /\ Len(<<>>) = 0 /\ 1 .. 0 = {}
    OBVIOUS
  <1>2. Required \in Nat
    BY GateAssumption DEF GateAssumption
  <1>3. GateTypeOK
    BY <1>1 DEF GateStart, GateTypeOK
  <1>4. ListIsEndOfRecord
    <2>1. Len(gateDays) = 0 /\ Len(gateLog) = 0
      BY <1>1 DEF GateStart
    <2>2. QED
      BY <1>1, <1>2, <2>1 DEF ListIsEndOfRecord
  <1>5. QED
    BY <1>3, <1>4 DEF GateInv

\* Recording a day is the one step that touches the list or the record.
LEMMA GateInvRecord ==
  ASSUME GateInv, NEW day \in SimDays, gateDays' = Kept(gateDays, day),
         gateLog' = Append(gateLog, day)
  PROVE  ListIsEndOfRecord' /\ gateDays' \in Seq(SimDays) /\ gateLog' \in Seq(SimDays)
  <1> DEFINE k == Kept(gateDays, day)
             m == Append(gateLog, day)
  <1>1. /\ gateDays \in Seq(SimDays) /\ Len(gateDays) \in Nat /\ Len(gateDays) <= Required
        /\ gateLog \in Seq(SimDays) /\ Len(gateLog) \in Nat
        /\ Required \in Nat \ {0} /\ Len(gateDays) <= Len(gateLog)
    BY LenProperties, GateAssumption DEF GateInv, GateTypeOK, ListIsEndOfRecord, GateAssumption
  <1>2. /\ k \in Seq(SimDays)
        /\ Len(k) = IF ~Qualifies(day) THEN 1
                    ELSE IF Len(gateDays) < Required THEN Len(gateDays) + 1 ELSE Required
        /\ k[Len(k)] = day
        /\ \A i \in 1 .. Len(k) - 1 : k[i] = gateDays[Len(gateDays) - Len(k) + 1 + i]
    BY <1>1, KeptFacts
  <1>3. /\ m \in Seq(SimDays) /\ Len(m) = Len(gateLog) + 1 /\ m[Len(gateLog) + 1] = day
        /\ \A i \in 1 .. Len(gateLog) : m[i] = gateLog[i]
    BY <1>1, AppendProperties
  <1> HIDE DEF k, m
  <1>4. Len(k) <= Required /\ Len(k) <= Len(m) /\ Len(k) \in Nat
    BY <1>1, <1>2, <1>3
  <1>5. ASSUME NEW i \in 1 .. Len(k) PROVE k[i] = m[Len(m) - Len(k) + i]
    <2>1. CASE i = Len(k)
      <3>1. Len(m) - Len(k) + i = Len(gateLog) + 1
        BY <1>1, <1>3, <1>4, <2>1
      <3>2. QED
        BY <1>2, <1>3, <2>1, <3>1
    <2>2. CASE i # Len(k)
      <3> DEFINE j == Len(gateDays) - Len(k) + 1 + i
                 l == Len(gateLog) - Len(gateDays) + j
      <3>1. i \in 1 .. Len(k) - 1 /\ j \in 1 .. Len(gateDays)
        BY <1>1, <1>2, <1>4, <2>2
      <3>2. l \in 1 .. Len(gateLog) /\ l = Len(m) - Len(k) + i
        BY <1>1, <1>3, <1>4, <3>1
      <3>3. gateDays[j] = gateLog[l]
        BY <3>1 DEF GateInv, ListIsEndOfRecord
      <3>4. k[i] = gateDays[j] /\ m[l] = gateLog[l]
        BY <1>2, <1>3, <3>1, <3>2
      <3>5. QED
        BY <3>2, <3>3, <3>4
    <2>3. QED
      BY <2>1, <2>2
  <1>6. gateDays' = k /\ gateLog' = m
    BY DEF k, m
  <1>7. QED
    BY <1>2, <1>3, <1>4, <1>5, <1>6 DEF ListIsEndOfRecord

\* Every step keeps the list the end of the record: recording, signing, checking.
LEMMA GateInvNext == GateInv /\ [GateSteps]_gateVars => GateInv'
  <1> SUFFICES ASSUME GateInv, [GateSteps]_gateVars PROVE GateInv'
    OBVIOUS
  <1>1. CASE RecordDay
    <2>1. PICK day \in SimDays : gateDays' = Kept(gateDays, day) /\ gateLog' = Append(gateLog, day)
      BY <1>1 DEF RecordDay
    <2>2. QED
      BY <1>1, <2>1, GateInvRecord DEF RecordDay, GateInv, GateTypeOK
  <1>2. CASE SignOff
    BY <1>2 DEF SignOff, GateInv, GateTypeOK, ListIsEndOfRecord
  <1>3. CASE CheckAll
    <2>1. gateReady' \in BOOLEAN
      BY <1>3 DEF CheckAll
    <2>2. UNCHANGED <<gateDays, gateLog, gateLive>>
      BY <1>3 DEF CheckAll
    <2>3. QED
      BY <2>1, <2>2 DEF GateInv, GateTypeOK, ListIsEndOfRecord
  <1>4. CASE UNCHANGED gateVars
    BY <1>4 DEF gateVars, GateInv, GateTypeOK, ListIsEndOfRecord
  <1>5. QED
    BY <1>1, <1>2, <1>3, <1>4 DEF GateSteps

\* The list of the gate is always the end of the whole record, and no longer than
\* the streak it must prove.
THEOREM ListStaysEndOfRecord == GateSpec => []GateInv
  <1>1. QED
    BY GateInvInit, GateInvNext, PTL DEF GateSpec

(***************************************************************************)
(* What a check that passes rests on.                                      *)
(***************************************************************************)

\* A check that passes (ReadinessChecker.check_all) saw Required good days at the
\* end of the record, not only of the list.
LEMMA ReadyStep ==
  ASSUME GateInv, [GateSteps]_gateVars, gateReady', ~gateReady
  PROVE  /\ gateLive /\ Len(gateLog) >= Required
         /\ \A i \in (Len(gateLog) - Required + 1) .. Len(gateLog) : Qualifies(gateLog[i])
  <1>1. CheckAll
    BY DEF GateSteps, RecordDay, SignOff, gateVars
  <1>2. gateLive /\ Trailing(gateDays) >= Required
    BY <1>1 DEF CheckAll, Satisfied
  <1>3. /\ gateDays \in Seq(SimDays) /\ Len(gateDays) \in Nat /\ Len(gateDays) <= Required
        /\ gateLog \in Seq(SimDays) /\ Len(gateLog) \in Nat
        /\ Required \in Nat \ {0} /\ Len(gateDays) <= Len(gateLog)
    BY LenProperties, GateAssumption DEF GateInv, GateTypeOK, ListIsEndOfRecord, GateAssumption
  <1>4. Trailing(gateDays) \in 0 .. Len(gateDays) /\ GoodEnd(gateDays, Trailing(gateDays))
    BY <1>3, TrailingFacts
  <1>5. Trailing(gateDays) = Required /\ Len(gateDays) = Required
    BY <1>2, <1>3, <1>4
  <1>6. ASSUME NEW i \in (Len(gateLog) - Required + 1) .. Len(gateLog)
        PROVE  Qualifies(gateLog[i])
    <2> DEFINE j == i - (Len(gateLog) - Required)
    <2>1. j \in 1 .. Len(gateDays) /\ Len(gateLog) - Len(gateDays) + j = i
      BY <1>3, <1>5
    <2>2. gateDays[j] = gateLog[i]
      BY <2>1 DEF GateInv, ListIsEndOfRecord
    <2>3. Qualifies(gateDays[j])
      BY <1>3, <1>4, <1>5, <2>1 DEF GoodEnd
    <2>4. QED
      BY <2>2, <2>3
  <1>7. QED
    BY <1>2, <1>3, <1>5, <1>6

\* Every check that passes (check_all of core/live/readiness.py) does so with the
\* admin's sign-off and after Required good days in a row at the end of the whole
\* record, of which the gate keeps only the last few.
THEOREM ReadyIsProven == GateSpec => ReadyMeansProven
  <1>1. GateInv /\ [GateSteps]_gateVars
          => [gateReady' /\ ~gateReady =>
                /\ gateLive
                /\ Len(gateLog) >= Required
                /\ \A i \in (Len(gateLog) - Required + 1) .. Len(gateLog) :
                      Qualifies(gateLog[i])]_gateVars
    BY ReadyStep
  <1>2. QED
    BY <1>1, ListStaysEndOfRecord, PTL DEF GateSpec, ReadyMeansProven

(***************************************************************************)
(* The refinement.                                                         *)
(***************************************************************************)

VerdictsOf(log) == [i \in DOMAIN log |-> Qualifies(log[i])]

\* The record's verdicts grow as the record does.
LEMMA VerdictsAppend ==
  ASSUME NEW log \in Seq(SimDays), NEW day \in SimDays
  PROVE  VerdictsOf(Append(log, day)) = Append(VerdictsOf(log), Qualifies(day))
  <1> DEFINE a == Append(log, day)
             v == VerdictsOf(log)
             n == Len(log)
  <1>1. n \in Nat /\ DOMAIN log = 1 .. n
    BY LenProperties
  <1>2. /\ DOMAIN a = 1 .. (n + 1) /\ a[n + 1] = day
        /\ \A i \in 1 .. n : a[i] = log[i]
    BY <1>1, AppendProperties, LenProperties
  <1>3. v \in [1 .. n -> BOOLEAN] /\ v \in Seq(BOOLEAN) /\ Len(v) = n
    <2>1. v \in [1 .. n -> BOOLEAN]
      BY <1>1, VerdictIsBoolean DEF VerdictsOf
    <2> HIDE DEF v
    <2>2. v \in Seq(BOOLEAN)
      BY <1>1, <2>1, SeqDef
    <2>3. Len(v) = n
      BY <1>1, <2>1, <2>2, LenProperties
    <2>4. QED
      BY <2>1, <2>2, <2>3
  <1>4. /\ DOMAIN Append(v, Qualifies(day)) = 1 .. (n + 1)
        /\ Append(v, Qualifies(day))[n + 1] = Qualifies(day)
        /\ \A i \in 1 .. n : Append(v, Qualifies(day))[i] = v[i]
        /\ Append(v, Qualifies(day)) \in [1 .. (n + 1) -> BOOLEAN]
    <2> HIDE DEF v
    <2> DEFINE q == Qualifies(day)
               w == Append(v, q)
    <2>1. q \in BOOLEAN
      BY VerdictIsBoolean
    <2> HIDE DEF q
    <2>2. /\ w \in Seq(BOOLEAN) /\ Len(w) = n + 1
          /\ w[n + 1] = q /\ \A i \in 1 .. n : w[i] = v[i]
      BY <1>1, <1>3, <2>1, AppendProperties
    <2> HIDE DEF w
    <2>3. w \in [1 .. (n + 1) -> BOOLEAN] /\ DOMAIN w = 1 .. (n + 1)
      BY <2>2, LenProperties
    <2>4. QED
      BY <2>2, <2>3 DEF w, q
  <1>5. \A i \in 1 .. (n + 1) : Append(v, Qualifies(day))[i] = Qualifies(a[i])
    <2>1. \A i \in 1 .. n : v[i] = Qualifies(log[i])
      BY <1>1 DEF VerdictsOf
    <2> HIDE DEF v, a
    <2>2. QED
      BY <1>1, <1>2, <1>4, <2>1
  <1>6. VerdictsOf(a) = [i \in 1 .. (n + 1) |-> Qualifies(a[i])]
    BY <1>2 DEF VerdictsOf
  <1>7. QED
    <2> HIDE DEF a, v, n
    <2>1. Append(v, Qualifies(day)) = [i \in 1 .. (n + 1) |-> Append(v, Qualifies(day))[i]]
      BY <1>4
    <2>2. QED
      BY <1>5, <1>6, <2>1 DEF a, v

\* The gate starts as the counter does.
LEMMA PromiseInit == GateStart => Streak!GateInit
  <1> SUFFICES ASSUME GateStart PROVE Streak!GateInit
    OBVIOUS
  <1>1. gateDays = <<>> /\ gateLog = <<>>
    BY DEF GateStart
  <1>2. [i \in DOMAIN gateLog |-> Qualifies(gateLog[i])] = <<>>
    BY <1>1
  <1>3. Trailing(gateDays) = 0
    <2>1. gateDays \in Seq(SimDays) /\ Len(gateDays) = 0
      BY <1>1
    <2>2. Trailing(gateDays) \in 0 .. Len(gateDays)
      BY <2>1, TrailingFacts
    <2>3. QED
      BY <2>1, <2>2
  <1>4. QED
    BY <1>2, <1>3 DEF Streak!GateInit

\* A step of the gate is a step of the counter or leaves it alone.
LEMMA PromiseStep ==
  ASSUME GateInv, [GateSteps]_gateVars
  PROVE  [\E good \in BOOLEAN : Streak!Record(good)]_<<[i \in DOMAIN gateLog |-> Qualifies(gateLog[i])], Trailing(gateDays)>>
  <1>1. CASE RecordDay
    <2>1. PICK day \in SimDays : gateDays' = Kept(gateDays, day) /\ gateLog' = Append(gateLog, day)
      BY <1>1 DEF RecordDay
    <2>2. VerdictsOf(gateLog') = Append(VerdictsOf(gateLog), Qualifies(day))
      BY <2>1, VerdictsAppend DEF GateInv, GateTypeOK
    <2>3. Trailing(gateDays') = IF ~Qualifies(day) THEN 0
                                ELSE IF Trailing(gateDays) < Required THEN Trailing(gateDays) + 1
                                ELSE Trailing(gateDays)
      BY <2>1, KeptStreak DEF GateInv, GateTypeOK, ListIsEndOfRecord
    <2>4. Streak!Record(Qualifies(day))
      BY <2>2, <2>3 DEF Streak!Record, Streak!Count, VerdictsOf
    <2>5. QED
      BY <2>4, VerdictIsBoolean
  <1>2. CASE UNCHANGED <<gateDays, gateLog>>
    BY <1>2
  <1>3. QED
    BY <1>1, <1>2 DEF GateSteps, SignOff, CheckAll, gateVars

\* The list of days that a failing day empties and that is trimmed to its last
\* Required days (record_day of core/backtest/sim_gate.py) implements the promise
\* of StreakGate: the number of good days in a row, up to Required.
THEOREM GateImplementsStreak == GateSpec => StreakPromise
  <1>1. GateStart => Streak!GateInit
    BY PromiseInit
  <1>2. GateInv /\ [GateSteps]_gateVars
          => [\E good \in BOOLEAN : Streak!Record(good)]_<<[i \in DOMAIN gateLog |-> Qualifies(gateLog[i])], Trailing(gateDays)>>
    BY PromiseStep
  <1>3. QED
    BY <1>1, <1>2, ListStaysEndOfRecord, PTL DEF GateSpec, StreakPromise, Streak!Promise
=============================================================================
