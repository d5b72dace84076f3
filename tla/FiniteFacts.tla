---------------------------- MODULE FiniteFacts ----------------------------
(***************************************************************************)
(* Facts about finite sets, extrema, sequences and sums that the proofs of *)
(* the components rest on.                                                 *)
(*                                                                         *)
(* Induction is on the smallest counterexample: a family of finite sets    *)
(* has a member that contains no other (SmallestSet), a set of naturals    *)
(* has a least element (LeastNatural).                                     *)
(***************************************************************************)
EXTENDS Integers, Sequences, FiniteSetsExt, SequencesExt, SequenceTheorems,
    FiniteSetTheorems, WellFoundedInduction, TLAPS

\* A family of finite sets that is not empty has a smallest member.
LEMMA SmallestSet ==
  ASSUME NEW U, NEW F \in SUBSET FiniteSubsetsOf(U), F # {}
  PROVE  \E T \in F : \A V \in F : V \subseteq T => V = T
  <1>1. IsWellFoundedOn(StrictSubsetOrdering(U), FiniteSubsetsOf(U))
    BY FS_StrictSubsetOrderingWellFounded
  <1>2. PICK T \in F : \A V \in F : ~(<<V, T>> \in StrictSubsetOrdering(U))
    BY <1>1, WFMin
  <1>3. \A V \in F : V \subseteq T => V = T
    BY <1>2 DEF StrictSubsetOrdering, FiniteSubsetsOf
  <1>4. QED
    BY <1>3

\* A set of naturals that is not empty has a least element.
LEMMA LeastNatural ==
  ASSUME NEW S \in SUBSET Nat, S # {}
  PROVE  \E m \in S : \A k \in S : m <= k
  <1> DEFINE F == {1 .. m : m \in S}
  <1>1. F \in SUBSET FiniteSubsetsOf(Nat)
    BY FS_Interval DEF FiniteSubsetsOf
  <1>2. F # {}
    OBVIOUS
  <1>3. PICK T \in F : \A V \in F : V \subseteq T => V = T
    <2> HIDE DEF F
    <2> QED BY <1>1, <1>2, SmallestSet
  <1>4. PICK m \in S : T = 1 .. m
    OBVIOUS
  <1>5. ASSUME NEW k \in S, k < m PROVE FALSE
    <2>1. (1 .. k) \subseteq T /\ 1 .. k \in F
      BY <1>4, <1>5
    <2>2. 1 .. k = 1 .. m
      BY <1>3, <1>4, <2>1
    <2>3. m \in 1 .. m /\ m \notin 1 .. k
      BY <1>5
    <2>4. QED
      BY <2>2, <2>3
  <1>6. QED
    BY <1>5

(***************************************************************************)
(* Max and Min of the community modules.                                   *)
(***************************************************************************)

\* A number of the set that is at least every other is its maximum.
LEMMA MaxIs ==
  ASSUME NEW S \in SUBSET Int, NEW m \in S, \A y \in S : m >= y
  PROVE  Max(S) = m
  <1>1. \A x \in S : (\A y \in S : x >= y) => x = m
    OBVIOUS
  <1>2. QED
    BY <1>1 DEF Max

\* A number of the set that is at most every other is its minimum.
LEMMA MinIs ==
  ASSUME NEW S \in SUBSET Int, NEW m \in S, \A y \in S : m <= y
  PROVE  Min(S) = m
  <1>1. \A x \in S : (\A y \in S : x <= y) => x = m
    OBVIOUS
  <1>2. QED
    BY <1>1 DEF Min

\* The larger of two.
LEMMA MaxOfTwo ==
  ASSUME NEW a \in Int, NEW b \in Int
  PROVE  Max({a, b}) = IF a >= b THEN a ELSE b
  <1>1. CASE a >= b
    BY <1>1, MaxIs
  <1>2. CASE ~(a >= b)
    BY <1>2, MaxIs
  <1>3. QED
    BY <1>1, <1>2

\* The smaller of two.
LEMMA MinOfTwo ==
  ASSUME NEW a \in Int, NEW b \in Int
  PROVE  Min({a, b}) = IF a <= b THEN a ELSE b
  <1>1. CASE a <= b
    BY <1>1, MinIs
  <1>2. CASE ~(a <= b)
    BY <1>2, MinIs
  <1>3. QED
    BY <1>1, <1>2

\* A finite set of numbers has a maximum.
LEMMA MaxFacts ==
  ASSUME NEW S \in SUBSET Int, IsFiniteSet(S), S # {}
  PROVE  Max(S) \in S /\ \A y \in S : Max(S) >= y
  <1> DEFINE Above(x) == {y \in S : y > x}
             F == {Above(x) : x \in S}
  <1>1. \A x \in S : IsFiniteSet(Above(x))
    BY FS_Subset
  <1>2. F \in SUBSET FiniteSubsetsOf(S)
    BY <1>1 DEF FiniteSubsetsOf
  <1>3. PICK T \in F : \A V \in F : V \subseteq T => V = T
    <2>1. F # {}
      OBVIOUS
    <2> HIDE DEF F
    <2>2. QED
      BY <1>2, <2>1, SmallestSet
  <1>4. PICK m \in S : T = Above(m)
    OBVIOUS
  <1>5. ASSUME NEW z \in S, z > m PROVE FALSE
    <2>1. Above(z) \in F
      OBVIOUS
    <2>2. \A y \in S : y > z => y > m
      BY <1>5
    <2>3. Above(z) \subseteq T
      BY <1>4, <2>2
    <2>4. z \in T /\ z \notin Above(z)
      BY <1>4, <1>5
    <2>5. QED
      BY <1>3, <2>1, <2>3, <2>4
  <1>6. \A y \in S : m >= y
    BY <1>5
  <1>7. QED
    BY <1>6, MaxIs

\* A finite set of numbers has a minimum.
LEMMA MinFacts ==
  ASSUME NEW S \in SUBSET Int, IsFiniteSet(S), S # {}
  PROVE  Min(S) \in S /\ \A y \in S : Min(S) <= y
  <1> DEFINE Below(x) == {y \in S : y < x}
             F == {Below(x) : x \in S}
  <1>1. \A x \in S : IsFiniteSet(Below(x))
    BY FS_Subset
  <1>2. F \in SUBSET FiniteSubsetsOf(S)
    BY <1>1 DEF FiniteSubsetsOf
  <1>3. PICK T \in F : \A V \in F : V \subseteq T => V = T
    <2>1. F # {}
      OBVIOUS
    <2> HIDE DEF F
    <2>2. QED
      BY <1>2, <2>1, SmallestSet
  <1>4. PICK m \in S : T = Below(m)
    OBVIOUS
  <1>5. ASSUME NEW z \in S, z < m PROVE FALSE
    <2>1. Below(z) \in F
      OBVIOUS
    <2>2. \A y \in S : y < z => y < m
      BY <1>5
    <2>3. Below(z) \subseteq T
      BY <1>4, <2>2
    <2>4. z \in T /\ z \notin Below(z)
      BY <1>4, <1>5
    <2>5. QED
      BY <1>3, <2>1, <2>3, <2>4
  <1>6. \A y \in S : m <= y
    BY <1>5
  <1>7. QED
    BY <1>6, MinIs

\* What a function maps a finite set to is finite.
LEMMA ImageFinite ==
  ASSUME NEW f, NEW S, IsFiniteSet(S)
  PROVE  IsFiniteSet({f[i] : i \in S})
  <1> DEFINE g == [i \in S |-> f[i]]
             T == {f[i] : i \in S}
  <1>1. g \in [S -> T] /\ \A t \in T : \E i \in S : g[i] = t
    OBVIOUS
  <1> HIDE DEF g, T
  <1>2. g \in Surjection(S, T)
    BY <1>1 DEF Surjection
  <1>3. IsFiniteSet(T)
    BY <1>2, FS_Surjection
  <1>4. QED
    BY <1>3 DEF T

(***************************************************************************)
(* Sums.  The folds of the community modules are a function on the subsets *)
(* of the indices, by recursion on an element chosen from each; SumOver is *)
(* that function for a sum.                                                *)
(***************************************************************************)

Picked(S) == CHOOSE x \in S : TRUE

Adds(g, f, S) ==
  g = [s \in SUBSET S |-> IF s = {} THEN 0 ELSE f[Picked(s)] + g[s \ {Picked(s)}]]

Adder(f, S) == CHOOSE g : Adds(g, f, S)

SumOver(f, S) == Adder(f, S)[S]

\* What a fold that adds up the values of a function is.
LEMMA FoldIsSumOver ==
  ASSUME NEW f
  PROVE  FoldSeq(LAMBDA x, acc : x + acc, 0, f) = SumOver(f, DOMAIN f)
  BY DEF FoldSeq, FoldFunction, FoldFunctionOnSet, MapThenFoldSet, SumOver, Adder, Adds, Picked

\* The sums of the community modules are such functions, too.
LEMMA SumSetIs ==
  ASSUME NEW f, NEW S
  PROVE  SumFunctionOnSet(f, S) = SumOver(f, S)
  BY DEF SumFunctionOnSet, FoldFunctionOnSet, MapThenFoldSet, SumOver, Adder, Adds, Picked

\* Two such functions agree where both are defined and their summands agree.
LEMMA AddersAgree ==
  ASSUME NEW S, NEW T, NEW f, NEW h, NEW g, NEW k, Adds(g, f, S), Adds(k, h, T),
         NEW U, IsFiniteSet(U), U \subseteq S, U \subseteq T, \A i \in U : f[i] = h[i]
  PROVE  g[U] = k[U]
  <1> DEFINE F == {V \in SUBSET U : g[V] # k[V]}
  <1>1. SUFFICES ASSUME g[U] # k[U] PROVE FALSE
    OBVIOUS
  <1>2. F \in SUBSET FiniteSubsetsOf(U) /\ F # {}
    BY <1>1, FS_FiniteSubsetsOfFinite
  <1>3. PICK V \in F : \A W \in F : W \subseteq V => W = V
    <2> HIDE DEF F
    <2> QED BY <1>2, SmallestSet
  <1>4. /\ g[V] = IF V = {} THEN 0 ELSE f[Picked(V)] + g[V \ {Picked(V)}]
        /\ k[V] = IF V = {} THEN 0 ELSE h[Picked(V)] + k[V \ {Picked(V)}]
    <2>1. V \in SUBSET S /\ V \in SUBSET T
      OBVIOUS
    <2>2. QED
      BY <2>1 DEF Adds
  <1>5. V # {} /\ V # V \ {Picked(V)} /\ Picked(V) \in U
    BY <1>4 DEF Picked
  <1>6. g[V \ {Picked(V)}] = k[V \ {Picked(V)}]
    BY <1>3, <1>5
  <1>7. QED
    BY <1>4, <1>5, <1>6

\* For a finite set of indices there is such a function.
LEMMA AdderExists ==
  ASSUME NEW f, NEW S, IsFiniteSet(S)
  PROVE  Adds(Adder(f, S), f, S)
  <1> DEFINE F == {T \in SUBSET S : ~Adds(Adder(f, T), f, T)}
  <1>1. SUFFICES ASSUME F # {} PROVE FALSE
    OBVIOUS
  <1>2. F \in SUBSET FiniteSubsetsOf(S)
    BY FS_FiniteSubsetsOfFinite
  <1>3. PICK T \in F : \A V \in F : V \subseteq T => V = T
    <2> HIDE DEF F
    <2> QED BY <1>1, <1>2, SmallestSet
  <1>4. \A V \in SUBSET T : V # T => Adds(Adder(f, V), f, V)
    BY <1>3
  <1> DEFINE Rest(s) == s \ {Picked(s)}
             h == [s \in SUBSET T |-> IF s = {} THEN 0
                                      ELSE f[Picked(s)] + Adder(f, Rest(s))[Rest(s)]]
  <1>5. ASSUME NEW s \in SUBSET T, s # {}
        PROVE  h[Rest(s)] = Adder(f, Rest(s))[Rest(s)]
    <2> DEFINE r == Rest(s)
    <2>1. r \in SUBSET T /\ r # T
      BY <1>5 DEF Picked
    <2>2. Adds(Adder(f, r), f, r)
      BY <2>1, <1>4
    <2>3. Adder(f, r)[r] = IF r = {} THEN 0 ELSE f[Picked(r)] + Adder(f, r)[Rest(r)]
      BY <2>2 DEF Adds
    <2>4. CASE r # {}
      <3>1. Rest(r) \subseteq r /\ Rest(r) \subseteq T /\ Rest(r) # T
        BY <2>1
      <3>2. Adds(Adder(f, Rest(r)), f, Rest(r))
        BY <3>1, <1>4
      <3>3. IsFiniteSet(Rest(r))
        BY <3>1, FS_Subset
      <3>4. Adder(f, r)[Rest(r)] = Adder(f, Rest(r))[Rest(r)]
        <4> HIDE DEF r, Rest
        <4> QED BY <2>2, <3>1, <3>2, <3>3, AddersAgree
      <3>5. QED
        BY <2>1, <2>3, <2>4, <3>4
    <2>5. CASE r = {}
      BY <2>1, <2>3, <2>5
    <2>6. QED
      BY <2>4, <2>5
  <1>6. Adds(h, f, T)
    BY <1>5 DEF Adds
  <1>7. Adds(Adder(f, T), f, T)
    <2> HIDE DEF h
    <2> QED BY <1>6 DEF Adder
  <1>8. QED
    BY <1>7

\* A sum over nothing is 0; any other is the summand of any index more than
\* the sum over the rest.
LEMMA SumPicked ==
  ASSUME NEW f, NEW S, IsFiniteSet(S)
  PROVE  SumOver(f, S) = IF S = {} THEN 0
                         ELSE f[Picked(S)] + SumOver(f, S \ {Picked(S)})
  <1> DEFINE rest == S \ {Picked(S)}
  <1>1. Adds(Adder(f, S), f, S)
    BY AdderExists
  <1>2. Adder(f, S)[S] = IF S = {} THEN 0 ELSE f[Picked(S)] + Adder(f, S)[rest]
    BY <1>1 DEF Adds
  <1>3. IsFiniteSet(rest)
    BY FS_RemoveElement
  <1>4. Adds(Adder(f, rest), f, rest)
    BY <1>3, AdderExists
  <1>5. Adder(f, S)[rest] = Adder(f, rest)[rest]
    <2> HIDE DEF rest
    <2>1. rest \subseteq S /\ rest \subseteq rest
      BY DEF rest
    <2> QED BY <1>1, <1>3, <1>4, <2>1, AddersAgree
  <1>6. QED
    BY <1>2, <1>5 DEF SumOver

\* Functions that agree on the indices have the same sum.
LEMMA SumSame ==
  ASSUME NEW f, NEW h, NEW S, IsFiniteSet(S), \A i \in S : f[i] = h[i]
  PROVE  SumOver(f, S) = SumOver(h, S)
  <1>1. Adds(Adder(f, S), f, S) /\ Adds(Adder(h, S), h, S)
    BY AdderExists
  <1>2. QED
    BY <1>1, AddersAgree DEF SumOver

\* A sum of integers is an integer.
LEMMA SumType ==
  ASSUME NEW S, IsFiniteSet(S), NEW f, \A i \in S : f[i] \in Int
  PROVE  SumOver(f, S) \in Int
  <1> DEFINE F == {T \in SUBSET S : SumOver(f, T) \notin Int}
  <1>1. SUFFICES ASSUME F # {} PROVE FALSE
    OBVIOUS
  <1>2. F \in SUBSET FiniteSubsetsOf(S)
    BY FS_FiniteSubsetsOfFinite
  <1>3. PICK T \in F : \A V \in F : V \subseteq T => V = T
    <2> HIDE DEF F
    <2> QED BY <1>1, <1>2, SmallestSet
  <1>4. IsFiniteSet(T)
    BY FS_Subset
  <1>5. SumOver(f, T) = IF T = {} THEN 0 ELSE f[Picked(T)] + SumOver(f, T \ {Picked(T)})
    BY <1>4, SumPicked
  <1>6. T # {}
    BY <1>5
  <1>7. Picked(T) \in T
    BY <1>6 DEF Picked
  <1>8. SumOver(f, T \ {Picked(T)}) \in Int
    BY <1>3, <1>7
  <1>9. QED
    BY <1>5, <1>6, <1>7, <1>8

\* A sum of naturals is a natural.
LEMMA SumNatural ==
  ASSUME NEW S, IsFiniteSet(S), NEW f, \A i \in S : f[i] \in Nat
  PROVE  SumOver(f, S) \in Nat
  <1> DEFINE F == {T \in SUBSET S : SumOver(f, T) \notin Nat}
  <1>1. SUFFICES ASSUME F # {} PROVE FALSE
    OBVIOUS
  <1>2. F \in SUBSET FiniteSubsetsOf(S)
    BY FS_FiniteSubsetsOfFinite
  <1>3. PICK T \in F : \A V \in F : V \subseteq T => V = T
    <2> HIDE DEF F
    <2> QED BY <1>1, <1>2, SmallestSet
  <1>4. IsFiniteSet(T)
    BY FS_Subset
  <1>5. SumOver(f, T) = IF T = {} THEN 0 ELSE f[Picked(T)] + SumOver(f, T \ {Picked(T)})
    BY <1>4, SumPicked
  <1>6. T # {}
    BY <1>5
  <1>7. Picked(T) \in T
    BY <1>6 DEF Picked
  <1>8. SumOver(f, T \ {Picked(T)}) \in Nat
    BY <1>3, <1>7
  <1>9. QED
    BY <1>5, <1>6, <1>7, <1>8

\* Any element may be taken out of a sum first, not just the one a fold chooses.
LEMMA SumRemove ==
  ASSUME NEW S, IsFiniteSet(S), NEW f, \A i \in S : f[i] \in Int, NEW x \in S
  PROVE  SumOver(f, S) = f[x] + SumOver(f, S \ {x})
  <1> DEFINE F == {T \in SUBSET S : \E y \in T : SumOver(f, T) # f[y] + SumOver(f, T \ {y})}
  <1>1. SUFFICES ASSUME F # {} PROVE FALSE
    OBVIOUS
  <1>2. F \in SUBSET FiniteSubsetsOf(S)
    BY FS_FiniteSubsetsOfFinite
  <1>3. PICK T \in F : \A V \in F : V \subseteq T => V = T
    <2> HIDE DEF F
    <2> QED BY <1>1, <1>2, SmallestSet
  <1>4. PICK y \in T : SumOver(f, T) # f[y] + SumOver(f, T \ {y})
    OBVIOUS
  <1> DEFINE p == Picked(T)
             R == T \ {p}
             W == T \ {y}
  <1>5. p \in T /\ T \in SUBSET S
    BY DEF Picked
  <1>6. IsFiniteSet(T) /\ IsFiniteSet(R) /\ IsFiniteSet(W) /\ IsFiniteSet(R \ {y})
    BY <1>5, FS_Subset
  <1>7. SumOver(f, T) = f[p] + SumOver(f, R)
    BY <1>5, <1>6, SumPicked
  <1>8. p # y
    BY <1>4, <1>7
  <1>9. SumOver(f, R) = f[y] + SumOver(f, R \ {y})
    <2>1. R \in SUBSET S /\ R # T /\ R \subseteq T /\ y \in R
      BY <1>5, <1>8
    <2>2. R \notin F
      BY <1>3, <2>1
    <2>3. QED
      BY <2>1, <2>2
  <1>10. SumOver(f, W) = f[p] + SumOver(f, W \ {p})
    <2>1. W \in SUBSET S /\ W # T /\ W \subseteq T /\ p \in W
      BY <1>5, <1>8
    <2>2. W \notin F
      BY <1>3, <2>1
    <2>3. QED
      BY <2>1, <2>2
  <1>11. W \ {p} = R \ {y}
    OBVIOUS
  <1>12. f[p] \in Int /\ f[y] \in Int /\ SumOver(f, R \ {y}) \in Int
    <2>1. \A i \in R \ {y} : f[i] \in Int
      BY <1>5
    <2>2. SumOver(f, R \ {y}) \in Int
      BY <1>6, <2>1, SumType
    <2>3. QED
      BY <1>5, <2>2
  <1> DEFINE c == SumOver(f, R \ {y})
  <1>13. SumOver(f, T) = f[p] + (f[y] + c)
    BY <1>7, <1>9
  <1>14. SumOver(f, T \ {y}) = f[p] + c
    BY <1>10, <1>11
  <1>15. f[p] + (f[y] + c) = f[y] + (f[p] + c)
    <2> HIDE DEF c, p
    <2> QED BY <1>12 DEF c
  <1>16. QED
    BY <1>4, <1>13, <1>14, <1>15

(***************************************************************************)
(* Sums along a sequence.                                                  *)
(***************************************************************************)

Total(seq) == FoldSeq(LAMBDA x, acc : x + acc, 0, seq)

\* A total is the sum over the indices.
LEMMA TotalIs ==
  ASSUME NEW f
  PROVE  Total(f) = SumOver(f, DOMAIN f)
  BY FoldIsSumOver DEF Total

\* Nothing adds up to 0.
LEMMA TotalEmpty == Total(<<>>) = 0
  <1>1. DOMAIN <<>> = {} /\ IsFiniteSet({})
    BY FS_EmptySet
  <1>2. QED
    BY <1>1, TotalIs, SumPicked

\* One more number at the end.
LEMMA TotalAppend ==
  ASSUME NEW seq \in Seq(Int), NEW x \in Int
  PROVE  /\ Total(seq) \in Int
         /\ Total(Append(seq, x)) = Total(seq) + x
  <1> DEFINE n == Len(seq)
             longer == Append(seq, x)
  <1>1. n \in Nat /\ DOMAIN seq = 1 .. n /\ DOMAIN longer = 1 .. (n + 1)
    BY LenProperties, AppendProperties
  <1>2. IsFiniteSet(1 .. n) /\ IsFiniteSet(1 .. (n + 1))
    BY <1>1, FS_Interval
  <1>3. /\ \A i \in 1 .. n : seq[i] \in Int /\ longer[i] = seq[i]
        /\ longer[n + 1] = x
    BY <1>1, AppendProperties, ElementOfSeq
  <1>4. \A i \in 1 .. (n + 1) : longer[i] \in Int
    BY <1>1, <1>3
  <1>5. (1 .. (n + 1)) \ {n + 1} = 1 .. n /\ n + 1 \in 1 .. (n + 1)
    BY <1>1
  <1>6. SumOver(longer, 1 .. (n + 1)) = x + SumOver(longer, 1 .. n)
    <2> HIDE DEF n, longer
    <2>1. SumOver(longer, 1 .. (n + 1))
            = longer[n + 1] + SumOver(longer, (1 .. (n + 1)) \ {n + 1})
      BY <1>2, <1>4, <1>5, SumRemove
    <2>2. QED
      BY <2>1, <1>3, <1>5
  <1>7. SumOver(longer, 1 .. n) = SumOver(seq, 1 .. n)
    BY <1>2, <1>3, SumSame
  <1>8. SumOver(seq, 1 .. n) \in Int
    BY <1>2, <1>3, SumType
  <1>9. Total(seq) = SumOver(seq, 1 .. n) /\ Total(longer) = SumOver(longer, 1 .. (n + 1))
    BY <1>1, TotalIs
  <1>10. QED
    <2> HIDE DEF n
    <2> QED BY <1>6, <1>7, <1>8, <1>9

(***************************************************************************)
(* Ends of sequences.                                                      *)
(***************************************************************************)

EndFrom(seq, n) == SubSeq(seq, n + 1, Len(seq))

\* What is left of a sequence without its first n members.
LEMMA EndFromIs ==
  ASSUME NEW Elems, NEW seq \in Seq(Elems), NEW n \in 0 .. Len(seq)
  PROVE  /\ EndFrom(seq, n) \in Seq(Elems)
         /\ Len(EndFrom(seq, n)) = Len(seq) - n
         /\ \A i \in 1 .. (Len(seq) - n) : EndFrom(seq, n)[i] = seq[n + i]
  <1> DEFINE m == Len(seq)
  <1>1. m \in Nat /\ n \in Nat /\ n <= m
    BY LenProperties
  <1>2. /\ EndFrom(seq, n) \in Seq(Elems)
        /\ Len(EndFrom(seq, n)) = IF n + 1 <= m THEN m - (n + 1) + 1 ELSE 0
        /\ \A i \in 1 .. (m - (n + 1) + 1) : EndFrom(seq, n)[i] = seq[n + 1 + i - 1]
    <2>1. \A i \in (n + 1) .. m : seq[i] \in Elems
      BY <1>1, ElementOfSeq
    <2> HIDE DEF m
    <2>2. n + 1 \in Int /\ m \in Int
      BY <1>1
    <2>3. EndFrom(seq, n) = SubSeq(seq, n + 1, m)
      BY DEF EndFrom, m
    <2>4. QED
      BY <1>1, <2>1, <2>2, <2>3, SubSeqProperties
  <1> HIDE DEF m
  <1>3. Len(EndFrom(seq, n)) = m - n /\ m - (n + 1) + 1 = m - n
    BY <1>1, <1>2
  <1>4. ASSUME NEW i \in 1 .. (m - n) PROVE EndFrom(seq, n)[i] = seq[n + i]
    <2>1. n + 1 + i - 1 = n + i
      BY <1>1
    <2>2. QED
      BY <1>2, <1>3, <2>1
  <1>5. QED
    BY <1>2, <1>3, <1>4 DEF m

\* One more member comes at the end of any end.
LEMMA EndFromAppend ==
  ASSUME NEW Elems, NEW seq \in Seq(Elems), NEW x \in Elems, NEW n \in 0 .. Len(seq)
  PROVE  /\ Append(EndFrom(seq, n), x) = EndFrom(Append(seq, x), n)
         /\ n \in 0 .. Len(Append(seq, x))
  <1> DEFINE m == Len(seq)
             longer == Append(seq, x)
             end == EndFrom(seq, n)
             both == Append(end, x)
  <1>1. m \in Nat /\ n \in Nat /\ n <= m
    BY LenProperties
  <1>2. /\ longer \in Seq(Elems) /\ Len(longer) = m + 1
        /\ \A i \in 1 .. m : longer[i] = seq[i]
        /\ longer[m + 1] = x
    BY AppendProperties
  <1>3. n \in 0 .. Len(longer)
    BY <1>1, <1>2
  <1>4. /\ end \in Seq(Elems) /\ Len(end) = m - n
        /\ \A i \in 1 .. (m - n) : end[i] = seq[n + i]
    BY EndFromIs
  <1>5. /\ EndFrom(longer, n) \in Seq(Elems) /\ Len(EndFrom(longer, n)) = m + 1 - n
        /\ \A i \in 1 .. (m + 1 - n) : EndFrom(longer, n)[i] = longer[n + i]
    <2>0. \A q \in Seq(Elems) : \A j \in 0 .. Len(q) :
             /\ EndFrom(q, j) \in Seq(Elems) /\ Len(EndFrom(q, j)) = Len(q) - j
             /\ \A i \in 1 .. (Len(q) - j) : EndFrom(q, j)[i] = q[j + i]
      BY EndFromIs
    <2> HIDE DEF longer, m
    <2>1. /\ EndFrom(longer, n) \in Seq(Elems) /\ Len(EndFrom(longer, n)) = Len(longer) - n
          /\ \A i \in 1 .. (Len(longer) - n) : EndFrom(longer, n)[i] = longer[n + i]
      BY <1>2, <1>3, <2>0
    <2>2. QED
      BY <1>1, <1>2, <2>1
  <1>6. /\ both \in Seq(Elems) /\ Len(both) = m - n + 1 /\ both[m - n + 1] = x
        /\ \A i \in 1 .. (m - n) : both[i] = end[i]
    <2> HIDE DEF end, m
    <2> QED BY <1>4, AppendProperties
  <1> HIDE DEF longer, end, both, m
  <1>7. ASSUME NEW i \in 1 .. (m + 1 - n) PROVE both[i] = EndFrom(longer, n)[i]
    <2>1. i \in Int /\ 1 <= i /\ i <= m + 1 - n
      BY <1>1
    <2>2. CASE i <= m - n
      <3>1. i \in 1 .. (m - n) /\ n + i \in 1 .. m
        BY <1>1, <2>1, <2>2
      <3>2. QED
        BY <1>2, <1>4, <1>5, <1>6, <3>1
    <2>3. CASE i = m - n + 1
      <3>1. n + i = m + 1
        BY <1>1, <2>1, <2>3
      <3>2. QED
        BY <1>2, <1>5, <1>6, <2>3, <3>1
    <2>4. QED
      BY <1>1, <2>1, <2>2, <2>3
  <1>8. Len(both) = Len(EndFrom(longer, n)) /\ Len(both) = m + 1 - n
    BY <1>1, <1>5, <1>6
  <1>9. both = EndFrom(longer, n)
    BY <1>5, <1>6, <1>7, <1>8, SeqEqual
  <1>10. QED
    BY <1>3, <1>9 DEF both, longer, end

\* The end of an end is an end.
LEMMA EndFromEnd ==
  ASSUME NEW Elems, NEW seq \in Seq(Elems), NEW n \in 0 .. Len(seq),
         NEW k \in 0 .. (Len(seq) - n)
  PROVE  EndFrom(EndFrom(seq, n), k) = EndFrom(seq, n + k) /\ n + k \in 0 .. Len(seq)
  <1> DEFINE m == Len(seq)
             end == EndFrom(seq, n)
             rest == EndFrom(end, k)
             whole == EndFrom(seq, n + k)
  <1>1. m \in Nat /\ n \in Nat /\ n <= m /\ k \in Nat /\ k <= m - n
    BY LenProperties
  <1>2. n + k \in 0 .. m
    BY <1>1
  <1>3. /\ end \in Seq(Elems) /\ Len(end) = m - n
        /\ \A i \in 1 .. (m - n) : end[i] = seq[n + i]
    BY EndFromIs
  <1>4. /\ whole \in Seq(Elems) /\ Len(whole) = m - (n + k)
        /\ \A i \in 1 .. (m - (n + k)) : whole[i] = seq[n + k + i]
    BY <1>2, EndFromIs
  <1>5. /\ rest \in Seq(Elems) /\ Len(rest) = m - n - k
        /\ \A i \in 1 .. (m - n - k) : rest[i] = end[k + i]
    <2>0. \A q \in Seq(Elems) : \A j \in 0 .. Len(q) :
             /\ EndFrom(q, j) \in Seq(Elems) /\ Len(EndFrom(q, j)) = Len(q) - j
             /\ \A i \in 1 .. (Len(q) - j) : EndFrom(q, j)[i] = q[j + i]
      BY EndFromIs
    <2> HIDE DEF end, m
    <2>1. k \in 0 .. Len(end)
      BY <1>1, <1>3
    <2>2. QED
      BY <1>3, <2>0, <2>1
  <1> HIDE DEF end, rest, whole, m
  <1>6. ASSUME NEW i \in 1 .. (m - n - k) PROVE rest[i] = whole[i]
    <2>1. k + i \in 1 .. (m - n) /\ n + (k + i) = n + k + i /\ m - (n + k) = m - n - k
      BY <1>1
    <2>2. QED
      BY <1>3, <1>4, <1>5, <2>1
  <1>7. Len(rest) = Len(whole)
    BY <1>1, <1>4, <1>5
  <1>8. rest = whole
    BY <1>4, <1>5, <1>6, <1>7, SeqEqual
  <1>9. QED
    BY <1>2, <1>8 DEF rest, whole, end, m
=============================================================================
