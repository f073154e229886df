------------------------ MODULE CompletionResultProofs ------------------------
(***************************************************************************)
(* Proofs about what completion returns, for every catalog and every       *)
(* request: it contains what was asked for and nothing that is not needed, *)
(* and it is the best of what was found (auto_completer.cpp:44-74,         *)
(* 84-196, 386-394).                                                       *)
(***************************************************************************)
EXTENDS CompletionProofs, FiniteSetTheorems, WellFoundedInduction

-----------------------------------------------------------------------------
(* Sums over finite sets *)

\* Of a non-empty set of numbers one is the least.
LEMMA LeastOf ==
    ASSUME NEW S \in SUBSET Nat, S # {}
    PROVE  \E m \in S : \A n \in S : m <= n
<1>1. PICK m \in S : \A n \in S : ~(<<n, m>> \in OpToRel(<, Nat))
    BY NatLessThanWellFounded, WFMin
<1>2. ASSUME NEW n \in S PROVE m <= n
    <2>1. n \in Nat /\ m \in Nat
        BY <1>1
    <2>2. ~(n < m)
        BY <1>1, <2>1 DEF OpToRel
    <2> QED BY <2>1, <2>2
<1> QED BY <1>2

\* The sum of the weights w of the elements of s, if it is known for the smaller sets.
Summand(s) == CHOOSE x \in s : TRUE
SumOf(w, s, g) == IF s = {} THEN 0 ELSE w[Summand(s)] + g[s \ {Summand(s)}]

\* There is a sum for all subsets of a finite set.
LEMMA SumExists ==
    ASSUME NEW S, IsFiniteSet(S), NEW w \in [S -> Int]
    PROVE  \E g \in [SUBSET S -> Int] : \A s \in SUBSET S : g[s] = SumOf(w, s, g)
<1> DEFINE Small(n) == {s \in SUBSET S : Cardinality(s) <= n}
           Sums(n, g) == \A s \in Small(n) : g[s] = SumOf(w, s, g)
           Open == {n \in Nat : ~ \E g \in [Small(n) -> Int] : Sums(n, g)}
<1>1. \A s \in SUBSET S : IsFiniteSet(s) /\ Cardinality(s) \in Nat /\ Cardinality(s) <= Cardinality(S)
    BY FS_Subset, FS_CardinalityType
<1>2. \A s \in SUBSET S : s # {} =>
          /\ Summand(s) \in s
          /\ s \ {Summand(s)} \in SUBSET S
          /\ Cardinality(s \ {Summand(s)}) = Cardinality(s) - 1
    <2> SUFFICES ASSUME NEW s \in SUBSET S, s # {}
                 PROVE  /\ Summand(s) \in s
                        /\ s \ {Summand(s)} \in SUBSET S
                        /\ Cardinality(s \ {Summand(s)}) = Cardinality(s) - 1
        OBVIOUS
    <2>1. Summand(s) \in s
        BY DEF Summand
    <2> HIDE DEF Summand
    <2> QED BY <1>1, <2>1, FS_RemoveElement
<1>3. 0 \notin Open
    <2> DEFINE g == [s \in Small(0) |-> 0]
    <2>1. \A s \in Small(0) : s = {}
        BY <1>1, FS_EmptySet
    <2>2. Sums(0, g)
        BY <2>1 DEF SumOf
    <2>3. g \in [Small(0) -> Int]
        OBVIOUS
    <2> QED BY <2>2, <2>3
<1>4. ASSUME NEW n \in Nat, n \notin Open
      PROVE  n + 1 \notin Open
    <2>1. PICK g \in [Small(n) -> Int] : Sums(n, g)
        BY <1>4
    <2> DEFINE h == [s \in Small(n + 1) |-> SumOf(w, s, g)]
    <2>2. \A s \in Small(n + 1) : s # {} => s \ {Summand(s)} \in Small(n)
        BY <1>1, <1>2
    <2>3. h \in [Small(n + 1) -> Int]
        <3> SUFFICES ASSUME NEW s \in Small(n + 1) PROVE SumOf(w, s, g) \in Int
            OBVIOUS
        <3>1. CASE s = {}
            BY <3>1 DEF SumOf
        <3>2. CASE s # {}
            <4>1. g[s \ {Summand(s)}] \in Int
                BY <2>2, <3>2
            <4>2. w[Summand(s)] \in Int
                BY <1>2, <3>2
            <4> QED BY <4>1, <4>2, <3>2 DEF SumOf
        <3> QED BY <3>1, <3>2
    <2>4. \A s \in Small(n) : s \in Small(n + 1) /\ h[s] = g[s]
        <3> SUFFICES ASSUME NEW s \in Small(n)
                     PROVE  s \in Small(n + 1) /\ h[s] = g[s]
            OBVIOUS
        <3>1. s \in Small(n + 1)
            BY <1>1
        <3> HIDE DEF Small
        <3> QED BY <2>1, <3>1
    <2>5. ASSUME NEW s \in Small(n + 1) PROVE h[s] = SumOf(w, s, h)
        <3>1. CASE s = {}
            BY <3>1 DEF SumOf
        <3>2. CASE s # {}
            <4>1. h[s \ {Summand(s)}] = g[s \ {Summand(s)}]
                BY <2>2, <2>4, <3>2
            <4>2. h[s] = SumOf(w, s, g)
                OBVIOUS
            <4> HIDE DEF h
            <4> QED BY <4>1, <4>2 DEF SumOf
        <3> QED BY <3>1, <3>2
    <2> HIDE DEF h
    <2> QED BY <2>3, <2>5
<1>5. Open = {}
    <2> SUFFICES ASSUME Open # {} PROVE FALSE
        OBVIOUS
    <2>1. Open \in SUBSET Nat
        OBVIOUS
    <2> HIDE DEF Open
    <2>2. PICK m \in Open : \A n \in Open : m <= n
        BY <2>1, LeastOf
    <2>3. m # 0 /\ m \in Nat
        BY <2>1, <1>3
    <2>4. m - 1 \in Nat /\ m - 1 \notin Open
        BY <2>1, <2>2, <2>3
    <2>5. (m - 1) + 1 \notin Open
        BY <2>4, <1>4
    <2> QED BY <2>3, <2>5
<1>6. Cardinality(S) \in Nat /\ Small(Cardinality(S)) = SUBSET S
    BY <1>1, FS_CardinalityType
<1>7. PICK g \in [Small(Cardinality(S)) -> Int] : Sums(Cardinality(S), g)
    BY <1>5, <1>6
<1>8. g \in [SUBSET S -> Int] /\ \A s \in SUBSET S : g[s] = SumOf(w, s, g)
    BY <1>6, <1>7
<1> QED BY <1>8

\* A sum is a number.
LEMMA SumIsNumber ==
    ASSUME NEW S, IsFiniteSet(S), NEW w \in [S -> Int],
           NEW g, g = [s \in SUBSET S |-> SumOf(w, s, g)]
    PROVE  g[S] \in Int
<1> DEFINE Odd == {n \in Nat : \E s \in SUBSET S : Cardinality(s) = n /\ g[s] \notin Int}
<1>1. \A s \in SUBSET S : IsFiniteSet(s) /\ Cardinality(s) \in Nat
    BY FS_Subset, FS_CardinalityType
<1>2. CASE Odd = {}
    BY <1>1, <1>2
<1>3. CASE Odd # {}
    <2>1. Odd \in SUBSET Nat
        OBVIOUS
    <2>2. PICK m \in Odd : \A n \in Odd : m <= n
        <3> HIDE DEF Odd
        <3> QED BY <1>3, <2>1, LeastOf
    <2>3. PICK s \in SUBSET S : Cardinality(s) = m /\ g[s] \notin Int
        BY <2>2
    <2>4. g[s] = SumOf(w, s, g)
        BY <2>3
    <2>5. s # {}
        BY <2>3, <2>4 DEF SumOf
    <2>6. Summand(s) \in s
        BY <2>5 DEF Summand
    <2> DEFINE r == s \ {Summand(s)}
    <2>7. r \in SUBSET S /\ Cardinality(r) = m - 1 /\ m - 1 \in Nat
        <3>1. Cardinality(r) = m - 1
            BY <1>1, <2>3, <2>6, FS_RemoveElement
        <3>2. r \in SUBSET S /\ Cardinality(r) \in Nat
            BY <1>1
        <3> QED BY <3>1, <3>2
    <2>8. g[r] \in Int
        BY <2>2, <2>7
    <2>9. w[Summand(s)] \in Int
        BY <2>6
    <2> QED BY <2>3, <2>4, <2>5, <2>8, <2>9 DEF SumOf
<1> QED BY <1>2, <1>3

\* What a sequence is worth by the values v of its processors is a number.
LEMMA WorthIsNumber ==
    ASSUME NEW v \in [Processor -> Int], NEW seq \in Seq(Promise)
    PROVE  MapThenSumSet(LAMBDA i : v[seq[i].processor], DOMAIN seq) \in Int
<1> DEFINE S == DOMAIN seq
           w == [i \in S |-> v[seq[i].processor]]
           Iter(g) == g = [s \in SUBSET S |->
                              IF s = {} THEN 0
                              ELSE v[seq[CHOOSE x \in s : TRUE].processor]
                                   + g[s \ {CHOOSE x \in s : TRUE}]]
<1>1. w \in [S -> Int]
    <2> SUFFICES ASSUME NEW i \in DOMAIN seq PROVE v[seq[i].processor] \in Int
        OBVIOUS
    <2>1. seq[i] \in Promise
        OBVIOUS
    <2> QED BY <2>1 DEF Promise
<1>2. IsFiniteSet(S)
    BY FS_Interval
<1>3. \A g : Iter(g) <=> g = [s \in SUBSET S |-> SumOf(w, s, g)]
    <2>1. \A s \in SUBSET S : s # {} =>
              v[seq[CHOOSE x \in s : TRUE].processor] = w[CHOOSE x \in s : TRUE]
        OBVIOUS
    <2> QED BY <2>1 DEF SumOf, Summand
<1>4. \E g : Iter(g)
    <2> HIDE DEF w, S, Iter
    <2>1. PICK g \in [SUBSET S -> Int] : \A s \in SUBSET S : g[s] = SumOf(w, s, g)
        BY <1>1, <1>2, SumExists
    <2>2. g = [s \in SUBSET S |-> SumOf(w, s, g)]
        BY <2>1
    <2> QED BY <1>3, <2>2
<1>5. Iter(CHOOSE g : Iter(g))
    <2> HIDE DEF Iter
    <2> QED BY <1>4
<1>6. (CHOOSE g : Iter(g))[S] \in Int
    <2> HIDE DEF w, S, Iter
    <2> DEFINE g == CHOOSE g : Iter(g)
    <2>1. g = [s \in SUBSET S |-> SumOf(w, s, g)]
        BY <1>3, <1>5
    <2> HIDE DEF g
    <2>2. g[S] \in Int
        BY <1>1, <1>2, <2>1, SumIsNumber
    <2> QED BY <2>2 DEF g
<1> QED BY <1>6 DEF MapThenSumSet, MapThenFoldSet

-----------------------------------------------------------------------------
(* The choice *)

LEMMA ScoresAreNumbers ==
    ASSUME setting \in Setting, NEW seq \in Seq(Promise)
    PROVE  Score(seq) \in Int /\ Time(seq) \in Int
<1>1. setting.quality \in [Processor -> Int] /\ setting.time \in [Processor -> Int]
    BY DEF Setting
<1> QED BY <1>1, WorthIsNumber DEF Score, Time

\* What is left of a list without one of its elements was in it.
LEMMA WithoutLeaves ==
    ASSUME NEW S, NEW s \in Seq(S), NEW i \in DOMAIN s, NEW j \in DOMAIN without(s, i)
    PROVE  \E k \in DOMAIN s : without(s, i)[j] = s[k]
<1>1. i \in 1 .. Len(s) /\ Len(s) \in Nat
    OBVIOUS
<1> DEFINE a == SubSeq(s, 1, i - 1)
           b == SubSeq(s, i + 1, Len(s))
<1>2. /\ a \in Seq(S) /\ Len(a) = i - 1
      /\ \A k \in 1 .. (i - 1) : a[k] = s[k]
    BY <1>1
<1>3. /\ b \in Seq(S) /\ Len(b) = Len(s) - i
      /\ \A k \in 1 .. (Len(s) - i) : b[k] = s[i + k]
    BY <1>1
<1>4. without(s, i) = a \o b
    BY DEF without
<1> HIDE DEF a, b
<1>5. /\ DOMAIN (a \o b) = 1 .. (Len(a) + Len(b))
      /\ \A k \in 1 .. (Len(a) + Len(b)) :
             (a \o b)[k] = IF k <= Len(a) THEN a[k] ELSE b[k - Len(a)]
    <2>1. /\ a \o b \in Seq(S) /\ Len(a \o b) = Len(a) + Len(b)
          /\ \A k \in 1 .. (Len(a) + Len(b)) :
                 (a \o b)[k] = IF k <= Len(a) THEN a[k] ELSE b[k - Len(a)]
        BY <1>2, <1>3, ConcatProperties
    <2> QED BY <2>1
<1>6. j \in 1 .. (Len(s) - 1)
    BY <1>1, <1>2, <1>3, <1>4, <1>5
<1>7. CASE j <= i - 1
    <2>1. (a \o b)[j] = a[j] /\ j \in 1 .. (i - 1)
        BY <1>1, <1>2, <1>3, <1>5, <1>6, <1>7
    <2>2. a[j] = s[j] /\ j \in DOMAIN s
        BY <1>1, <1>2, <2>1
    <2> QED BY <1>4, <2>1, <2>2
<1>8. CASE j > i - 1
    <2> DEFINE k == j - (i - 1)
    <2>1. k \in 1 .. (Len(s) - i) /\ j \in 1 .. (Len(a) + Len(b)) /\ ~(j <= Len(a)) /\ Len(a) = i - 1
        BY <1>1, <1>2, <1>3, <1>6, <1>8
    <2>2. (a \o b)[j] = b[k]
        BY <1>5, <2>1
    <2>3. i + k \in DOMAIN s
        BY <1>1, <2>1
    <2> HIDE DEF k
    <2>4. b[k] = s[i + k]
        BY <1>3, <2>1
    <2> QED BY <1>4, <2>2, <2>3, <2>4
<1> QED BY <1>1, <1>6, <1>7, <1>8

\* Only the loop of complete() finds a sequence, and it ends there.
LEMMA FoundByChoice ==
    ASSUME [Next]_vars, outcome' = "found"
    PROVE  Choose \/ UNCHANGED vars
<1>1. CASE UNCHANGED vars
    BY <1>1
<1>2. CASE Choose
    BY <1>2
<1>3. CASE \/ MultiplyByLanguages \/ GiveUpOnLanguage \/ TryAlternative \/ AllTried
           \/ InsertFulfillers \/ GiveUpOnTags \/ Advance \/ Collect
    BY <1>3 DEF MultiplyByLanguages, GiveUpOnLanguage, TryAlternative, AllTried,
                InsertFulfillers, GiveUpOnTags, Advance, Collect, Searching, Running
<1>4. CASE LoseRestartPosition \/ StartChoosing \/ Fail
    BY <1>4 DEF LoseRestartPosition, StartChoosing, Fail
<1> QED BY <1>1, <1>2, <1>3, <1>4 DEF Next

\* The scores change only with the catalog.
LEMMA ScoresStay ==
    ASSUME setting' = setting
    PROVE  \A s : Score(s)' = Score(s) /\ Time(s)' = Time(s)
<1>1. \A s : Score(s)' = Score(s)
    BY Zenon DEF Score, MapThenSumSet, MapThenFoldSet
<1>2. \A s : Time(s)' = Time(s)
    BY Zenon DEF Time, MapThenSumSet, MapThenFoldSet
<1> QED BY <1>1, <1>2

\* A step of the loop takes one of the best.
LEMMA ChooseTakesBest ==
    ASSUME IInv, Choose, outcome' = "found"
    PROVE  BestChosen'
<1>1. PICK i \in DOMAIN alternativeSequences :
          /\ IsBest(i)
          /\ alternativeSequences' = without(alternativeSequences, i)
          /\ bestFound' = alternativeSequences[i]
    BY DEF Choose
<1>2. setting \in Setting /\ setting' = setting
    BY SettingFields DEF Choose, IInv
<1>3. alternativeSequences \in Seq(Seq(Promise))
    BY DEF IInv, Offered
<1>4. ASSUME NEW j \in DOMAIN alternativeSequences'
      PROVE  LET s == alternativeSequences'[j]
             IN /\ Score(s) <= Score(bestFound')
                /\ Score(s) = Score(bestFound') => Time(s) >= Time(bestFound')
    <2>1. PICK k \in DOMAIN alternativeSequences :
              alternativeSequences'[j] = alternativeSequences[k]
        BY <1>1, <1>3, WithoutLeaves
    <2>2. ~better(alternativeSequences[k], alternativeSequences[i])
        BY <1>1 DEF IsBest
    <2>3. alternativeSequences[k] \in Seq(Promise) /\ alternativeSequences[i] \in Seq(Promise)
        BY <1>3
    <2>4. /\ Score(alternativeSequences[k]) \in Int /\ Score(alternativeSequences[i]) \in Int
          /\ Time(alternativeSequences[k]) \in Int /\ Time(alternativeSequences[i]) \in Int
        BY <1>2, <2>3, ScoresAreNumbers
    <2> QED BY <1>1, <2>1, <2>2, <2>4 DEF better
<1>5. \A s : Score(s)' = Score(s) /\ Time(s)' = Time(s)
    BY <1>2, ScoresStay
<1> QED BY <1>4, <1>5 DEF BestChosen

\* What is found in the end is as good as anything that was left, for every catalog
\* and request and any number of sequences (auto_completer.cpp:44-74, 386-394).
THEOREM BestIsChosen == Spec => []BestChosen
<1>1. Init => BestChosen
    BY DEF Init, BestChosen
<1>2. IInv /\ BestChosen /\ [Next]_vars => BestChosen'
    <2> SUFFICES ASSUME IInv, BestChosen, [Next]_vars, outcome' = "found"
                 PROVE  BestChosen'
        BY DEF BestChosen
    <2>1. CASE Choose
        BY <2>1, ChooseTakesBest
    <2>2. CASE UNCHANGED vars
        BY <2>2, ScoresStay DEF vars, BestChosen
    <2> QED BY <2>1, <2>2, FoundByChoice
<1> QED BY <1>1, <1>2, IInvHolds, PTL DEF Spec

-----------------------------------------------------------------------------
(* The elements of a sequence that is taken apart and put together again   *)

ThreeParts(s, t, u, r) ==
    /\ \A j \in 1 .. Len(s) : r[j] = s[j]
    /\ \A j \in 1 .. Len(t) : r[Len(s) + j] = t[j]
    /\ \A j \in 1 .. Len(u) : r[Len(s) + Len(t) + j] = u[j]

\* Three sequences in a row.
LEMMA Pieces ==
    ASSUME NEW S, NEW s \in Seq(S), NEW t \in Seq(S), NEW u \in Seq(S),
           NEW r, r = s \o t \o u
    PROVE  ThreeParts(s, t, u, r)
    BY DEF ThreeParts

\* replaced(): what is before i, the new elements, what is behind i.
LEMMA ReplacedElements ==
    ASSUME NEW S, NEW seq \in Seq(S), NEW i \in 1 .. Len(seq), NEW new \in Seq(S)
    PROVE  /\ \A j \in 1 .. i - 1 : replaced(seq, i, new)[j] = seq[j]
           /\ \A j \in 1 .. Len(new) : replaced(seq, i, new)[i - 1 + j] = new[j]
           /\ \A j \in i + 1 .. Len(seq) : replaced(seq, i, new)[j - 1 + Len(new)] = seq[j]
<1> DEFINE s == SubSeq(seq, 1, i - 1)
           u == SubSeq(seq, i + 1, Len(seq))
           r == replaced(seq, i, new)
<1>1. Len(seq) \in Nat /\ Len(new) \in Nat /\ i \in Nat
    OBVIOUS
<1>2. s \in Seq(S) /\ Len(s) = i - 1 /\ \A j \in 1 .. i - 1 : s[j] = seq[j]
    OBVIOUS
<1>3. u \in Seq(S) /\ Len(u) = Len(seq) - i /\ \A j \in 1 .. Len(seq) - i : u[j] = seq[i + j]
    OBVIOUS
<1>4. r = s \o new \o u
    BY DEF replaced
<1> HIDE DEF s, u, r
<1>5. /\ \A j \in 1 .. Len(s) : r[j] = s[j]
      /\ \A j \in 1 .. Len(new) : r[Len(s) + j] = new[j]
      /\ \A j \in 1 .. Len(u) : r[Len(s) + Len(new) + j] = u[j]
    <2>1. ThreeParts(s, new, u, r)
        BY <1>2, <1>3, <1>4, Pieces
    <2> QED BY <2>1 DEF ThreeParts
<1>6. ASSUME NEW j \in i + 1 .. Len(seq) PROVE r[j - 1 + Len(new)] = seq[j]
    <2> DEFINE k == j - i
    <2>1. /\ k \in 1 .. Len(u) /\ k \in 1 .. Len(seq) - i /\ i + k = j
          /\ Len(s) + Len(new) + k = j - 1 + Len(new)
        BY <1>1, <1>2, <1>3
    <2> HIDE DEF k
    <2>2. r[Len(s) + Len(new) + k] = u[k] /\ u[k] = seq[i + k]
        BY <1>3, <1>5, <2>1
    <2> QED BY <2>1, <2>2
<1>7. \A j \in 1 .. i - 1 : r[j] = seq[j]
    BY <1>2, <1>5
<1>8. \A j \in 1 .. Len(new) : r[i - 1 + j] = new[j]
    BY <1>2, <1>5
<1> QED BY <1>6, <1>7, <1>8 DEF r

\* inserted(): what is before i, the new element, and the rest one further on.
LEMMA InsertedElements ==
    ASSUME NEW S, NEW seq \in Seq(S), NEW i \in 1 .. Len(seq), NEW alt \in S
    PROVE  /\ \A j \in 1 .. i - 1 : inserted(seq, i, alt)[j] = seq[j]
           /\ inserted(seq, i, alt)[i] = alt
           /\ \A j \in i .. Len(seq) : inserted(seq, i, alt)[j + 1] = seq[j]
    BY DEF inserted


\* What holds of 0 and of each next number up to N holds of all of them; Odd are
\* those it does not hold of.
LEMMA UpTo ==
    ASSUME NEW N \in Nat, NEW Odd \in SUBSET (0 .. N), 0 \notin Odd,
           \A n \in 0 .. N - 1 : n \notin Odd => n + 1 \notin Odd
    PROVE  Odd = {}
<1> SUFFICES ASSUME Odd # {} PROVE FALSE
    OBVIOUS
<1>1. Odd \in SUBSET Nat
    OBVIOUS
<1>2. PICK m \in Odd : \A n \in Odd : m <= n
    BY <1>1, LeastOf
<1>3. m - 1 \in 0 .. N - 1 /\ m - 1 \notin Odd /\ (m - 1) + 1 = m
    BY <1>2
<1> QED BY <1>3

LEMMA TwoPieces ==
    ASSUME NEW S, NEW s \in Seq(S), NEW t \in Seq(S), NEW r, r = s \o t
    PROVE  /\ r \in Seq(S) /\ Len(r) = Len(s) + Len(t)
           /\ \A j \in 1 .. Len(s) : r[j] = s[j]
           /\ \A j \in 1 .. Len(t) : r[Len(s) + j] = t[j]
    OBVIOUS

\* FlattenSeq() puts one sequence behind the other; a[i] is where the i-th ends.
LEMMA Flattening ==
    ASSUME NEW S, NEW seqs \in Seq(Seq(S))
    PROVE  \E a \in [0 .. Len(seqs) -> Nat] :
               /\ a[0] = 0
               /\ a[Len(seqs)] = Len(Sequence!FlattenSeq(seqs))
               /\ \A i \in 1 .. Len(seqs) :
                     /\ a[i] = a[i - 1] + Len(seqs[i])
                     /\ \A l \in 1 .. Len(seqs[i]) :
                           Sequence!FlattenSeq(seqs)[a[i - 1] + l] = seqs[i][l]
<1> DEFINE N == Len(seqs)
           Step(g, i) == IF i = 1 THEN seqs[i] ELSE g[i - 1] \o seqs[i]
           Laid(n, g, a) ==
               /\ a[0] = 0
               /\ \A i \in 1 .. n :
                     /\ g[i] = Step(g, i)
                     /\ a[i] = a[i - 1] + Len(seqs[i])
                     /\ Len(g[i]) = a[i]
                     /\ \A k \in 1 .. i : \A l \in 1 .. Len(seqs[k]) :
                           a[k - 1] + l \in 1 .. a[i] /\ g[i][a[k - 1] + l] = seqs[k][l]
           Odd == {n \in 0 .. N : ~ \E g \in [1 .. n -> Seq(S)], a \in [0 .. n -> Nat] : Laid(n, g, a)}
<1>1. N \in Nat /\ \A i \in 1 .. N : seqs[i] \in Seq(S) /\ Len(seqs[i]) \in Nat
    BY ElementOfSeq
<1>2. 0 \notin Odd
    <2> DEFINE g == [i \in 1 .. 0 |-> seqs[i]]
               a == [i \in 0 .. 0 |-> 0]
    <2>1. g \in [1 .. 0 -> Seq(S)] /\ a \in [0 .. 0 -> Nat] /\ Laid(0, g, a)
        OBVIOUS
    <2> HIDE DEF g, a, Laid
    <2> QED BY <1>1, <2>1
<1>3. ASSUME NEW n \in 0 .. N - 1, n \notin Odd
      PROVE  n + 1 \notin Odd
    <2>1. PICK g \in [1 .. n -> Seq(S)], a \in [0 .. n -> Nat] : Laid(n, g, a)
        <3>1. n \in 0 .. N
            BY <1>1
        <3> HIDE DEF Laid, N
        <3> QED BY <3>1, <1>3
    <2>2. n \in Nat /\ n + 1 \in 0 .. N /\ n + 1 \in 1 .. N /\ 1 .. n \subseteq 1 .. n + 1
        BY <1>1
    <2> DEFINE last == IF n = 0 THEN seqs[1] ELSE g[n] \o seqs[n + 1]
               h == [i \in 1 .. n + 1 |-> IF i = n + 1 THEN last ELSE g[i]]
               b == [i \in 0 .. n + 1 |-> IF i = n + 1 THEN a[n] + Len(seqs[n + 1]) ELSE a[i]]
    <2>3. seqs[n + 1] \in Seq(S) /\ Len(seqs[n + 1]) \in Nat
        BY <1>1, <2>2
    <2>4. a[n] \in Nat /\ (n = 0 => a[n] = 0) /\ (n # 0 => g[n] \in Seq(S) /\ Len(g[n]) = a[n])
        <3>1. a[n] \in Nat /\ a[0] = 0
            BY <2>1, <2>2
        <3>2. ASSUME n # 0 PROVE g[n] \in Seq(S) /\ Len(g[n]) = a[n]
            <4>1. n \in 1 .. n
                BY <2>2, <3>2
            <4> QED BY <2>1, <4>1
        <3> QED BY <3>1, <3>2
    <2>5. /\ last \in Seq(S) /\ Len(last) = a[n] + Len(seqs[n + 1])
          /\ n # 0 => \A j \in 1 .. a[n] : last[j] = g[n][j]
          /\ \A l \in 1 .. Len(seqs[n + 1]) : last[a[n] + l] = seqs[n + 1][l]
        <3>1. CASE n = 0
            BY <2>3, <2>4, <3>1
        <3>2. CASE n # 0
            <4>1. g[n] \in Seq(S) /\ Len(g[n]) = a[n] /\ last = g[n] \o seqs[n + 1]
                BY <2>4, <3>2
            <4>2. PICK x \in Seq(S), y \in Seq(S) : x = g[n] /\ y = seqs[n + 1]
                BY <2>3, <4>1
            <4>3. last = x \o y
                BY <4>1, <4>2
            <4> HIDE DEF last
            <4>4. /\ last \in Seq(S) /\ Len(last) = Len(x) + Len(y)
                  /\ \A j \in 1 .. Len(x) : last[j] = x[j]
                  /\ \A l \in 1 .. Len(y) : last[Len(x) + l] = y[l]
                BY <4>3, TwoPieces
            <4> QED BY <3>2, <4>1, <4>2, <4>4
        <3> QED BY <3>1, <3>2
    <2>6. h \in [1 .. n + 1 -> Seq(S)] /\ b \in [0 .. n + 1 -> Nat]
        <3> HIDE DEF last
        <3>1. \A i \in 1 .. n + 1 : i = n + 1 \/ i \in 1 .. n
            BY <2>2
        <3>2. \A i \in 0 .. n + 1 : i = n + 1 \/ i \in 0 .. n
            BY <2>2
        <3>3. a[n] + Len(seqs[n + 1]) \in Nat
            BY <2>3, <2>4
        <3> QED BY <2>5, <3>1, <3>2, <3>3
    <2>7. /\ \A i \in 1 .. n : h[i] = g[i] /\ b[i] = a[i] /\ b[i - 1] = a[i - 1]
          /\ h[n + 1] = last /\ b[n + 1] = a[n] + Len(seqs[n + 1]) /\ b[n] = a[n] /\ b[0] = 0
        <3> HIDE DEF last, Laid
        <3>1. ASSUME NEW i \in 1 .. n
              PROVE  h[i] = g[i] /\ b[i] = a[i] /\ b[i - 1] = a[i - 1]
            BY <2>2
        <3>2. n \in 0 .. n + 1 /\ n # n + 1 /\ 0 \in 0 .. n + 1 /\ 0 # n + 1 /\ n + 1 \in 1 .. n + 1
              /\ n + 1 \in 0 .. n + 1
            BY <2>2
        <3>3. a[0] = 0
            BY <2>1 DEF Laid
        <3> QED BY <3>1, <3>2, <3>3
    <2>8. Laid(n + 1, h, b)
        <3> HIDE DEF h, b
        <3> SUFFICES ASSUME NEW i \in 1 .. n + 1
                     PROVE  /\ h[i] = Step(h, i)
                            /\ b[i] = b[i - 1] + Len(seqs[i])
                            /\ Len(h[i]) = b[i]
                            /\ \A k \in 1 .. i : \A l \in 1 .. Len(seqs[k]) :
                                  b[k - 1] + l \in 1 .. b[i] /\ h[i][b[k - 1] + l] = seqs[k][l]
            BY <2>7
        <3>1. CASE i \in 1 .. n
            <4>1. /\ g[i] = Step(g, i) /\ a[i] = a[i - 1] + Len(seqs[i]) /\ Len(g[i]) = a[i]
                  /\ \A k \in 1 .. i : \A l \in 1 .. Len(seqs[k]) :
                        a[k - 1] + l \in 1 .. a[i] /\ g[i][a[k - 1] + l] = seqs[k][l]
                BY <2>1, <3>1
            <4>2. h[i] = g[i] /\ b[i] = a[i] /\ b[i - 1] = a[i - 1]
                BY <2>7, <3>1
            <4>3. i # 1 => h[i - 1] = g[i - 1]
                <5>1. i # 1 => i - 1 \in 1 .. n
                    BY <2>2, <3>1
                <5> QED BY <2>7, <5>1
            <4>4. \A k \in 1 .. i : b[k - 1] = a[k - 1]
                <5>1. \A k \in 1 .. i : k \in 1 .. n
                    BY <2>2, <3>1
                <5> QED BY <2>7, <5>1
            <4>5. h[i] = Step(h, i)
                BY <4>1, <4>2, <4>3
            <4> HIDE DEF Step
            <4> QED BY <4>1, <4>2, <4>4, <4>5
        <3>2. CASE i = n + 1
            <4>1. h[i] = Step(h, i)
                <5>1. CASE n = 0
                    BY <2>7, <3>2, <5>1
                <5>2. CASE n # 0
                    <6>1. i # 1 /\ i - 1 = n /\ n \in 1 .. n
                        BY <2>2, <3>2, <5>2
                    <6>2. h[i - 1] = g[n]
                        BY <2>7, <6>1
                    <6> QED BY <2>7, <3>2, <5>2, <6>1, <6>2
                <5> QED BY <5>1, <5>2
            <4>2. b[i] = b[i - 1] + Len(seqs[i]) /\ Len(h[i]) = b[i]
                <5>1. i - 1 = n
                    BY <2>2, <3>2
                <5> HIDE DEF last
                <5> QED BY <2>5, <2>7, <3>2, <5>1
            <4>3. ASSUME NEW k \in 1 .. i, NEW l \in 1 .. Len(seqs[k])
                  PROVE  b[k - 1] + l \in 1 .. b[i] /\ h[i][b[k - 1] + l] = seqs[k][l]
                <5> HIDE DEF last
                <5>1. CASE k = n + 1
                    <6>1. k - 1 = n /\ b[k - 1] = a[n] /\ l \in 1 .. Len(seqs[n + 1])
                        BY <2>2, <2>7, <5>1
                    <6>2. a[n] + l \in 1 .. a[n] + Len(seqs[n + 1])
                        <7>1. a[n] \in Nat /\ Len(seqs[n + 1]) \in Nat
                            BY <2>3, <2>4
                        <7> QED BY <6>1, <7>1
                    <6> QED BY <2>5, <2>7, <3>2, <5>1, <6>1, <6>2
                <5>2. CASE k # n + 1
                    <6>1. k \in 1 .. n /\ n # 0 /\ n \in 1 .. n
                        BY <2>2, <3>2, <5>2
                    <6>2. /\ a[k - 1] + l \in 1 .. a[n] /\ g[n][a[k - 1] + l] = seqs[k][l]
                          /\ b[k - 1] = a[k - 1]
                        BY <2>1, <2>7, <6>1
                    <6>3. a[k - 1] + l \in 1 .. b[i]
                        <7>1. b[i] = a[n] + Len(seqs[n + 1])
                            BY <2>7, <3>2
                        <7> QED BY <2>3, <2>4, <6>2, <7>1
                    <6> QED BY <2>5, <2>7, <3>2, <6>1, <6>2, <6>3
                <5> QED BY <5>1, <5>2
            <4> HIDE DEF Step
            <4> QED BY <4>1, <4>2, <4>3
        <3> QED BY <2>2, <3>1, <3>2
    <2> HIDE DEF h, b, Laid
    <2> QED BY <2>2, <2>6, <2>8
<1>4. PICK g \in [1 .. N -> Seq(S)], a \in [0 .. N -> Nat] : Laid(N, g, a)
    <2>1. Odd \in SUBSET (0 .. N)
        OBVIOUS
    <2>2. \A n \in 0 .. N - 1 : n \notin Odd => n + 1 \notin Odd
        BY <1>3
    <2> HIDE DEF Odd
    <2>3. Odd = {}
        BY <1>1, <1>2, <2>1, <2>2, UpTo
    <2>4. N \in 0 .. N
        BY <1>1
    <2> HIDE DEF Laid
    <2> QED BY <2>3, <2>4 DEF Odd
<1>5. \A f : f = [i \in 1 .. N |-> Step(f, i)] => \A i \in 1 .. N : f[i] = g[i]
    <2> SUFFICES ASSUME NEW f, f = [i \in 1 .. N |-> Step(f, i)] PROVE \A i \in 1 .. N : f[i] = g[i]
        OBVIOUS
    <2> DEFINE Differ == {i \in 0 .. N : i # 0 /\ f[i] # g[i]}
    <2>1. ASSUME NEW n \in 0 .. N - 1, n \notin Differ PROVE n + 1 \notin Differ
        <3>1. n \in 0 .. N /\ n + 1 \in 1 .. N /\ (n + 1) - 1 = n /\ (n = 0 <=> n + 1 = 1)
            BY <1>1
        <3>2. f[n + 1] = Step(f, n + 1)
            <4> HIDE DEF Step
            <4> QED BY <3>1
        <3>3. g[n + 1] = Step(g, n + 1)
            <4> HIDE DEF Step
            <4> QED BY <1>4, <3>1
        <3>4. n # 0 => f[n] = g[n]
            BY <2>1, <3>1
        <3> QED BY <3>1, <3>2, <3>3, <3>4
    <2>2. 0 \notin Differ /\ Differ \in SUBSET (0 .. N)
        OBVIOUS
    <2> HIDE DEF Differ
    <2>3. Differ = {}
        BY <1>1, <2>1, <2>2, UpTo
    <2> HIDE DEF Step, N
    <2>4. ASSUME NEW i \in 1 .. N PROVE f[i] = g[i]
        <3>1. i \in 0 .. N /\ i # 0
            BY <1>1
        <3> QED BY <2>3, <3>1 DEF Differ
    <2> QED BY <2>4
<1>6. CASE N = 0
    <2>1. Sequence!FlattenSeq(seqs) = seqs
        BY <1>6 DEF Sequence!FlattenSeq
    <2> QED BY <1>4, <1>6, <2>1
<1>7. CASE N # 0
    <2> DEFINE flat == Sequence!FlattenSeq(seqs)
               f == CHOOSE f : f = [i \in 1 .. N |-> Step(f, i)]
    <2>1. g = [i \in 1 .. N |-> Step(g, i)]
        <3>1. \A i \in 1 .. N : g[i] = Step(g, i)
            BY <1>4
        <3> HIDE DEF Step
        <3> QED BY <3>1
    <2>2. f = [i \in 1 .. N |-> Step(f, i)]
        <3> HIDE DEF Step
        <3> QED BY <2>1
    <2>3. flat = f[N]
        BY <1>7 DEF Sequence!FlattenSeq
    <2>4. flat = g[N] /\ N \in 1 .. N
        <3> HIDE DEF f, Step
        <3>1. \A i \in 1 .. N : f[i] = g[i]
            BY <1>5, <2>2
        <3>2. N \in 1 .. N
            BY <1>1, <1>7
        <3> QED BY <2>3, <3>1, <3>2
    <2> HIDE DEF flat, f, Step, N
    <2>5. /\ a[0] = 0 /\ Len(g[N]) = a[N]
          /\ \A i \in 1 .. N : a[i] = a[i - 1] + Len(seqs[i])
          /\ \A k \in 1 .. N : \A l \in 1 .. Len(seqs[k]) : g[N][a[k - 1] + l] = seqs[k][l]
        BY <1>4, <2>4
    <2>6. /\ a[0] = 0 /\ a[N] = Len(flat)
          /\ \A i \in 1 .. N : /\ a[i] = a[i - 1] + Len(seqs[i])
                               /\ \A l \in 1 .. Len(seqs[i]) : flat[a[i - 1] + l] = seqs[i][l]
        BY <2>4, <2>5
    <2> QED BY <2>6 DEF flat, N
<1> QED BY <1>6, <1>7

-----------------------------------------------------------------------------
(* What was asked for is accounted for: each element of a call's sequence   *)
(* stands for promises asked for, in their order, or serves a later one.    *)

\* The alternative stands for the promises asked for at positions m + 1 to n.
Stands(alt, m, n) ==
    IF isMultilingual(alt) /\ setting.langCodes # <<>>
    THEN /\ n = m + Len(setting.langCodes)
         /\ \A l \in 1 .. Len(setting.langCodes) :
                filtreByLanguage(alt, setting.langCodes[l]) \subseteq Requested[m + l]
    ELSE n = m + 1 /\ alt \subseteq Requested[n]

\* Promise p provides what promise q requires at once.
Needed(p, q) ==
    \E k \in DOMAIN setting.required[q.processor] :
        provides(p, setting.required[q.processor][k])

\* The element at i is there for a later one, which is no choice any more.
Serves(seq, i) ==
    \E j \in (i + 1) .. Len(seq) : \E q \in Promise :
        /\ seq[j] = {q}
        /\ ~isMultilingual({q})
        /\ \A p \in seq[i] : Needed(p, q)

\* a[i] of the promises asked for are accounted for by the first i elements.
AccountOf(seq, a) ==
    /\ a[0] = 0
    /\ a[Len(seq)] = Len(Requested)
    /\ \A i \in 1 .. Len(seq) :
          \/ Stands(seq[i], a[i - 1], a[i])
          \/ a[i] = a[i - 1] /\ Serves(seq, i)

Accounted(seq) == \E a \in [0 .. Len(seq) -> Nat] : AccountOf(seq, a)

\* Nothing that is passed is multilingual; without languages only what has just
\* been inserted may be.
Plain(c) ==
    /\ \A i \in 1 .. (c.iter - 1) : ~isMultilingual(c.sequence[i])
    /\ setting.langCodes = <<>> =>
          \A i \in 1 .. Len(c.sequence) :
              isMultilingual(c.sequence[i]) => i = c.iter /\ c.restartPosition = c.iter

\* Every multilingual alternative of the request can be multiplied.
Askable == \A i \in DOMAIN setting.request : isMultilingual(setting.request[i])
                                                 => setting.langCodes # <<>>

KeptCall == {c \in GoodCall : Accounted(c.sequence) /\ Plain(c)}
KeptSequence == {s \in Offered : KeepsRequest(s)}

KeptInv ==
    Askable =>
        /\ calls \in Seq(KeptCall)
        /\ alternativeSequences \in Seq(KeptSequence)
        /\ outcome = "found" => KeepsRequest(bestFound)

\* Parts of an alternative, and of what is left of it for a language.
LEMMA PartIsNotMultilingual ==
    ASSUME NEW alt, NEW part \in SUBSET alt, ~isMultilingual(alt)
    PROVE  ~isMultilingual(part)
    BY DEF isMultilingual

LEMMA FilteredAreNeeded ==
    ASSUME NEW alt \in SUBSET Promise, NEW lang, NEW q, \A p \in alt : Needed(p, q)
    PROVE  \A p \in filtreByLanguage(alt, lang) : Needed(p, q)
<1> SUFFICES ASSUME NEW p \in alt PROVE Needed(withLanguageSet(p, lang), q)
    BY DEF filtreByLanguage
<1>1. p \in Promise
    OBVIOUS
<1>2. withLanguageSet(p, lang).processor = p.processor
    BY <1>1 DEF withLanguageSet, Promise
<1> QED BY <1>2 DEF Needed, provides

\* What is not multilingual stands for one promise, or for none.
LEMMA StandsForOne ==
    ASSUME NEW alt, NEW m, NEW n, ~isMultilingual(alt)
    PROVE  Stands(alt, m, n) <=> n = m + 1 /\ alt \subseteq Requested[n]
    BY DEF Stands

\* All this depends on the setting only.
LEMMA SameRequest ==
    ASSUME setting' = setting
    PROVE  /\ Requested' = Requested
           /\ Askable' <=> Askable
           /\ KeptCall' = KeptCall
           /\ KeptSequence' = KeptSequence
           /\ \A s : KeepsRequest(s)' <=> KeepsRequest(s)
<1> DEFINE Asked(i) == IF isMultilingual(setting.request[i]) /\ setting.langCodes # <<>>
                       THEN [l \in DOMAIN setting.langCodes |->
                                filtreByLanguage(setting.request[i], setting.langCodes[l])]
                       ELSE <<setting.request[i]>>
<1>1. \A alt : isMultilingual(alt)' <=> isMultilingual(alt)
    BY DEF isMultilingual, OneLanguage, languagesHandling, languagesHandled
<1>2. \A alt, lang : filtreByLanguage(alt, lang)' = filtreByLanguage(alt, lang)
    BY DEF filtreByLanguage, withLanguageSet, canHandleLanguage, AnyLanguage,
           languagesHandling, languagesHandled
<1>3. \A i : Asked(i)' = Asked(i)
    BY <1>1, <1>2
<1>4. Requested' = Requested
    <2> HIDE DEF Asked
    <2>1. [i \in DOMAIN setting.request |-> Asked(i)]' = [i \in DOMAIN setting.request |-> Asked(i)]
        BY <1>3
    <2>2. Requested = Sequence!FlattenSeq([i \in DOMAIN setting.request |-> Asked(i)])
        BY DEF Requested, Asked
    <2>3. Requested' = Sequence!FlattenSeq([i \in DOMAIN setting.request |-> Asked(i)]')
        BY DEF Requested, Asked
    <2> QED BY <2>1, <2>2, <2>3
<1>5. \A p, q : Needed(p, q)' <=> Needed(p, q)
    BY DEF Needed, provides
<1>6. \A seq, i : Serves(seq, i)' <=> Serves(seq, i)
    BY <1>1, <1>5 DEF Serves
<1>7. \A alt, m, n : Stands(alt, m, n)' <=> Stands(alt, m, n)
    BY <1>1, <1>2, <1>4 DEF Stands
<1>8. \A seq : Accounted(seq)' <=> Accounted(seq)
    BY <1>4, <1>6, <1>7 DEF Accounted, AccountOf
<1>9. \A c : Plain(c)' <=> Plain(c)
    BY <1>1 DEF Plain
<1>10. \A s : KeepsRequest(s)' <=> KeepsRequest(s)
    <2>1. \A S, s : Explains(S, s)' <=> Explains(S, s)
        BY <1>4 DEF Explains, provides
    <2> QED BY <1>4, <2>1 DEF KeepsRequest
<1>11. GoodCall' = GoodCall /\ Offered' = Offered
    BY SameSetting
<1>12. KeptCall' = KeptCall
    BY <1>8, <1>9, <1>11 DEF KeptCall
<1>13. KeptSequence' = KeptSequence
    BY <1>10, <1>11 DEF KeptSequence
<1>14. Askable' <=> Askable
    BY <1>1 DEF Askable
<1> QED BY <1>4, <1>10, <1>12, <1>13, <1>14

\* What the three kinds of change make of a sequence: a choice at i, the insertion
\* of what the single promise at i needs, and an alternative for each language.
Chosen(seq, new, i, p) ==
    /\ Len(seq) \in Nat /\ Len(new) = Len(seq) /\ i \in 1 .. Len(seq)
    /\ p \in seq[i] /\ new[i] = {p} /\ ~isMultilingual(seq[i])
    /\ \A j \in 1 .. Len(seq) : j # i => new[j] = seq[j]

InsertedFor(seq, new, i, q) ==
    /\ Len(seq) \in Nat /\ Len(new) = Len(seq) + 1 /\ i \in 1 .. Len(seq)
    /\ q \in Promise /\ seq[i] = {q} /\ ~isMultilingual({q})
    /\ \A j \in 1 .. i - 1 : new[j] = seq[j]
    /\ \A p \in new[i] : Needed(p, q)
    /\ \A j \in i .. Len(seq) : new[j + 1] = seq[j]

Multiplied(seq, new, i, L) ==
    /\ L \in Nat \ {0} /\ L = Len(setting.langCodes) /\ setting.langCodes # <<>>
    /\ Len(seq) \in Nat /\ Len(new) = Len(seq) - 1 + L /\ i \in 1 .. Len(seq)
    /\ seq[i] \in SUBSET Promise /\ isMultilingual(seq[i])
    /\ \A j \in 1 .. i - 1 : new[j] = seq[j]
    /\ \A l \in 1 .. L : /\ new[i - 1 + l] = filtreByLanguage(seq[i], setting.langCodes[l])
                          /\ ~isMultilingual(new[i - 1 + l])
    /\ \A j \in i + 1 .. Len(seq) : new[j - 1 + L] = seq[j]

\* A choice made leaves the account as it is.
LEMMA ChoiceIsAccounted ==
    ASSUME NEW seq, NEW new, NEW i, NEW p, Chosen(seq, new, i, p), Accounted(seq)
    PROVE  Accounted(new)
<1> PICK N \in Nat :
        /\ Len(seq) = N /\ Len(new) = N /\ i \in 1 .. N
        /\ p \in seq[i] /\ new[i] = {p} /\ ~isMultilingual(seq[i])
        /\ \A j \in 1 .. N : j # i => new[j] = seq[j]
    BY DEF Chosen
<1>1. PICK a \in [0 .. N -> Nat] : AccountOf(seq, a)
    BY DEF Accounted
<1>2. {p} \subseteq seq[i] /\ ~isMultilingual({p})
    BY PartIsNotMultilingual
<1>3. ASSUME NEW j \in 1 .. N, Serves(seq, j)
      PROVE  Serves(new, j)
    <2>1. PICK k \in (j + 1) .. N, q \in Promise :
              seq[k] = {q} /\ ~isMultilingual({q}) /\ \A r \in seq[j] : Needed(r, q)
        BY <1>3 DEF Serves
    <2>2. k \in 1 .. N
        BY <2>1
    <2>3. new[k] = {q}
        BY <1>2, <2>1, <2>2
    <2>4. new[j] \subseteq seq[j]
        BY <1>2
    <2>5. \A r \in new[j] : Needed(r, q)
        BY <2>1, <2>4
    <2>6. k \in (j + 1) .. Len(new) /\ ~isMultilingual({q})
        BY <2>1
    <2> QED BY <2>3, <2>5, <2>6 DEF Serves
<1>4. ASSUME NEW j \in 1 .. N
      PROVE  Stands(new[j], a[j - 1], a[j]) \/ (a[j] = a[j - 1] /\ Serves(new, j))
    <2>1. Stands(seq[j], a[j - 1], a[j]) \/ (a[j] = a[j - 1] /\ Serves(seq, j))
        BY <1>1 DEF AccountOf
    <2>2. Stands(seq[j], a[j - 1], a[j]) => Stands(new[j], a[j - 1], a[j])
        <3>1. CASE j = i
            <4>1. Stands(seq[i], a[j - 1], a[j])
                      => a[j] = a[j - 1] + 1 /\ seq[i] \subseteq Requested[a[j]]
                BY StandsForOne
            <4>2. Stands({p}, a[j - 1], a[j])
                      <=> a[j] = a[j - 1] + 1 /\ {p} \subseteq Requested[a[j]]
                BY <1>2, StandsForOne
            <4> QED BY <1>2, <3>1, <4>1, <4>2
        <3>2. CASE j # i
            BY <3>2
        <3> QED BY <3>1, <3>2
    <2> QED BY <1>3, <2>1, <2>2
<1>5. AccountOf(new, a)
    BY <1>1, <1>4 DEF AccountOf
<1> QED BY <1>5 DEF Accounted

\* What is inserted before a single promise that needs it is accounted for.
LEMMA InsertedIsAccounted ==
    ASSUME NEW seq, NEW new, NEW i, NEW q, InsertedFor(seq, new, i, q), Accounted(seq)
    PROVE  Accounted(new)
<1> PICK N \in Nat :
        /\ Len(seq) = N /\ Len(new) = N + 1 /\ i \in 1 .. N
        /\ q \in Promise /\ seq[i] = {q} /\ ~isMultilingual({q})
        /\ \A j \in 1 .. i - 1 : new[j] = seq[j]
        /\ \A p \in new[i] : Needed(p, q)
        /\ \A j \in i .. N : new[j + 1] = seq[j]
    BY DEF InsertedFor
<1>1. PICK a \in [0 .. N -> Nat] : AccountOf(seq, a)
    BY DEF Accounted
<1> DEFINE b == [j \in 0 .. N + 1 |-> IF j < i THEN a[j] ELSE a[j - 1]]
<1>2. b \in [0 .. N + 1 -> Nat]
    <2>1. ASSUME NEW j \in 0 .. N + 1 PROVE (IF j < i THEN a[j] ELSE a[j - 1]) \in Nat
        <3>1. CASE j < i
            <4>1. j \in 0 .. N
                BY <3>1
            <4> QED BY <3>1, <4>1
        <3>2. CASE ~(j < i)
            <4>1. j - 1 \in 0 .. N
                BY <3>2
            <4> QED BY <3>2, <4>1
        <3> QED BY <3>1, <3>2
    <2> QED BY <2>1
<1>3. \A j \in 0 .. N + 1 : b[j] = IF j < i THEN a[j] ELSE a[j - 1]
    OBVIOUS
<1> HIDE DEF b
<1>4. b[0] = 0 /\ b[N + 1] = Len(Requested)
    <2>1. 0 \in 0 .. N + 1 /\ N + 1 \in 0 .. N + 1 /\ 0 < i /\ ~(N + 1 < i) /\ N + 1 - 1 = N
        OBVIOUS
    <2> QED BY <1>1, <1>3, <2>1 DEF AccountOf
<1>5. ASSUME NEW j \in 1 .. N, Serves(seq, j)
      PROVE  Serves(new, IF j < i THEN j ELSE j + 1)
    <2>1. PICK k \in (j + 1) .. N, r \in Promise :
              seq[k] = {r} /\ ~isMultilingual({r}) /\ \A p \in seq[j] : Needed(p, r)
        BY <1>5 DEF Serves
    <2> DEFINE m == IF j < i THEN j ELSE j + 1
               n == IF k < i THEN k ELSE k + 1
    <2>2. n \in (m + 1) .. N + 1
        BY <2>1
    <2>3. new[n] = seq[k]
        <3>1. CASE k < i
            <4>1. k \in 1 .. i - 1
                BY <2>1, <3>1
            <4> QED BY <3>1, <4>1
        <3>2. CASE ~(k < i)
            <4>1. k \in i .. N
                BY <2>1, <3>2
            <4> QED BY <3>2, <4>1
        <3> QED BY <3>1, <3>2
    <2>4. new[m] = seq[j]
        <3>1. CASE j < i
            <4>1. j \in 1 .. i - 1
                BY <3>1
            <4> QED BY <3>1, <4>1
        <3>2. CASE ~(j < i)
            <4>1. j \in i .. N
                BY <3>2
            <4> QED BY <3>2, <4>1
        <3> QED BY <3>1, <3>2
    <2> HIDE DEF m, n
    <2>5. Serves(new, m)
        BY <2>1, <2>2, <2>3, <2>4 DEF Serves
    <2> QED BY <2>5 DEF m
<1>6. ASSUME NEW j \in 1 .. N + 1
      PROVE  Stands(new[j], b[j - 1], b[j]) \/ (b[j] = b[j - 1] /\ Serves(new, j))
    <2>1. CASE j < i
        <3>1. j \in 1 .. N /\ j \in 1 .. i - 1 /\ j \in 0 .. N + 1 /\ j - 1 \in 0 .. N + 1 /\ j - 1 < i
            BY <2>1
        <3>2. new[j] = seq[j] /\ b[j] = a[j] /\ b[j - 1] = a[j - 1]
            BY <1>3, <2>1, <3>1
        <3>3. Stands(seq[j], a[j - 1], a[j]) \/ (a[j] = a[j - 1] /\ Serves(seq, j))
            BY <1>1, <3>1 DEF AccountOf
        <3>4. Serves(seq, j) => Serves(new, j)
            BY <1>5, <2>1, <3>1
        <3> QED BY <3>2, <3>3, <3>4
    <2>2. CASE j = i
        <3>1. i \in 0 .. N + 1 /\ i - 1 \in 0 .. N + 1 /\ i - 1 < i /\ ~(i < i)
            OBVIOUS
        <3>2. b[j] = a[i - 1] /\ b[j - 1] = a[i - 1]
            BY <1>3, <2>2, <3>1
        <3>3. i \in i .. N /\ i + 1 \in (i + 1) .. N + 1
            OBVIOUS
        <3>4. new[i + 1] = {q}
            BY <3>3
        <3>5. Serves(new, i)
            BY <3>3, <3>4 DEF Serves
        <3> QED BY <2>2, <3>2, <3>5
    <2>3. CASE j > i
        <3> DEFINE k == j - 1
        <3>1. /\ k \in 1 .. N /\ k \in i .. N /\ ~(k < i) /\ k + 1 = j /\ ~(j < i)
              /\ j \in 0 .. N + 1 /\ j - 1 \in 0 .. N + 1 /\ j - 1 = k
            BY <2>3
        <3> HIDE DEF k
        <3>2. new[j] = seq[k] /\ b[j] = a[k] /\ b[j - 1] = a[k - 1]
            BY <1>3, <3>1
        <3>3. Stands(seq[k], a[k - 1], a[k]) \/ (a[k] = a[k - 1] /\ Serves(seq, k))
            BY <1>1, <3>1 DEF AccountOf
        <3>4. Serves(seq, k) => Serves(new, j)
            BY <1>5, <3>1
        <3> QED BY <3>2, <3>3, <3>4
    <2> QED BY <2>1, <2>2, <2>3
<1>7. AccountOf(new, b)
    BY <1>4, <1>6 DEF AccountOf
<1> QED BY <1>2, <1>7 DEF Accounted

\* An alternative for each language takes the place of one for all of them.
LEMMA MultipliedIsAccounted ==
    ASSUME NEW seq, NEW new, NEW i, NEW L, Multiplied(seq, new, i, L), Accounted(seq)
    PROVE  Accounted(new)
<1> PICK N \in Nat :
        /\ L \in Nat \ {0} /\ L = Len(setting.langCodes) /\ setting.langCodes # <<>>
        /\ Len(seq) = N /\ Len(new) = N - 1 + L /\ i \in 1 .. N
        /\ seq[i] \in SUBSET Promise /\ isMultilingual(seq[i])
        /\ \A j \in 1 .. i - 1 : new[j] = seq[j]
        /\ \A l \in 1 .. L : /\ new[i - 1 + l] = filtreByLanguage(seq[i], setting.langCodes[l])
                              /\ ~isMultilingual(new[i - 1 + l])
        /\ \A j \in i + 1 .. N : new[j - 1 + L] = seq[j]
    BY DEF Multiplied
<1>1. PICK a \in [0 .. N -> Nat] : AccountOf(seq, a)
    BY DEF Accounted
<1> DEFINE within == IF Stands(seq[i], a[i - 1], a[i]) THEN 1 ELSE 0
           b == [j \in 0 .. N - 1 + L |->
                    IF j < i THEN a[j]
                    ELSE IF j <= i - 1 + L THEN a[i - 1] + within * (j - i + 1)
                    ELSE a[j - L + 1]]
<1>2. within \in {0, 1} /\ a[i - 1] \in Nat /\ a[i] \in Nat
    BY <1>1
<1>3. Stands(seq[i], a[i - 1], a[i]) \/ (a[i] = a[i - 1] /\ Serves(seq, i))
    BY <1>1 DEF AccountOf
<1>4. Stands(seq[i], a[i - 1], a[i]) =>
          /\ a[i] = a[i - 1] + L
          /\ \A l \in 1 .. L : filtreByLanguage(seq[i], setting.langCodes[l])
                                   \subseteq Requested[a[i - 1] + l]
    BY DEF Stands
<1>5. a[i] = a[i - 1] + within * L
    <2>1. CASE within = 1
        <3>1. Stands(seq[i], a[i - 1], a[i])
            BY <2>1
        <3> QED BY <1>2, <1>4, <2>1, <3>1
    <2>2. CASE within = 0
        <3>1. ~Stands(seq[i], a[i - 1], a[i])
            BY <2>2
        <3> QED BY <1>2, <1>3, <2>2, <3>1
    <2> QED BY <1>2, <2>1, <2>2
<1>6. within = 1 <=> Stands(seq[i], a[i - 1], a[i])
    OBVIOUS
<1> HIDE DEF within
<1>7. b \in [0 .. N - 1 + L -> Nat]
    <2> SUFFICES ASSUME NEW j \in 0 .. N - 1 + L
                 PROVE  (IF j < i THEN a[j]
                         ELSE IF j <= i - 1 + L THEN a[i - 1] + within * (j - i + 1)
                         ELSE a[j - L + 1]) \in Nat
        OBVIOUS
    <2>1. CASE j < i
        <3>1. j \in 0 .. N
            BY <2>1
        <3> QED BY <2>1, <3>1
    <2>2. CASE ~(j < i) /\ j <= i - 1 + L
        <3>1. within = 0 => a[i - 1] + within * (j - i + 1) = a[i - 1]
            BY <1>2
        <3>2. within = 1 => a[i - 1] + within * (j - i + 1) = a[i - 1] + (j - i + 1)
            BY <1>2
        <3>3. j - i + 1 \in Nat
            BY <2>2
        <3>4. a[i - 1] + within * (j - i + 1) \in Nat
            BY <1>2, <3>1, <3>2, <3>3
        <3> QED BY <2>2, <3>4
    <2>3. CASE ~(j < i) /\ ~(j <= i - 1 + L)
        <3>1. j - L + 1 \in 0 .. N
            BY <2>3
        <3> QED BY <2>3, <3>1
    <2> QED BY <2>1, <2>2, <2>3
<1>8. \A j \in 0 .. N - 1 + L : b[j] = IF j < i THEN a[j]
                                       ELSE IF j <= i - 1 + L THEN a[i - 1] + within * (j - i + 1)
                                       ELSE a[j - L + 1]
    OBVIOUS
<1> HIDE DEF b
\* before the new elements, at them, and behind them
<1>9. \A j \in 0 .. i - 1 : b[j] = a[j]
    <2> SUFFICES ASSUME NEW j \in 0 .. i - 1 PROVE b[j] = a[j]
        OBVIOUS
    <2>1. j \in 0 .. N - 1 + L /\ j < i
        OBVIOUS
    <2> QED BY <1>8, <2>1
<1>10. \A l \in 0 .. L : b[i - 1 + l] = a[i - 1] + within * l
    <2> SUFFICES ASSUME NEW l \in 0 .. L PROVE b[i - 1 + l] = a[i - 1] + within * l
        OBVIOUS
    <2>1. CASE l = 0
        <3>1. b[i - 1] = a[i - 1] /\ i - 1 + l = i - 1
            <4>1. i - 1 \in 0 .. i - 1
                OBVIOUS
            <4> QED BY <1>9, <2>1, <4>1
        <3>2. within * 0 = 0
            BY <1>2
        <3> QED BY <1>2, <2>1, <3>1, <3>2
    <2>2. CASE l # 0
        <3> DEFINE j == i - 1 + l
        <3>1. j \in 0 .. N - 1 + L /\ ~(j < i) /\ j <= i - 1 + L /\ j - i + 1 = l
            BY <2>2
        <3> HIDE DEF j
        <3>2. b[j] = a[i - 1] + within * l
            BY <1>8, <3>1
        <3> QED BY <3>2 DEF j
    <2> QED BY <2>1, <2>2
<1>11. \A j \in i .. N : b[j - 1 + L] = a[j]
    <2> SUFFICES ASSUME NEW j \in i .. N PROVE b[j - 1 + L] = a[j]
        OBVIOUS
    <2>1. CASE j = i
        <3>1. L \in 0 .. L
            OBVIOUS
        <3> QED BY <1>5, <1>10, <2>1, <3>1
    <2>2. CASE j # i
        <3> DEFINE k == j - 1 + L
        <3>1. k \in 0 .. N - 1 + L /\ ~(k < i) /\ ~(k <= i - 1 + L) /\ k - L + 1 = j
            BY <2>2
        <3> HIDE DEF k
        <3>2. b[k] = a[j]
            BY <1>8, <3>1
        <3> QED BY <3>2 DEF k
    <2> QED BY <2>1, <2>2
<1>12. b[0] = 0 /\ b[N - 1 + L] = Len(Requested)
    <2>1. 0 \in 0 .. i - 1 /\ N \in i .. N
        OBVIOUS
    <2> QED BY <1>1, <1>9, <1>11, <2>1 DEF AccountOf
\* what serves a later element still does
<1>13. ASSUME NEW j \in 1 .. N, NEW m \in 1 .. N - 1 + L,
              NEW q \in Promise, NEW k \in (j + 1) .. N,
              seq[k] = {q}, ~isMultilingual({q}), \A p \in seq[j] : Needed(p, q),
              \A p \in new[m] : Needed(p, q),
              IF j = i THEN m \in i .. i - 1 + L ELSE m = IF j < i THEN j ELSE j - 1 + L
       PROVE  Serves(new, m)
    <2>1. k # i
        BY <1>13
    <2> DEFINE n == IF k < i THEN k ELSE k - 1 + L
    <2>2. n \in (m + 1) .. N - 1 + L
        <3>1. /\ L \in Nat /\ 1 <= L /\ i \in Nat /\ 1 <= i /\ j \in Nat /\ k \in Nat /\ m \in Nat
              /\ j < k /\ k <= N
            BY <1>13
        <3>2. CASE j = i
            <4>1. m <= i - 1 + L
                BY <1>13, <3>2
            <4> QED BY ONLY <3>1, <3>2, <4>1, N \in Nat
        <3>3. CASE j < i
            <4>1. m = j
                BY <1>13, <3>3
            <4> QED BY ONLY <2>1, <3>1, <3>3, <4>1, N \in Nat
        <3>4. CASE j > i
            <4>1. m = j - 1 + L
                BY <1>13, <3>4
            <4> QED BY ONLY <3>1, <3>4, <4>1, N \in Nat
        <3> QED BY <3>1, <3>2, <3>3, <3>4
    <2>3. new[n] = seq[k]
        <3>1. CASE k < i
            <4>1. k \in 1 .. i - 1
                BY <1>13, <3>1
            <4> QED BY <3>1, <4>1
        <3>2. CASE ~(k < i)
            <4>1. k \in i + 1 .. N
                BY <1>13, <2>1, <3>2
            <4> QED BY <3>2, <4>1
        <3> QED BY <3>1, <3>2
    <2> HIDE DEF n
    <2>4. n \in (m + 1) .. Len(new) /\ new[n] = {q}
        BY <1>13, <2>2, <2>3
    <2> QED BY <1>13, <2>4 DEF Serves
<1>14. ASSUME NEW j \in 1 .. N, j # i, NEW m \in 1 .. N - 1 + L,
              m = IF j < i THEN j ELSE j - 1 + L,
              new[m] = seq[j], b[m] = a[j], b[m - 1] = a[j - 1]
       PROVE  Stands(new[m], b[m - 1], b[m]) \/ (b[m] = b[m - 1] /\ Serves(new, m))
    <2>1. Stands(seq[j], a[j - 1], a[j]) \/ (a[j] = a[j - 1] /\ Serves(seq, j))
        BY <1>1 DEF AccountOf
    <2>2. ASSUME Serves(seq, j) PROVE Serves(new, m)
        <3>1. PICK k \in (j + 1) .. N, q \in Promise :
                  seq[k] = {q} /\ ~isMultilingual({q}) /\ \A p \in seq[j] : Needed(p, q)
            BY <2>2 DEF Serves
        <3>2. \A p \in new[m] : Needed(p, q)
            BY <1>14, <3>1
        <3> QED BY <1>13, <1>14, <3>1, <3>2
    <2> QED BY <1>14, <2>1, <2>2
<1>15. ASSUME NEW l \in 1 .. L
       PROVE  LET m == i - 1 + l
              IN Stands(new[m], b[m - 1], b[m]) \/ (b[m] = b[m - 1] /\ Serves(new, m))
    <2> DEFINE m == i - 1 + l
    <2>1. m \in 1 .. N - 1 + L /\ m \in i .. i - 1 + L /\ m - 1 = i - 1 + (l - 1)
          /\ l \in 0 .. L /\ l - 1 \in 0 .. L
        <3>1. L \in Nat /\ i \in Nat /\ l \in Nat /\ 1 <= l /\ l <= L /\ 1 <= i /\ i <= N
            OBVIOUS
        <3> QED BY ONLY <3>1, N \in Nat
    <2>2. b[m] = a[i - 1] + within * l /\ b[m - 1] = a[i - 1] + within * (l - 1)
        BY <1>10, <2>1
    <2>3. new[m] = filtreByLanguage(seq[i], setting.langCodes[l]) /\ ~isMultilingual(new[m])
        OBVIOUS
    <2> HIDE DEF m
    <2>4. CASE within = 1
        <3>1. b[m] = a[i - 1] + l /\ b[m - 1] = a[i - 1] + (l - 1)
            BY <1>2, <2>2, <2>4
        <3>2. new[m] \subseteq Requested[b[m]]
            BY <1>4, <1>6, <2>3, <2>4, <3>1
        <3>3. b[m] = b[m - 1] + 1
            BY <1>2, <3>1
        <3>4. Stands(new[m], b[m - 1], b[m])
            BY <2>3, <3>2, <3>3, StandsForOne
        <3> QED BY <3>4 DEF m
    <2>5. CASE within = 0
        <3>1. b[m] = a[i - 1] /\ b[m - 1] = a[i - 1]
            BY <1>2, <2>2, <2>5
        <3>2. Serves(seq, i)
            BY <1>3, <1>6, <2>5
        <3>3. PICK k \in (i + 1) .. N, q \in Promise :
                  seq[k] = {q} /\ ~isMultilingual({q}) /\ \A p \in seq[i] : Needed(p, q)
            BY <3>2 DEF Serves
        <3>4. \A p \in new[m] : Needed(p, q)
            BY <2>3, <3>3, FilteredAreNeeded
        <3>5. Serves(new, m)
            BY <1>13, <2>1, <3>3, <3>4
        <3> QED BY <3>1, <3>5 DEF m
    <2> QED BY <1>2, <2>4, <2>5
<1>16. ASSUME NEW m \in 1 .. N - 1 + L
       PROVE  Stands(new[m], b[m - 1], b[m]) \/ (b[m] = b[m - 1] /\ Serves(new, m))
    <2>1. CASE m < i
        <3>1. m \in 1 .. N /\ m # i /\ m \in 1 .. i - 1 /\ m \in 0 .. i - 1 /\ m - 1 \in 0 .. i - 1
            BY <2>1
        <3>2. new[m] = seq[m] /\ b[m] = a[m] /\ b[m - 1] = a[m - 1]
            BY <1>9, <3>1
        <3> QED BY <1>14, <2>1, <3>1, <3>2
    <2>2. CASE m \in i .. i - 1 + L
        <3> DEFINE l == m - i + 1
        <3>1. l \in 1 .. L /\ i - 1 + l = m
            BY <2>2
        <3> HIDE DEF l
        <3> QED BY <1>15, <3>1
    <2>3. CASE m > i - 1 + L
        <3> DEFINE j == m + 1 - L
        <3>1. /\ j \in 1 .. N /\ j # i /\ ~(j < i) /\ j \in i + 1 .. N /\ j \in i .. N
              /\ j - 1 \in i .. N /\ j - 1 + L = m /\ (j - 1) - 1 + L = m - 1
            <4>1. /\ N \in Nat /\ L \in Nat /\ i \in Nat /\ m \in Nat /\ 1 <= L /\ 1 <= i /\ i <= N
                  /\ m <= N - 1 + L /\ i - 1 + L < m
                BY <2>3
            <4> QED BY ONLY <4>1
        <3> HIDE DEF j
        <3>2. new[m] = seq[j] /\ b[m] = a[j] /\ b[m - 1] = a[j - 1]
            BY <1>11, <3>1
        <3> QED BY <1>14, <3>1, <3>2
    <2> QED BY <2>1, <2>2, <2>3
<1>17. AccountOf(new, b)
    BY <1>12, <1>16 DEF AccountOf
<1>18. b \in [0 .. Len(new) -> Nat]
    BY <1>7
<1> QED BY <1>17, <1>18 DEF Accounted

\* At the end every element stands for one promise or serves a later one: what is
\* collected keeps the request.
LEMMA AccountedIsKept ==
    ASSUME NEW seq, NEW out, NEW N \in Nat, Len(seq) = N, out \in Seq(Promise), Len(out) = N,
           \A i \in 1 .. N : ~isMultilingual(seq[i]) /\ seq[i] = {out[i]},
           Accounted(seq)
    PROVE  KeepsRequest(out)
<1>1. PICK a \in [0 .. N -> Nat] : AccountOf(seq, a)
    BY DEF Accounted
<1> DEFINE S == {i \in 1 .. N : a[i] # a[i - 1]}
           UpToN(n) == {j \in S : j <= n}
           Odd == {n \in 0 .. N : ~(IsFiniteSet(UpToN(n)) /\ Cardinality(UpToN(n)) = a[n])}
<1>2. ASSUME NEW i \in 1 .. N
      PROVE  /\ i \in S => a[i] = a[i - 1] + 1 /\ out[i] \in Requested[a[i]]
             /\ i \notin S => a[i] = a[i - 1] /\ Serves(seq, i)
    <2>1. Stands(seq[i], a[i - 1], a[i]) \/ (a[i] = a[i - 1] /\ Serves(seq, i))
        BY <1>1 DEF AccountOf
    <2>2. Stands(seq[i], a[i - 1], a[i]) =>
              a[i] = a[i - 1] + 1 /\ seq[i] \subseteq Requested[a[i]]
        BY StandsForOne
    <2>3. a[i - 1] \in Nat /\ a[i] \in Nat
        BY <1>1
    <2>4. a[i] = a[i - 1] + 1 => a[i] # a[i - 1]
        BY <2>3
    <2>5. i \in S <=> a[i] # a[i - 1]
        OBVIOUS
    <2> HIDE DEF S
    <2> QED BY <2>1, <2>2, <2>4, <2>5
<1>3. S \in SUBSET (1 .. N)
    OBVIOUS
<1> HIDE DEF S
<1>4. Odd = {}
    <2>1. 0 \notin Odd
        <3>1. UpToN(0) = {}
            <4>1. \A j \in S : j \in 1 .. N /\ ~(j <= 0)
                BY <1>3
            <4> QED BY <4>1
        <3>2. a[0] = 0
            BY <1>1 DEF AccountOf
        <3> HIDE DEF UpToN
        <3>3. IsFiniteSet(UpToN(0)) /\ Cardinality(UpToN(0)) = 0
            BY <3>1, FS_EmptySet
        <3> QED BY <3>2, <3>3
    <2>2. ASSUME NEW n \in 0 .. N - 1, n \notin Odd
          PROVE  n + 1 \notin Odd
        <3>1. n \in 0 .. N /\ n + 1 \in 1 .. N /\ n + 1 \in 0 .. N /\ (n + 1) - 1 = n
            OBVIOUS
        <3>2. IsFiniteSet(UpToN(n)) /\ Cardinality(UpToN(n)) = a[n]
            <4> HIDE DEF UpToN
            <4> QED BY <2>2, <3>1
        <3>3. CASE n + 1 \in S
            <4>1. UpToN(n + 1) = UpToN(n) \cup {n + 1} /\ n + 1 \notin UpToN(n)
                BY <1>3, <3>1, <3>3
            <4>2. a[n + 1] = a[n] + 1
                BY <1>2, <3>1, <3>3
            <4> HIDE DEF UpToN
            <4> DEFINE U == UpToN(n)
                       V == UpToN(n + 1)
            <4>3. IsFiniteSet(U) /\ Cardinality(U) = a[n] /\ V = U \cup {n + 1} /\ n + 1 \notin U
                BY <3>2, <4>1
            <4> HIDE DEF U, V
            <4>4. IsFiniteSet(V) /\ Cardinality(V) = Cardinality(U) + 1
                BY <4>3, FS_AddElement
            <4>5. Cardinality(V) = a[n + 1]
                BY <4>2, <4>3, <4>4
            <4> QED BY <4>4, <4>5 DEF V
        <3>4. CASE n + 1 \notin S
            <4>1. UpToN(n + 1) = UpToN(n)
                <5>1. \A j \in S : j \in Nat /\ j # n + 1
                    BY <1>3, <3>4
                <5>2. \A j \in S : j <= n + 1 <=> j <= n
                    BY <3>1, <5>1
                <5> QED BY <5>2
            <4>2. a[n + 1] = a[n]
                BY <1>2, <3>1, <3>4
            <4> HIDE DEF UpToN
            <4> QED BY <3>2, <4>1, <4>2
        <3> QED BY <3>3, <3>4
    <2>3. Odd \in SUBSET (0 .. N)
        OBVIOUS
    <2> HIDE DEF Odd
    <2> QED BY <2>1, <2>2, <2>3, UpTo
<1>5. ASSUME NEW n \in 0 .. N PROVE Cardinality(UpToN(n)) = a[n]
    <2> HIDE DEF UpToN
    <2> QED BY <1>4
<1> HIDE DEF Odd
<1>6. Cardinality(S) = Len(Requested)
    <2>1. UpToN(N) = S /\ N \in 0 .. N
        BY <1>3
    <2> HIDE DEF UpToN
    <2> QED BY <1>1, <1>5, <2>1 DEF AccountOf
<1>7. ASSUME NEW i \in S
      PROVE  out[i] \in Requested[Cardinality({j \in S : j <= i})]
    <2>1. i \in 1 .. N /\ i \in 0 .. N
        BY <1>3
    <2>2. Cardinality({j \in S : j <= i}) = a[i]
        BY <1>5, <2>1
    <2> QED BY <1>2, <2>1, <2>2
<1>8. ASSUME NEW i \in DOMAIN out \ S
      PROVE  \E j \in (i + 1) .. Len(out) : \E k \in DOMAIN setting.required[out[j].processor] :
                 provides(out[i], setting.required[out[j].processor][k])
    <2>1. i \in 1 .. N /\ i \notin S
        OBVIOUS
    <2>2. PICK j \in (i + 1) .. N, q \in Promise : seq[j] = {q} /\ \A p \in seq[i] : Needed(p, q)
        BY <1>2, <2>1 DEF Serves
    <2>3. j \in 1 .. N
        BY <2>1, <2>2
    <2>4. out[j] = q /\ out[i] \in seq[i]
        BY <2>1, <2>2, <2>3
    <2>5. Needed(out[i], out[j])
        BY <2>2, <2>4
    <2> QED BY <2>5 DEF Needed
<1>9. Explains(S, out)
    BY <1>7, <1>8 DEF Explains
<1>10. S \in kSubset(Len(Requested), DOMAIN out)
    <2>1. DOMAIN out = 1 .. N
        OBVIOUS
    <2> QED BY <1>3, <1>6, <2>1 DEF kSubset
<1> QED BY <1>9, <1>10 DEF KeepsRequest

\* The request accounts for itself.
LEMMA RequestIsAccounted ==
    ASSUME setting \in GoodSetting
    PROVE  Accounted(setting.request)
<1> DEFINE request == setting.request
           L == Len(setting.langCodes)
           Many(i) == isMultilingual(request[i]) /\ setting.langCodes # <<>>
           Asked(i) == IF Many(i)
                       THEN [l \in DOMAIN setting.langCodes |->
                                filtreByLanguage(request[i], setting.langCodes[l])]
                       ELSE <<request[i]>>
           seqs == [i \in DOMAIN request |-> Asked(i)]
<1>1. /\ request \in Seq(SUBSET Promise) /\ setting.langCodes \in Seq(Lang)
      /\ DOMAIN request = 1 .. Len(request) /\ Len(request) \in Nat
      /\ DOMAIN setting.langCodes = 1 .. L /\ L \in Nat
    BY SettingFields
<1>2. \A i \in 1 .. Len(request) : request[i] \in SUBSET Promise
    BY <1>1, ElementOfSeq
<1>3. \A l \in 1 .. L : setting.langCodes[l] \in Lang
    BY <1>1, ElementOfSeq
<1>4. ASSUME NEW i \in 1 .. Len(request)
      PROVE  /\ Asked(i) \in Seq(SUBSET Promise)
             /\ Many(i) => /\ Len(Asked(i)) = L
                           /\ \A l \in 1 .. L : Asked(i)[l] = filtreByLanguage(request[i], setting.langCodes[l])
             /\ ~Many(i) => Len(Asked(i)) = 1 /\ Asked(i)[1] = request[i]
    <2>1. CASE Many(i)
        <3>1. \A l \in 1 .. L : filtreByLanguage(request[i], setting.langCodes[l]) \in SUBSET Promise
            BY <1>2, <1>3, FilteredType
        <3> QED BY <1>1, <2>1, <3>1
    <2>2. CASE ~Many(i)
        <3>1. Asked(i) = <<request[i]>>
            BY <2>2
        <3> HIDE DEF Asked, Many
        <3> QED BY <1>2, <2>2, <3>1
    <2> QED BY <2>1, <2>2
<1> HIDE DEF Asked
<1>5. seqs \in Seq(Seq(SUBSET Promise)) /\ Len(seqs) = Len(request)
    BY <1>1, <1>4
<1>6. Requested = Sequence!FlattenSeq(seqs)
    BY DEF Requested, Asked
<1>7. \A i \in 1 .. Len(request) : seqs[i] = Asked(i)
    BY <1>1
<1> HIDE DEF seqs
<1>8. PICK a \in [0 .. Len(request) -> Nat] :
          /\ a[0] = 0
          /\ a[Len(request)] = Len(Requested)
          /\ \A i \in 1 .. Len(request) :
                /\ a[i] = a[i - 1] + Len(seqs[i])
                /\ \A l \in 1 .. Len(seqs[i]) : Requested[a[i - 1] + l] = seqs[i][l]
    BY <1>5, <1>6, Flattening
<1>9. ASSUME NEW i \in 1 .. Len(request)
      PROVE  Stands(request[i], a[i - 1], a[i])
    <2>1. CASE Many(i)
        <3>1. /\ a[i] = a[i - 1] + L
              /\ \A l \in 1 .. L : Requested[a[i - 1] + l] = filtreByLanguage(request[i], setting.langCodes[l])
            BY <1>4, <1>7, <1>8, <2>1
        <3> QED BY <2>1, <3>1 DEF Stands
    <2>2. CASE ~Many(i)
        <3>1. Len(seqs[i]) = 1 /\ seqs[i][1] = request[i] /\ 1 \in 1 .. 1
            BY <1>4, <1>7, <2>2
        <3>2. a[i] = a[i - 1] + 1 /\ Requested[a[i - 1] + 1] = request[i]
            BY <1>8, <3>1
        <3> QED BY <2>2, <3>1, <3>2 DEF Stands
    <2> QED BY <2>1, <2>2
<1>10. AccountOf(request, a)
    BY <1>8, <1>9 DEF AccountOf
<1> QED BY <1>10 DEF Accounted

\* The same in one word, for the sequences of calls.
Replaces(new, seq, i, r) ==
    /\ Len(r) = Len(seq) - 1 + Len(new)
    /\ \A j \in 1 .. i - 1 : r[j] = seq[j]
    /\ \A j \in 1 .. Len(new) : r[i - 1 + j] = new[j]
    /\ \A j \in i + 1 .. Len(seq) : r[j - 1 + Len(new)] = seq[j]

LEMMA ReplacedReplaces ==
    ASSUME NEW seq \in Seq(Alternatives), NEW i \in 1 .. Len(seq), NEW new \in Seq(Alternatives)
    PROVE  Replaces(new, seq, i, replaced(seq, i, new))
    BY Replaced, ReplacedElements DEF Replaces

LEMMA InsertedInserts ==
    ASSUME NEW seq \in Seq(Alternatives), NEW i \in 1 .. Len(seq), NEW alt \in Alternatives,
           NEW q \in Promise, seq[i] = {q}, ~isMultilingual({q}), \A p \in alt : Needed(p, q)
    PROVE  InsertedFor(seq, inserted(seq, i, alt), i, q)
    BY Inserted, InsertedElements DEF InsertedFor

-----------------------------------------------------------------------------
(* Every action keeps the account.                                         *)

\* What is known of the running call.
LEMMA RunningKept ==
    ASSUME IInv, KeptInv, Askable, Running
    PROVE  /\ Head(calls) \in KeptCall
           /\ Accounted(Head(calls).sequence)
           /\ Plain(Head(calls))
           /\ Tail(calls) \in Seq(KeptCall)
           /\ \A c \in KeptCall : <<c>> \o Tail(calls) \in Seq(KeptCall)
           /\ \A c, d \in KeptCall : <<c, d>> \o Tail(calls) \in Seq(KeptCall)
<1>1. calls \in Seq(KeptCall) /\ calls # <<>>
    BY DEF KeptInv, Running
<1>2. Head(calls) \in KeptCall
    BY <1>1, Stack
<1> QED BY <1>1, <1>2, Stack DEF KeptCall

\* A step of the search that leaves such calls keeps the invariant.
LEMMA SearchKeeps ==
    ASSUME KeptInv, Running, Searching, Askable => calls' \in Seq(KeptCall)
    PROVE  KeptInv'
    BY SameRequest DEF KeptInv, Running, Searching

\* The call that goes on, as the invariant of CompletionProofs has it.
LEMMA ContinuedIsGood ==
    ASSUME IInv', NEW c, ContinueWith(c), Searching
    PROVE  c \in GoodCall
<1>1. calls' \in Seq(GoodCall) /\ calls' = <<c>> \o Tail(calls)
    BY SameSetting DEF IInv, ContinueWith, Searching
<1>2. DOMAIN calls' # {} /\ 1 \in DOMAIN calls' /\ calls'[1] = c
    BY <1>1
<1> QED BY <1>1, <1>2, ElementOfSeq

LEMMA MultiplyByLanguagesKeeps ==
    ASSUME IInv, KeptInv, MultiplyByLanguages, IInv'
    PROVE  KeptInv'
<1> DEFINE c == Head(calls)
           langAlts == perLanguage(Alternative(c))
           next == IF langAlts = <<>> THEN c.restartPosition ELSE c.iter
           seq == replaced(c.sequence, c.iter, langAlts)
           d == [c EXCEPT !.sequence = seq, !.iter = next, !.restartPosition = next]
           L == Len(setting.langCodes)
<1>1. /\ Running /\ ~AtEnd(c)
      /\ isMultilingual(Alternative(c))
      /\ \A l \in DOMAIN langAlts : langAlts[l] # {}
      /\ langAlts = <<>> => c.restartPosition # c.iter
      /\ ContinueWith(d)
      /\ Searching
    BY DEF MultiplyByLanguages
<1> SUFFICES ASSUME Askable PROVE calls' \in Seq(KeptCall)
    BY <1>1, SearchKeeps
<1>2. /\ c \in GoodCall /\ c.sequence \in Seq(Alternatives)
      /\ c.iter \in 1..Len(c.sequence)
      /\ Alternative(c) \in SUBSET Promise
      /\ Alternative(c) = c.sequence[c.iter]
    BY <1>1, RunningCall DEF Alternatives, Alternative
<1>3. Accounted(c.sequence) /\ Plain(c)
    BY <1>1, RunningKept
<1>4. /\ setting \in GoodSetting
      /\ setting.langCodes \in Seq(Lang) /\ DOMAIN setting.langCodes = 1 .. L /\ L \in Nat
      /\ \A l \in 1 .. L : setting.langCodes[l] \in Lang
    BY SettingFields, ElementOfSeq DEF IInv
<1>5. /\ DOMAIN langAlts = 1 .. L
      /\ \A l \in 1 .. L : langAlts[l] = filtreByLanguage(Alternative(c), setting.langCodes[l])
    BY <1>4 DEF perLanguage
<1>6. \A l \in 1 .. L : langAlts[l] \in Alternatives /\ ~isMultilingual(langAlts[l])
    BY <1>1, <1>2, <1>4, <1>5, FilteredType, FilteredIsNotMultilingual, AlternativesAre
<1>7. langAlts \in Seq(Alternatives) /\ Len(langAlts) = L
    <2>1. langAlts = [l \in 1 .. L |-> langAlts[l]]
        BY <1>4, <1>5 DEF perLanguage
    <2>2. L \in Nat
        BY <1>4
    <2> HIDE DEF langAlts, L, c
    <2>3. [l \in 1 .. L |-> langAlts[l]] \in Seq(Alternatives)
        BY <1>6, <2>2
    <2> QED BY <1>5, <2>1, <2>2, <2>3
<1>8. setting.langCodes # <<>>
    <2> SUFFICES ASSUME setting.langCodes = <<>> PROVE FALSE
        OBVIOUS
    <2>1. L = 0
        OBVIOUS
    <2> HIDE DEF c
    <2>2. langAlts = <<>>
        BY <1>7, <2>1
    <2> HIDE DEF langAlts
    <2>3. c.restartPosition = c.iter
        BY <1>1, <1>2, <1>3 DEF Plain
    <2> QED BY <1>1, <2>2, <2>3
<1>9. L # 0 /\ next = c.iter
    <2>1. L # 0
        BY <1>4, <1>8
    <2> HIDE DEF c
    <2>2. langAlts # <<>>
        BY <1>7, <2>1
    <2> QED BY <2>1, <2>2
<1> HIDE DEF c, langAlts, L
<1>10. /\ Len(seq) = Len(c.sequence) - 1 + Len(langAlts)
       /\ \A j \in 1 .. c.iter - 1 : seq[j] = c.sequence[j]
    <2>1. Replaces(langAlts, c.sequence, c.iter, seq)
        BY <1>2, <1>7, ReplacedReplaces
    <2> HIDE DEF seq
    <2> QED BY <2>1 DEF Replaces
<1>11. /\ \A l \in 1 .. Len(langAlts) : seq[c.iter - 1 + l] = langAlts[l]
       /\ \A j \in c.iter + 1 .. Len(c.sequence) : seq[j - 1 + Len(langAlts)] = c.sequence[j]
    <2>1. Replaces(langAlts, c.sequence, c.iter, seq)
        BY <1>2, <1>7, ReplacedReplaces
    <2> HIDE DEF seq
    <2> QED BY <2>1 DEF Replaces
<1> HIDE DEF seq, next
<1>12. Accounted(seq)
    <2>1. Len(c.sequence) \in Nat /\ L \in Nat \ {0} /\ L = Len(setting.langCodes)
        BY <1>2, <1>4, <1>9 DEF L
    <2>2. isMultilingual(c.sequence[c.iter]) /\ c.sequence[c.iter] \in SUBSET Promise
        BY <1>1, <1>2
    <2>3. ASSUME NEW l \in 1 .. L
          PROVE  /\ seq[c.iter - 1 + l] = filtreByLanguage(c.sequence[c.iter], setting.langCodes[l])
                 /\ ~isMultilingual(seq[c.iter - 1 + l])
        <3>1. seq[c.iter - 1 + l] = langAlts[l]
            BY <1>7, <1>11
        <3>2. langAlts[l] = filtreByLanguage(c.sequence[c.iter], setting.langCodes[l])
            BY <1>2, <1>5
        <3>3. ~isMultilingual(langAlts[l])
            BY <1>6
        <3> QED BY <3>1, <3>2, <3>3
    <2>4. Multiplied(c.sequence, seq, c.iter, L)
        BY <1>2, <1>7, <1>8, <1>10, <1>11, <2>1, <2>2, <2>3 DEF Multiplied
    <2> QED BY <1>3, <2>4, MultipliedIsAccounted
<1>13. d.sequence = seq /\ d.iter = c.iter
    BY <1>2, <1>9 DEF GoodCall, Call
<1>14. d \in GoodCall
    BY <1>1, ContinuedIsGood
<1> HIDE DEF d
<1>15. Plain(d)
    <2>1. \A j \in 1 .. c.iter - 1 : ~isMultilingual(seq[j])
        BY <1>3, <1>10 DEF Plain
    <2> QED BY <1>8, <1>13, <2>1 DEF Plain
<1>16. d \in KeptCall
    BY <1>12, <1>13, <1>14, <1>15 DEF KeptCall
<1> QED BY <1>1, <1>16, RunningKept DEF ContinueWith

LEMMA ReturningKeeps ==
    ASSUME IInv, KeptInv, GiveUpOnLanguage \/ AllTried \/ GiveUpOnTags
    PROVE  KeptInv'
<1>1. Running /\ Return /\ Searching
    BY DEF GiveUpOnLanguage, AllTried, GiveUpOnTags
<1>2. Askable => calls' \in Seq(KeptCall)
    BY <1>1, RunningKept DEF Return
<1> QED BY <1>1, <1>2, SearchKeeps

LEMMA TryAlternativeKeeps ==
    ASSUME IInv, KeptInv, TryAlternative, IInv'
    PROVE  KeptInv'
<1> DEFINE c == Head(calls)
           seq(p) == replaced(c.sequence, c.iter, << {p} >>)
           d(p) == [c EXCEPT !.tried = @ \cup {p}]
<1>1. /\ Running /\ ~AtEnd(c) /\ Searching
      /\ ~isMultilingual(Alternative(c))
      /\ \E p \in Alternative(c) : calls' = <<newCall(seq(p)), d(p)>> \o Tail(calls)
    BY DEF TryAlternative, Several
<1>2. PICK p \in Alternative(c) : calls' = <<newCall(seq(p)), d(p)>> \o Tail(calls)
    BY <1>1
<1> SUFFICES ASSUME Askable PROVE calls' \in Seq(KeptCall)
    BY <1>1, SearchKeeps
<1>3. /\ c \in GoodCall /\ c.sequence \in Seq(Alternatives)
      /\ c.iter \in 1..Len(c.sequence)
      /\ Alternative(c) \in SUBSET Promise
      /\ Alternative(c) = c.sequence[c.iter]
    BY <1>1, RunningCall DEF Alternatives, Alternative
<1>4. Accounted(c.sequence) /\ Plain(c) /\ Tail(calls) \in Seq(KeptCall)
    BY <1>1, RunningKept
<1>5. newCall(seq(p)) \in GoodCall /\ d(p) \in GoodCall
    <2>1. calls' \in Seq(GoodCall)
        BY <1>1, SameSetting DEF IInv, Searching
    <2>2. calls'[1] = newCall(seq(p)) /\ calls'[2] = d(p) /\ 1 \in DOMAIN calls' /\ 2 \in DOMAIN calls'
        <3> DEFINE m == newCall(seq(p))
                   n == d(p)
        <3>1. calls' = <<m, n>> \o Tail(calls)
            BY <1>2
        <3> HIDE DEF m, n
        <3>2. calls'[1] = m /\ calls'[2] = n /\ 1 \in DOMAIN calls' /\ 2 \in DOMAIN calls'
            <4>1. PICK rest \in Seq(KeptCall) : rest = Tail(calls)
                BY <1>4
            <4>2. calls' = <<m, n>> \o rest
                BY <3>1, <4>1
            <4> QED BY <4>2
        <3> QED BY <3>2 DEF m, n
    <2> HIDE DEF c, seq, d
    <2> QED BY <2>1, <2>2, ElementOfSeq
<1> HIDE DEF c
<1>6. p \in Promise /\ << {p} >> \in Seq(Alternatives)
    <2>1. p \in Promise
        BY <1>2, <1>3
    <2>2. {p} \in Alternatives
        BY <2>1, AlternativesAre
    <2> QED BY <2>1, <2>2
<1> DEFINE new == seq(p)
<1>7. /\ Len(new) = Len(c.sequence)
      /\ new[c.iter] = {p}
      /\ \A j \in 1 .. Len(c.sequence) : j # c.iter => new[j] = c.sequence[j]
    <2> DEFINE one == << {p} >>
    <2>1. one \in Seq(Alternatives) /\ Len(one) = 1 /\ one[1] = {p}
        BY <1>6
    <2>2. new = replaced(c.sequence, c.iter, one)
        OBVIOUS
    <2> HIDE DEF one, new, seq
    <2>3. /\ Len(new) = Len(c.sequence) - 1 + 1
          /\ \A j \in 1 .. c.iter - 1 : new[j] = c.sequence[j]
          /\ \A j \in 1 .. 1 : new[c.iter - 1 + j] = one[j]
          /\ \A j \in c.iter + 1 .. Len(c.sequence) : new[j - 1 + 1] = c.sequence[j]
        <3>1. Replaces(one, c.sequence, c.iter, new)
            BY <1>3, <2>1, <2>2, ReplacedReplaces
        <3> QED BY <2>1, <3>1 DEF Replaces
    <2>4. Len(c.sequence) \in Nat /\ c.iter \in Nat
        BY <1>3
    <2>5. new[c.iter] = {p}
        <3>1. 1 \in 1 .. 1 /\ c.iter - 1 + 1 = c.iter
            BY <2>4
        <3> QED BY <2>1, <2>3, <3>1
    <2>6. ASSUME NEW j \in 1 .. Len(c.sequence), j # c.iter PROVE new[j] = c.sequence[j]
        <3>1. j - 1 + 1 = j /\ (j \in 1 .. c.iter - 1 \/ j \in c.iter + 1 .. Len(c.sequence))
            BY <2>4, <2>6
        <3> QED BY <2>3, <3>1
    <2> QED BY <2>3, <2>4, <2>5, <2>6
<1>8. newCall(new).sequence = new /\ newCall(new).iter = 1
    BY DEF newCall
<1> HIDE DEF new, seq
<1>9. Accounted(new)
    <2>1. Len(c.sequence) \in Nat /\ ~isMultilingual(c.sequence[c.iter]) /\ p \in c.sequence[c.iter]
        BY <1>1, <1>2, <1>3
    <2>2. Chosen(c.sequence, new, c.iter, p)
        BY <1>3, <1>7, <2>1 DEF Chosen
    <2> QED BY <1>4, <2>2, ChoiceIsAccounted
<1>10. Plain(newCall(new))
    <2>1. ASSUME setting.langCodes = <<>>, NEW j \in 1 .. Len(new)
          PROVE  ~isMultilingual(new[j])
        <3>1. CASE j = c.iter
            BY <1>1, <1>2, <1>7, <3>1, PartIsNotMultilingual
        <3>2. CASE j # c.iter
            <4>1. j \in 1 .. Len(c.sequence) /\ new[j] = c.sequence[j]
                BY <1>7, <3>2
            <4> QED BY <1>4, <2>1, <3>2, <4>1 DEF Plain
        <3> QED BY <3>1, <3>2
    <2> QED BY <1>8, <2>1 DEF Plain
<1>11. newCall(new) \in KeptCall
    BY <1>5, <1>8, <1>9, <1>10 DEF KeptCall, new
<1>12. d(p) \in KeptCall
    <2>1. /\ d(p).sequence = c.sequence /\ d(p).iter = c.iter
          /\ d(p).restartPosition = c.restartPosition
        BY <1>3 DEF GoodCall, Call
    <2> HIDE DEF d
    <2>2. Plain(d(p))
        BY <1>4, <2>1 DEF Plain
    <2> QED BY <1>4, <1>5, <2>1, <2>2 DEF KeptCall
<1> QED BY <1>1, <1>2, <1>11, <1>12, RunningKept DEF new

\* What findFulfillers_ returns provides what it was looked for.
LEMMA FulfillersAreNeeded ==
    ASSUME NEW q, NEW c, Unfulfilled(c) # {}, TheOnlyOne(Alternative(c)) = q,
           setting.required[q.processor] \in Seq(SUBSET Tag)
    PROVE  \A p \in Fulfillers(c) : Needed(p, q)
<1> DEFINE least(i) == i \in Unfulfilled(c) /\ \A j \in Unfulfilled(c) : i <= j
           first == CHOOSE i \in Unfulfilled(c) : \A j \in Unfulfilled(c) : i <= j
           lang == IF OneLanguage(q) THEN TheOnlyOne(languagesHandled(q)) ELSE NoLang
<1>1. Unfulfilled(c) \in SUBSET Nat /\ Unfulfilled(c) \subseteq DOMAIN setting.required[q.processor]
    BY DEF Unfulfilled
<1>2. \E i : least(i)
    BY <1>1, LeastOf
<1>3. first \in DOMAIN setting.required[q.processor]
    BY <1>1, <1>2
<1>4. Fulfillers(c) = findFulfillers(setting.required[q.processor][first], lang)
    BY DEF Fulfillers
<1> HIDE DEF first, lang
<1>5. ASSUME NEW a, setting.required[q.processor][first] \subseteq setting.provided[a]
      PROVE  Needed(getDefaultPromise(a, lang), q)
    <2>1. getDefaultPromise(a, lang).processor = a
        BY DEF getDefaultPromise
    <2> QED BY <1>3, <1>5, <2>1 DEF Needed, provides
<1> QED BY <1>4, <1>5 DEF findFulfillers

LEMMA InsertFulfillersKeeps ==
    ASSUME IInv, KeptInv, InsertFulfillers, IInv'
    PROVE  KeptInv'
<1> DEFINE c == Head(calls)
           seq == inserted(c.sequence, c.iter, Fulfillers(c))
           d == [c EXCEPT !.sequence = seq, !.restartPosition = c.iter]
<1>1. /\ Running /\ ~AtEnd(c) /\ Searching
      /\ Single(c) /\ Unfulfilled(c) # {} /\ Fulfillers(c) # {}
      /\ ContinueWith(d)
    BY DEF InsertFulfillers, Single
<1> SUFFICES ASSUME Askable PROVE calls' \in Seq(KeptCall)
    BY <1>1, SearchKeeps
<1>2. /\ c \in GoodCall /\ c.sequence \in Seq(Alternatives)
      /\ c.iter \in 1..Len(c.sequence)
      /\ Alternative(c) \in SUBSET Promise
      /\ Alternative(c) = c.sequence[c.iter]
    BY <1>1, RunningCall DEF Alternatives, Alternative
<1>3. Accounted(c.sequence) /\ Plain(c)
    BY <1>1, RunningKept
<1>4. PICK q \in Promise : Alternative(c) = {q}
    BY <1>1, <1>2 DEF Single
<1>5. ~isMultilingual({q})
    BY <1>1, <1>4 DEF Single
<1>6. \A p \in Fulfillers(c) : Needed(p, q)
    <2>1. setting.required \in [Processor -> Seq(SUBSET Tag)] /\ q.processor \in Processor
        BY <1>4, SettingFields DEF IInv, Setting, Promise
    <2>2. TheOnlyOne(Alternative(c)) = q
        BY <1>4, OnlyOne
    <2> HIDE DEF c
    <2> QED BY <1>1, <2>1, <2>2, FulfillersAreNeeded
<1>7. Fulfillers(c) \in Alternatives
    <2>1. \A tags, lang : findFulfillers(tags, lang) \in SUBSET Promise
        BY FulfillersType DEF IInv
    <2>2. Fulfillers(c) \in SUBSET Promise
        BY <2>1 DEF Fulfillers
    <2> QED BY <1>1, <2>2, AlternativesAre
<1>8. d \in GoodCall
    BY <1>1, ContinuedIsGood
<1>9. /\ d.sequence = seq /\ d.iter = c.iter /\ d.restartPosition = c.iter
    BY <1>2 DEF GoodCall, Call
<1> HIDE DEF c
<1>10. InsertedFor(c.sequence, seq, c.iter, q)
    BY <1>2, <1>4, <1>5, <1>6, <1>7, InsertedInserts
<1> HIDE DEF seq, d
<1>11. Accounted(seq)
    BY <1>3, <1>10, InsertedIsAccounted
<1>12. Plain(d)
    <2>1. \A j \in 1 .. c.iter - 1 : ~isMultilingual(seq[j])
        BY <1>3, <1>10 DEF Plain, InsertedFor
    <2>2. ASSUME setting.langCodes = <<>>, NEW j \in 1 .. Len(seq), j # c.iter
          PROVE  ~isMultilingual(seq[j])
        <3>1. CASE j < c.iter
            <4>1. j \in 1 .. c.iter - 1
                BY <1>2, <3>1
            <4> QED BY <2>1, <4>1
        <3>2. CASE j > c.iter
            <4> DEFINE k == j - 1
            <4>1. k \in c.iter .. Len(c.sequence) /\ k \in 1 .. Len(c.sequence) /\ k + 1 = j
                BY <1>2, <1>10, <3>2 DEF InsertedFor
            <4> HIDE DEF k
            <4>2. seq[j] = c.sequence[k]
                BY <1>10, <4>1 DEF InsertedFor
            <4>3. isMultilingual(c.sequence[k]) => k = c.iter
                BY <1>3, <2>2, <4>1 DEF Plain
            <4>4. ~isMultilingual(c.sequence[c.iter])
                BY <1>2, <1>4, <1>5
            <4> QED BY <4>2, <4>3, <4>4
        <3> QED BY <1>2, <2>2, <3>1, <3>2
    <2> QED BY <1>9, <2>1, <2>2 DEF Plain
<1>13. d \in KeptCall
    BY <1>8, <1>9, <1>11, <1>12 DEF KeptCall
<1> QED BY <1>1, <1>13, RunningKept DEF ContinueWith

LEMMA AdvanceKeeps ==
    ASSUME IInv, KeptInv, Advance, IInv'
    PROVE  KeptInv'
<1> DEFINE c == Head(calls)
           d == [c EXCEPT !.iter = @ + 1]
<1>1. /\ Running /\ ~AtEnd(c) /\ Searching
      /\ ~isMultilingual(Alternative(c))
      /\ ContinueWith(d)
    BY DEF Advance, Single
<1> SUFFICES ASSUME Askable PROVE calls' \in Seq(KeptCall)
    BY <1>1, SearchKeeps
<1>2. c \in GoodCall /\ c.iter \in 1..Len(c.sequence) /\ Alternative(c) = c.sequence[c.iter]
    BY <1>1, RunningCall DEF Alternative
<1>3. Accounted(c.sequence) /\ Plain(c)
    BY <1>1, RunningKept
<1>4. d \in GoodCall
    BY <1>1, ContinuedIsGood
<1>5. d.sequence = c.sequence /\ d.iter = c.iter + 1 /\ d.restartPosition = c.restartPosition
    BY <1>2 DEF GoodCall, Call
<1> HIDE DEF c, d
<1>6. Plain(d)
    <2>1. ASSUME NEW j \in 1 .. c.iter PROVE ~isMultilingual(c.sequence[j])
        <3>1. j = c.iter \/ j \in 1 .. c.iter - 1
            BY <1>2
        <3> QED BY <1>1, <1>2, <1>3, <3>1 DEF Plain
    <2>2. d.iter - 1 = c.iter
        BY <1>2, <1>5
    <2>3. ASSUME setting.langCodes = <<>>, NEW j \in 1 .. Len(c.sequence)
          PROVE  ~isMultilingual(c.sequence[j])
        <3>1. isMultilingual(c.sequence[j]) => j = c.iter
            BY <1>3, <2>3 DEF Plain
        <3> QED BY <1>1, <1>2, <3>1
    <2> QED BY <1>5, <2>1, <2>2, <2>3 DEF Plain
<1>7. d \in KeptCall
    BY <1>3, <1>4, <1>5, <1>6 DEF KeptCall
<1> QED BY <1>1, <1>7, RunningKept DEF ContinueWith

LEMMA CollectKeeps ==
    ASSUME IInv, KeptInv, Collect
    PROVE  KeptInv'
<1> DEFINE c == Head(calls)
           out == [i \in 1..Len(c.sequence) |-> TheOnlyOne(c.sequence[i])]
<1>1. /\ Running /\ AtEnd(c) /\ Return
      /\ alternativeSequences' = Append(alternativeSequences, out)
      /\ setting' = setting /\ bestFound' = bestFound /\ outcome' = outcome
    BY DEF Collect
<1> SUFFICES ASSUME Askable
             PROVE  calls' \in Seq(KeptCall) /\ alternativeSequences' \in Seq(KeptSequence)
    BY <1>1, SameRequest DEF KeptInv, Running
<1>2. calls' \in Seq(KeptCall) /\ Accounted(c.sequence) /\ Plain(c)
    BY <1>1, RunningKept DEF Return
<1>3. c \in GoodCall
    BY <1>1, RunningCall
<1> HIDE DEF c
<1>4. Len(c.sequence) \in Nat /\ c.iter = Len(c.sequence) + 1
    BY <1>1, <1>3 DEF GoodCall, Call, AtEnd
<1>5. out \in Offered
    BY <1>1, <1>3, CollectedIsOffered
<1>6. out \in Seq(Promise) /\ Len(out) = Len(c.sequence)
    BY <1>4, <1>5 DEF Offered
<1>7. ASSUME NEW i \in 1 .. Len(c.sequence)
      PROVE  ~isMultilingual(c.sequence[i]) /\ c.sequence[i] = {out[i]}
    <2>1. i \in 1 .. c.iter - 1
        BY <1>4
    <2>2. ~isMultilingual(c.sequence[i])
        BY <1>2, <2>1 DEF Plain
    <2>3. Settled(c.sequence, i)
        BY <1>3, <2>1 DEF GoodCall
    <2>4. PICK p : c.sequence[i] = {p}
        BY <2>3 DEF Settled
    <2>5. out[i] = p
        BY <2>4, OnlyOne
    <2> QED BY <2>2, <2>4, <2>5
<1> HIDE DEF out
<1>8. KeepsRequest(out)
    BY <1>2, <1>4, <1>6, <1>7, AccountedIsKept
<1>9. out \in KeptSequence
    BY <1>5, <1>8 DEF KeptSequence
<1>10. alternativeSequences \in Seq(KeptSequence)
    BY DEF KeptInv
<1> QED BY <1>1, <1>2, <1>9, <1>10

LEMMA ChooseKeeps ==
    ASSUME IInv, KeptInv, Choose
    PROVE  KeptInv'
<1>1. PICK i \in DOMAIN alternativeSequences :
          /\ alternativeSequences' = without(alternativeSequences, i)
          /\ \/ bestFound' = alternativeSequences[i] /\ outcome' = "found"
             \/ bestFound' = bestFound /\ outcome' = outcome
    BY DEF Choose
<1>2. setting' = setting /\ calls' = calls /\ outcome = "choosing"
    BY DEF Choose
<1> SUFFICES ASSUME Askable
             PROVE  /\ alternativeSequences' \in Seq(KeptSequence)
                    /\ outcome' = "found" => KeepsRequest(bestFound')
    BY <1>2, SameRequest DEF KeptInv
<1>3. alternativeSequences \in Seq(KeptSequence)
    BY DEF KeptInv
<1>4. i \in 1..Len(alternativeSequences) /\ alternativeSequences[i] \in KeptSequence
    BY <1>3, ElementOfSeq
<1>5. alternativeSequences' \in Seq(KeptSequence)
    BY <1>1, <1>3, <1>4, WithoutOne
<1> QED BY <1>1, <1>2, <1>4, <1>5 DEF KeptSequence

LEMMA OthersKeep ==
    ASSUME KeptInv, LoseRestartPosition \/ StartChoosing \/ Fail \/ UNCHANGED vars
    PROVE  KeptInv'
<1>1. /\ setting' = setting /\ calls' = calls
      /\ alternativeSequences' = alternativeSequences /\ bestFound' = bestFound
      /\ outcome' = "found" => outcome = "found"
    BY DEF LoseRestartPosition, StartChoosing, Fail, vars
<1> QED BY <1>1, SameRequest DEF KeptInv

LEMMA InitKept == Init => KeptInv
<1> SUFFICES ASSUME Init, Askable PROVE KeptInv
    BY DEF KeptInv
<1> DEFINE c == newCall(setting.request)
<1>1. setting \in GoodSetting /\ IInv
    BY CompletionAssumption, InitIInv DEF Init
<1>2. /\ calls = <<c>> /\ alternativeSequences = <<>> /\ outcome = "completing"
    BY DEF Init
<1>3. c.sequence = setting.request /\ c.iter = 1 /\ c.restartPosition = 1
    BY DEF newCall
<1>4. DOMAIN setting.request = 1 .. Len(setting.request)
    BY <1>1, SettingFields
<1> HIDE DEF c
<1>5. c \in GoodCall
    <2>1. calls \in Seq(GoodCall) /\ 1 \in 1 .. Len(calls) /\ calls[1] = c
        BY <1>1, <1>2 DEF IInv
    <2> QED BY <2>1, ElementOfSeq
<1>6. Accounted(c.sequence)
    BY <1>1, <1>3, RequestIsAccounted
<1>7. Plain(c)
    BY <1>3, <1>4 DEF Plain, Askable
<1>8. c \in KeptCall
    BY <1>5, <1>6, <1>7 DEF KeptCall
<1> QED BY <1>2, <1>8 DEF KeptInv

LEMMA NextKept == IInv /\ KeptInv /\ [Next]_vars => KeptInv'
<1> SUFFICES ASSUME IInv, KeptInv, [Next]_vars PROVE KeptInv'
    OBVIOUS
<1>1. IInv'
    BY NextIInv
<1>2. CASE MultiplyByLanguages
    BY <1>1, <1>2, MultiplyByLanguagesKeeps
<1>3. CASE GiveUpOnLanguage \/ AllTried \/ GiveUpOnTags
    BY <1>3, ReturningKeeps
<1>4. CASE TryAlternative
    BY <1>1, <1>4, TryAlternativeKeeps
<1>5. CASE InsertFulfillers
    BY <1>1, <1>5, InsertFulfillersKeeps
<1>6. CASE Advance
    BY <1>1, <1>6, AdvanceKeeps
<1>7. CASE Collect
    BY <1>7, CollectKeeps
<1>8. CASE Choose
    BY <1>8, ChooseKeeps
<1>9. CASE LoseRestartPosition \/ StartChoosing \/ Fail \/ UNCHANGED vars
    BY <1>9, OthersKeep
<1> QED BY <1>2, <1>3, <1>4, <1>5, <1>6, <1>7, <1>8, <1>9 DEF Next

\* What is found contains what the user asked for, in its order, and beyond that
\* only processors that provide what a later one requires, for every catalog and
\* every request whose alternatives can be multiplied (auto_completer.cpp:84-196,
\* data/tutorial.txt:93-111).
THEOREM RequestIsKept == Spec => []RequestKept
<1>1. KeptInv => RequestKept
    BY DEF KeptInv, RequestKept, Askable
<1> QED BY IInvHolds, InitKept, NextKept, <1>1, PTL DEF Spec
=============================================================================
