---------------------------- MODULE BufferLemmas ---------------------------
(***************************************************************************)
(* Facts for the proofs about the modules whose buffers address a cell     *)
(* with `pos % length`, that erase from the list they walk, or that give   *)
(* what they hold piece by piece (FlattenSeq).                             *)
(***************************************************************************)
EXTENDS Integers, SequencesExt, SequenceTheorems, WellFoundedInduction, TLAPS

(* Quotient and remainder, as \div and % define them. *)
LEMMA DivMod ==
  ASSUME NEW L \in Nat \ {0}, NEW p \in Int
  PROVE  /\ p \div L \in Int
         /\ p % L \in 0 .. L - 1
         /\ p = L * (p \div L) + (p % L)
  BY SMT

(* Multiples of L are at least L apart. *)
LEMMA MultiplesApart ==
  ASSUME NEW L \in Nat \ {0}, NEW a \in Int, NEW b \in Int, a < b
  PROVE  L * a + L <= L * b
  <1>1. b - a - 1 \in Int /\ b - a - 1 >= 0
    OBVIOUS
  <1>2. L * (b - a - 1) >= 0
    BY <1>1, SMT
  <1>3. L * (b - a - 1) = L * b - L * a - L
    BY SMT
  <1> QED
    BY <1>2, <1>3, SMT

(* The remainder is the only one in range. *)
LEMMA RemainderUnique ==
  ASSUME NEW L \in Nat \ {0}, NEW q \in Int, NEW r \in 0 .. L - 1
  PROVE  (L * q + r) % L = r
  <1> DEFINE p == L * q + r
  <1>1. p \in Int
    BY SMT
  <1>2. p \div L \in Int /\ p % L \in 0 .. L - 1 /\ p = L * (p \div L) + (p % L)
    BY <1>1, DivMod
  <1>3. CASE q < p \div L
    BY <1>1, <1>2, <1>3, MultiplesApart, SMT
  <1>4. CASE p \div L < q
    BY <1>1, <1>2, <1>4, MultiplesApart, SMT
  <1>5. CASE p \div L = q
    BY <1>1, <1>2, <1>5, SMT
  <1> QED
    BY <1>2, <1>3, <1>4, <1>5

(* Two positions less than a ring apart are in different cells. *)
LEMMA CellsDiffer ==
  ASSUME NEW L \in Nat \ {0}, NEW p \in Nat, NEW q \in Nat, p < q, q < p + L
  PROVE  p % L # q % L
  <1> SUFFICES ASSUME p % L = q % L PROVE FALSE
    OBVIOUS
  <1>1. /\ p \div L \in Int /\ p % L \in 0 .. L - 1 /\ p = L * (p \div L) + (p % L)
        /\ q \div L \in Int /\ q % L \in 0 .. L - 1 /\ q = L * (q \div L) + (q % L)
    BY DivMod
  <1>2. CASE p \div L < q \div L
    BY <1>1, <1>2, MultiplesApart, SMT
  <1>3. CASE q \div L < p \div L
    BY <1>1, <1>3, MultiplesApart, SMT
  <1>4. CASE q \div L = p \div L
    BY <1>1, <1>4, SMT
  <1> QED
    BY <1>1, <1>2, <1>3, <1>4

(* Before the last cell, the next position is in the next cell. *)
LEMMA NextCell ==
  ASSUME NEW L \in Nat \ {0}, NEW p \in Nat, (p % L) + 1 < L
  PROVE  (p + 1) % L = (p % L) + 1
  <1>1. p \div L \in Int /\ p % L \in 0 .. L - 1 /\ p = L * (p \div L) + (p % L)
    BY DivMod
  <1>2. (p % L) + 1 \in 0 .. L - 1
    BY <1>1
  <1>3. (L * (p \div L) + ((p % L) + 1)) % L = (p % L) + 1
    BY <1>1, <1>2, RemainderUnique
  <1>4. L * (p \div L) + ((p % L) + 1) = p + 1
    BY <1>1, SMT
  <1> QED
    BY <1>3, <1>4

(* Every nonempty set of naturals has a least element. *)
LEMMA LeastNatural ==
  ASSUME NEW S \in SUBSET Nat, S # {}
  PROVE  \E m \in S : \A k \in S : m <= k
  <1>1. PICK m \in S : \A k \in S : ~ (<<k, m>> \in OpToRel(<, Nat))
    BY NatLessThanWellFounded, WFMin, Zenon
  <1>2. ASSUME NEW k \in S PROVE m <= k
    <2>1. ~ (k < m)
      BY <1>1 DEF OpToRel
    <2> QED
      BY <2>1
  <1> QED
    BY <1>2

(* A list from which the element at k is erased: the others in order. *)
LEMMA ErasedProperties ==
  ASSUME NEW S, NEW s \in Seq(S), NEW k \in 1 .. Len(s)
  PROVE  LET left == SubSeq(s, 1, k - 1) \o SubSeq(s, k + 1, Len(s))
         IN  /\ left \in Seq(S)
             /\ Len(left) = Len(s) - 1
             /\ \A j \in 1 .. Len(s) - 1 : left[j] = IF j < k THEN s[j] ELSE s[j + 1]
  <1> DEFINE front == SubSeq(s, 1, k - 1)
             back  == SubSeq(s, k + 1, Len(s))
  <1>1. /\ Len(s) \in Nat /\ k \in Int /\ 1 \in Int /\ k - 1 \in Int /\ k + 1 \in Int
        /\ \A j \in 1 .. Len(s) : s[j] \in S
    BY LenProperties, ElementOfSeq
  <1>2. /\ front \in Seq(S) /\ Len(front) = k - 1
        /\ \A j \in 1 .. k - 1 : front[j] = s[j]
    <2>1. \A j \in 1 .. k - 1 : s[j] \in S
      BY <1>1
    <2>2. /\ front \in Seq(S) /\ Len(front) = IF 1 <= k - 1 THEN k - 1 - 1 + 1 ELSE 0
          /\ \A j \in 1 .. k - 1 - 1 + 1 : front[j] = s[1 + j - 1]
      BY <1>1, <2>1, SubSeqProperties
    <2> HIDE DEF front
    <2>3. \A j \in 1 .. k - 1 : 1 + j - 1 = j /\ j \in 1 .. k - 1 - 1 + 1
      BY <1>1
    <2> QED
      BY <1>1, <2>2, <2>3
  <1>3. /\ back \in Seq(S) /\ Len(back) = Len(s) - k
        /\ \A j \in 1 .. Len(s) - k : back[j] = s[k + j]
    <2>1. \A j \in k + 1 .. Len(s) : s[j] \in S
      BY <1>1
    <2>2. /\ back \in Seq(S)
          /\ Len(back) = IF k + 1 <= Len(s) THEN Len(s) - (k + 1) + 1 ELSE 0
          /\ \A j \in 1 .. Len(s) - (k + 1) + 1 : back[j] = s[k + 1 + j - 1]
      BY <1>1, <2>1, SubSeqProperties
    <2> HIDE DEF back
    <2>3. \A j \in 1 .. Len(s) - k : k + 1 + j - 1 = k + j /\ j \in 1 .. Len(s) - (k + 1) + 1
      BY <1>1
    <2> QED
      BY <1>1, <2>2, <2>3
  <1> HIDE DEF front, back
  <1>4. /\ front \o back \in Seq(S)
        /\ Len(front \o back) = Len(s) - 1
        /\ \A j \in 1 .. Len(s) - 1 :
             (front \o back)[j] = IF j <= k - 1 THEN front[j] ELSE back[j - (k - 1)]
    <2>1. Len(front) + Len(back) = Len(s) - 1
      BY <1>1, <1>2, <1>3
    <2>2. front \in Seq(S) /\ back \in Seq(S)
      BY <1>2, <1>3
    <2>3. /\ front \o back \in Seq(S)
          /\ Len(front \o back) = Len(front) + Len(back)
          /\ \A j \in 1 .. Len(front) + Len(back) :
               (front \o back)[j] = IF j <= Len(front) THEN front[j] ELSE back[j - Len(front)]
      BY <2>2, ConcatProperties, Zenon
    <2> QED
      BY <1>2, <2>1, <2>3
  <1>5. ASSUME NEW j \in 1 .. Len(s) - 1
        PROVE  (front \o back)[j] = IF j < k THEN s[j] ELSE s[j + 1]
    <2>1. CASE j < k
      <3>1. j \in 1 .. k - 1
        BY <1>1, <2>1
      <3> QED
        BY <1>1, <1>2, <1>4, <2>1, <3>1
    <2>2. CASE ~ (j < k)
      <3>1. j - (k - 1) \in 1 .. Len(s) - k /\ k + (j - (k - 1)) = j + 1 /\ ~ (j <= k - 1)
        BY <1>1, <2>2
      <3>2. back[j - (k - 1)] = s[j + 1]
        BY <1>3, <3>1
      <3> QED
        BY <1>4, <2>2, <3>1, <3>2
    <2> QED
      BY <2>1, <2>2
  <1> QED
    BY <1>4, <1>5 DEF front, back

--------------------------------------------------------------------------------
(* What FlattenSeq makes of a sequence of sequences.                       *)

(* Induction, for a set: a property that the provers cannot take as a      *)
(* parameter is given as the set of naturals that have it.                 *)
LEMMA AllNaturals ==
  ASSUME NEW I \in SUBSET Nat, 0 \in I, \A n \in I : n + 1 \in I
  PROVE  I = Nat
  <1> SUFFICES ASSUME Nat \ I # {} PROVE FALSE
    OBVIOUS
  <1>1. PICK m \in Nat \ I : \A k \in Nat \ I : m <= k
    BY LeastNatural
  <1>2. m # 0 /\ m - 1 \in Nat
    BY <1>1
  <1>3. m - 1 \in I
    BY <1>1, <1>2
  <1>4. m - 1 + 1 \in I
    BY <1>3
  <1> QED
    BY <1>1, <1>2, <1>4

(* The concatenation of the first sequences, for each number of them. *)
RunsThrough(F, ss, n) ==
  F[0] = <<>> /\ \A i \in 1 .. n : F[i] = F[i - 1] \o ss[i]

(* There is such a function of the numbers. *)
LEMMA RunningConcat ==
  ASSUME NEW S, NEW ss \in Seq(Seq(S))
  PROVE  \E F \in [0 .. Len(ss) -> Seq(S)] : RunsThrough(F, ss, Len(ss))
  <1> DEFINE I == {n \in Nat : n <= Len(ss) =>
                     \E F \in [0 .. n -> Seq(S)] : RunsThrough(F, ss, n)}
  <1>1. Len(ss) \in Nat /\ \A i \in 1 .. Len(ss) : ss[i] \in Seq(S)
    BY LenProperties, ElementOfSeq
  <1>2. 0 \in I
    <2>1. [i \in 0 .. 0 |-> <<>>] \in [0 .. 0 -> Seq(S)]
      BY EmptySeq
    <2>2. RunsThrough([i \in 0 .. 0 |-> <<>>], ss, 0)
      BY DEF RunsThrough
    <2> QED
      BY <2>1, <2>2
  <1>3. ASSUME NEW n \in I PROVE n + 1 \in I
    <2> SUFFICES ASSUME n + 1 <= Len(ss)
                 PROVE  \E F \in [0 .. n + 1 -> Seq(S)] : RunsThrough(F, ss, n + 1)
      OBVIOUS
    <2>1. PICK F \in [0 .. n -> Seq(S)] : RunsThrough(F, ss, n)
      BY <1>1
    <2> DEFINE G == [i \in 0 .. n + 1 |-> IF i <= n THEN F[i] ELSE F[n] \o ss[n + 1]]
    <2>2. n \in Nat /\ F[n] \in Seq(S) /\ ss[n + 1] \in Seq(S)
      BY <1>1, <2>1
    <2>3. F[n] \o ss[n + 1] \in Seq(S)
      BY <2>2, ConcatProperties
    <2>4. G \in [0 .. n + 1 -> Seq(S)]
      <3>1. \A i \in 0 .. n + 1 : i <= n => i \in 0 .. n
        BY <2>2
      <3>2. \A i \in 0 .. n + 1 : (IF i <= n THEN F[i] ELSE F[n] \o ss[n + 1]) \in Seq(S)
        BY <2>1, <2>3, <3>1
      <3> QED
        BY <3>2
    <2>5. /\ \A i \in 0 .. n : G[i] = F[i]
          /\ G[n + 1] = F[n] \o ss[n + 1]
      <3>1. \A i \in 0 .. n : i \in 0 .. n + 1 /\ i <= n
        BY <2>2
      <3>2. n + 1 \in 0 .. n + 1 /\ ~ (n + 1 <= n)
        BY <2>2
      <3> QED
        BY <3>1, <3>2
    <2> HIDE DEF G
    <2>6. ASSUME NEW i \in 1 .. n + 1 PROVE G[i] = G[i - 1] \o ss[i]
      <3>1. CASE i \in 1 .. n
        <4>1. i \in 0 .. n /\ i - 1 \in 0 .. n
          BY <2>2, <3>1
        <4>2. F[i] = F[i - 1] \o ss[i]
          BY <2>1, <3>1 DEF RunsThrough
        <4> QED
          BY <2>5, <4>1, <4>2
      <3>2. CASE i = n + 1
        <4>1. i - 1 = n /\ n \in 0 .. n
          BY <2>2, <3>2
        <4> QED
          BY <2>5, <3>2, <4>1
      <3> HIDE DEF I
      <3>3. i \in 1 .. n \/ i = n + 1
        BY <2>2
      <3> QED
        BY <3>1, <3>2, <3>3
    <2>7. G[0] = <<>>
      <3>1. F[0] = <<>>
        BY <2>1 DEF RunsThrough
      <3>2. 0 \in 0 .. n
        BY <2>2
      <3> QED
        BY <2>5, <3>1, <3>2
    <2> QED
      BY <2>4, <2>6, <2>7 DEF RunsThrough
  <1>4. I = Nat
    <2> HIDE DEF I
    <2> QED
      BY <1>2, <1>3, AllNaturals DEF I
  <1> QED
    BY <1>1, <1>4

(* FlattenSeq computes it. *)
LEMMA FlattenRuns ==
  ASSUME NEW S, NEW ss \in Seq(Seq(S)),
         NEW F \in [0 .. Len(ss) -> Seq(S)], RunsThrough(F, ss, Len(ss))
  PROVE  FlattenSeq(ss) = F[Len(ss)]
  <1>1. Len(ss) \in Nat /\ \A i \in 1 .. Len(ss) : ss[i] \in Seq(S)
    BY LenProperties, ElementOfSeq
  <1>2. CASE Len(ss) = 0
    <2>1. ss = <<>>
      BY <1>2, EmptySeq
    <2> QED
      BY <1>2, <2>1 DEF FlattenSeq, RunsThrough
  <1>3. CASE Len(ss) # 0
    <2> DEFINE Eq(g) == g = [i \in 1 .. Len(ss) |->
                               IF i = 1 THEN ss[i] ELSE g[i - 1] \o ss[i]]
               G == CHOOSE g : Eq(g)
               H == [i \in 1 .. Len(ss) |-> F[i]]
    <2>1. FlattenSeq(ss) = G[Len(ss)]
      BY <1>3 DEF FlattenSeq
    <2>2. Eq(H)
      <3>1. ASSUME NEW i \in 1 .. Len(ss)
            PROVE  H[i] = IF i = 1 THEN ss[i] ELSE H[i - 1] \o ss[i]
        <4>1. F[i] = F[i - 1] \o ss[i]
          BY DEF RunsThrough
        <4>4. \A j \in 1 .. Len(ss) : H[j] = F[j]
          OBVIOUS
        <4> HIDE DEF H
        <4>2. CASE i = 1
          <5>1. F[0] = <<>> /\ ss[1] \in Seq(S)
            BY <1>1, <4>2 DEF RunsThrough
          <5>2. F[0] \o ss[1] = ss[1]
            BY <5>1, ConcatEmptySeq
          <5>4. i - 1 = 0
            BY <4>2
          <5>3. H[i] = F[i] /\ F[i] = F[0] \o ss[i]
            BY <4>1, <4>4, <5>4
          <5> QED
            BY <4>2, <5>2, <5>3
        <4>3. CASE i # 1
          <5>1. i - 1 \in 1 .. Len(ss)
            BY <1>1, <4>3
          <5> QED
            BY <4>1, <4>3, <4>4, <5>1
        <4> QED
          BY <4>2, <4>3
      <3> HIDE DEF H
      <3>2. H = [i \in 1 .. Len(ss) |-> H[i]]
        BY DEF H
      <3> QED
        BY <3>1, <3>2
    <2>3. Eq(G)
      <3> HIDE DEF Eq
      <3> QED
        BY <2>2
    <2>10. /\ \A i \in 1 .. Len(ss) : G[i] = IF i = 1 THEN ss[i] ELSE G[i - 1] \o ss[i]
           /\ \A i \in 1 .. Len(ss) : H[i] = IF i = 1 THEN ss[i] ELSE H[i - 1] \o ss[i]
      <3> HIDE DEF G, H
      <3> QED
        BY <2>2, <2>3
    <2>11. H[Len(ss)] = F[Len(ss)]
      BY <1>1, <1>3
    <2> HIDE DEF G, H
    <2> DEFINE I == {n \in Nat : n + 1 <= Len(ss) => G[n + 1] = H[n + 1]}
    <2>4. 0 \in I
      BY <1>1, <2>10
    <2>5. ASSUME NEW n \in I PROVE n + 1 \in I
      <3> SUFFICES ASSUME n + 2 <= Len(ss) PROVE G[n + 2] = H[n + 2]
        OBVIOUS
      <3>1. n \in Nat /\ n + 2 \in 1 .. Len(ss) /\ n + 2 # 1 /\ n + 2 - 1 = n + 1 /\ n + 1 <= Len(ss)
        BY <1>1
      <3> HIDE DEF I
      <3>2. PICK j \in 1 .. Len(ss) : j = n + 2
        BY <3>1
      <3>3. j # 1 /\ j - 1 = n + 1
        BY <3>1, <3>2
      <3>4. G[j] = G[j - 1] \o ss[j] /\ H[j] = H[j - 1] \o ss[j]
        BY <2>10, <3>3
      <3>5. G[n + 1] = H[n + 1]
        BY <3>1 DEF I
      <3> QED
        BY <3>2, <3>3, <3>4, <3>5
    <2>6. I = Nat
      <3> HIDE DEF I
      <3> QED
        BY <2>4, <2>5, AllNaturals DEF I
    <2>7. G[Len(ss)] = H[Len(ss)]
      <3>1. Len(ss) - 1 \in Nat /\ Len(ss) - 1 + 1 = Len(ss)
        BY <1>1, <1>3
      <3>2. Len(ss) - 1 \in I
        <4> HIDE DEF I
        <4> QED
          BY <2>6, <3>1
      <3> QED
        BY <1>1, <3>1, <3>2
    <2> QED
      BY <2>1, <2>7, <2>11
  <1> QED
    BY <1>2, <1>3

FirstOf(s, n) == [i \in 1 .. n |-> s[i]]

(* The length and the members of a beginning. *)
LEMMA FirstOfProperties ==
  ASSUME NEW S, NEW s \in Seq(S), NEW n \in 0 .. Len(s)
  PROVE  /\ FirstOf(s, n) \in Seq(S) /\ Len(FirstOf(s, n)) = n
         /\ \A i \in 1 .. n : FirstOf(s, n)[i] = s[i]
         /\ \A m \in 0 .. n : FirstOf(FirstOf(s, n), m) = FirstOf(s, m)
  <1>1. n \in Nat /\ \A i \in 1 .. n : s[i] \in S
    BY LenProperties, ElementOfSeq
  <1>2. FirstOf(s, n) \in Seq(S)
    BY <1>1, IsASeq DEF FirstOf
  <1>3. Len(FirstOf(s, n)) = n
    BY <1>1, <1>2, LenProperties DEF FirstOf
  <1> QED
    BY <1>1, <1>2, <1>3 DEF FirstOf

(* The longest beginning and the shortest. *)
LEMMA FirstOfAll ==
  ASSUME NEW S, NEW s \in Seq(S)
  PROVE  FirstOf(s, Len(s)) = s /\ FirstOf(s, 0) = <<>>
  <1>1. Len(s) \in Nat
    BY LenProperties
  <1>2. /\ FirstOf(s, Len(s)) \in Seq(S) /\ Len(FirstOf(s, Len(s))) = Len(s)
        /\ \A i \in 1 .. Len(s) : FirstOf(s, Len(s))[i] = s[i]
        /\ FirstOf(s, 0) \in Seq(S) /\ Len(FirstOf(s, 0)) = 0
    BY <1>1, FirstOfProperties
  <1>3. FirstOf(s, Len(s)) = s
    BY <1>2, SeqEqual
  <1> QED
    BY <1>2, <1>3, EmptySeq

(* Nothing is made of nothing. *)
LEMMA FlattenEmpty == FlattenSeq(<<>>) = <<>>
  BY DEF FlattenSeq

(* The last sequence comes after what the others make.                     *)
LEMMA FlattenNext ==
  ASSUME NEW S, NEW ss \in Seq(Seq(S)), NEW n \in Nat, Len(ss) = n + 1
  PROVE  /\ FlattenSeq(FirstOf(ss, n)) \in Seq(S)
         /\ ss[n + 1] \in Seq(S)
         /\ FlattenSeq(ss) = FlattenSeq(FirstOf(ss, n)) \o ss[n + 1]
  <1>1. PICK F \in [0 .. n + 1 -> Seq(S)] : RunsThrough(F, ss, n + 1)
    <2>1. \E F \in [0 .. Len(ss) -> Seq(S)] : RunsThrough(F, ss, Len(ss))
      BY RunningConcat
    <2> QED
      BY <2>1
  <1>2. FlattenSeq(ss) = F[n + 1]
    BY <1>1, FlattenRuns
  <1>3. F[n + 1] = F[n] \o ss[n + 1] /\ ss[n + 1] \in Seq(S)
    <2>1. PICK j \in 1 .. n + 1 : j = n + 1
      OBVIOUS
    <2>2. j - 1 = n
      BY <2>1
    <2>3. F[j] = F[j - 1] \o ss[j]
      BY <1>1 DEF RunsThrough
    <2>4. ss[j] \in Seq(S)
      BY ElementOfSeq
    <2> QED
      BY <2>1, <2>2, <2>3, <2>4
  <1> DEFINE E == [i \in 0 .. n |-> F[i]]
  <1>4. E \in [0 .. n -> Seq(S)] /\ \A i \in 0 .. n : E[i] = F[i]
    BY <1>1
  <1>5. /\ FirstOf(ss, n) \in Seq(Seq(S)) /\ Len(FirstOf(ss, n)) = n
        /\ \A i \in 1 .. n : FirstOf(ss, n)[i] = ss[i]
    BY FirstOfProperties
  <1> HIDE DEF E
  <1>6. RunsThrough(E, FirstOf(ss, n), n)
    <2>1. E[0] = <<>>
      BY <1>1, <1>4 DEF RunsThrough
    <2>2. ASSUME NEW i \in 1 .. n PROVE E[i] = E[i - 1] \o FirstOf(ss, n)[i]
      <3>1. i \in 0 .. n /\ i - 1 \in 0 .. n /\ i \in 1 .. n + 1
        OBVIOUS
      <3>2. F[i] = F[i - 1] \o ss[i]
        BY <1>1, <3>1 DEF RunsThrough
      <3> QED
        BY <1>4, <1>5, <3>1, <3>2
    <2> QED
      BY <2>1, <2>2 DEF RunsThrough
  <1>7. FlattenSeq(FirstOf(ss, n)) = E[n]
    BY <1>4, <1>5, <1>6, FlattenRuns
  <1>8. n \in 0 .. n
    OBVIOUS
  <1> QED
    BY <1>2, <1>3, <1>4, <1>7, <1>8

(* FlattenSeq gives a sequence over the set of the members. *)
LEMMA FlattenType ==
  ASSUME NEW S, NEW ss \in Seq(Seq(S))
  PROVE  FlattenSeq(ss) \in Seq(S)
  <1>1. CASE ss = <<>>
    BY <1>1, FlattenEmpty, EmptySeq
  <1>2. CASE ss # <<>>
    <2>1. Len(ss) \in Nat /\ Len(ss) # 0
      BY <1>2, LenProperties, EmptySeq
    <2>2. Len(ss) - 1 \in Nat /\ Len(ss) = Len(ss) - 1 + 1
      BY <2>1
    <2>3. PICK n \in Nat : Len(ss) = n + 1
      BY <2>2
    <2> QED
      BY <2>3, FlattenNext, ConcatProperties
  <1> QED
    BY <1>1, <1>2

(* The first sequences make a prefix of what all of them make.             *)
LEMMA FlattenBegins ==
  ASSUME NEW S, NEW ss \in Seq(Seq(S)), NEW k \in 0 .. Len(ss)
  PROVE  \E u \in Seq(S) : FlattenSeq(ss) = FlattenSeq(FirstOf(ss, k)) \o u
  <1>1. Len(ss) \in Nat /\ k \in Nat
    BY LenProperties
  <1> DEFINE Reaches(d) == \E u \in Seq(S) :
                              FlattenSeq(FirstOf(ss, k + d)) = FlattenSeq(FirstOf(ss, k)) \o u
             I == {d \in Nat : k + d <= Len(ss) => Reaches(d)}
  <1>2. FlattenSeq(FirstOf(ss, k)) \in Seq(S)
    BY FirstOfProperties, FlattenType
  <1>3. Reaches(0)
    <2>1. k + 0 = k
      BY <1>1
    <2>2. FlattenSeq(FirstOf(ss, k)) = FlattenSeq(FirstOf(ss, k)) \o <<>>
      BY <1>2, ConcatEmptySeq
    <2> QED
      BY <2>1, <2>2, EmptySeq
  <1>4. ASSUME NEW d \in Nat, k + d + 1 <= Len(ss), Reaches(d) PROVE Reaches(d + 1)
    <2>1. PICK u : /\ u \in Seq(S)
                   /\ FlattenSeq(FirstOf(ss, k + d)) = FlattenSeq(FirstOf(ss, k)) \o u
      BY <1>4
    <2>2. PICK n \in Nat : n = k + d
      BY <1>1
    <2>3. n \in 0 .. n + 1 /\ n + 1 \in 0 .. Len(ss) /\ n + 1 = k + (d + 1)
      BY <1>1, <1>4, <2>2
    <2>4. PICK tt \in Seq(Seq(S)) : tt = FirstOf(ss, n + 1)
      BY <2>3, FirstOfProperties
    <2>5. Len(tt) = n + 1 /\ FirstOf(tt, n) = FirstOf(ss, n)
      BY <2>3, <2>4, FirstOfProperties
    <2>6. /\ tt[n + 1] \in Seq(S)
          /\ FlattenSeq(tt) = FlattenSeq(FirstOf(ss, n)) \o tt[n + 1]
      BY <2>2, <2>5, FlattenNext
    <2>7. PICK v : v \in Seq(S) /\ v = tt[n + 1]
      BY <2>6
    <2>8. (FlattenSeq(FirstOf(ss, k)) \o u) \o v = FlattenSeq(FirstOf(ss, k)) \o (u \o v)
      <3>1. PICK p : p = FlattenSeq(FirstOf(ss, k)) /\ p \in Seq(S)
        BY <1>2
      <3>2. p \in Seq(S) /\ u \in Seq(S) /\ v \in Seq(S)
        BY <2>1, <2>7, <3>1
      <3>3. (p \o u) \o v = p \o (u \o v)
        BY <3>2, ConcatAssociative, SMTT(30)
      <3> QED
        BY <3>1, <3>3
    <2>9. u \o v \in Seq(S)
      BY <2>1, <2>7, ConcatProperties
    <2> QED
      BY <2>1, <2>2, <2>3, <2>4, <2>6, <2>7, <2>8, <2>9
  <1> HIDE DEF Reaches
  <1>5. I = Nat
    <2>1. 0 \in I
      BY <1>3
    <2>2. ASSUME NEW d \in I PROVE d + 1 \in I
      <3> SUFFICES ASSUME k + (d + 1) <= Len(ss) PROVE Reaches(d + 1)
        OBVIOUS
      <3>1. d \in Nat /\ k + d + 1 <= Len(ss) /\ k + d <= Len(ss)
        BY <1>1
      <3> QED
        BY <1>4, <3>1
    <2> HIDE DEF I
    <2> QED
      BY <2>1, <2>2, AllNaturals DEF I
  <1>6. PICK d \in Nat : k + d = Len(ss)
    <2>1. Len(ss) - k \in Nat /\ k + (Len(ss) - k) = Len(ss)
      BY <1>1
    <2> QED
      BY <2>1
  <1>7. Reaches(d)
    <2>1. d \in I
      <3> HIDE DEF I
      <3> QED
        BY <1>5
    <2> QED
      BY <1>1, <1>6, <2>1
  <1> QED
    BY <1>6, <1>7, FirstOfAll DEF Reaches

(* A sequence is a prefix of what continues it.                            *)
LEMMA PrefixOfConcat ==
  ASSUME NEW S, NEW s \in Seq(S), NEW u \in Seq(S)
  PROVE  IsPrefix(s, s \o u)
  <1>1. /\ s \o u \in Seq(S) /\ Len(s \o u) = Len(s) + Len(u)
        /\ \A i \in 1 .. Len(s) + Len(u) : (s \o u)[i] = IF i <= Len(s) THEN s[i]
                                                        ELSE u[i - Len(s)]
    BY ConcatProperties
  <1>2. Len(s) \in Nat /\ Len(u) \in Nat
    BY LenProperties
  <1>3. SubSeq(s, 1, Len(s)) = s
    BY SubSeqFull
  <1>4. PICK n \in Nat : n = Len(s)
    BY <1>2
  <1>5. PICK t \in Seq(S) : t = s \o u
    BY <1>1
  <1>6. \A i \in 1 .. n : t[i] = s[i] /\ t[i] \in S
    BY <1>1, <1>2, <1>4, <1>5, ElementOfSeq
  <1>7. /\ SubSeq(t, 1, n) \in Seq(S) /\ Len(SubSeq(t, 1, n)) = n
        /\ \A i \in 1 .. n : SubSeq(t, 1, n)[i] = t[i]
    BY <1>6, SubSeqProperties
  <1>8. SubSeq(t, 1, n) = s
    BY <1>4, <1>6, <1>7, SeqEqual
  <1> QED
    BY <1>1, <1>2, <1>3, <1>4, <1>5, <1>8 DEF IsPrefix

(* The last of two sequences one after the other is the last of the second. *)
LEMMA LastOfConcat ==
  ASSUME NEW S, NEW s \in Seq(S), NEW u \in Seq(S)
  PROVE  /\ u # <<>> => (s \o u) # <<>> /\ Last(s \o u) = Last(u) /\ Last(u) \in S
         /\ u = <<>> => s \o u = s
  <1>1. u = <<>> => s \o u = s
    BY ConcatEmptySeq
  <1>2. ASSUME u # <<>>
        PROVE  (s \o u) # <<>> /\ Last(s \o u) = Last(u) /\ Last(u) \in S
    <2>1. Len(s) \in Nat /\ Len(u) \in Nat \ {0}
      BY <1>2, LenProperties, EmptySeq
    <2>2. /\ s \o u \in Seq(S) /\ Len(s \o u) = Len(s) + Len(u)
          /\ \A i \in 1 .. Len(s) + Len(u) : (s \o u)[i] = IF i <= Len(s) THEN s[i]
                                                          ELSE u[i - Len(s)]
      BY ConcatProperties
    <2>3. PICK i \in 1 .. Len(s) + Len(u) : i = Len(s) + Len(u)
      BY <2>1
    <2>4. ~ (i <= Len(s)) /\ i - Len(s) = Len(u)
      BY <2>1, <2>3
    <2>5. (s \o u)[i] = u[Len(u)]
      BY <2>2, <2>4
    <2>6. u[Len(u)] \in S
      BY <2>1, ElementOfSeq
    <2>7. (s \o u) # <<>>
      BY <2>1, <2>2, EmptySeq
    <2> QED
      BY <2>2, <2>3, <2>5, <2>6, <2>7 DEF Last
  <1> QED
    BY <1>1, <1>2

(* A sequence is a prefix of another that has its elements in its places.  *)
LEMMA PrefixByPlaces ==
  ASSUME NEW S, NEW s \in Seq(S), NEW t \in Seq(S)
  PROVE  IsPrefix(s, t) <=> Len(s) <= Len(t) /\ \A i \in 1 .. Len(s) : s[i] = t[i]
  <1>1. PICK n \in Nat : n = Len(s)
    BY LenProperties
  <1>2. PICK m \in Nat : m = Len(t)
    BY LenProperties
  <1>3. SubSeq(s, 1, n) = s
    BY <1>1, SubSeqFull
  <1> SUFFICES ASSUME n <= m
               PROVE  SubSeq(s, 1, n) = SubSeq(t, 1, n) <=> \A i \in 1 .. n : s[i] = t[i]
    BY <1>1, <1>2 DEF IsPrefix
  <1>4. \A i \in 1 .. n : i \in 1 .. m /\ t[i] \in S
    BY <1>2, ElementOfSeq
  <1>5. /\ SubSeq(t, 1, n) \in Seq(S) /\ Len(SubSeq(t, 1, n)) = n
        /\ \A i \in 1 .. n : SubSeq(t, 1, n)[i] = t[i]
    BY <1>4, SubSeqProperties
  <1>6. (\A i \in 1 .. n : s[i] = t[i]) => s = SubSeq(t, 1, n)
    BY <1>1, <1>5, SeqEqual
  <1> QED
    BY <1>3, <1>5, <1>6

(* Where the first k sequences end in what FlattenSeq makes of all.        *)
EndOf(ss, k) == Len(FlattenSeq(FirstOf(ss, k)))

(* Each sequence follows those before it.                                  *)
LEMMA FlattenPlaces ==
  ASSUME NEW S, NEW ss \in Seq(Seq(S)), NEW k \in 1 .. Len(ss)
  PROVE  /\ EndOf(ss, k - 1) \in Nat /\ Len(ss[k]) \in Nat
         /\ EndOf(ss, k) = EndOf(ss, k - 1) + Len(ss[k])
         /\ EndOf(ss, k) <= Len(FlattenSeq(ss))
         /\ \A j \in 1 .. Len(ss[k]) : FlattenSeq(ss)[EndOf(ss, k - 1) + j] = ss[k][j]
  <1>1. PICK n \in Nat : k = n + 1
    <2>1. Len(ss) \in Nat
      BY LenProperties
    <2>2. k - 1 \in Nat /\ k = k - 1 + 1
      BY <2>1
    <2> QED
      BY <2>2
  <1>2. /\ n \in 0 .. k /\ k \in 0 .. Len(ss) /\ k - 1 = n /\ n + 1 \in 1 .. k
        /\ n \in 0 .. Len(ss)
    BY <1>1, LenProperties
  <1>3. PICK tt : tt \in Seq(Seq(S)) /\ tt = FirstOf(ss, k)
    BY <1>2, FirstOfProperties
  <1>4. /\ Len(tt) = n + 1 /\ FirstOf(tt, n) = FirstOf(ss, n)
        /\ tt[n + 1] = ss[k]
    BY <1>1, <1>2, <1>3, FirstOfProperties
  <1>5. PICK p : p \in Seq(S) /\ p = FlattenSeq(FirstOf(ss, n))
    BY <1>2, FirstOfProperties, FlattenType
  <1>6. PICK q : q \in Seq(S) /\ q = ss[k]
    BY ElementOfSeq
  <1>7. FlattenSeq(FirstOf(ss, k)) = p \o q
    BY <1>3, <1>4, <1>5, <1>6, FlattenNext
  <1>8. PICK u : u \in Seq(S) /\ FlattenSeq(ss) = FlattenSeq(FirstOf(ss, k)) \o u
    BY <1>2, FlattenBegins
  <1>9. PICK pq : pq \in Seq(S) /\ pq = p \o q
    BY <1>5, <1>6, ConcatProperties
  <1>10. PICK a \in Nat : a = Len(p)
    BY <1>5, LenProperties
  <1>11. PICK b \in Nat : b = Len(q)
    BY <1>6, LenProperties
  <1>12. PICK c \in Nat : c = Len(u)
    BY <1>8, LenProperties
  <1>13. Len(pq) = a + b /\ \A j \in 1 .. b : pq[a + j] = q[j]
    <2>1. /\ Len(pq) = a + b
          /\ \A i \in 1 .. a + b : pq[i] = IF i <= a THEN p[i] ELSE q[i - a]
      BY <1>5, <1>6, <1>9, <1>10, <1>11, ConcatProperties
    <2>2. \A j \in 1 .. b : a + j \in 1 .. a + b /\ ~ (a + j <= a) /\ a + j - a = j
      OBVIOUS
    <2> QED
      BY <2>1, <2>2
  <1>14. /\ Len(pq \o u) = a + b + c
         /\ \A j \in 1 .. a + b : (pq \o u)[j] = pq[j]
    <2>1. PICK d \in Nat : d = a + b
      OBVIOUS
    <2>2. Len(pq) = d
      BY <1>13, <2>1
    <2>3. /\ Len(pq \o u) = d + c
          /\ \A i \in 1 .. d + c : (pq \o u)[i] = IF i <= d THEN pq[i] ELSE u[i - d]
      <3>1. pq \in Seq(S) /\ u \in Seq(S)
        BY <1>8, <1>9
      <3>2. /\ Len(pq \o u) = Len(pq) + Len(u)
            /\ \A i \in 1 .. Len(pq) + Len(u) : (pq \o u)[i] = IF i <= Len(pq) THEN pq[i]
                                                              ELSE u[i - Len(pq)]
        BY <3>1, ConcatProperties
      <3> QED
        BY <1>12, <2>2, <3>2
    <2>4. \A j \in 1 .. d : j \in 1 .. d + c /\ j <= d
      OBVIOUS
    <2> QED
      BY <2>1, <2>3, <2>4
  <1>15. FlattenSeq(ss) = pq \o u
    BY <1>7, <1>8, <1>9
  <1>16. EndOf(ss, k - 1) = a /\ EndOf(ss, k) = a + b
    BY <1>2, <1>5, <1>7, <1>9, <1>10, <1>13 DEF EndOf
  <1>17. \A j \in 1 .. b : a + j \in 1 .. a + b
    OBVIOUS
  <1>18. a + b <= a + b + c
    OBVIOUS
  <1> QED
    BY <1>6, <1>11, <1>13, <1>14, <1>15, <1>16, <1>17, <1>18

(* From nothing to the whole. *)
LEMMA FlattenEnds ==
  ASSUME NEW S, NEW ss \in Seq(Seq(S))
  PROVE  /\ EndOf(ss, 0) = 0
         /\ EndOf(ss, Len(ss)) = Len(FlattenSeq(ss))
         /\ \A k \in 0 .. Len(ss) : EndOf(ss, k) \in Nat
  <1>1. EndOf(ss, 0) = 0
    BY FirstOfAll, FlattenEmpty, EmptySeq DEF EndOf
  <1>2. EndOf(ss, Len(ss)) = Len(FlattenSeq(ss))
    BY FirstOfAll DEF EndOf
  <1>3. ASSUME NEW k \in 0 .. Len(ss) PROVE EndOf(ss, k) \in Nat
    <2>1. FlattenSeq(FirstOf(ss, k)) \in Seq(S)
      BY FirstOfProperties, FlattenType
    <2> QED
      BY <2>1, LenProperties DEF EndOf
  <1> QED
    BY <1>1, <1>2, <1>3

(* More sequences end no earlier. *)
LEMMA FlattenMonotone ==
  ASSUME NEW S, NEW ss \in Seq(Seq(S)), NEW k \in 0 .. Len(ss), NEW l \in 0 .. Len(ss), k <= l
  PROVE  EndOf(ss, k) <= EndOf(ss, l)
  <1>1. k \in 0 .. l
    BY LenProperties
  <1>2. PICK tt : tt \in Seq(Seq(S)) /\ tt = FirstOf(ss, l)
    BY FirstOfProperties
  <1>3. k \in 0 .. Len(tt) /\ FirstOf(tt, k) = FirstOf(ss, k)
    BY <1>1, <1>2, FirstOfProperties
  <1>4. PICK u : u \in Seq(S) /\ FlattenSeq(tt) = FlattenSeq(FirstOf(tt, k)) \o u
    <2>1. tt \in Seq(Seq(S)) /\ k \in 0 .. Len(tt)
      BY <1>2, <1>3
    <2>2. \E u \in Seq(S) : FlattenSeq(tt) = FlattenSeq(FirstOf(tt, k)) \o u
      BY <2>1, FlattenBegins
    <2> QED
      BY <2>2
  <1>5. PICK p : p \in Seq(S) /\ p = FlattenSeq(FirstOf(tt, k))
    BY <1>2, <1>3, FirstOfProperties, FlattenType
  <1>6. Len(p \o u) = Len(p) + Len(u) /\ Len(p) \in Nat /\ Len(u) \in Nat
    BY <1>4, <1>5, ConcatProperties, LenProperties
  <1>7. Len(p) <= Len(p \o u)
    BY <1>6
  <1>8. EndOf(ss, k) = Len(p) /\ EndOf(ss, l) = Len(p \o u)
    BY <1>2, <1>3, <1>4, <1>5 DEF EndOf
  <1> QED
    BY <1>7, <1>8

(* Each place of the whole is in one of the sequences. *)
LEMMA FlattenHolds ==
  ASSUME NEW S, NEW ss \in Seq(Seq(S)), NEW x \in 1 .. Len(FlattenSeq(ss))
  PROVE  \E k \in 1 .. Len(ss) :
           /\ x - EndOf(ss, k - 1) \in 1 .. Len(ss[k])
           /\ FlattenSeq(ss)[x] = ss[k][x - EndOf(ss, k - 1)]
  <1> DEFINE I == {k \in 0 .. Len(ss) : x <= EndOf(ss, k)}
  <1>1. Len(ss) \in Nat /\ FlattenSeq(ss) \in Seq(S) /\ Len(FlattenSeq(ss)) \in Nat
    BY LenProperties, FlattenType
  <1>2. Len(ss) \in I
    BY <1>1, FlattenEnds
  <1>3. PICK k \in I : \A l \in I : k <= l
    <2>1. I \in SUBSET Nat /\ I # {}
      BY <1>1, <1>2
    <2> HIDE DEF I
    <2> QED
      BY <2>1, LeastNatural
  <1>4. k \in 0 .. Len(ss) /\ x <= EndOf(ss, k) /\ x \in Nat /\ x >= 1
    BY <1>1
  <1>5. k # 0
    BY <1>4, FlattenEnds
  <1>6. k \in 1 .. Len(ss) /\ k - 1 \in 0 .. Len(ss)
    BY <1>1, <1>4, <1>5
  <1>7. ~ (x <= EndOf(ss, k - 1))
    <2>1. k - 1 \notin I
      <3> HIDE DEF I
      <3>1. ~ (k <= k - 1)
        BY <1>6
      <3> QED
        BY <1>3, <3>1
    <2> QED
      BY <1>6, <2>1
  <1>8. PICK a \in Nat : a = EndOf(ss, k - 1)
    BY <1>6, FlattenPlaces
  <1>9. PICK b \in Nat : b = Len(ss[k]) /\ EndOf(ss, k) = a + b
    BY <1>6, <1>8, FlattenPlaces
  <1>10. x - a \in 1 .. b /\ a + (x - a) = x
    BY <1>4, <1>7, <1>8, <1>9
  <1>11. FlattenSeq(ss)[a + (x - a)] = ss[k][x - a]
    BY <1>6, <1>8, <1>9, <1>10, FlattenPlaces
  <1> QED
    BY <1>6, <1>8, <1>9, <1>10, <1>11

=============================================================================
