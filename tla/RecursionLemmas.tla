--------------------------- MODULE RecursionLemmas ---------------------------
(***************************************************************************)
(* Recursive definitions are values CHOOSE picks: a function that is equal *)
(* to its definition, if there is one.  These lemmas give the function for *)
(* a recursion over 0..n and for the folds of SequencesExt, which recur on *)
(* the sets of positions of a sequence; and induction for what such a      *)
(* function returns.  A property is the set of the numbers that have it, a *)
(* step of a recursion a function.                                         *)
(***************************************************************************)
EXTENDS Integers, Sequences, FiniteSetsExt, SequencesExt, WellFoundedInduction, TLAPS

\* Induction over the natural numbers.
LEMMA NatSetInduction ==
  ASSUME NEW S, 0 \in S, \A n \in Nat : n \in S => n + 1 \in S
  PROVE  \A n \in Nat : n \in S
<1> SUFFICES ASSUME NEW k \in Nat, k \notin S PROVE FALSE
  OBVIOUS
<1> DEFINE less == {pair \in Nat \X Nat : pair[1] < pair[2]}
           T == Nat \ S
<1>1. IsWellFoundedOn(less, Nat)
  BY NatLessThanWellFounded DEF OpToRel
<1>2. PICK x \in T : \A y \in T : ~(<<y, x>> \in less)
  <2>1. T \subseteq Nat /\ T # {}
    OBVIOUS
  <2> HIDE DEF less, T
  <2> QED
    BY <1>1, <2>1, WFMin
<1>3. x # 0 /\ x - 1 \in Nat
  BY <1>2
<1>4. x - 1 \in S
  <2>1. <<x - 1, x>> \in less
    BY <1>2, <1>3
  <2> QED
    BY <1>2, <1>3, <2>1
<1>5. (x - 1) + 1 \in S
  BY <1>3, <1>4
<1> QED
  BY <1>2, <1>3, <1>5

\* Of some numbers one is the least.
LEMMA MinOfNumbers ==
  ASSUME NEW S \in SUBSET Nat, S # {}
  PROVE  Min(S) \in S /\ \A i \in S : Min(S) <= i
<1> DEFINE less == {pair \in Nat \X Nat : pair[1] < pair[2]}
<1>1. IsWellFoundedOn(less, Nat)
  BY NatLessThanWellFounded DEF OpToRel
<1>2. PICK x \in S : \A y \in S : ~(<<y, x>> \in less)
  <2> HIDE DEF less
  <2> QED
    BY <1>1, WFMin
<1>3. ASSUME NEW y \in S PROVE x <= y
  <2>1. x \in Nat /\ y \in Nat
    OBVIOUS
  <2>2. y < x => <<y, x>> \in less
    BY <2>1
  <2> HIDE DEF less
  <2>3. ~(y < x)
    BY <1>2, <2>2
  <2> QED
    BY <2>1, <2>3
<1> QED
  BY <1>3 DEF Min

\* Induction up to a number.
LEMMA IntervalInduction ==
  ASSUME NEW n \in Nat, NEW S, 0 \in S, \A k \in 0 .. n - 1 : k \in S => k + 1 \in S
  PROVE  \A k \in 0..n : k \in S
<1> DEFINE T == {k \in Nat : k <= n => k \in S}
<1>1. 0 \in T
  OBVIOUS
<1>2. ASSUME NEW k \in Nat, k \in T PROVE k + 1 \in T
  <2>1. CASE k + 1 <= n
    <3>1. k \in 0 .. n - 1 /\ k \in S
      BY <1>2, <2>1
    <3> QED
      BY <3>1
  <2>2. CASE ~(k + 1 <= n)
    BY <2>2
  <2> QED
    BY <2>1, <2>2
<1>3. \A k \in Nat : k \in T
  <2> HIDE DEF T
  <2> QED
    BY <1>1, <1>2, NatSetInduction
<1> QED
  BY <1>3

\* The steps of a recursion over 1..n with values in S.
Steps(n, S) == [1..n -> [S -> S]]

\* f starts at base and takes a step at each number.
Follows(f, base, step, n) == f[0] = base /\ \A i \in 1..n : f[i] = step[i][f[i - 1]]

LEMMA RecursionExists ==
  ASSUME NEW n \in Nat, NEW S, NEW base \in S, NEW step \in Steps(n, S)
  PROVE  \E f \in [0..n -> S] : Follows(f, base, step, n)
<1> USE DEF Steps
<1> DEFINE Upto(k, f) == f[0] = base /\ \A i \in 1..k : f[i] = step[i][f[i - 1]]
           T == {k \in 0..n : \E f \in [0..k -> S] : Upto(k, f)}
<1>1. 0 \in T
  <2> DEFINE f == [i \in 0..0 |-> base]
  <2>1. 0 \in 0..n /\ f \in [0..0 -> S]
    OBVIOUS
  <2>2. Upto(0, f)
    OBVIOUS
  <2> HIDE DEF f, Upto
  <2> QED
    BY <2>1, <2>2
<1>2. ASSUME NEW k \in 0 .. n - 1, k \in T PROVE k + 1 \in T
  <2>1. PICK f \in [0..k -> S] : Upto(k, f)
    BY <1>2
  <2> DEFINE g == [i \in 0 .. k + 1 |-> IF i <= k THEN f[i] ELSE step[i][f[k]]]
  <2>2. g \in [0 .. k + 1 -> S]
    <3>1. f[k] \in S /\ step[k + 1] \in [S -> S] /\ step[k + 1][f[k]] \in S
      OBVIOUS
    <3>2. ASSUME NEW i \in 0 .. k + 1 PROVE g[i] \in S
      BY <3>1
    <3> QED
      BY <3>2
  <2>3. g[0] = base
    BY <2>1
  <2>4. ASSUME NEW i \in 1 .. k + 1 PROVE g[i] = step[i][g[i - 1]]
    <3>1. CASE i <= k
      BY <2>1, <3>1
    <3>2. CASE i = k + 1
      BY <3>2
    <3> QED
      BY <3>1, <3>2
  <2>5. Upto(k + 1, g)
    BY <2>3, <2>4
  <2> HIDE DEF g, Upto
  <2>6. k + 1 \in 0..n
    OBVIOUS
  <2> QED
    BY <2>2, <2>5, <2>6
<1>3. \A k \in 0..n : k \in T
  <2> HIDE DEF T
  <2> QED
    BY <1>1, <1>2, IntervalInduction
<1>4. n \in 0..n
  OBVIOUS
<1> HIDE DEF Upto
<1>5. \E f \in [0..n -> S] : Upto(n, f)
  BY <1>3, <1>4
<1> QED
  BY <1>5 DEF Upto, Follows

-----------------------------------------------------------------------------
(* Folds: recursion over sets of positions, the greatest position first.   *)

LEMMA MaxOfPositions ==
  ASSUME NEW n \in Nat, NEW s \in SUBSET (1..n), s # {}
  PROVE  Max(s) \in s /\ \A i \in s : Max(s) >= i
<1> DEFINE T == {k \in 0..n : \A r \in SUBSET (1..k) :
                   r # {} => \E x \in r : \A y \in r : x >= y}
<1>1. 0 \in T
  <2>1. 0 \in 0..n /\ 1..0 = {}
    OBVIOUS
  <2> QED
    BY <2>1
<1>2. ASSUME NEW k \in 0 .. n - 1, k \in T PROVE k + 1 \in T
  <2> SUFFICES ASSUME NEW r \in SUBSET (1 .. k + 1), r # {}
               PROVE  \E x \in r : \A y \in r : x >= y
    OBVIOUS
  <2>1. CASE k + 1 \in r
    BY <2>1
  <2>2. CASE k + 1 \notin r
    <3>1. r \in SUBSET (1..k)
      BY <2>2
    <3> QED
      BY <1>2, <3>1
  <2> QED
    BY <2>1, <2>2
<1>3. \A k \in 0..n : k \in T
  <2> HIDE DEF T
  <2> QED
    BY <1>1, <1>2, IntervalInduction
<1>4. \E x \in s : \A y \in s : x >= y
  BY <1>3
<1> QED
  BY <1>4 DEF Max

LEMMA RestIsBelow ==
  ASSUME NEW n \in Nat, NEW s \in SUBSET (1..n), s # {}
  PROVE  Max(s) \in 1..n /\ s \ {Max(s)} \in SUBSET (1 .. n - 1)
<1> DEFINE m == Max(s)
<1>1. m \in s /\ \A i \in s : m >= i
  BY MaxOfPositions
<1>2. m \in 1..n
  BY <1>1
<1> HIDE DEF m
<1>3. ASSUME NEW i \in s \ {m} PROVE i \in 1 .. n - 1
  <2>1. i \in 1..n /\ m >= i /\ i # m
    BY <1>1
  <2> QED
    BY <1>2, <2>1
<1> QED
  BY <1>2, <1>3 DEF m

LEMMA MaxOfInterval ==
  ASSUME NEW n \in Nat, n > 0
  PROVE  Max(1..n) = n /\ (1..n) \ {Max(1..n)} = 1 .. n - 1
<1>1. Max(1..n) \in 1..n /\ \A i \in 1..n : Max(1..n) >= i
  <2>1. 1..n \in SUBSET (1..n) /\ 1..n # {}
    OBVIOUS
  <2> QED
    BY <2>1, MaxOfPositions
<1>2. Max(1..n) = n
  BY <1>1
<1> QED
  BY <1>2

\* iter is the fold of MapThenFoldSet that takes the greatest position first.
Folds(iter, base, step, n) ==
  \A s \in SUBSET (1..n) :
    iter[s] = IF s = {} THEN base ELSE step[Max(s)][iter[s \ {Max(s)}]]

LEMMA FoldExists ==
  ASSUME NEW n \in Nat, NEW S, NEW base \in S, NEW step \in Steps(n, S)
  PROVE  \E iter \in [SUBSET (1..n) -> S] : Folds(iter, base, step, n)
<1> step \in [1..n -> [S -> S]]
  BY DEF Steps
<1> DEFINE D == SUBSET (1..n)
           F == [D -> S]
           Next1(h) == [s \in D |-> IF s = {} THEN base ELSE step[Max(s)][h[s \ {Max(s)}]]]
           start == [s \in D |-> base]
           steps == [i \in 1..n |-> [h \in F |-> Next1(h)]]
<1>1. ASSUME NEW s \in D, s # {} PROVE Max(s) \in 1..n /\ s \ {Max(s)} \in D
  BY <1>1, RestIsBelow
<1>2. \A h \in F : Next1(h) \in F
  <2> SUFFICES ASSUME NEW h \in F, NEW s \in D
               PROVE  (IF s = {} THEN base ELSE step[Max(s)][h[s \ {Max(s)}]]) \in S
    OBVIOUS
  <2>1. CASE s = {}
    BY <2>1
  <2>2. CASE s # {}
    <3>1. Max(s) \in 1..n /\ s \ {Max(s)} \in D
      BY <1>1, <2>2
    <3>2. step[Max(s)] \in [S -> S] /\ h[s \ {Max(s)}] \in S
      BY <3>1
    <3> QED
      BY <2>2, <3>2
  <2> QED
    BY <2>1, <2>2
<1>3. start \in F
  OBVIOUS
<1>4. steps \in Steps(n, F)
  <2> HIDE DEF F, Next1
  <2> QED
    BY <1>2 DEF Steps
<1>5. PICK h \in [0..n -> F] : h[0] = start /\ \A i \in 1..n : h[i] = steps[i][h[i - 1]]
  <2> HIDE DEF D, F, Next1, start, steps
  <2>1. \E h \in [0..n -> F] : Follows(h, start, steps, n)
    BY <1>3, <1>4, RecursionExists
  <2> QED
    BY <2>1 DEF Follows
<1>6. ASSUME NEW i \in 1..n
      PROVE  h[i] = Next1(h[i - 1])
  <2>1. i - 1 \in 0..n
    OBVIOUS
  <2> HIDE DEF D, F, Next1
  <2>2. h[i - 1] \in F /\ h[i] = steps[i][h[i - 1]]
    BY <1>5, <2>1
  <2> QED
    BY <2>2
<1>7. ASSUME NEW i \in 1..n, NEW s \in D
      PROVE  h[i][s] = IF s = {} THEN base ELSE step[Max(s)][h[i - 1][s \ {Max(s)}]]
  <2>1. h[i] = Next1(h[i - 1])
    BY <1>6
  <2> QED
    BY <2>1
<1>8. h[0] = [s \in D |-> base]
  BY <1>5
<1> HIDE DEF Next1, start, steps
\* After k steps the value at the sets below k is final.
<1> DEFINE T == {k \in 0..n : \A j \in k..n, s \in SUBSET (1..k) : h[j][s] = h[k][s]}
<1>9. 0 \in T
  <2>1. {} \in D /\ 0 \in 0..n /\ SUBSET (1..0) = {{}}
    OBVIOUS
  <2>2. ASSUME NEW j \in 0..n PROVE h[j][{}] = h[0][{}]
    <3>1. CASE j = 0
      BY <3>1
    <3>2. CASE j \in 1..n
      BY <1>7, <1>8, <2>1, <3>2
    <3> QED
      BY <3>1, <3>2
  <2> QED
    BY <2>1, <2>2
<1>10. ASSUME NEW k \in 0 .. n - 1, k \in T PROVE k + 1 \in T
  <2> SUFFICES ASSUME NEW j \in k + 1 .. n, NEW s \in SUBSET (1 .. k + 1)
               PROVE  h[j][s] = h[k + 1][s]
    OBVIOUS
  <2>1. s \in D /\ j \in 1..n /\ k + 1 \in 1..n
    OBVIOUS
  <2>2. CASE s = {}
    BY <1>7, <2>1, <2>2
  <2>3. CASE s # {}
    <3> DEFINE rest == s \ {Max(s)}
    <3>1. rest \in SUBSET (1..k)
      <4>1. k + 1 \in Nat /\ (k + 1) - 1 = k
        OBVIOUS
      <4> QED
        BY <2>3, <4>1, RestIsBelow
    <3>2. h[j - 1][rest] = h[k][rest]
      <4>1. j - 1 \in k..n
        OBVIOUS
      <4> QED
        BY <1>10, <3>1, <4>1
    <3>3. h[j][s] = step[Max(s)][h[j - 1][rest]]
      BY <1>7, <2>1, <2>3
    <3>4. h[k + 1][s] = step[Max(s)][h[k][rest]]
      <4>1. h[k + 1][s] = step[Max(s)][h[(k + 1) - 1][rest]]
        BY <1>7, <2>1, <2>3
      <4>2. (k + 1) - 1 = k
        OBVIOUS
      <4> QED
        BY <4>1, <4>2
    <3> QED
      BY <3>2, <3>3, <3>4
  <2> QED
    BY <2>2, <2>3
<1>11. \A k \in 0..n : k \in T
  <2> HIDE DEF T
  <2> QED
    BY <1>9, <1>10, IntervalInduction
<1>12. ASSUME NEW s \in D
       PROVE  h[n][s] = IF s = {} THEN base ELSE step[Max(s)][h[n][s \ {Max(s)}]]
  <2>1. CASE n = 0
    <3>1. s = {}
      BY <2>1
    <3> QED
      BY <1>8, <2>1, <3>1
  <2>2. CASE n > 0 /\ s = {}
    <3>1. n \in 1..n
      BY <2>2
    <3> QED
      BY <1>7, <2>2, <3>1
  <2>3. CASE n > 0 /\ s # {}
    <3> DEFINE rest == s \ {Max(s)}
    <3>1. rest \in SUBSET (1 .. n - 1)
      BY <2>3, RestIsBelow
    <3>2. n - 1 \in T /\ n \in n - 1 .. n
      BY <1>11, <2>3
    <3>3. h[n - 1][rest] = h[n][rest]
      BY <3>1, <3>2
    <3>4. n \in 1..n
      BY <2>3
    <3> QED
      BY <1>7, <2>3, <3>3, <3>4
  <2> QED
    BY <2>1, <2>2, <2>3
<1>13. h[n] \in [SUBSET (1..n) -> S]
  <2>1. n \in 0..n
    OBVIOUS
  <2> HIDE DEF F
  <2>2. h[n] \in F
    BY <2>1
  <2> QED
    BY <2>2 DEF F
<1>14. Folds(h[n], base, step, n)
  BY <1>12 DEF Folds
<1> QED
  BY <1>13, <1>14

-----------------------------------------------------------------------------
(* Sequences.                                                              *)

LEMMA PrefixGrows ==
  ASSUME NEW A, NEW t \in Seq(A), NEW k \in 0 .. Len(t) - 1
  PROVE  /\ SubSeq(t, 1, k) \in Seq(A) /\ t[k + 1] \in A
         /\ SubSeq(t, 1, k + 1) = Append(SubSeq(t, 1, k), t[k + 1])
OBVIOUS

\* Induction over sequences: a sequence is its prefix and one more element.
LEMMA SeqSetInduction ==
  ASSUME NEW A, NEW S, <<>> \in S,
         \A t \in Seq(A), c \in A : t \in S => Append(t, c) \in S
  PROVE  \A t \in Seq(A) : t \in S
<1> SUFFICES ASSUME NEW t \in Seq(A) PROVE t \in S
  OBVIOUS
<1> DEFINE n == Len(t)
           T == {k \in 0..n : SubSeq(t, 1, k) \in S}
<1>1. n \in Nat
  OBVIOUS
<1>2. 0 \in T
  <2>1. SubSeq(t, 1, 0) = <<>>
    OBVIOUS
  <2>2. SubSeq(t, 1, 0) \in S
    BY <2>1, Zenon
  <2>3. 0 \in 0..n
    BY <1>1
  <2> QED
    BY <2>2, <2>3, Zenon
<1>3. ASSUME NEW k \in 0 .. n - 1, k \in T PROVE k + 1 \in T
  <2>1. /\ SubSeq(t, 1, k) \in Seq(A) /\ t[k + 1] \in A
        /\ SubSeq(t, 1, k + 1) = Append(SubSeq(t, 1, k), t[k + 1])
    BY PrefixGrows
  <2>2. SubSeq(t, 1, k + 1) \in S
    BY <1>3, <2>1
  <2>3. k + 1 \in 0..n
    BY <1>1
  <2> QED
    BY <2>2, <2>3
<1>4. \A k \in 0..n : k \in T
  <2> HIDE DEF n, T
  <2> QED
    BY <1>1, <1>2, <1>3, IntervalInduction
<1>5. SubSeq(t, 1, n) = t /\ n \in 0..n
  OBVIOUS
<1> QED
  BY <1>4, <1>5

\* FlattenSeq puts the blocks one behind the other.
LEMMA FlattenRecursion ==
  ASSUME NEW A, NEW blocks \in Seq(Seq(A)), Len(blocks) > 0
  PROVE  LET n == Len(blocks)
         IN  \E f \in [0..n -> Seq(A)] :
               /\ f[0] = <<>> /\ \A i \in 1..n : f[i] = f[i - 1] \o blocks[i]
               /\ FlattenSeq(blocks) = f[n]
<1> DEFINE n == Len(blocks)
           step == [i \in 1..n |-> [x \in Seq(A) |-> x \o blocks[i]]]
           Flattens(g) == g = [i \in 1..n |-> IF i = 1 THEN blocks[i] ELSE g[i - 1] \o blocks[i]]
           flat == CHOOSE g : Flattens(g)
<1>1. n \in Nat /\ n > 0 /\ \A i \in 1..n : blocks[i] \in Seq(A)
  OBVIOUS
<1>2. FlattenSeq(blocks) = flat[n]
  <2>1. n # 0
    BY <1>1
  <2> QED
    BY <2>1, Zenon DEF FlattenSeq
<1>3. step \in Steps(n, Seq(A))
  BY <1>1 DEF Steps
<1>4. PICK f \in [0..n -> Seq(A)] : Follows(f, <<>>, step, n)
  <2>1. <<>> \in Seq(A)
    OBVIOUS
  <2> HIDE DEF n, step
  <2> QED
    BY <1>1, <1>3, <2>1, RecursionExists
<1>5. f[0] = <<>> /\ \A i \in 1..n : f[i] = f[i - 1] \o blocks[i]
  <2>1. ASSUME NEW i \in 1..n PROVE f[i] = f[i - 1] \o blocks[i]
    <3>1. i - 1 \in 0..n
      BY <1>1
    <3> HIDE DEF step, n
    <3>2. f[i] = step[i][f[i - 1]] /\ f[i - 1] \in Seq(A)
      BY <1>4, <3>1 DEF Follows
    <3> QED
      BY <3>2 DEF step
  <2> QED
    BY <1>4, <2>1 DEF Follows
<1>6. Flattens([i \in 1..n |-> f[i]])
  <2> DEFINE g == [i \in 1..n |-> f[i]]
  <2>1. ASSUME NEW i \in 1..n
        PROVE  f[i] = IF i = 1 THEN blocks[i] ELSE g[i - 1] \o blocks[i]
    <3>1. CASE i = 1
      <4>1. f[1] = <<>> \o blocks[1]
        <5>1. f[1] = f[1 - 1] \o blocks[1]
          BY <1>5, <3>1
        <5>2. 1 - 1 = 0
          OBVIOUS
        <5> QED
          BY <1>5, <5>1, <5>2
      <4>2. blocks[1] \in Seq(A)
        BY <1>1, <3>1
      <4> QED
        BY <3>1, <4>1, <4>2
    <3>2. CASE i # 1
      <4>1. i - 1 \in 1..n
        BY <1>1, <3>2
      <4> QED
        BY <1>5, <3>2, <4>1
    <3> QED
      BY <3>1, <3>2
  <2> HIDE DEF n
  <2> QED
    BY <2>1
<1>7. Flattens(flat)
  <2> HIDE DEF Flattens
  <2> QED
    BY <1>6
<1> DEFINE T == {k \in 0..n : k = 0 \/ flat[k] = f[k]}
<1>8. 0 \in T
  BY <1>1
<1> HIDE DEF flat, n
<1>9. ASSUME NEW k \in 0 .. n - 1, k \in T PROVE k + 1 \in T
  <2>1. k + 1 \in 1..n /\ k + 1 \in 0..n /\ (k + 1) - 1 = k
    BY <1>1
  <2>2. flat[k + 1] = IF k + 1 = 1 THEN blocks[k + 1] ELSE flat[(k + 1) - 1] \o blocks[k + 1]
    BY <1>7, <2>1
  <2>3. f[k + 1] = f[k] \o blocks[k + 1]
    <3>1. f[k + 1] = f[(k + 1) - 1] \o blocks[k + 1]
      BY <1>5, <2>1
    <3> QED
      BY <2>1, <3>1
  <2>4. flat[k + 1] = f[k + 1]
    <3>1. CASE k = 0
      <4>1. f[k + 1] = <<>> \o blocks[k + 1]
        BY <1>5, <2>3, <3>1
      <4>2. blocks[k + 1] \in Seq(A) /\ k + 1 = 1
        BY <1>1, <2>1, <3>1
      <4> QED
        BY <2>2, <4>1, <4>2
    <3>2. CASE k # 0
      <4>1. flat[k + 1] = flat[(k + 1) - 1] \o blocks[k + 1]
        <5>1. k + 1 # 1
          BY <1>1, <3>2
        <5> QED
          BY <2>2, <5>1
      <4>2. flat[(k + 1) - 1] = f[k]
        BY <1>9, <2>1, <3>2
      <4> QED
        BY <2>3, <4>1, <4>2
    <3> QED
      BY <3>1, <3>2
  <2> QED
    BY <2>1, <2>4
<1>10. flat[n] = f[n]
  <2> HIDE DEF T
  <2>1. \A k \in 0..n : k \in T
    BY <1>1, <1>8, <1>9, IntervalInduction
  <2>2. n \in T /\ n # 0
    BY <1>1, <2>1
  <2> QED
    BY <2>2 DEF T
<1> QED
  BY <1>2, <1>5, <1>10 DEF n

LEMMA FlattenAppend ==
  ASSUME NEW A, NEW blocks \in Seq(Seq(A)), NEW block \in Seq(A)
  PROVE  /\ FlattenSeq(blocks) \in Seq(A)
         /\ FlattenSeq(Append(blocks, block)) = FlattenSeq(blocks) \o block
<1> DEFINE n == Len(blocks)
           more == Append(blocks, block)
<1>1. /\ n \in Nat /\ more \in Seq(Seq(A)) /\ Len(more) = n + 1 /\ n + 1 > 0
      /\ more[n + 1] = block /\ \A i \in 1..n : more[i] = blocks[i]
  OBVIOUS
<1>2. PICK g \in [0 .. n + 1 -> Seq(A)] :
        /\ g[0] = <<>> /\ \A i \in 1 .. n + 1 : g[i] = g[i - 1] \o more[i]
        /\ FlattenSeq(more) = g[n + 1]
  <2> HIDE DEF more, n
  <2>1. LET m == Len(more)
        IN  \E f \in [0..m -> Seq(A)] :
              /\ f[0] = <<>> /\ \A i \in 1..m : f[i] = f[i - 1] \o more[i]
              /\ FlattenSeq(more) = f[m]
    BY <1>1, FlattenRecursion
  <2> QED
    BY <1>1, <2>1
<1>3. g[n + 1] = g[n] \o block
  <2>1. n + 1 \in 1 .. n + 1 /\ (n + 1) - 1 = n
    BY <1>1
  <2>2. g[n + 1] = g[(n + 1) - 1] \o more[n + 1]
    BY <1>2, <2>1
  <2> QED
    BY <1>1, <2>1, <2>2
<1>4. CASE n = 0
  <2>1. blocks = <<>> /\ FlattenSeq(blocks) = <<>>
    BY <1>4 DEF FlattenSeq
  <2>2. g[n] = <<>>
    BY <1>2, <1>4
  <2> QED
    BY <1>2, <1>3, <2>1, <2>2
<1>5. CASE n # 0
  <2>1. n > 0
    BY <1>1, <1>5
  <2>2. PICK f \in [0..n -> Seq(A)] :
          /\ f[0] = <<>> /\ \A i \in 1..n : f[i] = f[i - 1] \o blocks[i]
          /\ FlattenSeq(blocks) = f[n]
    BY <2>1, FlattenRecursion
  <2> HIDE DEF more, n
  <2> DEFINE T == {k \in 0..n : g[k] = f[k]}
  <2>3. 0 \in T
    BY <1>1, <1>2, <2>2
  <2>4. ASSUME NEW k \in 0 .. n - 1, k \in T PROVE k + 1 \in T
    <3>1. k + 1 \in 1..n /\ k + 1 \in 1 .. n + 1 /\ k + 1 \in 0..n /\ (k + 1) - 1 = k
      BY <1>1
    <3>2. g[k + 1] = g[(k + 1) - 1] \o more[k + 1]
      BY <1>2, <3>1
    <3>3. f[k + 1] = f[(k + 1) - 1] \o blocks[k + 1]
      BY <2>2, <3>1
    <3>4. more[k + 1] = blocks[k + 1]
      BY <1>1, <3>1
    <3> QED
      BY <2>4, <3>1, <3>2, <3>3, <3>4
  <2>5. g[n] = f[n] /\ f[n] \in Seq(A)
    <3> HIDE DEF T
    <3>1. \A k \in 0..n : k \in T
      BY <1>1, <2>3, <2>4, IntervalInduction
    <3>2. n \in T /\ n \in 0..n
      BY <1>1, <3>1
    <3> QED
      BY <3>2 DEF T
  <2> QED
    BY <1>2, <1>3, <2>2, <2>5 DEF more
<1> QED
  BY <1>4, <1>5
=============================================================================
