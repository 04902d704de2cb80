---------------------------- MODULE TextsProofs -----------------------------
(***************************************************************************)
(* The pure functions of Prompts.tla, Synthesis.tla and RationaleCard.tla  *)
(* do for every input what their properties say; that they do it for the   *)
(* inputs of MCTexts.tla follows.                                          *)
(*                                                                         *)
(* Three of them are folds over a sequence.  A fold is a function on the   *)
(* sets of indexes, chosen by its equation: the first lemmas show that the *)
(* equation has a solution, and that along 1..0, 1..1, 1..2 and so on it   *)
(* takes the values a loop would.  Induction is over sets of numbers, and  *)
(* the step of a loop is a function, so that no lemma has an operator as   *)
(* its parameter.                                                          *)
(***************************************************************************)
EXTENDS MCTexts, SequenceTheorems, FiniteSetTheorems, TLAPS

-----------------------------------------------------------------------------
(***************************************************************************)
(* Induction.                                                              *)
(***************************************************************************)
\* Induction over the natural numbers, for a set instead of a predicate.
LEMMA NatSetInduction ==
    ASSUME NEW S, 0 \in S, \A n \in Nat : n \in S => n+1 \in S
    PROVE  Nat \subseteq S
<1> DEFINE R == OpToRel(<, Nat)
           T == Nat \ S
<1>1. ASSUME T # {} PROVE FALSE
  <2>1. IsWellFoundedOn(R, Nat)
    BY NatLessThanWellFounded
  <2>2. T \subseteq Nat
    OBVIOUS
  <2>3. PICK n \in T : \A m \in T : <<m, n>> \notin R
    <3> HIDE DEF R, T
    <3> QED BY <1>1, <2>1, <2>2, WFMin
  <2>4. n \in Nat \ {0} /\ n - 1 \in Nat
    OBVIOUS
  <2>5. n - 1 \notin S
    BY <2>4
  <2>6. <<n - 1, n>> \in R
    BY <2>4 DEF OpToRel
  <2> QED BY <2>3, <2>4, <2>5, <2>6
<1> QED BY <1>1

\* The same up to a bound: for the rounds of a loop.
LEMMA UpTo ==
    ASSUME NEW N \in Nat, NEW S, 0 \in S, \A n \in 1..N : n-1 \in S => n \in S
    PROVE  0..N \subseteq S
<1> DEFINE T == {n \in Nat : n <= N => n \in S}
<1>1. 0 \in T
  OBVIOUS
<1>2. \A n \in Nat : n \in T => n+1 \in T
  <2> SUFFICES ASSUME NEW n \in Nat, n \in T, n+1 <= N PROVE n+1 \in S
    OBVIOUS
  <2> (n+1) - 1 \in S /\ n+1 \in 1..N
    OBVIOUS
  <2> QED OBVIOUS
<1>3. Nat \subseteq T
  <2> HIDE DEF T
  <2> QED BY <1>1, <1>2, NatSetInduction
<1> QED BY <1>3

-----------------------------------------------------------------------------
(***************************************************************************)
(* Folds.                                                                  *)
(***************************************************************************)
\* Max of a set of integers is the member that none exceeds.
LEMMA LargestIsMax ==
    ASSUME NEW S \in SUBSET Int, NEW m \in S, \A k \in S : k <= m
    PROVE  Max(S) = m
<1>1. \A y \in S : m >= y
  OBVIOUS
<1>2. \A x \in S : (\A y \in S : x >= y) => x = m
  OBVIOUS
<1> QED BY <1>1, <1>2, Zenon DEF Max

\* The equation of a fold over 1..N that takes the largest index last.
IsFold(g, N, base, step) ==
    g = [s \in SUBSET (1..N) |->
           IF s = {} THEN base ELSE step[Max(s)][g[s \ {Max(s)}]]]

\* The values of the loop over 1..N: after[n] is the one after n rounds.
Trail(after, N, base, step) ==
    /\ after[0] = base
    /\ \A n \in 1..N : after[n] = step[n][after[n-1]]

\* iter is the fold on the sets 1..n, as long as its values are in V.
FoldsWithin(iter, N, V, base, step) ==
    /\ iter[{}] = base
    /\ \A n \in 1..N : iter[1..n-1] \in V => iter[1..n] = step[n][iter[1..n-1]]

\* If every round maps V to V, the equation of the fold has a solution; it is
\* built from the one for N-1 rounds.
LEMMA FoldExists ==
    ASSUME NEW V, NEW base \in V, NEW N \in Nat, NEW step \in [1..N -> [V -> V]]
    PROVE  \E g \in [SUBSET (1..N) -> V] : IsFold(g, N, base, step)
<1> DEFINE Folds(n, g) ==
             g = [s \in SUBSET (1..n) |->
                    IF s = {} THEN base ELSE step[Max(s)][g[s \ {Max(s)}]]]
           Folded(n) == \E g \in [SUBSET (1..n) -> V] : Folds(n, g)
           S == {n \in 0..N : Folded(n)}
<1>1. 0 \in S
  <2> DEFINE h == [s \in SUBSET (1..0) |-> base]
  <2>1. 1..0 = {}
    OBVIOUS
  <2>2. h \in [SUBSET (1..0) -> V] /\ Folds(0, h)
    BY <2>1
  <2>3. Folded(0)
    <3> HIDE DEF h, Folds
    <3> QED BY <2>2
  <2> HIDE DEF Folded
  <2> QED BY <2>3
<1>2. ASSUME NEW n \in 1..N, n-1 \in S PROVE n \in S
  <2>1. PICK g \in [SUBSET (1..n-1) -> V] : Folds(n-1, g)
    BY <1>2
  <2> DEFINE h == [s \in SUBSET (1..n) |->
                     IF n \in s THEN step[n][g[s \ {n}]] ELSE g[s]]
  <2>2. ASSUME NEW s \in SUBSET (1..n), n \in s
        PROVE  Max(s) = n /\ s \ {n} \in SUBSET (1..n-1)
    BY <2>2, LargestIsMax
  <2>3. ASSUME NEW s \in SUBSET (1..n), n \notin s
        PROVE  s \in SUBSET (1..n-1)
    BY <2>3
  <2>4. step[n] \in [V -> V]
    OBVIOUS
  <2>5. h \in [SUBSET (1..n) -> V]
    <3> SUFFICES ASSUME NEW s \in SUBSET (1..n)
                 PROVE  (IF n \in s THEN step[n][g[s \ {n}]] ELSE g[s]) \in V
      OBVIOUS
    <3>1. CASE n \in s
      BY <3>1, <2>2, <2>4
    <3>2. CASE n \notin s
      BY <3>2, <2>3
    <3> QED BY <3>1, <3>2
  <2>6. ASSUME NEW s \in SUBSET (1..n)
        PROVE  h[s] = IF s = {} THEN base ELSE step[Max(s)][h[s \ {Max(s)}]]
    <3>1. CASE n \in s
      <4>1. s \ {n} \in SUBSET (1..n) /\ n \notin s \ {n}
        OBVIOUS
      <4>2. h[s \ {n}] = g[s \ {n}]
        BY <4>1
      <4>3. h[s] = step[n][g[s \ {n}]]
        BY <3>1
      <4> HIDE DEF h
      <4> QED BY <3>1, <2>2, <4>2, <4>3
    <3>2. CASE n \notin s /\ s # {}
      <4>1. s \in SUBSET (1..n-1)
        BY <3>2, <2>3
      <4>2. g[s] = step[Max(s)][g[s \ {Max(s)}]]
        BY <2>1, <4>1, <3>2
      <4>3. s \ {Max(s)} \in SUBSET (1..n) /\ n \notin s \ {Max(s)}
        BY <3>2
      <4>4. h[s] = g[s] /\ h[s \ {Max(s)}] = g[s \ {Max(s)}]
        BY <4>3, <3>2
      <4> HIDE DEF h
      <4> QED BY <3>2, <4>2, <4>4
    <3>3. CASE s = {}
      <4>1. h[s] = g[s] /\ s \in SUBSET (1..n-1)
        BY <3>3
      <4> HIDE DEF h
      <4> QED BY <3>3, <2>1, <4>1
    <3> QED BY <3>1, <3>2, <3>3
  <2>7. Folds(n, h)
    <3> DEFINE e == [s \in SUBSET (1..n) |->
                       IF s = {} THEN base ELSE step[Max(s)][h[s \ {Max(s)}]]]
    <3>1. \A s \in SUBSET (1..n) : h[s] = e[s]
      <4> HIDE DEF h
      <4> QED BY <2>6
    <3>2. h = [s \in SUBSET (1..n) |-> h[s]] /\ e = [s \in SUBSET (1..n) |-> e[s]]
      OBVIOUS
    <3>3. h = e
      <4> HIDE DEF h, e
      <4> QED BY <3>1, <3>2
    <3> HIDE DEF h
    <3> QED BY <3>3
  <2>8. Folded(n)
    <3> HIDE DEF h, Folds
    <3> QED BY <2>5, <2>7
  <2> HIDE DEF Folded
  <2> QED BY <2>8
<1> HIDE DEF S
<1>3. 0..N \subseteq S
  BY <1>1, <1>2, UpTo
<1>4. Folded(N)
  <2> HIDE DEF Folded
  <2> QED BY <1>3 DEF S
<1> QED BY <1>4 DEF IsFold

\* What the fold takes last: a member of the set, and of 1..n the number n.
LEMMA MaxOfInterval ==
    ASSUME NEW N \in Nat
    PROVE  /\ \A s \in SUBSET (1..N) : s # {} => Max(s) \in s
           /\ \A n \in 1..N : Max(1..n) = n /\ (1..n) \ {n} = 1..n-1
<1> DEFINE HasMax(s) == \E m \in s : \A k \in s : k <= m
           S == {n \in Nat : \A s \in SUBSET (1..n) : s # {} => HasMax(s)}
<1>1. 0 \in S
  <2> 1..0 = {}
    OBVIOUS
  <2> \A s \in SUBSET (1..0) : s = {}
    OBVIOUS
  <2> HIDE DEF HasMax
  <2> QED OBVIOUS
<1>2. ASSUME NEW n \in 1..N, n-1 \in S PROVE n \in S
  <2> SUFFICES ASSUME NEW s \in SUBSET (1..n), s # {} PROVE HasMax(s)
    OBVIOUS
  <2>1. CASE n \in s
    BY <2>1
  <2>2. CASE n \notin s
    <3> s \in SUBSET (1..n-1)
      BY <2>2
    <3> HIDE DEF HasMax
    <3> QED BY <1>2
  <2> QED BY <2>1, <2>2
<1>3. N \in S
  <2> HIDE DEF S
  <2> 0..N \subseteq S
    BY <1>1, <1>2, UpTo
  <2> QED OBVIOUS
<1>4. ASSUME NEW s \in SUBSET (1..N), s # {} PROVE Max(s) \in s
  <2>1. PICK m \in s : \A k \in s : k <= m
    BY <1>3, <1>4
  <2> QED BY <2>1, LargestIsMax
<1>5. ASSUME NEW n \in 1..N PROVE Max(1..n) = n /\ (1..n) \ {n} = 1..n-1
  <2>1. 1..n \in SUBSET Int /\ n \in 1..n /\ \A k \in 1..n : k <= n
    OBVIOUS
  <2>2. Max(1..n) = n
    BY <2>1, LargestIsMax
  <2> QED BY <2>2
<1> QED BY <1>4, <1>5

\* A fold over 1..N is what a loop of N rounds arrives at.
LEMMA FoldPrefixes ==
    ASSUME NEW N \in Nat, NEW V, NEW base \in V, NEW step \in [1..N -> [V -> V]],
           NEW iter, FoldsWithin(iter, N, V, base, step)
    PROVE  \E after \in [0..N -> V] :
             Trail(after, N, base, step) /\ after[N] = iter[1..N]
<1> DEFINE S == {n \in Nat : iter[1..n] \in V}
           after == [n \in 0..N |-> iter[1..n]]
<1>1. 1..0 = {}
  OBVIOUS
<1>2. 0 \in S
  BY <1>1 DEF FoldsWithin
<1>3. ASSUME NEW n \in 1..N, n-1 \in S PROVE n \in S
  <2> step[n] \in [V -> V] /\ n \in Nat
    OBVIOUS
  <2> QED BY <1>3 DEF FoldsWithin
<1>4. 0..N \subseteq S
  <2> HIDE DEF S
  <2> QED BY <1>2, <1>3, UpTo
<1>5. \A n \in 0..N : after[n] = iter[1..n] /\ after[n] \in V
  BY <1>4
<1>6. after \in [0..N -> V]
  BY <1>5
<1>7. after[0] = base /\ after[N] = iter[1..N]
  BY <1>1, <1>5 DEF FoldsWithin
<1>8. ASSUME NEW n \in 1..N PROVE after[n] = step[n][after[n-1]]
  <2> n \in 0..N /\ n-1 \in 0..N
    OBVIOUS
  <2> HIDE DEF after
  <2> QED BY <1>5 DEF FoldsWithin
<1> HIDE DEF after
<1> QED BY <1>6, <1>7, <1>8 DEF Trail

-----------------------------------------------------------------------------
(***************************************************************************)
(* Lengths of lines.                                                       *)
(***************************************************************************)
\* The sum that LineLen is made of, number by number.
LEMMA SumOf ==
    ASSUME NEW s \in Seq(Nat)
    PROVE  \E sum \in [0..Len(s) -> Nat] :
             /\ sum[0] = 0
             /\ \A k \in 1..Len(s) : sum[k] = sum[k-1] + s[k]
             /\ sum[Len(s)] = FoldLeft(+, 0, s)
<1> DEFINE N == Len(s)
           D == SUBSET (1..N)
           Eq(g) == g = [u \in D |->
                           IF u = {} THEN 0 ELSE g[u \ {Max(u)}] + s[Max(u)]]
           iter == CHOOSE g : Eq(g)
           step == [i \in 1..N |-> [v \in Nat |-> v + s[i]]]
<1>1. N \in Nat /\ DOMAIN s = 1..N
  OBVIOUS
<1>2. step \in [1..N -> [Nat -> Nat]]
  OBVIOUS
<1>3. PICK g \in [D -> Nat] : IsFold(g, N, 0, step)
  <2> HIDE DEF step, N
  <2> QED BY <1>1, <1>2, 0 \in Nat, FoldExists
<1>4. ASSUME NEW u \in D, u # {}
      PROVE  step[Max(u)][g[u \ {Max(u)}]] = g[u \ {Max(u)}] + s[Max(u)]
  <2>1. Max(u) \in 1..N /\ u \ {Max(u)} \in D
    BY <1>1, <1>4, MaxOfInterval
  <2>2. g[u \ {Max(u)}] \in Nat
    BY <2>1
  <2> QED BY <2>1, <2>2
<1>5. Eq(g)
  <2> HIDE DEF step
  <2> QED BY <1>3, <1>4 DEF IsFold
<1>6. Eq(iter)
  BY <1>5, Zenon
<1>7. FoldLeft(+, 0, s) = iter[1..N]
  BY <1>1, Zenon DEF FoldLeft, MapThenFoldSet
<1>8. iter[{}] = 0
  <2> HIDE DEF iter
  <2> QED BY <1>6
<1>9. ASSUME NEW n \in 1..N, iter[1..n-1] \in Nat
      PROVE  iter[1..n] = step[n][iter[1..n-1]]
  <2>1. Max(1..n) = n /\ (1..n) \ {n} = 1..n-1 /\ 1..n # {} /\ 1..n \in D
    BY <1>1, MaxOfInterval
  <2>2. iter[1..n] = iter[1..n-1] + s[n]
    <3> HIDE DEF iter, D
    <3> QED BY <1>6, <2>1
  <2> HIDE DEF iter
  <2> QED BY <1>9, <2>2
<1>10. PICK sum \in [0..N -> Nat] : Trail(sum, N, 0, step) /\ sum[N] = iter[1..N]
  <2> DEFINE V == Nat
             base == 0
  <2>1. FoldsWithin(iter, N, V, base, step)
    <3> HIDE DEF iter, step, N
    <3> QED BY <1>8, <1>9 DEF FoldsWithin
  <2>2. N \in Nat /\ base \in V /\ step \in [1..N -> [V -> V]]
    BY <1>1, <1>2
  <2>3. \E sum \in [0..N -> V] : Trail(sum, N, base, step) /\ sum[N] = iter[1..N]
    <3> HIDE DEF iter, step, N, V, base
    <3> QED BY <2>1, <2>2, FoldPrefixes
  <2> QED BY <2>3
<1>11. ASSUME NEW n \in 1..N PROVE sum[n] = sum[n-1] + s[n]
  <2> n-1 \in 0..N
    OBVIOUS
  <2> sum[n-1] \in Nat
    OBVIOUS
  <2> step[n][sum[n-1]] = sum[n-1] + s[n]
    OBVIOUS
  <2> QED BY <1>10 DEF Trail
<1> HIDE DEF iter
<1> QED BY <1>7, <1>8, <1>10, <1>11 DEF Trail

\* The letters of a line without its blanks.
Total(line) == FoldLeft(+, 0, line)

\* SumOf in terms of Total.
LEMMA TotalOf ==
    ASSUME NEW s \in Seq(Nat)
    PROVE  \E sum \in [0..Len(s) -> Nat] :
             /\ sum[0] = 0
             /\ \A k \in 1..Len(s) : sum[k] = sum[k-1] + s[k]
             /\ sum[Len(s)] = Total(s)
BY SumOf, Zenon DEF Total

\* LineLen in terms of Total.
LEMMA LineLenIs ==
    ASSUME NEW line
    PROVE  LineLen(line) = IF line = <<>> THEN 0 ELSE Total(line) + Len(line) - 1
BY Zenon DEF LineLen, Total

\* A word more adds its letters.
LEMMA TotalAppend ==
    ASSUME NEW s \in Seq(Nat), NEW w \in Nat
    PROVE  /\ Total(s) \in Nat
           /\ Total(Append(s, w)) = Total(s) + w
<1> DEFINE t == Append(s, w)
           N == Len(s)
<1>1. N \in Nat /\ t \in Seq(Nat) /\ Len(t) = N + 1 /\ t[N+1] = w
      /\ \A k \in 1..N : t[k] = s[k]
  OBVIOUS
<1>2. PICK a \in [0..N -> Nat] :
        /\ a[0] = 0
        /\ \A k \in 1..N : a[k] = a[k-1] + s[k]
        /\ a[N] = Total(s)
  BY TotalOf
<1>3. PICK b \in [0..(N+1) -> Nat] :
        /\ b[0] = 0
        /\ \A k \in 1..(N+1) : b[k] = b[k-1] + t[k]
        /\ b[N+1] = Total(t)
  <2> HIDE DEF t, N
  <2> QED BY <1>1, TotalOf
<1>4. 0..N \subseteq {k \in 0..N : a[k] = b[k]}
  <2> DEFINE S == {k \in 0..N : a[k] = b[k]}
  <2>1. 0 \in S
    <3> HIDE DEF t
    <3> QED BY <1>1, <1>2, <1>3
  <2>2. ASSUME NEW k \in 1..N, k-1 \in S PROVE k \in S
    <3>1. k \in 1..(N+1) /\ k \in 0..N
      BY <1>1
    <3>2. b[k] = b[k-1] + s[k] /\ a[k] = a[k-1] + s[k]
      BY <1>1, <1>2, <1>3, <3>1
    <3> QED BY <2>2, <3>1, <3>2
  <2> HIDE DEF S
  <2>3. 0..N \subseteq S
    BY <1>1, <2>1, <2>2, UpTo
  <2> QED BY <2>3 DEF S
<1>5. a[N] = b[N] /\ a[N] \in Nat
  BY <1>1, <1>4
<1>6. b[N+1] = b[N] + w
  <2> HIDE DEF t, N
  <2> N+1 \in 1..(N+1) /\ (N+1)-1 = N
    BY <1>1
  <2> QED BY <1>1, <1>3
<1> HIDE DEF t
<1> QED BY <1>2, <1>3, <1>5, <1>6 DEF t

\* A blank line has no letters.
LEMMA NoTotal == Total(<<>>) = 0
<1>1. <<>> \in Seq(Nat) /\ Len(<<>>) = 0
  OBVIOUS
<1> QED BY <1>1, TotalOf

\* What wrapText relies on: a word more lengthens a line by a blank and itself.
LEMMA LineLenGrows ==
    ASSUME NEW s \in Seq(Nat), NEW w \in Nat
    PROVE  /\ LineLen(<<>>) = 0
           /\ LineLen(s) \in Nat
           /\ LineLen(<<w>>) = w
           /\ s # <<>> => LineLen(Append(s, w)) = LineLen(s) + 1 + w
<1>1. LineLen(<<>>) = 0
  BY LineLenIs
<1>2. LineLen(<<w>>) = w
  <2>1. <<w>> = Append(<<>>, w) /\ <<w>> # <<>> /\ Len(<<w>>) = 1 /\ <<>> \in Seq(Nat)
    OBVIOUS
  <2>2. Total(Append(<<>>, w)) = 0 + w
    BY <2>1, NoTotal, TotalAppend
  <2> DEFINE u == <<w>>
  <2>3. u # <<>> /\ Len(u) = 1 /\ Total(u) = w
    BY <2>1, <2>2
  <2>4. LineLen(u) = w
    <3> HIDE DEF u
    <3>1. LineLen(u) = Total(u) + Len(u) - 1
      BY <2>3, LineLenIs, Zenon
    <3> QED BY <2>3, <3>1
  <2> QED BY <2>4
<1>3. LineLen(s) \in Nat
  <2>1. Total(s) \in Nat
    BY TotalAppend
  <2> QED BY <1>1, <2>1, LineLenIs
<1>4. ASSUME s # <<>> PROVE LineLen(Append(s, w)) = LineLen(s) + 1 + w
  <2>1. Append(s, w) # <<>> /\ Len(Append(s, w)) = Len(s) + 1 /\ Len(s) \in Nat
    OBVIOUS
  <2> DEFINE u == Append(s, w)
  <2>2. u # <<>> /\ Len(u) = Len(s) + 1 /\ Total(u) = Total(s) + w /\ Total(s) \in Nat
    BY <2>1, TotalAppend
  <2>3. LineLen(u) = LineLen(s) + 1 + w
    <3> HIDE DEF u
    <3> QED BY <1>4, <2>1, <2>2, LineLenIs
  <2> QED BY <2>3
<1> QED BY <1>1, <1>2, <1>3, <1>4

-----------------------------------------------------------------------------
(***************************************************************************)
(* The bars of the card.                                                   *)
(***************************************************************************)
\* An int is not changed by being one.
LEMMA IntsStay ==
    ASSUME NEW x \in Int, IsInt(x)
    PROVE  Wrapped(x) = x
<1> DEFINE m == 2 * (MaxInt + 1)
           y == x + MaxInt + 1
<1>1. m \in Nat /\ m > 0 /\ y \in Nat /\ y < m
  BY MaxIntAssumption DEF IsInt
<1>2. y % m = y
  <2> HIDE DEF m, y
  <2> QED BY <1>1
<1>3. Wrapped(x) = (y % m) - MaxInt - 1
  BY DEF Wrapped
<1> QED BY <1>2, <1>3, MaxIntAssumption

\* What has wrapped around is a number.
LEMMA WrappedIsInt ==
    ASSUME NEW x \in Int
    PROVE  Wrapped(x) \in Int
<1> DEFINE m == 2 * (MaxInt + 1)
           y == x + MaxInt + 1
<1>1. m \in Nat /\ m > 0 /\ y \in Int
  BY MaxIntAssumption
<1>2. y % m \in Int
  <2> HIDE DEF m, y
  <2> QED BY <1>1
<1> QED BY <1>2, MaxIntAssumption DEF Wrapped

\* renderProgressBar never fills less than nothing or more than the bar.
LEMMA FilledInBar ==
    ASSUME NEW score \in Int
    PROVE  Filled(score) \in 0..BarWidth
<1>1. score * BarWidth \in Int
  BY DEF BarWidth
<1>2. Wrapped(score * BarWidth) \in Int
  BY <1>1, WrappedIsInt
<1> QED BY <1>2 DEF Filled, BarWidth

\* A better score never fills less; an equal filling within 0..100 hides less
\* than a cell.
LEMMA FilledGrows ==
    ASSUME NEW a \in Int, NEW b \in Int, a < b, HasBar(a), HasBar(b)
    PROVE  /\ Filled(a) <= Filled(b)
           /\ (Filled(a) = Filled(b) /\ a >= 0 /\ b <= 100) => (b - a) * BarWidth < 100
<1>1. a * BarWidth \in Int /\ b * BarWidth \in Int
  BY DEF BarWidth
<1>2. Wrapped(a * BarWidth) = a * BarWidth /\ Wrapped(b * BarWidth) = b * BarWidth
  BY <1>1, IntsStay DEF HasBar
<1> QED BY <1>2 DEF Filled, BarWidth

\* CardShowsDecision for every matrix of integer scores: PrintRationaleCard
\* shows the scores of the decision and no others and every bar has its cells,
\* whatever numbers the model gave; a better score never gets a shorter bar if
\* the products are ints.
THEOREM EveryCardShowsItsDecision ==
    ASSUME NEW Keys, NEW scoreMatrix \in [Keys -> Int]
    PROVE  CardShowsDecision(scoreMatrix)
<1> SUFFICES ASSUME Keys # {} PROVE CardShowsDecision(scoreMatrix)
  BY DEF CardShowsDecision
<1> DEFINE rows == Rows(scoreMatrix)
<1>1. DOMAIN scoreMatrix = Keys /\ ShownScores(scoreMatrix) = scoreMatrix
  BY DEF ShownScores
<1>2. DOMAIN rows = Keys
  BY <1>1 DEF Rows
<1>3. ASSUME NEW key \in Keys
      PROVE  /\ rows[key].score = scoreMatrix[key]
             /\ rows[key].full = Filled(scoreMatrix[key])
             /\ rows[key].empty = BarWidth - Filled(scoreMatrix[key])
  BY <1>1 DEF Rows
<1>4. ASSUME NEW key \in Keys
      PROVE  rows[key].full >= 0 /\ rows[key].empty >= 0
  <2> Filled(scoreMatrix[key]) \in 0..BarWidth /\ BarWidth \in Nat
    BY FilledInBar DEF BarWidth
  <2> QED BY <1>3
<1>5. ASSUME NEW k \in Keys, NEW l \in Keys, scoreMatrix[k] < scoreMatrix[l],
             HasBar(scoreMatrix[k]), HasBar(scoreMatrix[l])
      PROVE  /\ rows[k].full <= rows[l].full
             /\ (rows[k].full = rows[l].full /\ scoreMatrix[k] >= 0
                   /\ scoreMatrix[l] <= 100)
                  => (scoreMatrix[l] - scoreMatrix[k]) * BarWidth < 100
  <2> DEFINE a == scoreMatrix[k]
             b == scoreMatrix[l]
  <2>1. a \in Int /\ b \in Int /\ a < b /\ HasBar(a) /\ HasBar(b)
    BY <1>5
  <2>2. rows[k].full = Filled(a) /\ rows[l].full = Filled(b)
    BY <1>3
  <2> HIDE DEF rows, a, b
  <2>3. /\ rows[k].full <= rows[l].full
        /\ (rows[k].full = rows[l].full /\ a >= 0 /\ b <= 100) => (b - a) * BarWidth < 100
    BY <2>1, <2>2, FilledGrows
  <2> QED BY <2>3 DEF a, b
<1> HIDE DEF rows
<1> QED BY <1>1, <1>2, <1>3, <1>4, <1>5 DEF CardShowsDecision, rows

-----------------------------------------------------------------------------
(***************************************************************************)
(* The pods of an owner.                                                   *)
(***************************************************************************)
\* kept is the list of names on a node as the telemetry gathers it, pod by pod
\* of the List.
KeptPods(kept, podList, node) ==
    /\ kept[0] = <<>>
    /\ \A k \in 1..Len(podList) :
         kept[k] = IF podList[k].node = node
                   THEN Append(kept[k-1], podList[k].name) ELSE kept[k-1]
    /\ kept[Len(podList)] = ExistingPods(podList, node)

\* ExistingPods is gathered in that way, and keeps names only.
LEMMA PodsKept ==
    ASSUME NEW Pods, NEW Names, \A p \in Pods : p.name \in Names,
           NEW podList \in Seq(Pods), NEW node
    PROVE  \E kept \in [0..Len(podList) -> Seq(Names)] : KeptPods(kept, podList, node)
<1> DEFINE N == Len(podList)
           D == SUBSET (1..N)
           V == Seq(Names)
           Op(names, p) == IF p.node = node THEN Append(names, p.name) ELSE names
           Eq(g) == g = [u \in D |-> IF u = {} THEN <<>>
                                     ELSE Op(g[u \ {Max(u)}], podList[Max(u)])]
           iter == CHOOSE g : Eq(g)
           step == [i \in 1..N |-> [v \in V |-> Op(v, podList[i])]]
<1>1. N \in Nat /\ DOMAIN podList = 1..N /\ <<>> \in V
  OBVIOUS
<1>2. \A i \in 1..N : podList[i] \in Pods /\ podList[i].name \in Names
  OBVIOUS
<1>3. step \in [1..N -> [V -> V]]
  <2> \A i \in 1..N, v \in V : Op(v, podList[i]) \in V
    BY <1>2
  <2> HIDE DEF Op, V
  <2> QED OBVIOUS
<1>4. PICK g \in [D -> V] : IsFold(g, N, <<>>, step)
  <2> HIDE DEF step, N, V
  <2> QED BY <1>1, <1>3, FoldExists
<1>5. ASSUME NEW u \in D, u # {}
      PROVE  step[Max(u)][g[u \ {Max(u)}]] = Op(g[u \ {Max(u)}], podList[Max(u)])
  <2>1. Max(u) \in 1..N /\ u \ {Max(u)} \in D
    BY <1>1, <1>5, MaxOfInterval
  <2>2. g[u \ {Max(u)}] \in V
    BY <2>1
  <2> HIDE DEF V, Op
  <2> QED BY <2>1, <2>2
<1>6. Eq(g)
  <2> HIDE DEF step, Op, V
  <2> QED BY <1>4, <1>5 DEF IsFold
<1>7. Eq(iter)
  <2> HIDE DEF Eq
  <2> QED BY <1>6, Zenon
<1>8. ExistingPods(podList, node) = iter[1..N]
  BY <1>1, Zenon DEF ExistingPods, FoldLeft, MapThenFoldSet
<1>9. FoldsWithin(iter, N, V, <<>>, step)
  <2>1. iter[{}] = <<>>
    <3> HIDE DEF iter, Op
    <3> QED BY <1>7
  <2>2. ASSUME NEW n \in 1..N, iter[1..n-1] \in V
        PROVE  iter[1..n] = step[n][iter[1..n-1]]
    <3>1. Max(1..n) = n /\ (1..n) \ {n} = 1..n-1 /\ 1..n # {} /\ 1..n \in D
      BY <1>1, MaxOfInterval
    <3>2. iter[1..n] = Op(iter[1..n-1], podList[n])
      <4> HIDE DEF iter, D, Op
      <4> QED BY <1>7, <3>1
    <3> HIDE DEF iter, Op, V
    <3> QED BY <2>2, <3>2
  <2> HIDE DEF iter, step, N, V
  <2> QED BY <2>1, <2>2 DEF FoldsWithin
<1>10. PICK kept \in [0..N -> V] : Trail(kept, N, <<>>, step) /\ kept[N] = iter[1..N]
  <2> DEFINE base == <<>>
  <2>1. FoldsWithin(iter, N, V, base, step) /\ base \in V
    BY <1>1, <1>9
  <2>2. \E after \in [0..N -> V] : Trail(after, N, base, step) /\ after[N] = iter[1..N]
    <3> HIDE DEF iter, step, N, V, base
    <3> QED BY <1>1, <1>3, <2>1, FoldPrefixes
  <2> QED BY <2>2
<1>11. ASSUME NEW n \in 1..N PROVE kept[n] = Op(kept[n-1], podList[n])
  <2>1. n-1 \in 0..N /\ kept[n-1] \in V
    OBVIOUS
  <2> HIDE DEF V, Op
  <2> QED BY <1>10, <2>1 DEF Trail
<1>12. kept[0] = <<>>
  BY <1>10 DEF Trail
<1> HIDE DEF iter
<1> QED BY <1>8, <1>10, <1>11, <1>12 DEF KeptPods

\* The pods of a list on a node whose names are in C.
Listed(podList, node, C) ==
    {i \in DOMAIN podList : podList[i].node = node /\ podList[i].name \in C}

\* The positions of a list of names that are in C.
Among(names, C) == {i \in DOMAIN names : names[i] \in C}

\* The list of names of a node holds the names of C as often as the node has
\* pods called so.
LEMMA NamesCounted ==
    ASSUME NEW Pods, NEW Names, \A p \in Pods : p.name \in Names,
           NEW podList \in Seq(Pods), NEW node, NEW C
    PROVE  /\ IsFiniteSet(Listed(podList, node, C))
           /\ Cardinality(Among(ExistingPods(podList, node), C))
                = Cardinality(Listed(podList, node, C))
<1> DEFINE N == Len(podList)
           Here(k) == {i \in 1..k : podList[i].node = node /\ podList[i].name \in C}
<1>1. N \in Nat /\ DOMAIN podList = 1..N
  OBVIOUS
<1>2. PICK kept \in [0..N -> Seq(Names)] : KeptPods(kept, podList, node)
  BY PodsKept
<1>3. /\ kept[0] = <<>>
      /\ \A k \in 1..N :
           kept[k] = IF podList[k].node = node
                     THEN Append(kept[k-1], podList[k].name) ELSE kept[k-1]
      /\ kept[N] = ExistingPods(podList, node)
  BY <1>2 DEF KeptPods
<1> DEFINE Kept(k) == {j \in DOMAIN kept[k] : kept[k][j] \in C}
           S == {k \in 0..N : /\ IsFiniteSet(Here(k)) /\ IsFiniteSet(Kept(k))
                              /\ Cardinality(Here(k)) = Cardinality(Kept(k))}
<1>4. 0 \in S
  <2>1. Here(0) = {} /\ Kept(0) = {} /\ 0 \in 0..N
    BY <1>1, <1>3
  <2> HIDE DEF Here, Kept, N
  <2> QED BY <2>1, FS_EmptySet
<1>5. ASSUME NEW k \in 1..N, k-1 \in S PROVE k \in S
  <2>1. k-1 \in 0..N /\ k \in 0..N /\ podList[k] \in Pods
    BY <1>1
  <2> DEFINE old == kept[k-1]
             name == podList[k].name
  <2>2. old \in Seq(Names) /\ name \in Names /\ Len(old) \in Nat
        /\ DOMAIN old = 1..Len(old)
    BY <2>1
  <2>3. /\ IsFiniteSet(Here(k-1)) /\ IsFiniteSet(Kept(k-1))
        /\ Cardinality(Here(k-1)) = Cardinality(Kept(k-1))
    <3> HIDE DEF Here, Kept
    <3> QED BY <1>5
  <2>4. CASE podList[k].node = node /\ name \in C
    <3>1. Here(k) = Here(k-1) \cup {k} /\ k \notin Here(k-1)
      BY <1>1, <2>4
    <3>2. kept[k] = Append(old, name)
      BY <1>3, <2>4
    <3>3. Kept(k) = Kept(k-1) \cup {Len(old) + 1} /\ Len(old) + 1 \notin Kept(k-1)
      <4> DOMAIN kept[k] = 1..(Len(old) + 1)
        BY <2>2, <3>2
      <4> kept[k][Len(old) + 1] = name /\ \A j \in 1..Len(old) : kept[k][j] = old[j]
        BY <2>2, <3>2
      <4> HIDE DEF name
      <4> QED BY <2>2, <2>4
    <3>4. IsFiniteSet(Here(k)) /\ Cardinality(Here(k)) = Cardinality(Here(k-1)) + 1
      <4> HIDE DEF Here
      <4> QED BY <2>3, <3>1, FS_AddElement
    <3>5. IsFiniteSet(Kept(k)) /\ Cardinality(Kept(k)) = Cardinality(Kept(k-1)) + 1
      <4> DEFINE x == Len(old) + 1
                 T == Kept(k-1)
      <4>1. Kept(k) = T \cup {x} /\ x \notin T /\ IsFiniteSet(T)
        <5> HIDE DEF Kept
        <5> QED BY <2>3, <3>3
      <4>2. IsFiniteSet(T \cup {x}) /\ Cardinality(T \cup {x}) = Cardinality(T) + 1
        <5> HIDE DEF x, T
        <5> QED BY <4>1, FS_AddElement
      <4> HIDE DEF Kept, x
      <4> QED BY <4>1, <4>2
    <3> HIDE DEF Here, Kept, N
    <3> QED BY <2>1, <2>3, <3>4, <3>5
  <2>5. CASE podList[k].node = node /\ name \notin C
    <3>1. Here(k) = Here(k-1)
      BY <1>1, <2>5
    <3>2. kept[k] = Append(old, name)
      BY <1>3, <2>5
    <3>3. Kept(k) = Kept(k-1)
      <4> DOMAIN kept[k] = 1..(Len(old) + 1)
        BY <2>2, <3>2
      <4> kept[k][Len(old) + 1] = name /\ \A j \in 1..Len(old) : kept[k][j] = old[j]
        BY <2>2, <3>2
      <4> HIDE DEF name
      <4> QED BY <2>2, <2>5
    <3> HIDE DEF Here, Kept, N
    <3> QED BY <2>1, <2>3, <3>1, <3>3
  <2>6. CASE podList[k].node # node
    <3>1. Here(k) = Here(k-1)
      BY <1>1, <2>6
    <3>2. Kept(k) = Kept(k-1)
      BY <1>3, <2>6
    <3> HIDE DEF Here, Kept, N
    <3> QED BY <2>1, <2>3, <3>1, <3>2
  <2> QED BY <2>4, <2>5, <2>6
<1>6. N \in S
  <2> HIDE DEF S
  <2> 0..N \subseteq S
    BY <1>1, <1>4, <1>5, UpTo
  <2> QED BY <1>1
<1>7. IsFiniteSet(Here(N)) /\ Cardinality(Here(N)) = Cardinality(Kept(N))
  <2> HIDE DEF Here, Kept
  <2> QED BY <1>6
<1> QED BY <1>1, <1>3, <1>7 DEF Listed, Among

\* A replica's name contains the name of its set.
LEMMA PodNameContainsSet ==
    ASSUME NEW Text, NEW set \in Seq(Text), NEW suffix \in Seq(Text), "-" \in Text
    PROVE  TextContains(PodName(set, suffix), set)
<1> DEFINE tail == <<"-">> \o suffix
           name == set \o tail
           N == Len(set)
<1>1. tail \in Seq(Text) /\ name \in Seq(Text) /\ N \in Nat /\ Len(name) \in Nat
      /\ N <= Len(name) /\ \A i \in 1..N : name[i] = set[i]
  OBVIOUS
<1>2. PodName(set, suffix) = name
  BY DEF PodName
<1>3. SubSeq(name, 1, N) = set
  <2>1. /\ SubSeq(name, 1, N) \in Seq(Text)
        /\ Len(SubSeq(name, 1, N)) = N
        /\ \A i \in 1..N : SubSeq(name, 1, N)[i] = name[i]
    <3> HIDE DEF name
    <3> QED BY <1>1
  <2> DEFINE part == SubSeq(name, 1, N)
  <2> HIDE DEF part
  <2>2. part \in Seq(Text) /\ Len(part) = N /\ \A i \in 1..N : part[i] = set[i]
    BY <1>1, <2>1 DEF part
  <2>3. part = set
    BY <2>2, SeqEqual
  <2> QED BY <2>3 DEF part
<1>4. SubSeq(name, 1, N) \in SubSeqs(name)
  <2> 0 \in 0..Len(name) /\ N \in 0..Len(name) /\ 0+1 = 1
    BY <1>1
  <2> HIDE DEF name
  <2> QED BY DEF SubSeqs
<1> HIDE DEF name
<1> QED BY <1>2, <1>3, <1>4 DEF TextContains

\* ReplicasCounted for every pod and every list of pods, on any nodes: the
\* count of owner pods that BuildSchedulingPrompt shows for a node misses no
\* replica of the set, and is exact where no foreign pod's name contains the
\* set's.  Names are texts over any alphabet with a dash.  The pods of the
\* pod's own set are called as Reconcile calls them, set-suffix; any other
\* pod may have any name.
THEOREM EveryReplicaIsCounted ==
    ASSUME NEW Text, "-" \in Text,
           NEW Pods,
           \A p \in Pods : p.name \in Seq(Text) /\ OwnerGeminiSet(p.labels) \in Seq(Text),
           NEW pod \in Pods, NEW podList \in Seq(Pods), NEW nodes,
           \A i \in DOMAIN podList :
             (/\ podList[i].namespace = pod.namespace
              /\ OwnerGeminiSet(podList[i].labels) = OwnerGeminiSet(pod.labels))
               => \E suffix \in Seq(Text) :
                    podList[i].name = PodName(OwnerGeminiSet(pod.labels), suffix)
    PROVE  ReplicasCounted(pod, podList, nodes)
<1> DEFINE owner == OwnerGeminiSet(pod.labels)
           Own(p) == p.namespace = pod.namespace /\ OwnerGeminiSet(p.labels) = owner
           Mistaken(p) == ~Own(p) /\ TextContains(p.name, owner)
           Owned(d) == {i \in DOMAIN podList : podList[i].node = d /\ Own(podList[i])}
           Wrong(d) == {i \in DOMAIN podList : podList[i].node = d /\ Mistaken(podList[i])}
           Named(d) == {i \in DOMAIN podList :
                          podList[i].node = d /\ TextContains(podList[i].name, owner)}
           shown(d) == OwnerPods(owner, ExistingPods(podList, d))
<1>1. ASSUME owner # <<>>, NEW d
      PROVE  IsFiniteSet(Named(d)) /\ shown(d) = Cardinality(Named(d))
  <2> DEFINE Names == Seq(Text)
             C == {name \in Names : TextContains(name, owner)}
             existing == ExistingPods(podList, d)
             Here == Listed(podList, d, C)
             Kept == Among(existing, C)
  <2>1. \A p \in Pods : p.name \in Names
    OBVIOUS
  <2>2. IsFiniteSet(Here) /\ Cardinality(Kept) = Cardinality(Here)
    <3> HIDE DEF C, Names
    <3> QED BY <2>1, NamesCounted
  <2>3. existing \in Seq(Names)
    <3>1. PICK kept \in [0..Len(podList) -> Seq(Names)] : KeptPods(kept, podList, d)
      <4> HIDE DEF Names
      <4> QED BY <2>1, PodsKept
    <3>2. kept[Len(podList)] \in Seq(Names)
      OBVIOUS
    <3> QED BY <3>1, <3>2 DEF KeptPods
  <2>4. Kept = {i \in DOMAIN existing : TextContains(existing[i], owner)}
    <3>1. \A i \in DOMAIN existing : existing[i] \in Names
      <4> HIDE DEF existing, Names
      <4> QED BY <2>3
    <3> HIDE DEF existing, Names, owner
    <3> QED BY <3>1 DEF Among
  <2>5. Here = Named(d)
    <3> \A i \in DOMAIN podList : podList[i].name \in Names
      OBVIOUS
    <3> HIDE DEF owner, Names
    <3> QED BY DEF Listed
  <2>6. shown(d) = Cardinality(Kept)
    <3> HIDE DEF Kept, existing, owner
    <3> QED BY <1>1, <2>4 DEF OwnerPods, existing
  <2> HIDE DEF Here, Kept, Named, shown
  <2> QED BY <2>2, <2>5, <2>6
<1>2. ASSUME NEW d PROVE Owned(d) \subseteq Named(d)
  <2> SUFFICES ASSUME NEW i \in Owned(d) PROVE TextContains(podList[i].name, owner)
    OBVIOUS
  <2>1. PICK suffix \in Seq(Text) : podList[i].name = PodName(owner, suffix)
    OBVIOUS
  <2>2. owner \in Seq(Text)
    OBVIOUS
  <2> HIDE DEF owner
  <2> QED BY <2>1, <2>2, PodNameContainsSet
<1>3. ASSUME NEW d, Wrong(d) = {} PROVE Named(d) = Owned(d)
  BY <1>2, <1>3
<1>4. ASSUME owner # <<>>, NEW d
      PROVE  /\ shown(d) >= Cardinality(Owned(d))
             /\ Cardinality(Wrong(d)) = 0 => shown(d) = Cardinality(Owned(d))
  <2>1. IsFiniteSet(Named(d)) /\ shown(d) = Cardinality(Named(d))
    BY <1>1, <1>4
  <2>2. Wrong(d) \subseteq Named(d)
    OBVIOUS
  <2>3. IsFiniteSet(Wrong(d)) /\ Cardinality(Wrong(d)) = 0 => Wrong(d) = {}
    <3> HIDE DEF Wrong, Named
    <3> QED BY <2>1, <2>2, FS_Subset, FS_EmptySet
  <2>4. /\ Cardinality(Owned(d)) \in Nat /\ Cardinality(Named(d)) \in Nat
        /\ Cardinality(Owned(d)) <= Cardinality(Named(d))
    <3> Owned(d) \subseteq Named(d)
      BY <1>2
    <3> HIDE DEF Owned, Named
    <3> QED BY <2>1, FS_Subset, FS_CardinalityType
  <2>5. shown(d) >= Cardinality(Owned(d))
    <3> HIDE DEF Owned, Named, shown
    <3> QED BY <2>1, <2>4
  <2>6. ASSUME Cardinality(Wrong(d)) = 0 PROVE shown(d) = Cardinality(Owned(d))
    <3> IsFiniteSet(Wrong(d))
      <4> HIDE DEF Wrong, Named
      <4> QED BY <2>1, <2>2, FS_Subset
    <3> Named(d) = Owned(d)
      <4> HIDE DEF Named, Owned, Wrong
      <4> QED BY <1>3, <2>3, <2>6
    <3> HIDE DEF Named, Owned, shown
    <3> QED BY <2>1
  <2> HIDE DEF Owned, Named, Wrong, shown
  <2> QED BY <2>5, <2>6
<1>5. SUFFICES ASSUME owner # <<>>, NEW d \in nodes
              PROVE  /\ shown(d) >= HowMany(podList, d, Own)
                     /\ HowMany(podList, d, Mistaken) = 0 => shown(d) = HowMany(podList, d, Own)
  BY Zenon DEF ReplicasCounted
<1>6. HowMany(podList, d, Own) = Cardinality(Owned(d))
      /\ HowMany(podList, d, Mistaken) = Cardinality(Wrong(d))
  BY Zenon DEF HowMany
<1>7. /\ shown(d) >= Cardinality(Owned(d))
      /\ Cardinality(Wrong(d)) = 0 => shown(d) = Cardinality(Owned(d))
  <2> HIDE DEF shown, Owned, Wrong
  <2> QED BY <1>4, <1>5
<1> HIDE DEF shown, Owned, Wrong
<1> QED BY <1>6, <1>7, Zenon

-----------------------------------------------------------------------------
(***************************************************************************)
(* Wrapping.                                                               *)
(***************************************************************************)
\* What wrapText holds between two rounds, in types.
Wraps == [lines : Seq(Seq(Nat)), current : Seq(Nat)]

\* Before the first round.
Blank == [lines |-> <<>>, current |-> <<>>]

\* after[k] is what wrapText holds after k words.
Wrapping(after, words, maxLen) ==
    /\ after[0] = Blank
    /\ \A k \in 1..Len(words) : after[k] = WrapWord(after[k-1], words[k], maxLen)
    /\ WrapText(words, maxLen)
         = Append(after[Len(words)].lines, after[Len(words)].current)

\* A round keeps the types.
LEMMA WrapWordType ==
    ASSUME NEW wrapped \in Wraps, NEW w \in Nat, NEW maxLen
    PROVE  WrapWord(wrapped, w, maxLen) \in Wraps
<1> wrapped.lines \in Seq(Seq(Nat)) /\ wrapped.current \in Seq(Nat)
  BY DEF Wraps
<1> Append(wrapped.lines, wrapped.current) \in Seq(Seq(Nat))
    /\ Append(wrapped.current, w) \in Seq(Nat) /\ <<w>> \in Seq(Nat)
  OBVIOUS
<1> QED BY DEF WrapWord, Wraps

\* WrapText is the loop of WrapWord over the words, the current line last.
LEMMA WrapRounds ==
    ASSUME NEW words \in Seq(Nat), NEW maxLen
    PROVE  \E after \in [0..Len(words) -> Wraps] : Wrapping(after, words, maxLen)
<1> DEFINE N == Len(words)
           D == SUBSET (1..N)
           Op(acc, w) == WrapWord(acc, w, maxLen)
           Eq(g) == g = [u \in D |-> IF u = {} THEN Blank
                                     ELSE Op(g[u \ {Max(u)}], words[Max(u)])]
           iter == CHOOSE g : Eq(g)
           step == [i \in 1..N |-> [v \in Wraps |-> Op(v, words[i])]]
<1>1. N \in Nat /\ DOMAIN words = 1..N /\ Blank \in Wraps
  BY DEF Blank, Wraps
<1>2. \A i \in 1..N : words[i] \in Nat
  OBVIOUS
<1>3. step \in [1..N -> [Wraps -> Wraps]]
  <2> \A i \in 1..N, v \in Wraps : Op(v, words[i]) \in Wraps
    BY <1>2, WrapWordType
  <2> HIDE DEF Op
  <2> QED OBVIOUS
<1>4. PICK g \in [D -> Wraps] : IsFold(g, N, Blank, step)
  <2> HIDE DEF step, N
  <2> QED BY <1>1, <1>3, FoldExists
<1>5. ASSUME NEW u \in D, u # {}
      PROVE  step[Max(u)][g[u \ {Max(u)}]] = Op(g[u \ {Max(u)}], words[Max(u)])
  <2>1. Max(u) \in 1..N /\ u \ {Max(u)} \in D
    BY <1>1, <1>5, MaxOfInterval
  <2>2. g[u \ {Max(u)}] \in Wraps
    BY <2>1
  <2> HIDE DEF Op
  <2> QED BY <2>1, <2>2
<1>6. Eq(g)
  <2> HIDE DEF step, Op
  <2> QED BY <1>4, <1>5 DEF IsFold
<1>7. Eq(iter)
  <2> HIDE DEF Eq
  <2> QED BY <1>6, Zenon
<1>8. /\ words = <<>> => WrapText(words, maxLen) = << <<>> >>
      /\ words # <<>> =>
           WrapText(words, maxLen) = Append(iter[1..N].lines, iter[1..N].current)
  <2>1. words = <<>> => WrapText(words, maxLen) = << <<>> >>
    BY Zenon DEF WrapText
  <2>2. words # <<>> =>
           WrapText(words, maxLen)
             = Append(iter[DOMAIN words].lines, iter[DOMAIN words].current)
    <3> DEFINE E == SUBSET (DOMAIN words)
               Fold == CHOOSE f : f = [u \in E |-> IF u = {} THEN Blank
                                       ELSE WrapWord(f[u \ {Max(u)}], words[Max(u)], maxLen)]
    <3>1. words # <<>> => WrapText(words, maxLen)
              = Append(Fold[DOMAIN words].lines, Fold[DOMAIN words].current)
      BY Zenon DEF WrapText, FoldLeft, MapThenFoldSet, Blank
    <3>2. Fold = iter
      BY <1>1, Zenon
    <3> HIDE DEF Fold, iter
    <3> QED BY <3>1, <3>2
  <2> HIDE DEF iter
  <2> QED BY <1>1, <2>1, <2>2
<1>9. FoldsWithin(iter, N, Wraps, Blank, step)
  <2>1. iter[{}] = Blank
    <3> HIDE DEF iter, Op
    <3> QED BY <1>7
  <2>2. ASSUME NEW n \in 1..N, iter[1..n-1] \in Wraps
        PROVE  iter[1..n] = step[n][iter[1..n-1]]
    <3>1. Max(1..n) = n /\ (1..n) \ {n} = 1..n-1 /\ 1..n # {} /\ 1..n \in D
      BY <1>1, MaxOfInterval
    <3>2. iter[1..n] = Op(iter[1..n-1], words[n])
      <4> HIDE DEF iter, D, Op
      <4> QED BY <1>7, <3>1
    <3> HIDE DEF iter, Op
    <3> QED BY <2>2, <3>2
  <2> HIDE DEF iter, step, N
  <2> QED BY <2>1, <2>2 DEF FoldsWithin
<1>10. PICK after \in [0..N -> Wraps] : Trail(after, N, Blank, step) /\ after[N] = iter[1..N]
  <2>1. N \in Nat /\ Blank \in Wraps
    BY <1>1
  <2>2. \E after \in [0..N -> Wraps] : Trail(after, N, Blank, step) /\ after[N] = iter[1..N]
    <3> HIDE DEF iter, step, N
    <3> QED BY <1>3, <1>9, <2>1, FoldPrefixes
  <2> QED BY <2>2
<1>11. ASSUME NEW n \in 1..N PROVE after[n] = Op(after[n-1], words[n])
  <2>1. n-1 \in 0..N /\ after[n-1] \in Wraps
    OBVIOUS
  <2> HIDE DEF Op
  <2> QED BY <1>10, <2>1 DEF Trail
<1>12. after[0] = Blank
  BY <1>10 DEF Trail
<1>13. WrapText(words, maxLen) = Append(after[N].lines, after[N].current)
  <2>1. CASE words = <<>>
    <3> N = 0 /\ Append(<<>>, <<>>) = << <<>> >>
      BY <2>1
    <3> after[N].lines = <<>> /\ after[N].current = <<>>
      BY <1>12 DEF Blank
    <3> HIDE DEF iter, N
    <3> QED BY <1>8, <2>1
  <2>2. CASE words # <<>>
    <3> HIDE DEF iter, N
    <3> QED BY <1>8, <1>10, <2>2
  <2> QED BY <2>1, <2>2
<1> HIDE DEF iter
<1> QED BY <1>11, <1>12, <1>13 DEF Wrapping

\* The first n words are laid out on the lines: ends[i] is the last word of
\* line i.  No line but the first is blank, one that is too long has one word,
\* and the word after a line would not have fitted on it.
Laid(words, n, lines, ends, maxLen) ==
    /\ ends \in [0..Len(lines) -> 0..n]
    /\ ends[0] = 0 /\ ends[Len(lines)] = n
    /\ \A i \in 1..Len(lines) : /\ ends[i-1] <= ends[i]
                                /\ i > 1 => ends[i-1] < ends[i]
                                /\ lines[i] = SubSeq(words, ends[i-1] + 1, ends[i])
                                /\ LineLen(lines[i]) > maxLen => Len(lines[i]) = 1
    /\ \A i \in 1..Len(lines)-1 : LineLen(lines[i]) + words[ends[i] + 1] + 1 > maxLen

\* A round lays out one word more: on the last line, or on a new one.
LEMMA WrapWordLays ==
    ASSUME NEW words \in Seq(Nat), NEW n \in 1..Len(words), NEW maxLen \in Nat,
           NEW wrapped \in Wraps, NEW ends,
           Laid(words, n-1, Append(wrapped.lines, wrapped.current), ends, maxLen),
           NEW next, next = WrapWord(wrapped, words[n], maxLen)
    PROVE  \E e : Laid(words, n, Append(next.lines, next.current), e, maxLen)
<1> DEFINE closed == wrapped.lines
           cur == wrapped.current
           w == words[n]
           lines == Append(closed, cur)
           K == Len(lines)
<1>1. /\ n \in Nat /\ n - 1 \in Nat /\ w \in Nat /\ n <= Len(words) /\ Len(words) \in Nat
      /\ closed \in Seq(Seq(Nat)) /\ cur \in Seq(Nat) /\ <<w>> \in Seq(Nat)
      /\ lines \in Seq(Seq(Nat)) /\ K \in Nat \ {0} /\ K = Len(closed) + 1
      /\ lines[K] = cur /\ \A i \in 1..K-1 : lines[i] = closed[i]
  <2>1. closed \in Seq(Seq(Nat)) /\ cur \in Seq(Nat)
    BY DEF Wraps
  <2> HIDE DEF closed, cur
  <2> QED BY <2>1
<1>2. /\ ends \in [0..K -> 0..n-1] /\ ends[0] = 0 /\ ends[K] = n - 1
      /\ \A i \in 1..K : /\ ends[i-1] <= ends[i]
                         /\ i > 1 => ends[i-1] < ends[i]
                         /\ lines[i] = SubSeq(words, ends[i-1] + 1, ends[i])
                         /\ LineLen(lines[i]) > maxLen => Len(lines[i]) = 1
      /\ \A i \in 1..K-1 : LineLen(lines[i]) + words[ends[i] + 1] + 1 > maxLen
  BY DEF Laid
<1>3. K \in Nat \ {0} /\ n \in Nat \ {0} /\ lines[K] = cur
  BY <1>1
<1>4. CASE LineLen(cur) + w + 1 > maxLen
  <2> DEFINE new == Append(lines, <<w>>)
             e == [i \in 0..K+1 |-> IF i = K+1 THEN n ELSE ends[i]]
  <2>1. next.lines = lines /\ next.current = <<w>>
    BY <1>4 DEF WrapWord
  <2>2. /\ Len(new) = K + 1 /\ new[K+1] = <<w>> /\ \A i \in 1..K : new[i] = lines[i]
    <3> HIDE DEF lines, w
    <3> QED BY <1>1
  <2>3. e \in [0..K+1 -> 0..n] /\ e[0] = 0 /\ e[K+1] = n
        /\ \A i \in 0..K : e[i] = ends[i]
    <3> HIDE DEF K
    <3> QED BY <1>1, <1>2
  <2>4. <<w>> = SubSeq(words, n, n)
    <3>1. SubSeq(words, n, n) \in Seq(Nat) /\ Len(SubSeq(words, n, n)) = 1
          /\ SubSeq(words, n, n)[1] = w
      BY <1>1
    <3> DEFINE s == SubSeq(words, n, n)
               t == <<w>>
    <3>2. t \in Seq(Nat) /\ Len(t) = 1 /\ t[1] = w
      BY <1>1
    <3> HIDE DEF s, t, w
    <3>3. \A i \in 1..Len(s) : s[i] = t[i]
      BY <3>1, <3>2 DEF s
    <3>4. s = t
      BY <3>1, <3>2, <3>3, SeqEqual DEF s
    <3> QED BY <3>4 DEF s, t
  <2> HIDE DEF e, new, lines, K, w, cur
  <2>5. ASSUME NEW i \in 1..K+1
        PROVE  /\ e[i-1] <= e[i]
               /\ i > 1 => e[i-1] < e[i]
               /\ new[i] = SubSeq(words, e[i-1] + 1, e[i])
               /\ LineLen(new[i]) > maxLen => Len(new[i]) = 1
    <3>1. CASE i \in 1..K
      <4>1. i-1 \in 0..K /\ i \in 0..K
        BY <1>1, <3>1
      <4>2. e[i-1] = ends[i-1] /\ e[i] = ends[i] /\ new[i] = lines[i]
        BY <2>2, <2>3, <3>1, <4>1
      <4> QED BY <1>2, <3>1, <4>2
    <3>2. CASE i = K+1
      <4>1. i - 1 = K /\ K \in 0..K
        BY <1>3, <3>2
      <4>2. e[K] = n - 1
        BY <1>2, <2>3, <4>1
      <4>3. e[i-1] = n - 1 /\ e[i] = n /\ new[i] = <<w>>
        BY <2>2, <2>3, <3>2, <4>1, <4>2
      <4>4. n-1+1 = n /\ n-1 < n /\ n-1 <= n
        BY <1>3
      <4>5. Len(<<w>>) = 1
        OBVIOUS
      <4> QED BY <2>4, <4>3, <4>4, <4>5
    <3> QED BY <1>3, <3>1, <3>2
  <2>6. ASSUME NEW i \in 1..K
        PROVE  LineLen(new[i]) + words[e[i] + 1] + 1 > maxLen
    <3>1. CASE i \in 1..K-1
      <4>1. e[i] = ends[i] /\ new[i] = lines[i]
        BY <1>1, <2>2, <2>3, <3>1
      <4> QED BY <1>2, <3>1, <4>1
    <3>2. CASE i = K
      <4>1. K \in 0..K /\ K \in 1..K
        BY <1>3
      <4>2. e[K] = n - 1 /\ new[K] = cur
        BY <1>3, <1>2, <2>2, <2>3, <4>1
      <4> e[i] + 1 = n /\ new[i] = cur
        BY <1>3, <3>2, <4>2
      <4> QED BY <1>4 DEF w
    <3> QED BY <1>3, <3>1, <3>2
  <2>7. Laid(words, n, new, e, maxLen)
    <3> Len(new) - 1 = K
      BY <1>1, <2>2
    <3> QED BY <2>2, <2>3, <2>5, <2>6 DEF Laid
  <2> QED BY <2>1, <2>7 DEF new, lines
<1>5. CASE ~(LineLen(cur) + w + 1 > maxLen)
  <2> DEFINE grown == Append(cur, w)
             new == Append(closed, grown)
             e == [i \in 0..K |-> IF i = K THEN n ELSE ends[i]]
  <2>1. next.lines = closed /\ next.current = grown
    BY <1>5 DEF WrapWord, Wraps
  <2>2. grown \in Seq(Nat) /\ Len(new) = K /\ new[K] = grown
        /\ \A i \in 1..K-1 : new[i] = lines[i]
    <3> grown \in Seq(Nat)
      BY <1>1
    <3> HIDE DEF closed, cur, w, grown
    <3> QED BY <1>1
  <2>3. e \in [0..K -> 0..n] /\ e[0] = 0 /\ e[K] = n
        /\ \A i \in 0..K-1 : e[i] = ends[i]
    <3> HIDE DEF K
    <3> QED BY <1>1, <1>2
  <2>4. LineLen(cur) \in Nat /\ (cur # <<>> => LineLen(grown) = LineLen(cur) + 1 + w)
    BY <1>1, LineLenGrows
  <2>5. LineLen(grown) > maxLen => Len(grown) = 1
    <3>1. cur = <<>> => Len(grown) = 1
      OBVIOUS
    <3> HIDE DEF cur, grown, w
    <3> QED BY <1>1, <1>5, <2>4, <3>1
  <2>6. ends[K-1] \in 0..n-1 /\ ends[K-1] + 1 \in 1..n
    <3> HIDE DEF K
    <3> QED BY <1>1, <1>2
  <2>7. grown = SubSeq(words, ends[K-1] + 1, n)
    <3> DEFINE m == ends[K-1] + 1
    <3>1. cur = SubSeq(words, m, n-1)
      <4> HIDE DEF lines, K, cur
      <4> K \in 1..K
        BY <1>1
      <4> QED BY <1>1, <1>2
    <3>2. grown = cur \o <<w>>
      BY <1>1, AppendIsConcat
    <3>3. m \in 1..Len(words) /\ n \in m..Len(words)
      BY <1>1, <2>6
    <3> HIDE DEF m, cur, w, grown
    <3>4. SubSeq(words, m, n) = SubSeq(words, m, n-1) \o <<words[n]>>
      BY <3>3, SubSeqRecursiveSecond
    <3> QED BY <3>1, <3>2, <3>4 DEF m, w
  <2> HIDE DEF e, new, lines, K, w, cur, grown, closed
  <2>8. ASSUME NEW i \in 1..K
        PROVE  /\ e[i-1] <= e[i]
               /\ i > 1 => e[i-1] < e[i]
               /\ new[i] = SubSeq(words, e[i-1] + 1, e[i])
               /\ LineLen(new[i]) > maxLen => Len(new[i]) = 1
    <3>1. CASE i \in 1..K-1
      <4>1. i-1 \in 0..K-1 /\ i \in 0..K-1 /\ i \in 1..K
        BY <1>1, <3>1
      <4>2. e[i-1] = ends[i-1] /\ e[i] = ends[i] /\ new[i] = lines[i]
        BY <2>2, <2>3, <3>1, <4>1
      <4> QED BY <1>2, <4>1, <4>2
    <3>2. CASE i = K
      <4>1. K-1 \in 0..K-1
        BY <1>3
      <4>2. e[i-1] = ends[K-1] /\ e[i] = n /\ new[i] = grown
        BY <2>2, <2>3, <3>2, <4>1
      <4>3. ends[K-1] <= n /\ ends[K-1] < n
        BY <1>3, <2>6
      <4> QED BY <2>5, <2>7, <4>2, <4>3
    <3> QED BY <1>3, <3>1, <3>2
  <2>9. ASSUME NEW i \in 1..K-1
        PROVE  LineLen(new[i]) + words[e[i] + 1] + 1 > maxLen
    <3>1. i \in 0..K-1
      BY <1>1
    <3>2. e[i] = ends[i] /\ new[i] = lines[i]
      BY <2>2, <2>3, <3>1
    <3> QED BY <1>2, <3>2
  <2>10. Laid(words, n, new, e, maxLen)
    BY <2>2, <2>3, <2>8, <2>9 DEF Laid
  <2> QED BY <2>1, <2>10 DEF new
<1> QED BY <1>4, <1>5

\* FlattenSeq is the last of the concatenations from the left.
LEMMA FlattenIs ==
    ASSUME NEW seqs, Len(seqs) \in Nat \ {0}, NEW flat,
           flat = [i \in 1..Len(seqs) |->
                     IF i = 1 THEN seqs[i] ELSE flat[i-1] \o seqs[i]]
    PROVE  FlattenSeq(seqs) = flat[Len(seqs)]
<1> DEFINE N == Len(seqs)
           Eq(g) == g = [i \in 1..N |-> IF i = 1 THEN seqs[i] ELSE g[i-1] \o seqs[i]]
           all == CHOOSE g : Eq(g)
           S == {k \in 0..N : k # 0 => all[k] = flat[k]}
<1>1. Eq(all)
  <2> Eq(flat)
    OBVIOUS
  <2> HIDE DEF Eq
  <2> QED BY Zenon
<1>2. FlattenSeq(seqs) = all[N]
  <2> FlattenSeq(seqs) = IF N = 0 THEN seqs ELSE all[N]
    BY Zenon DEF FlattenSeq
  <2> HIDE DEF all
  <2> QED OBVIOUS
<1>3. \A g, k : Eq(g) /\ k \in 1..N => g[k] = IF k = 1 THEN seqs[k] ELSE g[k-1] \o seqs[k]
  OBVIOUS
<1>4. ASSUME NEW k \in 1..N, k-1 \in S PROVE k \in S
  <2>1. all[k] = IF k = 1 THEN seqs[k] ELSE all[k-1] \o seqs[k]
    <3> HIDE DEF all, Eq
    <3> QED BY <1>1, <1>3
  <2>2. flat[k] = IF k = 1 THEN seqs[k] ELSE flat[k-1] \o seqs[k]
    <3> Eq(flat)
      OBVIOUS
    <3> HIDE DEF Eq
    <3> QED BY <1>3
  <2> HIDE DEF all
  <2> QED BY <1>4, <2>1, <2>2
<1>5. 0..N \subseteq S
  <2> 0 \in S
    OBVIOUS
  <2> N \in Nat
    OBVIOUS
  <2> HIDE DEF S, N
  <2> QED BY <1>4, UpTo
<1>6. N \in 0..N /\ N # 0
  OBVIOUS
<1>7. all[N] = flat[N]
  <2> HIDE DEF all, N
  <2> QED BY <1>5, <1>6
<1> QED BY <1>2, <1>7

\* wrapText lays out all the words.
LEMMA WrapLays ==
    ASSUME NEW words \in Seq(Nat), NEW maxLen \in Nat
    PROVE  /\ WrapText(words, maxLen) \in Seq(Seq(Nat))
           /\ Len(WrapText(words, maxLen)) >= 1
           /\ \E ends : Laid(words, Len(words), WrapText(words, maxLen), ends, maxLen)
<1> DEFINE N == Len(words)
<1>1. PICK after \in [0..N -> Wraps] : Wrapping(after, words, maxLen)
  BY WrapRounds
<1>2. /\ after[0] = Blank
      /\ \A k \in 1..N : after[k] = WrapWord(after[k-1], words[k], maxLen)
      /\ WrapText(words, maxLen) = Append(after[N].lines, after[N].current)
  BY <1>1 DEF Wrapping
<1> DEFINE lines(k) == Append(after[k].lines, after[k].current)
           LaidOut(k) == \E ends : Laid(words, k, lines(k), ends, maxLen)
           S == {k \in 0..N : LaidOut(k)}
<1>3. N \in Nat
  OBVIOUS
<1>4. LaidOut(0)
  <2> DEFINE e == [i \in 0..1 |-> 0]
  <2>1. lines(0) = << <<>> >>
    <3> after[0].lines = <<>> /\ after[0].current = <<>>
      BY <1>2 DEF Blank
    <3> Append(<<>>, <<>>) = << <<>> >>
      OBVIOUS
    <3> QED OBVIOUS
  <2>2. Len(<< <<>> >>) = 1 /\ << <<>> >>[1] = <<>>
    OBVIOUS
  <2>3. SubSeq(words, 0 + 1, 0) = <<>>
    BY SubSeqEmpty
  <2>4. LineLen(<<>>) = 0
    BY LineLenGrows
  <2>5. Laid(words, 0, << <<>> >>, e, maxLen)
    <3> DEFINE L == << <<>> >>
    <3>1. Len(L) = 1 /\ L[1] = <<>>
      BY <2>2
    <3>2. e \in [0..1 -> 0..0] /\ e[0] = 0 /\ e[1] = 0
      OBVIOUS
    <3> HIDE DEF L, e
    <3>3. ASSUME NEW i \in 1..1
          PROVE  /\ e[i-1] <= e[i]
                 /\ i > 1 => e[i-1] < e[i]
                 /\ L[i] = SubSeq(words, e[i-1] + 1, e[i])
                 /\ LineLen(L[i]) > maxLen => Len(L[i]) = 1
      <4>1. i = 1 /\ i - 1 = 0
        OBVIOUS
      <4>2. e[i-1] = 0 /\ e[i] = 0 /\ L[i] = <<>>
        BY <3>1, <3>2, <4>1
      <4> QED BY <2>4, <2>3, <4>1, <4>2
    <3>4. Laid(words, 0, L, e, maxLen)
      <4> 1..1-1 = {}
        OBVIOUS
      <4> QED BY <3>1, <3>2, <3>3 DEF Laid
    <3> QED BY <3>4 DEF L
  <2> HIDE DEF e, lines
  <2> QED BY <2>1, <2>5
<1>5. ASSUME NEW k \in 1..N, k-1 \in S PROVE k \in S
  <2>1. k \in 0..N /\ k-1 \in 0..N
    BY <1>3
  <2>2. after[k-1] \in Wraps /\ after[k] = WrapWord(after[k-1], words[k], maxLen)
    BY <1>2, <2>1
  <2>3. PICK ends : Laid(words, k-1, lines(k-1), ends, maxLen)
    BY <1>5
  <2>4. LaidOut(k)
    BY <2>2, <2>3, WrapWordLays
  <2> HIDE DEF LaidOut
  <2> QED BY <2>1, <2>4
<1>6. LaidOut(N)
  <2> HIDE DEF LaidOut
  <2>1. 0 \in S
    BY <1>3, <1>4
  <2>2. 0..N \subseteq S
    <3> HIDE DEF S, N
    <3> QED BY <1>3, <1>5, <2>1, UpTo
  <2> QED BY <1>3, <2>2
<1>7. lines(N) \in Seq(Seq(Nat)) /\ Len(lines(N)) >= 1
  <2> after[N] \in Wraps
    BY <1>3
  <2> after[N].lines \in Seq(Seq(Nat)) /\ after[N].current \in Seq(Nat)
    BY DEF Wraps
  <2> HIDE DEF N
  <2> QED OBVIOUS
<1> QED BY <1>2, <1>6, <1>7

\* Of words that are laid out: the lengths of the lines, and that the ends grow
\* from line to line.
LEMMA LaidFacts ==
    ASSUME NEW words \in Seq(Nat), NEW lines, NEW ends, NEW maxLen \in Nat,
           Len(lines) \in Nat \ {0}, Laid(words, Len(words), lines, ends, maxLen)
    PROVE  /\ \A i \in 0..Len(lines) : ends[i] \in 0..Len(words)
           /\ \A i \in 1..Len(lines) :
                /\ lines[i] \in Seq(Nat)
                /\ Len(lines[i]) = ends[i] - ends[i-1]
                /\ lines[i] = <<>> => i = 1
           /\ \A i, j \in 0..Len(lines) : i <= j => ends[i] <= ends[j]
<1> DEFINE K == Len(lines)
           N == Len(words)
<1>1. /\ N \in Nat /\ ends \in [0..K -> 0..N]
      /\ \A i \in 1..K : /\ ends[i-1] <= ends[i]
                         /\ i > 1 => ends[i-1] < ends[i]
                         /\ lines[i] = SubSeq(words, ends[i-1] + 1, ends[i])
  BY DEF Laid
<1>2. \A i \in 0..K : ends[i] \in 0..N
  BY <1>1
<1>3. ASSUME NEW i \in 1..K
      PROVE  /\ lines[i] \in Seq(Nat)
             /\ Len(lines[i]) = ends[i] - ends[i-1]
             /\ lines[i] = <<>> => i = 1
  <2> DEFINE a == ends[i-1]
             b == ends[i]
  <2>1. i-1 \in 0..K /\ i \in 0..K
    OBVIOUS
  <2>2. a \in 0..N /\ b \in 0..N /\ a <= b /\ (i > 1 => a < b)
        /\ lines[i] = SubSeq(words, a + 1, b)
    BY <1>1, <2>1
  <2> HIDE DEF a, b, N
  <2>3. /\ SubSeq(words, a + 1, b) \in Seq(Nat)
        /\ Len(SubSeq(words, a + 1, b)) = b - a
    BY <1>1, <2>2 DEF N
  <2>4. Len(lines[i]) = b - a /\ lines[i] \in Seq(Nat)
    BY <2>2, <2>3
  <2>5. lines[i] = <<>> => b - a = 0
    BY <2>4
  <2> QED BY <1>1, <2>2, <2>4, <2>5 DEF a, b
<1>4. ASSUME NEW j \in 0..K PROVE \A i \in 0..K : i <= j => ends[i] <= ends[j]
  <2> DEFINE S == {k \in 0..K : \A i \in 0..K : i <= k => ends[i] <= ends[k]}
  <2>1. 0 \in S
    BY <1>2
  <2>2. ASSUME NEW k \in 1..K, k-1 \in S PROVE k \in S
    <3> SUFFICES ASSUME NEW i \in 0..K, i <= k PROVE ends[i] <= ends[k]
      OBVIOUS
    <3>1. CASE i = k
      BY <1>2, <3>1
    <3>2. CASE i <= k-1
      <4>1. k-1 \in 0..K /\ k \in 0..K
        OBVIOUS
      <4>2. ends[i] <= ends[k-1] /\ ends[k-1] <= ends[k]
        BY <1>1, <2>2, <3>2
      <4>3. ends[i] \in Int /\ ends[k-1] \in Int /\ ends[k] \in Int
        BY <1>2, <4>1
      <4> QED BY <4>2, <4>3
    <3> QED BY <3>1, <3>2
  <2>3. 0..K \subseteq S
    <3> HIDE DEF S, K
    <3> QED BY <2>1, <2>2, UpTo DEF K
  <2> QED BY <2>3
<1> QED BY <1>2, <1>3, <1>4

\* The lines one after the other are the words.
LEMMA WrapKeepsWords ==
    ASSUME NEW words \in Seq(Nat), NEW lines, NEW ends, NEW maxLen \in Nat,
           Len(lines) \in Nat \ {0}, Laid(words, Len(words), lines, ends, maxLen)
    PROVE  FlattenSeq(lines) = words
<1> DEFINE K == Len(lines)
           N == Len(words)
           flat == [i \in 1..K |-> SubSeq(words, 1, ends[i])]
<1>1. /\ N \in Nat /\ ends[0] = 0 /\ ends[K] = N
      /\ \A i \in 0..K : ends[i] \in 0..N
      /\ \A i \in 1..K : /\ ends[i-1] <= ends[i]
                         /\ lines[i] = SubSeq(words, ends[i-1] + 1, ends[i])
  BY LaidFacts DEF Laid
<1>2. ASSUME NEW i \in 1..K
      PROVE  flat[i] = IF i = 1 THEN lines[i] ELSE flat[i-1] \o lines[i]
  <2>1. CASE i = 1
    <3> ends[i-1] + 1 = 1
      BY <1>1, <2>1
    <3> QED BY <1>1, <2>1
  <2>2. CASE i # 1
    <3> DEFINE a == ends[i-1]
               b == ends[i]
    <3>1. i-1 \in 0..K /\ i \in 0..K /\ i-1 \in 1..K
      BY <2>2
    <3>2. a \in 0..N /\ b \in 0..N /\ a <= b
      BY <1>1, <3>1
    <3>3. flat[i] = SubSeq(words, 1, b) /\ flat[i-1] = SubSeq(words, 1, a)
          /\ lines[i] = SubSeq(words, a + 1, b)
      BY <1>1, <3>1
    <3>4. SubSeq(words, 1, a) \o SubSeq(words, a + 1, b) = SubSeq(words, 1, b)
      <4> 1 \in 1..N+1 /\ a \in 1-1..N /\ b \in a..N
        BY <1>1, <3>2
      <4> HIDE DEF a, b
      <4> QED BY ConcatAdjacentSubSeq
    <3> HIDE DEF flat, a, b
    <3> QED BY <2>2, <3>3, <3>4
  <2> QED BY <2>1, <2>2
<1>3. flat = [i \in 1..K |-> IF i = 1 THEN lines[i] ELSE flat[i-1] \o lines[i]]
  <2> DEFINE g == [i \in 1..K |-> IF i = 1 THEN lines[i] ELSE flat[i-1] \o lines[i]]
  <2>1. flat = [i \in 1..K |-> flat[i]]
    OBVIOUS
  <2>2. g = [i \in 1..K |-> g[i]]
    <3> HIDE DEF flat
    <3> QED OBVIOUS
  <2>3. \A i \in 1..K : flat[i] = g[i]
    <3> HIDE DEF flat
    <3> QED BY <1>2
  <2>4. flat = g
    <3> HIDE DEF flat, g
    <3> QED BY <2>1, <2>2, <2>3
  <2> HIDE DEF flat
  <2> QED BY <2>4
<1>4. FlattenSeq(lines) = flat[K]
  <2> HIDE DEF flat
  <2> QED BY <1>3, FlattenIs
<1>5. flat[K] = SubSeq(words, 1, N)
  BY <1>1
<1> QED BY <1>4, <1>5, SubSeqFull

\* Any layout whose lines fit breaks within the reach of every line that
\* wrapText closed: after a word of that line.
LEMMA WrapNeedsBreaks ==
    ASSUME NEW words \in Seq(Nat), NEW lines, NEW ends, NEW maxLen \in Nat,
           Len(lines) \in Nat \ {0}, Laid(words, Len(words), lines, ends, maxLen),
           NEW breaks \in SUBSET (1..Len(words) - 1), Fits(words, breaks, maxLen),
           NEW i \in 1..Len(lines) - 1, lines[i] # <<>>
    PROVE  \E x \in breaks : ends[i-1] < x /\ x <= ends[i]
<1> DEFINE K == Len(lines)
           N == Len(words)
           a == ends[i-1]
           b == ends[i]
           w == words[b+1]
<1>1. i-1 \in 0..K /\ i \in 0..K /\ i+1 \in 0..K /\ i \in 1..K /\ i+1 \in 1..K
  <2>1. K \in Nat
    BY Zenon
  <2>2. i \in 1..K-1
    BY Zenon
  <2> HIDE DEF K
  <2> QED BY <2>1, <2>2
<1>2. a \in 0..N /\ b \in 0..N /\ N \in Nat /\ lines[i] \in Seq(Nat) /\ Len(lines[i]) = b - a
  BY <1>1, LaidFacts
<1>3. b < N
  <2>1. (i+1) - 1 = i /\ i + 1 > 1
    BY <1>1
  <2>2. ends[i] < ends[i+1]
    BY <1>1, <2>1 DEF Laid
  <2>3. ends[i+1] \in 0..N
    BY <1>1, LaidFacts
  <2> QED BY <1>2, <2>2, <2>3
<1>4. a < b
  <2> Len(lines[i]) # 0
    BY <1>2
  <2> a \in Int /\ b \in Int /\ Len(lines[i]) \in Nat
    BY <1>2
  <2> QED BY <1>2
<1>5. w \in Nat /\ LineLen(lines[i]) + w + 1 > maxLen /\ lines[i] = SubSeq(words, a+1, b)
  <2> b + 1 \in 1..N
    BY <1>2, <1>3
  <2> QED BY <1>1 DEF Laid
<1>6. SubSeq(words, a+1, b+1) = Append(lines[i], w)
  <2>1. a+1 \in 1..N /\ b+1 \in (a+1)..N /\ (b+1)-1 = b
    <3> HIDE DEF a, b, N
    <3> QED BY <1>2, <1>3, <1>4
  <2>2. SubSeq(words, a+1, b+1) = SubSeq(words, a+1, b) \o <<words[b+1]>>
    <3> HIDE DEF a, b
    <3> QED BY <2>1, SubSeqRecursiveSecond
  <2>3. Append(lines[i], w) = lines[i] \o <<w>>
    <3> HIDE DEF w
    <3> QED BY <1>2, <1>5, AppendIsConcat
  <2> QED BY <1>5, <2>2, <2>3
<1>7. LineLen(SubSeq(words, a+1, b+1)) > maxLen
  <2> DEFINE line == lines[i]
  <2>1. line \in Seq(Nat) /\ line # <<>> /\ w \in Nat /\ LineLen(line) + w + 1 > maxLen
    BY <1>2, <1>5
  <2> HIDE DEF line, w
  <2>2. LineLen(Append(line, w)) = LineLen(line) + 1 + w /\ LineLen(line) \in Nat
    BY <2>1, LineLenGrows
  <2>3. LineLen(Append(line, w)) > maxLen
    BY <2>1, <2>2
  <2> QED BY <1>6, <2>3 DEF line
<1>8. a+1 \in 1..N /\ b+1 \in 1..N /\ a+1 < b+1
  <2> HIDE DEF a, b, N
  <2> QED BY <1>2, <1>3, <1>4
<1>9. breaks \cap ((a+1) .. (b+1)-1) # {}
  <2>1. a+1 \in 1..N /\ b+1 \in 1..N /\ a+1 < b+1
    BY <1>8
  <2>2. LineLen(SubSeq(words, a+1, b+1)) \in Int
    <3>1. SubSeq(words, a+1, b+1) \in Seq(Nat)
      <4> DEFINE line == lines[i]
      <4> line \in Seq(Nat) /\ w \in Nat
        BY <1>2, <1>5
      <4> HIDE DEF line, w
      <4> Append(line, w) \in Seq(Nat)
        OBVIOUS
      <4> QED BY <1>6 DEF line
    <3> DEFINE part == SubSeq(words, a+1, b+1)
    <3>2. part \in Seq(Nat) /\ 0 \in Nat
      BY <3>1
    <3> HIDE DEF part
    <3>3. LineLen(part) \in Nat
      BY <3>2, LineLenGrows
    <3> QED BY <3>3 DEF part
  <2>3. ~(LineLen(SubSeq(words, a+1, b+1)) <= maxLen)
    BY <1>7, <2>2
  <2> HIDE DEF a, b
  <2> QED BY <2>1, <2>3 DEF Fits
<1>10. PICK x \in breaks : x \in (a+1) .. (b+1)-1
  BY <1>9
<1>11. a < x /\ x <= b
  BY <1>2, <1>10
<1> QED BY <1>11

\* WrapIsTight for every text and every width: wrapText shows the words in
\* their order, on lines that fit unless a single word is longer than a line,
\* and on no more lines than any layout that fits, but for a blank first line.
\* Two lines cannot share a break of the other layout, so it has a break for
\* each line but the last.
THEOREM WrapTextIsTight ==
    ASSUME NEW words \in Seq(Nat), NEW maxLen \in Nat
    PROVE  WrapIsTight(words, maxLen)
<1> DEFINE lines == WrapText(words, maxLen)
           K == Len(lines)
           N == Len(words)
           filled == {i \in DOMAIN lines : lines[i] # <<>>}
<1>1. lines \in Seq(Seq(Nat)) /\ K \in Nat \ {0} /\ DOMAIN lines = 1..K
  <2>1. lines \in Seq(Seq(Nat)) /\ K >= 1
    BY WrapLays
  <2> HIDE DEF lines
  <2> QED BY <2>1
<1>2. PICK ends : Laid(words, N, lines, ends, maxLen)
  BY WrapLays
<1>3. FlattenSeq(lines) = words
  <2> HIDE DEF lines
  <2> QED BY <1>1, <1>2, WrapKeepsWords
<1>4. ASSUME NEW i \in 1..K
      PROVE  /\ LineLen(lines[i]) > maxLen => Len(lines[i]) = 1
             /\ lines[i] = <<>> => i = 1
  <2>1. LineLen(lines[i]) > maxLen => Len(lines[i]) = 1
    <3> HIDE DEF lines
    <3> QED BY <1>1, <1>2 DEF Laid
  <2>2. lines[i] = <<>> => i = 1
    <3> HIDE DEF lines
    <3> QED BY <1>1, <1>2, LaidFacts
  <2> QED BY <2>1, <2>2
<1>5. ASSUME NEW breaks \in Layouts(words), Fits(words, breaks, maxLen)
      PROVE  Cardinality(filled) <= Cardinality(breaks) + 1
  <2> DEFINE closed == {i \in 1..K-1 : lines[i] # <<>>}
             In(i, x) == ends[i-1] < x /\ x <= ends[i]
             f == [i \in closed |-> CHOOSE x \in breaks : In(i, x)]
  <2>1. breaks \in SUBSET (1..N - 1) /\ N \in Nat
    BY <1>5 DEF Layouts
  <2>2. IsFiniteSet(breaks) /\ Cardinality(breaks) \in Nat
    <3> IsFiniteSet(1..N - 1)
      BY <2>1, FS_Interval
    <3> HIDE DEF N
    <3> QED BY <2>1, FS_Subset, FS_CardinalityType
  <2>3. ASSUME NEW i \in closed PROVE f[i] \in breaks /\ In(i, f[i])
    <3> i \in 1..K-1 /\ lines[i] # <<>>
      OBVIOUS
    <3> \E x \in breaks : In(i, x)
      <4> HIDE DEF lines, closed
      <4> QED BY <1>1, <1>2, <1>5, <2>1, WrapNeedsBreaks
    <3> HIDE DEF In, closed
    <3> QED OBVIOUS
  <2>4. ASSUME NEW i \in closed, NEW j \in closed, i < j PROVE f[i] # f[j]
    <3>1. i \in 0..K /\ j-1 \in 0..K /\ i <= j-1 /\ i-1 \in 0..K /\ j \in 0..K
      BY <1>1, <2>4
    <3>2. ends[i] <= ends[j-1] /\ ends[i] \in Int /\ ends[j-1] \in Int
      <4> HIDE DEF lines
      <4>1. /\ \A k \in 0..K : ends[k] \in 0..N
            /\ \A k, l \in 0..K : k <= l => ends[k] <= ends[l]
        BY <1>1, <1>2, LaidFacts
      <4>2. ends[i] \in 0..N /\ ends[j-1] \in 0..N /\ ends[i] <= ends[j-1]
        <5> HIDE DEF K, N, closed
        <5> QED BY <3>1, <4>1
      <4> QED BY <4>2
    <3>3. f[i] <= ends[i] /\ ends[j-1] < f[j]
      <4> HIDE DEF f, closed
      <4> QED BY <2>3
    <3>4. f[i] \in Int /\ f[j] \in Int
      <4>1. f[i] \in breaks /\ f[j] \in breaks
        <5> HIDE DEF f, closed, In
        <5> QED BY <2>3
      <4>2. breaks \subseteq Int
        <5> HIDE DEF N
        <5> QED BY <2>1
      <4> HIDE DEF f, closed
      <4> QED BY <4>1, <4>2
    <3> HIDE DEF f
    <3> QED BY <3>2, <3>3, <3>4
  <2>5. f \in Injection(closed, breaks)
    <3>1. f \in [closed -> breaks]
      <4> f = [i \in closed |-> f[i]]
        OBVIOUS
      <4> HIDE DEF f, closed
      <4> QED BY <2>3
    <3>2. ASSUME NEW i \in closed, NEW j \in closed, f[i] = f[j] PROVE i = j
      <4> i \in Int /\ j \in Int
        OBVIOUS
      <4> HIDE DEF f, closed
      <4> QED BY <2>4, <3>2
    <3> HIDE DEF f, closed
    <3> QED BY <3>1, <3>2 DEF Injection, IsInjective
  <2>6. IsFiniteSet(closed) /\ Cardinality(closed) <= Cardinality(breaks)
    <3> HIDE DEF f, closed
    <3> QED BY <2>2, <2>5, FS_Injection
  <2>7. filled \subseteq closed \cup {K}
    <3> HIDE DEF lines
    <3> QED BY <1>1
  <2>8. Cardinality(filled) <= Cardinality(closed) + 1
    <3>1. IsFiniteSet(closed \cup {K}) /\ Cardinality(closed \cup {K}) <= Cardinality(closed) + 1
          /\ Cardinality(closed) \in Nat
      <4>1. IsFiniteSet(closed) /\ Cardinality(closed) \in Nat
        <5> HIDE DEF closed
        <5> QED BY <2>6, FS_CardinalityType
      <4> DEFINE x == K
      <4>2. IsFiniteSet(closed \cup {x})
            /\ Cardinality(closed \cup {x}) =
                 IF x \in closed THEN Cardinality(closed) ELSE Cardinality(closed) + 1
        <5> HIDE DEF closed, x
        <5> QED BY <4>1, FS_AddElement
      <4> HIDE DEF closed
      <4> QED BY <4>1, <4>2
    <3>2. IsFiniteSet(filled) /\ Cardinality(filled) <= Cardinality(closed \cup {K})
          /\ Cardinality(filled) \in Nat /\ Cardinality(closed \cup {K}) \in Nat
      <4> HIDE DEF closed, K, filled
      <4> QED BY <2>7, <3>1, FS_Subset, FS_CardinalityType
    <3> HIDE DEF closed, K, filled
    <3> QED BY <3>1, <3>2
  <2>9. Cardinality(filled) \in Nat /\ Cardinality(closed) \in Nat
    <3>1. Cardinality(closed) \in Nat /\ IsFiniteSet(closed \cup {K})
      <4> HIDE DEF closed, K
      <4> QED BY <2>6, FS_AddElement, FS_CardinalityType
    <3> HIDE DEF closed, K, filled
    <3> QED BY <2>7, <3>1, FS_Subset, FS_CardinalityType
  <2> HIDE DEF closed, filled
  <2> QED BY <2>2, <2>6, <2>8, <2>9
<1> HIDE DEF lines
<1> QED BY <1>1, <1>3, <1>4, <1>5 DEF WrapIsTight, lines

-----------------------------------------------------------------------------
(***************************************************************************)
(* The spellings of an answer.                                             *)
(***************************************************************************)
\* The decoder of ports returns the ports, as numbers and under either key or
\* both.
LEMMA PortsDecoded ==
    ASSUME NEW ports \in Seq(Nat \ {0}),
           NEW form \in {"number", "containerPort", "port", "both"}
    PROVE  DecodePorts([i \in DOMAIN ports |-> Item(ports[i], form)]) = ports
<1> DEFINE N == Len(ports)
           items == [i \in DOMAIN ports |-> Item(ports[i], form)]
<1> SUFFICES DecodePorts(items) = ports
  OBVIOUS
<1>1. N \in Nat /\ DOMAIN ports = 1..N /\ \A i \in 1..N : ports[i] \in Nat \ {0}
  OBVIOUS
<1>2. DOMAIN items = 1..N /\ \A i \in 1..N : items[i] = Item(ports[i], form)
  BY <1>1
<1>3. ASSUME NEW i \in 1..N, form = "number"
      PROVE  items[i].form = "number" /\ items[i].port = ports[i]
  BY <1>2, <1>3 DEF Item
<1>4. ASSUME NEW i \in 1..N, form # "number"
      PROVE  items[i].form = "object" /\ ObjectPort(items[i]) = <<ports[i]>>
  <2>1. ports[i] \in Nat /\ ports[i] > 0
    BY <1>1
  <2> DEFINE item == [form |-> "object",
                      containerPort |-> IF form = "port" THEN 0 ELSE ports[i],
                      port |-> IF form = "containerPort" THEN 0 ELSE
                               IF form = "port" THEN ports[i] ELSE ports[i] + 1]
  <2>2. items[i] = item
    BY <1>2, <1>4 DEF Item
  <2>3. item.form = "object" /\ ObjectPort(item) = <<ports[i]>>
    BY <2>1, <1>4 DEF ObjectPort
  <2> QED BY <2>2, <2>3
<1>5. ASSUME NEW s, s = [i \in 1..N |-> ports[i]] PROVE s = ports
  <2> s \in Seq(Nat \ {0}) /\ Len(s) = N /\ \A i \in 1..N : s[i] = ports[i]
    BY <1>1, <1>5
  <2> QED BY SeqEqual
<1>6. CASE form = "number" \/ N = 0
  <2>1. \A i \in DOMAIN items : items[i].form = "number" /\ items[i].port = ports[i]
    BY <1>1, <1>2, <1>3, <1>6
  <2>2. DecodePorts(items) = [i \in DOMAIN items |-> items[i].port]
    <3> HIDE DEF items
    <3> QED BY <2>1 DEF DecodePorts
  <2>3. [i \in DOMAIN items |-> items[i].port] = [i \in 1..N |-> ports[i]]
    <3> HIDE DEF items
    <3> QED BY <1>2, <2>1
  <2> HIDE DEF items
  <2> QED BY <1>5, <2>2, <2>3
<1>7. CASE form # "number" /\ N # 0
  <2> DEFINE seqs == [i \in DOMAIN items |-> ObjectPort(items[i])]
             flat == [i \in 1..N |-> SubSeq(ports, 1, i)]
  <2>1. ~(\A i \in DOMAIN items : items[i].form = "number")
    <3> 1 \in 1..N
      BY <1>1, <1>7
    <3> HIDE DEF items
    <3> QED BY <1>2, <1>4, <1>7
  <2>2. \A i \in DOMAIN items : items[i].form = "object"
    BY <1>2, <1>4, <1>7
  <2>3. DecodePorts(items) = FlattenSeq(seqs)
    <3> HIDE DEF items
    <3> QED BY <2>1, <2>2 DEF DecodePorts
  <2>4. seqs = [i \in 1..N |-> <<ports[i]>>]
    <3> HIDE DEF items
    <3> QED BY <1>2, <1>4, <1>7
  <2>5. Len(seqs) = N /\ \A i \in 1..N : seqs[i] = <<ports[i]>>
    <3> HIDE DEF seqs
    <3> QED BY <1>1, <2>4
  <2>6. ASSUME NEW i \in 1..N
        PROVE  flat[i] = IF i = 1 THEN seqs[i] ELSE flat[i-1] \o seqs[i]
    <3>1. SubSeq(ports, 1, i) = SubSeq(ports, 1, i-1) \o <<ports[i]>>
      <4> 1 \in 1..N /\ i \in 1..N
        BY <1>1
      <4> QED BY SubSeqRecursiveSecond
    <3>2. CASE i = 1
      <4>1. SubSeq(ports, 1, 0) = <<>>
        BY SubSeqEmpty
      <4>2. SubSeq(ports, 1, 1) = <<>> \o <<ports[i]>>
        <5> i - 1 = 0 /\ i = 1
          BY <3>2
        <5> QED BY <3>1, <4>1
      <4>3. <<>> \o <<ports[i]>> = <<ports[i]>>
        OBVIOUS
      <4>4. flat[i] = SubSeq(ports, 1, 1)
        BY <3>2
      <4> HIDE DEF flat, seqs
      <4> QED BY <2>5, <3>2, <4>2, <4>3, <4>4
    <3>3. CASE i # 1
      <4> i - 1 \in 1..N
        BY <3>3
      <4> flat[i] = SubSeq(ports, 1, i) /\ flat[i-1] = SubSeq(ports, 1, i-1)
        OBVIOUS
      <4> HIDE DEF flat, seqs
      <4> QED BY <2>5, <3>1, <3>3
    <3> QED BY <3>2, <3>3
  <2>7. flat = [i \in 1..N |-> IF i = 1 THEN seqs[i] ELSE flat[i-1] \o seqs[i]]
    <3> DEFINE g == [i \in 1..N |-> IF i = 1 THEN seqs[i] ELSE flat[i-1] \o seqs[i]]
    <3>1. flat = [i \in 1..N |-> flat[i]]
      OBVIOUS
    <3>2. g = [i \in 1..N |-> g[i]]
      <4> HIDE DEF flat, seqs
      <4> QED OBVIOUS
    <3>3. \A i \in 1..N : flat[i] = g[i]
      <4> HIDE DEF flat, seqs
      <4> QED BY <2>6
    <3>4. flat = g
      <4> HIDE DEF flat, g
      <4> QED BY <3>1, <3>2, <3>3
    <3> HIDE DEF flat, seqs
    <3> QED BY <3>4
  <2>8. FlattenSeq(seqs) = flat[N]
    <3> HIDE DEF flat, seqs
    <3> QED BY <1>1, <1>7, <2>5, <2>7, FlattenIs
  <2>9. flat[N] = ports
    <3> N \in 1..N
      BY <1>1, <1>7
    <3> flat[N] = SubSeq(ports, 1, N)
      OBVIOUS
    <3> HIDE DEF flat
    <3> QED BY SubSeqFull
  <2> HIDE DEF items, seqs, flat
  <2> QED BY <2>3, <2>8, <2>9
<1> QED BY <1>1, <1>6, <1>7

\* Hints given as an object come out complete and once each, in whatever order
\* the map is walked.
LEMMA HintsDecoded ==
    ASSUME NEW H, NEW meant \in Seq(H),
           \A i, j \in DOMAIN meant : i # j => meant[i] # meant[j],
           NEW hints \in SetToSeqs(ToSet(meant))
    PROVE  Len(hints) = Len(meant) /\ ToSet(hints) = ToSet(meant)
<1> DEFINE S == ToSet(meant)
           n == Len(meant)
<1>1. n \in Nat /\ DOMAIN meant = 1..n
  OBVIOUS
<1>2. meant \in Bijection(1..n, S)
  <2>1. \A i \in 1..n : meant[i] \in S
    BY <1>1 DEF ToSet
  <2>2. \A x \in S : \E i \in 1..n : meant[i] = x
    BY <1>1 DEF ToSet
  <2>3. meant = [i \in 1..n |-> meant[i]]
    OBVIOUS
  <2>4. meant \in [1..n -> S]
    <3> HIDE DEF S
    <3> QED BY <2>1, <2>3
  <2>5. \A i, j \in 1..n : meant[i] = meant[j] => i = j
    BY <1>1
  <2> HIDE DEF S, n
  <2> QED BY <2>2, <2>4, <2>5 DEF Bijection, Injection, Surjection, IsInjective
<1>3. IsFiniteSet(S) /\ Cardinality(S) = n
  <2> ExistsBijection(1..n, S)
    BY <1>2 DEF ExistsBijection
  <2> HIDE DEF S
  <2> QED BY <1>1, FS_CountingElements, FS_NatBijection
<1>4. hints \in [1..n -> S] /\ \A i, j \in 1..n : i # j => hints[i] # hints[j]
  <2> HIDE DEF S
  <2> hints \in SetToSeqs(S)
    BY DEF S
  <2> QED BY <1>3 DEF SetToSeqs
<1>5. hints \in Injection(1..n, S)
  <2> HIDE DEF S, n
  <2> QED BY <1>4 DEF Injection, IsInjective
<1>6. hints \in Surjection(1..n, S)
  <2> IsFiniteSet(1..n) /\ Cardinality(1..n) = n
    BY <1>1, FS_Interval
  <2> HIDE DEF S, n
  <2> QED BY <1>3, <1>5, FS_Injection
<1>7. \A x \in S : \E i \in 1..n : hints[i] = x
  <2> HIDE DEF S, n
  <2> QED BY <1>6 DEF Surjection
<1>8. DOMAIN hints = 1..n /\ Len(hints) = n
  <2> HIDE DEF S
  <2> hints \in Seq(S)
    BY <1>1, <1>4
  <2> DOMAIN hints = 1..n
    BY <1>4
  <2> QED BY <1>1, <1>4
<1>9. ToSet(hints) = S
  <2> HIDE DEF S, n
  <2> QED BY <1>4, <1>7, <1>8 DEF ToSet
<1> QED BY <1>8, <1>9

\* What a container may say: ports above 0, quantities for some of the
\* fields, a probe or none, hints that are not repeated.
Sayable(meant, Hints) ==
    /\ meant.ports \in Seq(Nat \ {0})
    /\ \E given \in SUBSET Fields : meant.resources \in [given -> Quantities]
    /\ meant.probe \in (Nat \ {0}) \cup {None}
    /\ meant.hints \in Seq(Hints)
    /\ \A i, j \in DOMAIN meant.hints : i # j => meant.hints[i] # meant.hints[j]

\* The spellings of the ports and of the hints that the decoders accept.
Accepted(form) ==
    /\ form.ports \in {"number", "containerPort", "port", "both"}
    /\ form.hints \in {"list", "object"}

\* FormsAgree for every container that can be meant and every accepted
\* spelling: the decoders of types.go and Compile give the container that was
\* meant, a flat quantity is never replaced by a nested one, and no hint is
\* lost or added.
THEOREM EverySpellingMeansTheSame ==
    ASSUME NEW meant, NEW Hints, Sayable(meant, Hints),
           NEW form, Accepted(form),
           NEW stale \in STRING
    PROVE  FormsAgree(meant, form, stale)
<1>1. PICK given \in SUBSET Fields : meant.resources \in [given -> Quantities]
  BY DEF Sayable
<1>2. /\ meant.ports \in Seq(Nat \ {0})
      /\ meant.probe \in (Nat \ {0}) \cup {None}
      /\ meant.hints \in Seq(Hints)
      /\ \A i, j \in DOMAIN meant.hints : i # j => meant.hints[i] # meant.hints[j]
  BY DEF Sayable
<1>3. /\ form.ports \in {"number", "containerPort", "port", "both"}
      /\ form.hints \in {"list", "object"}
  BY DEF Accepted
<1> DEFINE raw == RawContainer(meant, form, stale)
           block == [f \in Fields |->
                        IF f \notin DOMAIN meant.resources THEN ""
                        ELSE IF f \in form.nested THEN meant.resources[f]
                        ELSE IF form.echoed THEN stale ELSE ""]
<1>4. /\ raw.ports = [i \in DOMAIN meant.ports |-> Item(meant.ports[i], form.ports)]
      /\ raw.flat = [f \in Fields |->
                       IF f \in DOMAIN meant.resources \ form.nested
                       THEN meant.resources[f] ELSE ""]
      /\ raw.nested = IF form.nested = {} /\ ~form.echoed THEN None ELSE block
      /\ raw.probe = meant.probe
  BY DEF RawContainer
<1>5. DecodePorts(raw.ports) = meant.ports
  <2> DEFINE ports == meant.ports
  <2>1. ports \in Seq(Nat \ {0})
    BY <1>2
  <2>2. DecodePorts([i \in DOMAIN ports |-> Item(ports[i], form.ports)]) = ports
    <3> HIDE DEF ports
    <3> QED BY <1>3, <2>1, PortsDecoded
  <2> HIDE DEF raw
  <2> QED BY <1>4, <2>2
<1>6. block # None
  <2>1. \A f \in DOMAIN meant.resources : meant.resources[f] \in STRING
    BY <1>1, QuantitiesAssumption
  <2>2. ASSUME NEW f \in Fields PROVE block[f] \in STRING \cup {""}
    <3>1. block[f] = IF f \notin DOMAIN meant.resources THEN ""
                     ELSE IF f \in form.nested THEN meant.resources[f]
                     ELSE IF form.echoed THEN stale ELSE ""
      OBVIOUS
    <3> HIDE DEF block
    <3> QED BY <2>1, <3>1
  <2>3. block = [f \in Fields |-> block[f]]
    OBVIOUS
  <2> HIDE DEF block
  <2>4. block \in [Fields -> STRING \cup {""}]
    BY <2>2, <2>3
  <2> QED BY <2>4, NoneAssumption
<1>7. ASSUME NEW f \in given PROVE DecodeField(raw, f) = meant.resources[f]
  <2>1. f \in Fields /\ DOMAIN meant.resources = given
        /\ meant.resources[f] \in Quantities /\ meant.resources[f] # ""
    BY <1>1, QuantitiesAssumption
  <2>2. CASE f \in form.nested
    <3>1. raw.flat[f] = ""
      <4> HIDE DEF raw
      <4> QED BY <1>4, <2>1, <2>2
    <3>2. raw.nested = block
      <4> HIDE DEF raw, block
      <4> QED BY <1>4, <2>2
    <3>3. block[f] = meant.resources[f]
      BY <2>1, <2>2
    <3> HIDE DEF raw, block
    <3> QED BY <1>6, <3>1, <3>2, <3>3 DEF DecodeField
  <2>3. CASE f \notin form.nested
    <3>1. raw.flat[f] = meant.resources[f]
      <4> HIDE DEF raw
      <4> QED BY <1>4, <2>1, <2>3
    <3> HIDE DEF raw, block
    <3> QED BY <2>1, <3>1 DEF DecodeField
  <2> QED BY <2>2, <2>3
<1>8. ASSUME NEW f \in Fields, f \notin given PROVE DecodeField(raw, f) \notin Quantities
  <2>1. DOMAIN meant.resources = given
    BY <1>1
  <2>2. raw.flat[f] = ""
    <3> HIDE DEF raw
    <3> QED BY <1>4, <1>8, <2>1
  <2>3. block[f] = ""
    BY <1>8, <2>1
  <2>4. DecodeField(raw, f) = ""
    <3> HIDE DEF raw, block
    <3> QED BY <1>4, <2>2, <2>3 DEF DecodeField
  <2> HIDE DEF raw
  <2> QED BY <2>4, QuantitiesAssumption
<1>9. [f \in {f \in Fields : DecodeField(raw, f) \in Quantities} |-> DecodeField(raw, f)]
        = meant.resources
  <2>1. meant.resources = [f \in given |-> meant.resources[f]]
        /\ \A f \in given : meant.resources[f] \in Quantities
    BY <1>1
  <2> HIDE DEF raw
  <2>2. {f \in Fields : DecodeField(raw, f) \in Quantities} = given
    BY <1>7, <1>8, <2>1
  <2> QED BY <1>7, <2>1, <2>2
<1>10. (IF raw.probe # None /\ raw.probe > 0 THEN raw.probe ELSE None) = meant.probe
  <2> DEFINE probe == meant.probe
  <2>1. probe # None => probe \in Nat /\ probe # 0
    BY <1>2
  <2>2. (IF probe # None /\ probe > 0 THEN probe ELSE None) = probe
    <3> HIDE DEF probe
    <3> QED BY <2>1
  <2> HIDE DEF raw
  <2> QED BY <1>4, <2>2
<1>11. Container(raw)
        = [ports |-> meant.ports, resources |-> meant.resources, probe |-> meant.probe]
  <2> HIDE DEF raw
  <2> QED BY <1>5, <1>9, <1>10, Zenon DEF Container
<1>12. ASSUME NEW hints \in DecodeHints(RawHints(meant, form))
      PROVE  /\ form.hints = "list" => hints = meant.hints
             /\ Len(hints) = Len(meant.hints) /\ ToSet(hints) = ToSet(meant.hints)
  <2>1. CASE form.hints = "list"
    <3> hints = meant.hints
      BY <2>1 DEF DecodeHints, RawHints
    <3> QED OBVIOUS
  <2>2. CASE form.hints = "object"
    <3> hints \in SetToSeqs(ToSet(meant.hints))
      BY <2>2 DEF DecodeHints, RawHints
    <3> QED BY <1>2, <2>2, HintsDecoded
  <2> QED BY <1>3, <2>1, <2>2
<1> HIDE DEF raw
<1> QED BY <1>11, <1>12 DEF FormsAgree, raw

-----------------------------------------------------------------------------
(***************************************************************************)
(* The inputs of the run.                                                  *)
(***************************************************************************)
\* The inputs of MCTexts.
Inputs == CountInputs \cup DecodeInputs \cup WrapInputs \cup ScoreInputs

\* There is no input but these.
LEMMA InputsChosen == Spec => [](input # None => input \in Inputs)
<1> DEFINE Inv == input # None => input \in Inputs
<1>1. Init => Inv
  BY DEF Init
<1>2. Inv /\ [Next]_input => Inv'
  BY DEF Next, Choose, Drop, Inputs
<1> QED BY <1>1, <1>2, PTL DEF Spec

\* The kind of an input tells where it is from.
LEMMA InputsOfKind ==
    ASSUME input # None => input \in Inputs
    PROVE  /\ Is("count") => input \in CountInputs
           /\ Is("decode") => input \in DecodeInputs
           /\ Is("wrap") => input \in WrapInputs
           /\ Is("card") => input \in ScoreInputs
<1>1. \A i \in CountInputs : i.kind = "count"
  BY DEF CountInputs
<1>2. \A i \in DecodeInputs : i.kind = "decode"
  BY DEF DecodeInputs
<1>3. \A i \in WrapInputs : i.kind = "wrap"
  BY DEF WrapInputs
<1>4. \A i \in ScoreInputs : i.kind = "card"
  BY DEF ScoreInputs
<1> QED BY <1>1, <1>2, <1>3, <1>4 DEF Inputs, Is

\* Every card of the run shows its decision (PrintRationaleCard).
THEOREM CardsShowTheDecisions == Spec => []CardsShowDecisions
<1>1. ASSUME NEW i \in ScoreInputs PROVE CardShowsDecision(i.scores)
  <2>1. PICK S : i.scores \in [S -> Scores]
    BY DEF ScoreInputs
  <2>2. Scores \subseteq Int
    BY MaxIntAssumption DEF Scores
  <2>3. i.scores \in [S -> Int]
    BY <2>1, <2>2
  <2> QED BY <2>3, EveryCardShowsItsDecision
<1>2. (input # None => input \in Inputs) => CardsShowDecisions
  BY <1>1, InputsOfKind DEF CardsShowDecisions
<1> QED BY <1>2, InputsChosen, PTL

\* Every text of the run is wrapped tightly (wrapText).
THEOREM TheWrappingIsTight == Spec => []WrappingIsTight
<1>1. ASSUME NEW i \in WrapInputs PROVE WrapIsTight(i.words, LineWidth)
  <2>1. PICK m \in 0..5 : i.words \in [1..m -> {1, 2, 4, 5, 6}]
    BY DEF WrapInputs, BoundedSeq, SeqOf
  <2>2. i.words \in Seq(Nat)
    BY <2>1
  <2> QED BY <2>2, WrapTextIsTight DEF LineWidth
<1>2. (input # None => input \in Inputs) => WrappingIsTight
  BY <1>1, InputsOfKind DEF WrappingIsTight
<1> QED BY <1>2, InputsChosen, PTL

\* No count of owner pods of the run misses a replica (BuildSchedulingPrompt):
\* the pods of the run are called as EveryReplicaIsCounted assumes.
THEOREM TheReplicasAreCounted == Spec => []EveryReplicaCounted
<1> DEFINE Text == {"db", "web", "my", "-", "a", "b"}
<1>1. ASSUME NEW p \in ListedPods
      PROVE  \E set \in SetNames, suffix \in {<<"a">>, <<"b">>} :
               p.name = PodName(set, suffix) /\ OwnerGeminiSet(p.labels) = set
  <2>1. PICK set \in SetNames, suffix \in {<<"a">>, <<"b">>} :
          p.name = PodName(set, suffix) /\ p.labels \in LabelsOf(set)
    BY DEF ListedPods
  <2>2. OwnerGeminiSet(p.labels) = set
    BY <2>1 DEF LabelsOf, OwnerGeminiSet
  <2> QED BY <2>1, <2>2
<1>2. \A set \in SetNames : set \in Seq(Text)
  <2>1. <<"db">> \in Seq(Text) /\ <<"web">> \in Seq(Text)
    OBVIOUS
  <2>2. <<"my", "-", "web">> \in Seq(Text)
    OBVIOUS
  <2> HIDE DEF Text
  <2> QED BY <2>1, <2>2 DEF SetNames
<1>3. \A suffix \in {<<"a">>, <<"b">>} : suffix \in Seq(Text)
  <2> <<"a">> \in Seq(Text) /\ <<"b">> \in Seq(Text)
    OBVIOUS
  <2> HIDE DEF Text
  <2> QED OBVIOUS
<1>4. \A set, suffix \in Seq(Text) : PodName(set, suffix) \in Seq(Text)
  <2> "-" \in Text
    OBVIOUS
  <2> HIDE DEF Text
  <2> QED BY DEF PodName
<1>5. ASSUME NEW i \in CountInputs PROVE ReplicasCounted(i.pod, i.podList, {"n1", "n2"})
  <2>1. i.pod \in ListedPods /\ i.podList \in Seq(ListedPods)
    <3>1. i.pod \in ListedPods /\ i.podList \in BoundedSeq(ListedPods, 2)
      BY DEF CountInputs
    <3>2. PICK m \in 0..2 : i.podList \in [1..m -> ListedPods]
      BY <3>1 DEF BoundedSeq, SeqOf
    <3> QED BY <3>1, <3>2
  <2>2. "-" \in Text
    OBVIOUS
  <2>3. \A p \in ListedPods : p.name \in Seq(Text) /\ OwnerGeminiSet(p.labels) \in Seq(Text)
    <3> HIDE DEF Text
    <3> QED BY <1>1, <1>2, <1>3, <1>4
  <2>4. ASSUME NEW j \in DOMAIN i.podList,
               OwnerGeminiSet(i.podList[j].labels) = OwnerGeminiSet(i.pod.labels)
        PROVE  \E suffix \in Seq(Text) :
                 i.podList[j].name = PodName(OwnerGeminiSet(i.pod.labels), suffix)
    <3> i.podList[j] \in ListedPods
      BY <2>1
    <3> HIDE DEF Text
    <3> QED BY <1>1, <1>3, <2>4
  <2> HIDE DEF Text
  <2> QED BY <2>1, <2>2, <2>3, <2>4, EveryReplicaIsCounted
<1>6. (input # None => input \in Inputs) => EveryReplicaCounted
  BY <1>5, InputsOfKind DEF EveryReplicaCounted
<1> QED BY <1>6, InputsChosen, PTL

\* Every spelling of an answer of the run is decoded to what it means
\* (UnmarshalJSON of the container and of the hints, Compile).
THEOREM TheSpellingsAgree == Spec => []SpellingsAgree
<1>1. ASSUME NEW i \in DecodeInputs PROVE FormsAgree(i.meant, i.form, "1Gi")
  <2>1. i.meant \in Meant /\ i.form \in Spellings
    BY DEF DecodeInputs
  <2>2. i.meant.ports \in Seq(Nat \ {0})
    <3>1. i.meant.ports \in {<<>>, <<80>>, <<80, 443>>}
      BY <2>1 DEF Meant
    <3>2. <<80, 443>> \in Seq(Nat \ {0})
      OBVIOUS
    <3>3. <<>> \in Seq(Nat \ {0}) /\ <<80>> \in Seq(Nat \ {0})
      OBVIOUS
    <3> QED BY <3>1, <3>2, <3>3
  <2>3. PICK given \in {{}, {"cpuRequest"}, {"memoryLimit"}, {"cpuRequest", "memoryLimit"}} :
          i.meant.resources \in [given -> {"50m", "64Mi"}]
    BY <2>1 DEF Meant
  <2>4. given \in SUBSET Fields /\ i.meant.resources \in [given -> Quantities]
    BY <2>3, InputsAssumption DEF Fields
  <2>5. i.meant.probe \in (Nat \ {0}) \cup {None}
    BY <2>1 DEF Meant
  <2>6. i.meant.hints
          \in {<<>>, <<<<"zone", "a">>>>, <<<<"zone", "a">>, <<"spread", "node">>>>}
    BY <2>1 DEF Meant
  <2> DEFINE zone == <<"zone", "a">>
             spread == <<"spread", "node">>
             hints == i.meant.hints
  <2>7. zone # spread
    OBVIOUS
  <2>8. hints \in {<<>>, <<zone>>, <<zone, spread>>}
    BY <2>6
  <2>9. hints \in Seq({zone, spread})
    <3> HIDE DEF hints, zone, spread
    <3>1. <<zone>> \in Seq({zone, spread}) /\ <<>> \in Seq({zone, spread})
      OBVIOUS
    <3>2. <<zone, spread>> \in Seq({zone, spread})
      OBVIOUS
    <3> QED BY <2>8, <3>1, <3>2
  <2>10. \A j, k \in DOMAIN hints : j # k => hints[j] # hints[k]
    <3>1. CASE hints = <<>>
      BY <3>1
    <3>2. CASE hints = <<zone>>
      <4> HIDE DEF hints, zone
      <4> DOMAIN hints = 1..1
        BY <3>2
      <4> QED OBVIOUS
    <3>3. CASE hints = <<zone, spread>>
      <4> HIDE DEF hints, zone, spread
      <4> DOMAIN hints = 1..2 /\ hints[1] = zone /\ hints[2] = spread
        BY <3>3
      <4> QED BY <2>7
    <3> QED BY <2>8, <3>1, <3>2, <3>3
  <2>11. /\ i.form.ports \in {"number", "containerPort", "port", "both"}
        /\ i.form.hints \in {"list", "object"}
    BY <2>1 DEF Spellings
  <2>12. "1Gi" \in STRING
    BY InputsAssumption, QuantitiesAssumption
  <2>13. Sayable(i.meant, {zone, spread})
    <3> HIDE DEF zone, spread
    <3> QED BY <2>2, <2>4, <2>5, <2>9, <2>10 DEF Sayable
  <2>14. Accepted(i.form)
    BY <2>11 DEF Accepted
  <2> HIDE DEF zone, spread
  <2> QED BY <2>12, <2>13, <2>14, EverySpellingMeansTheSame
<1>2. (input # None => input \in Inputs) => SpellingsAgree
  BY <1>1, InputsOfKind DEF SpellingsAgree
<1> QED BY <1>2, InputsChosen, PTL
=============================================================================
