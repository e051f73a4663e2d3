----------------------------- MODULE SumLemmas ------------------------------
(***************************************************************************)
(* What the sum of a sequence is, for sequences of any length.  Total is a *)
(* fold, which the community modules define by recursion over the set of   *)
(* positions.  Instead of an induction scheme, which would need an operator *)
(* as its parameter, the proofs take the least number at which a claim     *)
(* fails and refute it.                                                    *)
(***************************************************************************)
EXTENDS Sums, WellFoundedInduction, TLAPS

\* g is the running total of s over the sets of positions up to n.
Adds(g, s, n) ==
    g = [S \in SUBSET (1 .. n) |->
            IF S = {} THEN 0 ELSE LET x == Max(S) IN g[S \ {x}] + s[x]]

LEMMA TotalIs ==
    ASSUME NEW s, NEW n, DOMAIN s = 1 .. n
    PROVE  Total(s) = (CHOOSE g : Adds(g, s, n))[1 .. n]
BY DEF Total, FoldLeft, MapThenFoldSet, Adds

\* Every set of natural numbers that has an element has a least one.
LEMMA LeastOfSet ==
    ASSUME NEW T, T \subseteq Nat, T # {}
    PROVE  \E m \in T : \A k \in T : m <= k
<1> DEFINE R == OpToRel(<, Nat)
<1>1. R = {ss \in Nat \X Nat : ss[1] < ss[2]}
  BY DEF OpToRel
<1>2. IsWellFoundedOn(R, Nat)
  BY NatLessThanWellFounded
<1> HIDE DEF R
<1>3. PICK x \in T : \A y \in T : ~ (<<y, x>> \in R)
  BY <1>2, WFMin
<1>4. ASSUME NEW y \in T PROVE x <= y
  <2>1. <<y, x>> \in Nat \X Nat
    OBVIOUS
  <2>2. ~ (y < x)
    BY <1>1, <1>3
  <2> QED BY <2>2
<1> QED BY <1>4

\* The greatest of some positions.
LEMMA MaxIs ==
    ASSUME NEW n \in Nat, NEW S \in SUBSET (1 .. n), S # {}
    PROVE  /\ Max(S) \in S
           /\ \A y \in S : y <= Max(S)
<1> DEFINE T == {n - x : x \in S}
<1>0. \A x \in S : x \in 1 .. n /\ n - x \in Nat
  OBVIOUS
<1>1. T \subseteq Nat /\ T # {}
  BY <1>0
<1>2. PICK m \in T : \A k \in T : m <= k
  BY <1>1, LeastOfSet
<1>3. PICK x \in S : m = n - x
  OBVIOUS
<1>4. \A y \in S : x >= y
  <2>1. ASSUME NEW y \in S PROVE n - y \in T
    OBVIOUS
  <2>2. ASSUME NEW y \in S PROVE x >= y
    <3>1. n - x <= n - y
      BY <1>2, <1>3, <2>1
    <3> QED BY <3>1, <1>0
  <2> QED BY <2>2
<1> QED BY <1>3, <1>4 DEF Max

LEMMA MaxOfInterval ==
    ASSUME NEW n \in Nat
    PROVE  /\ Max(1 .. (n + 1)) = n + 1
           /\ \A S \in SUBSET (1 .. (n + 1)) : n + 1 \in S => Max(S) = n + 1
<1>1. ASSUME NEW S \in SUBSET (1 .. (n + 1)), n + 1 \in S
      PROVE  Max(S) = n + 1
  <2>1. /\ Max(S) \in S
        /\ \A y \in S : y <= Max(S)
    BY <1>1, n + 1 \in Nat, MaxIs
  <2>2. Max(S) \in 1 .. (n + 1) /\ n + 1 <= Max(S)
    BY <2>1, <1>1
  <2> QED BY <2>2
<1> QED BY <1>1

\* The recursive definition defines something, for every length ...
LEMMA AddsExists ==
    ASSUME NEW s
    PROVE  \A n \in Nat : \E g : Adds(g, s, n)
<1> DEFINE Bad == {n \in Nat : ~ \E g : Adds(g, s, n)}
<1>1. SUFFICES ASSUME Bad # {} PROVE FALSE
  OBVIOUS
<1>2. PICK m \in Bad : \A k \in Bad : m <= k
  BY <1>1, LeastOfSet
<1>3. CASE m = 0
  <2> DEFINE g == [S \in SUBSET (1 .. 0) |-> 0]
  <2>1. \A S \in SUBSET (1 .. 0) : S = {}
    OBVIOUS
  <2>2. Adds(g, s, 0)
    BY <2>1 DEF Adds
  <2> QED BY <2>2, <1>3
<1>4. CASE m # 0
  <2> DEFINE n == m - 1
  <2>0. n \in Nat /\ m = n + 1 /\ n \notin Bad
    BY <1>2, <1>4
  <2>1. PICK g : Adds(g, s, n)
    BY <2>0
  <2> DEFINE h == [S \in SUBSET (1 .. m) |->
                     IF m \in S THEN g[S \ {m}] + s[m] ELSE g[S]]
  <2>2. ASSUME NEW S \in SUBSET (1 .. m)
        PROVE  h[S] = IF S = {} THEN 0 ELSE LET x == Max(S) IN h[S \ {x}] + s[x]
    <3>1. CASE m \in S
      <4>1. Max(S) = m
        BY <2>0, <3>1, MaxOfInterval
      <4>2. h[S \ {m}] = g[S \ {m}]
        OBVIOUS
      <4> QED BY <3>1, <4>1, <4>2
    <3>2. CASE m \notin S
      <4>1. S \in SUBSET (1 .. n)
        BY <2>0, <3>2
      <4>2. h[S] = g[S]
        BY <3>2
      <4>3. CASE S = {}
        BY <4>1, <4>2, <4>3, <2>1 DEF Adds
      <4>4. CASE S # {}
        <5>1. Max(S) \in S
          BY <2>0, <4>1, <4>4, MaxIs
        <5>2. g[S] = g[S \ {Max(S)}] + s[Max(S)]
          BY <4>1, <4>4, <2>1 DEF Adds
        <5>3. h[S \ {Max(S)}] = g[S \ {Max(S)}]
          BY <3>2, <5>1
        <5> QED BY <4>2, <4>4, <5>2, <5>3
      <4> QED BY <4>3, <4>4
    <3> QED BY <3>1, <3>2
  <2>3. Adds(h, s, m)
    BY <2>2 DEF Adds
  <2> QED BY <2>3, <1>2
<1> QED BY <1>3, <1>4

\* ... and one thing only: two running totals agree where both are defined.
LEMMA AddsUnique ==
    ASSUME NEW s, NEW p \in Nat, NEW q \in Nat, p <= q,
           NEW g, Adds(g, s, p), NEW h, Adds(h, s, q)
    PROVE  g[1 .. p] = h[1 .. p]
<1>0. SUFFICES \A n \in 0 .. p : \A S \in SUBSET (1 .. n) : g[S] = h[S]
  <2>1. p \in 0 .. p
    OBVIOUS
  <2> QED BY <2>1
<1> DEFINE Bad == {n \in 0 .. p : \E S \in SUBSET (1 .. n) : g[S] # h[S]}
<1>1. SUFFICES ASSUME Bad # {} PROVE FALSE
  OBVIOUS
<1>2. PICK m \in Bad : \A k \in Bad : m <= k
  <2>1. Bad \subseteq Nat
    OBVIOUS
  <2> QED BY <1>1, <2>1, LeastOfSet
<1>3. PICK S \in SUBSET (1 .. m) : g[S] # h[S]
  OBVIOUS
<1>4. S \in SUBSET (1 .. p) /\ S \in SUBSET (1 .. q)
  OBVIOUS
<1>5. S # {}
  BY <1>3, <1>4 DEF Adds
<1>6. /\ Max(S) \in S
      /\ \A y \in S : y <= Max(S)
  BY <1>5, MaxIs
<1>7. /\ g[S] = g[S \ {Max(S)}] + s[Max(S)]
      /\ h[S] = h[S \ {Max(S)}] + s[Max(S)]
  BY <1>4, <1>5 DEF Adds
<1>8. Max(S) \in 1 .. m /\ m \in 0 .. p /\ m - 1 \in 0 .. p
  <2>1. Max(S) \in 1 .. m /\ m \in 0 .. p
    BY <1>6
  <2> QED BY <2>1
<1>9. S \ {Max(S)} \in SUBSET (1 .. (m - 1))
  <2>1. ASSUME NEW y \in S, y # Max(S) PROVE y \in 1 .. (m - 1)
    <3>1. y \in 1 .. m /\ y <= Max(S)
      BY <1>6
    <3> QED BY <3>1, <2>1, <1>8
  <2> QED BY <2>1
<1>10. g[S \ {Max(S)}] = h[S \ {Max(S)}]
  <2>1. m - 1 \notin Bad
    BY <1>2, <1>8
  <2> QED BY <2>1, <1>8, <1>9
<1> QED BY <1>3, <1>7, <1>10

LEMMA TotalEmpty == Total(<< >>) = 0
<1>1. PICK g : Adds(g, << >>, 0)
  BY AddsExists
<1>2. Adds(CHOOSE f : Adds(f, << >>, 0), << >>, 0)
  BY <1>1
<1>3. DOMAIN << >> = 1 .. 0
  OBVIOUS
<1>4. Total(<< >>) = (CHOOSE f : Adds(f, << >>, 0))[1 .. 0]
  BY <1>3, TotalIs
<1> HIDE DEF Adds
<1>5. \A f : Adds(f, << >>, 0) => f[1 .. 0] = 0
  <2>1. 1 .. 0 = {}
    OBVIOUS
  <2> QED BY <2>1 DEF Adds
<1> QED BY <1>2, <1>4, <1>5

\* One summand more.
LEMMA TotalAppend ==
    ASSUME NEW s \in Seq(Int), NEW e \in Int
    PROVE  Total(Append(s, e)) = Total(s) + e
<1> DEFINE n == Len(s)
           t == Append(s, e)
           g == CHOOSE f : Adds(f, s, n)
           h == CHOOSE f : Adds(f, t, n + 1)
<1>1. n \in Nat /\ DOMAIN s = 1 .. n /\ DOMAIN t = 1 .. (n + 1) /\ t[n + 1] = e
      /\ \A i \in 1 .. n : t[i] = s[i]
  OBVIOUS
<1> HIDE DEF n, t
<1>2. Adds(g, s, n) /\ Adds(h, t, n + 1)
  BY <1>1, AddsExists, n + 1 \in Nat
<1> HIDE DEF g, h
<1>3. PICK k : Adds(k, t, n)
  BY <1>1, AddsExists
<1>4. Adds(k, s, n)
  <2>1. ASSUME NEW S \in SUBSET (1 .. n), S # {} PROVE t[Max(S)] = s[Max(S)]
    BY <2>1, <1>1, MaxIs
  <2>2. [S \in SUBSET (1 .. n) |->
            IF S = {} THEN 0 ELSE LET x == Max(S) IN k[S \ {x}] + t[x]]
        = [S \in SUBSET (1 .. n) |->
            IF S = {} THEN 0 ELSE LET x == Max(S) IN k[S \ {x}] + s[x]]
    BY <2>1
  <2> QED BY <2>2, <1>3 DEF Adds
<1>5. k[1 .. n] = g[1 .. n]
  <2>1. n <= n
    BY <1>1
  <2> QED BY <2>1, <1>1, <1>2, <1>4, AddsUnique
<1>6. k[1 .. n] = h[1 .. n]
  <2>1. n + 1 \in Nat /\ n <= n + 1
    BY <1>1
  <2> QED BY <2>1, <1>1, <1>2, <1>3, AddsUnique
<1>7. h[1 .. (n + 1)] = h[1 .. n] + e
  <2>1. Max(1 .. (n + 1)) = n + 1
    BY <1>1, MaxOfInterval
  <2>2. (1 .. (n + 1)) \ {n + 1} = 1 .. n
    BY <1>1
  <2>3. n + 1 \in 1 .. (n + 1)
    BY <1>1
  <2>4. h[1 .. (n + 1)] = h[(1 .. (n + 1)) \ {n + 1}] + t[n + 1]
    BY <1>2, <2>1, <2>3 DEF Adds
  <2> QED BY <1>1, <2>2, <2>4
<1> QED
  <2>1. Total(s) = g[1 .. n]
    BY <1>1, TotalIs DEF g
  <2>2. Total(t) = h[1 .. (n + 1)]
    BY <1>1, TotalIs DEF h
  <2> QED BY <2>1, <2>2, <1>5, <1>6, <1>7 DEF t

\* The sum of one value more of a function on 1, 2, ...
LEMMA TotalNext ==
    ASSUME NEW k \in Nat, NEW f, \A i \in 1 .. (k + 1) : f[i] \in Int
    PROVE  Total([i \in 1 .. (k + 1) |-> f[i]]) = Total([i \in 1 .. k |-> f[i]]) + f[k + 1]
<1> DEFINE s == [i \in 1 .. k |-> f[i]]
           t == [i \in 1 .. (k + 1) |-> f[i]]
<1>1. s \in Seq(Int) /\ Len(s) = k /\ f[k + 1] \in Int
  OBVIOUS
<1>2. Append(s, f[k + 1]) \in Seq(Int) /\ DOMAIN Append(s, f[k + 1]) = 1 .. (k + 1)
  BY <1>1
<1>3. \A i \in 1 .. (k + 1) : Append(s, f[k + 1])[i] = t[i]
  BY <1>1
<1>4. Append(s, f[k + 1]) = t
  BY <1>2, <1>3
<1> HIDE DEF s, t
<1> QED BY <1>1, <1>4, TotalAppend DEF s, t

\* Sums of natural numbers are natural numbers.
LEMMA TotalNat ==
    ASSUME NEW n \in Nat, NEW f, \A i \in 1 .. n : f[i] \in Nat
    PROVE  \A k \in 0 .. n : Total([i \in 1 .. k |-> f[i]]) \in Nat
<1> DEFINE Bad == {k \in 0 .. n : Total([i \in 1 .. k |-> f[i]]) \notin Nat}
<1>1. SUFFICES ASSUME Bad # {} PROVE FALSE
  OBVIOUS
<1>2. PICK m \in Bad : \A k \in Bad : m <= k
  <2>1. Bad \subseteq Nat
    OBVIOUS
  <2> HIDE DEF Bad
  <2> QED BY <1>1, <2>1, LeastOfSet
<1>3. m # 0
  <2>1. [i \in 1 .. 0 |-> f[i]] = << >>
    OBVIOUS
  <2>2. Total([i \in 1 .. 0 |-> f[i]]) = 0
    BY <2>1, TotalEmpty
  <2> QED BY <2>2
<1> DEFINE k == m - 1
<1>4. k \in Nat /\ k \in 0 .. n /\ k + 1 = m /\ k + 1 \in 1 .. n /\ k \notin Bad
  BY <1>2, <1>3
<1>5. Total([i \in 1 .. k |-> f[i]]) \in Nat
  BY <1>4
<1> HIDE DEF k
<1>6. \A i \in 1 .. (k + 1) : f[i] \in Int
  BY <1>4
<1>7. Total([i \in 1 .. (k + 1) |-> f[i]]) = Total([i \in 1 .. k |-> f[i]]) + f[k + 1]
  BY <1>4, <1>6, TotalNext
<1>8. f[k + 1] \in Nat
  BY <1>4
<1>9. Total([i \in 1 .. (k + 1) |-> f[i]]) \in Nat
  BY <1>5, <1>7, <1>8
<1> QED BY <1>2, <1>4, <1>9

\* Among the values of a function on 1 .. n there is a greatest.
LEMMA Greatest ==
    ASSUME NEW n \in Nat, NEW f, \A i \in 1 .. n : f[i] \in Nat
    PROVE  \A k \in 1 .. n : \E i \in 1 .. k : \A j \in 1 .. k : f[j] <= f[i]
<1> DEFINE Bad == {k \in 1 .. n : ~ \E i \in 1 .. k : \A j \in 1 .. k : f[j] <= f[i]}
<1>1. SUFFICES ASSUME Bad # {} PROVE FALSE
  OBVIOUS
<1>2. PICK m \in Bad : \A k \in Bad : m <= k
  <2>1. Bad \subseteq Nat
    OBVIOUS
  <2> HIDE DEF Bad
  <2> QED BY <1>1, <2>1, LeastOfSet
<1>3. m # 1
  <2>1. 1 \in Bad => 1 \in 1 .. n /\ \E i \in 1 .. 1 : ~ (f[i] <= f[1])
    OBVIOUS
  <2>2. \A i \in 1 .. 1 : i = 1
    OBVIOUS
  <2> QED BY <2>1, <2>2
<1> DEFINE k == m - 1
<1>4. k \in 1 .. n /\ k + 1 = m /\ m \in 1 .. n /\ k \notin Bad
  <2>1. m \in 1 .. n
    OBVIOUS
  <2>2. k \in 1 .. n /\ k + 1 = m /\ ~ (m <= k)
    BY <1>3, <2>1
  <2> HIDE DEF Bad
  <2> QED BY <1>2, <2>1, <2>2
<1>5. PICK i \in 1 .. k : \A j \in 1 .. k : f[j] <= f[i]
  BY <1>4
<1> HIDE DEF k
<1>6. CASE f[m] <= f[i]
  <2>1. i \in 1 .. m /\ \A j \in 1 .. m : f[j] <= f[i]
    <3>1. \A j \in 1 .. m : j \in 1 .. k \/ j = m
      BY <1>4
    <3> QED BY <1>4, <1>5, <1>6, <3>1
  <2> QED BY <1>2, <2>1
<1>7. CASE ~ (f[m] <= f[i])
  <2>1. m \in 1 .. m /\ \A j \in 1 .. m : f[j] <= f[m]
    <3>1. \A j \in 1 .. m : j \in 1 .. k \/ j = m
      BY <1>4
    <3>2. \A j \in 1 .. k : f[j] \in Nat /\ f[i] \in Nat /\ f[m] \in Nat
      BY <1>4
    <3> QED BY <1>4, <1>5, <1>7, <3>1, <3>2
  <2> QED BY <1>2, <2>1
<1> QED BY <1>6, <1>7

=============================================================================
