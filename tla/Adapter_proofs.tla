---------------------------- MODULE Adapter_proofs ----------------------------
(***************************************************************************)
(* For any limits, models and calls, of the adapter and of others: the two *)
(* layers count the elements of a shape alike, a request that enqueue has  *)
(* accepted passes the checks of the bridge and reaches the inputs it      *)
(* names at the declared dimensions, and a slice is read at its length.    *)
(*                                                                         *)
(* The counts are folds.  That a fold computes what it should for every    *)
(* sequence is an induction, which is carried out by the least counter-    *)
(* example: first for folds in general, then for each of the four counts.  *)
(***************************************************************************)
EXTENDS Adapter, FiniteSetTheorems, SequenceTheorems, WellFoundedInduction, TLAPS

\* Every nonempty set of numbers has a least one, so what holds of 0 and passes
\* from each number to the next holds up to n.
LEMMA LeastOf ==
  ASSUME NEW T \in SUBSET Nat, T # {}
  PROVE  \E x \in T : \A y \in T : x <= y
<1>1. PICK x \in T : \A y \in T : ~(<<y, x>> \in OpToRel(<, Nat))
  BY NatLessThanWellFounded, WFMin
<1>2. \A y \in T : ~(y < x)
  BY <1>1 DEF OpToRel
<1> QED BY <1>2

LEMMA CountUp ==
  ASSUME NEW n \in Nat, NEW T \in SUBSET (0..n), 0 \in T,
         \A i \in 1..n : i - 1 \in T => i \in T
  PROVE  T = 0..n
<1> DEFINE Rest == (0..n) \ T
<1>1. Rest \in SUBSET Nat
  OBVIOUS
<1>2. SUFFICES ASSUME Rest # {}
               PROVE FALSE
  OBVIOUS
<1>3. PICK x \in Rest : \A y \in Rest : x <= y
  <2> HIDE DEF Rest
  <2> QED BY <1>1, <1>2, LeastOf
<1>4. x - 1 \in 0..n /\ x - 1 \in T
  BY <1>3
<1> QED BY <1>3, <1>4

\* The largest element of a set of numbers up to n.
LEMMA MaxIs ==
  ASSUME NEW n \in Nat, NEW s \in SUBSET (1..n), NEW x \in s, \A y \in s : x >= y
  PROVE  Max(s) = x
<1>1. Max(s) \in s /\ \A y \in s : Max(s) >= y
  BY Zenon DEF Max
<1>2. Max(s) \in 1..n /\ x \in 1..n
  BY <1>1
<1>3. Max(s) >= x /\ x >= Max(s)
  BY <1>1
<1> QED BY <1>2, <1>3

LEMMA MaxIn ==
  ASSUME NEW n \in Nat, NEW s \in SUBSET (1..n), s # {}
  PROVE  Max(s) \in s
<1> DEFINE Gaps == {k \in Nat : n - k \in s}
<1>1. Gaps \in SUBSET Nat /\ Gaps # {}
  <2>1. PICK y \in s : TRUE
    OBVIOUS
  <2>2. n - y \in Gaps
    BY <2>1
  <2> QED BY <2>2
<1>2. PICK k \in Gaps : \A j \in Gaps : k <= j
  <2> HIDE DEF Gaps
  <2> QED BY <1>1, LeastOf
<1>3. n - k \in s
  BY <1>2
<1>4. ASSUME NEW y \in s
      PROVE  n - k >= y
  <2>1. y \in 1..n /\ n - (n - y) = y
    BY <1>4
  <2>2. n - y \in Gaps
    BY <1>4, <2>1
  <2>3. k <= n - y /\ k \in Nat
    BY <1>2, <2>2
  <2> QED BY <2>1, <2>3
<1> QED BY <1>3, <1>4, MaxIs

\* A fold over the first n numbers that takes the largest first is defined.
Folding(g, n, base, step) ==
  \A s \in SUBSET (1..n) :
    g[s] = IF s = {} THEN base ELSE step[<<g[s \ {Max(s)}], Max(s)>>]

HasFold(n, V, base, step) ==
  \E g \in [SUBSET (1..n) -> V] : Folding(g, n, base, step)

LEMMA FoldExtends ==
  ASSUME NEW n \in Nat, NEW V, NEW base, NEW step \in [V \X (1..n) -> V],
         NEW k \in 1..n, HasFold(k - 1, V, base, step)
  PROVE  HasFold(k, V, base, step)
<1>1. PICK g \in [SUBSET (1..(k - 1)) -> V] : Folding(g, k - 1, base, step)
  BY DEF HasFold
<1> DEFINE h == [s \in SUBSET (1..k) |-> IF k \in s THEN step[<<g[s \ {k}], k>>] ELSE g[s]]
<1>2. ASSUME NEW s \in SUBSET (1..k), k \notin s
      PROVE  s \in SUBSET (1..(k - 1)) /\ h[s] = g[s] /\ g[s] \in V
  <2>1. s \in SUBSET (1..(k - 1))
    BY <1>2
  <2> QED BY <1>2, <2>1
<1>3. ASSUME NEW s \in SUBSET (1..k), k \in s
      PROVE  h[s] = step[<<h[s \ {k}], k>>] /\ h[s] \in V
  <2>1. s \ {k} \in SUBSET (1..k) /\ k \notin s \ {k}
    OBVIOUS
  <2>2. h[s \ {k}] = g[s \ {k}] /\ g[s \ {k}] \in V
    BY <1>2, <2>1
  <2>3. h[s] = step[<<g[s \ {k}], k>>]
    BY <1>3
  <2> HIDE DEF h
  <2> QED BY <2>2, <2>3
<1>4. h \in [SUBSET (1..k) -> V]
  <2>1. \A s \in SUBSET (1..k) : h[s] \in V
    <3> HIDE DEF h
    <3> QED BY <1>2, <1>3
  <2> QED BY <2>1
<1>5. ASSUME NEW s \in SUBSET (1..k)
      PROVE  h[s] = IF s = {} THEN base ELSE step[<<h[s \ {Max(s)}], Max(s)>>]
  <2> HIDE DEF h
  <2>1. CASE k \in s
    <3>1. k \in Nat /\ s \in SUBSET (1..k) /\ \A y \in s : k >= y
      OBVIOUS
    <3>2. Max(s) = k
      BY <2>1, <3>1, MaxIs
    <3> QED BY <1>3, <2>1, <3>2
  <2>2. CASE k \notin s
    <3> DEFINE t == s \ {Max(s)}
    <3>1. t \in SUBSET (1..k) /\ k \notin t
      BY <2>2
    <3>2. h[s] = g[s] /\ h[t] = g[t] /\ s \in SUBSET (1..(k - 1))
      <4> HIDE DEF t
      <4> QED BY <1>2, <2>2, <3>1
    <3>3. g[s] = IF s = {} THEN base ELSE step[<<g[t], Max(s)>>]
      BY <1>1, <3>2 DEF Folding
    <3> QED BY <3>2, <3>3
  <2> QED BY <2>1, <2>2
<1>6. Folding(h, k, base, step)
  <2> HIDE DEF h
  <2> QED BY <1>5 DEF Folding
<1> HIDE DEF h
<1> QED BY <1>4, <1>6 DEF HasFold

LEMMA FoldExists ==
  ASSUME NEW n \in Nat, NEW V, NEW base \in V, NEW step \in [V \X (1..n) -> V]
  PROVE  HasFold(n, V, base, step)
<1> DEFINE Reached == {k \in 0..n : HasFold(k, V, base, step)}
<1>1. HasFold(0, V, base, step)
  <2> DEFINE g == [s \in SUBSET (1..0) |-> base]
  <2>1. g \in [SUBSET (1..0) -> V]
    OBVIOUS
  <2>2. \A s \in SUBSET (1..0) : s = {} /\ g[s] = base
    OBVIOUS
  <2> HIDE DEF g
  <2> QED BY <2>1, <2>2 DEF HasFold, Folding
<1>2. ASSUME NEW k \in 1..n, HasFold(k - 1, V, base, step)
      PROVE  HasFold(k, V, base, step)
  BY <1>2, FoldExtends
<1>3. Reached = 0..n
  <2>1. Reached \in SUBSET (0..n) /\ 0 \in Reached
    BY <1>1
  <2>2. \A k \in 1..n : k - 1 \in Reached => k \in Reached
    BY <1>2
  <2> HIDE DEF Reached
  <2> QED BY <2>1, <2>2, CountUp
<1> QED BY <1>3

LEMMA PrefixMax ==
  ASSUME NEW n \in Nat, NEW i \in 1..n
  PROVE  /\ 1..i \in SUBSET (1..n) /\ 1..i # {}
         /\ Max(1..i) = i
         /\ (1..i) \ {i} = 1..(i - 1)
<1>1. i \in Nat /\ i \in 1..i /\ \A y \in 1..i : i >= y
  OBVIOUS
<1>2. Max(1..i) = i
  BY <1>1, MaxIs
<1> QED BY <1>2

\* What such a fold makes of the first i elements: each is added to what became of
\* those before it.
Unfolds(iter, n, V, base, step) ==
  /\ iter[{}] = base
  /\ \A s \in SUBSET (1..n) : s # {} /\ iter[s \ {Max(s)}] \in V
                             => iter[s] = step[<<iter[s \ {Max(s)}], Max(s)>>]

HasPrefixes(n, V, base, step, result) ==
  \E c \in [0..n -> V] :
    /\ c[0] = base
    /\ \A i \in 1..n : c[i] = step[<<c[i - 1], i>>]
    /\ c[n] = result

LEMMA FoldPrefixes ==
  ASSUME NEW n \in Nat, NEW V, NEW base \in V, NEW step \in [V \X (1..n) -> V], NEW iter,
         Unfolds(iter, n, V, base, step)
  PROVE  HasPrefixes(n, V, base, step, iter[1..n])
<1> DEFINE c == [i \in 0..n |-> iter[1..i]]
           T == {i \in 0..n : c[i] \in V}
<1>1. c[0] = base /\ c[n] = iter[1..n]
  BY DEF Unfolds
<1>2. ASSUME NEW i \in 1..n, c[i - 1] \in V
      PROVE  c[i] = step[<<c[i - 1], i>>]
  <2>1. c[i] = iter[1..i] /\ c[i - 1] = iter[1..(i - 1)]
    OBVIOUS
  <2>2. 1..i \in SUBSET (1..n) /\ 1..i # {} /\ Max(1..i) = i /\ (1..i) \ {i} = 1..(i - 1)
    BY PrefixMax
  <2> HIDE DEF c
  <2>3. iter[(1..i) \ {Max(1..i)}] \in V
    BY <1>2, <2>1, <2>2
  <2> QED BY <2>1, <2>2, <2>3 DEF Unfolds
<1>3. T = 0..n
  <2>1. T \in SUBSET (0..n) /\ 0 \in T
    BY <1>1
  <2>2. ASSUME NEW i \in 1..n, i - 1 \in T
        PROVE  i \in T
    <3>1. c[i - 1] \in V
      BY <2>2
    <3>2. c[i] \in V
      <4> HIDE DEF c, T
      <4> QED BY <1>2, <3>1
    <3> QED BY <3>2
  <2> HIDE DEF T
  <2> QED BY <2>1, <2>2, CountUp
<1>4. \A i \in 0..n : c[i] \in V
  BY <1>3
<1>5. c \in [0..n -> V]
  BY <1>4
<1>6. \A i \in 1..n : c[i - 1] \in V
  <2> HIDE DEF c
  <2> QED BY <1>4
<1> HIDE DEF c
<1> QED BY <1>1, <1>2, <1>5, <1>6 DEF HasPrefixes

\* Comparing with a quotient is comparing the product.
LEMMA Quotients ==
  ASSUME NEW a \in Nat \ {0}, NEW d \in Nat, NEW limit \in Nat
  PROVE  d > limit \div a <=> a * d > limit
<1> DEFINE q == limit \div a
           r == limit % a
<1>1. q \in Nat /\ r \in 0..(a - 1) /\ limit = a * q + r
  OBVIOUS
<1> HIDE DEF q, r
<1>2. CASE d > q
  <2>1. PICK k \in Nat : d = q + 1 + k
    <3>1. d - q - 1 \in Nat /\ d = q + 1 + (d - q - 1)
      BY <1>1, <1>2
    <3> QED BY <3>1
  <2>2. a * d = a * q + a + a * k /\ a * k \in Nat /\ a * q \in Nat
    BY <1>1, <2>1
  <2> QED BY <1>1, <1>2, <2>2 DEF q
<1>3. CASE d <= q
  <2>1. PICK k \in Nat : q = d + k
    <3>1. q - d \in Nat /\ q = d + (q - d)
      BY <1>1, <1>3
    <3> QED BY <3>1
  <2>2. a * q = a * d + a * k /\ a * k \in Nat /\ a * d \in Nat
    BY <1>1, <2>1
  <2> QED BY <1>1, <1>3, <2>2 DEF q
<1> QED BY <1>1, <1>2, <1>3

\* The product of checked_elements, dimension by dimension.
LEMMA CheckedCount ==
  ASSUME NEW shape \in Seq(Nat)
  PROVE  \E c \in [0..Len(shape) -> Nat] :
           /\ c[0] = 1
           /\ \A i \in 1..Len(shape) : c[i] = CheckedMul(c[i - 1], shape[i])
           /\ FoldLeft(CheckedMul, 1, shape) = c[Len(shape)]
<1> DEFINE n == Len(shape)
           Next1(a, d) == CheckedMul(a, d)
           step == [p \in Nat \X (1..n) |-> Next1(p[1], shape[p[2]])]
           Body(h) == [s \in SUBSET DOMAIN shape |->
                         IF s = {} THEN 1 ELSE Next1(h[s \ {Max(s)}], shape[Max(s)])]
           iter == CHOOSE h : h = Body(h)
<1>1. n \in Nat /\ DOMAIN shape = 1..n /\ \A i \in 1..n : shape[i] \in Nat
  OBVIOUS
<1>2. \A a, d \in Nat : Next1(a, d) \in Nat
  BY DEF CheckedMul
<1>3. FoldLeft(CheckedMul, 1, shape) = iter[DOMAIN shape]
  BY DEF FoldLeft, MapThenFoldSet
<1> HIDE DEF n, Next1
<1>4. /\ step \in [Nat \X (1..n) -> Nat]
      /\ \A a \in Nat, i \in 1..n : step[<<a, i>>] = Next1(a, shape[i])
  BY <1>1, <1>2
<1> HIDE DEF step
<1>5. PICK g \in [SUBSET (1..n) -> Nat] : Folding(g, n, 1, step)
  BY <1>1, <1>4, FoldExists DEF HasFold
<1>6. \A s \in SUBSET (1..n) : s # {} => Max(s) \in 1..n
  BY <1>1, MaxIn
<1>7. g = Body(g)
  <2>1. ASSUME NEW s \in SUBSET (1..n), s # {}
        PROVE  g[s] = Next1(g[s \ {Max(s)}], shape[Max(s)])
    <3>1. s \ {Max(s)} \in SUBSET (1..n) /\ g[s] = step[<<g[s \ {Max(s)}], Max(s)>>]
      BY <1>5, <2>1 DEF Folding
    <3> QED BY <1>4, <1>5, <1>6, <2>1, <3>1
  <2>2. g[{}] = 1
    BY <1>5 DEF Folding
  <2> QED BY <1>1, <1>5, <2>1, <2>2
<1>8. iter = Body(iter)
  <2> HIDE DEF Body
  <2> QED BY <1>7
<1> HIDE DEF iter
<1>9. /\ iter[{}] = 1
      /\ \A s \in SUBSET (1..n) : s # {} => iter[s] = Next1(iter[s \ {Max(s)}], shape[Max(s)])
  BY <1>1, <1>8
<1>10. Unfolds(iter, n, Nat, 1, step)
  BY <1>4, <1>6, <1>9 DEF Unfolds
<1>11. PICK c \in [0..n -> Nat] :
         /\ c[0] = 1
         /\ \A i \in 1..n : c[i] = step[<<c[i - 1], i>>]
         /\ c[n] = iter[1..n]
  <2>1. HasPrefixes(n, Nat, 1, step, iter[1..n])
    <3>1. n \in Nat /\ 1 \in Nat
      BY <1>1
    <3> HIDE DEF Body
    <3> QED BY <1>4, <1>10, <3>1, FoldPrefixes
  <2> QED BY <2>1 DEF HasPrefixes
<1>12. \A i \in 1..n : c[i] = Next1(c[i - 1], shape[i])
  <2>1. \A i \in 1..n : i - 1 \in 0..n
    BY <1>1
  <2> QED BY <1>4, <1>11, <2>1
<1> QED BY <1>1, <1>3, <1>11, <1>12 DEF n, Next1

\* The count of valid_shape.
LEMMA ValidCount ==
  ASSUME NEW shape \in Seq(Nat)
  PROVE  \E v \in [0..Len(shape) -> Nat] :
           /\ v[0] = 1
           /\ \A i \in 1..Len(shape) : v[i] = IF v[i - 1] = 0 \/ shape[i] <= 0 THEN 0 ELSE IF shape[i] > Limit \div v[i - 1] THEN 0 ELSE v[i - 1] * shape[i]
           /\ FoldLeft(LAMBDA a, d : IF a = 0 \/ d <= 0 THEN 0
                           ELSE IF d > Limit \div a THEN 0 ELSE a * d,
                    1, shape) = v[Len(shape)]
<1> DEFINE n == Len(shape)
           Next1(a, d) == IF a = 0 \/ d <= 0 THEN 0 ELSE IF d > Limit \div a THEN 0 ELSE a * d
           step == [p \in Nat \X (1..n) |-> Next1(p[1], shape[p[2]])]
           Body(h) == [s \in SUBSET DOMAIN shape |->
                         IF s = {} THEN 1 ELSE Next1(h[s \ {Max(s)}], shape[Max(s)])]
           iter == CHOOSE h : h = Body(h)
<1>1. n \in Nat /\ DOMAIN shape = 1..n /\ \A i \in 1..n : shape[i] \in Nat
  OBVIOUS
<1>2. \A a, d \in Nat : Next1(a, d) \in Nat
  BY ValidationAssumption
<1>3. FoldLeft(LAMBDA a, d : IF a = 0 \/ d <= 0 THEN 0
                           ELSE IF d > Limit \div a THEN 0 ELSE a * d,
                    1, shape) = iter[DOMAIN shape]
  BY DEF FoldLeft, MapThenFoldSet
<1> HIDE DEF n, Next1
<1>4. /\ step \in [Nat \X (1..n) -> Nat]
      /\ \A a \in Nat, i \in 1..n : step[<<a, i>>] = Next1(a, shape[i])
  BY <1>1, <1>2
<1> HIDE DEF step
<1>5. PICK g \in [SUBSET (1..n) -> Nat] : Folding(g, n, 1, step)
  BY <1>1, <1>4, FoldExists DEF HasFold
<1>6. \A s \in SUBSET (1..n) : s # {} => Max(s) \in 1..n
  BY <1>1, MaxIn
<1>7. g = Body(g)
  <2>1. ASSUME NEW s \in SUBSET (1..n), s # {}
        PROVE  g[s] = Next1(g[s \ {Max(s)}], shape[Max(s)])
    <3>1. s \ {Max(s)} \in SUBSET (1..n) /\ g[s] = step[<<g[s \ {Max(s)}], Max(s)>>]
      BY <1>5, <2>1 DEF Folding
    <3> QED BY <1>4, <1>5, <1>6, <2>1, <3>1
  <2>2. g[{}] = 1
    BY <1>5 DEF Folding
  <2> QED BY <1>1, <1>5, <2>1, <2>2
<1>8. iter = Body(iter)
  <2> HIDE DEF Body
  <2> QED BY <1>7
<1> HIDE DEF iter
<1>9. /\ iter[{}] = 1
      /\ \A s \in SUBSET (1..n) : s # {} => iter[s] = Next1(iter[s \ {Max(s)}], shape[Max(s)])
  BY <1>1, <1>8
<1>10. Unfolds(iter, n, Nat, 1, step)
  BY <1>4, <1>6, <1>9 DEF Unfolds
<1>11. PICK c \in [0..n -> Nat] :
         /\ c[0] = 1
         /\ \A i \in 1..n : c[i] = step[<<c[i - 1], i>>]
         /\ c[n] = iter[1..n]
  <2>1. HasPrefixes(n, Nat, 1, step, iter[1..n])
    <3>1. n \in Nat /\ 1 \in Nat
      BY <1>1
    <3> HIDE DEF Body
    <3> QED BY <1>4, <1>10, <3>1, FoldPrefixes
  <2> QED BY <2>1 DEF HasPrefixes
<1>12. \A i \in 1..n : c[i] = Next1(c[i - 1], shape[i])
  <2>1. \A i \in 1..n : i - 1 \in 0..n
    BY <1>1
  <2> QED BY <1>4, <1>11, <2>1
<1> QED BY <1>1, <1>3, <1>11, <1>12 DEF n, Next1

\* The count of logical_elements.
LEMMA LogicalCount ==
  ASSUME NEW shape \in Seq(Nat)
  PROVE  \E l \in [0..Len(shape) -> Nat] :
           /\ l[0] = 1
           /\ \A i \in 1..Len(shape) : l[i] = IF shape[i] <= 0 \/ l[i - 1] > WordMax \div shape[i] THEN 0 ELSE l[i - 1] * shape[i]
           /\ LogicalElements(shape) = l[Len(shape)]
<1> DEFINE n == Len(shape)
           Next1(a, d) == IF d <= 0 \/ a > WordMax \div d THEN 0 ELSE a * d
           step == [p \in Nat \X (1..n) |-> Next1(p[1], shape[p[2]])]
           Body(h) == [s \in SUBSET DOMAIN shape |->
                         IF s = {} THEN 1 ELSE Next1(h[s \ {Max(s)}], shape[Max(s)])]
           iter == CHOOSE h : h = Body(h)
<1>1. n \in Nat /\ DOMAIN shape = 1..n /\ \A i \in 1..n : shape[i] \in Nat
  OBVIOUS
<1>2. \A a, d \in Nat : Next1(a, d) \in Nat
  BY ValidationAssumption
<1>3. LogicalElements(shape) = iter[DOMAIN shape]
  BY DEF FoldLeft, MapThenFoldSet, LogicalElements
<1> HIDE DEF n, Next1
<1>4. /\ step \in [Nat \X (1..n) -> Nat]
      /\ \A a \in Nat, i \in 1..n : step[<<a, i>>] = Next1(a, shape[i])
  BY <1>1, <1>2
<1> HIDE DEF step
<1>5. PICK g \in [SUBSET (1..n) -> Nat] : Folding(g, n, 1, step)
  BY <1>1, <1>4, FoldExists DEF HasFold
<1>6. \A s \in SUBSET (1..n) : s # {} => Max(s) \in 1..n
  BY <1>1, MaxIn
<1>7. g = Body(g)
  <2>1. ASSUME NEW s \in SUBSET (1..n), s # {}
        PROVE  g[s] = Next1(g[s \ {Max(s)}], shape[Max(s)])
    <3>1. s \ {Max(s)} \in SUBSET (1..n) /\ g[s] = step[<<g[s \ {Max(s)}], Max(s)>>]
      BY <1>5, <2>1 DEF Folding
    <3> QED BY <1>4, <1>5, <1>6, <2>1, <3>1
  <2>2. g[{}] = 1
    BY <1>5 DEF Folding
  <2> QED BY <1>1, <1>5, <2>1, <2>2
<1>8. iter = Body(iter)
  <2> HIDE DEF Body
  <2> QED BY <1>7
<1> HIDE DEF iter
<1>9. /\ iter[{}] = 1
      /\ \A s \in SUBSET (1..n) : s # {} => iter[s] = Next1(iter[s \ {Max(s)}], shape[Max(s)])
  BY <1>1, <1>8
<1>10. Unfolds(iter, n, Nat, 1, step)
  BY <1>4, <1>6, <1>9 DEF Unfolds
<1>11. PICK c \in [0..n -> Nat] :
         /\ c[0] = 1
         /\ \A i \in 1..n : c[i] = step[<<c[i - 1], i>>]
         /\ c[n] = iter[1..n]
  <2>1. HasPrefixes(n, Nat, 1, step, iter[1..n])
    <3>1. n \in Nat /\ 1 \in Nat
      BY <1>1
    <3> HIDE DEF Body
    <3> QED BY <1>4, <1>10, <3>1, FoldPrefixes
  <2> QED BY <2>1 DEF HasPrefixes
<1>12. \A i \in 1..n : c[i] = Next1(c[i - 1], shape[i])
  <2>1. \A i \in 1..n : i - 1 \in 0..n
    BY <1>1
  <2> QED BY <1>4, <1>11, <2>1
<1> QED BY <1>1, <1>3, <1>11, <1>12 DEF n, Next1

\* The product as it would be in unlimited arithmetic.
LEMMA TrueCount ==
  ASSUME NEW shape \in Seq(Nat)
  PROVE  \E p \in [0..Len(shape) -> Nat] :
           /\ p[0] = 1
           /\ \A i \in 1..Len(shape) : p[i] = p[i - 1] * shape[i]
           /\ FoldLeft(LAMBDA a, d : a * d, 1, shape) = p[Len(shape)]
<1> DEFINE n == Len(shape)
           Next1(a, d) == a * d
           step == [p \in Nat \X (1..n) |-> Next1(p[1], shape[p[2]])]
           Body(h) == [s \in SUBSET DOMAIN shape |->
                         IF s = {} THEN 1 ELSE Next1(h[s \ {Max(s)}], shape[Max(s)])]
           iter == CHOOSE h : h = Body(h)
<1>1. n \in Nat /\ DOMAIN shape = 1..n /\ \A i \in 1..n : shape[i] \in Nat
  OBVIOUS
<1>2. \A a, d \in Nat : Next1(a, d) \in Nat
  OBVIOUS
<1>3. FoldLeft(LAMBDA a, d : a * d, 1, shape) = iter[DOMAIN shape]
  BY DEF FoldLeft, MapThenFoldSet
<1> HIDE DEF n, Next1
<1>4. /\ step \in [Nat \X (1..n) -> Nat]
      /\ \A a \in Nat, i \in 1..n : step[<<a, i>>] = Next1(a, shape[i])
  BY <1>1, <1>2
<1> HIDE DEF step
<1>5. PICK g \in [SUBSET (1..n) -> Nat] : Folding(g, n, 1, step)
  BY <1>1, <1>4, FoldExists DEF HasFold
<1>6. \A s \in SUBSET (1..n) : s # {} => Max(s) \in 1..n
  BY <1>1, MaxIn
<1>7. g = Body(g)
  <2>1. ASSUME NEW s \in SUBSET (1..n), s # {}
        PROVE  g[s] = Next1(g[s \ {Max(s)}], shape[Max(s)])
    <3>1. s \ {Max(s)} \in SUBSET (1..n) /\ g[s] = step[<<g[s \ {Max(s)}], Max(s)>>]
      BY <1>5, <2>1 DEF Folding
    <3> QED BY <1>4, <1>5, <1>6, <2>1, <3>1
  <2>2. g[{}] = 1
    BY <1>5 DEF Folding
  <2> QED BY <1>1, <1>5, <2>1, <2>2
<1>8. iter = Body(iter)
  <2> HIDE DEF Body
  <2> QED BY <1>7
<1> HIDE DEF iter
<1>9. /\ iter[{}] = 1
      /\ \A s \in SUBSET (1..n) : s # {} => iter[s] = Next1(iter[s \ {Max(s)}], shape[Max(s)])
  BY <1>1, <1>8
<1>10. Unfolds(iter, n, Nat, 1, step)
  BY <1>4, <1>6, <1>9 DEF Unfolds
<1>11. PICK c \in [0..n -> Nat] :
         /\ c[0] = 1
         /\ \A i \in 1..n : c[i] = step[<<c[i - 1], i>>]
         /\ c[n] = iter[1..n]
  <2>1. HasPrefixes(n, Nat, 1, step, iter[1..n])
    <3>1. n \in Nat /\ 1 \in Nat
      BY <1>1
    <3> HIDE DEF Body
    <3> QED BY <1>4, <1>10, <3>1, FoldPrefixes
  <2> QED BY <2>1 DEF HasPrefixes
<1>12. \A i \in 1..n : c[i] = Next1(c[i - 1], shape[i])
  <2>1. \A i \in 1..n : i - 1 \in 0..n
    BY <1>1
  <2> QED BY <1>4, <1>11, <2>1
<1> QED BY <1>1, <1>3, <1>11, <1>12 DEF n, Next1

-----------------------------------------------------------------------------

\* How the four counts of a prefix are related, as long as the first one exists.
Related(c, v, l, p, shape, i) ==
  /\ v[i] # 0 => v[i] = c[i] /\ c[i] <= Limit
  /\ v[i] = 0 => c[i] = 0 \/ c[i] > Limit
  /\ c[i] # 0 => /\ c[i] = l[i] /\ c[i] = p[i]
                 /\ \A k \in 1..i : 0 < shape[k] /\ shape[k] <= c[i]

LEMMA Growing ==
  ASSUME NEW a \in Nat \ {0}, NEW d \in Nat \ {0}
  PROVE  a * d \in Nat \ {0} /\ a <= a * d /\ d <= a * d
<1>1. PICK k \in Nat : d = k + 1
  <2>1. d - 1 \in Nat /\ d = (d - 1) + 1
    OBVIOUS
  <2> QED BY <2>1
<1>2. PICK j \in Nat : a = j + 1
  <2>1. a - 1 \in Nat /\ a = (a - 1) + 1
    OBVIOUS
  <2> QED BY <2>1
<1>3. a * d = a * k + a /\ a * d = j * d + d /\ a * k \in Nat /\ j * d \in Nat
  BY <1>1, <1>2
<1> QED BY <1>3

LEMMA RelatedStep ==
  ASSUME NEW n \in Nat, NEW shape, \A i \in 1..n : shape[i] \in Nat,
         NEW c \in [0..n -> Nat], NEW v \in [0..n -> Nat],
         NEW l \in [0..n -> Nat], NEW p \in [0..n -> Nat],
         NEW i \in 1..n, Related(c, v, l, p, shape, i - 1),
         c[i] = CheckedMul(c[i - 1], shape[i]),
         v[i] = IF v[i - 1] = 0 \/ shape[i] <= 0 THEN 0
                ELSE IF shape[i] > Limit \div v[i - 1] THEN 0 ELSE v[i - 1] * shape[i],
         l[i] = IF shape[i] <= 0 \/ l[i - 1] > WordMax \div shape[i] THEN 0
                ELSE l[i - 1] * shape[i],
         p[i] = p[i - 1] * shape[i]
  PROVE  Related(c, v, l, p, shape, i)
<1> DEFINE d == shape[i]
           a == c[i - 1]
<1>1. i - 1 \in 0..n /\ i \in 0..n /\ d \in Nat /\ a \in Nat /\ v[i - 1] \in Nat /\ l[i - 1] \in Nat
  OBVIOUS
<1>2. {Limit, WordMax} \subseteq Nat /\ Limit <= WordMax
  BY ValidationAssumption
<1>3. c[i] = IF a * d > WordMax THEN 0 ELSE a * d
  BY DEF CheckedMul
<1>4. CASE a = 0 \/ d = 0
  <2>1. a * d = 0
    <3> HIDE DEF a, d
    <3>1. \A x \in Nat : x * 0 = 0 /\ 0 * x = 0
      OBVIOUS
    <3> QED BY <1>1, <1>4, <3>1
  <2>2. c[i] = 0
    BY <1>2, <1>3, <2>1
  <2>3. v[i] = 0
    <3>1. a = 0 => v[i - 1] = 0
      BY <1>1 DEF Related
    <3> QED BY <1>1, <1>4, <3>1
  <2> QED BY <2>2, <2>3 DEF Related
<1>5. CASE a # 0 /\ d # 0
  <2>1. a * d \in Nat \ {0} /\ a <= a * d /\ d <= a * d
    BY <1>1, <1>5, Growing
  <2>2. l[i - 1] = a /\ p[i - 1] = a /\ \A k \in 1..(i - 1) : 0 < shape[k] /\ shape[k] <= a
    BY <1>5 DEF Related
  <2>3. l[i - 1] > WordMax \div d <=> a * d > WordMax
    <3>1. a > WordMax \div d <=> d * a > WordMax
      BY <1>1, <1>2, <1>5, Quotients
    <3>2. d * a = a * d
      BY <1>1
    <3> QED BY <2>2, <3>1, <3>2
  <2>4. v[i] # 0 => v[i] = a * d /\ a * d <= Limit
    <3>1. ASSUME v[i] # 0
          PROVE  v[i - 1] = a /\ ~(d > Limit \div a) /\ v[i] = a * d
      BY <1>1, <1>5, <3>1 DEF Related
    <3>2. d > Limit \div a <=> a * d > Limit
      BY <1>1, <1>2, <1>5, Quotients
    <3> QED BY <1>2, <2>1, <3>1, <3>2
  <2>5. v[i] = 0 => a * d > Limit
    <3>1. CASE v[i - 1] = 0
      <4>1. a > Limit
        BY <1>5, <3>1 DEF Related
      <4> QED BY <1>1, <1>2, <2>1, <4>1
    <3>2. CASE v[i - 1] # 0
      <4>1. v[i - 1] = a
        BY <3>2 DEF Related
      <4>2. d > Limit \div a <=> a * d > Limit
        BY <1>1, <1>2, <1>5, Quotients
      <4>3. v[i] = IF d > Limit \div a THEN 0 ELSE a * d
        <5>1. ~(d <= 0)
          BY <1>1, <1>5
        <5> QED BY Zenon, <3>2, <4>1, <5>1
      <4> QED BY <2>1, <4>2, <4>3
    <3> QED BY <3>1, <3>2
  <2>6. CASE a * d > WordMax
    <3>1. c[i] = 0
      BY <1>3, <2>6
    <3>2. v[i] = 0
      BY <1>2, <2>1, <2>4, <2>6
    <3> QED BY <3>1, <3>2 DEF Related
  <2>7. CASE ~(a * d > WordMax)
    <3>1. c[i] = a * d
      BY <1>3, <2>7
    <3>2. l[i] = a * d
      BY <1>1, <1>5, <2>2, <2>3, <2>7
    <3>3. p[i] = a * d
      BY <2>2
    <3>4. \A k \in 1..i : 0 < shape[k] /\ shape[k] <= a * d
      <4>1. ASSUME NEW k \in 1..i
            PROVE  0 < shape[k] /\ shape[k] <= a * d
        <5>1. CASE k = i
          <6>1. shape[k] = d
            BY <5>1
          <6> HIDE DEF a, d
          <6> QED BY <1>1, <1>5, <2>1, <6>1
        <5>2. CASE k # i
          <6>1. k \in 1..(i - 1) /\ shape[k] \in Nat
            BY <5>2
          <6> QED BY <1>1, <2>1, <2>2, <6>1
        <5> QED BY <5>1, <5>2
      <4> QED BY <4>1
    <3> HIDE DEF a, d
    <3> QED BY <2>4, <2>5, <3>1, <3>2, <3>3, <3>4 DEF Related
  <2> QED BY <2>6, <2>7
<1> QED BY <1>4, <1>5

\* Rust's count and the bridge's two are the same, for whatever shape.
LEMMA CountsAgree ==
  ASSUME NEW shape \in Seq(Nat)
  PROVE  /\ CheckedElements(shape) # 0 <=> ValidShape(shape)
         /\ ValidShape(shape) => LogicalElements(shape) = CheckedElements(shape)
         /\ CheckedElements(shape) # 0 =>
              /\ FoldLeft(LAMBDA n, d : n * d, 1, shape) = CheckedElements(shape)
              /\ \A k \in DOMAIN shape : shape[k] \in 1..Limit
<1> DEFINE n == Len(shape)
<1>1. n \in Nat /\ DOMAIN shape = 1..n /\ \A i \in 1..n : shape[i] \in Nat
  OBVIOUS
<1>2. PICK c \in [0..n -> Nat] :
        /\ c[0] = 1 /\ \A i \in 1..n : c[i] = CheckedMul(c[i - 1], shape[i])
        /\ FoldLeft(CheckedMul, 1, shape) = c[n]
  BY CheckedCount
<1>3. PICK v \in [0..n -> Nat] :
        /\ v[0] = 1
        /\ \A i \in 1..n :
             v[i] = IF v[i - 1] = 0 \/ shape[i] <= 0 THEN 0
                    ELSE IF shape[i] > Limit \div v[i - 1] THEN 0 ELSE v[i - 1] * shape[i]
        /\ FoldLeft(LAMBDA a, d : IF a = 0 \/ d <= 0 THEN 0
                                  ELSE IF d > Limit \div a THEN 0 ELSE a * d, 1, shape) = v[n]
  BY ValidCount
<1>4. PICK l \in [0..n -> Nat] :
        /\ l[0] = 1
        /\ \A i \in 1..n :
             l[i] = IF shape[i] <= 0 \/ l[i - 1] > WordMax \div shape[i] THEN 0
                    ELSE l[i - 1] * shape[i]
        /\ LogicalElements(shape) = l[n]
  BY LogicalCount
<1>5. PICK p \in [0..n -> Nat] :
        /\ p[0] = 1 /\ \A i \in 1..n : p[i] = p[i - 1] * shape[i]
        /\ FoldLeft(LAMBDA a, d : a * d, 1, shape) = p[n]
  BY TrueCount
<1> DEFINE T == {i \in 0..n : Related(c, v, l, p, shape, i)}
<1> HIDE DEF n
<1>6. T = 0..n
  <2>1. T \in SUBSET (0..n) /\ 0 \in T
    <3>1. 1 <= Limit
      BY ValidationAssumption
    <3>2. c[0] = 1 /\ v[0] = 1 /\ l[0] = 1 /\ p[0] = 1
      BY <1>2, <1>3, <1>4, <1>5
    <3>3. Related(c, v, l, p, shape, 0)
      BY <3>1, <3>2 DEF Related
    <3> QED BY <1>1, <3>3
  <2>2. ASSUME NEW i \in 1..n, i - 1 \in T
        PROVE  i \in T
    <3>1. Related(c, v, l, p, shape, i - 1)
      BY <2>2
    <3>2. Related(c, v, l, p, shape, i)
      BY <1>1, <1>2, <1>3, <1>4, <1>5, <3>1, RelatedStep
    <3> QED BY <3>2
  <2> HIDE DEF T
  <2> QED BY <1>1, <2>1, <2>2, CountUp
<1>7. Related(c, v, l, p, shape, n)
  <2>1. n \in T
    <3> HIDE DEF T
    <3> QED BY <1>1, <1>6
  <2> QED BY <2>1
<1>8. CheckedElements(shape) = IF n > MaxRank \/ 0 \in ToSet(shape) \/ c[n] > Limit THEN 0 ELSE c[n]
  BY <1>2 DEF CheckedElements, n
<1>9. ValidShape(shape) <=> n <= MaxRank /\ v[n] # 0
  BY <1>3 DEF ValidShape, n
<1>10. c[n] # 0 => 0 \notin ToSet(shape)
  BY <1>1, <1>7 DEF Related, ToSet
<1>11. Limit \in Nat /\ MaxRank \in Nat /\ c[n] \in Nat /\ v[n] \in Nat
  BY <1>1, ValidationAssumption
<1>12. CheckedElements(shape) # 0 <=> ValidShape(shape)
  BY <1>1, <1>7, <1>8, <1>9, <1>10, <1>11 DEF Related
<1>13. CheckedElements(shape) # 0 => CheckedElements(shape) = c[n] /\ c[n] # 0 /\ c[n] <= Limit
  BY <1>8, <1>11
<1>14. ValidShape(shape) => LogicalElements(shape) = CheckedElements(shape)
  BY <1>4, <1>7, <1>12, <1>13 DEF Related
<1>15. CheckedElements(shape) # 0 => \A k \in DOMAIN shape : shape[k] \in 1..Limit
  <2>1. ASSUME CheckedElements(shape) # 0, NEW k \in 1..n
        PROVE  shape[k] \in 1..Limit
    <3>1. 0 < shape[k] /\ shape[k] <= c[n] /\ c[n] <= Limit
      BY <1>7, <1>13, <2>1 DEF Related
    <3>2. shape[k] \in Nat
      BY <1>1, <2>1
    <3> QED BY <1>11, <3>1, <3>2
  <2> QED BY <1>1, <2>1
<1>16. CheckedElements(shape) # 0 => FoldLeft(LAMBDA a, d : a * d, 1, shape) = CheckedElements(shape)
  BY <1>5, <1>7, <1>13 DEF Related
<1> QED BY <1>12, <1>14, <1>15, <1>16

-----------------------------------------------------------------------------

\* A function on 1..n is a sequence of length n.
LEMMA FunctionSeq ==
  ASSUME NEW S, NEW n \in Nat, NEW f \in [1..n -> S]
  PROVE  f \in Seq(S) /\ Len(f) = n /\ DOMAIN f = 1..n
<1>1. f \in Seq(S)
  BY SeqDef
<1>2. DOMAIN f = 1..n /\ DOMAIN f = 1..Len(f) /\ Len(f) \in Nat
  BY <1>1, LenProperties
<1> QED BY <1>1, <1>2

Sized(c) ==
  /\ c.inputs \in Seq(ToSet(c.inputs))
  /\ \A i \in DOMAIN c.inputs : c.inputs[i].shape \in Seq(Nat)

\* What enqueue has checked of a request.
Checked(c) ==
  /\ \A i \in DOMAIN c.inputs : CheckedElements(c.inputs[i].shape) # 0
  /\ ValidateInputs(c)

Serving == stage \in {"accepted", "written"}

\* The session has the inputs of the model and their ranks, whatever was served;
\* a request under way is one that was checked.
DeviceInv ==
  /\ info \in Models
  /\ device \in [DOMAIN info.inputs -> Seq(Int)]
  /\ \A k \in DOMAIN info.inputs : Len(device[k]) = Len(info.inputs[k].shape)

RequestInv ==
  /\ stage \in {"idle", "refused", "accepted", "written"}
  /\ request = NoCall \/ Sized(request)
  /\ Serving => Sized(request) /\ Checked(request)
  /\ stage = "written" =>
       \A i \in DOMAIN request.inputs : device[InputIndex(request, i)] = request.inputs[i].shape

\* A request of the adapter carries the shape and the length that were compared.
AskedInv ==
  asked # NoCall /\ Serving =>
    /\ asked \in AdapterCalls
    /\ Supported
    /\ request = RequestOf(asked)
    /\ CheckedElements(ShapeAsked(asked)) = asked.values

AdapterInv == DeviceInv /\ RequestInv /\ AskedInv

\* Every name is in the graph once and in the request once, so the named inputs
\* are the graph's in some order.
LEMMA SlotsMatched ==
  ASSUME info \in Models, NEW c, Sized(c), ValidateInputs(c)
  PROVE  /\ Len(c.inputs) = Len(info.inputs)
         /\ \A i \in DOMAIN c.inputs :
              /\ InputIndex(c, i) \in DOMAIN info.inputs
              /\ info.inputs[InputIndex(c, i)].name = c.inputs[i].name
         /\ \A i, j \in DOMAIN c.inputs : InputIndex(c, i) = InputIndex(c, j) => i = j
         /\ \A k \in DOMAIN info.inputs : \E i \in DOMAIN c.inputs : InputIndex(c, i) = k
<1> DEFINE n == Len(c.inputs)
           m == Len(info.inputs)
           given == [i \in 1..n |-> c.inputs[i].name]
           graph == [k \in 1..m |-> info.inputs[k].name]
           names == NamesOf(c.inputs)
<1>1. /\ n \in Nat /\ DOMAIN c.inputs = 1..n
      /\ m \in Nat /\ DOMAIN info.inputs = 1..m
      /\ \A k, l \in 1..m : info.inputs[k].name = info.inputs[l].name => k = l
  <2>1. info.inputs \in Seq(ToSet(info.inputs))
        /\ \A k, l \in DOMAIN info.inputs : info.inputs[k].name = info.inputs[l].name => k = l
    BY TensorsAssumption
  <2> QED BY <2>1 DEF Sized
<1>2. /\ Cardinality(names) = n /\ names = NamesOf(info.inputs)
      /\ names = {c.inputs[i].name : i \in 1..n} /\ names = {info.inputs[k].name : k \in 1..m}
  BY <1>1 DEF ValidateInputs, NamesOf
<1> HIDE DEF names
<1>3. given \in Surjection(1..n, names) /\ graph \in Surjection(1..m, names)
  BY <1>2 DEF Surjection
<1>4. \A j \in Nat : IsFiniteSet(1..j) /\ Cardinality(1..j) = j
  BY FS_Interval
<1>5. graph \in Injection(1..m, names)
  BY <1>1, <1>3 DEF Injection, IsInjective, Surjection
<1>6. m = n
  <2> HIDE DEF graph, given, n, m
  <2> QED BY <1>1, <1>2, <1>3, <1>4, <1>5, FS_Surjection
<1>7. given \in Injection(1..n, names)
  <2> HIDE DEF graph, given, n, m
  <2> QED BY <1>1, <1>2, <1>3, <1>4, FS_Surjection
<1>8. \A i, j \in 1..n : c.inputs[i].name = c.inputs[j].name => i = j
  BY <1>7 DEF Injection, IsInjective
<1>9. ASSUME NEW i \in 1..n
      PROVE  InputIndex(c, i) \in 1..m /\ info.inputs[InputIndex(c, i)].name = c.inputs[i].name
  <2>1. \E k \in DOMAIN info.inputs : info.inputs[k].name = c.inputs[i].name
    <3>1. c.inputs[i].name \in names
      BY <1>2
    <3>2. \E k \in 1..m : info.inputs[k].name = c.inputs[i].name
      BY <1>2, <3>1
    <3> QED BY <1>1, <3>2
  <2>2. Slot(c.inputs[i].name) \in DOMAIN info.inputs
        /\ info.inputs[Slot(c.inputs[i].name)].name = c.inputs[i].name
    BY <2>1 DEF Slot
  <2> QED BY <1>1, <2>2 DEF InputIndex
<1>10. ASSUME NEW k \in 1..m
       PROVE  \E i \in 1..n : InputIndex(c, i) = k
  <2>1. PICK i \in 1..n : c.inputs[i].name = info.inputs[k].name
    <3>1. info.inputs[k].name \in names
      BY <1>2
    <3> QED BY <1>2, <3>1
  <2>2. InputIndex(c, i) = k
    BY <1>1, <1>9, <2>1
  <2> QED BY <2>2
<1>11. Len(c.inputs) = Len(info.inputs)
  BY <1>6
<1>12. \A i, j \in 1..n : InputIndex(c, i) = InputIndex(c, j) => i = j
  BY <1>8, <1>9
<1> HIDE DEF n, m
<1> QED BY <1>1, <1>9, <1>10, <1>11, <1>12

-----------------------------------------------------------------------------

\* The loaded model is what MNN's map of tensors allows.
LEMMA InfoTypes ==
  ASSUME info \in Models
  PROVE  /\ Len(info.inputs) \in Nat
         /\ DOMAIN info.inputs = 1..Len(info.inputs)
         /\ \A k \in DOMAIN info.inputs : info.inputs[k].shape \in Seq(Int)
         /\ \A k, l \in DOMAIN info.inputs : info.inputs[k].name = info.inputs[l].name => k = l
<1>1. /\ info.inputs \in Seq(ToSet(info.inputs))
      /\ \A k \in DOMAIN info.inputs : info.inputs[k].shape \in Seq(Int)
      /\ \A k, l \in DOMAIN info.inputs : info.inputs[k].name = info.inputs[l].name => k = l
  BY TensorsAssumption
<1> QED BY <1>1

\* The bridge accepts every checked request, resizes each input to the shape its
\* tensor names it for, and finds as many elements as the tensor has.
LEMMA ResizeFits ==
  ASSUME DeviceInv, Sized(request), Checked(request)
  PROVE  /\ ResizeAccepts(Entries)
         /\ Resized(Entries) \in [DOMAIN info.inputs -> Seq(Int)]
         /\ \A i \in DOMAIN request.inputs :
              Resized(Entries)[InputIndex(request, i)] = request.inputs[i].shape
         /\ \A k \in DOMAIN info.inputs : Len(Resized(Entries)[k]) = Len(info.inputs[k].shape)
         /\ WritesAccept(Entries, Resized(Entries))
<1> DEFINE n == Len(request.inputs)
           m == Len(info.inputs)
           shape(i) == request.inputs[i].shape
<1>1. info \in Models /\ ValidateInputs(request)
  BY DEF DeviceInv, Checked
<1>2. n \in Nat /\ DOMAIN request.inputs = 1..n /\ \A i \in 1..n : shape(i) \in Seq(Nat)
  BY DEF Sized
<1>3. m \in Nat /\ DOMAIN info.inputs = 1..m
  BY <1>1, InfoTypes
<1>4. /\ n = m
      /\ \A i \in 1..n : InputIndex(request, i) \in 1..m
      /\ \A i, j \in 1..n : InputIndex(request, i) = InputIndex(request, j) => i = j
      /\ \A k \in 1..m : \E i \in 1..n : InputIndex(request, i) = k
  <2> HIDE DEF n, m
  <2> QED BY <1>1, <1>2, <1>3, SlotsMatched DEF n, m
<1>5. \A i \in 1..n : /\ CheckedElements(shape(i)) # 0
                      /\ ValidShape(shape(i))
                      /\ LogicalElements(shape(i)) = CheckedElements(shape(i))
  <2>1. \A i \in 1..n : CheckedElements(shape(i)) # 0
    BY <1>2 DEF Checked
  <2> HIDE DEF n, shape
  <2> QED BY <1>2, <2>1, CountsAgree
<1>6. \A i \in 1..n : Len(info.inputs[InputIndex(request, i)].shape) = Len(shape(i))
  BY <1>1, <1>2 DEF ValidateInputs, InputIndex
<1>7. /\ device \in [1..m -> Seq(Int)] /\ Len(device) = m /\ DOMAIN device = 1..m
      /\ \A k \in 1..m : Len(device[k]) = Len(info.inputs[k].shape)
  <2>1. device \in [1..m -> Seq(Int)]
        /\ \A k \in 1..m : Len(device[k]) = Len(info.inputs[k].shape)
    BY <1>3 DEF DeviceInv
  <2> HIDE DEF m
  <2> QED BY <1>3, <2>1, FunctionSeq
<1> HIDE DEF n, m
<1>8. /\ Len(Entries) = n /\ DOMAIN Entries = 1..n
      /\ \A i \in 1..n : Entries[i].index = InputIndex(request, i) /\ Entries[i].shape = shape(i)
  <2> DEFINE S == {[index |-> InputIndex(request, i), shape |-> shape(i)] : i \in 1..n}
  <2>1. Entries \in [1..n -> S]
    BY <1>2 DEF Entries
  <2>2. Len(Entries) = n /\ DOMAIN Entries = 1..n
    <3> HIDE DEF S
    <3> QED BY <1>2, <2>1, FunctionSeq
  <2>3. \A i \in 1..n : Entries[i] = [index |-> InputIndex(request, i), shape |-> shape(i)]
    BY <1>2 DEF Entries
  <2> QED BY <2>2, <2>3
<1> HIDE DEF shape
<1>9. ResizeAccepts(Entries)
  <2>1. ASSUME NEW i \in DOMAIN Entries
        PROVE  /\ Entries[i].index \in DOMAIN device
               /\ \A j \in 1..(i - 1) : Entries[j].index # Entries[i].index
               /\ ValidShape(Entries[i].shape)
               /\ Len(Entries[i].shape) = Len(device[Entries[i].index])
    <3>1. i \in 1..n /\ \A j \in 1..(i - 1) : j \in 1..n /\ j # i
      BY <1>2, <1>8
    <3>2. Entries[i].index \in DOMAIN device
      <4>1. Entries[i].index = InputIndex(request, i)
        BY <1>8, <3>1
      <4>2. InputIndex(request, i) \in 1..m
        BY <1>4, <3>1
      <4> QED BY <1>7, <4>1, <4>2
    <3>3. ASSUME NEW j \in 1..(i - 1)
          PROVE  Entries[j].index # Entries[i].index
      <4>1. j \in 1..n /\ j # i
        BY <3>1
      <4>2. /\ Entries[i].index = InputIndex(request, i)
            /\ Entries[j].index = InputIndex(request, j)
        BY <1>8, <3>1, <4>1
      <4>3. InputIndex(request, i) # InputIndex(request, j)
        BY <1>4, <3>1, <4>1
      <4> QED BY <4>2, <4>3
    <3>4. ValidShape(Entries[i].shape)
      BY <1>5, <1>8, <3>1
    <3>5. Len(Entries[i].shape) = Len(device[Entries[i].index])
      BY <1>4, <1>6, <1>7, <1>8, <3>1
    <3> QED BY <3>2, <3>3, <3>4, <3>5
  <2> QED BY <1>4, <1>7, <1>8, <2>1 DEF ResizeAccepts
<1>10. ToSet(Entries) = {Entries[i] : i \in 1..n}
  BY <1>8 DEF ToSet
<1>11. ASSUME NEW i \in 1..n
       PROVE  Resized(Entries)[InputIndex(request, i)] = shape(i)
  <2> DEFINE k == InputIndex(request, i)
             chosen == CHOOSE e \in ToSet(Entries) : e.index = k
  <2>1. k \in DOMAIN device
    BY <1>4, <1>7
  <2>2. Entries[i] \in ToSet(Entries) /\ Entries[i].index = k
    BY <1>8, <1>10
  <2>3. chosen \in ToSet(Entries) /\ chosen.index = k
    <3> HIDE DEF k
    <3> QED BY Zenon, <2>2
  <2>4. PICK j \in 1..n : chosen = Entries[j]
    <3> HIDE DEF chosen
    <3> QED BY <1>10, <2>3
  <2>5. j = i
    <3> HIDE DEF chosen
    <3>1. InputIndex(request, j) = InputIndex(request, i)
      BY <1>8, <2>3, <2>4
    <3> QED BY <1>4, <3>1
  <2>6. Resized(Entries)[k] = chosen.shape
    BY <2>1 DEF Resized
  <2> HIDE DEF chosen
  <2> QED BY <1>8, <2>4, <2>5, <2>6
<1>12. ASSUME NEW k \in 1..m
       PROVE  Resized(Entries)[k] \in Seq(Int) /\ Len(Resized(Entries)[k]) = Len(info.inputs[k].shape)
  <2>1. PICK i \in 1..n : InputIndex(request, i) = k
    BY <1>4
  <2>2. Resized(Entries)[k] = shape(i)
    BY <1>11, <2>1
  <2>3. shape(i) \in Seq(Int)
    BY <1>2
  <2> QED BY <1>6, <2>1, <2>2, <2>3
<1>13. Resized(Entries) \in [1..m -> Seq(Int)]
  <2>1. DOMAIN Resized(Entries) = 1..m /\ Resized(Entries) = [k \in 1..m |-> Resized(Entries)[k]]
    BY <1>7 DEF Resized
  <2> QED BY <1>12, <2>1
<1>14. WritesAccept(Entries, Resized(Entries))
  <2>1. ASSUME NEW e \in ToSet(Entries)
        PROVE  /\ LogicalElements(Resized(Entries)[e.index]) # 0
               /\ LogicalElements(Resized(Entries)[e.index]) = CheckedElements(e.shape)
    <3>1. PICK i \in 1..n : e = Entries[i]
      BY <1>10
    <3>2. Resized(Entries)[e.index] = shape(i) /\ e.shape = shape(i)
      BY <1>8, <1>11, <3>1
    <3> QED BY <1>5, <3>2
  <2> QED BY <2>1 DEF WritesAccept
<1> QED BY <1>2, <1>3, <1>9, <1>11, <1>12, <1>13, <1>14 DEF shape

-----------------------------------------------------------------------------

\* A call of the adapter comes to a request with dimensions of its own or the graph's.
LEMMA AskedSized ==
  ASSUME info \in Models, Supported, NEW a \in AdapterCalls
  PROVE  /\ Sized(RequestOf(a))
         /\ RequestOf(a).inputs[1].shape = ShapeAsked(a)
<1> DEFINE shape == info.inputs[1].shape
<1>1. 1 \in DOMAIN info.inputs /\ shape \in Seq(Int)
  BY InfoTypes DEF Supported
<1>2. Len(shape) \in Nat /\ DOMAIN shape = 1..Len(shape) /\ \A k \in DOMAIN shape : shape[k] \in Int
  BY <1>1
<1>3. InputShape \in [1..Len(shape) -> Nat]
  <2>1. ASSUME NEW k \in DOMAIN shape
        PROVE  Unsigned(shape[k]) \in Nat
    <3>1. Limit < WordMax + 1 + shape[k] /\ shape[k] \in Int
      BY <1>1, <1>2, AdapterAssumption
    <3>2. Limit \in Nat /\ WordMax \in Nat
      BY ValidationAssumption
    <3> HIDE DEF shape
    <3> QED BY <3>1, <3>2 DEF Unsigned
  <2> QED BY <1>2, <2>1 DEF InputShape
<1>4. InputShape \in Seq(Nat)
  <2> HIDE DEF shape
  <2> QED BY <1>2, <1>3, FunctionSeq
<1>5. ShapeAsked(a) \in Seq(Nat)
  BY <1>4, AdapterAssumption DEF ShapeAsked
<1> DEFINE tensor == [name |-> info.inputs[1].name, shape |-> ShapeAsked(a)]
<1>6. RequestOf(a).inputs = <<tensor>> /\ tensor.shape = ShapeAsked(a)
  BY DEF RequestOf
<1> HIDE DEF tensor
<1>7. <<tensor>> \in Seq(ToSet(<<tensor>>)) /\ DOMAIN <<tensor>> = {1}
  BY DEF ToSet
<1> QED BY <1>5, <1>6, <1>7 DEF Sized

LEMMA AdapterStart ==
  ASSUME AdapterInit
  PROVE  AdapterInv
<1>1. info \in Models /\ device = [i \in DOMAIN info.inputs |-> info.inputs[i].shape]
      /\ stage = "idle" /\ request = NoCall
  BY DEF AdapterInit, Init
<1>2. DeviceInv
  BY <1>1, InfoTypes DEF DeviceInv
<1> QED BY <1>1, <1>2 DEF AdapterInv, RequestInv, AskedInv, Serving

LEMMA EnqueueStep ==
  ASSUME DeviceInv, RequestInv, NEW c, Sized(c), Enqueue(c)
  PROVE  DeviceInv' /\ RequestInv'
<1>1. DeviceInv'
  BY DEF Enqueue, DeviceInv
<1>2. stage' \in {"accepted", "refused"} /\ request' = c /\ info' = info
  BY DEF Enqueue
<1>3. stage' = "accepted" => Checked(c)
  BY DEF Enqueue, Checked
<1>4. Checked(c) => Checked(request)'
  BY <1>2 DEF Checked, ValidateInputs, Slot
<1>5. Sized(request)'
  BY <1>2 DEF Sized
<1> QED BY <1>1, <1>2, <1>3, <1>4, <1>5 DEF RequestInv, Serving

LEMMA ResizeAndWriteStep ==
  ASSUME DeviceInv, RequestInv, ResizeAndWrite
  PROVE  DeviceInv' /\ RequestInv'
<1>1. Sized(request) /\ Checked(request)
  BY DEF ResizeAndWrite, RequestInv, Serving
<1>2. /\ ResizeAccepts(Entries) /\ WritesAccept(Entries, Resized(Entries))
      /\ Resized(Entries) \in [DOMAIN info.inputs -> Seq(Int)]
      /\ \A i \in DOMAIN request.inputs :
           Resized(Entries)[InputIndex(request, i)] = request.inputs[i].shape
      /\ \A k \in DOMAIN info.inputs : Len(Resized(Entries)[k]) = Len(info.inputs[k].shape)
  BY <1>1, ResizeFits
<1>3. device' = Resized(Entries) /\ stage' = "written" /\ info' = info /\ request' = request
  BY <1>2 DEF ResizeAndWrite
<1>4. DeviceInv'
  BY <1>2, <1>3 DEF DeviceInv
<1>5. Sized(request)' /\ Checked(request)'
  BY <1>1, <1>3 DEF Sized, Checked, ValidateInputs, Slot
<1>6. \A i \in DOMAIN request.inputs : InputIndex(request, i)' = InputIndex(request, i)
  BY <1>3 DEF InputIndex, Slot
<1>7. (\A i \in DOMAIN request.inputs : device[InputIndex(request, i)] = request.inputs[i].shape)'
  BY <1>2, <1>3, <1>6
<1> QED BY <1>3, <1>4, <1>5, <1>7 DEF RequestInv, Serving

LEMMA ReturnStep ==
  ASSUME DeviceInv, RequestInv, Return
  PROVE  DeviceInv' /\ RequestInv' /\ ~Serving'
BY DEF Return, DeviceInv, RequestInv, Serving

LEMMA AdapterStep ==
  ASSUME AdapterInv, [AdapterNext]_allVars
  PROVE  AdapterInv'
<1> USE DEF AdapterInv
<1>1. ASSUME NEW a \in AdapterCalls, Ask(a)
      PROVE  AdapterInv'
  <2>1. /\ Supported /\ info' = info /\ asked' = a
        /\ info \in Models
    BY <1>1 DEF Ask, Enqueue, DeviceInv
  <2>2. Sized(RequestOf(a))
    BY <2>1, AskedSized
  <2>3. CASE CheckedElements(ShapeAsked(a)) = a.values
    <3>1. Enqueue(RequestOf(a))
      BY <1>1, <2>3 DEF Ask
    <3>2. DeviceInv' /\ RequestInv'
      BY <2>2, <3>1, EnqueueStep
    <3>3. request' = RequestOf(a)
      BY <3>1 DEF Enqueue
    <3>4. AskedInv'
      BY <2>1, <2>3, <3>3 DEF AskedInv, Supported, RequestOf, ShapeAsked, InputShape
    <3> QED BY <3>2, <3>4
  <2>4. CASE CheckedElements(ShapeAsked(a)) # a.values
    <3>1. stage' = "refused" /\ UNCHANGED <<info, device, request>>
      BY <1>1, <2>4 DEF Ask
    <3> QED BY <3>1 DEF DeviceInv, RequestInv, AskedInv, Serving, Sized
  <2> QED BY <2>3, <2>4
<1>2. CASE Serve
  <2>1. DeviceInv' /\ RequestInv'
    BY <1>2, ResizeAndWriteStep DEF Serve
  <2>2. AskedInv'
    BY <1>2 DEF Serve, ResizeAndWrite, adapterVars, AskedInv, Serving, Supported, RequestOf,
                ShapeAsked, InputShape
  <2> QED BY <2>1, <2>2
<1>3. CASE Answer
  BY <1>3, ReturnStep DEF Answer, AskedInv
<1>4. CASE Others
  <2>1. asked' = NoCall
    BY <1>4 DEF Others, adapterVars
  <2>2. CASE Return
    BY <2>1, <2>2, ReturnStep DEF AskedInv
  <2>3. ASSUME NEW c \in Calls, Enqueue(c)
        PROVE  DeviceInv' /\ RequestInv'
    <3>1. Sized(c)
      BY TensorsAssumption DEF Sized
    <3> QED BY <2>3, <3>1, EnqueueStep
  <2> QED BY <1>4, <2>1, <2>2, <2>3 DEF Others, AskedInv
<1>5. CASE UNCHANGED allVars
  BY <1>5 DEF allVars, vars, adapterVars, DeviceInv, RequestInv, AskedInv, Serving, Sized, Checked,
              ValidateInputs, Slot, InputIndex, Supported, RequestOf, ShapeAsked, InputShape
<1> QED BY <1>1, <1>2, <1>3, <1>4, <1>5 DEF AdapterNext

LEMMA AdapterInvariant == AdapterSpec => []AdapterInv
<1>1. AdapterInit => AdapterInv
  BY AdapterStart
<1>2. AdapterInv /\ [AdapterNext]_allVars => AdapterInv'
  BY AdapterStep
<1> QED BY <1>1, <1>2, PTL DEF AdapterSpec

-----------------------------------------------------------------------------

\* LayersAgree: for any shape of any request, Rust's count and the bridge's two are
\* the same, so what Rust allocates is what the bridge copies.
THEOREM LayersCountAlike == AdapterSpec => []LayersAgree
<1>1. ASSUME AdapterInv
      PROVE  LayersAgree
  <2>1. \A shape \in RequestShapes : shape \in Seq(Nat)
    BY <1>1 DEF AdapterInv, RequestInv, Sized, RequestShapes
  <2> QED BY <2>1, CountsAgree DEF LayersAgree
<1> QED BY <1>1, AdapterInvariant, PTL

\* NeverRejected: whatever the model and the requests before it, the bridge's own
\* checks reject no request that enqueue accepted.
THEOREM AcceptedServed == AdapterSpec => []NeverRejected
<1>1. AdapterInv => NeverRejected
  BY DEF AdapterInv, RequestInv, NeverRejected
<1> QED BY <1>1, AdapterInvariant, PTL

\* DeclaredDimensions: each tensor reaches the input it names, and a call that is
\* not dynamic runs at the declared dimensions.
THEOREM DimensionsKept == AdapterSpec => []DeclaredDimensions
<1>1. ASSUME AdapterInv, stage = "written"
      PROVE  /\ ~request.dynamic =>
                  \A k \in DOMAIN device : FitsDeclared(info.inputs[k].shape, device[k], FALSE)
             /\ \A i \in DOMAIN request.inputs :
                  device[Slot(request.inputs[i].name)] = request.inputs[i].shape
  <2>1. /\ info \in Models /\ DOMAIN device = DOMAIN info.inputs
        /\ Sized(request) /\ ValidateInputs(request)
        /\ \A i \in DOMAIN request.inputs : device[InputIndex(request, i)] = request.inputs[i].shape
    BY <1>1 DEF AdapterInv, DeviceInv, RequestInv, Serving, Checked
  <2>2. ASSUME ~request.dynamic, NEW k \in DOMAIN device
        PROVE  FitsDeclared(info.inputs[k].shape, device[k], FALSE)
    <3>1. PICK i \in DOMAIN request.inputs : InputIndex(request, i) = k
      BY <2>1, SlotsMatched
    <3>2. FitsDeclared(info.inputs[k].shape, request.inputs[i].shape, request.dynamic)
      BY <2>1, <3>1 DEF ValidateInputs, InputIndex
    <3> QED BY <2>1, <2>2, <3>1, <3>2 DEF FitsDeclared
  <2> QED BY <2>1, <2>2 DEF InputIndex
<1>2. AdapterInv => DeclaredDimensions
  BY <1>1 DEF DeclaredDimensions
<1> QED BY <1>2, AdapterInvariant, PTL

\* SliceFitsShape: a slice is read as a tensor of exactly its length, and run_raw
\* runs at the declared shape or not at all.
THEOREM SlicesFit == AdapterSpec => []SliceFitsShape
<1>1. ASSUME AdapterInv, asked # NoCall, Serving
      PROVE  LET shape == request.inputs[1].shape IN
               /\ FoldLeft(LAMBDA n, d : n * d, 1, shape) = asked.values
               /\ asked.method = "run_raw" => shape = info.inputs[1].shape
  <2> DEFINE shape == request.inputs[1].shape
             declared == info.inputs[1].shape
  <2>1. /\ info \in Models /\ asked \in AdapterCalls /\ Supported /\ request = RequestOf(asked)
        /\ CheckedElements(ShapeAsked(asked)) = asked.values
        /\ Sized(request) /\ Checked(request)
    BY <1>1 DEF AdapterInv, DeviceInv, RequestInv, AskedInv
  <2>2. shape = ShapeAsked(asked)
    BY <2>1, AskedSized
  <2>3. 1 \in DOMAIN request.inputs
    BY <2>1 DEF RequestOf
  <2>4. shape \in Seq(Nat) /\ CheckedElements(shape) # 0
    BY <2>1, <2>3 DEF Sized, Checked
  <2>5. /\ FoldLeft(LAMBDA n, d : n * d, 1, shape) = CheckedElements(shape)
        /\ \A k \in DOMAIN shape : shape[k] \in 1..Limit
    <3> HIDE DEF shape
    <3> QED BY <2>4, CountsAgree
  <2>6. ASSUME asked.method = "run_raw"
        PROVE  shape = declared
    <3>1. shape = [k \in DOMAIN declared |-> Unsigned(declared[k])]
      BY <2>2, <2>6 DEF ShapeAsked, InputShape
    <3>2. 1 \in DOMAIN info.inputs /\ declared \in Seq(Int)
      BY <2>1, InfoTypes DEF Supported
    <3>3. ASSUME NEW k \in DOMAIN declared
          PROVE  Unsigned(declared[k]) = declared[k]
      <4>1. Limit < WordMax + 1 + declared[k]
        BY <2>1, <3>2, AdapterAssumption
      <4>2. Unsigned(declared[k]) \in 1..Limit
        <5> HIDE DEF shape, declared
        <5> QED BY <2>5, <3>1
      <4>3. declared[k] \in Int /\ Limit \in Nat /\ WordMax \in Nat
        BY <3>2, ValidationAssumption
      <4> HIDE DEF shape, declared
      <4> QED BY <4>1, <4>2, <4>3 DEF Unsigned
    <3>4. declared = [k \in DOMAIN declared |-> declared[k]]
      BY <3>2
    <3> HIDE DEF shape, declared
    <3> QED BY <3>1, <3>3, <3>4
  <2>7. FoldLeft(LAMBDA n, d : n * d, 1, shape) = asked.values
    <3>1. CheckedElements(shape) = asked.values
      BY <2>1, <2>2
    <3> HIDE DEF shape
    <3> QED BY <2>5, <3>1
  <2> QED BY <2>6, <2>7
<1>2. AdapterInv => SliceFitsShape
  BY <1>1 DEF SliceFitsShape, Serving
<1> QED BY <1>2, AdapterInvariant, PTL
=============================================================================
