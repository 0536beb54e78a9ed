-------------------------- MODULE AgentLoopProofs --------------------------
(***************************************************************************)
(* Machine-checked proofs about AgentLoop, for every conversation and all  *)
(* limits, prices, tools and sizes.                                        *)
(***************************************************************************)
EXTENDS AgentLoop, SequenceTheorems, FiniteSetTheorems, TLAPS

-----------------------------------------------------------------------------
(* Folds.  FoldRight folds over the subsets of the indices; the lemmas say   *)
(* that this fold exists, so that it follows the messages one by one.        *)

\* Every set of numbers that is not empty has a least member.
LEMMA MinExists ==
  ASSUME NEW B \in SUBSET Nat, B # {}
  PROVE  Min(B) \in B /\ \A y \in B : Min(B) <= y
<1> DEFINE R == OpToRel(<, Nat)
<1>1. \A x, y \in Nat : <<y, x>> \in R <=> y < x
  BY DEF OpToRel
<1>2. \E x \in B : \A y \in B : ~(<<y, x>> \in R)
  <2>1. IsWellFoundedOn(R, Nat)
    BY NatLessThanWellFounded
  <2> HIDE DEF R
  <2> QED BY <2>1, WFMin
<1>3. \E x \in B : \A y \in B : x <= y
  <2> HIDE DEF R
  <2>1. PICK x \in B : \A y \in B : ~(<<y, x>> \in R)
    BY <1>2
  <2>2. \A y \in B : ~(y < x) /\ x \in Nat /\ y \in Nat
    BY <1>1, <2>1
  <2>3. \A y \in B : x <= y
    BY <2>2
  <2> QED BY <2>3
<1> QED BY <1>3 DEF Min

\* The positions of a sequence are followed from its end.
LEMMA StepBack ==
  ASSUME NEW n \in Nat, NEW j \in Nat
  PROVE  n + 1 - (j + 1) = n - j /\ j + 1 \in Nat
OBVIOUS

\* A set of numbers with 0 and the successor of each member holds every number.
LEMMA Induction ==
  ASSUME NEW A, 0 \in A, \A n \in Nat : n \in A => n + 1 \in A
  PROVE  Nat \subseteq A
<1> DEFINE B == Nat \ A
<1> SUFFICES ASSUME B # {} PROVE FALSE
  OBVIOUS
<1>1. PICK x \in B : \A y \in B : x <= y
  <2>1. B \in SUBSET Nat
    OBVIOUS
  <2> HIDE DEF B
  <2> QED BY <2>1, MinExists
<1>2. x # 0 /\ x - 1 \in Nat /\ x - 1 < x /\ (x - 1) + 1 = x
  OBVIOUS
<1>3. x - 1 \in A
  BY <1>1, <1>2
<1> QED BY <1>2, <1>3

\* h folds the sequence s, with step function g over V and b for nothing.
Folds(h, g, s, b, V) ==
  /\ h \in [SUBSET (DOMAIN s) -> V]
  /\ h = [S \in SUBSET (DOMAIN s) |->
            IF S = {} THEN b ELSE g[<<s[Min(S)], h[S \ {Min(S)}]>>]]

\* A fold of the sequence s with step function g exists: it is built up along
\* the size of the sets of indices.
LEMMA FoldExists ==
  ASSUME NEW X, NEW V, NEW s \in Seq(X), NEW b \in V, NEW g \in [X \X V -> V]
  PROVE  \E h : Folds(h, g, s, b, V)
<1> DEFINE D == DOMAIN s
<1> DEFINE Up(n) == {S \in SUBSET D : Cardinality(S) <= n}
<1> DEFINE Fits(h, n) ==
      h = [S \in Up(n) |-> IF S = {} THEN b ELSE g[<<s[Min(S)], h[S \ {Min(S)}]>>]]
<1> DEFINE G == {n \in Nat : \E h \in [Up(n) -> V] : Fits(h, n)}
<1>a. D = 1..Len(s) /\ Len(s) \in Nat /\ \A i \in D : s[i] \in X
  OBVIOUS
<1>b. IsFiniteSet(D)
  BY <1>a, FS_Interval
<1>1. \A S \in SUBSET D : /\ IsFiniteSet(S) /\ Cardinality(S) \in Nat
                          /\ Cardinality(S) = 0 <=> S = {}
  <2> HIDE DEF D
  <2> QED BY <1>b, FS_Subset, FS_CardinalityType, FS_EmptySet
<1>2. \A S \in SUBSET D : S # {} =>
        Min(S) \in S /\ S \ {Min(S)} \in SUBSET D /\ Cardinality(S \ {Min(S)}) = Cardinality(S) - 1
  <2> SUFFICES ASSUME NEW S \in SUBSET D, S # {}
               PROVE  Min(S) \in S /\ S \ {Min(S)} \in SUBSET D
                      /\ Cardinality(S \ {Min(S)}) = Cardinality(S) - 1
    OBVIOUS
  <2>1. Min(S) \in S
    <3>1. S \in SUBSET Nat
      BY <1>a
    <3> QED BY <3>1, MinExists
  <2> QED BY <1>1, <2>1, FS_RemoveElement
<1> HIDE DEF D
<1>3. 0 \in G
  <2> DEFINE z == [S \in Up(0) |-> b]
  <2>1. Fits(z, 0) /\ z \in [Up(0) -> V]
    BY <1>1
  <2> QED BY <2>1
<1>4. ASSUME NEW n \in Nat, n \in G PROVE n + 1 \in G
  <2>1. PICK h \in [Up(n) -> V] : Fits(h, n)
    BY <1>4
  <2> DEFINE k == [S \in Up(n + 1) |-> IF S \in Up(n) THEN h[S]
                                       ELSE g[<<s[Min(S)], h[S \ {Min(S)}]>>]]
  <2>2. ASSUME NEW S \in Up(n + 1)
        PROVE  /\ k[S] \in V
               /\ k[S] = IF S = {} THEN b ELSE g[<<s[Min(S)], k[S \ {Min(S)}]>>]
    <3>1. CASE S = {}
      <4>1. S \in Up(n)
        BY <1>1, <3>1
      <4> QED BY <2>1, <3>1, <4>1
    <3>2. CASE S # {}
      <4>1. S \ {Min(S)} \in Up(n) /\ S \ {Min(S)} \in Up(n + 1)
        <5> DEFINE T == S \ {Min(S)}
        <5>1. S \in SUBSET D /\ Cardinality(S) <= n + 1
          OBVIOUS
        <5>2. T \in SUBSET D /\ Cardinality(T) = Cardinality(S) - 1
          BY <1>2, <3>2, <5>1
        <5>3. Cardinality(S) \in Nat /\ Cardinality(T) \in Nat
          BY <1>1, <5>1, <5>2
        <5> HIDE DEF T
        <5>4. Cardinality(T) <= n /\ Cardinality(T) <= n + 1
          BY <5>1, <5>2, <5>3
        <5>5. T \in Up(n) /\ T \in Up(n + 1)
          BY <5>2, <5>4
        <5> QED BY <5>5 DEF T
      <4>2. k[S \ {Min(S)}] = h[S \ {Min(S)}] /\ h[S \ {Min(S)}] \in V
        BY <4>1
      <4>3. S \in Up(n) => h[S] = g[<<s[Min(S)], h[S \ {Min(S)}]>>]
        BY <2>1, <3>2
      <4>4. s[Min(S)] \in X
        BY <1>a, <1>2, <3>2
      <4> QED BY <3>2, <4>2, <4>3, <4>4
    <3> QED BY <3>1, <3>2
  <2>3. k = [S \in Up(n + 1) |-> k[S]] /\ k \in [Up(n + 1) -> V]
    <3>1. k = [S \in Up(n + 1) |-> k[S]]
      OBVIOUS
    <3> HIDE DEF k, Up
    <3> QED BY <2>2, <3>1
  <2>4. Fits(k, n + 1)
    <3> HIDE DEF k, Up
    <3> QED BY <2>2, <2>3
  <2>5. n + 1 \in Nat
    OBVIOUS
  <2> HIDE DEF Fits, k, Up
  <2> QED BY <2>3, <2>4, <2>5
<1>5. Nat \subseteq G
  <2> HIDE DEF G
  <2> QED BY <1>3, <1>4, Induction
<1>6. Cardinality(D) \in Nat /\ Up(Cardinality(D)) = SUBSET D
  <2>1. \A S \in SUBSET D : Cardinality(S) <= Cardinality(D)
    BY <1>b, FS_Subset
  <2> QED BY <1>1, <2>1
<1>7. PICK h \in [Up(Cardinality(D)) -> V] : Fits(h, Cardinality(D))
  BY <1>5, <1>6
<1> QED BY <1>6, <1>7 DEF D, Folds

\* The sets of indices that a fold of a sequence meets are its suffixes.
LEMMA Suffix ==
  ASSUME NEW n \in Nat, NEW i \in 1..n
  PROVE  /\ (i..n) # {} /\ (i..n) \in SUBSET (1..n)
         /\ Min(i..n) = i /\ (i..n) \ {i} = (i + 1)..n
         /\ (n + 1)..n = {}
<1>1. i \in i..n /\ (i..n) \in SUBSET Nat
  OBVIOUS
<1>2. Min(i..n) \in i..n /\ Min(i..n) <= i
  <2> DEFINE S == i..n
  <2>1. i \in S /\ S \in SUBSET Nat
    BY <1>1
  <2> HIDE DEF S
  <2>2. Min(S) \in S /\ Min(S) <= i
    BY <2>1, MinExists
  <2> QED BY <2>2 DEF S
<1> QED BY <1>1, <1>2

\* The sizes that Total adds up, from the latest message back: f[i] is the size
\* of the messages from the i-th on.
Sums(f, s) ==
  /\ f \in [1..(Len(s) + 1) -> Nat]
  /\ f[Len(s) + 1] = 0
  /\ \A i \in 1..Len(s) : f[i] = s[i] + f[i + 1]

\* Total is the sum of the sizes.
LEMMA TotalSums ==
  ASSUME NEW s \in Seq(Nat)
  PROVE  \E f : Sums(f, s) /\ Total(s) = f[1]
<1> DEFINE n == Len(s)
           D == DOMAIN s
           P(h) == h = [S \in SUBSET D |-> IF S = {} THEN 0 ELSE s[Min(S)] + h[S \ {Min(S)}]]
           H == CHOOSE h : P(h)
           f == [i \in 1..(n + 1) |-> H[i..n]]
<1>a. n \in Nat /\ D = 1..n /\ \A i \in 1..n : s[i] \in Nat
  OBVIOUS
<1>1. \E h : P(h)
  <2> DEFINE g == [p \in Nat \X Nat |-> p[1] + p[2]]
  <2>1. g \in [Nat \X Nat -> Nat] /\ 0 \in Nat
    OBVIOUS
  <2>a. PICK h : Folds(h, g, s, 0, Nat)
    <3> HIDE DEF g
    <3> QED BY <2>1, FoldExists
  <2>2. /\ h \in [SUBSET D -> Nat]
        /\ h = [S \in SUBSET D |-> IF S = {} THEN 0 ELSE g[<<s[Min(S)], h[S \ {Min(S)}]>>]]
    <3> HIDE DEF g
    <3> QED BY <2>a DEF Folds
  <2>3. ASSUME NEW S \in SUBSET D, S # {}
        PROVE  g[<<s[Min(S)], h[S \ {Min(S)}]>>] = s[Min(S)] + h[S \ {Min(S)}]
    <3>1. S \in SUBSET Nat
      BY <1>a
    <3>2. Min(S) \in D
      BY <2>3, <3>1, MinExists
    <3>3. s[Min(S)] \in Nat
      <4> HIDE DEF D
      <4> QED BY <1>a, <3>2
    <3>4. h[S \ {Min(S)}] \in Nat
      <4> HIDE DEF D
      <4> QED BY <2>2
    <3> HIDE DEF D
    <3> QED BY <3>3, <3>4
  <2>4. P(h)
    <3> HIDE DEF g, D
    <3> QED BY <2>2, <2>3
  <2> HIDE DEF P
  <2> QED BY <2>4
<1>2. P(H)
  <2> HIDE DEF P
  <2> QED BY <1>1
<1>3. Total(s) = H[1..n]
  <2>1. Total(s) = H[D]
    BY DEF Total, FoldRight, MapThenFoldSet
  <2> HIDE DEF H
  <2> QED BY <1>a, <2>1
<1> HIDE DEF H
<1>4. H[(n + 1)..n] = 0
  <2>1. (n + 1)..n = {} /\ {} \in SUBSET D
    BY <1>a
  <2> HIDE DEF D, n
  <2> QED BY <1>2, <2>1
<1>5. ASSUME NEW i \in 1..n PROVE H[i..n] = s[i] + H[(i + 1)..n]
  <2>1. (i..n) # {} /\ (i..n) \in SUBSET D /\ Min(i..n) = i /\ (i..n) \ {i} = (i + 1)..n
    BY <1>a, Suffix
  <2> DEFINE S == i..n
  <2>2. H[S] = s[Min(S)] + H[S \ {Min(S)}]
    <3> HIDE DEF S, D
    <3>1. S # {} /\ S \in SUBSET D
      BY <2>1 DEF S
    <3> QED BY <1>2, <3>1
  <2> QED BY <2>1, <2>2
<1> DEFINE A == {j \in Nat : j <= n => H[(n + 1 - j)..n] \in Nat}
<1>6. Nat \subseteq A
  <2>1. 0 \in A
    BY <1>a, <1>4
  <2>2. ASSUME NEW j \in Nat, j \in A PROVE j + 1 \in A
    <3> SUFFICES ASSUME j + 1 <= n PROVE H[(n - j)..n] \in Nat
      <4>1. n + 1 - (j + 1) = n - j /\ j + 1 \in Nat
        BY <1>a, StepBack
      <4> QED BY <4>1
    <3>1. n - j \in 1..n /\ n + 1 - j = (n - j) + 1 /\ j <= n
      BY <1>a
    <3>2. H[(n - j)..n] = s[n - j] + H[((n - j) + 1)..n]
      BY <1>5, <3>1
    <3>3. H[((n - j) + 1)..n] \in Nat
      BY <2>2, <3>1
    <3> QED BY <1>a, <3>1, <3>2, <3>3
  <2> HIDE DEF A
  <2> QED BY <2>1, <2>2, Induction
<1>7. ASSUME NEW i \in 1..(n + 1) PROVE H[i..n] \in Nat
  <2>1. n + 1 - i \in Nat /\ n + 1 - i <= n /\ n + 1 - (n + 1 - i) = i
    BY <1>a
  <2> QED BY <1>6, <2>1
<1>8. f \in [1..(n + 1) -> Nat]
  BY <1>7
<1>9. f[n + 1] = 0 /\ f[1] = H[1..n]
  BY <1>a, <1>4
<1>10. \A i \in 1..n : f[i] = s[i] + f[i + 1]
  BY <1>a, <1>5
<1> HIDE DEF f
<1> QED BY <1>3, <1>8, <1>9, <1>10 DEF Sums

\* The size of the k latest messages, in the sums of the whole conversation.
LEMMA LatestSums ==
  ASSUME NEW s \in Seq(Nat), NEW f, Sums(f, s), NEW k \in 0..Len(s)
  PROVE  Total(Latest(s, k)) = f[Len(s) - k + 1]
<1> DEFINE n == Len(s)
           t == Latest(s, k)
<1>a. n \in Nat /\ k \in Nat /\ k <= n /\ \A i \in 1..n : s[i] \in Nat
  OBVIOUS
<1>b. n - k + 1 \in Int /\ n \in Int /\ \A i \in (n - k + 1)..n : s[i] \in Nat
  BY <1>a
<1>1. t \in Seq(Nat) /\ Len(t) = k /\ \A j \in 1..k : t[j] = s[n - k + j]
  <2> DEFINE m == n - k + 1
  <2>1. m \in Int /\ n \in Int /\ \A i \in m..n : s[i] \in Nat
    BY <1>b
  <2>2. /\ SubSeq(s, m, n) \in Seq(Nat)
        /\ Len(SubSeq(s, m, n)) = IF m <= n THEN n - m + 1 ELSE 0
        /\ \A i \in 1..(n - m + 1) : SubSeq(s, m, n)[i] = s[m + i - 1]
    <3> HIDE DEF m
    <3> QED BY <2>1, SubSeqProperties
  <2>3. (IF m <= n THEN n - m + 1 ELSE 0) = k /\ n - m + 1 = k
        /\ \A j \in 1..k : m + j - 1 = n - k + j
    BY <1>a
  <2> QED BY <2>2, <2>3 DEF Latest
<1> HIDE DEF t
<1>2. PICK e : Sums(e, t) /\ Total(t) = e[1]
  BY <1>1, TotalSums
<1> DEFINE A == {j \in Nat : j <= k => e[k + 1 - j] = f[n + 1 - j]}
<1>3. 0 \in A
  BY <1>a, <1>1, <1>2 DEF Sums
<1>4. ASSUME NEW j \in Nat, j \in A PROVE j + 1 \in A
  <2> SUFFICES ASSUME j + 1 <= k PROVE e[k - j] = f[n - j]
    <3>1. k + 1 - (j + 1) = k - j /\ n + 1 - (j + 1) = n - j /\ j + 1 \in Nat
      BY <1>a, StepBack
    <3> QED BY <3>1
  <2>1. k - j \in 1..k /\ n - j \in 1..n /\ (k - j) + 1 = k + 1 - j
        /\ (n - j) + 1 = n + 1 - j /\ n - k + (k - j) = n - j /\ j <= k
    BY <1>a
  <2>2. e[k - j] = t[k - j] + e[(k - j) + 1]
    BY <1>1, <1>2, <2>1 DEF Sums
  <2>3. f[n - j] = s[n - j] + f[(n - j) + 1]
    BY <2>1 DEF Sums
  <2>4. t[k - j] = s[n - j]
    BY <1>1, <2>1
  <2>5. e[k + 1 - j] = f[n + 1 - j]
    BY <1>4, <2>1
  <2> QED BY <2>1, <2>2, <2>3, <2>4, <2>5
<1>5. Nat \subseteq A
  <2> HIDE DEF A
  <2> QED BY <1>3, <1>4, Induction
<1>6. e[k + 1 - k] = f[n + 1 - k]
  BY <1>a, <1>5
<1>7. k + 1 - k = 1 /\ n + 1 - k = n - k + 1
  BY <1>a
<1> QED BY <1>2, <1>6, <1>7 DEF t

-----------------------------------------------------------------------------
(* _bounded_messages *)

Sizes == Nat \ {0}
Acc == [budget : Int, selected : Seq(Sizes), open : BOOLEAN]
Base == [budget |-> max_input_tokens - SystemSize, selected |-> <<>>, open |-> TRUE]

\* What the loop holds after the messages from the i-th on.
Loops(a, s) ==
  /\ a \in [1..(Len(s) + 1) -> Acc]
  /\ a[Len(s) + 1] = Base
  /\ \A i \in 1..Len(s) : a[i] = Take(s[i], a[i + 1])

\* The types of the limits.
LEMMA Limits ==
  /\ max_input_tokens \in Nat /\ max_output_tokens \in Nat /\ max_output_tokens > 0
  /\ max_cost \in Nat /\ max_model_rounds \in Nat /\ max_tool_calls \in Nat
  /\ input_price \in Nat /\ output_price \in Nat /\ SystemSize \in Nat
  /\ Uncounted \in Nat /\ MaxCallsPerRound \in Nat
BY AgentLoopAssumption

\* The type of a report.
LEMMA ReportType ==
  ASSUME NEW report \in Reports
  PROVE  report \in Usage /\ report.input \in Nat /\ report.output \in Nat
BY AgentLoopAssumption DEF Usage

\* One message more.
LEMMA TakeType ==
  ASSUME NEW x \in Sizes, NEW a \in Acc
  PROVE  /\ Take(x, a) \in Acc
         /\ a.open /\ x <= a.budget =>
              /\ Take(x, a).budget = a.budget - x /\ Take(x, a).open
              /\ Take(x, a).selected = <<x>> \o a.selected
         /\ ~(a.open /\ x <= a.budget) =>
              /\ Take(x, a).budget = a.budget /\ ~Take(x, a).open
              /\ Take(x, a).selected = a.selected
<1>1. CASE a.open /\ x <= a.budget
  <2> DEFINE e == [a EXCEPT !.budget = @ - x, !.selected = <<x>> \o @]
  <2>1. <<x>> \o a.selected \in Seq(Sizes) /\ a.budget - x \in Int
    BY DEF Acc, Sizes
  <2>2. e \in Acc /\ e.budget = a.budget - x /\ e.open = a.open
        /\ e.selected = <<x>> \o a.selected
    BY <2>1 DEF Acc
  <2>3. Take(x, a) = e
    BY <1>1 DEF Take
  <2> HIDE DEF e
  <2> QED BY <1>1, <2>2, <2>3
<1>2. CASE ~(a.open /\ x <= a.budget)
  <2> DEFINE e == [a EXCEPT !.open = FALSE]
  <2>1. e \in Acc /\ e.budget = a.budget /\ e.open = FALSE /\ e.selected = a.selected
    BY DEF Acc
  <2>2. Take(x, a) = e
    BY <1>2 DEF Take
  <2> HIDE DEF e
  <2> QED BY <1>2, <2>1, <2>2
<1> QED BY <1>1, <1>2

\* BoundedMessages is what the loop has selected when it has seen all messages.
LEMMA SelectionLoops ==
  ASSUME NEW s \in Seq(Sizes)
  PROVE  \E a : Loops(a, s) /\ BoundedMessages(s) = a[1].selected
<1> DEFINE n == Len(s)
           D == DOMAIN s
           P(h) == h = [S \in SUBSET D |->
                          IF S = {} THEN Base ELSE Take(s[Min(S)], h[S \ {Min(S)}])]
           H == CHOOSE h : P(h)
           f == [i \in 1..(n + 1) |-> H[i..n]]
<1>a. n \in Nat /\ D = 1..n /\ \A i \in 1..n : s[i] \in Sizes
  OBVIOUS
<1>b. Base \in Acc
  BY Limits DEF Base, Acc
<1>1. \E h : P(h)
  <2> DEFINE g == [p \in Sizes \X Acc |-> Take(p[1], p[2])]
  <2>1. g \in [Sizes \X Acc -> Acc]
    BY TakeType
  <2>2. PICK h : Folds(h, g, s, Base, Acc)
    <3> HIDE DEF g
    <3> QED BY <1>b, <2>1, FoldExists
  <2>3. /\ h \in [SUBSET D -> Acc]
        /\ h = [S \in SUBSET D |-> IF S = {} THEN Base ELSE g[<<s[Min(S)], h[S \ {Min(S)}]>>]]
    <3> HIDE DEF g
    <3> QED BY <2>2 DEF Folds
  <2>4. ASSUME NEW S \in SUBSET D, S # {}
        PROVE  g[<<s[Min(S)], h[S \ {Min(S)}]>>] = Take(s[Min(S)], h[S \ {Min(S)}])
    <3>1. S \in SUBSET Nat
      BY <1>a
    <3>2. Min(S) \in D
      BY <2>4, <3>1, MinExists
    <3> HIDE DEF D
    <3>3. s[Min(S)] \in Sizes
      BY <1>a, <3>2
    <3>4. h[S \ {Min(S)}] \in Acc
      BY <2>3
    <3> QED BY <3>3, <3>4
  <2>5. P(h)
    <3> HIDE DEF g, D
    <3> QED BY <2>3, <2>4
  <2> HIDE DEF P
  <2> QED BY <2>5
<1>2. P(H)
  <2> HIDE DEF P
  <2> QED BY <1>1
<1>3. BoundedMessages(s) = H[1..n].selected
  <2>1. BoundedMessages(s) = H[D].selected
    BY DEF BoundedMessages, FoldRight, MapThenFoldSet, Base
  <2> HIDE DEF H
  <2> QED BY <1>a, <2>1
<1> HIDE DEF H
<1>4. H[(n + 1)..n] = Base
  <2>1. (n + 1)..n = {} /\ {} \in SUBSET D
    BY <1>a
  <2> HIDE DEF D, n
  <2> QED BY <1>2, <2>1
<1>5. ASSUME NEW i \in 1..n PROVE H[i..n] = Take(s[i], H[(i + 1)..n])
  <2>1. (i..n) # {} /\ (i..n) \in SUBSET D /\ Min(i..n) = i /\ (i..n) \ {i} = (i + 1)..n
    BY <1>a, Suffix
  <2> DEFINE S == i..n
  <2>2. H[S] = Take(s[Min(S)], H[S \ {Min(S)}])
    <3> HIDE DEF S, D
    <3>1. S # {} /\ S \in SUBSET D
      BY <2>1 DEF S
    <3> QED BY <1>2, <3>1
  <2> QED BY <2>1, <2>2
<1> DEFINE A == {j \in Nat : j <= n => H[(n + 1 - j)..n] \in Acc}
<1>6. Nat \subseteq A
  <2>1. 0 \in A
    BY <1>a, <1>b, <1>4
  <2>2. ASSUME NEW j \in Nat, j \in A PROVE j + 1 \in A
    <3> SUFFICES ASSUME j + 1 <= n PROVE H[(n - j)..n] \in Acc
      <4>1. n + 1 - (j + 1) = n - j /\ j + 1 \in Nat
        BY <1>a, StepBack
      <4> QED BY <4>1
    <3>1. n - j \in 1..n /\ n + 1 - j = (n - j) + 1 /\ j <= n
      BY <1>a
    <3>2. H[(n - j)..n] = Take(s[n - j], H[((n - j) + 1)..n])
      BY <1>5, <3>1
    <3>3. H[((n - j) + 1)..n] \in Acc
      BY <2>2, <3>1
    <3>4. s[n - j] \in Sizes
      BY <1>a, <3>1
    <3> QED BY <3>2, <3>3, <3>4, TakeType
  <2> HIDE DEF A
  <2> QED BY <2>1, <2>2, Induction
<1>7. ASSUME NEW i \in 1..(n + 1) PROVE H[i..n] \in Acc
  <2>1. n + 1 - i \in Nat /\ n + 1 - i <= n /\ n + 1 - (n + 1 - i) = i
    BY <1>a
  <2> QED BY <1>6, <2>1
<1>8. f \in [1..(n + 1) -> Acc]
  BY <1>7
<1>9. f[n + 1] = Base /\ f[1] = H[1..n]
  BY <1>a, <1>4
<1>10. \A i \in 1..n : f[i] = Take(s[i], f[i + 1])
  BY <1>a, <1>5
<1> HIDE DEF f
<1> QED BY <1>3, <1>8, <1>9, <1>10 DEF Loops

\* The earlier a suffix begins the larger it is.
LEMMA SumsGrow ==
  ASSUME NEW s \in Seq(Nat), NEW f, Sums(f, s), NEW m \in 1..(Len(s) + 1), NEW i \in 1..m
  PROVE  f[m] <= f[i]
<1> DEFINE n == Len(s)
           A == {j \in Nat : j < m => f[m] <= f[m - j]}
<1>a. n \in Nat /\ (\A x \in 1..n : s[x] \in Nat) /\ (\A x \in 1..(n + 1) : f[x] \in Nat)
      /\ m \in 1..(n + 1)
  <2>1. n \in Nat /\ (\A x \in 1..n : s[x] \in Nat) /\ m \in 1..(n + 1)
    OBVIOUS
  <2>2. f \in [1..(n + 1) -> Nat]
    BY DEF Sums
  <2> QED BY <2>1, <2>2
<1>1. 0 \in A
  BY <1>a
<1>2. ASSUME NEW j \in Nat, j \in A PROVE j + 1 \in A
  <2> SUFFICES ASSUME j + 1 < m PROVE f[m] <= f[m - (j + 1)]
    OBVIOUS
  <2>1. m - (j + 1) \in 1..n /\ (m - (j + 1)) + 1 = m - j /\ m - j \in 1..(n + 1) /\ j < m
        /\ m - (j + 1) \in 1..(n + 1)
    BY <1>a
  <2>2. f[m - (j + 1)] = s[m - (j + 1)] + f[m - j]
    BY <2>1 DEF Sums
  <2>3. f[m] <= f[m - j]
    BY <1>2, <2>1
  <2>4. s[m - (j + 1)] \in Nat /\ f[m - j] \in Nat /\ f[m] \in Nat
    BY <1>a, <2>1
  <2> QED BY <2>2, <2>3, <2>4
<1>3. Nat \subseteq A
  <2> HIDE DEF A
  <2> QED BY <1>1, <1>2, Induction
<1>4. m - i \in Nat /\ m - i < m /\ m - (m - i) = i
  BY <1>a
<1> QED BY <1>3, <1>4

\* The loop has selected the messages from the m-th on, has left what they do
\* not use of the limit and, once it stopped, met a message that did not fit.
Selected(a, f, s, i, m) ==
  /\ a[i].selected = SubSeq(s, m, Len(s))
  /\ a[i].budget = max_input_tokens - SystemSize - f[m]
  /\ m <= Len(s) => a[i].budget >= 0
  /\ a[i].open => m = i
  /\ ~a[i].open => m > i /\ s[m - 1] > a[i].budget

\* So it is after every message.
LEMMA LoopInvariant ==
  ASSUME NEW s \in Seq(Sizes), NEW f, Sums(f, s), NEW a, Loops(a, s),
         NEW i \in 1..(Len(s) + 1)
  PROVE  \E m \in i..(Len(s) + 1) : Selected(a, f, s, i, m)
<1> DEFINE n == Len(s)
           OK(x) == \E m \in x..(n + 1) : Selected(a, f, s, x, m)
           A == {j \in Nat : j <= n => OK(n + 1 - j)}
<1>a. /\ n \in Nat /\ \A x \in 1..n : s[x] \in Sizes
      /\ \A x \in 1..(n + 1) : a[x] \in Acc /\ f[x] \in Nat
      /\ max_input_tokens \in Nat /\ SystemSize \in Nat
  BY Limits DEF Loops, Sums
<1>1. 0 \in A
  <2>1. SubSeq(s, n + 1, n) = <<>>
    BY <1>a, SubSeqEmpty
  <2>2. a[n + 1] = Base /\ f[n + 1] = 0
    BY DEF Loops, Sums
  <2>3. Selected(a, f, s, n + 1, n + 1)
    BY <1>a, <2>1, <2>2 DEF Selected, Base
  <2>4. n + 1 - 0 = n + 1 /\ n + 1 \in (n + 1)..(n + 1)
    BY <1>a
  <2> QED BY <2>3, <2>4
<1>2. ASSUME NEW j \in Nat, j \in A PROVE j + 1 \in A
  <2> SUFFICES ASSUME j + 1 <= n PROVE OK(n - j)
    <3>1. n + 1 - (j + 1) = n - j /\ j + 1 \in Nat
      BY <1>a, StepBack
    <3> HIDE DEF OK
    <3> QED BY <3>1
  <2> DEFINE x == n - j
  <2>1. x \in 1..n /\ x \in Nat /\ x + 1 = n + 1 - j /\ j <= n /\ x + 1 \in 1..(n + 1)
    BY <1>a
  <2> HIDE DEF x
  <2>2. PICK m \in (x + 1)..(n + 1) : Selected(a, f, s, x + 1, m)
    <3>1. OK(n + 1 - j)
      BY <1>2, <2>1
    <3> QED BY <2>1, <3>1
  <2>3. a[x] = Take(s[x], a[x + 1])
    BY <2>1 DEF Loops
  <2>4. a[x + 1] \in Acc /\ s[x] \in Sizes /\ f[x + 1] \in Nat /\ f[x] \in Nat
    BY <1>a, <2>1
  <2>5. f[x] = s[x] + f[x + 1]
    BY <2>1 DEF Sums
  <2>6. CASE a[x + 1].open /\ s[x] <= a[x + 1].budget
    <3>1. m = x + 1
      BY <2>2, <2>6 DEF Selected
    <3>2. /\ a[x].budget = a[x + 1].budget - s[x] /\ a[x].open
          /\ a[x].selected = <<s[x]>> \o a[x + 1].selected
      <4>1. LET t == Take(s[x], a[x + 1])
            IN  t.budget = a[x + 1].budget - s[x] /\ t.open
                /\ t.selected = <<s[x]>> \o a[x + 1].selected
        BY <2>4, <2>6, TakeType, Zenon
      <4> QED BY <2>3, <4>1
    <3>3. SubSeq(s, x, n) = <<s[x]>> \o SubSeq(s, x + 1, n)
      <4>1. x \in 1..Len(s) /\ n \in x..Len(s)
        BY <1>a, <2>1
      <4> QED BY <4>1, SubSeqRecursiveFirst
    <3>4. a[x + 1].selected = SubSeq(s, x + 1, n)
          /\ a[x + 1].budget = max_input_tokens - SystemSize - f[x + 1]
      BY <2>2, <3>1 DEF Selected
    <3>5. a[x].budget = max_input_tokens - SystemSize - f[x] /\ a[x].budget >= 0
      <4>1. a[x + 1].budget \in Int /\ s[x] \in Int
        BY <2>4 DEF Acc, Sizes
      <4> DEFINE u == a[x + 1].budget
                 v == s[x]
                 w == f[x + 1]
      <4>2. /\ a[x].budget = u - v /\ v <= u /\ f[x] = v + w
            /\ u = max_input_tokens - SystemSize - w
            /\ u \in Int /\ v \in Int /\ w \in Nat
        BY <2>4, <2>5, <2>6, <3>2, <3>4, <4>1
      <4> HIDE DEF u, v, w
      <4> QED BY <1>a, <4>2
    <3>6. Selected(a, f, s, x, x)
      BY <3>2, <3>3, <3>4, <3>5 DEF Selected
    <3>7. x \in x..(n + 1)
      BY <1>a, <2>1
    <3> QED BY <3>6, <3>7 DEF x
  <2>7. CASE ~(a[x + 1].open /\ s[x] <= a[x + 1].budget)
    <3>1. /\ a[x].budget = a[x + 1].budget /\ ~a[x].open
          /\ a[x].selected = a[x + 1].selected
      <4>1. LET t == Take(s[x], a[x + 1])
            IN  t.budget = a[x + 1].budget /\ ~t.open /\ t.selected = a[x + 1].selected
        BY <2>4, <2>7, TakeType, Zenon
      <4> QED BY <2>3, <4>1
    <3>2. m > x
      BY <2>1, <2>2
    <3>3. s[m - 1] > a[x].budget
      <4>1. CASE a[x + 1].open
        <5>1. m - 1 = x
          BY <2>1, <2>2, <4>1 DEF Selected
        <5>2. ~(s[x] <= a[x + 1].budget) /\ s[x] \in Int /\ a[x + 1].budget \in Int
          BY <2>4, <2>7, <4>1 DEF Sizes, Acc
        <5> QED BY <3>1, <5>1, <5>2
      <4>2. CASE ~a[x + 1].open
        BY <2>2, <3>1, <4>2 DEF Selected
      <4> QED BY <4>1, <4>2
    <3>4. Selected(a, f, s, x, m)
      BY <2>2, <3>1, <3>2, <3>3 DEF Selected
    <3>5. m \in x..(n + 1)
      BY <1>a, <2>1, <2>2
    <3> QED BY <3>4, <3>5 DEF x
  <2> QED BY <2>6, <2>7
<1>3. Nat \subseteq A
  <2> HIDE DEF A
  <2> QED BY <1>1, <1>2, Induction
<1>4. n + 1 - i \in Nat /\ n + 1 - i <= n /\ n + 1 - (n + 1 - i) = i
  BY <1>a
<1> QED BY <1>3, <1>4

\* What is selected are the k latest messages; they fit, and no more would.
LEMMA Selection ==
  ASSUME NEW s \in Seq(Sizes)
  PROVE  \E k \in 0..Len(s) :
           /\ BoundedMessages(s) = Latest(s, k)
           /\ Total(Latest(s, k)) \in Nat
           /\ k = 0 \/ SystemSize + Total(Latest(s, k)) <= max_input_tokens
           /\ k = 0 => Latest(s, k) = <<>>
           /\ \A j \in (k + 1)..Len(s) : SystemSize + Total(Latest(s, j)) > max_input_tokens
<1> DEFINE n == Len(s)
<1>a. s \in Seq(Nat)
  BY SeqMonotonic DEF Sizes
<1>1. PICK f : Sums(f, s)
  BY <1>a, TotalSums
<1>2. PICK a : Loops(a, s) /\ BoundedMessages(s) = a[1].selected
  BY SelectionLoops
<1>b. /\ n \in Nat /\ \A x \in 1..n : s[x] \in Nat
      /\ \A x \in 1..(n + 1) : a[x] \in Acc /\ f[x] \in Nat
      /\ max_input_tokens \in Nat /\ SystemSize \in Nat /\ 1 \in 1..(n + 1)
  <2>1. n \in Nat /\ (\A x \in 1..n : s[x] \in Nat) /\ 1 \in 1..(n + 1)
    BY <1>a
  <2>2. f \in [1..(n + 1) -> Nat] /\ a \in [1..(n + 1) -> Acc]
    BY <1>1, <1>2 DEF Loops, Sums
  <2> QED BY <2>1, <2>2, Limits
<1>3. PICK m \in 1..(n + 1) : Selected(a, f, s, 1, m)
  BY <1>b, <1>1, <1>2, LoopInvariant
<1> DEFINE k == n + 1 - m
<1>4. k \in 0..n /\ n - k + 1 = m /\ k \in Nat /\ (k = 0 <=> m = n + 1) /\ m \in Nat
  BY <1>b
<1> HIDE DEF k
<1>5. Total(Latest(s, k)) = f[m] /\ f[m] \in Nat
  <2>1. Total(Latest(s, k)) = f[n - k + 1]
    BY <1>a, <1>1, <1>4, LatestSums
  <2> QED BY <1>b, <1>4, <2>1
<1>6. BoundedMessages(s) = Latest(s, k)
  BY <1>2, <1>3, <1>4 DEF Selected, Latest
<1>7. k = 0 \/ SystemSize + f[m] <= max_input_tokens
  <2> SUFFICES ASSUME k # 0 PROVE SystemSize + f[m] <= max_input_tokens
    OBVIOUS
  <2>1. m <= n
    BY <1>4
  <2>2. a[1].budget >= 0 /\ a[1].budget = max_input_tokens - SystemSize - f[m]
    BY <1>3, <2>1 DEF Selected
  <2> QED BY <1>b, <1>5, <2>2
<1>8. ASSUME NEW j \in (k + 1)..n PROVE SystemSize + Total(Latest(s, j)) > max_input_tokens
  <2>1. j \in 0..n /\ n - j + 1 \in 1..(m - 1) /\ m - 1 \in 1..n
    BY <1>b, <1>4
  <2>2. Total(Latest(s, j)) = f[n - j + 1]
    BY <1>a, <1>1, <2>1, LatestSums
  <2>3. f[m - 1] <= f[n - j + 1]
    <3>1. m - 1 \in 1..(n + 1)
      BY <1>b, <2>1
    <3> QED BY <1>a, <1>1, <2>1, <3>1, SumsGrow
  <2>4. f[m - 1] = s[m - 1] + f[m]
    <3>1. (m - 1) + 1 = m
      BY <1>4
    <3>2. f[m - 1] = s[m - 1] + f[(m - 1) + 1]
      BY <1>1, <2>1 DEF Sums
    <3> QED BY <3>1, <3>2
  <2>5. s[m - 1] > a[1].budget /\ a[1].budget = max_input_tokens - SystemSize - f[m]
    <3>1. m # 1
      BY <2>1
    <3> QED BY <1>3, <3>1 DEF Selected
  <2>6. s[m - 1] \in Nat /\ f[m - 1] \in Nat /\ f[n - j + 1] \in Nat
    BY <1>b, <1>4, <2>1
  <2>7. s[m - 1] > max_input_tokens - SystemSize - f[m]
    BY <2>5
  <2>8. SystemSize + f[n - j + 1] > max_input_tokens
    <3> DEFINE u == f[m - 1]
               v == f[m]
               w == f[n - j + 1]
               z == s[m - 1]
    <3>1. /\ u <= w /\ u = z + v /\ z > max_input_tokens - SystemSize - v
          /\ u \in Nat /\ v \in Nat /\ w \in Nat /\ z \in Nat
      BY <1>5, <2>3, <2>4, <2>6, <2>7
    <3> HIDE DEF u, v, w, z
    <3>2. SystemSize + w > max_input_tokens
      BY <1>b, <3>1
    <3> QED BY <3>2 DEF w
  <2> QED BY <2>2, <2>8
<1>9. k = 0 => Latest(s, k) = <<>>
  <2> SUFFICES ASSUME k = 0 PROVE Latest(s, k) = <<>>
    OBVIOUS
  <2>1. n - k + 1 = n + 1 /\ n + 1 \in Int /\ n \in Int /\ n < n + 1
    BY <1>b
  <2>2. SubSeq(s, n + 1, n) = <<>>
    BY <2>1, SubSeqEmpty
  <2> QED BY <2>1, <2>2 DEF Latest
<1> QED BY <1>4, <1>5, <1>6, <1>7, <1>8, <1>9

\* SelectionIsLongest: for every conversation, _bounded_messages selects the
\* longest run of latest messages that fits the input limit.
THEOREM LongestIsSelected == Spec => []SelectionIsLongest
<1>1. stored \in Histories => SelectionIsLongest
  <2> SUFFICES ASSUME stored \in Histories PROVE SelectionIsLongest
    OBVIOUS
  <2> DEFINE Fitting == {k \in 0..Len(stored) :
                           k = 0 \/ SystemSize + Total(Latest(stored, k)) <= max_input_tokens}
  <2>1. stored \in Seq(Sizes) /\ Len(stored) \in Nat
    BY AgentLoopAssumption DEF Sizes
  <2>2. PICK k \in 0..Len(stored) :
          /\ BoundedMessages(stored) = Latest(stored, k)
          /\ Total(Latest(stored, k)) \in Nat
          /\ k = 0 \/ SystemSize + Total(Latest(stored, k)) <= max_input_tokens
          /\ \A j \in (k + 1)..Len(stored) :
               SystemSize + Total(Latest(stored, j)) > max_input_tokens
    BY <2>1, Selection
  <2>3. k \in Fitting
    BY <2>2
  <2>4. ASSUME NEW j \in Fitting PROVE j <= k
    <3> SUFFICES ASSUME j > k PROVE FALSE
      BY <2>1
    <3>1. j \in (k + 1)..Len(stored) /\ j # 0
      BY <2>1
    <3>2. SystemSize + Total(Latest(stored, j)) > max_input_tokens
      BY <2>2, <3>1
    <3>3. SystemSize + Total(Latest(stored, j)) <= max_input_tokens
      BY <3>1
    <3>4. Total(Latest(stored, j)) \in Nat
      <4>1. stored \in Seq(Nat)
        BY <2>1, SeqMonotonic DEF Sizes
      <4>2. PICK f : Sums(f, stored)
        BY <4>1, TotalSums
      <4>3. Total(Latest(stored, j)) = f[Len(stored) - j + 1]
        BY <4>1, <4>2, LatestSums
      <4>4. Len(stored) - j + 1 \in 1..(Len(stored) + 1)
        BY <2>1
      <4>5. f \in [1..(Len(stored) + 1) -> Nat]
        BY <4>2 DEF Sums
      <4> QED BY <4>3, <4>4, <4>5
    <3> DEFINE t == Total(Latest(stored, j))
    <3>5. SystemSize + t > max_input_tokens /\ SystemSize + t <= max_input_tokens /\ t \in Nat
      BY <3>2, <3>3, <3>4
    <3> HIDE DEF t
    <3> QED BY <3>5, Limits
  <2>5. Max(Fitting) = k
    <3>1. Fitting \subseteq Nat
      BY <2>1
    <3> HIDE DEF Fitting
    <3>2. \A x \in Fitting : x \in Nat /\ ((\A y \in Fitting : x >= y) <=> x = k)
      BY <2>3, <2>4, <3>1
    <3> QED BY <2>3, <3>2 DEF Max
  <2> QED BY <2>2, <2>5 DEF SelectionIsLongest
<1>2. Init => stored \in Histories
  BY DEF Init
<1>3. stored \in Histories /\ [Next]_vars => (stored \in Histories)'
  BY DEF Next, vars, Prepare, GraphModel, Round, CallTool, Check, Interrupt, Done
<1> QED BY <1>1, <1>2, <1>3, PTL DEF Spec

-----------------------------------------------------------------------------
(* Cost *)

\* The costs of two requests add up.
LEMMA CostAdds ==
  ASSUME NEW i \in Nat, NEW o \in Nat, NEW j \in Nat, NEW p \in Nat
  PROVE  Cost(i + j, o + p) = Cost(i, o) + Cost(j, p)
<1>1. input_price \in Nat /\ output_price \in Nat
  BY Limits
<1>2. (i + j) * input_price = i * input_price + j * input_price
  BY <1>1
<1>3. (o + p) * output_price = o * output_price + p * output_price
  BY <1>1
<1>4. /\ i * input_price \in Int /\ j * input_price \in Int
      /\ o * output_price \in Int /\ p * output_price \in Int
  BY <1>1
<1> QED BY <1>2, <1>3, <1>4 DEF Cost

\* A cost is a number, and no fewer tokens never cost less.
LEMMA CostFacts ==
  /\ \A i, o \in Nat : Cost(i, o) \in Nat
  /\ \A i, o, j, p \in Nat : i <= j /\ o <= p => Cost(i, o) <= Cost(j, p)
<1>2. \A i, o \in Nat : Cost(i, o) \in Nat
  BY Limits DEF Cost
<1>4. ASSUME NEW i \in Nat, NEW o \in Nat, NEW j \in Nat, NEW p \in Nat, i <= j, o <= p
      PROVE  Cost(i, o) <= Cost(j, p)
  <2> DEFINE x == j - i
             y == p - o
  <2>1. x \in Nat /\ y \in Nat /\ i + x = j /\ o + y = p
    BY <1>4
  <2> HIDE DEF x, y
  <2>2. Cost(i + x, o + y) = Cost(i, o) + Cost(x, y)
    BY <2>1, CostAdds
  <2>3. Cost(x, y) \in Nat /\ Cost(i, o) \in Nat
    BY <1>2, <2>1
  <2> QED BY <2>1, <2>2, <2>3
<1> QED BY <1>2, <1>4

\* What the output limit of a round leaves: the estimated request, together with
\* as many output tokens, stays within every limit.
LEMMA OutputLimit ==
  ASSUME usage \in Usage, context \in Nat, RoundOutputLimit # 0
  PROVE  /\ RoundOutputLimit \in Nat
         /\ usage.input + context <= max_input_tokens
         /\ usage.output + RoundOutputLimit <= max_output_tokens
         /\ Cost(usage.input + context, usage.output + RoundOutputLimit) <= max_cost
<1> DEFINE u == usage.input
           v == usage.output
           left == max_output_tokens - v
           rest == max_cost - Cost(u, v) - Cost(context, 0)
           L == RoundOutputLimit
<1>a. u \in Nat /\ v \in Nat
  BY DEF Usage
<1>b. /\ max_input_tokens \in Nat /\ max_output_tokens \in Nat /\ max_cost \in Nat
      /\ output_price \in Nat /\ Cost(u, v) \in Nat /\ Cost(context, 0) \in Nat
  BY <1>a, Limits, CostFacts
<1>1. /\ ~(context > max_input_tokens - u) /\ ~(left <= 0) /\ ~(rest < 0)
      /\ L = IF output_price = 0 THEN left ELSE Min({left, rest \div output_price})
  BY DEF RoundOutputLimit
<1>2. u + context <= max_input_tokens /\ left \in Nat /\ rest \in Nat
  BY <1>a, <1>b, <1>1
<1> HIDE DEF L
<1>3. L \in Nat /\ L <= left /\ L * output_price <= rest
  <2>1. CASE output_price = 0
    BY <1>1, <1>2, <2>1
  <2>2. CASE output_price # 0
    <3> DEFINE q == rest \div output_price
    <3> HIDE DEF rest, left
    <3>1. q \in Nat /\ q * output_price <= rest
      BY <1>b, <1>2, <2>2
    <3> HIDE DEF q
    <3>2. {left, q} \in SUBSET Nat /\ {left, q} # {}
      BY <1>2, <3>1
    <3>3. Min({left, q}) \in {left, q} /\ \A y \in {left, q} : Min({left, q}) <= y
      BY <3>2, MinExists
    <3>4. L = Min({left, q})
      BY <1>1, <2>2 DEF q
    <3>5. L \in Nat /\ L <= left /\ L <= q
      BY <1>2, <3>1, <3>3, <3>4
    <3>6. L * output_price <= q * output_price
      <4>1. q - L \in Nat /\ q = L + (q - L)
        BY <3>1, <3>5
      <4>2. (L + (q - L)) * output_price = L * output_price + (q - L) * output_price
        BY <1>b, <3>1, <3>5
      <4>3. (q - L) * output_price \in Nat /\ L * output_price \in Nat
        BY <1>b, <3>5, <4>1
      <4> QED BY <4>1, <4>2, <4>3
    <3>7. L * output_price \in Int /\ q * output_price \in Int
      BY <1>b, <3>1, <3>5
    <3> QED BY <1>2, <3>1, <3>5, <3>6, <3>7
  <2> QED BY <2>1, <2>2
<1>4. Cost(u + context, v + L) <= max_cost
  <2> HIDE DEF u, v
  <2>1. Cost(u + context, v + L) = Cost(u, v) + Cost(context, L)
    BY <1>a, <1>3, CostAdds
  <2>2. Cost(context, L) = Cost(context, 0) + L * output_price
    <3>1. Cost(context + 0, 0 + L) = Cost(context, 0) + Cost(0, L)
      BY <1>3, CostAdds
    <3>2. Cost(0, L) = L * output_price
      BY <1>b, <1>3, Limits DEF Cost
    <3>3. context + 0 = context /\ 0 + L = L
      BY <1>3
    <3> QED BY <3>1, <3>2, <3>3
  <2>5. L * output_price \in Int
    BY <1>b, <1>3
  <2> QED BY <1>b, <1>2, <1>3, <2>1, <2>2, <2>5
<1>5. v + L <= max_output_tokens
  BY <1>a, <1>b, <1>3
<1> QED BY <1>2, <1>3, <1>4, <1>5 DEF L

-----------------------------------------------------------------------------
(* The run *)

\* No token is spent before the first request.
NothingSpent == pc \in {"prepare", "graph"} => usage.input = 0 /\ usage.output = 0

\* The one request without tools fits the limits with a full answer.
GraphFits ==
  pc = "graph" =>
    /\ context <= max_input_tokens
    /\ Cost(context, max_output_tokens) <= max_cost

\* The calls of a round are made one after the other.
CallsLeft == pc = "tools" => pending # <<>>

\* The inductive invariant of a run.
AgentInv ==
  /\ TypeOK
  /\ NothingSpent
  /\ GraphFits
  /\ CallsLeft
  /\ OverrunBounded
  /\ OverrunIsFatal
  /\ CallsBounded

\* The invariants about usage read nothing else that the steps change.
LEMMA UsageKept ==
  ASSUME AgentInv, UNCHANGED <<usage, honest>>
  PROVE  OverrunBounded'
BY DEF AgentInv, OverrunBounded

\* The initial states.
LEMMA AgentInit == Init => AgentInv
<1> SUFFICES ASSUME Init PROVE AgentInv
  OBVIOUS
<1>1. TypeOK
  BY Limits DEF Init, TypeOK, Usage
<1>2. usage.input = 0 /\ usage.output = 0
  BY DEF Init
<1>3. Cost(0, 0) = 0 /\ Cost(Uncounted, 0) \in Nat
  <2>1. Cost(0, 0) = 0
    BY Limits DEF Cost
  <2>2. Cost(Uncounted, 0) \in Nat
    BY Limits, CostFacts
  <2> QED BY <2>1, <2>2
<1>4. OverrunBounded
  <2> DEFINE last == [input |-> 0, output |-> 0]
  <2>1. /\ usage.input - last.input <= max_input_tokens
        /\ usage.output - last.output <= max_output_tokens
        /\ Cost(usage.input - last.input, usage.output - last.output) <= max_cost
    BY <1>2, <1>3, Limits
  <2>2. last \in Reports \cup {[input |-> 0, output |-> 0]}
    OBVIOUS
  <2>3. /\ usage.input <= max_input_tokens + Uncounted
        /\ usage.output <= max_output_tokens
        /\ Cost(usage.input, usage.output) <= max_cost + Cost(Uncounted, 0)
    BY <1>2, <1>3, Limits
  <2> HIDE DEF last
  <2> QED BY <2>1, <2>2, <2>3 DEF OverrunBounded
<1>6. OverrunIsFatal
  BY <1>2, <1>3, Limits DEF Init, OverrunIsFatal
<1>5. NothingSpent /\ GraphFits /\ CallsLeft /\ CallsBounded
  BY <1>2, Limits DEF Init, NothingSpent, GraphFits, CallsLeft, CallsBounded
<1> QED BY <1>1, <1>4, <1>5, <1>6 DEF AgentInv

\* The selection and the check before the Agent starts.
LEMMA PrepareKeeps == AgentInv /\ Prepare => AgentInv'
<1> SUFFICES ASSUME AgentInv, Prepare PROVE AgentInv'
  OBVIOUS
<1> DEFINE messages == BoundedMessages(stored)
           estimated == SystemSize + Total(messages)
<1>1. /\ pc = "prepare" /\ stored \in Histories /\ pending = <<>> /\ usage \in Usage
      /\ usage.input = 0 /\ usage.output = 0
      /\ UNCHANGED <<stored, gateway, usage, rounds, pending, invocations, honest>>
  BY DEF AgentInv, TypeOK, NothingSpent, Prepare, Fail
<1>2. \/ pc' = "failed" /\ context' = context
      \/ /\ pc' \in {"round", "graph"} /\ context' = estimated
         /\ messages # <<>> /\ ~(Cost(estimated, max_output_tokens) > max_cost)
  BY DEF Prepare, Fail
<1>3. estimated \in Nat /\ (messages # <<>> => estimated <= max_input_tokens)
  <2>1. stored \in Seq(Sizes)
    BY <1>1, AgentLoopAssumption DEF Sizes
  <2>2. PICK k \in 0..Len(stored) :
          /\ BoundedMessages(stored) = Latest(stored, k)
          /\ Total(Latest(stored, k)) \in Nat
          /\ k = 0 \/ SystemSize + Total(Latest(stored, k)) <= max_input_tokens
          /\ k = 0 => Latest(stored, k) = <<>>
    BY <2>1, Selection
  <2> QED BY <2>2, Limits
<1> HIDE DEF estimated, messages
<1>4. Cost(estimated, max_output_tokens) \in Nat
  BY <1>3, Limits, CostFacts
<1>5. TypeOK'
  BY <1>1, <1>2, <1>3 DEF AgentInv, TypeOK
<1>6. GraphFits'
  BY <1>2, <1>3, <1>4, Limits DEF GraphFits
<1>7. NothingSpent' /\ CallsLeft' /\ CallsBounded'
  BY <1>1, <1>2 DEF AgentInv, NothingSpent, CallsLeft, CallsBounded
<1>8. OverrunIsFatal'
  <2>1. Cost(0, 0) = 0
    BY Limits DEF Cost
  <2> QED BY <1>1, <1>2, <2>1, Limits DEF OverrunIsFatal
<1> QED BY <1>1, <1>5, <1>6, <1>7, <1>8, UsageKept DEF AgentInv

\* The single request of an Agent without tools.
LEMMA GraphModelKeeps == AgentInv /\ GraphModel => AgentInv'
<1> SUFFICES ASSUME AgentInv, GraphModel PROVE AgentInv'
  OBVIOUS
<1>1. PICK report \in Reports :
        /\ usage' = report
        /\ honest' = (report.input <= context /\ report.output <= max_output_tokens)
  BY DEF GraphModel
<1>0. PICK i, o \in Nat : i = report.input /\ o = report.output
  BY ReportType
<1>2. /\ context \in Nat /\ context <= max_input_tokens /\ pending = <<>>
      /\ Cost(context, max_output_tokens) <= max_cost /\ pc' = "check"
      /\ UNCHANGED <<stored, gateway, context, rounds, pending, invocations>>
  BY DEF AgentInv, TypeOK, GraphFits, GraphModel
<1>3. usage'.input = i /\ usage'.output = o /\ usage' \in Usage /\ honest' \in BOOLEAN
  BY <1>0, <1>1, ReportType
<1>4. TypeOK'
  BY <1>2, <1>3 DEF AgentInv, TypeOK
<1>5. ASSUME honest'
      PROVE  /\ usage'.input <= max_input_tokens + Uncounted
             /\ usage'.output <= max_output_tokens
             /\ Cost(usage'.input, usage'.output) <= max_cost + Cost(Uncounted, 0)
  <2>1. i <= context /\ o <= max_output_tokens
    BY <1>0, <1>1, <1>5
  <2>2. Cost(i, o) <= Cost(context, max_output_tokens)
    BY <1>2, <1>3, <2>1, Limits, CostFacts
  <2>3. Cost(i, o) \in Nat /\ Cost(context, max_output_tokens) \in Nat
        /\ Cost(Uncounted, 0) \in Nat
    BY <1>2, <1>3, Limits, CostFacts
  <2>4. Cost(i, o) <= max_cost + Cost(Uncounted, 0)
    BY <1>2, <2>2, <2>3, Limits
  <2>5. i <= max_input_tokens + Uncounted
    BY <1>2, <1>3, <2>1, Limits
  <2> QED BY <1>3, <2>1, <2>4, <2>5
<1>7. OverrunBounded'
  <2>1. usage'.input - report.input = 0 /\ usage'.output - report.output = 0
    BY <1>0, <1>3
  <2>2. Cost(0, 0) = 0
    BY Limits DEF Cost
  <2>3. /\ usage'.input - report.input <= max_input_tokens
        /\ usage'.output - report.output <= max_output_tokens
        /\ Cost(usage'.input - report.input, usage'.output - report.output) <= max_cost
    BY <2>1, <2>2, Limits
  <2> QED BY <1>5, <2>3 DEF OverrunBounded
<1>6. NothingSpent' /\ GraphFits' /\ CallsLeft' /\ OverrunIsFatal' /\ CallsBounded'
  BY <1>2 DEF AgentInv, NothingSpent, GraphFits, CallsLeft, OverrunIsFatal, CallsBounded
<1> QED BY <1>4, <1>6, <1>7 DEF AgentInv

\* The calls of a round are a sequence of names.
LEMMA CallsType ==
  ASSUME NEW calls \in SeqOf(ToolNames, MaxCallsPerRound)
  PROVE  calls \in Seq(ToolNames)
<1>1. PICK m \in 0..MaxCallsPerRound : calls \in [1..m -> ToolNames]
  BY DEF SeqOf
<1>2. m \in Nat
  BY <1>1, Limits
<1> QED BY <1>1, <1>2, SeqDef

\* A model round: only its own report can exceed the limits, by no more than the
\* uncounted part of the request if the provider keeps to what it was sent and
\* allowed, and an overrun ends the run.
LEMMA RoundKeeps == AgentInv /\ Round => AgentInv'
<1> SUFFICES ASSUME AgentInv, Round PROVE AgentInv'
  OBVIOUS
<1>1. /\ pc = "round" /\ usage \in Usage /\ context \in Nat /\ pending = <<>>
      /\ rounds \in 0..max_model_rounds /\ invocations \in Seq(Tools)
      /\ UNCHANGED <<stored, gateway, invocations>>
  BY DEF AgentInv, TypeOK, Round, Fail
<1>2. CASE rounds = max_model_rounds \/ RoundOutputLimit = 0
  <2>1. pc' = "failed" /\ UNCHANGED <<context, usage, rounds, pending, honest>>
    BY <1>2 DEF Round, Fail
  <2>2. TypeOK'
    BY <1>1, <2>1 DEF AgentInv, TypeOK
  <2>3. NothingSpent' /\ GraphFits' /\ CallsLeft' /\ OverrunIsFatal' /\ CallsBounded'
    BY <1>1, <2>1 DEF AgentInv, NothingSpent, GraphFits, CallsLeft, OverrunIsFatal, CallsBounded
  <2> QED BY <2>1, <2>2, <2>3, UsageKept DEF AgentInv
<1>3. CASE rounds # max_model_rounds /\ RoundOutputLimit # 0
  <2> DEFINE total(i, o) == [input |-> usage.input + i, output |-> usage.output + o]
  <2>0. PICK report \in Reports, calls \in SeqOf(ToolNames, MaxCallsPerRound),
             size \in ResultSizes :
          LET t == total(report.input, report.output)
          IN /\ usage' = t /\ rounds' = rounds + 1
             /\ honest' = (honest /\ report.input <= context + Uncounted
                                  /\ report.output <= RoundOutputLimit)
             /\ \/ ~WithinLimits(t) /\ pc' = "failed" /\ UNCHANGED <<context, pending>>
                \/ WithinLimits(t) /\ pc' = "check" /\ UNCHANGED <<context, pending>>
                \/ WithinLimits(t) /\ pc' = "failed" /\ UNCHANGED <<context, pending>>
                \/ /\ WithinLimits(t) /\ calls # <<>> /\ ~CallLimitExceeded(calls)
                   /\ pc' = "tools" /\ pending' = calls /\ context' = context + size
    BY <1>3 DEF Round
  <2>i. PICK i, o \in Nat : i = report.input /\ o = report.output
    BY ReportType
  <2>1. /\ usage' = total(i, o) /\ rounds' = rounds + 1 /\ honest' \in BOOLEAN
        /\ honest' => i <= context + Uncounted /\ o <= RoundOutputLimit
        /\ \/ ~WithinLimits(total(i, o)) /\ pc' = "failed" /\ UNCHANGED <<context, pending>>
           \/ WithinLimits(total(i, o)) /\ pc' = "check" /\ UNCHANGED <<context, pending>>
           \/ WithinLimits(total(i, o)) /\ pc' = "failed" /\ UNCHANGED <<context, pending>>
           \/ /\ WithinLimits(total(i, o)) /\ calls # <<>> /\ ~CallLimitExceeded(calls)
              /\ pc' = "tools" /\ pending' = calls /\ context' = context + size
    BY <2>0, <2>i
  <2>2. /\ RoundOutputLimit \in Nat
        /\ usage.input + context <= max_input_tokens
        /\ usage.output + RoundOutputLimit <= max_output_tokens
        /\ Cost(usage.input + context, usage.output + RoundOutputLimit) <= max_cost
    BY <1>1, <1>3, OutputLimit
  <2>3. PICK u, v \in Nat : usage.input = u /\ usage.output = v
    BY <1>1 DEF Usage
  <2>4. PICK L \in Nat : L = RoundOutputLimit
    BY <2>2
  <2>5. /\ honest' => i <= context + Uncounted /\ o <= L
        /\ u + context <= max_input_tokens /\ v + L <= max_output_tokens
        /\ Cost(u + context, v + L) <= max_cost
    BY <1>1, <2>1, <2>2, <2>3, <2>4, Limits
  <2>6. usage'.input = u + i /\ usage'.output = v + o /\ usage' \in Usage
    BY <2>1, <2>3, <2>5 DEF Usage
  <2>7. WithinLimits(total(i, o)) <=>
          /\ usage'.input <= max_input_tokens /\ usage'.output <= max_output_tokens
          /\ Cost(usage'.input, usage'.output) <= max_cost
    BY <2>1, <2>3, <2>6 DEF WithinLimits
  <2> HIDE DEF total
  <2>8. calls \in Seq(ToolNames) /\ size \in Nat
    BY CallsType, AgentLoopAssumption
  <2>9. TypeOK'
    <3>1. rounds' \in 0..max_model_rounds
      BY <1>1, <1>3, <2>1, Limits
    <3>2. context' \in Nat /\ pending' \in Seq(ToolNames) /\ (pc' # "tools" => pending' = <<>>)
      <4>1. CASE context' = context /\ pending' = pending
        BY <1>1, <4>1 DEF AgentInv, TypeOK
      <4>2. CASE pc' = "tools" /\ pending' = calls /\ context' = context + size
        BY <1>1, <2>8, <4>2
      <4> QED BY <2>1, <4>1, <4>2
    <3>3. pc' \in {"failed", "check", "tools"}
      BY <2>1
    <3>4. honest' \in BOOLEAN
      BY <2>1
    <3> QED BY <1>1, <2>6, <3>1, <3>2, <3>3, <3>4 DEF AgentInv, TypeOK
  <2>10. ASSUME honest'
         PROVE  /\ usage'.input <= max_input_tokens + Uncounted
                /\ usage'.output <= max_output_tokens
                /\ Cost(usage'.input, usage'.output) <= max_cost + Cost(Uncounted, 0)
    <3>0. i <= context + Uncounted /\ o <= L
      BY <2>5, <2>10
    <3>1. u + i <= max_input_tokens + Uncounted /\ v + o <= max_output_tokens
      BY <1>1, <2>5, <3>0, Limits
    <3>2. Cost(u + i, v + o) <= Cost((u + context) + Uncounted, (v + L) + 0)
      <4>1. /\ u + i \in Nat /\ v + o \in Nat /\ (u + context) + Uncounted \in Nat
            /\ (v + L) + 0 \in Nat
            /\ u + i <= (u + context) + Uncounted /\ v + o <= (v + L) + 0
        BY <1>1, <3>0, Limits
      <4> QED BY <4>1, CostFacts
    <3>3. Cost((u + context) + Uncounted, (v + L) + 0) =
            Cost(u + context, v + L) + Cost(Uncounted, 0)
      <4>1. u + context \in Nat /\ v + L \in Nat /\ 0 \in Nat /\ Uncounted \in Nat
        BY <1>1, Limits
      <4> QED BY <4>1, CostAdds
    <3>4. /\ Cost(u + i, v + o) \in Nat /\ Cost(u + context, v + L) \in Nat
          /\ Cost(Uncounted, 0) \in Nat
      <4>1. u + i \in Nat /\ v + o \in Nat /\ u + context \in Nat /\ v + L \in Nat
        BY <1>1
      <4> QED BY <4>1, Limits, CostFacts
    <3>5. Cost(u + i, v + o) <= max_cost + Cost(Uncounted, 0)
      BY <2>5, <3>2, <3>3, <3>4, Limits
    <3> QED BY <2>6, <3>1, <3>5
  <2>14. OverrunBounded'
    <3>1. usage'.input - report.input = u /\ usage'.output - report.output = v
      BY <2>i, <2>6
    <3>2. u <= max_input_tokens /\ v <= max_output_tokens /\ Cost(u, v) <= max_cost
      BY <1>1, <2>3 DEF AgentInv, OverrunIsFatal
    <3>3. /\ usage'.input - report.input <= max_input_tokens
          /\ usage'.output - report.output <= max_output_tokens
          /\ Cost(usage'.input - report.input, usage'.output - report.output) <= max_cost
      BY <3>1, <3>2
    <3> QED BY <2>10, <3>3 DEF OverrunBounded
  <2>11. OverrunIsFatal'
    BY <2>1, <2>7 DEF OverrunIsFatal
  <2>12. CallsBounded'
    <3>1. CASE pending' = pending
      BY <1>1, <3>1 DEF AgentInv, CallsBounded
    <3>2. CASE pending' = calls /\ ~CallLimitExceeded(calls)
      <4>1. Len(invocations) \in Nat /\ Len(calls) \in Nat
        BY <1>1, <2>8
      <4> QED BY <1>1, <3>2, <4>1, Limits DEF CallsBounded, CallLimitExceeded
    <3> QED BY <2>1, <3>1, <3>2
  <2>13. NothingSpent' /\ GraphFits' /\ CallsLeft'
    BY <2>1 DEF NothingSpent, GraphFits, CallsLeft
  <2> QED BY <2>9, <2>11, <2>12, <2>13, <2>14 DEF AgentInv
<1> QED BY <1>2, <1>3

\* A tool call: the call moves from the calls left to the calls made.
LEMMA CallToolKeeps == AgentInv /\ CallTool => AgentInv'
<1> SUFFICES ASSUME AgentInv, CallTool PROVE AgentInv'
  OBVIOUS
<1>1. /\ pc = "tools" /\ pending \in Seq(ToolNames) /\ pending # <<>>
      /\ invocations \in Seq(Tools) /\ context \in Nat
      /\ Len(invocations) + Len(pending) <= max_tool_calls
      /\ UNCHANGED <<stored, gateway, usage, rounds, honest>>
  BY DEF AgentInv, TypeOK, CallsLeft, CallsBounded, CallTool
<1>2. Len(pending) \in Nat /\ Len(invocations) \in Nat /\ Len(pending) # 0
  BY <1>1, EmptySeq
<1>3. CASE Head(pending) \notin Tools
  <2>1. pc' = "failed" /\ pending' = <<>> /\ UNCHANGED <<context, invocations>>
    BY <1>3 DEF CallTool
  <2>2. TypeOK'
    BY <1>1, <2>1 DEF AgentInv, TypeOK
  <2>3. NothingSpent' /\ GraphFits' /\ CallsLeft' /\ OverrunIsFatal'
    BY <2>1 DEF NothingSpent, GraphFits, CallsLeft, OverrunIsFatal
  <2>4. CallsBounded'
    BY <1>1, <1>2, <2>1, Limits DEF CallsBounded
  <2> QED BY <1>1, <2>2, <2>3, <2>4, UsageKept DEF AgentInv
<1>4. CASE Head(pending) \in Tools
  <2>1. PICK size \in ResultSizes :
          /\ context' = context + size
          /\ invocations' = Append(invocations, Head(pending))
          /\ pending' = Tail(pending)
          /\ pc' = IF Len(pending) = 1 THEN "round" ELSE "tools"
    BY <1>4 DEF CallTool
  <2>2. /\ invocations' \in Seq(Tools) /\ Len(invocations') = Len(invocations) + 1
        /\ pending' \in Seq(ToolNames) /\ Len(pending') = Len(pending) - 1
    BY <1>1, <1>4, <2>1
  <2>3. context' \in Nat
    BY <1>1, <2>1, AgentLoopAssumption
  <2>4. pc' \in {"round", "tools"} /\ (pc' = "round" <=> pending' = <<>>)
    BY <1>2, <2>1, <2>2, EmptySeq
  <2>5. TypeOK'
    BY <1>1, <2>2, <2>3, <2>4 DEF AgentInv, TypeOK
  <2>6. NothingSpent' /\ GraphFits' /\ CallsLeft'
    BY <2>4 DEF NothingSpent, GraphFits, CallsLeft
  <2>7. OverrunIsFatal'
    BY <1>1, <2>4 DEF AgentInv, OverrunIsFatal
  <2>8. CallsBounded'
    BY <1>1, <1>2, <2>2, Limits DEF CallsBounded
  <2> QED BY <1>1, <2>5, <2>6, <2>7, <2>8, UsageKept DEF AgentInv
<1> QED BY <1>3, <1>4

\* The check of the executor and whatever interrupts the run.
LEMMA EndsKeep == AgentInv /\ (Check \/ Interrupt) => AgentInv'
<1> SUFFICES ASSUME AgentInv, Check \/ Interrupt PROVE AgentInv'
  OBVIOUS
<1>1. /\ pc' \in {"answered", "failed"}
      /\ pending' = <<>>
      /\ UNCHANGED <<stored, gateway, context, usage, rounds, invocations, honest>>
      /\ pc' = "answered" => Accepted(usage)
  BY DEF AgentInv, TypeOK, Check, Interrupt
<1>2. TypeOK'
  BY <1>1 DEF AgentInv, TypeOK
<1>3. NothingSpent' /\ GraphFits' /\ CallsLeft' /\ OverrunIsFatal'
  BY <1>1 DEF NothingSpent, GraphFits, CallsLeft, OverrunIsFatal, Accepted
<1>4. CallsBounded'
  <2>1. Len(pending) \in Nat /\ Len(invocations) \in Nat
    BY DEF AgentInv, TypeOK
  <2> QED BY <1>1, <2>1, Limits DEF AgentInv, CallsBounded
<1> QED BY <1>1, <1>2, <1>3, <1>4, UsageKept DEF AgentInv

\* The inductive invariant holds in every state of every run.
LEMMA AgentInvariant == Spec => []AgentInv
<1>1. Init => AgentInv
  BY AgentInit
<1>2. AgentInv /\ [Next]_vars => AgentInv'
  <2> SUFFICES ASSUME AgentInv, [Next]_vars PROVE AgentInv'
    OBVIOUS
  <2>1. CASE Prepare
    BY <2>1, PrepareKeeps
  <2>2. CASE GraphModel
    BY <2>2, GraphModelKeeps
  <2>3. CASE Round
    BY <2>3, RoundKeeps
  <2>4. CASE CallTool
    BY <2>4, CallToolKeeps
  <2>5. CASE Check \/ Interrupt
    BY <2>5, EndsKeep
  <2>6. CASE UNCHANGED vars
    <3>1. TypeOK'
      BY <2>6 DEF AgentInv, TypeOK, vars
    <3>2. NothingSpent' /\ GraphFits' /\ CallsLeft' /\ OverrunIsFatal' /\ CallsBounded'
      BY <2>6 DEF AgentInv, NothingSpent, GraphFits, CallsLeft, OverrunIsFatal, CallsBounded, vars
    <3> QED BY <2>6, <3>1, <3>2, UsageKept DEF AgentInv, vars
  <2> QED BY <2>1, <2>2, <2>3, <2>4, <2>5, <2>6 DEF Next, Done
<1> QED BY <1>1, <1>2, PTL DEF Spec

\* Every state of every run has its type: in particular no tool outside the
\* catalog and the allowlist is ever called, and the rounds end at their limit.
THEOREM AgentTypes == Spec => []TypeOK
<1>1. AgentInv => TypeOK
  BY DEF AgentInv
<1> QED BY <1>1, AgentInvariant, PTL

\* OverrunBounded: whatever the provider reports, only the last request of a run
\* exceeds its limits of tokens and cost, and with a provider that keeps to what
\* it was sent and allowed only by what the estimate of one request leaves out.
THEOREM OverrunsAreBounded == Spec => []OverrunBounded
<1>1. AgentInv => OverrunBounded
  BY DEF AgentInv
<1> QED BY <1>1, AgentInvariant, PTL

\* OverrunIsFatal: once a limit is exceeded no tool is called, no further round is
\* made and no answer is given.
THEOREM OverrunsAreFatal == Spec => []OverrunIsFatal
<1>1. AgentInv => OverrunIsFatal
  BY DEF AgentInv
<1> QED BY <1>1, AgentInvariant, PTL

\* The calls made and the calls asked for never exceed max_tool_calls.
THEOREM CallsAreBounded == Spec => []CallsBounded
<1>1. AgentInv => CallsBounded
  BY DEF AgentInv
<1> QED BY <1>1, AgentInvariant, PTL
=============================================================================
