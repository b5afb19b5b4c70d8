------------------------------- MODULE Folding -------------------------------
(***************************************************************************)
(* What FoldLeft computes.  The step of the fold is the parameter Op; its  *)
(* first argument is for what the step takes besides the value so far and  *)
(* the next element.  Fold is FoldLeft with its definition unfolded, on    *)
(* the first n elements of a sequence; the lemmas say that it goes through *)
(* them from the left.  A module that folds an operator instantiates this  *)
(* one with it.                                                            *)
(***************************************************************************)
EXTENDS Integers, Sequences, WellFoundedInduction, TLAPS

CONSTANT Op(_, _, _)

Top(S) == CHOOSE m \in S : \A k \in S : m >= k

\* g folds every set of places of seq, its largest place last
Unfolds(g, p, base, seq, places) ==
  g = [s \in SUBSET places |->
         IF s = {} THEN base ELSE Op(p, g[s \ {Top(s)}], seq[Top(s)])]

Fold(p, base, seq, n) == (CHOOSE g : Unfolds(g, p, base, seq, 1..n))[1..n]

-----------------------------------------------------------------------------
(***************************************************************************)
(* A set of naturals has a least element.  A set of counterexamples that   *)
(* would have one, and the step that refutes it, is how proofs go through  *)
(* a sequence here: there is no induction over a predicate.                *)
(***************************************************************************)
LEMMA LeastOf ==
  ASSUME NEW S \in SUBSET Nat, S # {}
  PROVE  \E m \in S : \A k \in S : m <= k
  <1>1. PICK m \in S : \A k \in S : ~(<<k, m>> \in OpToRel(<, Nat))
    BY WFMin, NatLessThanWellFounded, Zenon
  <1>2. \A k \in S : ~(k < m)
    <2> TAKE k \in S
    <2>1. <<k, m>> \in Nat \X Nat /\ <<k, m>>[1] = k /\ <<k, m>>[2] = m
      OBVIOUS
    <2>2. <<k, m>> \notin {p \in Nat \X Nat : p[1] < p[2]}
      BY <1>1 DEF OpToRel
    <2>3. QED
      BY <2>1, <2>2
  <1>3. QED
    BY <1>2

(***************************************************************************)
(* The largest of some places up to n, n among them, is n.                 *)
(***************************************************************************)
LEMMA TopOf ==
  ASSUME NEW n \in Nat, NEW s \in SUBSET (1..n), n \in s
  PROVE  Top(s) = n
  <1>1. \A k \in s : n >= k
    OBVIOUS
  <1>2. \A m \in s : (\A k \in s : m >= k) => m = n
    OBVIOUS
  <1>3. QED
    BY <1>1, <1>2 DEF Top

(***************************************************************************)
(* There is a function that folds the sets of the first n places: of a     *)
(* least n without one, the function for n - 1 makes one for n.            *)
(***************************************************************************)
LEMMA UnfoldsExists ==
  ASSUME NEW p, NEW base, NEW seq, NEW n \in Nat
  PROVE  \E g : Unfolds(g, p, base, seq, 1..n)
  <1> DEFINE Bad == {m \in Nat : ~\E g : Unfolds(g, p, base, seq, 1..m)}
  <1> SUFFICES ASSUME Bad # {} PROVE FALSE
    OBVIOUS
  <1>1. PICK m \in Bad : \A k \in Bad : m <= k
    <2>1. Bad \in SUBSET Nat
      OBVIOUS
    <2>2. QED
      BY <2>1, LeastOf
  <1>2. m # 0
    <2>1. Unfolds([s \in SUBSET (1..0) |-> base], p, base, seq, 1..0)
      BY DEF Unfolds
    <2>2. QED
      BY <2>1
  <1>3. PICK j \in Nat : m = j + 1
    BY <1>2
  <1>4. PICK f : Unfolds(f, p, base, seq, 1..j)
    BY <1>1, <1>3
  <1> DEFINE g == [s \in SUBSET (1..m) |->
                     IF m \in s THEN Op(p, f[s \ {m}], seq[m]) ELSE f[s]]
  <1>5. Unfolds(g, p, base, seq, 1..m)
    <2> SUFFICES ASSUME NEW s \in SUBSET (1..m)
                 PROVE  g[s] = IF s = {} THEN base ELSE Op(p, g[s \ {Top(s)}], seq[Top(s)])
      BY DEF Unfolds
    <2>1. CASE m \in s
      <3>1. Top(s) = m
        BY <2>1, TopOf
      <3>2. s \ {m} \in SUBSET (1..m) /\ m \notin s \ {m}
        OBVIOUS
      <3>3. g[s \ {m}] = f[s \ {m}]
        BY <3>2
      <3>4. QED
        BY <2>1, <3>1, <3>3
    <2>2. CASE m \notin s
      <3>1. s \in SUBSET (1..j)
        BY <1>3, <2>2
      <3>2. f[s] = IF s = {} THEN base ELSE Op(p, f[s \ {Top(s)}], seq[Top(s)])
        BY <3>1, <1>4 DEF Unfolds
      <3>3. CASE s = {}
        BY <3>2, <3>3, <2>2
      <3>4. CASE s # {}
        <4>1. s \ {Top(s)} \in SUBSET (1..m)
          OBVIOUS
        <4>2. m \notin s \ {Top(s)}
          BY <2>2
        <4>3. g[s \ {Top(s)}] = f[s \ {Top(s)}]
          BY <4>1, <4>2
        <4>4. g[s] = f[s]
          BY <2>2
        <4>5. QED
          BY <3>2, <3>4, <4>3, <4>4
      <3>5. QED
        BY <3>3, <3>4
    <2>3. QED
      BY <2>1, <2>2
  <1>6. QED
    BY <1>5

(***************************************************************************)
(* Such a function takes one step at each place.                           *)
(***************************************************************************)
LEMMA UnfoldsStep ==
  ASSUME NEW p, NEW base, NEW seq, NEW n \in Nat, NEW k \in Nat, k < n,
         NEW g, Unfolds(g, p, base, seq, 1..n)
  PROVE  g[1..k + 1] = Op(p, g[1..k], seq[k + 1])
  <1>1. 1..k + 1 \in SUBSET (1..n)
    OBVIOUS
  <1>2. k + 1 \in 1..k + 1
    OBVIOUS
  <1>3. Top(1..k + 1) = k + 1
    BY <1>2, TopOf
  <1>4. (1..k + 1) \ {k + 1} = 1..k
    OBVIOUS
  <1>5. QED
    BY <1>1, <1>2, <1>3, <1>4 DEF Unfolds

(***************************************************************************)
(* So two of them, for sequences that begin alike, agree on their          *)
(* beginnings.                                                             *)
(***************************************************************************)
LEMMA UnfoldsAgree ==
  ASSUME NEW p, NEW base, NEW seq, NEW other, NEW n \in Nat, NEW m \in Nat,
         NEW j \in Nat, j <= n, j <= m, \A i \in 1..j : seq[i] = other[i],
         NEW g, Unfolds(g, p, base, seq, 1..n),
         NEW f, Unfolds(f, p, base, other, 1..m)
  PROVE  g[1..j] = f[1..j]
  <1> DEFINE Bad == {k \in 0..j : g[1..k] # f[1..k]}
  <1> SUFFICES ASSUME Bad # {} PROVE FALSE
    OBVIOUS
  <1>1. PICK k \in Bad : \A i \in Bad : k <= i
    <2>1. Bad \in SUBSET Nat
      OBVIOUS
    <2>2. QED
      BY <2>1, LeastOf
  <1>2. k # 0
    <2>1. g[{}] = base /\ f[{}] = base
      BY DEF Unfolds
    <2>2. 1..0 = {}
      OBVIOUS
    <2>3. QED
      BY <2>1, <2>2
  <1>3. PICK i \in Nat : k = i + 1
    BY <1>2
  <1>4. g[1..i] = f[1..i]
    BY <1>1, <1>3
  <1>5. i < n /\ i < m /\ seq[i + 1] = other[i + 1]
    BY <1>3
  <1>6. g[1..i + 1] = Op(p, g[1..i], seq[i + 1])
    BY <1>5, UnfoldsStep
  <1>7. f[1..i + 1] = Op(p, f[1..i], other[i + 1])
    BY <1>5, UnfoldsStep
  <1>8. QED
    BY <1>3, <1>4, <1>5, <1>6, <1>7

-----------------------------------------------------------------------------
(***************************************************************************)
(* The fold of nothing is the value that it starts from.                   *)
(***************************************************************************)
THEOREM FoldEmpty ==
  ASSUME NEW p, NEW base, NEW seq
  PROVE  Fold(p, base, seq, 0) = base
  <1>1. PICK g : /\ Unfolds(g, p, base, seq, 1..0)
                 /\ g = CHOOSE f : Unfolds(f, p, base, seq, 1..0)
    BY UnfoldsExists
  <1>2. g[1..0] = base
    BY <1>1 DEF Unfolds
  <1>3. QED
    BY <1>1, <1>2 DEF Fold

(***************************************************************************)
(* The fold of n + 1 elements is the step from the fold of the first n.    *)
(***************************************************************************)
THEOREM FoldStep ==
  ASSUME NEW p, NEW base, NEW seq, NEW n \in Nat
  PROVE  Fold(p, base, seq, n + 1) = Op(p, Fold(p, base, seq, n), seq[n + 1])
  <1>1. PICK g : /\ Unfolds(g, p, base, seq, 1..n + 1)
                 /\ g = CHOOSE f : Unfolds(f, p, base, seq, 1..n + 1)
    BY UnfoldsExists
  <1>2. PICK f : /\ Unfolds(f, p, base, seq, 1..n)
                 /\ f = CHOOSE e : Unfolds(e, p, base, seq, 1..n)
    BY UnfoldsExists
  <1>3. g[1..n] = f[1..n]
    BY <1>1, <1>2, UnfoldsAgree
  <1>4. g[1..n + 1] = Op(p, g[1..n], seq[n + 1])
    BY <1>1, UnfoldsStep
  <1>5. QED
    BY <1>1, <1>2, <1>3, <1>4 DEF Fold

(***************************************************************************)
(* The fold of the first n elements depends on no other.                   *)
(***************************************************************************)
THEOREM FoldLocal ==
  ASSUME NEW p, NEW base, NEW seq, NEW other, NEW n \in Nat,
         \A i \in 1..n : seq[i] = other[i]
  PROVE  Fold(p, base, seq, n) = Fold(p, base, other, n)
  <1>1. PICK g : /\ Unfolds(g, p, base, seq, 1..n)
                 /\ g = CHOOSE f : Unfolds(f, p, base, seq, 1..n)
    BY UnfoldsExists
  <1>2. PICK f : /\ Unfolds(f, p, base, other, 1..n)
                 /\ f = CHOOSE e : Unfolds(e, p, base, other, 1..n)
    BY UnfoldsExists
  <1>3. Unfolds(g, p, base, seq, 1..n) /\ Unfolds(f, p, base, other, 1..n)
    BY <1>1, <1>2
  <1>4. g[1..n] = f[1..n]
    BY ONLY <1>3, n \in Nat, n <= n, \A i \in 1..n : seq[i] = other[i], UnfoldsAgree
  <1>5. QED
    BY <1>1, <1>2, <1>4 DEF Fold

-----------------------------------------------------------------------------
\* f goes through the first n elements as a recursive function does
Runs(f, p, base, seq, n) ==
  f = [i \in 0..n |-> IF i = 0 THEN base ELSE Op(p, f[i - 1], seq[i])]

(***************************************************************************)
(* Such a function exists, and it is the fold.                             *)
(***************************************************************************)
THEOREM FoldIsRun ==
  ASSUME NEW p, NEW base, NEW seq, NEW n \in Nat, NEW k \in 0..n
  PROVE  (CHOOSE f : Runs(f, p, base, seq, n))[k] = Fold(p, base, seq, k)
  <1> DEFINE fold == [i \in 0..n |-> Fold(p, base, seq, i)]
  <1>1. Runs(fold, p, base, seq, n)
    <2> SUFFICES ASSUME NEW i \in 0..n
                 PROVE  fold[i] = IF i = 0 THEN base ELSE Op(p, fold[i - 1], seq[i])
      BY DEF Runs
    <2>1. CASE i = 0
      BY <2>1, FoldEmpty
    <2>2. CASE i # 0
      <3>1. PICK j \in Nat : i = j + 1
        BY <2>2
      <3>2. Fold(p, base, seq, j + 1) = Op(p, Fold(p, base, seq, j), seq[j + 1])
        BY FoldStep
      <3>3. j \in 0..n /\ i - 1 = j
        BY <3>1
      <3>4. QED
        BY <2>2, <3>1, <3>2, <3>3
    <2>3. QED
      BY <2>1, <2>2
  <1>2. PICK f : /\ Runs(f, p, base, seq, n)
                 /\ f = CHOOSE g : Runs(g, p, base, seq, n)
    BY <1>1
  <1>3. ASSUME NEW e, Runs(e, p, base, seq, n)
        PROVE  e[0] = base /\ \A j \in 0..n - 1 : e[j + 1] = Op(p, e[j], seq[j + 1])
    <2>1. 0 \in 0..n
      OBVIOUS
    <2>2. \A j \in 0..n - 1 : j + 1 \in 0..n /\ j + 1 # 0 /\ (j + 1) - 1 = j
      OBVIOUS
    <2>3. QED
      BY <1>3, <2>1, <2>2 DEF Runs
  <1> HIDE DEF fold
  <1>4. f[k] = fold[k]
    <2> DEFINE Bad == {i \in 0..n : f[i] # fold[i]}
    <2> SUFFICES ASSUME Bad # {} PROVE FALSE
      OBVIOUS
    <2>1. PICK m \in Bad : \A i \in Bad : m <= i
      <3>1. Bad \in SUBSET Nat
        OBVIOUS
      <3>2. QED
        BY <3>1, LeastOf
    <2>2. m # 0
      BY <1>1, <1>2, <1>3
    <2>3. PICK j \in Nat : m = j + 1
      BY <2>2
    <2>4. j \in 0..n - 1 /\ f[j] = fold[j]
      BY <2>1, <2>3
    <2>5. f[j + 1] = Op(p, f[j], seq[j + 1]) /\ fold[j + 1] = Op(p, fold[j], seq[j + 1])
      BY <1>1, <1>2, <1>3, <2>4
    <2>6. QED
      BY <2>3, <2>4, <2>5
  <1>5. QED
    BY <1>2, <1>4 DEF fold
==============================================================================
