-------------------------- MODULE Algorithms_proofs --------------------------
(***************************************************************************)
(* What the algorithms compute, for every input that the assumptions of    *)
(* Algorithms allow, and for any width of a byte, of an address and of the *)
(* unit of time.  They are loops, which the models write as folds and      *)
(* recursive functions: Folding, instantiated with the step of each loop,  *)
(* says that it goes through its elements from the left, and an invariant  *)
(* holds after the loop because there is no first element after which it   *)
(* fails.                                                                  *)
(***************************************************************************)
EXTENDS Algorithms, FiniteSetTheorems, SequenceTheorems, WellFoundedInduction, TLAPS

-----------------------------------------------------------------------------
\* Powers and numbers with digits

Factor(b, product, n) == b * product
Factors == INSTANCE Folding WITH Op <- Factor

Horner(b, number, digit) == number * b + digit
Digits == INSTANCE Folding WITH Op <- Horner

(***************************************************************************)
(* A set of naturals has a least element.  A set of counterexamples that   *)
(* would have one, and the step that refutes it, is how the proofs below   *)
(* go through a sequence.                                                  *)
(***************************************************************************)
LEMMA LeastOf ==
  ASSUME NEW S \in SUBSET Nat, S # {}
  PROVE  \E m \in S : \A k \in S : m <= k
  BY Digits!LeastOf

(***************************************************************************)
(* Power is the fold that multiplies.                                      *)
(***************************************************************************)
LEMMA PowerIs ==
  ASSUME NEW b, NEW n \in Nat
  PROVE  Power(b, n) = Factors!Fold(b, 1, <<>>, n)
  <1>1. Power(b, n) = (CHOOSE f : Factors!Runs(f, b, 1, <<>>, n))[n]
    BY DEF Power, Factors!Runs, Factor
  <1>2. n \in 0..n
    OBVIOUS
  <1>3. QED
    BY <1>1, <1>2, Factors!FoldIsRun

(***************************************************************************)
(* The powers of a number, one after the other.                            *)
(***************************************************************************)
LEMMA PowerSteps ==
  ASSUME NEW b, NEW n \in Nat
  PROVE  Power(b, 0) = 1 /\ Power(b, n + 1) = b * Power(b, n)
  <1>1. Power(b, 0) = 1
    BY PowerIs, Factors!FoldEmpty
  <1>2. Power(b, n + 1) = Factors!Fold(b, 1, <<>>, n + 1) /\ Power(b, n) = Factors!Fold(b, 1, <<>>, n)
    BY PowerIs
  <1>3. Factors!Fold(b, 1, <<>>, n + 1) = Factor(b, Factors!Fold(b, 1, <<>>, n), <<>>[n + 1])
    BY Factors!FoldStep
  <1>4. QED
    BY <1>1, <1>2, <1>3 DEF Factor

(***************************************************************************)
(* Products of positive numbers are positive.                              *)
(***************************************************************************)
LEMMA Positive ==
  ASSUME NEW a \in Nat \ {0}, NEW b \in Nat \ {0}
  PROVE  a * b \in Nat \ {0}
  OBVIOUS

(***************************************************************************)
(* A power of a positive number is a positive number: the masks and        *)
(* divisions below divide by one.                                          *)
(***************************************************************************)
LEMMA PowerType ==
  ASSUME NEW b \in Nat \ {0}, NEW n \in Nat
  PROVE  Power(b, n) \in Nat \ {0}
  <1> DEFINE Bad == {m \in Nat : Power(b, m) \notin Nat \ {0}}
  <1> SUFFICES ASSUME Bad # {} PROVE FALSE
    OBVIOUS
  <1>1. PICK m \in Bad : \A k \in Bad : m <= k
    <2>1. Bad \in SUBSET Nat
      OBVIOUS
    <2>2. QED
      BY <2>1, LeastOf
  <1>2. m # 0
    BY PowerSteps
  <1>3. PICK j \in Nat : m = j + 1
    BY <1>2
  <1>4. Power(b, j) \in Nat \ {0}
    BY <1>1, <1>3
  <1>5. Power(b, j + 1) = b * Power(b, j)
    BY PowerSteps
  <1>6. QED
    BY <1>3, <1>4, <1>5, Positive

(***************************************************************************)
(* Exponents add up: the bytes of an address, and the bits of a byte.      *)
(***************************************************************************)
LEMMA PowerSum ==
  ASSUME NEW b \in Nat \ {0}, NEW m \in Nat, NEW n \in Nat
  PROVE  Power(b, m + n) = Power(b, m) * Power(b, n)
  <1> DEFINE Bad == {k \in Nat : Power(b, m + k) # Power(b, m) * Power(b, k)}
  <1> SUFFICES ASSUME Bad # {} PROVE FALSE
    OBVIOUS
  <1>1. PICK k \in Bad : \A i \in Bad : k <= i
    <2>1. Bad \in SUBSET Nat
      OBVIOUS
    <2>2. QED
      BY <2>1, LeastOf
  <1>2. k # 0
    <2>1. Power(b, 0) = 1 /\ m + 0 = m /\ Power(b, m) * 1 = Power(b, m)
      BY PowerSteps, PowerType
    <2>2. QED
      BY <2>1
  <1>3. PICK j \in Nat : k = j + 1
    BY <1>2
  <1>4. Power(b, m + j) = Power(b, m) * Power(b, j)
    BY <1>1, <1>3
  <1>5. Power(b, j + 1) = b * Power(b, j) /\ Power(b, (m + j) + 1) = b * Power(b, m + j)
    BY PowerSteps
  <1>6. PICK p \in Nat, q \in Nat : p = Power(b, m) /\ q = Power(b, j)
    BY PowerType
  <1>7. b * (p * q) = p * (b * q)
    OBVIOUS
  <1>8. m + k = (m + j) + 1
    BY <1>3
  <1>9. QED
    BY <1>3, <1>4, <1>5, <1>6, <1>7, <1>8

\* the number with the first n digits of s
Value(b, s, n) == Digits!Fold(b, 0, s, n)

(***************************************************************************)
(* One digit more is the number so far, shifted, and the digit.            *)
(***************************************************************************)
LEMMA ValueSteps ==
  ASSUME NEW b, NEW s, NEW n \in Nat
  PROVE  Value(b, s, 0) = 0 /\ Value(b, s, n + 1) = Value(b, s, n) * b + s[n + 1]
  BY Digits!FoldEmpty, Digits!FoldStep DEF Value, Horner

(***************************************************************************)
(* What has natural digits is a natural number.                            *)
(***************************************************************************)
LEMMA ValueType ==
  ASSUME NEW b \in Nat \ {0}, NEW n \in Nat, NEW s, \A i \in 1..n : s[i] \in Nat
  PROVE  Value(b, s, n) \in Nat
  <1> DEFINE Bad == {m \in 0..n : Value(b, s, m) \notin Nat}
  <1> SUFFICES ASSUME Bad # {} PROVE FALSE
    OBVIOUS
  <1>1. PICK m \in Bad : \A k \in Bad : m <= k
    <2>1. Bad \in SUBSET Nat
      OBVIOUS
    <2>2. QED
      BY <2>1, LeastOf
  <1>2. m # 0
    BY ValueSteps
  <1>3. PICK j \in Nat : m = j + 1
    BY <1>2
  <1>4. Value(b, s, j) \in Nat /\ s[j + 1] \in Nat
    BY <1>1, <1>3
  <1>5. Value(b, s, j + 1) = Value(b, s, j) * b + s[j + 1]
    BY ValueSteps
  <1>6. QED
    BY <1>3, <1>4, <1>5

(***************************************************************************)
(* Multiplication by a natural keeps the order.                            *)
(***************************************************************************)
LEMMA ProductOrdered ==
  ASSUME NEW a \in Int, NEW c \in Int, NEW b \in Nat, a <= c
  PROVE  a * b <= c * b
  OBVIOUS

(***************************************************************************)
(* A quotient and a remainder are determined.                              *)
(***************************************************************************)
LEMMA Division ==
  ASSUME NEW b \in Nat \ {0}, NEW q \in Nat, NEW r \in 0..b - 1
  PROVE  (q * b + r) \div b = q /\ (q * b + r) % b = r
  OBVIOUS

(***************************************************************************)
(* Every number has a quotient and a remainder.                            *)
(***************************************************************************)
LEMMA Divided ==
  ASSUME NEW b \in Nat \ {0}, NEW n \in Nat
  PROVE  /\ n \div b \in Nat
         /\ n % b \in 0..b - 1
         /\ n = (n \div b) * b + (n % b)
  OBVIOUS

(***************************************************************************)
(* Dividing by a product is dividing twice.                                *)
(***************************************************************************)
LEMMA DividedTwice ==
  ASSUME NEW n \in Nat, NEW b \in Nat \ {0}, NEW c \in Nat \ {0}
  PROVE  n \div (b * c) = (n \div b) \div c
  <1>1. PICK q \in Nat, r \in 0..b - 1 : q = n \div b /\ r = n % b /\ n = q * b + r
    BY Divided
  <1>2. PICK p \in Nat, t \in 0..c - 1 : p = q \div c /\ t = q % c /\ q = p * c + t
    BY Divided
  <1>3. n = p * (b * c) + (t * b + r)
    <2>1. (p * c + t) * b = p * (b * c) + t * b
      OBVIOUS
    <2>2. q * b = p * (b * c) + t * b
      BY <1>2, <2>1
    <2>3. p * (b * c) \in Int /\ t * b \in Int
      OBVIOUS
    <2>4. n = (p * (b * c) + t * b) + r
      BY <1>1, <2>2
    <2>5. QED
      BY <2>3, <2>4
  <1>4. t * b <= (c - 1) * b
    BY ProductOrdered
  <1>5. (c - 1) * b = b * c - b
    OBVIOUS
  <1>6. t * b \in Nat /\ b * c \in Nat \ {0}
    BY Positive
  <1>7. t * b + r \in 0..b * c - 1
    BY <1>4, <1>5, <1>6
  <1>8. n \div (b * c) = p
    BY <1>3, <1>6, <1>7, Division
  <1>9. QED
    BY <1>1, <1>2, <1>8

(***************************************************************************)
(* The high digits are the number without the others.                      *)
(***************************************************************************)
LEMMA ValueHigh ==
  ASSUME NEW b \in Nat \ {0}, NEW n \in Nat, NEW s, \A i \in 1..n : s[i] \in 0..b - 1,
         NEW k \in 0..n
  PROVE  Value(b, s, n) \div Power(b, n - k) = Value(b, s, k)
  <1> DEFINE Bad == {m \in 0..n : m >= k /\ Value(b, s, m) \div Power(b, m - k) # Value(b, s, k)}
  <1> SUFFICES ASSUME Bad # {} PROVE FALSE
    OBVIOUS
  <1>1. PICK m \in Bad : \A i \in Bad : m <= i
    <2>1. Bad \in SUBSET Nat
      OBVIOUS
    <2>2. QED
      BY <2>1, LeastOf
  <1>2. \A i \in 0..n : Value(b, s, i) \in Nat
    <2> TAKE i \in 0..n
    <2>1. \A j \in 1..i : s[j] \in Nat
      OBVIOUS
    <2>2. QED
      BY <2>1, ValueType
  <1>3. m # k
    <2>1. k - k = 0 /\ Power(b, 0) = 1
      BY PowerSteps
    <2>2. Value(b, s, k) \div 1 = Value(b, s, k)
      BY <1>2
    <2>3. QED
      BY <2>1, <2>2
  <1>4. PICK j \in k..n : m = j + 1
    BY <1>3
  <1>5. Value(b, s, j) \div Power(b, j - k) = Value(b, s, k)
    BY <1>1, <1>4
  <1>6. Power(b, m - k) = b * Power(b, j - k)
    <2>1. j - k \in Nat /\ m - k = (j - k) + 1
      BY <1>4
    <2>2. QED
      BY <2>1, PowerSteps
  <1>7. Value(b, s, m) = Value(b, s, j) * b + s[m]
    BY <1>4, ValueSteps
  <1>8. Value(b, s, m) \div b = Value(b, s, j)
    <2>1. s[m] \in 0..b - 1 /\ Value(b, s, j) \in Nat
      BY <1>2, <1>4
    <2>2. QED
      BY <1>7, <2>1, Division
  <1>9. Value(b, s, m) \div (b * Power(b, j - k)) = (Value(b, s, m) \div b) \div Power(b, j - k)
    <2>1. Value(b, s, m) \in Nat /\ Power(b, j - k) \in Nat \ {0}
      BY <1>2, <1>4, PowerType
    <2>2. QED
      BY <2>1, DividedTwice
  <1>10. QED
    BY <1>5, <1>6, <1>8, <1>9

(***************************************************************************)
(* Numbers are equal when all their digits are.                            *)
(***************************************************************************)
LEMMA ValueInjective ==
  ASSUME NEW b \in Nat \ {0}, NEW n \in Nat, NEW s, NEW t,
         \A i \in 1..n : s[i] \in 0..b - 1 /\ t[i] \in 0..b - 1
  PROVE  Value(b, s, n) = Value(b, t, n) <=> \A i \in 1..n : s[i] = t[i]
  <1>1. ASSUME \A i \in 1..n : s[i] = t[i] PROVE Value(b, s, n) = Value(b, t, n)
    BY <1>1, Digits!FoldLocal DEF Value
  <1>2. ASSUME Value(b, s, n) = Value(b, t, n), NEW k \in 0..n
        PROVE  Value(b, s, k) = Value(b, t, k)
    <2>1. Value(b, s, n) \div Power(b, n - k) = Value(b, s, k)
      BY ValueHigh
    <2>2. Value(b, t, n) \div Power(b, n - k) = Value(b, t, k)
      BY ValueHigh
    <2>3. QED
      BY <1>2, <2>1, <2>2
  <1>3. ASSUME Value(b, s, n) = Value(b, t, n), NEW i \in 1..n PROVE s[i] = t[i]
    <2>1. PICK j \in Nat : i = j + 1 /\ j \in 0..n
      <3>1. i - 1 \in Nat /\ i = (i - 1) + 1 /\ i - 1 \in 0..n
        OBVIOUS
      <3>2. QED
        BY <3>1
    <2>2. Value(b, s, j) = Value(b, t, j) /\ Value(b, s, i) = Value(b, t, i)
      BY <1>2, <1>3, <2>1
    <2>3. Value(b, s, i) = Value(b, s, j) * b + s[i] /\ Value(b, t, i) = Value(b, t, j) * b + t[i]
      BY <2>1, ValueSteps
    <2>4. Value(b, s, j) * b \in Nat
      <3>1. \A l \in 1..j : s[l] \in Nat
        BY <2>1
      <3>2. Value(b, s, j) \in Nat
        BY <3>1, ValueType
      <3>3. QED
        BY <3>2
    <2>5. s[i] \in Nat /\ t[i] \in Nat
      OBVIOUS
    <2>6. PICK v \in Nat : v = Value(b, s, j) * b
      BY <2>4
    <2>7. v + s[i] = v + t[i]
      BY <2>2, <2>3, <2>6
    <2>8. QED
      BY <2>5, <2>7
  <1>4. QED
    BY <1>1, <1>3

(***************************************************************************)
(* Bits counted by bytes: 2 to the m * n is (2 to the m) to the n.         *)
(***************************************************************************)
LEMMA PowerOfPower ==
  ASSUME NEW b \in Nat \ {0}, NEW m \in Nat, NEW n \in Nat
  PROVE  Power(b, m * n) = Power(Power(b, m), n)
  <1> DEFINE Bad == {k \in Nat : Power(b, m * k) # Power(Power(b, m), k)}
  <1> SUFFICES ASSUME Bad # {} PROVE FALSE
    OBVIOUS
  <1>1. PICK k \in Bad : \A i \in Bad : k <= i
    <2>1. Bad \in SUBSET Nat
      OBVIOUS
    <2>2. QED
      BY <2>1, LeastOf
  <1>2. k # 0
    <2>1. m * 0 = 0 /\ Power(b, 0) = 1 /\ Power(Power(b, m), 0) = 1
      BY PowerSteps
    <2>2. QED
      BY <2>1
  <1>3. PICK j \in Nat : k = j + 1
    BY <1>2
  <1>4. Power(b, m * j) = Power(Power(b, m), j)
    BY <1>1, <1>3
  <1>5. m * k = m + m * j /\ m * j \in Nat
    BY <1>3
  <1>6. Power(b, m + m * j) = Power(b, m) * Power(b, m * j)
    BY <1>5, PowerSum
  <1>7. Power(Power(b, m), j + 1) = Power(b, m) * Power(Power(b, m), j)
    BY PowerSteps
  <1>8. QED
    BY <1>3, <1>4, <1>5, <1>6, <1>7

-----------------------------------------------------------------------------
\* Allowlists

\* values of a byte of an address
Octet == Power(2, ByteBits)

(***************************************************************************)
(* The widths that ip_allowlist.cpp has for a byte and for the two kinds   *)
(* of address are positive.                                                *)
(***************************************************************************)
LEMMA WidthTypes ==
  /\ ByteBits \in Nat \ {0} /\ V4Bytes \in Nat \ {0} /\ V6Bytes \in Nat \ {0}
  /\ Octet \in Nat \ {0}
  /\ \A type : Width(type) \in Nat \ {0} /\ Bits(type) \in Nat
  <1>1. ByteBits \in Nat \ {0} /\ V4Bytes \in Nat \ {0} /\ V6Bytes \in Nat \ {0}
    BY WidthAssumption
  <1>2. Octet \in Nat \ {0}
    BY <1>1, PowerType DEF Octet
  <1>3. ASSUME NEW type PROVE Width(type) \in Nat \ {0} /\ Bits(type) \in Nat
    <2>1. Width(type) \in Nat \ {0}
      BY <1>1 DEF Width
    <2>2. QED
      BY <1>1, <2>1 DEF Bits
  <1>4. QED
    BY <1>1, <1>2, <1>3

(***************************************************************************)
(* The mask of a byte keeps the quotient.                                  *)
(***************************************************************************)
LEMMA HighBitsKeep ==
  ASSUME NEW d \in Nat, NEW e \in Nat, NEW rest \in 1..ByteBits
  PROVE  /\ HighBits(d, rest) \in Nat
         /\ HighBits(d, rest) = HighBits(e, rest)
              <=> d \div Power(2, ByteBits - rest) = e \div Power(2, ByteBits - rest)
         /\ HighBits(HighBits(d, rest), rest) = HighBits(d, rest)
  <1>1. PICK q \in Nat \ {0} : q = Power(2, ByteBits - rest)
    <2>1. ByteBits - rest \in Nat /\ 2 \in Nat \ {0}
      BY WidthTypes
    <2>2. QED
      BY <2>1, PowerType
  <1>2. \A n \in Nat : HighBits(n, rest) = (n \div q) * q /\ n \div q \in Nat
    <2> TAKE n \in Nat
    <2>1. n \div q \in Nat /\ n = (n \div q) * q + (n % q) /\ n % q \in 0..q - 1
      BY Divided
    <2>2. (n \div q) * q \in Nat
      BY <2>1
    <2>3. n - (n % q) = (n \div q) * q
      BY <2>1, <2>2
    <2>4. HighBits(n, rest) = n - (n % q)
      BY <1>1 DEF HighBits
    <2>5. QED
      BY <2>1, <2>3, <2>4
  <1>3. \A n \in Nat : (n * q) \div q = n
    <2> TAKE n \in Nat
    <2>1. 0 \in 0..q - 1 /\ n * q + 0 = n * q
      OBVIOUS
    <2>2. (n * q + 0) \div q = n
      BY <2>1, Division
    <2>3. QED
      BY <2>1, <2>2
  <1>4. HighBits(d, rest) \in Nat
    BY <1>2
  <1>5. HighBits(HighBits(d, rest), rest) = HighBits(d, rest)
    BY <1>2, <1>3, <1>4
  <1>6. HighBits(d, rest) = HighBits(e, rest) => d \div q = e \div q
    BY <1>2, <1>3
  <1>7. d \div q = e \div q => HighBits(d, rest) = HighBits(e, rest)
    BY <1>2
  <1>8. QED
    BY <1>1, <1>4, <1>5, <1>6, <1>7

(***************************************************************************)
(* A prefix splits into whole bytes and the bits that are left.            *)
(***************************************************************************)
LEMMA Split ==
  ASSUME NEW w \in Nat, NEW prefix \in 0..ByteBits * w
  PROVE  /\ prefix \div ByteBits \in 0..w
         /\ prefix % ByteBits \in 0..ByteBits - 1
         /\ prefix % ByteBits = 0 =>
              Power(2, ByteBits * w - prefix) = Power(Octet, w - prefix \div ByteBits)
         /\ prefix % ByteBits > 0 =>
              /\ prefix \div ByteBits < w
              /\ Power(2, ByteBits * w - prefix) =
                   Power(Octet, w - (prefix \div ByteBits + 1)) * Power(2, ByteBits - (prefix % ByteBits))
  <1>1. PICK full \in Nat, rest \in 0..ByteBits - 1 :
          full = prefix \div ByteBits /\ rest = prefix % ByteBits /\ prefix = full * ByteBits + rest
    <2>1. ByteBits \in Nat \ {0} /\ prefix \in Nat
      BY WidthTypes
    <2>2. QED
      BY <2>1, Divided
  <1>2. full <= w /\ (rest > 0 => full < w)
    <2>1. ASSUME w <= full PROVE full = w /\ rest = 0
      <3>1. ASSUME w + 1 <= full PROVE FALSE
        <4>1. (w + 1) * ByteBits <= full * ByteBits
          BY <3>1, WidthTypes, ProductOrdered
        <4>2. (w + 1) * ByteBits = ByteBits * w + ByteBits
          BY WidthTypes
        <4>3. QED
          BY <1>1, <4>1, <4>2, WidthTypes
      <3>2. full = w
        BY <2>1, <3>1
      <3>3. w * ByteBits = ByteBits * w /\ w * ByteBits \in Nat
        BY WidthTypes
      <3>4. QED
        BY <1>1, <3>2, <3>3
    <2>2. QED
      BY <2>1
  <1>3. rest = 0 => Power(2, ByteBits * w - prefix) = Power(Octet, w - full)
    <2>1. ByteBits * (w - full) = ByteBits * w - full * ByteBits
      BY WidthTypes
    <2>2. Power(2, ByteBits * (w - full)) = Power(Octet, w - full)
      BY <1>2, WidthTypes, PowerOfPower DEF Octet
    <2>3. rest = 0 => prefix = full * ByteBits
      BY <1>1, WidthTypes
    <2>4. QED
      BY <2>1, <2>2, <2>3
  <1>4. rest > 0 => Power(2, ByteBits * w - prefix) =
                      Power(Octet, w - (full + 1)) * Power(2, ByteBits - rest)
    <2> SUFFICES ASSUME rest > 0
                 PROVE  Power(2, ByteBits * w - prefix) =
                          Power(Octet, w - (full + 1)) * Power(2, ByteBits - rest)
      OBVIOUS
    <2>1. PICK k \in Nat : k = w - (full + 1)
      BY <1>2
    <2>2. PICK l \in Nat : l = ByteBits - rest
      BY WidthTypes
    <2>3. ByteBits * k \in Nat /\ ByteBits * k = ByteBits * w - full * ByteBits - ByteBits
      BY <2>1, WidthTypes
    <2>4. ByteBits * w - prefix = ByteBits * k + l
      BY <1>1, <2>2, <2>3, WidthTypes
    <2>5. Power(2, ByteBits * k + l) = Power(2, ByteBits * k) * Power(2, l)
      BY <2>3, PowerSum
    <2>6. Power(2, ByteBits * k) = Power(Octet, k)
      BY WidthTypes, PowerOfPower DEF Octet
    <2>7. QED
      BY <2>1, <2>2, <2>4, <2>5, <2>6
  <1>5. QED
    BY <1>1, <1>2, <1>3, <1>4

(***************************************************************************)
(* Two addresses are in the same block exactly when the bytes of the       *)
(* prefix, and the bits after them, are the same.                          *)
(***************************************************************************)
LEMMA SameBlock ==
  ASSUME NEW w \in Nat, NEW prefix \in 0..ByteBits * w,
         NEW a, NEW e, \A i \in 1..w : a[i] \in Octets /\ e[i] \in Octets
  PROVE  LET size == Power(2, ByteBits * w - prefix)
             full == prefix \div ByteBits
             rest == prefix % ByteBits
         IN  Value(Octet, e, w) \div size = Value(Octet, a, w) \div size
               <=> /\ \A i \in 1..full : a[i] = e[i]
                   /\ rest > 0 => HighBits(a[full + 1], rest) = HighBits(e[full + 1], rest)
  <1> DEFINE size == Power(2, ByteBits * w - prefix)
  <1>1. PICK full \in 0..w, rest \in 0..ByteBits - 1 :
          full = prefix \div ByteBits /\ rest = prefix % ByteBits
    BY Split
  <1>2. \A k \in 0..w : (\A i \in 1..k : a[i] \in 0..Octet - 1 /\ e[i] \in 0..Octet - 1)
    BY DEF Octets, Octet
  <1>3. ASSUME NEW k \in 0..w
        PROVE  /\ Value(Octet, a, k) \in Nat /\ Value(Octet, e, k) \in Nat
               /\ Value(Octet, a, w) \div Power(Octet, w - k) = Value(Octet, a, k)
               /\ Value(Octet, e, w) \div Power(Octet, w - k) = Value(Octet, e, k)
               /\ Value(Octet, e, k) = Value(Octet, a, k) <=> \A i \in 1..k : a[i] = e[i]
    <2>1. \A i \in 1..w : a[i] \in 0..Octet - 1 /\ e[i] \in 0..Octet - 1
      BY DEF Octets, Octet
    <2>2. \A i \in 1..k : a[i] \in Nat /\ e[i] \in Nat
      BY <1>2
    <2>3. Value(Octet, a, k) \in Nat /\ Value(Octet, e, k) \in Nat
      BY <2>2, WidthTypes, ValueType
    <2>4. Value(Octet, a, w) \div Power(Octet, w - k) = Value(Octet, a, k)
      BY <2>1, WidthTypes, ValueHigh
    <2>5. Value(Octet, e, w) \div Power(Octet, w - k) = Value(Octet, e, k)
      BY <2>1, WidthTypes, ValueHigh
    <2>6. Value(Octet, a, k) = Value(Octet, e, k) <=> \A i \in 1..k : a[i] = e[i]
      <3>1. \A i \in 1..k : a[i] \in 0..Octet - 1 /\ e[i] \in 0..Octet - 1
        BY <1>2
      <3>2. Octet \in Nat \ {0} /\ k \in Nat
        BY WidthTypes
      <3>3. QED
        BY <3>1, <3>2, ValueInjective
    <2>7. QED
      BY <2>3, <2>4, <2>5, <2>6
  <1>4. CASE rest = 0
    <2>1. size = Power(Octet, w - full)
      BY <1>1, <1>4, Split
    <2>2. QED
      BY <1>1, <1>3, <1>4, <2>1
  <1>5. CASE rest > 0
    <2>1. full + 1 \in 0..w /\ full + 1 \in 1..w
      BY <1>1, <1>5, Split
    <2>2. size = Power(Octet, w - (full + 1)) * Power(2, ByteBits - rest)
      BY <1>1, <1>5, Split
    <2>3. PICK q \in Nat \ {0}, r \in Nat \ {0} :
            q = Power(2, ByteBits - rest) /\ r = Power(2, rest) /\ Octet = r * q
      <3>1. ByteBits - rest \in Nat /\ rest \in Nat /\ 2 \in Nat \ {0} /\ rest + (ByteBits - rest) = ByteBits
        BY WidthTypes
      <3>2. Power(2, rest + (ByteBits - rest)) = Power(2, rest) * Power(2, ByteBits - rest)
        BY <3>1, PowerSum
      <3>3. QED
        BY <3>1, <3>2, PowerType DEF Octet
    <2>4. PICK P \in Nat \ {0} : P = Power(Octet, w - (full + 1))
      <3>1. w - (full + 1) \in Nat
        BY <2>1
      <3>2. QED
        BY <3>1, WidthTypes, PowerType
    <2>5. ASSUME NEW s, s \in {a, e}
          PROVE  /\ s[full + 1] \div q \in 0..r - 1
                 /\ Value(Octet, s, w) \div size =
                      Value(Octet, s, full) * r + (s[full + 1] \div q)
      <3>1. PICK d \in Nat : d = s[full + 1] /\ d < r * q
        BY <2>1, <2>3, <2>5, WidthTypes DEF Octets, Octet
      <3>2. PICK v \in Nat : v = Value(Octet, s, full)
        BY <1>3, <2>5
      <3>3. Value(Octet, s, w) \in Nat
        BY <1>3, <2>5
      <3>4. Value(Octet, s, w) \div size = (Value(Octet, s, w) \div P) \div q
        BY <2>2, <2>3, <2>4, <3>3, DividedTwice
      <3>5. Value(Octet, s, w) \div P = Value(Octet, s, full + 1)
        BY <1>3, <2>1, <2>4, <2>5
      <3>6. Value(Octet, s, full + 1) = v * (r * q) + d
        BY <2>3, <3>1, <3>2, ValueSteps
      <3>7. PICK g \in Nat, h \in 0..q - 1 : g = d \div q /\ d = g * q + h
        <4>1. d \div q \in Nat /\ d % q \in 0..q - 1 /\ d = (d \div q) * q + (d % q)
          BY ONLY Divided, d \in Nat, q \in Nat \ {0}
        <4>2. QED
          BY ONLY <4>1
      <3>8. g < r
        <4>1. ASSUME r <= g PROVE FALSE
          <5>1. r * q <= g * q
            BY <4>1, ProductOrdered
          <5>2. QED
            BY <3>1, <3>7, <5>1
        <4>2. QED
          BY <4>1
      <3>9. v * (r * q) + d = (v * r + g) * q + h
        <4>1. (v * r + g) * q = v * (r * q) + g * q
          OBVIOUS
        <4>2. v * (r * q) \in Nat /\ g * q \in Nat
          OBVIOUS
        <4>3. QED
          BY <3>7, <4>1, <4>2
      <3>10. v * r + g \in Nat
        OBVIOUS
      <3>11. (v * (r * q) + d) \div q = v * r + g
        BY <3>9, <3>10, Division
      <3>12. QED
        BY <3>1, <3>2, <3>4, <3>5, <3>6, <3>7, <3>8, <3>11
    <2>6. PICK v \in Nat, u \in Nat : v = Value(Octet, e, full) /\ u = Value(Octet, a, full)
      BY <1>3
    <2>7. PICK g \in 0..r - 1, h \in 0..r - 1 : g = e[full + 1] \div q /\ h = a[full + 1] \div q
      BY <2>5
    <2>8. v * r + g = u * r + h <=> v = u /\ g = h
      <3>1. (v * r + g) \div r = v /\ (u * r + h) \div r = u
        BY Division
      <3>2. v * r \in Nat
        OBVIOUS
      <3>3. QED
        BY <3>1, <3>2
    <2>9. Value(Octet, e, w) \div size = v * r + g /\ Value(Octet, a, w) \div size = u * r + h
      BY <2>5, <2>6, <2>7
    <2>10. g = h <=> HighBits(a[full + 1], rest) = HighBits(e[full + 1], rest)
      <3>1. a[full + 1] \in Nat /\ e[full + 1] \in Nat /\ rest \in 1..ByteBits
        BY <1>5, <2>1, WidthTypes DEF Octets, Octet
      <3>2. QED
        BY <2>3, <2>7, <3>1, HighBitsKeep
    <2>11. v = u <=> \A i \in 1..full : a[i] = e[i]
      BY <1>3, <2>6
    <2>12. QED
      BY <1>1, <1>5, <2>8, <2>9, <2>10, <2>11
  <1>6. QED
    BY <1>4, <1>5

-----------------------------------------------------------------------------
(***************************************************************************)
(* An address is a sequence of bytes, as many as its kind has.             *)
(***************************************************************************)
LEMMA AddressBytes ==
  ASSUME NEW ip \in Addresses
  PROVE  /\ ip.bytes \in [1..Width(ip.type) -> Octets]
         /\ ip.bytes \in Seq(Octets)
         /\ Len(ip.bytes) = Width(ip.type)
         /\ ip.type \in {"v4", "v6"}
  <1>1. ip.type \in {"v4", "v6"} /\ ip.bytes \in [1..Width(ip.type) -> Octets]
    BY DEF Addresses, Width
  <1>2. PICK w \in Nat : w = Width(ip.type)
    BY WidthTypes
  <1>3. ip.bytes \in [1..w -> Octets]
    BY <1>1, <1>2
  <1>4. ip.bytes \in Seq(Octets) /\ Len(ip.bytes) = w
    BY <1>3
  <1>5. QED
    BY <1>1, <1>2, <1>4

(***************************************************************************)
(* AddressNumber is the value of the bytes.                                *)
(***************************************************************************)
LEMMA AddressNumberIs ==
  ASSUME NEW ip \in Addresses
  PROVE  AddressNumber(ip.bytes) = Value(Octet, ip.bytes, Width(ip.type))
  <1>1. DOMAIN ip.bytes = 1..Width(ip.type)
    BY AddressBytes
  <1>2. AddressNumber(ip.bytes)
          = (CHOOSE g : Digits!Unfolds(g, Octet, 0, ip.bytes, 1..Width(ip.type)))[1..Width(ip.type)]
    BY <1>1 DEF AddressNumber, FoldLeft, MapThenFoldSet, Max, Digits!Unfolds, Digits!Top, Horner, Octet
  <1>3. QED
    BY <1>2 DEF Value, Digits!Fold

(***************************************************************************)
(* parse_cidr() takes exactly the entries that are blocks.                 *)
(***************************************************************************)
LEMMA ParsesWellFormed ==
  ASSUME NEW entry \in ListEntries
  PROVE  /\ ParseCidr(entry) # None <=> WellFormed(entry)
         /\ WellFormed(entry) =>
              LET prefix == IF entry.prefix = NoPrefix THEN Bits(entry.ip.type) ELSE entry.prefix
              IN  /\ entry.ip \in Addresses
                  /\ prefix \in 0..Bits(entry.ip.type)
                  /\ ParseCidr(entry) = [type |-> entry.ip.type,
                                         network |-> NetworkOf(entry.ip.bytes, prefix),
                                         prefix |-> prefix]
  <1> DEFINE prefix == IF entry.prefix = NoPrefix THEN Bits(entry.ip.type) ELSE entry.prefix
             range == [type |-> entry.ip.type, network |-> NetworkOf(entry.ip.bytes, prefix), prefix |-> prefix]
  <1>1. entry.ip \in Addresses \cup {Unparsed} /\ entry.prefix \in Int \cup {NoPrefix, BadPrefix}
    BY DEF ListEntries
  <1>2. Bits(entry.ip.type) \in Nat
    BY WidthTypes
  <1>3. ASSUME WellFormed(entry)
        PROVE  entry.ip \in Addresses /\ prefix \in 0..Bits(entry.ip.type) /\ ParseCidr(entry) = range
    <2>1. entry.ip # Unparsed /\ entry.prefix # BadPrefix
          /\ (entry.prefix # NoPrefix => entry.prefix \in 0..Bits(entry.ip.type))
      BY <1>3 DEF WellFormed
    <2>2. prefix \in 0..Bits(entry.ip.type)
      BY <1>2, <2>1
    <2>3. ~(prefix < 0 \/ prefix > Bits(entry.ip.type))
      BY <1>2, <2>2
    <2>4. ParseCidr(entry) = range
      BY <2>1, <2>3 DEF ParseCidr
    <2>5. QED
      BY <1>1, <2>1, <2>2, <2>4
  <1>4. WellFormed(entry) => ParseCidr(entry) # None
    <2> SUFFICES ASSUME WellFormed(entry) PROVE ParseCidr(entry).type # None.type
      OBVIOUS
    <2>1. entry.ip.type \in {"v4", "v6"}
      BY <1>3, AddressBytes
    <2>2. ParseCidr(entry).type = entry.ip.type
      BY <1>3
    <2>3. QED
      BY <2>1, <2>2 DEF None
  <1>5. ASSUME ~WellFormed(entry) PROVE ParseCidr(entry) = None
    <2>1. CASE entry.ip = Unparsed \/ entry.prefix = BadPrefix
      BY <2>1 DEF ParseCidr
    <2>2. CASE entry.ip # Unparsed /\ entry.prefix # BadPrefix
      <3>1. entry.prefix # NoPrefix /\ entry.prefix \notin 0..Bits(entry.ip.type)
        BY <1>5, <2>2 DEF WellFormed
      <3>2. entry.prefix \in Int
        BY <1>1, <2>2, <3>1
      <3>3. entry.prefix < 0 \/ entry.prefix > Bits(entry.ip.type)
        BY <1>2, <3>1, <3>2
      <3>4. QED
        BY <3>1, <3>3 DEF ParseCidr
    <2>3. QED
      BY <2>1, <2>2
  <1>6. QED
    BY <1>3, <1>4, <1>5

(***************************************************************************)
(* matches_cidr() compares an address with the block, although parse_cidr()*)
(* has cleared bits of the other.                                          *)
(***************************************************************************)
LEMMA MatchesBlock ==
  ASSUME NEW ip \in Addresses, NEW e \in Addresses, ip.type = e.type,
         NEW prefix \in 0..Bits(e.type)
  PROVE  MatchesCidr(ip.bytes, [type |-> e.type, network |-> NetworkOf(e.bytes, prefix), prefix |-> prefix])
           <=> LET size == Power(2, Bits(e.type) - prefix)
               IN  AddressNumber(e.bytes) \div size = AddressNumber(ip.bytes) \div size
  <1>1. PICK w \in Nat : w = Width(e.type)
    BY WidthTypes
  <1> DEFINE a == ip.bytes
             b == e.bytes
             network == NetworkOf(b, prefix)
             range == [type |-> e.type, network |-> network, prefix |-> prefix]
  <1>2. a \in [1..w -> Octets] /\ b \in [1..w -> Octets] /\ Len(a) = w
    BY <1>1, AddressBytes
  <1>3. Bits(e.type) = ByteBits * w /\ prefix \in 0..ByteBits * w
    BY <1>1 DEF Bits
  <1>4. PICK full \in 0..w, rest \in 0..ByteBits - 1 :
          /\ full = prefix \div ByteBits /\ rest = prefix % ByteBits
          /\ rest > 0 => full < w
    BY <1>3, Split
  <1>5. /\ network = [i \in 1..w |-> IF i <= full THEN b[i]
                                     ELSE IF i = full + 1 /\ rest > 0 THEN HighBits(b[i], rest)
                                     ELSE 0]
        /\ Len(network) = w
    <2>1. DOMAIN b = 1..w
      BY <1>2
    <2>2. network = [i \in 1..w |-> IF i <= full THEN b[i]
                                     ELSE IF i = full + 1 /\ rest > 0 THEN HighBits(b[i], rest)
                                     ELSE 0]
      BY <1>4, <2>1 DEF NetworkOf
    <2>3. QED
      BY <2>2
  <1> HIDE DEF network
  <1>6. MatchesCidr(a, range)
          <=> /\ \A i \in 1..full : a[i] = network[i]
              /\ rest > 0 => HighBits(a[full + 1], rest) = HighBits(network[full + 1], rest)
    BY <1>2, <1>4, <1>5 DEF MatchesCidr
  <1>7. \A i \in 1..full : network[i] = b[i]
    BY <1>5
  <1>8. rest > 0 => HighBits(network[full + 1], rest) = HighBits(b[full + 1], rest)
    <2> SUFFICES ASSUME rest > 0 PROVE HighBits(network[full + 1], rest) = HighBits(b[full + 1], rest)
      OBVIOUS
    <2>1. full + 1 \in 1..w /\ ~(full + 1 <= full)
      BY <1>4
    <2>2. network[full + 1] = HighBits(b[full + 1], rest)
      BY <1>5, <2>1
    <2>3. b[full + 1] \in Nat /\ rest \in 1..ByteBits
      BY <1>2, <2>1, WidthTypes DEF Octets, Octet
    <2>4. QED
      BY <2>2, <2>3, HighBitsKeep
  <1>9. Value(Octet, b, w) \div Power(2, ByteBits * w - prefix) = Value(Octet, a, w) \div Power(2, ByteBits * w - prefix)
          <=> /\ \A i \in 1..full : a[i] = b[i]
              /\ rest > 0 => HighBits(a[full + 1], rest) = HighBits(b[full + 1], rest)
    <2>1. \A i \in 1..w : a[i] \in Octets /\ b[i] \in Octets
      BY <1>2
    <2>2. QED
      BY <1>3, <1>4, <2>1, SameBlock
  <1>10. AddressNumber(a) = Value(Octet, a, w) /\ AddressNumber(b) = Value(Octet, b, w)
    BY <1>1, AddressNumberIs
  <1>11. QED
    BY <1>3, <1>6, <1>7, <1>8, <1>9, <1>10 DEF network

(***************************************************************************)
(* What AllowlistExact says of one list and one client holds of any.       *)
(***************************************************************************)
LEMMA ListExact ==
  ASSUME NEW entries \in Seq(ListEntries), NEW ip \in Addresses \cup {Unparsed}
  PROVE  ValidateIpAllowlist(entries, ip) <=> LetsIn(entries, ip)
  <1>1. CASE entries = <<>>
    BY <1>1 DEF ValidateIpAllowlist, LetsIn
  <1>2. CASE entries # <<>>
    <2>1. PICK n \in Nat : DOMAIN entries = 1..n /\ n # 0 /\ \A i \in 1..n : entries[i] \in ListEntries
      BY <1>2
    <2>2. Parses(entries) <=> \A i \in 1..n : WellFormed(entries[i])
      BY <2>1, ParsesWellFormed DEF Parses
    <2>3. Ranges(entries) # <<>> /\ DOMAIN Ranges(entries) = 1..n
      BY <2>1 DEF Ranges
    <2>4. ASSUME NEW i \in 1..n, WellFormed(entries[i]), ip # Unparsed
          PROVE  Ranges(entries)[i].type = ip.type /\ MatchesCidr(ip.bytes, Ranges(entries)[i])
                   <=> Covers(entries[i], ip)
      <3> DEFINE e == entries[i]
                 prefix == IF e.prefix = NoPrefix THEN Bits(e.ip.type) ELSE e.prefix
      <3>1. e \in ListEntries /\ ip \in Addresses
        BY <2>1, <2>4
      <3>2. /\ e.ip \in Addresses
            /\ prefix \in 0..Bits(e.ip.type)
            /\ ParseCidr(e) = [type |-> e.ip.type, network |-> NetworkOf(e.ip.bytes, prefix), prefix |-> prefix]
        BY <2>4, <3>1, ParsesWellFormed
      <3>3. Ranges(entries)[i] = ParseCidr(e)
        BY <2>1 DEF Ranges
      <3>4. CASE e.ip.type # ip.type
        BY <3>2, <3>3, <3>4 DEF Covers
      <3>5. CASE e.ip.type = ip.type
        <4> HIDE DEF prefix
        <4>1. MatchesCidr(ip.bytes, ParseCidr(e))
                <=> AddressNumber(e.ip.bytes) \div Power(2, Bits(ip.type) - prefix)
                      = AddressNumber(ip.bytes) \div Power(2, Bits(ip.type) - prefix)
          BY <3>1, <3>2, <3>5, MatchesBlock
        <4>2. Covers(e, ip)
                <=> AddressNumber(e.ip.bytes) \div Power(2, Bits(ip.type) - prefix)
                      = AddressNumber(ip.bytes) \div Power(2, Bits(ip.type) - prefix)
          BY <3>5 DEF Covers, prefix
        <4>3. ParseCidr(e).type = e.ip.type
          BY <3>2
        <4>4. QED
          BY <3>3, <3>5, <4>1, <4>2, <4>3
      <3>6. QED
        BY <3>4, <3>5
    <2>5. QED
      BY <1>2, <2>1, <2>2, <2>3, <2>4 DEF ValidateIpAllowlist, IsAllowed, LetsIn
  <1>3. QED
    BY <1>1, <1>2

-----------------------------------------------------------------------------
\* Rate limits

(***************************************************************************)
(* A function that satisfies the recursion of History exists: if not, take *)
(* the shortest history that has none and add its last call to the         *)
(* function of the one before.                                             *)
(***************************************************************************)
LEMMA HistoryExists ==
  ASSUME NEW n \in Nat, NEW calls
  PROVE  \E f : f = [i \in 0..n |-> IF i = 0 THEN NoLimiter ELSE AfterCall(f[i - 1], calls[i])]
  <1> DEFINE Unfolds(m, f) == f = [i \in 0..m |-> IF i = 0 THEN NoLimiter ELSE AfterCall(f[i - 1], calls[i])]
             Bad == {m \in Nat : ~\E f : Unfolds(m, f)}
  <1> SUFFICES ASSUME Bad # {} PROVE FALSE
    OBVIOUS
  <1>1. PICK m \in Bad : \A k \in Bad : m <= k
    <2>1. Bad \in SUBSET Nat
      OBVIOUS
    <2>2. QED
      BY <2>1, LeastOf
  <1>2. CASE m = 0
    <2>1. Unfolds(0, [i \in 0..0 |-> NoLimiter])
      OBVIOUS
    <2>2. QED
      BY <1>2, <2>1
  <1>3. CASE m # 0
    <2>1. PICK k \in Nat : m = k + 1
      BY <1>3
    <2>2. PICK f : Unfolds(k, f)
      BY <1>1, <2>1
    <2> DEFINE g == [i \in 0..m |-> IF i = m THEN AfterCall(f[k], calls[m]) ELSE f[i]]
    <2>3. Unfolds(m, g)
      <3>1. \A i \in 0..k : f[i] = IF i = 0 THEN NoLimiter ELSE AfterCall(f[i - 1], calls[i])
        BY <2>2
      <3>2. \A i \in 0..m : g[i] = IF i = 0 THEN NoLimiter ELSE AfterCall(g[i - 1], calls[i])
        <4> TAKE i \in 0..m
        <4>1. CASE i = 0
          BY <4>1, <2>1, <3>1
        <4>2. CASE i = m
          <5>1. g[m] = AfterCall(f[k], calls[m]) /\ m # 0 /\ m - 1 = k /\ k # m /\ k \in 0..m
            BY <2>1
          <5>2. g[k] = f[k]
            BY <5>1
          <5>3. QED
            BY <4>2, <5>1, <5>2
        <4>3. CASE i \in 1..k
          <5>1. i # 0 /\ i # m /\ i - 1 \in 0..m /\ i - 1 # m /\ i \in 0..k
            BY <2>1, <4>3
          <5>2. g[i] = f[i] /\ g[i - 1] = f[i - 1]
            BY <5>1
          <5>3. QED
            BY <3>1, <5>1, <5>2
        <4>4. QED
          BY <2>1, <4>1, <4>2, <4>3
      <3>3. QED
        BY <3>2
    <2>4. QED
      BY <2>3
  <1>4. QED
    BY <1>2, <1>3

(***************************************************************************)
(* so History satisfies it                                                 *)
(***************************************************************************)
LEMMA HistoryIs ==
  ASSUME NEW calls, Len(calls) \in Nat
  PROVE  History(calls) = [i \in 0..Len(calls) |-> IF i = 0 THEN NoLimiter ELSE AfterCall(History(calls)[i - 1], calls[i])]
  BY HistoryExists DEF History


-----------------------------------------------------------------------------
\* What a limiter is
Limiters ==
  [rate : Nat \ {0}, burst : Nat \ {0}, filled : BOOLEAN, tokens : Nat, last : Nat]

\* A limiter at the moment t: its bucket, if it has one, holds no more than its
\* capacity and was not refilled later
Sound(l, t) ==
  \/ l = NoLimiter
  \/ l \in Limiters /\ (l.filled => l.tokens <= l.burst * Second /\ l.last <= t)

(***************************************************************************)
(* RateLimiter() replaces a rate or a burst that cannot be used.           *)
(***************************************************************************)
LEMMA NewLimiterType ==
  ASSUME NEW rate \in Int, NEW burst \in Nat
  PROVE  NewLimiter(rate, burst) \in Limiters /\ ~NewLimiter(rate, burst).filled
  BY RateAssumption DEF NewLimiter, Limiters

(***************************************************************************)
(* The limiter that allow_request() works on, new or not, is sound.        *)
(***************************************************************************)
LEMMA LimiterSound ==
  ASSUME NEW l, NEW t \in Nat, Sound(l, t)
  PROVE  /\ Limiter(l) \in Limiters
         /\ Limiter(l).filled => Limiter(l).tokens <= Limiter(l).burst * Second
                                   /\ Limiter(l).last <= t
         /\ l # NoLimiter => Limiter(l) = l
  <1>1. CASE l = NoLimiter
    <2>1. Limiter(l) = NewLimiter(DefaultRate, DefaultBurst)
      BY <1>1 DEF Limiter
    <2>2. DefaultRate \in Int /\ DefaultBurst \in Nat
      BY RateAssumption
    <2>3. QED
      BY <1>1, <2>1, <2>2, NewLimiterType
  <1>2. CASE l # NoLimiter
    <2>1. Limiter(l) = l
      BY <1>2 DEF Limiter
    <2>2. QED
      BY <1>2, <2>1 DEF Sound
  <1>3. QED
    BY <1>1, <1>2

(***************************************************************************)
(* Products of naturals                                                    *)
(***************************************************************************)
LEMMA Product ==
  ASSUME NEW a \in Nat, NEW b \in Nat
  PROVE  a * b \in Nat
  OBVIOUS

(***************************************************************************)
(* Nothing is added only if no time has passed.                            *)
(***************************************************************************)
LEMMA NoProduct ==
  ASSUME NEW a \in Nat, NEW b \in Nat \ {0}
  PROVE  a * b = 0 => a = 0
  OBVIOUS

(***************************************************************************)
(* refill_tokens(): the bucket gets what the rate gives, up to its         *)
(* capacity, and remembers the moment, also when nothing is added: then no *)
(* time has passed.                                                        *)
(***************************************************************************)
LEMMA RefillIs ==
  ASSUME NEW l \in Limiters, NEW t \in Nat,
         l.tokens <= l.burst * Second, l.last <= t
  PROVE  LET r == Refill(l, t)
             all == l.tokens + (t - l.last) * l.rate
         IN  /\ r \in Limiters
             /\ r.filled = l.filled /\ r.rate = l.rate /\ r.burst = l.burst
             /\ r.last = t
             /\ r.tokens <= l.burst * Second /\ r.tokens <= all
             /\ r.tokens = all \/ r.tokens = l.burst * Second
  <1> DEFINE add == (t - l.last) * l.rate
             cap == l.burst * Second
  <1>1. cap \in Nat /\ add \in Nat /\ l.tokens \in Nat /\ l.last \in Nat /\ (add = 0 => l.last = t)
    <2>1. t - l.last \in Nat /\ l.rate \in Nat \ {0} /\ l.burst \in Nat /\ Second \in Nat /\ l.tokens \in Nat /\ l.last \in Nat
      BY RateAssumption DEF Limiters
    <2>2. add = 0 => t - l.last = 0
      BY <2>1, NoProduct
    <2>3. QED
      BY <2>1, <2>2, Product
  <1>2. Refill(l, t) = IF add > 0
                       THEN [l EXCEPT !.tokens = IF l.tokens + add < cap THEN l.tokens + add ELSE cap,
                                      !.last = t]
                       ELSE l
    BY DEF Refill
  <1> HIDE DEF add, cap
  <1>3. /\ l.tokens <= cap
        /\ LET r == Refill(l, t)
         IN  /\ r \in Limiters
             /\ r.filled = l.filled /\ r.rate = l.rate /\ r.burst = l.burst
             /\ r.last = t
             /\ r.tokens <= cap /\ r.tokens <= l.tokens + add
             /\ r.tokens = l.tokens + add \/ r.tokens = cap
    <2>1. l.tokens <= cap
      BY DEF cap
    <2>2. CASE add > 0
      <3>1. PICK n \in Nat : /\ Refill(l, t) = [l EXCEPT !.tokens = n, !.last = t]
                             /\ n <= cap /\ n <= l.tokens + add
                             /\ n = l.tokens + add \/ n = cap
        <4> DEFINE n == IF l.tokens + add < cap THEN l.tokens + add ELSE cap
        <4>1. n \in Nat /\ n <= cap /\ n <= l.tokens + add /\ (n = l.tokens + add \/ n = cap)
          BY <1>1
        <4>2. Refill(l, t) = [l EXCEPT !.tokens = n, !.last = t]
          BY <1>2, <2>2
        <4> HIDE DEF n
        <4>3. QED
          BY <4>1, <4>2
      <3>2. QED
        BY <2>1, <3>1 DEF Limiters
    <2>3. CASE add = 0
      BY <1>1, <1>2, <2>1, <2>3
    <2>4. QED
      BY <1>1, <2>2, <2>3
  <1>4. QED
    BY <1>3 DEF add, cap

(***************************************************************************)
(* The bucket that a request finds: refilled, or made with all its tokens  *)
(***************************************************************************)
LEMMA ReadyIs ==
  ASSUME NEW l, NEW s \in Nat, NEW t \in Nat, s <= t, Sound(l, s)
  PROVE  LET b == Limiter(l)
             r == Ready(l, t)
             all == b.tokens + (t - b.last) * b.rate
         IN  /\ r \in Limiters
             /\ r.filled /\ r.rate = b.rate /\ r.burst = b.burst /\ r.last = t
             /\ r.tokens <= b.burst * Second
             /\ b.filled => r.tokens <= all
             /\ (b.filled /\ r.tokens = all) \/ r.tokens = b.burst * Second
  <1> DEFINE b == Limiter(l)
             w == WithBucket(b, t)
             cap == b.burst * Second
  <1>1. b \in Limiters /\ (b.filled => b.tokens <= cap /\ b.last <= s)
    BY LimiterSound
  <1>2. cap \in Nat
    BY <1>1, RateAssumption, Product DEF Limiters
  <1>3. /\ w \in Limiters /\ w.filled /\ w.rate = b.rate /\ w.burst = b.burst
        /\ w.tokens <= cap /\ w.last <= t
        /\ b.filled => w = b
        /\ ~b.filled => w.tokens = cap /\ w.last = t
    <2> HIDE DEF cap, b
    <2>1. CASE b.filled
      <3>1. w = b
        BY <2>1 DEF WithBucket
      <3>2. b.last <= t
        BY <1>1, <2>1 DEF Limiters
      <3>3. QED
        BY <1>1, <2>1, <3>1, <3>2
    <2>2. CASE ~b.filled
      <3>1. w = [b EXCEPT !.filled = TRUE, !.tokens = cap, !.last = t]
        BY <2>2 DEF WithBucket, cap
      <3>2. w \in Limiters
        BY <1>1, <1>2, <3>1 DEF Limiters
      <3>3. w.filled /\ w.rate = b.rate /\ w.burst = b.burst /\ w.tokens = cap /\ w.last = t
        BY <1>1, <3>1 DEF Limiters
      <3>4. QED
        BY <1>2, <2>2, <3>2, <3>3
    <2>3. QED
      BY <2>1, <2>2
  <1>4. Ready(l, t) = Refill(w, t)
    BY DEF Ready
  <1> HIDE DEF w, b
  <1>5. w.tokens <= w.burst * Second
    BY <1>3
  <1>6. LET r == Refill(w, t)
            all == w.tokens + (t - w.last) * w.rate
        IN  /\ r \in Limiters
            /\ r.filled = w.filled /\ r.rate = w.rate /\ r.burst = w.burst
            /\ r.last = t
            /\ r.tokens <= w.burst * Second /\ r.tokens <= all
            /\ r.tokens = all \/ r.tokens = w.burst * Second
    BY <1>3, <1>5, RefillIs
  <1>7. CASE b.filled
    BY <1>3, <1>4, <1>6, <1>7 DEF b
  <1>8. CASE ~b.filled
    <2>1. (t - w.last) * w.rate = 0
      BY <1>3, <1>8 DEF Limiters
    <2> DEFINE r == Refill(w, t)
    <2>2. r.tokens = cap
      <3>1. w.tokens + (t - w.last) * w.rate = cap
        BY <1>2, <1>3, <1>8, <2>1
      <3>2. w.burst * Second = cap
        BY <1>3
      <3>3. QED
        BY <1>6, <3>1, <3>2
    <2>3. r \in Limiters /\ r.filled /\ r.rate = b.rate /\ r.burst = b.burst /\ r.last = t
      BY <1>3, <1>6
    <2>4. cap <= cap
      BY <1>2
    <2> HIDE DEF r
    <2>5. QED
      BY <1>4, <1>8, <2>2, <2>3, <2>4 DEF r, b
  <1>9. QED
    BY <1>7, <1>8

(***************************************************************************)
(* allow_request() takes one token if there is one, and none otherwise.    *)
(***************************************************************************)
LEMMA AllowIs ==
  ASSUME NEW l, NEW s \in Nat, NEW t \in Nat, s <= t, Sound(l, s)
  PROVE  LET a == AllowRequest(l, t)
             r == Ready(l, t)
         IN  /\ a \in Limiters
             /\ a.filled /\ a.rate = r.rate /\ a.burst = r.burst /\ a.last = t
             /\ Admits(l, t) => a.tokens + Second = r.tokens
             /\ ~Admits(l, t) => a.tokens = r.tokens
             /\ a.tokens <= a.burst * Second
  <1> DEFINE r == Ready(l, t)
             cap == r.burst * Second
  <1>1. r \in Limiters /\ r.filled /\ r.last = t /\ r.tokens <= cap
    BY ReadyIs
  <1>2. AllowRequest(l, t) = IF Admits(l, t) THEN [r EXCEPT !.tokens = @ - Second] ELSE r
    BY DEF AllowRequest
  <1>3. Admits(l, t) => r.tokens >= Second
    BY DEF Admits
  <1>4. cap \in Nat /\ Second \in Nat
    BY <1>1, RateAssumption, Product DEF Limiters
  <1> HIDE DEF r
  <1>5. CASE Admits(l, t)
    <2>1. PICK n \in Nat : n + Second = r.tokens /\ n = r.tokens - Second
      BY <1>1, <1>3, <1>4, <1>5 DEF Limiters
    <2>2. AllowRequest(l, t) = [r EXCEPT !.tokens = n]
      BY <1>2, <1>5, <2>1
    <2> DEFINE a == AllowRequest(l, t)
    <2>3. a \in Limiters
      BY <1>1, <2>1, <2>2 DEF Limiters
    <2>4. a.filled /\ a.rate = r.rate /\ a.burst = r.burst /\ a.last = t /\ a.tokens = n
      BY <1>1, <2>2 DEF Limiters
    <2>5. r.tokens \in Nat
      BY <1>1 DEF Limiters
    <2>6. n <= cap
      BY <1>1, <1>4, <2>1, <2>5
    <2> HIDE DEF a
    <2>7. QED
      BY <1>5, <2>1, <2>3, <2>4, <2>6 DEF a, r
  <1>6. CASE ~Admits(l, t)
    BY <1>1, <1>2, <1>6 DEF r
  <1>7. QED
    BY <1>5, <1>6

(***************************************************************************)
(* Every call leaves a sound limiter, or none.                             *)
(***************************************************************************)
LEMMA AfterSound ==
  ASSUME NEW l, NEW s \in Nat, Sound(l, s), NEW c \in LimiterCalls, s <= c.at
  PROVE  Sound(AfterCall(l, c), c.at)
  <1>1. /\ c.op \in {"allow", "set", "remove", "reset"}
        /\ c.rate \in Int /\ c.burst \in Nat /\ c.at \in Nat
    BY DEF LimiterCalls
  <1>2. CASE c.op = "allow"
    <2>1. AfterCall(l, c) = AllowRequest(l, c.at)
      BY <1>2 DEF AfterCall
    <2> DEFINE a == AllowRequest(l, c.at)
    <2>2. a \in Limiters /\ a.last = c.at /\ a.tokens <= a.burst * Second
      BY <1>1, AllowIs
    <2> HIDE DEF a
    <2>3. QED
      BY <1>1, <2>1, <2>2 DEF Sound, a
  <1>3. CASE c.op = "set"
    <2>1. AfterCall(l, c) = NewLimiter(c.rate, c.burst)
      BY <1>3 DEF AfterCall
    <2>2. QED
      BY <1>1, <2>1, NewLimiterType DEF Sound
  <1>4. CASE c.op = "remove"
    <2>1. AfterCall(l, c) = NoLimiter
      BY <1>4 DEF AfterCall
    <2>2. QED
      BY <2>1 DEF Sound
  <1>5. CASE c.op = "reset"
    <2>1. AfterCall(l, c) = IF l = NoLimiter THEN l ELSE ResetBucket(l)
      BY <1>5 DEF AfterCall
    <2>2. CASE l = NoLimiter
      BY <2>1, <2>2 DEF Sound
    <2>3. CASE l # NoLimiter
      <3>1. l \in Limiters
        BY <2>3 DEF Sound
      <3>2. ResetBucket(l) \in Limiters /\ ~ResetBucket(l).filled
        BY <3>1 DEF ResetBucket, Limiters
      <3>3. QED
        BY <2>1, <2>3, <3>2 DEF Sound
    <2>4. QED
      BY <2>2, <2>3
  <1>6. QED
    BY <1>1, <1>2, <1>3, <1>4, <1>5

\* The calls on the limiter of a tunnel, in the order of the mutex
Ordered(calls) ==
  /\ calls \in Seq(LimiterCalls)
  /\ \A i \in 2..Len(calls) : calls[i - 1].at <= calls[i].at

\* the moment of the i-th call; the limiter before the first one is of no age
Moment(calls, i) == IF i = 0 THEN 0 ELSE calls[i].at

(***************************************************************************)
(* Calls come one after the other.                                         *)
(***************************************************************************)
LEMMA MomentsRise ==
  ASSUME NEW calls, Ordered(calls), NEW i \in 1..Len(calls)
  PROVE  /\ calls[i] \in LimiterCalls
         /\ Moment(calls, i - 1) \in Nat /\ Moment(calls, i) \in Nat
         /\ Moment(calls, i) = calls[i].at
         /\ Moment(calls, i - 1) <= Moment(calls, i)
  <1>1. \A k \in 1..Len(calls) : calls[k] \in LimiterCalls
    BY DEF Ordered
  <1>2. \A k \in 1..Len(calls) : calls[k].at \in Nat
    BY <1>1 DEF LimiterCalls
  <1>3. Len(calls) \in Nat
    BY DEF Ordered
  <1>4. CASE i = 1
    BY <1>1, <1>2, <1>4 DEF Moment
  <1>5. CASE i # 1
    <2>1. i \in 2..Len(calls) /\ i - 1 \in 1..Len(calls) /\ i - 1 # 0 /\ i # 0
      BY <1>3, <1>5
    <2>2. calls[i - 1].at <= calls[i].at
      BY <2>1 DEF Ordered
    <2>3. QED
      BY <1>1, <1>2, <2>1, <2>2 DEF Moment
  <1>6. QED
    BY <1>4, <1>5

(***************************************************************************)
(* The limiter before the first call, and after each call                  *)
(***************************************************************************)
LEMMA HistoryStep ==
  ASSUME NEW calls, Ordered(calls)
  PROVE  /\ History(calls)[0] = NoLimiter
         /\ \A i \in 1..Len(calls) :
              History(calls)[i] = AfterCall(History(calls)[i - 1], calls[i])
  <1> DEFINE H == History(calls)
  <1>1. Len(calls) \in Nat
    BY DEF Ordered
  <1>2. H = [i \in 0..Len(calls) |-> IF i = 0 THEN NoLimiter ELSE AfterCall(H[i - 1], calls[i])]
    BY <1>1, HistoryIs
  <1> HIDE DEF H
  <1>3. \A i \in 0..Len(calls) : H[i] = IF i = 0 THEN NoLimiter ELSE AfterCall(H[i - 1], calls[i])
    BY <1>2
  <1>4. QED
    BY <1>1, <1>3 DEF H

(***************************************************************************)
(* The limiter is sound at every moment of a history.                      *)
(***************************************************************************)
LEMMA HistorySound ==
  ASSUME NEW calls, Ordered(calls)
  PROVE  \A i \in 0..Len(calls) : Sound(History(calls)[i], Moment(calls, i))
  <1> DEFINE Bad == {i \in 0..Len(calls) : ~Sound(History(calls)[i], Moment(calls, i))}
  <1> SUFFICES ASSUME Bad # {} PROVE FALSE
    OBVIOUS
  <1>1. Len(calls) \in Nat
    BY DEF Ordered
  <1>2. Bad \in SUBSET Nat
    BY <1>1
  <1>3. PICK i \in Bad : \A k \in Bad : i <= k
    BY <1>2, LeastOf
  <1>4. i # 0
    <2>1. Sound(History(calls)[0], Moment(calls, 0))
      BY HistoryStep DEF Sound
    <2>2. QED
      BY <1>3, <2>1
  <1>5. i \in 1..Len(calls) /\ i - 1 \in 0..Len(calls) /\ ~(i <= i - 1)
    BY <1>1, <1>2, <1>3, <1>4
  <1>6. Sound(History(calls)[i - 1], Moment(calls, i - 1))
    BY <1>3, <1>5
  <1>7. Sound(History(calls)[i], Moment(calls, i))
    <2>1. History(calls)[i] = AfterCall(History(calls)[i - 1], calls[i])
      BY <1>5, HistoryStep
    <2>2. /\ calls[i] \in LimiterCalls /\ Moment(calls, i - 1) \in Nat
          /\ Moment(calls, i) = calls[i].at /\ Moment(calls, i - 1) <= calls[i].at
      BY <1>5, MomentsRise
    <2>3. Sound(AfterCall(History(calls)[i - 1], calls[i]), calls[i].at)
      BY <1>6, <2>2, AfterSound
    <2>4. QED
      BY <2>1, <2>2, <2>3
  <1>8. QED
    BY <1>3, <1>7

\* The k-th call asks for admission and gets it.
Allowed(calls, k) == calls[k].op = "allow" /\ Admits(History(calls)[k - 1], calls[k].at)

\* the calls from the i-th to the m-th that were admitted
AdmittedIn(calls, i, m) == {k \in i..m : Allowed(calls, k)}

\* After the m-th call, in a run of allow_request() from the i-th on: what was
\* admitted and what is left in the bucket are within the burst and what the
\* rate gave.
Spent(calls, i, m) ==
  LET h == History(calls)[i]
      l == History(calls)[m]
  IN  /\ l \in Limiters
      /\ l.filled /\ l.rate = h.rate /\ l.burst = h.burst /\ l.last = calls[m].at
      /\ Cardinality(AdmittedIn(calls, i, m)) \in Nat
      /\ Cardinality(AdmittedIn(calls, i, m)) * Second + l.tokens
           <= h.burst * Second + (calls[m].at - calls[i].at) * h.rate

(***************************************************************************)
(* One call more is counted if it is admitted.                             *)
(***************************************************************************)
LEMMA Admitting ==
  ASSUME NEW calls, NEW i \in Nat, NEW m \in Nat, i <= m
  PROVE  /\ IsFiniteSet(AdmittedIn(calls, i, m))
         /\ Cardinality(AdmittedIn(calls, i, m)) \in Nat
         /\ AdmittedIn(calls, i, i) = IF Allowed(calls, i) THEN {i} ELSE {}
         /\ Cardinality(AdmittedIn(calls, i, m + 1)) =
              Cardinality(AdmittedIn(calls, i, m)) + (IF Allowed(calls, m + 1) THEN 1 ELSE 0)
  <1> DEFINE A == AdmittedIn(calls, i, m)
  <1>1. IsFiniteSet(A)
    <2>1. IsFiniteSet(i..m)
      BY FS_Interval
    <2>2. A \subseteq i..m
      BY DEF AdmittedIn
    <2>3. QED
      BY <2>1, <2>2, FS_Subset
  <1>2. Cardinality(A) \in Nat
    BY <1>1, FS_CardinalityType
  <1>3. AdmittedIn(calls, i, i) = IF Allowed(calls, i) THEN {i} ELSE {}
    BY DEF AdmittedIn
  <1>4. i..(m + 1) = (i..m) \cup {m + 1}
    OBVIOUS
  <1>5. CASE Allowed(calls, m + 1)
    <2>1. AdmittedIn(calls, i, m + 1) = A \cup {m + 1}
      BY <1>4, <1>5 DEF AdmittedIn
    <2>2. m + 1 \notin A
      BY DEF AdmittedIn
    <2> HIDE DEF A
    <2>3. Cardinality(A \cup {m + 1}) = Cardinality(A) + 1
      BY <1>1, <2>2, FS_AddElement
    <2>4. QED
      BY <1>1, <1>2, <1>3, <1>5, <2>1, <2>3 DEF A
  <1>6. CASE ~Allowed(calls, m + 1)
    <2>1. AdmittedIn(calls, i, m + 1) = A
      BY <1>4, <1>6 DEF AdmittedIn
    <2> HIDE DEF A
    <2>2. QED
      BY <1>1, <1>2, <1>3, <1>6, <2>1 DEF A
  <1>7. QED
    BY <1>5, <1>6

(***************************************************************************)
(* One call of allow_request() in a history: which limiter it meets, what  *)
(* it finds in the bucket, and what it leaves there.                       *)
(***************************************************************************)
LEMMA AllowCosts ==
  ASSUME NEW calls, Ordered(calls), NEW k \in 1..Len(calls), calls[k].op = "allow"
  PROVE  LET g == History(calls)[k - 1]
             b == Limiter(g)
             r == Ready(g, calls[k].at)
             l == History(calls)[k]
         IN  /\ calls[k].at \in Nat
             /\ l \in Limiters /\ l.filled /\ l.last = calls[k].at
             /\ l.rate = b.rate /\ l.burst = b.burst
             /\ l.tokens + (IF Allowed(calls, k) THEN Second ELSE 0) = r.tokens
             /\ r \in Limiters /\ r.tokens <= l.burst * Second
             /\ b \in Limiters
             /\ g # NoLimiter => b = g
             /\ b.filled => r.tokens <= b.tokens + (calls[k].at - b.last) * b.rate
             /\ \/ b.filled /\ r.tokens = b.tokens + (calls[k].at - b.last) * b.rate
                \/ r.tokens = l.burst * Second
  <1> DEFINE g == History(calls)[k - 1]
             s == Moment(calls, k - 1)
             t == calls[k].at
  <1>1. s \in Nat /\ t \in Nat /\ s <= t
    BY MomentsRise
  <1>2. Sound(g, s)
    <2>1. k - 1 \in 0..Len(calls)
      BY DEF Ordered
    <2>2. QED
      BY <2>1, HistorySound
  <1>3. History(calls)[k] = AllowRequest(g, t)
    BY HistoryStep DEF AfterCall
  <1>4. Allowed(calls, k) <=> Admits(g, t)
    BY DEF Allowed
  <1> HIDE DEF g, s, t
  <1>5. Limiter(g) \in Limiters /\ (g # NoLimiter => Limiter(g) = g)
    BY <1>1, <1>2, LimiterSound
  <1>6. LET b == Limiter(g)
            r == Ready(g, t)
            all == b.tokens + (t - b.last) * b.rate
        IN  /\ r \in Limiters
            /\ r.filled /\ r.rate = b.rate /\ r.burst = b.burst /\ r.last = t
            /\ r.tokens <= b.burst * Second
            /\ b.filled => r.tokens <= all
            /\ (b.filled /\ r.tokens = all) \/ r.tokens = b.burst * Second
    BY <1>1, <1>2, ReadyIs
  <1>7. LET a == AllowRequest(g, t)
            r == Ready(g, t)
        IN  /\ a \in Limiters
            /\ a.filled /\ a.rate = r.rate /\ a.burst = r.burst /\ a.last = t
            /\ Admits(g, t) => a.tokens + Second = r.tokens
            /\ ~Admits(g, t) => a.tokens = r.tokens
    BY <1>1, <1>2, AllowIs
  <1> DEFINE b == Limiter(g)
             r == Ready(g, t)
             l == AllowRequest(g, t)
  <1>8. l.tokens + (IF Admits(g, t) THEN Second ELSE 0) = r.tokens
    <2>1. l.tokens \in Nat
      BY <1>7 DEF Limiters
    <2> HIDE DEF l, r
    <2>2. QED
      BY <1>7, <2>1 DEF l, r
  <1> HIDE DEF b, r, l
  <1>9. QED
    BY <1>1, <1>3, <1>4, <1>5, <1>6, <1>7, <1>8 DEF g, t, b, r, l

(***************************************************************************)
(* The first of a run of calls meets at most a full bucket.                *)
(***************************************************************************)
LEMMA SpentFirst ==
  ASSUME NEW calls, Ordered(calls), NEW i \in 1..Len(calls), calls[i].op = "allow"
  PROVE  Spent(calls, i, i)
  <1> DEFINE l == History(calls)[i]
             r == Ready(History(calls)[i - 1], calls[i].at)
             n == Cardinality(AdmittedIn(calls, i, i))
  <1>1. /\ calls[i].at \in Nat
        /\ l \in Limiters /\ l.filled /\ l.last = calls[i].at
        /\ l.tokens + (IF Allowed(calls, i) THEN Second ELSE 0) = r.tokens
        /\ r.tokens <= l.burst * Second
    BY AllowCosts
  <1>2. n = IF Allowed(calls, i) THEN 1 ELSE 0
    <2>1. i \in Nat /\ i <= i
      OBVIOUS
    <2>2. AdmittedIn(calls, i, i) = IF Allowed(calls, i) THEN {i} ELSE {}
      BY <2>1, Admitting
    <2>3. QED
      BY <2>2, FS_EmptySet, FS_Singleton
  <1>3. l.tokens \in Nat /\ l.rate \in Nat /\ l.burst * Second \in Nat /\ Second \in Nat
    BY <1>1, RateAssumption, Product DEF Limiters
  <1>4. n * Second + l.tokens = r.tokens
    <2> HIDE DEF l, r, n
    <2>1. CASE Allowed(calls, i)
      BY <1>1, <1>2, <1>3, <2>1
    <2>2. CASE ~Allowed(calls, i)
      BY <1>1, <1>2, <1>3, <2>2
    <2>3. QED
      BY <2>1, <2>2
  <1>5. (calls[i].at - calls[i].at) * l.rate = 0
    BY <1>1, <1>3
  <1>6. n * Second + l.tokens <= l.burst * Second + (calls[i].at - calls[i].at) * l.rate
    <2> HIDE DEF l, r, n
    <2>1. QED
      BY <1>1, <1>3, <1>4, <1>5
  <1>7. n \in Nat
    BY <1>2
  <1>8. QED
    BY <1>1, <1>6, <1>7 DEF Spent

(***************************************************************************)
(* Time adds up.                                                           *)
(***************************************************************************)
LEMMA Rearranged ==
  ASSUME NEW a \in Nat, NEW b \in Nat, NEW c \in Nat, NEW r \in Nat
  PROVE  (b - a) * r + (c - b) * r = (c - a) * r
  OBVIOUS

(***************************************************************************)
(* What was spent and what is left, one call later                         *)
(***************************************************************************)
LEMMA Balance ==
  ASSUME NEW n \in Int, NEW g \in Int, NEW b \in Int, NEW old \in Int, NEW r \in Int,
         NEW add \in Int, NEW q \in Int, NEW l \in Int, NEW y \in Int,
         n + g <= b + old, r <= g + add, q + l = n + r, old + add = y
  PROVE  q + l <= b + y
  OBVIOUS

(***************************************************************************)
(* A capacity of one token at least                                        *)
(***************************************************************************)
LEMMA AtLeastOne ==
  ASSUME NEW c \in Nat \ {0}, NEW s \in Nat
  PROVE  c * s >= s
  <1>1. PICK d \in Nat : c = d + 1
    OBVIOUS
  <1>2. (d + 1) * s = d * s + s
    OBVIOUS
  <1>3. d * s \in Nat
    BY Product
  <1>4. d * s + s >= s
    BY <1>3
  <1>5. QED
    BY <1>1, <1>2, <1>4

(***************************************************************************)
(* The next call of a run takes no more than the bucket had and the rate   *)
(* gave since the last one.                                                *)
(***************************************************************************)
LEMMA SpentStep ==
  ASSUME NEW calls, Ordered(calls), NEW i \in 1..Len(calls), NEW m \in i..Len(calls),
         m + 1 \in 1..Len(calls), calls[i].at \in Nat, calls[m].at \in Nat,
         calls[m + 1].op = "allow", Spent(calls, i, m)
  PROVE  Spent(calls, i, m + 1)
  <1> DEFINE h == History(calls)[i]
             g == History(calls)[m]
             l == History(calls)[m + 1]
             r == Ready(g, calls[m + 1].at)
             n == Cardinality(AdmittedIn(calls, i, m))
             q == Cardinality(AdmittedIn(calls, i, m + 1))
             add == (calls[m + 1].at - calls[m].at) * h.rate
             old == (calls[m].at - calls[i].at) * h.rate
  <1>1. /\ g \in Limiters /\ g.filled /\ g.rate = h.rate /\ g.burst = h.burst
        /\ g.last = calls[m].at
        /\ n \in Nat /\ n * Second + g.tokens <= h.burst * Second + old
    BY DEF Spent
  <1>2. g # NoLimiter
    BY <1>1 DEF Limiters, NoLimiter
  <1>3. m \in Nat /\ i \in Nat /\ i <= m /\ (m + 1) - 1 = m
    OBVIOUS
  <1>4. /\ calls[m + 1].at \in Nat
        /\ l \in Limiters /\ l.filled /\ l.last = calls[m + 1].at
        /\ l.rate = g.rate /\ l.burst = g.burst
        /\ l.tokens + (IF Allowed(calls, m + 1) THEN Second ELSE 0) = r.tokens
        /\ r.tokens <= g.tokens + (calls[m + 1].at - g.last) * g.rate
    <2> DEFINE k == m + 1
    <2>1. k \in 1..Len(calls) /\ k - 1 = m
      BY <1>3
    <2>2. calls[k].op = "allow"
      OBVIOUS
    <2> HIDE DEF k
    <2>3. LET f == History(calls)[k - 1]
              b == Limiter(f)
              s == Ready(f, calls[k].at)
              z == History(calls)[k]
          IN  /\ calls[k].at \in Nat
              /\ z \in Limiters /\ z.filled /\ z.last = calls[k].at
              /\ z.rate = b.rate /\ z.burst = b.burst
              /\ z.tokens + (IF Allowed(calls, k) THEN Second ELSE 0) = s.tokens
              /\ f # NoLimiter => b = f
              /\ b.filled => s.tokens <= b.tokens + (calls[k].at - b.last) * b.rate
      BY <2>1, <2>2, AllowCosts
    <2>4. Limiter(g) = g
      BY <1>2, <2>1, <2>3
    <2>5. QED
      BY <1>1, <2>1, <2>3, <2>4 DEF k
  <1>5. q = n + (IF Allowed(calls, m + 1) THEN 1 ELSE 0)
    BY <1>3, Admitting
  <1>6. r.tokens <= g.tokens + add
    BY <1>1, <1>4
  <1>7. /\ g.tokens \in Nat /\ l.tokens \in Nat /\ h.rate \in Nat /\ h.burst * Second \in Nat
        /\ Second \in Nat
    BY <1>1, <1>4, RateAssumption, Product DEF Limiters
  <1>8. add \in Int /\ old \in Int /\ old + add = (calls[m + 1].at - calls[i].at) * h.rate
    <2>1. calls[m + 1].at \in Nat /\ h.rate \in Nat
      BY <1>4, <1>7
    <2>2. (calls[m].at - calls[i].at) * h.rate + (calls[m + 1].at - calls[m].at) * h.rate
            = (calls[m + 1].at - calls[i].at) * h.rate
      <3> DEFINE a == calls[i].at
                 b == calls[m].at
                 c == calls[m + 1].at
                 rate == h.rate
      <3>1. a \in Nat /\ b \in Nat /\ c \in Nat /\ rate \in Nat
        BY <2>1
      <3> HIDE DEF a, b, c, rate
      <3>2. (b - a) * rate + (c - b) * rate = (c - a) * rate
        BY <3>1, Rearranged
      <3>3. QED
        BY <3>2 DEF a, b, c, rate
    <2>3. calls[m + 1].at - calls[m].at \in Int /\ calls[m].at - calls[i].at \in Int
      BY <2>1
    <2> HIDE DEF h
    <2>4. QED
      BY <2>1, <2>2, <2>3
  <1>9. q * Second + l.tokens = n * Second + r.tokens
    <2> HIDE DEF n, q, l, r
    <2>1. CASE Allowed(calls, m + 1)
      <3>1. q = n + 1 /\ (n + 1) * Second = n * Second + Second
        BY <1>1, <1>5, <1>7, <2>1
      <3>2. n * Second \in Nat
        BY <1>1, <1>7, Product
      <3>3. QED
        BY <1>4, <1>7, <2>1, <3>1, <3>2
    <2>2. CASE ~Allowed(calls, m + 1)
      BY <1>1, <1>4, <1>5, <1>7, <2>2
    <2>3. QED
      BY <2>1, <2>2
  <1>10. q * Second + l.tokens <= h.burst * Second + (calls[m + 1].at - calls[i].at) * h.rate
    <2> DEFINE x1 == n * Second
               x2 == h.burst * Second
               y == (calls[m + 1].at - calls[i].at) * h.rate
               z == q * Second
    <2>1. x1 \in Nat /\ x1 + g.tokens <= x2 + old /\ x2 \in Nat
      BY <1>1, <1>7, Product
    <2>2. r.tokens \in Int /\ z \in Int
      <3>1. q \in Nat
        BY <1>1, <1>5
      <3>2. z \in Nat
        BY <1>7, <3>1, Product
      <3>3. (IF Allowed(calls, m + 1) THEN Second ELSE 0) \in Nat
        BY <1>7
      <3>4. QED
        BY <1>4, <1>7, <3>2, <3>3
    <2>3. z + l.tokens = x1 + r.tokens
      BY <1>9
    <2>4. old + add = y
      BY <1>8
    <2>5. y \in Int
      BY <1>8
    <2> HIDE DEF x1, x2, y, z, old, add, g, l, r, h
    <2>6. /\ g.tokens \in Int /\ l.tokens \in Int /\ x1 \in Int /\ x2 \in Int
          /\ add \in Int /\ old \in Int
      <3>1. g.tokens \in Int /\ l.tokens \in Int /\ x1 \in Int /\ x2 \in Int
        BY ONLY <1>7, <2>1
      <3>2. QED
        BY ONLY <1>8, <3>1
    <2> DEFINE gt == g.tokens
               lt == l.tokens
               rt == r.tokens
    <2>7. /\ x1 + gt <= x2 + old /\ rt <= gt + add /\ z + lt = x1 + rt /\ old + add = y
          /\ gt \in Int /\ lt \in Int /\ rt \in Int
      BY <1>6, <2>1, <2>2, <2>3, <2>4, <2>6
    <2> HIDE DEF gt, lt, rt
    <2>8. z + lt <= x2 + y
      BY <2>2, <2>5, <2>6, <2>7, Balance
    <2>9. z + l.tokens <= x2 + y
      BY <2>8 DEF lt
    <2>10. QED
      BY <2>9 DEF x2, y, z
  <1>11. q \in Nat
    BY <1>1, <1>5
  <1>12. QED
    BY <1>1, <1>4, <1>10, <1>11 DEF Spent

(***************************************************************************)
(* So it goes for the whole run, however long it is.                       *)
(***************************************************************************)
LEMMA SpentAlways ==
  ASSUME NEW calls, Ordered(calls), NEW i \in 1..Len(calls), NEW j \in i..Len(calls),
         \A k \in i..j : calls[k].op = "allow"
  PROVE  \A m \in i..j : Spent(calls, i, m)
  <1> DEFINE Bad == {m \in i..j : ~Spent(calls, i, m)}
  <1> SUFFICES ASSUME Bad # {} PROVE FALSE
    OBVIOUS
  <1>1. Len(calls) \in Nat
    BY DEF Ordered
  <1>2. PICK m \in Bad : \A k \in Bad : m <= k
    <2>1. Bad \in SUBSET Nat
      OBVIOUS
    <2>2. QED
      BY <2>1, LeastOf
  <1>3. m # i
    <2>1. i \in i..j
      OBVIOUS
    <2>2. Spent(calls, i, i)
      BY <2>1, SpentFirst
    <2>3. QED
      BY <1>2, <2>2
  <1>4. PICK k \in i..Len(calls) : k \in i..j /\ m = k + 1 /\ k + 1 \in 1..Len(calls)
    BY <1>1, <1>2, <1>3
  <1>5. Spent(calls, i, k)
    <2>1. ~(m <= k)
      BY <1>4
    <2>2. QED
      BY <1>2, <1>4, <2>1
  <1>6. calls[i].at \in Nat /\ calls[k].at \in Nat
    <2>1. k \in 1..Len(calls)
      BY <1>4
    <2>2. QED
      BY <2>1, MomentsRise
  <1>7. calls[k + 1].op = "allow"
    BY <1>2, <1>4
  <1>8. Spent(calls, i, k + 1)
    BY <1>4, <1>5, <1>6, <1>7, SpentStep
  <1>9. QED
    BY <1>2, <1>4, <1>8

(***************************************************************************)
(* check_limit() gives the answer that allow_request() is about to give,   *)
(* also for a limiter that has no bucket yet.                              *)
(***************************************************************************)
LEMMA CheckAgrees ==
  ASSUME NEW calls, Ordered(calls), NEW i \in 1..Len(calls), calls[i].op = "allow",
         History(calls)[i - 1] # NoLimiter
  PROVE  CheckLimit(History(calls)[i - 1], calls[i].at) <=> Allowed(calls, i)
  <1> DEFINE g == History(calls)[i - 1]
             t == calls[i].at
             r == Ready(g, t)
  <1>1. Limiter(g) = g /\ g \in Limiters /\ r \in Limiters
        /\ (~g.filled => r.tokens = History(calls)[i].burst * Second)
        /\ History(calls)[i] \in Limiters
    BY AllowCosts
  <1>2. Allowed(calls, i) <=> r.tokens >= Second
    BY DEF Allowed, Admits
  <1>3. CASE g.filled
    <2>1. r = Refill(g, t)
      BY <1>1, <1>3 DEF Ready, WithBucket
    <2>2. CheckLimit(g, t) <=> Refill(g, t).tokens >= Second
      BY <1>3 DEF CheckLimit
    <2>3. QED
      BY <1>2, <2>1, <2>2
  <1>4. CASE ~g.filled
    <2>1. CheckLimit(g, t)
      BY <1>4 DEF CheckLimit
    <2>2. PICK c \in Nat \ {0} : c = History(calls)[i].burst
      BY <1>1 DEF Limiters
    <2>3. c * Second >= Second
      BY <2>2, RateAssumption, AtLeastOne
    <2>4. r.tokens >= Second
      BY <1>1, <1>4, <2>2, <2>3
    <2>5. QED
      BY <1>2, <2>1, <2>4
  <1>5. QED
    BY <1>3, <1>4

(***************************************************************************)
(* A request that comes a token's time after the last is admitted.         *)
(***************************************************************************)
LEMMA NextAdmitted ==
  ASSUME NEW calls, Ordered(calls), NEW i \in 1..Len(calls), i + 1 \in 1..Len(calls),
         calls[i].op = "allow", calls[i + 1].op = "allow",
         (calls[i + 1].at - calls[i].at) * History(calls)[i].rate >= Second
  PROVE  Allowed(calls, i + 1)
  <1> DEFINE g == History(calls)[i]
             t == calls[i + 1].at
             r == Ready(g, t)
             l == History(calls)[i + 1]
             add == (t - calls[i].at) * g.rate
  <1>1. g \in Limiters /\ g.filled /\ g.last = calls[i].at
    BY AllowCosts
  <1>2. g # NoLimiter
    BY <1>1 DEF Limiters, NoLimiter
  <1>3. /\ l \in Limiters
        /\ r.tokens = g.tokens + (t - g.last) * g.rate \/ r.tokens = l.burst * Second
    <2> DEFINE k == i + 1
    <2>1. k \in 1..Len(calls) /\ k - 1 = i /\ calls[k].op = "allow"
      OBVIOUS
    <2> HIDE DEF k
    <2>2. LET f == History(calls)[k - 1]
              b == Limiter(f)
              s == Ready(f, calls[k].at)
              z == History(calls)[k]
          IN  /\ z \in Limiters
              /\ f # NoLimiter => b = f
              /\ \/ b.filled /\ s.tokens = b.tokens + (calls[k].at - b.last) * b.rate
                 \/ s.tokens = z.burst * Second
      BY <2>1, AllowCosts
    <2>3. QED
      BY <1>2, <2>1, <2>2 DEF k
  <1>4. r.tokens >= Second
    <2>1. CASE r.tokens = l.burst * Second
      <3>1. PICK c \in Nat \ {0} : c = l.burst
        BY <1>3 DEF Limiters
      <3>2. c * Second >= Second
        BY <3>1, RateAssumption, AtLeastOne
      <3>3. QED
        BY <2>1, <3>1, <3>2
    <2>2. CASE r.tokens = g.tokens + (t - g.last) * g.rate
      <3>1. g.tokens \in Nat /\ Second \in Nat
        BY <1>1, RateAssumption DEF Limiters
      <3>2. r.tokens = g.tokens + add /\ add >= Second
        BY <1>1, <2>2
      <3>3. add \in Int
        <4>1. t \in Nat /\ calls[i].at \in Nat /\ g.rate \in Nat
          BY <1>1, MomentsRise DEF Limiters
        <4>2. t - calls[i].at \in Int
          BY <4>1
        <4>3. QED
          BY <4>1, <4>2
      <3> HIDE DEF r, add, g
      <3>4. QED
        BY <3>1, <3>2, <3>3
    <2>3. QED
      BY <1>3, <2>1, <2>2
  <1>5. Allowed(calls, i + 1) <=> r.tokens >= Second
    BY DEF Allowed, Admits
  <1>6. QED
    BY <1>4, <1>5

(***************************************************************************)
(* What RateHonoured says of one history holds of any, for any length,     *)
(* rates, bursts and moments.                                              *)
(***************************************************************************)
LEMMA CallsHonoured ==
  ASSUME NEW calls, Ordered(calls)
  PROVE  LET l == History(calls)
             allows(i) == calls[i].op = "allow"
             admitted(i) == allows(i) /\ Admits(l[i - 1], calls[i].at)
         IN  \A i \in DOMAIN calls :
               /\ allows(i) /\ l[i - 1] # NoLimiter =>
                    (CheckLimit(l[i - 1], calls[i].at) <=> admitted(i))
               /\ \A j \in i..Len(calls) :
                    (\A k \in i..j : allows(k)) =>
                      LET elapsed == (calls[j].at - calls[i].at) * l[i].rate
                      IN  /\ Cardinality({k \in i..j : admitted(k)}) * Second
                               <= l[i].burst * Second + elapsed
                          /\ j = i + 1 /\ elapsed >= Second => admitted(j)
  <1>1. DOMAIN calls = 1..Len(calls) /\ Len(calls) \in Nat
    BY DEF Ordered
  <1>2. ASSUME NEW i \in 1..Len(calls), calls[i].op = "allow",
               History(calls)[i - 1] # NoLimiter
        PROVE  CheckLimit(History(calls)[i - 1], calls[i].at) <=> Allowed(calls, i)
    BY <1>2, CheckAgrees
  <1>3. ASSUME NEW i \in 1..Len(calls), NEW j \in i..Len(calls),
               \A k \in i..j : calls[k].op = "allow"
        PROVE  Cardinality(AdmittedIn(calls, i, j)) * Second
                 <= History(calls)[i].burst * Second
                      + (calls[j].at - calls[i].at) * History(calls)[i].rate
    <2>1. Spent(calls, i, j)
      <3>1. j \in i..j
        OBVIOUS
      <3>2. QED
        BY <1>3, <3>1, SpentAlways
    <2> DEFINE h == History(calls)[i]
               z == Cardinality(AdmittedIn(calls, i, j)) * Second
               y == h.burst * Second + (calls[j].at - calls[i].at) * h.rate
               w == History(calls)[j].tokens
    <2>2. z + w <= y /\ w \in Nat /\ Cardinality(AdmittedIn(calls, i, j)) \in Nat
          /\ h.burst \in Nat /\ h.rate \in Nat
      BY <2>1 DEF Spent, Limiters
    <2>3. z \in Nat /\ y \in Int
      <3>1. z \in Nat /\ h.burst * Second \in Nat
        BY <2>2, RateAssumption, Product
      <3>2. calls[j].at \in Nat /\ calls[i].at \in Nat
        <4>1. j \in 1..Len(calls)
          BY <1>1
        <4>2. QED
          BY <4>1, MomentsRise
      <3>3. calls[j].at - calls[i].at \in Int
        BY <3>2
      <3> HIDE DEF h, z
      <3>4. QED
        BY <2>2, <3>1, <3>3
    <2> HIDE DEF h, z, y, w
    <2>4. z <= y
      BY <2>2, <2>3
    <2>5. QED
      BY <2>4 DEF z, y, h
  <1>4. ASSUME NEW i \in 1..Len(calls), NEW j \in i..Len(calls), j = i + 1,
               \A k \in i..j : calls[k].op = "allow",
               (calls[j].at - calls[i].at) * History(calls)[i].rate >= Second
        PROVE  Allowed(calls, j)
    <2>1. calls[i].op = "allow" /\ calls[i + 1].op = "allow" /\ i + 1 \in 1..Len(calls)
      BY <1>4
    <2>2. QED
      BY <1>4, <2>1, NextAdmitted
  <1>5. QED
    BY <1>1, <1>2, <1>3, <1>4 DEF AdmittedIn, Allowed

-----------------------------------------------------------------------------
\* Routing of requests

Overwritten(names, value, h) == IF h.name \in names THEN h.value ELSE value
Values == INSTANCE Folding WITH Op <- Overwritten

LastMatch(host, id, next) == IF IsStrictPrefix(next, host) \/ next = host THEN next ELSE id
Matches == INSTANCE Folding WITH Op <- LastMatch

(***************************************************************************)
(* What the last header of a name says is the value of a header.           *)
(***************************************************************************)
LEMMA LastNamedType ==
  ASSUME NEW headers \in Seq([name : STRING, value : HostNames]), NEW names
  PROVE  LastNamed(headers, names) \in HostNames
  <1>1. PICK n \in Nat : n = Len(headers) /\ DOMAIN headers = 1..n
                         /\ \A i \in 1..n : headers[i].value \in HostNames
    <2>1. \A i \in 1..Len(headers) : headers[i] \in [name : STRING, value : HostNames]
      BY ElementOfSeq
    <2>2. QED
      BY <2>1, LenProperties
  <1>2. LastNamed(headers, names) = Values!Fold(names, NoName, headers, n)
    <2>1. LastNamed(headers, names) = (CHOOSE g : Values!Unfolds(g, names, NoName, headers, 1..n))[1..n]
      BY <1>1 DEF LastNamed, FoldLeft, MapThenFoldSet, Max, Values!Unfolds, Values!Top, Overwritten
    <2>2. QED
      BY <2>1 DEF Values!Fold
  <1> DEFINE Bad == {k \in 0..n : Values!Fold(names, NoName, headers, k) \notin HostNames}
  <1>3. Bad = {}
    <2> SUFFICES ASSUME Bad # {} PROVE FALSE
      OBVIOUS
    <2>1. PICK m \in Bad : \A k \in Bad : m <= k
      <3>1. Bad \in SUBSET Nat
        OBVIOUS
      <3>2. QED
        BY <3>1, LeastOf
    <2>2. m # 0
      <3>1. Values!Fold(names, NoName, headers, 0) = <<>>
        BY Values!FoldEmpty DEF NoName
      <3>2. <<>> \in HostNames
        BY DEF HostNames
      <3>3. QED
        BY <3>1, <3>2
    <2>3. PICK j \in Nat : m = j + 1
      BY <2>2
    <2>4. Values!Fold(names, NoName, headers, j) \in HostNames /\ headers[j + 1].value \in HostNames
      BY <1>1, <2>1, <2>3
    <2>5. Values!Fold(names, NoName, headers, j + 1)
            = Overwritten(names, Values!Fold(names, NoName, headers, j), headers[j + 1])
      BY Values!FoldStep
    <2>6. QED
      BY <2>3, <2>4, <2>5 DEF Overwritten
  <1>4. QED
    BY <1>1, <1>2, <1>3

(***************************************************************************)
(* A walk goes through all the elements of the container.                  *)
(***************************************************************************)
LEMMA WalksAll ==
  ASSUME NEW S, IsFiniteSet(S), NEW walk \in SetToSeqs(S)
  PROVE  \E n \in Nat : /\ DOMAIN walk = 1..n /\ Len(walk) = n
                        /\ \A i \in 1..n : walk[i] \in S
                        /\ \A e \in S : \E i \in 1..n : walk[i] = e
  <1>1. PICK n \in Nat : n = Cardinality(S)
    BY FS_CardinalityType
  <1>2. walk \in [1..n -> S] /\ \A i, j \in 1..n : i # j => walk[i] # walk[j]
    BY <1>1 DEF SetToSeqs
  <1>3. walk \in Injection(1..n, S)
    BY <1>2 DEF Injection, IsInjective
  <1>4. IsFiniteSet(1..n) /\ Cardinality(1..n) = n
    BY FS_Interval
  <1>5. walk \in Surjection(1..n, S)
    BY <1>1, <1>3, <1>4, FS_Injection
  <1>6. \A e \in S : \E i \in 1..n : walk[i] = e
    BY <1>5 DEF Surjection
  <1>7. QED
    BY <1>2, <1>6

(***************************************************************************)
(* A sequence of one element.                                              *)
(***************************************************************************)
LEMMA Singleton ==
  ASSUME NEW S, NEW e \in S
  PROVE  <<e>> \in Seq(S) /\ Len(<<e>>) = 1 /\ <<e>>[1] = e
  <1>1. <<e>> \in Seq(S)
    OBVIOUS
  <1>2. Len(<<e>>) = 1 /\ <<e>>[1] = e
    OBVIOUS
  <1>3. QED
    BY <1>1, <1>2

(***************************************************************************)
(* An id of one label matches the host whose first label it is.            *)
(***************************************************************************)
LEMMA MatchesFirstLabel ==
  ASSUME NEW host \in HostNames, NEW id \in [1..1 -> STRING]
  PROVE  IsStrictPrefix(id, host) \/ id = host <=> host # NoName /\ id = <<host[1]>>
  <1>1. PICK l \in STRING : id = <<l>>
    <2>1. id[1] \in STRING /\ id = <<id[1]>>
      OBVIOUS
    <2>2. QED
      BY <2>1
  <1>2. CASE host = NoName
    <2>1. Len(host) = 0 /\ Len(id) = 1 /\ id # host
      BY <1>1, <1>2 DEF NoName
    <2>2. QED
      BY <1>2, <2>1 DEF IsStrictPrefix, IsPrefix
  <1>3. CASE host # NoName
    <2>1. PICK n \in Nat : n = Len(host) /\ 1 <= n
      <3>1. host \in Seq(STRING) /\ host # <<>>
        BY <1>3 DEF HostNames, NoName
      <3>2. Len(host) \in Nat \ {0}
        BY <3>1, EmptySeq
      <3>3. QED
        BY <3>2
    <2>2. SubSeq(host, 1, 1) = <<host[1]>>
      <3>1. host \in Seq(STRING)
        BY DEF HostNames
      <3>2. 1 \in 1..Len(host)
        BY <2>1
      <3>3. SubSeq(host, 1, 1) = SubSeq(host, 1, 0) \o <<host[1]>> /\ host[1] \in STRING
        BY <3>1, <3>2, SubSeqRecursiveSecond, ElementOfSeq
      <3>4. SubSeq(host, 1, 0) = <<>>
        BY SubSeqEmpty
      <3>5. <<host[1]>> \in Seq(STRING)
        BY <3>3
      <3>6. <<>> \o <<host[1]>> = <<host[1]>>
        BY <3>5, ConcatEmptySeq
      <3>7. QED
        BY <3>3, <3>4, <3>6
    <2>3. SubSeq(id, 1, 1) = id /\ Len(id) = 1
      <3>1. <<l>> \in Seq(STRING) /\ Len(<<l>>) = 1
        BY Singleton
      <3>2. id \in Seq(STRING) /\ Len(id) = 1
        BY <1>1, <3>1
      <3>3. SubSeq(id, 1, Len(id)) = id
        BY <3>2, SubSeqFull
      <3>4. QED
        BY <3>2, <3>3
    <2>4. IsPrefix(id, host) <=> id = <<host[1]>>
      <3>1. Len(id) <= Len(host)
        BY <2>1, <2>3
      <3>2. SubSeq(id, 1, Len(id)) = id /\ SubSeq(host, 1, Len(id)) = <<host[1]>>
        BY <2>2, <2>3
      <3>3. QED
        BY <3>1, <3>2 DEF IsPrefix
    <2>5. id = host => id = <<host[1]>>
      <3>1. <<l>>[1] = l
        BY Singleton
      <3>2. QED
        BY <1>1, <3>1
    <2>6. QED
      BY <1>3, <2>4, <2>5 DEF IsStrictPrefix
  <1>4. QED
    BY <1>2, <1>3

(***************************************************************************)
(* match_tunnel(): the tunnel of the first label, whatever the order of    *)
(* the walk.                                                               *)
(***************************************************************************)
LEMMA MatchesNamed ==
  ASSUME NEW S, IsFiniteSet(S), \A id \in S : id \in [1..1 -> STRING],
         NEW walk \in SetToSeqs(S), NEW host \in HostNames
  PROVE  MatchTunnel(walk, host) = IF host # NoName /\ <<host[1]>> \in S THEN <<host[1]>> ELSE NoName
  <1>1. PICK n \in Nat : /\ DOMAIN walk = 1..n /\ Len(walk) = n
                         /\ \A i \in 1..n : walk[i] \in S
                         /\ \A e \in S : \E i \in 1..n : walk[i] = e
    BY WalksAll
  <1>2. MatchTunnel(walk, host) = Matches!Fold(host, NoName, walk, n)
    <2>1. MatchTunnel(walk, host) = (CHOOSE g : Matches!Unfolds(g, host, NoName, walk, 1..n))[1..n]
      BY <1>1 DEF MatchTunnel, FoldLeft, MapThenFoldSet, Max, Matches!Unfolds, Matches!Top, LastMatch
    <2>2. QED
      BY <2>1 DEF Matches!Fold
  <1> DEFINE hit(i) == host # NoName /\ walk[i] = <<host[1]>>
             seen(k) == \E i \in 1..k : hit(i)
             right(k) == Matches!Fold(host, NoName, walk, k) = IF seen(k) THEN <<host[1]>> ELSE NoName
  <1>3. right(0)
    BY Matches!FoldEmpty
  <1>4. ASSUME NEW j \in Nat, j + 1 \in 1..n, right(j) PROVE right(j + 1)
    <2>1. Matches!Fold(host, NoName, walk, j + 1)
            = LastMatch(host, Matches!Fold(host, NoName, walk, j), walk[j + 1])
      BY Matches!FoldStep
    <2>2. walk[j + 1] \in [1..1 -> STRING]
      BY <1>1, <1>4
    <2>3. IsStrictPrefix(walk[j + 1], host) \/ walk[j + 1] = host <=> hit(j + 1)
      BY <2>2, MatchesFirstLabel
    <2>4. LastMatch(host, Matches!Fold(host, NoName, walk, j), walk[j + 1])
            = IF hit(j + 1) THEN walk[j + 1] ELSE Matches!Fold(host, NoName, walk, j)
      BY <2>3 DEF LastMatch
    <2>5. seen(j + 1) <=> seen(j) \/ hit(j + 1)
      OBVIOUS
    <2>6. CASE hit(j + 1)
      BY <2>1, <2>4, <2>5, <2>6
    <2>7. CASE ~hit(j + 1)
      BY <1>4, <2>1, <2>4, <2>5, <2>7
    <2>8. QED
      BY <2>6, <2>7
  <1>5. right(n)
    <2> DEFINE Bad == {k \in 0..n : ~right(k)}
    <2> SUFFICES ASSUME Bad # {} PROVE FALSE
      OBVIOUS
    <2>1. PICK m \in Bad : \A k \in Bad : m <= k
      <3>1. Bad \in SUBSET Nat
        OBVIOUS
      <3> HIDE DEF Bad
      <3>2. QED
        BY <3>1, LeastOf
    <2> HIDE DEF right
    <2>2. m # 0
      BY <1>3
    <2>3. PICK j \in Nat : m = j + 1
      BY <2>2
    <2>4. j \in 0..n /\ j \notin Bad
      BY <2>1, <2>3
    <2>5. QED
      BY <1>4, <2>3, <2>4
  <1>6. seen(n) <=> host # NoName /\ <<host[1]>> \in S
    BY <1>1
  <1>7. QED
    BY <1>2, <1>5, <1>6

(***************************************************************************)
(* What RequestsDecided says of one request holds of any.                  *)
(***************************************************************************)
LEMMA RequestDecided ==
  ASSUME NEW r \in Requests
  PROVE  LET host == PlainHost(r.headers)
             named == IF host = NoName THEN NoName ELSE <<host[1]>>
             found == [id \in DOMAIN r.tunnels \ r.gone |-> r.tunnels[id]]
             answer == CASE r.path = "/health" -> "health"
                         [] r.path # "/health" /\ named \notin DOMAIN r.tunnels -> "404"
                         [] r.path # "/health" /\ named \in DOMAIN r.tunnels ->
                              IF named \in r.gone THEN "500"
                              ELSE IF ~LetsIn(r.tunnels[named], r.client) THEN "403"
                              ELSE IF named \in r.connected THEN "agent" ELSE "503"
         IN  \A walk \in SetToSeqs(DOMAIN r.tunnels) :
               HandleRequest([path |-> r.path, host |-> host, client |-> r.client],
                             walk, found, r.connected) = answer
  <1> DEFINE host == PlainHost(r.headers)
             named == IF host = NoName THEN NoName ELSE <<host[1]>>
             found == [id \in DOMAIN r.tunnels \ r.gone |-> r.tunnels[id]]
  <1> SUFFICES ASSUME NEW walk \in SetToSeqs(DOMAIN r.tunnels)
               PROVE  HandleRequest([path |-> r.path, host |-> host, client |-> r.client], walk, found, r.connected)
                        = CASE r.path = "/health" -> "health"
                            [] r.path # "/health" /\ named \notin DOMAIN r.tunnels -> "404"
                            [] r.path # "/health" /\ named \in DOMAIN r.tunnels ->
                                 IF named \in r.gone THEN "500"
                                 ELSE IF ~LetsIn(r.tunnels[named], r.client) THEN "403"
                                 ELSE IF named \in r.connected THEN "agent" ELSE "503"
    OBVIOUS
  <1>1. /\ r.headers \in Seq([name : STRING, value : HostNames])
        /\ r.client \in Addresses \cup {Unparsed}
        /\ IsFiniteSet(DOMAIN r.tunnels)
        /\ \A id \in DOMAIN r.tunnels : id \in [1..1 -> STRING] /\ r.tunnels[id] \in Seq(ListEntries)
    BY RequestsAssumption
  <1>2. host \in HostNames
    BY <1>1, LastNamedType DEF PlainHost
  <1>3. NoName \notin DOMAIN r.tunnels
    <2>1. <<>> \notin [1..1 -> STRING]
      OBVIOUS
    <2>2. QED
      BY <1>1, <2>1 DEF NoName
  <1>4. MatchTunnel(walk, host) = IF named \in DOMAIN r.tunnels THEN named ELSE NoName
    <2>1. MatchTunnel(walk, host)
            = IF host # NoName /\ <<host[1]>> \in DOMAIN r.tunnels THEN <<host[1]>> ELSE NoName
      BY <1>1, <1>2, MatchesNamed
    <2>2. QED
      BY <1>3, <2>1
  <1> DEFINE id == MatchTunnel(walk, host)
  <1>5. HandleRequest([path |-> r.path, host |-> host, client |-> r.client], walk, found, r.connected)
          = CASE r.path = "/health" -> "health"
              [] r.path # "/health" /\ id = NoName -> "404"
              [] r.path # "/health" /\ id # NoName ->
                   IF id \notin DOMAIN found THEN "500"
                   ELSE IF ~ValidateIpAllowlist(found[id], r.client) THEN "403"
                   ELSE IF id \notin r.connected THEN "503"
                   ELSE "agent"
    BY DEF HandleRequest
  <1>6. CASE named \notin DOMAIN r.tunnels
    BY <1>4, <1>5, <1>6
  <1>7. CASE named \in DOMAIN r.tunnels
    <2>1. id = named /\ id # NoName
      BY <1>3, <1>4, <1>7
    <2>2. id \in DOMAIN found <=> named \notin r.gone
      BY <1>7, <2>1
    <2>3. id \in DOMAIN found => found[id] = r.tunnels[named]
      BY <2>1
    <2>4. ValidateIpAllowlist(r.tunnels[named], r.client) <=> LetsIn(r.tunnels[named], r.client)
      BY <1>1, <1>7, ListExact
    <2> HIDE DEF id, named, found
    <2>5. QED
      BY <1>5, <1>7, <2>1, <2>2, <2>3, <2>4
  <1>8. QED
    BY <1>6, <1>7

-----------------------------------------------------------------------------
\* Certificates

Reloaded(version, m, domain) == ReloadCertificate(m, domain, version)
Reloads == INSTANCE Folding WITH Op <- Reloaded

Installed(p, m, op) == Loaded(m, op)
Installs == INSTANCE Folding WITH Op <- Installed

(***************************************************************************)
(* SetToSeq gives one of the walks through a finite set.                   *)
(***************************************************************************)
LEMMA SetToSeqWalks ==
  ASSUME NEW S, IsFiniteSet(S)
  PROVE  SetToSeq(S) \in SetToSeqs(S)
  <1>1. PICK f : f \in Bijection(1..Cardinality(S), S)
    BY FS_CardinalityType DEF ExistsBijection
  <1>2. f \in [1..Cardinality(S) -> S] /\ IsInjective(f)
    BY <1>1 DEF Bijection, Injection
  <1>3. SetToSeq(S) \in [1..Cardinality(S) -> S] /\ IsInjective(SetToSeq(S))
    BY <1>2 DEF SetToSeq
  <1>4. QED
    BY <1>3 DEF SetToSeqs, IsInjective

(***************************************************************************)
(* load_certificate(), field by field.                                     *)
(***************************************************************************)
LEMMA LoadFields ==
  ASSUME NEW m, NEW domain, NEW version, version # Missing,
         NEW new, new = LoadCertificate(m, domain, version),
         NEW D, D = DOMAIN m.certs \cup {domain}
  PROVE  /\ DOMAIN new.certs = D
         /\ \A d \in D : new.certs[d] = IF d = domain THEN version ELSE m.certs[d]
         /\ new.default = IF Cardinality(D) = 1 THEN version ELSE m.default
  <1> DEFINE certs == [d \in D |-> IF d = domain THEN version ELSE m.certs[d]]
  <1>1. DOMAIN certs = D
    OBVIOUS
  <1>2. new = [certs |-> certs, default |-> IF Cardinality(D) = 1 THEN version ELSE m.default]
    BY <1>1 DEF LoadCertificate, CreatesContext
  <1>3. QED
    BY <1>1, <1>2

(***************************************************************************)
(* reload_all_certificates(): every domain gets the new version, and so    *)
(* does the default if the domain is the only one.                         *)
(***************************************************************************)
LEMMA ReloadAllFields ==
  ASSUME NEW m, NEW version, IsFiniteSet(DOMAIN m.certs)
  PROVE  LET new == ReloadAllCertificates(m, version)
             D == DOMAIN m.certs
         IN  /\ DOMAIN new.certs = D
             /\ \A d \in D : new.certs[d] = IF version # Missing THEN version ELSE m.certs[d]
             /\ new.default = IF version # Missing /\ Cardinality(D) = 1 THEN version ELSE m.default
  <1> DEFINE D == DOMAIN m.certs
             walk == SetToSeq(D)
  <1>1. PICK n \in Nat : /\ DOMAIN walk = 1..n /\ Len(walk) = n
                         /\ \A i \in 1..n : walk[i] \in D
                         /\ \A e \in D : \E i \in 1..n : walk[i] = e
    <2>1. walk \in SetToSeqs(D)
      BY SetToSeqWalks
    <2>2. QED
      BY <2>1, WalksAll
  <1> DEFINE at(k) == Reloads!Fold(version, m, walk, k)
  <1>2. ReloadAllCertificates(m, version) = at(n)
    <2>1. ReloadAllCertificates(m, version)
            = (CHOOSE g : Reloads!Unfolds(g, version, m, walk, 1..n))[1..n]
      BY <1>1 DEF ReloadAllCertificates, FoldLeft, MapThenFoldSet, Max, Reloads!Unfolds, Reloads!Top, Reloaded
    <2>2. QED
      BY <2>1 DEF Reloads!Fold
  <1> DEFINE seen(k, d) == \E i \in 1..k : walk[i] = d
             right(k) == /\ DOMAIN at(k).certs = D
                         /\ \A d \in D : at(k).certs[d] =
                              IF version # Missing /\ seen(k, d) THEN version ELSE m.certs[d]
                         /\ at(k).default =
                              IF version # Missing /\ Cardinality(D) = 1 /\ k > 0 THEN version ELSE m.default
  <1> HIDE DEF walk
  <1>3. right(0)
    <2>1. at(0) = m
      BY Reloads!FoldEmpty
    <2>2. QED
      BY <2>1
  <1>4. ASSUME NEW j \in Nat, j + 1 \in 1..n, right(j) PROVE right(j + 1)
    <2> DEFINE d0 == walk[j + 1]
    <2>1. at(j + 1) = ReloadCertificate(at(j), d0, version)
      BY Reloads!FoldStep DEF Reloaded
    <2>2. d0 \in D
      BY <1>1, <1>4
    <2> HIDE DEF at
    <2>3. at(j + 1) = LoadCertificate(at(j), d0, version)
      BY <1>4, <2>1, <2>2 DEF ReloadCertificate
    <2>4. CASE version = Missing
      <3>1. at(j + 1) = at(j)
        BY <2>3, <2>4 DEF LoadCertificate, CreatesContext
      <3>2. QED
        BY <1>4, <2>4, <3>1
    <2>5. CASE version # Missing
      <3>1. DOMAIN at(j).certs \cup {d0} = D
        BY <1>4, <2>2
      <3> HIDE DEF d0, D
      <3>2. /\ DOMAIN at(j + 1).certs = D
            /\ \A d \in D : at(j + 1).certs[d] = IF d = d0 THEN version ELSE at(j).certs[d]
            /\ at(j + 1).default = IF Cardinality(D) = 1 THEN version ELSE at(j).default
        BY <2>3, <2>5, <3>1, LoadFields
      <3>3. \A d \in D : seen(j + 1, d) <=> seen(j, d) \/ d = d0
        <4>1. 1..j + 1 = (1..j) \cup {j + 1}
          OBVIOUS
        <4>2. QED
          BY <4>1, Zenon DEF d0
      <3> HIDE DEF d0, seen
      <3>4. \A d \in D : at(j + 1).certs[d] = IF seen(j + 1, d) THEN version ELSE m.certs[d]
        BY <1>4, <2>5, <3>2, <3>3
      <3>5. at(j + 1).default = IF Cardinality(D) = 1 THEN version ELSE m.default
        BY <1>4, <2>5, <3>2
      <3>6. QED
        BY <2>5, <3>2, <3>4, <3>5
    <2>6. QED
      BY <2>4, <2>5
  <1>5. right(n)
    <2> DEFINE Bad == {k \in 0..n : ~right(k)}
    <2> SUFFICES ASSUME Bad # {} PROVE FALSE
      OBVIOUS
    <2>1. PICK k \in Bad : \A i \in Bad : k <= i
      <3>1. Bad \in SUBSET Nat
        OBVIOUS
      <3> HIDE DEF Bad
      <3>2. QED
        BY <3>1, LeastOf
    <2> HIDE DEF right
    <2>2. k # 0
      BY <1>3
    <2>3. PICK j \in Nat : k = j + 1
      BY <2>2
    <2>4. j \in 0..n /\ j \notin Bad
      BY <2>1, <2>3
    <2>5. QED
      BY <1>4, <2>3, <2>4
  <1>6. \A d \in D : seen(n, d)
    BY <1>1
  <1>7. Cardinality(D) = 1 => n > 0
    <2>1. Cardinality(D) = 1 => D # {}
      BY FS_EmptySet
    <2>2. QED
      BY <1>1, <2>1
  <1> HIDE DEF D, at, seen
  <1>8. QED
    BY <1>2, <1>5, <1>6, <1>7 DEF D

-----------------------------------------------------------------------------
\* The reference of CertificateFresh, after the first n calls
GoodAt(ops) == {i \in DOMAIN ops : ops[i].version # Missing}
KnownAt(ops, n) == {ops[i].domain : i \in {k \in GoodAt(ops) : k <= n /\ ops[k].op = "load"}}
FreshFor(ops, d, n) ==
  {i \in GoodAt(ops) : i <= n /\ d \in KnownAt(ops, i) /\ ops[i].domain \in {d, NoDomain}}
AloneAt(ops, n) ==
  {i \in GoodAt(ops) : /\ i <= n /\ Cardinality(KnownAt(ops, i)) = 1
                       /\ ops[i].domain \in KnownAt(ops, i) \cup {NoDomain}}
Newest(ops, S) == ops[CHOOSE i \in S : \A k \in S : k <= i].version

(***************************************************************************)
(* What a call is: load and reload name a domain, the reload of all none.  *)
(***************************************************************************)
LEMMA CallFields ==
  ASSUME NEW op \in CertificateOps
  PROVE  \/ op.op \in {"load", "reload"} /\ op.domain # NoDomain
         \/ op.op = "all" /\ op.domain = NoDomain
  <1> DEFINE Names == HostNames \ {NoName}
  <1>1. \A d \in [wild : BOOLEAN, name : Names] : d # NoDomain
    BY DEF NoDomain
  <1> HIDE DEF Names
  <1>2. \/ op \in [op : {"load", "reload"}, domain : [wild : BOOLEAN, name : Names], version : Nat]
        \/ op \in [op : {"all"}, domain : {NoDomain}, version : Nat]
    BY DEF CertificateOps, Names
  <1>3. QED
    BY <1>1, <1>2

(***************************************************************************)
(* The domains known after a call: those before it, and the one that it    *)
(* loads.                                                                  *)
(***************************************************************************)
LEMMA KnownGrows ==
  ASSUME NEW ops \in Seq(CertificateOps), NEW k \in Nat, k + 1 \in DOMAIN ops
  PROVE  KnownAt(ops, k + 1) =
           IF ops[k + 1].version # Missing /\ ops[k + 1].op = "load"
           THEN KnownAt(ops, k) \cup {ops[k + 1].domain} ELSE KnownAt(ops, k)
  <1> DEFINE before == {i \in GoodAt(ops) : i <= k /\ ops[i].op = "load"}
             after == {i \in GoodAt(ops) : i <= k + 1 /\ ops[i].op = "load"}
  <1>1. \A i \in DOMAIN ops : i <= k + 1 <=> (i <= k \/ i = k + 1)
    OBVIOUS
  <1>2. after = IF ops[k + 1].version # Missing /\ ops[k + 1].op = "load"
                THEN before \cup {k + 1} ELSE before
    BY <1>1 DEF GoodAt
  <1>3. KnownAt(ops, k) = {ops[i].domain : i \in before} /\ KnownAt(ops, k + 1) = {ops[i].domain : i \in after}
    BY DEF KnownAt
  <1> HIDE DEF before, after
  <1>4. QED
    BY <1>2, <1>3, Zenon

(***************************************************************************)
(* What is known is finite, and never the name of no domain.               *)
(***************************************************************************)
LEMMA KnownFinite ==
  ASSUME NEW ops \in Seq(CertificateOps), NEW n \in 0..Len(ops)
  PROVE  IsFiniteSet(KnownAt(ops, n)) /\ NoDomain \notin KnownAt(ops, n)
  <1> DEFINE fine(k) == IsFiniteSet(KnownAt(ops, k)) /\ NoDomain \notin KnownAt(ops, k)
             Bad == {k \in 0..Len(ops) : ~fine(k)}
  <1> SUFFICES ASSUME Bad # {} PROVE FALSE
    OBVIOUS
  <1>1. PICK k \in Bad : \A i \in Bad : k <= i
    <2>1. Bad \in SUBSET Nat
      OBVIOUS
    <2> HIDE DEF Bad
    <2>2. QED
      BY <2>1, LeastOf
  <1>2. k # 0
    <2>1. KnownAt(ops, 0) = {}
      BY DEF KnownAt, GoodAt
    <2>2. fine(0)
      BY <2>1, FS_EmptySet
    <2>3. QED
      BY <2>2
  <1>3. PICK j \in Nat : k = j + 1
    BY <1>2
  <1>4. fine(j) /\ j + 1 \in DOMAIN ops
    BY <1>1, <1>3
  <1>5. ops[j + 1] \in CertificateOps
    BY <1>4
  <1>6. ops[j + 1].op = "load" => ops[j + 1].domain # NoDomain
    BY <1>5, CallFields
  <1>7. KnownAt(ops, j + 1) \in {KnownAt(ops, j), KnownAt(ops, j) \cup {ops[j + 1].domain}}
    BY <1>4, KnownGrows
  <1>8. IsFiniteSet(KnownAt(ops, j + 1))
    <2>1. IsFiniteSet(KnownAt(ops, j) \cup {ops[j + 1].domain})
      BY <1>4, FS_AddElement
    <2>2. QED
      BY <1>4, <1>7, <2>1
  <1>9. NoDomain \notin KnownAt(ops, j + 1)
    BY <1>4, <1>6, KnownGrows
  <1>10. QED
    BY <1>3, <1>8, <1>9

(***************************************************************************)
(* One call of TLSManager, when the domains of m are those known so far: a *)
(* certificate that could be loaded goes to the domains it is for, and to  *)
(* the default if there is one domain only.                                *)
(***************************************************************************)
LEMMA InstallStep ==
  ASSUME NEW ops \in Seq(CertificateOps), NEW k \in Nat, k + 1 \in DOMAIN ops,
         NEW m, DOMAIN m.certs = KnownAt(ops, k),
         NEW op, op = ops[k + 1],
         NEW new, new = Loaded(m, op),
         NEW D, D = KnownAt(ops, k + 1)
  PROVE  /\ DOMAIN new.certs = D
         /\ \A d \in D : new.certs[d] =
              IF op.version # Missing /\ op.domain \in {d, NoDomain} THEN op.version ELSE m.certs[d]
         /\ new.default =
              IF op.version # Missing /\ Cardinality(D) = 1 /\ op.domain \in D \cup {NoDomain}
              THEN op.version ELSE m.default
  <1> DEFINE B == KnownAt(ops, k)
  <1>1. D = IF op.version # Missing /\ op.op = "load" THEN B \cup {op.domain} ELSE B
    BY KnownGrows
  <1>2. IsFiniteSet(B) /\ NoDomain \notin B
    BY KnownFinite
  <1>3. op \in CertificateOps
    OBVIOUS
  <1>4. \/ op.op \in {"load", "reload"} /\ op.domain # NoDomain
        \/ op.op = "all" /\ op.domain = NoDomain
    BY <1>3, CallFields
  <1> DEFINE d0 == op.domain
             version == op.version
  <1>5. CASE op.op = "all"
    <2>1. new = ReloadAllCertificates(m, version)
      BY <1>5 DEF Loaded
    <2>2. /\ DOMAIN new.certs = B
          /\ \A d \in B : new.certs[d] = IF version # Missing THEN version ELSE m.certs[d]
          /\ new.default = IF version # Missing /\ Cardinality(B) = 1 THEN version ELSE m.default
      BY <1>2, <2>1, ReloadAllFields
    <2>3. D = B /\ d0 = NoDomain
      BY <1>1, <1>4, <1>5
    <2>4. QED
      BY <2>2, <2>3
  <1>6. ASSUME op.op # "all", version # Missing, new = LoadCertificate(m, d0, version),
               D = B \cup {d0}
        PROVE  /\ DOMAIN new.certs = D
               /\ \A d \in D : new.certs[d] =
                    IF version # Missing /\ d0 \in {d, NoDomain} THEN version ELSE m.certs[d]
               /\ new.default =
                    IF version # Missing /\ Cardinality(D) = 1 /\ d0 \in D \cup {NoDomain}
                    THEN version ELSE m.default
    <2>1. /\ DOMAIN new.certs = D
          /\ \A d \in D : new.certs[d] = IF d = d0 THEN version ELSE m.certs[d]
          /\ new.default = IF Cardinality(D) = 1 THEN version ELSE m.default
      BY <1>6, LoadFields
    <2>2. d0 # NoDomain /\ d0 \in D
      BY <1>4, <1>6
    <2>3. QED
      BY <1>6, <2>1, <2>2
  <1>7. ASSUME new = m, D = B, version = Missing \/ (d0 \notin D /\ d0 # NoDomain)
        PROVE  /\ DOMAIN new.certs = D
               /\ \A d \in D : new.certs[d] =
                    IF version # Missing /\ d0 \in {d, NoDomain} THEN version ELSE m.certs[d]
               /\ new.default =
                    IF version # Missing /\ Cardinality(D) = 1 /\ d0 \in D \cup {NoDomain}
                    THEN version ELSE m.default
    BY <1>7
  <1>8. CASE op.op = "load"
    <2>1. new = LoadCertificate(m, d0, version)
      BY <1>8 DEF Loaded
    <2>2. CASE version = Missing
      BY <1>1, <1>7, <2>1, <2>2 DEF LoadCertificate, CreatesContext
    <2>3. CASE version # Missing
      BY <1>1, <1>6, <1>8, <2>1, <2>3
    <2>4. QED
      BY <2>2, <2>3
  <1>9. CASE op.op = "reload"
    <2>1. new = ReloadCertificate(m, d0, version) /\ D = B
      BY <1>1, <1>9 DEF Loaded
    <2>2. CASE version = Missing
      BY <1>7, <2>1, <2>2 DEF ReloadCertificate, LoadCertificate, CreatesContext
    <2>3. CASE version # Missing /\ d0 \in B
      <3>1. B \cup {d0} = B
        BY <2>3
      <3>2. QED
        BY <1>6, <1>9, <2>1, <2>3, <3>1 DEF ReloadCertificate
    <2>4. CASE d0 \notin B
      <3>1. d0 # NoDomain
        BY <1>4, <1>9
      <3>2. QED
        BY <1>7, <2>1, <2>4, <3>1 DEF ReloadCertificate
    <2>5. QED
      BY <2>2, <2>3, <2>4
  <1>10. QED
    BY <1>4, <1>5, <1>8, <1>9

(***************************************************************************)
(* The newest of some calls is the last of them.                           *)
(***************************************************************************)
LEMMA NewestIs ==
  ASSUME NEW ops, NEW S \in SUBSET Nat, NEW n \in S, \A k \in S : k <= n
  PROVE  Newest(ops, S) = ops[n].version
  <1>1. \A i \in S : (\A k \in S : k <= i) => i = n
    <2> TAKE i \in S
    <2>1. n \in Nat /\ i \in Nat /\ i <= n
      OBVIOUS
    <2>2. (\A k \in S : k <= i) => n <= i
      OBVIOUS
    <2>3. QED
      BY <2>1, <2>2
  <1>2. (CHOOSE i \in S : \A k \in S : k <= i) = n
    BY <1>1
  <1>3. QED
    BY <1>2 DEF Newest

\* What TLSManager holds after the first k calls: for each domain known the
\* newest certificate, and as the default the newest that was alone
HoldsNewest(m, own, ops, k) ==
  /\ DOMAIN m.certs = KnownAt(ops, k)
  /\ \A d \in KnownAt(ops, k) : m.certs[d] = Newest(ops, FreshFor(ops, d, k))
  /\ m.default = IF AloneAt(ops, k) = {} THEN own ELSE Newest(ops, AloneAt(ops, k))

(***************************************************************************)
(* One call keeps it so.                                                   *)
(***************************************************************************)
LEMMA InstallHolds ==
  ASSUME NEW ops \in Seq(CertificateOps), NEW k \in Nat, k + 1 \in DOMAIN ops,
         NEW own, NEW m, HoldsNewest(m, own, ops, k),
         NEW new, new = Loaded(m, ops[k + 1])
  PROVE  HoldsNewest(new, own, ops, k + 1)
  <1> DEFINE op == ops[k + 1]
             D == KnownAt(ops, k + 1)
             good == op.version # Missing
  <1>1. /\ DOMAIN new.certs = D
        /\ \A d \in D : new.certs[d] =
              IF good /\ op.domain \in {d, NoDomain} THEN op.version ELSE m.certs[d]
        /\ new.default =
              IF good /\ Cardinality(D) = 1 /\ op.domain \in D \cup {NoDomain}
              THEN op.version ELSE m.default
    <2>1. DOMAIN m.certs = KnownAt(ops, k)
      BY DEF HoldsNewest
    <2>2. QED
      BY <2>1, InstallStep
  <1>2. \A i \in DOMAIN ops : i <= k + 1 <=> (i <= k \/ i = k + 1)
    OBVIOUS
  <1>3. GoodAt(ops) \in SUBSET Nat /\ (k + 1 \in GoodAt(ops) <=> good)
    BY DEF GoodAt
  <1>4. ASSUME NEW d \in D
        PROVE  new.certs[d] = Newest(ops, FreshFor(ops, d, k + 1))
    <2> DEFINE F == FreshFor(ops, d, k)
               G == FreshFor(ops, d, k + 1)
    <2>1. F \in SUBSET (1..k) /\ G \in SUBSET (1..k + 1)
      BY DEF FreshFor, GoodAt
    <2>2. CASE good /\ op.domain \in {d, NoDomain}
      <3>1. k + 1 \in G
        BY <1>3, <2>2 DEF FreshFor
      <3>2. Newest(ops, G) = op.version
        <4>1. G \in SUBSET Nat /\ \A i \in G : i <= k + 1
          BY <2>1
        <4> HIDE DEF G
        <4>2. QED
          BY <3>1, <4>1, NewestIs
      <3>3. QED
        BY <1>1, <2>2, <3>2
    <2>3. CASE ~(good /\ op.domain \in {d, NoDomain})
      <3>1. G = F
        BY <1>2, <1>3, <2>3 DEF FreshFor, GoodAt
      <3>2. d \in KnownAt(ops, k)
        BY <2>3, KnownGrows
      <3>3. m.certs[d] = Newest(ops, F)
        BY <3>2 DEF HoldsNewest
      <3>4. QED
        BY <1>1, <2>3, <3>1, <3>3
    <2>4. QED
      BY <2>2, <2>3
  <1>5. new.default = IF AloneAt(ops, k + 1) = {} THEN own ELSE Newest(ops, AloneAt(ops, k + 1))
    <2> DEFINE F == AloneAt(ops, k)
               G == AloneAt(ops, k + 1)
    <2>1. F \in SUBSET (1..k) /\ G \in SUBSET (1..k + 1)
      BY DEF AloneAt, GoodAt
    <2>2. CASE good /\ Cardinality(D) = 1 /\ op.domain \in D \cup {NoDomain}
      <3>1. k + 1 \in G
        BY <1>3, <2>2 DEF AloneAt
      <3>2. Newest(ops, G) = op.version
        <4>1. G \in SUBSET Nat /\ \A i \in G : i <= k + 1
          BY <2>1
        <4> HIDE DEF G
        <4>2. QED
          BY <3>1, <4>1, NewestIs
      <3>3. QED
        BY <1>1, <2>2, <3>1, <3>2
    <2>3. CASE ~(good /\ Cardinality(D) = 1 /\ op.domain \in D \cup {NoDomain})
      <3>1. G = F
        BY <1>2, <1>3, <2>3 DEF AloneAt, GoodAt
      <3>2. QED
        BY <1>1, <2>3, <3>1 DEF HoldsNewest
    <2>4. QED
      BY <2>2, <2>3
  <1>6. QED
    BY <1>1, <1>4, <1>5 DEF HoldsNewest

(***************************************************************************)
(* So it is after all the calls of a sample.                               *)
(***************************************************************************)
LEMMA InstalledAll ==
  ASSUME NEW ops \in Seq(CertificateOps), NEW own
  PROVE  HoldsNewest(FoldLeft(Loaded, NoCertificates(own), ops), own, ops, Len(ops))
  <1> DEFINE none == NoCertificates(own)
             at(k) == Installs!Fold("", none, ops, k)
             n == Len(ops)
  <1>1. FoldLeft(Loaded, none, ops) = at(n)
    <2>1. DOMAIN ops = 1..n
      OBVIOUS
    <2>2. FoldLeft(Loaded, none, ops) = (CHOOSE g : Installs!Unfolds(g, "", none, ops, 1..n))[1..n]
      BY <2>1 DEF FoldLeft, MapThenFoldSet, Max, Installs!Unfolds, Installs!Top, Installed
    <2>3. QED
      BY <2>2 DEF Installs!Fold
  <1>2. HoldsNewest(at(0), own, ops, 0)
    <2>1. at(0) = none
      BY Installs!FoldEmpty
    <2>2. KnownAt(ops, 0) = {} /\ AloneAt(ops, 0) = {}
      BY DEF KnownAt, AloneAt, GoodAt
    <2>3. DOMAIN none.certs = {} /\ none.default = own
      BY DEF NoCertificates
    <2> HIDE DEF at, none
    <2>4. QED
      BY <2>1, <2>2, <2>3 DEF HoldsNewest
  <1> HIDE DEF at, none
  <1>3. HoldsNewest(at(n), own, ops, n)
    <2> DEFINE Bad == {k \in 0..n : ~HoldsNewest(at(k), own, ops, k)}
    <2> SUFFICES ASSUME Bad # {} PROVE FALSE
      OBVIOUS
    <2>1. PICK k \in Bad : \A i \in Bad : k <= i
      <3>1. Bad \in SUBSET Nat
        OBVIOUS
      <3> HIDE DEF Bad
      <3>2. QED
        BY <3>1, LeastOf
    <2>2. k # 0
      BY <1>2
    <2>3. PICK j \in Nat : k = j + 1
      BY <2>2
    <2>4. j \in 0..n /\ j \notin Bad /\ j + 1 \in DOMAIN ops
      BY <2>1, <2>3
    <2>5. HoldsNewest(at(j), own, ops, j)
      BY <2>4
    <2>6. at(j + 1) = Loaded(at(j), ops[j + 1])
      BY Installs!FoldStep DEF Installed, at
    <2>7. HoldsNewest(at(j + 1), own, ops, j + 1)
      BY <2>4, <2>5, <2>6, InstallHolds
    <2>8. QED
      BY <2>3, <2>7
  <1>4. QED
    BY <1>1, <1>3 DEF none

-----------------------------------------------------------------------------
(***************************************************************************)
(* A host name without its first label ends it.                            *)
(***************************************************************************)
LEMMA TailEnds ==
  ASSUME NEW host \in HostNames, host # NoName
  PROVE  /\ Tail(host) \in HostNames /\ Len(Tail(host)) = Len(host) - 1
         /\ IsSuffix(Tail(host), host)
  <1> DEFINE tail == Tail(host)
             n == Len(host) - 1
             s == Reverse(tail)
             t == Reverse(host)
  <1>1. host \in Seq(STRING) /\ host # <<>>
    BY DEF HostNames, NoName
  <1>2. n \in Nat /\ Len(host) = n + 1
    <2>1. Len(host) \in Nat \ {0}
      BY <1>1, EmptySeq
    <2>2. QED
      BY <2>1
  <1>3. tail \in Seq(STRING) /\ Len(tail) = n /\ \A i \in 1..n : tail[i] = host[i + 1]
    BY <1>1, HeadTailProperties
  <1>4. /\ s = [i \in 1..n |-> tail[n - i + 1]]
        /\ t = [i \in 1..n + 1 |-> host[n + 1 - i + 1]]
    BY <1>2, <1>3 DEF Reverse
  <1> HIDE DEF tail, n, s, t
  <1>5. Len(s) = n /\ Len(t) = n + 1
    BY <1>2, <1>4
  <1>6. \A i \in 1..n : s[i] = t[i] /\ t[i] \in STRING
    <2> SUFFICES ASSUME NEW i \in 1..n PROVE s[i] = t[i] /\ t[i] \in STRING
      OBVIOUS
    <2>1. n - i + 1 \in 1..n /\ i \in 1..n + 1
      BY <1>2
    <2>2. s[i] = tail[n - i + 1] /\ tail[n - i + 1] = host[(n - i + 1) + 1]
      BY <1>3, <1>4, <2>1
    <2>3. t[i] = host[n + 1 - i + 1] /\ (n - i + 1) + 1 = n + 1 - i + 1
      BY <1>2, <1>4, <2>1
    <2>4. (n - i + 1) + 1 \in 1..Len(host)
      BY <1>2
    <2>5. host[(n - i + 1) + 1] \in STRING
      BY <1>1, <2>4, ElementOfSeq
    <2>6. QED
      BY <2>2, <2>3, <2>5
  <1> DEFINE a == SubSeq(s, 1, n)
             b == SubSeq(t, 1, n)
  <1>7. a \in Seq(STRING) /\ Len(a) = n /\ \A i \in 1..n : a[i] = s[i]
    <2>1. \A i \in 1..n : s[i] \in STRING
      BY <1>6
    <2>2. /\ a \in Seq(STRING) /\ Len(a) = IF 1 <= n THEN n - 1 + 1 ELSE 0
          /\ \A i \in 1..n - 1 + 1 : a[i] = s[1 + i - 1]
      BY <1>2, <2>1, SubSeqProperties
    <2>3. QED
      BY <1>2, <2>2
  <1>8. b \in Seq(STRING) /\ Len(b) = n /\ \A i \in 1..n : b[i] = t[i]
    <2>1. \A i \in 1..n : t[i] \in STRING
      BY <1>6
    <2>2. /\ b \in Seq(STRING) /\ Len(b) = IF 1 <= n THEN n - 1 + 1 ELSE 0
          /\ \A i \in 1..n - 1 + 1 : b[i] = t[1 + i - 1]
      BY <1>2, <2>1, SubSeqProperties
    <2>3. QED
      BY <1>2, <2>2
  <1>9. a = b
    <2>1. Len(a) = Len(b) /\ \A i \in 1..Len(a) : a[i] = b[i]
      BY <1>6, <1>7, <1>8
    <2>2. a \in Seq(STRING) /\ b \in Seq(STRING)
      BY <1>7, <1>8
    <2> HIDE DEF a, b
    <2>3. QED
      BY <2>1, <2>2, SeqEqual
  <1>10. IsPrefix(s, t)
    BY <1>2, <1>5, <1>9 DEF IsPrefix
  <1>11. QED
    BY <1>2, <1>3, <1>10 DEF IsSuffix, s, t, tail, HostNames

DomainNames == [wild : BOOLEAN, name : HostNames \ {NoName}]

\* The domain whose certificate a client that names host is to get
DomainOf(D, host) ==
  LET wild == [wild |-> TRUE, name |-> IF host = NoName THEN NoName ELSE Tail(host)]
  IN  IF Exactly(host) \in D THEN Exactly(host) ELSE IF wild \in D THEN wild ELSE NoDomain

(***************************************************************************)
(* match_certificate() finds it, whatever the order of the hash map: at    *)
(* most one wildcard stands for the first label of a host.                 *)
(***************************************************************************)
LEMMA MatchedDomain ==
  ASSUME NEW D \in SUBSET DomainNames, IsFiniteSet(D), NEW walk \in SetToSeqs(D),
         NEW host \in HostNames
  PROVE  MatchCertificate(walk, host) = DomainOf(D, host)
  <1>1. PICK n \in Nat : /\ DOMAIN walk = 1..n /\ Len(walk) = n
                         /\ \A i \in 1..n : walk[i] \in D
                         /\ \A e \in D : \E i \in 1..n : walk[i] = e
    BY WalksAll
  <1> DEFINE covers(d) == d.wild /\ Len(host) > 1 /\ IsSuffix(d.name, host) /\ Tail(host) = d.name
             hits == {i \in DOMAIN walk : covers(walk[i])}
             wild == [wild |-> TRUE, name |-> IF host = NoName THEN NoName ELSE Tail(host)]
             first == CHOOSE i \in hits : \A k \in hits : i <= k
  <1>2. Contains(walk, Exactly(host)) <=> Exactly(host) \in D
    BY <1>1 DEF Contains
  <1>3. MatchCertificate(walk, host) =
          IF Exactly(host) \in D THEN Exactly(host)
          ELSE IF hits = {} THEN NoDomain ELSE walk[first]
    BY <1>2 DEF MatchCertificate
  <1>4. \A d \in D : covers(d) <=> d = wild
    <2> SUFFICES ASSUME NEW d \in D PROVE covers(d) <=> d = wild
      OBVIOUS
    <2>1. /\ d \in DomainNames /\ d.name \in HostNames /\ d.name # NoName /\ d.wild \in BOOLEAN
          /\ d = [wild |-> d.wild, name |-> d.name]
      BY DEF DomainNames
    <2>2. CASE host = NoName
      <3>1. Len(host) = 0
        BY <2>2 DEF NoName
      <3>2. wild.name = NoName
        BY <2>2
      <3>3. ~covers(d)
        <4>1. ~(Len(host) > 1)
          BY <3>1
        <4>2. QED
          BY <4>1
      <3>4. d # wild
        BY <2>1, <3>2
      <3>5. QED
        BY <3>3, <3>4
    <2>3. CASE host # NoName
      <3>1. Tail(host) \in HostNames /\ Len(Tail(host)) = Len(host) - 1 /\ IsSuffix(Tail(host), host)
        BY <2>3, TailEnds
      <3>2. ASSUME d = wild PROVE covers(d)
        <4>1. d.wild /\ d.name = Tail(host)
          BY <2>3, <3>2
        <4>2. Len(Tail(host)) # 0 /\ Len(Tail(host)) \in Nat
          <5>1. Tail(host) \in Seq(STRING) /\ Tail(host) # <<>>
            BY <2>1, <3>1, <4>1 DEF HostNames, NoName
          <5>2. Len(Tail(host)) \in Nat \ {0}
            BY <5>1, EmptySeq
          <5>3. QED
            BY <5>2
        <4>3. Len(host) \in Nat
          BY LenProperties DEF HostNames
        <4>4. Len(host) > 1
          <5>1. \A a \in Nat, b \in Nat : b # 0 /\ b = a - 1 => a > 1
            OBVIOUS
          <5>2. Len(Tail(host)) = Len(host) - 1
            BY <3>1
          <5>3. QED
            BY ONLY <4>2, <4>3, <5>1, <5>2, Zenon
        <4>5. QED
          BY <3>1, <4>1, <4>4
      <3>3. ASSUME covers(d) PROVE d = wild
        <4>1. d.wild = TRUE /\ d.name = Tail(host)
          BY <2>1, <3>3
        <4>2. QED
          BY <2>1, <2>3, <4>1
      <3>4. QED
        BY <3>2, <3>3
    <2>4. QED
      BY <2>2, <2>3
  <1> HIDE DEF covers
  <1>5. hits = {i \in 1..n : walk[i] = wild}
    BY <1>1, <1>4
  <1> HIDE DEF hits, wild
  <1>6. hits = {} <=> wild \notin D
    BY <1>1, <1>5
  <1>7. ASSUME hits # {} PROVE walk[first] = wild
    <2>1. hits \in SUBSET Nat
      BY <1>5
    <2>2. \E i \in hits : \A k \in hits : i <= k
      BY <1>7, <2>1, LeastOf
    <2>3. first \in hits
      BY <2>2
    <2>4. QED
      BY <1>5, <2>3
  <1> HIDE DEF first
  <1>8. MatchCertificate(walk, host) =
          IF Exactly(host) \in D THEN Exactly(host) ELSE IF wild \in D THEN wild ELSE NoDomain
    BY <1>3, <1>6, <1>7
  <1>9. QED
    BY <1>8 DEF DomainOf, wild

(***************************************************************************)
(* What CertificateFresh says of one sample.                               *)
(***************************************************************************)
LEMMA CertificatesNewest ==
  ASSUME NEW l \in Loads
  PROVE  LET own == -1
             m == FoldLeft(Loaded, NoCertificates(own), l.ops)
             good == {i \in DOMAIN l.ops : l.ops[i].version # Missing}
             known(n) == {l.ops[i].domain : i \in {k \in good : k <= n /\ l.ops[k].op = "load"}}
             all == known(Len(l.ops))
             wild == [wild |-> TRUE, name |-> IF l.sni = NoName THEN NoName ELSE Tail(l.sni)]
             mine == IF Exactly(l.sni) \in all THEN Exactly(l.sni)
                     ELSE IF wild \in all THEN wild ELSE NoDomain
             fresh == {i \in good : mine \in known(i) /\ l.ops[i].domain \in {mine, NoDomain}}
             alone == {i \in good : Cardinality(known(i)) = 1 /\ l.ops[i].domain \in known(i) \cup {NoDomain}}
             newest(S) == l.ops[CHOOSE i \in S : \A k \in S : k <= i].version
         IN  \A walk \in SetToSeqs(DOMAIN m.certs) :
               /\ HasCertificateForDomain(walk, l.sni) <=> mine # NoDomain
               /\ GetClientContext(m, walk, l.sni) =
                    IF mine # NoDomain THEN newest(fresh)
                    ELSE IF alone # {} THEN newest(alone) ELSE own
  <1> DEFINE ops == l.ops
             sni == l.sni
             own == -1
             n == Len(ops)
             m == FoldLeft(Loaded, NoCertificates(own), ops)
             all == KnownAt(ops, n)
             mine == DomainOf(all, sni)
             fresh == FreshFor(ops, mine, n)
             alone == AloneAt(ops, n)
  <1>1. ops \in Seq(CertificateOps) /\ sni \in HostNames
    BY LoadsAssumption
  <1>2. n \in 0..Len(ops) /\ DOMAIN ops = 1..n
    BY <1>1
  <1>3. HoldsNewest(m, own, ops, n)
    BY <1>1, InstalledAll
  <1>4. IsFiniteSet(all) /\ NoDomain \notin all
    BY <1>1, <1>2, KnownFinite
  <1>5. all \in SUBSET DomainNames
    <2> SUFFICES ASSUME NEW d \in all PROVE d \in DomainNames
      OBVIOUS
    <2>1. PICK i \in DOMAIN ops : d = ops[i].domain
      BY DEF KnownAt, GoodAt
    <2>2. ops[i] \in CertificateOps
      BY <1>1
    <2>3. ops[i].domain \in DomainNames \cup {NoDomain}
      BY <2>2 DEF CertificateOps, DomainNames
    <2>4. QED
      BY <1>4, <2>1, <2>3
  <1>6. sni = NoName => mine = NoDomain
    <2>1. Exactly(NoName) = NoDomain
      BY DEF Exactly, NoDomain
    <2>2. [wild |-> TRUE, name |-> NoName] \notin all
      <3>1. \A d \in DomainNames : d.name # NoName
        BY DEF DomainNames
      <3>2. QED
        BY <1>5, <3>1
    <2>3. QED
      BY <1>4, <2>1, <2>2 DEF DomainOf
  <1>7. mine # NoDomain => mine \in all
    BY DEF DomainOf
  <1>8. fresh = {i \in GoodAt(ops) : mine \in KnownAt(ops, i) /\ ops[i].domain \in {mine, NoDomain}}
    BY <1>2 DEF FreshFor, GoodAt
  <1>9. alone = {i \in GoodAt(ops) : /\ Cardinality(KnownAt(ops, i)) = 1
                                     /\ ops[i].domain \in KnownAt(ops, i) \cup {NoDomain}}
    BY <1>2 DEF AloneAt, GoodAt
  <1>10. ASSUME NEW walk \in SetToSeqs(DOMAIN m.certs)
         PROVE  /\ HasCertificateForDomain(walk, sni) <=> mine # NoDomain
                /\ GetClientContext(m, walk, sni) =
                     IF mine # NoDomain THEN Newest(ops, fresh)
                     ELSE IF alone # {} THEN Newest(ops, alone) ELSE own
    <2> HIDE DEF m, ops, sni, own, n
    <2>1. DOMAIN m.certs = all
      BY <1>3 DEF HoldsNewest
    <2>2. MatchCertificate(walk, sni) = mine
      BY <1>1, <1>4, <1>5, <2>1, MatchedDomain
    <2>3. HasCertificateForDomain(walk, sni) <=> mine # NoDomain
      BY <2>2 DEF HasCertificateForDomain
    <2>4. GetClientContext(m, walk, sni) = IF mine = NoDomain THEN m.default ELSE m.certs[mine]
      BY <1>6, <2>2 DEF GetClientContext
    <2>5. mine # NoDomain => m.certs[mine] = Newest(ops, fresh)
      BY <1>3, <1>7 DEF HoldsNewest
    <2>6. m.default = IF alone = {} THEN own ELSE Newest(ops, alone)
      BY <1>3 DEF HoldsNewest
    <2>7. QED
      BY <2>3, <2>4, <2>5, <2>6
  <1>11. QED
    BY <1>8, <1>9, <1>10 DEF GoodAt, KnownAt, DomainOf, Newest

-----------------------------------------------------------------------------
\* Frames

(***************************************************************************)
(* A byte has a base of at least 21, so that the frame types are bytes.    *)
(***************************************************************************)
LEMMA BaseType ==
  /\ Base \in Nat \ {0} /\ Base > 20
  /\ \A n \in Nat : Power(Base, n) \in Nat \ {0}
  <1>1. Base \in Nat \ {0} /\ Base > 20
    BY BaseAssumption
  <1>2. QED
    BY <1>1, PowerType

(***************************************************************************)
(* A number below a divisor has the quotient 0, and only such a number.    *)
(***************************************************************************)
LEMMA NoQuotient ==
  ASSUME NEW n \in Nat, NEW b \in Nat \ {0}
  PROVE  n < b <=> n \div b = 0
  OBVIOUS

(***************************************************************************)
(* An array of n elements is a sequence of length n.                       *)
(***************************************************************************)
LEMMA OfLength ==
  ASSUME NEW S, NEW n \in Nat, NEW s \in [1..n -> S]
  PROVE  s \in Seq(S) /\ Len(s) = n
  OBVIOUS

(***************************************************************************)
(* Bytes gives n bytes.                                                    *)
(***************************************************************************)
LEMMA BytesType ==
  ASSUME NEW v \in Nat, NEW n \in Nat
  PROVE  /\ Bytes(v, n) \in [1..n -> 0..Base - 1]
         /\ Bytes(v, n) \in Seq(0..Base - 1) /\ Bytes(v, n) \in Seq(Nat)
         /\ Len(Bytes(v, n)) = n
  <1>1. ASSUME NEW i \in 1..n PROVE (v \div Power(Base, n - i)) % Base \in 0..Base - 1
    <2>1. Power(Base, n - i) \in Nat \ {0} /\ Base \in Nat \ {0}
      BY BaseType
    <2>2. v \div Power(Base, n - i) \in Nat
      BY <2>1, Divided
    <2>3. QED
      BY <2>1, <2>2, Divided
  <1>2. Bytes(v, n) \in [1..n -> 0..Base - 1]
    BY <1>1 DEF Bytes
  <1>3. Bytes(v, n) \in [1..n -> Nat]
    <2>1. 0..Base - 1 \in SUBSET Nat
      BY BaseType
    <2>2. QED
      BY <1>2, <2>1
  <1>4. Bytes(v, n) \in Seq(0..Base - 1)
    BY ONLY n \in Nat, <1>2, OfLength
  <1>5. Bytes(v, n) \in Seq(Nat) /\ Len(Bytes(v, n)) = n
    BY ONLY n \in Nat, <1>3, OfLength
  <1>6. QED
    BY <1>2, <1>4, <1>5

(***************************************************************************)
(* The number of a sequence of bytes is its value in base Base.            *)
(***************************************************************************)
LEMMA NumberIs ==
  ASSUME NEW n \in Nat, NEW s, DOMAIN s = 1..n
  PROVE  Number(s) = Value(Base, s, n)
  <1>1. Number(s) = (CHOOSE g : Digits!Unfolds(g, Base, 0, s, 1..n))[1..n]
    BY DEF Number, FoldLeft, MapThenFoldSet, Max, Digits!Unfolds, Digits!Top, Horner
  <1>2. QED
    BY <1>1 DEF Value, Digits!Fold

(***************************************************************************)
(* Reading the bytes of a number that fits them gives the number.          *)
(***************************************************************************)
LEMMA NumberOfBytes ==
  ASSUME NEW n \in Nat, NEW v \in Uint(n)
  PROVE  Number(Bytes(v, n)) = v
  <1> DEFINE s == Bytes(v, n)
             P(k) == Power(Base, n - k)
             Bad == {k \in 0..n : Value(Base, s, k) # v \div P(k)}
  <1>1. v \in Nat /\ v < Power(Base, n) /\ Base \in Nat \ {0} /\ \A k \in 0..n : P(k) \in Nat \ {0}
    <2>1. Power(Base, n) \in Nat /\ Base \in Nat \ {0} /\ \A k \in 0..n : P(k) \in Nat \ {0}
      BY BaseType
    <2>2. QED
      BY <2>1 DEF Uint
  <1>2. Bad = {}
    <2> SUFFICES ASSUME Bad # {} PROVE FALSE
      OBVIOUS
    <2>1. PICK k \in Bad : \A i \in Bad : k <= i
      <3>1. Bad \in SUBSET Nat
        OBVIOUS
      <3> HIDE DEF Bad
      <3>2. QED
        BY <3>1, LeastOf
    <2>2. k # 0
      <3>1. Value(Base, s, 0) = 0
        BY ValueSteps
      <3>2. v \div Power(Base, n) = 0
        BY <1>1, NoQuotient
      <3>3. P(0) = Power(Base, n)
        OBVIOUS
      <3>4. QED
        BY <3>1, <3>2, <3>3
    <2>3. PICK j \in Nat : k = j + 1
      BY <2>2
    <2>4. j \in 0..n /\ Value(Base, s, j) = v \div P(j)
      BY <2>1, <2>3
    <2>5. P(j) = P(k) * Base
      <3>1. n - k \in Nat /\ n - j = (n - k) + 1
        BY <2>3
      <3>2. Power(Base, n - j) = Base * Power(Base, n - k)
        BY <3>1, PowerSteps
      <3>3. P(k) \in Nat
        BY <1>1
      <3>4. QED
        BY <1>1, <3>2, <3>3
    <2>6. PICK y \in Nat : y = v \div P(k)
      BY <1>1, Divided
    <2>7. v \div P(j) = y \div Base
      <3>1. v \in Nat /\ P(k) \in Nat \ {0} /\ Base \in Nat \ {0}
        BY <1>1
      <3>2. v \div (P(k) * Base) = (v \div P(k)) \div Base
        BY ONLY <3>1, DividedTwice
      <3>3. QED
        BY <2>5, <2>6, <3>2
    <2>8. s[k] = y % Base
      <3>1. k \in 1..n
        BY <2>2
      <3>2. QED
        BY <2>6, <3>1 DEF Bytes
    <2>9. Value(Base, s, k) = Value(Base, s, j) * Base + s[k]
      BY <2>3, ValueSteps
    <2>10. y = (y \div Base) * Base + (y % Base)
      BY <1>1, Divided
    <2>11. QED
      BY <2>4, <2>6, <2>7, <2>8, <2>9, <2>10
  <1>3. Value(Base, s, n) = v \div P(n)
    BY <1>2
  <1>4. P(n) = 1
    BY PowerSteps
  <1>5. DOMAIN s = 1..n
    BY DEF Bytes
  <1> HIDE DEF s
  <1>6. Number(s) = v
    BY <1>1, <1>3, <1>4, <1>5, NumberIs
  <1>7. QED
    BY <1>6 DEF s

(***************************************************************************)
(* And the bytes of the number that some bytes make are these bytes.       *)
(***************************************************************************)
LEMMA BytesOfNumber ==
  ASSUME NEW n \in Nat, NEW s \in [1..n -> 0..Base - 1]
  PROVE  Number(s) \in Uint(n) /\ Bytes(Number(s), n) = s
  <1>1. PICK v \in Nat : v = Number(s) /\ v = Value(Base, s, n)
    <2>1. Base \in Nat \ {0} /\ \A i \in 1..n : s[i] \in Nat
      BY BaseType
    <2>2. QED
      BY <2>1, NumberIs, ValueType
  <1>2. Base \in Nat \ {0} /\ \A i \in 1..n : s[i] \in 0..Base - 1
    BY BaseType
  <1>3. ASSUME NEW k \in 0..n PROVE v \div Power(Base, n - k) = Value(Base, s, k)
    <2>1. Value(Base, s, n) \div Power(Base, n - k) = Value(Base, s, k)
      BY ONLY n \in Nat, k \in 0..n, <1>2, ValueHigh
    <2>2. QED
      BY <1>1, <2>1
  <1>4. v < Power(Base, n)
    <2>1. v \div Power(Base, n - 0) = Value(Base, s, 0)
      BY <1>3
    <2>2. v \div Power(Base, n) = 0
      BY <2>1, ValueSteps
    <2>3. QED
      BY <2>2, BaseType, NoQuotient
  <1>5. ASSUME NEW i \in 1..n PROVE (v \div Power(Base, n - i)) % Base = s[i]
    <2>1. PICK j \in 0..n : i = j + 1
      OBVIOUS
    <2>2. v \div Power(Base, n - i) = Value(Base, s, i)
      BY <1>3
    <2>3. Value(Base, s, i) = Value(Base, s, j) * Base + s[i]
      <3>1. j \in Nat
        OBVIOUS
      <3>2. Value(Base, s, j + 1) = Value(Base, s, j) * Base + s[j + 1]
        BY ONLY <3>1, ValueSteps
      <3>3. QED
        BY <2>1, <3>2
    <2>4. Value(Base, s, j) \in Nat
      BY <1>2, <2>1, ValueType
    <2>5. (Value(Base, s, j) * Base + s[i]) % Base = s[i]
      BY <1>2, <2>4, Division
    <2>6. QED
      BY <2>2, <2>3, <2>5
  <1>6. Bytes(v, n) = s
    BY <1>5 DEF Bytes
  <1>7. QED
    <2>1. Power(Base, n) \in Nat
      BY BaseType
    <2>2. QED
      BY <1>1, <1>4, <1>6, <2>1 DEF Uint

(***************************************************************************)
(* Bytes turned round twice are as they were.                              *)
(***************************************************************************)
LEMMA ReverseTwice ==
  ASSUME NEW n \in Nat, NEW s \in [1..n -> 0..Base - 1]
  PROVE  Reverse(s) \in [1..n -> 0..Base - 1] /\ Reverse(Reverse(s)) = s
  <1>1. Len(s) = n
    BY OfLength
  <1>2. Reverse(s) = [i \in 1..n |-> s[n - i + 1]]
    BY <1>1 DEF Reverse
  <1>3. \A i \in 1..n : n - i + 1 \in 1..n
    OBVIOUS
  <1>4. Reverse(s) \in [1..n -> 0..Base - 1]
    BY <1>2, <1>3
  <1> DEFINE t == Reverse(s)
  <1>5. Len(t) = n
    BY <1>4, OfLength
  <1>6. Reverse(t) = [i \in 1..n |-> t[n - i + 1]]
    BY <1>5 DEF Reverse
  <1>7. \A i \in 1..n : t[n - i + 1] = s[i]
    BY <1>2, <1>3
  <1>8. QED
    BY <1>4, <1>6, <1>7

(***************************************************************************)
(* htons() and htonl() undo themselves; what they gave, written as it lies *)
(* in memory, is in network order.                                         *)
(***************************************************************************)
LEMMA NetTwice ==
  ASSUME NEW n \in Nat, NEW v \in Uint(n)
  PROVE  Net(v, n) \in Uint(n) /\ Net(Net(v, n), n) = v /\ InMemory(Net(v, n), n) = Bytes(v, n)
  <1>1. v \in Nat
    <2>1. Power(Base, n) \in Nat
      BY BaseType
    <2>2. QED
      BY <2>1 DEF Uint
  <1>2. CASE ~LittleEndian
    BY <1>2 DEF Net, InMemory
  <1>3. CASE LittleEndian
    <2> DEFINE s == Bytes(v, n)
               t == Reverse(s)
    <2>1. s \in [1..n -> 0..Base - 1] /\ t \in [1..n -> 0..Base - 1] /\ Reverse(t) = s
      BY <1>1, BytesType, ReverseTwice
    <2>2. Net(v, n) = Number(t)
      BY <1>3 DEF Net
    <2> HIDE DEF s, t
    <2>3. Number(t) \in Uint(n) /\ Bytes(Number(t), n) = t
      BY <2>1, BytesOfNumber
    <2>4. Net(Number(t), n) = Number(s)
      BY <1>3, <2>1, <2>3 DEF Net
    <2>5. Number(s) = v
      BY NumberOfBytes DEF s
    <2>6. InMemory(Number(t), n) = s
      BY <1>3, <2>1, <2>3 DEF InMemory
    <2>7. QED
      BY <2>2, <2>3, <2>4, <2>5, <2>6 DEF s
  <1>4. QED
    BY <1>2, <1>3

-----------------------------------------------------------------------------
(***************************************************************************)
(* A frame is put together from pieces: what is where.                     *)
(***************************************************************************)
LEMMA Joined ==
  ASSUME NEW s \in Seq(Nat), NEW t \in Seq(Nat)
  PROVE  /\ s \o t \in Seq(Nat) /\ Len(s) \in Nat /\ Len(t) \in Nat
         /\ Len(s \o t) = Len(s) + Len(t)
         /\ \A i \in 1..Len(s) : (s \o t)[i] = s[i]
         /\ \A i \in 1..Len(t) : (s \o t)[Len(s) + i] = t[i]
  <1>1. Len(s) \in Nat /\ Len(t) \in Nat
    BY LenProperties
  <1>2. /\ s \o t \in Seq(Nat) /\ Len(s \o t) = Len(s) + Len(t)
        /\ \A i \in 1..Len(s) + Len(t) :
             (s \o t)[i] = IF i <= Len(s) THEN s[i] ELSE t[i - Len(s)]
    BY ConcatProperties
  <1> DEFINE st == s \o t
  <1> HIDE DEF st
  <1>3. ASSUME NEW m \in Nat, NEW n \in Nat,
               \A i \in 1..m + n : st[i] = IF i <= m THEN s[i] ELSE t[i - m]
        PROVE  (\A i \in 1..m : st[i] = s[i]) /\ \A i \in 1..n : st[m + i] = t[i]
    BY <1>3
  <1>4. (\A i \in 1..Len(s) : st[i] = s[i]) /\ \A i \in 1..Len(t) : st[Len(s) + i] = t[i]
    BY <1>1, <1>2, <1>3 DEF st
  <1>5. QED
    BY <1>1, <1>2, <1>4 DEF st

\* the bytes t stand in bs from place i on
Stands(t, bs, i) == \A j \in 1..Len(t) : bs[i + j - 1] = t[j]

(***************************************************************************)
(* Where some bytes stand they are cut out again.                          *)
(***************************************************************************)
LEMMA CutOut ==
  ASSUME NEW bs, NEW t \in Seq(Nat), NEW i \in Nat, Stands(t, bs, i)
  PROVE  SubSeq(bs, i, i + Len(t) - 1) = t
  <1>1. PICK n \in Nat : n = Len(t) /\ \A j \in 1..n : t[j] \in Nat
    <2>1. Len(t) \in Nat
      BY LenProperties
    <2>2. \A j \in 1..Len(t) : t[j] \in Nat
      BY ElementOfSeq
    <2>3. QED
      BY <2>1, <2>2
  <1>2. \A j \in 1..n : bs[i + j - 1] = t[j]
    BY <1>1 DEF Stands
  <1> DEFINE last == i + n - 1
             cut == SubSeq(bs, i, last)
  <1>3. last \in Int /\ \A k \in i..last : bs[k] \in Nat
    <2> SUFFICES ASSUME NEW k \in i..last PROVE bs[k] \in Nat
      OBVIOUS
    <2>1. k - i + 1 \in 1..n /\ i + (k - i + 1) - 1 = k
      OBVIOUS
    <2>2. QED
      BY <1>1, <1>2, <2>1
  <1>4. /\ cut \in Seq(Nat) /\ Len(cut) = IF i <= last THEN last - i + 1 ELSE 0
        /\ \A j \in 1..last - i + 1 : cut[j] = bs[i + j - 1]
    <2>1. i \in Int /\ last \in Int
      BY <1>3
    <2> HIDE DEF last
    <2>2. QED
      BY <1>3, <2>1, SubSeqProperties
  <1> HIDE DEF cut
  <1>5. Len(cut) = n /\ \A j \in 1..n : cut[j] = t[j]
    <2>1. last - i + 1 = n /\ (i <= last \/ n = 0)
      BY ONLY i \in Nat, n \in Nat
    <2>2. last \in Int
      BY ONLY <1>3
    <2> HIDE DEF last
    <2>3. QED
      BY ONLY <1>2, <1>4, <2>1, <2>2, i \in Nat
  <1>6. cut = t
    BY <1>1, <1>4, <1>5, SeqEqual
  <1>7. QED
    BY <1>1, <1>6 DEF cut

(***************************************************************************)
(* A field is read where its bytes stand.                                  *)
(***************************************************************************)
LEMMA FieldIs ==
  ASSUME NEW bs, NEW n \in Nat, NEW v \in Uint(n), NEW i \in Nat, Stands(Bytes(v, n), bs, i)
  PROVE  Field(bs, i, n) = v
  <1>1. v \in Nat
    <2>1. Power(Base, n) \in Nat
      BY BaseType
    <2>2. QED
      BY <2>1 DEF Uint
  <1>2. Bytes(v, n) \in Seq(Nat) /\ Len(Bytes(v, n)) = n
    BY <1>1, BytesType
  <1>3. SubSeq(bs, i, i + n - 1) = Bytes(v, n)
    BY <1>2, CutOut
  <1>4. QED
    BY <1>3, NumberOfBytes DEF Field

(***************************************************************************)
(* Bytes that stand in a piece stand in what the piece is part of.         *)
(***************************************************************************)
LEMMA StandsIn ==
  ASSUME NEW bs, NEW s, NEW t, NEW o \in Nat \ {0}, NEW i \in Nat \ {0},
         Len(s) \in Nat, Len(t) \in Nat, i + Len(t) - 1 <= Len(s),
         Stands(s, bs, o), Stands(t, s, i)
  PROVE  Stands(t, bs, o + i - 1)
  <1>1. PICK m \in Nat, n \in Nat : m = Len(s) /\ n = Len(t)
    OBVIOUS
  <1>2. (\A j \in 1..m : bs[o + j - 1] = s[j]) /\ \A j \in 1..n : s[i + j - 1] = t[j]
    BY <1>1 DEF Stands
  <1>3. ASSUME NEW j \in 1..n PROVE bs[o + i - 1 + j - 1] = t[j]
    <2>1. i + j - 1 \in 1..m /\ o + (i + j - 1) - 1 = o + i - 1 + j - 1
      BY <1>1
    <2>2. QED
      BY <1>2, <2>1
  <1>4. QED
    BY <1>1, <1>3 DEF Stands

(***************************************************************************)
(* Both pieces stand in what they are joined to.                           *)
(***************************************************************************)
LEMMA JoinedStands ==
  ASSUME NEW s \in Seq(Nat), NEW t \in Seq(Nat)
  PROVE  Stands(s, s \o t, 1) /\ Stands(t, s \o t, Len(s) + 1)
  <1>1. PICK m \in Nat, n \in Nat : m = Len(s) /\ n = Len(t)
    BY Joined
  <1> DEFINE st == s \o t
  <1>2. (\A i \in 1..m : st[i] = s[i]) /\ \A i \in 1..n : st[m + i] = t[i]
    BY <1>1, Joined
  <1> HIDE DEF st
  <1>3. (\A i \in 1..m : st[1 + i - 1] = s[i]) /\ \A i \in 1..n : st[m + 1 + i - 1] = t[i]
    BY <1>2
  <1>4. QED
    BY <1>1, <1>3 DEF Stands, st

(***************************************************************************)
(* What stood in a piece still does when another is added.                 *)
(***************************************************************************)
LEMMA StillStands ==
  ASSUME NEW s \in Seq(Nat), NEW t \in Seq(Nat), NEW u, NEW i \in Nat \ {0},
         Len(u) \in Nat, i + Len(u) - 1 <= Len(s), Stands(u, s, i)
  PROVE  Stands(u, s \o t, i)
  <1>1. Stands(s, s \o t, 1) /\ Len(s) \in Nat
    BY JoinedStands, Joined
  <1>2. Stands(u, s \o t, 1 + i - 1)
    BY <1>1, StandsIn
  <1>3. 1 + i - 1 = i
    OBVIOUS
  <1>4. QED
    BY <1>2, <1>3

(***************************************************************************)
(* The first n bytes of a frame: what stands in them stood in the frame.   *)
(***************************************************************************)
LEMMA CutShort ==
  ASSUME NEW bs \in Seq(Nat), NEW n \in 0..Len(bs)
  PROVE  LET cut == SubSeq(bs, 1, n)
         IN  /\ cut \in Seq(Nat) /\ Len(cut) = n
             /\ \A i \in 1..n : cut[i] = bs[i]
             /\ n = 0 => cut = <<>>
             /\ \A t : \A i \in Nat \ {0} :
                  Len(t) \in Nat /\ i + Len(t) - 1 <= n /\ Stands(t, bs, i) => Stands(t, cut, i)
  <1> DEFINE cut == SubSeq(bs, 1, n)
  <1>1. n \in Nat /\ \A i \in 1..n : bs[i] \in Nat
    <2>1. Len(bs) \in Nat
      BY LenProperties
    <2>2. \A i \in 1..Len(bs) : bs[i] \in Nat
      BY ElementOfSeq
    <2>3. QED
      BY <2>1, <2>2
  <1>2. /\ cut \in Seq(Nat) /\ Len(cut) = IF 1 <= n THEN n - 1 + 1 ELSE 0
        /\ \A i \in 1..n - 1 + 1 : cut[i] = bs[1 + i - 1]
    BY <1>1, SubSeqProperties
  <1>3. n = 0 => cut = <<>>
    BY <1>1, SubSeqEmpty
  <1> HIDE DEF cut
  <1>4. Len(cut) = n /\ \A i \in 1..n : cut[i] = bs[i]
    BY <1>1, <1>2
  <1>5. ASSUME NEW t, NEW i \in Nat \ {0}, Len(t) \in Nat, i + Len(t) - 1 <= n, Stands(t, bs, i)
        PROVE  Stands(t, cut, i)
    <2>1. PICK m \in Nat : m = Len(t)
      BY <1>5
    <2>2. \A j \in 1..m : bs[i + j - 1] = t[j]
      BY <1>5, <2>1 DEF Stands
    <2>3. \A j \in 1..m : i + j - 1 \in 1..n
      BY <1>1, <1>5, <2>1
    <2>4. \A j \in 1..m : cut[i + j - 1] = t[j]
      BY <1>4, <2>2, <2>3
    <2>5. QED
      BY <2>1, <2>4 DEF Stands
  <1>6. QED
    BY <1>2, <1>3, <1>4, <1>5 DEF cut

(***************************************************************************)
(* The type and the id of a frame.                                         *)
(***************************************************************************)
LEMMA Header ==
  ASSUME NEW type \in Nat, NEW id \in Nat
  PROVE  /\ <<type, id>> \in Seq(Nat) /\ Len(<<type, id>>) = 2
         /\ <<type, id>>[1] = type /\ <<type, id>>[2] = id
  OBVIOUS

\* the type and the id, one field, or two; n symbols with a type and an id
WithField(type, id, v, n) == <<type, id>> \o Bytes(v, n)
WithFields(type, id, v, w, n) == <<type, id>> \o Bytes(v, n) \o Bytes(w, n)
Headed(bs, type, id, n) == bs \in Seq(Nat) /\ Len(bs) = n /\ bs[1] = type /\ bs[2] = id

(***************************************************************************)
(* A frame of one field: OPEN and CLOSE.                                   *)
(***************************************************************************)
LEMMA OneField ==
  ASSUME NEW type \in Nat, NEW id \in Nat, NEW n \in Nat, NEW v \in Nat,
         NEW bs, bs = WithField(type, id, v, n)
  PROVE  Headed(bs, type, id, 2 + n) /\ Stands(Bytes(v, n), bs, 3)
  <1> DEFINE head == <<type, id>>
             field == Bytes(v, n)
  <1>1. head \in Seq(Nat) /\ Len(head) = 2 /\ head[1] = type /\ head[2] = id
    BY Header
  <1>2. field \in Seq(Nat) /\ Len(field) = n
    BY BytesType
  <1> HIDE DEF head, field
  <1>3. /\ head \o field \in Seq(Nat) /\ Len(head \o field) = Len(head) + Len(field)
        /\ \A i \in 1..Len(head) : (head \o field)[i] = head[i]
    BY <1>1, <1>2, Joined
  <1>4. Stands(field, head \o field, Len(head) + 1)
    BY <1>1, <1>2, JoinedStands
  <1>5. bs = head \o field
    BY DEF head, field, WithField
  <1>6. bs[1] = type /\ bs[2] = id
    BY <1>1, <1>3, <1>5
  <1>7. Len(head) + 1 = 3 /\ Len(head) + Len(field) = 2 + n
    BY <1>1, <1>2
  <1>8. Stands(field, bs, 3)
    BY <1>4, <1>5, <1>7
  <1>9. bs \in Seq(Nat) /\ Len(bs) = 2 + n
    BY <1>3, <1>5, <1>7
  <1>10. QED
    BY <1>6, <1>8, <1>9 DEF field, Headed

(***************************************************************************)
(* A frame of two fields: ACK, and the headers of DATA and ERROR.          *)
(***************************************************************************)
LEMMA TwoFields ==
  ASSUME NEW type \in Nat, NEW id \in Nat, NEW n \in Nat, NEW v \in Nat, NEW w \in Nat,
         NEW bs, bs = WithFields(type, id, v, w, n)
  PROVE  /\ Headed(bs, type, id, 2 + n + n)
         /\ Stands(Bytes(v, n), bs, 3) /\ Stands(Bytes(w, n), bs, 3 + n)
  <1> DEFINE s == WithField(type, id, v, n)
             first == Bytes(v, n)
             second == Bytes(w, n)
  <1>1. s \in Seq(Nat) /\ Len(s) = 2 + n /\ s[1] = type /\ s[2] = id /\ Stands(first, s, 3)
    <2>1. Headed(s, type, id, 2 + n) /\ Stands(first, s, 3)
      BY OneField
    <2> HIDE DEF s, first
    <2>2. QED
      BY <2>1 DEF Headed
  <1>2. second \in Seq(Nat) /\ Len(second) = n /\ Len(first) = n
    BY BytesType
  <1>3. bs = s \o second
    BY DEF WithField, WithFields
  <1> HIDE DEF s, first, second
  <1>4. /\ s \o second \in Seq(Nat) /\ Len(s \o second) = Len(s) + Len(second)
        /\ \A i \in 1..Len(s) : (s \o second)[i] = s[i]
    BY <1>1, <1>2, Joined
  <1>5. Stands(second, s \o second, Len(s) + 1)
    BY <1>1, <1>2, JoinedStands
  <1>6. Stands(first, s \o second, 3)
    <2>1. Len(first) \in Nat /\ 3 \in Nat \ {0} /\ 3 + Len(first) - 1 <= Len(s)
      BY <1>1, <1>2
    <2>2. QED
      BY <1>1, <1>2, <2>1, StillStands
  <1>7. bs[1] = type /\ bs[2] = id
    BY <1>1, <1>3, <1>4
  <1>8. Len(s) + 1 = 3 + n /\ Len(s) + Len(second) = 2 + n + n
    BY <1>1, <1>2
  <1>9. QED
    BY <1>3, <1>4, <1>5, <1>6, <1>7, <1>8 DEF first, second, Headed

(***************************************************************************)
(* The same with a text or data behind it.                                 *)
(***************************************************************************)
LEMMA TwoFieldsAndText ==
  ASSUME NEW type \in Nat, NEW id \in Nat, NEW n \in Nat, NEW v \in Nat, NEW w \in Nat,
         NEW text \in Seq(Nat),
         NEW bs, bs = WithFields(type, id, v, w, n) \o text
  PROVE  /\ Headed(bs, type, id, 2 + n + n + Len(text))
         /\ Stands(Bytes(v, n), bs, 3) /\ Stands(Bytes(w, n), bs, 3 + n)
         /\ Stands(text, bs, 3 + n + n) /\ Len(text) \in Nat
  <1> DEFINE s == WithFields(type, id, v, w, n)
             first == Bytes(v, n)
             second == Bytes(w, n)
  <1>1. /\ s \in Seq(Nat) /\ Len(s) = 2 + n + n /\ s[1] = type /\ s[2] = id
        /\ Stands(first, s, 3) /\ Stands(second, s, 3 + n)
    <2>1. Headed(s, type, id, 2 + n + n) /\ Stands(first, s, 3) /\ Stands(second, s, 3 + n)
      BY TwoFields
    <2> HIDE DEF s, first, second
    <2>2. QED
      BY <2>1 DEF Headed
  <1>2. Len(first) = n /\ Len(second) = n /\ Len(text) \in Nat
    BY BytesType, LenProperties
  <1>3. bs = s \o text
    OBVIOUS
  <1> HIDE DEF s, first, second
  <1>4. /\ s \o text \in Seq(Nat) /\ Len(s \o text) = Len(s) + Len(text)
        /\ \A i \in 1..Len(s) : (s \o text)[i] = s[i]
    BY <1>1, <1>2, Joined
  <1>5. Stands(text, s \o text, Len(s) + 1)
    BY <1>1, <1>2, JoinedStands
  <1>6. Stands(first, s \o text, 3)
    <2>1. Len(first) \in Nat /\ 3 \in Nat \ {0} /\ 3 + Len(first) - 1 <= Len(s)
      BY <1>1, <1>2
    <2>2. QED
      BY <1>1, <1>2, <2>1, StillStands
  <1>7. Stands(second, s \o text, 3 + n)
    <2>1. Len(second) \in Nat /\ 3 + n \in Nat \ {0} /\ 3 + n + Len(second) - 1 <= Len(s)
      BY <1>1, <1>2
    <2>2. QED
      BY <1>1, <1>2, <2>1, StillStands
  <1>8. bs[1] = type /\ bs[2] = id
    BY <1>1, <1>3, <1>4
  <1>9. Len(s) + 1 = 3 + n + n
    BY <1>1
  <1>10. QED
    BY <1>1, <1>2, <1>3, <1>4, <1>5, <1>6, <1>7, <1>8, <1>9 DEF first, second, Headed

-----------------------------------------------------------------------------
(***************************************************************************)
(* What fits n bytes is a natural number.                                  *)
(***************************************************************************)
LEMMA UintType ==
  ASSUME NEW n \in Nat, NEW v \in Uint(n)
  PROVE  v \in Nat
  <1>1. Power(Base, n) \in Nat
    BY BaseType
  <1>2. QED
    BY <1>1 DEF Uint

(***************************************************************************)
(* What htons() or htonl() gives fits the same bytes, and is undone.       *)
(***************************************************************************)
LEMMA Swapped ==
  ASSUME NEW n \in Nat, NEW v \in Uint(n)
  PROVE  \E w \in Uint(n) : w = Net(v, n) /\ w \in Nat /\ Net(w, n) = v
  <1>1. Net(v, n) \in Uint(n) /\ Net(Net(v, n), n) = v
    BY NetTwice
  <1>2. Net(v, n) \in Nat
    BY <1>1, UintType
  <1>3. QED
    BY <1>1, <1>2

\* deserialize() undoes serialize() for f, and takes nothing less than all of it
ReadsBack(f, bs) ==
  /\ Deserialize(bs) = f
  /\ \A n \in 0..Len(bs) - 1 : Deserialize(SubSeq(bs, 1, n)) = Thrown

\* the reader of a type
ReadAs(type, bs) ==
  CASE type = TCP_OPEN  -> DeserializeOpen(bs)
    [] type = TCP_DATA  -> DeserializeData(bs)
    [] type = TCP_CLOSE -> DeserializeClose(bs)
    [] type = TCP_ERROR -> DeserializeError(bs)
    [] type = TCP_ACK   -> DeserializeAck(bs)

(***************************************************************************)
(* A piece of a frame without its first byte is refused, and so is one for *)
(* which the reader of its type finds too few bytes.                       *)
(***************************************************************************)
LEMMA RefusedPieces ==
  ASSUME NEW bs \in Seq(Nat), NEW type \in TCP_OPEN..TCP_ACK, bs[1] = type,
         \A n \in 1..Len(bs) - 1 : ReadAs(type, SubSeq(bs, 1, n)) = Thrown
  PROVE  \A n \in 0..Len(bs) - 1 : Deserialize(SubSeq(bs, 1, n)) = Thrown
  <1> SUFFICES ASSUME NEW n \in 0..Len(bs) - 1
               PROVE  Deserialize(SubSeq(bs, 1, n)) = Thrown
    OBVIOUS
  <1>1. n \in 0..Len(bs)
    BY LenProperties
  <1> DEFINE cut == SubSeq(bs, 1, n)
  <1>2. cut \in Seq(Nat) /\ Len(cut) = n /\ (\A i \in 1..n : cut[i] = bs[i]) /\ (n = 0 => cut = <<>>)
    BY <1>1, CutShort
  <1>3. CASE n = 0
    <2>1. cut = <<>>
      BY <1>2, <1>3
    <2> HIDE DEF cut
    <2>2. Len(<<>>) = 0
      OBVIOUS
    <2>3. /\ DeserializeOpen(<<>>) = Thrown /\ DeserializeData(<<>>) = Thrown
          /\ DeserializeClose(<<>>) = Thrown /\ DeserializeError(<<>>) = Thrown
          /\ DeserializeAck(<<>>) = Thrown
      BY <2>2 DEF DeserializeOpen, DeserializeData, DeserializeClose, DeserializeError, DeserializeAck
    <2>4. Deserialize(<<>>) = Thrown
      BY <2>3 DEF Deserialize
    <2>5. QED
      BY <2>1, <2>4 DEF cut
  <1>4. CASE n # 0
    <2>1. n \in 1..Len(bs) - 1 /\ 1 \in 1..n
      BY <1>4
    <2>2. cut # <<>>
      <3>1. Len(<<>>) = 0
        OBVIOUS
      <3>2. QED
        BY <1>2, <1>4, <3>1
    <2>3. cut[1] = type
      BY <1>2, <2>1
    <2>4. ReadAs(type, cut) = Thrown
      BY <2>1
    <2>5. type \in {TCP_OPEN, TCP_DATA, TCP_CLOSE, TCP_ERROR, TCP_ACK}
      BY DEF TCP_OPEN, TCP_DATA, TCP_CLOSE, TCP_ERROR, TCP_ACK
    <2> HIDE DEF cut
    <2>6. Deserialize(cut) = Thrown
      BY <2>2, <2>3, <2>4, <2>5 DEF Deserialize, ReadAs, TCP_OPEN, TCP_DATA, TCP_CLOSE, TCP_ERROR, TCP_ACK
    <2>7. QED
      BY <2>6 DEF cut
  <1>5. QED
    BY <1>3, <1>4

(***************************************************************************)
(* What has bytes is not empty.                                            *)
(***************************************************************************)
LEMMA LenNotEmpty ==
  ASSUME NEW s, Len(s) \in Nat, Len(s) > 0
  PROVE  s # <<>>
  <1>1. Len(<<>>) = 0
    OBVIOUS
  <1>2. QED
    BY <1>1

(***************************************************************************)
(* OPEN is read back: its port goes through htons() and ntohs().           *)
(***************************************************************************)
LEMMA OpenReadsBack ==
  ASSUME NEW f \in [type : {TCP_OPEN}, id : Nat, port : Uint(2)]
  PROVE  ReadsBack(f, Serialize(f))
  <1>1. /\ f.type = TCP_OPEN /\ f.id \in Nat /\ f.port \in Uint(2)
        /\ f = [type |-> TCP_OPEN, id |-> f.id, port |-> f.port]
    OBVIOUS
  <1>2. PICK p \in Uint(2) : p = Net(f.port, 2) /\ p \in Nat /\ Net(p, 2) = f.port
    BY <1>1, Swapped
  <1>3. PICK bs : bs = Serialize(f) /\ bs = WithField(TCP_OPEN, f.id, p, 2)
    <2>1. Serialize(f) = SerializeOpen(f)
      BY <1>1 DEF Serialize, TCP_OPEN, TCP_DATA, TCP_CLOSE, TCP_ERROR, TCP_ACK
    <2>2. QED
      BY <1>2, <2>1 DEF SerializeOpen, WithField
  <1>4. /\ bs \in Seq(Nat) /\ Len(bs) = 2 + 2 /\ bs[1] = TCP_OPEN /\ bs[2] = f.id
        /\ Stands(Bytes(p, 2), bs, 3)
    <2>1. TCP_OPEN \in Nat /\ f.id \in Nat
      BY <1>1 DEF TCP_OPEN
    <2>2. bs = WithField(TCP_OPEN, f.id, p, 2) /\ p \in Nat /\ 2 \in Nat
      BY <1>2, <1>3
    <2>3. Headed(bs, TCP_OPEN, f.id, 2 + 2) /\ Stands(Bytes(p, 2), bs, 3)
      BY ONLY <2>1, <2>2, OneField
    <2>4. QED
      BY <2>3 DEF Headed
  <1>5. Field(bs, 3, 2) = p
    BY <1>4, FieldIs
  <1>6. Deserialize(bs) = f
    <2>1. DeserializeOpen(bs) = f
      BY <1>1, <1>2, <1>4, <1>5 DEF DeserializeOpen
    <2>2. bs # <<>>
      <3>1. Len(bs) \in Nat /\ Len(bs) > 0
        BY ONLY <1>4
      <3>2. QED
        BY ONLY <3>1, LenNotEmpty
    <2>3. QED
      BY <1>4, <2>1, <2>2 DEF Deserialize, TCP_OPEN, TCP_DATA, TCP_CLOSE, TCP_ERROR, TCP_ACK
  <1>7. ASSUME NEW n \in 1..Len(bs) - 1
        PROVE  DeserializeOpen(SubSeq(bs, 1, n)) = Thrown
    <2>1. n \in 0..Len(bs) /\ n < 4
      BY <1>4
    <2>2. Len(SubSeq(bs, 1, n)) = n
      BY <1>4, <2>1, CutShort
    <2>3. QED
      BY <2>1, <2>2 DEF DeserializeOpen
  <1>8. \A n \in 0..Len(bs) - 1 : Deserialize(SubSeq(bs, 1, n)) = Thrown
    <2>1. \A n \in 1..Len(bs) - 1 : ReadAs(TCP_OPEN, SubSeq(bs, 1, n)) = Thrown
      BY <1>7 DEF ReadAs, TCP_OPEN, TCP_DATA, TCP_CLOSE, TCP_ERROR, TCP_ACK
    <2>2. TCP_OPEN \in TCP_OPEN..TCP_ACK
      BY DEF TCP_OPEN, TCP_ACK
    <2>3. QED
      BY <1>4, <2>1, <2>2, RefusedPieces
  <1>9. QED
    BY <1>3, <1>6, <1>8 DEF ReadsBack

(***************************************************************************)
(* CLOSE is read back: its reason goes through htons() and ntohs().           *)
(***************************************************************************)
LEMMA CloseReadsBack ==
  ASSUME NEW f \in CloseFrames
  PROVE  ReadsBack(f, Serialize(f))
  <1>1. /\ f.type = TCP_CLOSE /\ f.id \in Nat /\ f.reason \in Uint(2)
        /\ f = [type |-> TCP_CLOSE, id |-> f.id, reason |-> f.reason]
    BY DEF CloseFrames
  <1>2. PICK p \in Uint(2) : p = Net(f.reason, 2) /\ p \in Nat /\ Net(p, 2) = f.reason
    BY <1>1, Swapped
  <1>3. PICK bs : bs = Serialize(f) /\ bs = WithField(TCP_CLOSE, f.id, p, 2)
    <2>1. Serialize(f) = SerializeClose(f)
      BY <1>1 DEF Serialize, TCP_OPEN, TCP_DATA, TCP_CLOSE, TCP_ERROR, TCP_ACK
    <2>2. QED
      BY <1>2, <2>1 DEF SerializeClose, WithField
  <1>4. /\ bs \in Seq(Nat) /\ Len(bs) = 2 + 2 /\ bs[1] = TCP_CLOSE /\ bs[2] = f.id
        /\ Stands(Bytes(p, 2), bs, 3)
    <2>1. TCP_CLOSE \in Nat /\ f.id \in Nat
      BY <1>1 DEF TCP_CLOSE
    <2>2. bs = WithField(TCP_CLOSE, f.id, p, 2) /\ p \in Nat /\ 2 \in Nat
      BY <1>2, <1>3
    <2>3. Headed(bs, TCP_CLOSE, f.id, 2 + 2) /\ Stands(Bytes(p, 2), bs, 3)
      BY ONLY <2>1, <2>2, OneField
    <2>4. QED
      BY <2>3 DEF Headed
  <1>5. Field(bs, 3, 2) = p
    BY <1>4, FieldIs
  <1>6. Deserialize(bs) = f
    <2>1. DeserializeClose(bs) = f
      <3>1. ~(Len(bs) < 4 \/ bs[1] # TCP_CLOSE)
        BY <1>4
      <3>2. DeserializeClose(bs) = [type |-> TCP_CLOSE, id |-> f.id, reason |-> f.reason]
        BY <1>2, <1>4, <1>5, <3>1 DEF DeserializeClose
      <3>3. QED
        BY <1>1, <3>2
    <2>2. bs # <<>>
      <3>1. Len(bs) \in Nat /\ Len(bs) > 0
        BY ONLY <1>4
      <3>2. QED
        BY ONLY <3>1, LenNotEmpty
    <2>3. QED
      BY <1>4, <2>1, <2>2 DEF Deserialize, TCP_OPEN, TCP_DATA, TCP_CLOSE, TCP_ERROR, TCP_ACK
  <1>7. ASSUME NEW n \in 1..Len(bs) - 1
        PROVE  DeserializeClose(SubSeq(bs, 1, n)) = Thrown
    <2>1. n \in 0..Len(bs) /\ n < 4
      BY <1>4
    <2>2. Len(SubSeq(bs, 1, n)) = n
      BY <1>4, <2>1, CutShort
    <2>3. QED
      BY <2>1, <2>2 DEF DeserializeClose
  <1>8. \A n \in 0..Len(bs) - 1 : Deserialize(SubSeq(bs, 1, n)) = Thrown
    <2>1. \A n \in 1..Len(bs) - 1 : ReadAs(TCP_CLOSE, SubSeq(bs, 1, n)) = Thrown
      BY <1>7 DEF ReadAs, TCP_OPEN, TCP_DATA, TCP_CLOSE, TCP_ERROR, TCP_ACK
    <2>2. TCP_CLOSE \in TCP_OPEN..TCP_ACK
      BY DEF TCP_OPEN, TCP_CLOSE, TCP_ACK
    <2>3. QED
      BY <1>4, <2>1, <2>2, RefusedPieces
  <1>9. QED
    BY <1>3, <1>6, <1>8 DEF ReadsBack

(***************************************************************************)
(* ACK is read back: both numbers go through htonl() and ntohl().          *)
(***************************************************************************)
LEMMA AckReadsBack ==
  ASSUME NEW f \in [type : {TCP_ACK}, id : Nat, seq : Uint(4), window : Uint(4)]
  PROVE  ReadsBack(f, Serialize(f))
  <1>1. /\ f.type = TCP_ACK /\ f.id \in Nat /\ f.seq \in Uint(4) /\ f.window \in Uint(4)
        /\ f = [type |-> TCP_ACK, id |-> f.id, seq |-> f.seq, window |-> f.window]
    OBVIOUS
  <1>2. PICK v \in Uint(4) : v = Net(f.seq, 4) /\ v \in Nat /\ Net(v, 4) = f.seq
    BY <1>1, Swapped
  <1>3. PICK w \in Uint(4) : w = Net(f.window, 4) /\ w \in Nat /\ Net(w, 4) = f.window
    BY <1>1, Swapped
  <1>4. PICK bs : bs = Serialize(f) /\ bs = WithFields(TCP_ACK, f.id, v, w, 4)
    <2>1. Serialize(f) = SerializeAck(f)
      BY <1>1 DEF Serialize, TCP_OPEN, TCP_DATA, TCP_CLOSE, TCP_ERROR, TCP_ACK
    <2>2. QED
      BY <1>2, <1>3, <2>1 DEF SerializeAck, WithFields
  <1>5. /\ bs \in Seq(Nat) /\ Len(bs) = 10 /\ bs[1] = TCP_ACK /\ bs[2] = f.id
        /\ Stands(Bytes(v, 4), bs, 3) /\ Stands(Bytes(w, 4), bs, 7)
    <2>1. TCP_ACK \in Nat /\ f.id \in Nat
      BY <1>1 DEF TCP_ACK
    <2>2. bs = WithFields(TCP_ACK, f.id, v, w, 4) /\ v \in Nat /\ w \in Nat /\ 4 \in Nat
      BY <1>2, <1>3, <1>4
    <2>3. /\ Headed(bs, TCP_ACK, f.id, 2 + 4 + 4)
          /\ Stands(Bytes(v, 4), bs, 3) /\ Stands(Bytes(w, 4), bs, 3 + 4)
      BY ONLY <2>1, <2>2, TwoFields
    <2>4. QED
      BY <2>3 DEF Headed
  <1>6. Field(bs, 3, 4) = v /\ Field(bs, 7, 4) = w
    BY <1>5, FieldIs
  <1>7. Deserialize(bs) = f
    <2>1. DeserializeAck(bs) = f
      <3>1. ~(Len(bs) < 10 \/ bs[1] # TCP_ACK)
        BY <1>5
      <3>2. DeserializeAck(bs) = [type |-> TCP_ACK, id |-> f.id, seq |-> f.seq, window |-> f.window]
        BY <1>2, <1>3, <1>5, <1>6, <3>1 DEF DeserializeAck
      <3>3. QED
        BY <1>1, <3>2
    <2>2. bs # <<>>
      <3>1. Len(bs) \in Nat /\ Len(bs) > 0
        BY ONLY <1>5
      <3>2. QED
        BY ONLY <3>1, LenNotEmpty
    <2>3. QED
      BY <1>5, <2>1, <2>2 DEF Deserialize, TCP_OPEN, TCP_DATA, TCP_CLOSE, TCP_ERROR, TCP_ACK
  <1>8. ASSUME NEW n \in 1..Len(bs) - 1
        PROVE  DeserializeAck(SubSeq(bs, 1, n)) = Thrown
    <2>1. n \in 0..Len(bs) /\ n < 10
      BY <1>5
    <2>2. Len(SubSeq(bs, 1, n)) = n
      BY <1>5, <2>1, CutShort
    <2>3. QED
      BY <2>1, <2>2 DEF DeserializeAck
  <1>9. \A n \in 0..Len(bs) - 1 : Deserialize(SubSeq(bs, 1, n)) = Thrown
    <2>1. \A n \in 1..Len(bs) - 1 : ReadAs(TCP_ACK, SubSeq(bs, 1, n)) = Thrown
      BY <1>8 DEF ReadAs, TCP_OPEN, TCP_DATA, TCP_CLOSE, TCP_ERROR, TCP_ACK
    <2>2. TCP_ACK \in TCP_OPEN..TCP_ACK
      BY DEF TCP_OPEN, TCP_ACK
    <2>3. QED
      BY <1>5, <2>1, <2>2, RefusedPieces
  <1>10. QED
    BY <1>4, <1>7, <1>9 DEF ReadsBack

(***************************************************************************)
(* ERROR is read back with its text, and refused as long as a byte of the  *)
(* text is missing: the length is swapped as often as the code is.         *)
(***************************************************************************)
LEMMA ErrorReadsBack ==
  ASSUME NEW f \in [type : {TCP_ERROR}, id : Nat, code : Uint(2), message : Payloads],
         Len(f.message) \in Uint(2)
  PROVE  ReadsBack(f, Serialize(f))
  <1>1. /\ f.type = TCP_ERROR /\ f.id \in Nat /\ f.code \in Uint(2) /\ f.message \in Payloads
        /\ f = [type |-> TCP_ERROR, id |-> f.id, code |-> f.code, message |-> f.message]
    OBVIOUS
  <1>2. PICK text \in Seq(Nat) : text = f.message /\ Len(text) \in Uint(2) /\ Len(text) \in Nat
    <2>1. 0..Base - 1 \in SUBSET Nat
      BY BaseType
    <2>2. f.message \in Seq(Nat)
      BY <1>1, <2>1, SeqMonotonic DEF Payloads
    <2>3. QED
      BY <2>2, LenProperties
  <1>3. PICK v \in Uint(2) : v = Net(f.code, 2) /\ v \in Nat /\ Net(v, 2) = f.code
    BY <1>1, Swapped
  <1>4. PICK w \in Uint(2) : w = Net(Len(text), 2) /\ w \in Nat /\ Net(w, 2) = Len(text)
    BY <1>2, Swapped
  <1>5. PICK bs : bs = Serialize(f) /\ bs = WithFields(TCP_ERROR, f.id, v, w, 2) \o text
    <2>1. Serialize(f) = SerializeError(f)
      BY <1>1 DEF Serialize, TCP_OPEN, TCP_DATA, TCP_CLOSE, TCP_ERROR, TCP_ACK
    <2>2. QED
      BY <1>2, <1>3, <1>4, <2>1 DEF SerializeError, WithFields
  <1>6. /\ bs \in Seq(Nat) /\ Len(bs) = 6 + Len(text) /\ bs[1] = TCP_ERROR /\ bs[2] = f.id
        /\ Stands(Bytes(v, 2), bs, 3) /\ Stands(Bytes(w, 2), bs, 5) /\ Stands(text, bs, 7)
    <2>1. TCP_ERROR \in Nat /\ f.id \in Nat
      BY <1>1 DEF TCP_ERROR
    <2>2. /\ bs = WithFields(TCP_ERROR, f.id, v, w, 2) \o text /\ text \in Seq(Nat)
          /\ v \in Nat /\ w \in Nat /\ 2 \in Nat
      BY <1>3, <1>4, <1>5
    <2>3. /\ Headed(bs, TCP_ERROR, f.id, 2 + 2 + 2 + Len(text))
          /\ Stands(Bytes(v, 2), bs, 3) /\ Stands(Bytes(w, 2), bs, 3 + 2)
          /\ Stands(text, bs, 3 + 2 + 2)
      BY ONLY <2>1, <2>2, TwoFieldsAndText
    <2>4. QED
      BY <1>2, <2>3 DEF Headed
  <1>7. Field(bs, 3, 2) = v /\ Field(bs, 5, 2) = w
    BY <1>6, FieldIs
  <1>8. Deserialize(bs) = f
    <2>1. SubSeq(bs, 7, 7 + Len(text) - 1) = text
      BY <1>6, CutOut
    <2>2. 7 + Len(text) - 1 = 6 + Len(text) /\ ~(Len(bs) < 6 + Len(text)) /\ ~(Len(bs) < 6)
      BY <1>2, <1>6
    <2>3. DeserializeError(bs) = f
      BY <1>1, <1>2, <1>3, <1>4, <1>6, <1>7, <2>1, <2>2 DEF DeserializeError
    <2>4. bs # <<>>
      <3>1. Len(bs) \in Nat /\ Len(bs) > 0
        BY ONLY <1>2, <1>6
      <3>2. QED
        BY ONLY <3>1, LenNotEmpty
    <2>5. QED
      BY <1>6, <2>3, <2>4 DEF Deserialize, TCP_OPEN, TCP_DATA, TCP_CLOSE, TCP_ERROR, TCP_ACK
  <1>9. ASSUME NEW n \in 1..Len(bs) - 1
        PROVE  DeserializeError(SubSeq(bs, 1, n)) = Thrown
    <2>1. PICK cut : cut = SubSeq(bs, 1, n)
      OBVIOUS
    <2>2. n \in 0..Len(bs) /\ n \in Nat /\ n < 6 + Len(text)
      BY <1>2, <1>6
    <2>3. /\ Len(cut) = n
          /\ \A t : \A i \in Nat \ {0} :
               Len(t) \in Nat /\ i + Len(t) - 1 <= n /\ Stands(t, bs, i) => Stands(t, cut, i)
      BY <1>6, <2>1, <2>2, CutShort
    <2>4. CASE n < 6
      BY <2>1, <2>3, <2>4 DEF DeserializeError
    <2>5. CASE ~(n < 6)
      <3>1. Len(Bytes(w, 2)) = 2
        BY <1>4, BytesType
      <3>2. Stands(Bytes(w, 2), cut, 5)
        <4>1. 5 \in Nat \ {0} /\ Len(Bytes(w, 2)) \in Nat /\ 5 + Len(Bytes(w, 2)) - 1 <= n
          <5>1. 5 + 2 - 1 <= n
            BY ONLY <2>2, <2>5
          <5>2. 5 \in Nat \ {0} /\ 2 \in Nat
            OBVIOUS
          <5>3. QED
            BY ONLY <5>1, <5>2, <3>1, Zenon
        <4>2. \A i \in Nat \ {0} :
                Len(Bytes(w, 2)) \in Nat /\ i + Len(Bytes(w, 2)) - 1 <= n /\ Stands(Bytes(w, 2), bs, i)
                  => Stands(Bytes(w, 2), cut, i)
          BY ONLY <2>3, Zenon
        <4>3. QED
          BY ONLY <1>6, <4>1, <4>2
      <3>3. Field(cut, 5, 2) = w
        BY <3>2, FieldIs
      <3>4. DeserializeError(cut) = Thrown
        BY <1>4, <2>2, <2>3, <3>3 DEF DeserializeError
      <3>5. QED
        BY <2>1, <3>4
    <2>6. QED
      BY <2>4, <2>5
  <1>10. \A n \in 0..Len(bs) - 1 : Deserialize(SubSeq(bs, 1, n)) = Thrown
    <2>1. \A n \in 1..Len(bs) - 1 : ReadAs(TCP_ERROR, SubSeq(bs, 1, n)) = Thrown
      BY <1>9 DEF ReadAs, TCP_OPEN, TCP_DATA, TCP_CLOSE, TCP_ERROR, TCP_ACK
    <2>2. TCP_ERROR \in TCP_OPEN..TCP_ACK
      BY DEF TCP_OPEN, TCP_ERROR, TCP_ACK
    <2>3. QED
      BY <1>6, <2>1, <2>2, RefusedPieces
  <1>11. QED
    BY <1>5, <1>8, <1>10 DEF ReadsBack

-----------------------------------------------------------------------------
(***************************************************************************)
(* What is left of a buffer after its first o symbols.                     *)
(***************************************************************************)
LEMMA Rest ==
  ASSUME NEW bs \in Seq(Nat), NEW o \in 0..Len(bs), NEW r, r = SubSeq(bs, o + 1, Len(bs))
  PROVE  /\ r \in Seq(Nat) /\ Len(r) = Len(bs) - o /\ Len(r) \in Nat
         /\ \A i \in 1..Len(bs) - o : r[i] = bs[o + i]
  <1>1. PICK n \in Nat : n = Len(bs) /\ o \in 0..n /\ \A i \in 1..n : bs[i] \in Nat
    <2>1. Len(bs) \in Nat
      BY LenProperties
    <2>2. \A i \in 1..Len(bs) : bs[i] \in Nat
      BY ElementOfSeq
    <2>3. QED
      BY <2>1, <2>2
  <1>2. o + 1 \in Int /\ n \in Int /\ \A i \in o + 1..n : bs[i] \in Nat
    BY <1>1
  <1>3. /\ SubSeq(bs, o + 1, n) \in Seq(Nat)
        /\ Len(SubSeq(bs, o + 1, n)) = IF o + 1 <= n THEN n - (o + 1) + 1 ELSE 0
        /\ \A i \in 1..n - (o + 1) + 1 : SubSeq(bs, o + 1, n)[i] = bs[o + 1 + i - 1]
    BY <1>2, SubSeqProperties
  <1>4. r = SubSeq(bs, o + 1, n)
    BY <1>1
  <1>5. /\ r \in Seq(Nat) /\ Len(r) = IF o + 1 <= n THEN n - (o + 1) + 1 ELSE 0
        /\ \A i \in 1..n - (o + 1) + 1 : r[i] = bs[o + 1 + i - 1]
    BY ONLY <1>3, <1>4
  <1>6. Len(r) = n - o
    BY ONLY <1>1, <1>5
  <1>7. \A i \in 1..n - o : r[i] = bs[o + i]
    BY ONLY <1>1, <1>5
  <1>8. n - o \in Nat
    BY ONLY <1>1
  <1>9. QED
    BY ONLY <1>1, <1>5, <1>6, <1>7, <1>8

(***************************************************************************)
(* What stands after those symbols stands at the front of what is left.    *)
(***************************************************************************)
LEMMA StandsAfter ==
  ASSUME NEW bs \in Seq(Nat), NEW o \in 0..Len(bs), NEW r, r = SubSeq(bs, o + 1, Len(bs)),
         NEW t, Len(t) \in Nat, o + Len(t) <= Len(bs), Stands(t, bs, o + 1)
  PROVE  Stands(t, r, 1)
  <1>1. PICK m \in Nat, n \in Nat : m = Len(t) /\ n = Len(bs)
    BY LenProperties
  <1>2. o \in 0..n /\ o + m <= n
    BY <1>1
  <1>3. \A j \in 1..m : bs[o + 1 + j - 1] = t[j]
    BY <1>1 DEF Stands
  <1>4. \A i \in 1..n - o : r[i] = bs[o + i]
    BY <1>1, Rest
  <1>5. \A j \in 1..m : r[1 + j - 1] = t[j]
    BY ONLY <1>2, <1>3, <1>4, m \in Nat, n \in Nat
  <1>6. QED
    BY <1>1, <1>5 DEF Stands

-----------------------------------------------------------------------------
(***************************************************************************)
(* st is s with t behind it.                                               *)
(***************************************************************************)
Behind(st, s, t) ==
  /\ st \in Seq(Nat) /\ Len(st) = Len(s) + Len(t) /\ Len(s) \in Nat /\ Len(t) \in Nat
  /\ Stands(s, st, 1) /\ Stands(t, st, Len(s) + 1)

LEMMA JoinedBehind ==
  ASSUME NEW s \in Seq(Nat), NEW t \in Seq(Nat), NEW st, st = s \o t
  PROVE  Behind(st, s, t)
  <1>1. /\ s \o t \in Seq(Nat) /\ Len(s \o t) = Len(s) + Len(t)
        /\ Len(s) \in Nat /\ Len(t) \in Nat
    BY Joined
  <1>2. Stands(s, s \o t, 1) /\ Stands(t, s \o t, Len(s) + 1)
    BY JoinedStands
  <1>3. QED
    BY ONLY <1>1, <1>2, st = s \o t DEF Behind

(***************************************************************************)
(* What stands in the front of a buffer stands in the buffer.              *)
(***************************************************************************)
LEMMA Within ==
  ASSUME NEW bs, NEW s, NEW t, NEW m \in Nat, NEW n \in Nat, NEW i \in Nat,
         Len(s) = m, Len(t) = n, i > 0, i + n <= m + 1, Stands(s, bs, 1), Stands(t, s, i)
  PROVE  Stands(t, bs, i)
  <1>1. (\A j \in 1..m : bs[1 + j - 1] = s[j]) /\ \A j \in 1..n : s[i + j - 1] = t[j]
    BY DEF Stands
  <1>2. \A j \in 1..n : bs[i + j - 1] = t[j]
    BY <1>1
  <1>3. QED
    BY <1>2 DEF Stands

\* a frame of the multiplexer, as it stands in a buffer from o + 1 on
MuxStands(type, id, payload, bs, o) ==
  /\ bs[o + 1] = type
  /\ Stands(Bytes(Len(id), 2), bs, o + 2) /\ Stands(id, bs, o + 4)
  /\ Stands(Bytes(Len(payload), 4), bs, o + 4 + Len(id))
  /\ Stands(payload, bs, o + 8 + Len(id))

MuxBytes(type, id, payload) ==
  MuxSerialize([type |-> type, id |-> id, payload |-> payload])

(***************************************************************************)
(* The fields of a frame that ProtocolMultiplexer writes.                  *)
(***************************************************************************)
LEMMA MuxFields ==
  ASSUME NEW type \in Nat, NEW id \in Seq(Nat), NEW payload \in Seq(Nat),
         NEW bs, bs = MuxBytes(type, id, payload)
  PROVE  /\ bs \in Seq(Nat) /\ Len(bs) = 7 + Len(id) + Len(payload)
         /\ Len(id) \in Nat /\ Len(payload) \in Nat
         /\ MuxStands(type, id, payload, bs, 0)
  <1>1. PICK i \in Nat, p \in Nat : i = Len(id) /\ p = Len(payload)
    BY LenProperties
  <1>2. PICK one : one = <<type>> /\ one \in Seq(Nat) /\ Len(one) = 1 /\ one[1] = type
    <2>1. <<type>> \in Seq(Nat) /\ Len(<<type>>) = 1 /\ <<type>>[1] = type
      OBVIOUS
    <2>2. QED
      BY <2>1
  <1>3. PICK ids : ids = Bytes(i, 2) /\ ids \in Seq(Nat) /\ Len(ids) = 2
    BY <1>1, BytesType
  <1>4. PICK sizes : sizes = Bytes(p, 4) /\ sizes \in Seq(Nat) /\ Len(sizes) = 4
    BY <1>1, BytesType
  <1>5. PICK a : a = one \o ids
    OBVIOUS
  <1>6. Behind(a, one, ids)
    BY <1>2, <1>3, <1>5, JoinedBehind
  <1>7. a \in Seq(Nat) /\ Len(a) = 3 /\ Stands(ids, a, 2) /\ Stands(one, a, 1)
    BY ONLY <1>2, <1>3, <1>6 DEF Behind
  <1>8. PICK b : b = a \o id
    OBVIOUS
  <1>9. Behind(b, a, id)
    BY <1>7, <1>8, JoinedBehind
  <1>10. b \in Seq(Nat) /\ Len(b) = 3 + i /\ Stands(id, b, 4) /\ Stands(a, b, 1)
    BY ONLY <1>1, <1>7, <1>9 DEF Behind
  <1>11. PICK c : c = b \o sizes
    OBVIOUS
  <1>12. Behind(c, b, sizes)
    BY <1>4, <1>10, <1>11, JoinedBehind
  <1>13. c \in Seq(Nat) /\ Len(c) = 7 + i /\ Stands(sizes, c, 4 + i)
    <2>1. c \in Seq(Nat) /\ Len(c) = (3 + i) + 4 /\ Stands(sizes, c, (3 + i) + 1)
      BY ONLY <1>4, <1>10, <1>12 DEF Behind
    <2>2. (3 + i) + 4 = 7 + i /\ (3 + i) + 1 = 4 + i
      OBVIOUS
    <2>3. QED
      BY ONLY <2>1, <2>2
  <1>14. bs = c \o payload
    BY <1>1, <1>2, <1>3, <1>4, <1>5, <1>8, <1>11 DEF MuxBytes, MuxSerialize
  <1>15. Behind(bs, c, payload)
    BY <1>13, <1>14, JoinedBehind
  <1>16. bs \in Seq(Nat) /\ Len(bs) = 7 + i + p /\ Stands(payload, bs, 8 + i)
    <2>1. bs \in Seq(Nat) /\ Len(bs) = (7 + i) + p /\ Stands(payload, bs, (7 + i) + 1)
      BY ONLY <1>1, <1>13, <1>15 DEF Behind
    <2>2. (7 + i) + 1 = 8 + i
      OBVIOUS
    <2>3. QED
      BY ONLY <2>1, <2>2
  <1>17. Len(a) = 3 /\ Len(b) = 3 + i /\ Len(c) = 7 + i /\ 3 + i \in Nat /\ 7 + i \in Nat /\ 3 \in Nat
    BY <1>7, <1>10, <1>13
  <1>18. Stands(c, bs, 1) /\ Stands(b, c, 1)
    BY <1>12, <1>15 DEF Behind
  <1>19. Stands(b, bs, 1)
    <2>1. 1 \in Nat /\ 1 > 0 /\ 1 + (3 + i) <= 7 + i + 1
      OBVIOUS
    <2>2. QED
      BY ONLY <1>17, <1>18, <2>1, Within
  <1>20. Stands(a, bs, 1)
    <2>1. 1 \in Nat /\ 1 > 0 /\ 1 + 3 <= 3 + i + 1
      OBVIOUS
    <2>2. QED
      BY ONLY <1>10, <1>17, <1>19, <2>1, Within
  <1>21. Stands(sizes, bs, 4 + i) /\ Stands(id, bs, 4) /\ Stands(ids, bs, 2)
    <2>1. Stands(sizes, bs, 4 + i)
      <3>1. 4 + i \in Nat /\ 4 + i > 0 /\ 4 + i + 4 <= 7 + i + 1 /\ 4 \in Nat
        OBVIOUS
      <3>2. QED
        BY ONLY <1>4, <1>13, <1>17, <1>18, <3>1, Within
    <2>2. Stands(id, bs, 4)
      <3>1. 4 \in Nat /\ 4 > 0 /\ 4 + i <= 3 + i + 1
        OBVIOUS
      <3>2. QED
        BY ONLY <1>1, <1>10, <1>17, <1>19, <3>1, Within
    <2>3. Stands(ids, bs, 2)
      <3>1. 2 \in Nat /\ 2 > 0 /\ 2 + 2 <= 3 + 1
        OBVIOUS
      <3>2. QED
        BY ONLY <1>3, <1>7, <1>17, <1>20, <3>1, Within
    <2>4. QED
      BY <2>1, <2>2, <2>3
  <1>22. bs[1] = type
    <2>1. a[1] = one[1]
      BY <1>2, <1>7 DEF Stands
    <2>2. bs[1] = a[1]
      BY <1>7, <1>20 DEF Stands
    <2>3. QED
      BY <1>2, <2>1, <2>2
  <1>23. MuxStands(type, id, payload, bs, 0)
    BY <1>1, <1>3, <1>4, <1>16, <1>21, <1>22 DEF MuxStands
  <1>24. QED
    BY <1>1, <1>16, <1>23

(***************************************************************************)
(* What ProtocolMultiplexer wrote is read back from the front of a buffer, *)
(* whatever follows it.                                                    *)
(***************************************************************************)
LEMMA MuxReads ==
  ASSUME NEW type \in Nat, NEW id \in Seq(Nat), NEW payload \in Seq(Nat),
         Len(id) \in Uint(2), Len(payload) \in Uint(4),
         NEW bs, bs = MuxBytes(type, id, payload),
         NEW r, Len(r) \in Nat, Len(bs) <= Len(r), Stands(bs, r, 1)
  PROVE  MuxDeserialize(r) = [type |-> type, id |-> id, payload |-> payload]
  <1>1. PICK i \in Nat, p \in Nat, n \in Nat : i = Len(id) /\ p = Len(payload) /\ n = Len(r)
    BY LenProperties
  <1>2. PICK ids, sizes : ids = Bytes(i, 2) /\ sizes = Bytes(p, 4) /\ Len(ids) = 2 /\ Len(sizes) = 4
    <2>1. Len(Bytes(i, 2)) = 2 /\ Len(Bytes(p, 4)) = 4
      BY <1>1, BytesType
    <2>2. QED
      BY <2>1
  <1>3. /\ Len(bs) = 7 + i + p /\ bs[1] = type /\ 7 + i + p \in Nat
        /\ Stands(ids, bs, 2) /\ Stands(id, bs, 4) /\ Stands(sizes, bs, 4 + i)
        /\ Stands(payload, bs, 8 + i)
    <2>1. /\ bs \in Seq(Nat) /\ Len(bs) = 7 + Len(id) + Len(payload)
          /\ MuxStands(type, id, payload, bs, 0)
      BY MuxFields
    <2>2. /\ bs[0 + 1] = type
          /\ Stands(ids, bs, 0 + 2) /\ Stands(id, bs, 0 + 4)
          /\ Stands(sizes, bs, 0 + 4 + i) /\ Stands(payload, bs, 0 + 8 + i)
      BY ONLY <1>1, <1>2, <2>1 DEF MuxStands
    <2>3. 0 + 1 = 1 /\ 0 + 2 = 2 /\ 0 + 4 = 4 /\ 0 + 4 + i = 4 + i /\ 0 + 8 + i = 8 + i
      OBVIOUS
    <2>4. QED
      BY ONLY <1>1, <2>1, <2>2, <2>3
  <1>4. Stands(ids, r, 2)
    <2>1. 2 \in Nat /\ 2 > 0 /\ 2 + 2 <= 7 + i + p + 1
      OBVIOUS
    <2>2. QED
      BY ONLY <1>2, <1>3, <2>1, Stands(bs, r, 1), Within
  <1>5. Stands(sizes, r, 4 + i)
    <2>1. 4 + i \in Nat /\ 4 + i > 0 /\ 4 + i + 4 <= 7 + i + p + 1 /\ 4 \in Nat
      OBVIOUS
    <2>2. QED
      BY ONLY <1>2, <1>3, <2>1, Stands(bs, r, 1), Within
  <1>6. Stands(id, r, 4)
    <2>1. 4 \in Nat /\ 4 > 0 /\ 4 + i <= 7 + i + p + 1 /\ i \in Nat
      OBVIOUS
    <2>2. QED
      BY ONLY <1>1, <1>3, <2>1, Stands(bs, r, 1), Within
  <1>7. Stands(payload, r, 8 + i)
    <2>1. 8 + i \in Nat /\ 8 + i > 0 /\ 8 + i + p <= 7 + i + p + 1 /\ p \in Nat
      OBVIOUS
    <2>2. QED
      BY ONLY <1>1, <1>3, <2>1, Stands(bs, r, 1), Within
  <1>8. r[1] = type
    <2>1. 1 \in 1..Len(bs) /\ \A j \in 1..Len(bs) : r[1 + j - 1] = bs[j]
      BY <1>3 DEF Stands
    <2>2. r[1 + 1 - 1] = bs[1]
      BY ONLY <2>1
    <2>3. QED
      BY ONLY <1>3, <2>2
  <1>9. Field(r, 2, 2) = i
    BY <1>1, <1>2, <1>4, FieldIs
  <1>10. Field(r, 4 + i, 4) = p
    <2>1. 4 + i \in Nat /\ p \in Uint(4) /\ Stands(Bytes(p, 4), r, 4 + i) /\ 4 \in Nat
      BY <1>1, <1>2, <1>5
    <2>2. QED
      BY ONLY <2>1, FieldIs
  <1>11. SubSeq(r, 4, 3 + i) = id
    <2>1. SubSeq(r, 4, 4 + i - 1) = id
      BY <1>1, <1>6, CutOut
    <2>2. 4 + i - 1 = 3 + i
      OBVIOUS
    <2>3. QED
      BY ONLY <2>1, <2>2
  <1>12. SubSeq(r, 8 + i, 7 + i + p) = payload
    <2>1. SubSeq(r, 8 + i, 8 + i + p - 1) = payload
      <3>1. 8 + i \in Nat
        OBVIOUS
      <3>2. QED
        BY <1>1, <1>7, <3>1, CutOut
    <2>2. 8 + i + p - 1 = 7 + i + p
      OBVIOUS
    <2>3. QED
      BY ONLY <2>1, <2>2
  <1>13. n >= 7 /\ 7 + i <= n /\ ~(7 + i + p > n)
    <2>1. 7 + i + p <= n
      BY <1>1, <1>3
    <2>2. QED
      BY ONLY <2>1, i \in Nat, p \in Nat, n \in Nat
  <1>14. MuxDeserialize(r) = [type |-> r[1], id |-> SubSeq(r, 4, 3 + i),
                              payload |-> SubSeq(r, 8 + i, 7 + i + p)]
    <2>1. /\ ~(Len(r) < 7) /\ Len(r) >= 7 /\ ~(7 + i > Len(r)) /\ 7 + i <= Len(r)
          /\ ~(7 + i + p > Len(r))
      BY ONLY <1>1, <1>13, i \in Nat, p \in Nat, n \in Nat
    <2>2. QED
      BY ONLY <1>9, <1>10, <2>1 DEF MuxDeserialize
  <1>15. QED
    BY ONLY <1>8, <1>11, <1>12, <1>14

(***************************************************************************)
(* What stands in a piece of a buffer.                                     *)
(***************************************************************************)
LEMMA InPiece ==
  ASSUME NEW bs \in Seq(Nat), NEW n \in 0..Len(bs), NEW cut, cut = SubSeq(bs, 1, n),
         NEW t, NEW m \in Nat, NEW i \in Nat, Len(t) = m, i > 0, i + m <= n + 1, Stands(t, bs, i)
  PROVE  Stands(t, cut, i)
  <1>1. n \in Nat /\ \A k \in 1..n : cut[k] = bs[k]
    <2>1. Len(bs) \in Nat
      BY LenProperties
    <2>2. QED
      BY <2>1, CutShort
  <1>2. \A j \in 1..m : bs[i + j - 1] = t[j]
    BY DEF Stands
  <1>3. \A j \in 1..m : i + j - 1 \in 1..n
    BY <1>1
  <1>4. \A j \in 1..m : cut[i + j - 1] = t[j]
    BY <1>1, <1>2, <1>3
  <1>5. QED
    BY <1>4 DEF Stands

\* next is out with a frame behind it
Sent(next, out, type, id, payload) == next = out \o MuxBytes(type, id, payload)

\* t begins with s
Begins(s, t) == Len(s) <= Len(t) /\ Stands(s, t, 1)

(***************************************************************************)
(* A frame that was put behind others is read from where they end, also    *)
(* when more was put behind it.                                            *)
(***************************************************************************)
LEMMA MuxAt ==
  ASSUME NEW type \in Nat, NEW id \in Seq(Nat), NEW payload \in Seq(Nat),
         Len(id) \in Uint(2), Len(payload) \in Uint(4),
         NEW out \in Seq(Nat), NEW next, Sent(next, out, type, id, payload),
         NEW all \in Seq(Nat), Begins(next, all)
  PROVE  MuxDeserialize(SubSeq(all, Len(out) + 1, Len(all)))
           = [type |-> type, id |-> id, payload |-> payload]
  <1>1. PICK bs : bs = MuxBytes(type, id, payload)
    OBVIOUS
  <1>2. bs \in Seq(Nat)
    BY <1>1, MuxFields
  <1>3. Behind(next, out, bs)
    BY <1>1, <1>2, JoinedBehind DEF Sent
  <1>4. PICK o \in Nat, m \in Nat, n \in Nat : o = Len(out) /\ m = Len(bs) /\ n = Len(all)
    BY <1>2, LenProperties
  <1>5. Len(next) = o + m /\ Stands(bs, next, o + 1) /\ o + m \in Nat
    BY ONLY <1>3, <1>4 DEF Behind
  <1>6. o + m <= n
    BY ONLY <1>4, <1>5, Begins(next, all) DEF Begins
  <1>7. Stands(bs, all, o + 1)
    <2>0. Stands(next, all, 1)
      BY DEF Begins
    <2>1. o + 1 \in Nat /\ o + 1 > 0 /\ o + 1 + m <= o + m + 1
      OBVIOUS
    <2>2. Len(bs) = m
      BY <1>4
    <2>3. QED
      BY ONLY <1>5, <2>0, <2>1, <2>2, m \in Nat, Within
  <1>8. PICK r : r = SubSeq(all, o + 1, n)
    OBVIOUS
  <1>9. Stands(bs, r, 1)
    <2>1. o \in 0..Len(all) /\ r = SubSeq(all, o + 1, Len(all)) /\ Len(bs) \in Nat /\ o + Len(bs) <= Len(all)
      BY ONLY <1>4, <1>6, <1>8
    <2>2. QED
      BY ONLY <1>7, <2>1, all \in Seq(Nat), StandsAfter
  <1>10. Len(r) \in Nat /\ Len(bs) <= Len(r)
    <2>1. o \in 0..Len(all) /\ r = SubSeq(all, o + 1, Len(all))
      BY ONLY <1>4, <1>6, <1>8
    <2>2. Len(r) = Len(all) - o
      BY ONLY <2>1, all \in Seq(Nat), Rest
    <2>3. QED
      BY ONLY <1>4, <1>6, <2>2
  <1>11. MuxDeserialize(r) = [type |-> type, id |-> id, payload |-> payload]
    BY <1>1, <1>9, <1>10, MuxReads
  <1>12. QED
    BY <1>4, <1>8, <1>11

(***************************************************************************)
(* A frame of the multiplexer is refused as long as a byte is missing.     *)
(***************************************************************************)
LEMMA MuxRefuses ==
  ASSUME NEW type \in Nat, NEW id \in Seq(Nat), NEW payload \in Seq(Nat),
         Len(id) \in Uint(2), Len(payload) \in Uint(4),
         NEW bs, bs = MuxBytes(type, id, payload), NEW n \in 0..Len(bs) - 1
  PROVE  MuxDeserialize(SubSeq(bs, 1, n)) = Thrown
  <1>1. PICK i \in Nat, p \in Nat : i = Len(id) /\ p = Len(payload)
    BY LenProperties
  <1>2. /\ bs \in Seq(Nat) /\ Len(bs) = 7 + i + p
        /\ MuxStands(type, id, payload, bs, 0)
    BY <1>1, MuxFields
  <1>3. n \in Nat /\ n < 7 + i + p /\ n \in 0..Len(bs)
    BY ONLY <1>2, n \in 0..Len(bs) - 1, i \in Nat, p \in Nat
  <1>4. PICK cut : cut = SubSeq(bs, 1, n)
    OBVIOUS
  <1>5. Len(cut) = n
    BY <1>2, <1>3, <1>4, CutShort
  <1>6. PICK ids, sizes : ids = Bytes(i, 2) /\ sizes = Bytes(p, 4) /\ Len(ids) = 2 /\ Len(sizes) = 4
    <2>1. Len(Bytes(i, 2)) = 2 /\ Len(Bytes(p, 4)) = 4
      BY <1>1, BytesType
    <2>2. QED
      BY <2>1
  <1>7. Stands(ids, bs, 2) /\ Stands(sizes, bs, 4 + i)
    <2>1. Stands(ids, bs, 0 + 2) /\ Stands(sizes, bs, 0 + 4 + i)
      BY ONLY <1>1, <1>2, <1>6 DEF MuxStands
    <2>2. 0 + 2 = 2 /\ 0 + 4 + i = 4 + i
      OBVIOUS
    <2>3. QED
      BY ONLY <2>1, <2>2
  <1>8. CASE n < 7
    <2>1. Len(cut) < 7
      BY <1>5, <1>8
    <2>2. ~(Len(cut) >= 7)
      BY <1>3, <1>5, <1>8
    <2>3. MuxDeserialize(cut) = Thrown
      BY ONLY <2>1, <2>2 DEF MuxDeserialize
    <2>4. QED
      BY <1>4, <2>3
  <1>9. CASE ~(n < 7)
    <2>1. Stands(ids, cut, 2)
      <3>1. 2 \in Nat /\ 2 > 0 /\ 2 + 2 <= n + 1
        BY ONLY <1>3, <1>9
      <3>2. QED
        BY ONLY <1>2, <1>3, <1>4, <1>6, <1>7, <3>1, InPiece
    <2>2. Field(cut, 2, 2) = i
      BY <1>1, <1>6, <2>1, FieldIs
    <2>3. CASE 7 + i > n
      <3>1. ~(Len(cut) < 7) /\ Len(cut) >= 7 /\ 7 + i > Len(cut) /\ ~(7 + i <= Len(cut))
        BY ONLY <1>3, <1>5, <1>9, <2>3, i \in Nat
      <3>2. MuxDeserialize(cut) = Thrown
        BY ONLY <2>2, <3>1 DEF MuxDeserialize
      <3>3. QED
        BY <1>4, <3>2
    <2>4. CASE ~(7 + i > n)
      <3>1. Stands(sizes, cut, 4 + i)
        <4>1. 4 + i \in Nat /\ 4 + i > 0 /\ 4 + i + 4 <= n + 1 /\ 4 \in Nat
          BY ONLY <1>3, <2>4, i \in Nat
        <4>2. QED
          BY ONLY <1>2, <1>3, <1>4, <1>6, <1>7, <4>1, InPiece
      <3>2. Field(cut, 4 + i, 4) = p
        <4>1. 4 + i \in Nat /\ p \in Uint(4) /\ Stands(Bytes(p, 4), cut, 4 + i) /\ 4 \in Nat
          BY <1>1, <1>6, <3>1
        <4>2. QED
          BY ONLY <4>1, FieldIs
      <3>3. /\ ~(Len(cut) < 7) /\ Len(cut) >= 7 /\ ~(7 + i > Len(cut)) /\ 7 + i <= Len(cut)
            /\ 7 + i + p > Len(cut)
        BY ONLY <1>3, <1>5, <1>9, <2>4, i \in Nat, p \in Nat
      <3>4. MuxDeserialize(cut) = Thrown
        BY ONLY <2>2, <3>2, <3>3 DEF MuxDeserialize
      <3>5. QED
        BY <1>4, <3>4
    <2>5. QED
      BY <2>3, <2>4
  <1>10. QED
    BY <1>8, <1>9

-----------------------------------------------------------------------------
(***************************************************************************)
(* Every frame but DATA is read back.                                      *)
(***************************************************************************)
LEMMA FrameReadBack ==
  ASSUME NEW f \in Frames
  PROVE  ReadsBack(f, Serialize(f))
  <1>1. CASE f \in [type : {TCP_OPEN}, id : Nat, port : Uint(2)]
    BY <1>1, OpenReadsBack
  <1>2. CASE f \in CloseFrames
    BY <1>2, CloseReadsBack
  <1>3. CASE f \in [type : {TCP_ACK}, id : Nat, seq : Uint(4), window : Uint(4)]
    BY <1>3, AckReadsBack
  <1>4. CASE /\ f \in [type : {TCP_ERROR}, id : Nat, code : Uint(2), message : Payloads]
             /\ Len(f.message) \in Uint(2)
    BY <1>4, ErrorReadsBack
  <1>5. QED
    BY <1>1, <1>2, <1>3, <1>4, FramesAssumption

(***************************************************************************)
(* A byte has a value of 20, and so has a number of more bytes.            *)
(***************************************************************************)
LEMMA BaseFits ==
  ASSUME NEW n \in Nat
  PROVE  \A v \in 0..20 : v \in 0..Power(Base, n + 1) - 1
  <1>1. PICK p \in Nat \ {0}, b \in Nat : p = Power(Base, n) /\ b = Base /\ b > 20
    BY BaseType
  <1>2. Power(Base, n + 1) = b * p
    BY <1>1, PowerSteps
  <1>3. b * p = b * (p - 1) + b /\ b * (p - 1) \in Nat
    OBVIOUS
  <1>4. QED
    BY <1>1, <1>2, <1>3

(***************************************************************************)
(* A buffer begins what it grows into, and so on.                 *)
(***************************************************************************)
LEMMA BeginsJoined ==
  ASSUME NEW s \in Seq(Nat), NEW t \in Seq(Nat), NEW st, st = s \o t
  PROVE  Begins(s, st) /\ st \in Seq(Nat)
  <1>1. Behind(st, s, t)
    BY JoinedBehind
  <1>2. QED
    BY ONLY <1>1 DEF Behind, Begins

LEMMA BeginsItself ==
  ASSUME NEW s \in Seq(Nat)
  PROVE  Begins(s, s)
  <1>1. Len(s) \in Nat
    BY LenProperties
  <1>2. \A j \in 1..Len(s) : s[1 + j - 1] = s[j]
    BY <1>1
  <1>3. QED
    BY <1>1, <1>2 DEF Begins, Stands

LEMMA BeginsOn ==
  ASSUME NEW s \in Seq(Nat), NEW t \in Seq(Nat), NEW u \in Seq(Nat), Begins(s, t), Begins(t, u)
  PROVE  Begins(s, u)
  <1>1. PICK l \in Nat, m \in Nat, n \in Nat : l = Len(s) /\ m = Len(t) /\ n = Len(u)
    BY LenProperties
  <1>2. l <= m /\ m <= n /\ Stands(s, t, 1) /\ Stands(t, u, 1)
    BY <1>1 DEF Begins
  <1>3. 1 \in Nat /\ 1 > 0 /\ 1 + l <= m + 1
    BY <1>2
  <1>4. Stands(s, u, 1)
    BY ONLY <1>1, <1>2, <1>3, l \in Nat, m \in Nat, Within
  <1>5. l <= n
    BY ONLY <1>2, l \in Nat, m \in Nat, n \in Nat
  <1>6. QED
    BY ONLY <1>1, <1>4, <1>5 DEF Begins

(***************************************************************************)
(* Four frames of the multiplexer, one behind the other, are read one      *)
(* after the other.                                                        *)
(***************************************************************************)
LEMMA MuxReadBack ==
  ASSUME NEW s \in MuxSends
  PROVE  LET one == MuxSendData(<<>>, s.id, s.data)
             two == MuxSendWindow(one, s.id, s.window)
             three == MuxSendError(two, s.id, s.data)
             four == MuxSendClose(three, s.id)
             at(out) == MuxDeserialize(SubSeq(four, Len(out) + 1, Len(four)))
             mux(type, payload) == [type |-> type, id |-> s.id, payload |-> payload]
         IN  /\ at(<<>>) = mux(MUX_DATA, s.data)
             /\ at(one) = mux(MUX_WINDOW, Bytes(s.window, 4))
             /\ at(two) = mux(MUX_ERROR, s.data)
             /\ at(three) = mux(MUX_CLOSE, <<>>)
             /\ \A n \in 0..Len(one) - 1 : MuxDeserialize(SubSeq(one, 1, n)) = Thrown
  <1>1. PICK id \in Seq(Nat), data \in Seq(Nat), window \in Uint(4) :
          /\ id = s.id /\ data = s.data /\ window = s.window
          /\ Len(id) \in Uint(2) /\ Len(data) \in Uint(4)
    <2>1. 0..Base - 1 \in SUBSET Nat
      BY BaseType
    <2>2. Seq(0..Base - 1) \subseteq Seq(Nat)
      BY <2>1, SeqMonotonic
    <2>3. /\ s.id \in Seq(0..Base - 1) /\ Len(s.id) \in Uint(2)
          /\ s.data \in Seq(0..Base - 1) /\ Len(s.data) \in Uint(4) /\ s.window \in Uint(4)
      BY MuxSendsAssumption DEF Payloads
    <2>4. QED
      BY <2>2, <2>3
  <1>2. PICK w \in Seq(Nat) : w = Bytes(window, 4) /\ Len(w) \in Uint(4)
    <2>1. window \in Nat
      BY <1>1, UintType
    <2>2. Bytes(window, 4) \in Seq(Nat) /\ Len(Bytes(window, 4)) = 4
      BY <2>1, BytesType
    <2>3. 4 \in Uint(4)
      <3>1. 4 \in 0..Power(Base, 3 + 1) - 1
        <4>1. 4 \in 0..20 /\ 3 \in Nat
          OBVIOUS
        <4>2. QED
          BY ONLY <4>1, BaseFits
      <3>2. 3 + 1 = 4
        OBVIOUS
      <3>3. QED
        BY <3>1, <3>2 DEF Uint
    <2>4. QED
      BY <2>2, <2>3
  <1> DEFINE one == MuxSendData(<<>>, s.id, s.data)
             two == MuxSendWindow(one, s.id, s.window)
             three == MuxSendError(two, s.id, s.data)
             four == MuxSendClose(three, s.id)
  <1>3. /\ one = <<>> \o MuxBytes(MUX_DATA, id, data)
        /\ two = one \o MuxBytes(MUX_WINDOW, id, w)
        /\ three = two \o MuxBytes(MUX_ERROR, id, data)
        /\ four = three \o MuxBytes(MUX_CLOSE, id, <<>>)
    BY <1>1, <1>2
       DEF MuxBytes, MuxSendData, MuxSendWindow, MuxSendError, MuxSendClose
  <1> HIDE DEF one, two, three, four
  <1>4. /\ MUX_DATA \in Nat /\ MUX_WINDOW \in Nat /\ MUX_ERROR \in Nat /\ MUX_CLOSE \in Nat
        /\ <<>> \in Seq(Nat)
    BY DEF MUX_DATA, MUX_WINDOW, MUX_ERROR, MUX_CLOSE
  <1>5. Len(<<>>) \in Uint(4)
    <2>1. Len(<<>>) = 0
      OBVIOUS
    <2>2. Power(Base, 4) \in Nat \ {0}
      BY BaseType
    <2>3. QED
      BY <2>1, <2>2 DEF Uint
  <1>6. /\ MuxBytes(MUX_DATA, id, data) \in Seq(Nat) /\ MuxBytes(MUX_WINDOW, id, w) \in Seq(Nat)
        /\ MuxBytes(MUX_ERROR, id, data) \in Seq(Nat) /\ MuxBytes(MUX_CLOSE, id, <<>>) \in Seq(Nat)
    BY <1>4, MuxFields
  <1>7. one = MuxBytes(MUX_DATA, id, data) /\ one \in Seq(Nat)
    BY <1>3, <1>6
  <1>8. Begins(one, two) /\ two \in Seq(Nat)
    BY <1>3, <1>6, <1>7, BeginsJoined
  <1>9. Begins(two, three) /\ three \in Seq(Nat)
    BY <1>3, <1>6, <1>8, BeginsJoined
  <1>10. Begins(three, four) /\ four \in Seq(Nat)
    BY ONLY <1>3, <1>6, <1>9, BeginsJoined
  <1>11. Begins(two, four) /\ Begins(four, four)
    <2>1. Begins(two, four)
      BY ONLY <1>8, <1>9, <1>10, BeginsOn
    <2>2. Begins(four, four)
      BY ONLY <1>10, BeginsItself
    <2>3. QED
      BY <2>1, <2>2
  <1>12. Begins(one, four)
    BY ONLY <1>7, <1>8, <1>10, <1>11, BeginsOn
  <1> DEFINE at(out) == MuxDeserialize(SubSeq(four, Len(out) + 1, Len(four)))
             mux(type, payload) == [type |-> type, id |-> id, payload |-> payload]
  <1>13. at(<<>>) = mux(MUX_DATA, data)
    <2>1. PICK none : none = <<>>
      OBVIOUS
    <2>2. /\ Sent(one, none, MUX_DATA, id, data) /\ Begins(one, four)
          /\ MUX_DATA \in Nat /\ id \in Seq(Nat) /\ data \in Seq(Nat)
          /\ Len(id) \in Uint(2) /\ Len(data) \in Uint(4)
          /\ none \in Seq(Nat) /\ four \in Seq(Nat)
      BY <1>1, <1>3, <1>4, <1>10, <1>12, <2>1 DEF Sent
    <2>3. at(none) = mux(MUX_DATA, data)
      BY ONLY <2>2, MuxAt DEF at, mux
    <2>4. QED
      BY ONLY <2>1, <2>3
  <1>14. at(one) = mux(MUX_WINDOW, w)
    <2>1. /\ Sent(two, one, MUX_WINDOW, id, w) /\ Begins(two, four)
          /\ MUX_WINDOW \in Nat /\ id \in Seq(Nat) /\ w \in Seq(Nat)
          /\ Len(id) \in Uint(2) /\ Len(w) \in Uint(4)
          /\ one \in Seq(Nat) /\ four \in Seq(Nat)
      BY <1>1, <1>2, <1>3, <1>4, <1>7, <1>10, <1>11 DEF Sent
    <2>2. QED
      BY ONLY <2>1, MuxAt DEF at, mux
  <1>15. at(two) = mux(MUX_ERROR, data)
    <2>1. /\ Sent(three, two, MUX_ERROR, id, data) /\ Begins(three, four)
          /\ MUX_ERROR \in Nat /\ id \in Seq(Nat) /\ data \in Seq(Nat)
          /\ Len(id) \in Uint(2) /\ Len(data) \in Uint(4)
          /\ two \in Seq(Nat) /\ four \in Seq(Nat)
      BY <1>1, <1>3, <1>4, <1>8, <1>10 DEF Sent
    <2>2. QED
      BY ONLY <2>1, MuxAt DEF at, mux
  <1>16. at(three) = mux(MUX_CLOSE, <<>>)
    <2>1. PICK none : none = <<>>
      OBVIOUS
    <2>2. /\ Sent(four, three, MUX_CLOSE, id, none) /\ Begins(four, four)
          /\ MUX_CLOSE \in Nat /\ id \in Seq(Nat) /\ none \in Seq(Nat)
          /\ Len(id) \in Uint(2) /\ Len(none) \in Uint(4)
          /\ three \in Seq(Nat) /\ four \in Seq(Nat)
      BY <1>1, <1>3, <1>4, <1>5, <1>9, <1>10, <1>11, <2>1 DEF Sent
    <2>3. at(three) = mux(MUX_CLOSE, none)
      BY ONLY <2>2, MuxAt DEF at, mux
    <2>4. QED
      BY ONLY <2>1, <2>3
  <1>17. \A n \in 0..Len(one) - 1 : MuxDeserialize(SubSeq(one, 1, n)) = Thrown
    BY <1>1, <1>4, <1>7, MuxRefuses
  <1>18. QED
    BY <1>1, <1>2, <1>13, <1>14, <1>15, <1>16, <1>17 DEF one, two, three, four

-----------------------------------------------------------------------------
\* What the agent writes, read by the server

\* two numbers of four bytes, and what follows them; where they stand in r
WithData(type, id, v, w, text) == WithFields(type, id, v, w, 4) \o text
DataAt(bs, type, id, v, w, text, r) ==
  /\ bs \in Seq(Nat) /\ Len(text) \in Nat /\ Len(bs) = 10 + Len(text)
  /\ r[1] = type /\ r[2] = id
  /\ Stands(Bytes(v, 4), r, 3) /\ Stands(Bytes(w, 4), r, 7) /\ Stands(text, r, 11)

(***************************************************************************)
(* A type, an id and two numbers of four bytes with what follows them: all *)
(* of it stands there still with more behind it.                           *)
(***************************************************************************)
LEMMA DataInFront ==
  ASSUME NEW type \in Nat, NEW id \in Nat, NEW v \in Nat, NEW w \in Nat, NEW text \in Seq(Nat),
         NEW bs, bs = WithData(type, id, v, w, text), NEW r, Begins(bs, r)
  PROVE  DataAt(bs, type, id, v, w, text, r)
  <1>1. PICK l \in Nat : l = Len(text)
    BY LenProperties
  <1>2. /\ bs \in Seq(Nat) /\ Len(bs) = 2 + 4 + 4 + Len(text) /\ bs[1] = type /\ bs[2] = id
        /\ Stands(Bytes(v, 4), bs, 3) /\ Stands(Bytes(w, 4), bs, 3 + 4)
        /\ Stands(text, bs, 3 + 4 + 4)
    <2>1. /\ Headed(bs, type, id, 2 + 4 + 4 + Len(text))
          /\ Stands(Bytes(v, 4), bs, 3) /\ Stands(Bytes(w, 4), bs, 3 + 4)
          /\ Stands(text, bs, 3 + 4 + 4)
      BY TwoFieldsAndText DEF WithData
    <2>2. QED
      BY ONLY <2>1 DEF Headed
  <1>3. /\ 2 + 4 + 4 + l = 10 + l /\ 3 + 4 = 7 /\ 3 + 4 + 4 = 11 /\ 10 + l \in Nat /\ 4 \in Nat
        /\ 3 \in Nat /\ 7 \in Nat /\ 11 \in Nat /\ 3 > 0 /\ 7 > 0 /\ 11 > 0
        /\ 3 + 4 <= 10 + l + 1 /\ 7 + 4 <= 10 + l + 1 /\ 11 + l <= 10 + l + 1
    OBVIOUS
  <1>4. Len(bs) = 10 + l
    BY ONLY <1>1, <1>2, <1>3
  <1>5. Stands(bs, r, 1)
    BY DEF Begins
  <1>6. Len(Bytes(v, 4)) = 4 /\ Len(Bytes(w, 4)) = 4
    BY BytesType
  <1>7. Stands(Bytes(v, 4), bs, 3) /\ Stands(Bytes(w, 4), bs, 7) /\ Stands(text, bs, 11)
    BY ONLY <1>2, <1>3
  <1>8. Stands(Bytes(v, 4), r, 3)
    BY ONLY <1>3, <1>4, <1>5, <1>6, <1>7, Within
  <1>9. Stands(Bytes(w, 4), r, 7)
    BY ONLY <1>3, <1>4, <1>5, <1>6, <1>7, Within
  <1>10. Stands(text, r, 11)
    BY ONLY <1>1, <1>3, <1>4, <1>5, <1>7, Within
  <1>11. r[1] = bs[1] /\ r[2] = bs[2]
    <2>1. \A j \in 1..10 + l : r[1 + j - 1] = bs[j]
      BY ONLY <1>4, <1>5 DEF Stands
    <2>2. 1 \in 1..10 + l /\ 2 \in 1..10 + l
      OBVIOUS
    <2>3. r[1 + 1 - 1] = bs[1] /\ r[1 + 2 - 1] = bs[2]
      BY ONLY <2>1, <2>2
    <2>4. QED
      BY ONLY <2>3
  <1>12. QED
    BY ONLY <1>1, <1>2, <1>4, <1>8, <1>9, <1>10, <1>11 DEF DataAt

(***************************************************************************)
(* The same for one number of two bytes.                                   *)
(***************************************************************************)
LEMMA FieldInFront ==
  ASSUME NEW type \in Nat, NEW id \in Nat, NEW v \in Nat,
         NEW bs, bs = WithField(type, id, v, 2), NEW r, Begins(bs, r)
  PROVE  /\ bs \in Seq(Nat) /\ Len(bs) = 4 /\ r[1] = type /\ r[2] = id
         /\ Stands(Bytes(v, 2), r, 3)
  <1>1. /\ bs \in Seq(Nat) /\ Len(bs) = 4 /\ bs[1] = type /\ bs[2] = id
        /\ Stands(Bytes(v, 2), bs, 3)
    <2>1. Headed(bs, type, id, 2 + 2) /\ Stands(Bytes(v, 2), bs, 3)
      BY OneField
    <2>2. 2 + 2 = 4
      OBVIOUS
    <2>3. QED
      BY ONLY <2>1, <2>2 DEF Headed
  <1>2. Stands(bs, r, 1)
    BY DEF Begins
  <1>3. Stands(Bytes(v, 2), r, 3)
    <2>1. 3 \in Nat /\ 3 > 0 /\ 3 + 2 <= 4 + 1 /\ 4 \in Nat /\ 2 \in Nat
      OBVIOUS
    <2>2. Len(Bytes(v, 2)) = 2
      BY BytesType
    <2>3. QED
      BY ONLY <1>1, <1>2, <2>1, <2>2, Within
  <1>4. r[1] = bs[1] /\ r[2] = bs[2]
    <2>1. \A j \in 1..4 : r[1 + j - 1] = bs[j]
      BY ONLY <1>1, <1>2 DEF Stands
    <2>2. r[1 + 1 - 1] = bs[1] /\ r[1 + 2 - 1] = bs[2]
      BY ONLY <2>1
    <2>3. QED
      BY ONLY <2>2
  <1>5. QED
    BY ONLY <1>1, <1>3, <1>4

(***************************************************************************)
(* What the agent writes, memcpy of a number after hton, has the high byte *)
(* first.                                                                  *)
(***************************************************************************)
LEMMA ReplyBytes ==
  /\ \A f \in DataFrames :
       Len(f.data) \in Uint(4) =>
         SendTcpDataFrame(f) = WithFields(TCP_DATA, f.id, f.seq, Len(f.data), 4) \o f.data
  /\ \A f \in CloseFrames : SendTcpCloseFrame(f) = WithField(TCP_CLOSE, f.id, f.reason, 2)
  <1>1. ASSUME NEW f \in DataFrames, Len(f.data) \in Uint(4)
        PROVE  SendTcpDataFrame(f) = WithFields(TCP_DATA, f.id, f.seq, Len(f.data), 4) \o f.data
    <2>1. f.seq \in Uint(4)
      BY DEF DataFrames
    <2>2. /\ InMemory(Net(f.seq, 4), 4) = Bytes(f.seq, 4)
          /\ InMemory(Net(Len(f.data), 4), 4) = Bytes(Len(f.data), 4)
      BY <1>1, <2>1, NetTwice
    <2>3. QED
      BY ONLY <2>2 DEF SendTcpDataFrame, WithFields
  <1>2. ASSUME NEW f \in CloseFrames
        PROVE  SendTcpCloseFrame(f) = WithField(TCP_CLOSE, f.id, f.reason, 2)
    <2>1. f.reason \in Uint(2)
      BY DEF CloseFrames
    <2>2. InMemory(Net(f.reason, 2), 2) = Bytes(f.reason, 2)
      BY <2>1, NetTwice
    <2>3. QED
      BY ONLY <2>2 DEF SendTcpCloseFrame, WithField
  <1>3. QED
    BY <1>1, <1>2

(***************************************************************************)
(* The server reads a DATA or CLOSE of the agent, whatever follows it.     *)
(***************************************************************************)
LEMMA ReplyRead ==
  ASSUME NEW r \in Replies
  PROVE  LET f == r.frame
             bs == IF f.type = TCP_DATA THEN SendTcpDataFrame(f) ELSE SendTcpCloseFrame(f)
         IN  HandleAgentTcpFrame(bs \o r.rest) = Told(f)
  <1> DEFINE f == r.frame
             bs == IF f.type = TCP_DATA THEN SendTcpDataFrame(f) ELSE SendTcpCloseFrame(f)
  <1>1. /\ f \in CloseFrames \cup DataFrames /\ r.rest \in Seq(Nat)
        /\ f.type = TCP_DATA => Len(f.data) \in Uint(4)
    BY RepliesAssumption
  <1> HIDE DEF f
  <1>2. CASE f \in DataFrames
    <2>1. f.type = TCP_DATA /\ f.id \in Nat /\ f.seq \in Uint(4) /\ f.data \in Payloads
      BY <1>2 DEF DataFrames
    <2>2. bs = SendTcpDataFrame(f) /\ Len(f.data) \in Uint(4)
      BY <1>1, <2>1
    <2> HIDE DEF bs
    <2>3. PICK data \in Seq(Nat), l \in Nat : data = f.data /\ l = Len(data)
      <3>1. 0..Base - 1 \in SUBSET Nat
        BY BaseType
      <3>2. f.data \in Seq(Nat)
        BY <2>1, <3>1, SeqMonotonic DEF Payloads
      <3>3. QED
        BY <3>2, LenProperties
    <2>4. bs = WithFields(TCP_DATA, f.id, f.seq, l, 4) \o data
      BY <1>2, <2>2, <2>3, ReplyBytes
    <2>5. PICK all : all = bs \o r.rest
      OBVIOUS
    <2>6. f.seq \in Nat /\ TCP_DATA \in Nat
      BY <2>1, UintType DEF TCP_DATA
    <2>7. bs \in Seq(Nat)
      <3>1. Headed(bs, TCP_DATA, f.id, 2 + 4 + 4 + Len(data))
        BY <2>1, <2>4, <2>6, TwoFieldsAndText
      <3>2. QED
        BY <3>1 DEF Headed
    <2>8. Begins(bs, all) /\ all \in Seq(Nat)
      BY <1>1, <2>5, <2>7, BeginsJoined
    <2>9. /\ Len(bs) = 10 + Len(data) /\ all[1] = TCP_DATA /\ all[2] = f.id
          /\ Stands(Bytes(l, 4), all, 7) /\ Stands(data, all, 11)
      <3>1. bs = WithData(TCP_DATA, f.id, f.seq, l, data)
        BY <2>4 DEF WithData
      <3>2. /\ TCP_DATA \in Nat /\ f.id \in Nat /\ f.seq \in Nat /\ l \in Nat /\ data \in Seq(Nat)
            /\ Begins(bs, all)
        BY <2>1, <2>6, <2>8
      <3>3. DataAt(bs, TCP_DATA, f.id, f.seq, l, data, all)
        BY ONLY <3>1, <3>2, DataInFront
      <3>4. QED
        BY ONLY <3>3 DEF DataAt
    <2>10. Field(all, 7, 4) = l
      <3>1. l \in Uint(4) /\ 4 \in Nat /\ 7 \in Nat
        BY <2>2, <2>3
      <3>2. QED
        BY ONLY <2>9, <3>1, FieldIs
    <2>11. SubSeq(all, 11, 10 + l) = data
      <3>1. 11 \in Nat /\ data \in Seq(Nat) /\ Stands(data, all, 11)
        BY ONLY <2>9, data \in Seq(Nat)
      <3>2. SubSeq(all, 11, 11 + Len(data) - 1) = data
        BY ONLY <3>1, CutOut
      <3>3. 11 + l - 1 = 10 + l
        OBVIOUS
      <3>4. QED
        BY ONLY <2>3, <3>2, <3>3
    <2>12. PICK n \in Nat : n = Len(all) /\ 10 + l <= n
      <3>1. Len(all) \in Nat /\ Len(bs) = 10 + l
        BY <2>3, <2>8, <2>9, LenProperties
      <3>2. QED
        BY ONLY <2>8, <3>1 DEF Begins
    <2>13. (10 + l) % Power(Base, 4) <= 10 + l
      <3>1. PICK b \in Nat \ {0}, m \in Nat : b = Power(Base, 4) /\ m = 10 + l
        BY BaseType
      <3>2. m % b <= m
        OBVIOUS
      <3>3. QED
        BY <3>1, <3>2
    <2>14. (10 + l) % Power(Base, 4) \in Nat
      <3>1. PICK b \in Nat \ {0}, m \in Nat : b = Power(Base, 4) /\ m = 10 + l
        BY BaseType
      <3>2. m % b \in Nat
        OBVIOUS
      <3>3. QED
        BY <3>1, <3>2
    <2>15. HandleAgentTcpFrame(all) = [type |-> TCP_DATA, id |-> f.id, data |-> data]
      <3>1. ~(Len(all) < 2) /\ Len(all) >= 10 /\ ~(Len(all) < (10 + l) % Power(Base, 4))
        BY ONLY <2>12, <2>13, <2>14, l \in Nat
      <3>2. all[1] = TCP_DATA /\ all[2] = f.id
        BY ONLY <2>9
      <3>3. HandleAgentTcpFrame(all)
              = IF Len(all) < (10 + Field(all, 7, 4)) % Power(Base, 4) THEN Thrown
                ELSE [type |-> TCP_DATA, id |-> all[2],
                      data |-> SubSeq(all, 11, 10 + Field(all, 7, 4))]
        BY ONLY <3>1, <3>2 DEF HandleAgentTcpFrame, TCP_DATA, TCP_CLOSE, TCP_ERROR
      <3>4. QED
        BY ONLY <2>10, <2>11, <3>1, <3>2, <3>3
    <2>16. Told(f) = [type |-> TCP_DATA, id |-> f.id, data |-> data]
      BY ONLY <2>1, <2>3 DEF Told, TCP_OPEN, TCP_DATA, TCP_CLOSE
    <2>17. QED
      BY <2>5, <2>15, <2>16 DEF bs, f
  <1>3. CASE f \in CloseFrames
    <2>1. f.type = TCP_CLOSE /\ f.id \in Nat /\ f.reason \in Uint(2)
      BY <1>3 DEF CloseFrames
    <2>2. bs = SendTcpCloseFrame(f)
      BY <2>1 DEF TCP_DATA, TCP_CLOSE
    <2> HIDE DEF bs
    <2>3. bs = WithField(TCP_CLOSE, f.id, f.reason, 2)
      BY <1>3, <2>2, ReplyBytes
    <2>4. PICK all : all = bs \o r.rest
      OBVIOUS
    <2>5. f.reason \in Nat /\ TCP_CLOSE \in Nat
      BY <2>1, UintType DEF TCP_CLOSE
    <2>6. bs \in Seq(Nat) /\ Len(bs) = 4
      <3>1. Headed(bs, TCP_CLOSE, f.id, 2 + 2)
        BY <2>1, <2>3, <2>5, OneField
      <3>2. QED
        BY <3>1 DEF Headed
    <2>7. Begins(bs, all) /\ all \in Seq(Nat)
      BY <1>1, <2>4, <2>6, BeginsJoined
    <2>8. all[1] = TCP_CLOSE /\ all[2] = f.id
      BY <2>1, <2>3, <2>5, <2>7, FieldInFront
    <2>9. ~(Len(all) < 2)
      <3>1. Len(all) \in Nat
        BY <2>7, LenProperties
      <3>2. QED
        BY ONLY <2>6, <2>7, <3>1 DEF Begins
    <2>10. HandleAgentTcpFrame(all) = [type |-> TCP_CLOSE, id |-> f.id]
      BY ONLY <2>8, <2>9 DEF HandleAgentTcpFrame, TCP_DATA, TCP_CLOSE, TCP_ERROR
    <2>11. Told(f) = [type |-> TCP_CLOSE, id |-> f.id]
      BY ONLY <2>1 DEF Told, TCP_OPEN, TCP_DATA, TCP_CLOSE
    <2>12. QED
      BY <2>4, <2>10, <2>11 DEF bs, f
  <1>4. QED
    BY <1>1, <1>2, <1>3 DEF f
-----------------------------------------------------------------------------
\* process_tcp_frames() at place o, with g for what it does further on

SizeAt(bs, o) ==
  LET rest == SubSeq(bs, o + 1, Len(bs)) IN IF IsTcpFrame(rest) THEN FrameSize(rest) ELSE 0
Stops(bs, o) == SizeAt(bs, o) = 0 \/ Len(SubSeq(bs, o + 1, Len(bs))) < SizeAt(bs, o)

ReadFrom(bs, g, o) ==
  IF Stops(bs, o) THEN [consumed |-> o, frames |-> <<>>]
  ELSE [consumed |-> g[o + SizeAt(bs, o)].consumed,
        frames |-> <<Handled(SubSeq(SubSeq(bs, o + 1, Len(bs)), 1, SizeAt(bs, o)))>>
                     \o g[o + SizeAt(bs, o)].frames]
Reads(g, bs) == g = [o \in 0..Len(bs) |-> ReadFrom(bs, g, o)]

Extended(bs, g, o) == [q \in o..Len(bs) |-> IF q = o THEN ReadFrom(bs, g, o) ELSE g[q]]
Extends == INSTANCE Folding WITH Op <- Extended

(***************************************************************************)
(* ProcessTcpFrames starts such a function at the first byte.              *)
(***************************************************************************)
LEMMA ProcessIs ==
  ASSUME NEW bs
  PROVE  ProcessTcpFrames(bs) = (CHOOSE g : Reads(g, bs))[0]
  BY DEF ProcessTcpFrames, Reads, ReadFrom, Stops, SizeAt

(***************************************************************************)
(* A field of a buffer is a number.                                        *)
(***************************************************************************)
LEMMA FieldType ==
  ASSUME NEW bs \in Seq(Nat), NEW i \in Nat, NEW n \in Nat, i > 0, i + n <= Len(bs) + 1
  PROVE  Field(bs, i, n) \in Nat
  <1>1. PICK m \in Nat : m = Len(bs) /\ \A k \in 1..m : bs[k] \in Nat
    <2>1. Len(bs) \in Nat
      BY LenProperties
    <2>2. \A k \in 1..Len(bs) : bs[k] \in Nat
      BY ElementOfSeq
    <2>3. QED
      BY <2>1, <2>2
  <1>2. i \in Int /\ i + n - 1 \in Int /\ \A k \in i..i + n - 1 : bs[k] \in Nat
    BY <1>1
  <1>3. PICK cut : cut = SubSeq(bs, i, i + n - 1)
    OBVIOUS
  <1>4. /\ cut \in Seq(Nat)
        /\ Len(cut) = IF i <= i + n - 1 THEN i + n - 1 - i + 1 ELSE 0
    BY <1>2, <1>3, SubSeqProperties
  <1>5. Len(cut) = n
    BY <1>4
  <1>6. DOMAIN cut = 1..n /\ \A k \in 1..n : cut[k] \in Nat
    BY <1>4, <1>5, LenProperties, ElementOfSeq
  <1>7. Number(cut) = Value(Base, cut, n)
    BY <1>6, NumberIs
  <1>8. Value(Base, cut, n) \in Nat
    BY <1>6, BaseType, ValueType
  <1>9. QED
    BY <1>3, <1>7, <1>8 DEF Field

(***************************************************************************)
(* The size of a frame is a number.                                        *)
(***************************************************************************)
LEMMA FrameSizeType ==
  ASSUME NEW bs \in Seq(Nat), IsTcpFrame(bs)
  PROVE  FrameSize(bs) \in Nat
  <1>1. PICK n \in Nat : n = Len(bs)
    BY LenProperties
  <1>2. bs[1] \in TCP_OPEN..TCP_ACK
    BY DEF IsTcpFrame
  <1>3. bs[1] \in {16, 17, 18, 19, 20}
    BY <1>2 DEF TCP_OPEN, TCP_ACK
  <1>4. n >= 10 => Field(bs, 7, 4) \in Nat
    BY <1>1, FieldType
  <1>5. n >= 6 => Field(bs, 5, 2) \in Nat
    BY <1>1, FieldType
  <1>6. CASE bs[1] \in {16, 18}
    BY <1>6 DEF FrameSize, TCP_OPEN, TCP_DATA, TCP_CLOSE, TCP_ERROR, TCP_ACK
  <1>7. CASE bs[1] = 20
    BY <1>7 DEF FrameSize, TCP_OPEN, TCP_DATA, TCP_CLOSE, TCP_ERROR, TCP_ACK
  <1>8. CASE bs[1] = 17
    BY <1>1, <1>4, <1>8 DEF FrameSize, TCP_OPEN, TCP_DATA, TCP_CLOSE, TCP_ERROR, TCP_ACK
  <1>9. CASE bs[1] = 19
    BY <1>1, <1>5, <1>9 DEF FrameSize, TCP_OPEN, TCP_DATA, TCP_CLOSE, TCP_ERROR, TCP_ACK
  <1>10. QED
    BY <1>3, <1>6, <1>7, <1>8, <1>9

(***************************************************************************)
(* A frame that is handled is one or more bytes, up to the end of what was *)
(* read: so the loop goes on further to the right.                         *)
(***************************************************************************)
LEMMA GoesOn ==
  ASSUME NEW bs \in Seq(Nat), NEW o \in 0..Len(bs), ~Stops(bs, o)
  PROVE  o + SizeAt(bs, o) \in o + 1..Len(bs)
  <1>1. PICK n \in Nat : n = Len(bs)
    BY LenProperties
  <1>2. PICK rest : rest = SubSeq(bs, o + 1, Len(bs))
    OBVIOUS
  <1>3. rest \in Seq(Nat) /\ Len(rest) = n - o
    BY <1>1, <1>2, Rest
  <1>4. PICK s : s = SizeAt(bs, o)
    OBVIOUS
  <1>5. s = IF IsTcpFrame(rest) THEN FrameSize(rest) ELSE 0
    BY <1>2, <1>4 DEF SizeAt
  <1>6. s \in Nat
    BY <1>3, <1>5, FrameSizeType
  <1>7. s # 0 /\ ~(n - o < s)
    BY <1>2, <1>3, <1>4 DEF Stops
  <1>8. o + s \in o + 1..n
    BY <1>1, <1>6, <1>7
  <1>9. QED
    BY <1>1, <1>4, <1>8

(***************************************************************************)
(* What is read at a place depends on what is read to its right.           *)
(***************************************************************************)
LEMMA ReadAlike ==
  ASSUME NEW bs \in Seq(Nat), NEW o \in 0..Len(bs), NEW g, NEW h,
         \A q \in o + 1..Len(bs) : g[q] = h[q]
  PROVE  ReadFrom(bs, g, o) = ReadFrom(bs, h, o)
  <1>1. CASE Stops(bs, o)
    BY <1>1 DEF ReadFrom
  <1>2. CASE ~Stops(bs, o)
    <2>1. g[o + SizeAt(bs, o)] = h[o + SizeAt(bs, o)]
      BY <1>2, GoesOn
    <2>2. QED
      BY ONLY <1>2, <2>1 DEF ReadFrom
  <1>3. QED
    BY <1>1, <1>2

(***************************************************************************)
(* There is a function that reads from every place: it is extended to the  *)
(* left, one place after the other.                                        *)
(***************************************************************************)
LEMMA ReadsExists ==
  ASSUME NEW bs \in Seq(Nat)
  PROVE  \E g : Reads(g, bs)
  <1>1. PICK n \in Nat : n = Len(bs)
    BY LenProperties
  <1> DEFINE places == [i \in 1..n + 1 |-> n + 1 - i]
             part(k) == Extends!Fold(bs, <<>>, places, k)
             Good(k) == /\ part(k + 1) = [q \in n - k..n |-> part(k + 1)[q]]
                        /\ \A q \in n - k..n : part(k + 1)[q] = ReadFrom(bs, part(k + 1), q)
             Bad == {k \in 0..n : ~Good(k)}
  <1>2. ASSUME NEW k \in 0..n
        PROVE  part(k + 1) = Extended(bs, part(k), n - k)
    <2>1. places[k + 1] = n - k
      OBVIOUS
    <2>2. part(k + 1) = Extended(bs, part(k), places[k + 1])
      <3> HIDE DEF places
      <3>1. k \in Nat
        OBVIOUS
      <3>2. QED
        BY ONLY <3>1, Extends!FoldStep DEF part
    <2>3. QED
      BY ONLY <2>1, <2>2
  <1> HIDE DEF part
  <1>3. ASSUME NEW k \in 0..n, k # 0 => Good(k - 1)
        PROVE  Good(k)
    <2>1. PICK o \in 0..n : o = n - k
      OBVIOUS
    <2>2. PICK g, h : g = part(k) /\ h = part(k + 1)
      OBVIOUS
    <2>3. h = [q \in o..n |-> IF q = o THEN ReadFrom(bs, g, o) ELSE g[q]]
      BY <1>1, <1>2, <2>1, <2>2 DEF Extended
    <2>4. h[o] = ReadFrom(bs, g, o) /\ \A q \in o + 1..n : h[q] = g[q]
      BY <2>3
    <2>5. \A q \in o + 1..n : g[q] = ReadFrom(bs, g, q)
      <3>1. CASE k = 0
        <4>1. o + 1..n = {}
          BY <2>1, <3>1
        <4>2. QED
          BY <4>1
      <3>2. CASE k # 0
        <4>1. k - 1 + 1 = k /\ n - (k - 1) = o + 1
          BY <2>1, <3>2
        <4>2. QED
          BY <1>3, <2>2, <3>2, <4>1
      <3>3. QED
        BY <3>1, <3>2
    <2>6. ASSUME NEW q \in o..n PROVE ReadFrom(bs, g, q) = ReadFrom(bs, h, q)
      <3>1. q \in 0..Len(bs) /\ \A p \in q + 1..Len(bs) : g[p] = h[p]
        BY <1>1, <2>4
      <3>2. QED
        BY <3>1, ReadAlike
    <2>7. \A q \in o..n : h[q] = ReadFrom(bs, h, q)
      <3>1. h[o] = ReadFrom(bs, h, o)
        BY <2>4, <2>6
      <3>2. \A q \in o + 1..n : h[q] = ReadFrom(bs, h, q)
        BY <2>4, <2>5, <2>6
      <3>3. QED
        BY <3>1, <3>2
    <2>8. h = [q \in o..n |-> h[q]]
      BY <2>3
    <2>9. QED
      BY <2>1, <2>2, <2>7, <2>8
  <1> HIDE DEF Good
  <1>4. Good(n)
    <2> SUFFICES ASSUME Bad # {} PROVE FALSE
      BY <1>1
    <2>1. PICK k \in Bad : \A i \in Bad : k <= i
      <3>1. Bad \in SUBSET Nat
        OBVIOUS
      <3> HIDE DEF Bad
      <3>2. QED
        BY <3>1, LeastOf
    <2>2. k # 0 => Good(k - 1)
      <3>1. k - 1 \notin Bad
        BY <2>1
      <3>2. QED
        BY <3>1
    <2>3. Good(k)
      BY <1>3, <2>2
    <2>4. QED
      BY <2>3
  <1>5. PICK g : g = part(n + 1)
    OBVIOUS
  <1>6. g = [q \in 0..n |-> g[q]] /\ \A q \in 0..n : g[q] = ReadFrom(bs, g, q)
    <2>1. n - n = 0
      OBVIOUS
    <2>2. QED
      BY <1>4, <1>5, <2>1 DEF Good
  <1>7. g = [q \in 0..n |-> ReadFrom(bs, g, q)]
    BY <1>6
  <1>8. QED
    BY <1>1, <1>7 DEF Reads

(***************************************************************************)
(* So the agent reads what there is at the first byte.                     *)
(***************************************************************************)
LEMMA ProcessReads ==
  ASSUME NEW bs \in Seq(Nat)
  PROVE  \E g : /\ ProcessTcpFrames(bs) = g[0]
                /\ \A o \in 0..Len(bs) : g[o] = ReadFrom(bs, g, o)
  <1>1. PICK g : Reads(g, bs) /\ g = CHOOSE f : Reads(f, bs)
    BY ReadsExists
  <1>2. ProcessTcpFrames(bs) = g[0]
    BY <1>1, ProcessIs
  <1>3. \A o \in 0..Len(bs) : g[o] = ReadFrom(bs, g, o)
    BY <1>1 DEF Reads
  <1>4. QED
    BY <1>2, <1>3

-----------------------------------------------------------------------------
\* A frame of the server, whole or cut short

(***************************************************************************)
(* What stands at a place of some bytes stands there in a beginning of     *)
(* them that is long enough.                                               *)
(***************************************************************************)
LEMMA InBeginning ==
  ASSUME NEW bs, NEW r, NEW l \in Nat, Len(r) = l, Stands(r, bs, 1),
         NEW t, NEW m \in Nat, NEW i \in Nat, Len(t) = m, i > 0, i + m <= l + 1, Stands(t, bs, i)
  PROVE  Stands(t, r, i)
  <1>1. (\A j \in 1..l : bs[1 + j - 1] = r[j]) /\ \A j \in 1..m : bs[i + j - 1] = t[j]
    BY DEF Stands
  <1>2. \A j \in 1..m : r[i + j - 1] = t[j]
    <2> TAKE j \in 1..m
    <2>1. PICK k \in Nat : k = i + j - 1 /\ k \in 1..l /\ 1 + k - 1 = k
      OBVIOUS
    <2>2. bs[k] = r[k] /\ bs[k] = t[j]
      BY <1>1, <2>1
    <2>3. QED
      BY <2>1, <2>2
  <1>3. QED
    BY <1>2 DEF Stands

\* bs is read as frame f when it is complete, whatever follows it, and a
\* beginning of it is seen to be incomplete
Cuttable(f, bs) ==
  /\ bs \in Seq(Nat) /\ Len(bs) > 0
  /\ Handled(bs) = Told(f)
  /\ \A r \in Seq(Nat) : Begins(bs, r) => IsTcpFrame(r) /\ FrameSize(r) = Len(bs)
  /\ \A r \in Seq(Nat) :
       Begins(r, bs) /\ Len(r) < Len(bs) =>
         ~IsTcpFrame(r) \/ FrameSize(r) = 0 \/ Len(r) < FrameSize(r)

(***************************************************************************)
(* A number that is zero is zero in any order of its bytes.                *)
(***************************************************************************)
LEMMA NetOfZero == Net(0, 2) = 0 /\ 0 \in Uint(2)
  <1>1. 0 \in Uint(2)
    <2>1. PICK p \in Nat \ {0} : p = Power(Base, 2)
      BY BaseType
    <2>2. 0 \in 0..p - 1
      OBVIOUS
    <2>3. QED
      BY <2>1, <2>2 DEF Uint
  <1>2. CASE ~LittleEndian
    BY <1>1, <1>2 DEF Net
  <1>3. CASE LittleEndian
    <2>1. PICK s : s = Bytes(0, 2)
      OBVIOUS
    <2>2. s \in [1..2 -> 0..Base - 1] /\ Len(s) = 2
      BY <2>1, BytesType
    <2>3. \A i \in 1..2 : s[i] = 0
      <3> TAKE i \in 1..2
      <3>1. PICK p \in Nat \ {0}, b \in Nat \ {0} : p = Power(Base, 2 - i) /\ b = Base
        BY BaseType, PowerType
      <3>2. s[i] = (0 \div p) % b
        BY <2>1, <3>1 DEF Bytes
      <3>3. (0 \div p) % b = 0
        OBVIOUS
      <3>4. QED
        BY <3>2, <3>3
    <2>4. PICK t : t = Reverse(s)
      OBVIOUS
    <2>5. t = [i \in 1..2 |-> s[2 - i + 1]]
      BY <2>2, <2>4 DEF Reverse
    <2>6. t = s
      <3>1. s = [i \in 1..2 |-> 0]
        BY <2>2, <2>3
      <3>2. \A i \in 1..2 : 2 - i + 1 \in 1..2
        OBVIOUS
      <3>3. t = [i \in 1..2 |-> 0]
        BY <2>3, <2>5, <3>2
      <3>4. QED
        BY ONLY <3>1, <3>3
    <2>7. Number(s) = 0
      BY <1>1, <2>1, NumberOfBytes
    <2>8. Net(0, 2) = Number(Reverse(Bytes(0, 2)))
      BY ONLY <1>3 DEF Net
    <2>9. Reverse(Bytes(0, 2)) = s
      BY ONLY <2>1, <2>4, <2>6
    <2>10. QED
      BY ONLY <1>1, <2>7, <2>8, <2>9
  <1>4. QED
    BY <1>1, <1>2, <1>3

(***************************************************************************)
(* An OPEN is cut out of what was read, and one that is cut short waits.   *)
(***************************************************************************)
LEMMA OpenCuttable ==
  ASSUME NEW f \in OpenFrames
  PROVE  Cuttable(f, Serialize(f))
  <1>1. f.type = TCP_OPEN /\ f.id \in Nat /\ f.port = 0
    BY DEF OpenFrames
  <1>2. PICK bs : bs = Serialize(f)
    OBVIOUS
  <1>3. bs = WithField(TCP_OPEN, f.id, 0, 2)
    <2>1. bs = SerializeOpen(f)
      BY <1>1, <1>2 DEF Serialize, TCP_OPEN, TCP_DATA, TCP_CLOSE, TCP_ERROR, TCP_ACK
    <2>2. SerializeOpen(f) = <<TCP_OPEN, f.id>> \o Bytes(0, 2)
      BY <1>1, NetOfZero DEF SerializeOpen
    <2>3. QED
      BY ONLY <2>1, <2>2 DEF WithField
  <1>4. TCP_OPEN \in Nat /\ 0 \in Nat
    BY DEF TCP_OPEN
  <1>5. bs \in Seq(Nat) /\ Len(bs) = 4
    <2>1. Headed(bs, TCP_OPEN, f.id, 2 + 2)
      BY <1>1, <1>3, <1>4, OneField
    <2>2. QED
      BY <2>1 DEF Headed
  <1>6. \A r : Begins(bs, r) => r[1] = TCP_OPEN /\ r[2] = f.id /\ Stands(Bytes(0, 2), r, 3)
    BY <1>1, <1>3, <1>4, FieldInFront
  <1>7. \A r : r[1] = TCP_OPEN => FrameSize(r) = 4
    BY DEF FrameSize, TCP_OPEN, TCP_DATA, TCP_CLOSE, TCP_ERROR, TCP_ACK
  <1>8. Handled(bs) = Told(f)
    <2>1. /\ bs[1] = TCP_OPEN /\ bs[2] = f.id /\ Stands(Bytes(0, 2), bs, 3)
      BY <1>5, <1>6, BeginsItself
    <2>2. Field(bs, 3, 2) = 0
      BY <2>1, NetOfZero, FieldIs
    <2>3. Handled(bs) = [type |-> TCP_OPEN, id |-> f.id, port |-> 0]
      BY ONLY <2>1, <2>2 DEF Handled, TCP_OPEN, TCP_DATA, TCP_CLOSE, TCP_ERROR, TCP_ACK
    <2>4. Told(f) = [type |-> TCP_OPEN, id |-> f.id, port |-> 0]
      BY ONLY <1>1 DEF Told, TCP_OPEN, TCP_DATA, TCP_CLOSE
    <2>5. QED
      BY ONLY <2>3, <2>4
  <1>9. ASSUME NEW r \in Seq(Nat), Begins(bs, r) PROVE IsTcpFrame(r) /\ FrameSize(r) = Len(bs)
    <2>1. r[1] = TCP_OPEN
      BY <1>6, <1>9
    <2>2. r # <<>>
      <3>1. Len(r) \in Nat
        BY LenProperties
      <3>2. Len(r) > 0
        BY <1>5, <1>9, <3>1 DEF Begins
      <3>3. QED
        BY ONLY <3>1, <3>2, LenNotEmpty
    <2>3. QED
      BY <1>5, <1>7, <2>1, <2>2 DEF IsTcpFrame, TCP_OPEN, TCP_ACK
  <1>10. ASSUME NEW r \in Seq(Nat), Begins(r, bs), Len(r) < Len(bs)
         PROVE  ~IsTcpFrame(r) \/ FrameSize(r) = 0 \/ Len(r) < FrameSize(r)
    <2>1. PICK l \in Nat : l = Len(r) /\ l < 4
      BY <1>5, <1>10, LenProperties
    <2>2. CASE l = 0
      <3>1. r = <<>>
        BY <2>1, <2>2, EmptySeq
      <3>2. QED
        BY <3>1 DEF IsTcpFrame
    <2>3. CASE l > 0
      <3>1. r[1] = bs[1]
        <4>1. \A j \in 1..l : bs[1 + j - 1] = r[j]
          BY <1>10, <2>1 DEF Begins, Stands
        <4>2. bs[1 + 1 - 1] = r[1]
          BY <2>3, <4>1
        <4>3. QED
          BY ONLY <4>2
      <3>2. bs[1] = TCP_OPEN
        BY <1>5, <1>6, BeginsItself
      <3>3. FrameSize(r) = 4
        BY <1>7, <3>1, <3>2
      <3>4. QED
        BY <2>1, <3>3
    <2>4. QED
      BY <2>2, <2>3
  <1>11. Len(bs) > 0
    BY <1>5
  <1>12. QED
    BY ONLY <1>2, <1>5, <1>8, <1>9, <1>10, <1>11 DEF Cuttable

(***************************************************************************)
(* So is a DATA whose length the agent believes.                           *)
(***************************************************************************)
LEMMA DataCuttable ==
  ASSUME NEW f \in DataFrames, Len(f.data) \in Uint(4), Len(f.data) <= MaxData
  PROVE  Cuttable(f, Serialize(f))
  <1>1. f.type = TCP_DATA /\ f.id \in Nat /\ f.seq \in Uint(4) /\ f.data \in Payloads
    BY DEF DataFrames
  <1>2. PICK data \in Seq(Nat), l \in Nat : data = f.data /\ l = Len(data)
    <2>1. 0..Base - 1 \in SUBSET Nat
      BY BaseType
    <2>2. f.data \in Seq(Nat)
      BY <1>1, <2>1, SeqMonotonic DEF Payloads
    <2>3. QED
      BY <2>2, LenProperties
  <1>3. l \in Uint(4) /\ l <= MaxData /\ 4 \in Nat /\ 7 \in Nat
    BY <1>2
  <1>4. PICK bs : bs = Serialize(f)
    OBVIOUS
  <1>5. bs = WithData(TCP_DATA, f.id, f.seq, l, data)
    <2>1. bs = SerializeData(f)
      BY <1>1, <1>4 DEF Serialize, TCP_OPEN, TCP_DATA, TCP_CLOSE, TCP_ERROR, TCP_ACK
    <2>2. QED
      BY ONLY <1>2, <2>1 DEF SerializeData, WithData, WithFields
  <1>6. TCP_DATA \in Nat /\ f.seq \in Nat
    BY <1>1, UintType DEF TCP_DATA
  <1>7. bs \in Seq(Nat) /\ Len(bs) = 10 + l
    <2>1. Headed(bs, TCP_DATA, f.id, 2 + 4 + 4 + Len(data))
      BY <1>1, <1>2, <1>5, <1>6, TwoFieldsAndText DEF WithData
    <2>2. 2 + 4 + 4 + l = 10 + l
      OBVIOUS
    <2>3. QED
      BY ONLY <1>2, <2>1, <2>2 DEF Headed
  <1>8. ASSUME NEW r, Begins(bs, r)
        PROVE  /\ r[1] = TCP_DATA /\ r[2] = f.id
               /\ Stands(Bytes(l, 4), r, 7) /\ Stands(data, r, 11)
    <2>1. DataAt(bs, TCP_DATA, f.id, f.seq, l, data, r)
      BY ONLY <1>1, <1>2, <1>5, <1>6, <1>8, DataInFront
    <2>2. QED
      BY ONLY <2>1 DEF DataAt
  <1>9. \A r : Stands(Bytes(l, 4), r, 7) => Field(r, 7, 4) = l
    BY ONLY <1>3, FieldIs
  <1>10. \A r : r[1] = TCP_DATA =>
           FrameSize(r) = IF Len(r) >= 10 /\ Field(r, 7, 4) <= MaxData THEN 10 + Field(r, 7, 4) ELSE 0
    BY DEF FrameSize, TCP_OPEN, TCP_DATA, TCP_CLOSE, TCP_ERROR, TCP_ACK
  <1>11. /\ bs[1] = TCP_DATA /\ bs[2] = f.id
         /\ Stands(Bytes(l, 4), bs, 7) /\ Stands(data, bs, 11)
    BY <1>7, <1>8, BeginsItself
  <1>12. Handled(bs) = Told(f)
    <2>1. Field(bs, 7, 4) = l
      BY ONLY <1>9, <1>11
    <2>2. SubSeq(bs, 11, 10 + l) = data
      <3>1. 11 \in Nat /\ data \in Seq(Nat) /\ Stands(data, bs, 11)
        BY ONLY <1>2, <1>11
      <3>2. SubSeq(bs, 11, 11 + Len(data) - 1) = data
        BY ONLY <3>1, CutOut
      <3>3. 11 + l - 1 = 10 + l
        OBVIOUS
      <3>4. QED
        BY ONLY <1>2, <3>2, <3>3
    <2>3. Handled(bs) = [type |-> TCP_DATA, id |-> bs[2],
                         data |-> SubSeq(bs, 11, 10 + Field(bs, 7, 4))]
      BY ONLY <1>11 DEF Handled, TCP_OPEN, TCP_DATA, TCP_CLOSE, TCP_ERROR, TCP_ACK
    <2>4. Told(f) = [type |-> TCP_DATA, id |-> f.id, data |-> data]
      BY ONLY <1>1, <1>2 DEF Told, TCP_OPEN, TCP_DATA, TCP_CLOSE
    <2>5. QED
      BY ONLY <1>11, <2>1, <2>2, <2>3, <2>4
  <1>13. ASSUME NEW r \in Seq(Nat), Begins(bs, r) PROVE IsTcpFrame(r) /\ FrameSize(r) = Len(bs)
    <2>1. r[1] = TCP_DATA /\ Field(r, 7, 4) = l
      BY <1>8, <1>9, <1>13
    <2>2. PICK n \in Nat : n = Len(r) /\ n >= 10
      <3>1. Len(r) \in Nat
        BY LenProperties
      <3>2. QED
        BY <1>7, <1>13, <3>1 DEF Begins
    <2>3. r # <<>>
      <3>1. Len(r) \in Nat /\ Len(r) > 0
        BY <2>2
      <3>2. QED
        BY ONLY <3>1, LenNotEmpty
    <2>4. IsTcpFrame(r)
      BY <2>1, <2>3 DEF IsTcpFrame, TCP_OPEN, TCP_DATA, TCP_ACK
    <2>5. FrameSize(r) = IF n >= 10 /\ l <= MaxData THEN 10 + l ELSE 0
      BY ONLY <1>10, <2>1, <2>2
    <2>6. QED
      BY <1>3, <1>7, <2>2, <2>4, <2>5
  <1>14. ASSUME NEW r \in Seq(Nat), Begins(r, bs), Len(r) < Len(bs)
         PROVE  ~IsTcpFrame(r) \/ FrameSize(r) = 0 \/ Len(r) < FrameSize(r)
    <2>1. PICK m \in Nat : m = Len(r) /\ m < 10 + l
      BY <1>7, <1>14, LenProperties
    <2>2. Stands(r, bs, 1)
      BY <1>14 DEF Begins
    <2>3. CASE m = 0
      <3>1. r = <<>>
        BY <2>1, <2>3, EmptySeq
      <3>2. QED
        BY <3>1 DEF IsTcpFrame
    <2>4. ASSUME m > 0 PROVE r[1] = TCP_DATA
      <3>1. \A j \in 1..m : bs[1 + j - 1] = r[j]
        BY <2>1, <2>2 DEF Stands
      <3>2. bs[1 + 1 - 1] = r[1]
        BY <2>4, <3>1
      <3>3. QED
        BY ONLY <1>11, <3>2
    <2>5. CASE m > 0 /\ m < 10
      <3>1. FrameSize(r) = IF m >= 10 /\ Field(r, 7, 4) <= MaxData THEN 10 + Field(r, 7, 4) ELSE 0
        BY ONLY <1>10, <2>1, <2>4, <2>5
      <3>2. QED
        BY <2>5, <3>1
    <2>6. CASE m >= 10
      <3>1. Len(Bytes(l, 4)) = 4
        BY BytesType
      <3>2. 4 \in Nat /\ 7 \in Nat /\ 7 > 0 /\ 7 + 4 <= m + 1
        BY <2>6
      <3>3. Stands(Bytes(l, 4), r, 7)
        BY ONLY <1>11, <2>1, <2>2, <3>1, <3>2, InBeginning
      <3>4. Field(r, 7, 4) = l
        BY ONLY <1>9, <3>3
      <3>5. r[1] = TCP_DATA
        BY <2>4, <2>6
      <3>6. FrameSize(r) = IF m >= 10 /\ l <= MaxData THEN 10 + l ELSE 0
        BY ONLY <1>10, <2>1, <3>4, <3>5
      <3>7. QED
        BY <1>3, <2>1, <2>6, <3>6
    <2>7. QED
      BY <2>3, <2>5, <2>6
  <1>15. Len(bs) > 0
    BY <1>7
  <1>16. QED
    BY ONLY <1>4, <1>7, <1>12, <1>13, <1>14, <1>15 DEF Cuttable

-----------------------------------------------------------------------------
\* Frames written one after the other

Put(p, bs, f) == bs \o Serialize(f)
Puts == INSTANCE Folding WITH Op <- Put

\* the bytes of the first k frames, and the place behind them
Upto(frames, k) == Puts!Fold(0, <<>>, frames, k)
Start(frames, k) == Len(Upto(frames, k))

AllCuttable(frames, n) == \A i \in 1..n : Cuttable(frames[i], Serialize(frames[i]))

(***************************************************************************)
(* One frame more is written behind the others.                            *)
(***************************************************************************)
LEMMA UptoSteps ==
  ASSUME NEW frames, NEW k \in Nat
  PROVE  /\ Upto(frames, 0) = <<>>
         /\ Upto(frames, k + 1) = Upto(frames, k) \o Serialize(frames[k + 1])
  <1>1. Upto(frames, 0) = <<>>
    BY Puts!FoldEmpty DEF Upto
  <1>2. Upto(frames, k + 1) = Put(0, Upto(frames, k), frames[k + 1])
    BY Puts!FoldStep DEF Upto
  <1>3. QED
    BY <1>1, <1>2 DEF Put

(***************************************************************************)
(* What is written of some frames is what is written after the last.       *)
(***************************************************************************)
LEMMA WrittenIs ==
  ASSUME NEW s, NEW n \in Nat, DOMAIN s = 1..n
  PROVE  Written(s) = Upto(s, n)
  <1>1. Written(s) = (CHOOSE g : Puts!Unfolds(g, 0, <<>>, s, 1..n))[1..n]
    BY DEF Written, FoldLeft, MapThenFoldSet, Max, Puts!Unfolds, Puts!Top, Put
  <1>2. QED
    BY <1>1 DEF Upto, Puts!Fold

(***************************************************************************)
(* Of the first frames alone the same bytes are written.                   *)
(***************************************************************************)
LEMMA WrittenUpto ==
  ASSUME NEW S, NEW frames \in Seq(S), NEW n \in Nat, n = Len(frames), NEW k \in 0..n
  PROVE  Written(SubSeq(frames, 1, k)) = Upto(frames, k)
  <1>1. PICK s : s = SubSeq(frames, 1, k)
    OBVIOUS
  <1>2. k \in Nat /\ DOMAIN s = 1..k /\ \A i \in 1..k : s[i] = frames[i]
    BY <1>1
  <1>3. Written(s) = Upto(s, k)
    BY <1>2, WrittenIs
  <1>4. Upto(s, k) = Upto(frames, k)
    BY <1>2, Puts!FoldLocal DEF Upto
  <1>5. QED
    BY <1>1, <1>3, <1>4

(***************************************************************************)
(* It is a sequence of bytes.                                              *)
(***************************************************************************)
LEMMA UptoType ==
  ASSUME NEW frames, NEW n \in Nat, AllCuttable(frames, n), NEW k \in 0..n
  PROVE  Upto(frames, k) \in Seq(Nat)
  <1> DEFINE Bad == {i \in 0..n : Upto(frames, i) \notin Seq(Nat)}
  <1> SUFFICES ASSUME Bad # {} PROVE FALSE
    OBVIOUS
  <1>1. PICK i \in Bad : \A j \in Bad : i <= j
    <2>1. Bad \in SUBSET Nat
      OBVIOUS
    <2> HIDE DEF Bad
    <2>2. QED
      BY <2>1, LeastOf
  <1>2. i # 0
    <2>1. Upto(frames, 0) = <<>>
      BY UptoSteps, 0 \in Nat
    <2>2. <<>> \in Seq(Nat)
      BY EmptySeq
    <2>3. Upto(frames, 0) \in Seq(Nat)
      BY ONLY <2>1, <2>2
    <2>4. QED
      BY <2>3
  <1>3. PICK j \in Nat : i = j + 1 /\ j \in 0..n
    BY <1>2
  <1>4. Upto(frames, j) \in Seq(Nat)
    BY <1>1, <1>3
  <1>5. Serialize(frames[i]) \in Seq(Nat)
    BY <1>2 DEF AllCuttable, Cuttable
  <1>6. Upto(frames, i) = Upto(frames, j) \o Serialize(frames[i])
    BY <1>3, UptoSteps
  <1>7. Upto(frames, i) \in Seq(Nat)
    BY <1>4, <1>5, <1>6, Joined
  <1>8. QED
    BY <1>7

(***************************************************************************)
(* A frame stands behind those before it, which are all of the beginning.  *)
(***************************************************************************)
LEMMA UptoBehind ==
  ASSUME NEW frames, NEW n \in Nat, AllCuttable(frames, n), NEW k \in 0..n - 1
  PROVE  /\ Behind(Upto(frames, k + 1), Upto(frames, k), Serialize(frames[k + 1]))
         /\ Begins(Upto(frames, k), Upto(frames, k + 1))
         /\ Start(frames, k) \in Nat /\ Start(frames, k + 1) \in Nat
         /\ Start(frames, k) < Start(frames, k + 1)
  <1>1. PICK s, st, t : s = Upto(frames, k) /\ st = Upto(frames, k + 1) /\ t = Serialize(frames[k + 1])
    OBVIOUS
  <1>2. k \in Nat /\ k \in 0..n /\ k + 1 \in 1..n
    OBVIOUS
  <1>3. st = s \o t
    BY <1>1, <1>2, UptoSteps
  <1>4. s \in Seq(Nat)
    BY <1>1, <1>2, UptoType
  <1>5. t \in Seq(Nat) /\ Len(t) > 0
    BY <1>1, <1>2 DEF AllCuttable, Cuttable
  <1>6. Behind(st, s, t)
    BY ONLY <1>3, <1>4, <1>5, JoinedBehind
  <1>7. Begins(s, st)
    BY ONLY <1>3, <1>4, <1>5, BeginsJoined
  <1>8. Len(s) \in Nat /\ Len(st) \in Nat /\ Len(s) < Len(st)
    <2>1. PICK p \in Nat, q \in Nat : p = Len(s) /\ q = Len(t) /\ Len(st) = p + q
      BY ONLY <1>6 DEF Behind
    <2>2. q > 0
      BY ONLY <1>5, <2>1
    <2>3. QED
      BY ONLY <2>1, <2>2, p \in Nat, q \in Nat
  <1>9. QED
    BY ONLY <1>1, <1>6, <1>7, <1>8 DEF Start

(***************************************************************************)
(* So what is written begins with what was written before.                 *)
(***************************************************************************)
LEMMA UptoBegins ==
  ASSUME NEW frames, NEW n \in Nat, AllCuttable(frames, n), NEW k \in 0..n, NEW j \in 0..k
  PROVE  Begins(Upto(frames, j), Upto(frames, k))
  <1> DEFINE Bad == {i \in 0..n : j <= i /\ ~Begins(Upto(frames, j), Upto(frames, i))}
  <1> SUFFICES ASSUME Bad # {} PROVE FALSE
    OBVIOUS
  <1>1. PICK i \in Bad : \A m \in Bad : i <= m
    <2>1. Bad \in SUBSET Nat
      OBVIOUS
    <2> HIDE DEF Bad
    <2>2. QED
      BY <2>1, LeastOf
  <1>2. i \in 0..n /\ j <= i /\ ~Begins(Upto(frames, j), Upto(frames, i))
    OBVIOUS
  <1>3. j \in 0..n
    OBVIOUS
  <1>4. i # j
    BY <1>2, <1>3, UptoType, BeginsItself
  <1>5. PICK m \in Nat : i = m + 1 /\ m \in 0..n - 1 /\ m \in 0..n /\ j <= m
    BY <1>2, <1>3, <1>4
  <1>6. Begins(Upto(frames, j), Upto(frames, m))
    BY <1>1, <1>5
  <1>7. Begins(Upto(frames, m), Upto(frames, i))
    BY <1>5, UptoBehind
  <1>8. /\ Upto(frames, j) \in Seq(Nat) /\ Upto(frames, m) \in Seq(Nat)
        /\ Upto(frames, i) \in Seq(Nat)
    BY <1>2, <1>3, <1>5, UptoType
  <1>9. QED
    BY ONLY <1>2, <1>6, <1>7, <1>8, BeginsOn

-----------------------------------------------------------------------------
\* What has arrived: the first bytes, up to cut, of those of n frames

Arrived(frames, n, cut) == SubSeq(Upto(frames, n), 1, cut)

(***************************************************************************)
(* It is a sequence of bytes.                                              *)
(***************************************************************************)
LEMMA ArrivedType ==
  ASSUME NEW frames, NEW n \in Nat, AllCuttable(frames, n), NEW cut \in 0..Start(frames, n)
  PROVE  /\ Arrived(frames, n, cut) \in Seq(Nat) /\ Len(Arrived(frames, n, cut)) = cut
         /\ cut \in Nat /\ cut <= Start(frames, n) /\ Start(frames, n) \in Nat
         /\ \A i \in 1..cut : Arrived(frames, n, cut)[i] = Upto(frames, n)[i]
  <1>1. PICK all : all = Upto(frames, n)
    OBVIOUS
  <1>2. all \in Seq(Nat) /\ cut \in 0..Len(all)
    BY <1>1, UptoType DEF Start
  <1>3. PICK m \in Nat : m = Len(all) /\ cut \in 0..m
    BY <1>2, LenProperties
  <1>4. PICK arrived : arrived = SubSeq(all, 1, cut)
    OBVIOUS
  <1>5. arrived \in Seq(Nat) /\ Len(arrived) = cut /\ \A i \in 1..cut : arrived[i] = all[i]
    BY ONLY <1>2, <1>4, CutShort
  <1>6. cut \in Nat /\ cut <= m
    BY ONLY <1>3
  <1>7. QED
    BY ONLY <1>1, <1>3, <1>4, <1>5, <1>6 DEF Arrived, Start

(***************************************************************************)
(* What has arrived from a frame on begins with the frame, or the frame    *)
(* with it.                                                                *)
(***************************************************************************)
LEMMA ArrivedFrame ==
  ASSUME NEW frames, NEW n \in Nat, AllCuttable(frames, n), NEW cut \in 0..Start(frames, n),
         NEW k \in 0..n - 1, Start(frames, k) <= cut,
         NEW rest, rest = SubSeq(Arrived(frames, n, cut), Start(frames, k) + 1, cut),
         NEW e, e = Serialize(frames[k + 1])
  PROVE  /\ rest \in Seq(Nat) /\ Start(frames, k) \in 0..cut /\ Len(e) \in Nat
         /\ Start(frames, k + 1) = Start(frames, k) + Len(e)
         /\ Start(frames, k + 1) <= cut => Begins(e, rest)
         /\ Start(frames, k + 1) > cut => Begins(rest, e) /\ Len(rest) < Len(e)
  <1>1. PICK all, mine, before, arrived :
           /\ all = Upto(frames, n) /\ mine = Upto(frames, k + 1) /\ before = Upto(frames, k)
           /\ arrived = Arrived(frames, n, cut)
    OBVIOUS
  <1>2. k + 1 \in 0..n /\ n \in 0..n /\ k + 1 \in 0..n /\ cut \in Nat
    BY ArrivedType
  <1>3. Behind(mine, before, e) /\ Start(frames, k) \in Nat /\ Start(frames, k + 1) \in Nat
    BY <1>1, UptoBehind
  <1>4. PICK s \in Nat, l \in Nat :
           /\ s = Len(before) /\ l = Len(e) /\ Len(mine) = s + l /\ Stands(e, mine, s + 1)
    BY ONLY <1>3 DEF Behind
  <1>5. Start(frames, k) = s /\ Start(frames, k + 1) = s + l
    BY ONLY <1>1, <1>4 DEF Start
  <1>6. Begins(mine, all)
    <2>1. Begins(Upto(frames, k + 1), Upto(frames, n))
      BY <1>2, UptoBegins
    <2>2. QED
      BY ONLY <1>1, <2>1
  <1>7. arrived \in Seq(Nat) /\ Len(arrived) = cut /\ \A i \in 1..cut : arrived[i] = all[i]
    <2>1. /\ Arrived(frames, n, cut) \in Seq(Nat) /\ Len(Arrived(frames, n, cut)) = cut
          /\ \A i \in 1..cut : Arrived(frames, n, cut)[i] = Upto(frames, n)[i]
      BY ArrivedType
    <2>2. QED
      BY ONLY <1>1, <2>1
  <1>8. s <= cut /\ s \in 0..cut
    BY <1>2, <1>4, <1>5
  <1>9. rest \in Seq(Nat) /\ Len(rest) = cut - s /\ \A i \in 1..cut - s : rest[i] = arrived[s + i]
    <2>1. s \in 0..Len(arrived) /\ rest = SubSeq(arrived, s + 1, Len(arrived))
      BY <1>1, <1>5, <1>7, <1>8
    <2>2. /\ rest \in Seq(Nat) /\ Len(rest) = Len(arrived) - s
          /\ \A i \in 1..Len(arrived) - s : rest[i] = arrived[s + i]
      BY ONLY <1>7, <2>1, Rest
    <2>3. QED
      BY ONLY <1>7, <2>2
  <1>10. \A i \in 1..cut - s : rest[i] = all[s + i]
    <2> SUFFICES ASSUME NEW i \in 1..cut - s PROVE rest[i] = all[s + i]
      OBVIOUS
    <2>1. s + i \in 1..cut
      BY ONLY <1>2, <1>4, <1>8, i \in 1..cut - s
    <2>2. QED
      BY ONLY <1>7, <1>9, <2>1, i \in 1..cut - s
  <1>11. \A i \in 1..l : all[s + i] = e[i]
    <2> SUFFICES ASSUME NEW i \in 1..l PROVE all[s + i] = e[i]
      OBVIOUS
    <2>1. \A j \in 1..s + l : all[1 + j - 1] = mine[j]
      BY ONLY <1>4, <1>6 DEF Begins, Stands
    <2>2. \A j \in 1..l : mine[s + 1 + j - 1] = e[j]
      BY ONLY <1>4 DEF Stands
    <2>3. s + i \in 1..s + l /\ 1 + (s + i) - 1 = s + i /\ s + 1 + i - 1 = s + i
      BY ONLY s \in Nat, l \in Nat, i \in 1..l
    <2>4. all[1 + (s + i) - 1] = mine[s + i]
      BY ONLY <2>1, <2>3
    <2>5. mine[s + 1 + i - 1] = e[i]
      BY ONLY <2>2, i \in 1..l
    <2>6. QED
      BY ONLY <2>3, <2>4, <2>5
  <1>12. ASSUME s + l <= cut PROVE Begins(e, rest)
    <2> SUFFICES ASSUME NEW i \in 1..l PROVE rest[1 + i - 1] = e[i]
      <3>1. l <= cut - s
        BY ONLY <1>2, <1>4, <1>12
      <3>2. QED
        BY ONLY <1>4, <1>9, <3>1, \A i \in 1..l : rest[1 + i - 1] = e[i] DEF Begins, Stands
    <2>1. i \in 1..cut - s /\ 1 + i - 1 = i
      BY ONLY <1>2, <1>4, <1>12, i \in 1..l
    <2>2. rest[i] = e[i]
      BY ONLY <1>10, <1>11, <2>1, i \in 1..l
    <2>3. QED
      BY ONLY <2>1, <2>2
  <1>13. ASSUME s + l > cut PROVE Begins(rest, e) /\ Len(rest) < Len(e)
    <2>1. cut - s < l
      BY ONLY <1>2, <1>4, <1>13
    <2> SUFFICES ASSUME NEW i \in 1..cut - s PROVE e[1 + i - 1] = rest[i]
      <3>1. cut - s <= l
        BY ONLY <1>2, <1>4, <2>1
      <3>2. QED
        BY ONLY <1>4, <1>9, <2>1, <3>1, \A i \in 1..cut - s : e[1 + i - 1] = rest[i] DEF Begins, Stands
    <2>2. i \in 1..l /\ 1 + i - 1 = i
      BY ONLY <1>2, <1>4, <2>1, i \in 1..cut - s
    <2>3. rest[i] = e[i]
      BY ONLY <1>10, <1>11, <2>2, i \in 1..cut - s
    <2>4. QED
      BY ONLY <2>2, <2>3
  <1>14. QED
    BY ONLY <1>4, <1>5, <1>8, <1>9, <1>12, <1>13

(***************************************************************************)
(* A frame that has arrived is handled, and the loop goes on behind it.    *)
(***************************************************************************)
LEMMA FrameHandled ==
  ASSUME NEW frames, NEW n \in Nat, AllCuttable(frames, n), NEW cut \in 0..Start(frames, n),
         NEW k \in 0..n - 1, Start(frames, k + 1) <= cut, NEW g
  PROVE  ReadFrom(Arrived(frames, n, cut), g, Start(frames, k))
           = [consumed |-> g[Start(frames, k + 1)].consumed,
              frames |-> <<Told(frames[k + 1])>> \o g[Start(frames, k + 1)].frames]
  <1>1. PICK arrived, s, after, e :
          /\ arrived = Arrived(frames, n, cut) /\ s = Start(frames, k)
          /\ after = Start(frames, k + 1) /\ e = Serialize(frames[k + 1])
    OBVIOUS
  <1>2. PICK rest : rest = SubSeq(arrived, s + 1, cut)
    OBVIOUS
  <1>3. Len(arrived) = cut /\ cut \in Nat
    BY <1>1, ArrivedType
  <1>4. s \in Nat /\ after \in Nat /\ s <= cut
    BY <1>1, <1>3, UptoBehind
  <1>5. rest \in Seq(Nat) /\ after = s + Len(e) /\ Begins(e, rest) /\ Len(e) \in Nat
    <2>1. /\ rest = SubSeq(Arrived(frames, n, cut), Start(frames, k) + 1, cut)
          /\ Start(frames, k) <= cut
      BY ONLY <1>1, <1>2, <1>4
    <2>2. /\ rest \in Seq(Nat) /\ Len(e) \in Nat
          /\ Start(frames, k + 1) = Start(frames, k) + Len(e)
          /\ Start(frames, k + 1) <= cut => Begins(e, rest)
      BY <1>1, <2>1, ArrivedFrame
    <2>3. Begins(e, rest)
      BY ONLY Start(frames, k + 1) <= cut, <2>2
    <2>4. QED
      BY ONLY <1>1, <2>2, <2>3
  <1>6. Cuttable(frames[k + 1], e)
    BY <1>1 DEF AllCuttable
  <1>7. IsTcpFrame(rest) /\ FrameSize(rest) = Len(e) /\ e \in Seq(Nat) /\ Len(e) > 0
    BY ONLY <1>5, <1>6 DEF Cuttable
  <1>8. SizeAt(arrived, s) = Len(e)
    BY ONLY <1>2, <1>3, <1>7 DEF SizeAt
  <1>9. ~Stops(arrived, s)
    <2>1. Len(rest) \in Nat
      BY <1>5, LenProperties
    <2>2. Len(e) # 0 /\ ~(Len(rest) < Len(e))
      BY ONLY <1>5, <1>7, <2>1 DEF Begins
    <2>3. QED
      BY ONLY <1>2, <1>3, <1>8, <2>2 DEF Stops
  <1>10. Handled(SubSeq(SubSeq(arrived, s + 1, Len(arrived)), 1, SizeAt(arrived, s)))
           = Told(frames[k + 1])
    <2>1. Stands(e, rest, 1) /\ 1 \in Nat
      BY ONLY <1>5 DEF Begins
    <2>2. SubSeq(rest, 1, 1 + Len(e) - 1) = e
      BY ONLY <1>7, <2>1, CutOut
    <2>3. 1 + Len(e) - 1 = Len(e)
      BY ONLY <1>5
    <2>4. SubSeq(rest, 1, Len(e)) = e
      BY ONLY <2>2, <2>3
    <2>5. Handled(e) = Told(frames[k + 1])
      BY ONLY <1>6 DEF Cuttable
    <2>6. QED
      BY ONLY <1>2, <1>3, <1>8, <2>4, <2>5
  <1>11. ReadFrom(arrived, g, s)
           = [consumed |-> g[s + SizeAt(arrived, s)].consumed,
              frames |-> <<Handled(SubSeq(SubSeq(arrived, s + 1, Len(arrived)), 1, SizeAt(arrived, s)))>>
                           \o g[s + SizeAt(arrived, s)].frames]
    BY ONLY <1>9 DEF ReadFrom
  <1>12. s + SizeAt(arrived, s) = after
    BY ONLY <1>5, <1>8
  <1>13. QED
    BY ONLY <1>1, <1>10, <1>11, <1>12

(***************************************************************************)
(* Where no further frame is complete, the loop ends.                      *)
(***************************************************************************)
LEMMA FramesEnd ==
  ASSUME NEW frames, NEW n \in Nat, AllCuttable(frames, n), NEW cut \in 0..Start(frames, n),
         NEW k \in 0..n, Start(frames, k) <= cut, k < n => Start(frames, k + 1) > cut, NEW g
  PROVE  ReadFrom(Arrived(frames, n, cut), g, Start(frames, k))
           = [consumed |-> Start(frames, k), frames |-> <<>>]
  <1>1. PICK arrived, s : arrived = Arrived(frames, n, cut) /\ s = Start(frames, k)
    OBVIOUS
  <1>2. PICK rest : rest = SubSeq(arrived, s + 1, cut)
    OBVIOUS
  <1>3. arrived \in Seq(Nat) /\ Len(arrived) = cut /\ cut \in Nat /\ cut <= Start(frames, n)
    BY <1>1, ArrivedType
  <1>4. Stops(arrived, s)
    <2>1. CASE k = n
      <3>1. s = cut
        <4>1. s <= cut /\ cut <= s /\ s \in Nat
          BY <1>1, <1>3, <2>1, ArrivedType
        <4>2. QED
          BY ONLY <1>3, <4>1
      <3>2. s \in 0..Len(arrived) /\ rest = SubSeq(arrived, s + 1, Len(arrived))
        BY ONLY <1>2, <1>3, <3>1
      <3>3. rest \in Seq(Nat) /\ Len(rest) = Len(arrived) - s
        BY ONLY <1>3, <3>2, Rest
      <3>4. Len(rest) = 0
        BY ONLY <1>3, <3>1, <3>3
      <3>5. rest = <<>>
        BY <3>3, <3>4, EmptySeq
      <3>6. ~IsTcpFrame(rest)
        BY <3>5 DEF IsTcpFrame
      <3>7. SizeAt(arrived, s) = 0
        BY ONLY <3>2, <3>6 DEF SizeAt
      <3>8. QED
        BY ONLY <3>7 DEF Stops
    <2>2. CASE k # n
      <3>1. k \in 0..n - 1 /\ Start(frames, k + 1) > cut
        BY <2>2
      <3>2. PICK e : e = Serialize(frames[k + 1])
        OBVIOUS
      <3>3. rest \in Seq(Nat) /\ Begins(rest, e) /\ Len(rest) < Len(e)
        BY <1>1, <1>2, <3>1, <3>2, ArrivedFrame
      <3>4. k + 1 \in 1..n
        BY <3>1
      <3>5. Cuttable(frames[k + 1], e)
        BY <3>2, <3>4 DEF AllCuttable
      <3>6. ~IsTcpFrame(rest) \/ FrameSize(rest) = 0 \/ Len(rest) < FrameSize(rest)
        BY ONLY <3>3, <3>5 DEF Cuttable
      <3>7. SizeAt(arrived, s) = IF IsTcpFrame(rest) THEN FrameSize(rest) ELSE 0
        BY ONLY <1>2, <1>3 DEF SizeAt
      <3>8. SizeAt(arrived, s) = 0 \/ Len(rest) < SizeAt(arrived, s)
        BY ONLY <3>6, <3>7
      <3>9. QED
        BY ONLY <1>2, <1>3, <3>8 DEF Stops
    <2>3. QED
      BY <2>1, <2>2
  <1>5. QED
    BY ONLY <1>1, <1>4 DEF ReadFrom

(***************************************************************************)
(* A frame told in front of those that are told after it.                  *)
(***************************************************************************)
LEMMA InFront ==
  ASSUME NEW told, NEW m \in Nat, NEW k \in Nat
  PROVE  <<told[k + 1]>> \o [i \in 1..m |-> told[k + 1 + i]] = [i \in 1..m + 1 |-> told[k + i]]
  <1> DEFINE S == {told[k + i] : i \in 1..m + 1}
  <1>1. PICK a, s, t : /\ a = <<told[k + 1]>> /\ s = [i \in 1..m |-> told[k + 1 + i]]
                       /\ t = [i \in 1..m + 1 |-> told[k + i]]
    OBVIOUS
  <1>2. t \in [1..m + 1 -> S]
    BY <1>1
  <1>3. s \in [1..m -> S]
    <2> SUFFICES ASSUME NEW i \in 1..m PROVE told[k + 1 + i] \in S
      BY <1>1
    <2>1. i + 1 \in 1..m + 1 /\ k + 1 + i = k + (i + 1)
      OBVIOUS
    <2>2. QED
      BY <2>1
  <1>4. told[k + 1] \in S
    <2>1. 1 \in 1..m + 1
      OBVIOUS
    <2>2. QED
      BY <2>1
  <1> HIDE DEF S
  <1>5. a \in Seq(S) /\ Len(a) = 1 /\ a[1] = told[k + 1]
    BY <1>1, <1>4
  <1>6. s \in Seq(S) /\ Len(s) = m
    BY <1>3, OfLength
  <1>7. m + 1 \in Nat
    OBVIOUS
  <1>8. t \in Seq(S) /\ Len(t) = m + 1
    BY ONLY <1>2, <1>7, OfLength
  <1>9. PICK as : as = a \o s
    OBVIOUS
  <1>10. /\ as \in Seq(S) /\ Len(as) = 1 + m
         /\ \A i \in 1..1 + m : as[i] = IF i <= 1 THEN a[i] ELSE s[i - 1]
    <2>1. /\ a \o s \in Seq(S) /\ Len(a \o s) = Len(a) + Len(s)
          /\ \A i \in 1..Len(a) + Len(s) :
               (a \o s)[i] = IF i <= Len(a) THEN a[i] ELSE s[i - Len(a)]
      BY <1>5, <1>6, ConcatProperties
    <2>2. QED
      BY ONLY <1>5, <1>6, <1>9, <2>1
  <1>11. ASSUME NEW i \in 1..m + 1 PROVE as[i] = t[i]
    <2>1. t[i] = told[k + i]
      BY <1>1
    <2>2. CASE i = 1
      <3>1. 1 \in 1..1 + m /\ i <= 1
        BY <2>2
      <3>2. as[1] = a[1]
        BY ONLY <1>10, <2>2, <3>1
      <3>3. QED
        BY ONLY <1>5, <2>1, <2>2, <3>2
    <2>3. CASE i # 1
      <3>1. i - 1 \in 1..m /\ k + 1 + (i - 1) = k + i
        BY <2>3
      <3>2. s[i - 1] = told[k + 1 + (i - 1)]
        BY <1>1, <3>1
      <3>3. as[i] = s[i - 1]
        <4>1. i \in 1..1 + m /\ ~(i <= 1)
          BY <2>3
        <4>2. QED
          BY ONLY <1>10, <4>1
      <3>4. QED
        BY ONLY <2>1, <3>1, <3>2, <3>3
    <2>4. QED
      BY <2>2, <2>3
  <1>12. as = t
    <2>1. Len(as) = Len(t) /\ \A i \in 1..Len(as) : as[i] = t[i]
      <3>1. 1 + m = m + 1
        OBVIOUS
      <3>2. QED
        BY ONLY <1>8, <1>10, <1>11, <3>1
    <2>2. as \in Seq(S) /\ t \in Seq(S)
      BY ONLY <1>8, <1>10
    <2>3. QED
      BY ONLY <2>1, <2>2, SeqEqual
  <1>13. QED
    BY ONLY <1>1, <1>9, <1>12

(***************************************************************************)
(* Of what has arrived exactly the first n frames are handled, if they     *)
(* have arrived and the next has not: from the place behind any of them,   *)
(* the loop handles those that follow.                                     *)
(***************************************************************************)
LEMMA FramesHandled ==
  ASSUME NEW frames, NEW all \in Nat, AllCuttable(frames, all), NEW cut \in 0..Start(frames, all),
         NEW n \in 0..all, Start(frames, n) <= cut, n < all => Start(frames, n + 1) > cut
  PROVE  ProcessTcpFrames(Arrived(frames, all, cut))
           = [consumed |-> Start(frames, n), frames |-> [i \in 1..n |-> Told(frames[i])]]
  <1> DEFINE arrived == Arrived(frames, all, cut)
             told == [i \in 1..n |-> Told(frames[i])]
  <1>1. arrived \in Seq(Nat) /\ Len(arrived) = cut /\ cut \in Nat
    BY ArrivedType
  <1>2. PICK g : /\ ProcessTcpFrames(arrived) = g[0]
                 /\ \A o \in 0..Len(arrived) : g[o] = ReadFrom(arrived, g, o)
    BY <1>1, ProcessReads
  <1> DEFINE Good(k) == g[Start(frames, k)] = [consumed |-> Start(frames, n),
                                              frames |-> [i \in 1..n - k |-> told[k + i]]]
             Bad == {j \in 0..n : ~Good(n - j)}
  <1>3. ASSUME NEW k \in 0..n
        PROVE  Start(frames, k) \in 0..cut
    <2>1. PICK s, sn : s = Upto(frames, k) /\ sn = Upto(frames, n)
      OBVIOUS
    <2>2. n \in 0..all /\ k \in 0..all
      OBVIOUS
    <2>3. s \in Seq(Nat) /\ sn \in Seq(Nat)
      BY <2>1, <2>2, UptoType
    <2>4. Begins(s, sn)
      BY <2>1, <2>2, UptoBegins
    <2>5. Len(s) \in Nat /\ Len(sn) \in Nat /\ Len(s) <= Len(sn)
      BY <2>3, <2>4, LenProperties DEF Begins
    <2>6. Start(frames, k) = Len(s) /\ Start(frames, n) = Len(sn)
      BY <2>1 DEF Start
    <2>7. QED
      BY <1>1, <2>5, <2>6
  <1>4. ASSUME NEW k \in 0..n
        PROVE  g[Start(frames, k)] = ReadFrom(arrived, g, Start(frames, k))
    BY <1>1, <1>2, <1>3
  <1>5. Good(n)
    <2>1. g[Start(frames, n)] = [consumed |-> Start(frames, n), frames |-> <<>>]
      <3>1. ReadFrom(Arrived(frames, all, cut), g, Start(frames, n))
              = [consumed |-> Start(frames, n), frames |-> <<>>]
        BY FramesEnd
      <3>2. n \in 0..n
        OBVIOUS
      <3>3. QED
        BY ONLY <1>4, <3>1, <3>2 DEF arrived
    <2>2. [i \in 1..n - n |-> told[n + i]] = <<>>
      <3>1. 1..n - n = {}
        OBVIOUS
      <3>2. PICK none : none = [i \in 1..n - n |-> told[n + i]]
        OBVIOUS
      <3>3. none \in Seq(Nat) /\ Len(none) = 0
        <4>1. none \in [1..0 -> Nat] /\ 0 \in Nat
          BY <3>1, <3>2
        <4>2. QED
          BY ONLY <4>1, OfLength
      <3>4. none = <<>>
        BY <3>3, EmptySeq
      <3>5. QED
        BY ONLY <3>2, <3>4
    <2>3. QED
      BY ONLY <2>1, <2>2
  <1>6. ASSUME NEW k \in 0..n - 1, Good(k + 1)
        PROVE  Good(k)
    <2>1. PICK m \in Nat : m + 1 = n - k /\ m = n - (k + 1)
      OBVIOUS
    <2>2. k \in 0..n /\ k + 1 \in 0..n /\ k \in 0..all - 1 /\ k \in Nat /\ k + 1 \in 1..n
      OBVIOUS
    <2>3. Start(frames, k + 1) <= cut
      BY <1>3, <2>2
    <2>4. ReadFrom(Arrived(frames, all, cut), g, Start(frames, k))
            = [consumed |-> g[Start(frames, k + 1)].consumed,
               frames |-> <<Told(frames[k + 1])>> \o g[Start(frames, k + 1)].frames]
      BY <2>2, <2>3, FrameHandled
    <2>5. g[Start(frames, k)] = ReadFrom(Arrived(frames, all, cut), g, Start(frames, k))
      BY <1>4, <2>2
    <2>6. PICK after : after = [i \in 1..m |-> told[k + 1 + i]]
      OBVIOUS
    <2>7. g[Start(frames, k + 1)] = [consumed |-> Start(frames, n), frames |-> after]
      BY ONLY <1>6, <2>1, <2>6 DEF Good
    <2>8. Told(frames[k + 1]) = told[k + 1]
      BY ONLY <2>2 DEF told
    <2>9. g[Start(frames, k)] = [consumed |-> Start(frames, n), frames |-> <<told[k + 1]>> \o after]
      BY ONLY <2>4, <2>5, <2>7, <2>8
    <2>10. <<told[k + 1]>> \o after = [i \in 1..m + 1 |-> told[k + i]]
      <3> HIDE DEF told
      <3>1. QED
        BY <2>2, <2>6, InFront
    <2>11. QED
      BY ONLY <2>1, <2>9, <2>10 DEF Good
  <1> HIDE DEF Good
  <1>7. Bad = {}
    <2> SUFFICES ASSUME Bad # {} PROVE FALSE
      OBVIOUS
    <2>1. PICK j \in Bad : \A i \in Bad : j <= i
      <3>1. Bad \in SUBSET Nat
        OBVIOUS
      <3> HIDE DEF Bad
      <3>2. QED
        BY <3>1, LeastOf
    <2>2. j # 0
      <3>1. n - 0 = n
        OBVIOUS
      <3>2. QED
        BY <1>5, <3>1
    <2>3. PICK k \in 0..n - 1 : k = n - j /\ k + 1 = n - (j - 1) /\ j - 1 \in 0..n
      BY <2>2
    <2>4. Good(n - (j - 1))
      BY <2>1, <2>3
    <2>5. Good(k + 1)
      BY ONLY <2>3, <2>4
    <2>6. Good(k)
      BY <1>6, <2>5
    <2>7. QED
      BY <2>3, <2>6
  <1>8. Good(0)
    <2>1. n - n = 0 /\ n \in 0..n
      OBVIOUS
    <2>2. QED
      BY <1>7, <2>1
  <1>9. Start(frames, 0) = 0
    <2>1. PICK none : none = <<>> /\ Len(none) = 0
      OBVIOUS
    <2>2. Upto(frames, 0) = none
      BY <2>1, UptoSteps, 0 \in Nat
    <2>3. QED
      BY ONLY <2>1, <2>2 DEF Start
  <1>10. [i \in 1..n - 0 |-> told[0 + i]] = told
    <2>1. n - 0 = n /\ \A i \in 1..n : 0 + i = i
      OBVIOUS
    <2>2. QED
      BY <2>1
  <1>11. g[0] = [consumed |-> Start(frames, n), frames |-> told]
    BY ONLY <1>8, <1>9, <1>10 DEF Good
  <1>12. QED
    BY ONLY <1>2, <1>11 DEF arrived, told

(***************************************************************************)
(* The agent handles the frames of a flow that have arrived, and no other. *)
(***************************************************************************)
LEMMA FlowRead ==
  ASSUME NEW w \in Flows
  PROVE  LET whole == {n \in 0..Len(w.frames) : Len(Written(SubSeq(w.frames, 1, n))) <= w.cut}
             n == CHOOSE m \in whole : \A k \in whole : k <= m
             done == ProcessTcpFrames(SubSeq(Written(w.frames), 1, w.cut))
         IN  /\ done.consumed = Len(Written(SubSeq(w.frames, 1, n)))
             /\ done.frames = [i \in 1..n |-> Told(w.frames[i])]
  <1>1. PICK frames, cut : frames = w.frames /\ cut = w.cut
    OBVIOUS
  <1>2. /\ frames \in Seq(OpenFrames \cup DataFrames)
        /\ \A i \in DOMAIN frames :
             frames[i].type = TCP_DATA =>
               Len(frames[i].data) \in Uint(4) /\ Len(frames[i].data) <= MaxData
        /\ cut \in 0..Len(Written(frames))
    BY <1>1, FlowsAssumption
  <1>3. PICK all \in Nat : all = Len(frames) /\ DOMAIN frames = 1..all
    BY <1>2, LenProperties
  <1>4. AllCuttable(frames, all)
    <2> SUFFICES ASSUME NEW i \in 1..all PROVE Cuttable(frames[i], Serialize(frames[i]))
      BY DEF AllCuttable
    <2>1. PICK f : f = frames[i]
      OBVIOUS
    <2>2. f \in OpenFrames \cup DataFrames
      BY <1>2, <1>3, <2>1, ElementOfSeq
    <2>3. CASE f \in OpenFrames
      BY <2>1, <2>3, OpenCuttable
    <2>4. CASE f \in DataFrames
      <3>1. f.type = TCP_DATA
        BY <2>4 DEF DataFrames
      <3>2. Len(f.data) \in Uint(4) /\ Len(f.data) <= MaxData
        BY <1>2, <1>3, <2>1, <3>1
      <3>3. QED
        BY <2>1, <2>4, <3>2, DataCuttable
    <2>5. QED
      BY <2>2, <2>3, <2>4
  <1>5. Written(frames) = Upto(frames, all)
    BY <1>3, WrittenIs
  <1>6. cut \in 0..Start(frames, all)
    BY <1>2, <1>5 DEF Start
  <1>7. ASSUME NEW k \in 0..all
        PROVE  Len(Written(SubSeq(frames, 1, k))) = Start(frames, k)
    BY <1>2, <1>3, WrittenUpto DEF Start
  <1> DEFINE whole == {k \in 0..Len(frames) : Len(Written(SubSeq(frames, 1, k))) <= cut}
             n == CHOOSE m \in whole : \A k \in whole : k <= m
             done == ProcessTcpFrames(SubSeq(Written(frames), 1, cut))
  <1>8. whole = {k \in 0..all : Start(frames, k) <= cut}
    BY <1>3, <1>7
  <1>9. 0 \in whole
    <2>1. PICK none : none = <<>> /\ Len(none) = 0
      OBVIOUS
    <2>2. Upto(frames, 0) = none
      BY <2>1, UptoSteps, 0 \in Nat
    <2>3. Start(frames, 0) = 0
      BY ONLY <2>1, <2>2 DEF Start
    <2>4. 0 <= cut /\ 0 \in 0..all
      BY <1>4, <1>6, ArrivedType
    <2>5. QED
      BY ONLY <1>8, <2>3, <2>4
  <1>10. whole \in SUBSET (0..all)
    BY ONLY <1>8
  <1> HIDE DEF whole
  <1>11. n \in whole /\ \A k \in whole : k <= n
    <2> DEFINE From == {all - k : k \in whole}
    <2>1. From \in SUBSET Nat /\ From # {}
      BY <1>9, <1>10
    <2>2. PICK least \in From : \A j \in From : least <= j
      <3> HIDE DEF From
      <3>1. QED
        BY <2>1, LeastOf
    <2>3. PICK m \in whole : least = all - m
      OBVIOUS
    <2>4. ASSUME NEW k \in whole PROVE k <= m
      <3>1. all - m <= all - k
        BY <2>2, <2>3
      <3>2. QED
        BY ONLY <1>10, <3>1, all \in Nat, k \in whole, m \in whole
    <2>5. QED
      BY <2>4
  <1> HIDE DEF n
  <1>12. n \in 0..all /\ Start(frames, n) <= cut
    BY ONLY <1>8, <1>11
  <1>13. n < all => Start(frames, n + 1) > cut
    <2> SUFFICES ASSUME n < all PROVE Start(frames, n + 1) > cut
      OBVIOUS
    <2>1. n + 1 \in 0..all /\ n \in 0..all - 1 /\ ~(n + 1 <= n)
      BY <1>12
    <2>2. n + 1 \notin whole
      BY <1>11, <2>1
    <2>3. ~(Start(frames, n + 1) <= cut)
      BY ONLY <1>8, <2>1, <2>2
    <2>4. Start(frames, n + 1) \in Nat /\ cut \in Nat
      BY <1>4, <1>6, <2>1, UptoBehind, ArrivedType
    <2>5. QED
      BY ONLY <2>3, <2>4
  <1>14. ProcessTcpFrames(Arrived(frames, all, cut))
           = [consumed |-> Start(frames, n), frames |-> [i \in 1..n |-> Told(frames[i])]]
    BY <1>4, <1>6, <1>12, <1>13, FramesHandled
  <1>15. done = [consumed |-> Start(frames, n), frames |-> [i \in 1..n |-> Told(frames[i])]]
    BY ONLY <1>5, <1>14 DEF Arrived, done
  <1> HIDE DEF done
  <1>16. Len(Written(SubSeq(frames, 1, n))) = Start(frames, n)
    BY <1>7, <1>12
  <1>17. done.consumed = Start(frames, n) /\ done.frames = [i \in 1..n |-> Told(frames[i])]
    BY ONLY <1>15
  <1>18. /\ done.consumed = Len(Written(SubSeq(frames, 1, n)))
         /\ done.frames = [i \in 1..n |-> Told(frames[i])]
    BY ONLY <1>16, <1>17
  <1>19. QED
    BY ONLY <1>1, <1>18 DEF done, n, whole

-----------------------------------------------------------------------------
\* The theorems

\* A sample is one of the inputs.
Taken(kind, inputs) == sample # Nothing /\ Is(kind) => sample.of \in inputs

Sampled ==
  /\ Taken("frame", Frames)
  /\ Taken("mux", MuxSends)
  /\ Taken("flow", Flows)
  /\ Taken("reply", Replies)
  /\ Taken("client", Clients)
  /\ Taken("calls", Calls)
  /\ Taken("request", Requests)
  /\ Taken("loads", Loads)

(***************************************************************************)
(* FramesReadBack, for every OPEN, CLOSE, ERROR and ACK whose fields fit   *)
(* their bytes, every frame of the multiplexer, every text, and both       *)
(* orders of the bytes of a host.  FramesAssumption leaves out DATA, which *)
(* its deserialize() does not read back (tcp_protocol.cpp:102).            *)
(***************************************************************************)
THEOREM ControlFramesReadBack == Spec => []FramesReadBack
  <1>1. Init => Sampled
    BY DEF Init, Sampled, Taken
  <1>2. Sampled /\ [Next]_sample => Sampled'
    BY DEF Sampled, Taken, Next, Take, Is, Nothing
  <1>3. Sampled => FramesReadBack
    <2> SUFFICES ASSUME Sampled PROVE FramesReadBack
      OBVIOUS
    <2>1. (Is("frame") => x \in Frames) /\ (Is("mux") => x \in MuxSends)
      BY DEF Sampled, Taken, Is, Nothing, x
    <2> HIDE DEF x
    <2>2. Is("frame") => ReadsBack(x, Serialize(x))
      BY <2>1, FrameReadBack
    <2>3. QED
      BY <2>1, <2>2, MuxReadBack DEF FramesReadBack, ReadsBack
  <1>4. QED
    BY <1>1, <1>2, <1>3, PTL DEF Spec

(***************************************************************************)
(* AgentReadsFrames, for every run of OPEN and DATA frames, wherever a     *)
(* read of the agent cuts their bytes, and for every DATA or CLOSE of the  *)
(* agent, whatever bytes follow it.                                        *)
(***************************************************************************)
THEOREM FramesAlwaysRead == Spec => []AgentReadsFrames
  <1>1. Init => Sampled
    BY DEF Init, Sampled, Taken
  <1>2. Sampled /\ [Next]_sample => Sampled'
    BY DEF Sampled, Taken, Next, Take, Is, Nothing
  <1>3. Sampled => AgentReadsFrames
    <2> SUFFICES ASSUME Sampled PROVE AgentReadsFrames
      OBVIOUS
    <2>1. (Is("flow") => x \in Flows) /\ (Is("reply") => x \in Replies)
      BY DEF Sampled, Taken, Is, Nothing, x
    <2> HIDE DEF x
    <2>2. QED
      BY <2>1, FlowRead, ReplyRead DEF AgentReadsFrames
  <1>4. QED
    BY <1>1, <1>2, <1>3, PTL DEF Spec

(***************************************************************************)
(* AllowlistExact, for every list of entries and every client address,     *)
(* with bytes of any width and addresses of any length.                    *)
(***************************************************************************)
THEOREM AllowlistsExact == Spec => []AllowlistExact
  <1>1. Init => Sampled
    BY DEF Init, Sampled, Taken
  <1>2. Sampled /\ [Next]_sample => Sampled'
    BY DEF Sampled, Taken, Next, Take, Is, Nothing
  <1>3. Sampled => AllowlistExact
    <2> SUFFICES ASSUME Sampled, Is("client")
                 PROVE  ValidateIpAllowlist(x.entries, x.ip) <=> LetsIn(x.entries, x.ip)
      BY DEF AllowlistExact
    <2>1. x \in Clients
      BY DEF Sampled, Taken, Is, Nothing, x
    <2>2. x.entries \in Seq(ListEntries) /\ x.ip \in Addresses \cup {Unparsed}
      BY <2>1, ClientsAssumption
    <2>3. QED
      BY <2>2, ListExact
  <1>4. QED
    BY <1>1, <1>2, <1>3, PTL DEF Spec

(***************************************************************************)
(* The requests that allow_request() admits between two moments, with      *)
(* nobody setting, removing or resetting the limit in between, are at most *)
(* the burst and what the rate gives; one that waited long enough is       *)
(* admitted; and check_limit() agrees with allow_request(). For all        *)
(* sequences of calls, whatever their number, rates, bursts and times.     *)
(***************************************************************************)
THEOREM RateAlwaysHonoured == Spec => []RateHonoured
  <1>1. Init => Sampled
    BY DEF Init, Sampled, Taken
  <1>2. Sampled /\ [Next]_sample => Sampled'
    BY DEF Sampled, Taken, Next, Take, Is, Nothing
  <1>3. Sampled => RateHonoured
    <2> SUFFICES ASSUME Sampled, Is("calls") PROVE RateHonoured
      BY DEF RateHonoured
    <2>1. x \in Calls
      BY DEF Sampled, Taken, Is, Nothing, x
    <2>2. Ordered(x)
      BY <2>1, CallsAssumption DEF Ordered
    <2> HIDE DEF x
    <2>3. QED
      BY <2>2, CallsHonoured DEF RateHonoured
  <1>4. QED
    BY <1>1, <1>2, <1>3, PTL DEF Spec

(***************************************************************************)
(* RequestsDecided, for every request and every set of tunnels whose ids   *)
(* have one label each.                                                    *)
(***************************************************************************)
THEOREM RequestsAlwaysDecided == Spec => []RequestsDecided
  <1>1. Init => Sampled
    BY DEF Init, Sampled, Taken
  <1>2. Sampled /\ [Next]_sample => Sampled'
    BY DEF Sampled, Taken, Next, Take, Is, Nothing
  <1>3. Sampled => RequestsDecided
    <2> SUFFICES ASSUME Sampled, Is("request") PROVE RequestsDecided
      BY DEF RequestsDecided
    <2>1. x \in Requests
      BY DEF Sampled, Taken, Is, Nothing, x
    <2> HIDE DEF x
    <2>2. QED
      BY <2>1, RequestDecided DEF RequestsDecided
  <1>4. QED
    BY <1>1, <1>2, <1>3, PTL DEF Spec

(***************************************************************************)
(* CertificateFresh, for every sequence of calls on TLSManager and every   *)
(* name a client asks for.                                                 *)
(***************************************************************************)
THEOREM CertificatesAlwaysFresh == Spec => []CertificateFresh
  <1>1. Init => Sampled
    BY DEF Init, Sampled, Taken, Nothing
  <1>2. Sampled /\ [Next]_sample => Sampled'
    BY DEF Sampled, Taken, Next, Take, Is, Nothing
  <1>3. Sampled => CertificateFresh
    <2> SUFFICES ASSUME Sampled, Is("loads") PROVE CertificateFresh
      BY DEF CertificateFresh
    <2>1. x \in Loads
      BY DEF Sampled, Taken, Is, Nothing, x
    <2> HIDE DEF x
    <2>2. QED
      BY <2>1, CertificatesNewest DEF CertificateFresh
  <1>4. QED
    BY <1>1, <1>2, <1>3, PTL DEF Spec
==============================================================================
