------------------------ MODULE StackCode_proof -----------------------------
(***************************************************************************)
(* Proof that the parser's tables stay well formed, that what the parser   *)
(* accepts passes validation, that -O0 code does what the evaluator does,  *)
(* and that both do what the source means: for any widths of the words,    *)
(* any authors and any limits.                                             *)
(*                                                                         *)
(* 1. Arithmetic: words, their normal forms, the operations of the 68020.  *)
(* 2. ParserInv, the invariant of the parser.                              *)
(* 3. The line of a function: after each instruction of its code, which    *)
(*    nodes have their words on the stack and how many statements are      *)
(*    done.  The types of validate_block_stack are those of these nodes.   *)
(* 4. RunInv: a call follows its line, and evaluator and processor hold    *)
(*    the words of the same nodes.                                         *)
(* 5. MeaningInv: these words denote what their nodes mean, and the        *)
(*    constants of the parser are among them.                              *)
(***************************************************************************)
EXTENDS StackCode, FiniteSetTheorems, SequenceTheorems, WellFoundedInduction,
        TLAPS

-----------------------------------------------------------------------------
(* Induction over the naturals, as a fact about sets. *)
LEMMA SetInduction ==
  ASSUME NEW S, 0 \in S, \A n \in Nat : n \in S => n + 1 \in S
  PROVE  Nat \subseteq S
<1> DEFINE R == {ss \in Nat \X Nat : ss[1] < ss[2]}
           T == Nat \ S
<1>1. IsWellFoundedOn(R, Nat)  BY NatLessThanWellFounded DEF OpToRel
<1> SUFFICES ASSUME T # {} PROVE FALSE
  OBVIOUS
<1>2. PICK x \in T : \A y \in T : ~ (<<y, x>> \in R)
  <2> HIDE DEF R, T
  <2>1. T \subseteq Nat  BY DEF T
  <2> QED BY <1>1, <2>1, WFMin
<1>3. x - 1 \in Nat /\ x - 1 + 1 = x  BY x # 0
<1>4. x - 1 \in S
  <2>1. <<x - 1, x>> \in R  BY <1>3
  <2> QED BY <1>2, <1>3, <2>1
<1> QED BY <1>3, <1>4

(* Powers of two, counted as the subsets of an interval. *)
LEMMA PowerIsNatural ==
  ASSUME NEW n \in Nat
  PROVE  /\ 2 ^ n \in Nat
         /\ IsFiniteSet(SUBSET (1 .. n))
         /\ Cardinality(SUBSET (1 .. n)) = 2 ^ n
<1>1. IsFiniteSet(1 .. n) /\ Cardinality(1 .. n) = n  BY FS_Interval
<1>2. /\ IsFiniteSet(SUBSET (1 .. n))
      /\ Cardinality(SUBSET (1 .. n)) = 2 ^ Cardinality(1 .. n)
  BY <1>1, FS_SUBSET
<1> QED BY <1>1, <1>2, FS_CardinalityType

LEMMA PowerDoubles ==
  ASSUME NEW n \in Nat
  PROVE  2 ^ (n + 1) = 2 * 2 ^ n
<1> DEFINE A == SUBSET (1 .. n)
           B == {s \in SUBSET (1 .. n + 1) : n + 1 \in s}
           f == [s \in A |-> s \cup {n + 1}]
<1>1. IsFiniteSet(A) /\ Cardinality(A) = 2 ^ n /\ 2 ^ n \in Nat
  BY PowerIsNatural
<1>2. /\ IsFiniteSet(SUBSET (1 .. n + 1))
      /\ Cardinality(SUBSET (1 .. n + 1)) = 2 ^ (n + 1)
  BY PowerIsNatural, n + 1 \in Nat
<1>3. f \in Bijection(A, B)
  <2>1. f \in [A -> B]  OBVIOUS
  <2>2. \A s, t \in A : f[s] = f[t] => s = t
    <3> TAKE s, t \in A
    <3> HAVE f[s] = f[t]
    <3>1. n + 1 \notin s /\ n + 1 \notin t  OBVIOUS
    <3>2. s \cup {n + 1} = t \cup {n + 1}  OBVIOUS
    <3> QED BY <3>1, <3>2
  <2>3. \A u \in B : \E s \in A : f[s] = u
    <3> TAKE u \in B
    <3> WITNESS u \ {n + 1} \in A
    <3> QED OBVIOUS
  <2> QED BY <2>1, <2>2, <2>3 DEF Bijection, Injection, Surjection, IsInjective
<1>4. IsFiniteSet(B) /\ Cardinality(B) = 2 ^ n
  <2>1. ExistsBijection(A, B)  BY <1>3 DEF ExistsBijection
  <2> QED BY <1>1, <2>1, FS_Bijection
<1>5. A \cup B = SUBSET (1 .. n + 1) /\ A \cap B = {}
  <2>1. A \cap B = {}  OBVIOUS
  <2>2. A \cup B \subseteq SUBSET (1 .. n + 1)  OBVIOUS
  <2>3. SUBSET (1 .. n + 1) \subseteq A \cup B
    <3> SUFFICES ASSUME NEW s \in SUBSET (1 .. n + 1)
                 PROVE  s \in A \/ s \in B
      OBVIOUS
    <3>1. CASE n + 1 \in s  BY <3>1
    <3>2. CASE n + 1 \notin s
      <4>1. s \subseteq 1 .. n  BY <3>2
      <4> QED BY <4>1
    <3> QED BY <3>1, <3>2
  <2> QED BY <2>1, <2>2, <2>3
<1>6. Cardinality(A \cup B) = 2 ^ n + 2 ^ n - Cardinality(A \cap B)
  <2> HIDE DEF A, B
  <2> QED BY <1>1, <1>4, FS_Union
<1>7. Cardinality(A \cap B) = 0  BY <1>5, FS_EmptySet
<1>8. Cardinality(A \cup B) = 2 ^ (n + 1)  BY <1>2, <1>5
<1> HIDE DEF A, B
<1> QED BY <1>1, <1>6, <1>7, <1>8

LEMMA PowerDivides ==
  ASSUME NEW n \in Nat, NEW m \in Nat, n <= m
  PROVE  \E q \in Nat \ {0} : 2 ^ m = q * 2 ^ n
<1> DEFINE S == {k \in Nat : \E q \in Nat \ {0} : 2 ^ (n + k) = q * 2 ^ n}
<1>1. 0 \in S
  <2>1. 2 ^ n \in Nat  BY PowerIsNatural
  <2>2. n + 0 = n  OBVIOUS
  <2>3. 2 ^ (n + 0) = 1 * 2 ^ n  BY <2>1, <2>2
  <2>4. 1 \in Nat \ {0} /\ 0 \in Nat  OBVIOUS
  <2> QED BY <2>3, <2>4
<1>2. \A k \in Nat : k \in S => k + 1 \in S
  <2> TAKE k \in Nat
  <2> HAVE k \in S
  <2>1. PICK q \in Nat \ {0} : 2 ^ (n + k) = q * 2 ^ n  OBVIOUS
  <2>2. 2 ^ (n + k + 1) = 2 * 2 ^ (n + k) /\ n + k + 1 = n + (k + 1)
    BY PowerDoubles
  <2>3. 2 ^ n \in Nat  BY PowerIsNatural
  <2>4. 2 ^ (n + (k + 1)) = (2 * q) * 2 ^ n  BY <2>1, <2>2, <2>3
  <2>5. 2 * q \in Nat \ {0} /\ k + 1 \in Nat  OBVIOUS
  <2> QED BY <2>4, <2>5
<1>3. m - n \in S
  <2> HIDE DEF S
  <2>1. m - n \in Nat  OBVIOUS
  <2> QED BY <1>1, <1>2, <2>1, SetInduction
<1>4. n + (m - n) = m  OBVIOUS
<1> QED BY <1>3, <1>4

(* Division with remainder. *)
LEMMA Remainder ==
  ASSUME NEW x \in Int, NEW m \in Nat \ {0}
  PROVE  /\ x % m \in 0 .. m - 1
         /\ x \div m \in Int
         /\ x = (x \div m) * m + (x % m)
<1>1. x \div m \in Int  OBVIOUS
<1>2. x % m \in 0 .. m - 1  OBVIOUS
<1>3. x = m * (x \div m) + (x % m)  BY SMTT(30)
<1> QED BY <1>1, <1>2, <1>3

LEMMA RemainderIsUnique ==
  ASSUME NEW x \in Int, NEW m \in Nat \ {0}, NEW q \in Int,
         NEW r \in 0 .. m - 1, x = q * m + r
  PROVE  x % m = r /\ x \div m = q
<1>1. x \div m = q  BY SMT
<1> QED BY <1>1, Remainder

LEMMA RemainderOfShifted ==
  ASSUME NEW x \in Int, NEW m \in Nat \ {0}, NEW k \in Int
  PROVE  (x + k * m) % m = x % m
<1> DEFINE q == x \div m
           r == x % m
<1>1. q \in Int /\ r \in 0 .. m - 1 /\ x = q * m + r  BY Remainder
<1> HIDE DEF q, r
<1>2. x + k * m = (q + k) * m + r  BY <1>1
<1>3. x + k * m \in Int /\ q + k \in Int  BY <1>1
<1>4. (x + k * m) % m = r  BY <1>1, <1>2, <1>3, RemainderIsUnique
<1> QED BY <1>4 DEF r

LEMMA RemainderOfSmall ==
  ASSUME NEW m \in Nat \ {0}, NEW x \in 0 .. m - 1
  PROVE  x % m = x
<1>1. x = 0 * m + x  OBVIOUS
<1> QED BY <1>1, RemainderIsUnique

(* The sizes of words. *)
LEMMA BitsAreSizes ==
  ASSUME NEW type
  PROVE  BitsOf(type) \in Nat \ {0} /\ BitsOf(type) <= Width
BY SizesAssumption DEF BitsOf

LEMMA HalfOfPower ==
  ASSUME NEW n \in Nat \ {0}
  PROVE  /\ 2 ^ n \in Nat \ {0} /\ 2 ^ (n - 1) \in Nat \ {0}
         /\ 2 ^ n = 2 * 2 ^ (n - 1)
<1>1. n - 1 \in Nat /\ n - 1 + 1 = n  OBVIOUS
<1>2. 2 ^ (n - 1 + 1) = 2 * 2 ^ (n - 1) /\ 2 ^ (n - 1) \in Nat
  BY <1>1, PowerDoubles, PowerIsNatural
<1>3. PICK q \in Nat \ {0} : 2 ^ n = q * 2 ^ 0
  BY PowerDivides, 0 \in Nat, 0 <= n
<1>4. 2 ^ 0 = 1  OBVIOUS
<1>5. 2 ^ n # 0  BY <1>3, <1>4
<1> QED BY <1>1, <1>2, <1>5

LEMMA WordSizes ==
  /\ Modulus \in Nat \ {0} /\ SignBit \in Nat \ {0}
  /\ Modulus = 2 * SignBit
BY HalfOfPower, SizesAssumption DEF Modulus, SignBit

LEMMA TypeSizes ==
  ASSUME NEW type
  PROVE  /\ 2 ^ BitsOf(type) \in Nat \ {0}
         /\ 2 ^ (BitsOf(type) - 1) \in Nat \ {0}
         /\ 2 ^ BitsOf(type) = 2 * 2 ^ (BitsOf(type) - 1)
         /\ \E q \in Nat \ {0} : Modulus = q * 2 ^ BitsOf(type)
<1>1. BitsOf(type) \in Nat \ {0} /\ BitsOf(type) <= Width /\ Width \in Nat
  BY BitsAreSizes, SizesAssumption
<1> QED BY <1>1, HalfOfPower, PowerDivides DEF Modulus

LEMMA WrapIsWord ==
  ASSUME NEW x \in Int
  PROVE  Wrap(x) \in Word
BY Remainder, WordSizes DEF Wrap, Word

LEMMA WrapOfWord ==
  ASSUME NEW x \in Word
  PROVE  Wrap(x) = x
BY RemainderOfSmall, WordSizes DEF Wrap, Word

LEMMA WrapOfShifted ==
  ASSUME NEW x \in Int, NEW k \in Int
  PROVE  Wrap(x + k * Modulus) = Wrap(x)
BY RemainderOfShifted, WordSizes DEF Wrap

(* Normalized words. *)
LEMMA NormalForm ==
  ASSUME NEW type, NEW w \in Int
  PROVE  \E p \in Nat \ {0}, h \in Nat \ {0}, q \in Nat \ {0}, l \in Nat :
            /\ p = 2 ^ BitsOf(type) /\ h = 2 ^ (BitsOf(type) - 1)
            /\ p = 2 * h /\ Modulus = q * p /\ Modulus >= p
            /\ l = w % p /\ l < p
            /\ Normalize(type, w) = IF type \in SignedTypes /\ l >= h
                                    THEN l + (Modulus - p) ELSE l
<1> DEFINE p == 2 ^ BitsOf(type)
           h == 2 ^ (BitsOf(type) - 1)
           l == w % p
<1>1. /\ p \in Nat \ {0} /\ h \in Nat \ {0} /\ p = 2 * h
      /\ \E q \in Nat \ {0} : Modulus = q * p
  BY TypeSizes
<1>2. Normalize(type, w) = IF type \in SignedTypes /\ l >= h
                           THEN l + (Modulus - p) ELSE l
  BY DEF Normalize
<1> HIDE DEF p, h
<1>3. l \in 0 .. p - 1  BY <1>1, Remainder
<1> HIDE DEF l
<1>4. PICK q \in Nat \ {0} : Modulus = q * p  BY <1>1
<1>5. q * p >= p  BY <1>1
<1> QED BY <1>1, <1>2, <1>3, <1>4, <1>5 DEF p, h, l

LEMMA NormalizeIsWord ==
  ASSUME NEW type, NEW w \in Int
  PROVE  Normalize(type, w) \in Word
<1>1. PICK p \in Nat \ {0}, h \in Nat \ {0}, q \in Nat \ {0}, l \in Nat :
            /\ p = 2 * h /\ Modulus = q * p /\ Modulus >= p
            /\ l = w % p /\ l < p
            /\ Normalize(type, w) = IF type \in SignedTypes /\ l >= h
                                    THEN l + (Modulus - p) ELSE l
  BY NormalForm, ZenonT(40)
<1> QED BY <1>1, WordSizes DEF Word

LEMMA NormalizeTwice ==
  ASSUME NEW type, NEW w \in Int
  PROVE  Normalize(type, Normalize(type, w)) = Normalize(type, w)
<1> DEFINE v == Normalize(type, w)
<1>1. PICK p \in Nat \ {0}, h \in Nat \ {0}, q \in Nat \ {0}, l \in Nat :
            /\ p = 2 ^ BitsOf(type) /\ h = 2 ^ (BitsOf(type) - 1)
            /\ p = 2 * h /\ Modulus = q * p /\ Modulus >= p
            /\ l = w % p /\ l < p
            /\ v = IF type \in SignedTypes /\ l >= h
                   THEN l + (Modulus - p) ELSE l
  BY NormalForm
<1>2. v % p = l
  <2>1. v = l \/ v = l + (q - 1) * p  BY <1>1
  <2>2. l % p = l  BY <1>1, RemainderOfSmall
  <2> HIDE DEF v
  <2>3. (l + (q - 1) * p) % p = l
    <3> DEFINE k == q - 1
    <3>1. k \in Int /\ l \in Int  OBVIOUS
    <3> HIDE DEF k
    <3>2. (l + k * p) % p = l % p  BY <3>1, RemainderOfShifted
    <3> QED BY <2>2, <3>2 DEF k
  <2> QED BY <2>1, <2>2, <2>3
<1> HIDE DEF v
<1>3. Normalize(type, v) = IF type \in SignedTypes /\ v % p >= h
                           THEN (v % p) + (Modulus - p) ELSE v % p
  BY <1>1 DEF Normalize
<1>4. Normalize(type, v) = v  BY <1>1, <1>2, <1>3
<1> QED BY <1>4 DEF v

LEMMA NormalizeWide ==
  ASSUME NEW type, BitsOf(type) = Width, NEW w \in Word
  PROVE  Normalize(type, w) = w
<1>1. w % Modulus = w  BY RemainderOfSmall, WordSizes DEF Word
<1> QED BY <1>1, WordSizes DEF Normalize, Modulus, Word

(* miga80_emit_gnu_m68k_normalize_integer is miga80_normalize_integer. *)
LEMMA MachineNormalizes ==
  ASSUME NEW type \in Types, NEW w \in Word
  PROVE  Normalizing(type, w) = Normalize(type, w)
<1> USE DEF Types, IntegerTypes, SignedTypes, UnsignedTypes, PoolTypes
<1>1. CASE type \in {"i8", "i16"}
  BY <1>1 DEF Normalizing, Normalize, Operation, Extended, LowBits, BitsOf
<1>2. CASE type = "u8"
  <2>1. 2 ^ Byte \in Nat  BY PowerIsNatural, SizesAssumption
  <2>2. 2 ^ Byte - 1 + 1 = 2 ^ Byte  BY <2>1
  <2> QED BY <1>2, <2>2 DEF Normalizing, Normalize, Operation, BitsOf
<1>3. CASE type = "u16"
  <2>1. 2 ^ Half \in Nat  BY PowerIsNatural, SizesAssumption
  <2>2. 2 ^ Half - 1 + 1 = 2 ^ Half  BY <2>1
  <2> QED BY <1>3, <2>2 DEF Normalizing, Normalize, Operation, BitsOf
<1>4. CASE type \in {"i32", "bool", "string", "symbol"}
  <2>1. BitsOf(type) = Width  BY <1>4 DEF BitsOf
  <2> QED BY <1>4, <2>1, NormalizeWide DEF Normalizing
<1> QED BY <1>1, <1>2, <1>3, <1>4

(* The instructions of the processor do the arithmetic of the evaluator. *)
LEMMA SignedNumber ==
  ASSUME NEW w \in Word
  PROVE  /\ w < SignBit => Signed(w) = w
         /\ w >= SignBit => Signed(w) = w - Modulus /\ Negated(w) = Modulus - w
         /\ \E k \in Int : Signed(w) = w + k * Modulus
<1>1. w \in 0 .. Modulus - 1 /\ Modulus \in Nat \ {0} /\ SignBit \in Nat \ {0}
  BY WordSizes DEF Word
<1>2. w < SignBit => Signed(w) = w  BY <1>1 DEF Signed
<1>3. ASSUME w >= SignBit
      PROVE  Signed(w) = w - Modulus /\ Negated(w) = Modulus - w
  <2>1. Wrap(0 - w + 1 * Modulus) = Wrap(0 - w)  BY <1>1, WrapOfShifted
  <2>2. 0 - w + 1 * Modulus = Modulus - w /\ Modulus - w \in Word
    BY <1>1, <1>3 DEF Word
  <2> QED BY <1>1, <1>3, <2>1, <2>2, WrapOfWord DEF Signed, Negated
<1>4. w = w + 0 * Modulus /\ w - Modulus = w + (0 - 1) * Modulus  BY <1>1
<1>5. w < SignBit \/ w >= SignBit  BY <1>1
<1> QED BY <1>2, <1>3, <1>4, <1>5, 0 \in Int, 0 - 1 \in Int

LEMMA QuotientIsSmall ==
  ASSUME NEW x \in Nat, NEW y \in Nat \ {0}
  PROVE  x \div y \in 0 .. x
<1> DEFINE q == x \div y
           r == x % y
<1>1. q \in Int /\ r \in 0 .. y - 1 /\ x = q * y + r  BY Remainder
<1> HIDE DEF q, r
<1>2. q >= 0
  <2> SUFFICES ASSUME q <= 0 - 1 PROVE FALSE
    BY <1>1
  <2>1. q * y <= 0 - y  BY <1>1
  <2> QED BY <1>1, <2>1
<1>3. q * y >= q  BY <1>1, <1>2
<1>4. q \in 0 .. x  BY <1>1, <1>2, <1>3
<1> QED BY <1>4 DEF q

LEMMA SignedProduct ==
  ASSUME NEW a \in Word, NEW b \in Word
  PROVE  Wrap(Signed(a) * Signed(b)) = Wrap(a * b)
<1>1. PICK k \in Int : Signed(a) = a + k * Modulus  BY SignedNumber
<1>2. PICK l \in Int : Signed(b) = b + l * Modulus  BY SignedNumber
<1>3. a \in Int /\ b \in Int /\ Modulus \in Int  BY WordSizes DEF Word
<1> DEFINE q == a * l + k * b + k * l * Modulus
<1>4. q \in Int  BY <1>3
<1>5. Signed(a) * Signed(b) = a * b + q * Modulus  BY <1>1, <1>2, <1>3
<1> HIDE DEF q
<1> QED BY <1>3, <1>4, <1>5, WrapOfShifted, a * b \in Int

LEMMA SignedQuotients ==
  ASSUME NEW a \in Word, NEW b \in Word, b # 0
  PROVE  SignedQuotient(a, b) = Divide(a, b) /\ Divide(a, b) \in Word
<1> DEFINE x == IF a >= SignBit THEN Modulus - a ELSE a
           y == IF b >= SignBit THEN Modulus - b ELSE b
           q == x \div y
           n == Signed(a)
           m == Signed(b)
<1>1. /\ a \in 0 .. Modulus - 1 /\ b \in 0 .. Modulus - 1
      /\ Modulus \in Nat \ {0} /\ SignBit \in Nat \ {0}
      /\ Modulus = 2 * SignBit
  BY WordSizes DEF Word
<1>2. /\ x \in 0 .. SignBit /\ y \in 1 .. SignBit
      /\ x = IF a >= SignBit THEN Negated(a) ELSE a
      /\ y = IF b >= SignBit THEN Negated(b) ELSE b
  BY <1>1, SignedNumber
<1>3. /\ n = IF a >= SignBit THEN a - Modulus ELSE a
      /\ m = IF b >= SignBit THEN b - Modulus ELSE b
  BY <1>1, SignedNumber
<1>4. /\ x = IF n < 0 THEN 0 - n ELSE n
      /\ y = IF m < 0 THEN 0 - m ELSE m
      /\ (n < 0) <=> (a >= SignBit)
      /\ (m < 0) <=> (b >= SignBit)
  BY <1>1, <1>3
<1>5. q \in 0 .. SignBit
  <2> HIDE DEF x, y
  <2>1. q \in 0 .. x  BY <1>2, QuotientIsSmall, x \in Nat, y \in Nat \ {0}
  <2> QED BY <1>1, <1>2, <2>1
<1>6. Divide(a, b) = IF (a >= SignBit) # (b >= SignBit)
                     THEN Negated(q) ELSE q
  BY <1>2 DEF Divide
<1>7. SignedQuotient(a, b) =
        IF n = 0 - SignBit /\ m = 0 - 1 THEN a
        ELSE Wrap(IF (n < 0) # (m < 0) THEN 0 - q ELSE q)
  BY <1>4 DEF SignedQuotient
<1>8. q \in Word /\ Wrap(q) = q /\ Negated(q) = Wrap(0 - q)
  <2>1. q \in Word
    <3> HIDE DEF q
    <3> QED BY <1>1, <1>5 DEF Word
  <2> QED BY <2>1, WrapOfWord DEF Negated
<1>9. Divide(a, b) \in Word
  <2> HIDE DEF q
  <2>1. Negated(q) \in Word  BY <1>8, WrapIsWord, <1>5, <1>1, 0 - q \in Int
  <2> QED BY <1>6, <1>8, <2>1
<1>10. CASE n = 0 - SignBit /\ m = 0 - 1
  <2>1. a = SignBit /\ b >= SignBit /\ x = SignBit /\ y = 1
    BY <1>10, <1>1, <1>3
  <2>2. q = SignBit  BY <2>1, <1>1
  <2>3. (a >= SignBit) /\ (b >= SignBit)  BY <2>1, <1>1
  <2>4. Divide(a, b) = q
    <3> HIDE DEF q, x, y, n, m
    <3> QED BY <2>3, <1>6
  <2> QED BY <1>7, <1>9, <1>10, <2>1, <2>2, <2>4
<1>11. CASE ~ (n = 0 - SignBit /\ m = 0 - 1)
  <2>1. SignedQuotient(a, b) = Wrap(IF (n < 0) # (m < 0) THEN 0 - q ELSE q)
    <3> HIDE DEF q, n, m, x, y
    <3> QED BY <1>7, <1>11
  <2>2. ((n < 0) # (m < 0)) <=> ((a >= SignBit) # (b >= SignBit))
    <3> HIDE DEF q, n, m, x, y
    <3> QED BY <1>4
  <2> HIDE DEF q, n, m, x, y
  <2> QED BY <1>6, <1>8, <1>9, <2>1, <2>2
<1> QED BY <1>10, <1>11

LEMMA ResultIsWord ==
  ASSUME NEW a \in Word, NEW b \in Word, NEW op \in Arithmetic,
         ~ Faults(op, b)
  PROVE  CASE op = "add"   -> Wrap(a + b) \in Word
           [] op = "sub"   -> Wrap(a - b) \in Word
           [] op = "mul"   -> Wrap(a * b) \in Word
           [] op = "div"   -> Divide(a, b) \in Word
           [] op = "div_u" -> a \div b \in Word
<1>1. a \in 0 .. Modulus - 1 /\ b \in 0 .. Modulus - 1 /\ Modulus \in Nat
  BY WordSizes DEF Word
<1>2. CASE op \in {"add", "sub", "mul"}
  <2>1. a + b \in Int /\ a - b \in Int /\ a * b \in Int  BY <1>1
  <2> QED BY <1>2, <2>1, WrapIsWord
<1>3. CASE op = "div"  BY <1>3, SignedQuotients DEF Faults, Divisions
<1>4. CASE op = "div_u"
  <2>1. b \in Nat \ {0} /\ a \in Nat  BY <1>1, <1>4 DEF Faults, Divisions
  <2>2. a \div b \in 0 .. a  BY <2>1, QuotientIsSmall
  <2>3. a \div b \in Word  BY <1>1, <2>2 DEF Word
  <2> QED BY <1>4, <2>3
<1> QED BY <1>2, <1>3, <1>4 DEF Arithmetic, Divisions

LEMMA MachineCalculates ==
  ASSUME NEW type \in Types, NEW a \in Word, NEW b \in Word,
         NEW op \in Arithmetic, ~ Faults(op, b)
  PROVE  Normalizing(type, Operation(MachineOp(op), a, b))
            = Apply(op, type, a, b)
<1>1. CASE op = "add"
  BY <1>1, ResultIsWord, MachineNormalizes DEF Operation, MachineOp, Apply
<1>2. CASE op = "sub"
  BY <1>2, ResultIsWord, MachineNormalizes DEF Operation, MachineOp, Apply
<1>3. CASE op = "mul"
  <2>1. Operation(MachineOp(op), a, b) = Wrap(a * b)
    BY <1>3, SignedProduct DEF Operation, MachineOp
  <2> QED BY <1>3, <2>1, ResultIsWord, MachineNormalizes DEF Apply
<1>4. CASE op = "div"
  <2>1. b # 0  BY <1>4 DEF Faults, Divisions
  <2>2. Operation(MachineOp(op), a, b) = Divide(a, b)
    BY <1>4, <2>1, SignedQuotients DEF Operation, MachineOp
  <2> QED BY <1>4, <2>2, ResultIsWord, MachineNormalizes DEF Apply
<1>5. CASE op = "div_u"
  BY <1>5, ResultIsWord, MachineNormalizes DEF Operation, MachineOp, Apply
<1> QED BY <1>1, <1>2, <1>3, <1>4, <1>5 DEF Arithmetic, Divisions

LEMMA ArithmeticIsCanonical ==
  ASSUME NEW type \in IntegerTypes, NEW a \in Word, NEW b \in Word,
         NEW op \in Arithmetic, ~ Faults(op, b)
  PROVE  /\ Apply(op, type, a, b) \in Word
         /\ Canonical(type, Apply(op, type, a, b))
<1>1. PICK r \in Word : Apply(op, type, a, b) = Normalize(type, r)
  BY ResultIsWord DEF Apply, Arithmetic, Divisions
<1>2. r \in Int  BY WordSizes DEF Word
<1>3. type # "bool"  BY DEF IntegerTypes, SignedTypes, UnsignedTypes
<1> QED BY <1>1, <1>2, <1>3, NormalizeIsWord, NormalizeTwice DEF Canonical

LEMMA MachineNegates ==
  ASSUME NEW type \in Types, NEW a \in Word
  PROVE  /\ Normalizing(type, Operation("neg.l", a, 0))
               = Normalize(type, Negated(a))
         /\ Negated(a) \in Word
<1>1. 0 - a \in Int  BY WordSizes DEF Word
<1>2. Negated(a) \in Word  BY <1>1, WrapIsWord DEF Negated
<1>3. Operation("neg.l", a, 0) = Negated(a)  BY DEF Operation, Negated
<1> QED BY <1>2, <1>3, MachineNormalizes

(* Comparisons *)
LEMMA FlippedNumber ==
  ASSUME NEW w \in Word
  PROVE  /\ w < SignBit => Flip(w) = w + SignBit
         /\ w >= SignBit => Flip(w) = w - SignBit
<1>1. w \in 0 .. Modulus - 1 /\ Modulus \in Nat \ {0} /\ SignBit \in Nat \ {0}
      /\ Modulus = 2 * SignBit
  BY WordSizes DEF Word
<1>2. ASSUME w < SignBit PROVE Flip(w) = w + SignBit
  <2>1. w + SignBit \in Word  BY <1>1, <1>2 DEF Word
  <2> QED BY <2>1, WrapOfWord DEF Flip
<1>3. ASSUME w >= SignBit PROVE Flip(w) = w - SignBit
  <2>1. w - SignBit \in Word  BY <1>1, <1>3 DEF Word
  <2>2. w + SignBit = w - SignBit + 1 * Modulus  BY <1>1
  <2>3. Wrap(w - SignBit + 1 * Modulus) = Wrap(w - SignBit)
    <3>1. w - SignBit \in Int  BY <1>1
    <3> QED BY <3>1, WrapOfShifted
  <2> QED BY <2>1, <2>2, <2>3, WrapOfWord DEF Flip
<1> QED BY <1>2, <1>3

LEMMA DifferenceOfWords ==
  ASSUME NEW d \in Word, NEW s \in Word
  PROVE  /\ d >= s => Wrap(d - s) = d - s
         /\ d < s => Wrap(d - s) = d - s + Modulus
         /\ Wrap(d - s) \in Word
<1>1. d \in 0 .. Modulus - 1 /\ s \in 0 .. Modulus - 1
      /\ Modulus \in Nat \ {0}
  BY WordSizes DEF Word
<1>2. ASSUME d >= s PROVE Wrap(d - s) = d - s
  <2>1. d - s \in Word  BY <1>1, <1>2 DEF Word
  <2> QED BY <2>1, WrapOfWord
<1>3. ASSUME d < s PROVE Wrap(d - s) = d - s + Modulus
  <2>1. d - s + 1 * Modulus \in Word  BY <1>1, <1>3 DEF Word
  <2>2. Wrap(d - s + 1 * Modulus) = Wrap(d - s)
    BY <1>1, WrapOfShifted, d - s \in Int
  <2> QED BY <1>1, <2>1, <2>2, WrapOfWord
<1> QED BY <1>1, <1>2, <1>3, WrapIsWord, d - s \in Int

(* The flags of a subtraction tell the order of its operands. *)
LEMMA Flags ==
  ASSUME NEW d \in Word, NEW s \in Word
  PROVE  LET difference == Wrap(d - s)
             negative == difference >= SignBit
             overflow == Signed(d) - Signed(s) # Signed(difference)
         IN  /\ difference = 0 <=> d = s
             /\ (negative /\ ~ overflow) \/ (~ negative /\ overflow)
                   <=> Flip(d) < Flip(s)
<1> DEFINE difference == Wrap(d - s)
<1>1. d \in 0 .. Modulus - 1 /\ s \in 0 .. Modulus - 1
      /\ Modulus \in Nat \ {0} /\ SignBit \in Nat \ {0}
      /\ Modulus = 2 * SignBit
  BY WordSizes DEF Word
<1>2. /\ d >= s => difference = d - s
      /\ d < s => difference = d - s + Modulus
      /\ difference \in Word
  BY DifferenceOfWords
<1> HIDE DEF difference
<1>3. /\ difference < SignBit => Signed(difference) = difference
      /\ difference >= SignBit => Signed(difference) = difference - Modulus
  BY <1>2, SignedNumber
<1>4. /\ d < SignBit => Signed(d) = d /\ Flip(d) = d + SignBit
      /\ d >= SignBit => Signed(d) = d - Modulus /\ Flip(d) = d - SignBit
      /\ s < SignBit => Signed(s) = s /\ Flip(s) = s + SignBit
      /\ s >= SignBit => Signed(s) = s - Modulus /\ Flip(s) = s - SignBit
  BY SignedNumber, FlippedNumber
<1>5. difference \in 0 .. Modulus - 1  BY <1>2 DEF Word
<1>6. difference = 0 <=> d = s  BY <1>1, <1>2
<1>7. CASE d >= s
  BY <1>1, <1>2, <1>3, <1>4, <1>5, <1>6, <1>7 DEF difference
<1>8. CASE d < s  BY <1>1, <1>2, <1>3, <1>4, <1>5, <1>6, <1>8 DEF difference
<1> QED BY <1>1, <1>7, <1>8

LEMMA ParityOfTest ==
  ASSUME NEW cc, NEW d \in Word, NEW s \in Word
  PROVE  Test(cc, d, s) = IF Condition(cc, d, s) THEN 1 ELSE 0
<1> DEFINE h == 2 ^ (Byte - 1)
           k == d \div 2 ^ Byte
<1>1. 2 ^ Byte = 2 * h /\ h \in Nat \ {0} /\ 2 ^ Byte \in Nat \ {0}
  BY HalfOfPower, SizesAssumption
<1>2. d \in Int  BY WordSizes DEF Word
<1>3. k \in Int /\ d = k * 2 ^ Byte + (d % 2 ^ Byte) /\ d % 2 ^ Byte \in Int
  <2> DEFINE m == 2 ^ Byte
  <2>1. m \in Nat \ {0}  BY <1>1
  <2> HIDE DEF m
  <2>2. d \div m \in Int /\ d = (d \div m) * m + (d % m) /\ d % m \in Int
    BY <1>2, <2>1, Remainder
  <2> QED BY <2>2 DEF m
<1>4. d - LowBits(d, Byte) = (k * h) * 2
  <2>1. d - (d % 2 ^ Byte) = k * 2 ^ Byte  BY <1>1, <1>2, <1>3
  <2> HIDE DEF h, k
  <2>2. k * 2 ^ Byte = (k * h) * 2  BY <1>1, <1>3
  <2> QED BY <2>1, <2>2 DEF LowBits
<1> HIDE DEF h, k
<1>5. k * h \in Int  BY <1>1, <1>3
<1>6. CASE Condition(cc, d, s)
  <2> DEFINE q == k * h + (h - 1)
             x == d - LowBits(d, Byte) + (2 ^ Byte - 1)
  <2>1. Test(cc, d, s) = x % 2  BY <1>6 DEF Test
  <2>2. q \in Int  BY <1>1, <1>5
  <2>3. x = q * 2 + 1  BY <1>1, <1>4, <1>5
  <2>4. x \in Int  BY <1>1, <1>5, <2>3
  <2> HIDE DEF q, x
  <2>5. x % 2 = 1
    BY <2>2, <2>3, <2>4, RemainderIsUnique, 2 \in Nat \ {0}, 1 \in 0 .. 2 - 1
  <2> QED BY <1>6, <2>1, <2>5
<1>7. CASE ~ Condition(cc, d, s)
  <2> DEFINE q == k * h
             x == d - LowBits(d, Byte) + 0
  <2>1. Test(cc, d, s) = x % 2  BY <1>7 DEF Test
  <2>2. x = q * 2 + 0 /\ q \in Int /\ x \in Int  BY <1>4, <1>5
  <2> HIDE DEF q, x
  <2>3. x % 2 = 0
    BY <2>2, RemainderIsUnique, 2 \in Nat \ {0}, 0 \in 0 .. 2 - 1
  <2> QED BY <1>7, <2>1, <2>3
<1> QED BY <1>6, <1>7

LEMMA MachineCompares ==
  ASSUME NEW op \in Comparisons, NEW type, NEW d \in Word, NEW s \in Word
  PROVE  Test(ConditionCode(op), d, s) = Apply(op, type, d, s)
<1> DEFINE difference == Wrap(d - s)
           negative == difference >= SignBit
           overflow == Signed(d) - Signed(s) # Signed(difference)
           less == (negative /\ ~ overflow) \/ (~ negative /\ overflow)
<1>1. /\ difference = 0 <=> d = s
      /\ less <=> Flip(d) < Flip(s)
  BY Flags
<1>2. d \in Int /\ s \in Int /\ Flip(d) \in Int /\ Flip(s) \in Int
      /\ (Flip(d) = Flip(s) <=> d = s)
  <2>1. d \in 0 .. Modulus - 1 /\ s \in 0 .. Modulus - 1
      /\ Modulus \in Nat \ {0} /\ SignBit \in Nat \ {0}
      /\ Modulus = 2 * SignBit
    BY WordSizes DEF Word
  <2> QED BY <2>1, FlippedNumber
<1>3. Test(ConditionCode(op), d, s)
        = IF Condition(ConditionCode(op), d, s) THEN 1 ELSE 0
  BY ParityOfTest
<1>4. CASE op = "eq"
  BY <1>1, <1>3, <1>4 DEF Condition, ConditionCode, Apply, Truth
<1>5. CASE op = "ne"
  BY <1>1, <1>3, <1>5 DEF Condition, ConditionCode, Apply, Truth
<1>6. CASE op = "lt_u"
  BY <1>1, <1>3, <1>6 DEF Condition, ConditionCode, Apply, Truth
<1>7. CASE op = "le_u"
  BY <1>1, <1>2, <1>3, <1>7 DEF Condition, ConditionCode, Apply, Truth
<1>8. CASE op = "gt_u"
  BY <1>1, <1>2, <1>3, <1>8 DEF Condition, ConditionCode, Apply, Truth
<1>9. CASE op = "ge_u"
  BY <1>1, <1>2, <1>3, <1>9 DEF Condition, ConditionCode, Apply, Truth
<1>10. /\ Condition("slt", d, s) <=> less
       /\ Condition("sge", d, s) <=> ~ less
       /\ Condition("sle", d, s) <=> (d = s \/ less)
       /\ Condition("sgt", d, s) <=> (d # s /\ ~ less)
  <2>1. /\ Condition("slt", d, s) <=> less
        /\ Condition("sge", d, s) <=> ~ less
    BY DEF Condition
  <2>2. /\ Condition("sle", d, s) <=> (difference = 0 \/ less)
        /\ Condition("sgt", d, s) <=> (~ (difference = 0) /\ ~ less)
    BY DEF Condition
  <2> HIDE DEF less, difference
  <2> QED BY <1>1, <2>1, <2>2
<1> HIDE DEF less, difference
<1>11. CASE op = "lt"
  BY <1>1, <1>3, <1>10, <1>11 DEF ConditionCode, Apply, Truth
<1>12. CASE op = "ge"
  BY <1>1, <1>2, <1>3, <1>10, <1>12 DEF ConditionCode, Apply, Truth
<1>13. CASE op = "le"
  BY <1>1, <1>2, <1>3, <1>10, <1>13 DEF ConditionCode, Apply, Truth
<1>14. CASE op = "gt"
  BY <1>1, <1>2, <1>3, <1>10, <1>14 DEF ConditionCode, Apply, Truth
<1> QED BY <1>4, <1>5, <1>6, <1>7, <1>8, <1>9, <1>11, <1>12, <1>13, <1>14
        DEF Comparisons, Equalities

(* The addresses of the descriptors are different words. *)
LEMMA AddressesDiffer ==
  ASSUME NEW x \in 1 .. MaxPoolEntries, NEW y \in 1 .. MaxPoolEntries
  PROVE  /\ AddressOf(x) \in Word
         /\ AddressOf(x) = AddressOf(y) <=> x = y
<1>1. MaxPoolEntries \in Nat /\ Modulus \in Nat
      /\ 4 * (MaxPoolEntries + 1) <= Modulus
  BY LimitsAssumption, AddressAssumption, WordSizes DEF Alignment
<1>2. 4 * x \in Word /\ 4 * y \in Word  BY <1>1 DEF Word
<1>3. AddressOf(x) = 4 * x /\ AddressOf(y) = 4 * y
  BY <1>2, WrapOfWord DEF AddressOf, Alignment
<1> QED BY <1>2, <1>3

(* What is computed of the nodes of a table, children first. *)
Unary == {"neg", "normalize"}
Binary == Arithmetic \cup Comparisons
Leaves == {"literal", "truth", "parameter", "local"} \cup PoolTypes
Kinds == Leaves \cup Unary \cup Binary

Ordered(ns) ==
    /\ Len(ns) \in Nat /\ DOMAIN ns = 1 .. Len(ns)
    /\ \A n \in 1 .. Len(ns) :
          /\ ns[n].kind \in Kinds
          /\ ns[n].kind \in Unary \cup Binary => ns[n].left \in 1 .. n - 1
          /\ ns[n].kind \in Binary => ns[n].right \in 1 .. n - 1

LEMMA KindsDiffer ==
  /\ Leaves \cap Unary = {} /\ Leaves \cap Binary = {}
  /\ Unary \cap Binary = {} /\ Arithmetic \cap Comparisons = {}
BY DEF Leaves, Unary, Binary, Arithmetic, Comparisons, Equalities, Divisions,
       PoolTypes

(* The constant of a node, from those of its children. *)
ConstantOf(value, ns, n) ==
    LET node  == ns[n]
        left  == value[node.left]
        right == value[node.right]
    IN  CASE node.kind = "literal" -> <<node.value>>
          [] node.kind = "neg" ->
               IF left = <<>> THEN <<>> ELSE <<Negated(left[1])>>
          [] node.kind = "normalize" ->
               IF left = <<>> THEN <<>> ELSE <<Normalize(node.type, left[1])>>
          [] node.kind \in Arithmetic ->
               IF left = <<>> THEN <<>>
               ELSE IF right = <<>> THEN <<>>
               ELSE IF Faults(node.kind, right[1]) THEN <<>>
               ELSE <<Folded(node.kind, left[1], right[1])>>
          [] OTHER -> <<>>

LEMMA ConstantOfChildren ==
  ASSUME NEW ns, Ordered(ns), NEW n \in 1 .. Len(ns), NEW f, NEW g,
         \A k \in 1 .. n - 1 : f[k] = g[k]
  PROVE  ConstantOf(f, ns, n) = ConstantOf(g, ns, n)
<1>1. CASE ns[n].kind \in Leaves
  BY <1>1 DEF ConstantOf, Leaves, PoolTypes, Arithmetic, Divisions
<1>2. CASE ns[n].kind \in Unary
  <2>1. ns[n].left \in 1 .. n - 1  BY <1>2 DEF Ordered
  <2> QED BY <1>2, <2>1 DEF ConstantOf, Unary, Arithmetic, Divisions
<1>3. CASE ns[n].kind \in Binary
  <2>1. ns[n].left \in 1 .. n - 1 /\ ns[n].right \in 1 .. n - 1
    BY <1>3 DEF Ordered
  <2> QED BY <1>3, <2>1 DEF ConstantOf, Binary, Arithmetic, Divisions,
                            Comparisons, Equalities
<1> QED BY <1>1, <1>2, <1>3 DEF Ordered, Kinds

(* The constants of a table are what they are defined to be. *)
LEMMA ConstantsUnfold ==
  ASSUME NEW ns, Ordered(ns)
  PROVE  Constants(ns) = [n \in 1 .. Len(ns) |-> ConstantOf(Constants(ns), ns, n)]
<1> DEFINE N == Len(ns)
           Is(f, m) == f = [n \in 1 .. m |-> ConstantOf(f, ns, n)]
           S == {m \in Nat : m <= N => \E f : Is(f, m)}
<1>1. N \in Nat /\ DOMAIN ns = 1 .. N  BY DEF Ordered
<1>2. 0 \in S
  <2> DEFINE f == [n \in 1 .. 0 |-> 0]
  <2>1. Is(f, 0)  OBVIOUS
  <2> QED BY <2>1
<1>3. \A m \in Nat : m \in S => m + 1 \in S
  <2> SUFFICES ASSUME NEW m \in Nat, m \in S, m + 1 <= N
               PROVE  \E g : Is(g, m + 1)
    BY <1>1
  <2>1. PICK f : Is(f, m)  BY <1>1
  <2> DEFINE g == [n \in 1 .. m + 1 |->
                     IF n <= m THEN f[n] ELSE ConstantOf(f, ns, n)]
  <2>2. Is(g, m + 1)
    <3> SUFFICES ASSUME NEW n \in 1 .. m + 1
                 PROVE  g[n] = ConstantOf(g, ns, n)
      OBVIOUS
    <3>1. n \in 1 .. N  BY <1>1
    <3>2. \A k \in 1 .. n - 1 : f[k] = g[k]  OBVIOUS
    <3>3. g[n] = ConstantOf(f, ns, n)  BY <2>1
    <3> HIDE DEF g, N
    <3>4. ConstantOf(f, ns, n) = ConstantOf(g, ns, n)
      BY <3>1, <3>2, ConstantOfChildren DEF N
    <3> QED BY <3>3, <3>4
  <2> HIDE DEF Is, g
  <2> QED BY <2>2
<1>4. N \in S
  <2> HIDE DEF S, N
  <2> QED BY <1>1, <1>2, <1>3, SetInduction
<1>5. Is(CHOOSE f : Is(f, N), N)
  <2> HIDE DEF Is, N
  <2> QED BY <1>1, <1>4
<1>6. Constants(ns) = CHOOSE f : Is(f, N)  BY <1>1 DEF Constants, ConstantOf
<1> QED BY <1>5, <1>6

(* The nodes of an expression, counted as often as they are lowered. *)
SizeOf(size, ns, n) ==
    1 + (IF ns[n].kind \in Unary \cup Binary THEN size[ns[n].left] ELSE 0)
      + (IF ns[n].kind \in Binary THEN size[ns[n].right] ELSE 0)

Size(ns) ==
    LET size[n \in DOMAIN ns] == SizeOf(size, ns, n)
    IN  size

LEMMA SizeOfChildren ==
  ASSUME NEW ns, Ordered(ns), NEW n \in 1 .. Len(ns), NEW f, NEW g,
         \A k \in 1 .. n - 1 : f[k] = g[k]
  PROVE  SizeOf(f, ns, n) = SizeOf(g, ns, n)
<1>1. /\ ns[n].kind \in Unary \cup Binary => ns[n].left \in 1 .. n - 1
      /\ ns[n].kind \in Binary => ns[n].right \in 1 .. n - 1
  BY DEF Ordered
<1> QED BY <1>1 DEF SizeOf

(* The sizes of the expressions of a table. *)
LEMMA SizeUnfold ==
  ASSUME NEW ns, Ordered(ns)
  PROVE  Size(ns) = [n \in 1 .. Len(ns) |-> SizeOf(Size(ns), ns, n)]
<1> DEFINE N == Len(ns)
           Is(f, m) == f = [n \in 1 .. m |-> SizeOf(f, ns, n)]
           S == {m \in Nat : m <= N => \E f : Is(f, m)}
<1>1. N \in Nat /\ DOMAIN ns = 1 .. N  BY DEF Ordered
<1>2. 0 \in S
  <2> DEFINE f == [n \in 1 .. 0 |-> 0]
  <2>1. Is(f, 0)  OBVIOUS
  <2> QED BY <2>1
<1>3. \A m \in Nat : m \in S => m + 1 \in S
  <2> SUFFICES ASSUME NEW m \in Nat, m \in S, m + 1 <= N
               PROVE  \E g : Is(g, m + 1)
    BY <1>1
  <2>1. PICK f : Is(f, m)  BY <1>1
  <2> DEFINE g == [n \in 1 .. m + 1 |->
                     IF n <= m THEN f[n] ELSE SizeOf(f, ns, n)]
  <2>2. Is(g, m + 1)
    <3> SUFFICES ASSUME NEW n \in 1 .. m + 1
                 PROVE  g[n] = SizeOf(g, ns, n)
      OBVIOUS
    <3>1. n \in 1 .. N  BY <1>1
    <3>2. \A k \in 1 .. n - 1 : f[k] = g[k]  OBVIOUS
    <3>3. g[n] = SizeOf(f, ns, n)  BY <2>1
    <3> HIDE DEF g, N
    <3>4. SizeOf(f, ns, n) = SizeOf(g, ns, n)
      BY <3>1, <3>2, SizeOfChildren DEF N
    <3> QED BY <3>3, <3>4
  <2> HIDE DEF Is, g
  <2> QED BY <2>2
<1>4. N \in S
  <2> HIDE DEF S, N
  <2> QED BY <1>1, <1>2, <1>3, SetInduction
<1>5. Is(CHOOSE f : Is(f, N), N)
  <2> HIDE DEF Is, N
  <2> QED BY <1>1, <1>4
<1>6. Size(ns) = CHOOSE f : Is(f, N)  BY <1>1 DEF Size
<1> QED BY <1>5, <1>6

(* A table that has grown. *)
Extends(ns, ms) ==
    /\ Len(ns) <= Len(ms)
    /\ \A n \in 1 .. Len(ns) : ms[n] = ns[n]

LEMMA SizesArePositive ==
  ASSUME NEW ns, Ordered(ns)
  PROVE  \A n \in 1 .. Len(ns) : Size(ns)[n] \in Nat \ {0}
<1> DEFINE S == {k \in Nat : \A n \in 1 .. Len(ns) :
                                n <= k => Size(ns)[n] \in Nat \ {0}}
<1>1. Len(ns) \in Nat  BY DEF Ordered
<1>2. 0 \in S  OBVIOUS
<1>3. \A k \in Nat : k \in S => k + 1 \in S
  <2> SUFFICES ASSUME NEW k \in Nat, k \in S, NEW n \in 1 .. Len(ns), n = k + 1
               PROVE  Size(ns)[n] \in Nat \ {0}
    BY <1>1
  <2>1. Size(ns)[n] = SizeOf(Size(ns), ns, n)  BY SizeUnfold
  <2>2. \A m \in 1 .. n - 1 : Size(ns)[m] \in Nat \ {0}  BY <1>1
  <2>3. /\ ns[n].kind \in Unary \cup Binary => ns[n].left \in 1 .. n - 1
        /\ ns[n].kind \in Binary => ns[n].right \in 1 .. n - 1
    BY DEF Ordered
  <2>4. SizeOf(Size(ns), ns, n) \in Nat \ {0}  BY <2>2, <2>3, SMTT(30) DEF SizeOf
  <2> QED BY <2>1, <2>4
<1>4. Len(ns) \in S
  <2> HIDE DEF S
  <2> QED BY <1>1, <1>2, <1>3, SetInduction
<1> QED BY <1>4

LEMMA Kept ==
  ASSUME NEW ns, NEW ms, Ordered(ns), Ordered(ms), Extends(ns, ms)
  PROVE  \A n \in 1 .. Len(ns) : /\ Constants(ms)[n] = Constants(ns)[n]
                                 /\ Size(ms)[n] = Size(ns)[n]
<1> DEFINE Same(n) == /\ Constants(ms)[n] = Constants(ns)[n]
                      /\ Size(ms)[n] = Size(ns)[n]
           S == {k \in Nat : \A n \in 1 .. Len(ns) : n <= k => Same(n)}
<1>1. /\ Len(ns) \in Nat /\ Len(ms) \in Nat /\ Len(ns) <= Len(ms)
      /\ 1 .. Len(ns) \subseteq 1 .. Len(ms)
  BY DEF Ordered, Extends
<1>2. 0 \in S  OBVIOUS
<1>3. \A k \in Nat : k \in S => k + 1 \in S
  <2> SUFFICES ASSUME NEW k \in Nat, k \in S, NEW n \in 1 .. Len(ns), n = k + 1
               PROVE  Same(n)
    BY <1>1, SMTT(30)
  <2>1. \A m \in 1 .. n - 1 : Same(m)  BY <1>1
  <2>2. ms[n] = ns[n] /\ n \in 1 .. Len(ms)  BY <1>1 DEF Extends
  <2>3. Constants(ms)[n] = Constants(ns)[n]
    <3>1. Constants(ms)[n] = ConstantOf(Constants(ms), ms, n)
      BY <2>2, ConstantsUnfold
    <3>2. Constants(ns)[n] = ConstantOf(Constants(ns), ns, n)
      BY ConstantsUnfold
    <3>3. ConstantOf(Constants(ms), ms, n) = ConstantOf(Constants(ms), ns, n)
      BY <2>2 DEF ConstantOf
    <3>4. ConstantOf(Constants(ms), ns, n) = ConstantOf(Constants(ns), ns, n)
      <4> DEFINE f == Constants(ms)
                 g == Constants(ns)
      <4>1. \A m \in 1 .. n - 1 : f[m] = g[m]  BY <2>1
      <4> HIDE DEF f, g
      <4>2. ConstantOf(f, ns, n) = ConstantOf(g, ns, n)
        BY <4>1, ConstantOfChildren
      <4> QED BY <4>2 DEF f, g
    <3> QED BY <3>1, <3>2, <3>3, <3>4
  <2>4. Size(ms)[n] = Size(ns)[n]
    <3>1. Size(ms)[n] = SizeOf(Size(ms), ms, n)  BY <2>2, SizeUnfold
    <3>2. Size(ns)[n] = SizeOf(Size(ns), ns, n)  BY SizeUnfold
    <3>3. SizeOf(Size(ms), ms, n) = SizeOf(Size(ms), ns, n)
      BY <2>2 DEF SizeOf
    <3>4. SizeOf(Size(ms), ns, n) = SizeOf(Size(ns), ns, n)
      <4> DEFINE f == Size(ms)
                 g == Size(ns)
      <4>1. \A m \in 1 .. n - 1 : f[m] = g[m]  BY <2>1
      <4> HIDE DEF f, g
      <4>2. SizeOf(f, ns, n) = SizeOf(g, ns, n)  BY <4>1, SizeOfChildren
      <4> QED BY <4>2 DEF f, g
    <3> QED BY <3>1, <3>2, <3>3, <3>4
  <2> QED BY <2>3, <2>4
<1>4. Len(ns) \in S
  <2> HIDE DEF S
  <2> QED BY <1>1, <1>2, <1>3, SetInduction
<1> QED BY <1>1, <1>4
-----------------------------------------------------------------------------
(* The table of typed nodes *)
NodeRecords == [kind : Kinds, type : Types, left : Nat, right : Nat,
                value : Nat]

(* Signs of operators: the types the code of a kind is for. *)
SignFits(kind, type) ==
    /\ kind \notin Equalities => type \in IntegerTypes
    /\ kind \in {"div", "lt", "le", "gt", "ge"} => type \in SignedTypes
    /\ kind \in {"div_u", "lt_u", "le_u", "gt_u", "ge_u"}
          => type \notin SignedTypes

FormedLeaf(ns, entries, count, n) ==
    LET node == ns[n]
    IN  /\ node.kind = "literal" => node.type = "i32" /\ node.value < SignBit
        /\ node.kind = "truth" => node.type = "bool" /\ node.value = 1
        /\ node.kind \in PoolTypes => /\ node.type = node.kind
                                      /\ node.value \in 1 .. Len(entries)
                                      /\ entries[node.value].type = node.kind
        /\ node.kind = "parameter" =>
              /\ node.value \in 1 .. ParameterCount
              /\ signature.parameters[node.value] = node.type
        /\ node.kind = "local" => /\ node.value \in 1 .. count
                                  /\ signature.locals[node.value] = node.type

FormedUnary(ns, n) ==
    LET node == ns[n]
        left == ns[node.left]
    IN  /\ node.kind \in Unary => node.left \in 1 .. n - 1
        /\ node.kind = "neg" => /\ left.type = node.type
                                /\ node.type \in SignedTypes
                                /\ left.kind # "normalize"
        /\ node.kind = "normalize" =>
              /\ left.type = "i32" /\ left.kind # "normalize"
              /\ node.type \in IntegerTypes \ {"i32"}
              /\ Constants(ns)[node.left] # <<>>
              /\ Fits(node.type, Constants(ns)[node.left][1])

FormedBinary(ns, n) ==
    LET node  == ns[n]
        left  == ns[node.left]
        right == ns[node.right]
    IN  node.kind \in Binary =>
            /\ node.left \in 1 .. n - 1 /\ node.right \in 1 .. n - 1
            /\ left.type = right.type /\ SignFits(node.kind, left.type)
            /\ node.type = IF node.kind \in Comparisons THEN "bool"
                           ELSE left.type
            /\ left.kind # "normalize" \/ right.kind # "normalize"

Formed(ns, entries, count, n) ==
    /\ FormedLeaf(ns, entries, count, n)
    /\ FormedUnary(ns, n)
    /\ FormedBinary(ns, n)

(* The table of nodes, with the pool and the number of locals it needs. *)
Table(ns, entries, count) ==
    /\ ns \in Seq(NodeRecords)
    /\ Len(ns) <= MaxNodes
    /\ \A n \in 1 .. Len(ns) : Formed(ns, entries, count, n)

LEMMA TableIsOrdered ==
  ASSUME NEW ns, NEW entries, NEW count, Table(ns, entries, count)
  PROVE  /\ Ordered(ns)
         /\ Len(ns) \in Nat
         /\ \A n \in 1 .. Len(ns) : ns[n] \in NodeRecords
<1>1. Len(ns) \in Nat /\ DOMAIN ns = 1 .. Len(ns)  BY DEF Table
<1>2. \A n \in 1 .. Len(ns) : ns[n] \in NodeRecords  BY DEF Table
<1>3. \A n \in 1 .. Len(ns) : ns[n].kind \in Kinds  BY <1>2 DEF NodeRecords
<1>4. \A n \in 1 .. Len(ns) :
         /\ ns[n].kind \in Unary => ns[n].left \in 1 .. n - 1
         /\ ns[n].kind \in Binary => /\ ns[n].left \in 1 .. n - 1
                                     /\ ns[n].right \in 1 .. n - 1
  BY DEF Table, Formed, FormedUnary, FormedBinary
<1> QED BY <1>1, <1>2, <1>3, <1>4 DEF Ordered

(* The constants are words. *)
LEMMA ConstantsAreWords ==
  ASSUME NEW ns, NEW entries, NEW count, Table(ns, entries, count)
  PROVE  \A n \in 1 .. Len(ns) : Constants(ns)[n] = <<>>
                                 \/ \E w \in Word : Constants(ns)[n] = <<w>>
<1> DEFINE Known(n) == \/ Constants(ns)[n] = <<>>
                       \/ \E w \in Word : Constants(ns)[n] = <<w>>
           S == {k \in Nat : \A n \in 1 .. Len(ns) : n <= k => Known(n)}
<1>1. Len(ns) \in Nat /\ Ordered(ns)  BY TableIsOrdered
<1>2. 0 \in S  OBVIOUS
<1>3. \A k \in Nat : k \in S => k + 1 \in S
  <2> SUFFICES ASSUME NEW k \in Nat, k \in S, NEW n \in 1 .. Len(ns), n = k + 1
               PROVE  Known(n)
    <3> HIDE DEF Known
    <3> QED BY <1>1
  <2>1. \A m \in 1 .. n - 1 : Known(m)  BY <1>1
  <2>2. Constants(ns)[n] = ConstantOf(Constants(ns), ns, n)
    BY <1>1, ConstantsUnfold
  <2>3. Formed(ns, entries, count, n) /\ ns[n] \in NodeRecords
    BY TableIsOrdered DEF Table
  <2>4. CASE ns[n].kind = "literal"
    <3>1. ns[n].value \in Word
      BY <2>3, <2>4, WordSizes DEF Formed, FormedLeaf, NodeRecords, Word
    <3>2. Constants(ns)[n] = <<ns[n].value>>
      BY <2>2, <2>4 DEF ConstantOf, Arithmetic, Divisions
    <3> QED BY <3>1, <3>2
  <2>5. CASE ns[n].kind = "neg"
    <3>1. Known(ns[n].left)
      BY <2>1, <2>3, <2>5 DEF Formed, FormedUnary, Unary
    <3>2. Constants(ns)[n] = IF Constants(ns)[ns[n].left] = <<>> THEN <<>>
                             ELSE <<Negated(Constants(ns)[ns[n].left][1])>>
      BY <2>2, <2>5 DEF ConstantOf, Arithmetic, Divisions
    <3>3. \A w \in Word : Negated(w) \in Word
      BY MachineNegates, "i32" \in Types
      DEF Types, IntegerTypes, SignedTypes
    <3> QED BY <3>1, <3>2, <3>3
  <2>6. CASE ns[n].kind = "normalize"
    <3>1. Known(ns[n].left)
      BY <2>1, <2>3, <2>6 DEF Formed, FormedUnary, Unary
    <3>2. Constants(ns)[n] =
            IF Constants(ns)[ns[n].left] = <<>> THEN <<>>
            ELSE <<Normalize(ns[n].type, Constants(ns)[ns[n].left][1])>>
      BY <2>2, <2>6 DEF ConstantOf, Arithmetic, Divisions
    <3>3. \A w \in Word : Normalize(ns[n].type, w) \in Word
      BY NormalizeIsWord, WordSizes DEF Word
    <3> QED BY <3>1, <3>2, <3>3
  <2>7. CASE ns[n].kind \in Arithmetic
    <3> DEFINE left == Constants(ns)[ns[n].left]
               right == Constants(ns)[ns[n].right]
    <3>1. Known(ns[n].left) /\ Known(ns[n].right)
      BY <2>1, <2>3, <2>7 DEF Formed, FormedBinary, Binary
    <3>2. Constants(ns)[n] = IF left = <<>> THEN <<>>
                             ELSE IF right = <<>> THEN <<>>
                             ELSE IF Faults(ns[n].kind, right[1]) THEN <<>>
                             ELSE <<Folded(ns[n].kind, left[1], right[1])>>
      BY <2>2, <2>7 DEF ConstantOf, Arithmetic, Divisions
    <3>3. \A v, w \in Word : ~ Faults(ns[n].kind, w)
                               => Folded(ns[n].kind, v, w) \in Word
      BY <2>7, ArithmeticIsCanonical, "i32" \in IntegerTypes, SMTT(30)
      DEF Folded, IntegerTypes, SignedTypes
    <3> QED BY <3>1, <3>2, <3>3
  <2>8. CASE ns[n].kind \notin {"literal"} \cup Unary \cup Arithmetic
    BY <2>2, <2>8 DEF ConstantOf, Unary
  <2> QED BY <2>4, <2>5, <2>6, <2>7, <2>8 DEF Unary
<1>4. Len(ns) \in S
  <2> HIDE DEF S
  <2> QED BY <1>1, <1>2, <1>3, SetInduction
<1> QED BY <1>1, <1>4

(* A constant is an i32 until it is converted. *)
LEMMA NarrowConstants ==
  ASSUME NEW ns, NEW entries, NEW count, Table(ns, entries, count),
         NEW n \in 1 .. Len(ns), Constants(ns)[n] # <<>>
  PROVE  ns[n].type = "i32" \/ ns[n].kind = "normalize"
<1> DEFINE Narrow(m) == Constants(ns)[m] # <<>> =>
                           ns[m].type = "i32" \/ ns[m].kind = "normalize"
           S == {k \in Nat : \A m \in 1 .. Len(ns) : m <= k => Narrow(m)}
<1>1. Len(ns) \in Nat /\ Ordered(ns)  BY TableIsOrdered
<1>2. 0 \in S  OBVIOUS
<1>3. \A k \in Nat : k \in S => k + 1 \in S
  <2> SUFFICES ASSUME NEW k \in Nat, k \in S, NEW m \in 1 .. Len(ns), m = k + 1
               PROVE  Narrow(m)
    BY <1>1
  <2>1. \A j \in 1 .. m - 1 : Narrow(j)  BY <1>1
  <2>2. Constants(ns)[m] = ConstantOf(Constants(ns), ns, m)
    BY <1>1, ConstantsUnfold
  <2>3. Formed(ns, entries, count, m) /\ ns[m] \in NodeRecords
    BY TableIsOrdered DEF Table
  <2>4. CASE ns[m].kind = "literal"  BY <2>3, <2>4 DEF Formed, FormedLeaf
  <2>5. CASE ns[m].kind = "neg"
    <3>1. Constants(ns)[m] # <<>> => Constants(ns)[ns[m].left] # <<>>
      BY <2>2, <2>5 DEF ConstantOf
    <3>2. /\ ns[m].left \in 1 .. m - 1
          /\ ns[ns[m].left].type = ns[m].type
          /\ ns[ns[m].left].kind # "normalize"
      BY <2>3, <2>5 DEF Formed, FormedUnary, Unary
    <3> QED BY <2>1, <3>1, <3>2
  <2>6. CASE ns[m].kind = "normalize"  BY <2>6
  <2>7. CASE ns[m].kind \in Arithmetic
    <3>1. Constants(ns)[m] # <<>> => /\ Constants(ns)[ns[m].left] # <<>>
                                     /\ Constants(ns)[ns[m].right] # <<>>
      BY <2>2, <2>7 DEF ConstantOf, Arithmetic, Divisions
    <3>2. /\ ns[m].left \in 1 .. m - 1 /\ ns[m].right \in 1 .. m - 1
          /\ ns[ns[m].left].type = ns[ns[m].right].type
          /\ ns[m].type = ns[ns[m].left].type
          /\ \/ ns[ns[m].left].kind # "normalize"
             \/ ns[ns[m].right].kind # "normalize"
      BY <2>3, <2>7, KindsDiffer DEF Formed, FormedBinary, Binary
    <3> QED BY <2>1, <3>1, <3>2
  <2>8. CASE ns[m].kind \notin {"literal"} \cup Unary \cup Arithmetic
    BY <2>2, <2>8 DEF ConstantOf, Unary
  <2> QED BY <2>4, <2>5, <2>6, <2>7, <2>8 DEF Unary
<1>4. Len(ns) \in S
  <2> HIDE DEF S
  <2> QED BY <1>1, <1>2, <1>3, SetInduction
<1> QED BY <1>1, <1>4

LEMMA FormedKept ==
  ASSUME NEW ns, NEW ms, Ordered(ns), Ordered(ms), Extends(ns, ms),
         NEW entries, NEW more, Len(entries) \in Nat, Len(more) \in Nat,
         Extends(entries, more),
         NEW count \in Nat, NEW bigger \in Nat, count <= bigger,
         NEW n \in 1 .. Len(ns), Formed(ns, entries, count, n)
  PROVE  Formed(ms, more, bigger, n)
<1>1. ms[n] = ns[n] /\ \A k \in 1 .. n - 1 : ms[k] = ns[k]
  BY DEF Extends, Ordered
<1>2. FormedLeaf(ms, more, bigger, n)
  <2>1. FormedLeaf(ns, entries, count, n)  BY DEF Formed
  <2>2. \A e \in 1 .. Len(entries) : e \in 1 .. Len(more) /\ more[e] = entries[e]
    BY DEF Extends
  <2> QED BY <1>1, <2>1, <2>2 DEF FormedLeaf
<1>3. FormedUnary(ms, n)
  <2>1. FormedUnary(ns, n)  BY DEF Formed
  <2>2. \A k \in 1 .. n - 1 : Constants(ms)[k] = Constants(ns)[k]
    BY Kept DEF Ordered
  <2>3. CASE ns[n].kind \in Unary
    <3>1. ns[n].left \in 1 .. n - 1  BY <2>1, <2>3 DEF FormedUnary
    <3> QED BY <1>1, <2>1, <2>2, <3>1 DEF FormedUnary
  <2>4. CASE ns[n].kind \notin Unary  BY <1>1, <2>4 DEF FormedUnary, Unary
  <2> QED BY <2>3, <2>4
<1>4. FormedBinary(ms, n)
  <2>1. FormedBinary(ns, n)  BY DEF Formed
  <2>2. CASE ns[n].kind \in Binary
    <3>1. ns[n].left \in 1 .. n - 1 /\ ns[n].right \in 1 .. n - 1
      BY <2>1, <2>2 DEF FormedBinary
    <3> QED BY <1>1, <2>1, <3>1 DEF FormedBinary
  <2>3. CASE ns[n].kind \notin Binary  BY <1>1, <2>3 DEF FormedBinary
  <2> QED BY <2>2, <2>3
<1> QED BY <1>2, <1>3, <1>4 DEF Formed

LEMMA ExtendsItself ==
  ASSUME NEW ns, Len(ns) \in Nat
  PROVE  Extends(ns, ns)
BY DEF Extends

LEMMA ExtendsFurther ==
  ASSUME NEW ns, NEW ms, NEW os, Len(ns) \in Nat, Len(ms) \in Nat,
         Len(os) \in Nat, Extends(ns, ms), Extends(ms, os)
  PROVE  Extends(ns, os)
BY DEF Extends

LEMMA TableKept ==
  ASSUME NEW ns, NEW entries, NEW more, Len(entries) \in Nat,
         Len(more) \in Nat, Extends(entries, more),
         NEW count \in Nat, NEW bigger \in Nat, count <= bigger,
         Table(ns, entries, count)
  PROVE  Table(ns, more, bigger)
<1>1. Ordered(ns) /\ Extends(ns, ns)  BY TableIsOrdered, ExtendsItself
<1>2. \A n \in 1 .. Len(ns) : Formed(ns, more, bigger, n)
  BY <1>1, FormedKept DEF Table
<1> QED BY <1>2 DEF Table

(* A node is put at the end of the table. *)
LEMMA GrownTable ==
  ASSUME NEW ns, NEW entries, Len(entries) \in Nat, NEW count \in Nat,
         Table(ns, entries, count), Len(ns) # MaxNodes,
         NEW node \in NodeRecords,
         node.kind \in Unary \cup Binary => node.left \in 1 .. Len(ns),
         node.kind \in Binary => node.right \in 1 .. Len(ns)
  PROVE  LET ms == Append(ns, node)
             id == Len(ns) + 1
         IN  /\ Len(ms) = id /\ ms[id] = node /\ Len(ns) \in Nat
             /\ Ordered(ms) /\ Extends(ns, ms)
             /\ \A n \in 1 .. Len(ns) : /\ ms[n] = ns[n]
                                        /\ Constants(ms)[n] = Constants(ns)[n]
                                        /\ Size(ms)[n] = Size(ns)[n]
             /\ Formed(ms, entries, count, id) => Table(ms, entries, count)
             /\ Size(ms)[id] =
                  1 + (IF node.kind \in Unary \cup Binary
                       THEN Size(ns)[node.left] ELSE 0)
                    + (IF node.kind \in Binary THEN Size(ns)[node.right] ELSE 0)
<1> DEFINE ms == Append(ns, node)
           id == Len(ns) + 1
<1>1. Ordered(ns) /\ Len(ns) \in Nat /\ ns \in Seq(NodeRecords)
      /\ Len(ns) <= MaxNodes /\ MaxNodes \in Nat
  BY TableIsOrdered, LimitsAssumption DEF Table
<1>2. /\ Len(ms) = id /\ ms[id] = node /\ DOMAIN ms = 1 .. id
      /\ ms \in Seq(NodeRecords)
      /\ \A n \in 1 .. Len(ns) : ms[n] = ns[n]
  BY <1>1
<1> HIDE DEF ms
<1>3. Extends(ns, ms)  BY <1>1, <1>2 DEF Extends
<1>4. Ordered(ms)
  <2>1. node.kind \in Kinds /\ id - 1 = Len(ns)  BY <1>1 DEF NodeRecords
  <2>2. ASSUME NEW n \in 1 .. id
        PROVE  /\ ms[n].kind \in Kinds
               /\ ms[n].kind \in Unary \cup Binary
                     => ms[n].left \in 1 .. n - 1
               /\ ms[n].kind \in Binary => ms[n].right \in 1 .. n - 1
    <3>1. CASE n = id  BY <1>2, <2>1, <3>1, SMTT(30)
    <3>2. CASE n \in 1 .. Len(ns)  BY <1>1, <1>2, <3>2 DEF Ordered
    <3> QED BY <1>1, <3>1, <3>2
  <2>3. Len(ms) \in Nat /\ DOMAIN ms = 1 .. Len(ms) /\ Len(ms) = id
    BY <1>1, <1>2
  <2> HIDE DEF id
  <2> QED BY <2>2, <2>3 DEF Ordered
<1>5. \A n \in 1 .. Len(ns) : /\ Constants(ms)[n] = Constants(ns)[n]
                              /\ Size(ms)[n] = Size(ns)[n]
  BY <1>1, <1>3, <1>4, Kept
<1>6. ASSUME Formed(ms, entries, count, id)
      PROVE  Table(ms, entries, count)
  <2>1. \A n \in 1 .. Len(ns) : Formed(ms, entries, count, n)
    BY <1>1, <1>3, <1>4, FormedKept, ExtendsItself DEF Table
  <2>2. id <= MaxNodes  BY <1>1
  <2>3. \A n \in 1 .. id : n = id \/ n \in 1 .. Len(ns)  BY <1>1
  <2> HIDE DEF id
  <2> QED BY <1>2, <1>6, <2>1, <2>2, <2>3 DEF Table
<1>7. Size(ms)[id] =
        1 + (IF node.kind \in Unary \cup Binary
             THEN Size(ns)[node.left] ELSE 0)
          + (IF node.kind \in Binary THEN Size(ns)[node.right] ELSE 0)
  <2>1. id \in 1 .. Len(ms)  BY <1>1, <1>2
  <2>2. Size(ms)[id] = SizeOf(Size(ms), ms, id)  BY <1>4, <2>1, SizeUnfold
  <2> QED BY <1>2, <1>5, <2>2 DEF SizeOf
<1> QED BY <1>1, <1>2, <1>3, <1>4, <1>5, <1>6, <1>7 DEF ms

(* What the parser makes of nodes. *)
Grows(ns, made, entries, count) ==
    /\ Table(made.nodes, entries, count)
    /\ Extends(ns, made.nodes)
    /\ made.id \in 1 .. Len(made.nodes)

LEMMA CoercedTable ==
  ASSUME NEW ns, NEW entries, Len(entries) \in Nat, NEW count \in Nat,
         Table(ns, entries, count), NEW n \in 1 .. Len(ns),
         ns[n].kind # "normalize", NEW type \in Types,
         Coerced(ns, n, type).id # 0
  PROVE  LET made == Coerced(ns, n, type)
             ms == made.nodes
         IN  /\ Grows(ns, made, entries, count)
             /\ ms[made.id].type = type
             /\ \/ ms = ns /\ made.id = n
                \/ /\ Len(ms) = Len(ns) + 1 /\ made.id = Len(ms)
                   /\ ns[n].type = "i32" /\ type # "i32"
                   /\ Size(ms)[made.id] = Size(ns)[n] + 1
                   /\ ms[made.id].kind = "normalize"
<1> DEFINE made == Coerced(ns, n, type)
           node == Node("normalize", type, n, 0, 0)
           ms == Append(ns, node)
           id == Len(ns) + 1
<1>1. Ordered(ns) /\ Len(ns) \in Nat  BY TableIsOrdered
<1>2. CASE ns[n].type = type
  <2>1. made = Made(ns, n)  BY <1>2 DEF Coerced
  <2>2. Grows(ns, made, entries, count)
    BY <1>1, <2>1, ExtendsItself DEF Grows, Made
  <2> QED BY <1>2, <2>1, <2>2 DEF Made
<1>3. CASE ns[n].type # type
  <2>1. /\ type \in IntegerTypes /\ ns[n].type = "i32"
        /\ Constants(ns)[n] # <<>> /\ Fits(type, Constants(ns)[n][1])
        /\ Len(ns) # MaxNodes
        /\ made = Made(ms, id)
    BY <1>3 DEF Coerced, AddNode, Made
  <2>2. node \in NodeRecords  BY <1>1 DEF NodeRecords, Node, Kinds, Unary
  <2>3. node.kind = "normalize" /\ node.left = n /\ node.type = type
    BY DEF Node
  <2>4. node.kind \in Unary /\ node.kind \notin Binary \cup Leaves
    BY <2>3, KindsDiffer DEF Unary
  <2> HIDE DEF node, made
  <2>5. /\ Len(ms) = id /\ ms[id] = node
        /\ Extends(ns, ms)
        /\ \A k \in 1 .. Len(ns) : /\ ms[k] = ns[k]
                                   /\ Constants(ms)[k] = Constants(ns)[k]
        /\ Formed(ms, entries, count, id) => Table(ms, entries, count)
        /\ Size(ms)[id] = 1 + Size(ns)[n] + 0
    BY <1>1, <2>1, <2>2, <2>3, <2>4, GrownTable
  <2> HIDE DEF ms
  <2>6. Formed(ms, entries, count, id)
    <3>1. n \in 1 .. id - 1  BY <1>1
    <3>2. FormedLeaf(ms, entries, count, id)
      BY <2>3, <2>5 DEF FormedLeaf, PoolTypes
    <3>3. FormedUnary(ms, id)
      BY <1>3, <2>1, <2>3, <2>5, <3>1 DEF FormedUnary
    <3>4. FormedBinary(ms, id)  BY <2>4, <2>5 DEF FormedBinary
    <3> QED BY <3>2, <3>3, <3>4 DEF Formed
  <2>7. made.nodes = ms /\ made.id = id  BY <2>1 DEF Made
  <2>8. id \in 1 .. Len(ms)  BY <1>1, <2>5
  <2>9. Size(ms)[id] = Size(ns)[n] + 1
    <3>1. Size(ns)[n] \in Nat  BY <1>1, SizesArePositive
    <3> QED BY <2>5, <3>1
  <2> QED BY <1>3, <2>1, <2>3, <2>5, <2>6, <2>7, <2>8, <2>9 DEF Grows, made
<1> QED BY <1>2, <1>3

LEMMA UnaryTable ==
  ASSUME NEW ns, NEW entries, Len(entries) \in Nat, NEW count \in Nat,
         Table(ns, entries, count), NEW n \in 1 .. Len(ns),
         ns[n].kind # "normalize", MakeUnary(ns, n).id # 0
  PROVE  LET made == MakeUnary(ns, n)
             ms == made.nodes
         IN  /\ Grows(ns, made, entries, count)
             /\ Len(ms) = Len(ns) + 1 /\ made.id = Len(ms)
             /\ ms[made.id].kind = "neg"
             /\ Size(ms)[made.id] = Size(ns)[n] + 1
<1> DEFINE made == MakeUnary(ns, n)
           node == Node("neg", ns[n].type, n, 0, 0)
           ms == Append(ns, node)
           id == Len(ns) + 1
<1>1. Ordered(ns) /\ Len(ns) \in Nat /\ ns[n] \in NodeRecords
  BY TableIsOrdered
<1>2. ns[n].type \in SignedTypes /\ Len(ns) # MaxNodes /\ made = Made(ms, id)
  BY DEF MakeUnary, AddNode, Made
<1>3. node \in NodeRecords  BY <1>1 DEF NodeRecords, Node, Kinds, Unary
<1>4. node.kind = "neg" /\ node.left = n /\ node.type = ns[n].type
  BY DEF Node
<1>5. node.kind \in Unary /\ node.kind \notin Binary \cup Leaves
  BY <1>4, KindsDiffer DEF Unary
<1> HIDE DEF node, made
<1>6. /\ Len(ms) = id /\ ms[id] = node
      /\ Extends(ns, ms)
      /\ \A k \in 1 .. Len(ns) : ms[k] = ns[k]
      /\ Formed(ms, entries, count, id) => Table(ms, entries, count)
      /\ Size(ms)[id] = 1 + Size(ns)[n] + 0
  BY <1>1, <1>2, <1>3, <1>4, <1>5, GrownTable
<1> HIDE DEF ms
<1>7. Formed(ms, entries, count, id)
  <2>1. n \in 1 .. id - 1  BY <1>1
  <2>2. FormedLeaf(ms, entries, count, id)
    BY <1>4, <1>6 DEF FormedLeaf, PoolTypes
  <2>3. FormedUnary(ms, id)  BY <1>2, <1>4, <1>6, <2>1 DEF FormedUnary
  <2>4. FormedBinary(ms, id)  BY <1>5, <1>6 DEF FormedBinary
  <2> QED BY <2>2, <2>3, <2>4 DEF Formed
<1>8. made.nodes = ms /\ made.id = id  BY <1>2 DEF Made
<1>9. id \in 1 .. Len(ms)  BY <1>1, <1>6
<1>10. Size(ms)[id] = Size(ns)[n] + 1
  <2>1. Size(ns)[n] \in Nat  BY <1>1, SizesArePositive
  <2> QED BY <1>6, <2>1
<1> QED BY <1>4, <1>6, <1>7, <1>8, <1>9, <1>10 DEF Grows, made

LEMMA JoinedTable ==
  ASSUME NEW ns, NEW entries, Len(entries) \in Nat, NEW count \in Nat,
         Table(ns, entries, count), Len(ns) # MaxNodes,
         NEW node \in NodeRecords, node.kind \in Binary,
         node.left \in 1 .. Len(ns), node.right \in 1 .. Len(ns),
         ns[node.left].type = ns[node.right].type,
         \/ ns[node.left].kind # "normalize"
         \/ ns[node.right].kind # "normalize",
         SignFits(node.kind, ns[node.left].type),
         node.type = IF node.kind \in Comparisons THEN "bool"
                     ELSE ns[node.left].type
  PROVE  LET made == AddNode(ns, node)
             ms == made.nodes
         IN  /\ Grows(ns, made, entries, count)
             /\ Len(ms) = Len(ns) + 1 /\ made.id = Len(ms)
             /\ ms[made.id] = node
             /\ Size(ms)[made.id]
                   = Size(ns)[node.left] + Size(ns)[node.right] + 1
<1> DEFINE made == AddNode(ns, node)
           ms == Append(ns, node)
           id == Len(ns) + 1
           l == node.left
           r == node.right
<1>1. Ordered(ns) /\ Len(ns) \in Nat  BY TableIsOrdered
<1>2. made = Made(ms, id)  BY DEF AddNode
<1>6. node.kind \in Binary /\ node.kind \notin Unary \cup Leaves
  BY KindsDiffer
<1> HIDE DEF made
<1>7. /\ Len(ms) = id /\ ms[id] = node
      /\ Extends(ns, ms)
      /\ \A k \in 1 .. Len(ns) : ms[k] = ns[k]
      /\ Formed(ms, entries, count, id) => Table(ms, entries, count)
      /\ Size(ms)[id] = 1 + Size(ns)[l] + Size(ns)[r]
  BY <1>1, <1>6, GrownTable
<1> HIDE DEF ms
<1>8. Formed(ms, entries, count, id)
  <2>1. l \in 1 .. id - 1 /\ r \in 1 .. id - 1  BY <1>1
  <2>2. FormedLeaf(ms, entries, count, id)
    BY <1>6, <1>7 DEF FormedLeaf, Leaves
  <2>3. FormedUnary(ms, id)  BY <1>6, <1>7 DEF FormedUnary, Unary
  <2>4. FormedBinary(ms, id)  BY <1>7, <2>1 DEF FormedBinary
  <2> QED BY <2>2, <2>3, <2>4 DEF Formed
<1>9. made.nodes = ms /\ made.id = id  BY <1>2 DEF Made
<1>10. id \in 1 .. Len(ms)  BY <1>1, <1>7
<1>11. Size(ms)[id] = Size(ns)[l] + Size(ns)[r] + 1
  <2>1. Size(ns)[l] \in Nat /\ Size(ns)[r] \in Nat
    BY <1>1, SizesArePositive
  <2> QED BY <1>7, <2>1
<1> QED BY <1>7, <1>8, <1>9, <1>10, <1>11 DEF Grows, made

LEMMA KindOfOperator ==
  ASSUME NEW op \in OperatorKinds, NEW type,
         KindOf(op, type) \in Equalities \/ type \in IntegerTypes
  PROVE  KindOf(op, type) \in Binary /\ SignFits(KindOf(op, type), type)
BY DEF KindOf, OperatorKinds, Binary, SignFits, Arithmetic, Divisions,
       Comparisons, Equalities

(* The operands of an operator come to one type.                           *)
(* Operand n has been brought to the type of k.                            *)
BroughtTo(ns, entries, count, n, k, made) ==
    LET ms == made.nodes
    IN  /\ Table(ms, entries, count) /\ Extends(ns, ms)
        /\ made.id \in 1 .. Len(ms) /\ k \in 1 .. Len(ms)
        /\ ms[made.id].type = ms[k].type /\ ms[k].kind # "normalize"
        /\ Len(ms) \in Nat
        /\ Size(ms)[made.id] + Size(ms)[k]
              = Size(ns)[n] + Size(ns)[k] + (Len(ms) - Len(ns))

LEMMA CoercedPair ==
  ASSUME NEW ns, NEW entries, Len(entries) \in Nat, NEW count \in Nat,
         Table(ns, entries, count), NEW n \in 1 .. Len(ns),
         NEW k \in 1 .. Len(ns), ns[n].kind # "normalize",
         ns[k].kind # "normalize", ns[n].type # ns[k].type,
         Coerced(ns, n, ns[k].type).id # 0
  PROVE  BroughtTo(ns, entries, count, n, k, Coerced(ns, n, ns[k].type))
<1>0. PICK made : made = Coerced(ns, n, ns[k].type)  OBVIOUS
<1> DEFINE ms == made.nodes
<1>1. Ordered(ns) /\ Len(ns) \in Nat /\ ns[k].type \in Types
  BY TableIsOrdered DEF NodeRecords
<1>2. Size(ns)[n] \in Nat /\ Size(ns)[k] \in Nat  BY <1>1, SizesArePositive
<1>3. /\ Grows(ns, made, entries, count) /\ ms[made.id].type = ns[k].type
      /\ \/ ms = ns /\ made.id = n
         \/ /\ Len(ms) = Len(ns) + 1 /\ made.id = Len(ms)
            /\ Size(ms)[made.id] = Size(ns)[n] + 1
  BY <1>0, <1>1, CoercedTable
<1>4. /\ Len(ms) = Len(ns) + 1 /\ made.id = Len(ms)
      /\ Size(ms)[made.id] = Size(ns)[n] + 1
  BY <1>3
<1>5. Table(ms, entries, count) /\ Extends(ns, ms) /\ made.id \in 1 .. Len(ms)
  BY <1>3 DEF Grows
<1> HIDE DEF ms
<1>6. Size(ms)[k] = Size(ns)[k]
  <2>1. Ordered(ms)  BY <1>5, TableIsOrdered
  <2> QED BY <1>1, <1>5, <2>1, Kept
<1>7. ms[k] = ns[k] /\ k \in 1 .. Len(ms)  BY <1>1, <1>4, <1>5 DEF Extends
<1>8. Size(ms)[made.id] + Size(ms)[k]
         = Size(ns)[n] + Size(ns)[k] + (Len(ms) - Len(ns))
  BY <1>1, <1>2, <1>4, <1>6
<1>9. BroughtTo(ns, entries, count, n, k, made)
  BY <1>1, <1>3, <1>4, <1>5, <1>7, <1>8 DEF ms, BroughtTo
<1> QED BY <1>0, <1>9

LEMMA MatchedTable ==
  ASSUME NEW ns, NEW entries, Len(entries) \in Nat, NEW count \in Nat,
         Table(ns, entries, count), NEW l \in 1 .. Len(ns),
         NEW r \in 1 .. Len(ns), ns[l].kind # "normalize",
         ns[r].kind # "normalize", Matched(ns, l, r).same
  PROVE  LET m == Matched(ns, l, r)
             ms == m.nodes
         IN  /\ Table(ms, entries, count) /\ Extends(ns, ms)
             /\ m.left \in 1 .. Len(ms) /\ m.right \in 1 .. Len(ms)
             /\ ms[m.left].type = ms[m.right].type
             /\ ms[m.left].kind # "normalize" \/ ms[m.right].kind # "normalize"
             /\ Len(ms) \in Nat
             /\ Size(ms)[m.left] + Size(ms)[m.right]
                   = Size(ns)[l] + Size(ns)[r] + (Len(ms) - Len(ns))
<1> DEFINE lt == ns[l].type
           rt == ns[r].type
           m == Matched(ns, l, r)
           Pair(made, a, b) == [nodes |-> made.nodes, left |-> a, right |-> b,
                                same |-> made.id # 0]
<1>0. PICK left, right : left = Coerced(ns, l, rt) /\ right = Coerced(ns, r, lt)
  OBVIOUS
<1>1. Ordered(ns) /\ Len(ns) \in Nat  BY TableIsOrdered
<1>2. /\ lt = rt => m = Pair(Made(ns, l), l, r)
      /\ lt # rt /\ lt = "i32" => m = Pair(left, left.id, r)
      /\ lt # rt /\ lt # "i32" => m = Pair(right, l, right.id)
  BY <1>0 DEF Matched
<1>3. Size(ns)[l] \in Nat /\ Size(ns)[r] \in Nat  BY <1>1, SizesArePositive
<1>4. CASE lt = rt
  <2>1. m.nodes = ns /\ m.left = l /\ m.right = r  BY <1>2, <1>4 DEF Made
  <2> QED BY <1>1, <1>3, <1>4, <2>1, ExtendsItself
<1>5. m.same  OBVIOUS
<1> HIDE DEF m
<1>6. CASE lt # rt /\ lt = "i32"
  <2>1. /\ m.nodes = left.nodes /\ m.left = left.id /\ m.right = r
        /\ m.same = (left.id # 0)
    BY <1>2, <1>6
  <2>2. left.id # 0  BY <1>5, <2>1, Zenon
  <2>3. BroughtTo(ns, entries, count, l, r, left)
    BY <1>0, <1>6, <2>2, CoercedPair
  <2> QED BY <2>1, <2>3 DEF BroughtTo, m
<1>7. CASE lt # rt /\ lt # "i32"
  <2>1. /\ m.nodes = right.nodes /\ m.left = l /\ m.right = right.id
        /\ m.same = (right.id # 0)
    BY <1>2, <1>7
  <2>2. right.id # 0  BY <1>5, <2>1, Zenon
  <2>3. BroughtTo(ns, entries, count, r, l, right)
    BY <1>0, <1>7, <2>2, CoercedPair
  <2>4. Size(right.nodes)[right.id] \in Nat /\ Size(right.nodes)[l] \in Nat
    BY <2>3, TableIsOrdered, SizesArePositive DEF BroughtTo
  <2>5. Size(right.nodes)[l] + Size(right.nodes)[right.id]
           = Size(ns)[l] + Size(ns)[r] + (Len(right.nodes) - Len(ns))
    BY <1>3, <2>3, <2>4, SMTT(30) DEF BroughtTo
  <2> QED BY <2>1, <2>3, <2>5 DEF BroughtTo, m
<1> QED BY <1>4, <1>6, <1>7 DEF m

LEMMA BinaryTable ==
  ASSUME NEW ns, NEW entries, Len(entries) \in Nat, NEW count \in Nat,
         Table(ns, entries, count), NEW l \in 1 .. Len(ns),
         NEW r \in 1 .. Len(ns), ns[l].kind # "normalize",
         ns[r].kind # "normalize", NEW op \in OperatorKinds,
         MakeBinary(ns, op, l, r).id # 0
  PROVE  LET made == MakeBinary(ns, op, l, r)
             ms == made.nodes
         IN  /\ Grows(ns, made, entries, count)
             /\ Len(ms) > Len(ns) /\ made.id = Len(ms)
             /\ ms[made.id].kind # "normalize"
             /\ Size(ms)[made.id]
                   = Size(ns)[l] + Size(ns)[r] + (Len(ms) - Len(ns))
<1> DEFINE m == Matched(ns, l, r)
           type == m.nodes[m.left].type
           kind == KindOf(op, type)
           of == IF kind \in Comparisons THEN "bool" ELSE type
           node == Node(kind, of, m.left, m.right, 0)
           made == MakeBinary(ns, op, l, r)
<1>1. /\ m.same /\ (kind \in Equalities \/ type \in IntegerTypes)
      /\ made = AddNode(m.nodes, node)
  BY DEF MakeBinary, Made
<1>2. kind \in Binary /\ SignFits(kind, type)  BY <1>1, KindOfOperator
<1> HIDE DEF m
<1>3. /\ Table(m.nodes, entries, count) /\ Extends(ns, m.nodes)
      /\ m.left \in 1 .. Len(m.nodes) /\ m.right \in 1 .. Len(m.nodes)
      /\ m.nodes[m.left].type = m.nodes[m.right].type
      /\ \/ m.nodes[m.left].kind # "normalize"
         \/ m.nodes[m.right].kind # "normalize"
      /\ Len(m.nodes) \in Nat
      /\ Size(m.nodes)[m.left] + Size(m.nodes)[m.right]
           = Size(ns)[l] + Size(ns)[r] + (Len(m.nodes) - Len(ns))
  BY <1>1, MatchedTable DEF m
<1>4. Len(m.nodes) # MaxNodes  BY <1>1 DEF AddNode, Made
<1>5. /\ Grows(m.nodes, made, entries, count)
      /\ Len(made.nodes) = Len(m.nodes) + 1 /\ made.id = Len(made.nodes)
      /\ made.nodes[made.id].kind = kind
      /\ Size(made.nodes)[made.id]
           = Size(m.nodes)[m.left] + Size(m.nodes)[m.right] + 1
  <2>1. m.nodes[m.left] \in NodeRecords /\ Len(m.nodes) \in Nat
    BY <1>3, TableIsOrdered
  <2>2. /\ node.kind = kind /\ node.left = m.left /\ node.right = m.right
        /\ node.type = IF kind \in Comparisons THEN "bool" ELSE type
    BY DEF Node
  <2>3. node \in NodeRecords
    <3>1. of \in Types  BY <2>1 DEF NodeRecords, Types
    <3>2. kind \in Kinds /\ m.left \in Nat /\ m.right \in Nat
      BY <1>2, <1>3, <2>1, SMTT(30) DEF Kinds
    <3> HIDE DEF kind, of, type
    <3> QED BY <3>1, <3>2 DEF NodeRecords, Node
  <2>4. /\ node.kind \in Binary
        /\ SignFits(node.kind, m.nodes[node.left].type)
        /\ node.type = IF node.kind \in Comparisons THEN "bool"
                       ELSE m.nodes[node.left].type
    BY <1>2, <2>2
  <2>5. made = AddNode(m.nodes, node)  BY <1>1
  <2> HIDE DEF made, node, kind
  <2>6. /\ Table(m.nodes, entries, count) /\ Len(m.nodes) # MaxNodes
        /\ node.left \in 1 .. Len(m.nodes) /\ node.right \in 1 .. Len(m.nodes)
        /\ m.nodes[node.left].type = m.nodes[node.right].type
        /\ \/ m.nodes[node.left].kind # "normalize"
           \/ m.nodes[node.right].kind # "normalize"
    BY <1>3, <1>4, <2>2
  <2> DEFINE table == m.nodes
  <2> HIDE DEF table
  <2>7. LET joined == AddNode(table, node)
             ms == joined.nodes
         IN  /\ Grows(table, joined, entries, count)
             /\ Len(ms) = Len(table) + 1 /\ joined.id = Len(ms)
             /\ ms[joined.id] = node
             /\ Size(ms)[joined.id]
                   = Size(table)[node.left] + Size(table)[node.right] + 1
    <3>1. Table(table, entries, count)  BY <2>6 DEF table
    <3>2. Len(table) # MaxNodes  BY <2>6 DEF table
    <3>3. node.left \in 1 .. Len(table) /\ node.right \in 1 .. Len(table)
      BY <2>6 DEF table
    <3>4. table[node.left].type = table[node.right].type  BY <2>6 DEF table
    <3>5. table[node.left].kind # "normalize" \/ table[node.right].kind # "normalize"
      BY <2>6 DEF table
    <3>6. SignFits(node.kind, table[node.left].type)  BY <2>4 DEF table
    <3>7. node.type = IF node.kind \in Comparisons THEN "bool" ELSE table[node.left].type
      BY <2>4 DEF table
    <3>8. node.kind \in Binary  BY <2>4
    <3> QED BY <2>3, <3>1, <3>2, <3>3, <3>4, <3>5, <3>6, <3>7, <3>8, JoinedTable
  <2> QED BY <2>2, <2>5, <2>7 DEF table
<1> HIDE DEF made, kind
<1>6. Len(ns) \in Nat /\ Size(ns)[l] \in Nat /\ Size(ns)[r] \in Nat
  BY TableIsOrdered, SizesArePositive
<1>7. Extends(ns, made.nodes)  BY <1>3, <1>5, <1>6, ExtendsFurther DEF Grows
<1>8. Grows(ns, made, entries, count)  BY <1>5, <1>7 DEF Grows
<1>9. made.nodes[made.id].kind # "normalize"
  BY <1>2, <1>5, KindsDiffer DEF Unary
<1>10. Len(made.nodes) > Len(ns)  BY <1>3, <1>5, <1>6 DEF Extends
<1>11. Size(made.nodes)[made.id]
         = Size(ns)[l] + Size(ns)[r] + (Len(made.nodes) - Len(ns))
  BY <1>3, <1>5, <1>6
<1> QED BY <1>5, <1>8, <1>9, <1>10, <1>11 DEF made

(* The pool *)
Entries == {Entry(Spelling(n).type, Spelling(n).text) :
               n \in DOMAIN signature.spellings}

Pooled(entries) ==
    /\ entries \in Seq(Entries)
    /\ Len(entries) <= MaxPoolEntries /\ BytesUsed(entries) <= MaxPoolBytes
    /\ IsInjective(entries)

LEMMA EntriesAreTyped ==
  ASSUME signature \in Authors
  PROVE  /\ \A e \in Entries : e.type \in PoolTypes /\ Len(e.text) \in Nat
                               /\ e = Entry(e.type, e.text)
         /\ \A n \in DOMAIN signature.spellings :
               /\ n \in Nat /\ Spelling(n).type \in PoolTypes
               /\ Entry(Spelling(n).type, Spelling(n).text) \in Entries
<1>1. \A n \in DOMAIN signature.spellings :
         /\ n \in Nat /\ Spelling(n).type \in PoolTypes
         /\ Len(Spelling(n).text) \in Nat
  BY AuthorsAssumption DEF Spelling
<1> QED BY <1>1 DEF Entries, Entry

(* The bytes of the texts, one entry after another. *)
LEMMA BytesUnfold ==
  ASSUME NEW entries, Len(entries) \in Nat
  PROVE  \E f : /\ f = [k \in 0 .. Len(entries) |->
                            IF k = 0 THEN 0 ELSE f[k - 1] + Len(entries[k].text)]
                /\ BytesUsed(entries) = f[Len(entries)]
<1> DEFINE Is(f, m) == f = [k \in 0 .. m |->
                              IF k = 0 THEN 0 ELSE f[k - 1] + Len(entries[k].text)]
           S == {m \in Nat : \E f : Is(f, m)}
<1>1. 0 \in S
  <2> DEFINE f == [k \in 0 .. 0 |-> 0]
  <2>1. Is(f, 0)  OBVIOUS
  <2> QED BY <2>1
<1>2. \A m \in Nat : m \in S => m + 1 \in S
  <2> TAKE m \in Nat
  <2> HAVE m \in S
  <2>1. PICK f : Is(f, m)  OBVIOUS
  <2> DEFINE g == [k \in 0 .. m + 1 |->
                     IF k <= m THEN f[k] ELSE f[m] + Len(entries[k].text)]
  <2>2. Is(g, m + 1)
    <3> SUFFICES ASSUME NEW k \in 0 .. m + 1
                 PROVE  g[k] = IF k = 0 THEN 0
                               ELSE g[k - 1] + Len(entries[k].text)
      OBVIOUS
    <3>1. CASE k = 0  BY <3>1, <2>1
    <3>2. CASE k \in 1 .. m
      <4>1. g[k] = f[k] /\ g[k - 1] = f[k - 1]  BY <3>2
      <4>2. f[k] = f[k - 1] + Len(entries[k].text)  BY <3>2, <2>1
      <4> HIDE DEF g
      <4> QED BY <3>2, <4>1, <4>2
    <3>3. CASE k = m + 1
      <4>1. g[k] = f[m] + Len(entries[k].text) /\ g[k - 1] = f[m]  BY <3>3
      <4> HIDE DEF g
      <4> QED BY <3>3, <4>1
    <3> QED BY <3>1, <3>2, <3>3
  <2> HIDE DEF Is, g
  <2> QED BY <2>2
<1>3. Len(entries) \in S
  <2> HIDE DEF S
  <2> QED BY <1>1, <1>2, SetInduction
<1>4. Is(CHOOSE f : Is(f, Len(entries)), Len(entries))
  <2> HIDE DEF Is
  <2> QED BY <1>3
<1>5. BytesUsed(entries) = (CHOOSE f : Is(f, Len(entries)))[Len(entries)]
  BY DEF BytesUsed
<1> QED BY <1>4, <1>5

LEMMA BytesOfAppended ==
  ASSUME signature \in Authors, NEW entries \in Seq(Entries), NEW e \in Entries
  PROVE  /\ BytesUsed(entries) \in Nat
         /\ BytesUsed(Append(entries, e)) = BytesUsed(entries) + Len(e.text)
<1> DEFINE more == Append(entries, e)
           n == Len(entries)
<1>1. n \in Nat /\ Len(more) = n + 1 /\ more[n + 1] = e
      /\ \A k \in 1 .. n : more[k] = entries[k]
  OBVIOUS
<1> HIDE DEF more
<1>2. PICK f : /\ f = [k \in 0 .. n |-> IF k = 0 THEN 0
                                       ELSE f[k - 1] + Len(entries[k].text)]
               /\ BytesUsed(entries) = f[n]
  BY <1>1, BytesUnfold
<1>3. PICK g : /\ g = [k \in 0 .. n + 1 |-> IF k = 0 THEN 0
                                           ELSE g[k - 1] + Len(more[k].text)]
               /\ BytesUsed(more) = g[n + 1]
  <2>1. Len(more) \in Nat  BY <1>1
  <2> QED BY <1>1, <2>1, BytesUnfold
<1> DEFINE S == {k \in Nat : k <= n => f[k] = g[k] /\ f[k] \in Nat}
<1>4. 0 \in S  BY <1>1, <1>2, <1>3
<1>5. \A k \in Nat : k \in S => k + 1 \in S
  <2> SUFFICES ASSUME NEW k \in Nat, k \in S, k + 1 <= n
               PROVE  f[k + 1] = g[k + 1] /\ f[k + 1] \in Nat
    BY <1>1
  <2>1. k + 1 \in 0 .. n /\ k + 1 # 0 /\ k + 1 - 1 = k /\ k + 1 \in 1 .. n
    BY <1>1
  <2>2. f[k + 1] = f[k] + Len(entries[k + 1].text)  BY <1>2, <2>1
  <2>3. g[k + 1] = g[k] + Len(more[k + 1].text)  BY <1>1, <1>3, <2>1
  <2>4. entries[k + 1] \in Entries  BY <2>1
  <2>5. Len(entries[k + 1].text) \in Nat  BY <2>4, EntriesAreTyped
  <2> QED BY <1>1, <2>1, <2>2, <2>3, <2>5
<1>6. n \in S
  <2> HIDE DEF S, n
  <2> QED BY <1>1, <1>4, <1>5, SetInduction
<1>7. g[n + 1] = g[n] + Len(more[n + 1].text)  BY <1>1, <1>3
<1> QED BY <1>1, <1>2, <1>3, <1>6, <1>7 DEF more

LEMMA Interning ==
  ASSUME signature \in Authors, NEW entries, Pooled(entries),
         NEW type, NEW text, Entry(type, text) \in Entries,
         Intern(entries, type, text).id # 0
  PROVE  LET interned == Intern(entries, type, text)
             more == interned.pool
         IN  /\ Pooled(more) /\ Extends(entries, more)
             /\ Len(entries) \in Nat /\ Len(more) \in Nat
             /\ interned.id \in 1 .. Len(more)
             /\ more[interned.id].type = type
<1> DEFINE same == {e \in DOMAIN entries : entries[e] = Entry(type, text)}
           interned == Intern(entries, type, text)
           more == Append(entries, Entry(type, text))
           n == Len(entries)
<1>1. entries \in Seq(Entries) /\ n \in Nat /\ DOMAIN entries = 1 .. n
  BY DEF Pooled
<1>2. CASE same # {}
  <2>1. interned = Interned(entries, CHOOSE e \in same : TRUE)
    BY <1>2 DEF Intern
  <2>2. interned.id \in same /\ interned.pool = entries
    BY <1>2, <2>1 DEF Interned
  <2> QED BY <1>1, <2>2, ExtendsItself DEF Entry
<1>3. CASE same = {}
  <2>1. /\ interned = Interned(more, n + 1)
        /\ n # MaxPoolEntries /\ ~ (BytesUsed(entries) + Len(text) > MaxPoolBytes)
    BY <1>3 DEF Intern, Interned
  <2>2. interned.id = n + 1 /\ interned.pool = more  BY <2>1 DEF Interned
  <2>3. /\ more \in Seq(Entries) /\ Len(more) = n + 1
        /\ more[n + 1] = Entry(type, text) /\ DOMAIN more = 1 .. n + 1
        /\ \A k \in 1 .. n : more[k] = entries[k]
    BY <1>1
  <2>4. BytesUsed(entries) \in Nat
        /\ BytesUsed(more) = BytesUsed(entries) + Len(text)
        /\ Len(text) \in Nat
    BY <1>1, BytesOfAppended, EntriesAreTyped DEF Entry
  <2> HIDE DEF more, interned
  <2>5. IsInjective(more)
    <3>1. \A k \in 1 .. n : more[k] # more[n + 1]  BY <1>1, <1>3, <2>3
    <3>2. \A j, k \in 1 .. n : more[j] = more[k] => j = k
      BY <1>1, <2>3 DEF Pooled, IsInjective
    <3> QED BY <1>1, <2>3, <3>1, <3>2 DEF IsInjective
  <2>6. n + 1 <= MaxPoolEntries /\ BytesUsed(more) <= MaxPoolBytes
    BY <1>1, <2>1, <2>4, LimitsAssumption DEF Pooled
  <2>7. Pooled(more) /\ Extends(entries, more)
    BY <1>1, <2>3, <2>5, <2>6 DEF Pooled, Extends
  <2> QED BY <1>1, <2>2, <2>3, <2>7 DEF interned, Entry
<1> QED BY <1>2, <1>3

(* The parser's invariant *)
Modes == {"statement", "operand", "operator", "refused", "parsed",
          "compiled", "rejected"}
Finished == {"parsed", "compiled", "rejected"}

(* The nodes of statement k are End(k - 1) + 1 .. End(k). *)
End(k) == IF k = 0 THEN 0 ELSE statements[k].expression

Returning(i) == statements[i].local = 0
TypeOfStatement(i) ==
    IF Returning(i) THEN signature.result
    ELSE signature.locals[statements[i].local]

StatementInv(i) ==
    LET e == statements[i].expression
    IN  /\ statements[i].local \in 0 .. local_count
        /\ e \in 1 .. Len(nodes)
        /\ nodes[e].type = TypeOfStatement(i)
        /\ Size(nodes)[e] <= e - End(i - 1)
        /\ Returning(i) <=> i = Len(statements) /\ mode \in Finished

StatementsInv ==
    /\ statements \in Seq([local : Nat, expression : Nat])
    /\ Len(statements) <= MaxStatements
    /\ \A i \in 1 .. Len(statements) : StatementInv(i)
    /\ mode \in Finished => statements # <<>>

(* A local is stored before it is read. *)
StoredInv ==
    /\ \A l \in 1 .. local_count :
          \E i \in 1 .. Len(statements) : statements[i].local = l
    /\ \A n \in 1 .. Len(nodes) :
          nodes[n].kind = "local" =>
             \E i \in 1 .. Len(statements) :
                /\ statements[i].local = nodes[n].value
                /\ statements[i].expression < n

(* An operand that waits: the nodes of its expression are those after b. *)
Holds(n, b) ==
    /\ n \in 1 .. Len(nodes)
    /\ nodes[n].kind # "normalize"
    /\ Size(nodes)[n] <= n - b

FrameInv(f) ==
    frames[f].kind \in OperatorKinds =>
       /\ Holds(frames[f].left, End(Len(statements)))
       /\ \A g \in 1 .. f - 1 : Holds(frames[f].left, frames[g].left)

FramesInv ==
    /\ frames \in Seq([kind : {"neg", "("} \cup OperatorKinds, level : Nat,
                       left : 0 .. Len(nodes)])
    /\ \A f \in 1 .. Len(frames) : FrameInv(f)
    /\ mode \notin {"operand", "operator", "refused"} => frames = <<>>

OperandInv ==
    mode = "operator" =>
       /\ operand = Len(nodes)
       /\ Holds(operand, End(Len(statements)))
       /\ \A g \in 1 .. Len(frames) : Holds(operand, frames[g].left)

TokenInv ==
    /\ mode = "operand" => current \in OperandTokens
    /\ mode = "operator" => current \in OperatorTokens

BegunInv ==
    mode \in {"operand", "operator"} =>
       \/ statement = <<"local", local_count + 1>>
          /\ local_count < Len(signature.locals)
       \/ /\ statement[1] \in {"assign", "divide"}
          /\ statement[2] \in 1 .. local_count
       \/ statement[1] = "return"

ParserInv ==
    /\ signature \in Authors
    /\ mode \in Modes
    /\ mode # "refused" => Passable
    /\ local_count \in 0 .. Len(signature.locals)
    /\ Pooled(pool)
    /\ Table(nodes, pool, local_count)
    /\ StatementsInv /\ StoredInv
    /\ FramesInv /\ OperandInv /\ TokenInv /\ BegunInv

(* The signature never changes, and what is said of a table stays true. *)
LEMMA SameSignature ==
  ASSUME signature' = signature
  PROVE  /\ \A ns, entries, count :
               Table(ns, entries, count)' <=> Table(ns, entries, count)
         /\ \A entries : Pooled(entries)' <=> Pooled(entries)
<1>1. ParameterCount' = ParameterCount /\ Entries' = Entries
  BY DEF ParameterCount, Entries, Spelling
<1>2. ASSUME NEW ns, NEW entries, NEW count
      PROVE  Table(ns, entries, count)' <=> Table(ns, entries, count)
  BY <1>1 DEF Table, Formed, FormedLeaf, FormedUnary, FormedBinary
<1>3. ASSUME NEW entries
      PROVE  Pooled(entries)' <=> Pooled(entries)
  BY <1>1 DEF Pooled
<1> QED BY <1>2, <1>3

(* The empty pool and the empty table. *)
LEMMA ParserInitially ==
  ASSUME Init
  PROVE  ParserInv
<1>1. /\ signature \in Authors /\ mode = IF Passable THEN "statement" ELSE "refused"
      /\ frames = <<>> /\ nodes = <<>> /\ pool = <<>> /\ statements = <<>>
      /\ local_count = 0
  BY DEF Init
<1>2. Len(pool) = 0 /\ Len(nodes) = 0 /\ Len(statements) = 0 /\ Len(frames) = 0
      /\ pool \in Seq(Entries) /\ nodes \in Seq(NodeRecords)
      /\ DOMAIN pool = {}
  BY <1>1
<1>3. Pooled(pool)
  <2>1. BytesUsed(pool) = 0  BY <1>2, BytesUnfold
  <2> QED BY <1>2, <2>1, LimitsAssumption DEF Pooled, IsInjective
<1>4. Table(nodes, pool, local_count)  BY <1>2, LimitsAssumption DEF Table
<1>5. StatementsInv
  BY <1>1, <1>2, LimitsAssumption DEF StatementsInv, Finished
<1>6. StoredInv  BY <1>1, <1>2 DEF StoredInv
<1>7. FramesInv  BY <1>1, <1>2 DEF FramesInv
<1>8. Len(signature.locals) \in Nat  BY <1>1, AuthorsAssumption
<1>9. /\ signature \in Authors
      /\ mode \in Modes
      /\ mode # "refused" => Passable
      /\ mode \notin {"operand", "operator"}
  BY <1>1 DEF Modes
<1>10. OperandInv /\ TokenInv /\ BegunInv
  BY <1>9 DEF OperandInv, TokenInv, BegunInv
<1>11. local_count \in 0 .. Len(signature.locals)  BY <1>1, <1>8
<1> QED BY <1>3, <1>4, <1>5, <1>6, <1>7, <1>9, <1>10, <1>11 DEF ParserInv

(* Facts of the invariant that every step uses. *)
LEMMA ParserFacts ==
  ASSUME ParserInv
  PROVE  /\ Ordered(nodes) /\ Len(nodes) \in Nat /\ Len(pool) \in Nat
         /\ local_count \in Nat /\ Len(statements) \in Nat
         /\ Len(frames) \in Nat
         /\ Len(signature.locals) \in Nat /\ ParameterCount \in Nat
         /\ Len(nodes) <= MaxNodes /\ MaxNodes \in Nat
         /\ End(Len(statements)) \in 0 .. Len(nodes)
         /\ \A p \in 1 .. ParameterCount : signature.parameters[p] \in Types
         /\ \A l \in 1 .. Len(signature.locals) : signature.locals[l] \in Types
         /\ signature.result \in Types
<1>1. Ordered(nodes) /\ Len(nodes) \in Nat  BY TableIsOrdered DEF ParserInv
<1>2. /\ Len(pool) \in Nat /\ local_count \in Nat
      /\ Len(statements) \in Nat /\ Len(frames) \in Nat
  BY DEF ParserInv, Pooled, StatementsInv, FramesInv
<1>3. /\ Len(signature.locals) \in Nat /\ ParameterCount \in Nat
      /\ signature.parameters \in [1 .. ParameterCount -> Types]
      /\ signature.locals \in [1 .. Len(signature.locals) -> Types]
      /\ signature.result \in Types
  BY AuthorsAssumption DEF ParserInv, ParameterCount
<1>4. Len(nodes) <= MaxNodes /\ MaxNodes \in Nat
  BY LimitsAssumption DEF ParserInv, Table
<1>5. End(Len(statements)) \in 0 .. Len(nodes)
  BY <1>1, <1>2 DEF ParserInv, StatementsInv, StatementInv, End
<1> QED BY <1>1, <1>2, <1>3, <1>4, <1>5

LEMMA HoldsKept ==
  ASSUME Ordered(nodes), Ordered(nodes'), Extends(nodes, nodes')
  PROVE  \A n, b : Holds(n, b) => Holds(n, b)'
<1> SUFFICES ASSUME NEW n, NEW b, Holds(n, b)
             PROVE  Holds(n, b)'
  OBVIOUS
<1>1. n \in 1 .. Len(nodes) /\ nodes'[n] = nodes[n]
      /\ Size(nodes')[n] = Size(nodes)[n]
  BY Kept DEF Holds, Extends
<1>2. n \in 1 .. Len(nodes')  BY <1>1 DEF Extends, Ordered
<1> QED BY <1>1, <1>2 DEF Holds

(* The statements read so far, when the table has grown. *)
LEMMA StatementsKept ==
  ASSUME ParserInv, Ordered(nodes'), Extends(nodes, nodes'),
         signature' = signature, local_count' \in Nat,
         local_count <= local_count', UNCHANGED statements
  PROVE  \A i \in 1 .. Len(statements) :
            /\ statements'[i].local \in 0 .. local_count'
            /\ statements'[i].expression \in 1 .. Len(nodes')
            /\ nodes'[statements'[i].expression].type = TypeOfStatement(i)'
            /\ Size(nodes')[statements'[i].expression]
                 <= statements'[i].expression - End(i - 1)'
            /\ Returning(i)' <=> Returning(i)
<1> SUFFICES ASSUME NEW i \in 1 .. Len(statements)
             PROVE  /\ statements[i].local \in 0 .. local_count'
                    /\ statements[i].expression \in 1 .. Len(nodes')
                    /\ nodes'[statements[i].expression].type
                         = TypeOfStatement(i)
                    /\ Size(nodes')[statements[i].expression]
                         <= statements[i].expression - End(i - 1)
  BY DEF TypeOfStatement, End, Returning
<1> DEFINE e == statements[i].expression
<1>1. /\ statements[i].local \in 0 .. local_count /\ e \in 1 .. Len(nodes)
      /\ nodes[e].type = TypeOfStatement(i) /\ Size(nodes)[e] <= e - End(i - 1)
  BY DEF ParserInv, StatementsInv, StatementInv
<1>2. Ordered(nodes) /\ local_count \in Nat /\ Len(nodes) \in Nat
  BY ParserFacts
<1>3. nodes'[e] = nodes[e] /\ Size(nodes')[e] = Size(nodes)[e]
  BY <1>1, <1>2, Kept DEF Extends
<1>4. e \in 1 .. Len(nodes')  BY <1>1, <1>2 DEF Extends, Ordered
<1> QED BY <1>1, <1>2, <1>3, <1>4

LEMMA StoredKept ==
  ASSUME ParserInv, Table(nodes', pool', local_count),
         Extends(nodes, nodes'), signature' = signature,
         UNCHANGED <<statements, local_count>>
  PROVE  StoredInv'
<1>1. \A l \in 1 .. local_count :
         \E i \in 1 .. Len(statements) : statements[i].local = l
  BY DEF ParserInv, StoredInv
<1>2. Ordered(nodes) /\ Len(nodes) \in Nat /\ Len(nodes') \in Nat
  BY ParserFacts, TableIsOrdered
<1>3. ASSUME NEW n \in 1 .. Len(nodes'), nodes'[n].kind = "local"
      PROVE  \E i \in 1 .. Len(statements) :
                /\ statements[i].local = nodes'[n].value
                /\ statements[i].expression < n
  <2>1. CASE n \in 1 .. Len(nodes)
    BY <1>3, <2>1 DEF Extends, ParserInv, StoredInv
  <2>2. CASE n > Len(nodes)
    <3>1. nodes'[n].value \in 1 .. local_count
      <4> QED BY <1>3 DEF Table, Formed, FormedLeaf
    <3>2. PICK i \in 1 .. Len(statements) : statements[i].local = nodes'[n].value
      BY <1>1, <3>1
    <3>3. statements[i].expression \in 1 .. Len(nodes)
      BY DEF ParserInv, StatementsInv, StatementInv
    <3> QED BY <1>2, <2>2, <3>2, <3>3
  <2> QED BY <1>2, <2>1, <2>2
<1> QED BY <1>1, <1>3 DEF StoredInv

(* A step within an expression. *)
LEMMA WithinExpression ==
  ASSUME ParserInv, mode \in {"operand", "operator"},
         mode' \in {"operand", "operator"},
         UNCHANGED <<signature, statement, statements, local_count>>,
         Table(nodes', pool', local_count), Extends(nodes, nodes'),
         Pooled(pool'), FramesInv', OperandInv', TokenInv'
  PROVE  ParserInv'
<1>1. Table(nodes, pool, local_count)'  BY SameSignature
<1>2. Pooled(pool)'  BY SameSignature
<1>3. Ordered(nodes')  BY TableIsOrdered
<1>4. StatementsInv'
  <2>1. \A i \in 1 .. Len(statements) :
            /\ statements'[i].local \in 0 .. local_count'
            /\ statements'[i].expression \in 1 .. Len(nodes')
            /\ nodes'[statements'[i].expression].type = TypeOfStatement(i)'
            /\ Size(nodes')[statements'[i].expression]
                 <= statements'[i].expression - End(i - 1)'
            /\ Returning(i)' <=> Returning(i)
    BY <1>3, ParserFacts, StatementsKept
  <2>2. \A i \in 1 .. Len(statements) : ~ Returning(i)
    BY DEF ParserInv, StatementsInv, StatementInv, Finished
  <2>3. \A i \in 1 .. Len(statements') : StatementInv(i)'
    BY <2>1, <2>2 DEF StatementInv, Finished
  <2>4. /\ statements' \in Seq([local : Nat, expression : Nat])
        /\ Len(statements') <= MaxStatements
    BY DEF ParserInv, StatementsInv
  <2> QED BY <2>3, <2>4 DEF StatementsInv, Finished
<1>5. StoredInv'  BY StoredKept
<1>6. BegunInv'  BY DEF ParserInv, BegunInv
<1>7. /\ signature' \in Authors /\ mode' \in Modes /\ Passable'
      /\ local_count' \in 0 .. Len(signature'.locals)
  <2>1. Passable  BY DEF ParserInv
  <2>2. Passable'
    BY <2>1 DEF Passable, ParameterCount, ClassIndex, IsAddress
  <2> QED BY <2>2 DEF ParserInv, Modes
<1> QED BY <1>1, <1>2, <1>4, <1>5, <1>6, <1>7 DEF ParserInv

(* What is said of the tables stays true while they stay. *)
LEMMA TablesStay ==
  ASSUME ParserInv,
         UNCHANGED <<signature, frames, nodes, pool, statements, local_count>>,
         mode' \in Finished <=> mode \in Finished
  PROVE  /\ Table(nodes, pool, local_count)' /\ Pooled(pool)'
         /\ StatementsInv' /\ StoredInv' /\ (Passable' <=> Passable)
         /\ (mode' \in {"operand", "operator", "refused"} \/ frames = <<>>)
               => FramesInv'
<1>1. Table(nodes, pool, local_count)' /\ Pooled(pool)'
  BY SameSignature DEF ParserInv
<1>2. StatementsInv'
  BY DEF ParserInv, StatementsInv, StatementInv, Returning, TypeOfStatement,
         End, Finished
<1>3. StoredInv'  BY DEF ParserInv, StoredInv
<1>4. Passable' <=> Passable
  BY DEF Passable, ParameterCount, ClassIndex, IsAddress
<1>5. (mode' \in {"operand", "operator", "refused"} \/ frames = <<>>)
         => FramesInv'
  BY DEF ParserInv, FramesInv, FrameInv, Holds, End
<1> QED BY <1>1, <1>2, <1>3, <1>4, <1>5

LEMMA RefuseKeeps ==
  ASSUME ParserInv, mode \notin Finished, Refuse
  PROVE  ParserInv'
<1>1. mode' = "refused" /\ mode' \notin Finished  BY DEF Refuse, Finished
<1> QED BY <1>1, TablesStay
        DEF Refuse, ParserInv, OperandInv, TokenInv, BegunInv, Modes

LEMMA SequenceOver ==
  ASSUME NEW S, NEW T, NEW s \in Seq(S), \A k \in 1 .. Len(s) : s[k] \in T
  PROVE  s \in Seq(T)
OBVIOUS

LEMMA SameTokens ==
  ASSUME signature' = signature, Len(signature.locals) \in Nat,
         ParameterCount \in Nat
  PROVE  OperandTokens' = OperandTokens /\ OperatorTokens' = OperatorTokens
<1>1. Names' = Names /\ ParameterCount' = ParameterCount
  BY DEF Names, ParameterCount
<1> QED BY <1>1 DEF OperandTokens, OperatorTokens, Spelling

(* A statement begins. *)
LEMMA BeginKeeps ==
  ASSUME ParserInv, mode = "statement", NEW kind, NEW local,
         Begin(kind, local), BegunInv'
  PROVE  ParserInv'
<1>1. /\ mode' = "operand" /\ current' \in OperandTokens
      /\ UNCHANGED <<signature, frames, operand, nodes, pool, statements,
                     local_count>>
  BY DEF Begin
<1>2. mode' \notin Finished /\ mode \notin Finished /\ Passable
  BY <1>1 DEF Finished, ParserInv
<1>3. TokenInv'  BY <1>1, ParserFacts, SameTokens DEF TokenInv
<1>4. OperandInv'  BY <1>1 DEF OperandInv
<1> QED BY <1>1, <1>2, <1>3, <1>4, TablesStay DEF ParserInv, Modes

LEMMA StatementBegins ==
  ASSUME ParserInv,
         \/ \E name \in Names :
               \/ BeginLocal(name)
               \/ \E kind \in {"assign", "divide"} : BeginAssign(kind, name)
         \/ BeginReturn
  PROVE  ParserInv'
<1>1. mode = "statement" /\ mode \notin Finished
  BY DEF BeginLocal, BeginAssign, BeginReturn, Finished
<1>2. ParameterCount \in Nat /\ local_count \in Nat  BY ParserFacts
<1>3. CASE Refuse  BY <1>1, <1>3, RefuseKeeps
<1>4. ASSUME Begin("local", local_count + 1),
             local_count < Len(signature.locals)
      PROVE  ParserInv'
  <2>1. BegunInv'  BY <1>4 DEF Begin, BegunInv
  <2> QED BY <1>1, <1>4, <2>1, BeginKeeps
<1>5. ASSUME NEW kind \in {"assign", "divide"}, NEW name \in Names,
             Begin(kind, name - ParameterCount),
             name > ParameterCount, name \in DeclaredNames
      PROVE  ParserInv'
  <2>1. name - ParameterCount \in 1 .. local_count
    BY <1>2, <1>5 DEF DeclaredNames
  <2>2. BegunInv'  BY <1>5, <2>1 DEF Begin, BegunInv
  <2> QED BY <1>1, <1>5, <2>2, BeginKeeps
<1>6. ASSUME Begin("return", 0)
      PROVE  ParserInv'
  <2>1. BegunInv'  BY <1>6 DEF Begin, BegunInv
  <2> QED BY <1>1, <1>6, <2>1, BeginKeeps
<1>7. CASE \E name \in Names : BeginLocal(name)
  BY <1>3, <1>4, <1>7 DEF BeginLocal
<1>8. CASE \E name \in Names : \E kind \in {"assign", "divide"} :
              BeginAssign(kind, name)
  <2>1. PICK name \in Names, kind \in {"assign", "divide"} :
              BeginAssign(kind, name)
    BY <1>8
  <2>2. name \in Nat  BY <1>2, ParserFacts DEF Names
  <2> QED BY <1>2, <1>3, <1>5, <2>1, <2>2 DEF BeginAssign
<1>9. CASE BeginReturn  BY <1>6, <1>9 DEF BeginReturn
<1> QED BY <1>7, <1>8, <1>9

(* A leaf is put at the end of the table. *)
LEMMA LeafTable ==
  ASSUME NEW ns, NEW entries, Len(entries) \in Nat, NEW count \in Nat,
         Table(ns, entries, count), Len(ns) # MaxNodes,
         NEW node \in NodeRecords, node.kind \in Leaves,
         FormedLeaf(<<node>>, entries, count, 1)
  PROVE  LET made == AddNode(ns, node)
             ms == made.nodes
         IN  /\ Table(ms, entries, count) /\ Extends(ns, ms)
             /\ Len(ms) = Len(ns) + 1 /\ made.id = Len(ms)
             /\ ms[made.id] = node
             /\ Size(ms)[made.id] = 1
<1> DEFINE made == AddNode(ns, node)
           ms == Append(ns, node)
           id == Len(ns) + 1
<1>1. made = Made(ms, id)  BY DEF AddNode
<1>2. node.kind \in Leaves /\ node.kind \notin Unary \cup Binary
  BY KindsDiffer
<1> HIDE DEF made
<1>3. /\ Len(ms) = id /\ ms[id] = node /\ Extends(ns, ms)
      /\ Formed(ms, entries, count, id) => Table(ms, entries, count)
      /\ Size(ms)[id] = 1 + 0 + 0
  BY <1>2, GrownTable
<1> HIDE DEF ms
<1>4. Formed(ms, entries, count, id)
  <2>1. FormedLeaf(ms, entries, count, id)
    <3>1. ms[id] = (<<node>>)[1]  BY <1>3
    <3> QED BY <3>1 DEF FormedLeaf
  <2>2. FormedUnary(ms, id)  BY <1>2, <1>3 DEF FormedUnary, Unary
  <2>3. FormedBinary(ms, id)  BY <1>2, <1>3 DEF FormedBinary
  <2> QED BY <2>1, <2>2, <2>3 DEF Formed
<1>5. made.nodes = ms /\ made.id = id  BY <1>1 DEF Made
<1> QED BY <1>3, <1>4, <1>5 DEF made

(* A new node that is no conversion is an operand of the operations that   *)
(* wait.                                                                   *)
LEMMA NewOperand ==
  ASSUME ParserInv, Table(nodes', pool', local_count),
         Extends(nodes, nodes'), Len(nodes') = Len(nodes) + 1,
         nodes'[Len(nodes')].kind # "normalize",
         Size(nodes')[Len(nodes')] = 1,
         operand' = Len(nodes'),
         UNCHANGED <<frames, statements>>,
         mode \in {"operand", "operator"}, mode' = "operator"
  PROVE  FramesInv' /\ OperandInv'
<1> DEFINE e == End(Len(statements))
<1>1. /\ Ordered(nodes) /\ Ordered(nodes') /\ Len(nodes) \in Nat
      /\ e \in 0 .. Len(nodes) /\ Len(frames) \in Nat
  BY ParserFacts, TableIsOrdered
<1>2. e' = e  BY DEF End
<1>3. /\ frames \in Seq([kind : {"neg", "("} \cup OperatorKinds, level : Nat,
                       left : 0 .. Len(nodes)])
      /\ \A f \in 1 .. Len(frames) : FrameInv(f)
  BY DEF ParserInv, FramesInv
<1>4. ASSUME NEW b \in 0 .. Len(nodes)
      PROVE  Holds(operand, b)'
  BY <1>1 DEF Holds
<1>5. \A n, b : Holds(n, b) => Holds(n, b)'  BY <1>1, HoldsKept
<1>6. ASSUME NEW f \in 1 .. Len(frames)
      PROVE  FrameInv(f)'
  BY <1>3, <1>5 DEF FrameInv, End
<1> DEFINE Records(n) == [kind : {"neg", "("} \cup OperatorKinds, level : Nat,
                          left : 0 .. n]
<1>7. \A f \in 1 .. Len(frames) : frames[f].left \in 0 .. Len(nodes)
  <2>1. frames \in Seq(Records(Len(nodes)))  BY <1>3
  <2>2. \A f \in 1 .. Len(frames) : frames[f] \in Records(Len(nodes))
    <3> HIDE DEF Records
    <3> QED BY <2>1
  <2> QED BY <2>2
<1>8. frames \in Seq(Records(Len(nodes')))
  <2>1. Records(Len(nodes)) \subseteq Records(Len(nodes'))  BY <1>1
  <2>2. frames \in Seq(Records(Len(nodes)))  BY <1>3
  <2> HIDE DEF Records
  <2>3. \A f \in 1 .. Len(frames) : frames[f] \in Records(Len(nodes'))
    BY <2>1, <2>2
  <2> QED BY <2>2, <2>3, SequenceOver
<1>9. FramesInv'  BY <1>6, <1>8 DEF FramesInv
<1>10. OperandInv'
  <2>1. Holds(operand, e)'  BY <1>1, <1>2, <1>4
  <2>2. \A g \in 1 .. Len(frames') : Holds(operand, frames[g].left)'
    BY <1>4, <1>7
  <2> QED BY <2>1, <2>2 DEF OperandInv
<1> QED BY <1>9, <1>10
LEMMA TokenKinds ==
  ASSUME signature \in Authors, current \in OperandTokens
  PROVE  /\ current.kind = "int" => current.value \in 0 .. SignBit - 1
         /\ current.kind = "name" => current.value \in Names
         /\ current.kind \in PoolTypes =>
               /\ current.value \in DOMAIN signature.spellings
               /\ Spelling(current.value).type = current.kind
<1>1. \A n \in DOMAIN signature.spellings : Spelling(n).type \in PoolTypes
  BY EntriesAreTyped
<1>2. signature.literals \subseteq 0 .. SignBit - 1  BY LiteralsAssumption
<1>3. CASE current \in {Token("int", n) : n \in signature.literals}
  BY <1>2, <1>3 DEF Token, PoolTypes
<1>4. CASE current \in {Token("name", n) : n \in Names}
  BY <1>4 DEF Token, PoolTypes
<1>5. CASE current \in {Token(Spelling(n).type, n) :
                           n \in DOMAIN signature.spellings}
  BY <1>1, <1>5 DEF Token, PoolTypes
<1>6. CASE current \in {Mark("true"), Mark("("), Mark("-"), Mark(")")}
  BY <1>6 DEF Token, Mark, PoolTypes
<1> QED BY <1>3, <1>4, <1>5, <1>6 DEF OperandTokens

LEMMA ModeTokens ==
  ASSUME ParserInv,
         \/ mode' = "operand" /\ current' \in OperandTokens
         \/ mode' = "operator" /\ current' \in OperatorTokens,
         signature' = signature
  PROVE  TokenInv'
BY ParserFacts, SameTokens DEF TokenInv

(* A leaf of the expression. *)
LEMMA LeafKeeps ==
  ASSUME ParserInv, mode = "operand", NEW node \in NodeRecords,
         NEW entries, Pooled(entries), Extends(pool, entries),
         node.kind \in Leaves,
         FormedLeaf(<<node>>, entries, local_count, 1),
         NewNode(AddNode(nodes, node), entries, "operator", OperatorTokens)
  PROVE  ParserInv'
<1> DEFINE made == AddNode(nodes, node)
<1>1. /\ Len(nodes) \in Nat /\ Len(pool) \in Nat /\ local_count \in Nat
      /\ Len(entries) \in Nat /\ Table(nodes, pool, local_count)
  BY ParserFacts DEF ParserInv, Pooled
<1>2. Table(nodes, entries, local_count)  BY <1>1, TableKept
<1>3. CASE made.id = 0  BY <1>3, RefuseKeeps DEF NewNode, Finished
<1>4. CASE made.id # 0
  <2>1. Len(nodes) # MaxNodes  BY <1>4 DEF AddNode, Made
  <2>2. /\ nodes' = made.nodes /\ pool' = entries /\ operand' = made.id
        /\ mode' = "operator" /\ current' \in OperatorTokens
        /\ UNCHANGED <<signature, frames, statement, statements, local_count>>
    BY <1>4 DEF NewNode, Advance
  <2>3. /\ Table(made.nodes, entries, local_count)
        /\ Extends(nodes, made.nodes)
        /\ Len(made.nodes) = Len(nodes) + 1 /\ made.id = Len(made.nodes)
        /\ made.nodes[made.id] = node /\ Size(made.nodes)[made.id] = 1
    BY <1>1, <1>2, <2>1, LeafTable
  <2> HIDE DEF made
  <2>4. node.kind # "normalize"  BY KindsDiffer DEF Unary
  <2>5. FramesInv' /\ OperandInv'  BY <2>2, <2>3, <2>4, NewOperand
  <2>6. TokenInv'  BY <2>2, ModeTokens
  <2> QED BY <2>2, <2>3, <2>5, <2>6, WithinExpression
<1> QED BY <1>3, <1>4

LEMMA PrimaryKeeps ==
  ASSUME ParserInv, Primary
  PROVE  ParserInv'
<1> DEFINE node ==
             CASE current.kind = "int" ->
                    Node("literal", "i32", 0, 0, current.value)
               [] current.kind = "true" -> Node("truth", "bool", 0, 0, 1)
               [] current.kind = "name" /\ current.value <= ParameterCount ->
                    Node("parameter", TypeOfName(current.value), 0, 0,
                         current.value)
               [] current.kind = "name" /\ current.value > ParameterCount ->
                    Node("local", TypeOfName(current.value), 0, 0,
                         current.value - ParameterCount)
<1>1. /\ mode = "operand" /\ current.kind \in {"int", "true", "name"}
      /\ IF current.kind = "name" /\ current.value \notin DeclaredNames
         THEN Refuse
         ELSE NewNode(AddNode(nodes, node), pool, "operator", OperatorTokens)
  BY DEF Primary
<1>2. /\ signature \in Authors /\ Pooled(pool) /\ Extends(pool, pool)
      /\ current \in OperandTokens
  BY <1>1, ParserFacts, ExtendsItself DEF ParserInv, TokenInv
<1>3. /\ ParameterCount \in Nat /\ local_count \in Nat
      /\ local_count <= Len(signature.locals)
      /\ Len(signature.locals) \in Nat
  BY ParserFacts DEF ParserInv
<1>4. CASE current.kind = "name" /\ current.value \notin DeclaredNames
  BY <1>1, <1>4, RefuseKeeps DEF Finished
<1>5. ASSUME node \in NodeRecords, node.kind \in Leaves,
             FormedLeaf(<<node>>, pool, local_count, 1),
             ~ (current.kind = "name" /\ current.value \notin DeclaredNames)
      PROVE  ParserInv'
  <2> HIDE DEF node
  <2> QED BY <1>1, <1>2, <1>5, LeafKeeps
<1>6. CASE current.kind = "int"
  <2>1. node = Node("literal", "i32", 0, 0, current.value)  BY <1>6
  <2>2. current.value \in Nat /\ current.value < SignBit
    BY <1>2, <1>6, TokenKinds, WordSizes
  <2> HIDE DEF node
  <2>3. node \in NodeRecords /\ node.kind \in Leaves
    BY <2>1, <2>2 DEF Node, NodeRecords, Kinds, Leaves, Types, IntegerTypes,
                      SignedTypes
  <2>4. FormedLeaf(<<node>>, pool, local_count, 1)
    BY <2>1, <2>2 DEF Node, FormedLeaf, PoolTypes
  <2> QED BY <1>5, <1>6, <2>3, <2>4
<1>7. CASE current.kind = "true"
  <2>1. node = Node("truth", "bool", 0, 0, 1)  BY <1>7
  <2> HIDE DEF node
  <2>2. node \in NodeRecords /\ node.kind \in Leaves
    BY <2>1 DEF Node, NodeRecords, Kinds, Leaves, Types
  <2>3. FormedLeaf(<<node>>, pool, local_count, 1)
    BY <2>1 DEF Node, FormedLeaf, PoolTypes
  <2> QED BY <1>5, <1>7, <2>2, <2>3
<1>8. CASE current.kind = "name" /\ current.value \in DeclaredNames
  <2> DEFINE v == current.value
  <2>1. v \in 1 .. ParameterCount + local_count  BY <1>8 DEF DeclaredNames
  <2>2. CASE v <= ParameterCount
    <3>1. node = Node("parameter", signature.parameters[v], 0, 0, v)
      <4>1. ~ (v > ParameterCount)  BY <1>3, <2>1, <2>2
      <4> QED BY <1>8, <2>2, <4>1 DEF TypeOfName
    <3>2. signature.parameters[v] \in Types /\ v \in Nat
          /\ v \in 1 .. ParameterCount
      BY <1>3, <2>1, <2>2, ParserFacts
    <3> HIDE DEF node, v
    <3>3. node \in NodeRecords /\ node.kind \in Leaves
      BY <3>1, <3>2 DEF Node, NodeRecords, Kinds, Leaves
    <3>4. FormedLeaf(<<node>>, pool, local_count, 1)
      BY <3>1, <3>2 DEF Node, FormedLeaf, PoolTypes
    <3> QED BY <1>5, <1>8, <3>3, <3>4
  <2>3. CASE v > ParameterCount
    <3> DEFINE l == v - ParameterCount
    <3>1. ~ (v <= ParameterCount) /\ l \in 1 .. local_count
          /\ l \in 1 .. Len(signature.locals)
      BY <1>3, <2>1, <2>3
    <3>2. node = Node("local", signature.locals[l], 0, 0, l)
      BY <1>8, <2>3, <3>1 DEF TypeOfName
    <3>3. signature.locals[l] \in Types  BY <3>1, ParserFacts
    <3>4. l \in Nat  BY <3>1
    <3> HIDE DEF l, node
    <3>5. node \in NodeRecords /\ node.kind \in Leaves
      BY <3>2, <3>3, <3>4 DEF Node, NodeRecords, Kinds, Leaves
    <3>6. FormedLeaf(<<node>>, pool, local_count, 1)
      BY <3>1, <3>2 DEF Node, FormedLeaf, PoolTypes
    <3> QED BY <1>5, <1>8, <3>5, <3>6
  <2> QED BY <1>3, <2>1, <2>2, <2>3
<1> QED BY <1>1, <1>4, <1>6, <1>7, <1>8

LEMMA PoolLiteralKeeps ==
  ASSUME ParserInv, PoolLiteral
  PROVE  ParserInv'
<1> DEFINE text == Spelling(current.value).text
           interned == Intern(pool, current.kind, text)
           node == Node(current.kind, current.kind, 0, 0, interned.id)
<1>1. /\ mode = "operand" /\ current.kind \in PoolTypes
      /\ IF interned.id = 0 THEN Refuse
         ELSE NewNode(AddNode(nodes, node), interned.pool, "operator",
                      OperatorTokens)
  BY DEF PoolLiteral
<1>2. CASE interned.id = 0  BY <1>1, <1>2, RefuseKeeps DEF Finished
<1>3. CASE interned.id # 0
  <2>1. /\ signature \in Authors /\ Pooled(pool) /\ current \in OperandTokens
    BY <1>1 DEF ParserInv, TokenInv
  <2>2. Entry(current.kind, text) \in Entries
    BY <1>1, <2>1, TokenKinds, EntriesAreTyped
  <2>3. /\ Pooled(interned.pool) /\ Extends(pool, interned.pool)
        /\ interned.id \in 1 .. Len(interned.pool)
        /\ interned.pool[interned.id].type = current.kind
        /\ Len(interned.pool) \in Nat
    BY <1>3, <2>1, <2>2, Interning
  <2> HIDE DEF interned
  <2>4. node \in NodeRecords /\ node.kind \in Leaves
    BY <1>1, <2>3 DEF Node, NodeRecords, Kinds, Leaves, Types, PoolTypes
  <2>5. FormedLeaf(<<node>>, interned.pool, local_count, 1)
    BY <1>1, <2>3 DEF Node, FormedLeaf, PoolTypes
  <2> HIDE DEF node
  <2> QED BY <1>1, <1>3, <2>3, <2>4, <2>5, LeafKeeps
<1> QED BY <1>2, <1>3
FrameRecords(n) == [kind : {"neg", "("} \cup OperatorKinds, level : Nat,
                    left : 0 .. n]

(* The operations that wait, once one is begun or done. *)
LEMMA FramesGrow ==
  ASSUME ParserInv, Table(nodes', pool', local_count), Extends(nodes, nodes'),
         UNCHANGED statements, NEW fs, frames' = fs,
         Len(fs) \in Nat, DOMAIN fs = 1 .. Len(fs),
         \A f \in 1 .. Len(fs) :
            \/ f \in 1 .. Len(frames) /\ fs[f] = frames[f]
            \/ fs[f] \in FrameRecords(Len(nodes)) /\ FrameInv(f)',
         \A f \in 1 .. Len(fs) : \A g \in 1 .. f - 1 :
             f \in 1 .. Len(frames) => fs[g] = frames[g],
         fs \in Seq(FrameRecords(Len(nodes))),
         mode' \in {"operand", "operator", "refused"}
  PROVE  FramesInv'
<1>1. /\ Ordered(nodes) /\ Ordered(nodes') /\ Len(nodes) \in Nat
      /\ Len(nodes') \in Nat /\ Len(frames) \in Nat
  BY ParserFacts, TableIsOrdered
<1>2. \A n, b : Holds(n, b) => Holds(n, b)'  BY <1>1, HoldsKept
<1>3. \A f \in 1 .. Len(frames) : FrameInv(f)  BY DEF ParserInv, FramesInv
<1>4. ASSUME NEW f \in 1 .. Len(fs)
      PROVE  FrameInv(f)'
  <2>1. CASE f \in 1 .. Len(frames) /\ fs[f] = frames[f]
    BY <1>2, <1>3, <2>1 DEF FrameInv, End
  <2> QED BY <2>1
<1>5. fs \in Seq(FrameRecords(Len(nodes')))
  <2>1. FrameRecords(Len(nodes)) \subseteq FrameRecords(Len(nodes'))
    BY <1>1 DEF FrameRecords, Extends
  <2>2. \A f \in 1 .. Len(fs) : fs[f] \in FrameRecords(Len(nodes'))  BY <2>1
  <2> QED BY <2>2, SequenceOver
<1> QED BY <1>4, <1>5 DEF FramesInv, FrameRecords

LEMMA FramesAreTyped ==
  ASSUME ParserInv
  PROVE  /\ frames \in Seq(FrameRecords(Len(nodes)))
         /\ \A f \in 1 .. Len(frames) : /\ frames[f] \in FrameRecords(Len(nodes))
                                        /\ frames[f].left \in 0 .. Len(nodes)
                                        /\ FrameInv(f)
<1>1. /\ frames \in Seq(FrameRecords(Len(nodes)))
      /\ \A f \in 1 .. Len(frames) : FrameInv(f)
  BY DEF ParserInv, FramesInv, FrameRecords
<1>2. \A f \in 1 .. Len(frames) : frames[f] \in FrameRecords(Len(nodes))
  BY <1>1
<1> QED BY <1>1, <1>2 DEF FrameRecords

(* An operation begins. *)
LEMMA FrameBegins ==
  ASSUME ParserInv, mode \in {"operand", "operator"},
         NEW frame \in FrameRecords(Len(nodes)),
         frame.kind \in OperatorKinds =>
            /\ Holds(frame.left, End(Len(statements)))
            /\ \A g \in 1 .. Len(frames) : Holds(frame.left, frames[g].left),
         frames' = Append(frames, frame),
         Advance("operand", OperandTokens),
         UNCHANGED <<signature, operand, nodes, pool, statement, statements,
                     local_count>>
  PROVE  ParserInv'
<1> DEFINE fs == Append(frames, frame)
           n == Len(frames)
<1>1. /\ Table(nodes', pool', local_count) /\ Extends(nodes, nodes')
      /\ Pooled(pool') /\ n \in Nat /\ Ordered(nodes)
  BY ParserFacts, ExtendsItself DEF ParserInv
<1>2. mode' = "operand" /\ current' \in OperandTokens  BY DEF Advance
<1>3. /\ frames \in Seq(FrameRecords(Len(nodes)))  BY FramesAreTyped
<1>4. /\ Len(fs) = n + 1 /\ fs[n + 1] = frame /\ DOMAIN fs = 1 .. n + 1
      /\ \A f \in 1 .. n : fs[f] = frames[f]
      /\ fs \in Seq(FrameRecords(Len(nodes)))
  BY <1>1, <1>3
<1> HIDE DEF fs
<1>5. frames' = fs  BY DEF fs
<1>6. ASSUME NEW f \in 1 .. Len(fs), f = n + 1
      PROVE  FrameInv(f)'
  <2>1. \A k, b : Holds(k, b)' <=> Holds(k, b)  BY DEF Holds
  <2>2. End(Len(statements))' = End(Len(statements))  BY DEF End
  <2>3. \A g \in 1 .. f - 1 : frames'[g] = frames[g]
    BY <1>1, <1>4, <1>5, <1>6
  <2>4. frames'[f] = frame  BY <1>4, <1>5, <1>6
  <2>5. \A g \in 1 .. f - 1 : g \in 1 .. Len(frames)  BY <1>1, <1>6
  <2> QED BY <2>1, <2>2, <2>3, <2>4, <2>5 DEF FrameInv
<1>7. FramesInv'
  <2>1. \A f \in 1 .. Len(fs) :
            \/ f \in 1 .. Len(frames) /\ fs[f] = frames[f]
            \/ fs[f] \in FrameRecords(Len(nodes)) /\ FrameInv(f)'
    <3> TAKE f \in 1 .. Len(fs)
    <3>1. CASE f \in 1 .. n  BY <1>4, <3>1
    <3>2. CASE f = n + 1  BY <1>4, <1>6, <3>2
    <3> QED BY <1>1, <1>4, <3>1, <3>2
  <2>2. \A f \in 1 .. Len(fs) : \A g \in 1 .. f - 1 :
             f \in 1 .. Len(frames) => fs[g] = frames[g]
    BY <1>1, <1>4
  <2>3. Len(fs) \in Nat  BY <1>1, <1>4
  <2> QED BY <1>1, <1>2, <1>4, <1>5, <2>1, <2>2, <2>3, FramesGrow
<1>8. OperandInv' /\ TokenInv'  BY <1>2, ModeTokens DEF OperandInv
<1> QED BY <1>1, <1>2, <1>7, <1>8, WithinExpression

LEMMA PrefixKeeps ==
  ASSUME ParserInv, Prefix
  PROVE  ParserInv'
<1> DEFINE frame == IF current.kind = "-" THEN Frame("neg", 4, 0)
                    ELSE Frame("(", 0, 0)
<1>1. /\ mode = "operand" /\ frames' = Append(frames, frame)
      /\ Advance("operand", OperandTokens)
      /\ UNCHANGED <<signature, operand, nodes, pool, statement, statements,
                     local_count>>
  BY DEF Prefix
<1>2. frame \in FrameRecords(Len(nodes)) /\ frame.kind \notin OperatorKinds
  BY ParserFacts DEF Frame, FrameRecords, OperatorKinds
<1> HIDE DEF frame
<1> QED BY <1>1, <1>2, FrameBegins

LEMMA OperatorKeeps ==
  ASSUME ParserInv, Operator
  PROVE  ParserInv'
<1> DEFINE frame == Frame(current.kind, Level(current.kind), operand)
<1>1. /\ mode = "operator" /\ frames' = Append(frames, frame)
      /\ current.kind \in OperatorKinds
      /\ Advance("operand", OperandTokens)
      /\ UNCHANGED <<signature, operand, nodes, pool, statement, statements,
                     local_count>>
  BY DEF Operator
<1>2. /\ operand \in 0 .. Len(nodes)
      /\ Holds(operand, End(Len(statements)))
      /\ \A g \in 1 .. Len(frames) : Holds(operand, frames[g].left)
  BY <1>1, ParserFacts DEF ParserInv, OperandInv
<1>3. Level(current.kind) \in Nat  BY <1>1 DEF Level
<1>4. frame \in FrameRecords(Len(nodes)) /\ frame.left = operand
  BY <1>1, <1>2, <1>3 DEF Frame, FrameRecords
<1> HIDE DEF frame
<1> QED BY <1>1, <1>2, <1>4, FrameBegins

(* The last operation that waits goes. *)
LEMMA FrameGoes ==
  ASSUME ParserInv, mode = "operator", mode' = "operator", frames # <<>>,
         frames' = Pop, Table(nodes', pool', local_count),
         Extends(nodes, nodes'), operand' = Len(nodes'),
         nodes'[operand'].kind # "normalize", operand' # 0,
         \A b \in 0 .. Len(nodes) :
            \/ b = End(Len(statements))
            \/ \E g \in 1 .. Len(frames) - 1 : b = frames[g].left
            => Size(nodes')[operand'] <= operand' - b,
         UNCHANGED statements
  PROVE  FramesInv' /\ OperandInv'
<1> DEFINE n == Len(frames)
           fs == Pop
<1>1. /\ Ordered(nodes) /\ Ordered(nodes') /\ Len(nodes) \in Nat
      /\ Len(nodes') \in Nat /\ n \in Nat
      /\ End(Len(statements)) \in 0 .. Len(nodes)
  BY ParserFacts, TableIsOrdered
<1>2. /\ frames \in Seq(FrameRecords(Len(nodes)))
      /\ \A f \in 1 .. n : frames[f].left \in 0 .. Len(nodes)
  BY FramesAreTyped
<1>3. n # 0  BY <1>2
<1>4. /\ Len(fs) = n - 1 /\ DOMAIN fs = 1 .. n - 1
      /\ \A f \in 1 .. n - 1 : fs[f] = frames[f]
      /\ fs \in Seq(FrameRecords(Len(nodes)))
  <2>1. 1 \in 1 .. n + 1 /\ n - 1 \in 1 - 1 .. n /\ n - 1 - 1 + 1 = n - 1
    BY <1>1, <1>3
  <2>2. /\ fs \in Seq(FrameRecords(Len(nodes))) /\ Len(fs) = n - 1 - 1 + 1
        /\ \A f \in 1 .. n - 1 - 1 + 1 : fs[f] = frames[1 + f - 1]
    BY <1>2, <2>1, SubSeqProperties DEF Pop
  <2>3. \A f \in 1 .. n - 1 : 1 + f - 1 = f  BY <1>1
  <2> HIDE DEF fs
  <2> QED BY <2>1, <2>2, <2>3
<1> HIDE DEF fs
<1>5. FramesInv'
  <2>1. \A f \in 1 .. Len(fs) : f \in 1 .. Len(frames) /\ fs[f] = frames[f]
    BY <1>1, <1>4
  <2>2. \A f \in 1 .. Len(fs) : \A g \in 1 .. f - 1 : fs[g] = frames[g]
    BY <1>1, <1>4
  <2>3. Len(fs) \in Nat /\ frames' = fs  BY <1>1, <1>3, <1>4 DEF fs
  <2> QED BY <1>4, <2>1, <2>2, <2>3, FramesGrow
<1>6. OperandInv'
  <2>1. ASSUME NEW b \in 0 .. Len(nodes),
               \/ b = End(Len(statements))
               \/ \E g \in 1 .. n - 1 : b = frames[g].left
        PROVE  Holds(operand, b)'
    BY <1>1, <2>1 DEF Holds
  <2>2. Holds(operand, End(Len(statements)))'  BY <1>1, <2>1 DEF End
  <2>3. ASSUME NEW g \in 1 .. Len(frames')
        PROVE  Holds(operand, frames[g].left)'
    <3>1. g \in 1 .. n - 1 /\ frames'[g] = frames[g]  BY <1>4 DEF fs
    <3> DEFINE b == frames[g].left
    <3>2. b \in 0 .. Len(nodes)  BY <1>2, <3>1
    <3>3. \E h \in 1 .. n - 1 : b = frames[h].left  BY <3>1
    <3>4. Size(nodes')[operand'] <= operand' - b  BY <3>2, <3>3
    <3>5. operand' \in 1 .. Len(nodes')  BY <1>1
    <3> HIDE DEF b
    <3> QED BY <3>1, <3>4, <3>5 DEF Holds, b
  <2> QED BY <2>2, <2>3 DEF OperandInv
<1> QED BY <1>5, <1>6
LEMMA SumOfSizes ==
  ASSUME NEW x \in Nat, NEW y \in Nat, NEW l \in Nat, NEW b \in Nat,
         NEW n \in Nat, NEW m \in Nat, NEW s, x <= l - b, y <= n - l,
         s = x + y + (m - n)
  PROVE  s <= m - b
OBVIOUS

LEMMA CombineKeeps ==
  ASSUME ParserInv, Combine
  PROVE  ParserInv'
<1> DEFINE n == Len(frames)
           made == IF Top.kind = "neg" THEN MakeUnary(nodes, operand)
                   ELSE MakeBinary(nodes, Top.kind, Top.left, operand)
<1>1. mode = "operator" /\ frames # <<>> /\ Top.kind # "("
  BY DEF Combine, Waiting
<1>2. CASE made.id = 0
  <2>1. Refuse  BY <1>2 DEF Combine
  <2> QED BY <1>1, <2>1, RefuseKeeps DEF Finished
<1>3. CASE made.id # 0
  <2>1. /\ nodes' = made.nodes /\ operand' = made.id /\ frames' = Pop
        /\ UNCHANGED <<signature, mode, current, tokens, pool,
                       statement, statements, local_count>>
    BY <1>3 DEF Combine
  <2>2. /\ Ordered(nodes) /\ Len(nodes) \in Nat /\ Len(pool) \in Nat
        /\ local_count \in Nat /\ n \in Nat /\ Table(nodes, pool, local_count)
        /\ End(Len(statements)) \in 0 .. Len(nodes)
    BY ParserFacts DEF ParserInv
  <2>3. /\ operand = Len(nodes) /\ operand \in 1 .. Len(nodes)
        /\ nodes[operand].kind # "normalize"
        /\ \A b \in 0 .. Len(nodes) :
              \/ b = End(Len(statements))
              \/ \E g \in 1 .. n : b = frames[g].left
              => Size(nodes)[operand] <= operand - b
    BY <1>1 DEF ParserInv, OperandInv, Holds
  <2>4. /\ n \in 1 .. Len(frames) /\ Top = frames[n]
        /\ Top \in FrameRecords(Len(nodes)) /\ FrameInv(n)
    <3>1. n # 0  BY <1>1, FramesAreTyped
    <3>2. n \in 1 .. Len(frames)  BY <2>2, <3>1
    <3>3. frames[n] \in FrameRecords(Len(nodes)) /\ FrameInv(n)
      BY <3>2, FramesAreTyped
    <3> QED BY <3>2, <3>3 DEF Top
  <2>5. Size(nodes)[operand] \in Nat  BY <2>2, <2>3, SizesArePositive
  <2>6. /\ Table(made.nodes, pool, local_count)
        /\ Extends(nodes, made.nodes)
        /\ made.id = Len(made.nodes) /\ made.nodes[made.id].kind # "normalize"
        /\ Len(made.nodes) > Len(nodes)
        /\ \A b \in 0 .. Len(nodes) :
              \/ b = End(Len(statements))
              \/ \E g \in 1 .. n - 1 : b = frames[g].left
              => Size(made.nodes)[made.id] <= made.id - b
    <3>1. CASE Top.kind = "neg"
      <4>1. made = MakeUnary(nodes, operand)  BY <3>1
      <4>2. /\ Grows(nodes, made, pool, local_count)
            /\ Len(made.nodes) = Len(nodes) + 1 /\ made.id = Len(made.nodes)
            /\ made.nodes[made.id].kind = "neg"
            /\ Size(made.nodes)[made.id] = Size(nodes)[operand] + 1
        BY <1>3, <2>2, <2>3, <4>1, UnaryTable, SMTT(30)
      <4> HIDE DEF made
      <4>3. ASSUME NEW b \in 0 .. Len(nodes),
                   \/ b = End(Len(statements))
                   \/ \E g \in 1 .. n - 1 : b = frames[g].left
            PROVE  Size(made.nodes)[made.id] <= made.id - b
        <5>1. Size(nodes)[operand] <= operand - b  BY <2>2, <2>3, <4>3
        <5> QED BY <2>2, <2>3, <2>5, <4>2, <5>1
      <4>4. Len(made.nodes) > Len(nodes) /\ made.nodes[made.id].kind # "normalize"
        BY <2>2, <4>2
      <4>5. Table(made.nodes, pool, local_count) /\ Extends(nodes, made.nodes)
        BY <4>2 DEF Grows
      <4> QED BY <4>2, <4>3, <4>4, <4>5
    <3>2. CASE Top.kind # "neg"
      <4>1. /\ made = MakeBinary(nodes, Top.kind, Top.left, operand)
            /\ Top.kind \in OperatorKinds
        BY <1>1, <2>4, <3>2 DEF FrameRecords
      <4> DEFINE l == Top.left
      <4>2. /\ l \in 1 .. Len(nodes) /\ nodes[l].kind # "normalize"
            /\ \A b \in 0 .. Len(nodes) :
                 \/ b = End(Len(statements))
                 \/ \E g \in 1 .. n - 1 : b = frames[g].left
                 => Size(nodes)[l] <= l - b
        BY <2>4, <4>1 DEF FrameInv, Holds
      <4>3. Size(nodes)[operand] <= operand - l
        <5>1. l \in 0 .. Len(nodes)  BY <2>2, <4>2
        <5>2. \E g \in 1 .. n : l = frames[g].left  BY <2>4
        <5> HIDE DEF l
        <5> QED BY <2>3, <5>1, <5>2
      <4>4. Size(nodes)[l] \in Nat  BY <2>2, <4>2, SizesArePositive
      <4>5. made.id # 0 /\ made = MakeBinary(nodes, Top.kind, l, operand)
        BY <1>3, <4>1
      <4> HIDE DEF made, l
      <4>6. /\ Grows(nodes, made, pool, local_count)
            /\ Len(made.nodes) > Len(nodes) /\ made.id = Len(made.nodes)
            /\ made.nodes[made.id].kind # "normalize"
            /\ Size(made.nodes)[made.id]
                 = Size(nodes)[l] + Size(nodes)[operand]
                   + (Len(made.nodes) - Len(nodes))
        <5> DEFINE op == Top.kind
        <5>1. op \in OperatorKinds /\ made = MakeBinary(nodes, op, l, operand)
          BY <4>1, <4>5
        <5>2. /\ Table(nodes, pool, local_count) /\ Len(pool) \in Nat
              /\ local_count \in Nat /\ l \in 1 .. Len(nodes)
              /\ operand \in 1 .. Len(nodes) /\ nodes[l].kind # "normalize"
              /\ nodes[operand].kind # "normalize"
          BY <2>2, <2>3, <4>2
        <5>3. MakeBinary(nodes, op, l, operand).id # 0  BY <4>5, <5>1
        <5> HIDE DEF op
        <5> QED BY <5>1, <5>2, <5>3, BinaryTable, SMTT(30)
      <4>7. Len(made.nodes) \in Nat  BY <4>6, TableIsOrdered DEF Grows
      <4>8. ASSUME NEW b \in 0 .. Len(nodes),
                   \/ b = End(Len(statements))
                   \/ \E g \in 1 .. n - 1 : b = frames[g].left
            PROVE  Size(made.nodes)[made.id] <= made.id - b
        <5>1. Size(nodes)[l] <= l - b  BY <4>2, <4>8
        <5>2. Size(nodes)[operand] <= Len(nodes) - l /\ l \in Nat /\ b \in Nat
          BY <2>2, <2>3, <4>2, <4>3
        <5>3. Size(made.nodes)[made.id] <= Len(made.nodes) - b
          <6> DEFINE x == Size(nodes)[l]
                     y == Size(nodes)[operand]
                     k == Len(nodes)
                     m == Len(made.nodes)
                     s == Size(made.nodes)[made.id]
          <6>1. x \in Nat /\ y \in Nat /\ k \in Nat /\ m \in Nat
            BY <2>2, <2>5, <4>4, <4>7
          <6>2. x <= l - b /\ y <= k - l /\ s = x + y + (m - k)
            BY <4>6, <5>1, <5>2
          <6>3. l \in Nat /\ b \in Nat  BY <5>2
          <6> HIDE DEF x, y, k, m, s
          <6>4. s <= m - b  BY <6>1, <6>2, <6>3, SumOfSizes
          <6> QED BY <6>4 DEF s, m
        <5> QED BY <4>6, <5>3
      <4> QED BY <4>6, <4>8 DEF Grows
    <3> QED BY <3>1, <3>2
  <2> HIDE DEF made
  <2>7. Len(made.nodes) \in Nat  BY <2>6, TableIsOrdered
  <2>8. FramesInv' /\ OperandInv'
    <3>1. operand' # 0 /\ mode' = "operator"
      BY <1>1, <2>1, <2>2, <2>6, <2>7
    <3>2. /\ Table(nodes', pool', local_count) /\ Extends(nodes, nodes')
          /\ operand' = Len(nodes') /\ nodes'[operand'].kind # "normalize"
          /\ frames' = Pop /\ UNCHANGED statements
      BY <2>1, <2>6
    <3>3. \A b \in 0 .. Len(nodes) :
              \/ b = End(Len(statements))
              \/ \E g \in 1 .. Len(frames) - 1 : b = frames[g].left
              => Size(nodes')[operand'] <= operand' - b
      BY <2>1, <2>6
    <3> QED BY <1>1, <3>1, <3>2, <3>3, FrameGoes
  <2>9. TokenInv'
    <3>1. current \in OperatorTokens /\ mode' = "operator"
      BY <1>1, <2>1 DEF ParserInv, TokenInv
    <3> QED BY <2>1, <3>1, ModeTokens
  <2>10. Pooled(pool') /\ mode' \in {"operand", "operator"}
    BY <1>1, <2>1 DEF ParserInv
  <2> QED BY <1>1, <2>1, <2>6, <2>8, <2>9, <2>10, WithinExpression
<1> QED BY <1>2, <1>3

LEMMA CloseKeeps ==
  ASSUME ParserInv, CloseParenthesis
  PROVE  ParserInv'
<1>1. mode = "operator"  BY DEF CloseParenthesis
<1>2. CASE frames = <<>> \/ current.kind = ";"
  <2>1. Refuse  BY <1>2 DEF CloseParenthesis
  <2> QED BY <1>1, <2>1, RefuseKeeps DEF Finished
<1>3. CASE ~ (frames = <<>> \/ current.kind = ";")
  <2>1. /\ frames' = Pop /\ mode' = "operator" /\ frames # <<>>
        /\ current' \in OperatorTokens
        /\ UNCHANGED <<signature, operand, nodes, pool, statement,
                       statements, local_count>>
    BY <1>3 DEF CloseParenthesis, Advance
  <2>2. /\ Ordered(nodes) /\ Len(nodes) \in Nat /\ Extends(nodes, nodes)
        /\ Table(nodes, pool, local_count) /\ Len(frames) \in Nat
        /\ Pooled(pool)
    BY ParserFacts, ExtendsItself DEF ParserInv
  <2>3. /\ operand = Len(nodes) /\ operand \in 1 .. Len(nodes)
        /\ nodes[operand].kind # "normalize"
        /\ \A b \in 0 .. Len(nodes) :
              \/ b = End(Len(statements))
              \/ \E g \in 1 .. Len(frames) : b = frames[g].left
              => Size(nodes)[operand] <= operand - b
    BY <1>1 DEF ParserInv, OperandInv, Holds
  <2>4. \A b \in 0 .. Len(nodes) :
              \/ b = End(Len(statements))
              \/ \E g \in 1 .. Len(frames) - 1 : b = frames[g].left
              => Size(nodes)[operand] <= operand - b
    <3>1. \A g \in 1 .. Len(frames) - 1 : g \in 1 .. Len(frames)  BY <2>2
    <3> QED BY <2>3, <3>1
  <2>5. /\ Table(nodes', pool', local_count) /\ Extends(nodes, nodes')
        /\ operand' = Len(nodes') /\ nodes'[operand'].kind # "normalize"
        /\ operand' # 0 /\ Pooled(pool')
        /\ \A b \in 0 .. Len(nodes) :
              \/ b = End(Len(statements))
              \/ \E g \in 1 .. Len(frames) - 1 : b = frames[g].left
              => Size(nodes')[operand'] <= operand' - b
    BY <2>1, <2>2, <2>3, <2>4
  <2>6. FramesInv' /\ OperandInv'  BY <1>1, <2>1, <2>5, FrameGoes
  <2>7. TokenInv'  BY <2>1, ModeTokens
  <2> QED BY <1>1, <2>1, <2>5, <2>6, <2>7, WithinExpression
<1> QED BY <1>2, <1>3
(* A statement enters the table. *)
LEMMA CompleteKeeps ==
  ASSUME ParserInv, ExpressionEnds, NEW made, NEW local \in Nat,
         NEW next \in {"statement", "parsed"},
         Complete(made, local, next),
         mode' = "refused" => UNCHANGED local_count,
         mode' # "refused" =>
            \/ UNCHANGED local_count /\ local \in 0 .. local_count
            \/ local_count' = local_count + 1 /\ local = local_count + 1,
         local_count' \in 0 .. Len(signature.locals),
         local = 0 <=> next = "parsed",
         made.id # 0 =>
            /\ Table(made.nodes, pool, local_count)
            /\ Extends(nodes, made.nodes)
            /\ made.id = Len(made.nodes)
            /\ made.nodes[made.id].type =
                  IF local = 0 THEN signature.result
                  ELSE signature.locals[local]
            /\ Size(made.nodes)[made.id]
                 <= made.id - End(Len(statements))
  PROVE  ParserInv'
<1>1. mode = "operator" /\ frames = <<>> /\ mode \notin Finished
  BY DEF ExpressionEnds, Finished
<1>2. CASE Refuse  BY <1>1, <1>2, RefuseKeeps
<1>3. CASE ~ (made.id = 0 \/ Len(statements) = MaxStatements)
  <2> DEFINE s == [local |-> local, expression |-> made.id]
             k == Len(statements)
  <2>1. /\ nodes' = made.nodes /\ statements' = Append(statements, s)
        /\ mode' = next /\ UNCHANGED <<signature, current, frames, pool>>
    BY <1>3 DEF Complete
  <2>2. /\ Table(made.nodes, pool, local_count)
        /\ Extends(nodes, made.nodes)
        /\ made.id = Len(made.nodes)
        /\ made.nodes[made.id].type =
                  IF local = 0 THEN signature.result
                  ELSE signature.locals[local]
        /\ Size(made.nodes)[made.id] <= made.id - End(k)
    BY <1>3
  <2>3. /\ \/ local_count' = local_count /\ local \in 0 .. local_count
           \/ local_count' = local_count + 1 /\ local = local_count + 1
        /\ local_count' \in Nat /\ local_count <= local_count'
        /\ local_count \in Nat /\ k \in Nat /\ Len(nodes) \in Nat
        /\ Len(made.nodes) \in Nat /\ Len(pool) \in Nat
        /\ Ordered(nodes) /\ Ordered(made.nodes)
    <3>1. mode' # "refused" /\ local_count \in Nat  BY <2>1, ParserFacts
    <3>2. local_count' \in Nat /\ local_count <= local_count'  BY <3>1
    <3>3. Len(made.nodes) \in Nat /\ Ordered(made.nodes)
      BY <2>2, TableIsOrdered
    <3> QED BY <3>1, <3>2, <3>3, ParserFacts
  <2>4. Table(nodes, pool, local_count)' /\ Pooled(pool)'
    <3>1. Extends(pool, pool)  BY <2>3, ExtendsItself
    <3>2. Table(made.nodes, pool, local_count')
      BY <2>2, <2>3, <3>1, TableKept
    <3>3. Table(nodes', pool', local_count') /\ Pooled(pool)
      BY <2>1, <3>2 DEF ParserInv
    <3> QED BY <2>1, <3>3, SameSignature
  <2>5. /\ statements \in Seq([local : Nat, expression : Nat])
        /\ k <= MaxStatements /\ MaxStatements \in Nat
        /\ \A i \in 1 .. k : StatementInv(i)
    BY LimitsAssumption DEF ParserInv, StatementsInv
  <2>6. s \in [local : Nat, expression : Nat] /\ made.id \in Nat
    BY <2>2, <2>3
  <2> DEFINE ss == Append(statements, s)
  <2>7. /\ Len(ss) = k + 1 /\ ss[k + 1] = s
        /\ \A i \in 1 .. k : ss[i] = statements[i]
        /\ ss \in Seq([local : Nat, expression : Nat])
    BY <2>5, <2>6
  <2>8. s.local = local /\ s.expression = made.id /\ statements' = ss
    BY <2>1
  <2> HIDE DEF ss, s
  <2>9. ASSUME NEW i \in 0 .. k
        PROVE  End(i)' = End(i)
    <3>1. CASE i = 0  BY <3>1 DEF End
    <3>2. CASE i \in 1 .. k
      <4>1. statements'[i] = statements[i]  BY <2>7, <2>8, <3>2
      <4> QED BY <4>1 DEF End
    <3> QED BY <2>3, <3>1, <3>2
  <2>10. \A i \in 1 .. k : /\ Returning(i)' <=> Returning(i)
                           /\ TypeOfStatement(i)' = TypeOfStatement(i)
    BY <2>1, <2>7, <2>8 DEF Returning, TypeOfStatement
  <2>11. ASSUME NEW i \in 1 .. k
         PROVE  StatementInv(i)'
    <3> DEFINE e == statements[i].expression
    <3>1. /\ statements[i].local \in 0 .. local_count /\ e \in 1 .. Len(nodes)
          /\ nodes[e].type = TypeOfStatement(i)
          /\ Size(nodes)[e] <= e - End(i - 1)
          /\ ~ Returning(i)
      BY <1>1, <2>5 DEF StatementInv
    <3>2. made.nodes[e] = nodes[e] /\ Size(made.nodes)[e] = Size(nodes)[e]
          /\ e \in 1 .. Len(made.nodes)
      <4> DEFINE ms == made.nodes
      <4>1. Ordered(ms) /\ Extends(nodes, ms) /\ e \in 1 .. Len(nodes)
            /\ Ordered(nodes)
        BY <2>2, <2>3, <3>1
      <4> HIDE DEF ms, e
      <4>2. Size(ms)[e] = Size(nodes)[e]  BY <4>1, Kept
      <4>3. ms[e] = nodes[e] /\ e \in 1 .. Len(ms)
        BY <4>1, <2>3 DEF Extends, ms
      <4> QED BY <4>2, <4>3 DEF ms
    <3>3. statements'[i] = statements[i] /\ i # k + 1  BY <2>3, <2>7, <2>8
    <3>4. End(i - 1)' = End(i - 1)
      <4>1. i - 1 \in 0 .. k  BY <2>3
      <4> QED BY <2>9, <4>1
    <3>5. statements[i].local \in 0 .. local_count'  BY <2>3, <3>1
    <3>6. ~ (i = Len(statements'))  BY <2>7, <2>8, <3>3
    <3> QED BY <2>1, <2>10, <3>1, <3>2, <3>3, <3>4, <3>5, <3>6
            DEF StatementInv
  <2>12. ASSUME NEW i, i = k + 1
         PROVE  StatementInv(i)'
    <3>1. statements'[i] = s /\ i = Len(statements')  BY <2>7, <2>8, <2>12
    <3>2. End(i - 1)' = End(k)
      <4>1. i - 1 = k /\ k \in 0 .. k  BY <2>3, <2>12
      <4> HIDE DEF k
      <4>2. \A j : j \in 0 .. k => End(j)' = End(j)  BY <2>9
      <4>3. ASSUME NEW j, j = i - 1
            PROVE  End(j)' = End(k)
        BY <4>1, <4>2, <4>3
      <4> QED BY <4>3
    <3>3. local \in 0 .. local_count'  BY <2>3
    <3>4. made.id \in 1 .. Len(made.nodes)  BY <1>3, <2>2, <2>3
    <3>5. Returning(i)' <=> local = 0  BY <2>8, <3>1 DEF Returning
    <3>6. TypeOfStatement(i)' = IF local = 0 THEN signature.result
                               ELSE signature.locals[local]
      BY <2>1, <2>8, <3>1, <3>5 DEF TypeOfStatement
    <3>7. local = 0 <=> mode' \in Finished  BY <2>1 DEF Finished
    <3> QED BY <2>1, <2>2, <2>8, <3>1, <3>2, <3>3, <3>4, <3>5, <3>6, <3>7
            DEF StatementInv
  <2>13. StatementsInv'
    <3>1. k + 1 <= MaxStatements  BY <1>3, <2>3, <2>5
    <3>2. \A i \in 1 .. k + 1 : StatementInv(i)'  BY <2>3, <2>11, <2>12
    <3>3. ss # <<>>  BY <2>3, <2>7
    <3> QED BY <2>7, <2>8, <3>1, <3>2, <3>3 DEF StatementsInv
  <2>14. StoredInv'
    <3>1. /\ \A l \in 1 .. local_count :
                \E i \in 1 .. k : statements[i].local = l
          /\ \A n \in 1 .. Len(nodes) :
                nodes[n].kind = "local" =>
                   \E i \in 1 .. k : /\ statements[i].local = nodes[n].value
                                     /\ statements[i].expression < n
      BY DEF ParserInv, StoredInv
    <3>2. \A i \in 1 .. k : i \in 1 .. k + 1 /\ ss[i] = statements[i]
      BY <2>3, <2>7
    <3>3. k + 1 \in 1 .. k + 1 /\ ss[k + 1].local = local
      BY <2>3, <2>7, <2>8
    <3>4. ASSUME NEW l \in 1 .. local_count'
          PROVE  \E i \in 1 .. k + 1 : ss[i].local = l
      <4>1. CASE l \in 1 .. local_count  BY <3>1, <3>2, <4>1
      <4>2. CASE l = local  BY <3>3, <4>2
      <4> QED BY <2>3, <4>1, <4>2
    <3>5. ASSUME NEW n \in 1 .. Len(made.nodes),
                 made.nodes[n].kind = "local"
          PROVE  \E i \in 1 .. k + 1 :
                    /\ ss[i].local = made.nodes[n].value
                    /\ ss[i].expression < n
      <4>1. CASE n \in 1 .. Len(nodes)
        <5>1. made.nodes[n] = nodes[n]  BY <2>2, <4>1 DEF Extends
        <5> QED BY <3>1, <3>2, <3>5, <4>1, <5>1
      <4>2. CASE n > Len(nodes)
        <5>1. made.nodes[n].value \in 1 .. local_count
          BY <2>2, <3>5 DEF Table, Formed, FormedLeaf
        <5>2. PICK i \in 1 .. k : statements[i].local = made.nodes[n].value
          BY <3>1, <5>1
        <5>3. statements[i].expression \in 1 .. Len(nodes)
          BY <2>5 DEF StatementInv
        <5>4. statements[i].expression < n  BY <2>3, <4>2, <5>3
        <5> QED BY <3>2, <5>2, <5>4
      <4> QED BY <2>3, <4>1, <4>2
    <3> QED BY <2>1, <2>7, <2>8, <3>4, <3>5 DEF StoredInv
  <2>15. FramesInv'
    <3>1. frames' = <<>> /\ Len(<<>>) = 0  BY <1>1, <2>1
    <3> QED BY <3>1 DEF FramesInv
  <2>16. OperandInv' /\ TokenInv' /\ BegunInv'
    BY <2>1 DEF OperandInv, TokenInv, BegunInv
  <2>17. /\ signature' \in Authors /\ mode' \in Modes /\ Passable'
         /\ local_count' \in 0 .. Len(signature'.locals)
    <3>1. Passable  BY <1>1 DEF ParserInv
    <3>2. Passable'
      BY <2>1, <3>1 DEF Passable, ParameterCount, ClassIndex, IsAddress
    <3> QED BY <2>1, <3>2 DEF ParserInv, Modes
  <2> QED BY <2>4, <2>13, <2>14, <2>15, <2>16, <2>17 DEF ParserInv
<1> QED BY <1>2, <1>3 DEF Complete
(* The expression brought to the type that is required. *)
LEMMA RequiredType ==
  ASSUME ParserInv, ExpressionEnds, NEW type \in Types,
         Coerced(nodes, operand, type).id # 0
  PROVE  LET made == Coerced(nodes, operand, type)
         IN  /\ Table(made.nodes, pool, local_count)
             /\ Extends(nodes, made.nodes)
             /\ made.id = Len(made.nodes) /\ Len(made.nodes) \in Nat \ {0}
             /\ made.nodes[made.id].type = type
             /\ Size(made.nodes)[made.id] \in Nat
             /\ Size(made.nodes)[made.id]
                  <= made.id - End(Len(statements))
<1> DEFINE made == Coerced(nodes, operand, type)
<1>1. /\ operand = Len(nodes) /\ operand \in 1 .. Len(nodes)
      /\ nodes[operand].kind # "normalize"
      /\ Size(nodes)[operand] <= operand - End(Len(statements))
  BY DEF ParserInv, OperandInv, ExpressionEnds, Holds
<1>2. /\ Len(pool) \in Nat /\ local_count \in Nat /\ Len(nodes) \in Nat
      /\ Table(nodes, pool, local_count) /\ Ordered(nodes)
      /\ End(Len(statements)) \in 0 .. Len(nodes)
  BY ParserFacts DEF ParserInv
<1>3. /\ Grows(nodes, made, pool, local_count)
      /\ made.nodes[made.id].type = type
      /\ \/ made.nodes = nodes /\ made.id = operand
         \/ /\ Len(made.nodes) = Len(nodes) + 1 /\ made.id = Len(made.nodes)
            /\ Size(made.nodes)[made.id] = Size(nodes)[operand] + 1
  BY <1>1, <1>2, CoercedTable, SMTT(30)
<1> HIDE DEF made
<1>4. Size(nodes)[operand] \in Nat  BY <1>1, <1>2, SizesArePositive
<1>5. made.id = Len(made.nodes) /\ Len(made.nodes) \in Nat \ {0}
  BY <1>1, <1>2, <1>3
<1>6. /\ Size(made.nodes)[made.id] \in Nat
      /\ Size(made.nodes)[made.id] <= made.id - End(Len(statements))
  <2> DEFINE x == Size(nodes)[operand]
             y == Size(made.nodes)[made.id]
             b == End(Len(statements))
             i == made.id
  <2>1. /\ x \in Nat /\ b \in Nat /\ operand \in Nat /\ x <= operand - b
    BY <1>1, <1>2, <1>4
  <2>2. \/ i = operand /\ y = x
        \/ i = operand + 1 /\ y = x + 1
    BY <1>1, <1>3
  <2> HIDE DEF x, y, b, i
  <2>3. y \in Nat /\ y <= i - b  BY <2>1, <2>2
  <2> QED BY <2>3 DEF y, b, i
<1> QED BY <1>3, <1>5, <1>6 DEF Grows, made

LEMMA StatementEnds ==
  ASSUME ParserInv, EndLocal \/ EndAssign \/ EndReturn
  PROVE  ParserInv'
<1>1. ExpressionEnds /\ mode = "operator"
  BY DEF EndLocal, EndAssign, EndReturn, ExpressionEnds
<1>2. /\ local_count \in 0 .. Len(signature.locals) /\ local_count \in Nat
      /\ Len(signature.locals) \in Nat
      /\ signature.result \in Types
      /\ \A l \in 1 .. Len(signature.locals) : signature.locals[l] \in Types
  BY ParserFacts DEF ParserInv
<1>3. CASE EndLocal
  <2> DEFINE type == signature.locals[local_count + 1]
             made == Coerced(nodes, operand, type)
  <2>1. /\ Complete(made, local_count + 1, "statement")
        /\ mode' = "statement" => local_count' = local_count + 1
    BY <1>3 DEF EndLocal
  <2>2. local_count < Len(signature.locals)
    BY <1>1, <1>3 DEF ParserInv, BegunInv, EndLocal
  <2>3. type \in Types /\ local_count + 1 \in Nat /\ local_count + 1 # 0
    BY <1>2, <2>2
  <2>4. made.id # 0 =>
            /\ Table(made.nodes, pool, local_count)
            /\ Extends(nodes, made.nodes)
            /\ made.id = Len(made.nodes)
            /\ made.nodes[made.id].type = type
            /\ Size(made.nodes)[made.id]
                 <= made.id - End(Len(statements))
    BY <1>1, <2>3, RequiredType
  <2> HIDE DEF made
  <2>5. Refuse \/ mode' = "statement"  BY <2>1 DEF Complete
  <2>6. /\ mode' = "refused" => UNCHANGED local_count
        /\ mode' # "refused" => local_count' = local_count + 1
        /\ local_count' \in 0 .. Len(signature.locals)
    BY <1>2, <2>1, <2>2, <2>5 DEF Refuse
  <2> QED BY <1>1, <2>1, <2>3, <2>4, <2>6, CompleteKeeps
<1>4. CASE EndAssign
  <2> DEFINE local == statement[2]
             type == signature.locals[local]
             made == Coerced(nodes, operand, type)
  <2>1. Complete(made, local, "statement") /\ UNCHANGED local_count
    BY <1>4 DEF EndAssign
  <2>2. local \in 1 .. local_count
    BY <1>1, <1>4 DEF ParserInv, BegunInv, EndAssign
  <2>3. /\ type \in Types /\ local \in Nat /\ local # 0
        /\ local \in 0 .. local_count
    BY <1>2, <2>2
  <2>4. made.id # 0 =>
            /\ Table(made.nodes, pool, local_count)
            /\ Extends(nodes, made.nodes)
            /\ made.id = Len(made.nodes)
            /\ made.nodes[made.id].type = type
            /\ Size(made.nodes)[made.id]
                 <= made.id - End(Len(statements))
    BY <1>1, <2>3, RequiredType
  <2> HIDE DEF made, local
  <2> QED BY <1>1, <1>2, <2>1, <2>3, <2>4, CompleteKeeps
<1>5. CASE EndReturn
  <2> DEFINE made == Coerced(nodes, operand, signature.result)
  <2>1. Complete(made, 0, "parsed") /\ UNCHANGED local_count
    BY <1>5 DEF EndReturn
  <2>4. made.id # 0 =>
            /\ Table(made.nodes, pool, local_count)
            /\ Extends(nodes, made.nodes)
            /\ made.id = Len(made.nodes)
            /\ made.nodes[made.id].type = signature.result
            /\ Size(made.nodes)[made.id]
                 <= made.id - End(Len(statements))
    BY <1>1, <1>2, RequiredType
  <2> HIDE DEF made
  <2>5. 0 \in Nat /\ 0 \in 0 .. local_count  BY <1>2
  <2> QED BY <1>1, <1>2, <2>1, <2>4, <2>5, CompleteKeeps
<1> QED BY <1>3, <1>4, <1>5

LEMMA DivideEnds ==
  ASSUME ParserInv, EndDivideAssign
  PROVE  ParserInv'
<1> DEFINE local   == statement[2]
           type    == signature.locals[local]
           divisor == Coerced(nodes, operand, type)
           read    == Node("local", type, 0, 0, local)
           target  == AddNode(divisor.nodes, read)
           quotient == Node(KindOf("/", type), type, target.id, divisor.id, 0)
           made    == AddNode(target.nodes, quotient)
<1>1. ExpressionEnds /\ mode = "operator" /\ UNCHANGED local_count
  BY DEF EndDivideAssign, ExpressionEnds
<1>2. /\ local_count \in 0 .. Len(signature.locals) /\ local_count \in Nat
      /\ Len(signature.locals) \in Nat /\ Len(pool) \in Nat
      /\ \A l \in 1 .. Len(signature.locals) : signature.locals[l] \in Types
      /\ End(Len(statements)) \in Nat
  BY ParserFacts DEF ParserInv
<1>3. local \in 1 .. local_count
  BY <1>1 DEF ParserInv, BegunInv, EndDivideAssign
<1>4. type \in Types /\ local \in Nat /\ local # 0 /\ local \in 0 .. local_count
  BY <1>2, <1>3
<1>5. CASE Refuse  BY <1>1, <1>5, RefuseKeeps DEF Finished
<1>6. CASE ~ Refuse
  <2>1. /\ type \in IntegerTypes /\ divisor.id # 0 /\ target.id # 0
        /\ Complete(made, local, "statement")
    BY <1>6, SMTT(30) DEF EndDivideAssign
  <2>2. /\ Table(divisor.nodes, pool, local_count)
        /\ Extends(nodes, divisor.nodes)
        /\ divisor.id = Len(divisor.nodes)
        /\ Len(divisor.nodes) \in Nat \ {0}
        /\ divisor.nodes[divisor.id].type = type
        /\ Size(divisor.nodes)[divisor.id] \in Nat
        /\ Size(divisor.nodes)[divisor.id]
             <= divisor.id - End(Len(statements))
    BY <1>1, <1>4, <2>1, RequiredType
  <2>3. /\ read.kind = "local" /\ read.type = type /\ read.value = local
        /\ read \in NodeRecords /\ read.kind \in Leaves
        /\ FormedLeaf(<<read>>, pool, local_count, 1)
    <3> HIDE DEF type, local
    <3>1. signature.locals[local] = type  BY SMTT(30) DEF type
    <3> QED BY <1>3, <1>4, <3>1
        DEF Node, NodeRecords, Kinds, Leaves, FormedLeaf, PoolTypes
  <2>4. Len(divisor.nodes) # MaxNodes  BY <2>1 DEF AddNode, Made
  <2> HIDE DEF read, divisor
  <2>5. /\ Table(target.nodes, pool, local_count)
        /\ Extends(divisor.nodes, target.nodes)
        /\ Len(target.nodes) = Len(divisor.nodes) + 1
        /\ target.id = Len(target.nodes)
        /\ target.nodes[target.id] = read
        /\ Size(target.nodes)[target.id] = 1
    <3> DEFINE ds == divisor.nodes
    <3>1. Table(ds, pool, local_count) /\ Len(ds) # MaxNodes  BY <2>2, <2>4
    <3> HIDE DEF ds
    <3>2. LET m == AddNode(ds, read)
          IN  /\ Table(m.nodes, pool, local_count) /\ Extends(ds, m.nodes)
              /\ Len(m.nodes) = Len(ds) + 1 /\ m.id = Len(m.nodes)
              /\ m.nodes[m.id] = read
              /\ Size(m.nodes)[m.id] = 1
      BY <1>2, <2>3, <3>1, LeafTable
    <3> QED BY <3>2 DEF ds
  <2> HIDE DEF target
  <2>6. /\ target.nodes[divisor.id] = divisor.nodes[divisor.id]
        /\ Size(target.nodes)[divisor.id] = Size(divisor.nodes)[divisor.id]
        /\ divisor.id \in 1 .. Len(target.nodes)
        /\ target.id \in 1 .. Len(target.nodes)
    <3> DEFINE ds == divisor.nodes
               ts == target.nodes
               d == divisor.id
    <3>1. /\ Ordered(ds) /\ Ordered(ts) /\ Extends(ds, ts) /\ d \in 1 .. Len(ds)
      BY <2>2, <2>5, TableIsOrdered
    <3> HIDE DEF ds, ts, d
    <3>2. Size(ts)[d] = Size(ds)[d] /\ ts[d] = ds[d]
      BY <3>1, Kept DEF Extends
    <3> QED BY <2>2, <2>5, <3>2 DEF ds, ts, d
  <2>7. /\ quotient.kind = KindOf("/", type) /\ quotient.type = type
        /\ quotient.left = target.id /\ quotient.right = divisor.id
        /\ quotient.kind \in Arithmetic \cap Binary
        /\ SignFits(quotient.kind, type)
    <3>1. KindOf("/", type) \in {"div", "div_u"}  BY DEF KindOf
    <3>2. "/" \in OperatorKinds  BY DEF OperatorKinds
    <3>3. KindOf("/", type) \in Binary /\ SignFits(KindOf("/", type), type)
      BY <2>1, <3>2, KindOfOperator
    <3>4. KindOf("/", type) \in Arithmetic
      BY <3>1 DEF Arithmetic, Divisions
    <3> QED BY <3>3, <3>4 DEF Node
  <2>8. quotient \in NodeRecords
    BY <1>4, <2>6, <2>7 DEF Node, NodeRecords, Kinds
  <2> HIDE DEF quotient
  <2>9. made.id # 0 =>
            /\ Table(made.nodes, pool, local_count)
            /\ Extends(nodes, made.nodes)
            /\ made.id = Len(made.nodes)
            /\ made.nodes[made.id].type = type
            /\ Size(made.nodes)[made.id]
                 <= made.id - End(Len(statements))
    <3> SUFFICES ASSUME made.id # 0
                 PROVE  /\ Table(made.nodes, pool, local_count)
                        /\ Extends(nodes, made.nodes)
                        /\ made.id = Len(made.nodes)
                        /\ made.nodes[made.id].type = type
                        /\ Size(made.nodes)[made.id]
                             <= made.id - End(Len(statements))
      OBVIOUS
    <3> DEFINE ts == target.nodes
               joined == AddNode(ts, quotient)
    <3>1. Len(ts) # MaxNodes  BY DEF AddNode, Made
    <3>2. /\ Table(ts, pool, local_count)
          /\ quotient.left \in 1 .. Len(ts) /\ quotient.right \in 1 .. Len(ts)
          /\ ts[quotient.left].type = type /\ ts[quotient.right].type = type
          /\ ts[quotient.left].kind # "normalize"
          /\ Size(ts)[quotient.left] = 1
          /\ Size(ts)[quotient.right] = Size(divisor.nodes)[divisor.id]
          /\ Len(ts) = Len(divisor.nodes) + 1
      BY <2>2, <2>3, <2>5, <2>6, <2>7
    <3>3. quotient.type = IF quotient.kind \in Comparisons THEN "bool"
                          ELSE ts[quotient.left].type
      BY <2>7, <3>2, KindsDiffer
    <3>4. made = joined  OBVIOUS
    <3>9. /\ quotient.kind \in Binary
          /\ ts[quotient.left].type = ts[quotient.right].type
          /\ SignFits(quotient.kind, ts[quotient.left].type)
          /\ \/ ts[quotient.left].kind # "normalize"
             \/ ts[quotient.right].kind # "normalize"
      BY <2>7, <3>2
    <3> HIDE DEF ts, made, type
    <3>5. /\ Grows(ts, joined, pool, local_count)
          /\ Len(joined.nodes) = Len(ts) + 1 /\ joined.id = Len(joined.nodes)
          /\ joined.nodes[joined.id] = quotient
          /\ Size(joined.nodes)[joined.id]
               = Size(ts)[quotient.left] + Size(ts)[quotient.right] + 1
      BY <1>2, <2>8, <3>1, <3>2, <3>3, <3>9, JoinedTable, ZenonT(40)
    <3> HIDE DEF joined
    <3>6. Table(joined.nodes, pool, local_count) /\ Extends(ts, joined.nodes)
      BY <3>5 DEF Grows
    <3>7. Extends(nodes, joined.nodes)
      <4> DEFINE ds == divisor.nodes
                 js == joined.nodes
      <4>1. /\ Len(nodes) \in Nat /\ Len(ds) \in Nat /\ Len(ts) \in Nat
            /\ Len(js) \in Nat
        BY <2>2, <3>2, <3>5, ParserFacts
      <4>2. Extends(nodes, ds) /\ Extends(ds, ts) /\ Extends(ts, js)
        BY <2>2, <2>5, <3>6 DEF ts
      <4> HIDE DEF ds, js
      <4>3. Extends(nodes, ts)  BY <4>1, <4>2, ExtendsFurther
      <4>4. Extends(nodes, js)  BY <4>1, <4>2, <4>3, ExtendsFurther
      <4> QED BY <4>4 DEF js
    <3>8. Size(joined.nodes)[joined.id] <= joined.id - End(Len(statements))
      <4> DEFINE x == Size(divisor.nodes)[divisor.id]
                 k == Len(divisor.nodes)
                 b == End(Len(statements))
                 i == joined.id
                 y == Size(joined.nodes)[i]
      <4>1. x \in Nat /\ k \in Nat /\ b \in Nat /\ x <= k - b  BY <1>2, <2>2
      <4>2. y = 1 + x + 1 /\ i = k + 1 + 1  BY <3>2, <3>5
      <4> HIDE DEF x, k, b, y, i
      <4>3. y <= i - b  BY <4>1, <4>2
      <4> QED BY <4>3 DEF b, y, i
    <3> QED BY <2>7, <3>4, <3>5, <3>6, <3>7, <3>8
  <2> HIDE DEF made, local
  <2>10. local # 0 /\ local \in Nat /\ local \in 0 .. local_count
         /\ type = IF local = 0 THEN signature.result
                   ELSE signature.locals[local]
    BY <1>4
  <2> HIDE DEF type
  <2>11. made.id # 0 => made.nodes[made.id].type =
                          IF local = 0 THEN signature.result
                          ELSE signature.locals[local]
    BY <2>9, <2>10
  <2> QED BY <1>1, <1>2, <2>1, <2>9, <2>10, <2>11, CompleteKeeps
<1> QED BY <1>5, <1>6
LEMMA ParseKeeps ==
  ASSUME ParserInv, ParseNext
  PROVE  ParserInv'
<1>1. CASE NoOperand  BY <1>1, RefuseKeeps DEF NoOperand, Finished
<1> QED
  BY <1>1, StatementBegins, PrimaryKeeps, PoolLiteralKeeps, PrefixKeeps,
     CombineKeeps, OperatorKeeps, CloseKeeps, StatementEnds, DivideEnds
  DEF ParseNext

(* Nothing of the parser changes, but that a parsed function is compiled. *)
LEMMA ParserStutters ==
  ASSUME ParserInv, UNCHANGED parserVars
  PROVE  ParserInv'
<1> USE DEF parserVars
<1>1. TokenInv'  BY ParserFacts, SameTokens DEF ParserInv, TokenInv
<1>2. OperandInv' /\ BegunInv'
  BY DEF ParserInv, OperandInv, BegunInv, Holds, End
<1>3. mode' \in {"operand", "operator", "refused"} \/ frames = <<>>
  BY DEF ParserInv, FramesInv
<1> QED BY <1>1, <1>2, <1>3, TablesStay DEF ParserInv

LEMMA LowerKeepsParser ==
  ASSUME ParserInv, Lower
  PROVE  ParserInv'
<1>1. /\ mode = "parsed" /\ mode' \in {"compiled", "rejected"}
      /\ UNCHANGED <<signature, current, tokens, frames, operand, nodes, pool,
                     statement, statements, local_count>>
  BY DEF Lower
<1>2. mode \in Finished /\ mode' \in Finished /\ mode' \in Modes
  BY <1>1 DEF Finished, Modes
<1>3. OperandInv' /\ BegunInv' /\ TokenInv'
  BY <1>1 DEF OperandInv, BegunInv, TokenInv
<1>4. frames = <<>>  BY <1>1 DEF ParserInv, FramesInv
<1> QED BY <1>1, <1>2, <1>3, <1>4, TablesStay DEF ParserInv

LEMMA StepKeepsParser ==
  ASSUME ParserInv, [StackNext]_<<parserVars, codeVars>>
  PROVE  ParserInv'
<1>1. CASE Parse  BY <1>1, ParseKeeps DEF Parse
<1>2. CASE Lower  BY <1>2, LowerKeepsParser
<1>3. CASE UNCHANGED parserVars  BY <1>3, ParserStutters
<1> QED BY <1>1, <1>2, <1>3 DEF StackNext, Call, Step

(* Whatever is written, the parser's tables stay well formed: every node   *)
(* has operands made before it, of the types its operator is for; a        *)
(* conversion holds a constant that fits; a local that is read is stored   *)
(* by a statement before; no entry of the pool is there twice; and an      *)
(* expression, counted as often as its code is emitted, has no more nodes  *)
(* than its statement has put in the table.                                *)
THEOREM ParserKeepsTables == StackSpec => []ParserInv
<1>1. StackInit => ParserInv  BY ParserInitially DEF StackInit
<1>2. ParserInv /\ [StackNext]_<<parserVars, codeVars>> => ParserInv'
  BY StepKeepsParser
<1> QED BY <1>1, <1>2, PTL DEF StackSpec

(* The same of the parser by itself, without calls                         *)
(* (miga80_parse_function).                                                *)
THEOREM ParserAlone == ParseSpec => []ParserInv
<1>1. Init => ParserInv  BY ParserInitially
<1>2. ParserInv /\ [ParseNext]_parserVars => ParserInv'
  BY ParseKeeps, ParserStutters
<1> QED BY <1>1, <1>2, PTL DEF ParseSpec
-----------------------------------------------------------------------------
(* The code of a node, from that of its operands *)
Opcode(kind) == IF kind \in {"literal", "truth"} \cup PoolTypes THEN "push"
                ELSE kind
NodeInstruction(n) ==
    Instruction(Opcode(nodes[n].kind),
                IF nodes[n].kind \in Comparisons
                THEN nodes[nodes[n].left].type ELSE nodes[n].type,
                nodes[n].value, n)

CodeOf(lowered, n) ==
    CASE nodes[n].kind \in Leaves -> <<NodeInstruction(n)>>
      [] nodes[n].kind \in Unary ->
           lowered[nodes[n].left] \o <<NodeInstruction(n)>>
      [] nodes[n].kind \in Binary ->
           (lowered[nodes[n].left] \o lowered[nodes[n].right])
           \o <<NodeInstruction(n)>>

LEMMA NodeCodeOfChildren ==
  ASSUME Ordered(nodes), NEW n \in 1 .. Len(nodes), NEW f, NEW g,
         \A k \in 1 .. n - 1 : f[k] = g[k]
  PROVE  NodeCode(f, n) = NodeCode(g, n)
<1>1. CASE nodes[n].kind \in Leaves
  BY <1>1 DEF NodeCode, Leaves, PoolTypes, Arithmetic, Divisions, Comparisons,
              Equalities
<1>2. CASE nodes[n].kind \in Unary
  <2>1. nodes[n].left \in 1 .. n - 1  BY <1>2 DEF Ordered
  <2> QED BY <1>2, <2>1 DEF NodeCode, Unary, PoolTypes, Arithmetic, Divisions,
                            Comparisons, Equalities
<1>3. CASE nodes[n].kind \in Binary
  <2>1. nodes[n].left \in 1 .. n - 1 /\ nodes[n].right \in 1 .. n - 1
    BY <1>3 DEF Ordered
  <2>2. f[nodes[n].left] = g[nodes[n].left]
        /\ f[nodes[n].right] = g[nodes[n].right]
    BY <2>1
  <2> QED BY <2>2 DEF NodeCode
<1> QED BY <1>1, <1>2, <1>3 DEF Ordered, Kinds

(* lower_node calls itself for the operands only. *)
LEMMA LowerNodeUnfold ==
  ASSUME Ordered(nodes)
  PROVE  LowerNode = [n \in 1 .. Len(nodes) |-> NodeCode(LowerNode, n)]
<1> DEFINE N == Len(nodes)
           Is(f, m) == f = [n \in 1 .. m |-> NodeCode(f, n)]
           S == {m \in Nat : m <= N => \E f : Is(f, m)}
<1>1. N \in Nat /\ DOMAIN nodes = 1 .. N  BY DEF Ordered
<1>2. 0 \in S
  <2> DEFINE f == [n \in 1 .. 0 |-> 0]
  <2>1. Is(f, 0)  OBVIOUS
  <2> QED BY <2>1
<1>3. \A m \in Nat : m \in S => m + 1 \in S
  <2> SUFFICES ASSUME NEW m \in Nat, m \in S, m + 1 <= N
               PROVE  \E g : Is(g, m + 1)
    BY <1>1
  <2>1. PICK f : Is(f, m)  BY <1>1
  <2> DEFINE g == [n \in 1 .. m + 1 |->
                     IF n <= m THEN f[n] ELSE NodeCode(f, n)]
  <2>2. Is(g, m + 1)
    <3> SUFFICES ASSUME NEW n \in 1 .. m + 1
                 PROVE  g[n] = NodeCode(g, n)
      OBVIOUS
    <3>1. n \in 1 .. N  BY <1>1
    <3>2. \A k \in 1 .. n - 1 : f[k] = g[k]  OBVIOUS
    <3>3. g[n] = NodeCode(f, n)  BY <2>1
    <3> HIDE DEF g, N
    <3>4. NodeCode(f, n) = NodeCode(g, n)
      BY <3>1, <3>2, NodeCodeOfChildren DEF N
    <3> QED BY <3>3, <3>4
  <2> HIDE DEF Is, g
  <2> QED BY <2>2
<1>4. N \in S
  <2> HIDE DEF S, N
  <2> QED BY <1>1, <1>2, <1>3, SetInduction
<1>5. Is(CHOOSE f : Is(f, N), N)
  <2> HIDE DEF Is, N
  <2> QED BY <1>1, <1>4
<1>6. LowerNode = CHOOSE f : Is(f, N)  BY <1>1 DEF LowerNode
<1> QED BY <1>5, <1>6

LEMMA LowerNodeIs ==
  ASSUME Ordered(nodes)
  PROVE  \A n \in 1 .. Len(nodes) : LowerNode[n] = CodeOf(LowerNode, n)
<1> SUFFICES ASSUME NEW n \in 1 .. Len(nodes)
             PROVE  NodeCode(LowerNode, n) = CodeOf(LowerNode, n)
  BY LowerNodeUnfold
<1> DEFINE kind == nodes[n].kind
<1>1. CASE kind \in Leaves
  BY <1>1, KindsDiffer DEF NodeCode, CodeOf, NodeInstruction, Opcode, Leaves,
     PoolTypes, Arithmetic, Divisions, Comparisons, Equalities
<1>2. CASE kind \in Unary
  BY <1>2, KindsDiffer DEF NodeCode, CodeOf, NodeInstruction, Opcode, Unary,
     Leaves, PoolTypes, Arithmetic, Divisions, Comparisons, Equalities
<1>3. CASE kind \in Binary
  <2>1. kind \notin Leaves \cup Unary  BY <1>3, KindsDiffer
  <2>2. kind \notin {"literal", "truth"} \cup PoolTypes
        /\ kind \notin {"parameter", "local"} /\ kind \notin {"neg", "normalize"}
    BY <2>1 DEF Leaves, Unary
  <2>3. CodeOf(LowerNode, n) = (LowerNode[nodes[n].left] \o LowerNode[nodes[n].right])
                         \o <<NodeInstruction(n)>>
    BY <1>3, <2>1 DEF CodeOf
  <2>4. CASE kind \in Arithmetic
    <3>1. kind \notin Comparisons  BY <2>4, KindsDiffer
    <3>2. NodeCode(LowerNode, n) = Operands(LowerNode[nodes[n].left], LowerNode[nodes[n].right])
                           \o <<Instruction(kind, nodes[n].type, nodes[n].value, n)>>
      BY <2>2, <2>4, <3>1 DEF NodeCode
    <3>3. <<Instruction(kind, nodes[n].type, nodes[n].value, n)>> = <<NodeInstruction(n)>>
      BY <2>2, <3>1 DEF NodeInstruction, Opcode
    <3> QED BY <2>3, <3>2, <3>3 DEF Operands
  <2>5. CASE kind \in Comparisons
    <3>1. kind \notin Arithmetic  BY <2>5, KindsDiffer
    <3>2. NodeCode(LowerNode, n) = Operands(LowerNode[nodes[n].left], LowerNode[nodes[n].right])
                           \o <<Instruction(kind, nodes[nodes[n].left].type, nodes[n].value, n)>>
      BY <2>2, <2>5, <3>1 DEF NodeCode
    <3>3. <<Instruction(kind, nodes[nodes[n].left].type, nodes[n].value, n)>> = <<NodeInstruction(n)>>
      BY <2>2, <2>5, SMTT(30) DEF NodeInstruction, Opcode
    <3> QED BY <2>3, <3>2, <3>3 DEF Operands
  <2> QED BY <1>3, <2>4, <2>5 DEF Binary
<1> QED BY <1>1, <1>2, <1>3 DEF Ordered, Kinds

StatementCode(before, k) ==
    before \o LowerNode[statements[k].expression]
           \o <<Ending(statements[k])>>

(* The code of the statements, one after another. *)
LEMMA LowerStatementsUnfold ==
  ASSUME Len(statements) \in Nat
  PROVE  LET f == LowerStatements
         IN  f = [k \in 0 .. Len(statements) |->
                    IF k = 0 THEN <<>> ELSE StatementCode(f[k - 1], k)]
<1> DEFINE Is(f, m) == f = [k \in 0 .. m |->
                              IF k = 0 THEN <<>> ELSE StatementCode(f[k - 1], k)]
           S == {m \in Nat : \E f : Is(f, m)}
<1>1. 0 \in S
  <2> DEFINE f == [k \in 0 .. 0 |-> <<>>]
  <2>1. Is(f, 0)  OBVIOUS
  <2> QED BY <2>1
<1>2. \A m \in Nat : m \in S => m + 1 \in S
  <2> TAKE m \in Nat
  <2> HAVE m \in S
  <2>1. PICK f : Is(f, m)  OBVIOUS
  <2> DEFINE g == [k \in 0 .. m + 1 |->
                     IF k <= m THEN f[k] ELSE StatementCode(f[m], k)]
  <2>2. Is(g, m + 1)
    <3> SUFFICES ASSUME NEW k \in 0 .. m + 1
                 PROVE  g[k] = IF k = 0 THEN <<>>
                               ELSE StatementCode(g[k - 1], k)
      OBVIOUS
    <3>1. CASE k = 0  BY <3>1, <2>1
    <3>2. CASE k \in 1 .. m
      <4>1. g[k] = f[k] /\ g[k - 1] = f[k - 1]  BY <3>2
      <4>2. f[k] = StatementCode(f[k - 1], k)  BY <3>2, <2>1
      <4> HIDE DEF g
      <4> QED BY <3>2, <4>1, <4>2
    <3>3. CASE k = m + 1
      <4>1. g[k] = StatementCode(f[m], k) /\ g[k - 1] = f[m]  BY <3>3
      <4> HIDE DEF g
      <4> QED BY <3>3, <4>1
    <3> QED BY <3>1, <3>2, <3>3
  <2> HIDE DEF Is, g
  <2> QED BY <2>2
<1>3. Len(statements) \in S
  <2> HIDE DEF S
  <2> QED BY <1>1, <1>2, SetInduction
<1>4. Is(CHOOSE f : Is(f, Len(statements)), Len(statements))
  <2> HIDE DEF Is
  <2> QED BY <1>3
<1> QED BY <1>4 DEF LowerStatements, StatementCode
(* The types on the stack, instruction after instruction. *)
LEMMA StackTypesUnfold ==
  ASSUME NEW instructions, Len(instructions) \in Nat
  PROVE  LET f == StackTypes(instructions)
         IN  f = [k \in 0 .. Len(instructions) |->
                    IF k = 0 THEN <<>> ELSE After(f[k - 1], instructions[k])]
<1> DEFINE Is(f, m) == f = [k \in 0 .. m |->
                              IF k = 0 THEN <<>> ELSE After(f[k - 1], instructions[k])]
           S == {m \in Nat : \E f : Is(f, m)}
<1>1. 0 \in S
  <2> DEFINE f == [k \in 0 .. 0 |-> <<>>]
  <2>1. Is(f, 0)  OBVIOUS
  <2> QED BY <2>1
<1>2. \A m \in Nat : m \in S => m + 1 \in S
  <2> TAKE m \in Nat
  <2> HAVE m \in S
  <2>1. PICK f : Is(f, m)  OBVIOUS
  <2> DEFINE g == [k \in 0 .. m + 1 |->
                     IF k <= m THEN f[k] ELSE After(f[m], instructions[k])]
  <2>2. Is(g, m + 1)
    <3> SUFFICES ASSUME NEW k \in 0 .. m + 1
                 PROVE  g[k] = IF k = 0 THEN <<>>
                               ELSE After(g[k - 1], instructions[k])
      OBVIOUS
    <3>1. CASE k = 0  BY <3>1, <2>1
    <3>2. CASE k \in 1 .. m
      <4>1. g[k] = f[k] /\ g[k - 1] = f[k - 1]  BY <3>2
      <4>2. f[k] = After(f[k - 1], instructions[k])  BY <3>2, <2>1
      <4> HIDE DEF g
      <4> QED BY <3>2, <4>1, <4>2
    <3>3. CASE k = m + 1
      <4>1. g[k] = After(f[m], instructions[k]) /\ g[k - 1] = f[m]  BY <3>3
      <4> HIDE DEF g
      <4> QED BY <3>3, <4>1
    <3> QED BY <3>1, <3>2, <3>3
  <2> HIDE DEF Is, g
  <2> QED BY <2>2
<1>3. Len(instructions) \in S
  <2> HIDE DEF S
  <2> QED BY <1>1, <1>2, SetInduction
<1>4. Is(CHOOSE f : Is(f, Len(instructions)), Len(instructions))
  <2> HIDE DEF Is
  <2> QED BY <1>3
<1> QED BY <1>4 DEF StackTypes

(* The nodes whose values are on the stack                                 *)
(*                                                                         *)
(* A walk says of which nodes the words on the stack are, after each       *)
(* instruction of a code.                                                  *)
NodeMoves(s, n, t) ==
    CASE nodes[n].kind \in Leaves -> t = Append(s, n)
      [] nodes[n].kind \in Unary ->
           \E r \in Seq(Nat) : s = Append(r, nodes[n].left) /\ t = Append(r, n)
      [] nodes[n].kind \in Binary ->
           \E r \in Seq(Nat) :
              /\ s = Append(Append(r, nodes[n].left), nodes[n].right)
              /\ t = Append(r, n)

Walk(w, c, b, s, t) ==
    /\ w \in [0 .. Len(c) -> Seq(Nat)]
    /\ w[0] = s /\ w[Len(c)] = t
    /\ \A k \in 1 .. Len(c) : NodeMoves(w[k - 1], c[k].place, w[k])
    /\ \A k \in 0 .. Len(c) : Len(w[k]) <= Len(s) + k /\ Extends(b, w[k])

(* A fault of an operand is the fault of the operation. *)
Propagates(M) ==
    \A n \in 1 .. Len(nodes) :
       LET left  == M[nodes[n].left]
           right == M[nodes[n].right]
       IN  /\ nodes[n].kind \in Unary \cup Binary /\ Len(left) = 2
                 => M[n] = left
           /\ nodes[n].kind \in Binary /\ Len(left) = 1 /\ Len(right) = 2
                 => M[n] = right

Sound(M, s) == \A i \in 1 .. Len(s) : Len(M[s[i]]) = 1

(* The first instruction that fails is what the expression n fails at. *)
Blames(w, c, n) ==
    \A M : \A k \in 1 .. Len(c) :
       /\ Propagates(M) /\ Sound(M, w[k - 1])
       /\ M[c[k].place] = <<"fault", c[k].place>>
       => M[n] = <<"fault", c[k].place>>

Appended(w, v, m, l) == [k \in 0 .. m + l |->
                           IF k <= m THEN w[k] ELSE v[k - m]]

LEMMA JoinedWalks ==
  ASSUME NEW S, NEW c \in Seq(S), NEW d \in Seq(S), NEW w, NEW v,
         NEW b \in Seq(Nat), NEW s, NEW t, NEW u,
         Walk(w, c, b, s, t), Walk(v, d, b, t, u)
  PROVE  LET j == Appended(w, v, Len(c), Len(d))
         IN  /\ Walk(j, c \o d, b, s, u)
             /\ \A k \in 0 .. Len(c) : j[k] = w[k]
             /\ \A k \in 0 .. Len(d) : j[Len(c) + k] = v[k]
<1> DEFINE j == Appended(w, v, Len(c), Len(d))
           e == c \o d
           m == Len(c)
           l == Len(d)
<1>1. /\ m \in Nat /\ l \in Nat /\ Len(e) = m + l
      /\ \A k \in 1 .. m : e[k] = c[k]
      /\ \A k \in 1 .. l : e[m + k] = d[k]
  OBVIOUS
<1>2. /\ w \in [0 .. m -> Seq(Nat)] /\ w[0] = s /\ w[m] = t
      /\ v \in [0 .. l -> Seq(Nat)] /\ v[0] = t /\ v[l] = u
      /\ \A k \in 1 .. m : NodeMoves(w[k - 1], c[k].place, w[k])
      /\ \A k \in 0 .. m : Len(w[k]) <= Len(s) + k /\ Extends(b, w[k])
      /\ \A k \in 1 .. l : NodeMoves(v[k - 1], d[k].place, v[k])
      /\ \A k \in 0 .. l : Len(v[k]) <= Len(t) + k /\ Extends(b, v[k])
  BY DEF Walk
<1> HIDE DEF m, l, e
<1>3. j = [k \in 0 .. m + l |-> IF k <= m THEN w[k] ELSE v[k - m]]
  BY DEF Appended, m, l
<1> HIDE DEF j
<1>4. \A k \in 0 .. m : j[k] = w[k]  BY <1>1, <1>3
<1>5. ASSUME NEW k \in 0 .. l
      PROVE  j[m + k] = v[k]
  <2>1. CASE k = 0  BY <1>1, <1>2, <1>3, <2>1
  <2>2. CASE k # 0
    <3>1. k \in Int /\ 1 <= k /\ k <= l  BY <1>1, <2>2
    <3>2. m + k \in 0 .. m + l /\ ~ (m + k <= m) /\ m + k - m = k
      BY <1>1, <3>1
    <3>3. ASSUME NEW q \in 0 .. m + l, ~ (q <= m)
          PROVE  j[q] = v[q - m]
      BY <1>3, <3>3
    <3> DEFINE q == m + k
    <3>4. q \in 0 .. m + l /\ ~ (q <= m) /\ q - m = k  BY <1>1, <3>1, <3>2
    <3> HIDE DEF q
    <3>5. j[q] = v[k]  BY <3>3, <3>4
    <3> QED BY <3>5 DEF q
  <2> QED BY <2>1, <2>2
<1>6. \A k \in 0 .. m + l : k \in 0 .. m \/ \E i \in 1 .. l : k = m + i
  <2> TAKE k \in 0 .. m + l
  <2>1. CASE k > m
    <3>1. k - m \in 1 .. l /\ k = m + (k - m)  BY <1>1, <2>1
    <3> QED BY <3>1
  <2> QED BY <1>1, <2>1
<1>7. j \in [0 .. m + l -> Seq(Nat)]
  <2>1. ASSUME NEW k \in 0 .. m + l
        PROVE  j[k] \in Seq(Nat)
    <3>1. CASE k \in 0 .. m  BY <1>2, <1>4, <3>1
    <3>2. ASSUME NEW i \in 1 .. l, k = m + i
          PROVE  j[k] \in Seq(Nat)
      <4>1. i \in 0 .. l  BY <1>1
      <4>2. j[k] = v[i]  BY <1>5, <3>2, <4>1
      <4> QED BY <1>2, <4>1, <4>2
    <3> QED BY <1>6, <3>1, <3>2
  <2> QED BY <1>3, <2>1
<1>8. j[0] = s /\ j[m + l] = u  BY <1>1, <1>2, <1>4, <1>5
<1>9. ASSUME NEW k \in 1 .. m + l
      PROVE  NodeMoves(j[k - 1], e[k].place, j[k])
  <2>1. CASE k \in 1 .. m
    <3>1. k - 1 \in 0 .. m /\ k \in 0 .. m  BY <1>1, <2>1
    <3> QED BY <1>1, <1>2, <1>4, <2>1, <3>1
  <2>2. ASSUME NEW i \in 1 .. l, k = m + i
        PROVE  NodeMoves(j[k - 1], e[k].place, j[k])
    <3>1. k - 1 = m + (i - 1) /\ i - 1 \in 0 .. l /\ i \in 0 .. l
      BY <1>1, <2>2
    <3>2. j[k - 1] = v[i - 1] /\ j[k] = v[i] /\ e[k] = d[i]
      BY <1>1, <1>5, <2>2, <3>1
    <3> QED BY <1>2, <3>2
  <2> QED BY <1>1, <1>6, <2>1, <2>2
<1>10. ASSUME NEW k \in 0 .. m + l
       PROVE  Len(j[k]) <= Len(s) + k /\ Extends(b, j[k])
  <2>1. CASE k \in 0 .. m  BY <1>2, <1>4, <2>1
  <2>2. ASSUME NEW i \in 1 .. l, k = m + i
        PROVE  Len(j[k]) <= Len(s) + k /\ Extends(b, j[k])
    <3>1. i \in 0 .. l /\ 0 \in 0 .. m /\ m \in 0 .. m  BY <1>1
    <3>2. j[k] = v[i]  BY <1>5, <2>2, <3>1
    <3>3. /\ Len(v[i]) <= Len(t) + i /\ Extends(b, v[i])
          /\ Len(t) <= Len(s) + m
      BY <1>2, <3>1
    <3>4. Len(v[i]) \in Nat /\ Len(t) \in Nat /\ Len(s) \in Nat
      BY <1>2, <3>1
    <3> QED BY <1>1, <2>2, <3>2, <3>3, <3>4
  <2> QED BY <1>6, <2>1, <2>2
<1>11. Walk(j, e, b, s, u)  BY <1>1, <1>7, <1>8, <1>9, <1>10 DEF Walk
<1> QED BY <1>4, <1>5, <1>11 DEF j, e, m, l

LEMMA WalkOnLess ==
  ASSUME NEW w, NEW c, NEW a \in Seq(Nat), NEW b \in Seq(Nat), NEW s, NEW t,
         Len(c) \in Nat, Walk(w, c, b, s, t), Extends(a, b)
  PROVE  Walk(w, c, a, s, t)
<1>1. ASSUME NEW k \in 0 .. Len(c)
      PROVE  Extends(a, w[k])
  <2>1. w[k] \in Seq(Nat) /\ Extends(b, w[k])  BY DEF Walk
  <2>2. Len(a) \in Nat /\ Len(b) \in Nat /\ Len(w[k]) \in Nat  BY <2>1
  <2> QED BY <2>1, <2>2, ExtendsFurther
<1> QED BY <1>1 DEF Walk

(* The walk over one instruction. *)
Hop(s, t) == [k \in 0 .. 1 |-> IF k = 0 THEN s ELSE t]

LEMMA HopWalks ==
  ASSUME NEW b \in Seq(Nat), NEW s \in Seq(Nat), NEW t \in Seq(Nat), NEW n,
         NodeMoves(s, n, t), Extends(b, s), Extends(b, t),
         Len(t) <= Len(s) + 1
  PROVE  Walk(Hop(s, t), <<NodeInstruction(n)>>, b, s, t)
<1> DEFINE c == <<NodeInstruction(n)>>
           w == Hop(s, t)
<1>1. Len(c) = 1 /\ c[1].place = n  BY DEF NodeInstruction, Instruction
<1>2. w \in [0 .. 1 -> Seq(Nat)] /\ w[0] = s /\ w[1] = t  BY DEF Hop
<1> HIDE DEF c, w
<1>3. \A k \in 1 .. 1 : NodeMoves(w[k - 1], c[k].place, w[k])
  <2> SUFFICES NodeMoves(w[1 - 1], c[1].place, w[1])
    OBVIOUS
  <2>1. w[1 - 1] = s  BY <1>2
  <2> QED BY <1>1, <1>2, <2>1
<1>4. \A k \in 0 .. 1 : Len(w[k]) <= Len(s) + k /\ Extends(b, w[k])
  <2>1. Len(w[0]) <= Len(s) + 0 /\ Extends(b, w[0])  BY <1>2
  <2>2. Len(w[1]) <= Len(s) + 1 /\ Extends(b, w[1])  BY <1>2
  <2> QED BY <2>1, <2>2
<1>5. Walk(w, c, b, s, t)  BY <1>1, <1>2, <1>3, <1>4 DEF Walk
<1> QED BY <1>5 DEF c, w

LEMMA AppendedIsLonger ==
  ASSUME NEW s \in Seq(Nat), NEW n \in Nat
  PROVE  /\ Append(s, n) \in Seq(Nat) /\ Len(Append(s, n)) = Len(s) + 1
         /\ Extends(s, s) /\ Extends(s, Append(s, n))
BY DEF Extends

(* What the code of a node does: it leaves the node on top of the stack,   *)
(* touches nothing below, and its first fault is the fault of the node.    *)
NodeInstructions(n) == {NodeInstruction(m) : m \in 1 .. n}
NodeWalks(n) ==
    LET c == LowerNode[n]
    IN  /\ c \in Seq(NodeInstructions(n))
        /\ Len(c) = Size(nodes)[n]
        /\ \A s \in Seq(Nat) : \E w : /\ Walk(w, c, s, s, Append(s, n))
                                      /\ Blames(w, c, n)

LEMMA LeafWalks ==
  ASSUME Ordered(nodes), NEW n \in 1 .. Len(nodes), nodes[n].kind \in Leaves
  PROVE  NodeWalks(n)
<1> DEFINE c == LowerNode[n]
<1>1. c = <<NodeInstruction(n)>>  BY LowerNodeIs, KindsDiffer DEF CodeOf
<1>2. n \in Nat /\ n \in 1 .. n  BY DEF Ordered
<1>3. c \in Seq(NodeInstructions(n)) /\ Len(c) = 1
  BY <1>1, <1>2 DEF NodeInstructions
<1>4. Size(nodes)[n] = 1  BY SizeUnfold, KindsDiffer DEF SizeOf
<1> HIDE DEF c
<1>5. ASSUME NEW s \in Seq(Nat)
      PROVE  \E w : Walk(w, c, s, s, Append(s, n)) /\ Blames(w, c, n)
  <2> DEFINE w == Hop(s, Append(s, n))
             t == Append(s, n)
  <2>1. /\ t \in Seq(Nat) /\ Len(t) = Len(s) + 1
        /\ Extends(s, s) /\ Extends(s, t)
    BY <1>2, AppendedIsLonger
  <2>2. NodeMoves(s, n, t)  BY KindsDiffer DEF NodeMoves
  <2>3. Len(t) <= Len(s) + 1  BY <2>1
  <2> HIDE DEF t
  <2>4. Walk(Hop(s, t), c, s, s, t)  BY <1>1, <2>1, <2>2, <2>3, HopWalks
  <2>5. \A k \in 1 .. Len(c) : c[k].place = n
    BY <1>1 DEF NodeInstruction, Instruction
  <2>6. Blames(w, c, n)  BY <2>5 DEF Blames
  <2> QED BY <2>4, <2>6 DEF t
<1> QED BY <1>3, <1>4, <1>5 DEF NodeWalks, c

LEMMA UnaryWalks ==
  ASSUME Ordered(nodes), NEW n \in 1 .. Len(nodes), nodes[n].kind \in Unary,
         NodeWalks(nodes[n].left)
  PROVE  NodeWalks(n)
<1> DEFINE c == LowerNode[n]
           l == nodes[n].left
           d == LowerNode[l]
           e == <<NodeInstruction(n)>>
           size == Size(nodes)
<1>1. c = d \o e  BY LowerNodeIs, KindsDiffer DEF CodeOf
<1>2. n \in Nat /\ n \in 1 .. n /\ l \in 1 .. n - 1 /\ l \in Nat
  BY DEF Ordered
<1>3. /\ d \in Seq(NodeInstructions(l)) /\ Len(d) = size[l]
      /\ \A s \in Seq(Nat) : \E w : Walk(w, d, s, s, Append(s, l)) /\ Blames(w, d, l)
  BY DEF NodeWalks
<1>4. size[n] = 1 + size[l]
  <2>1. size[n] = SizeOf(size, nodes, n)  BY SizeUnfold
  <2>2. l \in 1 .. Len(nodes)  BY <1>2
  <2>3. size[l] \in Nat  BY <2>2, SizesArePositive
  <2> QED BY <2>1, <2>3, KindsDiffer DEF SizeOf
<1>5. NodeInstructions(l) \subseteq NodeInstructions(n)
      /\ NodeInstruction(n) \in NodeInstructions(n)
  BY <1>2 DEF NodeInstructions
<1> DEFINE S == NodeInstructions(n)
<1> HIDE DEF c, d, size, S
<1>6. d \in Seq(S)  BY <1>3, <1>5, SequenceOver DEF S
<1>7. e \in Seq(S) /\ Len(e) = 1 /\ e[1].place = n
  BY <1>5 DEF S, NodeInstruction, Instruction
<1> HIDE DEF e
<1>8. c \in Seq(S) /\ Len(c) = size[n] /\ Len(c) = Len(d) + 1
  <2>1. e \in Seq(S)  BY <1>7
  <2>2. d \o e \in Seq(S) /\ Len(d \o e) = Len(d) + Len(e) /\ Len(d) \in Nat
    BY <1>6, <2>1
  <2> QED BY <2>2, <1>1, <1>3, <1>4, <1>7
<1>9. ASSUME NEW s \in Seq(Nat)
      PROVE  \E w : Walk(w, c, s, s, Append(s, n)) /\ Blames(w, c, n)
  <2> DEFINE t == Append(s, l)
             u == Append(s, n)
  <2>1. /\ t \in Seq(Nat) /\ Len(t) = Len(s) + 1 /\ Extends(s, t)
        /\ u \in Seq(Nat) /\ Len(u) = Len(s) + 1 /\ Extends(s, u)
    BY <1>2, AppendedIsLonger
  <2>2. NodeMoves(t, n, u)  BY KindsDiffer DEF NodeMoves
  <2>3. Len(u) <= Len(t) + 1  BY <2>1
  <2>4. PICK w : Walk(w, d, s, s, t) /\ Blames(w, d, l)  BY <1>3
  <2> HIDE DEF t, u
  <2>5. Walk(Hop(t, u), e, s, t, u)  BY <2>1, <2>2, <2>3, HopWalks DEF e
  <2> DEFINE j == Appended(w, Hop(t, u), Len(d), Len(e))
  <2>6. Walk(j, c, s, s, u) /\ \A k \in 0 .. Len(d) : j[k] = w[k]
    <3> DEFINE v == Hop(t, u)
    <3>1. /\ Walk(v, e, s, t, u) /\ Walk(w, d, s, s, t)
          /\ d \in Seq(S) /\ e \in Seq(S)
      BY <1>6, <1>7, <2>4, <2>5
    <3> HIDE DEF v
    <3>2. LET a == Appended(w, v, Len(d), Len(e))
          IN  Walk(a, d \o e, s, s, u) /\ \A k \in 0 .. Len(d) : a[k] = w[k]
      BY <3>1, JoinedWalks
    <3> QED BY <1>1, <3>2 DEF v
  <2> HIDE DEF j
  <2>7. Blames(j, c, n)
    <3> SUFFICES ASSUME NEW M, NEW k \in 1 .. Len(c),
                        Propagates(M), Sound(M, j[k - 1]),
                        M[c[k].place] = <<"fault", c[k].place>>
                 PROVE  M[n] = <<"fault", c[k].place>>
      BY DEF Blames
    <3>1. Len(d) \in Nat  BY <1>6
    <3>2. CASE k \in 1 .. Len(d)
      <4>1. k - 1 \in 0 .. Len(d) /\ c[k] = d[k]
        BY <1>1, <1>6, <1>7, <3>1, <3>2
      <4>2. Sound(M, w[k - 1])  BY <2>6, <4>1
      <4>3. M[l] = <<"fault", d[k].place>>
        BY <2>4, <3>2, <4>1, <4>2 DEF Blames
      <4>4. Len(M[l]) = 2  BY <4>3
      <4> QED BY <4>1, <4>3, <4>4 DEF Propagates
    <3>3. CASE k = Len(d) + 1  BY <1>1, <1>6, <1>7, <3>1, <3>3
    <3> QED BY <1>8, <3>1, <3>2, <3>3
  <2> QED BY <2>6, <2>7 DEF u
<1> QED BY <1>8, <1>9 DEF NodeWalks, c, size, S

LEMMA BinaryWalks ==
  ASSUME Ordered(nodes), NEW n \in 1 .. Len(nodes), nodes[n].kind \in Binary,
         NodeWalks(nodes[n].left), NodeWalks(nodes[n].right)
  PROVE  NodeWalks(n)
<1> DEFINE c == LowerNode[n]
           l == nodes[n].left
           r == nodes[n].right
           d == LowerNode[l]
           e == LowerNode[r]
           f == <<NodeInstruction(n)>>
           size == Size(nodes)
<1>1. c = (d \o e) \o f  BY LowerNodeIs, KindsDiffer DEF CodeOf
<1>2. /\ n \in Nat /\ n \in 1 .. n
      /\ l \in 1 .. n - 1 /\ l \in Nat /\ r \in 1 .. n - 1 /\ r \in Nat
  BY DEF Ordered
<1>3. /\ d \in Seq(NodeInstructions(l)) /\ Len(d) = size[l]
      /\ \A s \in Seq(Nat) : \E w : Walk(w, d, s, s, Append(s, l)) /\ Blames(w, d, l)
  BY DEF NodeWalks
<1>4. /\ e \in Seq(NodeInstructions(r)) /\ Len(e) = size[r]
      /\ \A s \in Seq(Nat) : \E w : Walk(w, e, s, s, Append(s, r)) /\ Blames(w, e, r)
  BY DEF NodeWalks
<1>5. size[n] = 1 + size[l] + size[r] /\ size[l] \in Nat /\ size[r] \in Nat
  <2>1. size[n] = SizeOf(size, nodes, n)  BY SizeUnfold
  <2>2. l \in 1 .. Len(nodes) /\ r \in 1 .. Len(nodes)  BY <1>2
  <2>3. size[l] \in Nat /\ size[r] \in Nat  BY <2>2, SizesArePositive
  <2> QED BY <2>1, <2>3, KindsDiffer DEF SizeOf
<1>6. /\ NodeInstructions(l) \subseteq NodeInstructions(n)
      /\ NodeInstructions(r) \subseteq NodeInstructions(n)
      /\ NodeInstruction(n) \in NodeInstructions(n)
  BY <1>2 DEF NodeInstructions
<1> DEFINE S == NodeInstructions(n)
           g == d \o e
<1>7. f \in Seq(S) /\ Len(f) = 1 /\ f[1].place = n
  BY <1>6 DEF NodeInstruction, Instruction
<1> HIDE DEF c, d, e, f, size, S
<1>8. d \in Seq(S) /\ e \in Seq(S)  BY <1>3, <1>4, <1>6, SequenceOver DEF S
<1>9. /\ g \in Seq(S) /\ Len(g) = Len(d) + Len(e)
      /\ Len(d) \in Nat /\ Len(e) \in Nat
      /\ \A k \in 1 .. Len(d) : g[k] = d[k]
      /\ \A k \in 1 .. Len(e) : g[Len(d) + k] = e[k]
  BY <1>8
<1> HIDE DEF g
<1>10. /\ c \in Seq(S) /\ Len(c) = size[n] /\ Len(c) = Len(g) + 1
       /\ \A k \in 1 .. Len(g) : c[k] = g[k]
       /\ c[Len(g) + 1] = f[1]
  <2>1. g \in Seq(S) /\ f \in Seq(S) /\ c = g \o f
    BY <1>1, <1>7, <1>9 DEF g
  <2>2. /\ g \o f \in Seq(S) /\ Len(g \o f) = Len(g) + Len(f)
        /\ \A k \in 1 .. Len(g) : (g \o f)[k] = g[k]
        /\ \A k \in 1 .. Len(f) : (g \o f)[Len(g) + k] = f[k]
    BY <2>1
  <2>3. Len(c) = Len(g) + 1 /\ Len(g) + 1 = size[n]
    BY <2>1, <2>2, <1>3, <1>4, <1>5, <1>7, <1>9
  <2>4. c[Len(g) + 1] = f[1]
    <3>1. 1 \in 1 .. Len(f)  BY <1>7
    <3> QED BY <2>1, <2>2, <3>1
  <2> QED BY <2>1, <2>2, <2>3, <2>4
<1>11. ASSUME NEW s \in Seq(Nat)
       PROVE  \E w : Walk(w, c, s, s, Append(s, n)) /\ Blames(w, c, n)
  <2> DEFINE t == Append(s, l)
             u == Append(t, r)
             z == Append(s, n)
  <2>1. /\ t \in Seq(Nat) /\ Len(t) = Len(s) + 1 /\ Extends(s, t)
        /\ z \in Seq(Nat) /\ Len(z) = Len(s) + 1 /\ Extends(s, z)
    BY <1>2, AppendedIsLonger
  <2>2. NodeMoves(u, n, z)  BY KindsDiffer DEF NodeMoves
  <2>4. t[Len(s) + 1] = l /\ Len(s) \in Nat  OBVIOUS
  <2> HIDE DEF t, z
  <2>5. u \in Seq(Nat) /\ Len(u) = Len(t) + 1 /\ Extends(t, u)
    BY <1>2, <2>1, AppendedIsLonger
  <2>6. Extends(s, u) /\ Len(z) <= Len(u) + 1  BY <2>1, <2>5 DEF Extends
  <2>7. PICK v : Walk(v, d, s, s, t) /\ Blames(v, d, l)  BY <1>3 DEF t
  <2>8. PICK x : Walk(x, e, t, t, u) /\ Blames(x, e, r)  BY <1>4, <2>1
  <2> HIDE DEF u
  <2>9. Walk(x, e, s, t, u)  BY <1>9, <2>1, <2>8, WalkOnLess
  <2> DEFINE y == Hop(u, z)
  <2>10. Walk(y, f, s, u, z)  BY <2>1, <2>2, <2>5, <2>6, HopWalks DEF f
  <2> HIDE DEF y
  <2> DEFINE i == Appended(v, x, Len(d), Len(e))
             j == Appended(i, y, Len(g), Len(f))
  <2>11. /\ Walk(i, g, s, s, u)
         /\ \A k \in 0 .. Len(d) : i[k] = v[k]
         /\ \A k \in 0 .. Len(e) : i[Len(d) + k] = x[k]
    <3>1. /\ Walk(v, d, s, s, t) /\ Walk(x, e, s, t, u)
          /\ d \in Seq(S) /\ e \in Seq(S)
      BY <1>8, <2>7, <2>9
    <3> QED BY <3>1, JoinedWalks DEF g
  <2> HIDE DEF i
  <2>12. Walk(j, c, s, s, z) /\ \A k \in 0 .. Len(g) : j[k] = i[k]
    <3>1. /\ Walk(i, g, s, s, u) /\ Walk(y, f, s, u, z)
          /\ g \in Seq(S) /\ f \in Seq(S)
      BY <1>7, <1>9, <2>10, <2>11
    <3>2. Walk(j, g \o f, s, s, z) /\ \A k \in 0 .. Len(g) : j[k] = i[k]
      BY <3>1, JoinedWalks
    <3> QED BY <3>2, <1>1 DEF g
  <2> HIDE DEF j
  <2>13. Blames(j, c, n)
    <3> SUFFICES ASSUME NEW M, NEW k \in 1 .. Len(c),
                        Propagates(M), Sound(M, j[k - 1]),
                        M[c[k].place] = <<"fault", c[k].place>>
                 PROVE  M[n] = <<"fault", c[k].place>>
      BY DEF Blames
    <3>1. CASE k \in 1 .. Len(d)
      <4>1. /\ k - 1 \in 0 .. Len(d) /\ k - 1 \in 0 .. Len(g)
            /\ c[k] = d[k]
        BY <1>9, <1>10, <3>1
      <4>2. Sound(M, v[k - 1])  BY <2>11, <2>12, <4>1
      <4>3. M[l] = <<"fault", d[k].place>>
        BY <2>7, <3>1, <4>1, <4>2 DEF Blames
      <4>4. Len(M[l]) = 2  BY <4>3
      <4> QED BY <4>1, <4>3, <4>4 DEF Propagates
    <3>2. ASSUME NEW q \in 1 .. Len(e), k = Len(d) + q
          PROVE  M[n] = <<"fault", c[k].place>>
      <4>1. /\ q - 1 \in 0 .. Len(e) /\ k - 1 \in 0 .. Len(g)
            /\ k - 1 = Len(d) + (q - 1) /\ c[k] = e[q]
        BY <1>9, <1>10, <3>2
      <4>2. j[k - 1] = x[q - 1]  BY <2>11, <2>12, <4>1
      <4>3. Sound(M, x[q - 1])  BY <4>2
      <4>4. M[r] = <<"fault", e[q].place>>  BY <2>8, <4>1, <4>3 DEF Blames
      <4>5. Len(M[l]) = 1
        <5>1. Extends(t, x[q - 1]) /\ x[q - 1] \in Seq(Nat)
          BY <2>8, <4>1 DEF Walk
        <5> DEFINE h == x[q - 1]
        <5>2. h \in Seq(Nat) /\ Len(h) \in Nat /\ Sound(M, h)  BY <4>3, <5>1
        <5>3. Len(t) <= Len(h) /\ \A a \in 1 .. Len(t) : h[a] = t[a]
          BY <5>1 DEF Extends
        <5> HIDE DEF h
        <5>4. Len(s) + 1 \in 1 .. Len(h) /\ Len(s) + 1 \in 1 .. Len(t)
          BY <2>1, <2>4, <5>2, <5>3
        <5>5. h[Len(s) + 1] = l  BY <2>4, <5>3, <5>4
        <5> QED BY <5>2, <5>4, <5>5 DEF Sound
      <4>6. Len(M[r]) = 2  BY <4>4
      <4> QED BY <4>1, <4>4, <4>5, <4>6 DEF Propagates
    <3>3. CASE k = Len(g) + 1  BY <1>7, <1>10, <3>3
    <3>4. k \in 1 .. Len(d) \/ k = Len(g) + 1
          \/ \E q \in 1 .. Len(e) : k = Len(d) + q
      <4>1. CASE k > Len(d) /\ k <= Len(g)
        <5>1. k - Len(d) \in 1 .. Len(e) /\ k = Len(d) + (k - Len(d))
          BY <1>9, <4>1
        <5> QED BY <5>1
      <4> QED BY <1>9, <1>10, <4>1, SMTT(30)
    <3> QED BY <3>1, <3>2, <3>3, <3>4
  <2> QED BY <2>12, <2>13 DEF z
<1> QED BY <1>10, <1>11 DEF NodeWalks, c, size, S

LEMMA EveryNodeWalks ==
  ASSUME Ordered(nodes)
  PROVE  \A n \in 1 .. Len(nodes) : NodeWalks(n)
<1> DEFINE S == {k \in Nat : \A n \in 1 .. Len(nodes) : n <= k => NodeWalks(n)}
<1>1. Len(nodes) \in Nat  BY DEF Ordered
<1>2. 0 \in S  OBVIOUS
<1>3. \A k \in Nat : k \in S => k + 1 \in S
  <2> SUFFICES ASSUME NEW k \in Nat, k \in S
               PROVE  \A n \in 1 .. Len(nodes) : n <= k + 1 => NodeWalks(n)
    <3>1. \A k \in Nat : k + 1 \in Nat  OBVIOUS
    <3> QED BY <3>1, Zenon
  <2> SUFFICES ASSUME NEW n \in 1 .. Len(nodes), n = k + 1
               PROVE  NodeWalks(n)
    <3>1. \A n \in 1 .. Len(nodes) : n <= k + 1 => n <= k \/ n = k + 1
      BY <1>1
    <3> QED BY <3>1
  <2>1. ASSUME NEW m \in 1 .. n - 1
        PROVE  NodeWalks(m)
    <3>1. m \in 1 .. Len(nodes) /\ m <= k  BY <1>1
    <3> QED BY <3>1
  <2>2. /\ nodes[n].kind \in Kinds
        /\ nodes[n].kind \in Unary \cup Binary => nodes[n].left \in 1 .. n - 1
        /\ nodes[n].kind \in Binary => nodes[n].right \in 1 .. n - 1
    BY DEF Ordered
  <2> QED BY <2>1, <2>2, LeafWalks, UnaryWalks, BinaryWalks DEF Kinds
<1>4. Len(nodes) \in S
  <2> HIDE DEF S
  <2> QED BY <1>1, <1>2, <1>3, SetInduction
<1> QED BY <1>1, <1>4

(* The walk over the code of the statements: which nodes are on the stack  *)
(* and how many statements are done.                                       *)
State(held, done) == [held |-> held, done |-> done]
States == [held : Seq(Nat), done : Nat]
Emitted == {NodeInstruction(n) : n \in 1 .. Len(nodes)}
           \cup {Ending(statements[i]) : i \in 1 .. Len(statements)}

(* The instruction i is of a node of the statement being done. *)
Within(a, i, b) ==
    LET e == statements[a.done + 1].expression
    IN  /\ i.place \in 1 .. e /\ i = NodeInstruction(i.place)
        /\ NodeMoves(a.held, i.place, b.held)
        /\ b.done = a.done
        /\ \A M : Propagates(M) /\ Sound(M, a.held)
                  /\ M[i.place] = <<"fault", i.place>>
                  => M[e] = <<"fault", i.place>>

(* It ends the statement. *)
Ends(a, i, b) ==
    /\ i = Ending(statements[a.done + 1])
    /\ a.held = <<statements[a.done + 1].expression>>
    /\ b = State(<<>>, a.done + 1)

Follows(a, i, b) ==
    /\ a.done + 1 \in 1 .. Len(statements)
    /\ Within(a, i, b) \/ Ends(a, i, b)

Line(w, c, j) ==
    /\ w \in [0 .. Len(c) -> States]
    /\ w[0] = State(<<>>, 0) /\ w[Len(c)] = State(<<>>, j)
    /\ \A k \in 1 .. Len(c) : Follows(w[k - 1], c[k], w[k])
    /\ \A k \in 0 .. Len(c) : Len(w[k].held) <= MaxNodes

(* The line of a statement, after that of the statements before it. *)
Continued(v, x, m, l, j) ==
    [k \in 0 .. m + l + 1 |->
       IF k <= m THEN v[k]
       ELSE IF k <= m + l THEN State(x[k - m], j - 1) ELSE State(<<>>, j)]

LEMMA ContinuedLine ==
  ASSUME MaxNodes \in Nat, NEW j \in 1 .. Len(statements), NEW S,
         NEW c \in Seq(S), NEW d \in Seq(S), NEW v, NEW x,
         Line(v, c, j - 1),
         LET e == statements[j].expression
         IN  /\ e \in Nat
             /\ d \in Seq(NodeInstructions(e)) /\ Len(d) <= MaxNodes
             /\ Walk(x, d, <<>>, <<>>, <<e>>) /\ Blames(x, d, e),
         NEW f \in Seq(S), f = (c \o d) \o <<Ending(statements[j])>>
  PROVE  Line(Continued(v, x, Len(c), Len(d), j), f, j)
<1> DEFINE m == Len(c)
           l == Len(d)
           e == statements[j].expression
           i == Ending(statements[j])
           y == Continued(v, x, m, l, j)
<1>1. /\ m \in Nat /\ l \in Nat /\ Len(f) = m + l + 1
      /\ \A k \in 1 .. m : f[k] = c[k]
      /\ \A k \in 1 .. l : f[m + k] = d[k]
      /\ f[m + l + 1] = i
  BY SMTT(30)
<1>2. /\ v \in [0 .. m -> States] /\ v[0] = State(<<>>, 0)
      /\ v[m] = State(<<>>, j - 1)
      /\ \A k \in 1 .. m : Follows(v[k - 1], c[k], v[k])
      /\ \A k \in 0 .. m : Len(v[k].held) <= MaxNodes
  BY DEF Line
<1>3. /\ x \in [0 .. l -> Seq(Nat)] /\ x[0] = <<>> /\ x[l] = <<e>>
      /\ \A k \in 1 .. l : NodeMoves(x[k - 1], d[k].place, x[k])
      /\ \A k \in 0 .. l : Len(x[k]) <= k
      /\ l <= MaxNodes /\ e \in Nat
  <2>1. \A k \in 0 .. l : Len(x[k]) <= Len(<<>>) + k  BY DEF Walk
  <2>2. \A k \in 0 .. l : Len(x[k]) <= k  BY <2>1, <1>1
  <2> QED BY <2>2 DEF Walk
<1>4. \A k \in 1 .. l : /\ d[k].place \in 1 .. e
                        /\ d[k] = NodeInstruction(d[k].place)
  BY DEF NodeInstructions, NodeInstruction, Instruction
<1>5. j \in Nat /\ j - 1 \in Nat /\ j - 1 + 1 = j  OBVIOUS
<1>6. Blames(x, d, e)  OBVIOUS
<1> HIDE DEF m, l, e, i
<1>7. y = [k \in 0 .. m + l + 1 |->
             IF k <= m THEN v[k]
             ELSE IF k <= m + l THEN State(x[k - m], j - 1) ELSE State(<<>>, j)]
  BY DEF Continued
<1> HIDE DEF y
<1>8. \A k \in 0 .. m : y[k] = v[k]  BY <1>1, <1>7
<1>9. ASSUME NEW k \in 0 .. l
      PROVE  y[m + k] = State(x[k], j - 1)
  <2>1. CASE k = 0
    <3>1. m + k = m /\ m \in 0 .. m  BY <1>1, <2>1
    <3>2. y[m] = State(x[0], j - 1)  BY <1>2, <1>3, <1>8, <3>1
    <3> QED BY <2>1, <3>1, <3>2
  <2>2. CASE k # 0
    <3>1. ASSUME NEW q \in 0 .. m + l + 1, ~ (q <= m), q <= m + l
          PROVE  y[q] = State(x[q - m], j - 1)
      BY <1>7, <3>1
    <3>2. k \in Int /\ 1 <= k /\ k <= l  BY <1>1, <2>2
    <3> DEFINE q == m + k
    <3>3. q \in 0 .. m + l + 1 /\ ~ (q <= m) /\ q <= m + l /\ q - m = k
      BY <1>1, <3>2
    <3> HIDE DEF q
    <3>4. y[q] = State(x[k], j - 1)  BY <3>1, <3>3
    <3> QED BY <3>4 DEF q
  <2> QED BY <2>1, <2>2
<1>10. y[m + l + 1] = State(<<>>, j)  BY <1>1, <1>7
<1>11. \A k \in 0 .. m + l + 1 :
          k \in 0 .. m \/ k = m + l + 1 \/ \E q \in 1 .. l : k = m + q
  <2> TAKE k \in 0 .. m + l + 1
  <2>1. CASE k > m /\ k # m + l + 1
    <3>1. k - m \in 1 .. l /\ k = m + (k - m)  BY <1>1, <2>1
    <3> QED BY <3>1
  <2> QED BY <1>1, <2>1
<1>12. ASSUME NEW k \in 0 .. m + l + 1
       PROVE  y[k] \in States /\ Len(y[k].held) <= MaxNodes
  <2>1. CASE k \in 0 .. m  BY <1>2, <1>8, <2>1
  <2>2. CASE k = m + l + 1
    <3>1. State(<<>>, j) \in States  BY <1>5 DEF States, State
    <3>2. State(<<>>, j).held = <<>> /\ Len(<<>>) <= MaxNodes  BY DEF State
    <3> QED BY <1>10, <2>2, <3>1, <3>2
  <2>3. ASSUME NEW q \in 1 .. l, k = m + q
        PROVE  y[k] \in States /\ Len(y[k].held) <= MaxNodes
    <3>1. q \in 0 .. l /\ q <= MaxNodes /\ q \in Nat  BY <1>1, <1>3
    <3>2. y[k] = State(x[q], j - 1)  BY <1>9, <2>3, <3>1
    <3>3. x[q] \in Seq(Nat) /\ Len(x[q]) <= q  BY <1>3, <3>1
    <3>4. Len(x[q]) <= MaxNodes  BY <1>3, <3>1, <3>3
    <3> QED BY <1>5, <3>2, <3>3, <3>4 DEF States, State
  <2> QED BY <1>11, <2>1, <2>2, <2>3
<1>13. y[0] = State(<<>>, 0)  BY <1>1, <1>2, <1>8
<1>14. ASSUME NEW k \in 1 .. m + l + 1
       PROVE  Follows(y[k - 1], f[k], y[k])
  <2>1. CASE k \in 1 .. m
    <3>1. k - 1 \in 0 .. m /\ k \in 0 .. m  BY <1>1, <2>1
    <3> QED BY <1>1, <1>2, <1>8, <2>1, <3>1
  <2>2. CASE k = m + l + 1
    <3>1. l \in 0 .. l /\ k - 1 = m + l  BY <1>1, <2>2
    <3>2. y[k - 1] = State(<<e>>, j - 1)  BY <1>3, <1>9, <3>1
    <3>3. f[k] = i /\ y[k] = State(<<>>, j)  BY <1>1, <1>10, <2>2
    <3>4. Ends(State(<<e>>, j - 1), i, State(<<>>, j))
      BY <1>5 DEF Ends, State, i, e
    <3>5. Follows(State(<<e>>, j - 1), i, State(<<>>, j))
      BY <1>5, <3>4 DEF Follows, State
    <3> QED BY <3>2, <3>3, <3>5
  <2>3. ASSUME NEW q \in 1 .. l, k = m + q
        PROVE  Follows(y[k - 1], f[k], y[k])
    <3>1. k - 1 = m + (q - 1) /\ q - 1 \in 0 .. l /\ q \in 0 .. l
      BY <1>1, <2>3
    <3>2. y[k - 1] = State(x[q - 1], j - 1) /\ y[k] = State(x[q], j - 1)
      BY <1>9, <2>3, <3>1
    <3> DEFINE g == d[q]
               a == x[q - 1]
               b == x[q]
    <3>3. f[k] = g  BY <1>1, <2>3
    <3>4. g.place \in 1 .. e /\ g = NodeInstruction(g.place)  BY <1>4
    <3>5. NodeMoves(a, g.place, b)  BY <1>3
    <3>6. \A M : Propagates(M) /\ Sound(M, a)
                 /\ M[g.place] = <<"fault", g.place>>
                 => M[e] = <<"fault", g.place>>
      BY <1>6 DEF Blames, l
    <3> HIDE DEF g, a, b
    <3>7. Within(State(a, j - 1), g, State(b, j - 1))
      BY <1>5, <3>4, <3>5, <3>6 DEF Within, State, e
    <3>8. Follows(State(a, j - 1), g, State(b, j - 1))
      BY <1>5, <3>7 DEF Follows, State
    <3> QED BY <3>2, <3>3, <3>8 DEF a, b
  <2> QED BY <1>1, <1>11, <2>1, <2>2, <2>3
<1>16. y \in [0 .. m + l + 1 -> States]  BY <1>7, <1>12
<1> QED BY <1>1, <1>10, <1>12, <1>13, <1>14, <1>16 DEF Line, y, m, l

HasLine(j) ==
    LET c == LowerStatements[j]
    IN  /\ c \in Seq(Emitted)
        /\ Len(c) <= End(j) + j
        /\ \E w : Line(w, c, j)

LEMMA StatementFacts ==
  ASSUME ParserInv, NEW i \in 1 .. Len(statements)
  PROVE  /\ StatementInv(i) /\ End(i) = statements[i].expression
         /\ End(i) \in 1 .. Len(nodes) /\ End(i) \in Nat /\ End(i - 1) \in Nat
         /\ Size(nodes)[End(i)] \in Nat \ {0}
         /\ Size(nodes)[End(i)] <= End(i) - End(i - 1)
         /\ End(i) <= MaxNodes
<1>1. \A k \in 1 .. Len(statements) : StatementInv(k)
  BY DEF ParserInv, StatementsInv
<1>2. \A k \in 1 .. Len(statements) :
         End(k) = statements[k].expression /\ End(k) \in 1 .. Len(nodes)
  BY <1>1 DEF StatementInv, End
<1>3. Len(nodes) \in Nat /\ Ordered(nodes) /\ Len(statements) \in Nat
      /\ Len(nodes) <= MaxNodes /\ MaxNodes \in Nat
  BY ParserFacts
<1>4. End(i - 1) \in Nat
  <2>1. CASE i = 1  BY <2>1 DEF End
  <2>2. CASE i # 1
    <3>1. i - 1 \in 1 .. Len(statements)  BY <2>2, <1>3
    <3>2. End(i - 1) \in 1 .. Len(nodes)  BY <1>2, <3>1
    <3> QED BY <1>3, <3>2
  <2> QED BY <2>1, <2>2
<1>5. End(i) = statements[i].expression /\ End(i) \in 1 .. Len(nodes)
  BY <1>2
<1>6. Size(nodes)[End(i)] \in Nat \ {0}  BY <1>3, <1>5, SizesArePositive
<1>7. Size(nodes)[End(i)] <= End(i) - End(i - 1)
  BY <1>1, <1>5 DEF StatementInv
<1>8. End(i) \in Nat /\ End(i) <= MaxNodes  BY <1>3, <1>5
<1> QED BY <1>1, <1>4, <1>5, <1>6, <1>7, <1>8

LEMMA NextLine ==
  ASSUME ParserInv, NEW j \in 1 .. Len(statements), HasLine(j - 1)
  PROVE  HasLine(j)
<1> DEFINE e == statements[j].expression
           b == LowerStatements[j - 1]
           c == LowerStatements[j]
           d == LowerNode[e]
           i == Ending(statements[j])
           size == Size(nodes)[e]
           p == End(j - 1)
<1>1. /\ Len(statements) \in Nat /\ MaxNodes \in Nat /\ Len(nodes) \in Nat
      /\ Len(nodes) <= MaxNodes /\ Ordered(nodes)
  BY ParserFacts
<1>2. c = (b \o d) \o <<i>>
  <2>1. j \in 0 .. Len(statements) /\ j # 0  BY <1>1
  <2>2. c = StatementCode(b, j)  BY <1>1, <2>1, LowerStatementsUnfold
  <2> QED BY <2>2 DEF StatementCode
<1>3. /\ e \in 1 .. Len(nodes) /\ e \in Nat /\ End(j) = e /\ p \in Nat
      /\ size \in Nat \ {0} /\ size <= e - p /\ e <= MaxNodes
  BY StatementFacts
<1>4. NodeWalks(e)  BY <1>1, <1>3, EveryNodeWalks
<1>5. b \in Seq(Emitted) /\ Len(b) <= p + (j - 1)  BY DEF HasLine
<1>6. PICK v : Line(v, b, j - 1)  BY DEF HasLine
<1>7. d \in Seq(NodeInstructions(e)) /\ Len(d) = size  BY <1>4 DEF NodeWalks
<1>8. PICK x : Walk(x, d, <<>>, <<>>, Append(<<>>, e)) /\ Blames(x, d, e)
  <2>1. <<>> \in Seq(Nat)  OBVIOUS
  <2> QED BY <1>4, <2>1 DEF NodeWalks
<1>9. Append(<<>>, e) = <<e>>  OBVIOUS
<1>10. d \in Seq(Emitted)
  <2>1. NodeInstructions(e) \subseteq Emitted
    <3>1. \A n \in 1 .. e : n \in 1 .. Len(nodes)  BY <1>1, <1>3
    <3> QED BY <3>1 DEF Emitted, NodeInstructions
  <2> DEFINE T == Emitted
  <2> HIDE DEF T
  <2>2. \A k \in 1 .. Len(d) : d[k] \in T  BY <1>7, <2>1 DEF T
  <2>3. d \in Seq(T)  BY <1>7, <2>2, SequenceOver
  <2> QED BY <2>3 DEF T
<1>11. i \in Emitted  BY DEF Emitted
<1> DEFINE S == Emitted
<1> HIDE DEF b, c, d, i, S, size, p, e
<1>12. /\ c \in Seq(S) /\ Len(c) = Len(b) + Len(d) + 1
       /\ Len(b) \in Nat /\ Len(d) \in Nat
  <2>1. b \in Seq(S) /\ d \in Seq(S) /\ <<i>> \in Seq(S) /\ Len(<<i>>) = 1
    BY <1>5, <1>10, <1>11 DEF S
  <2>2. /\ b \o d \in Seq(S) /\ Len(b \o d) = Len(b) + Len(d)
        /\ Len(b) \in Nat /\ Len(d) \in Nat
    BY <2>1
  <2>3. (b \o d) \o <<i>> \in Seq(S)
        /\ Len((b \o d) \o <<i>>) = Len(b \o d) + Len(<<i>>)
    BY <2>1, <2>2
  <2> QED BY <1>2, <2>1, <2>2, <2>3
<1>13. Len(c) <= e + j
  <2>1. j \in Nat  BY <1>1
  <2> QED BY <1>3, <1>5, <1>7, <1>12, <2>1
<1>14. Len(d) <= MaxNodes  BY <1>1, <1>3, <1>7
<1>15. Line(Continued(v, x, Len(b), Len(d), j), c, j)
  <2>1. b \in Seq(S) /\ d \in Seq(S)  BY <1>5, <1>10 DEF S
  <2>3. /\ e \in Nat /\ d \in Seq(NodeInstructions(e)) /\ Len(d) <= MaxNodes
        /\ Walk(x, d, <<>>, <<>>, <<e>>) /\ Blames(x, d, e)
    BY <1>3, <1>7, <1>8, <1>9, <1>14
  <2>4. LET o == statements[j].expression
        IN  /\ o \in Nat
            /\ d \in Seq(NodeInstructions(o)) /\ Len(d) <= MaxNodes
            /\ Walk(x, d, <<>>, <<>>, <<o>>) /\ Blames(x, d, o)
    BY <2>3 DEF e
  <2>5. c = (b \o d) \o <<Ending(statements[j])>>  BY <1>2 DEF i
  <2> QED BY <1>1, <1>6, <1>12, <2>1, <2>4, <2>5, ContinuedLine
<1> QED BY <1>3, <1>12, <1>13, <1>15 DEF HasLine, c, S, e

LEMMA EveryLine ==
  ASSUME ParserInv
  PROVE  \A j \in 0 .. Len(statements) : HasLine(j)
<1>1. /\ Len(statements) \in Nat /\ MaxNodes \in Nat  BY ParserFacts
<1>2. HasLine(0)
  <2> DEFINE c == LowerStatements[0]
             w == [k \in 0 .. 0 |-> State(<<>>, 0)]
  <2>1. c = <<>>  BY <1>1, LowerStatementsUnfold
  <2>2. Len(c) = 0 /\ c \in Seq(Emitted) /\ End(0) = 0  BY <2>1 DEF End
  <2> HIDE DEF c
  <2>3. State(<<>>, 0) \in States /\ State(<<>>, 0).held = <<>>
    BY DEF States, State
  <2>4. w \in [0 .. Len(c) -> States] /\ w[0] = State(<<>>, 0)
    BY <2>2, <2>3
  <2>5. w[Len(c)] = State(<<>>, 0)  BY <2>2
  <2>6. \A k \in 0 .. Len(c) : Len(w[k].held) <= MaxNodes
    <3>1. \A k \in 0 .. 0 : w[k] = State(<<>>, 0)  OBVIOUS
    <3>2. Len(<<>>) <= MaxNodes  BY <1>1
    <3> HIDE DEF w
    <3> QED BY <2>2, <2>3, <3>1, <3>2
  <2>7. 1 .. Len(c) = {}  BY <2>2
  <2> HIDE DEF w
  <2>8. Line(w, c, 0)  BY <2>4, <2>5, <2>6, <2>7 DEF Line
  <2> QED BY <2>2, <2>8 DEF HasLine, c
<1> DEFINE S == {k \in Nat : k <= Len(statements) => HasLine(k)}
<1>3. 0 \in S  BY <1>2, Zenon
<1>4. \A k \in Nat : k \in S => k + 1 \in S
  <2>1. ASSUME NEW k \in Nat, k \in S, k + 1 <= Len(statements)
        PROVE  HasLine(k + 1)
    <3> DEFINE j == k + 1
    <3>1. j \in 1 .. Len(statements) /\ j - 1 = k /\ k <= Len(statements)
      BY <1>1, <2>1
    <3>2. HasLine(k)  BY <2>1, <3>1
    <3> HIDE DEF j, S
    <3>3. HasLine(j)  BY <3>1, <3>2, NextLine
    <3> QED BY <3>3 DEF j
  <2>2. \A k \in Nat : k + 1 \in Nat  OBVIOUS
  <2> QED BY <2>1, <2>2, Zenon
<1>5. Nat \subseteq S
  <2> HIDE DEF S
  <2> QED BY <1>3, <1>4, SetInduction
<1> QED BY <1>1, <1>5

(* The types validate_block_stack finds are those of the nodes held *)
Known == 1 .. Len(nodes)
TypesOf(held) == [k \in 1 .. Len(held) |-> nodes[held[k]].type]

LEMMA AfterPush ==
  ASSUME NEW types, NEW i, i.opcode = "push", types # <<"invalid">>,
         Len(types) < MaxNodes,
         i.type \in PoolTypes => /\ i.value <= Len(pool)
                                 /\ pool[i.value].type = i.type,
         i.type \notin PoolTypes => Canonical(i.type, i.value)
  PROVE  After(types, i) = Append(types, i.type)
<1>0. i.opcode \notin Arithmetic \cup Comparisons
  BY DEF Arithmetic, Divisions, Comparisons, Equalities
<1>1. CASE i.type \in PoolTypes  BY <1>0, <1>1 DEF After, Canonical
<1>2. CASE i.type \notin PoolTypes  BY <1>0, <1>2 DEF After, Canonical
<1> QED BY <1>1, <1>2

LEMMA AfterRead ==
  ASSUME NEW types, NEW i, types # <<"invalid">>, Len(types) < MaxNodes,
         \/ /\ i.opcode = "parameter" /\ i.value <= ParameterCount
            /\ signature.parameters[i.value] = i.type
         \/ /\ i.opcode = "local" /\ i.value <= local_count
            /\ signature.locals[i.value] = i.type
  PROVE  After(types, i) = Append(types, i.type)
<1>0. i.opcode \notin Arithmetic \cup Comparisons
  BY DEF Arithmetic, Divisions, Comparisons, Equalities
<1>1. CASE i.opcode = "parameter"  BY <1>0, <1>1 DEF After
<1>2. CASE i.opcode = "local"  BY <1>0, <1>2 DEF After
<1> QED BY <1>1, <1>2

LEMMA AfterEnding ==
  ASSUME NEW types, NEW i, types # <<"invalid">>, types = <<i.type>>,
         \/ /\ i.opcode = "store" /\ i.value <= local_count
            /\ signature.locals[i.value] = i.type
         \/ i.opcode = "return" /\ i.type = signature.result
  PROVE  After(types, i) = <<>>
<1>1. i.opcode \notin Arithmetic \cup Comparisons
  BY DEF Arithmetic, Divisions, Comparisons, Equalities
<1> QED BY <1>1 DEF After

LEMMA AfterUnary ==
  ASSUME NEW types, NEW i, types # <<"invalid">>, Len(types) \in Nat \ {0},
         \/ /\ i.opcode = "neg" /\ i.type \in SignedTypes
            /\ types[Len(types)] = i.type
         \/ /\ i.opcode = "normalize" /\ i.type \in IntegerTypes
            /\ types[Len(types)] = "i32"
  PROVE  After(types, i) = IF i.opcode = "neg" THEN types
                           ELSE Append(SubSeq(types, 1, Len(types) - 1), i.type)
<1> DEFINE size == Len(types)
<1>1. \A k \in size - 1 + 1 .. size : types[k] = types[size]
  <2>1. \A k \in size - 1 + 1 .. size : k = size  OBVIOUS
  <2> QED BY <2>1
<1> HIDE DEF size
<1>2. size >= 1  BY DEF size
<1>3. /\ i.opcode \notin {"push", "parameter", "local", "store", "return"}
      /\ i.opcode \notin Arithmetic \cup Comparisons
  BY DEF Arithmetic, Divisions, Comparisons, Equalities
<1>4. CASE i.opcode = "neg"  BY <1>1, <1>2, <1>3, <1>4 DEF After, size
<1>5. CASE i.opcode = "normalize"  BY <1>1, <1>2, <1>3, <1>5 DEF After, size
<1> QED BY <1>4, <1>5

LEMMA AfterBinary ==
  ASSUME NEW types, NEW i, types # <<"invalid">>, Len(types) \in Nat,
         Len(types) >= 2, i.opcode \in Arithmetic \cup Comparisons,
         types[Len(types)] = i.type, types[Len(types) - 1] = i.type,
         SignFits(i.opcode, i.type)
  PROVE  After(types, i) = IF i.opcode \in Arithmetic
                           THEN SubSeq(types, 1, Len(types) - 1)
                           ELSE Append(SubSeq(types, 1, Len(types) - 2), "bool")
<1> DEFINE size == Len(types)
<1>1. \A k \in size - 2 + 1 .. size : types[k] = i.type
  <2>1. \A k \in size - 2 + 1 .. size : k = size \/ k = size - 1  OBVIOUS
  <2> QED BY <2>1
<1> HIDE DEF size
<1>2. size >= 2 /\ types[size] = i.type /\ types[size - 1] = i.type
  BY DEF size
<1>3. i.opcode \notin {"push", "parameter", "local", "store", "return", "neg",
                       "normalize"}
  BY DEF Arithmetic, Divisions, Comparisons, Equalities
<1>4. i.opcode \in Comparisons => i.opcode \notin Arithmetic  BY KindsDiffer
<1>5. /\ i.opcode \notin Equalities => i.type \in IntegerTypes
      /\ i.opcode \in {"div", "lt", "le", "gt", "ge"} => i.type \in SignedTypes
      /\ i.opcode \in {"div_u", "lt_u", "le_u", "gt_u", "ge_u"}
            => i.type \notin SignedTypes
  BY DEF SignFits
<1> QED BY <1>1, <1>2, <1>3, <1>4, <1>5 DEF After, size

LEMMA TypesOfHeld ==
  ASSUME ParserInv, NEW h \in Seq(Known)
  PROVE  /\ TypesOf(h) \in Seq(Types) /\ Len(TypesOf(h)) = Len(h)
         /\ TypesOf(h) # <<"invalid">>
         /\ \A k \in 1 .. Len(h) : TypesOf(h)[k] = nodes[h[k]].type
<1>1. /\ Len(h) \in Nat
      /\ \A k \in 1 .. Len(h) : h[k] \in Known
  OBVIOUS
<1>2. \A n \in Known : nodes[n].type \in Types
  <2>1. \A n \in Known : nodes[n] \in NodeRecords
    BY TableIsOrdered DEF Known, ParserInv
  <2> QED BY <2>1 DEF NodeRecords
<1>3. \A k \in 1 .. Len(h) : nodes[h[k]].type \in Types  BY <1>1, <1>2
<1>4. TypesOf(h) \in Seq(Types) /\ Len(TypesOf(h)) = Len(h)
  BY <1>1, <1>3 DEF TypesOf
<1>5. TypesOf(h) # <<"invalid">>
  <2>1. "invalid" \notin Types
    BY DEF Types, IntegerTypes, SignedTypes, UnsignedTypes, PoolTypes
  <2> DEFINE t == TypesOf(h)
             T == Types
  <2> HIDE DEF t, T
  <2>2. \A k \in 1 .. Len(t) : t[k] \in T  BY <1>4 DEF t, T
  <2>3. ASSUME t = <<"invalid">>
        PROVE  FALSE
    <3>1. 1 \in 1 .. Len(t) /\ t[1] = "invalid"  BY <2>3
    <3> QED BY <2>1, <2>2, <3>1 DEF T
  <2> QED BY <2>3 DEF t
<1> QED BY <1>4, <1>5 DEF TypesOf

LEMMA TypesOfAppended ==
  ASSUME ParserInv, NEW h \in Seq(Known), NEW n \in Known
  PROVE  LET t == TypesOf(Append(h, n))
         IN  /\ Append(h, n) \in Seq(Known) /\ Len(Append(h, n)) = Len(h) + 1
             /\ t = Append(TypesOf(h), nodes[n].type)
             /\ Len(t) = Len(h) + 1 /\ t[Len(t)] = nodes[n].type
             /\ SubSeq(t, 1, Len(t) - 1) = TypesOf(h)
<1> DEFINE g == Append(h, n)
           t == TypesOf(g)
           s == TypesOf(h)
           y == nodes[n].type
<1>1. /\ Len(h) \in Nat /\ g \in Seq(Known) /\ Len(g) = Len(h) + 1
      /\ g[Len(h) + 1] = n /\ \A k \in 1 .. Len(h) : g[k] = h[k]
  OBVIOUS
<1> HIDE DEF g
<1>2. /\ t \in Seq(Types) /\ Len(t) = Len(g)
      /\ \A k \in 1 .. Len(g) : t[k] = nodes[g[k]].type
  BY <1>1, TypesOfHeld
<1>3. /\ s \in Seq(Types) /\ Len(s) = Len(h)
      /\ \A k \in 1 .. Len(h) : s[k] = nodes[h[k]].type
  BY TypesOfHeld
<1> HIDE DEF t, s
<1>4. t[Len(h) + 1] = y  BY <1>1, <1>2
<1>5. \A k \in 1 .. Len(h) : t[k] = s[k]  BY <1>1, <1>2, <1>3
<1> HIDE DEF y
<1>6. y \in Types  BY <1>1, <1>2, <1>4
<1> DEFINE T == Types
<1> HIDE DEF T
<1>7. t \in Seq(T) /\ s \in Seq(T) /\ y \in T  BY <1>2, <1>3, <1>6 DEF T
<1>8. t = Append(s, y)  BY <1>1, <1>2, <1>3, <1>4, <1>5, <1>7
<1>9. SubSeq(t, 1, Len(t) - 1) = s  BY <1>3, <1>7, <1>8
<1> QED BY <1>1, <1>2, <1>4, <1>8, <1>9 DEF g, t, s, y

LEMMA NodeRecord ==
  ASSUME ParserInv, NEW n \in Known
  PROVE  /\ n \in Nat /\ nodes[n].type \in Types /\ nodes[n].value \in Nat
         /\ nodes[n].kind \in Kinds /\ Formed(nodes, pool, local_count, n)
<1>1. nodes[n] \in NodeRecords /\ Len(nodes) \in Nat
  BY TableIsOrdered DEF Known, ParserInv
<1>2. Formed(nodes, pool, local_count, n)  BY DEF Known, ParserInv, Table
<1> QED BY <1>1, <1>2 DEF NodeRecords, Known

(* A literal is the word it is pushed as. *)
LEMMA LiteralIsCanonical ==
  ASSUME ParserInv, NEW n \in Known, nodes[n].kind \in {"literal", "truth"}
  PROVE  /\ Canonical(nodes[n].type, nodes[n].value)
         /\ nodes[n].value \in Word /\ nodes[n].type \notin PoolTypes
<1> DEFINE v == nodes[n].value
<1>1. FormedLeaf(nodes, pool, local_count, n) /\ v \in Nat
  BY NodeRecord DEF Formed
<1>2. CASE nodes[n].kind = "literal"
  <2>1. nodes[n].type = "i32" /\ v < SignBit  BY <1>1, <1>2 DEF FormedLeaf
  <2> HIDE DEF v
  <2>2. v \in Word  BY <1>1, <2>1, WordSizes DEF Word
  <2>3. Normalize("i32", v) = v  BY <2>2, NormalizeWide DEF BitsOf
  <2> QED BY <2>1, <2>2, <2>3 DEF Canonical, v, PoolTypes
<1>3. CASE nodes[n].kind = "truth"
  <2>1. nodes[n].type = "bool" /\ v = 1  BY <1>1, <1>3 DEF FormedLeaf
  <2>2. 1 \in Word  BY WordSizes DEF Word
  <2> QED BY <2>1, <2>2 DEF Canonical, PoolTypes
<1> QED BY <1>2, <1>3

(* The last node held, and the two last. *)
LEMMA HeldOperands ==
  ASSUME NEW r \in Seq(Nat), NEW l \in Nat, NEW m \in Nat, NEW S
  PROVE  /\ Append(r, l) \in Seq(S) => r \in Seq(S) /\ l \in S
         /\ Append(Append(r, l), m) \in Seq(S) =>
               r \in Seq(S) /\ l \in S /\ m \in S
<1>1. ASSUME NEW h \in Seq(Nat), NEW n \in Nat, Append(h, n) \in Seq(S)
      PROVE  h \in Seq(S) /\ n \in S
  <2> DEFINE g == Append(h, n)
  <2>1. /\ Len(h) \in Nat /\ Len(g) = Len(h) + 1 /\ g[Len(h) + 1] = n
        /\ \A k \in 1 .. Len(h) : g[k] = h[k]
    OBVIOUS
  <2>2. g \in Seq(S)  BY <1>1
  <2> HIDE DEF g
  <2>3. \A k \in 1 .. Len(h) : h[k] \in S  BY <2>1, <2>2
  <2>4. n \in S  BY <2>1, <2>2
  <2> QED BY <2>3, <2>4, SequenceOver
<1>2. Append(r, l) \in Seq(Nat)  OBVIOUS
<1> QED BY <1>1, <1>2

LEMMA UnderTwo ==
  ASSUME NEW S, NEW q \in Seq(S), NEW x \in S, NEW z \in S
  PROVE  LET t == Append(Append(q, x), z)
         IN  /\ SubSeq(t, 1, Len(q)) = q /\ SubSeq(t, 1, Len(t) - 2) = q
             /\ SubSeq(t, 1, Len(t) - 1) = Append(q, x)
             /\ SubSeq(Append(q, x), 1, Len(q)) = q
             /\ t[Len(t)] = z /\ t[Len(t) - 1] = x /\ Len(t) = Len(q) + 2
<1> DEFINE p == Append(q, x)
           t == Append(p, z)
<1>1. p \in Seq(S) /\ Len(p) = Len(q) + 1 /\ Len(q) \in Nat /\ p[Len(p)] = x
      /\ \A k \in 1 .. Len(q) : p[k] = q[k]
  OBVIOUS
<1>2. SubSeq(p, 1, Len(q)) = q  BY <1>1
<1> HIDE DEF p
<1>3. /\ t \in Seq(S) /\ Len(t) = Len(p) + 1 /\ t[Len(t)] = z
      /\ \A k \in 1 .. Len(p) : t[k] = p[k]
  BY <1>1
<1>4. SubSeq(t, 1, Len(p)) = p  BY <1>1
<1>5. SubSeq(t, 1, Len(q)) = q
  <2> DEFINE u == SubSeq(t, 1, Len(q))
  <2>1. Len(q) \in 0 .. Len(t)  BY <1>1, <1>3
  <2>2. u \in Seq(S) /\ Len(u) = Len(q) /\ \A k \in 1 .. Len(q) : u[k] = t[k]
    <3> HIDE DEF t
    <3> QED BY <1>1, <1>3, <2>1
  <2>3. \A k \in 1 .. Len(q) : t[k] = q[k]  BY <1>1, <1>3
  <2> HIDE DEF u, t
  <2>4. u = q  BY <1>1, <2>2, <2>3
  <2> QED BY <2>4 DEF u
<1>6. Len(t) - 2 = Len(q) /\ Len(t) - 1 = Len(p) /\ Len(p) \in 1 .. Len(p)
  BY <1>1, <1>3
<1>7. t[Len(t) - 1] = x  BY <1>1, <1>3, <1>6
<1> QED BY <1>1, <1>2, <1>3, <1>4, <1>5, <1>6, <1>7 DEF p

StepTyped(a, i, b) ==
    /\ b.held \in Seq(Known)
    /\ After(TypesOf(a.held), i) = TypesOf(b.held)

LEMMA LeafTypes ==
  ASSUME ParserInv, NEW a \in States, NEW b \in States, NEW n \in Known,
         a.held \in Seq(Known), Len(b.held) <= MaxNodes,
         NodeMoves(a.held, n, b.held), nodes[n].kind \in Leaves
  PROVE  StepTyped(a, NodeInstruction(n), b)
<1> DEFINE h == a.held
           g == b.held
           i == NodeInstruction(n)
           kind == nodes[n].kind
<1>1. g = Append(h, n)  BY KindsDiffer DEF NodeMoves
<1>2. /\ i.opcode = Opcode(kind) /\ i.value = nodes[n].value
      /\ i.type = nodes[n].type
  BY KindsDiffer DEF NodeInstruction, Instruction, Binary
<1>3. FormedLeaf(nodes, pool, local_count, n)  BY NodeRecord DEF Formed
<1> HIDE DEF h, g, i, kind
<1>4. g \in Seq(Known) /\ Len(g) = Len(h) + 1
      /\ TypesOf(g) = Append(TypesOf(h), nodes[n].type)
  BY <1>1, TypesOfAppended DEF h
<1>5. Len(TypesOf(h)) = Len(h) /\ TypesOf(h) # <<"invalid">> /\ Len(h) \in Nat
  BY TypesOfHeld DEF h
<1>6. Len(h) < MaxNodes  BY <1>4, <1>5, LimitsAssumption DEF g
<1> DEFINE t == TypesOf(h)
<1>7. t # <<"invalid">> /\ Len(t) < MaxNodes  BY <1>5, <1>6
<1> HIDE DEF t
<1>8. After(t, i) = Append(t, i.type)
  <2>1. CASE kind \in {"literal", "truth"}
    <3>1. i.opcode = "push"  BY <1>2, <2>1 DEF Opcode
    <3>2. Canonical(i.type, i.value) /\ i.type \notin PoolTypes
      BY <1>2, <2>1, LiteralIsCanonical DEF kind
    <3> QED BY <1>7, <3>1, <3>2, AfterPush
  <2>2. CASE kind \in PoolTypes
    <3>1. i.opcode = "push"  BY <1>2, <2>2 DEF Opcode
    <3>2. /\ i.type \in PoolTypes /\ i.value \in 1 .. Len(pool)
          /\ pool[i.value].type = i.type
      BY <1>2, <1>3, <2>2 DEF kind, FormedLeaf
    <3>3. i.value <= Len(pool)  BY <3>2, ParserFacts
    <3> QED BY <1>7, <3>1, <3>2, <3>3, AfterPush
  <2>3. CASE kind = "parameter"
    <3>1. i.opcode = "parameter"  BY <1>2, <2>3 DEF Opcode, PoolTypes
    <3>2. i.value \in 1 .. ParameterCount /\ signature.parameters[i.value] = i.type
      BY <1>2, <1>3, <2>3 DEF kind, FormedLeaf
    <3>3. i.value <= ParameterCount  BY <3>2, ParserFacts
    <3> QED BY <1>7, <3>1, <3>2, <3>3, AfterRead
  <2>4. CASE kind = "local"
    <3>1. i.opcode = "local"  BY <1>2, <2>4 DEF Opcode, PoolTypes
    <3>2. i.value \in 1 .. local_count /\ signature.locals[i.value] = i.type
      BY <1>2, <1>3, <2>4 DEF kind, FormedLeaf
    <3>3. i.value <= local_count  BY <3>2, ParserFacts
    <3> QED BY <1>7, <3>1, <3>2, <3>3, AfterRead
  <2> QED BY <2>1, <2>2, <2>3, <2>4 DEF Leaves, kind
<1> QED BY <1>2, <1>4, <1>8 DEF StepTyped, t, h, g, i

LEMMA UnaryTypes ==
  ASSUME ParserInv, NEW a \in States, NEW b \in States, NEW n \in Known,
         a.held \in Seq(Known),
         NodeMoves(a.held, n, b.held), nodes[n].kind \in Unary
  PROVE  StepTyped(a, NodeInstruction(n), b)
<1> DEFINE i == NodeInstruction(n)
           kind == nodes[n].kind
           l == nodes[n].left
           y == nodes[l].type
           t == TypesOf(a.held)
<1>1. PICK r \in Seq(Nat) : a.held = Append(r, l) /\ b.held = Append(r, n)
  BY KindsDiffer DEF NodeMoves
<1>2. /\ i.opcode = kind /\ i.type = nodes[n].type
  BY KindsDiffer DEF NodeInstruction, Instruction, Opcode, Leaves, Unary, Binary
<1>3. FormedUnary(nodes, n) /\ n \in Nat /\ nodes[n].type \in Types
  BY NodeRecord DEF Formed
<1>4. l \in 1 .. n - 1 /\ l \in Nat  BY <1>3 DEF FormedUnary
<1>5. r \in Seq(Known) /\ l \in Known  BY <1>1, <1>4, HeldOperands
<1>6. /\ t = Append(TypesOf(r), y) /\ Len(t) = Len(r) + 1 /\ t[Len(t)] = y
      /\ SubSeq(t, 1, Len(t) - 1) = TypesOf(r)
  BY <1>1, <1>5, TypesOfAppended
<1>7. b.held \in Seq(Known) /\ TypesOf(b.held) = Append(TypesOf(r), nodes[n].type)
  BY <1>1, <1>5, TypesOfAppended
<1>8. t # <<"invalid">> /\ Len(t) \in Nat \ {0}
  <2>1. t # <<"invalid">>  BY TypesOfHeld
  <2>2. Len(r) \in Nat  BY <1>5
  <2> QED BY <1>6, <2>1, <2>2
<1>9. CASE kind = "neg"
  <2>1. y = nodes[n].type /\ y \in SignedTypes
    BY <1>3, <1>9 DEF FormedUnary
  <2> HIDE DEF t, y, i, kind
  <2>2. After(t, i) = t  BY <1>2, <1>6, <1>8, <1>9, <2>1, AfterUnary
  <2> QED BY <1>6, <1>7, <2>1, <2>2 DEF StepTyped, t, i
<1>10. CASE kind = "normalize"
  <2>1. y = "i32" /\ nodes[n].type \in IntegerTypes
    BY <1>3, <1>10 DEF FormedUnary
  <2> HIDE DEF t, y, i, kind
  <2>2. After(t, i) = Append(SubSeq(t, 1, Len(t) - 1), i.type)
    BY <1>2, <1>6, <1>8, <1>10, <2>1, AfterUnary
  <2> QED BY <1>2, <1>6, <1>7, <2>2 DEF StepTyped, t, i
<1> QED BY <1>9, <1>10 DEF Unary

LEMMA BinaryTypes ==
  ASSUME ParserInv, NEW a \in States, NEW b \in States, NEW n \in Known,
         a.held \in Seq(Known),
         NodeMoves(a.held, n, b.held), nodes[n].kind \in Binary
  PROVE  StepTyped(a, NodeInstruction(n), b)
<1> DEFINE i == NodeInstruction(n)
           kind == nodes[n].kind
           l == nodes[n].left
           m == nodes[n].right
           y == nodes[l].type
           t == TypesOf(a.held)
<1>1. PICK r \in Seq(Nat) : /\ a.held = Append(Append(r, l), m)
                            /\ b.held = Append(r, n)
  BY KindsDiffer DEF NodeMoves
<1>2. FormedBinary(nodes, n) /\ n \in Nat /\ nodes[n].type \in Types
  BY NodeRecord DEF Formed
<1>3. /\ l \in 1 .. n - 1 /\ l \in Nat /\ m \in 1 .. n - 1 /\ m \in Nat
      /\ nodes[m].type = y /\ SignFits(kind, y)
      /\ nodes[n].type = IF kind \in Comparisons THEN "bool" ELSE y
  BY <1>2 DEF FormedBinary
<1>4. i.opcode = kind /\ i.type = y
  <2>1. kind \notin Leaves \cup Unary  BY KindsDiffer
  <2>2. kind \notin {"literal", "truth"} \cup PoolTypes  BY <2>1 DEF Leaves
  <2> QED BY <1>3, <2>2 DEF NodeInstruction, Instruction, Opcode
<1>5. r \in Seq(Known) /\ l \in Known /\ m \in Known
  BY <1>1, <1>3, HeldOperands
<1> DEFINE s == TypesOf(Append(r, l))
<1>6. /\ Append(r, l) \in Seq(Known) /\ Len(Append(r, l)) = Len(r) + 1
      /\ s = Append(TypesOf(r), y) /\ Len(s) = Len(r) + 1 /\ s[Len(s)] = y
      /\ SubSeq(s, 1, Len(s) - 1) = TypesOf(r)
  BY <1>5, TypesOfAppended
<1>7. /\ t = Append(s, y) /\ Len(t) = Len(r) + 2 /\ t[Len(t)] = y
      /\ SubSeq(t, 1, Len(t) - 1) = s
  <2> DEFINE g == Append(r, l)
  <2>1. g \in Seq(Known) /\ Len(g) = Len(r) + 1 /\ a.held = Append(g, m)
        /\ Len(r) \in Nat
    BY <1>1, <1>5, <1>6
  <2> HIDE DEF g
  <2>2. LET tt == TypesOf(Append(g, m))
        IN  /\ tt = Append(TypesOf(g), nodes[m].type)
            /\ Len(tt) = Len(g) + 1 /\ tt[Len(tt)] = nodes[m].type
            /\ SubSeq(tt, 1, Len(tt) - 1) = TypesOf(g)
    BY <1>5, <2>1, TypesOfAppended
  <2> QED BY <1>3, <2>1, <2>2 DEF g
<1>8. b.held \in Seq(Known) /\ TypesOf(b.held) = Append(TypesOf(r), nodes[n].type)
  BY <1>1, <1>5, TypesOfAppended
<1>9. t # <<"invalid">> /\ t \in Seq(Types) /\ Len(r) \in Nat /\ s \in Seq(Types)
      /\ TypesOf(r) \in Seq(Types)
  <2> DEFINE g == Append(r, l)
  <2>1. g \in Seq(Known) /\ a.held \in Seq(Known) /\ Len(r) \in Nat
    BY <1>5, <1>6
  <2>2. \A h \in Seq(Known) : TypesOf(h) \in Seq(Types) /\ TypesOf(h) # <<"invalid">>
    BY TypesOfHeld
  <2> HIDE DEF g
  <2>3. TypesOf(g) \in Seq(Types)  BY <2>1, <2>2
  <2> QED BY <1>5, <2>1, <2>2, <2>3 DEF g
<1> DEFINE T == Types
<1> HIDE DEF t, s, T
<1>10. t \in Seq(T) /\ s \in Seq(T)  BY <1>9 DEF T
<1>11. /\ Len(t) \in Nat /\ Len(t) >= 2 /\ t[Len(t) - 1] = y
       /\ SubSeq(t, 1, Len(t) - 2) = SubSeq(s, 1, Len(s) - 1)
  <2>1. Len(t) \in Nat /\ Len(t) >= 2 /\ Len(t) - 1 = Len(s) /\ Len(s) \in 1 .. Len(s)
    BY <1>6, <1>7, <1>9
  <2>2. t[Len(s)] = s[Len(s)]  BY <1>7, <1>10, <2>1
  <2>3. SubSeq(t, 1, Len(t) - 2) = SubSeq(s, 1, Len(s) - 1)
    <3> DEFINE q == TypesOf(r)
    <3>1. t = Append(Append(q, y), y) /\ Len(t) - 2 = Len(q)
      BY <1>6, <1>7, <1>9, TypesOfHeld, <1>5
    <3>2. q \in Seq(T) /\ y \in T
      <4>1. Len(s) \in 1 .. Len(s) /\ s[Len(s)] = y  BY <1>6, <2>1
      <4> QED BY <1>9, <1>10, <4>1 DEF T
    <3> HIDE DEF q
    <3>3. SubSeq(t, 1, Len(t) - 2) = q  BY <3>1, <3>2, UnderTwo
    <3> QED BY <1>6, <3>3 DEF q
  <2> QED BY <1>6, <2>1, <2>2, <2>3
<1> HIDE DEF i, y, kind
<1>12. i.opcode \in Arithmetic \cup Comparisons  BY <1>4 DEF kind, Binary
<1>13. After(t, i) = IF kind \in Arithmetic THEN s
                     ELSE Append(TypesOf(r), "bool")
  <2>1. SignFits(i.opcode, i.type) /\ t[Len(t)] = i.type /\ t[Len(t) - 1] = i.type
    BY <1>3, <1>4, <1>7, <1>11
  <2> QED BY <1>4, <1>6, <1>7, <1>9, <1>11, <1>12, <2>1, AfterBinary
<1>14. CASE kind \in Arithmetic
  <2>1. nodes[n].type = y  BY <1>3, <1>14, KindsDiffer
  <2> QED BY <1>6, <1>8, <1>13, <1>14, <2>1 DEF StepTyped, t, i
<1>15. CASE kind \notin Arithmetic
  <2>1. kind \in Comparisons  BY <1>15 DEF kind, Binary
  <2>2. nodes[n].type = "bool"  BY <1>3, <2>1
  <2> QED BY <1>8, <1>13, <1>15, <2>2 DEF StepTyped, t, i
<1> QED BY <1>14, <1>15

LEMMA EndingTypes ==
  ASSUME ParserInv, NEW a \in States, NEW b \in States, NEW i,
         a.done + 1 \in 1 .. Len(statements), Ends(a, i, b)
  PROVE  StepTyped(a, i, b)
<1> DEFINE j == a.done + 1
           s == statements[j]
           e == s.expression
           t == TypesOf(a.held)
<1>1. StatementInv(j) /\ e \in Known  BY StatementFacts DEF Known
<1>2. /\ i = Ending(s) /\ a.held = <<e>> /\ b.held = <<>>
  BY DEF Ends, State
<1>3. /\ s.local \in 0 .. local_count /\ nodes[e].type = TypeOfStatement(j)
  BY <1>1 DEF StatementInv
<1>4. local_count \in Nat  BY ParserFacts
<1>5. t = <<nodes[e].type>>  BY <1>2 DEF TypesOf
<1>6. t # <<"invalid">>
  <2>1. <<e>> \in Seq(Known)  BY <1>1
  <2> QED BY <1>2, <2>1, TypesOfHeld
<1> HIDE DEF t
<1>7. After(t, i) = <<>>
  <2>1. CASE s.local = 0
    <3>1. i.opcode = "return" /\ i.type = signature.result
      BY <1>2, <2>1 DEF Ending, Instruction
    <3>2. t = <<i.type>>
      BY <1>3, <1>5, <2>1, <3>1 DEF TypeOfStatement, Returning
    <3> QED BY <1>6, <3>1, <3>2, AfterEnding
  <2>2. CASE s.local # 0
    <3>1. i.opcode = "store" /\ i.type = signature.locals[s.local]
          /\ i.value = s.local
      BY <1>2, <2>2 DEF Ending, Instruction
    <3>2. t = <<i.type>>
      BY <1>3, <1>5, <2>2, <3>1 DEF TypeOfStatement, Returning
    <3>3. i.value <= local_count  BY <1>3, <1>4, <3>1
    <3> QED BY <1>6, <3>1, <3>2, <3>3, AfterEnding
  <2> QED BY <2>1, <2>2
<1>8. b.held \in Seq(Known) /\ TypesOf(b.held) = <<>>  BY <1>2 DEF TypesOf
<1> QED BY <1>7, <1>8 DEF StepTyped, t

LEMMA StepIsTyped ==
  ASSUME ParserInv, NEW a \in States, NEW b \in States, NEW i,
         a.held \in Seq(Known), Len(b.held) <= MaxNodes, Follows(a, i, b)
  PROVE  StepTyped(a, i, b)
<1>1. a.done + 1 \in 1 .. Len(statements)  BY DEF Follows
<1>2. CASE Within(a, i, b)
  <2> DEFINE e == statements[a.done + 1].expression
             n == i.place
  <2>1. n \in 1 .. e /\ i = NodeInstruction(n) /\ NodeMoves(a.held, n, b.held)
    BY <1>2 DEF Within
  <2>2. e \in 1 .. Len(nodes) /\ Len(nodes) \in Nat
    BY <1>1, StatementFacts, ParserFacts
  <2>3. n \in Known  BY <2>1, <2>2 DEF Known
  <2>4. nodes[n].kind \in Kinds  BY <2>3, NodeRecord
  <2> HIDE DEF n
  <2> QED BY <2>1, <2>3, <2>4, LeafTypes, UnaryTypes, BinaryTypes DEF Kinds
<1>3. CASE Ends(a, i, b)  BY <1>1, <1>3, EndingTypes
<1> QED BY <1>2, <1>3 DEF Follows

LEMMA LineTypes ==
  ASSUME ParserInv, NEW c, Len(c) \in Nat, NEW w, NEW j, Line(w, c, j)
  PROVE  \A k \in 0 .. Len(c) : /\ w[k] \in States /\ w[k].held \in Seq(Known)
                                /\ StackTypes(c)[k] = TypesOf(w[k].held)
<1> DEFINE t == StackTypes(c)
           Good(k) == /\ w[k] \in States /\ w[k].held \in Seq(Known)
                      /\ t[k] = TypesOf(w[k].held)
           S == {k \in Nat : k <= Len(c) => Good(k)}
<1>1. /\ \A k \in 0 .. Len(c) : w[k] \in States /\ Len(w[k].held) <= MaxNodes
      /\ w[0] = State(<<>>, 0)
      /\ \A k \in 1 .. Len(c) : Follows(w[k - 1], c[k], w[k])
  BY DEF Line
<1>2. t = [k \in 0 .. Len(c) |-> IF k = 0 THEN <<>> ELSE After(t[k - 1], c[k])]
  BY StackTypesUnfold
<1> HIDE DEF t
<1>3. Good(0)
  <2>1. w[0].held = <<>> /\ w[0] \in States  BY <1>1 DEF State
  <2>2. t[0] = <<>>  BY <1>2
  <2>3. TypesOf(<<>>) = <<>>  BY DEF TypesOf
  <2> QED BY <2>1, <2>2, <2>3
<1>4. 0 \in S
  <2> HIDE DEF Good
  <2> QED BY <1>3, Zenon
<1>5. \A k \in Nat : k \in S => k + 1 \in S
  <2>1. ASSUME NEW k \in Nat, k \in S, k + 1 <= Len(c)
        PROVE  Good(k + 1)
    <3> DEFINE q == k + 1
    <3>1. q \in 1 .. Len(c) /\ q \in 0 .. Len(c) /\ q - 1 = k /\ k <= Len(c)
          /\ q # 0
      BY <2>1
    <3>2. Good(k)
      <4> HIDE DEF Good
      <4> QED BY <2>1, <3>1
    <3>3. w[q] \in States /\ Len(w[q].held) <= MaxNodes
          /\ Follows(w[k], c[q], w[q])
      BY <1>1, <3>1
    <3>4. StepTyped(w[k], c[q], w[q])  BY <3>2, <3>3, StepIsTyped
    <3>5. t[q] = After(t[k], c[q])  BY <1>2, <3>1
    <3> QED BY <3>2, <3>3, <3>4, <3>5 DEF StepTyped
  <2>2. \A k \in Nat : k + 1 \in Nat  OBVIOUS
  <2> HIDE DEF Good
  <2> QED BY <2>1, <2>2, Zenon
<1>6. Nat \subseteq S
  <2> HIDE DEF S
  <2> QED BY <1>4, <1>5, SetInduction
<1> QED BY <1>6 DEF t

(* What is lowered passes the validation. *)
LEMMA CodeIsValid ==
  ASSUME ParserInv, mode # "refused"
  PROVE  Valid(LowerStatements[Len(statements)])
<1> DEFINE n == Len(statements)
           c == LowerStatements[n]
<1>1. /\ n \in Nat /\ MaxNodes \in Nat /\ n <= MaxStatements /\ MaxStatements \in Nat
      /\ End(n) \in 0 .. Len(nodes) /\ Len(nodes) <= MaxNodes /\ Len(nodes) \in Nat
  BY ParserFacts, LimitsAssumption DEF ParserInv, StatementsInv
<1>2. HasLine(n)  BY <1>1, EveryLine
<1>3. Passable /\ PoolValid  BY DEF ParserInv, Pooled, PoolValid
<1>4. /\ c \in Seq(Emitted) /\ Len(c) <= End(n) + n  BY <1>2 DEF HasLine
<1>5. PICK w : Line(w, c, n)  BY <1>2 DEF HasLine
<1> HIDE DEF c, n
<1>6. Len(c) \in Nat  BY <1>4
<1>7. Len(c) <= MaxNodes + 3 * MaxStatements  BY <1>1, <1>4, <1>6
<1>8. StackTypes(c)[Len(c)] = <<>>
  <2>1. w[Len(c)] = State(<<>>, n)  BY <1>5 DEF Line
  <2>2. StackTypes(c)[Len(c)] = TypesOf(w[Len(c)].held)
    BY <1>5, <1>6, LineTypes
  <2> QED BY <2>1, <2>2 DEF State, TypesOf
<1> QED BY <1>3, <1>7, <1>8 DEF Valid, c, n

(* What the parser accepts is never rejected by the validation of its      *)
(* code: the registers, the pool, the number of instructions, the depth    *)
(* of the stack and the types are as it asks (miga80_lower_function).      *)
THEOREM NothingRejected == StackSpec => [](mode # "rejected")
<1> DEFINE Accepted == ParserInv /\ mode # "rejected"
<1>1. StackInit => Accepted  BY ParserInitially DEF StackInit, Init
<1>2. Accepted /\ [StackNext]_<<parserVars, codeVars>> => Accepted'
  <2> SUFFICES ASSUME Accepted, [StackNext]_<<parserVars, codeVars>>
               PROVE  Accepted'
    OBVIOUS
  <2>1. ParserInv'  BY StepKeepsParser
  <2>2. CASE Lower
    <3>1. Valid(LowerStatements[Len(statements)])
      BY <2>2, CodeIsValid DEF Lower
    <3>2. Valid(code')  BY <2>2, <3>1 DEF Lower
    <3> QED BY <2>1, <2>2, <3>2 DEF Lower
  <2>3. CASE Parse
    <3>1. mode' # "rejected"
      BY <2>3 DEF Parse, ParseNext, BeginLocal, BeginAssign, BeginReturn, Begin,
         Refuse, Primary, PoolLiteral, Prefix, NoOperand, Combine, Operator,
         CloseParenthesis, EndLocal, EndAssign, EndDivideAssign, EndReturn,
         NewNode, Advance, Complete
    <3> QED BY <2>1, <3>1, SMTT(30)
  <2>4. CASE UNCHANGED mode  BY <2>1, <2>4
  <2> QED BY <2>2, <2>3, <2>4 DEF StackNext, Call, Step, parserVars
<1>3. Accepted => mode # "rejected"  OBVIOUS
<1> QED BY <1>1, <1>2, <1>3, PTL DEF StackSpec
-----------------------------------------------------------------------------
(* The words of a type *)
HasType(type, w) == w \in Word /\ Acceptable(type, w)

LEMMA HasTypeFacts ==
  ASSUME NEW type, NEW w, HasType(type, w)
  PROVE  w \in Word /\ w \in Int /\ w # Unset /\ Canonical(type, w)
<1>1. w \in Word /\ Acceptable(type, w)  BY DEF HasType
<1>2. w \in Int /\ w # Unset  BY <1>1 DEF Word, Unset
<1>3. CASE type \in PoolTypes
  <2>1. Normalize(type, w) = w
    BY <1>1, <1>3, NormalizeWide DEF BitsOf, PoolTypes
  <2> QED BY <1>1, <1>2, <1>3, <2>1 DEF Canonical, PoolTypes
<1>4. CASE type \notin PoolTypes
  BY <1>1, <1>2, <1>4 DEF Acceptable, PoolTypes
<1> QED BY <1>3, <1>4

LEMMA CanonicalHasType ==
  ASSUME NEW type, type \notin PoolTypes, NEW w \in Word, Canonical(type, w)
  PROVE  HasType(type, w)
BY DEF HasType, Acceptable, PoolTypes

LEMMA NativeWords ==
  ASSUME ParserInv, NEW type, NEW v, NEW w, HasType(type, v), HasType(type, w)
  PROVE  /\ Native(type, w) \in Word /\ Native(type, w) # Unset
         /\ Native(type, v) = Native(type, w) <=> v = w
         /\ type \notin AddressTypes => Native(type, w) = w
<1>1. v \in Word /\ w \in Word  BY DEF HasType
<1>2. CASE type \in AddressTypes
  <2>1. v \in DOMAIN pool /\ w \in DOMAIN pool
    BY <1>2 DEF HasType, Acceptable, AddressTypes
  <2>2. DOMAIN pool = 1 .. Len(pool) /\ Len(pool) <= MaxPoolEntries
        /\ Len(pool) \in Nat
    BY DEF ParserInv, Pooled
  <2>3. v \in 1 .. MaxPoolEntries /\ w \in 1 .. MaxPoolEntries
    BY <2>1, <2>2, LimitsAssumption
  <2>4. /\ AddressOf(w) \in Word
        /\ AddressOf(v) = AddressOf(w) <=> v = w
    BY <2>3, AddressesDiffer
  <2>5. AddressOf(w) # Unset  BY <2>4 DEF Word, Unset
  <2> QED BY <1>2, <2>4, <2>5 DEF Native
<1>3. CASE type \notin AddressTypes  BY <1>1, <1>3 DEF Native, Word, Unset
<1> QED BY <1>2, <1>3

(* What the code of a node leaves on the stack, of what it finds there. *)
WordOf(n, x, y) ==
    CASE nodes[n].kind \in {"literal", "truth"} \cup PoolTypes ->
           Pushed(NodeInstruction(n))
      [] nodes[n].kind = "parameter" -> argument[nodes[n].value]
      [] nodes[n].kind = "local" -> locals[nodes[n].value]
      [] nodes[n].kind = "neg" -> Normalize(nodes[n].type, Negated(x))
      [] nodes[n].kind = "normalize" -> Normalize(nodes[n].type, x)
      [] nodes[n].kind \in Binary ->
           Apply(nodes[n].kind, nodes[nodes[n].left].type, x, y)

LEMMA SymbolIds ==
  ASSUME ParserInv, NEW e \in 1 .. Len(pool)
  PROVE  SymbolId(pool, e) \in Word /\ SymbolId(pool, e) \in 0 .. e
<1>1. /\ Len(pool) \in Nat /\ Len(pool) <= MaxPoolEntries
      /\ MaxPoolEntries \in Nat /\ Modulus \in Nat
      /\ 4 * (MaxPoolEntries + 1) <= Modulus
  BY LimitsAssumption, AddressAssumption, WordSizes
     DEF ParserInv, Pooled, Alignment
<1> DEFINE S == {k \in 1 .. e : pool[k].type = "symbol"}
<1>2. IsFiniteSet(1 .. e) /\ Cardinality(1 .. e) = e
  <2>1. e \in Nat  BY <1>1
  <2>2. /\ IsFiniteSet(1 .. e)
        /\ Cardinality(1 .. e) = IF 1 > e THEN 0 ELSE e - 1 + 1
    BY <2>1, FS_Interval
  <2> QED BY <1>1, <2>1, <2>2
<1>3. S \subseteq 1 .. e  OBVIOUS
<1> HIDE DEF S
<1>4. IsFiniteSet(S) /\ Cardinality(S) <= Cardinality(1 .. e)
      /\ Cardinality(S) \in Nat
  BY <1>2, <1>3, FS_Subset, FS_CardinalityType
<1>5. Cardinality(S) \in 0 .. e  BY <1>1, <1>2, <1>4
<1>6. Cardinality(S) \in Word  BY <1>1, <1>5 DEF Word
<1> QED BY <1>5, <1>6 DEF SymbolId, S

LEMMA PushedHasType ==
  ASSUME ParserInv, NEW n \in Known,
         nodes[n].kind \in {"literal", "truth"} \cup PoolTypes
  PROVE  HasType(nodes[n].type, Pushed(NodeInstruction(n)))
<1> DEFINE i == NodeInstruction(n)
           v == nodes[n].value
           y == nodes[n].type
<1>1. i.type = y /\ i.value = v
  BY KindsDiffer DEF NodeInstruction, Instruction, Leaves, Binary
<1>2. CASE nodes[n].kind \in {"literal", "truth"}
  <2>1. Canonical(y, v) /\ v \in Word /\ y \notin PoolTypes
    BY <1>2, LiteralIsCanonical
  <2>2. Pushed(i) = v  BY <1>1, <2>1 DEF Pushed, PoolTypes
  <2> HIDE DEF i, v, y
  <2>3. HasType(y, Pushed(i))  BY <2>1, <2>2, CanonicalHasType
  <2> QED BY <2>3 DEF y, i
<1>3. CASE nodes[n].kind \in PoolTypes
  <2>1. FormedLeaf(nodes, pool, local_count, n)  BY NodeRecord DEF Formed
  <2>2. /\ y = nodes[n].kind /\ v \in 1 .. Len(pool)
        /\ pool[v].type = y
    BY <1>3, <2>1 DEF FormedLeaf
  <2>3. DOMAIN pool = 1 .. Len(pool) /\ Len(pool) <= MaxPoolEntries
        /\ Len(pool) \in Nat
    BY DEF ParserInv, Pooled
  <2> HIDE DEF i, v, y
  <2>4. CASE y = "string"
    <3>1. Pushed(i) = v  BY <1>1, <2>4 DEF Pushed
    <3>2. 4 * (MaxPoolEntries + 1) <= Modulus /\ MaxPoolEntries \in Nat
      BY LimitsAssumption, AddressAssumption DEF Alignment
    <3>3. v \in Word  BY <2>2, <2>3, <3>2, WordSizes DEF Word
    <3>4. HasType(y, v)  BY <2>2, <2>3, <2>4, <3>3 DEF HasType, Acceptable
    <3> QED BY <3>1, <3>4 DEF y, i
  <2>5. CASE y = "symbol"
    <3>1. Pushed(i) = SymbolId(pool, v)  BY <1>1, <2>5 DEF Pushed
    <3>2. SymbolId(pool, v) \in Word  BY <2>2, SymbolIds
    <3>3. HasType(y, SymbolId(pool, v))
      BY <2>2, <2>3, <2>5, <3>2 DEF HasType, Acceptable
    <3> QED BY <3>1, <3>3 DEF y, i
  <2> QED BY <1>3, <2>2, <2>4, <2>5 DEF PoolTypes, y
<1> QED BY <1>2, <1>3

LEMMA NormalizedHasType ==
  ASSUME NEW type, type \in IntegerTypes, NEW w \in Int
  PROVE  HasType(type, Normalize(type, w))
<1>1. Normalize(type, w) \in Word  BY NormalizeIsWord
<1>2. type \notin PoolTypes /\ type # "bool"
  BY DEF IntegerTypes, SignedTypes, UnsignedTypes, PoolTypes
<1>3. Canonical(type, Normalize(type, w))
  BY <1>2, NormalizeTwice DEF Canonical
<1> QED BY <1>1, <1>2, <1>3, CanonicalHasType

LEMMA UnaryHasType ==
  ASSUME ParserInv, NEW n \in Known, nodes[n].kind \in Unary,
         NEW x, HasType(nodes[nodes[n].left].type, x), NEW y
  PROVE  /\ HasType(nodes[n].type, WordOf(n, x, y))
         /\ nodes[n].type \in IntegerTypes
         /\ nodes[nodes[n].left].type \in IntegerTypes
<1> DEFINE type == nodes[n].type
<1>1. FormedUnary(nodes, n)  BY NodeRecord DEF Formed
<1>2. x \in Word /\ Negated(x) \in Int /\ x \in Int
  <2>1. x \in Word /\ x \in Int  BY HasTypeFacts
  <2>2. 0 - x \in Int  BY <2>1
  <2>3. Negated(x) \in Word  BY <2>2, WrapIsWord DEF Negated
  <2> QED BY <2>1, <2>3 DEF Word
<1>3. CASE nodes[n].kind = "neg"
  <2>1. type \in SignedTypes /\ nodes[nodes[n].left].type = type
    BY <1>1, <1>3 DEF FormedUnary
  <2>2. type \in IntegerTypes  BY <2>1 DEF IntegerTypes
  <2>3. WordOf(n, x, y) = Normalize(type, Negated(x))
    <3>1. nodes[n].kind \notin Binary  BY KindsDiffer
    <3> QED BY <1>3, <3>1 DEF WordOf, PoolTypes
  <2> HIDE DEF type
  <2>4. HasType(type, Normalize(type, Negated(x)))
    BY <1>2, <2>2, NormalizedHasType
  <2> QED BY <2>1, <2>2, <2>3, <2>4 DEF type
<1>4. CASE nodes[n].kind = "normalize"
  <2>1. type \in IntegerTypes /\ nodes[nodes[n].left].type = "i32"
    BY <1>1, <1>4 DEF FormedUnary
  <2>2. "i32" \in IntegerTypes  BY DEF IntegerTypes, SignedTypes
  <2>3. WordOf(n, x, y) = Normalize(type, x)
    <3>1. nodes[n].kind \notin Binary  BY KindsDiffer
    <3> QED BY <1>4, <3>1 DEF WordOf, PoolTypes
  <2> HIDE DEF type
  <2>4. HasType(type, Normalize(type, x))  BY <1>2, <2>1, NormalizedHasType
  <2> QED BY <2>1, <2>2, <2>3, <2>4 DEF type
<1> QED BY <1>3, <1>4 DEF Unary

LEMMA BinaryFacts ==
  ASSUME ParserInv, NEW n \in Known, nodes[n].kind \in Binary
  PROVE  LET type == nodes[nodes[n].left].type
         IN  /\ nodes[nodes[n].right].type = type /\ type \in Types
             /\ nodes[n].kind \in Arithmetic =>
                   nodes[n].type = type /\ type \in IntegerTypes
             /\ nodes[n].kind \in Comparisons => nodes[n].type = "bool"
             /\ nodes[n].kind \notin Equalities => type \in IntegerTypes
             /\ SignFits(nodes[n].kind, type)
             /\ \A x, y : WordOf(n, x, y) = Apply(nodes[n].kind, type, x, y)
             /\ nodes[n].left \in Known /\ nodes[n].right \in Known
<1> DEFINE type == nodes[nodes[n].left].type
           kind == nodes[n].kind
<1>1. FormedBinary(nodes, n) /\ n \in Nat  BY NodeRecord DEF Formed
<1>2. /\ nodes[n].left \in 1 .. n - 1 /\ nodes[n].right \in 1 .. n - 1
      /\ nodes[nodes[n].right].type = type /\ SignFits(kind, type)
      /\ nodes[n].type = IF kind \in Comparisons THEN "bool" ELSE type
  BY <1>1 DEF FormedBinary
<1>3. nodes[n].left \in Known /\ nodes[n].right \in Known
  BY <1>1, <1>2 DEF Known
<1>4. type \in Types  BY <1>3, NodeRecord
<1>5. kind \notin Leaves \cup Unary  BY KindsDiffer
<1>6. kind \notin {"literal", "truth"} \cup PoolTypes
      /\ kind \notin {"parameter", "local", "neg", "normalize"}
  BY <1>5 DEF Leaves, Unary
<1>7. \A x, y : WordOf(n, x, y) = Apply(kind, type, x, y)
  BY <1>6 DEF WordOf
<1>8. kind \in Arithmetic => kind \notin Comparisons /\ kind \notin Equalities
  BY KindsDiffer DEF Comparisons
<1>9. kind \notin Equalities => type \in IntegerTypes  BY <1>2 DEF SignFits
<1> HIDE DEF type, kind
<1>10. kind \in Arithmetic => nodes[n].type = type /\ type \in IntegerTypes
  BY <1>2, <1>8, <1>9
<1> QED BY <1>2, <1>3, <1>4, <1>7, <1>9, <1>10 DEF type, kind

LEMMA ApplyComparison ==
  ASSUME NEW op \in Comparisons, NEW type, NEW x, NEW y
  PROVE  Apply(op, type, x, y) \in {0, 1}
BY DEF Apply, Truth, Comparisons, Equalities

LEMMA BinaryHasType ==
  ASSUME ParserInv, NEW n \in Known, nodes[n].kind \in Binary,
         NEW x, HasType(nodes[nodes[n].left].type, x),
         NEW y, HasType(nodes[nodes[n].right].type, y),
         ~ Faults(nodes[n].kind, y)
  PROVE  HasType(nodes[n].type, WordOf(n, x, y))
<1> DEFINE type == nodes[nodes[n].left].type
           kind == nodes[n].kind
           v == WordOf(n, x, y)
<1>1. /\ v = Apply(kind, type, x, y)
      /\ kind \in Arithmetic => nodes[n].type = type /\ type \in IntegerTypes
      /\ kind \in Comparisons => nodes[n].type = "bool"
  BY BinaryFacts
<1>2. x \in Word /\ y \in Word /\ kind \in Binary /\ ~ Faults(kind, y)
  BY HasTypeFacts
<1> HIDE DEF type, kind, v
<1>3. CASE kind \in Arithmetic
  <2>1. v \in Word /\ Canonical(type, v)
    BY <1>1, <1>2, <1>3, ArithmeticIsCanonical
  <2>2. type \notin PoolTypes
    BY <1>1, <1>3 DEF IntegerTypes, SignedTypes, UnsignedTypes, PoolTypes
  <2>3. HasType(type, v)  BY <2>1, <2>2, CanonicalHasType
  <2> QED BY <1>1, <1>3, <2>3 DEF v
<1>4. CASE kind \in Comparisons
  <2>1. v \in {0, 1}  BY <1>1, <1>4, ApplyComparison
  <2>2. v \in Word  BY <2>1, WordSizes DEF Word
  <2>3. HasType("bool", v)  BY <2>1, <2>2 DEF HasType, Acceptable, Canonical
  <2> QED BY <1>1, <1>4, <2>3 DEF v
<1> QED BY <1>2, <1>3, <1>4 DEF Binary

(* The stack of the evaluator and the frame of the processor *)
Cells == 1 .. FrameWords + MaxNodes
Machines == [a7 : Nat, outcome : {Running}, memory : [Cells -> Word \cup {Unset}]]

NativeOrUnset(type, w) == IF w = Unset THEN Unset ELSE Native(type, w)

(* The words s of the held nodes h are on both stacks, above the frame. *)
Typed(h, s) ==
    /\ s \in Seq(Word) /\ Len(s) = Len(h)
    /\ \A q \in 1 .. Len(h) : HasType(nodes[h[q]].type, s[q])
Framed(ls, c) ==
    /\ \A p \in 1 .. ParameterCount :
          c.memory[p] = Native(signature.parameters[p], argument[p])
    /\ \A l \in 1 .. local_count :
          c.memory[SlotOfLocal(l)] = NativeOrUnset(signature.locals[l], ls[l])
Mirrors(h, s, ls, c) ==
    /\ c \in Machines
    /\ h \in Seq(Known) /\ Len(h) <= MaxNodes /\ Typed(h, s)
    /\ c.a7 = FrameWords + Len(h)
    /\ Framed(ls, c)
    /\ \A q \in 1 .. Len(h) :
          c.memory[FrameWords + q] = Native(nodes[h[q]].type, s[q])

LEMMA FrameFacts ==
  ASSUME ParserInv
  PROVE  /\ FrameWords \in Nat /\ MaxNodes \in Nat /\ ParameterCount \in Nat
         /\ local_count \in Nat /\ FrameWords = ParameterCount + local_count
         /\ \A l \in 1 .. local_count :
               SlotOfLocal(l) \in ParameterCount + 1 .. FrameWords
BY ParserFacts DEF FrameWords, SlotOfLocal

LEMMA MirrorsPush ==
  ASSUME ParserInv, NEW h, NEW s, NEW ls, NEW c, Mirrors(h, s, ls, c),
         NEW n \in Known, NEW x, HasType(nodes[n].type, x), Len(h) < MaxNodes
  PROVE  Mirrors(Append(h, n), Append(s, x), ls,
                 Push(c, Native(nodes[n].type, x)))
<1> DEFINE g == Append(h, n)
           t == Append(s, x)
           v == Native(nodes[n].type, x)
           d == Push(c, v)
           a == c.a7 + 1
<1>1. /\ c \in Machines /\ h \in Seq(Known) /\ Typed(h, s)
      /\ c.a7 = FrameWords + Len(h) /\ Framed(ls, c)
      /\ \A q \in 1 .. Len(h) :
            c.memory[FrameWords + q] = Native(nodes[h[q]].type, s[q])
  BY DEF Mirrors
<1>2. /\ FrameWords \in Nat /\ MaxNodes \in Nat /\ ParameterCount \in Nat
      /\ local_count \in Nat /\ FrameWords = ParameterCount + local_count
      /\ \A l \in 1 .. local_count : SlotOfLocal(l) \in 1 .. FrameWords
      /\ ParameterCount <= FrameWords /\ Len(h) \in Nat
  BY <1>1, FrameFacts
<1>3. v \in Word  BY NativeWords
<1>4. x \in Word  BY HasTypeFacts
<1> HIDE DEF v
<1>5. a \in Cells /\ a = FrameWords + Len(h) + 1 /\ a \in Nat
  BY <1>1, <1>2 DEF Cells
<1>6. /\ c.memory \in [Cells -> Word \cup {Unset}]
      /\ d = [c EXCEPT !.a7 = a, !.memory[a] = v]
  BY <1>1 DEF Machines, Push
<1>7. /\ d \in Machines /\ d.a7 = a
      /\ d.memory = [c.memory EXCEPT ![a] = v]
  <2> HIDE DEF a, d
  <2> QED BY <1>1, <1>3, <1>5, <1>6 DEF Machines
<1>8. /\ d.memory[a] = v
      /\ \A k \in Cells : k # a => d.memory[k] = c.memory[k]
  <2> HIDE DEF a, d
  <2> QED BY <1>5, <1>6, <1>7
<1> HIDE DEF d, a
<1>9. \A k \in 1 .. FrameWords + Len(h) : d.memory[k] = c.memory[k]
  BY <1>1, <1>2, <1>5, <1>8 DEF Cells
<1>10. Framed(ls, d)
  <2>1. \A p \in 1 .. ParameterCount : p \in 1 .. FrameWords + Len(h)
    BY <1>2
  <2>2. \A l \in 1 .. local_count : SlotOfLocal(l) \in 1 .. FrameWords + Len(h)
    BY <1>2
  <2> QED BY <1>1, <1>9, <2>1, <2>2 DEF Framed
<1>11. /\ s \in Seq(Word) /\ Len(s) = Len(h)
       /\ \A q \in 1 .. Len(h) : HasType(nodes[h[q]].type, s[q])
  BY <1>1 DEF Typed
<1>12. /\ g \in Seq(Known) /\ t \in Seq(Word) /\ Len(g) = Len(h) + 1
       /\ Len(t) = Len(h) + 1
       /\ g[Len(h) + 1] = n /\ t[Len(h) + 1] = x
       /\ \A q \in 1 .. Len(h) : g[q] = h[q] /\ t[q] = s[q]
  BY <1>1, <1>4, <1>11
<1> HIDE DEF g, t
<1>13. Typed(g, t)
  <2>1. ASSUME NEW q \in 1 .. Len(g)
        PROVE  HasType(nodes[g[q]].type, t[q])
    <3>1. CASE q \in 1 .. Len(h)  BY <1>11, <1>12, <3>1
    <3>2. CASE q = Len(h) + 1  BY <1>12, <3>2
    <3> QED BY <1>2, <1>12, <3>1, <3>2
  <2> QED BY <1>12, <2>1 DEF Typed
<1>14. ASSUME NEW q \in 1 .. Len(g)
       PROVE  d.memory[FrameWords + q] = Native(nodes[g[q]].type, t[q])
  <2>1. CASE q \in 1 .. Len(h)
    <3>1. FrameWords + q \in 1 .. FrameWords + Len(h)  BY <1>2, <2>1
    <3> QED BY <1>1, <1>9, <1>12, <2>1, <3>1
  <2>2. CASE q = Len(h) + 1
    <3>1. FrameWords + q = a  BY <1>2, <1>5, <2>2
    <3> QED BY <1>8, <1>12, <2>2, <3>1 DEF v
  <2> QED BY <1>2, <1>12, <2>1, <2>2
<1>15. d.a7 = FrameWords + Len(g) /\ Len(g) <= MaxNodes
  BY <1>2, <1>5, <1>7, <1>12
<1>16. Mirrors(g, t, ls, d)
  BY <1>7, <1>10, <1>12, <1>13, <1>14, <1>15 DEF Mirrors
<1> QED BY <1>16 DEF g, t, d, v

(* One word less. *)
LEMMA MirrorsPop ==
  ASSUME ParserInv, NEW h \in Seq(Known), NEW l \in Known, NEW s, NEW ls,
         NEW c, Mirrors(Append(h, l), s, ls, c)
  PROVE  \E r \in Seq(Word), x \in Word :
            /\ s = Append(r, x) /\ HasType(nodes[l].type, x)
            /\ TopWord(c) = Native(nodes[l].type, x)
            /\ Mirrors(h, r, ls, Popped(c, 1))
            /\ Len(h) < MaxNodes
<1> DEFINE g == Append(h, l)
           d == Popped(c, 1)
           r == SubSeq(s, 1, Len(h))
           x == s[Len(g)]
<1>1. /\ c \in Machines /\ Typed(g, s) /\ Len(g) <= MaxNodes
      /\ c.a7 = FrameWords + Len(g) /\ Framed(ls, c)
      /\ \A q \in 1 .. Len(g) :
            c.memory[FrameWords + q] = Native(nodes[g[q]].type, s[q])
  BY DEF Mirrors
<1>2. /\ Len(g) = Len(h) + 1 /\ g[Len(g)] = l /\ Len(h) \in Nat
      /\ \A q \in 1 .. Len(h) : g[q] = h[q]
  OBVIOUS
<1> HIDE DEF g
<1>3. /\ s \in Seq(Word) /\ Len(s) = Len(g)
      /\ \A q \in 1 .. Len(g) : HasType(nodes[g[q]].type, s[q])
  BY <1>1 DEF Typed
<1>4. FrameWords \in Nat /\ MaxNodes \in Nat  BY FrameFacts
<1>5. Len(g) \in 1 .. Len(g) /\ Len(h) \in 0 .. Len(s)  BY <1>2, <1>3
<1>6. /\ r \in Seq(Word) /\ Len(r) = Len(h)
      /\ \A q \in 1 .. Len(h) : r[q] = s[q]
  BY <1>2, <1>3, <1>5
<1>7. x \in Word /\ HasType(nodes[l].type, x)  BY <1>2, <1>3, <1>5
<1>8. s = Append(r, x)
  <2> HIDE DEF r
  <2>1. /\ Append(r, x) \in Seq(Word) /\ Len(Append(r, x)) = Len(r) + 1
        /\ Append(r, x)[Len(r) + 1] = x
        /\ \A q \in 1 .. Len(r) : Append(r, x)[q] = r[q]
    BY <1>6, <1>7
  <2> DEFINE t == Append(r, x)
  <2> HIDE DEF t
  <2>2. t \in Seq(Word) /\ Len(t) = Len(s) /\ \A q \in 1 .. Len(s) : t[q] = s[q]
    <3>1. \A q \in 1 .. Len(s) : q \in 1 .. Len(r) \/ q = Len(s)
      BY <1>2, <1>3, <1>6
    <3> QED BY <1>2, <1>3, <1>6, <2>1, <3>1 DEF t
  <2>3. t = s  BY <1>3, <2>2
  <2> QED BY <2>3 DEF t
<1>9. TopWord(c) = Native(nodes[l].type, x)  BY <1>1, <1>2, <1>5 DEF TopWord
<1>10. d \in Machines /\ d.a7 = FrameWords + Len(h) /\ d.memory = c.memory
  <2>1. c.a7 - 1 \in Nat /\ c.a7 - 1 = FrameWords + Len(h)
    BY <1>1, <1>2, <1>4
  <2> QED BY <1>1, <2>1 DEF Popped, Machines
<1> HIDE DEF d, r, x
<1>11. Typed(h, r)
  <2>1. ASSUME NEW q \in 1 .. Len(h)
        PROVE  HasType(nodes[h[q]].type, r[q])
    <3>1. q \in 1 .. Len(g)  BY <1>2
    <3> QED BY <1>2, <1>3, <1>6, <3>1
  <2> QED BY <1>6, <2>1 DEF Typed
<1>12. \A q \in 1 .. Len(h) :
          d.memory[FrameWords + q] = Native(nodes[h[q]].type, r[q])
  <2>1. \A q \in 1 .. Len(h) : q \in 1 .. Len(g)  BY <1>2
  <2> QED BY <1>1, <1>2, <1>6, <1>10, <2>1
<1>13. Len(h) < MaxNodes  BY <1>1, <1>2, <1>4
<1>14. Framed(ls, d)  BY <1>1, <1>10 DEF Framed
<1>15. Mirrors(h, r, ls, d)
  BY <1>10, <1>11, <1>12, <1>13, <1>14, <1>4, <1>2 DEF Mirrors
<1> QED BY <1>6, <1>7, <1>8, <1>9, <1>13, <1>15 DEF d

(* One instruction, of the evaluator and of the processor *)
LEMMA OtherOpcodes ==
  \A o \in {"push", "parameter", "local", "store", "neg", "normalize", "return"} :
     o \notin Arithmetic /\ o \notin Comparisons /\ o \notin Binary
     /\ o \notin Divisions
BY DEF Arithmetic, Comparisons, Equalities, Divisions, Binary

LEMMA EvaluateReads ==
  ASSUME NEW e, NEW i
  PROVE  /\ i.opcode = "push" =>
               Evaluate(e, i) = [e EXCEPT !.stack = Append(@, Pushed(i))]
         /\ i.opcode = "parameter" =>
               Evaluate(e, i) = [e EXCEPT !.stack = Append(@, argument[i.value])]
         /\ i.opcode = "local" =>
               Evaluate(e, i) = [e EXCEPT !.stack = Append(@, e.locals[i.value])]
BY OtherOpcodes DEF Evaluate

LEMMA EvaluateOthers ==
  ASSUME NEW e, NEW i
  PROVE  LET size == Len(e.stack)
             top == e.stack[size]
             Under(n) == SubSeq(e.stack, 1, size - n)
         IN  /\ i.opcode = "store" =>
                   Evaluate(e, i) = [e EXCEPT !.stack = Under(1),
                                              !.locals[i.value] = top]
             /\ i.opcode = "neg" =>
                   Evaluate(e, i) =
                      [e EXCEPT !.stack = Append(Under(1),
                                            Normalize(i.type, Negated(top)))]
             /\ i.opcode = "normalize" =>
                   Evaluate(e, i) =
                      [e EXCEPT !.stack = Append(Under(1), Normalize(i.type, top))]
             /\ i.opcode = "return" =>
                   Evaluate(e, i) = [e EXCEPT !.outcome = Returned(e.stack[1])]
<1>1. CASE i.opcode = "store"  BY <1>1, OtherOpcodes DEF Evaluate
<1>2. CASE i.opcode = "neg"  BY <1>2, OtherOpcodes DEF Evaluate
<1>3. CASE i.opcode = "normalize"  BY <1>3, OtherOpcodes DEF Evaluate
<1>4. CASE i.opcode = "return"  BY <1>4, OtherOpcodes DEF Evaluate
<1> QED BY <1>1, <1>2, <1>3, <1>4

LEMMA EvaluateBinary ==
  ASSUME NEW e, NEW i, i.opcode \in Binary
  PROVE  LET size == Len(e.stack)
             top == e.stack[size]
             left == e.stack[size - 1]
         IN  Evaluate(e, i) =
                IF Faults(i.opcode, top)
                THEN [e EXCEPT !.outcome = Fault(i.place)]
                ELSE [e EXCEPT !.stack =
                         Append(SubSeq(e.stack, 1, size - 2),
                                Apply(i.opcode, i.type, left, top))]
BY OtherOpcodes DEF Evaluate, Binary

LEMMA MachineReads ==
  ASSUME NEW c, NEW i
  PROVE  /\ i.opcode = "push" =>
               StepMachine(c, i) = Push(c, Native(i.type, Pushed(i)))
         /\ i.opcode = "parameter" =>
               StepMachine(c, i) = Push(c, c.memory[i.value])
         /\ i.opcode = "local" =>
               StepMachine(c, i) = Push(c, c.memory[SlotOfLocal(i.value)])
BY OtherOpcodes DEF StepMachine

LEMMA MachineOthers ==
  ASSUME NEW c, NEW i
  PROVE  /\ i.opcode = "store" =>
               StepMachine(c, i) =
                  [Popped(c, 1) EXCEPT !.memory[SlotOfLocal(i.value)] = TopWord(c)]
         /\ i.opcode = "neg" =>
               StepMachine(c, i) =
                  Push(Popped(c, 1),
                       Normalizing(i.type, Operation("neg.l", TopWord(c), 0)))
         /\ i.opcode = "normalize" =>
               StepMachine(c, i) = Push(Popped(c, 1), Normalizing(i.type, TopWord(c)))
         /\ i.opcode = "return" =>
               StepMachine(c, i) = [c EXCEPT !.outcome = Returned(TopWord(c))]
<1>1. CASE i.opcode = "store"  BY <1>1, OtherOpcodes DEF StepMachine
<1>2. CASE i.opcode = "neg"  BY <1>2, OtherOpcodes DEF StepMachine
<1>3. CASE i.opcode = "normalize"  BY <1>3, OtherOpcodes DEF StepMachine
<1>4. CASE i.opcode = "return"  BY <1>4, OtherOpcodes DEF StepMachine
<1> QED BY <1>1, <1>2, <1>3, <1>4

LEMMA MachineBinary ==
  ASSUME NEW c, NEW i
  PROVE  LET d1 == TopWord(c)
             d0 == c.memory[c.a7 - 1]
         IN  /\ i.opcode \in Arithmetic =>
                   StepMachine(c, i) =
                      IF Trap(c, i) THEN [c EXCEPT !.outcome = Fault(i.place)]
                      ELSE Push(Popped(c, 2),
                                Normalizing(i.type,
                                            Operation(MachineOp(i.opcode), d0, d1)))
             /\ i.opcode \in Comparisons =>
                   StepMachine(c, i) =
                      Push(Popped(c, 2), Test(ConditionCode(i.opcode), d0, d1))
<1>1. CASE i.opcode \in Arithmetic
  <2>1. i.opcode \notin Comparisons  BY <1>1, KindsDiffer
  <2> QED BY <1>1, <2>1, OtherOpcodes DEF StepMachine
<1>2. CASE i.opcode \in Comparisons
  <2>1. i.opcode \notin Arithmetic  BY <1>2, KindsDiffer
  <2> QED BY <1>2, <2>1, OtherOpcodes DEF StepMachine
<1> QED BY <1>1, <1>2

LEMMA WordOfLeaf ==
  ASSUME NEW n, NEW x, NEW y, nodes[n].kind \in Leaves
  PROVE  WordOf(n, x, y) = IF nodes[n].kind = "parameter"
                           THEN argument[nodes[n].value]
                           ELSE IF nodes[n].kind = "local"
                           THEN locals[nodes[n].value]
                           ELSE Pushed(NodeInstruction(n))
<1>1. nodes[n].kind \notin Binary  BY KindsDiffer
<1> QED BY <1>1 DEF WordOf, Leaves, PoolTypes

ArgumentsTyped ==
    /\ argument \in [1 .. ParameterCount -> Word]
    /\ \A p \in 1 .. ParameterCount :
          HasType(signature.parameters[p], argument[p])
LocalsTyped(ls) ==
    /\ ls \in [1 .. local_count -> Word \cup {Unset}]
    /\ \A l \in 1 .. local_count :
          ls[l] # Unset => HasType(signature.locals[l], ls[l])

Machine(s, ls, o) == [stack |-> s, locals |-> ls, outcome |-> o]

LEMMA LeafStep ==
  ASSUME ParserInv, ArgumentsTyped, LocalsTyped(locals), NEW h, NEW s, NEW c,
         Mirrors(h, s, locals, c), Len(h) < MaxNodes,
         NEW n \in Known, nodes[n].kind \in Leaves,
         nodes[n].kind = "local" => locals[nodes[n].value] # Unset
  PROVE  LET i == NodeInstruction(n)
             x == WordOf(n, 0, 0)
         IN  /\ HasType(nodes[n].type, x)
             /\ Evaluate(Machine(s, locals, Running), i)
                   = Machine(Append(s, x), locals, Running)
             /\ Mirrors(Append(h, n), Append(s, x), locals, StepMachine(c, i))
<1> DEFINE i == NodeInstruction(n)
           x == WordOf(n, 0, 0)
           y == nodes[n].type
           v == nodes[n].value
           kind == nodes[n].kind
           e == Machine(s, locals, Running)
<1>1. /\ i.opcode = Opcode(kind) /\ i.type = y /\ i.value = v
  BY KindsDiffer DEF NodeInstruction, Instruction, Binary
<1>2. /\ e.stack = s /\ e.locals = locals
      /\ \A t : [e EXCEPT !.stack = Append(@, t)]
                  = Machine(Append(s, t), locals, Running)
  BY DEF Machine
<1>3. FormedLeaf(nodes, pool, local_count, n)  BY NodeRecord DEF Formed
<1>4. kind \notin Binary  BY KindsDiffer
<1> HIDE DEF i, e
<1>5. ASSUME HasType(y, x), Evaluate(e, i) = Machine(Append(s, x), locals, Running),
             StepMachine(c, i) = Push(c, Native(y, x))
      PROVE  /\ HasType(y, x)
             /\ Evaluate(e, i) = Machine(Append(s, x), locals, Running)
             /\ Mirrors(Append(h, n), Append(s, x), locals, StepMachine(c, i))
  <2> HIDE DEF x
  <2>1. Mirrors(Append(h, n), Append(s, x), locals, Push(c, Native(y, x)))
    BY <1>5, MirrorsPush
  <2> QED BY <1>5, <2>1
<1>6. CASE kind \in {"literal", "truth"} \cup PoolTypes
  <2>1. x = Pushed(i) /\ i.opcode = "push"
    BY <1>1, <1>6, WordOfLeaf DEF i, Opcode, PoolTypes, Leaves
  <2>2. HasType(y, x)  BY <1>6, <2>1, PushedHasType DEF i
  <2> HIDE DEF x
  <2>3. Evaluate(e, i) = Machine(Append(s, x), locals, Running)
    BY <1>2, <2>1, EvaluateReads
  <2>4. StepMachine(c, i) = Push(c, Native(y, x))
    BY <1>1, <2>1, MachineReads
  <2> QED BY <1>5, <2>2, <2>3, <2>4 DEF e, i, x
<1>7. CASE kind = "parameter"
  <2>1. x = argument[v] /\ i.opcode = "parameter"
    BY <1>1, <1>7, WordOfLeaf DEF Opcode, PoolTypes
  <2>2. v \in 1 .. ParameterCount /\ signature.parameters[v] = y
    BY <1>3, <1>7 DEF FormedLeaf
  <2>3. HasType(y, x)  BY <2>1, <2>2 DEF ArgumentsTyped
  <2> HIDE DEF x
  <2>4. Evaluate(e, i) = Machine(Append(s, x), locals, Running)
    BY <1>1, <1>2, <2>1, EvaluateReads, SMTT(30)
  <2>5. c.memory[v] = Native(y, x)  BY <2>1, <2>2 DEF Mirrors, Framed
  <2>6. StepMachine(c, i) = Push(c, Native(y, x))
    BY <1>1, <2>1, <2>5, MachineReads
  <2> QED BY <1>5, <2>3, <2>4, <2>6 DEF e, i, x
<1>8. CASE kind = "local"
  <2>1. x = locals[v] /\ i.opcode = "local"
    BY <1>1, <1>8, WordOfLeaf DEF Opcode, PoolTypes
  <2>2. v \in 1 .. local_count /\ signature.locals[v] = y
    BY <1>3, <1>8 DEF FormedLeaf
  <2>3. HasType(y, x)  BY <1>8, <2>1, <2>2 DEF LocalsTyped
  <2> HIDE DEF x
  <2>4. Evaluate(e, i) = Machine(Append(s, x), locals, Running)
    BY <1>1, <1>2, <2>1, EvaluateReads
  <2>5. c.memory[SlotOfLocal(v)] = Native(y, x)
    BY <1>8, <2>1, <2>2 DEF Mirrors, Framed, NativeOrUnset
  <2>6. StepMachine(c, i) = Push(c, Native(y, x))
    BY <1>1, <2>1, <2>5, MachineReads
  <2> QED BY <1>5, <2>3, <2>4, <2>6 DEF e, i, x
<1> QED BY <1>6, <1>7, <1>8 DEF Leaves

LEMMA UnaryStep ==
  ASSUME ParserInv, NEW n \in Known, nodes[n].kind \in Unary,
         NEW h \in Seq(Known), NEW s, NEW c,
         Mirrors(Append(h, nodes[n].left), s, locals, c)
  PROVE  LET i == NodeInstruction(n)
         IN  \E r \in Seq(Word), x \in Word :
                LET v == WordOf(n, x, 0)
                IN  /\ s = Append(r, x) /\ Len(r) = Len(h)
                    /\ HasType(nodes[n].type, v)
                    /\ Evaluate(Machine(s, locals, Running), i)
                          = Machine(Append(r, v), locals, Running)
                    /\ Mirrors(Append(h, n), Append(r, v), locals,
                               StepMachine(c, i))
<1> DEFINE i == NodeInstruction(n)
           l == nodes[n].left
           y == nodes[n].type
           kind == nodes[n].kind
           e == Machine(s, locals, Running)
<1>1. n \in Nat /\ l \in 1 .. n - 1 /\ l \in Known
  <2>1. FormedUnary(nodes, n) /\ n \in Nat  BY NodeRecord DEF Formed
  <2> QED BY <2>1 DEF FormedUnary, Known
<1>2. /\ i.opcode = kind /\ i.type = y
  BY KindsDiffer DEF NodeInstruction, Instruction, Opcode, Leaves, Unary, Binary
<1> HIDE DEF l
<1>3. PICK r \in Seq(Word), x \in Word :
            /\ s = Append(r, x) /\ HasType(nodes[l].type, x)
            /\ TopWord(c) = Native(nodes[l].type, x)
            /\ Mirrors(h, r, locals, Popped(c, 1))
            /\ Len(h) < MaxNodes
  <2>1. Mirrors(Append(h, l), s, locals, c)  BY DEF l
  <2> QED BY <1>1, <2>1, MirrorsPop
<1> DEFINE v == WordOf(n, x, 0)
<1>4. HasType(y, v) /\ y \in IntegerTypes /\ nodes[l].type \in IntegerTypes
  BY <1>3, UnaryHasType DEF l
<1>5. Native(nodes[l].type, x) = x /\ Native(y, v) = v /\ y \in Types
  BY <1>4 DEF Native, IntegerTypes, SignedTypes, UnsignedTypes, AddressTypes,
              Types
<1>6. /\ Len(s) = Len(r) + 1 /\ s[Len(s)] = x
      /\ SubSeq(s, 1, Len(s) - 1) = r /\ Len(r) = Len(h)
  <2>1. /\ Len(s) = Len(r) + 1 /\ s[Len(s)] = x
        /\ SubSeq(s, 1, Len(s) - 1) = r
    BY <1>3
  <2>2. Len(r) = Len(h)  BY <1>3 DEF Mirrors, Typed
  <2> QED BY <2>1, <2>2
<1>7. /\ e.stack = s /\ e.locals = locals
      /\ \A t : [e EXCEPT !.stack = t] = Machine(t, locals, Running)
  BY DEF Machine
<1>8. /\ kind \notin Arithmetic \cup Comparisons
      /\ kind \notin {"literal", "truth"} \cup PoolTypes \cup {"parameter", "local"}
  BY KindsDiffer DEF Binary, Leaves
<1>9. x \in Word /\ x \in Int  BY <1>3, HasTypeFacts
<1> HIDE DEF e, i, y
<1>10. Mirrors(Append(h, n), Append(r, v), locals, Push(Popped(c, 1), v))
  <2> HIDE DEF v
  <2>1. HasType(nodes[n].type, v) /\ Native(nodes[n].type, v) = v
    BY <1>4, <1>5 DEF y
  <2>2. Mirrors(Append(h, n), Append(r, v), locals,
                Push(Popped(c, 1), Native(nodes[n].type, v)))
    BY <1>3, <2>1, MirrorsPush
  <2> QED BY <2>1, <2>2
<1>11. /\ Evaluate(e, i) = Machine(Append(r, v), locals, Running)
       /\ StepMachine(c, i) = Push(Popped(c, 1), v)
  <2>1. CASE kind = "neg"
    <3>1. v = Normalize(y, Negated(x))  BY <1>8, <2>1 DEF WordOf, y, Binary
    <3>2. Normalizing(y, Operation("neg.l", x, 0)) = v
      BY <1>5, <1>9, <3>1, MachineNegates
    <3>3. i.opcode = "neg"  BY <1>2, <2>1
    <3> HIDE DEF v, kind
    <3>4. Evaluate(e, i) = Machine(Append(r, v), locals, Running)
      <4>1. Evaluate(e, i) =
               [e EXCEPT !.stack = Append(SubSeq(e.stack, 1, Len(e.stack) - 1),
                                          Normalize(i.type, Negated(e.stack[Len(e.stack)])))]
        BY <3>3, EvaluateOthers
      <4>2. Evaluate(e, i) = [e EXCEPT !.stack = Append(r, v)]
        BY <1>2, <1>6, <1>7, <3>1, <4>1
      <4> QED BY <1>7, <4>2
    <3>5. StepMachine(c, i) = Push(Popped(c, 1), v)
      BY <1>2, <1>3, <1>5, <3>2, <3>3, MachineOthers
    <3> QED BY <3>4, <3>5
  <2>2. CASE kind = "normalize"
    <3>1. v = Normalize(y, x)  BY <1>8, <2>2 DEF WordOf, y, Binary
    <3>2. Normalizing(y, x) = v  BY <1>5, <1>9, <3>1, MachineNormalizes
    <3>3. i.opcode = "normalize"  BY <1>2, <2>2, SMTT(30)
    <3> HIDE DEF v, kind
    <3>4. Evaluate(e, i) = Machine(Append(r, v), locals, Running)
      <4>1. Evaluate(e, i) =
               [e EXCEPT !.stack = Append(SubSeq(e.stack, 1, Len(e.stack) - 1),
                                          Normalize(i.type, e.stack[Len(e.stack)]))]
        BY <3>3, EvaluateOthers
      <4>2. Evaluate(e, i) = [e EXCEPT !.stack = Append(r, v)]
        BY <1>2, <1>6, <1>7, <3>1, <4>1
      <4> QED BY <1>7, <4>2
    <3>5. StepMachine(c, i) = Push(Popped(c, 1), v)
      BY <1>2, <1>3, <1>5, <3>2, <3>3, MachineOthers
    <3> QED BY <3>4, <3>5
  <2> QED BY <2>1, <2>2 DEF Unary
<1> HIDE DEF v
<1>12. /\ s = Append(r, x) /\ Len(r) = Len(h)
       /\ HasType(nodes[n].type, v)
       /\ Evaluate(e, i) = Machine(Append(r, v), locals, Running)
       /\ Mirrors(Append(h, n), Append(r, v), locals, StepMachine(c, i))
  BY <1>3, <1>4, <1>6, <1>10, <1>11 DEF y
<1> QED BY <1>12 DEF e, i, v

LEMMA PoppedTwice ==
  ASSUME NEW c \in Machines, c.a7 - 1 \in Nat
  PROVE  /\ Popped(c, 2) = Popped(Popped(c, 1), 1)
         /\ TopWord(Popped(c, 1)) = c.memory[c.a7 - 1]
<1>1. c.a7 \in Nat /\ c.a7 - 2 = c.a7 - 1 - 1  BY DEF Machines
<1> DEFINE d == Popped(c, 1)
<1>2. d = [a7 |-> c.a7 - 1, outcome |-> c.outcome, memory |-> c.memory]
  BY DEF Popped, Machines
<1>3. /\ d.a7 = c.a7 - 1 /\ d.memory = c.memory
      /\ [d EXCEPT !.a7 = d.a7 - 1]
            = [a7 |-> c.a7 - 1 - 1, outcome |-> c.outcome, memory |-> c.memory]
  BY <1>2
<1>4. Popped(c, 2) = [a7 |-> c.a7 - 2, outcome |-> c.outcome, memory |-> c.memory]
  BY DEF Popped, Machines
<1>5. Popped(c, 2) = [d EXCEPT !.a7 = d.a7 - 1]  BY <1>1, <1>3, <1>4
<1> HIDE DEF d
<1>6. TopWord(d) = c.memory[c.a7 - 1] /\ Popped(c, 2) = Popped(d, 1)
  BY <1>3, <1>5 DEF TopWord, Popped
<1> QED BY <1>6 DEF d

(* Values compared, and their words in the processor. *)
LEMMA MachineComparesNative ==
  ASSUME ParserInv, NEW op \in Comparisons, NEW type \in Types,
         op \notin Equalities => type \in IntegerTypes,
         NEW x, NEW y, HasType(type, x), HasType(type, y)
  PROVE  Test(ConditionCode(op), Native(type, x), Native(type, y))
            = Apply(op, type, x, y)
<1> DEFINE a == Native(type, x)
           b == Native(type, y)
<1>1. a \in Word /\ b \in Word /\ (a = b <=> x = y)  BY NativeWords
<1>2. type \notin AddressTypes => a = x /\ b = y  BY NativeWords
<1> HIDE DEF a, b
<1>3. Test(ConditionCode(op), a, b) = Apply(op, type, a, b)
  BY <1>1, MachineCompares
<1>4. CASE type \in AddressTypes
  <2>1. type \notin IntegerTypes
    BY <1>4 DEF AddressTypes, IntegerTypes, SignedTypes, UnsignedTypes
  <2>2. op \in {"eq", "ne"}  BY <2>1 DEF Equalities
  <2>3. Apply(op, type, a, b) = Apply(op, type, x, y)
    BY <1>1, <2>2 DEF Apply, Truth
  <2> QED BY <1>3, <2>3 DEF a, b
<1>5. CASE type \notin AddressTypes  BY <1>2, <1>3, <1>5 DEF a, b
<1> QED BY <1>4, <1>5

(* The operands x and y are taken from the stack, and there is a fault or  *)
(* a result.                                                               *)
BinaryMoves(n, h, s, c, r, x, y) ==
    LET i == NodeInstruction(n)
        e == Evaluate(Machine(s, locals, Running), i)
        v == WordOf(n, x, y)
    IN  /\ s = Append(Append(r, x), y) /\ Len(r) = Len(h)
        /\ nodes[n].kind \in Divisions /\ y = 0 =>
              /\ e = Machine(s, locals, Fault(n))
              /\ StepMachine(c, i).outcome = Fault(n)
        /\ ~ (nodes[n].kind \in Divisions /\ y = 0) =>
              /\ HasType(nodes[n].type, v)
              /\ e = Machine(Append(r, v), locals, Running)
              /\ Mirrors(Append(h, n), Append(r, v), locals, StepMachine(c, i))

LEMMA BinaryStep ==
  ASSUME ParserInv, NEW n \in Known, nodes[n].kind \in Binary,
         NEW h \in Seq(Known), NEW s, NEW c,
         Mirrors(Append(Append(h, nodes[n].left), nodes[n].right), s, locals, c)
  PROVE  \E r \in Seq(Word), x \in Word, y \in Word :
            BinaryMoves(n, h, s, c, r, x, y)
<1> DEFINE i == NodeInstruction(n)
           l == nodes[n].left
           m == nodes[n].right
           z == nodes[n].type
           type == nodes[l].type
           kind == nodes[n].kind
           e == Machine(s, locals, Running)
           q == Append(h, l)
<1>1. /\ l \in Known /\ m \in Known /\ nodes[m].type = type /\ type \in Types
      /\ kind \in Arithmetic => z = type /\ type \in IntegerTypes
      /\ kind \in Comparisons => z = "bool"
      /\ kind \notin Equalities => type \in IntegerTypes
      /\ \A x, y : WordOf(n, x, y) = Apply(kind, type, x, y)
  BY BinaryFacts
<1>2. i.opcode = kind /\ i.type = type /\ i.place = n
  <2>1. kind \notin Leaves \cup Unary  BY KindsDiffer
  <2>2. kind \notin {"literal", "truth"} \cup PoolTypes  BY <2>1 DEF Leaves
  <2>3. CASE kind \in Comparisons
    BY <2>2, <2>3 DEF NodeInstruction, Instruction, Opcode
  <2>4. CASE kind \in Arithmetic
    <3>1. kind \notin Comparisons  BY <2>4, KindsDiffer
    <3> QED BY <1>1, <2>2, <2>4, <3>1 DEF NodeInstruction, Instruction, Opcode
  <2> QED BY <2>3, <2>4 DEF Binary
<1> HIDE DEF l, m, i, type, z
<1>3. q \in Seq(Known) /\ Len(q) = Len(h) + 1 /\ Len(h) \in Nat  BY <1>1
<1> HIDE DEF q
<1>4. PICK p \in Seq(Word), y \in Word :
            /\ s = Append(p, y) /\ HasType(nodes[m].type, y)
            /\ TopWord(c) = Native(nodes[m].type, y)
            /\ Mirrors(q, p, locals, Popped(c, 1))
  <2>1. Mirrors(Append(q, m), s, locals, c)  BY DEF l, m, q
  <2> QED BY <1>1, <1>3, <2>1, MirrorsPop
<1> DEFINE d == Popped(c, 1)
<1>5. PICK r \in Seq(Word), x \in Word :
            /\ p = Append(r, x) /\ HasType(nodes[l].type, x)
            /\ TopWord(d) = Native(nodes[l].type, x)
            /\ Mirrors(h, r, locals, Popped(d, 1))
            /\ Len(h) < MaxNodes
  <2> HIDE DEF d
  <2>1. Mirrors(Append(h, l), p, locals, d)  BY <1>4 DEF d, q
  <2> QED BY <1>1, <2>1, MirrorsPop
<1>6. /\ TopWord(c) = Native(type, y) /\ TopWord(d) = Native(type, x)
      /\ HasType(type, x) /\ HasType(type, y)
  BY <1>1, <1>4, <1>5 DEF type
<1>7. /\ Popped(c, 2) = Popped(d, 1)
      /\ c.memory[c.a7 - 1] = Native(type, x)
  <2>1. c \in Machines /\ c.a7 - 1 \in Nat
    <3>1. c \in Machines /\ c.a7 = FrameWords + Len(Append(q, m))
      BY DEF Mirrors, l, m, q
    <3>2. Len(Append(q, m)) = Len(h) + 2 /\ FrameWords \in Nat
      BY <1>1, <1>3, FrameFacts
    <3> QED BY <1>3, <3>1, <3>2
  <2> QED BY <1>6, <2>1, PoppedTwice
<1>8. /\ s = Append(Append(r, x), y) /\ Len(s) = Len(r) + 2 /\ s[Len(s)] = y
      /\ s[Len(s) - 1] = x /\ SubSeq(s, 1, Len(s) - 2) = r /\ Len(r) = Len(h)
  <2>1. Len(r) = Len(h)  BY <1>5 DEF Mirrors, Typed
  <2>2. s = Append(Append(r, x), y)  BY <1>4, <1>5
  <2> DEFINE W == Word
  <2> HIDE DEF W
  <2>3. r \in Seq(W) /\ x \in W /\ y \in W  BY DEF W
  <2>4. LET t == Append(Append(r, x), y)
        IN  /\ t[Len(t)] = y /\ t[Len(t) - 1] = x /\ Len(t) = Len(r) + 2
            /\ SubSeq(t, 1, Len(t) - 2) = r
    BY <2>3, UnderTwo
  <2> QED BY <2>1, <2>2, <2>4
<1>9. /\ e.stack = s /\ e.locals = locals
      /\ \A t : [e EXCEPT !.stack = t] = Machine(t, locals, Running)
      /\ \A o : [e EXCEPT !.outcome = o] = Machine(s, locals, o)
  BY DEF Machine
<1> DEFINE v == WordOf(n, x, y)
<1>10. v = Apply(kind, type, x, y)  BY <1>1
<1> HIDE DEF e, d, v
<1>11. Evaluate(e, i) = IF Faults(kind, y) THEN Machine(s, locals, Fault(n))
                        ELSE Machine(Append(r, v), locals, Running)
  <2>1. Evaluate(e, i) =
           IF Faults(i.opcode, e.stack[Len(e.stack)])
           THEN [e EXCEPT !.outcome = Fault(i.place)]
           ELSE [e EXCEPT !.stack =
                    Append(SubSeq(e.stack, 1, Len(e.stack) - 2),
                           Apply(i.opcode, i.type, e.stack[Len(e.stack) - 1],
                                 e.stack[Len(e.stack)]))]
    BY <1>2, EvaluateBinary
  <2>2. e.stack[Len(e.stack)] = y /\ e.stack[Len(e.stack) - 1] = x
        /\ SubSeq(e.stack, 1, Len(e.stack) - 2) = r
    BY <1>8, <1>9
  <2>3. Evaluate(e, i) = IF Faults(kind, y) THEN [e EXCEPT !.outcome = Fault(n)]
                         ELSE [e EXCEPT !.stack = Append(r, v)]
    BY <1>2, <1>10, <2>1, <2>2
  <2> QED BY <1>9, <2>3
<1>12. CASE Faults(kind, y)
  <2>1. kind \in Divisions /\ y = 0  BY <1>12 DEF Faults
  <2>2. kind \in Arithmetic  BY <2>1 DEF Arithmetic
  <2>3. TopWord(c) = 0
    <3>1. type \notin AddressTypes
      BY <1>1, <2>2 DEF AddressTypes, IntegerTypes, SignedTypes, UnsignedTypes
    <3> QED BY <1>6, <2>1, <3>1 DEF Native
  <2>4. StepMachine(c, i) = [c EXCEPT !.outcome = Fault(n)]
    <3>1. Trap(c, i)  BY <1>2, <2>1, <2>3 DEF Trap
    <3> QED BY <1>2, <2>2, <3>1, MachineBinary
  <2>5. c \in Machines  BY DEF Mirrors
  <2>6. StepMachine(c, i).outcome = Fault(n)  BY <2>4, <2>5 DEF Machines
  <2> QED BY <1>8, <1>11, <1>12, <2>1, <2>6 DEF BinaryMoves, e, i
<1>13. CASE ~ Faults(kind, y)
  <2>1. ~ (kind \in Divisions /\ y = 0)  BY <1>13 DEF Faults
  <2>2. HasType(z, v)  BY <1>4, <1>5, <1>13, BinaryHasType DEF v, z, l, m
  <2>3. z \notin AddressTypes
    <3>1. z \in IntegerTypes \cup {"bool"}  BY <1>1 DEF Binary
    <3> QED BY <3>1 DEF AddressTypes, IntegerTypes, SignedTypes, UnsignedTypes
  <2>4. StepMachine(c, i) = Push(Popped(d, 1), v)
    <3>1. CASE kind \in Arithmetic
      <4>1. Native(type, x) = x /\ Native(type, y) = y
        BY <1>1, <3>1 DEF Native, AddressTypes, IntegerTypes, SignedTypes,
                          UnsignedTypes
      <4>2. ~ Trap(c, i)  BY <1>2, <1>6, <2>1, <4>1 DEF Trap
      <4>3. Normalizing(type, Operation(MachineOp(kind), x, y)) = v
        BY <1>1, <1>10, <1>13, <3>1, MachineCalculates
      <4>4. StepMachine(c, i) =
               Push(Popped(c, 2),
                    Normalizing(i.type, Operation(MachineOp(i.opcode),
                                                  c.memory[c.a7 - 1], TopWord(c))))
        BY <1>2, <3>1, <4>2, MachineBinary
      <4> QED BY <1>2, <1>6, <1>7, <4>1, <4>3, <4>4
    <3>2. CASE kind \in Comparisons
      <4>1. Test(ConditionCode(kind), Native(type, x), Native(type, y)) = v
        BY <1>1, <1>6, <1>10, <3>2, MachineComparesNative
      <4>2. StepMachine(c, i) =
               Push(Popped(c, 2), Test(ConditionCode(i.opcode),
                                       c.memory[c.a7 - 1], TopWord(c)))
        BY <1>2, <3>2, MachineBinary
      <4> QED BY <1>2, <1>6, <1>7, <4>1, <4>2
    <3> QED BY <3>1, <3>2 DEF Binary
  <2>5. Mirrors(Append(h, n), Append(r, v), locals, StepMachine(c, i))
    <3>1. HasType(nodes[n].type, v) /\ Native(nodes[n].type, v) = v
      BY <2>2, <2>3 DEF z, Native
    <3> DEFINE f == Popped(d, 1)
    <3>2. Mirrors(h, r, locals, f)  BY <1>5 DEF d
    <3> HIDE DEF f
    <3>3. Mirrors(Append(h, n), Append(r, v), locals,
                  Push(f, Native(nodes[n].type, v)))
      BY <1>5, <3>1, <3>2, MirrorsPush
    <3> QED BY <2>4, <3>1, <3>3 DEF f
  <2> QED BY <1>8, <1>11, <1>13, <2>1, <2>2, <2>5 DEF BinaryMoves, e, i, z, v
<1> QED BY <1>12, <1>13

(* The end of a statement *)
LEMMA StoreFramed ==
  ASSUME ParserInv, NEW x, NEW l \in 1 .. local_count,
         HasType(signature.locals[l], x), LocalsTyped(locals),
         NEW h \in Seq(Known), NEW s, NEW d, Mirrors(h, s, locals, d)
  PROVE  LET ls == [locals EXCEPT ![l] = x]
             y == Native(signature.locals[l], x)
         IN  /\ LocalsTyped(ls)
             /\ Mirrors(h, s, ls, [d EXCEPT !.memory[SlotOfLocal(l)] = y])
<1> DEFINE ls == [locals EXCEPT ![l] = x]
           y == Native(signature.locals[l], x)
           a == SlotOfLocal(l)
           c == [d EXCEPT !.memory[a] = y]
<1>1. /\ FrameWords \in Nat /\ MaxNodes \in Nat /\ ParameterCount \in Nat
      /\ local_count \in Nat /\ FrameWords = ParameterCount + local_count
      /\ \A k \in 1 .. local_count :
            SlotOfLocal(k) \in ParameterCount + 1 .. FrameWords
  BY FrameFacts
<1>2. x \in Word /\ x # Unset  BY HasTypeFacts
<1>3. y \in Word  BY NativeWords
<1>4. LocalsTyped(ls)
  <2>1. locals \in [1 .. local_count -> Word \cup {Unset}]
        /\ \A k \in 1 .. local_count :
              locals[k] # Unset => HasType(signature.locals[k], locals[k])
    BY DEF LocalsTyped
  <2>2. ls \in [1 .. local_count -> Word \cup {Unset}]  BY <1>2, <2>1
  <2>3. \A k \in 1 .. local_count : ls[k] = IF k = l THEN x ELSE locals[k]
    BY <2>1
  <2> HIDE DEF ls
  <2> QED BY <2>1, <2>2, <2>3 DEF LocalsTyped
<1>5. /\ d \in Machines /\ Len(h) <= MaxNodes /\ Typed(h, s)
      /\ d.a7 = FrameWords + Len(h) /\ Framed(locals, d)
      /\ \A q \in 1 .. Len(h) :
            d.memory[FrameWords + q] = Native(nodes[h[q]].type, s[q])
  BY DEF Mirrors
<1> HIDE DEF y
<1>6. a \in Cells /\ a > ParameterCount /\ a <= FrameWords /\ a \in Nat
  BY <1>1 DEF Cells
<1>7. /\ c \in Machines /\ c.a7 = d.a7
      /\ c.memory = [d.memory EXCEPT ![a] = y]
      /\ d.memory \in [Cells -> Word \cup {Unset}]
  <2> HIDE DEF a
  <2> QED BY <1>3, <1>5, <1>6 DEF Machines
<1>8. /\ c.memory[a] = y
      /\ \A k \in Cells : k # a => c.memory[k] = d.memory[k]
  <2> HIDE DEF a, c
  <2> QED BY <1>6, <1>7
<1>9. Framed(ls, c)
  <2>1. ASSUME NEW p \in 1 .. ParameterCount
        PROVE  c.memory[p] = Native(signature.parameters[p], argument[p])
    <3>1. p \in Cells /\ p # a  BY <1>1, <1>6 DEF Cells
    <3> HIDE DEF a, c
    <3> QED BY <1>5, <1>8, <3>1 DEF Framed
  <2>2. ASSUME NEW k \in 1 .. local_count
        PROVE  c.memory[SlotOfLocal(k)]
                  = NativeOrUnset(signature.locals[k], ls[k])
    <3>1. ls[k] = IF k = l THEN x ELSE locals[k]  BY DEF LocalsTyped
    <3>2. CASE k = l  BY <1>2, <1>8, <3>1, <3>2 DEF NativeOrUnset, y
    <3>3. CASE k # l
      <4>1. SlotOfLocal(k) \in Cells /\ SlotOfLocal(k) # a
        BY <1>1, <3>3 DEF SlotOfLocal, Cells
      <4>2. d.memory[SlotOfLocal(k)]
               = NativeOrUnset(signature.locals[k], locals[k])
        BY <1>5 DEF Framed
      <4> HIDE DEF a, c
      <4> QED BY <1>8, <3>1, <3>3, <4>1, <4>2
    <3> QED BY <3>2, <3>3
  <2> HIDE DEF c, ls
  <2> QED BY <2>1, <2>2 DEF Framed
<1>10. ASSUME NEW q \in 1 .. Len(h)
       PROVE  c.memory[FrameWords + q] = Native(nodes[h[q]].type, s[q])
  <2>1. FrameWords + q \in Cells /\ FrameWords + q # a
    <3>1. Len(h) \in Nat  OBVIOUS
    <3> QED BY <1>1, <1>5, <1>6, <3>1 DEF Cells
  <2> HIDE DEF a, c
  <2> QED BY <1>5, <1>8, <2>1
<1> HIDE DEF c, ls
<1>11. Mirrors(h, s, ls, c)  BY <1>5, <1>7, <1>9, <1>10 DEF Mirrors
<1> QED BY <1>4, <1>11 DEF c, ls, y

LEMMA EndingStep ==
  ASSUME ParserInv, LocalsTyped(locals), NEW j \in 1 .. Len(statements),
         NEW s, NEW c,
         Mirrors(<<statements[j].expression>>, s, locals, c)
  PROVE  LET i == Ending(statements[j])
             l == statements[j].local
             e == Evaluate(Machine(s, locals, Running), i)
         IN  \E x \in Word :
                /\ s = <<x>> /\ HasType(TypeOfStatement(j), x)
                /\ Returning(j) =>
                      /\ e = Machine(s, locals, Returned(x))
                      /\ StepMachine(c, i).outcome
                            = Returned(Native(signature.result, x))
                /\ ~ Returning(j) =>
                      /\ l \in 1 .. local_count
                      /\ e = Machine(<<>>, [locals EXCEPT ![l] = x], Running)
                      /\ LocalsTyped([locals EXCEPT ![l] = x])
                      /\ Mirrors(<<>>, <<>>, [locals EXCEPT ![l] = x],
                                 StepMachine(c, i))
<1> DEFINE i == Ending(statements[j])
           l == statements[j].local
           n == statements[j].expression
           type == TypeOfStatement(j)
           e == Machine(s, locals, Running)
           d == Popped(c, 1)
<1>1. StatementInv(j) /\ n \in Known  BY StatementFacts DEF Known
<1>2. l \in 0 .. local_count /\ nodes[n].type = type /\ local_count \in Nat
  BY <1>1, ParserFacts DEF StatementInv
<1> HIDE DEF n, type
<1>3. PICK r \in Seq(Word), x \in Word :
            /\ s = Append(r, x) /\ HasType(type, x)
            /\ TopWord(c) = Native(type, x)
            /\ Mirrors(<<>>, r, locals, d)
  <2>1. Mirrors(Append(<<>>, n), s, locals, c)  BY DEF n
  <2>2. <<>> \in Seq(Known)  OBVIOUS
  <2> QED BY <1>1, <1>2, <2>1, <2>2, MirrorsPop
<1>4. r = <<>> /\ s = <<x>> /\ s[1] = x /\ Len(s) = 1
  <2>1. Len(r) = 0  BY <1>3 DEF Mirrors, Typed
  <2>2. r = <<>>  BY <1>3, <2>1
  <2>3. s = <<x>>  BY <1>3, <2>2
  <2> QED BY <2>2, <2>3
<1>5. /\ e.stack = s /\ e.locals = locals
      /\ \A o : [e EXCEPT !.outcome = o] = Machine(s, locals, o)
  BY DEF Machine
<1> HIDE DEF d
<1>6. CASE Returning(j)
  <2>1. l = 0 /\ type = signature.result /\ i.opcode = "return"
    BY <1>6 DEF Returning, TypeOfStatement, type, Ending, Instruction
  <2> HIDE DEF e, i
  <2>2. Evaluate(e, i) = Machine(s, locals, Returned(x))
    <3>1. Evaluate(e, i) = [e EXCEPT !.outcome = Returned(e.stack[1])]
      BY <2>1, EvaluateOthers
    <3>2. e.stack[1] = x  BY <1>4, <1>5
    <3> QED BY <1>5, <3>1, <3>2
  <2>3. StepMachine(c, i).outcome = Returned(Native(signature.result, x))
    <3>1. StepMachine(c, i) = [c EXCEPT !.outcome = Returned(TopWord(c))]
      BY <2>1, MachineOthers
    <3>2. c \in Machines  BY DEF Mirrors
    <3> QED BY <1>3, <2>1, <3>1, <3>2 DEF Machines
  <2> QED BY <1>3, <1>4, <1>6, <2>2, <2>3 DEF e, i, type
<1>7. CASE ~ Returning(j)
  <2>1. /\ l \in 1 .. local_count /\ type = signature.locals[l]
        /\ i.opcode = "store" /\ i.value = l
    BY <1>2, <1>7 DEF Returning, TypeOfStatement, type, Ending, Instruction
  <2> HIDE DEF i, l
  <2> DEFINE ls == [locals EXCEPT ![l] = x]
             f == [d EXCEPT !.memory[SlotOfLocal(l)] = Native(type, x)]
  <2>2. Evaluate(e, i) = Machine(<<>>, ls, Running)
    <3> HIDE DEF e
    <3>1. Evaluate(e, i) =
             [e EXCEPT !.stack = SubSeq(e.stack, 1, Len(e.stack) - 1),
                       !.locals[i.value] = e.stack[Len(e.stack)]]
      BY <2>1, EvaluateOthers
    <3>2. e.stack[Len(e.stack)] = x /\ SubSeq(e.stack, 1, Len(e.stack) - 1) = <<>>
      <4>1. SubSeq(s, 1, 0) = <<>>  BY <1>4
      <4>2. s[Len(s)] = x /\ Len(s) - 1 = 0  BY <1>4
      <4> QED BY <1>5, <4>1, <4>2
    <3>3. [e EXCEPT !.stack = <<>>, !.locals[l] = x] = Machine(<<>>, ls, Running)
      <4>1. e = [stack |-> s, locals |-> locals, outcome |-> Running]
        BY DEF e, Machine
      <4>2. [e EXCEPT !.stack = <<>>, !.locals = ls]
               = [stack |-> <<>>, locals |-> ls, outcome |-> Running]
        <5> DEFINE rec == [stack |-> <<>>, locals |-> locals, outcome |-> Running]
        <5> HIDE DEF ls
        <5>1. [e EXCEPT !.stack = <<>>] = rec  BY <4>1
        <5>2. [rec EXCEPT !.locals = ls]
                 = [stack |-> <<>>, locals |-> ls, outcome |-> Running]
          OBVIOUS
        <5>3. [[e EXCEPT !.stack = <<>>] EXCEPT !.locals = ls]
                 = [stack |-> <<>>, locals |-> ls, outcome |-> Running]
          <6> HIDE DEF rec
          <6> QED BY <5>1, <5>2
        <5> QED BY <5>3
      <4>3. [e EXCEPT !.stack = <<>>, !.locals[l] = x]
               = [e EXCEPT !.stack = <<>>, !.locals = ls]
        BY <4>1
      <4> QED BY <4>2, <4>3 DEF Machine
    <3>4. Evaluate(e, i) = [e EXCEPT !.stack = <<>>, !.locals[l] = x]
      BY <2>1, <3>1, <3>2
    <3> QED BY <3>3, <3>4, SMTT(30)
  <2>3. LocalsTyped(ls) /\ Mirrors(<<>>, <<>>, ls, f)
    <3>1. HasType(signature.locals[l], x) /\ Mirrors(<<>>, <<>>, locals, d)
      BY <1>3, <1>4, <2>1
    <3>2. <<>> \in Seq(Known)  OBVIOUS
    <3>3. /\ LocalsTyped([locals EXCEPT ![l] = x])
          /\ Mirrors(<<>>, <<>>, [locals EXCEPT ![l] = x],
                     [d EXCEPT !.memory[SlotOfLocal(l)]
                                  = Native(signature.locals[l], x)])
      BY <2>1, <3>1, <3>2, StoreFramed
    <3> QED BY <2>1, <3>3
  <2>4. StepMachine(c, i) = f  BY <1>3, <2>1, MachineOthers DEF d
  <2> QED BY <1>3, <1>4, <1>7, <2>1, <2>2, <2>3, <2>4 DEF e, i, l, type
<1> QED BY <1>6, <1>7

(* A step of the evaluator and of the processor, anywhere on the line *)

(* A statement's nodes come after those of the statements before it. *)
LEMMA EndsRise ==
  ASSUME ParserInv
  PROVE  \A k \in 0 .. Len(statements) : \A i \in 0 .. k : End(i) <= End(k)
<1> DEFINE N == Len(statements)
           S == {k \in Nat : k <= N => \A i \in 0 .. k : End(i) <= End(k)}
<1>1. N \in Nat  BY DEF ParserInv, StatementsInv
<1>2. 0 \in S  BY DEF End
<1>3. ASSUME NEW k \in Nat, k \in S
      PROVE  k + 1 \in S
  <2> SUFFICES ASSUME k + 1 <= N, NEW i \in 0 .. k + 1
               PROVE  End(i) <= End(k + 1)
    BY <1>3
  <2>1. k + 1 \in 1 .. N  BY <1>1
  <2>2. /\ End(k + 1) \in Nat /\ End(k + 1 - 1) \in Nat
        /\ Size(nodes)[End(k + 1)] \in Nat \ {0}
        /\ Size(nodes)[End(k + 1)] <= End(k + 1) - End(k + 1 - 1)
    BY <2>1, StatementFacts
  <2> DEFINE z == Size(nodes)[End(k + 1)]
  <2>3. z \in Nat \ {0} /\ z <= End(k + 1) - End(k + 1 - 1)  BY <2>2
  <2> HIDE DEF z
  <2>4. k + 1 - 1 = k  OBVIOUS
  <2>5. End(k) <= End(k + 1) /\ End(k) \in Nat  BY <2>2, <2>3, <2>4
  <2>6. CASE i = k + 1  BY <2>2, <2>6
  <2>7. CASE i # k + 1
    <3>1. i \in 0 .. k /\ k <= N  BY <1>1, <2>7
    <3>2. End(i) <= End(k)  BY <1>3, <3>1
    <3>3. End(i) \in Nat
      <4>1. CASE i = 0  BY <4>1 DEF End
      <4>2. CASE i # 0
        <5>1. i \in 1 .. N  BY <1>1, <3>1, <4>2
        <5> QED BY <5>1, StatementFacts
      <4> QED BY <4>1, <4>2
    <3> QED BY <2>2, <2>5, <3>2, <3>3
  <2> QED BY <2>6, <2>7
<1>4. \A k \in Nat : k \in S
  <2> HIDE DEF S
  <2> QED BY <1>2, <1>3, SetInduction
<1> QED BY <1>1, <1>4

(* The locals of the statements done have words. *)
Stored(done, ls) == \A i \in 1 .. done : ls[statements[i].local] # Unset

LEMMA LocalIsStored ==
  ASSUME ParserInv, NEW d \in Nat, d + 1 \in 1 .. Len(statements),
         NEW ls, Stored(d, ls),
         NEW n \in 1 .. statements[d + 1].expression, n \in Known,
         nodes[n].kind = "local"
  PROVE  ls[nodes[n].value] # Unset
<1>1. PICK i \in 1 .. Len(statements) :
            /\ statements[i].local = nodes[n].value
            /\ statements[i].expression < n
  BY DEF ParserInv, StoredInv, Known
<1>2. i <= d
  <2> SUFFICES ASSUME i > d PROVE FALSE
    OBVIOUS
  <2>1. d + 1 \in 0 .. i /\ i \in 0 .. Len(statements)  OBVIOUS
  <2>2. End(d + 1) <= End(i)  BY <2>1, EndsRise
  <2>3. /\ End(d + 1) = statements[d + 1].expression
        /\ End(i) = statements[i].expression
        /\ End(d + 1) \in Nat /\ End(i) \in Nat
    BY StatementFacts
  <2> QED BY <1>1, <2>2, <2>3 DEF Known
<1> QED BY <1>1, <1>2 DEF Stored

(* What the instruction of a node makes of the stack. *)
Computed(n, t) ==
    \/ nodes[n].kind \in Leaves /\ t = Append(stack, WordOf(n, 0, 0))
    \/ /\ nodes[n].kind \in Unary
       /\ \E r \in Seq(Word), x \in Word :
             stack = Append(r, x) /\ t = Append(r, WordOf(n, x, 0))
    \/ /\ nodes[n].kind \in Binary
       /\ \E r \in Seq(Word), x \in Word, y \in Word :
             /\ stack = Append(Append(r, x), y)
             /\ ~ (nodes[n].kind \in Divisions /\ y = 0)
             /\ t = Append(r, WordOf(n, x, y))

(* The instruction of a division by zero. *)
Failing(n) ==
    /\ nodes[n].kind \in Divisions
    /\ \E r \in Seq(Word), x \in Word : stack = Append(Append(r, x), 0)

(* Before an instruction. *)
Ready(a) ==
    /\ a \in States /\ a.held \in Seq(Known)
    /\ ArgumentsTyped /\ LocalsTyped(locals)
    /\ Mirrors(a.held, stack, locals, cpu) /\ Stored(a.done, locals)
    /\ outcome = Running

LEMMA WithinStep ==
  ASSUME ParserInv, NEW a, NEW b, NEW i, Ready(a), Len(b.held) <= MaxNodes,
         b \in States, b.held \in Seq(Known),
         a.done + 1 \in 1 .. Len(statements), Within(a, i, b)
  PROVE  LET e == Evaluate(Machine(stack, locals, Running), i)
         IN  \/ /\ Failing(i.place)
                /\ e = Machine(stack, locals, Fault(i.place))
                /\ StepMachine(cpu, i).outcome = Fault(i.place)
             \/ \E t : /\ Computed(i.place, t)
                       /\ e = Machine(t, locals, Running)
                       /\ Mirrors(b.held, t, locals, StepMachine(cpu, i))
<1> DEFINE n == i.place
           c == cpu
           s == stack
           h == a.held
<1>1. /\ n \in 1 .. statements[a.done + 1].expression
      /\ i = NodeInstruction(n) /\ NodeMoves(h, n, b.held)
  BY DEF Within
<1>2. n \in Known /\ a.done \in Nat
  <2>1. End(a.done + 1) = statements[a.done + 1].expression
        /\ End(a.done + 1) \in 1 .. Len(nodes)
    BY StatementFacts
  <2>2. Len(nodes) \in Nat  BY DEF ParserInv, Table
  <2> QED BY <1>1, <2>1, <2>2 DEF Known, Ready, States
<1>3. /\ ArgumentsTyped /\ LocalsTyped(locals) /\ Mirrors(h, s, locals, c)
      /\ h \in Seq(Known) /\ Stored(a.done, locals)
  BY DEF Ready
<1>4. nodes[n].kind \in Leaves \cup Unary \cup Binary
  BY <1>2, NodeRecord DEF Kinds
<1> HIDE DEF n, c, s, h
<1>5. CASE nodes[n].kind \in Leaves
  <2>1. b.held = Append(h, n)  BY <1>1, <1>5, KindsDiffer DEF NodeMoves
  <2>2. Len(h) < MaxNodes
    <3>1. Len(b.held) = Len(h) + 1 /\ Len(h) \in Nat  BY <1>3, <2>1
    <3>2. MaxNodes \in Nat  BY FrameFacts
    <3> QED BY <3>1, <3>2
  <2>3. nodes[n].kind = "local" => locals[nodes[n].value] # Unset
    BY <1>1, <1>2, <1>3, LocalIsStored
  <2> DEFINE t == Append(s, WordOf(n, 0, 0))
  <2>4. /\ Evaluate(Machine(s, locals, Running), NodeInstruction(n))
              = Machine(t, locals, Running)
        /\ Mirrors(Append(h, n), t, locals, StepMachine(c, NodeInstruction(n)))
    BY <1>2, <1>3, <1>5, <2>2, <2>3, LeafStep
  <2>5. Computed(n, t)  BY <1>5 DEF Computed, s
  <2> HIDE DEF t
  <2> QED BY <1>1, <2>1, <2>4, <2>5 DEF n, c, s
<1>6. CASE nodes[n].kind \in Unary
  <2>2. PICK r0 \in Seq(Nat) :
               h = Append(r0, nodes[n].left) /\ b.held = Append(r0, n)
    BY <1>1, <1>6, KindsDiffer DEF NodeMoves
  <2>3. r0 \in Seq(Known)
    <3>1. nodes[n].left \in Nat
      BY <1>2, <1>6, NodeRecord DEF Formed, FormedUnary, Known
    <3>2. Append(r0, nodes[n].left) \in Seq(Known)  BY <1>3, <2>2
    <3> QED BY <3>1, <3>2, HeldOperands
  <2>4. Mirrors(Append(r0, nodes[n].left), s, locals, c)  BY <1>3, <2>2
  <2>5. PICK r \in Seq(Word), x \in Word :
               LET v == WordOf(n, x, 0)
               IN  /\ s = Append(r, x)
                   /\ Evaluate(Machine(s, locals, Running), NodeInstruction(n))
                         = Machine(Append(r, v), locals, Running)
                   /\ Mirrors(Append(r0, n), Append(r, v), locals,
                              StepMachine(c, NodeInstruction(n)))
    BY <1>2, <1>6, <2>3, <2>4, UnaryStep
  <2> DEFINE t == Append(r, WordOf(n, x, 0))
  <2>6. Computed(n, t)  BY <1>6, <2>5 DEF Computed, s
  <2>7. /\ Evaluate(Machine(s, locals, Running), NodeInstruction(n))
              = Machine(t, locals, Running)
        /\ Mirrors(Append(r0, n), t, locals, StepMachine(c, NodeInstruction(n)))
    BY <2>5
  <2> HIDE DEF t
  <2> QED BY <1>1, <2>2, <2>6, <2>7 DEF n, c, s
<1>7. CASE nodes[n].kind \in Binary
  <2>2. PICK r0 \in Seq(Nat) :
               /\ h = Append(Append(r0, nodes[n].left), nodes[n].right)
               /\ b.held = Append(r0, n)
    BY <1>1, <1>7, KindsDiffer DEF NodeMoves
  <2>3. r0 \in Seq(Known)
    <3>1. nodes[n].left \in Nat /\ nodes[n].right \in Nat
      BY <1>2, <1>7, BinaryFacts DEF Known
    <3>2. Append(Append(r0, nodes[n].left), nodes[n].right) \in Seq(Known)
      BY <1>3, <2>2
    <3> QED BY <3>1, <3>2, HeldOperands
  <2>4. Mirrors(Append(Append(r0, nodes[n].left), nodes[n].right), s, locals, c)
    BY <1>3, <2>2
  <2> DEFINE f == NodeInstruction(n)
             e == Evaluate(Machine(s, locals, Running), f)
  <2>5. PICK r \in Seq(Word), x \in Word, y \in Word :
               BinaryMoves(n, r0, s, c, r, x, y)
    BY <1>2, <1>7, <2>3, <2>4, BinaryStep
  <2>5a. /\ s = Append(Append(r, x), y)
         /\ nodes[n].kind \in Divisions /\ y = 0 =>
               /\ e = Machine(s, locals, Fault(n))
               /\ StepMachine(c, f).outcome = Fault(n)
         /\ ~ (nodes[n].kind \in Divisions /\ y = 0) =>
               /\ e = Machine(Append(r, WordOf(n, x, y)), locals, Running)
               /\ Mirrors(Append(r0, n), Append(r, WordOf(n, x, y)), locals,
                          StepMachine(c, f))
    BY <2>5 DEF BinaryMoves
  <2> HIDE DEF e, f
  <2>6. CASE nodes[n].kind \in Divisions /\ y = 0
    <3>1. Failing(n)  BY <2>5a, <2>6 DEF Failing, s
    <3>2. /\ e = Machine(s, locals, Fault(n))
          /\ StepMachine(c, f).outcome = Fault(n)
      BY <2>5a, <2>6
    <3> QED BY <1>1, <3>1, <3>2 DEF n, c, s, e, f
  <2>7. CASE ~ (nodes[n].kind \in Divisions /\ y = 0)
    <3> DEFINE t == Append(r, WordOf(n, x, y))
    <3>1. Computed(n, t)  BY <1>7, <2>5a, <2>7 DEF Computed, s
    <3>2. /\ e = Machine(t, locals, Running)
          /\ Mirrors(Append(r0, n), t, locals, StepMachine(c, f))
      BY <2>5a, <2>7
    <3> HIDE DEF t
    <3> QED BY <1>1, <2>2, <3>1, <3>2 DEF n, c, s, e, f
  <2> QED BY <2>6, <2>7
<1> QED BY <1>4, <1>5, <1>6, <1>7

LEMMA EndStep ==
  ASSUME ParserInv, mode \in Finished, NEW a, NEW b, NEW i, Ready(a),
         a.done + 1 \in 1 .. Len(statements), Ends(a, i, b)
  PROVE  LET e == Evaluate(Machine(stack, locals, Running), i)
             j == a.done + 1
             l == statements[j].local
         IN  \E x \in Word :
                /\ stack = <<x>>
                /\ Returning(j) =>
                      /\ HasType(signature.result, x) /\ j = Len(statements)
                      /\ e = Machine(stack, locals, Returned(x))
                      /\ StepMachine(cpu, i).outcome
                            = Returned(Native(signature.result, x))
                /\ ~ Returning(j) =>
                      LET ls == [locals EXCEPT ![l] = x]
                      IN  /\ HasType(signature.locals[l], x)
                          /\ l \in 1 .. local_count /\ j < Len(statements)
                          /\ e = Machine(<<>>, ls, Running)
                          /\ LocalsTyped(ls)
                          /\ Mirrors(b.held, <<>>, ls, StepMachine(cpu, i))
                          /\ Stored(b.done, ls)
<1> DEFINE e == Evaluate(Machine(stack, locals, Running), i)
           j == a.done + 1
           l == statements[j].local
<1>1. /\ i = Ending(statements[j]) /\ a.held = <<statements[j].expression>>
      /\ b.held = <<>> /\ b.done = j
  BY DEF Ends, State
<1>2. /\ LocalsTyped(locals) /\ Mirrors(a.held, stack, locals, cpu)
      /\ Stored(a.done, locals) /\ a.done \in Nat
  BY DEF Ready, States
<1>3. j \in 1 .. Len(statements) /\ a.done = j - 1 /\ j \in Nat  BY <1>2
<1> HIDE DEF j
<1> DEFINE f == Ending(statements[j])
           g == Evaluate(Machine(stack, locals, Running), f)
<1>4. Mirrors(<<statements[j].expression>>, stack, locals, cpu)
  BY <1>1, <1>2
<1>5. PICK x \in Word :
            /\ stack = <<x>> /\ HasType(TypeOfStatement(j), x)
            /\ Returning(j) =>
                  /\ g = Machine(stack, locals, Returned(x))
                  /\ StepMachine(cpu, f).outcome
                        = Returned(Native(signature.result, x))
            /\ ~ Returning(j) =>
                  /\ l \in 1 .. local_count
                  /\ g = Machine(<<>>, [locals EXCEPT ![l] = x], Running)
                  /\ LocalsTyped([locals EXCEPT ![l] = x])
                  /\ Mirrors(<<>>, <<>>, [locals EXCEPT ![l] = x],
                             StepMachine(cpu, f))
  BY <1>2, <1>3, <1>4, EndingStep
<1>6. e = g /\ i = f  BY <1>1
<1> HIDE DEF f, g, e
<1>7. Returning(j) <=> j = Len(statements)
  BY <1>3, StatementFacts DEF StatementInv
<1>8. CASE Returning(j)
  BY <1>1, <1>5, <1>6, <1>7, <1>8 DEF TypeOfStatement, e, j
<1>9. CASE ~ Returning(j)
  <2> DEFINE ls == [locals EXCEPT ![l] = x]
  <2>1. j < Len(statements)  BY <1>3, <1>7, <1>9
  <2>2. Stored(j, ls)
    <3> SUFFICES ASSUME NEW k \in 1 .. j
                 PROVE  ls[statements[k].local] # Unset
      BY DEF Stored
    <3>1. k \in 1 .. Len(statements) /\ k # Len(statements)  BY <1>3, <2>1
    <3>2. statements[k].local \in 1 .. local_count
      <4>1. StatementInv(k)  BY <3>1, StatementFacts
      <4>2. statements[k].local \in 0 .. local_count /\ statements[k].local # 0
        BY <3>1, <4>1 DEF StatementInv, Returning
      <4> QED BY <4>2
    <3>3. x # Unset  BY <1>5, HasTypeFacts
    <3>4. locals \in [1 .. local_count -> Word \cup {Unset}]
      BY <1>2 DEF LocalsTyped
    <3>5. k \in 1 .. a.done \/ k = j  BY <1>2, <1>3
    <3>6. ls[statements[k].local] = IF statements[k].local = l THEN x
                                    ELSE locals[statements[k].local]
      BY <3>2, <3>4
    <3> QED BY <1>2, <3>3, <3>5, <3>6 DEF Stored
  <2> HIDE DEF ls
  <2>3. /\ HasType(signature.locals[l], x) /\ l \in 1 .. local_count
        /\ g = Machine(<<>>, ls, Running) /\ LocalsTyped(ls)
        /\ Mirrors(<<>>, <<>>, ls, StepMachine(cpu, f))
    BY <1>5, <1>9 DEF TypeOfStatement, ls
  <2> QED BY <1>1, <1>5, <1>6, <1>9, <2>1, <2>2, <2>3 DEF ls, e, j
<1> QED BY <1>8, <1>9 DEF j

(* The program never changes during a call. *)
LEMMA SameTypes ==
  ASSUME UNCHANGED parserVars
  PROVE  \A type, x : HasType(type, x)' <=> HasType(type, x)
BY DEF HasType, Acceptable, parserVars

LEMMA SameMirrors ==
  ASSUME UNCHANGED <<parserVars, argument>>, NEW h, NEW s, NEW ls, NEW c,
         Mirrors(h, s, ls, c), stack' = s, locals' = ls, cpu' = c
  PROVE  Mirrors(h, stack, locals, cpu)'
BY SameTypes DEF Mirrors, Typed, Framed, Machines, Cells, FrameWords, ParameterCount,
                 SlotOfLocal, NativeOrUnset, Known, parserVars

LEMMA SameLocals ==
  ASSUME UNCHANGED <<parserVars, argument>>, NEW ls, LocalsTyped(ls), locals' = ls
  PROVE  /\ LocalsTyped(locals)'
         /\ ArgumentsTyped => ArgumentsTyped'
BY SameTypes DEF LocalsTyped, ArgumentsTyped, ParameterCount, parserVars

LEMMA SameLine ==
  ASSUME UNCHANGED <<parserVars, code>>, NEW w
  PROVE  Line(w, code, Len(statements)) => Line(w, code, Len(statements))'
<1>1. /\ nodes' = nodes /\ statements' = statements /\ code' = code
      /\ signature' = signature
  BY DEF parserVars
<1>2. \A n : NodeInstruction(n)' = NodeInstruction(n)
  BY <1>1 DEF NodeInstruction
<1>3. \A s, n, t : NodeMoves(s, n, t)' <=> NodeMoves(s, n, t)
  BY <1>1 DEF NodeMoves
<1>4. \A M : Propagates(M)' <=> Propagates(M)  BY <1>1 DEF Propagates
<1>5. \A s : Ending(s)' = Ending(s)  BY <1>1 DEF Ending
<1>6. \A a, i, b : Within(a, i, b)' <=> Within(a, i, b)
  BY <1>1, <1>2, <1>3, <1>4 DEF Within
<1>7. \A a, i, b : Ends(a, i, b)' <=> Ends(a, i, b)  BY <1>1, <1>5 DEF Ends
<1>8. \A a, i, b : Follows(a, i, b)' <=> Follows(a, i, b)
  BY <1>1, <1>6, <1>7 DEF Follows
<1> QED BY <1>1, <1>8 DEF Line

(* The invariant of a call *)

(* What a step makes of the stack, the locals, the outcome and the         *)
(* processor: a division by zero, a result, the end of the function or the *)
(* end of a statement before it.                                           *)
Divides(a, i, b, s, ls, o, c) ==
    /\ Within(a, i, b) /\ Failing(i.place)
    /\ s = stack /\ ls = locals /\ o = Fault(i.place)
    /\ c.outcome = Fault(i.place)
Computes(a, i, b, s, ls, o, c) ==
    /\ Within(a, i, b) /\ Computed(i.place, s)
    /\ ls = locals /\ o = Running /\ Mirrors(b.held, s, ls, c)
Finishes(a, i, b, s, ls, o, c) ==
    /\ Ends(a, i, b) /\ Returning(a.done + 1) /\ a.done + 1 = Len(statements)
    /\ s = stack /\ ls = locals
    /\ \E x \in Word : /\ stack = <<x>> /\ HasType(signature.result, x)
                       /\ o = Returned(x)
                       /\ c.outcome = Returned(Native(signature.result, x))
Stores(a, i, b, s, ls, o, c) ==
    LET l == statements[a.done + 1].local
    IN  /\ Ends(a, i, b) /\ ~ Returning(a.done + 1)
        /\ a.done + 1 < Len(statements) /\ s = <<>> /\ o = Running
        /\ \E x \in Word : /\ stack = <<x>> /\ HasType(signature.locals[l], x)
                           /\ l \in 1 .. local_count
                           /\ ls = [locals EXCEPT ![l] = x]
        /\ LocalsTyped(ls) /\ Mirrors(b.held, s, ls, c) /\ Stored(b.done, ls)
Moves(a, i, b, s, ls, o, c) ==
    \/ Divides(a, i, b, s, ls, o, c) \/ Computes(a, i, b, s, ls, o, c)
    \/ Finishes(a, i, b, s, ls, o, c) \/ Stores(a, i, b, s, ls, o, c)

Outcomes(o) == \/ o = Running \/ \E p : o = Fault(p)
               \/ \E x : o = Returned(x) /\ HasType(signature.result, x)

(* The call follows the line w. *)
Called(w) ==
    /\ Line(w, code, Len(statements))
    /\ pc \in 1 .. Len(code) + 1 /\ Len(code) \in Nat
    /\ cpu.outcome = NativeOutcome
    /\ ArgumentsTyped /\ LocalsTyped(locals) /\ Outcomes(outcome)
    /\ outcome = Running => /\ w[pc - 1].done + 1 \in 1 .. Len(statements)
                            /\ Ready(w[pc - 1])

RunInv ==
    /\ pc # 0 => mode = "compiled"
    /\ mode = "compiled" => code = LowerStatements[Len(statements)]
    /\ pc = 0 => stack = <<>> /\ outcome = Running
    /\ pc # 0 => \E w : Called(w)

LEMMA LineFacts ==
  ASSUME ParserInv, NEW w, Line(w, code, Len(statements)), Len(code) \in Nat
  PROVE  /\ \A k \in 0 .. Len(code) : /\ w[k] \in States
                                      /\ w[k].held \in Seq(Known)
                                      /\ Len(w[k].held) <= MaxNodes
                                      /\ StackTypes(code)[k] = TypesOf(w[k].held)
         /\ \A k \in 1 .. Len(code) : Follows(w[k - 1], code[k], w[k])
         /\ w[0] = State(<<>>, 0) /\ w[Len(code)] = State(<<>>, Len(statements))
<1>1. \A k \in 0 .. Len(code) : /\ w[k] \in States /\ w[k].held \in Seq(Known)
                                /\ StackTypes(code)[k] = TypesOf(w[k].held)
  BY LineTypes
<1> QED BY <1>1 DEF Line

LEMMA MovesOn ==
  ASSUME ParserInv, mode \in Finished, NEW a, NEW b, NEW i, Ready(a),
         b \in States, b.held \in Seq(Known), Len(b.held) <= MaxNodes,
         Follows(a, i, b)
  PROVE  LET e == Evaluate(Machine(stack, locals, Running), i)
         IN  Moves(a, i, b, e.stack, e.locals, e.outcome, StepMachine(cpu, i))
<1> DEFINE e == Evaluate(Machine(stack, locals, Running), i)
           c == StepMachine(cpu, i)
<1>1. a.done + 1 \in 1 .. Len(statements)  BY DEF Follows
<1>2. \A s, ls, o : /\ Machine(s, ls, o).stack = s
                    /\ Machine(s, ls, o).locals = ls
                    /\ Machine(s, ls, o).outcome = o
  BY DEF Machine
<1>3. CASE Within(a, i, b)
  <2>1. \/ /\ Failing(i.place)
           /\ e = Machine(stack, locals, Fault(i.place))
           /\ c.outcome = Fault(i.place)
        \/ \E t : /\ Computed(i.place, t)
                  /\ e = Machine(t, locals, Running)
                  /\ Mirrors(b.held, t, locals, c)
    BY <1>1, <1>3, WithinStep
  <2> HIDE DEF e, c
  <2>2. CASE /\ Failing(i.place)
             /\ e = Machine(stack, locals, Fault(i.place))
             /\ c.outcome = Fault(i.place)
    <3>1. Divides(a, i, b, e.stack, e.locals, e.outcome, c)
      BY <1>2, <1>3, <2>2 DEF Divides
    <3> QED BY <3>1 DEF Moves, e, c
  <2>3. ASSUME NEW t, Computed(i.place, t), e = Machine(t, locals, Running),
               Mirrors(b.held, t, locals, c)
        PROVE  Moves(a, i, b, e.stack, e.locals, e.outcome, c)
    <3>1. Computes(a, i, b, e.stack, e.locals, e.outcome, c)
      BY <1>2, <1>3, <2>3 DEF Computes
    <3> QED BY <3>1 DEF Moves
  <2> QED BY <2>1, <2>2, <2>3 DEF e, c
<1>4. CASE Ends(a, i, b)
  <2> DEFINE j == a.done + 1
             l == statements[j].local
  <2>1. PICK x \in Word :
                /\ stack = <<x>>
                /\ Returning(j) =>
                      /\ HasType(signature.result, x) /\ j = Len(statements)
                      /\ e = Machine(stack, locals, Returned(x))
                      /\ c.outcome = Returned(Native(signature.result, x))
                /\ ~ Returning(j) =>
                      LET ls == [locals EXCEPT ![l] = x]
                      IN  /\ HasType(signature.locals[l], x)
                          /\ l \in 1 .. local_count /\ j < Len(statements)
                          /\ e = Machine(<<>>, ls, Running)
                          /\ LocalsTyped(ls)
                          /\ Mirrors(b.held, <<>>, ls, c)
                          /\ Stored(b.done, ls)
    BY <1>1, <1>4, EndStep
  <2> HIDE DEF e, c
  <2>2. CASE Returning(j)
    <3>1. Finishes(a, i, b, e.stack, e.locals, e.outcome, c)
      BY <1>2, <1>4, <2>1, <2>2 DEF Finishes
    <3> QED BY <3>1 DEF Moves, e, c
  <2>3. CASE ~ Returning(j)
    <3>1. Stores(a, i, b, e.stack, e.locals, e.outcome, c)
      <4> DEFINE ls == [locals EXCEPT ![l] = x]
      <4>1. /\ HasType(signature.locals[l], x)
            /\ l \in 1 .. local_count /\ j < Len(statements)
            /\ e = Machine(<<>>, ls, Running) /\ LocalsTyped(ls)
            /\ Mirrors(b.held, <<>>, ls, c) /\ Stored(b.done, ls)
            /\ stack = <<x>>
        BY <2>1, <2>3
      <4> HIDE DEF ls
      <4>2. e.stack = <<>> /\ e.locals = ls /\ e.outcome = Running
        BY <1>2, <4>1
      <4> QED BY <1>4, <2>3, <4>1, <4>2 DEF Stores, ls
    <3> QED BY <3>1 DEF Moves, e, c
  <2> QED BY <2>2, <2>3
<1> QED BY <1>3, <1>4 DEF Follows

(* A step of a call. *)
LEMMA StepMoves ==
  ASSUME ParserInv, mode = "compiled", NEW w, Called(w), Step
  PROVE  /\ outcome = Running /\ pc \in 1 .. Len(code)
         /\ w[pc - 1] \in States /\ w[pc] \in States /\ w[pc].held \in Seq(Known)
         /\ Ready(w[pc - 1]) /\ Follows(w[pc - 1], code[pc], w[pc])
         /\ pc' = pc + 1 /\ UNCHANGED <<parserVars, code, argument>>
         /\ \E s, ls, o, c :
               /\ Moves(w[pc - 1], code[pc], w[pc], s, ls, o, c)
               /\ stack' = s /\ locals' = ls /\ outcome' = o /\ cpu' = c
<1>1. outcome = Running
  <2>1. Outcomes(outcome) /\ cpu.outcome = NativeOutcome
        /\ Running \in {outcome, cpu.outcome}
    BY DEF Step, Called
  <2>2. \A p : Fault(p) # Running /\ Fault(p)[1] # "return"
    BY DEF Fault, Running
  <2>3. \A x : Returned(x) # Running /\ Returned(x)[1] = "return"
    BY DEF Returned, Running
  <2>4. outcome # Running => NativeOutcome # Running
    BY <2>1, <2>2, <2>3 DEF Outcomes, NativeOutcome
  <2> QED BY <2>1, <2>4
<1>2. /\ Ready(w[pc - 1]) /\ w[pc - 1].done + 1 \in 1 .. Len(statements)
      /\ Line(w, code, Len(statements)) /\ pc \in 1 .. Len(code) + 1
      /\ Len(code) \in Nat
  BY <1>1 DEF Called
<1>3. pc \in 1 .. Len(code)
  <2> SUFFICES ASSUME pc = Len(code) + 1 PROVE FALSE
    BY <1>2
  <2>1. w[pc - 1] = State(<<>>, Len(statements))  BY <1>2, LineFacts
  <2>2. Len(statements) \in Nat  BY DEF ParserInv, StatementsInv
  <2> QED BY <1>2, <2>1, <2>2 DEF State
<1>4. pc - 1 \in 0 .. Len(code) /\ pc \in 0 .. Len(code)  BY <1>2, <1>3
<1> DEFINE a == w[pc - 1]
           b == w[pc]
           i == code[pc]
           e == Evaluate(Machine(stack, locals, Running), i)
<1>5. /\ a \in States /\ b \in States /\ b.held \in Seq(Known)
      /\ Len(b.held) <= MaxNodes /\ Follows(a, i, b)
  BY <1>2, <1>3, <1>4, LineFacts
<1>6. mode \in Finished  BY DEF Finished
<1>7. Moves(a, i, b, e.stack, e.locals, e.outcome, StepMachine(cpu, i))
  <2> HIDE DEF a, b, i
  <2> QED BY <1>2, <1>5, <1>6, MovesOn DEF a
<1>8. /\ stack' = e.stack /\ locals' = e.locals /\ outcome' = e.outcome
      /\ cpu' = StepMachine(cpu, i)
      /\ pc' = pc + 1 /\ UNCHANGED <<parserVars, code, argument>>
  BY <1>1 DEF Step, Machine
<1> HIDE DEF e, i
<1> QED BY <1>1, <1>2, <1>3, <1>5, <1>7, <1>8 DEF i

(* The members of a set in order, and the registers of a call *)
Count(set, n) == Cardinality(set \cap (1 .. n))

LEMMA Counting ==
  ASSUME NEW set, NEW n \in Nat
  PROVE  /\ Count(set, 0) = 0 /\ Count(set, n) \in Nat
         /\ Count(set, n + 1) = IF n + 1 \in set THEN Count(set, n) + 1
                                ELSE Count(set, n)
<1>1. IsFiniteSet(1 .. n)  BY FS_Interval
<1>2. IsFiniteSet(set \cap (1 .. n))  BY <1>1, FS_Intersection
<1>3. Count(set, n) \in Nat  BY <1>2, FS_CardinalityType DEF Count
<1>4. Count(set, 0) = 0
  <2>1. set \cap (1 .. 0) = {}  OBVIOUS
  <2> QED BY <2>1, FS_EmptySet DEF Count
<1>5. CASE n + 1 \in set
  <2> DEFINE S == set \cap (1 .. n)
  <2>1. set \cap (1 .. n + 1) = S \cup {n + 1}  BY <1>5
  <2>2. n + 1 \notin S  OBVIOUS
  <2>3. IsFiniteSet(S)  BY <1>2
  <2> HIDE DEF S
  <2>4. Cardinality(S \cup {n + 1})
           = IF n + 1 \in S THEN Cardinality(S) ELSE Cardinality(S) + 1
    BY <2>3, FS_AddElement
  <2> QED BY <1>3, <1>4, <1>5, <2>1, <2>2, <2>4 DEF Count, S
<1>6. CASE n + 1 \notin set
  <2>1. set \cap (1 .. n + 1) = set \cap (1 .. n)  BY <1>6
  <2> QED BY <1>3, <1>4, <1>6, <2>1 DEF Count
<1> QED BY <1>5, <1>6

NextInOrder(set, f, k) ==
    IF k \in set THEN Append(f[k - 1], k) ELSE f[k - 1]
Ordering(set, f, m) ==
    f = [k \in 0 .. m |-> IF k = 0 THEN <<>> ELSE NextInOrder(set, f, k)]

LEMMA InOrderUnfold ==
  ASSUME NEW set, NEW n \in Nat
  PROVE  \E f : Ordering(set, f, n) /\ InOrder(set, n) = f[n]
<1> DEFINE S == {m \in Nat : \E f : Ordering(set, f, m)}
<1>1. 0 \in S
  <2> DEFINE f == [k \in 0 .. 0 |-> <<>>]
  <2>1. Ordering(set, f, 0)  BY DEF Ordering
  <2> QED BY <2>1
<1>2. \A m \in Nat : m \in S => m + 1 \in S
  <2> TAKE m \in Nat
  <2> HAVE m \in S
  <2>1. PICK f : Ordering(set, f, m)  OBVIOUS
  <2> DEFINE g == [k \in 0 .. m + 1 |->
                     IF k <= m THEN f[k] ELSE NextInOrder(set, f, k)]
  <2>2. Ordering(set, g, m + 1)
    <3> SUFFICES ASSUME NEW k \in 0 .. m + 1
                 PROVE  g[k] = IF k = 0 THEN <<>> ELSE NextInOrder(set, g, k)
      BY DEF Ordering
    <3>1. CASE k = 0  BY <3>1, <2>1 DEF Ordering
    <3>2. CASE k \in 1 .. m
      <4>1. g[k] = f[k] /\ g[k - 1] = f[k - 1]  BY <3>2
      <4>2. f[k] = NextInOrder(set, f, k)  BY <3>2, <2>1 DEF Ordering
      <4> HIDE DEF g
      <4> QED BY <3>2, <4>1, <4>2 DEF NextInOrder
    <3>3. CASE k = m + 1
      <4>1. g[k] = NextInOrder(set, f, k) /\ g[k - 1] = f[k - 1]  BY <3>3
      <4> HIDE DEF g
      <4> QED BY <3>3, <4>1 DEF NextInOrder
    <3> QED BY <3>1, <3>2, <3>3
  <2> HIDE DEF g
  <2> QED BY <2>2
<1>3. n \in S
  <2> HIDE DEF S
  <2> QED BY <1>1, <1>2, SetInduction
<1> DEFINE c == CHOOSE f : Ordering(set, f, n)
<1>4. Ordering(set, c, n)  BY <1>3
<1>5. InOrder(set, n) = c[n]  BY DEF InOrder, Ordering, NextInOrder
<1> HIDE DEF c
<1> QED BY <1>4, <1>5

(* InOrder numbers the members of the set by how many there are before. *)
LEMMA MembersInOrder ==
  ASSUME NEW set, NEW n \in Nat
  PROVE  LET o == InOrder(set, n)
         IN  /\ o \in Seq(Nat) /\ Len(o) = Count(set, n)
             /\ \A p \in set \cap (1 .. n) :
                   /\ Count(set, p) \in 1 .. Len(o) /\ o[Count(set, p)] = p
                   /\ Count(set, p) = Count(set, p - 1) + 1
<1>1. PICK f : Ordering(set, f, n) /\ InOrder(set, n) = f[n]
  BY InOrderUnfold
<1> DEFINE Good(k) ==
              /\ f[k] \in Seq(Nat) /\ Len(f[k]) = Count(set, k)
              /\ \A p \in set \cap (1 .. k) :
                    /\ Count(set, p) \in 1 .. Len(f[k])
                    /\ f[k][Count(set, p)] = p
                    /\ Count(set, p) = Count(set, p - 1) + 1
           S == {k \in Nat : k <= n => Good(k)}
<1>2. 0 \in S
  <2>1. f[0] = <<>>  BY <1>1 DEF Ordering
  <2>2. Count(set, 0) = 0  BY Counting
  <2>3. f[0] \in Seq(Nat) /\ Len(f[0]) = 0  BY <2>1
  <2>4. set \cap (1 .. 0) = {}  OBVIOUS
  <2>5. Good(0)  BY <2>2, <2>3, <2>4
  <2> HIDE DEF Good
  <2> QED BY <2>5
<1>3. ASSUME NEW k \in Nat, k \in S
      PROVE  k + 1 \in S
  <2> SUFFICES ASSUME k + 1 <= n
               PROVE  Good(k + 1)
    OBVIOUS
  <2> DEFINE q == k + 1
             g == f[k]
             h == f[k + 1]
             m == Count(set, k)
  <2>1. Good(k)  BY <1>3
  <2>2. g \in Seq(Nat) /\ Len(g) = m /\ q \in Nat /\ q - 1 = k /\ m \in Nat
    BY <2>1, Counting
  <2>3. Count(set, q) = IF q \in set THEN m + 1 ELSE m  BY Counting
  <2>4. h = IF q \in set THEN Append(g, q) ELSE g
    <3>1. q \in 0 .. n /\ q # 0  OBVIOUS
    <3>2. f[q] = NextInOrder(set, f, q)
      <4> HIDE DEF q
      <4> QED BY <1>1, <3>1 DEF Ordering
    <3> QED BY <2>2, <3>2 DEF NextInOrder
  <2>5. \A p \in set \cap (1 .. k) :
           /\ Count(set, p) \in 1 .. m /\ g[Count(set, p)] = p
           /\ Count(set, p) = Count(set, p - 1) + 1
    BY <2>1, <2>2
  <2>6. \A p \in 1 .. q : p \in 1 .. k \/ p = q  OBVIOUS
  <2> HIDE DEF q, g, h, m, Good
  <2>7. CASE q \in set
    <3>1. h \in Seq(Nat) /\ Len(h) = m + 1 /\ h[m + 1] = q
          /\ \A x \in 1 .. m : h[x] = g[x]
      BY <2>2, <2>4, <2>7
    <3>2. ASSUME NEW p \in set \cap (1 .. q)
          PROVE  /\ Count(set, p) \in 1 .. Len(h) /\ h[Count(set, p)] = p
                 /\ Count(set, p) = Count(set, p - 1) + 1
      <4>1. CASE p = q
        <5>1. Count(set, p) = m + 1 /\ Count(set, p - 1) = m
          BY <2>2, <2>3, <2>7, <4>1 DEF m
        <5> QED BY <2>2, <3>1, <4>1, <5>1
      <4>2. CASE p \in 1 .. k  BY <2>2, <2>5, <3>1, <4>2
      <4> QED BY <2>6, <4>1, <4>2
    <3> QED BY <2>3, <2>7, <3>1, <3>2 DEF Good, h, q
  <2>8. CASE q \notin set
    <3>1. \A p \in set \cap (1 .. q) : p \in set \cap (1 .. k)
      BY <2>6, <2>8
    <3>2. h = g /\ Count(set, q) = m  BY <2>3, <2>4, <2>8
    <3> QED BY <2>2, <2>5, <3>1, <3>2 DEF Good, h, q
  <2> QED BY <2>7, <2>8 DEF q
<1>4. \A k \in Nat : k \in S
  <2> HIDE DEF S
  <2> QED BY <1>2, <1>3, SetInduction
<1>5. Good(n)  BY <1>4
<1> QED BY <1>1, <1>5

(* The caller leaves each argument where the function reads it. *)
LEMMA Arrives ==
  ASSUME ParserInv, Passable, NEW f, NEW p \in 1 .. ParameterCount
  PROVE  Arriving(f, p) = Native(signature.parameters[p], f[p])
<1> DEFINE set == {q \in 1 .. ParameterCount : IsAddress(q) = IsAddress(p)}
           r == ClassIndex(p)
           o == InOrder(set, ParameterCount)
<1>1. ParameterCount \in Nat /\ p \in Nat /\ p - 1 \in Nat /\ p - 1 + 1 = p
  BY FrameFacts
<1>2. r = Count(set, p - 1) /\ r \in Nat
  <2>1. set \cap (1 .. p - 1) = {q \in 1 .. p - 1 : IsAddress(q) = IsAddress(p)}
    BY <1>1
  <2>2. r = Count(set, p - 1)  BY <2>1 DEF ClassIndex, Count
  <2> HIDE DEF set, r
  <2> QED BY <1>1, <2>2, Counting
<1>3. p \in set \cap (1 .. ParameterCount)  OBVIOUS
<1>4. r + 1 \in DOMAIN o /\ o[r + 1] = p
  <2> HIDE DEF set, r
  <2>1. /\ o \in Seq(Nat) /\ Count(set, p) \in 1 .. Len(o)
        /\ o[Count(set, p)] = p /\ Count(set, p) = Count(set, p - 1) + 1
    BY <1>1, <1>3, MembersInOrder
  <2> QED BY <1>2, <2>1
<1>5. r \in 0 .. Registers - 1
  <2>1. r < IF IsAddress(p) THEN MaxAddresses ELSE MaxScalars
    BY DEF Passable
  <2>2. /\ MaxAddresses \in Nat /\ MaxScalars \in Nat /\ Registers \in Nat
        /\ MaxScalars + MaxAddresses <= Registers
    BY LimitsAssumption, RegistersAssumption
  <2> HIDE DEF r
  <2> QED BY <1>2, <2>1, <2>2
<1>6. Passed(f, IsAddress(p))[r] = Native(signature.parameters[p], f[p])
  <2>1. Passed(f, IsAddress(p)) =
           [x \in 0 .. Registers - 1 |->
              IF x + 1 \notin DOMAIN o THEN Unset
              ELSE Native(signature.parameters[o[x + 1]], f[o[x + 1]])]
    BY DEF Passed
  <2> HIDE DEF o, r
  <2> QED BY <1>4, <1>5, <2>1
<1> QED BY <1>6 DEF Arriving

(* A call starts with empty stack and locals without words. *)
LEMMA FrameOfCall ==
  ASSUME ParserInv, Passable, Call
  PROVE  /\ ArgumentsTyped' /\ LocalsTyped(locals)'
         /\ Mirrors(<<>>, <<>>, locals, cpu)'
<1> DEFINE f == [p \in 1 .. ParameterCount |-> argument'[p]]
<1>1. PICK a : a = argument'  OBVIOUS
<1>2. /\ a \in [1 .. ParameterCount -> Samples]
      /\ \A p \in 1 .. ParameterCount : Acceptable(signature.parameters[p], a[p])
      /\ UNCHANGED <<parserVars, code, stack, outcome>>
      /\ locals' = [l \in 1 .. local_count |-> Unset]
      /\ cpu' = [a7 |-> FrameWords, outcome |-> Running,
                 memory |-> [k \in 1 .. FrameWords + MaxNodes |->
                                IF k <= ParameterCount
                                THEN Arriving(a, k) ELSE Unset]]
  BY <1>1 DEF Call
<1>3. /\ a \in [1 .. ParameterCount -> Word]
      /\ \A p \in 1 .. ParameterCount : HasType(signature.parameters[p], a[p])
  BY <1>2, SamplesAssumption DEF HasType
<1>4. /\ signature' = signature /\ nodes' = nodes /\ local_count' = local_count
      /\ \A type, x : HasType(type, x)' <=> HasType(type, x)
  BY <1>2, SameTypes DEF parserVars
<1>5. /\ ParameterCount' = ParameterCount /\ FrameWords' = FrameWords
      /\ Cells' = Cells /\ Known' = Known
      /\ \A l : SlotOfLocal(l)' = SlotOfLocal(l)
  BY <1>4 DEF ParameterCount, FrameWords, Cells, Known, SlotOfLocal
<1>6. Machines' = Machines  BY <1>5 DEF Machines
<1>7. ArgumentsTyped'  BY <1>1, <1>3, <1>4, <1>5 DEF ArgumentsTyped
<1>8. LocalsTyped(locals)'  BY <1>2, <1>4 DEF LocalsTyped
<1> DEFINE memory == [k \in Cells |-> IF k <= ParameterCount
                                      THEN Arriving(a, k) ELSE Unset]
<1>9. cpu' = [a7 |-> FrameWords, outcome |-> Running, memory |-> memory]
  BY <1>2 DEF Cells
<1>10. /\ FrameWords \in Nat /\ MaxNodes \in Nat /\ ParameterCount \in Nat
       /\ local_count \in Nat /\ FrameWords = ParameterCount + local_count
       /\ \A l \in 1 .. local_count :
             SlotOfLocal(l) \in ParameterCount + 1 .. FrameWords
  BY FrameFacts
<1>11. ASSUME NEW p \in 1 .. ParameterCount
       PROVE  /\ Arriving(a, p) = Native(signature.parameters[p], a[p])
              /\ Arriving(a, p) \in Word
  <2>1. Arriving(a, p) = Native(signature.parameters[p], a[p])  BY Arrives
  <2>2. HasType(signature.parameters[p], a[p])  BY <1>3
  <2>3. Native(signature.parameters[p], a[p]) \in Word  BY <2>2, NativeWords
  <2> QED BY <2>1, <2>3
<1>12. memory \in [Cells -> Word \cup {Unset}]
  <2> SUFFICES ASSUME NEW k \in Cells, k <= ParameterCount
               PROVE  Arriving(a, k) \in Word
    OBVIOUS
  <2>1. k \in 1 .. ParameterCount  BY <1>10 DEF Cells
  <2> QED BY <1>11, <2>1
<1>13. \A p \in 1 .. ParameterCount : memory[p] = Arriving(a, p)
  <2> TAKE p \in 1 .. ParameterCount
  <2>1. p \in Cells /\ p <= ParameterCount  BY <1>10 DEF Cells
  <2> QED BY <2>1
<1>14. \A l \in 1 .. local_count : memory[SlotOfLocal(l)] = Unset
  <2> TAKE l \in 1 .. local_count
  <2> DEFINE k == SlotOfLocal(l)
  <2>1. k \in ParameterCount + 1 .. FrameWords  BY <1>10
  <2> HIDE DEF k
  <2>2. k \in Cells /\ ~ (k <= ParameterCount)  BY <1>10, <2>1 DEF Cells
  <2>3. memory[k] = Unset  BY <2>2
  <2> QED BY <2>3 DEF k
<1> HIDE DEF memory
<1>15. cpu' \in Machines  BY <1>9, <1>10, <1>12 DEF Machines
<1>16. Framed(locals, cpu)'
  <2>1. \A p \in 1 .. ParameterCount :
           cpu'.memory[p] = Native(signature'.parameters[p], argument'[p])
    BY <1>1, <1>4, <1>9, <1>11, <1>13
  <2>2. \A l \in 1 .. local_count :
           cpu'.memory[SlotOfLocal(l)] = Unset /\ locals'[l] = Unset
    <3>1. cpu'.memory = memory  BY <1>9
    <3>2. \A l \in 1 .. local_count : locals'[l] = Unset  BY <1>2
    <3> QED BY <1>14, <3>1, <3>2
  <2> QED BY <1>4, <1>5, <2>1, <2>2 DEF Framed, NativeOrUnset
<1>17. Typed(<<>>, <<>>)'  BY DEF Typed
<1> QED BY <1>5, <1>6, <1>7, <1>8, <1>9, <1>10, <1>15, <1>16, <1>17 DEF Mirrors

LEMMA CallStarts ==
  ASSUME ParserInv, RunInv, Call
  PROVE  \E w : Called(w)'
<1>1. /\ mode = "compiled" /\ pc' = 1 /\ pc = 0
      /\ UNCHANGED <<parserVars, code, stack, outcome>>
      /\ code = LowerStatements[Len(statements)]
      /\ stack = <<>> /\ outcome = Running
  BY DEF Call, RunInv
<1>2. Passable /\ statements # <<>> /\ Len(statements) \in Nat
      /\ statements \in Seq([local : Nat, expression : Nat])
  BY <1>1 DEF ParserInv, StatementsInv, Finished
<1>3. Len(statements) \in 1 .. Len(statements)
      /\ Len(statements) \in 0 .. Len(statements) /\ 1 \in 1 .. Len(statements)
  BY <1>2
<1>4. PICK w : Line(w, code, Len(statements)) /\ Len(code) \in Nat
  BY <1>1, <1>3, EveryLine DEF HasLine
<1>5. Line(w, code, Len(statements))'  BY <1>1, <1>4, SameLine
<1>6. /\ ArgumentsTyped' /\ LocalsTyped(locals)'
      /\ Mirrors(<<>>, <<>>, locals, cpu)'
  BY <1>2, FrameOfCall
<1>7. cpu'.outcome = Running /\ NativeOutcome' = Running
  BY <1>1 DEF Call, NativeOutcome, Running
<1>8. w[0] = State(<<>>, 0)  BY <1>4 DEF Line
<1>9. w[0].held = <<>> /\ w[0].done = 0 /\ w[0] \in States
  BY <1>8 DEF State, States
<1>10. Ready(w[0])'  BY <1>1, <1>6, <1>9 DEF Ready, Stored
<1>11. w[pc' - 1].done + 1 \in 1 .. Len(statements)' /\ pc' - 1 = 0
  BY <1>1, <1>3, <1>9 DEF parserVars
<1>12. pc' \in 1 .. Len(code)' + 1 /\ Len(code)' \in Nat  BY <1>1, <1>4
<1>13. Outcomes(outcome)'  BY <1>1 DEF Outcomes
<1>14. Called(w)'
  BY <1>1, <1>5, <1>6, <1>7, <1>10, <1>11, <1>12, <1>13 DEF Called
<1> QED BY <1>14

LEMMA SameReady ==
  ASSUME UNCHANGED <<parserVars, argument>>, NEW b, NEW s, NEW ls, NEW c,
         ArgumentsTyped, LocalsTyped(ls), b \in States, b.held \in Seq(Known),
         Mirrors(b.held, s, ls, c), Stored(b.done, ls),
         stack' = s, locals' = ls, cpu' = c, outcome' = Running
  PROVE  Ready(b)'
<1>1. Mirrors(b.held, stack, locals, cpu)'  BY SameMirrors
<1>2. LocalsTyped(locals)' /\ ArgumentsTyped'  BY SameLocals
<1>3. Stored(b.done, locals)'  BY DEF Stored, parserVars
<1>4. Known' = Known  BY DEF Known, parserVars
<1> QED BY <1>1, <1>2, <1>3, <1>4 DEF Ready

LEMMA CallGoesOn ==
  ASSUME ParserInv, mode = "compiled", NEW w, Called(w), Step
  PROVE  Called(w)'
<1>0. PICK a, b, i : a = w[pc - 1] /\ b = w[pc] /\ i = code[pc]  OBVIOUS
<1>1. /\ outcome = Running /\ pc \in 1 .. Len(code)
      /\ a \in States /\ b \in States /\ b.held \in Seq(Known) /\ Ready(a)
      /\ Follows(a, i, b) /\ pc' = pc + 1
      /\ UNCHANGED <<parserVars, code, argument>>
  BY <1>0, StepMoves
<1>2. PICK s, ls, o, c :
            /\ Moves(a, i, b, s, ls, o, c)
            /\ stack' = s /\ locals' = ls /\ outcome' = o /\ cpu' = c
  BY <1>0, StepMoves
<1>3. /\ Line(w, code, Len(statements)) /\ Len(code) \in Nat
      /\ ArgumentsTyped /\ LocalsTyped(locals)
  BY DEF Called
<1>4. Line(w, code, Len(statements))'  BY <1>1, <1>3, SameLine
<1>5. pc' \in 1 .. Len(code)' + 1 /\ Len(code)' \in Nat /\ pc' - 1 = pc
  BY <1>1, <1>3
<1>6. /\ signature' = signature /\ statements' = statements
      /\ Len(statements) \in Nat /\ a.done \in Nat
      /\ a.done + 1 \in 1 .. Len(statements)
  BY <1>1, ParserFacts DEF parserVars, States, Follows
<1>7. w[pc' - 1] = b  BY <1>0, <1>5
<1>8. /\ LocalsTyped(ls)
      /\ \/ o = Running /\ c.outcome = Running
            /\ Ready(b)' /\ b.done + 1 \in 1 .. Len(statements)
         \/ \E p : o = Fault(p) /\ c.outcome = Fault(p)
         \/ \E x : /\ o = Returned(x) /\ HasType(signature.result, x)
                   /\ c.outcome = Returned(Native(signature.result, x))
  <2>1. CASE Divides(a, i, b, s, ls, o, c)  BY <1>3, <2>1 DEF Divides
  <2>2. CASE Finishes(a, i, b, s, ls, o, c)  BY <1>3, <2>2 DEF Finishes
  <2>3. CASE Computes(a, i, b, s, ls, o, c)
    <3>1. /\ ls = locals /\ o = Running /\ Mirrors(b.held, s, ls, c)
          /\ b.done = a.done /\ Stored(a.done, locals)
      BY <1>1, <2>3 DEF Computes, Within, Ready
    <3>2. c.outcome = Running  BY <3>1 DEF Mirrors, Machines
    <3>3. Ready(b)'  BY <1>1, <1>2, <1>3, <3>1, SameReady
    <3> QED BY <1>3, <1>6, <3>1, <3>2, <3>3
  <2>4. CASE Stores(a, i, b, s, ls, o, c)
    <3>1. /\ LocalsTyped(ls) /\ o = Running /\ Mirrors(b.held, s, ls, c)
          /\ Stored(b.done, ls) /\ b.done = a.done + 1
          /\ a.done + 1 < Len(statements)
      BY <2>4 DEF Stores, Ends, State
    <3>2. c.outcome = Running  BY <3>1 DEF Mirrors, Machines
    <3>3. Ready(b)'  BY <1>1, <1>2, <1>3, <3>1, SameReady
    <3>4. b.done + 1 \in 1 .. Len(statements)  BY <1>6, <3>1
    <3> QED BY <3>1, <3>2, <3>3, <3>4
  <2> QED BY <1>2, <2>1, <2>2, <2>3, <2>4 DEF Moves
<1>9. LocalsTyped(locals)' /\ ArgumentsTyped'
  BY <1>1, <1>2, <1>3, <1>8, SameLocals
<1>10. Running[1] # "return" /\ \A p : Fault(p)[1] # "return" /\ Fault(p) # Running
  BY DEF Running, Fault
<1>11. \A x : Returned(x)[1] = "return" /\ Returned(x)[2] = x
              /\ Returned(x) # Running
  BY DEF Running, Returned
<1>12. cpu'.outcome = NativeOutcome' /\ Outcomes(outcome)'
  <2>1. CASE o = Running /\ c.outcome = Running
    BY <1>2, <1>10, <2>1 DEF NativeOutcome, Outcomes
  <2>2. ASSUME NEW p, o = Fault(p), c.outcome = Fault(p)
        PROVE  cpu'.outcome = NativeOutcome' /\ Outcomes(outcome)'
    BY <1>2, <1>10, <2>2 DEF NativeOutcome, Outcomes
  <2>3. ASSUME NEW x, o = Returned(x), HasType(signature.result, x),
               c.outcome = Returned(Native(signature.result, x))
        PROVE  cpu'.outcome = NativeOutcome' /\ Outcomes(outcome)'
    <3>1. HasType(signature.result, x)'
      <4>1. PICK t : t = signature.result  OBVIOUS
      <4>2. HasType(t, x)  BY <2>3, <4>1
      <4>3. HasType(t, x)'  BY <1>1, <4>2, SameTypes
      <4>4. t = signature'.result  BY <1>6, <4>1
      <4> QED BY <4>3, <4>4 DEF HasType, Acceptable
    <3>2. NativeOutcome' = Returned(Native(signature.result, x))
      BY <1>2, <1>6, <1>11, <2>3 DEF NativeOutcome
    <3>3. Outcomes(outcome)'  BY <1>2, <2>3, <3>1 DEF Outcomes
    <3> QED BY <1>2, <2>3, <3>2, <3>3
  <2> QED BY <1>8, <2>1, <2>2, <2>3
<1>13. outcome' = Running => /\ w[pc' - 1].done + 1 \in 1 .. Len(statements)'
                             /\ Ready(b)'
  BY <1>2, <1>6, <1>7, <1>8, <1>10, <1>11
<1>14. (outcome = Running => Ready(w[pc - 1]))'
  <2> SUFFICES ASSUME outcome' = Running
               PROVE  Ready(w[pc - 1])'
    OBVIOUS
  <2>1. Ready(b)'  BY <1>13, SMTT(30)
  <2> QED BY <1>5, <1>7, <2>1 DEF Ready
<1> QED BY <1>4, <1>5, <1>9, <1>12, <1>13, <1>14 DEF Called

(* Every step keeps the invariant. *)
LEMMA SameCode ==
  ASSUME signature' = signature, nodes' = nodes, statements' = statements
  PROVE  LowerStatements' = LowerStatements
<1>1. \A f, n : NodeCode(f, n)' = NodeCode(f, n)  BY DEF NodeCode
<1>2. LowerNode' = LowerNode  BY <1>1 DEF LowerNode
<1>3. \A s : Ending(s)' = Ending(s)  BY DEF Ending
<1> QED BY <1>2, <1>3 DEF LowerStatements

LEMMA CallRests ==
  ASSUME UNCHANGED <<parserVars, codeVars>>, ParserInv, NEW w, Called(w)
  PROVE  Called(w)'
<1>1. /\ UNCHANGED parserVars /\ code' = code /\ argument' = argument /\ pc' = pc
      /\ stack' = stack /\ locals' = locals /\ outcome' = outcome /\ cpu' = cpu
      /\ signature' = signature /\ statements' = statements /\ nodes' = nodes
      /\ local_count' = local_count
  BY DEF codeVars, parserVars
<1>2. Line(w, code, Len(statements))'  BY <1>1, SameLine DEF Called
<1>3. PICK ls, s, c : ls = locals /\ s = stack /\ c = cpu  OBVIOUS
<1>4. LocalsTyped(locals)' /\ ArgumentsTyped'
  <2>1. ArgumentsTyped /\ LocalsTyped(ls) /\ locals' = ls
    BY <1>1, <1>3 DEF Called
  <2> QED BY <1>1, <2>1, SameLocals
<1>5. NativeOutcome' = NativeOutcome  BY <1>1 DEF NativeOutcome
<1>6. Outcomes(outcome)'
  <2>2. \A x : HasType(signature.result, x)' <=> HasType(signature.result, x)
    BY <1>1 DEF HasType, Acceptable, parserVars
  <2> QED BY <1>1, <2>2 DEF Called, Outcomes
<1>7. ASSUME outcome = Running
      PROVE  /\ w[pc' - 1].done + 1 \in 1 .. Len(statements)'
             /\ Ready(w[pc - 1])'
  <2>1. PICK b : b = w[pc - 1]  OBVIOUS
  <2>2. Ready(b) /\ b.done + 1 \in 1 .. Len(statements)
    BY <1>7, <2>1 DEF Called
  <2>3. /\ ArgumentsTyped /\ LocalsTyped(ls) /\ b \in States
        /\ b.held \in Seq(Known) /\ Mirrors(b.held, s, ls, c)
        /\ Stored(b.done, ls)
    BY <1>3, <2>2 DEF Ready
  <2>4. stack' = s /\ locals' = ls /\ cpu' = c /\ outcome' = Running
    BY <1>1, <1>3, <1>7
  <2>5. Ready(b)'  BY <1>1, <2>3, <2>4, SameReady
  <2>6. w[pc' - 1] = b  BY <1>1, <2>1
  <2> QED BY <1>1, <2>2, <2>5, <2>6 DEF Ready
<1>8. /\ pc \in 1 .. Len(code) + 1 /\ Len(code) \in Nat
      /\ cpu.outcome = NativeOutcome
  BY SMTT(30) DEF Called
<1> QED BY <1>1, <1>2, <1>4, <1>5, <1>6, <1>7, <1>8 DEF Called

LEMMA ParsingModes ==
  ASSUME Parse
  PROVE  mode # "compiled" /\ mode' # "compiled"
BY DEF Parse, ParseNext, BeginLocal, BeginAssign, BeginReturn, Begin, Refuse,
       Primary, PoolLiteral, Prefix, NoOperand, Combine, Operator,
       CloseParenthesis, EndLocal, EndAssign, EndDivideAssign, EndReturn,
       ExpressionEnds, NewNode, Advance, Complete

LEMMA RunKept ==
  ASSUME ParserInv, RunInv, [StackNext]_<<parserVars, codeVars>>
  PROVE  RunInv'
<1>1. CASE Parse
  <2>1. mode # "compiled" /\ mode' # "compiled" /\ UNCHANGED codeVars
    BY <1>1, ParsingModes DEF Parse
  <2> QED BY <2>1 DEF RunInv, codeVars
<1>2. CASE Lower
  <2>1. /\ pc = 0 /\ pc' = 0 /\ stack' = stack /\ outcome' = outcome
        /\ code' = LowerStatements[Len(statements)]
        /\ signature' = signature /\ nodes' = nodes /\ statements' = statements
    BY <1>2 DEF Lower, RunInv
  <2>2. LowerStatements' = LowerStatements  BY <2>1, SameCode
  <2> QED BY <2>1, <2>2 DEF RunInv
<1>3. CASE Call
  <2>1. \E w : Called(w)'  BY <1>3, CallStarts
  <2>2. /\ mode' = mode /\ mode = "compiled" /\ pc' # 0 /\ code' = code
        /\ signature' = signature /\ nodes' = nodes /\ statements' = statements
    BY <1>3 DEF Call, parserVars
  <2>3. LowerStatements' = LowerStatements  BY <2>2, SameCode
  <2> QED BY <2>1, <2>2, <2>3 DEF RunInv
<1>4. CASE Step
  <2>1. pc # 0 /\ mode = "compiled"  BY <1>4 DEF Step, RunInv
  <2>2. PICK w : Called(w)  BY <2>1 DEF RunInv
  <2>3. Called(w)'  BY <1>4, <2>1, <2>2, CallGoesOn
  <2>4. /\ mode' = mode /\ code' = code /\ pc' = pc + 1 /\ pc \in Nat
        /\ signature' = signature /\ nodes' = nodes /\ statements' = statements
    BY <1>4, <2>2 DEF Step, parserVars, Called
  <2>5. LowerStatements' = LowerStatements  BY <2>4, SameCode
  <2> QED BY <2>1, <2>3, <2>4, <2>5 DEF RunInv
<1>5. CASE UNCHANGED <<parserVars, codeVars>>
  <2>1. /\ mode' = mode /\ code' = code /\ pc' = pc /\ stack' = stack
        /\ outcome' = outcome
        /\ signature' = signature /\ nodes' = nodes /\ statements' = statements
    BY <1>5 DEF parserVars, codeVars
  <2>2. LowerStatements' = LowerStatements  BY <2>1, SameCode
  <2>3. CASE pc = 0  BY <2>1, <2>2, <2>3 DEF RunInv
  <2>4. CASE pc # 0
    <3>1. PICK w : Called(w)  BY <2>4 DEF RunInv
    <3>2. Called(w)'  BY <1>5, <3>1, CallRests
    <3> QED BY <2>1, <2>2, <2>4, <3>2 DEF RunInv
  <2> QED BY <2>3, <2>4
<1> QED BY <1>1, <1>2, <1>3, <1>4, <1>5 DEF StackNext

(* The two machines agree. *)
LEMMA Concatenated ==
  ASSUME NEW S, NEW s \in Seq(S), NEW t \in Seq(S), NEW u \in Seq(S)
  PROVE  LET c == s \o t \o u
             m == Len(s)
             l == Len(t)
         IN  /\ Len(c) = m + l + Len(u)
             /\ \A k \in 1 .. m : c[k] = s[k]
             /\ \A k \in 1 .. l : c[m + k] = t[k]
             /\ \A k \in 1 .. Len(u) : c[m + l + k] = u[k]
<1> DEFINE b == s \o t
           c == b \o u
           m == Len(s)
           l == Len(t)
<1>1. /\ m \in Nat /\ l \in Nat /\ Len(u) \in Nat
      /\ b \in Seq(S) /\ Len(b) = m + l
      /\ \A k \in 1 .. m : b[k] = s[k]
      /\ \A k \in 1 .. l : b[m + k] = t[k]
  OBVIOUS
<1>2. /\ Len(c) = Len(b) + Len(u)
      /\ \A k \in 1 .. Len(b) : c[k] = b[k]
      /\ \A k \in 1 .. Len(u) : c[Len(b) + k] = u[k]
  <2>1. b \in Seq(S)  BY <1>1
  <2> HIDE DEF b
  <2> QED BY <2>1
<1> HIDE DEF b, m, l
<1>3. \A k \in 1 .. m : k \in 1 .. Len(b)  BY <1>1
<1>4. \A k \in 1 .. l : m + k \in 1 .. Len(b)  BY <1>1
<1> HIDE DEF c
<1>5. \A k \in 1 .. l : c[m + k] = t[k]
  <2> TAKE k \in 1 .. l
  <2> DEFINE q == m + k
  <2>1. q \in 1 .. Len(b) /\ b[q] = t[k]  BY <1>1, <1>4
  <2> HIDE DEF q
  <2>2. c[q] = t[k]  BY <1>2, <2>1
  <2> QED BY <2>2 DEF q
<1> QED BY <1>1, <1>2, <1>3, <1>5 DEF b, c, m, l

(* The words and types of frame and stack. *)
LEMMA WordsOfFrame ==
  ASSUME ParserInv, NEW a, Ready(a)
  PROVE  LET words == argument \o locals \o stack
             types == signature.parameters
                      \o SubSeq(signature.locals, 1, local_count)
                      \o TypesOf(a.held)
         IN  /\ Len(words) = cpu.a7 /\ Len(types) = cpu.a7
             /\ \A k \in 1 .. cpu.a7 :
                   cpu.memory[k] = IF words[k] = Unset THEN Unset
                                   ELSE Native(types[k], words[k])
<1> DEFINE h == a.held
           W == Word \cup {Unset}
           front == SubSeq(signature.locals, 1, local_count)
           words == argument \o locals \o stack
           types == signature.parameters \o front \o TypesOf(h)
           m == ParameterCount
           l == local_count
           n == Len(h)
<1>1. /\ h \in Seq(Known) /\ ArgumentsTyped /\ LocalsTyped(locals)
      /\ Mirrors(h, stack, locals, cpu)
  BY DEF Ready
<1>2. /\ FrameWords \in Nat /\ m \in Nat /\ l \in Nat /\ FrameWords = m + l
  BY FrameFacts
<1>3. /\ stack \in Seq(Word) /\ Len(stack) = n /\ n \in Nat
      /\ cpu.a7 = FrameWords + n /\ Framed(locals, cpu)
      /\ \A q \in 1 .. n : HasType(nodes[h[q]].type, stack[q])
      /\ \A q \in 1 .. n :
            cpu.memory[FrameWords + q] = Native(nodes[h[q]].type, stack[q])
  BY <1>1 DEF Mirrors, Typed
<1>4. /\ signature.parameters \in Seq(Types) /\ Len(signature.parameters) = m
      /\ signature.locals \in Seq(Types) /\ l <= Len(signature.locals)
      /\ Len(signature.locals) \in Nat
  <2>1. l \in 0 .. Len(signature.locals)  BY DEF ParserInv
  <2> QED BY <2>1, AuthorsAssumption DEF ParserInv, ParameterCount
<1>5. /\ front \in Seq(Types) /\ Len(front) = l
      /\ \A k \in 1 .. l : front[k] = signature.locals[k]
  <2>1. l \in Nat /\ l <= Len(signature.locals) /\ signature.locals \in Seq(Types)
    BY <1>2, <1>4
  <2> DEFINE s == signature.locals
             T == Types
  <2>2. s \in Seq(T) /\ l \in Nat /\ l <= Len(s)  BY <2>1
  <2>3. front = SubSeq(s, 1, l)  OBVIOUS
  <2> HIDE DEF s, l, front, T
  <2>4. SubSeq(s, 1, l) \in Seq(T)
    <3>1. \A k \in 1 .. l : k \in 1 .. Len(s)  BY <2>2
    <3> QED BY <2>2, <3>1
  <2>5. Len(front) = l /\ \A k \in 1 .. l : front[k] = s[k]  BY <2>2, <2>3
  <2> QED BY <2>3, <2>4, <2>5 DEF s, T
<1>6. /\ TypesOf(h) \in Seq(Types) /\ Len(TypesOf(h)) = n
      /\ \A q \in 1 .. n : TypesOf(h)[q] = nodes[h[q]].type
  BY <1>1, TypesOfHeld
<1>7. /\ argument \in Seq(W) /\ Len(argument) = m
      /\ \A p \in 1 .. m : HasType(signature.parameters[p], argument[p])
  <2>1. /\ argument \in [1 .. m -> Word]
        /\ \A p \in 1 .. m : HasType(signature.parameters[p], argument[p])
    BY <1>1 DEF ArgumentsTyped
  <2>2. argument \in [1 .. m -> W]
    <3>1. argument = [p \in 1 .. m |-> argument[p]]  BY <2>1
    <3>2. \A p \in 1 .. m : argument[p] \in W  BY <2>1
    <3> HIDE DEF W
    <3> QED BY <3>1, <3>2
  <2> HIDE DEF W
  <2> QED BY <1>2, <2>1, <2>2
<1>8. /\ locals \in Seq(W) /\ Len(locals) = l
      /\ \A k \in 1 .. l : locals[k] # Unset
                              => HasType(signature.locals[k], locals[k])
  <2>1. /\ locals \in [1 .. l -> W]
        /\ \A k \in 1 .. l : locals[k] # Unset
                              => HasType(signature.locals[k], locals[k])
    BY <1>1 DEF LocalsTyped
  <2> HIDE DEF W
  <2> QED BY <1>2, <2>1
<1>9. stack \in Seq(W)  BY <1>3
<1> HIDE DEF h, W, front, m, l, n
<1>10. /\ Len(words) = m + l + n
       /\ \A k \in 1 .. m : words[k] = argument[k]
       /\ \A k \in 1 .. l : words[m + k] = locals[k]
       /\ \A k \in 1 .. n : words[m + l + k] = stack[k]
  <2>1. argument \in Seq(W) /\ locals \in Seq(W) /\ stack \in Seq(W)
    BY <1>7, <1>8, <1>9
  <2>2. /\ Len(words) = Len(argument) + Len(locals) + Len(stack)
        /\ \A k \in 1 .. Len(argument) : words[k] = argument[k]
        /\ \A k \in 1 .. Len(locals) : words[Len(argument) + k] = locals[k]
        /\ \A k \in 1 .. Len(stack) :
              words[Len(argument) + Len(locals) + k] = stack[k]
    BY <2>1, Concatenated
  <2>3. Len(argument) = m /\ Len(locals) = l /\ Len(stack) = n
    BY <1>3, <1>7, <1>8
  <2> HIDE DEF words
  <2> QED BY <2>2, <2>3
<1>11. /\ Len(types) = m + l + n
       /\ \A k \in 1 .. m : types[k] = signature.parameters[k]
       /\ \A k \in 1 .. l : types[m + k] = front[k]
       /\ \A k \in 1 .. n : types[m + l + k] = TypesOf(h)[k]
  <2> DEFINE t == signature.parameters
             u == TypesOf(h)
  <2>1. t \in Seq(Types) /\ front \in Seq(Types) /\ u \in Seq(Types)
    BY <1>4, <1>5, <1>6
  <2>2. /\ Len(types) = Len(t) + Len(front) + Len(u)
        /\ \A k \in 1 .. Len(t) : types[k] = t[k]
        /\ \A k \in 1 .. Len(front) : types[Len(t) + k] = front[k]
        /\ \A k \in 1 .. Len(u) : types[Len(t) + Len(front) + k] = u[k]
    <3>1. types = t \o front \o u  OBVIOUS
    <3> DEFINE T == Types
    <3>2. t \in Seq(T) /\ front \in Seq(T) /\ u \in Seq(T)  BY <2>1
    <3> DEFINE c == t \o front \o u
    <3> HIDE DEF t, u, types, T
    <3>3. /\ Len(c) = Len(t) + Len(front) + Len(u)
          /\ \A k \in 1 .. Len(t) : c[k] = t[k]
          /\ \A k \in 1 .. Len(front) : c[Len(t) + k] = front[k]
          /\ \A k \in 1 .. Len(u) : c[Len(t) + Len(front) + k] = u[k]
      BY <3>2, Concatenated
    <3> HIDE DEF c
    <3>4. types = c  BY <3>1 DEF c
    <3> QED BY <3>3, <3>4
  <2>3. Len(t) = m /\ Len(front) = l /\ Len(u) = n  BY <1>4, <1>5, <1>6
  <2> HIDE DEF types
  <2> QED BY <2>2, <2>3
<1>12. cpu.a7 = m + l + n  BY <1>2, <1>3
<1>13. /\ \A p \in 1 .. m :
             cpu.memory[p] = Native(signature.parameters[p], argument[p])
       /\ \A k \in 1 .. l :
             cpu.memory[m + k] = NativeOrUnset(signature.locals[k], locals[k])
  BY <1>3 DEF Framed, SlotOfLocal, m, l
<1>14. \A k \in 1 .. m + l + n :
          \/ k \in 1 .. m
          \/ \E q \in 1 .. l : k = m + q
          \/ \E q \in 1 .. n : k = m + l + q
  <2> TAKE k \in 1 .. m + l + n
  <2>1. CASE k > m /\ k <= m + l
    <3>1. k - m \in 1 .. l /\ k = m + (k - m)  BY <1>2, <1>3, <2>1
    <3> QED BY <3>1
  <2>2. CASE k > m + l
    <3>1. k - (m + l) \in 1 .. n /\ k = m + l + (k - (m + l))
      BY <1>2, <1>3, <2>2
    <3> QED BY <3>1
  <2> QED BY <1>2, <1>3, <2>1, <2>2
<1> HIDE DEF words, types
<1>15. ASSUME NEW k \in 1 .. m + l + n
       PROVE  cpu.memory[k] = IF words[k] = Unset THEN Unset
                              ELSE Native(types[k], words[k])
  <2>1. CASE k \in 1 .. m
    <3>1. HasType(signature.parameters[k], argument[k])  BY <1>7, <2>1
    <3>2. argument[k] # Unset  BY <3>1, HasTypeFacts
    <3> QED BY <1>10, <1>11, <1>13, <2>1, <3>2
  <2>2. ASSUME NEW q \in 1 .. l, k = m + q
        PROVE  cpu.memory[k] = IF words[k] = Unset THEN Unset
                               ELSE Native(types[k], words[k])
    <3>1. words[k] = locals[q] /\ types[k] = signature.locals[q]
      BY <1>5, <1>10, <1>11, <2>2
    <3>2. cpu.memory[k] = NativeOrUnset(signature.locals[q], locals[q])
      BY <1>13, <2>2
    <3> QED BY <3>1, <3>2 DEF NativeOrUnset
  <2>3. ASSUME NEW q \in 1 .. n, k = m + l + q
        PROVE  cpu.memory[k] = IF words[k] = Unset THEN Unset
                               ELSE Native(types[k], words[k])
    <3>1. words[k] = stack[q] /\ types[k] = nodes[h[q]].type
      BY <1>6, <1>10, <1>11, <2>3
    <3>2. k = FrameWords + q  BY <1>2, <2>3
    <3>3. cpu.memory[k] = Native(nodes[h[q]].type, stack[q])  BY <1>3, <3>2
    <3>4. stack[q] # Unset  BY <1>3, HasTypeFacts
    <3> QED BY <3>1, <3>3, <3>4
  <2> QED BY <1>14, <2>1, <2>2, <2>3
<1>16. /\ Len(words) = cpu.a7 /\ Len(types) = cpu.a7
       /\ \A k \in 1 .. cpu.a7 :
             cpu.memory[k] = IF words[k] = Unset THEN Unset
                             ELSE Native(types[k], words[k])
  BY <1>10, <1>11, <1>12, <1>15
<1> QED BY <1>16 DEF words, types, front, h, l

LEMMA CalledAgrees ==
  ASSUME ParserInv, NEW w, Called(w)
  PROVE  StackCodeAgrees
<1>1. NativeOutcome = cpu.outcome  BY DEF Called
<1>2. ASSUME outcome = Running
      PROVE  LET words == argument \o locals \o stack
                 types == signature.parameters
                          \o SubSeq(signature.locals, 1, local_count)
                          \o StackTypes(code)[pc - 1]
             IN  /\ Len(words) = cpu.a7 /\ Len(types) = cpu.a7
                 /\ \A k \in 1 .. cpu.a7 :
                       cpu.memory[k] = IF words[k] = Unset THEN Unset
                                       ELSE Native(types[k], words[k])
  <2>1. /\ Ready(w[pc - 1]) /\ Line(w, code, Len(statements))
        /\ Len(code) \in Nat /\ pc - 1 \in 0 .. Len(code)
    BY <1>2 DEF Called
  <2>2. StackTypes(code)[pc - 1] = TypesOf(w[pc - 1].held)
    BY <2>1, LineFacts
  <2> QED BY <2>1, <2>2, WordsOfFrame
<1>3. outcome[1] = "return" => Canonical(signature.result, outcome[2])
  <2> SUFFICES ASSUME outcome[1] = "return"
               PROVE  Canonical(signature.result, outcome[2])
    OBVIOUS
  <2>1. Outcomes(outcome)  BY DEF Called
  <2>2. PICK x : outcome = Returned(x) /\ HasType(signature.result, x)
    <3>1. Running[1] # "return" /\ \A p : Fault(p)[1] # "return"
      BY DEF Running, Fault
    <3> QED BY <2>1, <3>1 DEF Outcomes
  <2>3. outcome[2] = x  BY <2>2 DEF Returned
  <2> QED BY <2>2, <2>3, HasTypeFacts
<1>4. \A l \in DOMAIN locals :
         locals[l] # Unset => Canonical(signature.locals[l], locals[l])
  BY HasTypeFacts DEF Called, LocalsTyped
<1> QED BY <1>1, <1>2, <1>3, <1>4 DEF StackCodeAgrees

LEMMA RunInitially ==
  ASSUME StackInit
  PROVE  ParserInv /\ RunInv
<1>1. ParserInv  BY ParserInitially DEF StackInit
<1>2. mode # "compiled" /\ pc = 0 /\ stack = <<>> /\ outcome = Running
  BY DEF StackInit, Init, NoCode
<1> QED BY <1>1, <1>2 DEF RunInv

(* At every instruction of every call the evaluator's stack and the        *)
(* processor's hold the words of the same nodes, of the types              *)
(* validate_block_stack found, above the same parameters and locals; and a *)
(* local is read only after a word was stored in it (miga80_evaluate_ir,   *)
(* miga80_emit_gnu_m68k).                                                  *)
THEOREM CallsMirrored == StackSpec => []RunInv
<1> DEFINE Inv == ParserInv /\ RunInv
<1>1. StackInit => Inv  BY RunInitially
<1>2. Inv /\ [StackNext]_<<parserVars, codeVars>> => Inv'
  BY StepKeepsParser, RunKept
<1>3. Inv => RunInv  OBVIOUS
<1> QED BY <1>1, <1>2, <1>3, PTL DEF StackSpec

(* The code of -O0 follows the evaluator, word by word, to the same result *)
(* or to the same division by zero at the same place, for every function   *)
(* the parser accepts and all arguments (miga80_emit_gnu_m68k,             *)
(* miga80_evaluate_ir).                                                    *)
THEOREM MachinesAgree == StackSpec => []StackCodeAgrees
<1>1. ParserInv /\ RunInv => StackCodeAgrees
  <2> SUFFICES ASSUME ParserInv, RunInv
               PROVE  StackCodeAgrees
    OBVIOUS
  <2>1. CASE pc = 0  BY <2>1 DEF StackCodeAgrees
  <2>2. CASE pc # 0
    <3>1. PICK w : Called(w)  BY <2>2 DEF RunInv
    <3> QED BY <3>1, CalledAgrees
  <2> QED BY <2>1, <2>2
<1> QED BY <1>1, CallsMirrored, ParserKeepsTables, PTL
-----------------------------------------------------------------------------
(* The constants of the parser are the words of the evaluator. *)

(* A conversion that is allowed changes nothing. *)
LEMMA FittingWords ==
  ASSUME NEW type \in IntegerTypes, NEW c \in Word, Fits(type, c)
  PROVE  Normalize(type, c) = c
<1>1. c \in Int  BY WordSizes DEF Word
<1>2. PICK p \in Nat \ {0}, h \in Nat \ {0}, q \in Nat \ {0}, l \in Nat :
            /\ p = 2 ^ BitsOf(type) /\ h = 2 ^ (BitsOf(type) - 1)
            /\ p = 2 * h /\ Modulus = q * p /\ Modulus >= p
            /\ l = c % p /\ l < p
            /\ Normalize(type, c) = IF type \in SignedTypes /\ l >= h
                                    THEN l + (Modulus - p) ELSE l
  BY <1>1, NormalForm
<1>3. /\ type \in UnsignedTypes => c < p
      /\ type \in SignedTypes => c < h \/ c >= Modulus - h
  <2>1. SignedTypes \cap UnsignedTypes = {}
    BY DEF SignedTypes, UnsignedTypes
  <2> QED BY <1>2, <2>1 DEF Fits
<1>4. c \in Nat /\ Modulus \in Nat /\ c < Modulus  BY WordSizes DEF Word
<1>5. CASE c < p
  <2>1. l = c  BY <1>2, <1>4, <1>5, RemainderOfSmall
  <2>2. Modulus = p \/ Modulus >= 2 * p
    <3>1. q = 1 \/ q >= 2  BY <1>2
    <3>2. CASE q = 1  BY <1>2, <3>2
    <3>3. CASE q >= 2
      <4>1. q * p >= 2 * p
        <5> HIDE DEF Modulus
        <5> QED BY ONLY <3>3, q \in Nat \ {0}, p \in Nat \ {0}
      <4> QED BY <1>2, <4>1
    <3> QED BY <3>1, <3>2, <3>3
  <2>3. type \in SignedTypes => c < h \/ Modulus = p
    BY <1>2, <1>3, <1>4, <1>5, <2>2
  <2>4. /\ Normalize(type, c) = IF type \in SignedTypes /\ l >= h
                                THEN l + (Modulus - p) ELSE l
        /\ p \in Int /\ h \in Int /\ l \in Int /\ Modulus \in Int
    BY <1>2, <1>4
  <2>5. CASE type \in SignedTypes /\ l >= h
    <3>1. Modulus = p  BY <2>1, <2>3, <2>4, <2>5
    <3>2. Normalize(type, c) = l + (Modulus - p)  BY <2>4, <2>5
    <3> QED BY <2>1, <2>4, <3>1, <3>2
  <2>6. CASE ~ (type \in SignedTypes /\ l >= h)
    <3>1. Normalize(type, c) = l  BY <2>4, <2>6
    <3> QED BY <2>1, <3>1
  <2> QED BY <2>5, <2>6
<1>6. CASE ~ (c < p)
  <2>1. type \in SignedTypes /\ c >= Modulus - h
    BY <1>2, <1>3, <1>4, <1>6 DEF IntegerTypes
  <2> DEFINE r == c - (Modulus - p)
  <2>2. r \in 0 .. p - 1 /\ r >= h  BY <1>2, <1>4, <2>1
  <2>3. l = r
    <3>1. q - 1 \in Int /\ c = (q - 1) * p + r  BY <1>2, <1>4
    <3> HIDE DEF r
    <3>2. c % p = r
      <4> DEFINE k == q - 1
      <4>1. k \in Int /\ c = k * p + r  BY <3>1
      <4>2. p \in Nat \ {0} /\ r \in 0 .. p - 1 /\ c \in Int  BY <1>1, <2>2
      <4> HIDE DEF k
      <4> QED BY <4>1, <4>2, RemainderIsUnique
    <3> QED BY <1>2, <3>2
  <2> QED BY <1>2, <1>4, <2>1, <2>2, <2>3
<1> QED BY <1>5, <1>6

(* What the parser knows of a node is what its instruction computes. *)
LEMMA ConstantStep ==
  ASSUME ParserInv, NEW n \in Known, NEW x \in Word, NEW y \in Word,
         LET K == Constants(nodes)
             l == nodes[n].left
             m == nodes[n].right
         IN  /\ nodes[n].kind \in Unary \cup Binary =>
                   (K[l] # <<>> => x = K[l][1])
             /\ nodes[n].kind \in Binary => (K[m] # <<>> => y = K[m][1]),
         Constants(nodes)[n] # <<>>
  PROVE  WordOf(n, x, y) = Constants(nodes)[n][1]
<1> DEFINE K == Constants(nodes)
           l == nodes[n].left
           m == nodes[n].right
           kind == nodes[n].kind
           type == nodes[n].type
<1>1. Ordered(nodes) /\ Table(nodes, pool, local_count) /\ kind \in Kinds
  BY ParserFacts, NodeRecord DEF ParserInv
<1>2. K[n] = ConstantOf(K, nodes, n)  BY <1>1, ConstantsUnfold DEF Known
<1>3. type = "i32" \/ kind = "normalize"  BY <1>1, NarrowConstants DEF Known
<1>4. K[n] # <<>>  OBVIOUS
<1>5. /\ kind \in Unary \cup Binary => (K[l] # <<>> => x = K[l][1])
      /\ kind \in Binary => (K[m] # <<>> => y = K[m][1])
  OBVIOUS
<1> HIDE DEF K, l, m
<1>6. CASE kind = "literal"
  <2>1. K[n] = <<nodes[n].value>>
    BY <1>2, <1>6 DEF ConstantOf, Arithmetic, Divisions
  <2>2. kind \in {"literal", "truth"} \cup PoolTypes /\ type = "i32"
    BY <1>3, <1>6
  <2>3. WordOf(n, x, y) = Pushed(NodeInstruction(n))
    BY <1>6, WordOfLeaf DEF Leaves
  <2>4. NodeInstruction(n).type = type /\ NodeInstruction(n).value = nodes[n].value
    <3>1. kind \notin Comparisons  BY <1>6 DEF Comparisons, Equalities
    <3> QED BY <3>1 DEF NodeInstruction, Instruction
  <2> QED BY <2>1, <2>2, <2>3, <2>4 DEF Pushed, K
<1>7. CASE kind = "neg"
  <2>1. K[n] = IF K[l] = <<>> THEN <<>> ELSE <<Negated(K[l][1])>>
    BY <1>2, <1>7 DEF ConstantOf, Arithmetic, Divisions, l
  <2>2. K[l] # <<>> /\ K[n] = <<Negated(K[l][1])>> /\ type = "i32"
    BY <1>3, <1>4, <1>7, <2>1
  <2>3. x = K[l][1]  BY <1>5, <1>7, <2>2 DEF Unary
  <2>4. WordOf(n, x, y) = Normalize(type, Negated(x))
    <3>1. kind \notin Binary
      BY <1>7 DEF Binary, Arithmetic, Divisions, Comparisons, Equalities
    <3> QED BY <1>7, <3>1 DEF WordOf, PoolTypes
  <2>5. Negated(x) \in Word
    <3>1. 0 - x \in Int  BY WordSizes DEF Word
    <3> QED BY <3>1, WrapIsWord DEF Negated
  <2>6. Normalize(type, Negated(x)) = Negated(x)
    <3>1. BitsOf(type) = Width  BY <2>2 DEF BitsOf
    <3> QED BY <2>5, <3>1, NormalizeWide
  <2> QED BY <2>2, <2>3, <2>4, <2>6 DEF K
<1>8. CASE kind = "normalize"
  <2>1. K[n] = IF K[l] = <<>> THEN <<>> ELSE <<Normalize(type, K[l][1])>>
    BY <1>2, <1>8 DEF ConstantOf, Arithmetic, Divisions, l
  <2>2. K[l] # <<>> /\ K[n] = <<Normalize(type, K[l][1])>>  BY <1>4, <2>1
  <2>3. x = K[l][1]  BY <1>5, <1>8, <2>2 DEF Unary
  <2>4. WordOf(n, x, y) = Normalize(type, x)
    <3>1. kind \notin Binary
      BY <1>8 DEF Binary, Arithmetic, Divisions, Comparisons, Equalities
    <3> QED BY <1>8, <3>1 DEF WordOf, PoolTypes
  <2> QED BY <2>2, <2>3, <2>4 DEF K
<1>9. CASE kind \in Arithmetic
  <2>1. kind \in Binary /\ kind \notin {"literal", "neg", "normalize"}
    BY <1>9 DEF Binary, Arithmetic, Divisions
  <2>2. K[n] = IF K[l] = <<>> THEN <<>>
               ELSE IF K[m] = <<>> THEN <<>>
               ELSE IF Faults(kind, K[m][1]) THEN <<>>
               ELSE <<Folded(kind, K[l][1], K[m][1])>>
    BY <1>2, <1>9, <2>1 DEF ConstantOf, l, m
  <2>3. K[l] # <<>> /\ K[m] # <<>> /\ K[n] = <<Folded(kind, K[l][1], K[m][1])>>
    BY <1>4, <2>2
  <2>4. x = K[l][1] /\ y = K[m][1]  BY <1>5, <2>1, <2>3
  <2>5. WordOf(n, x, y) = Apply(kind, nodes[l].type, x, y)
        /\ nodes[l].type = type
    BY <1>9, <2>1, BinaryFacts DEF l
  <2>6. type = "i32"  BY <1>3, <2>1
  <2> QED BY <2>3, <2>4, <2>5, <2>6 DEF Folded, K
<1>10. CASE kind \notin {"literal", "neg", "normalize"} \cup Arithmetic
  <2>1. K[n] = <<>>  BY <1>2, <1>10 DEF ConstantOf
  <2> QED BY <1>4, <2>1
<1> QED BY <1>6, <1>7, <1>8, <1>9, <1>10

(* What holds of every node on the stack and its word, as a set of pairs *)
Related(R, h, s) == \A q \in 1 .. Len(h) : <<h[q], s[q]>> \in R

(* What an instruction has to do for it. *)
Continues(R, n) ==
    \A x, y \in Word :
       /\ nodes[n].kind \in Unary \cup Binary => <<nodes[n].left, x>> \in R
       /\ nodes[n].kind \in Binary => <<nodes[n].right, y>> \in R
       /\ ~ (nodes[n].kind \in Divisions /\ y = 0)
       /\ WordOf(n, x, y) \in Word
       => <<n, WordOf(n, x, y)>> \in R

LEMMA RelatedTop ==
  ASSUME NEW R, NEW S, NEW T, NEW h \in Seq(S), NEW k, NEW s \in Seq(T), NEW x,
         Len(s) = Len(h)
  PROVE  Related(R, Append(h, k), Append(s, x)) <=>
            Related(R, h, s) /\ <<k, x>> \in R
<1> DEFINE m == Len(h)
           g == Append(h, k)
           t == Append(s, x)
<1>1. m \in Nat /\ Len(g) = m + 1 /\ g[m + 1] = k
      /\ \A q \in 1 .. m : g[q] = h[q]
  OBVIOUS
<1>2. t[m + 1] = x /\ \A q \in 1 .. m : t[q] = s[q]  BY <1>1
<1>3. /\ \A q \in 1 .. m : q \in 1 .. m + 1
      /\ m + 1 \in 1 .. m + 1
      /\ \A q \in 1 .. m + 1 : q \in 1 .. m \/ q = m + 1
  BY <1>1
<1>4. Related(R, h, s) <=> \A q \in 1 .. m : <<h[q], s[q]>> \in R
  BY DEF Related
<1>5. Related(R, g, t) <=> \A q \in 1 .. m + 1 : <<g[q], t[q]>> \in R
  BY <1>1 DEF Related
<1> HIDE DEF m, g, t
<1>6. Related(R, g, t) <=> Related(R, h, s) /\ <<k, x>> \in R
  <2>1. ASSUME Related(R, g, t)
        PROVE  Related(R, h, s) /\ <<k, x>> \in R
    BY <1>1, <1>2, <1>3, <1>4, <1>5, <2>1
  <2>2. ASSUME Related(R, h, s), <<k, x>> \in R
        PROVE  Related(R, g, t)
    BY <1>1, <1>2, <1>3, <1>4, <1>5, <2>2
  <2> QED BY <2>1, <2>2
<1> QED BY <1>6 DEF g, t

(* The operands of a node and their words are on top. *)
LEMMA RelatedOperand ==
  ASSUME NEW R, NEW h \in Seq(Known), NEW n, NEW g,
         NodeMoves(h, n, g), Len(stack) = Len(h), Related(R, h, stack),
         nodes[n].kind \in Unary,
         NEW r \in Seq(Word), NEW x \in Word, stack = Append(r, x)
  PROVE  \E b \in Seq(Nat) : /\ g = Append(b, n) /\ Len(r) = Len(b)
                             /\ Related(R, b, r) /\ <<nodes[n].left, x>> \in R
<1> DEFINE W == Word
<1>1. PICK b \in Seq(Nat) : h = Append(b, nodes[n].left) /\ g = Append(b, n)
  BY KindsDiffer DEF NodeMoves
<1> HIDE DEF W
<1>2. Len(r) = Len(b)
  <2>1. Len(h) = Len(b) + 1 /\ Len(b) \in Nat  BY <1>1
  <2>2. Len(stack) = Len(r) + 1 /\ Len(r) \in Nat  OBVIOUS
  <2> QED BY <2>1, <2>2
<1>3. Related(R, Append(b, nodes[n].left), Append(r, x))  BY <1>1
<1>4. Related(R, b, r) /\ <<nodes[n].left, x>> \in R
  BY <1>2, <1>3, RelatedTop
<1> QED BY <1>1, <1>2, <1>4

LEMMA RelatedOperands ==
  ASSUME NEW R, NEW h \in Seq(Known), NEW n, NEW g,
         NodeMoves(h, n, g), Len(stack) = Len(h), Related(R, h, stack),
         nodes[n].kind \in Binary,
         NEW r \in Seq(Word), NEW x \in Word, NEW y \in Word,
         NEW p, p = Append(r, x), stack = Append(p, y)
  PROVE  \E b \in Seq(Nat) : /\ g = Append(b, n) /\ Len(r) = Len(b)
                             /\ Related(R, b, r) /\ <<nodes[n].left, x>> \in R
                             /\ <<nodes[n].right, y>> \in R
<1> DEFINE W == Word
           l == nodes[n].left
           m == nodes[n].right
<1>0. r \in Seq(W) /\ x \in W /\ y \in W  OBVIOUS
<1>1. PICK b \in Seq(Nat) : h = Append(Append(b, l), m) /\ g = Append(b, n)
  BY KindsDiffer DEF NodeMoves
<1> HIDE DEF W, l, m
<1> DEFINE d == Append(b, l)
           U == Nat \cup {l}
<1>2. d \in Seq(U) /\ Len(d) = Len(b) + 1 /\ Len(b) \in Nat
  <2>1. b \in Seq(U) /\ l \in U  OBVIOUS
  <2> HIDE DEF U
  <2> QED BY <2>1
<1>3. p \in Seq(W) /\ Len(p) = Len(r) + 1 /\ Len(r) \in Nat  BY <1>0
<1> HIDE DEF d, U
<1>4. Len(p) = Len(d)
  <2>1. Len(h) = Len(d) + 1  BY <1>1, <1>2 DEF d
  <2>2. Len(stack) = Len(p) + 1  BY <1>3
  <2> QED BY <1>2, <1>3, <2>1, <2>2
<1>5. Len(r) = Len(b)  BY <1>2, <1>3, <1>4
<1>6. Related(R, Append(d, m), Append(p, y))  BY <1>1 DEF d
<1>7. Related(R, d, p) /\ <<m, y>> \in R
  BY <1>2, <1>3, <1>4, <1>6, RelatedTop
<1>8. Related(R, Append(b, l), Append(r, x))  BY <1>7 DEF d
<1>9. Related(R, b, r) /\ <<l, x>> \in R  BY <1>5, <1>8, RelatedTop
<1> QED BY <1>1, <1>5, <1>7, <1>9 DEF l, m

LEMMA WordOnTop ==
  ASSUME NEW T, NEW r \in Seq(T), NEW v, Append(r, v) \in Seq(T)
  PROVE  v \in T
<1>1. v = Append(r, v)[Len(r) + 1] /\ Len(Append(r, v)) = Len(r) + 1
      /\ Len(r) \in Nat
  OBVIOUS
<1> QED BY <1>1

LEMMA RelatedComputed ==
  ASSUME ParserInv, NEW R, NEW h \in Seq(Known), NEW n, NEW g, NEW t,
         NodeMoves(h, n, g), stack \in Seq(Word), Len(stack) = Len(h),
         Related(R, h, stack), Computed(n, t), t \in Seq(Word), Continues(R, n)
  PROVE  Related(R, g, t)
<1> DEFINE W == Word
<1>1. CASE nodes[n].kind \in Leaves
  <2>1. g = Append(h, n)  BY <1>1, KindsDiffer DEF NodeMoves
  <2>2. nodes[n].kind \notin Unary /\ nodes[n].kind \notin Binary
        /\ nodes[n].kind \notin Divisions
    BY <1>1, KindsDiffer DEF Binary, Arithmetic
  <2>3. t = Append(stack, WordOf(n, 0, 0))  BY <1>1, <2>2 DEF Computed
  <2>4. 0 \in Word  BY WordSizes DEF Word
  <2>4a. WordOf(n, 0, 0) \in Word  BY <2>3, WordOnTop
  <2>5. <<n, WordOf(n, 0, 0)>> \in R  BY <2>2, <2>4, <2>4a DEF Continues
  <2>6. stack \in Seq(W)  OBVIOUS
  <2> HIDE DEF W
  <2> QED BY <2>1, <2>3, <2>5, <2>6, RelatedTop
<1>2. CASE nodes[n].kind \in Unary
  <2>1. nodes[n].kind \notin Leaves /\ nodes[n].kind \notin Binary
        /\ nodes[n].kind \notin Divisions
    BY <1>2, KindsDiffer DEF Binary, Arithmetic
  <2>2. PICK r \in Seq(Word), x \in Word :
               stack = Append(r, x) /\ t = Append(r, WordOf(n, x, 0))
    BY <1>2, <2>1 DEF Computed
  <2>3. PICK b \in Seq(Nat) : /\ g = Append(b, n) /\ Len(r) = Len(b)
                              /\ Related(R, b, r) /\ <<nodes[n].left, x>> \in R
    BY <1>2, <2>2, RelatedOperand
  <2>4. 0 \in Word  BY WordSizes DEF Word
  <2>4a. WordOf(n, x, 0) \in Word  BY <2>2, WordOnTop
  <2>5. <<n, WordOf(n, x, 0)>> \in R
    BY <1>2, <2>1, <2>3, <2>4, <2>4a DEF Continues
  <2>6. r \in Seq(W)  OBVIOUS
  <2> HIDE DEF W
  <2> QED BY <2>2, <2>3, <2>5, <2>6, RelatedTop
<1>3. CASE nodes[n].kind \in Binary
  <2>1. nodes[n].kind \notin Leaves /\ nodes[n].kind \notin Unary
    BY <1>3, KindsDiffer
  <2>2. PICK r \in Seq(Word), x \in Word, y \in Word :
               /\ stack = Append(Append(r, x), y)
               /\ ~ (nodes[n].kind \in Divisions /\ y = 0)
               /\ t = Append(r, WordOf(n, x, y))
    BY <1>3, <2>1 DEF Computed
  <2>3. PICK b \in Seq(Nat) : /\ g = Append(b, n) /\ Len(r) = Len(b)
                              /\ Related(R, b, r) /\ <<nodes[n].left, x>> \in R
                              /\ <<nodes[n].right, y>> \in R
    <3>1. PICK p : p = Append(r, x)  OBVIOUS
    <3>2. stack = Append(p, y)  BY <2>2, <3>1
    <3> QED BY <1>3, <3>1, <3>2, RelatedOperands
  <2>3a. WordOf(n, x, y) \in Word  BY <2>2, WordOnTop
  <2>4. <<n, WordOf(n, x, y)>> \in R
    BY <1>3, <2>2, <2>3, <2>3a DEF Continues
  <2>5. r \in Seq(W)  OBVIOUS
  <2> HIDE DEF W
  <2> QED BY <2>2, <2>3, <2>4, <2>5, RelatedTop
<1> QED BY <1>1, <1>2, <1>3 DEF Computed

(* The numbers that words denote.  What is done on words is done on        *)
(* numbers, and brought into the range of the type.                        *)
LEMMA InRangeForm ==
  ASSUME NEW type, NEW n \in Int, NEW p, NEW h,
         p = 2 ^ BitsOf(type), h = 2 ^ (BitsOf(type) - 1)
  PROVE  InRange(type, n) = IF type \in SignedTypes /\ n % p >= h
                            THEN (n % p) - p ELSE n % p
<1>1. p \in Nat \ {0} /\ h \in Nat \ {0} /\ p = 2 * h  BY TypeSizes
<1>2. p \div 2 = h  BY <1>1
<1>3. InRange(type, n) = IF type \in SignedTypes /\ n % p >= p \div 2
                         THEN (n % p) - p ELSE n % p
  BY DEF InRange
<1> QED BY <1>2, <1>3

(* A word more or less makes no difference. *)
LEMMA InRangeOfShifted ==
  ASSUME NEW type, NEW n \in Int, NEW k \in Int
  PROVE  InRange(type, n + k * Modulus) = InRange(type, n)
<1> DEFINE x == n + k * Modulus
<1>1. PICK p, h : p = 2 ^ BitsOf(type) /\ h = 2 ^ (BitsOf(type) - 1)
  OBVIOUS
<1>2. PICK q \in Nat \ {0} : Modulus = q * p  BY <1>1, TypeSizes
<1>3. p \in Nat \ {0}  BY <1>1, TypeSizes
<1>4. x = n + (k * q) * p /\ k * q \in Int  BY <1>2, <1>3
<1>5. x \in Int  BY WordSizes
<1> HIDE DEF x
<1>6. x % p = n % p
  <2> DEFINE j == k * q
  <2>1. j \in Int /\ x = n + j * p  BY <1>4
  <2> HIDE DEF j
  <2> QED BY <1>3, <2>1, RemainderOfShifted
<1> QED BY <1>1, <1>5, <1>6, InRangeForm DEF x

LEMMA InRangeOfWord ==
  ASSUME NEW type, NEW n \in Int
  PROVE  InRange(type, Wrap(n)) = InRange(type, n)
<1> DEFINE d == n \div Modulus
<1>1. d \in Int /\ Wrap(n) \in Int /\ n = d * Modulus + Wrap(n)
  <2>1. PICK M \in Nat \ {0} : M = Modulus  BY WordSizes
  <2>2. n \div M \in Int /\ n % M \in Int /\ n = (n \div M) * M + (n % M)
    BY <2>1, Remainder
  <2> QED BY <2>1, <2>2 DEF Wrap
<1> HIDE DEF d
<1>2. n = Wrap(n) + d * Modulus  BY <1>1, WordSizes
<1> QED BY <1>1, <1>2, InRangeOfShifted

(* miga80_normalize_integer finds the word of the number in range. *)
LEMMA NormalizedDenotes ==
  ASSUME NEW type \in IntegerTypes, NEW n \in Int
  PROVE  Denotes(type, Normalize(type, n)) = InRange(type, n)
<1>1. PICK p \in Nat \ {0}, h \in Nat \ {0}, q \in Nat \ {0}, l \in Nat :
            /\ p = 2 ^ BitsOf(type) /\ h = 2 ^ (BitsOf(type) - 1)
            /\ p = 2 * h /\ Modulus = q * p /\ Modulus >= p
            /\ l = n % p /\ l < p
            /\ Normalize(type, n) = IF type \in SignedTypes /\ l >= h
                                    THEN l + (Modulus - p) ELSE l
  BY NormalForm
<1>2. InRange(type, n) = IF type \in SignedTypes /\ l >= h THEN l - p ELSE l
  BY <1>1, InRangeForm
<1> DEFINE w == Normalize(type, n)
<1>3. Denotes(type, w) = IF type \in SignedTypes THEN Signed(w) ELSE w
  BY DEF Denotes, IntegerTypes, SignedTypes, UnsignedTypes
<1>4. w = IF type \in SignedTypes /\ l >= h THEN l + (Modulus - p) ELSE l
  BY <1>1
<1>5. Modulus \in Nat /\ SignBit \in Nat /\ Modulus = 2 * SignBit
  BY WordSizes
<1> HIDE DEF w
<1>6. CASE type \in SignedTypes /\ l >= h
  <2>1. w = l + (Modulus - p) /\ Denotes(type, w) = Signed(w)
        /\ InRange(type, n) = l - p
    BY <1>2, <1>3, <1>4, <1>6
  <2>2. w >= SignBit  BY <1>1, <1>5, <1>6, <2>1
  <2>3. Signed(w) = w - Modulus  BY <2>2 DEF Signed
  <2> QED BY <1>1, <1>5, <2>1, <2>3 DEF w
<1>7. CASE type \in SignedTypes /\ ~ (l >= h)
  <2>1. w = l /\ Denotes(type, w) = Signed(w) /\ InRange(type, n) = l
    BY <1>2, <1>3, <1>4, <1>7
  <2>2. ~ (w >= SignBit)  BY <1>1, <1>5, <1>7, <2>1
  <2> QED BY <2>1, <2>2 DEF w, Signed
<1>8. CASE type \notin SignedTypes  BY <1>2, <1>3, <1>4, <1>8 DEF w
<1> QED BY <1>6, <1>7, <1>8

LEMMA DenotesShifted ==
  ASSUME NEW type \in IntegerTypes, NEW w \in Word
  PROVE  /\ Denotes(type, w) \in Int
         /\ \E k \in Int : Denotes(type, w) = w + k * Modulus
         /\ Denotes(type, w) = IF type \in SignedTypes THEN Signed(w) ELSE w
<1>1. Denotes(type, w) = IF type \in SignedTypes THEN Signed(w) ELSE w
  BY DEF Denotes, IntegerTypes, SignedTypes, UnsignedTypes
<1>2. w \in Int /\ Modulus \in Int  BY WordSizes DEF Word
<1>3. PICK k \in Int : Signed(w) = w + k * Modulus  BY SignedNumber
<1>4. w = w + 0 * Modulus  BY <1>2
<1>5. \E j \in Int : Denotes(type, w) = w + j * Modulus
  <2>1. CASE type \in SignedTypes  BY <1>1, <1>3, <2>1
  <2>2. CASE type \notin SignedTypes
    <3>1. Denotes(type, w) = w + 0 * Modulus  BY <1>1, <1>4, <2>2
    <3> QED BY <3>1
  <2> QED BY <2>1, <2>2
<1>6. Denotes(type, w) \in Int
  <2> DEFINE z == Denotes(type, w)
  <2>1. PICK j \in Int : z = w + j * Modulus  BY <1>5
  <2> HIDE DEF z
  <2>2. z \in Int  BY <1>2, <2>1
  <2> QED BY <2>2 DEF z
<1> QED BY <1>1, <1>5, <1>6

(* Operations on words and on the numbers they denote. *)
LEMMA CongruentResults ==
  ASSUME NEW type \in IntegerTypes, NEW x \in Word, NEW y \in Word
  PROVE  LET n == Denotes(type, x)
             m == Denotes(type, y)
         IN  /\ InRange(type, n + m) = InRange(type, Wrap(x + y))
             /\ InRange(type, n - m) = InRange(type, Wrap(x - y))
             /\ InRange(type, n * m) = InRange(type, Wrap(x * y))
             /\ InRange(type, 0 - n) = InRange(type, Wrap(0 - x))
<1> DEFINE n == Denotes(type, x)
           m == Denotes(type, y)
<1>1. n \in Int /\ m \in Int  BY DenotesShifted
<1>2. PICK k \in Int : n = x + k * Modulus  BY DenotesShifted
<1>3. PICK j \in Int : m = y + j * Modulus  BY DenotesShifted
<1>4. x \in Int /\ y \in Int  BY WordSizes DEF Word
<1>4a. PICK M \in Int : M = Modulus  BY WordSizes
<1>4b. \A a, i \in Int : InRange(type, a + i * M) = InRange(type, a)
  BY <1>4a, InRangeOfShifted
<1> HIDE DEF n, m
<1>5. InRange(type, n + m) = InRange(type, x + y)
  <2>1. n + m = (x + y) + (k + j) * M /\ k + j \in Int /\ x + y \in Int
    BY <1>2, <1>3, <1>4, <1>4a
  <2> QED BY <1>4b, <2>1
<1>6. InRange(type, n - m) = InRange(type, x - y)
  <2>1. n - m = (x - y) + (k - j) * M /\ k - j \in Int /\ x - y \in Int
    BY <1>2, <1>3, <1>4, <1>4a
  <2> QED BY <1>4b, <2>1
<1>7. InRange(type, n * m) = InRange(type, x * y)
  <2> DEFINE i == x * j + k * y + k * j * M
  <2>1. i \in Int /\ x * y \in Int  BY <1>4, <1>4a
  <2>2. n * m = x * y + i * M
    <3>1. n = x + k * M /\ m = y + j * M  BY <1>2, <1>3, <1>4a
    <3> QED BY <1>4, <1>4a, <3>1
  <2> HIDE DEF i
  <2> QED BY <1>4b, <2>1, <2>2
<1>8. InRange(type, 0 - n) = InRange(type, 0 - x)
  <2>1. 0 - n = (0 - x) + (0 - k) * M /\ 0 - k \in Int /\ 0 - x \in Int
    BY <1>2, <1>4, <1>4a
  <2> QED BY <1>4b, <2>1
<1>9. x + y \in Int /\ x - y \in Int /\ x * y \in Int /\ 0 - x \in Int
  BY <1>4
<1> QED BY <1>5, <1>6, <1>7, <1>8, <1>9, InRangeOfWord DEF n, m

(* divs.l truncates toward zero. *)
LEMMA SignedQuotientTruncates ==
  ASSUME NEW a \in Word, NEW b \in Word, b # 0
  PROVE  /\ Divide(a, b) = Wrap(Truncated(Signed(a), Signed(b)))
         /\ Truncated(Signed(a), Signed(b)) \in Int
<1> DEFINE n == Signed(a)
           m == Signed(b)
           x == IF n < 0 THEN 0 - n ELSE n
           y == IF m < 0 THEN 0 - m ELSE m
           q == x \div y
           t == IF (n < 0) # (m < 0) THEN 0 - q ELSE q
<1>1. /\ a \in 0 .. Modulus - 1 /\ b \in 0 .. Modulus - 1
      /\ Modulus \in Nat \ {0} /\ SignBit \in Nat \ {0}
      /\ Modulus = 2 * SignBit
  BY WordSizes DEF Word
<1>2. n \in Int /\ m \in Int /\ m # 0 /\ x \in Nat /\ y \in Nat \ {0}
      /\ (n = 0 - SignBit => a = SignBit /\ x = SignBit)
  BY <1>1, SignedNumber
<1>3. t = Truncated(n, m)  BY DEF Truncated
<1>4. SignedQuotient(a, b) = IF n = 0 - SignBit /\ m = 0 - 1 THEN a ELSE Wrap(t)
  BY DEF SignedQuotient
<1>5. SignedQuotient(a, b) = Divide(a, b)  BY SignedQuotients
<1>6. q \in Int
  <2> HIDE DEF x, y
  <2> QED BY <1>2, QuotientIsSmall
<1>7. t \in Int
  <2> HIDE DEF q
  <2> QED BY <1>6, SMTT(30)
<1>8. CASE n = 0 - SignBit /\ m = 0 - 1
  <2>1. y = 1 /\ x = SignBit /\ n < 0 /\ m < 0  BY <1>1, <1>2, <1>8
  <2>2. q = x
    <3> HIDE DEF x, y
    <3> QED BY <1>2, <2>1
  <2>3. t = q
    <3> HIDE DEF q, n, m
    <3> QED BY <2>1
  <2>4. t = a
    <3> HIDE DEF t, q, x, n
    <3> QED BY <1>2, <1>8, <2>1, <2>2, <2>3
  <2> HIDE DEF t, n, m, x, y, q
  <2> QED BY <1>3, <1>4, <1>5, <1>7, <1>8, <2>4, WrapOfWord DEF n, m
<1>9. CASE ~ (n = 0 - SignBit /\ m = 0 - 1)
  <2> HIDE DEF t, n, m, x, y, q
  <2> QED BY <1>3, <1>4, <1>5, <1>7, <1>9 DEF n, m
<1> QED BY <1>8, <1>9

LEMMA UnsignedQuotientTruncates ==
  ASSUME NEW a \in Nat, NEW b \in Nat
  PROVE  Truncated(a, b) = a \div b
BY DEF Truncated

(* Different words of a type denote different numbers or texts. *)
LEMMA DenotesInjective ==
  ASSUME NEW type \in IntegerTypes, NEW x \in Word, NEW y \in Word
  PROVE  /\ Denotes(type, x) = Denotes(type, y) <=> x = y
         /\ Denotes(type, x) = 0 <=> x = 0
         /\ type \in SignedTypes =>
               (Denotes(type, x) < Denotes(type, y) <=> Flip(x) < Flip(y))
         /\ type \notin SignedTypes =>
               (Denotes(type, x) < Denotes(type, y) <=> x < y)
         /\ Flip(x) \in Int /\ (Flip(x) = Flip(y) <=> x = y)
<1>1. /\ x \in 0 .. Modulus - 1 /\ y \in 0 .. Modulus - 1
      /\ Modulus \in Nat \ {0} /\ SignBit \in Nat \ {0}
      /\ Modulus = 2 * SignBit
  BY WordSizes DEF Word
<1>2. /\ x < SignBit => Signed(x) = x /\ Flip(x) = x + SignBit
      /\ x >= SignBit => Signed(x) = x - Modulus /\ Flip(x) = x - SignBit
      /\ y < SignBit => Signed(y) = y /\ Flip(y) = y + SignBit
      /\ y >= SignBit => Signed(y) = y - Modulus /\ Flip(y) = y - SignBit
  BY SignedNumber, FlippedNumber
<1>3. /\ Denotes(type, x) = IF type \in SignedTypes THEN Signed(x) ELSE x
      /\ Denotes(type, y) = IF type \in SignedTypes THEN Signed(y) ELSE y
  BY DenotesShifted
<1>4. CASE type \in SignedTypes  BY <1>1, <1>2, <1>3, <1>4
<1>5. CASE type \notin SignedTypes  BY <1>1, <1>2, <1>3, <1>5
<1> QED BY <1>4, <1>5

LEMMA ResultOf ==
  ASSUME NEW op, NEW n, NEW m
  PROVE  /\ op = "add" => Result(op, n, m) = n + m
         /\ op = "sub" => Result(op, n, m) = n - m
         /\ op = "mul" => Result(op, n, m) = n * m
         /\ op \in Divisions => Result(op, n, m) = Truncated(n, m)
         /\ op \in Comparisons => Result(op, n, m) = Truth(Compared(op, n, m))
<1>1. CASE op = "add"
  BY <1>1 DEF Result, Divisions, Comparisons, Equalities
<1>2. CASE op = "sub"
  BY <1>2 DEF Result, Divisions, Comparisons, Equalities
<1>3. CASE op = "mul"
  BY <1>3 DEF Result, Divisions, Comparisons, Equalities
<1>4. CASE op \in Divisions
  BY <1>4 DEF Result, Divisions, Comparisons, Equalities
<1>5. CASE op \in Comparisons
  BY <1>5 DEF Result, Divisions, Comparisons, Equalities
<1> QED BY <1>1, <1>2, <1>3, <1>4, <1>5

(* Arithmetic of the evaluator is arithmetic on numbers. *)
LEMMA ArithmeticDenotes ==
  ASSUME NEW type \in IntegerTypes, NEW op \in Arithmetic, SignFits(op, type),
         NEW x \in Word, NEW y \in Word, ~ Faults(op, y)
  PROVE  Denotes(type, Apply(op, type, x, y))
            = InRange(type, Result(op, Denotes(type, x), Denotes(type, y)))
<1> DEFINE n == Denotes(type, x)
           m == Denotes(type, y)
<1>1. x \in Nat /\ y \in Nat  BY WordSizes DEF Word
<1>2. /\ InRange(type, n + m) = InRange(type, Wrap(x + y))
      /\ InRange(type, n - m) = InRange(type, Wrap(x - y))
      /\ InRange(type, n * m) = InRange(type, Wrap(x * y))
  BY CongruentResults
<1>3. Wrap(x + y) \in Int /\ Wrap(x - y) \in Int /\ Wrap(x * y) \in Int
  <2>1. x + y \in Int /\ x - y \in Int /\ x * y \in Int  BY <1>1
  <2>2. \A w \in Word : w \in Int  BY WordSizes DEF Word
  <2> QED BY <2>1, <2>2, WrapIsWord
<1>4. /\ n = IF type \in SignedTypes THEN Signed(x) ELSE x
      /\ m = IF type \in SignedTypes THEN Signed(y) ELSE y
  BY DenotesShifted
<1> HIDE DEF n, m
<1>5. CASE op = "add"
  <2>1. Apply(op, type, x, y) = Normalize(type, Wrap(x + y))
        /\ Result(op, n, m) = n + m
    <3>1. Apply(op, type, x, y) = Normalize(type, Wrap(x + y))
      BY <1>5 DEF Apply
    <3> QED BY <1>5, <3>1, ResultOf
  <2> QED BY <1>2, <1>3, <2>1, NormalizedDenotes DEF n, m
<1>6. CASE op = "sub"
  <2>1. Apply(op, type, x, y) = Normalize(type, Wrap(x - y))
        /\ Result(op, n, m) = n - m
    <3>1. Apply(op, type, x, y) = Normalize(type, Wrap(x - y))
      BY <1>6 DEF Apply
    <3> QED BY <1>6, <3>1, ResultOf
  <2> QED BY <1>2, <1>3, <2>1, NormalizedDenotes DEF n, m
<1>7. CASE op = "mul"
  <2>1. Apply(op, type, x, y) = Normalize(type, Wrap(x * y))
        /\ Result(op, n, m) = n * m
    <3>1. Apply(op, type, x, y) = Normalize(type, Wrap(x * y))
      BY <1>7 DEF Apply
    <3> QED BY <1>7, <3>1, ResultOf
  <2> QED BY <1>2, <1>3, <2>1, NormalizedDenotes DEF n, m
<1>8. op \in Divisions => y # 0  BY DEF Faults
<1>9. CASE op = "div"
  <2>1. /\ Apply(op, type, x, y) = Normalize(type, Divide(x, y))
        /\ Result(op, n, m) = Truncated(n, m)
    <3>1. Apply(op, type, x, y) = Normalize(type, Divide(x, y)) /\ op \in Divisions
      BY <1>9 DEF Apply, Divisions
    <3> QED BY <3>1, ResultOf
  <2>2. type \in SignedTypes  BY <1>9 DEF SignFits
  <2>3. /\ Divide(x, y) = Wrap(Truncated(n, m)) /\ Truncated(n, m) \in Int
        /\ Divide(x, y) \in Int
    <3>1. n = Signed(x) /\ m = Signed(y) /\ y # 0
      BY <1>4, <1>8, <1>9, <2>2 DEF Divisions
    <3>2. Divide(x, y) \in Word  BY <3>1, SignedQuotients
    <3> QED BY <3>1, <3>2, SignedQuotientTruncates, WordSizes DEF Word
  <2>4. Denotes(type, Normalize(type, Divide(x, y))) = InRange(type, Divide(x, y))
    BY <2>3, NormalizedDenotes
  <2>5. InRange(type, Wrap(Truncated(n, m))) = InRange(type, Truncated(n, m))
    BY <2>3, InRangeOfWord
  <2> QED BY <2>1, <2>3, <2>4, <2>5 DEF n, m
<1>10. CASE op = "div_u"
  <2>1. /\ Apply(op, type, x, y) = Normalize(type, x \div y)
        /\ Result(op, n, m) = Truncated(n, m)
    <3>1. Apply(op, type, x, y) = Normalize(type, x \div y) /\ op \in Divisions
      BY <1>10 DEF Apply, Divisions
    <3> QED BY <3>1, ResultOf
  <2>2. type \notin SignedTypes  BY <1>10 DEF SignFits
  <2>3. n = x /\ m = y /\ y \in Nat \ {0}
    BY <1>1, <1>4, <1>8, <1>10, <2>2 DEF Divisions
  <2>4. Truncated(n, m) = x \div y /\ x \div y \in Int
    BY <1>1, <2>3, UnsignedQuotientTruncates
  <2> QED BY <2>1, <2>4, NormalizedDenotes DEF n, m
<1> QED BY <1>5, <1>6, <1>7, <1>9, <1>10 DEF Arithmetic, Divisions

(* An order of words is the order of the numbers. *)
LEMMA OrderDenotes ==
  ASSUME NEW type \in IntegerTypes, NEW op \in Comparisons, SignFits(op, type),
         NEW x \in Word, NEW y \in Word
  PROVE  Apply(op, type, x, y)
            = Result(op, Denotes(type, x), Denotes(type, y))
<1> DEFINE n == Denotes(type, x)
           m == Denotes(type, y)
<1>1. /\ n = m <=> x = y
      /\ type \in SignedTypes => (n < m <=> Flip(x) < Flip(y))
      /\ type \notin SignedTypes => (n < m <=> x < y)
      /\ Flip(x) \in Int /\ (Flip(x) = Flip(y) <=> x = y)
  BY DenotesInjective
<1>2. n \in Int /\ m \in Int /\ x \in Int /\ y \in Int /\ Flip(y) \in Int
  BY DenotesShifted, DenotesInjective, WordSizes DEF Word
<1>4. Result(op, n, m) = Truth(Compared(op, n, m))  BY ResultOf
<1> HIDE DEF n, m
<1>5. CASE op \in {"eq", "ne"}
  BY <1>1, <1>4, <1>5 DEF Apply, Compared, n, m
<1>6. CASE op \in {"lt", "le", "gt", "ge"}
  <2>1. type \in SignedTypes  BY <1>6 DEF SignFits
  <2>2. n < m <=> Flip(x) < Flip(y)  BY <1>1, <2>1
  <2>3. /\ n <= m <=> Flip(x) <= Flip(y)
        /\ n > m <=> Flip(x) > Flip(y)
        /\ n >= m <=> Flip(x) >= Flip(y)
    BY <1>1, <1>2, <2>2
  <2>4. CASE op = "lt"
    BY <1>4, <2>2, <2>3, <2>4 DEF Apply, Compared, n, m, Truth
  <2>5. CASE op = "le"
    BY <1>4, <2>2, <2>3, <2>5 DEF Apply, Compared, n, m, Truth
  <2>6. CASE op = "gt"
    BY <1>4, <2>2, <2>3, <2>6 DEF Apply, Compared, n, m, Truth
  <2>7. CASE op = "ge"
    BY <1>4, <2>2, <2>3, <2>7 DEF Apply, Compared, n, m, Truth
  <2> QED BY <1>6, <2>4, <2>5, <2>6, <2>7
<1>7. CASE op \in {"lt_u", "le_u", "gt_u", "ge_u"}
  <2>1. type \notin SignedTypes  BY <1>7 DEF SignFits
  <2>2. n < m <=> x < y  BY <1>1, <2>1
  <2>3. /\ n <= m <=> x <= y
        /\ n > m <=> x > y
        /\ n >= m <=> x >= y
    BY <1>1, <1>2, <2>2
  <2>4. CASE op = "lt_u"
    BY <1>4, <2>2, <2>3, <2>4 DEF Apply, Compared, n, m, Truth
  <2>5. CASE op = "le_u"
    BY <1>4, <2>2, <2>3, <2>5 DEF Apply, Compared, n, m, Truth
  <2>6. CASE op = "gt_u"
    BY <1>4, <2>2, <2>3, <2>6 DEF Apply, Compared, n, m, Truth
  <2>7. CASE op = "ge_u"
    BY <1>4, <2>2, <2>3, <2>7 DEF Apply, Compared, n, m, Truth
  <2> QED BY <1>7, <2>4, <2>5, <2>6, <2>7
<1> QED BY <1>5, <1>6, <1>7 DEF Comparisons, Equalities

(* The texts that strings and symbols denote *)
LEMMA SymbolOfNumber ==
  ASSUME ParserInv, NEW e \in 1 .. Len(pool), pool[e].type = "symbol"
  PROVE  Symbols[SymbolId(pool, e)] = e
<1> DEFINE set == {k \in DOMAIN pool : pool[k].type = "symbol"}
<1>1. Len(pool) \in Nat /\ DOMAIN pool = 1 .. Len(pool)
  BY DEF ParserInv, Pooled
<1>2. e \in set \cap (1 .. Len(pool))  BY <1>1
<1>3. Symbols = InOrder(set, Len(pool))  BY DEF Symbols
<1>4. SymbolId(pool, e) = Count(set, e)
  <2>1. set \cap (1 .. e) = {k \in 1 .. e : pool[k].type = "symbol"}
    BY <1>1
  <2> HIDE DEF set
  <2> QED BY <2>1 DEF SymbolId, Count
<1> HIDE DEF set
<1>5. InOrder(set, Len(pool))[Count(set, e)] = e
  BY <1>1, <1>2, MembersInOrder
<1> QED BY <1>3, <1>4, <1>5

LEMMA PooledTexts ==
  ASSUME ParserInv, NEW type \in PoolTypes, NEW x, HasType(type, x)
  PROVE  \E e \in 1 .. Len(pool) :
            /\ pool[e].type = type /\ Denotes(type, x) = pool[e].text
            /\ x = IF type = "string" THEN e ELSE SymbolId(pool, e)
<1>1. DOMAIN pool = 1 .. Len(pool)  BY DEF ParserInv, Pooled
<1>2. CASE type = "string"
  <2>1. x \in DOMAIN pool /\ pool[x].type = "string"
    BY <1>2 DEF HasType, Acceptable
  <2>2. Denotes("string", x) = pool[x].text  BY DEF Denotes, SignedTypes
  <2> QED BY <1>1, <1>2, <2>1, <2>2
<1>3. CASE type = "symbol"
  <2>1. PICK e \in DOMAIN pool : pool[e].type = "symbol" /\ SymbolId(pool, e) = x
    BY <1>3 DEF HasType, Acceptable
  <2>2. Symbols[x] = e  BY <1>1, <2>1, SymbolOfNumber
  <2>3. Denotes("symbol", x) = pool[Symbols[x]].text
    BY DEF Denotes, SignedTypes
  <2> QED BY <1>1, <1>3, <2>1, <2>2, <2>3
<1> QED BY <1>2, <1>3 DEF PoolTypes

LEMMA TextsDiffer ==
  ASSUME ParserInv, NEW type \in PoolTypes,
         NEW x, HasType(type, x), NEW y, HasType(type, y)
  PROVE  Denotes(type, x) = Denotes(type, y) <=> x = y
<1>1. PICK e \in 1 .. Len(pool) :
            /\ pool[e].type = type /\ Denotes(type, x) = pool[e].text
            /\ x = IF type = "string" THEN e ELSE SymbolId(pool, e)
  BY PooledTexts
<1>2. PICK f \in 1 .. Len(pool) :
            /\ pool[f].type = type /\ Denotes(type, y) = pool[f].text
            /\ y = IF type = "string" THEN f ELSE SymbolId(pool, f)
  BY PooledTexts
<1>3. pool \in Seq(Entries) /\ IsInjective(pool) /\ signature \in Authors
  BY DEF ParserInv, Pooled
<1>4. pool[e] \in Entries /\ pool[f] \in Entries
  <2> HIDE DEF Entries
  <2> QED BY <1>3
<1>5. pool[e] = Entry(pool[e].type, pool[e].text)
      /\ pool[f] = Entry(pool[f].type, pool[f].text)
  BY <1>3, <1>4, EntriesAreTyped
<1>6. ASSUME Denotes(type, x) = Denotes(type, y)
      PROVE  x = y
  <2>1. pool[e] = pool[f]  BY <1>1, <1>2, <1>5, <1>6
  <2>2. e \in DOMAIN pool /\ f \in DOMAIN pool  BY <1>3
  <2>3. e = f  BY <1>3, <2>1, <2>2 DEF IsInjective
  <2> QED BY <1>1, <1>2, <2>3
<1> QED BY <1>6

(* A comparison of words is the comparison of what they denote. *)
LEMMA ComparisonDenotes ==
  ASSUME ParserInv, NEW type \in Types, NEW op \in Comparisons,
         op \notin Equalities => type \in IntegerTypes, SignFits(op, type),
         NEW x, HasType(type, x), NEW y, HasType(type, y)
  PROVE  Apply(op, type, x, y) = Result(op, Denotes(type, x), Denotes(type, y))
<1>1. x \in Word /\ y \in Word  BY HasTypeFacts
<1>2. CASE type \in IntegerTypes  BY <1>1, <1>2, OrderDenotes
<1>3. CASE type \notin IntegerTypes
  <2> DEFINE n == Denotes(type, x)
             m == Denotes(type, y)
  <2>1. n = m <=> x = y
    <3>1. CASE type \in PoolTypes  BY <3>1, TextsDiffer
    <3>2. CASE type \notin PoolTypes
      <4>1. n = x /\ m = y
        BY <1>3, <3>2 DEF Denotes, PoolTypes, IntegerTypes
      <4> QED BY <4>1
    <3> QED BY <3>1, <3>2
  <2> HIDE DEF n, m
  <2>2. Result(op, n, m) = Truth(Compared(op, n, m))  BY ResultOf
  <2>3. op = "eq" \/ op = "ne"  BY <1>3 DEF Equalities
  <2> QED BY <2>1, <2>2, <2>3 DEF Apply, Compared, n, m
<1> QED BY <1>2, <1>3

(* The meaning of every node, from those of its children *)
LEMMA NodeMeaningOfChildren ==
  ASSUME Ordered(nodes), NEW env, NEW n \in 1 .. Len(nodes), NEW f, NEW g,
         \A k \in 1 .. n - 1 : f[k] = g[k]
  PROVE  NodeMeaning(f, env, n) = NodeMeaning(g, env, n)
<1>1. CASE nodes[n].kind \in Leaves
  BY <1>1, KindsDiffer DEF NodeMeaning, Leaves, PoolTypes
<1>2. CASE nodes[n].kind \in Unary
  <2>1. nodes[n].left \in 1 .. n - 1  BY <1>2 DEF Ordered
  <2> QED BY <1>2, <2>1 DEF NodeMeaning, Unary, PoolTypes
<1>3. CASE nodes[n].kind \in Binary
  <2>1. nodes[n].left \in 1 .. n - 1 /\ nodes[n].right \in 1 .. n - 1
    BY <1>3 DEF Ordered
  <2>2. nodes[n].kind \notin Leaves /\ nodes[n].kind \notin Unary
    BY <1>3, KindsDiffer
  <2>3. f[nodes[n].left] = g[nodes[n].left] /\ f[nodes[n].right] = g[nodes[n].right]
    BY <2>1
  <2> QED BY <1>3, <2>2, <2>3 DEF NodeMeaning, Unary, Leaves, Binary
<1> QED BY <1>1, <1>2, <1>3 DEF Ordered, Kinds

LEMMA MeaningUnfold ==
  ASSUME Ordered(nodes), NEW env
  PROVE  MeaningOfNode(env) = [n \in 1 .. Len(nodes) |->
                                  NodeMeaning(MeaningOfNode(env), env, n)]
<1> DEFINE N == Len(nodes)
           Is(f, m) == f = [n \in 1 .. m |-> NodeMeaning(f, env, n)]
           S == {m \in Nat : m <= N => \E f : Is(f, m)}
<1>1. N \in Nat /\ DOMAIN nodes = 1 .. N  BY DEF Ordered
<1>2. 0 \in S
  <2> DEFINE f == [n \in 1 .. 0 |-> 0]
  <2>1. Is(f, 0)  OBVIOUS
  <2> QED BY <2>1
<1>3. \A m \in Nat : m \in S => m + 1 \in S
  <2> SUFFICES ASSUME NEW m \in Nat, m \in S, m + 1 <= N
               PROVE  \E g : Is(g, m + 1)
    BY <1>1
  <2>1. PICK f : Is(f, m)  BY <1>1
  <2> DEFINE g == [n \in 1 .. m + 1 |->
                     IF n <= m THEN f[n] ELSE NodeMeaning(f, env, n)]
  <2>2. Is(g, m + 1)
    <3> SUFFICES ASSUME NEW n \in 1 .. m + 1
                 PROVE  g[n] = NodeMeaning(g, env, n)
      OBVIOUS
    <3>1. n \in 1 .. N  BY <1>1
    <3>2. \A k \in 1 .. n - 1 : f[k] = g[k]  OBVIOUS
    <3>3. g[n] = NodeMeaning(f, env, n)  BY <2>1
    <3> HIDE DEF g, N
    <3>4. NodeMeaning(f, env, n) = NodeMeaning(g, env, n)
      BY <3>1, <3>2, NodeMeaningOfChildren DEF N
    <3> QED BY <3>3, <3>4
  <2> HIDE DEF Is, g
  <2> QED BY <2>2
<1>4. N \in S
  <2> HIDE DEF S, N
  <2> QED BY <1>1, <1>2, <1>3, SetInduction
<1>5. Is(CHOOSE f : Is(f, N), N)
  <2> HIDE DEF Is, N
  <2> QED BY <1>1, <1>4
<1>6. MeaningOfNode(env) = CHOOSE f : Is(f, N)  BY <1>1 DEF MeaningOfNode
<1> QED BY <1>5, <1>6

LEMMA MeaningPropagates ==
  ASSUME ParserInv, NEW env
  PROVE  Propagates(MeaningOfNode(env))
<1> DEFINE M == MeaningOfNode(env)
<1>1. Ordered(nodes)  BY ParserFacts
<1>2. \A n \in 1 .. Len(nodes) : M[n] = NodeMeaning(M, env, n)
  <2>1. M = [n \in 1 .. Len(nodes) |-> NodeMeaning(M, env, n)]
    BY <1>1, MeaningUnfold
  <2> HIDE DEF M
  <2> QED BY <2>1
<1> HIDE DEF M
<1>3. ASSUME NEW n \in 1 .. Len(nodes)
      PROVE  LET left  == M[nodes[n].left]
                 right == M[nodes[n].right]
             IN  /\ nodes[n].kind \in Unary \cup Binary /\ Len(left) = 2
                       => M[n] = left
                 /\ nodes[n].kind \in Binary /\ Len(left) = 1 /\ Len(right) = 2
                       => M[n] = right
  <2>1. M[n] = NodeMeaning(M, env, n)  BY <1>2
  <2>2. CASE nodes[n].kind \in Unary
    <3>1. nodes[n].kind \notin Binary  BY <2>2, KindsDiffer
    <3> QED BY <2>1, <2>2, <3>1 DEF NodeMeaning, Unary, PoolTypes
  <2>3. CASE nodes[n].kind \in Binary
    <3>1. nodes[n].kind \notin Leaves /\ nodes[n].kind \notin Unary
      BY <2>3, KindsDiffer
    <3> DEFINE l == Len(M[nodes[n].left])
               m == Len(M[nodes[n].right])
    <3>2. /\ l = 2 => NodeMeaning(M, env, n) = M[nodes[n].left]
          /\ l # 2 /\ m = 2 => NodeMeaning(M, env, n) = M[nodes[n].right]
      BY <2>3, <3>1 DEF NodeMeaning, Unary, Leaves, Binary
    <3>3. l = 1 => l # 2
      <4> HIDE DEF l
      <4> QED OBVIOUS
    <3> HIDE DEF l, m
    <3> QED BY <2>1, <2>3, <3>1, <3>2, <3>3 DEF l, m
  <2> QED BY <2>2, <2>3
<1> QED BY <1>3 DEF Propagates, M

(* The words on the stack denote the meanings of their nodes. *)
EnvAgrees(env, ls) ==
    \A l \in 1 .. local_count :
       ls[l] # Unset => env[l] = Denotes(signature.locals[l], ls[l])

Means(env, n, x) ==
    /\ HasType(nodes[n].type, x)
    /\ Constants(nodes)[n] # <<>> => x = Constants(nodes)[n][1]
    /\ MeaningOfNode(env)[n] = <<Denotes(nodes[n].type, x)>>

LEMMA MeaningOfParts ==
  ASSUME ParserInv, NEW env, NEW n \in Known
  PROVE  MeaningOfNode(env)[n] = NodeMeaning(MeaningOfNode(env), env, n)
<1> DEFINE M == MeaningOfNode(env)
<1>1. M = [k \in 1 .. Len(nodes) |-> NodeMeaning(M, env, k)]
  BY ParserFacts, MeaningUnfold
<1> HIDE DEF M
<1>2. M[n] = NodeMeaning(M, env, n)  BY <1>1 DEF Known
<1> QED BY <1>2 DEF M

LEMMA LeafMeans ==
  ASSUME ParserInv, ArgumentsTyped, LocalsTyped(locals), NEW env,
         EnvAgrees(env, locals), NEW n \in Known, nodes[n].kind \in Leaves,
         nodes[n].kind = "local" => locals[nodes[n].value] # Unset,
         NEW x, NEW y
  PROVE  LET v == WordOf(n, x, y)
         IN  /\ HasType(nodes[n].type, v)
             /\ MeaningOfNode(env)[n] = <<Denotes(nodes[n].type, v)>>
<1> DEFINE v == WordOf(n, x, y)
           M == MeaningOfNode(env)
           type == nodes[n].type
           k == nodes[n].value
           i == NodeInstruction(n)
<1>1. FormedLeaf(nodes, pool, local_count, n) /\ k \in Nat /\ type \in Types
  BY NodeRecord DEF Formed
<1>2. M[n] = NodeMeaning(M, env, n)  BY MeaningOfParts
<1>3. v = IF nodes[n].kind = "parameter" THEN argument[k]
          ELSE IF nodes[n].kind = "local" THEN locals[k] ELSE Pushed(i)
  BY WordOfLeaf
<1>4. i.type = type /\ i.value = k
  <2>1. nodes[n].kind \notin Comparisons  BY KindsDiffer DEF Binary
  <2> QED BY <2>1 DEF NodeInstruction, Instruction
<1>5. nodes[n].kind \in {"literal", "truth"} \cup PoolTypes =>
         HasType(type, v) /\ v = Pushed(i)
  <2>1. nodes[n].kind \in {"literal", "truth"} \cup PoolTypes =>
           HasType(type, Pushed(i))
    BY PushedHasType
  <2> HIDE DEF i, v
  <2> QED BY <1>3, <2>1 DEF PoolTypes
<1> HIDE DEF v, M, i
<1>6. CASE nodes[n].kind \in {"literal", "truth"}
  <2>1. M[n] = <<k>>
    BY <1>2, <1>6 DEF NodeMeaning, PoolTypes, Arithmetic, Divisions, Comparisons,
                      Equalities
  <2>2. type \in {"i32", "bool"} /\ (type = "i32" => k < SignBit)
    BY <1>1, <1>6 DEF FormedLeaf
  <2>3. v = k  BY <1>4, <1>5, <1>6, <2>2 DEF Pushed
  <2>4. Denotes(type, v) = v
    <3>1. type = "bool" => Denotes(type, v) = v  BY DEF Denotes, SignedTypes
    <3>2. type = "i32" => Denotes(type, v) = Signed(v)
      BY DEF Denotes, SignedTypes
    <3>3. type = "i32" => Signed(v) = v
      <4>1. SignBit \in Nat  BY WordSizes
      <4> QED BY <1>1, <2>2, <2>3, <4>1 DEF Signed
    <3> QED BY <2>2, <3>1, <3>2, <3>3
  <2> QED BY <1>5, <1>6, <2>1, <2>3, <2>4, SMTT(30) DEF v, M
<1>7. CASE nodes[n].kind \in PoolTypes
  <2>1. M[n] = <<pool[k].text>>
    BY <1>2, <1>7 DEF NodeMeaning, PoolTypes, Arithmetic, Divisions, Comparisons,
                      Equalities
  <2>2. type = nodes[n].kind /\ k \in 1 .. Len(pool) /\ pool[k].type = type
    BY <1>1, <1>7 DEF FormedLeaf
  <2>3. v = IF type = "symbol" THEN SymbolId(pool, k) ELSE k
    BY <1>4, <1>5, <1>7 DEF Pushed
  <2>4. Denotes(type, v) = pool[k].text
    <3>1. CASE type = "string"  BY <2>3, <3>1 DEF Denotes, SignedTypes
    <3>2. CASE type = "symbol"
      <4>1. Symbols[v] = k  BY <2>2, <2>3, <3>2, SymbolOfNumber
      <4> QED BY <3>2, <4>1 DEF Denotes, SignedTypes
    <3> QED BY <1>7, <2>2, <3>1, <3>2 DEF PoolTypes
  <2> QED BY <1>5, <1>7, <2>1, <2>4, SMTT(30) DEF v, M
<1>8. CASE nodes[n].kind = "parameter"
  <2>1. M[n] = <<Denotes(type, argument[k])>>
    BY <1>2, <1>8 DEF NodeMeaning, PoolTypes, Arithmetic, Divisions, Comparisons,
                      Equalities
  <2>2. v = argument[k]  BY <1>3, <1>8
  <2>3. HasType(type, v)  BY <1>1, <1>8, <2>2 DEF FormedLeaf, ArgumentsTyped
  <2> QED BY <2>1, <2>2, <2>3 DEF v, M
<1>9. CASE nodes[n].kind = "local"
  <2>1. M[n] = <<env[k]>>
    BY <1>2, <1>9 DEF NodeMeaning, PoolTypes, Arithmetic, Divisions, Comparisons,
                      Equalities
  <2>2. v = locals[k] /\ v # Unset  BY <1>3, <1>9
  <2>3. k \in 1 .. local_count /\ type = signature.locals[k]
    BY <1>1, <1>9 DEF FormedLeaf
  <2>4. HasType(type, v)  BY <2>2, <2>3 DEF LocalsTyped
  <2>5. env[k] = Denotes(type, v)  BY <2>2, <2>3 DEF EnvAgrees
  <2> QED BY <2>1, <2>4, <2>5 DEF v, M
<1> QED BY <1>6, <1>7, <1>8, <1>9 DEF Leaves

LEMMA UnaryMeans ==
  ASSUME ParserInv, NEW env, NEW n \in Known, nodes[n].kind \in Unary,
         NEW x, Means(env, nodes[n].left, x), NEW y
  PROVE  MeaningOfNode(env)[n] = <<Denotes(nodes[n].type, WordOf(n, x, y))>>
<1> DEFINE M == MeaningOfNode(env)
           l == nodes[n].left
           type == nodes[n].type
           m == Denotes(nodes[l].type, x)
<1>1. HasType(nodes[l].type, x) /\ M[l] = <<m>>
      /\ (Constants(nodes)[l] # <<>> => x = Constants(nodes)[l][1])
  BY DEF Means
<1>2. M[n] = NodeMeaning(M, env, n)  BY MeaningOfParts
<1>3. FormedUnary(nodes, n) /\ type \in IntegerTypes
  BY <1>1, NodeRecord, UnaryHasType DEF Formed
<1>4. x \in Word /\ x \in Int  BY <1>1, HasTypeFacts
<1>5. Len(M[l]) # 2 /\ M[l][1] = m  BY <1>1
<1> HIDE DEF M, m
<1>6. CASE nodes[n].kind = "neg"
  <2>1. M[n] = <<InRange(type, 0 - m)>>
    BY <1>2, <1>5, <1>6 DEF NodeMeaning, PoolTypes, Arithmetic, Divisions,
                            Comparisons, Equalities
  <2>2. nodes[l].type = type  BY <1>3, <1>6 DEF FormedUnary
  <2>3. WordOf(n, x, y) = Normalize(type, Negated(x))
    <3>1. nodes[n].kind \notin Binary
      BY <1>6 DEF Binary, Arithmetic, Divisions, Comparisons, Equalities
    <3> QED BY <1>6, <3>1 DEF WordOf, PoolTypes
  <2>4. InRange(type, 0 - m) = InRange(type, Wrap(0 - x))
    BY <1>3, <1>4, <2>2, CongruentResults DEF m
  <2>5. Negated(x) = Wrap(0 - x) /\ Wrap(0 - x) \in Int
    <3>1. 0 - x \in Int  BY <1>4
    <3>2. \A w \in Word : w \in Int  BY WordSizes DEF Word
    <3> QED BY <3>1, <3>2, WrapIsWord DEF Negated
  <2>6. Denotes(type, Normalize(type, Negated(x))) = InRange(type, Wrap(0 - x))
    BY <1>3, <2>5, NormalizedDenotes
  <2> QED BY <2>1, <2>3, <2>4, <2>6 DEF M
<1>7. CASE nodes[n].kind = "normalize"
  <2>1. M[n] = <<m>>
    BY <1>1, <1>2, <1>7 DEF NodeMeaning, PoolTypes, Arithmetic, Divisions,
                            Comparisons, Equalities
  <2>2. /\ nodes[l].type = "i32" /\ type \in IntegerTypes \ {"i32"}
        /\ Constants(nodes)[l] # <<>> /\ Fits(type, Constants(nodes)[l][1])
    BY <1>3, <1>7 DEF FormedUnary
  <2>3. Fits(type, x)  BY <1>1, <2>2
  <2>4. WordOf(n, x, y) = x
    <3>1. nodes[n].kind \notin Binary
      BY <1>7 DEF Binary, Arithmetic, Divisions, Comparisons, Equalities
    <3>2. WordOf(n, x, y) = Normalize(type, x)
      BY <1>7, <3>1 DEF WordOf, PoolTypes
    <3> QED BY <1>3, <1>4, <2>3, <3>2, FittingWords
  <2>5. m = Signed(x)  BY <2>2 DEF m, Denotes, SignedTypes
  <2>6. Denotes(type, x) = IF type \in SignedTypes THEN Signed(x) ELSE x
    BY <1>3, <1>4, DenotesShifted
  <2>7. type \notin SignedTypes => Signed(x) = x
    <3> SUFFICES ASSUME type \notin SignedTypes
                 PROVE  Signed(x) = x
      OBVIOUS
    <3>1. type \in UnsignedTypes  BY <1>3 DEF IntegerTypes
    <3>2. x < 2 ^ BitsOf(type)
      BY <2>3, <3>1 DEF Fits, SignedTypes, UnsignedTypes
    <3>3. BitsOf(type) \in Nat /\ BitsOf(type) <= Width - 1 /\ Width - 1 \in Nat
      BY <3>1, SizesAssumption DEF BitsOf, UnsignedTypes
    <3>4. PICK q \in Nat \ {0} : SignBit = q * 2 ^ BitsOf(type)
      BY <3>3, PowerDivides DEF SignBit
    <3>5. PICK p \in Nat : p = 2 ^ BitsOf(type)  BY TypeSizes
    <3>6. q * p >= p  BY <3>4, <3>5
    <3>7. x < SignBit  BY <1>4, <3>2, <3>4, <3>5, <3>6
    <3> QED BY <1>4, <3>7, SignedNumber
  <2> QED BY <2>1, <2>4, <2>5, <2>6, <2>7 DEF M
<1> QED BY <1>6, <1>7 DEF Unary

LEMMA BinaryMeans ==
  ASSUME ParserInv, NEW env, NEW n \in Known, nodes[n].kind \in Binary,
         NEW x, Means(env, nodes[n].left, x), NEW y, Means(env, nodes[n].right, y)
  PROVE  MeaningOfNode(env)[n] =
            IF nodes[n].kind \in Divisions /\ y = 0 THEN <<"fault", n>>
            ELSE <<Denotes(nodes[n].type, WordOf(n, x, y))>>
<1> DEFINE M == MeaningOfNode(env)
           l == nodes[n].left
           r == nodes[n].right
           op == nodes[n].kind
           type == nodes[l].type
           a == Denotes(type, x)
           b == Denotes(type, y)
<1>1. /\ nodes[r].type = type /\ type \in Types
      /\ op \in Arithmetic => nodes[n].type = type /\ type \in IntegerTypes
      /\ op \in Comparisons => nodes[n].type = "bool"
      /\ op \notin Equalities => type \in IntegerTypes
      /\ SignFits(op, type)
      /\ WordOf(n, x, y) = Apply(op, type, x, y)
  BY BinaryFacts
<1>2. HasType(type, x) /\ M[l] = <<a>>  BY DEF Means
<1>3. HasType(type, y) /\ M[r] = <<b>>  BY <1>1 DEF Means
<1>4. M[n] = NodeMeaning(M, env, n)  BY MeaningOfParts
<1>5. Len(M[l]) # 2 /\ Len(M[r]) # 2 /\ M[l][1] = a /\ M[r][1] = b
  BY <1>2, <1>3
<1>6. x \in Word /\ y \in Word  BY <1>2, <1>3, HasTypeFacts
<1>7. op \notin Leaves /\ op \notin Unary  BY KindsDiffer
<1> HIDE DEF M, a, b
<1>8. NodeMeaning(M, env, n) =
         IF op \in Divisions /\ b = 0 THEN <<"fault", n>>
         ELSE IF op \in Comparisons THEN <<Result(op, a, b)>>
         ELSE <<InRange(nodes[n].type, Result(op, a, b))>>
  BY <1>5, <1>7 DEF NodeMeaning, Leaves, Unary, Binary
<1>9. op \in Divisions => (b = 0 <=> y = 0) /\ op \in Arithmetic
  <2> SUFFICES ASSUME op \in Divisions
               PROVE  (b = 0 <=> y = 0) /\ op \in Arithmetic
    OBVIOUS
  <2>1. op \in Arithmetic  BY DEF Arithmetic
  <2>2. type \in IntegerTypes  BY <1>1, <2>1
  <2> QED BY <1>6, <2>1, <2>2, DenotesInjective DEF b
<1>10. CASE op \in Divisions /\ y = 0  BY <1>4, <1>8, <1>9, <1>10 DEF M
<1>11. CASE op \in Arithmetic /\ ~ (op \in Divisions /\ y = 0)
  <2>1. op \notin Comparisons
    BY <1>11 DEF Arithmetic, Divisions, Comparisons, Equalities
  <2>2. Denotes(type, Apply(op, type, x, y)) = InRange(type, Result(op, a, b))
    <3>1. ~ Faults(op, y)  BY <1>11 DEF Faults
    <3> QED BY <1>1, <1>6, <1>11, <3>1, ArithmeticDenotes DEF a, b
  <2> QED BY <1>1, <1>4, <1>8, <1>9, <1>11, <2>1, <2>2 DEF M
<1>12. CASE op \in Comparisons
  <2>1. op \notin Divisions  BY <1>12 DEF Divisions, Comparisons, Equalities
  <2>2. Apply(op, type, x, y) = Result(op, a, b)
    BY <1>1, <1>2, <1>3, <1>12, ComparisonDenotes DEF a, b
  <2>3. \A w : Denotes("bool", w) = w  BY DEF Denotes, SignedTypes
  <2> QED BY <1>1, <1>4, <1>8, <1>12, <2>1, <2>2, <2>3 DEF M
<1> QED BY <1>10, <1>11, <1>12 DEF Binary

Meanings(env) == {p \in Known \X Word : Means(env, p[1], p[2])}

LEMMA PairMeans ==
  ASSUME NEW env, NEW n, NEW x
  PROVE  <<n, x>> \in Meanings(env) <=>
            n \in Known /\ x \in Word /\ Means(env, n, x)
<1> DEFINE P(p) == Means(env, p[1], p[2])
           q == <<n, x>>
<1>1. q \in {p \in Known \X Word : P(p)} <=> q \in Known \X Word /\ P(q)
  <2> HIDE DEF P, q
  <2> QED OBVIOUS
<1>2. P(q) <=> Means(env, n, x)  BY DEF Means
<1>3. q \in Known \X Word <=> n \in Known /\ x \in Word  OBVIOUS
<1> QED BY <1>1, <1>2, <1>3 DEF Meanings

(* Every instruction of a node leaves what the node means. *)
LEMMA ContinuesMeaning ==
  ASSUME ParserInv, ArgumentsTyped, LocalsTyped(locals), NEW env,
         EnvAgrees(env, locals), NEW n \in Known,
         nodes[n].kind = "local" => locals[nodes[n].value] # Unset
  PROVE  Continues(Meanings(env), n)
<1> DEFINE R == Meanings(env)
           K == Constants(nodes)
           l == nodes[n].left
           m == nodes[n].right
           type == nodes[n].type
<1> SUFFICES ASSUME NEW x \in Word, NEW y \in Word,
                    nodes[n].kind \in Unary \cup Binary => <<l, x>> \in R,
                    nodes[n].kind \in Binary => <<m, y>> \in R,
                    ~ (nodes[n].kind \in Divisions /\ y = 0),
                    WordOf(n, x, y) \in Word
             PROVE  <<n, WordOf(n, x, y)>> \in R
  BY DEF Continues
<1> DEFINE v == WordOf(n, x, y)
<1>1. nodes[n].kind \in Unary \cup Binary => Means(env, l, x)  BY PairMeans
<1>2. nodes[n].kind \in Binary => Means(env, m, y)  BY PairMeans
<1>3. K[n] # <<>> => v = K[n][1]
  <2>1. /\ nodes[n].kind \in Unary \cup Binary => (K[l] # <<>> => x = K[l][1])
        /\ nodes[n].kind \in Binary => (K[m] # <<>> => y = K[m][1])
    BY <1>1, <1>2 DEF Means
  <2> QED BY <2>1, ConstantStep
<1>4. HasType(type, v) /\ MeaningOfNode(env)[n] = <<Denotes(type, v)>>
  <2>1. CASE nodes[n].kind \in Leaves  BY <2>1, LeafMeans
  <2>2. CASE nodes[n].kind \in Unary
    <3>1. Means(env, l, x) /\ HasType(nodes[l].type, x)
      BY <1>1, <2>2 DEF Means
    <3> QED BY <2>2, <3>1, UnaryMeans, UnaryHasType
  <2>3. CASE nodes[n].kind \in Binary
    <3>1. /\ Means(env, l, x) /\ HasType(nodes[l].type, x)
          /\ Means(env, m, y) /\ HasType(nodes[m].type, y)
      BY <1>1, <1>2, <2>3 DEF Means
    <3>2. ~ Faults(nodes[n].kind, y)  BY DEF Faults
    <3>3. HasType(type, v)  BY <2>3, <3>1, <3>2, BinaryHasType
    <3>4. MeaningOfNode(env)[n] = <<Denotes(type, v)>>
      <4> HIDE DEF v
      <4> QED BY <2>3, <3>1, BinaryMeans DEF v
    <3> QED BY <3>3, <3>4
  <2>4. nodes[n].kind \in Kinds  BY NodeRecord
  <2> HIDE DEF v
  <2> QED BY <2>1, <2>2, <2>3, <2>4 DEF Kinds
<1>5. Means(env, n, v)  BY <1>3, <1>4 DEF Means
<1> QED BY <1>5, PairMeans

(* The meaning of the statements, one after another *)
NextMeaning(f, k) ==
    IF k = 0 THEN [env |-> [l \in 1 .. local_count |-> 0], end |-> <<>>]
    ELSE Execute(f[k - 1], statements[k])

LEMMA StatementsUnfold ==
  ASSUME Len(statements) \in Nat
  PROVE  Meaning = [k \in 0 .. Len(statements) |-> NextMeaning(Meaning, k)]
<1> DEFINE N == Len(statements)
           Is(f, m) == f = [k \in 0 .. m |-> NextMeaning(f, k)]
           S == {m \in Nat : \E f : Is(f, m)}
<1>1. 0 \in S
  <2> DEFINE f == [k \in 0 .. 0 |-> NextMeaning(<<>>, 0)]
  <2>1. Is(f, 0)  BY DEF NextMeaning
  <2> QED BY <2>1
<1>2. \A m \in Nat : m \in S => m + 1 \in S
  <2> SUFFICES ASSUME NEW m \in Nat, m \in S
               PROVE  \E g : Is(g, m + 1)
    OBVIOUS
  <2>1. PICK f : Is(f, m)  OBVIOUS
  <2> DEFINE g == [k \in 0 .. m + 1 |->
                     IF k <= m THEN f[k] ELSE NextMeaning(f, k)]
  <2>2. Is(g, m + 1)
    <3> SUFFICES ASSUME NEW k \in 0 .. m + 1
                 PROVE  g[k] = NextMeaning(g, k)
      OBVIOUS
    <3>1. g[k] = NextMeaning(f, k)  BY <2>1
    <3>2. k # 0 => f[k - 1] = g[k - 1]  OBVIOUS
    <3> HIDE DEF g
    <3>3. NextMeaning(f, k) = NextMeaning(g, k)  BY <3>2 DEF NextMeaning
    <3> QED BY <3>1, <3>3
  <2> HIDE DEF Is, g
  <2> QED BY <2>2
<1>3. N \in S
  <2> HIDE DEF S, N
  <2>1. N \in Nat  BY DEF N
  <2> QED BY <1>1, <1>2, <2>1, SetInduction
<1>4. Is(CHOOSE f : Is(f, N), N)
  <2> HIDE DEF Is, N
  <2> QED BY <1>3
<1>5. Meaning = CHOOSE f : Is(f, N)  BY DEF Meaning, NextMeaning
<1> QED BY <1>4, <1>5

LEMMA MeaningSteps ==
  ASSUME ParserInv
  PROVE  /\ Meaning[0] = [env |-> [l \in 1 .. local_count |-> 0], end |-> <<>>]
         /\ \A k \in 1 .. Len(statements) :
               Meaning[k] = Execute(Meaning[k - 1], statements[k])
<1>1. Len(statements) \in Nat  BY ParserFacts
<1>2. PICK f : f = Meaning  OBVIOUS
<1>3. f = [k \in 0 .. Len(statements) |-> NextMeaning(f, k)]
  BY <1>1, <1>2, StatementsUnfold
<1>4. \A k \in 0 .. Len(statements) : f[k] = NextMeaning(f, k)  BY <1>3
<1>5. f[0] = [env |-> [l \in 1 .. local_count |-> 0], end |-> <<>>]
  <2>1. 0 \in 0 .. Len(statements)  BY <1>1
  <2>2. f[0] = NextMeaning(f, 0)  BY <1>4, <2>1
  <2> QED BY <2>2 DEF NextMeaning
<1>6. ASSUME NEW k \in 1 .. Len(statements)
      PROVE  f[k] = Execute(f[k - 1], statements[k])
  <2>1. k \in 0 .. Len(statements) /\ k # 0  BY <1>1
  <2>2. f[k] = NextMeaning(f, k)  BY <1>4, <2>1
  <2> QED BY <2>1, <2>2 DEF NextMeaning
<1> QED BY <1>2, <1>5, <1>6

(* Nothing happens after the end. *)
LEMMA EndPersists ==
  ASSUME ParserInv, NEW k \in 0 .. Len(statements), Meaning[k].end # <<>>
  PROVE  Meaning[Len(statements)].end = Meaning[k].end
<1> DEFINE N == Len(statements)
           S == {j \in Nat : k + j <= N => Meaning[k + j] = Meaning[k]}
<1>1. N \in Nat /\ k \in Nat  BY ParserFacts
<1>2. 0 \in S  BY <1>1
<1>3. ASSUME NEW j \in Nat, j \in S
      PROVE  j + 1 \in S
  <2> SUFFICES ASSUME k + (j + 1) <= N
               PROVE  Meaning[k + (j + 1)] = Meaning[k]
    OBVIOUS
  <2>1. Meaning[k + j] = Meaning[k]  BY <1>1, <1>3
  <2>2. k + (j + 1) \in 1 .. N /\ k + (j + 1) - 1 = k + j  BY <1>1
  <2>3. Meaning[k + (j + 1)] = Execute(Meaning[k + j], statements[k + (j + 1)])
    BY <2>2, MeaningSteps
  <2> QED BY <2>1, <2>3 DEF Execute
<1>4. \A j \in Nat : j \in S
  <2> HIDE DEF S
  <2> QED BY <1>2, <1>3, SetInduction
<1>5. N - k \in Nat /\ k + (N - k) = N  BY <1>1
<1>6. N - k \in S  BY <1>4, <1>5
<1> HIDE DEF N
<1>7. Meaning[k + (N - k)] = Meaning[k]  BY <1>1, <1>5, <1>6
<1> QED BY <1>5, <1>7 DEF N

(* The evaluator follows the meaning. *)
Meant(a, s, ls) ==
    LET m == Meaning[a.done]
    IN  /\ m.end = <<>> /\ m = [env |-> m.env, end |-> m.end]
        /\ m.env = [l \in 1 .. local_count |-> m.env[l]]
        /\ EnvAgrees(m.env, ls)
        /\ Related(Meanings(m.env), a.held, s)

(* A result is what the function means, a fault is where it faults. *)
Concluded(o) ==
    IF o[1] = "return"
    THEN Meaning[Len(statements)].end = <<Denotes(signature.result, o[2])>>
    ELSE Meaning[Len(statements)].end = <<"fault", o[2]>>

LEMMA PlaceIsKnown ==
  ASSUME ParserInv, NEW a \in States, NEW b, NEW i,
         a.done + 1 \in 1 .. Len(statements), Within(a, i, b)
  PROVE  /\ i.place \in Known /\ NodeMoves(a.held, i.place, b.held)
         /\ i.place \in 1 .. statements[a.done + 1].expression
         /\ b.done = a.done
<1>1. /\ i.place \in 1 .. statements[a.done + 1].expression
      /\ NodeMoves(a.held, i.place, b.held) /\ b.done = a.done
  BY DEF Within
<1>2. End(a.done + 1) = statements[a.done + 1].expression
      /\ End(a.done + 1) \in 1 .. Len(nodes)
  BY StatementFacts
<1>3. Len(nodes) \in Nat  BY ParserFacts
<1> QED BY <1>1, <1>2, <1>3 DEF Known

LEMMA ComputesMeaning ==
  ASSUME ParserInv, NEW a, NEW b, NEW i, Ready(a), Meant(a, stack, locals),
         a.done + 1 \in 1 .. Len(statements),
         NEW s, NEW ls, NEW o, NEW c, Computes(a, i, b, s, ls, o, c)
  PROVE  Meant(b, s, ls)
<1> DEFINE env == Meaning[a.done].env
           R == Meanings(env)
           n == i.place
<1>1. /\ Within(a, i, b) /\ Computed(n, s) /\ ls = locals
      /\ Mirrors(b.held, s, ls, c)
  BY DEF Computes
<1>2. /\ a \in States /\ a.held \in Seq(Known) /\ a.done \in Nat
      /\ ArgumentsTyped /\ LocalsTyped(locals) /\ Stored(a.done, locals)
      /\ Mirrors(a.held, stack, locals, cpu)
  BY DEF Ready, States
<1>3. /\ n \in Known /\ NodeMoves(a.held, n, b.held) /\ b.done = a.done
      /\ n \in 1 .. statements[a.done + 1].expression
  BY <1>1, <1>2, PlaceIsKnown
<1>4. EnvAgrees(env, locals) /\ Related(R, a.held, stack)  BY DEF Meant
<1>5. nodes[n].kind = "local" => locals[nodes[n].value] # Unset
  BY <1>2, <1>3, LocalIsStored
<1> HIDE DEF env, n
<1>6. Continues(R, n)  BY <1>2, <1>3, <1>4, <1>5, ContinuesMeaning
<1>7. /\ stack \in Seq(Word) /\ Len(stack) = Len(a.held) /\ s \in Seq(Word)
  BY <1>1, <1>2 DEF Mirrors, Typed
<1> HIDE DEF R
<1>8. Related(R, b.held, s)
  BY <1>1, <1>2, <1>3, <1>4, <1>6, <1>7, RelatedComputed DEF n
<1> QED BY <1>1, <1>3, <1>8 DEF Meant, R, env

(* The meaning of the statement that is being done. *)
LEMMA StatementMeans ==
  ASSUME ParserInv, NEW a, Ready(a), Meant(a, stack, locals),
         a.done + 1 \in 1 .. Len(statements), NEW j, j = a.done + 1, NEW v,
         MeaningOfNode(Meaning[a.done].env)[statements[j].expression] = v,
         Len(v) = 2 \/ Returning(j), v # <<>>
  PROVE  Meaning[Len(statements)].end = v
<1> DEFINE m == Meaning[a.done]
<1>1. a.done \in Nat /\ j \in 1 .. Len(statements) /\ j - 1 = a.done
  BY DEF Ready, States
<1>2. Meaning[j] = Execute(m, statements[j])  BY <1>1, MeaningSteps
<1>3. m.end = <<>> /\ m = [env |-> m.env, end |-> m.end]  BY DEF Meant
<1> HIDE DEF m
<1>4. Execute(m, statements[j]) = [m EXCEPT !.end = v]
  BY <1>3 DEF Execute, Returning, m
<1>5. [m EXCEPT !.end = v].end = v  BY <1>3
<1>6. Meaning[j].end = v  BY <1>2, <1>4, <1>5
<1>7. j \in 0 .. Len(statements)  BY <1>1
<1> QED BY <1>6, <1>7, EndPersists

LEMMA DividesMeaning ==
  ASSUME ParserInv, NEW a, NEW b, NEW i, Ready(a), Meant(a, stack, locals),
         a.done + 1 \in 1 .. Len(statements), b.held \in Seq(Known),
         NEW s, NEW ls, NEW o, NEW c, Divides(a, i, b, s, ls, o, c)
  PROVE  Concluded(o)
<1> DEFINE env == Meaning[a.done].env
           R == Meanings(env)
           M == MeaningOfNode(env)
           n == i.place
           j == a.done + 1
           e == statements[j].expression
<1>1. Within(a, i, b) /\ Failing(n) /\ o = Fault(n)  BY DEF Divides
<1>2. /\ a \in States /\ a.held \in Seq(Known) /\ a.done \in Nat
      /\ Mirrors(a.held, stack, locals, cpu)
  BY DEF Ready, States
<1>3. n \in Known /\ NodeMoves(a.held, n, b.held)
  BY <1>1, <1>2, PlaceIsKnown
<1>4. Related(R, a.held, stack)  BY DEF Meant
<1>5. stack \in Seq(Word) /\ Len(stack) = Len(a.held)
  BY <1>2 DEF Mirrors, Typed
<1>6. Propagates(M)  BY MeaningPropagates
<1> HIDE DEF env, n, e
<1>7. PICK r \in Seq(Word), x \in Word : stack = Append(Append(r, x), 0)
  BY <1>1 DEF Failing
<1>8. nodes[n].kind \in Divisions /\ nodes[n].kind \in Binary
  BY <1>1 DEF Failing, Binary, Arithmetic
<1>9. <<nodes[n].left, x>> \in R /\ <<nodes[n].right, 0>> \in R
  <2>1. 0 \in Word  BY WordSizes DEF Word
  <2>2. PICK p : p = Append(r, x)  OBVIOUS
  <2>3. stack = Append(p, 0)  BY <1>7, <2>2
  <2> HIDE DEF R
  <2> QED BY <1>2, <1>3, <1>4, <1>5, <1>8, <2>1, <2>2, <2>3, RelatedOperands
<1>10. Means(env, nodes[n].left, x) /\ Means(env, nodes[n].right, 0)
  BY <1>9, PairMeans
<1>11. M[n] = <<"fault", n>>  BY <1>3, <1>8, <1>10, BinaryMeans
<1>12. Sound(M, a.held)
  <2> SUFFICES ASSUME NEW q \in 1 .. Len(a.held)
               PROVE  Len(M[a.held[q]]) = 1
    BY DEF Sound
  <2>1. PICK k, w : k = a.held[q] /\ w = stack[q]  OBVIOUS
  <2>2. <<k, w>> \in R  BY <1>4, <2>1 DEF Related
  <2>3. Means(env, k, w)  BY <2>2, PairMeans
  <2>4. M[k] = <<Denotes(nodes[k].type, w)>>  BY <2>3 DEF Means
  <2> HIDE DEF M
  <2> QED BY <2>1, <2>4
<1> HIDE DEF M
<1>13. M[e] = <<"fault", n>>  BY <1>1, <1>6, <1>11, <1>12 DEF Within, n, e
<1>14. Meaning[Len(statements)].end = <<"fault", n>>
  <2> DEFINE v == <<"fault", n>>
  <2>1. Len(v) = 2 /\ v # <<>>  OBVIOUS
  <2>2. MeaningOfNode(Meaning[a.done].env)[statements[j].expression] = v
    BY <1>13 DEF M, env, e
  <2> HIDE DEF v
  <2>3. Meaning[Len(statements)].end = v
    <3>1. PICK k : k = j  OBVIOUS
    <3> HIDE DEF j
    <3>2. MeaningOfNode(Meaning[a.done].env)[statements[k].expression] = v
      BY <2>2, <3>1
    <3> QED BY <2>1, <3>1, <3>2, StatementMeans DEF j
  <2> QED BY <2>3 DEF v
<1>15. o[1] # "return" /\ o[2] = n  BY <1>1 DEF Fault
<1> QED BY <1>14, <1>15 DEF Concluded

(* The end of a statement *)

(* The word that is left of a statement is what its expression means. *)
LEMMA StatementLeaves ==
  ASSUME ParserInv, NEW a, NEW b, NEW i, Meant(a, stack, locals),
         a.done + 1 \in 1 .. Len(statements), Ends(a, i, b)
  PROVE  MeaningOfNode(Meaning[a.done].env)[statements[a.done + 1].expression]
            = <<Denotes(TypeOfStatement(a.done + 1), stack[1])>>
<1>0. PICK j, e, env, x : /\ j = a.done + 1 /\ e = statements[j].expression
                          /\ env = Meaning[a.done].env /\ x = stack[1]
  OBVIOUS
<1>1. j \in 1 .. Len(statements) /\ a.held = <<e>>  BY <1>0 DEF Ends
<1>2. nodes[e].type = TypeOfStatement(j)
  BY <1>0, <1>1, StatementFacts DEF StatementInv
<1>3. Related(Meanings(env), a.held, stack)  BY <1>0 DEF Meant
<1>4. 1 \in 1 .. Len(a.held) /\ a.held[1] = e  BY <1>1
<1>5. <<e, x>> \in Meanings(env)  BY <1>0, <1>3, <1>4 DEF Related
<1>6. Means(env, e, x)  BY <1>5, PairMeans
<1>7. MeaningOfNode(env)[e] = <<Denotes(nodes[e].type, x)>>
  BY <1>6 DEF Means
<1> QED BY <1>0, <1>2, <1>7

LEMMA FinishesMeaning ==
  ASSUME ParserInv, NEW a, NEW b, NEW i, Ready(a), Meant(a, stack, locals),
         a.done + 1 \in 1 .. Len(statements),
         NEW s, NEW ls, NEW o, NEW c, Finishes(a, i, b, s, ls, o, c)
  PROVE  Concluded(o)
<1>1. PICK j : j = a.done + 1  OBVIOUS
<1>2. Ends(a, i, b) /\ Returning(j) /\ j = Len(statements)
  BY <1>1 DEF Finishes
<1>3. PICK x \in Word : stack = <<x>> /\ o = Returned(x)  BY DEF Finishes
<1> DEFINE v == <<Denotes(signature.result, x)>>
<1>4. TypeOfStatement(j) = signature.result  BY <1>2 DEF TypeOfStatement
<1>5. MeaningOfNode(Meaning[a.done].env)[statements[j].expression] = v
  <2>1. MeaningOfNode(Meaning[a.done].env)[statements[a.done + 1].expression]
           = <<Denotes(TypeOfStatement(a.done + 1), stack[1])>>
    BY <1>2, StatementLeaves
  <2>2. stack[1] = x  BY <1>3
  <2> QED BY <1>1, <1>4, <2>1, <2>2
<1>6. v # <<>>  OBVIOUS
<1> HIDE DEF v
<1>7. Meaning[Len(statements)].end = v
  BY <1>1, <1>2, <1>5, <1>6, StatementMeans
<1>8. o[1] = "return" /\ o[2] = x  BY <1>3 DEF Returned
<1> QED BY <1>7, <1>8 DEF Concluded, v

LEMMA StoresMeaning ==
  ASSUME ParserInv, NEW a, NEW b, NEW i, Ready(a), Meant(a, stack, locals),
         a.done + 1 \in 1 .. Len(statements),
         NEW s, NEW ls, NEW o, NEW c, Stores(a, i, b, s, ls, o, c)
  PROVE  Meant(b, s, ls)
<1>1. PICK j : j = a.done + 1  OBVIOUS
<1>2. PICK l, m : l = statements[j].local /\ m = Meaning[a.done]  OBVIOUS
<1>3. /\ Ends(a, i, b) /\ ~ Returning(j) /\ b = State(<<>>, j) /\ s = <<>>
  BY <1>1 DEF Stores, Ends
<1>4. PICK x \in Word : /\ stack = <<x>> /\ l \in 1 .. local_count
                        /\ ls = [locals EXCEPT ![l] = x]
  BY <1>1, <1>2 DEF Stores
<1> DEFINE y == Denotes(signature.locals[l], x)
           e == statements[j].expression
<1>5. a.done \in Nat /\ j \in 1 .. Len(statements) /\ j - 1 = a.done
  BY <1>1 DEF Ready, States
<1>6. /\ m.end = <<>> /\ m = [env |-> m.env, end |-> m.end]
      /\ m.env = [k \in 1 .. local_count |-> m.env[k]]
      /\ EnvAgrees(m.env, locals)
  BY <1>2 DEF Meant
<1>7. MeaningOfNode(m.env)[e] = <<y>>
  <2>1. TypeOfStatement(j) = signature.locals[l]
    BY <1>2, <1>3 DEF TypeOfStatement
  <2>2. MeaningOfNode(Meaning[a.done].env)[statements[a.done + 1].expression]
           = <<Denotes(TypeOfStatement(a.done + 1), stack[1])>>
    BY <1>3, StatementLeaves
  <2>3. stack[1] = x  BY <1>4
  <2> QED BY <1>1, <1>2, <2>1, <2>2, <2>3
<1>8. Meaning[j] = Execute(m, statements[j])  BY <1>2, <1>5, MeaningSteps
<1> HIDE DEF y
<1>9. Len(<<y>>) # 2 /\ <<y>>[1] = y  BY SMTT(30)
<1>10. Execute(m, statements[j]) = [m EXCEPT !.env[l] = y]
  BY <1>2, <1>3, <1>6, <1>7, <1>9 DEF Execute, Returning
<1>11. PICK g : g = [m.env EXCEPT ![l] = y]  OBVIOUS
<1>12. /\ g = [k \in 1 .. local_count |-> IF k = l THEN y ELSE m.env[k]]
  BY <1>4, <1>6, <1>11
<1>13. [m EXCEPT !.env[l] = y] = [env |-> g, end |-> <<>>]
  <2>1. [m EXCEPT !.env[l] = y] = [m EXCEPT !.env = g]  BY <1>11
  <2>2. PICK f : m = [env |-> f, end |-> <<>>]  BY <1>6
  <2>3. [m EXCEPT !.env = g] = [env |-> g, end |-> <<>>]  BY <2>2
  <2> QED BY <2>1, <2>3
<1>14. Meaning[j] = [env |-> g, end |-> <<>>]  BY <1>8, <1>10, <1>13
<1>15. g = [k \in 1 .. local_count |-> g[k]]  BY <1>12
<1>16. EnvAgrees(g, ls)
  <2> SUFFICES ASSUME NEW k \in 1 .. local_count, ls[k] # Unset
               PROVE  g[k] = Denotes(signature.locals[k], ls[k])
    BY DEF EnvAgrees
  <2>1. locals = [q \in 1 .. local_count |-> locals[q]]
    BY DEF Ready, LocalsTyped
  <2>2. ls[k] = IF k = l THEN x ELSE locals[k]  BY <1>4, <2>1
  <2>3. g[k] = IF k = l THEN y ELSE m.env[k]  BY <1>12
  <2>4. CASE k = l  BY <2>2, <2>3, <2>4 DEF y
  <2>5. CASE k # l  BY <1>6, <2>2, <2>3, <2>5 DEF EnvAgrees
  <2> QED BY <2>4, <2>5
<1>17. b.done = j /\ b.held = <<>>  BY <1>3 DEF State
<1>18. Related(Meanings(g), b.held, s)  BY <1>17 DEF Related
<1>19. Meaning[j].env = g /\ Meaning[j].end = <<>>  BY <1>14
<1> QED BY <1>14, <1>15, <1>16, <1>17, <1>18, <1>19 DEF Meant

(* Every step keeps to the meaning. *)
LEMMA MeantOn ==
  ASSUME ParserInv, NEW a, NEW b, NEW i, Ready(a), Meant(a, stack, locals),
         a.done + 1 \in 1 .. Len(statements), b.held \in Seq(Known),
         NEW s, NEW ls, NEW o, NEW c, Moves(a, i, b, s, ls, o, c)
  PROVE  /\ o = Running => Meant(b, s, ls)
         /\ o # Running => Concluded(o)
<1>1. \A p : Fault(p) # Running  BY DEF Fault, Running
<1>2. \A x : Returned(x) # Running  BY DEF Returned, Running
<1>3. CASE Divides(a, i, b, s, ls, o, c)
  <2>1. o # Running  BY <1>1, <1>3 DEF Divides
  <2>2. Concluded(o)  BY <1>3, DividesMeaning
  <2> QED BY <2>1, <2>2
<1>4. CASE Finishes(a, i, b, s, ls, o, c)
  <2>1. o # Running  BY <1>2, <1>4 DEF Finishes
  <2>2. Concluded(o)  BY <1>4, FinishesMeaning
  <2> QED BY <2>1, <2>2
<1>5. CASE Computes(a, i, b, s, ls, o, c)
  <2>1. o = Running  BY <1>5 DEF Computes
  <2>2. Meant(b, s, ls)  BY <1>5, ComputesMeaning
  <2> QED BY <2>1, <2>2
<1>6. CASE Stores(a, i, b, s, ls, o, c)
  <2>1. o = Running  BY <1>6 DEF Stores
  <2>2. Meant(b, s, ls)  BY <1>6, StoresMeaning
  <2> QED BY <2>1, <2>2
<1> QED BY <1>3, <1>4, <1>5, <1>6 DEF Moves

(* A step of a call leaves the meaning of the function as it is. *)
LEMMA SameMeaningOfNode ==
  ASSUME UNCHANGED <<parserVars, argument>>
  PROVE  /\ \A type, x : Denotes(type, x)' = Denotes(type, x)
         /\ \A env : MeaningOfNode(env)' = MeaningOfNode(env)
<1>1. nodes' = nodes /\ pool' = pool /\ argument' = argument
  BY DEF parserVars
<1>2. Symbols' = Symbols  BY <1>1 DEF Symbols
<1>3. \A type, x : Denotes(type, x)' = Denotes(type, x)
  BY <1>1, <1>2 DEF Denotes
<1>4. \A f, env, n : NodeMeaning(f, env, n)' = NodeMeaning(f, env, n)
  BY <1>1, <1>3 DEF NodeMeaning
<1>5. \A env : MeaningOfNode(env)' = MeaningOfNode(env)
  BY <1>1, <1>4 DEF MeaningOfNode
<1> QED BY <1>3, <1>5

LEMMA SameMeaning ==
  ASSUME UNCHANGED <<parserVars, argument>>
  PROVE  Meaning' = Meaning
<1>1. statements' = statements /\ local_count' = local_count
  BY DEF parserVars
<1>2. \A env : MeaningOfNode(env)' = MeaningOfNode(env)
  BY SameMeaningOfNode
<1>3. \A m, s : Execute(m, s)' = Execute(m, s)  BY <1>2 DEF Execute
<1> QED BY <1>1, <1>3 DEF Meaning

LEMMA SameMeant ==
  ASSUME UNCHANGED <<parserVars, argument>>
  PROVE  /\ \A a, s, ls : Meant(a, s, ls)' <=> Meant(a, s, ls)
         /\ \A o : Concluded(o)' <=> Concluded(o)
<1>1. /\ nodes' = nodes /\ signature' = signature /\ local_count' = local_count
      /\ statements' = statements /\ Known' = Known
  BY DEF parserVars, Known
<1>2. Meaning' = Meaning  BY SameMeaning
<1>3. /\ \A type, x : Denotes(type, x)' = Denotes(type, x)
      /\ \A env : MeaningOfNode(env)' = MeaningOfNode(env)
  BY SameMeaningOfNode
<1>4. \A type, x : HasType(type, x)' <=> HasType(type, x)
  BY SameTypes DEF parserVars
<1>5. Constants(nodes)' = Constants(nodes)  BY <1>1
<1>6. \A env, n, x : Means(env, n, x)' <=> Means(env, n, x)
  BY <1>1, <1>3, <1>4, <1>5 DEF Means
<1>7. \A env : Meanings(env)' = Meanings(env)  BY <1>1, <1>6 DEF Meanings
<1>8. \A env, ls : EnvAgrees(env, ls)' <=> EnvAgrees(env, ls)
  BY <1>1, <1>3 DEF EnvAgrees
<1>9. \A a, s, ls : Meant(a, s, ls)' <=> Meant(a, s, ls)
  BY <1>1, <1>2, <1>7, <1>8 DEF Meant, Related
<1>10. \A o : Concluded(o)' <=> Concluded(o)
  BY <1>1, <1>2, <1>3 DEF Concluded
<1> QED BY <1>9, <1>10

(* A call means what is written. *)
(* As long as the call runs, its stack and locals denote what is written;  *)
(* then its outcome is the meaning of the function.                        *)
MeantSoFar(w) ==
    IF outcome = Running THEN Meant(w[pc - 1], stack, locals)
    ELSE Concluded(outcome)
MeaningInv == pc # 0 => \E w : Called(w) /\ MeantSoFar(w)

Fresh == stack = <<>> /\ \A l \in 1 .. local_count : locals[l] = Unset
FreshMeant == Meant(State(<<>>, 0), stack, locals)

LEMMA StartMeans == ParserInv /\ Fresh => FreshMeant
<1> SUFFICES ASSUME ParserInv, Fresh
             PROVE  FreshMeant
  OBVIOUS
<1>1. PICK a : a = State(<<>>, 0)  OBVIOUS
<1>2. a.held = <<>> /\ a.done = 0  BY <1>1 DEF State
<1>3. PICK m : m = Meaning[0]  OBVIOUS
<1>4. m = [env |-> [l \in 1 .. local_count |-> 0], end |-> <<>>]
  BY <1>3, MeaningSteps
<1>5. m.end = <<>> /\ m.env = [l \in 1 .. local_count |-> 0]  BY <1>4
<1>6. /\ m = [env |-> m.env, end |-> m.end]
      /\ m.env = [l \in 1 .. local_count |-> m.env[l]]
  BY <1>4, <1>5
<1>7. EnvAgrees(m.env, locals)  BY DEF EnvAgrees, Fresh
<1>8. Related(Meanings(m.env), a.held, stack)  BY <1>2 DEF Related
<1>9. Meant(a, stack, locals)
  BY <1>2, <1>3, <1>5, <1>6, <1>7, <1>8 DEF Meant
<1> QED BY <1>1, <1>9 DEF FreshMeant

LEMMA StartMeansNext == ParserInv' /\ Fresh' => FreshMeant'
BY StartMeans, PTL

LEMMA MeaningOfCall ==
  ASSUME ParserInv, ParserInv', RunInv, Call
  PROVE  MeaningInv'
<1>1. PICK w : Called(w)'  BY CallStarts
<1>2. /\ pc' = 1 /\ stack = <<>> /\ outcome = Running
      /\ locals' = [l \in 1 .. local_count |-> Unset]
      /\ UNCHANGED <<parserVars, code, stack, outcome>>
  BY DEF Call, RunInv
<1>3. stack' = <<>> /\ outcome' = Running /\ local_count' = local_count
  BY <1>2 DEF parserVars
<1>4. Fresh'  BY <1>2, <1>3 DEF Fresh
<1>5. FreshMeant'  BY <1>4, StartMeansNext
<1>6. w[0] = State(<<>>, 0)  BY <1>1 DEF Called, Line
<1>7. Meant(w[pc - 1], stack, locals)'
  <2>1. pc' - 1 = 0  BY <1>2
  <2> QED BY <1>5, <1>6, <2>1 DEF FreshMeant, Meant
<1>8. MeantSoFar(w)'  BY <1>3, <1>7 DEF MeantSoFar
<1> QED BY <1>1, <1>8 DEF MeaningInv

LEMMA MeaningOfStep ==
  ASSUME ParserInv, mode = "compiled", NEW w, Called(w), MeantSoFar(w), Step
  PROVE  Called(w)' /\ MeantSoFar(w)'
<1>0. PICK a, b, i : a = w[pc - 1] /\ b = w[pc] /\ i = code[pc]  OBVIOUS
<1>1. /\ outcome = Running /\ pc \in 1 .. Len(code)
      /\ b.held \in Seq(Known) /\ Ready(a)
      /\ Follows(a, i, b) /\ pc' = pc + 1
      /\ UNCHANGED <<parserVars, code, argument>>
  BY <1>0, StepMoves
<1>2. PICK s, ls, o, c :
            /\ Moves(a, i, b, s, ls, o, c)
            /\ stack' = s /\ locals' = ls /\ outcome' = o /\ cpu' = c
  BY <1>0, StepMoves
<1>3. Meant(a, stack, locals)  BY <1>0, <1>1 DEF MeantSoFar
<1>4. a.done + 1 \in 1 .. Len(statements)  BY <1>1 DEF Follows
<1>5. /\ o = Running => Meant(b, s, ls)
      /\ o # Running => Concluded(o)
  BY <1>1, <1>2, <1>3, <1>4, MeantOn
<1>6. /\ Meant(b, s, ls)' <=> Meant(b, s, ls)
      /\ Concluded(o)' <=> Concluded(o)
  BY <1>1, SameMeant
<1>7. pc' - 1 = pc
  <2>1. Len(code) \in Nat  BY DEF Called
  <2> QED BY <1>1, <2>1
<1>8. CASE o = Running
  <2>1. Meant(b, s, ls)'  BY <1>5, <1>6, <1>8
  <2>2. w[pc' - 1] = b  BY <1>0, <1>7
  <2>3. Meant(w[pc - 1], stack, locals)'  BY <1>2, <2>1, <2>2 DEF Meant
  <2> QED BY <1>2, <1>8, <2>3, CallGoesOn DEF MeantSoFar, Running
<1>9. CASE o # Running
  <2>1. Concluded(o)'  BY <1>5, <1>6, <1>9
  <2>2. Concluded(outcome)'  BY <1>2, <2>1 DEF Concluded
  <2> QED BY <1>2, <1>9, <2>2, CallGoesOn DEF MeantSoFar, Running
<1> QED BY <1>8, <1>9

LEMMA MeaningRests ==
  ASSUME UNCHANGED <<parserVars, codeVars>>, ParserInv,
         NEW w, Called(w), MeantSoFar(w)
  PROVE  Called(w)' /\ MeantSoFar(w)'
<1>1. Called(w)'  BY CallRests
<1>2. /\ UNCHANGED <<parserVars, argument>> /\ stack' = stack /\ pc' = pc
      /\ locals' = locals /\ outcome' = outcome
  BY DEF codeVars
<1>3. PICK b, s, ls, o : /\ b = w[pc - 1] /\ s = stack /\ ls = locals
                         /\ o = outcome
  OBVIOUS
<1>4. /\ Meant(b, s, ls)' <=> Meant(b, s, ls)
      /\ Concluded(o)' <=> Concluded(o)
  BY <1>2, SameMeant
<1>5. CASE outcome = Running
  <2>1. Meant(b, s, ls)'  BY <1>3, <1>4, <1>5 DEF MeantSoFar
  <2>2. Meant(w[pc - 1], stack, locals)'  BY <1>2, <1>3, <2>1 DEF Meant
  <2> QED BY <1>1, <1>2, <1>5, <2>2 DEF MeantSoFar, Running
<1>6. CASE outcome # Running
  <2>1. Concluded(o)'  BY <1>3, <1>4, <1>6 DEF MeantSoFar
  <2>2. Concluded(outcome)'  BY <1>2, <1>3, <2>1 DEF Concluded
  <2> QED BY <1>1, <1>2, <1>6, <2>2 DEF MeantSoFar, Running
<1> QED BY <1>5, <1>6

LEMMA MeaningStays ==
  ASSUME ParserInv, ParserInv', RunInv, MeaningInv,
         [StackNext]_<<parserVars, codeVars>>
  PROVE  MeaningInv'
<1>1. CASE Parse
  <2>1. mode # "compiled" /\ pc' = pc
    BY <1>1, ParsingModes DEF Parse, codeVars
  <2> QED BY <2>1 DEF RunInv, MeaningInv
<1>2. CASE Lower
  <2>1. pc = 0 /\ pc' = 0  BY <1>2 DEF Lower, RunInv
  <2> QED BY <2>1 DEF MeaningInv
<1>3. CASE Call  BY <1>3, MeaningOfCall
<1>4. CASE Step
  <2>1. pc # 0 /\ mode = "compiled"  BY <1>4 DEF Step, RunInv
  <2>2. PICK w : Called(w) /\ MeantSoFar(w)  BY <2>1 DEF MeaningInv
  <2>3. Called(w)' /\ MeantSoFar(w)'  BY <1>4, <2>1, <2>2, MeaningOfStep
  <2> QED BY <2>3 DEF MeaningInv
<1>5. CASE UNCHANGED <<parserVars, codeVars>>
  <2>1. pc' = pc  BY <1>5 DEF codeVars
  <2>2. CASE pc = 0  BY <2>1, <2>2 DEF MeaningInv
  <2>3. CASE pc # 0
    <3>1. PICK w : Called(w) /\ MeantSoFar(w)  BY <2>3 DEF MeaningInv
    <3>2. Called(w)' /\ MeantSoFar(w)'  BY <1>5, <3>1, MeaningRests
    <3> QED BY <3>2 DEF MeaningInv
  <2> QED BY <2>2, <2>3
<1> QED BY <1>1, <1>2, <1>3, <1>4, <1>5 DEF StackNext

(* At every instruction the words on the stack denote the meanings of      *)
(* their nodes and the locals what the statements so far have stored, in   *)
(* integers and texts (lower_node, miga80_evaluate_ir).                    *)
THEOREM CallsMeanTheSource == StackSpec => []MeaningInv
<1> DEFINE Inv == ParserInv /\ RunInv /\ MeaningInv
<1>1. StackInit => Inv
  <2>1. StackInit => MeaningInv  BY DEF StackInit, NoCode, MeaningInv
  <2> QED BY <2>1, RunInitially
<1>2. Inv /\ [StackNext]_<<parserVars, codeVars>> => Inv'
  <2> SUFFICES ASSUME Inv, [StackNext]_<<parserVars, codeVars>>
               PROVE  Inv'
    OBVIOUS
  <2>1. ParserInv' /\ RunInv'  BY StepKeepsParser, RunKept
  <2> QED BY <2>1, MeaningStays
<1>3. Inv => MeaningInv  OBVIOUS
<1> QED BY <1>1, <1>2, <1>3, PTL DEF StackSpec

(* The node of an instruction ends the nodes held after it. *)
LEMMA NodeOnTop ==
  ASSUME ParserInv, NEW n \in Known, NEW s \in Seq(Known), NEW t \in Seq(Known),
         NodeMoves(s, n, t)
  PROVE  Len(t) \in 1 .. Len(t) /\ t[Len(t)] = n
<1>1. \E r \in Seq(Nat) \cup Seq(Known) : t = Append(r, n)
  <2>1. nodes[n].kind \in Leaves \cup Unary \cup Binary
    BY NodeRecord DEF Kinds
  <2>2. CASE nodes[n].kind \in Leaves
    <3>1. t = Append(s, n)  BY <2>2, KindsDiffer DEF NodeMoves
    <3> QED BY <3>1
  <2>3. CASE nodes[n].kind \in Unary  BY <2>3, KindsDiffer DEF NodeMoves
  <2>4. CASE nodes[n].kind \in Binary  BY <2>4, KindsDiffer DEF NodeMoves
  <2> QED BY <2>1, <2>2, <2>3, <2>4
<1>2. PICK r \in Seq(Nat) \cup Seq(Known) : t = Append(r, n)  BY <1>1
<1> QED BY <1>2

(* A conversion of a constant is the constant. *)
LEMMA ConvertedConstant ==
  ASSUME ParserInv, NEW n \in Known, nodes[n].kind = "normalize"
  PROVE  Constants(nodes)[n] = Constants(nodes)[nodes[n].left]
<1> DEFINE K == Constants(nodes)
           l == nodes[n].left
           type == nodes[n].type
<1>1. Ordered(nodes) /\ Table(nodes, pool, local_count) /\ Len(nodes) \in Nat
  BY ParserFacts DEF ParserInv
<1>2. /\ l \in 1 .. n - 1 /\ type \in IntegerTypes
      /\ K[l] # <<>> /\ Fits(type, K[l][1])
  <2>1. FormedUnary(nodes, n) /\ nodes[n].kind \in Unary
    BY NodeRecord DEF Formed, Unary
  <2> QED BY <2>1 DEF FormedUnary
<1>3. l \in 1 .. Len(nodes)  BY <1>1, <1>2 DEF Known
<1>4. PICK c \in Word : K[l] = <<c>>  BY <1>1, <1>2, <1>3, ConstantsAreWords
<1>5. K[n] = ConstantOf(K, nodes, n)  BY <1>1, ConstantsUnfold DEF Known
<1>6. ConstantOf(K, nodes, n) = IF K[l] = <<>> THEN <<>>
                                ELSE <<Normalize(type, K[l][1])>>
  <2> HIDE DEF K
  <2> QED BY DEF ConstantOf, Arithmetic, Divisions
<1> HIDE DEF K, l, type
<1>7. K[l][1] = c  BY <1>4
<1>8. Normalize(type, c) = c  BY <1>2, <1>7, FittingWords
<1> QED BY <1>2, <1>4, <1>5, <1>6, <1>7, <1>8 DEF K, l

LEMMA ConstantOnStack ==
  ASSUME ParserInv, NEW w, Called(w), MeantSoFar(w), outcome = Running,
         pc > 1, code[pc - 1].place # 0
  PROVE  ConstantsExact
<1> DEFINE n == code[pc - 1].place
<1>0. PICK a, b, i : a = w[pc - 2] /\ b = w[pc - 1] /\ i = code[pc - 1]
  OBVIOUS
<1>1. /\ Line(w, code, Len(statements)) /\ Len(code) \in Nat
      /\ pc \in 1 .. Len(code) + 1 /\ Meant(b, stack, locals)
      /\ Ready(b)
  BY <1>0 DEF Called, MeantSoFar
<1>2. /\ pc - 1 \in 1 .. Len(code) /\ (pc - 1) - 1 = pc - 2
      /\ pc - 2 \in 0 .. Len(code)
  BY <1>1
<1>3. /\ Follows(a, i, b) /\ a \in States /\ a.held \in Seq(Known)
      /\ b.held \in Seq(Known)
  BY <1>0, <1>1, <1>2, LineFacts DEF Ready
<1>4. Within(a, i, b)
  <2>1. ASSUME Ends(a, i, b)
        PROVE  FALSE
    <3>1. i.place = 0  BY <2>1 DEF Ends, Ending, Instruction
    <3> QED BY <1>0, <3>1
  <2> QED BY <1>3, <2>1 DEF Follows
<1>5. i.place \in Known /\ NodeMoves(a.held, i.place, b.held)
  <2>1. a.done + 1 \in 1 .. Len(statements)  BY <1>3 DEF Follows
  <2> QED BY <1>3, <1>4, <2>1, PlaceIsKnown
<1>6. n = i.place  BY <1>0
<1> HIDE DEF n
<1>7. /\ Len(b.held) \in 1 .. Len(b.held) /\ b.held[Len(b.held)] = n
      /\ n \in Known
  BY <1>3, <1>5, <1>6, NodeOnTop
<1>8. Len(stack) = Len(b.held)  BY <1>1 DEF Ready, Mirrors, Typed
<1>9. PICK env : Related(Meanings(env), b.held, stack)  BY <1>1 DEF Meant
<1>10. <<n, stack[Len(stack)]>> \in Meanings(env)
  BY <1>7, <1>8, <1>9 DEF Related
<1>11. Means(env, n, stack[Len(stack)])  BY <1>10, PairMeans
<1>12. Constants(nodes)[n] # <<>> => stack[Len(stack)] = Constants(nodes)[n][1]
  BY <1>11 DEF Means
<1>13. nodes[n].kind = "normalize" =>
          Constants(nodes)[n] = Constants(nodes)[nodes[n].left]
  BY <1>7, ConvertedConstant
<1> QED BY <1>12, <1>13 DEF ConstantsExact, Last, n

(* What the parser accepts is never rejected, and a call of it returns     *)
(* what the source means or faults at the division at which the source     *)
(* faults: no conversion, order of operands, wrapping or number of a text  *)
(* changes it (intern_pool_literal, lower_node, validate_ir,               *)
(* miga80_evaluate_ir).                                                    *)
THEOREM SourceMeaningKept == StackSpec => []MeaningKept
<1>1. MeaningInv /\ mode # "rejected" => MeaningKept
  BY DEF MeaningInv, MeantSoFar, Concluded, MeaningKept
<1> QED BY <1>1, CallsMeanTheSource, NothingRejected, PTL

(* A constant the parser has computed for a node is what the code of the   *)
(* node leaves on the stack, and a conversion never changes it             *)
(* (constant_i32, coerce_constant).                                        *)
THEOREM ParserArithmeticExact == StackSpec => []ConstantsExact
<1>1. ParserInv /\ MeaningInv => ConstantsExact
  <2> SUFFICES ASSUME ParserInv, MeaningInv
               PROVE  ConstantsExact
    OBVIOUS
  <2>1. CASE pc > 1 /\ outcome = Running /\ code[pc - 1].place # 0
    <3>1. PICK w : Called(w) /\ MeantSoFar(w)  BY <2>1 DEF MeaningInv
    <3> QED BY <2>1, <3>1, ConstantOnStack
  <2>2. CASE ~ (pc > 1 /\ outcome = Running /\ code[pc - 1].place # 0)
    BY <2>2 DEF ConstantsExact
  <2> QED BY <2>1, <2>2
<1> QED BY <1>1, CallsMeanTheSource, ParserKeepsTables, PTL
=============================================================================
