-------------------------- MODULE UserProgramProofs --------------------------
(***************************************************************************)
(* What UserProgram guarantees for every width of words, every size of     *)
(* memory, every set of programs and any number of threads.                *)
(***************************************************************************)
EXTENDS UserProgram, SequenceTheorems, FiniteSetTheorems, WellFoundedInduction, TLAPS

(* Induction over the numbers is the existence of a least counterexample. *)
LEMMA LeastNumber ==
    ASSUME NEW T \in SUBSET Nat, T # {}
    PROVE  \E m \in T : \A k \in T : m <= k
<1>1. PICK m \in T : \A k \in T : ~ (<<k, m>> \in OpToRel(<, Nat))
    BY NatLessThanWellFounded, WFMin
<1>2. ASSUME NEW k \in T PROVE m <= k
    <2>1. k \in Nat /\ m \in Nat
        OBVIOUS
    <2>2. ~ (k < m)
        BY <1>1, <2>1 DEF OpToRel
    <2> QED BY <2>1, <2>2
<1> QED BY <1>2

(* A set that holds 0 and with each number below n the next holds all up to n. *)
LEMMA Induction ==
    ASSUME NEW n \in Nat, NEW S, 0 \in S, \A k \in 0 .. n - 1 : k \in S => k + 1 \in S
    PROVE  0 .. n \subseteq S
<1> DEFINE T == (0 .. n) \ S
<1>1. CASE T = {}
    BY <1>1
<1>2. CASE T # {}
    <2>1. PICK m \in T : \A k \in T : m <= k
        <3>1. T \in SUBSET Nat
            OBVIOUS
        <3> HIDE DEF T
        <3> QED BY <1>2, <3>1, LeastNumber
    <2>2. m - 1 \in 0 .. n - 1
        BY <2>1
    <2>3. m - 1 \in S
        BY <2>1, <2>2
    <2>4. (m - 1) + 1 \in S
        BY <2>2, <2>3
    <2>5. (m - 1) + 1 = m
        BY <2>1
    <2> QED BY <2>1, <2>4, <2>5
<1> QED BY <1>1, <1>2

(* What a recursive function over 0 .. n computes: a sum, term by term. *)
LEMMA TotalRecursion ==
    ASSUME NEW n \in Nat, NEW term
    PROVE  \E sum : /\ sum = [k \in 0 .. n |-> IF k = 0 THEN 0 ELSE sum[k - 1] + term[k - 1]]
                    /\ Total(term, n) = sum[n]
<1> DEFINE Sums(m, f) == f = [k \in 0 .. m |-> IF k = 0 THEN 0 ELSE f[k - 1] + term[k - 1]]
           S == {m \in 0 .. n : \E f : Sums(m, f)}
<1>1. 0 \in S
    <2>1. Sums(0, [k \in 0 .. 0 |-> 0])
        OBVIOUS
    <2> HIDE DEF Sums
    <2> QED BY <2>1
<1>2. ASSUME NEW m \in 0 .. n - 1, m \in S PROVE m + 1 \in S
    <2>1. PICK f : Sums(m, f)
        BY <1>2
    <2> DEFINE g == [k \in 0 .. m + 1 |-> IF k = m + 1 THEN f[m] + term[m] ELSE f[k]]
    <2>2. ASSUME NEW k \in 0 .. m + 1
          PROVE  g[k] = IF k = 0 THEN 0 ELSE g[k - 1] + term[k - 1]
        <3>1. CASE k = 0
            BY <2>1, <3>1
        <3>2. CASE k = m + 1
            BY <3>2
        <3>3. CASE k \in 1 .. m
            <4>1. k - 1 \in 0 .. m /\ k \in 0 .. m
                BY <3>3
            <4> QED BY <2>1, <3>3, <4>1
        <3> QED BY <3>1, <3>2, <3>3
    <2>3. Sums(m + 1, g) /\ m + 1 \in 0 .. n
        BY <2>2
    <2> HIDE DEF Sums, g
    <2> QED BY <2>3
<1>3. n \in S
    <2> HIDE DEF S
    <2>1. 0 .. n \subseteq S
        BY <1>1, <1>2, Induction
    <2> QED BY <2>1
<1>4. PICK f : Sums(n, f)
    BY <1>3
<1> DEFINE g == CHOOSE g : Sums(n, g)
<1>5. Sums(n, g)
    BY <1>4
<1>6. Total(term, n) = g[n]
    BY DEF Total
<1> QED BY <1>5, <1>6

-----------------------------------------------------------------------------
(* Powers of two. *)
LEMMA WidthType == /\ Width \in Nat /\ ByteBits \in 0 .. Width /\ Width >= 8
                   /\ Width - 1 \in 0 .. Width /\ 2 * ByteBits \in 0 .. Width
                   /\ Width - 4 \in 0 .. Width /\ ByteBits \in Nat
                   /\ \A k \in 0 .. 4 : k * ByteBits \in 0 .. Width
BY CpuAssumption DEF Width

LEMMA PowerRecursion ==
    Pow2 = [n \in 0 .. Width |-> IF n = 0 THEN 1 ELSE 2 * Pow2[n - 1]]
<1> DEFINE Powers(m, f) == f = [n \in 0 .. m |-> IF n = 0 THEN 1 ELSE 2 * f[n - 1]]
           S == {m \in 0 .. Width : \E f : Powers(m, f)}
<1>1. 0 \in S
    <2>1. Powers(0, [n \in 0 .. 0 |-> 1]) /\ 0 \in 0 .. Width
        BY WidthType
    <2> HIDE DEF Powers
    <2> QED BY <2>1
<1>2. ASSUME NEW m \in 0 .. Width - 1, m \in S PROVE m + 1 \in S
    <2>1. PICK f : Powers(m, f)
        BY <1>2
    <2> DEFINE g == [n \in 0 .. m + 1 |-> IF n = m + 1 THEN 2 * f[m] ELSE f[n]]
    <2>2. ASSUME NEW n \in 0 .. m + 1
          PROVE  g[n] = IF n = 0 THEN 1 ELSE 2 * g[n - 1]
        <3>1. CASE n = 0
            BY <2>1, <3>1
        <3>2. CASE n = m + 1
            BY <3>2
        <3>3. CASE n \in 1 .. m
            <4>1. n - 1 \in 0 .. m /\ n \in 0 .. m
                BY <3>3
            <4> QED BY <2>1, <3>3, <4>1
        <3> QED BY <3>1, <3>2, <3>3
    <2>3. Powers(m + 1, g) /\ m + 1 \in 0 .. Width
        BY <2>2, WidthType
    <2> HIDE DEF Powers, g
    <2> QED BY <2>3
<1>3. Width \in S
    <2> HIDE DEF S
    <2>1. 0 .. Width \subseteq S
        BY <1>1, <1>2, WidthType, Induction
    <2> QED BY <2>1, WidthType
<1>4. PICK f : Powers(Width, f)
    BY <1>3
<1>5. Powers(Width, CHOOSE g : Powers(Width, g))
    BY <1>4
<1> QED BY <1>5 DEF Pow2

LEMMA PowerZero == Pow2[0] = 1
BY PowerRecursion, WidthType

LEMMA PowerNext ==
    ASSUME NEW n \in 0 .. Width - 1
    PROVE  Pow2[n + 1] = 2 * Pow2[n]
<1>1. n + 1 \in 0 .. Width /\ n + 1 # 0 /\ (n + 1) - 1 = n
    BY WidthType
<1> QED BY <1>1, PowerRecursion

LEMMA PowerType == \A n \in 0 .. Width : Pow2[n] \in Nat \ {0}
<1> DEFINE S == {n \in 0 .. Width : Pow2[n] \in Nat \ {0}}
<1>1. 0 \in S
    BY PowerZero, WidthType
<1>2. ASSUME NEW n \in 0 .. Width - 1, n \in S PROVE n + 1 \in S
    BY <1>2, PowerNext, WidthType
<1>3. 0 .. Width \subseteq S
    <2> HIDE DEF S
    <2> QED BY <1>1, <1>2, WidthType, Induction
<1> QED BY <1>3

LEMMA PowerSum ==
    ASSUME NEW m \in 0 .. Width
    PROVE  \A n \in 0 .. Width - m : Pow2[m + n] = Pow2[m] * Pow2[n]
<1> DEFINE S == {n \in 0 .. Width - m : Pow2[m + n] = Pow2[m] * Pow2[n]}
<1>0. Width - m \in Nat
    BY WidthType
<1>1. 0 \in S
    BY <1>0, PowerZero, PowerType
<1>2. ASSUME NEW n \in 0 .. (Width - m) - 1, n \in S PROVE n + 1 \in S
    <2>1. m + n \in 0 .. Width - 1 /\ n \in 0 .. Width - 1 /\ (m + n) + 1 = m + (n + 1)
        BY <1>0, WidthType
    <2>2. Pow2[m + (n + 1)] = 2 * Pow2[m + n] /\ Pow2[n + 1] = 2 * Pow2[n]
        BY <2>1, PowerNext
    <2>3. Pow2[m] \in Nat /\ Pow2[n] \in Nat /\ Pow2[m + n] = Pow2[m] * Pow2[n]
        BY <1>2, <2>1, PowerType, WidthType
    <2>4. 2 * (Pow2[m] * Pow2[n]) = Pow2[m] * (2 * Pow2[n])
        BY <2>3
    <2>5. n + 1 \in 0 .. Width - m
        BY <1>0
    <2> QED BY <2>2, <2>3, <2>4, <2>5
<1>3. 0 .. Width - m \subseteq S
    <2> HIDE DEF S
    <2> QED BY <1>0, <1>1, <1>2, Induction
<1> QED BY <1>3

LEMMA PowerGrows ==
    ASSUME NEW m \in 0 .. Width, NEW n \in 0 .. Width, m <= n
    PROVE  Pow2[m] <= Pow2[n] /\ Pow2[n] % Pow2[m] = 0
<1> DEFINE p == Pow2[m]
           q == Pow2[n - m]
<1>1. n - m \in 0 .. Width - m /\ n - m \in 0 .. Width /\ m + (n - m) = n
    BY WidthType
<1>2. Pow2[n] = p * q
    BY <1>1, PowerSum
<1>3. p \in Nat \ {0} /\ q \in Nat \ {0}
    BY <1>1, PowerType
<1> HIDE DEF p, q
<1>4. p <= p * q /\ (p * q) % p = 0
    BY <1>3
<1> QED BY <1>2, <1>4 DEF p

-----------------------------------------------------------------------------
(* Division and remainder by a number that is not a constant of the provers'. *)
LEMMA Division ==
    ASSUME NEW x \in Int, NEW d \in Nat \ {0}
    PROVE  /\ x \div d \in Int /\ x % d \in 0 .. d - 1
           /\ x = (x \div d) * d + (x % d)
           /\ x \in Nat => x \div d \in Nat
<1>1. x \div d \in Int /\ x % d \in 0 .. d - 1 /\ (x \in Nat => x \div d \in Nat)
    OBVIOUS
<1>2. x % d = x - d * (x \div d)
    OBVIOUS
<1> DEFINE q == x \div d
           r == x % d
<1>3. q \in Int /\ r \in Int /\ r = x - d * q
    BY <1>1, <1>2
<1> HIDE DEF q, r
<1>4. x = q * d + r
    BY <1>3
<1> QED BY <1>1, <1>4 DEF q, r

LEMMA DivisionUnique ==
    ASSUME NEW d \in Nat \ {0}, NEW q \in Int, NEW r \in 0 .. d - 1
    PROVE  (q * d + r) \div d = q /\ (q * d + r) % d = r
<1> DEFINE x == q * d + r
           p == x \div d
           m == x % d
<1>1. x \in Int
    OBVIOUS
<1>2. p \in Int /\ m \in 0 .. d - 1 /\ x = p * d + m
    <2> HIDE DEF x
    <2> QED BY <1>1, Division
<1>3. p * d + m = q * d + r
    BY <1>2
<1> HIDE DEF p, m, x
<1>4. (p - q) * d = r - m /\ r - m < d /\ m - r < d
    BY <1>2, <1>3
<1>5. p - q < 1 /\ q - p < 1
    <2>1. CASE p - q >= 1
        <3>1. (p - q) * d >= d
            BY <1>2, <2>1
        <3> QED BY <1>2, <1>4, <3>1
    <2>2. CASE q - p >= 1
        <3>1. (q - p) * d >= d
            BY <1>2, <2>2
        <3>2. (q - p) * d = m - r
            BY <1>2, <1>4
        <3> QED BY <1>2, <1>4, <3>1, <3>2
    <2> QED BY <1>2, <2>1, <2>2
<1>6. p = q
    BY <1>2, <1>5
<1>7. m = r
    BY <1>2, <1>3, <1>6
<1> QED BY <1>6, <1>7 DEF p, m, x

(* A sum or difference of two numbers below d wraps at most once. *)
LEMMA Wraps ==
    ASSUME NEW d \in Nat \ {0}, NEW x \in -d .. 2 * d - 1
    PROVE  x % d = IF x < 0 THEN x + d ELSE IF x < d THEN x ELSE x - d
<1>1. CASE x < 0
    <2>1. ((-1) * d + (x + d)) % d = x + d
        BY <1>1, DivisionUnique
    <2> QED BY <1>1, <2>1
<1>2. CASE 0 <= x /\ x < d
    <2>1. (0 * d + x) % d = x
        BY <1>2, DivisionUnique
    <2> QED BY <1>2, <2>1
<1>3. CASE d <= x
    <2>1. (1 * d + (x - d)) % d = x - d
        BY <1>3, DivisionUnique
    <2> QED BY <1>3, <2>1
<1> QED BY <1>1, <1>2, <1>3

LEMMA WordFacts ==
    /\ SignBit \in Nat \ {0} /\ WordSize = 2 * SignBit /\ WordSize \in Nat \ {0}
    /\ WordSize >= 256 /\ SignBit >= 128
    /\ ByteSize \in Nat \ {0} /\ Word \subseteq Nat /\ Byte \subseteq Nat
    /\ 0 \in Word /\ 0 \in Byte /\ 0 .. 255 \subseteq Word
<1>1. (Width - 1) + 1 = Width /\ Width - 1 \in 0 .. Width - 1
    BY WidthType
<1>2. WordSize = 2 * SignBit
    BY <1>1, PowerNext DEF WordSize, SignBit
<1>3. SignBit \in Nat \ {0} /\ WordSize \in Nat \ {0} /\ ByteSize \in Nat \ {0}
    BY PowerType, WidthType DEF SignBit, WordSize, ByteSize
<1>4. WordSize >= 256
    <2>1. Pow2[0 + 1] = 2 /\ Pow2[1 + 1] = 4 /\ Pow2[2 + 1] = 8 /\ Pow2[3 + 1] = 16
        <3>1. Pow2[0 + 1] = 2
            BY PowerZero, PowerNext, WidthType
        <3>2. Pow2[1 + 1] = 4
            BY <3>1, PowerNext, WidthType
        <3>3. Pow2[2 + 1] = 8
            BY <3>2, PowerNext, WidthType
        <3>4. Pow2[3 + 1] = 16
            BY <3>3, PowerNext, WidthType
        <3> QED BY <3>1, <3>2, <3>3, <3>4
    <2>2. 4 \in 0 .. Width /\ 4 \in 0 .. Width - 4
        BY WidthType
    <2>3. Pow2[4 + 4] = Pow2[4] * Pow2[4]
        BY <2>2, PowerSum
    <2>4. Pow2[8] = 256
        BY <2>1, <2>3
    <2>5. 8 \in 0 .. Width /\ Width \in 0 .. Width /\ 8 <= Width
        BY WidthType
    <2>6. Pow2[8] <= Pow2[Width]
        BY <2>5, PowerGrows
    <2> QED BY <2>4, <2>6 DEF WordSize
<1> QED BY <1>2, <1>3, <1>4 DEF Word, Byte

LEMMA WordInt == \A w \in Word : w \in Nat /\ w \in Int
BY WordFacts DEF Word

LEMMA ModWord == ASSUME NEW x \in Int PROVE x % WordSize \in Word
BY Division, WordFacts DEF Word

LEMMA SignedType ==
    ASSUME NEW w \in Word
    PROVE  Signed(w) \in -SignBit .. SignBit - 1
BY WordFacts DEF Signed, Negative, Word

(* The word of an int, and back. *)
LEMMA SignedWraps ==
    ASSUME NEW x \in -SignBit .. SignBit - 1
    PROVE  x % WordSize \in Word /\ Signed(x % WordSize) = x
<1>1. x \in -WordSize .. 2 * WordSize - 1 /\ x \in Int
    BY WordFacts
<1>2. x % WordSize = IF x < 0 THEN x + WordSize ELSE IF x < WordSize THEN x ELSE x - WordSize
    BY <1>1, Wraps, WordFacts
<1> DEFINE w == x % WordSize
<1>3. w \in Word /\ w = IF x < 0 THEN x + WordSize ELSE x
    <2>1. w \in Word
        BY <1>1, ModWord
    <2>2. x < WordSize
        BY WordFacts
    <2> HIDE DEF w
    <2>3. w = IF x < 0 THEN x + WordSize ELSE IF x < WordSize THEN x ELSE x - WordSize
        BY <1>2 DEF w
    <2> QED BY <2>1, <2>2, <2>3
<1> HIDE DEF w
<1>4. CASE x < 0
    <2>1. w >= SignBit /\ w - WordSize = x
        BY <1>3, <1>4, WordFacts
    <2>2. Signed(w) = x
        BY <2>1 DEF Signed, Negative
    <2> QED BY <1>3, <2>2 DEF w
<1>5. CASE x >= 0
    <2>1. ~ (w >= SignBit) /\ w = x
        BY <1>3, <1>5, WordFacts
    <2>2. Signed(w) = x
        BY <2>1 DEF Signed, Negative
    <2> QED BY <1>3, <2>2 DEF w
<1> QED BY <1>1, <1>4, <1>5

-----------------------------------------------------------------------------
(* The bits of a word. *)
LEMMA SplitBit ==
    ASSUME NEW a \in Nat, NEW p \in Nat \ {0}
    PROVE  a % (2 * p) = (a % p) + (IF (a \div p) % 2 = 1 THEN p ELSE 0)
<1> DEFINE q == a \div p
           r == a % p
           h == q \div 2
           b == q % 2
<1>1. q \in Nat /\ r \in 0 .. p - 1 /\ a = q * p + r
    <2>1. a \in Int
        OBVIOUS
    <2> QED BY <2>1, Division
<1> HIDE DEF q, r
<1>2. h \in Nat /\ b \in 0 .. 1 /\ q = 2 * h + b
    BY <1>1
<1> HIDE DEF h, b
<1> DEFINE s == (IF b = 1 THEN p ELSE 0) + r
<1>3. s \in 0 .. 2 * p - 1 /\ 2 * p \in Nat \ {0}
    BY <1>1, <1>2
<1>4. a = h * (2 * p) + s
    <2>1. q * p = 2 * h * p + b * p
        BY <1>2
    <2>2. b * p = IF b = 1 THEN p ELSE 0
        BY <1>2
    <2>3. 2 * h * p = h * (2 * p)
        BY <1>2
    <2> QED BY <1>1, <1>2, <2>1, <2>2, <2>3
<1> HIDE DEF s
<1>5. a % (2 * p) = s
    BY <1>2, <1>3, <1>4, DivisionUnique
<1> QED BY <1>1, <1>2, <1>5 DEF s, r, b, q

LEMMA SmallRemainder ==
    ASSUME NEW d \in Nat \ {0}, NEW x \in 0 .. d - 1
    PROVE  x % d = x /\ x \div d = 0
<1>1. (0 * d + x) % d = x /\ (0 * d + x) \div d = 0
    BY DivisionUnique
<1> QED BY <1>1

(* Adding b, shifted, for each bit of a is multiplying a and b. *)
LEMMA BitsMultiply ==
    ASSUME NEW a \in Word, NEW b \in Nat
    PROVE  Total([k \in 0 .. Width - 1 |-> IF k \in Bits(a) THEN b * Pow2[k] ELSE 0], Width) = a * b
<1> DEFINE term == [k \in 0 .. Width - 1 |-> IF k \in Bits(a) THEN b * Pow2[k] ELSE 0]
<1>1. PICK sum : /\ sum = [k \in 0 .. Width |-> IF k = 0 THEN 0 ELSE sum[k - 1] + term[k - 1]]
                 /\ Total(term, Width) = sum[Width]
    <2> HIDE DEF term
    <2> QED BY TotalRecursion, WidthType
<1> DEFINE S == {k \in 0 .. Width : sum[k] = (a % Pow2[k]) * b}
<1>2. 0 \in S
    <2>1. a % 1 = 0 /\ 0 * b = 0
        BY WordFacts
    <2>2. sum[0] = 0
        BY <1>1, WidthType
    <2> QED BY <2>1, <2>2, PowerZero, WidthType
<1>3. ASSUME NEW k \in 0 .. Width - 1, k \in S PROVE k + 1 \in S
    <2>1. k + 1 \in 0 .. Width /\ k \in 0 .. Width /\ k + 1 # 0 /\ (k + 1) - 1 = k
        BY WidthType
    <2>2. sum[k + 1] = sum[k] + term[k]
        <3> HIDE DEF term
        <3> QED BY <1>1, <2>1
    <2> DEFINE p == Pow2[k]
               r == a % p
    <2>3. p \in Nat \ {0} /\ Pow2[k + 1] = 2 * p /\ a \in Nat
        BY <2>1, PowerType, PowerNext, WordFacts
    <2>4. r \in Nat /\ sum[k] = r * b
        <3>1. r \in 0 .. p - 1
            <4>1. a \in Int
                BY <2>3
            <4> QED BY <2>3, <4>1, Division
        <3>2. sum[k] = r * b
            BY <1>3
        <3> QED BY <2>3, <3>1, <3>2
    <2>5. CASE (a \div p) % 2 = 1
        <3>1. a % (2 * p) = r + p
            BY <2>3, <2>5, SplitBit
        <3>2. term[k] = b * p
            BY <2>5 DEF Bits
        <3> HIDE DEF r, p, term
        <3>3. (r + p) * b = r * b + b * p
            BY <2>3, <2>4
        <3> QED BY <2>1, <2>2, <2>3, <2>4, <3>1, <3>2, <3>3
    <2>6. CASE (a \div p) % 2 # 1
        <3>1. a % (2 * p) = r
            <4>1. a % (2 * p) = r + 0
                BY <2>3, <2>6, SplitBit
            <4> HIDE DEF r
            <4> QED BY <2>4, <4>1
        <3>2. term[k] = 0
            BY <2>6 DEF Bits
        <3> HIDE DEF r, p, term
        <3>3. r * b + 0 = r * b
            BY <2>3, <2>4
        <3> QED BY <2>1, <2>2, <2>3, <2>4, <3>1, <3>2, <3>3
    <2> QED BY <2>5, <2>6
<1>4. Width \in S
    <2> HIDE DEF S
    <2> QED BY <1>2, <1>3, Induction, WidthType
<1>5. a % Pow2[Width] = a
    BY SmallRemainder, WordFacts DEF Word, WordSize
<1> QED BY <1>1, <1>4, <1>5

(* A word from any set of bits, and a number from any bytes. *)
LEMMA WordOfType ==
    ASSUME NEW bits
    PROVE  WordOf(bits) \in Word
<1> DEFINE term == [k \in 0 .. Width - 1 |-> IF k \in bits THEN Pow2[k] ELSE 0]
<1>1. PICK sum : /\ sum = [k \in 0 .. Width |-> IF k = 0 THEN 0 ELSE sum[k - 1] + term[k - 1]]
                 /\ Total(term, Width) = sum[Width]
    <2> HIDE DEF term
    <2> QED BY TotalRecursion, WidthType
<1> DEFINE S == {k \in 0 .. Width : sum[k] \in 0 .. Pow2[k] - 1}
<1>2. 0 \in S
    BY <1>1, PowerZero, WidthType
<1>3. ASSUME NEW k \in 0 .. Width - 1, k \in S PROVE k + 1 \in S
    <2>1. k + 1 \in 0 .. Width /\ k \in 0 .. Width /\ k + 1 # 0 /\ (k + 1) - 1 = k
        BY WidthType
    <2>2. sum[k + 1] = sum[k] + term[k]
        <3> HIDE DEF term
        <3> QED BY <1>1, <2>1
    <2>3. Pow2[k] \in Nat /\ Pow2[k + 1] = 2 * Pow2[k] /\ term[k] \in {0, Pow2[k]}
        BY <2>1, PowerType, PowerNext
    <2> HIDE DEF term
    <2> QED BY <1>3, <2>1, <2>2, <2>3
<1>4. Width \in S
    <2> HIDE DEF S
    <2> QED BY <1>2, <1>3, Induction, WidthType
<1> QED BY <1>1, <1>4 DEF WordOf, Word, WordSize

LEMMA ByteWeights ==
    /\ ByteWeight(0) = 1 /\ ByteWeight(4) = WordSize
    /\ \A k \in 0 .. 4 : ByteWeight(k) \in Nat \ {0} /\ ByteWeight(k) <= WordSize
    /\ \A k \in 0 .. 3 : ByteWeight(k + 1) = ByteWeight(k) * ByteSize
<1>1. ByteWeight(0) = 1 /\ ByteWeight(4) = WordSize
    <2>1. 0 * ByteBits = 0 /\ 4 * ByteBits = Width
        BY WidthType DEF Width
    <2> QED BY <2>1, PowerZero DEF ByteWeight, WordSize
<1>2. ASSUME NEW k \in 0 .. 4 PROVE ByteWeight(k) \in Nat \ {0} /\ ByteWeight(k) <= WordSize
    <2>1. k * ByteBits \in 0 .. Width /\ Width \in 0 .. Width
        BY WidthType
    <2> QED BY <2>1, PowerType, PowerGrows DEF ByteWeight, WordSize
<1>3. ASSUME NEW k \in 0 .. 3 PROVE ByteWeight(k + 1) = ByteWeight(k) * ByteSize
    <2>1. k * ByteBits \in 0 .. Width /\ ByteBits \in Nat /\ k + 1 \in 0 .. 4
        BY WidthType
    <2>2. (k + 1) * ByteBits = k * ByteBits + ByteBits
        BY <2>1
    <2>3. (k + 1) * ByteBits \in 0 .. Width
        BY <2>1, WidthType
    <2>4. ByteBits \in 0 .. Width - k * ByteBits
        BY <2>1, <2>2, <2>3, WidthType
    <2> QED BY <2>1, <2>2, <2>4, PowerSum DEF ByteWeight, ByteSize
<1> QED BY <1>1, <1>2, <1>3

LEMMA ReadMemType ==
    ASSUME NEW mem, NEW addr, NEW size \in {1, 2, 4},
           \A k \in 0 .. size - 1 : mem[addr + k] \in Byte
    PROVE  ReadMem(mem, addr, size) \in 0 .. ByteWeight(size) - 1
<1> DEFINE term == [k \in 0 .. size - 1 |-> mem[addr + k] * ByteWeight(k)]
<1>1. PICK sum : /\ sum = [k \in 0 .. size |-> IF k = 0 THEN 0 ELSE sum[k - 1] + term[k - 1]]
                 /\ Total(term, size) = sum[size]
    <2>1. size \in Nat
        OBVIOUS
    <2> HIDE DEF term
    <2> QED BY <2>1, TotalRecursion
<1> DEFINE S == {k \in 0 .. size : sum[k] \in 0 .. ByteWeight(k) - 1}
<1>2. 0 \in S
    BY <1>1, ByteWeights
<1>3. ASSUME NEW k \in 0 .. size - 1, k \in S PROVE k + 1 \in S
    <2>1. k + 1 \in 0 .. size /\ k \in 0 .. size /\ k + 1 # 0 /\ (k + 1) - 1 = k /\ k \in 0 .. 3
        OBVIOUS
    <2>2. sum[k + 1] = sum[k] + term[k]
        <3> HIDE DEF term
        <3> QED BY <1>1, <2>1
    <2> DEFINE m == mem[addr + k]
               w == ByteWeight(k)
    <2>3. /\ m \in 0 .. ByteSize - 1 /\ w \in Nat \ {0} /\ ByteWeight(k + 1) = w * ByteSize
          /\ term[k] = m * w
        BY <2>1, ByteWeights DEF Byte
    <2>4. sum[k] \in 0 .. w - 1
        BY <1>3
    <2> HIDE DEF term, m, w
    <2>5. m * w >= 0 /\ m * w <= (ByteSize - 1) * w
        BY <2>3, WordFacts
    <2>6. (ByteSize - 1) * w = w * ByteSize - w /\ m * w \in Int /\ w * ByteSize \in Int
        BY <2>3, WordFacts
    <2>7. sum[k + 1] \in 0 .. w * ByteSize - 1
        <3> DEFINE mw == m * w
                   n == w * ByteSize
        <3>1. mw >= 0 /\ mw <= n - w /\ mw \in Int /\ n \in Int /\ sum[k + 1] = sum[k] + mw
            BY <2>2, <2>3, <2>5, <2>6
        <3> HIDE DEF mw, n
        <3>2. sum[k + 1] \in 0 .. n - 1
            BY <2>3, <2>4, <3>1
        <3> QED BY <3>2 DEF n
    <2> QED BY <2>1, <2>3, <2>7
<1>4. size \in S
    <2> HIDE DEF S
    <2>1. size \in Nat
        OBVIOUS
    <2> QED BY <1>2, <1>3, <2>1, Induction
<1> QED BY <1>1, <1>4 DEF ReadMem

-----------------------------------------------------------------------------
(* Multiplication. *)
LEMMA SumFacts ==
    ASSUME NEW a \in Word, NEW b \in Word
    PROVE  Sum(a, b) \in Word /\ Sum(a, b) = IF a + b < WordSize THEN a + b ELSE a + b - WordSize
<1> DEFINE x == a + b
           y == x % WordSize
<1>1. a \in 0 .. WordSize - 1 /\ b \in 0 .. WordSize - 1 /\ WordSize \in Nat \ {0}
    BY WordFacts DEF Word
<1>2. x \in -WordSize .. 2 * WordSize - 1 /\ x \in Int /\ x >= 0
    BY <1>1
<1> HIDE DEF x
<1>3. y = IF x < 0 THEN x + WordSize ELSE IF x < WordSize THEN x ELSE x - WordSize
    BY <1>1, <1>2, Wraps
<1>4. y \in Word
    BY <1>2, ModWord
<1> HIDE DEF y
<1>5. y = IF x < WordSize THEN x ELSE x - WordSize
    BY <1>2, <1>3
<1>6. Sum(a, b) = y
    BY DEF Sum, y, x
<1>7. y = IF a + b < WordSize THEN a + b ELSE a + b - WordSize
    BY <1>1, <1>5 DEF x
<1> QED BY <1>4, <1>6, <1>7

LEMMA DoubledFacts ==
    ASSUME NEW w \in Word
    PROVE  /\ Doubled(w) \in Word /\ Doubled(w) + 1 \in Word
           /\ Doubled(w) = IF w < SignBit THEN 2 * w ELSE 2 * w - WordSize
<1> DEFINE x == 2 * w
           y == x % WordSize
<1>1. /\ w \in 0 .. WordSize - 1 /\ WordSize = 2 * SignBit
      /\ SignBit \in Nat \ {0} /\ WordSize \in Nat \ {0}
    BY WordFacts DEF Word
<1>2. x \in -WordSize .. 2 * WordSize - 1 /\ x >= 0 /\ x = 2 * w
    BY <1>1
<1> HIDE DEF x
<1>3. y = IF x < 0 THEN x + WordSize ELSE IF x < WordSize THEN x ELSE x - WordSize
    BY <1>1, <1>2, Wraps
<1> HIDE DEF y
<1>4. y = IF w < SignBit THEN 2 * w ELSE 2 * w - WordSize
    BY <1>1, <1>2, <1>3
<1>5. y \in 0 .. WordSize - 1 /\ y + 1 \in 0 .. WordSize - 1
    BY <1>1, <1>4
<1>6. Doubled(w) = y
    BY DEF Doubled, y, x
<1> QED BY <1>4, <1>5, <1>6 DEF Word

(* A recursive function over 0 .. n whose values stay in V: it exists, and *)
(* the one that a LET names is such a function.                            *)
Recurs(n, V, start, step, f) ==
    /\ f = [k \in 0 .. n |-> f[k]]
    /\ f[0] = start
    /\ \A k \in 0 .. n : f[k] \in V
    /\ \A k \in 1 .. n : f[k] = step[<<k - 1, f[k - 1]>>]

LEMMA Recursion ==
    ASSUME NEW n \in Nat, NEW V, NEW start \in V, NEW step \in [(0 .. n) \X V -> V]
    PROVE  \E f : Recurs(n, V, start, step, f)
<1> DEFINE Runs(m, f) == Recurs(m, V, start, step, f)
           S == {m \in 0 .. n : \E f : Runs(m, f)}
<1>1. 0 \in S
    <2>1. Runs(0, [k \in 0 .. 0 |-> start])
        BY DEF Recurs
    <2> HIDE DEF Runs
    <2> QED BY <2>1
<1>2. ASSUME NEW m \in 0 .. n - 1, m \in S PROVE m + 1 \in S
    <2>1. PICK f : Runs(m, f)
        BY <1>2
    <2> DEFINE g == [k \in 0 .. m + 1 |-> IF k = m + 1 THEN step[<<m, f[m]>>] ELSE f[k]]
    <2>2. f[0] = start /\ f[m] \in V /\ m \in 0 .. n
        BY <2>1 DEF Recurs
    <2>3. step[<<m, f[m]>>] \in V
        BY <2>2
    <2>4. g[0] = start
        BY <2>2
    <2>5. ASSUME NEW k \in 0 .. m + 1 PROVE g[k] \in V
        <3>1. CASE k = m + 1
            BY <2>3, <3>1
        <3>2. CASE k \in 0 .. m
            <4>1. f[k] \in V
                BY <2>1, <3>2 DEF Recurs
            <4> QED BY <3>2, <4>1
        <3> QED BY <3>1, <3>2
    <2>6. ASSUME NEW k \in 1 .. m + 1 PROVE g[k] = step[<<k - 1, g[k - 1]>>]
        <3>1. CASE k = m + 1
            <4>1. g[k] = step[<<m, f[m]>>] /\ g[k - 1] = f[m] /\ k - 1 = m
                BY <3>1
            <4> HIDE DEF g
            <4> QED BY <4>1
        <3>2. CASE k \in 1 .. m
            <4>1. g[k] = f[k] /\ g[k - 1] = f[k - 1]
                BY <3>2
            <4>2. f[k] = step[<<k - 1, f[k - 1]>>]
                BY <2>1, <3>2 DEF Recurs
            <4> HIDE DEF g
            <4> QED BY <4>1, <4>2
        <3> QED BY <3>1, <3>2
    <2>7. g = [k \in 0 .. m + 1 |-> g[k]]
        OBVIOUS
    <2>8. Runs(m + 1, g)
        <3> HIDE DEF g
        <3> QED BY <2>4, <2>5, <2>6, <2>7 DEF Recurs
    <2>9. m + 1 \in 0 .. n
        OBVIOUS
    <2> HIDE DEF Runs, g
    <2> QED BY <2>8, <2>9
<1>3. n \in S
    <2> HIDE DEF S
    <2>1. 0 .. n \subseteq S
        BY <1>1, <1>2, Induction
    <2> QED BY <2>1
<1>4. PICK f : Runs(n, f)
    BY <1>3
<1> QED BY <1>4

(* The words of Mult's loop before each of its rounds. *)
ShiftsLow(b, f) == f = [k \in 0 .. Width |-> IF k = 0 THEN b ELSE Doubled(f[k - 1])]
ShiftsHigh(bLo, f) ==
    f = [k \in 0 .. Width |-> IF k = 0 THEN 0 ELSE Doubled(f[k - 1]) + Bool(Negative(bLo[k - 1]))]
SumsLow(a, bLo, f) ==
    f = [k \in 0 .. Width |->
            IF k = 0 THEN 0 ELSE IF k - 1 \in Bits(a) THEN Sum(f[k - 1], bLo[k - 1]) ELSE f[k - 1]]
SumsHigh(a, bLo, bHi, lo, f) ==
    f = [k \in 0 .. Width |->
            IF k = 0 THEN 0
            ELSE IF k - 1 \in Bits(a)
                 THEN Sum(Sum(f[k - 1], Bool(lo[k] < bLo[k - 1])), bHi[k - 1])
                 ELSE f[k - 1]]

LEMMA ShiftsLowType ==
    ASSUME NEW b \in Word
    PROVE  /\ \E f : ShiftsLow(b, f)
           /\ \A f : ShiftsLow(b, f) => \A k \in 0 .. Width : f[k] \in Word
<1>1. \E f : ShiftsLow(b, f)
    <2> DEFINE step == [x \in (0 .. Width) \X Word |-> Doubled(x[2])]
    <2>1. step \in [(0 .. Width) \X Word -> Word] /\ Width \in Nat
        BY DoubledFacts, WidthType
    <2>2. PICK f : Recurs(Width, Word, b, step, f)
        <3> HIDE DEF step
        <3> QED BY <2>1, Recursion
    <2>3. ASSUME NEW k \in 0 .. Width PROVE f[k] = IF k = 0 THEN b ELSE Doubled(f[k - 1])
        <3>1. CASE k = 0
            BY <2>2, <3>1 DEF Recurs
        <3>2. CASE k # 0
            <4> k \in 1 .. Width /\ k - 1 \in 0 .. Width
                BY <3>2, WidthType
            <4>1. f[k - 1] \in Word /\ f[k] = step[<<k - 1, f[k - 1]>>]
                BY <2>2 DEF Recurs
            <4>2. step[<<k - 1, f[k - 1]>>] = Doubled(f[k - 1])
                BY <4>1
            <4> HIDE DEF step
            <4> QED BY <3>2, <4>1, <4>2
        <3> QED BY <3>1, <3>2
    <2>4. f = [k \in 0 .. Width |-> IF k = 0 THEN b ELSE Doubled(f[k - 1])]
        <3>1. f = [k \in 0 .. Width |-> f[k]]
            BY <2>2 DEF Recurs
        <3> QED BY <2>3, <3>1
    <2> QED BY <2>4 DEF ShiftsLow
<1>2. ASSUME NEW f, ShiftsLow(b, f) PROVE \A k \in 0 .. Width : f[k] \in Word
    <2> DEFINE S == {k \in 0 .. Width : f[k] \in Word}
    <2>1. 0 \in S
        BY <1>2, WidthType DEF ShiftsLow
    <2>2. ASSUME NEW k \in 0 .. Width - 1, k \in S PROVE k + 1 \in S
        <3>1. k + 1 \in 0 .. Width /\ k + 1 # 0 /\ (k + 1) - 1 = k
            BY WidthType
        <3>2. f[k + 1] = Doubled(f[k])
            BY <1>2, <3>1 DEF ShiftsLow
        <3> QED BY <2>2, <3>1, <3>2, DoubledFacts
    <2>3. 0 .. Width \subseteq S
        <3> HIDE DEF S
        <3> QED BY <2>1, <2>2, Induction, WidthType
    <2> QED BY <2>3
<1> QED BY <1>1, <1>2

LEMMA ShiftsHighType ==
    ASSUME NEW bLo
    PROVE  /\ \E f : ShiftsHigh(bLo, f)
           /\ \A f : ShiftsHigh(bLo, f) => \A k \in 0 .. Width : f[k] \in Word
<1> DEFINE bit(k) == Bool(Negative(bLo[k]))
<1>1. ASSUME NEW w \in Word, NEW k PROVE Doubled(w) + bit(k) \in Word
    <2>1. Doubled(w) \in Word /\ Doubled(w) + 1 \in Word /\ bit(k) \in {0, 1}
        BY DoubledFacts DEF Bool
    <2>2. Doubled(w) \in Int
        <3> HIDE DEF bit
        <3> QED BY <2>1, WordInt
    <2>3. Doubled(w) + 0 = Doubled(w)
        BY <2>2
    <2> HIDE DEF bit
    <2> QED BY <2>1, <2>3
<1>2. \E f : ShiftsHigh(bLo, f)
    <2> DEFINE step == [x \in (0 .. Width) \X Word |-> Doubled(x[2]) + bit(x[1])]
    <2>1. step \in [(0 .. Width) \X Word -> Word] /\ Width \in Nat /\ 0 \in Word
        <3> HIDE DEF bit
        <3> QED BY <1>1, WidthType, WordFacts
    <2>2. PICK f : Recurs(Width, Word, 0, step, f)
        <3> HIDE DEF step
        <3> QED BY <2>1, Recursion
    <2>3. ASSUME NEW k \in 0 .. Width
          PROVE  f[k] = IF k = 0 THEN 0 ELSE Doubled(f[k - 1]) + bit(k - 1)
        <3>1. CASE k = 0
            BY <2>2, <3>1 DEF Recurs
        <3>2. CASE k # 0
            <4> k \in 1 .. Width /\ k - 1 \in 0 .. Width
                BY <3>2, WidthType
            <4>1. f[k - 1] \in Word /\ f[k] = step[<<k - 1, f[k - 1]>>]
                BY <2>2 DEF Recurs
            <4>2. step[<<k - 1, f[k - 1]>>] = Doubled(f[k - 1]) + bit(k - 1)
                <5> HIDE DEF bit
                <5> QED BY <4>1
            <4> HIDE DEF step, bit
            <4> QED BY <3>2, <4>1, <4>2
        <3> HIDE DEF bit
        <3> QED BY <3>1, <3>2
    <2>4. f = [k \in 0 .. Width |-> IF k = 0 THEN 0 ELSE Doubled(f[k - 1]) + bit(k - 1)]
        <3>1. f = [k \in 0 .. Width |-> f[k]]
            BY <2>2 DEF Recurs
        <3> HIDE DEF bit
        <3> QED BY <2>3, <3>1
    <2> QED BY <2>4 DEF ShiftsHigh
<1>3. ASSUME NEW f, ShiftsHigh(bLo, f) PROVE \A k \in 0 .. Width : f[k] \in Word
    <2> DEFINE S == {k \in 0 .. Width : f[k] \in Word}
    <2>1. 0 \in S
        BY <1>3, WidthType, WordFacts DEF ShiftsHigh
    <2>2. ASSUME NEW k \in 0 .. Width - 1, k \in S PROVE k + 1 \in S
        <3>1. k + 1 \in 0 .. Width /\ k + 1 # 0 /\ (k + 1) - 1 = k
            BY WidthType
        <3>2. f[k + 1] = Doubled(f[k]) + bit(k)
            BY <1>3, <3>1 DEF ShiftsHigh
        <3> HIDE DEF bit
        <3> QED BY <1>1, <2>2, <3>1, <3>2
    <2>3. 0 .. Width \subseteq S
        <3> HIDE DEF S
        <3> QED BY <2>1, <2>2, Induction, WidthType
    <2> QED BY <2>3
<1> QED BY <1>2, <1>3

LEMMA SumsLowType ==
    ASSUME NEW a, NEW bLo, \A k \in 0 .. Width : bLo[k] \in Word
    PROVE  \E f : SumsLow(a, bLo, f)
<1> DEFINE added(k, w) == IF k \in Bits(a) THEN Sum(w, bLo[k]) ELSE w
           step == [x \in (0 .. Width) \X Word |-> added(x[1], x[2])]
<1>1. ASSUME NEW k \in 0 .. Width, NEW w \in Word PROVE added(k, w) \in Word
    BY SumFacts
<1>2. step \in [(0 .. Width) \X Word -> Word] /\ Width \in Nat /\ 0 \in Word
    <2> HIDE DEF added
    <2> QED BY <1>1, WidthType, WordFacts
<1>3. PICK f : Recurs(Width, Word, 0, step, f)
    <2> HIDE DEF step
    <2> QED BY <1>2, Recursion
<1>4. ASSUME NEW k \in 0 .. Width
      PROVE  f[k] = IF k = 0 THEN 0 ELSE added(k - 1, f[k - 1])
    <2>1. CASE k = 0
        BY <1>3, <2>1 DEF Recurs
    <2>2. CASE k # 0
        <3> k \in 1 .. Width /\ k - 1 \in 0 .. Width
            BY <2>2, WidthType
        <3>1. f[k - 1] \in Word /\ f[k] = step[<<k - 1, f[k - 1]>>]
            BY <1>3 DEF Recurs
        <3>2. step[<<k - 1, f[k - 1]>>] = added(k - 1, f[k - 1])
            <4> HIDE DEF added
            <4> QED BY <3>1
        <3> HIDE DEF step, added
        <3> QED BY <2>2, <3>1, <3>2
    <2> HIDE DEF added
    <2> QED BY <2>1, <2>2
<1>5. f = [k \in 0 .. Width |-> IF k = 0 THEN 0 ELSE added(k - 1, f[k - 1])]
    <2>1. f = [k \in 0 .. Width |-> f[k]]
        BY <1>3 DEF Recurs
    <2> HIDE DEF added
    <2> QED BY <1>4, <2>1
<1> QED BY <1>5 DEF SumsLow

LEMMA SumsHighType ==
    ASSUME NEW a, NEW bLo, NEW bHi, NEW lo, \A k \in 0 .. Width : bHi[k] \in Word
    PROVE  \E f : SumsHigh(a, bLo, bHi, lo, f)
<1> DEFINE carry(k) == Bool(lo[k] < bLo[k - 1])
           added(k, w) ==
               IF k - 1 \in Bits(a) THEN Sum(Sum(w, carry(k)), bHi[k - 1]) ELSE w
           step == [x \in (0 .. Width) \X Word |-> added(x[1] + 1, x[2])]
<1>1. ASSUME NEW k \in 0 .. Width, NEW w \in Word PROVE added(k + 1, w) \in Word
    <2>1. carry(k + 1) \in Word
        BY WordFacts DEF Bool
    <2> HIDE DEF carry
    <2>2. Sum(w, carry(k + 1)) \in Word
        BY <2>1, SumFacts
    <2>3. (k + 1) - 1 = k /\ bHi[k] \in Word
        OBVIOUS
    <2> QED BY <2>2, <2>3, SumFacts
<1>2. step \in [(0 .. Width) \X Word -> Word] /\ Width \in Nat /\ 0 \in Word
    <2> HIDE DEF added
    <2> QED BY <1>1, WidthType, WordFacts
<1>3. PICK f : Recurs(Width, Word, 0, step, f)
    <2> HIDE DEF step
    <2> QED BY <1>2, Recursion
<1>4. ASSUME NEW k \in 0 .. Width
      PROVE  f[k] = IF k = 0 THEN 0 ELSE added(k, f[k - 1])
    <2>1. CASE k = 0
        BY <1>3, <2>1 DEF Recurs
    <2>2. CASE k # 0
        <3> k \in 1 .. Width /\ k - 1 \in 0 .. Width /\ (k - 1) + 1 = k
            BY <2>2, WidthType
        <3>1. f[k - 1] \in Word /\ f[k] = step[<<k - 1, f[k - 1]>>]
            BY <1>3 DEF Recurs
        <3>2. step[<<k - 1, f[k - 1]>>] = added(k, f[k - 1])
            <4> HIDE DEF added
            <4> QED BY <3>1
        <3> HIDE DEF step, added
        <3> QED BY <2>2, <3>1, <3>2
    <2> HIDE DEF added
    <2> QED BY <2>1, <2>2
<1>5. f = [k \in 0 .. Width |-> IF k = 0 THEN 0 ELSE added(k, f[k - 1])]
    <2>1. f = [k \in 0 .. Width |-> f[k]]
        BY <1>3 DEF Recurs
    <2> HIDE DEF added
    <2> QED BY <1>4, <2>1
<1> QED BY <1>5 DEF SumsHigh

LEMMA LoopWords ==
    ASSUME NEW a \in Word, NEW b \in Word
    PROVE  \E bLo, bHi, lo, hi :
              /\ ShiftsLow(b, bLo) /\ ShiftsHigh(bLo, bHi)
              /\ SumsLow(a, bLo, lo) /\ SumsHigh(a, bLo, bHi, lo, hi)
              /\ Accumulate(a, b) = [hi |-> hi[Width], lo |-> lo[Width]]
<1> DEFINE bLo == CHOOSE f : ShiftsLow(b, f)
           bHi == CHOOSE f : ShiftsHigh(bLo, f)
           lo == CHOOSE f : SumsLow(a, bLo, f)
           hi == CHOOSE f : SumsHigh(a, bLo, bHi, lo, f)
<1>1. Accumulate(a, b) = [hi |-> hi[Width], lo |-> lo[Width]]
    BY DEF Accumulate, ShiftsLow, ShiftsHigh, SumsLow, SumsHigh
<1>2. ShiftsLow(b, bLo) /\ \A k \in 0 .. Width : bLo[k] \in Word
    <2>1. ShiftsLow(b, bLo)
        BY ShiftsLowType
    <2> HIDE DEF bLo
    <2> QED BY <2>1, ShiftsLowType
<1>3. ShiftsHigh(bLo, bHi) /\ \A k \in 0 .. Width : bHi[k] \in Word
    <2> HIDE DEF bLo
    <2>1. ShiftsHigh(bLo, bHi)
        BY ShiftsHighType
    <2> HIDE DEF bHi
    <2> QED BY <2>1, ShiftsHighType
<1>4. SumsLow(a, bLo, lo)
    <2> HIDE DEF bLo
    <2> QED BY <1>2, SumsLowType
<1>5. SumsHigh(a, bLo, bHi, lo, hi)
    <2> HIDE DEF bLo, bHi, lo
    <2> QED BY <1>3, SumsHighType
<1> HIDE DEF bLo, bHi, lo, hi
<1> QED BY <1>1, <1>2, <1>3, <1>4, <1>5

(* After k rounds bHi and bLo hold b * 2^k, and hi and lo the sum of the   *)
(* products of b with the bits below k; neither high word has reached 2^k, *)
(* so no carry leaves it.                                                  *)
LEMMA AccumulateExact ==
    ASSUME NEW a \in Word, NEW b \in Word
    PROVE  /\ Accumulate(a, b).hi \in Word /\ Accumulate(a, b).lo \in Word
           /\ Accumulate(a, b).hi * WordSize + Accumulate(a, b).lo = a * b
<1> DEFINE term == [k \in 0 .. Width - 1 |-> IF k \in Bits(a) THEN b * Pow2[k] ELSE 0]
           W == WordSize
<1>1. PICK sum : /\ sum = [k \in 0 .. Width |-> IF k = 0 THEN 0 ELSE sum[k - 1] + term[k - 1]]
                 /\ Total(term, Width) = sum[Width]
    <2> HIDE DEF term
    <2> QED BY TotalRecursion, WidthType
<1>2. PICK bLo, bHi, lo, hi :
              /\ ShiftsLow(b, bLo) /\ ShiftsHigh(bLo, bHi)
              /\ SumsLow(a, bLo, lo) /\ SumsHigh(a, bLo, bHi, lo, hi)
              /\ Accumulate(a, b) = [hi |-> hi[Width], lo |-> lo[Width]]
    BY LoopWords
<1> DEFINE Rounds(k) ==
              /\ bLo[k] \in Word /\ bHi[k] \in Word /\ lo[k] \in Word /\ hi[k] \in Word
              /\ bHi[k] < Pow2[k] /\ hi[k] < Pow2[k]
              /\ bHi[k] * W + bLo[k] = b * Pow2[k]
              /\ sum[k] \in Int /\ hi[k] * W + lo[k] = sum[k]
           S == {k \in 0 .. Width : Rounds(k)}
<1>3. 0 \in S
    <2>1. bLo[0] = b /\ bHi[0] = 0 /\ lo[0] = 0 /\ hi[0] = 0 /\ sum[0] = 0
        BY <1>1, <1>2, WidthType DEF ShiftsLow, ShiftsHigh, SumsLow, SumsHigh
    <2>2. b \in Int /\ W \in Int /\ 0 \in Word /\ 0 \in 0 .. Width
        BY WordFacts, WidthType
    <2>3. 0 * W + b = b * 1 /\ 0 * W + 0 = 0
        BY <2>2
    <2>4. bLo[0] \in Word /\ 0 < Pow2[0] /\ sum[0] \in Int
        BY <2>1, PowerZero
    <2>5. bHi[0] * W + bLo[0] = b * Pow2[0] /\ hi[0] * W + lo[0] = sum[0]
        BY <2>1, <2>3, PowerZero
    <2> HIDE DEF W
    <2> QED BY <2>1, <2>2, <2>4, <2>5
<1>4. ASSUME NEW k \in 0 .. Width - 1, k \in S PROVE k + 1 \in S
    <2> DEFINE bl == bLo[k]
               bh == bHi[k]
               l == lo[k]
               h == hi[k]
               P == Pow2[k]
               bit == Bool(Negative(bl))
               c == Bool(lo[k + 1] < bl)
    <2>1. k + 1 \in 0 .. Width /\ k \in 0 .. Width /\ k + 1 # 0 /\ (k + 1) - 1 = k
        BY WidthType
    <2>2. bLo[k + 1] = Doubled(bl) /\ bHi[k + 1] = Doubled(bh) + bit
        BY <1>2, <2>1 DEF ShiftsLow, ShiftsHigh
    <2>3. lo[k + 1] = IF k \in Bits(a) THEN Sum(l, bl) ELSE l
        BY <1>2, <2>1 DEF SumsLow
    <2>4. hi[k + 1] = IF k \in Bits(a) THEN Sum(Sum(h, c), bh) ELSE h
        BY <1>2, <2>1 DEF SumsHigh
    <2>5. sum[k + 1] = sum[k] + IF k \in Bits(a) THEN b * P ELSE 0
        <3>1. sum[k + 1] = sum[k] + term[k]
            <4> HIDE DEF term
            <4> QED BY <1>1, <2>1
        <3> QED BY <3>1
    <2>6. P \in Nat \ {0} /\ P <= SignBit /\ Pow2[k + 1] = 2 * P
        <3>1. k \in 0 .. Width /\ Width - 1 \in 0 .. Width /\ k <= Width - 1
            BY WidthType
        <3> QED BY <3>1, PowerType, PowerGrows, PowerNext DEF SignBit
    <2>7. Rounds(k)
        BY <1>4
    <2>8. bl \in 0 .. W - 1 /\ bh \in 0 .. W - 1 /\ l \in 0 .. W - 1 /\ h \in 0 .. W - 1
          /\ W = 2 * SignBit /\ SignBit \in Nat \ {0} /\ b \in Int
        BY <2>7, WordFacts DEF Word
    <2>9. bh < P /\ h < P /\ bh * W + bl = b * P /\ sum[k] \in Int /\ h * W + l = sum[k]
        BY <2>7
    <2> HIDE DEF bl, bh, l, h, P, W
    <2>10. bit = (IF bl >= SignBit THEN 1 ELSE 0) /\ bit \in {0, 1}
        BY DEF Negative, Bool
    <2>11. c \in {0, 1} /\ (c = 1 <=> lo[k + 1] < bl)
        BY DEF Bool
    <2> HIDE DEF bit, c
    <2>12. /\ bLo[k + 1] \in 0 .. W - 1 /\ bHi[k + 1] \in 0 .. W - 1 /\ bHi[k + 1] < 2 * P
           /\ bLo[k + 1] = 2 * bl - bit * W /\ bHi[k + 1] = 2 * bh + bit
        <3>1. Doubled(bl) = IF bl < SignBit THEN 2 * bl ELSE 2 * bl - W
            BY <2>8, DoubledFacts DEF Word, W
        <3>2. Doubled(bh) = 2 * bh
            <4>1. bh < SignBit /\ bh \in Word
                BY <2>6, <2>8, <2>9 DEF Word, W
            <4> QED BY <4>1, DoubledFacts
        <3>3. 0 * W = 0 /\ 1 * W = W
            BY <2>8
        <3> QED BY <2>2, <2>6, <2>8, <2>9, <2>10, <3>1, <3>2, <3>3
    <2>13. bHi[k + 1] * W + bLo[k + 1] = b * (2 * P)
        <3>1. (2 * bh + bit) * W + (2 * bl - bit * W) = 2 * (bh * W + bl)
            <4> DEFINE x == bh * W
                       y == bit * W
            <4>1. (2 * bh + bit) * W = 2 * x + y /\ x \in Int /\ y \in Int
                BY <2>8, <2>10
            <4> HIDE DEF x, y
            <4>2. (2 * x + y) + (2 * bl - y) = 2 * (x + bl)
                BY <2>8, <4>1
            <4> QED BY <4>1, <4>2 DEF x, y
        <3>2. b * (2 * P) = 2 * (b * P)
            BY <2>6, <2>8
        <3> QED BY <2>9, <2>12, <3>1, <3>2
    <2>14. CASE k \in Bits(a)
        <3>1. lo[k + 1] = IF l + bl < W THEN l + bl ELSE l + bl - W
            BY <2>3, <2>8, <2>14, SumFacts DEF Word, W
        <3>2. lo[k + 1] \in 0 .. W - 1 /\ c = IF l + bl < W THEN 0 ELSE 1
            BY <2>8, <2>11, <3>1
        <3>3. Sum(h, c) = h + c /\ h + c \in 0 .. W - 1
            <4>1. h \in Word /\ c \in Word /\ h + c < W
                BY <2>6, <2>8, <2>9, <2>11, WordFacts DEF Word, W
            <4>2. Sum(h, c) = h + c
                BY <4>1, SumFacts DEF W
            <4> QED BY <2>8, <2>11, <4>1, <4>2
        <3>4. Sum(h + c, bh) = h + c + bh
            <4>1. h + c \in Word /\ bh \in Word /\ h + c + bh < W
                BY <2>6, <2>8, <2>9, <2>11, <3>3 DEF Word, W
            <4> QED BY <4>1, SumFacts DEF W
        <3>5. hi[k + 1] = h + c + bh /\ hi[k + 1] < 2 * P /\ hi[k + 1] \in 0 .. W - 1
            BY <2>4, <2>6, <2>8, <2>9, <2>11, <2>14, <3>3, <3>4
        <3>6. sum[k + 1] = sum[k] + b * P
            BY <2>5, <2>14
        <3>7. hi[k + 1] * W + lo[k + 1] = sum[k + 1] /\ sum[k + 1] \in Int
            <4> DEFINE x == h * W
                       y == bh * W
                       z == c * W
                       v == b * P
            <4>1. (h + c + bh) * W = x + z + y /\ x \in Int /\ y \in Int /\ z \in Int
                BY <2>8, <2>11
            <4>2. z = IF l + bl < W THEN 0 ELSE W
                <5>1. 0 * W = 0 /\ 1 * W = W
                    BY <2>8
                <5> QED BY <3>2, <5>1
            <4>3. y + bl = v /\ x + l = sum[k] /\ v \in Int
                BY <2>6, <2>8, <2>9
            <4>4. hi[k + 1] * W = x + z + y /\ sum[k + 1] = sum[k] + v
                BY <3>5, <3>6, <4>1
            <4> HIDE DEF x, y, z, v
            <4>5. lo[k + 1] = l + bl - z
                BY <2>8, <3>1, <4>2
            <4>6. (x + z + y) + (l + bl - z) = (x + l) + (y + bl)
                BY <2>8, <4>1
            <4>7. hi[k + 1] * W + lo[k + 1] = sum[k] + v
                BY <4>3, <4>4, <4>5, <4>6
            <4>8. sum[k] + v \in Int
                BY <2>9, <4>3
            <4> QED BY <4>4, <4>7, <4>8
        <3> QED BY <2>1, <2>6, <2>12, <2>13, <3>2, <3>5, <3>7 DEF Word, W
    <2>15. CASE k \notin Bits(a)
        <3>1. lo[k + 1] = l /\ hi[k + 1] = h /\ sum[k + 1] = sum[k]
            BY <2>3, <2>4, <2>5, <2>9, <2>15
        <3>2. h < 2 * P /\ l \in Word /\ h \in Word
            BY <2>6, <2>8, <2>9 DEF Word, W
        <3> QED BY <2>1, <2>6, <2>8, <2>9, <2>12, <2>13, <3>1, <3>2 DEF Word, W
    <2> QED BY <2>14, <2>15
<1>5. Width \in S
    <2> HIDE DEF S
    <2> QED BY <1>3, <1>4, Induction, WidthType
<1>6. sum[Width] = a * b
    <2>1. b \in Nat
        BY WordFacts
    <2> QED BY <1>1, <2>1, BitsMultiply
<1> QED BY <1>2, <1>5, <1>6

LEMMA MinusFacts ==
    ASSUME NEW w \in Word
    PROVE  Minus(w) \in Word /\ Minus(w) = IF w = 0 THEN 0 ELSE WordSize - w
<1>1. w \in 0 .. WordSize - 1 /\ WordSize \in Nat \ {0}
    BY WordFacts DEF Word
<1>2. WordSize - w \in -WordSize .. 2 * WordSize - 1 /\ WordSize - w \in 1 .. WordSize
    BY <1>1
<1> DEFINE x == WordSize - w
<1>3. x % WordSize = IF x < 0 THEN x + WordSize ELSE IF x < WordSize THEN x ELSE x - WordSize
    BY <1>1, <1>2, Wraps
<1> HIDE DEF x
<1>4. x % WordSize = IF w = 0 THEN 0 ELSE x
    <2>1. x = WordSize - w
        BY DEF x
    <2> DEFINE y == x % WordSize
    <2>2. y = IF x < 0 THEN x + WordSize ELSE IF x < WordSize THEN x ELSE x - WordSize
        BY <1>3
    <2> HIDE DEF y
    <2>3. y = IF w = 0 THEN 0 ELSE x
        BY <1>1, <2>1, <2>2
    <2> QED BY <2>3 DEF y
<1>5. Minus(w) = IF w = 0 THEN 0 ELSE WordSize - w
    BY <1>4 DEF Minus, x
<1> QED BY <1>1, <1>2, <1>5 DEF Word

(* The absolute value that Mult takes of an operand. *)
LEMMA OperandMagnitude ==
    ASSUME NEW a \in Word
    PROVE  LET m == IF Negative(a) THEN Minus(a) ELSE a
           IN /\ m \in Word /\ m <= SignBit /\ (m = 0 <=> a = 0)
              /\ Signed(a) = IF Negative(a) THEN -m ELSE m
<1>1. a \in 0 .. WordSize - 1 /\ WordSize = 2 * SignBit /\ SignBit \in Nat \ {0}
    BY WordFacts DEF Word
<1>2. CASE Negative(a)
    <2>1. a >= SignBit /\ Minus(a) = WordSize - a /\ Minus(a) \in Word
        BY <1>1, <1>2, MinusFacts DEF Negative
    <2> QED BY <1>1, <1>2, <2>1 DEF Signed
<1>3. CASE ~Negative(a)
    BY <1>1, <1>3 DEF Negative, Signed
<1> QED BY <1>2, <1>3

LEMMA MultUnsigned ==
    ASSUME NEW a \in Word, NEW b \in Word
    PROVE  /\ Mult(a, b, FALSE).hi \in Word /\ Mult(a, b, FALSE).lo \in Word
           /\ Mult(a, b, FALSE).hi * WordSize + Mult(a, b, FALSE).lo = a * b
<1> DEFINE p == Accumulate(a, b)
<1>1. CASE a = 0 \/ b = 0
    <2>1. Mult(a, b, FALSE).hi = 0 /\ Mult(a, b, FALSE).lo = 0
        BY <1>1 DEF Mult
    <2>2. a * b = 0 /\ 0 * WordSize + 0 = 0
        BY <1>1, WordFacts
    <2> QED BY <2>1, <2>2, WordFacts
<1>2. CASE ~(a = 0 \/ b = 0)
    <2>1. Mult(a, b, FALSE).hi = p.hi /\ Mult(a, b, FALSE).lo = p.lo
        <3> HIDE DEF p
        <3> QED BY <1>2 DEF Mult, p
    <2> QED BY <2>1, AccumulateExact
<1> QED BY <1>1, <1>2

LEMMA MultSigned ==
    ASSUME NEW a \in Word, NEW b \in Word
    PROVE  /\ Mult(a, b, TRUE).hi \in Word /\ Mult(a, b, TRUE).lo \in Word
           /\ Signed(Mult(a, b, TRUE).hi) * WordSize + Mult(a, b, TRUE).lo = Signed(a) * Signed(b)
<1> DEFINE m == IF Negative(a) THEN Minus(a) ELSE a
           n == IF Negative(b) THEN Minus(b) ELSE b
           hi == Accumulate(m, n).hi
           lo == Accumulate(m, n).lo
           W == WordSize
           pair == Mult(a, b, TRUE)
<1>1. W = 2 * SignBit /\ SignBit \in Nat \ {0}
    BY WordFacts
<1>2. /\ m \in Word /\ m <= SignBit /\ (m = 0 <=> a = 0)
      /\ Signed(a) = IF Negative(a) THEN -m ELSE m
    BY OperandMagnitude
<1>3. /\ n \in Word /\ n <= SignBit /\ (n = 0 <=> b = 0)
      /\ Signed(b) = IF Negative(b) THEN -n ELSE n
    BY OperandMagnitude
<1>4. hi \in 0 .. W - 1 /\ lo \in 0 .. W - 1 /\ hi * W + lo = m * n
    <2> HIDE DEF m, n
    <2> QED BY <1>2, <1>3, AccumulateExact DEF Word
<1>5. CASE a = 0 \/ b = 0
    <2>1. pair.hi = 0 /\ pair.lo = 0
        BY <1>5 DEF Mult
    <2>2. Signed(0) = 0
        BY <1>1 DEF Signed, Negative
    <2>3. Signed(a) = 0 \/ Signed(b) = 0
        BY <1>5, <2>2
    <2>4. Signed(a) * Signed(b) = 0
        BY <2>3, <1>1, SignedType
    <2>5. 0 * W + 0 = 0
        BY <1>1
    <2> HIDE DEF W, pair
    <2>6. Signed(pair.hi) * W + pair.lo = 0
        BY <2>1, <2>2, <2>5
    <2>7. pair.hi \in Word /\ pair.lo \in Word
        BY <2>1, WordFacts
    <2> QED BY <2>4, <2>6, <2>7 DEF W, pair
<1>6. CASE ~(a = 0 \/ b = 0)
    <2>1. pair = IF Negative(a) # Negative(b)
                 THEN [hi |-> Sum(W - 1 - hi, Bool(lo = 0)), lo |-> Minus(lo)]
                 ELSE [hi |-> hi, lo |-> lo]
        BY <1>6 DEF Mult
    <2>2. m \in 1 .. SignBit /\ n \in 1 .. SignBit
        <3> HIDE DEF m, n
        <3> QED BY <1>1, <1>2, <1>3, <1>6 DEF Word
    <2> HIDE DEF m, n
    <2> DEFINE x == m * n
               hw == hi * W
    <2>3. x \in Nat /\ x >= 1 /\ x <= SignBit * SignBit
        <3>1. m * n >= 1 * n /\ m * n <= SignBit * n
            BY <1>1, <2>2
        <3>2. SignBit * n <= SignBit * SignBit
            BY <1>1, <2>2
        <3> QED BY <1>1, <2>2, <3>1, <3>2
    <2> HIDE DEF hi, lo, W, pair
    <2>4. 2 * hi <= SignBit
        <3> SUFFICES ASSUME 2 * hi > SignBit PROVE FALSE
            BY <1>1, <1>4
        <3>1. (2 * hi) * SignBit >= (SignBit + 1) * SignBit
            BY <1>1, <1>4
        <3>2. hi * W = (2 * hi) * SignBit /\ (SignBit + 1) * SignBit = SignBit * SignBit + SignBit
            BY <1>1, <1>4
        <3> DEFINE ss == SignBit * SignBit
        <3>3. hw >= ss + SignBit /\ hw \in Int /\ ss \in Int /\ x = hw + lo /\ x <= ss
            BY <1>1, <1>4, <2>3, <3>1, <3>2
        <3> HIDE DEF ss, hw, x
        <3> QED BY <1>1, <1>4, <3>3
    <2>5. CASE Negative(a) = Negative(b)
        <3>1. pair.hi = hi /\ pair.lo = lo
            BY <2>1, <2>5
        <3>2. Signed(hi) = hi
            BY <1>1, <1>4, <2>4 DEF Signed, Negative
        <3>3. Signed(a) * Signed(b) = m * n
            <4>1. (-m) * (-n) = m * n
                BY <1>1, <2>2
            <4> QED BY <1>2, <1>3, <2>5, <4>1
        <3>4. hi \in Word /\ lo \in Word
            BY <1>4 DEF Word, W
        <3> QED BY <1>4, <3>1, <3>2, <3>3, <3>4 DEF W, pair
    <2>6. CASE Negative(a) # Negative(b)
        <3>1. Signed(a) * Signed(b) = -(m * n)
            <4>1. (-m) * n = -(m * n) /\ m * (-n) = -(m * n)
                BY <1>1, <2>2
            <4> QED BY <1>2, <1>3, <2>6, <4>1 DEF Negative
        <3>2. pair.hi = Sum(W - 1 - hi, Bool(lo = 0)) /\ pair.lo = Minus(lo)
            BY <2>1, <2>6
        <3>3. lo \in Word
            BY <1>4 DEF Word, W
        <3>4. pair.lo = (IF lo = 0 THEN 0 ELSE W - lo) /\ pair.lo \in Word
            BY <3>2, <3>3, MinusFacts DEF W
        <3> DEFINE y == W - 1 - hi + Bool(lo = 0)
                   h == IF lo = 0 THEN W - hi ELSE W - 1 - hi
        <3>5. y = h /\ h \in SignBit .. W - 1 /\ h \in Nat
            <4>1. CASE lo = 0
                <5>1. hi # 0
                    <6>1. CASE hi = 0
                        <7>1. hi * W = 0
                            BY <1>1, <6>1
                        <7> QED BY <1>4, <2>3, <4>1, <7>1
                    <6> QED BY <6>1
                <5> QED BY <1>1, <1>4, <2>4, <4>1, <5>1 DEF Bool
            <4>2. CASE lo # 0
                BY <1>1, <1>4, <2>4, <4>2 DEF Bool
            <4> QED BY <4>1, <4>2
        <3> HIDE DEF y, h
        <3>6. pair.hi = h
            <4>1. h \in 0 .. W - 1 /\ W \in Nat \ {0}
                BY <1>1, <3>5
            <4>2. h % W = h
                BY <4>1, SmallRemainder
            <4>3. pair.hi = y % W
                BY <3>2 DEF Sum, y, W
            <4> QED BY <3>5, <4>2, <4>3
        <3>7. Signed(pair.hi) = h - W /\ pair.hi \in Word
            BY <1>1, <3>5, <3>6 DEF Signed, Negative, Word, W
        <3>8. (h - W) * W + pair.lo = -(hi * W + lo)
            <4>1. CASE lo = 0
                <5>1. h - W = -hi
                    BY <1>1, <1>4, <4>1 DEF h
                <5>2. (-hi) * W = -(hi * W)
                    BY <1>1, <1>4
                <5> QED BY <1>1, <1>4, <3>4, <4>1, <5>1, <5>2
            <4>2. CASE lo # 0
                <5>1. h - W = -1 - hi
                    BY <1>1, <1>4, <4>2 DEF h
                <5>2. (-1 - hi) * W = -(hi * W) - W
                    BY <1>1, <1>4
                <5>3. hw \in Int /\ hw = hi * W
                    BY <1>1, <1>4
                <5> HIDE DEF hw
                <5>4. -hw - W + (W - lo) = -(hw + lo)
                    BY <1>1, <1>4, <5>3
                <5> QED BY <3>4, <4>2, <5>1, <5>2, <5>3, <5>4
            <4> QED BY <4>1, <4>2
        <3> QED BY <1>4, <3>1, <3>4, <3>7, <3>8 DEF W, pair
    <2> QED BY <2>5, <2>6
<1> QED BY <1>5, <1>6

-----------------------------------------------------------------------------
(* Division, rounded towards zero. *)
LEMMA QuotientFacts ==
    ASSUME NEW x \in Int, NEW y \in Int, y # 0
    PROVE  /\ Quotient(x, y) \in Int /\ Remainder(x, y) \in Int
           /\ Quotient(x, y) * y + Remainder(x, y) = x
           /\ Magnitude(Quotient(x, y)) <= Magnitude(x)
           /\ (Quotient(x, y) = Magnitude(x) /\ x < 0) => y = -1
           /\ Magnitude(Remainder(x, y)) < Magnitude(y)
           /\ Remainder(x, y) # 0 => (Remainder(x, y) < 0 <=> x < 0)
<1> DEFINE m == Magnitude(x)
           n == Magnitude(y)
           k == m \div n
           r == m % n
           kn == k * n
<1>1. m \in Nat /\ n \in Nat \ {0} /\ m = (IF x < 0 THEN -x ELSE x) /\ n = IF y < 0 THEN -y ELSE y
    BY DEF Magnitude
<1>2. k \in Nat /\ r \in 0 .. n - 1 /\ m = kn + r
    <2>1. m \in Int /\ n \in Nat \ {0}
        BY <1>1
    <2> HIDE DEF m, n
    <2>2. m \div n \in Nat /\ m % n \in 0 .. n - 1
        BY <1>1, <2>1, Division
    <2>3. m = (m \div n) * n + (m % n)
        BY <2>1, Division
    <2> QED BY <2>2, <2>3
<1>3. Quotient(x, y) = IF (x < 0) = (y < 0) THEN k ELSE -k
    BY DEF Quotient
<1>4. Remainder(x, y) = x - y * Quotient(x, y)
    BY DEF Remainder
<1> DEFINE q == Quotient(x, y)
           s == Remainder(x, y)
<1> HIDE DEF m, n, k, r, q, s
<1>5. q \in Int /\ y * q = IF x < 0 THEN -kn ELSE kn
    <2>1. y * q = IF (y < 0) = (q = k) THEN -kn ELSE kn
        <3>1. n * k = kn /\ (-n) * k = -kn /\ n * (-k) = -kn /\ (-n) * (-k) = kn
            BY <1>1, <1>2
        <3>2. q = k \/ q = -k
            BY <1>3 DEF q
        <3>3. CASE k = 0
            <4>1. q = 0 /\ y * 0 = 0 /\ 0 * n = 0
                BY <1>1, <1>2, <3>2, <3>3
            <4> QED BY <3>3, <4>1
        <3>4. CASE k # 0
            BY <1>1, <1>2, <3>1, <3>2, <3>4
        <3> QED BY <3>3, <3>4
    <2>2. q \in Int
        BY <1>2, <1>3 DEF q
    <2>3. CASE k = 0
        <3>1. q = 0
            <4>1. q = k \/ q = -k
                BY <1>3 DEF q
            <4> QED BY <1>2, <2>3, <4>1
        <3>2. y * 0 = 0 /\ 0 * n = 0
            BY <1>1
        <3> QED BY <2>2, <2>3, <3>1, <3>2
    <2>4. CASE k # 0
        <3>1. (q = k) <=> ((x < 0) = (y < 0))
            BY <1>2, <1>3, <2>4 DEF q
        <3> QED BY <2>1, <2>2, <3>1
    <2> QED BY <2>3, <2>4
<1>6. kn \in Int
    BY <1>1, <1>2
<1>7. q * y = y * q
    BY <1>5
<1> DEFINE yq == y * q
<1>8. s = x - yq /\ q * y = yq /\ yq = (IF x < 0 THEN -kn ELSE kn)
    BY <1>4, <1>5, <1>7 DEF q, s
<1> HIDE DEF kn, yq
<1>9. s = IF x < 0 THEN -r ELSE r
    BY <1>1, <1>2, <1>6, <1>8
<1>10. k <= m /\ (k = m /\ m # 0 => n = 1)
    <2>1. k * n >= k * 1
        BY <1>1, <1>2
    <2>2. ASSUME k = m, m # 0 PROVE n = 1
        <3> SUFFICES ASSUME n >= 2 PROVE FALSE
            BY <1>1
        <3>1. k * n >= k * 2
            BY <1>1, <1>2
        <3> QED BY <1>1, <1>2, <2>2, <3>1 DEF kn
    <2> QED BY <1>1, <1>2, <2>1, <2>2 DEF kn
<1>11. s \in Int /\ q * y + s = x
    BY <1>1, <1>2, <1>6, <1>8
<1>12. Magnitude(q) <= m
    BY <1>1, <1>2, <1>3, <1>10 DEF Magnitude, q
<1>13. (q = m /\ x < 0) => y = -1
    BY <1>1, <1>2, <1>3, <1>10 DEF q
<1>14. Magnitude(s) < n /\ (s # 0 => (s < 0 <=> x < 0))
    BY <1>1, <1>2, <1>9 DEF Magnitude
<1> QED BY <1>5, <1>11, <1>12, <1>13, <1>14 DEF q, s, m, n

LEMMA DividedExact ==
    ASSUME NEW a \in Word, NEW b \in Word, b # 0, ~(a = SignBit /\ b = WordSize - 1)
    PROVE  LET d == Divided(a, b, TRUE)
               quotient == Signed(d.lo)
               rest == Signed(d.hi)
           IN /\ quotient * Signed(b) + rest = Signed(a)
              /\ Magnitude(rest) < Magnitude(Signed(b))
              /\ rest # 0 => (rest < 0 <=> Signed(a) < 0)
<1> DEFINE x == Signed(a)
           y == Signed(b)
           q == Quotient(x, y)
           r == Remainder(x, y)
<1>1. /\ x \in -SignBit .. SignBit - 1 /\ y \in -SignBit .. SignBit - 1
      /\ WordSize = 2 * SignBit /\ SignBit \in Nat \ {0}
    BY SignedType, WordFacts
<1>2. y # 0 /\ ~(x = -SignBit /\ y = -1)
    BY <1>1, WordFacts DEF Signed, Negative, Word
<1> HIDE DEF x, y
<1>3. /\ q \in Int /\ r \in Int /\ q * y + r = x
      /\ Magnitude(q) <= Magnitude(x)
      /\ (q = Magnitude(x) /\ x < 0) => y = -1
      /\ Magnitude(r) < Magnitude(y)
      /\ r # 0 => (r < 0 <=> x < 0)
    <2>1. x \in Int /\ y \in Int
        BY <1>1
    <2> QED BY <1>2, <2>1, QuotientFacts
<1> HIDE DEF q, r
<1>4. q \in -SignBit .. SignBit - 1 /\ r \in -SignBit .. SignBit - 1
    BY <1>1, <1>2, <1>3 DEF Magnitude
<1>5. Signed(q % WordSize) = q /\ Signed(r % WordSize) = r
    BY <1>4, SignedWraps
<1>6. Divided(a, b, TRUE).lo = q % WordSize /\ Divided(a, b, TRUE).hi = r % WordSize
    BY DEF Divided, q, r, x, y
<1> QED BY <1>3, <1>5, <1>6 DEF x, y

LEMMA DividedType ==
    ASSUME NEW a \in Word, NEW b \in Word, NEW signedArith \in BOOLEAN
    PROVE  Divided(a, b, signedArith).hi \in Word /\ Divided(a, b, signedArith).lo \in Word
<1> DEFINE d == Divided(a, b, signedArith)
<1>1. a \in 0 .. WordSize - 1 /\ b \in 0 .. WordSize - 1 /\ WordSize \in Nat \ {0}
    BY WordFacts DEF Word
<1>2. CASE b = 0
    BY <1>2, WordFacts DEF Divided
<1>3. CASE b # 0 /\ signedArith
    <2>1. Signed(a) \in Int /\ Signed(b) \in Int /\ Signed(b) # 0
        BY <1>1, <1>3, SignedType, WordFacts DEF Signed, Negative
    <2>2. Remainder(Signed(a), Signed(b)) \in Int /\ Quotient(Signed(a), Signed(b)) \in Int
        BY <2>1, QuotientFacts
    <2>3. /\ d.hi = Remainder(Signed(a), Signed(b)) % WordSize
          /\ d.lo = Quotient(Signed(a), Signed(b)) % WordSize
        BY <1>3 DEF Divided
    <2> QED BY <2>2, <2>3, ModWord
<1>4. CASE b # 0 /\ ~signedArith
    <2>1. d.hi = a % b /\ d.lo = a \div b
        BY <1>4 DEF Divided
    <2>2. a % b \in 0 .. b - 1 /\ a \div b \in Nat /\ a = (a \div b) * b + (a % b)
        <3>1. a \in Int /\ b \in Nat \ {0} /\ a \in Nat
            BY <1>1, <1>4
        <3> QED BY <3>1, Division
    <2> DEFINE q == a \div b
               r == a % b
    <2>3. q \in Nat /\ r \in 0 .. b - 1 /\ a = q * b + r
        BY <2>2
    <2> HIDE DEF q, r
    <2>4. q * b >= q * 1
        BY <1>1, <1>4, <2>3
    <2>5. q <= a
        BY <1>1, <2>3, <2>4
    <2>6. q \in 0 .. WordSize - 1 /\ r \in 0 .. WordSize - 1
        BY <1>1, <2>3, <2>5
    <2> QED BY <2>1, <2>6 DEF Word, q, r
<1> QED BY <1>2, <1>3, <1>4

-----------------------------------------------------------------------------
(* Addition: what the sign bits say of an overflow. *)
LEMMA AdditionOverflow ==
    ASSUME NEW a \in Word, NEW b \in Word
    PROVE  Signed(a) + Signed(b) \notin -SignBit .. SignBit - 1
             <=> /\ Negative(a) = Negative(b)
                 /\ Negative(a) # Negative(Sum(a, b))
<1> DEFINE c == Sum(a, b)
<1>1. /\ a \in 0 .. WordSize - 1 /\ b \in 0 .. WordSize - 1
      /\ WordSize = 2 * SignBit /\ SignBit \in Nat \ {0}
    BY WordFacts DEF Word
<1>2. c = IF a + b < WordSize THEN a + b ELSE a + b - WordSize
    BY SumFacts
<1> HIDE DEF c
<1>3. c \in Int
    BY <1>1, <1>2
<1>4. Signed(a) + Signed(b) \notin -SignBit .. SignBit - 1
        <=> (a >= SignBit) = (b >= SignBit) /\ (a >= SignBit) # (c >= SignBit)
    <2>1. CASE a < SignBit /\ b < SignBit
        BY <1>1, <1>2, <1>3, <2>1 DEF Signed, Negative
    <2>2. CASE a >= SignBit /\ b >= SignBit
        BY <1>1, <1>2, <1>3, <2>2 DEF Signed, Negative
    <2>3. CASE a < SignBit /\ b >= SignBit
        BY <1>1, <1>2, <1>3, <2>3 DEF Signed, Negative
    <2>4. CASE a >= SignBit /\ b < SignBit
        BY <1>1, <1>2, <1>3, <2>4 DEF Signed, Negative
    <2> QED BY <1>1, <2>1, <2>2, <2>3, <2>4
<1> QED BY <1>4 DEF Negative, c

LEMMA SubtractionOverflow ==
    ASSUME NEW a \in Word, NEW b \in Word
    PROVE  Signed(a) - Signed(b) \notin -SignBit .. SignBit - 1
             <=> /\ Negative(a) # Negative(b)
                 /\ Negative(a) # Negative(Sum(a, Minus(b)))
<1> DEFINE n == Minus(b)
           c == Sum(a, n)
<1>1. /\ a \in 0 .. WordSize - 1 /\ b \in 0 .. WordSize - 1
      /\ WordSize = 2 * SignBit /\ SignBit \in Nat \ {0}
    BY WordFacts DEF Word
<1>2. n \in Word /\ n = IF b = 0 THEN 0 ELSE WordSize - b
    BY MinusFacts
<1> HIDE DEF n
<1>3. c = IF a + n < WordSize THEN a + n ELSE a + n - WordSize
    BY <1>2, SumFacts
<1> HIDE DEF c
<1>4. c \in Int /\ c = IF a < b THEN a - b + WordSize ELSE a - b
    BY <1>1, <1>2, <1>3
<1>5. Signed(a) - Signed(b) \notin -SignBit .. SignBit - 1
        <=> (a >= SignBit) # (b >= SignBit) /\ (a >= SignBit) # (c >= SignBit)
    <2>1. CASE a < SignBit /\ b < SignBit
        BY <1>1, <1>4, <2>1 DEF Signed, Negative
    <2>2. CASE a >= SignBit /\ b >= SignBit
        BY <1>1, <1>4, <2>2 DEF Signed, Negative
    <2>3. CASE a < SignBit /\ b >= SignBit
        BY <1>1, <1>4, <2>3 DEF Signed, Negative
    <2>4. CASE a >= SignBit /\ b < SignBit
        BY <1>1, <1>4, <2>4 DEF Signed, Negative
    <2> QED BY <1>1, <2>1, <2>2, <2>3, <2>4
<1> QED BY <1>5 DEF Negative, c, n

-----------------------------------------------------------------------------
(* The registers and what an instruction does to them. *)
LEMMA RegisterNames ==
    /\ GPRs \subseteq Registers /\ GPRs \subseteq Word
    /\ {0, 2, 4, 5, 6, 29, 31, 32, 33, 34, 35, 36, 37, 38, 39} \subseteq Registers
    /\ {0, 2, 4, 5, 6, 29, 31} \subseteq GPRs
<1>1. \A n \in 0 .. 31 : n \in Word
    BY WordFacts
<1>2. GPRs \subseteq 0 .. 31 /\ {0, 2, 4, 5, 6, 29, 31} \subseteq GPRs
    BY CpuAssumption
<1>3. {32, 33, 34, 35, 36, 37, 38, 39} \subseteq Registers
    BY DEF Registers, HiReg, BadVAddrReg
<1> QED BY <1>1, <1>2, <1>3 DEF Registers

LEMMA InstructionType ==
    ASSUME NEW i \in Instructions
    PROVE  /\ i.op \in Operations
           /\ i.rs \in GPRs /\ i.rt \in GPRs /\ i.rd \in GPRs /\ i.extra \in Word
           /\ i.op \in {"SLL", "SRA", "SRL"} => i.extra < Width
BY DEF Instructions

LEMMA OperandType ==
    ASSUME NEW r \in [Registers -> Word], NEW i \in Instructions
    PROVE  r[i.rs] \in Word /\ r[i.rt] \in Word /\ Operand(r, i) \in Word
BY InstructionType, RegisterNames DEF Operand

LEMMA OverflowExact ==
    ASSUME NEW r \in [Registers -> Word], NEW i \in Instructions, i.op \in {"ADD", "ADDI", "SUB"}
    PROVE  LET a == r[i.rs]
               b == Operand(r, i)
               exact == IF i.op = "SUB" THEN Signed(a) - Signed(b) ELSE Signed(a) + Signed(b)
           IN Overflows(r, i) <=> exact \notin -SignBit .. SignBit - 1
<1> DEFINE a == r[i.rs]
           b == Operand(r, i)
<1>1. a \in Word /\ b \in Word
    BY OperandType
<1>2. CASE i.op = "SUB"
    <2>1. Added(r, i) = Sum(a, Minus(b))
        BY <1>2 DEF Added, Operand, Immediate
    <2>2. Overflows(r, i) <=> Negative(a) # Negative(b) /\ Negative(a) # Negative(Sum(a, Minus(b)))
        BY <1>2, <2>1 DEF Overflows
    <2> HIDE DEF a, b
    <2>3. Overflows(r, i) <=> Signed(a) - Signed(b) \notin -SignBit .. SignBit - 1
        BY <1>1, <2>2, SubtractionOverflow
    <2> QED BY <1>2, <2>3 DEF a, b
<1>3. CASE i.op # "SUB"
    <2>1. Added(r, i) = Sum(a, b)
        BY <1>3 DEF Added
    <2>2. Overflows(r, i) <=> Negative(a) = Negative(b) /\ Negative(a) # Negative(Sum(a, b))
        BY <1>3, <2>1 DEF Overflows
    <2> HIDE DEF a, b
    <2>3. Overflows(r, i) <=> Signed(a) + Signed(b) \notin -SignBit .. SignBit - 1
        BY <1>1, <2>2, AdditionOverflow
    <2> QED BY <1>3, <2>3 DEF a, b
<1> QED BY <1>2, <1>3

(* What an instruction writes, and where it reads: always words. *)
LEMMA AddedType ==
    ASSUME NEW r \in [Registers -> Word], NEW i \in Instructions
    PROVE  Added(r, i) \in Word
<1>1. r[i.rs] \in Word /\ r[i.rt] \in Word /\ Operand(r, i) \in Word
    BY OperandType
<1>2. Minus(r[i.rt]) \in Word
    BY <1>1, MinusFacts
<1> QED BY <1>1, <1>2, SumFacts DEF Added

LEMMA ShiftedType ==
    ASSUME NEW r \in [Registers -> Word], NEW i \in Instructions, i.op \in Shifts
    PROVE  Shifted(r, i) \in Word
<1> DEFINE n == IF i.op \in {"SLLV", "SRAV", "SRLV"} THEN r[i.rs] % Width ELSE i.extra
           a == r[i.rt]
<1>1. r[i.rs] \in Nat /\ a \in Word /\ a \in Nat /\ i.extra \in Nat
    BY OperandType, InstructionType, WordFacts
<1>2. n \in 0 .. Width - 1
    <2>1. r[i.rs] % Width \in 0 .. Width - 1
        <3>1. r[i.rs] \in Int /\ Width \in Nat \ {0}
            BY <1>1, WidthType
        <3> QED BY <3>1, Division
    <2>2. CASE i.op \in {"SLLV", "SRAV", "SRLV"}
        BY <2>1, <2>2
    <2>3. CASE i.op \notin {"SLLV", "SRAV", "SRLV"}
        <3>1. i.op \in {"SLL", "SRA", "SRL"}
            BY <2>3 DEF Shifts
        <3> QED BY <1>1, <2>3, <3>1, InstructionType, WidthType
    <2> QED BY <2>2, <2>3
<1> DEFINE p == Pow2[n]
<1> HIDE DEF n
<1>3. p \in Nat \ {0}
    BY <1>2, PowerType, WidthType
<1> HIDE DEF p, a
<1>4. a * p \in Int
    BY <1>1, <1>3
<1>5. Signed(a) \div p \in Int
    <2>1. Signed(a) \in Int
        BY <1>1, SignedType, WordFacts
    <2> QED BY <1>3, <2>1, Division
<1>6. (a * p) % WordSize \in Word /\ (Signed(a) \div p) % WordSize \in Word
    BY <1>4, <1>5, ModWord
<1> QED BY <1>6 DEF Shifted, p, n, a

(* The sorts of instructions are disjoint, so that a CASE means what it says. *)
LEMMA ComputationSorts ==
    ASSUME NEW op \in Computations
    PROVE  /\ op \in Adds => op \notin Logic /\ op \notin Shifts /\ op \notin Compares /\ op \notin Moves
           /\ op \in Logic => op \notin Shifts /\ op \notin Compares /\ op \notin Moves
           /\ op \in Shifts => op \notin Compares /\ op \notin Moves
           /\ op \in Compares => op \notin Moves
           /\ op \notin {"MULT", "MULTU", "DIV", "DIVU", "MTHI", "MTLO", "JALR"}
           /\ op \notin Links /\ op \notin Loads /\ op \notin Stores
BY DEF Computations, Adds, Logic, Shifts, Compares, Moves, Links, Loads, Stores

LEMMA ComputedType ==
    ASSUME NEW r \in [Registers -> Word], NEW i \in Instructions, i.op \in Computations
    PROVE  Computed(r, i) \in Word
<1> DEFINE op == i.op
           lui == (i.extra * Pow2[2 * ByteBits]) % WordSize
<1>1. /\ op \in Adds \cup Logic \cup Shifts \cup Compares \cup {"LUI", "MFHI", "MFLO"}
      /\ op \in Adds => op \notin Logic \cup Shifts \cup Compares \cup {"LUI", "MFHI", "MFLO"}
      /\ op \in Logic => op \notin Shifts \cup Compares \cup {"LUI", "MFHI", "MFLO"}
      /\ op \in Shifts => op \notin Compares \cup {"LUI", "MFHI", "MFLO"}
      /\ op \in Compares => op \notin {"LUI", "MFHI", "MFLO"}
    BY ComputationSorts DEF Computations, Moves
<1>2. Computed(r, i) =
        CASE op \in Adds     -> Added(r, i)
          [] op \in Logic    -> Combined(r, i)
          [] op \in Shifts   -> Shifted(r, i)
          [] op \in Compares -> Compared(r, i)
          [] op = "LUI"      -> lui
          [] op = "MFHI"     -> r[HiReg]
          [] op = "MFLO"     -> r[LoReg]
    BY DEF Computed
<1>3. Added(r, i) \in Word
    BY AddedType
<1>4. Combined(r, i) \in Word
    BY WordOfType DEF Combined
<1>5. op \in Shifts => Shifted(r, i) \in Word
    BY ShiftedType
<1>6. Compared(r, i) \in Word
    <2>1. \A p : Bool(p) \in Word
        BY WordFacts DEF Bool
    <2> QED BY <2>1 DEF Compared
<1>7. lui \in Word
    <2>1. i.extra \in Nat /\ Pow2[2 * ByteBits] \in Nat
        BY InstructionType, WordFacts, WidthType, PowerType
    <2>2. i.extra * Pow2[2 * ByteBits] \in Int
        BY <2>1
    <2> QED BY <2>2, ModWord
<1>8. r[HiReg] \in Word /\ r[LoReg] \in Word
    BY RegisterNames DEF HiReg, LoReg
<1> HIDE DEF op, lui
<1>9. CASE op \in Adds
    BY <1>1, <1>2, <1>3, <1>9
<1>10. CASE op \in Logic
    BY <1>1, <1>2, <1>4, <1>10
<1>11. CASE op \in Shifts
    BY <1>1, <1>2, <1>5, <1>11
<1>12. CASE op \in Compares
    BY <1>1, <1>2, <1>6, <1>12
<1>13. CASE op \in {"LUI", "MFHI", "MFLO"}
    BY <1>1, <1>2, <1>7, <1>8, <1>13
<1> QED BY <1>1, <1>9, <1>10, <1>11, <1>12, <1>13

LEMMA WrittenType ==
    ASSUME NEW r \in [Registers -> Word], NEW i \in Instructions
    PROVE  Written(r, i) \in [Registers -> Word]
<1> DEFINE link == Sum(r[NextPCReg], 4)
           pair == IF i.op \in {"MULT", "MULTU"} THEN Mult(r[i.rs], r[i.rt], i.op = "MULT")
                   ELSE Divided(r[i.rs], r[i.rt], i.op = "DIV")
<1>1. r[i.rs] \in Word /\ r[i.rt] \in Word
    BY OperandType
<1>2. link \in Word
    <2>1. r[NextPCReg] \in Word /\ 4 \in Word
        BY RegisterNames, WordFacts DEF NextPCReg
    <2> QED BY <2>1, SumFacts
<1>3. i.op \in {"MULT", "MULTU", "DIV", "DIVU"} => pair.hi \in Word /\ pair.lo \in Word
    <2>1. CASE i.op = "MULT"
        BY <1>1, <2>1, MultSigned
    <2>2. CASE i.op = "MULTU"
        BY <1>1, <2>2, MultUnsigned
    <2>3. CASE i.op \notin {"MULT", "MULTU"}
        <3>1. (i.op = "DIV") \in BOOLEAN
            OBVIOUS
        <3>2. pair = Divided(r[i.rs], r[i.rt], i.op = "DIV")
            BY <2>3
        <3> QED BY <1>1, <3>1, <3>2, DividedType
    <2> QED BY <2>1, <2>2, <2>3
<1>4. i.op \in Computations => Computed(r, i) \in Word
    BY ComputedType
<1> HIDE DEF link, pair
<1>5. Written(r, i) =
        CASE i.op \in Computations -> [r EXCEPT ![IF i.op \in Immediate THEN i.rt ELSE i.rd]
                                                  = Computed(r, i)]
          [] i.op \in {"MULT", "MULTU", "DIV", "DIVU"} ->
              [r EXCEPT ![HiReg] = pair.hi, ![LoReg] = pair.lo]
          [] i.op = "MTHI" -> [r EXCEPT ![HiReg] = r[i.rs]]
          [] i.op = "MTLO" -> [r EXCEPT ![LoReg] = r[i.rs]]
          [] i.op \in Links -> [r EXCEPT ![RetAddrReg] = link]
          [] i.op = "JALR" -> [r EXCEPT ![i.rd] = link]
          [] OTHER -> r
    BY DEF Written, link, pair
<1>6. ASSUME NEW x, NEW w \in Word PROVE [r EXCEPT ![x] = w] \in [Registers -> Word]
    OBVIOUS
<1>7. ASSUME NEW v \in Word, NEW w \in Word
      PROVE  [r EXCEPT ![HiReg] = v, ![LoReg] = w] \in [Registers -> Word]
    OBVIOUS
<1>8. CASE i.op \in Computations
    <2>1. Written(r, i) = [r EXCEPT ![IF i.op \in Immediate THEN i.rt ELSE i.rd] = Computed(r, i)]
        BY <1>5, <1>8, ComputationSorts
    <2> QED BY <1>4, <1>6, <1>8, <2>1
<1>9. CASE i.op \in {"MULT", "MULTU", "DIV", "DIVU"}
    <2>1. i.op \notin Computations /\ i.op \notin Links
        BY <1>9, ComputationSorts DEF Links
    <2>2. Written(r, i) = [r EXCEPT ![HiReg] = pair.hi, ![LoReg] = pair.lo]
        BY <1>5, <1>9, <2>1
    <2> QED BY <1>3, <1>7, <1>9, <2>2
<1>10. CASE i.op \notin Computations \cup {"MULT", "MULTU", "DIV", "DIVU"}
    BY <1>1, <1>2, <1>5, <1>6, <1>10
<1> QED BY <1>8, <1>9, <1>10

LEMMA PcAfterType ==
    ASSUME NEW r \in [Registers -> Word], NEW i \in Instructions
    PROVE  PcAfter(r, i) \in Word
<1> DEFINE next == Sum(r[NextPCReg], 4)
           p == Pow2[Width - 4]
           region == next - (next % p)
<1>1. r[NextPCReg] \in Word /\ 4 \in Word /\ r[i.rs] \in Word /\ i.extra \in Word
    BY RegisterNames, WordFacts, OperandType, InstructionType DEF NextPCReg
<1>2. next \in Word
    BY <1>1, SumFacts
<1>3. next \in Int /\ i.extra \in Int /\ r[NextPCReg] \in Int
    <2>1. Word \subseteq Int
        BY WordFacts
    <2> HIDE DEF next
    <2> QED BY <1>1, <1>2, <2>1
<1>4. p \in Nat \ {0}
    BY WidthType, PowerType
<1> HIDE DEF next, p
<1>5. region \in Int
    <2>1. next % p \in 0 .. p - 1
        BY <1>3, <1>4, Division
    <2> QED BY <1>3, <1>4, <2>1
<1> HIDE DEF region
<1>6. ASSUME NEW x \in Int, NEW y \in Int PROVE Sum(x, y) \in Word
    <2>1. x + y \in Int
        OBVIOUS
    <2> QED BY <2>1, ModWord DEF Sum
<1>7. 4 * i.extra \in Int
    BY <1>3
<1>8. PcAfter(r, i) = IF Branches(r, i) THEN Sum(r[NextPCReg], 4 * i.extra)
                      ELSE CASE i.op \in {"J", "JAL"}   -> Sum(region, 4 * i.extra)
                             [] i.op \in {"JR", "JALR"} -> r[i.rs]
                             [] OTHER                   -> next
    BY DEF PcAfter, region, next, p
<1> QED BY <1>1, <1>2, <1>3, <1>5, <1>6, <1>7, <1>8

-----------------------------------------------------------------------------
(* Memory: an address that is translated lies in it, with all its bytes. *)
MemoryAddresses == 0 .. NumPhysPages * PageSize - 1

LEMMA TranslatedInMemory ==
    ASSUME NEW table, NEW addr \in Word, NEW size \in {1, 2, 4},
           Translate(table, addr, size) = "NoException"
    PROVE  /\ addr \div PageSize \in DOMAIN table
           /\ table[addr \div PageSize] \in 0 .. NumPhysPages - 1
           /\ Physical(table, addr) \in Nat
           /\ \A k \in 0 .. size - 1 : Physical(table, addr) + k \in MemoryAddresses
<1> DEFINE P == PageSize
           f == table[addr \div P]
           o == addr % P
           fp == f * P
<1>1. P \in Nat \ {0} /\ P % 4 = 0 /\ NumPhysPages \in Nat \ {0} /\ addr \in Nat
    BY CpuAssumption, WordFacts
<1>2. addr % size = 0 /\ addr \div P \in DOMAIN table /\ f \in 0 .. NumPhysPages - 1
    BY DEF Translate
<1> DEFINE q == addr \div P
<1>3. o \in 0 .. P - 1 /\ q \in Nat /\ addr = q * P + o
    <2>1. addr \in Int
        BY <1>1
    <2> QED BY <1>1, <2>1, Division
<1> HIDE DEF o, q, f
<1>4. o <= P - size
    <2> DEFINE c == P \div 4
               qc == q * c
    <2>1. c \in Nat /\ P = 4 * c
        BY <1>1
    <2>2. q * P = 4 * qc /\ qc \in Nat
        BY <1>3, <2>1
    <2> HIDE DEF c, qc, P
    <2>3. addr = 4 * qc + o
        BY <1>3, <2>2
    <2>4. CASE size = 4
        BY <1>2, <1>3, <2>1, <2>2, <2>3, <2>4
    <2>5. CASE size = 2
        BY <1>2, <1>3, <2>1, <2>2, <2>3, <2>5
    <2>6. CASE size = 1
        BY <1>3, <2>1, <2>6
    <2> QED BY <2>4, <2>5, <2>6
<1>5. fp \in Nat /\ fp + P <= NumPhysPages * P /\ NumPhysPages * P \in Nat
    <2>1. (f + 1) * P <= NumPhysPages * P
        BY <1>1, <1>2
    <2>2. (f + 1) * P = fp + P
        BY <1>1, <1>2
    <2> QED BY <1>1, <1>2, <2>1, <2>2
<1>6. Physical(table, addr) = fp + o
    BY DEF Physical, f, o
<1> DEFINE top == NumPhysPages * P
<1>7. ASSUME NEW k \in 0 .. size - 1 PROVE fp + o + k \in 0 .. top - 1
    <2>1. fp + P <= top /\ top \in Nat /\ fp \in Nat
        BY <1>5
    <2> HIDE DEF fp, top, P
    <2> QED BY <1>1, <1>3, <1>4, <2>1
<1>8. fp + o \in Nat
    BY <1>3, <1>5
<1> QED BY <1>2, <1>6, <1>7, <1>8 DEF MemoryAddresses, f

LEMMA AddressType ==
    ASSUME NEW r \in [Registers -> Word], NEW i \in Instructions
    PROVE  Address(r, i) \in Word
BY OperandType, InstructionType, SumFacts DEF Address

LEMMA SizeType == \A i : Size(i) \in {1, 2, 4}
<1> TAKE i
<1>1. CASE i.op \in {"LB", "LBU", "SB"}
    <2>1. i.op \notin {"LH", "LHU", "SH"}
        BY <1>1
    <2> QED BY <1>1, <2>1 DEF Size
<1>2. CASE i.op \notin {"LB", "LBU", "SB"}
    BY <1>2 DEF Size
<1> QED BY <1>1, <1>2

(* An instruction that raises nothing finds its operand in memory. *)
LEMMA AccessInMemory ==
    ASSUME NEW r \in [Registers -> Word], NEW i \in Instructions, NEW table,
           i.op \in Loads \cup Stores, Raises(r, i, table) = "NoException"
    PROVE  /\ Physical(table, Address(r, i)) \in Nat
           /\ \A k \in 0 .. Size(i) - 1 : Physical(table, Address(r, i)) + k \in MemoryAddresses
<1>1. i.op \notin {"RES", "UNIMP", "SYSCALL", "DIV", "ADD", "ADDI", "SUB"}
    BY DEF Loads, Stores
<1>2. ~Overflows(r, i)
    BY <1>1 DEF Overflows
<1>3. Translate(table, Address(r, i), Size(i)) = "NoException"
    BY <1>1, <1>2 DEF Raises
<1> QED BY <1>3, AddressType, SizeType, TranslatedInMemory

LEMMA ExtendedType ==
    ASSUME NEW size \in {1, 2, 4}, NEW value \in 0 .. ByteWeight(size) - 1
    PROVE  value \in Word /\ Extended(value, size) \in Word
<1> DEFINE w == ByteWeight(size)
<1>1. w \in Nat \ {0} /\ w <= WordSize /\ WordSize \in Nat \ {0}
    BY ByteWeights, WordFacts
<1>2. value \in Word
    <2> HIDE DEF w
    <2>1. value \in 0 .. w - 1
        BY DEF w
    <2> QED BY <1>1, <2>1 DEF Word
<1>3. CASE value >= w \div 2
    <2>1. Extended(value, size) = value + WordSize - w
        BY <1>3 DEF Extended
    <2> HIDE DEF w
    <2>2. value \in 0 .. w - 1
        BY DEF w
    <2>3. value + WordSize - w \in 0 .. WordSize - 1
        BY <1>1, <2>2
    <2> QED BY <1>2, <2>1, <2>3 DEF Word
<1>4. CASE ~(value >= w \div 2)
    BY <1>2, <1>4 DEF Extended
<1> QED BY <1>3, <1>4

LEMMA LoadedType ==
    ASSUME NEW r \in [Registers -> Word], NEW i \in Instructions, NEW table,
           NEW mem \in [MemoryAddresses -> Byte],
           i.op \in Loads, Raises(r, i, table) = "NoException"
    PROVE  Loaded(r, i, mem, table) \in Word
<1> DEFINE addr == Physical(table, Address(r, i))
           value == ReadMem(mem, addr, Size(i))
           old == IF r[LoadReg] = i.rt THEN r[LoadValueReg] ELSE r[i.rt]
           b == ByteSize
           w == ByteWeight(3)
<1>1. \A k \in 0 .. Size(i) - 1 : mem[addr + k] \in Byte
    BY AccessInMemory
<1>2. value \in 0 .. ByteWeight(Size(i)) - 1
    <2> HIDE DEF addr
    <2> QED BY <1>1, SizeType, ReadMemType DEF addr
<1>3. value \in Word /\ Extended(value, Size(i)) \in Word
    <2> HIDE DEF value
    <2> QED BY <1>2, SizeType, ExtendedType
<1>4. old \in Word
    BY OperandType, RegisterNames DEF LoadValueReg
<1>5. b \in Nat \ {0} /\ w \in Nat \ {0} /\ WordSize = w * b
    BY ByteWeights, WordFacts
<1> HIDE DEF value, old, b, w
<1>6. (old - (old % b)) + value \div w \in Word
    <2> DEFINE q == old \div b
               s == old % b
               qb == q * b
               d == value \div w
               m == value % w
    <2>1. old \in Nat /\ value \in Nat /\ old < w * b /\ value < w * b
        BY <1>3, <1>4, <1>5, WordFacts DEF Word
    <2>2. q \in Nat /\ s \in 0 .. b - 1 /\ old = qb + s
        <3>1. old \in Int
            BY <2>1
        <3> QED BY <1>5, <2>1, <3>1, Division
    <2>3. d \in Nat /\ m \in 0 .. w - 1 /\ value = d * w + m
        <3>1. value \in Int
            BY <2>1
        <3> QED BY <1>5, <2>1, <3>1, Division
    <2> HIDE DEF q, s, d, m
    <2>4. q <= w - 1
        <3> SUFFICES ASSUME q >= w PROVE FALSE
            BY <1>5, <2>2
        <3>1. q * b >= w * b
            BY <1>5, <2>2
        <3> QED BY <1>5, <2>1, <2>2, <3>1
    <2>5. d <= b - 1
        <3> SUFFICES ASSUME d >= b PROVE FALSE
            BY <1>5, <2>3
        <3>1. d * w >= b * w /\ b * w = w * b
            BY <1>5, <2>3
        <3> QED BY <1>5, <2>1, <2>3, <3>1
    <2>6. qb <= w * b - b /\ qb \in Nat
        <3>1. q * b <= (w - 1) * b
            BY <1>5, <2>2, <2>4
        <3>2. (w - 1) * b = w * b - b
            BY <1>5
        <3> QED BY <1>5, <2>2, <3>1, <3>2
    <2> DEFINE top == w * b
    <2>7. qb <= top - b /\ top \in Nat /\ WordSize = top
        BY <1>5, <2>6
    <2> HIDE DEF qb, top
    <2>8. qb + d \in 0 .. top - 1
        BY <1>5, <2>3, <2>5, <2>6, <2>7
    <2>9. old - s = qb
        BY <2>2, <2>6
    <2> QED BY <2>7, <2>8, <2>9 DEF Word, s, d
<1>7. Loaded(r, i, mem, table) =
        CASE i.op \in {"LB", "LH"} -> Extended(value, Size(i))
          [] i.op = "LWR" -> (old - (old % b)) + value \div w
          [] OTHER -> value
    BY DEF Loaded, value, old, b, w
<1> QED BY <1>3, <1>6, <1>7

LEMMA StoredType ==
    ASSUME NEW r \in [Registers -> Word], NEW i \in Instructions, NEW table,
           NEW mem \in [MemoryAddresses -> Byte],
           Raises(r, i, table) = "NoException"
    PROVE  LET bytes == Stored(r, i, mem, table)
           IN bytes \in [DOMAIN bytes -> Byte] /\ DOMAIN bytes \subseteq MemoryAddresses
<1>1. CASE i.op \notin Stores
    BY <1>1 DEF Stored
<1>2. CASE i.op \in Stores
    <2> DEFINE addr == Physical(table, Address(r, i))
               word == ReadMem(mem, addr, 4)
               value == IF i.op = "SWR"
                        THEN (word % ByteWeight(3)) + (r[i.rt] % ByteSize) * ByteWeight(3)
                        ELSE r[i.rt]
    <2>1. addr \in Nat /\ \A k \in 0 .. Size(i) - 1 : addr + k \in MemoryAddresses
        BY <1>2, AccessInMemory
    <2> HIDE DEF addr
    <2>2. value \in Int
        <3>1. r[i.rt] \in Int
            <4>1. r[i.rt] \in Word
                BY OperandType
            <4> QED BY <4>1, WordInt
        <3>2. CASE i.op = "SWR"
            <4>1. Size(i) = 4
                BY <3>2 DEF Size
            <4>2. \A k \in 0 .. 4 - 1 : mem[addr + k] \in Byte
                BY <2>1, <4>1
            <4>3. word \in 0 .. ByteWeight(4) - 1
                BY <4>2, ReadMemType
            <4>4. word \in Int
                BY <4>3, ByteWeights
            <4>5. word % ByteWeight(3) \in Int /\ r[i.rt] % ByteSize \in Int /\ ByteWeight(3) \in Int
                <5> HIDE DEF word
                <5>1. ByteWeight(3) \in Nat \ {0} /\ ByteSize \in Nat \ {0}
                    BY ByteWeights, WordFacts
                <5>2. word % ByteWeight(3) \in 0 .. ByteWeight(3) - 1 /\ r[i.rt] % ByteSize \in 0 .. ByteSize - 1
                    BY <3>1, <4>4, <5>1, Division
                <5> QED BY <5>1, <5>2
            <4>6. (word % ByteWeight(3)) + (r[i.rt] % ByteSize) * ByteWeight(3) \in Int
                <5> DEFINE x == word % ByteWeight(3)
                           y == r[i.rt] % ByteSize
                           z == ByteWeight(3)
                <5>1. x \in Int /\ y \in Int /\ z \in Int
                    BY <4>5
                <5> HIDE DEF x, y, z
                <5>2. x + y * z \in Int
                    BY <5>1
                <5> QED BY <5>2 DEF x, y, z
            <4> QED BY <3>2, <4>6
        <3> QED BY <3>1, <3>2
    <2>3. Stored(r, i, mem, table) = WriteMem(addr, Size(i), value)
        BY <1>2 DEF Stored, addr
    <2> HIDE DEF value
    <2> DEFINE n == Size(i)
    <2>4. n \in {1, 2, 4}
        BY SizeType
    <2> HIDE DEF n
    <2>5. ASSUME NEW a \in addr .. addr + n - 1
          PROVE  (value \div ByteWeight(a - addr)) % ByteSize \in Byte
        <3>1. a - addr \in 0 .. 4
            BY <2>1, <2>4
        <3>2. ByteWeight(a - addr) \in Nat \ {0} /\ ByteSize \in Nat \ {0}
            BY <3>1, ByteWeights, WordFacts
        <3>3. value \div ByteWeight(a - addr) \in Int
            BY <2>2, <3>2, Division
        <3> QED BY <3>2, <3>3, Division DEF Byte
    <2>6. WriteMem(addr, n, value) \in [addr .. addr + n - 1 -> Byte]
        BY <2>5 DEF WriteMem
    <2>7. addr .. addr + n - 1 \subseteq MemoryAddresses
        <3>1. ASSUME NEW a \in addr .. addr + n - 1 PROVE a \in MemoryAddresses
            <4>1. a - addr \in 0 .. n - 1 /\ addr + (a - addr) = a
                BY <2>1, <2>4
            <4> QED BY <2>1, <4>1 DEF n
        <3> QED BY <3>1
    <2> QED BY <2>3, <2>6, <2>7 DEF n
<1> QED BY <1>1, <1>2

LEMMA OverwrittenType ==
    ASSUME NEW A, NEW mem \in [A -> Byte], NEW bytes,
           bytes \in [DOMAIN bytes -> Byte], DOMAIN bytes \subseteq A
    PROVE  Overwritten(mem, bytes) \in [A -> Byte]
<1>1. DOMAIN mem \cup DOMAIN bytes = A
    OBVIOUS
<1> QED BY <1>1 DEF Overwritten

LEMMA DelayedLoadType ==
    ASSUME NEW r \in [Registers -> Word], NEW reg \in Word, NEW value \in Word
    PROVE  DelayedLoad(r, reg, value) \in [Registers -> Word]
<1>1. r[LoadValueReg] \in Word /\ 0 \in Word
    BY RegisterNames, WordFacts DEF LoadValueReg
<1> DEFINE s == [r EXCEPT ![r[LoadReg]] = r[LoadValueReg]]
<1>2. s \in [Registers -> Word]
    BY <1>1
<1> HIDE DEF s
<1>3. [s EXCEPT ![LoadReg] = reg, ![LoadValueReg] = value, ![0] = 0] \in [Registers -> Word]
    BY <1>1, <1>2
<1> QED BY <1>3 DEF DelayedLoad, s

LEMMA ExecuteType ==
    ASSUME NEW r \in [Registers -> Word], NEW i \in Instructions, NEW table,
           NEW mem \in [MemoryAddresses -> Byte],
           Raises(r, i, table) = "NoException"
    PROVE  Execute(r, i, mem, table) \in [Registers -> Word]
<1> DEFINE w == Written(r, i)
           reg == IF i.op \in Loads THEN i.rt ELSE 0
           value == IF i.op \in Loads THEN Loaded(r, i, mem, table) ELSE 0
           d == DelayedLoad(w, reg, value)
           next == PcAfter(w, i)
<1>1. w \in [Registers -> Word]
    BY WrittenType
<1>2. reg \in Word
    BY InstructionType, RegisterNames, WordFacts
<1>3. value \in Word
    BY LoadedType, WordFacts
<1> HIDE DEF w, reg, value
<1>4. d \in [Registers -> Word] /\ next \in Word
    BY <1>1, <1>2, <1>3, DelayedLoadType, PcAfterType
<1> HIDE DEF d, next
<1>5. d[PCReg] \in Word /\ d[NextPCReg] \in Word
    BY <1>4, RegisterNames DEF PCReg, NextPCReg
<1>6. [d EXCEPT ![PrevPCReg] = d[PCReg], ![PCReg] = d[NextPCReg], ![NextPCReg] = next]
        \in [Registers -> Word]
    BY <1>4, <1>5
<1>7. Execute(r, i, mem, table) =
        [d EXCEPT ![PrevPCReg] = d[PCReg], ![PCReg] = d[NextPCReg], ![NextPCReg] = next]
    BY DEF Execute, w, reg, value, d, next
<1> QED BY <1>6, <1>7

LEMMA ReturnedType ==
    ASSUME NEW r \in [Registers -> Word]
    PROVE  Returned(r) \in [Registers -> Word]
<1>1. r[PCReg] \in Word /\ r[NextPCReg] \in Word /\ 4 \in Word
    BY RegisterNames, WordFacts DEF PCReg, NextPCReg
<1>2. Sum(r[NextPCReg], 4) \in Word
    BY <1>1, SumFacts
<1> QED BY <1>1, <1>2 DEF Returned

-----------------------------------------------------------------------------
(* The programs and their address spaces. *)
LEMMA ProgramFacts ==
    ASSUME NEW p \in Programs
    PROVE  /\ Len(p.code) \in Nat /\ Len(p.data) \in Nat
           /\ p.code \in Seq(Instructions) /\ p.data \in Seq(Word)
           /\ p.slices \in Nat /\ p.timer \in BOOLEAN /\ p.preemptive \in BOOLEAN
           /\ NumPages(p) \in Nat /\ StackPages \in Nat
           /\ StackPages >= 2 /\ NumPages(p) >= StackPages /\ NumPages(p) <= NumPhysPages
<1>1. /\ p.code \in Seq(Instructions) /\ p.data \in Seq(Word)
      /\ p.slices \in Nat /\ p.timer \in BOOLEAN /\ p.preemptive \in BOOLEAN
      /\ NumPages(p) <= NumPhysPages
    BY ProgramsAssumption
<1>2. Len(p.code) \in Nat /\ Len(p.data) \in Nat
    BY <1>1, LenProperties
<1> DEFINE m == Len(p.code)
           n == Len(p.data)
           x == 4 * (m + n) + PageSize - 1
<1>3. PageSize \in Nat \ {0} /\ StackPages \in Nat /\ StackPages >= 2
    BY CpuAssumption, StackAssumption
<1>4. x \in Nat
    <2>1. m \in Nat /\ n \in Nat
        BY <1>2
    <2> HIDE DEF m, n
    <2> QED BY <1>3, <2>1
<1> HIDE DEF x
<1>5. x \div PageSize \in Nat
    <2>1. x \in Int
        BY <1>4
    <2> QED BY <1>3, <1>4, <2>1, Division
<1>6. NumPages(p) = x \div PageSize + StackPages
    BY DEF NumPages, x
<1> DEFINE y == x \div PageSize
<1> HIDE DEF y
<1>7. NumPages(p) \in Nat /\ NumPages(p) >= StackPages
    BY <1>3, <1>5, <1>6 DEF y
<1> QED BY <1>1, <1>2, <1>3, <1>7

LEMMA FetchType ==
    ASSUME NEW p \in Programs, NEW r \in [Registers -> Word]
    PROVE  Fetch(p, r) \in Instructions
<1>1. Nop \in Instructions
    <2>1. 0 \in GPRs /\ 0 \in Word /\ "SLL" \in Operations /\ 0 < Width
        BY RegisterNames, WordFacts, WidthType DEF Operations, Computations, Shifts
    <2> QED BY <2>1 DEF Nop, Instructions
<1> DEFINE word == r[PCReg] \div 4 + 1
<1>2. word \in 1 .. Len(p.code) => p.code[word] \in Instructions
    <2> HIDE DEF word
    <2> QED BY ProgramFacts
<1> QED BY <1>1, <1>2 DEF Fetch

LEMMA ImageType ==
    ASSUME NEW p \in Programs, NEW a \in Nat
    PROVE  Image(p, a) \in Byte
<1> DEFINE word == a \div 4 - Len(p.code) + 1
           w == ByteWeight(a % 4)
<1>1. w \in Nat \ {0} /\ ByteSize \in Nat \ {0}
    <2>1. a % 4 \in 0 .. 4
        OBVIOUS
    <2> QED BY <2>1, ByteWeights, WordFacts
<1> HIDE DEF word, w
<1>2. CASE word \in 1 .. Len(p.data)
    <2>1. p.data[word] \in Word
        BY <1>2, ProgramFacts
    <2>2. p.data[word] \in Int
        BY <2>1, WordInt
    <2> DEFINE d == p.data[word]
    <2> HIDE DEF d
    <2>3. d \div w \in Int
        BY <1>1, <2>2, Division DEF d
    <2>4. (d \div w) % ByteSize \in Byte
        BY <1>1, <2>3, Division DEF Byte
    <2>5. Image(p, a) = (d \div w) % ByteSize
        BY <1>2 DEF Image, word, w, d
    <2> QED BY <2>4, <2>5
<1>3. CASE word \notin 1 .. Len(p.data)
    BY <1>3, WordFacts DEF Image, word
<1> QED BY <1>2, <1>3

LEMMA InitRegistersType ==
    ASSUME NEW p \in Programs
    PROVE  InitRegisters(NumPages(p)) \in [Registers -> Word]
<1> DEFINE n == NumPages(p)
           np == n * PageSize
           top == NumPhysPages * PageSize
<1>1. /\ n \in Nat /\ n >= 1 /\ n <= NumPhysPages /\ NumPhysPages \in Nat
      /\ PageSize \in Nat \ {0} /\ top <= WordSize /\ StackMargin \in 1 .. PageSize
    BY ProgramFacts, CpuAssumption, StackAssumption
<1>2. np <= top /\ np >= PageSize /\ np \in Nat /\ top \in Nat
    <2> HIDE DEF n
    <2>1. n * PageSize <= NumPhysPages * PageSize /\ n * PageSize >= 1 * PageSize
        BY <1>1
    <2> QED BY <1>1, <2>1
<1>3. np - StackMargin \in Word
    <2> HIDE DEF np, top
    <2>1. np - StackMargin \in 0 .. WordSize - 1
        BY <1>1, <1>2, WordFacts
    <2> QED BY <2>1 DEF Word
<1>4. 4 \in Word /\ 0 \in Word
    BY WordFacts
<1> HIDE DEF np
<1>5. InitRegisters(n) = [x \in Registers |-> CASE x = NextPCReg -> 4
                                                [] x = StackReg  -> np - StackMargin
                                                [] OTHER         -> 0]
    BY DEF InitRegisters, np
<1>6. ASSUME NEW x \in Registers
      PROVE  (CASE x = NextPCReg -> 4 [] x = StackReg  -> np - StackMargin [] OTHER -> 0) \in Word
    <2>1. NextPCReg # StackReg
        BY DEF NextPCReg, StackReg
    <2> QED BY <1>3, <1>4, <2>1
<1> QED BY <1>5, <1>6

LEMMA ForkRegistersType ==
    ASSUME NEW p \in Programs, NEW func \in Word
    PROVE  ForkRegisters(NumPages(p), func) \in [Registers -> Word]
<1> DEFINE r == InitRegisters(NumPages(p))
<1>1. r \in [Registers -> Word]
    BY InitRegistersType
<1>2. 4 \in Word /\ Sum(func, 4) \in Word
    BY WordFacts, SumFacts
<1> HIDE DEF r
<1>3. [r EXCEPT ![RetAddrReg] = 4, ![PCReg] = func, ![NextPCReg] = Sum(func, 4)] \in [Registers -> Word]
    BY <1>1, <1>2
<1> QED BY <1>3 DEF ForkRegisters, r

-----------------------------------------------------------------------------
(* The kernel's part: nobody who has not been forked is ever listed. *)
ListedAreForked == \A k \in 1 .. Len(readyList) : status[readyList[k]] # "JUST_CREATED"
KernelInv == KernelTypeOK /\ ListedAreForked
StayCreated == \A u \in Threads : status[u] = "JUST_CREATED" => status'[u] = "JUST_CREATED"

LEMMA KernelUnchanged ==
    ASSUME KernelInv, UNCHANGED <<status, readyList, threadToBeDestroyed, destroyed, oldLevel>>,
           currentThread' \in Threads, level' \in Levels, pc' \in [Threads -> PCs],
           machine' \in {"up", "halted", "aborted"}
    PROVE  KernelInv' /\ StayCreated
BY DEF KernelInv, KernelTypeOK, ListedAreForked, StayCreated

LEMMA YieldTypes ==
    ASSUME KernelInv, NEW t \in Threads, Yield(t)
    PROVE  KernelInv' /\ StayCreated
<1> USE DEF KernelInv, KernelTypeOK
<1>1. CASE readyList = <<>>
    BY <1>1 DEF Yield, ListedAreForked, StayCreated
<1>2. CASE readyList # <<>>
    <2> DEFINE next == Head(readyList)
               rest == Tail(readyList)
    <2>1. next \in Threads /\ rest \in Seq(Threads) /\ next = readyList[1] /\ 1 \in 1 .. Len(readyList)
        BY <1>2, HeadTailProperties, EmptySeq
    <2>2. Len(rest) = Len(readyList) - 1 /\ \A k \in 1 .. Len(rest) : rest[k] = readyList[k + 1]
        BY <1>2, HeadTailProperties
    <2>3. /\ readyList' = Append(rest, t)
          /\ status' = [status EXCEPT ![t] = "READY", ![next] = "RUNNING"]
          /\ currentThread' = next /\ pc' = [pc EXCEPT ![t] = "yield"]
          /\ oldLevel' = [oldLevel EXCEPT ![t] = level] /\ level' = "Off"
          /\ UNCHANGED <<threadToBeDestroyed, destroyed, machine>>
          /\ status[t] = "RUNNING"
        BY <1>2 DEF Yield, Executing
    <2> HIDE DEF next, rest
    <2>4. Append(rest, t) \in Seq(Threads) /\ Len(Append(rest, t)) = Len(rest) + 1
          /\ \A k \in 1 .. Len(rest) + 1 : Append(rest, t)[k] = IF k <= Len(rest) THEN rest[k] ELSE t
        BY <2>1, AppendProperties
    <2>5. KernelTypeOK'
        BY <2>1, <2>3, <2>4 DEF Levels, PCs, Statuses
    <2>6. StayCreated
        <3>1. status[next] # "JUST_CREATED"
            BY <2>1 DEF ListedAreForked
        <3> QED BY <2>3, <3>1 DEF StayCreated
    <2>7. \A u \in Threads : status'[u] = "JUST_CREATED" => status[u] = "JUST_CREATED" /\ u # t
        BY <2>3
    <2>8. ListedAreForked'
        <3> SUFFICES ASSUME NEW k \in 1 .. Len(readyList')
                     PROVE  status'[readyList'[k]] # "JUST_CREATED"
            BY DEF ListedAreForked
        <3>0. Len(rest) \in Nat /\ Len(readyList) \in Nat
            BY <2>1, LenProperties
        <3>1. CASE k <= Len(rest)
            <4>1. readyList'[k] = readyList[k + 1] /\ k + 1 \in 1 .. Len(readyList)
                BY <2>2, <2>3, <2>4, <3>0, <3>1
            <4>2. readyList[k + 1] \in Threads
                BY <4>1, ElementOfSeq
            <4> QED BY <2>7, <4>1, <4>2 DEF ListedAreForked
        <3>2. CASE k > Len(rest)
            BY <2>3, <2>4, <2>7, <3>0, <3>2
        <3> QED BY <3>0, <3>1, <3>2
    <2> QED BY <2>5, <2>6, <2>8
<1> QED BY <1>1, <1>2

LEMMA DispatchTypes ==
    ASSUME KernelInv, Dispatch
    PROVE  KernelInv' /\ StayCreated
<1> USE DEF KernelInv, KernelTypeOK
<1> DEFINE next == Head(readyList)
           rest == Tail(readyList)
<1>1. readyList # <<>> /\ readyList \in Seq(Threads)
    BY DEF Dispatch
<1>2. next \in Threads /\ rest \in Seq(Threads) /\ next = readyList[1] /\ 1 \in 1 .. Len(readyList)
    BY <1>1, HeadTailProperties, EmptySeq
<1>3. Len(rest) = Len(readyList) - 1 /\ \A k \in 1 .. Len(rest) : rest[k] = readyList[k + 1]
    BY <1>1, HeadTailProperties
<1>4. /\ readyList' = rest /\ currentThread' = next
      /\ status' = [status EXCEPT ![next] = "RUNNING"]
      /\ UNCHANGED <<level, oldLevel, pc, threadToBeDestroyed, destroyed, machine>>
    BY DEF Dispatch
<1> HIDE DEF next, rest
<1>5. KernelTypeOK'
    BY <1>2, <1>4 DEF Statuses
<1>6. StayCreated
    <2>1. status[next] # "JUST_CREATED"
        BY <1>2 DEF ListedAreForked
    <2> QED BY <1>4, <2>1 DEF StayCreated
<1>7. ListedAreForked'
    <2> SUFFICES ASSUME NEW k \in 1 .. Len(readyList')
                 PROVE  status'[readyList'[k]] # "JUST_CREATED"
        BY DEF ListedAreForked
    <2>1. Len(rest) \in Nat /\ Len(readyList) \in Nat
        BY <1>2, LenProperties
    <2>2. readyList'[k] = readyList[k + 1] /\ k + 1 \in 1 .. Len(readyList)
        BY <1>3, <1>4, <2>1
    <2>3. readyList[k + 1] \in Threads
        BY <2>2, ElementOfSeq
    <2> QED BY <1>4, <2>2, <2>3 DEF ListedAreForked
<1> QED BY <1>5, <1>6, <1>7

LEMMA FinishTypes ==
    ASSUME KernelInv, NEW t \in Threads, Finish(t)
    PROVE  KernelInv' /\ StayCreated
<1> USE DEF KernelInv, KernelTypeOK
<1>1. /\ readyList' = readyList \o <<>> /\ pc' = [pc EXCEPT ![t] = "finish"]
      /\ status' = [u \in Threads |-> IF u \in Range(<<>>) THEN "READY"
                                      ELSE IF u = t THEN "BLOCKED" ELSE status[u]]
      /\ level' = "Off" /\ threadToBeDestroyed' = t
      /\ UNCHANGED <<currentThread, oldLevel, destroyed, machine>>
      /\ status[t] = "RUNNING"
    BY DEF Finish, ReadyToRunAndSleep, Executing
<1>2. readyList' = readyList
    BY <1>1, ConcatEmptySeq
<1>3. Range(<<>>) = {}
    BY DEF Range
<1>4. status' = [u \in Threads |-> IF u = t THEN "BLOCKED" ELSE status[u]]
    BY <1>1, <1>3
<1>5. KernelTypeOK'
    BY <1>1, <1>2, <1>4 DEF Levels, PCs, Statuses
<1>6. StayCreated
    BY <1>1, <1>4 DEF StayCreated
<1>7. ListedAreForked'
    <2> SUFFICES ASSUME NEW k \in 1 .. Len(readyList)
                 PROVE  status'[readyList[k]] # "JUST_CREATED"
        BY <1>2 DEF ListedAreForked
    <2>1. readyList[k] \in Threads
        BY ElementOfSeq
    <2> QED BY <1>4, <2>1 DEF ListedAreForked
<1> QED BY <1>5, <1>6, <1>7

LEMMA ForkTypes ==
    ASSUME KernelInv, NEW t \in Threads, NEW u \in Threads, Fork(t, u)
    PROVE  /\ KernelInv'
           /\ \A v \in Threads : status'[v] = IF v = u THEN "READY" ELSE status[v]
<1> USE DEF KernelInv, KernelTypeOK
<1>1. /\ readyList' = readyList \o <<u>>
      /\ status' = [v \in Threads |-> IF v \in Range(<<u>>) THEN "READY" ELSE status[v]]
      /\ UNCHANGED <<currentThread, level, oldLevel, pc, threadToBeDestroyed, destroyed, machine>>
    BY DEF Fork, ReadyToRun
<1>2. Range(<<u>>) = {u}
    BY DEF Range
<1>3. <<u>> \in Seq(Threads) /\ Len(<<u>>) = 1 /\ <<u>>[1] = u
    OBVIOUS
<1>4. /\ readyList \o <<u>> \in Seq(Threads) /\ Len(readyList \o <<u>>) = Len(readyList) + 1
      /\ \A k \in 1 .. Len(readyList) + 1 :
            (readyList \o <<u>>)[k] = IF k <= Len(readyList) THEN readyList[k] ELSE u
    <2>1. Len(readyList) \in Nat
        BY LenProperties
    <2> QED BY <1>3, <2>1, ConcatProperties
<1>5. \A v \in Threads : status'[v] = IF v = u THEN "READY" ELSE status[v]
    BY <1>1, <1>2
<1>6. KernelTypeOK'
    <2>1. status' \in [Threads -> Statuses]
        BY <1>1, <1>2 DEF Statuses
    <2> QED BY <1>1, <1>4, <2>1
<1>7. ListedAreForked'
    <2> SUFFICES ASSUME NEW k \in 1 .. Len(readyList')
                 PROVE  status'[readyList'[k]] # "JUST_CREATED"
        BY DEF ListedAreForked
    <2>1. Len(readyList) \in Nat
        BY LenProperties
    <2>2. CASE k <= Len(readyList)
        <3>1. readyList'[k] = readyList[k] /\ k \in 1 .. Len(readyList)
            BY <1>1, <1>4, <2>1, <2>2
        <3>2. readyList[k] \in Threads
            BY <3>1, ElementOfSeq
        <3> QED BY <1>5, <3>1, <3>2 DEF ListedAreForked
    <2>3. CASE k > Len(readyList)
        BY <1>1, <1>4, <1>5, <2>1, <2>3
    <2> QED BY <2>1, <2>2, <2>3
<1> QED BY <1>5, <1>6, <1>7

LEMMA YieldReturnTypes ==
    ASSUME KernelInv, NEW t \in Threads, YieldReturn(t)
    PROVE  KernelInv' /\ StayCreated
<1>1. /\ threadToBeDestroyed' \in Threads \cup {NULL} /\ destroyed' \subseteq Threads
      /\ level' \in Levels /\ pc' \in [Threads -> PCs]
      /\ UNCHANGED <<currentThread, status, readyList, oldLevel, machine>>
    BY DEF YieldReturn, DeleteCarcass, KernelInv, KernelTypeOK, PCs
<1> QED BY <1>1 DEF KernelInv, KernelTypeOK, ListedAreForked, StayCreated

-----------------------------------------------------------------------------
(* The types of what a step of a program or of its system calls changes. *)
MachineTypes ==
    /\ program \in Programs
    /\ registers \in [Registers -> Word]
    /\ mainMemory \in [MemoryAddresses -> Byte]
    /\ pageTable \in Threads
    /\ userRegisters \in [Threads -> [Registers -> Word]]
    /\ at \in [Threads -> Places] /\ entry \in [Threads -> Word]
    /\ slices \in Nat

TableTypes ==
    /\ space \in [Threads -> {NoTable} \cup Tables(Pages)]
    /\ building = [t \in Threads |-> building[t]]
    /\ \A t \in Threads : building[t] = NoTable \/ \E n \in Pages : building[t] \in Tables(0 .. n)
    /\ MiMapa \subseteq Frames

FileTypes ==
    /\ fileTable \in [Threads -> [open : SUBSET Handles, users : Int, count : [Handles -> Int]]]
    /\ DOMAIN unix \subseteq 0 .. MaxFd /\ unix \in [DOMAIN unix -> Threads \cup {NULL}]

LEMMA TypeParts == TypeOK <=> KernelTypeOK /\ MachineTypes /\ TableTypes /\ FileTypes
BY DEF TypeOK, MachineTypes, TableTypes, FileTypes, MemoryAddresses

(* What a step that is no Fork comes to. *)
Typed == KernelInv' /\ MachineTypes' /\ StayCreated

LEMMA Operands ==
    ASSUME MachineTypes
    PROVE  /\ Now \in Instructions
           /\ Arg(1) \in Word /\ Arg(2) \in Word /\ Arg(3) \in Word
           /\ Arg(1) \in Nat /\ Arg(2) \in Nat /\ Arg(3) \in Nat /\ ByteCount \in Int
<1>1. program \in Programs /\ registers \in [Registers -> Word]
    BY DEF MachineTypes
<1>2. Now \in Instructions
    BY <1>1, FetchType DEF Now
<1>3. Arg(1) \in Word /\ Arg(2) \in Word /\ Arg(3) \in Word
    <2>1. 4 \in Registers /\ 5 \in Registers /\ 6 \in Registers
        BY RegisterNames
    <2> QED BY <1>1, <2>1 DEF Arg
<1>4. ByteCount \in Int
    <2>1. Signed(Arg(2)) \in -SignBit .. SignBit - 1 /\ SignBit \in Nat
        BY <1>3, SignedType, WordFacts
    <2> HIDE DEF Arg
    <2>2. Signed(Arg(2)) \in Int
        BY <2>1
    <2> QED BY <2>2 DEF ByteCount
<1> QED BY <1>2, <1>3, <1>4, WordInt

LEMMA LeastOf ==
    ASSUME NEW S \in SUBSET Nat, S # {}
    PROVE  Min(S) \in S /\ \A k \in S : Min(S) <= k
<1>1. \E m \in S : \A k \in S : m <= k
    BY LeastNumber
<1> QED BY <1>1 DEF Min

LEMMA GreatestOf ==
    ASSUME NEW n \in Nat
    PROVE  Max(0 .. n) = n
<1>1. n \in 0 .. n /\ \A k \in 0 .. n : k <= n
    OBVIOUS
<1>2. \E m \in 0 .. n : \A k \in 0 .. n : m >= k
    BY <1>1
<1>3. Max(0 .. n) \in 0 .. n /\ \A k \in 0 .. n : Max(0 .. n) >= k
    BY <1>2 DEF Max
<1> QED BY <1>1, <1>3

(* A step that leaves the kernel alone but, perhaps, for the level. *)
LEMMA StaysInKernel ==
    ASSUME KernelInv, level' \in Levels,
           UNCHANGED <<currentThread, status, readyList, oldLevel, pc, threadToBeDestroyed,
                       destroyed, machine>>
    PROVE  KernelInv' /\ StayCreated
BY DEF KernelInv, KernelTypeOK, ListedAreForked, StayCreated

LEMMA InstructionTypes ==
    ASSUME KernelInv, MachineTypes, NEW t \in Threads, Instruction(t)
    PROVE  Typed
<1> DEFINE bytes == Stored(registers, Now, mainMemory, Table)
<1>1. registers \in [Registers -> Word] /\ mainMemory \in [MemoryAddresses -> Byte]
    BY DEF MachineTypes
<1>2. Raises(registers, Now, Table) = "NoException" /\ Now \in Instructions
    BY Operands DEF Instruction
<1>3. registers' \in [Registers -> Word]
    <2>1. registers' = Execute(registers, Now, mainMemory, Table)
        BY DEF Instruction
    <2> QED BY <1>1, <1>2, <2>1, ExecuteType
<1>4. mainMemory' \in [MemoryAddresses -> Byte]
    <2>1. bytes \in [DOMAIN bytes -> Byte] /\ DOMAIN bytes \subseteq MemoryAddresses
        BY <1>1, <1>2, StoredType
    <2>2. mainMemory' = Overwritten(mainMemory, bytes)
        BY DEF Instruction
    <2> HIDE DEF bytes
    <2> QED BY <1>1, <2>1, <2>2, OverwrittenType
<1>5. KernelInv' /\ StayCreated
    BY StaysInKernel DEF Instruction, Levels
<1>6. UNCHANGED <<program, pageTable, userRegisters, entry, at, slices>>
    BY DEF Instruction
<1> QED BY <1>3, <1>4, <1>5, <1>6 DEF Typed, MachineTypes

LEMMA UserVarsUnchanged ==
    ASSUME KernelInv', StayCreated, MachineTypes, UNCHANGED userVars
    PROVE  Typed
BY DEF Typed, MachineTypes, userVars

LEMMA FailTypes ==
    ASSUME KernelInv, MachineTypes, Fail
    PROVE  Typed
<1>1. KernelInv' /\ StayCreated
    BY DEF Fail, Abort, KernelInv, KernelTypeOK, ListedAreForked, StayCreated
<1> QED BY <1>1, UserVarsUnchanged DEF Fail

LEMMA StopTypes ==
    ASSUME KernelInv, MachineTypes, Stop
    PROVE  Typed
<1>1. KernelInv' /\ StayCreated
    BY DEF Stop, KernelInv, KernelTypeOK, ListedAreForked, StayCreated
<1> QED BY <1>1, UserVarsUnchanged DEF Stop, userVars

(* A step in the kernel that goes on at another place. *)
LEMMA PlaceTypes ==
    ASSUME KernelInv, MachineTypes, NEW t \in Threads, NEW place \in Places,
           InKernel, at' = [at EXCEPT ![t] = place], registers' \in [Registers -> Word],
           UNCHANGED <<program, mainMemory, userRegisters, entry, slices>>, pageTable' \in Threads
    PROVE  Typed
<1>1. KernelInv' /\ StayCreated
    BY StaysInKernel DEF InKernel, KernelInv, KernelTypeOK
<1>2. at' \in [Threads -> Places]
    BY DEF MachineTypes
<1> QED BY <1>1, <1>2 DEF Typed, MachineTypes

LEMMA TrapTypes ==
    ASSUME KernelInv, MachineTypes, NEW t \in Threads, Trap(t)
    PROVE  Typed
<1>1. registers' \in [Registers -> Word]
    <2>1. [registers EXCEPT ![BadVAddrReg] = 0] \in [Registers -> Word] /\ 0 \in Word
        BY WordFacts DEF MachineTypes
    <2> QED BY <2>1, DelayedLoadType DEF Trap
<1>2. "trap" \in Places
    BY DEF Places
<1>3. InKernel /\ at' = [at EXCEPT ![t] = "trap"]
      /\ UNCHANGED <<program, mainMemory, pageTable, userRegisters, entry, slices>>
    BY DEF Trap
<1> QED BY <1>1, <1>2, <1>3, PlaceTypes DEF MachineTypes

LEMMA BackTypes ==
    ASSUME KernelInv, MachineTypes, NEW t \in Threads, Back(t)
    PROVE  Typed
<1>1. "return" \in Places
    BY DEF Places
<1>2. InKernel /\ at' = [at EXCEPT ![t] = "return"]
      /\ UNCHANGED <<program, registers, mainMemory, pageTable, userRegisters, entry, slices>>
    BY DEF Back
<1> QED BY <1>1, <1>2, PlaceTypes DEF MachineTypes

LEMMA ReturnTypes ==
    ASSUME KernelInv, MachineTypes, NEW t \in Threads, ReturnFromSystemCall(t)
    PROVE  Typed
<1>1. KernelInv' /\ StayCreated
    BY StaysInKernel DEF ReturnFromSystemCall, Levels
<1>2. registers' \in [Registers -> Word]
    BY ReturnedType DEF ReturnFromSystemCall, MachineTypes
<1>3. at' \in [Threads -> Places]
    BY DEF ReturnFromSystemCall, MachineTypes, Places
<1>4. UNCHANGED <<program, mainMemory, pageTable, userRegisters, entry, slices>>
    BY DEF ReturnFromSystemCall
<1> QED BY <1>1, <1>2, <1>3, <1>4 DEF Typed, MachineTypes

LEMMA YieldProcessorTypes ==
    ASSUME KernelInv, MachineTypes, NEW t \in Threads, NEW r \in [Registers -> Word],
           YieldProcessor(t, r), registers' \in [Registers -> Word],
           at' \in [Threads -> Places], slices' \in Nat
    PROVE  Typed
<1>1. pageTable' = pageTable /\ program' = program /\ mainMemory' = mainMemory /\ entry' = entry
    BY DEF YieldProcessor
<1>2. KernelInv' /\ StayCreated
    BY YieldTypes DEF YieldProcessor
<1>3. userRegisters' \in [Threads -> [Registers -> Word]]
    BY DEF YieldProcessor, MachineTypes
<1> QED BY <1>1, <1>2, <1>3 DEF Typed, MachineTypes

LEMMA SwitchTypes ==
    ASSUME KernelInv, MachineTypes, NEW t \in Threads, Switch(t) \/ NachOS_Yield(t)
    PROVE  Typed
<1>0. registers \in [Registers -> Word] /\ program \in Programs /\ entry[t] \in Word
      /\ slices \in Nat /\ at \in [Threads -> Places]
    BY DEF MachineTypes
<1>1. CASE TimerInterrupt(t)
    <2>1. registers' \in [Registers -> Word]
        BY <1>0, <1>1, DelayedLoadType, WordFacts DEF TimerInterrupt
    <2>2. slices' \in Nat /\ at' = at /\ YieldProcessor(t, registers')
        BY <1>0, <1>1 DEF TimerInterrupt
    <2> QED BY <1>0, <2>1, <2>2, YieldProcessorTypes
<1>2. CASE Slice(t)
    <2>1. slices' \in Nat /\ at' = at /\ registers' = registers /\ YieldProcessor(t, registers)
        BY <1>0, <1>2 DEF Slice
    <2> QED BY <1>0, <2>1, YieldProcessorTypes
<1>3. CASE NachOS_Yield(t)
    <2>1. /\ slices' = slices /\ at' = [at EXCEPT ![t] = "return"] /\ registers' = registers
          /\ YieldProcessor(t, registers)
        BY <1>3 DEF NachOS_Yield
    <2>2. at' \in [Threads -> Places]
        BY <1>0, <2>1 DEF Places
    <2> QED BY <1>0, <2>1, <2>2, YieldProcessorTypes
<1>4. CASE SwitchBack(t)
    <2>1. registers' \in [Registers -> Word] /\ pageTable' \in Threads
        BY <1>4 DEF SwitchBack, Restored, MachineTypes
    <2>2. KernelInv' /\ StayCreated
        BY <1>4, YieldReturnTypes DEF SwitchBack
    <2>3. UNCHANGED <<program, mainMemory, userRegisters, entry, at, slices>>
        BY <1>4 DEF SwitchBack
    <2> QED BY <2>1, <2>2, <2>3 DEF Typed, MachineTypes
<1>5. CASE StartThread(t)
    <2>1. KernelInv' /\ StayCreated
        BY <1>5 DEF StartThread, ThreadRoot, KernelInv, KernelTypeOK, ListedAreForked, StayCreated,
                    Levels, PCs
    <2> QED BY <1>5, <2>1, UserVarsUnchanged DEF StartThread
<1>6. CASE NachosForkThread(t)
    <2>1. registers' \in [Registers -> Word]
        BY <1>0, <1>6, ForkRegistersType DEF NachosForkThread
    <2>2. "run" \in Places
        BY DEF Places
    <2>3. InKernel /\ at' = [at EXCEPT ![t] = "run"] /\ pageTable' \in Threads
          /\ UNCHANGED <<program, mainMemory, userRegisters, entry, slices>>
        BY <1>6 DEF NachosForkThread
    <2> QED BY <2>1, <2>2, <2>3, PlaceTypes
<1> QED BY <1>1, <1>2, <1>3, <1>4, <1>5, <1>6 DEF Switch

LEMMA SwitchAwayTypes ==
    ASSUME KernelInv, MachineTypes, SwitchAway
    PROVE  Typed
<1>1. KernelInv' /\ StayCreated
    BY DispatchTypes DEF SwitchAway
<1>2. userRegisters' \in [Threads -> [Registers -> Word]]
    BY DEF SwitchAway, MachineTypes
<1>3. UNCHANGED <<program, registers, mainMemory, pageTable, entry, at, slices>>
    BY DEF SwitchAway
<1> QED BY <1>1, <1>2, <1>3 DEF Typed, MachineTypes

-----------------------------------------------------------------------------
(* The calls that leave an answer in register 2. *)
LEMMA AnswerTypes ==
    ASSUME KernelInv, MachineTypes, NEW t \in Threads, NEW word \in Int, Answer(t, word),
           level' \in Levels, mainMemory' \in [MemoryAddresses -> Byte]
    PROVE  Typed
<1>1. KernelInv' /\ StayCreated
    BY StaysInKernel DEF Answer
<1>2. registers' \in [Registers -> Word]
    BY ModWord DEF Answer, MachineTypes
<1>3. at' \in [Threads -> Places]
    BY DEF Answer, MachineTypes, Places
<1>4. UNCHANGED <<program, pageTable, userRegisters, entry, slices>>
    BY DEF Answer
<1> QED BY <1>1, <1>2, <1>3, <1>4 DEF Typed, MachineTypes

(* A byte that can be read lies in memory. *)
LEMMA ReadInMemory ==
    ASSUME NEW addr \in Int, Reads(addr)
    PROVE  Physical(Table, addr % WordSize) \in MemoryAddresses
<1> DEFINE a == addr % WordSize
           f == Physical(Table, a)
<1>1. a \in Word
    BY ModWord
<1>2. Translate(Table, a, 1) = "NoException"
    BY DEF Reads
<1> HIDE DEF a
<1>3. \A k \in 0 .. 1 - 1 : f + k \in MemoryAddresses
    BY <1>1, <1>2, TranslatedInMemory
<1>4. f \in Nat
    BY <1>1, <1>2, TranslatedInMemory
<1> HIDE DEF f
<1>5. f + 0 \in MemoryAddresses /\ f + 0 = f
    BY <1>3, <1>4
<1> QED BY <1>5 DEF f, a

LEMMA ReceivedTypes ==
    ASSUME MachineTypes, NEW size \in Int, NEW n \in Int, size <= n,
           ReadsBuffer(Arg(1), n), Received(Arg(1), size)
    PROVE  mainMemory' \in [MemoryAddresses -> Byte]
<1> DEFINE buffer == {Physical(Table, (Arg(1) + k) % WordSize) : k \in 0 .. size - 1}
<1>1. ASSUME NEW k \in 0 .. size - 1 PROVE Physical(Table, (Arg(1) + k) % WordSize) \in MemoryAddresses
    <2>1. Arg(1) + k \in Int
        BY Operands
    <2>2. Reads(Arg(1) + k)
        BY DEF ReadsBuffer
    <2> QED BY <2>1, <2>2, ReadInMemory
<1>2. buffer \subseteq MemoryAddresses
    BY <1>1
<1>3. PICK bytes \in [buffer -> Byte] : mainMemory' = Overwritten(mainMemory, bytes)
    BY DEF Received
<1> HIDE DEF buffer
<1>4. DOMAIN bytes = buffer
    OBVIOUS
<1>5. mainMemory \in [MemoryAddresses -> Byte]
    BY DEF MachineTypes
<1> QED BY <1>2, <1>3, <1>4, <1>5, OverwrittenType

LEMMA TransferTypes ==
    ASSUME KernelInv, MachineTypes, NEW t \in Threads, NachOS_Write(t) \/ NachOS_Read(t)
    PROVE  Typed
<1>1. level' \in Levels
    BY DEF NachOS_Write, NachOS_Read, Levels
<1>2. ByteCount \in Int /\ mainMemory \in [MemoryAddresses -> Byte]
    BY Operands DEF MachineTypes
<1>3. \E word \in Int : Answer(t, word)
    <2>1. NoAnswer \in Int /\ 1 \in Int /\ -1 .. ByteCount \subseteq Int
        BY <1>2 DEF NoAnswer
    <2> QED BY <2>1 DEF NachOS_Write, NachOS_Read
<1>4. mainMemory' \in [MemoryAddresses -> Byte]
    <2>1. CASE NachOS_Write(t)
        BY <1>2, <2>1 DEF NachOS_Write
    <2>2. CASE NachOS_Read(t)
        <3>1. \/ UNCHANGED mainMemory
              \/ ReadsBuffer(Arg(1), ByteCount + 1) /\ Received(Arg(1), ByteCount)
              \/ ReadsBuffer(Arg(1), ByteCount) /\ Received(Arg(1), ByteCount)
            BY <2>2 DEF NachOS_Read
        <3>2. ByteCount + 1 \in Int /\ ByteCount <= ByteCount + 1 /\ ByteCount <= ByteCount
            BY <1>2
        <3> QED BY <1>2, <3>1, <3>2, ReceivedTypes
    <2> QED BY <2>1, <2>2
<1> QED BY <1>1, <1>3, <1>4, AnswerTypes

(* UNIX always has a descriptor to give when one is free. *)
LEMMA LeastFd ==
    ASSUME FreeFds # {}
    PROVE  Min(FreeFds) \in 0 .. MaxFd /\ Min(FreeFds) \notin DOMAIN unix
<1>1. FreeFds \in SUBSET Nat
    BY FilesAssumption DEF FreeFds
<1>2. Min(FreeFds) \in FreeFds
    BY <1>1, LeastOf
<1> QED BY <1>2 DEF FreeFds

LEMMA OpenedTypes ==
    ASSUME FileTypes, NEW t \in Threads, FreeFds # {}
    PROVE  /\ DOMAIN Opened(t) \subseteq 0 .. MaxFd
           /\ Opened(t) \in [DOMAIN Opened(t) -> Threads \cup {NULL}]
<1>1. Min(FreeFds) \in 0 .. MaxFd
    BY LeastFd
<1> DEFINE fd == Min(FreeFds)
<1> HIDE DEF fd
<1>2. DOMAIN unix \cup {fd} \subseteq 0 .. MaxFd
    BY <1>1 DEF FileTypes, fd
<1>3. Opened(t) = [f \in DOMAIN unix \cup {fd} |-> IF f \in DOMAIN unix THEN unix[f] ELSE t]
    BY DEF Opened, fd
<1> QED BY <1>2, <1>3 DEF FileTypes

LEMMA HandleSets ==
    /\ StandardFiles \subseteq Handles /\ Handles \subseteq Nat
    /\ {0, 1, 2, 3} = StandardFiles /\ MaxFiles \in Nat /\ 4 \in Handles
BY FilesAssumption DEF StandardFiles, Handles

LEMMA OpenedTableTypes ==
    ASSUME NEW files \in [open : SUBSET Handles, users : Int, count : [Handles -> Int]],
           NEW fd \in Int
    PROVE  /\ OpenedTable(files, fd).files \in [open : SUBSET Handles, users : Int, count : [Handles -> Int]]
           /\ OpenedTable(files, fd).handle \in Int
<1> DEFINE free == Handles \ files.open
           users == files.users + 1
           m == Min(free)
<1>1. files.open \subseteq Handles /\ files.users \in Int /\ files.count \in [Handles -> Int]
    OBVIOUS
<1>2. users \in Int /\ 0 \in Handles
    BY <1>1, HandleSets DEF StandardFiles
<1>3. free # {} => m \in Handles /\ m \in Int
    <2>1. free \in SUBSET Nat
        BY HandleSets
    <2>2. free # {} => m \in free
        <3> HIDE DEF free
        <3> QED BY <2>1, LeastOf
    <2> QED BY <2>1, <2>2, HandleSets
<1> DEFINE F == [open : SUBSET Handles, users : Int, count : [Handles -> Int]]
<1>4. ASSUME NEW u \in Int PROVE [files EXCEPT !.users = u] \in F
    OBVIOUS
<1>5. ASSUME NEW u \in Int, NEW h \in Handles, NEW c \in Int
      PROVE  [files EXCEPT !.users = u, !.open = files.open \cup {h},
                           !.count = [files.count EXCEPT ![h] = c]] \in F
    <2>1. files.open \cup {h} \in SUBSET Handles /\ [files.count EXCEPT ![h] = c] \in [Handles -> Int]
        BY <1>1
    <2> QED BY <2>1
<1>6. OpenedTable(files, fd) =
        IF users = 0
        THEN [files |-> [files EXCEPT !.users = users, !.open = files.open \cup {0},
                                      !.count = [files.count EXCEPT ![0] = 1]], handle |-> 0]
        ELSE IF users < 0 THEN [files |-> [files EXCEPT !.users = users], handle |-> -1]
        ELSE IF fd \notin files.open THEN [files |-> [files EXCEPT !.users = users], handle |-> 1]
        ELSE IF free = {} THEN [files |-> [files EXCEPT !.users = users], handle |-> -1]
        ELSE [files |-> [files EXCEPT !.users = users, !.open = files.open \cup {m},
                                      !.count = [files.count EXCEPT ![m] = fd]], handle |-> m]
    BY DEF OpenedTable
<1> HIDE DEF free, users, m, F
<1>7. CASE users = 0
    <2>1. [files EXCEPT !.users = users, !.open = files.open \cup {0},
                        !.count = [files.count EXCEPT ![0] = 1]] \in F
        <3>1. 1 \in Int
            OBVIOUS
        <3> QED BY <1>2, <1>5, <3>1, Zenon
    <2> QED BY <1>6, <1>7, <2>1 DEF F
<1>8. CASE users # 0 /\ (users < 0 \/ fd \notin files.open \/ free = {})
    <2>1. [files EXCEPT !.users = users] \in F
        BY <1>2, <1>4
    <2> QED BY <1>6, <1>8, <2>1 DEF F
<1>9. CASE users # 0 /\ ~(users < 0) /\ fd \in files.open /\ free # {}
    <2>1. [files EXCEPT !.users = users, !.open = files.open \cup {m},
                        !.count = [files.count EXCEPT ![m] = fd]] \in F
        BY <1>2, <1>3, <1>5, <1>9
    <2> QED BY <1>3, <1>6, <1>9, <2>1 DEF F
<1> QED BY <1>7, <1>8, <1>9

LEMMA SocketTypes ==
    ASSUME KernelInv, MachineTypes, FileTypes, NEW t \in Threads, NachOS_Socket(t)
    PROVE  Typed /\ FileTypes'
<1> DEFINE fd == Min(FreeFds)
           new == OpenedTable(fileTable[t], fd)
<1>1. FreeFds # {}
    BY DEF NachOS_Socket
<1>2. fd \in Int
    BY <1>1, LeastFd
<1>3. fileTable[t] \in [open : SUBSET Handles, users : Int, count : [Handles -> Int]]
    BY DEF FileTypes
<1> HIDE DEF fd
<1>4. /\ new.files \in [open : SUBSET Handles, users : Int, count : [Handles -> Int]]
      /\ new.handle \in Int
    BY <1>2, <1>3, OpenedTableTypes
<1>5. CASE fileTable[t].users >= 0 /\ fd \notin Handles
    <2>1. Fail
        BY <1>5 DEF NachOS_Socket, fd
    <2>2. Typed
        BY <2>1, FailTypes
    <2> QED BY <2>1, <2>2 DEF Fail, userVars, FileTypes
<1>6. CASE ~(fileTable[t].users >= 0 /\ fd \notin Handles)
    <2>1. Answer(t, new.handle) /\ unix' = Opened(t)
          /\ fileTable' = [fileTable EXCEPT ![t] = new.files] /\ UNCHANGED <<level, mainMemory>>
        BY <1>6 DEF NachOS_Socket, fd
    <2> HIDE DEF new
    <2>2. level' \in Levels /\ mainMemory' \in [MemoryAddresses -> Byte]
        BY <2>1 DEF KernelInv, KernelTypeOK, MachineTypes
    <2>3. Typed
        BY <1>4, <2>1, <2>2, AnswerTypes
    <2>4. FileTypes'
        <3>1. DOMAIN unix' \subseteq 0 .. MaxFd /\ unix' \in [DOMAIN unix' -> Threads \cup {NULL}]
            BY <1>1, <2>1, OpenedTypes
        <3> QED BY <1>4, <2>1, <3>1 DEF FileTypes
    <2> QED BY <2>3, <2>4
<1> QED BY <1>5, <1>6

LEMMA AcceptTypes ==
    ASSUME KernelInv, MachineTypes, FileTypes, NEW t \in Threads, NachOS_Accept(t)
    PROVE  Typed /\ FileTypes'
<1>1. FreeFds # {} /\ Answer(t, Min(FreeFds)) /\ unix' = Opened(t)
      /\ UNCHANGED <<level, mainMemory, fileTable>>
    BY DEF NachOS_Accept
<1>2. Min(FreeFds) \in Int
    BY <1>1, LeastFd
<1>3. level' \in Levels /\ mainMemory' \in [MemoryAddresses -> Byte]
    BY <1>1 DEF KernelInv, KernelTypeOK, MachineTypes
<1>4. Typed
    BY <1>1, <1>2, <1>3, AnswerTypes
<1>5. DOMAIN unix' \subseteq 0 .. MaxFd /\ unix' \in [DOMAIN unix' -> Threads \cup {NULL}]
    BY <1>1, OpenedTypes
<1> QED BY <1>1, <1>4, <1>5 DEF FileTypes

LEMMA ExecTypes ==
    ASSUME KernelInv, MachineTypes, FileTypes, NEW t \in Threads, NachOS_Exec(t)
    PROVE  Typed /\ FileTypes'
<1>1. "return" \in Places
    BY DEF Places
<1>2. /\ FreeFds # {} /\ unix' = Opened(t) /\ fileTable' = fileTable
      /\ InKernel /\ at' = [at EXCEPT ![t] = "return"]
      /\ UNCHANGED <<program, registers, mainMemory, pageTable, userRegisters, entry, slices>>
    BY DEF NachOS_Exec
<1>3. Typed
    BY <1>1, <1>2, PlaceTypes DEF MachineTypes
<1>4. DOMAIN unix' \subseteq 0 .. MaxFd /\ unix' \in [DOMAIN unix' -> Threads \cup {NULL}]
    BY <1>2, OpenedTypes
<1> QED BY <1>2, <1>3, <1>4 DEF FileTypes

LEMMA CloseTypes ==
    ASSUME KernelInv, MachineTypes, FileTypes, NEW t \in Threads, NachOS_Close(t)
    PROVE  Typed /\ FileTypes'
<1> DEFINE h == Arg(1)
           files == fileTable[t]
           F == [open : SUBSET Handles, users : Int, count : [Handles -> Int]]
<1>1. files \in F
    BY DEF FileTypes
<1>2. level' \in Levels /\ mainMemory' \in [MemoryAddresses -> Byte]
    BY DEF NachOS_Close, Levels, MachineTypes
<1>3. \E word \in Int : Answer(t, word)
    BY DEF NachOS_Close, NoAnswer
<1>4. Typed
    BY <1>2, <1>3, AnswerTypes
<1>5. ClosedTable(files, h) \in F
    <2> HIDE DEF files, h
    <2> DEFINE c == [files.count EXCEPT ![h] = @ - 1]
               o == IF files.count[h] = 1 THEN files.open \ {h} ELSE files.open
    <2>1. c \in [Handles -> Int] /\ o \in SUBSET Handles
        <3>1. files.count \in [Handles -> Int] /\ files.open \in SUBSET Handles
            BY <1>1
        <3>2. c \in [Handles -> Int]
            <4>1. CASE h \in Handles
                BY <3>1, <4>1
            <4>2. CASE h \notin Handles
                BY <3>1, <4>2
            <4> QED BY <4>1, <4>2
        <3> QED BY <3>1, <3>2
    <2>2. ClosedTable(files, h) = IF files.users = 0 THEN files
                                  ELSE [files EXCEPT !.count = c, !.open = o]
        BY DEF ClosedTable
    <2> HIDE DEF c, o
    <2> QED BY <1>1, <2>1, <2>2
<1>6. [files EXCEPT !.users = @ - 1] \in F
    BY <1>1
<1>7. fileTable' \in [Threads -> F]
    <2>1. \/ fileTable' = fileTable
          \/ fileTable' = [fileTable EXCEPT ![t] = ClosedTable(files, h)]
          \/ fileTable' = [fileTable EXCEPT ![t] = [files EXCEPT !.users = @ - 1]]
        BY DEF NachOS_Close, FileTypes
    <2> HIDE DEF files, h
    <2> QED BY <1>5, <1>6, <2>1 DEF FileTypes
<1>8. \/ unix' = unix
      \/ unix' = [fd \in DOMAIN unix \ {h} |-> unix[fd]]
    BY DEF NachOS_Close
<1>9. DOMAIN unix' \subseteq 0 .. MaxFd /\ unix' \in [DOMAIN unix' -> Threads \cup {NULL}]
    <2> HIDE DEF h
    <2> QED BY <1>8 DEF FileTypes
<1> QED BY <1>4, <1>7, <1>9 DEF FileTypes

-----------------------------------------------------------------------------
(* Fork: the tables it makes. *)
HasSpace == \A t \in Threads : status[t] # "JUST_CREATED" => space[t] # NoTable
Marking == \A t \in Threads : at[t] = "mark" =>
    \E n \in Pages : building[t] \in Tables(0 .. n) /\ building[t][n] \in Frames
TypeInv == TypeOK /\ ListedAreForked /\ HasSpace /\ Marking
TableInv == TableTypes /\ HasSpace /\ Marking

LEMMA PageSets ==
    ASSUME MachineTypes
    PROVE  /\ NumPages(program) - StackPages \in Pages
           /\ SharedPages(program) = 0 .. NumPages(program) - StackPages
           /\ SharedPages(program) \subseteq Pages /\ OwnPages(program) \subseteq Pages
           /\ NumPages(program) \in Nat /\ 0 \in Pages /\ Pages \subseteq Nat
           /\ 0 \in SharedPages(program)
           /\ Pages = SharedPages(program) \cup OwnPages(program)
           /\ Pages \subseteq Frames /\ -1 \notin Frames
<1>1. program \in Programs
    BY DEF MachineTypes
<1>2. /\ NumPages(program) \in Nat /\ StackPages \in Nat /\ StackPages >= 2
      /\ NumPages(program) >= StackPages /\ NumPages(program) <= NumPhysPages
      /\ NumPhysPages \in Nat
    BY <1>1, ProgramFacts, CpuAssumption
<1> QED BY <1>2 DEF Pages, SharedPages, OwnPages, Frames

LEMMA FreeFrameFacts ==
    ASSUME TableTypes
    PROVE  FreeFrame \in {-1} \cup Frames /\ FreeFrame \notin MiMapa
<1>1. CASE Frames \ MiMapa = {}
    <2>1. -1 \notin Frames
        BY DEF Frames
    <2> QED BY <1>1, <2>1 DEF FreeFrame, TableTypes
<1>2. CASE Frames \ MiMapa # {}
    <2>1. Frames \ MiMapa \in SUBSET Nat
        BY CpuAssumption DEF Frames
    <2>2. Min(Frames \ MiMapa) \in Frames \ MiMapa
        BY <1>2, <2>1, LeastOf
    <2> QED BY <1>2, <2>2 DEF FreeFrame
<1> QED BY <1>1, <1>2

(* The table that a thread in Fork has begun. *)
LEMMA BegunTable ==
    ASSUME MachineTypes, TableTypes, NEW t \in Threads, building[t] # NoTable
    PROVE  \E n \in Pages : /\ building[t] \in Tables(0 .. n) /\ DOMAIN building[t] = 0 .. n
                            /\ Cardinality(DOMAIN building[t]) = n + 1
                            /\ Max(DOMAIN building[t]) = n
<1>1. PICK n \in Pages : building[t] \in Tables(0 .. n)
    BY DEF TableTypes
<1>2. n \in Nat
    BY PageSets
<1>3. DOMAIN building[t] = 0 .. n
    BY <1>1 DEF Tables
<1>4. Cardinality(0 .. n) = n + 1
    BY <1>2, FS_Interval
<1>5. Max(0 .. n) = n
    BY <1>2, GreatestOf
<1> QED BY <1>1, <1>3, <1>4, <1>5

LEMMA ForkStartTypes ==
    ASSUME KernelInv, MachineTypes, TableInv, NEW t \in Threads, ForkStart(t)
    PROVE  Typed /\ TableInv'
<1> DEFINE table == [p \in SharedPages(program) |-> space[t][p]]
           n == NumPages(program) - StackPages
<1>1. /\ InKernel /\ at' = [at EXCEPT ![t] = "find"] /\ building' = [building EXCEPT ![t] = table]
      /\ UNCHANGED <<program, registers, mainMemory, pageTable, space, userRegisters,
                     MiMapa, entry, slices>>
      /\ status[t] = "RUNNING"
    BY DEF ForkStart, Calls, At, Executing
<1>2. Typed
    <2>1. "find" \in Places
        BY DEF Places
    <2> QED BY <1>1, <2>1, PlaceTypes DEF MachineTypes
<1>3. space[t] \in Tables(Pages)
    BY <1>1 DEF TableInv, TableTypes, HasSpace
<1>4. SharedPages(program) = 0 .. n /\ n \in Pages /\ SharedPages(program) \subseteq Pages
    BY PageSets
<1>5. table \in Tables(0 .. n)
    BY <1>3, <1>4 DEF Tables
<1> HIDE DEF table, n
<1>6. Pages' = Pages
    BY <1>1 DEF Pages
<1>7. TableTypes'
    <2>1. \A u \in Threads : building'[u] = IF u = t THEN table ELSE building[u]
        BY <1>1 DEF TableInv, TableTypes
    <2>2. building' = [u \in Threads |-> building'[u]]
        BY <1>1 DEF TableInv, TableTypes
    <2> QED BY <1>1, <1>4, <1>5, <1>6, <2>1, <2>2 DEF TableInv, TableTypes
<1>8. HasSpace'
    BY <1>1 DEF TableInv, HasSpace, InKernel
<1>9. Marking'
    <2>1. ASSUME NEW u \in Threads, at'[u] = "mark" PROVE u # t /\ at[u] = "mark"
        BY <1>1, <2>1 DEF MachineTypes
    <2>2. ASSUME NEW u \in Threads, u # t PROVE building'[u] = building[u]
        BY <1>1, <2>2 DEF TableInv, TableTypes
    <2> QED BY <1>6, <2>1, <2>2 DEF TableInv, Marking
<1> QED BY <1>2, <1>7, <1>8, <1>9 DEF TableInv

LEMMA FindTestTypes ==
    ASSUME KernelInv, MachineTypes, TableInv, NEW t \in Threads, FindTest(t)
    PROVE  Typed /\ TableInv'
<1>0. building[t] # NoTable /\ Pages # DOMAIN building[t]
    BY DEF FindTest
<1>1. PICK n \in Pages : /\ building[t] \in Tables(0 .. n) /\ DOMAIN building[t] = 0 .. n
                         /\ Cardinality(DOMAIN building[t]) = n + 1
    BY <1>0, BegunTable DEF TableInv
<1> DEFINE old == building[t]
           table == [p \in 0 .. n + 1 |-> IF p \in 0 .. n THEN old[p] ELSE FreeFrame]
           place == IF FreeFrame = -1 THEN "find" ELSE "mark"
<1>2. /\ InKernel /\ at' = [at EXCEPT ![t] = place]
      /\ UNCHANGED <<program, registers, mainMemory, pageTable, space, userRegisters,
                     MiMapa, entry, slices>>
    BY DEF FindTest
<1>3. building' = [building EXCEPT ![t] = table]
    <2>1. building' = [building EXCEPT ![t] =
                [p \in 0 .. Cardinality(DOMAIN old) |-> IF p \in DOMAIN old THEN old[p] ELSE FreeFrame]]
        BY DEF FindTest, TableInv, TableTypes
    <2> QED BY <1>1, <2>1
<1>4. Typed
    <2>1. place \in Places
        BY DEF Places
    <2> HIDE DEF place
    <2> QED BY <1>2, <2>1, PlaceTypes DEF MachineTypes
<1>5. n + 1 \in Pages
    <2>1. n # NumPages(program) - 1
        BY <1>0, <1>1 DEF Pages
    <2> QED BY <2>1, PageSets DEF Pages
<1>6. FreeFrame \in {-1} \cup Frames
    BY FreeFrameFacts DEF TableInv
<1>7. table \in Tables(0 .. n + 1)
    BY <1>1, <1>6 DEF Tables
<1>8. table[n + 1] = FreeFrame
    <2>1. n + 1 \in 0 .. n + 1 /\ n + 1 \notin 0 .. n
        BY <1>5, PageSets
    <2> QED BY <2>1
<1> HIDE DEF table
<1>9. Pages' = Pages
    BY <1>2 DEF Pages
<1>10. \A u \in Threads : building'[u] = IF u = t THEN table ELSE building[u]
    BY <1>3 DEF TableInv, TableTypes
<1>11. TableTypes'
    <2>1. building' = [u \in Threads |-> building'[u]]
        BY <1>3 DEF TableInv, TableTypes
    <2> QED BY <1>2, <1>5, <1>7, <1>9, <1>10, <2>1 DEF TableInv, TableTypes
<1>12. HasSpace'
    BY <1>2 DEF TableInv, HasSpace, InKernel
<1>13. Marking'
    <2> SUFFICES ASSUME NEW u \in Threads, at'[u] = "mark"
                 PROVE  \E m \in Pages : building'[u] \in Tables(0 .. m) /\ building'[u][m] \in Frames
        BY <1>9 DEF Marking
    <2>1. CASE u = t
        <3>1. FreeFrame # -1
            BY <1>2, <2>1 DEF MachineTypes
        <3> QED BY <1>5, <1>6, <1>7, <1>8, <1>10, <2>1, <3>1
    <2>2. CASE u # t
        <3>1. at[u] = "mark"
            BY <1>2, <2>2 DEF MachineTypes
        <3> QED BY <1>10, <2>2, <3>1 DEF TableInv, Marking
    <2> QED BY <2>1, <2>2
<1> QED BY <1>4, <1>11, <1>12, <1>13 DEF TableInv

LEMMA FindMarkTypes ==
    ASSUME KernelInv, MachineTypes, TableInv, NEW t \in Threads, FindMark(t)
    PROVE  Typed /\ TableInv'
<1>1. /\ InKernel /\ at' = [at EXCEPT ![t] = "find"] /\ at[t] = "mark"
      /\ MiMapa' = MiMapa \cup {building[t][Max(DOMAIN building[t])]}
      /\ UNCHANGED <<program, registers, mainMemory, pageTable, space, building, userRegisters,
                     entry, slices>>
    BY DEF FindMark, At
<1>2. Typed
    <2>1. "find" \in Places
        BY DEF Places
    <2> QED BY <1>1, <2>1, PlaceTypes DEF MachineTypes
<1>3. building[t][Max(DOMAIN building[t])] \in Frames
    <2>1. PICK n \in Pages : building[t] \in Tables(0 .. n) /\ building[t][n] \in Frames
        BY <1>1 DEF TableInv, Marking
    <2>2. DOMAIN building[t] = 0 .. n /\ n \in Nat
        BY <2>1, PageSets DEF Tables
    <2> QED BY <2>1, <2>2, GreatestOf
<1>4. Pages' = Pages
    BY <1>1 DEF Pages
<1>5. TableTypes'
    BY <1>1, <1>3, <1>4 DEF TableInv, TableTypes
<1>6. HasSpace'
    BY <1>1 DEF TableInv, HasSpace, InKernel
<1>7. Marking'
    <2>1. ASSUME NEW u \in Threads, at'[u] = "mark" PROVE at[u] = "mark"
        BY <1>1, <2>1 DEF MachineTypes
    <2> QED BY <1>1, <1>4, <2>1 DEF TableInv, Marking
<1> QED BY <1>2, <1>5, <1>6, <1>7 DEF TableInv

(* The thread that ForkChild chooses. *)
Child == CHOOSE u \in Threads : status[u] = "JUST_CREATED"

LEMMA ForkChildEffect ==
    ASSUME KernelInv, MachineTypes, TableTypes, NEW t \in Threads, ForkChild(t)
    PROVE  /\ Child \in Threads /\ status[Child] = "JUST_CREATED" /\ status[t] = "RUNNING" /\ at[t] = "find"
           /\ Fork(t, Child)
           /\ space' = [space EXCEPT ![Child] = building[t]]
           /\ entry' = [entry EXCEPT ![Child] = Arg(1)]
           /\ building' = [building EXCEPT ![t] = NoTable]
           /\ at' = [at EXCEPT ![t] = "return"]
           /\ building[t] \in Tables(Pages) /\ building[t] # NoTable
           /\ UNCHANGED <<program, registers, mainMemory, pageTable, userRegisters, MiMapa,
                          fileTable, unix, slices>>
<1>1. Child \in Threads /\ status[Child] = "JUST_CREATED"
    BY DEF ForkChild, Child
<1>2. /\ Fork(t, Child) /\ space' = [space EXCEPT ![Child] = building[t]]
      /\ entry' = [entry EXCEPT ![Child] = Arg(1)] /\ status[t] = "RUNNING" /\ at[t] = "find"
    BY DEF ForkChild, Child, At, Executing
<1>3. DOMAIN building[t] = Pages
    BY DEF ForkChild
<1>4. building[t] # NoTable
    <2>1. DOMAIN NoTable = {} /\ 0 \in Pages
        BY PageSets DEF NoTable
    <2> QED BY <1>3, <2>1
<1>5. building[t] \in Tables(Pages)
    <2>1. PICK n \in Pages : building[t] \in Tables(0 .. n) /\ DOMAIN building[t] = 0 .. n
        BY <1>4, BegunTable
    <2> QED BY <1>3, <2>1
<1> QED BY <1>1, <1>2, <1>4, <1>5 DEF ForkChild

LEMMA ForkChildTypes ==
    ASSUME KernelInv, MachineTypes, TableInv, NEW t \in Threads, ForkChild(t)
    PROVE  KernelInv' /\ MachineTypes' /\ TableInv'
<1>1. /\ Child \in Threads /\ status[t] = "RUNNING" /\ at[t] = "find" /\ Fork(t, Child)
      /\ space' = [space EXCEPT ![Child] = building[t]]
      /\ entry' = [entry EXCEPT ![Child] = Arg(1)]
      /\ building' = [building EXCEPT ![t] = NoTable]
      /\ at' = [at EXCEPT ![t] = "return"]
      /\ building[t] \in Tables(Pages) /\ building[t] # NoTable
      /\ UNCHANGED <<program, registers, mainMemory, pageTable, userRegisters, MiMapa, slices>>
    BY ForkChildEffect DEF TableInv
<1>2. KernelInv' /\ \A v \in Threads : status'[v] = IF v = Child THEN "READY" ELSE status[v]
    BY <1>1, ForkTypes
<1>3. MachineTypes'
    BY <1>1, Operands DEF MachineTypes, Places
<1>4. Pages' = Pages
    BY <1>1 DEF Pages
<1>5. \A u \in Threads : /\ building'[u] = IF u = t THEN NoTable ELSE building[u]
                         /\ space'[u] = IF u = Child THEN building[t] ELSE space[u]
    BY <1>1 DEF TableInv, TableTypes
<1>6. TableTypes'
    <2>1. building' = [u \in Threads |-> building'[u]]
        BY <1>1 DEF TableInv, TableTypes
    <2>2. space' \in [Threads -> {NoTable} \cup Tables(Pages)]
        BY <1>1 DEF TableInv, TableTypes
    <2> QED BY <1>1, <1>4, <1>5, <2>1, <2>2 DEF TableInv, TableTypes
<1>7. HasSpace'
    BY <1>1, <1>2, <1>5 DEF TableInv, HasSpace
<1>8. Marking'
    <2>1. ASSUME NEW u \in Threads, at'[u] = "mark" PROVE u # t /\ at[u] = "mark"
        BY <1>1, <2>1 DEF MachineTypes
    <2> QED BY <1>4, <1>5, <2>1 DEF TableInv, Marking
<1> QED BY <1>2, <1>3, <1>6, <1>7, <1>8 DEF TableInv

-----------------------------------------------------------------------------
(* Every step of the system: one that changes the tables, one that changes  *)
(* the open files, or one that leaves both alone.                           *)
TableStep(t) == ForkStart(t) \/ FindTest(t) \/ FindMark(t) \/ ForkChild(t)
FileStep(t) == NachOS_Close(t) \/ NachOS_Socket(t) \/ NachOS_Accept(t) \/ NachOS_Exec(t)
TablesKept ==
    /\ UNCHANGED <<program, space, building, MiMapa>>
    /\ \A u \in Threads : at[u] \in {"find", "mark"} \/ at'[u] \in {"find", "mark"} => at'[u] = at[u]
FilesKept == UNCHANGED <<fileTable, unix>>

LEMMA MovesOn ==
    ASSUME MachineTypes, NEW t \in Threads, NEW place, place \notin {"find", "mark"},
           at[t] \notin {"find", "mark"}, at' = [at EXCEPT ![t] = place]
    PROVE  \A u \in Threads : at[u] \in {"find", "mark"} \/ at'[u] \in {"find", "mark"} => at'[u] = at[u]
BY DEF MachineTypes

LEMMA UserVarsKept ==
    ASSUME UNCHANGED userVars
    PROVE  TablesKept /\ FilesKept
BY DEF userVars, TablesKept, FilesKept

LEMMA SystemCallsKeep ==
    ASSUME KernelInv, MachineTypes, NEW t \in Threads,
           SystemCall(t), ~FileStep(t), ~ForkStart(t)
    PROVE  Typed /\ TablesKept /\ FilesKept
<1>0. at[t] = "trap"
    BY DEF SystemCall, NachOS_Halt, TransferFails, CloseFails, UnexpectedCall, SocketFails,
           ExecFails, EmptyCall, NachOS_Exit, NachOS_Write, NachOS_Read, NachOS_Yield,
           NachOS_Connect, NachOS_Listen, FileStep, Calls, At
<1>1. ASSUME Fail \/ Stop PROVE Typed /\ TablesKept /\ FilesKept
    <2>1. UNCHANGED userVars
        BY <1>1 DEF Fail, Stop, userVars
    <2> QED BY <1>1, <2>1, FailTypes, StopTypes, UserVarsKept
<1>2. ASSUME Back(t) PROVE Typed /\ TablesKept /\ FilesKept
    <2>1. TablesKept
        BY <1>0, <1>2, MovesOn DEF Back, TablesKept
    <2>2. FilesKept
        BY <1>2 DEF Back, FilesKept
    <2> QED BY <1>2, <2>1, <2>2, BackTypes
<1>3. ASSUME NEW word \in Int, Answer(t, word) PROVE TablesKept
    BY <1>0, <1>3, MovesOn DEF Answer, TablesKept
<1>4. CASE NachOS_Halt(t) \/ TransferFails(t) \/ CloseFails(t) \/ UnexpectedCall(t) \/ SocketFails(t)
    <2>1. Fail \/ Stop
        BY <1>4 DEF NachOS_Halt, TransferFails, CloseFails, UnexpectedCall, SocketFails
    <2> QED BY <1>1, <2>1
<1>5. CASE ExecFails(t) \/ EmptyCall(t)
    <2>1. Fail \/ Back(t)
        BY <1>5 DEF ExecFails, EmptyCall
    <2> QED BY <1>1, <1>2, <2>1
<1>6. CASE NachOS_Exit(t)
    <2>1. Finish(t) /\ UNCHANGED userVars
        BY <1>6 DEF NachOS_Exit
    <2>2. Typed
        BY <2>1, FinishTypes, UserVarsUnchanged
    <2> QED BY <2>1, <2>2, UserVarsKept
<1>7. CASE NachOS_Write(t) \/ NachOS_Read(t)
    <2>1. Typed
        BY <1>7, TransferTypes
    <2>2. \E word \in Int : Answer(t, word)
        <3>1. NoAnswer \in Int /\ 1 \in Int /\ -1 .. ByteCount \subseteq Int
            BY Operands DEF NoAnswer
        <3> QED BY <1>7, <3>1 DEF NachOS_Write, NachOS_Read
    <2>3. FilesKept
        BY <1>7 DEF NachOS_Write, NachOS_Read, FilesKept
    <2> QED BY <1>3, <2>1, <2>2, <2>3
<1>8. CASE NachOS_Yield(t)
    <2>1. Typed
        BY <1>8, SwitchTypes
    <2>2. TablesKept
        BY <1>0, <1>8, MovesOn DEF NachOS_Yield, YieldProcessor, TablesKept
    <2>3. FilesKept
        BY <1>8 DEF NachOS_Yield, YieldProcessor, FilesKept
    <2> QED BY <2>1, <2>2, <2>3
<1>9. CASE NachOS_Connect(t) \/ NachOS_Listen(t)
    <2>1. Fail \/ (Answer(t, 0) /\ UNCHANGED <<level, mainMemory, fileTable, unix>>)
        BY <1>9 DEF NachOS_Connect, NachOS_Listen
    <2>2. ASSUME Answer(t, 0), UNCHANGED <<level, mainMemory, fileTable, unix>>
          PROVE  Typed /\ TablesKept /\ FilesKept
        <3>1. level' \in Levels /\ mainMemory' \in [MemoryAddresses -> Byte] /\ 0 \in Int
            BY <2>2 DEF KernelInv, KernelTypeOK, MachineTypes
        <3>2. Typed
            BY <2>2, <3>1, AnswerTypes
        <3> QED BY <1>3, <2>2, <3>1, <3>2 DEF FilesKept
    <2> QED BY <1>1, <2>1, <2>2
<1> QED BY <1>4, <1>5, <1>6, <1>7, <1>8, <1>9 DEF SystemCall, FileStep

LEMMA SwitchesKeep ==
    ASSUME KernelInv, MachineTypes, NEW t \in Threads, Switch(t)
    PROVE  Typed /\ TablesKept /\ FilesKept
<1>1. Typed
    BY SwitchTypes
<1>2. FilesKept
    BY DEF Switch, TimerInterrupt, Slice, SwitchBack, StartThread, NachosForkThread,
           YieldProcessor, userVars, FilesKept
<1>3. UNCHANGED <<program, space, building, MiMapa>>
    BY DEF Switch, TimerInterrupt, Slice, SwitchBack, StartThread, NachosForkThread,
           YieldProcessor, userVars
<1>4. at' = at \/ (at[t] = "new" /\ at' = [at EXCEPT ![t] = "run"])
    BY DEF Switch, TimerInterrupt, Slice, SwitchBack, StartThread, NachosForkThread, At, userVars
<1>5. TablesKept
    <2>1. CASE at' = at
        BY <1>3, <2>1 DEF TablesKept
    <2>2. CASE at[t] = "new" /\ at' = [at EXCEPT ![t] = "run"]
        BY <1>3, <2>2, MovesOn DEF TablesKept
    <2> QED BY <1>4, <2>1, <2>2
<1> QED BY <1>1, <1>2, <1>5

LEMMA Steps ==
    ASSUME KernelInv, MachineTypes, [Next]_vars
    PROVE  \/ \E t \in Threads : TableStep(t) \/ FileStep(t)
           \/ Typed /\ TablesKept /\ FilesKept
<1> SUFFICES ASSUME ~ \E t \in Threads : TableStep(t) \/ FileStep(t)
             PROVE  Typed /\ TablesKept /\ FilesKept
    OBVIOUS
<1>1. CASE UNCHANGED vars
    <2>1. KernelInv' /\ StayCreated /\ UNCHANGED userVars
        BY <1>1 DEF vars, kernelVars, KernelInv, KernelTypeOK, ListedAreForked, StayCreated
    <2> QED BY <2>1, UserVarsUnchanged, UserVarsKept
<1>2. ASSUME NEW t \in Threads, Instruction(t) PROVE Typed /\ TablesKept /\ FilesKept
    <2>1. TablesKept /\ FilesKept
        BY <1>2 DEF Instruction, TablesKept, FilesKept
    <2> QED BY <1>2, <2>1, InstructionTypes
<1>3. ASSUME NEW t \in Threads, Kernel(t) PROVE Typed /\ TablesKept /\ FilesKept
    <2>1. CASE Trap(t)
        <3>1. TablesKept
            BY <2>1, MovesOn DEF Trap, At, TablesKept
        <3>2. FilesKept
            BY <2>1 DEF Trap, FilesKept
        <3> QED BY <2>1, <3>1, <3>2, TrapTypes
    <2>2. CASE Exception(t)
        <3>1. Fail
            BY <2>2 DEF Exception, Fail
        <3> QED BY <3>1, FailTypes, UserVarsKept DEF Fail
    <2>3. CASE SystemCall(t)
        BY <2>3, SystemCallsKeep DEF TableStep
    <2>4. CASE ReturnFromSystemCall(t)
        <3>1. TablesKept
            BY <2>4, MovesOn DEF ReturnFromSystemCall, At, TablesKept
        <3>2. FilesKept
            BY <2>4 DEF ReturnFromSystemCall, FilesKept
        <3> QED BY <2>4, <3>1, <3>2, ReturnTypes
    <2> QED BY <1>3, <2>1, <2>2, <2>3, <2>4 DEF Kernel, TableStep
<1>4. ASSUME NEW t \in Threads, Switch(t) PROVE Typed /\ TablesKept /\ FilesKept
    BY <1>4, SwitchesKeep
<1>5. CASE SwitchAway
    <2>1. TablesKept /\ FilesKept
        BY <1>5 DEF SwitchAway, TablesKept, FilesKept
    <2> QED BY <1>5, <2>1, SwitchAwayTypes
<1>6. CASE (Idle \/ Stopped) /\ UNCHANGED userVars
    <2>1. KernelInv' /\ StayCreated
        BY <1>6 DEF Idle, Stopped, kernelVars, KernelInv, KernelTypeOK, ListedAreForked, StayCreated
    <2> QED BY <1>6, <2>1, UserVarsUnchanged, UserVarsKept
<1> QED BY <1>1, <1>2, <1>3, <1>4, <1>5, <1>6 DEF Next

(* A step that leaves the tables alone keeps what is known of them. *)
LEMMA TablesKeptTypes ==
    ASSUME TableInv, TablesKept, StayCreated
    PROVE  TableInv'
<1>1. Pages' = Pages
    BY DEF Pages, TablesKept
<1>2. TableTypes'
    BY <1>1 DEF TableInv, TableTypes, TablesKept
<1>3. HasSpace'
    BY DEF TableInv, HasSpace, TablesKept, StayCreated
<1>4. Marking'
    BY <1>1 DEF TableInv, Marking, TablesKept
<1> QED BY <1>2, <1>3, <1>4 DEF TableInv

LEMMA FileStepsKeepTables ==
    ASSUME MachineTypes, NEW t \in Threads, FileStep(t)
    PROVE  TablesKept
<1>0. at[t] = "trap"
    BY DEF FileStep, NachOS_Close, NachOS_Socket, NachOS_Accept, NachOS_Exec, Calls, At
<1>1. ASSUME NEW word, Answer(t, word) PROVE TablesKept
    BY <1>0, <1>1, MovesOn DEF Answer, TablesKept
<1>2. ASSUME Fail PROVE TablesKept
    BY <1>2, UserVarsKept DEF Fail
<1>3. ASSUME NachOS_Exec(t) PROVE TablesKept
    BY <1>0, <1>3, MovesOn DEF NachOS_Exec, TablesKept
<1> QED BY <1>1, <1>2, <1>3 DEF FileStep, NachOS_Close, NachOS_Socket, NachOS_Accept

LEMMA TableStepsKeepFiles ==
    ASSUME NEW t \in Threads, TableStep(t)
    PROVE  FilesKept
BY DEF TableStep, ForkStart, FindTest, FindMark, ForkChild, FilesKept

LEMMA InitTypes == Init => TypeInv
<1> SUFFICES ASSUME Init PROVE TypeInv
    OBVIOUS
<1>1. KernelInv
    <2>1. <<>> \in Seq(Threads) /\ Len(<<>>) = 0
        OBVIOUS
    <2> QED BY <2>1, KernelAssumption DEF Init, KernelInit, KernelInv, KernelTypeOK, ListedAreForked,
                  Levels, PCs, Statuses
<1>2. MachineTypes
    <2>1. program \in Programs /\ slices = program.slices
        BY DEF Init
    <2>2. registers \in [Registers -> Word]
        BY <2>1, InitRegistersType DEF Init
    <2>3. mainMemory \in [MemoryAddresses -> Byte]
        <3>1. \A a \in MemoryAddresses : a \in Nat
            BY DEF MemoryAddresses
        <3> QED BY <2>1, <3>1, ImageType DEF Init, MemoryAddresses
    <2>4. slices \in Nat
        BY <2>1, ProgramFacts
    <2> QED BY <2>1, <2>2, <2>3, <2>4, WordFacts, KernelAssumption DEF Init, MachineTypes, Places
<1>3. TableTypes
    <2>1. Pages \subseteq Frames
        BY <1>2, PageSets
    <2>2. [p \in Pages |-> p] \in Tables(Pages)
        BY <2>1 DEF Tables
    <2> HIDE DEF NoTable
    <2> QED BY <2>1, <2>2 DEF Init, TableTypes
<1>4. HasSpace
    <2>1. [p \in Pages |-> p] # NoTable
        <3>1. 0 \in Pages
            BY <1>2, PageSets
        <3>2. DOMAIN [p \in Pages |-> p] # DOMAIN NoTable
            BY <3>1 DEF NoTable
        <3> QED BY <3>2
    <2> QED BY <2>1 DEF Init, KernelInit, HasSpace
<1>5. Marking
    BY DEF Init, Marking
<1>6. FileTypes
    <2>1. NewFileTable \in [open : SUBSET Handles, users : Int, count : [Handles -> Int]]
        <3>1. \A h \in Handles : h \in Int
            BY HandleSets
        <3> QED BY <3>1, HandleSets DEF NewFileTable
    <2>2. DOMAIN unix = 0 .. 2 /\ unix \in [0 .. 2 -> Threads \cup {NULL}]
        BY DEF Init
    <2>3. 0 .. 2 \subseteq 0 .. MaxFd
        BY FilesAssumption
    <2> QED BY <2>1, <2>2, <2>3 DEF Init, FileTypes
<1> QED BY <1>1, <1>2, <1>3, <1>4, <1>5, <1>6, TypeParts DEF KernelInv, TypeInv

LEMMA TypeInvParts == TypeInv <=> KernelInv /\ MachineTypes /\ TableInv /\ FileTypes
BY TypeParts DEF TypeInv, KernelInv, TableInv

LEMMA StepTypes == TypeInv /\ [Next]_vars => TypeInv'
<1> SUFFICES ASSUME TypeInv, [Next]_vars PROVE TypeInv'
    OBVIOUS
<1>1. KernelInv /\ MachineTypes /\ TableInv /\ FileTypes
    BY TypeInvParts
<1> SUFFICES KernelInv' /\ MachineTypes' /\ TableInv' /\ FileTypes'
    <2>1. (TypeInv <=> KernelInv /\ MachineTypes /\ TableInv /\ FileTypes)'
        BY TypeInvParts, PTL
    <2> QED BY <2>1
<1>2. ASSUME NEW t \in Threads, TableStep(t) PROVE KernelInv' /\ MachineTypes' /\ TableInv' /\ FileTypes'
    <2>1. FilesKept
        BY <1>2, TableStepsKeepFiles
    <2>2. FileTypes'
        BY <1>1, <2>1 DEF FileTypes, FilesKept
    <2>3. CASE ForkStart(t)
        BY <1>1, <2>2, <2>3, ForkStartTypes DEF Typed
    <2>4. CASE FindTest(t)
        BY <1>1, <2>2, <2>4, FindTestTypes DEF Typed
    <2>5. CASE FindMark(t)
        BY <1>1, <2>2, <2>5, FindMarkTypes DEF Typed
    <2>6. CASE ForkChild(t)
        BY <1>1, <2>2, <2>6, ForkChildTypes
    <2> QED BY <1>2, <2>3, <2>4, <2>5, <2>6 DEF TableStep
<1>3. ASSUME NEW t \in Threads, FileStep(t) PROVE KernelInv' /\ MachineTypes' /\ TableInv' /\ FileTypes'
    <2>1. Typed /\ FileTypes'
        BY <1>1, <1>3, CloseTypes, SocketTypes, AcceptTypes, ExecTypes DEF FileStep
    <2>2. TablesKept
        BY <1>1, <1>3, FileStepsKeepTables
    <2> QED BY <1>1, <2>1, <2>2, TablesKeptTypes DEF Typed
<1>4. CASE Typed /\ TablesKept /\ FilesKept
    <2>1. FileTypes'
        BY <1>1, <1>4 DEF FileTypes, FilesKept
    <2> QED BY <1>1, <1>4, <2>1, TablesKeptTypes DEF Typed
<1> QED BY <1>1, <1>2, <1>3, <1>4, Steps

(* Type correctness: every register holds a word and every byte of memory a *)
(* byte whatever the program executes, and every page table maps pages to   *)
(* frames (machine/mipssim.cc, userprog/exception.cc).                      *)
THEOREM TypesAreCorrect == Spec => []TypeOK
<1>1. Init => TypeInv
    BY InitTypes
<1>2. TypeInv /\ [Next]_vars => TypeInv'
    BY StepTypes
<1>3. TypeInv => TypeOK
    BY DEF TypeInv
<1> QED BY <1>1, <1>2, <1>3, PTL DEF Spec

-----------------------------------------------------------------------------
(* Arithmetic. *)
LEMMA RaisesNothing ==
    ASSUME NEW r, NEW i, NEW table, i.op = "DIV", Raises(r, i, table) = "NoException"
    PROVE  ~(r[i.rs] = SignBit /\ r[i.rt] = WordSize - 1)
<1> SUFFICES ASSUME r[i.rs] = SignBit /\ r[i.rt] = WordSize - 1
             PROVE  FALSE
    OBVIOUS
<1>1. ~Overflows(r, i)
    BY DEF Overflows
<1>2. i.op \notin Loads \cup Stores
    BY DEF Loads, Stores
<1>3. Raises(r, i, table) = "HostTrap"
    BY <1>1, <1>2 DEF Raises
<1> QED BY <1>3

LEMMA WrittenPair ==
    ASSUME NEW r \in [Registers -> Word], NEW i \in Instructions,
           i.op \in {"MULT", "MULTU", "DIV", "DIVU"}
    PROVE  LET pair == IF i.op \in {"MULT", "MULTU"} THEN Mult(r[i.rs], r[i.rt], i.op = "MULT")
                       ELSE Divided(r[i.rs], r[i.rt], i.op = "DIV")
           IN Written(r, i)[HiReg] = pair.hi /\ Written(r, i)[LoReg] = pair.lo
<1> DEFINE pair == IF i.op \in {"MULT", "MULTU"} THEN Mult(r[i.rs], r[i.rt], i.op = "MULT")
                   ELSE Divided(r[i.rs], r[i.rt], i.op = "DIV")
<1>1. i.op \notin Computations /\ i.op \notin Links
    BY ComputationSorts DEF Links
<1>2. Written(r, i) = [r EXCEPT ![HiReg] = pair.hi, ![LoReg] = pair.lo]
    <2> HIDE DEF pair
    <2> QED BY <1>1 DEF Written, pair
<1> HIDE DEF pair
<1>3. HiReg \in Registers /\ LoReg \in Registers /\ HiReg # LoReg
    BY RegisterNames DEF HiReg, LoReg
<1>4. Written(r, i)[HiReg] = pair.hi /\ Written(r, i)[LoReg] = pair.lo
    BY <1>2, <1>3
<1> QED BY <1>4 DEF pair

LEMMA ArithmeticFromTypes == TypeInv => ArithmeticIsExact
<1> SUFFICES ASSUME TypeInv, NEW t \in Threads, At(t, "run")
             PROVE  LET a == registers[Now.rs]
                        b == Operand(registers, Now)
                        w == Written(registers, Now)
                        exact == IF Now.op = "SUB" THEN Signed(a) - Signed(b) ELSE Signed(a) + Signed(b)
                        quotient == Signed(w[LoReg])
                        rest == Signed(w[HiReg])
                    IN /\ Now.op = "MULT" => Signed(w[HiReg]) * WordSize + w[LoReg] = Signed(a) * Signed(b)
                       /\ Now.op = "MULTU" => w[HiReg] * WordSize + w[LoReg] = a * b
                       /\ Now.op \in {"ADD", "ADDI", "SUB"} =>
                             (Overflows(registers, Now) <=> exact \notin -SignBit .. SignBit - 1)
                       /\ Now.op = "DIV" /\ b # 0 /\ Raises(registers, Now, Table) = "NoException" =>
                             /\ quotient * Signed(b) + rest = Signed(a)
                             /\ Magnitude(rest) < Magnitude(Signed(b))
                             /\ rest # 0 => (rest < 0 <=> Signed(a) < 0)
    BY DEF ArithmeticIsExact
<1> DEFINE i == Now
           r == registers
           a == r[i.rs]
           b == Operand(r, i)
           w == Written(r, i)
<1>1. r \in [Registers -> Word] /\ i \in Instructions
    BY TypeInvParts, Operands DEF MachineTypes
<1> HIDE DEF i
<1>2. a \in Word /\ r[i.rt] \in Word
    BY <1>1, OperandType
<1>3. i.op \in {"MULT", "MULTU", "DIV"} => b = r[i.rt]
    BY DEF Operand, Immediate
<1>4. i.op = "MULT" => Signed(w[HiReg]) * WordSize + w[LoReg] = Signed(a) * Signed(b)
    <2> SUFFICES ASSUME i.op = "MULT"
                 PROVE  Signed(w[HiReg]) * WordSize + w[LoReg] = Signed(a) * Signed(b)
        OBVIOUS
    <2>1. w[HiReg] = Mult(a, b, TRUE).hi /\ w[LoReg] = Mult(a, b, TRUE).lo
        BY <1>1, <1>3, WrittenPair
    <2>2. a \in Word /\ b \in Word
        BY <1>2, <1>3
    <2> HIDE DEF w, a, b
    <2> QED BY <2>1, <2>2, MultSigned
<1>5. i.op = "MULTU" => w[HiReg] * WordSize + w[LoReg] = a * b
    <2> SUFFICES ASSUME i.op = "MULTU"
                 PROVE  w[HiReg] * WordSize + w[LoReg] = a * b
        OBVIOUS
    <2>1. w[HiReg] = Mult(a, b, FALSE).hi /\ w[LoReg] = Mult(a, b, FALSE).lo
        BY <1>1, <1>3, WrittenPair
    <2>2. a \in Word /\ b \in Word
        BY <1>2, <1>3
    <2> HIDE DEF w, a, b
    <2> QED BY <2>1, <2>2, MultUnsigned
<1>6. i.op \in {"ADD", "ADDI", "SUB"} =>
          (Overflows(r, i) <=> (IF i.op = "SUB" THEN Signed(a) - Signed(b) ELSE Signed(a) + Signed(b))
                                  \notin -SignBit .. SignBit - 1)
    BY <1>1, OverflowExact
<1>7. i.op = "DIV" /\ b # 0 /\ Raises(r, i, Table) = "NoException" =>
          /\ Signed(w[LoReg]) * Signed(b) + Signed(w[HiReg]) = Signed(a)
          /\ Magnitude(Signed(w[HiReg])) < Magnitude(Signed(b))
          /\ Signed(w[HiReg]) # 0 => (Signed(w[HiReg]) < 0 <=> Signed(a) < 0)
    <2> SUFFICES ASSUME i.op = "DIV", b # 0, Raises(r, i, Table) = "NoException"
                 PROVE  /\ Signed(w[LoReg]) * Signed(b) + Signed(w[HiReg]) = Signed(a)
                        /\ Magnitude(Signed(w[HiReg])) < Magnitude(Signed(b))
                        /\ Signed(w[HiReg]) # 0 => (Signed(w[HiReg]) < 0 <=> Signed(a) < 0)
        OBVIOUS
    <2>1. w[HiReg] = Divided(a, b, TRUE).hi /\ w[LoReg] = Divided(a, b, TRUE).lo
        BY <1>1, <1>3, WrittenPair
    <2>2. a \in Word /\ b \in Word /\ ~(a = SignBit /\ b = WordSize - 1)
        BY <1>2, <1>3, RaisesNothing
    <2> HIDE DEF w, a, b
    <2> DEFINE q == Signed(Divided(a, b, TRUE).lo)
               s == Signed(Divided(a, b, TRUE).hi)
    <2>3. /\ q * Signed(b) + s = Signed(a)
          /\ Magnitude(s) < Magnitude(Signed(b))
          /\ s # 0 => (s < 0 <=> Signed(a) < 0)
        BY <2>2, DividedExact
    <2>4. Signed(w[LoReg]) = q /\ Signed(w[HiReg]) = s
        BY <2>1
    <2> HIDE DEF q, s
    <2> QED BY <2>3, <2>4
<1> QED BY <1>4, <1>5, <1>6, <1>7 DEF i

(* Multiplication, division and the overflow tests are those of the integers *)
(* for words of any width (machine/mipssim.cc: Mult, OP_DIV, OP_ADD ...).    *)
THEOREM ArithmeticHolds == Spec => []ArithmeticIsExact
<1>1. Init => TypeInv
    BY InitTypes
<1>2. TypeInv /\ [Next]_vars => TypeInv'
    BY StepTypes
<1>3. TypeInv => ArithmeticIsExact
    BY ArithmeticFromTypes
<1> QED BY <1>1, <1>2, <1>3, PTL DEF Spec

-----------------------------------------------------------------------------
(* The frames of the stacks: those a thread has, those it has found for a   *)
(* child, and the one it has found and not marked yet.                      *)
Held(t) == IF space[t] = NoTable THEN {} ELSE {space[t][p] : p \in OwnPages(program)} \ {-1}
Built(t) == {building[t][p] : p \in DOMAIN building[t] \cap OwnPages(program)} \ {-1}
Marked(t) == IF at[t] = "mark" THEN {building[t][Max(DOMAIN building[t])]} ELSE {}

SharedAreLoaded ==
    /\ SharedPages(program) \subseteq MiMapa
    /\ \A t \in Threads :
          /\ space[t] # NoTable => \A p \in SharedPages(program) : space[t][p] = p
          /\ building[t] # NoTable => /\ SharedPages(program) \subseteq DOMAIN building[t]
                                      /\ \A p \in SharedPages(program) : building[t][p] = p
FramesInUse ==
    \A t \in Threads : /\ Held(t) \subseteq MiMapa \ SharedPages(program)
                       /\ Built(t) \cap SharedPages(program) = {}
                       /\ Built(t) \subseteq MiMapa \cup Marked(t)
                       /\ Marked(t) \cap MiMapa = {}
FramesApart ==
    \A t, u \in Threads : /\ Held(t) \cap Built(u) = {}
                          /\ t # u => Held(t) \cap Held(u) = {} /\ Built(t) \cap Built(u) = {}
FrameInv == SharedAreLoaded /\ FramesInUse /\ FramesApart

(* Two threads are never between the Test and the Mark of BitMap::Find. *)
FindOneAtATime == \A t, u \in Threads : t # u => ~(at[t] = "mark" /\ at[u] = "mark")

LEMMA FramesKept ==
    ASSUME FrameInv, TablesKept
    PROVE  FrameInv'
<1>1. UNCHANGED <<program, space, building, MiMapa>>
    BY DEF TablesKept
<1>2. \A t \in Threads : Held(t)' = Held(t) /\ Built(t)' = Built(t)
    BY <1>1 DEF Held, Built
<1>3. \A t \in Threads : Marked(t)' = Marked(t)
    BY <1>1 DEF Marked, TablesKept
<1>4. SharedAreLoaded'
    BY <1>1 DEF FrameInv, SharedAreLoaded
<1>5. FramesInUse'
    BY <1>1, <1>2, <1>3 DEF FrameInv, FramesInUse
<1>6. FramesApart'
    BY <1>2 DEF FrameInv, FramesApart
<1> QED BY <1>4, <1>5, <1>6 DEF FrameInv

LEMMA ForkStartFrames ==
    ASSUME TypeInv, FrameInv, NEW t \in Threads, ForkStart(t)
    PROVE  FrameInv'
<1> DEFINE S == SharedPages(program)
           table == [p \in S |-> space[t][p]]
<1>1. /\ at' = [at EXCEPT ![t] = "find"] /\ building' = [building EXCEPT ![t] = table]
      /\ UNCHANGED <<program, space, MiMapa>>
      /\ status[t] = "RUNNING" /\ at[t] = "trap"
    BY DEF ForkStart, Calls, At, Executing
<1>2. space[t] # NoTable
    BY <1>1 DEF TypeInv, HasSpace
<1>3. \A u \in Threads : building'[u] = IF u = t THEN table ELSE building[u]
    BY <1>1, TypeInvParts DEF TableInv, TableTypes
<1>4. \A u \in Threads : at'[u] = IF u = t THEN "find" ELSE at[u]
    BY <1>1, TypeInvParts DEF MachineTypes
<1>5. \A p \in S : table[p] = p
    BY <1>2 DEF FrameInv, SharedAreLoaded
<1>6. DOMAIN table = S
    OBVIOUS
<1> HIDE DEF table
<1>7. \A u \in Threads : Held(u)' = Held(u)
    BY <1>1 DEF Held
<1>8. \A u \in Threads : Built(u)' = IF u = t THEN {} ELSE Built(u)
    <2>1. DOMAIN table \cap OwnPages(program) = {}
        BY <1>6 DEF OwnPages
    <2> QED BY <1>1, <1>3, <2>1 DEF Built
<1>9. \A u \in Threads : Marked(u)' = IF u = t THEN {} ELSE Marked(u)
    BY <1>3, <1>4 DEF Marked
<1>10. SharedAreLoaded'
    BY <1>1, <1>3, <1>5, <1>6 DEF FrameInv, SharedAreLoaded
<1>11. FramesInUse'
    BY <1>1, <1>7, <1>8, <1>9 DEF FrameInv, FramesInUse
<1>12. FramesApart'
    BY <1>7, <1>8 DEF FrameInv, FramesApart
<1> QED BY <1>10, <1>11, <1>12 DEF FrameInv

LEMMA FindTestFrames ==
    ASSUME TypeInv, FrameInv, FindOneAtATime', NEW t \in Threads, FindTest(t)
    PROVE  FrameInv'
<1>0. building[t] # NoTable /\ at[t] = "find"
    BY DEF FindTest, At
<1>1. PICK n \in Pages : /\ building[t] \in Tables(0 .. n) /\ DOMAIN building[t] = 0 .. n
                         /\ Cardinality(DOMAIN building[t]) = n + 1
    BY <1>0, BegunTable, TypeInvParts DEF TableInv
<1> DEFINE S == SharedPages(program)
           old == building[t]
           f == FreeFrame
           table == [p \in 0 .. n + 1 |-> IF p \in 0 .. n THEN old[p] ELSE f]
           new == {f} \ {-1}
<1>2. /\ at' = [at EXCEPT ![t] = IF f = -1 THEN "find" ELSE "mark"]
      /\ UNCHANGED <<program, space, MiMapa>>
    BY DEF FindTest
<1>3. building' = [building EXCEPT ![t] = table]
    <2>1. building' = [building EXCEPT ![t] =
                [p \in 0 .. Cardinality(DOMAIN old) |-> IF p \in DOMAIN old THEN old[p] ELSE FreeFrame]]
        BY TypeInvParts DEF FindTest, TableInv, TableTypes
    <2> QED BY <1>1, <2>1
<1>4. n \in Nat /\ n + 1 \in Pages
    <2>1. n # NumPages(program) - 1
        BY <1>1 DEF FindTest, Pages
    <2> QED BY <2>1, TypeInvParts, PageSets DEF Pages
<1>5. f \notin MiMapa
    BY TypeInvParts, FreeFrameFacts DEF TableInv
<1> HIDE DEF f
<1>6. DOMAIN table = 0 .. n + 1 /\ table[n + 1] = f /\ \A p \in 0 .. n : table[p] = old[p]
    <2>1. n + 1 \in 0 .. n + 1 /\ n + 1 \notin 0 .. n /\ 0 .. n \subseteq 0 .. n + 1
        BY <1>4
    <2> QED BY <2>1
<1>7. S \subseteq 0 .. n /\ \A p \in S : old[p] = p
    BY <1>0, <1>1 DEF FrameInv, SharedAreLoaded
<1>8. n + 1 \in OwnPages(program)
    <2>1. n + 1 \notin S /\ n + 1 \in 0 .. NumPages(program) - 1
        BY <1>4, <1>7 DEF Pages
    <2> QED BY <2>1 DEF OwnPages
<1> HIDE DEF table
<1>9. \A u \in Threads : building'[u] = IF u = t THEN table ELSE building[u]
    BY <1>3, TypeInvParts DEF TableInv, TableTypes
<1>10. \A u \in Threads : at'[u] = IF u = t THEN (IF f = -1 THEN "find" ELSE "mark") ELSE at[u]
    BY <1>2, TypeInvParts DEF MachineTypes
<1>11. \A u \in Threads : Held(u)' = Held(u)
    BY <1>2 DEF Held
<1>12. Built(t)' = Built(t) \cup new
    <2>1. 0 .. n + 1 = (0 .. n) \cup {n + 1}
        BY <1>4
    <2> DEFINE O == OwnPages(program)
    <2>2. Built(t)' = {table[p] : p \in (0 .. n + 1) \cap O} \ {-1}
        BY <1>2, <1>6, <1>9 DEF Built
    <2>3. Built(t) = {old[p] : p \in (0 .. n) \cap O} \ {-1}
        BY <1>1 DEF Built
    <2> QED BY <1>6, <1>8, <2>1, <2>2, <2>3
<1>13. \A u \in Threads : u # t => Built(u)' = Built(u) /\ Marked(u)' = Marked(u)
    BY <1>2, <1>9, <1>10 DEF Built, Marked
<1>14. Marked(t)' = new /\ Marked(t) = {}
    <2>1. Max(DOMAIN building'[t]) = n + 1
        BY <1>4, <1>6, <1>9, GreatestOf
    <2> QED BY <1>0, <1>6, <1>9, <1>10, <2>1 DEF Marked
<1>15. new # {} => \A u \in Threads : u # t => Marked(u) = {}
    BY <1>10 DEF FindOneAtATime, Marked
<1>16. SharedAreLoaded'
    <2>1. ASSUME NEW u \in Threads, u # t
          PROVE  /\ building'[u] # NoTable => /\ S \subseteq DOMAIN building'[u]
                                              /\ \A p \in S : building'[u][p] = p
        BY <1>9, <2>1 DEF FrameInv, SharedAreLoaded
    <2>2. S \subseteq DOMAIN table /\ \A p \in S : table[p] = p
        <3>1. 0 .. n \subseteq 0 .. n + 1
            BY <1>4
        <3> QED BY <1>6, <1>7, <3>1
    <2> QED BY <1>2, <1>9, <2>1, <2>2 DEF FrameInv, SharedAreLoaded
<1> HIDE DEF new, S
<1>17. new \cap MiMapa = {}
    BY <1>5 DEF new
<1>18. FramesInUse'
    <2>1. \A u \in Threads : /\ Held(u) \subseteq MiMapa \ S /\ Built(u) \cap S = {}
                             /\ Built(u) \subseteq MiMapa \cup Marked(u) /\ Marked(u) \cap MiMapa = {}
          /\ S \subseteq MiMapa
        BY DEF FrameInv, FramesInUse, SharedAreLoaded, S
    <2>2. \A u \in Threads : /\ Held(u)' \subseteq MiMapa \ S /\ Built(u)' \cap S = {}
                             /\ Built(u)' \subseteq MiMapa \cup Marked(u)' /\ Marked(u)' \cap MiMapa = {}
        BY <1>11, <1>12, <1>13, <1>14, <1>17, <2>1
    <2> QED BY <1>2, <2>2 DEF FramesInUse, S
<1>19. FramesApart'
    <2>1. \A u \in Threads : Held(u) \cap new = {}
        BY <1>17 DEF FrameInv, FramesInUse
    <2>2. \A u \in Threads : u # t => Built(u) \cap new = {}
        BY <1>15, <1>17 DEF FrameInv, FramesInUse
    <2>3. \A u, v \in Threads : /\ Held(u)' \cap Built(v)' = {}
                                /\ u # v => Held(u)' \cap Held(v)' = {} /\ Built(u)' \cap Built(v)' = {}
        BY <1>11, <1>12, <1>13, <2>1, <2>2 DEF FrameInv, FramesApart
    <2> QED BY <2>3 DEF FramesApart
<1> QED BY <1>16, <1>18, <1>19 DEF FrameInv

LEMMA FindMarkFrames ==
    ASSUME TypeInv, FrameInv, FindOneAtATime, NEW t \in Threads, FindMark(t)
    PROVE  FrameInv'
<1>1. /\ at' = [at EXCEPT ![t] = "find"] /\ at[t] = "mark" /\ MiMapa' = MiMapa \cup Marked(t)
      /\ UNCHANGED <<program, space, building>>
    BY DEF FindMark, At, Marked
<1>2. \A u \in Threads : at'[u] = IF u = t THEN "find" ELSE at[u]
    BY <1>1, TypeInvParts DEF MachineTypes
<1>3. \A u \in Threads : Held(u)' = Held(u) /\ Built(u)' = Built(u)
    BY <1>1 DEF Held, Built
<1>4. \A u \in Threads : Marked(u)' = {} /\ (u # t => Marked(u) = {})
    BY <1>1, <1>2 DEF Marked, FindOneAtATime
<1>5. SharedAreLoaded'
    BY <1>1 DEF FrameInv, SharedAreLoaded
<1>6. FramesInUse'
    <2> DEFINE S == SharedPages(program)
    <2>1. \A u \in Threads : /\ Held(u) \subseteq MiMapa \ S /\ Built(u) \cap S = {}
                             /\ Built(u) \subseteq MiMapa \cup Marked(u)
        BY DEF FrameInv, FramesInUse
    <2> HIDE DEF S
    <2>2. \A u \in Threads : /\ Held(u)' \subseteq MiMapa' \ S /\ Built(u)' \cap S = {}
                             /\ Built(u)' \subseteq MiMapa' \cup Marked(u)' /\ Marked(u)' \cap MiMapa' = {}
        BY <1>1, <1>3, <1>4, <2>1
    <2> QED BY <1>1, <2>2 DEF FramesInUse, S
<1>7. FramesApart'
    BY <1>3 DEF FrameInv, FramesApart
<1> QED BY <1>5, <1>6, <1>7 DEF FrameInv

LEMMA ForkChildFrames ==
    ASSUME TypeInv, FrameInv, NEW t \in Threads, ForkChild(t)
    PROVE  FrameInv'
<1>1. /\ Child \in Threads /\ at[t] = "find"
      /\ space' = [space EXCEPT ![Child] = building[t]]
      /\ building' = [building EXCEPT ![t] = NoTable]
      /\ at' = [at EXCEPT ![t] = "return"]
      /\ building[t] \in Tables(Pages) /\ building[t] # NoTable
      /\ UNCHANGED <<program, MiMapa>>
    BY ForkChildEffect, TypeInvParts DEF TableInv
<1>2. \A u \in Threads : /\ building'[u] = IF u = t THEN NoTable ELSE building[u]
                         /\ space'[u] = IF u = Child THEN building[t] ELSE space[u]
                         /\ at'[u] = IF u = t THEN "return" ELSE at[u]
    BY <1>1, TypeInvParts DEF TableInv, TableTypes, MachineTypes
<1>3. \A u \in Threads : Held(u)' = IF u = Child THEN Built(t) ELSE Held(u)
    <2>1. DOMAIN building[t] \cap OwnPages(program) = OwnPages(program)
        BY <1>1, TypeInvParts, PageSets DEF Tables
    <2>2. Built(t) = {building[t][p] : p \in OwnPages(program)} \ {-1}
        BY <2>1 DEF Built
    <2>3. ASSUME NEW u \in Threads, u = Child
          PROVE  Held(u)' = {building[t][p] : p \in OwnPages(program)} \ {-1}
        <3>1. space'[u] = building[t] /\ program' = program
            BY <1>1, <1>2, <2>3
        <3> QED BY <1>1, <3>1 DEF Held
    <2>4. ASSUME NEW u \in Threads, u # Child PROVE Held(u)' = Held(u)
        <3>1. space'[u] = space[u] /\ program' = program
            BY <1>1, <1>2, <2>4
        <3> QED BY <3>1 DEF Held
    <2> TAKE u \in Threads
    <2>5. CASE u = Child
        BY <2>2, <2>3, <2>5
    <2>6. CASE u # Child
        BY <2>4, <2>6
    <2> QED BY <2>5, <2>6
<1>4. \A u \in Threads : Built(u)' = IF u = t THEN {} ELSE Built(u)
    <2>1. DOMAIN NoTable = {}
        BY DEF NoTable
    <2> HIDE DEF NoTable
    <2> QED BY <1>1, <1>2, <2>1 DEF Built
<1>5. \A u \in Threads : Marked(u)' = IF u = t THEN {} ELSE Marked(u)
    <2>1. \A u \in Threads : u # t => building'[u] = building[u] /\ at'[u] = at[u]
        BY <1>2
    <2> QED BY <1>2, <2>1 DEF Marked
<1>6. Marked(t) = {}
    BY <1>1 DEF Marked
<1>7. SharedAreLoaded'
    BY <1>1, <1>2 DEF FrameInv, SharedAreLoaded
<1>8. FramesInUse'
    <2> DEFINE S == SharedPages(program)
    <2>1. \A u \in Threads : /\ Held(u) \subseteq MiMapa \ S /\ Built(u) \cap S = {}
                             /\ Built(u) \subseteq MiMapa \cup Marked(u) /\ Marked(u) \cap MiMapa = {}
        BY DEF FrameInv, FramesInUse
    <2> HIDE DEF S
    <2>2. \A u \in Threads : /\ Held(u)' \subseteq MiMapa \ S /\ Built(u)' \cap S = {}
                             /\ Built(u)' \subseteq MiMapa \cup Marked(u)' /\ Marked(u)' \cap MiMapa = {}
        BY <1>3, <1>4, <1>5, <1>6, <2>1
    <2> QED BY <1>1, <2>2 DEF FramesInUse, S
<1>9. FramesApart'
    <2>1. \A u, v \in Threads : /\ Held(u) \cap Built(v) = {}
                                /\ u # v => Held(u) \cap Held(v) = {} /\ Built(u) \cap Built(v) = {}
        BY DEF FrameInv, FramesApart
    <2>2. \A u, v \in Threads : /\ Held(u)' \cap Built(v)' = {}
                                /\ u # v => Held(u)' \cap Held(v)' = {} /\ Built(u)' \cap Built(v)' = {}
        BY <1>1, <1>3, <1>4, <2>1
    <2> QED BY <2>2 DEF FramesApart
<1> QED BY <1>7, <1>8, <1>9 DEF FrameInv

LEMMA InitFrames == Init => FrameInv
<1> SUFFICES ASSUME Init PROVE FrameInv
    OBVIOUS
<1>1. MachineTypes
    BY InitTypes, TypeInvParts
<1>2. /\ space = [t \in Threads |-> IF t = Main THEN [p \in Pages |-> p] ELSE NoTable]
      /\ building = [t \in Threads |-> NoTable] /\ MiMapa = Pages
      /\ at = [t \in Threads |-> IF t = Main THEN "run" ELSE "new"]
    BY DEF Init
<1>3. DOMAIN NoTable = {}
    BY DEF NoTable
<1> HIDE DEF NoTable
<1>4. SharedPages(program) \subseteq Pages /\ OwnPages(program) \subseteq Pages
      /\ SharedPages(program) \cap OwnPages(program) = {}
    BY <1>1, PageSets DEF OwnPages
<1>5. \A t \in Threads : Built(t) = {} /\ Marked(t) = {}
    BY <1>2, <1>3 DEF Built, Marked
<1>6. \A t \in Threads : Held(t) \subseteq (IF t = Main THEN OwnPages(program) ELSE {})
    BY <1>2, <1>4 DEF Held
<1>7. SharedAreLoaded
    BY <1>2, <1>4 DEF SharedAreLoaded
<1>8. FramesInUse
    BY <1>2, <1>4, <1>5, <1>6 DEF FramesInUse
<1>9. FramesApart
    BY <1>5, <1>6 DEF FramesApart
<1> QED BY <1>7, <1>8, <1>9 DEF FrameInv

LEMMA FrameStep == TypeInv /\ FrameInv /\ FindOneAtATime /\ FindOneAtATime' /\ [Next]_vars => FrameInv'
<1> SUFFICES ASSUME TypeInv, FrameInv, FindOneAtATime, FindOneAtATime', [Next]_vars PROVE FrameInv'
    OBVIOUS
<1>1. KernelInv /\ MachineTypes
    BY TypeInvParts
<1>2. ASSUME NEW t \in Threads, TableStep(t) PROVE FrameInv'
    BY <1>2, ForkStartFrames, FindTestFrames, FindMarkFrames, ForkChildFrames DEF TableStep
<1>3. ASSUME NEW t \in Threads, FileStep(t) PROVE FrameInv'
    BY <1>1, <1>3, FileStepsKeepTables, FramesKept
<1> QED BY <1>1, <1>2, <1>3, Steps, FramesKept

LEMMA FramesFromInv == TypeInv /\ FrameInv => FramesPrivate
<1> SUFFICES ASSUME TypeInv, FrameInv, NEW t \in Threads, NEW u \in Threads, t # u,
                    space[t] # NoTable, space[u] # NoTable,
                    NEW p \in OwnPages(program), space[t][p] # -1
             PROVE  space[t][p] \in MiMapa /\ space[t][p] \notin Range(space[u])
    BY DEF FramesPrivate
<1>1. space[t][p] \in Held(t)
    BY DEF Held
<1>2. space[t][p] \in MiMapa \ SharedPages(program)
    BY <1>1 DEF FrameInv, FramesInUse
<1>3. DOMAIN space[u] = Pages
    BY TypeInvParts DEF TableInv, TableTypes, Tables
<1>4. ASSUME NEW q \in Pages PROVE space[u][q] # space[t][p]
    <2>1. CASE q \in SharedPages(program)
        <3>1. space[u][q] = q
            BY <2>1 DEF FrameInv, SharedAreLoaded
        <3> QED BY <1>2, <2>1, <3>1
    <2>2. CASE q \in OwnPages(program)
        <3>1. space[u][q] = -1 \/ space[u][q] \in Held(u)
            BY <2>2 DEF Held
        <3>2. Held(t) \cap Held(u) = {}
            BY DEF FrameInv, FramesApart
        <3> QED BY <1>1, <3>1, <3>2
    <2> QED BY <2>1, <2>2, TypeInvParts, PageSets
<1>5. space[t][p] \notin Range(space[u])
    BY <1>3, <1>4 DEF Range
<1> QED BY <1>2, <1>5

(* As long as Find is not interrupted between its Test and its Mark *)
(* (threads/bitmap.cc), the frames of the stacks are private.       *)
THEOREM FramesArePrivateIfFindIsAtomic == Spec /\ []FindOneAtATime => []FramesPrivate
<1>1. Init => TypeInv /\ FrameInv
    BY InitTypes, InitFrames
<1>2. TypeInv /\ FrameInv /\ FindOneAtATime /\ FindOneAtATime' /\ [Next]_vars => (TypeInv /\ FrameInv)'
    BY StepTypes, FrameStep
<1>3. TypeInv /\ FrameInv => FramesPrivate
    BY FramesFromInv
<1> QED BY <1>1, <1>2, <1>3, PTL DEF Spec

(* Without time slices the processor stays with the thread that is in Fork. *)
FindsAlone ==
    \A t \in Threads : at[t] \in {"find", "mark"} =>
        currentThread = t /\ status[t] = "RUNNING" /\ pc[t] = "client"

LEMMA FindersMoveAlone ==
    ASSUME FindsAlone, ~program.preemptive, [Next]_vars,
           NEW u \in Threads, at[u] \in {"find", "mark"}
    PROVE  FindTest(u) \/ FindMark(u) \/ ForkChild(u) \/ UNCHANGED <<currentThread, status, pc, at>>
<1>1. currentThread = u /\ status[u] = "RUNNING" /\ pc[u] = "client"
    BY DEF FindsAlone
<1>2. \A t \in Threads : \A place \in {"new", "run", "trap", "return"} : ~At(t, place)
    BY <1>1 DEF At, Executing
<1>3. \A t \in Threads : ~Resuming(t)
    BY <1>1 DEF Resuming
<1>4. ~Sleeping
    BY <1>1 DEF Sleeping
<1>5. ASSUME NEW t \in Threads PROVE ~Instruction(t) /\ ~Trap(t) /\ ~Exception(t) /\ ~ReturnFromSystemCall(t)
    BY <1>2 DEF Instruction, Trap, Exception, ReturnFromSystemCall
<1>6. ASSUME NEW t \in Threads PROVE ~SystemCall(t)
    BY <1>2 DEF SystemCall, NachOS_Halt, NachOS_Exit, NachOS_Exec, ExecFails, NachOS_Write,
                NachOS_Read, TransferFails, NachOS_Close, CloseFails, ForkStart, NachOS_Yield, EmptyCall,
                UnexpectedCall, NachOS_Socket, NachOS_Connect, NachOS_Listen, NachOS_Accept,
                SocketFails, Calls
<1>7. ASSUME NEW t \in Threads PROVE ~Switch(t)
    BY <1>2, <1>3 DEF Switch, TimerInterrupt, Slice, SwitchBack, YieldReturn, StartThread,
                      ThreadRoot, NachosForkThread
<1>8. ~SwitchAway /\ ~Idle
    BY <1>4 DEF SwitchAway, Dispatch, Idle
<1>9. ASSUME NEW t \in Threads, FindTest(t) \/ FindMark(t) \/ ForkChild(t) PROVE t = u
    BY <1>1, <1>9 DEF FindTest, FindMark, ForkChild, At, Executing
<1>10. CASE UNCHANGED vars \/ (Stopped /\ UNCHANGED userVars)
    BY <1>10 DEF vars, Stopped, kernelVars, userVars
<1> QED BY <1>5, <1>6, <1>7, <1>8, <1>9, <1>10 DEF Next, Kernel

LEMMA FindsAloneStep ==
    ASSUME TypeInv, FindsAlone, ~program.preemptive, [Next]_vars
    PROVE  FindsAlone'
<1>0. KernelInv /\ MachineTypes
    BY TypeInvParts
<1> SUFFICES ASSUME NEW u \in Threads, at'[u] \in {"find", "mark"}
             PROVE  currentThread' = u /\ status'[u] = "RUNNING" /\ pc'[u] = "client"
    BY DEF FindsAlone
<1>1. CASE at[u] \in {"find", "mark"}
    <2>1. currentThread = u /\ status[u] = "RUNNING" /\ pc[u] = "client"
        BY <1>1 DEF FindsAlone
    <2>2. ~ForkChild(u)
        BY <1>0 DEF ForkChild, MachineTypes
    <2>3. UNCHANGED <<currentThread, status, pc>>
        BY <1>1, <2>2, FindersMoveAlone DEF FindTest, FindMark, InKernel
    <2> QED BY <2>1, <2>3
<1>2. CASE at[u] \notin {"find", "mark"}
    <2>1. ~TablesKept
        BY <1>2 DEF TablesKept
    <2>2. PICK t \in Threads : TableStep(t)
        BY <1>0, <2>1, Steps, FileStepsKeepTables
    <2>3. t = u
        BY <1>0, <1>2, <2>2 DEF TableStep, ForkStart, FindTest, FindMark, ForkChild, MachineTypes
    <2>4. ForkStart(u)
        BY <1>2, <2>2, <2>3 DEF TableStep, FindTest, FindMark, ForkChild, At
    <2> QED BY <2>4 DEF ForkStart, Calls, At, Executing, InKernel
<1> QED BY <1>1, <1>2

LEMMA AloneIsAtomic == FindsAlone => FindOneAtATime
BY DEF FindsAlone, FindOneAtATime

LEMMA ProgramStays == KernelInv /\ MachineTypes /\ [Next]_vars => program' = program
<1> SUFFICES ASSUME KernelInv, MachineTypes, [Next]_vars PROVE program' = program
    OBVIOUS
<1>1. ASSUME NEW t \in Threads, TableStep(t) PROVE program' = program
    BY <1>1 DEF TableStep, ForkStart, FindTest, FindMark, ForkChild
<1>2. ASSUME TablesKept PROVE program' = program
    BY <1>2 DEF TablesKept
<1> QED BY <1>1, <1>2, Steps, FileStepsKeepTables

AtomicFrames == ~program.preemptive => FindsAlone /\ FrameInv

LEMMA AtomicFramesStep == TypeInv /\ AtomicFrames /\ [Next]_vars => AtomicFrames'
<1> SUFFICES ASSUME TypeInv, AtomicFrames, [Next]_vars, ~program'.preemptive
             PROVE  FindsAlone' /\ FrameInv'
    BY DEF AtomicFrames
<1>1. ~program.preemptive /\ FindsAlone /\ FrameInv
    BY ProgramStays, TypeInvParts DEF AtomicFrames
<1>2. FindsAlone'
    BY <1>1, FindsAloneStep
<1>3. FindOneAtATime
    BY <1>1, AloneIsAtomic
<1>4. FindOneAtATime'
    <2>1. FindsAlone' => FindOneAtATime'
        BY DEF FindsAlone, FindOneAtATime
    <2> QED BY <1>2, <2>1
<1> QED BY <1>1, <1>2, <1>3, <1>4, FrameStep

(* Without -p the frames that Fork finds (addrspace.cc, threads/bitmap.cc)  *)
(* are private: neither Yield nor the timer of -rs takes the processor from *)
(* a thread that is in Fork.                                                *)
THEOREM FramesArePrivate == Spec => [](~program.preemptive => FramesPrivate)
<1>1. Init => TypeInv /\ AtomicFrames
    <2>1. Init => FindsAlone
        BY DEF Init, FindsAlone
    <2> QED BY <2>1, InitTypes, InitFrames DEF AtomicFrames
<1>2. TypeInv /\ AtomicFrames /\ [Next]_vars => (TypeInv /\ AtomicFrames)'
    BY StepTypes, AtomicFramesStep
<1>3. TypeInv /\ AtomicFrames => (~program.preemptive => FramesPrivate)
    BY FramesFromInv DEF AtomicFrames
<1> QED BY <1>1, <1>2, <1>3, PTL DEF Spec

-----------------------------------------------------------------------------
(* The handles of the sockets. *)
FileTables == [open : SUBSET Handles, users : Int, count : [Handles -> Int]]
Sockets(files) == files.open \ StandardFiles

OwnHandles(files, descriptors, t) ==
    /\ StandardFiles \subseteq files.open /\ files.count[2] = 2 /\ files.count[3] = 3
    /\ \A h \in Sockets(files) :
          /\ files.count[h] \in DOMAIN descriptors /\ descriptors[files.count[h]] = t
          /\ \A g \in Sockets(files) \ {h} : files.count[g] # files.count[h]

UnixStandard(descriptors) ==
    \A fd \in {0, 1} : fd \in DOMAIN descriptors /\ descriptors[fd] = NULL

HandleInv == UnixStandard(unix) => \A t \in Threads : OwnHandles(fileTable[t], unix, t)

LEMMA MoreDescriptors ==
    ASSUME NEW files, NEW d, NEW e, NEW t, OwnHandles(files, d, t),
           \A fd \in DOMAIN d : fd \in DOMAIN e /\ e[fd] = d[fd]
    PROVE  OwnHandles(files, e, t)
BY DEF OwnHandles

LEMMA OpenedAdds ==
    ASSUME FreeFds # {}, NEW t \in Threads
    PROVE  /\ \A fd \in DOMAIN unix : fd \in DOMAIN Opened(t) /\ Opened(t)[fd] = unix[fd]
           /\ Min(FreeFds) \in DOMAIN Opened(t) /\ Opened(t)[Min(FreeFds)] = t
           /\ UnixStandard(Opened(t)) => UnixStandard(unix)
<1> DEFINE new == Min(FreeFds)
<1>1. new \notin DOMAIN unix
    BY LeastFd
<1>2. Opened(t) = [fd \in DOMAIN unix \cup {new} |-> IF fd \in DOMAIN unix THEN unix[fd] ELSE t]
    BY DEF Opened
<1> HIDE DEF new
<1>3. \A fd \in DOMAIN unix : fd \in DOMAIN Opened(t) /\ Opened(t)[fd] = unix[fd]
    BY <1>2
<1>4. new \in DOMAIN Opened(t) /\ Opened(t)[new] = t
    BY <1>1, <1>2
<1>5. UnixStandard(Opened(t)) => UnixStandard(unix)
    <2>1. t # NULL /\ DOMAIN Opened(t) = DOMAIN unix \cup {new}
        BY <1>2, KernelAssumption
    <2> QED BY <1>3, <1>4, <2>1 DEF UnixStandard
<1> QED BY <1>3, <1>4, <1>5 DEF new

(* What OpenFiles::Open may leave in the table. *)
OpenLeaves(files, fd, after) ==
    \/ after.open = files.open /\ after.count = files.count
    \/ after.open = files.open \cup {0} /\ after.count = [files.count EXCEPT ![0] = 1]
    \/ \E h \in Handles \ files.open :
          after.open = files.open \cup {h} /\ after.count = [files.count EXCEPT ![h] = fd]

LEMMA OpenedTableCases ==
    ASSUME NEW files \in FileTables, NEW fd \in Int
    PROVE  OpenLeaves(files, fd, OpenedTable(files, fd).files)
<1> SUFFICES ASSUME NEW after, after = OpenedTable(files, fd).files
             PROVE  OpenLeaves(files, fd, after)
    OBVIOUS
<1> USE DEF OpenLeaves
<1> DEFINE free == Handles \ files.open
           users == files.users + 1
           m == Min(free)
<1>1. free # {} => m \in free
    <2>1. free \in SUBSET Nat
        BY HandleSets
    <2> HIDE DEF free
    <2> QED BY <2>1, LeastOf
<1>2. OpenedTable(files, fd).files =
        IF users = 0
        THEN [files EXCEPT !.users = users, !.open = files.open \cup {0},
                           !.count = [files.count EXCEPT ![0] = 1]]
        ELSE IF users < 0 \/ fd \notin files.open \/ free = {} THEN [files EXCEPT !.users = users]
        ELSE [files EXCEPT !.users = users, !.open = files.open \cup {m},
                           !.count = [files.count EXCEPT ![m] = fd]]
    BY DEF OpenedTable, FileTables
<1>3. ASSUME NEW u, NEW o, NEW c, after = [files EXCEPT !.users = u, !.open = o, !.count = c]
      PROVE  after.open = o /\ after.count = c
    BY <1>3 DEF FileTables
<1>4. ASSUME NEW u, after = [files EXCEPT !.users = u]
      PROVE  after.open = files.open /\ after.count = files.count
    BY <1>4 DEF FileTables
<1> HIDE DEF users, m, free
<1>5. CASE users = 0
    <2> DEFINE o == files.open \cup {0}
               c == [files.count EXCEPT ![0] = 1]
    <2>1. after = [files EXCEPT !.users = users, !.open = o, !.count = c]
        BY <1>2, <1>5
    <2> HIDE DEF o, c
    <2>2. after.open = o /\ after.count = c
        BY <1>3, <2>1
    <2> QED BY <2>2 DEF o, c
<1>6. CASE users # 0 /\ (users < 0 \/ fd \notin files.open \/ free = {})
    <2>1. after = [files EXCEPT !.users = users]
        BY <1>2, <1>6
    <2> QED BY <1>4, <2>1
<1>7. CASE users # 0 /\ ~(users < 0 \/ fd \notin files.open \/ free = {})
    <2> DEFINE o == files.open \cup {m}
               c == [files.count EXCEPT ![m] = fd]
    <2>1. after = [files EXCEPT !.users = users, !.open = o, !.count = c]
        BY <1>2, <1>7
    <2> HIDE DEF o, c
    <2>2. after.open = o /\ after.count = c
        BY <1>3, <2>1
    <2>3. m \in Handles \ files.open
        BY <1>1, <1>7 DEF free
    <2> QED BY <2>2, <2>3 DEF o, c
<1> QED BY <1>5, <1>6, <1>7

LEMMA OpenedIsOwn ==
    ASSUME NEW t \in Threads, FreeFds # {}, NEW files \in FileTables,
           OwnHandles(files, unix, t)
    PROVE  OwnHandles(OpenedTable(files, Min(FreeFds)).files, Opened(t), t)
<1> DEFINE fd == Min(FreeFds)
           after == OpenedTable(files, fd).files
           u == Opened(t)
<1>1. fd \in Int /\ fd \notin DOMAIN unix
    BY LeastFd
<1>2. /\ OwnHandles(files, u, t) /\ fd \in DOMAIN u /\ u[fd] = t
    BY OpenedAdds, MoreDescriptors
<1>3. \A g \in Sockets(files) : files.count[g] # fd
    BY <1>1 DEF OwnHandles
<1>4. OpenLeaves(files, fd, after)
    <2> HIDE DEF fd
    <2> QED BY <1>1, OpenedTableCases
<1> HIDE DEF fd, after, u
<1>5. CASE after.open = files.open /\ after.count = files.count
    BY <1>2, <1>5 DEF OwnHandles, Sockets, after, u, fd
<1>6. CASE after.open = files.open \cup {0} /\ after.count = [files.count EXCEPT ![0] = 1]
    <2>1. files.count \in [Handles -> Int]
        BY DEF FileTables
    <2>2. Sockets(after) = Sockets(files)
        BY <1>6, HandleSets DEF Sockets
    <2>3. \A h \in Handles : h # 0 => after.count[h] = files.count[h]
        BY <1>6, <2>1
    <2>4. 2 \in Handles /\ 3 \in Handles /\ Sockets(files) \subseteq Handles \ {0}
        BY HandleSets DEF Sockets, FileTables
    <2>5. StandardFiles \subseteq after.open
        BY <1>2, <1>6 DEF OwnHandles
    <2> QED BY <1>2, <2>2, <2>3, <2>4, <2>5 DEF OwnHandles, after, u, fd
<1>7. ASSUME NEW n \in Handles \ files.open,
             after.open = files.open \cup {n}, after.count = [files.count EXCEPT ![n] = fd]
      PROVE  OwnHandles(after, u, t)
    <2>1. files.count \in [Handles -> Int] /\ files.open \subseteq Handles
        BY DEF FileTables
    <2>2. StandardFiles \subseteq files.open
        BY <1>2 DEF OwnHandles
    <2>3. Sockets(after) = Sockets(files) \cup {n} /\ Sockets(files) \subseteq Handles /\ n \notin Sockets(files)
        BY <1>7, <2>1, <2>2 DEF Sockets
    <2>4. after.count[n] = fd /\ \A h \in Handles : h # n => after.count[h] = files.count[h]
        BY <1>7, <2>1
    <2>5. 2 \in Handles \ {n} /\ 3 \in Handles \ {n}
        BY <2>2, HandleSets
    <2>6. StandardFiles \subseteq after.open
        BY <1>7, <2>2
    <2> QED BY <1>2, <1>3, <2>3, <2>4, <2>5, <2>6 DEF OwnHandles
<1> QED BY <1>4, <1>5, <1>6, <1>7 DEF OpenLeaves, after, u, fd

LEMMA SocketHandles ==
    ASSUME FileTypes, HandleInv, NEW t \in Threads, NachOS_Socket(t)
    PROVE  HandleInv'
<1> DEFINE fd == Min(FreeFds)
           files == OpenedTable(fileTable[t], fd).files
<1>1. CASE fileTable[t].users >= 0 /\ fd \notin Handles
    <2>1. UNCHANGED <<fileTable, unix>>
        BY <1>1 DEF NachOS_Socket, Fail, userVars
    <2> QED BY <2>1 DEF HandleInv
<1>2. CASE ~(fileTable[t].users >= 0 /\ fd \notin Handles)
    <2>1. FreeFds # {} /\ unix' = Opened(t) /\ fileTable' = [fileTable EXCEPT ![t] = files]
        BY <1>2 DEF NachOS_Socket
    <2>2. SUFFICES ASSUME UnixStandard(unix') PROVE \A u \in Threads : OwnHandles(fileTable'[u], unix', u)
        BY DEF HandleInv
    <2>3. \A u \in Threads : OwnHandles(fileTable[u], unix, u)
        BY <2>1, <2>2, OpenedAdds DEF HandleInv
    <2>4. \A u \in Threads : OwnHandles(fileTable[u], unix', u)
        BY <2>1, <2>3, OpenedAdds, MoreDescriptors
    <2>5. OwnHandles(files, unix', t)
        <3>1. fileTable[t] \in FileTables
            BY DEF FileTypes, FileTables
        <3> QED BY <2>1, <2>3, <3>1, OpenedIsOwn
    <2>6. \A u \in Threads : fileTable'[u] = IF u = t THEN files ELSE fileTable[u]
        <3> HIDE DEF files
        <3> QED BY <2>1 DEF FileTypes
    <2> QED BY <2>4, <2>5, <2>6
<1> QED BY <1>1, <1>2

LEMMA AcceptOrExecHandles ==
    ASSUME HandleInv, NEW t \in Threads, NachOS_Accept(t) \/ NachOS_Exec(t)
    PROVE  HandleInv'
<1>1. FreeFds # {} /\ unix' = Opened(t) /\ fileTable' = fileTable
    BY DEF NachOS_Accept, NachOS_Exec
<1>2. SUFFICES ASSUME UnixStandard(unix') PROVE \A u \in Threads : OwnHandles(fileTable'[u], unix', u)
    BY DEF HandleInv
<1>3. \A u \in Threads : OwnHandles(fileTable[u], unix, u)
    BY <1>1, <1>2, OpenedAdds DEF HandleInv
<1> QED BY <1>1, <1>3, OpenedAdds, MoreDescriptors

LEMMA CloseHandles ==
    ASSUME FileTypes, HandleInv, NEW t \in Threads, NachOS_Close(t)
    PROVE  HandleInv'
<1> DEFINE h == Arg(1)
           files == fileTable[t]
<1>1. files \in FileTables
    BY DEF FileTypes, FileTables
<1>2. SUFFICES ASSUME UnixStandard(unix') PROVE \A u \in Threads : OwnHandles(fileTable'[u], unix', u)
    BY DEF HandleInv
<1>3. \/ fileTable' = fileTable /\ unix' = unix
      \/ fileTable' = [fileTable EXCEPT ![t] = [files EXCEPT !.users = @ - 1]] /\ unix' = unix
      \/ /\ h \in files.open /\ files.count[h] = 1
         /\ unix' = [fd \in DOMAIN unix \ {h} |-> unix[fd]]
    BY DEF NachOS_Close, IsOpen, FileTypes
<1> HIDE DEF h, files
<1>4. UnixStandard(unix)
    BY <1>2, <1>3 DEF UnixStandard
<1>5. \A u \in Threads : OwnHandles(fileTable[u], unix, u)
    BY <1>4 DEF HandleInv
<1>6. ~(h \in files.open /\ files.count[h] = 1 /\ unix' = [fd \in DOMAIN unix \ {h} |-> unix[fd]])
    <2> SUFFICES ASSUME h \in files.open, files.count[h] = 1, h \notin DOMAIN unix'
                 PROVE  FALSE
        OBVIOUS
    <2>1. h \notin {0, 1}
        BY <1>2 DEF UnixStandard
    <2>2. h \notin {2, 3}
        BY <1>5 DEF OwnHandles, files
    <2>3. h \in Sockets(files)
        BY <2>1, <2>2, HandleSets DEF Sockets
    <2>4. unix[1] = t /\ unix[1] = NULL
        BY <1>4, <1>5, <2>3 DEF OwnHandles, UnixStandard, files
    <2> QED BY <2>4, KernelAssumption
<1>7. unix' = unix
    BY <1>3, <1>6
<1>8. \A u \in Threads : /\ fileTable'[u].open = fileTable[u].open
                         /\ fileTable'[u].count = fileTable[u].count
    <2>1. CASE fileTable' = [fileTable EXCEPT ![t] = [files EXCEPT !.users = @ - 1]]
        <3>1. \A u \in Threads : fileTable'[u] = IF u = t THEN [files EXCEPT !.users = @ - 1] ELSE fileTable[u]
            BY <2>1 DEF FileTypes
        <3> QED BY <1>1, <3>1 DEF FileTables, files
    <2> QED BY <1>3, <1>6, <2>1
<1> QED BY <1>5, <1>7, <1>8 DEF OwnHandles, Sockets

LEMMA HandlesStep == TypeInv /\ HandleInv /\ [Next]_vars => HandleInv'
<1> SUFFICES ASSUME TypeInv, HandleInv, [Next]_vars PROVE HandleInv'
    OBVIOUS
<1>1. KernelInv /\ MachineTypes /\ FileTypes
    BY TypeInvParts
<1>2. ASSUME FilesKept PROVE HandleInv'
    BY <1>2 DEF FilesKept, HandleInv
<1>3. ASSUME NEW t \in Threads, TableStep(t) PROVE HandleInv'
    BY <1>2, <1>3, TableStepsKeepFiles
<1>4. ASSUME NEW t \in Threads, FileStep(t) PROVE HandleInv'
    BY <1>1, <1>4, CloseHandles, SocketHandles, AcceptOrExecHandles DEF FileStep
<1> QED BY <1>1, <1>2, <1>3, <1>4, Steps

LEMMA InitHandles == Init => HandleInv
<1> SUFFICES ASSUME Init, NEW t \in Threads PROVE OwnHandles(fileTable[t], unix, t)
    BY DEF HandleInv
<1>1. fileTable[t] = NewFileTable
    BY DEF Init
<1>2. NewFileTable.open = StandardFiles /\ NewFileTable.count[2] = 2 /\ NewFileTable.count[3] = 3
    <2>1. 2 \in Handles \cap StandardFiles /\ 3 \in Handles \cap StandardFiles
        BY HandleSets
    <2> QED BY <2>1 DEF NewFileTable
<1> QED BY <1>1, <1>2 DEF OwnHandles, Sockets

(* The handle that Socket gives a thread names the thread's own socket for  *)
(* as long as the UNIX standard input and output are open, although         *)
(* OpenFiles keeps descriptors and counts in one array (openFiles.cc).      *)
THEOREM HandlesStayOwn == Spec => []HandlesAreOwn
<1>1. Init => TypeInv /\ HandleInv
    BY InitTypes, InitHandles
<1>2. TypeInv /\ HandleInv /\ [Next]_vars => (TypeInv /\ HandleInv)'
    BY StepTypes, HandlesStep
<1>3. HandleInv => HandlesAreOwn
    BY DEF HandleInv, HandlesAreOwn, OwnHandles, UnixStandard, Sockets
<1> QED BY <1>1, <1>2, <1>3, PTL DEF Spec
=============================================================================
