----------------------------- MODULE UnitProofs ------------------------------
(***************************************************************************)
(* That the integer units compute what the RISC-V manual says, for words   *)
(* of every width, and that what they compute is what the core assumes of  *)
(* compute_result.                                                         *)
(***************************************************************************)
EXTENDS UnitArithmetic, WellFoundedInduction, TLAPS

(* Induction over the natural numbers, of sets. *)
LEMMA LeastNumber ==
  ASSUME NEW S, S \subseteq Nat, S # {}
  PROVE  \E n \in S : \A m \in S : n <= m
<1> DEFINE R == OpToRel(<, Nat)
<1>1. IsWellFoundedOn(R, Nat)
  BY NatLessThanWellFounded, Zenon
<1>2. PICK n \in S : \A m \in S : ~ (<<m, n>> \in R)
  <2> HIDE DEF R
  <2> QED BY <1>1, WFMin
<1>3. \A m \in S : m \in Nat /\ n \in Nat /\ ~(m < n)
  BY <1>2, Zenon DEF OpToRel
<1> QED BY <1>3

LEMMA SetInduction ==
  ASSUME NEW S, 0 \in S, \A n \in Nat : n \in S => n + 1 \in S
  PROVE  Nat \subseteq S
<1> DEFINE T == Nat \ S
<1> SUFFICES ASSUME T # {} PROVE FALSE
  OBVIOUS
<1>1. PICK n \in T : \A m \in T : n <= m
  BY LeastNumber
<1>2. n # 0 /\ n - 1 \in Nat /\ n - 1 \notin T
  BY <1>1
<1> QED BY <1>1, <1>2

(* What is computed step by step, each step from the number of the step    *)
(* and the last value, is a function on the natural numbers.               *)
Follows(f, c, T, n) ==
  /\ f \in [Nat -> Int] /\ f[0] = c
  /\ \A m \in Nat : m < n => f[m + 1] = T[<<m, f[m]>>]

LEMMA FollowFurther ==
  ASSUME NEW c \in Int, NEW T \in [Nat \X Int -> Int], NEW n \in Nat,
         NEW f, Follows(f, c, T, n)
  PROVE  \E g : Follows(g, c, T, n + 1)
<1> DEFINE g == [m \in Nat |-> IF m = n + 1 THEN T[<<n, f[n]>>] ELSE f[m]]
<1>1. f \in [Nat -> Int] /\ T[<<n, f[n]>>] \in Int
  BY DEF Follows
<1>2. g \in [Nat -> Int]
  BY <1>1
<1>3. g[0] = c
  BY DEF Follows
<1>4. ASSUME NEW m \in Nat, m < n + 1 PROVE g[m + 1] = T[<<m, g[m]>>]
  <2>1. g[m] = f[m]
    BY <1>4
  <2>2. CASE m = n
    BY <2>1, <2>2
  <2>3. CASE m # n
    <3>1. m < n /\ m + 1 \in Nat /\ m + 1 # n + 1
      BY <1>4, <2>3
    <3>2. g[m + 1] = f[m + 1]
      BY <3>1
    <3>3. f[m + 1] = T[<<m, f[m]>>]
      BY <3>1 DEF Follows
    <3> QED BY <2>1, <3>2, <3>3
  <2> QED BY <2>2, <2>3
<1> QED BY <1>2, <1>3, <1>4 DEF Follows

LEMMA FollowAgree ==
  ASSUME NEW c, NEW T, NEW p \in Nat, NEW q \in Nat,
         NEW f, NEW g, Follows(f, c, T, p), Follows(g, c, T, q), 
         NEW m \in Nat, m <= p, m <= q
  PROVE  f[m] = g[m]
<1> DEFINE S == {i \in Nat : i <= p /\ i <= q => f[i] = g[i]}
<1>1. 0 \in S
  BY DEF Follows
<1>2. ASSUME NEW i \in Nat, i \in S PROVE i + 1 \in S
  <2> SUFFICES ASSUME i + 1 <= p, i + 1 <= q PROVE f[i + 1] = g[i + 1]
    OBVIOUS
  <2>1. i < p /\ i < q /\ f[i] = g[i]
    BY <1>2
  <2> QED BY <2>1 DEF Follows
<1>3. Nat \subseteq S
  <2> HIDE DEF S
  <2> QED BY <1>1, <1>2, SetInduction
<1> QED BY <1>3

LEMMA Recursion ==
  ASSUME NEW c \in Int, NEW T \in [Nat \X Int -> Int]
  PROVE  \E f \in [Nat -> Int] : f[0] = c /\ \A n \in Nat : f[n + 1] = T[<<n, f[n]>>]
<1>1. \A n \in Nat : \E f : Follows(f, c, T, n)
  <2> DEFINE S == {n \in Nat : \E f : Follows(f, c, T, n)}
  <2>1. 0 \in S
    <3>1. Follows([m \in Nat |-> c], c, T, 0)
      BY DEF Follows
    <3> QED BY <3>1
  <2>2. ASSUME NEW n \in Nat, n \in S PROVE n + 1 \in S
    BY <2>2, FollowFurther
  <2>3. Nat \subseteq S
    <3> HIDE DEF S
    <3> QED BY <2>1, <2>2, SetInduction
  <2> QED BY <2>3
<1> DEFINE F(n) == CHOOSE f : Follows(f, c, T, n)
           h == [n \in Nat |-> F(n)[n]]
<1>2. \A n \in Nat : Follows(F(n), c, T, n)
  BY <1>1
<1> HIDE DEF F
<1>3. \A n \in Nat : h[n] = F(n)[n]
  OBVIOUS
<1>4. h \in [Nat -> Int]
  BY <1>2 DEF Follows
<1>5. h[0] = c
  BY <1>2 DEF Follows
<1>6. ASSUME NEW n \in Nat PROVE h[n + 1] = T[<<n, h[n]>>]
  <2>1. Follows(F(n), c, T, n) /\ Follows(F(n + 1), c, T, n + 1)
    BY <1>2
  <2>2. F(n + 1)[n] = F(n)[n]
    BY <2>1, FollowAgree
  <2>3. F(n + 1)[n + 1] = T[<<n, F(n + 1)[n]>>]
    BY <2>1 DEF Follows
  <2> HIDE DEF h
  <2> QED BY <2>2, <2>3, <1>3
<1> HIDE DEF h
<1> QED BY <1>4, <1>5, <1>6

LEMMA PowerEquation ==
  PowerOf2 = [n \in Nat |-> IF n = 0 THEN 1 ELSE 2 * PowerOf2[n - 1]]
<1> DEFINE T == [p \in Nat \X Int |-> 2 * p[2]]
<1>1. T \in [Nat \X Int -> Int] /\ \A n \in Nat, v \in Int : T[<<n, v>>] = 2 * v
  OBVIOUS
<1> HIDE DEF T
<1>2. PICK f \in [Nat -> Int] : f[0] = 1 /\ \A n \in Nat : f[n + 1] = T[<<n, f[n]>>]
  <2>1. 1 \in Int /\ T \in [Nat \X Int -> Int]
    BY <1>1
  <2> QED BY <2>1, Recursion, Zenon
<1>3. \A n \in Nat : f[n] = IF n = 0 THEN 1 ELSE 2 * f[n - 1]
  <2>1. \A n \in Nat : n # 0 => n - 1 \in Nat /\ n = (n - 1) + 1
    OBVIOUS
  <2> QED BY <1>1, <1>2, <2>1
<1>4. f = [n \in Nat |-> IF n = 0 THEN 1 ELSE 2 * f[n - 1]]
  BY <1>3
<1> QED BY <1>4 DEF PowerOf2

LEMMA Powers ==
  /\ PowerOf2[0] = 1
  /\ \A n \in Nat : PowerOf2[n] \in Nat \ {0} /\ PowerOf2[n + 1] = 2 * PowerOf2[n]
<1>1. /\ PowerOf2[0] = 1
      /\ \A n \in Nat : PowerOf2[n + 1] = 2 * PowerOf2[n]
  BY PowerEquation
<1> DEFINE S == {n \in Nat : PowerOf2[n] \in Nat \ {0}}
<1>2. 0 \in S /\ \A n \in Nat : n \in S => n + 1 \in S
  BY <1>1
<1>3. Nat \subseteq S
  <2> HIDE DEF S
  <2> QED BY <1>2, SetInduction
<1> QED BY <1>1, <1>3

LEMMA PowerAdds ==
  ASSUME NEW m \in Nat, NEW n \in Nat
  PROVE  PowerOf2[m + n] = PowerOf2[m] * PowerOf2[n]
<1> DEFINE S == {i \in Nat : PowerOf2[m + i] = PowerOf2[m] * PowerOf2[i]}
<1>1. 0 \in S
  BY Powers
<1>2. ASSUME NEW i \in Nat, i \in S PROVE i + 1 \in S
  <2>1. /\ PowerOf2[(m + i) + 1] = 2 * PowerOf2[m + i] /\ (m + i) + 1 = m + (i + 1)
        /\ PowerOf2[i + 1] = 2 * PowerOf2[i]
        /\ PowerOf2[m] \in Nat /\ PowerOf2[i] \in Nat
    BY Powers
  <2>2. 2 * (PowerOf2[m] * PowerOf2[i]) = PowerOf2[m] * (2 * PowerOf2[i])
    BY <2>1
  <2> QED BY <1>2, <2>1, <2>2
<1>3. Nat \subseteq S
  <2> HIDE DEF S
  <2> QED BY <1>1, <1>2, SetInduction
<1> QED BY <1>3

(* The sizes of a word. *)
LEMMA Sizes ==
  /\ WIDTH \in Nat \ {0} /\ Wrap \in Nat \ {0} /\ Half \in Nat \ {0} /\ Wrap = 2 * Half
  /\ Half32 \in Nat \ {0}
<1>1. /\ WIDTH - 1 \in Nat /\ (WIDTH - 1) + 1 = WIDTH /\ WIDTH \in Nat
      /\ WIDTH \div 2 \in Nat
  BY WidthAssumption
<1> QED BY <1>1, Powers, WidthAssumption DEF Wrap, Half, Half32
-----------------------------------------------------------------------------
(* Division by a number that is not a literal. *)
LEMMA Division ==
  ASSUME NEW a \in Int, NEW d \in Nat \ {0}
  PROVE  /\ a \div d \in Int /\ a % d \in Nat /\ a % d < d
         /\ a = d * (a \div d) + (a % d)
OBVIOUS

LEMMA QuotientUnique ==
  ASSUME NEW d \in Nat \ {0}, NEW q \in Int, NEW m \in 0 .. d - 1
  PROVE  (d * q + m) \div d = q /\ (d * q + m) % d = m
<1> DEFINE a == d * q + m
           p == a \div d
<1>1. d * q \in Int /\ a \in Int
  OBVIOUS
<1>2. /\ p \in Int /\ a % d \in Int /\ 0 <= a % d /\ a % d < d
      /\ a = d * p + (a % d)
  <2> HIDE DEF a
  <2> QED BY <1>1, Division
<1>3. ~(p < q)
  <2> SUFFICES ASSUME p < q PROVE FALSE
    OBVIOUS
  <2>1. d * p + d <= d * q
    <3>1. d * (p + 1) <= d * q
      BY <1>2
    <3> QED BY <1>2, <3>1
  <2> QED BY <1>1, <1>2, <2>1
<1>4. ~(p > q)
  <2> SUFFICES ASSUME p > q PROVE FALSE
    OBVIOUS
  <2>1. d * q + d <= d * p
    <3>1. d * (q + 1) <= d * p
      BY <1>2
    <3> QED BY <1>2, <3>1
  <2> QED BY <1>1, <1>2, <2>1
<1>5. p = q
  BY <1>2, <1>3, <1>4
<1> QED BY <1>1, <1>2, <1>5

LEMMA QuotientOfProduct ==
  ASSUME NEW a \in Int, NEW d \in Nat \ {0}, NEW e \in Nat \ {0}
  PROVE  a \div (d * e) = (a \div d) \div e
OBVIOUS
-----------------------------------------------------------------------------
(* The bits of a number. *)
LEMMA BitType == ASSUME NEW x \in Int, NEW i \in Nat PROVE Bit(x, i) \in {0, 1}
<1>1. PowerOf2[i] \in Nat \ {0}
  BY Powers
<1>2. x \div PowerOf2[i] \in Int
  BY <1>1
<1> QED BY <1>2 DEF Bit

(* A multiple of a higher power of two has no say in a bit. *)
LEMMA BitBelow ==
  ASSUME NEW n \in Nat, NEW i \in Nat, i < n, NEW x \in Int, NEW y \in Int
  PROVE  Bit(PowerOf2[n] * y + x, i) = Bit(x, i)
<1> DEFINE d == PowerOf2[i]
           e == PowerOf2[n - i - 1]
           u == x \div d
           v == x % d
<1>1. d \in Nat \ {0} /\ e \in Nat \ {0} /\ PowerOf2[n] = 2 * (d * e)
  <2>1. n - i - 1 \in Nat /\ (n - i - 1) + i \in Nat /\ n = ((n - i - 1) + i) + 1
    OBVIOUS
  <2>2. PowerOf2[n] = 2 * PowerOf2[(n - i - 1) + i]
    BY <2>1, Powers
  <2>3. PowerOf2[(n - i - 1) + i] = e * d
    BY <2>1, PowerAdds
  <2>4. d \in Nat \ {0} /\ e \in Nat \ {0}
    BY <2>1, Powers
  <2> HIDE DEF d, e
  <2> QED BY <2>2, <2>3, <2>4
<1>2. u \in Int /\ v \in 0 .. d - 1 /\ x = d * u + v
  <2> HIDE DEF d
  <2> QED BY <1>1, Division
<1> DEFINE w == 2 * (e * y) + u
<1> HIDE DEF d, e, u, v
<1>3. w \in Int /\ PowerOf2[n] * y + x = d * w + v
  <2>1. (2 * (d * e)) * y = d * (2 * (e * y)) /\ e * y \in Int
    BY <1>1
  <2>2. d * w = d * (2 * (e * y)) + d * u
    BY <1>1, <1>2, <2>1
  <2> QED BY <1>1, <1>2, <2>1, <2>2
<1>4. (PowerOf2[n] * y + x) \div d = w
  BY <1>1, <1>2, <1>3, QuotientUnique
<1>5. w % 2 = u % 2
  BY <1>1, <1>2
<1> QED BY <1>4, <1>5 DEF Bit, d, u

LEMMA BitOfWord ==
  ASSUME NEW x \in Int, NEW i \in 0 .. WIDTH - 1
  PROVE  Bit(x % Wrap, i) = Bit(x, i)
<1> DEFINE q == x \div Wrap
           m == x % Wrap
<1>1. q \in Int /\ m \in Int /\ x = Wrap * q + m
  <2>1. Wrap \in Nat \ {0}
    BY Sizes
  <2> HIDE DEF Wrap
  <2> QED BY <2>1, Division
<1>2. WIDTH \in Nat /\ i \in Nat /\ i < WIDTH
  BY Sizes
<1>3. Bit(Wrap * q + m, i) = Bit(m, i)
  <2> HIDE DEF q, m
  <2> QED BY <1>1, <1>2, BitBelow DEF Wrap
<1> QED BY <1>1, <1>3

(* The word put together from bits has these bits. *)
LEMMA LowBits ==
  ASSUME NEW b \in [Nat -> {0, 1}]
  PROVE  \E low \in [Nat -> Int] :
           /\ low[0] = 0 /\ \A n \in Nat : low[n + 1] = low[n] + PowerOf2[n] * b[n]
           /\ FromBits(b) = low[WIDTH]
<1> DEFINE low == CHOOSE low : low = [n \in Nat |-> IF n = 0 THEN 0
                                   ELSE low[n - 1] + PowerOf2[n - 1] * b[n - 1]]
<1>1. \E f : f = [n \in Nat |-> IF n = 0 THEN 0
                                ELSE f[n - 1] + PowerOf2[n - 1] * b[n - 1]]
  <2> DEFINE T == [p \in Nat \X Int |-> p[2] + PowerOf2[p[1]] * b[p[1]]]
  <2>1. T \in [Nat \X Int -> Int] /\ 0 \in Int
    BY Powers
  <2>2. \A n \in Nat, v \in Int : T[<<n, v>>] = v + PowerOf2[n] * b[n]
    OBVIOUS
  <2> HIDE DEF T
  <2>3. PICK f \in [Nat -> Int] : f[0] = 0 /\ \A n \in Nat : f[n + 1] = T[<<n, f[n]>>]
    BY <2>1, Recursion, Zenon
  <2>4. \A n \in Nat : f[n] = IF n = 0 THEN 0 ELSE f[n - 1] + PowerOf2[n - 1] * b[n - 1]
    <3>1. \A n \in Nat : n # 0 => n - 1 \in Nat /\ n = (n - 1) + 1
      OBVIOUS
    <3> QED BY <2>2, <2>3, <3>1
  <2>5. f = [n \in Nat |-> IF n = 0 THEN 0 ELSE f[n - 1] + PowerOf2[n - 1] * b[n - 1]]
    BY <2>4
  <2> QED BY <2>5
<1>2. low = [n \in Nat |-> IF n = 0 THEN 0 ELSE low[n - 1] + PowerOf2[n - 1] * b[n - 1]]
  BY <1>1, Zenon
<1>3. FromBits(b) = low[WIDTH]
  BY Zenon DEF FromBits
<1> HIDE DEF low
<1>4. low[0] = 0 /\ \A n \in Nat : low[n + 1] = low[n] + PowerOf2[n] * b[n]
  BY <1>2
<1>5. low \in [Nat -> Int]
  <2> DEFINE S == {n \in Nat : low[n] \in Int}
  <2>1. 0 \in S /\ \A n \in Nat : n \in S => n + 1 \in S
    BY <1>4, Powers
  <2>2. Nat \subseteq S
    <3> HIDE DEF S
    <3> QED BY <2>1, SetInduction
  <2> QED BY <1>2, <2>2
<1> QED BY <1>3, <1>4, <1>5

LEMMA BitsOfSum ==
  ASSUME NEW b \in [Nat -> {0, 1}], NEW low \in [Nat -> Int], low[0] = 0,
         \A n \in Nat : low[n + 1] = low[n] + PowerOf2[n] * b[n], NEW m \in Nat
  PROVE  /\ low[m] \in 0 .. PowerOf2[m] - 1
         /\ \A i \in 0 .. m - 1 : Bit(low[m], i) = b[i]
<1> DEFINE Good(n) == /\ low[n] \in 0 .. PowerOf2[n] - 1
                      /\ \A i \in 0 .. n - 1 : Bit(low[n], i) = b[i]
           S == {n \in Nat : Good(n)}
<1>1. 0 \in S
  BY Powers
<1>2. ASSUME NEW n \in Nat, n \in S PROVE n + 1 \in S
  <2>1. /\ PowerOf2[n] \in Nat \ {0} /\ PowerOf2[n + 1] = 2 * PowerOf2[n]
        /\ b[n] \in {0, 1} /\ low[n] \in 0 .. PowerOf2[n] - 1
        /\ low[n + 1] = PowerOf2[n] * b[n] + low[n]
    BY <1>2, Powers
  <2>2. low[n + 1] \in 0 .. PowerOf2[n + 1] - 1
    BY <2>1
  <2>3. Bit(low[n + 1], n) = b[n]
    <3>1. (PowerOf2[n] * b[n] + low[n]) \div PowerOf2[n] = b[n]
      <4> DEFINE d == PowerOf2[n]
                 q == b[n]
                 v == low[n]
      <4>1. d \in Nat \ {0} /\ q \in Int /\ v \in 0 .. d - 1
        BY <2>1
      <4> HIDE DEF d, q, v
      <4>2. (d * q + v) \div d = q
        BY <4>1, QuotientUnique
      <4> QED BY <4>2 DEF d, q, v
    <3>2. b[n] % 2 = b[n]
      BY <2>1
    <3>3. low[n + 1] \div PowerOf2[n] = b[n]
      BY <2>1, <3>1
    <3> QED BY <3>2, <3>3 DEF Bit
  <2>4. ASSUME NEW i \in 0 .. n - 1 PROVE Bit(low[n + 1], i) = b[i]
    <3>1. Bit(low[n + 1], i) = Bit(low[n], i)
      <4>1. i \in Nat /\ i < n /\ low[n] \in Int /\ b[n] \in Int
        BY <2>1
      <4>2. Bit(PowerOf2[n] * b[n] + low[n], i) = Bit(low[n], i)
        BY <4>1, BitBelow
      <4> QED BY <2>1, <4>2
    <3> QED BY <1>2, <3>1
  <2>5. \A i \in 0 .. (n + 1) - 1 : i = n \/ i \in 0 .. n - 1
    OBVIOUS
  <2> QED BY <2>2, <2>3, <2>4, <2>5
<1>3. Nat \subseteq S
  <2> HIDE DEF S
  <2> QED BY <1>1, <1>2, SetInduction
<1> QED BY <1>3

LEMMA FromBitsCorrect ==
  ASSUME NEW b \in [Nat -> {0, 1}]
  PROVE  /\ FromBits(b) \in 0 .. Wrap - 1
         /\ \A i \in 0 .. WIDTH - 1 : Bit(FromBits(b), i) = b[i]
<1>1. PICK low \in [Nat -> Int] :
        /\ low[0] = 0 /\ \A n \in Nat : low[n + 1] = low[n] + PowerOf2[n] * b[n]
        /\ FromBits(b) = low[WIDTH]
  BY LowBits
<1>2. WIDTH \in Nat
  BY Sizes
<1>3. /\ low[WIDTH] \in 0 .. PowerOf2[WIDTH] - 1
      /\ \A i \in 0 .. WIDTH - 1 : Bit(low[WIDTH], i) = b[i]
  BY <1>1, <1>2, BitsOfSum
<1> QED BY <1>1, <1>3 DEF Wrap
-----------------------------------------------------------------------------
(* Words, and numbers read as words. *)
InWord == 0 .. Wrap - 1

LEMMA WordOfWord == \A x \in InWord : x % Wrap = x
BY Sizes DEF InWord

LEMMA WordOfInt == \A x \in Int : x % Wrap \in InWord
BY Sizes DEF InWord

LEMMA RemainderDiffers ==
  ASSUME NEW d \in Nat \ {0}, NEW x \in Int
  PROVE  ((x % d) - x) % d = 0
<1> DEFINE q == x \div d
           m == x % d
<1>1. q \in Int /\ m \in Int /\ x = d * q + m
  BY Division
<1> HIDE DEF q, m
<1> DEFINE p == -q
<1>2. p \in Int /\ m - x = d * p + 0 /\ 0 \in 0 .. d - 1
  <2>1. d * (-q) = -(d * q) /\ d * q \in Int
    BY <1>1
  <2> QED BY <1>1, <2>1
<1> HIDE DEF p
<1>3. (d * p + 0) % d = 0
  BY <1>2, QuotientUnique
<1> QED BY <1>2, <1>3 DEF m

(* Numbers that differ by a multiple of d leave the same remainder. *)
LEMMA SameRemainder ==
  ASSUME NEW d \in Nat \ {0}, NEW x \in Int, NEW y \in Int, NEW z \in Int,
         x = d * z + y
  PROVE  x % d = y % d
<1> DEFINE q == y \div d
           m == y % d
<1>1. q \in Int /\ m \in 0 .. d - 1 /\ y = d * q + m
  BY Division
<1> HIDE DEF q, m
<1> DEFINE w == q + z
<1>2. w \in Int /\ x = d * w + m
  <2>1. d * (q + z) = d * q + d * z /\ d * q \in Int /\ d * z \in Int
    BY <1>1
  <2> QED BY <1>1, <2>1
<1> HIDE DEF w
<1>3. (d * w + m) % d = m
  BY <1>1, <1>2, QuotientUnique
<1> QED BY <1>2, <1>3 DEF m

LEMMA WordDiffers == ASSUME NEW x \in Int PROVE Congruent(x % Wrap, x)
BY Sizes, RemainderDiffers DEF Congruent

LEMMA SameWord ==
  ASSUME NEW x \in Int, NEW y \in Int, NEW z \in Int, x = Wrap * z + y
  PROVE  x % Wrap = y % Wrap
BY Sizes, SameRemainder

(* Two's complement, as the units and as the manual read it. *)
LEMMA SignedIsTwosC ==
  ASSUME NEW x \in InWord
  PROVE  /\ TwosC(x) = Signed(x) /\ Signed(x) \in -Half .. Half - 1
         /\ Signed(x) = x \/ Signed(x) = x - Wrap
<1>1. /\ x \in Nat /\ Half \in Nat \ {0} /\ Wrap = 2 * Half /\ x < Wrap
  BY Sizes DEF InWord
<1>2. x \div Half = IF x >= Half THEN 1 ELSE 0
  <2> DEFINE d == Half
             m == IF x >= d THEN x - d ELSE x
             q == IF x >= d THEN 1 ELSE 0
  <2>1. d \in Nat \ {0} /\ q \in Int /\ m \in 0 .. d - 1 /\ x = d * q + m
    BY <1>1
  <2> HIDE DEF d, m, q
  <2>2. (d * q + m) \div d = q
    BY <2>1, QuotientUnique
  <2> QED BY <2>1, <2>2 DEF d, q
<1> QED BY <1>1, <1>2 DEF TwosC, Signed

LEMMA TwosCOfInt ==
  ASSUME NEW x \in -Half .. Half - 1
  PROVE  TwosC(x % Wrap) = x
<1>1. Half \in Nat \ {0} /\ Wrap = 2 * Half /\ Wrap \in Nat \ {0} /\ x \in Int
  BY Sizes
<1>2. CASE x >= 0
  <2>1. x \in InWord /\ x < Half
    BY <1>1, <1>2 DEF InWord
  <2> QED BY <1>1, <2>1, WordOfWord, SignedIsTwosC DEF Signed
<1>3. CASE x < 0
  <2>1. x + Wrap \in InWord /\ x + Wrap >= Half /\ x + Wrap \in Int
    BY <1>1, <1>3 DEF InWord
  <2>2. x % Wrap = (x + Wrap) % Wrap
    <3>1. x = Wrap * (-1) + (x + Wrap)
      BY <1>1
    <3> QED BY <1>1, <2>1, <3>1, SameWord
  <2>3. x % Wrap = x + Wrap
    BY <2>1, <2>2, WordOfWord
  <2> QED BY <1>1, <2>1, <2>3, SignedIsTwosC DEF Signed
<1> QED BY <1>1, <1>2, <1>3
-----------------------------------------------------------------------------
(* Shifts. *)
LEMMA BitShiftedLeft ==
  ASSUME NEW x \in InWord, NEW s \in 0 .. WIDTH - 1, NEW i \in 0 .. WIDTH - 1
  PROVE  Bit((x * PowerOf2[s]) % Wrap, i) = IF i < s THEN 0 ELSE Bit(x, i - s)
<1>1. s \in Nat /\ i \in Nat /\ x \in Int /\ PowerOf2[s] \in Nat \ {0}
  BY Powers, Sizes DEF InWord
<1>2. x * PowerOf2[s] \in Int
  BY <1>1
<1>3. Bit((x * PowerOf2[s]) % Wrap, i) = Bit(x * PowerOf2[s], i)
  BY <1>2, BitOfWord
<1>4. CASE i < s
  <2> DEFINE z == 0
  <2>1. Bit(PowerOf2[s] * x + z, i) = Bit(z, i)
    <3>1. z \in Int
      OBVIOUS
    <3> HIDE DEF z
    <3> QED BY <1>1, <1>4, <3>1, BitBelow
  <2>2. x * PowerOf2[s] = PowerOf2[s] * x + 0
    BY <1>1
  <2>3. 0 \div PowerOf2[i] = 0
    <3>1. PowerOf2[i] \in Nat \ {0}
      BY <1>1, Powers
    <3> QED BY <3>1
  <2>4. Bit(0, i) = 0
    BY <2>3 DEF Bit
  <2> QED BY <1>3, <1>4, <2>1, <2>2, <2>4
<1>5. CASE ~(i < s)
  <2> DEFINE d == PowerOf2[s]
             e == PowerOf2[i - s]
  <2>1. PowerOf2[i] = d * e /\ d \in Nat \ {0} /\ e \in Nat \ {0}
    <3>1. i - s \in Nat /\ s + (i - s) = i
      BY <1>1, <1>5
    <3>2. PowerOf2[s + (i - s)] = PowerOf2[s] * PowerOf2[i - s]
      BY <1>1, <3>1, PowerAdds
    <3>3. PowerOf2[s] \in Nat \ {0} /\ PowerOf2[i - s] \in Nat \ {0}
      BY <1>1, <3>1, Powers
    <3> QED BY <3>1, <3>2, <3>3
  <2> HIDE DEF d, e
  <2>2. (d * x + 0) \div d = x
    <3>1. 0 \in 0 .. d - 1
      BY <2>1
    <3> QED BY <1>1, <2>1, <3>1, QuotientUnique
  <2>3. x * d = d * x + 0 /\ x * d \in Int
    BY <1>1, <2>1
  <2>4. (x * d) \div (d * e) = x \div e
    BY <2>1, <2>2, <2>3, QuotientOfProduct
  <2> QED BY <1>3, <1>5, <2>1, <2>4 DEF Bit, d, e
<1> QED BY <1>4, <1>5

LEMMA BitShiftedRight ==
  ASSUME NEW x \in InWord, NEW s \in 0 .. WIDTH - 1, NEW i \in 0 .. WIDTH - 1
  PROVE  /\ x \div PowerOf2[s] \in InWord
         /\ Bit(x \div PowerOf2[s], i) = IF i + s < WIDTH THEN Bit(x, i + s) ELSE 0
<1> DEFINE d == PowerOf2[s]
           e == PowerOf2[i]
<1>1. /\ s \in Nat /\ i \in Nat /\ x \in Nat /\ x < Wrap /\ WIDTH \in Nat
      /\ d \in Nat \ {0} /\ e \in Nat \ {0} /\ PowerOf2[i + s] = d * e
  <2>1. s \in Nat /\ i \in Nat /\ x \in Nat /\ x < Wrap /\ WIDTH \in Nat /\ i + s = s + i
    BY Sizes DEF InWord
  <2> QED BY <2>1, Powers, PowerAdds
<1>2. x \div d \in 0 .. x
  <2> HIDE DEF d
  <2>1. x \div d \in Nat /\ x % d \in Nat /\ x = d * (x \div d) + (x % d)
    BY <1>1
  <2>2. \A q \in Nat : d * q >= q
    BY <1>1
  <2> QED BY <1>1, <2>1, <2>2
<1>3. (x \div d) \div e = x \div (d * e)
  <2> HIDE DEF d, e
  <2>1. x \in Int
    BY <1>1
  <2> QED BY <1>1, <2>1, QuotientOfProduct
<1>4. Bit(x \div d, i) = Bit(x, i + s)
  BY <1>1, <1>3 DEF Bit
<1>5. ASSUME ~(i + s < WIDTH) PROVE Bit(x, i + s) = 0
  <2> DEFINE n == i + s - WIDTH
             f == PowerOf2[n]
             p == PowerOf2[i + s]
  <2>1. n \in Nat /\ WIDTH + n = i + s
    BY <1>1, <1>5
  <2>2. p = Wrap * f /\ f \in Nat \ {0} /\ Wrap \in Nat \ {0}
    <3> HIDE DEF n
    <3>1. PowerOf2[WIDTH + n] = PowerOf2[WIDTH] * PowerOf2[n]
      BY <1>1, <2>1, PowerAdds
    <3>2. f \in Nat \ {0} /\ Wrap \in Nat \ {0}
      BY <2>1, Powers, Sizes
    <3> QED BY <2>1, <3>1, <3>2 DEF Wrap
  <2>3. x < p /\ p \in Nat \ {0}
    <3> HIDE DEF n, f, p
    <3>1. Wrap <= Wrap * f /\ Wrap * f \in Nat
      BY <2>2
    <3> QED BY <1>1, <2>2, <3>1
  <2>4. x \div p = 0
    <3> HIDE DEF p
    <3>1. x \in 0 .. p - 1 /\ x = p * 0 + x
      BY <1>1, <2>3
    <3>2. (p * 0 + x) \div p = 0
      BY <2>3, <3>1, QuotientUnique
    <3> QED BY <3>1, <3>2
  <2> QED BY <2>4 DEF Bit
<1>6. x \div d \in InWord
  BY <1>1, <1>2, Sizes DEF InWord
<1> QED BY <1>4, <1>5, <1>6
-----------------------------------------------------------------------------
(* The integer operations, each by what it hands to Int64. *)
LEMMA Int64Word == \A n : Int64(n)[2] = n % Wrap
BY DEF Int64

LEMMA AluCases ==
  ASSUME NEW op, NEW x, NEW y
  PROVE  LET z == execute_alu_op(op, x, y) IN
         /\ op \in {"ADD", "ADDI"} => z = Int64(x + y)
         /\ op = "SUB" => z = Int64(x - y)
         /\ op \in {"AND", "ANDI"} => z = Int64(BitAnd(x, y))
         /\ op \in {"OR", "ORI"} => z = Int64(BitOr(x, y))
         /\ op \in {"XOR", "XORI"} => z = Int64(BitXor(x, y))
         /\ op \in {"SLT", "SLTI"} => z = Int64(Flag(Signed(x) < Signed(y)))
         /\ op \in {"SLTU", "SLTIU"} => z = Int64(Flag(x < y))
         /\ op = "SLL" => z = Int64(x * PowerOf2[ShiftAmount(y)])
         /\ op \in {"SRL", "SRA"} => z = Int64(x \div PowerOf2[ShiftAmount(y)])
         /\ op = "LUI" => z = Int64(y)
         /\ op = "AUIPC" => z = Int64(0 + y)
         /\ op = "JALR" => z = Int64(0)
         /\ op = "BNE" => z = Int64(Flag(x # y))
BY DEF execute_alu_op

LEMMA MulDivCases ==
  ASSUME NEW op, NEW x, NEW y
  PROVE  LET z == execute_muldiv_op(op, x, y) IN
         /\ op = "MUL" => z = Int64(Signed(x) * Signed(y))
         /\ op = "MULH" => z = Int64((Signed(x) * Signed(y)) \div Wrap)
         /\ op = "MULHSU" => z = Int64((Signed(x) * y) \div Wrap)
         /\ op = "MULHU" => z = Int64((x * y) \div Wrap)
         /\ op = "DIV" => z = Int64(IF y = 0 THEN -1 ELSE Quotient(Signed(x), Signed(y)))
         /\ op = "DIVU" => z = Int64(IF y = 0 THEN AllOnes ELSE x \div y)
         /\ op = "REM" => z = Int64(IF y = 0 THEN x ELSE Remainder(Signed(x), Signed(y)))
         /\ op = "REMU" => z = Int64(IF y = 0 THEN x ELSE x % y)
BY DEF execute_muldiv_op

LEMMA TwoWords == 0 \in InWord /\ 1 \in InWord /\ AllOnes \in InWord /\ -1 % Wrap = AllOnes
<1>1. Wrap \in Nat \ {0} /\ Half \in Nat \ {0} /\ Wrap = 2 * Half
  BY Sizes
<1>2. 0 \in InWord /\ 1 \in InWord /\ AllOnes \in InWord
  BY <1>1 DEF InWord, AllOnes
<1>3. -1 % Wrap = AllOnes % Wrap
  <2> DEFINE x == -1
             y == AllOnes
             z == -1
  <2>1. x \in Int /\ y \in Int /\ z \in Int /\ x = Wrap * z + y
    BY <1>1 DEF AllOnes
  <2> HIDE DEF x, y, z
  <2>2. x % Wrap = y % Wrap
    BY <2>1, SameWord
  <2> QED BY <2>2 DEF x, y
<1> QED BY <1>2, <1>3, WordOfWord

LEMMA FlagOfTruth == \A b \in BOOLEAN : Flag(b) % Wrap = Truth(b) /\ Truth(b) \in {0, 1}
BY TwoWords, WordOfWord DEF Flag, Truth

(* And, or and exclusive or, bit by bit. *)
LEMMA BitwiseCorrect ==
  ASSUME NEW x \in InWord, NEW y \in InWord
  PROVE  /\ BitAnd(x, y) \in InWord /\ BitOr(x, y) \in InWord /\ BitXor(x, y) \in InWord
         /\ BitAnd(x, y) % Wrap = BitAnd(x, y)
         /\ BitOr(x, y) % Wrap = BitOr(x, y)
         /\ BitXor(x, y) % Wrap = BitXor(x, y)
         /\ \A i \in 0 .. WIDTH - 1 :
              /\ Bit(BitAnd(x, y), i) = Bit(x, i) * Bit(y, i)
              /\ Bit(BitOr(x, y), i) = Truth(Bit(x, i) + Bit(y, i) > 0)
              /\ Bit(BitXor(x, y), i) = (Bit(x, i) + Bit(y, i)) % 2
<1> DEFINE a == [i \in Nat |-> Bit(x, i) * Bit(y, i)]
           o == [i \in Nat |-> Bit(x, i) + Bit(y, i) * (1 - Bit(x, i))]
           d == [i \in Nat |-> IF Bit(x, i) = Bit(y, i) THEN 0 ELSE 1]
<1>1. \A i \in Nat : Bit(x, i) \in {0, 1} /\ Bit(y, i) \in {0, 1}
  BY BitType, Sizes DEF InWord
<1>2. /\ a \in [Nat -> {0, 1}] /\ o \in [Nat -> {0, 1}] /\ d \in [Nat -> {0, 1}]
  <2>1. \A u, v \in {0, 1} : u * v \in {0, 1} /\ u + v * (1 - u) \in {0, 1}
    OBVIOUS
  <2> QED BY <1>1, <2>1
<1>3. \A i \in 0 .. WIDTH - 1 :
        /\ i \in Nat
        /\ a[i] = Bit(x, i) * Bit(y, i)
        /\ o[i] = Truth(Bit(x, i) + Bit(y, i) > 0)
        /\ d[i] = (Bit(x, i) + Bit(y, i)) % 2
  <2>1. \A u, v \in {0, 1} :
          /\ u + v * (1 - u) = Truth(u + v > 0)
          /\ (IF u = v THEN 0 ELSE 1) = (u + v) % 2
    BY DEF Truth
  <2>2. \A i \in 0 .. WIDTH - 1 : i \in Nat
    BY Sizes
  <2> QED BY <1>1, <2>1, <2>2
<1>4. BitAnd(x, y) = FromBits(a) /\ BitOr(x, y) = FromBits(o) /\ BitXor(x, y) = FromBits(d)
  BY DEF BitAnd, BitOr, BitXor
<1> HIDE DEF a, o, d
<1>5. \A b \in [Nat -> {0, 1}] :
        /\ FromBits(b) \in InWord /\ FromBits(b) % Wrap = FromBits(b)
        /\ \A i \in 0 .. WIDTH - 1 : Bit(FromBits(b), i) = b[i]
  BY FromBitsCorrect, WordOfWord DEF InWord
<1> QED BY <1>2, <1>3, <1>4, <1>5

LEMMA ShiftInWord == \A y \in InWord : ShiftAmount(y) \in 0 .. WIDTH - 1
BY Sizes DEF ShiftAmount, InWord

LEMMA SumsCorrect ==
  ASSUME NEW x \in InWord, NEW y \in InWord
  PROVE  /\ Congruent((x + y) % Wrap, x + y)
         /\ Congruent(((x - y) % Wrap) + y, x)
<1>1. x \in Int /\ y \in Int /\ x + y \in Int /\ x - y \in Int
  BY DEF InWord
<1>2. Congruent((x + y) % Wrap, x + y) /\ Congruent((x - y) % Wrap, x - y)
  BY <1>1, WordDiffers
<1>3. (x - y) % Wrap \in Int
  BY <1>1, WordOfInt DEF InWord
<1>4. (((x - y) % Wrap) + y) - x = ((x - y) % Wrap) - (x - y)
  BY <1>1, <1>3
<1> QED BY <1>2, <1>4 DEF Congruent

LEMMA ComparisonsCorrect ==
  ASSUME NEW x \in InWord, NEW y \in InWord
  PROVE  /\ Signed(x) < Signed(y) <=> \E d \in 1 .. Wrap : TwosC(x) + d = TwosC(y)
         /\ x < y <=> \E d \in 1 .. Wrap : x + d = y
<1>1. /\ Half \in Nat \ {0} /\ Wrap = 2 * Half
      /\ x \in Nat /\ y \in Nat /\ x < Wrap /\ y < Wrap
  BY Sizes DEF InWord
<1>2. /\ TwosC(x) = Signed(x) /\ Signed(x) \in Int /\ -Half <= Signed(x) /\ Signed(x) < Half
      /\ TwosC(y) = Signed(y) /\ Signed(y) \in Int /\ -Half <= Signed(y) /\ Signed(y) < Half
  BY <1>1, SignedIsTwosC
<1>3. ASSUME NEW u \in Int, NEW v \in Int, u < v, v - u <= Wrap
      PROVE  \E d \in 1 .. Wrap : u + d = v
  <2>1. v - u \in 1 .. Wrap /\ u + (v - u) = v
    BY <1>1, <1>3
  <2> QED BY <2>1
<1>4. ASSUME NEW u \in Int, NEW v \in Int, NEW d \in 1 .. Wrap, u + d = v PROVE u < v
  BY <1>1, <1>4
<1> DEFINE sx == Signed(x)
           sy == Signed(y)
<1>5. sx < sy <=> \E d \in 1 .. Wrap : sx + d = sy
  <2>1. sx \in Int /\ sy \in Int /\ sy - sx <= Wrap
    BY <1>1, <1>2
  <2> HIDE DEF sx, sy
  <2> QED BY <2>1, <1>3, <1>4
<1>6. x < y <=> \E d \in 1 .. Wrap : x + d = y
  <2>1. x \in Int /\ y \in Int /\ y - x <= Wrap
    BY <1>1
  <2> QED BY <2>1, <1>3, <1>4
<1> QED BY <1>2, <1>5, <1>6
-----------------------------------------------------------------------------
(* Products. *)
LEMMA ProductCongruent ==
  ASSUME NEW x \in InWord, NEW y \in InWord
  PROVE  (Signed(x) * Signed(y)) % Wrap = (x * y) % Wrap
<1> DEFINE a == Signed(x)
           b == Signed(y)
<1>1. Wrap \in Nat \ {0} /\ x \in Int /\ y \in Int
  BY Sizes DEF InWord
<1>2. PICK p \in {0, 1} : a = x - Wrap * p
  BY <1>1, SignedIsTwosC
<1>3. PICK q \in {0, 1} : b = y - Wrap * q
  BY <1>1, SignedIsTwosC
<1> DEFINE z == (Wrap * p) * q - p * y - x * q
<1> HIDE DEF a, b
<1>4. a * b = Wrap * z + x * y /\ a * b \in Int /\ x * y \in Int /\ z \in Int
  <2>1. CASE p = 0 /\ q = 0
    BY <1>1, <1>2, <1>3, <2>1
  <2>2. CASE p = 0 /\ q = 1
    <3>1. a = x /\ b = y - Wrap /\ z = -x
      BY <1>1, <1>2, <1>3, <2>2
    <3>2. x * (y - Wrap) = Wrap * (-x) + x * y
      BY <1>1
    <3> QED BY <1>1, <3>1, <3>2
  <2>3. CASE p = 1 /\ q = 0
    <3>1. a = x - Wrap /\ b = y /\ z = -y
      BY <1>1, <1>2, <1>3, <2>3
    <3>2. (x - Wrap) * y = Wrap * (-y) + x * y
      BY <1>1
    <3> QED BY <1>1, <3>1, <3>2
  <2>4. CASE p = 1 /\ q = 1
    <3>1. a = x - Wrap /\ b = y - Wrap /\ z = Wrap - y - x
      BY <1>1, <1>2, <1>3, <2>4
    <3>2. (x - Wrap) * (y - Wrap) = Wrap * (Wrap - y - x) + x * y
      BY <1>1
    <3> QED BY <1>1, <3>1, <3>2
  <2> QED BY <2>1, <2>2, <2>3, <2>4
<1> HIDE DEF z
<1>5. (a * b) % Wrap = (x * y) % Wrap
  <2> DEFINE u == a * b
             v == x * y
  <2>1. u \in Int /\ v \in Int /\ z \in Int /\ u = Wrap * z + v
    BY <1>4
  <2> HIDE DEF u, v
  <2>2. u % Wrap = v % Wrap
    BY <2>1, SameWord
  <2> QED BY <2>2 DEF u, v
<1> QED BY <1>5 DEF a, b

(* The same for one operand read as signed. *)
LEMMA MixedCongruent ==
  ASSUME NEW x \in InWord, NEW y \in InWord
  PROVE  (Signed(x) * y) % Wrap = (x * y) % Wrap
<1> DEFINE a == Signed(x)
<1>1. Wrap \in Nat \ {0} /\ x \in Int /\ y \in Int
  BY Sizes DEF InWord
<1>2. PICK p \in {0, 1} : a = x - Wrap * p
  BY <1>1, SignedIsTwosC
<1> DEFINE z == -(p * y)
<1> HIDE DEF a
<1>3. a * y = Wrap * z + x * y /\ a * y \in Int /\ x * y \in Int /\ z \in Int
  <2>1. CASE p = 0
    BY <1>1, <1>2, <2>1
  <2>2. CASE p = 1
    <3>1. a = x - Wrap /\ z = -y
      BY <1>1, <1>2, <2>2
    <3>2. (x - Wrap) * y = Wrap * (-y) + x * y
      BY <1>1
    <3> QED BY <1>1, <3>1, <3>2
  <2> QED BY <2>1, <2>2
<1> HIDE DEF z
<1>4. (a * y) % Wrap = (x * y) % Wrap
  <2> DEFINE u == a * y
             v == x * y
  <2>1. u \in Int /\ v \in Int /\ z \in Int /\ u = Wrap * z + v
    BY <1>3
  <2> HIDE DEF u, v
  <2>2. u % Wrap = v % Wrap
    BY <2>1, SameWord
  <2> QED BY <2>2 DEF u, v
<1> QED BY <1>4 DEF a

(* The high word of a product in -b .. b fits a two's complement word. *)
LEMMA HighWord ==
  ASSUME NEW d \in Nat \ {0}, NEW h \in Nat, NEW p \in Int, -(h * d) <= p, p < h * d
  PROVE  p \div d \in -h .. h - 1
<1> DEFINE q == p \div d
           m == p % d
<1>1. q \in Int /\ m \in 0 .. d - 1 /\ p = d * q + m
  BY Division
<1> HIDE DEF q, m
<1>2. ~(q < -h)
  <2> SUFFICES ASSUME q < -h PROVE FALSE
    OBVIOUS
  <2>1. q + 1 <= -h /\ q + 1 \in Int /\ -h \in Int
    BY <1>1
  <2>2. d * (q + 1) <= d * (-h)
    BY <2>1
  <2>3. d * (q + 1) = d * q + d /\ d * (-h) = -(h * d) /\ d * q \in Int /\ h * d \in Int
    BY <1>1
  <2> QED BY <1>1, <2>2, <2>3
<1>3. ~(q >= h)
  <2> SUFFICES ASSUME q >= h PROVE FALSE
    OBVIOUS
  <2>1. d * q >= d * h /\ d * h = h * d /\ d * q \in Int /\ h * d \in Int
    BY <1>1
  <2> QED BY <1>1, <2>1
<1> QED BY <1>1, <1>2, <1>3 DEF q

LEMMA SignedProducts ==
  ASSUME NEW x \in InWord, NEW y \in InWord
  PROVE  /\ Signed(x) * Signed(y) \in Int /\ Signed(x) * y \in Int /\ x * y \in Int
         /\ (Signed(x) * Signed(y)) \div Wrap \in -Half .. Half - 1
         /\ (Signed(x) * y) \div Wrap \in -Half .. Half - 1
         /\ (x * y) \div Wrap \in InWord
<1> DEFINE a == Signed(x)
           b == Signed(y)
           d == Wrap
           h == Half
<1>1. /\ h \in Nat \ {0} /\ d \in Nat \ {0} /\ d = 2 * h
      /\ x \in 0 .. d - 1 /\ y \in 0 .. d - 1 /\ a \in -h .. h - 1 /\ b \in -h .. h - 1
  BY Sizes, SignedIsTwosC DEF InWord
<1> HIDE DEF a, b, d, h
<1>2. ASSUME NEW u \in -h .. h - 1, NEW v \in 0 .. d - 1
      PROVE  u * v \in Int /\ -(h * d) <= u * v /\ u * v < h * d
  <2>1. -(h * v) <= u * v
    <3>1. (-h) * v <= u * v /\ (-h) * v = -(h * v)
      BY <1>1
    <3> QED BY <3>1
  <2>2. u * v <= h * v
    BY <1>1
  <2>3. h * v < h * d
    BY <1>1
  <2>4. u * v \in Int /\ h * v \in Int /\ h * d \in Int
    BY <1>1
  <2> QED BY <2>1, <2>2, <2>3, <2>4
<1>3. ASSUME NEW u \in -h .. h - 1, NEW v \in -h .. h - 1
      PROVE  u * v \in Int /\ -(h * d) <= u * v /\ u * v < h * d
  <2>1. CASE v >= 0
    BY <1>1, <1>2, <2>1
  <2>2. CASE v < 0
    <3> DEFINE w == -v
    <3>1. w \in 0 .. d - 1 /\ w <= h /\ w \in Nat /\ u * v = -(u * w) /\ u * w \in Int
      BY <1>1, <2>2
    <3> HIDE DEF w
    <3>2. -(h * w) <= u * w /\ u * w <= h * w
      <4>1. (-h) * w <= u * w /\ (-h) * w = -(h * w)
        BY <1>1, <3>1
      <4>2. u * w <= h * w
        BY <1>1, <3>1
      <4> QED BY <4>1, <4>2
    <3>3. h * w < h * d /\ h * w \in Int /\ h * d \in Int
      BY <1>1, <3>1
    <3> QED BY <3>1, <3>2, <3>3
  <2> QED BY <2>1, <2>2
<1>4. x * y \in Int /\ 0 <= x * y /\ x * y < d * d
  <2>1. x * y <= d * y /\ d * y < d * d /\ x * y \in Int /\ d * y \in Int /\ d * d \in Int
    BY <1>1
  <2>2. 0 <= x * y
    BY <1>1
  <2> QED BY <2>1, <2>2
<1>5. a * b \in Int /\ a * y \in Int
      /\ (a * b) \div d \in -h .. h - 1 /\ (a * y) \div d \in -h .. h - 1
  <2> DEFINE p == a * b
             q == a * y
  <2>1. p \in Int /\ -(h * d) <= p /\ p < h * d
    BY <1>1, <1>3
  <2>2. q \in Int /\ -(h * d) <= q /\ q < h * d
    BY <1>1, <1>2
  <2> HIDE DEF p, q
  <2>3. p \div d \in -h .. h - 1 /\ q \div d \in -h .. h - 1
    BY <1>1, <2>1, <2>2, HighWord
  <2> QED BY <2>1, <2>2, <2>3 DEF p, q
<1>6. (x * y) \div d \in 0 .. d - 1
  <2> DEFINE p == x * y
  <2>1. p \in Int /\ -(d * d) <= p /\ p < d * d /\ 0 <= p
    <3>1. d * d \in Nat
      BY <1>1
    <3> QED BY <1>4, <3>1
  <2> HIDE DEF p
  <2>2. p \div d \in -d .. d - 1
    BY <1>1, <2>1, HighWord
  <2>3. p \div d >= 0
    BY <1>1, <2>1
  <2> QED BY <1>1, <2>2, <2>3 DEF p
<1> QED BY <1>1, <1>4, <1>5, <1>6 DEF a, b, d, h, InWord
-----------------------------------------------------------------------------
(* Quotients.  Truncation towards zero, in each of the four combinations of *)
(* signs.                                                                  *)
LEMMA Truncation ==
  ASSUME NEW a \in Int, NEW b \in Int, b # 0
  PROVE  LET q == Quotient(a, b)
             m == Remainder(a, b)
         IN /\ q \in Int /\ m \in Int /\ a = b * q + m
            /\ Magnitude(m) < Magnitude(b) /\ (m # 0 => (m < 0) = (a < 0))
            /\ Magnitude(m) <= Magnitude(a)
            /\ (a < 0) = (b < 0) => 0 <= q /\ q <= Magnitude(a)
            /\ (a < 0) # (b < 0) => q <= 0 /\ -q <= Magnitude(a)
            /\ q = Magnitude(a) => a = 0 \/ Magnitude(b) = 1
<1> DEFINE A == Magnitude(a)
           B == Magnitude(b)
           p == A \div B
           s == A % B
           q == Quotient(a, b)
           m == Remainder(a, b)
<1>1. A \in Nat /\ B \in Nat \ {0}
  BY DEF Magnitude
<1>2. p \in Int /\ s \in Nat /\ s < B /\ A = B * p + s
  <2> HIDE DEF A, B
  <2> QED BY <1>1, Division
<1>3. q = IF (a < 0) = (b < 0) THEN p ELSE -p
  BY DEF Quotient, Magnitude
<1>4. m = a - b * q
  BY DEF Remainder
<1>5. /\ a = IF a < 0 THEN -A ELSE A
      /\ b = IF b < 0 THEN -B ELSE B
  BY DEF Magnitude
<1>6. a < 0 => A # 0
  BY DEF Magnitude
<1> HIDE DEF p, s, q, m
<1>7. p \in Nat /\ p <= A /\ s <= A
  <2> HIDE DEF A, B
  <2>1. p >= 0
    <3> SUFFICES ASSUME p < 0 PROVE FALSE
      BY <1>2
    <3>1. B * (p + 1) <= 0 /\ B * (p + 1) = B * p + B /\ B * p \in Int
      BY <1>1, <1>2
    <3> QED BY <1>1, <1>2, <3>1
  <2>2. B * p >= p /\ B * p \in Nat
    BY <1>1, <1>2, <2>1
  <2> QED BY <1>1, <1>2, <2>1, <2>2
<1>8. p = A => A = 0 \/ B = 1
  <2> HIDE DEF A, B
  <2> SUFFICES ASSUME p = A, A # 0, B # 1 PROVE FALSE
    OBVIOUS
  <2>1. B >= 2
    BY <1>1
  <2>2. B * p >= 2 * p
    BY <1>1, <1>7, <2>1
  <2> QED BY <1>1, <1>2, <1>7, <2>2
<1>9. m = IF a < 0 THEN -s ELSE s
  <2> HIDE DEF A, B
  <2>1. B * p \in Int /\ (-B) * p = -(B * p) /\ B * (-p) = -(B * p) /\ (-B) * (-p) = B * p
    BY <1>1, <1>2
  <2>2. CASE a < 0 /\ b < 0
    BY <1>1, <1>2, <1>3, <1>4, <1>5, <2>1, <2>2
  <2>3. CASE a < 0 /\ ~(b < 0)
    BY <1>1, <1>2, <1>3, <1>4, <1>5, <2>1, <2>3
  <2>4. CASE ~(a < 0) /\ b < 0
    BY <1>1, <1>2, <1>3, <1>4, <1>5, <2>1, <2>4
  <2>5. CASE ~(a < 0) /\ ~(b < 0)
    BY <1>1, <1>2, <1>3, <1>4, <1>5, <2>1, <2>5
  <2> QED BY <2>2, <2>3, <2>4, <2>5
<1>10. q \in Int /\ m \in Int /\ b * q \in Int
  BY <1>2, <1>3, <1>9
<1>11. Magnitude(m) = s
  BY <1>2, <1>9 DEF Magnitude
<1>12. a = b * q + m
  BY <1>4, <1>10
<1>13. m # 0 => (m < 0) = (a < 0)
  BY <1>2, <1>9
<1>14. q = A => A = 0 \/ B = 1
  <2> HIDE DEF A, B
  <2> QED BY <1>1, <1>3, <1>7, <1>8
<1>15. A = 0 => a = 0
  BY DEF Magnitude
<1> HIDE DEF A, B
<1> QED BY <1>1, <1>2, <1>3, <1>7, <1>10, <1>11, <1>12, <1>13, <1>14, <1>15 DEF q, m, A, B

LEMMA SignedQuotients ==
  ASSUME NEW x \in InWord, NEW y \in InWord, y # 0, ~(x = Half /\ y = AllOnes)
  PROVE  /\ Signed(x) \in Int /\ Signed(y) \in Int /\ Signed(y) # 0
         /\ Quotient(Signed(x), Signed(y)) \in -Half .. Half - 1
         /\ Remainder(Signed(x), Signed(y)) \in -Half .. Half - 1
<1> DEFINE a == Signed(x)
           b == Signed(y)
           q == Quotient(a, b)
           m == Remainder(a, b)
<1>1. /\ Half \in Nat \ {0} /\ Wrap = 2 * Half /\ x \in 0 .. Wrap - 1 /\ y \in 0 .. Wrap - 1
      /\ a \in -Half .. Half - 1 /\ b \in -Half .. Half - 1
      /\ a = IF x >= Half THEN x - Wrap ELSE x
      /\ b = IF y >= Half THEN y - Wrap ELSE y
  BY Sizes, SignedIsTwosC DEF InWord, Signed
<1>2. a \in Int /\ b \in Int /\ b # 0 /\ (a = -Half => x = Half) /\ (b = -1 => y = AllOnes)
  BY <1>1 DEF AllOnes
<1> HIDE DEF a, b
<1>3. /\ q \in Int /\ m \in Int
      /\ Magnitude(m) < Magnitude(b) /\ (m # 0 => (m < 0) = (a < 0))
      /\ Magnitude(m) <= Magnitude(a)
      /\ (a < 0) = (b < 0) => 0 <= q /\ q <= Magnitude(a)
      /\ (a < 0) # (b < 0) => q <= 0 /\ -q <= Magnitude(a)
      /\ q = Magnitude(a) => a = 0 \/ Magnitude(b) = 1
  BY <1>2, Truncation
<1> HIDE DEF q, m
<1>4. Magnitude(a) <= Half /\ (Magnitude(a) = Half => a = -Half) /\ Magnitude(a) \in Nat
  BY <1>1, <1>2 DEF Magnitude
<1>5. m \in -Half .. Half - 1
  <2>1. CASE m < 0
    BY <1>1, <1>3, <1>4, <2>1 DEF Magnitude
  <2>2. CASE ~(m < 0)
    <3>1. Magnitude(m) = m /\ Magnitude(b) <= Half
      BY <1>1, <1>2, <2>2 DEF Magnitude
    <3> QED BY <1>1, <1>3, <2>2, <3>1 DEF Magnitude
  <2> QED BY <2>1, <2>2
<1>6. q # Half
  <2> SUFFICES ASSUME q = Half PROVE FALSE
    OBVIOUS
  <2>1. q = Magnitude(a) /\ a = -Half /\ a < 0 /\ a # 0
    BY <1>1, <1>2, <1>3, <1>4
  <2>2. b < 0 /\ Magnitude(b) = 1
    BY <1>1, <1>2, <1>3, <2>1
  <2>3. b = -1
    BY <1>2, <2>2 DEF Magnitude
  <2> QED BY <1>2, <2>1, <2>3
<1>7. q \in -Half .. Half - 1
  BY <1>1, <1>3, <1>4, <1>6
<1> QED BY <1>2, <1>5, <1>7 DEF a, b, q, m

LEMMA UnsignedQuotients ==
  ASSUME NEW x \in InWord, NEW y \in InWord, y # 0
  PROVE  x \div y \in InWord /\ x % y \in InWord /\ Divides(x, y, x \div y, x % y)
<1>1. x \in Nat /\ y \in Nat \ {0} /\ x < Wrap /\ y < Wrap /\ Wrap \in Nat
  BY Sizes DEF InWord
<1> DEFINE q == x \div y
           m == x % y
<1>2. q \in Int /\ m \in Nat /\ m < y /\ x = y * q + m
  BY <1>1, Division
<1> HIDE DEF q, m
<1>3. q >= 0
  <2> SUFFICES ASSUME q < 0 PROVE FALSE
    BY <1>2
  <2>1. y * (q + 1) <= 0 /\ y * (q + 1) = y * q + y /\ y * q \in Int
    BY <1>1, <1>2
  <2> QED BY <1>1, <1>2, <2>1
<1>4. q <= x
  <2>1. y * q >= q /\ y * q \in Nat
    BY <1>1, <1>2, <1>3
  <2> QED BY <1>1, <1>2, <2>1
<1>5. Divides(x, y, q, m)
  BY <1>1, <1>2 DEF Divides, Magnitude
<1> QED BY <1>1, <1>2, <1>3, <1>4, <1>5 DEF q, m, InWord
-----------------------------------------------------------------------------
(* What the unit holds: operands of the kinds its operation reads, and a   *)
(* result that is what compute_result makes of them.                       *)
Unit == [busy : BOOLEAN, op : OpType, remaining_cycles : Int,
         v1 : IntValue \cup FpValue, v2 : IntValue \cup FpValue]
Loaded == /\ fu.v1 \in OfKind(operand_kind_1(fu.op)) /\ fu.v2 \in SecondOf(fu.op)
          /\ station_type(fu.op) \notin {"NONE", "LOAD", "STORE"}
UnitInv ==
  /\ fu \in Unit
  /\ fu.busy => Loaded
  /\ result \notin {NoResult, Trap} =>
       /\ Loaded /\ ~DivisionTraps(fu.op, fu.v1, fu.v2)
       /\ result = execute(fu.op, fu.v1, fu.v2)

LEMMA OperandTypes ==
  ASSUME NEW op
  PROVE  OfKind(operand_kind_1(op)) \subseteq IntValue \cup FpValue
         /\ SecondOf(op) \subseteq IntValue \cup FpValue
BY Sizes DEF OfKind, SecondOf, operand_kind_2, IntValue, FpValue, NaN

LEMMA UnitUpdate ==
  ASSUME NEW u \in Unit
  PROVE  /\ LET w == [u EXCEPT !.remaining_cycles = @ - 1]
            IN w \in Unit /\ (w.busy <=> u.busy) /\ w.op = u.op /\ w.v1 = u.v1 /\ w.v2 = u.v2
         /\ LET w == [u EXCEPT !.busy = FALSE, !.remaining_cycles = 0]
            IN w \in Unit /\ ~w.busy /\ w.op = u.op /\ w.v1 = u.v1 /\ w.v2 = u.v2
<1>1. u.remaining_cycles - 1 \in Int /\ 0 \in Int
  BY DEF Unit
<1> QED BY <1>1, Zenon DEF Unit

LEMMA UnitInductive == Spec => []UnitInv
<1>1. Init => UnitInv
  <2> SUFFICES ASSUME Init PROVE UnitInv
    OBVIOUS
  <2>1. <<"int", 0>> \in IntValue
    BY Sizes DEF IntValue, AllOnes
  <2>2. "UNKNOWN" \in OpType
    BY DEF OpType
  <2> QED BY <2>1, <2>2 DEF Init, UnitInv, Unit
<1>2. UnitInv /\ [Next]_vars => UnitInv'
  <2> SUFFICES ASSUME UnitInv, [Next]_vars PROVE UnitInv'
    OBVIOUS
  <2>1. CASE Start
    <3>1. PICK op \in OpType :
            /\ station_type(op) \notin {"NONE", "LOAD", "STORE"}
            /\ \E v1 \in OfKind(operand_kind_1(op)), v2 \in SecondOf(op) :
                 fu' = [busy |-> TRUE, op |-> op, remaining_cycles |-> get_latency(op),
                        v1 |-> v1, v2 |-> v2]
      BY <2>1 DEF Start
    <3> PICK v1 \in OfKind(operand_kind_1(op)), v2 \in SecondOf(op) :
            fu' = [busy |-> TRUE, op |-> op, remaining_cycles |-> get_latency(op),
                   v1 |-> v1, v2 |-> v2]
      BY <3>1
    <3>2. v1 \in IntValue \cup FpValue /\ v2 \in IntValue \cup FpValue
      BY OperandTypes
    <3>3. get_latency(op) \in Int
      BY DEF get_latency
    <3>4. fu' \in Unit
      BY <3>1, <3>2, <3>3 DEF Unit
    <3>5. Loaded'
      BY <3>1 DEF Loaded
    <3>6. result' = NoResult
      BY <2>1 DEF Start
    <3> QED BY <3>4, <3>5, <3>6 DEF UnitInv
  <2>2. CASE Count
    <3>1. /\ fu' = [fu EXCEPT !.remaining_cycles = @ - 1] /\ fu \in Unit
          /\ fu.busy /\ UNCHANGED result
      BY <2>2 DEF Count, UnitInv
    <3>2. /\ fu' \in Unit /\ (fu'.busy <=> fu.busy) /\ fu'.op = fu.op
          /\ fu'.v1 = fu.v1 /\ fu'.v2 = fu.v2
      BY <3>1, UnitUpdate
    <3>3. Loaded' <=> Loaded
      BY <3>2 DEF Loaded
    <3> QED BY <3>1, <3>2, <3>3 DEF UnitInv
  <2>3. CASE Finish
    <3>1. /\ fu' = [fu EXCEPT !.busy = FALSE, !.remaining_cycles = 0] /\ fu \in Unit
          /\ fu.busy
          /\ result' = IF DivisionTraps(fu.op, fu.v1, fu.v2) THEN Trap
                       ELSE execute(fu.op, fu.v1, fu.v2)
      BY <2>3 DEF Finish, UnitInv
    <3>2. /\ fu' \in Unit /\ ~fu'.busy /\ fu'.op = fu.op
          /\ fu'.v1 = fu.v1 /\ fu'.v2 = fu.v2
      BY <3>1, UnitUpdate
    <3>3. Loaded'
      BY <3>1, <3>2 DEF UnitInv, Loaded
    <3> QED BY <3>1, <3>2, <3>3 DEF UnitInv
  <2>4. CASE Ended \/ UNCHANGED vars
    BY <2>4 DEF Ended, vars, UnitInv, Loaded
  <2> QED BY <2>1, <2>2, <2>3, <2>4 DEF Next
<1> QED BY <1>1, <1>2, PTL DEF Spec

LEMMA ExecuteCases ==
  ASSUME NEW op, NEW v1, NEW v2
  PROVE  LET x == v1[2] % Wrap
             y == v2[2] % Wrap
         IN /\ op \in alu_ops => execute(op, v1, v2) = execute_alu_op(op, x, y)
            /\ op \in muldiv_ops => execute(op, v1, v2) = execute_muldiv_op(op, x, y)
            /\ is_fp_add_op(op) \/ is_fp_mul_op(op) \/ is_fp_div_op(op) =>
                 execute(op, v1, v2) = execute_fp_op(op, v1[2], v2[2])
            /\ station_type(op) \in {"NONE", "LOAD", "STORE"} =>
                 execute(op, v1, v2) = Int64(0)
<1>1. op \in alu_ops =>
        /\ is_alu_op(op) /\ ~is_muldiv_op(op)
        /\ ~(is_fp_add_op(op) \/ is_fp_mul_op(op) \/ is_fp_div_op(op))
  BY DEF is_alu_op, is_muldiv_op, alu_ops, muldiv_ops, is_fp_add_op, is_fp_mul_op, is_fp_div_op
<1>2. op \in muldiv_ops =>
        /\ is_muldiv_op(op) /\ ~is_alu_op(op)
        /\ ~(is_fp_add_op(op) \/ is_fp_mul_op(op) \/ is_fp_div_op(op))
  BY DEF is_alu_op, is_muldiv_op, alu_ops, muldiv_ops, is_fp_add_op, is_fp_mul_op, is_fp_div_op
<1>3. is_fp_add_op(op) \/ is_fp_mul_op(op) \/ is_fp_div_op(op) =>
        ~is_alu_op(op) /\ ~is_muldiv_op(op)
  BY DEF is_alu_op, is_muldiv_op, alu_ops, muldiv_ops, is_fp_add_op, is_fp_mul_op, is_fp_div_op
<1>4. station_type(op) \in {"NONE", "LOAD", "STORE"} =>
        /\ ~is_alu_op(op) /\ ~is_muldiv_op(op)
        /\ ~(is_fp_add_op(op) \/ is_fp_mul_op(op) \/ is_fp_div_op(op))
  BY DEF station_type, is_alu_op, is_muldiv_op, alu_ops, muldiv_ops,
         is_fp_add_op, is_fp_mul_op, is_fp_div_op, is_load_op, is_store_op
<1> DEFINE x == v1[2] % Wrap
           y == v2[2] % Wrap
<1>5. execute(op, v1, v2) =
        CASE is_alu_op(op) -> execute_alu_op(op, x, y)
          [] is_muldiv_op(op) -> execute_muldiv_op(op, x, y)
          [] is_fp_add_op(op) \/ is_fp_mul_op(op) \/ is_fp_div_op(op) ->
               execute_fp_op(op, v1[2], v2[2])
          [] OTHER -> Int64(0)
  BY Zenon DEF execute
<1> HIDE DEF x, y
<1>6. op \in alu_ops => execute(op, v1, v2) = execute_alu_op(op, x, y)
  BY <1>1, <1>5
<1>7. op \in muldiv_ops => execute(op, v1, v2) = execute_muldiv_op(op, x, y)
  BY <1>2, <1>5
<1>8. is_fp_add_op(op) \/ is_fp_mul_op(op) \/ is_fp_div_op(op) =>
        execute(op, v1, v2) = execute_fp_op(op, v1[2], v2[2])
  BY <1>3, <1>5
<1>9. station_type(op) \in {"NONE", "LOAD", "STORE"} => execute(op, v1, v2) = Int64(0)
  BY <1>4, <1>5
<1> QED BY <1>6, <1>7, <1>8, <1>9 DEF x, y

(* The operands of an operation on integers are words. *)
LEMMA IntOperands ==
  ASSUME UnitInv, fu.op \in alu_ops \cup muldiv_ops, result \notin {NoResult, Trap}
  PROVE  /\ j \in InWord /\ k \in InWord
         /\ fu.op \in alu_ops => result = execute_alu_op(fu.op, j, k)
         /\ fu.op \in muldiv_ops => result = execute_muldiv_op(fu.op, j, k)
         /\ \A op \in muldiv_ops : execute(op, fu.v1, fu.v2) = execute_muldiv_op(op, j, k)
<1>1. operand_kind_1(fu.op) = "int" /\ operand_kind_2(fu.op) = "int"
  BY DEF operand_kind_1, operand_kind_2, alu_ops, muldiv_ops, is_fp_add_op, is_alu_op, is_muldiv_op
<1>2. fu.v1 \in IntValue /\ fu.v2 \in IntValue
  BY <1>1 DEF UnitInv, Loaded, OfKind, SecondOf
<1>3. j \in InWord /\ k \in InWord
  BY <1>2, Sizes DEF IntValue, InWord, AllOnes, j, k
<1>4. j % Wrap = j /\ k % Wrap = k
  BY <1>3, WordOfWord
<1>6. result = execute(fu.op, fu.v1, fu.v2)
  BY DEF UnitInv
<1>7. \A op \in muldiv_ops : execute(op, fu.v1, fu.v2) = execute_muldiv_op(op, j, k)
  BY <1>4, ExecuteCases DEF j, k
<1>8. fu.op \in alu_ops => execute(fu.op, fu.v1, fu.v2) = execute_alu_op(fu.op, j, k)
  BY <1>4, ExecuteCases DEF j, k
<1> QED BY <1>3, <1>6, <1>7, <1>8
-----------------------------------------------------------------------------
LEMMA AluHolds == ASSUME UnitInv PROVE AluMatchesManual
<1> DEFINE Done == result \notin {NoResult, Trap} /\ fu.op \in alu_ops
           x == j
           y == k
           s == ShiftAmount(k)
<1>1. \A ops \in SUBSET alu_ops : Computed(ops) => Done /\ fu.op \in ops
  BY DEF Computed
<1>2. Done => /\ x \in InWord /\ y \in InWord
              /\ result = execute_alu_op(fu.op, x, y)
  BY IntOperands
<1>3. Done => s \in 0 .. WIDTH - 1 /\ s = shamt
  BY <1>2, ShiftInWord DEF ShiftAmount, shamt
<1> HIDE DEF x, y, s
<1>4. Computed({"ADD", "ADDI"}) => Congruent(r, x + y)
  <2> HAVE Computed({"ADD", "ADDI"})
  <2>1. Done /\ result = Int64(x + y)
    BY <1>1, <1>2, AluCases DEF alu_ops, Computed
  <2>2. r = (x + y) % Wrap
    BY <2>1, Int64Word DEF r
  <2> QED BY <1>2, <2>1, <2>2, SumsCorrect
<1>5. Computed({"SUB"}) => Congruent(r + y, x)
  <2> HAVE Computed({"SUB"})
  <2>1. Done /\ result = Int64(x - y)
    BY <1>1, <1>2, AluCases DEF alu_ops, Computed
  <2>2. r = (x - y) % Wrap
    BY <2>1, Int64Word DEF r
  <2> QED BY <1>2, <2>1, <2>2, SumsCorrect
<1>6. ASSUME NEW i \in 0 .. WIDTH - 1
      PROVE  /\ Computed({"AND", "ANDI"}) => Bit(r, i) = Bit(x, i) * Bit(y, i)
             /\ Computed({"OR", "ORI"})   => Bit(r, i) = Truth(Bit(x, i) + Bit(y, i) > 0)
             /\ Computed({"XOR", "XORI"}) => Bit(r, i) = (Bit(x, i) + Bit(y, i)) % 2
  <2>1. Done => /\ BitAnd(x, y) % Wrap = BitAnd(x, y)
                /\ BitOr(x, y) % Wrap = BitOr(x, y)
                /\ BitXor(x, y) % Wrap = BitXor(x, y)
                /\ Bit(BitAnd(x, y), i) = Bit(x, i) * Bit(y, i)
                /\ Bit(BitOr(x, y), i) = Truth(Bit(x, i) + Bit(y, i) > 0)
                /\ Bit(BitXor(x, y), i) = (Bit(x, i) + Bit(y, i)) % 2
    BY <1>2, <1>6, BitwiseCorrect
  <2>2. Computed({"AND", "ANDI"}) => Done /\ result = Int64(BitAnd(x, y))
    BY <1>1, <1>2, AluCases DEF alu_ops, Computed
  <2>3. Computed({"OR", "ORI"}) => Done /\ result = Int64(BitOr(x, y))
    BY <1>1, <1>2, AluCases DEF alu_ops, Computed
  <2>4. Computed({"XOR", "XORI"}) => Done /\ result = Int64(BitXor(x, y))
    BY <1>1, <1>2, AluCases DEF alu_ops, Computed
  <2> HIDE DEF Done
  <2>5. Computed({"AND", "ANDI"}) => Done /\ r = BitAnd(x, y)
    BY <2>1, <2>2, Int64Word DEF r
  <2>6. Computed({"OR", "ORI"}) => Done /\ r = BitOr(x, y)
    BY <2>1, <2>3, Int64Word DEF r
  <2>7. Computed({"XOR", "XORI"}) => Done /\ r = BitXor(x, y)
    BY <2>1, <2>4, Int64Word DEF r
  <2> QED BY <2>1, <2>5, <2>6, <2>7
<1>7. ASSUME NEW i \in 0 .. WIDTH - 1
      PROVE  /\ Computed({"SLL"}) =>
                  Bit(r, i) = IF i < s THEN 0 ELSE Bit(x, i - s)
             /\ Computed({"SRL"}) =>
                  Bit(r, i) = IF i + s < WIDTH THEN Bit(x, i + s) ELSE 0
  <2>1. Computed({"SLL"}) => Done /\ result = Int64(x * PowerOf2[s])
    BY <1>1, <1>2, AluCases DEF alu_ops, Computed, s, x, y
  <2>2. Computed({"SRL"}) => Done /\ result = Int64(x \div PowerOf2[s])
    BY <1>1, <1>2, AluCases DEF alu_ops, Computed, s, x, y
  <2>3. Computed({"SLL"}) => Done /\ r = (x * PowerOf2[s]) % Wrap
    BY <2>1, Int64Word DEF r
  <2>4. Computed({"SRL"}) => Done /\ r = (x \div PowerOf2[s]) % Wrap
    BY <2>2, Int64Word DEF r
  <2>5. Computed({"SRL"}) => r = x \div PowerOf2[s]
    BY <1>2, <1>3, <1>7, <2>4, BitShiftedRight, WordOfWord
  <2> HIDE DEF Done
  <2>6. Done => Bit((x * PowerOf2[s]) % Wrap, i) = IF i < s THEN 0 ELSE Bit(x, i - s)
    BY <1>2, <1>3, <1>7, BitShiftedLeft
  <2>7. Done => Bit(x \div PowerOf2[s], i) = IF i + s < WIDTH THEN Bit(x, i + s) ELSE 0
    BY <1>2, <1>3, <1>7, BitShiftedRight
  <2> QED BY <2>3, <2>4, <2>5, <2>6, <2>7
<1>8. Computed({"SLT", "SLTI"}) => r = Truth(\E d \in 1 .. Wrap : TwosC(x) + d = TwosC(y))
  <2> HAVE Computed({"SLT", "SLTI"})
  <2>1. Done /\ result = Int64(Flag(Signed(x) < Signed(y)))
    BY <1>1, <1>2, AluCases DEF alu_ops, Computed
  <2> DEFINE b == Signed(x) < Signed(y)
  <2>2. r = Truth(b)
    <3>1. b \in BOOLEAN /\ r = Flag(b) % Wrap
      BY <2>1, Int64Word DEF r
    <3> HIDE DEF b
    <3> QED BY <3>1, FlagOfTruth
  <2> QED BY <1>2, <2>1, <2>2, ComparisonsCorrect DEF Truth
<1>9. Computed({"SLTU", "SLTIU"}) => r = Truth(\E d \in 1 .. Wrap : x + d = y)
  <2> HAVE Computed({"SLTU", "SLTIU"})
  <2>1. Done /\ result = Int64(Flag(x < y))
    BY <1>1, <1>2, AluCases DEF alu_ops, Computed
  <2> DEFINE b == x < y
  <2>2. r = Truth(b)
    <3>1. b \in BOOLEAN /\ r = Flag(b) % Wrap
      BY <2>1, Int64Word DEF r
    <3> HIDE DEF b
    <3> QED BY <3>1, FlagOfTruth
  <2> QED BY <1>2, <2>1, <2>2, ComparisonsCorrect DEF Truth
<1>10. Computed({"BNE"}) => r = Truth(x # y)
  <2> HAVE Computed({"BNE"})
  <2>1. Done /\ result = Int64(Flag(x # y))
    BY <1>1, <1>2, AluCases DEF alu_ops, Computed
  <2> QED BY <2>1, Int64Word, FlagOfTruth DEF r
<1>11. \A ops \in SUBSET alu_ops : Computed(ops) => s = shamt
  BY <1>1, <1>3
<1> HIDE DEF Done
<1> QED BY <1>4, <1>5, <1>6, <1>7, <1>8, <1>9, <1>10, <1>11 DEF AluMatchesManual, x, y, alu_ops

(* execute_alu_op, for registers of every width and every pair of          *)
(* operands: sums and differences modulo the word, the bitwise operations  *)
(* and the shifts bit by bit, the comparisons and the condition of BNE.    *)
THEOREM AluCorrect == Spec => []AluMatchesManual
<1>1. UnitInv => AluMatchesManual
  BY AluHolds
<1> QED BY <1>1, UnitInductive, PTL
LEMMA SplitProduct ==
  ASSUME NEW p \in Int
  PROVE  p = (p \div Wrap) * Wrap + (p % Wrap)
<1> DEFINE d == Wrap
           q == p \div d
           m == p % d
<1>1. d \in Nat \ {0}
  BY Sizes
<1> HIDE DEF d
<1>2. q \in Int /\ m \in Int /\ p = d * q + m
  BY <1>1, Division
<1>3. d * q = q * d
  BY <1>1, <1>2
<1> QED BY <1>2, <1>3 DEF d

LEMMA ProductsHold == ASSUME UnitInv PROVE ProductsMatchManual
<1> DEFINE Done == result \notin {NoResult, Trap} /\ fu.op \in muldiv_ops
           x == j
           y == k
           Low == execute("MUL", fu.v1, fu.v2)[2]
           a == Signed(x)
           b == Signed(y)
<1>1. \A ops \in SUBSET muldiv_ops : Computed(ops) => Done /\ fu.op \in ops
  BY DEF Computed
<1>2. Done => /\ x \in InWord /\ y \in InWord
              /\ result = execute_muldiv_op(fu.op, x, y)
              /\ execute("MUL", fu.v1, fu.v2) = execute_muldiv_op("MUL", x, y)
  <2>1. "MUL" \in muldiv_ops
    BY DEF muldiv_ops
  <2> QED BY <2>1, IntOperands
<1> HIDE DEF x, y
<1>3. Done => Low = (a * b) % Wrap
  <2>1. execute_muldiv_op("MUL", x, y) = Int64(a * b)
    BY MulDivCases
  <2> HIDE DEF Done
  <2> QED BY <1>2, <2>1, Int64Word
<1>4. Done => /\ (a * b) % Wrap = (x * y) % Wrap /\ (a * y) % Wrap = (x * y) % Wrap
              /\ a * b \in Int /\ a * y \in Int /\ x * y \in Int
              /\ TwosC(x) = a /\ TwosC(y) = b
  BY <1>2, ProductCongruent, MixedCongruent, SignedProducts, SignedIsTwosC
<1>5. Done => /\ TwosC(((a * b) \div Wrap) % Wrap) = (a * b) \div Wrap
              /\ TwosC(((a * y) \div Wrap) % Wrap) = (a * y) \div Wrap
              /\ ((x * y) \div Wrap) % Wrap = (x * y) \div Wrap
  BY <1>2, SignedProducts, TwosCOfInt, WordOfWord
<1>6. Done => /\ a * b = ((a * b) \div Wrap) * Wrap + ((a * b) % Wrap)
              /\ a * y = ((a * y) \div Wrap) * Wrap + ((a * y) % Wrap)
              /\ x * y = ((x * y) \div Wrap) * Wrap + ((x * y) % Wrap)
  <2> DEFINE ab == a * b
             ay == a * y
             xy == x * y
  <2>1. Done => ab \in Int /\ ay \in Int /\ xy \in Int
    BY <1>4
  <2> HIDE DEF ab, ay, xy, Done
  <2>2. Done => /\ ab = (ab \div Wrap) * Wrap + (ab % Wrap)
                /\ ay = (ay \div Wrap) * Wrap + (ay % Wrap)
                /\ xy = (xy \div Wrap) * Wrap + (xy % Wrap)
    BY <2>1, SplitProduct
  <2> QED BY <2>2 DEF ab, ay, xy
<1>7. /\ Computed({"MUL"}) => Done /\ result = Int64(a * b)
      /\ Computed({"MULH"}) => Done /\ result = Int64((a * b) \div Wrap)
      /\ Computed({"MULHU"}) => Done /\ result = Int64((x * y) \div Wrap)
      /\ Computed({"MULHSU"}) => Done /\ result = Int64((a * y) \div Wrap)
  BY <1>1, <1>2, MulDivCases DEF muldiv_ops, Computed
<1> HIDE DEF Done, Low, a, b
<1>8. Computed({"MUL"}) => Congruent(r, x * y)
  <2> HAVE Computed({"MUL"})
  <2>1. r = (x * y) % Wrap /\ x * y \in Int
    BY <1>4, <1>7, Int64Word DEF r
  <2> DEFINE xy == x * y
  <2>2. r = xy % Wrap /\ xy \in Int
    BY <2>1
  <2> HIDE DEF xy
  <2>3. Congruent(r, xy)
    BY <2>2, WordDiffers
  <2> QED BY <2>3 DEF xy
<1>9. Computed({"MULH"}) => TwosC(r) * Wrap + Low = TwosC(x) * TwosC(y)
  <2> HAVE Computed({"MULH"})
  <2>1. Done /\ r = ((a * b) \div Wrap) % Wrap
    BY <1>7, Int64Word DEF r
  <2> QED BY <1>3, <1>4, <1>5, <1>6, <2>1
<1>10. Computed({"MULHU"}) => r * Wrap + Low = x * y
  <2> HAVE Computed({"MULHU"})
  <2>1. Done /\ r = ((x * y) \div Wrap) % Wrap
    BY <1>7, Int64Word DEF r
  <2> QED BY <1>3, <1>4, <1>5, <1>6, <2>1
<1>11. Computed({"MULHSU"}) => TwosC(r) * Wrap + Low = TwosC(x) * y
  <2> HAVE Computed({"MULHSU"})
  <2>1. Done /\ r = ((a * y) \div Wrap) % Wrap
    BY <1>7, Int64Word DEF r
  <2> QED BY <1>3, <1>4, <1>5, <1>6, <2>1
<1> QED BY <1>8, <1>9, <1>10, <1>11 DEF ProductsMatchManual, x, y, Low

(* The multiplications of execute_muldiv_op: MUL is the product modulo the *)
(* word, and MULH, MULHU and MULHSU deliver the word above it, of the      *)
(* product of their operands read as signed, unsigned, or one of each.     *)
THEOREM ProductsCorrect == Spec => []ProductsMatchManual
<1>1. UnitInv => ProductsMatchManual
  BY ProductsHold
<1> QED BY <1>1, UnitInductive, PTL

LEMMA QuotientsHold == ASSUME UnitInv PROVE QuotientsMatchManual
<1> DEFINE Done == result \notin {NoResult, Trap} /\ fu.op \in {"DIV", "REM", "DIVU", "REMU"}
           x == j
           y == k
           a == Signed(x)
           b == Signed(y)
           div == execute("DIV", fu.v1, fu.v2)[2]
           rem == execute("REM", fu.v1, fu.v2)[2]
           divu == execute("DIVU", fu.v1, fu.v2)[2]
           remu == execute("REMU", fu.v1, fu.v2)[2]
<1>1. Done => /\ x \in InWord /\ y \in InWord
              /\ \A op \in {"DIV", "REM", "DIVU", "REMU"} :
                   execute(op, fu.v1, fu.v2) = execute_muldiv_op(op, x, y)
  BY IntOperands DEF muldiv_ops
<1>2. Done /\ fu.op \in {"DIV", "REM"} => ~(x = Half /\ y = AllOnes)
  BY DEF UnitInv, DivisionTraps, j, k
<1> HIDE DEF x, y
<1>3. Done => /\ div = (IF y = 0 THEN -1 ELSE Quotient(a, b)) % Wrap
              /\ rem = (IF y = 0 THEN x ELSE Remainder(a, b)) % Wrap
              /\ divu = (IF y = 0 THEN AllOnes ELSE x \div y) % Wrap
              /\ remu = (IF y = 0 THEN x ELSE x % y) % Wrap
  <2>1. /\ execute_muldiv_op("DIV", x, y) = Int64(IF y = 0 THEN -1 ELSE Quotient(a, b))
        /\ execute_muldiv_op("REM", x, y) = Int64(IF y = 0 THEN x ELSE Remainder(a, b))
        /\ execute_muldiv_op("DIVU", x, y) = Int64(IF y = 0 THEN AllOnes ELSE x \div y)
        /\ execute_muldiv_op("REMU", x, y) = Int64(IF y = 0 THEN x ELSE x % y)
    BY MulDivCases
  <2> HIDE DEF Done, a, b
  <2>2. Done => /\ div = execute_muldiv_op("DIV", x, y)[2]
                /\ rem = execute_muldiv_op("REM", x, y)[2]
                /\ divu = execute_muldiv_op("DIVU", x, y)[2]
                /\ remu = execute_muldiv_op("REMU", x, y)[2]
    BY <1>1
  <2> HIDE DEF div, rem, divu, remu
  <2> QED BY <2>1, <2>2, Int64Word
<1> HIDE DEF div, rem, divu, remu
<1>4. ASSUME Done, y = 0
      PROVE  div = AllOnes /\ rem = x /\ divu = AllOnes /\ remu = x
  BY <1>1, <1>3, <1>4, TwoWords, WordOfWord
<1>5. ASSUME Done, y # 0, fu.op \in {"DIV", "REM"}
      PROVE  Divides(TwosC(x), TwosC(y), TwosC(div), TwosC(rem))
  <2>1. /\ a \in Int /\ b \in Int /\ b # 0
        /\ Quotient(a, b) \in -Half .. Half - 1 /\ Remainder(a, b) \in -Half .. Half - 1
    BY <1>1, <1>2, <1>5, SignedQuotients
  <2>2. TwosC(x) = a /\ TwosC(y) = b
    BY <1>1, <1>5, SignedIsTwosC
  <2>3. TwosC(div) = Quotient(a, b) /\ TwosC(rem) = Remainder(a, b)
    BY <1>3, <1>5, <2>1, TwosCOfInt
  <2>4. Divides(a, b, Quotient(a, b), Remainder(a, b))
    <3> HIDE DEF a, b
    <3> QED BY <2>1, Truncation DEF Divides
  <2> QED BY <2>2, <2>3, <2>4
<1>6. ASSUME Done, y # 0 PROVE Divides(x, y, divu, remu)
  BY <1>1, <1>3, <1>6, UnsignedQuotients, WordOfWord
<1> DEFINE q == execute(IF fu.op \in {"DIV", "REM"} THEN "DIV" ELSE "DIVU", fu.v1, fu.v2)[2]
           m == execute(IF fu.op \in {"DIV", "REM"} THEN "REM" ELSE "REMU", fu.v1, fu.v2)[2]
<1>7. /\ Computed({"DIV", "REM"}) =>
           Done /\ fu.op \in {"DIV", "REM"} /\ q = div /\ m = rem
      /\ Computed({"DIVU", "REMU"}) => Done /\ q = divu /\ m = remu
  BY DEF Computed, div, rem, divu, remu
<1> HIDE DEF q, m, Done
<1>8. Computed({"DIV", "REM"}) =>
        IF y = 0 THEN q = AllOnes /\ m = x
        ELSE Divides(TwosC(x), TwosC(y), TwosC(q), TwosC(m))
  BY <1>4, <1>5, <1>7
<1>9. Computed({"DIVU", "REMU"}) =>
        IF y = 0 THEN q = AllOnes /\ m = x ELSE Divides(x, y, q, m)
  BY <1>4, <1>6, <1>7
<1> QED BY <1>8, <1>9 DEF QuotientsMatchManual, x, y, q, m

(* The divisions of execute_muldiv_op, signed and unsigned: quotient and   *)
(* remainder add up to the dividend, truncated towards zero, with the      *)
(* manual's values for a divisor of zero.                                  *)
THEOREM QuotientsCorrect == Spec => []QuotientsMatchManual
<1>1. UnitInv => QuotientsMatchManual
  BY QuotientsHold
<1> QED BY <1>1, UnitInductive, PTL
-----------------------------------------------------------------------------
(* What the core takes for granted of compute_result.                      *)
Value == IntValue \cup FpValue

LEMMA Int64Value == \A n \in Int : Int64(n) \in Value
BY WordOfInt DEF Int64, Value, IntValue, InWord, AllOnes

LEMMA DoubleValue == \A n \in Int : Double(n) \in Value
<1>1. \A w \in InWord : w \in 0 .. NaN
  BY Sizes DEF InWord, NaN
<1> QED BY <1>1, WordOfInt DEF Double, Value, FpValue

LEMMA ValueParts ==
  ASSUME NEW v \in Value
  PROVE  /\ v[2] \in Int /\ v[2] >= 0 /\ v[2] <= NaN /\ v[2] % Wrap \in InWord
         /\ v[1] = "int" => v[2] \in InWord /\ v[2] % Wrap = v[2] /\ v = <<"int", v[2]>>
<1>1. Wrap \in Nat \ {0} /\ NaN = Wrap /\ AllOnes = Wrap - 1
  BY Sizes DEF NaN, AllOnes
<1>2. /\ v[2] \in Int /\ v[2] >= 0 /\ v[2] <= NaN
      /\ v[1] = "int" => v[2] \in InWord /\ v = <<"int", v[2]>>
  BY <1>1 DEF Value, IntValue, FpValue, InWord
<1> QED BY <1>2, WordOfInt, WordOfWord

LEMMA AluValue ==
  ASSUME NEW op \in alu_ops, NEW x \in InWord, NEW y \in InWord
  PROVE  execute_alu_op(op, x, y) \in Value
<1>1. x \in Int /\ y \in Int
  BY Sizes DEF InWord
<1>2. BitAnd(x, y) \in Int /\ BitOr(x, y) \in Int /\ BitXor(x, y) \in Int
  BY BitwiseCorrect, Sizes DEF InWord
<1>3. ShiftAmount(y) \in Nat
  BY ShiftInWord, Sizes
<1>4. PowerOf2[ShiftAmount(y)] \in Nat \ {0}
  BY <1>3, Powers
<1>5. x * PowerOf2[ShiftAmount(y)] \in Int /\ x \div PowerOf2[ShiftAmount(y)] \in Int
  BY <1>1, <1>4
<1>6. \A b : Flag(b) \in Int
  BY DEF Flag
<1>7. \E n \in Int : execute_alu_op(op, x, y) = Int64(n)
  <2>1. x + y \in Int /\ x - y \in Int /\ 0 + y \in Int /\ 0 \in Int
    BY <1>1
  <2>2. /\ op \in {"ADD", "ADDI"} \/ op = "SUB" \/ op = "LUI" \/ op = "AUIPC" \/ op = "JALR" =>
             \E n \in Int : execute_alu_op(op, x, y) = Int64(n)
        /\ op \in {"AND", "ANDI"} \/ op \in {"OR", "ORI"} \/ op \in {"XOR", "XORI"} =>
             \E n \in Int : execute_alu_op(op, x, y) = Int64(n)
    BY <1>1, <1>2, <2>1, AluCases
  <2>3. op \in {"SLT", "SLTI"} \/ op \in {"SLTU", "SLTIU"} \/ op = "BNE" =>
          \E n \in Int : execute_alu_op(op, x, y) = Int64(n)
    BY <1>6, AluCases
  <2>4. op = "SLL" \/ op \in {"SRL", "SRA"} =>
          \E n \in Int : execute_alu_op(op, x, y) = Int64(n)
    BY <1>5, AluCases
  <2> QED BY <2>2, <2>3, <2>4 DEF alu_ops
<1> QED BY <1>7, Int64Value

LEMMA MulDivValue ==
  ASSUME NEW op \in muldiv_ops, NEW x \in InWord, NEW y \in InWord
  PROVE  execute_muldiv_op(op, x, y) \in Value
<1>1. x \in Int /\ y \in Int /\ x >= 0 /\ y >= 0 /\ AllOnes \in Int /\ Wrap \in Nat \ {0}
  BY Sizes DEF InWord, AllOnes
<1> DEFINE a == Signed(x)
           b == Signed(y)
           ab == a * b
           ay == a * y
           xy == x * y
<1>2. a \in Int /\ b \in Int /\ (y # 0 => b # 0)
  BY <1>1 DEF Signed, InWord
<1>3. y # 0 => Quotient(a, b) \in Int /\ Remainder(a, b) \in Int
  <2> HIDE DEF a, b
  <2> QED BY <1>2, Truncation
<1>4. y # 0 => x \div y \in Int /\ x % y \in Int
  <2> HAVE y # 0
  <2>1. y \in Nat \ {0}
    BY <1>1
  <2> QED BY <1>1, <2>1, Division
<1>5. ab \in Int /\ ay \in Int /\ xy \in Int
  BY <1>1, <1>2, SignedProducts
<1>6. ab \div Wrap \in Int /\ ay \div Wrap \in Int /\ xy \div Wrap \in Int
  <2> HIDE DEF ab, ay, xy
  <2> QED BY <1>1, <1>5, Division
<1>7. \E n \in Int : execute_muldiv_op(op, x, y) = Int64(n)
  <2>1. op = "MUL" \/ op = "MULH" \/ op = "MULHU" \/ op = "MULHSU" =>
          \E n \in Int : execute_muldiv_op(op, x, y) = Int64(n)
    BY <1>5, <1>6, MulDivCases
  <2> DEFINE di == IF y = 0 THEN -1 ELSE Quotient(a, b)
             re == IF y = 0 THEN x ELSE Remainder(a, b)
             du == IF y = 0 THEN AllOnes ELSE x \div y
             ru == IF y = 0 THEN x ELSE x % y
  <2>2. di \in Int /\ re \in Int /\ du \in Int /\ ru \in Int
    BY <1>1, <1>3, <1>4
  <2>3. /\ op = "DIV" => execute_muldiv_op(op, x, y) = Int64(di)
        /\ op = "REM" => execute_muldiv_op(op, x, y) = Int64(re)
        /\ op = "DIVU" => execute_muldiv_op(op, x, y) = Int64(du)
        /\ op = "REMU" => execute_muldiv_op(op, x, y) = Int64(ru)
    BY MulDivCases
  <2> HIDE DEF di, re, du, ru
  <2> QED BY <2>1, <2>2, <2>3 DEF muldiv_ops
<1> QED BY <1>7, Int64Value

LEMMA FpValueComputed ==
  ASSUME NEW op, is_fp_add_op(op) \/ is_fp_mul_op(op) \/ is_fp_div_op(op),
         NEW x \in Int, NEW y \in Int, x >= 0, y >= 0
  PROVE  execute_fp_op(op, x, y) \in Value
<1> DEFINE nan == NaN \in {x, y}
           z == execute_fp_op(op, x, y)
           half == Half32 \div 2
           w == x % Half32
           i == IF w >= half THEN w - Half32 ELSE w
           c == IF x >= half THEN half ELSE x
           q == x \div y
<1>1. Half32 \in Nat \ {0} /\ w \in Int /\ half \in Int
  <2>1. Half32 \in Nat \ {0}
    BY Sizes
  <2> QED BY <2>1, Division
<1>2. Int32(x) = i /\ i \in Int /\ c \in Int
  BY <1>1 DEF Int32
<1>3. \A b : Flag(b) \in Int
  BY DEF Flag
<1>4. <<"fp", NaN>> \in Value
  BY Sizes DEF Value, FpValue, NaN
<1>5. y # 0 => q \in Int
  <2> HAVE y # 0
  <2>1. y \in Nat \ {0}
    OBVIOUS
  <2> QED BY <2>1, Division
<1> HIDE DEF q, w, i
<1>6. /\ op = "FCVT_D_W" => z = Double(i)
      /\ op = "FCVT_W_D" => z = Int64(c)
      /\ op = "FEQ_D" => z = Double(Flag(~nan /\ x = y))
      /\ op = "FLT_D" => z = Double(Flag(~nan /\ x < y))
      /\ op = "FLE_D" => z = Double(Flag(~nan /\ x <= y))
  BY <1>2 DEF execute_fp_op
<1>7. /\ nan /\ op \in {"FADD_D", "FSUB_D", "FMUL_D", "FDIV_D"} => z = <<"fp", NaN>>
      /\ ~nan /\ op = "FADD_D" => z = Double(x + y)
      /\ ~nan /\ op = "FSUB_D" => z = Double(x - y)
      /\ ~nan /\ op = "FMUL_D" => z = Double(x * y)
      /\ ~nan /\ op = "FDIV_D" => z = IF y = 0 THEN <<"fp", NaN>> ELSE Double(q)
  BY DEF execute_fp_op, q
<1> HIDE DEF nan, c, z, half
<1>8. x + y \in Int /\ x - y \in Int /\ x * y \in Int
  OBVIOUS
<1>9. op = "FCVT_D_W" \/ op = "FCVT_W_D" \/ op = "FEQ_D" \/ op = "FLT_D" \/ op = "FLE_D" =>
        z \in Value
  BY <1>2, <1>3, <1>6, Int64Value, DoubleValue
<1>10. op \in {"FADD_D", "FSUB_D", "FMUL_D", "FDIV_D"} => z \in Value
  BY <1>4, <1>5, <1>7, <1>8, DoubleValue
<1> QED BY <1>9, <1>10 DEF is_fp_add_op, is_fp_mul_op, is_fp_div_op, z

(* compute_result is closed on the values of the registers, LUI delivers   *)
(* its second operand and BNE the truth of its condition: the assumptions  *)
(* ComputeAssumption and ControlAssumption under which TomasuloSim is      *)
(* proved hold of these units, WORD being Wrap and F64 being 0 .. NaN.     *)
THEOREM UnitsMeetAssumptions ==
  /\ \A op \in OpType, v1, v2 \in Value : execute(op, v1, v2) \in Value
  /\ \A v1, v2 \in Value :
       v2[1] = "int" =>
         /\ execute("LUI", v1, v2) = v2
         /\ v1[1] = "int" => (execute("BNE", v1, v2)[2] = 1 <=> v1 # v2)
<1>1. ASSUME NEW op \in OpType, NEW v1 \in Value, NEW v2 \in Value
      PROVE  execute(op, v1, v2) \in Value
  <2> DEFINE x == v1[2] % Wrap
             y == v2[2] % Wrap
  <2>1. x \in InWord /\ y \in InWord
    BY ValueParts
  <2>2. CASE op \in alu_ops
    <3>1. execute(op, v1, v2) = execute_alu_op(op, x, y)
      BY <2>2, ExecuteCases
    <3> HIDE DEF x, y
    <3> QED BY <2>1, <2>2, <3>1, AluValue
  <2>3. CASE op \in muldiv_ops
    <3>1. execute(op, v1, v2) = execute_muldiv_op(op, x, y)
      BY <2>3, ExecuteCases
    <3> HIDE DEF x, y
    <3> QED BY <2>1, <2>3, <3>1, MulDivValue
  <2>4. CASE is_fp_add_op(op) \/ is_fp_mul_op(op) \/ is_fp_div_op(op)
    <3>1. execute(op, v1, v2) = execute_fp_op(op, v1[2], v2[2])
      BY <2>4, ExecuteCases
    <3>2. v1[2] \in Int /\ v2[2] \in Int /\ v1[2] >= 0 /\ v2[2] >= 0
      BY ValueParts
    <3> QED BY <2>4, <3>1, <3>2, FpValueComputed
  <2>5. CASE station_type(op) \in {"NONE", "LOAD", "STORE"}
    <3>1. execute(op, v1, v2) = Int64(0) /\ 0 \in Int
      BY <2>5, ExecuteCases
    <3> QED BY <3>1, Int64Value
  <2>6. \/ op \in alu_ops \/ op \in muldiv_ops
        \/ is_fp_add_op(op) \/ is_fp_mul_op(op) \/ is_fp_div_op(op)
        \/ station_type(op) \in {"NONE", "LOAD", "STORE"}
    BY DEF station_type, is_alu_op, is_muldiv_op, is_load_op, is_store_op
  <2> QED BY <2>2, <2>3, <2>4, <2>5, <2>6
<1>2. ASSUME NEW v1 \in Value, NEW v2 \in Value, v2[1] = "int"
      PROVE  /\ execute("LUI", v1, v2) = v2
             /\ v1[1] = "int" => (execute("BNE", v1, v2)[2] = 1 <=> v1 # v2)
  <2> DEFINE x == v1[2] % Wrap
             y == v2[2] % Wrap
  <2>1. y = v2[2] /\ y \in InWord /\ v2 = <<"int", y>>
    BY <1>2, ValueParts
  <2>2. v1[1] = "int" => v1 = <<"int", x>>
    BY ValueParts
  <2>3. /\ execute("LUI", v1, v2) = execute_alu_op("LUI", x, y)
        /\ execute("BNE", v1, v2) = execute_alu_op("BNE", x, y)
    BY ExecuteCases DEF alu_ops
  <2> HIDE DEF x, y
  <2>4. execute("LUI", v1, v2) = v2
    <3>1. execute("LUI", v1, v2) = Int64(y)
      BY <2>3, AluCases
    <3> QED BY <2>1, <3>1, WordOfWord DEF Int64
  <2>5. execute("BNE", v1, v2)[2] = 1 <=> x # y
    <3> DEFINE b == x # y
    <3>1. execute("BNE", v1, v2) = Int64(Flag(b))
      BY <2>3, AluCases
    <3>2. b \in BOOLEAN
      OBVIOUS
    <3> HIDE DEF b
    <3>3. execute("BNE", v1, v2)[2] = Truth(b)
      BY <3>1, <3>2, Int64Word, FlagOfTruth
    <3> QED BY <3>2, <3>3 DEF Truth, b
  <2> QED BY <2>1, <2>2, <2>4, <2>5
<1> QED BY <1>1, <1>2
=============================================================================
