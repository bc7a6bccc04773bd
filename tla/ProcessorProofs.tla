-------------------------- MODULE ProcessorProofs ----------------------------
(***************************************************************************)
(* What the units beside the pipeline guarantee: the arithmetic unit for    *)
(* every width of a word, coprocessor 0 with the serial port for every set  *)
(* of characters, width of Count and input line.                            *)
(***************************************************************************)
EXTENDS InterruptSystem, Alu, WellFoundedInduction, TLAPS

-----------------------------------------------------------------------------
(* Induction up to a number, and functions that count up to it.             *)

\* every set of numbers has a least one
LEMMA LeastOfSet ==
    ASSUME NEW S \in SUBSET Nat, S # {}
    PROVE  \E x \in S : \A y \in S : x =< y
<1> DEFINE Below == OpToRel(<, Nat)
<1>1. \A x, y \in Nat : <<y, x>> \in Below <=> y < x
  BY DEF OpToRel
<1>2. IsWellFoundedOn(Below, Nat)
  BY NatLessThanWellFounded
<1> HIDE DEF Below
<1>3. PICK x \in S : \A y \in S : ~(<<y, x>> \in Below)
  BY <1>2, WFMin
<1>4. ASSUME NEW y \in S
      PROVE  x =< y
  <2>1. x \in Nat /\ y \in Nat
    OBVIOUS
  <2>2. ~(y < x)
    BY <1>1, <1>3, <2>1
  <2> QED
    BY <2>1, <2>2
<1> QED
  BY <1>4

\* what holds of 0 and passes on to the next number holds of all up to n
LEMMA EveryPass ==
    ASSUME NEW n \in Nat, NEW G \in SUBSET (0 .. n), 0 \in G,
           \A k \in 1 .. n : k - 1 \in G => k \in G
    PROVE  G = 0 .. n
<1> DEFINE B == (0 .. n) \ G
<1> SUFFICES ASSUME B # {} PROVE FALSE
  OBVIOUS
<1>1. B \in SUBSET Nat
  OBVIOUS
<1>2. PICK k \in B : \A j \in B : k =< j
  BY <1>1, LeastOfSet
<1>3. k \in 1 .. n /\ k - 1 \in 0 .. n /\ ~(k =< k - 1)
  OBVIOUS
<1>4. k - 1 \in G
  BY <1>2, <1>3
<1> QED
  BY <1>3, <1>4

IsLoop(g, n, c, D) == g[0] = c /\ \A k \in 1 .. n : g[k] = D[k][g[k - 1]]

\* A recursion over 0 .. n defines a function.
LEMMA LoopDefined ==
    ASSUME NEW n \in Nat, NEW S, NEW c \in S, NEW D \in [1 .. n -> [S -> S]]
    PROVE  \E g \in [0 .. n -> S] : IsLoop(g, n, c, D)
<1> DEFINE Upto(m, g) == g[0] = c /\ \A k \in 1 .. m : g[k] = D[k][g[k - 1]]
           G == {m \in 0 .. n : \E g \in [0 .. m -> S] : Upto(m, g)}
<1>1. 0 \in G
  <2>1. [k \in 0 .. 0 |-> c] \in [0 .. 0 -> S] /\ Upto(0, [k \in 0 .. 0 |-> c])
    OBVIOUS
  <2> HIDE DEF Upto
  <2>2. 0 \in 0 .. n
    OBVIOUS
  <2> QED
    BY <2>1, <2>2
<1>2. ASSUME NEW m \in 1 .. n, m - 1 \in G
      PROVE  m \in G
  <2>1. PICK g \in [0 .. m - 1 -> S] : Upto(m - 1, g)
    BY <1>2
  <2> DEFINE h == [k \in 0 .. m |-> IF k = m THEN D[m][g[m - 1]] ELSE g[k]]
  <2>2. m - 1 \in 0 .. m - 1 /\ D[m] \in [S -> S]
    OBVIOUS
  <2>3. D[m][g[m - 1]] \in S
    BY <2>1, <2>2
  <2>4. \A k \in 0 .. m : k # m => k \in 0 .. m - 1
    OBVIOUS
  <2>5. h \in [0 .. m -> S]
    BY <2>1, <2>3, <2>4
  <2>6. h[0] = c
    BY <2>1
  <2>7. \A k \in 1 .. m : h[k] = D[k][h[k - 1]]
    <3> SUFFICES ASSUME NEW k \in 1 .. m
                 PROVE  h[k] = D[k][h[k - 1]]
      OBVIOUS
    <3>1. k - 1 \in 0 .. m /\ k - 1 # m /\ k \in 0 .. m
      OBVIOUS
    <3>2. h[k - 1] = g[k - 1]
      BY <3>1
    <3>3. CASE k = m
      BY <3>1, <3>2, <3>3
    <3>4. CASE k # m
      <4>1. k \in 1 .. m - 1
        BY <3>4
      <4>2. g[k] = D[k][g[k - 1]]
        BY <2>1, <4>1
      <4> QED
        BY <3>1, <3>2, <3>4, <4>2
    <3> QED
      BY <3>3, <3>4
  <2> HIDE DEF h
  <2>8. Upto(m, h)
    BY <2>6, <2>7
  <2> HIDE DEF Upto
  <2> QED
    BY <2>5, <2>8
<1>3. G = 0 .. n
  <2> HIDE DEF G
  <2>1. G \in SUBSET (0 .. n)
    BY DEF G
  <2> QED
    BY <1>1, <1>2, <2>1, EveryPass
<1>4. PICK g \in [0 .. n -> S] : Upto(n, g)
  <2>1. n \in G
    BY <1>3
  <2> QED
    BY <2>1
<1> QED
  BY <1>4 DEF IsLoop

-----------------------------------------------------------------------------
(* The powers of two.                                                       *)

LEMMA Width == W \in Nat /\ W > 0 /\ W % 4 = 0 /\ W >= 4
BY AluAssumption

LEMMA PowersDefined ==
    /\ Pow2[0] = 1
    /\ \A k \in 1 .. 2 * W : Pow2[k] = 2 * Pow2[k - 1]
    /\ \A k \in 0 .. 2 * W : Pow2[k] \in Nat \ {0}
<1> DEFINE n == 2 * W
           N == Nat \ {0}
           D == [k \in 1 .. n |-> [x \in N |-> 2 * x]]
           Is(g) == g = [k \in 0 .. n |-> IF k = 0 THEN 1 ELSE 2 * g[k - 1]]
<1>1. n \in Nat
  BY Width
<1>2. Pow2 = CHOOSE g : Is(g)
  BY DEF Pow2
<1> HIDE DEF n
<1>3. D \in [1 .. n -> [N -> N]] /\ 1 \in N
  OBVIOUS
<1>4. PICK g \in [0 .. n -> N] : IsLoop(g, n, 1, D)
  <2> HIDE DEF D, N
  <2> QED
    BY <1>1, <1>3, LoopDefined
<1>5. g[0] = 1 /\ \A k \in 1 .. n : g[k] = D[k][g[k - 1]]
  BY <1>4 DEF IsLoop
<1>6. \A k \in 1 .. n : g[k] = 2 * g[k - 1]
  <2> SUFFICES ASSUME NEW k \in 1 .. n
               PROVE  g[k] = 2 * g[k - 1]
    OBVIOUS
  <2>1. k - 1 \in 0 .. n
    BY <1>1
  <2>2. g[k - 1] \in N
    BY <2>1
  <2>3. D[k][g[k - 1]] = 2 * g[k - 1]
    BY <2>2
  <2> HIDE DEF D
  <2> QED
    BY <1>5, <2>3
<1>7. Is(g)
  <2> HIDE DEF D
  <2>1. \A k \in 0 .. n : k = 0 \/ k \in 1 .. n
    BY <1>1
  <2> QED
    BY <1>5, <1>6, <2>1
<1>8. Is(Pow2)
  <2> HIDE DEF Is
  <2> QED
    BY <1>2, <1>7
<1>9. Pow2[0] = 1
  <2>1. 0 \in 0 .. n
    BY <1>1
  <2> QED
    BY <1>8, <2>1
<1>10. \A k \in 1 .. n : Pow2[k] = 2 * Pow2[k - 1]
  <2>1. \A k \in 1 .. n : k \in 0 .. n /\ k # 0
    BY <1>1
  <2> QED
    BY <1>8, <2>1
<1>11. \A k \in 0 .. n : Pow2[k] \in N
  <2> DEFINE G == {k \in 0 .. n : Pow2[k] \in N}
  <2>1. 0 \in G
    BY <1>1, <1>9
  <2>2. ASSUME NEW k \in 1 .. n, k - 1 \in G
        PROVE  k \in G
    BY <1>1, <1>10, <2>2
  <2>3. G \in SUBSET (0 .. n)
    OBVIOUS
  <2> HIDE DEF G
  <2>4. G = 0 .. n
    BY <1>1, <2>1, <2>2, <2>3, EveryPass
  <2> QED
    BY <2>4 DEF G
<1> QED
  BY <1>9, <1>10, <1>11 DEF n, N

LEMMA PowersTyped ==
    ASSUME NEW k \in 0 .. 2 * W
    PROVE  Pow2[k] \in Nat /\ Pow2[k] >= 1
BY PowersDefined

LEMMA PowersAdd ==
    ASSUME NEW a \in Nat, NEW b \in Nat, a + b =< 2 * W
    PROVE  Pow2[a + b] = Pow2[a] * Pow2[b]
<1> DEFINE n == 2 * W
           p == Pow2[a]
           G == {k \in 0 .. b : Pow2[a + k] = p * Pow2[k]}
<1>1. n \in Nat /\ a + b =< n
  BY Width
<1>2. p \in Nat
  BY <1>1, PowersTyped
<1>3. Pow2[0] = 1 /\ (\A k \in 1 .. n : Pow2[k] = 2 * Pow2[k - 1]) /\ (\A k \in 0 .. n : Pow2[k] \in Nat)
  BY PowersDefined
<1> HIDE DEF n, p
<1>4. 0 \in G
  <2>1. a + 0 = a /\ 0 \in 0 .. b /\ p * 1 = p
    BY <1>2
  <2> QED
    BY <1>3, <2>1 DEF p
<1>5. ASSUME NEW k \in 1 .. b, k - 1 \in G
      PROVE  k \in G
  <2>1. k \in 1 .. n /\ a + k \in 1 .. n /\ (a + k) - 1 = a + (k - 1) /\ k - 1 \in 0 .. n
    BY <1>1
  <2> DEFINE q == Pow2[k - 1]
  <2>2. Pow2[a + k] = 2 * Pow2[a + (k - 1)] /\ Pow2[k] = 2 * q /\ Pow2[a + (k - 1)] = p * q
    BY <1>3, <1>5, <2>1
  <2>3. q \in Nat
    BY <1>3, <2>1
  <2> HIDE DEF q
  <2>4. 2 * (p * q) = p * (2 * q)
    BY <1>2, <2>3
  <2> QED
    BY <2>2, <2>4
<1>6. G \in SUBSET (0 .. b)
  OBVIOUS
<1> HIDE DEF G
<1>7. G = 0 .. b
  BY <1>4, <1>5, <1>6, EveryPass
<1> QED
  BY <1>7 DEF G, p

LEMMA PowersGrow ==
    ASSUME NEW a \in Nat, NEW b \in Nat, a =< b, b =< 2 * W
    PROVE  Pow2[a] =< Pow2[b]
<1> DEFINE p == Pow2[a]
           q == Pow2[b - a]
<1>1. b - a \in Nat /\ a + (b - a) = b /\ 2 * W \in Nat
  BY Width
<1>2. p \in Nat /\ q \in Nat /\ q >= 1
  BY <1>1, PowersTyped
<1>3. Pow2[b] = p * q
  BY <1>1, PowersAdd
<1> HIDE DEF p, q
<1>4. p =< p * q
  BY <1>2
<1> QED
  BY <1>3, <1>4 DEF p

-----------------------------------------------------------------------------
(* Division that rounds down.                                               *)

Positive == Nat \ {0}

LEMMA Division ==
    ASSUME NEW n \in Int, NEW p \in Positive
    PROVE  /\ n \div p \in Int /\ n % p \in Int /\ 0 =< n % p /\ n % p < p
           /\ n = p * (n \div p) + (n % p)
<1>1. p \in Nat /\ p > 0
  BY DEF Positive
<1>2. n % p \in 0 .. p - 1 /\ n \div p \in Int /\ n = p * (n \div p) + (n % p)
  BY <1>1
<1> QED
  BY <1>1, <1>2

LEMMA DivisionUnique ==
    ASSUME NEW p \in Positive, NEW q \in Int, NEW r \in Int, 0 =< r, r < p
    PROVE  (p * q + r) \div p = q /\ (p * q + r) % p = r
<1> DEFINE n == p * q + r
           d == n \div p
           m == n % p
<1>1. p \in Nat /\ p >= 1 /\ n \in Int
  BY DEF Positive
<1>2. d \in Int /\ m \in Int /\ 0 =< m /\ m < p /\ n = p * d + m
  BY <1>1, Division
<1>3. n = p * q + r
  OBVIOUS
<1> HIDE DEF n, d, m
<1> DEFINE e == q - d
<1>4. p * e = m - r /\ e \in Int
  BY <1>1, <1>2, <1>3
<1> HIDE DEF e
<1>5. e = 0
  <2>1. CASE e >= 1
    <3>1. p * e >= p
      BY <1>1, <1>4, <2>1
    <3> QED
      BY <1>1, <1>2, <1>4, <3>1
  <2>2. CASE e =< -1
    <3>1. p * e =< -p
      BY <1>1, <1>4, <2>2
    <3> QED
      BY <1>1, <1>2, <1>4, <3>1
  <2> QED
    BY <1>4, <2>1, <2>2
<1>6. d = q
  BY <1>2, <1>5 DEF e
<1>7. m = r
  BY <1>1, <1>2, <1>4, <1>5
<1> QED
  BY <1>6, <1>7 DEF n, d, m

LEMMA DivideTwice ==
    ASSUME NEW n \in Int, NEW p \in Positive, NEW q \in Positive
    PROVE  p * q \in Positive /\ (n \div p) \div q = n \div (p * q)
<1> DEFINE d == n \div p
           r == n % p
           e == d \div q
           f == d % q
           x == p * f + r
<1>1. p \in Nat /\ p >= 1 /\ q \in Nat /\ q >= 1
  BY DEF Positive
<1>2. d \in Int /\ r \in Int /\ 0 =< r /\ r < p /\ n = p * d + r
  BY <1>1, Division
<1>3. e \in Int /\ f \in Int /\ 0 =< f /\ f < q /\ d = q * e + f
  <2> HIDE DEF d
  <2> QED
    BY <1>2, Division
<1>4. p * q \in Nat /\ p * q >= 1
  <2>1. p * q \in Int /\ p * q >= p
    BY <1>1
  <2> QED
    BY <1>1, <2>1
<1> HIDE DEF d, r, e, f
<1>5. x \in Int /\ 0 =< x /\ x < p * q
  <2>1. p * f \in Int /\ 0 =< p * f
    BY <1>1, <1>3
  <2>2. p * f =< p * (q - 1) /\ p * (q - 1) = p * q - p
    BY <1>1, <1>3
  <2> QED
    BY <1>1, <1>2, <1>4, <2>1, <2>2
<1>6. n = (p * q) * e + x
  <2>1. p * d = p * (q * e) + p * f
    BY <1>1, <1>3
  <2>2. p * (q * e) = (p * q) * e /\ p * (q * e) \in Int /\ p * f \in Int
    BY <1>1, <1>3
  <2> QED
    BY <1>2, <2>1, <2>2
<1> HIDE DEF x
<1>7. p * q \in Positive
  BY <1>4 DEF Positive
<1>8. n \div (p * q) = e
  <2> DEFINE s == p * q
  <2>1. s \in Positive /\ n = s * e + x /\ 0 =< x /\ x < s
    BY <1>5, <1>6, <1>7
  <2> HIDE DEF s
  <2>2. n \div s = e
    BY <1>3, <1>5, <2>1, DivisionUnique
  <2> QED
    BY <2>2 DEF s
<1> QED
  BY <1>7, <1>8 DEF d, e

LEMMA DivideShifted ==
    ASSUME NEW n \in Int, NEW m \in Int, NEW p \in Positive
    PROVE  (n + p * m) \div p = n \div p + m /\ (n + p * m) % p = n % p
<1> DEFINE d == n \div p
           r == n % p
<1>1. d \in Int /\ r \in Int /\ 0 =< r /\ r < p /\ n = p * d + r /\ p \in Nat
  BY Division DEF Positive
<1> HIDE DEF d, r
<1>2. n + p * m = p * (d + m) + r /\ d + m \in Int
  BY <1>1
<1>3. (p * (d + m) + r) \div p = d + m /\ (p * (d + m) + r) % p = r
  BY <1>1, <1>2, DivisionUnique
<1> QED
  BY <1>2, <1>3 DEF d, r

LEMMA DivideMultiple ==
    ASSUME NEW m \in Int, NEW p \in Positive
    PROVE  (p * m) \div p = m /\ (p * m) % p = 0
<1>1. p \in Nat /\ p >= 1 /\ p * m + 0 = p * m
  BY DEF Positive
<1> QED
  BY <1>1, DivisionUnique

LEMMA DivideSmall ==
    ASSUME NEW p \in Positive, NEW n \in Int, 0 =< n, n < p
    PROVE  n \div p = 0 /\ n % p = n
<1>1. p \in Nat /\ p * 0 + n = n
  BY DEF Positive
<1> QED
  BY <1>1, DivisionUnique

LEMMA Parity ==
    ASSUME NEW m \in Int, NEW k \in Int
    PROVE  (m + 2 * k) % 2 = m % 2 /\ (m % 2 = 0 \/ m % 2 = 1)
OBVIOUS

-----------------------------------------------------------------------------
(* Bits.                                                                    *)

Exponents == 0 .. 2 * W

\* bit b of a number, whose bits above the word are those of two's complement
Bit(n, b) == (n \div Pow2[b]) % 2 = 1

LEMMA BitSetBits ==
    ASSUME NEW n
    PROVE  BitSet(n) = {b \in 0 .. W - 1 : Bit(n, b)}
BY DEF BitSet, Bit

LEMMA PowersPositive ==
    ASSUME NEW k \in Exponents
    PROVE  Pow2[k] \in Positive /\ Pow2[k] \in Int
BY PowersDefined DEF Positive, Exponents

\* the bits of what a number is shifted right to
LEMMA BitShiftedRight ==
    ASSUME NEW n \in Int, NEW a \in Nat, NEW b \in Nat, a + b =< 2 * W
    PROVE  Bit(n \div Pow2[a], b) <=> Bit(n, a + b)
<1> DEFINE p == Pow2[a]
           q == Pow2[b]
<1>1. a \in Exponents /\ b \in Exponents
  BY Width DEF Exponents
<1>2. p \in Positive /\ q \in Positive
  BY <1>1, PowersPositive
<1>3. Pow2[a + b] = p * q
  BY PowersAdd
<1> HIDE DEF p, q
<1>4. (n \div p) \div q = n \div (p * q)
  BY <1>2, DivideTwice
<1> QED
  BY <1>3, <1>4 DEF Bit, p, q

\* a higher power is an even multiple of a lower one
LEMMA HigherPower ==
    ASSUME NEW a \in Nat, NEW b \in Nat, a < b, b =< 2 * W
    PROVE  /\ b - a - 1 \in Exponents
           /\ Pow2[b] = Pow2[a] * (2 * Pow2[b - a - 1])
<1> DEFINE c == b - a
<1>1. c \in 1 .. 2 * W /\ c \in Nat /\ a + c = b /\ c - 1 = b - a - 1 /\ c - 1 \in Exponents
  BY Width DEF Exponents
<1> HIDE DEF c
<1>2. Pow2[a + c] = Pow2[a] * Pow2[c]
  BY <1>1, PowersAdd
<1>3. Pow2[c] = 2 * Pow2[c - 1]
  BY <1>1, PowersDefined
<1> QED
  BY <1>1, <1>2, <1>3

\* numbers that differ by a multiple of a power have the same bits below it
LEMMA BitsBelow ==
    ASSUME NEW n \in Int, NEW m \in Int, NEW j \in Nat, j =< 2 * W, NEW b \in Nat, b < j
    PROVE  Bit(n + Pow2[j] * m, b) <=> Bit(n, b)
<1> DEFINE p == Pow2[b]
           q == Pow2[j - b - 1]
           x == q * m
<1>1. b \in Exponents /\ j - b - 1 \in Exponents
  BY HigherPower, Width DEF Exponents
<1>2. p \in Positive /\ q \in Positive /\ p \in Int /\ q \in Int
  BY <1>1, PowersPositive
<1>3. Pow2[j] = p * (2 * q)
  BY HigherPower
<1> HIDE DEF p, q
<1>4. x \in Int
  BY <1>2
<1>5. Pow2[j] * m = p * (2 * x)
  <2>1. (p * (2 * q)) * m = p * (2 * (q * m))
    BY <1>2
  <2> QED
    BY <1>3, <2>1
<1> HIDE DEF x
<1>6. (n + p * (2 * x)) \div p = n \div p + 2 * x
  <2>1. 2 * x \in Int
    BY <1>4
  <2> QED
    BY <1>2, <2>1, DivideShifted
<1>7. n \div p \in Int
  BY <1>2, Division
<1>8. (n \div p + 2 * x) % 2 = (n \div p) % 2
  BY <1>4, <1>7, Parity
<1> QED
  BY <1>5, <1>6, <1>8 DEF Bit, p

\* in particular the bits of a remainder
LEMMA BitsOfRemainder ==
    ASSUME NEW n \in Int, NEW j \in Nat, j =< 2 * W, NEW b \in Nat, b < j
    PROVE  Bit(n % Pow2[j], b) <=> Bit(n, b)
<1> DEFINE p == Pow2[j]
           r == n % p
           d == n \div p
<1>1. p \in Positive
  BY PowersPositive, Width DEF Exponents
<1>2. r \in Int /\ d \in Int /\ n = p * d + r /\ p \in Int
  <2>1. p \in Int
    BY <1>1 DEF Positive
  <2> HIDE DEF p
  <2> QED
    BY <1>1, <2>1, Division
<1> HIDE DEF r, d
<1>3. n = r + p * d
  <2> HIDE DEF p
  <2> QED
    BY <1>2
<1>4. Bit(r + p * d, b) <=> Bit(r, b)
  BY <1>2, BitsBelow
<1> QED
  BY <1>3, <1>4 DEF r

\* the bits of what a number is shifted left to
LEMMA BitShiftedLeft ==
    ASSUME NEW n \in Int, NEW k \in Nat, k =< 2 * W, NEW b \in Nat, b =< 2 * W
    PROVE  Bit(n * Pow2[k], b) <=> b >= k /\ Bit(n, b - k)
<1>1. b \in Exponents /\ k \in Exponents /\ 2 * W \in Nat
  BY Width DEF Exponents
<1>2. CASE b < k
  <2> DEFINE p == Pow2[b]
             q == Pow2[k - b - 1]
             x == q * n
  <2>1. k - b - 1 \in Exponents /\ Pow2[k] = p * (2 * q)
    BY <1>2, HigherPower
  <2>2. p \in Positive /\ q \in Int /\ p \in Int
    BY <1>1, <2>1, PowersPositive
  <2> HIDE DEF p, q
  <2>3. n * (p * (2 * q)) = p * (2 * (q * n)) /\ x \in Int
    BY <2>2
  <2> HIDE DEF x
  <2>4. (p * (2 * x)) \div p = 2 * x
    <3>1. 2 * x \in Int
      BY <2>3
    <3> QED
      BY <2>2, <3>1, DivideMultiple
  <2>5. (2 * x) % 2 = 0
    BY <2>3
  <2>6. (n * Pow2[k]) \div p = 2 * x
    BY <2>1, <2>3, <2>4 DEF x
  <2> QED
    BY <1>2, <2>5, <2>6 DEF Bit, p
<1>3. CASE b >= k
  <2> DEFINE c == b - k
             p == Pow2[k]
             m == n * p
  <2>1. c \in Nat /\ k + c = b
    BY <1>3
  <2>2. p \in Positive /\ p \in Int
    BY <1>1, PowersPositive
  <2>3. m \in Int /\ m \div p = n
    <3> HIDE DEF p
    <3>1. n * p = p * n /\ m \in Int
      BY <2>2
    <3> QED
      BY <2>2, <3>1, DivideMultiple
  <2> HIDE DEF c, m
  <2>4. Bit(m \div p, c) <=> Bit(m, k + c)
    BY <2>1, <2>3, BitShiftedRight
  <2> QED
    BY <1>3, <2>1, <2>3, <2>4 DEF c, m
<1> QED
  BY <1>1, <1>2, <1>3

\* the bits above a number
LEMMA BitsAbove ==
    ASSUME NEW n \in Int, NEW j \in Nat, NEW b \in Nat, j =< b, b =< 2 * W
    PROVE  /\ 0 =< n /\ n < Pow2[j] => ~Bit(n, b)
           /\ n < 0 /\ -Pow2[j] =< n => Bit(n, b)
<1> DEFINE p == Pow2[b]
           q == Pow2[j]
<1>1. p \in Positive /\ p \in Int
  BY PowersPositive, Width DEF Exponents
<1>2. q =< p /\ q \in Int
  BY PowersGrow, PowersPositive, Width DEF Exponents
<1> HIDE DEF p, q
<1>3. ASSUME 0 =< n, n < q
      PROVE  (n \div p) % 2 = 0
  <2>1. n < p
    BY <1>1, <1>2, <1>3
  <2>2. n \div p = 0
    BY <1>1, <1>3, <2>1, DivideSmall
  <2> QED
    BY <2>2
<1>4. ASSUME n < 0, -q =< n
      PROVE  (n \div p) % 2 = 1
  <2> DEFINE r == n + p
  <2>1. r \in Int /\ 0 =< r /\ r < p /\ n = p * (-1) + r /\ -1 \in Int
    BY <1>1, <1>2, <1>4
  <2> HIDE DEF r
  <2>2. n \div p = -1
    BY <1>1, <2>1, DivisionUnique
  <2> QED
    BY <2>2
<1> QED
  BY <1>3, <1>4 DEF Bit, p, q

Adds(bs, k) == IF k - 1 \in bs THEN Pow2[k - 1] ELSE 0

\* Number adds up the powers of the bits, from the lowest one on.
LEMMA NumberUpto ==
    ASSUME NEW bs
    PROVE  \E U \in [0 .. W -> Nat] :
               /\ Number(bs) = U[W] /\ U[0] = 0
               /\ \A k \in 1 .. W : U[k] = U[k - 1] + Adds(bs, k)
<1> DEFINE A(k) == Adds(bs, k)
           D == [k \in 1 .. W |-> [x \in Nat |-> x + A(k)]]
           Is(g) == g = [k \in 0 .. W |-> IF k = 0 THEN 0 ELSE g[k - 1] + A(k)]
           U == CHOOSE g : Is(g)
<1>1. W \in Nat /\ 2 * W \in Nat /\ W =< 2 * W
  BY Width
<1>2. \A k \in 1 .. W : A(k) \in Nat
  <2> SUFFICES ASSUME NEW k \in 1 .. W
               PROVE  A(k) \in Nat
    OBVIOUS
  <2>1. k - 1 \in 0 .. 2 * W
    BY <1>1
  <2> QED
    BY <2>1, PowersTyped DEF Adds
<1>3. Number(bs) = U[W]
  BY DEF Number, Adds
<1> HIDE DEF A, U
<1>4. D \in [1 .. W -> [Nat -> Nat]] /\ 0 \in Nat
  BY <1>2
<1>5. PICK g \in [0 .. W -> Nat] : IsLoop(g, W, 0, D)
  <2> HIDE DEF D
  <2> QED
    BY <1>1, <1>4, LoopDefined
<1>6. g[0] = 0 /\ \A k \in 1 .. W : g[k] = D[k][g[k - 1]]
  BY <1>5 DEF IsLoop
<1>7. \A k \in 1 .. W : g[k] = g[k - 1] + A(k)
  <2> SUFFICES ASSUME NEW k \in 1 .. W
               PROVE  g[k] = g[k - 1] + A(k)
    OBVIOUS
  <2>1. k - 1 \in 0 .. W
    BY <1>1
  <2>2. g[k - 1] \in Nat
    BY <2>1
  <2>3. D[k][g[k - 1]] = g[k - 1] + A(k)
    BY <2>2
  <2> HIDE DEF D
  <2> QED
    BY <1>6, <2>3
<1>8. Is(g)
  <2> HIDE DEF D
  <2>1. \A k \in 0 .. W : k = 0 \/ k \in 1 .. W
    BY <1>1
  <2> QED
    BY <1>6, <1>7, <2>1
<1>9. Is(U)
  <2> HIDE DEF Is
  <2> QED
    BY <1>8 DEF U
<1>10. U[0] = 0
  <2>1. 0 \in 0 .. W
    BY <1>1
  <2> QED
    BY <1>9, <2>1
<1>11. \A k \in 1 .. W : U[k] = U[k - 1] + A(k)
  <2>1. \A k \in 1 .. W : k \in 0 .. W /\ k # 0
    BY <1>1
  <2> QED
    BY <1>9, <2>1
<1>12. U \in [0 .. W -> Nat]
  <2> DEFINE G == {k \in 0 .. W : U[k] \in Nat}
  <2>1. 0 \in G
    BY <1>1, <1>10
  <2>2. ASSUME NEW k \in 1 .. W, k - 1 \in G
        PROVE  k \in G
    BY <1>1, <1>2, <1>11, <2>2
  <2>3. G \in SUBSET (0 .. W)
    OBVIOUS
  <2> HIDE DEF G
  <2>4. G = 0 .. W
    BY <1>1, <2>1, <2>2, <2>3, EveryPass
  <2>5. \A k \in 0 .. W : U[k] \in Nat
    BY <2>4 DEF G
  <2>6. DOMAIN U = 0 .. W /\ U = [k \in 0 .. W |-> U[k]]
    BY <1>9
  <2> QED
    BY <2>5, <2>6
<1> QED
  BY <1>3, <1>10, <1>11, <1>12 DEF A

LEMMA NumberBits ==
    ASSUME NEW bs \in SUBSET (0 .. W - 1)
    PROVE  Number(bs) \in Words /\ BitSet(Number(bs)) = bs
<1>1. PICK U \in [0 .. W -> Nat] :
        /\ Number(bs) = U[W] /\ U[0] = 0
        /\ \A k \in 1 .. W : U[k] = U[k - 1] + Adds(bs, k)
  BY NumberUpto
<1>2. W \in Nat /\ 2 * W \in Nat /\ W =< 2 * W /\ W > 0
  BY Width
<1>3. ASSUME NEW k \in 1 .. W
      PROVE  /\ k - 1 \in 0 .. W /\ k - 1 \in Exponents /\ k - 1 \in Nat /\ k \in 0 .. W
             /\ Pow2[k] = 2 * Pow2[k - 1] /\ Pow2[k - 1] \in Nat /\ Pow2[k - 1] >= 1
             /\ Adds(bs, k) \in {0, Pow2[k - 1]}
  <2>1. k - 1 \in 0 .. W /\ k - 1 \in Exponents /\ k \in 1 .. 2 * W /\ k \in 0 .. W /\ k - 1 \in Nat
    BY <1>2 DEF Exponents
  <2> QED
    BY <2>1, PowersDefined, PowersTyped DEF Adds, Exponents
<1>4. \A k \in 0 .. W : U[k] < Pow2[k]
  <2> DEFINE G == {k \in 0 .. W : U[k] < Pow2[k]}
  <2>1. 0 \in G
    BY <1>1, <1>2, PowersDefined
  <2>2. ASSUME NEW k \in 1 .. W, k - 1 \in G
        PROVE  k \in G
    <3> DEFINE u == U[k - 1]
               p == Pow2[k - 1]
    <3>1. u \in Nat /\ u < p /\ p \in Nat /\ U[k] = u + Adds(bs, k) /\ Adds(bs, k) \in {0, p}
          /\ Pow2[k] = 2 * p /\ k \in 0 .. W
      BY <1>1, <1>3, <2>2
    <3> HIDE DEF u, p
    <3>2. U[k] < Pow2[k]
      BY <3>1
    <3> QED
      BY <3>1, <3>2
  <2>3. G \in SUBSET (0 .. W)
    OBVIOUS
  <2> HIDE DEF G
  <2>4. G = 0 .. W
    BY <1>2, <2>1, <2>2, <2>3, EveryPass
  <2> QED
    BY <2>4 DEF G
<1>5. Number(bs) \in Words
  <2>1. W \in 0 .. W /\ Pow2[W] \in Nat
    BY <1>2, PowersTyped
  <2>2. U[W] \in Nat /\ U[W] < Pow2[W]
    BY <1>4, <2>1
  <2> QED
    BY <1>1, <2>1, <2>2 DEF Words
<1>6. ASSUME NEW b \in 0 .. W - 1
      PROVE  Bit(U[W], b) <=> b \in bs
  <2> DEFINE G == {k \in 0 .. W : k =< b \/ (Bit(U[k], b) <=> b \in bs)}
  <2>1. 0 \in G
    BY <1>2
  <2>2. ASSUME NEW k \in 1 .. W, k - 1 \in G
        PROVE  k \in G
    <3> DEFINE u == U[k - 1]
               p == Pow2[k - 1]
               a == Adds(bs, k)
    <3>1. u \in Nat /\ u < p /\ p \in Positive /\ p \in Nat /\ U[k] = u + a /\ a \in {0, p}
          /\ k \in 0 .. W /\ b \in Nat /\ (k - 1 \in bs => a = p) /\ (k - 1 \notin bs => a = 0)
      <4>1. k - 1 \in 0 .. W /\ k - 1 \in Exponents /\ k \in 0 .. W /\ p \in Nat /\ a \in {0, p}
        BY <1>3
      <4>2. u \in Nat /\ u < p /\ U[k] = u + a
        BY <1>1, <1>4, <4>1
      <4>3. p \in Positive
        BY <4>1, PowersPositive
      <4>4. (k - 1 \in bs => a = p) /\ (k - 1 \notin bs => a = 0)
        BY DEF Adds
      <4> QED
        BY <4>1, <4>2, <4>3, <4>4
    <3> HIDE DEF u, p, a
    <3>2. CASE k =< b
      BY <3>1, <3>2
    <3>3. CASE k = b + 1
      <4>1. b = k - 1
        BY <3>1, <3>3
      <4> DEFINE q == IF b \in bs THEN 1 ELSE 0
      <4>2. q \in {0, 1} /\ (q = 1 <=> b \in bs)
        OBVIOUS
      <4>3. U[k] = p * q + u
        BY <3>1, <4>1
      <4> HIDE DEF q
      <4>4. q \in Int /\ u \in Int /\ 0 =< u
        BY <3>1, <4>2
      <4>5. (p * q + u) \div p = q
        BY <3>1, <4>4, DivisionUnique
      <4>6. U[k] \div Pow2[b] = q
        BY <4>1, <4>3, <4>5 DEF p
      <4>7. Bit(U[k], b) <=> q = 1
        BY <4>2, <4>6 DEF Bit
      <4> QED
        BY <3>1, <4>2, <4>7
    <3>4. CASE k > b + 1
      <4>1. k - 1 \in Nat /\ k - 1 =< 2 * W /\ b < k - 1 /\ b \in Nat /\ u \in Int
        BY <1>2, <3>1, <3>4
      <4>2. Bit(u, b) <=> b \in bs
        BY <2>2, <4>1 DEF u
      <4>3. PICK m \in {0, 1} : U[k] = u + p * m
        <5>1. 0 \in {0, 1} /\ 1 \in {0, 1} /\ p * 1 = p /\ p * 0 = 0
          BY <3>1
        <5> QED
          BY <3>1, <5>1
      <4>4. Bit(u + Pow2[k - 1] * m, b) <=> Bit(u, b)
        BY <4>1, BitsBelow
      <4> QED
        BY <3>1, <4>2, <4>3, <4>4 DEF p
    <3> QED
      BY <3>1, <3>2, <3>3, <3>4
  <2>3. G \in SUBSET (0 .. W)
    OBVIOUS
  <2> HIDE DEF G
  <2>4. G = 0 .. W
    BY <1>2, <2>1, <2>2, <2>3, EveryPass
  <2>5. W \in G /\ ~(W =< b)
    BY <1>2, <2>4
  <2> QED
    BY <2>5 DEF G
<1> QED
  BY <1>1, <1>5, <1>6, BitSetBits

-----------------------------------------------------------------------------
(* The bits that the operations on words leave.                             *)

Bits == 0 .. W - 1

LEMMA BitsTyped ==
    ASSUME NEW b \in Bits
    PROVE  b \in Nat /\ b < W /\ b =< 2 * W /\ b \in Exponents /\ W \in Nat /\ W =< 2 * W /\ 2 * W \in Nat
BY Width DEF Bits, Exponents

LEMMA WordsTyped ==
    ASSUME NEW n \in Words
    PROVE  n \in Int /\ n \in Nat /\ 0 =< n /\ n < Pow2[W]
<1>1. Pow2[W] \in Nat
  BY PowersTyped, Width
<1> QED
  BY <1>1 DEF Words

LEMMA InBitSet ==
    ASSUME NEW n, NEW b
    PROVE  b \in BitSet(n) <=> b \in Bits /\ Bit(n, b)
BY BitSetBits DEF Bits

LEMMA AndBits ==
    ASSUME NEW s, NEW t, NEW b \in Bits
    PROVE  And(s, t) \in Words /\ (Bit(And(s, t), b) <=> Bit(s, b) /\ Bit(t, b))
<1> DEFINE bs == BitSet(s) \cap BitSet(t)
<1>1. And(s, t) = Number(bs)
  BY DEF And, Bitwise2
<1>2. bs \in SUBSET (0 .. W - 1)
  BY InBitSet DEF Bits
<1> HIDE DEF bs
<1>3. And(s, t) \in Words /\ BitSet(And(s, t)) = bs
  BY <1>1, <1>2, NumberBits
<1> QED
  BY <1>3, InBitSet DEF bs

LEMMA OrBits ==
    ASSUME NEW s, NEW t, NEW b \in Bits
    PROVE  Or(s, t) \in Words /\ (Bit(Or(s, t), b) <=> Bit(s, b) \/ Bit(t, b))
<1> DEFINE bs == BitSet(s) \cup BitSet(t)
<1>1. Or(s, t) = Number(bs)
  BY DEF Or, Bitwise2
<1>2. bs \in SUBSET (0 .. W - 1)
  BY InBitSet DEF Bits
<1> HIDE DEF bs
<1>3. Or(s, t) \in Words /\ BitSet(Or(s, t)) = bs
  BY <1>1, <1>2, NumberBits
<1> QED
  BY <1>3, InBitSet DEF bs

LEMMA NotBits ==
    ASSUME NEW s \in Words, NEW b \in Bits
    PROVE  Not(s) \in Words /\ (Bit(Not(s), b) <=> ~Bit(s, b))
<1> DEFINE p == Pow2[b]
           h == Pow2[W - b - 1]
           q == s \div p
           r == s % p
           e == (2 * h - 1) - q
           f == (p - 1) - r
<1>1. b \in Nat /\ b < W /\ W =< 2 * W /\ W \in Nat /\ b \in Exponents
  BY BitsTyped
<1>2. p \in Positive /\ p \in Int /\ h \in Int /\ Pow2[W] = p * (2 * h)
  BY <1>1, HigherPower, PowersPositive
<1>3. s \in Int /\ 0 =< s /\ s < Pow2[W]
  BY WordsTyped
<1> HIDE DEF p, h
<1>4. q \in Int /\ r \in Int /\ 0 =< r /\ r < p /\ s = p * q + r
  BY <1>2, <1>3, Division
<1> HIDE DEF q, r
<1>5. Not(s) = Pow2[W] - 1 - s /\ Pow2[W] \in Int
  BY <1>1, PowersPositive DEF Not, Exponents
<1>6. Not(s) \in Words
  BY <1>3, <1>5 DEF Words
<1>7. e \in Int /\ f \in Int /\ 0 =< f /\ f < p
  BY <1>2, <1>4
<1>8. Not(s) = p * e + f
  <2>1. p * e = p * (2 * h) - p - p * q
    BY <1>2, <1>4
  <2>2. p * q \in Int /\ p * (2 * h) \in Int
    BY <1>2, <1>4
  <2> QED
    BY <1>2, <1>4, <1>5, <2>1, <2>2
<1> HIDE DEF e, f
<1>9. Not(s) \div p = e
  BY <1>2, <1>7, <1>8, DivisionUnique
<1>10. e % 2 = 1 <=> ~(q % 2 = 1)
  BY <1>2, <1>4 DEF e
<1> QED
  BY <1>6, <1>9, <1>10 DEF Bit, p, q

LEMMA MaskBits ==
    ASSUME NEW j \in Nat, j =< W, NEW b \in Bits
    PROVE  Bit(Pow2[j] - 1, b) <=> b < j
<1>1. b \in Nat /\ b < W /\ W \in Nat /\ W =< 2 * W /\ b \in Exponents /\ j \in Exponents /\ b =< 2 * W
  BY BitsTyped, Width DEF Exponents
<1>2. CASE b < j
  <2> DEFINE p == Pow2[b]
             h == Pow2[j - b - 1]
             e == 2 * h - 1
  <2>1. p \in Positive /\ p \in Int /\ h \in Int /\ Pow2[j] = p * (2 * h)
    BY <1>1, <1>2, HigherPower, PowersPositive
  <2> HIDE DEF p, h
  <2>2. e \in Int /\ p - 1 \in Int /\ 0 =< p - 1 /\ p - 1 < p
    BY <2>1 DEF Positive
  <2>3. Pow2[j] - 1 = p * e + (p - 1)
    BY <2>1
  <2>4. e % 2 = 1
    BY <2>1
  <2> HIDE DEF e
  <2>5. (p * e + (p - 1)) \div p = e
    <3> DEFINE r == p - 1
    <3>1. r \in Int /\ 0 =< r /\ r < p
      BY <2>2
    <3> HIDE DEF r
    <3>2. (p * e + r) \div p = e
      BY <2>1, <2>2, <3>1, DivisionUnique
    <3> QED
      BY <3>2 DEF r
  <2>6. (Pow2[j] - 1) \div Pow2[b] = e
    BY <2>3, <2>5 DEF p
  <2> QED
    BY <1>2, <2>4, <2>6 DEF Bit
<1>3. CASE j =< b
  <2> DEFINE n == Pow2[j] - 1
  <2>1. n \in Int /\ 0 =< n /\ n < Pow2[j]
    BY <1>1, PowersTyped DEF Exponents
  <2> HIDE DEF n
  <2>2. ~Bit(n, b)
    BY <1>1, <1>3, <2>1, BitsAbove
  <2> QED
    BY <1>1, <1>3, <2>2 DEF n
<1> QED
  BY <1>1, <1>2, <1>3

LEMMA u32Bits ==
    ASSUME NEW n \in Int
    PROVE  u32(n) \in Words /\ \A b \in Bits : Bit(u32(n), b) <=> Bit(n, b)
<1>1. W \in Nat /\ W =< 2 * W /\ Pow2[W] \in Positive
  BY Width, PowersPositive DEF Exponents
<1>2. u32(n) \in Words
  <2> DEFINE p == Pow2[W]
  <2>1. n % p \in Int /\ 0 =< n % p /\ n % p < p
    BY <1>1, Division
  <2> QED
    BY <1>1, <2>1 DEF u32, Words, Positive
<1>3. \A b \in Bits : Bit(n % Pow2[W], b) <=> Bit(n, b)
  BY <1>1, BitsTyped, BitsOfRemainder
<1> QED
  BY <1>2, <1>3 DEF u32

\* a register holds the bits of its word below the others
LEMMA RegBits ==
    ASSUME NEW n \in Int
    PROVE  \A b \in Bits : Bit(Reg(n), b) <=> Bit(n, b)
<1>1. 2 * W \in Nat /\ 2 * W =< 2 * W /\ W =< 2 * W /\ W \in Nat
  BY Width
<1>2. \A b \in Bits : Bit(n % Pow2[2 * W], b) <=> Bit(n, b)
  BY <1>1, BitsTyped, BitsOfRemainder
<1> QED
  BY <1>2 DEF Reg

LEMMA ZeroBits == 0 \in Words /\ \A b \in Bits : ~Bit(0, b)
<1> DEFINE n == 0
<1>1. n \in Int /\ 0 =< n /\ n < Pow2[0] /\ Pow2[W] \in Nat /\ Pow2[W] > 0
  BY PowersDefined, PowersPositive, Width DEF Exponents, Positive
<1>2. n \in Words
  BY <1>1 DEF Words
<1> HIDE DEF n
<1>3. \A b \in Bits : ~Bit(n, b)
  BY <1>1, BitsTyped, BitsAbove
<1> QED
  BY <1>2, <1>3 DEF n

\* a word is the number of its bits
LEMMA WordOfBits ==
    ASSUME NEW m \in Words, NEW n \in Words, \A b \in Bits : Bit(m, b) <=> Bit(n, b)
    PROVE  m = n
<1> DEFINE G == {k \in 0 .. W : m % Pow2[k] = n % Pow2[k]}
<1>1. /\ W \in Nat /\ m \in Int /\ 0 =< m /\ m < Pow2[W] /\ n \in Int /\ 0 =< n /\ n < Pow2[W]
      /\ Pow2[W] \in Positive
  BY Width, WordsTyped, PowersPositive DEF Exponents
<1>2. 0 \in G
  <2> DEFINE p == Pow2[0]
  <2>1. p \in Positive /\ p = 1
    BY PowersDefined DEF Positive
  <2>2. ASSUME NEW x \in Int
        PROVE  x % p = 0
    <3>1. x % p \in Int /\ 0 =< x % p /\ x % p < p
      <4> HIDE DEF p
      <4> QED
        BY <2>1, Division
    <3> HIDE DEF p
    <3> QED
      BY <2>1, <3>1
  <2>3. m % p = n % p
    <3> HIDE DEF p
    <3> QED
      BY <1>1, <2>2
  <2> QED
    BY <1>1, <2>3
<1>3. ASSUME NEW k \in 1 .. W, k - 1 \in G
      PROVE  k \in G
  <2> DEFINE p == Pow2[k - 1]
             x == (m \div p) % 2
  <2>1. k - 1 \in Bits /\ k - 1 \in Exponents
    BY <1>1 DEF Bits, Exponents
  <2>2. p \in Positive /\ Pow2[k] = 2 * p /\ p \in Nat
    BY <1>1, <2>1, PowersPositive, PowersDefined DEF Positive
  <2>3. m % p = n % p
    BY <1>3
  <2>4. (m \div p) % 2 = 1 <=> (n \div p) % 2 = 1
    BY <2>1 DEF Bit
  <2> HIDE DEF p
  <2>5. m \div p \in Int /\ n \div p \in Int
    BY <1>1, <2>2, Division
  <2>6. x \in {0, 1} /\ x = (n \div p) % 2
    BY <2>4, <2>5
  <2> HIDE DEF x
  <2>7. ASSUME NEW y \in Int, NEW d \in Int, d = y \div p, d % 2 = x
        PROVE  y % (2 * p) = p * x + (y % p)
    <3> DEFINE r == y % p
               e == d \div 2
               c == p * x + r
    <3>1. r \in Int /\ 0 =< r /\ r < p /\ y = p * d + r
      BY <2>2, <2>7, Division
    <3>2. e \in Int /\ d = 2 * e + x
      BY <2>7
    <3> HIDE DEF r, e
    <3>3. c \in Int /\ 0 =< c /\ c < 2 * p
      BY <2>2, <2>6, <3>1
    <3>4. p * d = (2 * p) * e + p * x
      BY <2>2, <2>6, <3>2
    <3>5. p * d \in Int /\ (2 * p) * e \in Int /\ p * x \in Int /\ 2 * p \in Positive
      BY <2>2, <2>6, <2>7, <3>2 DEF Positive
    <3>6. y = (2 * p) * e + c
      BY <3>1, <3>4, <3>5
    <3> HIDE DEF c
    <3>7. y % (2 * p) = c
      BY <3>2, <3>3, <3>5, <3>6, DivisionUnique
    <3> QED
      BY <3>7 DEF c, r
  <2>8. m % (2 * p) = p * x + (m % p)
    BY <1>1, <2>5, <2>7 DEF x
  <2>9. n % (2 * p) = p * x + (n % p)
    BY <1>1, <2>5, <2>6, <2>7
  <2>10. m % (2 * p) = n % (2 * p)
    BY <2>3, <2>8, <2>9
  <2> QED
    BY <2>2, <2>10
<1>4. G \in SUBSET (0 .. W)
  OBVIOUS
<1>5. m % Pow2[W] = n % Pow2[W]
  <2> HIDE DEF G
  <2>1. G = 0 .. W
    BY <1>1, <1>2, <1>3, <1>4, EveryPass
  <2> QED
    BY <1>1, <2>1 DEF G
<1>6. m % Pow2[W] = m /\ n % Pow2[W] = n
  BY <1>1, DivideSmall
<1> QED
  BY <1>5, <1>6

LEMMA ShlBits ==
    ASSUME NEW n \in Int, NEW k \in Nat, k =< W
    PROVE  /\ Shl(n, k) \in Words
           /\ \A b \in Bits : Bit(Shl(n, k), b) <=> b >= k /\ Bit(n, b - k)
<1> DEFINE m == n * Pow2[k]
<1>1. k =< 2 * W /\ Pow2[k] \in Int
  BY Width, PowersPositive DEF Exponents
<1>2. m \in Int
  BY <1>1
<1>3. \A b \in Bits : Bit(m, b) <=> b >= k /\ Bit(n, b - k)
  BY <1>1, BitsTyped, BitShiftedLeft
<1> HIDE DEF m
<1>4. u32(m) \in Words /\ \A b \in Bits : Bit(u32(m), b) <=> Bit(m, b)
  BY <1>2, u32Bits
<1> QED
  BY <1>3, <1>4 DEF Shl, m

LEMMA ShrBits ==
    ASSUME NEW n \in Words, NEW k \in Nat, k =< W
    PROVE  /\ Shr(n, k) \in Words
           /\ \A b \in Bits : Bit(Shr(n, k), b) <=> b + k < W /\ Bit(n, b + k)
<1>1. n \in Int /\ 0 =< n /\ n < Pow2[W]
  BY WordsTyped
<1>2. W \in Nat /\ W =< 2 * W /\ 2 * W \in Nat /\ k \in Exponents
  BY Width DEF Exponents
<1>3. Shr(n, k) \in Words
  <2> DEFINE p == Pow2[k]
             q == n \div p
             r == n % p
  <2>1. p \in Positive /\ p \in Nat /\ p >= 1
    BY <1>2, PowersPositive DEF Positive
  <2>2. q \in Int /\ r \in Int /\ 0 =< r /\ r < p /\ n = p * q + r
    <3> HIDE DEF p
    <3> QED
      BY <1>1, <2>1, Division
  <2> HIDE DEF p, q, r
  <2>3. 0 =< q
    <3>1. CASE q =< -1
      <4>1. p * q =< -p
        BY <2>1, <2>2, <3>1
      <4> QED
        BY <1>1, <2>1, <2>2, <4>1
    <3> QED
      BY <2>2, <3>1
  <2>4. q =< n
    <3>1. q =< p * q /\ p * q \in Int
      BY <2>1, <2>2, <2>3
    <3> QED
      BY <1>1, <2>2, <3>1
  <2>5. Pow2[W] \in Int
    BY <1>2, PowersPositive DEF Exponents
  <2>6. q \in Words
    BY <1>1, <2>2, <2>3, <2>4, <2>5 DEF Words
  <2> QED
    BY <2>6 DEF Shr, p, q
<1>4. ASSUME NEW b \in Bits
      PROVE  Bit(Shr(n, k), b) <=> b + k < W /\ Bit(n, b + k)
  <2>1. b \in Nat /\ b < W
    BY BitsTyped
  <2>2. k + b =< 2 * W /\ k + b = b + k /\ k + b \in Nat
    BY <1>2, <2>1
  <2>3. Bit(n \div Pow2[k], b) <=> Bit(n, k + b)
    BY <1>1, <2>1, <2>2, BitShiftedRight
  <2>4. ~(b + k < W) => ~Bit(n, k + b)
    <3>1. ~(b + k < W) => W =< k + b
      BY <1>2, <2>2
    <3> QED
      BY <1>1, <1>2, <2>2, <3>1, BitsAbove
  <2> QED
    BY <2>2, <2>3, <2>4 DEF Shr
<1> QED
  BY <1>3, <1>4

-----------------------------------------------------------------------------
(* Signed numbers.                                                          *)

\* the signed number of w bits is the number up to a multiple of 2^w
LEMMA AsIntTyped ==
    ASSUME NEW n \in Int, NEW w \in 1 .. 2 * W
    PROVE  /\ as_int(n, w) \in Int
           /\ -Pow2[w - 1] =< as_int(n, w) /\ as_int(n, w) < Pow2[w - 1]
           /\ \E m \in Int : as_int(n, w) = n + Pow2[w] * m
<1> DEFINE p == Pow2[w]
           h == Pow2[w - 1]
           d == n \div p
           r == n % p
<1>1. h \in Nat /\ h >= 1 /\ p = 2 * h /\ p \in Nat
  BY Width, PowersDefined
<1>2. p \in Positive
  BY <1>1 DEF Positive
<1>3. as_int(n, w) = IF r < h THEN r ELSE r - p
  BY DEF as_int
<1> HIDE DEF p, h
<1>4. d \in Int /\ r \in Int /\ 0 =< r /\ r < p /\ n = p * d + r
  BY <1>2, Division
<1> HIDE DEF d, r
<1>5. as_int(n, w) \in Int /\ -h =< as_int(n, w) /\ as_int(n, w) < h
  BY <1>1, <1>3, <1>4
<1>6. CASE r < h
  <2> DEFINE m == -d
  <2>1. m \in Int /\ p * m = -(p * d)
    BY <1>1, <1>4
  <2> HIDE DEF m
  <2>2. as_int(n, w) = n + p * m
    BY <1>1, <1>3, <1>4, <1>6, <2>1
  <2> QED
    BY <1>5, <2>1, <2>2 DEF p, h
<1>7. CASE ~(r < h)
  <2> DEFINE m == -d - 1
  <2>1. m \in Int /\ p * m = -(p * d) - p
    BY <1>1, <1>4
  <2> HIDE DEF m
  <2>2. as_int(n, w) = n + p * m
    BY <1>1, <1>3, <1>4, <1>7, <2>1
  <2> QED
    BY <1>5, <2>1, <2>2 DEF p, h
<1> QED
  BY <1>6, <1>7

\* a number that fits is its own signed number
LEMMA AsIntOfSigned ==
    ASSUME NEW n \in Int, NEW w \in 1 .. 2 * W, -Pow2[w - 1] =< n, n < Pow2[w - 1]
    PROVE  as_int(n, w) = n
<1> DEFINE p == Pow2[w]
           h == Pow2[w - 1]
           x == as_int(n, w)
<1>1. h \in Nat /\ h >= 1 /\ p = 2 * h /\ p \in Nat
  BY Width, PowersDefined
<1>2. x \in Int /\ -h =< x /\ x < h
  BY AsIntTyped
<1>3. PICK m \in Int : x = n + p * m
  BY AsIntTyped
<1>4. -h =< n /\ n < h
  OBVIOUS
<1> HIDE DEF x, p, h
<1>5. m = 0
  <2>1. CASE m >= 1
    <3>1. p * m >= p
      BY <1>1, <2>1
    <3> QED
      BY <1>1, <1>2, <1>3, <1>4, <3>1
  <2>2. CASE m =< -1
    <3>1. p * m =< -p
      BY <1>1, <2>2
    <3> QED
      BY <1>1, <1>2, <1>3, <1>4, <3>1
  <2> QED
    BY <2>1, <2>2
<1>6. p * m = 0
  BY <1>1, <1>5
<1>7. x = n
  BY <1>1, <1>3, <1>6
<1> QED
  BY <1>7 DEF x

\* signed numbers depend on the remainder only
LEMMA AsIntCongruent ==
    ASSUME NEW n \in Int, NEW m \in Int, NEW w \in 1 .. 2 * W
    PROVE  as_int(n + Pow2[w] * m, w) = as_int(n, w)
<1>1. Pow2[w] \in Positive
  BY Width, PowersDefined DEF Positive
<1>2. (n + Pow2[w] * m) % Pow2[w] = n % Pow2[w]
  BY <1>1, DivideShifted
<1> QED
  BY <1>2 DEF as_int

\* the sign bit is repeated
LEMMA AsIntBits ==
    ASSUME NEW n \in Int, NEW w \in 1 .. 2 * W, NEW b \in Nat, b =< 2 * W
    PROVE  Bit(as_int(n, w), b) <=> Bit(n, IF b < w - 1 THEN b ELSE w - 1)
<1> DEFINE x == as_int(n, w)
<1>1. x \in Int /\ -Pow2[w - 1] =< x /\ x < Pow2[w - 1]
  BY AsIntTyped
<1>2. PICK m \in Int : x = n + Pow2[w] * m
  BY AsIntTyped
<1>3. w \in Nat /\ w =< 2 * W /\ w - 1 \in Nat /\ w - 1 < w /\ w - 1 =< 2 * W
  BY Width
<1> HIDE DEF x
<1>4. ASSUME NEW c \in Nat, c < w
      PROVE  Bit(x, c) <=> Bit(n, c)
  BY <1>2, <1>3, <1>4, BitsBelow
<1>5. CASE b < w - 1
  BY <1>3, <1>4, <1>5 DEF x
<1>6. CASE ~(b < w - 1)
  <2>1. w - 1 =< b
    BY <1>3, <1>6
  <2>2. x < 0 \/ 0 =< x
    BY <1>1
  <2>3. Bit(x, b) <=> x < 0
    BY <1>1, <1>3, <2>1, <2>2, BitsAbove
  <2>4. Bit(x, w - 1) <=> x < 0
    BY <1>1, <1>3, <2>2, BitsAbove
  <2>5. Bit(x, w - 1) <=> Bit(n, w - 1)
    BY <1>3, <1>4
  <2> QED
    BY <1>6, <2>3, <2>4, <2>5 DEF x
<1> QED
  BY <1>5, <1>6

LEMMA SarBits ==
    ASSUME NEW n \in Int, NEW k \in Nat, k =< W
    PROVE  \A b \in Bits : Bit(Sar(n, k), b) <=> Bit(n, IF b + k < W - 1 THEN b + k ELSE W - 1)
<1> DEFINE x == as_i32(n)
           q == x \div Pow2[k]
<1>1. W \in 1 .. 2 * W /\ k \in Exponents
  BY Width DEF Exponents
<1>2. x \in Int
  BY <1>1, AsIntTyped DEF as_i32
<1>3. Pow2[k] \in Positive
  BY <1>1, PowersPositive
<1>4. q \in Int
  <2> HIDE DEF x
  <2> QED
    BY <1>2, <1>3, Division
<1>5. ASSUME NEW b \in Bits
      PROVE  Bit(q, b) <=> Bit(n, IF b + k < W - 1 THEN b + k ELSE W - 1)
  <2>1. b \in Nat /\ b + k \in Nat /\ k + b = b + k /\ b + k =< 2 * W
    BY <1>1, BitsTyped, Width
  <2>2. Bit(q, b) <=> Bit(x, k + b)
    <3> HIDE DEF x
    <3> QED
      BY <1>2, <2>1, BitShiftedRight
  <2>3. Bit(x, b + k) <=> Bit(n, IF b + k < W - 1 THEN b + k ELSE W - 1)
    BY <1>1, <2>1, AsIntBits DEF as_i32
  <2> QED
    BY <2>1, <2>2, <2>3
<1> HIDE DEF q
<1>6. \A b \in Bits : Bit(Reg(q), b) <=> Bit(q, b)
  BY <1>4, RegBits
<1> QED
  BY <1>5, <1>6 DEF Sar, q

-----------------------------------------------------------------------------
(* Shifts, rotations, extensions, swaps and bit fields move the right bits.  *)

LEMMA BitSetTyped ==
    ASSUME NEW n
    PROVE  BitSet(n) \in SUBSET Bits
BY DEF BitSet, Bits

\* the bits of a result are those of a set when each of them is
LEMMA SameBits ==
    ASSUME NEW n, NEW B \in SUBSET Bits, \A b \in Bits : Bit(n, b) <=> b \in B
    PROVE  BitSet(n) = B
BY InBitSet, BitSetTyped

LEMMA LesserOf ==
    ASSUME NEW a \in Int, NEW b \in Int
    PROVE  Min({a, b}) = IF a < b THEN a ELSE b
<1> DEFINE c == IF a < b THEN a ELSE b
           Least(x) == \A y \in {a, b} : x =< y
<1>1. c \in {a, b} /\ Least(c)
  OBVIOUS
<1>2. \A x \in {a, b} : Least(x) => x = c
  OBVIOUS
<1>3. Min({a, b}) = CHOOSE x \in {a, b} : Least(x)
  BY DEF Min
<1> HIDE DEF c, Least
<1> QED
  BY <1>1, <1>2, <1>3 DEF c

LEMMA ShiftedLeft ==
    ASSUME NEW t \in Words, NEW k \in Bits
    PROVE  BitSet(Shl(t, k)) = {b \in Bits : b >= k /\ b - k \in BitSet(t)}
<1> DEFINE B == {b \in Bits : b >= k /\ b - k \in BitSet(t)}
<1>1. k \in Nat /\ k =< W /\ t \in Int
  BY BitsTyped, WordsTyped
<1>2. ASSUME NEW b \in Bits
      PROVE  Bit(Shl(t, k), b) <=> b \in B
  <2>1. Bit(Shl(t, k), b) <=> b >= k /\ Bit(t, b - k)
    BY <1>1, ShlBits
  <2>2. b >= k => b - k \in Bits
    BY <1>1, Width DEF Bits
  <2> QED
    BY <2>1, <2>2, InBitSet
<1>3. B \in SUBSET Bits
  OBVIOUS
<1> HIDE DEF B
<1>4. BitSet(Shl(t, k)) = B
  BY <1>2, <1>3, SameBits
<1> QED
  BY <1>4 DEF B

LEMMA ShiftedRight ==
    ASSUME NEW t \in Words, NEW k \in Bits
    PROVE  BitSet(Shr(t, k)) = {b \in Bits : b + k \in BitSet(t)}
<1> DEFINE B == {b \in Bits : b + k \in BitSet(t)}
<1>1. k \in Nat /\ k =< W
  BY BitsTyped
<1>2. ASSUME NEW b \in Bits
      PROVE  Bit(Shr(t, k), b) <=> b \in B
  <2>1. Bit(Shr(t, k), b) <=> b + k < W /\ Bit(t, b + k)
    BY <1>1, ShrBits
  <2>2. b + k < W <=> b + k \in Bits
    BY <1>1, Width DEF Bits
  <2> QED
    BY <2>1, <2>2, InBitSet
<1>3. B \in SUBSET Bits
  OBVIOUS
<1> HIDE DEF B
<1>4. BitSet(Shr(t, k)) = B
  BY <1>2, <1>3, SameBits
<1> QED
  BY <1>4 DEF B

LEMMA RotatedRight ==
    ASSUME NEW t \in Words, NEW k \in Bits
    PROVE  BitSet(Rotr(t, k)) = {b \in Bits : (b + k) % W \in BitSet(t)}
<1> DEFINE B == {b \in Bits : (b + k) % W \in BitSet(t)}
<1>1. k \in Nat /\ k < W /\ W \in Nat /\ W \in Positive /\ t \in Int
  BY BitsTyped, Width, WordsTyped DEF Positive
<1>2. ASSUME NEW b \in Bits
      PROVE  Bit(Rotr(t, k), b) <=> b \in B
  <2>1. b \in Nat /\ b < W
    BY BitsTyped
  <2>2. CASE k = 0
    <3>1. (b + k) % W = b
      <4>1. b + k = b
        BY <2>1, <2>2
      <4>2. b % W = b
        BY <1>1, <2>1, DivideSmall
      <4> QED
        BY <4>1, <4>2
    <3>2. Rotr(t, k) = t
      BY <2>2 DEF Rotr
    <3> QED
      BY <3>1, <3>2, InBitSet
  <2>3. CASE k # 0
    <3> DEFINE l == W - k
    <3>1. l \in Nat /\ l =< W /\ k =< W
      BY <1>1
    <3>2. Bit(Shl(t, l), b) <=> b >= l /\ Bit(t, b - l)
      <4> HIDE DEF l
      <4> QED
        BY <1>1, <3>1, ShlBits
    <3>3. Bit(Shr(t, k), b) <=> b + k < W /\ Bit(t, b + k)
      BY <1>1, <3>1, ShrBits
    <3>4. Rotr(t, k) = Or(Shr(t, k), Shl(t, l))
      BY <2>3 DEF Rotr
    <3>5. Bit(Rotr(t, k), b) <=> Bit(Shr(t, k), b) \/ Bit(Shl(t, l), b)
      BY <3>4, OrBits
    <3>6. CASE b + k < W
      <4>1. (b + k) % W = b + k
        <5> DEFINE c == b + k
        <5>1. c \in Int /\ 0 =< c /\ c < W
          BY <1>1, <2>1, <3>6
        <5> HIDE DEF c
        <5>2. c % W = c
          BY <1>1, <5>1, DivideSmall
        <5> QED
          BY <5>2 DEF c
      <4>2. b + k \in Bits /\ ~(b >= l)
        BY <1>1, <2>1, <3>6 DEF Bits
      <4> QED
        BY <3>2, <3>3, <3>5, <3>6, <4>1, <4>2, InBitSet
    <3>7. CASE ~(b + k < W)
      <4>1. (b + k) % W = b - l
        <5> DEFINE c == b - l
        <5>1. c \in Int /\ 0 =< c /\ c < W /\ b + k = W * 1 + c
          BY <1>1, <2>1, <3>7
        <5> DEFINE q == 1
        <5>2. q \in Int /\ b + k = W * q + c
          BY <5>1
        <5> HIDE DEF c, q
        <5>3. (W * q + c) % W = c
          BY <1>1, <5>1, <5>2, DivisionUnique
        <5> QED
          BY <5>2, <5>3 DEF c
      <4>2. b - l \in Bits /\ b >= l
        BY <1>1, <2>1, <3>7 DEF Bits
      <4> QED
        BY <3>2, <3>3, <3>5, <3>7, <4>1, <4>2, InBitSet
    <3> QED
      BY <3>6, <3>7
  <2> QED
    BY <2>2, <2>3
<1>3. B \in SUBSET Bits
  OBVIOUS
<1> HIDE DEF B
<1>4. BitSet(Rotr(t, k)) = B
  BY <1>2, <1>3, SameBits
<1> QED
  BY <1>4 DEF B

LEMMA ShiftedSigned ==
    ASSUME NEW t \in Words, NEW k \in Bits
    PROVE  BitSet(Sar(t, k)) = {b \in Bits : Min({b + k, W - 1}) \in BitSet(t)}
<1> DEFINE B == {b \in Bits : Min({b + k, W - 1}) \in BitSet(t)}
<1>1. k \in Nat /\ k =< W /\ W \in Nat /\ W >= 4 /\ t \in Int
  BY BitsTyped, Width, WordsTyped
<1>2. ASSUME NEW b \in Bits
      PROVE  Bit(Sar(t, k), b) <=> b \in B
  <2> DEFINE c == IF b + k < W - 1 THEN b + k ELSE W - 1
  <2>1. b \in Nat /\ b + k \in Int /\ W - 1 \in Int
    BY <1>1, BitsTyped
  <2>2. Min({b + k, W - 1}) = c
    BY <2>1, LesserOf
  <2>3. Bit(Sar(t, k), b) <=> Bit(t, c)
    BY <1>1, SarBits
  <2>4. c \in Bits
    BY <1>1, <2>1 DEF Bits
  <2> HIDE DEF c
  <2> QED
    BY <2>2, <2>3, <2>4, InBitSet
<1>3. B \in SUBSET Bits
  OBVIOUS
<1> HIDE DEF B
<1>4. BitSet(Sar(t, k)) = B
  BY <1>2, <1>3, SameBits
<1> QED
  BY <1>4 DEF B

LEMMA SignExtended ==
    ASSUME NEW t \in Words, NEW w \in 1 .. W
    PROVE  BitSet(Reg(as_int(t, w))) = {b \in Bits : Min({b, w - 1}) \in BitSet(t)}
<1> DEFINE B == {b \in Bits : Min({b, w - 1}) \in BitSet(t)}
           x == as_int(t, w)
<1>1. w \in 1 .. 2 * W /\ W \in Nat /\ t \in Int
  BY Width, WordsTyped
<1>2. x \in Int
  BY <1>1, AsIntTyped
<1>3. ASSUME NEW b \in Bits
      PROVE  Bit(Reg(x), b) <=> b \in B
  <2> DEFINE c == IF b < w - 1 THEN b ELSE w - 1
  <2>1. b \in Nat /\ b =< 2 * W /\ b \in Int /\ w - 1 \in Int
    BY <1>1, BitsTyped
  <2>2. Min({b, w - 1}) = c
    BY <2>1, LesserOf
  <2>3. Bit(x, b) <=> Bit(t, c)
    BY <1>1, <2>1, AsIntBits
  <2>4. c \in Bits
    BY <1>1, <2>1 DEF Bits
  <2>5. Bit(Reg(x), b) <=> Bit(x, b)
    <3> HIDE DEF x
    <3> QED
      BY <1>2, RegBits
  <2> HIDE DEF c, x
  <2> QED
    BY <2>2, <2>3, <2>4, <2>5, InBitSet
<1>4. B \in SUBSET Bits
  OBVIOUS
<1> HIDE DEF B, x
<1>5. BitSet(Reg(x)) = B
  BY <1>3, <1>4, SameBits
<1> QED
  BY <1>5 DEF B, x

LEMMA BytesSwapped ==
    ASSUME NEW t \in Words, NEW q \in Nat, q = W \div 4,
           NEW L, L = Number({x \in 0 .. W - 1 : (x \div q) % 2 = 0})
    PROVE  BitSet(Or(And(Shl(t, q), Not(L)), And(Shr(t, q), L))) =
              {b \in Bits : (IF (b \div q) % 2 = 0 THEN b + q ELSE b - q) \in BitSet(t)}
<1> DEFINE Low(b) == (b \div q) % 2 = 0
           lows == {x \in 0 .. W - 1 : Low(x)}
           B == {b \in Bits : (IF Low(b) THEN b + q ELSE b - q) \in BitSet(t)}
           r == Or(And(Shl(t, q), Not(L)), And(Shr(t, q), L))
<1>1. q =< W /\ W \in Nat /\ t \in Int
  BY Width, WordsTyped
<1>2. L \in Words /\ \A b \in Bits : Bit(L, b) <=> Low(b)
  <2>1. lows \in SUBSET (0 .. W - 1) /\ L = Number(lows)
    OBVIOUS
  <2>2. \A b \in Bits : b \in lows <=> Low(b)
    BY DEF Bits
  <2> HIDE DEF lows, Low
  <2>3. L \in Words /\ BitSet(L) = lows
    BY <2>1, NumberBits
  <2> QED
    BY <2>2, <2>3, InBitSet
<1> HIDE DEF Low
<1>3. ASSUME NEW b \in Bits
      PROVE  Bit(r, b) <=> b \in B
  <2>1. b \in Nat /\ b < W
    BY BitsTyped
  <2>2. Bit(Shl(t, q), b) <=> b >= q /\ Bit(t, b - q)
    BY <1>1, ShlBits
  <2>3. Bit(Shr(t, q), b) <=> b + q < W /\ Bit(t, b + q)
    BY <1>1, ShrBits
  <2>4. Bit(Not(L), b) <=> ~Low(b)
    BY <1>2, NotBits
  <2>5. Bit(r, b) <=> Bit(And(Shl(t, q), Not(L)), b) \/ Bit(And(Shr(t, q), L), b)
    BY OrBits
  <2>6. Bit(r, b) <=> (Bit(Shl(t, q), b) /\ ~Low(b)) \/ (Bit(Shr(t, q), b) /\ Low(b))
    BY <1>2, <2>4, <2>5, AndBits
  <2>7. b + q < W <=> b + q \in Bits
    BY <1>1, <2>1 DEF Bits
  <2>8. b >= q <=> b - q \in Bits
    BY <1>1, <2>1 DEF Bits
  <2> HIDE DEF r
  <2> QED
    BY <2>2, <2>3, <2>6, <2>7, <2>8, InBitSet
<1>4. B \in SUBSET Bits
  OBVIOUS
<1> HIDE DEF B, r
<1>5. BitSet(r) = B
  BY <1>3, <1>4, SameBits
<1> QED
  BY <1>5 DEF B, r, Low

LEMMA MaskOf ==
    ASSUME NEW sz \in Bits, sz # W - 1
    PROVE  /\ u32(Pow2[sz + 1]) - 1 \in Int
           /\ \A b \in Bits : Bit(u32(Pow2[sz + 1]) - 1, b) <=> b =< sz
<1> DEFINE j == sz + 1
           p == Pow2[j]
<1>1. j \in Nat /\ j < W /\ j =< W /\ W \in Nat /\ W =< 2 * W /\ 2 * W \in Nat
  BY BitsTyped, Width DEF Bits
<1>2. \A b \in Bits : b < j <=> b =< sz
  BY DEF Bits
<1> HIDE DEF j
<1>3. p \in Positive /\ p \in Int /\ Pow2[W] \in Positive
  BY <1>1, PowersPositive DEF Exponents
<1>4. p < Pow2[W]
  <2>1. W - j - 1 \in Exponents /\ Pow2[W] = p * (2 * Pow2[W - j - 1])
    BY <1>1, HigherPower
  <2> DEFINE h == Pow2[W - j - 1]
  <2>2. h \in Positive /\ h \in Int /\ Pow2[W] = p * (2 * h)
    BY <2>1, PowersPositive
  <2> HIDE DEF h, p
  <2> DEFINE g == 2 * h
  <2>3. g \in Int /\ g >= 2
    BY <2>2 DEF Positive
  <2> HIDE DEF g
  <2>4. p * g >= 2 * p
    BY <1>3, <2>3 DEF Positive
  <2>5. Pow2[W] = p * g
    BY <2>2 DEF g
  <2>6. p >= 1 /\ p \in Int
    BY <1>3 DEF Positive
  <2> DEFINE x == p * g
  <2>7. x \in Int /\ x >= 2 * p /\ Pow2[W] = x
    BY <2>3, <2>4, <2>5, <2>6
  <2> HIDE DEF x
  <2>8. p < x
    BY <2>6, <2>7
  <2> QED
    BY <2>7, <2>8
<1>5. u32(p) = p
  <2>1. 0 =< p
    BY <1>3 DEF Positive
  <2> HIDE DEF p
  <2> QED
    BY <1>3, <1>4, <2>1, DivideSmall DEF u32
<1>6. \A b \in Bits : Bit(p - 1, b) <=> b < j
  BY <1>1, MaskBits
<1>7. p - 1 \in Int
  BY <1>3
<1> QED
  BY <1>2, <1>5, <1>6, <1>7 DEF j

LEMMA FieldExtracted ==
    ASSUME NEW s \in Words, NEW sa \in Bits, NEW sz \in Bits, sz # W - 1,
           NEW m, m = u32(Pow2[sz + 1]) - 1
    PROVE  BitSet(And(Shr(s, sa), m)) = {b \in Bits : b =< sz /\ b + sa \in BitSet(s)}
<1> DEFINE B == {b \in Bits : b =< sz /\ b + sa \in BitSet(s)}
<1>1. \A b \in Bits : Bit(m, b) <=> b =< sz
  BY MaskOf
<1>2. ASSUME NEW b \in Bits
      PROVE  Bit(And(Shr(s, sa), m), b) <=> b \in B
  <2>1. Bit(And(Shr(s, sa), m), b) <=> Bit(Shr(s, sa), b) /\ b =< sz
    BY <1>1, AndBits
  <2>2. b \in BitSet(Shr(s, sa)) <=> b + sa \in BitSet(s)
    BY ShiftedRight
  <2> QED
    BY <2>1, <2>2, InBitSet
<1>3. B \in SUBSET Bits
  OBVIOUS
<1> HIDE DEF B
<1>4. BitSet(And(Shr(s, sa), m)) = B
  BY <1>2, <1>3, SameBits
<1> QED
  BY <1>4 DEF B

LEMMA FieldInserted ==
    ASSUME NEW s \in Words, NEW t \in Words, NEW sa \in Bits, NEW sz \in Bits, sz # W - 1,
           NEW m, m = u32(Pow2[sz + 1]) - 1
    PROVE  BitSet(Or(Shl(And(s, m), sa), And(t, Not(Shl(m, sa))))) =
              {b \in Bits : IF b \in sa .. sa + sz THEN b - sa \in BitSet(s) ELSE b \in BitSet(t)}
<1> DEFINE B == {b \in Bits : IF b \in sa .. sa + sz THEN b - sa \in BitSet(s)
                              ELSE b \in BitSet(t)}
           x == And(s, m)
           y == Shl(m, sa)
           r == Or(Shl(x, sa), And(t, Not(y)))
<1>1. m \in Int /\ \A b \in Bits : Bit(m, b) <=> b =< sz
  BY MaskOf
<1>2. sa \in Nat /\ sa =< W /\ sz \in Nat /\ W \in Nat
  BY BitsTyped
<1>3. x \in Int /\ \A b \in Bits : Bit(x, b) <=> Bit(s, b) /\ b =< sz
  <2>1. ASSUME NEW b \in Bits
        PROVE  x \in Words /\ (Bit(x, b) <=> Bit(s, b) /\ Bit(m, b))
    <3>1. And(s, m) \in Words
      BY AndBits
    <3>2. Bit(And(s, m), b) <=> Bit(s, b) /\ Bit(m, b)
      BY AndBits
    <3> QED
      BY <3>1, <3>2
  <2>2. 0 \in Bits
    BY Width DEF Bits
  <2>3. x \in Words
    BY <2>1, <2>2
  <2> HIDE DEF x
  <2>4. x \in Int
    BY <2>3, WordsTyped
  <2> QED
    BY <1>1, <2>1, <2>4
<1>4. y \in Words /\ \A b \in Bits : Bit(y, b) <=> b >= sa /\ Bit(m, b - sa)
  BY <1>1, <1>2, ShlBits
<1> HIDE DEF x, y
<1>5. \A b \in Bits : Bit(Shl(x, sa), b) <=> b >= sa /\ Bit(x, b - sa)
  BY <1>2, <1>3, ShlBits
<1>6. ASSUME NEW b \in Bits
      PROVE  Bit(r, b) <=> b \in B
  <2>1. b \in Nat /\ b < W
    BY BitsTyped
  <2>2. Bit(r, b) <=> Bit(Shl(x, sa), b) \/ (Bit(t, b) /\ ~Bit(y, b))
    <3>1. Bit(Not(y), b) <=> ~Bit(y, b)
      BY <1>4, NotBits
    <3>2. Bit(And(t, Not(y)), b) <=> Bit(t, b) /\ Bit(Not(y), b)
      BY AndBits
    <3>3. Bit(r, b) <=> Bit(Shl(x, sa), b) \/ Bit(And(t, Not(y)), b)
      BY OrBits
    <3> QED
      BY <3>1, <3>2, <3>3
  <2>3. b >= sa => b - sa \in Bits
    BY <1>2, <2>1 DEF Bits
  <2>4. b \in sa .. sa + sz <=> b >= sa /\ b - sa =< sz
    BY <1>2, <2>1
  <2>5. CASE b >= sa
    <3>1. Bit(Shl(x, sa), b) <=> Bit(s, b - sa) /\ b - sa =< sz
      BY <1>3, <1>5, <2>3, <2>5
    <3>2. Bit(y, b) <=> b - sa =< sz
      BY <1>1, <1>4, <2>3, <2>5
    <3>3. Bit(s, b - sa) <=> b - sa \in BitSet(s)
      BY <2>3, <2>5, InBitSet
    <3>4. Bit(t, b) <=> b \in BitSet(t)
      BY InBitSet
    <3> HIDE DEF r
    <3> QED
      BY <2>2, <2>4, <2>5, <3>1, <3>2, <3>3, <3>4
  <2>6. CASE ~(b >= sa)
    <3>1. ~Bit(Shl(x, sa), b) /\ ~Bit(y, b)
      BY <1>4, <1>5, <2>6
    <3>2. Bit(t, b) <=> b \in BitSet(t)
      BY InBitSet
    <3> HIDE DEF r
    <3> QED
      BY <2>2, <2>4, <2>6, <3>1, <3>2
  <2> QED
    BY <2>5, <2>6
<1>7. B \in SUBSET Bits
  OBVIOUS
<1> HIDE DEF B, r
<1>8. BitSet(r) = B
  BY <1>6, <1>7, SameBits
<1> QED
  BY <1>8 DEF B, r, x, y

\* a word without a bit is zero
LEMMA NoBits ==
    ASSUME NEW n \in Words, BitSet(n) = {}
    PROVE  n = 0
<1>1. \A b \in Bits : ~Bit(n, b)
  BY InBitSet
<1>2. 0 \in Words /\ \A b \in Bits : ~Bit(0, b)
  BY ZeroBits
<1> QED
  BY <1>1, <1>2, WordOfBits

LEMMA GreatestBit ==
    ASSUME NEW S \in SUBSET Bits, S # {}
    PROVE  Max(S) \in S /\ \A y \in S : Max(S) >= y
<1> DEFINE R == {W - 1 - b : b \in S}
<1>1. R \in SUBSET Nat /\ R # {}
  <2>1. ASSUME NEW b \in S
        PROVE  W - 1 - b \in Nat
    <3>1. b \in 0 .. W - 1
      BY DEF Bits
    <3> QED
      BY <3>1, Width
  <2>2. R \in SUBSET Nat
    BY <2>1
  <2> QED
    BY <2>2
<1>2. \E x \in R : \A y \in R : x =< y
  <2> HIDE DEF R
  <2> QED
    BY <1>1, LeastOfSet
<1>3. PICK b \in S : \A y \in R : W - 1 - b =< y
  BY <1>2
<1>4. ASSUME NEW y \in S
      PROVE  b >= y
  <2>1. b \in 0 .. W - 1 /\ y \in 0 .. W - 1
    BY DEF Bits
  <2>2. W - 1 - b =< W - 1 - y
    BY <1>3
  <2> QED
    BY <2>1, <2>2, Width
<1> QED
  BY <1>3, <1>4 DEF Max

LEMMA LeadingZeros ==
    ASSUME NEW n \in Words
    PROVE  /\ BitSet(n) \subseteq 0 .. W - 1 - Clz(n)
           /\ Clz(n) = W \/ W - 1 - Clz(n) \in BitSet(n)
<1>1. CASE n = 0
  <2>1. Clz(n) = W /\ W - 1 - W = -1
    BY <1>1, Width DEF Clz
  <2>2. \A b \in Bits : ~Bit(n, b)
    <3>1. Pow2[0] = 1 /\ n \in Int /\ 0 =< n /\ n < Pow2[0]
      BY <1>1, PowersDefined
    <3> QED
      BY <3>1, BitsTyped, BitsAbove
  <2> QED
    BY <2>1, <2>2, InBitSet
<1>2. CASE n # 0
  <2> DEFINE S == BitSet(n)
  <2>1. S \in SUBSET Bits /\ S # {}
    BY <1>2, NoBits, BitSetTyped
  <2>2. Clz(n) = W - 1 - Max(S)
    BY <1>2 DEF Clz
  <2> HIDE DEF S
  <2>3. Max(S) \in S /\ \A y \in S : Max(S) >= y
    BY <2>1, GreatestBit
  <2>4. W - 1 - Clz(n) = Max(S)
    <3>1. Max(S) \in 0 .. W - 1
      BY <2>1, <2>3 DEF Bits
    <3> QED
      BY <2>2, <3>1, Width
  <2> QED
    BY <2>1, <2>3, <2>4 DEF Bits, S
<1> QED
  BY <1>1, <1>2

-----------------------------------------------------------------------------
(* Sums, products and quotients.                                            *)

\* the words, halved by the sign bit
LEMMA Halves ==
    /\ Pow2[W] \in Int /\ Pow2[W] \in Positive /\ Pow2[W - 1] \in Int /\ Pow2[W - 1] >= 1
    /\ Pow2[W - 1] \in Positive
    /\ Pow2[W] = 2 * Pow2[W - 1]
    /\ W \in 1 .. 2 * W
BY Width, PowersDefined DEF Positive

LEMMA SignedOf ==
    ASSUME NEW n \in Words
    PROVE  /\ as_i32(n) = IF n < Pow2[W - 1] THEN n ELSE n - Pow2[W]
           /\ Sign(n) <=> n >= Pow2[W - 1]
<1> DEFINE h == Pow2[W - 1]
           p == Pow2[W]
<1>1. p \in Int /\ p \in Positive /\ h \in Int /\ h >= 1 /\ h \in Positive /\ p = 2 * h
  BY Halves
<1>2. n \in Int /\ 0 =< n /\ n < p
  BY WordsTyped
<1>3. n % p = n
  <2> HIDE DEF p
  <2> QED
    BY <1>1, <1>2, DivideSmall
<1>4. as_i32(n) = IF n < h THEN n ELSE n - p
  BY <1>3 DEF as_i32, as_int
<1>5. CASE n < h
  <2>1. n \div h = 0
    <3> HIDE DEF h
    <3> QED
      BY <1>1, <1>2, <1>5, DivideSmall
  <2>2. ~Sign(n)
    BY <2>1 DEF Sign, Shr
  <2> HIDE DEF h
  <2>3. ~(n >= h)
    BY <1>1, <1>2, <1>5
  <2> QED
    BY <1>4, <2>2, <2>3 DEF h
<1>6. CASE ~(n < h)
  <2> DEFINE q == 1
             r == n - h
  <2>1. q \in Int /\ q = 1
    OBVIOUS
  <2> HIDE DEF q
  <2>2. r \in Int /\ 0 =< r /\ r < h /\ n = h * q + r
    <3> HIDE DEF h, p
    <3> QED
      BY <1>1, <1>2, <1>6, <2>1
  <2>3. n \div h = q
    <3> HIDE DEF h, r
    <3> QED
      BY <1>1, <2>1, <2>2, DivisionUnique
  <2>4. Sign(n)
    BY <2>1, <2>3 DEF Sign, Shr
  <2> HIDE DEF h
  <2>5. n >= h
    BY <1>1, <1>2, <1>6
  <2> QED
    BY <1>4, <2>4, <2>5 DEF h
<1> QED
  BY <1>5, <1>6

\* what leaves the words by less than their number comes back
LEMMA Wraps ==
    ASSUME NEW n \in Int, -Pow2[W] =< n, n < 2 * Pow2[W]
    PROVE  u32(n) = IF n < 0 THEN n + Pow2[W] ELSE IF n < Pow2[W] THEN n ELSE n - Pow2[W]
<1> DEFINE p == Pow2[W]
           q == IF n < 0 THEN -1 ELSE IF n < p THEN 0 ELSE 1
           r == IF n < 0 THEN n + p ELSE IF n < p THEN n ELSE n - p
<1>1. p \in Int /\ p \in Positive
  BY Halves
<1>2. -p =< n /\ n < 2 * p
  OBVIOUS
<1> HIDE DEF p
<1>3. q \in Int /\ r \in Int /\ 0 =< r /\ r < p /\ n = p * q + r
  BY <1>1, <1>2
<1> HIDE DEF q, r
<1>4. n % p = r
  BY <1>1, <1>3, DivisionUnique
<1> QED
  BY <1>4 DEF u32, p, r

\* the word of a number that fits is that signed number
LEMMA SignedWord ==
    ASSUME NEW n \in Int, Fits(n)
    PROVE  as_i32(u32(n)) = n /\ u32(n) \in Words
<1> DEFINE p == Pow2[W]
           d == n \div p
           m == -d
<1>1. p \in Positive /\ p \in Int /\ W \in 1 .. 2 * W
  BY Halves
<1>2. d \in Int /\ (n % p) \in Int /\ n = p * d + (n % p)
  <2> HIDE DEF p
  <2> QED
    BY <1>1, Division
<1>3. m \in Int /\ u32(n) = n + p * m
  <2> HIDE DEF d
  <2>1. m \in Int /\ p * m = -(p * d)
    BY <1>1, <1>2
  <2>2. n % p = n + p * m
    <3> HIDE DEF m, p
    <3> QED
      BY <1>1, <1>2, <2>1
  <2> QED
    BY <2>1, <2>2 DEF u32
<1>4. as_int(n + p * m, W) = as_int(n, W)
  <2> HIDE DEF m
  <2> QED
    BY <1>1, <1>3, AsIntCongruent
<1>5. as_int(n, W) = n
  BY <1>1, AsIntOfSigned DEF Fits
<1>6. as_i32(u32(n)) = n
  <2> HIDE DEF m
  <2> QED
    BY <1>3, <1>4, <1>5 DEF as_i32
<1> QED
  BY <1>6, u32Bits

\* a sum traps exactly when the signed sum does not fit
LEMMA SumTraps ==
    ASSUME NEW s \in Words, NEW t \in Words
    PROVE  /\ AddOverflows(s, t) <=> ~Fits(as_i32(s) + as_i32(t))
           /\ Fits(as_i32(s) + as_i32(t)) => as_i32(u32(s + t)) = as_i32(s) + as_i32(t)
<1> DEFINE h == Pow2[W - 1]
           p == Pow2[W]
           x == s + t
           u == u32(x)
<1>1. p \in Int /\ h \in Int /\ h >= 1 /\ p = 2 * h
  BY Halves
<1>2. s \in Int /\ 0 =< s /\ s < p /\ t \in Int /\ 0 =< t /\ t < p
  BY WordsTyped
<1>3. /\ as_i32(s) = IF s < h THEN s ELSE s - p
      /\ as_i32(t) = IF t < h THEN t ELSE t - p
      /\ Sign(s) <=> s >= h
      /\ Sign(t) <=> t >= h
  BY SignedOf
<1>4. x \in Int /\ -p =< x /\ x < 2 * p
  <2> HIDE DEF p
  <2> QED
    BY <1>1, <1>2
<1>5. u = IF x < 0 THEN x + p ELSE IF x < p THEN x ELSE x - p
  <2> HIDE DEF x
  <2> QED
    BY <1>4, Wraps
<1>6. u \in Words
  <2> HIDE DEF x
  <2> QED
    BY <1>4, u32Bits
<1>7. /\ as_i32(u) = IF u < h THEN u ELSE u - p
      /\ Sign(u) <=> u >= h
  <2> HIDE DEF u
  <2> QED
    BY <1>6, SignedOf
<1>8. \A n : Fits(n) <=> -h =< n /\ n < h
  BY DEF Fits
<1> DEFINE a == as_i32(s)
           b == as_i32(t)
           c == as_i32(u)
           SS == Sign(s)
           ST == Sign(t)
           SU == Sign(u)
<1>9. AddOverflows(s, t) <=> (SS <=> ST) /\ ~(SU <=> SS)
  BY DEF AddOverflows, Sign
<1>10. Fits(a + b) <=> -h =< a + b /\ a + b < h
  BY <1>8
<1> HIDE DEF h, p, u, a, b, c, SS, ST, SU
<1>11. u = IF x < p THEN x ELSE x - p
  BY <1>2, <1>5
<1>12. /\ a = IF s < h THEN s ELSE s - p
       /\ b = IF t < h THEN t ELSE t - p
       /\ c = IF u < h THEN u ELSE u - p
  BY <1>3, <1>7 DEF a, b, c
<1>13. (SS <=> s >= h) /\ (ST <=> t >= h) /\ (SU <=> u >= h)
  BY <1>3, <1>7 DEF SS, ST, SU
<1>14. ((SS <=> ST) /\ ~(SU <=> SS)) <=> ~(-h =< a + b /\ a + b < h)
  BY <1>1, <1>2, <1>11, <1>12, <1>13
<1>15. -h =< a + b /\ a + b < h => c = a + b
  BY <1>1, <1>2, <1>11, <1>12
<1>16. (AddOverflows(s, t) <=> ~Fits(a + b)) /\ (Fits(a + b) => c = a + b)
  BY <1>9, <1>10, <1>14, <1>15
<1> QED
  BY <1>16 DEF a, b, c, u

LEMMA DifferenceTraps ==
    ASSUME NEW s \in Words, NEW t \in Words
    PROVE  /\ SubOverflows(s, t) <=> ~Fits(as_i32(s) - as_i32(t))
           /\ Fits(as_i32(s) - as_i32(t)) => as_i32(u32(s - t)) = as_i32(s) - as_i32(t)
<1> DEFINE h == Pow2[W - 1]
           p == Pow2[W]
           x == s - t
           u == u32(x)
<1>1. p \in Int /\ h \in Int /\ h >= 1 /\ p = 2 * h
  BY Halves
<1>2. s \in Int /\ 0 =< s /\ s < p /\ t \in Int /\ 0 =< t /\ t < p
  BY WordsTyped
<1>3. /\ as_i32(s) = IF s < h THEN s ELSE s - p
      /\ as_i32(t) = IF t < h THEN t ELSE t - p
      /\ Sign(s) <=> s >= h
      /\ Sign(t) <=> t >= h
  BY SignedOf
<1>4. x \in Int /\ -p =< x /\ x < 2 * p
  <2> HIDE DEF p
  <2> QED
    BY <1>1, <1>2
<1>5. u = IF x < 0 THEN x + p ELSE IF x < p THEN x ELSE x - p
  <2> HIDE DEF x
  <2> QED
    BY <1>4, Wraps
<1>6. u \in Words
  <2> HIDE DEF x
  <2> QED
    BY <1>4, u32Bits
<1>7. /\ as_i32(u) = IF u < h THEN u ELSE u - p
      /\ Sign(u) <=> u >= h
  <2> HIDE DEF u
  <2> QED
    BY <1>6, SignedOf
<1>8. \A n : Fits(n) <=> -h =< n /\ n < h
  BY DEF Fits
<1> DEFINE a == as_i32(s)
           b == as_i32(t)
           c == as_i32(u)
           SS == Sign(s)
           ST == Sign(t)
           SU == Sign(u)
<1>9. SubOverflows(s, t) <=> ~(SS <=> ST) /\ ~(SU <=> SS)
  BY DEF SubOverflows, Sign
<1>10. Fits(a - b) <=> -h =< a - b /\ a - b < h
  BY <1>8
<1> HIDE DEF h, p, u, a, b, c, SS, ST, SU
<1>11. u = IF x < 0 THEN x + p ELSE x
  BY <1>1, <1>2, <1>5
<1>12. /\ a = IF s < h THEN s ELSE s - p
       /\ b = IF t < h THEN t ELSE t - p
       /\ c = IF u < h THEN u ELSE u - p
  BY <1>3, <1>7 DEF a, b, c
<1>13. (SS <=> s >= h) /\ (ST <=> t >= h) /\ (SU <=> u >= h)
  BY <1>3, <1>7 DEF SS, ST, SU
<1>14. (~(SS <=> ST) /\ ~(SU <=> SS)) <=> ~(-h =< a - b /\ a - b < h)
  BY <1>1, <1>2, <1>11, <1>12, <1>13
<1>15. -h =< a - b /\ a - b < h => c = a - b
  BY <1>1, <1>2, <1>11, <1>12
<1>16. (SubOverflows(s, t) <=> ~Fits(a - b)) /\ (Fits(a - b) => c = a - b)
  BY <1>9, <1>10, <1>14, <1>15
<1> QED
  BY <1>16 DEF a, b, c, u

\* HI and LO together hold the double word of a number
LEMMA DoubleWord ==
    ASSUME NEW n \in Int
    PROVE  ((n \div Pow2[W]) % Pow2[W]) * Pow2[W] + (n % Pow2[W]) = n % Pow2[2 * W]
<1> DEFINE p == Pow2[W]
           d == n \div p
           r == n % p
           e == d \div p
           f == d % p
           g == p * p
           c == p * f
           x == c + r
<1>1. p \in Int /\ p \in Positive /\ p >= 1
  BY Halves DEF Positive
<1>2. Pow2[2 * W] = g
  <2>1. W \in Nat /\ W + W = 2 * W
    BY Width
  <2> QED
    BY <2>1, PowersAdd
<1> HIDE DEF p
<1>3. d \in Int /\ r \in Int /\ 0 =< r /\ r < p /\ n = p * d + r
  BY <1>1, Division
<1> HIDE DEF d, r
<1>4. e \in Int /\ f \in Int /\ 0 =< f /\ f < p /\ d = p * e + f
  BY <1>1, <1>3, Division
<1> HIDE DEF e, f
<1>5. g \in Int /\ g >= 1 /\ g \in Positive
  BY <1>1 DEF Positive
<1>6. c \in Int /\ 0 =< c /\ c =< g - p
  <2>1. c \in Int /\ 0 =< c
    BY <1>1, <1>4
  <2> DEFINE k == p - 1 - f
             l == p * k
  <2>2. k \in Int /\ 0 =< k
    BY <1>1, <1>4
  <2>3. l = g - p - c
    BY <1>1, <1>4
  <2> HIDE DEF k
  <2>4. 0 =< l
    BY <1>1, <2>2
  <2> HIDE DEF l, g, c
  <2> QED
    BY <1>1, <1>5, <2>1, <2>3, <2>4
<1>7. n = g * e + x
  <2>1. p * d = g * e + c
    BY <1>1, <1>4
  <2> HIDE DEF g, c
  <2> QED
    BY <1>3, <1>4, <1>5, <1>6, <2>1
<1> HIDE DEF g, c
<1>8. x \in Int /\ 0 =< x /\ x < g
  BY <1>1, <1>3, <1>5, <1>6
<1>9. n % g = x
  <2> HIDE DEF x
  <2> QED
    BY <1>4, <1>5, <1>7, <1>8, DivisionUnique
<1>10. f * p = c
  BY <1>1, <1>4 DEF c
<1>11. f * p + r = n % g
  BY <1>9, <1>10
<1> QED
  BY <1>2, <1>11 DEF p, f, r, d

\* the sum of a signed double word and a number is the sum of the double word
\* and the number, up to a multiple of 2^(2w)
LEMMA SignedAccumulator ==
    ASSUME NEW acc \in Int, NEW n \in Int
    PROVE  /\ as_int(acc, 2 * W) \in Int
           /\ (as_int(acc, 2 * W) + n) % Pow2[2 * W] = (acc + n) % Pow2[2 * W]
<1> DEFINE g == Pow2[2 * W]
           x == as_int(acc, 2 * W)
<1>1. 2 * W \in 1 .. 2 * W
  BY Width
<1>2. x \in Int /\ \E m \in Int : x = acc + g * m
  BY <1>1, AsIntTyped
<1>3. g \in Positive /\ g \in Int
  BY <1>1, PowersPositive DEF Exponents
<1> HIDE DEF g, x
<1>4. PICK m \in Int : x = acc + g * m
  BY <1>2
<1> DEFINE y == g * m
           z == acc + n
<1>5. y \in Int /\ z \in Int /\ x + n = z + g * m
  <2>1. y \in Int /\ x = acc + y
    BY <1>3, <1>4
  <2> HIDE DEF y
  <2>2. x + n = (acc + n) + y
    BY <2>1
  <2> QED
    BY <2>1, <2>2 DEF y
<1> HIDE DEF y, z
<1>6. (z + g * m) % g = z % g
  BY <1>3, <1>5, DivideShifted
<1>7. (x + n) % g = z % g
  BY <1>5, <1>6
<1> QED
  BY <1>2, <1>7 DEF x, g, z

LEMMA MagnitudeTyped ==
    ASSUME NEW n \in Int
    PROVE  Magnitude(n) \in Nat /\ (n # 0 => Magnitude(n) \in Positive)
BY DEF Magnitude, Positive

\* the quotient and the remainder of C++, and when they are words
LEMMA SignedDivision ==
    ASSUME NEW s \in Int, NEW t \in Int, t # 0, Fits(s), Fits(t),
           ~(s = -Pow2[W - 1] /\ t = -1)
    PROVE  LET q == TruncDiv(s, t)   m == TruncMod(s, t)
           IN  /\ q \in Int /\ m \in Int /\ Fits(q) /\ Fits(m)
               /\ s = q * t + m /\ Magnitude(m) < Magnitude(t) /\ m * s >= 0
<1> DEFINE h == Pow2[W - 1]
           a == Magnitude(s)
           b == Magnitude(t)
           c == a \div b
           e == a % b
           q == TruncDiv(s, t)
           m == TruncMod(s, t)
           y == b * c
<1>1. h \in Int /\ h >= 1
  BY Halves
<1>2. -h =< s /\ s < h /\ -h =< t /\ t < h /\ ~(s = -h /\ t = -1)
  BY DEF Fits
<1>3. \A n : Fits(n) <=> -h =< n /\ n < h
  BY DEF Fits
<1>4. a \in Nat /\ b \in Positive /\ b \in Int /\ b >= 1
  BY DEF Magnitude, Positive
<1>5. a = IF s < 0 THEN -s ELSE s
  BY DEF Magnitude
<1>6. b = IF t < 0 THEN -t ELSE t
  BY DEF Magnitude
<1>7. q = IF (s < 0) = (t < 0) THEN c ELSE -c
  BY DEF TruncDiv
<1>8. m = s - t * q
  BY DEF TruncMod
<1> HIDE DEF h, a, b, q, m
<1>9. c \in Int /\ e \in Int /\ 0 =< e /\ e < b /\ a = y + e
  BY <1>4, Division
<1> HIDE DEF c, e
<1>10. c >= 0
  <2>1. CASE c =< -1
    <3>1. y =< -b /\ y \in Int
      BY <1>4, <1>9, <2>1
    <3> HIDE DEF y
    <3> QED
      BY <1>4, <1>9, <3>1
  <2> QED
    BY <1>9, <2>1
<1>11. c =< y /\ y \in Int
  BY <1>4, <1>9, <1>10
<1>12. b >= 2 => 2 * c =< y
  BY <1>4, <1>9, <1>10
<1>13. q \in Int /\ (q = c \/ q = -c)
  BY <1>7, <1>9
\* the signs
<1>14. t * q = IF s < 0 THEN -y ELSE y
  <2>1. CASE s < 0 /\ t < 0
    <3>1. q = c /\ t = -b
      BY <1>4, <1>6, <1>7, <2>1
    <3>2. t * q = -(b * c)
      BY <1>4, <1>9, <3>1
    <3> QED
      BY <2>1, <3>2
  <2>2. CASE s < 0 /\ ~(t < 0)
    <3>1. q = -c /\ t = b
      BY <1>4, <1>6, <1>7, <2>2
    <3>2. t * q = -(b * c)
      BY <1>4, <1>9, <3>1
    <3> QED
      BY <2>2, <3>2
  <2>3. CASE ~(s < 0) /\ t < 0
    <3>1. q = -c /\ t = -b
      BY <1>4, <1>6, <1>7, <2>3
    <3>2. t * q = b * c
      BY <1>4, <1>9, <3>1
    <3> QED
      BY <2>3, <3>2
  <2>4. CASE ~(s < 0) /\ ~(t < 0)
    <3>1. q = c /\ t = b
      BY <1>4, <1>6, <1>7, <2>4
    <3>2. t * q = b * c
      BY <1>4, <1>9, <3>1
    <3> QED
      BY <2>4, <3>2
  <2> QED
    BY <2>1, <2>2, <2>3, <2>4
<1> HIDE DEF y
<1>15. m = IF s < 0 THEN -e ELSE e
  BY <1>5, <1>8, <1>9, <1>11, <1>14
<1>16. m \in Int
  BY <1>9, <1>15
<1>17. Fits(m)
  <2>1. -h =< m /\ m < h
    BY <1>1, <1>2, <1>4, <1>6, <1>9, <1>15
  <2> QED
    BY <1>3, <2>1
<1>18. Fits(q)
  <2>1. c =< a /\ a =< h
    BY <1>1, <1>2, <1>5, <1>9, <1>11
  <2>2. CASE c < h
    <3>1. -h =< q /\ q < h
      BY <1>1, <1>9, <1>10, <1>13, <2>2
    <3> QED
      BY <1>3, <3>1
  <2>3. CASE ~(c < h)
    <3>1. c = h /\ a = h /\ s = -h
      BY <1>1, <1>2, <1>5, <1>9, <2>1, <2>3
    <3>2. b = 1
      BY <1>1, <1>4, <1>9, <1>11, <1>12, <3>1
    <3>3. t = 1
      BY <1>2, <1>6, <3>1, <3>2
    <3>4. q = -c
      BY <1>1, <1>7, <3>1, <3>3
    <3>5. -h =< q /\ q < h
      BY <1>1, <3>1, <3>4
    <3> QED
      BY <1>3, <3>5
  <2> QED
    BY <2>2, <2>3
<1>19. s = q * t + m
  <2> DEFINE z == t * q
  <2>1. z \in Int /\ q * t = z
    BY <1>13
  <2> HIDE DEF z
  <2>2. s = z + m
    BY <1>8, <2>1 DEF z
  <2> QED
    BY <2>1, <2>2
<1>20. Magnitude(m) < b
  BY <1>4, <1>9, <1>15 DEF Magnitude
<1>21. m * s >= 0
  <2>1. CASE s < 0
    <3>1. m = -e /\ s = -a /\ a \in Nat
      BY <1>4, <1>5, <1>15, <2>1
    <3>2. m * s = e * a
      BY <1>9, <3>1
    <3> QED
      BY <1>9, <3>1, <3>2
  <2>2. CASE ~(s < 0)
    <3>1. m = e /\ s >= 0
      BY <1>15, <2>2
    <3> QED
      BY <1>9, <3>1
  <2> QED
    BY <2>1, <2>2
<1>22. /\ q \in Int /\ m \in Int /\ Fits(q) /\ Fits(m)
       /\ s = q * t + m /\ Magnitude(m) < b /\ m * s >= 0
  BY <1>13, <1>16, <1>17, <1>18, <1>19, <1>20, <1>21
<1> QED
  BY <1>22 DEF q, m, b

LEMMA SignedFits ==
    ASSUME NEW n \in Words
    PROVE  as_i32(n) \in Int /\ Fits(as_i32(n)) /\ (as_i32(n) = 0 <=> n = 0)
           /\ (n = Pow2[W - 1] <=> as_i32(n) = -Pow2[W - 1])
<1> DEFINE h == Pow2[W - 1]
           p == Pow2[W]
           x == as_i32(n)
<1>1. p \in Int /\ h \in Int /\ h >= 1 /\ p = 2 * h
  BY Halves
<1>2. n \in Int /\ 0 =< n /\ n < p
  BY WordsTyped
<1>3. x = IF n < h THEN n ELSE n - p
  BY SignedOf
<1>4. Fits(x) <=> -h =< x /\ x < h
  BY DEF Fits
<1> HIDE DEF x, h, p
<1>5. x \in Int /\ -h =< x /\ x < h /\ (x = 0 <=> n = 0) /\ (n = h <=> x = -h)
  BY <1>1, <1>2, <1>3
<1> QED
  BY <1>4, <1>5 DEF x, h

LEMMA UnsignedDivision ==
    ASSUME NEW s \in Words, NEW t \in Words, t # 0
    PROVE  s = (s \div t) * t + (s % t) /\ s % t < t
<1> DEFINE d == s \div t
           r == s % t
<1>1. s \in Int /\ t \in Positive /\ t \in Int
  BY WordsTyped DEF Positive
<1>2. d \in Int /\ r \in Int /\ r < t /\ s = t * d + r
  BY <1>1, Division
<1> HIDE DEF d, r
<1>3. t * d = d * t
  BY <1>1, <1>2
<1>4. s = d * t + r
  BY <1>2, <1>3
<1> QED
  BY <1>2, <1>4 DEF d, r

-----------------------------------------------------------------------------
(* Registers.                                                               *)

\* above its word a register is zero, or all ones
LEMMA RegisterHalves ==
    ASSUME NEW r \in RegisterValues
    PROVE  /\ r \in Int /\ u32(r) \in Words
           /\ r \div Pow2[W] = IF r \in Words THEN 0 ELSE Pow2[W] - 1
<1> DEFINE h == Pow2[W - 1]
           p == Pow2[W]
           pp == Pow2[2 * W]
<1>1. p \in Int /\ p \in Positive /\ h \in Int /\ h >= 1 /\ p = 2 * h
  BY Halves
<1>2. pp = p * p
  <2>1. W \in Nat /\ W + W = 2 * W
    BY Width
  <2> QED
    BY <2>1, PowersAdd
<1>3. r \in Int /\ r \div p = IF r \in Words THEN 0 ELSE p - 1
  <2>1. CASE r \in Words
    <3>1. r \in Int /\ 0 =< r /\ r < p
      BY <2>1, WordsTyped
    <3> HIDE DEF p
    <3> QED
      BY <1>1, <2>1, <3>1, DivideSmall
  <2>2. CASE r \notin Words
    <3>1. PICK n \in -h .. -1 : r = n % pp
      BY <2>2 DEF RegisterValues, Reg
    <3> DEFINE m == -1
               q == p - 1
               c == p + n
               d == pp + n
    <3>2. m \in Int /\ m = -1
      OBVIOUS
    <3> HIDE DEF m
    <3>3. q \in Int /\ c \in Int /\ 0 =< c /\ c < p
      <4> HIDE DEF p, h
      <4> QED
        BY <1>1
    <3>4. p * q + c = d /\ pp \in Int /\ pp >= p
      <4> HIDE DEF p, h, pp
      <4>1. p * p \in Int /\ p * p >= p /\ p * (p - 1) = p * p - p
        BY <1>1
      <4> QED
        BY <1>1, <1>2, <4>1
    <3>5. d \in Int /\ 0 =< d /\ d < pp /\ pp \in Positive /\ n = pp * m + d
      <4> HIDE DEF p, h, pp
      <4> QED
        BY <1>1, <3>2, <3>4 DEF Positive
    <3>6. r = d
      <4> HIDE DEF p, h, pp, d, c, q
      <4>1. (pp * m + d) % pp = d
        BY <3>2, <3>5, DivisionUnique
      <4> QED
        BY <3>1, <3>5, <4>1
    <3>7. r \div p = q
      <4> HIDE DEF p, h, pp, d, c, q
      <4>1. (p * q + c) \div p = q
        BY <1>1, <3>3, DivisionUnique
      <4> QED
        BY <3>4, <3>6, <4>1
    <3> QED
      BY <2>2, <3>5, <3>6, <3>7
  <2> QED
    BY <2>1, <2>2
<1> QED
  BY <1>3, u32Bits

\* alu_read_hi_lo_64bit sees HI, or all ones, above LO
LEMMA ReadAccumulates ==
    ASSUME NEW hi \in RegisterValues, NEW lo \in RegisterValues
    PROVE  ReadHiLo(hi, lo) \in Int /\ ReadHiLo(hi, lo) = Accumulated(hi, lo)
<1> DEFINE p == Pow2[W]
           h == u32(hi)
           l == u32(lo)
           o == p - 1
           seen == IF lo \in Words THEN h ELSE o
<1>1. h \in Words /\ l \in Words /\ lo \div p = IF lo \in Words THEN 0 ELSE o
  BY RegisterHalves
<1>2. o \in Words /\ \A b \in Bits : Bit(o, b)
  <2>1. p \in Int /\ p >= 1 /\ W \in Nat /\ W =< W /\ \A b \in Bits : b < W
    BY Halves, Width, BitsTyped DEF Positive
  <2>2. o \in Words
    BY <2>1 DEF Words
  <2> QED
    BY <2>1, <2>2, MaskBits
<1>3. Or(h, lo \div p) = seen
  <2> HIDE DEF h, o, p
  <2>1. CASE lo \in Words
    <3>1. lo \div p = 0
      BY <1>1, <2>1
    <3>2. \A b \in Bits : Or(h, 0) \in Words /\ (Bit(Or(h, 0), b) <=> Bit(h, b))
      BY OrBits, ZeroBits
    <3>3. 0 \in Bits
      BY Width DEF Bits
    <3>4. Or(h, 0) = h
      BY <1>1, <3>2, <3>3, WordOfBits
    <3> QED
      BY <2>1, <3>1, <3>4
  <2>2. CASE lo \notin Words
    <3>1. lo \div p = o
      BY <1>1, <2>2
    <3>2. \A b \in Bits : Or(h, o) \in Words /\ (Bit(Or(h, o), b) <=> Bit(o, b))
      BY <1>2, OrBits
    <3>3. 0 \in Bits
      BY Width DEF Bits
    <3>4. Or(h, o) = o
      BY <1>2, <3>2, <3>3, WordOfBits
    <3> QED
      BY <2>2, <3>1, <3>4
  <2> QED
    BY <2>1, <2>2
<1>4. ReadHiLo(hi, lo) = seen * p + l /\ Accumulated(hi, lo) = seen * p + l
  <2>1. ReadHiLo(hi, lo) = seen * p + l
    <3>1. ReadHiLo(hi, lo) = Or(h, lo \div p) * p + l
      BY DEF ReadHiLo
    <3> HIDE DEF seen, p, l
    <3> QED
      BY <1>3, <3>1
  <2>2. Accumulated(hi, lo) = seen * p + l
    BY DEF Accumulated
  <2> QED
    BY <2>1, <2>2
<1>5. seen \in Words
  BY <1>1, <1>2
<1> HIDE DEF seen, p, l
<1>6. seen * p + l \in Int
  <2>1. seen \in Int /\ l \in Int /\ p \in Int
    BY <1>1, <1>5, WordsTyped, Halves DEF p
  <2> QED
    BY <2>1
<1> QED
  BY <1>4, <1>6

-----------------------------------------------------------------------------
(* Every operation.                                                         *)

Shifts == {"SLL", "SLLV", "SRL", "SRLV", "ROTR", "ROTRV", "SRA", "SRAV", "LUI", "SEB", "SEH", "WSBH"}

\* the part of AluMatchesReference that is about one operation and its result
Right(op, s, t, sa, sz, hi, lo, r) ==
    LET si == as_i32(s)   ti == as_i32(t)
        acc == Accumulated(hi, lo)   out == r.hi * Pow2[W] + r.lo
        same(n) == out = n % Pow2[2 * W]
    IN  r.undefined \/
        CASE op \in {"SLL", "SLLV", "SRL", "SRLV", "ROTR", "ROTRV", "SRA", "SRAV", "LUI",
                      "SEB", "SEH", "WSBH", "EXT", "INS"} ->
                BitSet(r.val) = {b \in 0 .. W - 1 : SourceBit(op, b, s, t, sa, sz)}
          [] op \in {"ADD", "SUB"} ->
                LET n == IF op = "ADD" THEN si + ti ELSE si - ti
                IN  /\ (r.excause = "OVERFLOW") = ~Fits(n)
                    /\ Fits(n) => as_i32(r.val) = n
          [] op = "MULT"  -> same(si * ti)
          [] op = "MULTU" -> same(s * t)
          [] op = "MADD"  -> same(acc + si * ti)
          [] op = "MADDU" -> same(acc + s * t)
          [] op = "MSUB"  -> same(acc - si * ti)
          [] op = "MSUBU" -> same(acc - s * t)
          [] op = "DIV" /\ ti # 0 ->
                LET q == as_i32(r.lo)   m == as_i32(r.hi)
                IN  si = q * ti + m /\ Magnitude(m) < Magnitude(ti) /\ m * si >= 0
          [] op = "DIVU" /\ ti # 0 -> s = r.lo * t + r.hi /\ r.hi < t
          [] op \in {"CLZ", "CLO"} ->
                LET bs == BitSet(IF op = "CLZ" THEN s ELSE Not(s))
                IN  bs \subseteq 0 .. W - 1 - r.val /\ (r.val = W \/ W - 1 - r.val \in bs)
          [] OTHER -> TRUE

LEMMA ValueResult ==
    ASSUME NEW op \in ValueOps, NEW s, NEW t, NEW sa, NEW sz, NEW hi, NEW lo
    PROVE  LET r == OnWords(op, s, t, sa, sz, hi, lo)
           IN  /\ r.val = ValueOf(op, s, t, sa)
               /\ r.excause = IF \/ op = "ADD" /\ AddOverflows(s, t)
                                 \/ op = "SUB" /\ SubOverflows(s, t)
                              THEN "OVERFLOW" ELSE "NONE"
<1> DEFINE v == ValueOf(op, s, t, sa)
           e == IF \/ op = "ADD" /\ AddOverflows(s, t)
                   \/ op = "SUB" /\ SubOverflows(s, t)
                THEN "OVERFLOW" ELSE "NONE"
           r == [Result(v, hi, lo) EXCEPT !.excause = e]
<1>1. OnWords(op, s, t, sa, sz, hi, lo) = r
  <2>1. op \notin HiLoOps /\ op \notin TrapOps /\ op \notin {"EXT", "INS"}
    BY DEF ValueOps, HiLoOps, TrapOps
  <2> QED
    BY <2>1 DEF OnWords
<1> HIDE DEF v, e
<1>2. r.val = v /\ r.excause = e
  BY DEF Result
<1> HIDE DEF r
<1> QED
  BY <1>1, <1>2 DEF v, e

\* the fields of a result on HI and LO
LEMMA ResultFields ==
    ASSUME NEW v, NEW hi, NEW lo
    PROVE  Result(v, hi, lo).hi = hi /\ Result(v, hi, lo).lo = lo
           /\ Undefined(Result(v, hi, lo)).undefined
BY DEF Result, Undefined

LEMMA HiLoResult ==
    ASSUME NEW n \in Int
    PROVE  HiLo(n).hi * Pow2[W] + HiLo(n).lo = n % Pow2[2 * W]
<1>1. HiLo(n).hi = (n \div Pow2[W]) % Pow2[W] /\ HiLo(n).lo = n % Pow2[W]
  BY ResultFields DEF HiLo
<1> QED
  BY <1>1, DoubleWord

LEMMA ShiftAmount ==
    ASSUME NEW s \in Words
    PROVE  s % W \in Bits
<1>1. W \in Positive /\ W \in Nat /\ s \in Int
  BY Width, WordsTyped DEF Positive
<1>2. s % W \in Int /\ 0 =< s % W /\ s % W < W
  BY <1>1, Division
<1> QED
  BY <1>1, <1>2 DEF Bits

LEMMA Parts ==
    /\ W \div 4 \in 1 .. W /\ W \div 2 \in 1 .. W /\ W \div 2 \in Bits /\ W \div 4 \in Nat
    /\ W \div 2 = 2 * (W \div 4)
BY Width DEF Bits

LEMMA ShiftsRight ==
    ASSUME NEW op \in Shifts, NEW s \in Words, NEW t \in Words, NEW sa \in Bits, NEW sz \in Bits
    PROVE  BitSet(ValueOf(op, s, t, sa)) = {b \in Bits : SourceBit(op, b, s, t, sa, sz)}
<1> DEFINE v == ValueOf(op, s, t, sa)
           B(b) == SourceBit(op, b, s, t, sa, sz)
           T == BitSet(t)
<1>1. CASE op \in {"SLL", "SRL", "ROTR", "SRA"}
  <2>1. CASE op = "SLL"
    <3>1. v = Shl(t, sa)
      BY <2>1 DEF ValueOf
    <3>2. \A b \in Bits : B(b) <=> b >= sa /\ b - sa \in T
      BY <2>1 DEF SourceBit
    <3> QED
      BY <3>1, <3>2, ShiftedLeft
  <2>2. CASE op = "SRL"
    <3>1. v = Shr(t, sa)
      BY <2>2 DEF ValueOf
    <3>2. \A b \in Bits : B(b) <=> b + sa \in T
      BY <2>2 DEF SourceBit
    <3> QED
      BY <3>1, <3>2, ShiftedRight
  <2>3. CASE op = "ROTR"
    <3>1. v = Rotr(t, sa)
      BY <2>3 DEF ValueOf
    <3>2. \A b \in Bits : B(b) <=> (b + sa) % W \in T
      BY <2>3 DEF SourceBit
    <3> QED
      BY <3>1, <3>2, RotatedRight
  <2>4. CASE op = "SRA"
    <3>1. v = Sar(t, sa)
      BY <2>4 DEF ValueOf
    <3>2. \A b \in Bits : B(b) <=> Min({b + sa, W - 1}) \in T
      BY <2>4 DEF SourceBit
    <3> QED
      BY <3>1, <3>2, ShiftedSigned
  <2> QED
    BY <1>1, <2>1, <2>2, <2>3, <2>4
<1>2. CASE op \in {"SLLV", "SRLV", "ROTRV", "SRAV"}
  <2> DEFINE k == s % W
  <2>0. k \in Bits
    BY ShiftAmount
  <2>1. CASE op = "SLLV"
    <3>1. v = Shl(t, k)
      BY <2>1 DEF ValueOf
    <3>2. \A b \in Bits : B(b) <=> b >= k /\ b - k \in T
      BY <2>1 DEF SourceBit
    <3> HIDE DEF k
    <3> QED
      BY <2>0, <3>1, <3>2, ShiftedLeft
  <2>2. CASE op = "SRLV"
    <3>1. v = Shr(t, k)
      BY <2>2 DEF ValueOf
    <3>2. \A b \in Bits : B(b) <=> b + k \in T
      BY <2>2 DEF SourceBit
    <3> HIDE DEF k
    <3> QED
      BY <2>0, <3>1, <3>2, ShiftedRight
  <2>3. CASE op = "ROTRV"
    <3>1. v = Rotr(t, k)
      BY <2>3 DEF ValueOf
    <3>2. \A b \in Bits : B(b) <=> (b + k) % W \in T
      BY <2>3 DEF SourceBit
    <3> HIDE DEF k
    <3> QED
      BY <2>0, <3>1, <3>2, RotatedRight
  <2>4. CASE op = "SRAV"
    <3>1. v = Sar(t, k)
      BY <2>4 DEF ValueOf
    <3>2. \A b \in Bits : B(b) <=> Min({b + k, W - 1}) \in T
      BY <2>4 DEF SourceBit
    <3> HIDE DEF k
    <3> QED
      BY <2>0, <3>1, <3>2, ShiftedSigned
  <2> QED
    BY <1>2, <2>1, <2>2, <2>3, <2>4
<1>3. CASE op = "LUI"
  <2> DEFINE k == W \div 2
  <2>1. v = Shl(t, k)
    BY <1>3 DEF ValueOf
  <2>2. \A b \in Bits : B(b) <=> b >= k /\ b - k \in T
    BY <1>3 DEF SourceBit
  <2>3. k \in Bits
    BY Parts
  <2> HIDE DEF k
  <2> QED
    BY <2>1, <2>2, <2>3, ShiftedLeft
<1>4. CASE op = "SEB"
  <2> DEFINE w == W \div 4
  <2>1. v = Reg(as_int(t, w))
    BY <1>4 DEF ValueOf
  <2>2. \A b \in Bits : B(b) <=> Min({b, w - 1}) \in T
    BY <1>4 DEF SourceBit
  <2>3. w \in 1 .. W
    BY Parts
  <2> HIDE DEF w
  <2> QED
    BY <2>1, <2>2, <2>3, SignExtended
<1>5. CASE op = "SEH"
  <2> DEFINE w == W \div 2
  <2>1. v = Reg(as_int(t, w))
    BY <1>5 DEF ValueOf
  <2>2. \A b \in Bits : B(b) <=> Min({b, 2 * (W \div 4) - 1}) \in T
    BY <1>5 DEF SourceBit
  <2>3. w \in 1 .. W /\ 2 * (W \div 4) = w
    BY Parts
  <2> HIDE DEF w
  <2> QED
    BY <2>1, <2>2, <2>3, SignExtended
<1>6. CASE op = "WSBH"
  <2> DEFINE q == W \div 4
             L == Number({x \in 0 .. W - 1 : (x \div q) % 2 = 0})
  <2>1. v = Or(And(Shl(t, q), Not(L)), And(Shr(t, q), L))
    BY <1>6 DEF ValueOf, Shl, Shr
  <2>2. \A b \in Bits : B(b) <=> (IF (b \div q) % 2 = 0 THEN b + q ELSE b - q) \in T
    BY <1>6 DEF SourceBit
  <2>3. q \in Nat /\ q = W \div 4
    BY Parts
  <2>4. BitSet(v) = {b \in Bits : (IF (b \div q) % 2 = 0 THEN b + q ELSE b - q) \in T}
    BY <2>1, <2>3, BytesSwapped
  <2> QED
    BY <2>2, <2>4
<1> QED
  BY <1>1, <1>2, <1>3, <1>4, <1>5, <1>6 DEF Shifts

LEMMA SumsRight ==
    ASSUME NEW op \in {"ADD", "SUB"}, NEW s \in Words, NEW t \in Words, NEW sa, NEW sz,
           NEW hi, NEW lo, NEW r, r = OnWords(op, s, t, sa, sz, hi, lo)
    PROVE  LET n == IF op = "ADD" THEN as_i32(s) + as_i32(t) ELSE as_i32(s) - as_i32(t)
           IN  /\ (r.excause = "OVERFLOW") = ~Fits(n)
               /\ Fits(n) => as_i32(r.val) = n
<1>1. op \in ValueOps
  BY DEF ValueOps
<1>2. /\ r.val = ValueOf(op, s, t, sa)
      /\ r.excause = IF \/ op = "ADD" /\ AddOverflows(s, t)
                        \/ op = "SUB" /\ SubOverflows(s, t)
                     THEN "OVERFLOW" ELSE "NONE"
  BY <1>1, ValueResult
<1>3. CASE op = "ADD"
  <2>1. r.val = u32(s + t)
    BY <1>2, <1>3 DEF ValueOf
  <2>2. r.excause = IF AddOverflows(s, t) THEN "OVERFLOW" ELSE "NONE"
    BY <1>2, <1>3
  <2> DEFINE n == as_i32(s) + as_i32(t)
  <2>3. (AddOverflows(s, t) <=> ~Fits(n)) /\ (Fits(n) => as_i32(u32(s + t)) = n)
    BY SumTraps
  <2> HIDE DEF n
  <2>4. ((r.excause = "OVERFLOW") = ~Fits(n)) /\ (Fits(n) => as_i32(r.val) = n)
    BY <2>1, <2>2, <2>3 DEF Fits
  <2> QED
    BY <1>3, <2>4 DEF n
<1>4. CASE op = "SUB"
  <2>1. r.val = u32(s - t)
    BY <1>2, <1>4 DEF ValueOf
  <2>2. r.excause = IF SubOverflows(s, t) THEN "OVERFLOW" ELSE "NONE"
    BY <1>2, <1>4
  <2> DEFINE n == as_i32(s) - as_i32(t)
  <2>3. (SubOverflows(s, t) <=> ~Fits(n)) /\ (Fits(n) => as_i32(u32(s - t)) = n)
    BY DifferenceTraps
  <2> HIDE DEF n
  <2>4. ((r.excause = "OVERFLOW") = ~Fits(n)) /\ (Fits(n) => as_i32(r.val) = n)
    BY <2>1, <2>2, <2>3 DEF Fits
  <2> QED
    BY <1>4, <2>4 DEF n
<1> QED
  BY <1>3, <1>4

\* the operations on HI and LO go to HiLoOf
LEMMA HiLoOperate ==
    ASSUME NEW op \in HiLoOps, NEW s, NEW t, NEW sa, NEW sz, NEW hi, NEW lo
    PROVE  OnWords(op, s, t, sa, sz, hi, lo) = HiLoOf(op, s, t, hi, lo)
<1>1. op \notin ValueOps /\ op \notin TrapOps /\ op \notin {"EXT", "INS"}
  BY DEF ValueOps, HiLoOps, TrapOps
<1> QED
  BY <1>1 DEF OnWords

Holds(r, n) == r.hi * Pow2[W] + r.lo = n % Pow2[2 * W]

LEMMA ProductsRight ==
    ASSUME NEW op, NEW s \in Words, NEW t \in Words, NEW hi \in RegisterValues,
           NEW lo \in RegisterValues
    PROVE  LET r == HiLoOf(op, s, t, hi, lo)
               acc == Accumulated(hi, lo)
               product == as_i32(s) * as_i32(t)
           IN  /\ op = "MULT"  => Holds(r, product)
               /\ op = "MULTU" => Holds(r, s * t)
               /\ op = "MADD"  => r.undefined \/ Holds(r, acc + product)
               /\ op = "MADDU" => Holds(r, acc + s * t)
               /\ op = "MSUB"  => r.undefined \/ Holds(r, acc - product)
               /\ op = "MSUBU" => Holds(r, acc - s * t)
<1> DEFINE r == HiLoOf(op, s, t, hi, lo)
           acc == ReadHiLo(hi, lo)
           product == as_i32(s) * as_i32(t)
           unsigned == s * t
           sacc == as_int(acc, 2 * W)
           signed(n) == IF n = as_int(n, 2 * W) THEN HiLo(n) ELSE Undefined(HiLo(n))
<1>1. s \in Int /\ t \in Int /\ as_i32(s) \in Int /\ as_i32(t) \in Int
  BY WordsTyped, SignedFits
<1>0. acc \in Int /\ acc = Accumulated(hi, lo)
  BY ReadAccumulates
<1>2. acc \in Int /\ product \in Int /\ unsigned \in Int
  <2> HIDE DEF acc
  <2> QED
    BY <1>0, <1>1
<1>3. \A n \in Int : Holds(HiLo(n), n)
  BY HiLoResult DEF Holds
<1>4. /\ op = "MULT"  => r = HiLo(product)
      /\ op = "MULTU" => r = HiLo(unsigned)
      /\ op = "MADDU" => r = HiLo(acc + unsigned)
      /\ op = "MSUBU" => r = HiLo(acc - unsigned)
      /\ op = "MADD"  => r = signed(sacc + product)
      /\ op = "MSUB"  => r = signed(sacc - product)
  <2>1. op = "MULT"  => r = HiLo(product)
    BY DEF HiLoOf
  <2>2. op = "MULTU" => r = HiLo(unsigned)
    BY DEF HiLoOf
  <2>3. op = "MADDU" => r = HiLo(acc + unsigned)
    BY DEF HiLoOf
  <2>4. op = "MSUBU" => r = HiLo(acc - unsigned)
    BY DEF HiLoOf
  <2>5. op = "MADD"  => r = signed(sacc + product)
    BY DEF HiLoOf
  <2>6. op = "MSUB"  => r = signed(sacc - product)
    BY DEF HiLoOf
  <2> QED
    BY <2>1, <2>2, <2>3, <2>4, <2>5, <2>6
<1>5. \A n : signed(n).undefined \/ signed(n) = HiLo(n)
  BY ResultFields DEF HiLo
<1>6. ASSUME NEW n \in Int
      PROVE  sacc \in Int /\ (sacc + n) % Pow2[2 * W] = (acc + n) % Pow2[2 * W]
  <2> HIDE DEF acc
  <2> QED
    BY <1>2, SignedAccumulator
<1> HIDE DEF r, acc, product, unsigned, sacc, signed
<1>7. op = "MULT" => Holds(r, product)
  BY <1>2, <1>3, <1>4
<1>8. op = "MULTU" => Holds(r, unsigned)
  BY <1>2, <1>3, <1>4
<1>9. op = "MADDU" => Holds(r, acc + unsigned)
  <2>1. acc + unsigned \in Int
    BY <1>2
  <2> QED
    BY <1>3, <1>4, <2>1
<1>10. op = "MSUBU" => Holds(r, acc - unsigned)
  <2>1. acc - unsigned \in Int
    BY <1>2
  <2> QED
    BY <1>3, <1>4, <2>1
<1>11. op = "MADD" => r.undefined \/ Holds(r, acc + product)
  <2> DEFINE n == sacc + product
  <2>1. n \in Int /\ n % Pow2[2 * W] = (acc + product) % Pow2[2 * W]
    BY <1>2, <1>6
  <2>2. op = "MADD" => r = signed(n)
    BY <1>4
  <2> HIDE DEF n
  <2>3. Holds(HiLo(n), n)
    BY <1>3, <2>1
  <2>4. Holds(HiLo(n), acc + product)
    BY <2>1, <2>3 DEF Holds
  <2> QED
    BY <1>5, <2>2, <2>4
<1>12. op = "MSUB" => r.undefined \/ Holds(r, acc - product)
  <2> DEFINE n == sacc - product
             m == -product
  <2>1. m \in Int /\ sacc + m = n /\ acc + m = acc - product /\ n \in Int
    BY <1>2, <1>6
  <2> HIDE DEF m
  <2>2. n % Pow2[2 * W] = (acc - product) % Pow2[2 * W]
    BY <1>6, <2>1
  <2>3. op = "MSUB" => r = signed(n)
    BY <1>4
  <2> HIDE DEF n
  <2>4. Holds(HiLo(n), n)
    BY <1>3, <2>1
  <2>5. Holds(HiLo(n), acc - product)
    BY <2>2, <2>4 DEF Holds
  <2> QED
    BY <1>5, <2>3, <2>5
<1>13. /\ op = "MULT"  => Holds(r, product)
       /\ op = "MULTU" => Holds(r, unsigned)
       /\ op = "MADD"  => r.undefined \/ Holds(r, acc + product)
       /\ op = "MADDU" => Holds(r, acc + unsigned)
       /\ op = "MSUB"  => r.undefined \/ Holds(r, acc - product)
       /\ op = "MSUBU" => Holds(r, acc - unsigned)
  BY <1>7, <1>8, <1>9, <1>10, <1>11, <1>12
<1> HIDE DEF acc
<1> QED
  BY <1>0, <1>13 DEF r, product, unsigned

LEMMA QuotientsRight ==
    ASSUME NEW op, NEW s \in Words, NEW t \in Words, NEW hi, NEW lo, as_i32(t) # 0
    PROVE  LET r == HiLoOf(op, s, t, hi, lo)
               si == as_i32(s)   ti == as_i32(t)
               q == as_i32(r.lo)   m == as_i32(r.hi)
           IN  /\ op = "DIV" => \/ r.undefined
                                \/ si = q * ti + m /\ Magnitude(m) < Magnitude(ti) /\ m * si >= 0
               /\ op = "DIVU" => s = r.lo * t + r.hi /\ r.hi < t
<1> DEFINE r == HiLoOf(op, s, t, hi, lo)
           si == as_i32(s)
           ti == as_i32(t)
           q == TruncDiv(si, ti)
           m == TruncMod(si, ti)
           bad == s = Pow2[W - 1] /\ ti = -1
           res == Result(0, u32(m), u32(q))
<1>1. t # 0
  BY SignedFits
<1>2. si \in Int /\ ti \in Int /\ Fits(si) /\ Fits(ti) /\ (s = Pow2[W - 1] <=> si = -Pow2[W - 1])
  BY SignedFits
<1>3. op = "DIV" => r = IF bad THEN Undefined(res) ELSE res
  BY <1>1 DEF HiLoOf
<1>4. op = "DIVU" => r = Result(0, s % t, s \div t)
  BY <1>1 DEF HiLoOf
<1>5. bad => Undefined(res).undefined
  BY ResultFields
<1>6. res.hi = u32(m) /\ res.lo = u32(q)
  BY ResultFields
<1>7. ~bad => /\ q \in Int /\ m \in Int /\ Fits(q) /\ Fits(m)
              /\ si = q * ti + m /\ Magnitude(m) < Magnitude(ti) /\ m * si >= 0
  <2> SUFFICES ASSUME ~bad
               PROVE  /\ q \in Int /\ m \in Int /\ Fits(q) /\ Fits(m)
                      /\ si = q * ti + m /\ Magnitude(m) < Magnitude(ti) /\ m * si >= 0
    OBVIOUS
  <2>1. ti # 0 /\ ~(si = -Pow2[W - 1] /\ ti = -1)
    BY <1>2
  <2> HIDE DEF si, ti
  <2> QED
    BY <1>2, <2>1, SignedDivision
<1> HIDE DEF q, m
<1>8. ~bad => as_i32(u32(q)) = q /\ as_i32(u32(m)) = m
  BY <1>7, SignedWord
<1>9. op = "DIV" => \/ r.undefined
                    \/ /\ si = as_i32(r.lo) * ti + as_i32(r.hi)
                       /\ Magnitude(as_i32(r.hi)) < Magnitude(ti)
                       /\ as_i32(r.hi) * si >= 0
  <2>1. CASE bad
    <3> HIDE DEF bad, r, res
    <3> QED
      BY <1>3, <1>5, <2>1
  <2>2. CASE ~bad
    <3>1. op = "DIV" => r.hi = u32(m) /\ r.lo = u32(q)
      <4> HIDE DEF bad, r, res
      <4> QED
        BY <1>3, <1>6, <2>2
    <3>2. op = "DIV" => as_i32(r.hi) = m /\ as_i32(r.lo) = q
      <4> HIDE DEF bad, r, res
      <4> QED
        BY <1>8, <2>2, <3>1
    <3> HIDE DEF bad, r, res
    <3> QED
      BY <1>7, <2>2, <3>2
  <2> QED
    BY <2>1, <2>2
<1>10. op = "DIVU" => s = r.lo * t + r.hi /\ r.hi < t
  <2>1. op = "DIVU" => r.hi = s % t /\ r.lo = s \div t
    <3> DEFINE x == s % t
               y == s \div t
    <3>1. Result(0, x, y).hi = x /\ Result(0, x, y).lo = y
      <4> HIDE DEF x, y
      <4> QED
        BY ResultFields
    <3> HIDE DEF r
    <3> QED
      BY <1>4, <3>1
  <2> HIDE DEF r
  <2> QED
    BY <1>1, <2>1, UnsignedDivision
<1> QED
  BY <1>9, <1>10 DEF q, m

LEMMA CountsRight ==
    ASSUME NEW op \in {"CLZ", "CLO"}, NEW s \in Words, NEW t, NEW sa, NEW sz,
           NEW hi, NEW lo, NEW r, r = OnWords(op, s, t, sa, sz, hi, lo)
    PROVE  LET bs == BitSet(IF op = "CLZ" THEN s ELSE Not(s))
           IN  bs \subseteq 0 .. W - 1 - r.val /\ (r.val = W \/ W - 1 - r.val \in bs)
<1> DEFINE n == IF op = "CLZ" THEN s ELSE Not(s)
<1>1. op \in ValueOps
  BY DEF ValueOps
<1>2. r.val = ValueOf(op, s, t, sa)
  BY <1>1, ValueResult
<1>3. r.val = Clz(n)
  BY <1>2 DEF ValueOf
<1>4. Not(s) \in Words
  <2>1. 0 \in Bits
    BY Width DEF Bits
  <2> QED
    BY <2>1, NotBits
<1>5. n \in Words
  BY <1>4
<1> HIDE DEF n
<1>6. /\ BitSet(n) \subseteq 0 .. W - 1 - Clz(n)
      /\ Clz(n) = W \/ W - 1 - Clz(n) \in BitSet(n)
  BY <1>5, LeadingZeros
<1>7. BitSet(n) \subseteq 0 .. W - 1 - r.val /\ (r.val = W \/ W - 1 - r.val \in BitSet(n))
  BY <1>3, <1>6
<1> QED
  BY <1>7 DEF n

LEMMA FieldsRight ==
    ASSUME NEW op \in {"EXT", "INS"}, NEW s \in Words, NEW t \in Words,
           NEW sa \in Bits, NEW sz \in Bits, NEW hi, NEW lo,
           NEW r, r = OnWords(op, s, t, sa, sz, hi, lo)
    PROVE  r.undefined \/ BitSet(r.val) = {b \in Bits : SourceBit(op, b, s, t, sa, sz)}
<1> DEFINE mask == u32(Pow2[sz + 1]) - 1
           v == IF op = "EXT" THEN And(Shr(s, sa), mask)
                ELSE Or(Shl(And(s, mask), sa), And(t, Not(Shl(mask, sa))))
           res == Result(v, hi, lo)
<1>1. op \notin ValueOps /\ op \notin HiLoOps /\ op \notin TrapOps
  BY DEF ValueOps, HiLoOps, TrapOps
<1>2. r = ExtInsOf(op, s, t, sa, sz, hi, lo)
  BY <1>1 DEF OnWords
<1>3. r = IF sz = W - 1 THEN Undefined([res EXCEPT !.val = 0]) ELSE res
  BY <1>2 DEF ExtInsOf
<1>4. CASE sz = W - 1
  <2> HIDE DEF v
  <2>1. Undefined([res EXCEPT !.val = 0]).undefined
    BY DEF Undefined, Result
  <2> QED
    BY <1>3, <1>4, <2>1
<1>5. CASE sz # W - 1
  <2>1. r.val = v
    <3> HIDE DEF v
    <3>1. res.val = v
      BY DEF Result
    <3> QED
      BY <1>3, <1>5, <3>1
  <2>2. CASE op = "EXT"
    <3>1. v = And(Shr(s, sa), mask)
      BY <2>2
    <3>2. BitSet(And(Shr(s, sa), mask)) = {b \in Bits : b =< sz /\ b + sa \in BitSet(s)}
      BY <1>5, FieldExtracted
    <3>3. \A b \in Bits : SourceBit(op, b, s, t, sa, sz) <=> b =< sz /\ b + sa \in BitSet(s)
      BY <2>2 DEF SourceBit
    <3> HIDE DEF v, mask
    <3> QED
      BY <2>1, <3>1, <3>2, <3>3
  <2>3. CASE op = "INS"
    <3> DEFINE x == Or(Shl(And(s, mask), sa), And(t, Not(Shl(mask, sa))))
    <3>1. v = x
      BY <2>3
    <3>2. BitSet(x) = {b \in Bits : IF b \in sa .. sa + sz THEN b - sa \in BitSet(s)
                                    ELSE b \in BitSet(t)}
      BY <1>5, FieldInserted
    <3>3. \A b \in Bits : SourceBit(op, b, s, t, sa, sz) <=>
                             IF b \in sa .. sa + sz THEN b - sa \in BitSet(s) ELSE b \in BitSet(t)
      BY <2>3 DEF SourceBit
    <3> HIDE DEF v, x
    <3> QED
      BY <2>1, <3>1, <3>2, <3>3
  <2> QED
    BY <2>2, <2>3
<1> QED
  BY <1>4, <1>5

LEMMA OnWordsRight ==
    ASSUME NEW op, NEW s \in Words, NEW t \in Words, NEW sa \in Bits, NEW sz \in Bits,
           NEW hi \in RegisterValues, NEW lo \in RegisterValues
    PROVE  Right(op, s, t, sa, sz, hi, lo, OnWords(op, s, t, sa, sz, hi, lo))
<1> DEFINE r == OnWords(op, s, t, sa, sz, hi, lo)
           Good == Right(op, s, t, sa, sz, hi, lo, r)
<1>1. CASE op \in Shifts
  <2>1. op \in ValueOps
    BY <1>1 DEF Shifts, ValueOps
  <2>2. r.val = ValueOf(op, s, t, sa)
    BY <2>1, ValueResult
  <2>3. BitSet(r.val) = {b \in Bits : SourceBit(op, b, s, t, sa, sz)}
    BY <1>1, <2>2, ShiftsRight
  <2> HIDE DEF r
  <2>4. Good
    BY <1>1, <2>3 DEF Right, Shifts, Bits
  <2> QED
    BY <2>4 DEF r
<1>2. CASE op \in {"EXT", "INS"}
  <2>1. r.undefined \/ BitSet(r.val) = {b \in Bits : SourceBit(op, b, s, t, sa, sz)}
    BY <1>2, FieldsRight
  <2> HIDE DEF r
  <2>2. Good
    BY <1>2, <2>1 DEF Right, Bits
  <2> QED
    BY <2>2 DEF r
<1>3. CASE op \in {"ADD", "SUB"}
  <2> DEFINE n == IF op = "ADD" THEN as_i32(s) + as_i32(t) ELSE as_i32(s) - as_i32(t)
  <2>1. ((r.excause = "OVERFLOW") = ~Fits(n)) /\ (Fits(n) => as_i32(r.val) = n)
    BY <1>3, SumsRight
  <2> HIDE DEF r
  <2>2. Good
    BY <1>3, <2>1 DEF Right
  <2> QED
    BY <2>2 DEF r
<1>4. CASE op \in {"MULT", "MULTU", "MADD", "MADDU", "MSUB", "MSUBU"}
  <2> DEFINE acc == Accumulated(hi, lo)
             product == as_i32(s) * as_i32(t)
  <2>1. op \in HiLoOps
    BY <1>4 DEF HiLoOps
  <2>2. r = HiLoOf(op, s, t, hi, lo)
    BY <2>1, HiLoOperate
  <2>3. /\ op = "MULT"  => Holds(r, product)
        /\ op = "MULTU" => Holds(r, s * t)
        /\ op = "MADD"  => r.undefined \/ Holds(r, acc + product)
        /\ op = "MADDU" => Holds(r, acc + s * t)
        /\ op = "MSUB"  => r.undefined \/ Holds(r, acc - product)
        /\ op = "MSUBU" => Holds(r, acc - s * t)
    BY <2>2, ProductsRight
  <2> HIDE DEF r
  <2>4. ASSUME op = "MULT" PROVE Good
    BY <2>3, <2>4 DEF Right, Holds
  <2>5. ASSUME op = "MULTU" PROVE Good
    BY <2>3, <2>5 DEF Right, Holds
  <2>6. ASSUME op = "MADD" PROVE Good
    BY <2>3, <2>6 DEF Right, Holds
  <2>7. ASSUME op = "MADDU" PROVE Good
    BY <2>3, <2>7 DEF Right, Holds
  <2>8. ASSUME op = "MSUB" PROVE Good
    BY <2>3, <2>8 DEF Right, Holds
  <2>9. ASSUME op = "MSUBU" PROVE Good
    BY <2>3, <2>9 DEF Right, Holds
  <2>10. Good
    BY <1>4, <2>4, <2>5, <2>6, <2>7, <2>8, <2>9
  <2> QED
    BY <2>10 DEF r
<1>5. CASE op \in {"DIV", "DIVU"} /\ as_i32(t) # 0
  <2>1. op \in HiLoOps
    BY <1>5 DEF HiLoOps
  <2>2. r = HiLoOf(op, s, t, hi, lo)
    BY <2>1, HiLoOperate
  <2>3. /\ op = "DIV" => \/ r.undefined
                         \/ /\ as_i32(s) = as_i32(r.lo) * as_i32(t) + as_i32(r.hi)
                            /\ Magnitude(as_i32(r.hi)) < Magnitude(as_i32(t))
                            /\ as_i32(r.hi) * as_i32(s) >= 0
        /\ op = "DIVU" => s = r.lo * t + r.hi /\ r.hi < t
    BY <1>5, <2>2, QuotientsRight
  <2> HIDE DEF r
  <2>4. ASSUME op = "DIV" PROVE Good
    BY <1>5, <2>3, <2>4 DEF Right
  <2>5. ASSUME op = "DIVU" PROVE Good
    BY <1>5, <2>3, <2>5 DEF Right
  <2>6. Good
    BY <1>5, <2>4, <2>5
  <2> QED
    BY <2>6 DEF r
<1>6. CASE op \in {"CLZ", "CLO"}
  <2> DEFINE bs == BitSet(IF op = "CLZ" THEN s ELSE Not(s))
  <2>1. bs \subseteq 0 .. W - 1 - r.val /\ (r.val = W \/ W - 1 - r.val \in bs)
    BY <1>6, CountsRight
  <2> HIDE DEF r
  <2>2. Good
    BY <1>6, <2>1 DEF Right
  <2> QED
    BY <2>2 DEF r
<1>7. CASE /\ op \notin Shifts /\ op \notin {"EXT", "INS"} /\ op \notin {"ADD", "SUB"}
           /\ op \notin {"MULT", "MULTU", "MADD", "MADDU", "MSUB", "MSUBU"}
           /\ ~(op \in {"DIV", "DIVU"} /\ as_i32(t) # 0) /\ op \notin {"CLZ", "CLO"}
  <2> HIDE DEF r
  <2>1. Good
    BY <1>7 DEF Right, Shifts
  <2> QED
    BY <2>1 DEF r
<1> QED
  BY <1>1, <1>2, <1>3, <1>4, <1>5, <1>6, <1>7

LEMMA OperationRight ==
    ASSUME NEW op, NEW s \in RegisterValues, NEW t \in RegisterValues,
           NEW sa \in Bits, NEW sz \in Bits, NEW hi \in RegisterValues, NEW lo \in RegisterValues
    PROVE  Right(op, u32(s), u32(t), sa, sz, hi, lo, alu_operate(op, s, t, sa, sz, hi, lo))
<1> DEFINE r == alu_operate(op, s, t, sa, sz, hi, lo)
           Good == Right(op, u32(s), u32(t), sa, sz, hi, lo, r)
<1>1. CASE op \in PassOps
  <2> HIDE DEF r
  <2>1. Good
    BY <1>1 DEF Right, PassOps
  <2> QED
    BY <2>1 DEF r
<1>2. CASE op \notin PassOps
  <2>1. r = OnWords(op, u32(s), u32(t), sa, sz, hi, lo)
    BY <1>2 DEF alu_operate
  <2>2. u32(s) \in Words /\ u32(t) \in Words
    BY RegisterHalves
  <2> QED
    BY <2>1, <2>2, OnWordsRight
<1> QED
  BY <1>1, <1>2

-----------------------------------------------------------------------------
(* The arithmetic unit.                                                     *)

\* what the unit holds about one operation
Holding(a) ==
    /\ a \in [done : BOOLEAN, op : AluOps, s : RegisterValues, t : RegisterValues,
              sa : Bits, sz : Bits, hi : RegisterValues, lo : RegisterValues, res : {a.res}]
    /\ a.done => a.res = alu_operate(a.op, a.s, a.t, a.sa, a.sz, a.hi, a.lo)

AluInv == AluIdle \/ Holding(alu)

LEMMA InitHolds ==
    ASSUME NEW operands \in SUBSET (RegisterValues \X RegisterValues),
           NEW hilo \in SUBSET (RegisterValues \X RegisterValues), AluInit(operands, hilo)
    PROVE  AluInv
<1>1. PICK op \in AluOps, st \in operands, sa \in 0 .. W - 1, sz \in 0 .. W - 1, h \in hilo :
          alu = [done |-> FALSE, op |-> op, s |-> st[1], t |-> st[2], sa |-> sa, sz |-> sz,
                 hi |-> h[1], lo |-> h[2], res |-> Result(0, 0, 0)]
  BY DEF AluInit
<1> DEFINE x == Result(0, 0, 0)
<1>2. /\ st[1] \in RegisterValues /\ st[2] \in RegisterValues
      /\ h[1] \in RegisterValues /\ h[2] \in RegisterValues
  OBVIOUS
<1>3. alu = [done |-> FALSE, op |-> op, s |-> st[1], t |-> st[2], sa |-> sa, sz |-> sz,
             hi |-> h[1], lo |-> h[2], res |-> x]
  BY <1>1
<1> HIDE DEF x
<1>4. alu.res = x /\ ~alu.done
  BY <1>3
<1>5. alu \in [done : BOOLEAN, op : AluOps, s : RegisterValues, t : RegisterValues,
               sa : Bits, sz : Bits, hi : RegisterValues, lo : RegisterValues, res : {x}]
  BY <1>2, <1>3 DEF Bits
<1> QED
  BY <1>4, <1>5 DEF AluInv, Holding

LEMMA OperateHolds ==
    ASSUME AluInv, Operate
    PROVE  AluInv'
<1> DEFINE x == alu_operate(alu.op, alu.s, alu.t, alu.sa, alu.sz, alu.hi, alu.lo)
<1>1. ~alu.done /\ alu' = [alu EXCEPT !.done = TRUE, !.res = x]
  BY DEF Operate
<1>2. Holding(alu)
  BY <1>1 DEF AluInv, AluIdle
<1>3. alu \in [done : BOOLEAN, op : AluOps, s : RegisterValues, t : RegisterValues,
               sa : Bits, sz : Bits, hi : RegisterValues, lo : RegisterValues, res : {alu.res}]
  BY <1>2 DEF Holding
<1> HIDE DEF x
<1>4. /\ alu'.done /\ alu'.op = alu.op /\ alu'.s = alu.s /\ alu'.t = alu.t
      /\ alu'.sa = alu.sa /\ alu'.sz = alu.sz /\ alu'.hi = alu.hi /\ alu'.lo = alu.lo
      /\ alu'.res = x
  BY <1>1, <1>3
<1>5. alu' \in [done : BOOLEAN, op : AluOps, s : RegisterValues, t : RegisterValues,
                sa : Bits, sz : Bits, hi : RegisterValues, lo : RegisterValues, res : {x}]
  BY <1>1, <1>3
<1>6. x = alu_operate(alu'.op, alu'.s, alu'.t, alu'.sa, alu'.sz, alu'.hi, alu'.lo)
  BY <1>4 DEF x
<1> QED
  BY <1>4, <1>5, <1>6 DEF AluInv, Holding

LEMMA HoldingMatches ==
    ASSUME AluInv
    PROVE  AluMatchesReference
<1> SUFFICES ASSUME alu.done, alu.op # "idle"
             PROVE  AluMatchesReference
  BY DEF AluMatchesReference
<1>1. Holding(alu)
  BY DEF AluInv, AluIdle
<1>2. /\ alu.s \in RegisterValues /\ alu.t \in RegisterValues /\ alu.sa \in Bits /\ alu.sz \in Bits
      /\ alu.hi \in RegisterValues /\ alu.lo \in RegisterValues
      /\ alu.res = alu_operate(alu.op, alu.s, alu.t, alu.sa, alu.sz, alu.hi, alu.lo)
  BY <1>1 DEF Holding
<1>3. Right(alu.op, u32(alu.s), u32(alu.t), alu.sa, alu.sz, alu.hi, alu.lo, alu.res)
  BY <1>2, OperationRight
<1> QED
  BY <1>3 DEF Right, AluMatchesReference

\* Whatever the registers, words or words with their sign extended, the shift amount,
\* the field and the contents of HI and LO: alu_operate leaves the bits, the sum or its
\* overflow, the product, the quotient and the remainder that the instruction set
\* defines, and an accumulation adds to what Accumulated says it sees.
THEOREM OperationsMatchReference ==
    ASSUME NEW CONSTANT operands \in SUBSET (RegisterValues \X RegisterValues),
           NEW CONSTANT hilo \in SUBSET (RegisterValues \X RegisterValues)
    PROVE  AluSpec(operands, hilo) => []AluMatchesReference
<1>1. AluInit(operands, hilo) => AluInv
  BY InitHolds
<1>2. AluInv /\ [Operate]_alu => AluInv'
  <2>1. CASE Operate
    BY <2>1, OperateHolds
  <2>2. CASE UNCHANGED alu
    BY <2>2 DEF AluInv, Holding, AluIdle
  <2> QED
    BY <2>1, <2>2
<1>3. AluInv => AluMatchesReference
  BY HoldingMatches
<1> QED
  BY <1>1, <1>2, <1>3, PTL DEF AluSpec

-----------------------------------------------------------------------------
(* Interrupts and the serial port.                                          *)

\* what update_rx_irq relies on: the line follows rx_irq_active
Edge(s) == (rx_irq_level \in s.ip) <=> s.rx_irq_active

Level(s) == Edge(s) /\ (s.rx_irq_active <=> (s.rx_ie /\ s.rx_ready))

Consumed(s) == (s.rx_ie /\ s.input # <<>>) => s.rx_ready

LEMMA SetInterruptSignalType ==
    ASSUME NEW ip \in SUBSET Lines, NEW irq \in Lines, NEW active \in BOOLEAN
    PROVE  /\ SetInterruptSignal(ip, irq, active) \in SUBSET Lines
           /\ irq \in SetInterruptSignal(ip, irq, active) <=> active
           /\ \A l \in Lines \ {irq} :
                 l \in SetInterruptSignal(ip, irq, active) <=> l \in ip
BY DEF SetInterruptSignal

LEMMA UpdateRxIrqCorrect ==
    ASSUME NEW s \in Port, Edge(s)
    PROVE  /\ UpdateRxIrq(s) \in Port
           /\ Level(UpdateRxIrq(s))
           /\ UpdateRxIrq(s).rx_ie = s.rx_ie
           /\ UpdateRxIrq(s).rx_ready = s.rx_ready
           /\ UpdateRxIrq(s).input = s.input
           /\ UpdateRxIrq(s).rx_data = s.rx_data
<1> DEFINE active == s.rx_ie /\ s.rx_ready
           ip1 == SetInterruptSignal(s.ip, rx_irq_level, active)
<1>1. s.rx_ie \in BOOLEAN /\ s.rx_ready \in BOOLEAN /\ s.rx_irq_active \in BOOLEAN
      /\ s.ip \in SUBSET Lines
  BY DEF Port
<1>2. rx_irq_level \in Lines
  BY DEF rx_irq_level, Lines
<1>3. ip1 \in SUBSET Lines /\ (rx_irq_level \in ip1 <=> active)
  BY <1>1, <1>2, SetInterruptSignalType
<1>4. CASE active = s.rx_irq_active
  BY <1>4, <1>1 DEF UpdateRxIrq, Edge, Level
<1>5. CASE active # s.rx_irq_active
  <2>1. UpdateRxIrq(s) = [s EXCEPT !.rx_irq_active = active, !.ip = ip1]
    BY <1>5 DEF UpdateRxIrq
  <2> HIDE DEF ip1
  <2>2. [s EXCEPT !.rx_irq_active = active, !.ip = ip1] \in Port
    BY <1>1, <1>3 DEF Port
  <2>3. /\ UpdateRxIrq(s).rx_irq_active = active
        /\ UpdateRxIrq(s).ip = ip1
        /\ UpdateRxIrq(s).rx_ie = s.rx_ie
        /\ UpdateRxIrq(s).rx_ready = s.rx_ready
        /\ UpdateRxIrq(s).input = s.input
        /\ UpdateRxIrq(s).rx_data = s.rx_data
    BY <2>1 DEF Port
  <2> QED
    BY <1>1, <1>3, <2>1, <2>2, <2>3 DEF Level, Edge
<1> QED
  BY <1>4, <1>5

LEMMA PoolRxByteCorrect ==
    ASSUME NEW s \in Port, Edge(s)
    PROVE  /\ PoolRxByte(s) \in Port
           /\ Edge(PoolRxByte(s))
           /\ Level(s) => Level(PoolRxByte(s))
           /\ PoolRxByte(s).rx_ie = s.rx_ie
           /\ PoolRxByte(s).input # <<>> => PoolRxByte(s).rx_ready
<1>1. CASE s.rx_ready \/ s.input = <<>>
  BY <1>1 DEF PoolRxByte
<1>2. CASE ~(s.rx_ready \/ s.input = <<>>)
  <2> DEFINE taken  == [s EXCEPT !.rx_ready = TRUE, !.input = Tail(@)]
             nested == UpdateRxIrq(taken)
             c == Head(s.input)
  <2>1. s.input \in Seq(Chars) /\ s.input # <<>>
    BY <1>2 DEF Port
  <2>2. Tail(s.input) \in Seq(Chars) /\ c \in Chars
    BY <2>1
  <2>3. taken \in Port /\ taken.rx_irq_active = s.rx_irq_active /\ taken.ip = s.ip
        /\ taken.rx_ie = s.rx_ie /\ taken.rx_ready = TRUE
    <3> DEFINE t == Tail(s.input)
    <3> HIDE DEF t
    <3>1. t \in Seq(Chars)
      BY <2>2 DEF t
    <3>2. [s EXCEPT !.rx_ready = TRUE, !.input = t] \in Port
      BY <3>1 DEF Port
    <3>3. taken = [s EXCEPT !.rx_ready = TRUE, !.input = t]
      BY DEF t
    <3> QED
      BY <3>2, <3>3 DEF Port
  <2>4. Edge(taken)
    BY <2>3 DEF Edge
  <2>5. /\ nested \in Port /\ Level(nested)
        /\ nested.rx_ie = s.rx_ie /\ nested.rx_ready = TRUE
    <3> HIDE DEF taken
    <3> QED
      BY <2>3, <2>4, UpdateRxIrqCorrect
  <2>6. PoolRxByte(s) = [nested EXCEPT !.rx_data = c]
    BY <1>2 DEF PoolRxByte
  <2> HIDE DEF nested, c
  <2>7. [nested EXCEPT !.rx_data = c] \in Port
    BY <2>5, <2>2 DEF Port
  <2>8. /\ PoolRxByte(s).rx_ie = nested.rx_ie
        /\ PoolRxByte(s).rx_ready = nested.rx_ready
        /\ PoolRxByte(s).rx_irq_active = nested.rx_irq_active
        /\ PoolRxByte(s).ip = nested.ip
    BY <2>5, <2>6 DEF Port
  <2> QED
    BY <2>5, <2>6, <2>7, <2>8 DEF Level, Edge
<1> QED
  BY <1>1, <1>2

\* the port between two calls
Good(s) == s \in Port /\ Level(s) /\ Consumed(s)

LEMMA RxQueueCheckCorrect ==
    ASSUME NEW s \in Port, Edge(s)
    PROVE  Good(RxQueueCheck(s))
<1> DEFINE p == IF s.rx_ie THEN PoolRxByte(s) ELSE s
<1>1. p \in Port /\ Edge(p) /\ (p.rx_ie /\ p.input # <<>> => p.rx_ready)
  BY PoolRxByteCorrect
<1>2. RxQueueCheck(s) = UpdateRxIrq(p)
  BY DEF RxQueueCheck
<1> HIDE DEF p
<1> QED
  BY <1>1, <1>2, UpdateRxIrqCorrect DEF Good, Consumed

LEMMA ReadRxStCorrect ==
    ASSUME NEW s, Good(s)
    PROVE  Good(ReadRxSt(s))
BY PoolRxByteCorrect DEF Good, Level, Consumed, ReadRxSt

LEMMA ReadRxDataCorrect ==
    ASSUME NEW s, Good(s)
    PROVE  Good(ReadRxData(s)) /\ Good(ReadRxDataInternal(s))
<1> DEFINE pooled == PoolRxByte(s)
           empty == [pooled EXCEPT !.rx_ready = FALSE]
<1>1. pooled \in Port /\ Edge(pooled)
  BY PoolRxByteCorrect DEF Good, Level
<1>2. Good(ReadRxDataInternal(s))
  BY <1>1, RxQueueCheckCorrect DEF ReadRxDataInternal
<1>3. CASE pooled.rx_ready
  <2>1. ReadRxData(s) = RxQueueCheck(UpdateRxIrq(empty))
    BY <1>3 DEF ReadRxData
  <2> HIDE DEF pooled
  <2>2. empty \in Port /\ empty.ip = pooled.ip
        /\ empty.rx_irq_active = pooled.rx_irq_active
    BY <1>1 DEF Port
  <2>3. Edge(empty)
    BY <1>1, <2>2 DEF Edge
  <2> HIDE DEF empty
  <2>4. UpdateRxIrq(empty) \in Port /\ Edge(UpdateRxIrq(empty))
    BY <2>2, <2>3, UpdateRxIrqCorrect DEF Level
  <2> QED
    BY <1>2, <2>1, <2>4, RxQueueCheckCorrect
<1>4. CASE ~pooled.rx_ready
  <2>1. ReadRxData(s) = RxQueueCheck(pooled)
    BY <1>4 DEF ReadRxData
  <2> HIDE DEF pooled
  <2> QED
    BY <1>1, <1>2, <2>1, RxQueueCheckCorrect
<1> QED
  BY <1>3, <1>4

LEMMA WriteRxStCorrect ==
    ASSUME NEW s, Good(s), NEW ie \in BOOLEAN
    PROVE  Good(WriteRxSt(s, ie))
<1> DEFINE w == [s EXCEPT !.rx_ie = ie]
           q == RxQueueCheck(w)
<1>1. w \in Port /\ w.ip = s.ip /\ w.rx_irq_active = s.rx_irq_active
  BY DEF Good, Port
<1>2. Edge(w)
  BY <1>1 DEF Good, Level, Edge
<1>3. WriteRxSt(s, ie) = UpdateRxIrq(q)
  BY DEF WriteRxSt
<1> HIDE DEF w
<1>4. Good(q)
  BY <1>1, <1>2, RxQueueCheckCorrect
<1> HIDE DEF q
<1> QED
  BY <1>3, <1>4, UpdateRxIrqCorrect DEF Good, Level, Consumed

\* a write to another line leaves the port as it was
LEMMA OtherLineCorrect ==
    ASSUME NEW s, Good(s), NEW ip \in SUBSET Lines,
           rx_irq_level \in ip <=> rx_irq_level \in s.ip
    PROVE  Good([s EXCEPT !.ip = ip])
<1> DEFINE t == [s EXCEPT !.ip = ip]
<1>1. t \in Port /\ t.ip = ip /\ t.rx_irq_active = s.rx_irq_active
      /\ t.rx_ie = s.rx_ie /\ t.rx_ready = s.rx_ready /\ t.input = s.input
  BY DEF Good, Port
<1> HIDE DEF t
<1>2. Good(t)
  BY <1>1 DEF Good, Level, Edge, Consumed
<1> QED
  BY <1>2 DEF t

LEMMA UpdateTxIrqCorrect ==
    ASSUME NEW s, Good(s)
    PROVE  Good(UpdateTxIrq(s))
<1> DEFINE active == s.tx_ie /\ s.tx_ready
           ip1 == SetInterruptSignal(s.ip, tx_irq_level, active)
           t == [s EXCEPT !.tx_irq_active = active]
<1>1. CASE active = s.tx_irq_active
  BY <1>1 DEF UpdateTxIrq
<1>2. CASE active # s.tx_irq_active
  <2>1. s \in Port /\ active \in BOOLEAN /\ s.ip \in SUBSET Lines
    BY DEF Good, Port
  <2>2. ip1 \in SUBSET Lines /\ (rx_irq_level \in ip1 <=> rx_irq_level \in s.ip)
    <3>1. tx_irq_level \in Lines /\ rx_irq_level \in Lines \ {tx_irq_level}
      BY DEF tx_irq_level, rx_irq_level, Lines
    <3> QED
      BY <2>1, <3>1, SetInterruptSignalType
  <2> HIDE DEF ip1
  <2>3. t \in Port /\ t.ip = s.ip /\ t.rx_irq_active = s.rx_irq_active
        /\ t.rx_ie = s.rx_ie /\ t.rx_ready = s.rx_ready /\ t.input = s.input
    BY <2>1 DEF Port
  <2>4. UpdateTxIrq(s) = [t EXCEPT !.ip = ip1]
    BY <1>2, <2>1 DEF UpdateTxIrq, Port, ip1
  <2> HIDE DEF t
  <2>5. Good(t)
    BY <2>3 DEF Good, Level, Edge, Consumed
  <2> QED
    BY <2>2, <2>3, <2>4, <2>5, OtherLineCorrect
<1> QED
  BY <1>1, <1>2

LEMMA WriteTxCorrect ==
    ASSUME NEW s, Good(s), NEW ie \in BOOLEAN
    PROVE  Good(WriteTxSt(s, ie)) /\ Good(WriteTxData(s))
<1> DEFINE w == [s EXCEPT !.tx_ie = ie]
<1>1. w \in Port /\ w.ip = s.ip /\ w.rx_irq_active = s.rx_irq_active
      /\ w.rx_ie = s.rx_ie /\ w.rx_ready = s.rx_ready /\ w.input = s.input
  BY DEF Good, Port
<1>2. WriteTxSt(s, ie) = UpdateTxIrq(w)
  BY DEF WriteTxSt
<1> HIDE DEF w
<1>3. Good(w)
  BY <1>1 DEF Good, Level, Edge, Consumed
<1> QED
  BY <1>2, <1>3, UpdateTxIrqCorrect DEF WriteTxData

LEMMA InputCorrect ==
    ASSUME NEW s, Good(s), NEW text \in Seq(Chars)
    PROVE  Good(RxQueueCheck([s EXCEPT !.input = text]))
<1> DEFINE w == [s EXCEPT !.input = text]
<1>1. w \in Port /\ w.ip = s.ip /\ w.rx_irq_active = s.rx_irq_active
  BY DEF Good, Port
<1>2. Edge(w)
  BY <1>1 DEF Good, Level, Edge
<1> HIDE DEF w
<1>3. Good(RxQueueCheck(w))
  BY <1>1, <1>2, RxQueueCheckCorrect
<1> QED
  BY <1>3 DEF w

-----------------------------------------------------------------------------
TimerType == [count : Word, compare : Word, last_core_cycles : Word]
StatusType == [ie : BOOLEAN, exl : BOOLEAN, mask : SUBSET Lines]

LEMMA ModuloInWord ==
    ASSUME NEW n \in Int
    PROVE  n % CountMod \in Word
BY Cop0Assumption DEF Word

LEMMA UpdateCountType ==
    ASSUME NEW t \in TimerType, NEW c \in Word
    PROVE  UpdateCount(t, c) \in TimerType
<1>1. t.count \in Int /\ t.last_core_cycles \in Int /\ c \in Int
  BY Cop0Assumption DEF TimerType, Word
<1>2. (t.count + c - t.last_core_cycles) \in Int
  BY <1>1
<1> DEFINE n == (t.count + c - t.last_core_cycles) % CountMod
<1>3. n \in Word
  BY <1>2, ModuloInWord
<1>4. UpdateCount(t, c) = [t EXCEPT !.count = n, !.last_core_cycles = c]
  BY DEF UpdateCount
<1> HIDE DEF n
<1> QED
  BY <1>3, <1>4 DEF TimerType

LEMMA CompareIrqType ==
    ASSUME NEW t, NEW ip \in SUBSET Lines, NEW c
    PROVE  /\ CompareIrq(t, ip, c) \in SUBSET Lines
           /\ rx_irq_level \in CompareIrq(t, ip, c) <=> rx_irq_level \in ip
<1>1. COUNTER_IRQ_LEVEL \in Lines /\ rx_irq_level \in Lines \ {COUNTER_IRQ_LEVEL}
  BY DEF COUNTER_IRQ_LEVEL, rx_irq_level, Lines
<1> QED
  BY <1>1, SetInterruptSignalType DEF CompareIrq

\* The receiver's promises and the interrupt that was fetched need no
\* strengthening besides the types: each call ends in a state that satisfies
\* them.
IInv == TypeOK /\ Good(sp) /\ FetchedInterruptUnmasked

LEMMA FetchCorrect ==
    ASSUME IInv, NEW brk \in BOOLEAN
    PROVE  /\ Cycle \in Word
           /\ FetchTimer(brk) \in TimerType
           /\ Good(FetchPort(brk))
           /\ Fetched(brk) \in {"NONE", "INT", "HWBREAK"}
           /\ Fetched(brk) = "INT" => ~status.exl
<1>1. Cycle \in Word
  <2>1. cycle_c + 1 \in Int
    BY Cop0Assumption DEF IInv, TypeOK, Word
  <2> QED
    BY <2>1, ModuloInWord DEF Cycle
<1>2. FetchTimer(brk) \in TimerType
  BY <1>1, UpdateCountType DEF FetchTimer, IInv, TypeOK, TimerType
<1>3. Good(FetchPort(brk))
  <2> DEFINE ip1 == CompareIrq(timer, sp.ip, Cycle)
  <2>1. ip1 \in SUBSET Lines /\ (rx_irq_level \in ip1 <=> rx_irq_level \in sp.ip)
    <3>1. sp.ip \in SUBSET Lines
      BY DEF IInv, Good, Port
    <3> QED
      BY <3>1, CompareIrqType
  <2>2. FetchPort(brk) = IF brk THEN sp ELSE [sp EXCEPT !.ip = ip1]
    BY DEF FetchPort
  <2> HIDE DEF ip1
  <2>3. Good(sp)
    BY DEF IInv
  <2> QED
    BY <2>1, <2>2, <2>3, OtherLineCorrect
<1>4. Fetched(brk) \in {"NONE", "INT", "HWBREAK"}
  BY DEF Fetched
<1>5. Fetched(brk) = "INT" => ~status.exl
  BY DEF Fetched, CoreInterruptRequest
<1> QED
  BY <1>1, <1>2, <1>3, <1>4, <1>5

\* what every step of the core keeps
LEMMA StepFrame ==
    ASSUME IInv, NEW brk \in BOOLEAN, Begin(brk),
           status' \in StatusType, timer' \in TimerType, Good(sp'),
           \/ KeepFetched(brk) /\ status'.exl = status.exl
           \/ DropFetched,
           stopped' \in BOOLEAN, event' \in {"none", "timer", "restart"},
           got' \in Chars \cup {NoChar}
    PROVE  IInv'
<1>1. cycle_c' \in Word /\ delay_slot' \in BOOLEAN
      /\ uses' \subseteq {"timer", "rx", "tx"}
  BY FetchCorrect DEF Begin, setup, IInv, TypeOK
<1>2. CASE KeepFetched(brk) /\ status'.exl = status.exl
  <2>1. dt_f' \in {"NONE", "BUBBLE", "INT", "HWBREAK"} /\ (dt_f' = "INT" => ~status.exl)
    BY <1>2, FetchCorrect DEF KeepFetched, IInv, TypeOK, FetchedInterruptUnmasked
  <2> QED
    BY <1>1, <1>2, <2>1 DEF IInv, TypeOK, Good, TimerType, StatusType, FetchedInterruptUnmasked
<1>3. CASE DropFetched
  <2>1. dt_f' \in {"NONE", "BUBBLE"}
    BY <1>3 DEF DropFetched, Empty
  <2> QED
    BY <1>1, <2>1 DEF IInv, TypeOK, Good, TimerType, StatusType, FetchedInterruptUnmasked
<1> QED
  BY <1>2, <1>3

LEMMA StatusTypes ==
    ASSUME IInv
    PROVE  /\ status \in StatusType
           /\ \A e \in BOOLEAN : [status EXCEPT !.exl = e] \in StatusType
           /\ \A v \in StatusValues : /\ WriteStatus(status, v.ie, v.mask) \in StatusType
                                      /\ WriteStatus(status, v.ie, v.mask).exl = status.exl
<1>1. status \in StatusType
  BY DEF IInv, TypeOK, StatusType
<1>2. ASSUME NEW v \in StatusValues
      PROVE  /\ WriteStatus(status, v.ie, v.mask) \in StatusType
             /\ WriteStatus(status, v.ie, v.mask).exl = status.exl
  <2>1. v.ie \in BOOLEAN /\ v.mask \in SUBSET Lines
    BY InterruptAssumption
  <2> QED
    BY <1>1, <2>1 DEF WriteStatus, StatusType
<1>3. ASSUME NEW e \in BOOLEAN
      PROVE  [status EXCEPT !.exl = e] \in StatusType
  BY <1>1 DEF StatusType
<1> QED
  BY <1>1, <1>2, <1>3

LEMMA StepPreserves ==
    ASSUME IInv, NEW brk \in BOOLEAN, Step(brk)
    PROVE  IInv'
<1> DEFINE fp == FetchPort(brk)
           ft == FetchTimer(brk)
<1>1. Good(fp) /\ ft \in TimerType
  BY FetchCorrect
<1>2. got \in Chars \cup {NoChar} /\ status.exl \in BOOLEAN
  BY DEF IInv, TypeOK
<1>3. CASE TakeException(brk)
  <2>1. (status.exl \/ Current(brk) = "INT") \in BOOLEAN /\ (Current(brk) = "HWBREAK") \in BOOLEAN
    OBVIOUS
  <2>2. status' \in StatusType
    BY <1>3, <2>1, StatusTypes DEF TakeException
  <2>3. stopped' \in BOOLEAN
    BY <1>3 DEF TakeException
  <2> QED
    BY <1>1, <1>2, <1>3, <2>2, <2>3, StepFrame DEF TakeException
<1>4. CASE Other(brk)
  BY <1>1, <1>2, <1>4, StatusTypes, StepFrame DEF Other
<1>5. CASE SkipSlot(brk)
  BY <1>1, <1>2, <1>5, StatusTypes, StepFrame DEF SkipSlot, Executes
<1>6. CASE Trap(brk)
  <2>1. PICK vectored \in BOOLEAN : status' = [status EXCEPT !.exl = @ \/ vectored]
    BY <1>6 DEF Trap
  <2>2. (status.exl \/ vectored) \in BOOLEAN
    OBVIOUS
  <2>3. status' \in StatusType
    BY <2>1, <2>2, StatusTypes
  <2> QED
    BY <1>1, <1>2, <1>6, <2>3, StepFrame DEF Trap, Executes
<1>7. CASE Eret(brk)
  <2>1. status' \in StatusType
    BY <1>7, StatusTypes DEF Eret
  <2> QED
    BY <1>1, <1>2, <1>7, <2>1, StepFrame DEF Eret, Executes
<1>8. CASE MoveToStatus(brk)
  <2>1. status' \in StatusType /\ status'.exl = status.exl
    BY <1>8, StatusTypes DEF MoveToStatus
  <2> QED
    BY <1>1, <1>2, <1>8, <2>1, StepFrame DEF MoveToStatus, Executes
<1>9. CASE MoveToTimer(brk)
  <2>1. timer' \in TimerType
    <3>1. PICK v \in TimerValues : timer' \in {WriteCount(ft, v), WriteCompare(ft, v)}
      BY <1>9 DEF MoveToTimer
    <3>2. v \in Word
      BY InterruptAssumption
    <3> HIDE DEF ft
    <3> QED
      BY <1>1, <3>1, <3>2 DEF WriteCount, WriteCompare, TimerType
  <2>2. Good(sp')
    <3> DEFINE ip1 == TimerWritten(fp.ip)
    <3>1. COUNTER_IRQ_LEVEL \in Lines /\ rx_irq_level \in Lines \ {COUNTER_IRQ_LEVEL}
      BY DEF COUNTER_IRQ_LEVEL, rx_irq_level, Lines
    <3>2. fp.ip \in SUBSET Lines
      BY <1>1 DEF Good, Port
    <3>3. ip1 \in SUBSET Lines /\ (rx_irq_level \in ip1 <=> rx_irq_level \in fp.ip)
      BY <3>1, <3>2, SetInterruptSignalType DEF TimerWritten
    <3>4. sp' = [fp EXCEPT !.ip = ip1]
      BY <1>9 DEF MoveToTimer
    <3> HIDE DEF ip1, fp
    <3> QED
      BY <1>1, <3>3, <3>4, OtherLineCorrect
  <2> QED
    BY <1>2, <1>9, <2>1, <2>2, StatusTypes, StepFrame DEF MoveToTimer, Executes
<1>10. CASE AccessPort(brk)
  <2>1. Good(sp')
    <3>1. \/ sp' = ReadRxSt(fp)
          \/ \E ie \in BOOLEAN : sp' = WriteRxSt(fp, ie)
          \/ sp' = WriteTxData(fp)
          \/ \E ie \in BOOLEAN : sp' = WriteTxSt(fp, ie)
      BY <1>10 DEF AccessPort
    <3> HIDE DEF fp
    <3> QED
      BY <1>1, <3>1, ReadRxStCorrect, WriteRxStCorrect, WriteTxCorrect
  <2> QED
    BY <1>1, <1>2, <1>10, <2>1, StatusTypes, StepFrame DEF AccessPort, Executes
<1>11. CASE ReceiveChar(brk)
  <2>1. Good(sp')
    BY <1>1, <1>11, ReadRxDataCorrect DEF ReceiveChar
  <2>2. got' \in Chars \cup {NoChar}
    <3>1. PoolRxByte(sp) \in Port
      BY PoolRxByteCorrect DEF IInv, Good, Level
    <3>2. PoolRxByte(sp).rx_data \in Chars \cup {NoChar}
      BY <3>1 DEF Port
    <3> QED
      BY <1>11, <3>2 DEF ReceiveChar, ReceivedChar
  <2> QED
    BY <1>1, <1>11, <2>1, <2>2, StatusTypes, StepFrame DEF ReceiveChar, Executes
<1> QED
  BY <1>3, <1>4, <1>5, <1>6, <1>7, <1>8, <1>9, <1>10, <1>11 DEF Step

\* The events of the user interface leave the core alone.
LEMMA UserPreserves ==
    ASSUME IInv, Terminal \/ MemoryView
    PROVE  IInv'
<1>1. Good(sp) /\ sp.input \in Seq(Chars)
  BY DEF IInv, Good, Port
<1>2. Good(sp')
  <2>1. CASE Terminal
    <3>1. CASE \E c \in Chars : sp' = TypeChar(sp, c)
      <4>1. PICK c \in Chars : sp' = TypeChar(sp, c)
        BY <3>1
      <4>2. Append(sp.input, c) \in Seq(Chars)
        BY <1>1
      <4> QED
        BY <1>1, <4>1, <4>2, InputCorrect DEF TypeChar
    <3>2. CASE \E n \in 0 .. (Len(sp.input) - 1) : sp' = EraseInput(sp, n)
      <4>1. PICK n \in 0 .. (Len(sp.input) - 1) : sp' = EraseInput(sp, n)
        BY <3>2
      <4>2. SubSeq(sp.input, 1, n) \in Seq(Chars)
        BY <1>1
      <4> QED
        BY <1>1, <4>1, <4>2, InputCorrect DEF EraseInput
    <3> QED
      BY <2>1, <3>1, <3>2 DEF Terminal
  <2>2. CASE MemoryView
    BY <1>1, <2>2, ReadRxStCorrect, ReadRxDataCorrect, WriteRxStCorrect DEF MemoryView
  <2> QED
    BY <2>1, <2>2
<1>3. UNCHANGED <<setup, status, timer, cycle_c, dt_f, stopped, got, event>>
  BY DEF Terminal, MemoryView
<1> QED
  BY <1>2, <1>3 DEF IInv, TypeOK, Good, FetchedInterruptUnmasked, setup

LEMMA InvariantInductive ==
    /\ Init => IInv
    /\ IInv /\ [Next]_vars => IInv'
<1>1. Init => IInv
  <2> SUFFICES ASSUME Init PROVE IInv
    OBVIOUS
  <2>1. 0 \in Word
    BY Cop0Assumption DEF Word
  <2>2. sp \in Port /\ Good(sp)
    <3>1. rx_irq_level \notin {}
      OBVIOUS
    <3> QED
      BY <3>1 DEF Init, SerialReset, Port, Good, Level, Edge, Consumed
  <2>3. /\ delay_slot \in BOOLEAN /\ uses \subseteq {"timer", "rx", "tx"}
        /\ status \in [ie : BOOLEAN, exl : BOOLEAN, mask : SUBSET Lines]
        /\ timer \in [count : Word, compare : Word, last_core_cycles : Word]
        /\ dt_f \in {"NONE", "BUBBLE"}
    BY <2>1, InterruptAssumption DEF Init, StatusReset, TimerReset, Empty
  <2> QED
    BY <2>1, <2>2, <2>3 DEF Init, IInv, TypeOK, FetchedInterruptUnmasked
<1>2. ASSUME IInv, [Next]_vars PROVE IInv'
  <2>1. CASE Steps
    BY <1>2, <2>1, StepPreserves DEF Steps
  <2>2. CASE Terminal \/ MemoryView
    BY <1>2, <2>2, UserPreserves
  <2>3. CASE Restart
    <3>1. 0 \in Word
      BY Cop0Assumption DEF Word
    <3> QED
      BY <1>2, <2>3, <3>1
      DEF Restart, Empty, setup, IInv, TypeOK, Good, FetchedInterruptUnmasked
  <2>4. CASE UNCHANGED vars
    BY <1>2, <2>4 DEF vars, setup, IInv, TypeOK, Good, FetchedInterruptUnmasked
  <2> QED
    BY <1>2, <2>1, <2>2, <2>3, <2>4 DEF Next
<1> QED
  BY <1>1, <1>2

\* The registers of coprocessor 0 and of the port keep their types.
THEOREM InterruptTypeCorrect == Spec => []TypeOK
<1>1. IInv => TypeOK
  BY DEF IInv
<1> QED
  BY <1>1, InvariantInductive, PTL DEF Spec

\* The receive line is up exactly while an enabled receiver holds a character:
\* neither a nested callback nor a view of the registers loses or repeats an
\* edge.
THEOREM ReceiveLineIsLevel == Spec => []RxLineLevel
<1>1. IInv => RxLineLevel
  <2> SUFFICES ASSUME IInv PROVE RxLineLevel
    OBVIOUS
  <2>1. /\ sp.rx_irq_active \in BOOLEAN
        /\ sp.rx_irq_active <=> (sp.rx_ie /\ sp.rx_ready)
        /\ (rx_irq_level \in sp.ip) <=> sp.rx_irq_active
    BY DEF IInv, Good, Port, Level, Edge
  <2> QED
    BY <2>1 DEF RxLineLevel
<1> QED
  BY <1>1, InvariantInductive, PTL DEF Spec

\* A character never waits in the terminal while an enabled receiver is empty.
THEOREM ReceiverConsumes == Spec => []RxConsumed
<1>1. IInv => RxConsumed
  BY DEF IInv, Good, Consumed, RxConsumed
<1> QED
  BY <1>1, InvariantInductive, PTL DEF Spec

\* An interrupt waiting in dt_f is never taken inside of the handler.
THEOREM InterruptNotNested == Spec => []FetchedInterruptUnmasked
<1>1. IInv => FetchedInterruptUnmasked
  BY DEF IInv
<1> QED
  BY <1>1, InvariantInductive, PTL DEF Spec

-----------------------------------------------------------------------------
(* What was typed and not received: the character in rx_data, if any, and  *)
(* the input line behind it.  Every function of the port but a read of     *)
(* rx_data keeps it.                                                       *)

Text == Seq(Chars \cup {NoChar})

Prefix(s) == IF s.rx_ready THEN <<s.rx_data>> ELSE <<>>
Waiting(s) == Prefix(s) \o s.input

LEMMA ConcatEmpty ==
    ASSUME NEW t \in Text
    PROVE  <<>> \o t = t
BY DEF Text

LEMMA ConcatOne ==
    ASSUME NEW c \in Chars \cup {NoChar}, NEW t \in Text
    PROVE  /\ <<c>> \o t \in Text
           /\ <<c>> \o t # <<>>
           /\ Head(<<c>> \o t) = c
           /\ Tail(<<c>> \o t) = t
<1> DEFINE u == <<c>> \o t
<1>1. u \in Text /\ Len(u) = Len(t) + 1
  BY DEF Text
<1>2. u[1] = c /\ \A i \in 1 .. Len(t) : u[i + 1] = t[i]
  BY DEF Text
<1> HIDE DEF u
<1>3. u # <<>> /\ Head(u) = c
  BY <1>1, <1>2 DEF Text
<1>4. Tail(u) \in Text /\ Len(Tail(u)) = Len(t) /\ \A i \in 1 .. Len(t) : Tail(u)[i] = t[i]
  BY <1>1, <1>2, <1>3 DEF Text
<1>5. Tail(u) = t
  BY <1>4 DEF Text
<1> QED
  BY <1>1, <1>3, <1>5 DEF u

LEMMA HeadTail ==
    ASSUME NEW t \in Text, t # <<>>
    PROVE  <<Head(t)>> \o Tail(t) = t
<1> DEFINE c == Head(t)
           r == Tail(t)
           u == <<c>> \o r
<1>1. c \in Chars \cup {NoChar} /\ r \in Text /\ Len(r) = Len(t) - 1 /\ c = t[1]
      /\ Len(t) \in Nat /\ \A i \in 1 .. Len(t) - 1 : r[i] = t[i + 1]
  BY DEF Text
<1> HIDE DEF c, r
<1>2. u \in Text /\ Len(u) = Len(r) + 1 /\ u[1] = c /\ \A i \in 1 .. Len(r) : u[i + 1] = r[i]
  BY <1>1 DEF Text
<1> HIDE DEF u
<1>3. ASSUME NEW i \in 1 .. Len(t)
      PROVE  u[i] = t[i]
  <2>1. CASE i = 1
    BY <1>1, <1>2, <2>1
  <2>2. CASE i # 1
    <3>1. i - 1 \in 1 .. Len(r) /\ (i - 1) + 1 = i
      BY <1>1, <2>2
    <3> QED
      BY <1>1, <1>2, <3>1
  <2> QED
    BY <2>1, <2>2
<1>4. Len(u) = Len(t)
  BY <1>1, <1>2
<1>5. u = t
  BY <1>2, <1>3, <1>4 DEF Text
<1> QED
  BY <1>5 DEF u, c, r

LEMMA ConcatAppend ==
    ASSUME NEW p \in Text, NEW t \in Text, NEW c \in Chars \cup {NoChar}
    PROVE  p \o Append(t, c) = Append(p \o t, c)
<1> DEFINE a == p \o Append(t, c)
           b == Append(p \o t, c)
<1>1. a \in Text /\ b \in Text /\ Len(a) = Len(b)
  BY DEF Text
<1>2. ASSUME NEW i \in 1 .. Len(b)
      PROVE  a[i] = b[i]
  <2>1. CASE i \in 1 .. Len(p)
    BY <2>1 DEF Text
  <2>2. CASE i \in Len(p) + 1 .. Len(p) + Len(t)
    BY <2>2 DEF Text
  <2>3. CASE i = Len(p) + Len(t) + 1
    BY <2>3 DEF Text
  <2> QED
    BY <2>1, <2>2, <2>3 DEF Text
<1> HIDE DEF a, b
<1>3. a = b
  BY <1>1, <1>2 DEF Text
<1> QED
  BY <1>3 DEF a, b

LEMMA ConcatSubSeq ==
    ASSUME NEW p \in Text, NEW t \in Text, NEW n \in 0 .. Len(t)
    PROVE  /\ Len(p) + n \in 0 .. Len(p \o t)
           /\ p \o SubSeq(t, 1, n) = SubSeq(p \o t, 1, Len(p) + n)
<1> DEFINE s == SubSeq(t, 1, n)
           a == p \o s
           u == p \o t
           b == SubSeq(u, 1, Len(p) + n)
<1>0. n \in Nat /\ n <= Len(t) /\ Len(p) \in Nat /\ Len(t) \in Nat
  BY DEF Text
<1>1. s \in Text /\ Len(s) = n /\ \A i \in 1 .. n : s[i] = t[i]
  BY <1>0 DEF Text
<1> HIDE DEF s
<1>2. a \in Text /\ Len(a) = Len(p) + n /\ (\A i \in 1 .. Len(p) : a[i] = p[i])
      /\ \A i \in Len(p) + 1 .. Len(p) + n : a[i] = t[i - Len(p)]
  <2>1. a \in Text /\ Len(a) = Len(p) + n /\ \A i \in 1 .. Len(p) : a[i] = p[i]
    BY <1>0, <1>1 DEF Text
  <2>2. ASSUME NEW i \in Len(p) + 1 .. Len(p) + n
        PROVE  a[i] = t[i - Len(p)]
    <3>1. a[i] = s[i - Len(p)]
      BY <1>0, <1>1 DEF Text
    <3>2. i - Len(p) \in 1 .. n
      BY <1>0
    <3> QED
      BY <1>1, <3>1, <3>2
  <2> QED
    BY <2>1, <2>2
<1>3. u \in Text /\ Len(u) = Len(p) + Len(t) /\ (\A i \in 1 .. Len(p) : u[i] = p[i])
      /\ \A i \in Len(p) + 1 .. Len(p) + Len(t) : u[i] = t[i - Len(p)]
  BY <1>0 DEF Text
<1> HIDE DEF a, u
<1>4. b \in Text /\ Len(b) = Len(p) + n /\ \A i \in 1 .. Len(p) + n : b[i] = u[i]
  BY <1>0, <1>3 DEF Text
<1> HIDE DEF b
<1>5. ASSUME NEW i \in 1 .. Len(p) + n
      PROVE  a[i] = b[i]
  BY <1>0, <1>2, <1>3, <1>4
<1>6. a = b
  BY <1>2, <1>4, <1>5 DEF Text
<1> QED
  BY <1>0, <1>3, <1>6 DEF a, b, s, u

LEMMA PortText ==
    ASSUME NEW s \in Port
    PROVE  s.input \in Text /\ s.rx_data \in Chars \cup {NoChar} /\ Prefix(s) \in Text
           /\ Waiting(s) \in Text
<1>1. s.input \in Seq(Chars) /\ s.rx_data \in Chars \cup {NoChar}
  BY DEF Port
<1>2. s.input \in Text
  BY <1>1 DEF Text
<1>3. Prefix(s) \in Text
  <2>1. <<s.rx_data>> \in Text /\ <<>> \in Text
    BY <1>1 DEF Text
  <2> QED
    BY <2>1 DEF Prefix
<1> QED
  BY <1>1, <1>2, <1>3 DEF Waiting, Text

LEMMA UpdateRxIrqWaiting ==
    ASSUME NEW s \in Port, Edge(s)
    PROVE  Waiting(UpdateRxIrq(s)) = Waiting(s)
BY UpdateRxIrqCorrect DEF Waiting, Prefix

\* what pool_rx_byte leaves in the receiver depends on the receiver alone
LEMMA PoolRxByteEffect ==
    ASSUME NEW s \in Port, Edge(s)
    PROVE  LET pooled == PoolRxByte(s) IN
           /\ (s.rx_ready \/ s.input = <<>>) =>
                 /\ pooled.rx_ready = s.rx_ready
                 /\ pooled.input = s.input
                 /\ pooled.rx_data = s.rx_data
           /\ ~(s.rx_ready \/ s.input = <<>>) =>
                 /\ pooled.rx_ready = TRUE
                 /\ pooled.input = Tail(s.input)
                 /\ pooled.rx_data = Head(s.input)
<1>1. CASE s.rx_ready \/ s.input = <<>>
  BY <1>1 DEF PoolRxByte
<1>2. CASE ~(s.rx_ready \/ s.input = <<>>)
  <2> DEFINE t == Tail(s.input)
             taken  == [s EXCEPT !.rx_ready = TRUE, !.input = t]
             nested == UpdateRxIrq(taken)
             c == Head(s.input)
  <2>1. PoolRxByte(s) = [nested EXCEPT !.rx_data = c]
    BY <1>2 DEF PoolRxByte
  <2>2. t \in Seq(Chars) /\ c \in Chars
    BY <1>2 DEF Port
  <2> HIDE DEF t, c
  <2>3. /\ taken \in Port /\ taken.ip = s.ip /\ taken.rx_irq_active = s.rx_irq_active
        /\ taken.rx_ready = TRUE /\ taken.input = t
    BY <2>2 DEF Port
  <2>4. Edge(taken)
    BY <2>3 DEF Edge
  <2> HIDE DEF taken
  <2>5. nested \in Port /\ nested.rx_ready = TRUE /\ nested.input = t
    BY <2>3, <2>4, UpdateRxIrqCorrect
  <2> HIDE DEF nested
  <2>6. /\ PoolRxByte(s).rx_ready = TRUE /\ PoolRxByte(s).input = t
        /\ PoolRxByte(s).rx_data = c
    BY <2>1, <2>5 DEF Port
  <2> QED
    BY <1>2, <2>6 DEF t, c
<1> QED
  BY <1>1, <1>2

LEMMA PoolRxByteWaiting ==
    ASSUME NEW s \in Port, Edge(s)
    PROVE  Waiting(PoolRxByte(s)) = Waiting(s)
<1>1. CASE s.rx_ready \/ s.input = <<>>
  BY <1>1, PoolRxByteEffect DEF Waiting, Prefix
<1>2. CASE ~(s.rx_ready \/ s.input = <<>>)
  <2>1. Waiting(PoolRxByte(s)) = <<Head(s.input)>> \o Tail(s.input)
    BY <1>2, PoolRxByteEffect DEF Waiting, Prefix
  <2>2. Waiting(s) = <<>> \o s.input
    BY <1>2 DEF Waiting, Prefix
  <2> QED
    BY <1>2, <2>1, <2>2, PortText, HeadTail, ConcatEmpty
<1> QED
  BY <1>1, <1>2

LEMMA RxQueueCheckWaiting ==
    ASSUME NEW s \in Port, Edge(s)
    PROVE  Waiting(RxQueueCheck(s)) = Waiting(s)
<1> DEFINE p == IF s.rx_ie THEN PoolRxByte(s) ELSE s
<1>1. p \in Port /\ Edge(p) /\ Waiting(p) = Waiting(s)
  BY PoolRxByteCorrect, PoolRxByteWaiting
<1>2. RxQueueCheck(s) = UpdateRxIrq(p)
  BY DEF RxQueueCheck
<1> HIDE DEF p
<1> QED
  BY <1>1, <1>2, UpdateRxIrqWaiting

\* Two ports that differ in their interrupts only.
SameReceiver(s, t) == s.rx_ready = t.rx_ready /\ s.rx_data = t.rx_data /\ s.input = t.input

LEMMA ReadRxDataWaiting ==
    ASSUME NEW s, Good(s), NEW t, Good(t), SameReceiver(s, t)
    PROVE  /\ Waiting(s) # <<>> => /\ ReceivedChar(t) = Head(Waiting(s))
                                   /\ Waiting(ReadRxData(s)) = Tail(Waiting(s))
           /\ Waiting(s) = <<>> => /\ ReceivedChar(t) = NoChar
                                   /\ Waiting(ReadRxData(s)) = Waiting(s)
<1> DEFINE pooled == PoolRxByte(s)
           empty == [pooled EXCEPT !.rx_ready = FALSE]
<1>1. /\ s \in Port /\ t \in Port /\ Edge(s) /\ Edge(t)
      /\ pooled \in Port /\ Edge(pooled) /\ Waiting(pooled) = Waiting(s)
      /\ pooled.input # <<>> => pooled.rx_ready
  BY PoolRxByteCorrect, PoolRxByteWaiting DEF Good, Level
<1>2. ReceivedChar(t) = IF pooled.rx_ready THEN pooled.rx_data ELSE NoChar
  BY <1>1, PoolRxByteEffect DEF SameReceiver, ReceivedChar
<1>3. CASE pooled.rx_ready
  <2>1. ReadRxData(s) = RxQueueCheck(UpdateRxIrq(empty))
    BY <1>3 DEF ReadRxData
  <2> HIDE DEF pooled
  <2>2. empty \in Port /\ empty.ip = pooled.ip /\ empty.rx_irq_active = pooled.rx_irq_active
        /\ empty.rx_ready = FALSE /\ empty.input = pooled.input
    BY <1>1 DEF Port
  <2>3. Edge(empty)
    BY <1>1, <2>2 DEF Edge
  <2> HIDE DEF empty
  <2>4. Waiting(ReadRxData(s)) = Waiting(empty)
    BY <2>1, <2>2, <2>3, UpdateRxIrqCorrect, UpdateRxIrqWaiting, RxQueueCheckWaiting DEF Level
  <2>5. Waiting(empty) = pooled.input
    BY <1>1, <2>2, PortText, ConcatEmpty DEF Waiting, Prefix
  <2>6. Waiting(s) = <<pooled.rx_data>> \o pooled.input
    BY <1>1, <1>3 DEF Waiting, Prefix
  <2>7. Waiting(s) # <<>> /\ Head(Waiting(s)) = pooled.rx_data /\ Tail(Waiting(s)) = pooled.input
    <3> DEFINE c == pooled.rx_data
               t1 == pooled.input
    <3>1. c \in Chars \cup {NoChar} /\ t1 \in Text
      BY <1>1, PortText
    <3>2. Waiting(s) = <<c>> \o t1
      BY <2>6
    <3> HIDE DEF c, t1
    <3>3. Waiting(s) # <<>> /\ Head(Waiting(s)) = c /\ Tail(Waiting(s)) = t1
      BY <3>1, <3>2, ConcatOne
    <3> QED
      BY <3>3 DEF c, t1
  <2> QED
    BY <1>2, <1>3, <2>4, <2>5, <2>7
<1>4. CASE ~pooled.rx_ready
  <2>1. ReadRxData(s) = RxQueueCheck(pooled)
    BY <1>4 DEF ReadRxData
  <2> HIDE DEF pooled
  <2>2. Waiting(s) = <<>> \o pooled.input /\ pooled.input = <<>>
    BY <1>1, <1>4 DEF Waiting, Prefix
  <2>3. Waiting(s) = <<>>
    BY <1>1, <2>2, PortText, ConcatEmpty
  <2> QED
    BY <1>1, <1>2, <1>4, <2>1, <2>3, RxQueueCheckWaiting
<1> QED
  BY <1>3, <1>4

LEMMA OtherLineWaiting ==
    ASSUME NEW s, Good(s), NEW ip
    PROVE  SameReceiver([s EXCEPT !.ip = ip], s) /\ Waiting([s EXCEPT !.ip = ip]) = Waiting(s)
<1> DEFINE t == [s EXCEPT !.ip = ip]
<1>1. t.rx_ready = s.rx_ready /\ t.rx_data = s.rx_data /\ t.input = s.input
  BY DEF Good, Port
<1> HIDE DEF t
<1>2. SameReceiver(t, s) /\ Waiting(t) = Waiting(s)
  BY <1>1 DEF SameReceiver, Waiting, Prefix
<1> QED
  BY <1>2 DEF t

LEMMA AccessWaiting ==
    ASSUME NEW s, Good(s), NEW ie \in BOOLEAN
    PROVE  /\ Waiting(ReadRxSt(s)) = Waiting(s)
           /\ Waiting(ReadRxDataInternal(s)) = Waiting(s)
           /\ Waiting(WriteRxSt(s, ie)) = Waiting(s)
           /\ Waiting(WriteTxSt(s, ie)) = Waiting(s)
           /\ Waiting(WriteTxData(s)) = Waiting(s)
<1>1. s \in Port /\ Edge(s)
  BY DEF Good, Level
<1>2. Waiting(ReadRxSt(s)) = Waiting(s)
  BY <1>1, PoolRxByteWaiting DEF ReadRxSt
<1>3. Waiting(ReadRxDataInternal(s)) = Waiting(s)
  BY <1>1, PoolRxByteCorrect, PoolRxByteWaiting, RxQueueCheckWaiting DEF ReadRxDataInternal
<1>4. Waiting(WriteRxSt(s, ie)) = Waiting(s)
  <2> DEFINE w == [s EXCEPT !.rx_ie = ie]
  <2>1. w \in Port /\ w.ip = s.ip /\ w.rx_irq_active = s.rx_irq_active
        /\ w.rx_ready = s.rx_ready /\ w.rx_data = s.rx_data /\ w.input = s.input
    BY <1>1 DEF Port
  <2>2. WriteRxSt(s, ie) = UpdateRxIrq(RxQueueCheck(w))
    BY DEF WriteRxSt
  <2> HIDE DEF w
  <2>3. Edge(w) /\ Waiting(w) = Waiting(s)
    BY <1>1, <2>1 DEF Edge, Waiting, Prefix
  <2>4. Good(RxQueueCheck(w)) /\ Waiting(RxQueueCheck(w)) = Waiting(w)
    BY <2>1, <2>3, RxQueueCheckCorrect, RxQueueCheckWaiting
  <2> QED
    BY <2>2, <2>3, <2>4, UpdateRxIrqWaiting DEF Good, Level
<1>5. ASSUME NEW t \in Port
      PROVE  Waiting(UpdateTxIrq(t)) = Waiting(t)
  <2> DEFINE active == t.tx_ie /\ t.tx_ready
             ip1 == SetInterruptSignal(t.ip, tx_irq_level, active)
             u == [t EXCEPT !.tx_irq_active = active, !.ip = ip1]
  <2>1. UpdateTxIrq(t) = t \/ UpdateTxIrq(t) = u
    BY DEF UpdateTxIrq
  <2> HIDE DEF active, ip1
  <2>2. u.rx_ready = t.rx_ready /\ u.rx_data = t.rx_data /\ u.input = t.input
    BY DEF Port
  <2> HIDE DEF u
  <2> QED
    BY <2>1, <2>2 DEF Waiting, Prefix
<1>6. Waiting(WriteTxSt(s, ie)) = Waiting(s)
  <2> DEFINE w == [s EXCEPT !.tx_ie = ie]
  <2>1. w \in Port /\ w.rx_ready = s.rx_ready /\ w.rx_data = s.rx_data /\ w.input = s.input
    BY <1>1 DEF Port
  <2>2. WriteTxSt(s, ie) = UpdateTxIrq(w)
    BY DEF WriteTxSt
  <2> HIDE DEF w
  <2>3. Waiting(w) = Waiting(s)
    BY <2>1 DEF Waiting, Prefix
  <2> QED
    BY <1>5, <2>1, <2>2, <2>3
<1>7. Waiting(WriteTxData(s)) = Waiting(s)
  BY <1>1, <1>5 DEF WriteTxData
<1> QED
  BY <1>2, <1>3, <1>4, <1>6, <1>7

\* A change of the input line that the prefix in rx_data does not see.
LEMMA InputWaiting ==
    ASSUME NEW s, Good(s), NEW text \in Seq(Chars)
    PROVE  Waiting(RxQueueCheck([s EXCEPT !.input = text])) = Prefix(s) \o text
<1> DEFINE w == [s EXCEPT !.input = text]
<1>1. w \in Port /\ w.ip = s.ip /\ w.rx_irq_active = s.rx_irq_active
      /\ w.rx_ready = s.rx_ready /\ w.rx_data = s.rx_data /\ w.input = text
  BY DEF Good, Port
<1> HIDE DEF w
<1>2. Edge(w) /\ Waiting(w) = Prefix(s) \o text
  BY <1>1 DEF Good, Level, Edge, Waiting, Prefix
<1>3. Waiting(RxQueueCheck(w)) = Waiting(w)
  BY <1>1, <1>2, RxQueueCheckWaiting
<1> QED
  BY <1>2, <1>3 DEF w

\* Every step is a step of the queue or leaves it alone.
LEMMA StepOfFifo ==
    ASSUME IInv, NEW brk \in BOOLEAN, Step(brk)
    PROVE  \/ Waiting(sp') = Waiting(sp) /\ got' = got
           \/ /\ Waiting(sp) # <<>> /\ got' = Head(Waiting(sp))
              /\ Waiting(sp') = Tail(Waiting(sp))
           \/ Waiting(sp) = <<>> /\ got' = NoChar /\ Waiting(sp') = Waiting(sp)
<1> DEFINE fp == FetchPort(brk)
<1>1. Good(sp) /\ Good(fp)
  BY FetchCorrect DEF IInv
<1>2. SameReceiver(fp, sp) /\ Waiting(fp) = Waiting(sp)
  BY <1>1, OtherLineWaiting DEF FetchPort, SameReceiver
<1>3. CASE sp' = fp /\ got' = got
  BY <1>2, <1>3
<1>4. CASE MoveToTimer(brk)
  <2>1. sp' = [fp EXCEPT !.ip = TimerWritten(fp.ip)] /\ got' = got
    BY <1>4 DEF MoveToTimer
  <2> HIDE DEF fp
  <2> QED
    BY <1>1, <1>2, <2>1, OtherLineWaiting
<1>5. CASE AccessPort(brk)
  <2>1. /\ \/ sp' = ReadRxSt(fp)
           \/ \E ie \in BOOLEAN : sp' = WriteRxSt(fp, ie)
           \/ sp' = WriteTxData(fp)
           \/ \E ie \in BOOLEAN : sp' = WriteTxSt(fp, ie)
        /\ got' = got
    BY <1>5 DEF AccessPort
  <2> HIDE DEF fp
  <2>2. Waiting(sp') = Waiting(fp)
    BY <1>1, <2>1, AccessWaiting
  <2> QED
    BY <1>2, <2>1, <2>2
<1>6. CASE ReceiveChar(brk)
  <2>1. sp' = ReadRxData(fp) /\ got' = ReceivedChar(sp)
    BY <1>6 DEF ReceiveChar
  <2> HIDE DEF fp
  <2> QED
    BY <1>1, <1>2, <2>1, ReadRxDataWaiting
<1> QED
  BY <1>3, <1>4, <1>5, <1>6
  DEF Step, TakeException, Other, SkipSlot, Trap, Eret, MoveToStatus

LEMMA UserOfFifo ==
    ASSUME IInv, Terminal \/ MemoryView
    PROVE  /\ got' = got
           /\ \/ Waiting(sp') = Waiting(sp)
              \/ \E c \in Chars : Waiting(sp') = Append(Waiting(sp), c)
              \/ \E n \in 0 .. Len(Waiting(sp)) : Waiting(sp') = SubSeq(Waiting(sp), 1, n)
<1>1. Good(sp) /\ sp.input \in Seq(Chars) /\ sp.input \in Text /\ Prefix(sp) \in Text
  BY PortText DEF IInv, Good, Port
<1>2. got' = got
  BY DEF Terminal, MemoryView
<1>3. CASE \E c \in Chars : sp' = TypeChar(sp, c)
  <2>1. PICK c \in Chars : sp' = TypeChar(sp, c)
    BY <1>3
  <2>2. Append(sp.input, c) \in Seq(Chars)
    BY <1>1
  <2>3. Waiting(sp') = Prefix(sp) \o Append(sp.input, c)
    BY <1>1, <2>1, <2>2, InputWaiting DEF TypeChar
  <2>4. Waiting(sp') = Append(Waiting(sp), c)
    BY <1>1, <2>3, ConcatAppend DEF Waiting
  <2> QED
    BY <1>2, <2>4
<1>4. CASE \E n \in 0 .. (Len(sp.input) - 1) : sp' = EraseInput(sp, n)
  <2>1. PICK n \in 0 .. (Len(sp.input) - 1) : sp' = EraseInput(sp, n)
    BY <1>4
  <2>2. n \in 0 .. Len(sp.input) /\ SubSeq(sp.input, 1, n) \in Seq(Chars)
    BY <1>1
  <2>3. Waiting(sp') = Prefix(sp) \o SubSeq(sp.input, 1, n)
    BY <1>1, <2>1, <2>2, InputWaiting DEF EraseInput
  <2>4. /\ Len(Prefix(sp)) + n \in 0 .. Len(Waiting(sp))
        /\ Waiting(sp') = SubSeq(Waiting(sp), 1, Len(Prefix(sp)) + n)
    BY <1>1, <2>2, <2>3, ConcatSubSeq DEF Waiting
  <2> QED
    BY <1>2, <2>4
<1>5. CASE MemoryView
  <2>1. Waiting(sp') = Waiting(sp)
    BY <1>1, <1>5, AccessWaiting DEF MemoryView
  <2> QED
    BY <1>2, <2>1
<1> QED
  BY <1>3, <1>4, <1>5 DEF Terminal

LEMMA NextOfFifo ==
    ASSUME IInv, [Next]_vars
    PROVE  [Fifo!Next]_<<Waiting(sp), got>>
<1> DEFINE w == Waiting(sp)
<1>1. w \in Text
  BY PortText DEF IInv, Good
<1>2. CASE Steps
  <2>1. w' = Waiting(sp')
    BY DEF Waiting, Prefix
  <2> QED
    BY <1>2, <2>1, StepOfFifo
    DEF Steps, Fifo!Next, Fifo!Receive, Fifo!ReceiveNothing, Waiting, Prefix
<1>3. CASE Terminal \/ MemoryView
  BY <1>3, UserOfFifo DEF Fifo!Next, Fifo!Type, Fifo!Erase, Waiting, Prefix
<1>4. CASE Restart \/ UNCHANGED vars
  BY <1>4 DEF Restart, vars, Waiting, Prefix
<1> QED
  BY <1>2, <1>3, <1>4 DEF Next

\* The port and the terminal implement the queue CharFifo: a character that
\* was typed is received once, after the ones typed before it, whatever the
\* memory view reads, and although taking a character from the input line calls
\* rx_queue_check again from inside of pool_rx_byte.
THEOREM CharactersInOrder == Spec => CharsInOrder
<1>1. Init => Fifo!Init
  <2> SUFFICES ASSUME Init PROVE Fifo!Init
    OBVIOUS
  <2>1. Waiting(sp) = <<>> \o <<>> /\ got = NoChar
    BY DEF Init, SerialReset, Waiting, Prefix
  <2>2. <<>> \in Text
    BY DEF Text
  <2>3. Waiting(sp) = <<>>
    BY <2>1, <2>2, ConcatEmpty
  <2> QED
    BY <2>1, <2>3 DEF Fifo!Init, Waiting, Prefix
<1>2. IInv /\ [Next]_vars => [Fifo!Next]_<<Waiting(sp), got>>
  BY NextOfFifo
<1> QED
  BY <1>1, <1>2, InvariantInductive, PTL DEF Spec, CharsInOrder, Fifo!Spec, Waiting, Prefix

=============================================================================
