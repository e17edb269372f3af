----------------------------- MODULE TextProofs -----------------------------
(***************************************************************************)
(* Proofs about printf, for every format, buffer and width of an integer,  *)
(* and about string.c, for every memory.                                   *)
(***************************************************************************)
EXTENDS PrintF, StringLib, Iteration, FiniteSetTheorems, TLAPS

(***************************************************************************)
(* printf: what number makes of a number, read back.  The digits are the   *)
(* value of DigitsOf for every number (Iteration shows that its recursive  *)
(* function exists), the pieces around them are spaces, a sign, a prefix   *)
(* and zeros, in the shape that ReadsAs takes apart again.                 *)
(***************************************************************************)

Bases == {8, 10, 16}
Alphabets == {small_digits, large_digits}
DigitChars == {small_digits[d + 1] : d \in 0..15} \cup {large_digits[d + 1] : d \in 0..15}

\* The chars that stand for the numbers from 0.
LEMMA DigitsTable ==
  /\ \A d, e \in 0..15 : small_digits[d + 1] = small_digits[e + 1] => d = e
  /\ \A d, e \in 0..15 : large_digits[d + 1] = large_digits[e + 1] => d = e
  /\ \A d, e \in 0..15 : small_digits[d + 1] = large_digits[e + 1] => d = e
  /\ DigitChars \cap {Space, "-", "+", "x", "X"} = {}
<1>1. 0..15 = {0, 1, 2, 3, 4, 5, 6, 7, 8, 9, 10, 11, 12, 13, 14, 15}
  OBVIOUS
<1>3. \A d, e \in 0..15 : small_digits[d + 1] = small_digits[e + 1] => d = e
  BY <1>1 DEF small_digits
<1>4. \A d, e \in 0..15 : large_digits[d + 1] = large_digits[e + 1] => d = e
  BY <1>1 DEF large_digits
<1>5. \A d, e \in 0..15 : small_digits[d + 1] = large_digits[e + 1] => d = e
  BY <1>1 DEF small_digits, large_digits
<1>6. \A d \in 0..15 : {small_digits[d + 1], large_digits[d + 1]} \cap {Space, "-", "+", "x", "X"} = {}
  BY <1>1 DEF small_digits, large_digits, Space
<1>7. DigitChars \cap {Space, "-", "+", "x", "X"} = {}
  BY <1>6 DEF DigitChars
<1>8. QED BY <1>3, <1>4, <1>5, <1>7

LEMMA DigitIs ==
  ASSUME NEW d \in 0..15, NEW digits \in Alphabets
  PROVE  digits[d + 1] \in DigitChars /\ DigitOf(digits[d + 1]) = d
<1>1. digits[d + 1] \in {small_digits[d + 1], large_digits[d + 1]}
  BY DEF Alphabets
<1>2. \A e \in 0..15 : digits[d + 1] \in {small_digits[e + 1], large_digits[e + 1]} => e = d
  <2> TAKE e \in 0..15
  <2>1. QED BY <1>1, DigitsTable
<1>3. QED BY <1>1, <1>2 DEF DigitOf, DigitChars

LEMMA DigitValue ==
  ASSUME NEW c \in DigitChars
  PROVE  /\ DigitOf(c) \in 0..15
         /\ c # Space /\ c # "-" /\ c # "+" /\ c # "x" /\ c # "X"
<1>1. PICK d \in 0..15, digits \in Alphabets : c = digits[d + 1]
  BY DEF DigitChars, Alphabets
<1>2. DigitOf(c) = d
  BY <1>1, DigitIs
<1>3. QED BY <1>2, DigitsTable

LEMMA QuotientIs ==
  ASSUME NEW n \in Nat, NEW d \in Nat \ {0}
  PROVE  /\ n \div d \in Nat /\ n % d \in 0..d-1 /\ n = d * (n \div d) + (n % d)
OBVIOUS

\* One step of the conversion: the last digit, and what is in front of it.
LEMMA BaseDivides ==
  ASSUME NEW n \in Nat, NEW base \in Bases
  PROVE  /\ n \div base \in Nat /\ n % base \in 0..base-1 /\ n % base \in 0..15
         /\ n = (n \div base) * base + (n % base)
         /\ n < base => n \in 0..15
         /\ ~ (n < base) => n \div base \in 0..n-1
<1> DEFINE q == n \div base
           m == n % base
<1>1. /\ q \in Nat /\ m \in 0..base-1 /\ n = base * q + m
  <2>1. base \in Nat \ {0}
    BY DEF Bases
  <2>2. QED BY <2>1, QuotientIs
<1> HIDE DEF q, m
<1> DEFINE Goal == /\ q \in Nat /\ m \in 0..base-1 /\ m \in 0..15
                   /\ n = q * base + m
                   /\ n < base => n \in 0..15
                   /\ ~ (n < base) => q \in 0..n-1
<1>2. ASSUME base = 8 PROVE Goal
  BY <1>1, <1>2
<1>3. ASSUME base = 10 PROVE Goal
  BY <1>1, <1>3
<1>4. ASSUME base = 16 PROVE Goal
  BY <1>1, <1>4
<1>5. Goal
  <2> HIDE DEF Goal
  <2>1. QED BY <1>2, <1>3, <1>4 DEF Bases
<1>6. QED BY <1>5 DEF Goal, q, m

\* The function that DigitsOf iterates.
DigitsFrom(base, digits) ==
  CHOOSE of : of = [n \in Nat |-> IF n < base THEN <<digits[n + 1]>>
                                  ELSE Append(of[n \div base], digits[(n % base) + 1])]

LEMMA DigitsFromIs ==
  ASSUME NEW base \in Bases, NEW digits \in Alphabets
  PROVE  LET of == DigitsFrom(base, digits)
         IN /\ of \in [Nat -> Seq(DigitChars)] /\ \A n \in Nat : Len(of[n]) >= 1
            /\ \A n \in Nat : of[n] = IF n < base THEN <<digits[n + 1]>>
                                      ELSE Append(of[n \div base], digits[(n % base) + 1])
<1> DEFINE A == Seq(DigitChars)
           Turn(f) == [n \in Nat |-> IF n < base THEN <<digits[n + 1]>>
                                     ELSE Append(f[n \div base], digits[(n % base) + 1])]
           phi == [f \in [Nat -> A] |-> Turn(f)]
<1>1. ASSUME NEW f \in [Nat -> A] PROVE Turn(f) \in [Nat -> A]
  <2>1. SUFFICES ASSUME NEW n \in Nat
                 PROVE  (IF n < base THEN <<digits[n + 1]>>
                         ELSE Append(f[n \div base], digits[(n % base) + 1])) \in A
    OBVIOUS
  <2>2. CASE n < base
    <3>1. digits[n + 1] \in DigitChars
      BY <2>2, BaseDivides, DigitIs
    <3>2. QED BY <2>2, <3>1
  <2>3. CASE ~ (n < base)
    <3>1. digits[(n % base) + 1] \in DigitChars /\ n \div base \in Nat
      BY BaseDivides, DigitIs
    <3>2. f[n \div base] \in A
      BY <3>1
    <3> HIDE DEF Turn
    <3>3. QED BY <2>3, <3>1, <3>2
  <2>4. QED BY <2>2, <2>3
<1>2. phi \in [[Nat -> A] -> [Nat -> A]]
  <2> HIDE DEF Turn, A
  <2> QED BY <1>1
<1>3. ASSUME NEW f \in [Nat -> A], NEW g \in [Nat -> A], NEW x \in Nat, \A y \in 0..x-1 : f[y] = g[y]
      PROVE  phi[f][x] = phi[g][x]
  <2>1. x < base \/ x \div base \in 0..x-1
    BY BaseDivides
  <2>2. Turn(f)[x] = Turn(g)[x]
    BY <1>3, <2>1
  <2> HIDE DEF Turn, A
  <2>3. QED BY <2>2
<1>4. Causal(A, phi)
  <2> HIDE DEF phi, A
  <2> QED BY <1>2, <1>3 DEF Causal
<1>5. PICK f \in [Nat -> A] : f = phi[f]
  <2>1. <<>> \in A
    OBVIOUS
  <2> HIDE DEF phi, A
  <2>2. QED BY <1>4, <2>1, FixedPointOnNat
<1>6. f = Turn(f)
  <2> HIDE DEF Turn, A
  <2> QED BY <1>5
<1> DEFINE of == DigitsFrom(base, digits)
<1>7. of = Turn(of)
  BY <1>6 DEF DigitsFrom
<1> HIDE DEF of, A
<1>8. \A n \in Nat : of[n] \in A
  <2> DEFINE S == {n \in Nat : \A x \in 0..n-1 : of[x] \in A}
  <2>1. 0 \in S
    OBVIOUS
  <2>2. ASSUME NEW n \in S PROVE n + 1 \in S
    <3>1. n \in Nat /\ n + 1 \in Nat /\ \A x \in 0..n-1 : of[x] \in A
      OBVIOUS
    <3>2. of[n] = IF n < base THEN <<digits[n + 1]>> ELSE Append(of[n \div base], digits[(n % base) + 1])
      BY <1>7, <3>1
    <3>3. of[n] \in A
      <4>1. CASE n < base
        <5>1. digits[n + 1] \in DigitChars
          BY <3>1, <4>1, BaseDivides, DigitIs
        <5>2. QED BY <3>2, <4>1, <5>1 DEF A
      <4>2. CASE ~ (n < base)
        <5>1. digits[(n % base) + 1] \in DigitChars /\ n \div base \in 0..n-1
          BY <3>1, <4>2, BaseDivides, DigitIs
        <5>2. of[n \div base] \in A
          BY <3>1, <5>1
        <5>3. QED BY <3>2, <4>2, <5>1, <5>2 DEF A
      <4>3. QED BY <4>1, <4>2
    <3>4. \A x \in 0..(n + 1)-1 : x \in 0..n-1 \/ x = n
      BY <3>1
    <3>5. QED BY <3>1, <3>3, <3>4
  <2>3. S = Nat
    <3>1. S \in SUBSET Nat
      OBVIOUS
    <3> HIDE DEF S
    <3>2. QED BY <2>1, <2>2, <3>1, Inductive
  <2>4. \A n \in Nat : n + 1 \in S
    <3> HIDE DEF S
    <3>1. QED BY <2>3
  <2>5. QED BY <2>4
<1>9. \A n \in Nat : of[n] = IF n < base THEN <<digits[n + 1]>>
                               ELSE Append(of[n \div base], digits[(n % base) + 1])
  BY <1>7
<1>10. of \in [Nat -> A]
  <2>1. of = [n \in Nat |-> of[n]]
    BY <1>7
  <2> HIDE DEF Turn
  <2>2. QED BY <1>8, <2>1
<1>11. ASSUME NEW n \in Nat PROVE Len(of[n]) >= 1
  <2>1. CASE n < base
    <3>1. of[n] = <<digits[n + 1]>>
      BY <1>9, <2>1
    <3>2. Len(<<digits[n + 1]>>) = 1
      OBVIOUS
    <3>3. QED BY <3>1, <3>2
  <2>2. CASE ~ (n < base)
    <3>1. n \div base \in Nat
      BY BaseDivides
    <3>2. of[n \div base] \in Seq(DigitChars)
      BY <1>10, <3>1 DEF A
    <3>3. of[n] = Append(of[n \div base], digits[(n % base) + 1])
      BY <1>9, <2>2
    <3>4. QED BY <3>2, <3>3
  <2>3. QED BY <2>1, <2>2
<1>12. QED BY <1>9, <1>10, <1>11 DEF of, A

-----------------------------------------------------------------------------
(* What digits are worth.                                                  *)

Worths(s, base) ==
  CHOOSE value : value = [k \in 0..Len(s) |-> IF k = 0 THEN 0 ELSE value[k - 1] * base + DigitOf(s[k])]

LEMMA ValuesAre ==
  ASSUME NEW base \in Bases, NEW s \in Seq(DigitChars)
  PROVE  LET value == Worths(s, base)
         IN /\ value \in [0..Len(s) -> Nat] /\ value[0] = 0 /\ ValueOf(s, base) = value[Len(s)]
            /\ \A k \in 1..Len(s) : value[k] = value[k - 1] * base + DigitOf(s[k])
<1> DEFINE n == Len(s)
           Turn == [k \in 1..n |-> [v \in Nat |-> v * base + DigitOf(s[k])]]
<1>1. n \in Nat /\ base \in Nat /\ \A k \in 1..n : DigitOf(s[k]) \in Nat
  <2>1. \A k \in 1..n : s[k] \in DigitChars
    OBVIOUS
  <2>2. \A k \in 1..n : DigitOf(s[k]) \in 0..15
    BY <2>1, DigitValue
  <2>3. QED BY <2>2 DEF Bases
<1> HIDE DEF n
<1>2. Turn \in [1..n -> [Nat -> Nat]]
  <2>1. \A k \in 1..n : \A v \in Nat : v * base + DigitOf(s[k]) \in Nat
    BY <1>1
  <2>2. QED BY <2>1
<1>3. PICK g : Steps(g, n, Nat, 0, Turn)
  <2> HIDE DEF Turn
  <2>1. QED BY <1>1, <1>2, StepsExist
<1>4. g \in [0..n -> Nat] /\ g[0] = 0 /\ \A k \in 1..n : g[k] = g[k - 1] * base + DigitOf(s[k])
  <2>1. g \in [0..n -> Nat] /\ g[0] = 0 /\ \A k \in 1..n : g[k] = Turn[k][g[k - 1]]
    BY <1>3 DEF Steps
  <2>2. ASSUME NEW k \in 1..n PROVE g[k] = g[k - 1] * base + DigitOf(s[k])
    <3>1. k - 1 \in 0..n /\ g[k - 1] \in Nat
      BY <1>1, <2>1
    <3>2. QED BY <2>1, <3>1
  <2>3. QED BY <2>1, <2>2
<1>5. g = [k \in 0..n |-> IF k = 0 THEN 0 ELSE g[k - 1] * base + DigitOf(s[k])]
  <2>1. \A k \in 0..n : k = 0 \/ k \in 1..n
    BY <1>1
  <2>2. g = [k \in 0..n |-> g[k]]
    BY <1>4
  <2>3. QED BY <1>1, <1>4, <2>1, <2>2
<1> DEFINE value == Worths(s, base)
<1>6. value = [k \in 0..n |-> IF k = 0 THEN 0 ELSE value[k - 1] * base + DigitOf(s[k])]
  BY <1>5 DEF Worths, n
<1> HIDE DEF value
<1>7. /\ value[0] = 0 /\ \A k \in 1..n : value[k] = value[k - 1] * base + DigitOf(s[k])
  <2>1. 0 \in 0..n /\ \A k \in 1..n : k \in 0..n /\ k # 0
    BY <1>1
  <2>2. QED BY <1>6, <2>1
<1>8. \A k \in 0..n : value[k] \in Nat
  <2> DEFINE S == {k \in Nat : k <= n => value[k] \in Nat}
  <2>1. 0 \in S
    BY <1>7
  <2>2. ASSUME NEW k \in S PROVE k + 1 \in S
    <3>1. SUFFICES ASSUME k + 1 <= n PROVE value[k + 1] \in Nat
      OBVIOUS
    <3>2. k \in Nat /\ k + 1 \in 1..n /\ (k + 1) - 1 = k /\ value[k] \in Nat
      BY <1>1, <3>1
    <3> HIDE DEF S
    <3>3. value[k + 1] = value[k] * base + DigitOf(s[k + 1]) /\ DigitOf(s[k + 1]) \in Nat
      BY <1>1, <1>7, <3>2
    <3>4. QED BY <1>1, <3>2, <3>3
  <2>3. S = Nat
    <3>1. S \in SUBSET Nat
      OBVIOUS
    <3> HIDE DEF S
    <3>2. QED BY <2>1, <2>2, <3>1, Inductive
  <2>4. QED BY <2>3
<1>9. value \in [0..n -> Nat]
  <2>1. value = [k \in 0..n |-> value[k]]
    BY <1>6
  <2>2. QED BY <1>8, <2>1
<1>10. ValueOf(s, base) = value[n]
  BY DEF ValueOf, value, Worths, n
<1>11. QED BY <1>7, <1>9, <1>10 DEF n, value

\* The same digits in front are worth the same.
LEMMA ValuesAgree ==
  ASSUME NEW base \in Bases, NEW s \in Seq(DigitChars), NEW t \in Seq(DigitChars), NEW n \in Nat,
         n <= Len(s), n <= Len(t), \A k \in 1..n : s[k] = t[k]
  PROVE  Worths(s, base)[n] = Worths(t, base)[n]
<1> DEFINE v == Worths(s, base)
           w == Worths(t, base)
           S == {k \in Nat : k <= n => v[k] = w[k]}
<1>1. /\ v[0] = 0 /\ \A k \in 1..Len(s) : v[k] = v[k - 1] * base + DigitOf(s[k])
      /\ w[0] = 0 /\ \A k \in 1..Len(t) : w[k] = w[k - 1] * base + DigitOf(t[k])
  BY ValuesAre
<1> HIDE DEF v, w
<1>2. 0 \in S
  BY <1>1
<1>3. ASSUME NEW k \in S PROVE k + 1 \in S
  <2>1. SUFFICES ASSUME k + 1 <= n PROVE v[k + 1] = w[k + 1]
    OBVIOUS
  <2>2. /\ k \in Nat /\ k + 1 \in 1..n /\ k + 1 \in 1..Len(s) /\ k + 1 \in 1..Len(t) /\ (k + 1) - 1 = k
        /\ v[k] = w[k]
    BY <2>1
  <2> HIDE DEF S
  <2>3. QED BY <1>1, <2>2
<1>4. S = Nat
  <2>1. S \in SUBSET Nat
    OBVIOUS
  <2> HIDE DEF S
  <2>2. QED BY <1>2, <1>3, <2>1, Inductive
<1>5. v[n] = w[n]
  BY <1>4
<1>6. QED BY <1>5 DEF v, w

\* One more digit behind.
LEMMA ValueOfAppend ==
  ASSUME NEW base \in Bases, NEW s \in Seq(DigitChars), NEW c \in DigitChars
  PROVE  ValueOf(Append(s, c), base) = ValueOf(s, base) * base + DigitOf(c)
<1> DEFINE t == Append(s, c)
           n == Len(s)
<1>1. /\ n \in Nat /\ t \in Seq(DigitChars) /\ Len(t) = n + 1 /\ t[n + 1] = c /\ \A k \in 1..n : t[k] = s[k]
  OBVIOUS
<1> HIDE DEF t
<1>2. Worths(s, base)[n] = Worths(t, base)[n]
  BY <1>1, ValuesAgree
<1>3. n + 1 \in 1..Len(t) /\ (n + 1) - 1 = n
  BY <1>1
<1>4. Worths(t, base)[n + 1] = Worths(t, base)[n] * base + DigitOf(c)
  BY <1>1, <1>3, ValuesAre
<1>5. ValueOf(s, base) = Worths(s, base)[n] /\ ValueOf(t, base) = Worths(t, base)[n + 1]
  BY <1>1, ValuesAre
<1>6. QED BY <1>2, <1>4, <1>5 DEF t

\* The same char n times.
LEMMA TimesIs ==
  ASSUME NEW n \in Int, NEW c, NEW A, c \in A
  PROVE  /\ Times(c, n) \in Seq(A) /\ Len(Times(c, n)) = IF n > 0 THEN n ELSE 0
         /\ \A k \in 1..Len(Times(c, n)) : Times(c, n)[k] = c
<1> DEFINE m == IF n > 0 THEN n ELSE 0
<1>1. Max({0, n}) = m
  <2>1. m \in {0, n} /\ \A y \in {0, n} : m >= y
    OBVIOUS
  <2>2. \A z \in {0, n} : (\A y \in {0, n} : z >= y) => z = m
    OBVIOUS
  <2> HIDE DEF m
  <2>3. QED BY <2>1, <2>2 DEF Max
<1>2. m \in Nat
  OBVIOUS
<1> HIDE DEF m
<1>3. Times(c, n) = [k \in 1..m |-> c]
  BY <1>1 DEF Times
<1>4. Times(c, n) \in Seq(A) /\ Len(Times(c, n)) = m
  BY <1>2, <1>3
<1>5. QED BY <1>3, <1>4 DEF m

LEMMA TimesAre ==
  ASSUME NEW n \in Nat, NEW c
  PROVE  /\ Times(c, n) \in Seq({c}) /\ Len(Times(c, n)) = n
         /\ \A k \in 1..n : Times(c, n)[k] = c
<1>1. n \in Int /\ c \in {c} /\ (IF n > 0 THEN n ELSE 0) = n
  OBVIOUS
<1>2. /\ Times(c, n) \in Seq({c}) /\ Len(Times(c, n)) = IF n > 0 THEN n ELSE 0
      /\ \A k \in 1..Len(Times(c, n)) : Times(c, n)[k] = c
  BY <1>1, TimesIs
<1>3. Len(Times(c, n)) = n
  BY <1>1, <1>2
<1>4. QED BY <1>2, <1>3

LEMMA TimesOneMore ==
  ASSUME NEW n \in Nat, NEW c
  PROVE  Times(c, n + 1) = Append(Times(c, n), c)
<1>1. /\ Times(c, n) \in Seq({c}) /\ Len(Times(c, n)) = n /\ \A k \in 1..n : Times(c, n)[k] = c
  BY TimesAre
<1>2. /\ Times(c, n + 1) \in Seq({c}) /\ Len(Times(c, n + 1)) = n + 1 /\ \A k \in 1..n + 1 : Times(c, n + 1)[k] = c
  <2>1. n + 1 \in Nat
    OBVIOUS
  <2>2. QED BY <2>1, TimesAre
<1> DEFINE t == Times(c, n)
           u == Times(c, n + 1)
           a == Append(t, c)
<1> HIDE DEF t, u
<1>3. a \in Seq({c}) /\ Len(a) = n + 1 /\ \A k \in 1..n + 1 : a[k] = c
  BY <1>1 DEF t
<1> HIDE DEF a
<1>4. u = a
  BY <1>2, <1>3, SeqEqual DEF u
<1>5. QED BY <1>4 DEF a, t, u

\* Zeros are worth nothing.
LEMMA ValueOfZeros ==
  ASSUME NEW base \in Bases, NEW n \in Nat
  PROVE  ValueOf(Times("0", n), base) = 0
<1>1. "0" \in DigitChars /\ DigitOf("0") = 0
  <2>1. small_digits[0 + 1] = "0"
    BY DEF small_digits
  <2>2. 0 \in 0..15 /\ small_digits \in Alphabets
    BY DEF Alphabets
  <2>3. QED BY <2>1, <2>2, DigitIs
<1> DEFINE Z == {k \in Nat : ValueOf(Times("0", k), base) = 0}
<1>2. 0 \in Z
  <2>1. Times("0", 0) \in Seq(DigitChars) /\ Len(Times("0", 0)) = 0
    BY <1>1, TimesIs
  <2>2. ValueOf(Times("0", 0), base) = 0
    BY <2>1, ValuesAre
  <2>3. QED BY <2>2
<1>3. ASSUME NEW k \in Z PROVE k + 1 \in Z
  <2>1. k \in Nat /\ ValueOf(Times("0", k), base) = 0
    OBVIOUS
  <2>2. Times("0", k) \in Seq(DigitChars)
    BY <1>1, <2>1, TimesIs
  <2>3. ValueOf(Append(Times("0", k), "0"), base) = 0 * base + 0
    BY <1>1, <2>1, <2>2, ValueOfAppend
  <2>4. 0 * base + 0 = 0
    BY DEF Bases
  <2>5. Times("0", k + 1) = Append(Times("0", k), "0")
    BY <2>1, TimesOneMore
  <2>6. ValueOf(Times("0", k + 1), base) = 0
    BY <2>3, <2>4, <2>5
  <2>7. k + 1 \in Nat
    BY <2>1
  <2>8. QED BY <2>6, <2>7
<1>4. Z = Nat
  <2>1. Z \in SUBSET Nat
    OBVIOUS
  <2> HIDE DEF Z
  <2>2. QED BY <1>2, <1>3, <2>1, Inductive
<1>5. QED BY <1>4

LEMMA AppendBehind ==
  ASSUME NEW A, NEW s \in Seq(A), NEW t \in Seq(A), NEW c \in A
  PROVE  /\ s \o Append(t, c) = Append(s \o t, c) /\ s \o t \in Seq(A)
         /\ s \o <<c>> = Append(s, c)
OBVIOUS

\* Zeros and the digits of n are worth n.
LEMMA DigitsAreWorth ==
  ASSUME NEW base \in Bases, NEW digits \in Alphabets, NEW n \in Nat, NEW z \in Nat
  PROVE  ValueOf(Times("0", z) \o DigitsFrom(base, digits)[n], base) = n
<1> DEFINE of == DigitsFrom(base, digits)
           zeros == Times("0", z)
           S == {k \in Nat : \A x \in 0..k-1 : ValueOf(zeros \o of[x], base) = x}
<1>1. zeros \in Seq(DigitChars) /\ ValueOf(zeros, base) = 0
  <2>1. "0" \in DigitChars
    BY DEF DigitChars, small_digits
  <2>2. QED BY <2>1, TimesIs, ValueOfZeros
<1>2. /\ of \in [Nat -> Seq(DigitChars)]
      /\ \A k \in Nat : of[k] = IF k < base THEN <<digits[k + 1]>>
                                ELSE Append(of[k \div base], digits[(k % base) + 1])
  BY DigitsFromIs
<1> HIDE DEF of, zeros
<1>3. 0 \in S
  OBVIOUS
<1>4. ASSUME NEW k \in S PROVE k + 1 \in S
  <2>1. k \in Nat /\ \A x \in 0..k-1 : ValueOf(zeros \o of[x], base) = x
    OBVIOUS
  <2>5. \A x \in 0..(k + 1)-1 : x \in 0..k-1 \/ x = k
    BY <2>1
  <2>2. CASE k < base
    <3>1. k \in 0..15 /\ digits[k + 1] \in DigitChars /\ DigitOf(digits[k + 1]) = k
      BY <2>1, <2>2, BaseDivides, DigitIs
    <3>2. zeros \o of[k] = Append(zeros, digits[k + 1])
      <4>1. of[k] = <<digits[k + 1]>>
        BY <1>2, <2>1, <2>2
      <4>2. QED BY <1>1, <3>1, <4>1, AppendBehind
    <3>3. ValueOf(Append(zeros, digits[k + 1]), base) = 0 * base + k
      BY <1>1, <3>1, ValueOfAppend
    <3>4. 0 * base + k = k
      BY <2>1 DEF Bases
    <3>5. ValueOf(zeros \o of[k], base) = k
      BY <3>1, <3>2, <3>3, <3>4
    <3>6. QED BY <2>1, <3>5, <2>5
  <2>3. CASE ~ (k < base)
    <3> DEFINE q == k \div base
               m == k % base
               c == digits[m + 1]
    <3>1. q \in 0..k-1 /\ m \in 0..15 /\ k = q * base + m
      BY <2>1, <2>3, BaseDivides
    <3>2. c \in DigitChars /\ DigitOf(c) = m
      BY <3>1, DigitIs
    <3>3. of[k] = Append(of[q], c)
      BY <1>2, <2>1, <2>3
    <3> HIDE DEF q, m, c
    <3>4. of[q] \in Seq(DigitChars)
      BY <1>2, <3>1
    <3>5. zeros \o of[k] = Append(zeros \o of[q], c) /\ zeros \o of[q] \in Seq(DigitChars)
      <4> HIDE DEF zeros
      <4>1. of[q] \in Seq(DigitChars) /\ zeros \in Seq(DigitChars) /\ c \in DigitChars
        BY <1>1, <3>2, <3>4
      <4>2. zeros \o Append(of[q], c) = Append(zeros \o of[q], c) /\ zeros \o of[q] \in Seq(DigitChars)
        BY <4>1, AppendBehind
      <4>3. QED BY <3>3, <4>2
    <3>6. ValueOf(Append(zeros \o of[q], c), base) = ValueOf(zeros \o of[q], base) * base + m
      BY <3>2, <3>5, ValueOfAppend
    <3>7. ValueOf(zeros \o of[q], base) = q
      BY <2>1, <3>1
    <3>8. ValueOf(zeros \o of[k], base) = k
      BY <3>1, <3>5, <3>6, <3>7
    <3>9. QED BY <2>1, <3>8, <2>5
  <2>4. QED BY <2>2, <2>3
<1>5. S = Nat
  <2>1. S \in SUBSET Nat
    OBVIOUS
  <2> HIDE DEF S
  <2>2. QED BY <1>3, <1>4, <2>1, Inductive
<1>6. n + 1 \in S
  <2> HIDE DEF S
  <2>1. QED BY <1>5
<1>7. QED BY <1>6 DEF of, zeros

-----------------------------------------------------------------------------
(* The chars of a number: space, its sign, 0x, zeros, its digits, space.   *)

Marks == DigitChars \cup {Space, "-", "+", "x", "X"}

Signs == {<<>>, <<"-">>, <<"+">>}
SignsAndSpace == {<<>>, <<"-">>, <<"+">>, <<Space>>}

PrefixesOf(base) == {<<>>} \cup IF base = 8 THEN {<<"0">>} ELSE IF base = 16 THEN {<<"0", "x">>, <<"0", "X">>} ELSE {}

Core(sign, prefix, z, digits) == sign \o (prefix \o (Times("0", z) \o digits))

\* text shows digits, with sign and prefix, at least width wide.
Shaped(text, a, sign, prefix, z, digits, b, width) ==
  LET core == Core(sign, prefix, z, digits)
  IN /\ text = (Times(Space, a) \o core) \o Times(Space, b)
     /\ width <= a + Len(core) + b

LEMMA SpacesAndZeros ==
  ASSUME NEW n \in Int
  PROVE  /\ Times(Space, n) \in Seq(Marks) /\ Times("0", n) \in Seq(DigitChars) /\ Times("0", n) \in Seq(Marks)
         /\ Len(Times(Space, n)) = IF n > 0 THEN n ELSE 0
         /\ Len(Times("0", n)) = IF n > 0 THEN n ELSE 0
<1>1. Space \in Marks /\ "0" \in DigitChars /\ "0" \in Marks
  BY DEF Marks, DigitChars, small_digits
<1>2. QED BY <1>1, TimesIs

LEMMA TimesJoined ==
  ASSUME NEW m \in Nat, NEW n \in Nat, NEW c
  PROVE  Times(c, m) \o Times(c, n) = Times(c, m + n)
<1> DEFINE s == Times(c, m)
           t == Times(c, n)
           u == Times(c, m + n)
<1>1. /\ s \in Seq({c}) /\ Len(s) = m /\ t \in Seq({c}) /\ Len(t) = n
  BY TimesAre
<1>2. u \in Seq({c}) /\ Len(u) = m + n
  <2>1. m + n \in Nat
    OBVIOUS
  <2>2. QED BY <2>1, TimesAre
<1> HIDE DEF s, t, u
<1>3. s \o t \in Seq({c}) /\ Len(s \o t) = m + n
  BY <1>1, ConcatIs
<1>4. \A k \in 1..m + n : (s \o t)[k] = u[k]
  <2>1. \A k \in 1..m + n : (s \o t)[k] = c
    BY <1>3, ElementOfSeq
  <2>2. \A k \in 1..m + n : u[k] = c
    BY <1>2, ElementOfSeq
  <2>3. QED BY <2>1, <2>2
<1> DEFINE v == s \o t
<1> HIDE DEF v
<1>5. v = u
  BY <1>2, <1>3, <1>4, SeqEqual DEF v
<1>6. QED BY <1>5 DEF s, t, u, v

Associates(s, t, u) == (s \o t) \o u = s \o (t \o u)

LEMMA ConcatAssociates ==
  ASSUME NEW A, NEW s \in Seq(A), NEW t \in Seq(A), NEW u \in Seq(A)
  PROVE  Associates(s, t, u)
BY ConcatAssociative, SMTT(20) DEF Associates

Regroups(s1, s2, s3, s4, s5) == (((s1 \o s2) \o s3) \o s4) \o s5 = s1 \o (s2 \o (s3 \o (s4 \o s5)))

LEMMA Regrouped ==
  ASSUME NEW A, NEW s1 \in Seq(A), NEW s2 \in Seq(A), NEW s3 \in Seq(A), NEW s4 \in Seq(A), NEW s5 \in Seq(A)
  PROVE  Regroups(s1, s2, s3, s4, s5)
<1> DEFINE s12 == s1 \o s2
           s45 == s4 \o s5
           s123 == s12 \o s3
           s345 == s3 \o s45
<1>1. s45 \in Seq(A) /\ s12 \in Seq(A)
  BY ConcatProperties
<1> HIDE DEF s12, s45
<1>2. s123 \in Seq(A) /\ s345 \in Seq(A)
  BY <1>1, ConcatProperties
<1>3. (s12 \o s3) \o s45 = s12 \o (s3 \o s45)
  <2>1. Associates(s12, s3, s45)
    BY <1>1, ConcatAssociates
  <2>2. QED BY <2>1 DEF Associates
<1> HIDE DEF s123, s345
<1>4. (s123 \o s4) \o s5 = s123 \o (s4 \o s5)
  <2>1. Associates(s123, s4, s5)
    BY <1>2, ConcatAssociates
  <2>2. QED BY <2>1 DEF Associates
<1>5. (s1 \o s2) \o s345 = s1 \o (s2 \o s345)
  <2>1. Associates(s1, s2, s345)
    BY <1>2, ConcatAssociates
  <2>2. QED BY <2>1 DEF Associates
<1>6. QED BY <1>3, <1>4, <1>5 DEF s12, s45, s123, s345, Regroups

LEMMA MarksAre == {"0", "x", "X", "-", "+", Space} \subseteq Marks /\ "0" \in DigitChars
<1>1. "0" \in DigitChars
  BY DEF DigitChars, small_digits
<1>2. QED BY <1>1 DEF Marks

LEMMA SignsAre ==
  ASSUME NEW s \in SignsAndSpace
  PROVE  s \in Seq(Marks) /\ Len(s) \in 0..1 /\ (s # <<>> => Len(s) = 1 /\ s[1] \in {"-", "+", Space})
<1>1. CASE s = <<>>
  BY <1>1
<1>2. ASSUME NEW c \in {"-", "+", Space}, s = <<c>>
      PROVE  s \in Seq(Marks) /\ Len(s) = 1 /\ s[1] = c
  <2>1. c \in Marks
    BY MarksAre
  <2>2. <<c>> \in Seq(Marks) /\ Len(<<c>>) = 1 /\ <<c>>[1] = c
    BY <2>1
  <2>3. QED BY <1>2, <2>2
<1>3. s = <<>> \/ \E c \in {"-", "+", Space} : s = <<c>>
  BY DEF SignsAndSpace
<1>4. CASE s # <<>>
  <2>1. PICK c \in {"-", "+", Space} : s = <<c>>
    BY <1>3, <1>4
  <2>2. s \in Seq(Marks) /\ Len(s) = 1 /\ s[1] = c
    BY <1>2, <2>1
  <2>3. 1 \in 0..1
    OBVIOUS
  <2>4. QED BY <2>2, <2>3
<1>5. QED BY <1>1, <1>4

LEMMA SignsAreSigns ==
  ASSUME NEW s \in Signs
  PROVE  /\ s \in SignsAndSpace
         /\ s # <<>> => s[1] \in {"-", "+"}
         /\ s # <<>> => (s[1] = "-" <=> s = <<"-">>)
<1>1. CASE s = <<>>
  BY <1>1 DEF SignsAndSpace
<1>2. CASE s = <<"-">>
  BY <1>2 DEF SignsAndSpace
<1>3. CASE s = <<"+">>
  BY <1>3 DEF SignsAndSpace
<1>4. QED BY <1>1, <1>2, <1>3 DEF Signs

LEMMA PrefixesAre ==
  ASSUME NEW base, NEW s \in PrefixesOf(base)
  PROVE  s \in Seq(Marks) /\ Len(s) \in 0..2
<1>1. s = <<>> \/ s = <<"0">> \/ s = <<"0", "x">> \/ s = <<"0", "X">>
  BY DEF PrefixesOf
<1>2. CASE s = <<>>
  BY <1>2
<1>3. CASE s = <<"0">>
  <2>1. <<"0">> \in Seq(Marks) /\ Len(<<"0">>) = 1
    BY MarksAre
  <2>2. QED BY <1>3, <2>1
<1>4. ASSUME NEW c \in {"x", "X"}, s = <<"0", c>>
      PROVE  s \in Seq(Marks) /\ Len(s) = 2
  <2>1. "0" \in Marks /\ c \in Marks
    BY MarksAre
  <2>2. QED BY <1>4, <2>1
<1>5. QED BY <1>1, <1>2, <1>3, <1>4

\* A space in front that is a sign is space.
LEMMA SpaceIsNoSign ==
  ASSUME NEW a \in Nat, NEW sign \in SignsAndSpace
  PROVE  \E a2 \in Nat, sign2 \in Signs :
            /\ Times(Space, a) \o sign = Times(Space, a2) \o sign2
            /\ a + Len(sign) = a2 + Len(sign2)
            /\ sign2 = <<"-">> <=> sign = <<"-">>
<1>1. CASE sign # <<Space>>
  <2>1. sign \in Signs
    BY <1>1 DEF Signs, SignsAndSpace
  <2>2. QED BY <2>1
<1>2. CASE sign = <<Space>>
  <2>0. a + 1 \in Nat
    OBVIOUS
  <2>1. Times(Space, a) \in Seq({Space}) /\ Times(Space, a + 1) \in Seq({Space}) /\ a + 1 \in Nat
    BY <2>0, TimesAre
  <2>2. Times(Space, a) \o sign = Append(Times(Space, a), Space)
    BY <1>2, <2>1, AppendBehind
  <2>3. Times(Space, a + 1) = Append(Times(Space, a), Space)
    BY TimesOneMore
  <2>4. Times(Space, a + 1) \o <<>> = Times(Space, a + 1)
    BY <2>1, ConcatEmptySeq
  <2>5. a + Len(sign) = (a + 1) + Len(<<>>)
    <3>1. Len(sign) = 1
      BY <1>2
    <3>2. Len(<<>>) = 0
      OBVIOUS
    <3>3. QED BY <3>1, <3>2
  <2>7. ~ (sign = <<"-">>) /\ ~ (<<>> = <<"-">>)
    <3>0. Space # "-"
      BY DEF Space
    <3>1. <<Space>>[1] # <<"-">>[1] /\ Len(<<>>) # Len(<<"-">>)
      BY <3>0
    <3>2. QED BY <1>2, <3>1
  <2>8. <<>> \in Signs
    BY DEF Signs
  <2>6. QED BY <2>1, <2>2, <2>3, <2>4, <2>5, <2>7, <2>8
<1>3. QED BY <1>1, <1>2

\* What Placed puts after each other, with space behind.
LEMMA PlacedIsShaped ==
  ASSUME NEW base \in Bases, NEW a \in Nat, NEW b \in Nat, NEW z \in Nat, NEW digits \in Seq(DigitChars),
         NEW sign \in SignsAndSpace, NEW prefix \in PrefixesOf(base), NEW width \in Int,
         width <= a + Len(sign) + Len(prefix) + z + Len(digits) + b
  PROVE  \E a2 \in Nat, sign2 \in Signs :
            /\ Shaped(Placed(Times(Space, a), sign, prefix, Times("0", z), digits) \o Times(Space, b),
                      a2, sign2, prefix, z, digits, b, width)
            /\ sign2 = <<"-">> <=> sign = <<"-">>
<1>1. PICK a2 \in Nat, sign2 \in Signs :
            /\ Times(Space, a) \o sign = Times(Space, a2) \o sign2
            /\ a + Len(sign) = a2 + Len(sign2)
            /\ sign2 = <<"-">> <=> sign = <<"-">>
  BY SpaceIsNoSign
<1> DEFINE sp == Times(Space, a2)
           zeros == Times("0", z)
<1>2. /\ sp \in Seq(Marks) /\ zeros \in Seq(Marks) /\ digits \in Seq(Marks) /\ sign2 \in Seq(Marks)
      /\ prefix \in Seq(Marks) /\ Len(zeros) = z
  <2>1. sp \in Seq(Marks) /\ zeros \in Seq(Marks) /\ Len(zeros) = z
    <3>1. a2 \in Int /\ z \in Int
      OBVIOUS
    <3>2. (IF z > 0 THEN z ELSE 0) = z
      OBVIOUS
    <3>3. QED BY <3>1, <3>2, SpacesAndZeros
  <2>3. sign2 \in Seq(Marks)
    BY SignsAre, SignsAreSigns
  <2>5. prefix \in Seq(Marks)
    BY PrefixesAre
  <2>6. digits \in Seq(Marks)
    BY SeqMonotonic DEF Marks
  <2>7. QED BY <2>1, <2>3, <2>5, <2>6
<1> HIDE DEF sp, zeros
<1>3. Placed(Times(Space, a), sign, prefix, zeros, digits) = (((sp \o sign2) \o prefix) \o zeros) \o digits
  BY <1>1 DEF Placed, sp
<1>4. (((sp \o sign2) \o prefix) \o zeros) \o digits = sp \o Core(sign2, prefix, z, digits)
  <2>1. (((sp \o sign2) \o prefix) \o zeros) \o digits = sp \o (sign2 \o (prefix \o (zeros \o digits)))
    <3>1. sp \in Seq(Marks) /\ sign2 \in Seq(Marks) /\ prefix \in Seq(Marks) /\ zeros \in Seq(Marks) /\ digits \in Seq(Marks)
      BY <1>2
    <3>2. Regroups(sp, sign2, prefix, zeros, digits)
      BY <3>1, Regrouped
    <3>3. QED BY <3>2 DEF Regroups
  <2>2. QED BY <2>1 DEF Core, zeros
<1>5. Len(Core(sign2, prefix, z, digits)) = Len(sign2) + (Len(prefix) + (z + Len(digits)))
  <2>1. zeros \o digits \in Seq(Marks) /\ Len(zeros \o digits) = z + Len(digits)
    BY <1>2, ConcatProperties
  <2>2. prefix \o (zeros \o digits) \in Seq(Marks) /\ Len(prefix \o (zeros \o digits)) = Len(prefix) + (z + Len(digits))
    BY <1>2, <2>1, ConcatProperties
  <2>3. Len(sign2 \o (prefix \o (zeros \o digits))) = Len(sign2) + (Len(prefix) + (z + Len(digits)))
    <3> DEFINE u == prefix \o (zeros \o digits)
    <3>1. u \in Seq(Marks) /\ Len(u) = Len(prefix) + (z + Len(digits))
      BY <2>2
    <3> HIDE DEF u
    <3>2. Len(sign2 \o u) = Len(sign2) + Len(u)
      BY <1>2, <3>1, ConcatProperties
    <3>3. QED BY <3>1, <3>2 DEF u
  <2>4. QED BY <2>3 DEF Core, zeros
<1>6. width <= a2 + Len(Core(sign2, prefix, z, digits)) + b
  <2>1. Len(sign2) \in Nat /\ Len(prefix) \in Nat /\ Len(digits) \in Nat
    BY <1>2
  <2>2. Len(sign) \in Nat
    <3>1. Len(sign) \in 0..1
      BY SignsAre
    <3>2. QED BY <3>1
  <2>3. QED BY <1>1, <1>5, <2>1, <2>2
<1>7. Shaped(Placed(Times(Space, a), sign, prefix, Times("0", z), digits) \o Times(Space, b),
             a2, sign2, prefix, z, digits, b, width)
  BY <1>3, <1>4, <1>6 DEF Shaped, zeros, sp
<1>8. QED BY <1>1, <1>7

LEMMA LargerOfTwo ==
  ASSUME NEW m \in Int, NEW n \in Int
  PROVE  Max({m, n}) = IF m >= n THEN m ELSE n
<1> DEFINE x == IF m >= n THEN m ELSE n
<1>1. x \in {m, n} /\ \A y \in {m, n} : x >= y
  OBVIOUS
<1>2. \A z \in {m, n} : (\A y \in {m, n} : z >= y) => z = x
  OBVIOUS
<1> HIDE DEF x
<1>3. Max({m, n}) = x
  BY <1>1, <1>2 DEF Max
<1>4. QED BY <1>3 DEF x

LEMMA TimesAtLeastNone ==
  ASSUME NEW c, NEW n \in Int
  PROVE  Times(c, n) = Times(c, IF n > 0 THEN n ELSE 0) /\ Times(c, 0) = <<>>
<1> DEFINE m == IF n > 0 THEN n ELSE 0
<1>1. m \in Int /\ 0 \in Int /\ (IF 0 >= n THEN 0 ELSE n) = m /\ (IF 0 >= m THEN 0 ELSE m) = m
  OBVIOUS
<1> HIDE DEF m
<1>2. Max({0, n}) = m /\ Max({0, m}) = m
  BY <1>1, LargerOfTwo
<1>3. Times(c, n) = Times(c, m)
  BY <1>2 DEF Times
<1>4. Times(c, 0) \in Seq({c}) /\ Len(Times(c, 0)) = 0
  BY TimesAre
<1>5. Times(c, 0) = <<>>
  <2> DEFINE t == Times(c, 0)
  <2> HIDE DEF t
  <2>1. t \in Seq({c}) /\ Len(t) = 0
    BY <1>4 DEF t
  <2>2. t = <<>>
    BY <2>1
  <2>3. QED BY <2>2 DEF t
<1>6. QED BY <1>3, <1>5 DEF m

LEMMA PlacedType ==
  ASSUME NEW A, NEW s1 \in Seq(A), NEW s2 \in Seq(A), NEW s3 \in Seq(A), NEW s4 \in Seq(A), NEW s5 \in Seq(A)
  PROVE  Placed(s1, s2, s3, s4, s5) \in Seq(A)
<1>1. s1 \o s2 \in Seq(A)
  BY ConcatProperties
<1>2. (s1 \o s2) \o s3 \in Seq(A)
  BY <1>1, ConcatProperties
<1>3. ((s1 \o s2) \o s3) \o s4 \in Seq(A)
  BY <1>2, ConcatProperties
<1>4. (((s1 \o s2) \o s3) \o s4) \o s5 \in Seq(A)
  BY <1>3, ConcatProperties
<1>5. QED BY <1>4 DEF Placed

LEMMA DigitsOfIs ==
  ASSUME NEW n \in Int, NEW base \in Bases, NEW digits \in Alphabets
  PROVE  /\ n % UINT \in Nat /\ DigitsOf(n, base, digits) = DigitsFrom(base, digits)[n % UINT]
         /\ DigitsOf(n, base, digits) \in Seq(DigitChars) /\ Len(DigitsOf(n, base, digits)) >= 1
<1>1. UINT \in Nat \ {0}
  BY PrintAssumption
<1>2. n % UINT \in Nat
  BY <1>1
<1>3. DigitsOf(n, base, digits) = DigitsFrom(base, digits)[n % UINT]
  BY DEF DigitsOf, DigitsFrom
<1>4. QED BY <1>2, <1>3, DigitsFromIs

\* The pieces that number puts together.
SignOf(x, type) ==
  IF "SIGN" \notin type THEN <<>> ELSE IF x < 0 THEN <<"-">>
  ELSE IF "PLUS" \in type THEN <<"+">> ELSE IF "SPACE" \in type THEN <<Space>> ELSE <<>>

PrefixOf(base, type) ==
  IF "SPECIAL" \notin type \/ base = 10 THEN <<>> ELSE IF base = 8 THEN <<"0">>
  ELSE <<"0", IF "LARGE" \in type THEN "X" ELSE "x">>

Negative(x, type) == "SIGN" \in type /\ x < 0
AlphabetOf(type) == IF "LARGE" \in type THEN large_digits ELSE small_digits
Shown(x, base, type) == DigitsOf(IF Negative(x, type) THEN -x ELSE x, base, AlphabetOf(type))

PieceWise(x, base, width, precision, type) ==
  LET sign   == SignOf(x, type)
      prefix == PrefixOf(base, type)
      digits == Shown(x, base, type)
      zeros  == Times("0", precision - Len(digits))
      pad    == width - Len(sign) - Len(prefix) - Max({precision, Len(digits)})
  IN IF "LEFT" \in type THEN Placed(<<>>, sign, prefix, zeros, digits) \o Times(Space, pad)
     ELSE IF "ZEROPAD" \in type THEN Placed(<<>>, sign, prefix, Times("0", pad) \o zeros, digits)
     ELSE Placed(Times(Space, pad), sign, prefix, zeros, digits)

LEMMA NumberIsPieceWise ==
  ASSUME NEW x, NEW base, NEW width, NEW precision, NEW type
  PROVE  number(x, base, width, precision, type) = PieceWise(x, base, width, precision, type)
BY DEF number, PieceWise, SignOf, PrefixOf, Shown, Negative, AlphabetOf

LEMMA PiecesAre ==
  ASSUME NEW x \in Int, NEW base \in Bases, NEW type
  PROVE  /\ SignOf(x, type) \in SignsAndSpace
         /\ SignOf(x, type) = <<"-">> <=> Negative(x, type)
         /\ PrefixOf(base, type) \in PrefixesOf(base)
         /\ AlphabetOf(type) \in Alphabets
<1>1. SignOf(x, type) \in SignsAndSpace
  BY DEF SignOf, SignsAndSpace
<1>2. SignOf(x, type) = <<"-">> <=> Negative(x, type)
  <2>1. <<"+">> # <<"-">> /\ <<>> # <<"-">>
    OBVIOUS
  <2>2. <<Space>> # <<"-">>
    <3>1. Space # "-"
      BY DEF Space
    <3>2. <<Space>>[1] = Space /\ <<"-">>[1] = "-"
      OBVIOUS
    <3>3. QED BY <3>1, <3>2
  <2>3. QED BY <2>1, <2>2 DEF SignOf, Negative
<1>3. PrefixOf(base, type) \in PrefixesOf(base)
  BY DEF PrefixOf, PrefixesOf, Bases
<1>4. AlphabetOf(type) \in Alphabets
  BY DEF AlphabetOf, Alphabets
<1>5. QED BY <1>1, <1>2, <1>3, <1>4

NumberShape(text, x, base, width, type) ==
  \E a, z, b \in Nat, sign \in Signs, prefix \in PrefixesOf(base) :
    /\ Shaped(text, a, sign, prefix, z, Shown(x, base, type), b, width)
    /\ sign = <<"-">> <=> Negative(x, type)

LEMMA NumberIsShaped ==
  ASSUME NEW x \in Int, NEW base \in Bases, NEW width \in Int, NEW precision \in Nat \cup {-1}, NEW type
  PROVE  NumberShape(number(x, base, width, precision, type), x, base, width, type)
<1> DEFINE sign   == SignOf(x, type)
           prefix == PrefixOf(base, type)
           digits == Shown(x, base, type)
           most   == IF precision >= Len(digits) THEN precision ELSE Len(digits)
           pad    == width - Len(sign) - Len(prefix) - most
           z      == IF precision - Len(digits) > 0 THEN precision - Len(digits) ELSE 0
           padded == IF pad > 0 THEN pad ELSE 0
           text   == number(x, base, width, precision, type)
<1>1. /\ sign \in SignsAndSpace /\ (sign = <<"-">> <=> Negative(x, type)) /\ prefix \in PrefixesOf(base)
  BY PiecesAre
<1>2. digits \in Seq(DigitChars)
  <2>1. (IF Negative(x, type) THEN -x ELSE x) \in Int
    OBVIOUS
  <2>2. QED BY <2>1, PiecesAre, DigitsOfIs DEF Shown
<1>3. Len(sign) \in Nat /\ Len(prefix) \in Nat /\ Len(digits) \in Nat
  <2>1. Len(sign) \in 0..1
    BY <1>1, SignsAre
  <2>2. Len(prefix) \in 0..2
    BY <1>1, PrefixesAre
  <2>3. Len(digits) \in Nat
    BY <1>2
  <2> HIDE DEF sign, prefix, digits
  <2>4. QED BY <2>1, <2>2, <2>3
<1> HIDE DEF sign, prefix, digits
<1>4. /\ most \in Int /\ pad \in Int /\ z \in Nat /\ padded \in Nat /\ precision - Len(digits) \in Int
      /\ width <= padded + Len(sign) + Len(prefix) + z + Len(digits)
  <2> DEFINE ls == Len(sign)
             lp == Len(prefix)
             ld == Len(digits)
  <2>1. ls \in Nat /\ lp \in Nat /\ ld \in Nat /\ precision \in Int
    BY <1>3
  <2> HIDE DEF ls, lp, ld
  <2>2. most \in Int /\ z + ld = most /\ z \in Nat /\ precision - ld \in Int
    BY <2>1 DEF ld
  <2> HIDE DEF most, z
  <2>3. pad \in Int /\ pad = width - ls - lp - most
    BY <2>1, <2>2 DEF ls, lp
  <2> HIDE DEF pad
  <2>4. padded \in Nat /\ width <= padded + ls + lp + z + ld
    BY <2>1, <2>2, <2>3
  <2> HIDE DEF padded
  <2>5. QED BY <2>2, <2>3, <2>4 DEF ls, lp, ld
<1>5. Max({precision, Len(digits)}) = most
  BY <1>3, LargerOfTwo
<1> HIDE DEF most, pad
<1>6. Times("0", precision - Len(digits)) = Times("0", z)
  BY <1>4, TimesAtLeastNone
<1> HIDE DEF z
<1>7. Times("0", pad) = Times("0", padded) /\ Times(Space, pad) = Times(Space, padded)
  BY <1>4, TimesAtLeastNone
<1>8. Times(Space, 0) = <<>>
  BY TimesAtLeastNone
<1> HIDE DEF padded
<1>9. text = IF "LEFT" \in type THEN Placed(<<>>, sign, prefix, Times("0", z), digits) \o Times(Space, padded)
             ELSE IF "ZEROPAD" \in type THEN Placed(<<>>, sign, prefix, Times("0", padded) \o Times("0", z), digits)
             ELSE Placed(Times(Space, padded), sign, prefix, Times("0", z), digits)
  <2>1. text = PieceWise(x, base, width, precision, type)
    BY NumberIsPieceWise
  <2>2. PieceWise(x, base, width, precision, type) =
             IF "LEFT" \in type THEN Placed(<<>>, sign, prefix, Times("0", precision - Len(digits)), digits) \o Times(Space, pad)
             ELSE IF "ZEROPAD" \in type THEN Placed(<<>>, sign, prefix, Times("0", pad) \o Times("0", precision - Len(digits)), digits)
             ELSE Placed(Times(Space, pad), sign, prefix, Times("0", precision - Len(digits)), digits)
    BY <1>5 DEF PieceWise, sign, prefix, digits, pad
  <2> HIDE DEF text
  <2>3. QED BY <1>6, <1>7, <2>1, <2>2
<1> HIDE DEF text
<1> DEFINE IsPut(a, y, b) ==
             /\ text = Placed(Times(Space, a), sign, prefix, Times("0", y), digits) \o Times(Space, b)
             /\ width <= a + Len(sign) + Len(prefix) + y + Len(digits) + b
<1>10. ASSUME NEW a \in Nat, NEW b \in Nat, NEW y \in Nat, IsPut(a, y, b)
       PROVE  NumberShape(text, x, base, width, type)
  <2>1. PICK a2 \in Nat, sign2 \in Signs :
            /\ Shaped(text, a2, sign2, prefix, y, digits, b, width)
            /\ sign2 = <<"-">> <=> sign = <<"-">>
    BY <1>1, <1>2, <1>10, PlacedIsShaped
  <2>2. QED BY <1>1, <2>1 DEF NumberShape, digits
<1>11. ASSUME NEW a \in Nat, NEW y \in Nat
       PROVE  Placed(Times(Space, a), sign, prefix, Times("0", y), digits) \o Times(Space, 0) =
              Placed(Times(Space, a), sign, prefix, Times("0", y), digits)
  <2>1. Times(Space, a) \in Seq(Marks) /\ Times("0", y) \in Seq(Marks)
    BY SpacesAndZeros
  <2>2. sign \in Seq(Marks) /\ prefix \in Seq(Marks) /\ digits \in Seq(Marks)
    BY <1>1, <1>2, SignsAre, PrefixesAre, SeqMonotonic DEF Marks
  <2>3. Placed(Times(Space, a), sign, prefix, Times("0", y), digits) \in Seq(Marks)
    BY <2>1, <2>2, PlacedType
  <2>4. QED BY <1>8, <2>3, ConcatEmptySeq
<1>12. ASSUME "LEFT" \in type PROVE NumberShape(text, x, base, width, type)
  <2>1. text = Placed(Times(Space, 0), sign, prefix, Times("0", z), digits) \o Times(Space, padded)
    BY <1>8, <1>9, <1>12
  <2>2. width <= 0 + Len(sign) + Len(prefix) + z + Len(digits) + padded
    BY <1>3, <1>4
  <2>3. IsPut(0, z, padded)
    BY <2>1, <2>2
  <2> HIDE DEF IsPut
  <2>4. QED BY <1>4, <1>10, <2>3
<1>13. ASSUME "LEFT" \notin type /\ "ZEROPAD" \in type PROVE NumberShape(text, x, base, width, type)
  <2>1. Times("0", padded) \o Times("0", z) = Times("0", padded + z) /\ padded + z \in Nat
    <3>1. padded + z \in Nat
      BY <1>4
    <3>2. QED BY <1>4, <3>1, TimesJoined
  <2>2. text = Placed(Times(Space, 0), sign, prefix, Times("0", padded + z), digits)
    BY <1>8, <1>9, <1>13, <2>1
  <2>3. text = Placed(Times(Space, 0), sign, prefix, Times("0", padded + z), digits) \o Times(Space, 0)
    BY <1>11, <2>1, <2>2
  <2>4. width <= 0 + Len(sign) + Len(prefix) + (padded + z) + Len(digits) + 0
    BY <1>3, <1>4
  <2>5. IsPut(0, padded + z, 0)
    BY <2>3, <2>4
  <2> HIDE DEF IsPut
  <2>6. QED BY <1>10, <2>1, <2>5
<1>14. ASSUME "LEFT" \notin type /\ "ZEROPAD" \notin type PROVE NumberShape(text, x, base, width, type)
  <2>1. text = Placed(Times(Space, padded), sign, prefix, Times("0", z), digits)
    BY <1>9, <1>14
  <2>2. text = Placed(Times(Space, padded), sign, prefix, Times("0", z), digits) \o Times(Space, 0)
    BY <1>4, <1>11, <2>1
  <2>3. width <= padded + Len(sign) + Len(prefix) + z + Len(digits) + 0
    BY <1>3, <1>4
  <2>4. IsPut(padded, z, 0)
    BY <2>2, <2>3
  <2> HIDE DEF IsPut
  <2>5. QED BY <1>4, <1>10, <2>4
<1>15. QED BY <1>12, <1>13, <1>14 DEF text

-----------------------------------------------------------------------------
(* What a number reads as.                                                 *)

Solid == Marks \ {Space}

LEMMA SolidMarks ==
  DigitChars \subseteq Solid /\ {"-", "+", "x", "X", "0"} \subseteq Solid
<1>1. \A c \in DigitChars : c # Space
  BY DigitValue
<1>2. "-" # Space /\ "+" # Space /\ "x" # Space /\ "X" # Space
  BY DEF Space
<1>3. "0" \in DigitChars
  BY MarksAre
<1>4. QED BY <1>1, <1>2, <1>3, MarksAre DEF Solid, Marks

LEMMA EndsOfInterval ==
  ASSUME NEW m \in Int, NEW n \in Int, m <= n
  PROVE  Min(m..n) = m /\ Max(m..n) = n
<1>1. m \in m..n /\ (\A y \in m..n : m <= y) /\ \A z \in m..n : (\A y \in m..n : z <= y) => z = m
  OBVIOUS
<1>2. n \in m..n /\ (\A y \in m..n : n >= y) /\ \A z \in m..n : (\A y \in m..n : z >= y) => z = n
  OBVIOUS
<1>3. Min(m..n) = m
  BY <1>1 DEF Min
<1>4. Max(m..n) = n
  BY <1>2 DEF Max
<1>5. QED BY <1>3, <1>4

\* c is t behind s, and v is s from m to n.
Joined(c, s, t) ==
  /\ Len(c) = Len(s) + Len(t) /\ \A k \in 1..Len(s) : c[k] = s[k]
  /\ \A k \in 1..Len(t) : c[Len(s) + k] = t[k]

CutOut(v, s, m, n) == Len(v) = n - m + 1 /\ \A k \in 1..n - m + 1 : v[k] = s[m - 1 + k]

LEMMA ConcatJoins ==
  ASSUME NEW A, NEW s \in Seq(A), NEW t \in Seq(A)
  PROVE  s \o t \in Seq(A) /\ Joined(s \o t, s, t)
BY ConcatIs DEF Joined

LEMMA SubSeqCuts ==
  ASSUME NEW A, NEW s \in Seq(A), NEW m \in 1..Len(s), NEW n \in m..Len(s)
  PROVE  SubSeq(s, m, n) \in Seq(A) /\ CutOut(SubSeq(s, m, n), s, m, n)
<1>1. m \in Int /\ n \in Int /\ m <= n /\ \A k \in m..n : k \in 1..Len(s)
  OBVIOUS
<1>2. \A k \in m..n : s[k] \in A
  BY <1>1, ElementOfSeq
<1> DEFINE v == SubSeq(s, m, n)
<1>3. /\ v \in Seq(A) /\ Len(v) = (IF m <= n THEN n - m + 1 ELSE 0)
      /\ \A k \in 1..n - m + 1 : v[k] = s[m + k - 1]
  BY <1>1, <1>2, SubSeqProperties
<1> HIDE DEF v
<1>4. \A k \in 1..n - m + 1 : m + k - 1 = m - 1 + k
  BY <1>1
<1>5. Len(v) = n - m + 1 /\ \A k \in 1..n - m + 1 : v[k] = s[m - 1 + k]
  BY <1>1, <1>3, <1>4
<1>6. QED BY <1>3, <1>5 DEF v, CutOut

\* Space around a core without space.
IsPadded(text, core, a, b) == text = (Times(Space, a) \o core) \o Times(Space, b)

CoreIs(text, core) ==
  /\ Inner(text) = Min(Inner(text))..Max(Inner(text))
  /\ SubSeq(text, Min(Inner(text)), Max(Inner(text))) = core

LEMMA PaddedIs ==
  ASSUME NEW core \in Seq(Solid), Len(core) >= 1, NEW a \in Nat, NEW b \in Nat,
         NEW text, IsPadded(text, core, a, b)
  PROVE  Len(text) = a + Len(core) + b /\ CoreIs(text, core)
<1> DEFINE m == Len(core)
           s == Times(Space, a)
           t == Times(Space, b)
           u == s \o core
<1>1. /\ s \in Seq(Marks) /\ Len(s) = a /\ \A k \in 1..a : s[k] = Space
      /\ t \in Seq(Marks) /\ Len(t) = b /\ \A k \in 1..b : t[k] = Space
  <2>1. Space \in Marks
    BY DEF Marks
  <2>2. s \in Seq({Space}) /\ Len(s) = a /\ \A k \in 1..a : s[k] = Space
    BY TimesAre
  <2>3. t \in Seq({Space}) /\ Len(t) = b /\ \A k \in 1..b : t[k] = Space
    BY TimesAre
  <2> HIDE DEF s, t
  <2>4. s \in Seq(Marks) /\ t \in Seq(Marks)
    BY <2>1, <2>2, <2>3, SeqMonotonic
  <2>5. QED BY <2>2, <2>3, <2>4
<1>2. core \in Seq(Marks) /\ m \in Nat /\ m >= 1 /\ \A k \in 1..m : core[k] # Space
  <2>1. core \in Seq(Marks)
    BY SeqMonotonic DEF Solid
  <2>2. \A k \in 1..m : core[k] \in Solid
    BY ElementOfSeq
  <2>3. QED BY <2>1, <2>2 DEF Solid
<1> HIDE DEF s, t, m, u
<1>3. /\ u \in Seq(Marks) /\ Len(u) = a + m
      /\ \A k \in 1..a : u[k] = s[k]
      /\ \A k \in 1..m : u[a + k] = core[k]
  <2>1. u \in Seq(Marks) /\ Joined(u, s, core)
    BY <1>1, <1>2, ConcatJoins DEF u
  <2>2. QED BY <1>1, <2>1 DEF Joined, m
<1>4. /\ text \in Seq(Marks) /\ Len(text) = (a + m) + b
      /\ \A k \in 1..a + m : text[k] = u[k]
      /\ \A k \in 1..b : text[(a + m) + k] = t[k]
  <2>1. text = u \o t
    BY DEF IsPadded, u, s, t
  <2>2. text \in Seq(Marks) /\ Joined(text, u, t)
    BY <1>1, <1>3, <2>1, ConcatJoins
  <2>3. QED BY <1>1, <1>3, <2>2 DEF Joined
<1>5. ASSUME NEW k \in 1..m PROVE text[a + k] = core[k]
  <2>1. a + k \in 1..a + m
    BY <1>2
  <2>2. QED BY <1>3, <1>4, <2>1
<1>6. ASSUME NEW k \in 1..(a + m) + b PROVE text[k] # Space <=> k \in a + 1..a + m
  <2>1. CASE k \in 1..a
    <3>1. k \in 1..a + m /\ k \notin a + 1..a + m
      BY <1>2, <2>1
    <3>2. QED BY <1>1, <1>3, <1>4, <2>1, <3>1
  <2>2. CASE k \in a + 1..a + m
    <3>1. k - a \in 1..m /\ a + (k - a) = k
      BY <1>2, <2>2
    <3>2. text[k] = core[k - a]
      BY <1>5, <3>1
    <3>3. QED BY <1>2, <2>2, <3>1, <3>2
  <2>3. CASE k > a + m
    <3>1. k - (a + m) \in 1..b /\ (a + m) + (k - (a + m)) = k /\ k \notin a + 1..a + m
      BY <1>2, <2>3
    <3>2. QED BY <1>1, <1>4, <3>1
  <2>4. k \in 1..a \/ k \in a + 1..a + m \/ k > a + m
    BY <1>2
  <2>5. QED BY <2>1, <2>2, <2>3, <2>4
<1>7. Inner(text) = a + 1..a + m
  <2>1. DOMAIN text = 1..(a + m) + b
    BY <1>4
  <2>2. \A k \in a + 1..a + m : k \in 1..(a + m) + b
    BY <1>2
  <2>3. QED BY <1>6, <2>1, <2>2 DEF Inner
<1>8. Min(Inner(text)) = a + 1 /\ Max(Inner(text)) = a + m
  BY <1>2, <1>7, EndsOfInterval
<1>9. SubSeq(text, a + 1, a + m) = core
  <2> DEFINE v == SubSeq(text, a + 1, a + m)
  <2>1. a + 1 \in 1..Len(text) /\ a + m \in a + 1..Len(text)
    BY <1>2, <1>4
  <2>2. v \in Seq(Marks) /\ CutOut(v, text, a + 1, a + m)
    BY <1>4, <2>1, SubSeqCuts
  <2> HIDE DEF v
  <2>3. Len(v) = m /\ \A k \in 1..m : v[k] = text[a + k]
    <3>1. (a + m) - (a + 1) + 1 = m /\ (a + 1) - 1 = a
      BY <1>2
    <3>2. QED BY <2>2, <3>1 DEF CutOut
  <2>4. v = core
    BY <1>2, <1>5, <2>2, <2>3, SeqEqual DEF m
  <2>5. QED BY <2>4 DEF v
<1>10. QED BY <1>4, <1>7, <1>8, <1>9 DEF m, CoreIs

\* The digits, read with or without 0x.
Plain(rest) == IF Len(rest) > 1 /\ rest[2] \in {"x", "X"} THEN SubSeq(rest, 3, Len(rest)) ELSE rest

RestOf(prefix, z, digits) == prefix \o (Times("0", z) \o digits)

IsPlain(rest, base, n) ==
  /\ rest \in Seq(Solid) /\ Len(rest) >= 1 /\ rest[1] \in DigitChars
  /\ ValueOf(Plain(rest), base) = n

LEMMA PlainReads ==
  ASSUME NEW base \in Bases, NEW digits \in Alphabets, NEW n \in Nat, NEW z \in Nat, NEW prefix \in PrefixesOf(base)
  PROVE  IsPlain(RestOf(prefix, z, DigitsFrom(base, digits)[n]), base, n)
<1> DEFINE d == DigitsFrom(base, digits)[n]
           rest == RestOf(prefix, z, d)
           zeros == Times("0", z)
           nums == zeros \o d
<1>1. d \in Seq(DigitChars) /\ Len(d) >= 1
  BY DigitsFromIs
<1>2. zeros \in Seq(DigitChars) /\ Len(zeros) \in Nat
  <2>1. z \in Int
    OBVIOUS
  <2>2. zeros \in Seq(DigitChars)
    BY <2>1, SpacesAndZeros
  <2> HIDE DEF zeros
  <2>3. QED BY <2>2
<1>3. ValueOf(nums, base) = n
  BY DigitsAreWorth
<1> HIDE DEF d, zeros
<1>4. nums \in Seq(DigitChars) /\ Len(nums) \in Nat /\ Len(nums) >= 1
  <2>1. nums \in Seq(DigitChars) /\ Len(nums) = Len(zeros) + Len(d)
    BY <1>1, <1>2, ConcatProperties
  <2>2. Len(d) \in Nat
    BY <1>1
  <2> HIDE DEF nums
  <2>3. QED BY <1>1, <1>2, <2>1, <2>2
<1>5. rest = prefix \o nums
  BY DEF nums, zeros, d, RestOf
<1> HIDE DEF nums, rest
<1>6. ASSUME NEW s \in Seq(DigitChars), Len(s) >= 1
      PROVE  s \in Seq(Solid) /\ s[1] \in DigitChars /\ Plain(s) = s
  <2>1. s \in Seq(Solid)
    BY SolidMarks, SeqMonotonic
  <2>2. 1 \in 1..Len(s) /\ (Len(s) > 1 => 2 \in 1..Len(s))
    BY <1>6
  <2>3. s[1] \in DigitChars /\ (Len(s) > 1 => s[2] \in DigitChars)
    BY <2>2, ElementOfSeq
  <2>4. QED BY <2>1, <2>3, DigitValue DEF Plain
<1>7. ASSUME prefix = <<>> PROVE rest = nums
  BY <1>4, <1>5, <1>7, ConcatEmptySeq
<1>8. ASSUME prefix = <<"0">>
      PROVE  rest \in Seq(DigitChars) /\ Len(rest) >= 1 /\ ValueOf(rest, base) = n
  <2>1. Times("0", 1) = <<"0">>
    <3>1. Times("0", 0 + 1) = Append(Times("0", 0), "0") /\ Times("0", 0) = <<>>
      BY TimesOneMore, TimesAtLeastNone
    <3>2. Append(<<>>, "0") = <<"0">>
      OBVIOUS
    <3>3. 0 + 1 = 1
      OBVIOUS
    <3>4. QED BY <3>1, <3>2, <3>3
  <2>2. Times("0", 1) \in Seq(DigitChars)
    BY SpacesAndZeros
  <2>3. rest = (Times("0", 1) \o zeros) \o d
    <3>1. rest = Times("0", 1) \o (zeros \o d)
      BY <1>5, <1>8, <2>1 DEF nums
    <3>2. (Times("0", 1) \o zeros) \o d = Times("0", 1) \o (zeros \o d)
      <4> HIDE DEF zeros, d
      <4>1. Associates(Times("0", 1), zeros, d)
        BY <1>1, <1>2, <2>2, ConcatAssociates
      <4>2. QED BY <4>1 DEF Associates
    <3>3. QED BY <3>1, <3>2
  <2>4. Times("0", 1) \o zeros = Times("0", 1 + z) /\ 1 + z \in Nat
    <3>1. 1 \in Nat /\ 1 + z \in Nat
      OBVIOUS
    <3>2. QED BY <3>1, TimesJoined DEF zeros
  <2>5. ValueOf(rest, base) = n
    <3>1. ValueOf(Times("0", 1 + z) \o d, base) = n
      BY <2>4, DigitsAreWorth DEF d
    <3>2. QED BY <2>3, <2>4, <3>1
  <2>6. rest \in Seq(DigitChars) /\ Len(rest) = Len(Times("0", 1)) + Len(nums)
    <3>1. rest = Times("0", 1) \o nums
      BY <1>5, <1>8, <2>1
    <3>2. rest \in Seq(DigitChars) /\ Joined(rest, Times("0", 1), nums)
      BY <1>4, <2>2, <3>1, ConcatJoins
    <3>3. QED BY <3>2 DEF Joined
  <2>7. Len(Times("0", 1)) \in Nat
    BY <2>2
  <2>8. QED BY <1>4, <2>5, <2>6, <2>7
<1>9. ASSUME NEW c \in {"x", "X"}, prefix = <<"0", c>>
      PROVE  rest \in Seq(Solid) /\ Len(rest) >= 1 /\ rest[1] \in DigitChars /\ Plain(rest) = nums
  <2>1. /\ <<"0", c>> \in Seq(Solid) /\ Len(<<"0", c>>) = 2 /\ <<"0", c>>[1] = "0" /\ <<"0", c>>[2] = c
    <3>1. "0" \in Solid /\ c \in Solid
      BY SolidMarks
    <3>2. QED BY <3>1
  <2>2. nums \in Seq(Solid)
    BY <1>4, SolidMarks, SeqMonotonic
  <2>3. /\ prefix \in Seq(Solid) /\ Len(prefix) = 2 /\ prefix[1] = "0" /\ prefix[2] = c
    BY <1>9, <2>1
  <2>4. /\ rest \in Seq(Solid) /\ Len(rest) = 2 + Len(nums)
        /\ \A k \in 1..2 : rest[k] = prefix[k]
        /\ \A k \in 1..Len(nums) : rest[2 + k] = nums[k]
    <3>1. rest \in Seq(Solid) /\ Joined(rest, prefix, nums)
      BY <1>5, <2>2, <2>3, ConcatJoins
    <3>2. QED BY <2>3, <3>1 DEF Joined
  <2>5. rest[1] = "0" /\ rest[2] = c /\ Len(rest) > 1
    <3>1. 1 \in 1..2 /\ 2 \in 1..2
      OBVIOUS
    <3>2. rest[1] = "0" /\ rest[2] = c
      BY <2>3, <2>4, <3>1
    <3>3. Len(rest) > 1
      BY <1>4, <2>4
    <3>4. QED BY <3>2, <3>3
  <2>6. Plain(rest) = SubSeq(rest, 3, Len(rest))
    BY <2>5 DEF Plain
  <2> DEFINE v == SubSeq(rest, 3, Len(rest))
  <2>7. v \in Seq(Solid) /\ CutOut(v, rest, 3, Len(rest))
    <3>1. 3 \in 1..Len(rest) /\ Len(rest) \in 3..Len(rest)
      BY <1>4, <2>4
    <3>2. QED BY <2>4, <3>1, SubSeqCuts
  <2> HIDE DEF v
  <2>8. Len(v) = Len(nums) /\ \A k \in 1..Len(nums) : v[k] = nums[k]
    <3>1. Len(rest) - 3 + 1 = Len(nums) /\ 3 - 1 = 2
      BY <1>4, <2>4
    <3>2. QED BY <2>4, <2>7, <3>1 DEF CutOut
  <2>9. v = nums
    BY <2>2, <2>7, <2>8, SeqEqual
  <2>10. Plain(rest) = nums
    BY <2>6, <2>9 DEF v
  <2>11. rest[1] \in DigitChars
    BY <2>5, MarksAre
  <2>12. Len(rest) >= 1
    BY <1>4, <2>4
  <2>13. QED BY <2>4, <2>10, <2>11, <2>12
<1>10. prefix = <<>> \/ prefix = <<"0">> \/ \E c \in {"x", "X"} : prefix = <<"0", c>>
  BY DEF PrefixesOf
<1>11. ValueOf(nums, base) = n
  BY <1>3 DEF nums
<1>12. CASE prefix = <<>>
  <2>1. rest \in Seq(DigitChars) /\ Len(rest) >= 1 /\ ValueOf(rest, base) = n
    BY <1>4, <1>7, <1>11, <1>12
  <2>2. IsPlain(rest, base, n)
    BY <1>6, <2>1 DEF IsPlain
  <2>3. QED BY <2>2 DEF rest, d
<1>13. CASE prefix = <<"0">>
  <2>1. IsPlain(rest, base, n)
    BY <1>6, <1>8, <1>13 DEF IsPlain
  <2>2. QED BY <2>1 DEF rest, d
<1>14. ASSUME NEW c \in {"x", "X"}, prefix = <<"0", c>> PROVE IsPlain(rest, base, n)
  BY <1>9, <1>11, <1>14 DEF IsPlain
<1>15. QED BY <1>10, <1>12, <1>13, <1>14 DEF rest, d

ShowsNumber(text, base, width, sign, n) ==
  /\ Len(text) >= width
  /\ Inner(text) = Min(Inner(text))..Max(Inner(text))
  /\ ReadsAs(text, base) = IF sign = <<"-">> THEN -n ELSE n

LEMMA ShapeReads ==
  ASSUME NEW base \in Bases, NEW digits \in Alphabets, NEW n \in Nat, NEW a \in Nat, NEW z \in Nat, NEW b \in Nat,
         NEW sign \in Signs, NEW prefix \in PrefixesOf(base), NEW width \in Int,
         NEW text, Shaped(text, a, sign, prefix, z, DigitsFrom(base, digits)[n], b, width)
  PROVE  ShowsNumber(text, base, width, sign, n)
<1> USE DEF ShowsNumber
<1> DEFINE rest == RestOf(prefix, z, DigitsFrom(base, digits)[n])
           core == sign \o rest
<1>1. rest \in Seq(Solid) /\ Len(rest) >= 1 /\ rest[1] \in DigitChars /\ ValueOf(Plain(rest), base) = n
  <2>1. IsPlain(rest, base, n)
    BY PlainReads
  <2>2. QED BY <2>1 DEF IsPlain
<1>2. IsPadded(text, core, a, b) /\ width <= a + Len(core) + b
  BY DEF Shaped, Core, RestOf, IsPadded
<1> HIDE DEF rest
<1>3. sign \in Seq(Solid) /\ Len(sign) \in Nat
  <2>1. CASE sign = <<>>
    BY <2>1
  <2>2. ASSUME NEW c \in {"-", "+"}, sign = <<c>> PROVE sign \in Seq(Solid) /\ Len(sign) \in Nat
    <3>1. c \in Solid
      BY SolidMarks
    <3>2. <<c>> \in Seq(Solid) /\ Len(<<c>>) \in Nat
      BY <3>1
    <3>3. QED BY <2>2, <3>2
  <2>3. sign = <<>> \/ \E c \in {"-", "+"} : sign = <<c>>
    BY DEF Signs
  <2>4. QED BY <2>1, <2>2, <2>3
<1>4. core \in Seq(Solid) /\ Len(core) = Len(sign) + Len(rest) /\ Len(core) \in Nat /\ Len(core) >= 1
  <2>1. core \in Seq(Solid) /\ Len(core) = Len(sign) + Len(rest)
    BY <1>1, <1>3, ConcatProperties
  <2>2. Len(rest) \in Nat
    BY <1>1
  <2> HIDE DEF core
  <2>3. QED BY <1>1, <1>3, <2>1, <2>2
<1>5. /\ Len(text) = a + Len(core) + b
      /\ Inner(text) = Min(Inner(text))..Max(Inner(text))
      /\ SubSeq(text, Min(Inner(text)), Max(Inner(text))) = core
  <2> HIDE DEF core
  <2>1. Len(text) = a + Len(core) + b /\ CoreIs(text, core)
    BY <1>2, <1>4, PaddedIs
  <2>2. QED BY <2>1 DEF CoreIs
<1>6. LET signed == core[1] \in {"-", "+"}
          restOf == IF signed THEN Tail(core) ELSE core
      IN ReadsAs(text, base) = IF signed /\ core[1] = "-" THEN -ValueOf(Plain(restOf), base) ELSE ValueOf(Plain(restOf), base)
  <2> HIDE DEF core
  <2>1. QED BY <1>5 DEF ReadsAs, Plain
<1>7. CASE sign = <<>>
  <2>1. core = rest
    BY <1>1, <1>7, ConcatEmptySeq
  <2>2. core[1] # "-" /\ core[1] # "+"
    BY <1>1, <2>1, DigitValue
  <2>3. sign # <<"-">>
    <3>1. <<>> # <<"-">>
      OBVIOUS
    <3>2. QED BY <1>7, <3>1
  <2> HIDE DEF core
  <2>4. ReadsAs(text, base) = n
    BY <1>1, <1>6, <2>1, <2>2
  <2>5. QED BY <1>2, <1>5, <2>3, <2>4
<1>8. ASSUME NEW c \in {"-", "+"}, sign = <<c>>
      PROVE  ReadsAs(text, base) = IF c = "-" THEN -n ELSE n
  <2>1. <<c>> \in Seq(Solid) /\ Len(<<c>>) = 1 /\ <<c>>[1] = c
    <3>1. c \in Solid
      BY SolidMarks
    <3>2. QED BY <3>1
  <2>2. sign \in Seq(Solid) /\ Len(sign) = 1 /\ sign[1] = c
    BY <1>8, <2>1
  <2>3. /\ \A k \in 1..1 : core[k] = sign[k]
        /\ \A k \in 1..Len(rest) : core[1 + k] = rest[k]
    <3>1. Joined(core, sign, rest)
      BY <1>1, <2>2, ConcatJoins
    <3>2. QED BY <2>2, <3>1 DEF Joined
  <2> HIDE DEF core
  <2>4. core[1] = c
    BY <2>2, <2>3
  <2>5. core # <<>>
    BY <1>4
  <2> DEFINE t == Tail(core)
  <2>6. t \in Seq(Solid) /\ Len(t) = Len(core) - 1 /\ \A k \in 1..Len(t) : t[k] = core[k + 1]
    BY <1>4, <2>5, HeadTailProperties
  <2> HIDE DEF t
  <2>7. Len(t) = Len(rest) /\ \A k \in 1..Len(rest) : t[k] = rest[k]
    <3>1. Len(rest) \in Nat
      BY <1>1
    <3>2. Len(t) = Len(rest)
      <4>1. Len(core) = Len(sign) + Len(rest) /\ Len(sign) = 1
        BY <1>4, <2>2
      <4>2. Len(t) = Len(core) - 1
        BY <2>6
      <4> DEFINE lc == Len(core)
                 lt == Len(t)
                 lr == Len(rest)
      <4>3. lr \in Nat /\ lc = 1 + lr /\ lt = lc - 1
        BY <3>1, <4>1, <4>2
      <4> HIDE DEF lc, lt, lr
      <4>4. lt = lr
        BY <4>3
      <4>5. QED BY <4>4 DEF lt, lr
    <3>3. \A k \in 1..Len(rest) : k + 1 = 1 + k
      BY <3>1
    <3>4. QED BY <2>3, <2>6, <3>2, <3>3
  <2>8. t = rest
    BY <1>1, <2>6, <2>7, SeqEqual
  <2>9. QED BY <1>1, <1>6, <2>4, <2>8 DEF t
<1>9. CASE sign # <<>>
  <2>1. PICK c \in {"-", "+"} : sign = <<c>>
    BY <1>9 DEF Signs
  <2>2. ReadsAs(text, base) = IF c = "-" THEN -n ELSE n
    BY <1>8, <2>1
  <2>3. sign = <<"-">> <=> c = "-"
    <3>1. <<c>>[1] = c /\ <<"-">>[1] = "-"
      OBVIOUS
    <3>2. QED BY <2>1, <3>1
  <2>4. QED BY <1>2, <1>5, <2>2, <2>3
<1>10. QED BY <1>7, <1>9

\* NumberReadsBack, of an item.
ReadsBack(item) ==
  LET text   == Chars(item)
      signed == item.conv \in {"d", "i"}
      arg    == Fetched(item.arg, item.qualifier, signed)
  IN /\ arg \in -(UINT - 1)..UINT - 1 =>
          ReadsAs(text, Base(item.conv)) = IF signed THEN arg ELSE arg % UINT
     /\ Len(text) >= Width(item)
     /\ Inner(text) = Min(Inner(text))..Max(Inner(text))

LEMMA ShapeTypes ==
  ASSUME NEW text, NEW x \in Int, NEW base \in Bases, NEW width \in Int, NEW type, NumberShape(text, x, base, width, type)
  PROVE  /\ text \in Seq(Marks) /\ Len(text) >= width /\ Inner(text) = Min(Inner(text))..Max(Inner(text))
         /\ LET n == (IF Negative(x, type) THEN -x ELSE x) % UINT
            IN ReadsAs(text, base) = IF Negative(x, type) THEN -n ELSE n
<1> DEFINE y == IF Negative(x, type) THEN -x ELSE x
           digits == AlphabetOf(type)
           m == y % UINT
           d == DigitsFrom(base, digits)[m]
<1>1. y \in Int /\ digits \in Alphabets
  BY PiecesAre
<1> HIDE DEF y
<1>2. m \in Nat /\ Shown(x, base, type) = d
  BY <1>1, DigitsOfIs DEF Shown, y
<1> HIDE DEF digits, m
<1>3. d \in Seq(DigitChars)
  BY <1>1, <1>2, DigitsFromIs
<1>4. PICK a, z, b \in Nat, sign \in Signs, prefix \in PrefixesOf(base) :
    /\ Shaped(text, a, sign, prefix, z, d, b, width)
    /\ sign = <<"-">> <=> Negative(x, type)
  BY <1>2 DEF NumberShape
<1>5. /\ Len(text) >= width /\ Inner(text) = Min(Inner(text))..Max(Inner(text))
      /\ ReadsAs(text, base) = IF sign = <<"-">> THEN -m ELSE m
  <2>1. ShowsNumber(text, base, width, sign, m)
    BY <1>1, <1>2, <1>4, ShapeReads
  <2>2. QED BY <2>1 DEF ShowsNumber
<1>6. text \in Seq(Marks)
  <2>1. Times(Space, a) \in Seq(Marks) /\ Times(Space, b) \in Seq(Marks) /\ Times("0", z) \in Seq(Marks)
    <3>1. a \in Int /\ b \in Int /\ z \in Int
      OBVIOUS
    <3>2. QED BY <3>1, SpacesAndZeros
  <2>2. sign \in Seq(Marks) /\ prefix \in Seq(Marks) /\ d \in Seq(Marks)
    BY <1>3, SignsAre, SignsAreSigns, PrefixesAre, SeqMonotonic DEF Marks
  <2> HIDE DEF d
  <2>3. Times("0", z) \o d \in Seq(Marks)
    BY <2>1, <2>2, ConcatProperties
  <2>4. prefix \o (Times("0", z) \o d) \in Seq(Marks)
    BY <2>2, <2>3, ConcatProperties
  <2>5. Core(sign, prefix, z, d) \in Seq(Marks)
    BY <2>2, <2>4, ConcatProperties DEF Core
  <2>6. Times(Space, a) \o Core(sign, prefix, z, d) \in Seq(Marks)
    BY <2>1, <2>5, ConcatProperties
  <2>7. (Times(Space, a) \o Core(sign, prefix, z, d)) \o Times(Space, b) \in Seq(Marks)
    BY <2>1, <2>6, ConcatProperties
  <2>8. QED BY <1>4, <2>7 DEF Shaped
<1>7. QED BY <1>4, <1>5, <1>6 DEF y, m

LEMMA FetchedIs ==
  ASSUME NEW x \in Int, NEW qualifier, NEW signed \in BOOLEAN
  PROVE  Fetched(x, qualifier, signed) \in Int
<1>1. UINT \in Nat \ {0} /\ USHORT \in Nat \ {0}
  BY PrintAssumption
<1>2. /\ x % UINT \in Int /\ x % USHORT \in Int /\ UINT \div 2 \in Int /\ USHORT \div 2 \in Int
      /\ (x + UINT \div 2) % UINT \in Int /\ (x + USHORT \div 2) % USHORT \in Int
  BY <1>1
<1>3. Cut(x, UINT) \in Int /\ Cut(x, USHORT) \in Int /\ CutSigned(x, UINT) \in Int /\ CutSigned(x, USHORT) \in Int
  BY <1>2 DEF Cut, CutSigned
<1>4. QED BY <1>3 DEF Fetched

LEMMA ItemIs ==
  ASSUME NEW item, IsItem(item)
  PROVE  /\ "SIGN" \notin Flags(item) /\ "LARGE" \notin Flags(item)
         /\ Width(item) \in Int /\ item.width \in Int /\ item.precision \in Nat \cup {-1}
         /\ item.conv \in Numbers \cup {"p"} => item.arg \in Int
         /\ item.conv \notin Numbers \cup {"p", "char", "c", "%", "n"} => IsText(item.arg)
<1>1. item.width \in Int /\ item.precision \in Nat \cup {-1}
  BY DEF IsItem
<1>2. Width(item) \in Int
  BY <1>1 DEF Width
<1>3. item.conv \in Numbers \cup {"p"} => item.arg \in Int
  BY DEF IsItem, Numbers
<1>4. item.conv \notin Numbers \cup {"p", "char", "c", "%", "n"} => IsText(item.arg)
  BY DEF IsItem, Numbers
<1>5. "SIGN" \notin Flags(item) /\ "LARGE" \notin Flags(item)
  <2>1. item.flags \subseteq {"LEFT", "ZEROPAD", "PLUS", "SPACE", "SPECIAL"}
    BY DEF IsItem
  <2>2. QED BY <2>1 DEF Flags
<1>6. QED BY <1>1, <1>2, <1>3, <1>4, <1>5

LEMMA SmallRemainder ==
  ASSUME NEW d \in Nat \ {0}, NEW y \in 0..d-1
  PROVE  y % d = y
<1>1. y \div d \in Nat /\ y % d \in 0..d-1 /\ y = d * (y \div d) + (y % d)
  <2>1. y \in Nat
    OBVIOUS
  <2>2. QED BY <2>1, QuotientIs
<1> DEFINE q == y \div d
           m == y % d
<1> HIDE DEF q, m
<1>2. q = 0
  <2>1. SUFFICES ASSUME q >= 1 PROVE FALSE
    BY <1>1 DEF q
  <2>2. PICK r \in Nat : q = r + 1
    <3>1. q - 1 \in Nat /\ q = (q - 1) + 1
      BY <1>1, <2>1 DEF q
    <3>2. QED BY <3>1
  <2>3. d * r \in Nat /\ d * (r + 1) = d * r + d
    OBVIOUS
  <2> DEFINE e == d * r
             f == d * (r + 1)
  <2>4. e \in Nat /\ f = e + d /\ y = f + m /\ m \in Nat
    BY <1>1, <2>2, <2>3 DEF q, m
  <2> HIDE DEF e, f
  <2>5. QED BY <2>4
<1>3. d * 0 = 0
  OBVIOUS
<1>4. y = 0 + m /\ m \in Nat
  BY <1>1, <1>2, <1>3 DEF q, m
<1>5. QED BY <1>4 DEF m

LEMMA ConversionReads ==
  ASSUME NEW item, IsItem(item), item.conv \in Numbers
  PROVE  Chars(item) \in Seq(Marks) /\ ReadsBack(item)
<1> DEFINE signed == item.conv \in {"d", "i"}
           base == Base(item.conv)
           x == Fetched(item.arg, item.qualifier, signed)
           type == Flags(item) \cup (IF signed THEN {"SIGN"} ELSE {})
                               \cup (IF item.conv = "X" THEN {"LARGE"} ELSE {})
           text == number(x, base, Width(item), item.precision, type)
<1>1. Width(item) \in Int /\ item.precision \in Nat \cup {-1} /\ item.arg \in Int
  BY ItemIs
<1>2. base \in Bases /\ x \in Int
  <2>1. signed \in BOOLEAN
    OBVIOUS
  <2> HIDE DEF signed
  <2>2. x \in Int
    BY <1>1, <2>1, FetchedIs
  <2>3. base \in Bases
    BY DEF Base, Bases
  <2>4. QED BY <2>2, <2>3
<1>3. "SIGN" \in type <=> signed
  BY ItemIs
<1>4. Chars(item) = text
  BY DEF Chars, Numbers
<1> HIDE DEF type, signed, x, base
<1>5. NumberShape(text, x, base, Width(item), type)
  BY <1>1, <1>2, NumberIsShaped
<1>6. Negative(x, type) <=> signed /\ x < 0
  BY <1>3 DEF Negative
<1> DEFINE n == (IF Negative(x, type) THEN -x ELSE x) % UINT
<1> HIDE DEF text
<1>7. /\ text \in Seq(Marks) /\ Len(text) >= Width(item) /\ Inner(text) = Min(Inner(text))..Max(Inner(text))
      /\ ReadsAs(text, base) = IF Negative(x, type) THEN -n ELSE n
  BY <1>1, <1>2, <1>5, ShapeTypes
<1>8. ASSUME x \in -(UINT - 1)..UINT - 1
      PROVE  ReadsAs(text, base) = IF signed THEN x ELSE x % UINT
  <2>0. UINT \in Nat \ {0}
    BY PrintAssumption
  <2>1. CASE Negative(x, type)
    <3>1. -x \in 0..UINT-1 /\ -(-x) = x
      BY <1>2, <1>6, <1>8, <2>0, <2>1
    <3>2. n = -x
      BY <2>0, <2>1, <3>1, SmallRemainder
    <3>3. QED BY <1>6, <1>7, <2>1, <3>1, <3>2
  <2>2. CASE ~ Negative(x, type) /\ signed
    <3>1. x \in 0..UINT-1
      BY <1>2, <1>6, <1>8, <2>0, <2>2
    <3>2. n = x
      BY <2>0, <2>2, <3>1, SmallRemainder
    <3>3. QED BY <1>7, <2>2, <3>2
  <2>3. CASE ~ signed
    BY <1>6, <1>7, <2>3
  <2>4. QED BY <2>1, <2>2, <2>3
<1>9. ReadsBack(item)
  BY <1>4, <1>7, <1>8 DEF ReadsBack, x, base, signed
<1>10. QED BY <1>4, <1>7, <1>9

\* What the formats write is text.
LEMMA TextIs ==
  ASSUME NEW A, NEW s \in Seq(A)
  PROVE  IsText(s)
<1>1. /\ Len(s) \in Nat /\ DOMAIN s = 1..Len(s) /\ s = [k \in 1..Len(s) |-> s[k]]
  OBVIOUS
<1>2. \A k \in 1..Len(s) : s[k] \in ToSet(s)
  BY <1>1 DEF ToSet
<1>3. QED BY <1>1, <1>2 DEF IsText

LEMMA PaddedText ==
  ASSUME NEW s, IsText(s), NEW item, IsItem(item)
  PROVE  IsText(Padded(s, item))
<1> DEFINE n == Width(item) - Len(s)
           A == ToSet(s) \cup {Space}
<1>1. s \in Seq(ToSet(s)) /\ Len(s) \in Nat
  BY DEF IsText
<1>2. s \in Seq(A)
  <2> HIDE DEF A
  <2>1. ToSet(s) \subseteq A
    BY DEF A
  <2>2. QED BY <1>1, <2>1, SeqMonotonic
<1>3. n \in Int
  BY <1>1, ItemIs
<1> HIDE DEF n
<1>4. Times(Space, n) \in Seq(A)
  <2>1. Space \in A
    OBVIOUS
  <2> HIDE DEF A
  <2>2. QED BY <1>3, <2>1, TimesIs
<1> HIDE DEF A
<1>5. s \o Times(Space, n) \in Seq(A) /\ Times(Space, n) \o s \in Seq(A)
  BY <1>2, <1>4, ConcatProperties
<1>6. QED BY <1>5, TextIs DEF Padded, n

LEMMA CharsAreText ==
  ASSUME NEW item, IsItem(item)
  PROVE  IsText(Chars(item))
<1>1. CASE item.conv \in {"char", "%", "n"}
  <2>1. Chars(item) \in {<<item.arg>>, <<"%">>, <<>>}
    BY <1>1 DEF Chars, Numbers
  <2>2. <<item.arg>> \in Seq({item.arg}) /\ <<"%">> \in Seq({"%"}) /\ <<>> \in Seq({"%"})
    OBVIOUS
  <2>3. QED BY <2>1, <2>2, TextIs
<1>2. CASE item.conv = "c"
  <2>1. <<item.arg>> \in Seq({item.arg})
    OBVIOUS
  <2>2. IsText(<<item.arg>>)
    BY <2>1, TextIs
  <2>3. QED BY <1>2, <2>2, PaddedText DEF Chars, Numbers
<1>3. CASE item.conv = "s"
  <2> DEFINE s == item.arg
             n == Min({item.precision, Len(s)})
  <2>1. IsText(s) /\ item.precision \in Nat \cup {-1}
    BY <1>3, ItemIs DEF Numbers
  <2>2. s \in Seq(ToSet(s)) /\ Len(s) \in Nat
    BY <2>1 DEF IsText
  <2>3. ASSUME item.precision # -1 PROVE IsText(SubSeq(s, 1, n))
    <3>1. item.precision \in Nat
      BY <2>1, <2>3
    <3>2. n \in 0..Len(s)
      <4>1. {item.precision, Len(s)} \in SUBSET Nat /\ {item.precision, Len(s)} # {}
        BY <2>2, <3>1
      <4>2. n \in {item.precision, Len(s)} /\ n <= Len(s)
        BY <4>1, MinIs
      <4> HIDE DEF n
      <4>3. QED BY <2>2, <3>1, <4>2
    <3> HIDE DEF n, s
    <3>3. CASE n = 0
      <4>1. SubSeq(s, 1, n) = <<>>
        BY <3>3, SubSeqEmpty
      <4>2. <<>> \in Seq(ToSet(s))
        OBVIOUS
      <4>3. QED BY <4>1, <4>2, TextIs
    <3>4. CASE n # 0
      <4>1. 1 \in 1..Len(s) /\ n \in 1..Len(s)
        BY <2>2, <3>2, <3>4
      <4>2. SubSeq(s, 1, n) \in Seq(ToSet(s))
        BY <2>2, <4>1, SubSeqCuts
      <4>3. QED BY <4>2, TextIs
    <3>5. QED BY <3>3, <3>4
  <2>4. Chars(item) = Padded(IF item.precision = -1 THEN s ELSE SubSeq(s, 1, n), item)
    BY <1>3 DEF Chars, Numbers
  <2> HIDE DEF n, s
  <2>5. IsText(IF item.precision = -1 THEN s ELSE SubSeq(s, 1, n))
    BY <2>1, <2>3
  <2>6. QED BY <2>4, <2>5, PaddedText
<1>4. CASE item.conv = "p"
  <2> DEFINE w == IF item.width = -1 THEN 8 ELSE Width(item)
             type == Flags(item) \cup IF item.width = -1 THEN {"ZEROPAD"} ELSE {}
             x == Cut(item.arg, UINT)
             text == number(x, 16, w, item.precision, type)
  <2>1. Chars(item) = text
    BY <1>4 DEF Chars, Numbers
  <2>2. w \in Int /\ item.precision \in Nat \cup {-1} /\ item.arg \in Int
    BY <1>4, ItemIs
  <2>3. x \in Int /\ 16 \in Bases
    <3>1. UINT \in Nat \ {0}
      BY PrintAssumption
    <3>2. QED BY <2>2, <3>1 DEF Cut, Bases
  <2> HIDE DEF w, type, x
  <2>4. NumberShape(text, x, 16, w, type)
    BY <2>2, <2>3, NumberIsShaped
  <2> HIDE DEF text
  <2>5. text \in Seq(Marks)
    BY <2>2, <2>3, <2>4, ShapeTypes
  <2>6. QED BY <2>1, <2>5, TextIs
<1>5. CASE item.conv \in Numbers
  BY <1>5, ConversionReads, TextIs
<1>6. CASE item.conv \notin Numbers \cup {"p", "char", "c", "%", "n", "s"}
  <2>1. Chars(item) = <<"%">> \o item.arg
    BY <1>6 DEF Chars
  <2>2. IsText(item.arg)
    BY <1>6, ItemIs
  <2> DEFINE A == ToSet(item.arg) \cup {"%"}
  <2>3. item.arg \in Seq(ToSet(item.arg)) /\ ToSet(item.arg) \subseteq A /\ "%" \in A
    BY <2>2 DEF IsText
  <2> HIDE DEF A
  <2>4. item.arg \in Seq(A) /\ <<"%">> \in Seq(A)
    BY <2>3, SeqMonotonic
  <2>5. QED BY <2>1, <2>4, ConcatProperties, TextIs
<1>7. QED BY <1>1, <1>2, <1>3, <1>4, <1>5, <1>6

-----------------------------------------------------------------------------
(***************************************************************************)
(* printf: the states.  PrintInv adds to PrintCorrect what is left of the  *)
(* format and what of the buffer is on the line while the loop over        *)
(* printf_buf runs.                                                        *)
(***************************************************************************)

\* What is left is the rest of a format.
FormatsLeft == \E f \in Formats : fmt \in Seq(ToSet(f))

\* How much of the text is in the buffer, in front of the terminator if there is one.
Kept == Min({Len(whole), IF Printed THEN size - 1 ELSE size})

\* The first k chars of the text are on the line, a return before each new line.
LineShows(line, text, k) ==
  /\ Len(line) = OnLine(text, k)
  /\ \A n \in 1..k :
       /\ text[n] # "NUL" /\ OnLine(text, n) \in 1..Len(line) /\ line[OnLine(text, n)] = text[n]
       /\ text[n] = "\n" => OnLine(text, n) - 1 \in 1..Len(line) /\ line[OnLine(text, n) - 1] = "\r"

\* The loop over printf_buf: p is in front of the terminator or on it, the chars before
\* it are on the line, and the loop ends on a NUL only.
SerialFollows ==
  /\ printing \notin {"vsnprintf", "done"} => size >= 1
  /\ printing \in {"vsnprintf", "printf"} => serial = <<>>
  /\ printing \in {"PUTC", "sent"} =>
       /\ p \in BUF..BUF + Kept
       /\ IsText(serial) /\ LineShows(serial, whole, p - BUF)
       /\ printing = "sent" => p = BUF + Kept \/ whole[p - BUF + 1] = "NUL"

\* What every state of vsnprintf and printf keeps.
PrintInv ==
  /\ PrintTypeOK
  /\ IsText(whole)
  /\ FormatsLeft
  /\ BufferHoldsStart
  /\ SerialFollows
LEMMA SmallerOfTwo ==
  ASSUME NEW m \in Int, NEW n \in Int
  PROVE  Min({m, n}) = IF m <= n THEN m ELSE n
<1> DEFINE x == IF m <= n THEN m ELSE n
<1>1. x \in {m, n} /\ \A y \in {m, n} : x <= y
  OBVIOUS
<1>2. \A z \in {m, n} : (\A y \in {m, n} : z <= y) => z = x
  OBVIOUS
<1> HIDE DEF x
<1>3. Min({m, n}) = x
  BY <1>1, <1>2 DEF Min
<1>4. QED BY <1>3 DEF x

LEMMA Addresses ==
  /\ TOP \in Nat /\ BUF \in Nat /\ BUF >= 1 /\ BUF <= TOP
  /\ PRINTF_BUF \in Nat /\ PRINTF_BUF >= 1 /\ PRINTF_BUF <= TOP - BUF + 1
<1>1. TOP \in Nat /\ BUF \in 1..TOP /\ PRINTF_BUF \in 1..TOP - BUF + 1
  BY PrintAssumption
<1>2. QED BY <1>1

\* The size is never more than the addresses from the buffer on.
LEMMA ClampedIs ==
  ASSUME NEW n \in 0..TOP
  PROVE  Clamped(n) \in 0..TOP - BUF + 1 /\ (n <= TOP - BUF + 1 => Clamped(n) = n)
<1> DEFINE y == BUF + n - 1
           d == TOP + 1
           m == y % d
           q == y \div d
<1>1. y \in Nat /\ d \in Nat \ {0} /\ n \in Nat
  BY Addresses
<1>2. q \in Nat /\ m \in 0..d-1 /\ y = d * q + m
  BY <1>1, QuotientIs
<1>3. Clamped(n) = IF m < BUF - 1 THEN TOP - BUF + 1 ELSE n
  BY DEF Clamped
<1>4. CASE n <= TOP - BUF + 1
  <2>1. y \in 0..d-1
    BY <1>1, <1>4, Addresses
  <2> HIDE DEF d
  <2>2. m = y
    BY <1>1, <2>1, SmallRemainder
  <2>3. y >= BUF - 1
    BY <1>1, Addresses
  <2>4. Clamped(n) = n
    <3> HIDE DEF y, m
    <3>1. ~(m < BUF - 1)
      <4>1. m \in Int /\ BUF - 1 \in Int
        BY <1>2, Addresses
      <4>2. QED BY <2>2, <2>3, <4>1
    <3>2. QED BY <1>3, <3>1
  <2>5. QED BY <1>1, <1>4, <2>4, Addresses
<1>5. CASE ~(n <= TOP - BUF + 1)
  <2>1. y >= d
    BY <1>1, <1>5, Addresses
  <2>2. y = BUF + n - 1 /\ d = TOP + 1
    OBVIOUS
  <2> HIDE DEF y, d, m, q
  <2>3. q # 0
    <3>1. d * 0 = 0
      BY <1>1
    <3>2. QED BY <1>1, <1>2, <2>1, <3>1
  <2>4. PICK r \in Nat : q = r + 1
    <3>1. q - 1 \in Nat /\ q = (q - 1) + 1
      BY <1>2, <2>3
    <3>2. QED BY <3>1
  <2>5. d * r \in Nat /\ d * (r + 1) = d * r + d
    BY <1>1
  <2>6. m <= y - d
    <3> DEFINE e == d * r
               f == d * (r + 1)
    <3>1. e \in Nat /\ f = e + d /\ y = f + m
      BY <1>2, <2>4, <2>5
    <3> HIDE DEF e, f
    <3>2. QED BY <1>1, <1>2, <3>1
  <2>7. m < BUF - 1
    BY <1>1, <1>2, <2>2, <2>6, Addresses
  <2>8. QED BY <1>3, <1>5, <2>7, Addresses
<1>6. QED BY <1>4, <1>5

\* A return is before each new line: the place of the next char.
LEMMA OnLineStep ==
  ASSUME NEW text, NEW n \in Nat
  PROVE  /\ OnLine(text, 0) = 0 /\ OnLine(text, n) \in Nat
         /\ OnLine(text, n + 1) = OnLine(text, n) + IF text[n + 1] = "\n" THEN 2 ELSE 1
<1> DEFINE S(m) == {k \in 1..m : text[k] = "\n"}
<1>1. ASSUME NEW m \in Nat PROVE IsFiniteSet(S(m)) /\ Cardinality(S(m)) \in Nat
  <2>1. S(m) \in SUBSET (1..m) /\ 1 \in Int /\ m \in Int
    OBVIOUS
  <2> HIDE DEF S
  <2>2. IsFiniteSet(1..m)
    BY <2>1, FS_Interval
  <2>3. QED BY <2>1, <2>2, FS_Subset, FS_CardinalityType
<1>2. S(0) = {}
  OBVIOUS
<1>3. S(n + 1) = IF text[n + 1] = "\n" THEN S(n) \cup {n + 1} ELSE S(n)
  OBVIOUS
<1>4. n + 1 \notin S(n)
  OBVIOUS
<1>5. OnLine(text, 0) = 0 + Cardinality(S(0)) /\ OnLine(text, n) = n + Cardinality(S(n))
      /\ OnLine(text, n + 1) = n + 1 + Cardinality(S(n + 1))
  BY DEF OnLine
<1> HIDE DEF S
<1>6. Cardinality(S(0)) = 0
  BY <1>2, FS_EmptySet
<1>7. IsFiniteSet(S(n)) /\ Cardinality(S(n)) \in Nat
  BY <1>1
<1>8. Cardinality(S(n + 1)) = Cardinality(S(n)) + IF text[n + 1] = "\n" THEN 1 ELSE 0
  <2>1. CASE text[n + 1] = "\n"
    BY <1>3, <1>4, <1>7, <2>1, FS_AddElement
  <2>2. CASE text[n + 1] # "\n"
    BY <1>3, <1>7, <2>2
  <2>3. QED BY <2>1, <2>2
<1>9. QED BY <1>5, <1>6, <1>7, <1>8

\* Text behind text is text.
LEMMA TextJoins ==
  ASSUME NEW s, IsText(s), NEW t, IsText(t)
  PROVE  IsText(s \o t) /\ Joined(s \o t, s, t) /\ Len(s) \in Nat /\ Len(t) \in Nat
<1> DEFINE A == ToSet(s) \cup ToSet(t)
<1>1. s \in Seq(ToSet(s)) /\ t \in Seq(ToSet(t)) /\ ToSet(s) \subseteq A /\ ToSet(t) \subseteq A
  BY DEF IsText
<1> HIDE DEF A
<1>2. s \in Seq(A) /\ t \in Seq(A)
  BY <1>1, SeqMonotonic
<1>3. s \o t \in Seq(A) /\ Joined(s \o t, s, t)
  BY <1>2, ConcatJoins
<1>4. IsText(s \o t)
  BY <1>3, TextIs
<1>5. QED BY <1>1, <1>3, <1>4

LEMMA SentIs ==
  ASSUME NEW c
  PROVE  /\ IsText(Sent(c)) /\ Len(Sent(c)) = IF c = "\n" THEN 2 ELSE 1
         /\ Sent(c)[Len(Sent(c))] = c /\ (c = "\n" => Sent(c)[1] = "\r")
<1>1. CASE c = "\n"
  <2>1. <<"\r", "\n">> \in Seq({"\r", "\n"}) /\ Len(<<"\r", "\n">>) = 2
    OBVIOUS
  <2>2. Sent(c) = <<"\r", "\n">>
    BY <1>1 DEF Sent
  <2>3. IsText(Sent(c))
    BY <2>1, <2>2, TextIs
  <2>4. QED BY <1>1, <2>1, <2>2, <2>3
<1>2. CASE c # "\n"
  <2>1. <<c>> \in Seq({c}) /\ Len(<<c>>) = 1
    OBVIOUS
  <2>2. Sent(c) = <<c>>
    BY <1>2 DEF Sent
  <2>3. IsText(Sent(c))
    BY <2>1, <2>2, TextIs
  <2>4. QED BY <1>2, <2>1, <2>2, <2>3
<1>3. QED BY <1>1, <1>2

\* One more char on the line.
LEMMA LineGrows ==
  ASSUME NEW line, IsText(line), NEW text, NEW k \in Nat, LineShows(line, text, k), text[k + 1] # "NUL"
  PROVE  LET longer == line \o Sent(text[k + 1]) IN IsText(longer) /\ LineShows(longer, text, k + 1)
<1> DEFINE c == text[k + 1]
           t == Sent(c)
           l == Len(line)
           longer == line \o t
<1>1. /\ IsText(t) /\ Len(t) = (IF c = "\n" THEN 2 ELSE 1)
      /\ t[Len(t)] = c /\ (c = "\n" => t[1] = "\r")
  BY SentIs
<1>2. IsText(longer) /\ Joined(longer, line, t) /\ l \in Nat
  BY <1>1, TextJoins
<1>3. /\ OnLine(text, k + 1) = OnLine(text, k) + (IF c = "\n" THEN 2 ELSE 1)
      /\ l = OnLine(text, k)
  BY OnLineStep DEF LineShows
<1> HIDE DEF t, longer
<1>4. Len(longer) = l + Len(t) /\ OnLine(text, k + 1) = l + Len(t)
  BY <1>1, <1>2, <1>3 DEF Joined
<1>5. longer[l + Len(t)] = c /\ (c = "\n" => longer[l + 1] = "\r" /\ l + 1 = l + Len(t) - 1)
  <2>1. Len(t) \in 1..Len(t) /\ 1 \in 1..Len(t)
    BY <1>1
  <2>2. QED BY <1>1, <1>2, <2>1 DEF Joined
<1>6. ASSUME NEW n \in 1..k + 1
      PROVE  /\ text[n] # "NUL" /\ OnLine(text, n) \in 1..Len(longer) /\ longer[OnLine(text, n)] = text[n]
             /\ text[n] = "\n" => OnLine(text, n) - 1 \in 1..Len(longer) /\ longer[OnLine(text, n) - 1] = "\r"
  <2>1. CASE n = k + 1
    <3>1. Len(t) \in {1, 2} /\ (c = "\n" => Len(t) = 2)
      BY <1>1
    <3> HIDE DEF l
    <3>2. l + Len(t) \in 1..l + Len(t) /\ (c = "\n" => l + 1 \in 1..l + Len(t))
      BY <1>2, <3>1
    <3>3. text[n] = c /\ c # "NUL" /\ OnLine(text, n) = l + Len(t)
      BY <1>4, <2>1
    <3>4. c = "\n" => OnLine(text, n) - 1 = l + 1
      <4> DEFINE o == OnLine(text, n)
                 e == Len(t)
      <4>1. o = l + e /\ l \in Nat /\ e \in {1, 2} /\ (c = "\n" => e = 2)
        BY <1>2, <3>1, <3>3
      <4> HIDE DEF o, e
      <4>2. c = "\n" => o - 1 = l + 1
        BY <4>1
      <4>3. QED BY <4>2 DEF o
    <3>5. OnLine(text, n) \in 1..Len(longer) /\ longer[OnLine(text, n)] = text[n]
      BY <1>4, <1>5, <3>2, <3>3
    <3>6. text[n] = "\n" => OnLine(text, n) - 1 \in 1..Len(longer) /\ longer[OnLine(text, n) - 1] = "\r"
      BY <1>4, <1>5, <3>2, <3>3, <3>4
    <3>7. QED BY <3>3, <3>5, <3>6
  <2>2. CASE n # k + 1
    <3>1. n \in 1..k
      BY <2>2
    <3>2. /\ text[n] # "NUL" /\ OnLine(text, n) \in 1..l /\ line[OnLine(text, n)] = text[n]
          /\ text[n] = "\n" => OnLine(text, n) - 1 \in 1..l /\ line[OnLine(text, n) - 1] = "\r"
      BY <3>1 DEF LineShows
    <3>3. ASSUME NEW j \in 1..l PROVE j \in 1..Len(longer) /\ longer[j] = line[j]
      <4>1. Len(t) \in Nat
        BY <1>1
      <4>2. j \in 1..l + Len(t)
        BY <1>2, <4>1
      <4>3. QED BY <1>2, <1>4, <4>2 DEF Joined
    <3>4. QED BY <3>2, <3>3
  <2>3. QED BY <2>1, <2>2
<1>7. LineShows(longer, text, k + 1)
  BY <1>4, <1>6 DEF LineShows
<1>8. QED BY <1>2, <1>7 DEF longer, t

\* Where printf stops: at the first NUL of the text, or where the buffer ends.
LEMMA FirstNul ==
  ASSUME NEW text, IsText(text), NEW k \in 0..Len(text), \A n \in 1..k : text[n] # "NUL"
  PROVE  LET first == SelectInSeq(Append(text, "NUL"), LAMBDA c : c = "NUL") - 1
         IN first \in k..Len(text) /\ (k < Len(text) /\ text[k + 1] = "NUL" => first = k)
<1> DEFINE l == Len(text)
           s == Append(text, "NUL")
           I == {n \in 1..Len(s) : s[n] = "NUL"}
<1>1. text \in Seq(ToSet(text)) /\ l \in Nat
  BY DEF IsText
<1>2. Len(s) = l + 1 /\ s[l + 1] = "NUL" /\ \A n \in 1..l : s[n] = text[n]
  BY <1>1
<1> HIDE DEF s
<1>3. SelectInSeq(s, LAMBDA c : c = "NUL") = IF I # {} THEN Min(I) ELSE 0
  BY DEF SelectInSeq
<1>4. l + 1 \in I /\ I \in SUBSET Nat
  BY <1>1, <1>2
<1>5. \A n \in I : n \in Nat /\ k + 1 <= n
  BY <1>1, <1>2
<1>6. k < l /\ text[k + 1] = "NUL" => k + 1 \in I
  BY <1>1, <1>2
<1> HIDE DEF I
<1>7. Min(I) \in I /\ \A n \in I : Min(I) <= n
  BY <1>4, MinIs
<1> DEFINE m == Min(I)
<1>8. m \in Nat /\ k + 1 <= m /\ m <= l + 1 /\ (k < l /\ text[k + 1] = "NUL" => m <= k + 1)
  BY <1>4, <1>5, <1>6, <1>7
<1>9. SelectInSeq(s, LAMBDA c : c = "NUL") = m
  BY <1>3, <1>4
<1> HIDE DEF m
<1>10. m - 1 \in k..l /\ (k < l /\ text[k + 1] = "NUL" => m - 1 = k)
  BY <1>1, <1>8
<1>11. QED BY <1>9, <1>10 DEF s

\* The buffer with the first k chars of a text, and with a terminator behind them.
Start(text, k) == [a \in 0..TOP |-> IF a \in BUF..BUF + k - 1 THEN text[a - BUF + 1] ELSE "?"]

Closed(text, k, n) ==
  [a \in 0..TOP |-> IF a \in BUF..BUF + k - 1 THEN text[a - BUF + 1]
                    ELSE IF n > 0 /\ a = BUF + k THEN "NUL" ELSE "?"]

LEMMA BufferIs ==
  BufferHoldsStart <=> ram = IF Printed THEN Closed(whole, Kept, size) ELSE Start(whole, Kept)
<1>1. CASE Printed
  BY <1>1 DEF BufferHoldsStart, Closed, Kept
<1>2. CASE ~Printed
  BY <1>2 DEF BufferHoldsStart, Start, Kept
<1>3. QED BY <1>1, <1>2

\* What is put behind the text goes on with it, as far as the buffer does.
LEMMA PutStarts ==
  ASSUME PrintTypeOK, IsText(whole), NEW chars, IsText(chars),
         ram = Start(whole, Min({Len(whole), size}))
  PROVE  Put(ram, chars) = Start(whole \o chars, Min({Len(whole \o chars), size}))
<1> DEFINE l == Len(whole)
           e == Len(chars)
           m == IF l <= size THEN l ELSE size
           n == IF l + e <= size THEN l + e ELSE size
           text == whole \o chars
<1>1. Joined(text, whole, chars) /\ l \in Nat /\ e \in Nat
  BY TextJoins
<1>2. size \in Nat /\ BUF \in Nat /\ BUF >= 1 /\ str = BUF + l
  BY Addresses DEF PrintTypeOK
<1>3. Len(text) = l + e /\ Min({l, size}) = m /\ Min({Len(text), size}) = n
  <2>1. Len(text) = l + e
    BY <1>1 DEF Joined
  <2>2. l \in Int /\ l + e \in Int /\ size \in Int
    BY <1>1, <1>2
  <2> HIDE DEF text
  <2>3. QED BY <2>1, <2>2, SmallerOfTwo
<1> HIDE DEF text
<1>4. ASSUME NEW a \in 0..TOP
      PROVE  (IF a >= str /\ a < str + e /\ Fits(a) THEN chars[a - str + 1] ELSE ram[a])
               = (IF a \in BUF..BUF + n - 1 THEN text[a - BUF + 1] ELSE "?")
  <2>1. ram[a] = IF a \in BUF..BUF + m - 1 THEN whole[a - BUF + 1] ELSE "?"
    BY <1>3 DEF Start
  <2>2. Fits(a) <=> a <= BUF + size - 1
    BY DEF Fits, end_of_buf
  <2>3. a \in Nat /\ m \in Nat /\ n \in Nat
    BY <1>1, <1>2
  <2>4. CASE a >= str /\ a < str + e /\ a <= BUF + size - 1
    <3>1. a - str + 1 \in 1..e /\ l + (a - str + 1) = a - BUF + 1 /\ a \in BUF..BUF + n - 1
      BY <1>1, <1>2, <2>3, <2>4
    <3>2. text[l + (a - str + 1)] = chars[a - str + 1]
      BY <1>1, <3>1 DEF Joined
    <3>3. QED BY <2>2, <2>4, <3>1, <3>2
  <2>5. CASE ~(a >= str /\ a < str + e /\ a <= BUF + size - 1)
    <3>1. a \in BUF..BUF + m - 1 <=> a \in BUF..BUF + n - 1
      BY <1>1, <1>2, <2>3, <2>5
    <3>2. a \in BUF..BUF + m - 1 => a - BUF + 1 \in 1..l
      BY <1>1, <1>2, <2>3
    <3>3. a \in BUF..BUF + m - 1 => text[a - BUF + 1] = whole[a - BUF + 1]
      BY <1>1, <3>2 DEF Joined
    <3> HIDE DEF m, n
    <3>4. QED BY <2>1, <2>2, <2>5, <3>1, <3>3
  <2>6. QED BY <2>4, <2>5
<1> HIDE DEF n, m
<1>5. Put(ram, chars) = [a \in 0..TOP |-> IF a \in BUF..BUF + n - 1 THEN text[a - BUF + 1] ELSE "?"]
  BY <1>4 DEF Put
<1>6. QED BY <1>3, <1>5 DEF Start, text

\* The terminator is in the buffer.
LEMMA TerminatedIs ==
  ASSUME PrintTypeOK, IsText(whole), ram = Start(whole, Min({Len(whole), size}))
  PROVE  Terminated = Closed(whole, Min({Len(whole), size - 1}), size)
<1> DEFINE l == Len(whole)
           m == IF l <= size THEN l ELSE size
           n == IF l <= size - 1 THEN l ELSE size - 1
<1>1. l \in Nat /\ size \in Nat /\ size <= TOP - BUF + 1 /\ str = BUF + l
  <2>1. whole \in Seq(ToSet(whole))
    BY DEF IsText
  <2>2. QED BY <2>1, Addresses DEF PrintTypeOK
<1>2. Min({l, size}) = m /\ Min({l, size - 1}) = n
  <2>1. l \in Int /\ size \in Int /\ size - 1 \in Int
    BY <1>1
  <2>2. QED BY <2>1, SmallerOfTwo
<1>3. ram = [a \in 0..TOP |-> IF a \in BUF..BUF + m - 1 THEN whole[a - BUF + 1] ELSE "?"]
  BY <1>2 DEF Start
<1>4. Closed(whole, n, size)
       = [a \in 0..TOP |-> IF a \in BUF..BUF + n - 1 THEN whole[a - BUF + 1]
                           ELSE IF size > 0 /\ a = BUF + n THEN "NUL" ELSE "?"]
  BY DEF Closed
<1>5. Fits(str) <=> l <= size - 1
  BY <1>1, Addresses DEF Fits, end_of_buf
<1>6. CASE l <= size - 1
  <2>1. m = l /\ n = l /\ str = BUF + n /\ str \in 0..TOP /\ size > 0
    BY <1>1, <1>6, Addresses
  <2>2. Terminated = [ram EXCEPT ![str] = "NUL"]
    BY <1>5, <1>6 DEF Terminated
  <2>3. ASSUME NEW a \in 0..TOP
        PROVE  a = str => ~(a \in BUF..BUF + n - 1)
    BY <1>1, <2>1, Addresses
  <2> HIDE DEF m, n
  <2>4. [ram EXCEPT ![str] = "NUL"] = Closed(whole, n, size)
    BY <1>3, <1>4, <2>1, <2>3
  <2>5. QED BY <1>2, <2>2, <2>4
<1>7. CASE ~(l <= size - 1) /\ size > 0
  <2>1. m = size /\ n = size - 1 /\ end_of_buf = BUF + n /\ end_of_buf \in 0..TOP
    BY <1>1, <1>7, Addresses DEF end_of_buf
  <2>2. Terminated = [ram EXCEPT ![end_of_buf] = "NUL"]
    BY <1>5, <1>7 DEF Terminated
  <2>3. ASSUME NEW a \in 0..TOP
        PROVE  /\ a = end_of_buf => ~(a \in BUF..BUF + n - 1)
               /\ a # end_of_buf => (a \in BUF..BUF + n - 1 <=> a \in BUF..BUF + m - 1)
    BY <1>1, <2>1, Addresses
  <2> HIDE DEF m, n
  <2>4. [ram EXCEPT ![end_of_buf] = "NUL"] = Closed(whole, n, size)
    BY <1>3, <1>4, <1>7, <2>1, <2>3
  <2>5. QED BY <1>2, <2>2, <2>4
<1>8. CASE size = 0
  <2>1. Terminated = ram
    BY <1>1, <1>5, <1>8 DEF Terminated
  <2>2. m = 0 /\ n = -1
    BY <1>1, <1>8
  <2>3. ASSUME NEW a \in 0..TOP
        PROVE  ~(a \in BUF..BUF + n - 1) /\ ~(a \in BUF..BUF + m - 1)
    BY <2>2, Addresses
  <2> HIDE DEF m, n
  <2>4. ~(size > 0)
    BY <1>8
  <2>5. ram = [a \in 0..TOP |-> "?"]
    BY <1>3, <2>3
  <2>6. Closed(whole, n, size) = [a \in 0..TOP |-> "?"]
    BY <1>4, <2>3, <2>4
  <2>7. QED BY <1>2, <2>1, <2>5, <2>6
<1>9. QED BY <1>1, <1>6, <1>7, <1>8

LEMMA KeptIs ==
  ASSUME PrintTypeOK, IsText(whole)
  PROVE  /\ Len(whole) \in Nat /\ size \in Nat /\ size <= TOP - BUF + 1 /\ Kept \in Int /\ Kept <= Len(whole)
         /\ Printed => Kept = IF Len(whole) <= size - 1 THEN Len(whole) ELSE size - 1
         /\ ~Printed => Kept = IF Len(whole) <= size THEN Len(whole) ELSE size
<1> DEFINE l == Len(whole)
           b == IF Printed THEN size - 1 ELSE size
<1>1. l \in Nat /\ size \in Nat /\ size <= TOP - BUF + 1
  <2>1. whole \in Seq(ToSet(whole))
    BY DEF IsText
  <2>2. QED BY <2>1, Addresses DEF PrintTypeOK
<1>2. l \in Int /\ b \in Int
  BY <1>1
<1>3. Kept = Min({l, b})
  BY DEF Kept
<1> HIDE DEF b
<1>4. Kept = IF l <= b THEN l ELSE b
  BY <1>2, <1>3, SmallerOfTwo
<1>5. Kept \in Int /\ Kept <= l
  BY <1>2, <1>4
<1>6. QED BY <1>1, <1>4, <1>5 DEF b

\* A program that starts has nothing in the buffer, and a size that the addresses allow.
LEMMA PrintInitHolds == PrintInit => PrintInv
<1> SUFFICES ASSUME PrintInit PROVE PrintInv
  OBVIOUS
<1>1. PICK f \in Formats, n \in Sizes \cup {PRINTF_BUF}, caller \in {"vsnprintf", "printf"} :
        /\ caller = "printf" => n = PRINTF_BUF
        /\ fmt = f /\ size = Clamped(n) /\ printing = caller
        /\ str = BUF /\ p = BUF /\ ram = [a \in 0..TOP |-> "?"] /\ stored = -1 /\ whole = <<>> /\ serial = <<>>
  BY DEF PrintInit
<1>2. n \in 0..TOP /\ PRINTF_BUF <= TOP - BUF + 1 /\ PRINTF_BUF >= 1
  <2>1. Sizes \subseteq 0..TOP
    BY PrintAssumption
  <2>2. PRINTF_BUF \in 0..TOP
    BY Addresses
  <2>3. QED BY <2>1, <2>2, Addresses
<1>3. size \in 0..TOP - BUF + 1 /\ (caller = "printf" => size >= 1)
  BY <1>1, <1>2, ClampedIs
<1>4. Len(whole) = 0 /\ IsText(whole)
  <2>1. <<>> \in Seq({"NUL"}) /\ Len(<<>>) = 0
    OBVIOUS
  <2>2. IsText(<<>>)
    BY <2>1, TextIs
  <2>3. QED BY <1>1, <2>1, <2>2
<1>5. PrintTypeOK
  BY <1>1, <1>3, <1>4, Addresses DEF PrintTypeOK
<1>6. FormatsLeft
  <2>1. IsText(f)
    BY PrintAssumption
  <2>2. QED BY <1>1, <2>1 DEF FormatsLeft, IsText
<1>7. BufferHoldsStart
  <2>1. ~Printed
    BY <1>1 DEF Printed
  <2>2. Kept = 0
    BY <1>4, <1>5, <2>1, KeptIs
  <2>3. \A a \in 0..TOP : ~(a \in BUF..BUF + 0 - 1)
    BY Addresses
  <2>4. Start(whole, 0) = [a \in 0..TOP |-> "?"]
    BY <2>3 DEF Start
  <2>5. QED BY <1>1, <2>1, <2>2, <2>4, BufferIs
<1>8. SerialFollows
  BY <1>1, <1>3 DEF SerialFollows
<1>9. QED BY <1>4, <1>5, <1>6, <1>7, <1>8 DEF PrintInv

\* An item: its chars go on with the text, in the buffer as far as they fit.
LEMMA FormatsItemKeeps ==
  ASSUME PrintInv, formats_item
  PROVE  PrintInv'
<1> DEFINE item == Head(fmt)
           chars == Chars(item)
<1>1. PICK f \in Formats : fmt \in Seq(ToSet(f)) /\ fmt # <<>>
  BY DEF PrintInv, FormatsLeft, formats_item
<1>2. item \in ToSet(f) /\ Tail(fmt) \in Seq(ToSet(f))
  BY <1>1, HeadTailProperties
<1>3. IsItem(item)
  BY <1>2, PrintAssumption
<1>4. IsText(chars)
  BY <1>3, CharsAreText
<1>5. IsText(whole) /\ PrintTypeOK /\ ~Printed /\ printing \in {"vsnprintf", "printf"}
  BY DEF PrintInv, formats_item, Printed
<1>6. /\ ram' = Put(ram, chars) /\ str' = str + Len(chars) /\ whole' = whole \o chars
      /\ stored' = (IF item.conv = "n" THEN str - BUF ELSE stored) /\ fmt' = Tail(fmt)
      /\ size' = size /\ printing' = printing /\ p' = p /\ serial' = serial
  BY DEF formats_item
<1> HIDE DEF chars, item
<1>7. IsText(whole') /\ Len(whole') = Len(whole) + Len(chars) /\ Len(whole) \in Nat /\ Len(chars) \in Nat
  <2>1. IsText(whole \o chars) /\ Joined(whole \o chars, whole, chars) /\ Len(whole) \in Nat /\ Len(chars) \in Nat
    BY <1>4, <1>5, TextJoins
  <2>2. QED BY <1>6, <2>1 DEF Joined
<1>8. PrintTypeOK'
  <2>1. str' = BUF + Len(whole')
    BY <1>5, <1>6, <1>7, Addresses DEF PrintTypeOK
  <2>2. stored' \in -1..Len(whole')
    <3>1. stored \in -1..Len(whole) /\ str - BUF = Len(whole)
      BY <1>5, <1>7, Addresses DEF PrintTypeOK
    <3>2. stored' \in {Len(whole), stored}
      BY <1>6, <3>1
    <3>3. QED BY <1>7, <3>1, <3>2
  <2>3. QED BY <1>5, <1>6, <2>1, <2>2 DEF PrintTypeOK
<1>9. FormatsLeft'
  BY <1>2, <1>6 DEF FormatsLeft
<1>10. BufferHoldsStart'
  <2>1. Kept = Min({Len(whole), size})
    BY <1>5 DEF Kept
  <2>2. ram = Start(whole, Min({Len(whole), size}))
    BY <1>5, <2>1, BufferIs DEF PrintInv
  <2>3. Put(ram, chars) = Start(whole \o chars, Min({Len(whole \o chars), size}))
    BY <1>4, <1>5, <2>2, PutStarts
  <2>4. ~Printed'
    BY <1>5, <1>6 DEF Printed
  <2>5. ram' = Start(whole', Min({Len(whole'), size'}))
    BY <1>6, <2>3
  <2>6. QED BY <2>4, <2>5 DEF BufferHoldsStart, Start
<1>11. SerialFollows'
  BY <1>5, <1>6 DEF PrintInv, SerialFollows
<1>12. QED BY <1>7, <1>8, <1>9, <1>10, <1>11 DEF PrintInv

\* The end: the terminator, in the buffer.
LEMMA VsnprintfEndsKeeps ==
  ASSUME PrintInv, vsnprintf_ends
  PROVE  PrintInv'
<1>1. /\ printing \in {"vsnprintf", "printf"} /\ ram' = Terminated
      /\ printing' = (IF printing = "printf" THEN "PUTC" ELSE "done") /\ p' = BUF
      /\ fmt' = fmt /\ str' = str /\ size' = size /\ stored' = stored /\ whole' = whole /\ serial' = serial
  BY DEF vsnprintf_ends
<1>2. IsText(whole) /\ PrintTypeOK /\ ~Printed
  BY <1>1 DEF PrintInv, Printed
<1>3. Printed' /\ printing' \in {"PUTC", "done"}
  BY <1>1 DEF Printed
<1>4. PrintTypeOK' /\ IsText(whole)' /\ FormatsLeft'
  BY <1>1 DEF PrintInv, PrintTypeOK, FormatsLeft
<1>5. BufferHoldsStart'
  <2>1. Kept = Min({Len(whole), size})
    BY <1>2 DEF Kept
  <2>2. ram = Start(whole, Min({Len(whole), size}))
    BY <1>2, <2>1, BufferIs DEF PrintInv
  <2>3. Terminated = Closed(whole, Min({Len(whole), size - 1}), size)
    BY <1>2, <2>2, TerminatedIs
  <2>4. ram' = Closed(whole', Min({Len(whole'), size' - 1}), size')
    BY <1>1, <2>3
  <2>5. QED BY <1>3, <2>4 DEF BufferHoldsStart, Closed
<1>6. SerialFollows'
  <2>1. CASE printing = "vsnprintf"
    BY <1>1, <2>1 DEF SerialFollows
  <2>2. CASE printing = "printf"
    <3>1. printing' = "PUTC" /\ size >= 1 /\ serial = <<>>
      BY <1>1, <2>2 DEF PrintInv, SerialFollows
    <3>2. Kept' \in Nat
      <4> DEFINE l == Len(whole)
      <4>1. Kept' = Min({l, size - 1})
        BY <1>1, <1>3 DEF Kept
      <4>2. l \in Nat /\ size \in Nat
        BY <1>2, KeptIs
      <4> HIDE DEF l
      <4>3. l \in Int /\ size - 1 \in Nat
        BY <3>1, <4>2
      <4>4. QED BY <4>1, <4>2, <4>3, SmallerOfTwo
    <3>3. p' = BUF /\ p' \in BUF..BUF + Kept' /\ p' - BUF = 0
      <4>1. ASSUME NEW k \in Nat PROVE BUF \in BUF..BUF + k /\ BUF - BUF = 0
        BY Addresses
      <4>2. BUF \in BUF..BUF + Kept' /\ BUF - BUF = 0
        BY <3>2, <4>1
      <4>3. QED BY <1>1, <4>2
    <3>4. IsText(<<>>) /\ Len(<<>>) = 0
      <4>1. <<>> \in Seq({"NUL"}) /\ Len(<<>>) = 0
        OBVIOUS
      <4>2. QED BY <4>1, TextIs
    <3>5. LineShows(<<>>, whole, 0)
      <4>1. OnLine(whole, 0) = 0
        BY OnLineStep
      <4>2. 1..0 = {}
        OBVIOUS
      <4>3. QED BY <3>4, <4>1, <4>2 DEF LineShows
    <3>6. IsText(serial') /\ LineShows(serial', whole', p' - BUF)
      BY <1>1, <3>1, <3>3, <3>4, <3>5
    <3>7. size' >= 1
      BY <1>1, <3>1
    <3>8. QED BY <3>1, <3>3, <3>6, <3>7 DEF SerialFollows
  <2>3. QED BY <1>1, <2>1, <2>2
<1>7. QED BY <1>4, <1>5, <1>6 DEF PrintInv

\* A char on the line, or the first NUL, where printf stops.
LEMMA PrintfPutsKeeps ==
  ASSUME PrintInv, printf_puts
  PROVE  PrintInv'
<1> DEFINE k == p - BUF
           c == whole[k + 1]
<1>1. /\ printing = "PUTC"
      /\ fmt' = fmt /\ str' = str /\ ram' = ram /\ size' = size /\ stored' = stored /\ whole' = whole
  BY DEF printf_puts
<1>2. IsText(whole) /\ PrintTypeOK /\ Printed /\ Printed'
  BY <1>1 DEF PrintInv, Printed, printf_puts
<1>3. /\ size >= 1 /\ p \in BUF..BUF + Kept /\ IsText(serial) /\ LineShows(serial, whole, k)
  BY <1>1 DEF PrintInv, SerialFollows
<1>4. Kept' = Kept
  BY <1>1, <1>2 DEF Kept
<1>5. /\ Len(whole) \in Nat /\ size \in Nat /\ size <= TOP - BUF + 1 /\ Kept \in Int /\ Kept <= Len(whole)
      /\ Kept = IF Len(whole) <= size - 1 THEN Len(whole) ELSE size - 1
  BY <1>2, KeptIs
<1>6. k \in 0..Kept /\ p = BUF + k /\ p \in 0..TOP /\ p \in Int
  BY <1>3, <1>5, Addresses
<1>7. PrintTypeOK' /\ IsText(whole)' /\ FormatsLeft' /\ BufferHoldsStart'
  <2>1. PrintTypeOK'
    BY <1>1, <1>2 DEF PrintTypeOK, printf_puts
  <2>2. BufferHoldsStart'
    BY <1>1, <1>2 DEF BufferHoldsStart, PrintInv
  <2>3. QED BY <1>1, <2>1, <2>2 DEF PrintInv, FormatsLeft
<1>8. /\ k < Kept => ram[p] = c
      /\ k = Kept => ram[p] = "NUL"
  <2>1. ram = Closed(whole, Kept, size)
    BY <1>2, BufferIs DEF PrintInv
  <2>2. ram[p] = IF p \in BUF..BUF + Kept - 1 THEN whole[p - BUF + 1]
                 ELSE IF size > 0 /\ p = BUF + Kept THEN "NUL" ELSE "?"
    BY <1>6, <2>1 DEF Closed
  <2>3. size > 0
    BY <1>3, <1>5
  <2>4. k < Kept => p \in BUF..BUF + Kept - 1
    BY <1>5, <1>6, Addresses
  <2>5. k = Kept => p = BUF + Kept /\ p \notin BUF..BUF + Kept - 1
    BY <1>5, <1>6, Addresses
  <2>6. QED BY <2>2, <2>3, <2>4, <2>5
<1> HIDE DEF k
<1>9. CASE ram[p] = "NUL"
  <2>1. printing' = "sent" /\ serial' = serial /\ p' = p
    BY <1>9 DEF printf_puts
  <2>2. p = BUF + Kept \/ whole[p - BUF + 1] = "NUL"
    BY <1>5, <1>6, <1>8, <1>9 DEF k
  <2>3. SerialFollows'
    BY <1>1, <1>3, <1>4, <2>1, <2>2 DEF SerialFollows, k
  <2>4. QED BY <1>7, <2>3 DEF PrintInv
<1>10. CASE ram[p] # "NUL"
  <2>1. printing' = printing /\ serial' = serial \o Sent(ram[p]) /\ p' = p + 1
    BY <1>10 DEF printf_puts
  <2>2. k < Kept /\ ram[p] = c
    BY <1>5, <1>6, <1>8, <1>10
  <2>3. k \in Nat /\ c # "NUL"
    BY <1>6, <1>10, <2>2
  <2>4. IsText(serial \o Sent(c)) /\ LineShows(serial \o Sent(c), whole, k + 1)
    BY <1>3, <2>3, LineGrows
  <2>5. p' - BUF = k + 1 /\ p' \in BUF..BUF + Kept
    <3>1. (p + 1) - BUF = k + 1 /\ p + 1 \in BUF..BUF + Kept
      BY <1>5, <1>6, <2>2, Addresses
    <3>2. QED BY <2>1, <3>1
  <2>6. IsText(serial') /\ LineShows(serial', whole', p' - BUF)
    BY <1>1, <2>1, <2>2, <2>4, <2>5
  <2>7. printing' = "PUTC" /\ size' >= 1
    BY <1>1, <1>3, <2>1
  <2>8. SerialFollows'
    BY <1>4, <2>5, <2>6, <2>7 DEF SerialFollows
  <2>9. QED BY <1>7, <2>8 DEF PrintInv
<1>11. QED BY <1>9, <1>10

\* The properties of printf, in a state that keeps the invariant.
LEMMA PrintInvShows == PrintInv => PrintCorrect
<1> SUFFICES ASSUME PrintInv PROVE PrintCorrect
  OBVIOUS
<1>1. PrintTypeOK /\ IsText(whole) /\ BufferHoldsStart
  BY DEF PrintInv
<1>2. NumberReadsBack
  <2>1. SUFFICES ASSUME fmt # <<>>, Head(fmt).conv \in Numbers PROVE ReadsBack(Head(fmt))
    BY DEF NumberReadsBack, ReadsBack
  <2>2. PICK f \in Formats : fmt \in Seq(ToSet(f))
    BY DEF PrintInv, FormatsLeft
  <2>3. Head(fmt) \in ToSet(f)
    BY <2>1, <2>2, HeadTailProperties
  <2>4. IsItem(Head(fmt))
    BY <2>3, PrintAssumption
  <2>5. QED BY <2>1, <2>4, ConversionReads
<1>3. SerialShowsText
  <2>1. SUFFICES ASSUME printing = "sent"
                 PROVE  LET first == SelectInSeq(Append(whole, "NUL"), LAMBDA c : c = "NUL") - 1
                            sent  == Min({first, size - 1})
                        IN /\ Len(serial) = OnLine(whole, sent)
                           /\ \A n \in 1..sent :
                                /\ serial[OnLine(whole, n)] = whole[n]
                                /\ whole[n] = "\n" => serial[OnLine(whole, n) - 1] = "\r"
    BY DEF SerialShowsText
  <2> DEFINE k == p - BUF
             l == Len(whole)
             first == SelectInSeq(Append(whole, "NUL"), LAMBDA c : c = "NUL") - 1
  <2>2. /\ size >= 1 /\ p \in BUF..BUF + Kept /\ IsText(serial) /\ LineShows(serial, whole, k)
        /\ p = BUF + Kept \/ whole[k + 1] = "NUL"
    BY <2>1 DEF PrintInv, SerialFollows
  <2>3. /\ l \in Nat /\ size \in Nat /\ Kept \in Int /\ Kept <= l
        /\ Kept = IF l <= size - 1 THEN l ELSE size - 1
    BY <1>1, <2>1, KeptIs DEF Printed
  <2>4. k \in 0..l /\ k <= Kept /\ (k = Kept \/ whole[k + 1] = "NUL")
    BY <2>2, <2>3, Addresses
  <2> HIDE DEF k
  <2>5. \A n \in 1..k : whole[n] # "NUL"
    BY <2>2 DEF LineShows
  <2>6. first \in k..l /\ (k < l /\ whole[k + 1] = "NUL" => first = k)
    BY <1>1, <2>4, <2>5, FirstNul
  <2> HIDE DEF first, l
  <2>7. (IF first <= size - 1 THEN first ELSE size - 1) = k
    BY <2>2, <2>3, <2>4, <2>6
  <2>8. Min({first, size - 1}) = k
    <3>1. first \in Int /\ size - 1 \in Int
      BY <2>3, <2>4, <2>6
    <3>2. QED BY <2>7, <3>1, SmallerOfTwo
  <2>9. /\ Len(serial) = OnLine(whole, k)
        /\ \A n \in 1..k :
             /\ serial[OnLine(whole, n)] = whole[n]
             /\ whole[n] = "\n" => serial[OnLine(whole, n) - 1] = "\r"
    BY <2>2 DEF LineShows
  <2>10. QED BY <2>8, <2>9 DEF first
<1>4. QED BY <1>1, <1>2, <1>3 DEF PrintCorrect

LEMMA PrintNextKeeps == PrintInv /\ [PrintNext]_printVars => PrintInv'
<1> SUFFICES ASSUME PrintInv, [PrintNext]_printVars PROVE PrintInv'
  OBVIOUS
<1>1. CASE UNCHANGED printVars
  <2>1. /\ fmt' = fmt /\ str' = str /\ ram' = ram /\ size' = size /\ printing' = printing /\ p' = p
        /\ stored' = stored /\ whole' = whole /\ serial' = serial
    BY <1>1 DEF printVars
  <2>2. QED BY <2>1 DEF PrintInv, PrintTypeOK, FormatsLeft, BufferHoldsStart, SerialFollows, Kept, Printed
<1>2. QED BY <1>1, FormatsItemKeeps, VsnprintfEndsKeeps, PrintfPutsKeeps DEF PrintNext

\* vsnprintf and printf put out the text of their format, for every format that the
\* loop can read, every size of the buffer and every width of an integer: cut where
\* the buffer ends, never written behind it, with the first NUL as the end of what
\* goes to the line, and with numbers that read back as the argument (printf.c 66 to 430).
THEOREM PrintIsCorrect == PrintSpec => []PrintCorrect
<1>1. PrintInit => PrintInv
  BY PrintInitHolds
<1>2. PrintInv /\ [PrintNext]_printVars => PrintInv'
  BY PrintNextKeeps
<1>3. PrintInv => PrintCorrect
  BY PrintInvShows
<1>4. QED BY <1>1, <1>2, <1>3, PTL DEF PrintSpec

-----------------------------------------------------------------------------
(***************************************************************************)
(* The functions of clibs/string.c.  A loop that moves through its states  *)
(* f[0], f[1], ... leaves the last behind (RunRule), and one whose turns   *)
(* lower a rank ends where it does not go on (LoopRule): both by induction *)
(* over the turns.  Each function is then one loop with its states named,  *)
(* and its reference definition is a property of the last of them.         *)
(***************************************************************************)

LEMMA Memories == MemSize \in Nat /\ UINT_MAX \in Nat /\ MemSize < UINT_MAX /\ 0 \in Bytes /\ Bytes \subseteq Int
<1>1. \A c \in -128..127 : c \in Int
  OBVIOUS
<1>2. QED BY <1>1, StringAssumption

\* The states of a loop, as long as they stay in I.
States(after, x, turn, D) ==
  /\ Loop(x, turn) = after[MemSize] /\ after[0] = x
  /\ \A k \in Nat : after[k + 1] = IF after[k] \in D THEN turn[after[k]] ELSE after[k]

LEMMA LoopIs ==
  ASSUME NEW I, NEW x \in I, NEW turn, NEW D, DOMAIN turn = D, \A y \in I : y \in D => turn[y] \in I
  PROVE  \E f \in [Nat -> I] : States(f, x, turn, D)
<1> DEFINE phi == [y \in I |-> IF y \in D THEN turn[y] ELSE y]
           Turn(f) == [k \in Nat |-> IF k = 0 THEN x ELSE IF f[k - 1] \in D THEN turn[f[k - 1]] ELSE f[k - 1]]
           after == CHOOSE f : f = Turn(f)
<1>1. Loop(x, turn) = after[MemSize]
  BY DEF Loop
<1>3. phi \in [I -> I]
  OBVIOUS
<1>4. after = Turn(after)
  <2>1. PICK g \in [Nat -> I] : g = [k \in Nat |-> IF k = 0 THEN x ELSE phi[g[k - 1]]]
    <3> HIDE DEF phi
    <3>1. QED BY <1>3, IterationExists
  <2>2. \A k \in Nat : k # 0 => phi[g[k - 1]] = IF g[k - 1] \in D THEN turn[g[k - 1]] ELSE g[k - 1]
    <3> TAKE k \in Nat
    <3> HAVE k # 0
    <3>1. k - 1 \in Nat
      OBVIOUS
    <3>2. g[k - 1] \in I
      BY <3>1
    <3>3. QED BY <3>2
  <2> HIDE DEF phi
  <2>3. Turn(g) = [k \in Nat |-> IF k = 0 THEN x ELSE phi[g[k - 1]]]
    BY <2>2
  <2>4. g = Turn(g)
    BY <2>1, <2>3
  <2> HIDE DEF Turn
  <2>5. QED BY <2>4
<1>5. after[0] = x /\ \A k \in Nat : after[k + 1] = IF after[k] \in D THEN turn[after[k]] ELSE after[k]
  <2> HIDE DEF after
  <2>1. \A k \in Nat : k + 1 \in Nat /\ k + 1 # 0 /\ (k + 1) - 1 = k
    OBVIOUS
  <2>2. after[0] = x
    BY <1>4
  <2>3. \A k \in Nat : after[k + 1] = IF after[k] \in D THEN turn[after[k]] ELSE after[k]
    <3> TAKE k \in Nat
    <3>1. after[k + 1] = Turn(after)[k + 1]
      BY <1>4
    <3>2. Turn(after)[k + 1] = IF after[k] \in D THEN turn[after[k]] ELSE after[k]
      BY <2>1
    <3>3. QED BY <3>1, <3>2
  <2>4. QED BY <2>2, <2>3
<1> HIDE DEF after, Turn, phi
<1> DEFINE S == {k \in Nat : after[k] \in I}
<1>6. 0 \in S
  BY <1>5
<1>7. ASSUME NEW k \in S PROVE k + 1 \in S
  BY <1>5
<1>8. S = Nat
  <2>1. S \in SUBSET Nat
    OBVIOUS
  <2> HIDE DEF S
  <2>2. QED BY <1>6, <1>7, <2>1, Inductive
<1>9. \A k \in Nat : after[k] \in I
  BY <1>8
<1> DEFINE f == [k \in Nat |-> after[k]]
<1>10. f \in [Nat -> I]
  BY <1>9
<1>11. States(f, x, turn, D)
  BY <1>1, <1>5, Memories DEF States
<1>12. QED BY <1>10, <1>11

\* A turn gives one state of a loop from another.
Leads(turn, I, D, rank) ==
  /\ rank \in [I -> Nat]
  /\ \A y \in I : y \in D => turn[y] \in I /\ rank[turn[y]] < rank[y]

\* A loop ends in a state of which it does not go on, if each turn comes nearer to an end.
LEMMA LoopRule ==
  ASSUME NEW I, NEW x \in I, NEW turn, NEW D, DOMAIN turn = D, NEW rank, Leads(turn, I, D, rank), rank[x] <= MemSize
  PROVE  Loop(x, turn) \in I /\ Loop(x, turn) \notin D
<1>2. rank \in [I -> Nat] /\ \A y \in I : y \in D => turn[y] \in I /\ rank[turn[y]] < rank[y]
  BY DEF Leads
<1>4. \E f \in [Nat -> I] : States(f, x, turn, D)
  BY <1>2, LoopIs
<1>3. PICK after \in [Nat -> I] : States(after, x, turn, D)
  BY <1>4
<1>1. Loop(x, turn) = after[MemSize]
  BY <1>3 DEF States
<1>5. after[0] = x /\ \A k \in Nat : after[k + 1] = IF after[k] \in D THEN turn[after[k]] ELSE after[k]
  BY <1>3 DEF States
<1> DEFINE S == {k \in Nat : after[k] \in I /\ (after[k] \in D => rank[after[k]] + k <= MemSize)}
<1>6. 0 \in S
  <2>1. rank[x] \in Nat
    BY <1>2
  <2>2. QED BY <1>5, <2>1
<1>7. ASSUME NEW k \in S PROVE k + 1 \in S
  <2>1. k \in Nat /\ after[k] \in I /\ (after[k] \in D => rank[after[k]] + k <= MemSize)
    OBVIOUS
  <2>2. CASE after[k] \in D
    <3>1. after[k + 1] = turn[after[k]] /\ after[k + 1] \in I /\ rank[after[k + 1]] < rank[after[k]]
      BY <1>2, <1>5, <2>1, <2>2
    <3>2. rank[after[k + 1]] \in Nat /\ rank[after[k]] \in Nat
      BY <1>2, <2>1, <3>1
    <3>3. rank[after[k + 1]] + (k + 1) <= MemSize
      BY <2>1, <2>2, <3>1, <3>2, Memories
    <3>4. QED BY <2>1, <3>1, <3>3
  <2>3. CASE after[k] \notin D
    <3>1. after[k + 1] = after[k]
      BY <1>5, <2>1, <2>3
    <3>2. QED BY <2>1, <2>3, <3>1
  <2>4. QED BY <2>2, <2>3
<1>8. S = Nat
  <2>1. S \in SUBSET Nat
    OBVIOUS
  <2> HIDE DEF S
  <2>2. QED BY <1>6, <1>7, <2>1, Inductive
<1> DEFINE y == after[MemSize]
<1>9. y \in I /\ (y \in D => rank[y] + MemSize <= MemSize)
  BY <1>8, Memories
<1> HIDE DEF y, S
<1>10. y \notin D
  <2>1. SUFFICES ASSUME y \in D PROVE FALSE
    OBVIOUS
  <2>2. rank[y] \in Nat /\ turn[y] \in I /\ rank[turn[y]] \in Nat /\ rank[turn[y]] < rank[y]
    BY <1>2, <1>9, <2>1
  <2>3. QED BY <1>9, <2>1, <2>2, Memories
<1>11. QED BY <1>1, <1>9, <1>10 DEF y
\* n is the first place from a on that is not in S, and comes no later than e.
Stops(n, a, e, S) == n \in a..e /\ (\A k \in a..n - 1 : k \in S) /\ n \notin S

LEMMA ForwardStops ==
  ASSUME NEW S \in SUBSET Nat, NEW a \in Nat, NEW e \in Nat, a <= e, e <= a + MemSize, e \notin S
  PROVE  Stops(Forward(a, S), a, e, S)
<1> DEFINE turn == [k \in S |-> k + 1]
           I == {n \in a..e : \A k \in a..n - 1 : k \in S}
           rank == [n \in I |-> e - n]
<1>1. a \in I
  OBVIOUS
<1>2. ASSUME NEW n \in I, n \in S
      PROVE  turn[n] \in I /\ rank[turn[n]] < rank[n]
  <2>1. n \in a..e /\ \A k \in a..n - 1 : k \in S
    OBVIOUS
  <2>2. n # e
    BY <1>2
  <2>3. n + 1 \in a..e /\ \A k \in a..(n + 1) - 1 : k \in S
    <3>1. \A k \in a..(n + 1) - 1 : k \in a..n - 1 \/ k = n
      BY <2>1
    <3>2. QED BY <1>2, <2>1, <2>2, <3>1
  <2>4. turn[n] = n + 1 /\ n + 1 \in I
    BY <1>2, <2>3
  <2>5. rank[n] = e - n /\ rank[n + 1] = e - (n + 1)
    BY <2>4
  <2> HIDE DEF rank, turn, I
  <2>6. rank[n + 1] < rank[n]
    BY <2>1, <2>5
  <2>7. QED BY <2>4, <2>6
<1>3. rank \in [I -> Nat] /\ rank[a] = e - a
  BY <1>1
<1>4. e - a <= MemSize
  BY Memories
<1>5. Forward(a, S) = Loop(a, turn) /\ DOMAIN turn = S
  BY DEF Forward
<1> HIDE DEF turn, rank, I
<1>6. Leads(turn, I, S, rank)
  BY <1>2, <1>3 DEF Leads
<1>7. rank[a] <= MemSize
  BY <1>3, <1>4
<1>8. Loop(a, turn) \in I /\ Loop(a, turn) \notin S
  BY <1>1, <1>5, <1>6, <1>7, LoopRule
<1>9. QED BY <1>5, <1>8 DEF I, Stops

LEMMA BackwardStops ==
  ASSUME NEW S \in SUBSET Nat, NEW a \in Nat, NEW e \in Nat, e <= a, a <= e + MemSize, e \notin S
  PROVE  LET n == Backward(a, S) IN n \in e..a /\ (\A k \in n + 1..a : k \in S) /\ n \notin S
<1> DEFINE turn == [k \in S |-> k - 1]
           I == {n \in e..a : \A k \in n + 1..a : k \in S}
           rank == [n \in I |-> n - e]
<1>1. a \in I
  OBVIOUS
<1>2. ASSUME NEW n \in I, n \in S
      PROVE  turn[n] \in I /\ rank[turn[n]] < rank[n]
  <2>1. n \in e..a /\ \A k \in n + 1..a : k \in S
    OBVIOUS
  <2>2. n # e
    BY <1>2
  <2>3. n - 1 \in e..a /\ \A k \in (n - 1) + 1..a : k \in S
    <3>1. \A k \in (n - 1) + 1..a : k \in n + 1..a \/ k = n
      BY <2>1
    <3>2. QED BY <1>2, <2>1, <2>2, <3>1
  <2>4. turn[n] = n - 1 /\ n - 1 \in I
    BY <1>2, <2>3
  <2>5. rank[n] = n - e /\ rank[n - 1] = (n - 1) - e
    BY <2>4
  <2> HIDE DEF rank, turn, I
  <2>6. rank[n - 1] < rank[n]
    BY <2>1, <2>5
  <2>7. QED BY <2>4, <2>6
<1>3. rank \in [I -> Nat] /\ rank[a] = a - e
  BY <1>1
<1>4. a - e <= MemSize
  BY Memories
<1>5. Backward(a, S) = Loop(a, turn) /\ DOMAIN turn = S
  BY DEF Backward
<1> HIDE DEF turn, rank, I
<1>6. Leads(turn, I, S, rank)
  BY <1>2, <1>3 DEF Leads
<1>7. rank[a] <= MemSize
  BY <1>3, <1>4
<1>8. Loop(a, turn) \in I /\ Loop(a, turn) \notin S
  BY <1>1, <1>5, <1>6, <1>7, LoopRule
<1>9. QED BY <1>5, <1>8 DEF I

\* The memories of a program.
Mems == {m \in Seq(Bytes) : Len(m) <= MemSize}

LEMMA MemIs ==
  ASSUME NEW m \in Mems
  PROVE  /\ m \in Seq(Bytes) /\ Len(m) \in Nat /\ Len(m) <= MemSize /\ DOMAIN m = 1..Len(m)
         /\ \A q \in 1..Len(m) : m[q] \in Bytes /\ m[q] \in Int
<1>1. m \in Seq(Bytes) /\ Len(m) \in Nat /\ Len(m) <= MemSize /\ DOMAIN m = 1..Len(m)
  BY DEF Mems
<1>2. \A q \in 1..Len(m) : m[q] \in Bytes
  BY <1>1, ElementOfSeq
<1>3. QED BY <1>1, <1>2, Memories

LEMMA SignedIs ==
  ASSUME NEW c \in Bytes
  PROVE  /\ Signed(c) = c /\ c \in Int /\ c >= -128 /\ c <= 127
         /\ Unsigned(c) = IF c < 0 THEN c + 256 ELSE c
<1>1. c \in -128..127
  BY StringAssumption
<1>2. (c + 128) % 256 = c + 128
  BY <1>1
<1>3. c % 256 = IF c < 0 THEN c + 256 ELSE c
  BY <1>1
<1>4. QED BY <1>1, <1>2, <1>3 DEF Signed, Unsigned

LEMMA LeastIs ==
  ASSUME NEW S \in SUBSET Nat, NEW b \in S, \A y \in S : b <= y
  PROVE  Min(S) = b /\ FirstOf(S) = b
<1>1. Min(S) \in S /\ \A y \in S : Min(S) <= y
  BY MinIs
<1>2. Min(S) \in Nat /\ b \in Nat /\ Min(S) <= b /\ b <= Min(S)
  BY <1>1
<1>3. Min(S) = b
  BY <1>2
<1>4. QED BY <1>3 DEF FirstOf

LEMMA GreatestIs ==
  ASSUME NEW S \in SUBSET Nat, NEW b \in S, \A y \in S : y <= b
  PROVE  Max(S) = b
<1>1. \A z \in S : (\A y \in S : z >= y) => z = b
  OBVIOUS
<1>2. \A y \in S : b >= y
  OBVIOUS
<1>3. QED BY <1>1, <1>2 DEF Max

\* The terminator, and the text before it.
LEMMA EndIs ==
  ASSUME NEW m \in Mems, NEW s \in 1..Len(m), IsString(m, s)
  PROVE  End(m, s) \in s..Len(m) /\ End(m, s) \in Nat /\ m[End(m, s)] = 0 /\ \A q \in s..End(m, s) - 1 : m[q] # 0
<1> DEFINE S == {q \in s..Len(m) : m[q] = 0}
<1>1. S \in SUBSET Nat /\ S # {}
  BY MemIs DEF IsString
<1>2. End(m, s) = Min(S)
  BY DEF End
<1>3. Min(S) \in S /\ \A y \in S : Min(S) <= y
  <2> HIDE DEF S
  <2>1. QED BY <1>1, MinIs
<1> DEFINE e == Min(S)
<1>4. e \in s..Len(m) /\ m[e] = 0 /\ \A y \in S : e <= y
  BY <1>3
<1> HIDE DEF e
<1>5. e \in Nat /\ \A q \in s..e - 1 : q \in s..Len(m) /\ ~(e <= q)
  BY <1>4, MemIs
<1>6. \A q \in s..e - 1 : m[q] # 0
  BY <1>4, <1>5
<1>7. QED BY <1>2, <1>4, <1>5, <1>6 DEF e

LEMMA ForwardIs ==
  ASSUME NEW S \in SUBSET Nat, NEW a \in Nat, NEW b \in Nat, a <= b, b <= a + MemSize,
         \A k \in a..b - 1 : k \in S, b \notin S
  PROVE  Forward(a, S) = b
<1> DEFINE n == Forward(a, S)
<1>1. Stops(n, a, b, S)
  BY ForwardStops
<1> HIDE DEF n
<1>2. n \in a..b /\ n \notin S
  BY <1>1 DEF Stops
<1>3. n = b
  <2>1. n # b => n \in a..b - 1
    BY <1>2
  <2>2. QED BY <1>2, <2>1
<1>4. QED BY <1>3 DEF n

LEMMA TextOf ==
  ASSUME NEW m \in Mems, NEW s \in 1..Len(m), IsString(m, s)
  PROVE  /\ Text(m, s) \in Seq(Bytes) /\ Len(Text(m, s)) = End(m, s) - s
         /\ \A k \in 1..End(m, s) - s : Text(m, s)[k] = m[s + k - 1] /\ m[s + k - 1] # 0
         /\ \A c : c \in ToSet(Text(m, s)) <=> \E q \in s..End(m, s) - 1 : m[q] = c
<1> DEFINE e == End(m, s)
           x == Text(m, s)
<1>1. e \in s..Len(m) /\ e \in Nat /\ m[e] = 0 /\ \A q \in s..e - 1 : m[q] # 0
  BY EndIs
<1>2. x = SubSeq(m, s, e - 1)
  BY DEF Text
<1> HIDE DEF e
<1>3. s \in Int /\ e \in Int /\ e - 1 \in Int /\ s <= e /\ \A q \in s..e - 1 : q \in 1..Len(m)
  BY <1>1, MemIs
<1>4. \A q \in s..e - 1 : m[q] \in Bytes
  BY <1>3, MemIs
<1> DEFINE y == SubSeq(m, s, e - 1)
<1>5. /\ y \in Seq(Bytes) /\ Len(y) = (IF s <= e - 1 THEN (e - 1) - s + 1 ELSE 0)
      /\ \A k \in 1..(e - 1) - s + 1 : y[k] = m[s + k - 1]
  BY <1>3, <1>4, SubSeqProperties
<1> HIDE DEF y
<1>6. (e - 1) - s + 1 = e - s
  BY <1>3
<1>7. Len(y) = e - s /\ \A k \in 1..e - s : y[k] = m[s + k - 1]
  BY <1>3, <1>5, <1>6
<1>8. \A k \in 1..e - s : s + k - 1 \in s..e - 1
  BY <1>3
<1>9. \A k \in 1..e - s : m[s + k - 1] # 0
  BY <1>1, <1>8
<1>10. \A q \in s..e - 1 : q - s + 1 \in 1..e - s /\ s + (q - s + 1) - 1 = q
  BY <1>3
<1>11. ASSUME NEW c PROVE c \in ToSet(y) <=> \E q \in s..e - 1 : m[q] = c
  <2>1. DOMAIN y = 1..e - s
    BY <1>5, <1>7
  <2>2. c \in ToSet(y) <=> \E k \in 1..e - s : y[k] = c
    BY <2>1 DEF ToSet
  <2>3. ASSUME NEW k \in 1..e - s, y[k] = c PROVE \E q \in s..e - 1 : m[q] = c
    BY <1>7, <1>8, <2>3
  <2>4. ASSUME NEW q \in s..e - 1, m[q] = c PROVE \E k \in 1..e - s : y[k] = c
    <3>1. y[q - s + 1] = c /\ q - s + 1 \in 1..e - s
      BY <1>7, <1>10, <2>4
    <3>2. QED BY <3>1
  <2>5. QED BY <2>2, <2>3, <2>4
<1>12. x = y
  BY <1>2 DEF y
<1>13. QED BY <1>5, <1>7, <1>9, <1>11, <1>12 DEF e

-----------------------------------------------------------------------------
(* The searches.                                                           *)

LEMMA StrlenIs ==
  ASSUME NEW m \in Mems, NEW s \in 1..Len(m), IsString(m, s)
  PROVE  strlen(m, s) = End(m, s) - s /\ strlen(m, s) \in Nat
<1> DEFINE e == End(m, s)
           S == {q \in Nat : m[q] # 0}
<1>1. e \in s..Len(m) /\ e \in Nat /\ m[e] = 0 /\ \A q \in s..e - 1 : m[q] # 0
  BY EndIs
<1> HIDE DEF e
<1>2. s \in Nat /\ s <= e /\ e <= s + MemSize /\ S \in SUBSET Nat /\ e \notin S
  BY <1>1, MemIs, Memories
<1>3. \A q \in s..e - 1 : q \in S
  <2>1. \A q \in s..e - 1 : q \in Nat
    BY <1>2
  <2>2. QED BY <1>1, <2>1
<1> HIDE DEF S
<1>4. Forward(s, S) = e
  BY <1>1, <1>2, <1>3, ForwardIs
<1>5. strlen(m, s) = e - s
  BY <1>4 DEF strlen, S
<1>6. QED BY <1>1, <1>2, <1>5 DEF e

LEMMA StrnlenIs ==
  ASSUME NEW m \in Mems, NEW s \in 1..Len(m), IsString(m, s), NEW n \in Nat
  PROVE  strnlen(m, s, n) = Min({n, End(m, s) - s})
<1> DEFINE e == End(m, s)
           S == {k \in Nat : k < n /\ m[s + k] # 0}
           b == IF n <= e - s THEN n ELSE e - s
<1>1. e \in s..Len(m) /\ e \in Nat /\ m[e] = 0 /\ \A q \in s..e - 1 : m[q] # 0
  BY EndIs
<1> HIDE DEF e
<1>2. s \in Nat /\ s <= e /\ b \in Nat /\ 0 <= b /\ b <= 0 + MemSize /\ S \in SUBSET Nat /\ e - s \in Int
  BY <1>1, MemIs, Memories
<1>3. b \notin S
  <2>1. s + (e - s) = e
    BY <1>1, <1>2
  <2>2. QED BY <1>1, <1>2, <2>1
<1>4. \A k \in 0..b - 1 : k \in S
  <2>1. \A k \in 0..b - 1 : k \in Nat /\ k < n /\ s + k \in s..e - 1
    BY <1>1, <1>2
  <2>2. QED BY <1>1, <2>1
<1>5. Min({n, e - s}) = b
  BY <1>2, SmallerOfTwo
<1> HIDE DEF S, b
<1>6. Forward(0, S) = b
  BY <1>2, <1>3, <1>4, ForwardIs
<1>7. QED BY <1>5, <1>6 DEF strnlen, S, e

\* The places from s to its terminator that hold c.
PlacesOf(m, s, c) == {q \in s..End(m, s) : m[q] = c}

LEMMA StrchrIs ==
  ASSUME NEW m \in Mems, NEW s \in 1..Len(m), IsString(m, s), NEW c \in Bytes
  PROVE  strchr(m, s, c) = FirstOf(PlacesOf(m, s, c))
<1> DEFINE e == End(m, s)
           S == {q \in Nat : m[q] # Signed(c) /\ m[q] # 0}
           b == Forward(s, S)
           F == PlacesOf(m, s, c)
<1>1. e \in s..Len(m) /\ e \in Nat /\ m[e] = 0 /\ \A q \in s..e - 1 : m[q] # 0
  BY EndIs
<1>2. Signed(c) = c
  BY SignedIs
<1>3. F = {q \in s..e : m[q] = c}
  BY DEF PlacesOf
<1> HIDE DEF e
<1>4. s \in Nat /\ s <= e /\ e <= s + MemSize /\ S \in SUBSET Nat /\ e \notin S
  BY <1>1, MemIs, Memories
<1> HIDE DEF F
<1>5. Stops(b, s, e, S)
  BY <1>1, <1>4, ForwardStops
<1> HIDE DEF b
<1>6. b \in s..e /\ b \in Nat /\ b \notin S /\ \A q \in s..b - 1 : q \in S
  BY <1>1, <1>4, <1>5 DEF Stops
<1>7. F \in SUBSET Nat
  BY <1>3, <1>4
<1>8. CASE m[b] = c
  <2>1. b \in F
    BY <1>3, <1>6, <1>8
  <2>2. \A y \in F : b <= y
    <3>1. \A y \in s..e : y < b => y \in s..b - 1
      BY <1>1, <1>4, <1>6
    <3>2. \A y \in F : ~(y < b)
      BY <1>2, <1>3, <1>6, <3>1
    <3>3. QED BY <1>6, <1>7, <3>2
  <2>3. FirstOf(F) = b
    BY <1>7, <2>1, <2>2, LeastIs
  <2>4. QED BY <1>2, <1>8, <2>3 DEF strchr, b, S, F
<1>9. CASE m[b] # c
  <2>1. m[b] = 0
    BY <1>2, <1>6, <1>9
  <2>2. b = e
    <3>1. b # e => b \in s..e - 1
      BY <1>1, <1>4, <1>6
    <3>2. QED BY <1>1, <2>1, <3>1
  <2>3. F = {}
    <3>1. \A y \in s..e : y \in s..b - 1 \/ y = b
      BY <1>1, <1>4, <2>2
    <3>2. QED BY <1>2, <1>3, <1>6, <1>9, <3>1
  <2>4. FirstOf(F) = 0
    BY <2>3 DEF FirstOf
  <2>5. QED BY <1>2, <1>9, <2>4 DEF strchr, b, S, F
<1>10. QED BY <1>8, <1>9

\* No place of F is before b, and none before a.
Reached(F, a, b) ==
  F \in SUBSET Nat /\ a \in Nat /\ b \in F /\ (\A k \in F : a <= k) /\ \A k \in a..b - 1 : k \notin F

LEMMA FirstFound ==
  ASSUME NEW F, NEW a, NEW b, Reached(F, a, b)
  PROVE  Min(F) = b /\ FirstOf(F) = b
<1> USE DEF Reached
<1>1. \A y \in F : y \in Nat /\ b \in Nat /\ a <= y /\ y \notin a..b - 1
  OBVIOUS
<1>2. \A y \in F : b <= y
  BY <1>1
<1>3. QED BY <1>2, LeastIs

LEMMA StrrchrIs ==
  ASSUME NEW m \in Mems, NEW s \in 1..Len(m), IsString(m, s), NEW c \in Bytes
  PROVE  strrchr(m, s, c) = IF PlacesOf(m, s, c) = {} THEN 0 ELSE Max(PlacesOf(m, s, c))
<1> DEFINE e == End(m, s)
           S == {q \in Nat : q >= s /\ m[q] # Signed(c)}
           b == Backward(e, S)
           F == PlacesOf(m, s, c)
<1>1. e \in s..Len(m) /\ e \in Nat
  BY EndIs
<1>2. Signed(c) = c
  BY SignedIs
<1>3. F = {q \in s..e : m[q] = c}
  BY DEF PlacesOf
<1>4. s + strlen(m, s) = e /\ s \in Nat
  BY StrlenIs, <1>1, MemIs
<1> HIDE DEF e
<1>5. s - 1 \in Nat /\ s - 1 <= e /\ e <= (s - 1) + MemSize /\ S \in SUBSET Nat /\ s - 1 \notin S /\ (s - 1) + 1 = s
  BY <1>1, MemIs, Memories
<1> HIDE DEF F
<1>6. b \in s - 1..e /\ (\A k \in b + 1..e : k \in S) /\ b \notin S
  <2> HIDE DEF S
  <2>1. QED BY <1>1, <1>5, BackwardStops
<1> HIDE DEF b
<1>7. strrchr(m, s, c) = IF b >= s THEN b ELSE 0
  BY <1>4 DEF strrchr, LastFrom, b, S
<1>8. b \in Nat /\ F \in SUBSET Nat
  BY <1>3, <1>4, <1>5, <1>6
<1>9. \A y \in F : ~(b < y)
  <2>1. \A y \in F : y \in s..e /\ y \notin S
    BY <1>2, <1>3
  <2>2. \A y \in s..e : b < y => y \in b + 1..e
    BY <1>1, <1>4, <1>8
  <2>3. QED BY <1>6, <2>1, <2>2
<1>10. CASE b >= s
  <2>1. b \in F
    BY <1>1, <1>2, <1>3, <1>4, <1>6, <1>8, <1>10
  <2>2. \A y \in F : y <= b
    BY <1>8, <1>9
  <2>3. Max(F) = b
    BY <1>8, <2>1, <2>2, GreatestIs
  <2>4. QED BY <1>7, <1>10, <2>1, <2>3 DEF F
<1>11. CASE ~(b >= s)
  <2>1. \A y \in F : y >= s /\ y \in Nat
    BY <1>3, <1>4, <1>8
  <2>2. F = {}
    BY <1>4, <1>8, <1>9, <1>11, <2>1
  <2>3. QED BY <1>7, <1>11, <2>2 DEF F
<1>12. QED BY <1>10, <1>11

LEMMA StrnchrIs ==
  ASSUME NEW m \in Mems, NEW s \in 1..Len(m), IsString(m, s), NEW c \in Bytes, NEW n \in Nat
  PROVE  strnchr(m, s, n, c) = FirstOf(PlacesOf(m, s, c) \cap (s..Min({End(m, s), s + n}) - 1))
<1> DEFINE e == End(m, s)
           S == {k \in Nat : k < n /\ m[s + k] # 0 /\ m[s + k] # Signed(c)}
           h == IF e <= s + n THEN e - s ELSE n
           b == Forward(0, S)
           F == PlacesOf(m, s, c) \cap (s..Min({e, s + n}) - 1)
<1>1. e \in s..Len(m) /\ e \in Nat /\ m[e] = 0 /\ \A q \in s..e - 1 : m[q] # 0
  BY EndIs
<1>2. Signed(c) = c /\ s \in Nat
  BY SignedIs, MemIs
<1>3. PlacesOf(m, s, c) = {q \in s..e : m[q] = c}
  BY DEF PlacesOf
<1> HIDE DEF e
<1>4. Min({e, s + n}) = IF e <= s + n THEN e ELSE s + n
  BY <1>1, <1>2, SmallerOfTwo
<1>5. h \in Nat /\ h <= MemSize /\ s + h <= e /\ h <= n /\ Min({e, s + n}) = s + h /\ h \notin S
  BY <1>1, <1>2, <1>4, MemIs, Memories
<1>6. F = {q \in s..s + h - 1 : m[q] = c}
  BY <1>1, <1>2, <1>3, <1>5
<1>7. S \in SUBSET Nat /\ (h = n \/ s + h = e)
  BY <1>1, <1>2
<1> HIDE DEF h, F
<1>8. Stops(b, 0, h, S)
  <2> HIDE DEF S
  <2>1. 0 <= h /\ h <= 0 + MemSize /\ 0 \in Nat
    BY <1>5, Memories
  <2>2. QED BY <1>5, <1>7, <2>1, ForwardStops
<1> HIDE DEF b
<1>9. b \in 0..h /\ b \in Nat /\ b \notin S /\ \A k \in 0..b - 1 : k \in S
  BY <1>5, <1>8 DEF Stops
<1>10. \A q \in s..s + b - 1 : q \notin F
  <2>1. \A q \in s..s + b - 1 : q - s \in 0..b - 1 /\ s + (q - s) = q
    BY <1>2, <1>9
  <2>2. \A q \in s..s + b - 1 : q - s \in S /\ s + (q - s) = q
    BY <1>9, <2>1
  <2>3. \A q \in s..s + b - 1 : m[q] # c
    BY <1>2, <2>2
  <2>4. QED BY <1>6, <2>3
<1>11. F \in SUBSET Nat /\ \A q \in F : s <= q
  BY <1>2, <1>6
<1>12. strnchr(m, s, n, c) = IF b < n /\ m[s + b] # 0 THEN s + b ELSE 0
  BY DEF strnchr, b, S
<1>13. CASE b < h
  <2>1. b < n /\ s + b \in s..e - 1 /\ s + b \in s..s + h - 1
    BY <1>1, <1>2, <1>5, <1>9, <1>13
  <2>2. m[s + b] # 0 /\ m[s + b] = c
    BY <1>1, <1>2, <1>9, <2>1
  <2>3. s + b \in F
    BY <1>6, <2>1, <2>2
  <2>4. FirstOf(F) = s + b
    <3>1. Reached(F, s, s + b)
      BY <1>2, <1>9, <1>10, <1>11, <2>3 DEF Reached
    <3>2. QED BY <3>1, FirstFound
  <2>5. QED BY <1>12, <2>1, <2>2, <2>4 DEF F, e
<1>14. CASE b = h
  <2>1. F = {}
    BY <1>6, <1>10, <1>14
  <2>2. ~(b < n /\ m[s + b] # 0)
    BY <1>1, <1>5, <1>7, <1>9, <1>14
  <2>3. QED BY <1>12, <2>1, <2>2 DEF F, e, FirstOf
<1>15. QED BY <1>5, <1>9, <1>13, <1>14

LEMMA AmongIs ==
  ASSUME NEW m \in Mems, NEW t \in 1..Len(m), IsString(m, t), NEW c \in Bytes
  PROVE  Among(m, c, t) <=> c # 0 /\ c \in ToSet(Text(m, t))
<1> DEFINE e == End(m, t)
           S == {q \in Nat : m[q] # 0 /\ m[q] # c}
           b == Forward(t, S)
<1>1. e \in t..Len(m) /\ e \in Nat /\ m[e] = 0 /\ \A q \in t..e - 1 : m[q] # 0
  BY EndIs
<1>2. c \in ToSet(Text(m, t)) <=> \E q \in t..e - 1 : m[q] = c
  BY TextOf
<1> HIDE DEF e
<1>3. t \in Nat /\ t <= e /\ e <= t + MemSize /\ S \in SUBSET Nat /\ e \notin S
  BY <1>1, MemIs, Memories
<1>4. Stops(b, t, e, S)
  <2> HIDE DEF S
  <2>1. QED BY <1>1, <1>3, ForwardStops
<1> HIDE DEF b
<1>5. b \in t..e /\ b \in Nat /\ b \notin S /\ \A k \in t..b - 1 : k \in S
  BY <1>1, <1>3, <1>4 DEF Stops
<1>6. Among(m, c, t) <=> m[b] # 0
  BY DEF Among, b, S
<1>7. CASE b = e
  <2>1. \A q \in t..e - 1 : m[q] # c
    BY <1>5, <1>7
  <2>2. QED BY <1>1, <1>2, <1>6, <1>7, <2>1
<1>8. CASE b # e
  <2>1. b \in t..e - 1
    BY <1>1, <1>3, <1>5, <1>8
  <2>2. m[b] # 0 /\ m[b] = c
    BY <1>1, <1>5, <2>1
  <2>3. QED BY <1>2, <1>6, <2>1, <2>2
<1>9. QED BY <1>7, <1>8


\* The places from s + a on, before s + e, that a scan of the offsets looks for; it stops at k.
Scans(F, S, s, a, e, k) ==
  /\ s \in Nat /\ a \in Nat /\ e \in Nat /\ Stops(k, a, e, S)
  /\ F \in SUBSET Nat /\ \A q \in Nat : q \in F <=> q \in s + a..s + e - 1 /\ q - s \notin S

\* Such a scan finds the first of them, if there is one.
Found(F, s, e, k) ==
  /\ Min(F \cup {s + e}) = s + k /\ k \in Nat
  /\ FirstOf(F) = IF k = e THEN 0 ELSE s + k
  /\ s + k \in F <=> k # e

LEMMA ScanFinds ==
  ASSUME NEW F, NEW S, NEW s, NEW a, NEW e, NEW k, Scans(F, S, s, a, e, k)
  PROVE  Found(F, s, e, k)
<1> USE DEF Scans, Found
<1>1. k \in a..e /\ k \notin S /\ \A j \in a..k - 1 : j \in S
  BY DEF Stops
<1>2. k \in Nat /\ s + k \in Nat /\ s + e \in Nat /\ s + a \in Nat /\ (s + k) - s = k
  BY <1>1
<1>3. \A q \in s + a..(s + k) - 1 : q - s \in S /\ q \in Nat
  <2>1. \A q \in s + a..(s + k) - 1 : q - s \in a..k - 1 /\ q \in Nat
    BY <1>2
  <2>2. QED BY <1>1, <2>1
<1>4. \A q \in s + a..(s + k) - 1 : q \notin F
  BY <1>3
<1>5. s + k \in F <=> k # e
  BY <1>1, <1>2
<1>6. \A q \in F : s + a <= q
  BY <1>2
<1> DEFINE G == F \cup {s + e}
<1>7. Reached(G, s + a, s + k)
  <2>1. \A q \in s + a..(s + k) - 1 : q # s + e
    BY <1>1, <1>2
  <2>2. s + k \in G
    BY <1>5
  <2>3. \A q \in G : s + a <= q
    BY <1>1, <1>2, <1>6
  <2>4. \A q \in s + a..(s + k) - 1 : q \notin G
    BY <1>4, <2>1
  <2>5. G \in SUBSET Nat /\ s + a \in Nat
    BY <1>2
  <2> HIDE DEF G
  <2>6. QED BY <2>2, <2>3, <2>4, <2>5 DEF Reached
<1>8. Min(G) = s + k
  BY <1>7, FirstFound
<1>9. CASE k = e
  <2>1. \A q \in F : q \in s + a..(s + k) - 1
    BY <1>9
  <2>2. F = {}
    BY <1>4, <2>1
  <2>3. QED BY <1>2, <1>5, <1>8, <1>9, <2>2 DEF FirstOf
<1>10. CASE k # e
  <2>1. Reached(F, s + a, s + k)
    BY <1>2, <1>4, <1>5, <1>6, <1>10 DEF Reached
  <2>2. FirstOf(F) = s + k
    BY <2>1, FirstFound
  <2>3. QED BY <1>2, <1>5, <1>8, <1>10, <2>2
<1>11. QED BY <1>9, <1>10

\* The places of the string at s that hold a char of the string at t.
Hits(m, s, t) == {q \in s..End(m, s) - 1 : m[q] \in ToSet(Text(m, t))}

LEMMA SpansAre ==
  ASSUME NEW m \in Mems, NEW s \in 1..Len(m), IsString(m, s), NEW t \in 1..Len(m), IsString(m, t)
  PROVE  /\ strpbrk(m, s, t) = FirstOf(Hits(m, s, t))
         /\ strcspn(m, s, t) = Min(Hits(m, s, t) \cup {End(m, s)}) - s
         /\ strspn(m, s, t) = Min((s..End(m, s)) \ Hits(m, s, t)) - s
<1> DEFINE e == End(m, s)
           A == ToSet(Text(m, t))
           S == {q \in Nat : m[q] # 0 /\ ~Among(m, m[q], t)}
           T == {q \in Nat : m[q] # 0 /\ Among(m, m[q], t)}
           F == Hits(m, s, t)
           G == {q \in s..e - 1 : m[q] \notin A}
           b == Forward(s, S)
           k == Forward(s, T)
<1>1. e \in s..Len(m) /\ e \in Nat /\ m[e] = 0 /\ \A q \in s..e - 1 : m[q] # 0
  BY EndIs
<1>2. F = {q \in s..e - 1 : m[q] \in A}
  BY DEF Hits
<1> HIDE DEF e, F, A
<1>3. s \in Nat /\ s <= e /\ e <= s + MemSize /\ S \in SUBSET Nat /\ T \in SUBSET Nat /\ e \notin S /\ e \notin T
  BY <1>1, MemIs, Memories
<1>4. \A q \in s..e - 1 : q \in Nat /\ (q \notin S <=> m[q] \in A) /\ (q \notin T <=> m[q] \notin A)
  <2>1. \A q \in s..e - 1 : q \in Nat /\ q \in 1..Len(m)
    BY <1>1, <1>3, MemIs
  <2>2. \A q \in s..e - 1 : m[q] \in Bytes /\ m[q] # 0
    BY <1>1, <2>1, MemIs
  <2>3. \A q \in s..e - 1 : Among(m, m[q], t) <=> m[q] \in A
    BY <2>2, AmongIs DEF A
  <2>4. QED BY <2>1, <2>2, <2>3
<1>5. Stops(b, s, e, S) /\ Stops(k, s, e, T)
  <2> HIDE DEF S, T
  <2>1. QED BY <1>1, <1>3, ForwardStops
<1>6. Scans(F, S, 0, s, e, b)
  <2> HIDE DEF S, b
  <2>1. F \in SUBSET Nat /\ \A q \in Nat : q \in F <=> q \in s..e - 1 /\ q \notin S
    BY <1>1, <1>2, <1>3, <1>4
  <2>2. 0 + s = s /\ 0 + e = e /\ \A q \in Nat : q - 0 = q
    BY <1>1, <1>3
  <2>3. QED BY <1>1, <1>3, <1>5, <2>1, <2>2 DEF Scans
<1>7. Scans(G, T, 0, s, e, k)
  <2> HIDE DEF T, k
  <2>1. G \in SUBSET Nat /\ \A q \in Nat : q \in G <=> q \in s..e - 1 /\ q \notin T
    BY <1>1, <1>3, <1>4
  <2>2. 0 + s = s /\ 0 + e = e /\ \A q \in Nat : q - 0 = q
    BY <1>1, <1>3
  <2> HIDE DEF G
  <2>3. QED BY <1>1, <1>3, <1>5, <2>1, <2>2 DEF Scans
<1>8. Min(F \cup {e}) = b /\ FirstOf(F) = (IF b = e THEN 0 ELSE b) /\ Min(G \cup {e}) = k
  <2> HIDE DEF S, T, b, k, G
  <2>1. /\ Min(F \cup {0 + e}) = 0 + b /\ b \in Nat
        /\ FirstOf(F) = IF b = e THEN 0 ELSE 0 + b
    BY <1>6, ScanFinds DEF Found
  <2>2. Min(G \cup {0 + e}) = 0 + k /\ k \in Nat
    BY <1>7, ScanFinds DEF Found
  <2>3. 0 + e = e /\ 0 + b = b /\ 0 + k = k
    BY <1>1, <2>1, <2>2
  <2>4. QED BY <2>1, <2>2, <2>3
<1>9. (s..e) \ F = G \cup {e}
  BY <1>1, <1>2, <1>3
<1>10. m[b] = 0 <=> b = e
  <2>1. b \in s..e
    BY <1>5 DEF Stops
  <2> HIDE DEF b
  <2>2. b # e => b \in s..e - 1
    BY <1>1, <1>3, <2>1
  <2>3. QED BY <1>1, <2>2
<1>11. strpbrk(m, s, t) = IF m[b] = 0 THEN 0 ELSE b
  BY DEF strpbrk
<1>12. strcspn(m, s, t) = b - s /\ strspn(m, s, t) = k - s
  BY DEF strcspn, strspn
<1> HIDE DEF b, k, G
<1>13. QED BY <1>8, <1>9, <1>10, <1>11, <1>12 DEF e, F


LEMMA UnsignedApart ==
  ASSUME NEW c \in Bytes, NEW d \in Bytes
  PROVE  Unsigned(c) \in Int /\ (Unsigned(c) = Unsigned(d) <=> c = d)
<1>1. /\ c \in Int /\ c >= -128 /\ c <= 127 /\ Unsigned(c) = IF c < 0 THEN c + 256 ELSE c
      /\ d \in Int /\ d >= -128 /\ d <= 127 /\ Unsigned(d) = IF d < 0 THEN d + 256 ELSE d
  BY SignedIs
<1>2. QED BY <1>1

\* What memchr and memscan promise.
FindsByte(m, s, n, c) ==
  LET hits == {q \in s..s + n - 1 : m[q] = c}
  IN memchr(m, s, c, n) = FirstOf(hits) /\ memscan(m, s, Unsigned(c), n) = Min(hits \cup {s + n})

LEMMA MemchrIs ==
  ASSUME NEW m \in Mems, NEW s \in 1..Len(m), NEW n \in Nat, s + n - 1 <= Len(m), NEW c \in Bytes
  PROVE  FindsByte(m, s, n, c)
<1> DEFINE S == {j \in Nat : j < n /\ Unsigned(m[s + j]) # Unsigned(c)}
           F == {q \in s..s + n - 1 : m[q] = c}
           k == Forward(0, S)
<1>1. s \in Nat /\ n <= MemSize /\ S \in SUBSET Nat /\ n \notin S /\ 0 <= n /\ 0 \in Nat /\ n <= 0 + MemSize
  BY MemIs, Memories
<1>2. \A q \in s..s + n - 1 : q \in 1..Len(m)
  BY MemIs
<1>3. \A q \in s..s + n - 1 : Unsigned(m[q]) = Unsigned(c) <=> m[q] = c
  BY <1>2, MemIs, UnsignedApart
<1>4. F \in SUBSET Nat /\ \A q \in Nat : q \in F <=> q \in s + 0..s + n - 1 /\ q - s \notin S
  <2>1. s + 0 = s /\ \A q \in s..s + n - 1 : q \in Nat /\ q - s \in Nat /\ q - s < n /\ s + (q - s) = q
    BY <1>1
  <2>2. \A q \in s..s + n - 1 : q - s \notin S <=> m[q] = c
    BY <1>3, <2>1
  <2>3. QED BY <2>1, <2>2
<1>5. Stops(k, 0, n, S)
  <2> HIDE DEF S
  <2>1. QED BY <1>1, ForwardStops
<1>6. memchr(m, s, c, n) = (IF k < n THEN s + k ELSE 0) /\ memscan(m, s, Unsigned(c), n) = s + k
  <2>1. memscan(m, s, Unsigned(c), n) = s + k
    BY DEF memscan
  <2>2. QED BY <2>1 DEF memchr
<1> HIDE DEF k, F, S
<1>7. Scans(F, S, s, 0, n, k)
  BY <1>1, <1>4, <1>5 DEF Scans
<1>8. Min(F \cup {s + n}) = s + k /\ k \in Nat /\ FirstOf(F) = IF k = n THEN 0 ELSE s + k
  <2>1. Found(F, s, n, k)
    BY <1>7, ScanFinds
  <2>2. QED BY <2>1 DEF Found
<1>9. k \in 0..n
  BY <1>5 DEF Stops
<1>10. memchr(m, s, c, n) = FirstOf(F) /\ memscan(m, s, Unsigned(c), n) = Min(F \cup {s + n})
  BY <1>6, <1>8, <1>9
<1>11. QED BY <1>10 DEF F, FindsByte

\* The first byte that differs decides.
Decides(res, m, s, t, n, k) ==
  /\ k \in 0..n /\ \A j \in 0..k - 1 : m[s + j] = m[t + j]
  /\ k < n => res = Unsigned(m[s + k]) - Unsigned(m[t + k]) /\ m[s + k] # m[t + k]
  /\ k = n => res = 0

LEMMA MemcmpIs ==
  ASSUME NEW m \in Mems, NEW s \in Nat \ {0}, NEW t \in Nat \ {0}, NEW n \in Nat,
         s + n - 1 <= Len(m), t + n - 1 <= Len(m)
  PROVE  \E k \in 0..n : Decides(memcmp(m, s, t, n), m, s, t, n, k)
<1> DEFINE res(k) == Unsigned(m[s + k]) - Unsigned(m[t + k])
           S == {k \in Nat : k < n /\ res(k) = 0}
           k == Forward(0, S)
<1>1. n <= MemSize /\ S \in SUBSET Nat /\ n \notin S /\ 0 <= n /\ 0 \in Nat /\ n <= 0 + MemSize
  BY MemIs, Memories
<1>2. \A j \in 0..n - 1 : m[s + j] \in Bytes /\ m[t + j] \in Bytes
  <2>1. \A j \in 0..n - 1 : s + j \in 1..Len(m) /\ t + j \in 1..Len(m)
    BY MemIs
  <2>2. QED BY <2>1, MemIs
<1>3. \A j \in 0..n - 1 : res(j) = 0 <=> m[s + j] = m[t + j]
  <2> TAKE j \in 0..n - 1
  <2>1. /\ Unsigned(m[s + j]) \in Int /\ Unsigned(m[t + j]) \in Int
        /\ Unsigned(m[s + j]) = Unsigned(m[t + j]) <=> m[s + j] = m[t + j]
    BY <1>2, UnsignedApart
  <2>2. QED BY <2>1
<1>4. Stops(k, 0, n, S)
  <2> HIDE DEF S
  <2>1. QED BY <1>1, ForwardStops
<1>5. memcmp(m, s, t, n) = IF k < n THEN res(k) ELSE 0
  BY DEF memcmp
<1> HIDE DEF k
<1>6. k \in 0..n /\ k \notin S /\ \A j \in 0..k - 1 : j \in S
  BY <1>4 DEF Stops
<1>7. \A j \in 0..k - 1 : j \in 0..n - 1 /\ res(j) = 0
  BY <1>6
<1>8. k < n => k \in 0..n - 1 /\ res(k) # 0
  BY <1>6
<1>9. memcmp(m, s, t, n) = (IF k < n THEN Unsigned(m[s + k]) - Unsigned(m[t + k]) ELSE 0)
  BY <1>5
<1> HIDE DEF res, S
<1>10. k < n => m[s + k] # m[t + k]
  BY <1>3, <1>8
<1>11. \A j \in 0..k - 1 : m[s + j] = m[t + j]
  BY <1>3, <1>7
<1>12. Decides(memcmp(m, s, t, n), m, s, t, n, k)
  BY <1>6, <1>9, <1>10, <1>11 DEF Decides
<1>13. QED BY <1>6, <1>12

LEMMA MemcmpEqual ==
  ASSUME NEW m \in Mems, NEW s \in Nat \ {0}, NEW t \in Nat \ {0}, NEW n \in Nat,
         s + n - 1 <= Len(m), t + n - 1 <= Len(m)
  PROVE  memcmp(m, s, t, n) = 0 <=> \A j \in 0..n - 1 : m[s + j] = m[t + j]
<1>1. PICK k \in 0..n : Decides(memcmp(m, s, t, n), m, s, t, n, k)
  BY MemcmpIs
<1>2. CASE k < n
  <2>1. s + k \in 1..Len(m) /\ t + k \in 1..Len(m) /\ k \in 0..n - 1
    BY <1>2, MemIs
  <2>2. m[s + k] \in Bytes /\ m[t + k] \in Bytes
    BY <2>1, MemIs
  <2>3. /\ Unsigned(m[s + k]) \in Int /\ Unsigned(m[t + k]) \in Int
        /\ Unsigned(m[s + k]) = Unsigned(m[t + k]) <=> m[s + k] = m[t + k]
    BY <2>2, UnsignedApart
  <2>4. memcmp(m, s, t, n) = Unsigned(m[s + k]) - Unsigned(m[t + k]) /\ m[s + k] # m[t + k]
    BY <1>1, <1>2 DEF Decides
  <2>5. QED BY <2>1, <2>3, <2>4
<1>3. CASE k = n
  BY <1>1, <1>3 DEF Decides
<1>4. QED BY <1>2, <1>3

LEMMA MatchIs ==
  ASSUME NEW m \in Mems, NEW t \in 1..Len(m), IsString(m, t), NEW q \in Nat \ {0},
         q + (End(m, t) - t) - 1 <= Len(m)
  PROVE  memcmp(m, q, t, End(m, t) - t) = 0 <=> SubSeq(m, q, q + (End(m, t) - t) - 1) = Text(m, t)
<1> DEFINE n == End(m, t) - t
           x == Text(m, t)
           y == SubSeq(m, q, q + n - 1)
<1>1. n \in Nat /\ t \in Nat \ {0} /\ t + n - 1 <= Len(m)
  <2>1. End(m, t) \in t..Len(m)
    BY EndIs
  <2>2. QED BY <2>1, MemIs
<1>2. x \in Seq(Bytes) /\ Len(x) = n /\ \A k \in 1..n : x[k] = m[t + k - 1]
  BY TextOf
<1>a. q + n - 1 <= Len(m)
  OBVIOUS
<1> HIDE DEF n
<1>3. /\ q \in Int /\ q + n - 1 \in Int /\ \A k \in q..q + n - 1 : k \in 1..Len(m)
  BY <1>1, <1>a, MemIs
<1>4. \A k \in q..q + n - 1 : m[k] \in Bytes
  BY <1>3, MemIs
<1>5. /\ y \in Seq(Bytes) /\ Len(y) = (IF q <= q + n - 1 THEN (q + n - 1) - q + 1 ELSE 0)
      /\ \A k \in 1..(q + n - 1) - q + 1 : y[k] = m[q + k - 1]
  BY <1>3, <1>4, SubSeqProperties
<1>6. Len(y) = n /\ (q + n - 1) - q + 1 = n
  BY <1>1, <1>3, <1>5
<1>7. \A k \in 1..n : y[k] = m[q + k - 1]
  BY <1>5, <1>6
<1>8. memcmp(m, q, t, n) = 0 <=> \A j \in 0..n - 1 : m[q + j] = m[t + j]
  BY <1>1, <1>a, MemcmpEqual
<1> HIDE DEF x, y
<1>9. (\A j \in 0..n - 1 : m[q + j] = m[t + j]) <=> \A k \in 1..n : x[k] = y[k]
  <2>1. ASSUME \A j \in 0..n - 1 : m[q + j] = m[t + j], NEW k \in 1..n PROVE x[k] = y[k]
    <3>1. k - 1 \in 0..n - 1 /\ q + (k - 1) = q + k - 1 /\ t + (k - 1) = t + k - 1
      BY <1>1
    <3>2. m[q + (k - 1)] = m[t + (k - 1)]
      BY <2>1, <3>1
    <3>3. QED BY <1>2, <1>7, <3>1, <3>2
  <2>2. ASSUME \A k \in 1..n : x[k] = y[k], NEW j \in 0..n - 1 PROVE m[q + j] = m[t + j]
    <3>1. j + 1 \in 1..n /\ q + (j + 1) - 1 = q + j /\ t + (j + 1) - 1 = t + j
      BY <1>1
    <3>2. x[j + 1] = m[t + j] /\ y[j + 1] = m[q + j]
      BY <1>2, <1>7, <3>1
    <3>3. QED BY <2>2, <3>1, <3>2
  <2>3. QED BY <2>1, <2>2
<1>10. (\A k \in 1..n : x[k] = y[k]) <=> y = x
  BY <1>2, <1>5, <1>6
<1>11. QED BY <1>8, <1>9, <1>10 DEF n, x, y

LEMMA StrstrIs ==
  ASSUME NEW m \in Mems, NEW s \in 1..Len(m), IsString(m, s), NEW t \in 1..Len(m), IsString(m, t)
  PROVE  LET n == End(m, t) - t
         IN strstr(m, s, t) = FirstOf({q \in s..End(m, s) - n : SubSeq(m, q, q + n - 1) = Text(m, t)})
<1> DEFINE e == End(m, s)
           n == End(m, t) - t
           S == {k \in Nat : (e - s) - k >= n /\ memcmp(m, s + k, t, n) # 0}
           F == {q \in s..e - n : SubSeq(m, q, q + n - 1) = Text(m, t)}
           h == IF e - s >= n THEN (e - s) - n + 1 ELSE 0
           k == Forward(0, S)
<1>1. e \in s..Len(m) /\ e \in Nat
  BY EndIs
<1>2. n \in Nat /\ t + n - 1 <= Len(m)
  BY EndIs, MemIs
<1>3. strlen(m, s) = e - s /\ strlen(m, t) = n
  BY StrlenIs
<1>4. \A q \in Nat \ {0} : q + n - 1 <= Len(m) =>
        (memcmp(m, q, t, n) = 0 <=> SubSeq(m, q, q + n - 1) = Text(m, t))
  BY MatchIs
<1> HIDE DEF e, n
<1>5. s \in Nat \ {0} /\ t \in Nat \ {0} /\ e \in s..Len(m) /\ h \in Nat
  BY <1>1, <1>2, MemIs
<1>6. (h <= 0 + MemSize /\ 0 <= h) \/ n = 0
  BY <1>1, <1>2, <1>5, MemIs, Memories
<1>7. h \notin S /\ S \in SUBSET Nat
  BY <1>1, <1>2, <1>5
<1>8. strstr(m, s, t) = IF n = 0 THEN s ELSE IF (e - s) - k >= n THEN s + k ELSE 0
  BY <1>3 DEF strstr
<1>9. F \in SUBSET Nat /\ \A q \in Nat : q \in F <=> q \in s + 0..s + h - 1 /\ q - s \notin S
  <2>1. \A q \in Nat : q \in s..e - n <=> q \in s + 0..s + h - 1
    BY <1>1, <1>2, <1>5
  <2>2. \A q \in s..e - n : /\ q \in Nat \ {0} /\ q + n - 1 <= Len(m) /\ q - s \in Nat
                             /\ (e - s) - (q - s) >= n /\ s + (q - s) = q
    BY <1>1, <1>2, <1>5, MemIs
  <2>3. \A q \in s..e - n : q - s \notin S <=> memcmp(m, q, t, n) = 0
    BY <2>2
  <2>4. \A q \in s..e - n : q - s \notin S <=> SubSeq(m, q, q + n - 1) = Text(m, t)
    BY <1>4, <2>2, <2>3
  <2> HIDE DEF S, h
  <2>5. QED BY <2>1, <2>2, <2>4
<1>10. CASE n = 0
  <2>1. 0 \notin S
    <3>1. memcmp(m, s, t, n) = 0
      BY <1>1, <1>2, <1>5, <1>10, MemIs, MemcmpEqual
    <3>2. s + 0 = s
      BY <1>5
    <3>3. QED BY <3>1, <3>2
  <2>2. s \in F
    <3>1. s \in s + 0..s + h - 1 /\ s - s = 0
      BY <1>1, <1>5, <1>10
    <3>2. QED BY <1>5, <1>9, <2>1, <3>1
  <2>3. \A q \in F : s <= q
    BY <1>5
  <2> HIDE DEF F
  <2>4. FirstOf(F) = s
    BY <1>9, <2>2, <2>3, LeastIs
  <2>5. QED BY <1>8, <1>10, <2>4 DEF F, e, n
<1>11. CASE n # 0
  <2>1. Stops(k, 0, h, S)
    <3> HIDE DEF S, h
    <3>1. QED BY <1>5, <1>6, <1>7, <1>11, ForwardStops
  <2>2. k \in 0..h
    BY <2>1 DEF Stops
  <2>3. k = h <=> ~((e - s) - k >= n)
    <3> HIDE DEF k
    <3>1. QED BY <1>1, <1>2, <1>5, <2>2
  <2> HIDE DEF S, h, k, F
  <2>4. Scans(F, S, s, 0, h, k)
    BY <1>5, <1>9, <2>1 DEF Scans
  <2>5. FirstOf(F) = IF k = h THEN 0 ELSE s + k
    <3>1. Found(F, s, h, k)
      BY <2>4, ScanFinds
    <3>2. QED BY <3>1 DEF Found
  <2>6. QED BY <1>8, <1>11, <2>3, <2>5 DEF F, e, n
<1>12. QED BY <1>10, <1>11


LEMMA PlacesAre ==
  ASSUME memory \in Mems
  PROVE  Places = 1..Len(memory) /\ Counts \subseteq Nat /\ \A s \in Places : s \in 1..Len(memory)
BY MemIs DEF Places, Counts

\* Every search finds what its reference definition says.
LEMMA EverySearchFinds ==
  ASSUME memory \in Mems
  PROVE  SearchesFind
<1>1. Places = 1..Len(memory) /\ Counts \subseteq Nat
  BY PlacesAre
<1>2. ASSUME NEW s \in Places, IsString(memory, s)
      PROVE  LET e == End(memory, s)
                 Of(c) == {q \in s..e : memory[q] = c}
             IN /\ strlen(memory, s) = e - s
                /\ \A n \in Counts : strnlen(memory, s, n) = Min({n, e - s})
                /\ \A c \in Bytes :
                     /\ strchr(memory, s, c) = FirstOf(Of(c))
                     /\ strrchr(memory, s, c) = IF Of(c) = {} THEN 0 ELSE Max(Of(c))
                     /\ \A n \in Counts : strnchr(memory, s, n, c) = FirstOf(Of(c) \cap (s..Min({e, s + n}) - 1))
                /\ \A t \in Places : IsString(memory, t) =>
                     LET hits == {q \in s..e - 1 : memory[q] \in ToSet(Text(memory, t))}
                         n    == End(memory, t) - t
                     IN /\ strpbrk(memory, s, t) = FirstOf(hits)
                        /\ strcspn(memory, s, t) = Min(hits \cup {e}) - s
                        /\ strspn(memory, s, t) = Min((s..e) \ hits) - s
                        /\ strstr(memory, s, t) =
                             FirstOf({q \in s..e - n : SubSeq(memory, q, q + n - 1) = Text(memory, t)})
  <2>1. s \in 1..Len(memory)
    BY <1>1
  <2>2. strlen(memory, s) = End(memory, s) - s
    BY <1>2, <2>1, StrlenIs
  <2>3. \A n \in Counts : strnlen(memory, s, n) = Min({n, End(memory, s) - s})
    BY <1>1, <1>2, <2>1, StrnlenIs
  <2>4. \A c \in Bytes :
          /\ strchr(memory, s, c) = FirstOf(PlacesOf(memory, s, c))
          /\ strrchr(memory, s, c) = IF PlacesOf(memory, s, c) = {} THEN 0 ELSE Max(PlacesOf(memory, s, c))
    BY <1>2, <2>1, StrchrIs, StrrchrIs
  <2>5. \A c \in Bytes, n \in Counts :
          strnchr(memory, s, n, c) = FirstOf(PlacesOf(memory, s, c) \cap (s..Min({End(memory, s), s + n}) - 1))
    BY <1>1, <1>2, <2>1, StrnchrIs
  <2>6. \A t \in Places : IsString(memory, t) =>
          /\ strpbrk(memory, s, t) = FirstOf(Hits(memory, s, t))
          /\ strcspn(memory, s, t) = Min(Hits(memory, s, t) \cup {End(memory, s)}) - s
          /\ strspn(memory, s, t) = Min((s..End(memory, s)) \ Hits(memory, s, t)) - s
    BY <1>1, <1>2, <2>1, SpansAre
  <2>7. \A t \in Places : IsString(memory, t) =>
          LET n == End(memory, t) - t
          IN strstr(memory, s, t) =
               FirstOf({q \in s..End(memory, s) - n : SubSeq(memory, q, q + n - 1) = Text(memory, t)})
    BY <1>1, <1>2, <2>1, StrstrIs
  <2>8. QED BY <2>2, <2>3, <2>4, <2>5, <2>6, <2>7, Zenon DEF PlacesOf, Hits
<1>3. ASSUME NEW s \in Places, NEW n \in Counts, NEW c \in Bytes, s + n - 1 <= Len(memory)
      PROVE  LET hits == {q \in s..s + n - 1 : memory[q] = c}
             IN memchr(memory, s, c, n) = FirstOf(hits)
                /\ memscan(memory, s, Unsigned(c), n) = Min(hits \cup {s + n})
  <2>1. s \in 1..Len(memory) /\ n \in Nat
    BY <1>1
  <2>2. FindsByte(memory, s, n, c)
    BY <1>3, <2>1, MemchrIs
  <2>3. QED BY <2>2 DEF FindsByte
<1>4. QED BY <1>2, <1>3, Zenon DEF SearchesFind

-----------------------------------------------------------------------------
(* The comparisons.                                                        *)

\* A string with its terminator.
EndsInZero(x) ==
  /\ x \in Seq(Int) /\ Len(x) \in Nat \ {0} /\ x[Len(x)] = 0
  /\ \A k \in 1..Len(x) - 1 : x[k] # 0

LEMMA SignIs ==
  ASSUME NEW b \in Int
  PROVE  (Sign(b) = 0 <=> b = 0) /\ Sign(0) = 0
BY DEF Sign

\* The first n of a sequence.
LEMMA UptoIs ==
  ASSUME NEW x \in Seq(Int), NEW n \in Nat
  PROVE  LET b == IF n <= Len(x) THEN n ELSE Len(x)
         IN /\ Upto(x, n) \in Seq(Int) /\ Len(Upto(x, n)) = b
            /\ \A k \in 1..b : Upto(x, n)[k] = x[k]
<1> DEFINE b == IF n <= Len(x) THEN n ELSE Len(x)
           y == SubSeq(x, 1, b)
<1>1. Len(x) \in Nat /\ b \in Nat /\ b <= Len(x) /\ \A k \in 1..Len(x) : x[k] \in Int
  BY ElementOfSeq
<1>2. Upto(x, n) = y
  <2>1. Min({n, Len(x)}) = b
    BY <1>1, SmallerOfTwo
  <2>2. QED BY <2>1 DEF Upto
<1> HIDE DEF b
<1>3. 1 \in Int /\ b \in Int /\ \A k \in 1..b : x[k] \in Int
  BY <1>1
<1>4. /\ y \in Seq(Int) /\ Len(y) = (IF 1 <= b THEN b - 1 + 1 ELSE 0)
      /\ \A k \in 1..b - 1 + 1 : y[k] = x[1 + k - 1]
  BY <1>3, SubSeqProperties
<1>5. b - 1 + 1 = b /\ \A k \in 1..b : 1 + k - 1 = k
  BY <1>1
<1> HIDE DEF y
<1>6. Len(y) = b /\ \A k \in 1..b : y[k] = x[k]
  BY <1>1, <1>4, <1>5
<1>7. QED BY <1>2, <1>4, <1>6 DEF b

\* The order of two sequences that agree up to k and not beyond.
Part(v, w, k) ==
  /\ v \in Seq(Int) /\ w \in Seq(Int) /\ k \in Nat
  /\ \A j \in 1..k : v[j] = w[j]
  /\ \/ k = Len(v) /\ k = Len(w)
     \/ k < Len(v) /\ k < Len(w) /\ v[k + 1] # w[k + 1]

InOrder(v, w, k) ==
  /\ v = w <=> k = Len(v)
  /\ OrderOf(v, w) = IF k = Len(v) THEN 0 ELSE Sign(v[k + 1] - w[k + 1])

LEMMA OrderIs ==
  ASSUME NEW v, NEW w, NEW k, Part(v, w, k)
  PROVE  InOrder(v, w, k)
<1> USE DEF Part
<1> DEFINE b == Min({Len(v), Len(w)})
           apart == {j \in 1..b : v[j] # w[j]}
<1>1. Len(v) \in Nat /\ Len(w) \in Nat /\ b = IF Len(v) <= Len(w) THEN Len(v) ELSE Len(w)
  <2>1. Len(v) \in Nat /\ Len(w) \in Nat
    OBVIOUS
  <2>2. ASSUME NEW j \in Nat, NEW n \in Nat PROVE Min({j, n}) = IF j <= n THEN j ELSE n
    <3>1. j \in Int /\ n \in Int
      OBVIOUS
    <3> HIDE DEF Part, b
    <3>2. QED BY <3>1, SmallerOfTwo
  <2> HIDE DEF Part, b
  <2>4. Min({Len(v), Len(w)}) = IF Len(v) <= Len(w) THEN Len(v) ELSE Len(w)
    BY <2>1, <2>2
  <2>5. b = Min({Len(v), Len(w)})
    BY DEF b
  <2>3. QED BY <2>1, <2>4, <2>5
<1>2. OrderOf(v, w) = IF apart = {} THEN 0 ELSE Sign(v[Min(apart)] - w[Min(apart)])
  BY DEF OrderOf
<1> HIDE DEF b
<1>3. CASE k = Len(v) /\ k = Len(w)
  <2>1. v = w
    BY <1>3, SeqEqual
  <2>2. apart = {}
    BY <2>1
  <2>3. QED BY <1>2, <1>3, <2>1, <2>2 DEF InOrder
<1>4. CASE ~(k = Len(v) /\ k = Len(w))
  <2>1. k < Len(v) /\ k < Len(w) /\ v[k + 1] # w[k + 1]
    BY <1>4
  <2>2. k + 1 \in apart
    BY <1>1, <2>1
  <2>3. \A y \in apart : y \in 1..b /\ y \notin 1..k /\ y \in Nat
    BY <1>1
  <2>4. apart \in SUBSET Nat /\ \A y \in apart : k + 1 <= y
    BY <1>1, <2>3
  <2> HIDE DEF apart
  <2>5. Min(apart) = k + 1 /\ apart # {}
    BY <2>2, <2>4, LeastIs
  <2>6. QED BY <1>1, <1>2, <2>1, <2>5 DEF InOrder
<1>5. QED BY <1>3, <1>4


\* A comparison of at most n chars that stops at k.
Compared(x, y, n, k) ==
  /\ EndsInZero(x) /\ EndsInZero(y) /\ n \in Nat /\ k \in 0..n
  /\ k < Len(x) /\ k < Len(y) /\ \A j \in 1..k : x[j] = y[j]
  /\ k = n \/ x[k + 1] # y[k + 1] \/ x[k + 1] = 0

\* What it has found out.
Outcome(x, y, n, k) ==
  /\ Upto(x, n) = Upto(y, n) <=> k = n \/ x[k + 1] = y[k + 1]
  /\ OrderOf(Upto(x, n), Upto(y, n)) = IF k = n THEN 0 ELSE Sign(x[k + 1] - y[k + 1])
  /\ x[k + 1] \in Int /\ y[k + 1] \in Int
  /\ k < n => k + 1 \in DOMAIN Upto(x, n) /\ Upto(x, n)[k + 1] = x[k + 1]
              /\ k + 1 \in DOMAIN Upto(y, n) /\ Upto(y, n)[k + 1] = y[k + 1]

LEMMA ComparedIs ==
  ASSUME NEW x, NEW y, NEW n, NEW k, Compared(x, y, n, k)
  PROVE  Outcome(x, y, n, k)
<1> USE DEF Compared, EndsInZero
<1> DEFINE v == Upto(x, n)
           w == Upto(y, n)
           a == IF n <= Len(x) THEN n ELSE Len(x)
           b == IF n <= Len(y) THEN n ELSE Len(y)
<1>1. v \in Seq(Int) /\ Len(v) = a /\ \A j \in 1..a : v[j] = x[j]
  BY UptoIs
<1>2. w \in Seq(Int) /\ Len(w) = b /\ \A j \in 1..b : w[j] = y[j]
  BY UptoIs
<1> HIDE DEF v, w
<1>3. Len(x) \in Nat /\ Len(y) \in Nat /\ k \in Nat /\ k <= a /\ k <= b /\ k <= n
  OBVIOUS
<1>4. x[k + 1] \in Int /\ y[k + 1] \in Int
  BY <1>3, ElementOfSeq
<1>5. \A j \in 1..k : v[j] = w[j]
  BY <1>1, <1>2, <1>3
<1>6. k < n => k + 1 \in 1..a /\ k + 1 \in 1..b
  <2>1. k + 1 <= Len(x) /\ k + 1 <= Len(y) /\ k + 1 \in Nat /\ n \in Nat /\ 1 <= k + 1
    BY <1>3
  <2>2. k < n => k + 1 <= n
    BY <1>3, <2>1
  <2>3. k < n => k + 1 <= a /\ k + 1 <= b
    BY <2>1, <2>2
  <2>4. a \in Nat /\ b \in Nat
    BY <1>3, <2>1
  <2> HIDE DEF a, b
  <2>5. QED BY <2>1, <2>3, <2>4
<1>7. k < n => k + 1 \in DOMAIN v /\ v[k + 1] = x[k + 1] /\ k + 1 \in DOMAIN w /\ w[k + 1] = y[k + 1]
  <2>1. DOMAIN v = 1..a /\ DOMAIN w = 1..b
    <3> HIDE DEF a, b
    <3>1. DOMAIN v = 1..Len(v) /\ DOMAIN w = 1..Len(w)
      BY <1>1, <1>2
    <3>2. QED BY <1>1, <1>2, <3>1
  <2>2. QED BY <1>1, <1>2, <1>6, <2>1
<1>8. CASE k = n
  <2>1. a = k /\ b = k
    BY <1>3, <1>8
  <2>2. Part(v, w, k)
    BY <1>1, <1>2, <1>3, <1>5, <2>1 DEF Part
  <2>3. InOrder(v, w, k)
    BY <2>2, OrderIs
  <2>4. v = w /\ OrderOf(v, w) = 0
    BY <1>1, <2>1, <2>3 DEF InOrder
  <2>5. QED BY <1>3, <1>4, <1>8, <2>4 DEF Outcome, v, w
<1>9. CASE k # n /\ x[k + 1] # y[k + 1]
  <2>1. k < a /\ k < b
    BY <1>3, <1>9
  <2>2. v[k + 1] # w[k + 1]
    BY <1>3, <1>7, <1>9
  <2>3. Part(v, w, k)
    BY <1>1, <1>2, <1>3, <1>5, <2>1, <2>2 DEF Part
  <2>4. InOrder(v, w, k)
    BY <2>3, OrderIs
  <2>5. v # w /\ OrderOf(v, w) = Sign(v[k + 1] - w[k + 1])
    BY <1>1, <2>1, <2>4 DEF InOrder
  <2>6. OrderOf(v, w) = Sign(x[k + 1] - y[k + 1])
    BY <1>3, <1>7, <1>9, <2>5
  <2>7. QED BY <1>3, <1>4, <1>7, <1>9, <2>5, <2>6 DEF Outcome, v, w
<1>10. CASE k # n /\ x[k + 1] = y[k + 1]
  <2>1. x[k + 1] = 0 /\ y[k + 1] = 0
    BY <1>10
  <2>2. Len(x) = k + 1
    <3>1. k + 1 # Len(x) => k + 1 \in 1..Len(x) - 1
      BY <1>3
    <3>2. QED BY <2>1, <3>1
  <2>3. Len(y) = k + 1
    <3>1. k + 1 # Len(y) => k + 1 \in 1..Len(y) - 1
      BY <1>3
    <3>2. QED BY <2>1, <3>1
  <2>4. a = k + 1 /\ b = k + 1
    BY <1>3, <1>10, <2>2, <2>3
  <2>5. \A j \in 1..k + 1 : v[j] = w[j]
    <3>1. \A j \in 1..k + 1 : j \in 1..k \/ j = k + 1
      BY <1>3
    <3>2. v[k + 1] = w[k + 1]
      BY <1>3, <1>7, <1>10
    <3>3. QED BY <1>5, <3>1, <3>2
  <2>6. Part(v, w, k + 1)
    BY <1>1, <1>2, <1>3, <2>4, <2>5 DEF Part
  <2>7. InOrder(v, w, k + 1)
    BY <2>6, OrderIs
  <2>8. v = w /\ OrderOf(v, w) = 0
    BY <1>1, <2>4, <2>7 DEF InOrder
  <2>9. Sign(x[k + 1] - y[k + 1]) = 0
    BY <2>1 DEF Sign
  <2>10. QED BY <1>3, <1>4, <1>7, <1>10, <2>8, <2>9 DEF Outcome, v, w
<1>11. QED BY <1>8, <1>9, <1>10


LEMMA PairStops ==
  ASSUME NEW x, EndsInZero(x), Len(x) <= MemSize, NEW y, EndsInZero(y), Len(y) <= MemSize,
         NEW n \in Nat, NEW S \in SUBSET Nat,
         \A k \in Nat : k < Len(x) /\ k < Len(y) => (k \in S <=> k < n /\ x[k + 1] = y[k + 1] /\ x[k + 1] # 0)
  PROVE  Compared(x, y, n, Forward(0, S))
<1> DEFINE g == IF Len(x) <= Len(y) THEN Len(x) - 1 ELSE Len(y) - 1
           h == IF n <= g THEN n ELSE g
           b == Forward(0, S)
<1>1. /\ Len(x) \in Nat \ {0} /\ x[Len(x)] = 0
      /\ Len(y) \in Nat \ {0} /\ y[Len(y)] = 0
  BY DEF EndsInZero
<1>2. g \in Nat /\ g < Len(x) /\ g < Len(y) /\ (g + 1 = Len(x) \/ g + 1 = Len(y))
  BY <1>1
<1>3. g \notin S
  BY <1>1, <1>2
<1> HIDE DEF g
<1>4. h \in Nat /\ h <= g /\ h <= n /\ 0 <= h /\ h <= 0 + MemSize /\ 0 \in Nat
  BY <1>1, <1>2, Memories
<1>5. h \notin S
  <2>1. h = n => h \notin S
    BY <1>1, <1>2, <1>4
  <2>2. h # n => h = g
    OBVIOUS
  <2>3. QED BY <1>3, <2>1, <2>2
<1> HIDE DEF h
<1>6. Stops(b, 0, h, S)
  BY <1>4, <1>5, ForwardStops
<1> HIDE DEF b
<1>7. b \in Nat /\ b <= h /\ b \notin S /\ \A j \in 0..b - 1 : j \in S
  BY <1>4, <1>6 DEF Stops
<1>8. b \in 0..n /\ b < Len(x) /\ b < Len(y)
  BY <1>1, <1>2, <1>4, <1>7
<1>9. \A j \in 1..b : x[j] = y[j]
  <2>1. \A j \in 1..b : j - 1 \in Nat /\ j - 1 \in 0..b - 1 /\ j - 1 < Len(x) /\ j - 1 < Len(y) /\ (j - 1) + 1 = j
    BY <1>1, <1>7, <1>8
  <2>2. QED BY <1>7, <2>1
<1>10. b = n \/ x[b + 1] # y[b + 1] \/ x[b + 1] = 0
  <2>1. b # n => b < n
    BY <1>8
  <2>2. QED BY <1>7, <1>8, <2>1
<1>11. QED BY <1>8, <1>9, <1>10 DEF Compared, b

\* The string at s with its terminator, and in lower case.
Whole(m, s) == Append(Text(m, s), 0)

LEMMA WholeIs ==
  ASSUME NEW m \in Mems, NEW s \in 1..Len(m), IsString(m, s)
  PROVE  /\ EndsInZero(Whole(m, s)) /\ Whole(m, s) \in Seq(Bytes) /\ Len(Whole(m, s)) <= MemSize
         /\ \A k \in Nat : k < Len(Whole(m, s)) =>
              /\ s + k \in 1..Len(m) /\ Whole(m, s)[k + 1] = m[s + k]
              /\ m[s + k] \in Bytes
<1> DEFINE e == End(m, s)
           x == Text(m, s)
           y == Append(x, 0)
<1>1. e \in s..Len(m) /\ e \in Nat /\ m[e] = 0 /\ s \in Nat
  BY EndIs, MemIs
<1>2. x \in Seq(Bytes) /\ Len(x) = e - s /\ \A k \in 1..e - s : x[k] = m[s + k - 1] /\ m[s + k - 1] # 0
  BY TextOf
<1>3. 0 \in Bytes /\ Bytes \subseteq Int /\ MemSize \in Nat /\ Len(m) <= MemSize
  BY Memories, MemIs
<1> HIDE DEF e, x
<1>4. y \in Seq(Bytes) /\ Len(y) = e - s + 1 /\ y[e - s + 1] = 0 /\ \A k \in 1..e - s : y[k] = x[k]
  <2>1. y \in Seq(Bytes) /\ Len(y) = Len(x) + 1 /\ y[Len(x) + 1] = 0 /\ \A k \in 1..Len(x) : y[k] = x[k]
    BY <1>2, <1>3
  <2> HIDE DEF y
  <2>2. QED BY <1>2, <2>1
<1> HIDE DEF y
<1>5. e - s \in Nat /\ s + (e - s) = e
  BY <1>1
<1>6. \A k \in Nat : k < Len(y) => s + k \in 1..Len(m) /\ y[k + 1] = m[s + k]
  <2> TAKE k \in Nat
  <2> HAVE k < Len(y)
  <2>1. k <= e - s /\ s + k \in 1..Len(m)
    BY <1>1, <1>4, <1>5
  <2>2. CASE k = e - s
    BY <1>1, <1>4, <1>5, <2>1, <2>2
  <2>3. CASE k # e - s
    <3>1. k + 1 \in 1..e - s /\ s + (k + 1) - 1 = s + k
      BY <1>1, <1>5, <2>1, <2>3
    <3>2. QED BY <1>2, <1>4, <2>1, <3>1
  <2>4. QED BY <2>2, <2>3
<1>7. \A k \in Nat : k < Len(y) => m[s + k] \in Bytes
  BY <1>6, MemIs
<1>8. EndsInZero(y)
  <2>1. y \in Seq(Int)
    BY <1>3, <1>4, SeqMonotonic
  <2>2. \A k \in 1..Len(y) - 1 : y[k] # 0
    <3>1. Len(y) - 1 = e - s
      BY <1>4, <1>5
    <3>2. \A k \in 1..e - s : y[k] # 0
      BY <1>2, <1>4
    <3>3. QED BY <3>1, <3>2
  <2>3. Len(y) \in Nat \ {0} /\ y[Len(y)] = 0
    BY <1>4, <1>5
  <2>4. QED BY <2>1, <2>2, <2>3 DEF EndsInZero
<1>9. Len(y) <= MemSize
  BY <1>1, <1>3, <1>4
<1>10. QED BY <1>4, <1>6, <1>7, <1>8, <1>9 DEF Whole, x, y

LEMMA LowerIs ==
  ASSUME NEW x \in Seq(Int)
  PROVE  /\ Lower(x) \in Seq(Int) /\ Len(Lower(x)) = Len(x) /\ \A k \in 1..Len(x) : Lower(x)[k] = tolower(x[k])
         /\ EndsInZero(x) => EndsInZero(Lower(x))
<1>1. Len(x) \in Nat /\ DOMAIN x = 1..Len(x) /\ \A k \in 1..Len(x) : x[k] \in Int
  BY ElementOfSeq
<1>2. \A c \in Int : tolower(c) \in Int /\ (tolower(c) = 0 <=> c = 0)
  BY DEF tolower
<1> DEFINE y == [k \in 1..Len(x) |-> tolower(x[k])]
<1>3. Lower(x) = y
  BY <1>1 DEF Lower
<1>4. y \in Seq(Int) /\ Len(y) = Len(x) /\ \A k \in 1..Len(x) : y[k] = tolower(x[k])
  BY <1>1, <1>2
<1> HIDE DEF y
<1>5. ASSUME EndsInZero(x) PROVE EndsInZero(y)
  <2> USE DEF EndsInZero
  <2>1. Len(x) \in 1..Len(x) /\ Len(x) # 0 /\ x[Len(x)] = 0
    BY <1>1, <1>5
  <2>2. y[Len(y)] = 0
    BY <1>1, <1>2, <1>4, <2>1
  <2>3. \A k \in 1..Len(y) - 1 : y[k] # 0
    <3>1. \A k \in 1..Len(y) - 1 : k \in 1..Len(x) /\ k \in 1..Len(x) - 1
      BY <1>1, <1>4
    <3>2. \A k \in 1..Len(x) - 1 : x[k] # 0
      BY <1>5
    <3>3. QED BY <1>1, <1>2, <1>4, <3>1, <3>2
  <2>4. QED BY <1>1, <1>4, <2>1, <2>2, <2>3
<1>6. QED BY <1>3, <1>4, <1>5

LEMMA LowerUpto ==
  ASSUME NEW x \in Seq(Int), NEW n \in Nat
  PROVE  Lower(Upto(x, n)) = Upto(Lower(x), n)
<1> DEFINE v == Upto(x, n)
           y == Lower(x)
           w == Upto(y, n)
           b == IF n <= Len(x) THEN n ELSE Len(x)
<1>1. y \in Seq(Int) /\ Len(y) = Len(x) /\ \A k \in 1..Len(x) : y[k] = tolower(x[k])
  BY LowerIs
<1> HIDE DEF y
<1>2. v \in Seq(Int) /\ Len(v) = b /\ \A k \in 1..b : v[k] = x[k]
  BY UptoIs
<1>3. w \in Seq(Int) /\ Len(w) = b /\ \A k \in 1..b : w[k] = y[k]
  BY <1>1, UptoIs
<1> HIDE DEF v, w
<1>4. Lower(v) \in Seq(Int) /\ Len(Lower(v)) = b /\ \A k \in 1..b : Lower(v)[k] = tolower(v[k])
  BY <1>2, LowerIs
<1>5. \A k \in 1..b : k \in 1..Len(x)
  OBVIOUS
<1>6. \A k \in 1..b : Lower(v)[k] = w[k]
  BY <1>1, <1>2, <1>3, <1>4, <1>5
<1>7. Lower(v) = w
  BY <1>3, <1>4, <1>6, SeqEqual
<1>8. QED BY <1>7 DEF v, w, y

\* All of a sequence.
LEMMA UptoAll ==
  ASSUME NEW x \in Seq(Int), NEW n \in Nat, Len(x) <= n
  PROVE  Upto(x, n) = x
<1> DEFINE v == Upto(x, n)
<1>1. v \in Seq(Int) /\ Len(v) = Len(x) /\ \A k \in 1..Len(x) : v[k] = x[k]
  BY UptoIs
<1> HIDE DEF v
<1>2. v = x
  BY <1>1, SeqEqual
<1>3. QED BY <1>2 DEF v


AgreesIn(res, v, w) == IF Ascii(v) /\ Ascii(w) THEN Sign(res) = OrderOf(v, w) ELSE res = 0 <=> v = w

\* The difference, if there is one, in an int.
LEMMA DifferenceAgrees ==
  ASSUME NEW x, NEW y, NEW n \in Nat, NEW k \in 0..n, Compared(x, y, n, k),
         NEW res, res = IF k < n THEN x[k + 1] - y[k + 1] ELSE 0
  PROVE  AgreesIn(res, Upto(x, n), Upto(y, n))
<1>1. Outcome(x, y, n, k)
  BY ComparedIs
<1> DEFINE c == x[k + 1]
           d == y[k + 1]
           v == Upto(x, n)
           w == Upto(y, n)
<1>2. /\ v = w <=> k = n \/ c = d
      /\ OrderOf(v, w) = IF k = n THEN 0 ELSE Sign(c - d)
      /\ c \in Int /\ d \in Int
  BY <1>1 DEF Outcome
<1>3. res = IF k = n THEN 0 ELSE c - d
  OBVIOUS
<1> HIDE DEF c, d, v, w
<1>4. Sign(0) = 0 /\ (c - d = 0 <=> c = d)
  BY <1>2 DEF Sign
<1>5. Sign(res) = OrderOf(v, w) /\ (res = 0 <=> v = w)
  BY <1>2, <1>3, <1>4
<1>6. QED BY <1>5 DEF AgreesIn, v, w

LEMMA SignedDifference ==
  ASSUME NEW c \in Bytes, NEW d \in Bytes
  PROVE  /\ Signed(c - d) \in Int /\ (Signed(c - d) = 0 <=> c = d)
         /\ c >= 0 /\ d >= 0 => Signed(c - d) = c - d
<1>1. c \in -128..127 /\ d \in -128..127
  BY StringAssumption
<1>2. (c - d + 128) % 256 = IF c - d < -128 THEN c - d + 384 ELSE IF c - d < 128 THEN c - d + 128 ELSE c - d - 128
  BY <1>1
<1>3. QED BY <1>1, <1>2 DEF Signed

\* The difference in a char has the sign of the difference of ASCII chars.
LEMMA CharAgrees ==
  ASSUME NEW x, NEW y, NEW n \in Nat, NEW k \in 0..n, Compared(x, y, n, k),
         x[k + 1] \in Bytes, y[k + 1] \in Bytes,
         NEW res, res = IF k < n THEN Signed(x[k + 1] - y[k + 1]) ELSE 0
  PROVE  AgreesIn(res, Upto(x, n), Upto(y, n))
<1>1. Outcome(x, y, n, k)
  BY ComparedIs
<1> DEFINE c == x[k + 1]
           d == y[k + 1]
           v == Upto(x, n)
           w == Upto(y, n)
<1>2. /\ v = w <=> k = n \/ c = d
      /\ OrderOf(v, w) = IF k = n THEN 0 ELSE Sign(c - d)
      /\ c \in Int /\ d \in Int
      /\ k < n => k + 1 \in DOMAIN v /\ v[k + 1] = c /\ k + 1 \in DOMAIN w /\ w[k + 1] = d
  BY <1>1 DEF Outcome
<1>3. res = IF k = n THEN 0 ELSE Signed(c - d)
  OBVIOUS
<1>4. Signed(c - d) \in Int /\ (Signed(c - d) = 0 <=> c = d) /\ (c >= 0 /\ d >= 0 => Signed(c - d) = c - d)
  BY SignedDifference
<1> HIDE DEF c, d, v, w
<1>5. res = 0 <=> v = w
  BY <1>2, <1>3, <1>4
<1>6. ASSUME Ascii(v), Ascii(w) PROVE Sign(res) = OrderOf(v, w)
  <2>1. CASE k = n
    BY <1>2, <1>3, <2>1 DEF Sign
  <2>2. CASE k # n
    <3>1. c >= 0 /\ d >= 0
      BY <1>2, <1>6, <2>2 DEF Ascii
    <3>2. QED BY <1>2, <1>3, <1>4, <2>2, <3>1
  <2>3. QED BY <2>1, <2>2
<1>7. QED BY <1>5, <1>6 DEF AgreesIn, v, w

Strings(m, s, t) == m \in Mems /\ s \in 1..Len(m) /\ t \in 1..Len(m) /\ IsString(m, s) /\ IsString(m, t)

LEMMA StrcmpAgrees ==
  ASSUME NEW m, NEW s, NEW t, Strings(m, s, t)
  PROVE  AgreesIn(strcmp(m, s, t), Whole(m, s), Whole(m, t))
<1> USE DEF Strings
<1> DEFINE x == Whole(m, s)
           y == Whole(m, t)
           res(k) == Signed(m[s + k] - m[t + k])
           S == {k \in Nat : res(k) = 0 /\ m[s + k] # 0}
           b == Forward(0, S)
           n == MemSize
<1>1. /\ EndsInZero(x) /\ x \in Seq(Bytes) /\ Len(x) <= MemSize
      /\ \A k \in Nat : k < Len(x) => x[k + 1] = m[s + k] /\ m[s + k] \in Bytes
  BY WholeIs
<1>2. /\ EndsInZero(y) /\ y \in Seq(Bytes) /\ Len(y) <= MemSize
      /\ \A k \in Nat : k < Len(y) => y[k + 1] = m[t + k] /\ m[t + k] \in Bytes
  BY WholeIs
<1> HIDE DEF x, y
<1>3. strcmp(m, s, t) = res(b)
  BY DEF strcmp
<1>4. \A k \in Nat : k < Len(x) /\ k < Len(y) => (k \in S <=> k < n /\ x[k + 1] = y[k + 1] /\ x[k + 1] # 0)
  <2> TAKE k \in Nat
  <2> HAVE k < Len(x) /\ k < Len(y)
  <2>1. x[k + 1] = m[s + k] /\ m[s + k] \in Bytes /\ y[k + 1] = m[t + k] /\ m[t + k] \in Bytes
    BY <1>1, <1>2
  <2>2. res(k) = 0 <=> m[s + k] = m[t + k]
    BY <2>1, SignedDifference
  <2>3. k < n
    BY <1>1, Memories DEF EndsInZero
  <2> HIDE DEF res, n
  <2>4. QED BY <2>1, <2>2, <2>3
<1>5. S \in SUBSET Nat /\ n \in Nat
  BY Memories
<1> HIDE DEF S, b
<1>6. Compared(x, y, n, b)
  BY <1>1, <1>2, <1>4, <1>5, PairStops DEF b
<1>7. b \in 0..n /\ b < Len(x) /\ b < Len(y) /\ b \in Nat
  BY <1>6 DEF Compared
<1>8. x[b + 1] = m[s + b] /\ m[s + b] \in Bytes /\ y[b + 1] = m[t + b] /\ m[t + b] \in Bytes
  BY <1>1, <1>2, <1>7
<1>9. b < n /\ Len(x) \in Nat /\ Len(y) \in Nat
  BY <1>1, <1>2, <1>7, Memories DEF EndsInZero
<1>10. res(b) = IF b < n THEN Signed(x[b + 1] - y[b + 1]) ELSE 0
  BY <1>8, <1>9
<1>11. Upto(x, n) = x /\ Upto(y, n) = y
  BY <1>1, <1>2, <1>5, UptoAll DEF EndsInZero
<1> HIDE DEF res, n
<1>12. AgreesIn(res(b), Upto(x, n), Upto(y, n))
  BY <1>5, <1>6, <1>7, <1>8, <1>10, CharAgrees
<1>13. QED BY <1>3, <1>11, <1>12 DEF x, y

LEMMA StrncmpAgrees ==
  ASSUME NEW m, NEW s, NEW t, Strings(m, s, t), NEW n \in Nat
  PROVE  AgreesIn(strncmp(m, s, t, n), Upto(Whole(m, s), n), Upto(Whole(m, t), n))
<1> USE DEF Strings
<1> DEFINE x == Whole(m, s)
           y == Whole(m, t)
           res(k) == Signed(m[s + k] - m[t + k])
           S == {k \in Nat : k < n /\ res(k) = 0 /\ m[s + k] # 0}
           b == Forward(0, S)
<1>1. /\ EndsInZero(x) /\ x \in Seq(Bytes) /\ Len(x) <= MemSize
      /\ \A k \in Nat : k < Len(x) => x[k + 1] = m[s + k] /\ m[s + k] \in Bytes
  BY WholeIs
<1>2. /\ EndsInZero(y) /\ y \in Seq(Bytes) /\ Len(y) <= MemSize
      /\ \A k \in Nat : k < Len(y) => y[k + 1] = m[t + k] /\ m[t + k] \in Bytes
  BY WholeIs
<1> HIDE DEF x, y
<1>3. strncmp(m, s, t, n) = IF b < n THEN res(b) ELSE 0
  BY DEF strncmp
<1>4. \A k \in Nat : k < Len(x) /\ k < Len(y) => (k \in S <=> k < n /\ x[k + 1] = y[k + 1] /\ x[k + 1] # 0)
  <2> TAKE k \in Nat
  <2> HAVE k < Len(x) /\ k < Len(y)
  <2>1. x[k + 1] = m[s + k] /\ m[s + k] \in Bytes /\ y[k + 1] = m[t + k] /\ m[t + k] \in Bytes
    BY <1>1, <1>2
  <2>2. res(k) = 0 <=> m[s + k] = m[t + k]
    BY <2>1, SignedDifference
  <2> HIDE DEF res
  <2>3. QED BY <2>1, <2>2
<1>5. S \in SUBSET Nat
  OBVIOUS
<1> HIDE DEF S, b
<1>6. Compared(x, y, n, b)
  BY <1>1, <1>2, <1>4, <1>5, PairStops DEF b
<1>7. b \in 0..n /\ b < Len(x) /\ b < Len(y) /\ b \in Nat
  BY <1>6 DEF Compared
<1>8. x[b + 1] = m[s + b] /\ m[s + b] \in Bytes /\ y[b + 1] = m[t + b] /\ m[t + b] \in Bytes
  BY <1>1, <1>2, <1>7
<1>9. strncmp(m, s, t, n) = IF b < n THEN Signed(x[b + 1] - y[b + 1]) ELSE 0
  BY <1>3, <1>8
<1>10. AgreesIn(strncmp(m, s, t, n), Upto(x, n), Upto(y, n))
  BY <1>6, <1>7, <1>8, <1>9, CharAgrees
<1>11. QED BY <1>10 DEF x, y


LEMMA LowerWholeIs ==
  ASSUME NEW m \in Mems, NEW s \in 1..Len(m), IsString(m, s)
  PROVE  LET x == Lower(Whole(m, s))
         IN /\ EndsInZero(x) /\ x \in Seq(Int) /\ Len(x) <= MemSize /\ Len(x) \in Nat
            /\ \A k \in Nat : k < Len(x) => x[k + 1] = tolower(m[s + k]) /\ m[s + k] \in Bytes /\ m[s + k] \in Int
<1> DEFINE y == Whole(m, s)
           x == Lower(y)
<1>1. /\ EndsInZero(y) /\ y \in Seq(Bytes) /\ Len(y) <= MemSize
      /\ \A k \in Nat : k < Len(y) => y[k + 1] = m[s + k] /\ m[s + k] \in Bytes
  BY WholeIs
<1> HIDE DEF y
<1>2. y \in Seq(Int) /\ Len(y) \in Nat
  BY <1>1 DEF EndsInZero
<1>3. /\ x \in Seq(Int) /\ Len(x) = Len(y) /\ EndsInZero(x)
      /\ \A k \in 1..Len(y) : x[k] = tolower(y[k])
  BY <1>1, <1>2, LowerIs
<1> HIDE DEF x
<1>4. \A k \in Nat : k < Len(x) => x[k + 1] = tolower(m[s + k]) /\ m[s + k] \in Bytes /\ m[s + k] \in Int
  <2>1. \A k \in Nat : k < Len(x) => k < Len(y) /\ k + 1 \in 1..Len(y)
    BY <1>2, <1>3
  <2>2. QED BY <1>1, <1>3, <2>1, Memories
<1>5. QED BY <1>1, <1>2, <1>3, <1>4 DEF x, y

LEMMA StrcasecmpAgrees ==
  ASSUME NEW m, NEW s, NEW t, Strings(m, s, t)
  PROVE  AgreesIn(strcasecmp(m, s, t), Lower(Whole(m, s)), Lower(Whole(m, t)))
<1> USE DEF Strings
<1> DEFINE x == Lower(Whole(m, s))
           y == Lower(Whole(m, t))
           c1(k) == tolower(m[s + k])
           c2(k) == tolower(m[t + k])
           S == {k \in Nat : c1(k) = c2(k) /\ c1(k) # 0}
           b == Forward(0, S)
           n == MemSize
<1>1. /\ EndsInZero(x) /\ x \in Seq(Int) /\ Len(x) <= MemSize /\ Len(x) \in Nat
      /\ \A k \in Nat : k < Len(x) => x[k + 1] = c1(k)
  BY LowerWholeIs
<1>2. /\ EndsInZero(y) /\ y \in Seq(Int) /\ Len(y) <= MemSize /\ Len(y) \in Nat
      /\ \A k \in Nat : k < Len(y) => y[k + 1] = c2(k)
  BY LowerWholeIs
<1> HIDE DEF x, y
<1>3. strcasecmp(m, s, t) = c1(b) - c2(b)
  BY DEF strcasecmp
<1> HIDE DEF c1, c2
<1>4. \A k \in Nat : k < Len(x) /\ k < Len(y) => (k \in S <=> k < n /\ x[k + 1] = y[k + 1] /\ x[k + 1] # 0)
  BY <1>1, <1>2, Memories
<1>5. S \in SUBSET Nat /\ n \in Nat
  BY Memories
<1> HIDE DEF S, b, n
<1>6. Compared(x, y, n, b)
  BY <1>1, <1>2, <1>4, <1>5, PairStops DEF b, n
<1>7. b \in 0..n /\ b < Len(x) /\ b < Len(y) /\ b \in Nat
  BY <1>6 DEF Compared
<1>8. b < n
  BY <1>1, <1>5, <1>7 DEF n
<1>9. strcasecmp(m, s, t) = IF b < n THEN x[b + 1] - y[b + 1] ELSE 0
  BY <1>1, <1>2, <1>3, <1>7, <1>8
<1>10. Upto(x, n) = x /\ Upto(y, n) = y
  BY <1>1, <1>2, <1>5, UptoAll DEF n
<1>11. AgreesIn(strcasecmp(m, s, t), Upto(x, n), Upto(y, n))
  BY <1>5, <1>6, <1>7, <1>9, DifferenceAgrees
<1>12. QED BY <1>10, <1>11 DEF x, y

\* strncasecmp decrements the length first.
LEMMA LessIs ==
  ASSUME NEW n \in Nat, NEW k \in Nat
  PROVE  /\ k < n /\ n < UINT_MAX => (Less(n, k + 1) > 0 <=> k < n - 1)
         /\ n = 0 /\ k < UINT_MAX => Less(n, k + 1) > 0
<1> DEFINE d == UINT_MAX + 1
<1>1. d \in Nat \ {0} /\ UINT_MAX \in Nat
  BY Memories
<1>2. Less(n, k + 1) = (n - (k + 1)) % d
  BY DEF Less
<1>3. ASSUME k < n, n < UINT_MAX PROVE Less(n, k + 1) > 0 <=> k < n - 1
  <2>1. n - (k + 1) \in 0..d - 1
    BY <1>1, <1>3
  <2> HIDE DEF d
  <2>2. (n - (k + 1)) % d = n - (k + 1)
    BY <1>1, <2>1, SmallRemainder
  <2>3. QED BY <1>2, <2>2
<1>4. ASSUME n = 0, k < UINT_MAX PROVE Less(n, k + 1) > 0
  <2> DEFINE z == n - (k + 1)
             q == z \div d
             r == z % d
  <2>1. z \in Int /\ z < 0 /\ z > -d
    BY <1>1, <1>4
  <2> HIDE DEF d, z
  <2>2. q \in Int /\ r \in 0..d - 1 /\ z = d * q + r
    BY <1>1, <2>1
  <2> HIDE DEF q, r
  <2>3. r # 0
    <3>1. SUFFICES ASSUME r = 0 PROVE FALSE
      OBVIOUS
    <3>2. z = d * q
      BY <1>1, <2>1, <2>2, <3>1
    <3>3. q >= 0 \/ q <= -1
      BY <2>2
    <3>4. q >= 0 => d * q >= 0
      BY <1>1, <2>2
    <3>5. q <= -1 => d * q <= -d
      BY <1>1, <2>2
    <3>6. QED BY <1>1, <2>1, <3>2, <3>3, <3>4, <3>5
  <2>4. Less(n, k + 1) = r
    BY <1>2 DEF r, z
  <2>5. QED BY <1>1, <2>2, <2>3, <2>4
<1>5. QED BY <1>3, <1>4

LEMMA StrncasecmpAgrees ==
  ASSUME NEW m, NEW s, NEW t, Strings(m, s, t), NEW n \in Nat, n < UINT_MAX
  PROVE  LET k == IF n = 0 THEN UINT_MAX ELSE n
         IN AgreesIn(strncasecmp(m, s, t, n), Upto(Lower(Whole(m, s)), k), Upto(Lower(Whole(m, t)), k))
<1> USE DEF Strings
<1> DEFINE x == Lower(Whole(m, s))
           y == Lower(Whole(m, t))
           c1(k) == tolower(m[s + k])
           c2(k) == tolower(m[t + k])
           S == {k \in Nat : Less(n, k + 1) > 0 /\ c1(k) = c2(k) /\ c1(k) # 0}
           b == Forward(0, S)
           h == IF n = 0 THEN UINT_MAX ELSE n
           g == IF n = 0 THEN UINT_MAX ELSE n - 1
           res == strncasecmp(m, s, t, n)
<1>1. /\ EndsInZero(x) /\ x \in Seq(Int) /\ Len(x) <= MemSize /\ Len(x) \in Nat
      /\ \A k \in Nat : k < Len(x) => x[k + 1] = c1(k)
  BY LowerWholeIs
<1>2. /\ EndsInZero(y) /\ y \in Seq(Int) /\ Len(y) <= MemSize /\ Len(y) \in Nat
      /\ \A k \in Nat : k < Len(y) => y[k + 1] = c2(k)
  BY LowerWholeIs
<1> HIDE DEF x, y
<1>3. res = c1(b) - c2(b)
  BY DEF strncasecmp
<1> HIDE DEF c1, c2, res
<1>a. g \in Nat /\ h \in Nat /\ UINT_MAX \in Nat /\ MemSize \in Nat /\ MemSize < UINT_MAX
  BY Memories
<1> DEFINE T == {k \in S : k < g}
<1>4. \A k \in Nat : k < Len(x) /\ k < Len(y) => (k \in T <=> k < g /\ x[k + 1] = y[k + 1] /\ x[k + 1] # 0)
  <2> TAKE k \in Nat
  <2> HAVE k < Len(x) /\ k < Len(y)
  <2>1. k < UINT_MAX
    BY <1>1, <1>a
  <2>2. k < g => Less(n, k + 1) > 0
    BY <1>a, <2>1, LessIs
  <2>3. x[k + 1] = c1(k) /\ y[k + 1] = c2(k)
    BY <1>1, <1>2
  <2> HIDE DEF g
  <2>4. QED BY <2>2, <2>3
<1>5. T \in SUBSET Nat
  OBVIOUS
<1> DEFINE u == Forward(0, T)
<1> HIDE DEF T, u, g
<1>6. Compared(x, y, g, u)
  BY <1>1, <1>2, <1>4, <1>5, <1>a, PairStops DEF u
<1>7. u \in 0..g /\ u < Len(x) /\ u < Len(y) /\ u \in Nat
  BY <1>a, <1>6 DEF Compared
<1>8. b = u
  <2>1. \A k \in 0..u - 1 : k \in T
    <3>1. \A k \in 0..u - 1 : k \in Nat /\ k < Len(x) /\ k < Len(y) /\ k < g /\ k + 1 \in 1..u
      BY <1>1, <1>2, <1>7, <1>a
    <3>2. \A k \in 0..u - 1 : x[k + 1] = y[k + 1]
      BY <1>6, <3>1 DEF Compared
    <3>3. \A k \in 0..u - 1 : k + 1 \in 1..Len(x) - 1
      BY <1>1, <1>7
    <3>4. \A k \in 0..u - 1 : x[k + 1] # 0
      BY <1>1, <3>3 DEF EndsInZero
    <3>5. QED BY <1>4, <3>1, <3>2, <3>4
  <2>2. \A k \in 0..u - 1 : k \in S
    BY <2>1 DEF T
  <2>3. u \notin S
    <3>1. ASSUME u \in S PROVE FALSE
      <4>1. x[u + 1] = c1(u) /\ y[u + 1] = c2(u) /\ c1(u) = c2(u) /\ c1(u) # 0 /\ Less(n, u + 1) > 0
        BY <1>1, <1>2, <1>7, <3>1
      <4>2. u = g
        BY <1>6, <4>1 DEF Compared
      <4>3. CASE n = 0
        BY <1>1, <1>7, <1>a, <4>2, <4>3 DEF g
      <4>4. CASE n # 0
        <5>1. u < n /\ ~(u < n - 1)
          BY <1>a, <4>2, <4>4 DEF g
        <5>2. QED BY <1>7, <4>1, <5>1, LessIs
      <4>5. QED BY <4>3, <4>4
    <3>2. QED BY <3>1
  <2>4. S \in SUBSET Nat /\ 0 <= u /\ u <= 0 + MemSize /\ 0 \in Nat
    BY <1>1, <1>7, <1>a
  <2> HIDE DEF S
  <2>5. QED BY <1>7, <2>2, <2>3, <2>4, ForwardIs
<1> HIDE DEF S, b, h
<1>9. res = x[u + 1] - y[u + 1] /\ g <= h /\ h <= g + 1
  <2>1. res = x[u + 1] - y[u + 1]
    BY <1>1, <1>2, <1>3, <1>7, <1>8
  <2>2. g <= h /\ h <= g + 1
    BY <1>a DEF g, h
  <2>3. QED BY <2>1, <2>2
<1>10. CASE u < g \/ x[u + 1] # y[u + 1] \/ x[u + 1] = 0
  <2>1. u < h
    <3>1. n = 0 => u < h
      BY <1>1, <1>7, <1>a DEF h
    <3>2. n # 0 => u < h
      BY <1>7, <1>a DEF h, g
    <3>3. QED BY <3>1, <3>2
  <2>2. Compared(x, y, h, u)
    <3>1. u \in 0..h
      BY <1>7, <1>a, <2>1
    <3>2. x[u + 1] # y[u + 1] \/ x[u + 1] = 0
      BY <1>6, <1>7, <1>10 DEF Compared
    <3>3. QED BY <1>6, <1>a, <3>1, <3>2 DEF Compared
  <2>3. u \in 0..h /\ res = IF u < h THEN x[u + 1] - y[u + 1] ELSE 0
    BY <1>7, <1>9, <1>a, <2>1
  <2>4. AgreesIn(res, Upto(x, h), Upto(y, h))
    BY <1>a, <2>2, <2>3, DifferenceAgrees
  <2>5. QED BY <2>4 DEF h, res, x, y
<1>11. CASE ~(u < g \/ x[u + 1] # y[u + 1] \/ x[u + 1] = 0)
  <2>1. u = g /\ n # 0 /\ h = u + 1
    <3>1. u = g
      BY <1>7, <1>11, <1>a
    <3>2. n # 0
      BY <1>1, <1>7, <1>a, <3>1 DEF g
    <3>3. QED BY <3>1, <3>2 DEF h, g
  <2>2. u + 1 < Len(x) /\ u + 1 < Len(y)
    <3>1. Len(x) # u + 1
      BY <1>1, <1>11 DEF EndsInZero
    <3>2. Len(y) # u + 1
      BY <1>2, <1>11 DEF EndsInZero
    <3>3. QED BY <1>1, <1>2, <1>7, <3>1, <3>2
  <2>3. \A k \in 1..h : x[k] = y[k]
    <3>1. \A k \in 1..h : k \in 1..u \/ k = u + 1
      BY <1>7, <2>1
    <3>2. \A k \in 1..u : x[k] = y[k]
      BY <1>6 DEF Compared
    <3>3. QED BY <1>11, <3>1, <3>2
  <2>4. h \in 0..h /\ h < Len(x) /\ h < Len(y)
    BY <1>a, <2>1, <2>2
  <2>5. Compared(x, y, h, h)
    BY <1>1, <1>2, <1>a, <2>3, <2>4 DEF Compared
  <2>6. res = IF h < h THEN x[h + 1] - y[h + 1] ELSE 0
    <3>1. u + 1 \in 1..Len(x)
      BY <1>1, <1>7
    <3>2. x[u + 1] \in Int
      BY <1>1, <3>1, ElementOfSeq
    <3>3. x[u + 1] - y[u + 1] = 0 /\ ~(h < h)
      BY <1>11, <1>a, <3>2
    <3>4. QED BY <1>9, <3>3
  <2>7. AgreesIn(res, Upto(x, h), Upto(y, h))
    BY <1>a, <2>4, <2>5, <2>6, DifferenceAgrees
  <2>8. QED BY <2>7 DEF h, res, x, y
<1>12. QED BY <1>10, <1>11


LEMMA LowerUnsigned ==
  ASSUME NEW c \in Bytes, NEW d \in Bytes
  PROVE  /\ tolower(Unsigned(c)) = tolower(Unsigned(d)) <=> tolower(c) = tolower(d)
         /\ Unsigned(c) = 0 <=> c = 0
         /\ tolower(c) = 0 <=> c = 0
         /\ tolower(Unsigned(c)) \in Int /\ Unsigned(c) \in Int
         /\ Unsigned(c) = Unsigned(d) <=> c = d
<1>1. /\ c \in Int /\ c >= -128 /\ c <= 127 /\ Unsigned(c) = IF c < 0 THEN c + 256 ELSE c
      /\ d \in Int /\ d >= -128 /\ d <= 127 /\ Unsigned(d) = IF d < 0 THEN d + 256 ELSE d
  BY SignedIs
<1>2. QED BY <1>1 DEF tolower

LEMMA StrnicmpAgrees ==
  ASSUME NEW m, NEW s, NEW t, Strings(m, s, t), NEW n \in Nat
  PROVE  strnicmp(m, s, t, n) = 0 <=> Upto(Lower(Whole(m, s)), n) = Upto(Lower(Whole(m, t)), n)
<1> USE DEF Strings
<1> DEFINE x == Lower(Whole(m, s))
           y == Lower(Whole(m, t))
           c1(k) == Unsigned(m[s + k])
           c2(k) == Unsigned(m[t + k])
           S == {k \in Nat : k < n /\ c1(k) # 0 /\ c2(k) # 0 /\ tolower(c1(k)) = tolower(c2(k))}
           b == Forward(0, S)
           res == strnicmp(m, s, t, n)
<1>1. /\ EndsInZero(x) /\ x \in Seq(Int) /\ Len(x) <= MemSize /\ Len(x) \in Nat
      /\ \A k \in Nat : k < Len(x) => x[k + 1] = tolower(m[s + k]) /\ m[s + k] \in Bytes
  BY LowerWholeIs
<1>2. /\ EndsInZero(y) /\ y \in Seq(Int) /\ Len(y) <= MemSize /\ Len(y) \in Nat
      /\ \A k \in Nat : k < Len(y) => y[k + 1] = tolower(m[t + k]) /\ m[t + k] \in Bytes
  BY LowerWholeIs
<1> HIDE DEF x, y
<1>3. res = IF b >= n THEN 0 ELSE IF c1(b) = 0 \/ c2(b) = 0 THEN c1(b) - c2(b) ELSE tolower(c1(b)) - tolower(c2(b))
  BY DEF strnicmp
<1>4. \A k \in Nat : k < Len(x) /\ k < Len(y) =>
        /\ tolower(c1(k)) = tolower(c2(k)) <=> x[k + 1] = y[k + 1]
        /\ c1(k) = 0 <=> x[k + 1] = 0
        /\ c2(k) = 0 <=> y[k + 1] = 0
        /\ tolower(c1(k)) \in Int /\ tolower(c2(k)) \in Int /\ c1(k) \in Int /\ c2(k) \in Int
  <2> TAKE k \in Nat
  <2> HAVE k < Len(x) /\ k < Len(y)
  <2>1. x[k + 1] = tolower(m[s + k]) /\ m[s + k] \in Bytes /\ y[k + 1] = tolower(m[t + k]) /\ m[t + k] \in Bytes
    BY <1>1, <1>2
  <2> DEFINE g == m[s + k]
             h == m[t + k]
  <2>2. c1(k) = Unsigned(g) /\ c2(k) = Unsigned(h) /\ x[k + 1] = tolower(g) /\ y[k + 1] = tolower(h) /\ g \in Bytes /\ h \in Bytes
    BY <2>1
  <2> HIDE DEF g, h, c1, c2
  <2>3. /\ tolower(Unsigned(g)) = tolower(Unsigned(h)) <=> tolower(g) = tolower(h)
        /\ Unsigned(g) = 0 <=> tolower(g) = 0
        /\ Unsigned(h) = 0 <=> tolower(h) = 0
        /\ tolower(Unsigned(g)) \in Int /\ tolower(Unsigned(h)) \in Int /\ Unsigned(g) \in Int /\ Unsigned(h) \in Int
    BY <2>2, LowerUnsigned
  <2>4. QED BY <2>2, <2>3
<1> HIDE DEF c1, c2, res
<1>5. \A k \in Nat : k < Len(x) /\ k < Len(y) => (k \in S <=> k < n /\ x[k + 1] = y[k + 1] /\ x[k + 1] # 0)
  BY <1>4
<1>6. S \in SUBSET Nat
  OBVIOUS
<1> HIDE DEF S, b
<1>7. Compared(x, y, n, b)
  BY <1>1, <1>2, <1>5, <1>6, PairStops DEF b
<1>8. b \in 0..n /\ b < Len(x) /\ b < Len(y) /\ b \in Nat
  BY <1>7 DEF Compared
<1>9. Outcome(x, y, n, b)
  BY <1>7, ComparedIs
<1>10. Upto(x, n) = Upto(y, n) <=> b = n \/ x[b + 1] = y[b + 1]
  BY <1>9 DEF Outcome
<1>11. CASE b = n
  BY <1>3, <1>8, <1>10, <1>11 DEF res, x, y
<1>12. CASE b # n /\ (c1(b) = 0 \/ c2(b) = 0)
  <2>1. c1(b) \in Int /\ c2(b) \in Int /\ res = c1(b) - c2(b)
    BY <1>3, <1>4, <1>8, <1>12
  <2>2. res = 0 <=> c1(b) = c2(b)
    BY <2>1
  <2>3. c1(b) = 0 /\ c2(b) = 0 <=> x[b + 1] = y[b + 1]
    BY <1>4, <1>8, <1>12
  <2>4. c1(b) = c2(b) <=> c1(b) = 0 /\ c2(b) = 0
    BY <1>12
  <2>5. QED BY <1>10, <1>12, <2>2, <2>3, <2>4 DEF res, x, y
<1>13. CASE b # n /\ ~(c1(b) = 0 \/ c2(b) = 0)
  <2>1. tolower(c1(b)) \in Int /\ tolower(c2(b)) \in Int /\ res = tolower(c1(b)) - tolower(c2(b))
    BY <1>3, <1>4, <1>8, <1>13
  <2>2. res = 0 <=> tolower(c1(b)) = tolower(c2(b))
    BY <2>1
  <2>3. tolower(c1(b)) = tolower(c2(b)) <=> x[b + 1] = y[b + 1]
    BY <1>4, <1>8
  <2>4. QED BY <1>10, <1>13, <2>2, <2>3 DEF res, x, y
<1>14. QED BY <1>11, <1>12, <1>13

\* memcmp orders the bytes as unsigned ones.
LEMMA MemcmpOrders ==
  ASSUME NEW m \in Mems, NEW s \in Nat \ {0}, NEW t \in Nat \ {0}, NEW n \in Nat,
         s + n - 1 <= Len(m), t + n - 1 <= Len(m)
  PROVE  Sign(memcmp(m, s, t, n)) =
           OrderOf([q \in 1..n |-> Unsigned(m[s + q - 1])], [q \in 1..n |-> Unsigned(m[t + q - 1])])
<1> DEFINE v == [q \in 1..n |-> Unsigned(m[s + q - 1])]
           w == [q \in 1..n |-> Unsigned(m[t + q - 1])]
           res == memcmp(m, s, t, n)
<1>1. PICK k \in 0..n : Decides(res, m, s, t, n, k)
  BY MemcmpIs
<1> HIDE DEF res
<1>2. \A q \in 1..n : m[s + q - 1] \in Bytes /\ m[t + q - 1] \in Bytes
  <2>1. \A q \in 1..n : s + q - 1 \in 1..Len(m) /\ t + q - 1 \in 1..Len(m)
    BY MemIs
  <2>2. QED BY <2>1, MemIs
<1>3. \A q \in 1..n : Unsigned(m[s + q - 1]) \in Int /\ Unsigned(m[t + q - 1]) \in Int
  BY <1>2, UnsignedApart
<1>4. v \in Seq(Int) /\ w \in Seq(Int) /\ Len(v) = n /\ Len(w) = n
  <2>1. v \in [1..n -> Int] /\ w \in [1..n -> Int]
    BY <1>3
  <2> HIDE DEF v, w
  <2>2. QED BY <2>1
<1>5. \A j \in 1..n : v[j] = Unsigned(m[s + j - 1]) /\ w[j] = Unsigned(m[t + j - 1])
  OBVIOUS
<1> HIDE DEF v, w
<1>6. \A j \in 1..k : v[j] = w[j]
  <2>1. \A j \in 1..k : j - 1 \in 0..k - 1 /\ s + (j - 1) = s + j - 1 /\ t + (j - 1) = t + j - 1 /\ j \in 1..n
    OBVIOUS
  <2>2. \A j \in 0..k - 1 : m[s + j] = m[t + j]
    BY <1>1 DEF Decides
  <2>3. \A j \in 1..k : m[s + j - 1] = m[t + j - 1]
    <3> TAKE j \in 1..k
    <3>1. m[s + (j - 1)] = m[t + (j - 1)]
      BY <2>1, <2>2
    <3>2. QED BY <2>1, <3>1
  <2>4. QED BY <1>5, <2>1, <2>3
<1>7. CASE k = n
  <2>1. Part(v, w, k)
    BY <1>4, <1>6, <1>7 DEF Part
  <2>2. InOrder(v, w, k)
    BY <2>1, OrderIs
  <2>3. OrderOf(v, w) = 0 /\ res = 0
    BY <1>1, <1>4, <1>7, <2>2 DEF InOrder, Decides
  <2>4. QED BY <2>3, SignIs DEF v, w, res, Sign
<1>8. CASE k < n
  <2>1. k + 1 \in 1..n /\ s + (k + 1) - 1 = s + k /\ t + (k + 1) - 1 = t + k
    BY <1>8
  <2>2. v[k + 1] = Unsigned(m[s + k]) /\ w[k + 1] = Unsigned(m[t + k])
    BY <1>5, <2>1
  <2>3. res = Unsigned(m[s + k]) - Unsigned(m[t + k]) /\ m[s + k] # m[t + k]
    BY <1>1, <1>8 DEF Decides
  <2>4. m[s + k] \in Bytes /\ m[t + k] \in Bytes
    BY <1>2, <2>1
  <2>5. v[k + 1] # w[k + 1]
    BY <2>2, <2>3, <2>4, UnsignedApart
  <2>6. Part(v, w, k)
    BY <1>4, <1>6, <1>8, <2>5 DEF Part
  <2>7. InOrder(v, w, k)
    BY <2>6, OrderIs
  <2>8. OrderOf(v, w) = Sign(v[k + 1] - w[k + 1])
    BY <1>4, <1>8, <2>7 DEF InOrder
  <2>9. OrderOf(v, w) = Sign(res)
    BY <2>2, <2>3, <2>8
  <2>10. QED BY <2>9 DEF v, w, res
<1>9. QED BY <1>7, <1>8

\* Every comparison is that of its reference definition.
LEMMA EveryComparisonOrders ==
  ASSUME memory \in Mems
  PROVE  ComparisonsOrder
<1>1. Places = 1..Len(memory) /\ Counts \subseteq Nat /\ Len(memory) \in Nat /\ Len(memory) < UINT_MAX
  BY PlacesAre, MemIs, Memories
<1>2. ASSUME NEW s \in Places, NEW t \in Places, IsString(memory, s), IsString(memory, t)
      PROVE  LET x == Append(Text(memory, s), 0)
                 y == Append(Text(memory, t), 0)
                 Agrees(res, v, w) == IF Ascii(v) /\ Ascii(w) THEN Sign(res) = OrderOf(v, w)
                                                              ELSE res = 0 <=> v = w
             IN /\ Agrees(strcmp(memory, s, t), x, y)
                /\ Agrees(strcasecmp(memory, s, t), Lower(x), Lower(y))
                /\ \A n \in Counts :
                     /\ Agrees(strncmp(memory, s, t, n), Upto(x, n), Upto(y, n))
                     /\ strnicmp(memory, s, t, n) = 0 <=> Lower(Upto(x, n)) = Lower(Upto(y, n))
                     /\ LET k == IF n = 0 THEN UINT_MAX ELSE n
                        IN Agrees(strncasecmp(memory, s, t, n), Lower(Upto(x, k)), Lower(Upto(y, k)))
  <2> DEFINE x == Whole(memory, s)
             y == Whole(memory, t)
             h(n) == IF n = 0 THEN UINT_MAX ELSE n
  <2>1. Strings(memory, s, t)
    BY <1>1, <1>2 DEF Strings
  <2>2. x \in Seq(Int) /\ y \in Seq(Int)
    BY <1>1, <1>2, WholeIs DEF EndsInZero
  <2> HIDE DEF x, y
  <2>3. AgreesIn(strcmp(memory, s, t), x, y) /\ AgreesIn(strcasecmp(memory, s, t), Lower(x), Lower(y))
    BY <2>1, StrcmpAgrees, StrcasecmpAgrees DEF x, y
  <2>4. ASSUME NEW n \in Counts
        PROVE  /\ AgreesIn(strncmp(memory, s, t, n), Upto(x, n), Upto(y, n))
               /\ strnicmp(memory, s, t, n) = 0 <=> Lower(Upto(x, n)) = Lower(Upto(y, n))
               /\ AgreesIn(strncasecmp(memory, s, t, n), Lower(Upto(x, h(n))), Lower(Upto(y, h(n))))
    <3>1. n \in Nat /\ n < UINT_MAX /\ h(n) \in Nat
      BY <1>1, Memories DEF Counts
    <3>2. AgreesIn(strncmp(memory, s, t, n), Upto(x, n), Upto(y, n))
      BY <2>1, <3>1, StrncmpAgrees DEF x, y
    <3>3. strnicmp(memory, s, t, n) = 0 <=> Upto(Lower(x), n) = Upto(Lower(y), n)
      BY <2>1, <3>1, StrnicmpAgrees DEF x, y
    <3>4. AgreesIn(strncasecmp(memory, s, t, n), Upto(Lower(x), h(n)), Upto(Lower(y), h(n)))
      BY <2>1, <3>1, StrncasecmpAgrees DEF x, y
    <3> HIDE DEF h
    <3>5. /\ Lower(Upto(x, n)) = Upto(Lower(x), n) /\ Lower(Upto(y, n)) = Upto(Lower(y), n)
          /\ Lower(Upto(x, h(n))) = Upto(Lower(x), h(n)) /\ Lower(Upto(y, h(n))) = Upto(Lower(y), h(n))
      BY <2>2, <3>1, LowerUpto
    <3>6. QED BY <3>2, <3>3, <3>4, <3>5
  <2>5. QED BY <2>3, <2>4, Zenon DEF AgreesIn, x, y, Whole
<1>3. ASSUME NEW s \in Places, NEW t \in Places, NEW n \in Counts,
             s + n - 1 <= Len(memory), t + n - 1 <= Len(memory)
      PROVE  LET Bytewise(q) == [j \in 1..n |-> Unsigned(memory[q + j - 1])]
             IN Sign(memcmp(memory, s, t, n)) = OrderOf(Bytewise(s), Bytewise(t))
  <2>1. s \in Nat \ {0} /\ t \in Nat \ {0} /\ n \in Nat
    BY <1>1
  <2>2. QED BY <1>3, <2>1, MemcmpOrders
<1>4. QED BY <1>2, <1>3, Zenon DEF ComparisonsOrder


-----------------------------------------------------------------------------
(* The copies.                                                             *)

\* The states of a loop of n turns.
Runs(f, n, turn, D) ==
  /\ n \in 0..MemSize /\ DOMAIN turn = D /\ f[n] \notin D
  /\ \A k \in 0..n - 1 : f[k] \in D /\ turn[f[k]] = f[k + 1]

LEMMA RunRule ==
  ASSUME NEW f, NEW n, NEW turn, NEW D, Runs(f, n, turn, D)
  PROVE  Loop(f[0], turn) = f[n]
<1> USE DEF Runs
<1>0. n \in Nat /\ n <= MemSize /\ MemSize \in Nat
  BY Memories
<1> DEFINE I == {f[k] : k \in 0..n}
<1>1. f[0] \in I
  BY <1>0
<1>2. \A y \in I : y \in D => turn[y] \in I
  <2> TAKE y \in I
  <2> HAVE y \in D
  <2>1. PICK k \in 0..n : y = f[k]
    OBVIOUS
  <2>2. k # n
    BY <2>1
  <2>3. k \in 0..n - 1 /\ k + 1 \in 0..n
    BY <1>0, <2>2
  <2>4. QED BY <2>1, <2>3
<1>3. \E g \in [Nat -> I] : States(g, f[0], turn, D)
  <2> HIDE DEF I
  <2>1. QED BY <1>1, <1>2, LoopIs
<1>4. PICK g \in [Nat -> I] : States(g, f[0], turn, D)
  BY <1>3
<1>5. /\ Loop(f[0], turn) = g[MemSize] /\ g[0] = f[0]
      /\ \A k \in Nat : g[k + 1] = IF g[k] \in D THEN turn[g[k]] ELSE g[k]
  BY <1>4 DEF States
<1> DEFINE S == {k \in Nat : g[k] = f[IF k <= n THEN k ELSE n]}
<1>6. 0 \in S
  BY <1>0, <1>5
<1>7. ASSUME NEW k \in S PROVE k + 1 \in S
  <2>1. k \in Nat /\ g[k] = f[IF k <= n THEN k ELSE n] /\ g[k + 1] = IF g[k] \in D THEN turn[g[k]] ELSE g[k]
    BY <1>5
  <2>2. CASE k < n
    <3>1. k \in 0..n - 1 /\ g[k] = f[k] /\ k + 1 <= n
      BY <1>0, <2>1, <2>2
    <3>2. g[k + 1] = f[k + 1]
      BY <2>1, <3>1
    <3>3. QED BY <2>1, <3>1, <3>2
  <2>3. CASE ~(k < n)
    <3>0. (IF k <= n THEN k ELSE n) = n
      BY <1>0, <2>1, <2>3
    <3>1. g[k] = f[n] /\ ~(k + 1 <= n)
      BY <1>0, <2>1, <2>3, <3>0
    <3>2. g[k + 1] = f[n]
      BY <2>1, <3>1
    <3>3. QED BY <2>1, <3>1, <3>2
  <2>4. QED BY <2>2, <2>3
<1>8. S = Nat
  <2>1. S \in SUBSET Nat
    OBVIOUS
  <2> HIDE DEF S
  <2>2. QED BY <1>6, <1>7, <2>1, Inductive
<1>9. g[MemSize] = f[IF MemSize <= n THEN MemSize ELSE n]
  BY <1>0, <1>8
<1>10. MemSize <= n => MemSize = n
  BY <1>0
<1>11. QED BY <1>5, <1>9, <1>10


\* The memory m with the first k bytes of v from d on.
Wrote(m, d, v, k) == [q \in 1..Len(m) |-> IF q \in d..d + k - 1 THEN v[q - d + 1] ELSE m[q]]

\* The bytes of v have room in m.
FitsAt(m, d, v, n) == m \in Mems /\ d \in Nat \ {0} /\ v \in Seq(Bytes) /\ Len(v) = n /\ n \in Nat /\ d + n - 1 <= Len(m)

LEMMA WroteIs ==
  ASSUME NEW m, NEW d, NEW v, NEW n, FitsAt(m, d, v, n), NEW k \in 0..n
  PROVE  /\ Wrote(m, d, v, k) \in Seq(Bytes) /\ Len(Wrote(m, d, v, k)) = Len(m)
         /\ Wrote(m, d, v, k) \in Mems /\ Wrote(m, d, v, k) \in Seq(Int)
         /\ \A q \in 1..Len(m) : Wrote(m, d, v, k)[q] = IF q \in d..d + k - 1 THEN v[q - d + 1] ELSE m[q]
<1> USE DEF FitsAt
<1> DEFINE w == Wrote(m, d, v, k)
<1>1. Len(m) \in Nat /\ Len(m) <= MemSize /\ \A q \in 1..Len(m) : m[q] \in Bytes
  BY MemIs
<1>2. \A q \in d..d + k - 1 : q - d + 1 \in 1..Len(v)
  OBVIOUS
<1>3. \A q \in d..d + k - 1 : v[q - d + 1] \in Bytes
  BY <1>2, ElementOfSeq
<1>4. w \in [1..Len(m) -> Bytes] /\ \A q \in 1..Len(m) : w[q] = IF q \in d..d + k - 1 THEN v[q - d + 1] ELSE m[q]
  BY <1>1, <1>3 DEF Wrote
<1> HIDE DEF w
<1>5. w \in Seq(Bytes) /\ Len(w) = Len(m)
  BY <1>1, <1>4
<1>6. w \in Seq(Int)
  BY <1>5, Memories, SeqMonotonic
<1>7. w \in Mems
  BY <1>1, <1>5 DEF Mems
<1>8. QED BY <1>4, <1>5, <1>6, <1>7 DEF w

WroteAt(w, m, d, v, k) == \A q \in 1..Len(m) : w[q] = IF q \in d..d + k - 1 THEN v[q - d + 1] ELSE m[q]

LEMMA WroteReads ==
  ASSUME NEW m, NEW d, NEW v, NEW n, FitsAt(m, d, v, n), NEW k \in 0..n
  PROVE  WroteAt(Wrote(m, d, v, k), m, d, v, k)
BY WroteIs DEF WroteAt

\* One more byte.
GrowsBy(m, d, v, k) == [Wrote(m, d, v, k) EXCEPT ![d + k] = v[k + 1]] = Wrote(m, d, v, k + 1)

LEMMA WroteNext ==
  ASSUME NEW m, NEW d, NEW v, NEW n, FitsAt(m, d, v, n), NEW k \in 0..n - 1
  PROVE  GrowsBy(m, d, v, k)
<1> USE DEF FitsAt, GrowsBy
<1>1. Len(m) \in Nat /\ d + k \in 1..Len(m) /\ d + k \in Nat /\ (d + k) - d + 1 = k + 1 /\ d + (k + 1) - 1 = d + k
  BY MemIs
<1> DEFINE w == Wrote(m, d, v, k)
           u == Wrote(m, d, v, k + 1)
           y == [w EXCEPT ![d + k] = v[k + 1]]
<1>2. DOMAIN w = 1..Len(m) /\ \A q \in 1..Len(m) : w[q] = IF q \in d..d + k - 1 THEN v[q - d + 1] ELSE m[q]
  BY DEF Wrote
<1>3. \A q \in 1..Len(m) : u[q] = IF q \in d..d + (k + 1) - 1 THEN v[q - d + 1] ELSE m[q]
  BY DEF Wrote
<1>4. u = [q \in 1..Len(m) |-> u[q]]
  BY DEF Wrote
<1>5. y = [q \in 1..Len(m) |-> IF q = d + k THEN v[k + 1] ELSE w[q]]
  BY <1>2
<1>6. \A q \in 1..Len(m) : u[q] = IF q = d + k THEN v[k + 1] ELSE w[q]
  <2> TAKE q \in 1..Len(m)
  <2>1. q \in d..d + (k + 1) - 1 <=> q = d + k \/ q \in d..d + k - 1
    BY <1>1
  <2>2. q = d + k => q \notin d..d + k - 1 /\ q - d + 1 = k + 1
    BY <1>1
  <2> HIDE DEF w, u
  <2>3. QED BY <1>2, <1>3, <2>1, <2>2
<1> HIDE DEF w, u
<1>7. y = u
  BY <1>4, <1>5, <1>6
<1>8. QED BY <1>7 DEF y, w, u

LEMMA WroteNone ==
  ASSUME NEW m \in Mems, NEW d \in Nat, NEW v
  PROVE  Wrote(m, d, v, 0) = m
<1>1. m = [q \in 1..Len(m) |-> m[q]] /\ \A q \in 1..Len(m) : q \notin d..d + 0 - 1
  BY MemIs
<1>2. QED BY <1>1 DEF Wrote

\* What a copy has done after k turns.
Underway(m, d, v, k) == [mem |-> Wrote(m, d, v, k), turns |-> k]

\* A copy upwards.
Copies(turn, D, m, d, v, n) ==
  /\ FitsAt(m, d, v, n) /\ DOMAIN turn = D /\ Underway(m, d, v, n) \notin D
  /\ \A k \in 0..n - 1 : Underway(m, d, v, k) \in D /\ turn[Underway(m, d, v, k)] = Copied(Underway(m, d, v, k), d + k, v[k + 1])

LEMMA CopyUp ==
  ASSUME NEW m, NEW d, NEW v, NEW n, NEW turn, NEW D, Copies(turn, D, m, d, v, n)
  PROVE  Loop(Begin(m), turn) = Underway(m, d, v, n)
<1>1. FitsAt(m, d, v, n) /\ DOMAIN turn = D /\ Underway(m, d, v, n) \notin D
  BY DEF Copies
<1>2. n \in Nat /\ n <= MemSize /\ m \in Mems /\ d \in Nat /\ MemSize \in Nat
  BY <1>1, MemIs, Memories DEF FitsAt
<1> DEFINE f == [k \in 0..n |-> Underway(m, d, v, k)]
<1>3. \A k \in 0..n - 1 : f[k] \in D /\ turn[f[k]] = f[k + 1]
  <2> TAKE k \in 0..n - 1
  <2>1. k \in 0..n /\ k + 1 \in 0..n /\ f[k] = Underway(m, d, v, k) /\ f[k + 1] = Underway(m, d, v, k + 1)
    BY <1>2
  <2>2. Underway(m, d, v, k) \in D /\ turn[Underway(m, d, v, k)] = Copied(Underway(m, d, v, k), d + k, v[k + 1])
    BY DEF Copies
  <2>3. Copied(Underway(m, d, v, k), d + k, v[k + 1]) = Underway(m, d, v, k + 1)
    <3>1. [Wrote(m, d, v, k) EXCEPT ![d + k] = v[k + 1]] = Wrote(m, d, v, k + 1)
      BY <1>1, WroteNext DEF GrowsBy
    <3>2. QED BY <3>1 DEF Copied, Underway
  <2> HIDE DEF f
  <2>4. QED BY <2>1, <2>2, <2>3
<1>4. f[n] = Underway(m, d, v, n) /\ f[0] = Underway(m, d, v, 0)
  BY <1>2
<1>5. Underway(m, d, v, 0) = Begin(m)
  BY <1>2, WroteNone DEF Underway, Begin
<1> HIDE DEF f
<1>6. Runs(f, n, turn, D)
  BY <1>1, <1>2, <1>3, <1>4 DEF Runs
<1>7. Loop(f[0], turn) = f[n]
  BY <1>6, RunRule
<1>8. QED BY <1>4, <1>5, <1>7

LEMMA UnderwayIs ==
  ASSUME NEW m, NEW d, NEW v, NEW n, FitsAt(m, d, v, n), NEW k \in 0..n
  PROVE  Underway(m, d, v, k) \in Copying /\ Underway(m, d, v, k).turns = k /\ Underway(m, d, v, k).mem = Wrote(m, d, v, k)
<1>1. Wrote(m, d, v, k) \in Seq(Int)
  BY WroteIs
<1>2. k \in Nat
  BY DEF FitsAt
<1> DEFINE w == Wrote(m, d, v, k)
<1>3. Underway(m, d, v, k) = [mem |-> w, turns |-> k]
  BY DEF Underway
<1> HIDE DEF w
<1>4. [mem |-> w, turns |-> k] \in [mem : Seq(Int), turns : Nat]
  BY <1>1, <1>2 DEF w
<1>5. QED BY <1>3, <1>4 DEF Copying, w

LEMMA MemsetIs ==
  ASSUME NEW m \in Mems, NEW d \in Nat \ {0}, NEW c \in Bytes, NEW n \in Nat, d + n - 1 <= Len(m)
  PROVE  memset(m, d, c, n) = Wrote(m, d, Filled(c, n), n)
<1> DEFINE v == Filled(c, n)
           D == {y \in Copying : y.turns < n}
           turn == [x \in D |-> Copied(x, d + x.turns, Signed(c))]
<1>1. v \in Seq(Bytes) /\ Len(v) = n /\ \A k \in 1..n : v[k] = c
  BY DEF Filled
<1> HIDE DEF v
<1>2. FitsAt(m, d, v, n)
  BY <1>1 DEF FitsAt
<1>3. ASSUME NEW k \in 0..n PROVE Underway(m, d, v, k) \in Copying /\ Underway(m, d, v, k).turns = k
  BY <1>2, UnderwayIs
<1>4. Underway(m, d, v, n) \notin D
  <2>1. n \in 0..n
    OBVIOUS
  <2>2. QED BY <1>3, <2>1
<1>5. ASSUME NEW k \in 0..n - 1
      PROVE  Underway(m, d, v, k) \in D /\ turn[Underway(m, d, v, k)] = Copied(Underway(m, d, v, k), d + k, v[k + 1])
  <2> DEFINE y == Underway(m, d, v, k)
  <2>1. k \in 0..n /\ k < n /\ k + 1 \in 1..n
    OBVIOUS
  <2>2. y \in Copying /\ y.turns = k /\ v[k + 1] = c /\ Signed(c) = c
    BY <1>1, <1>3, <2>1, SignedIs
  <2> HIDE DEF y
  <2>3. y \in D
    BY <2>1, <2>2
  <2> HIDE DEF D
  <2>4. turn[y] = Copied(y, d + y.turns, Signed(c))
    BY <2>3
  <2>5. QED BY <2>2, <2>3, <2>4 DEF y
<1>6. DOMAIN turn = D
  OBVIOUS
<1>7. memset(m, d, c, n) = Loop(Begin(m), turn).mem
  BY DEF memset
<1> HIDE DEF turn, D
<1>8. Copies(turn, D, m, d, v, n)
  BY <1>2, <1>4, <1>5, <1>6 DEF Copies
<1>9. Loop(Begin(m), turn) = Underway(m, d, v, n)
  BY <1>8, CopyUp
<1>10. memset(m, d, c, n) = Wrote(m, d, v, n)
  BY <1>7, <1>9 DEF Underway
<1>11. QED BY <1>10 DEF v


\* The bytes of an area.
LEMMA SliceIs ==
  ASSUME NEW m \in Mems, NEW s \in Nat \ {0}, NEW n \in Nat, s + n - 1 <= Len(m)
  PROVE  LET v == SubSeq(m, s, s + n - 1)
         IN v \in Seq(Bytes) /\ Len(v) = n /\ \A k \in 0..n - 1 : v[k + 1] = m[s + k]
<1> DEFINE v == SubSeq(m, s, s + n - 1)
<1>1. s \in Int /\ s + n - 1 \in Int /\ \A q \in s..s + n - 1 : q \in 1..Len(m)
  BY MemIs
<1>2. \A q \in s..s + n - 1 : m[q] \in Bytes
  BY <1>1, MemIs
<1>3. /\ v \in Seq(Bytes) /\ Len(v) = (IF s <= s + n - 1 THEN (s + n - 1) - s + 1 ELSE 0)
      /\ \A k \in 1..(s + n - 1) - s + 1 : v[k] = m[s + k - 1]
  BY <1>1, <1>2, SubSeqProperties
<1> HIDE DEF v
<1>4. Len(v) = n /\ (s + n - 1) - s + 1 = n
  BY <1>3
<1>5. \A k \in 0..n - 1 : k + 1 \in 1..n /\ s + (k + 1) - 1 = s + k
  OBVIOUS
<1>6. \A k \in 0..n - 1 : v[k + 1] = m[s + k]
  BY <1>3, <1>4, <1>5
<1>7. QED BY <1>3, <1>4, <1>6 DEF v

LEMMA Unwritten ==
  ASSUME NEW m \in Mems, NEW d \in Nat \ {0}, NEW v, NEW n \in Nat, FitsAt(m, d, v, n), NEW k \in 0..n, NEW q \in 1..Len(m), q \notin d..d + k - 1
  PROVE  Wrote(m, d, v, k)[q] = m[q]
BY WroteIs

\* Two areas without a common byte.
Asunder(d, s, n) == (d..d + n - 1) \cap (s..s + n - 1) = {}

LEMMA MemcpyIs ==
  ASSUME NEW m \in Mems, NEW d \in Nat \ {0}, NEW s \in Nat \ {0}, NEW n \in Nat,
         d + n - 1 <= Len(m), s + n - 1 <= Len(m), d <= s \/ Asunder(d, s, n)
  PROVE  memcpy(m, d, s, n) = Wrote(m, d, SubSeq(m, s, s + n - 1), n)
<1> DEFINE v == SubSeq(m, s, s + n - 1)
           D == {y \in Copying : y.turns < n}
           turn == [x \in D |-> Copied(x, d + x.turns, x.mem[s + x.turns])]
<1>1. v \in Seq(Bytes) /\ Len(v) = n /\ \A k \in 0..n - 1 : v[k + 1] = m[s + k]
  BY SliceIs
<1> HIDE DEF v
<1>2. FitsAt(m, d, v, n)
  BY <1>1 DEF FitsAt
<1>3. ASSUME NEW k \in 0..n
      PROVE  Underway(m, d, v, k) \in Copying /\ Underway(m, d, v, k).turns = k
             /\ Underway(m, d, v, k).mem = Wrote(m, d, v, k)
  BY <1>2, UnderwayIs
<1>4. Underway(m, d, v, n) \notin D
  <2>1. n \in 0..n
    OBVIOUS
  <2>2. QED BY <1>3, <2>1
<1>5. ASSUME NEW k \in 0..n - 1
      PROVE  Underway(m, d, v, k) \in D /\ turn[Underway(m, d, v, k)] = Copied(Underway(m, d, v, k), d + k, v[k + 1])
  <2> DEFINE y == Underway(m, d, v, k)
  <2>1. k \in 0..n /\ k < n
    OBVIOUS
  <2>2. y \in Copying /\ y.turns = k /\ y.mem = Wrote(m, d, v, k)
    BY <1>3, <2>1
  <2>3. s + k \in 1..Len(m) /\ s + k \notin d..d + k - 1
    <3>1. s + k \in 1..Len(m)
      BY MemIs
    <3>2. d <= s => s + k \notin d..d + k - 1
      OBVIOUS
    <3>3. Asunder(d, s, n) => s + k \notin d..d + k - 1
      <4>1. s + k \in s..s + n - 1 /\ \A q \in d..d + k - 1 : q \in d..d + n - 1
        OBVIOUS
      <4>2. QED BY <4>1 DEF Asunder
    <3>4. QED BY <3>1, <3>2, <3>3
  <2>4. y.mem[s + k] = v[k + 1]
    BY <1>1, <1>2, <2>1, <2>2, <2>3, Unwritten
  <2> HIDE DEF y
  <2>5. y \in D
    BY <2>1, <2>2
  <2> HIDE DEF D
  <2>6. turn[y] = Copied(y, d + y.turns, y.mem[s + y.turns])
    BY <2>5
  <2>7. QED BY <2>2, <2>4, <2>5, <2>6 DEF y
<1>6. DOMAIN turn = D
  OBVIOUS
<1>7. memcpy(m, d, s, n) = Loop(Begin(m), turn).mem
  BY DEF memcpy
<1> HIDE DEF turn, D
<1>8. Copies(turn, D, m, d, v, n)
  BY <1>2, <1>4, <1>5, <1>6 DEF Copies
<1>9. Loop(Begin(m), turn) = Underway(m, d, v, n)
  BY <1>8, CopyUp
<1>10. memcpy(m, d, s, n) = Wrote(m, d, v, n)
  BY <1>7, <1>9 DEF Underway
<1>11. QED BY <1>10 DEF v

\* The last k bytes of v, from the last on.
Fell(m, d, v, n, k) == [q \in 1..Len(m) |-> IF q \in d + n - k..d + n - 1 THEN v[q - d + 1] ELSE m[q]]

FellAt(w, m, d, v, n, k) == \A q \in 1..Len(m) : w[q] = IF q \in d + n - k..d + n - 1 THEN v[q - d + 1] ELSE m[q]

LEMMA FellIs ==
  ASSUME NEW m \in Mems, NEW d \in Nat \ {0}, NEW v, NEW n \in Nat, FitsAt(m, d, v, n), NEW k \in 0..n
  PROVE  /\ Fell(m, d, v, n, k) \in Seq(Int) /\ [mem |-> Fell(m, d, v, n, k), turns |-> k] \in Copying
         /\ FellAt(Fell(m, d, v, n, k), m, d, v, n, k)
<1> USE DEF FitsAt
<1> DEFINE w == Fell(m, d, v, n, k)
<1>1. Len(m) \in Nat /\ Len(m) <= MemSize /\ \A q \in 1..Len(m) : m[q] \in Bytes
  BY MemIs
<1>2. \A q \in d + n - k..d + n - 1 : q - d + 1 \in 1..Len(v)
  OBVIOUS
<1>3. \A q \in d + n - k..d + n - 1 : v[q - d + 1] \in Bytes
  BY <1>2, ElementOfSeq
<1>4. w \in [1..Len(m) -> Bytes] /\ \A q \in 1..Len(m) : w[q] = IF q \in d + n - k..d + n - 1 THEN v[q - d + 1] ELSE m[q]
  BY <1>1, <1>3 DEF Fell
<1> HIDE DEF w
<1>5. w \in Seq(Bytes) /\ Len(w) = Len(m)
  <2>1. w \in [1..Len(m) -> Bytes]
    BY <1>4
  <2>2. DOMAIN w = 1..Len(m)
    BY <2>1
  <2>3. w \in Seq(Bytes)
    BY <1>1, <2>1
  <2>4. QED BY <1>1, <2>2, <2>3
<1>6. w \in Seq(Int)
  BY <1>5, Memories, SeqMonotonic
<1>7. [mem |-> w, turns |-> k] \in Copying
  BY <1>6 DEF Copying
<1>8. QED BY <1>4, <1>6, <1>7 DEF w, FellAt

LEMMA FellNext ==
  ASSUME NEW m \in Mems, NEW d \in Nat \ {0}, NEW v, NEW n \in Nat, FitsAt(m, d, v, n), NEW k \in 0..n - 1
  PROVE  [Fell(m, d, v, n, k) EXCEPT ![d + n - 1 - k] = v[n - k]] = Fell(m, d, v, n, k + 1)
<1> USE DEF FitsAt
<1> DEFINE b == d + n - 1 - k
<1>1. Len(m) \in Nat /\ b \in 1..Len(m) /\ b \in Nat /\ b - d + 1 = n - k /\ d + n - (k + 1) = b /\ d + n - k = b + 1
  BY MemIs
<1> DEFINE w == Fell(m, d, v, n, k)
           u == Fell(m, d, v, n, k + 1)
           y == [w EXCEPT ![b] = v[n - k]]
<1>2. DOMAIN w = 1..Len(m) /\ \A q \in 1..Len(m) : w[q] = IF q \in d + n - k..d + n - 1 THEN v[q - d + 1] ELSE m[q]
  BY DEF Fell
<1>3. \A q \in 1..Len(m) : u[q] = IF q \in d + n - (k + 1)..d + n - 1 THEN v[q - d + 1] ELSE m[q]
  BY DEF Fell
<1>4. u = [q \in 1..Len(m) |-> u[q]]
  BY DEF Fell
<1>5. y = [q \in 1..Len(m) |-> IF q = b THEN v[n - k] ELSE w[q]]
  BY <1>2
<1>6. \A q \in 1..Len(m) : u[q] = IF q = b THEN v[n - k] ELSE w[q]
  <2> TAKE q \in 1..Len(m)
  <2>1. q \in d + n - (k + 1)..d + n - 1 <=> q = b \/ q \in d + n - k..d + n - 1
    BY <1>1
  <2>2. q = b => q \notin d + n - k..d + n - 1 /\ q - d + 1 = n - k
    BY <1>1
  <2> HIDE DEF w, u, b
  <2>3. QED BY <1>2, <1>3, <2>1, <2>2
<1> HIDE DEF w, u, b
<1>7. y = u
  BY <1>4, <1>5, <1>6
<1>8. QED BY <1>7 DEF y, w, u, b


LEMMA CopyDownIs ==
  ASSUME NEW m \in Mems, NEW d \in Nat \ {0}, NEW s \in Nat \ {0}, NEW n \in Nat,
         d + n - 1 <= Len(m), s + n - 1 <= Len(m), d > s
  PROVE  CopyDown(m, d, s, n) = Wrote(m, d, SubSeq(m, s, s + n - 1), n)
<1> DEFINE v == SubSeq(m, s, s + n - 1)
           D == {y \in Copying : y.turns < n}
           turn == [x \in D |-> Copied(x, d + n - 1 - x.turns, x.mem[s + n - 1 - x.turns])]
           f == [k \in 0..n |-> [mem |-> Fell(m, d, v, n, k), turns |-> k]]
<1>1. v \in Seq(Bytes) /\ Len(v) = n /\ \A k \in 0..n - 1 : v[k + 1] = m[s + k]
  BY SliceIs
<1> HIDE DEF v
<1>2. FitsAt(m, d, v, n) /\ n <= MemSize /\ MemSize \in Nat
  BY <1>1, MemIs, Memories DEF FitsAt
<1>3. ASSUME NEW k \in 0..n
      PROVE  f[k] \in Copying /\ f[k].turns = k /\ f[k].mem = Fell(m, d, v, n, k)
  BY <1>2, FellIs
<1>4. f[n] \notin D
  <2>1. n \in 0..n
    OBVIOUS
  <2> HIDE DEF f
  <2>2. QED BY <1>3, <2>1
<1>5. ASSUME NEW k \in 0..n - 1
      PROVE  f[k] \in D /\ turn[f[k]] = f[k + 1]
  <2> DEFINE y == f[k]
  <2>1. k \in 0..n /\ k < n /\ k + 1 \in 0..n
    OBVIOUS
  <2>2. y \in Copying /\ y.turns = k /\ y.mem = Fell(m, d, v, n, k)
    BY <1>3, <2>1
  <2>3. f[k + 1] = [mem |-> Fell(m, d, v, n, k + 1), turns |-> k + 1]
    BY <2>1
  <2>4. s + n - 1 - k \in 1..Len(m) /\ s + n - 1 - k \notin d + n - k..d + n - 1
    BY MemIs
  <2>5. Fell(m, d, v, n, k)[s + n - 1 - k] = m[s + n - 1 - k]
    <3> HIDE DEF f, y, D, turn
    <3>1. \A q \in 1..Len(m) : Fell(m, d, v, n, k)[q] = IF q \in d + n - k..d + n - 1 THEN v[q - d + 1] ELSE m[q]
      <4>1. FellAt(Fell(m, d, v, n, k), m, d, v, n, k)
        BY <1>2, <2>1, FellIs
      <4>2. QED BY <4>1 DEF FellAt
    <3>2. QED BY <2>4, <3>1
  <2>6. m[s + n - 1 - k] = v[n - k]
    <3>1. n - 1 - k \in 0..n - 1 /\ s + (n - 1 - k) = s + n - 1 - k /\ (n - 1 - k) + 1 = n - k
      OBVIOUS
    <3>2. v[(n - 1 - k) + 1] = m[s + (n - 1 - k)]
      BY <1>1, <3>1
    <3>3. QED BY <3>1, <3>2
  <2> HIDE DEF y, f
  <2>7. y \in D
    BY <2>1, <2>2
  <2> HIDE DEF D
  <2>8. turn[y] = Copied(y, d + n - 1 - y.turns, y.mem[s + n - 1 - y.turns])
    BY <2>7
  <2> HIDE DEF turn
  <2>9. turn[y] = Copied(y, d + n - 1 - k, v[n - k])
    BY <2>2, <2>5, <2>6, <2>8
  <2>10. Copied(y, d + n - 1 - k, v[n - k]) = [mem |-> Fell(m, d, v, n, k + 1), turns |-> k + 1]
    <3>1. [Fell(m, d, v, n, k) EXCEPT ![d + n - 1 - k] = v[n - k]] = Fell(m, d, v, n, k + 1)
      BY <1>2, FellNext
    <3>2. QED BY <2>2, <3>1 DEF Copied
  <2>11. QED BY <2>3, <2>7, <2>9, <2>10 DEF y
<1>6. DOMAIN turn = D
  OBVIOUS
<1>7. CopyDown(m, d, s, n) = Loop(Begin(m), turn).mem
  BY DEF CopyDown
<1>8. f[0] = Begin(m)
  <2>1. f[0] = [mem |-> Fell(m, d, v, n, 0), turns |-> 0]
    OBVIOUS
  <2>2. m = [q \in 1..Len(m) |-> m[q]] /\ \A q \in 1..Len(m) : q \notin d + n - 0..d + n - 1
    BY MemIs
  <2>3. Fell(m, d, v, n, 0) = m
    BY <2>2 DEF Fell
  <2>4. QED BY <2>1, <2>3 DEF Begin
<1>9. Fell(m, d, v, n, n) = Wrote(m, d, v, n)
  <2>1. d + n - n = d
    OBVIOUS
  <2>2. QED BY <2>1 DEF Fell, Wrote
<1>10. f[n].mem = Fell(m, d, v, n, n)
  OBVIOUS
<1> HIDE DEF turn, D, f
<1>11. Runs(f, n, turn, D)
  BY <1>2, <1>4, <1>5, <1>6 DEF Runs
<1>12. Loop(f[0], turn) = f[n]
  BY <1>11, RunRule
<1>13. CopyDown(m, d, s, n) = Wrote(m, d, v, n)
  BY <1>7, <1>8, <1>9, <1>10, <1>12
<1>14. QED BY <1>13 DEF v

LEMMA MemmoveIs ==
  ASSUME NEW m \in Mems, NEW d \in Nat \ {0}, NEW s \in Nat \ {0}, NEW n \in Nat,
         d + n - 1 <= Len(m), s + n - 1 <= Len(m)
  PROVE  memmove(m, d, s, n) = Wrote(m, d, SubSeq(m, s, s + n - 1), n)
<1>1. CASE d <= s
  BY <1>1, MemcpyIs DEF memmove
<1>2. CASE ~(d <= s)
  <2>1. d > s
    BY <1>2
  <2>2. QED BY <1>2, <2>1, CopyDownIs DEF memmove
<1>3. QED BY <1>1, <1>2

\* count bytes from d on, apart from the string at s.
RoomIs(m, d, n, s) == d + n - 1 <= Len(m) /\ \A q \in s..End(m, s) : q \notin d..d + n - 1

LEMMA RoomMeans ==
  ASSUME NEW m \in Mems, NEW d \in Nat \ {0}, NEW n \in Nat, NEW s \in Nat \ {0}, Room(m, d, n, s)
  PROVE  RoomIs(m, d, n, s)
BY DEF Room, RoomIs

\* A copy of a string reads what is in it.
LEMMA StillThere ==
  ASSUME NEW m \in Mems, NEW s \in 1..Len(m), IsString(m, s), NEW d \in Nat \ {0}, NEW h \in Nat, RoomIs(m, d, h, s),
         NEW v, NEW n \in 0..h, FitsAt(m, d, v, n), NEW k \in 0..n, NEW j \in 0..End(m, s) - s
  PROVE  Wrote(m, d, v, k)[s + j] = m[s + j]
<1> DEFINE e == End(m, s)
<1>1. e \in s..Len(m) /\ s \in Nat
  BY EndIs, MemIs
<1>2. \A q \in s..e : q \notin d..d + h - 1
  BY DEF RoomIs
<1> HIDE DEF e
<1>3. s + j \in s..e
  BY <1>1 DEF e
<1>4. \A q \in d..d + k - 1 : q \in d..d + h - 1
  OBVIOUS
<1>5. s + j \in 1..Len(m) /\ s + j \notin d..d + k - 1
  <2>1. s + j \in 1..Len(m)
    BY <1>1, <1>3, MemIs
  <2>2. s + j \notin d..d + k - 1
    BY <1>2, <1>3, <1>4
  <2>3. QED BY <2>1, <2>2
<1>6. QED BY <1>5, Unwritten

LEMMA StrcpyIs ==
  ASSUME NEW m \in Mems, NEW s \in 1..Len(m), IsString(m, s), NEW d \in Nat \ {0},
         RoomIs(m, d, End(m, s) - s + 1, s)
  PROVE  strcpy(m, d, s) = Wrote(m, d, Whole(m, s), End(m, s) - s + 1)
<1> DEFINE v == Whole(m, s)
           n == End(m, s) - s + 1
           D == {y \in Copying : GoesOn(y, d)}
           turn == [x \in D |-> Copied(x, d + x.turns, x.mem[s + x.turns])]
<1>1. v \in Seq(Bytes) /\ v[n] = 0 /\ Len(v) = n /\ n \in Nat \ {0} /\ d + n - 1 <= Len(m)
  <2>1. EndsInZero(v) /\ v \in Seq(Bytes)
    BY WholeIs
  <2>2. Len(v) = n
    <3>1. Text(m, s) \in Seq(Bytes) /\ Len(Text(m, s)) = End(m, s) - s
      BY TextOf
    <3>2. QED BY <3>1, Memories DEF Whole
  <2>3. n \in Nat \ {0}
    BY EndIs, MemIs
  <2>4. QED BY <2>1, <2>2, <2>3 DEF EndsInZero, RoomIs
<1>2. \A k \in 0..n - 1 : v[k + 1] = m[s + k]
  BY <1>1, WholeIs
<1>3. \A k \in 1..n - 1 : v[k] # 0
  BY <1>1, WholeIs DEF EndsInZero
<1>4. FitsAt(m, d, v, n)
  BY <1>1 DEF FitsAt
<1>5. ASSUME NEW k \in 0..n, NEW j \in 0..n - 1
      PROVE  Wrote(m, d, v, k)[s + j] = m[s + j]
  <2>0. End(m, s) \in Nat /\ s \in Nat /\ End(m, s) >= s
    BY EndIs, MemIs
  <2>1. n \in 0..n /\ n \in Nat /\ RoomIs(m, d, n, s) /\ j \in 0..End(m, s) - s
    BY <2>0
  <2> HIDE DEF n, v
  <2>2. QED BY <1>4, <2>1, StillThere
<1> HIDE DEF v, n
<1>6. ASSUME NEW k \in 0..n
      PROVE  Underway(m, d, v, k) \in Copying /\ Underway(m, d, v, k).turns = k
             /\ Underway(m, d, v, k).mem = Wrote(m, d, v, k)
             /\ (k # 0 => Wrote(m, d, v, k)[d + k - 1] = v[k])
  <2>1. k # 0 => Wrote(m, d, v, k)[d + k - 1] = v[k]
    <3>1. SUFFICES ASSUME k # 0 PROVE Wrote(m, d, v, k)[d + k - 1] = v[k]
      OBVIOUS
    <3>2. d + k - 1 \in 1..Len(m) /\ d + k - 1 \in d..d + k - 1 /\ (d + k - 1) - d + 1 = k
      BY <1>1, <3>1, MemIs
    <3>3. WroteAt(Wrote(m, d, v, k), m, d, v, k)
      BY <1>4, WroteReads
    <3>4. QED BY <3>2, <3>3 DEF WroteAt
  <2>2. QED BY <1>4, <2>1, UnderwayIs
<1>7. Underway(m, d, v, n) \notin D
  <2>1. n \in 0..n /\ n # 0
    BY <1>1
  <2>2. /\ Underway(m, d, v, n).turns = n /\ Underway(m, d, v, n).mem = Wrote(m, d, v, n)
        /\ Wrote(m, d, v, n)[d + n - 1] = 0
    BY <1>1, <1>6, <2>1
  <2>3. ~GoesOn(Underway(m, d, v, n), d)
    BY <1>1, <2>2 DEF GoesOn
  <2>4. QED BY <2>3
<1>8. ASSUME NEW k \in 0..n - 1
      PROVE  Underway(m, d, v, k) \in D /\ turn[Underway(m, d, v, k)] = Copied(Underway(m, d, v, k), d + k, v[k + 1])
  <2> DEFINE y == Underway(m, d, v, k)
  <2>1. k \in 0..n /\ k \in Nat
    BY <1>1
  <2>2. y \in Copying /\ y.turns = k /\ y.mem = Wrote(m, d, v, k) /\ (k # 0 => Wrote(m, d, v, k)[d + k - 1] = v[k])
    BY <1>6, <2>1
  <2>3. y.mem[s + k] = v[k + 1]
    BY <1>2, <1>5, <2>1, <2>2
  <2> HIDE DEF y
  <2>4. GoesOn(y, d)
    <3>1. k # 0 => k \in 1..n - 1
      BY <1>1
    <3>2. k # 0 => y.mem[d + k - 1] # 0
      BY <1>3, <2>2, <3>1
    <3>3. QED BY <2>2, <3>2 DEF GoesOn
  <2>5. y \in D
    BY <2>2, <2>4
  <2> HIDE DEF D
  <2>6. turn[y] = Copied(y, d + y.turns, y.mem[s + y.turns])
    BY <2>5
  <2>7. QED BY <2>2, <2>3, <2>5, <2>6 DEF y
<1>9. DOMAIN turn = D
  OBVIOUS
<1>10. strcpy(m, d, s) = Loop(Begin(m), turn).mem
  BY DEF strcpy
<1> HIDE DEF turn, D
<1>11. Copies(turn, D, m, d, v, n)
  BY <1>4, <1>7, <1>8, <1>9 DEF Copies
<1>12. Loop(Begin(m), turn) = Underway(m, d, v, n)
  BY <1>11, CopyUp
<1>13. strcpy(m, d, s) = Wrote(m, d, v, n)
  BY <1>10, <1>12 DEF Underway
<1>14. QED BY <1>13 DEF v, n


LEMMA WroteSame ==
  ASSUME NEW m \in Mems, NEW d \in Nat, NEW v, NEW u, NEW k \in Nat, \A j \in 1..k : v[j] = u[j]
  PROVE  Wrote(m, d, v, k) = Wrote(m, d, u, k)
<1>1. \A q \in 1..Len(m) : q \in d..d + k - 1 => q - d + 1 \in 1..k
  BY MemIs
<1>2. \A q \in 1..Len(m) : q \in d..d + k - 1 => v[q - d + 1] = u[q - d + 1]
  BY <1>1
<1>3. QED BY <1>2 DEF Wrote

\* The byte behind the copy.
GetsOne(m, d, v, c, n) ==
  /\ [Wrote(m, d, v, n) EXCEPT ![d + n] = c] = Wrote(m, d, Append(v, c), n + 1)
  /\ FitsAt(m, d, Append(v, c), n + 1)

LEMMA WroteAppend ==
  ASSUME NEW m \in Mems, NEW d \in Nat \ {0}, NEW v \in Seq(Bytes), NEW c \in Bytes, NEW n \in Nat, Len(v) = n,
         d + n <= Len(m)
  PROVE  GetsOne(m, d, v, c, n)
<1> DEFINE u == Append(v, c)
           h == n + 1
<1>1. u \in Seq(Bytes) /\ Len(u) = n + 1 /\ u[n + 1] = c /\ \A j \in 1..n : v[j] = u[j]
  OBVIOUS
<1> HIDE DEF u
<1>2. h \in Nat /\ n \in 0..h - 1 /\ Len(u) = h /\ d + h - 1 <= Len(m)
  BY <1>1, MemIs
<1> HIDE DEF h
<1>3. FitsAt(m, d, u, h)
  BY <1>1, <1>2 DEF FitsAt
<1>4. [Wrote(m, d, u, n) EXCEPT ![d + n] = u[n + 1]] = Wrote(m, d, u, n + 1)
  <2>1. GrowsBy(m, d, u, n)
    BY <1>2, <1>3, WroteNext
  <2>2. QED BY <2>1 DEF GrowsBy
<1>5. Wrote(m, d, u, n) = Wrote(m, d, v, n)
  BY <1>1, WroteSame
<1>6. QED BY <1>1, <1>3, <1>4, <1>5 DEF u, h, GetsOne

LEMMA UptoBytes ==
  ASSUME NEW x \in Seq(Bytes), NEW n \in Nat
  PROVE  LET b == IF n <= Len(x) THEN n ELSE Len(x)
         IN /\ Upto(x, n) \in Seq(Bytes) /\ Len(Upto(x, n)) = b /\ b \in Nat /\ b <= Len(x) /\ b <= n
            /\ \A k \in 1..b : Upto(x, n)[k] = x[k]
<1> DEFINE b == IF n <= Len(x) THEN n ELSE Len(x)
           y == Upto(x, n)
<1>1. Len(x) \in Nat /\ b \in Nat /\ b <= Len(x) /\ b <= n /\ \A k \in 1..Len(x) : x[k] \in Bytes
  BY ElementOfSeq
<1>2. x \in Seq(Int)
  BY Memories, SeqMonotonic
<1>3. y \in Seq(Int) /\ Len(y) = b /\ \A k \in 1..b : y[k] = x[k]
  BY <1>2, UptoIs
<1> HIDE DEF b, y
<1>4. \A k \in 1..b : y[k] \in Bytes
  BY <1>1, <1>3
<1>5. y \in Seq(Bytes)
  <2>1. y = [k \in 1..b |-> y[k]]
    BY <1>3
  <2>2. [k \in 1..b |-> y[k]] \in [1..b -> Bytes]
    BY <1>4
  <2>3. QED BY <1>1, <2>1, <2>2
<1>6. QED BY <1>1, <1>3, <1>5 DEF b, y

\* The first chars of a string are where it is.
LEMMA CutText ==
  ASSUME NEW m \in Mems, NEW s \in 1..Len(m), IsString(m, s), NEW n \in Nat
  PROVE  LET b == IF n <= End(m, s) - s THEN n ELSE End(m, s) - s
         IN /\ SubSeq(m, s, s + b - 1) = Upto(Text(m, s), n) /\ b \in Nat /\ b <= n
            /\ Upto(Text(m, s), n) \in Seq(Bytes) /\ Len(Upto(Text(m, s), n)) = b
            /\ s + b <= End(m, s)
            /\ \A k \in 1..b : Upto(Text(m, s), n)[k] = Text(m, s)[k]
<1> DEFINE e == End(m, s)
           x == Text(m, s)
           b == IF n <= e - s THEN n ELSE e - s
           y == Upto(x, n)
           w == SubSeq(m, s, s + b - 1)
<1>1. e \in s..Len(m) /\ e \in Nat /\ s \in Nat \ {0}
  BY EndIs, MemIs
<1>2. x \in Seq(Bytes) /\ Len(x) = e - s /\ \A k \in 1..e - s : x[k] = m[s + k - 1]
  BY TextOf
<1> HIDE DEF e, x
<1>3. y \in Seq(Bytes) /\ Len(y) = b /\ \A k \in 1..b : y[k] = x[k]
  BY <1>2, UptoBytes
<1>4. b \in Nat /\ b <= n /\ s + b <= e /\ s + b - 1 <= Len(m)
  BY <1>1, MemIs
<1> HIDE DEF b, y
<1>5. w \in Seq(Bytes) /\ Len(w) = b /\ \A k \in 0..b - 1 : w[k + 1] = m[s + k]
  BY <1>1, <1>4, SliceIs
<1> HIDE DEF w
<1>6. \A k \in 1..b : w[k] = y[k]
  <2> TAKE k \in 1..b
  <2>1. k - 1 \in 0..b - 1 /\ (k - 1) + 1 = k /\ s + (k - 1) = s + k - 1 /\ k \in 1..e - s
    BY <1>1, <1>4
  <2>2. w[(k - 1) + 1] = m[s + (k - 1)]
    BY <1>5, <2>1
  <2>3. QED BY <1>2, <1>3, <2>1, <2>2
<1>7. w = y
  BY <1>3, <1>5, <1>6, SeqEqual
<1>8. QED BY <1>3, <1>4, <1>7 DEF w, y, b, e, x

LEMMA StrlcpyIs ==
  ASSUME NEW m \in Mems, NEW s \in 1..Len(m), IsString(m, s), NEW d \in Nat \ {0}, NEW n \in Nat \ {0},
         RoomIs(m, d, n, s)
  PROVE  LET v == Append(Upto(Text(m, s), n - 1), 0)
         IN strlcpy(m, d, s, n) = Wrote(m, d, v, Len(v)) /\ FitsAt(m, d, v, Len(v))
<1> DEFINE b == IF n - 1 <= End(m, s) - s THEN n - 1 ELSE End(m, s) - s
           y == Upto(Text(m, s), n - 1)
<1>1. n - 1 \in Nat
  OBVIOUS
<1>2. /\ SubSeq(m, s, s + b - 1) = y /\ b \in Nat /\ b <= n - 1
      /\ y \in Seq(Bytes) /\ Len(y) = b /\ s + b <= End(m, s)
  BY <1>1, CutText
<1>3. End(m, s) \in s..Len(m) /\ End(m, s) \in Nat /\ s \in Nat \ {0} /\ Len(m) \in Nat
  BY EndIs, MemIs
<1>4. (IF End(m, s) - s >= n THEN n - 1 ELSE End(m, s) - s) = b
  BY <1>3
<1> HIDE DEF b, y
<1>5. strlcpy(m, d, s, n) = [memcpy(m, d, s, b) EXCEPT ![d + b] = 0]
  BY <1>4, StrlenIs DEF strlcpy
<1>6. d + b - 1 <= Len(m) /\ d + b <= Len(m) /\ s + b - 1 <= Len(m) /\ Asunder(d, s, b)
  <2>1. d + n - 1 <= Len(m) /\ \A q \in s..End(m, s) : q \notin d..d + n - 1
    BY DEF RoomIs
  <2>2. \A q \in s..s + b - 1 : q \in s..End(m, s)
    BY <1>2, <1>3
  <2>3. \A q \in d..d + b - 1 : q \in d..d + n - 1
    BY <1>2
  <2>4. Asunder(d, s, b)
    BY <2>1, <2>2, <2>3 DEF Asunder
  <2>5. QED BY <1>2, <1>3, <2>1, <2>4
<1>7. memcpy(m, d, s, b) = Wrote(m, d, y, b)
  BY <1>2, <1>3, <1>6, MemcpyIs
<1>8. [Wrote(m, d, y, b) EXCEPT ![d + b] = 0] = Wrote(m, d, Append(y, 0), b + 1) /\ FitsAt(m, d, Append(y, 0), b + 1)
  <2>1. GetsOne(m, d, y, 0, b)
    BY <1>2, <1>6, Memories, WroteAppend
  <2>2. QED BY <2>1 DEF GetsOne
<1>9. Len(Append(y, 0)) = b + 1
  BY <1>2
<1>10. QED BY <1>5, <1>7, <1>8, <1>9 DEF y


\* The chars of the string at s and its terminator, as they are copied.
LEMMA WholeHas ==
  ASSUME NEW m \in Mems, NEW s \in 1..Len(m), IsString(m, s)
  PROVE  LET h == End(m, s) - s
             v == Whole(m, s)
         IN /\ h \in Nat /\ v \in Seq(Bytes) /\ Len(v) = h + 1 /\ v[h + 1] = 0
            /\ \A k \in 0..h : v[k + 1] = m[s + k]
            /\ \A k \in 1..h : v[k] # 0 /\ v[k] = Text(m, s)[k]
            /\ Text(m, s) \in Seq(Bytes) /\ Len(Text(m, s)) = h /\ v = Append(Text(m, s), 0)
<1> DEFINE h == End(m, s) - s
           v == Whole(m, s)
           x == Text(m, s)
<1>1. h \in Nat
  BY EndIs, MemIs
<1>2. x \in Seq(Bytes) /\ Len(x) = h
  BY TextOf
<1>3. EndsInZero(v) /\ v \in Seq(Bytes) /\ \A k \in Nat : k < Len(v) => v[k + 1] = m[s + k]
  BY WholeIs
<1>4. v = Append(x, 0)
  BY DEF Whole
<1> HIDE DEF h, v, x
<1>5. Len(v) = h + 1 /\ v[h + 1] = 0 /\ \A k \in 1..h : v[k] = x[k]
  BY <1>1, <1>2, <1>4
<1>6. \A k \in 1..h : v[k] # 0
  <2>1. Len(v) - 1 = h
    BY <1>1, <1>5
  <2>2. \A k \in 1..Len(v) - 1 : v[k] # 0
    BY <1>3 DEF EndsInZero
  <2>3. QED BY <2>1, <2>2
<1>7. \A k \in 0..h : v[k + 1] = m[s + k]
  BY <1>1, <1>3, <1>5
<1>8. QED BY <1>1, <1>2, <1>3, <1>4, <1>5, <1>6, <1>7 DEF h, v, x

LEMMA AppendUpToIs ==
  ASSUME NEW m \in Mems, NEW s \in 1..Len(m), IsString(m, s), NEW d \in Nat \ {0}, NEW n \in Nat \ {0},
         RoomIs(m, d, End(m, s) - s + 1, s)
  PROVE  LET v == Append(Upto(Text(m, s), n), 0)
         IN AppendUpTo(m, d, s, n) = Wrote(m, d, v, Len(v)) /\ FitsAt(m, d, v, Len(v))
<1> DEFINE g == End(m, s) - s
           w == Whole(m, s)
           v == Upto(w, n)
           x == Text(m, s)
           h == IF n <= g THEN n ELSE g + 1
           D == {z \in Copying : z.turns < n /\ GoesOn(z, d)}
           turn == [y \in D |-> Copied(y, d + y.turns, y.mem[s + y.turns])]
<1>1. /\ g \in Nat /\ w \in Seq(Bytes) /\ Len(w) = g + 1 /\ w[g + 1] = 0
      /\ \A k \in 0..g : w[k + 1] = m[s + k]
      /\ \A k \in 1..g : w[k] # 0 /\ w[k] = x[k]
      /\ x \in Seq(Bytes) /\ Len(x) = g /\ w = Append(x, 0)
  BY WholeHas
<1>a. s \in Nat /\ d + (g + 1) - 1 <= Len(m) /\ Len(m) \in Nat
  BY MemIs DEF RoomIs
<1> HIDE DEF w, x
<1>2. v \in Seq(Bytes) /\ Len(v) = h /\ \A k \in 1..h : v[k] = w[k]
  <2>1. h = IF n <= Len(w) THEN n ELSE Len(w)
    BY <1>1
  <2>2. LET b == IF n <= Len(w) THEN n ELSE Len(w)
        IN v \in Seq(Bytes) /\ Len(v) = b /\ \A k \in 1..b : v[k] = w[k]
    BY <1>1, UptoBytes
  <2> HIDE DEF v
  <2>3. QED BY <2>1, <2>2
<1>3. h \in Nat \ {0} /\ h <= n /\ h <= g + 1 /\ d + h - 1 <= Len(m)
  BY <1>1, <1>a
<1>4. FitsAt(m, d, v, h)
  BY <1>2, <1>3 DEF FitsAt
<1>5. ASSUME NEW k \in 0..h, NEW j \in 0..g
      PROVE  Wrote(m, d, v, k)[s + j] = m[s + j]
  <2>1. g + 1 \in Nat /\ h \in 0..g + 1 /\ RoomIs(m, d, g + 1, s) /\ j \in 0..End(m, s) - s
    BY <1>1, <1>3
  <2> HIDE DEF h, v, g
  <2>2. QED BY <1>4, <2>1, StillThere
<1> HIDE DEF v, g, h
<1>6. ASSUME NEW k \in 0..h
      PROVE  Underway(m, d, v, k) \in Copying /\ Underway(m, d, v, k).turns = k
             /\ Underway(m, d, v, k).mem = Wrote(m, d, v, k)
             /\ (GoesOn(Underway(m, d, v, k), d) <=> k <= g)
  <2> DEFINE y == Underway(m, d, v, k)
  <2>1. y \in Copying /\ y.turns = k /\ y.mem = Wrote(m, d, v, k)
    BY <1>4, UnderwayIs
  <2>2. k # 0 => Wrote(m, d, v, k)[d + k - 1] = w[k]
    <3>1. SUFFICES ASSUME k # 0 PROVE Wrote(m, d, v, k)[d + k - 1] = w[k]
      OBVIOUS
    <3>2. d + k - 1 \in 1..Len(m) /\ d + k - 1 \in d..d + k - 1 /\ (d + k - 1) - d + 1 = k /\ k \in 1..h
      BY <1>3, <1>a, <3>1
    <3>3. Wrote(m, d, v, k)[d + k - 1] = v[k]
      <4>1. WroteAt(Wrote(m, d, v, k), m, d, v, k)
        BY <1>4, WroteReads
      <4>2. QED BY <3>2, <4>1 DEF WroteAt
    <3>4. QED BY <1>2, <3>2, <3>3
  <2> HIDE DEF y
  <2>3. GoesOn(y, d) <=> k = 0 \/ w[k] # 0
    BY <2>1, <2>2 DEF GoesOn
  <2>4. k = 0 \/ k \in 1..g \/ k = g + 1
    BY <1>1, <1>3
  <2>5. QED BY <1>1, <2>1, <2>3, <2>4 DEF y
<1>7. Underway(m, d, v, h) \notin D
  <2>1. h \in 0..h
    BY <1>3
  <2>2. Underway(m, d, v, h).turns = h /\ (GoesOn(Underway(m, d, v, h), d) <=> h <= g)
    BY <1>6, <2>1
  <2>3. h < n => ~(h <= g)
    BY <1>1 DEF h
  <2>4. QED BY <2>2, <2>3
<1>8. ASSUME NEW k \in 0..h - 1
      PROVE  Underway(m, d, v, k) \in D /\ turn[Underway(m, d, v, k)] = Copied(Underway(m, d, v, k), d + k, v[k + 1])
  <2> DEFINE y == Underway(m, d, v, k)
  <2>1. k \in 0..h /\ k \in Nat /\ k <= g /\ k < n /\ k \in 0..g /\ k + 1 \in 1..h
    BY <1>1, <1>3
  <2>2. y \in Copying /\ y.turns = k /\ y.mem = Wrote(m, d, v, k) /\ GoesOn(y, d)
    BY <1>6, <2>1
  <2>3. y.mem[s + k] = v[k + 1]
    <3>1. Wrote(m, d, v, k)[s + k] = m[s + k]
      BY <1>5, <2>1
    <3>2. w[k + 1] = m[s + k] /\ v[k + 1] = w[k + 1]
      BY <1>1, <1>2, <2>1
    <3>3. QED BY <2>2, <3>1, <3>2
  <2> HIDE DEF y
  <2>4. y \in D
    BY <2>1, <2>2
  <2> HIDE DEF D
  <2>5. turn[y] = Copied(y, d + y.turns, y.mem[s + y.turns])
    BY <2>4
  <2>6. QED BY <2>2, <2>3, <2>4, <2>5 DEF y
<1>9. DOMAIN turn = D
  OBVIOUS
<1> DEFINE r == Loop(Begin(m), turn)
<1>10. AppendUpTo(m, d, s, n) = IF GoesOn(r, d) THEN [r.mem EXCEPT ![d + n] = 0] ELSE r.mem
  BY DEF AppendUpTo
<1> HIDE DEF turn, D
<1>11. Copies(turn, D, m, d, v, h)
  BY <1>4, <1>7, <1>8, <1>9 DEF Copies
<1>12. r = Underway(m, d, v, h)
  BY <1>11, CopyUp
<1> HIDE DEF r
<1>13. r.mem = Wrote(m, d, v, h) /\ (GoesOn(r, d) <=> h <= g)
  <2>1. h \in 0..h
    BY <1>3
  <2>2. QED BY <1>6, <1>12, <2>1
<1>b. x \in Seq(Int) /\ w \in Seq(Int)
  BY <1>1, Memories, SeqMonotonic
<1>14. CASE n <= g
  <2>1. h = n
    BY <1>14 DEF h
  <2>2. AppendUpTo(m, d, s, n) = [Wrote(m, d, v, n) EXCEPT ![d + n] = 0] /\ Len(v) = n /\ d + n <= Len(m)
    BY <1>1, <1>2, <1>10, <1>13, <1>14, <1>a, <2>1
  <2>3. /\ [Wrote(m, d, v, n) EXCEPT ![d + n] = 0] = Wrote(m, d, Append(v, 0), n + 1)
        /\ FitsAt(m, d, Append(v, 0), n + 1)
    <3>1. GetsOne(m, d, v, 0, n)
      BY <1>2, <2>2, Memories, WroteAppend
    <3>2. QED BY <3>1 DEF GetsOne
  <2>4. Len(Append(v, 0)) = n + 1
    BY <1>2, <2>2
  <2>5. v = Upto(x, n)
    <3> DEFINE u == Upto(x, n)
    <3>1. u \in Seq(Bytes) /\ Len(u) = n /\ \A k \in 1..n : u[k] = x[k]
      BY <1>1, <1>14, UptoBytes
    <3> HIDE DEF u
    <3>2. \A k \in 1..n : v[k] = u[k]
      <4>1. \A k \in 1..n : k \in 1..g
        BY <1>1, <1>14
      <4>2. QED BY <1>1, <1>2, <2>1, <3>1, <4>1
    <3>3. v = u
      BY <1>2, <2>2, <3>1, <3>2, SeqEqual
    <3>4. QED BY <3>3 DEF u
  <2>6. QED BY <2>2, <2>3, <2>4, <2>5 DEF x
<1>15. CASE ~(n <= g)
  <2>1. h = g + 1 /\ ~(h <= g)
    BY <1>1, <1>15 DEF h
  <2>2. v = w
    <3>1. Len(w) <= n /\ n \in Nat
      BY <1>1, <1>15
    <3>2. QED BY <1>b, <3>1, UptoAll DEF v
  <2>3. Upto(x, n) = x
    BY <1>1, <1>15, <1>b, UptoAll
  <2>4. AppendUpTo(m, d, s, n) = Wrote(m, d, w, g + 1) /\ FitsAt(m, d, w, g + 1)
    BY <1>4, <1>10, <1>13, <2>1, <2>2
  <2>5. QED BY <1>1, <2>3, <2>4 DEF x
<1>16. QED BY <1>14, <1>15


LEMMA ZerosBehind ==
  ASSUME NEW x \in Seq(Bytes), NEW n \in Nat
  PROVE  LET v == Upto(x \o Filled(0, n), n)
         IN v \in Seq(Bytes) /\ Len(v) = n /\ \A k \in 1..n : v[k] = IF k <= Len(x) THEN x[k] ELSE 0
<1> DEFINE u == Filled(0, n)
           w == x \o u
           v == Upto(w, n)
<1>1. u \in Seq(Bytes) /\ Len(u) = n /\ \A k \in 1..n : u[k] = 0
  BY Memories DEF Filled
<1> HIDE DEF u
<1>2. w \in Seq(Bytes) /\ Joined(w, x, u)
  BY <1>1, ConcatJoins
<1> HIDE DEF w
<1>3. /\ Len(x) \in Nat /\ Len(w) = Len(x) + n /\ (\A k \in 1..Len(x) : w[k] = x[k])
      /\ \A k \in 1..n : w[Len(x) + k] = 0
  <2>1. /\ Len(x) \in Nat /\ Len(w) = Len(x) + Len(u) /\ (\A k \in 1..Len(x) : w[k] = x[k])
        /\ \A k \in 1..Len(u) : w[Len(x) + k] = u[k]
    BY <1>2 DEF Joined
  <2>2. QED BY <1>1, <2>1
<1>4. n <= Len(w)
  BY <1>3
<1>5. v \in Seq(Bytes) /\ Len(v) = n /\ \A k \in 1..n : v[k] = w[k]
  BY <1>2, <1>4, UptoBytes
<1> HIDE DEF v
<1>6. \A k \in 1..n : v[k] = IF k <= Len(x) THEN x[k] ELSE 0
  <2> TAKE k \in 1..n
  <2>1. CASE k <= Len(x)
    <3>1. k \in 1..Len(x)
      BY <1>3, <2>1
    <3>2. QED BY <1>3, <1>5, <2>1, <3>1
  <2>2. CASE ~(k <= Len(x))
    <3>1. k - Len(x) \in 1..n /\ Len(x) + (k - Len(x)) = k
      BY <1>3, <2>2
    <3>2. w[Len(x) + (k - Len(x))] = 0
      BY <1>3, <3>1
    <3>3. QED BY <1>5, <2>2, <3>1, <3>2
  <2>3. QED BY <2>1, <2>2
<1>7. QED BY <1>5, <1>6 DEF v, w, u

LEMMA StrncpyIs ==
  ASSUME NEW m \in Mems, NEW s \in 1..Len(m), IsString(m, s), NEW d \in Nat \ {0}, NEW n \in Nat,
         RoomIs(m, d, n, s)
  PROVE  LET v == Upto(Text(m, s) \o Filled(0, n), n)
         IN strncpy(m, d, s, n) = Wrote(m, d, v, n) /\ FitsAt(m, d, v, n)
<1> DEFINE g == End(m, s) - s
           w == Whole(m, s)
           x == Text(m, s)
           v == Upto(x \o Filled(0, n), n)
           b(k) == IF k <= g THEN k ELSE g
           D == {y \in Copying \X Nat : y[1].turns < n}
           turn == [y \in D |-> LET c == y[1].mem[y[2]]
                                IN <<Copied(y[1], d + y[1].turns, c), IF c # 0 THEN y[2] + 1 ELSE y[2]>>]
           f == [k \in 0..n |-> <<Underway(m, d, v, k), s + b(k)>>]
<1>1. /\ g \in Nat /\ w[g + 1] = 0 /\ Len(x) = g /\ x \in Seq(Bytes)
      /\ \A k \in 0..g : w[k + 1] = m[s + k]
      /\ \A k \in 1..g : w[k] # 0 /\ w[k] = x[k]
  BY WholeHas
<1>2. s \in Nat \ {0} /\ d + n - 1 <= Len(m) /\ Len(m) \in Nat /\ n <= MemSize /\ MemSize \in Nat
  BY MemIs, Memories DEF RoomIs
<1>3. v \in Seq(Bytes) /\ Len(v) = n /\ \A k \in 1..n : v[k] = IF k <= g THEN x[k] ELSE 0
  BY <1>1, ZerosBehind
<1>4. FitsAt(m, d, v, n)
  BY <1>2, <1>3 DEF FitsAt
<1>5. ASSUME NEW k \in 0..n, NEW j \in 0..g
      PROVE  Wrote(m, d, v, k)[s + j] = m[s + j]
  <2>1. n \in Nat /\ n \in 0..n /\ j \in 0..End(m, s) - s
    OBVIOUS
  <2> HIDE DEF v, g
  <2>2. QED BY <1>4, <2>1, StillThere
<1> HIDE DEF v, g, w, x
<1>6. \A k \in Nat : b(k) \in 0..g /\ b(k) \in Nat
  BY <1>1
<1>7. ASSUME NEW k \in 0..n
      PROVE  f[k] \in Copying \X Nat /\ f[k][1] = Underway(m, d, v, k) /\ f[k][2] = s + b(k)
             /\ f[k][1].turns = k /\ f[k][1].mem = Wrote(m, d, v, k)
  <2>1. /\ Underway(m, d, v, k) \in Copying /\ Underway(m, d, v, k).turns = k
        /\ Underway(m, d, v, k).mem = Wrote(m, d, v, k)
    BY <1>4, UnderwayIs
  <2>2. f[k] = <<Underway(m, d, v, k), s + b(k)>> /\ s + b(k) \in Nat
    BY <1>2, <1>6
  <2> HIDE DEF f, b
  <2>3. QED BY <2>1, <2>2
<1>8. f[n] \notin D
  <2>1. n \in 0..n
    OBVIOUS
  <2> HIDE DEF f
  <2>2. QED BY <1>7, <2>1
<1>9. ASSUME NEW k \in 0..n - 1
      PROVE  f[k] \in D /\ turn[f[k]] = f[k + 1]
  <2> DEFINE y == f[k]
  <2>1. k \in 0..n /\ k \in Nat /\ k < n /\ k + 1 \in 0..n /\ k + 1 \in 1..n
    OBVIOUS
  <2>2. /\ y \in Copying \X Nat /\ y[1] = Underway(m, d, v, k) /\ y[2] = s + b(k)
        /\ y[1].turns = k /\ y[1].mem = Wrote(m, d, v, k)
    BY <1>7, <2>1
  <2>3. f[k + 1] = <<Underway(m, d, v, k + 1), s + b(k + 1)>>
    BY <2>1
  <2> HIDE DEF f
  <2> DEFINE c == y[1].mem[y[2]]
  <2>4. c = w[b(k) + 1]
    <3>1. Wrote(m, d, v, k)[s + b(k)] = m[s + b(k)] /\ w[b(k) + 1] = m[s + b(k)]
      <4> HIDE DEF b
      <4>1. QED BY <1>1, <1>5, <1>6, <2>1
    <3>2. QED BY <2>2, <3>1
  <2>5. c = v[k + 1] /\ (IF c # 0 THEN y[2] + 1 ELSE y[2]) = s + b(k + 1)
    <3> HIDE DEF c, y
    <3>1. CASE k < g
      <4>1. b(k) = k /\ b(k + 1) = k + 1 /\ k + 1 \in 1..g /\ k + 1 <= g
        BY <1>1, <2>1, <3>1
      <4>2. c = x[k + 1] /\ c # 0 /\ v[k + 1] = x[k + 1]
        BY <1>1, <1>3, <2>1, <2>4, <4>1
      <4>3. y[2] + 1 = s + (k + 1)
        BY <1>2, <2>1, <2>2, <4>1
      <4>4. QED BY <4>1, <4>2, <4>3
    <3>2. CASE ~(k < g)
      <4>1. b(k) = g /\ b(k + 1) = g /\ ~(k + 1 <= g)
        BY <1>1, <2>1, <3>2
      <4>2. c = 0 /\ v[k + 1] = 0
        BY <1>1, <1>3, <2>1, <2>4, <4>1
      <4>3. QED BY <2>2, <4>1, <4>2
    <3>3. QED BY <3>1, <3>2
  <2>6. y \in D
    BY <2>1, <2>2
  <2> HIDE DEF D, y, b
  <2>7. turn[y] = <<Copied(y[1], d + y[1].turns, c), IF c # 0 THEN y[2] + 1 ELSE y[2]>>
    BY <2>6
  <2> HIDE DEF turn, c
  <2>8. turn[y] = <<Copied(Underway(m, d, v, k), d + k, v[k + 1]), s + b(k + 1)>>
    BY <2>2, <2>5, <2>7
  <2>9. Copied(Underway(m, d, v, k), d + k, v[k + 1]) = Underway(m, d, v, k + 1)
    <3>1. GrowsBy(m, d, v, k)
      BY <1>4, WroteNext
    <3>2. QED BY <3>1 DEF Copied, Underway, GrowsBy
  <2>10. QED BY <2>3, <2>6, <2>8, <2>9 DEF y
<1>10. DOMAIN turn = D
  OBVIOUS
<1>11. strncpy(m, d, s, n) = Loop(<<Begin(m), s>>, turn)[1].mem
  BY DEF strncpy
<1>12. f[0] = <<Begin(m), s>>
  <2>1. f[0] = <<Underway(m, d, v, 0), s + b(0)>> /\ s + b(0) = s
    BY <1>1, <1>2
  <2>2. Underway(m, d, v, 0) = Begin(m)
    BY WroteNone DEF Underway, Begin
  <2>3. QED BY <2>1, <2>2
<1>13. f[n][1].mem = Wrote(m, d, v, n)
  <2>1. n \in 0..n
    OBVIOUS
  <2> HIDE DEF f
  <2>2. QED BY <1>7, <2>1
<1> HIDE DEF turn, D, f, b
<1>14. Runs(f, n, turn, D)
  BY <1>2, <1>8, <1>9, <1>10 DEF Runs
<1>15. Loop(f[0], turn) = f[n]
  BY <1>14, RunRule
<1>16. strncpy(m, d, s, n) = Wrote(m, d, v, n)
  BY <1>11, <1>12, <1>13, <1>15
<1>17. QED BY <1>4, <1>16 DEF v, x

LEMMA StrlcatIs ==
  ASSUME NEW m \in Mems, NEW s \in 1..Len(m), IsString(m, s), NEW d \in 1..Len(m), IsString(m, d),
         NEW n \in Nat, n > End(m, d) - d, RoomIs(m, d, End(m, d) - d + End(m, s) - s + 1, s)
  PROVE  LET h == n - (End(m, d) - d) - 1
             v == Append(Upto(Text(m, s), h), 0)
         IN h \in Nat /\ strlcat(m, d, s, n) = Wrote(m, End(m, d), v, Len(v)) /\ FitsAt(m, End(m, d), v, Len(v))
<1> DEFINE e == End(m, d)
           g == End(m, s) - s
           h == n - (e - d) - 1
           b == IF h <= g THEN h ELSE g
           y == Upto(Text(m, s), h)
<1>1. e \in d..Len(m) /\ e \in Nat \ {0} /\ d \in Nat \ {0} /\ s \in Nat \ {0} /\ Len(m) \in Nat
  BY EndIs, MemIs
<1>2. End(m, s) \in s..Len(m) /\ g \in Nat /\ s + g = End(m, s)
  BY EndIs, MemIs
<1>3. h \in Nat
  BY <1>1
<1>4. /\ SubSeq(m, s, s + b - 1) = y /\ b \in Nat /\ b <= h
      /\ y \in Seq(Bytes) /\ Len(y) = b /\ s + b <= End(m, s)
  <2> HIDE DEF e, h
  <2>1. QED BY <1>3, CutText
<1>5. strlcat(m, d, s, n) = [memcpy(m, e, s, b) EXCEPT ![e + b] = 0]
  <2>1. strlen(m, d) = e - d /\ strlen(m, s) = g /\ d + (e - d) = e
    BY <1>1, StrlenIs
  <2>2. (IF g >= n - (e - d) THEN (n - (e - d)) - 1 ELSE g) = b
    BY <1>1, <1>2
  <2> HIDE DEF e, g, b
  <2>3. QED BY <2>1, <2>2 DEF strlcat
<1>6. d + (e - d + g + 1) - 1 <= Len(m) /\ \A q \in s..End(m, s) : q \notin d..d + (e - d + g + 1) - 1
  <2>1. End(m, d) - d + End(m, s) - s + 1 = e - d + g + 1
    BY <1>1, <1>2
  <2>2. QED BY <2>1 DEF RoomIs
<1>7. b <= g /\ s + b - 1 <= Len(m)
  <2>1. b <= g
    BY <1>2, <1>3
  <2> HIDE DEF b, g, e
  <2>2. QED BY <1>1, <1>2, <1>4, <2>1
<1> HIDE DEF e, g, h, b, y
<1>8. e + b - 1 <= Len(m) /\ e + b <= Len(m) /\ Asunder(e, s, b)
  <2>1. e + b - 1 <= Len(m) /\ e + b <= Len(m)
    BY <1>1, <1>2, <1>4, <1>6, <1>7
  <2>2. \A q \in s..s + b - 1 : q \in s..End(m, s)
    BY <1>1, <1>2, <1>4
  <2>3. \A q \in e..e + b - 1 : q \in d..d + (e - d + g + 1) - 1
    BY <1>1, <1>2, <1>4, <1>7
  <2>4. Asunder(e, s, b)
    BY <1>6, <2>2, <2>3 DEF Asunder
  <2>5. QED BY <2>1, <2>4
<1>9. memcpy(m, e, s, b) = Wrote(m, e, y, b)
  BY <1>1, <1>4, <1>7, <1>8, MemcpyIs
<1>10. GetsOne(m, e, y, 0, b)
  BY <1>1, <1>4, <1>8, Memories, WroteAppend
<1>11. Len(Append(y, 0)) = b + 1
  BY <1>4
<1>12. strlcat(m, d, s, n) = Wrote(m, e, Append(y, 0), b + 1) /\ FitsAt(m, e, Append(y, 0), b + 1)
  BY <1>5, <1>9, <1>10 DEF GetsOne
<1>13. QED BY <1>3, <1>11, <1>12 DEF y, h, e


\* Written, of the memory itself.
LEMMA WrittenIs ==
  ASSUME memory \in Mems, NEW d, NEW x
  PROVE  Written(memory, d, x) = Wrote(memory, d, x, Len(x))
BY PlacesAre DEF Written, Wrote

\* What is written behind the string at d leaves that string.
LEMMA WrittenBehind ==
  ASSUME NEW m \in Mems, NEW d \in 1..Len(m), IsString(m, d), NEW x \in Seq(Bytes), NEW h \in Nat,
         FitsAt(m, End(m, d), Append(Upto(x, h), 0), Len(Append(Upto(x, h), 0)))
  PROVE  LET y == Text(m, d)
             u == Append(Upto(y \o x, (End(m, d) - d) + h), 0)
             v == Append(Upto(x, h), 0)
         IN Wrote(m, End(m, d), v, Len(v)) = Wrote(m, d, u, Len(u))
<1> DEFINE e == End(m, d)
           g == e - d
           y == Text(m, d)
           z == y \o x
           c == Upto(x, h)
           w == Upto(z, g + h)
           v == Append(c, 0)
           u == Append(w, 0)
           b == IF h <= Len(x) THEN h ELSE Len(x)
<1>1. e \in d..Len(m) /\ e \in Nat /\ d \in Nat \ {0} /\ g \in Nat /\ Len(m) \in Nat /\ e = d + g
  BY EndIs, MemIs
<1>2. y \in Seq(Bytes) /\ Len(y) = g /\ \A k \in 1..g : y[k] = m[d + k - 1]
  BY TextOf
<1> HIDE DEF e, y
<1>3. c \in Seq(Bytes) /\ Len(c) = b /\ (\A k \in 1..b : c[k] = x[k]) /\ b \in Nat /\ b <= h /\ b <= Len(x) /\ Len(x) \in Nat
  BY UptoBytes
<1>4. z \in Seq(Bytes) /\ Joined(z, y, x)
  BY <1>2, ConcatJoins
<1> HIDE DEF z, g
<1>5. /\ Len(z) = g + Len(x) /\ (\A k \in 1..g : z[k] = y[k])
      /\ \A k \in 1..Len(x) : z[g + k] = x[k]
  BY <1>2, <1>4 DEF Joined
<1>6. w \in Seq(Bytes) /\ Len(w) = g + b /\ \A k \in 1..g + b : w[k] = z[k]
  <2>1. (IF g + h <= Len(z) THEN g + h ELSE Len(z)) = g + b /\ g + h \in Nat
    BY <1>1, <1>3, <1>5
  <2>2. LET a == IF g + h <= Len(z) THEN g + h ELSE Len(z)
        IN w \in Seq(Bytes) /\ Len(w) = a /\ \A k \in 1..a : w[k] = z[k]
    BY <1>4, <2>1, UptoBytes
  <2> HIDE DEF w
  <2>3. QED BY <2>1, <2>2
<1> HIDE DEF c, w, b
<1>7. v \in Seq(Bytes) /\ Len(v) = b + 1 /\ v[b + 1] = 0 /\ \A k \in 1..b : v[k] = c[k]
  BY <1>3, Memories
<1>8. u \in Seq(Bytes) /\ Len(u) = g + b + 1 /\ u[g + b + 1] = 0 /\ \A k \in 1..g + b : u[k] = w[k]
  <2>1. u \in Seq(Bytes) /\ Len(u) = Len(w) + 1 /\ u[Len(w) + 1] = 0 /\ \A k \in 1..Len(w) : u[k] = w[k]
    BY <1>6, Memories
  <2> HIDE DEF u
  <2>2. QED BY <1>1, <1>3, <1>6, <2>1
<1> HIDE DEF u, v
<1>9. \A k \in 1..g : u[k] = m[d + k - 1]
  <2> TAKE k \in 1..g
  <2>1. k \in 1..g + b
    BY <1>1, <1>3
  <2>2. QED BY <1>2, <1>5, <1>6, <1>8, <2>1
<1>10. \A k \in 1..b + 1 : u[g + k] = v[k]
  <2> TAKE k \in 1..b + 1
  <2>1. CASE k = b + 1
    <3>1. g + k = g + b + 1
      BY <1>1, <1>3, <2>1
    <3>2. QED BY <1>7, <1>8, <2>1, <3>1
  <2>2. CASE k # b + 1
    <3>1. k \in 1..b /\ g + k \in 1..g + b /\ k \in 1..Len(x)
      BY <1>1, <1>3, <2>2
    <3>2. u[g + k] = z[g + k] /\ v[k] = x[k]
      BY <1>3, <1>6, <1>7, <1>8, <3>1
    <3>3. QED BY <1>5, <3>1, <3>2
  <2>3. QED BY <2>1, <2>2
<1>11. \A q \in 1..Len(m) : (IF q \in e..e + (b + 1) - 1 THEN v[q - e + 1] ELSE m[q])
                             = (IF q \in d..d + (g + b + 1) - 1 THEN u[q - d + 1] ELSE m[q])
  <2> TAKE q \in 1..Len(m)
  <2>1. q \in Nat
    BY <1>1
  <2>2. CASE q \in e..e + (b + 1) - 1
    <3>0. q - e + 1 \in 1..b + 1
      BY <1>1, <1>3, <2>1, <2>2
    <3>4. g + (q - e + 1) = q - d + 1
      BY <1>1, <2>1
    <3>5. q \in d..d + (g + b + 1) - 1
      BY <1>1, <1>3, <2>1, <2>2
    <3>1. q - e + 1 \in 1..b + 1 /\ g + (q - e + 1) = q - d + 1 /\ q \in d..d + (g + b + 1) - 1
      BY <3>0, <3>4, <3>5
    <3>2. u[g + (q - e + 1)] = v[q - e + 1]
      BY <1>10, <3>1
    <3>3. QED BY <2>2, <3>1, <3>2
  <2>3. CASE q \in d..e - 1
    <3>1. q - d + 1 \in 1..g /\ d + (q - d + 1) - 1 = q /\ q \in d..d + (g + b + 1) - 1 /\ q \notin e..e + (b + 1) - 1
      BY <1>1, <1>3, <2>1, <2>3
    <3>2. u[q - d + 1] = m[d + (q - d + 1) - 1]
      BY <1>9, <3>1
    <3>3. QED BY <3>1, <3>2
  <2>4. CASE q \notin e..e + (b + 1) - 1 /\ q \notin d..e - 1
    <3>1. q \notin d..d + (g + b + 1) - 1
      BY <1>1, <1>3, <2>1, <2>4
    <3>2. QED BY <2>4, <3>1
  <2>5. QED BY <2>2, <2>3, <2>4
<1>12. Wrote(m, e, v, b + 1) = Wrote(m, d, u, g + b + 1)
  BY <1>11 DEF Wrote
<1>13. QED BY <1>7, <1>8, <1>12 DEF v, u, w, c, z, y, g, e


\* Room behind the string at d, for the one at s.
LEMMA RoomBehindMeans ==
  ASSUME NEW m \in Mems, NEW d \in 1..Len(m), NEW s \in 1..Len(m), IsString(m, s), RoomBehind(m, d, s)
  PROVE  /\ IsString(m, d) /\ End(m, d) \in Nat \ {0}
         /\ RoomIs(m, d, End(m, d) - d + End(m, s) - s + 1, s)
         /\ RoomIs(m, End(m, d), End(m, s) - s + 1, s)
<1> DEFINE e == End(m, d)
           h == End(m, s)
           n == e - d + h - s + 1
<1>1. IsString(m, d) /\ Room(m, d, n, s)
  BY DEF RoomBehind
<1>2. e \in d..Len(m) /\ e \in Nat /\ h \in s..Len(m) /\ h \in Nat /\ d \in Nat \ {0} /\ s \in Nat \ {0} /\ Len(m) \in Nat
  BY <1>1, EndIs, MemIs
<1> HIDE DEF e
<1>3. d + n - 1 <= Len(m) /\ \A q \in s..h : q \notin d..d + n - 1
  <2>1. n \in Nat
    BY <1>2
  <2> HIDE DEF n
  <2>2. RoomIs(m, d, n, s)
    BY <1>1, <1>2, <2>1, RoomMeans
  <2>3. QED BY <2>2 DEF RoomIs
<1>4. e + (h - s + 1) - 1 <= Len(m)
  BY <1>2, <1>3
<1>5. \A q \in e..e + (h - s + 1) - 1 : q \in d..d + n - 1
  BY <1>2
<1>6. \A q \in s..h : q \notin e..e + (h - s + 1) - 1
  BY <1>3, <1>5
<1> HIDE DEF h, n
<1>7. RoomIs(m, d, n, s)
  BY <1>3 DEF RoomIs, h
<1>8. RoomIs(m, e, h - s + 1, s)
  BY <1>4, <1>6 DEF RoomIs, h
<1>9. QED BY <1>1, <1>2, <1>7, <1>8 DEF e, h, n

\* Every function that copies writes what its reference definition says.
LEMMA EveryCopyWrites ==
  ASSUME memory \in Mems
  PROVE  CopiesWrite
<1>1. Places = 1..Len(memory) /\ Counts \subseteq Nat /\ Len(memory) \in Nat
  BY PlacesAre, MemIs
<1>2. \A d, x : Written(memory, d, x) = Wrote(memory, d, x, Len(x))
  BY WrittenIs
<1>3. ASSUME NEW d \in Places, NEW s \in Places, NEW n \in Counts, IsString(memory, s)
      PROVE  LET x   == Text(memory, s)
                 y   == Text(memory, d)
                 e   == End(memory, d)
             IN /\ Room(memory, d, Len(x) + 1, s) =>
                     strcpy(memory, d, s) = Written(memory, d, Append(x, 0))
                /\ Room(memory, d, n, s) =>
                     /\ strncpy(memory, d, s, n) = Written(memory, d, Upto(x \o Filled(0, n), n))
                     /\ n > 0 => strlcpy(memory, d, s, n) = Written(memory, d, Append(Upto(x, n - 1), 0))
                /\ RoomBehind(memory, d, s) =>
                     /\ strcat(memory, d, s) = Written(memory, e, Append(x, 0))
                     /\ n > 0 => strncat(memory, d, s, n) = Written(memory, e, Append(Upto(x, n), 0))
                     /\ n > Len(y) =>
                          strlcat(memory, d, s, n) = Written(memory, d, Append(Upto(y \o x, n - 1), 0))
  <2> DEFINE x == Text(memory, s)
             y == Text(memory, d)
             e == End(memory, d)
             g == End(memory, s) - s
  <2>1. d \in 1..Len(memory) /\ s \in 1..Len(memory) /\ d \in Nat \ {0} /\ s \in Nat \ {0} /\ n \in Nat
    BY <1>1
  <2>2. /\ g \in Nat /\ Len(x) = g /\ x \in Seq(Bytes)
        /\ Whole(memory, s) = Append(x, 0) /\ Len(Whole(memory, s)) = g + 1
    BY <1>3, <2>1, WholeHas
  <2> HIDE DEF x, y, e, g
  <2>3. ASSUME Room(memory, d, Len(x) + 1, s)
        PROVE  strcpy(memory, d, s) = Written(memory, d, Append(x, 0))
    <3>1. RoomIs(memory, d, g + 1, s)
      BY <2>1, <2>2, <2>3, RoomMeans
    <3>2. strcpy(memory, d, s) = Wrote(memory, d, Whole(memory, s), g + 1)
      BY <1>3, <2>1, <3>1, StrcpyIs DEF g
    <3>3. QED BY <1>2, <2>2, <3>2
  <2>4. ASSUME Room(memory, d, n, s)
        PROVE  /\ strncpy(memory, d, s, n) = Written(memory, d, Upto(x \o Filled(0, n), n))
               /\ n > 0 => strlcpy(memory, d, s, n) = Written(memory, d, Append(Upto(x, n - 1), 0))
    <3>1. RoomIs(memory, d, n, s)
      BY <2>1, <2>4, RoomMeans
    <3>2. strncpy(memory, d, s, n) = Written(memory, d, Upto(x \o Filled(0, n), n))
      <4> DEFINE v == Upto(x \o Filled(0, n), n)
      <4>1. strncpy(memory, d, s, n) = Wrote(memory, d, v, n)
        BY <1>3, <2>1, <3>1, StrncpyIs DEF x
      <4>2. Len(v) = n
        BY <2>1, <2>2, ZerosBehind
      <4> HIDE DEF v
      <4>3. strncpy(memory, d, s, n) = Written(memory, d, v)
        BY <1>2, <4>1, <4>2
      <4>4. QED BY <4>3 DEF v
    <3>3. ASSUME n > 0 PROVE strlcpy(memory, d, s, n) = Written(memory, d, Append(Upto(x, n - 1), 0))
      <4>1. n \in Nat \ {0}
        BY <2>1, <3>3
      <4>2. LET v == Append(Upto(Text(memory, s), n - 1), 0)
            IN strlcpy(memory, d, s, n) = Wrote(memory, d, v, Len(v))
        BY <1>3, <2>1, <3>1, <4>1, StrlcpyIs
      <4>3. QED BY <1>2, <4>2 DEF x
    <3>4. QED BY <3>2, <3>3
  <2>5. ASSUME RoomBehind(memory, d, s)
        PROVE  /\ strcat(memory, d, s) = Written(memory, e, Append(x, 0))
               /\ n > 0 => strncat(memory, d, s, n) = Written(memory, e, Append(Upto(x, n), 0))
               /\ n > Len(y) =>
                    strlcat(memory, d, s, n) = Written(memory, d, Append(Upto(y \o x, n - 1), 0))
    <3>1. /\ IsString(memory, d) /\ e \in Nat \ {0}
          /\ RoomIs(memory, d, End(memory, d) - d + End(memory, s) - s + 1, s)
          /\ RoomIs(memory, e, End(memory, s) - s + 1, s)
      BY <1>3, <2>1, <2>5, RoomBehindMeans DEF e
    <3>2. d + strlen(memory, d) = e /\ Len(y) = e - d /\ e >= d
      <4>1. strlen(memory, d) = e - d
        BY <2>1, <3>1, StrlenIs DEF e
      <4>2. Len(y) = e - d
        BY <2>1, <3>1, TextOf DEF e, y
      <4>3. e \in d..Len(memory)
        BY <2>1, <3>1, EndIs DEF e
      <4>4. QED BY <2>1, <3>1, <4>1, <4>2, <4>3
    <3>3. strcat(memory, d, s) = Written(memory, e, Append(x, 0))
      <4>1. strcat(memory, d, s) = strcpy(memory, e, s)
        BY <3>2 DEF strcat
      <4>2. strcpy(memory, e, s) = Wrote(memory, e, Whole(memory, s), End(memory, s) - s + 1)
        BY <1>3, <2>1, <3>1, StrcpyIs
      <4>3. QED BY <1>2, <2>2, <4>1, <4>2 DEF g
    <3>4. ASSUME n > 0 PROVE strncat(memory, d, s, n) = Written(memory, e, Append(Upto(x, n), 0))
      <4>1. n \in Nat \ {0}
        BY <2>1, <3>4
      <4>2. strncat(memory, d, s, n) = AppendUpTo(memory, e, s, n)
        BY <3>2, <4>1 DEF strncat
      <4>3. LET v == Append(Upto(Text(memory, s), n), 0)
            IN AppendUpTo(memory, e, s, n) = Wrote(memory, e, v, Len(v))
        BY <1>3, <2>1, <3>1, <4>1, AppendUpToIs
      <4>4. QED BY <1>2, <4>2, <4>3 DEF x
    <3>5. ASSUME n > Len(y)
          PROVE  strlcat(memory, d, s, n) = Written(memory, d, Append(Upto(y \o x, n - 1), 0))
      <4> DEFINE h == n - (e - d) - 1
                 v == Append(Upto(x, h), 0)
                 u == Append(Upto(y \o x, (e - d) + h), 0)
      <4>1. h \in Nat /\ strlcat(memory, d, s, n) = Wrote(memory, e, v, Len(v)) /\ FitsAt(memory, e, v, Len(v))
        BY <1>3, <2>1, <3>1, <3>2, <3>5, StrlcatIs DEF e, x
      <4>2. (e - d) + h = n - 1
        BY <2>1, <3>1
      <4> HIDE DEF h
      <4>3. Wrote(memory, e, v, Len(v)) = Wrote(memory, d, u, Len(u))
        BY <2>1, <2>2, <3>1, <4>1, WrittenBehind DEF e, y
      <4>4. strlcat(memory, d, s, n) = Written(memory, d, u)
        BY <1>2, <4>1, <4>3
      <4>5. QED BY <4>2, <4>4
    <3>6. QED BY <3>3, <3>4, <3>5
  <2>6. QED BY <2>3, <2>4, <2>5 DEF x, y, e
<1>4. ASSUME NEW d \in Places, NEW s \in Places, NEW n \in Counts,
             d + n - 1 <= Len(memory), s + n - 1 <= Len(memory)
      PROVE  /\ memmove(memory, d, s, n) = Written(memory, d, SubSeq(memory, s, s + n - 1))
             /\ \A c \in Bytes : memset(memory, d, c, n) = Written(memory, d, Filled(c, n))
  <2>1. d \in Nat \ {0} /\ s \in Nat \ {0} /\ n \in Nat
    BY <1>1
  <2>2. memmove(memory, d, s, n) = Written(memory, d, SubSeq(memory, s, s + n - 1))
    <3> DEFINE v == SubSeq(memory, s, s + n - 1)
    <3>1. Len(v) = n
      BY <1>4, <2>1, SliceIs
    <3>2. memmove(memory, d, s, n) = Wrote(memory, d, v, n)
      BY <1>4, <2>1, MemmoveIs
    <3> HIDE DEF v
    <3>3. memmove(memory, d, s, n) = Written(memory, d, v)
      BY <1>2, <3>1, <3>2
    <3>4. QED BY <3>3 DEF v
  <2>3. ASSUME NEW c \in Bytes PROVE memset(memory, d, c, n) = Written(memory, d, Filled(c, n))
    <3>1. Len(Filled(c, n)) = n
      BY <2>1 DEF Filled
    <3>2. memset(memory, d, c, n) = Wrote(memory, d, Filled(c, n), n)
      BY <1>4, <2>1, MemsetIs
    <3>3. QED BY <1>2, <3>1, <3>2
  <2>4. QED BY <2>2, <2>3
<1>5. QED BY <1>3, <1>4, ZenonT(30) DEF CopiesWrite


-----------------------------------------------------------------------------
(* strstrip, and strsep.                                                   *)

LEMMA EndsAt ==
  ASSUME NEW m \in Mems, NEW s \in 1..Len(m), NEW e \in s..Len(m), m[e] = 0, \A q \in s..e - 1 : m[q] # 0
  PROVE  IsString(m, s) /\ End(m, s) = e
<1> DEFINE S == {q \in s..Len(m) : m[q] = 0}
<1>1. s \in Nat /\ e \in Nat /\ Len(m) \in Nat
  BY MemIs
<1>2. S \in SUBSET Nat /\ e \in S
  BY <1>1
<1>3. \A q \in S : e <= q
  <2>1. \A q \in S : q \in s..Len(m) /\ q \notin s..e - 1
    OBVIOUS
  <2>2. QED BY <1>1, <2>1
<1>4. End(m, s) = Min(S)
  BY DEF End
<1>5. IsString(m, s)
  BY DEF IsString
<1> HIDE DEF S
<1>6. Min(S) = e
  BY <1>2, <1>3, LeastIs
<1>7. QED BY <1>4, <1>5, <1>6

\* w is m but for the char c at b.
PutAt(w, m, b, c) ==
  /\ w \in Mems /\ Len(w) = Len(m) /\ w \in Seq(Bytes) /\ w \in Seq(Int)
  /\ \A q \in 1..Len(m) : w[q] = IF q = b THEN c ELSE m[q]

LEMMA PutIs ==
  ASSUME NEW m \in Mems, NEW b \in 1..Len(m), NEW c \in Bytes
  PROVE  PutAt([m EXCEPT ![b] = c], m, b, c)
<1> DEFINE w == [m EXCEPT ![b] = c]
<1>1. m \in Seq(Bytes) /\ Len(m) \in Nat /\ Len(m) <= MemSize /\ DOMAIN m = 1..Len(m)
  BY MemIs
<1>2. w \in Seq(Bytes) /\ Len(w) = Len(m) /\ \A q \in 1..Len(m) : w[q] = IF q = b THEN c ELSE m[q]
  BY <1>1
<1> HIDE DEF w
<1>3. w \in Mems /\ w \in Seq(Int)
  BY <1>1, <1>2, Memories, SeqMonotonic DEF Mems
<1>4. PutAt(w, m, b, c)
  BY <1>2, <1>3 DEF PutAt
<1>5. QED BY <1>4 DEF w

\* The places where a call has changed the memory.
Changed(w, m) == {q \in 1..Len(m) : w[q] # m[q]}

LEMMA ChangedOne ==
  ASSUME NEW w, NEW m, NEW b, Changed(w, m) \subseteq {b}
  PROVE  Cardinality(Changed(w, m)) <= 1
<1>1. IsFiniteSet({b}) /\ Cardinality({b}) = 1
  BY FS_Singleton
<1>2. Cardinality(Changed(w, m)) <= Cardinality({b}) /\ IsFiniteSet(Changed(w, m))
  BY <1>1, FS_Subset
<1>3. QED BY <1>1, <1>2

\* The chars of the string at s that are no space.
Ink(m, s) == {q \in s..End(m, s) - 1 : ~isspace(m[q])}

\* What strstrip promises.
Stripping(m, s) ==
  LET w == Stripped(m, s)
      f == FirstText(w, s)
  IN /\ Text(w, f) = IF Ink(m, s) = {} THEN <<>> ELSE SubSeq(m, Min(Ink(m, s)), Max(Ink(m, s)))
     /\ Cardinality(Changed(w, m)) <= 1
     /\ w \in Mems /\ Len(w) = Len(m)

\* A string of no chars.
LEMMA EmptyText ==
  ASSUME NEW w \in Mems, NEW s \in 1..Len(w), w[s] = 0
  PROVE  FirstText(w, s) = s /\ Text(w, s) = <<>>
<1>1. s \in Nat /\ s \in s..Len(w) /\ Len(w) \in Nat
  BY MemIs
<1> DEFINE S == {q \in Nat : w[q] # 0 /\ isspace(w[q])}
<1>2. S \in SUBSET Nat /\ s \notin S /\ s <= s /\ s <= s + MemSize
  BY <1>1, Memories
<1>3. \A q \in s..s - 1 : q \in S /\ w[q] # 0
  BY <1>1
<1>4. FirstText(w, s) = Forward(s, S)
  BY DEF FirstText
<1> HIDE DEF S
<1>5. FirstText(w, s) = s
  BY <1>1, <1>2, <1>3, <1>4, ForwardIs
<1>6. IsString(w, s) /\ End(w, s) = s
  BY <1>1, <1>3, EndsAt
<1>7. Text(w, s) = SubSeq(w, s, s - 1)
  BY <1>6 DEF Text
<1>8. SubSeq(w, s, s - 1) = <<>>
  BY <1>1, SubSeqEmpty
<1>9. QED BY <1>5, <1>7, <1>8

LEMMA StripIs ==
  ASSUME NEW m \in Mems, NEW s \in 1..Len(m), IsString(m, s)
  PROVE  Stripping(m, s)
<1> DEFINE e == End(m, s)
           w == Stripped(m, s)
           T == Ink(m, s)
<1>1. e \in s..Len(m) /\ e \in Nat /\ m[e] = 0 /\ \A q \in s..e - 1 : m[q] # 0
  BY EndIs
<1>2. T = {q \in s..e - 1 : ~isspace(m[q])}
  BY DEF Ink
<1>3. strlen(m, s) = e - s
  BY StrlenIs
<1> HIDE DEF e
<1>4. s \in Nat \ {0} /\ Len(m) \in Nat /\ Len(m) <= MemSize /\ MemSize \in Nat
  BY MemIs, Memories
<1>5. CASE e = s
  <2>1. w = m /\ m[s] = 0
    BY <1>1, <1>3, <1>4, <1>5 DEF Stripped
  <2>2. T = {}
    BY <1>2, <1>4, <1>5
  <2>3. FirstText(m, s) = s /\ Text(m, s) = <<>>
    BY <2>1, EmptyText
  <2>4. Changed(w, m) \subseteq {s}
    BY <2>1 DEF Changed
  <2>5. Cardinality(Changed(w, m)) <= 1
    BY <2>4, ChangedOne
  <2>6. QED BY <2>1, <2>2, <2>3, <2>5 DEF Stripping
<1>6. CASE e # s
  <2> DEFINE S == {q \in Nat : q >= s /\ isspace(m[q])}
             b == Backward(e - 1, S)
  <2>1. e - 1 \in Nat /\ s - 1 \in Nat /\ s - 1 <= e - 1 /\ e - 1 <= (s - 1) + MemSize /\ S \in SUBSET Nat /\ s - 1 \notin S
    BY <1>1, <1>4, <1>6
  <2>2. w = [m EXCEPT ![b + 1] = 0]
    <3>1. s + (e - s) - 1 = e - 1 /\ e - s # 0
      BY <1>1, <1>4, <1>6
    <3>2. LastText(m, s, e - 1) = b
      BY DEF LastText
    <3> HIDE DEF b
    <3>3. QED BY <1>3, <3>1, <3>2 DEF Stripped
  <2>3. b \in s - 1..e - 1 /\ (\A q \in b + 1..e - 1 : q \in S) /\ b \notin S
    <3> HIDE DEF S
    <3>1. QED BY <2>1, BackwardStops
  <2> HIDE DEF b, w
  <2>4. b + 1 \in 1..Len(m) /\ b + 1 \in s..e /\ b \in Nat
    BY <1>1, <1>4, <2>1, <2>3
  <2>5. /\ w \in Mems /\ Len(w) = Len(m) /\ w \in Seq(Bytes) /\ w \in Seq(Int)
        /\ \A q \in 1..Len(m) : w[q] = IF q = b + 1 THEN 0 ELSE m[q]
    <3> DEFINE g == b + 1
    <3>1. g \in 1..Len(m)
      BY <2>4
    <3> HIDE DEF g
    <3>2. PutAt([m EXCEPT ![g] = 0], m, g, 0)
      BY <3>1, Memories, PutIs
    <3>3. PutAt(w, m, b + 1, 0)
      BY <2>2, <3>2 DEF g
    <3>4. QED BY <3>3 DEF PutAt
  <2>6. Cardinality(Changed(w, m)) <= 1
    <3>1. Changed(w, m) \subseteq {b + 1}
      BY <2>5 DEF Changed
    <3>2. QED BY <3>1, ChangedOne
  <2>7. \A q \in b + 1..e - 1 : q \notin T
    BY <1>2, <2>3
  <2>8. CASE b = s - 1
    <3>1. w[s] = 0
      BY <1>4, <2>5, <2>8
    <3>2. T = {}
      <4>1. b + 1 = s
        BY <1>4, <2>8
      <4>2. QED BY <1>2, <2>7, <4>1
    <3>3. FirstText(w, s) = s /\ Text(w, s) = <<>>
      BY <2>5, <3>1, EmptyText
    <3>4. QED BY <2>5, <2>6, <3>2, <3>3 DEF Stripping, w, T
  <2>9. CASE b # s - 1
    <3>1. b \in s..e - 1 /\ b \in T /\ ~isspace(m[b])
      <4>1. b \in s..e - 1
        BY <1>1, <1>4, <2>3, <2>4, <2>9
      <4>2. ~isspace(m[b])
        BY <1>4, <2>3, <2>4, <4>1
      <4>3. QED BY <1>2, <4>1, <4>2
    <3> DEFINE F == {q \in Nat : w[q] # 0 /\ isspace(w[q])}
               f == Forward(s, F)
    <3>2. FirstText(w, s) = f
      BY DEF FirstText
    <3>3. \A q \in s..b : q \in 1..Len(m) /\ q # b + 1 /\ q \in s..e - 1 /\ q \in Nat
      BY <1>1, <1>4, <2>4, <3>1
    <3>4. \A q \in s..b : w[q] = m[q] /\ m[q] # 0
      BY <1>1, <2>5, <3>3
    <3>5. b \notin F /\ F \in SUBSET Nat /\ s <= b /\ b <= s + MemSize
      BY <1>1, <1>4, <2>4, <3>1, <3>4
    <3>6. Stops(f, s, b, F)
      <4> HIDE DEF F
      <4>1. QED BY <1>4, <2>4, <3>5, ForwardStops
    <3> HIDE DEF f
    <3>7. f \in s..b /\ f \notin F /\ (\A q \in s..f - 1 : q \in F) /\ f \in Nat
      BY <1>4, <2>4, <3>6 DEF Stops
    <3>8. ~isspace(m[f]) /\ f \in T
      <4>1. ~isspace(m[f])
        BY <3>4, <3>7
      <4>2. QED BY <1>2, <3>3, <3>7, <4>1
    <3>9. \A q \in s..f - 1 : q \notin T
      <4>1. \A q \in s..f - 1 : q \in s..b
        BY <1>4, <2>4, <3>7
      <4>2. QED BY <1>2, <3>4, <3>7, <4>1
    <3>10. T \in SUBSET Nat /\ Min(T) = f /\ Max(T) = b /\ T # {}
      <4>1. T \in SUBSET Nat
        BY <1>1, <1>2, <1>4
      <4>2. \A q \in T : q \in s..e - 1 /\ q \in Nat
        BY <1>2, <4>1
      <4>3. \A q \in T : f <= q
        BY <1>4, <3>7, <3>9, <4>2
      <4>4. \A q \in T : q <= b
        BY <1>1, <2>4, <2>7, <4>2
      <4> HIDE DEF T
      <4>5. QED BY <3>1, <3>8, <4>1, <4>3, <4>4, LeastIs, GreatestIs
    <3>11. End(w, f) = b + 1
      <4>1. f \in 1..Len(w) /\ b + 1 \in f..Len(w) /\ w[b + 1] = 0
        BY <1>4, <2>4, <2>5, <3>7
      <4>2. \A q \in f..(b + 1) - 1 : w[q] # 0
        <5>1. \A q \in f..(b + 1) - 1 : q \in s..b
          BY <1>4, <2>4, <3>7
        <5>2. QED BY <3>4, <5>1
      <4>3. QED BY <2>5, <4>1, <4>2, EndsAt
    <3>12. Text(w, f) = SubSeq(w, f, b)
      <4>1. (b + 1) - 1 = b
        BY <2>4
      <4>2. Text(w, f) = SubSeq(w, f, (b + 1) - 1)
        BY <3>11, Zenon DEF Text
      <4>3. QED BY <4>1, <4>2
    <3>13. SubSeq(w, f, b) = SubSeq(m, f, b)
      <4>1. f \in Int /\ b \in Int /\ \A q \in f..b : q \in s..b
        BY <1>4, <2>4, <3>7
      <4>2. \A q \in f..b : w[q] = m[q] /\ w[q] \in Bytes
        BY <2>5, <3>3, <3>4, <4>1, MemIs
      <4>3. \A q \in 1..b - f + 1 : f + q - 1 \in f..b
        BY <4>1
      <4> DEFINE x == SubSeq(w, f, b)
                 y == SubSeq(m, f, b)
      <4>4. /\ x \in Seq(Bytes) /\ Len(x) = (IF f <= b THEN b - f + 1 ELSE 0)
            /\ \A q \in 1..b - f + 1 : x[q] = w[f + q - 1]
        BY <4>1, <4>2, SubSeqProperties
      <4>5. /\ y \in Seq(Bytes) /\ Len(y) = (IF f <= b THEN b - f + 1 ELSE 0)
            /\ \A q \in 1..b - f + 1 : y[q] = m[f + q - 1]
        BY <4>1, <4>2, SubSeqProperties
      <4> HIDE DEF x, y
      <4>6. \A q \in 1..b - f + 1 : x[q] = y[q]
        BY <4>2, <4>3, <4>4, <4>5
      <4>7. f <= b
        BY <1>4, <2>4, <3>7
      <4>8. x = y
        BY <4>4, <4>5, <4>6, <4>7, SeqEqual
      <4>9. QED BY <4>8 DEF x, y
    <3>14. QED BY <2>5, <2>6, <3>2, <3>10, <3>12, <3>13 DEF Stripping, w, T
  <2>10. QED BY <2>8, <2>9
<1>7. QED BY <1>5, <1>6

LEMMA StripLeaves ==
  ASSUME memory \in Mems
  PROVE  StripLeavesText
<1>1. ASSUME NEW s \in Places, IsString(memory, s)
      PROVE  LET r    == strstrip(memory, s)
                 text == {q \in s..End(memory, s) - 1 : ~isspace(memory[q])}
             IN /\ Text(r.mem, r.ret) = IF text = {} THEN <<>> ELSE SubSeq(memory, Min(text), Max(text))
                /\ Cardinality({q \in Places : r.mem[q] # memory[q]}) <= 1
  <2>1. Stripping(memory, s)
    BY <1>1, PlacesAre, StripIs
  <2> DEFINE w == Stripped(memory, s)
             r == strstrip(memory, s)
  <2>2. r = [mem |-> w, ret |-> FirstText(w, s)]
    BY DEF strstrip
  <2>3. r.mem = w /\ r.ret = FirstText(w, s)
    <3> HIDE DEF w, r
    <3>1. QED BY <2>2
  <2>4. Places = 1..Len(memory)
    BY PlacesAre
  <2>5. /\ Text(w, FirstText(w, s)) =
             IF Ink(memory, s) = {} THEN <<>> ELSE SubSeq(memory, Min(Ink(memory, s)), Max(Ink(memory, s)))
        /\ Cardinality({q \in Places : w[q] # memory[q]}) <= 1
    BY <2>1, <2>4 DEF Stripping, Changed
  <2> HIDE DEF w, r
  <2>6. Ink(memory, s) = {q \in s..End(memory, s) - 1 : ~isspace(memory[q])}
    BY DEF Ink
  <2>7. QED BY <2>3, <2>5, <2>6 DEF r
<1>2. QED BY <1>1, Zenon DEF StripLeavesText


\* The strings at s and t have no byte in common.
Clear(m, s, t) == IsString(m, s) /\ IsString(m, t) /\ s \notin t..End(m, t) /\ t \notin s..End(m, s)

\* The separators that are before j, and the memory where those of Z are zeroed.
HitsBefore(m, s, t, j) == {q \in Hits(m, s, t) : q < j}
HitsFrom(m, s, t, j) == {q \in Hits(m, s, t) : q >= j}
Zeroed(m, Z) == [q \in DOMAIN m |-> IF q \in Z THEN 0 ELSE m[q]]

\* w is m where the bytes at Z are zeroed.
ZeroedAt(w, m, Z) ==
  /\ w \in Mems /\ Len(w) = Len(m) /\ w \in Seq(Bytes) /\ w \in Seq(Int) /\ DOMAIN w = 1..Len(m)
  /\ \A q \in 1..Len(m) : w[q] = IF q \in Z THEN 0 ELSE m[q]

LEMMA ZeroedIs ==
  ASSUME NEW m \in Mems, NEW Z
  PROVE  ZeroedAt(Zeroed(m, Z), m, Z)
<1> DEFINE w == [q \in 1..Len(m) |-> IF q \in Z THEN 0 ELSE m[q]]
<1>1. Len(m) \in Nat /\ Len(m) <= MemSize /\ DOMAIN m = 1..Len(m) /\ \A q \in 1..Len(m) : m[q] \in Bytes
  BY MemIs
<1>2. Zeroed(m, Z) = w
  BY <1>1 DEF Zeroed
<1>3. w \in [1..Len(m) -> Bytes]
  BY <1>1, Memories
<1>4. w \in Seq(Bytes) /\ Len(w) = Len(m) /\ DOMAIN w = 1..Len(m)
  BY <1>1, <1>3
<1>5. \A q \in 1..Len(m) : w[q] = IF q \in Z THEN 0 ELSE m[q]
  OBVIOUS
<1> HIDE DEF w
<1>6. w \in Mems /\ w \in Seq(Int)
  BY <1>1, <1>4, Memories, SeqMonotonic DEF Mems
<1>7. ZeroedAt(w, m, Z)
  BY <1>4, <1>5, <1>6 DEF ZeroedAt
<1>8. QED BY <1>2, <1>7

\* The memory where one separator more is zeroed.
LEMMA ZeroedOne ==
  ASSUME NEW m \in Mems, NEW Z, NEW b \in 1..Len(m)
  PROVE  [Zeroed(m, Z) EXCEPT ![b] = 0] = Zeroed(m, Z \cup {b})
<1>1. DOMAIN m = 1..Len(m)
  BY MemIs
<1>2. QED BY <1>1 DEF Zeroed

\* The string at s, from j on, and the string at t are still there.
LEMMA StillStrings ==
  ASSUME NEW m \in Mems, NEW s \in 1..Len(m), NEW t \in 1..Len(m), Clear(m, s, t), NEW j \in s..End(m, s)
  PROVE  LET w == Zeroed(m, HitsBefore(m, s, t, j))
         IN /\ w \in Mems /\ Len(w) = Len(m) /\ j \in 1..Len(m)
            /\ IsString(w, j) /\ End(w, j) = End(m, s)
            /\ IsString(w, t) /\ ToSet(Text(w, t)) = ToSet(Text(m, t))
            /\ \A q \in j..End(m, s) : w[q] = m[q]
<1> DEFINE Z == HitsBefore(m, s, t, j)
           w == Zeroed(m, Z)
           e == End(m, s)
           g == End(m, t)
<1>1. e \in s..Len(m) /\ e \in Nat /\ m[e] = 0 /\ \A q \in s..e - 1 : m[q] # 0
  BY EndIs DEF Clear
<1>2. g \in t..Len(m) /\ g \in Nat /\ m[g] = 0 /\ \A q \in t..g - 1 : m[q] # 0
  BY EndIs DEF Clear
<1>3. s \notin t..g /\ t \notin s..e
  BY DEF Clear
<1>4. \A q \in Z : q \in s..e - 1 /\ q < j
  BY DEF HitsBefore, Hits
<1>5. ZeroedAt(w, m, Z)
  BY ZeroedIs
<1>6. \A c : c \in ToSet(Text(m, t)) <=> \E q \in t..g - 1 : m[q] = c
  BY TextOf DEF Clear
<1> HIDE DEF Z, w, e, g
<1>7. s \in Nat /\ t \in Nat /\ j \in Nat /\ j \in s..e /\ j \in 1..Len(m) /\ Len(m) \in Nat
  BY <1>1, MemIs DEF e
<1>8. w \in Mems /\ Len(w) = Len(m) /\ \A q \in 1..Len(m) : w[q] = IF q \in Z THEN 0 ELSE m[q]
  BY <1>5 DEF ZeroedAt
<1>9. \A q \in j..e : w[q] = m[q]
  <2>1. \A q \in j..e : q \in 1..Len(m) /\ q \notin Z
    BY <1>1, <1>4, <1>7
  <2>2. QED BY <1>8, <2>1
<1>10. \A q \in t..g : w[q] = m[q]
  <2>1. \A q \in t..g : q \notin s..e
    BY <1>1, <1>2, <1>3, <1>7
  <2>2. \A q \in t..g : q \in 1..Len(m) /\ q \notin Z
    BY <1>1, <1>2, <1>4, <1>7, <2>1
  <2>3. QED BY <1>8, <2>2
<1>11. IsString(w, j) /\ End(w, j) = e
  <2>1. j \in 1..Len(w) /\ e \in j..Len(w) /\ w[e] = 0
    BY <1>1, <1>7, <1>8, <1>9
  <2>2. \A q \in j..e - 1 : q \in s..e - 1 /\ q \in j..e
    BY <1>1, <1>7
  <2>3. \A q \in j..e - 1 : w[q] # 0
    BY <1>1, <1>9, <2>2
  <2>4. QED BY <1>8, <2>1, <2>3, EndsAt
<1>12. IsString(w, t) /\ End(w, t) = g
  <2>1. t \in 1..Len(w) /\ g \in t..Len(w) /\ w[g] = 0
    BY <1>2, <1>7, <1>8, <1>10
  <2>2. \A q \in t..g - 1 : q \in t..g
    BY <1>2, <1>7
  <2>3. \A q \in t..g - 1 : w[q] # 0
    BY <1>2, <1>10, <2>2
  <2>4. QED BY <1>8, <2>1, <2>3, EndsAt
<1>13. ToSet(Text(w, t)) = ToSet(Text(m, t))
  <2>1. t \in 1..Len(w)
    BY <1>8
  <2>2. \A c : c \in ToSet(Text(w, t)) <=> \E q \in t..g - 1 : w[q] = c
    BY <1>8, <1>12, <2>1, TextOf
  <2>3. \A q \in t..g - 1 : w[q] = m[q]
    <3>1. \A q \in t..g - 1 : q \in t..g
      BY <1>2, <1>7
    <3>2. QED BY <1>10, <3>1
  <2>4. \A c : c \in ToSet(Text(w, t)) <=> c \in ToSet(Text(m, t))
    BY <1>6, <2>2, <2>3
  <2>5. QED BY <2>4
<1>14. QED BY <1>7, <1>8, <1>9, <1>11, <1>12, <1>13 DEF w, Z, e

\* strpbrk finds the first separator from j on.
LEMMA NextMark ==
  ASSUME NEW m \in Mems, NEW s \in 1..Len(m), NEW t \in 1..Len(m), Clear(m, s, t), NEW j \in s..End(m, s)
  PROVE  strpbrk(Zeroed(m, HitsBefore(m, s, t, j)), j, t) = FirstOf(HitsFrom(m, s, t, j))
<1> DEFINE w == Zeroed(m, HitsBefore(m, s, t, j))
           e == End(m, s)
<1>1. /\ w \in Mems /\ Len(w) = Len(m) /\ j \in 1..Len(m)
      /\ IsString(w, j) /\ End(w, j) = e
      /\ IsString(w, t) /\ ToSet(Text(w, t)) = ToSet(Text(m, t))
      /\ \A q \in j..e : w[q] = m[q]
  BY StillStrings
<1>2. e \in s..Len(m) /\ e \in Nat
  BY EndIs DEF Clear
<1>3. j \in s..e
  OBVIOUS
<1>4. Hits(m, s, t) = {q \in s..e - 1 : m[q] \in ToSet(Text(m, t))}
  BY DEF Hits
<1> HIDE DEF w, e
<1>5. strpbrk(w, j, t) = FirstOf(Hits(w, j, t))
  <2>1. j \in 1..Len(w) /\ t \in 1..Len(w)
    BY <1>1
  <2>2. QED BY <1>1, <2>1, SpansAre
<1>6. Hits(w, j, t) = {q \in j..e - 1 : w[q] \in ToSet(Text(m, t))}
  BY <1>1 DEF Hits
<1>7. \A q : q \in j..e - 1 <=> q \in s..e - 1 /\ q >= j
  BY <1>2, <1>3
<1>8. \A q \in j..e - 1 : w[q] = m[q]
  <2>1. \A q \in j..e - 1 : q \in j..e
    BY <1>2, <1>3
  <2>2. QED BY <1>1, <2>1
<1>9. Hits(w, j, t) = HitsFrom(m, s, t, j)
  BY <1>4, <1>6, <1>7, <1>8 DEF HitsFrom
<1>10. QED BY <1>5, <1>9 DEF w


\* The calls of strsep, as long as *s is not NULL, and behind the last.
SplitState == [mem : Seq(Int), s : Nat, tokens : Seq(Nat)]

OpenAt(y, m, s, t) ==
  LET Z == HitsBefore(m, s, t, y.s)
  IN /\ y.s \in s..End(m, s) /\ y.mem = Zeroed(m, Z)
     /\ \A q : q \in ToSet(y.tokens) \/ q = y.s <=> q = s \/ \E b \in Z : q = b + 1
     /\ Len(y.tokens) = Cardinality(Z)

ClosedAt(y, m, s, t) ==
  LET Z == Hits(m, s, t)
  IN /\ y.s = 0 /\ y.mem = Zeroed(m, Z)
     /\ \A q : q \in ToSet(y.tokens) <=> q = s \/ \E b \in Z : q = b + 1
     /\ Len(y.tokens) = Cardinality(Z) + 1

SplitTurn(y, t) ==
  LET r == strsep(y.mem, y.s, t) IN [mem |-> r.mem, s |-> r.s, tokens |-> Append(y.tokens, y.s)]

LEMMA HitsAre ==
  ASSUME NEW m \in Mems, NEW s \in 1..Len(m), IsString(m, s), NEW t
  PROVE  /\ IsFiniteSet(Hits(m, s, t)) /\ Hits(m, s, t) \in SUBSET Nat /\ Cardinality(Hits(m, s, t)) \in Nat
         /\ \A q \in Hits(m, s, t) : q \in s..End(m, s) - 1 /\ q \in 1..Len(m) /\ q \in Nat
         /\ \A j : IsFiniteSet(HitsBefore(m, s, t, j)) /\ Cardinality(HitsBefore(m, s, t, j)) \in Nat
<1> DEFINE H == Hits(m, s, t)
           e == End(m, s)
<1>1. e \in s..Len(m) /\ e \in Nat /\ s \in Nat
  BY EndIs, MemIs
<1>2. H \in SUBSET (s..e - 1)
  BY DEF Hits
<1> HIDE DEF H, e
<1>3. \A q \in H : q \in s..e - 1 /\ q \in 1..Len(m) /\ q \in Nat
  BY <1>1, <1>2, MemIs
<1>4. IsFiniteSet(s..e - 1)
  <2>1. e - 1 \in Int /\ s \in Int
    BY <1>1
  <2>2. QED BY <2>1, FS_Interval
<1>5. IsFiniteSet(H)
  BY <1>2, <1>4, FS_Subset
<1>6. \A j : IsFiniteSet(HitsBefore(m, s, t, j))
  <2>1. \A j : HitsBefore(m, s, t, j) \in SUBSET H
    BY DEF HitsBefore, H
  <2>2. QED BY <1>5, <2>1, FS_Subset
<1>7. QED BY <1>3, <1>5, <1>6, FS_CardinalityType DEF H, e

LEMMA LastSplit ==
  ASSUME NEW m \in Mems, NEW s \in 1..Len(m), NEW t \in 1..Len(m), Clear(m, s, t),
         NEW y \in SplitState, OpenAt(y, m, s, t), HitsFrom(m, s, t, y.s) = {}
  PROVE  SplitTurn(y, t) \in SplitState /\ ClosedAt(SplitTurn(y, t), m, s, t)
<1> DEFINE j == y.s
           v == y.tokens
           H == Hits(m, s, t)
           Z == HitsBefore(m, s, t, j)
           z == SplitTurn(y, t)
<1>1. y.mem \in Seq(Int) /\ j \in Nat /\ v \in Seq(Nat) /\ j \in s..End(m, s)
  BY DEF SplitState, OpenAt
<1>2. y.mem = Zeroed(m, Z) /\ Len(v) = Cardinality(Z) /\ \A q : q \in ToSet(v) \/ q = j <=> q = s \/ \E b \in Z : q = b + 1
  BY DEF OpenAt
<1>3. strpbrk(y.mem, j, t) = 0
  <2>1. strpbrk(Zeroed(m, Z), j, t) = FirstOf(HitsFrom(m, s, t, j))
    BY <1>1, NextMark
  <2>2. FirstOf({}) = 0
    BY DEF FirstOf
  <2>3. QED BY <1>2, <2>1, <2>2
<1>4. z = [mem |-> y.mem, s |-> 0, tokens |-> Append(v, j)]
  <2>1. strsep(y.mem, y.s, t) = [mem |-> y.mem, s |-> 0]
    BY <1>3 DEF strsep
  <2>2. QED BY <2>1 DEF SplitTurn
<1>5. H = Z
  <2>1. \A q \in H : q \in Nat
    BY HitsAre DEF Clear
  <2>2. \A q \in H : ~(q >= j)
    BY DEF HitsFrom
  <2>3. \A q \in H : q < j
    BY <1>1, <2>1, <2>2
  <2>4. QED BY <2>3 DEF HitsBefore
<1> HIDE DEF j, v, H, Z, z
<1>6. Append(v, j) \in Seq(Nat) /\ Len(Append(v, j)) = Len(v) + 1 /\ \A q : q \in ToSet(Append(v, j)) <=> q \in ToSet(v) \/ q = j
  BY <1>1, AppendSet
<1>7. z.mem = y.mem /\ z.s = 0 /\ z.tokens = Append(v, j) /\ z \in SplitState
  BY <1>1, <1>4, <1>6 DEF SplitState
<1>8. ClosedAt(z, m, s, t)
  <2>1. z.mem = Zeroed(m, H) /\ Len(z.tokens) = Cardinality(H) + 1
    BY <1>2, <1>5, <1>6, <1>7
  <2>2. \A q : q \in ToSet(z.tokens) <=> q = s \/ \E b \in H : q = b + 1
    BY <1>2, <1>5, <1>6, <1>7
  <2>3. QED BY <1>7, <2>1, <2>2 DEF ClosedAt, H
<1>9. QED BY <1>7, <1>8 DEF z

LEMMA NextSplit ==
  ASSUME NEW m \in Mems, NEW s \in 1..Len(m), NEW t \in 1..Len(m), Clear(m, s, t),
         NEW y \in SplitState, OpenAt(y, m, s, t), HitsFrom(m, s, t, y.s) # {}
  PROVE  SplitTurn(y, t) \in SplitState /\ OpenAt(SplitTurn(y, t), m, s, t) /\ SplitTurn(y, t).s > y.s
<1> DEFINE j == y.s
           v == y.tokens
           H == Hits(m, s, t)
           Z == HitsBefore(m, s, t, j)
           z == SplitTurn(y, t)
           b == Min(HitsFrom(m, s, t, j))
<1>1. y.mem \in Seq(Int) /\ j \in Nat /\ v \in Seq(Nat) /\ j \in s..End(m, s)
  BY DEF SplitState, OpenAt
<1>2. y.mem = Zeroed(m, Z) /\ Len(v) = Cardinality(Z) /\ \A q : q \in ToSet(v) \/ q = j <=> q = s \/ \E g \in Z : q = g + 1
  BY DEF OpenAt
<1>3. \A q \in H : q \in s..End(m, s) - 1 /\ q \in 1..Len(m) /\ q \in Nat
  BY HitsAre DEF Clear
<1>4. b \in HitsFrom(m, s, t, j) /\ \A q \in HitsFrom(m, s, t, j) : b <= q
  <2>1. HitsFrom(m, s, t, j) \in SUBSET Nat
    BY <1>3 DEF HitsFrom
  <2>2. QED BY <2>1, MinIs
<1>5. b \in H /\ b >= j /\ b \in Nat /\ b \in 1..Len(m) /\ b \in s..End(m, s) - 1
  BY <1>3, <1>4 DEF HitsFrom
<1>6. \A q \in H : q < b <=> q < j
  <2>1. \A q \in H : q >= j => b <= q
    BY <1>4 DEF HitsFrom
  <2>2. \A q \in H : q \in Nat
    BY <1>3
  <2> HIDE DEF H, j, b
  <2>3. QED BY <1>1, <1>5, <2>1, <2>2
<1>7. strpbrk(y.mem, j, t) = b /\ b # 0
  <2>1. strpbrk(Zeroed(m, Z), j, t) = FirstOf(HitsFrom(m, s, t, j))
    BY <1>1, NextMark
  <2>2. FirstOf(HitsFrom(m, s, t, j)) = b
    BY DEF FirstOf
  <2>3. b # 0
    BY <1>5
  <2>4. QED BY <1>2, <2>1, <2>2, <2>3
<1> HIDE DEF b
<1>8. z = [mem |-> [y.mem EXCEPT ![b] = 0], s |-> b + 1, tokens |-> Append(v, j)]
  <2>1. strsep(y.mem, y.s, t) = [mem |-> [y.mem EXCEPT ![b] = 0], s |-> b + 1]
    BY <1>7 DEF strsep
  <2>2. QED BY <2>1 DEF SplitTurn
<1> DEFINE Y == HitsBefore(m, s, t, b + 1)
<1>9. Y = Z \cup {b} /\ b \notin Z
  <2>1. \A q \in H : q < b + 1 <=> q < j \/ q = b
    BY <1>1, <1>3, <1>5, <1>6
  <2>2. Y = {q \in H : q < b + 1} /\ Z = {q \in H : q < j}
    BY DEF HitsBefore
  <2>3. ~(b < j)
    BY <1>1, <1>5
  <2> HIDE DEF Y, Z, H
  <2>4. QED BY <1>5, <2>1, <2>2, <2>3
<1>10. IsFiniteSet(Z)
  BY HitsAre DEF Clear
<1> HIDE DEF j, v, H, Z, z, Y
<1>11. [y.mem EXCEPT ![b] = 0] = Zeroed(m, Y)
  <2>1. [Zeroed(m, Z) EXCEPT ![b] = 0] = Zeroed(m, Z \cup {b})
    BY <1>5, ZeroedOne
  <2>2. QED BY <1>2, <1>9, <2>1
<1>12. Zeroed(m, Y) \in Seq(Int)
  <2>1. ZeroedAt(Zeroed(m, Y), m, Y)
    BY ZeroedIs
  <2>2. QED BY <2>1 DEF ZeroedAt
<1>13. Append(v, j) \in Seq(Nat) /\ Len(Append(v, j)) = Len(v) + 1 /\ \A q : q \in ToSet(Append(v, j)) <=> q \in ToSet(v) \/ q = j
  BY <1>1, AppendSet
<1>14. z.mem = Zeroed(m, Y) /\ z.s = b + 1 /\ z.tokens = Append(v, j) /\ z \in SplitState
  <2>1. b + 1 \in Nat
    BY <1>5
  <2>2. z = [mem |-> Zeroed(m, Y), s |-> b + 1, tokens |-> Append(v, j)]
    BY <1>8, <1>11
  <2>3. QED BY <1>12, <1>13, <2>1, <2>2 DEF SplitState
<1>15. Cardinality(Y) = Cardinality(Z) + 1
  BY <1>9, <1>10, FS_AddElement
<1>16. \A q : q \in ToSet(z.tokens) \/ q = b + 1 <=> q = s \/ \E g \in Y : q = g + 1
  BY <1>2, <1>9, <1>13, <1>14
<1>17. b + 1 \in s..End(m, s) /\ b + 1 > j
  <2>1. End(m, s) \in Nat /\ s \in Nat
    BY EndIs, MemIs DEF Clear
  <2>2. QED BY <1>1, <1>5, <2>1
<1>18. OpenAt(z, m, s, t)
  <2>1. HitsBefore(m, s, t, z.s) = Y
    BY <1>14 DEF Y
  <2>2. Len(z.tokens) = Cardinality(Y)
    BY <1>2, <1>13, <1>14, <1>15
  <2>3. QED BY <1>14, <1>16, <1>17, <2>1, <2>2 DEF OpenAt
<1>19. QED BY <1>14, <1>17, <1>18 DEF z, j


LEMMA TokensAre ==
  ASSUME NEW m \in Mems, NEW s \in 1..Len(m), NEW t \in 1..Len(m), Clear(m, s, t)
  PROVE  ClosedAt(Tokens(m, s, t), m, s, t)
<1> DEFINE D == {y \in SplitState : y.s # 0}
           turn == [y \in D |-> SplitTurn(y, t)]
           x == [mem |-> m, s |-> s, tokens |-> <<>>]
           I == {y \in SplitState : OpenAt(y, m, s, t) \/ ClosedAt(y, m, s, t)}
           e == End(m, s)
           rank == [y \in I |-> IF y.s = 0 THEN 0 ELSE e - y.s + 1]
<1>1. Tokens(m, s, t) = Loop(x, turn)
  BY DEF Tokens, SplitTurn, SplitState
<1>2. e \in s..Len(m) /\ e \in Nat /\ s \in Nat /\ s # 0 /\ Len(m) \in Nat /\ Len(m) <= MemSize
  BY EndIs, MemIs DEF Clear
<1>3. DOMAIN turn = D
  OBVIOUS
<1> HIDE DEF e
<1>4. x \in I
  <2>1. m \in Seq(Int) /\ DOMAIN m = 1..Len(m)
    BY MemIs, Memories, SeqMonotonic
  <2>2. x \in SplitState /\ x.s = s /\ x.mem = m /\ x.tokens = <<>>
    BY <1>2, <2>1 DEF SplitState
  <2> DEFINE Z == HitsBefore(m, s, t, s)
  <2>3. Z = {}
    <3>1. \A q \in Hits(m, s, t) : q \in s..End(m, s) - 1 /\ q \in Nat
      BY HitsAre DEF Clear
    <3>2. \A q \in Hits(m, s, t) : ~(q < s)
      BY <1>2, <3>1
    <3>3. QED BY <3>2 DEF HitsBefore
  <2> HIDE DEF Z, x
  <2>4. Zeroed(m, {}) = m
    <3> DEFINE w == Zeroed(m, {})
    <3>1. ZeroedAt(w, m, {})
      BY ZeroedIs
    <3>4. w \in Seq(Bytes) /\ Len(w) = Len(m) /\ \A q \in 1..Len(m) : w[q] = m[q]
      <4> HIDE DEF w
      <4>1. QED BY <3>1 DEF ZeroedAt
    <3>2. m \in Seq(Bytes)
      BY MemIs
    <3> HIDE DEF w
    <3>3. w = m
      BY <3>2, <3>4, SeqEqual
    <3>5. QED BY <3>3 DEF w
  <2>5. Len(x.tokens) = Cardinality(Z)
    BY <2>2, <2>3, FS_EmptySet
  <2>6. \A q : q \notin ToSet(x.tokens)
    BY <2>2 DEF ToSet
  <2>7. \A q : q \in ToSet(x.tokens) \/ q = x.s <=> q = s \/ \E b \in Z : q = b + 1
    BY <2>2, <2>3, <2>6
  <2>8. x.s \in s..End(m, s)
    BY <1>2, <2>2 DEF e
  <2>9. OpenAt(x, m, s, t)
    <3>1. HitsBefore(m, s, t, x.s) = Z
      BY <2>2 DEF Z
    <3>2. x.mem = Zeroed(m, Z)
      BY <2>2, <2>3, <2>4
    <3>3. QED BY <2>5, <2>7, <2>8, <3>1, <3>2 DEF OpenAt
  <2>10. QED BY <2>2, <2>9
<1>5. ASSUME NEW y \in I, y \in D
      PROVE  turn[y] \in I /\ rank[turn[y]] < rank[y]
  <2>1. y \in SplitState /\ y.s # 0 /\ turn[y] = SplitTurn(y, t)
    BY <1>5
  <2>2. OpenAt(y, m, s, t)
    BY <2>1 DEF ClosedAt
  <2> DEFINE z == SplitTurn(y, t)
  <2>3. y.s \in s..e
    BY <2>2 DEF OpenAt, e
  <2>4. z \in I /\ (z.s = 0 \/ (z.s > y.s /\ z.s \in s..e))
    <3>1. CASE HitsFrom(m, s, t, y.s) = {}
      <4>1. z \in SplitState /\ ClosedAt(z, m, s, t)
        BY <2>1, <2>2, <3>1, LastSplit
      <4> HIDE DEF z
      <4>2. QED BY <4>1 DEF ClosedAt
    <3>2. CASE HitsFrom(m, s, t, y.s) # {}
      <4>1. z \in SplitState /\ OpenAt(z, m, s, t) /\ z.s > y.s
        BY <2>1, <2>2, <3>2, NextSplit
      <4> HIDE DEF z
      <4>2. QED BY <4>1 DEF OpenAt, e
    <3>3. QED BY <3>1, <3>2
  <2>5. rank[y] = e - y.s + 1 /\ rank[z] = IF z.s = 0 THEN 0 ELSE e - z.s + 1
    BY <1>5, <2>1, <2>4
  <2> HIDE DEF z, rank, I
  <2>6. rank[z] < rank[y]
    BY <1>2, <2>3, <2>4, <2>5
  <2>7. QED BY <2>1, <2>4, <2>6 DEF z
<1>6. rank \in [I -> Nat]
  <2>1. \A y \in I : y.s = 0 \/ y.s \in s..e
    BY DEF OpenAt, ClosedAt, e
  <2>2. \A y \in I : (IF y.s = 0 THEN 0 ELSE e - y.s + 1) \in Nat
    <3> HIDE DEF I
    <3>1. QED BY <1>2, <2>1
  <2> HIDE DEF I
  <2>3. QED BY <2>2
<1>7. rank[x] <= MemSize
  <2>1. rank[x] = e - s + 1
    BY <1>2, <1>4
  <2> HIDE DEF rank
  <2>2. QED BY <1>2, <2>1, Memories
<1> DEFINE y == Tokens(m, s, t)
<1>8. y \in I /\ y \notin D
  <2> HIDE DEF I, D, turn, rank, x, y
  <2>1. Leads(turn, I, D, rank)
    BY <1>5, <1>6 DEF Leads
  <2>2. Loop(x, turn) \in I /\ Loop(x, turn) \notin D
    BY <1>3, <1>4, <1>7, <2>1, LoopRule
  <2>3. QED BY <1>1, <2>2 DEF y
<1> HIDE DEF y
<1>9. y \in SplitState /\ y.s = 0
  BY <1>8
<1>10. ~OpenAt(y, m, s, t)
  BY <1>2, <1>9 DEF OpenAt
<1>11. ClosedAt(y, m, s, t)
  BY <1>8, <1>10
<1>12. QED BY <1>11 DEF y

LEMMA EverySplitIs ==
  ASSUME memory \in Mems
  PROVE  SplitAtSeparators
<1>1. ASSUME NEW s \in Places, NEW t \in Places, Apart(s, t)
      PROVE  LET h == Hits(memory, s, t)
                 r == Tokens(memory, s, t)
             IN /\ r.mem = [q \in Places |-> IF q \in h THEN 0 ELSE memory[q]]
                /\ ToSet(r.tokens) = {s} \cup {q + 1 : q \in h}
                /\ Len(r.tokens) = Cardinality(h) + 1
  <2> DEFINE h == Hits(memory, s, t)
             r == Tokens(memory, s, t)
  <2>1. Clear(memory, s, t)
    BY <1>1 DEF Apart, Clear
  <2>2. ClosedAt(r, memory, s, t)
    BY <1>1, <2>1, PlacesAre, TokensAre
  <2>3. Places = DOMAIN memory
    BY DEF Places
  <2> HIDE DEF r
  <2>4. r.mem = [q \in Places |-> IF q \in h THEN 0 ELSE memory[q]]
    BY <2>2, <2>3 DEF ClosedAt, Zeroed
  <2>5. Len(r.tokens) = Cardinality(h) + 1
    BY <2>2 DEF ClosedAt
  <2>6. \A q : q \in ToSet(r.tokens) <=> q = s \/ \E b \in h : q = b + 1
    BY <2>2 DEF ClosedAt
  <2> HIDE DEF h
  <2>7. ToSet(r.tokens) = {s} \cup {q + 1 : q \in h}
    BY <2>6
  <2>8. QED BY <2>4, <2>5, <2>7 DEF h, r
<1>2. QED BY <1>1, Zenon DEF SplitAtSeparators, Hits


-----------------------------------------------------------------------------
(* No call leaves the memory.                                              *)

Alike(w, m) == w \in Seq(Bytes) /\ Len(w) = Len(m)

LEMMA WroteFits ==
  ASSUME NEW m, NEW d, NEW v, NEW n, FitsAt(m, d, v, n)
  PROVE  Alike(Wrote(m, d, v, n), m)
<1>1. n \in 0..n
  BY DEF FitsAt
<1>2. QED BY <1>1, WroteIs DEF Alike

LEMMA CopyStringKeeps ==
  ASSUME memory \in Mems, NEW d \in Places, NEW s \in Places, CopyString(d, s)
  PROVE  Alike(memory', memory)
<1> DEFINE g == End(memory, s) - s + 1
           x == Whole(memory, s)
           e == End(memory, d)
<1>1. d \in 1..Len(memory) /\ s \in 1..Len(memory) /\ d \in Nat \ {0} /\ s \in Nat \ {0} /\ IsString(memory, s)
  BY PlacesAre DEF CopyString
<1>2. x \in Seq(Bytes) /\ Len(x) = g /\ g \in Nat
  BY <1>1, WholeHas
<1>3. ASSUME NEW b \in Nat \ {0}, RoomIs(memory, b, g, s)
      PROVE  Alike(strcpy(memory, b, s), memory)
  <2>1. strcpy(memory, b, s) = Wrote(memory, b, x, g)
    BY <1>1, <1>3, StrcpyIs
  <2> HIDE DEF x, g
  <2>2. b + g - 1 <= Len(memory)
    BY <1>3 DEF RoomIs
  <2>3. FitsAt(memory, b, x, g)
    BY <1>2, <2>2 DEF FitsAt
  <2>4. QED BY <2>1, <2>3, WroteFits
<1>4. CASE Room(memory, d, g, s) /\ memory' = strcpy(memory, d, s)
  <2> HIDE DEF g
  <2>1. RoomIs(memory, d, g, s)
    BY <1>1, <1>2, <1>4, RoomMeans
  <2>2. QED BY <1>1, <1>3, <1>4, <2>1
<1>5. CASE RoomBehind(memory, d, s) /\ memory' = strcat(memory, d, s)
  <2>1. IsString(memory, d) /\ e \in Nat \ {0} /\ RoomIs(memory, e, g, s)
    BY <1>1, <1>5, RoomBehindMeans
  <2>2. strlen(memory, d) = e - d
    BY <1>1, <2>1, StrlenIs
  <2> HIDE DEF g, e
  <2>3. d + strlen(memory, d) = e
    BY <1>1, <2>1, <2>2
  <2>4. strcat(memory, d, s) = strcpy(memory, e, s)
    BY <2>3 DEF strcat
  <2>5. QED BY <1>3, <1>5, <2>1, <2>4
<1>6. QED BY <1>4, <1>5 DEF CopyString

LEMMA CopyUpToKeeps ==
  ASSUME memory \in Mems, NEW d \in Places, NEW s \in Places, NEW n \in Counts, CopyUpTo(d, s, n)
  PROVE  Alike(memory', memory)
<1> DEFINE g == End(memory, s) - s + 1
           e == End(memory, d)
<1>1. d \in 1..Len(memory) /\ s \in 1..Len(memory) /\ d \in Nat \ {0} /\ s \in Nat \ {0} /\ n \in Nat /\ IsString(memory, s)
  BY PlacesAre DEF CopyUpTo
<1>2. Alike(memory, memory)
  BY MemIs DEF Alike
<1>3. ASSUME RoomBehind(memory, d, s)
      PROVE  /\ IsString(memory, d) /\ e \in Nat \ {0} /\ RoomIs(memory, e, g, s)
             /\ RoomIs(memory, d, e - d + End(memory, s) - s + 1, s) /\ d + strlen(memory, d) = e
  <2>1. /\ IsString(memory, d) /\ e \in Nat \ {0} /\ RoomIs(memory, e, g, s)
        /\ RoomIs(memory, d, e - d + End(memory, s) - s + 1, s)
    BY <1>1, <1>3, RoomBehindMeans
  <2>2. strlen(memory, d) = e - d
    BY <1>1, <2>1, StrlenIs
  <2> HIDE DEF e
  <2>3. d + strlen(memory, d) = e
    BY <1>1, <2>1, <2>2
  <2>4. QED BY <2>1, <2>3
<1>4. ASSUME Room(memory, d, n, s)
      PROVE  Alike(strncpy(memory, d, s, n), memory) /\ Alike(strlcpy(memory, d, s, n), memory)
  <2>1. RoomIs(memory, d, n, s)
    BY <1>1, <1>4, RoomMeans
  <2>2. \E v : strncpy(memory, d, s, n) = Wrote(memory, d, v, n) /\ FitsAt(memory, d, v, n)
    BY <1>1, <2>1, StrncpyIs
  <2>3. Alike(strncpy(memory, d, s, n), memory)
    BY <2>2, WroteFits
  <2>4. CASE n = 0
    BY <1>2, <2>3, <2>4 DEF strlcpy
  <2>5. CASE n # 0
    <3>1. \E v : strlcpy(memory, d, s, n) = Wrote(memory, d, v, Len(v)) /\ FitsAt(memory, d, v, Len(v))
      BY <1>1, <2>1, <2>5, StrlcpyIs
    <3>2. QED BY <2>3, <3>1, WroteFits
  <2>6. QED BY <2>4, <2>5
<1>5. ASSUME RoomBehind(memory, d, s)
      PROVE  Alike(strncat(memory, d, s, n), memory)
  <2>1. CASE n = 0
    BY <1>2, <2>1 DEF strncat
  <2>2. CASE n # 0
    <3>1. strncat(memory, d, s, n) = AppendUpTo(memory, e, s, n)
      <4> HIDE DEF e
      <4>1. QED BY <1>3, <1>5, <2>2 DEF strncat
    <3>2. \E v : AppendUpTo(memory, e, s, n) = Wrote(memory, e, v, Len(v)) /\ FitsAt(memory, e, v, Len(v))
      BY <1>1, <1>3, <1>5, <2>2, AppendUpToIs
    <3>3. QED BY <3>1, <3>2, WroteFits
  <2>3. QED BY <2>1, <2>2
<1>6. ASSUME RoomBehind(memory, d, s), End(memory, d) - d < n
      PROVE  Alike(strlcat(memory, d, s, n), memory)
  <2>1. n > End(memory, d) - d
    BY <1>1, <1>3, <1>6
  <2>2. \E v : strlcat(memory, d, s, n) = Wrote(memory, e, v, Len(v)) /\ FitsAt(memory, e, v, Len(v))
    BY <1>1, <1>3, <1>6, <2>1, StrlcatIs
  <2>3. QED BY <2>2, WroteFits
<1>7. QED BY <1>4, <1>5, <1>6 DEF CopyUpTo

LEMMA FillKeeps ==
  ASSUME memory \in Mems, NEW s \in Places, NEW c \in Bytes, NEW n \in Counts, Fill(s, c, n)
  PROVE  Alike(memory', memory)
<1>1. s \in Nat \ {0} /\ n \in Nat /\ s + n - 1 <= Len(memory) /\ memory' = memset(memory, s, c, n)
  BY PlacesAre DEF Fill
<1>2. memory' = Wrote(memory, s, Filled(c, n), n)
  BY <1>1, MemsetIs
<1>3. Filled(c, n) \in Seq(Bytes) /\ Len(Filled(c, n)) = n
  BY <1>1 DEF Filled
<1>4. FitsAt(memory, s, Filled(c, n), n)
  BY <1>1, <1>3 DEF FitsAt
<1>5. QED BY <1>2, <1>4, WroteFits

LEMMA MoveKeeps ==
  ASSUME memory \in Mems, NEW d \in Places, NEW s \in Places, NEW n \in Counts, Move(d, s, n)
  PROVE  Alike(memory', memory)
<1> DEFINE v == SubSeq(memory, s, s + n - 1)
<1>1. /\ d \in Nat \ {0} /\ s \in Nat \ {0} /\ n \in Nat
      /\ d + n - 1 <= Len(memory) /\ s + n - 1 <= Len(memory)
  BY PlacesAre DEF Move
<1>2. \/ memory' = memmove(memory, d, s, n)
      \/ Asunder(d, s, n) /\ memory' = memcpy(memory, d, s, n)
  BY DEF Move, Asunder
<1>3. memory' = Wrote(memory, d, v, n)
  BY <1>1, <1>2, MemmoveIs, MemcpyIs
<1>4. v \in Seq(Bytes) /\ Len(v) = n
  BY <1>1, SliceIs
<1> HIDE DEF v
<1>5. FitsAt(memory, d, v, n)
  BY <1>1, <1>4 DEF FitsAt
<1>6. QED BY <1>3, <1>5, WroteFits

LEMMA StripKeeps ==
  ASSUME memory \in Mems, NEW s \in Places, Strip(s)
  PROVE  Alike(memory', memory)
<1>1. s \in 1..Len(memory) /\ IsString(memory, s)
  BY PlacesAre DEF Strip
<1>2. Stripping(memory, s)
  BY <1>1, StripIs
<1>3. memory' = Stripped(memory, s)
  BY DEF Strip, strstrip
<1>4. memory' \in Mems /\ Len(memory') = Len(memory)
  BY <1>2, <1>3 DEF Stripping
<1>5. QED BY <1>4 DEF Alike, Mems

LEMMA SeparateKeeps ==
  ASSUME memory \in Mems, NEW s \in Places, NEW t \in Places, Separate(s, t)
  PROVE  Alike(memory', memory)
<1> DEFINE b == strpbrk(memory, s, t)
<1>1. s \in 1..Len(memory) /\ t \in 1..Len(memory) /\ IsString(memory, s) /\ IsString(memory, t)
  BY PlacesAre DEF Separate, Apart
<1>2. memory' = strsep(memory, s, t).mem
  BY DEF Separate
<1>3. b = FirstOf(Hits(memory, s, t))
  BY <1>1, SpansAre
<1>4. b = 0 \/ b \in 1..Len(memory)
  <2> DEFINE H == Hits(memory, s, t)
  <2>1. H \in SUBSET Nat /\ \A q \in H : q \in 1..Len(memory)
    BY <1>1, HitsAre
  <2> HIDE DEF H, b
  <2>2. CASE H = {}
    BY <1>3, <2>2 DEF FirstOf, H
  <2>3. CASE H # {}
    <3>1. Min(H) \in H
      BY <2>1, <2>3, MinIs
    <3>2. b = Min(H)
      BY <1>3, <2>3 DEF FirstOf, H
    <3>3. QED BY <2>1, <3>1, <3>2
  <2>4. QED BY <2>2, <2>3
<1>5. CASE b = 0
  <2>1. memory' = memory
    BY <1>2, <1>5 DEF strsep
  <2>2. QED BY <2>1, MemIs DEF Alike
<1>6. CASE b # 0
  <2>1. memory' = [memory EXCEPT ![b] = 0]
    BY <1>2, <1>6 DEF strsep
  <2> HIDE DEF b
  <2>2. PutAt(memory', memory, b, 0)
    BY <1>4, <1>6, <2>1, Memories, PutIs
  <2>3. QED BY <2>2 DEF PutAt, Alike
<1>7. QED BY <1>5, <1>6

LEMMA StringTypeMeans ==
  ASSUME StringTypeOK
  PROVE  memory \in Mems /\ memory \in Seq(Bytes) /\ Len(memory) \in {0, MemSize}
BY Memories DEF StringTypeOK, Mems

LEMMA StringBegins ==
  ASSUME AnyString
  PROVE  StringTypeOK
<1>1. MemSize \in Nat /\ memory \in [1..MemSize -> Bytes]
  BY Memories DEF AnyString
<1>2. memory \in Seq(Bytes)
  BY <1>1
<1>3. DOMAIN memory = 1..MemSize
  BY <1>1
<1>4. Len(memory) = MemSize
  BY <1>1, <1>2, <1>3
<1>5. QED BY <1>2, <1>4 DEF StringTypeOK

LEMMA StringStep ==
  ASSUME StringTypeOK, [StringNext]_memory
  PROVE  StringTypeOK'
<1>1. memory \in Mems /\ memory \in Seq(Bytes) /\ Len(memory) \in {0, MemSize}
  BY StringTypeMeans
<1>2. CASE UNCHANGED memory
  BY <1>1, <1>2 DEF StringTypeOK
<1>3. CASE StringNext
  <2>1. Alike(memory', memory)
    BY <1>1, <1>3, CopyStringKeeps, SeparateKeeps, CopyUpToKeeps, MoveKeeps, StripKeeps, FillKeeps DEF StringNext
  <2>2. QED BY <1>1, <2>1 DEF Alike, StringTypeOK
<1>4. QED BY <1>2, <1>3

\* On every memory, whatever its size, and after any calls: each function of
\* string.c computes what its reference definition says, and none of them leaves
\* the memory (string.c 30-688).
THEOREM StringsAreCorrect == StringSpec => []StringsCorrect
<1>1. AnyString => StringTypeOK
  BY StringBegins
<1>2. StringTypeOK /\ [StringNext]_memory => StringTypeOK'
  BY StringStep
<1>3. StringTypeOK => StringsCorrect
  <2>1. SUFFICES ASSUME StringTypeOK PROVE StringsCorrect
    OBVIOUS
  <2>2. memory \in Mems
    BY <2>1, StringTypeMeans
  <2>3. QED BY <2>1, <2>2, EverySearchFinds, EveryComparisonOrders, EveryCopyWrites, StripLeaves, EverySplitIs
            DEF StringsCorrect
<1>4. QED BY <1>1, <1>2, <1>3, PTL DEF StringSpec


=============================================================================
