----------------------------- MODULE TextProofs -----------------------------
(***************************************************************************)
(* Proofs about the texts a request and an answer bring.                   *)
(*                                                                         *)
(* A query string asks for a listing (Listing): what the code has taken    *)
(* from it is what the pairs say, and what it answers is the rows that     *)
(* asks for, for any texts, trades and limits.  A string of JSON (Unquote) *)
(* says what Unicode makes of its bytes and escapes, whatever they are.  A *)
(* JSON text becomes the value it says or is refused (Decoding), however   *)
(* its members are repeated and whatever literals stand in it.             *)
(***************************************************************************)
EXTENDS RulesProofs, Listing, Unquote, Decoding

-----------------------------------------------------------------------------
DecimalDigits == {Decimals[i] : i \in 1..10}

(* A digit and its value. *)
LEMMA DigitIs ==
    /\ \A d \in 0..9 : /\ Decimals[d + 1] \in DecimalDigits /\ IsDigit(Decimals[d + 1])
                       /\ ValueOf(Decimals[d + 1]) = d /\ Decimals[d + 1] \notin {"+", "-"}
    /\ \A c : IsDigit(c) => c \in DecimalDigits
    /\ \A c \in DecimalDigits : IsDigit(c) /\ ValueOf(c) \in 0..9 /\ Decimals[ValueOf(c) + 1] = c
<1>1. /\ Decimals[1] = "0" /\ Decimals[2] = "1" /\ Decimals[3] = "2" /\ Decimals[4] = "3" /\ Decimals[5] = "4"
      /\ Decimals[6] = "5" /\ Decimals[7] = "6" /\ Decimals[8] = "7" /\ Decimals[9] = "8" /\ Decimals[10] = "9"
    BY DEF Decimals
<1>2. \A i \in 1..10 : i = 1 \/ i = 2 \/ i = 3 \/ i = 4 \/ i = 5 \/ i = 6 \/ i = 7 \/ i = 8 \/ i = 9 \/ i = 10
    OBVIOUS
<1>3. \A i, j \in 1..10 : Decimals[i] = Decimals[j] => i = j
    BY <1>1, <1>2
<1>4. \A i \in 1..10 : Decimals[i] \notin {"+", "-"}
    BY <1>1, <1>2
<1>5. ASSUME NEW i \in 1..10
      PROVE  ValueOf(Decimals[i]) = i - 1
    <2> DEFINE j == CHOOSE k \in 1..10 : Decimals[k] = Decimals[i]
    <2>1. j \in 1..10 /\ Decimals[j] = Decimals[i]
        OBVIOUS
    <2> HIDE DEF j
    <2>2. j = i
        BY <1>3, <2>1
    <2> QED
        BY <2>2 DEF ValueOf, j
<1>6. \A d \in 0..9 : d + 1 \in 1..10 /\ (d + 1) - 1 = d
    OBVIOUS
<1>7. \A i \in 1..10 : i - 1 \in 0..9 /\ (i - 1) + 1 = i
    OBVIOUS
<1> QED
    BY <1>4, <1>5, <1>6, <1>7 DEF IsDigit, DecimalDigits

(* size[n]: what the first n digits come to. *)
Sizes(size, digits) ==
    /\ size \in [0..Len(digits) -> Nat]
    /\ size[0] = 0
    /\ \A n \in 1..Len(digits) : size[n] = 10 * size[n - 1] + ValueOf(digits[n])
    /\ Size(digits) = size[Len(digits)]

(* What digits come to, digit by digit. *)
LEMMA Sizing ==
    ASSUME NEW digits \in Seq(DecimalDigits)
    PROVE  \E size : Sizes(size, digits)
<1> DEFINE X == Nat
           N == Len(digits)
           W == [i \in 1..N |-> [x \in X |-> 10 * x + ValueOf(digits[i])]]
           a == 0
<1>1. N \in Nat /\ a \in X
    OBVIOUS
<1>2. W \in [1..N -> [X -> X]]
    <2>1. \A i \in 1..N : \A x \in X : 10 * x + ValueOf(digits[i]) \in X
        <3>1. \A i \in 1..N : digits[i] \in DecimalDigits
            OBVIOUS
        <3>2. \A i \in 1..N : ValueOf(digits[i]) \in 0..9
            BY <3>1, DigitIs
        <3> QED
            BY <3>2
    <2> HIDE DEF X, N
    <2> QED
        BY <2>1
<1>3. \A i \in 1..N : \A x \in X : W[i][x] = 10 * x + ValueOf(digits[i])
    <2> HIDE DEF X, N
    <2> QED
        OBVIOUS
<1> HIDE DEF X, N, W, a
<1>4. PICK g : Recurs(g, X, W, a, N)
    BY <1>1, <1>2, Recursion
<1>5. g = [n \in 0..N |-> IF n = 0 THEN a ELSE 10 * g[n - 1] + ValueOf(digits[n])]
    <2>1. g \in [0..N -> X] /\ g[0] = a /\ \A i \in 1..N : g[i] = W[i][g[i - 1]]
        BY <1>4 DEF Recurs
    <2>2. \A i \in 1..N : g[i - 1] \in X
        BY <1>1, <2>1
    <2>3. \A i \in 1..N : g[i] = 10 * g[i - 1] + ValueOf(digits[i])
        BY <1>3, <2>1, <2>2
    <2> QED
        BY <1>1, <2>1, <2>3
<1> DEFINE f[n \in 0..N] == IF n = 0 THEN a ELSE 10 * f[n - 1] + ValueOf(digits[n])
<1>6. f = CHOOSE h : h = [n \in 0..N |-> IF n = 0 THEN a ELSE 10 * h[n - 1] + ValueOf(digits[n])]
    OBVIOUS
<1>7. Size(digits) = f[N]
    BY DEF Size, N, a
<1> HIDE DEF f
<1>8. f = [n \in 0..N |-> IF n = 0 THEN a ELSE 10 * f[n - 1] + ValueOf(digits[n])]
    BY <1>5, <1>6, Zenon
<1>9. f = [n \in 0..N |-> f[n]] /\ f[0] = a /\ \A n \in 1..N : f[n] = 10 * f[n - 1] + ValueOf(digits[n])
    <2>1. \A n \in 0..N : f[n] = IF n = 0 THEN a ELSE 10 * f[n - 1] + ValueOf(digits[n])
        BY <1>8, Zenon
    <2>3. f = [n \in 0..N |-> f[n]]
        BY <1>8, <2>1, Zenon
    <2>4. 0 \in 0..N /\ \A n \in 1..N : n \in 0..N /\ n # 0
        BY <1>1
    <2> QED
        BY <2>1, <2>3, <2>4, Zenon
<1>10. \A n \in 1..N : f[n - 1] \in X => f[n] = W[n][f[n - 1]]
    BY <1>3, <1>9
<1>11. Recurs(f, X, W, a, N)
    BY <1>1, <1>2, <1>9, <1>10, Unfolds
<1>12. f \in [0..N -> X]
    BY <1>11 DEF Recurs
<1>13. Sizes(f, digits)
    BY <1>7, <1>9, <1>12 DEF Sizes, N, X, a
<1> QED
    BY <1>13

(* What digits come to is a number. *)
LEMMA SizeType ==
    ASSUME NEW digits \in Seq(DecimalDigits)
    PROVE  Size(digits) \in Nat
<1>1. PICK size : Sizes(size, digits)
    BY Sizing
<1>2. Len(digits) \in 0..Len(digits)
    OBVIOUS
<1> QED
    BY <1>1, <1>2 DEF Sizes

(* No digits come to nothing. *)
LEMMA SizeNothing == Size(<<>>) = 0
<1>1. <<>> \in Seq(DecimalDigits) /\ Len(<<>>) = 0
    OBVIOUS
<1>2. PICK size : Sizes(size, <<>>)
    BY <1>1, Sizing
<1> QED
    BY <1>1, <1>2 DEF Sizes

(* A digit more. *)
LEMMA SizeLonger ==
    ASSUME NEW digits \in Seq(DecimalDigits), NEW c \in DecimalDigits
    PROVE  Size(Append(digits, c)) = 10 * Size(digits) + ValueOf(c)
<1> DEFINE longer == Append(digits, c)
           n == Len(digits)
           S == DecimalDigits
<1>1. longer \in Seq(S) /\ Len(longer) = n + 1 /\ longer[n + 1] = c /\ n \in Nat /\ \A i \in 1..n : digits[i] = longer[i]
    BY EndsOf
<1> HIDE DEF longer, S
<1>2. PICK f : Sizes(f, digits)
    BY Sizing
<1>3. PICK g : Sizes(g, longer)
    BY <1>1, Sizing DEF S
<1> DEFINE T == {k \in Nat : k <= n => f[k] = g[k]}
<1>4. 0 \in T
    BY <1>2, <1>3 DEF Sizes
<1>5. ASSUME NEW k \in T
      PROVE  k + 1 \in T
    <2> SUFFICES ASSUME k + 1 <= n PROVE f[k + 1] = g[k + 1]
        OBVIOUS
    <2>1. k + 1 \in 1..n /\ k + 1 \in 1..Len(longer) /\ (k + 1) - 1 = k /\ f[k] = g[k]
        BY <1>1
    <2>2. f[k + 1] = 10 * f[(k + 1) - 1] + ValueOf(digits[k + 1])
        BY <1>2, <2>1 DEF Sizes
    <2>3. g[k + 1] = 10 * g[(k + 1) - 1] + ValueOf(longer[k + 1])
        BY <1>3, <2>1 DEF Sizes
    <2>4. digits[k + 1] = longer[k + 1]
        BY <1>1, <2>1
    <2> QED
        BY <2>1, <2>2, <2>3, <2>4, Zenon
<1>6. T = Nat
    <2> HIDE DEF T
    <2>1. T \in SUBSET Nat
        BY DEF T
    <2> QED
        BY <1>4, <1>5, <2>1, Induction
<1>7. f[n] = g[n]
    BY <1>1, <1>6
<1>8. g[n + 1] = 10 * g[n] + ValueOf(c)
    <2>1. n + 1 \in 1..Len(longer) /\ (n + 1) - 1 = n
        BY <1>1
    <2>2. g[n + 1] = 10 * g[(n + 1) - 1] + ValueOf(longer[n + 1])
        BY <1>3, <2>1 DEF Sizes
    <2> QED
        BY <1>1, <2>1, <2>2, Zenon
<1>9. Size(longer) = g[n + 1] /\ Size(digits) = f[n]
    BY <1>1, <1>2, <1>3 DEF Sizes
<1> QED
    BY <1>7, <1>8, <1>9, Zenon DEF longer

-----------------------------------------------------------------------------
(* g[n]: the digits of n. *)
Numerals(g, k) ==
    g = [n \in 0..k |-> IF n < 10 THEN <<Decimals[n + 1]>> ELSE Append(g[n \div 10], Decimals[(n % 10) + 1])]

(* The numerals up to a number, by a recursion over numbers. *)
LEMMA NumeralsUpTo ==
    ASSUME NEW k \in Nat
    PROVE  \E g : Numerals(g, k)
<1> DEFINE T == {i \in Nat : \E g : Numerals(g, i)}
<1>1. 0 \in T
    <2> DEFINE g == [n \in 0..0 |-> <<Decimals[n + 1]>>]
    <2>1. Numerals(g, 0)
        BY DEF Numerals
    <2> QED
        BY <2>1
<1>2. ASSUME NEW i \in T
      PROVE  i + 1 \in T
    <2>1. PICK g : Numerals(g, i)
        OBVIOUS
    <2> DEFINE m == i + 1
               new == IF m < 10 THEN <<Decimals[m + 1]>> ELSE Append(g[m \div 10], Decimals[(m % 10) + 1])
               h == [n \in 0..m |-> IF n = m THEN new ELSE g[n]]
    <2>2. i \in Nat /\ m \in Nat /\ \A n \in 0..m : n = m \/ n \in 0..i
        OBVIOUS
    <2>3. \A n \in 0..m : n >= 10 => n \div 10 \in 0..i /\ n \div 10 \in 0..m /\ n \div 10 # m
        OBVIOUS
    <2>4. \A n \in 0..i : g[n] = IF n < 10 THEN <<Decimals[n + 1]>> ELSE Append(g[n \div 10], Decimals[(n % 10) + 1])
        BY <2>1, Zenon DEF Numerals
    <2>5. h = [n \in 0..m |-> h[n]] /\ h[m] = new /\ \A n \in 0..i : h[n] = g[n]
        <3> HIDE DEF new
        <3>1. m \in 0..m /\ \A n \in 0..i : n \in 0..m /\ n # m
            BY <2>2
        <3> QED
            BY <3>1
    <2> HIDE DEF h
    <2>6. ASSUME NEW n \in 0..m
          PROVE  h[n] = IF n < 10 THEN <<Decimals[n + 1]>> ELSE Append(h[n \div 10], Decimals[(n % 10) + 1])
        <3>1. CASE n < 10
            <4>1. CASE n = m
                BY <2>5, <3>1, <4>1, Zenon
            <4>2. CASE n \in 0..i
                BY <2>4, <2>5, <3>1, <4>2, Zenon
            <4> QED
                BY <2>2, <4>1, <4>2
        <3>2. CASE ~(n < 10)
            <4>1. n \div 10 \in 0..i
                BY <2>3, <3>2
            <4>2. h[n \div 10] = g[n \div 10]
                BY <2>5, <4>1
            <4>3. CASE n = m
                BY <2>5, <3>2, <4>2, <4>3, Zenon
            <4>4. CASE n \in 0..i
                BY <2>4, <2>5, <3>2, <4>2, <4>4, Zenon
            <4> QED
                BY <2>2, <4>3, <4>4
        <3> QED
            BY <3>1, <3>2
    <2>7. Numerals(h, m)
        <3> HIDE DEF m
        <3> QED
            BY <2>5, <2>6, Zenon DEF Numerals
    <2> QED
        BY <2>2, <2>7
<1>3. T = Nat
    <2> HIDE DEF T
    <2>1. T \in SUBSET Nat
        BY DEF T
    <2> QED
        BY <1>1, <1>2, <2>1, Induction
<1> QED
    BY <1>3

(* A numeral is the numeral of a tenth of the number, and its last digit. *)
LEMMA NumeralIs ==
    ASSUME NEW n \in 0..Int64Max
    PROVE  Numeral[n] = IF n < 10 THEN <<Decimals[n + 1]>> ELSE Append(Numeral[n \div 10], Decimals[(n % 10) + 1])
<1>1. Int64Max \in Nat
    BY ListingAssumption
<1>2. PICK g : Numerals(g, Int64Max)
    BY <1>1, NumeralsUpTo
<1>3. Numeral = CHOOSE h : h = [m \in 0..Int64Max |-> IF m < 10 THEN <<Decimals[m + 1]>> ELSE Append(h[m \div 10], Decimals[(m % 10) + 1])]
    BY DEF Numeral
<1>4. Numeral = [m \in 0..Int64Max |-> IF m < 10 THEN <<Decimals[m + 1]>> ELSE Append(Numeral[m \div 10], Decimals[(m % 10) + 1])]
    BY <1>2, <1>3, Zenon DEF Numerals
<1> QED
    BY <1>4, Zenon

Zeros(z) == [i \in 1..z |-> "0"]

(* What comes to nothing is nothing but zeros. *)
LEMMA ZerosAre ==
    ASSUME NEW z \in Nat
    PROVE  /\ Zeros(z) \in Seq(DecimalDigits) /\ Len(Zeros(z)) = z
           /\ Zeros(z + 1) = Append(Zeros(z), "0") /\ Zeros(0) = <<>>
<1>1. "0" \in DecimalDigits
    <2>1. Decimals[1] = "0" /\ 1 \in 1..10
        BY DEF Decimals
    <2> QED
        BY <2>1 DEF DecimalDigits
<1>2. Zeros(z) \in Seq(DecimalDigits) /\ Len(Zeros(z)) = z
    BY <1>1 DEF Zeros
<1>3. Zeros(z + 1) = Append(Zeros(z), "0")
    <2>1. Zeros(z + 1) \in Seq(DecimalDigits) /\ Len(Zeros(z + 1)) = z + 1 /\ \A i \in 1..(z + 1) : Zeros(z + 1)[i] = "0"
        BY <1>1 DEF Zeros
    <2>2. \A i \in 1..z : Zeros(z)[i] = "0"
        BY DEF Zeros
    <2> DEFINE a == Zeros(z)
               b == Zeros(z + 1)
               w == Append(a, "0")
    <2> HIDE DEF a, b
    <2>3. /\ w \in Seq(DecimalDigits) /\ Len(w) = z + 1 /\ w[z + 1] = "0"
          /\ \A i \in 1..z : w[i] = "0"
        <3>1. a \in Seq(DecimalDigits) /\ Len(a) = z /\ \A i \in 1..z : a[i] = "0"
            BY <1>2, <2>2 DEF a
        <3>2. /\ w \in Seq(DecimalDigits) /\ Len(w) = Len(a) + 1 /\ w[Len(a) + 1] = "0"
              /\ \A i \in 1..Len(a) : w[i] = a[i]
            BY <1>1, <3>1, EndsOf
        <3> HIDE DEF w
        <3> QED
            BY <3>1, <3>2
    <2> HIDE DEF w
    <2>4. b = w
        <3>1. b \in Seq(DecimalDigits) /\ Len(b) = z + 1 /\ \A i \in 1..(z + 1) : b[i] = "0"
            BY <2>1 DEF b
        <3>2. \A i \in 1..(z + 1) : w[i] = "0"
            BY <2>3
        <3> QED
            BY <2>3, <3>1, <3>2, SeqEqual
    <2> QED
        BY <2>4 DEF a, b, w
<1>4. Zeros(0) = <<>>
    BY DEF Zeros
<1> QED
    BY <1>2, <1>3, <1>4

(* And zeros come to nothing. *)
LEMMA ZerosComeToNothing ==
    ASSUME NEW z \in Nat
    PROVE  Size(Zeros(z)) = 0
<1> DEFINE T == {k \in Nat : Size(Zeros(k)) = 0}
<1>1. 0 \in T
    <2>1. Zeros(0) = <<>>
        BY ZerosAre
    <2> QED
        BY <2>1, SizeNothing
<1>2. ASSUME NEW k \in T
      PROVE  k + 1 \in T
    <2>1. Zeros(k + 1) = Append(Zeros(k), "0") /\ Zeros(k) \in Seq(DecimalDigits)
        BY ZerosAre
    <2>2. "0" \in DecimalDigits /\ ValueOf("0") = 0
        <3>1. Decimals[0 + 1] = "0"
            BY DEF Decimals
        <3>2. Decimals[0 + 1] \in DecimalDigits /\ ValueOf(Decimals[0 + 1]) = 0
            BY DigitIs
        <3> QED
            BY <3>1, <3>2
    <2>3. Size(Zeros(k + 1)) = 10 * Size(Zeros(k)) + ValueOf("0")
        BY <2>1, <2>2, SizeLonger
    <2>4. Size(Zeros(k)) = 0
        OBVIOUS
    <2>5. Size(Zeros(k + 1)) = 0
        BY <2>2, <2>3, <2>4
    <2> QED
        BY <2>5
<1>3. T = Nat
    <2> HIDE DEF T
    <2>1. T \in SUBSET Nat
        BY DEF T
    <2> QED
        BY <1>1, <1>2, <2>1, Induction
<1> QED
    BY <1>3

(* One element more behind two sequences. *)
LEMMA AppendBehind ==
    ASSUME NEW S, NEW s \in Seq(S), NEW u \in Seq(S), NEW x \in S
    PROVE  s \o Append(u, x) = Append(s \o u, x)
OBVIOUS

(* Numerals are digits, and come to their number, behind any zeros. *)
LEMMA DecimalOf ==
    ASSUME NEW n \in 0..Int64Max
    PROVE  /\ Numeral[n] \in Seq(DecimalDigits) /\ Numeral[n] # <<>>
           /\ \A z \in Nat : Size(Zeros(z) \o Numeral[n]) = n
<1> DEFINE Good(m) == /\ Numeral[m] \in Seq(DecimalDigits) /\ Numeral[m] # <<>>
                      /\ \A z \in Nat : Size(Zeros(z) \o Numeral[m]) = m
           T == {k \in Nat : \A m \in 0..k : m <= Int64Max => Good(m)}
<1>0. Int64Max \in Nat
    BY ListingAssumption
<1>1. ASSUME NEW m \in 0..Int64Max, m < 10
      PROVE  Good(m)
    <2> DEFINE c == Decimals[m + 1]
               S == DecimalDigits
    <2>1. m \in 0..9 /\ m + 1 \in 1..10
        BY <1>0, <1>1
    <2>2. c \in S /\ ValueOf(c) = m
        BY <2>1, DigitIs
    <2>3. Numeral[m] = <<c>>
        BY <1>1, NumeralIs
    <2> HIDE DEF c, S
    <2>4. <<c>> \in Seq(S) /\ <<c>> # <<>>
        BY <2>2
    <2>5. ASSUME NEW z \in Nat
          PROVE  Size(Zeros(z) \o <<c>>) = m
        <3>1. Zeros(z) \in Seq(S) /\ Size(Zeros(z)) = 0
            BY ZerosAre, ZerosComeToNothing DEF S
        <3> DEFINE o == Zeros(z)
        <3> HIDE DEF o
        <3>2. o \o <<c>> = Append(o, c)
            BY <2>2, <3>1 DEF o
        <3>3. Size(Append(o, c)) = 10 * Size(o) + ValueOf(c)
            BY <2>2, <3>1, SizeLonger DEF o, S
        <3>4. Size(Append(o, c)) = m
            BY <2>1, <2>2, <3>1, <3>3 DEF o
        <3> QED
            BY <3>2, <3>4 DEF o
    <2> QED
        BY <2>3, <2>4, <2>5 DEF S
<1>2. ASSUME NEW m \in 0..Int64Max, m >= 10, Good(m \div 10)
      PROVE  Good(m)
    <2> DEFINE q == m \div 10
               c == Decimals[(m % 10) + 1]
               S == DecimalDigits
               u == Numeral[q]
    <2>1. m % 10 \in 0..9 /\ q \in Nat /\ 10 * q + (m % 10) = m
        BY <1>0
    <2>2. c \in S /\ ValueOf(c) = m % 10
        BY <2>1, DigitIs
    <2>3. Numeral[m] = Append(u, c)
        <3>1. ~(m < 10)
            BY <1>0, <1>2
        <3> QED
            BY <3>1, NumeralIs, Zenon
    <2>4. u \in Seq(S) /\ \A z \in Nat : Size(Zeros(z) \o u) = q
        BY <1>2
    <2> HIDE DEF c, S, q, u
    <2>5. Append(u, c) \in Seq(S) /\ Append(u, c) # <<>>
        BY <2>2, <2>4, EndsOf
    <2>6. ASSUME NEW z \in Nat
          PROVE  Size(Zeros(z) \o Append(u, c)) = m
        <3>1. Zeros(z) \in Seq(S)
            BY ZerosAre DEF S
        <3> DEFINE o == Zeros(z)
                   p == o \o u
        <3> HIDE DEF o
        <3>2. o \o Append(u, c) = Append(p, c)
            BY <2>2, <2>4, <3>1, AppendBehind DEF o
        <3>3. p \in Seq(S)
            BY <2>4, <3>1, Concatenation DEF o
        <3>4. Size(p) = q
            BY <2>4 DEF o
        <3> HIDE DEF p
        <3>5. Size(Append(p, c)) = 10 * Size(p) + ValueOf(c)
            BY <2>2, <3>3, SizeLonger DEF S
        <3>6. Size(Append(p, c)) = m
            BY <2>1, <2>2, <3>4, <3>5
        <3> QED
            BY <3>2, <3>6 DEF o
    <2> QED
        BY <2>3, <2>5, <2>6 DEF S
<1> HIDE DEF Good
<1>3. 0 \in T
    BY <1>0, <1>1
<1>4. ASSUME NEW k \in T
      PROVE  k + 1 \in T
    <2> SUFFICES ASSUME NEW m \in 0..(k + 1), m <= Int64Max PROVE Good(m)
        OBVIOUS
    <2>1. CASE m <= k
        BY <2>1
    <2>2. CASE m = k + 1 /\ m < 10
        BY <1>0, <1>1, <2>2
    <2>3. CASE m = k + 1 /\ m >= 10
        <3>1. m \div 10 \in 0..k /\ m \div 10 <= Int64Max
            BY <1>0, <2>3
        <3>2. Good(m \div 10)
            BY <3>1
        <3> QED
            BY <1>0, <1>2, <2>3, <3>2
    <2> QED
        BY <2>1, <2>2, <2>3
<1>5. T = Nat
    <2> HIDE DEF T
    <2>1. T \in SUBSET Nat
        BY DEF T
    <2> QED
        BY <1>3, <1>4, <2>1, Induction
<1>6. Good(n)
    BY <1>0, <1>5
<1> QED
    BY <1>6 DEF Good

(* What comes to n is n's digits behind zeros. *)
LEMMA DigitsReadBack ==
    ASSUME NEW s \in Seq(DecimalDigits), Size(s) \in 1..Int64Max
    PROVE  \E z \in 0..Len(s) : s = Zeros(z) \o Numeral[Size(s)]
<1> DEFINE S == DecimalDigits
           p(k) == SubSeq(s, 1, k)
           Q(k) == \/ Size(p(k)) = 0 /\ p(k) = Zeros(k)
                   \/ /\ Size(p(k)) > 0
                      /\ Size(p(k)) <= Int64Max => \E z \in 0..k : p(k) = Zeros(z) \o Numeral[Size(p(k))]
           T == {k \in Nat : k <= Len(s) => Q(k)}
<1>0. Int64Max \in Nat /\ Len(s) \in Nat
    BY ListingAssumption
<1>1. /\ p(0) = <<>> /\ p(Len(s)) = s
      /\ \A k \in 0..Len(s) : p(k) \in Seq(S)
      /\ \A k \in Nat : k + 1 <= Len(s) => s[k + 1] \in S /\ p(k + 1) = Append(p(k), s[k + 1])
    BY Beginnings
<1> HIDE DEF S, p
<1>2. 0 \in T
    <2>1. Size(p(0)) = 0 /\ Zeros(0) = <<>>
        BY <1>1, SizeNothing, ZerosAre
    <2> QED
        BY <1>1, <2>1
<1>3. ASSUME NEW k \in T
      PROVE  k + 1 \in T
    <2> SUFFICES ASSUME k + 1 <= Len(s) PROVE Q(k + 1)
        <3> HIDE DEF Q
        <3> QED
            OBVIOUS
    <2> DEFINE a == p(k)
               c == s[k + 1]
               v == ValueOf(c)
               n == Size(a)
               m == 10 * n + v
    <2>1. k \in Nat /\ a \in Seq(S) /\ c \in S /\ p(k + 1) = Append(a, c)
        BY <1>0, <1>1
    <2>2. v \in 0..9 /\ Decimals[v + 1] = c
        BY <2>1, DigitIs DEF S
    <2>3. n \in Nat /\ Size(p(k + 1)) = m
        BY <2>1, SizeType, SizeLonger DEF S
    <2>4. Q(k)
        <3>1. k <= Len(s)
            BY <1>0
        <3> HIDE DEF Q
        <3> QED
            BY <3>1
    <2> HIDE DEF a, c, v, n
    <2>5. CASE n = 0
        <3>1. a = Zeros(k)
            BY <2>4, <2>5 DEF a, n
        <3>2. m = v
            BY <2>2, <2>5
        <3>3. CASE v = 0
            <4>1. c = "0"
                BY <2>2, <3>3 DEF Decimals
            <4>2. p(k + 1) = Zeros(k + 1)
                BY <2>1, <3>1, <4>1, ZerosAre
            <4> QED
                BY <2>3, <3>2, <3>3, <4>2
        <3>4. CASE v > 0
            <4>1. v <= Int64Max => Numeral[v] = <<c>>
                <5>1. v <= Int64Max => v \in 0..Int64Max /\ v < 10
                    BY <1>0, <2>2
                <5>2. v <= Int64Max => Numeral[v] = <<Decimals[v + 1]>>
                    BY <5>1, NumeralIs
                <5> QED
                    BY <2>2, <5>2
            <4>2. a \o <<c>> = Append(a, c)
                BY <2>1
            <4>3. k \in 0..(k + 1)
                BY <2>1
            <4>4. v <= Int64Max => p(k + 1) = Zeros(k) \o Numeral[v]
                BY <2>1, <3>1, <4>1, <4>2
            <4> QED
                BY <2>2, <2>3, <3>2, <3>4, <4>3, <4>4
        <3> QED
            BY <2>2, <3>3, <3>4, SMTT(30)
    <2>6. CASE n > 0
        <3>1. m > 0 /\ m >= 10 /\ n <= m /\ m \div 10 = n /\ m % 10 = v
            BY <2>2, <2>3, <2>6
        <3>2. ASSUME m <= Int64Max
              PROVE  \E z \in 0..(k + 1) : p(k + 1) = Zeros(z) \o Numeral[m]
            <4>1. PICK z \in 0..k : a = Zeros(z) \o Numeral[n]
                <5>1. n <= Int64Max /\ ~(n = 0)
                    BY <1>0, <2>3, <2>6, <3>1, <3>2, <2>2
                <5> QED
                    BY <2>4, <5>1 DEF a, n
            <4>2. Numeral[m] = Append(Numeral[n], c)
                <5>1. m \in 0..Int64Max /\ ~(m < 10)
                    BY <1>0, <2>2, <2>3, <3>1, <3>2
                <5>2. Numeral[m] = Append(Numeral[m \div 10], Decimals[(m % 10) + 1])
                    BY <5>1, NumeralIs
                <5> HIDE DEF m
                <5> QED
                    BY <2>2, <3>1, <5>2
            <4>z. z \in Nat
                BY <2>1
            <4>3. z \in Nat /\ Zeros(z) \in Seq(S) /\ Numeral[n] \in Seq(S)
                <5>1. n \in 0..Int64Max
                    BY <1>0, <2>2, <2>3, <3>1, <3>2
                <5> QED
                    BY <4>z, <5>1, ZerosAre, DecimalOf, Zenon DEF S
            <4>4. Zeros(z) \o Append(Numeral[n], c) = Append(Zeros(z) \o Numeral[n], c)
                <5> DEFINE o == Zeros(z)
                           u == Numeral[n]
                <5>1. o \in Seq(S) /\ u \in Seq(S)
                    BY <4>3
                <5> HIDE DEF o, u
                <5>2. o \o Append(u, c) = Append(o \o u, c)
                    BY <2>1, <5>1, AppendBehind, SMTT(30)
                <5> QED
                    BY <5>2 DEF o, u
            <4>5. p(k + 1) = Zeros(z) \o Numeral[m]
                BY <2>1, <4>1, <4>2, <4>4
            <4>6. z \in 0..(k + 1)
                BY <2>1
            <4> QED
                BY <4>5, <4>6
        <3> QED
            BY <2>3, <3>1, <3>2
    <2>7. n = 0 \/ n > 0
        BY <2>3
    <2> HIDE DEF Q
    <2> QED
        BY <2>5, <2>6, <2>7
<1>4. T = Nat
    <2> HIDE DEF T
    <2>1. T \in SUBSET Nat
        BY DEF T
    <2> QED
        BY <1>2, <1>3, <2>1, Induction
<1>5. Q(Len(s))
    <2>1. Len(s) \in T /\ Len(s) <= Len(s)
        <3> HIDE DEF T
        <3> QED
            BY <1>0, <1>4
    <2> HIDE DEF Q
    <2> QED
        BY <2>1
<1>6. Size(p(Len(s))) = Size(s) /\ Size(s) > 0 /\ Size(s) <= Int64Max
    BY <1>0, <1>1
<1>7. \E z \in 0..Len(s) : p(Len(s)) = Zeros(z) \o Numeral[Size(p(Len(s)))]
    <2>1. Size(p(Len(s))) # 0
        BY <1>0, <1>6
    <2> QED
        BY <1>5, <1>6, <2>1, Zenon
<1> QED
    BY <1>1, <1>7

Unsigned(digits) ==
    IF digits = <<>> \/ \E i \in 1..Len(digits) : ~IsDigit(digits[i]) THEN NotANumber
    ELSE IF FitsInt64(Size(digits)) THEN Size(digits) ELSE NotANumber

(* atoi reads a number behind no sign exactly from its numeral behind zeros. *)
LEMMA UnsignedReads ==
    ASSUME NEW B, NEW d \in Seq(B), NEW n \in 1..Int64Max
    PROVE  Unsigned(d) = n <=> \E z \in 0..Len(d) : d = Zeros(z) \o Numeral[n]
<1>0. Int64Max \in Nat /\ n \in 0..Int64Max /\ NotANumber # n
    BY ListingAssumption DEF NotANumber
<1>1. ASSUME Unsigned(d) = n
      PROVE  \E z \in 0..Len(d) : d = Zeros(z) \o Numeral[n]
    <2>1. \A i \in 1..Len(d) : IsDigit(d[i])
        BY <1>0, <1>1 DEF Unsigned
    <2>2. d \in Seq(DecimalDigits)
        <3>1. \A i \in 1..Len(d) : d[i] \in DecimalDigits
            BY <2>1, DigitIs
        <3> QED
            BY <3>1
    <2>3. Size(d) = n
        BY <1>0, <1>1, <2>1, Zenon DEF Unsigned
    <2>4. \E z \in 0..Len(d) : d = Zeros(z) \o Numeral[Size(d)]
        BY <2>2, <2>3, DigitsReadBack
    <2> QED
        BY <2>3, <2>4
<1>2. ASSUME NEW z \in 0..Len(d), d = Zeros(z) \o Numeral[n]
      PROVE  Unsigned(d) = n
    <2>1. z \in Nat
        OBVIOUS
    <2>2. Zeros(z) \in Seq(DecimalDigits) /\ Numeral[n] \in Seq(DecimalDigits) /\ Numeral[n] # <<>>
        BY <1>0, <2>1, ZerosAre, DecimalOf
    <2>3. Size(d) = n
        BY <1>0, <1>2, <2>1, DecimalOf
    <2>4. d \in Seq(DecimalDigits) /\ d # <<>>
        <3> DEFINE o == Zeros(z)
                   u == Numeral[n]
        <3>1. o \in Seq(DecimalDigits) /\ u \in Seq(DecimalDigits) /\ u # <<>> /\ d = o \o u
            BY <1>2, <2>2
        <3> HIDE DEF o, u
        <3>2. o \o u \in Seq(DecimalDigits) /\ Len(o \o u) = Len(o) + Len(u)
            BY <3>1, Concatenation
        <3>3. Len(u) > 0 /\ Len(o) \in Nat
            BY <3>1
        <3> QED
            BY <3>1, <3>2, <3>3
    <2>5. \A i \in 1..Len(d) : IsDigit(d[i])
        BY <2>4, DigitIs
    <2>6. FitsInt64(n)
        BY <1>0 DEF FitsInt64
    <2> QED
        BY <2>3, <2>4, <2>5, <2>6, Zenon DEF Unsigned
<1> QED
    BY <1>1, <1>2

(* atoi by the sign its text begins with. *)
LEMMA AtoiIs ==
    ASSUME NEW B, NEW text \in Seq(B)
    PROVE  /\ text = <<>> \/ text[1] \notin {"+", "-"} => Atoi(text) = Unsigned(text)
           /\ text # <<>> /\ text[1] = "+" => Atoi(text) = Unsigned(Tail(text))
           /\ text # <<>> /\ text[1] = "-" => \A n \in 1..Int64Max : Atoi(text) # n
           /\ Atoi(text) \in Int /\ (Atoi(text) > 0 => Atoi(text) \in 1..Int64Max)
<1>0. Int64Max \in Nat /\ NotANumber \in Int /\ NotANumber < 0
    BY ListingAssumption DEF NotANumber
<1>1. text = <<>> \/ text[1] \notin {"+", "-"} => Atoi(text) = Unsigned(text)
    BY Zenon DEF Atoi, Unsigned
<1>2. text # <<>> /\ text[1] = "+" => Atoi(text) = Unsigned(Tail(text))
    <2>1. "+" # "-"
        OBVIOUS
    <2> QED
        BY <2>1, Zenon DEF Atoi, Unsigned
<1>3. text # <<>> /\ text[1] = "-" => Atoi(text) = LET d == Tail(text) IN
                                         IF d = <<>> \/ \E i \in 1..Len(d) : ~IsDigit(d[i]) THEN NotANumber
                                         ELSE IF FitsInt64(0 - Size(d)) THEN 0 - Size(d) ELSE NotANumber
    BY Zenon DEF Atoi
<1>4. \A d \in Seq(B) : (\A i \in 1..Len(d) : IsDigit(d[i])) => Size(d) \in Nat
    <2> SUFFICES ASSUME NEW d \in Seq(B), \A i \in 1..Len(d) : IsDigit(d[i]) PROVE Size(d) \in Nat
        OBVIOUS
    <2>1. \A i \in 1..Len(d) : d[i] \in DecimalDigits
        BY DigitIs
    <2>2. d \in Seq(DecimalDigits)
        BY <2>1
    <2> QED
        BY <2>2, SizeType
<1>5. \A d \in Seq(B) : Unsigned(d) = NotANumber \/ Unsigned(d) \in 0..Int64Max
    <2> SUFFICES ASSUME NEW d \in Seq(B), Unsigned(d) # NotANumber PROVE Unsigned(d) \in 0..Int64Max
        OBVIOUS
    <2>1. Unsigned(d) = Size(d) /\ FitsInt64(Size(d)) /\ \A i \in 1..Len(d) : IsDigit(d[i])
        BY Zenon DEF Unsigned
    <2>2. Size(d) \in Nat
        BY <1>4, <2>1
    <2> QED
        BY <1>0, <2>1, <2>2 DEF FitsInt64
<1>6. CASE text = <<>> \/ text[1] \notin {"+", "-"}
    <2>1. Atoi(text) = NotANumber \/ Atoi(text) \in 0..Int64Max
        BY <1>1, <1>5, <1>6
    <2> QED
        BY <1>0, <1>1, <1>2, <1>6, <2>1
<1>7. CASE text # <<>> /\ text[1] = "+"
    <2>1. Tail(text) \in Seq(B)
        BY <1>7
    <2>2. Atoi(text) = NotANumber \/ Atoi(text) \in 0..Int64Max
        BY <1>2, <1>5, <1>7, <2>1
    <2> QED
        BY <1>0, <1>2, <1>7, <2>2
<1>8. CASE text # <<>> /\ text[1] = "-"
    <2> DEFINE d == Tail(text)
    <2>1. d \in Seq(B)
        BY <1>8
    <2> HIDE DEF d
    <2>2. Atoi(text) = IF d = <<>> \/ \E i \in 1..Len(d) : ~IsDigit(d[i]) THEN NotANumber
                       ELSE IF FitsInt64(0 - Size(d)) THEN 0 - Size(d) ELSE NotANumber
        BY <1>3, <1>8, Zenon DEF d
    <2>3. Atoi(text) = NotANumber \/ (Atoi(text) = 0 - Size(d) /\ Size(d) \in Nat)
        BY <1>4, <2>1, <2>2
    <2>4. Atoi(text) \in Int /\ Atoi(text) <= 0
        BY <1>0, <2>3
    <2> QED
        BY <1>0, <1>8, <2>4
<1> QED
    BY <1>6, <1>7, <1>8

(* A sequence behind one element. *)
LEMMA OneBefore ==
    ASSUME NEW S, NEW c \in S, NEW w \in Seq(S)
    PROVE  /\ <<c>> \o w \in Seq(S) /\ Len(<<c>> \o w) = Len(w) + 1 /\ <<c>> \o w # <<>>
           /\ (<<c>> \o w)[1] = c /\ Tail(<<c>> \o w) = w
<1> DEFINE p == <<c>>
           v == p \o w
<1>1. p \in Seq(S) /\ Len(p) = 1 /\ p[1] = c /\ Len(w) \in Nat
    OBVIOUS
<1> HIDE DEF p
<1>2. v \in Seq(S) /\ Len(v) = 1 + Len(w) /\ v[1] = c /\ \A i \in 1..Len(w) : v[i + 1] = w[i]
    <2>1. /\ v \in Seq(S) /\ Len(v) = Len(p) + Len(w)
          /\ \A i \in 1..(Len(p) + Len(w)) : v[i] = IF i <= Len(p) THEN p[i] ELSE w[i - Len(p)]
        BY <1>1, Concatenation
    <2> HIDE DEF v
    <2>2. \A i \in 1..Len(w) : i + 1 \in 1..(1 + Len(w)) /\ ~(i + 1 <= 1) /\ (i + 1) - 1 = i
        BY <1>1
    <2>3. \A i \in 1..Len(w) : v[i + 1] = w[i]
        BY <1>1, <2>1, <2>2
    <2> QED
        BY <1>1, <2>1, <2>3
<1> HIDE DEF v
<1>3. v # <<>> /\ Tail(v) \in Seq(S) /\ Len(Tail(v)) = Len(w) /\ \A i \in 1..Len(w) : Tail(v)[i] = v[i + 1]
    BY <1>1, <1>2
<1>4. Tail(v) = w
    BY <1>2, <1>3, SeqEqual
<1> QED
    BY <1>1, <1>2, <1>3, <1>4 DEF p, v

(* A sequence is its first element and the rest. *)
LEMMA FirstAndRest ==
    ASSUME NEW S, NEW s \in Seq(S), s # <<>>
    PROVE  s[1] \in S /\ Tail(s) \in Seq(S) /\ s = <<s[1]>> \o Tail(s)
<1> DEFINE d == Tail(s)
           c == s[1]
           v == <<c>> \o d
<1>1. d \in Seq(S) /\ Len(d) = Len(s) - 1 /\ Len(s) \in Nat \ {0} /\ c \in S /\ \A i \in 1..Len(d) : d[i] = s[i + 1]
    OBVIOUS
<1> HIDE DEF d, c
<1>2. v \in Seq(S) /\ Len(v) = Len(d) + 1 /\ v[1] = c /\ Tail(v) = d /\ v # <<>>
    BY <1>1, OneBefore
<1> HIDE DEF v
<1>3. \A i \in 1..(Len(v) - 1) : Tail(v)[i] = v[i + 1]
    BY <1>1, <1>2
<1>4. ASSUME NEW i \in 1..Len(s)
      PROVE  v[i] = s[i]
    <2>1. CASE i = 1
        BY <1>2, <2>1 DEF c
    <2>2. CASE i # 1
        <3>1. i - 1 \in 1..Len(d) /\ i - 1 \in 1..(Len(v) - 1) /\ (i - 1) + 1 = i
            BY <1>1, <1>2, <2>2
        <3> QED
            BY <1>1, <1>2, <1>3, <3>1
    <2> QED
        BY <2>1, <2>2
<1>5. v = s
    BY <1>1, <1>2, <1>4, SeqEqual
<1> QED
    BY <1>1, <1>5 DEF c, d, v

(* n's digits, behind z zeros. *)
Padded(z, n) == Zeros(z) \o Numeral[n]

(* A numeral behind zeros is digits. *)
LEMMA WrittenIs ==
    ASSUME NEW n \in 1..Int64Max, NEW z \in Nat
    PROVE  /\ Padded(z, n) \in Seq(DecimalDigits) /\ Len(Padded(z, n)) \in Nat /\ z <= Len(Padded(z, n))
           /\ Padded(z, n) # <<>> /\ Padded(z, n)[1] \in DecimalDigits
<1> DEFINE o == Zeros(z)
           u == Numeral[n]
           w == o \o u
<1>1. n \in 0..Int64Max
    BY ListingAssumption
<1>2. o \in Seq(DecimalDigits) /\ Len(o) = z /\ u \in Seq(DecimalDigits) /\ u # <<>>
    BY <1>1, ZerosAre, DecimalOf
<1> HIDE DEF o, u
<1>3. Len(u) \in Nat \ {0}
    BY <1>2
<1>4. w \in Seq(DecimalDigits) /\ Len(w) = z + Len(u)
    BY <1>2, Concatenation
<1> HIDE DEF w
<1>5. w # <<>> /\ w[1] \in DecimalDigits
    BY <1>3, <1>4
<1> QED
    BY <1>3, <1>4, <1>5 DEF Padded, w, o, u

(* What is written is not taken for a sign, and a plus before it can be told. *)
LEMMA SignIsTold ==
    ASSUME NEW n \in 1..Int64Max, NEW z \in Nat
    PROVE  /\ Padded(z, n) # <<>> /\ Padded(z, n)[1] # "+" /\ Padded(z, n)[1] # "-"
           /\ <<"+">> \o Padded(z, n) # <<>> /\ (<<"+">> \o Padded(z, n))[1] = "+"
           /\ Tail(<<"+">> \o Padded(z, n)) = Padded(z, n)
<1> DEFINE S == DecimalDigits \cup {"+"}
           w == Padded(z, n)
<1>1. w \in Seq(DecimalDigits) /\ w # <<>> /\ w[1] \in DecimalDigits
    BY WrittenIs
<1>2. \A c \in DecimalDigits : c # "+" /\ c # "-"
    <2>1. ASSUME NEW i \in 1..10
          PROVE  Decimals[i] \notin {"+", "-"}
        <3>1. i - 1 \in 0..9 /\ (i - 1) + 1 = i
            OBVIOUS
        <3> QED
            BY <3>1, DigitIs
    <2>2. \A c \in DecimalDigits : \E i \in 1..10 : c = Decimals[i]
        BY DEF DecimalDigits
    <2> QED
        BY <2>1, <2>2
<1> HIDE DEF w
<1>3. w \in Seq(S) /\ "+" \in S
    BY <1>1
<1> HIDE DEF S
<1>4. <<"+">> \o w # <<>> /\ (<<"+">> \o w)[1] = "+" /\ Tail(<<"+">> \o w) = w
    BY <1>3, OneBefore
<1> QED
    BY <1>1, <1>2, <1>4 DEF w

(* A number is read behind a plus, or behind nothing. *)
LEMMA ReadsAsWritten ==
    ASSUME NEW B, NEW text \in Seq(B), NEW n \in 1..Int64Max
    PROVE  ReadsAs(text, n) <=> \E z \in 0..Len(text) : text = Padded(z, n) \/ text = <<"+">> \o Padded(z, n)
<1>1. ReadsAs(text, n) <=> \E p \in {<<>>, <<"+">>}, z \in 0..Len(text) : text = (p \o Zeros(z)) \o Numeral[n]
    BY Zenon DEF ReadsAs, Zeros
<1>2. ASSUME NEW z \in 0..Len(text)
      PROVE  (<<>> \o Zeros(z)) \o Numeral[n] = Padded(z, n) /\ (<<"+">> \o Zeros(z)) \o Numeral[n] = <<"+">> \o Padded(z, n)
    <2> DEFINE S == DecimalDigits \cup {"+"}
               o == Zeros(z)
               u == Numeral[n]
               p == <<"+">>
    <2>1. o \in Seq(S) /\ u \in Seq(S)
        <3>1. z \in Nat /\ n \in 0..Int64Max
            BY ListingAssumption
        <3>2. o \in Seq(DecimalDigits) /\ u \in Seq(DecimalDigits)
            BY <3>1, ZerosAre, DecimalOf
        <3> HIDE DEF o, u
        <3> QED
            BY <3>2
    <2>2. p \in Seq(S)
        OBVIOUS
    <2> HIDE DEF S, o, u, p
    <2>3. <<>> \o o = o
        BY <2>1, ConcatEmptySeq
    <2>4. (p \o o) \o u = p \o (o \o u)
        <3>1. \A a, b, c \in Seq(S) : (a \o b) \o c = a \o (b \o c)
            BY ConcatAssociative, SMTT(30)
        <3> QED
            BY <2>1, <2>2, <3>1, Zenon
    <2>5. (<<>> \o o) \o u = o \o u
        BY <2>3
    <2> QED
        BY <2>4, <2>5, Zenon DEF Padded, o, u, p
<1> QED
    BY <1>1, <1>2, Zenon

(* atoi reads what is written as a number that can be asked for. *)
LEMMA AtoiReads ==
    ASSUME NEW B, NEW text \in Seq(B), NEW n \in 1..Int64Max
    PROVE  Atoi(text) = n <=> ReadsAs(text, n)
<1>1. Len(text) \in Nat /\ \A z \in 0..Len(text) : z \in Nat
    OBVIOUS
<1>2. CASE text = <<>> \/ text[1] \notin {"+", "-"}
    <2>1. Atoi(text) = n <=> \E z \in 0..Len(text) : text = Padded(z, n)
        BY <1>2, AtoiIs, UnsignedReads, Zenon DEF Padded
    <2>2. ASSUME NEW z \in 0..Len(text)
          PROVE  text # <<"+">> \o Padded(z, n)
        <3>1. <<"+">> \o Padded(z, n) # <<>> /\ (<<"+">> \o Padded(z, n))[1] = "+"
            BY <1>1, SignIsTold
        <3> QED
            BY <1>2, <3>1, Zenon
    <2> QED
        BY <2>1, <2>2, ReadsAsWritten, Zenon
<1>3. CASE text # <<>> /\ text[1] = "+"
    <2> DEFINE d == Tail(text)
    <2>1. d \in Seq(B) /\ text = <<"+">> \o d /\ Len(text) = Len(d) + 1 /\ Len(d) \in Nat
        <3>1. d \in Seq(B) /\ text = <<"+">> \o d
            BY <1>3, FirstAndRest
        <3>2. Len(text) = Len(d) + 1 /\ Len(d) \in Nat
            BY <1>3
        <3> QED
            BY <3>1, <3>2
    <2>2. Atoi(text) = Unsigned(d)
        BY <1>3, AtoiIs
    <2>3. ASSUME NEW z \in Nat, text = <<"+">> \o Padded(z, n)
          PROVE  d = Padded(z, n)
        BY <2>3, SignIsTold, Zenon
    <2> HIDE DEF d
    <2>4. Atoi(text) = n <=> \E z \in 0..Len(d) : d = Padded(z, n)
        BY <2>1, <2>2, UnsignedReads, Zenon DEF Padded
    <2>5. ASSUME NEW z \in 0..Len(text)
          PROVE  text # Padded(z, n)
        <3>1. Padded(z, n)[1] # "+"
            BY <1>1, SignIsTold
        <3> QED
            BY <1>3, <3>1, Zenon
    <2>6. ASSUME NEW z \in 0..Len(d), d = Padded(z, n)
          PROVE  z \in 0..Len(text) /\ text = <<"+">> \o Padded(z, n)
        <3>1. z \in 0..Len(text)
            BY <2>1
        <3> QED
            BY <2>1, <2>6, <3>1, Zenon
    <2>7. ASSUME NEW z \in 0..Len(text), text = <<"+">> \o Padded(z, n)
          PROVE  z \in 0..Len(d) /\ d = Padded(z, n)
        <3>1. z \in Nat
            BY <1>1
        <3>2. d = Padded(z, n)
            BY <2>3, <2>7, <3>1
        <3>3. z <= Len(d)
            BY <3>1, <3>2, WrittenIs
        <3> QED
            BY <2>1, <3>1, <3>2, <3>3
    <2> QED
        BY <2>4, <2>5, <2>6, <2>7, ReadsAsWritten, Zenon
<1>4. CASE text # <<>> /\ text[1] = "-"
    <2>1. Atoi(text) # n
        BY <1>4, AtoiIs
    <2>2. ASSUME NEW z \in 0..Len(text)
          PROVE  text # Padded(z, n) /\ text # <<"+">> \o Padded(z, n)
        <3>1. Padded(z, n)[1] # "-" /\ (<<"+">> \o Padded(z, n))[1] = "+"
            BY <1>1, SignIsTold
        <3>2. "+" # "-"
            OBVIOUS
        <3> QED
            BY <1>4, <3>1, <3>2, Zenon
    <2> QED
        BY <2>1, <2>2, ReadsAsWritten, Zenon
<1>5. text = <<>> \/ text[1] \notin {"+", "-"} \/ (text # <<>> /\ text[1] = "+") \/ (text # <<>> /\ text[1] = "-")
    OBVIOUS
<1> QED
    BY <1>2, <1>3, <1>4, <1>5

(* Query.get gives what the query string says of a name. *)
LEMMA GetSays ==
    ASSUME query \in Seq(Pairs), NEW name, NEW v
    PROVE  Says(name, v) <=> v = Get(name)
<1> DEFINE R == Readable(name)
<1>1. /\ Len(query) \in Nat
      /\ R \in SUBSET (1..Len(query))
      /\ \A i \in 1..Len(query) : i \in R <=> ~Dropped(query[i]) /\ query[i].name = name
    BY DEF Readable
<1>2. CASE R = {}
    <2>1. Get(name) = <<>>
        BY <1>2 DEF Get
    <2>2. \A i \in 1..Len(query) : query[i].name = name => Dropped(query[i])
        BY <1>1, <1>2
    <2> QED
        BY <2>1, <2>2, Zenon DEF Says
<1>3. CASE R # {}
    <2>1. R \in SUBSET Nat
        BY <1>1
    <2> HIDE DEF R
    <2>2. PICK m \in R : \A j \in R : m <= j
        BY <1>3, <2>1, LeastNatural
    <2> DEFINE c == CHOOSE i \in R : \A j \in R : i <= j
    <2>3. c \in R /\ \A j \in R : c <= j
        BY <2>2
    <2> HIDE DEF c
    <2>4. c = m
        BY <2>1, <2>2, <2>3
    <2>5. Get(name) = UnescapeQuery(query[m].value)
        BY <1>3, <2>4 DEF Get, c, R
    <2>6. m \in 1..Len(query) /\ ~Dropped(query[m]) /\ query[m].name = name
        BY <1>1, <2>2
    <2>7. \A j \in 1..(m - 1) : query[j].name = name => Dropped(query[j])
        <3>1. \A j \in 1..(m - 1) : j \in 1..Len(query) /\ ~(m <= j)
            BY <1>1, <2>6
        <3> QED
            BY <1>1, <2>2, <3>1
    <2>8. ASSUME NEW i \in 1..Len(query), ~Dropped(query[i]), query[i].name = name,
                 \A j \in 1..(i - 1) : query[j].name = name => Dropped(query[j])
          PROVE  i = m
        <3>1. i \in R
            BY <1>1, <2>8
        <3>2. m <= i
            BY <2>2, <3>1
        <3>3. ~(m \in 1..(i - 1))
            BY <2>6, <2>8
        <3> QED
            BY <1>1, <2>6, <3>2, <3>3
    <2>9. Says(name, v) => v = Get(name)
        BY <2>5, <2>6, <2>8, Zenon DEF Says
    <2>10. v = Get(name) => Says(name, v)
        BY <2>5, <2>6, <2>7, Zenon DEF Says
    <2> QED
        BY <2>9, <2>10
<1> QED
    BY <1>2, <1>3

Characters == STRING \cup {" ", "+"}

(* What is read is characters. *)
LEMMA UnescapedIs ==
    ASSUME query \in Seq(Pairs), NEW i \in 1..Len(query)
    PROVE  UnescapeQuery(query[i].value) \in Seq(Characters)
<1> DEFINE text == query[i].value
           B == Characters
<1>1. query[i] \in Pairs
    OBVIOUS
<1>2. text \in ShipTexts \cup TypeTexts \cup LimitTexts
    BY <1>1 DEF Pairs
<1>3. text \in Seq(STRING)
    BY <1>2, ListingAssumption
<1> HIDE DEF text, B
<1>4. Len(text) \in Nat /\ \A k \in 1..Len(text) : text[k] \in B
    <2>1. Len(text) \in Nat /\ \A k \in 1..Len(text) : text[k] \in STRING
        <3> DEFINE A == STRING
        <3>1. text \in Seq(A)
            BY <1>3
        <3> HIDE DEF A
        <3>2. Len(text) \in Nat /\ \A k \in 1..Len(text) : text[k] \in A
            BY <3>1
        <3> QED
            BY <3>2 DEF A
    <2>2. \A c \in STRING : c \in B
        BY DEF B, Characters
    <2> QED
        BY <2>1, <2>2, Zenon
<1>5. " " \in B /\ "+" \in B
    BY DEF B, Characters
<1>6. \A k \in 1..Len(text) : (CASE text[k] = "+" -> " " [] text[k] = "%2B" -> "+" [] OTHER -> text[k]) \in B
    BY <1>4, <1>5
<1>7. UnescapeQuery(text) \in [1..Len(text) -> B]
    BY <1>6, Zenon DEF UnescapeQuery
<1> QED
    BY <1>4, <1>7 DEF B, text

(* Query.get returns nothing, or what some pair of that name says. *)
LEMMA GetIs ==
    ASSUME query \in Seq(Pairs), NEW name
    PROVE  /\ Get(name) \in Seq(Characters)
           /\ Get(name) # <<>> => \E i \in 1..Len(query) : query[i].name = name /\ Get(name) = UnescapeQuery(query[i].value)
<1> DEFINE v == Get(name)
<1>1. Says(name, v)
    BY GetSays
<1> HIDE DEF v
<1>2. v = <<>> \/ \E i \in 1..Len(query) : query[i].name = name /\ v = UnescapeQuery(query[i].value)
    BY <1>1, Zenon DEF Says
<1>3. <<>> \in Seq(Characters)
    OBVIOUS
<1> QED
    BY <1>2, <1>3, UnescapedIs DEF v

(* The limit the code takes is what the query string says. *)
LEMMA LimitSaid ==
    ASSUME query \in Seq(Pairs), NEW n \in 1..Int64Max
    PROVE  SaysLimit(n) <=> \/ Get("limit") = <<>> /\ n = DEFAULT_TRANSACTION_LIMIT
                            \/ Get("limit") # <<>> /\ Atoi(Get("limit")) = n
<1> DEFINE g == Get("limit")
<1>1. g \in Seq(Characters)
    BY GetIs
<1>2. Atoi(g) = n <=> ReadsAs(g, n)
    BY <1>1, AtoiReads
<1>3. g = <<>> => Atoi(g) # n
    <2>1. g = <<>> => Atoi(g) = NotANumber
        BY Zenon DEF Atoi
    <2>2. NotANumber # n
        BY ListingAssumption DEF NotANumber
    <2> QED
        BY <2>1, <2>2
<1>4. \A v : Says("limit", v) <=> v = g
    BY GetSays
<1>5. g # <<>> => \E i \in 1..Len(query) : query[i].name = "limit" /\ g = UnescapeQuery(query[i].value)
    BY GetIs
<1> HIDE DEF g
<1>6. SaysLimit(n) => (g = <<>> /\ n = DEFAULT_TRANSACTION_LIMIT) \/ (g # <<>> /\ Atoi(g) = n)
    BY <1>2, <1>3, <1>4, Zenon DEF SaysLimit
<1>7. g = <<>> /\ n = DEFAULT_TRANSACTION_LIMIT => SaysLimit(n)
    BY <1>4, Zenon DEF SaysLimit
<1>8. g # <<>> /\ Atoi(g) = n => SaysLimit(n)
    BY <1>2, <1>4, <1>5, Zenon DEF SaysLimit
<1> QED
    BY <1>6, <1>7, <1>8 DEF g

GoodType == Get("type") \in {<<>>} \cup Types
GoodLimit == Get("limit") = <<>> \/ ~BadLimit

LimitServed == IF Get("limit") = <<>> THEN DEFAULT_TRANSACTION_LIMIT ELSE Capped(Atoi(Get("limit")))

(* The type and the limit are good when the query string says something that is. *)
LEMMA GoodOnes ==
    ASSUME query \in Seq(Pairs)
    PROVE  /\ TypeIsGood <=> GoodType
           /\ (\E n \in 1..Int64Max : SaysLimit(n)) <=> GoodLimit
<1>1. TypeIsGood <=> GoodType
    <2>1. \A v : Says("type", v) <=> v = Get("type")
        BY GetSays
    <2> QED
        BY <2>1, Zenon DEF TypeIsGood, GoodType
<1> DEFINE g == Get("limit")
<1>2. g \in Seq(Characters)
    BY GetIs
<1>3. Atoi(g) \in Int /\ (Atoi(g) > 0 => Atoi(g) \in 1..Int64Max)
    BY <1>2, AtoiIs
<1>4. \A n \in 1..Int64Max : SaysLimit(n) <=> \/ g = <<>> /\ n = DEFAULT_TRANSACTION_LIMIT
                                              \/ g # <<>> /\ Atoi(g) = n
    BY LimitSaid
<1>5. GoodLimit <=> g = <<>> \/ (Atoi(g) # NotANumber /\ ~(Atoi(g) <= 0))
    BY Zenon DEF GoodLimit, BadLimit
<1>6. DEFAULT_TRANSACTION_LIMIT \in 1..Int64Max /\ NotANumber < 0 /\ NotANumber \in Int
    BY ListingAssumption DEF NotANumber
<1> HIDE DEF g
<1>7. (\E n \in 1..Int64Max : SaysLimit(n)) => GoodLimit
    <2> SUFFICES ASSUME NEW n \in 1..Int64Max, SaysLimit(n) PROVE g = <<>> \/ (Atoi(g) # NotANumber /\ ~(Atoi(g) <= 0))
        BY <1>5
    <2> QED
        BY <1>3, <1>4, <1>6
<1>8. GoodLimit => \E n \in 1..Int64Max : SaysLimit(n)
    <2>1. CASE g = <<>>
        BY <1>4, <1>6, <2>1
    <2>2. CASE g # <<>> /\ Atoi(g) # NotANumber /\ ~(Atoi(g) <= 0)
        <3>1. Atoi(g) \in 1..Int64Max
            BY <1>3, <2>2
        <3> QED
            BY <1>4, <2>2, <3>1
    <2> QED
        BY <1>5, <2>1, <2>2
<1> QED
    BY <1>1, <1>7, <1>8

(* The count that is served of a good limit. *)
LEMMA ServedIs ==
    ASSUME query \in Seq(Pairs), GoodLimit
    PROVE  /\ LimitServed \in 1..MAX_TRANSACTION_LIMIT /\ MAX_TRANSACTION_LIMIT \in 1..Int64Max
           /\ LimitServed = MAX_TRANSACTION_LIMIT \/ SaysLimit(LimitServed)
           /\ \E n \in 1..Int64Max : SaysLimit(n) /\ LimitServed <= n
<1> DEFINE g == Get("limit")
<1>2. g \in Seq(Characters)
    BY GetIs
<1>3. Atoi(g) \in Int /\ (Atoi(g) > 0 => Atoi(g) \in 1..Int64Max)
    BY <1>2, AtoiIs
<1>4. \A n \in 1..Int64Max : SaysLimit(n) <=> \/ g = <<>> /\ n = DEFAULT_TRANSACTION_LIMIT
                                              \/ g # <<>> /\ Atoi(g) = n
    BY LimitSaid
<1>5. g = <<>> \/ (Atoi(g) # NotANumber /\ ~(Atoi(g) <= 0))
    BY Zenon DEF GoodLimit, BadLimit
<1>6. /\ DEFAULT_TRANSACTION_LIMIT \in 1..MAX_TRANSACTION_LIMIT /\ MAX_TRANSACTION_LIMIT \in 1..Int64Max
      /\ Int64Max \in Nat
    BY ListingAssumption
<1>7. g = <<>> => LimitServed = DEFAULT_TRANSACTION_LIMIT
    BY Zenon DEF LimitServed
<1>8. g # <<>> => LimitServed = IF Atoi(g) < MAX_TRANSACTION_LIMIT THEN Atoi(g) ELSE MAX_TRANSACTION_LIMIT
    BY Zenon DEF LimitServed, Capped
<1> HIDE DEF g
<1> DEFINE d == DEFAULT_TRANSACTION_LIMIT
<1>9. CASE g = <<>>
    <2>1. d \in 1..Int64Max /\ SaysLimit(d) /\ LimitServed = d
        <3>1. d \in 1..Int64Max
            BY <1>6
        <3> QED
            BY <1>4, <1>7, <1>9, <3>1
    <2> QED
        BY <1>6, <2>1
<1>10. CASE g # <<>>
    <2>1. Atoi(g) \in 1..Int64Max
        BY <1>3, <1>5, <1>10
    <2>2. SaysLimit(Atoi(g))
        BY <1>4, <1>10, <2>1
    <2> DEFINE a == Atoi(g)
    <2> HIDE DEF a
    <2>3. CASE a < MAX_TRANSACTION_LIMIT
        <3>1. LimitServed = a
            BY <1>8, <1>10, <2>3 DEF a
        <3> QED
            BY <1>6, <2>1, <2>2, <2>3, <3>1 DEF a
    <2>4. CASE ~(a < MAX_TRANSACTION_LIMIT)
        <3>1. LimitServed = MAX_TRANSACTION_LIMIT
            BY <1>8, <1>10, <2>4 DEF a
        <3>2. a \in 1..Int64Max /\ SaysLimit(a) /\ MAX_TRANSACTION_LIMIT <= a
            BY <1>6, <2>1, <2>2, <2>4 DEF a
        <3> QED
            BY <1>6, <3>1, <3>2
    <2> QED
        BY <2>3, <2>4
<1> QED
    BY <1>9, <1>10

(* What has been recorded. *)
TableInv == IsFiniteSet(table) /\ table \subseteq [trade : Trades, id : Int] /\ before \subseteq table

(* How an answer came about. *)
Answered ==
    \/ ~GoodType /\ answer = Answer(400, "type", <<>>)
    \/ GoodType /\ ~GoodLimit /\ answer = Answer(400, "limit", <<>>)
    \/ answer = Answer(500, "history", <<>>)
    \/ /\ GoodType /\ wanted = Get("type") /\ GoodLimit /\ count = LimitServed
       /\ \E rows \in NewestFirst({r \in table : Selected(r)}) : answer = Answer(200, "", rows)

ListInv ==
    /\ query \in Seq(Pairs)
    /\ TableInv
    /\ pc \in {"type", "limit", "select", "done"}
    /\ pc # "done" => answer = NoAnswer
    /\ pc \in {"limit", "select"} => GoodType /\ wanted = Get("type")
    /\ pc = "select" => GoodLimit /\ count = LimitServed
    /\ pc = "done" => Answered

(* Nothing has been read yet. *)
LEMMA InitListInv == ListInit => ListInv
<1> SUFFICES ASSUME ListInit PROVE ListInv
    OBVIOUS
<1>1. query \in Seq(Pairs)
    <2>1. PICK n \in 0..MaxPairs : query \in [1..n -> Pairs]
        BY DEF ListInit
    <2>2. n \in Nat
        BY ListingAssumption
    <2> QED
        BY <2>1, <2>2
<1>2. TableInv
    <2>1. IsFiniteSet(table)
        <3>1. table = {} \/ \E x : table = {x}
            BY DEF ListInit
        <3> QED
            BY <3>1, FS_EmptySet, FS_Singleton, ZenonT(30)
    <2> QED
        BY <2>1 DEF TableInv, ListInit
<1> QED
    BY <1>1, <1>2 DEF ListInv, ListInit

(* What the query string says stays. *)
LEMMA SaidStays ==
    ASSUME query' = query
    PROVE  /\ \A name : Get(name)' = Get(name)
           /\ GoodType' = GoodType /\ GoodLimit' = GoodLimit /\ LimitServed' = LimitServed
<1>1. \A name : Get(name)' = Get(name)
    BY DEF Get, Readable, Dropped, UnescapeQuery
<1> QED
    BY <1>1 DEF GoodType, GoodLimit, BadLimit, LimitServed

(* So does what the filters let through, and its order. *)
LEMMA ListedStays ==
    ASSUME query' = query, wanted' = wanted, count' = count, table' = table
    PROVE  NewestFirst({r \in table : Selected(r)})' = NewestFirst({r \in table : Selected(r)})
<1>1. \A r : Selected(r)' = Selected(r)
    BY SaidStays DEF Selected, SameShip
<1>2. {r \in table : Selected(r)}' = {r \in table : Selected(r)}
    BY <1>1
<1> QED
    BY <1>2 DEF NewestFirst

(* Every step of a listing keeps what is known. *)
LEMMA NextListInv == ListInv /\ [ListNext]_listVars => ListInv'
<1> SUFFICES ASSUME ListInv, [ListNext]_listVars PROVE ListInv'
    OBVIOUS
<1> USE DEF ListInv
<1>0. query' = query
    BY DEF ListNext, listVars, Record, RefuseType, TakeType, RefuseLimit, TakeLimit, Select, SelectFails
<1>1. /\ \A name : Get(name)' = Get(name)
      /\ GoodType' = GoodType /\ GoodLimit' = GoodLimit /\ LimitServed' = LimitServed
    BY <1>0, SaidStays
<1>2. table' = table /\ before' = before => TableInv'
    BY DEF TableInv
<1>3. CASE Record
    <2>1. PICK t \in Trades : table' = table \cup {[trade |-> t, id |-> Cardinality(table) + 1]}
        BY <1>3 DEF Record
    <2>2. IsFiniteSet(table') /\ Cardinality(table) \in Nat
        BY <2>1, FS_AddElement, FS_CardinalityType DEF TableInv
    <2>3. [trade |-> t, id |-> Cardinality(table) + 1] \in [trade : Trades, id : Int]
        BY <2>2
    <2>4. TableInv'
        BY <1>3, <2>1, <2>2, <2>3 DEF TableInv, Record
    <2> QED
        BY <1>0, <1>1, <1>3, <2>4 DEF Record
<1>4. CASE RefuseType
    BY <1>0, <1>1, <1>2, <1>4 DEF RefuseType, GoodType, Answered
<1>5. CASE TakeType
    BY <1>0, <1>1, <1>2, <1>5 DEF TakeType, GoodType
<1>6. CASE RefuseLimit
    <2>1. ~GoodLimit /\ GoodType
        BY <1>6 DEF RefuseLimit, GoodLimit
    <2> QED
        BY <1>0, <1>1, <1>2, <1>6, <2>1 DEF RefuseLimit, Answered
<1>7. CASE TakeLimit
    BY <1>0, <1>1, <1>2, <1>7 DEF TakeLimit, GoodLimit, LimitServed
<1>8. CASE Select
    <2>1. PICK rows \in NewestFirst({r \in table : Selected(r)}) : answer' = Answer(200, "", rows)
        BY <1>8 DEF Select
    <2>2. NewestFirst({r \in table : Selected(r)})' = NewestFirst({r \in table : Selected(r)})
        BY <1>0, <1>8, ListedStays DEF Select
    <2>3. Answered'
        <3>1. GoodType' /\ wanted' = Get("type")' /\ GoodLimit' /\ count' = LimitServed'
            BY <1>1, <1>8 DEF Select
        <3> QED
            BY <2>1, <2>2, <3>1, ZenonT(30) DEF Answered
    <2> QED
        BY <1>0, <1>1, <1>2, <1>8, <2>3 DEF Select
<1>9. CASE SelectFails
    BY <1>0, <1>1, <1>2, <1>9 DEF SelectFails, Answered
<1>10. CASE UNCHANGED listVars
    <2>1. NewestFirst({r \in table : Selected(r)})' = NewestFirst({r \in table : Selected(r)})
        BY <1>10, ListedStays DEF listVars
    <2>2. Answered => Answered'
        <3>1. /\ GoodType' = GoodType /\ GoodLimit' = GoodLimit /\ LimitServed' = LimitServed /\ Get("type")' = Get("type")
              /\ answer' = answer /\ wanted' = wanted /\ count' = count
            BY <1>1, <1>10 DEF listVars
        <3> QED
            BY <2>1, <3>1, ZenonT(30) DEF Answered
    <2> QED
        BY <1>0, <1>1, <1>2, <1>10, <2>2 DEF listVars
<1> QED
    BY <1>3, <1>4, <1>5, <1>6, <1>7, <1>8, <1>9, <1>10 DEF ListNext

(* It holds throughout. *)
LEMMA ListInvariance == ListSpec => []ListInv
<1>1. ListInit => ListInv
    BY InitListInv
<1>2. ListInv /\ [ListNext]_listVars => ListInv'
    BY NextListInv
<1> QED
    BY <1>1, <1>2, PTL DEF ListSpec

(* A caller is refused exactly for what is wrong with their query string. *)
LEMMA RefusalsHaveReasons == ListInv => RefusedForAReason
<1> SUFFICES ASSUME ListInv, pc = "done" /\ answer.status # 500
             PROVE  CASE ~TypeIsGood -> answer.why = "type"
                      [] TypeIsGood /\ ~\E n \in 1..Int64Max : SaysLimit(n) -> answer.why = "limit"
                      [] OTHER -> answer.status = 200
    BY Zenon DEF RefusedForAReason
<1>1. TypeIsGood <=> GoodType
    BY GoodOnes DEF ListInv
<1>2. (\E n \in 1..Int64Max : SaysLimit(n)) <=> GoodLimit
    BY GoodOnes DEF ListInv
<1>3. \/ ~GoodType /\ answer.why = "type"
      \/ GoodType /\ ~GoodLimit /\ answer.why = "limit"
      \/ GoodType /\ GoodLimit /\ answer.status = 200
    <2>1. Answered
        BY DEF ListInv
    <2>2. CASE ~GoodType /\ answer = Answer(400, "type", <<>>)
        BY <2>2 DEF Answer
    <2>3. CASE GoodType /\ ~GoodLimit /\ answer = Answer(400, "limit", <<>>)
        BY <2>3 DEF Answer
    <2>4. answer # Answer(500, "history", <<>>)
        <3>1. Answer(500, "history", <<>>).status = 500
            BY DEF Answer
        <3> QED
            BY <3>1
    <2>5. CASE GoodType /\ GoodLimit /\ \E rows \in NewestFirst({r \in table : Selected(r)}) : answer = Answer(200, "", rows)
        <3>1. PICK rows : answer = Answer(200, "", rows)
            BY <2>5
        <3>2. answer.status = 200
            <4>1. Answer(200, "", rows).status = 200
                BY DEF Answer
            <4> QED
                BY <3>1, <4>1
        <3> QED
            BY <2>5, <3>2, Zenon
    <2> QED
        BY <2>1, <2>2, <2>3, <2>4, <2>5, Zenon DEF Answered
<1> HIDE DEF ListInv
<1> QED
    BY <1>1, <1>2, <1>3

(* The rows of a listing that is served. *)
LEMMA ServedRows ==
    ASSUME NEW rowsOf, IsFiniteSet(rowsOf), count \in Nat, NEW s \in NewestFirst(rowsOf)
    PROVE  /\ s \in Seq(rowsOf) /\ Len(s) <= count /\ ToSet(s) \subseteq rowsOf
           /\ \A i, j \in 1..Len(s) : i < j => s[i] # s[j] /\ s[i].trade.at >= s[j].trade.at
           /\ \A r \in rowsOf \ ToSet(s) : Len(s) = count /\ \A i \in 1..Len(s) : s[i].trade.at >= r.trade.at
<1> DEFINE n == IF count < Cardinality(rowsOf) THEN count ELSE Cardinality(rowsOf)
<1>1. Cardinality(rowsOf) \in Nat
    BY FS_CardinalityType
<1>2. n \in Nat /\ n <= count /\ n <= Cardinality(rowsOf) /\ (n < Cardinality(rowsOf) => n = count)
    BY <1>1
<1>3. /\ s \in [1..n -> rowsOf]
      /\ \A i, j \in 1..n : i < j => s[i] # s[j] /\ s[i].trade.at >= s[j].trade.at
      /\ \A r \in rowsOf \ ToSet(s) : \A i \in 1..n : s[i].trade.at >= r.trade.at
    BY DEF NewestFirst
<1> HIDE DEF n
<1>4. s \in Seq(rowsOf) /\ Len(s) = n /\ ToSet(s) = {s[i] : i \in 1..n}
    BY <1>2, <1>3 DEF ToSet
<1>5. ASSUME NEW r \in rowsOf \ ToSet(s)
      PROVE  n = count
    <2> DEFINE U == rowsOf \ {r}
    <2>1. IsFiniteSet(U) /\ Cardinality(U) = Cardinality(rowsOf) - 1
        BY <1>5, FS_RemoveElement
    <2>2. \A i \in 1..n : s[i] \in U
        BY <1>3, <1>4, <1>5
    <2> HIDE DEF U
    <2>3. s \in [1..n -> U]
        BY <1>3, <2>2
    <2>4. \A i, j \in 1..n : s[i] = s[j] => i = j
        <3>1. \A i, j \in 1..n : i = j \/ i < j \/ j < i
            BY <1>2
        <3> QED
            BY <1>3, <3>1
    <2>5. s \in Injection(1..n, U)
        BY <2>3, <2>4 DEF Injection, IsInjective
    <2>6. Cardinality(1..n) <= Cardinality(U)
        BY <2>1, <2>5, FS_Injection
    <2>7. Cardinality(1..n) = n
        BY <1>2, FS_Interval
    <2> QED
        BY <1>1, <1>2, <2>1, <2>6, <2>7
<1> QED
    BY <1>2, <1>3, <1>4, <1>5

(* A listing is what the query string asks for. *)
LEMMA ListingsAreAsAsked == ListInv => ListsWhatWasAsked
<1> SUFFICES ASSUME ListInv, answer.status = 200
             PROVE  ListsWhatWasAsked
    BY DEF ListsWhatWasAsked
<1> DEFINE rowsOf == {r \in table : Selected(r)}
<1>1. pc = "done"
    <2>1. NoAnswer.status = 0
        BY DEF NoAnswer, Answer
    <2> QED
        BY <2>1 DEF ListInv
<1>2. /\ GoodType /\ wanted = Get("type") /\ GoodLimit /\ count = LimitServed
      /\ answer.rows \in NewestFirst(rowsOf)
    <2>1. Answered
        BY <1>1 DEF ListInv
    <2>2. /\ answer # Answer(400, "type", <<>>) /\ answer # Answer(400, "limit", <<>>)
          /\ answer # Answer(500, "history", <<>>)
        <3>1. /\ Answer(400, "type", <<>>).status = 400 /\ Answer(400, "limit", <<>>).status = 400
              /\ Answer(500, "history", <<>>).status = 500
            BY DEF Answer
        <3> QED
            BY <3>1
    <2>3. /\ GoodType /\ wanted = Get("type") /\ GoodLimit /\ count = LimitServed
          /\ \E rows \in NewestFirst(rowsOf) : answer = Answer(200, "", rows)
        BY <2>1, <2>2 DEF Answered
    <2> HIDE DEF rowsOf
    <2>4. PICK rows \in NewestFirst(rowsOf) : answer = Answer(200, "", rows)
        BY <2>3
    <2>5. answer.rows = rows
        <3>1. Answer(200, "", rows).rows = rows
            BY DEF Answer
        <3> QED
            BY <2>4, <3>1
    <2> QED
        BY <2>3, <2>4, <2>5, Zenon
<1>3. query \in Seq(Pairs) /\ IsFiniteSet(table) /\ before \subseteq table
    BY DEF ListInv, TableInv
<1>4. IsFiniteSet(rowsOf)
    BY <1>3, FS_Subset
<1> DEFINE rows == answer.rows
<1>5. /\ count \in 1..MAX_TRANSACTION_LIMIT /\ MAX_TRANSACTION_LIMIT \in 1..Int64Max
      /\ count = MAX_TRANSACTION_LIMIT \/ SaysLimit(count)
    BY <1>2, <1>3, ServedIs
<1>6. PICK m \in 1..Int64Max : SaysLimit(m) /\ count <= m
    BY <1>2, <1>3, ServedIs
<1>7. count \in Nat
    BY <1>5
<1> HIDE DEF rowsOf, rows
<1>8. /\ rows \in Seq(rowsOf) /\ Len(rows) <= count /\ ToSet(rows) \subseteq rowsOf
      /\ \A i, j \in 1..Len(rows) : i < j => rows[i] # rows[j] /\ rows[i].trade.at >= rows[j].trade.at
      /\ \A r \in rowsOf \ ToSet(rows) : Len(rows) = count /\ \A i \in 1..Len(rows) : rows[i].trade.at >= r.trade.at
    <2>1. rows \in NewestFirst(rowsOf)
        BY <1>2 DEF rows
    <2> QED
        BY <1>4, <1>7, <2>1, ServedRows
<1> DEFINE Through(r) == /\ Says("shipSymbol", <<>>) \/ SaysShip(r.trade.ship)
                         /\ Says("type", <<>>) \/ Says("type", <<r.trade.type>>)
           Full == Len(rows) = MAX_TRANSACTION_LIMIT \/ SaysLimit(Len(rows))
<1>9. ASSUME NEW r
      PROVE  Through(r) <=> Selected(r)
    <2>1. /\ \A v : Says("shipSymbol", v) <=> v = Get("shipSymbol")
          /\ \A v : Says("type", v) <=> v = Get("type")
        BY <1>3, GetSays
    <2> QED
        <3>1. Selected(r) <=> /\ Get("shipSymbol") = <<>> \/ SameShip(r)
                              /\ Get("type") = <<>> \/ <<r.trade.type>> = Get("type")
            BY <1>2, Zenon DEF Selected
        <3>2. /\ Says("shipSymbol", <<>>) <=> Get("shipSymbol") = <<>>
              /\ Says("type", <<>>) <=> Get("type") = <<>>
              /\ Says("type", <<r.trade.type>>) <=> <<r.trade.type>> = Get("type")
            BY <2>1
        <3>3. SaysShip(r.trade.ship) => SameShip(r)
            BY <2>1 DEF SaysShip, SameShip
        <3>4. ASSUME Get("shipSymbol") # <<>>, SameShip(r)
              PROVE  SaysShip(r.trade.ship)
            <4>1. PICK i \in 1..Len(query) :
                      query[i].name = "shipSymbol" /\ UnescapeQuery(query[i].value) = Get("shipSymbol")
                BY <2>1, <3>4 DEF Says
            <4> QED
                BY <2>1, <3>4, <4>1 DEF SaysShip, SameShip
        <3> QED
            BY <3>1, <3>2, <3>3, <3>4
<1> HIDE DEF Through
<1>10. ToSet(rows) \subseteq {r \in table : Through(r)}
    BY <1>8, <1>9 DEF rowsOf
<1>11. Len(rows) \in Nat /\ Len(rows) <= MAX_TRANSACTION_LIMIT /\ Len(rows) <= m
    BY <1>5, <1>6, <1>8
<1>12. ASSUME NEW r \in before \ ToSet(rows), Through(r)
       PROVE  Full /\ \A i \in 1..Len(rows) : rows[i].trade.at >= r.trade.at
    <2>1. r \in rowsOf \ ToSet(rows)
        BY <1>3, <1>9, <1>12 DEF rowsOf
    <2>2. Len(rows) = count
        BY <1>8, <2>1
    <2>3. Full
        BY <1>5, <2>2
    <2> HIDE DEF Full
    <2> QED
        BY <1>8, <2>1, <2>3
<1> HIDE DEF Full
<1>13. \E n \in 1..Int64Max : SaysLimit(n) /\ Len(rows) <= n
    BY <1>6, <1>11
<1> QED
    BY <1>8, <1>10, <1>11, <1>12, <1>13, Zenon DEF ListsWhatWasAsked, Through, Full, rows

(* Answers are what the query string asks for. *)
THEOREM AnswersAreAsAsked == ListSpec => []AnswersTheQuery
<1>1. ListSpec => []ListInv
    BY ListInvariance
<1>2. ListInv => AnswersTheQuery
    BY RefusalsHaveReasons, ListingsAreAsAsked DEF AnswersTheQuery
<1> QED
    BY <1>1, <1>2, PTL
-----------------------------------------------------------------------------
(* What a string is made of, and what it is worth. *)
Pieces == [t : {"byte", "unit", "escape", "rune"}, n : Int]

(* What an element of a string is. *)
LEMMA ElementIs ==
    ASSUME NEW e \in Elements
    PROVE  /\ e.t \in {"byte", "unit", "escape"} /\ e.n \in Int /\ e \in Pieces
           /\ e.t = "byte" => e.n \in 0..255
           /\ e.t = "unit" => e.n \in Nat
<1>1. CASE \E b \in Bytes : e = Byte(b)
    <2>1. PICK b \in Bytes : e = Byte(b)
        BY <1>1
    <2>2. b \in 0..255
        BY UnquoteAssumption
    <2>3. e = [t |-> "byte", n |-> b]
        BY <2>1 DEF Byte
    <2> QED
        BY <2>2, <2>3 DEF Pieces
<1>2. CASE \E u \in Units : e = Unit(u)
    <2>1. PICK u \in Units : e = Unit(u)
        BY <1>2
    <2>2. u \in Nat
        BY UnquoteAssumption, SMT
    <2>3. e = [t |-> "unit", n |-> u]
        BY <2>1 DEF Unit
    <2> QED
        BY <2>2, <2>3 DEF Pieces
<1>3. CASE e = Simple(10)
    <2>1. e = [t |-> "escape", n |-> 10]
        BY <1>3 DEF Simple
    <2> QED
        BY <2>1 DEF Pieces
<1>4. \/ \E b \in Bytes : e = Byte(b)
      \/ \E u \in Units : e = Unit(u)
      \/ e = Simple(10)
    BY Zenon DEF Elements
<1> QED
    BY <1>1, <1>2, <1>3, <1>4, Zenon

(* A byte that follows another in a character. *)
LEMMA Following ==
    ASSUME NEW n \in 0..255
    PROVE  /\ n \div 64 = 2 <=> n \in 128..191
           /\ n \in 128..191 => n % 64 = n - 128
OBVIOUS

IsByte(i) == i <= Len(between) /\ between[i].t = "byte"
Follows(i) == IsByte(i) /\ between[i].n \in 128..191

Standing == between \in Seq(Elements)

(* A byte is a number up to 255. *)
LEMMA BytesAre ==
    ASSUME Standing, NEW i \in 1..Len(between)
    PROVE  IsByte(i) => between[i].n \in 0..255
<1>1. between[i] \in Elements
    BY DEF Standing
<1> QED
    BY <1>1, ElementIs DEF IsByte

(* The encoding's numbers. *)
LEMMA Encoding ==
    /\ Mark(1) = 0 /\ Mark(2) = 192 /\ Mark(3) = 224 /\ Mark(4) = 240
    /\ Above(1) = 128 /\ Above(2) = 224 /\ Above(3) = 240 /\ Above(4) = 248
    /\ Least(1) = 0 /\ Least(2) = 128 /\ Least(3) = 2048 /\ Least(4) = Supplementary
    /\ \A i \in Int :
             /\ Code(i, 1) = between[i].n - Mark(1)
             /\ Code(i, 2) = 64 * (between[i].n - Mark(2)) + Bits(i + 1)
             /\ Code(i, 3) = 64 * (64 * (between[i].n - Mark(3)) + Bits(i + 1)) + Bits(i + 2)
             /\ Code(i, 4) = 64 * (64 * (64 * (between[i].n - Mark(4)) + Bits(i + 1)) + Bits(i + 2)) + Bits(i + 3)
<1>1. Mark(1) = 0 /\ Mark(2) = 192 /\ Mark(3) = 224 /\ Mark(4) = 240
    BY SMT DEF Mark
<1>2. Above(1) = 128 /\ Above(2) = 224 /\ Above(3) = 240 /\ Above(4) = 248
    BY SMT DEF Above
<1>3. Least(1) = 0 /\ Least(2) = 128 /\ Least(3) = 2048 /\ Least(4) = Supplementary
    BY SMT DEF Least
<1>4. 1 # 2 /\ 1 # 3 /\ 2 # 3 /\ 4 # 1 /\ 4 # 2 /\ 4 # 3
    OBVIOUS
<1>5. ASSUME NEW i \in Int
      PROVE  /\ Code(i, 1) = between[i].n - Mark(1)
             /\ Code(i, 2) = 64 * (between[i].n - Mark(2)) + Bits(i + 1)
             /\ Code(i, 3) = 64 * (64 * (between[i].n - Mark(3)) + Bits(i + 1)) + Bits(i + 2)
             /\ Code(i, 4) = 64 * (64 * (64 * (between[i].n - Mark(4)) + Bits(i + 1)) + Bits(i + 2)) + Bits(i + 3)
    BY <1>4, Zenon DEF Code
<1> QED
    BY <1>1, <1>2, <1>3, <1>5, SMT

(* What makes one element a character. *)
LEMMA CharacterOfOne ==
    ASSUME Standing, NEW i \in 1..Len(between), IsByte(i)
    PROVE  IsCharacter(i, 1) <=> between[i].n < 128
<1> DEFINE lead == between[i].n
<1>1. lead \in 0..255
    BY BytesAre
<1>2. Code(i, 1) = lead - Mark(1) /\ Mark(1) = 0 /\ Above(1) = 128 /\ Least(1) = 0
    <2>1. i \in Int
        OBVIOUS
    <2> QED
        BY <2>1, Encoding
<1> HIDE DEF lead
<1>3. lead < 128 => IsCodePoint(lead)
    BY <1>1, SMT DEF IsCodePoint, IsHigh, IsLow
<1>4. i + 1 - 1 = i /\ (\A j \in i..i : j = i) /\ (\A j \in (i + 1)..i : FALSE)
    OBVIOUS
<1>5. Code(i, 1) = lead
    BY <1>1, <1>2
<1>6. i <= Len(between) /\ between[i].t = "byte" /\ lead >= 0
    <2>1. lead >= 0
        BY <1>1
    <2> QED
        BY <2>1, Zenon DEF IsByte
<1>7. IsCharacter(i, 1) <=> /\ i + 1 - 1 <= Len(between)
                            /\ \A j \in i..(i + 1 - 1) : between[j].t = "byte"
                            /\ \A j \in (i + 1)..(i + 1 - 1) : between[j].n \div 64 = 2
                            /\ lead >= 0 /\ lead < 128 /\ IsCodePoint(lead) /\ lead >= 0
    BY <1>2, <1>5, Zenon DEF IsCharacter, lead
<1>8. IsCharacter(i, 1) <=> lead < 128 /\ IsCodePoint(lead)
    BY <1>4, <1>6, <1>7
<1> QED
    BY <1>3, <1>8 DEF lead

(* What makes two, three or four elements a character. *)
LEMMA CharacterIs ==
    ASSUME Standing, NEW i \in 1..Len(between), IsByte(i), NEW k \in 2..4
    PROVE  IsCharacter(i, k) <=> /\ \A j \in (i + 1)..(i + k - 1) : Follows(j)
                                 /\ between[i].n >= Mark(k) /\ between[i].n < Above(k)
                                 /\ IsCodePoint(Code(i, k)) /\ Code(i, k) >= Least(k)
<1>0. Len(between) \in Nat
    BY DEF Standing
<1>1. /\ Len(between) \in Nat /\ i + k - 1 \in (i + 1)..(i + k - 1)
      /\ \A j \in i..(i + k - 1) : j = i \/ j \in (i + 1)..(i + k - 1)
      /\ \A j \in (i + 1)..(i + k - 1) : j \in i..(i + k - 1) /\ j \in Nat \ {0} /\ j <= i + k - 1
    BY <1>0
<1>2. i + k - 1 <= Len(between) <=> \A j \in (i + 1)..(i + k - 1) : j <= Len(between)
    BY <1>1
<1>3. \A j \in (i + 1)..(i + k - 1) : Follows(j) <=> IsByte(j) /\ between[j].n \div 64 = 2
    <2> SUFFICES ASSUME NEW j \in (i + 1)..(i + k - 1) PROVE Follows(j) <=> IsByte(j) /\ between[j].n \div 64 = 2
        OBVIOUS
    <2>1. IsByte(j) => j \in 1..Len(between)
        BY <1>1 DEF IsByte
    <2>2. IsByte(j) => between[j].n \in 0..255
        BY <2>1, BytesAre
    <2>3. IsByte(j) => (between[j].n \div 64 = 2 <=> between[j].n \in 128..191)
        <3> DEFINE m == between[j].n
        <3>1. IsByte(j) => m \in 0..255
            BY <2>2
        <3> HIDE DEF m
        <3>2. m \in 0..255 => (m \div 64 = 2 <=> m \in 128..191)
            BY Following
        <3>3. IsByte(j) => (m \div 64 = 2 <=> m \in 128..191)
            BY <3>1, <3>2, Zenon
        <3> QED
            BY <3>3 DEF m
    <2> QED
        BY <2>3 DEF Follows
<1>4. /\ \A j \in (i + 1)..(i + k - 1) : Follows(j)
      <=> /\ i + k - 1 <= Len(between)
          /\ \A j \in i..(i + k - 1) : between[j].t = "byte"
          /\ \A j \in (i + 1)..(i + k - 1) : between[j].n \div 64 = 2
    BY <1>1, <1>2, <1>3 DEF IsByte
<1> QED
    BY <1>4 DEF IsCharacter

(* The bits of a byte that follows. *)
LEMMA BitsAre ==
    ASSUME Standing, NEW j \in Nat \ {0}, Follows(j)
    PROVE  between[j].n \in 128..191 /\ Bits(j) = between[j].n - 128
<1>1. between[j].n \in 128..191
    BY DEF Follows
<1>2. between[j].n \in 0..255
    BY <1>1
<1> QED
    BY <1>1, <1>2, Following DEF Bits

(* Two bytes are a character if the first is of C2 to DF. *)
LEMMA CharacterOfTwo ==
    ASSUME Standing, NEW i \in 1..Len(between), IsByte(i)
    PROVE  IsCharacter(i, 2) <=> Follows(i + 1) /\ between[i].n \in 194..223
<1> DEFINE l == between[i].n
           b == between[i + 1].n
           code == Code(i, 2)
<1>1. l \in 0..255
    BY BytesAre
<1>2. IsCharacter(i, 2) <=> Follows(i + 1) /\ l >= 192 /\ l < 224 /\ IsCodePoint(code) /\ code >= 128
    <2>1. Mark(2) = 192 /\ Above(2) = 224 /\ Least(2) = 128
        BY Encoding
    <2>2. \A j : j \in (i + 1)..(i + 2 - 1) <=> j = i + 1
        OBVIOUS
    <2> HIDE DEF l, code
    <2> QED
        BY <2>1, <2>2, CharacterIs DEF l, code
<1>3. CASE Follows(i + 1)
    <2>0. i + 1 \in Nat \ {0}
        OBVIOUS
    <2>1. b \in 128..191 /\ Bits(i + 1) = b - 128
        BY <1>3, <2>0, BitsAre, ZenonT(30)
    <2>2. code = 64 * (l - 192) + (b - 128)
        BY <1>1, <2>1, Encoding
    <2> HIDE DEF l, b, code
    <2>3. l >= 192 /\ l < 224 => IsCodePoint(code)
        <3>1. l >= 192 /\ l < 224 => l \in 192..223
            BY <1>1
        <3> QED
            BY <1>1, <2>1, <2>2, <3>1, SMT DEF IsCodePoint, IsHigh, IsLow
    <2>4. l >= 192 /\ l < 224 /\ code >= 128 <=> l \in 194..223
        BY <1>1, <2>1, <2>2
    <2> QED
        BY <1>2, <1>3, <2>3, <2>4 DEF l
<1> QED
    BY <1>2, <1>3

(* Three are one unless they are too long for what they say, or a surrogate. *)
LEMMA CharacterOfThree ==
    ASSUME Standing, NEW i \in 1..Len(between), IsByte(i)
    PROVE  IsCharacter(i, 3) <=> /\ Follows(i + 1) /\ Follows(i + 2) /\ between[i].n \in 224..239
                                 /\ between[i].n = 224 => between[i + 1].n >= 160
                                 /\ between[i].n = 237 => between[i + 1].n <= 159
<1> DEFINE l == between[i].n
           b == between[i + 1].n
           c == between[i + 2].n
           code == Code(i, 3)
<1>1. l \in 0..255
    BY BytesAre
<1>2. IsCharacter(i, 3) <=> /\ Follows(i + 1) /\ Follows(i + 2) /\ l >= 224 /\ l < 240
                            /\ IsCodePoint(code) /\ code >= Least(3)
    <2>1. Mark(3) = 224 /\ Above(3) = 240
        BY Encoding
    <2>2. \A j : j \in (i + 1)..(i + 3 - 1) <=> j = i + 1 \/ j = i + 2
        OBVIOUS
    <2> HIDE DEF l, code
    <2> QED
        BY <2>1, <2>2, CharacterIs DEF l, code
<1>3. CASE Follows(i + 1) /\ Follows(i + 2)
    <2>0. i + 1 \in Nat \ {0} /\ i + 2 \in Nat \ {0}
        OBVIOUS
    <2>1. b \in 128..191 /\ Bits(i + 1) = b - 128 /\ c \in 128..191 /\ Bits(i + 2) = c - 128
        BY <1>3, <2>0, BitsAre, ZenonT(30)
    <2>2. code = 64 * (64 * (l - 224) + (b - 128)) + (c - 128)
        BY <1>1, <2>1, Encoding
    <2> HIDE DEF l, b, c, code
    <2>3. l \in 224..239 => (IsCodePoint(code) /\ code >= Least(3) <=> (l = 224 => b >= 160) /\ (l = 237 => b <= 159))
        <3>1. Least(3) = 2048
            BY Encoding
        <3> QED
            BY <1>1, <2>1, <2>2, <3>1, SMT DEF IsCodePoint, IsHigh, IsLow
    <2>4. l >= 224 /\ l < 240 <=> l \in 224..239
        BY <1>1
    <2> QED
        BY <1>2, <1>3, <2>3, <2>4 DEF l, b
<1> QED
    BY <1>2, <1>3

(* Four are one unless they are too long for what they say, or behind the last one there is. *)
LEMMA CharacterOfFour ==
    ASSUME Standing, NEW i \in 1..Len(between), IsByte(i)
    PROVE  IsCharacter(i, 4) <=> /\ Follows(i + 1) /\ Follows(i + 2) /\ Follows(i + 3) /\ between[i].n \in 240..244
                                 /\ between[i].n = 240 => between[i + 1].n >= 144
                                 /\ between[i].n = 244 => between[i + 1].n <= 143
<1> DEFINE l == between[i].n
           b == between[i + 1].n
           c == between[i + 2].n
           d == between[i + 3].n
           code == Code(i, 4)
<1>1. l \in 0..255
    BY BytesAre
<1>2. IsCharacter(i, 4) <=> /\ Follows(i + 1) /\ Follows(i + 2) /\ Follows(i + 3) /\ l >= 240 /\ l < 248
                            /\ IsCodePoint(code) /\ code >= Least(4)
    <2>1. Mark(4) = 240 /\ Above(4) = 248
        BY Encoding
    <2>2. \A j : j \in (i + 1)..(i + 4 - 1) <=> j = i + 1 \/ j = i + 2 \/ j = i + 3
        OBVIOUS
    <2> HIDE DEF l, code
    <2> QED
        BY <2>1, <2>2, CharacterIs, SMTT(30) DEF l, code
<1>3. CASE Follows(i + 1) /\ Follows(i + 2) /\ Follows(i + 3)
    <2>0. i + 1 \in Nat \ {0} /\ i + 2 \in Nat \ {0} /\ i + 3 \in Nat \ {0}
        OBVIOUS
    <2>1. /\ b \in 128..191 /\ Bits(i + 1) = b - 128 /\ c \in 128..191 /\ Bits(i + 2) = c - 128
          /\ d \in 128..191 /\ Bits(i + 3) = d - 128
        BY <1>3, <2>0, BitsAre, ZenonT(30)
    <2>2. code = 64 * (64 * (64 * (l - 240) + (b - 128)) + (c - 128)) + (d - 128)
        BY <1>1, <2>1, Encoding
    <2> HIDE DEF l, b, c, d, code
    <2>3. l \in 240..247 => (IsCodePoint(code) /\ code >= Least(4)
                                 <=> l <= 244 /\ (l = 240 => b >= 144) /\ (l = 244 => b <= 143))
        <3>1. Least(4) = 65536
            BY Encoding, SMT DEF Supplementary
        <3> QED
            BY <1>1, <2>1, <2>2, <3>1, SMT DEF IsCodePoint, IsHigh, IsLow
    <2>4. (l >= 240 /\ l < 248 <=> l \in 240..247) /\ (l \in 240..247 /\ l <= 244 <=> l \in 240..244)
        BY <1>1
    <2> QED
        BY <1>2, <1>3, <2>3, <2>4 DEF l, b
<1> QED
    BY <1>2, <1>3

(* validLength finds the characters. *)
LEMMA ValidLengthFinds ==
    ASSUME Standing, NEW i \in 1..Len(between), IsByte(i)
    PROVE  /\ ValidLength(i) \in 0..4
           /\ \A k \in 1..4 : IsCharacter(i, k) <=> ValidLength(i) = k
<1> DEFINE l == between[i].n
           b == between[i + 1].n
           second == i < Len(between) /\ between[i + 1].t = "byte" /\ b \in SecondByte(l)
           v == ValidLength(i)
           two == l \in 194..223 /\ second
           three == l \in 224..239 /\ second /\ Cont(i + 2)
           four == l \in 240..244 /\ second /\ Cont(i + 2) /\ Cont(i + 3)
<1>1. l \in 0..255
    BY BytesAre
<1>2. v = CASE l < 128 -> 1 [] two -> 2 [] three -> 3 [] four -> 4 [] OTHER -> 0
    BY Zenon DEF ValidLength
<1>3. (Cont(i + 2) <=> Follows(i + 2)) /\ (Cont(i + 3) <=> Follows(i + 3))
    BY DEF Cont, InRange, Follows, IsByte
<1>4. /\ IsCharacter(i, 1) <=> l < 128
      /\ IsCharacter(i, 2) <=> Follows(i + 1) /\ l \in 194..223
      /\ IsCharacter(i, 3) <=> /\ Follows(i + 1) /\ Follows(i + 2) /\ l \in 224..239
                               /\ l = 224 => b >= 160
                               /\ l = 237 => b <= 159
      /\ IsCharacter(i, 4) <=> /\ Follows(i + 1) /\ Follows(i + 2) /\ Follows(i + 3) /\ l \in 240..244
                               /\ l = 240 => b >= 144
                               /\ l = 244 => b <= 143
    BY CharacterOfOne, CharacterOfTwo, CharacterOfThree, CharacterOfFour
<1>5. (IsByte(i + 1) <=> i < Len(between) /\ between[i + 1].t = "byte") /\ (IsByte(i + 1) => b \in 0..255)
    <2>1. Len(between) \in Nat
        BY DEF Standing
    <2>2. IsByte(i + 1) <=> i < Len(between) /\ between[i + 1].t = "byte"
        BY <2>1 DEF IsByte
    <2>3. IsByte(i + 1) => i + 1 \in 1..Len(between)
        BY <2>1 DEF IsByte
    <2> QED
        BY <2>2, <2>3, BytesAre
<1>6. Follows(i + 1) <=> IsByte(i + 1) /\ b \in 128..191
    BY DEF Follows
<1> HIDE DEF l, b
<1>7. second <=> /\ Follows(i + 1)
                 /\ l = 224 => b >= 160
                 /\ l = 237 => b <= 159
                 /\ l = 240 => b >= 144
                 /\ l = 244 => b <= 143
    <2>1. IsByte(i + 1) => (b \in SecondByte(l) <=> /\ b \in 128..191
                                                    /\ l = 224 => b >= 160
                                                    /\ l = 237 => b <= 159
                                                    /\ l = 240 => b >= 144
                                                    /\ l = 244 => b <= 143)
        <3> SUFFICES ASSUME IsByte(i + 1)
                     PROVE  b \in SecondByte(l) <=> /\ b \in 128..191
                                                    /\ l = 224 => b >= 160
                                                    /\ l = 237 => b <= 159
                                                    /\ l = 240 => b >= 144
                                                    /\ l = 244 => b <= 143
            OBVIOUS
        <3>1. b \in 0..255
            BY <1>5
        <3> DEFINE S == SecondByte(l)
                   Is(T) == b \in T <=> /\ b \in 128..191
                                        /\ l = 224 => b >= 160
                                        /\ l = 237 => b <= 159
                                        /\ l = 240 => b >= 144
                                        /\ l = 244 => b <= 143
        <3>2. CASE l = 224
            <4>1. S = 160..191
                BY <3>2 DEF SecondByte
            <4>2. Is(160..191)
                BY <3>1, <3>2
            <4> HIDE DEF S, Is
            <4>3. Is(S)
                BY <4>1, <4>2
            <4> QED
                BY <4>3 DEF S, Is
        <3>3. CASE l = 237
            <4>1. S = 128..159
                BY <3>3 DEF SecondByte
            <4>2. Is(128..159)
                BY <3>1, <3>3
            <4> HIDE DEF S, Is
            <4>3. Is(S)
                BY <4>1, <4>2
            <4> QED
                BY <4>3 DEF S, Is
        <3>4. CASE l = 240
            <4>1. S = 144..191
                BY <3>4 DEF SecondByte
            <4>2. Is(144..191)
                BY <3>1, <3>4
            <4> HIDE DEF S, Is
            <4>3. Is(S)
                BY <4>1, <4>2
            <4> QED
                BY <4>3 DEF S, Is
        <3>5. CASE l = 244
            <4>1. S = 128..143
                BY <3>5 DEF SecondByte
            <4>2. Is(128..143)
                BY <3>1, <3>5
            <4> HIDE DEF S, Is
            <4>3. Is(S)
                BY <4>1, <4>2
            <4> QED
                BY <4>3 DEF S, Is
        <3>6. CASE l \notin {224, 237, 240, 244}
            <4>1. S = 128..191
                BY <3>6 DEF SecondByte
            <4>2. Is(128..191)
                BY <3>1, <3>6
            <4> HIDE DEF S, Is
            <4>3. Is(S)
                BY <4>1, <4>2
            <4> QED
                BY <4>3 DEF S, Is
        <3> QED
            BY <3>2, <3>3, <3>4, <3>5, <3>6
    <2> QED
        BY <1>5, <1>6, <2>1
<1> HIDE DEF second, v
<1>8. /\ two <=> IsCharacter(i, 2)
      /\ three <=> IsCharacter(i, 3)
      /\ four <=> IsCharacter(i, 4)
    <2>1. /\ l \in 194..223 => l # 224 /\ l # 237 /\ l # 240 /\ l # 244
          /\ l \in 224..239 => l # 240 /\ l # 244
          /\ l \in 240..244 => l # 224 /\ l # 237
        BY <1>1
    <2>2. two <=> IsCharacter(i, 2)
        BY <1>4, <1>7, <2>1
    <2>3. three <=> IsCharacter(i, 3)
        BY <1>3, <1>4, <1>7, <2>1
    <2>4. four <=> IsCharacter(i, 4)
        BY <1>3, <1>4, <1>7, <2>1
    <2> QED
        BY <2>2, <2>3, <2>4
<1>9. /\ l < 128 => ~two /\ ~three /\ ~four
      /\ two => ~(l < 128) /\ ~three /\ ~four
      /\ three => ~(l < 128) /\ ~two /\ ~four
      /\ four => ~(l < 128) /\ ~two /\ ~three
    BY <1>1
<1> HIDE DEF two, three, four
<1>10. \A k \in 1..4 : k = 1 \/ k = 2 \/ k = 3 \/ k = 4
    OBVIOUS
<1>11. CASE l < 128
    <2>1. v = 1
        BY <1>2, <1>9, <1>11, Zenon
    <2> QED
        BY <1>4, <1>8, <1>9, <1>10, <1>11, <2>1 DEF v
<1>12. CASE two
    <2>1. v = 2
        BY <1>2, <1>9, <1>12, Zenon
    <2> QED
        BY <1>4, <1>8, <1>9, <1>10, <1>12, <2>1 DEF v
<1>13. CASE three
    <2>1. v = 3
        BY <1>2, <1>9, <1>13, Zenon
    <2> QED
        BY <1>4, <1>8, <1>9, <1>10, <1>13, <2>1 DEF v
<1>14. CASE four
    <2>1. v = 4
        BY <1>2, <1>9, <1>14, Zenon
    <2> QED
        BY <1>4, <1>8, <1>9, <1>10, <1>14, <2>1 DEF v
<1>15. CASE ~(l < 128) /\ ~two /\ ~three /\ ~four
    <2>1. v = 0
        BY <1>2, <1>15, Zenon
    <2> QED
        BY <1>4, <1>8, <1>10, <1>15, <2>1 DEF v
<1> QED
    BY <1>11, <1>12, <1>13, <1>14, <1>15

(* worths[n]: what the first n elements are worth. *)
Tallies(worths) ==
    /\ worths \in [0..Len(between) -> Seq(Pieces)]
    /\ worths[0] = <<>>
    /\ \A p \in 1..Len(between) : worths[p] = worths[p - 1] \o Worth(p)

(* What has been written stays. *)
LEMMA WrittenStays ==
    ASSUME between' = between
    PROVE  /\ \A i, k : IsCharacter(i, k)' <=> IsCharacter(i, k)
           /\ \A p : Worth(p)' = Worth(p)
           /\ \A worths : Tallies(worths)' <=> Tallies(worths)
<1>1. ASSUME NEW i, NEW k
      PROVE  IsCharacter(i, k)' <=> IsCharacter(i, k)
    BY SMT DEF IsCharacter, Code, Bits
<1>2. ASSUME NEW p
      PROVE  Worth(p)' = Worth(p)
    BY <1>1, SMT DEF Worth
<1>3. ASSUME NEW worths
      PROVE  Tallies(worths)' <=> Tallies(worths)
    <2>1. (\A p \in 1..Len(between) : worths[p] = worths[p - 1] \o Worth(p))'
              <=> \A p \in 1..Len(between) : worths[p] = worths[p - 1] \o Worth(p)
        BY <1>2, Zenon
    <2> QED
        BY <2>1, Zenon DEF Tallies
<1> QED
    BY <1>1, <1>2, <1>3

InCharacter(p) == \E i \in 1..p, k \in 1..4 : p < i + k /\ IsCharacter(i, k)

(* What an element is worth, by what it is. *)
LEMMA WorthIs ==
    ASSUME Standing, NEW p \in 1..Len(between)
    PROVE  LET e == between[p] IN
           /\ e.t = "escape" => Worth(p) = <<Rune(e.n)>>
           /\ e.t = "byte" => Worth(p) = IF InCharacter(p) THEN <<e>> ELSE <<Replacement>>
           /\ High(e) => Worth(p) = IF p < Len(between) /\ Low(between[p + 1])
                                    THEN <<Paired(e, between[p + 1])>> ELSE <<Replacement>>
           /\ Low(e) => Worth(p) = IF p > 1 /\ High(between[p - 1]) THEN <<>> ELSE <<Replacement>>
           /\ e.t = "unit" /\ ~High(e) /\ ~Low(e) => Worth(p) = <<Rune(e.n)>>
<1> DEFINE e == between[p]
<1>1. e \in Elements
    BY DEF Standing
<1> HIDE DEF e
<1>2. /\ e.t = "escape" => e.t # "byte" /\ ~High(e) /\ ~Low(e)
      /\ e.t = "byte" => e.t # "escape" /\ ~High(e) /\ ~Low(e)
      /\ High(e) => e.t = "unit" /\ ~Low(e)
      /\ Low(e) => e.t = "unit"
      /\ e.t = "unit" => e.t # "escape" /\ e.t # "byte"
    <2>1. e.n \in Int
        BY <1>1, ElementIs
    <2>2. High(e) => e.t = "unit" /\ ~Low(e)
        BY <2>1, SMT DEF High, Low, IsHigh, IsLow
    <2>3. (High(e) => e.t = "unit") /\ (Low(e) => e.t = "unit")
        BY Zenon DEF High, Low
    <2> QED
        BY <2>2, <2>3, SMT
<1>3. Worth(p) = CASE e.t = "escape" -> <<Rune(e.n)>>
                   [] e.t = "byte" -> IF InCharacter(p) THEN <<e>> ELSE <<Replacement>>
                   [] High(e) -> IF p < Len(between) /\ Low(between[p + 1])
                                 THEN <<Paired(e, between[p + 1])>> ELSE <<Replacement>>
                   [] Low(e)  -> IF p > 1 /\ High(between[p - 1]) THEN <<>> ELSE <<Replacement>>
                   [] OTHER   -> <<Rune(e.n)>>
    BY Zenon DEF Worth, InCharacter, e
<1>4. e.t = "escape" => Worth(p) = <<Rune(e.n)>>
    BY <1>2, <1>3, Zenon
<1>5. e.t = "byte" => Worth(p) = IF InCharacter(p) THEN <<e>> ELSE <<Replacement>>
    BY <1>2, <1>3, Zenon
<1>6. High(e) => Worth(p) = IF p < Len(between) /\ Low(between[p + 1])
                            THEN <<Paired(e, between[p + 1])>> ELSE <<Replacement>>
    BY <1>2, <1>3, Zenon
<1>7. Low(e) => Worth(p) = IF p > 1 /\ High(between[p - 1]) THEN <<>> ELSE <<Replacement>>
    BY <1>2, <1>3, Zenon
<1>8. e.t = "unit" /\ ~High(e) /\ ~Low(e) => Worth(p) = <<Rune(e.n)>>
    BY <1>2, <1>3, Zenon
<1> QED
    BY <1>4, <1>5, <1>6, <1>7, <1>8, Zenon DEF e

(* Two surrogates make one character, the code's and Unicode's. *)
LEMMA PairsAreCombined ==
    ASSUME NEW a \in Elements, NEW b \in Elements, High(a), Low(b)
    PROVE  Combined(a, b) = Paired(a, b) /\ Combined(a, b) \in Pieces
<1> DEFINE m == a.n
           n == b.n
<1>1. m \in Int /\ n \in Int
    BY ElementIs
<1>2. IsHigh(m) /\ IsLow(n)
    BY Zenon DEF High, Low
<1> HIDE DEF m, n
<1>3. m % 1024 = m - 55296 /\ n % 1024 = n - 56320
    BY <1>1, <1>2, SMT DEF IsHigh, IsLow
<1>4. 65536 + (m - 55296) * 1024 + (n - 56320) = Supplementary + 1024 * (m % 1024) + (n % 1024)
    BY <1>1, <1>3, SMT DEF Supplementary
<1>5. Combined(a, b) = Paired(a, b)
    BY <1>4, SMT DEF Combined, Paired, m, n
<1>6. 65536 + (m - 55296) * 1024 + (n - 56320) \in Int
    BY <1>1, SMT
<1>7. Combined(a, b) \in Pieces
    BY <1>6, SMT DEF Combined, Rune, Pieces, m, n
<1> QED
    BY <1>5, <1>7

(* A rune is a piece, and so is what stands for what cannot be read. *)
LEMMA RuneIs ==
    /\ \A n \in Int : Rune(n) \in Pieces
    /\ Replacement \in Pieces
<1>1. \A n \in Int : Rune(n) \in Pieces
    BY SMT DEF Rune, Pieces
<1>2. Replacement \in Pieces
    BY SMT DEF Replacement, Rune, Pieces
<1> QED
    BY <1>1, <1>2

(* What an element is worth is pieces. *)
LEMMA WorthType ==
    ASSUME Standing, NEW p \in 1..Len(between)
    PROVE  Worth(p) \in Seq(Pieces)
<1> DEFINE e == between[p]
           w == Worth(p)
           next == between[p + 1]
<1>1. e \in Elements
    BY DEF Standing
<1>2. /\ e \in Pieces /\ e.n \in Int /\ e.t \in {"byte", "unit", "escape"}
    BY <1>1, ElementIs
<1>3. Rune(e.n) \in Pieces /\ Replacement \in Pieces
    BY <1>2, RuneIs
<1>4. p < Len(between) => next \in Elements
    BY DEF Standing
<1>5. High(e) /\ p < Len(between) /\ Low(next) => Paired(e, next) \in Pieces
    <2> HIDE DEF e, next
    <2> SUFFICES ASSUME High(e), p < Len(between), Low(next) PROVE Paired(e, next) \in Pieces
        OBVIOUS
    <2>1. Combined(e, next) = Paired(e, next) /\ Combined(e, next) \in Pieces
        BY <1>1, <1>4, PairsAreCombined
    <2> QED
        BY <2>1, Zenon
<1>6. w \in {<<>>, <<Rune(e.n)>>, <<e>>, <<Replacement>>}
          \/ (High(e) /\ p < Len(between) /\ Low(next) /\ w = <<Paired(e, next)>>)
    <2>1. /\ e.t = "escape" => w = <<Rune(e.n)>>
          /\ e.t = "byte" => w = IF InCharacter(p) THEN <<e>> ELSE <<Replacement>>
          /\ High(e) => w = IF p < Len(between) /\ Low(next) THEN <<Paired(e, next)>> ELSE <<Replacement>>
          /\ Low(e) => w = IF p > 1 /\ High(between[p - 1]) THEN <<>> ELSE <<Replacement>>
          /\ e.t = "unit" /\ ~High(e) /\ ~Low(e) => w = <<Rune(e.n)>>
        BY WorthIs, Zenon
    <2> HIDE DEF e, w, next
    <2>2. CASE e.t = "escape"
        BY <2>1, <2>2
    <2>3. CASE e.t = "byte"
        BY <2>1, <2>3
    <2>4. CASE High(e)
        BY <2>1, <2>4
    <2>5. CASE Low(e)
        BY <2>1, <2>5
    <2>6. CASE e.t = "unit" /\ ~High(e) /\ ~Low(e)
        BY <2>1, <2>6
    <2> QED
        BY <1>2, <2>2, <2>3, <2>4, <2>5, <2>6
<1> HIDE DEF e, w, next
<1>7. \A x \in Pieces : <<x>> \in Seq(Pieces)
    <2> DEFINE B == Pieces
    <2> HIDE DEF B
    <2>1. \A x \in B : <<x>> \in Seq(B)
        OBVIOUS
    <2> QED
        BY <2>1 DEF B
<1>8. <<>> \in Seq(Pieces)
    OBVIOUS
<1>9. w \in Seq(Pieces)
    <2>1. CASE w \in {<<>>, <<Rune(e.n)>>, <<e>>, <<Replacement>>}
        BY <1>2, <1>3, <1>7, <1>8, <2>1, Zenon
    <2>2. CASE High(e) /\ p < Len(between) /\ Low(next) /\ w = <<Paired(e, next)>>
        BY <1>5, <1>7, <2>2, Zenon
    <2> QED
        BY <1>6, <2>1, <2>2
<1> QED
    BY <1>9 DEF w

(* There is a tally of what has been written. *)
LEMMA TalliesAre ==
    ASSUME Standing
    PROVE  \E worths : Tallies(worths)
<1> DEFINE X == Seq(Pieces)
           N == Len(between)
           W == [p \in 1..N |-> [x \in X |-> x \o Worth(p)]]
           a == <<>>
<1>1. N \in Nat /\ a \in X
    BY DEF Standing
<1>2. W \in [1..N -> [X -> X]]
    <2>1. \A p \in 1..N : \A x \in X : x \o Worth(p) \in X
        <3>1. \A p \in 1..N : Worth(p) \in X
            BY WorthType
        <3> QED
            BY <3>1, Concatenation
    <2> HIDE DEF X, N
    <2> QED
        BY <2>1
<1>3. \A p \in 1..N : \A x \in X : W[p][x] = x \o Worth(p)
    <2> HIDE DEF X, N
    <2> QED
        OBVIOUS
<1> HIDE DEF X, N, W, a
<1>4. PICK g : Recurs(g, X, W, a, N)
    BY <1>1, <1>2, Recursion
<1>5. g \in [0..N -> X] /\ g[0] = a /\ \A p \in 1..N : g[p] = W[p][g[p - 1]]
    BY <1>4 DEF Recurs
<1>6. \A p \in 1..N : g[p - 1] \in X
    BY <1>1, <1>5
<1>7. \A p \in 1..N : g[p] = g[p - 1] \o Worth(p)
    BY <1>3, <1>5, <1>6
<1>8. Tallies(g)
    BY <1>5, <1>7, Zenon DEF Tallies, X, N, a
<1> QED
    BY <1>8

(* Whatever tallies is what is said. *)
LEMMA TalliesSay ==
    ASSUME Standing, NEW worths, Tallies(worths)
    PROVE  Worths(Len(between)) = worths[Len(between)]
<1> DEFINE N == Len(between)
           f[p \in 0..N] == IF p = 0 THEN <<>> ELSE f[p - 1] \o Worth(p)
<1>1. N \in Nat
    BY DEF Standing
<1>2. f = CHOOSE h : h = [p \in 0..N |-> IF p = 0 THEN <<>> ELSE h[p - 1] \o Worth(p)]
    OBVIOUS
<1>3. Worths(N) = f[N]
    BY DEF Worths
<1> HIDE DEF f, N
<1>4. worths = [p \in 0..N |-> IF p = 0 THEN <<>> ELSE worths[p - 1] \o Worth(p)]
    BY <1>1 DEF Tallies, N
<1>5. f = [p \in 0..N |-> IF p = 0 THEN <<>> ELSE f[p - 1] \o Worth(p)]
    BY <1>2, <1>4, Zenon
<1>6. \A p \in 0..N : f[p] = IF p = 0 THEN <<>> ELSE f[p - 1] \o Worth(p)
    BY <1>5, Zenon
<1>7. \A p \in 0..N : worths[p] = IF p = 0 THEN <<>> ELSE worths[p - 1] \o Worth(p)
    BY <1>4, Zenon
<1> DEFINE T == {n \in Nat : n <= N => f[n] = worths[n]}
<1>8. 0 \in T
    <2>1. 0 \in 0..N
        BY <1>1
    <2>2. f[0] = worths[0]
        BY <1>6, <1>7, <2>1, Zenon
    <2> QED
        BY <2>2
<1>9. ASSUME NEW n \in T
      PROVE  n + 1 \in T
    <2> SUFFICES ASSUME n + 1 <= N PROVE f[n + 1] = worths[n + 1]
        OBVIOUS
    <2>1. n + 1 \in 0..N /\ n + 1 # 0 /\ (n + 1) - 1 = n /\ f[n] = worths[n]
        BY <1>1
    <2> QED
        BY <1>6, <1>7, <2>1, Zenon
<1>10. T = Nat
    <2> HIDE DEF T
    <2>1. T \in SUBSET Nat
        BY DEF T
    <2> QED
        BY <1>8, <1>9, <2>1, Induction
<1>11. f[N] = worths[N]
    <2>1. N \in T /\ N <= N
        <3> HIDE DEF T
        <3> QED
            BY <1>1, <1>10
    <2> QED
        BY <2>1
<1> QED
    BY <1>3, <1>11 DEF N

(* A run that is one element longer. *)
LEMMA RunLonger ==
    ASSUME NEW B, NEW s \in Seq(B), NEW p \in Seq(B), NEW a \in Nat \ {0}, NEW m \in Nat, a <= m + 1, m + 1 <= Len(p)
    PROVE  s \o SubSeq(p, a, m + 1) = (s \o SubSeq(p, a, m)) \o <<p[m + 1]>>
<1> DEFINE u == SubSeq(p, a, m)
           x == p[m + 1]
           w == s \o u
<1>1. SubSeq(p, a, m + 1) = Append(u, x)
    <2>1. a - 1 \in Nat /\ a - 1 <= m /\ (a - 1) + 1 = a
        OBVIOUS
    <2> QED
        BY <2>1, SubSeqGrows
<1>2. u \in Seq(B) /\ x \in B
    OBVIOUS
<1> HIDE DEF u, x
<1>3. s \o Append(u, x) = Append(w, x)
    BY <1>2, AppendBehind
<1>4. w \in Seq(B)
    BY <1>2, Concatenation
<1> HIDE DEF w
<1>5. Append(w, x) = w \o <<x>>
    BY <1>2, <1>4
<1> QED
    BY <1>1, <1>3, <1>5 DEF u, x, w

(* An empty run. *)
LEMMA RunNothing ==
    ASSUME NEW B, NEW s \in Seq(B), NEW p, NEW a \in Int
    PROVE  s \o SubSeq(p, a, a - 1) = s
<1>1. SubSeq(p, a, a - 1) = <<>>
    OBVIOUS
<1> QED
    BY <1>1, ConcatEmptySeq

-----------------------------------------------------------------------------
(* What is plain so far. *)
PlainTo(n) == \A p \in 1..n : between[p].t = "byte" /\ between[p].n < 128

(* No character is cut here, and no pair of surrogates. *)
Uncut ==
    /\ \A i \in 1..(index - 1), k \in 1..4 : IsCharacter(i, k) => i + k <= index
    /\ 1 < index /\ index <= Len(between) /\ High(between[index - 1]) => ~Low(between[index])

UnquoteInv ==
    /\ Standing
    /\ index \in 1..(Len(between) + 1) /\ run \in 1..index
    /\ unquoted = "no" =>
           /\ parts \in Seq(Pieces)
           /\ \E worths : Tallies(worths) /\ Flushed = worths[index - 1]
           /\ Uncut
           /\ plain <=> PlainTo(index - 1)
    /\ unquoted # "no" =>
           /\ \E worths : Tallies(worths) /\ parts = worths[Len(between)]
           /\ plain <=> PlainTo(Len(between))

(* Before the first element nothing is worth nothing. *)
LEMMA InitUnquoteInv == UnquoteInit => UnquoteInv
<1> SUFFICES ASSUME UnquoteInit PROVE UnquoteInv
    OBVIOUS
<1>1. Standing
    <2>1. PICK n \in 0..MaxString : between \in [1..n -> Elements]
        BY Zenon DEF UnquoteInit
    <2>2. n \in Nat
        BY UnquoteAssumption, SMT
    <2> QED
        BY <2>1, <2>2 DEF Standing
<1>2. index = 1 /\ run = 1 /\ parts = <<>> /\ plain = TRUE /\ unquoted = "no"
    BY DEF UnquoteInit
<1>3. Len(between) \in Nat
    BY <1>1 DEF Standing
<1>4. PICK worths : Tallies(worths)
    BY <1>1, TalliesAre
<1>5. Flushed = worths[0]
    <2>1. worths[0] = <<>>
        BY <1>4 DEF Tallies
    <2>2. <<>> \in Seq(Pieces)
        OBVIOUS
    <2>3. Flushed = <<>>
        BY <1>2, <2>2, RunNothing DEF Flushed
    <2> QED
        BY <2>1, <2>3
<1>6. Uncut /\ PlainTo(0)
    BY <1>2 DEF Uncut, PlainTo
<1> QED
    BY <1>1, <1>2, <1>3, <1>4, <1>5, <1>6 DEF UnquoteInv

(* A byte that follows another starts no character, and nor does anything that is no byte. *)
LEMMA StartsNone ==
    ASSUME Standing, NEW i \in 1..Len(between), Follows(i) \/ between[i].t # "byte", NEW k \in 1..4
    PROVE  ~IsCharacter(i, k)
<1>1. i \in i..(i + k - 1)
    OBVIOUS
<1>2. CASE between[i].t # "byte"
    BY <1>1, <1>2, Zenon DEF IsCharacter
<1>3. CASE Follows(i)
    <2> DEFINE n == between[i].n
    <2>1. n \in 128..191
        BY <1>3 DEF Follows
    <2>2. IsCharacter(i, k) => n >= Mark(k) /\ n < Above(k)
        BY Zenon DEF IsCharacter
    <2> HIDE DEF n
    <2>3. k = 1 \/ k = 2 \/ k = 3 \/ k = 4
        OBVIOUS
    <2>4. Above(1) = 128 /\ Mark(2) = 192 /\ Mark(3) = 224 /\ Mark(4) = 240
        BY Encoding
    <2>5. CASE k = 1
        <3>1. IsCharacter(i, k) => n < 128
            BY <2>2, <2>4, <2>5, SMT
        <3>2. ~(n < 128)
            BY ONLY <2>1
        <3> QED
            BY <3>1, <3>2, Zenon
    <2>6. CASE k = 2
        <3>1. IsCharacter(i, k) => n >= 192
            BY <2>2, <2>4, <2>6, SMT
        <3>2. ~(n >= 192)
            BY ONLY <2>1
        <3> QED
            BY <3>1, <3>2, Zenon
    <2>7. CASE k = 3
        <3>1. IsCharacter(i, k) => n >= 224
            BY <2>2, <2>4, <2>7, SMT
        <3>2. ~(n >= 224)
            BY ONLY <2>1
        <3> QED
            BY <3>1, <3>2, Zenon
    <2>8. CASE k = 4
        <3>1. IsCharacter(i, k) => n >= 240
            BY <2>2, <2>4, <2>8, SMT
        <3>2. ~(n >= 240)
            BY ONLY <2>1
        <3> QED
            BY <3>1, <3>2, Zenon
    <2> QED
        BY <2>3, <2>5, <2>6, <2>7, <2>8
<1> QED
    BY <1>2, <1>3

(* What is replaced is worth what replaces it. *)
LEMMA ReplacedInv ==
    ASSUME UnquoteInv, unquoted = "no", NEW n \in 1..2, index + n - 1 <= Len(between), NEW runes \in Seq(Pieces),
           ReplaceBy(n, runes), Worth(index) = runes, n = 2 => Worth(index + 1) = <<>>,
           \A i \in index..(index + n - 1), k \in 1..4 : ~IsCharacter(i, k),
           index + n <= Len(between) /\ High(between[index + n - 1]) => ~Low(between[index + n]),
           between[index].t # "byte" \/ ~(between[index].n < 128)
    PROVE  UnquoteInv'
<1> DEFINE N == Len(between)
<1>1. Standing /\ N \in Nat /\ index \in 1..(N + 1) /\ run \in 1..index
    BY DEF UnquoteInv, Standing
<1>2. /\ between' = between /\ unquoted' = unquoted /\ plain' = FALSE
      /\ index' = index + n /\ run' = index + n /\ parts' = Flushed \o runes
    BY DEF ReplaceBy
<1>3. /\ parts \in Seq(Pieces) /\ Uncut
    BY DEF UnquoteInv
<1>4. PICK worths : Tallies(worths) /\ Flushed = worths[index - 1]
    BY DEF UnquoteInv
<1>5. /\ \A i, k : IsCharacter(i, k)' <=> IsCharacter(i, k)
      /\ Tallies(worths)'
      /\ Standing'
    <2>1. Standing'
        BY <1>1, <1>2 DEF Standing
    <2> QED
        BY <1>2, <1>4, <2>1, WrittenStays
<1>6. index - 1 \in 0..N /\ index \in 1..N /\ (n = 2 => index + 1 \in 1..N) /\ index + n - 1 \in 0..N
    BY <1>1
<1>7. worths[index + n - 1] = worths[index - 1] \o runes
    <2>1. worths[index] = worths[index - 1] \o runes
        BY <1>4, <1>6 DEF Tallies
    <2>2. CASE n = 1
        BY <1>1, <2>1, <2>2
    <2>3. CASE n = 2
        <3>1. worths[index + 1] = worths[(index + 1) - 1] \o <<>>
            BY <1>4, <1>6, <2>3, Zenon DEF Tallies
        <3>2. (index + 1) - 1 = index /\ index + n - 1 = index + 1
            BY <1>1, <2>3
        <3>3. worths[index] \in Seq(Pieces)
            <4>1. index \in 0..N
                BY <1>6
            <4> QED
                BY <1>4, <4>1, Zenon DEF Tallies
        <3>4. worths[index] \o <<>> = worths[index]
            BY <3>3, ConcatEmptySeq
        <3> QED
            BY <2>1, <3>1, <3>2, <3>4
    <2> QED
        BY <2>2, <2>3
<1>8. parts' = worths[index + n - 1] /\ parts' \in Seq(Pieces)
    <2>1. parts' = worths[index + n - 1]
        BY <1>2, <1>4, <1>7
    <2>2. worths[index + n - 1] \in Seq(Pieces)
        BY <1>4, <1>6 DEF Tallies
    <2> QED
        BY <2>1, <2>2
<1>9. Flushed' = worths[index' - 1]
    <2>1. Flushed' = parts' \o SubSeq(between', run', index' - 1)
        BY DEF Flushed
    <2>2. parts' \o SubSeq(between', run', run' - 1) = parts'
        <3>1. run' \in Int
            BY <1>1, <1>2
        <3> QED
            BY <1>8, <3>1, RunNothing
    <2>3. index' - 1 = run' - 1 /\ index' - 1 = index + n - 1
        BY <1>1, <1>2
    <2> QED
        BY <1>8, <2>1, <2>2, <2>3
<1>10. Uncut'
    <2>1. ASSUME NEW i \in 1..(index' - 1), NEW k \in 1..4, IsCharacter(i, k)'
          PROVE  i + k <= index'
        <3>1. IsCharacter(i, k)
            BY <1>5, <2>1
        <3>2. ~(i \in index..(index + n - 1))
            BY <3>1
        <3>3. i \in 1..(index - 1)
            BY <1>1, <1>2, <3>2, SMTT(30)
        <3>4. i + k <= index
            BY <1>3, <3>1, <3>3 DEF Uncut
        <3> QED
            BY <1>1, <1>2, <3>3, <3>4
    <2>2. index' <= Len(between)' /\ High(between[index - 1])' => ~Low(between[index])'
        <3>1. index' - 1 = index + n - 1
            BY <1>1, <1>2
        <3> QED
            BY <1>2, <3>1, Zenon
    <2> QED
        BY <2>1, <2>2, Zenon DEF Uncut
<1>11. ~PlainTo(index - 1)'
    <2>1. index \in 1..(index' - 1)
        BY <1>1, <1>2
    <2> QED
        BY <1>2, <2>1, Zenon DEF PlainTo
<1>12. index' \in 1..(Len(between') + 1) /\ run' \in 1..index'
    BY <1>1, <1>2
<1> QED
    BY <1>2, <1>4, <1>5, <1>8, <1>9, <1>10, <1>11, <1>12, Zenon DEF UnquoteInv

(* What is taken over is worth itself. *)
LEMMA TakenOverInv == UnquoteInv /\ TakeOver => UnquoteInv'
<1> SUFFICES ASSUME UnquoteInv, TakeOver PROVE UnquoteInv'
    OBVIOUS
<1> DEFINE N == Len(between)
           v == ValidLength(index)
<1>1. Standing /\ N \in Nat /\ index \in 1..(N + 1) /\ run \in 1..index /\ unquoted = "no"
    BY DEF UnquoteInv, Standing, TakeOver, Inside
<1>2. /\ between' = between /\ unquoted' = unquoted /\ plain' = (plain /\ between[index].n < 128)
      /\ index' = index + v /\ run' = run /\ parts' = parts
    BY DEF TakeOver, Here
<1>3. /\ parts \in Seq(Pieces) /\ Uncut
      /\ plain <=> PlainTo(index - 1)
    BY <1>1 DEF UnquoteInv
<1>4. PICK worths : Tallies(worths) /\ Flushed = worths[index - 1]
    BY <1>1 DEF UnquoteInv
<1>5. /\ \A i, k : IsCharacter(i, k)' <=> IsCharacter(i, k)
      /\ Tallies(worths)'
      /\ Standing'
    <2>1. Standing'
        BY <1>1, <1>2 DEF Standing
    <2> QED
        BY <1>2, <1>4, <2>1, WrittenStays
<1>6. index \in 1..N /\ IsByte(index) /\ v > 0
    <2>1. index <= N /\ between[index].t = "byte" /\ v > 0
        BY DEF TakeOver, Inside, Here
    <2>2. IsByte(index)
        BY <2>1, Zenon DEF IsByte
    <2> QED
        BY <1>1, <2>1, <2>2
<1>7. v \in 1..4 /\ \A k \in 1..4 : IsCharacter(index, k) <=> v = k
    <2>1. v \in 0..4 /\ \A k \in 1..4 : IsCharacter(index, k) <=> v = k
        BY <1>1, <1>6, ValidLengthFinds
    <2> HIDE DEF v
    <2> QED
        BY <1>6, <2>1
<1> HIDE DEF v
<1>8. /\ index + v - 1 <= N
      /\ \A j \in index..(index + v - 1) : between[j].t = "byte"
      /\ \A j \in (index + 1)..(index + v - 1) : between[j].n \div 64 = 2
    BY <1>7, Zenon DEF IsCharacter
<1>9. ASSUME NEW j \in index..(index + v - 1)
      PROVE  j \in 1..N /\ Worth(j) = <<between[j]>>
    <2>1. j \in 1..N /\ index \in 1..j /\ j < index + v
        BY <1>6, <1>7, <1>8
    <2>2. InCharacter(j)
        BY <1>7, <2>1, Zenon DEF InCharacter
    <2>3. between[j].t = "byte"
        BY <1>8
    <2> QED
        BY <1>1, <2>1, <2>2, <2>3, WorthIs, Zenon
<1>10. Flushed' = worths[index' - 1]
    <2> DEFINE P(m) == parts \o SubSeq(between, run, m) = worths[m]
    <2>1. P(index - 1)
        BY <1>4 DEF Flushed
    <2>2. ASSUME NEW m \in Int, index - 1 <= m, m < index + v - 1, P(m)
          PROVE  P(m + 1)
        <3>1. m + 1 \in index..(index + v - 1) /\ (m + 1) - 1 = m /\ m \in Nat /\ run \in Nat \ {0} /\ run <= m + 1
            BY <1>1, <1>7, <2>2
        <3>2. m + 1 \in 1..N /\ Worth(m + 1) = <<between[m + 1]>>
            BY <1>9, <3>1
        <3>3. worths[m + 1] = worths[m] \o <<between[m + 1]>>
            BY <1>4, <3>1, <3>2, Zenon DEF Tallies
        <3>4. between \in Seq(Pieces)
            <4>1. \A i \in 1..N : between[i] \in Pieces
                <5>1. \A i \in 1..N : between[i] \in Elements
                    BY <1>1 DEF Standing
                <5> QED
                    BY <5>1, ElementIs, Zenon
            <4>2. between = [i \in 1..N |-> between[i]]
                BY <1>1 DEF Standing
            <4> HIDE DEF N
            <4> QED
                BY <1>1, <4>1, <4>2 DEF N
        <3>5. m + 1 <= Len(between)
            BY <1>1, <3>2
        <3>6. parts \o SubSeq(between, run, m + 1) = (parts \o SubSeq(between, run, m)) \o <<between[m + 1]>>
            BY <1>3, <3>1, <3>4, <3>5, RunLonger, ZenonT(30)
        <3> QED
            BY <2>2, <3>3, <3>6, Zenon
    <2> HIDE DEF P
    <2>3. P(index + v - 1)
        <3>0. /\ v = 1 \/ v = 2 \/ v = 3 \/ v = 4
              /\ index \in Nat
            BY <1>6, <1>7
        <3>1. v >= 1 => P(index)
            <4>1. (index - 1) + 1 = index /\ index - 1 \in Int /\ (v >= 1 => index - 1 < index + v - 1)
                BY <1>7, <3>0
            <4> QED
                BY <2>1, <2>2, <4>1
        <3>2. v >= 2 => P(index + 1)
            <4>1. v >= 2 => v >= 1 /\ index < index + v - 1
                BY <1>7, <3>0
            <4> QED
                BY <2>2, <3>0, <3>1, <4>1
        <3>3. v >= 3 => P(index + 2)
            <4>1. v >= 3 => v >= 2 /\ index + 1 < index + v - 1 /\ (index + 1) + 1 = index + 2
                BY <1>7, <3>0
            <4> QED
                BY <2>2, <3>0, <3>2, <4>1
        <3>4. v >= 4 => P(index + 3)
            <4>1. v >= 4 => v >= 3 /\ index + 2 < index + v - 1 /\ (index + 2) + 1 = index + 3
                BY <1>7, <3>0
            <4> QED
                BY <2>2, <3>0, <3>3, <4>1
        <3>5. /\ v = 1 => index + v - 1 = index
              /\ v = 2 => index + v - 1 = index + 1
              /\ v = 3 => index + v - 1 = index + 2
              /\ v = 4 => index + v - 1 = index + 3
            BY <3>0
        <3>6. CASE v = 1
            BY <3>1, <3>5, <3>6
        <3>7. CASE v = 2
            BY <3>2, <3>5, <3>7
        <3>8. CASE v = 3
            BY <3>3, <3>5, <3>8
        <3>9. CASE v = 4
            BY <3>4, <3>5, <3>9
        <3> QED
            BY <3>0, <3>6, <3>7, <3>8, <3>9
    <2>4. index' - 1 = index + v - 1
        BY <1>2, <1>6, <1>7
    <2>5. Flushed' = parts \o SubSeq(between, run, index' - 1)
        BY <1>2 DEF Flushed
    <2> QED
        BY <2>3, <2>4, <2>5 DEF P
<1>11. Uncut'
    <2>1. ASSUME NEW i \in 1..(index' - 1), NEW k \in 1..4, IsCharacter(i, k)'
          PROVE  i + k <= index'
        <3>1. IsCharacter(i, k)
            BY <1>5, <2>1
        <3>2. CASE i < index
            <4>1. i \in 1..(index - 1)
                BY <1>6, <3>2
            <4>2. i + k <= index
                BY <1>3, <3>1, <4>1, Zenon DEF Uncut
            <4> QED
                BY <1>2, <1>6, <1>7, <4>1, <4>2
        <3>3. CASE i = index
            <4>1. v = k
                BY <1>7, <3>1, <3>3
            <4> QED
                BY <1>2, <1>6, <1>7, <3>3, <4>1
        <3>4. CASE i > index
            <4>1. i \in (index + 1)..(index + v - 1) /\ i \in index..(index + v - 1) /\ i \in 1..N
                BY <1>2, <1>6, <1>7, <1>8, <3>4
            <4>2. IsByte(i) /\ between[i].n \div 64 = 2
                BY <1>8, <4>1 DEF IsByte
            <4>3. Follows(i)
                <5> DEFINE m == between[i].n
                <5>1. m \in 0..255 /\ m \div 64 = 2
                    BY <1>1, <4>1, <4>2, BytesAre
                <5> HIDE DEF m
                <5>2. m \in 128..191
                    BY <5>1, Following
                <5> QED
                    BY <4>2, <5>2 DEF Follows, m
            <4> QED
                BY <1>1, <3>1, <4>1, <4>3, StartsNone
        <3> QED
            BY <1>6, <3>2, <3>3, <3>4
    <2>2. ~High(between[index' - 1])
        <3>1. index' - 1 \in index..(index + v - 1)
            BY <1>2, <1>6, <1>7
        <3>2. between[index' - 1].t = "byte"
            BY <1>8, <3>1
        <3> QED
            BY <3>2 DEF High
    <2> QED
        BY <1>2, <2>1, <2>2, Zenon DEF Uncut
<1>12. plain' <=> PlainTo(index' - 1)
    <2>1. CASE between[index].n < 128
        <3>1. v = 1
            BY <1>1, <1>6, <1>7, <2>1, CharacterOfOne
        <3>2. index' - 1 = index
            BY <1>2, <1>6, <3>1
        <3>3. between[index].t = "byte" /\ \A p \in 1..index : p = index \/ p \in 1..(index - 1)
            BY <1>6 DEF IsByte
        <3>4. \A p \in 1..(index - 1) : p \in 1..index
            BY <1>6
        <3>5. index \in 1..index
            BY <1>6
        <3>6. PlainTo(index) <=> PlainTo(index - 1)
            BY <2>1, <3>3, <3>4, <3>5, Zenon DEF PlainTo
        <3>7. plain' = (plain /\ TRUE)
            BY <1>2, <2>1, Zenon
        <3>8. plain' <=> plain
            BY <3>7, Zenon
        <3>9. PlainTo(index' - 1) <=> PlainTo(index)
            BY <3>2
        <3> QED
            BY <1>3, <3>6, <3>8, <3>9, Zenon
    <2>2. CASE ~(between[index].n < 128)
        <3>1. index \in 1..(index' - 1)
            BY <1>2, <1>6, <1>7
        <3>2. ~PlainTo(index' - 1)
            BY <2>2, <3>1, Zenon DEF PlainTo
        <3> QED
            BY <1>2, <2>2, <3>2, Zenon
    <2> QED
        BY <2>1, <2>2
<1>13. PlainTo(index - 1)' <=> PlainTo(index' - 1)
    BY <1>2 DEF PlainTo
<1>14. index' \in 1..(Len(between') + 1) /\ run' \in 1..index'
    BY <1>1, <1>2, <1>7, <1>8
<1>15. parts' \in Seq(Pieces)
    <2>1. parts' = parts
        BY <1>2
    <2> QED
        BY <1>3, <2>1, Zenon
<1> QED
    BY <1>1, <1>2, <1>5, <1>10, <1>11, <1>12, <1>13, <1>14, <1>15, Zenon DEF UnquoteInv

(* A byte that belongs to no character. *)
LEMMA BadByteInv == UnquoteInv /\ BadByte => UnquoteInv'
<1> SUFFICES ASSUME UnquoteInv, BadByte PROVE UnquoteInv'
    OBVIOUS
<1> DEFINE N == Len(between)
           e == between[index]
<1>1. /\ Standing /\ N \in Nat /\ index \in 1..(N + 1) /\ unquoted = "no" /\ Uncut
      /\ index <= N /\ e.t = "byte" /\ ValidLength(index) = 0 /\ ReplaceBy(1, <<Replacement>>)
    BY DEF UnquoteInv, Standing, BadByte, Inside, Here
<1>2. index \in 1..N
    BY <1>1
<1>3. IsByte(index)
    BY <1>1, Zenon DEF IsByte
<1>4. \A k \in 1..4 : ~IsCharacter(index, k)
    <2>1. \A k \in 1..4 : IsCharacter(index, k) <=> ValidLength(index) = k
        BY <1>1, <1>2, <1>3, ValidLengthFinds, Zenon
    <2>2. \A k \in 1..4 : k # 0
        OBVIOUS
    <2> QED
        BY <1>1, <2>1, <2>2, Zenon
<1>5. ~(e.n < 128)
    <2>1. IsCharacter(index, 1) <=> e.n < 128
        BY <1>1, <1>2, <1>3, CharacterOfOne, Zenon
    <2>2. 1 \in 1..4
        OBVIOUS
    <2> QED
        BY <1>4, <2>1, <2>2, Zenon
<1>6. ~InCharacter(index)
    <2> SUFFICES ASSUME NEW i \in 1..index, NEW k \in 1..4, index < i + k, IsCharacter(i, k)
                 PROVE  FALSE
        BY Zenon DEF InCharacter
    <2>1. i # index
        BY <1>4
    <2>2. i \in 1..(index - 1)
        BY <1>2, <2>1
    <2>3. i + k <= index
        BY <1>1, <2>2, Zenon DEF Uncut
    <2> QED
        BY <1>2, <2>3
<1>7. Worth(index) = <<Replacement>>
    BY <1>1, <1>2, <1>6, WorthIs, Zenon
<1>8. <<Replacement>> \in Seq(Pieces)
    <2>1. Replacement \in Pieces
        BY RuneIs
    <2> QED
        BY <2>1
<1>9. ~High(e)
    BY <1>1 DEF High
<1>10. /\ 1 \in 1..2 /\ index + 1 - 1 = index /\ 1 # 2
       /\ \A i \in index..(index + 1 - 1) : i = index
    BY <1>2
<1>11. \A i \in index..(index + 1 - 1), k \in 1..4 : ~IsCharacter(i, k)
    BY <1>4, <1>10, Zenon
<1>12. index + 1 <= Len(between) /\ High(between[index + 1 - 1]) => ~Low(between[index + 1])
    BY <1>9, <1>10, Zenon
<1>13. index + 1 - 1 <= Len(between)
    BY <1>1, <1>10
<1>14. between[index].t # "byte" \/ ~(between[index].n < 128)
    BY <1>5
<1> QED
    BY <1>1, <1>7, <1>8, <1>10, <1>11, <1>12, <1>13, <1>14, ReplacedInv, Zenon

(* An escape that stands for one character. *)
LEMMA SimpleEscapeInv == UnquoteInv /\ SimpleEscape => UnquoteInv'
<1> SUFFICES ASSUME UnquoteInv, SimpleEscape PROVE UnquoteInv'
    OBVIOUS
<1> DEFINE N == Len(between)
           e == between[index]
<1>1. /\ Standing /\ N \in Nat /\ index \in 1..(N + 1) /\ unquoted = "no"
      /\ index <= N /\ e.t = "escape" /\ ReplaceBy(1, <<Rune(e.n)>>)
    BY DEF UnquoteInv, Standing, SimpleEscape, Inside, Here
<1>2. index \in 1..N
    BY <1>1
<1>3. e.t # "byte" /\ ~High(e)
    BY <1>1 DEF High
<1>4. Worth(index) = <<Rune(e.n)>>
    BY <1>1, <1>2, WorthIs, Zenon
<1>5. <<Rune(e.n)>> \in Seq(Pieces)
    <2>1. e \in Elements
        BY <1>1, <1>2 DEF Standing
    <2>2. e.n \in Int
        BY <2>1, ElementIs
    <2>3. Rune(e.n) \in Pieces
        BY <2>2, RuneIs
    <2> QED
        BY <2>3
<1>6. \A k \in 1..4 : ~IsCharacter(index, k)
    BY <1>1, <1>2, <1>3, StartsNone, Zenon
<1>7. /\ 1 \in 1..2 /\ index + 1 - 1 = index /\ 1 # 2
      /\ \A i \in index..(index + 1 - 1) : i = index
    BY <1>2
<1>8. \A i \in index..(index + 1 - 1), k \in 1..4 : ~IsCharacter(i, k)
    BY <1>6, <1>7, Zenon
<1>9. index + 1 <= Len(between) /\ High(between[index + 1 - 1]) => ~Low(between[index + 1])
    BY <1>3, <1>7, Zenon
<1>10. index + 1 - 1 <= Len(between)
    BY <1>1, <1>7
<1>11. between[index].t # "byte" \/ ~(between[index].n < 128)
    BY <1>3
<1> QED
    BY <1>1, <1>4, <1>5, <1>7, <1>8, <1>9, <1>10, <1>11, ReplacedInv, Zenon

(* Two surrogates that belong together are one character. *)
LEMMA PairInv ==
    ASSUME UnquoteInv, unquoted = "no", index < Len(between), High(between[index]), Low(between[index + 1]),
           ReplaceBy(2, <<Combined(between[index], between[index + 1])>>)
    PROVE  UnquoteInv'
<1> DEFINE N == Len(between)
           e == between[index]
           next == between[index + 1]
<1>1. /\ Standing /\ N \in Nat /\ index \in 1..(N + 1)
    BY DEF UnquoteInv, Standing
<1>2. index \in 1..N /\ index + 1 \in 1..N
    BY <1>1
<1>3. e.t = "unit" /\ next.t = "unit"
    BY Zenon DEF High, Low
<1>4. e \in Elements /\ next \in Elements
    BY <1>1, <1>2 DEF Standing
<1>5. Combined(e, next) = Paired(e, next) /\ Combined(e, next) \in Pieces
    BY <1>4, PairsAreCombined, Zenon
<1>6. Worth(index) = <<Combined(e, next)>>
    BY <1>1, <1>2, <1>5, WorthIs, Zenon
<1>7. <<Combined(e, next)>> \in Seq(Pieces)
    BY <1>5
<1>8. Worth(index + 1) = <<>>
    <2>1. index + 1 > 1 /\ (index + 1) - 1 = index
        BY <1>2
    <2> QED
        BY <1>1, <1>2, <2>1, WorthIs, Zenon
<1>9. e.t # "byte" /\ next.t # "byte"
    BY <1>3
<1>10. \A k \in 1..4 : ~IsCharacter(index, k) /\ ~IsCharacter(index + 1, k)
    BY <1>1, <1>2, <1>9, StartsNone, Zenon
<1>11. /\ 2 \in 1..2 /\ index + 2 - 1 = index + 1
       /\ \A i \in index..(index + 2 - 1) : i = index \/ i = index + 1
    BY <1>2
<1>12. \A i \in index..(index + 2 - 1), k \in 1..4 : ~IsCharacter(i, k)
    BY <1>10, <1>11, Zenon
<1>13. index + 2 <= Len(between) /\ High(between[index + 2 - 1]) => ~Low(between[index + 2])
    <2>1. ~High(next)
        <3>1. e.n \in Int /\ next.n \in Int
            BY <1>4, ElementIs
        <3>2. IsLow(next.n)
            BY Zenon DEF Low
        <3> DEFINE m == next.n
        <3>3. m \in Int /\ IsLow(m)
            BY <3>1, <3>2
        <3> HIDE DEF m
        <3>4. ~IsHigh(m)
            BY <3>3, SMT DEF IsHigh, IsLow
        <3> QED
            BY <3>4, Zenon DEF High, m
    <2> QED
        BY <1>11, <2>1, Zenon
<1>14. index + 2 - 1 <= Len(between)
    BY <1>1, <1>11
<1>15. between[index].t # "byte" \/ ~(between[index].n < 128)
    BY <1>9
<1> QED
    BY <1>6, <1>7, <1>8, <1>11, <1>12, <1>13, <1>14, <1>15, ReplacedInv, Zenon

(* Any other is read on its own. *)
LEMMA SingleInv ==
    ASSUME UnquoteInv, Inside("unit"), ~(High(between[index]) /\ index < Len(between) /\ Low(between[index + 1])),
           ReplaceBy(1, <<IF High(between[index]) \/ Low(between[index]) THEN Replacement ELSE Rune(between[index].n)>>)
    PROVE  UnquoteInv'
<1> DEFINE N == Len(between)
           e == between[index]
           rune == IF High(e) \/ Low(e) THEN Replacement ELSE Rune(e.n)
<1>1. /\ Standing /\ N \in Nat /\ index \in 1..(N + 1) /\ unquoted = "no" /\ Uncut
      /\ index <= N /\ e.t = "unit" /\ ReplaceBy(1, <<rune>>)
    BY DEF UnquoteInv, Standing, Inside, Here
<1>2. index \in 1..N
    BY <1>1
<1>3. e.t # "byte"
    BY <1>1
<1>4. Worth(index) = <<rune>>
    <2>1. CASE High(e)
        <3>1. index < Len(between) => ~Low(between[index + 1])
            BY <2>1, Zenon
        <3>2. rune = Replacement
            BY <2>1
        <3> QED
            BY <1>1, <1>2, <2>1, <3>1, <3>2, WorthIs, Zenon
    <2>2. CASE Low(e) /\ ~High(e)
        <3>1. ~(index > 1 /\ High(between[index - 1]))
            BY <1>1, <2>2 DEF Uncut
        <3>2. rune = Replacement
            BY <2>2
        <3> QED
            BY <1>1, <1>2, <2>2, <3>1, <3>2, WorthIs, Zenon
    <2>3. CASE ~Low(e) /\ ~High(e)
        <3>1. rune = Rune(e.n)
            BY <2>3
        <3> QED
            BY <1>1, <1>2, <2>3, <3>1, WorthIs, Zenon
    <2> QED
        BY <2>1, <2>2, <2>3
<1>5. <<rune>> \in Seq(Pieces)
    <2>1. e \in Elements
        BY <1>1, <1>2 DEF Standing
    <2>2. e.n \in Int
        BY <2>1, ElementIs
    <2>3. Rune(e.n) \in Pieces /\ Replacement \in Pieces
        BY <2>2, RuneIs
    <2>4. rune \in Pieces
        BY <2>3, Zenon
    <2> HIDE DEF rune
    <2> QED
        BY <2>4
<1>6. \A k \in 1..4 : ~IsCharacter(index, k)
    BY <1>1, <1>2, <1>3, StartsNone, Zenon
<1>7. /\ 1 \in 1..2 /\ index + 1 - 1 = index /\ 1 # 2
      /\ \A i \in index..(index + 1 - 1) : i = index
    BY <1>2
<1>8. \A i \in index..(index + 1 - 1), k \in 1..4 : ~IsCharacter(i, k)
    BY <1>6, <1>7, Zenon
<1>9. index + 1 <= Len(between) /\ High(between[index + 1 - 1]) => ~Low(between[index + 1])
    <2>1. index + 1 <= Len(between) => index < Len(between)
        BY <1>1
    <2> QED
        BY <1>7, <2>1, Zenon
<1>10. index + 1 - 1 <= Len(between)
    BY <1>1, <1>7
<1>11. between[index].t # "byte" \/ ~(between[index].n < 128)
    BY <1>3
<1> HIDE DEF rune
<1> QED
    BY <1>1, <1>4, <1>5, <1>7, <1>8, <1>9, <1>10, <1>11, ReplacedInv, Zenon

(* At the end everything has been counted. *)
LEMMA StringEndsInv == UnquoteInv /\ StringEnds => UnquoteInv'
<1> SUFFICES ASSUME UnquoteInv, StringEnds PROVE UnquoteInv'
    OBVIOUS
<1> DEFINE N == Len(between)
<1>1. Standing /\ N \in Nat /\ index \in 1..(N + 1) /\ run \in 1..index
    BY DEF UnquoteInv, Standing
<1>2. /\ between' = between /\ plain' = plain /\ index' = index /\ run' = run /\ parts' = Flushed
      /\ unquoted' \in {"string", "eof", "syntax"}
      /\ unquoted = "no" /\ index > N
    BY DEF StringEnds
<1>3. index - 1 = N
    BY <1>1, <1>2
<1>4. PICK worths : Tallies(worths) /\ Flushed = worths[index - 1]
    BY <1>2, Zenon DEF UnquoteInv
<1>5. plain <=> PlainTo(index - 1)
    BY <1>2, Zenon DEF UnquoteInv
<1>6. Tallies(worths)' /\ Standing'
    <2>1. Standing'
        BY <1>1, <1>2 DEF Standing
    <2> QED
        BY <1>2, <1>4, <2>1, WrittenStays
<1>7. parts' = worths[Len(between')]
    BY <1>2, <1>3, <1>4
<1>8. plain' <=> PlainTo(Len(between))'
    <2>1. PlainTo(Len(between))' <=> PlainTo(Len(between))
        BY <1>2 DEF PlainTo
    <2>2. plain' = plain
        BY <1>2, Zenon
    <2> QED
        BY <1>3, <1>5, <2>1, <2>2, Zenon
<1>9. unquoted' # "no"
    BY <1>2
<1>10. index' \in 1..(Len(between') + 1) /\ run' \in 1..index'
    BY <1>1, <1>2
<1> QED
    BY <1>6, <1>7, <1>8, <1>9, <1>10, Zenon DEF UnquoteInv

(* Every step keeps the count. *)
LEMMA NextUnquoteInv == UnquoteInv /\ [UnquoteNext]_unquoteVars => UnquoteInv'
<1> SUFFICES ASSUME UnquoteInv, [UnquoteNext]_unquoteVars PROVE UnquoteInv'
    OBVIOUS
<1>1. CASE TakeOver
    BY <1>1, TakenOverInv
<1>2. CASE BadByte
    BY <1>2, BadByteInv
<1>3. CASE SimpleEscape
    BY <1>3, SimpleEscapeInv
<1>4. CASE UnicodeEscape
    <2>1. Inside("unit") /\ unquoted = "no"
        BY <1>4, Zenon DEF UnicodeEscape, Inside
    <2>2. CASE High(Here) /\ index < Len(between) /\ Low(between[index + 1])
        <3>1. ReplaceBy(2, <<Combined(Here, between[index + 1])>>)
            BY <1>4, <2>2, Zenon DEF UnicodeEscape
        <3> QED
            BY <2>1, <2>2, <3>1, PairInv, Zenon DEF Here
    <2>3. CASE ~(High(Here) /\ index < Len(between) /\ Low(between[index + 1]))
        <3>1. ReplaceBy(1, <<IF High(Here) \/ Low(Here) THEN Replacement ELSE Rune(Here.n)>>)
            BY <1>4, <2>3, Zenon DEF UnicodeEscape
        <3> QED
            BY <2>1, <2>3, <3>1, SingleInv, Zenon DEF Here
    <2> QED
        BY <2>2, <2>3
<1>5. CASE StringEnds
    BY <1>5, StringEndsInv
<1>6. CASE UNCHANGED unquoteVars
    <2>1. /\ between' = between /\ plain' = plain /\ index' = index /\ run' = run /\ parts' = parts
          /\ unquoted' = unquoted
        BY <1>6, Zenon DEF unquoteVars
    <2>2. /\ \A i, k : IsCharacter(i, k)' <=> IsCharacter(i, k)
          /\ \A worths : Tallies(worths)' <=> Tallies(worths)
        BY <2>1, WrittenStays
    <2>3. /\ Standing' <=> Standing
          /\ Flushed' = Flushed
          /\ \A n : PlainTo(n)' <=> PlainTo(n)
        BY <2>1, Zenon DEF Standing, Flushed, PlainTo
    <2>4. Uncut' <=> Uncut
        BY <2>1, <2>2, Zenon DEF Uncut, High, Low
    <2> QED
        BY <2>1, <2>2, <2>3, <2>4, Zenon DEF UnquoteInv
<1> QED
    BY <1>1, <1>2, <1>3, <1>4, <1>5, <1>6 DEF UnquoteNext

(* The count is kept throughout. *)
LEMMA UnquoteInvariance == UnquoteSpec => []UnquoteInv
<1> QED
    BY InitUnquoteInv, NextUnquoteInv, PTL DEF UnquoteSpec

(* At the end what has been counted is what Go reads. *)
LEMMA UnquoteInvSays == UnquoteInv => SaysWhatGoReads
<1> SUFFICES ASSUME UnquoteInv, unquoted # "no"
             PROVE  /\ parts = Worths(Len(between))
                    /\ plain <=> \A p \in 1..Len(between) : between[p].t = "byte" /\ between[p].n < 128
    BY Zenon DEF SaysWhatGoReads
<1>1. PICK worths : Tallies(worths) /\ parts = worths[Len(between)]
    BY Zenon DEF UnquoteInv
<1>2. Standing /\ (plain <=> PlainTo(Len(between)))
    BY Zenon DEF UnquoteInv
<1>3. Worths(Len(between)) = worths[Len(between)]
    BY <1>1, <1>2, TalliesSay, Zenon
<1> QED
    BY <1>1, <1>2, <1>3, Zenon DEF PlainTo

(***************************************************************************)
(* A string says what Go makes of it, whatever stands in it: what str      *)
(* (src/gateway/json.ts:50) has collected is, element by element, what     *)
(* Unicode makes of the bytes and escapes between the quotes.              *)
(***************************************************************************)
THEOREM StringsSayWhatGoReads == UnquoteSpec => []SaysWhatGoReads
<1> QED
    BY UnquoteInvariance, UnquoteInvSays, PTL

-----------------------------------------------------------------------------
(* The greatest of some numbers up to n. *)
LEMMA MaxOf ==
    ASSUME NEW n \in Nat, NEW S \in SUBSET (1..n), S # {}
    PROVE  Max(S) \in S /\ \A y \in S : y <= Max(S)
<1> DEFINE T == {n - x : x \in S}
<1>1. T \in SUBSET Nat /\ T # {}
    <2>1. \A x \in S : x \in 1..n /\ n - x \in Nat
        OBVIOUS
    <2>2. T \subseteq Nat
        BY <2>1
    <2>3. PICK x \in S : TRUE
        OBVIOUS
    <2>4. n - x \in T
        BY <2>3
    <2> QED
        BY <2>2, <2>4
<1>2. PICK least \in T : \A k \in T : least <= k
    BY <1>1, LeastNatural, Zenon
<1>3. PICK m \in S : least = n - m
    BY <1>2
<1>4. \A y \in S : m >= y
    <2> SUFFICES ASSUME NEW y \in S PROVE m >= y
        OBVIOUS
    <2>1. n - m <= n - y
        BY <1>2, <1>3
    <2> QED
        BY <2>1
<1> HIDE DEF T
<1>5. Max(S) \in S /\ \A y \in S : Max(S) >= y
    BY <1>4, Zenon DEF Max
<1> QED
    BY <1>5

(* What is as great as all others is the greatest. *)
LEMMA MaxIs ==
    ASSUME NEW S \in SUBSET Int, NEW x \in S, \A y \in S : y <= x
    PROVE  Max(S) = x
<1>1. \A y \in S : x >= y
    OBVIOUS
<1>2. Max(S) \in S /\ \A y \in S : Max(S) >= y
    BY <1>1, Zenon DEF Max
<1>3. Max(S) >= x /\ x >= Max(S) /\ Max(S) \in Int
    BY <1>1, <1>2
<1> QED
    BY <1>3

(* What the first k members of an object say of a scalar: the last of them, or e. *)
SaidIn(obj, f, k) == {j \in 1..k : Folded(obj.members[j].key) = f /\ obj.members[j].value.t # "null"}
LastOf(obj, f, k, e) == IF SaidIn(obj, f, k) = {} THEN e ELSE obj.members[Max(SaidIn(obj, f, k))].value.v
SaysAt(obj, f, j) == Folded(obj.members[j].key) = f /\ obj.members[j].value.t # "null"

(* No member says nothing. *)
LEMMA LastOfNone ==
    ASSUME NEW obj, NEW f, NEW e
    PROVE  LastOf(obj, f, 0, e) = e
<1>1. SaidIn(obj, f, 0) = {}
    BY DEF SaidIn
<1> QED
    BY <1>1, Zenon DEF LastOf

(* One more member says it last, or says nothing of it. *)
LEMMA LastOfMore ==
    ASSUME NEW obj, NEW f, NEW k \in Nat, NEW e
    PROVE  /\ SaysAt(obj, f, k + 1) => LastOf(obj, f, k + 1, e) = obj.members[k + 1].value.v
           /\ ~SaysAt(obj, f, k + 1) => LastOf(obj, f, k + 1, e) = LastOf(obj, f, k, e)
<1>2. ASSUME SaysAt(obj, f, k + 1)
      PROVE  LastOf(obj, f, k + 1, e) = obj.members[k + 1].value.v
    <2> DEFINE S == SaidIn(obj, f, k + 1)
    <2>1. k + 1 \in S /\ S \in SUBSET Int /\ \A y \in S : y <= k + 1
        BY <1>2 DEF SaidIn, SaysAt
    <2> HIDE DEF S
    <2>2. Max(S) = k + 1
        BY <2>1, MaxIs
    <2>3. S # {}
        BY <2>1
    <2> QED
        BY <2>2, <2>3, Zenon DEF LastOf, S
<1>3. ASSUME ~SaysAt(obj, f, k + 1)
      PROVE  LastOf(obj, f, k + 1, e) = LastOf(obj, f, k, e)
    <2>1. \A j : j \in 1..(k + 1) <=> j \in 1..k \/ j = k + 1
        OBVIOUS
    <2>2. SaidIn(obj, f, k + 1) = SaidIn(obj, f, k)
        BY <1>3, <2>1, Zenon DEF SaidIn, SaysAt
    <2> QED
        BY <2>2, Zenon DEF LastOf
<1> QED
    BY <1>2, <1>3, Zenon DEF LastOf

(* bind leaves of a struct what its members said last, and the rest as it was. *)
LEMMA BindInnerIs ==
    ASSUME NEW node, Len(node.members) \in Nat, NEW existing, existing = [f \in Inner |-> existing[f]]
    PROVE  BindInner(node, existing) = [f \in Inner |-> LastOf(node, f, Len(node.members), existing[f])]
<1> DEFINE N == Len(node.members)
           Step(sofar, m) == IF Folded(m.key) \in Inner
                             THEN [sofar EXCEPT ![Folded(m.key)] = BindScalar(m.value, Scalars[Folded(m.key)], @)]
                             ELSE sofar
           said == [k \in 0..N |-> [f \in Inner |-> LastOf(node, f, k, existing[f])]]
           after[k \in 0..N] ==
               IF k = 0 THEN existing
               ELSE IF Folded(node.members[k].key) \in Inner
                    THEN [after[k - 1] EXCEPT ![Folded(node.members[k].key)] =
                              BindScalar(node.members[k].value, Scalars[Folded(node.members[k].key)], @)]
                    ELSE after[k - 1]
<1>1. after = CHOOSE h : h = [k \in 0..N |->
               IF k = 0 THEN existing
               ELSE IF Folded(node.members[k].key) \in Inner
                    THEN [h[k - 1] EXCEPT ![Folded(node.members[k].key)] =
                              BindScalar(node.members[k].value, Scalars[Folded(node.members[k].key)], @)]
                    ELSE h[k - 1]]
    OBVIOUS
<1>2. BindInner(node, existing) = after[N]
    BY DEF BindInner
<1> HIDE DEF after, Step
<1>3. ASSUME NEW k \in 1..N
      PROVE  said[k] = Step(said[k - 1], node.members[k])
    <2> DEFINE m == node.members[k]
               g == Folded(m.key)
    <2>1. k - 1 \in Nat /\ (k - 1) + 1 = k /\ k \in 0..N /\ k - 1 \in 0..N
        OBVIOUS
    <2>2. \A f : /\ SaysAt(node, f, k) => LastOf(node, f, k, existing[f]) = m.value.v
                 /\ ~SaysAt(node, f, k) => LastOf(node, f, k, existing[f]) = LastOf(node, f, k - 1, existing[f])
        <3> SUFFICES ASSUME NEW f
                     PROVE  /\ SaysAt(node, f, k) => LastOf(node, f, k, existing[f]) = m.value.v
                            /\ ~SaysAt(node, f, k) => LastOf(node, f, k, existing[f]) = LastOf(node, f, k - 1, existing[f])
            OBVIOUS
        <3> DEFINE j == k - 1  e == existing[f]
        <3>1. j \in Nat /\ j + 1 = k
            BY <2>1
        <3> HIDE DEF j, e
        <3>2. /\ SaysAt(node, f, j + 1) => LastOf(node, f, j + 1, e) = node.members[j + 1].value.v
              /\ ~SaysAt(node, f, j + 1) => LastOf(node, f, j + 1, e) = LastOf(node, f, j, e)
            BY <3>1, LastOfMore
        <3> QED
            BY <3>1, <3>2 DEF j, e
    <2>3. /\ said[k] = [f \in Inner |-> LastOf(node, f, k, existing[f])]
          /\ said[k - 1] = [f \in Inner |-> LastOf(node, f, k - 1, existing[f])]
        BY <2>1
    <2> HIDE DEF said, N
    <2>4. CASE g \in Inner
        <3> DEFINE old == said[k - 1]
        <3>1. Step(old, m) = [old EXCEPT ![g] = BindScalar(m.value, Scalars[g], old[g])]
            BY <2>4 DEF Step
        <3>2. BindScalar(m.value, Scalars[g], old[g]) = LastOf(node, g, k, existing[g])
            <4>1. old[g] = LastOf(node, g, k - 1, existing[g])
                BY <2>3, <2>4
            <4>2. SaysAt(node, g, k) <=> m.value.t # "null"
                BY DEF SaysAt
            <4> QED
                BY <2>2, <4>1, <4>2, Zenon DEF BindScalar
        <3>3. \A f : f # g => LastOf(node, f, k, existing[f]) = LastOf(node, f, k - 1, existing[f])
            BY <2>2, Zenon DEF SaysAt
        <3> DEFINE x == BindScalar(m.value, Scalars[g], old[g])
                   L(f) == LastOf(node, f, k, existing[f])
        <3>4. \A f \in Inner : f # g => old[f] = L(f)
            BY <2>3, <3>3, Zenon
        <3>5. x = L(g) /\ old = [f \in Inner |-> old[f]] /\ g \in Inner
            BY <2>3, <2>4, <3>2
        <3>6. said[k] = [f \in Inner |-> L(f)]
            BY <2>3
        <3>7. Step(old, m) = [old EXCEPT ![g] = x]
            BY <3>1
        <3> HIDE DEF g, m, x, L, old
        <3>8. [old EXCEPT ![g] = x] = [f \in Inner |-> L(f)]
            BY <3>4, <3>5
        <3> QED
            BY <3>6, <3>7, <3>8, Zenon DEF old, m
    <2>5. CASE g \notin Inner
        <3>1. Step(said[k - 1], m) = said[k - 1]
            BY <2>5 DEF Step
        <3>2. \A f \in Inner : LastOf(node, f, k, existing[f]) = LastOf(node, f, k - 1, existing[f])
            BY <2>2, <2>5, Zenon DEF SaysAt
        <3> QED
            BY <2>3, <3>1, <3>2, Zenon
    <2> QED
        BY <2>4, <2>5
<1>4. said[0] = existing
    <2>1. \A f : LastOf(node, f, 0, existing[f]) = existing[f]
        <3> SUFFICES ASSUME NEW f PROVE LastOf(node, f, 0, existing[f]) = existing[f]
            OBVIOUS
        <3> DEFINE e == existing[f]
        <3> HIDE DEF e
        <3>1. LastOf(node, f, 0, e) = e
            BY LastOfNone
        <3> QED
            BY <3>1 DEF e
    <2>2. said[0] = [f \in Inner |-> LastOf(node, f, 0, existing[f])]
        OBVIOUS
    <2> QED
        BY <2>1, <2>2, Zenon
<1>5. said = [k \in 0..N |-> IF k = 0 THEN existing ELSE Step(said[k - 1], node.members[k])]
    <2>1. said = [k \in 0..N |-> said[k]]
        OBVIOUS
    <2>2. \A k \in 0..N : k = 0 \/ k \in 1..N
        OBVIOUS
    <2> HIDE DEF said
    <2>3. \A k \in 0..N : said[k] = IF k = 0 THEN existing ELSE Step(said[k - 1], node.members[k])
        BY <1>3, <1>4, <2>2, Zenon
    <2> QED
        BY <2>1, <2>3, Zenon
<1> HIDE DEF said
<1>6. after = [k \in 0..N |-> IF k = 0 THEN existing ELSE Step(after[k - 1], node.members[k])]
    BY <1>1, <1>5, Zenon DEF Step
<1> DEFINE T == {k \in Nat : k <= N => after[k] = said[k]}
<1>7. 0 \in T
    <2>1. 0 \in 0..N
        OBVIOUS
    <2> QED
        BY <1>5, <1>6, <2>1
<1>8. ASSUME NEW k \in T
      PROVE  k + 1 \in T
    <2> SUFFICES ASSUME k + 1 <= N PROVE after[k + 1] = said[k + 1]
        OBVIOUS
    <2>1. k + 1 \in 0..N /\ k + 1 # 0 /\ (k + 1) - 1 = k /\ after[k] = said[k]
        OBVIOUS
    <2>2. after[k + 1] = Step(after[k], node.members[k + 1])
        BY <1>6, <2>1, Zenon
    <2>3. said[k + 1] = Step(said[k], node.members[k + 1])
        BY <1>5, <2>1, Zenon
    <2> QED
        BY <2>1, <2>2, <2>3
<1>9. T = Nat
    <2>1. T \in SUBSET Nat
        OBVIOUS
    <2> HIDE DEF T
    <2> QED
        BY <1>7, <1>8, <2>1, Induction
<1>10. after[N] = said[N]
    BY <1>9
<1> QED
    BY <1>2, <1>10 DEF said

(* What is merged into a struct by one more object. *)
LEMMA InnerReadsMore ==
    ASSUME NEW n \in Nat, NEW D \in SUBSET (1..n), NEW objs, NEW more, DOMAIN objs = D, DOMAIN more = D \cup {n + 1},
           \A i \in D : more[i] = objs[i], Len(more[n + 1].members) \in Nat
    PROVE  InnerReads(more) = BindInner(more[n + 1], InnerReads(objs))
<1> DEFINE node == more[n + 1]
           by(f) == {i \in DOMAIN objs : Sayings(objs[i], f) # {}}
           byMore(f) == {i \in DOMAIN more : Sayings(more[i], f) # {}}
           zero(f) == ZeroScalar(Scalars[f])
           was(f) == IF by(f) = {} THEN zero(f) ELSE LastSaid(objs[Max(by(f))], f)
           is(f) == IF byMore(f) = {} THEN zero(f) ELSE LastSaid(more[Max(byMore(f))], f)
<1>1. InnerReads(objs) = [f \in Inner |-> was(f)] /\ InnerReads(more) = [f \in Inner |-> is(f)]
    BY DEF InnerReads
<1>2. BindInner(node, InnerReads(objs)) = [f \in Inner |-> LastOf(node, f, Len(node.members), was(f))]
    <2> DEFINE e == InnerReads(objs)
    <2>1. e = [f \in Inner |-> e[f]] /\ \A f \in Inner : e[f] = was(f)
        BY <1>1
    <2> HIDE DEF e, was, node
    <2>2. BindInner(node, e) = [f \in Inner |-> LastOf(node, f, Len(node.members), e[f])]
        BY <2>1, BindInnerIs, SMTT(30) DEF node
    <2> QED
        BY <2>1, <2>2 DEF e
<1>3. ASSUME NEW f \in Inner
      PROVE  is(f) = LastOf(node, f, Len(node.members), was(f))
    <2>1. SaidIn(node, f, Len(node.members)) = Sayings(node, f)
        BY DEF SaidIn, Sayings
    <2> DEFINE B == by(f)
               M == byMore(f)
    <2>2. B \in SUBSET (1..n) /\ B \in SUBSET D
        OBVIOUS
    <2>3. CASE Sayings(node, f) # {}
        <3>a. n + 1 \in M
            BY <2>3
        <3>b. M \in SUBSET (D \cup {n + 1})
            OBVIOUS
        <3>c. \A y \in D \cup {n + 1} : y \in Int /\ y <= n + 1
            OBVIOUS
        <3>1. n + 1 \in M /\ M \in SUBSET Int /\ \A y \in M : y <= n + 1
            <4> HIDE DEF M
            <4> QED
                BY <3>a, <3>b, <3>c
        <3> HIDE DEF M
        <3>2. Max(M) = n + 1 /\ M # {}
            BY <3>1, MaxIs
        <3>3. is(f) = LastSaid(node, f)
            BY <3>2, Zenon DEF M
        <3> QED
            BY <2>1, <2>3, <3>3, Zenon DEF LastOf, LastSaid
    <2>4. CASE Sayings(node, f) = {}
        <3>1. M = B
            <4>1. n + 1 \notin M
                BY <2>4
            <4>2. \A i \in D : i \in M <=> i \in B
                OBVIOUS
            <4>3. M \in SUBSET (D \cup {n + 1})
                OBVIOUS
            <4> HIDE DEF M, B
            <4> QED
                BY <2>2, <4>1, <4>2, <4>3
        <3>2. is(f) = was(f)
            <4>1. B # {} => Max(B) \in B
                <5> HIDE DEF B
                <5> QED
                    BY <2>2, MaxOf
            <4>2. B # {} => more[Max(B)] = objs[Max(B)]
                BY <2>2, <4>1, Zenon
            <4> QED
                BY <3>1, <4>2, Zenon
        <3> QED
            BY <2>1, <2>4, <3>2, Zenon DEF LastOf
    <2> QED
        BY <2>3, <2>4
<1> HIDE DEF is, was, node
<1> QED
    BY <1>1, <1>2, <1>3 DEF node

(* Nothing merged is zero. *)
LEMMA InnerReadsNone ==
    ASSUME NEW objs, DOMAIN objs = {}
    PROVE  InnerReads(objs) = ZeroInner
BY DEF InnerReads, ZeroInner

-----------------------------------------------------------------------------
(* A sequence, as far as the reading needs it to be one. *)
IsList(s) == Len(s) \in Nat /\ DOMAIN s = 1..Len(s)

(* What is written is made of sequences. *)
Sequenced ==
    /\ IsList(doc.members)
    /\ \A i \in 1..Len(doc.members) :
          /\ IsList(Value(i).members) /\ IsList(Value(i).items)
          /\ \A k \in 1..Len(Value(i).items) : IsList(Value(i).items[k].members)

FieldOf(i) == Folded(doc.members[i].key)
MemberFits(i) == FieldOf(i) \in Fields => Fits(Value(i), FieldOf(i))

(* What each kind of field reads. *)
LEMMA TextAt ==
    ASSUME NEW n
    PROVE  /\ TextReads(n) = [f \in Fields |-> TextReads(n)[f]]
           /\ \A f \in Inner : TextReads(n)[f] = ScalarReads(f, n)
           /\ TextReads(n)["cargo"] = InnerReads([i \in For("cargo", n) |-> Value(i)])
           /\ TextReads(n)["inventory"] = ListReads(n)
           /\ Inner = {"units", "symbol"} /\ Fields = {"units", "symbol", "cargo", "inventory"}
<1>1. Inner = {"units", "symbol"} /\ Fields = {"units", "symbol", "cargo", "inventory"}
    BY DEF Inner, Scalars, Fields
<1> DEFINE c == InnerReads([i \in For("cargo", n) |-> Value(i)])
           l == ListReads(n)
           s(f) == ScalarReads(f, n)
<1>2. TextReads(n) = [f \in Fields |-> CASE f \in Inner -> s(f) [] f = "cargo" -> c [] f = "inventory" -> l]
    BY DEF TextReads
<1> HIDE DEF c, l, s
<1>3. /\ \A f \in Inner : TextReads(n)[f] = s(f)
      /\ TextReads(n)["cargo"] = c
      /\ TextReads(n)["inventory"] = l
      /\ TextReads(n) = [f \in Fields |-> TextReads(n)[f]]
    BY <1>1, <1>2
<1> QED
    BY <1>1, <1>3 DEF c, l, s

(* The members for a field, among one more. *)
LEMMA ForMore ==
    ASSUME NEW n \in Nat, NEW f
    PROVE  /\ FieldOf(n + 1) = f => For(f, n + 1) = For(f, n) \cup {n + 1}
           /\ FieldOf(n + 1) # f => For(f, n + 1) = For(f, n)
           /\ For(f, n) \in SUBSET (1..n) /\ For(f, 0) = {}
<1>1. \A j : j \in 1..(n + 1) <=> j \in 1..n \/ j = n + 1
    OBVIOUS
<1>2. For(f, 0) = {} /\ For(f, n) \in SUBSET (1..n)
    BY DEF For
<1>3. ASSUME FieldOf(n + 1) = f PROVE For(f, n + 1) = For(f, n) \cup {n + 1}
    BY <1>1, <1>3 DEF For, FieldOf
<1>4. ASSUME FieldOf(n + 1) # f PROVE For(f, n + 1) = For(f, n)
    BY <1>1, <1>4, Zenon DEF For, FieldOf
<1> QED
    BY <1>2, <1>3, <1>4

(* A scalar, after one more member. *)
LEMMA ScalarMore ==
    ASSUME NEW n \in Nat, NEW f \in Inner
    PROVE  /\ FieldOf(n + 1) = f => ScalarReads(f, n + 1) = BindScalar(Value(n + 1), Scalars[f], ScalarReads(f, n))
           /\ FieldOf(n + 1) # f => ScalarReads(f, n + 1) = ScalarReads(f, n)
           /\ ScalarReads(f, 0) = ZeroScalar(Scalars[f])
<1> DEFINE zero == ZeroScalar(Scalars[f])
<1>1. \A k : ScalarReads(f, k) = LastOf(doc, f, k, zero)
    <2> SUFFICES ASSUME NEW k PROVE ScalarReads(f, k) = LastOf(doc, f, k, zero)
        OBVIOUS
    <2>1. {i \in For(f, k) : Value(i).t # "null"} = SaidIn(doc, f, k)
        BY DEF For, Value, SaidIn
    <2> QED
        BY <2>1, Zenon DEF ScalarReads, LastOf, Value
<1>2. SaysAt(doc, f, n + 1) <=> FieldOf(n + 1) = f /\ Value(n + 1).t # "null"
    BY DEF SaysAt, FieldOf, Value
<1> HIDE DEF zero
<1>3. /\ SaysAt(doc, f, n + 1) => LastOf(doc, f, n + 1, zero) = doc.members[n + 1].value.v
      /\ ~SaysAt(doc, f, n + 1) => LastOf(doc, f, n + 1, zero) = LastOf(doc, f, n, zero)
    BY LastOfMore
<1>4. LastOf(doc, f, 0, zero) = zero
    BY LastOfNone
<1> QED
    BY <1>1, <1>2, <1>3, <1>4, Zenon DEF BindScalar, Value, zero

(* The struct, after one more member. *)
LEMMA CargoMore ==
    ASSUME Sequenced, NEW n \in Nat, n + 1 <= Len(doc.members), FieldOf(n + 1) = "cargo"
    PROVE  InnerReads([i \in For("cargo", n + 1) |-> Value(i)])
               = BindInner(Value(n + 1), InnerReads([i \in For("cargo", n) |-> Value(i)]))
<1> DEFINE D == For("cargo", n)
           objs == [i \in D |-> Value(i)]
           more == [i \in For("cargo", n + 1) |-> Value(i)]
<1>1. For("cargo", n + 1) = D \cup {n + 1} /\ D \in SUBSET (1..n)
    BY ForMore
<1>2. /\ DOMAIN objs = D /\ DOMAIN more = D \cup {n + 1}
      /\ \A i \in D : more[i] = objs[i]
      /\ more[n + 1] = Value(n + 1)
    BY <1>1
<1>3. Len(Value(n + 1).members) \in Nat
    BY DEF Sequenced, IsList
<1> HIDE DEF D, objs, more
<1>4. InnerReads(more) = BindInner(more[n + 1], InnerReads(objs))
    BY <1>1, <1>2, <1>3, InnerReadsMore
<1> QED
    BY <1>2, <1>4 DEF D, objs, more

-----------------------------------------------------------------------------
(* The members whose arrays the k-th element is merged from, and what it reads. *)
MergedFrom(S, k) == {i \in S : \A j \in S : i <= j => Value(j).t = "arr" /\ k <= Len(Value(j).items)}
Element(S, k) == InnerReads([i \in MergedFrom(S, k) |-> Value(i).items[k]])

(* A list reads its last array, element by element. *)
LEMMA ListReadsIs ==
    ASSUME NEW n
    PROVE  LET S == For("inventory", n) IN
           ListReads(n) = IF S = {} \/ Value(Max(S)).t = "null" THEN NullList
                          ELSE [null |-> FALSE, items |-> [k \in 1..Len(Value(Max(S)).items) |-> Element(S, k)]]
BY DEF ListReads, Element, MergedFrom

(* One more array is merged into the elements of the one before it. *)
LEMMA MergedMore ==
    ASSUME NEW n \in Nat, NEW S \in SUBSET (1..n), NEW k \in Nat,
           Value(n + 1).t = "arr", k <= Len(Value(n + 1).items), Len(Value(n + 1).items[k].members) \in Nat
    PROVE  Element(S \cup {n + 1}, k) = BindInner(Value(n + 1).items[k], Element(S, k))
<1> DEFINE D == MergedFrom(S, k)
           M == MergedFrom(S \cup {n + 1}, k)
           Good(j) == Value(j).t = "arr" /\ k <= Len(Value(j).items)
<1>1. D \in SUBSET (1..n) /\ D \in SUBSET S
    BY DEF MergedFrom
<1>2. M = D \cup {n + 1}
    <2>1. Good(n + 1)
        OBVIOUS
    <2>2. M = {i \in S \cup {n + 1} : \A j \in S \cup {n + 1} : i <= j => Good(j)} /\ D = {i \in S : \A j \in S : i <= j => Good(j)}
        BY DEF MergedFrom
    <2>3. \A j \in S : j \in Int /\ ~(n + 1 <= j)
        OBVIOUS
    <2> HIDE DEF Good, M, D
    <2>4. \A i \in S : i \in M <=> i \in D
        BY <2>1, <2>2, Zenon
    <2>5. n + 1 \in M
        BY <2>1, <2>2, <2>3, Zenon
    <2>6. M \in SUBSET (S \cup {n + 1})
        BY <2>2, Zenon
    <2> QED
        BY <1>1, <2>4, <2>5, <2>6
<1> DEFINE objs == [i \in D |-> Value(i).items[k]]
           more == [i \in M |-> Value(i).items[k]]
<1> HIDE DEF D, M
<1>3. /\ DOMAIN objs = D /\ DOMAIN more = D \cup {n + 1}
      /\ \A i \in D : more[i] = objs[i]
      /\ more[n + 1] = Value(n + 1).items[k]
    BY <1>2
<1>4. Element(S, k) = InnerReads(objs) /\ Element(S \cup {n + 1}, k) = InnerReads(more)
    BY DEF Element, D, M
<1>5. Len(more[n + 1].members) \in Nat
    BY <1>3
<1> HIDE DEF objs, more
<1>6. InnerReads(more) = BindInner(more[n + 1], InnerReads(objs))
    BY <1>1, <1>3, <1>5, InnerReadsMore, ZenonT(30)
<1> QED
    BY <1>3, <1>4, <1>6

(* What an array is merged into: the element of the last one, if that had one. *)
LEMMA BeforeIs ==
    ASSUME NEW n \in Nat, NEW k \in Nat \ {0},
           \A j \in For("inventory", n) : Value(j).t \in {"null", "arr"} /\ Len(Value(j).items) \in Nat
    PROVE  Before(ListReads(n), k) = Element(For("inventory", n), k)
<1> DEFINE S == For("inventory", n)
           last == Max(S)
           all == Len(Value(last).items)
           none == S = {} \/ Value(last).t = "null"
<1>1. S \in SUBSET (1..n)
    BY ForMore
<1>2. ListReads(n) = IF none THEN NullList ELSE [null |-> FALSE, items |-> [i \in 1..all |-> Element(S, i)]]
    BY ListReadsIs
<1>3. S # {} => last \in S /\ (\A y \in S : y <= last) /\ all \in Nat /\ Value(last).t \in {"null", "arr"}
    <2> SUFFICES ASSUME S # {} PROVE last \in S /\ (\A y \in S : y <= last) /\ all \in Nat /\ Value(last).t \in {"null", "arr"}
        OBVIOUS
    <2>1. last \in S /\ \A y \in S : y <= last
        <3> HIDE DEF S
        <3> QED
            BY <1>1, MaxOf
    <2> QED
        BY <2>1
<1>4. none \/ ~(k <= all) => MergedFrom(S, k) = {}
    <2> HIDE DEF S
    <2>1. CASE S = {}
        BY <2>1 DEF MergedFrom
    <2>2. CASE S # {}
        BY <1>3, <2>2 DEF MergedFrom
    <2> QED
        BY <2>1, <2>2
<1>5. MergedFrom(S, k) = {} => Element(S, k) = ZeroInner
    BY InnerReadsNone DEF Element
<1> HIDE DEF S, last
<1>6. CASE none
    <2>1. ListReads(n).items = <<>> /\ Len(<<>>) = 0 /\ ~(k <= 0)
        BY <1>2, <1>6 DEF NullList
    <2>2. Before(ListReads(n), k) = ZeroInner
        BY <2>1 DEF Before
    <2> QED
        BY <1>4, <1>5, <1>6, <2>2 DEF S
<1>7. CASE ~none
    <2> DEFINE items == [i \in 1..all |-> Element(S, i)]
    <2>1. ListReads(n).items = items
        BY <1>2, <1>7
    <2>2. all \in Nat
        BY <1>3, <1>7
    <2>3. Len(items) = all /\ \A i \in 1..all : items[i] = Element(S, i)
        BY <2>2
    <2>4. k <= all => k \in 1..all
        BY <2>2
    <2> HIDE DEF items, all
    <2> QED
        BY <1>4, <1>5, <2>1, <2>3, <2>4 DEF Before, S
<1> QED
    BY <1>6, <1>7

(* The list, after one more member. *)
LEMMA InventoryMore ==
    ASSUME Sequenced, NEW n \in Nat, n + 1 <= Len(doc.members), FieldOf(n + 1) = "inventory",
           \A i \in 1..(n + 1) : MemberFits(i)
    PROVE  ListReads(n + 1) = BindList(Value(n + 1), ListReads(n))
<1> DEFINE S == For("inventory", n)
           V == Value(n + 1)
<1>1. For("inventory", n + 1) = S \cup {n + 1} /\ S \in SUBSET (1..n)
    BY ForMore
<1>2. Max(S \cup {n + 1}) = n + 1 /\ S \cup {n + 1} # {}
    <2>1. S \cup {n + 1} \in SUBSET Int /\ n + 1 \in S \cup {n + 1} /\ \A y \in S \cup {n + 1} : y <= n + 1
        BY <1>1
    <2> QED
        BY <2>1, MaxIs
<1>3. \A j \in S \cup {n + 1} : Value(j).t \in {"null", "arr"} /\ Len(Value(j).items) \in Nat
    <2> SUFFICES ASSUME NEW j \in S \cup {n + 1} PROVE Value(j).t \in {"null", "arr"} /\ Len(Value(j).items) \in Nat
        OBVIOUS
    <2>1. j \in 1..(n + 1) /\ j \in 1..Len(doc.members)
        BY <1>1 DEF Sequenced, IsList
    <2>2. FieldOf(j) = "inventory"
        BY DEF For, FieldOf
    <2>3. "inventory" \in Fields /\ "inventory" \notin Inner /\ "inventory" # "cargo"
        BY TextAt
    <2>4. Fits(Value(j), "inventory")
        BY <2>1, <2>2, <2>3 DEF MemberFits
    <2>5. ListFits(Value(j))
        BY <2>3, <2>4 DEF Fits
    <2> QED
        BY <2>1, <2>5 DEF ListFits, Sequenced, IsList
<1>4. ListReads(n + 1) = IF V.t = "null" THEN NullList
                         ELSE [null |-> FALSE, items |-> [k \in 1..Len(V.items) |-> Element(S \cup {n + 1}, k)]]
    <2> HIDE DEF S
    <2> QED
        BY <1>1, <1>2, ListReadsIs
<1>5. ASSUME V.t # "null", NEW k \in 1..Len(V.items)
      PROVE  Element(S \cup {n + 1}, k) = BindInner(V.items[k], Before(ListReads(n), k))
    <2>1. V.t = "arr" /\ Len(V.items) \in Nat
        BY <1>3, <1>5
    <2>2. Len(V.items[k].members) \in Nat
        BY DEF Sequenced, IsList
    <2>3. k \in Nat /\ k \in Nat \ {0} /\ k <= Len(V.items)
        BY <2>1
    <2>4. Element(S \cup {n + 1}, k) = BindInner(V.items[k], Element(S, k))
        <3> HIDE DEF S
        <3> QED
            BY <1>1, <2>1, <2>2, <2>3, MergedMore
    <2>5. Before(ListReads(n), k) = Element(S, k)
        BY <1>3, <2>3, BeforeIs
    <2> QED
        BY <2>4, <2>5, Zenon
<1> HIDE DEF V, S
<1>6. CASE V.t = "null"
    BY <1>4, <1>6 DEF BindList, V
<1>7. CASE V.t # "null"
    BY <1>4, <1>5, <1>7 DEF BindList, V
<1> QED
    BY <1>6, <1>7

-----------------------------------------------------------------------------
(* The value is read member by member, as it is bound. *)
LEMMA TextMore ==
    ASSUME Sequenced, NEW n \in Nat, n + 1 <= Len(doc.members), \A i \in 1..(n + 1) : MemberFits(i)
    PROVE  TextReads(n + 1) = IF FieldOf(n + 1) \in Fields
                              THEN [TextReads(n) EXCEPT ![FieldOf(n + 1)] = Bind(Value(n + 1), FieldOf(n + 1), @)]
                              ELSE TextReads(n)
<1> DEFINE g == FieldOf(n + 1)
           was == TextReads(n)
           is == TextReads(n + 1)
           V == Value(n + 1)
<1>1. /\ was = [f \in Fields |-> was[f]] /\ is = [f \in Fields |-> is[f]]
      /\ Inner = {"units", "symbol"} /\ Fields = {"units", "symbol", "cargo", "inventory"}
    BY TextAt, Zenon
<1>2. ASSUME NEW f \in Fields
      PROVE  is[f] = IF g = f THEN Bind(V, f, was[f]) ELSE was[f]
    <2>1. CASE f \in Inner
        <3>1. was[f] = ScalarReads(f, n) /\ is[f] = ScalarReads(f, n + 1)
            BY <2>1, TextAt, Zenon
        <3>2. Bind(V, f, was[f]) = BindScalar(V, Scalars[f], was[f])
            BY <1>1, <2>1 DEF Bind
        <3> QED
            BY <2>1, <3>1, <3>2, ScalarMore
    <2>2. CASE f = "cargo"
        <3> DEFINE a == InnerReads([i \in For("cargo", n) |-> Value(i)])
                   b == InnerReads([i \in For("cargo", n + 1) |-> Value(i)])
        <3>1. was[f] = a /\ is[f] = b
            BY <2>2, TextAt
        <3>2. f \notin Inner
            BY <1>1, <2>2
        <3>3. Bind(V, f, was[f]) = BindInner(V, was[f])
            BY <2>2, <3>2 DEF Bind
        <3>4. g = f => b = BindInner(V, a)
            BY <2>2, CargoMore
        <3>5. g # f => b = a
            BY <2>2, ForMore
        <3> HIDE DEF a, b, was, is, g, V
        <3> QED
            BY <3>1, <3>3, <3>4, <3>5
    <2>3. CASE f = "inventory"
        <3>1. was[f] = ListReads(n) /\ is[f] = ListReads(n + 1)
            BY <2>3, TextAt, Zenon
        <3>2. f \notin Inner /\ f # "cargo"
            BY <1>1, <2>3
        <3>3. Bind(V, f, was[f]) = BindList(V, was[f])
            BY <2>3, <3>2 DEF Bind
        <3>4. g = f => ListReads(n + 1) = BindList(V, ListReads(n))
            BY <2>3, InventoryMore
        <3>5. g # f => ListReads(n + 1) = ListReads(n)
            <4>1. g # f => For("inventory", n + 1) = For("inventory", n)
                BY <2>3, ForMore
            <4> QED
                BY <4>1, Zenon DEF ListReads
        <3> HIDE DEF was, is, g, V
        <3> QED
            BY <3>1, <3>3, <3>4, <3>5
    <2> QED
        BY <1>1, <2>1, <2>2, <2>3
<1> HIDE DEF was, is, g, V
<1>3. CASE g \in Fields
    <2> DEFINE B == Bind(V, g, was[g])
    <2>1. is[g] = B
        BY <1>2, <1>3
    <2>2. \A f \in Fields : f # g => is[f] = was[f]
        BY <1>2
    <2>3. [was EXCEPT ![g] = Bind(V, g, @)] = [was EXCEPT ![g] = B]
        OBVIOUS
    <2> HIDE DEF B
    <2>4. is = [was EXCEPT ![g] = B]
        BY <1>1, <1>3, <2>1, <2>2
    <2> QED
        BY <1>3, <2>3, <2>4 DEF was, is, g, V
<1>4. CASE g \notin Fields
    <2>1. \A f \in Fields : is[f] = was[f]
        BY <1>2, <1>4
    <2>2. is = was
        BY <1>1, <2>1
    <2> QED
        BY <1>4, <2>2 DEF was, is, g, V
<1> QED
    BY <1>3, <1>4

(* Before any member is bound, it is zero. *)
LEMMA TextNone == TextReads(0) = Zero
<1>1. \A f \in Inner : ScalarReads(f, 0) = ZeroScalar(Scalars[f])
    BY ScalarMore
<1>2. For("cargo", 0) = {} /\ For("inventory", 0) = {}
    BY ForMore
<1>3. InnerReads([i \in For("cargo", 0) |-> Value(i)]) = ZeroInner
    BY <1>2, InnerReadsNone
<1>4. ListReads(0) = NullList
    BY <1>2, ListReadsIs
<1>5. \A f \in Inner : TextReads(0)[f] = ZeroScalar(Scalars[f])
    BY <1>1, TextAt
<1>6. TextReads(0)["cargo"] = ZeroInner /\ TextReads(0)["inventory"] = NullList
    BY <1>3, <1>4, TextAt
<1>7. Inner = {"units", "symbol"} /\ Fields = {"units", "symbol", "cargo", "inventory"}
    BY TextAt
<1>8. TextReads(0) = [f \in Fields |-> TextReads(0)[f]]
    BY TextAt
<1> DEFINE t == TextReads(0)
<1> HIDE DEF t
<1>9. /\ \A f \in Inner : t[f] = ZeroScalar(Scalars[f])
      /\ t["cargo"] = ZeroInner /\ t["inventory"] = NullList /\ t = [f \in Fields |-> t[f]]
    BY <1>5, <1>6, <1>8, Zenon DEF t
<1>10. t = Zero
    BY <1>7, <1>9 DEF Zero
<1> QED
    BY <1>10 DEF t

-----------------------------------------------------------------------------
(* What does not fit is what is of the wrong type, or no int64. *)
LEMMA WrongScalarIs ==
    ASSUME NEW node, NEW f \in Inner
    PROVE  WrongScalar(node, f) <=> ~ScalarFits(node, Scalars[f])
<1>1. CASE f = "units"
    <2>1. Scalars[f] = "int" /\ JsonType[f] = "num"
        BY <1>1 DEF Scalars, JsonType
    <2> QED
        BY <1>1, <2>1 DEF WrongScalar, ScalarFits
<1>2. CASE f = "symbol"
    <2>1. Scalars[f] = "string" /\ JsonType[f] = "str"
        BY <1>2 DEF Scalars, JsonType
    <2> QED
        BY <1>2, <2>1 DEF WrongScalar, ScalarFits
<1> QED
    BY <1>1, <1>2, TextAt

(* The same of a struct. *)
LEMMA WrongObjectIs ==
    ASSUME NEW node, IsList(node.members)
    PROVE  WrongObject(node) <=> ~InnerFits(node)
<1> DEFINE m(i) == node.members[i]
           Wrong(i) == Folded(m(i).key) \in Inner /\ WrongScalar(m(i).value, Folded(m(i).key))
           N == Len(node.members)
<1>1. \A i : Wrong(i) <=> Folded(m(i).key) \in Inner /\ ~ScalarFits(m(i).value, Scalars[Folded(m(i).key)])
    BY WrongScalarIs, Zenon
<1>2. WrongObject(node) <=> node.t # "null" /\ (node.t # "obj" \/ \E i \in 1..N : Wrong(i))
    BY DEF WrongObject, ToSet, IsList
<1>3. InnerFits(node) <=> node.t = "null" \/ (node.t = "obj" /\ \A i \in 1..N : Folded(m(i).key) \in Inner =>
                                                 ScalarFits(m(i).value, Scalars[Folded(m(i).key)]))
    BY DEF InnerFits
<1> HIDE DEF Wrong, N, m
<1> QED
    BY <1>1, <1>2, <1>3, Zenon

(* And of a list. *)
LEMMA WrongListIs ==
    ASSUME NEW node, IsList(node.items), \A k \in 1..Len(node.items) : IsList(node.items[k].members)
    PROVE  WrongList(node) <=> ~ListFits(node)
<1> DEFINE N == Len(node.items)
<1>1. \A k \in 1..N : WrongObject(node.items[k]) <=> ~InnerFits(node.items[k])
    BY WrongObjectIs, Zenon
<1>2. WrongList(node) <=> node.t # "null" /\ (node.t # "arr" \/ \E k \in 1..N : WrongObject(node.items[k]))
    BY DEF WrongList, ToSet, IsList
<1>3. ListFits(node) <=> node.t = "null" \/ (node.t = "arr" /\ \A k \in 1..N : InnerFits(node.items[k]))
    BY DEF ListFits
<1> HIDE DEF N
<1> QED
    BY <1>1, <1>2, <1>3, Zenon

(* The text is refused for a member that does not fit, or for what it is itself. *)
LEMMA MisfitsIs ==
    ASSUME Sequenced
    PROVE  Misfits <=> doc.t \notin {"null", "obj"} \/ \E i \in 1..Len(doc.members) : ~MemberFits(i)
<1> DEFINE N == Len(doc.members)
           Wrong(m) == CASE Folded(m.key) \in Inner     -> WrongScalar(m.value, Folded(m.key))
                         [] Folded(m.key) = "cargo"     -> WrongObject(m.value)
                         [] Folded(m.key) = "inventory" -> WrongList(m.value)
                         [] OTHER                       -> FALSE
<1>1. Misfits <=> doc.t \notin {"null", "obj"} \/ \E i \in 1..N : Wrong(doc.members[i])
    <2>1. ToSet(doc.members) = {doc.members[i] : i \in 1..N}
        BY DEF ToSet, Sequenced, IsList
    <2>2. Misfits <=> doc.t \notin {"null", "obj"} \/ \E m \in ToSet(doc.members) : Wrong(m)
        BY Zenon DEF Misfits
    <2> HIDE DEF Wrong, N
    <2> QED
        BY <2>1, <2>2
<1>2. ASSUME NEW i \in 1..N
      PROVE  Wrong(doc.members[i]) <=> ~MemberFits(i)
    <2> DEFINE g == FieldOf(i)
               v == Value(i)
    <2>1. Wrong(doc.members[i]) <=> CASE g \in Inner     -> WrongScalar(v, g)
                                      [] g = "cargo"     -> WrongObject(v)
                                      [] g = "inventory" -> WrongList(v)
                                      [] OTHER           -> FALSE
        BY Zenon DEF FieldOf, Value
    <2>2. MemberFits(i) <=> (g \in Fields => Fits(v, g))
        BY DEF MemberFits
    <2>3. IsList(v.members) /\ IsList(v.items) /\ \A k \in 1..Len(v.items) : IsList(v.items[k].members)
        BY DEF Sequenced
    <2>4. /\ g \in Inner => (WrongScalar(v, g) <=> ~ScalarFits(v, Scalars[g]))
          /\ WrongObject(v) <=> ~InnerFits(v)
          /\ WrongList(v) <=> ~ListFits(v)
        BY <2>3, WrongScalarIs, WrongObjectIs, WrongListIs, Zenon
    <2>5. Inner = {"units", "symbol"} /\ Fields = {"units", "symbol", "cargo", "inventory"}
        BY TextAt
    <2> HIDE DEF Wrong, g, v
    <2>6. CASE g \in Inner
        BY <2>1, <2>2, <2>4, <2>5, <2>6 DEF Fits
    <2>7. CASE g = "cargo"
        BY <2>1, <2>2, <2>4, <2>5, <2>7 DEF Fits
    <2>8. CASE g = "inventory"
        BY <2>1, <2>2, <2>4, <2>5, <2>8 DEF Fits
    <2>9. CASE g \notin Fields
        BY <2>1, <2>2, <2>5, <2>9
    <2> QED
        BY <2>5, <2>6, <2>7, <2>8, <2>9
<1> HIDE DEF Wrong, N
<1> QED
    BY <1>1, <1>2, Zenon DEF N

-----------------------------------------------------------------------------
Bodies == {"value", "value and more", "empty", "blank", "cut", "garbage"}
WithAValue == {"value", "value and more"}

(***************************************************************************)
(* The members bound so far all fit, and the value is what they say.  A    *)
(* text with nothing in it has no members; what is bound is bound whole.   *)
(***************************************************************************)
DecodeInv ==
    /\ Sequenced
    /\ body \in Bodies
    /\ doc.t # "obj" => Len(doc.members) = 0
    /\ body \notin WithAValue => doc = NullNode
    /\ bound \in 0..Len(doc.members)
    /\ into = TextReads(bound)
    /\ \A i \in 1..bound : MemberFits(i)
    /\ result = "bound" => /\ bound = Len(doc.members) /\ doc.t \in {"null", "obj"}
                           /\ body \notin WithAValue => source = "answer"
    /\ result = "misfit" => Misfits

(* What is made up to a length is a sequence. *)
LEMMA UpToListed ==
    ASSUME NEW S, NEW n \in Nat, NEW s \in UpTo(S, n)
    PROVE  IsList(s) /\ \A i \in 1..Len(s) : s[i] \in S
<1>1. PICK k \in 0..n : s \in [1..k -> S]
    BY DEF UpTo
<1>2. k \in Nat /\ s \in Seq(S)
    BY <1>1
<1> QED
    BY <1>1, <1>2 DEF IsList

(* An empty sequence is one. *)
LEMMA NothingListed == IsList(<<>>) /\ Len(<<>>) = 0
BY DEF IsList

(* A value with nothing in it. *)
Bare(node) == node.members = <<>> /\ node.items = <<>>

(* null and the scalars are such. *)
LEMMA BareNodes ==
    /\ Bare(NullNode) /\ NullNode.t = "null"
    /\ \A t, v : Bare(Node(t, v, <<>>, <<>>))
    /\ \A node \in ScalarNodes : Bare(node)
<1>1. Bare(NullNode) /\ NullNode.t = "null"
    BY DEF Bare, NullNode, Node
<1>2. \A t, v : Bare(Node(t, v, <<>>, <<>>))
    BY DEF Bare, Node
<1>3. \A node \in ScalarNodes : Bare(node)
    BY <1>2, Zenon DEF ScalarNodes
<1> QED
    BY <1>1, <1>2, <1>3

(* A value that is written is made of sequences. *)
LEMMA InnerNodesListed ==
    ASSUME NEW v \in InnerNodes
    PROVE  IsList(v.members) /\ IsList(v.items) /\ Len(v.items) = 0
<1>1. CASE v \in {NullNode, Node("num", "0", <<>>, <<>>)}
    <2>1. v.members = <<>> /\ v.items = <<>>
        BY <1>1, BareNodes, Zenon DEF Bare
    <2> QED
        BY <2>1, NothingListed, Zenon
<1>2. CASE v \in Objects(InnerKeys, {NullNode} \cup ScalarNodes, MaxInnerMembers)
    <2>1. PICK m \in UpTo([key : InnerKeys, value : {NullNode} \cup ScalarNodes], MaxInnerMembers) : v = Node("obj", "", <<>>, m)
        BY <1>2 DEF Objects
    <2>2. IsList(m)
        BY DecodingAssumption, UpToListed
    <2> QED
        BY <2>1, <2>2, NothingListed DEF Node
<1> QED
    BY <1>1, <1>2 DEF InnerNodes

(* So is the value of a member of the outer object. *)
LEMMA OuterListed ==
    ASSUME NEW m \in Outer
    PROVE  /\ IsList(m.value.members) /\ IsList(m.value.items)
           /\ \A k \in 1..Len(m.value.items) : IsList(m.value.items[k].members)
<1> DEFINE v == m.value
<1>1. v \in {NullNode} \cup ScalarNodes \cup InnerNodes \cup {Node("obj", "", <<>>, <<>>)} \cup Lists
    BY DEF Outer
<1> HIDE DEF v
<1>2. CASE v \in {NullNode} \cup ScalarNodes \cup {Node("obj", "", <<>>, <<>>)}
    <2>1. v.members = <<>> /\ v.items = <<>>
        BY <1>2, BareNodes, Zenon DEF Bare
    <2> QED
        BY <2>1, NothingListed DEF v
<1>3. CASE v \in InnerNodes
    <2>1. IsList(v.members) /\ IsList(v.items) /\ Len(v.items) = 0
        BY <1>3, InnerNodesListed
    <2> QED
        BY <2>1 DEF v
<1>4. CASE v \in Lists
    <2>1. PICK items \in UpTo(InnerNodes, MaxItems) : v = Node("arr", "", items, <<>>)
        BY <1>4 DEF Lists
    <2>2. IsList(items) /\ \A k \in 1..Len(items) : items[k] \in InnerNodes
        BY DecodingAssumption, UpToListed
    <2>3. \A k \in 1..Len(items) : IsList(items[k].members)
        BY <2>2, InnerNodesListed
    <2>4. v.items = items /\ v.members = <<>>
        BY <2>1 DEF Node
    <2> QED
        BY <2>2, <2>3, <2>4, NothingListed DEF v
<1> QED
    BY <1>1, <1>2, <1>3, <1>4

(* The invariant holds before anything is read. *)
LEMMA InitDecodeInv == DecodeInit => DecodeInv
<1> SUFFICES ASSUME DecodeInit PROVE DecodeInv
    OBVIOUS
<1>1. /\ body \in Bodies /\ bound = 0 /\ into = Zero /\ result = "pending"
      /\ body \notin WithAValue => doc = NullNode
    BY DEF DecodeInit, Bodies, WithAValue
<1>2. Sequenced /\ (doc.t # "obj" => Len(doc.members) = 0)
    <2>1. CASE doc \in {NullNode, Node("str", "", <<>>, <<>>)}
        <3>1. doc.members = <<>>
            BY <2>1, BareNodes, Zenon DEF Bare
        <3> QED
            BY <3>1, NothingListed DEF Sequenced
    <2>2. CASE doc \in {Node("obj", "", <<>>, m) : m \in UpTo(Outer, MaxMembers)}
        <3>1. PICK m \in UpTo(Outer, MaxMembers) : doc = Node("obj", "", <<>>, m)
            BY <2>2
        <3>2. doc.members = m /\ doc.t = "obj"
            BY <3>1 DEF Node
        <3>3. IsList(m) /\ \A i \in 1..Len(m) : m[i] \in Outer
            BY DecodingAssumption, UpToListed
        <3> QED
            BY <3>2, <3>3, OuterListed DEF Sequenced, Value
    <2> QED
        BY <2>1, <2>2 DEF DecodeInit
<1>3. into = TextReads(bound)
    BY <1>1, TextNone
<1>4. bound \in 0..Len(doc.members) /\ \A i \in 1..bound : MemberFits(i)
    BY <1>1, <1>2 DEF Sequenced, IsList
<1> QED
    BY <1>1, <1>2, <1>3, <1>4 DEF DecodeInv

(* What the text says is a matter of the text. *)
LEMMA TextStays ==
    ASSUME UNCHANGED doc
    PROVE  /\ \A n : TextReads(n)' = TextReads(n)
           /\ \A i : MemberFits(i)' <=> MemberFits(i)
           /\ Sequenced' <=> Sequenced
           /\ Misfits' <=> Misfits
<1>1. \A n : TextReads(n)' = TextReads(n)
    BY DEF TextReads, ScalarReads, ListReads, InnerReads, For, Value
<1>2. \A i : MemberFits(i)' <=> MemberFits(i)
    BY DEF MemberFits, FieldOf, Value
<1>3. Sequenced' <=> Sequenced
    BY DEF Sequenced, Value
<1>4. Misfits' <=> Misfits
    BY DEF Misfits
<1> QED
    BY <1>1, <1>2, <1>3, <1>4

(* No step of the decoder breaks it. *)
LEMMA NextDecodeInv == DecodeInv /\ [DecodeNext]_decodeVars => DecodeInv'
<1> SUFFICES ASSUME DecodeInv, [DecodeNext]_decodeVars PROVE DecodeInv'
    OBVIOUS
<1> DEFINE N == Len(doc.members)
<1>0. N \in Nat /\ bound \in 0..N
    BY DEF DecodeInv, Sequenced, IsList
(* A step that ends the reading leaves all else as it is. *)
<1>1. ASSUME UNCHANGED <<source, body, doc, bound, into>>,
             result' = "bound" => /\ bound = N /\ doc.t \in {"null", "obj"}
                                  /\ body \notin WithAValue => source = "answer",
             result' = "misfit" => Misfits
      PROVE  DecodeInv'
    <2>1. /\ TextReads(bound)' = TextReads(bound)
          /\ \A i \in 1..bound : MemberFits(i)' <=> MemberFits(i)
          /\ Sequenced' <=> Sequenced
          /\ Misfits' <=> Misfits
        <3>1. \A n : TextReads(n)' = TextReads(n)
            BY <1>1, TextStays
        <3>2. TextReads(bound)' = TextReads(bound)
            BY <1>1, <3>1
        <3> QED
            BY <1>1, <3>2, TextStays
    <2> QED
        BY <1>1, <2>1 DEF DecodeInv
<1>2. CASE EmptyBody
    <2>1. body \notin WithAValue /\ body = "empty"
        BY <1>2 DEF EmptyBody, WithAValue
    <2>2. doc = NullNode
        BY <2>1 DEF DecodeInv
    <2>3. doc.t = "null" /\ N = 0 /\ bound = N
        <3>1. doc.t = "null" /\ doc.members = <<>>
            BY <2>2, BareNodes, Zenon DEF Bare
        <3> QED
            BY <1>0, <3>1, NothingListed
    <2>4. source # "answer" => result' = "EOF"
        BY <1>2 DEF EmptyBody, Ends
    <2>5. source = "answer" => result' = "bound"
        BY <1>2 DEF EmptyBody, Ends
    <2>6. UNCHANGED <<source, body, doc, bound, into>>
        BY <1>2 DEF EmptyBody, Ends
    <2> QED
        BY <1>1, <2>3, <2>4, <2>5, <2>6
<1>3. CASE SyntaxError
    <2>1. result' \in {"EOF", "unexpected EOF", "syntax"} /\ UNCHANGED <<source, body, doc, bound, into>>
        BY <1>3 DEF SyntaxError, Ends
    <2> QED
        BY <1>1, <2>1
<1>4. ASSUME Parsed PROVE body \in WithAValue
    BY <1>4 DEF Parsed, Unparsable, DecodeInv, Bodies, WithAValue
<1>5. CASE NotAnObject
    <2>1. doc.t # "obj" /\ N = 0 /\ bound = N /\ body \in WithAValue
        BY <1>0, <1>4, <1>5 DEF NotAnObject, DecodeInv
    <2>2. result' = IF doc.t = "null" THEN "bound" ELSE "misfit"
        BY <1>5 DEF NotAnObject, Ends
    <2>3. UNCHANGED <<source, body, doc, bound, into>>
        BY <1>5 DEF NotAnObject, Ends
    <2>4. doc.t # "null" => Misfits
        BY <2>1 DEF Misfits
    <2> QED
        BY <1>1, <2>1, <2>2, <2>3, <2>4
<1>6. CASE BindMember
    <2>1. /\ bound' = bound + 1 /\ UNCHANGED <<source, body, doc, result>> /\ result = "pending"
          /\ bound \in Nat /\ bound + 1 <= N /\ bound + 1 \in 0..N
        BY <1>0, <1>6 DEF BindMember, Parsed
    <2>2. /\ MemberFits(bound + 1)
          /\ into' = IF FieldOf(bound + 1) \in Fields
                     THEN [into EXCEPT ![FieldOf(bound + 1)] = Bind(Value(bound + 1), FieldOf(bound + 1), @)] ELSE into
        BY <1>6, Zenon DEF BindMember, NextMember, MemberFits, FieldOf, Value
    <2>3. \A i \in 1..(bound + 1) : MemberFits(i)
        <3>1. \A i \in 1..(bound + 1) : i \in 1..bound \/ i = bound + 1
            BY <2>1
        <3> QED
            BY <2>2, <3>1 DEF DecodeInv
    <2>4. into = TextReads(bound) /\ Sequenced
        BY DEF DecodeInv
    <2>5. into' = TextReads(bound + 1)
        <3> DEFINE n == bound
        <3>1. n \in Nat /\ n + 1 <= Len(doc.members) /\ \A i \in 1..(n + 1) : MemberFits(i)
            BY <2>1, <2>3
        <3> HIDE DEF n
        <3>2. TextReads(n + 1) = IF FieldOf(n + 1) \in Fields
                              THEN [TextReads(n) EXCEPT ![FieldOf(n + 1)] = Bind(Value(n + 1), FieldOf(n + 1), @)]
                              ELSE TextReads(n)
            BY <2>4, <3>1, TextMore
        <3> QED
            BY <2>2, <2>4, <3>2, Zenon DEF n
    <2>6. TextReads(bound)' = TextReads(bound + 1)
        <3>1. \A n : TextReads(n)' = TextReads(n)
            BY <2>1, TextStays
        <3> QED
            BY <2>1, <3>1
    <2>7. Sequenced' /\ \A i \in 1..(bound + 1) : MemberFits(i)'
        BY <2>1, <2>3, <2>4, TextStays
    <2> QED
        BY <2>1, <2>5, <2>6, <2>7 DEF DecodeInv
<1>7. CASE RefuseMember
    <2>1. result' = "misfit" /\ UNCHANGED <<source, body, doc, bound, into>>
        BY <1>7 DEF RefuseMember, Ends
    <2>2. ~MemberFits(bound + 1) /\ bound + 1 \in 1..N
        BY <1>0, <1>7 DEF RefuseMember, NextMember, MemberFits, FieldOf, Value
    <2>3. Misfits
        BY <2>2, MisfitsIs DEF DecodeInv
    <2> QED
        BY <1>1, <2>1, <2>3
<1>8. CASE AllBound
    <2>1. result' = "bound" /\ UNCHANGED <<source, body, doc, bound, into>> /\ bound = N /\ doc.t = "obj"
        BY <1>8 DEF AllBound, Ends
    <2>2. body \in WithAValue
        BY <1>4, <1>8 DEF AllBound
    <2> QED
        BY <1>1, <2>1, <2>2
<1>9. CASE UNCHANGED decodeVars
    <2>1. UNCHANGED <<source, body, doc, bound, into>> /\ result' = result
        BY <1>9 DEF decodeVars
    <2> QED
        BY <1>1, <2>1 DEF DecodeInv
<1> QED
    BY <1>2, <1>3, <1>5, <1>6, <1>7, <1>8, <1>9 DEF DecodeNext

(* What the invariant says of a reading that has ended. *)
LEMMA DecodeInvDecodes == DecodeInv => DecodesWhatIsWritten
<1> SUFFICES ASSUME DecodeInv PROVE DecodesWhatIsWritten
    OBVIOUS
<1>1. Sequenced
    BY DEF DecodeInv
<1>2. BoundAsWritten
    BY DEF DecodeInv, BoundAsWritten
<1>3. ASSUME result = "bound" PROVE ~Misfits
    <2>1. bound = Len(doc.members) /\ doc.t \in {"null", "obj"} /\ \A i \in 1..bound : MemberFits(i)
        BY <1>3 DEF DecodeInv
    <2> QED
        BY <1>1, <2>1, MisfitsIs
<1>4. ASSUME result = "bound", body \notin WithAValue PROVE source = "answer" /\ into = Zero
    <2>1. source = "answer" /\ doc = NullNode /\ bound = Len(doc.members) /\ into = TextReads(bound)
        BY <1>4 DEF DecodeInv
    <2>2. bound = 0
        BY <2>1, BareNodes, NothingListed, Zenon DEF Bare
    <2>3. into = TextReads(0)
        BY <2>1, <2>2
    <2> QED
        BY <2>1, <2>3, TextNone
<1> QED
    BY <1>2, <1>3, <1>4 DEF DecodesWhatIsWritten, RefusedIfMisfit, DecodeInv, WithAValue

(***************************************************************************)
(* Of every text: the value that is handed on is what the text says,       *)
(* member by member and repeat by repeat; it is handed on only when all of *)
(* it fits, and called a misfit only when something does not (decode,      *)
(* decodeFirstValue).                                                      *)
(***************************************************************************)
THEOREM DecodedAsWritten == DecodeSpec => []DecodesWhatIsWritten
<1>1. DecodeSpec => []DecodeInv
    BY InitDecodeInv, NextDecodeInv, PTL DEF DecodeSpec
<1> QED
    BY <1>1, DecodeInvDecodes, PTL
=============================================================================
