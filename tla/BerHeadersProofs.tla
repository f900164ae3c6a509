-------------------------- MODULE BerHeadersProofs --------------------------
(***************************************************************************)
(* What lber's integers, lengths and identifiers promise, for every value  *)
(* of an i32 and every length below 2^31: the reader finds what the writer *)
(* has written, an integer keeps its sign in the fewest octets, and a      *)
(* length that has not arrived in full is waited for.  The sequences have  *)
(* at most four octets, so that the recursive functions which read them    *)
(* can be unrolled (Horner): no induction is needed.                       *)
(***************************************************************************)
EXTENDS BerHeaders, SequenceTheorems, TLAPS

Octet == 0 .. 255

\* i32::MAX
MaxI32 == 2147483647

-----------------------------------------------------------------------------
(* Numbers *)

LEMMA Weights == Weight(0) = 1 /\ Weight(1) = 256 /\ Weight(2) = 65536 /\ Weight(3) = 16777216
BY DEF Weight

LEMMA Elements ==
    ASSUME NEW s \in Seq(Octet)
    PROVE  Len(s) \in Nat /\ \A k \in 1 .. Len(s) : s[k] \in Octet /\ s[k] \in Int
<1>1. \A x \in Octet : x \in Int  BY DEF Octet
<1>2. Len(s) \in Nat /\ \A k \in 1 .. Len(s) : s[k] \in Octet  BY ElementOfSeq, LenProperties
<1> QED  BY <1>1, <1>2

\* A number is the value of its octets, as many as it takes.
LEMMA Shift ==
    ASSUME NEW n \in Int
    PROVE  /\ (n \div 256) * 256 + (n % 256) = n
           /\ ((n \div 65536) * 256 + ((n \div 256) % 256)) * 256 + (n % 256) = n
           /\ (((n \div 16777216) * 256 + ((n \div 65536) % 256)) * 256 + ((n \div 256) % 256)) * 256
                + (n % 256) = n
           /\ n % 256 \in Octet /\ (n \div 256) % 256 \in Octet
           /\ (n \div 65536) % 256 \in Octet /\ (n \div 16777216) % 256 \in Octet
<1>1. (n \div 256) * 256 + (n % 256) = n  OBVIOUS
<1>2. (n \div 65536) * 256 + ((n \div 256) % 256) = n \div 256  OBVIOUS
<1>3. (n \div 16777216) * 256 + ((n \div 65536) % 256) = n \div 65536  OBVIOUS
<1>4. /\ n % 256 \in Octet /\ (n \div 256) % 256 \in Octet
      /\ (n \div 65536) % 256 \in Octet /\ (n \div 16777216) % 256 \in Octet
  BY DEF Octet
<1> QED  BY <1>1, <1>2, <1>3, <1>4

\* The value of the octets s behind the number a.
Value(s, a) ==
    LET v[k \in 0 .. Len(s)] == IF k = 0 THEN a ELSE v[k - 1] * 256 + s[k]
    IN  v[Len(s)]

\* The recursive function exists for these lengths: it is given by its values.
LEMMA Horner ==
    ASSUME NEW s \in Seq(Octet), Len(s) \in 0 .. 4, NEW a \in Int
    PROVE  /\ Len(s) = 0 => Value(s, a) = a
           /\ Len(s) = 1 => Value(s, a) = a * 256 + s[1]
           /\ Len(s) = 2 => Value(s, a) = (a * 256 + s[1]) * 256 + s[2]
           /\ Len(s) = 3 => Value(s, a) = ((a * 256 + s[1]) * 256 + s[2]) * 256 + s[3]
           /\ Len(s) = 4 => Value(s, a) = (((a * 256 + s[1]) * 256 + s[2]) * 256 + s[3]) * 256 + s[4]
<1> DEFINE n == Len(s)
           Rule(v) == v = [k \in 0 .. n |-> IF k = 0 THEN a ELSE v[k - 1] * 256 + s[k]]
           w1 == a * 256 + s[1]
           w2 == w1 * 256 + s[2]
           w3 == w2 * 256 + s[3]
           w4 == w3 * 256 + s[4]
           w == [k \in 0 .. n |-> IF k = 0 THEN a ELSE IF k = 1 THEN w1 ELSE IF k = 2 THEN w2
                                  ELSE IF k = 3 THEN w3 ELSE w4]
           v == CHOOSE v : Rule(v)
<1>1. n \in 0 .. 4  OBVIOUS
<1> HIDE DEF n
<1>2. Rule(w)
  <2>1. \A k \in 0 .. n : k # 0 => k - 1 \in 0 .. n  BY <1>1
  <2>2. \A k \in 0 .. n : w[k] = IF k = 0 THEN a ELSE w[k - 1] * 256 + s[k]
    <3> SUFFICES ASSUME NEW k \in 0 .. n
                 PROVE  w[k] = IF k = 0 THEN a ELSE w[k - 1] * 256 + s[k]
      OBVIOUS
    <3>1. k \in {0, 1, 2, 3, 4}  BY <1>1
    <3> QED  BY <1>1, <2>1, <3>1
  <2> QED  BY <2>2
<1>3. Rule(v)
  <2> HIDE DEF w, Rule
  <2> QED  BY <1>2
<1>4. \A k \in 0 .. n : v[k] = IF k = 0 THEN a ELSE v[k - 1] * 256 + s[k]
  <2> HIDE DEF v
  <2> QED  BY <1>3
<1> HIDE DEF v
<1>5. /\ n >= 0 => v[0] = a
      /\ n >= 1 => v[1] = v[0] * 256 + s[1]
      /\ n >= 2 => v[2] = v[1] * 256 + s[2]
      /\ n >= 3 => v[3] = v[2] * 256 + s[3]
      /\ n >= 4 => v[4] = v[3] * 256 + s[4]
  BY <1>1, <1>4
<1>6. /\ n = 0 => v[n] = a
      /\ n = 1 => v[n] = w1
      /\ n = 2 => v[n] = w2
      /\ n = 3 => v[n] = w3
      /\ n = 4 => v[n] = w4
  BY <1>1, <1>5
<1>7. Value(s, a) = v[n]  BY DEF Value, n, v
<1> QED  BY <1>6, <1>7 DEF n

LEMMA UintValue ==
    ASSUME NEW s \in Seq(Octet), Len(s) \in 0 .. 4
    PROVE  /\ Len(s) = 1 => parse_uint(s) = s[1]
           /\ Len(s) = 2 => parse_uint(s) = s[1] * 256 + s[2]
           /\ Len(s) = 3 => parse_uint(s) = (s[1] * 256 + s[2]) * 256 + s[3]
           /\ Len(s) = 4 => parse_uint(s) = ((s[1] * 256 + s[2]) * 256 + s[3]) * 256 + s[4]
<1>1. /\ Len(s) = 1 => parse_uint(s) = 0 * 256 + s[1]
      /\ Len(s) = 2 => parse_uint(s) = (0 * 256 + s[1]) * 256 + s[2]
      /\ Len(s) = 3 => parse_uint(s) = ((0 * 256 + s[1]) * 256 + s[2]) * 256 + s[3]
      /\ Len(s) = 4 => parse_uint(s) = (((0 * 256 + s[1]) * 256 + s[2]) * 256 + s[3]) * 256 + s[4]
  <2>1. parse_uint(s) = Value(s, 0)  BY DEF parse_uint, Value
  <2>2. 0 \in Int  OBVIOUS
  <2> QED  BY <2>1, <2>2, Horner
<1>2. \A k \in 1 .. Len(s) : s[k] \in Int  BY Elements
<1> QED  BY <1>1, <1>2

LEMMA TwosValue ==
    ASSUME NEW s \in Seq(Octet), Len(s) \in 1 .. 4
    PROVE  LET first == IF s[1] >= 128 THEN s[1] - 256 ELSE s[1]
           IN  /\ Len(s) = 1 => TwosComplement(s) = first
               /\ Len(s) = 2 => TwosComplement(s) = first * 256 + s[2]
               /\ Len(s) = 3 => TwosComplement(s) = (first * 256 + s[2]) * 256 + s[3]
               /\ Len(s) = 4 => TwosComplement(s) = ((first * 256 + s[2]) * 256 + s[3]) * 256 + s[4]
<1> DEFINE a == IF s # <<>> /\ s[1] >= 128 THEN -1 ELSE 0
<1>1. a \in Int  OBVIOUS
<1>2. s # <<>> /\ s[1] \in Int  BY Elements
<1>3. a * 256 + s[1] = IF s[1] >= 128 THEN s[1] - 256 ELSE s[1]  BY <1>2
<1>4. Len(s) \in 0 .. 4  OBVIOUS
<1>5. TwosComplement(s) = Value(s, a)  BY DEF TwosComplement, Value
<1> HIDE DEF a
<1>6. /\ Len(s) = 1 => TwosComplement(s) = a * 256 + s[1]
      /\ Len(s) = 2 => TwosComplement(s) = (a * 256 + s[1]) * 256 + s[2]
      /\ Len(s) = 3 => TwosComplement(s) = ((a * 256 + s[1]) * 256 + s[2]) * 256 + s[3]
      /\ Len(s) = 4 => TwosComplement(s) = (((a * 256 + s[1]) * 256 + s[2]) * 256 + s[3]) * 256 + s[4]
  BY <1>1, <1>4, <1>5, Horner
<1> QED  BY <1>3, <1>6

\* The number of octets a number below 2^31 takes.
LEMMA Counts ==
    ASSUME NEW n \in Int, 0 <= n, n <= MaxI32
    PROVE  OctetCount(n) = IF n < 256 THEN 1 ELSE IF n < 65536 THEN 2 ELSE IF n < 16777216 THEN 3 ELSE 4
<1> DEFINE Fits(c) == (c = 4 \/ n < Weight(c)) /\ (c = 1 \/ n >= Weight(c - 1))
<1>1. /\ Fits(1) <=> n < 256
      /\ Fits(2) <=> n < 65536 /\ n >= 256
      /\ Fits(3) <=> n < 16777216 /\ n >= 65536
      /\ Fits(4) <=> n >= 16777216
  BY Weights
<1>2. OctetCount(n) = CHOOSE c \in 1 .. 4 : Fits(c)  BY DEF OctetCount
<1> HIDE DEF Fits
<1>3. ASSUME NEW d \in 1 .. 4, Fits(d), \A c \in {1, 2, 3, 4} : Fits(c) => c = d
      PROVE  OctetCount(n) = d
  <2>1. \A c \in 1 .. 4 : c \in {1, 2, 3, 4}  OBVIOUS
  <2>2. \A c \in 1 .. 4 : Fits(c) => c = d  BY <1>3, <2>1
  <2> QED  BY <1>2, <1>3, <2>2
<1>4. CASE n < 256
  <2>1. OctetCount(n) = 1  BY <1>1, <1>3, <1>4
  <2> QED  BY <1>4, <2>1
<1>5. CASE n >= 256 /\ n < 65536
  <2>1. OctetCount(n) = 2  BY <1>1, <1>3, <1>5
  <2> QED  BY <1>5, <2>1
<1>6. CASE n >= 65536 /\ n < 16777216
  <2>1. OctetCount(n) = 3  BY <1>1, <1>3, <1>6
  <2> QED  BY <1>6, <2>1
<1>7. CASE n >= 16777216
  <2>1. OctetCount(n) = 4  BY <1>1, <1>3, <1>7
  <2> QED  BY <1>7, <2>1
<1> QED  BY <1>4, <1>5, <1>6, <1>7

\* The octets of a number.
LEMMA OctetValues ==
    ASSUME NEW n \in Int
    PROVE  /\ OctetAt(n, 0) = n % 256 /\ OctetAt(n, 1) = (n \div 256) % 256
           /\ OctetAt(n, 2) = (n \div 65536) % 256 /\ OctetAt(n, 3) = (n \div 16777216) % 256
<1>1. n \div 1 = n  OBVIOUS
<1> QED  BY <1>1, Weights DEF OctetAt

LEMMA LastOctet ==
    ASSUME NEW n \in Int
    PROVE  OctetAt(n, 0) = n % 256
<1>1. n \div 1 = n  OBVIOUS
<1>2. OctetAt(n, 0) = (n \div Weight(0)) % 256  BY DEF OctetAt
<1>3. Weight(0) = 1  BY Weights
<1> QED  BY <1>1, <1>2, <1>3

LEMMA OctetTypes ==
    ASSUME NEW n \in Int
    PROVE  /\ OctetAt(n, 0) \in Octet /\ OctetAt(n, 1) \in Octet
           /\ OctetAt(n, 2) \in Octet /\ OctetAt(n, 3) \in Octet
           /\ OctetAt(n, 0) \in Int /\ OctetAt(n, 1) \in Int
           /\ OctetAt(n, 2) \in Int /\ OctetAt(n, 3) \in Int
<1>1. \A x \in Octet : x \in Int  BY DEF Octet
<1>2. OctetAt(n, 0) \in Octet  BY OctetValues, Shift
<1>3. OctetAt(n, 1) \in Octet  BY OctetValues, Shift
<1>4. OctetAt(n, 2) \in Octet  BY OctetValues, Shift
<1>5. OctetAt(n, 3) \in Octet  BY OctetValues, Shift
<1> QED  BY <1>1, <1>2, <1>3, <1>4, <1>5

\* The octets that a number takes hold all of it, and the first of them is below 128 when the
\* number leaves its uppermost bit.
LEMMA OctetSums ==
    ASSUME NEW n \in Int, 0 <= n
    PROVE  /\ n < 256 => OctetAt(n, 0) = n
           /\ n < 65536 => OctetAt(n, 1) * 256 + OctetAt(n, 0) = n
           /\ n < 16777216 => (OctetAt(n, 2) * 256 + OctetAt(n, 1)) * 256 + OctetAt(n, 0) = n
           /\ n <= MaxI32 => ((OctetAt(n, 3) * 256 + OctetAt(n, 2)) * 256 + OctetAt(n, 1)) * 256
                                + OctetAt(n, 0) = n
           /\ n < 32768 => ~(OctetAt(n, 1) >= 128)
           /\ n < 8388608 => ~(OctetAt(n, 2) >= 128)
           /\ n <= MaxI32 => ~(OctetAt(n, 3) >= 128)
<1> DEFINE a == n \div 256
           b == n \div 65536
           c == n \div 16777216
<1>1. /\ OctetAt(n, 0) = n % 256 /\ OctetAt(n, 1) = a % 256
      /\ OctetAt(n, 2) = b % 256 /\ OctetAt(n, 3) = c % 256
  <2>1. OctetAt(n, 0) = n % 256  BY LastOctet
  <2>2. OctetAt(n, 1) = (n \div 256) % 256  BY OctetValues
  <2>3. OctetAt(n, 2) = (n \div 65536) % 256  BY OctetValues
  <2>4. OctetAt(n, 3) = (n \div 16777216) % 256  BY OctetValues
  <2> QED  BY <2>1, <2>2, <2>3, <2>4
<1>2. a \in Int /\ b \in Int /\ c \in Int  OBVIOUS
<1>3. /\ n < 256 => n % 256 = n
      /\ n < 65536 => a % 256 = a
      /\ n < 16777216 => b % 256 = b
      /\ n < 32768 => ~(a % 256 >= 128)
      /\ n < 8388608 => ~(b % 256 >= 128)
  <2>1. n < 256 => n % 256 = n  OBVIOUS
  <2>2. n < 65536 => (n \div 256) % 256 = n \div 256  OBVIOUS
  <2>3. n < 16777216 => (n \div 65536) % 256 = n \div 65536  OBVIOUS
  <2>4. n < 32768 => ~((n \div 256) % 256 >= 128)  OBVIOUS
  <2>5. n < 8388608 => ~((n \div 65536) % 256 >= 128)  OBVIOUS
  <2> QED  BY <2>1, <2>2, <2>3, <2>4, <2>5
<1>4. n <= MaxI32 => c % 256 = c /\ ~(c % 256 >= 128)
  <2>1. ASSUME n <= MaxI32
        PROVE  (n \div 16777216) % 256 = n \div 16777216 /\ ~((n \div 16777216) % 256 >= 128)
    BY <2>1 DEF MaxI32
  <2> QED  BY <2>1
<1>5. OctetAt(n, 0) = n - a * 256
  <2>1. n % 256 = n - (n \div 256) * 256  OBVIOUS
  <2> QED  BY <1>1, <2>1
<1>6. OctetAt(n, 1) = a - b * 256
  <2>1. (n \div 256) % 256 = (n \div 256) - (n \div 65536) * 256  OBVIOUS
  <2> QED  BY <1>1, <2>1
<1>7. OctetAt(n, 2) = b - c * 256
  <2>1. (n \div 65536) % 256 = (n \div 65536) - (n \div 16777216) * 256  OBVIOUS
  <2> QED  BY <1>1, <2>1
<1> HIDE DEF a, b, c
<1>8. /\ n < 256 => OctetAt(n, 0) = n
      /\ n < 65536 => OctetAt(n, 1) = a
      /\ n < 16777216 => OctetAt(n, 2) = b
      /\ n <= MaxI32 => OctetAt(n, 3) = c
  BY <1>1, <1>3, <1>4
<1>9. /\ n < 32768 => ~(OctetAt(n, 1) >= 128)
      /\ n < 8388608 => ~(OctetAt(n, 2) >= 128)
      /\ n <= MaxI32 => ~(OctetAt(n, 3) >= 128)
  BY <1>1, <1>3, <1>4
<1> QED
  <2>1. n < 65536 => OctetAt(n, 1) * 256 + OctetAt(n, 0) = n  BY <1>2, <1>5, <1>8
  <2>2. n < 16777216 => (OctetAt(n, 2) * 256 + OctetAt(n, 1)) * 256 + OctetAt(n, 0) = n
    BY <1>2, <1>5, <1>6, <1>8
  <2>3. n <= MaxI32 => ((OctetAt(n, 3) * 256 + OctetAt(n, 2)) * 256 + OctetAt(n, 1)) * 256
                          + OctetAt(n, 0) = n
    BY <1>2, <1>5, <1>6, <1>7, <1>8
  <2> QED  BY <1>8, <1>9, <2>1, <2>2, <2>3

LEMMA Octets ==
    ASSUME NEW n \in Int
    PROVE  /\ \A c \in 1 .. 4 : BeOctets(n, c) \in Seq(Octet) /\ Len(BeOctets(n, c)) = c
           /\ BeOctets(n, 1)[1] = OctetAt(n, 0)
           /\ BeOctets(n, 2)[1] = OctetAt(n, 1) /\ BeOctets(n, 2)[2] = OctetAt(n, 0)
           /\ BeOctets(n, 3)[1] = OctetAt(n, 2) /\ BeOctets(n, 3)[2] = OctetAt(n, 1)
           /\ BeOctets(n, 3)[3] = OctetAt(n, 0)
           /\ BeOctets(n, 4)[1] = OctetAt(n, 3) /\ BeOctets(n, 4)[2] = OctetAt(n, 2)
           /\ BeOctets(n, 4)[3] = OctetAt(n, 1) /\ BeOctets(n, 4)[4] = OctetAt(n, 0)
<1>1. \A i \in 0 .. 3 : OctetAt(n, i) \in Octet
  <2>1. \A i \in 0 .. 3 : i \in {0, 1, 2, 3}  OBVIOUS
  <2> QED  BY <2>1, OctetTypes
<1>2. \A c \in 1 .. 4 : \A k \in 1 .. c : BeOctets(n, c)[k] = OctetAt(n, c - k)  BY DEF BeOctets
<1>3. \A c \in 1 .. 4 : BeOctets(n, c) \in Seq(Octet) /\ Len(BeOctets(n, c)) = c
  <2> SUFFICES ASSUME NEW c \in 1 .. 4
               PROVE  BeOctets(n, c) \in Seq(Octet) /\ Len(BeOctets(n, c)) = c
    OBVIOUS
  <2>1. \A k \in 1 .. c : c - k \in 0 .. 3  OBVIOUS
  <2>2. BeOctets(n, c) \in [1 .. c -> Octet]  BY <1>1, <2>1 DEF BeOctets
  <2> QED  BY <2>2
<1> QED  BY <1>2, <1>3

\* The number of octets of an integer: those of its size, and one more where the first of
\* them would make it negative.
LEMMA SignedCounts ==
    ASSUME NEW n \in Int, -128 <= n, n <= MaxI32
    PROVE  i_e_count(n) = IF n < 128 THEN 1 ELSE IF n < 32768 THEN 2 ELSE IF n < 8388608 THEN 3 ELSE 4
<1>1. CASE n <= 0
  <2>1. -n \in 0 .. 128 /\ (n >= 0 => n = 0)  BY <1>1
  <2>2. OctetCount(IF n >= 0 THEN n ELSE -n) = 1
    <3>1. (IF n >= 0 THEN n ELSE -n) = -n  BY <1>1
    <3>2. -n \in Int /\ 0 <= -n /\ -n <= MaxI32 /\ -n < 256  BY <2>1 DEF MaxI32
    <3> DEFINE m == -n
    <3> HIDE DEF m
    <3>3. OctetCount(m) = 1  BY <3>2, Counts DEF m
    <3> QED  BY <3>1, <3>3 DEF m
  <2>3. ~(n > 0)  BY <1>1
  <2> QED  BY <1>1, <2>2, <2>3 DEF i_e_count
<1>2. CASE n > 0
  <2>1. n \in Int /\ (IF n >= 0 THEN n ELSE -n) = n  BY <1>2
  <2> DEFINE c == OctetCount(n)
  <2>2. c = IF n < 256 THEN 1 ELSE IF n < 65536 THEN 2 ELSE IF n < 16777216 THEN 3 ELSE 4
    BY <2>1, Counts
  <2>3. i_e_count(n) = IF c < 4 /\ n \div (128 * Weight(c - 1)) = 1 THEN c + 1 ELSE c
    BY <1>2, <2>1 DEF i_e_count
  <2> HIDE DEF c
  <2>4. CASE n < 256
    <3>1. c = 1 /\ 128 * Weight(c - 1) = 128  BY <2>2, <2>4, Weights
    <3>2. n \div 128 = 1 <=> n >= 128  BY <1>2, <2>4
    <3> QED  BY <2>3, <2>4, <3>1, <3>2
  <2>5. CASE n >= 256 /\ n < 65536
    <3>1. c = 2 /\ 128 * Weight(c - 1) = 32768  BY <2>2, <2>5, Weights
    <3>2. n \div 32768 = 1 <=> n >= 32768  BY <2>5
    <3> QED  BY <2>3, <2>5, <3>1, <3>2
  <2>6. CASE n >= 65536 /\ n < 16777216
    <3>1. c = 3 /\ 128 * Weight(c - 1) = 8388608  BY <2>2, <2>6, Weights
    <3>2. n \div 8388608 = 1 <=> n >= 8388608  BY <2>6
    <3> QED  BY <2>3, <2>6, <3>1, <3>2
  <2>7. CASE n >= 16777216
    <3>1. c = 4  BY <2>2, <2>7
    <3> QED  BY <2>3, <2>7, <3>1
  <2> QED  BY <2>4, <2>5, <2>6, <2>7
<1> QED  BY <1>1, <1>2

-----------------------------------------------------------------------------
(* Theorems *)

\* A server reads every integer the library may send, and every one from -128 on, as what it
\* is: i_e_into_structure keeps enough octets for the sign and all of the value.
THEOREM IntegersKept ==
    ASSUME NEW n \in Int, -128 <= n, n <= MaxI32
    PROVE  TwosComplement(BeOctets(n, i_e_count(n))) = n
<1>0. i_e_count(n) = IF n < 128 THEN 1 ELSE IF n < 32768 THEN 2 ELSE IF n < 8388608 THEN 3 ELSE 4
  BY SignedCounts
<1>1. CASE n < 128
  <2>1. OctetAt(n, 0) = n % 256  BY LastOctet
  <2>2. i_e_count(n) = 1  BY <1>0, <1>1
  <2> DEFINE s == BeOctets(n, 1)
  <2>3. s \in Seq(Octet) /\ Len(s) = 1 /\ s[1] = OctetAt(n, 0)  BY Octets
  <2> HIDE DEF s
  <2>4. TwosComplement(s) = IF OctetAt(n, 0) >= 128 THEN OctetAt(n, 0) - 256 ELSE OctetAt(n, 0)
    BY <2>3, TwosValue
  <2>5. ASSUME n >= 0  PROVE TwosComplement(s) = n
    <3>1. 0 <= n /\ n < 256  BY <1>1, <2>5
    <3>2. OctetAt(n, 0) = n  BY <3>1, OctetSums
    <3> QED  BY <1>1, <2>4, <3>2
  <2>6. ASSUME n < 0  PROVE TwosComplement(s) = n
    <3> DEFINE m == n + 256
    <3>1. n % 256 = m  BY <2>6
    <3>2. m >= 128 /\ m - 256 = n  OBVIOUS
    <3> HIDE DEF m
    <3>3. OctetAt(n, 0) = m  BY <2>1, <3>1
    <3>4. TwosComplement(s) = m - 256  BY <2>4, <3>2, <3>3
    <3> QED  BY <3>2, <3>4
  <2> QED  BY <2>2, <2>5, <2>6 DEF s
<1>2. CASE n >= 128 /\ n < 32768
  <2> DEFINE s == BeOctets(n, 2)
  <2>1. /\ s \in Seq(Octet) /\ Len(s) = 2
        /\ s[1] = OctetAt(n, 1) /\ s[2] = OctetAt(n, 0)
    BY Octets
  <2> HIDE DEF s
  <2>2. 0 <= n  BY <1>2
  <2>3. OctetAt(n, 1) * 256 + OctetAt(n, 0) = n /\ ~(OctetAt(n, 1) >= 128)  BY <1>2, <2>2, OctetSums
  <2>4. TwosComplement(s) = OctetAt(n, 1) * 256 + OctetAt(n, 0)  BY <2>1, <2>3, TwosValue
  <2>5. i_e_count(n) = 2  BY <1>0, <1>2
  <2> QED  BY <2>3, <2>4, <2>5 DEF s
<1>3. CASE n >= 32768 /\ n < 8388608
  <2> DEFINE s == BeOctets(n, 3)
  <2>1. /\ s \in Seq(Octet) /\ Len(s) = 3
        /\ s[1] = OctetAt(n, 2) /\ s[2] = OctetAt(n, 1) /\ s[3] = OctetAt(n, 0)
    BY Octets
  <2> HIDE DEF s
  <2>2. 0 <= n  BY <1>3
  <2>3. (OctetAt(n, 2) * 256 + OctetAt(n, 1)) * 256 + OctetAt(n, 0) = n /\ ~(OctetAt(n, 2) >= 128)  BY <1>3, <2>2, OctetSums
  <2>4. TwosComplement(s) = (OctetAt(n, 2) * 256 + OctetAt(n, 1)) * 256 + OctetAt(n, 0)  BY <2>1, <2>3, TwosValue
  <2>5. i_e_count(n) = 3  BY <1>0, <1>3
  <2> QED  BY <2>3, <2>4, <2>5 DEF s
<1>4. CASE n >= 8388608
  <2> DEFINE s == BeOctets(n, 4)
  <2>1. /\ s \in Seq(Octet) /\ Len(s) = 4
        /\ s[1] = OctetAt(n, 3) /\ s[2] = OctetAt(n, 2) /\ s[3] = OctetAt(n, 1) /\ s[4] = OctetAt(n, 0)
    BY Octets
  <2> HIDE DEF s
  <2>2. 0 <= n  BY <1>4
  <2>3. ((OctetAt(n, 3) * 256 + OctetAt(n, 2)) * 256 + OctetAt(n, 1)) * 256 + OctetAt(n, 0) = n /\ ~(OctetAt(n, 3) >= 128)  BY <1>4, <2>2, OctetSums
  <2>4. TwosComplement(s) = ((OctetAt(n, 3) * 256 + OctetAt(n, 2)) * 256 + OctetAt(n, 1)) * 256 + OctetAt(n, 0)  BY <2>1, <2>3, TwosValue
  <2>5. i_e_count(n) = 4  BY <1>0, <1>4
  <2> QED  BY <2>3, <2>4, <2>5 DEF s
<1> QED  BY <1>1, <1>2, <1>3, <1>4

\* The library itself, which reads message ids and result codes without a sign (parse_uint),
\* finds every one that is not negative.
THEOREM IntegersRead ==
    ASSUME NEW n \in Int, 0 <= n, n <= MaxI32
    PROVE  parse_uint(BeOctets(n, i_e_count(n))) = n
<1>0. i_e_count(n) = IF n < 128 THEN 1 ELSE IF n < 32768 THEN 2 ELSE IF n < 8388608 THEN 3 ELSE 4
  <2>1. -128 <= n  OBVIOUS
  <2> QED  BY <2>1, SignedCounts
<1>1. CASE n < 128
  <2> DEFINE s == BeOctets(n, 1)
  <2>1. /\ s \in Seq(Octet) /\ Len(s) = 1
        /\ s[1] = OctetAt(n, 0)
    BY Octets
  <2> HIDE DEF s
  <2>2. OctetAt(n, 0) = n  BY <1>1, OctetSums
  <2>3. parse_uint(s) = OctetAt(n, 0)  BY <2>1, UintValue
  <2>4. i_e_count(n) = 1  BY <1>0, <1>1
  <2> QED  BY <2>2, <2>3, <2>4 DEF s
<1>2. CASE n >= 128 /\ n < 32768
  <2> DEFINE s == BeOctets(n, 2)
  <2>1. /\ s \in Seq(Octet) /\ Len(s) = 2
        /\ s[1] = OctetAt(n, 1) /\ s[2] = OctetAt(n, 0)
    BY Octets
  <2> HIDE DEF s
  <2>2. OctetAt(n, 1) * 256 + OctetAt(n, 0) = n  BY <1>2, OctetSums
  <2>3. parse_uint(s) = OctetAt(n, 1) * 256 + OctetAt(n, 0)  BY <2>1, UintValue
  <2>4. i_e_count(n) = 2  BY <1>0, <1>2
  <2> QED  BY <2>2, <2>3, <2>4 DEF s
<1>3. CASE n >= 32768 /\ n < 8388608
  <2> DEFINE s == BeOctets(n, 3)
  <2>1. /\ s \in Seq(Octet) /\ Len(s) = 3
        /\ s[1] = OctetAt(n, 2) /\ s[2] = OctetAt(n, 1) /\ s[3] = OctetAt(n, 0)
    BY Octets
  <2> HIDE DEF s
  <2>2. (OctetAt(n, 2) * 256 + OctetAt(n, 1)) * 256 + OctetAt(n, 0) = n  BY <1>3, OctetSums
  <2>3. parse_uint(s) = (OctetAt(n, 2) * 256 + OctetAt(n, 1)) * 256 + OctetAt(n, 0)  BY <2>1, UintValue
  <2>4. i_e_count(n) = 3  BY <1>0, <1>3
  <2> QED  BY <2>2, <2>3, <2>4 DEF s
<1>4. CASE n >= 8388608
  <2> DEFINE s == BeOctets(n, 4)
  <2>1. /\ s \in Seq(Octet) /\ Len(s) = 4
        /\ s[1] = OctetAt(n, 3) /\ s[2] = OctetAt(n, 2) /\ s[3] = OctetAt(n, 1) /\ s[4] = OctetAt(n, 0)
    BY Octets
  <2> HIDE DEF s
  <2>2. ((OctetAt(n, 3) * 256 + OctetAt(n, 2)) * 256 + OctetAt(n, 1)) * 256 + OctetAt(n, 0) = n  BY <1>4, OctetSums
  <2>3. parse_uint(s) = ((OctetAt(n, 3) * 256 + OctetAt(n, 2)) * 256 + OctetAt(n, 1)) * 256 + OctetAt(n, 0)  BY <2>1, UintValue
  <2>4. i_e_count(n) = 4  BY <1>0, <1>4
  <2> QED  BY <2>2, <2>3, <2>4 DEF s
<1> QED  BY <1>1, <1>2, <1>3, <1>4

\* And it is written in the shortest form, which BER demands: the first nine bits of two and
\* more octets are neither all zero nor all one.
THEOREM IntegersShortest ==
    ASSUME NEW n \in Int, -128 <= n, n <= MaxI32
    PROVE  LET s == BeOctets(n, i_e_count(n))
           IN  Len(s) > 1 => /\ ~(s[1] = 0 /\ s[2] < 128)
                             /\ ~(s[1] = 255 /\ s[2] >= 128)
<1> DEFINE Shortest(s) == Len(s) > 1 => ~(s[1] = 0 /\ s[2] < 128) /\ ~(s[1] = 255 /\ s[2] >= 128)
<1>0. i_e_count(n) = IF n < 128 THEN 1 ELSE IF n < 32768 THEN 2 ELSE IF n < 8388608 THEN 3 ELSE 4
  BY SignedCounts
<1>1. CASE n < 128
  <2>1. i_e_count(n) = 1  BY <1>0, <1>1
  <2>2. Len(BeOctets(n, 1)) = 1  BY Octets
  <2> QED  BY <2>1, <2>2
<1>2. CASE n >= 128 /\ n < 32768
  <2> DEFINE s == BeOctets(n, 2)
             x == OctetAt(n, 1)
             y == OctetAt(n, 0)
  <2>1. Len(s) = 2 /\ s[1] = x /\ s[2] = y  BY Octets
  <2>2. x = (n \div 256) % 256 /\ y = n % 256  BY OctetValues
  <2>3. (n \div 256) % 256 \in 0 .. 127 /\ ((n \div 256) % 256 = 0 => n % 256 >= 128)
    BY <1>2
  <2> HIDE DEF s, x, y
  <2>4. Shortest(s)  BY <2>1, <2>2, <2>3
  <2>5. i_e_count(n) = 2  BY <1>0, <1>2
  <2> QED  BY <2>4, <2>5 DEF s
<1>3. CASE n >= 32768 /\ n < 8388608
  <2> DEFINE s == BeOctets(n, 3)
             x == OctetAt(n, 2)
             y == OctetAt(n, 1)
  <2>1. Len(s) = 3 /\ s[1] = x /\ s[2] = y  BY Octets
  <2>2. x = (n \div 65536) % 256 /\ y = (n \div 256) % 256  BY OctetValues
  <2>3. (n \div 65536) % 256 \in 0 .. 127 /\ ((n \div 65536) % 256 = 0 => (n \div 256) % 256 >= 128)
    BY <1>3
  <2> HIDE DEF s, x, y
  <2>4. Shortest(s)  BY <2>1, <2>2, <2>3
  <2>5. i_e_count(n) = 3  BY <1>0, <1>3
  <2> QED  BY <2>4, <2>5 DEF s
<1>4. CASE n >= 8388608
  <2> DEFINE s == BeOctets(n, 4)
             x == OctetAt(n, 3)
             y == OctetAt(n, 2)
  <2>1. Len(s) = 4 /\ s[1] = x /\ s[2] = y  BY Octets
  <2>2. x = (n \div 16777216) % 256 /\ y = (n \div 65536) % 256  BY OctetValues
  <2>3. (n \div 16777216) % 256 \in 0 .. 127 /\ ((n \div 16777216) % 256 = 0 => (n \div 65536) % 256 >= 128)
    BY <1>4 DEF MaxI32
  <2> HIDE DEF s, x, y
  <2>4. Shortest(s)  BY <2>1, <2>2, <2>3
  <2>5. i_e_count(n) = 4  BY <1>0, <1>4
  <2> QED  BY <2>4, <2>5 DEF s
<1> QED  BY <1>1, <1>2, <1>3, <1>4

\* Two sequences, the first of which is not empty.
LEMMA Joined ==
    ASSUME NEW p \in Seq(Octet), NEW q \in Seq(Octet), p # <<>>
    PROVE  /\ p \o q \in Seq(Octet) /\ p \o q # <<>> /\ (p \o q)[1] = p[1]
           /\ Len(p \o q) = Len(p) + Len(q)
           /\ SubSeq(p \o q, 2, Len(p)) = SubSeq(p, 2, Len(p))
           /\ From(p \o q, Len(p) + 1) = q
<1>1. Len(p) \in Nat /\ Len(q) \in Nat /\ Len(p) >= 1  OBVIOUS
<1>2. /\ p \o q \in Seq(Octet) /\ Len(p \o q) = Len(p) + Len(q) /\ p \o q # <<>>
      /\ \A i \in 1 .. Len(p) : (p \o q)[i] = p[i]
      /\ \A i \in 1 .. Len(q) : (p \o q)[Len(p) + i] = q[i]
  BY <1>1
<1> DEFINE w == p \o q
<1> HIDE DEF w
<1>3. /\ w \in Seq(Octet) /\ Len(w) = Len(p) + Len(q) /\ w # <<>>
      /\ \A i \in 1 .. Len(p) : w[i] = p[i]
      /\ \A i \in 1 .. Len(q) : w[Len(p) + i] = q[i]
  BY <1>2 DEF w
<1>4. SubSeq(w, 2, Len(p)) = SubSeq(p, 2, Len(p))
  BY <1>1, <1>3
<1>5. SubSeq(w, Len(p) + 1, Len(w)) = q
  BY <1>1, <1>3
<1> QED  BY <1>1, <1>2, <1>4, <1>5 DEF w, From

\* The two forms of a length.
LEMMA Forms ==
    ASSUME NEW i \in Seq(Octet), i # <<>>
    PROVE  /\ i[1] < 128 => parse_length(i) = {[len |-> i[1], rest |-> Tail(i)]}
           /\ i[1] >= 128 /\ Len(i) - 1 < i[1] - 128 => parse_length(i) = {}
           /\ i[1] >= 128 /\ ~(Len(i) - 1 < i[1] - 128) =>
                parse_length(i) = {[len |-> parse_uint(SubSeq(i, 2, i[1] - 127)),
                                    rest |-> From(i, i[1] - 126)]}
<1>1. i[1] \in Int  BY Elements
<1>2. ~(i[1] < 128 /\ i[1] >= 128)  BY <1>1
<1> QED  BY <1>2, Zenon DEF parse_length

\* What is written of a length.
LEMMA Written ==
    ASSUME NEW n \in Int, 0 <= n, n <= MaxI32
    PROVE  LET c == OctetCount(n)
               o == BeOctets(n, c)
               w == write_length(n)
           IN  /\ w \in Seq(Octet)
               /\ n < 128 => w = <<n>>
               /\ n >= 128 => /\ c \in 1 .. 4 /\ Len(w) = c + 1 /\ w[1] = 128 + c
                              /\ SubSeq(w, 2, c + 1) = o
                              /\ o \in Seq(Octet) /\ Len(o) = c /\ parse_uint(o) = n
<1> DEFINE c == OctetCount(n)
           o == BeOctets(n, c)
           w == write_length(n)
<1>1. c = IF n < 256 THEN 1 ELSE IF n < 65536 THEN 2 ELSE IF n < 16777216 THEN 3 ELSE 4
  BY Counts
<1>2. w = IF n < 128 THEN <<n>> ELSE <<128 + c>> \o o  BY DEF write_length
<1> HIDE DEF w, c
<1>3. c \in 1 .. 4 /\ n \in Int  BY <1>1
<1>4. /\ o \in Seq(Octet) /\ Len(o) = c
      /\ c = 1 => o[1] = OctetAt(n, 0)
      /\ c = 2 => o[1] = OctetAt(n, 1) /\ o[2] = OctetAt(n, 0)
      /\ c = 3 => o[1] = OctetAt(n, 2) /\ o[2] = OctetAt(n, 1) /\ o[3] = OctetAt(n, 0)
      /\ c = 4 => /\ o[1] = OctetAt(n, 3) /\ o[2] = OctetAt(n, 2)
                  /\ o[3] = OctetAt(n, 1) /\ o[4] = OctetAt(n, 0)
  BY <1>3, Octets
<1> HIDE DEF o
<1>5. parse_uint(o) = n
  <2>1. /\ c = 1 => parse_uint(o) = o[1]
        /\ c = 2 => parse_uint(o) = o[1] * 256 + o[2]
        /\ c = 3 => parse_uint(o) = (o[1] * 256 + o[2]) * 256 + o[3]
        /\ c = 4 => parse_uint(o) = ((o[1] * 256 + o[2]) * 256 + o[3]) * 256 + o[4]
    <3>1. o \in Seq(Octet) /\ Len(o) = c /\ Len(o) \in 0 .. 4  BY <1>3, <1>4
    <3>2. Len(o) = 1 => parse_uint(o) = o[1]  BY <3>1, UintValue
    <3>3. Len(o) = 2 => parse_uint(o) = o[1] * 256 + o[2]  BY <3>1, UintValue
    <3>4. Len(o) = 3 => parse_uint(o) = (o[1] * 256 + o[2]) * 256 + o[3]  BY <3>1, UintValue
    <3>5. Len(o) = 4 => parse_uint(o) = ((o[1] * 256 + o[2]) * 256 + o[3]) * 256 + o[4]
      BY <3>1, UintValue
    <3> QED  BY <3>1, <3>2, <3>3, <3>4, <3>5
  <2>2. /\ c = 1 => OctetAt(n, 0) = n
        /\ c = 2 => OctetAt(n, 1) * 256 + OctetAt(n, 0) = n
        /\ c = 3 => (OctetAt(n, 2) * 256 + OctetAt(n, 1)) * 256 + OctetAt(n, 0) = n
        /\ c = 4 => ((OctetAt(n, 3) * 256 + OctetAt(n, 2)) * 256 + OctetAt(n, 1)) * 256
                      + OctetAt(n, 0) = n
    <3>1. /\ c = 1 => n < 256
          /\ c = 2 => n < 65536
          /\ c = 3 => n < 16777216
      BY <1>1
    <3> QED  BY <3>1, OctetSums
  <2>3. CASE c = 1  BY <1>4, <2>1, <2>2, <2>3
  <2>4. CASE c = 2  BY <1>4, <2>1, <2>2, <2>4
  <2>5. CASE c = 3  BY <1>4, <2>1, <2>2, <2>5
  <2>6. CASE c = 4  BY <1>4, <2>1, <2>2, <2>6
  <2> QED  BY <1>3, <2>3, <2>4, <2>5, <2>6
<1>6. CASE n < 128
  <2>1. w = <<n>>  BY <1>2, <1>6
  <2>2. n \in Octet  BY <1>6 DEF Octet
  <2> QED  BY <1>6, <2>1, <2>2 DEF w
<1>7. CASE n >= 128
  <2> DEFINE p == <<128 + c>>
  <2>1. p \in Seq(Octet) /\ p # <<>> /\ Len(p) = 1 /\ p[1] = 128 + c
    <3>1. 128 + c \in Octet  BY <1>3 DEF Octet
    <3> QED  BY <3>1
  <2>2. w = p \o o  BY <1>2, <1>3, <1>7
  <2> HIDE DEF p
  <2>3. /\ w \in Seq(Octet) /\ w[1] = 128 + c /\ Len(w) = 1 + c /\ From(w, 2) = o
    <3>1. /\ p \o o \in Seq(Octet) /\ (p \o o)[1] = p[1]
          /\ Len(p \o o) = Len(p) + Len(o) /\ From(p \o o, Len(p) + 1) = o
      BY <1>4, <2>1, Joined
    <3> QED  BY <1>4, <2>1, <2>2, <3>1
  <2>4. SubSeq(w, 2, c + 1) = o
    <3>1. Len(w) = c + 1  BY <1>3, <2>3
    <3> QED  BY <2>3, <3>1 DEF From
  <2>5. Len(w) = c + 1  BY <1>3, <2>3
  <2> QED  BY <1>3, <1>4, <1>5, <1>7, <2>3, <2>4, <2>5 DEF w, c, o
<1> QED  BY <1>3, <1>6, <1>7

\* The reader finds every length that the writer has written, in either form, and leaves
\* what is behind it.
THEOREM LengthsKept ==
    ASSUME NEW n \in Int, 0 <= n, n <= MaxI32, NEW rest \in Seq(Octet)
    PROVE  parse_length(write_length(n) \o rest) = {[len |-> n, rest |-> rest]}
<1> DEFINE c == OctetCount(n)
           o == BeOctets(n, c)
           w == write_length(n)
           i == w \o rest
<1>1. /\ w \in Seq(Octet)
      /\ n < 128 => w = <<n>>
      /\ n >= 128 => /\ c \in 1 .. 4 /\ Len(w) = c + 1 /\ w[1] = 128 + c
                     /\ SubSeq(w, 2, c + 1) = o
                     /\ o \in Seq(Octet) /\ Len(o) = c /\ parse_uint(o) = n
  BY Written
<1> HIDE DEF w, c, o
<1>2. w # <<>>
  <2>1. CASE n < 128
    <3>1. w = <<n>>  BY <1>1, <2>1
    <3>2. <<n>> # <<>>  OBVIOUS
    <3> QED  BY <3>1, <3>2
  <2>2. CASE n >= 128  BY <1>1, <2>2
  <2> QED  BY <2>1, <2>2
<1>3. /\ i \in Seq(Octet) /\ i # <<>> /\ i[1] = w[1] /\ Len(i) = Len(w) + Len(rest)
      /\ SubSeq(i, 2, Len(w)) = SubSeq(w, 2, Len(w)) /\ From(i, Len(w) + 1) = rest
  BY <1>1, <1>2, Joined
<1> HIDE DEF i
<1>4. CASE n < 128
  <2>1. Len(w) = 1 /\ w[1] = n  BY <1>1, <1>4
  <2>2. parse_length(i) = {[len |-> i[1], rest |-> Tail(i)]}  BY <1>3, <1>4, <2>1, Forms
  <2>3. Tail(i) = From(i, 2)  BY <1>3 DEF From
  <2>4. Tail(i) = rest  BY <1>3, <2>1, <2>3
  <2> QED  BY <1>3, <2>1, <2>2, <2>4 DEF i, w
<1>5. CASE n >= 128
  <2>1. c \in 1 .. 4 /\ Len(w) = c + 1 /\ i[1] = 128 + c  BY <1>1, <1>3, <1>5
  <2>2. Len(rest) \in Nat  OBVIOUS
  <2>3. i[1] >= 128 /\ ~(Len(i) - 1 < i[1] - 128)  BY <1>3, <2>1, <2>2
  <2>4. i[1] - 127 = Len(w) /\ i[1] - 126 = Len(w) + 1  BY <2>1
  <2>5. parse_length(i) = {[len |-> parse_uint(SubSeq(i, 2, i[1] - 127)), rest |-> From(i, i[1] - 126)]}
    BY <1>3, <2>3, Forms
  <2>6. SubSeq(i, 2, i[1] - 127) = o  BY <1>1, <1>3, <1>5, <2>1, <2>4
  <2>7. From(i, i[1] - 126) = rest  BY <1>3, <2>4
  <2>8. parse_uint(o) = n  BY <1>1, <1>5
  <2> QED  BY <2>5, <2>6, <2>7, <2>8 DEF i, w
<1> QED  BY <1>4, <1>5

\* A length of which octets are missing is neither read nor taken for an error: the streaming
\* parser waits for them.
THEOREM LengthsAwaited ==
    ASSUME NEW n \in Int, 0 <= n, n <= MaxI32, NEW k \in 0 .. Len(write_length(n)) - 1
    PROVE  parse_length(SubSeq(write_length(n), 1, k)) = {}
<1> DEFINE c == OctetCount(n)
           w == write_length(n)
           i == SubSeq(w, 1, k)
<1>1. /\ w \in Seq(Octet)
      /\ n < 128 => w = <<n>>
      /\ n >= 128 => c \in 1 .. 4 /\ Len(w) = c + 1 /\ w[1] = 128 + c
  BY Written
<1>2. k \in 0 .. Len(w) - 1  OBVIOUS
<1> HIDE DEF w, c
<1>3. Len(w) \in Nat /\ i \in Seq(Octet) /\ Len(i) = k  BY <1>1, <1>2
<1>4. CASE k = 0
  <2>1. i = <<>>  BY <1>3, <1>4
  <2>2. parse_length(<<>>) = {}
    <3>1. ~(<<>> # <<>>)  OBVIOUS
    <3> QED  BY <3>1, Zenon DEF parse_length
  <2> QED  BY <2>1, <2>2 DEF i, w
<1>5. CASE k # 0
  <2>1. k >= 1 /\ Len(w) >= 2  BY <1>2, <1>3, <1>5
  <2>2. n >= 128
    <3>1. ASSUME n < 128  PROVE FALSE
      <4>1. w = <<n>>  BY <1>1, <3>1
      <4>2. Len(<<n>>) = 1  OBVIOUS
      <4> QED  BY <2>1, <4>1, <4>2
    <3> QED  BY <3>1
  <2>3. i # <<>> /\ i[1] = w[1]  BY <1>1, <1>2, <1>3, <2>1
  <2> HIDE DEF i
  <2>4. i[1] >= 128 /\ Len(i) - 1 < i[1] - 128  BY <1>1, <1>2, <1>3, <2>2, <2>3
  <2>5. parse_length(i) = {}  BY <1>3, <2>3, <2>4, Forms
  <2> QED  BY <2>5 DEF i, w
<1> QED  BY <1>4, <1>5

\* The identifier of a tag up to 30, as all of LDAP are, is read as it was written: class,
\* number and whether the value is constructed (write_type, parse_type_header).
THEOREM IdentifiersKept ==
    ASSUME NEW class \in {Universal, Application, Context}, NEW id \in 0 .. 30, NEW content,
           NEW rest \in Seq(Octet)
    PROVE  /\ parse_type_header(write_type(P(class, id, content)) \o rest)
                = {[class |-> class, constructed |-> FALSE, id |-> id, rest |-> rest]}
           /\ parse_type_header(write_type(C(class, id, content)) \o rest)
                = {[class |-> class, constructed |-> TRUE, id |-> id, rest |-> rest]}
<1>1. class \in 0 .. 2  BY DEF Universal, Application, Context
<1>2. ASSUME NEW t, NEW bit \in {0, 32}, t.class = class, t.id = id,
             (IF IsPrimitive(t) THEN 0 ELSE 32) = bit
      PROVE  parse_type_header(write_type(t) \o rest)
                = {[class |-> class, constructed |-> (bit = 32), id |-> id, rest |-> rest]}
  <2> DEFINE x == class * 64 + bit + id
             i == <<x>> \o rest
  <2>1. write_type(t) = <<x>>  BY <1>2 DEF write_type
  <2>2. x \in Octet /\ x \div 64 = class /\ x % 32 = id /\ ((x \div 32) % 2 = 1 <=> bit = 32)
    BY <1>1 DEF Octet
  <2> HIDE DEF x
  <2>3. i # <<>> /\ i[1] = x /\ Tail(i) = rest  BY <2>2
  <2> HIDE DEF i
  <2>4. parse_type_header(i) = {[class |-> i[1] \div 64, constructed |-> (i[1] \div 32) % 2 = 1,
                                 id |-> i[1] % 32, rest |-> Tail(i)]}
    BY <2>3 DEF parse_type_header
  <2>5. ((x \div 32) % 2 = 1) = (bit = 32)  BY <2>2
  <2>6. parse_type_header(i) = {[class |-> class, constructed |-> (bit = 32), id |-> id, rest |-> rest]}
    BY <2>2, <2>3, <2>4, <2>5, Zenon
  <2> QED  BY <2>1, <2>6 DEF i
<1>3. /\ P(class, id, content).class = class /\ P(class, id, content).id = id
      /\ IsPrimitive(P(class, id, content))
  BY DEF P, IsPrimitive
<1>4. /\ C(class, id, content).class = class /\ C(class, id, content).id = id
      /\ ~IsPrimitive(C(class, id, content))
  BY DEF C, IsPrimitive
<1>5. 0 \in {0, 32} /\ 32 \in {0, 32} /\ (0 = 32) = FALSE /\ (32 = 32) = TRUE  OBVIOUS
<1>6. parse_type_header(write_type(P(class, id, content)) \o rest)
        = {[class |-> class, constructed |-> FALSE, id |-> id, rest |-> rest]}
  BY <1>2, <1>3, <1>5
<1>7. parse_type_header(write_type(C(class, id, content)) \o rest)
        = {[class |-> class, constructed |-> TRUE, id |-> id, rest |-> rest]}
  BY <1>2, <1>4, <1>5
<1> QED  BY <1>6, <1>7
=============================================================================
