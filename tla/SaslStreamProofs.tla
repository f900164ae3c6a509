---------------------------- MODULE SaslStreamProofs ----------------------------
(***************************************************************************)
(* What the codec of SaslLayer decodes, across the switch of the layer, as *)
(* long as the input is cut the way the codec provides for.                *)
(***************************************************************************)
EXTENDS SaslLayerProofs

-----------------------------------------------------------------------------
(* The inductive invariant *)

\* How much the driver has taken, and how much the server has put on the wire,
\* in units of messages.
Taken == MessageSize * Len(got)
Sent == MessageSize * Len(ans) - Len(pend)

\* s holds the units after the p-th, in the clear.
Straight(s, p) ==
    \A k \in 1..Len(s) : s[k].form = "plain" /\ s[k].end = "no" /\ Place(s[k]) = p + k

\* The length at k is followed by its token, of whole messages and in order, and
\* this by the next length.
TokenAt(s, k) ==
    LET n == s[k].m IN
    /\ n >= MessageSize /\ k + 1 + n <= Len(s)
    /\ s[k] = Header(n)[1] /\ s[k + 1] = Header(n)[2]
    /\ \A j \in 1..n : /\ s[k + 1 + j].form = "wrapped"
                       /\ Place(s[k + 1 + j]) = Place(s[k + 2]) + j - 1
    /\ s[k + 1 + n].i = MessageSize
    /\ n > MessageSize => s[k + 1 + n].end = "many"
    /\ k + 2 + n <= Len(s) => /\ IsHead(s[k + 2 + n])
                              /\ Place(s[k + 4 + n]) = Place(s[k + 1 + n]) + 1

\* s consists of tokens that hold the units after the p-th up to the q-th.
Chain(s, p, q) ==
    /\ s = <<>> => p = q
    /\ s # <<>> => IsHead(s[1]) /\ Place(s[3]) = p + 1 /\ Place(s[Len(s)]) = q
    /\ \A k \in 1..Len(s) : IsHead(s[k]) => TokenAt(s, k)

\* What is still to be put into tokens.
Pending ==
    /\ Straight(pend, Sent) /\ Len(pend) % MessageSize = 0
    /\ ~wrap => pend = <<>>

\* What is on its way.
Underway ==
    /\ ~wrap => Straight(Transit, Taken) /\ Len(Transit) = Sent - Taken
    /\ wrap /\ ~decoded => Chain(Transit, Taken, Sent)
    /\ decoded => /\ buf # <<>> /\ ~starved
                  /\ Straight(buf, Taken) /\ Len(buf) % MessageSize = 0
                  /\ Chain(wire, Taken + Len(buf), Sent)

\* Where the input has been cut.
Cuts ==
    /\ wire # <<>> => ~(wire[1].form = "length" /\ wire[1].i = 2)
    /\ \A k \in 1..(Len(buf) - 1) : buf[k].end # "many"

\* The switch comes after the last message in the clear and before the first
\* token.
Boundary ==
    /\ layer /\ bind = "third" =>
         Live \subseteq {Len(ans)} /\ (reply # "none" => Transit = <<>>)
    /\ wrap /\ bind = "param" => Transit = <<>> /\ pend = <<>>

Numbers == got = [i \in 1..Len(got) |-> i]

Whole == Pending /\ Underway /\ Cuts /\ Boundary

Stream ==
    Orderly => /\ Numbers /\ drv \in {"running", "closed", "toolarge"}
               /\ drv = "running" => Whole

-----------------------------------------------------------------------------
(* Units in order *)

LEMMA PlaceFacts ==
    ASSUME NEW u \in Unit
    PROVE  /\ Place(u) \in Int /\ Place(u) = 2 * (u.m - 1) + u.i
           /\ u.m \in Nat /\ u.i \in 1..2
           /\ \A g \in Nat : Place(u) = 2 * g + 1 => u.m = g + 1 /\ u.i = 1
           /\ \A g \in Nat : Place(u) = 2 * g + 2 => u.m = g + 1 /\ u.i = 2
           /\ u.i = 2 <=> Place(u) % 2 = 0
<1> DEFINE m == u.m
           i == u.i
<1>1. m \in Nat /\ i \in 1..2  BY DEF Unit
<1>2. Place(u) = 2 * (m - 1) + i  BY DEF Place, MessageSize
<1> HIDE DEF m, i
<1>3. Place(u) \in Int  BY <1>1, <1>2
<1>4. ASSUME NEW g \in Nat, Place(u) = 2 * g + 1 PROVE m = g + 1 /\ i = 1
  BY <1>1, <1>2, <1>4
<1>5. ASSUME NEW g \in Nat, Place(u) = 2 * g + 2 PROVE m = g + 1 /\ i = 2
  BY <1>1, <1>2, <1>5
<1>6. i = 2 <=> Place(u) % 2 = 0  BY <1>1, <1>2
<1> QED  BY <1>1, <1>2, <1>3, <1>4, <1>5, <1>6 DEF m, i

LEMMA PlainUnit ==
    ASSUME NEW u \in Unit, u.form = "plain", u.end = "no"
    PROVE  u = Plain(u.m, u.i)
BY DEF Unit, Plain

LEMMA StraightFrom ==
    ASSUME NEW s \in Seq(Unit), NEW p \in Int, Straight(s, p), NEW k \in Nat,
           k \in 1..(Len(s) + 1)
    PROVE  Straight(From(s, k), p + k - 1)
<1> DEFINE f == From(s, k)
<1>1. Len(f) = Len(s) + 1 - k /\ \A j \in 1..(Len(s) + 1 - k) : f[j] = s[j + k - 1]
  BY FromFacts
<1> HIDE DEF f
<1>2. Len(s) \in Nat  BY LenProperties
<1> SUFFICES ASSUME NEW j \in 1..Len(f)
             PROVE  /\ f[j].form = "plain" /\ f[j].end = "no"
                    /\ Place(f[j]) = (p + k - 1) + j
  BY DEF Straight, f
<1>3. j \in 1..(Len(s) + 1 - k) /\ j + k - 1 \in 1..Len(s)  BY <1>1, <1>2
<1>4. f[j] = s[j + k - 1]  BY <1>1, <1>3
<1> DEFINE h == j + k - 1
<1> HIDE DEF h
<1>5. s[h].form = "plain" /\ s[h].end = "no" /\ Place(s[h]) = p + h
  BY <1>3 DEF Straight, h
<1>6. p + h = (p + k - 1) + j  BY <1>2, <1>3 DEF h
<1> QED  BY <1>4, <1>5, <1>6 DEF h

LEMMA StraightConcat ==
    ASSUME NEW s \in Seq(Unit), NEW t \in Seq(Unit), NEW p \in Int, Straight(s, p),
           Straight(t, p + Len(s))
    PROVE  Straight(s \o t, p)
<1> DEFINE c == s \o t
<1>1. \A j \in 1..Len(c) :
        (j \in 1..Len(s) /\ c[j] = s[j]) \/ (j - Len(s) \in 1..Len(t) /\ c[j] = t[j - Len(s)])
  OBVIOUS
<1> HIDE DEF c
<1>2. Len(s) \in Nat  BY LenProperties
<1> SUFFICES ASSUME NEW j \in 1..Len(c)
             PROVE  c[j].form = "plain" /\ c[j].end = "no" /\ Place(c[j]) = p + j
  BY DEF Straight, c
<1>3. CASE j \in 1..Len(s) /\ c[j] = s[j]  BY <1>3 DEF Straight
<1>4. CASE j - Len(s) \in 1..Len(t) /\ c[j] = t[j - Len(s)]
  <2> DEFINE i == j - Len(s)
  <2>1. (p + Len(s)) + i = p + j  BY <1>2, <1>4
  <2>2. i \in 1..Len(t) /\ c[j] = t[i]  BY <1>4
  <2> HIDE DEF i
  <2>3. t[i].form = "plain" /\ t[i].end = "no" /\ Place(t[i]) = (p + Len(s)) + i
    BY <2>2 DEF Straight
  <2> QED  BY <2>1, <2>2, <2>3
<1> QED  BY <1>1, <1>3, <1>4

\* decode_inner finds the next message in units in order, or waits for it.
LEMMA StraightDecode ==
    ASSUME NEW b \in Seq(Unit), NEW g \in Nat, Straight(b, 2 * g), NEW r \in DecodeInner(b)
    PROVE  /\ Len(b) < 2 => r.res = "none" /\ r.rest = b
           /\ Len(b) >= 2 => r.res = "message" /\ r.m = g + 1 /\ r.rest = From(b, 3)
<1>0. Len(b) \in Nat  BY LenProperties
<1>1. ASSUME NEW k \in 1..Len(b)
      PROVE  b[k] \in Unit /\ b[k] = Plain(b[k].m, b[k].i) /\ Place(b[k]) = 2 * g + k
  <2>1. b[k] \in Unit  OBVIOUS
  <2>2. b[k].form = "plain" /\ b[k].end = "no" /\ Place(b[k]) = 2 * g + k  BY DEF Straight
  <2> QED  BY <2>1, <2>2, PlainUnit
<1>2. Len(b) >= 1 => b[1].m = g + 1 /\ b[1] = Plain(b[1].m, 1)
  <2> SUFFICES ASSUME Len(b) >= 1 PROVE b[1].m = g + 1 /\ b[1] = Plain(b[1].m, 1)
    OBVIOUS
  <2>1. 1 \in 1..Len(b)  BY <1>0
  <2>2. b[1] \in Unit /\ b[1] = Plain(b[1].m, b[1].i) /\ Place(b[1]) = 2 * g + 1  BY <1>1, <2>1
  <2>3. b[1].m = g + 1 /\ b[1].i = 1  BY <2>2, PlaceFacts
  <2> QED  BY <2>2, <2>3
<1>3. CASE Len(b) < 2
  <2>1. b = <<>> \/ (Len(b) = 1 /\ b[1] = Plain(b[1].m, 1))
    <3>1. CASE Len(b) = 0  BY <3>1, EmptySeq
    <3>2. CASE Len(b) = 1  BY <1>2, <3>2
    <3>3. \A l \in Nat : l < 2 => l = 0 \/ l = 1  OBVIOUS
    <3> QED  BY <1>0, <1>3, <3>1, <3>2, <3>3
  <2>2. r.res = "none" /\ r.rest = b  BY <2>1, InnerNone
  <2> QED  BY <1>0, <1>3, <2>2
<1>4. CASE Len(b) >= 2
  <2>1. 2 \in 1..Len(b)  BY <1>0, <1>4
  <2>2. b[2] \in Unit /\ b[2] = Plain(b[2].m, b[2].i) /\ Place(b[2]) = 2 * g + 2  BY <1>1, <2>1
  <2>3. b[2].m = g + 1 /\ b[2].i = 2  BY <2>2, PlaceFacts
  <2>4. b[1].m = g + 1 /\ b[1] = Plain(b[1].m, 1)  BY <1>0, <1>2, <1>4
  <2>5. b[2] = Plain(b[1].m, 2)  BY <2>2, <2>3, <2>4
  <2>6. r.res = "message" /\ r.m = b[1].m /\ r.rest = From(b, 3)
    BY <1>4, <2>4, <2>5, InnerMessage
  <2> QED  BY <1>0, <1>4, <2>4, <2>6
<1> QED  BY <1>0, <1>3, <1>4

-----------------------------------------------------------------------------
(* Tokens in order *)

AllTokens(s) == \A k \in 1..Len(s) : IsHead(s[k]) => TokenAt(s, k)

\* The token of length n that begins at k.
TokenShape(s, k, n) ==
    /\ n \in Nat /\ n >= 2 /\ k + 1 + n <= Len(s)
    /\ s[k] = Header(n)[1] /\ s[k + 1] = Header(n)[2]
    /\ \A j \in 1..n : /\ s[k + 1 + j].form = "wrapped"
                       /\ Place(s[k + 1 + j]) = Place(s[k + 2]) + j - 1
    /\ s[k + 1 + n].i = 2
    /\ n > 2 => s[k + 1 + n].end = "many"
    /\ k + 2 + n <= Len(s) => /\ IsHead(s[k + 2 + n]) /\ k + 4 + n <= Len(s)
                              /\ Place(s[k + 4 + n]) = Place(s[k + 1 + n]) + 1

\* The parts of TokenAt, with the length of the token.
LEMMA TokenParts ==
    ASSUME NEW s \in Seq(Unit), AllTokens(s), NEW k \in 1..Len(s), IsHead(s[k]),
           NEW n, n = s[k].m
    PROVE  TokenShape(s, k, n)
<1>1. Len(s) \in Nat /\ k \in Nat /\ s[k] \in Unit  OBVIOUS
<1>2. n \in Nat  BY <1>1 DEF Unit
<1>3. /\ n >= 2 /\ k + 1 + n <= Len(s)
      /\ s[k] = Header(n)[1] /\ s[k + 1] = Header(n)[2]
      /\ \A j \in 1..n : /\ s[k + 1 + j].form = "wrapped"
                         /\ Place(s[k + 1 + j]) = Place(s[k + 2]) + j - 1
      /\ s[k + 1 + n].i = 2
      /\ n > 2 => s[k + 1 + n].end = "many"
      /\ k + 2 + n <= Len(s) => /\ IsHead(s[k + 2 + n])
                                /\ Place(s[k + 4 + n]) = Place(s[k + 1 + n]) + 1
  BY DEF AllTokens, TokenAt, MessageSize
<1>4. k + 2 + n <= Len(s) => k + 4 + n <= Len(s)
  <2> SUFFICES ASSUME k + 2 + n <= Len(s) PROVE k + 4 + n <= Len(s)
    OBVIOUS
  <2> DEFINE h == k + 2 + n
  <2>1. h \in 1..Len(s) /\ h \in Nat  BY <1>1, <1>2
  <2>2. IsHead(s[h])  BY <1>3
  <2> HIDE DEF h
  <2>3. s[h] \in Unit  BY <2>1
  <2>4. s[h].m \in Nat  BY <2>3 DEF Unit
  <2>5. s[h].m >= 2 /\ h + 1 + s[h].m <= Len(s)  BY <2>1, <2>2 DEF AllTokens, TokenAt, MessageSize
  <2> DEFINE m == s[h].m
  <2>6. m \in Nat /\ m >= 2 /\ h + 1 + m <= Len(s)  BY <2>4, <2>5
  <2> HIDE DEF m
  <2>7. h + 2 <= Len(s)  BY <1>1, <2>1, <2>6
  <2> QED  BY <1>1, <1>2, <2>7 DEF h
<1> QED  BY <1>2, <1>3, <1>4, Zenon DEF TokenShape

\* The tokens behind the front.
LEMMA TokensFrom ==
    ASSUME NEW s \in Seq(Unit), AllTokens(s), NEW d \in Nat, d + 1 \in 1..(Len(s) + 1)
    PROVE  AllTokens(From(s, d + 1))
<1> DEFINE f == From(s, d + 1)
<1>1. /\ f \in Seq(Unit) /\ Len(f) = Len(s) - d /\ Len(s) \in Nat
      /\ \A j \in 1..(Len(s) - d) : f[j] = s[j + d]
  <2> DEFINE e == d + 1
  <2>1. e \in Nat /\ e \in 1..(Len(s) + 1) /\ Len(s) \in Nat  BY LenProperties
  <2> HIDE DEF e
  <2>2. /\ From(s, e) \in Seq(Unit) /\ Len(From(s, e)) = Len(s) + 1 - e
        /\ \A j \in 1..(Len(s) + 1 - e) : From(s, e)[j] = s[j + e - 1]
    BY <2>1, FromFacts
  <2>3. Len(s) + 1 - e = Len(s) - d /\ \A j \in 1..(Len(s) - d) : j + e - 1 = j + d
    BY <2>1 DEF e
  <2> QED  BY <2>1, <2>2, <2>3 DEF e
<1> HIDE DEF f
<1>2. \A j \in 1..Len(f) : f[j] = s[j + d] /\ j + d \in 1..Len(s)  BY <1>1
<1> SUFFICES ASSUME NEW k \in 1..Len(f), IsHead(f[k])
             PROVE  TokenAt(f, k)
  BY DEF AllTokens, f
<1> DEFINE n == f[k].m
           i == k + d
<1>3. i \in 1..Len(s) /\ i \in Nat /\ f[k] = s[i] /\ k \in Nat  BY <1>1, <1>2
<1>4. /\ n \in Nat /\ n >= 2 /\ i + 1 + n <= Len(s)
      /\ s[i] = Header(n)[1] /\ s[i + 1] = Header(n)[2]
      /\ \A j \in 1..n : /\ s[i + 1 + j].form = "wrapped"
                         /\ Place(s[i + 1 + j]) = Place(s[i + 2]) + j - 1
      /\ s[i + 1 + n].i = 2
      /\ n > 2 => s[i + 1 + n].end = "many"
      /\ i + 2 + n <= Len(s) => /\ IsHead(s[i + 2 + n]) /\ i + 4 + n <= Len(s)
                                /\ Place(s[i + 4 + n]) = Place(s[i + 1 + n]) + 1
  <2>1. n = s[i].m /\ IsHead(s[i]) /\ i \in 1..Len(s)  BY <1>3
  <2> HIDE DEF n, i
  <2>2. TokenShape(s, i, n)  BY <2>1, TokenParts
  <2> QED  BY <2>2, Zenon DEF TokenShape
<1> HIDE DEF n
<1>5. k + 1 + n <= Len(f)
  <2>1. Len(f) = Len(s) - d /\ Len(s) \in Nat  BY <1>1, LenProperties
  <2>2. n \in Nat /\ k \in Nat /\ (k + d) + 1 + n <= Len(s)  BY <1>3, <1>4
  <2>3. \A x, y, m, l \in Nat : (x + y) + 1 + m <= l => x + 1 + m <= l - y  OBVIOUS
  <2> QED  BY <2>1, <2>2, <2>3
<1>6. ASSUME NEW e \in Nat, k + e <= Len(f) PROVE f[k + e] = s[i + e]
  <2>0. k \in Nat /\ k # 0 /\ Len(f) \in Nat  BY <1>1, <1>3, LenProperties
  <2>1. k + e \in 1..Len(f) /\ (k + e) + d = i + e
    <3>1. \A x, y \in Nat : x # 0 => x + y # 0  OBVIOUS
    <3>2. \A x, y, z \in Nat : (x + y) + z = (x + z) + y  OBVIOUS
    <3> QED  BY <1>6, <2>0, <3>1, <3>2 DEF i
  <2> QED  BY <1>2, <2>1
<1> HIDE DEF i
<1>7. \A j \in 1..n : f[k + 1 + j] = s[i + 1 + j]
  <2> SUFFICES ASSUME NEW j \in 1..n PROVE f[k + 1 + j] = s[i + 1 + j]
    OBVIOUS
  <2>1. /\ 1 + j \in Nat /\ k + (1 + j) <= Len(f)
        /\ k + (1 + j) = k + 1 + j /\ i + (1 + j) = i + 1 + j
    BY <1>1, <1>3, <1>4, <1>5
  <2>2. f[k + (1 + j)] = s[i + (1 + j)]  BY <1>6, <2>1
  <2> QED  BY <2>1, <2>2
<1>8. f[k + 1] = s[i + 1] /\ f[k + 2] = s[i + 2] /\ f[k + 1 + n] = s[i + 1 + n]
  <2>0. n \in Nat /\ n >= 2 /\ k \in Nat /\ i \in Nat  BY <1>3, <1>4
  <2>1. 1 \in 1..n /\ n \in 1..n /\ k + 1 + 1 = k + 2 /\ i + 1 + 1 = i + 2  BY <2>0
  <2>2. k + 1 <= Len(f)  BY <1>1, <1>3, <1>4, <1>5
  <2>3. f[k + 1] = s[i + 1]  BY <1>6, <2>2
  <2>4. f[k + 1 + 1] = s[i + 1 + 1] /\ f[k + 1 + n] = s[i + 1 + n]  BY <1>7, <2>1
  <2> QED  BY <2>1, <2>3, <2>4
<1>9. k + 2 + n <= Len(f) => /\ IsHead(f[k + 2 + n])
                             /\ Place(f[k + 4 + n]) = Place(f[k + 1 + n]) + 1
  <2> SUFFICES ASSUME k + 2 + n <= Len(f)
               PROVE  IsHead(f[k + 2 + n]) /\ Place(f[k + 4 + n]) = Place(f[k + 1 + n]) + 1
    OBVIOUS
  <2>0. n \in Nat /\ k \in Nat /\ Len(s) \in Nat /\ Len(f) = Len(s) - d  BY <1>1, <1>3, <1>4
  <2>a. i = k + d  BY DEF i
  <2>1. i + 2 + n <= Len(s)  BY <2>0, <2>a
  <2>b. i + 4 + n <= Len(s)  BY <1>4, <2>1
  <2>2. k + 4 + n <= Len(f)  BY <2>0, <2>a, <2>b
  <2>3. 2 + n \in Nat /\ 4 + n \in Nat /\ k + (2 + n) = k + 2 + n /\ k + (4 + n) = k + 4 + n
        /\ i + (2 + n) = i + 2 + n /\ i + (4 + n) = i + 4 + n
    BY <1>1, <1>3, <1>4
  <2>4. f[k + (2 + n)] = s[i + (2 + n)] /\ f[k + (4 + n)] = s[i + (4 + n)]
    BY <1>6, <2>2, <2>3
  <2> QED  BY <1>4, <1>8, <2>1, <2>3, <2>4
<1>10. /\ f[k] = Header(n)[1] /\ f[k + 1] = Header(n)[2]
       /\ \A j \in 1..n : /\ f[k + 1 + j].form = "wrapped"
                          /\ Place(f[k + 1 + j]) = Place(f[k + 2]) + j - 1
       /\ f[k + 1 + n].i = 2
       /\ n > 2 => f[k + 1 + n].end = "many"
  BY <1>3, <1>4, <1>7, <1>8
<1> QED  BY <1>4, <1>5, <1>9, <1>10 DEF TokenAt, MessageSize, n

\* The first token of a chain, and the rest.
LEMMA ChainFront ==
    ASSUME NEW s \in Seq(Unit), NEW p \in Int, NEW q \in Int, Chain(s, p, q), s # <<>>,
           NEW n, n = s[1].m
    PROVE  /\ n \in Nat /\ n >= 2 /\ n + 2 <= Len(s)
           /\ s[1] = Header(n)[1] /\ s[2] = Header(n)[2]
           /\ \A j \in 1..n : s[2 + j].form = "wrapped" /\ Place(s[2 + j]) = p + j
           /\ s[n + 2].i = 2
           /\ n > 2 => s[n + 2].end = "many"
           /\ Chain(From(s, n + 3), p + n, q)
<1>0. Len(s) \in Nat /\ Len(s) # 0  BY EmptySeq, LenProperties
<1>1. AllTokens(s)  BY DEF Chain, AllTokens
<1>2. IsHead(s[1]) /\ Place(s[3]) = p + 1 /\ Place(s[Len(s)]) = q  BY DEF Chain
<1>3. 1 \in 1..Len(s)  BY <1>0
<1>4. /\ n \in Nat /\ n >= 2 /\ 1 + 1 + n <= Len(s)
      /\ s[1] = Header(n)[1] /\ s[1 + 1] = Header(n)[2]
      /\ \A j \in 1..n : /\ s[1 + 1 + j].form = "wrapped"
                         /\ Place(s[1 + 1 + j]) = Place(s[1 + 2]) + j - 1
      /\ s[1 + 1 + n].i = 2
      /\ n > 2 => s[1 + 1 + n].end = "many"
      /\ 1 + 2 + n <= Len(s) => /\ IsHead(s[1 + 2 + n]) /\ 1 + 4 + n <= Len(s)
                                /\ Place(s[1 + 4 + n]) = Place(s[1 + 1 + n]) + 1
  <2>1. IsHead(s[1])  BY <1>2
  <2> DEFINE k == 1
  <2> HIDE DEF k
  <2>2. k \in 1..Len(s) /\ IsHead(s[k]) /\ n = s[k].m  BY <1>3, <2>1 DEF k
  <2>3. /\ n \in Nat /\ n >= 2 /\ k + 1 + n <= Len(s)
        /\ s[k] = Header(n)[1] /\ s[k + 1] = Header(n)[2]
        /\ \A j \in 1..n : /\ s[k + 1 + j].form = "wrapped"
                           /\ Place(s[k + 1 + j]) = Place(s[k + 2]) + j - 1
        /\ s[k + 1 + n].i = 2
        /\ n > 2 => s[k + 1 + n].end = "many"
        /\ k + 2 + n <= Len(s) => /\ IsHead(s[k + 2 + n]) /\ k + 4 + n <= Len(s)
                                  /\ Place(s[k + 4 + n]) = Place(s[k + 1 + n]) + 1
    <3>1. TokenShape(s, k, n)  BY <1>1, <2>2, TokenParts
    <3> QED  BY <3>1, Zenon DEF TokenShape
  <2> QED  BY <2>3, Zenon DEF k
<1>5. n \in Nat /\ n >= 2 /\ n + 2 <= Len(s)  BY <1>0, <1>4
<1>6. 1 + 1 = 2 /\ 1 + 2 = 3 /\ 1 + 1 + n = n + 2 /\ 1 + 2 + n = n + 3 /\ 1 + 4 + n = n + 5
  BY <1>5
<1>7. \A j \in 1..n : s[2 + j].form = "wrapped" /\ Place(s[2 + j]) = p + j
  <2> SUFFICES ASSUME NEW j \in 1..n PROVE s[2 + j].form = "wrapped" /\ Place(s[2 + j]) = p + j
    OBVIOUS
  <2>1. s[2 + j].form = "wrapped" /\ Place(s[2 + j]) = Place(s[3]) + j - 1  BY <1>4, <1>6
  <2>2. (p + 1) + j - 1 = p + j  BY <1>5
  <2> QED  BY <1>2, <2>1, <2>2
<1>8. Place(s[n + 2]) = p + n
  <2>1. n \in 1..n /\ 2 + n = n + 2  BY <1>5
  <2> QED  BY <1>7, <2>1
<1> DEFINE f == From(s, n + 3)
<1>9. AllTokens(f)
  <2> DEFINE d == n + 2
  <2>1. d \in Nat /\ d + 1 \in 1..(Len(s) + 1) /\ d + 1 = n + 3  BY <1>0, <1>5
  <2> HIDE DEF d
  <2>2. AllTokens(From(s, d + 1))  BY <1>1, <2>1, TokensFrom
  <2> QED  BY <2>1, <2>2
<1>10. /\ f \in Seq(Unit) /\ Len(f) = Len(s) - n - 2
       /\ \A j \in 1..Len(f) : f[j] = s[j + n + 2]
  <2> DEFINE e == n + 3
  <2>1. e \in Nat /\ e \in 1..(Len(s) + 1)  BY <1>0, <1>5
  <2> HIDE DEF e
  <2>2. /\ From(s, e) \in Seq(Unit) /\ Len(From(s, e)) = Len(s) + 1 - e
        /\ \A j \in 1..(Len(s) + 1 - e) : From(s, e)[j] = s[j + e - 1]
    BY <2>1, FromFacts
  <2>3. Len(s) + 1 - e = Len(s) - n - 2 /\ \A j \in Nat : j + e - 1 = j + n + 2
    <3>1. \A x, y \in Nat : x + 1 - (y + 3) = x - y - 2  OBVIOUS
    <3>2. \A x, y \in Nat : x + (y + 3) - 1 = x + y + 2  OBVIOUS
    <3>3. Len(s) \in Nat /\ n \in Nat  BY <1>0, <1>5
    <3> QED  BY <3>1, <3>2, <3>3 DEF e
  <2>4. \A j \in 1..(Len(s) - n - 2) : j \in Nat  OBVIOUS
  <2> QED  BY <2>2, <2>3, <2>4 DEF e
<1> HIDE DEF f
<1>11. CASE Len(s) = n + 2
  <2>1. Len(f) = 0  BY <1>5, <1>10, <1>11
  <2>2. f = <<>>  BY <1>10, <2>1, EmptySeq
  <2>3. p + n = q  BY <1>2, <1>8, <1>11
  <2>4. Chain(f, p + n, q)  BY <1>9, <2>2, <2>3 DEF Chain, AllTokens
  <2> QED  BY <1>4, <1>5, <1>6, <1>7, <2>4 DEF f
<1>12. CASE Len(s) >= n + 3
  <2>1. IsHead(s[n + 3]) /\ n + 5 <= Len(s) /\ Place(s[n + 5]) = (p + n) + 1
    BY <1>4, <1>6, <1>8, <1>12
  <2>2. Len(f) \in Nat /\ Len(f) >= 3 /\ Len(f) + n + 2 = Len(s)
    <3>1. n + 5 <= Len(s)  BY <2>1
    <3>2. Len(f) = Len(s) - n - 2  BY <1>10
    <3>3. \A l, k \in Nat : \A g : k + 5 <= l /\ g = l - k - 2 =>
                                   g \in Nat /\ g >= 3 /\ g + k + 2 = l
      OBVIOUS
    <3>4. Len(s) \in Nat /\ n \in Nat  BY <1>0, <1>5
    <3> QED  BY <3>1, <3>2, <3>3, <3>4, Zenon
  <2>3. f[1] = s[n + 3] /\ f[3] = s[n + 5] /\ f[Len(f)] = s[Len(s)]
    <3>1. 1 \in 1..Len(f) /\ 3 \in 1..Len(f) /\ Len(f) \in 1..Len(f)  BY <2>2
    <3>2. 1 + n + 2 = n + 3 /\ 3 + n + 2 = n + 5  BY <1>5
    <3> QED  BY <1>10, <2>2, <3>1, <3>2
  <2>4. f # <<>>  BY <2>2
  <2>5. Chain(f, p + n, q)  BY <1>2, <1>9, <2>1, <2>3, <2>4 DEF Chain, AllTokens
  <2> QED  BY <1>4, <1>5, <1>6, <1>7, <2>5 DEF f
<1>13. Len(s) = n + 2 \/ Len(s) >= n + 3  BY <1>0, <1>5
<1> QED  BY <1>11, <1>12, <1>13

\* The units of a new token.
LEMMA WrappedStraight ==
    ASSUME NEW us \in Seq(Unit), NEW q \in Int, Straight(us, q), Len(us) >= 2,
           us[Len(us)].i = 2
    PROVE  LET n == Len(us)
               w == Wrapped(us)
           IN /\ w \in Seq(Unit) /\ Len(w) = n + 2 /\ n \in Nat
              /\ w[1] = Header(n)[1] /\ w[2] = Header(n)[2]
              /\ IsHead(w[1]) /\ w[1].m = n
              /\ \A k \in 1..Len(w) : IsHead(w[k]) => k = 1
              /\ \A j \in 1..n : w[2 + j].form = "wrapped" /\ Place(w[2 + j]) = q + j
              /\ w[2 + n].i = 2
              /\ n > 2 => w[2 + n].end = "many"
<1> DEFINE n == Len(us)
           w == Wrapped(us)
<1>0. n \in Nat /\ n >= 2  BY LenProperties
<1>1. /\ w \in Seq(Unit) /\ Len(w) = 2 + n
      /\ w[1] = Header(n)[1] /\ w[2] = Header(n)[2]
      /\ \A k \in 1..n : w[2 + k] = [form |-> "wrapped", m |-> us[k].m, i |-> us[k].i,
                                     end |-> Mark(us, k)]
  BY WrappedFacts
<1> HIDE DEF w, n
<1>2. \A k \in 1..2 : Header(n)[k] = [form |-> "length", m |-> n, i |-> k, end |-> "no"]
  BY <1>0, HeaderFacts
<1>3. w[1].form = "length" /\ w[1].m = n /\ w[1].i = 1 /\ w[2].i = 2  BY <1>1, <1>2
<1>4. ASSUME NEW j \in 1..n
      PROVE  /\ w[2 + j].form = "wrapped" /\ Place(w[2 + j]) = q + j
             /\ w[2 + j].i = us[j].i /\ w[2 + j].end = Mark(us, j)
  <2>1. w[2 + j] = [form |-> "wrapped", m |-> us[j].m, i |-> us[j].i, end |-> Mark(us, j)]
    BY <1>1
  <2>2. Place(w[2 + j]) = Place(us[j])  BY <2>1 DEF Place
  <2>3. Place(us[j]) = q + j  BY DEF Straight, n
  <2> QED  BY <2>1, <2>2, <2>3
<1>5. ASSUME NEW k \in 1..Len(w), IsHead(w[k]) PROVE k = 1
  <2>1. k \in Nat /\ k \in 1..(2 + n)  BY <1>0, <1>1
  <2>2. k # 2  BY <1>3, <1>5 DEF IsHead
  <2>3. ASSUME k \in 3..(2 + n) PROVE FALSE
    <3> DEFINE j == k - 2
    <3>1. j \in 1..n /\ k = 2 + j  BY <1>0, <2>3
    <3> HIDE DEF j
    <3>2. w[2 + j].form = "wrapped"  BY <1>4, <3>1
    <3> QED  BY <1>5, <3>1, <3>2 DEF IsHead
  <2> QED  BY <1>0, <2>1, <2>2, <2>3
<1>6. n \in 1..n /\ 1 \in 1..n  BY <1>0
<1>7. w[2 + n].i = 2  BY <1>4, <1>6 DEF n
<1>8. ASSUME n > 2 PROVE w[2 + n].end = "many"
  <2>1. us[1] \in Unit /\ us[n] \in Unit  BY <1>6 DEF n
  <2>2. Place(us[1]) = q + 1 /\ Place(us[n]) = q + n  BY <1>6 DEF Straight, n
  <2>3. /\ Place(us[1]) = 2 * (us[1].m - 1) + us[1].i /\ us[1].m \in Nat /\ us[1].i \in 1..2
        /\ Place(us[n]) = 2 * (us[n].m - 1) + us[n].i /\ us[n].m \in Nat /\ us[n].i \in 1..2
    BY <2>1, PlaceFacts
  <2>4. us[1].m # us[n].m
    <3> DEFINE a == us[1].m
               b == us[n].m
               c == us[1].i
               d == us[n].i
    <3>1. /\ q + 1 = 2 * (a - 1) + c /\ a \in Nat /\ c \in 1..2
          /\ q + n = 2 * (b - 1) + d /\ b \in Nat /\ d \in 1..2
      BY <2>2, <2>3
    <3> HIDE DEF a, b, c, d
    <3>2. a # b  BY <1>0, <1>8, <3>1
    <3> QED  BY <3>2 DEF a, b
  <2>5. Mark(us, n) = "many"
    <3>1. ~(n < n)  BY <1>0
    <3> QED  BY <2>4, <3>1 DEF Mark, n
  <2> QED  BY <1>4, <1>6, <2>5
<1>9. 2 + n = n + 2  BY <1>0
<1>10. IsHead(w[1])  BY <1>3 DEF IsHead
<1> QED  BY <1>0, <1>1, <1>3, <1>4, <1>5, <1>7, <1>8, <1>9, <1>10 DEF n, w

\* A token added to a chain.
LEMMA ChainAppend ==
    ASSUME NEW s \in Seq(Unit), NEW us \in Seq(Unit), NEW p \in Int, NEW q \in Int,
           Chain(s, p, q), Straight(us, q), Len(us) >= 2, us[Len(us)].i = 2
    PROVE  Chain(s \o Wrapped(us), p, q + Len(us))
<1> DEFINE n == Len(us)
           w == Wrapped(us)
           l == Len(s)
           c == s \o w
<1>1. /\ w \in Seq(Unit) /\ Len(w) = n + 2 /\ n \in Nat
      /\ w[1] = Header(n)[1] /\ w[2] = Header(n)[2]
      /\ IsHead(w[1]) /\ w[1].m = n
      /\ \A k \in 1..Len(w) : IsHead(w[k]) => k = 1
      /\ \A j \in 1..n : w[2 + j].form = "wrapped" /\ Place(w[2 + j]) = q + j
      /\ w[2 + n].i = 2
      /\ n > 2 => w[2 + n].end = "many"
  BY WrappedStraight
<1>2. n \in Nat /\ n >= 2 /\ l \in Nat  BY LenProperties
<1> HIDE DEF w, n
<1>3. /\ c \in Seq(Unit) /\ Len(c) = l + Len(w)
      /\ \A j \in 1..l : c[j] = s[j]
      /\ \A j \in 1..Len(w) : c[l + j] = w[j]
  <2>1. w \in Seq(Unit)  BY <1>1
  <2> QED  BY <2>1, ConcatFacts
<1>4. AllTokens(s)  BY DEF Chain, AllTokens
<1> HIDE DEF c, l
<1>5. Len(c) = l + n + 2 /\ \A j \in 1..(n + 2) : c[l + j] = w[j]
  <2>1. Len(w) = n + 2 /\ Len(c) = l + Len(w)  BY <1>1, <1>3
  <2>2. l + (n + 2) = l + n + 2  BY <1>2
  <2> QED  BY <1>3, <2>1, <2>2
<1>6. c[l + 1] = w[1] /\ c[l + 2] = w[2] /\ c[l + 3] = w[3] /\ Place(c[l + 3]) = q + 1
  <2>1. 1 \in 1..(n + 2) /\ 2 \in 1..(n + 2) /\ 3 \in 1..(n + 2) /\ 1 \in 1..n /\ 2 + 1 = 3
    BY <1>2
  <2>2. Place(w[3]) = q + 1  BY <1>1, <2>1
  <2> QED  BY <1>5, <2>1, <2>2
<1>7. \A j \in 1..n : /\ c[l + 2 + j].form = "wrapped" /\ Place(c[l + 2 + j]) = q + j
                      /\ c[l + 2 + j] = w[2 + j]
  <2> SUFFICES ASSUME NEW j \in 1..n
               PROVE  /\ c[l + 2 + j].form = "wrapped" /\ Place(c[l + 2 + j]) = q + j
                      /\ c[l + 2 + j] = w[2 + j]
    OBVIOUS
  <2>1. 2 + j \in 1..(n + 2) /\ l + (2 + j) = l + 2 + j  BY <1>2
  <2>2. c[l + (2 + j)] = w[2 + j]  BY <1>5, <2>1
  <2> QED  BY <1>1, <2>1, <2>2
<1>8. /\ Place(c[l + 2 + n]) = q + n /\ c[l + 2 + n].i = 2
      /\ n > 2 => c[l + 2 + n].end = "many"
  <2>1. n \in 1..n  BY <1>2
  <2>2. c[l + 2 + n] = w[2 + n] /\ Place(c[l + 2 + n]) = q + n  BY <1>7, <2>1
  <2> QED  BY <1>1, <2>2
<1>9. TokenAt(c, l + 1)
  <2> DEFINE k == l + 1
  <2>1. /\ k + 1 = l + 2 /\ k + 2 = l + 3 /\ k + 1 + n = l + 2 + n /\ k + 1 + n <= Len(c)
        /\ ~(k + 2 + n <= Len(c)) /\ \A j \in 1..n : k + 1 + j = l + 2 + j
    BY <1>2, <1>5
  <2>2. c[k].m = n /\ c[k] = Header(n)[1] /\ c[k + 1] = Header(n)[2]
    BY <1>1, <1>6, <2>1
  <2>3. \A j \in 1..n : /\ c[k + 1 + j].form = "wrapped"
                        /\ Place(c[k + 1 + j]) = Place(c[k + 2]) + j - 1
    <3> SUFFICES ASSUME NEW j \in 1..n
                 PROVE  /\ c[k + 1 + j].form = "wrapped"
                        /\ Place(c[k + 1 + j]) = Place(c[k + 2]) + j - 1
      OBVIOUS
    <3>1. c[k + 1 + j].form = "wrapped" /\ Place(c[k + 1 + j]) = q + j  BY <1>7, <2>1
    <3>2. Place(c[k + 2]) = q + 1  BY <1>6, <2>1
    <3>3. (q + 1) + j - 1 = q + j  OBVIOUS
    <3> QED  BY <3>1, <3>2, <3>3
  <2>4. c[k + 1 + n].i = 2 /\ (n > 2 => c[k + 1 + n].end = "many")  BY <1>8, <2>1
  <2> HIDE DEF k
  <2>5. TokenAt(c, k)  BY <1>2, <2>1, <2>2, <2>3, <2>4 DEF TokenAt, MessageSize
  <2> QED  BY <2>5 DEF k
<1>10. ASSUME NEW k \in 1..Len(c), IsHead(c[k]) PROVE TokenAt(c, k)
  <2>1. CASE k \in 1..l
    <3> DEFINE m == s[k].m
    <3>0. c[k] = s[k] /\ IsHead(s[k]) /\ k \in 1..Len(s) /\ k \in Nat
      BY <1>2, <1>3, <1>10, <2>1 DEF l
    <3>1. /\ m \in Nat /\ m >= 2 /\ k + 1 + m <= Len(s)
          /\ s[k] = Header(m)[1] /\ s[k + 1] = Header(m)[2]
          /\ \A j \in 1..m : /\ s[k + 1 + j].form = "wrapped"
                             /\ Place(s[k + 1 + j]) = Place(s[k + 2]) + j - 1
          /\ s[k + 1 + m].i = 2
          /\ m > 2 => s[k + 1 + m].end = "many"
          /\ k + 2 + m <= Len(s) => /\ IsHead(s[k + 2 + m]) /\ k + 4 + m <= Len(s)
                                    /\ Place(s[k + 4 + m]) = Place(s[k + 1 + m]) + 1
      <4>1. m = s[k].m  OBVIOUS
      <4> HIDE DEF m
      <4>2. TokenShape(s, k, m)  BY <1>4, <3>0, <4>1, TokenParts
      <4> QED  BY <4>2, Zenon DEF TokenShape
    <3>2. c[k].m = m  BY <3>0
    <3> HIDE DEF m
    <3>3. m \in Nat /\ m >= 2 /\ k + 1 + m <= l  BY <3>1 DEF l
    <3>4. ASSUME NEW e \in Nat, k + e <= l PROVE c[k + e] = s[k + e]
      <4>1. k + e \in 1..l  BY <1>2, <3>0, <3>4
      <4> QED  BY <1>3, <4>1
    <3>5. \A j \in 1..m : c[k + 1 + j] = s[k + 1 + j]
      <4> SUFFICES ASSUME NEW j \in 1..m PROVE c[k + 1 + j] = s[k + 1 + j]
        OBVIOUS
      <4>1. 1 + j \in Nat /\ k + (1 + j) <= l /\ k + (1 + j) = k + 1 + j
        BY <1>2, <3>0, <3>3
      <4>2. c[k + (1 + j)] = s[k + (1 + j)]  BY <3>4, <4>1
      <4> QED  BY <4>1, <4>2
    <3>6. c[k + 1] = s[k + 1] /\ c[k + 2] = s[k + 2] /\ c[k + 1 + m] = s[k + 1 + m]
      <4>1. 1 \in 1..m /\ m \in 1..m /\ k + 1 + 1 = k + 2 /\ k + 1 <= l  BY <1>2, <3>0, <3>3
      <4>2. c[k + 1] = s[k + 1]  BY <3>4, <4>1
      <4>3. c[k + 1 + 1] = s[k + 1 + 1] /\ c[k + 1 + m] = s[k + 1 + m]  BY <3>5, <4>1
      <4> QED  BY <4>1, <4>2, <4>3
    <3>7. k + 2 + m <= Len(c) => /\ IsHead(c[k + 2 + m])
                                 /\ Place(c[k + 4 + m]) = Place(c[k + 1 + m]) + 1
      <4>1. CASE k + 2 + m <= l
        <5>1. /\ IsHead(s[k + 2 + m]) /\ k + 4 + m <= l
              /\ Place(s[k + 4 + m]) = Place(s[k + 1 + m]) + 1
          BY <3>1, <4>1 DEF l
        <5>2. /\ 2 + m \in Nat /\ 4 + m \in Nat /\ k + (2 + m) = k + 2 + m
              /\ k + (4 + m) = k + 4 + m
          BY <3>0, <3>3
        <5>3. c[k + (2 + m)] = s[k + (2 + m)] /\ c[k + (4 + m)] = s[k + (4 + m)]
          BY <3>4, <4>1, <5>1, <5>2
        <5> QED  BY <3>6, <5>1, <5>2, <5>3
      <4>2. CASE k + 1 + m = l
        <5>1. k + 2 + m = l + 1 /\ k + 4 + m = l + 3  BY <1>2, <3>0, <3>3, <4>2
        <5>2. s # <<>>  BY <3>0, EmptySeq
        <5>3. Place(s[l]) = q  BY <5>2 DEF Chain, l
        <5> QED  BY <1>1, <1>6, <3>6, <4>2, <5>1, <5>3
      <4>3. k + 2 + m <= l \/ k + 1 + m = l  BY <1>2, <3>0, <3>3
      <4> QED  BY <4>1, <4>2, <4>3
    <3>8. k + 1 + m <= Len(c)  BY <1>2, <1>5, <3>0, <3>3
    <3>9. /\ c[k] = Header(m)[1] /\ c[k + 1] = Header(m)[2]
          /\ \A j \in 1..m : /\ c[k + 1 + j].form = "wrapped"
                             /\ Place(c[k + 1 + j]) = Place(c[k + 2]) + j - 1
          /\ c[k + 1 + m].i = 2
          /\ m > 2 => c[k + 1 + m].end = "many"
      BY <3>0, <3>1, <3>5, <3>6
    <3> QED  BY <3>2, <3>3, <3>7, <3>8, <3>9 DEF TokenAt, MessageSize
  <2>2. CASE k > l
    <3> DEFINE j == k - l
    <3>1. j \in 1..(n + 2) /\ k = l + j  BY <1>2, <1>5, <2>2
    <3> HIDE DEF j
    <3>2. IsHead(w[j])  BY <1>5, <1>10, <3>1
    <3>3. j = 1  BY <1>1, <3>1, <3>2
    <3> QED  BY <1>9, <3>1, <3>3
  <2> QED  BY <1>2, <1>5, <2>1, <2>2
<1>11. c # <<>>  BY <1>2, <1>3, <1>5
<1>12. IsHead(c[1]) /\ Place(c[3]) = p + 1
  <2>1. CASE s = <<>>
    <3>1. l = 0 /\ p = q  BY <2>1 DEF l, Chain
    <3>2. l + 1 = 1 /\ l + 3 = 3  BY <3>1
    <3> QED  BY <1>1, <1>6, <3>1, <3>2
  <2>2. CASE s # <<>>
    <3>1. /\ s[1].m + 2 <= Len(s) /\ s[1].m \in Nat /\ s[1].m >= 2
      <4> DEFINE m == s[1].m
      <4> HIDE DEF m
      <4>1. m = s[1].m  BY DEF m
      <4>2. m \in Nat /\ m >= 2 /\ m + 2 <= Len(s)  BY <2>2, <4>1, ChainFront
      <4> QED  BY <4>2 DEF m
    <3>2. 1 \in 1..l /\ 3 \in 1..l
      <4> DEFINE m == s[1].m
      <4>1. m + 2 <= l /\ m \in Nat /\ m >= 2  BY <3>1 DEF l
      <4> HIDE DEF m
      <4> QED  BY <1>2, <4>1
    <3>3. c[1] = s[1] /\ c[3] = s[3]  BY <1>3, <3>2
    <3> QED  BY <2>2, <3>3 DEF Chain
  <2> QED  BY <2>1, <2>2
<1>13. Place(c[Len(c)]) = q + n
  <2>1. Len(c) = l + 2 + n  BY <1>2, <1>5
  <2> QED  BY <1>8, <2>1
<1>14. Chain(c, p, q + n)  BY <1>10, <1>11, <1>12, <1>13 DEF Chain
<1> QED  BY <1>14 DEF c, w, n

-----------------------------------------------------------------------------
(* The steps *)

\* Neither a bad cut nor an ended driver is undone.
LEMMA OrderlyBack ==
    ASSUME FlagType, [Next]_vars
    PROVE  /\ Orderly' => Orderly
           /\ drv # "running" => drv' = drv
<1> USE DEF Orderly, params, codec, server, history, vars
<1>1. CASE Aside
  <2>1. untidy' = untidy  BY <1>1, AsideFrame
  <2>2. /\ torn => torn'
        /\ drv # "running" => drv' = drv
    <3>1. CASE Binding
      BY <3>1 DEF Binding, BindBegins, BindSteps, BindChooses, BindSetsParam, BindSetsCtx,
                  BindFails, BindLost, Returns, Requests, Encode
    <3>2. CASE BindDropped
      <4>1. torn' = (torn \/ bind = "third") /\ drv' = drv  BY <3>2 DEF BindDropped, Returns
      <4> QED  BY <4>1
    <3>4. CASE Misunderstands \/ Breaks \/ UNCHANGED vars
      BY <3>4 DEF Misunderstands, Breaks
    <3>3. CASE \E size \in 1..MessageSize : Send(size)
      BY <3>3 DEF Send, Encode
    <3> QED  BY <1>1, <3>1, <3>2, <3>3, <3>4 DEF Aside
  <2> QED  BY <2>1, <2>2
<1>2. CASE Decoding  BY <1>2, DecodeFrame
<1>3. CASE Read  BY <1>3 DEF Read
<1>4. CASE Serve  BY <1>4 DEF Serve
<1>5. CASE MakeToken  BY <1>5 DEF MakeToken
<1>6. CASE Notify  BY <1>6 DEF Notify
<1> QED  BY <1>1, <1>2, <1>3, <1>4, <1>5, <1>6, NextCases

LEMMA StreamInit == Init => Stream
<1> SUFFICES ASSUME Init PROVE Stream
  OBVIOUS
<1>1. Transit = <<>> /\ buf = <<>> /\ wire = <<>> /\ pend = <<>> /\ got = <<>> /\ ans = <<>>
  BY DEF Init, Transit
<1>2. Taken = 0 /\ Sent = 0  BY <1>1 DEF Taken, Sent, MessageSize
<1>3. ~wrap /\ ~layer /\ ~decoded /\ drv = "running"  BY DEF Init
<1>4. Numbers  BY <1>1 DEF Numbers
<1>5. Pending  BY <1>1, <1>3 DEF Pending, Straight, MessageSize
<1>6. Underway  BY <1>1, <1>2, <1>3 DEF Underway, Straight
<1>7. Cuts  BY <1>1 DEF Cuts
<1>8. Boundary  BY <1>3 DEF Boundary
<1> QED  BY <1>3, <1>4, <1>5, <1>6, <1>7, <1>8 DEF Stream, Whole

\* What the bind and the requests may do to the state of the switch.
LEMMA AsideShape ==
    ASSUME Agreed, Aside
    PROVE  /\ wrap => wrap'
           /\ wrap' => wrap \/ (bind = "third" /\ reply = "ok" /\ ~has_tls)
           /\ layer /\ bind' = "third" => bind = "third" /\ reply' = reply
           /\ bind' = "param" => bind = "param" \/ (bind = "third" /\ reply = "ok")
           /\ drv' \in {drv, "closed", "toolarge"} \/ torn'
<1> USE DEF params, codec, server, history, vars
<1>0. /\ wrap <=> bind \in {"param", "bound"} /\ ~has_tls
      /\ ctx <=> bind = "bound"
      /\ bind \in {"idle", "first", "second", "returned"} => ~layer
  BY DEF Agreed, Exchange
<1>1. CASE BindBegins \/ BindSteps \/ BindChooses
  <2>1. /\ bind \in {"idle", "first", "second"} /\ wrap' = wrap
        /\ bind' # "param" /\ \/ drv' = drv
                              \/ Encode("first", 1, "none") \/ Encode("second", 1, "none")
                              \/ Encode("third", 1, NeededLayer)
    BY <1>1 DEF BindBegins, BindSteps, BindChooses, Returns, Requests
  <2>2. ~wrap /\ ~layer  BY <1>0, <2>1
  <2>3. drv' = drv  BY <2>1, <2>2 DEF Encode
  <2> QED  BY <2>1, <2>2, <2>3
<1>2. CASE BindSetsParam
  <2>1. /\ bind = "third" /\ reply = "ok" /\ drv' = drv /\ bind' # "third"
        /\ wrap' = wrap \/ wrap' = (wrap \/ Installs)
    BY <1>2 DEF BindSetsParam
  <2>2. Installs <=> ~has_tls  BY DEF Installs, NeededLayer
  <2>a. wrap' = wrap \/ wrap' = (wrap \/ Installs)  BY <2>1
  <2>3. (wrap => wrap') /\ (wrap' => wrap \/ ~has_tls)
    <3>1. CASE wrap' = wrap  BY <3>1, Zenon
    <3>2. CASE wrap' = (wrap \/ Installs)  BY <2>2, <3>2, Zenon
    <3> QED  BY <2>a, <3>1, <3>2
  <2> QED  BY <2>1, <2>3, Zenon
<1>3. CASE BindSetsCtx \/ BindFails \/ BindLost \/ BindDropped
  <2>1. wrap' = wrap /\ drv' = drv /\ bind' \in {"bound", "returned", "error", "dropped"}
    BY <1>3 DEF BindSetsCtx, BindFails, BindLost, BindDropped, Returns
  <2> QED  BY <2>1
<1>4. ASSUME NEW size \in 1..MessageSize, Send(size)
      PROVE  /\ wrap' = wrap /\ bind' = bind /\ reply' = reply
             /\ drv' \in {drv, "closed", "toolarge"} \/ torn'
  <2>1. /\ wrap' = wrap /\ bind' = bind /\ reply' = reply /\ Encode("op", size, "none")
        /\ torn' = (torn \/ bind \in {"third", "param"})
    BY <1>4 DEF Send
  <2>2. wrap /\ ~ctx => bind = "param"  BY <1>0
  <2>3. drv' \in {drv, "toolarge"} \/ (wrap /\ ~ctx)  BY <2>1 DEF Encode
  <2> QED  BY <2>1, <2>2, <2>3
<1>5. CASE Misunderstands \/ Breaks \/ UNCHANGED vars
  <2>1. wrap' = wrap /\ bind' = bind /\ reply' = reply /\ drv' \in {drv, "closed"}
    BY <1>5 DEF Misunderstands, Breaks
  <2> QED  BY <2>1
<1> QED  BY <1>1, <1>2, <1>3, <1>4, <1>5 DEF Aside, Binding

\* The binding task switches the layer on when nothing is left in the clear.
LEMMA StreamAside ==
    ASSUME Agreed, Agreed', Stream, Orderly, Orderly', Aside
    PROVE  Stream'
<1>1. UNCHANGED <<buf, decoded, starved, got, wire, layer, ans, pend>>  BY AsideFrame
<1>2. Transit' = Transit /\ Live' = Live  BY AsideTransit
<1>3. Taken' = Taken /\ Sent' = Sent  BY <1>1 DEF Taken, Sent
<1>4. /\ wrap => wrap'
      /\ wrap' => wrap \/ (bind = "third" /\ reply = "ok" /\ ~has_tls)
      /\ layer /\ bind' = "third" => bind = "third" /\ reply' = reply
      /\ bind' = "param" => bind = "param" \/ (bind = "third" /\ reply = "ok")
      /\ drv' \in {drv, "closed", "toolarge"}
  BY AsideShape DEF Orderly
<1>5. Numbers /\ drv \in {"running", "closed", "toolarge"} /\ (drv = "running" => Whole)
  BY DEF Stream
<1>6. Numbers' /\ drv' \in {"running", "closed", "toolarge"}  BY <1>1, <1>4, <1>5 DEF Numbers
<1>7. ASSUME drv' = "running" PROVE Whole'
  <2>0. drv = "running" /\ Pending /\ Underway /\ Cuts /\ Boundary
    BY <1>4, <1>5, <1>7 DEF Whole
  <2>a. wrap <=> bind \in {"param", "bound"} /\ ~has_tls  BY DEF Agreed, Exchange
  <2>1. wrap' = wrap \/ (~wrap /\ bind = "third" /\ reply = "ok" /\ ~has_tls)
    <3>1. wrap \in BOOLEAN /\ wrap' \in BOOLEAN
      BY DEF Agreed, Types, FlagType
    <3> QED  BY <1>4, <3>1, Zenon
  <2>2. ASSUME ~wrap, bind = "third", reply = "ok", ~has_tls
        PROVE  /\ Transit = <<>> /\ pend = <<>> /\ Taken = Sent /\ ~decoded
               /\ Chain(Transit, Taken, Sent)
    <3>1. layer
      <4>1. Round  BY <2>2 DEF Agreed, Exchange, Waiting
      <4> QED  BY <2>2, <4>1 DEF Round, Settles
    <3>2. Transit = <<>>  BY <2>0, <2>2, <3>1 DEF Boundary
    <3>3. pend = <<>>  BY <2>0, <2>2 DEF Pending
    <3>4. Len(Transit) = Sent - Taken  BY <2>0, <2>2 DEF Underway
    <3>5. Taken \in Int /\ Sent \in Int
      <4>1. Len(got) \in Nat /\ Len(ans) \in Nat /\ Len(pend) \in Nat
        BY LenProperties DEF Agreed, Types, UnitType
      <4> QED  BY <4>1 DEF Taken, Sent, MessageSize
    <3>6. Taken = Sent  BY <3>2, <3>4, <3>5
    <3>7. ~decoded  BY <2>2 DEF Agreed, Types, SizeType
    <3>8. Chain(Transit, Taken, Sent)  BY <3>2, <3>6 DEF Chain
    <3> QED  BY <3>2, <3>3, <3>6, <3>7, <3>8
  <2>3. Pending'
    <3>1. Straight(pend, Sent) /\ Len(pend) % MessageSize = 0 /\ (~wrap => pend = <<>>)
      BY <2>0 DEF Pending
    <3>2. Straight(pend', Sent') /\ Len(pend') % MessageSize = 0 /\ (~wrap' => pend' = <<>>)
      BY <1>1, <1>3, <1>4, <3>1
    <3> QED  BY <3>2 DEF Pending, Straight
  <2>4. Underway'
    <3>1. /\ ~wrap => Straight(Transit, Taken) /\ Len(Transit) = Sent - Taken
          /\ wrap /\ ~decoded => Chain(Transit, Taken, Sent)
          /\ decoded => /\ buf # <<>> /\ ~starved
                        /\ Straight(buf, Taken) /\ Len(buf) % MessageSize = 0
                        /\ Chain(wire, Taken + Len(buf), Sent)
      BY <2>0 DEF Underway
    <3>2. /\ ~wrap' => Straight(Transit', Taken') /\ Len(Transit') = Sent' - Taken'
          /\ wrap' /\ ~decoded' => Chain(Transit', Taken', Sent')
          /\ decoded' => /\ buf' # <<>> /\ ~starved'
                         /\ Straight(buf', Taken') /\ Len(buf') % MessageSize = 0
                         /\ Chain(wire', Taken' + Len(buf'), Sent')
      <4> HIDE DEF Transit, Taken, Sent, Straight, Chain
      <4> QED  BY <1>1, <1>2, <1>3, <1>4, <2>1, <2>2, <3>1
    <3> QED  BY <3>2 DEF Underway, Straight, Chain, TokenAt
  <2>5. Cuts'  BY <1>1, <2>0 DEF Cuts
  <2>6. Boundary'
    <3>1. ASSUME layer', bind' = "third"
          PROVE  Live' \subseteq {Len(ans')} /\ (reply' # "none" => Transit' = <<>>)
      <4>1. layer /\ bind = "third" /\ reply' = reply  BY <1>1, <1>4, <3>1
      <4> QED  BY <1>1, <1>2, <2>0, <4>1 DEF Boundary
    <3>2. ASSUME wrap', bind' = "param" PROVE Transit' = <<>> /\ pend' = <<>>
      <4>1. CASE wrap
        <5>1. bind = "param"  BY <1>4, <2>a, <3>2, <4>1
        <5> QED  BY <1>1, <1>2, <2>0, <4>1, <5>1 DEF Boundary
      <4>2. CASE ~wrap  BY <1>1, <1>2, <1>4, <2>2, <3>2, <4>2
      <4> QED  BY <4>1, <4>2
    <3> HIDE DEF Live, Transit
    <3> QED  BY <3>1, <3>2 DEF Boundary
  <2> QED  BY <2>3, <2>4, <2>5, <2>6 DEF Whole
<1> QED  BY <1>6, <1>7 DEF Stream

\* A read moves octets from the network into the buffer.
LEMMA StreamRead ==
    ASSUME Agreed, Stream, Orderly, Orderly', Read
    PROVE  Stream'
<1>1. /\ drv = "running" /\ starved /\ ~untidy'
      /\ UNCHANGED <<bind, reply, wrap, drv, decoded, got, layer, ans, pend>>
      /\ untidy' = (untidy \/ CutInLength(wire') \/ BehindMany(buf'))
  BY DEF Read, Orderly, params, server
<1>2. Transit' = Transit  BY ReadTransit DEF Agreed
<1>3. Taken' = Taken /\ Sent' = Sent  BY <1>1 DEF Taken, Sent
<1>4. Live' = Live  BY <1>1, <1>2 DEF Live, Firsts
<1>5. Numbers /\ Pending /\ Underway /\ Cuts /\ Boundary  BY <1>1 DEF Stream, Whole
<1>6. ~decoded  BY <1>1, <1>5 DEF Underway
<1>7. Numbers'  BY <1>1, <1>5 DEF Numbers
<1>8. Pending'
  <2>1. Straight(pend', Sent') /\ Len(pend') % MessageSize = 0 /\ (~wrap' => pend' = <<>>)
    BY <1>1, <1>3, <1>5 DEF Pending
  <2> QED  BY <2>1 DEF Pending, Straight
<1>9. Underway'
  <2>1. /\ ~wrap => Straight(Transit, Taken) /\ Len(Transit) = Sent - Taken
        /\ wrap /\ ~decoded => Chain(Transit, Taken, Sent)
    BY <1>5 DEF Underway
  <2> HIDE DEF Transit, Taken, Sent, Straight, Chain
  <2>2. /\ ~wrap' => Straight(Transit', Taken') /\ Len(Transit') = Sent' - Taken'
        /\ wrap' /\ ~decoded' => Chain(Transit', Taken', Sent')
        /\ ~decoded'
    BY <1>1, <1>2, <1>3, <1>6, <2>1
  <2> QED  BY <2>2 DEF Underway, Straight, Chain, TokenAt
<1>10. Cuts'
  <2>1. ~CutInLength(wire') /\ ~BehindMany(buf')  BY <1>1
  <2>2. wire' # <<>> => ~(wire'[1].form = "length" /\ wire'[1].i = 2)
    BY <2>1 DEF CutInLength
  <2>3. \A k \in 1..(Len(buf') - 1) : buf'[k].end # "many"  BY <2>1 DEF BehindMany
  <2> QED  BY <2>2, <2>3 DEF Cuts
<1>11. Boundary'
  <2> HIDE DEF Live, Transit
  <2> QED  BY <1>1, <1>2, <1>4, <1>5 DEF Boundary
<1> QED  BY <1>1, <1>7, <1>8, <1>9, <1>10, <1>11 DEF Stream, Whole

\* A token of whole messages continues the chain.
LEMMA StreamMakeToken ==
    ASSUME Agreed, Stream, Orderly, Orderly', MakeToken
    PROVE  Stream'
<1>1. /\ UNCHANGED <<bind, reply, wrap, drv, buf, decoded, starved, got, layer, ans>>
      /\ pend # <<>>
  BY DEF MakeToken, params, codec
<1>2. PICK t \in TokenSizes :
        LET k == Least(t, Len(pend)) IN
        /\ wire' = wire \o Wrapped(SubSeq(pend, 1, k)) /\ pend' = From(pend, k + 1)
        /\ untidy' = (untidy \/ pend[k].i < MessageSize)
  BY DEF MakeToken
<1> DEFINE n == Least(t, Len(pend))
           us == SubSeq(pend, 1, n)
<1>3. /\ wire' = wire \o Wrapped(us) /\ pend' = From(pend, n + 1)
      /\ ~(pend[n].i < 2)
  BY <1>2 DEF Orderly, MessageSize
<1>4. pend \in Seq(Unit) /\ wire \in Seq(Unit) /\ buf \in Seq(Unit)
  BY DEF Agreed, Types, UnitType
<1>5. /\ n \in Nat /\ n \in 1..Len(pend) /\ us \in Seq(Unit) /\ Len(us) = n
      /\ \A j \in 1..n : us[j] = pend[j]
      /\ n + 1 \in Nat /\ n + 1 \in 1..(Len(pend) + 1)
  BY <1>1, <1>4, TokenPrefix
<1> HIDE DEF n, us
<1>6. Len(got) \in Nat /\ Len(ans) \in Nat /\ Len(pend) \in Nat /\ Len(buf) \in Nat
  BY LenProperties DEF Agreed, Types, UnitType
<1>7. /\ From(pend, n + 1) \in Seq(Unit)
      /\ Len(From(pend, n + 1)) = Len(pend) - n
  <2> DEFINE f == n + 1
  <2>1. f \in Nat /\ f \in 1..(Len(pend) + 1)  BY <1>5
  <2>2. Len(pend) + 1 - f = Len(pend) - n  BY <1>5, <1>6
  <2> HIDE DEF f
  <2>3. From(pend, f) \in Seq(Unit) /\ Len(From(pend, f)) = Len(pend) + 1 - f
    BY <1>4, <2>1, FromFacts
  <2> QED  BY <2>2, <2>3 DEF f
<1>8. Len(pend') = Len(pend) - n  BY <1>3, <1>7
<1>9. Taken' = Taken /\ Sent' = Sent + n /\ Taken \in Int /\ Sent \in Int
  <2>1. Taken' = Taken /\ Sent' = MessageSize * Len(ans) - Len(pend')
    BY <1>1 DEF Taken, Sent
  <2>2. Taken \in Int /\ Sent \in Int  BY <1>6 DEF Taken, Sent, MessageSize
  <2> DEFINE a == Len(ans)
             p == Len(pend)
  <2>3. 2 * a - (p - n) = (2 * a - p) + n
    <3>1. a \in Nat /\ p \in Nat /\ n \in Nat  BY <1>5, <1>6
    <3> HIDE DEF a, p
    <3> QED  BY <3>1
  <2>4. Sent = 2 * a - p  BY DEF Sent, MessageSize
  <2>5. Sent' = 2 * a - (p - n)  BY <1>8, <2>1 DEF MessageSize
  <2> QED  BY <2>1, <2>2, <2>3, <2>4, <2>5
<1>10. Numbers /\ drv \in {"running", "closed", "toolarge"} /\ (drv = "running" => Whole)
  BY DEF Stream
<1>11. Numbers'  BY <1>1, <1>10 DEF Numbers
<1>12. ASSUME drv = "running" PROVE Whole'
  <2>0. Pending /\ Underway /\ Cuts /\ Boundary  BY <1>10, <1>12 DEF Whole
  <2>1. Straight(pend, Sent) /\ Len(pend) % 2 = 0 /\ wrap
    BY <1>1, <2>0 DEF Pending, MessageSize
  <2>2. pend[n] \in Unit /\ Place(pend[n]) = Sent + n
    BY <1>4, <1>5, <2>1 DEF Straight
  <2>3. pend[n].i = 2
    <3>1. pend[n].i \in 1..2  BY <2>2, PlaceFacts
    <3>2. \A x \in 1..2 : ~(x < 2) => x = 2  OBVIOUS
    <3> QED  BY <1>3, <3>1, <3>2
  <2>4. n % 2 = 0
    <3>1. (Sent + n) % 2 = 0  BY <2>2, <2>3, PlaceFacts
    <3> DEFINE a == Len(ans)
               p == Len(pend)
    <3>2. (2 * a - p + n) % 2 = 0  BY <3>1 DEF Sent, MessageSize
    <3>3. a \in Nat /\ p \in Nat /\ p % 2 = 0  BY <1>6, <2>1
    <3> HIDE DEF a, p
    <3> QED  BY <1>5, <3>2, <3>3
  <2>5. n >= 2 /\ (Len(pend) - n) % 2 = 0
    <3> DEFINE p == Len(pend)
    <3>1. p \in Nat /\ p % 2 = 0 /\ n \in 1..p  BY <1>5, <1>6, <2>1
    <3> HIDE DEF p
    <3>2. \A x, y \in Nat : x % 2 = 0 /\ y % 2 = 0 /\ y # 0 => y >= 2 /\ (x - y) % 2 = 0
      OBVIOUS
    <3>3. n \in Nat /\ n # 0  BY <3>1
    <3> QED  BY <2>4, <3>1, <3>2, <3>3 DEF p
  <2>6. Straight(us, Sent)
    <3>1. \A j \in 1..n : j \in 1..Len(pend)  BY <1>5, <1>6
    <3> QED  BY <1>5, <2>1, <3>1 DEF Straight
  <2>7. us[n].i = 2
    <3>1. n \in 1..n  BY <1>5
    <3> QED  BY <1>5, <2>3, <3>1
  <2>8. ASSUME NEW s \in Seq(Unit), NEW p \in Int, Chain(s, p, Sent)
        PROVE  Chain(s \o Wrapped(us), p, Sent + n)
    <3>1. us \in Seq(Unit) /\ Len(us) >= 2 /\ us[Len(us)].i = 2 /\ Sent \in Int
      BY <1>5, <1>9, <2>5, <2>7
    <3>2. Chain(s \o Wrapped(us), p, Sent + Len(us))
      BY <2>6, <2>8, <3>1, ChainAppend
    <3> QED  BY <1>5, <3>2
  <2>9. Pending'
    <3>1. Straight(From(pend, n + 1), Sent + n)
      <4> DEFINE f == n + 1
      <4>1. f \in Nat /\ f \in 1..(Len(pend) + 1)  BY <1>5
      <4>2. Sent + f - 1 = Sent + n  BY <1>5, <1>9
      <4> HIDE DEF f
      <4>3. Straight(From(pend, f), Sent + f - 1)  BY <1>4, <1>9, <2>1, <4>1, StraightFrom
      <4> QED  BY <4>2, <4>3 DEF f
    <3>2. Straight(pend', Sent') /\ Len(pend') % MessageSize = 0 /\ wrap'
      BY <1>1, <1>3, <1>8, <1>9, <2>1, <2>5, <3>1 DEF MessageSize
    <3> QED  BY <3>2 DEF Pending, Straight
  <2>10. Wrapped(us) \in Seq(Unit)  BY <1>5, WrappedFacts
  <2>11. Underway'
    <3>1. /\ ~decoded => Chain(Transit, Taken, Sent)
          /\ decoded => /\ buf # <<>> /\ ~starved
                        /\ Straight(buf, Taken) /\ Len(buf) % MessageSize = 0
                        /\ Chain(wire, Taken + Len(buf), Sent)
      BY <2>0, <2>1 DEF Underway
    <3>2. Transit' = Transit \o Wrapped(us) /\ Transit \in Seq(Unit)
      <4> DEFINE w == Wrapped(us)
      <4>1. Transit' = buf \o (wire \o w)  BY <1>1, <1>3, <1>4 DEF Transit
      <4>2. buf \in Seq(Unit) /\ wire \in Seq(Unit) /\ w \in Seq(Unit)  BY <1>4, <2>10
      <4> HIDE DEF w
      <4>3. buf \o (wire \o w) = (buf \o wire) \o w  BY <4>2, TransitAppend
      <4>4. buf \o wire \in Seq(Unit)  BY <4>2, ConcatFacts
      <4> QED  BY <4>1, <4>3, <4>4 DEF Transit, w
    <3>3. Taken + Len(buf) \in Int  BY <1>6, <1>9
    <3> HIDE DEF Transit, Taken, Sent, Straight, Chain
    <3>4. ~decoded => Chain(Transit', Taken, Sent + n)  BY <1>9, <2>8, <3>1, <3>2
    <3>5. decoded => Chain(wire', Taken + Len(buf), Sent + n)  BY <1>3, <1>4, <2>8, <3>1, <3>3
    <3>6. /\ ~decoded' => Chain(Transit', Taken', Sent')
          /\ decoded' => /\ buf' # <<>> /\ ~starved'
                         /\ Straight(buf', Taken') /\ Len(buf') % MessageSize = 0
                         /\ Chain(wire', Taken' + Len(buf'), Sent')
          /\ wrap'
      BY <1>1, <1>9, <2>1, <3>1, <3>4, <3>5
    <3> QED  BY <3>6 DEF Underway, Straight, Chain, TokenAt
  <2>12. Cuts'
    <3>1. wire' # <<>> => ~(wire'[1].form = "length" /\ wire'[1].i = 2)
      <4>1. CASE wire = <<>>
        <5>1. wire' = Wrapped(us)  BY <1>3, <2>10, <4>1
        <5>2. wire'[1] = Header(n)[1]  BY <1>5, <5>1, WrappedFacts
        <5>3. Header(n)[1] = [form |-> "length", m |-> n, i |-> 1, end |-> "no"]
          <6>1. n \in Nat /\ 1 \in 1..2  BY <1>5
          <6> QED  BY <6>1, HeaderFacts
        <5> QED  BY <5>2, <5>3
      <4>2. CASE wire # <<>>
        <5>1. 1 \in 1..Len(wire)
          <6>1. Len(wire) \in Nat /\ Len(wire) # 0  BY <1>4, <4>2, EmptySeq, LenProperties
          <6> QED  BY <6>1
        <5>2. wire'[1] = wire[1]  BY <1>3, <1>4, <2>10, <5>1, ConcatFacts
        <5> QED  BY <2>0, <4>2, <5>2 DEF Cuts
      <4> QED  BY <4>1, <4>2
    <3> QED  BY <1>1, <2>0, <3>1 DEF Cuts
  <2>13. Boundary'
    <3>1. bind # "third" /\ ~(wrap /\ bind = "param")
      <4>1. bind \in {"param", "bound"}  BY <2>1 DEF Agreed, Exchange
      <4> QED  BY <1>1, <2>0, <4>1 DEF Boundary
    <3> QED  BY <1>1, <3>1 DEF Boundary
  <2> QED  BY <2>9, <2>11, <2>12, <2>13 DEF Whole
<1> QED  BY <1>1, <1>10, <1>11, <1>12 DEF Stream

\* The server answers in the clear before the switch of its layer, and puts its
\* answers into tokens after it.
LEMMA AnswerStream ==
    ASSUME Agreed, Whole, NEW as \in Seq(Answers \cup {"op"}), Answering(as),
           UNCHANGED <<buf, decoded, starved, got, wrap>>, layer = wrap
    PROVE  Pending' /\ Underway' /\ Cuts'
<1> DEFINE us == NewUnits(as)
           l == Len(as)
<1>1. /\ ans' = ans \o as
      /\ wrap => pend' = pend \o us /\ wire' = wire
      /\ ~wrap => wire' = wire \o us /\ pend' = pend
  BY AnsweringFacts
<1>2. /\ pend \in Seq(Unit) /\ wire \in Seq(Unit) /\ buf \in Seq(Unit)
      /\ ans \in Seq(Answers \cup {"op"})
  BY DEF Agreed, Types, UnitType
<1>3. /\ us \in Seq(Unit) /\ Len(us) = 2 * l /\ l \in Nat
      /\ \A k \in 1..(2 * l) : /\ us[k].form = "plain" /\ us[k].end = "no"
                               /\ Place(us[k]) = 2 * Len(ans) + k
  BY <1>2, NewUnitsFacts, LenProperties
<1> HIDE DEF us
<1>4. Len(got) \in Nat /\ Len(ans) \in Nat /\ Len(pend) \in Nat /\ Len(buf) \in Nat
  BY LenProperties DEF Agreed, Types, UnitType
<1>5. Len(ans') = Len(ans) + l  BY <1>1, <1>2
<1> HIDE DEF l
<1>a. us \in Seq(Unit)  BY <1>3
<1>b. ASSUME NEW s \in Seq(Unit) PROVE Len(s \o us) = Len(s) + 2 * l
  <2>1. Len(s \o us) = Len(s) + Len(us)  BY <1>a, ConcatFacts
  <2> QED  BY <1>3, <2>1
<1>6. Straight(us, 2 * Len(ans))  BY <1>3 DEF Straight
<1>7. Pending /\ Underway /\ Cuts  BY DEF Whole
<1>8. Taken' = Taken /\ Taken \in Int /\ Sent \in Int /\ Sent = 2 * Len(ans) - Len(pend)
  BY <1>4 DEF Taken, Sent, MessageSize
<1>9. CASE wrap
  <2>1. pend' = pend \o us /\ wire' = wire /\ wrap' = wrap  BY <1>1, <1>9
  <2>2. Straight(pend, Sent) /\ Len(pend) % 2 = 0  BY <1>7 DEF Pending, MessageSize
  <2>3. Len(pend') = Len(pend) + 2 * l  BY <1>2, <1>b, <2>1
  <2> DEFINE a == Len(ans)
             p == Len(pend)
  <2>4. /\ 2 * (a + l) - (p + 2 * l) = 2 * a - p
        /\ (2 * a - p) + p = 2 * a
        /\ p % 2 = 0 => (p + 2 * l) % 2 = 0
    <3>1. a \in Nat /\ p \in Nat /\ l \in Nat  BY <1>3, <1>4
    <3> HIDE DEF a, p
    <3> QED  BY <3>1
  <2>5. Sent' = Sent
    <3>1. Sent' = MessageSize * Len(ans') - Len(pend')  BY DEF Sent
    <3> QED  BY <1>5, <1>8, <2>3, <2>4, <3>1 DEF MessageSize
  <2>6. Straight(pend', Sent)
    <3>1. Sent + Len(pend) = 2 * Len(ans)  BY <1>8, <2>4
    <3>2. Straight(us, Sent + Len(pend))  BY <1>6, <3>1
    <3> HIDE DEF Sent
    <3> QED  BY <1>2, <1>3, <1>8, <2>1, <2>2, <3>2, StraightConcat
  <2>7. Pending'
    <3>1. Straight(pend', Sent') /\ Len(pend') % MessageSize = 0 /\ wrap'
      BY <1>9, <2>1, <2>2, <2>3, <2>4, <2>5, <2>6 DEF MessageSize
    <3> QED  BY <3>1 DEF Pending, Straight
  <2>8. Underway'
    <3>1. /\ ~decoded => Chain(Transit, Taken, Sent)
          /\ decoded => /\ buf # <<>> /\ ~starved
                        /\ Straight(buf, Taken) /\ Len(buf) % MessageSize = 0
                        /\ Chain(wire, Taken + Len(buf), Sent)
      BY <1>7, <1>9 DEF Underway
    <3>2. Transit' = Transit  BY <2>1 DEF Transit
    <3> HIDE DEF Transit, Taken, Sent, Straight, Chain
    <3>3. /\ ~decoded' => Chain(Transit', Taken', Sent')
          /\ decoded' => /\ buf' # <<>> /\ ~starved'
                         /\ Straight(buf', Taken') /\ Len(buf') % MessageSize = 0
                         /\ Chain(wire', Taken' + Len(buf'), Sent')
          /\ wrap'
      BY <1>8, <1>9, <2>1, <2>5, <3>1, <3>2
    <3> QED  BY <3>3 DEF Underway, Straight, Chain, TokenAt
  <2>9. Cuts'  BY <1>7, <2>1 DEF Cuts
  <2> QED  BY <2>7, <2>8, <2>9
<1>10. CASE ~wrap
  <2>1. wire' = wire \o us /\ pend' = pend /\ pend = <<>> /\ ~wrap'
    BY <1>1, <1>7, <1>10 DEF Pending
  <2>2. Straight(Transit, Taken) /\ Len(Transit) = Sent - Taken /\ ~decoded
    <3>1. ~decoded  BY <1>10 DEF Agreed, Types, SizeType
    <3> QED  BY <1>7, <1>10, <3>1 DEF Underway
  <2>3. Sent = 2 * Len(ans) /\ Sent' = 2 * Len(ans) + 2 * l
    <3>1. Sent' = MessageSize * Len(ans') - Len(pend')  BY DEF Sent
    <3>2. Len(pend) = 0 /\ Len(pend') = 0  BY <2>1
    <3>3. Sent' = 2 * (Len(ans) + l) - 0 /\ Sent = 2 * Len(ans) - 0
      BY <1>5, <1>8, <3>1, <3>2 DEF MessageSize
    <3>4. \A x \in Nat : 2 * (x + l) - 0 = 2 * x + 2 * l /\ 2 * x - 0 = 2 * x  BY <1>3
    <3> QED  BY <1>4, <3>3, <3>4
  <2>4. Transit' = Transit \o us /\ Transit \in Seq(Unit)
    <3>1. Transit' = buf \o (wire \o us)  BY <2>1 DEF Transit
    <3>2. buf \o (wire \o us) = (buf \o wire) \o us
      <4>1. buf \in Seq(Unit) /\ wire \in Seq(Unit) /\ us \in Seq(Unit)  BY <1>2, <1>a
      <4> QED  BY <4>1, TransitAppend
    <3>3. buf \o wire \in Seq(Unit)  BY <1>2
    <3> QED  BY <3>1, <3>2, <3>3 DEF Transit
  <2>5. Straight(Transit', Taken) /\ Len(Transit') = Sent' - Taken
    <3> HIDE DEF Transit, Taken, Sent
    <3>1. Taken + Len(Transit) = 2 * Len(ans)  BY <1>8, <2>2, <2>3
    <3>2. Straight(us, Taken + Len(Transit))  BY <1>6, <3>1
    <3>3. Straight(Transit \o us, Taken)  BY <1>3, <1>8, <2>2, <2>4, <3>2, StraightConcat
    <3>4. Len(Transit \o us) = Len(Transit) + 2 * l  BY <1>b, <2>4
    <3>5. Len(Transit) + 2 * l = Sent' - Taken
      <4>1. Len(Transit) = Sent - Taken  BY <2>2
      <4> QED  BY <1>3, <1>4, <1>8, <2>3, <4>1
    <3> QED  BY <2>4, <3>3, <3>4, <3>5
  <2>6. Pending'
    <3>1. Straight(pend', Sent') /\ Len(pend') % MessageSize = 0 /\ pend' = <<>>
      BY <2>1 DEF Straight, MessageSize
    <3> QED  BY <3>1 DEF Pending, Straight
  <2>7. Underway'
    <3> HIDE DEF Transit, Taken, Sent, Straight, Chain
    <3>1. Straight(Transit', Taken') /\ Len(Transit') = Sent' - Taken' /\ ~decoded' /\ ~wrap'
      BY <1>8, <2>1, <2>2, <2>5
    <3> QED  BY <3>1 DEF Underway, Straight
  <2>8. Cuts'
    <3>1. wire' # <<>> => ~(wire'[1].form = "length" /\ wire'[1].i = 2)
      <4> SUFFICES ASSUME wire' # <<>> PROVE wire'[1].form # "length"
        OBVIOUS
      <4>1. wire' \in Seq(Unit)  BY <1>2, <1>3, <2>1
      <4>2. Len(wire') \in Nat /\ Len(wire') # 0  BY <4>1, EmptySeq, LenProperties
      <4>3. Transit' = buf \o wire'  BY DEF Transit
      <4> DEFINE h == Len(buf) + 1
      <4>4. 1 \in 1..Len(wire')  BY <4>2
      <4>5. Transit'[h] = wire'[1]  BY <1>2, <4>1, <4>3, <4>4, ConcatFacts
      <4>6. h \in 1..Len(Transit')
        <5>1. Len(Transit') = Len(buf) + Len(wire')  BY <1>2, <4>1, <4>3
        <5> QED  BY <1>4, <4>2, <5>1
      <4> HIDE DEF h, Transit
      <4>7. Transit'[h].form = "plain"  BY <2>5, <4>6 DEF Straight
      <4> QED  BY <4>5, <4>7
    <3> QED  BY <1>7, <3>1 DEF Cuts
  <2> QED  BY <2>6, <2>7, <2>8
<1> QED  BY <1>9, <1>10

\* A notification comes outside of the switch.
LEMMA StreamNotify ==
    ASSUME Agreed, Switch, Stream, Orderly, Orderly', Notify
    PROVE  Stream'
<1>1. /\ UNCHANGED <<bind, reply, wrap, drv, buf, decoded, starved, got, layer>>
      /\ Answering(<<"op">>) /\ ~(layer /\ bind \in {"third", "param"})
  BY DEF Notify, params, codec, Orderly
<1>2. <<"op">> \in Seq(Answers \cup {"op"})  OBVIOUS
<1>3. Numbers /\ drv \in {"running", "closed", "toolarge"} /\ (drv = "running" => Whole)
  BY DEF Stream
<1>4. Numbers'  BY <1>1, <1>3 DEF Numbers
<1>5. ASSUME drv = "running" PROVE Whole'
  <2>1. layer = wrap
    <3>1. layer \in BOOLEAN /\ wrap \in BOOLEAN  BY DEF Agreed, Types, FlagType
    <3>2. layer => bind = "bound"  BY <1>1, <1>5 DEF Switch, Orderly, Gone
    <3>3. /\ wrap <=> bind \in {"param", "bound"} /\ ~has_tls
          /\ bind \in {"param", "bound"} => layer = ~has_tls
      BY DEF Agreed, Exchange
    <3> QED  BY <3>1, <3>2, <3>3
  <2>2. Pending' /\ Underway' /\ Cuts'  BY <1>1, <1>2, <1>3, <1>5, <2>1, AnswerStream
  <2>3. Boundary'
    <3>1. wrap /\ bind = "param" => layer  BY <2>1
    <3> QED  BY <1>1, <3>1 DEF Boundary
  <2> QED  BY <2>2, <2>3 DEF Whole
<1> QED  BY <1>1, <1>3, <1>4, <1>5 DEF Stream

\* The answer that settles the bind is the last message in the clear.
LEMMA StreamServe ==
    ASSUME Agreed, Switch, Stream, Orderly, Orderly', Serve
    PROVE  Stream'
<1>1. /\ UNCHANGED <<bind, reply, wrap, drv, buf, decoded, starved, got>> /\ up # <<>>
      /\ up' = Tail(up)
      /\ \E as \in Seq(Answers \cup {"op"}) : Answering(as)
  BY ServeAnswers DEF Agreed
<1>2. Numbers /\ drv \in {"running", "closed", "toolarge"} /\ (drv = "running" => Whole)
  BY DEF Stream
<1>3. Numbers'  BY <1>1, <1>2 DEF Numbers
<1>4. ASSUME drv = "running" PROVE Whole'
  <2>a. layer \in BOOLEAN /\ wrap \in BOOLEAN  BY DEF Agreed, Types, FlagType
  <2>b. layer => bind = "bound"  BY <1>1, <1>4 DEF Switch, Orderly, Gone
  <2>c. /\ wrap <=> bind \in {"param", "bound"} /\ ~has_tls
        /\ bind \in {"param", "bound"} => layer = ~has_tls
    BY DEF Agreed, Exchange
  <2>1. layer = wrap  BY <2>a, <2>b, <2>c
  <2>2. Pending' /\ Underway' /\ Cuts'  BY <1>1, <1>2, <1>4, <2>1, AnswerStream
  <2>3. Boundary'
    <3>1. ~(wrap' /\ bind' = "param")  BY <1>1, <2>1, <2>b
    <3>2. ASSUME layer', bind' = "third"
          PROVE  Live' \subseteq {Len(ans')} /\ (reply' # "none" => Transit' = <<>>)
      <4>1. ~layer /\ bind = "third"  BY <1>1, <2>b, <3>2
      <4>2. Types /\ Round  BY <4>1 DEF Agreed, Exchange, Waiting
      <4>3. PICK a \in Answers :
              /\ Head(up).what # "op" /\ Live' = Live \cup {Len(ans) + 1} /\ Answering(<<a>>)
        BY <3>2, <4>1, <4>2, ServeCases
      <4>4. ~NoBindRequest
        <5>1. Head(up) = up[1] /\ 1 \in 1..Len(up)  BY <1>1, <4>2, UpTail DEF Types
        <5> QED  BY <4>3, <5>1 DEF NoBindRequest
      <4>5. Live = {} /\ reply = "none"  BY <4>2, <4>4 DEF Round
      <4>6. Len(ans') = Len(ans) + 1
        <5>1. ans' = ans \o <<a>>  BY <4>3 DEF Answering
        <5>2. ans \in Seq(Answers \cup {"op"})  BY <4>2 DEF Types, UnitType
        <5> QED  BY <5>1, <5>2
      <4> HIDE DEF Live
      <4> QED  BY <1>1, <4>3, <4>5, <4>6
    <3> HIDE DEF Live, Transit
    <3> QED  BY <3>1, <3>2 DEF Boundary
  <2> QED  BY <2>2, <2>3 DEF Whole
<1> QED  BY <1>1, <1>2, <1>3, <1>4 DEF Stream

\* The next message is taken.
LEMMA Takes ==
    ASSUME Agreed, Numbers, NEW r, Yield(r), r.res = "message", r.m = Len(got) + 1,
           UNCHANGED <<ans, pend>>
    PROVE  /\ Numbers' /\ Taken' = Taken + 2 /\ Sent' = Sent /\ UNCHANGED <<drv, starved>>
           /\ Len(got) \in Nat /\ Taken = 2 * Len(got) /\ Taken \in Int /\ Sent \in Int
           /\ reply' = reply \/ (reply' = ans[r.m] /\ ans[r.m] # "op")
<1>1. got' = Append(got, r.m) /\ UNCHANGED <<drv, starved>>  BY DEF Yield
<1>2. reply' = reply \/ (reply' = ans[r.m] /\ ans[r.m] # "op")  BY DEF Yield
<1>3. got \in Seq(0..Len(ans)) /\ Len(got) \in Nat /\ Len(ans) \in Nat /\ Len(pend) \in Nat
  BY LenProperties DEF Agreed, Types, UnitType
<1>4. Taken = 2 * Len(got) /\ Taken \in Int /\ Sent \in Int /\ Sent' = Sent
  BY <1>3 DEF Taken, Sent, MessageSize
<1> DEFINE g == Len(got)
           f == [i \in 1..(g + 1) |-> i]
<1>5. got = [i \in 1..g |-> i]  BY DEF Numbers
<1>6. got' = Append(got, g + 1) /\ g \in Nat  BY <1>1, <1>3
<1> HIDE DEF g
<1>7. got \in Seq(Nat) /\ Len(got) = g
  <2>1. got \in [1..g -> Nat]  BY <1>5
  <2> QED  BY <1>6, <2>1, FunSeq
<1>8. got' \in Seq(Nat) /\ Len(got') = g + 1  BY <1>6, <1>7
<1>9. f \in Seq(Nat) /\ Len(f) = g + 1
  <2>1. f \in [1..(g + 1) -> Nat] /\ g + 1 \in Nat  BY <1>6
  <2> HIDE DEF f
  <2> QED  BY <2>1, FunSeq
<1>10. ASSUME NEW k \in 1..Len(got') PROVE got'[k] = f[k]
  <2>1. k \in 1..(g + 1)  BY <1>8
  <2>2. f[k] = k  BY <2>1
  <2>3. CASE k = g + 1
    <3>1. Append(got, g + 1)[Len(got) + 1] = g + 1  BY <1>7
    <3> QED  BY <1>6, <1>7, <2>2, <2>3, <3>1
  <2>4. CASE k \in 1..g
    <3>1. got[k] = k  BY <1>5, <2>4
    <3>2. Append(got, g + 1)[k] = got[k]
      <4>1. k \in 1..Len(got)  BY <1>7, <2>4
      <4>2. got \in Seq(Nat)  BY <1>7
      <4>3. g + 1 \in Nat  BY <1>6
      <4> QED  BY <4>1, <4>2, <4>3
    <3> QED  BY <1>6, <2>2, <3>1, <3>2
  <2> QED  BY <1>6, <2>1, <2>3, <2>4
<1> HIDE DEF f
<1>11. got' = f
  <2>1. got' \in Seq(Nat) /\ f \in Seq(Nat)  BY <1>8, <1>9
  <2>2. Len(got') = Len(f)  BY <1>8, <1>9
  <2> QED  BY <1>10, <2>1, <2>2, SameSeq
<1>12. Numbers'
  <2>1. got' = [i \in 1..Len(got') |-> i]  BY <1>8, <1>11 DEF f
  <2> QED  BY <2>1 DEF Numbers
<1>13. Taken' = Taken + 2
  <2>1. Taken' = 2 * Len(got')  BY DEF Taken, MessageSize
  <2>2. Len(got') = Len(got) + 1  BY <1>7, <1>8
  <2>3. \A x \in Nat : 2 * (x + 1) = 2 * x + 2  OBVIOUS
  <2> QED  BY <1>3, <1>4, <2>1, <2>2, <2>3
<1> QED  BY <1>1, <1>2, <1>3, <1>4, <1>12, <1>13

\* Taking from the front of the buffer makes no bad cut.
LEMMA CutsFrom ==
    ASSUME Cuts, buf \in Seq(Unit), NEW k \in Nat, k \in 1..(Len(buf) + 1),
           buf' = From(buf, k), wire' = wire
    PROVE  Cuts'
<1> DEFINE f == From(buf, k)
<1>1. Len(f) = Len(buf) + 1 - k /\ \A j \in 1..(Len(buf) + 1 - k) : f[j] = buf[j + k - 1]
  BY FromFacts
<1>2. buf' = f  OBVIOUS
<1> HIDE DEF f
<1>3. Len(buf) \in Nat  BY LenProperties
<1>4. ASSUME NEW j \in 1..(Len(f) - 1) PROVE f[j].end # "many"
  <2> DEFINE h == j + k - 1
  <2>1. j \in 1..(Len(buf) + 1 - k) /\ h \in 1..(Len(buf) - 1)  BY <1>1, <1>3
  <2>2. f[j] = buf[h]  BY <1>1, <2>1
  <2> HIDE DEF h
  <2> QED  BY <2>1, <2>2 DEF Cuts
<1> QED  BY <1>2, <1>4 DEF Cuts

\* Neither do units in the clear.
LEMMA CutsStraight ==
    ASSUME Cuts, NEW p, Straight(buf', p), wire' = wire, buf' \in Seq(Unit)
    PROVE  Cuts'
<1>1. \A j \in 1..(Len(buf') - 1) : j \in 1..Len(buf')
  <2>1. Len(buf') \in Nat  BY LenProperties
  <2> QED  BY <2>1
<1>2. \A j \in 1..Len(buf') : buf'[j].end = "no"  BY DEF Straight
<1>3. \A j \in 1..(Len(buf') - 1) : buf'[j].end # "many"  BY <1>1, <1>2
<1> QED  BY <1>3 DEF Cuts

\* decode() gives nothing and takes nothing, or only says so.
LEMMA StreamIdle ==
    ASSUME Agreed, Stream, Orderly, drv = "running",
           UNCHANGED <<bind, reply, wrap, drv, buf, got, wire, layer, ans, pend>>,
           ~decoded' /\ ~decoded
    PROVE  Stream'
<1>1. Numbers /\ Pending /\ Underway /\ Cuts /\ Boundary  BY DEF Stream, Whole
<1>2. Transit' = Transit /\ Taken' = Taken /\ Sent' = Sent  BY DEF Transit, Taken, Sent
<1>3. Live' = Live  BY <1>2 DEF Live, Firsts
<1>4. Numbers'  BY <1>1 DEF Numbers
<1>5. Pending'
  <2>1. Straight(pend', Sent') /\ Len(pend') % MessageSize = 0 /\ (~wrap' => pend' = <<>>)
    BY <1>1, <1>2 DEF Pending
  <2> QED  BY <2>1 DEF Pending, Straight
<1>6. Underway'
  <2>1. /\ ~wrap => Straight(Transit, Taken) /\ Len(Transit) = Sent - Taken
        /\ wrap => Chain(Transit, Taken, Sent)
    BY <1>1 DEF Underway
  <2> HIDE DEF Transit, Taken, Sent, Straight, Chain
  <2>2. /\ ~wrap' => Straight(Transit', Taken') /\ Len(Transit') = Sent' - Taken'
        /\ wrap' => Chain(Transit', Taken', Sent')
    BY <1>2, <2>1
  <2> QED  BY <2>2 DEF Underway, Straight, Chain, TokenAt
<1>7. Cuts'  BY <1>1 DEF Cuts
<1>8. Boundary'
  <2> HIDE DEF Live, Transit
  <2> QED  BY <1>1, <1>2, <1>3 DEF Boundary
<1> QED  BY <1>4, <1>5, <1>6, <1>7, <1>8 DEF Stream, Whole

\* decode() without the layer.
LEMMA StreamClear ==
    ASSUME Agreed, Stream, Orderly, Decoding, ~wrap
    PROVE  Stream'
<1>1. /\ UNCHANGED <<bind, wrap, wire, layer, ans, pend>> /\ drv = "running" /\ ~starved
      /\ DecodePlain /\ decoded' = decoded
  <2>1. DecodePlain
    BY DEF Decoding, DecodeKept, DecodeShort, DecodeMisread, DecodeWaits, DecodeNoCtx,
           DecodeToken, AtToken
  <2> QED  BY <2>1, DecodeFrame DEF DecodePlain, params, server
<1>2. PICK r \in DecodeInner(buf) : Yield(r) /\ buf' = r.rest  BY <1>1 DEF DecodePlain
<1>3. Numbers /\ Pending /\ Underway /\ Cuts /\ Boundary  BY <1>1 DEF Stream, Whole
<1>4. buf \in Seq(Unit) /\ wire \in Seq(Unit)  BY DEF Agreed, Types, UnitType
<1>a. Len(buf) \in Nat /\ Len(wire) \in Nat /\ Len(got) \in Nat
  BY LenProperties DEF Agreed, Types, UnitType
<1>5. ~decoded  BY DEF Agreed, Types, SizeType
<1>6. Straight(Transit, Taken) /\ Len(Transit) = Sent - Taken  BY <1>3 DEF Underway
<1>7. Transit \in Seq(Unit) /\ Len(Transit) = Len(buf) + Len(wire)
      /\ \A k \in 1..Len(buf) : Transit[k] = buf[k]
  BY <1>4, ConcatFacts DEF Transit
<1>b. Taken = 2 * Len(got)  BY DEF Taken, MessageSize
<1> HIDE DEF Transit
<1>8. Straight(buf, 2 * Len(got))
  <2>1. \A k \in 1..Len(buf) : k \in 1..Len(Transit)  BY <1>7, <1>a
  <2> QED  BY <1>6, <1>7, <1>b, <2>1 DEF Straight
<1>9. CASE Len(buf) < 2
  <2>1. r.res = "none" /\ r.rest = buf  BY <1>4, <1>8, <1>9, <1>a, StraightDecode
  <2>2. buf' = buf /\ UNCHANGED <<got, reply, drv>>  BY <1>2, <2>1 DEF Yield
  <2> QED  BY <1>1, <1>5, <2>2, StreamIdle
<1>10. CASE Len(buf) >= 2
  <2>1. r.res = "message" /\ r.m = Len(got) + 1 /\ r.rest = From(buf, 3)
    BY <1>4, <1>8, <1>10, <1>a, StraightDecode
  <2>2. /\ Numbers' /\ Taken' = Taken + 2 /\ Sent' = Sent /\ UNCHANGED <<drv, starved>>
        /\ Len(got) \in Nat /\ Taken \in Int /\ Sent \in Int
        /\ reply' = reply \/ (reply' = ans[r.m] /\ ans[r.m] # "op")
    BY <1>1, <1>2, <1>3, <2>1, Takes
  <2>3. buf' = From(buf, 3) /\ 3 \in 1..(Len(buf) + 1)  BY <1>2, <1>10, <1>a, <2>1
  <2>4. Transit' = From(Transit, 3) /\ 3 \in 1..(Len(Transit) + 1)
    <3>1. 3 \in Nat  OBVIOUS
    <3> QED  BY <1>1, <2>3, <3>1, DropTransit DEF Agreed
  <2>5. Straight(Transit', Taken') /\ Len(Transit') = Sent' - Taken'
    <3> DEFINE k == 3
    <3>1. k \in Nat /\ k \in 1..(Len(Transit) + 1) /\ Transit' = From(Transit, k)  BY <2>4
    <3>2. Taken + k - 1 = Taken + 2 /\ (Sent - Taken) + 1 - k = Sent - (Taken + 2)  BY <2>2
    <3> HIDE DEF k, Taken, Sent
    <3>3. Straight(From(Transit, k), Taken + k - 1)
      BY <1>6, <1>7, <2>2, <3>1, StraightFrom
    <3>4. Len(From(Transit, k)) = Len(Transit) + 1 - k  BY <1>7, <3>1, FromFacts
    <3> QED  BY <1>6, <2>2, <3>1, <3>2, <3>3, <3>4
  <2>6. Pending'
    <3>1. Straight(pend', Sent') /\ Len(pend') % MessageSize = 0 /\ (~wrap' => pend' = <<>>)
      BY <1>1, <1>3, <2>2 DEF Pending
    <3> QED  BY <3>1 DEF Pending, Straight
  <2>7. Underway'
    <3> HIDE DEF Taken, Sent, Straight
    <3>1. ~wrap' /\ ~decoded'  BY <1>1, <1>5
    <3> QED  BY <2>5, <3>1 DEF Underway, Straight
  <2>8. Cuts'
    <3>1. 3 \in Nat  OBVIOUS
    <3> QED  BY <1>1, <1>3, <1>4, <2>3, <3>1, CutsFrom
  <2>9. Boundary'
    <3>1. ASSUME layer', bind' = "third"
          PROVE  Live' \subseteq {Len(ans')} /\ (reply' # "none" => Transit' = <<>>)
      <4>0. layer /\ bind = "third"  BY <1>1, <3>1
      <4>1. Live \subseteq {Len(ans)} /\ (reply # "none" => Transit = <<>>)
        BY <1>3, <4>0 DEF Boundary
      <4>2. Live' \subseteq Live
        <5>1. Types /\ Once(Transit)  BY DEF Agreed, ClearOnce
        <5> QED  BY <5>1, DecodeClear
      <4>3. Len(Transit) >= 2  BY <1>7, <1>10, <1>a
      <4>4. reply = "none"
        <5>1. Transit # <<>>  BY <4>3
        <5> QED  BY <4>1, <5>1
      <4>5. ASSUME reply' # "none" PROVE Transit' = <<>>
        <5>1. ans[r.m] # "op"  BY <2>2, <4>4, <4>5
        <5>2. 1 \in 1..Len(buf) /\ 1 \in 1..Len(Transit)  BY <1>7, <1>10, <1>a
        <5>3. buf[1] \in Unit /\ buf[1].form = "plain" /\ Place(buf[1]) = 2 * Len(got) + 1
          BY <1>4, <1>8, <5>2 DEF Straight
        <5>4. buf[1].m = r.m /\ buf[1].i = 1  BY <1>a, <2>1, <5>3, PlaceFacts
        <5>5. Transit[1] = buf[1]  BY <1>7, <5>2
        <5>6. r.m \in Firsts(Transit)  BY <5>2, <5>3, <5>4, <5>5 DEF Firsts, IsFirst
        <5>7. r.m \in Live  BY <5>1, <5>6 DEF Live
        <5>8. Len(ans) = Len(got) + 1  BY <2>1, <4>1, <5>7
        <5>9. pend = <<>>  BY <1>3 DEF Pending
        <5>10. Sent = 2 * Len(ans) - 0  BY <5>9 DEF Sent, MessageSize
        <5>11. Len(Transit') = (2 * (Len(got) + 1) - 0) - (2 * Len(got) + 2)
          BY <1>b, <2>2, <2>5, <5>8, <5>10
        <5>12. \A x \in Nat : (2 * (x + 1) - 0) - (2 * x + 2) = 0  OBVIOUS
        <5>13. Len(Transit') = 0  BY <1>a, <5>11, <5>12
        <5>14. Transit' \in Seq(Unit)
          <6>1. 3 \in Nat  OBVIOUS
          <6> QED  BY <1>7, <2>4, <6>1, FromFacts
        <5> QED  BY <5>13, <5>14, EmptySeq
      <4> HIDE DEF Live
      <4> QED  BY <1>1, <4>1, <4>2, <4>5
    <3> HIDE DEF Live
    <3> QED  BY <1>1, <3>1 DEF Boundary
  <2> QED  BY <1>1, <2>2, <2>6, <2>7, <2>8, <2>9 DEF Stream, Whole
<1>11. Len(buf) < 2 \/ Len(buf) >= 2  BY <1>a
<1> QED  BY <1>9, <1>10, <1>11

\* decode() with the layer and the rest of a token in the buffer.
LEMMA StreamKept ==
    ASSUME Agreed, Stream, Orderly, Decoding, wrap, decoded
    PROVE  Stream'
<1>1. UNCHANGED <<bind, wrap, wire, layer, ans, pend>> /\ drv = "running" /\ ~starved
  BY DecodeFrame DEF params, server
<1>2. Numbers /\ Pending /\ Underway /\ Cuts /\ Boundary  BY <1>1 DEF Stream, Whole
<1>3. /\ buf # <<>> /\ Straight(buf, Taken) /\ Len(buf) % 2 = 0
      /\ Chain(wire, Taken + Len(buf), Sent)
  BY <1>2 DEF Underway, MessageSize
<1>4. DecodeKept
  BY <1>3 DEF Decoding, DecodePlain, DecodeShort, DecodeMisread, DecodeWaits, DecodeNoCtx,
              DecodeToken, AtToken
<1>5. PICK r \in DecodeInner(buf) : Yield(r) /\ buf' = r.rest /\ decoded' = (r.rest # <<>>)
  BY <1>4 DEF DecodeKept, StillDecoded
<1>6. buf \in Seq(Unit) /\ wire \in Seq(Unit)  BY DEF Agreed, Types, UnitType
<1>a. Len(buf) \in Nat /\ Len(got) \in Nat  BY LenProperties DEF Agreed, Types, UnitType
<1>7. Len(buf) >= 2
  <2>1. Len(buf) # 0  BY <1>3, <1>6, EmptySeq
  <2>2. \A x \in Nat : x # 0 /\ x % 2 = 0 => x >= 2  OBVIOUS
  <2> QED  BY <1>3, <1>a, <2>1, <2>2
<1>8. Straight(buf, 2 * Len(got))  BY <1>3 DEF Taken, MessageSize
<1>9. r.res = "message" /\ r.m = Len(got) + 1 /\ r.rest = From(buf, 3)
  BY <1>6, <1>7, <1>8, <1>a, StraightDecode
<1>10. /\ Numbers' /\ Taken' = Taken + 2 /\ Sent' = Sent /\ UNCHANGED <<drv, starved>>
       /\ Taken \in Int /\ Sent \in Int
  BY <1>1, <1>2, <1>5, <1>9, Takes
<1> DEFINE f == From(buf, 3)
<1>11. buf' = f /\ decoded' = (f # <<>>)  BY <1>5, <1>9
<1>12. f \in Seq(Unit) /\ Len(f) = Len(buf) - 2 /\ Straight(f, Taken + 2)
  <2> DEFINE k == 3
  <2>1. k \in Nat /\ k \in 1..(Len(buf) + 1)  BY <1>7, <1>a
  <2>2. Taken + k - 1 = Taken + 2 /\ Len(buf) + 1 - k = Len(buf) - 2  BY <1>10, <1>a
  <2> HIDE DEF k, Taken
  <2>3. Straight(From(buf, k), Taken + k - 1)  BY <1>3, <1>6, <1>10, <2>1, StraightFrom
  <2>4. From(buf, k) \in Seq(Unit) /\ Len(From(buf, k)) = Len(buf) + 1 - k
    BY <1>6, <2>1, FromFacts
  <2> QED  BY <2>2, <2>3, <2>4 DEF k
<1> HIDE DEF f
<1>13. /\ Len(buf) - 2 \in Nat /\ (Len(buf) - 2) % 2 = 0
       /\ (Taken + 2) + (Len(buf) - 2) = Taken + Len(buf)
  <2> DEFINE b == Len(buf)
  <2>1. b \in Nat /\ b >= 2 /\ b % 2 = 0  BY <1>3, <1>7, <1>a
  <2> HIDE DEF b, Taken
  <2>2. b - 2 \in Nat /\ (b - 2) % 2 = 0 /\ (Taken + 2) + (b - 2) = Taken + b  BY <1>10, <2>1
  <2> QED  BY <2>2 DEF b
<1>14. Chain(wire, (Taken + 2) + Len(f), Sent)  BY <1>3, <1>12, <1>13
<1>15. Pending'
  <2>1. Straight(pend', Sent') /\ Len(pend') % MessageSize = 0 /\ wrap'
    BY <1>1, <1>2, <1>10 DEF Pending
  <2> QED  BY <2>1 DEF Pending, Straight
<1>16. Underway'
  <2>1. CASE f # <<>>
    <3> HIDE DEF Taken, Sent, Straight, Chain
    <3>1. /\ decoded' /\ wrap' /\ buf' # <<>> /\ ~starved'
          /\ Straight(buf', Taken') /\ Len(buf') % MessageSize = 0
          /\ Chain(wire', Taken' + Len(buf'), Sent')
      BY <1>1, <1>10, <1>11, <1>12, <1>13, <1>14, <2>1 DEF MessageSize
    <3> QED  BY <3>1 DEF Underway, Straight, Chain, TokenAt
  <2>2. CASE f = <<>>
    <3>1. Len(f) = 0 /\ (Taken + 2) + 0 = Taken + 2  BY <1>10, <2>2
    <3>2. Chain(wire, Taken + 2, Sent)  BY <1>14, <3>1
    <3>3. Transit' = wire
      <4>1. Transit' = <<>> \o wire  BY <1>1, <1>11, <2>2 DEF Transit
      <4> QED  BY <1>6, <4>1
    <3> HIDE DEF Taken, Sent, Straight, Chain, Transit
    <3>4. Chain(Transit', Taken', Sent') /\ ~decoded' /\ wrap'
      BY <1>1, <1>10, <1>11, <2>2, <3>2, <3>3
    <3> QED  BY <3>4 DEF Underway, Straight, Chain, TokenAt
  <2> QED  BY <2>1, <2>2
<1>17. Cuts'
  <2>1. 3 \in Nat /\ 3 \in 1..(Len(buf) + 1)  BY <1>7, <1>a
  <2> QED  BY <1>1, <1>2, <1>6, <1>11, <2>1, CutsFrom DEF f
<1>18. Boundary'
  <2>1. bind \in {"param", "bound"}  BY DEF Agreed, Exchange
  <2>2. Transit # <<>>
    <3>1. Len(Transit) = Len(buf) + Len(wire) /\ Len(wire) \in Nat
      BY <1>6, ConcatFacts, LenProperties DEF Transit
    <3>2. Len(Transit) # 0  BY <1>7, <1>a, <3>1
    <3> QED  BY <3>2
  <2>3. bind # "param"  BY <1>2, <2>2 DEF Boundary
  <2> QED  BY <1>1, <2>1, <2>3 DEF Boundary
<1> QED  BY <1>1, <1>10, <1>15, <1>16, <1>17, <1>18 DEF Stream, Whole

\* With the layer the buffer begins with a token, and the context is there.
LEMMA AtTokenFacts ==
    ASSUME Agreed, Stream, Orderly, drv = "running", wrap, ~decoded, buf # <<>>,
           NEW n, n = buf[1].m
    PROVE  /\ n \in Nat /\ n >= 2 /\ ctx /\ Len(buf) \in Nat /\ bind = "bound"
           /\ Len(buf) >= 2 /\ HasHeader
           /\ n + 2 <= Len(buf) =>
                /\ \A j \in 1..n : Place(buf[2 + j]) = Taken + j
                /\ n % 2 = 0
                /\ n > 2 => Len(buf) = n + 2
           /\ Chain(From(Transit, n + 3), Taken + n, Sent)
           /\ Transit \in Seq(Unit)
<1>1. Pending /\ Underway /\ Cuts /\ Boundary  BY DEF Stream, Whole
<1>2. Chain(Transit, Taken, Sent)  BY <1>1 DEF Underway
<1>3. buf \in Seq(Unit) /\ wire \in Seq(Unit)  BY DEF Agreed, Types, UnitType
<1>4. /\ Len(buf) \in Nat /\ Len(wire) \in Nat /\ Len(got) \in Nat /\ Len(ans) \in Nat
      /\ Len(pend) \in Nat
  BY LenProperties DEF Agreed, Types, UnitType
<1>5. Taken \in Int /\ Sent \in Int /\ Taken = 2 * Len(got)
  BY <1>4 DEF Taken, Sent, MessageSize
<1>6. /\ Transit \in Seq(Unit) /\ Len(Transit) = Len(buf) + Len(wire)
      /\ \A k \in 1..Len(buf) : Transit[k] = buf[k]
      /\ \A k \in 1..Len(wire) : Transit[Len(buf) + k] = wire[k]
  BY <1>3, ConcatFacts DEF Transit
<1> HIDE DEF Transit, Taken, Sent
<1>7. Len(buf) # 0  BY <1>3, EmptySeq
<1>8. 1 \in 1..Len(buf)  BY <1>4, <1>7
<1>9. Transit # <<>> /\ n = Transit[1].m
  <2>1. Len(Transit) # 0  BY <1>4, <1>6, <1>7
  <2> QED  BY <1>6, <1>8, <2>1
<1>10. /\ n \in Nat /\ n >= 2 /\ n + 2 <= Len(Transit)
       /\ Transit[1] = Header(n)[1] /\ Transit[2] = Header(n)[2]
       /\ \A j \in 1..n : /\ Transit[2 + j].form = "wrapped"
                          /\ Place(Transit[2 + j]) = Taken + j
       /\ Transit[n + 2].i = 2
       /\ n > 2 => Transit[n + 2].end = "many"
       /\ Chain(From(Transit, n + 3), Taken + n, Sent)
  <2>1. Transit \in Seq(Unit)  BY <1>6
  <2> QED  BY <1>2, <1>5, <1>9, <2>1, ChainFront, SMTT(30)
<1>11. bind = "bound" /\ ctx
  <2>1. bind \in {"param", "bound"} /\ (ctx <=> bind = "bound")  BY DEF Agreed, Exchange
  <2>2. bind # "param"  BY <1>1, <1>9 DEF Boundary
  <2> QED  BY <2>1, <2>2
<1>a. n \in Nat  BY <1>10
<1>12. \A k \in 1..2 : Header(n)[k] = [form |-> "length", m |-> n, i |-> k, end |-> "no"]
  BY <1>a, HeaderFacts
<1>13. Len(buf) >= 2
  <2> SUFFICES ASSUME Len(buf) = 1 PROVE FALSE
    <3>1. \A x \in Nat : x # 0 => x >= 2 \/ x = 1  OBVIOUS
    <3> QED  BY <1>4, <1>7, <3>1
  <2>1. 1 \in 1..Len(wire)
    <3> DEFINE w == Len(wire)
               t == Len(Transit)
    <3>1. t = 1 + w /\ w \in Nat /\ n + 2 <= t /\ n \in Nat  BY <1>4, <1>6, <1>10
    <3> HIDE DEF w, t
    <3>2. 1 \in 1..w  BY <3>1
    <3> QED  BY <3>2 DEF w
  <2>2. Transit[1 + 1] = wire[1]  BY <1>6, <2>1
  <2>3. wire[1] = Header(n)[2]  BY <1>10, <2>2
  <2>4. 2 \in 1..2  OBVIOUS
  <2>5. wire[1].form = "length" /\ wire[1].i = 2  BY <1>12, <2>3, <2>4
  <2>6. wire # <<>>  BY <2>1
  <2> QED  BY <1>1, <2>5, <2>6 DEF Cuts
<1>14. HasHeader
  <2>1. 1 \in 1..Len(buf) /\ 2 \in 1..Len(buf) /\ 2 \in 0..Len(buf)  BY <1>4, <1>13
  <2>2. buf[1] = Header(n)[1] /\ buf[2] = Header(n)[2]  BY <1>6, <1>10, <2>1
  <2> DEFINE s == SubSeq(buf, 1, 2)
             h == Header(n)
  <2>3. s \in Seq(Unit) /\ Len(s) = 2 /\ \A j \in 1..2 : s[j] = buf[j]
    BY <1>3, <2>1, PrefixFacts
  <2>4. h \in Seq(Unit) /\ Len(h) = 2  BY <1>a, HeaderFacts
  <2>5. \A j \in 1..2 : s[j] = h[j]
    <3>1. \A j \in 1..2 : j = 1 \/ j = 2  OBVIOUS
    <3> QED  BY <2>2, <2>3, <3>1
  <2> HIDE DEF s, h
  <2>6. s = h
    <3>1. s \in Seq(Unit) /\ h \in Seq(Unit)  BY <2>3, <2>4
    <3>2. Len(s) = Len(h) /\ \A j \in 1..Len(s) : s[j] = h[j]  BY <2>3, <2>4, <2>5
    <3> QED  BY <3>1, <3>2, SameSeq
  <2> QED  BY <1>13, <2>6 DEF HasHeader, HeaderSize, s, h
<1>15. ASSUME n + 2 <= Len(buf)
       PROVE  /\ \A j \in 1..n : Place(buf[2 + j]) = Taken + j
              /\ n % 2 = 0
              /\ n > 2 => Len(buf) = n + 2
  <2>1. \A j \in 1..n : 2 + j \in 1..Len(buf)  BY <1>4, <1>15, <1>a
  <2>2. \A j \in 1..n : Place(buf[2 + j]) = Taken + j  BY <1>6, <1>10, <2>1
  <2>3. n + 2 \in 1..Len(buf)  BY <1>4, <1>15, <1>a
  <2>4. buf[n + 2] = Transit[n + 2] /\ buf[n + 2] \in Unit  BY <1>3, <1>6, <2>3
  <2>5. n % 2 = 0
    <3>1. n \in 1..n /\ 2 + n = n + 2  BY <1>10
    <3>2. Place(buf[n + 2]) = Taken + n  BY <2>2, <3>1
    <3>3. (Taken + n) % 2 = 0  BY <1>10, <2>4, <3>2, PlaceFacts
    <3>4. \A g \in Nat : (2 * g + n) % 2 = 0 => n % 2 = 0  BY <1>a
    <3> QED  BY <1>4, <1>5, <3>3, <3>4
  <2>6. ASSUME n > 2 PROVE Len(buf) = n + 2
    <3>1. buf[n + 2].end = "many"  BY <1>10, <2>4, <2>6
    <3>2. n + 2 \notin 1..(Len(buf) - 1)  BY <1>1, <3>1 DEF Cuts
    <3> QED  BY <1>4, <1>15, <1>a, <3>2
  <2> QED  BY <2>2, <2>5, <2>6
<1> QED  BY <1>4, <1>6, <1>10, <1>11, <1>13, <1>14, <1>15

\* decode() opens a token: one message, or several with nothing behind them.
LEMMA StreamToken ==
    ASSUME Agreed, Stream, Orderly, Decoding, wrap, ~decoded, buf # <<>>, DecodeToken
    PROVE  Stream'
<1> DEFINE n == buf[1].m
           us == Unwrapped(SubSeq(buf, HeaderSize + 1, HeaderSize + n))
           behind == From(buf, n + 3)
<1>1. UNCHANGED <<bind, wrap, wire, layer, ans, pend>> /\ drv = "running" /\ ~starved
  BY DecodeFrame DEF params, server
<1>2. Numbers /\ Pending /\ Underway /\ Cuts /\ Boundary  BY <1>1 DEF Stream, Whole
<1>3. UnitType /\ buf \in Seq(Unit) /\ wire \in Seq(Unit)  BY DEF Agreed, Types, UnitType
<1>4. HasHeader /\ Len(buf) - HeaderSize >= buf[1].m  BY DEF DecodeToken
<1>5. /\ n \in Nat /\ Len(buf) \in Nat /\ n + 2 <= Len(buf)
      /\ us \in Seq(Unit) /\ Len(us) = n
      /\ \A k \in 1..n : us[k] = Plain(buf[k + 2].m, buf[k + 2].i)
  BY <1>3, <1>4, TokenTypes
<1>6. HeaderSize + n + 1 = n + 3  BY <1>5 DEF HeaderSize
<1>7. PICK r \in DecodeInner(us) :
        /\ Yield(r)
        /\ buf' = IF Keeps(r.rest, behind) THEN r.rest ELSE behind
        /\ decoded' = Keeps(r.rest, behind)
  BY <1>6 DEF DecodeToken
<1> HIDE DEF us
<1>8. /\ n >= 2 /\ bind = "bound"
      /\ \A j \in 1..n : Place(buf[2 + j]) = Taken + j
      /\ n % 2 = 0
      /\ n > 2 => Len(buf) = n + 2
      /\ Chain(From(Transit, n + 3), Taken + n, Sent)
      /\ Transit \in Seq(Unit)
  <2>1. n = buf[1].m  OBVIOUS
  <2> HIDE DEF n
  <2> QED  BY <1>1, <1>5, <2>1, AtTokenFacts
<1> HIDE DEF n
<1>9. Len(got) \in Nat /\ Taken = 2 * Len(got) /\ Taken \in Int
  <2>1. Len(got) \in Nat  BY LenProperties DEF Agreed, Types, UnitType
  <2> QED  BY <2>1 DEF Taken, MessageSize
<1>10. Straight(us, Taken)
  <2> SUFFICES ASSUME NEW k \in 1..n
               PROVE  us[k].form = "plain" /\ us[k].end = "no" /\ Place(us[k]) = Taken + k
    BY <1>5 DEF Straight
  <2>1. us[k] = Plain(buf[2 + k].m, buf[2 + k].i)
    <3>1. k + 2 = 2 + k  BY <1>5
    <3> QED  BY <1>5, <3>1
  <2>2. Place(us[k]) = Place(buf[2 + k])  BY <2>1 DEF Place, Plain
  <2>3. us[k].form = "plain" /\ us[k].end = "no"  BY <2>1 DEF Plain
  <2> QED  BY <1>8, <2>2, <2>3
<1>a. us \in Seq(Unit)  BY <1>5
<1>11. r.res = "message" /\ r.m = Len(got) + 1 /\ r.rest = From(us, 3)
  <2>1. Straight(us, 2 * Len(got))  BY <1>9, <1>10
  <2>2. Len(us) >= 2  BY <1>5, <1>8
  <2>3. Len(got) \in Nat  BY <1>9
  <2> QED  BY <1>a, <2>1, <2>2, <2>3, StraightDecode
<1>12. /\ Numbers' /\ Taken' = Taken + 2 /\ Sent' = Sent /\ UNCHANGED <<drv, starved>>
       /\ Sent \in Int
  BY <1>1, <1>2, <1>7, <1>11, Takes
<1> DEFINE f == From(us, 3)
<1>13. f \in Seq(Unit) /\ Len(f) = n - 2 /\ Straight(f, Taken + 2)
  <2> DEFINE k == 3
  <2>0. Len(us) = n /\ n \in Nat /\ n >= 2  BY <1>5, <1>8
  <2>1. k \in Nat /\ k \in 1..(Len(us) + 1)  BY <2>0
  <2>2. Taken + k - 1 = Taken + 2 /\ n + 1 - k = n - 2  BY <1>9, <2>0
  <2> HIDE DEF k, Taken
  <2>3. Straight(From(us, k), Taken + k - 1)  BY <1>9, <1>10, <1>a, <2>1, StraightFrom
  <2>4. From(us, k) \in Seq(Unit) /\ Len(From(us, k)) = Len(us) + 1 - k
    BY <1>a, <2>1, FromFacts
  <2> QED  BY <2>0, <2>2, <2>3, <2>4 DEF k
<1>14. /\ n + 3 \in Nat /\ n + 3 \in 1..(Len(buf) + 1)
  BY <1>5
<1>15. behind \in Seq(Unit) /\ Len(behind) = Len(buf) - n - 2
       /\ behind \o wire = From(Transit, n + 3)
  <2> DEFINE k == n + 3
  <2>1. k \in Nat /\ k \in 1..(Len(buf) + 1)  BY <1>14
  <2>2. Len(buf) + 1 - k = Len(buf) - n - 2  BY <1>5
  <2> HIDE DEF k
  <2>3. From(buf, k) \in Seq(Unit) /\ Len(From(buf, k)) = Len(buf) + 1 - k
    BY <1>3, <2>1, FromFacts
  <2>4. From(buf, k) \o wire = From(buf \o wire, k)  BY <1>3, <2>1, TransitDrop
  <2> QED  BY <2>2, <2>3, <2>4 DEF k, Transit
<1> HIDE DEF f, behind
<1>16. /\ buf' = IF f # <<>> /\ behind = <<>> THEN f ELSE behind
       /\ decoded' = (f # <<>> /\ behind = <<>>)
  BY <1>7, <1>11 DEF Keeps, f
<1>17. Pending'
  <2>1. Straight(pend', Sent') /\ Len(pend') % MessageSize = 0 /\ wrap'
    BY <1>1, <1>2, <1>12 DEF Pending
  <2> QED  BY <2>1 DEF Pending, Straight
<1>18. Boundary'  BY <1>1, <1>8 DEF Boundary
<1>19. CASE n = 2
  <2>1. f = <<>>
    <3>1. Len(f) = 0  BY <1>13, <1>19
    <3> QED  BY <1>13, <3>1, EmptySeq
  <2>2. buf' = behind /\ ~decoded'  BY <1>16, <2>1
  <2>3. Underway'
    <3>1. Transit' = From(Transit, n + 3)  BY <1>1, <1>15, <2>2 DEF Transit
    <3>2. Chain(Transit', Taken + 2, Sent)  BY <1>8, <1>19, <3>1
    <3> HIDE DEF Transit, Taken, Sent, Chain, Straight
    <3>3. Chain(Transit', Taken', Sent') /\ wrap' /\ ~decoded'  BY <1>1, <1>12, <2>2, <3>2
    <3> QED  BY <3>3 DEF Underway, Chain, TokenAt, Straight
  <2>4. Cuts'
    <3>1. buf' = From(buf, n + 3)  BY <2>2 DEF behind
    <3> QED  BY <1>1, <1>2, <1>3, <1>14, <3>1, CutsFrom
  <2> QED  BY <1>1, <1>12, <1>17, <1>18, <2>3, <2>4 DEF Stream, Whole
<1>20. CASE n > 2
  <2>1. behind = <<>>
    <3>1. Len(buf) = n + 2  BY <1>8, <1>20
    <3>2. Len(behind) = 0  BY <1>5, <1>15, <3>1
    <3> QED  BY <1>15, <3>2, EmptySeq
  <2>2. f # <<>>
    <3>1. Len(f) # 0  BY <1>5, <1>13, <1>20
    <3> QED  BY <3>1
  <2>3. buf' = f /\ decoded'  BY <1>16, <2>1, <2>2
  <2>4. wire = From(Transit, n + 3)
    <3>1. <<>> \o wire = wire  BY <1>3
    <3> QED  BY <1>15, <2>1, <3>1
  <2>5. Chain(wire, (Taken + 2) + (n - 2), Sent)
    <3>1. (Taken + 2) + (n - 2) = Taken + n  BY <1>5, <1>9
    <3> QED  BY <1>8, <2>4, <3>1
  <2>6. (n - 2) % 2 = 0
    <3>1. n \in Nat /\ n % 2 = 0 /\ n > 2  BY <1>5, <1>8, <1>20
    <3> QED  BY <3>1
  <2>7. Underway'
    <3> HIDE DEF Transit, Taken, Sent, Chain, Straight
    <3>1. /\ decoded' /\ wrap' /\ buf' # <<>> /\ ~starved'
          /\ Straight(buf', Taken') /\ Len(buf') % MessageSize = 0
          /\ Chain(wire', Taken' + Len(buf'), Sent')
      BY <1>1, <1>12, <1>13, <2>2, <2>3, <2>5, <2>6 DEF MessageSize
    <3> QED  BY <3>1 DEF Underway, Chain, TokenAt, Straight
  <2>8. Cuts'
    <3>1. Straight(buf', Taken + 2) /\ buf' \in Seq(Unit) /\ wire' = wire
      BY <1>1, <1>13, <2>3
    <3> HIDE DEF Taken, Straight
    <3> QED  BY <1>2, <3>1, CutsStraight
  <2> QED  BY <1>1, <1>12, <1>17, <1>18, <2>7, <2>8 DEF Stream, Whole
<1>21. n = 2 \/ n > 2  BY <1>5, <1>8
<1> QED  BY <1>19, <1>20, <1>21

LEMMA StreamDecoding ==
    ASSUME Agreed, Stream, Orderly, Decoding
    PROVE  Stream'
<1>1. /\ UNCHANGED <<bind, wrap, wire, layer, ans, pend>> /\ drv = "running" /\ ~starved
  BY DecodeFrame DEF params, server
<1>2. CASE ~wrap  BY <1>2, StreamClear
<1>3. CASE wrap /\ decoded  BY <1>3, StreamKept
<1>4. CASE wrap /\ ~decoded /\ buf = <<>>
  <2>1. DecodePlain
    BY <1>4 DEF Decoding, DecodeKept, DecodeShort, DecodeMisread, DecodeWaits, DecodeNoCtx,
                DecodeToken, AtToken
  <2>2. PICK r \in DecodeInner(buf) : Yield(r) /\ buf' = r.rest /\ decoded' = decoded
    BY <2>1 DEF DecodePlain
  <2>3. buf \in Seq(Unit)  BY DEF Agreed, Types, UnitType
  <2>4. r.res = "none" /\ r.rest = buf  BY <1>4, <2>3, InnerNone
  <2>5. UNCHANGED <<buf, reply, got, drv>> /\ ~decoded' /\ ~decoded
    BY <1>4, <2>2, <2>4 DEF Yield
  <2> QED  BY <1>1, <2>5, StreamIdle
<1>5. CASE wrap /\ ~decoded /\ buf # <<>>
  <2>1. ctx /\ Len(buf) >= 2 /\ HasHeader /\ Len(buf) \in Nat
    <3> DEFINE n == buf[1].m
    <3>1. n = buf[1].m  OBVIOUS
    <3> HIDE DEF n
    <3> QED  BY <1>1, <1>5, <3>1, AtTokenFacts
  <2>2. ~DecodePlain /\ ~DecodeKept /\ ~DecodeNoCtx /\ ~DecodeMisread
    BY <1>5, <2>1 DEF DecodePlain, DecodeKept, DecodeNoCtx, DecodeMisread
  <2>3. ~DecodeShort
    <3>1. ~(Len(buf) < 2)  BY <2>1
    <3> QED  BY <3>1 DEF DecodeShort, HeaderSize
  <2>4. CASE DecodeToken  BY <1>5, <2>4, StreamToken
  <2>5. CASE DecodeWaits
    <3>1. UNCHANGED <<buf, reply, got, drv, decoded>>  BY <2>5 DEF DecodeWaits
    <3> QED  BY <1>1, <1>5, <3>1, StreamIdle
  <2> QED  BY <2>2, <2>3, <2>4, <2>5 DEF Decoding
<1> QED  BY <1>2, <1>3, <1>4, <1>5

LEMMA StreamAlways == Spec => [](Stream /\ Agreed)
<1>1. ASSUME Agreed, Agreed', Switch, Stream, [Next]_vars
      PROVE  Stream'
  <2>1. CASE ~Orderly'  BY <2>1 DEF Stream
  <2>2. CASE Orderly'
    <3>1. Orderly  BY <1>1, <2>2, OrderlyBack DEF Agreed, Types
    <3>2. CASE Aside  BY <1>1, <2>2, <3>1, <3>2, StreamAside
    <3>3. CASE Decoding  BY <1>1, <3>1, <3>3, StreamDecoding
    <3>4. CASE Read  BY <1>1, <2>2, <3>1, <3>4, StreamRead
    <3>5. CASE Serve  BY <1>1, <2>2, <3>1, <3>5, StreamServe
    <3>6. CASE MakeToken  BY <1>1, <2>2, <3>1, <3>6, StreamMakeToken
    <3>7. CASE Notify  BY <1>1, <2>2, <3>1, <3>7, StreamNotify
    <3> QED  BY <1>1, <3>2, <3>3, <3>4, <3>5, <3>6, <3>7, NextCases
  <2> QED  BY <2>1, <2>2
<1>2. Agreed /\ Agreed' /\ Switch /\ Stream /\ [Next]_vars => Stream'  BY <1>1
<1>3. Init /\ [][Next]_vars /\ [](Agreed /\ Switch) => []Stream  BY <1>2, StreamInit, PTL
<1> QED  BY <1>3, SwitchAlways, PTL DEF Spec

\* However the server cuts its messages into tokens and the network into reads,
\* as long as they are cut the way the codec provides for and nothing comes
\* between the two ends of the switch: decode() gives every message once, in
\* order and unchanged, before the layer, across its switch, and under it.
THEOREM DecodesInOrder == Spec => []Faithful
<1>1. Stream => Faithful  BY DEF Stream, Numbers, Faithful
<1> QED  BY <1>1, StreamAlways, PTL

\* Under the same conditions decode() and encode() neither report an invalid
\* buffer or a decoding error nor panic for want of a context.
THEOREM CodecNeverFails == Spec => []CodecSurvives
<1>1. Stream => CodecSurvives  BY DEF Stream, CodecSurvives
<1> QED  BY <1>1, StreamAlways, PTL
=============================================================================
