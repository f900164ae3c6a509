---------------------------- MODULE SaslLayerProofs ----------------------------
(***************************************************************************)
(* Theorems about SaslLayer, for any numbers of requests and replies, any  *)
(* sizes of tokens and any offers of the server.                           *)
(***************************************************************************)
EXTENDS SaslLayer, SequenceTheorems, TLAPS

-----------------------------------------------------------------------------
(* The inductive invariant *)

\* The units in transit belong to messages the server has sent.
Numbered(q) == \A k \in 1..Len(q) : q[k].form # "length" => q[k].m \in 1..Len(ans)

AllNumbered == Numbered(buf) /\ Numbered(wire) /\ Numbered(pend)

\* Lengths come with the tokens.
PendPlain == \A k \in 1..Len(pend) : pend[k].form = "plain"

\* What is on its way to the codec.
Transit == buf \o wire

IsHead(u) == u.form = "length" /\ u.i = 1

\* A length is followed by all of its token.
Followed(s) ==
    \A k \in 1..Len(s) : IsHead(s[k]) =>
        /\ k + 1 + s[k].m <= Len(s)
        /\ \A j \in (k + 2)..(k + 1 + s[k].m) : s[j].form = "wrapped"

\* The messages that the codec may still get in the clear.
IsFirst(u) == u.form = "plain" /\ u.i = 1
Firsts(q) == {q[k].m : k \in {j \in 1..Len(q) : IsFirst(q[j])}}
Once(q) == \A j, k \in 1..Len(q) :
    IsFirst(q[j]) /\ IsFirst(q[k]) /\ q[j].m = q[k].m => j = k

\* Each of them comes once.
ClearOnce == ~wrap => Once(Transit)

\* The answers to the bind among them.
Live == {m \in Firsts(Transit) : ans[m] # "op"}

\* The requests on their way: none of the bind, those of one of its steps, at
\* most one, and the layer that the last one asks for.
NoBindRequest == \A k \in 1..Len(up) : up[k].what = "op"
OnlyFor(b) == \A k \in 1..Len(up) : up[k].what \in {"op", b}
OneRequest == \A j, k \in 1..Len(up) : up[j].what # "op" /\ up[k].what # "op" => j = k
Wanting == \A k \in 1..Len(up) : up[k].what = "third" => up[k].wants = NeededLayer

\* What both sides take an answer to the third request to mean.
Settles(a) == layer <=> (a = "ok" /\ ~has_tls)

\* During the bind one thing is under way: a request, its answer, or the reply
\* that the driver has dispatched.
Round ==
    /\ OnlyFor(bind) /\ OneRequest
    /\ ~NoBindRequest => reply = "none" /\ Live = {} /\ ~layer
    /\ \A m, n \in Live : m = n
    /\ Live # {} => reply = "none"
    /\ bind = "third" => /\ \A m \in Live : Settles(ans[m])
                         /\ reply # "none" => Settles(reply)

Exchange ==
    /\ bind \in Waiting => Round
    /\ bind \in {"idle", "first", "second", "returned"} => ~layer
    /\ bind \in {"idle", "param", "bound", "returned"} => NoBindRequest
    /\ bind = "idle" => Live = {} /\ reply = "none"
    /\ bind \in {"param", "bound"} => layer = ~has_tls
    /\ wrap <=> bind \in {"param", "bound"} /\ ~has_tls
    /\ ctx <=> bind = "bound"
    /\ has_tls => ~layer
    /\ Wanting

\* Requests and the layer of the server, unless something came between the
\* two ends of the switch.
Gone == bind = "error" /\ drv # "running"

\* What the codec makes sure of: the form, and the size but for the wrapping.
Near(q) ==
    q.wrapped = layer /\ (layer /\ offer.max > 0 => q.size <= offer.max + Overhead)

AllFit == \A k \in 1..Len(up) : Near(up[k])

\* The request that stopped the server.
Stopper == misform => up # <<>> /\ ~Understands(Head(up))

ThirdLast ==
    \A k \in 1..Len(up) : up[k].what = "third" => k = Len(up) /\ (bind = "third" \/ Gone)

Switch ==
    ~torn =>
        /\ Stopper
        /\ AllFit /\ ThirdLast
        /\ layer => bind \in {"third", "param", "bound"} \/ Gone
        /\ layer /\ bind # "bound" => up = <<>>
        /\ wrap => send_max = offer.max

\* The place of a unit in all that the server has said.
Place(u) == MessageSize * (u.m - 1) + u.i

\* Units as they are in the clear.
Clear(s) == \A k \in 1..Len(s) : s[k].form = "plain" /\ s[k].end = "no"

-----------------------------------------------------------------------------
(* Sequences *)

LEMMA FromFacts ==
    ASSUME NEW S, NEW s \in Seq(S), NEW k \in Nat, k \in 1..(Len(s) + 1)
    PROVE  /\ From(s, k) \in Seq(S)
           /\ Len(From(s, k)) = Len(s) + 1 - k
           /\ \A j \in 1..(Len(s) + 1 - k) : From(s, k)[j] = s[j + k - 1]
BY DEF From

LEMMA PrefixFacts ==
    ASSUME NEW S, NEW s \in Seq(S), NEW n \in 0..Len(s)
    PROVE  /\ SubSeq(s, 1, n) \in Seq(S)
           /\ Len(SubSeq(s, 1, n)) = n
           /\ \A j \in 1..n : SubSeq(s, 1, n)[j] = s[j]
OBVIOUS

LEMMA ConcatFacts ==
    ASSUME NEW S, NEW s \in Seq(S), NEW t \in Seq(S)
    PROVE  /\ s \o t \in Seq(S)
           /\ Len(s \o t) = Len(s) + Len(t)
           /\ \A j \in 1..Len(s) : (s \o t)[j] = s[j]
           /\ \A j \in 1..Len(t) : (s \o t)[Len(s) + j] = t[j]
           /\ \A j \in 1..(Len(s) + Len(t)) :
                j \in 1..Len(s) \/ (j - Len(s) \in 1..Len(t) /\ (s \o t)[j] = t[j - Len(s)])
OBVIOUS

LEMMA ConcatTail ==
    ASSUME NEW S, NEW s \in Seq(S), NEW t \in Seq(S), NEW j \in 1..Len(t)
    PROVE  (s \o t)[Len(s) + j] = t[j]
OBVIOUS

LEMMA SameSeq ==
    ASSUME NEW S, NEW s \in Seq(S), NEW t \in Seq(S), Len(s) = Len(t),
           \A k \in 1..Len(s) : s[k] = t[k]
    PROVE  s = t
OBVIOUS

LEMMA FunSeq ==
    ASSUME NEW S, NEW n \in Nat, NEW f, f \in [1..n -> S]
    PROVE  f \in Seq(S) /\ Len(f) = n
OBVIOUS

-----------------------------------------------------------------------------
(* Units *)

LEMMA HeaderFacts ==
    ASSUME NEW n \in Nat
    PROVE  /\ Header(n) \in Seq(Unit) /\ Len(Header(n)) = 2
           /\ \A k \in 1..2 :
                Header(n)[k] = [form |-> "length", m |-> n, i |-> k, end |-> "no"]
<1>1. Header(n) \in [1..2 -> Unit]  BY DEF Header, HeaderSize, Unit
<1>2. Header(n) \in Seq(Unit) /\ Len(Header(n)) = 2  BY <1>1, FunSeq
<1> QED  BY <1>2 DEF Header, HeaderSize

LEMMA EncodedFacts ==
    ASSUME NEW m \in Nat
    PROVE  /\ Encoded(m) \in Seq(Unit) /\ Len(Encoded(m)) = 2
           /\ Encoded(m)[1] = Plain(m, 1) /\ Encoded(m)[2] = Plain(m, 2)
<1>1. Plain(m, 1) \in Unit /\ Plain(m, 2) \in Unit  BY DEF Plain, Unit
<1> HIDE DEF Plain
<1> QED  BY <1>1 DEF Encoded

LEMMA UnwrappedFacts ==
    ASSUME NEW us \in Seq(Unit)
    PROVE  /\ Unwrapped(us) \in Seq(Unit) /\ Len(Unwrapped(us)) = Len(us)
           /\ \A k \in 1..Len(us) : Unwrapped(us)[k] = Plain(us[k].m, us[k].i)
<1>0. Len(us) \in Nat /\ \A k \in 1..Len(us) : us[k] \in Unit  OBVIOUS
<1>1. \A k \in 1..Len(us) : Plain(us[k].m, us[k].i) \in Unit  BY <1>0 DEF Plain, Unit
<1>2. Unwrapped(us) \in [1..Len(us) -> Unit]  BY <1>1 DEF Unwrapped
<1>3. Unwrapped(us) \in Seq(Unit) /\ Len(Unwrapped(us)) = Len(us)
  BY <1>0, <1>2, FunSeq
<1> QED  BY <1>3 DEF Unwrapped

\* The end mark of the k-th unit of a token that holds us.
Mark(us, k) ==
    IF k < Len(us) THEN "no" ELSE IF us[1].m = us[k].m THEN "one" ELSE "many"

LEMMA WrappedFacts ==
    ASSUME NEW us \in Seq(Unit)
    PROVE  /\ Wrapped(us) \in Seq(Unit) /\ Len(Wrapped(us)) = 2 + Len(us)
           /\ Wrapped(us)[1] = Header(Len(us))[1] /\ Wrapped(us)[2] = Header(Len(us))[2]
           /\ \A k \in 1..Len(us) :
                Wrapped(us)[2 + k] = [form |-> "wrapped", m |-> us[k].m, i |-> us[k].i,
                                      end |-> Mark(us, k)]
<1> DEFINE b == [k \in 1..Len(us) |->
                   [us[k] EXCEPT !.form = "wrapped",
                                 !.end = IF k < Len(us) THEN "no"
                                         ELSE IF us[1].m = us[k].m THEN "one" ELSE "many"]]
           w(k) == [form |-> "wrapped", m |-> us[k].m, i |-> us[k].i, end |-> Mark(us, k)]
           h == Header(Len(us))
<1>1. Len(us) \in Nat /\ \A k \in 1..Len(us) : us[k] \in Unit  OBVIOUS
<1>2. \A k \in 1..Len(us) : b[k] = w(k)  BY <1>1 DEF Unit, Mark
<1>3. \A k \in 1..Len(us) : w(k) \in Unit  BY <1>1 DEF Unit, Mark
<1>4. b \in [1..Len(us) -> Unit]
  <2>1. DOMAIN b = 1..Len(us) /\ b = [k \in DOMAIN b |-> b[k]]  OBVIOUS
  <2> HIDE DEF b, w
  <2>2. \A k \in 1..Len(us) : b[k] \in Unit  BY <1>2, <1>3
  <2> QED  BY <2>1, <2>2
<1>5. Wrapped(us) = h \o b  BY DEF Wrapped
<1>6. h \in Seq(Unit) /\ Len(h) = 2  BY <1>1, HeaderFacts
<1>7. b \in Seq(Unit) /\ Len(b) = Len(us)
  <2> HIDE DEF b
  <2> QED  BY <1>1, <1>4, FunSeq
<1> HIDE DEF b, h, w
<1>8. /\ h \o b \in Seq(Unit) /\ Len(h \o b) = 2 + Len(us)
      /\ (h \o b)[1] = h[1] /\ (h \o b)[2] = h[2]
      /\ \A k \in 1..Len(us) : (h \o b)[2 + k] = b[k]
  <2>1. /\ h \o b \in Seq(Unit)
        /\ Len(h \o b) = Len(h) + Len(b)
        /\ \A j \in 1..Len(h) : (h \o b)[j] = h[j]
        /\ \A j \in 1..Len(b) : (h \o b)[Len(h) + j] = b[j]
    <3>1. h \in Seq(Unit) /\ b \in Seq(Unit)  BY <1>6, <1>7
    <3> QED  BY <3>1, ConcatFacts
  <2> DEFINE c == h \o b
  <2> HIDE DEF c
  <2>2. c \in Seq(Unit) /\ Len(c) = 2 + Len(us) /\ c[1] = h[1] /\ c[2] = h[2]
    BY <1>1, <1>6, <1>7, <2>1 DEF c
  <2>3. \A k \in 1..Len(us) : c[2 + k] = b[k]  BY <1>1, <1>6, <1>7, <2>1 DEF c
  <2> QED  BY <2>2, <2>3 DEF c
<1>9. \A k \in 1..Len(us) : Wrapped(us)[2 + k] = w(k)  BY <1>2, <1>5, <1>8
<1> QED  BY <1>5, <1>8, <1>9 DEF h, w

\* The results of decode_inner.
LEMMA InnerFacts ==
    ASSUME NEW b \in Seq(Unit), NEW r \in DecodeInner(b)
    PROVE  /\ r.res \in {"none", "message", "garbled", "panicked"} /\ r.rest \in Seq(Unit)
           /\ \/ r.res # "message" /\ r.rest = b
              \/ r.res = "message" /\ r.m = 0 /\ r.rest = <<>>
              \/ /\ r.res = "message" /\ Len(b) >= 2 /\ r.m = b[1].m
                 /\ b[1] = Plain(r.m, 1) /\ b[2] = Plain(r.m, 2) /\ r.rest = From(b, 3)
<1>1. CASE b = <<>> \/ (Len(b) = 1 /\ b[1] = Plain(b[1].m, 1))
  BY <1>1 DEF DecodeInner, Parsed
<1>2. CASE /\ ~(b = <<>> \/ (Len(b) = 1 /\ b[1] = Plain(b[1].m, 1)))
           /\ Len(b) >= MessageSize /\ SubSeq(b, 1, MessageSize) = Encoded(b[1].m)
  <2>1. r = Parsed("message", b[1].m, From(b, 3))  BY <1>2 DEF DecodeInner, MessageSize
  <2>2. r.res = "message" /\ r.m = b[1].m /\ r.rest = From(b, 3)  BY <2>1 DEF Parsed
  <2>3. Len(b) >= 2 /\ SubSeq(b, 1, 2) = Encoded(b[1].m)  BY <1>2 DEF MessageSize
  <2>0. b[1] \in Unit  BY <2>3
  <2>4. b[1].m \in Nat  BY <2>0 DEF Unit
  <2>5. SubSeq(b, 1, 2)[1] = b[1] /\ SubSeq(b, 1, 2)[2] = b[2]  BY <2>3
  <2>6. b[1] = Plain(b[1].m, 1) /\ b[2] = Plain(b[1].m, 2)
    BY <2>3, <2>4, <2>5, EncodedFacts
  <2>7. From(b, 3) \in Seq(Unit)  BY <2>3, FromFacts
  <2> QED  BY <2>2, <2>3, <2>6, <2>7
<1>3. CASE /\ ~(b = <<>> \/ (Len(b) = 1 /\ b[1] = Plain(b[1].m, 1)))
           /\ ~(Len(b) >= MessageSize /\ SubSeq(b, 1, MessageSize) = Encoded(b[1].m))
  <2>1. r \in {Parsed("garbled", 0, b), Parsed("panicked", 0, b), Parsed("none", 0, b),
               Parsed("message", 0, <<>>)}
    BY <1>3 DEF DecodeInner
  <2>2. CASE r \in {Parsed("garbled", 0, b), Parsed("panicked", 0, b), Parsed("none", 0, b)}
    BY <2>2 DEF Parsed
  <2>3. CASE r = Parsed("message", 0, <<>>)
    <3>1. r.res = "message" /\ r.m = 0 /\ r.rest = <<>>  BY <2>3 DEF Parsed
    <3> QED  BY <3>1
  <2> QED  BY <2>1, <2>2, <2>3
<1> QED  BY <1>1, <1>2, <1>3

LEMMA InnerNone ==
    ASSUME NEW b \in Seq(Unit), NEW r \in DecodeInner(b),
           b = <<>> \/ (Len(b) = 1 /\ b[1] = Plain(b[1].m, 1))
    PROVE  r.res = "none" /\ r.rest = b
BY DEF DecodeInner, Parsed

LEMMA InnerMessage ==
    ASSUME NEW b \in Seq(Unit), NEW r \in DecodeInner(b), Len(b) >= 2,
           b[1] = Plain(b[1].m, 1), b[2] = Plain(b[1].m, 2)
    PROVE  r.res = "message" /\ r.m = b[1].m /\ r.rest = From(b, 3)
<1>0. b[1] \in Unit  OBVIOUS
<1>1. b[1].m \in Nat  BY <1>0 DEF Unit
<1>2. SubSeq(b, 1, 2) \in Seq(Unit) /\ Len(SubSeq(b, 1, 2)) = 2
  OBVIOUS
<1>3. SubSeq(b, 1, 2)[1] = b[1] /\ SubSeq(b, 1, 2)[2] = b[2]  OBVIOUS
<1> DEFINE e == Encoded(b[1].m)
           c == SubSeq(b, 1, 2)
<1>4. e \in Seq(Unit) /\ Len(e) = 2 /\ e[1] = b[1] /\ e[2] = b[2]
  BY <1>1, EncodedFacts
<1>5. c = e
  <2>1. c \in Seq(Unit) /\ Len(c) = 2 /\ c[1] = b[1] /\ c[2] = b[2]  BY <1>2, <1>3
  <2> HIDE DEF c, e
  <2>2. \A k \in 1..Len(c) : c[k] = e[k]  BY <1>4, <2>1
  <2> QED  BY <1>4, <2>1, <2>2, SameSeq
<1>6. r = Parsed("message", b[1].m, From(b, 3))
  BY <1>5 DEF DecodeInner, MessageSize
<1> QED  BY <1>6 DEF Parsed

\* The units of the messages as, the next ones the server sends.
NewUnits(as) ==
    [k \in 1..(MessageSize * Len(as)) |->
       Plain(Len(ans) + 1 + (k - 1) \div MessageSize, 1 + ((k - 1) % MessageSize))]

LEMMA NewUnitsFacts ==
    ASSUME NEW S, ans \in Seq(S), NEW as \in Seq(S)
    PROVE  /\ NewUnits(as) \in Seq(Unit) /\ Len(NewUnits(as)) = 2 * Len(as)
           /\ \A k \in 1..(2 * Len(as)) :
                /\ NewUnits(as)[k].form = "plain" /\ NewUnits(as)[k].end = "no"
                /\ NewUnits(as)[k].m \in (Len(ans) + 1)..(Len(ans) + Len(as))
                /\ NewUnits(as)[k].i = 1 + ((k - 1) % 2)
                /\ Place(NewUnits(as)[k]) = 2 * Len(ans) + k
<1> DEFINE n == Len(as)
           l == Len(ans)
           u(k) == Plain(l + 1 + (k - 1) \div 2, 1 + ((k - 1) % 2))
<1>0. n \in Nat /\ l \in Nat  BY LenProperties
<1>1. NewUnits(as) = [k \in 1..(2 * n) |-> u(k)]  BY DEF NewUnits, MessageSize
<1> HIDE DEF n, l
<1>2. ASSUME NEW k \in 1..(2 * n)
      PROVE  /\ u(k) \in Unit /\ u(k).form = "plain" /\ u(k).end = "no"
             /\ u(k).m \in (l + 1)..(l + n) /\ u(k).i = 1 + ((k - 1) % 2)
             /\ Place(u(k)) = 2 * l + k
  <2> DEFINE d == (k - 1) \div 2
             e == (k - 1) % 2
  <2>1. d \in 0..(n - 1) /\ e \in 0..1 /\ 2 * d + e = k - 1  BY <1>0
  <2>2. u(k) = [form |-> "plain", m |-> l + 1 + d, i |-> 1 + e, end |-> "no"]
    BY DEF Plain
  <2> HIDE DEF d, e
  <2>3. l + 1 + d \in (l + 1)..(l + n) /\ 1 + e \in 1..2 /\ l + 1 + d \in Nat
    BY <1>0, <2>1
  <2>4. 2 * ((l + 1 + d) - 1) + (1 + e) = 2 * l + k  BY <1>0, <2>1
  <2> DEFINE v == u(k)
  <2>5. v.form = "plain" /\ v.m = l + 1 + d /\ v.i = 1 + e /\ v.end = "no" /\ v \in Unit
    BY <2>2, <2>3 DEF Unit
  <2> HIDE DEF v
  <2>6. Place(v) = 2 * l + k  BY <2>4, <2>5 DEF Place, MessageSize
  <2> QED  BY <2>3, <2>5, <2>6 DEF v, e
<1> HIDE DEF u
<1>3. NewUnits(as) \in [1..(2 * n) -> Unit]  BY <1>1, <1>2
<1>4. NewUnits(as) \in Seq(Unit) /\ Len(NewUnits(as)) = 2 * n
  <2>1. 2 * n \in Nat  BY <1>0
  <2> QED  BY <1>3, <2>1, FunSeq
<1>5. \A k \in 1..(2 * n) : NewUnits(as)[k] = u(k)  BY <1>1
<1> QED  BY <1>2, <1>4, <1>5 DEF n, l

LEMMA AnsweringFacts ==
    ASSUME NEW as, Answering(as)
    PROVE  /\ ans' = ans \o as
           /\ layer => pend' = pend \o NewUnits(as) /\ wire' = wire
           /\ ~layer => wire' = wire \o NewUnits(as) /\ pend' = pend
BY DEF Answering, NewUnits

-----------------------------------------------------------------------------
(* Type correctness *)

FlagType ==
    /\ has_tls \in BOOLEAN /\ wrap \in BOOLEAN /\ ctx \in BOOLEAN
    /\ decoded \in BOOLEAN /\ starved \in BOOLEAN /\ layer \in BOOLEAN
    /\ untidy \in BOOLEAN /\ torn \in BOOLEAN /\ misform \in BOOLEAN

StateType ==
    /\ bind \in Waiting \cup {"idle", "param", "bound", "returned", "error", "panicked",
                             "dropped"}
    /\ reply \in Answers \cup {"none"}
    /\ drv \in {"running", "closed", "toolarge", "invalid", "garbled", "panicked",
              "nocontext"}

SizeType ==
    /\ send_max \in MaxSizes /\ offer.max \in MaxSizes
    /\ ops \in 0..MaxOps
    /\ send_max > 0 => wrap
    /\ decoded => wrap

Requested ==
    [wrapped : BOOLEAN, what : Waiting \cup {"op"}, wants : Layers,
     size : 1..(MessageSize + Overhead)]

UnitType ==
    /\ buf \in Seq(Unit) /\ wire \in Seq(Unit) /\ pend \in Seq(Unit)
    /\ ans \in Seq(Answers \cup {"op"})
    /\ got \in Seq(0..Len(ans))
    /\ AllNumbered /\ PendPlain
    /\ Followed(Transit)

Types == FlagType /\ StateType /\ SizeType /\ UnitType /\ up \in Seq(Requested)

LEMMA TypesOK == Types => TypeOK
BY DEF Types, TypeOK, FlagType, StateType, SizeType, Requested, UnitType

\* Wrapping adds no more than Overhead, and no less than nothing.
LEMMA SentSizeFacts ==
    ASSUME NEW size \in 1..MessageSize, wrap \in BOOLEAN
    PROVE  /\ SentSize(size) \in 1..(MessageSize + Overhead)
           /\ SentSize(size) \in Nat /\ size \in Nat /\ SentSize(size) <= size + Overhead
BY OverheadAssumption DEF SentSize, MessageSize

LEMMA InitTypes == Init => Types
<1> SUFFICES ASSUME Init PROVE Types
  OBVIOUS
<1> USE DEF Init
<1>1. FlagType  BY DEF FlagType
<1>2. StateType  BY DEF StateType
<1>3. SizeType  BY MaxSizesAssumption, BoundsAssumption DEF SizeType
<1>4. UnitType
  <2>1. Transit = <<>>  BY DEF Transit
  <2> QED  BY <2>1 DEF UnitType, AllNumbered, PendPlain, Numbered, Followed
<1> QED  BY <1>1, <1>2, <1>3, <1>4 DEF Types

\* What an action leaves alone.
LEMMA FlagStep ==
    ASSUME FlagType, [Next]_vars
    PROVE  FlagType'
<1> USE DEF FlagType, params, codec, server, history, vars, Returns, Requests
<1>1. CASE BindBegins \/ BindSteps \/ BindChooses \/ BindSetsCtx \/ BindFails \/ BindLost
  <2>1. CASE BindBegins  BY <2>1 DEF BindBegins
  <2>2. CASE BindSteps  BY <2>2 DEF BindSteps
  <2>3. CASE BindChooses  BY <2>3 DEF BindChooses
  <2>4. CASE BindSetsCtx  BY <2>4 DEF BindSetsCtx
  <2>5. CASE BindFails  BY <2>5 DEF BindFails
  <2>6. CASE BindLost  BY <2>6 DEF BindLost
  <2> QED  BY <1>1, <2>1, <2>2, <2>3, <2>4, <2>5, <2>6
<1>2. CASE BindSetsParam  BY <1>2 DEF BindSetsParam, Installs
<1>3. CASE BindDropped  BY <1>3 DEF BindDropped
<1>4. ASSUME NEW size, Send(size) PROVE FlagType'  BY <1>4 DEF Send
<1>5. CASE Decoding
  <2>1. CASE DecodePlain  BY <2>1 DEF DecodePlain, Yield
  <2>2. CASE DecodeKept  BY <2>2 DEF DecodeKept, Yield, StillDecoded
  <2>3. CASE DecodeShort  BY <2>3 DEF DecodeShort
  <2>4. CASE DecodeToken  BY <2>4 DEF DecodeToken, Yield, Keeps
  <2>5. CASE DecodeMisread  BY <2>5 DEF DecodeMisread
  <2>6. CASE DecodeWaits  BY <2>6 DEF DecodeWaits
  <2>7. CASE DecodeNoCtx  BY <2>7 DEF DecodeNoCtx
  <2> QED  BY <1>5, <2>1, <2>2, <2>3, <2>4, <2>5, <2>6, <2>7 DEF Decoding
<1>6. CASE Read  BY <1>6 DEF Read, BehindMany, CutInLength
<1>7. CASE Serve  BY <1>7 DEF Serve
<1>8. CASE Misunderstands \/ Notify \/ Breaks
  <2>1. CASE Misunderstands  BY <2>1 DEF Misunderstands
  <2>2. CASE Notify  BY <2>2 DEF Notify
  <2>3. CASE Breaks  BY <2>3 DEF Breaks
  <2> QED  BY <1>8, <2>1, <2>2, <2>3
<1>9. CASE MakeToken  BY <1>9 DEF MakeToken
<1>10. CASE UNCHANGED vars  BY <1>10
<1> QED
  BY <1>1, <1>2, <1>3, <1>4, <1>5, <1>6, <1>7, <1>8, <1>9, <1>10 DEF Next, Binding

LEMMA DecodeFrame ==
    ASSUME Decoding
    PROVE  /\ UNCHANGED <<has_tls, bind, params, up, ops, wire, server, history>>
           /\ drv = "running" /\ ~starved
BY DEF Decoding, DecodePlain, DecodeKept, DecodeShort, DecodeMisread, DecodeWaits,
       DecodeNoCtx, DecodeToken, AtToken, CanDecode

LEMMA NumberedFrom ==
    ASSUME NEW s \in Seq(Unit), Numbered(s), NEW k \in Nat, k \in 1..(Len(s) + 1)
    PROVE  From(s, k) \in Seq(Unit) /\ Numbered(From(s, k))
<1> DEFINE f == From(s, k)
<1>1. /\ f \in Seq(Unit) /\ Len(f) = Len(s) + 1 - k
      /\ \A j \in 1..(Len(s) + 1 - k) : f[j] = s[j + k - 1]
  BY FromFacts
<1> HIDE DEF f
<1>2. \A j \in 1..Len(f) : j + k - 1 \in 1..Len(s) /\ f[j] = s[j + k - 1]  BY <1>1
<1>3. Numbered(f)  BY <1>2 DEF Numbered
<1> QED  BY <1>1, <1>3 DEF f

LEMMA NumberedConcat ==
    ASSUME NEW s \in Seq(Unit), NEW t \in Seq(Unit), Numbered(s), Numbered(t)
    PROVE  s \o t \in Seq(Unit) /\ Numbered(s \o t)
<1> DEFINE c == s \o t
<1>1. c \in Seq(Unit) /\ \A j \in 1..Len(c) :
         (j \in 1..Len(s) /\ c[j] = s[j]) \/ (j - Len(s) \in 1..Len(t) /\ c[j] = t[j - Len(s)])
  OBVIOUS
<1> HIDE DEF c
<1>2. Numbered(c)  BY <1>1 DEF Numbered
<1> QED  BY <1>1, <1>2 DEF c

LEMMA NumberedUnwrapped ==
    ASSUME NEW s \in Seq(Unit), NEW a \in Nat, NEW b \in Nat, 1 <= a, b <= Len(s),
           Numbered(s), \A k \in a..b : s[k].form # "length"
    PROVE  /\ Unwrapped(SubSeq(s, a, b)) \in Seq(Unit)
           /\ Numbered(Unwrapped(SubSeq(s, a, b)))
<1> DEFINE t == SubSeq(s, a, b)
           u == Unwrapped(t)
<1>1. t \in Seq(Unit) /\ \A j \in 1..Len(t) : j + a - 1 \in a..b /\ t[j] = s[j + a - 1]
  OBVIOUS
<1> HIDE DEF t
<1>2. u \in Seq(Unit) /\ Len(u) = Len(t) /\ \A j \in 1..Len(t) : u[j] = Plain(t[j].m, t[j].i)
  BY <1>1, UnwrappedFacts
<1> HIDE DEF u
<1>3. \A j \in 1..Len(u) : u[j].m \in 1..Len(ans)
  <2> SUFFICES ASSUME NEW j \in 1..Len(u) PROVE u[j].m \in 1..Len(ans)
    OBVIOUS
  <2>1. j \in 1..Len(t)  BY <1>2
  <2>2. j + a - 1 \in a..b /\ t[j] = s[j + a - 1] /\ u[j] = Plain(t[j].m, t[j].i)
    BY <1>1, <1>2, <2>1
  <2>3. j + a - 1 \in 1..Len(s)  BY <2>2
  <2>4. s[j + a - 1].m \in 1..Len(ans)  BY <2>2, <2>3 DEF Numbered
  <2>5. u[j].m = t[j].m  BY <2>2 DEF Plain
  <2> QED  BY <2>2, <2>4, <2>5
<1> QED  BY <1>2, <1>3 DEF Numbered, u, t

LEMMA FollowedFrom ==
    ASSUME NEW s \in Seq(Unit), Followed(s), NEW k \in Nat, k \in 1..(Len(s) + 1)
    PROVE  Followed(From(s, k))
<1> DEFINE f == From(s, k)
<1>1. /\ f \in Seq(Unit) /\ Len(f) = Len(s) + 1 - k
      /\ \A j \in 1..(Len(s) + 1 - k) : f[j] = s[j + k - 1]
  BY FromFacts
<1> HIDE DEF f
<1>2. Len(s) \in Nat /\ \A j \in 1..Len(s) : s[j] \in Unit  OBVIOUS
<1> SUFFICES ASSUME NEW j \in 1..Len(f), IsHead(f[j])
             PROVE  /\ j + 1 + f[j].m <= Len(f)
                    /\ \A h \in (j + 2)..(j + 1 + f[j].m) : f[h].form = "wrapped"
  BY DEF Followed, f
<1> DEFINE i == j + k - 1
<1>3. i \in 1..Len(s) /\ s[i] = f[j] /\ j \in Nat  BY <1>1, <1>2
<1>4. s[i].m \in Nat  BY <1>2, <1>3 DEF Unit
<1> DEFINE n == s[i].m
<1>5. i + 1 + n <= Len(s) /\ \A h \in (i + 2)..(i + 1 + n) : s[h].form = "wrapped"
  BY <1>3 DEF Followed
<1> HIDE DEF n
<1>6. j + 1 + n <= Len(f)  BY <1>1, <1>2, <1>3, <1>4, <1>5 DEF n
<1>7. ASSUME NEW h \in (j + 2)..(j + 1 + n) PROVE f[h].form = "wrapped"
  <2>1. h \in 1..Len(f) /\ h + k - 1 \in (i + 2)..(i + 1 + n)
    <3>1. n \in Nat  BY <1>4 DEF n
    <3>2. Len(f) = Len(s) + 1 - k  BY <1>1
    <3> QED  BY <1>2, <1>3, <1>6, <3>1, <3>2
  <2>2. h \in 1..(Len(s) + 1 - k)  BY <1>1, <2>1
  <2>3. f[h] = s[h + k - 1]  BY <1>1, <2>2
  <2>4. s[h + k - 1].form = "wrapped"  BY <1>5, <2>1 DEF n
  <2> QED  BY <2>3, <2>4
<1> QED  BY <1>3, <1>6, <1>7 DEF n

LEMMA FollowedConcat ==
    ASSUME NEW s \in Seq(Unit), NEW t \in Seq(Unit), Followed(s), Followed(t)
    PROVE  Followed(s \o t)
<1> DEFINE c == s \o t
<1>1. /\ c \in Seq(Unit) /\ Len(c) = Len(s) + Len(t)
      /\ \A j \in 1..Len(c) :
           (j \in 1..Len(s) /\ c[j] = s[j]) \/ (j - Len(s) \in 1..Len(t) /\ c[j] = t[j - Len(s)])
      /\ \A j \in 1..Len(s) : c[j] = s[j]
      /\ \A j \in 1..Len(t) : c[Len(s) + j] = t[j]
  OBVIOUS
<1> HIDE DEF c
<1>2. Len(s) \in Nat /\ Len(t) \in Nat /\ \A j \in 1..Len(c) : c[j] \in Unit  BY <1>1
<1> SUFFICES ASSUME NEW k \in 1..Len(c), IsHead(c[k])
             PROVE  /\ k + 1 + c[k].m <= Len(c)
                    /\ \A j \in (k + 2)..(k + 1 + c[k].m) : c[j].form = "wrapped"
  BY DEF Followed, c
<1>3. c[k].m \in Nat /\ k \in Nat  BY <1>2 DEF Unit
<1> DEFINE n == c[k].m
<1>4. CASE k \in 1..Len(s) /\ c[k] = s[k]
  <2>1. k + 1 + n <= Len(s) /\ \A j \in (k + 2)..(k + 1 + n) : s[j].form = "wrapped"
    BY <1>4 DEF Followed
  <2> HIDE DEF n
  <2>2. n \in Nat  BY <1>3 DEF n
  <2>3. k + 1 + n <= Len(c)  BY <1>1, <1>2, <1>3, <2>1, <2>2
  <2>4. \A j \in (k + 2)..(k + 1 + n) : j \in 1..Len(s)  BY <1>2, <1>3, <2>1, <2>2
  <2> QED  BY <1>1, <2>1, <2>3, <2>4 DEF n
<1>5. CASE k - Len(s) \in 1..Len(t) /\ c[k] = t[k - Len(s)]
  <2> DEFINE i == k - Len(s)
  <2>1. i + 1 + n <= Len(t) /\ \A j \in (i + 2)..(i + 1 + n) : t[j].form = "wrapped"
    BY <1>5 DEF Followed
  <2> HIDE DEF n
  <2>2. n \in Nat  BY <1>3 DEF n
  <2>3. k + 1 + n <= Len(c)  BY <1>1, <1>2, <1>3, <2>1, <2>2
  <2>4. ASSUME NEW j \in (k + 2)..(k + 1 + n) PROVE c[j].form = "wrapped"
    <3>1. j - Len(s) \in (i + 2)..(i + 1 + n) /\ j - Len(s) \in 1..Len(t)
      BY <1>2, <1>3, <1>5, <2>1, <2>2
    <3>2. c[Len(s) + (j - Len(s))] = t[j - Len(s)] /\ Len(s) + (j - Len(s)) = j
      BY <1>1, <1>2, <3>1
    <3> QED  BY <2>1, <3>1, <3>2
  <2> QED  BY <2>3, <2>4 DEF n
<1> QED  BY <1>1, <1>4, <1>5

LEMMA FollowedClear ==
    ASSUME NEW s, Clear(s)
    PROVE  Followed(s)
BY DEF Clear, Followed, IsHead

\* What is on its way, through a read, a decoded prefix and an answer.
LEMMA TransitRead ==
    ASSUME NEW s \in Seq(Unit), NEW t \in Seq(Unit), NEW n \in 1..Len(t)
    PROVE  /\ s \o SubSeq(t, 1, n) \in Seq(Unit) /\ From(t, n + 1) \in Seq(Unit)
           /\ (s \o SubSeq(t, 1, n)) \o From(t, n + 1) = s \o t
<1> DEFINE p == SubSeq(t, 1, n)
           f == From(t, n + 1)
<1>0. Len(t) \in Nat /\ Len(s) \in Nat /\ n \in Nat  OBVIOUS
<1>1. p \in Seq(Unit) /\ Len(p) = n /\ \A j \in 1..n : p[j] = t[j]  BY PrefixFacts
<1>2. f \in Seq(Unit) /\ Len(f) = Len(t) - n /\ \A j \in 1..(Len(t) - n) : f[j] = t[j + n]
  BY <1>0, FromFacts DEF From
<1> HIDE DEF p, f
<1> DEFINE c == s \o p
           d == c \o f
           e == s \o t
<1>3. /\ c \in Seq(Unit) /\ Len(c) = Len(s) + Len(p)
      /\ \A j \in 1..Len(s) : c[j] = s[j]
      /\ \A j \in 1..Len(p) : c[Len(s) + j] = p[j]
  <2>1. p \in Seq(Unit)  BY <1>1
  <2> QED  BY <2>1, ConcatFacts
<1>4. /\ e \in Seq(Unit) /\ Len(e) = Len(s) + Len(t)
      /\ \A j \in 1..Len(s) : e[j] = s[j]
      /\ \A j \in 1..Len(t) : e[Len(s) + j] = t[j]
  BY ConcatFacts
<1> HIDE DEF c, e
<1>5. /\ d \in Seq(Unit) /\ Len(d) = Len(c) + Len(f)
      /\ \A j \in 1..Len(c) : d[j] = c[j]
      /\ \A j \in 1..Len(f) : d[Len(c) + j] = f[j]
  <2>1. c \in Seq(Unit) /\ f \in Seq(Unit)  BY <1>2, <1>3
  <2> QED  BY <2>1, ConcatFacts
<1> HIDE DEF d
<1>6. Len(d) = Len(e)  BY <1>0, <1>1, <1>2, <1>3, <1>4, <1>5
<1>7. ASSUME NEW k \in 1..Len(d) PROVE d[k] = e[k]
  <2>1. CASE k \in 1..Len(s)
    <3>1. k \in 1..Len(c)  BY <1>0, <1>1, <1>3, <2>1
    <3> QED  BY <1>3, <1>4, <1>5, <2>1, <3>1
  <2>2. CASE k - Len(s) \in 1..n
    <3> DEFINE j == k - Len(s)
    <3>1. j \in 1..Len(p) /\ j \in 1..Len(t) /\ k = Len(s) + j /\ k \in 1..Len(c)
      BY <1>0, <1>1, <1>3, <2>2
    <3> HIDE DEF j
    <3>2. c[k] = p[j] /\ e[k] = t[j] /\ d[k] = c[k]  BY <1>3, <1>4, <1>5, <3>1
    <3>3. p[j] = t[j]  BY <1>1, <3>1
    <3> QED  BY <3>2, <3>3
  <2>3. CASE k - Len(s) - n \in 1..Len(f)
    <3> DEFINE j == k - Len(s) - n
    <3>1. j \in 1..Len(f) /\ j \in 1..(Len(t) - n) /\ k = Len(c) + j
      BY <1>0, <1>1, <1>2, <1>3, <2>3
    <3>2. j + n \in 1..Len(t) /\ k = Len(s) + (j + n)  BY <1>0, <1>2, <2>3
    <3> HIDE DEF j
    <3>3. d[k] = f[j] /\ f[j] = t[j + n]  BY <1>2, <1>5, <3>1
    <3>4. e[k] = t[j + n]  BY <1>4, <3>2
    <3> QED  BY <3>3, <3>4
  <2> QED  BY <1>0, <1>1, <1>2, <1>3, <1>5, <2>1, <2>2, <2>3
<1>8. d = e  BY <1>4, <1>5, <1>6, <1>7, SameSeq
<1> QED  BY <1>2, <1>3, <1>8 DEF c, d, e, f, p

LEMMA TransitDrop ==
    ASSUME NEW s \in Seq(Unit), NEW t \in Seq(Unit), NEW k \in Nat, k \in 1..(Len(s) + 1)
    PROVE  From(s, k) \o t = From(s \o t, k) /\ k \in 1..(Len(s \o t) + 1)
<1> DEFINE f == From(s, k)
           e == s \o t
           g == From(e, k)
           c == f \o t
<1>0. Len(t) \in Nat /\ Len(s) \in Nat  OBVIOUS
<1>1. /\ f \in Seq(Unit) /\ Len(f) = Len(s) + 1 - k
      /\ \A j \in 1..(Len(s) + 1 - k) : f[j] = s[j + k - 1]
  BY FromFacts
<1>2. /\ e \in Seq(Unit) /\ Len(e) = Len(s) + Len(t)
      /\ \A j \in 1..Len(s) : e[j] = s[j]
      /\ \A j \in 1..Len(t) : e[Len(s) + j] = t[j]
  BY ConcatFacts
<1> HIDE DEF e, f
<1>3. k \in 1..(Len(e) + 1)  BY <1>0, <1>2
<1>4. /\ g \in Seq(Unit) /\ Len(g) = Len(e) + 1 - k
      /\ \A j \in 1..(Len(e) + 1 - k) : g[j] = e[j + k - 1]
  <2>1. e \in Seq(Unit)  BY <1>2
  <2> QED  BY <1>3, <2>1, FromFacts
<1>5. /\ c \in Seq(Unit) /\ Len(c) = Len(f) + Len(t)
      /\ \A j \in 1..Len(f) : c[j] = f[j]
      /\ \A j \in 1..Len(t) : c[Len(f) + j] = t[j]
  <2>1. f \in Seq(Unit)  BY <1>1
  <2> QED  BY <2>1, ConcatFacts
<1> HIDE DEF c, g
<1>6. Len(c) = Len(g)  BY <1>0, <1>1, <1>2, <1>4, <1>5
<1>7. ASSUME NEW j \in 1..Len(c) PROVE c[j] = g[j]
  <2>0. g[j] = e[j + k - 1]
    <3>1. j \in 1..(Len(e) + 1 - k)  BY <1>4, <1>6
    <3> QED  BY <1>4, <3>1
  <2>1. CASE j \in 1..Len(f)
    <3>1. j \in 1..(Len(s) + 1 - k) /\ j + k - 1 \in 1..Len(s)  BY <1>0, <1>1, <2>1
    <3> QED  BY <1>1, <1>2, <1>5, <2>0, <2>1, <3>1
  <2>2. CASE j - Len(f) \in 1..Len(t)
    <3> DEFINE i == j - Len(f)
    <3>1. i \in 1..Len(t) /\ j = Len(f) + i /\ j + k - 1 = Len(s) + i  BY <1>0, <1>1, <2>2
    <3> HIDE DEF i
    <3>2. c[j] = t[i] /\ e[j + k - 1] = t[i]  BY <1>2, <1>5, <3>1
    <3> QED  BY <2>0, <3>2
  <2> QED  BY <1>0, <1>1, <1>5, <2>1, <2>2
<1>8. c = g  BY <1>4, <1>5, <1>6, <1>7, SameSeq
<1> QED  BY <1>3, <1>8 DEF c, g, e, f

LEMMA TransitAppend ==
    ASSUME NEW s \in Seq(Unit), NEW t \in Seq(Unit), NEW u \in Seq(Unit)
    PROVE  s \o (t \o u) = (s \o t) \o u
OBVIOUS

\* What decode() gives the driver.
LEMMA YieldTypes ==
    ASSUME StateType, UnitType, NEW b \in Seq(Unit), Numbered(b), NEW r \in DecodeInner(b),
           Yield(r)
    PROVE  /\ reply' \in Answers \cup {"none"}
           /\ drv' \in {"running", "closed", "toolarge", "invalid", "garbled", "panicked",
              "nocontext"}
           /\ got' \in Seq(0..Len(ans))
<1>1. /\ r.res \in {"none", "message", "garbled", "panicked"}
      /\ \/ r.res # "message" /\ r.rest = b
         \/ r.res = "message" /\ r.m = 0
         \/ r.res = "message" /\ Len(b) >= 2 /\ r.m = b[1].m /\ b[1] = Plain(r.m, 1)
  BY InnerFacts
<1>2. CASE r.res # "message"
  BY <1>1, <1>2 DEF Yield, StateType, UnitType
<1>3. CASE r.res = "message"
  <2>1. /\ got' = Append(got, r.m) /\ drv' = drv
        /\ reply' = IF r.m = 0 \/ bind \notin Waiting THEN reply
                    ELSE IF ans[r.m] = "op" THEN reply ELSE ans[r.m]
    BY <1>3 DEF Yield
  <2>2. r.m = 0 \/ r.m \in 1..Len(ans)
    <3>1. CASE Len(b) >= 2 /\ r.m = b[1].m /\ b[1] = Plain(r.m, 1)
      <4>1. b[1].form = "plain"  BY <3>1 DEF Plain
      <4>2. 1 \in 1..Len(b)  BY <3>1
      <4> QED  BY <3>1, <4>1, <4>2 DEF Numbered
    <3> QED  BY <1>1, <1>3, <3>1
  <2>3. ans \in Seq(Answers \cup {"op"}) /\ got \in Seq(0..Len(ans)) /\ Len(ans) \in Nat
    BY LenProperties DEF UnitType
  <2>4. r.m \in 0..Len(ans)  BY <2>2, <2>3
  <2>5. got' \in Seq(0..Len(ans))  BY <2>1, <2>3, <2>4
  <2>6. r.m # 0 => ans[r.m] \in Answers \cup {"op"}  BY <2>2, <2>3
  <2> QED  BY <2>1, <2>5, <2>6 DEF StateType
<1> QED  BY <1>2, <1>3

\* An operation of the codec that takes units from the front of the buffer.
LEMMA DropTypes ==
    ASSUME UnitType, UNCHANGED <<wire, pend, ans>>, NEW k \in Nat, k \in 1..(Len(buf) + 1),
           buf' = From(buf, k), got' \in Seq(0..Len(ans))
    PROVE  UnitType'
<1>1. buf' \in Seq(Unit) /\ Numbered(buf')  BY NumberedFrom DEF UnitType, AllNumbered
<1>2. buf \in Seq(Unit) /\ wire \in Seq(Unit)  BY DEF UnitType
<1>3. Transit' = From(Transit, k) /\ k \in 1..(Len(Transit) + 1)
  BY <1>2, TransitDrop DEF Transit
<1>4. Transit \in Seq(Unit) /\ Followed(Transit)  BY <1>2, ConcatFacts DEF UnitType, Transit
<1>5. Followed(From(Transit, k))  BY <1>3, <1>4, FollowedFrom
<1>6. Followed(Transit')  BY <1>3, <1>5
<1>7. Followed(Transit)'  BY <1>6 DEF Followed
<1>8. Numbered(wire)' /\ Numbered(pend)' /\ Numbered(buf)'
  BY <1>1 DEF UnitType, AllNumbered, Numbered
<1> QED  BY <1>1, <1>7, <1>8 DEF UnitType, AllNumbered, PendPlain

\* One that leaves clear units in an otherwise empty buffer.
LEMMA KeepTypes ==
    ASSUME UnitType, UNCHANGED <<wire, pend, ans>>, buf' \in Seq(Unit), Numbered(buf'),
           \A j \in 1..Len(buf') : buf'[j].form = "plain", got' \in Seq(0..Len(ans))
    PROVE  UnitType'
<1>1. Followed(buf')  BY DEF Followed, IsHead
<1>2. buf \in Seq(Unit) /\ wire \in Seq(Unit) /\ Followed(Transit)  BY DEF UnitType
<1>3. Len(buf) \in Nat  BY <1>2, LenProperties
<1>4. Followed(wire)
  <2>1. From(buf, Len(buf) + 1) \in Seq(Unit) /\ Len(From(buf, Len(buf) + 1)) = 0
    BY <1>2, <1>3, FromFacts
  <2>2. From(buf, Len(buf) + 1) \o wire = wire
    <3>1. From(buf, Len(buf) + 1) = <<>>  BY <2>1
    <3> QED  BY <1>2, <3>1
  <2>3. /\ From(buf, Len(buf) + 1) \o wire = From(Transit, Len(buf) + 1)
        /\ Len(buf) + 1 \in 1..(Len(Transit) + 1)
    <3>1. Len(buf) + 1 \in Nat /\ Len(buf) + 1 \in 1..(Len(buf) + 1)  BY <1>3
    <3> HIDE DEF Transit
    <3> DEFINE k == Len(buf) + 1
    <3> HIDE DEF k
    <3>2. k \in Nat /\ k \in 1..(Len(buf) + 1)  BY <3>1 DEF k
    <3>3. From(buf, k) \o wire = From(buf \o wire, k) /\ k \in 1..(Len(buf \o wire) + 1)
      BY <1>2, <3>2, TransitDrop
    <3> QED  BY <3>3 DEF k, Transit
  <2>4. Transit \in Seq(Unit)  BY <1>2, ConcatFacts DEF Transit
  <2>5. Followed(From(Transit, Len(buf) + 1))  BY <1>2, <1>3, <2>3, <2>4, FollowedFrom
  <2> QED  BY <2>2, <2>3, <2>5
<1>5. Followed(buf' \o wire)  BY <1>1, <1>2, <1>4, FollowedConcat
<1>6. Followed(Transit)'  BY <1>5 DEF Followed, Transit
<1>7. Numbered(wire)' /\ Numbered(pend)' /\ Numbered(buf)'
  BY DEF UnitType, AllNumbered, Numbered
<1> QED  BY <1>6, <1>7 DEF UnitType, AllNumbered, PendPlain

\* The token at the front of the buffer holds what the server has put there.
LEMMA TokenTypes ==
    ASSUME UnitType, HasHeader, Len(buf) - HeaderSize >= buf[1].m
    PROVE  LET n == buf[1].m
               us == Unwrapped(SubSeq(buf, HeaderSize + 1, HeaderSize + n))
           IN /\ n \in Nat /\ Len(buf) \in Nat /\ n + 2 <= Len(buf)
              /\ us \in Seq(Unit) /\ Numbered(us) /\ Len(us) = n
              /\ \A k \in 1..n : us[k] = Plain(buf[k + 2].m, buf[k + 2].i)
              /\ \A k \in 1..n : buf[k + 2].form = "wrapped"
<1> DEFINE n == buf[1].m
           t == SubSeq(buf, 3, 2 + n)
           us == Unwrapped(t)
<1>0. buf \in Seq(Unit) /\ wire \in Seq(Unit) /\ Len(buf) >= 2 /\ Len(buf) - 2 >= n
  BY DEF UnitType, HasHeader, HeaderSize
<1>1. Len(buf) \in Nat /\ buf[1] \in Unit  BY <1>0
<1>2. n \in Nat  BY <1>1 DEF Unit
<1>3. IsHead(buf[1])
  <2>1. SubSeq(buf, 1, 2) = Header(n) /\ SubSeq(buf, 1, 2)[1] = buf[1]
    BY <1>0 DEF HasHeader, HeaderSize
  <2>2. Header(n)[1] = [form |-> "length", m |-> n, i |-> 1, end |-> "no"]
    <3>1. \A k \in 1..2 : Header(n)[k] = [form |-> "length", m |-> n, i |-> k, end |-> "no"]
      BY <1>2, HeaderFacts
    <3> QED  BY <3>1
  <2> QED  BY <2>1, <2>2 DEF IsHead
<1> HIDE DEF n
<1>4. \A k \in 3..(2 + n) : buf[k].form = "wrapped"
  <2>1. Transit \in Seq(Unit) /\ \A k \in 1..Len(buf) : Transit[k] = buf[k]
    BY <1>0, ConcatFacts DEF Transit
  <2>2. 1 \in 1..Len(Transit)
    BY <1>0, <1>1 DEF Transit
  <2>3. Transit[1] = buf[1]  BY <1>0, <1>1, <2>1
  <2>4. \A k \in (1 + 2)..(1 + 1 + n) : Transit[k].form = "wrapped"
    BY <1>3, <2>2, <2>3 DEF UnitType, Followed, n
  <2>5. \A k \in 3..(2 + n) : k \in 1..Len(buf) /\ k \in (1 + 2)..(1 + 1 + n)
    BY <1>0, <1>1, <1>2
  <2> QED  BY <2>1, <2>4, <2>5
<1>5. t \in Seq(Unit) /\ Len(t) = n /\ \A k \in 1..n : t[k] = buf[k + 2]
  BY <1>0, <1>1, <1>2
<1>6. us \in Seq(Unit) /\ Numbered(us)
  <2>1. 2 + n \in Nat /\ 2 + n <= Len(buf) /\ 3 \in Nat /\ 1 <= 3  BY <1>0, <1>1, <1>2
  <2>2. \A k \in 3..(2 + n) : buf[k].form # "length"  BY <1>4
  <2>3. buf \in Seq(Unit) /\ Numbered(buf)  BY DEF UnitType, AllNumbered
  <2> DEFINE b == 2 + n
  <2> HIDE DEF b
  <2>4. /\ Unwrapped(SubSeq(buf, 3, b)) \in Seq(Unit)
        /\ Numbered(Unwrapped(SubSeq(buf, 3, b)))
    BY <2>1, <2>2, <2>3, NumberedUnwrapped DEF b
  <2> QED  BY <2>4 DEF b
<1> HIDE DEF t
<1>7. Len(us) = n /\ \A k \in 1..n : us[k] = Plain(t[k].m, t[k].i)
  BY <1>5, UnwrappedFacts
<1>8. \A k \in 1..n : us[k] = Plain(buf[k + 2].m, buf[k + 2].i)  BY <1>5, <1>7
<1>9. \A k \in 1..n : buf[k + 2].form = "wrapped"  BY <1>2, <1>4
<1>10. n + 2 <= Len(buf)  BY <1>0, <1>1, <1>2
<1> QED  BY <1>1, <1>2, <1>6, <1>7, <1>8, <1>9, <1>10 DEF n, t, HeaderSize

LEMMA DecodeTypes ==
    ASSUME Types, Decoding
    PROVE  StateType' /\ SizeType' /\ UnitType'
<1>0. UNCHANGED <<has_tls, bind, wrap, send_max, ctx, ops, wire, pend, ans, offer>>
  BY DecodeFrame DEF params, server
<1> USE DEF Types
<1>1. CASE DecodePlain \/ DecodeKept
  <2>1. PICK r \in DecodeInner(buf) : Yield(r) /\ buf' = r.rest
    BY <1>1 DEF DecodePlain, DecodeKept
  <2>2. buf \in Seq(Unit) /\ Numbered(buf)  BY DEF UnitType, AllNumbered
  <2>3. /\ reply' \in Answers \cup {"none"} /\ got' \in Seq(0..Len(ans))
        /\ drv' \in {"running", "closed", "toolarge", "invalid", "garbled", "panicked",
              "nocontext"}
    BY <2>1, <2>2, YieldTypes
  <2>4. StateType'  BY <1>0, <2>3 DEF StateType
  <2>5. SizeType'
    <3>1. decoded' => wrap  BY <1>1 DEF SizeType, DecodePlain, DecodeKept
    <3> QED  BY <1>0, <3>1 DEF SizeType
  <2>6. UnitType'
    <3>1. \/ r.rest = buf \/ r.rest = <<>>
          \/ Len(buf) >= 2 /\ r.rest = From(buf, 3)
      BY <2>1, <2>2, InnerFacts
    <3>2. CASE r.rest = buf
      BY <1>0, <2>1, <2>3, <3>2 DEF UnitType, AllNumbered, PendPlain, Numbered, Transit,
                                     Followed
    <3>3. CASE r.rest = <<>>
      <4>1. buf' = <<>> /\ buf' \in Seq(Unit) /\ Len(buf') = 0  BY <2>1, <3>3
      <4>2. Numbered(buf') /\ \A j \in 1..Len(buf') : buf'[j].form = "plain"
        BY <4>1 DEF Numbered
      <4> QED  BY <1>0, <2>3, <4>1, <4>2, KeepTypes
    <3>4. CASE Len(buf) >= 2 /\ r.rest = From(buf, 3)
      <4>1. 3 \in 1..(Len(buf) + 1) /\ 3 \in Nat  BY <2>2, <3>4
      <4> QED  BY <1>0, <2>1, <2>3, <3>4, <4>1, DropTypes
    <3> QED  BY <3>1, <3>2, <3>3, <3>4
  <2> QED  BY <2>4, <2>5, <2>6
<1>2. CASE DecodeShort \/ DecodeMisread \/ DecodeWaits \/ DecodeNoCtx
  <2>1. /\ UNCHANGED <<reply, buf, got, decoded>>
        /\ drv' \in {drv, "invalid", "garbled", "panicked",
              "nocontext"}
    BY <1>2 DEF DecodeShort, DecodeMisread, DecodeWaits, DecodeNoCtx, codec
  <2>2. StateType'  BY <1>0, <2>1 DEF StateType
  <2>3. SizeType'  BY <1>0, <2>1 DEF SizeType
  <2>4. UnitType'
    BY <1>0, <2>1 DEF UnitType, AllNumbered, PendPlain, Numbered, Transit,
                                     Followed
  <2> QED  BY <2>2, <2>3, <2>4
<1>3. CASE DecodeToken
  <2> DEFINE n == buf[1].m
             us == Unwrapped(SubSeq(buf, HeaderSize + 1, HeaderSize + n))
             behind == From(buf, HeaderSize + n + 1)
  <2>1. HasHeader /\ Len(buf) - HeaderSize >= buf[1].m /\ wrap
    BY <1>3 DEF DecodeToken, AtToken
  <2>2. PICK r \in DecodeInner(us) :
          Yield(r) /\ buf' = IF Keeps(r.rest, behind) THEN r.rest ELSE behind
    BY <1>3 DEF DecodeToken
  <2>3. /\ n \in Nat /\ Len(buf) \in Nat /\ n + 2 <= Len(buf)
        /\ us \in Seq(Unit) /\ Numbered(us) /\ Len(us) = n
        /\ \A k \in 1..n : us[k] = Plain(buf[k + 2].m, buf[k + 2].i)
    BY <2>1, TokenTypes
  <2> HIDE DEF us, n
  <2>4. /\ reply' \in Answers \cup {"none"} /\ got' \in Seq(0..Len(ans))
        /\ drv' \in {"running", "closed", "toolarge", "invalid", "garbled", "panicked",
              "nocontext"}
    BY <2>2, <2>3, YieldTypes
  <2>5. StateType'  BY <1>0, <2>4 DEF StateType
  <2>6. SizeType'  BY <1>0, <2>1 DEF SizeType
  <2>7. CASE buf' = behind
    <3> DEFINE k == n + 3
    <3>1. k \in Nat /\ k \in 1..(Len(buf) + 1) /\ HeaderSize + n + 1 = k
      BY <2>3 DEF HeaderSize
    <3> HIDE DEF k
    <3>2. buf' = From(buf, k)  BY <2>7, <3>1
    <3>3. UnitType'  BY <1>0, <2>4, <3>1, <3>2, DropTypes
    <3> QED  BY <2>5, <2>6, <3>3
  <2>8. CASE buf' = r.rest
    <3>0. \A k \in 1..Len(us) : us[k].form = "plain"  BY <2>3 DEF Plain
    <3>1. r.rest = us \/ r.rest = <<>> \/ (Len(us) >= 2 /\ r.rest = From(us, 3))
      <4>1. us \in Seq(Unit)  BY <2>3
      <4> QED  BY <4>1, InnerFacts
    <3>2. buf' \in Seq(Unit) /\ Numbered(buf') /\ \A j \in 1..Len(buf') : buf'[j].form = "plain"
      <4>1. CASE r.rest = us  BY <2>3, <2>8, <3>0, <4>1
      <4>2. CASE r.rest = <<>>
        <5>1. buf' = <<>> /\ buf' \in Seq(Unit) /\ Len(buf') = 0  BY <2>8, <4>2
        <5> QED  BY <5>1 DEF Numbered
      <4>3. CASE Len(us) >= 2 /\ r.rest = From(us, 3)
        <5>1. us \in Seq(Unit) /\ Numbered(us) /\ 3 \in Nat /\ 3 \in 1..(Len(us) + 1)
          BY <2>3, <4>3
        <5>2. From(us, 3) \in Seq(Unit) /\ Numbered(From(us, 3))  BY <5>1, NumberedFrom
        <5>3. \A j \in 1..Len(From(us, 3)) : From(us, 3)[j].form = "plain"
          <6> DEFINE g == From(us, 3)
          <6>1. Len(g) = Len(us) + 1 - 3 /\ \A j \in 1..(Len(us) + 1 - 3) : g[j] = us[j + 3 - 1]
            BY <5>1, FromFacts
          <6> HIDE DEF g
          <6>2. \A j \in 1..Len(g) : j + 2 \in 1..Len(us) /\ g[j] = us[j + 2]
            BY <5>1, <6>1
          <6> QED  BY <3>0, <6>2 DEF g
        <5> QED  BY <2>8, <4>3, <5>2, <5>3
      <4> QED  BY <3>1, <4>1, <4>2, <4>3
    <3>3. UnitType'  BY <1>0, <2>4, <3>2, KeepTypes
    <3> QED  BY <2>5, <2>6, <3>3
  <2> QED  BY <2>2, <2>7, <2>8
<1> QED  BY <1>1, <1>2, <1>3 DEF Decoding

LEMMA ReadTypes ==
    ASSUME UnitType, Read
    PROVE  UnitType'
<1>1. PICK n \in 1..Len(wire) : buf' = buf \o SubSeq(wire, 1, n) /\ wire' = From(wire, n + 1)
  BY DEF Read
<1>2. UNCHANGED <<pend, ans, got>>  BY DEF Read, server
<1>3. buf \in Seq(Unit) /\ wire \in Seq(Unit)  BY DEF UnitType
<1>4. buf' \in Seq(Unit) /\ wire' \in Seq(Unit) /\ buf' \o wire' = buf \o wire
  BY <1>1, <1>3, TransitRead
<1>5. Followed(Transit)'  BY <1>4 DEF UnitType, Followed, Transit
<1>6. Numbered(wire')
  <2>1. n + 1 \in Nat /\ n + 1 \in 1..(Len(wire) + 1)  BY <1>3
  <2> DEFINE k == n + 1
  <2> HIDE DEF k
  <2>2. Numbered(From(wire, k))  BY <1>3, <2>1, NumberedFrom DEF UnitType, AllNumbered, k
  <2> QED  BY <1>1, <2>2 DEF k
<1>7. Numbered(buf')
  <2> DEFINE p == SubSeq(wire, 1, n)
  <2>1. p \in Seq(Unit) /\ Len(p) = n /\ \A j \in 1..n : p[j] = wire[j] /\ j \in 1..Len(wire)
    BY <1>3
  <2> HIDE DEF p
  <2>2. Numbered(p)  BY <2>1 DEF UnitType, AllNumbered, Numbered
  <2>3. Numbered(buf \o p)  BY <1>3, <2>1, <2>2, NumberedConcat DEF UnitType, AllNumbered
  <2> QED  BY <1>1, <2>3 DEF p
<1>8. AllNumbered' /\ PendPlain'
  BY <1>2, <1>6, <1>7 DEF UnitType, AllNumbered, PendPlain, Numbered
<1> QED  BY <1>2, <1>4, <1>5, <1>8 DEF UnitType

\* The server answers, in the clear or into what it will put into tokens.
LEMMA AnswerTypes ==
    ASSUME UnitType, NEW as \in Seq(Answers \cup {"op"}), Answering(as), FlagType,
           UNCHANGED <<buf, got>>
    PROVE  UnitType'
<1> DEFINE us == NewUnits(as)
           l == Len(ans)
           n == Len(as)
<1>1. ans \in Seq(Answers \cup {"op"})  BY DEF UnitType
<1>2. /\ us \in Seq(Unit) /\ Len(us) = 2 * n
      /\ \A k \in 1..(2 * n) : us[k].form = "plain" /\ us[k].end = "no"
                               /\ us[k].m \in (l + 1)..(l + n)
  BY <1>1, NewUnitsFacts
<1>3. ans' \in Seq(Answers \cup {"op"}) /\ Len(ans') = l + n
  <2>1. ans' = ans \o as  BY AnsweringFacts
  <2> DEFINE S == Answers \cup {"op"}
  <2> HIDE DEF S
  <2>2. ans \in Seq(S) /\ as \in Seq(S)  BY <1>1 DEF S
  <2>3. ans \o as \in Seq(S) /\ Len(ans \o as) = l + n  BY <2>2, ConcatFacts
  <2> QED  BY <2>1, <2>3 DEF S
<1>4. l \in Nat /\ n \in Nat  BY <1>1, LenProperties
<1> HIDE DEF us, l, n
<1>5. \A k \in 1..Len(us) : us[k].form = "plain" /\ us[k].end = "no" /\ us[k].m \in 1..(l + n)
  BY <1>2, <1>4
<1>6. /\ buf \in Seq(Unit) /\ wire \in Seq(Unit) /\ pend \in Seq(Unit)
      /\ got \in Seq(0..l)
  BY DEF UnitType, l
<1>7. got' \in Seq(0..Len(ans'))
  <2>1. 0..l \subseteq 0..(l + n)  BY <1>4
  <2>2. got \in Seq(0..(l + n))  BY <1>4, <1>6, <2>1
  <2> QED  BY <1>3, <2>2
<1>8. ASSUME NEW q \in Seq(Unit), Numbered(q)
      PROVE  \A k \in 1..Len(q) : q[k].form # "length" => q[k].m \in 1..(l + n)
  <2>1. \A k \in 1..Len(q) : q[k].form # "length" => q[k].m \in 1..l  BY <1>8 DEF Numbered, l
  <2> QED  BY <1>4, <2>1
<1>9. ASSUME NEW q \in Seq(Unit), Numbered(q)
      PROVE  /\ q \o us \in Seq(Unit)
             /\ \A k \in 1..Len(q \o us) :
                  (q \o us)[k].form # "length" => (q \o us)[k].m \in 1..(l + n)
  <2> DEFINE c == q \o us
  <2>1. c \in Seq(Unit) /\ \A j \in 1..Len(c) :
           (j \in 1..Len(q) /\ c[j] = q[j]) \/ (j - Len(q) \in 1..Len(us) /\ c[j] = us[j - Len(q)])
    <3>1. us \in Seq(Unit)  BY <1>2
    <3> QED  BY <3>1
  <2> HIDE DEF c
  <2>2. \A j \in 1..Len(q) : q[j].form # "length" => q[j].m \in 1..(l + n)  BY <1>8, <1>9
  <2>3. \A j \in 1..Len(c) : c[j].form # "length" => c[j].m \in 1..(l + n)
    BY <1>5, <2>1, <2>2
  <2> QED  BY <2>1, <2>3 DEF c
<1>10. CASE layer
  <2>1. pend' = pend \o us /\ wire' = wire /\ buf' = buf
    BY <1>10, AnsweringFacts DEF us
  <2>2. pend' \in Seq(Unit) /\ AllNumbered'
    BY <1>3, <1>6, <1>8, <1>9, <2>1 DEF UnitType, AllNumbered, Numbered
  <2>3. PendPlain'
    <3> DEFINE c == pend \o us
    <3>1. \A j \in 1..Len(c) :
            (j \in 1..Len(pend) /\ c[j] = pend[j])
              \/ (j - Len(pend) \in 1..Len(us) /\ c[j] = us[j - Len(pend)])
      <4>1. us \in Seq(Unit)  BY <1>2
      <4> QED  BY <1>6, <4>1
    <3> HIDE DEF c
    <3>2. \A j \in 1..Len(c) : c[j].form = "plain"
      BY <1>5, <3>1 DEF UnitType, PendPlain
    <3> QED  BY <2>1, <3>2 DEF PendPlain, c
  <2>4. Followed(Transit)'  BY <2>1 DEF UnitType, Followed, Transit
  <2> QED  BY <1>3, <1>6, <1>7, <2>1, <2>2, <2>3, <2>4 DEF UnitType
<1>11. CASE ~layer
  <2>1. wire' = wire \o us /\ pend' = pend /\ buf' = buf
    BY <1>11, AnsweringFacts DEF us
  <2>2. wire' \in Seq(Unit) /\ AllNumbered'
    BY <1>3, <1>6, <1>8, <1>9, <2>1 DEF UnitType, AllNumbered, Numbered
  <2>3. PendPlain'  BY <2>1 DEF UnitType, PendPlain
  <2>4. Followed(us)  BY <1>5, FollowedClear DEF Clear
  <2>5. Followed(Transit)'
    <3>0. us \in Seq(Unit)  BY <1>2
    <3>1. Transit' = Transit \o us
      <4>1. Transit' = buf \o (wire \o us)  BY <2>1 DEF Transit
      <4>2. buf \in Seq(Unit) /\ wire \in Seq(Unit)  BY <1>6
      <4>3. buf \o (wire \o us) = (buf \o wire) \o us  BY <3>0, <4>2, TransitAppend, SMTT(30)
      <4> QED  BY <4>1, <4>3 DEF Transit
    <3>2. Transit \in Seq(Unit)  BY <1>6, ConcatFacts DEF Transit
    <3>3. Followed(Transit) /\ us \in Seq(Unit)  BY <1>2 DEF UnitType
    <3>4. Followed(Transit \o us)  BY <2>4, <3>2, <3>3, FollowedConcat
    <3>5. Followed(Transit')  BY <3>1, <3>4
    <3> QED  BY <3>5 DEF Followed
  <2> QED  BY <1>3, <1>6, <1>7, <2>1, <2>2, <2>3, <2>5 DEF UnitType
<1> QED  BY <1>10, <1>11 DEF FlagType

\* The prefix of what the server has to say that goes into a token.
LEMMA TokenPrefix ==
    ASSUME pend \in Seq(Unit), pend # <<>>, NEW n \in TokenSizes
    PROVE  LET k == Least(n, Len(pend)) IN
           /\ k \in Nat /\ k \in 1..Len(pend) /\ k <= n /\ (k = n \/ k = Len(pend))
           /\ SubSeq(pend, 1, k) \in Seq(Unit) /\ Len(SubSeq(pend, 1, k)) = k
           /\ \A j \in 1..k : SubSeq(pend, 1, k)[j] = pend[j]
           /\ k + 1 \in Nat /\ k + 1 \in 1..(Len(pend) + 1)
<1> DEFINE k == Least(n, Len(pend))
<1>1. n \in Nat /\ n >= 1  BY TokenSizesAssumption
<1>2. Len(pend) \in Nat /\ Len(pend) >= 1  BY EmptySeq, LenProperties
<1>3. k \in Nat /\ k \in 1..Len(pend) /\ k <= n /\ (k = n \/ k = Len(pend))
  BY <1>1, <1>2 DEF Least
<1> HIDE DEF k
<1>4. k \in 0..Len(pend)  BY <1>2, <1>3
<1>5. /\ SubSeq(pend, 1, k) \in Seq(Unit) /\ Len(SubSeq(pend, 1, k)) = k
      /\ \A j \in 1..k : SubSeq(pend, 1, k)[j] = pend[j]
  BY <1>4, PrefixFacts
<1>6. k + 1 \in Nat /\ k + 1 \in 1..(Len(pend) + 1)  BY <1>2, <1>3
<1> QED  BY <1>3, <1>5, <1>6 DEF k

LEMMA FollowedWrapped ==
    ASSUME NEW us \in Seq(Unit)
    PROVE  Followed(Wrapped(us))
<1> DEFINE w == Wrapped(us)
           n == Len(us)
<1>0. n \in Nat  BY LenProperties
<1>1. /\ Len(w) = 2 + n
      /\ w[1] = Header(n)[1] /\ w[2] = Header(n)[2]
      /\ \A k \in 1..n : w[2 + k] = [form |-> "wrapped", m |-> us[k].m, i |-> us[k].i,
                                     end |-> Mark(us, k)]
  BY WrappedFacts
<1> HIDE DEF w, n
<1>2. \A k \in 1..2 : Header(n)[k] = [form |-> "length", m |-> n, i |-> k, end |-> "no"]
  BY <1>0, HeaderFacts
<1>3. w[1].form = "length" /\ w[1].m = n /\ w[2].i = 2  BY <1>1, <1>2
<1>4. \A k \in 3..(2 + n) : w[k].form = "wrapped"
  <2> SUFFICES ASSUME NEW k \in 3..(2 + n) PROVE w[k].form = "wrapped"
    OBVIOUS
  <2>1. k - 2 \in 1..n /\ 2 + (k - 2) = k  BY <1>0
  <2> DEFINE j == k - 2
  <2> HIDE DEF j
  <2>2. w[2 + j].form = "wrapped"
    <3>1. j \in 1..n  BY <2>1 DEF j
    <3>2. w[2 + j] = [form |-> "wrapped", m |-> us[j].m, i |-> us[j].i, end |-> Mark(us, j)]
      BY <1>1, <3>1
    <3> QED  BY <3>2
  <2> QED  BY <2>1, <2>2 DEF j
<1>5. ASSUME NEW k \in 1..Len(w), IsHead(w[k]) PROVE k = 1
  <2>1. k \in Nat /\ k \in 1..(2 + n)  BY <1>0, <1>1
  <2>2. k # 2  BY <1>3, <1>5 DEF IsHead
  <2>3. ~(k \in 3..(2 + n))  BY <1>4, <1>5 DEF IsHead
  <2> QED  BY <1>0, <2>1, <2>2, <2>3
<1>6. Followed(w)
  <2> SUFFICES ASSUME NEW k \in 1..Len(w), IsHead(w[k])
               PROVE  /\ k + 1 + w[k].m <= Len(w)
                      /\ \A j \in (k + 2)..(k + 1 + w[k].m) : w[j].form = "wrapped"
    BY DEF Followed
  <2>1. k = 1 /\ w[k].m = n  BY <1>3, <1>5
  <2>2. k + 1 + n = 2 + n /\ k + 2 = 3  BY <1>0, <2>1
  <2> QED  BY <1>0, <1>1, <1>4, <2>1, <2>2
<1> QED  BY <1>6 DEF w

LEMMA MakeTokenTypes ==
    ASSUME UnitType, MakeToken
    PROVE  UnitType'
<1>0. pend # <<>> /\ UNCHANGED <<buf, ans, got>>  BY DEF MakeToken, codec
<1>1. PICK n \in TokenSizes :
        LET k == Least(n, Len(pend)) IN
        wire' = wire \o Wrapped(SubSeq(pend, 1, k)) /\ pend' = From(pend, k + 1)
  BY DEF MakeToken
<1> DEFINE k == Least(n, Len(pend))
           us == SubSeq(pend, 1, k)
           w == Wrapped(us)
<1>2. buf \in Seq(Unit) /\ wire \in Seq(Unit) /\ pend \in Seq(Unit)  BY DEF UnitType
<1>3. /\ k \in Nat /\ k \in 1..Len(pend)
      /\ us \in Seq(Unit) /\ Len(us) = k
      /\ \A j \in 1..k : us[j] = pend[j]
      /\ k + 1 \in Nat /\ k + 1 \in 1..(Len(pend) + 1)
  BY <1>0, <1>2, TokenPrefix
<1>4. wire' = wire \o w /\ pend' = From(pend, k + 1)  BY <1>1
<1> HIDE DEF k, us
<1>5. Followed(w)  BY <1>3, FollowedWrapped
<1>6. w \in Seq(Unit) /\ Numbered(w)
  <2>1. us \in Seq(Unit)  BY <1>3
  <2>2. /\ w \in Seq(Unit) /\ Len(w) = 2 + Len(us)
        /\ w[1] = Header(Len(us))[1] /\ w[2] = Header(Len(us))[2]
        /\ \A j \in 1..Len(us) : w[2 + j] = [form |-> "wrapped", m |-> us[j].m, i |-> us[j].i,
                                             end |-> Mark(us, j)]
    BY <2>1, WrappedFacts
  <2> HIDE DEF w
  <2>3. \A h \in 1..2 : Header(Len(us))[h] = [form |-> "length", m |-> Len(us), i |-> h,
                                              end |-> "no"]
    BY <1>3, HeaderFacts
  <2>4. w[1].form = "length" /\ w[2].form = "length"  BY <2>2, <2>3
  <2>5. \A j \in 1..k : us[j].m \in 1..Len(ans)
    <3>1. \A j \in 1..Len(pend) : pend[j].m \in 1..Len(ans)
      BY DEF UnitType, AllNumbered, Numbered, PendPlain
    <3>2. \A j \in 1..k : j \in 1..Len(pend)
      <4>1. Len(pend) \in Nat  BY <1>2, LenProperties
      <4> QED  BY <1>3, <4>1
    <3> QED  BY <1>3, <3>1, <3>2
  <2>6. ASSUME NEW h \in 1..Len(w), w[h].form # "length" PROVE w[h].m \in 1..Len(ans)
    <3> DEFINE j == h - 2
    <3>1. j \in 1..k /\ h = 2 + j
      <4>1. h \in Nat /\ h # 1 /\ h # 2 /\ h <= 2 + k  BY <1>3, <2>2, <2>4, <2>6
      <4> QED  BY <1>3, <4>1
    <3> HIDE DEF j
    <3>2. w[2 + j].m = us[j].m
      <4>1. j \in 1..Len(us)  BY <1>3, <3>1
      <4>2. w[2 + j] = [form |-> "wrapped", m |-> us[j].m, i |-> us[j].i, end |-> Mark(us, j)]
        BY <2>2, <4>1
      <4> QED  BY <4>2
    <3> QED  BY <2>5, <3>1, <3>2
  <2>7. Numbered(w)  BY <2>6 DEF Numbered
  <2> QED  BY <2>2, <2>7
<1> HIDE DEF w
<1>7. wire' \in Seq(Unit) /\ Numbered(wire')
  BY <1>2, <1>4, <1>6, NumberedConcat DEF UnitType, AllNumbered
<1>8. Followed(Transit)'
  <2>1. Transit' = Transit \o w
    <3>1. Transit' = buf \o (wire \o w)  BY <1>0, <1>4 DEF Transit
    <3>2. buf \in Seq(Unit) /\ wire \in Seq(Unit) /\ w \in Seq(Unit)  BY <1>2, <1>6
    <3>3. buf \o (wire \o w) = (buf \o wire) \o w  BY <3>2, TransitAppend
    <3> QED  BY <3>1, <3>3 DEF Transit
  <2>2. Transit \in Seq(Unit) /\ Followed(Transit)  BY <1>2, ConcatFacts DEF Transit, UnitType
  <2>3. Followed(Transit \o w)  BY <1>5, <1>6, <2>2, FollowedConcat
  <2>4. Followed(Transit')  BY <2>1, <2>3
  <2> QED  BY <2>4 DEF Followed
<1>9. pend' \in Seq(Unit) /\ Numbered(pend') /\ PendPlain'
  <2> DEFINE f == k + 1
             g == From(pend, f)
  <2>1. f \in Nat /\ f \in 1..(Len(pend) + 1)  BY <1>3
  <2> HIDE DEF f
  <2>2. g \in Seq(Unit) /\ Numbered(g)  BY <1>2, <2>1, NumberedFrom DEF UnitType, AllNumbered
  <2>3. /\ Len(g) = Len(pend) + 1 - f
        /\ \A j \in 1..(Len(pend) + 1 - f) : g[j] = pend[j + f - 1]
    BY <1>2, <2>1, FromFacts
  <2>4. pend' = g  BY <1>4 DEF f
  <2> HIDE DEF g
  <2>5. \A j \in 1..Len(g) : j + f - 1 \in 1..Len(pend) /\ g[j] = pend[j + f - 1]
    BY <1>2, <2>1, <2>3
  <2>6. \A j \in 1..Len(g) : g[j].form = "plain"  BY <2>5 DEF UnitType, PendPlain
  <2> QED  BY <2>2, <2>4, <2>6 DEF PendPlain
<1>10. AllNumbered'  BY <1>0, <1>7, <1>9 DEF UnitType, AllNumbered, Numbered
<1> QED  BY <1>0, <1>2, <1>7, <1>8, <1>9, <1>10 DEF UnitType

\* Everything that neither reads, decodes nor answers.
Aside ==
    \/ Binding \/ BindDropped \/ (\E size \in 1..MessageSize : Send(size))
    \/ Misunderstands \/ Breaks \/ UNCHANGED vars

LEMMA AsideFrame ==
    ASSUME Aside
    PROVE  UNCHANGED <<has_tls, buf, decoded, starved, got, wire, layer, offer, ans, pend, untidy>>
<1> USE DEF params, codec, server, history, vars
<1>1. CASE Binding
  BY <1>1 DEF Binding, BindBegins, BindSteps, BindChooses, BindSetsParam, BindSetsCtx,
              BindFails, BindLost
<1>2. CASE BindDropped \/ (\E size \in 1..MessageSize : Send(size)) \/ Misunderstands \/ Breaks
             \/ UNCHANGED vars
  BY <1>2 DEF BindDropped, Send, Misunderstands, Breaks
<1> QED  BY <1>1, <1>2 DEF Aside

LEMMA NextCases ==
    [Next]_vars => Aside \/ Decoding \/ Read \/ Serve \/ MakeToken \/ Notify
BY DEF Next, Aside

\* encode(): the driver goes on and the request is on its way, or neither.
LEMMA EncodeTypes ==
    ASSUME NEW what \in Waiting \cup {"op"}, NEW size \in 1..MessageSize, NEW wants \in Layers,
           Encode(what, size, wants), StateType, FlagType, up \in Seq(Requested)
    PROVE  /\ up' \in Seq(Requested)
           /\ drv' \in {"running", "closed", "toolarge", "invalid", "garbled", "panicked",
              "nocontext"}
<1> DEFINE q == [wrapped |-> wrap, what |-> what, size |-> SentSize(size), wants |-> wants]
<1>1. q \in Requested  BY SentSizeFacts DEF Requested, FlagType
<1>2. up' = up \/ up' = Append(up, q)  BY DEF Encode
<1>3. drv' \in {"running", "nocontext", "toolarge"}  BY DEF Encode
<1> HIDE DEF q
<1>4. up' \in Seq(Requested)  BY <1>1, <1>2
<1> QED  BY <1>3, <1>4

LEMMA AsideTypes ==
    ASSUME Types, Aside
    PROVE  StateType' /\ SizeType' /\ up' \in Seq(Requested)
<1> USE DEF Types, params, codec, server, history, vars
<1>0. /\ "first" \in Waiting \cup {"op"} /\ "second" \in Waiting \cup {"op"}
      /\ "third" \in Waiting \cup {"op"} /\ "op" \in Waiting \cup {"op"}
      /\ 1 \in 1..MessageSize /\ "none" \in Layers /\ NeededLayer \in Layers
  BY DEF Waiting, MessageSize, Layers, NeededLayer
<1>1. CASE BindBegins \/ BindSteps \/ BindChooses
  <2>1. /\ reply' \in {reply, "none"}
        /\ UNCHANGED <<wrap, ctx, send_max, offer, ops, decoded>>
        /\ \/ UNCHANGED <<drv, up>> /\ bind' \in {"error", "returned", "panicked"}
           \/ bind' = "first" /\ Encode("first", 1, "none")
           \/ bind' = "second" /\ Encode("second", 1, "none")
           \/ bind' = "third" /\ Encode("third", 1, NeededLayer)
    BY <1>1 DEF BindBegins, BindSteps, BindChooses, Returns, Requests
  <2>2. SizeType'  BY <2>1 DEF SizeType
  <2>3. /\ drv' \in {"running", "closed", "toolarge", "invalid", "garbled", "panicked",
              "nocontext"}
        /\ up' \in Seq(Requested)
    <3>1. CASE UNCHANGED <<drv, up>>  BY <3>1 DEF StateType
    <3>2. CASE Encode("first", 1, "none")  BY <1>0, <3>2, EncodeTypes
    <3>3. CASE Encode("second", 1, "none")  BY <1>0, <3>3, EncodeTypes
    <3>4. CASE Encode("third", 1, NeededLayer)  BY <1>0, <3>4, EncodeTypes
    <3> QED  BY <2>1, <3>1, <3>2, <3>3, <3>4
  <2>4. StateType'  BY <2>1, <2>3 DEF StateType, Waiting
  <2> QED  BY <2>2, <2>3, <2>4
<1>2. CASE BindSetsParam
  <2>1. /\ reply' = "none" /\ bind' \in {"panicked", "param"}
        /\ UNCHANGED <<ctx, drv, up, ops, offer, decoded>>
    BY <1>2 DEF BindSetsParam
  <2>2. StateType'  BY <2>1 DEF StateType
  <2>3. SizeType'
    <3>1. \/ UNCHANGED <<wrap, send_max>>
          \/ wrap' = (wrap \/ Installs) /\ send_max' = IF Installs THEN offer.max ELSE send_max
      BY <1>2 DEF BindSetsParam, Limit
    <3>2. send_max' \in MaxSizes  BY <3>1 DEF SizeType
    <3>3. send_max' > 0 => wrap'  BY <3>1 DEF SizeType
    <3>4. decoded' => wrap'  BY <2>1, <3>1 DEF SizeType
    <3> QED  BY <2>1, <3>2, <3>3, <3>4 DEF SizeType
  <2> QED  BY <2>1, <2>2, <2>3
<1>3. CASE BindSetsCtx \/ BindFails \/ BindLost \/ BindDropped \/ Misunderstands \/ Breaks
             \/ UNCHANGED vars
  <2>1. /\ UNCHANGED <<wrap, send_max, up, ops, offer, decoded>>
        /\ drv' \in {drv, "closed"} /\ reply' \in {reply, "none"}
        /\ bind' \in {bind, "bound", "returned", "error", "dropped"}
    BY <1>3 DEF BindSetsCtx, BindFails, BindLost, BindDropped, Misunderstands, Breaks, Returns
  <2> QED  BY <2>1 DEF StateType, SizeType
<1>4. ASSUME NEW size \in 1..MessageSize, Send(size)
      PROVE  StateType' /\ SizeType' /\ up' \in Seq(Requested)
  <2>1. /\ UNCHANGED <<wrap, send_max, offer, decoded, bind, reply>>
        /\ ops < MaxOps /\ ops' = ops + 1 /\ Encode("op", size, "none")
    BY <1>4 DEF Send
  <2>2. /\ drv' \in {"running", "closed", "toolarge", "invalid", "garbled", "panicked",
              "nocontext"}
        /\ up' \in Seq(Requested)
    BY <1>0, <2>1, EncodeTypes
  <2>3. ops' \in 0..MaxOps  BY <2>1, BoundsAssumption DEF SizeType
  <2> QED  BY <2>1, <2>2, <2>3 DEF StateType, SizeType
<1> QED  BY <1>1, <1>2, <1>3, <1>4 DEF Aside, Binding

LEMMA ServeAnswers ==
    ASSUME Types, Serve
    PROVE  /\ UNCHANGED <<has_tls, bind, reply, wrap, send_max, ctx, drv, buf, decoded, starved,
                          got, ops, untidy, torn, misform>>
           /\ up # <<>> /\ up' = Tail(up) /\ Head(up) \in Requested
           /\ \E as \in Seq(Answers \cup {"op"}) : Answering(as)
           /\ offer' = offer \/ offer' \in Offers
<1>1. up # <<>> /\ up \in Seq(Requested)  BY DEF Serve, Types
<1>2. Head(up) \in Requested  BY <1>1
<1>3. \E as \in Seq(Answers \cup {"op"}) : Answering(as)
  <2>1. CASE \E n \in 1..MaxReplies : Answering([i \in 1..n |-> "op"])
    <3>1. PICK n \in 1..MaxReplies : Answering([i \in 1..n |-> "op"])  BY <2>1
    <3> DEFINE as == [i \in 1..n |-> "op"]
    <3>2. n \in Nat /\ as \in [1..n -> Answers \cup {"op"}]  OBVIOUS
    <3> HIDE DEF as
    <3>3. as \in Seq(Answers \cup {"op"})  BY <3>2, FunSeq
    <3> QED  BY <3>1, <3>3 DEF as
  <2>2. CASE \E a \in Answers : Answering(<<a>>)
    <3>1. PICK a \in Answers : Answering(<<a>>)  BY <2>2
    <3>2. <<a>> \in Seq(Answers \cup {"op"})  OBVIOUS
    <3> QED  BY <3>1, <3>2
  <2> QED  BY <2>1, <2>2 DEF Serve
<1> QED  BY <1>1, <1>2, <1>3 DEF Serve, params, codec, history

LEMMA TypesStep == Types /\ [Next]_vars => Types'
<1> SUFFICES ASSUME Types, [Next]_vars PROVE Types'
  OBVIOUS
<1>0. FlagType'  BY FlagStep DEF Types
<1>1. CASE Aside
  <2>1. UNCHANGED <<buf, got, wire, ans, pend>>  BY <1>1, AsideFrame
  <2>2. UnitType'
    BY <2>1 DEF Types, UnitType, AllNumbered, PendPlain, Numbered, Transit, Followed
  <2> QED  BY <1>0, <1>1, <2>2, AsideTypes DEF Types
<1>2. CASE Decoding
  <2>1. up' = up  BY <1>2, DecodeFrame
  <2> QED  BY <1>0, <1>2, <2>1, DecodeTypes DEF Types
<1>3. CASE Read
  <2>1. /\ UNCHANGED <<bind, reply, wrap, send_max, drv, decoded, up, ops, offer>>
    BY <1>3 DEF Read, params, server
  <2>2. UnitType'  BY <1>3, ReadTypes DEF Types
  <2> QED  BY <1>0, <2>1, <2>2 DEF Types, StateType, SizeType
<1>4. CASE Serve
  <2>1. /\ UNCHANGED <<bind, reply, wrap, send_max, drv, buf, got, decoded, ops>>
        /\ up # <<>> /\ up' = Tail(up) /\ (offer' = offer \/ offer' \in Offers)
        /\ \E as \in Seq(Answers \cup {"op"}) : Answering(as)
    BY <1>4, ServeAnswers
  <2>2. UnitType'  BY <2>1, AnswerTypes DEF Types
  <2>3. up' \in Seq(Requested)  BY <2>1 DEF Types
  <2>4. offer'.max \in MaxSizes
    <3>1. CASE offer' = offer  BY <3>1 DEF Types, SizeType
    <3>2. CASE offer' \in Offers  BY <3>2, MaxSizesAssumption DEF Offers
    <3> QED  BY <2>1, <3>1, <3>2
  <2>5. StateType' /\ SizeType'  BY <2>1, <2>4 DEF Types, StateType, SizeType
  <2> QED  BY <1>0, <2>2, <2>3, <2>5 DEF Types
<1>5. CASE MakeToken
  <2>1. /\ UNCHANGED <<bind, reply, wrap, send_max, drv, decoded, up, ops, offer>>
    BY <1>5 DEF MakeToken, params, codec
  <2>2. UnitType'  BY <1>5, MakeTokenTypes DEF Types
  <2> QED  BY <1>0, <2>1, <2>2 DEF Types, StateType, SizeType
<1>6. CASE Notify
  <2>1. /\ UNCHANGED <<bind, reply, wrap, send_max, drv, buf, got, decoded, up, offer>>
        /\ ops < MaxOps /\ ops' = ops + 1 /\ Answering(<<"op">>)
    BY <1>6 DEF Notify, params, codec
  <2>2. <<"op">> \in Seq(Answers \cup {"op"})  OBVIOUS
  <2>3. UnitType'  BY <2>1, <2>2, AnswerTypes DEF Types
  <2>4. ops' \in 0..MaxOps  BY <2>1, BoundsAssumption DEF Types, SizeType
  <2> QED  BY <1>0, <2>1, <2>3, <2>4 DEF Types, StateType, SizeType
<1> QED  BY <1>1, <1>2, <1>3, <1>4, <1>5, <1>6, NextCases

LEMMA TypesAlways == Spec => []Types
<1>1. Init => Types  BY InitTypes
<1>2. Types /\ [Next]_vars => Types'  BY TypesStep
<1> QED  BY <1>1, <1>2, PTL DEF Spec

\* The types of the variables of the bind, the codec and the server.
THEOREM LayerTypes == Spec => []TypeOK
<1>1. Types => TypeOK  BY TypesOK
<1> QED  BY <1>1, TypesAlways, PTL

-----------------------------------------------------------------------------
(* The exchange of the bind *)

LEMMA FirstsConcat ==
    ASSUME NEW s \in Seq(Unit), NEW t \in Seq(Unit)
    PROVE  /\ Firsts(s \o t) = Firsts(s) \cup Firsts(t)
           /\ Once(s) /\ Once(t) /\ Firsts(s) \cap Firsts(t) = {} => Once(s \o t)
<1> DEFINE c == s \o t
<1>1. /\ \A j \in 1..Len(c) :
           (j \in 1..Len(s) /\ c[j] = s[j]) \/ (j - Len(s) \in 1..Len(t) /\ c[j] = t[j - Len(s)])
      /\ \A j \in 1..Len(s) : j \in 1..Len(c) /\ c[j] = s[j]
      /\ \A j \in 1..Len(t) : Len(s) + j \in 1..Len(c) /\ c[Len(s) + j] = t[j]
  OBVIOUS
<1>0. Len(s) \in Nat  BY LenProperties
<1> HIDE DEF c
<1>2. Firsts(c) = Firsts(s) \cup Firsts(t)
  <2>1. ASSUME NEW m \in Firsts(c) PROVE m \in Firsts(s) \cup Firsts(t)
    <3>1. PICK j \in 1..Len(c) : IsFirst(c[j]) /\ m = c[j].m  BY <2>1 DEF Firsts
    <3> QED  BY <1>1, <3>1 DEF Firsts
  <2>2. ASSUME NEW m \in Firsts(s) PROVE m \in Firsts(c)
    <3>1. PICK j \in 1..Len(s) : IsFirst(s[j]) /\ m = s[j].m  BY <2>2 DEF Firsts
    <3> QED  BY <1>1, <3>1 DEF Firsts
  <2>3. ASSUME NEW m \in Firsts(t) PROVE m \in Firsts(c)
    <3>1. PICK j \in 1..Len(t) : IsFirst(t[j]) /\ m = t[j].m  BY <2>3 DEF Firsts
    <3>2. Len(s) + j \in 1..Len(c) /\ c[Len(s) + j] = t[j]  BY <1>1
    <3> QED  BY <3>1, <3>2 DEF Firsts
  <2> QED  BY <2>1, <2>2, <2>3
<1>3. ASSUME Once(s), Once(t), Firsts(s) \cap Firsts(t) = {} PROVE Once(c)
  <2> SUFFICES ASSUME NEW j \in 1..Len(c), NEW k \in 1..Len(c), IsFirst(c[j]), IsFirst(c[k]),
                      c[j].m = c[k].m
               PROVE  j = k
    BY DEF Once
  <2>1. CASE j \in 1..Len(s) /\ c[j] = s[j]
    <3>1. c[j].m \in Firsts(s)  BY <2>1 DEF Firsts
    <3>2. CASE k \in 1..Len(s) /\ c[k] = s[k]  BY <1>3, <2>1, <3>2 DEF Once
    <3>3. CASE k - Len(s) \in 1..Len(t) /\ c[k] = t[k - Len(s)]
      <4>1. c[k].m \in Firsts(t)  BY <3>3 DEF Firsts
      <4> QED  BY <1>3, <3>1, <4>1
    <3> QED  BY <1>1, <3>2, <3>3
  <2>2. CASE j - Len(s) \in 1..Len(t) /\ c[j] = t[j - Len(s)]
    <3>1. c[j].m \in Firsts(t)  BY <2>2 DEF Firsts
    <3>2. CASE k \in 1..Len(s) /\ c[k] = s[k]
      <4>1. c[k].m \in Firsts(s)  BY <3>2 DEF Firsts
      <4> QED  BY <1>3, <3>1, <4>1
    <3>3. CASE k - Len(s) \in 1..Len(t) /\ c[k] = t[k - Len(s)]
      <4>1. j - Len(s) = k - Len(s)  BY <1>3, <2>2, <3>3 DEF Once
      <4> QED  BY <1>0, <4>1
    <3> QED  BY <1>1, <3>2, <3>3
  <2> QED  BY <1>1, <2>1, <2>2
<1> QED  BY <1>2, <1>3 DEF c

LEMMA FirstsFrom ==
    ASSUME NEW s \in Seq(Unit), NEW k \in Nat, k \in 1..(Len(s) + 1)
    PROVE  /\ Firsts(From(s, k)) \subseteq Firsts(s)
           /\ Once(s) => Once(From(s, k))
           /\ Once(s) => \A j \in 1..(k - 1) : IsFirst(s[j]) => s[j].m \notin Firsts(From(s, k))
<1> DEFINE f == From(s, k)
<1>1. Len(f) = Len(s) + 1 - k /\ \A j \in 1..(Len(s) + 1 - k) : f[j] = s[j + k - 1]
  BY FromFacts
<1> HIDE DEF f
<1>0. Len(s) \in Nat  BY LenProperties
<1>2. \A j \in 1..Len(f) : /\ j + k - 1 \in k..Len(s) /\ j + k - 1 \in 1..Len(s)
                           /\ f[j] = s[j + k - 1]
  BY <1>0, <1>1
<1>3. ASSUME NEW m \in Firsts(f) PROVE \E j \in k..Len(s) : IsFirst(s[j]) /\ s[j].m = m
  <2>1. PICK j \in 1..Len(f) : IsFirst(f[j]) /\ m = f[j].m  BY <1>3 DEF Firsts
  <2> QED  BY <1>2, <2>1
<1>4. Firsts(f) \subseteq Firsts(s)
  <2>1. \A j \in k..Len(s) : j \in 1..Len(s)  BY <1>0
  <2> QED  BY <1>3, <2>1 DEF Firsts
<1>5. ASSUME Once(s) PROVE Once(f)
  <2> SUFFICES ASSUME NEW i \in 1..Len(f), NEW j \in 1..Len(f), IsFirst(f[i]), IsFirst(f[j]),
                      f[i].m = f[j].m
               PROVE  i = j
    BY DEF Once
  <2>1. i + k - 1 = j + k - 1  BY <1>2, <1>5 DEF Once
  <2> QED  BY <2>1
<1>6. ASSUME Once(s), NEW j \in 1..(k - 1), IsFirst(s[j]), s[j].m \in Firsts(f) PROVE FALSE
  <2>1. PICK i \in k..Len(s) : IsFirst(s[i]) /\ s[i].m = s[j].m  BY <1>3, <1>6
  <2>2. i \in 1..Len(s) /\ j \in 1..Len(s) /\ i # j  BY <1>0
  <2> QED  BY <1>6, <2>1, <2>2 DEF Once
<1> QED  BY <1>4, <1>5, <1>6 DEF f

LEMMA FirstsWrapped ==
    ASSUME NEW us \in Seq(Unit)
    PROVE  Firsts(Wrapped(us)) = {} /\ Once(Wrapped(us))
<1> DEFINE w == Wrapped(us)
           n == Len(us)
<1>0. n \in Nat  BY LenProperties
<1>1. /\ Len(w) = 2 + n
      /\ w[1] = Header(n)[1] /\ w[2] = Header(n)[2]
      /\ \A k \in 1..n : w[2 + k] = [form |-> "wrapped", m |-> us[k].m, i |-> us[k].i,
                                     end |-> Mark(us, k)]
  BY WrappedFacts
<1> HIDE DEF w, n
<1>2. \A k \in 1..2 : Header(n)[k] = [form |-> "length", m |-> n, i |-> k, end |-> "no"]
  BY <1>0, HeaderFacts
<1>3. w[1].form = "length" /\ w[2].form = "length"  BY <1>1, <1>2
<1>4. ASSUME NEW k \in 1..Len(w) PROVE ~IsFirst(w[k])
  <2>1. CASE k \in 1..2
    <3>1. k = 1 \/ k = 2  BY <2>1
    <3> QED  BY <1>3, <3>1 DEF IsFirst
  <2>2. CASE k \in 3..(2 + n)
    <3> DEFINE j == k - 2
    <3>1. j \in 1..n /\ k = 2 + j  BY <1>0, <2>2
    <3> HIDE DEF j
    <3>2. w[2 + j] = [form |-> "wrapped", m |-> us[j].m, i |-> us[j].i, end |-> Mark(us, j)]
      BY <1>1, <3>1
    <3>3. w[k].form = "wrapped"  BY <3>1, <3>2
    <3> QED  BY <3>3 DEF IsFirst
  <2> QED  BY <1>0, <1>1, <2>1, <2>2
<1> QED  BY <1>4 DEF Firsts, Once, w

LEMMA FirstsNew ==
    ASSUME NEW S, ans \in Seq(S), NEW as \in Seq(S)
    PROVE  Firsts(NewUnits(as)) = (Len(ans) + 1)..(Len(ans) + Len(as)) /\ Once(NewUnits(as))
<1> DEFINE l == Len(ans)
           n == Len(as)
           us == NewUnits(as)
<1>0. l \in Nat /\ n \in Nat  BY LenProperties
<1>1. /\ us \in Seq(Unit) /\ Len(us) = 2 * n
      /\ \A k \in 1..(2 * n) :
           /\ us[k].form = "plain" /\ us[k].end = "no"
           /\ us[k].m \in (l + 1)..(l + n)
           /\ us[k].i = 1 + ((k - 1) % 2)
           /\ Place(us[k]) = 2 * l + k
  BY NewUnitsFacts
<1> HIDE DEF us, l, n
<1>2. \A k \in 1..(2 * n) : us[k].i = 1 => 2 * (us[k].m - 1) + 1 = 2 * l + k
  BY <1>1 DEF Place, MessageSize
<1>3. Firsts(us) \subseteq (l + 1)..(l + n)  BY <1>1 DEF Firsts
<1>4. ASSUME NEW m \in (l + 1)..(l + n) PROVE m \in Firsts(us)
  <2> DEFINE k == 2 * (m - l) - 1
  <2>1. k \in 1..(2 * n) /\ (k - 1) % 2 = 0 /\ k + 2 * l = 2 * (m - 1) + 1 /\ m \in Nat
    BY <1>0
  <2> HIDE DEF k
  <2>2. us[k].i = 1 /\ us[k].form = "plain" /\ us[k].m \in (l + 1)..(l + n)
    BY <1>1, <2>1
  <2>3. 2 * (us[k].m - 1) + 1 = 2 * l + k  BY <1>2, <2>1, <2>2
  <2> DEFINE v == us[k].m
  <2>4. v \in (l + 1)..(l + n) /\ 2 * (v - 1) + 1 = 2 * l + k  BY <2>2, <2>3
  <2> HIDE DEF v
  <2>6. v \in Int /\ v = m  BY <1>0, <2>1, <2>4
  <2>5. k \in 1..Len(us)  BY <1>1, <2>1
  <2> QED  BY <2>2, <2>5, <2>6 DEF Firsts, IsFirst, v
<1>5. Once(us)
  <2> SUFFICES ASSUME NEW j \in 1..Len(us), NEW k \in 1..Len(us), IsFirst(us[j]),
                      IsFirst(us[k]), us[j].m = us[k].m
               PROVE  j = k
    BY DEF Once
  <2>1. 2 * (us[j].m - 1) + 1 = 2 * l + j /\ 2 * (us[k].m - 1) + 1 = 2 * l + k
    BY <1>1, <1>2 DEF IsFirst
  <2>2. 2 * l + j = 2 * l + k  BY <2>1
  <2> QED  BY <1>0, <2>2
<1> QED  BY <1>3, <1>4, <1>5 DEF us, l, n

\* What an answer of the server adds to what is on its way in the clear.
LEMMA AnswerFirsts ==
    ASSUME Types, NEW as \in Seq(Answers \cup {"op"}), Answering(as), UNCHANGED buf
    PROVE  /\ layer => Transit' = Transit
           /\ ~layer => Firsts(Transit') = Firsts(Transit) \cup
                                             ((Len(ans) + 1)..(Len(ans) + Len(as)))
           /\ Once(Transit) => Once(Transit')
           /\ Firsts(Transit) \subseteq 1..Len(ans)
           /\ \A m \in 1..Len(ans) : ans'[m] = ans[m]
           /\ \A j \in 1..Len(as) : ans'[Len(ans) + j] = as[j]
<1> DEFINE us == NewUnits(as)
           l == Len(ans)
           n == Len(as)
<1>1. ans \in Seq(Answers \cup {"op"}) /\ buf \in Seq(Unit) /\ wire \in Seq(Unit)
  BY DEF Types, UnitType
<1>2. l \in Nat /\ n \in Nat  BY <1>1, LenProperties
<1>3. us \in Seq(Unit)  BY <1>1, NewUnitsFacts
<1>4. Firsts(us) = (l + 1)..(l + n) /\ Once(us)  BY <1>1, FirstsNew
<1> HIDE DEF us, l, n
<1>5. Transit \in Seq(Unit) /\ Numbered(Transit)
  BY <1>1, NumberedConcat DEF Transit, Types, UnitType, AllNumbered
<1>6. Firsts(Transit) \subseteq 1..l  BY <1>5 DEF Numbered, Firsts, IsFirst, l
<1>7. layer => Transit' = Transit
  BY AnsweringFacts DEF Transit
<1>8. ASSUME ~layer PROVE Transit' = Transit \o us
  <2>1. wire' = wire \o us  BY <1>8, AnsweringFacts DEF us
  <2> QED  BY <1>1, <1>3, <2>1, TransitAppend DEF Transit
<1>9. ASSUME ~layer
      PROVE  /\ Firsts(Transit') = Firsts(Transit) \cup ((l + 1)..(l + n))
             /\ Once(Transit) => Once(Transit')
  <2>1. Firsts(Transit) \cap Firsts(us) = {}
    <3>1. \A m \in 1..l : m \notin (l + 1)..(l + n)  BY <1>2
    <3> QED  BY <1>4, <1>6, <3>1
  <2>2. /\ Firsts(Transit \o us) = Firsts(Transit) \cup Firsts(us)
        /\ Once(Transit) /\ Once(us) /\ Firsts(Transit) \cap Firsts(us) = {}
             => Once(Transit \o us)
    BY <1>3, <1>5, FirstsConcat
  <2> QED  BY <1>4, <1>8, <1>9, <2>1, <2>2
<1>10. ans' = ans \o as  BY AnsweringFacts
<1>11. /\ \A m \in 1..l : ans'[m] = ans[m]
       /\ \A j \in 1..n : ans'[l + j] = as[j]
  <2>1. ans \in Seq(Answers \cup {"op"})  BY <1>1
  <2>2. ASSUME NEW j \in 1..Len(ans) PROVE (ans \o as)[j] = ans[j]
    BY <2>1, ConcatFacts
  <2>3. ASSUME NEW j \in 1..Len(as) PROVE (ans \o as)[Len(ans) + j] = as[j]
    BY <2>1, ConcatTail
  <2> QED  BY <1>10, <2>2, <2>3 DEF l, n
<1> QED  BY <1>6, <1>7, <1>9, <1>11 DEF l, n, Types, FlagType

\* Answers to other requests leave the bind alone.
LEMMA AnswerOps ==
    ASSUME Types, NEW n \in Nat, Answering([i \in 1..n |-> "op"]), UNCHANGED buf
    PROVE  /\ Live' = Live /\ \A m \in Live : ans'[m] = ans[m]
           /\ Once(Transit) => Once(Transit')
<1> DEFINE as == [i \in 1..n |-> "op"]
<1>1. as \in [1..n -> Answers \cup {"op"}] /\ \A j \in 1..n : as[j] = "op"  OBVIOUS
<1> HIDE DEF as
<1>2. as \in Seq(Answers \cup {"op"}) /\ Len(as) = n  BY <1>1, FunSeq
<1>3. Answering(as)  BY DEF as
<1>4. /\ layer => Transit' = Transit
      /\ ~layer => Firsts(Transit') = Firsts(Transit) \cup ((Len(ans) + 1)..(Len(ans) + Len(as)))
      /\ Once(Transit) => Once(Transit')
      /\ Firsts(Transit) \subseteq 1..Len(ans)
      /\ \A m \in 1..Len(ans) : ans'[m] = ans[m]
      /\ \A j \in 1..Len(as) : ans'[Len(ans) + j] = as[j]
  <2>1. as \in Seq(Answers \cup {"op"})  BY <1>2
  <2> QED  BY <1>3, <2>1, AnswerFirsts
<1>5. Len(ans) \in Nat  BY LenProperties DEF Types, UnitType
<1> DEFINE l == Len(ans)
<1> HIDE DEF l
<1>6. \A m \in (l + 1)..(l + n) : ans'[m] = "op"
  <2> SUFFICES ASSUME NEW m \in (l + 1)..(l + n) PROVE ans'[m] = "op"
    OBVIOUS
  <2> DEFINE j == m - l
  <2>1. j \in 1..n /\ m = l + j  BY <1>5 DEF l
  <2> HIDE DEF j
  <2>2. ans'[l + j] = as[j] /\ as[j] = "op"  BY <1>1, <1>2, <1>4, <2>1 DEF l
  <2> QED  BY <2>1, <2>2
<1>7. Live' = {m \in Firsts(Transit') : ans'[m] # "op"}  BY DEF Live, Firsts
<1>8. Live' = Live
  <2>1. CASE layer  BY <1>4, <1>7, <2>1 DEF Live
  <2>2. CASE ~layer
    <3>1. Firsts(Transit') = Firsts(Transit) \cup ((l + 1)..(l + n))  BY <1>2, <1>4, <2>2 DEF l
    <3> QED  BY <1>4, <1>6, <1>7, <3>1 DEF Live
  <2> QED  BY <2>1, <2>2
<1> QED  BY <1>4, <1>8 DEF Live

\* An answer to the bind, in the clear.
LEMMA AnswerBind ==
    ASSUME Types, NEW a \in Answers, Answering(<<a>>), UNCHANGED buf
    PROVE  /\ ~layer => Live' = Live \cup {Len(ans) + 1} /\ ans'[Len(ans) + 1] = a
           /\ layer => Live' = Live
           /\ \A m \in Live : ans'[m] = ans[m]
           /\ Once(Transit) => Once(Transit')
<1> DEFINE as == <<a>>
<1>1. as \in Seq(Answers \cup {"op"}) /\ Len(as) = 1 /\ as[1] = a  OBVIOUS
<1>2. Answering(as)  OBVIOUS
<1> HIDE DEF as
<1>4. /\ layer => Transit' = Transit
      /\ ~layer => Firsts(Transit') = Firsts(Transit) \cup ((Len(ans) + 1)..(Len(ans) + Len(as)))
      /\ Once(Transit) => Once(Transit')
      /\ Firsts(Transit) \subseteq 1..Len(ans)
      /\ \A m \in 1..Len(ans) : ans'[m] = ans[m]
      /\ \A j \in 1..Len(as) : ans'[Len(ans) + j] = as[j]
  <2>1. as \in Seq(Answers \cup {"op"})  BY <1>1
  <2> QED  BY <1>2, <2>1, AnswerFirsts
<1>5. Len(ans) \in Nat  BY LenProperties DEF Types, UnitType
<1> DEFINE l == Len(ans)
<1> HIDE DEF l
<1>6. ans'[l + 1] = a /\ a # "op"
  <2>1. 1 \in 1..Len(as)  BY <1>1
  <2> QED  BY <1>1, <1>4, <2>1 DEF Answers, l
<1>7. Live' = {m \in Firsts(Transit') : ans'[m] # "op"}  BY DEF Live, Firsts
<1>8. ~layer => Live' = Live \cup {l + 1}
  <2> SUFFICES ASSUME ~layer PROVE Live' = Live \cup {l + 1}
    OBVIOUS
  <2>1. Firsts(Transit') = Firsts(Transit) \cup ((l + 1)..(l + 1))  BY <1>1, <1>4 DEF l
  <2>2. (l + 1)..(l + 1) = {l + 1}  BY <1>5 DEF l
  <2>3. Firsts(Transit') = Firsts(Transit) \cup {l + 1}  BY <2>1, <2>2
  <2> QED  BY <1>4, <1>6, <1>7, <2>3 DEF Live, l
<1>9. layer => Live' = Live  BY <1>4, <1>7 DEF Live
<1> QED  BY <1>4, <1>6, <1>8, <1>9 DEF Live, l

\* Taking units from the front of the buffer.
LEMMA DropTransit ==
    ASSUME Types, NEW k \in Nat, k \in 1..(Len(buf) + 1), buf' = From(buf, k), wire' = wire
    PROVE  Transit' = From(Transit, k) /\ Transit \in Seq(Unit) /\ k \in 1..(Len(Transit) + 1)
<1>1. buf \in Seq(Unit) /\ wire \in Seq(Unit)  BY DEF Types, UnitType
<1>2. From(buf, k) \o wire = From(buf \o wire, k) /\ k \in 1..(Len(buf \o wire) + 1)
  BY <1>1, TransitDrop
<1>3. Transit \in Seq(Unit)  BY <1>1, ConcatFacts DEF Transit
<1> QED  BY <1>2, <1>3 DEF Transit

LEMMA EmptyFrom ==
    ASSUME NEW s \in Seq(Unit)
    PROVE  Len(s) + 1 \in Nat /\ Len(s) + 1 \in 1..(Len(s) + 1) /\ From(s, Len(s) + 1) = <<>>
<1>1. Len(s) \in Nat  BY LenProperties
<1>2. Len(s) + 1 \in Nat /\ Len(s) + 1 \in 1..(Len(s) + 1)  BY <1>1
<1> DEFINE k == Len(s) + 1
<1> HIDE DEF k
<1>3. k \in Nat /\ k \in 1..(Len(s) + 1)  BY <1>2 DEF k
<1>4. From(s, k) \in Seq(Unit) /\ Len(From(s, k)) = Len(s) + 1 - k  BY <1>3, FromFacts
<1>5. Len(s) + 1 - k = 0  BY <1>1 DEF k
<1>6. From(s, k) = <<>>  BY <1>4, <1>5, EmptySeq
<1> QED  BY <1>2, <1>6 DEF k

\* Before the switch decode() takes messages from the front, and each answer
\* to the bind is dispatched once.
LEMMA DecodeClear ==
    ASSUME Types, Decoding, ~wrap, Once(Transit)
    PROVE  /\ Once(Transit') /\ Live' \subseteq Live
           /\ \/ reply' = reply
              \/ bind \in Waiting /\ \E m \in Live : reply' = ans[m] /\ m \notin Live'
<1>1. DecodePlain
  BY DEF Decoding, DecodeKept, DecodeShort, DecodeMisread, DecodeWaits, DecodeNoCtx,
         DecodeToken, AtToken
<1>2. PICK r \in DecodeInner(buf) : Yield(r) /\ buf' = r.rest  BY <1>1 DEF DecodePlain
<1>3. ans' = ans /\ wire' = wire /\ bind' = bind  BY DecodeFrame DEF server
<1>4. buf \in Seq(Unit) /\ wire \in Seq(Unit)  BY DEF Types, UnitType
<1>5. \/ r.res # "message" /\ r.rest = buf
      \/ r.res = "message" /\ r.m = 0 /\ r.rest = <<>>
      \/ /\ r.res = "message" /\ Len(buf) >= 2 /\ r.m = buf[1].m
         /\ buf[1] = Plain(r.m, 1) /\ r.rest = From(buf, 3)
  BY <1>4, InnerFacts
<1>6. Live' = {m \in Firsts(Transit') : ans[m] # "op"}  BY <1>3 DEF Live, Firsts
<1>7. CASE r.res # "message" /\ r.rest = buf
  <2>1. reply' = reply  BY <1>2, <1>7 DEF Yield
  <2>2. Transit' = Transit  BY <1>2, <1>3, <1>7 DEF Transit
  <2> QED  BY <1>6, <2>1, <2>2 DEF Live
<1>8. CASE r.res = "message" /\ r.m = 0 /\ r.rest = <<>>
  <2>1. reply' = reply  BY <1>2, <1>8 DEF Yield
  <2> DEFINE k == Len(buf) + 1
  <2>2. k \in Nat /\ k \in 1..(Len(buf) + 1) /\ From(buf, k) = <<>>  BY <1>4, EmptyFrom
  <2> HIDE DEF k
  <2>3. Transit' = From(Transit, k) /\ Transit \in Seq(Unit) /\ k \in 1..(Len(Transit) + 1)
    BY <1>2, <1>3, <1>8, <2>2, DropTransit
  <2>4. Firsts(From(Transit, k)) \subseteq Firsts(Transit) /\ Once(From(Transit, k))
    BY <2>2, <2>3, FirstsFrom
  <2> QED  BY <1>6, <2>1, <2>3, <2>4 DEF Live
<1>9. CASE /\ r.res = "message" /\ Len(buf) >= 2 /\ r.m = buf[1].m
           /\ buf[1] = Plain(r.m, 1) /\ r.rest = From(buf, 3)
  <2>1. 3 \in Nat /\ 3 \in 1..(Len(buf) + 1) /\ 1 \in 1..Len(buf)  BY <1>4, <1>9
  <2>2. Transit' = From(Transit, 3) /\ Transit \in Seq(Unit) /\ 3 \in 1..(Len(Transit) + 1)
    BY <1>2, <1>3, <1>9, <2>1, DropTransit
  <2>3. /\ Firsts(From(Transit, 3)) \subseteq Firsts(Transit) /\ Once(From(Transit, 3))
        /\ \A j \in 1..(3 - 1) : IsFirst(Transit[j]) => Transit[j].m \notin Firsts(From(Transit, 3))
    BY <2>1, <2>2, FirstsFrom
  <2>4. Transit[1] = buf[1]  BY <1>4, <2>1, ConcatFacts DEF Transit
  <2>5. IsFirst(Transit[1]) /\ Transit[1].m = r.m  BY <1>9, <2>4 DEF IsFirst, Plain
  <2>6. 1 \in 1..(3 - 1) /\ 1 \in 1..Len(Transit)  BY <2>2
  <2>7. r.m \notin Firsts(Transit')  BY <2>2, <2>3, <2>5, <2>6
  <2>8. r.m \in Firsts(Transit)  BY <2>5, <2>6 DEF Firsts
  <2>9. Live' \subseteq Live /\ Once(Transit')  BY <1>6, <2>2, <2>3 DEF Live
  <2>10. reply' = IF r.m = 0 \/ bind \notin Waiting THEN reply
                  ELSE IF ans[r.m] = "op" THEN reply ELSE ans[r.m]
    BY <1>2, <1>9 DEF Yield
  <2>11. reply' # reply => bind \in Waiting /\ r.m \in Live /\ reply' = ans[r.m]
    BY <2>8, <2>10 DEF Live
  <2>12. r.m \notin Live'  BY <1>6, <2>7
  <2> QED  BY <2>9, <2>11, <2>12
<1> QED  BY <1>5, <1>7, <1>8, <1>9

LEMMA UpAppend ==
    ASSUME NEW q \in Requested, up \in Seq(Requested), up' = Append(up, q)
    PROVE  /\ Len(up) \in Nat /\ Len(up') = Len(up) + 1
           /\ \A k \in 1..Len(up') :
                (k \in 1..Len(up) /\ up'[k] = up[k]) \/ (k = Len(up) + 1 /\ up'[k] = q)
<1>1. Len(up) \in Nat  BY LenProperties
<1>2. Len(up') = Len(up) + 1  OBVIOUS
<1>3. \A k \in 1..Len(up) : up'[k] = up[k]  OBVIOUS
<1>4. up'[Len(up) + 1] = q  OBVIOUS
<1> QED  BY <1>1, <1>2, <1>3, <1>4

LEMMA UpTail ==
    ASSUME up \in Seq(Requested), up # <<>>, up' = Tail(up)
    PROVE  /\ 1 \in 1..Len(up) /\ Head(up) = up[1]
           /\ Len(up) \in Nat /\ Len(up') = Len(up) - 1
           /\ \A k \in 1..Len(up') : k + 1 \in 2..Len(up) /\ k + 1 \in 1..Len(up)
                                      /\ up'[k] = up[k + 1]
<1>1. Len(up) \in Nat /\ Len(up) # 0  BY EmptySeq, LenProperties
<1>2. 1 \in 1..Len(up) /\ Head(up) = up[1]  BY <1>1
<1>3. Len(up') = Len(up) - 1  BY <1>1
<1>4. \A k \in 1..(Len(up) - 1) : up'[k] = up[k + 1]  BY <1>1
<1> QED  BY <1>1, <1>2, <1>3, <1>4

\* A request of another handle changes nothing for the bind, and a request of
\* the bind is the only one.
LEMMA UpSend ==
    ASSUME NEW q \in Requested, up \in Seq(Requested), up' = Append(up, q), q.what = "op",
           has_tls' = has_tls
    PROVE  /\ NoBindRequest => NoBindRequest'
           /\ \A b : OnlyFor(b) => \A k \in 1..Len(up') : up'[k].what \in {"op", b}
           /\ OneRequest => OneRequest'
           /\ Wanting => Wanting'
           /\ NoBindRequest' => NoBindRequest
<1>1. /\ Len(up) \in Nat /\ Len(up') = Len(up) + 1
      /\ \A k \in 1..Len(up') :
           (k \in 1..Len(up) /\ up'[k] = up[k]) \/ (k = Len(up) + 1 /\ up'[k] = q)
  BY UpAppend
<1>2. \A k \in 1..Len(up) : k \in 1..Len(up') /\ up'[k] = up[k]  BY <1>1
<1>3. NoBindRequest => NoBindRequest'  BY <1>1 DEF NoBindRequest
<1>4. NoBindRequest' => NoBindRequest  BY <1>2 DEF NoBindRequest
<1>5. \A b : OnlyFor(b) => \A k \in 1..Len(up') : up'[k].what \in {"op", b}
  BY <1>1 DEF OnlyFor
<1>6. OneRequest => OneRequest'  BY <1>1 DEF OneRequest
<1>7. Wanting => Wanting'  BY <1>1 DEF Wanting, NeededLayer
<1> QED  BY <1>3, <1>4, <1>5, <1>6, <1>7

LEMMA UpRequest ==
    ASSUME NEW q \in Requested, up \in Seq(Requested), up' = Append(up, q), NoBindRequest,
           q.what = "third" => q.wants = NeededLayer, has_tls' = has_tls
    PROVE  /\ \A k \in 1..Len(up') : up'[k].what \in {"op", q.what}
           /\ OneRequest' /\ Wanting'
<1>1. /\ Len(up) \in Nat /\ Len(up') = Len(up) + 1
      /\ \A k \in 1..Len(up') :
           (k \in 1..Len(up) /\ up'[k] = up[k]) \/ (k = Len(up) + 1 /\ up'[k] = q)
  BY UpAppend
<1>2. \A k \in 1..Len(up') : up'[k].what \in {"op", q.what}  BY <1>1 DEF NoBindRequest
<1>3. OneRequest'  BY <1>1 DEF NoBindRequest, OneRequest
<1>4. Wanting'  BY <1>1 DEF NoBindRequest, Wanting, NeededLayer
<1> QED  BY <1>2, <1>3, <1>4

LEMMA UpServe ==
    ASSUME up \in Seq(Requested), up # <<>>, up' = Tail(up), has_tls' = has_tls
    PROVE  /\ NoBindRequest => NoBindRequest'
           /\ \A b : OnlyFor(b) => /\ Head(up).what \in {"op", b}
                                   /\ \A k \in 1..Len(up') : up'[k].what \in {"op", b}
           /\ OneRequest => OneRequest'
           /\ Wanting => Wanting' /\ (Head(up).what = "third" => Head(up).wants = NeededLayer)
           /\ OneRequest /\ Head(up).what # "op" => NoBindRequest'
           /\ Head(up).what # "op" => ~NoBindRequest
           /\ Head(up).what = "op" /\ NoBindRequest' => NoBindRequest
<1>1. /\ 1 \in 1..Len(up) /\ Head(up) = up[1]
      /\ Len(up) \in Nat /\ Len(up') = Len(up) - 1
      /\ \A k \in 1..Len(up') : k + 1 \in 2..Len(up) /\ k + 1 \in 1..Len(up)
                                 /\ up'[k] = up[k + 1]
  BY UpTail
<1>2. NoBindRequest => NoBindRequest'  BY <1>1 DEF NoBindRequest
<1>3. \A b : OnlyFor(b) => /\ Head(up).what \in {"op", b}
                          /\ \A k \in 1..Len(up') : up'[k].what \in {"op", b}
  BY <1>1 DEF OnlyFor
<1>4. OneRequest => OneRequest'
  <2> SUFFICES ASSUME OneRequest, NEW j \in 1..Len(up'), NEW k \in 1..Len(up'),
                      up'[j].what # "op", up'[k].what # "op"
               PROVE  j = k
    BY DEF OneRequest
  <2>1. j + 1 = k + 1  BY <1>1 DEF OneRequest
  <2> QED  BY <2>1
<1>5. Wanting => Wanting' /\ (Head(up).what = "third" => Head(up).wants = NeededLayer)
  BY <1>1 DEF Wanting, NeededLayer
<1>6. OneRequest /\ Head(up).what # "op" => NoBindRequest'
  <2> SUFFICES ASSUME OneRequest, Head(up).what # "op", NEW k \in 1..Len(up'),
                      up'[k].what # "op"
               PROVE  FALSE
    BY DEF NoBindRequest
  <2>1. 1 = k + 1  BY <1>1 DEF OneRequest
  <2> QED  BY <2>1
<1>7. Head(up).what # "op" => ~NoBindRequest  BY <1>1 DEF NoBindRequest
<1>8. Head(up).what = "op" /\ NoBindRequest' => NoBindRequest
  <2> SUFFICES ASSUME Head(up).what = "op", NoBindRequest', NEW k \in 1..Len(up)
               PROVE  up[k].what = "op"
    BY DEF NoBindRequest
  <2>1. CASE k = 1  BY <1>1, <2>1
  <2>2. CASE k # 1
    <3> DEFINE j == k - 1
    <3>1. j \in 1..Len(up') /\ j + 1 = k  BY <1>1, <2>2
    <3> HIDE DEF j
    <3>2. up'[j] = up[k] /\ up'[j].what = "op"  BY <1>1, <3>1 DEF NoBindRequest
    <3> QED  BY <3>2
  <2> QED  BY <2>1, <2>2
<1> QED  BY <1>2, <1>3, <1>4, <1>5, <1>6, <1>7, <1>8

LEMMA TokenFirsts ==
    ASSUME Types, MakeToken
    PROVE  Firsts(Transit') = Firsts(Transit) /\ (Once(Transit) => Once(Transit'))
<1>0. pend # <<>> /\ buf' = buf  BY DEF MakeToken, codec
<1>1. PICK n \in TokenSizes : wire' = wire \o Wrapped(SubSeq(pend, 1, Least(n, Len(pend))))
  BY DEF MakeToken
<1> DEFINE us == SubSeq(pend, 1, Least(n, Len(pend)))
<1>2. buf \in Seq(Unit) /\ wire \in Seq(Unit) /\ pend \in Seq(Unit)  BY DEF Types, UnitType
<1>3. us \in Seq(Unit)  BY <1>0, <1>2, TokenPrefix
<1> HIDE DEF us
<1> DEFINE w == Wrapped(us)
<1>4. w \in Seq(Unit)  BY <1>3, WrappedFacts
<1>5. Firsts(w) = {} /\ Once(w)  BY <1>3, FirstsWrapped
<1> HIDE DEF w
<1>6. wire' = wire \o w  BY <1>1 DEF w, us
<1>7. Transit' = Transit \o w
  <2>1. Transit' = buf \o (wire \o w)  BY <1>0, <1>6 DEF Transit
  <2>2. buf \in Seq(Unit) /\ wire \in Seq(Unit) /\ w \in Seq(Unit)  BY <1>2, <1>4
  <2>3. buf \o (wire \o w) = (buf \o wire) \o w  BY <2>2, TransitAppend
  <2> QED  BY <2>1, <2>3 DEF Transit
<1>8. Transit \in Seq(Unit)  BY <1>2, ConcatFacts DEF Transit
<1>9. /\ Firsts(Transit \o w) = Firsts(Transit) \cup Firsts(w)
      /\ Once(Transit) /\ Once(w) /\ Firsts(Transit) \cap Firsts(w) = {} => Once(Transit \o w)
  BY <1>4, <1>8, FirstsConcat
<1> QED  BY <1>5, <1>7, <1>9

LEMMA ReadTransit ==
    ASSUME Types, Read
    PROVE  Transit' = Transit
<1>1. PICK n \in 1..Len(wire) : buf' = buf \o SubSeq(wire, 1, n) /\ wire' = From(wire, n + 1)
  BY DEF Read
<1>2. buf \in Seq(Unit) /\ wire \in Seq(Unit)  BY DEF Types, UnitType
<1> QED  BY <1>1, <1>2, TransitRead DEF Transit

LEMMA AsideTransit ==
    ASSUME Aside
    PROVE  Transit' = Transit /\ ans' = ans /\ Live' = Live
BY AsideFrame DEF Transit, Live, Firsts

\* The requests of the server's other clients, and notifications.
LEMMA NotifyLive ==
    ASSUME Types, Notify
    PROVE  /\ Live' = Live /\ \A m \in Live : ans'[m] = ans[m]
           /\ Once(Transit) => Once(Transit')
<1>1. Answering(<<"op">>) /\ buf' = buf  BY DEF Notify, codec
<1>2. <<"op">> = [i \in 1..1 |-> "op"]  OBVIOUS
<1>3. Answering([i \in 1..1 |-> "op"])  BY <1>1, <1>2
<1> QED  BY <1>1, <1>3, AnswerOps

LEMMA ServeCases ==
    ASSUME Types, Serve
    PROVE  \/ /\ Head(up).what = "op" /\ UNCHANGED <<layer, offer>>
              /\ Live' = Live /\ \A m \in Live : ans'[m] = ans[m]
              /\ Once(Transit) => Once(Transit')
           \/ /\ Head(up).what # "op"
              /\ \E a \in Answers :
                   /\ ~layer => Live' = Live \cup {Len(ans) + 1} /\ ans'[Len(ans) + 1] = a
                   /\ layer => Live' = Live
                   /\ \A m \in Live : ans'[m] = ans[m]
                   /\ Once(Transit) => Once(Transit')
                   /\ layer' = (layer \/ (/\ Head(up).what = "third" /\ a = "ok"
                                          /\ Head(up).wants = "privacy"))
                   /\ Answering(<<a>>)
                   /\ Head(up).what # "second" => offer' = offer
<1>0. buf' = buf  BY ServeAnswers
<1>1. CASE /\ Head(up).what = "op" /\ UNCHANGED <<layer, offer>>
           /\ \E n \in 1..MaxReplies : Answering([i \in 1..n |-> "op"])
  <2>1. PICK n \in 1..MaxReplies : Answering([i \in 1..n |-> "op"])  BY <1>1
  <2>2. n \in Nat  OBVIOUS
  <2>3. /\ Live' = Live /\ \A m \in Live : ans'[m] = ans[m]
        /\ Once(Transit) => Once(Transit')
    BY <1>0, <2>1, <2>2, AnswerOps
  <2> QED  BY <1>1, <2>3
<1>2. CASE /\ Head(up).what # "op"
           /\ \E a \in Answers :
                /\ Answering(<<a>>)
                /\ layer' = (layer \/ (/\ Head(up).what = "third" /\ a = "ok"
                                       /\ Head(up).wants = "privacy"))
                /\ IF Head(up).what = "second" /\ a = "more" THEN offer' \in Offers
                   ELSE UNCHANGED offer
  <2>1. PICK a \in Answers :
          /\ Answering(<<a>>)
          /\ layer' = (layer \/ (/\ Head(up).what = "third" /\ a = "ok"
                                 /\ Head(up).wants = "privacy"))
          /\ IF Head(up).what = "second" /\ a = "more" THEN offer' \in Offers ELSE UNCHANGED offer
    BY <1>2
  <2>2. /\ ~layer => Live' = Live \cup {Len(ans) + 1} /\ ans'[Len(ans) + 1] = a
        /\ layer => Live' = Live
        /\ \A m \in Live : ans'[m] = ans[m]
        /\ Once(Transit) => Once(Transit')
    BY <1>0, <2>1, AnswerBind
  <2> QED  BY <1>2, <2>1, <2>2
<1> QED  BY <1>1, <1>2 DEF Serve

LEMMA ClearOnceStep ==
    ASSUME Types, ClearOnce, [Next]_vars
    PROVE  ClearOnce'
<1> SUFFICES ASSUME ~wrap' PROVE Once(Transit')
  BY DEF ClearOnce, Once
<1>1. ~wrap
  <2>1. CASE Aside
    <3>1. CASE BindSetsParam  BY <3>1 DEF BindSetsParam, Installs
    <3>2. CASE ~BindSetsParam
      BY <2>1, <3>2 DEF Aside, Binding, BindBegins, BindSteps, BindChooses, BindSetsCtx,
                        BindFails, BindLost, BindDropped, Send, Misunderstands, Breaks, vars,
                        params
    <3> QED  BY <3>1, <3>2
  <2>2. CASE Decoding  BY <2>2, DecodeFrame DEF params
  <2>3. CASE Read \/ Serve \/ MakeToken \/ Notify
    BY <2>3 DEF Read, Serve, MakeToken, Notify, params
  <2> QED  BY <2>1, <2>2, <2>3, NextCases
<1>2. Once(Transit)  BY <1>1 DEF ClearOnce
<1>3. CASE Aside  BY <1>2, <1>3, AsideTransit
<1>4. CASE Decoding  BY <1>1, <1>2, <1>4, DecodeClear
<1>5. CASE Read  BY <1>2, <1>5, ReadTransit
<1>6. CASE Serve  BY <1>2, <1>6, ServeCases
<1>7. CASE MakeToken  BY <1>2, <1>7, TokenFirsts
<1>8. CASE Notify  BY <1>2, <1>8, NotifyLive
<1> QED  BY <1>3, <1>4, <1>5, <1>6, <1>7, <1>8, NextCases

LEMMA ExchangeKept ==
    ASSUME Exchange, UNCHANGED <<has_tls, bind, reply, wrap, ctx, layer>>, Live' = Live,
           \A m \in Live : ans'[m] = ans[m], NoBindRequest => NoBindRequest',
           NoBindRequest' => NoBindRequest, OneRequest => OneRequest', Wanting => Wanting',
           OnlyFor(bind) => \A k \in 1..Len(up') : up'[k].what \in {"op", bind}
    PROVE  Exchange'
<1>1. ASSUME Round PROVE Round'
  <2>1. OnlyFor(bind)' /\ OneRequest'  BY <1>1 DEF Round, OnlyFor
  <2>2. \A m \in Live : Settles(ans[m]) => Settles(ans[m])'  BY DEF Settles
  <2>3. Settles(reply) => Settles(reply)'  BY DEF Settles
  <2> HIDE DEF OnlyFor, OneRequest, Live, NoBindRequest
  <2> QED  BY <1>1, <2>1, <2>2, <2>3 DEF Round
<1> QED  BY <1>1 DEF Exchange

LEMMA UpSame ==
    ASSUME up' = up, has_tls' = has_tls
    PROVE  /\ NoBindRequest' <=> NoBindRequest
           /\ \A b : OnlyFor(b) => \A k \in 1..Len(up') : up'[k].what \in {"op", b}
           /\ OneRequest => OneRequest'
           /\ Wanting => Wanting'
BY DEF NoBindRequest, OnlyFor, OneRequest, Wanting, NeededLayer

\* The requests of the driver on behalf of other handles.
LEMMA ExchangeSend ==
    ASSUME Types, Exchange, NEW size \in 1..MessageSize, Send(size)
    PROVE  Exchange'
<1>1. UNCHANGED <<has_tls, bind, reply, wrap, ctx, layer>>  BY DEF Send, params, server
<1>2. Aside  BY DEF Aside
<1>3. Live' = Live /\ ans' = ans  BY <1>2, AsideTransit
<1> DEFINE q == [wrapped |-> wrap, what |-> "op", size |-> SentSize(size), wants |-> "none"]
<1>4. up' = up \/ up' = Append(up, q)  BY DEF Send, Encode
<1>5. q \in Requested /\ q.what = "op"  BY SentSizeFacts DEF Requested, Types, FlagType, Layers
<1> HIDE DEF q
<1>6. up \in Seq(Requested)  BY DEF Types
<1>7. /\ NoBindRequest => NoBindRequest'
      /\ NoBindRequest' => NoBindRequest
      /\ OneRequest => OneRequest'
      /\ Wanting => Wanting'
      /\ OnlyFor(bind) => \A k \in 1..Len(up') : up'[k].what \in {"op", bind}
  <2>1. CASE up' = up  BY <1>1, <2>1, UpSame
  <2>2. CASE up' = Append(up, q)  BY <1>1, <1>5, <1>6, <2>2, UpSend
  <2> QED  BY <1>4, <2>1, <2>2
<1> QED  BY <1>1, <1>3, <1>7, ExchangeKept

\* A request of the bind itself, where nothing else of it is under way.
LEMMA ExchangeRequest ==
    ASSUME Types, Exchange, Aside, NEW what \in Waiting, NEW wants \in Layers,
           Requests(what, wants), what = "third" => wants = NeededLayer,
           bind \in {"idle", "first", "second"}, reply' = "none",
           NoBindRequest, Live = {}, UNCHANGED <<wrap, ctx>>
    PROVE  Exchange'
<1>1. has_tls' = has_tls /\ layer' = layer  BY AsideFrame
<1>2. Live' = {}  BY AsideTransit
<1> DEFINE q == [wrapped |-> wrap, what |-> what, size |-> SentSize(1), wants |-> wants]
<1>3. bind' = what /\ (up' = up \/ up' = Append(up, q))  BY DEF Requests, Encode
<1>4. q \in Requested /\ q.what = what /\ q.wants = wants
  <2>1. 1 \in 1..MessageSize  BY DEF MessageSize
  <2> QED  BY <2>1, SentSizeFacts DEF Requested, Types, FlagType
<1> HIDE DEF q
<1>5. up \in Seq(Requested)  BY DEF Types
<1>6. OnlyFor(bind)' /\ OneRequest' /\ Wanting'
  <2>1. CASE up' = up
    BY <2>1, <1>1 DEF NoBindRequest, OnlyFor, OneRequest, Wanting
  <2>2. CASE up' = Append(up, q)
    <3>1. /\ \A k \in 1..Len(up') : up'[k].what \in {"op", q.what}
          /\ OneRequest' /\ Wanting'
      BY <1>1, <1>4, <1>5, <2>2, UpRequest
    <3> QED  BY <1>3, <1>4, <3>1 DEF OnlyFor
  <2> QED  BY <1>3, <2>1, <2>2
<1>7. ~layer /\ ~layer'  BY <1>1 DEF Exchange
<1>8. Round'  BY <1>2, <1>6, <1>7 DEF Round
<1>9. ~wrap /\ ~ctx  BY DEF Exchange
<1> HIDE DEF Wanting, NoBindRequest, Live, Round
<1> QED  BY <1>1, <1>3, <1>6, <1>7, <1>8, <1>9 DEF Exchange, Waiting

\* The other ways in which gssapi_bind goes on.
LEMMA ExchangeReturns ==
    ASSUME Types, Exchange, Aside, Returns(bind'), UNCHANGED <<wrap, ctx>>,
           bind \notin {"param", "bound"},
           bind' \in {"error", "panicked", "dropped"} \/
             (bind' = "returned" /\ bind \in Waiting /\ reply # "none" /\ ~layer)
    PROVE  Exchange'
<1>1. has_tls' = has_tls /\ layer' = layer  BY AsideFrame
<1>2. up' = up  BY DEF Returns
<1>3. Wanting'  BY <1>1, <1>2, UpSame DEF Exchange
<1>4. bind' = "returned" => NoBindRequest'
  BY <1>1, <1>2, UpSame DEF Exchange, Round
<1>5. ~wrap /\ ~ctx  BY DEF Exchange
<1> HIDE DEF Wanting, NoBindRequest, Live, Round
<1> QED  BY <1>1, <1>3, <1>4, <1>5 DEF Exchange, Waiting

\* The binding task.
LEMMA ExchangeBinding ==
    ASSUME Types, Exchange, Binding \/ BindDropped
    PROVE  Exchange'
<1>0. Aside  BY DEF Aside
<1>a. has_tls' = has_tls /\ layer' = layer /\ Live' = Live /\ ans' = ans
  BY <1>0, AsideFrame, AsideTransit
<1>b. "none" \in Layers /\ NeededLayer \in Layers  BY DEF Layers, NeededLayer
<1>c. bind \in Waiting => Round  BY DEF Exchange
<1>d. bind \in Waiting /\ reply # "none" => NoBindRequest /\ Live = {}
  BY <1>c DEF Round
<1>e. bind = "idle" => NoBindRequest /\ Live = {} /\ reply = "none"  BY DEF Exchange
<1>1. CASE BindBegins
  <2>1. bind = "idle" /\ UNCHANGED <<wrap, ctx, reply>>  BY <1>1 DEF BindBegins, params
  <2>2. CASE Requests("first", "none")
    <3>1. "first" \in Waiting /\ reply' = "none" /\ bind \in {"idle", "first", "second"}
      BY <1>e, <2>1 DEF Waiting
    <3> QED  BY <1>0, <1>b, <1>e, <2>1, <2>2, <3>1, ExchangeRequest
  <2>3. CASE Returns("error")
    <3>1. bind' = "error" /\ Returns(bind') /\ bind \notin {"param", "bound"}
      BY <2>1, <2>3 DEF Returns
    <3> QED  BY <1>0, <2>1, <3>1, ExchangeReturns
  <2> QED  BY <1>1, <2>2, <2>3 DEF BindBegins
<1>2. CASE BindSteps
  <2>1. /\ bind = "first" /\ reply # "none" /\ reply' = "none" /\ UNCHANGED <<wrap, ctx>>
        /\ bind \in Waiting
    BY <1>2 DEF BindSteps, params, Waiting
  <2>2. CASE Requests("second", "none")
    <3>1. "second" \in Waiting /\ bind \in {"idle", "first", "second"}  BY <2>1 DEF Waiting
    <3> QED  BY <1>0, <1>b, <1>d, <2>1, <2>2, <3>1, ExchangeRequest
  <2>3. CASE Returns("error") \/ Returns("returned")
    <3>1. ~layer  BY <2>1 DEF Exchange
    <3>2. bind' \in {"error", "returned"} /\ Returns(bind') /\ bind \notin {"param", "bound"}
      BY <2>1, <2>3 DEF Returns
    <3> QED  BY <1>0, <2>1, <3>1, <3>2, ExchangeReturns
  <2> QED  BY <1>2, <2>2, <2>3 DEF BindSteps
<1>3. CASE BindChooses
  <2>1. /\ bind = "second" /\ reply # "none" /\ reply' = "none" /\ UNCHANGED <<wrap, ctx>>
        /\ bind \in Waiting
    BY <1>3 DEF BindChooses, params, Waiting
  <2>2. CASE Requests("third", NeededLayer)
    <3>1. "third" \in Waiting /\ bind \in {"idle", "first", "second"}  BY <2>1 DEF Waiting
    <3> QED  BY <1>0, <1>b, <1>d, <2>1, <2>2, <3>1, ExchangeRequest
  <2>3. CASE Returns("error") \/ Returns("returned") \/ Returns("panicked")
    <3>1. ~layer  BY <2>1 DEF Exchange
    <3>2. /\ bind' \in {"error", "returned", "panicked"} /\ Returns(bind')
          /\ bind \notin {"param", "bound"}
      BY <2>1, <2>3 DEF Returns
    <3> QED  BY <1>0, <2>1, <3>1, <3>2, ExchangeReturns
  <2> QED  BY <1>3, <2>2, <2>3 DEF BindChooses
<1>4. CASE BindSetsParam
  <2>1. bind = "third" /\ reply = "ok" /\ bind \in Waiting /\ up' = up /\ ctx' = ctx
    BY <1>4 DEF BindSetsParam, Waiting
  <2>2. layer <=> ~has_tls  BY <1>c, <2>1 DEF Round, Settles
  <2>3. ~wrap /\ ~ctx  BY <2>1 DEF Exchange
  <2>4. NoBindRequest' /\ Wanting'  BY <1>a, <1>d, <2>1, UpSame DEF Exchange
  <2>5. Installs <=> ~has_tls  BY DEF Installs, NeededLayer
  <2>6. \/ bind' = "panicked" /\ wrap' = wrap
        \/ bind' = "param" /\ wrap' = (wrap \/ Installs)
    BY <1>4 DEF BindSetsParam
  <2> HIDE DEF Wanting, NoBindRequest, Live, Round
  <2>7. CASE bind' = "panicked" /\ wrap' = wrap
    BY <1>a, <2>1, <2>2, <2>3, <2>4, <2>7 DEF Exchange, Waiting
  <2>8. CASE bind' = "param" /\ wrap' = (wrap \/ Installs)
    BY <1>a, <2>1, <2>2, <2>3, <2>4, <2>5, <2>8 DEF Exchange, Waiting, Types, FlagType
  <2> QED  BY <2>6, <2>7, <2>8
<1>5. CASE BindSetsCtx
  <2>1. /\ bind = "param" /\ ctx' = TRUE /\ bind' = "bound" /\ wrap' = wrap /\ up' = up
    BY <1>5 DEF BindSetsCtx
  <2>2. NoBindRequest' /\ Wanting'  BY <1>a, <2>1, UpSame DEF Exchange
  <2> HIDE DEF Wanting, NoBindRequest, Live, Round
  <2> QED  BY <1>a, <2>1, <2>2 DEF Exchange, Waiting
<1>6. CASE BindFails
  <2>1. /\ bind = "third" /\ reply \in {"bare", "more", "refused"} /\ bind \in Waiting
        /\ UNCHANGED <<wrap, ctx>> /\ Returns("returned")
    BY <1>6 DEF BindFails, params, Waiting
  <2>2. ~layer  BY <1>c, <2>1 DEF Round, Settles
  <2>3. bind' = "returned" /\ Returns(bind') /\ bind \notin {"param", "bound"} /\ reply # "none"
    BY <2>1 DEF Returns
  <2> QED  BY <1>0, <2>1, <2>2, <2>3, ExchangeReturns
<1>7. CASE BindLost \/ BindDropped
  <2>1. /\ bind \notin {"param", "bound"} /\ UNCHANGED <<wrap, ctx>> /\ Returns(bind')
        /\ bind' \in {"error", "dropped"}
    BY <1>7 DEF BindLost, BindDropped, params, Waiting, Returns
  <2> QED  BY <1>0, <2>1, ExchangeReturns
<1> QED  BY <1>1, <1>2, <1>3, <1>4, <1>5, <1>6, <1>7 DEF Binding

\* The driver takes an answer out of the buffer and dispatches it to the bind.
LEMMA ExchangeDecoding ==
    ASSUME Types, ClearOnce, Exchange, Decoding
    PROVE  Exchange'
<1>0. UNCHANGED <<has_tls, bind, wrap, ctx, up, layer, ans>>
  BY DecodeFrame DEF params, server
<1>1. /\ NoBindRequest' <=> NoBindRequest
      /\ OnlyFor(bind)' <=> OnlyFor(bind)
      /\ OneRequest' <=> OneRequest
      /\ Wanting' <=> Wanting
  BY <1>0 DEF NoBindRequest, OnlyFor, OneRequest, Wanting, NeededLayer
<1>2. CASE wrap
  <2>1. bind \in {"param", "bound"}  BY <1>2 DEF Exchange
  <2> HIDE DEF Wanting, NoBindRequest, Live, Round
  <2> QED  BY <1>0, <1>1, <2>1 DEF Exchange, Waiting
<1>3. CASE ~wrap
  <2>1. /\ Live' \subseteq Live
        /\ \/ reply' = reply
           \/ bind \in Waiting /\ \E m \in Live : reply' = ans[m] /\ m \notin Live'
    BY <1>3, DecodeClear DEF ClearOnce
  <2>2. ASSUME bind \in Waiting PROVE Round'
    <3>1. Round  BY <2>2 DEF Exchange
    <3>2. \A a : Settles(a)' <=> Settles(a)  BY <1>0 DEF Settles
    <3>3. \A m \in Live' : Settles(ans[m])' <=> Settles(ans[m])  BY <1>0 DEF Settles
    <3> HIDE DEF OnlyFor, OneRequest, Live, NoBindRequest
    <3>4. CASE reply' = reply
      <4>1. Settles(reply)' <=> Settles(reply)  BY <1>0, <3>4 DEF Settles
      <4> QED  BY <1>0, <1>1, <2>1, <3>1, <3>3, <3>4, <4>1 DEF Round
    <3>5. ASSUME NEW m \in Live, reply' = ans[m], m \notin Live' PROVE Round'
      <4>1. Live' = {}  BY <2>1, <3>1, <3>5 DEF Round
      <4>2. NoBindRequest /\ NoBindRequest'  BY <1>1, <3>1, <3>5 DEF Round
      <4>3. bind = "third" => Settles(reply)'  BY <1>0, <3>1, <3>5 DEF Round, Settles
      <4> QED  BY <1>0, <1>1, <3>1, <4>1, <4>2, <4>3 DEF Round
    <3> QED  BY <2>1, <3>4, <3>5
  <2>3. bind = "idle" => Live' = {} /\ reply' = "none"
    BY <2>1 DEF Exchange, Waiting
  <2> HIDE DEF Wanting, NoBindRequest, Live, Round
  <2> QED  BY <1>0, <1>1, <2>2, <2>3 DEF Exchange
<1> QED  BY <1>2, <1>3

\* The server answers.
LEMMA ExchangeServe ==
    ASSUME Types, Exchange, Serve
    PROVE  Exchange'
<1>0. /\ UNCHANGED <<has_tls, bind, reply, wrap, ctx>>
      /\ up # <<>> /\ up' = Tail(up) /\ up \in Seq(Requested)
  BY ServeAnswers DEF Types
<1>1. /\ NoBindRequest => NoBindRequest'
      /\ OnlyFor(bind) => /\ Head(up).what \in {"op", bind}
                          /\ \A k \in 1..Len(up') : up'[k].what \in {"op", bind}
      /\ OneRequest => OneRequest'
      /\ Wanting => Wanting' /\ (Head(up).what = "third" => Head(up).wants = NeededLayer)
      /\ OneRequest /\ Head(up).what # "op" => NoBindRequest'
      /\ Head(up).what # "op" => ~NoBindRequest
      /\ Head(up).what = "op" /\ NoBindRequest' => NoBindRequest
  BY <1>0, UpServe
<1>2. CASE /\ Head(up).what = "op" /\ layer' = layer
           /\ Live' = Live /\ \A m \in Live : ans'[m] = ans[m]
  BY <1>0, <1>1, <1>2, ExchangeKept
<1>3. ASSUME Head(up).what # "op", NEW a \in Answers,
             ~layer => Live' = Live \cup {Len(ans) + 1} /\ ans'[Len(ans) + 1] = a,
             layer' = (layer \/ (/\ Head(up).what = "third" /\ a = "ok"
                                 /\ Head(up).wants = "privacy"))
      PROVE  Exchange'
  <2>1. ~NoBindRequest /\ bind \notin {"idle", "param", "bound", "returned"}
    BY <1>1, <1>3 DEF Exchange
  <2>2. Wanting' /\ (Head(up).what = "third" => Head(up).wants = NeededLayer)
    BY <1>1 DEF Exchange
  <2>3. has_tls' => ~layer'  BY <1>0, <1>3, <2>2 DEF Exchange, NeededLayer
  <2>4. ASSUME bind \in Waiting PROVE Round' /\ (bind # "third" => ~layer')
    <3>1. Round  BY <2>4 DEF Exchange
    <3>2. reply = "none" /\ Live = {} /\ ~layer /\ Head(up).what = bind
      BY <1>1, <1>3, <2>1, <3>1 DEF Round
    <3>3. NoBindRequest' /\ OneRequest' /\ OnlyFor(bind)'
      BY <1>0, <1>1, <1>3, <3>1 DEF Round, OnlyFor
    <3>4. Live' = {Len(ans) + 1} /\ ans'[Len(ans) + 1] = a  BY <1>3, <3>2
    <3>5. layer' <=> bind = "third" /\ a = "ok" /\ ~has_tls
      BY <1>3, <2>2, <3>2 DEF NeededLayer
    <3>6. bind = "third" => \A m \in Live' : Settles(ans[m])'
      BY <1>0, <3>4, <3>5 DEF Settles
    <3> HIDE DEF NoBindRequest, OneRequest, OnlyFor, Live
    <3> QED  BY <1>0, <3>2, <3>3, <3>4, <3>5, <3>6 DEF Round
  <2> HIDE DEF Wanting, NoBindRequest, Live, Round
  <2> QED  BY <1>0, <2>1, <2>2, <2>3, <2>4 DEF Exchange, Waiting
<1> QED  BY <1>2, <1>3, ServeCases

Agreed == Types /\ ClearOnce /\ Exchange

LEMMA ExchangeStep ==
    ASSUME Agreed, [Next]_vars
    PROVE  Exchange'
<1> USE DEF Agreed
<1>1. CASE Aside
  <2>1. CASE Binding \/ BindDropped  BY <2>1, ExchangeBinding
  <2>2. CASE \E size \in 1..MessageSize : Send(size)  BY <2>2, ExchangeSend
  <2>3. CASE Misunderstands \/ Breaks \/ UNCHANGED vars
    <3>1. UNCHANGED <<has_tls, bind, reply, wrap, ctx, layer, up>>
      BY <2>3 DEF Misunderstands, Breaks, vars, params, server
    <3>2. Live' = Live /\ ans' = ans  BY <1>1, AsideTransit
    <3> QED  BY <3>1, <3>2, UpSame, ExchangeKept
  <2> QED  BY <1>1, <2>1, <2>2, <2>3 DEF Aside
<1>2. CASE Decoding  BY <1>2, ExchangeDecoding
<1>3. CASE Serve  BY <1>3, ExchangeServe
<1>4. CASE Read \/ MakeToken \/ Notify
  <2>1. UNCHANGED <<has_tls, bind, reply, wrap, ctx, layer, up>>
    BY <1>4 DEF Read, MakeToken, Notify, params, server
  <2>2. Live' = Live /\ \A m \in Live : ans'[m] = ans[m]
    <3>1. CASE Read
      <4>1. Transit' = Transit /\ ans' = ans  BY <3>1, ReadTransit DEF Read, server
      <4> QED  BY <4>1 DEF Live, Firsts
    <3>2. CASE MakeToken
      <4>1. ans' = ans  BY <3>2 DEF MakeToken
      <4>2. Firsts(Transit') = Firsts(Transit)  BY <3>2, TokenFirsts
      <4>3. Firsts(Transit)' = Firsts(Transit')  BY DEF Firsts
      <4>4. Live' = {m \in Firsts(Transit') : ans'[m] # "op"}  BY <4>3 DEF Live
      <4> HIDE DEF Firsts
      <4> QED  BY <4>1, <4>2, <4>4 DEF Live
    <3>3. CASE Notify  BY <3>3, NotifyLive
    <3> QED  BY <1>4, <3>1, <3>2, <3>3
  <2> QED  BY <2>1, <2>2, UpSame, ExchangeKept
<1> QED  BY <1>1, <1>2, <1>3, <1>4, NextCases

LEMMA AgreedAlways == Spec => []Agreed
<1>1. Init => Agreed
  <2> SUFFICES ASSUME Init PROVE Agreed
    OBVIOUS
  <2>1. Types  BY InitTypes
  <2>2. Transit = <<>> /\ up = <<>>  BY DEF Init, Transit
  <2>3. ClearOnce  BY <2>2 DEF ClearOnce, Once
  <2>4. Live = {} /\ NoBindRequest /\ Wanting
    BY <2>2 DEF Live, Firsts, NoBindRequest, Wanting
  <2>5. Exchange  BY <2>4 DEF Exchange, Init, Waiting
  <2> QED  BY <2>1, <2>3, <2>5 DEF Agreed
<1>2. Agreed /\ [Next]_vars => Agreed'
  BY TypesStep, ClearOnceStep, ExchangeStep DEF Agreed
<1> QED  BY <1>1, <1>2, PTL DEF Spec

\* When gssapi_bind has returned, the codec and the server agree on the layer;
\* it is there, with its context, exactly after a success without TLS.
THEOREM BindAgrees == Spec => []LayerAgreed
<1>1. Agreed => LayerAgreed
  <2> SUFFICES ASSUME Agreed PROVE LayerAgreed
    OBVIOUS
  <2>1. /\ wrap \in BOOLEAN /\ layer \in BOOLEAN /\ has_tls \in BOOLEAN /\ ctx \in BOOLEAN
    BY DEF Agreed, Types, FlagType
  <2>2. bind \in {"bound", "returned"} => wrap = layer  BY <2>1 DEF Agreed, Exchange
  <2>3. bind = "bound" => (wrap <=> ~has_tls) /\ ctx  BY <2>1 DEF Agreed, Exchange
  <2>4. bind \in {"returned", "error", "dropped"} => ~wrap /\ ~ctx  BY <2>1 DEF Agreed, Exchange
  <2> QED  BY <2>2, <2>3, <2>4 DEF LayerAgreed
<1> QED  BY <1>1, AgreedAlways, PTL

-----------------------------------------------------------------------------
(* The requests and the switch *)

LEMMA SwitchKept ==
    ASSUME Switch, UNCHANGED <<up, layer, offer, wrap, send_max, misform>>,
           torn => torn', ~torn' => (bind = "third" \/ Gone => bind' = "third" \/ Gone'),
           ~torn' /\ layer => bind' \in {"third", "param", "bound"} \/ Gone',
           bind = "bound" => bind' = "bound"
    PROVE  Switch'
<1>1. (AllFit => AllFit') /\ (Stopper => Stopper')  BY DEF AllFit, Near, Stopper, Understands
<1>2. ~torn' /\ ThirdLast => ThirdLast'  BY DEF ThirdLast
<1> HIDE DEF Gone, Stopper
<1> QED  BY <1>1, <1>2 DEF Switch

\* Where no request of the bind is on its way and the server's layer is off.
LEMMA SwitchClear ==
    ASSUME Switch, NoBindRequest, ~layer, ~wrap',
           UNCHANGED <<up, layer, offer, misform, torn>>
    PROVE  Switch'
<1>1. (AllFit => AllFit') /\ (Stopper => Stopper')  BY DEF AllFit, Near, Stopper, Understands
<1>2. ThirdLast'  BY DEF ThirdLast, NoBindRequest
<1> HIDE DEF Gone, Stopper
<1> QED  BY <1>1, <1>2 DEF Switch

\* encode() produces what the server will understand.
LEMMA SwitchEncode ==
    ASSUME Types, Switch, ~torn, NEW what \in Waiting \cup {"op"}, NEW size \in 1..MessageSize,
           NEW wants \in Layers, Encode(what, size, wants),
           UNCHANGED <<layer, offer, wrap, send_max, misform, torn>>, wrap = layer,
           \A k \in 1..Len(up) : up[k].what # "third", what = "third" => bind' = "third",
           layer => bind = "bound" /\ bind' = "bound"
    PROVE  Switch'
<1> DEFINE q == [wrapped |-> wrap, what |-> what, size |-> SentSize(size), wants |-> wants]
<1>1. \/ up' = up
      \/ up' = Append(up, q) /\ ~(wrap /\ TooLarge(size))
  BY DEF Encode
<1>2. q \in Requested /\ q.what = what /\ q.size = SentSize(size) /\ q.wrapped = wrap
  BY SentSizeFacts DEF Requested, Types, FlagType
<1> HIDE DEF q
<1>3. AllFit /\ (wrap => send_max = offer.max) /\ Stopper  BY DEF Switch
<1>4. ~(wrap /\ TooLarge(size)) => Near(q)
  <2>1. size \in Nat /\ offer.max \in Nat /\ send_max \in Nat
    <3>1. size \in Nat  BY DEF MessageSize
    <3>2. offer.max \in MaxSizes /\ send_max \in MaxSizes  BY DEF Types, SizeType
    <3> QED  BY <3>1, <3>2, MaxSizesAssumption
  <2>2. wrap /\ ~TooLarge(size) => (offer.max > 0 => size <= offer.max)
    BY <1>3, <2>1 DEF TooLarge
  <2>3. SentSize(size) \in Nat /\ SentSize(size) <= size + Overhead /\ Overhead \in Nat
    BY SentSizeFacts, OverheadAssumption DEF Types, FlagType
  <2>4. wrap /\ ~TooLarge(size) /\ offer.max > 0 => q.size <= offer.max + Overhead
    BY <1>2, <2>1, <2>2, <2>3
  <2> QED  BY <1>2, <2>4 DEF Near
<1>5. AllFit' /\ ThirdLast' /\ Stopper'
  <2>1. CASE up' = up
    <3>1. AllFit'  BY <1>3, <2>1 DEF AllFit, Near
    <3>2. ThirdLast'  BY <2>1 DEF ThirdLast
    <3>3. Stopper'  BY <1>3, <2>1 DEF Stopper, Understands
    <3> QED  BY <3>1, <3>2, <3>3
  <2>2. CASE up' = Append(up, q) /\ ~(wrap /\ TooLarge(size))
    <3>1. up \in Seq(Requested)  BY DEF Types
    <3>2. /\ Len(up) \in Nat /\ Len(up') = Len(up) + 1
          /\ \A k \in 1..Len(up') :
               (k \in 1..Len(up) /\ up'[k] = up[k]) \/ (k = Len(up) + 1 /\ up'[k] = q)
      BY <1>2, <2>2, <3>1, UpAppend
    <3>3. \A k \in 1..Len(up') : Near(up'[k])  BY <1>3, <1>4, <2>2, <3>2 DEF AllFit
    <3>4. AllFit'  BY <3>3 DEF AllFit, Near
    <3>5. ThirdLast'  BY <1>2, <3>2 DEF ThirdLast
    <3>6. Stopper'
      <4> SUFFICES ASSUME misform' PROVE up' # <<>> /\ (~Understands(Head(up)))'
        BY DEF Stopper
      <4>1. up # <<>> /\ ~Understands(Head(up))  BY <1>3 DEF Stopper
      <4>2. up' # <<>> /\ Head(up') = Head(up)  BY <1>2, <2>2, <3>1, <4>1
      <4> QED  BY <4>1, <4>2 DEF Understands
    <3> QED  BY <3>4, <3>5, <3>6
  <2> QED  BY <1>1, <2>1, <2>2
<1> HIDE DEF AllFit, ThirdLast, Gone, Stopper
<1> QED  BY <1>3, <1>5 DEF Switch

\* At the end of the exchange, and apart from the switch, the codec wraps
\* exactly when the server expects it.
LEMMA WrapFits ==
    ASSUME Agreed, Switch, ~torn, ~Gone, bind \notin {"third", "param"}
    PROVE  /\ wrap = layer /\ (layer => bind = "bound")
           /\ \A k \in 1..Len(up) : up[k].what # "third"
<1>1. wrap \in BOOLEAN /\ layer \in BOOLEAN /\ has_tls \in BOOLEAN
  BY DEF Agreed, Types, FlagType
<1>2. layer => bind = "bound"  BY DEF Switch
<1>3. wrap = layer  BY <1>1, <1>2 DEF Agreed, Exchange
<1>4. \A k \in 1..Len(up) : up[k].what # "third"  BY DEF Switch, ThirdLast
<1> QED  BY <1>2, <1>3, <1>4

LEMMA SwitchBinding ==
    ASSUME Agreed, Switch, Binding \/ BindDropped
    PROVE  Switch'
<1> USE DEF Agreed
<1>0. Aside  BY DEF Aside
<1>a. has_tls' = has_tls /\ layer' = layer /\ offer' = offer  BY <1>0, AsideFrame
<1>b. "none" \in Layers /\ NeededLayer \in Layers  BY DEF Layers, NeededLayer
<1>c. bind \in Waiting /\ reply # "none" => NoBindRequest  BY DEF Exchange, Round
<1>d. bind \in {"idle", "first", "second"} => ~layer /\ ~wrap  BY DEF Exchange
<1>e. NoBindRequest => \A k \in 1..Len(up) : up[k].what # "third"  BY DEF NoBindRequest
<1>f. 1 \in 1..MessageSize  BY DEF MessageSize
<1>1. ASSUME bind \in {"idle", "first", "second"}, NoBindRequest,
             UNCHANGED <<wrap, send_max, misform, torn>>,
             NEW what \in Waiting, NEW wants \in Layers, Requests(what, wants)
      PROVE  Switch'
  <2>1. ~layer /\ ~wrap /\ bind' = what /\ Encode(what, 1, wants) /\ what \in Waiting \cup {"op"}
    BY <1>d, <1>1 DEF Requests
  <2>2. wrap = layer  BY <2>1 DEF Types, FlagType
  <2>3. CASE torn  BY <1>1, <2>3 DEF Switch
  <2>4. CASE ~torn  BY <1>a, <1>e, <1>f, <1>1, <2>1, <2>2, <2>4, SwitchEncode
  <2> QED  BY <2>3, <2>4
<1>2. ASSUME bind \in {"idle", "first", "second"}, NoBindRequest,
             UNCHANGED <<wrap, send_max, misform, torn>>, Returns(bind')
      PROVE  Switch'
  <2>1. ~layer /\ ~wrap' /\ up' = up  BY <1>d, <1>2 DEF Returns
  <2> QED  BY <1>a, <1>2, <2>1, SwitchClear
<1>3. CASE BindBegins
  <2>1. bind = "idle" /\ UNCHANGED <<wrap, send_max, misform, torn>>
    BY <1>3 DEF BindBegins, params, history
  <2>2. NoBindRequest /\ "first" \in Waiting  BY <2>1 DEF Exchange, Waiting
  <2>3. Requests("first", "none") \/ Returns(bind')  BY <1>3 DEF BindBegins, Returns
  <2> QED  BY <1>b, <1>1, <1>2, <2>1, <2>2, <2>3
<1>4. CASE BindSteps
  <2>1. bind = "first" /\ reply # "none" /\ UNCHANGED <<wrap, send_max, misform, torn>>
    BY <1>4 DEF BindSteps, params, history
  <2>2. NoBindRequest /\ "second" \in Waiting  BY <1>c, <2>1 DEF Waiting
  <2>3. Requests("second", "none") \/ Returns(bind')  BY <1>4 DEF BindSteps, Returns
  <2> QED  BY <1>b, <1>1, <1>2, <2>1, <2>2, <2>3
<1>5. CASE BindChooses
  <2>1. bind = "second" /\ reply # "none" /\ UNCHANGED <<wrap, send_max, misform, torn>>
    BY <1>5 DEF BindChooses, params, history
  <2>2. NoBindRequest /\ "third" \in Waiting  BY <1>c, <2>1 DEF Waiting
  <2>3. Requests("third", NeededLayer) \/ Returns(bind')  BY <1>5 DEF BindChooses, Returns
  <2> QED  BY <1>b, <1>1, <1>2, <2>1, <2>2, <2>3
<1>6. CASE BindSetsParam
  <2>1. bind = "third" /\ reply = "ok" /\ up' = up /\ misform' = misform /\ bind \in Waiting
    BY <1>6 DEF BindSetsParam, Waiting
  <2>2. NoBindRequest /\ ~wrap  BY <1>c, <2>1 DEF Exchange
  <2>3. CASE torn'  BY <2>3 DEF Switch
  <2>4. CASE ~torn'
    <3>1. /\ bind' = "param" /\ wrap' = (wrap \/ Installs) /\ send_max' = Limit /\ torn' = torn
      BY <1>6, <2>4 DEF BindSetsParam
    <3>2. wrap' => send_max' = offer.max  BY <2>2, <3>1 DEF Limit
    <3>3. (AllFit => AllFit') /\ (Stopper => Stopper')
      BY <1>a, <2>1 DEF AllFit, Near, Stopper, Understands
    <3>4. ThirdLast'  BY <1>e, <2>1, <2>2 DEF ThirdLast
    <3> HIDE DEF AllFit, Stopper, ThirdLast
    <3> QED  BY <1>a, <2>1, <2>4, <3>1, <3>2, <3>3, <3>4 DEF Switch
  <2> QED  BY <2>3, <2>4
<1>7. CASE BindSetsCtx
  <2>1. /\ bind = "param" /\ bind' = "bound" /\ UNCHANGED <<wrap, send_max, up, misform, torn>>
    BY <1>7 DEF BindSetsCtx, history
  <2>2. \A k \in 1..Len(up) : up[k].what # "third"  BY <1>e, <2>1 DEF Exchange
  <2>3. (AllFit => AllFit') /\ (Stopper => Stopper')
    BY <1>a, <2>1 DEF AllFit, Near, Stopper, Understands
  <2>4. ThirdLast'  BY <2>1, <2>2 DEF ThirdLast
  <2> HIDE DEF AllFit, Stopper, ThirdLast
  <2> QED  BY <1>a, <2>1, <2>3, <2>4 DEF Switch
<1>8. CASE BindFails
  <2>1. /\ bind = "third" /\ reply \in {"bare", "more", "refused"} /\ bind \in Waiting
        /\ UNCHANGED <<wrap, up, misform, torn>>
    BY <1>8 DEF BindFails, params, history, Returns, Waiting
  <2>2. ~layer /\ ~wrap /\ NoBindRequest  BY <1>c, <2>1 DEF Exchange, Round, Settles
  <2> QED  BY <1>a, <2>1, <2>2, SwitchClear
<1>9. CASE BindLost
  <2>1. /\ bind \in Waiting /\ drv # "running" /\ bind' = "error" /\ drv' = drv
        /\ UNCHANGED <<wrap, send_max, up, misform, torn>>
    BY <1>9 DEF BindLost, params, history, Returns
  <2>2. Gone' /\ bind # "bound"  BY <2>1 DEF Gone, Waiting
  <2> QED  BY <1>a, <2>1, <2>2, SwitchKept
<1>10. CASE BindDropped
  <2>1. /\ bind \in Waiting /\ bind' = "dropped"
        /\ UNCHANGED <<wrap, send_max, up, misform>> /\ torn' = (torn \/ bind = "third")
    BY <1>10 DEF BindDropped, params, Returns
  <2>2. CASE torn'  BY <2>2 DEF Switch
  <2>3. CASE ~torn'
    <3>1. bind # "third" /\ ~Gone /\ ~layer /\ bind # "bound"
      BY <1>d, <2>1, <2>3 DEF Gone, Waiting
    <3> QED  BY <1>a, <2>1, <3>1, SwitchKept
  <2> QED  BY <2>2, <2>3
<1> QED  BY <1>3, <1>4, <1>5, <1>6, <1>7, <1>8, <1>9, <1>10 DEF Binding

LEMMA SwitchSend ==
    ASSUME Agreed, Switch, NEW size \in 1..MessageSize, Send(size)
    PROVE  Switch'
<1>1. /\ UNCHANGED <<bind, wrap, send_max, layer, offer, misform>>
      /\ Encode("op", size, "none") /\ torn' = (torn \/ bind \in {"third", "param"})
      /\ drv = "running"
  BY DEF Send, params, server, Encode
<1>2. CASE torn'  BY <1>2 DEF Switch
<1>3. CASE ~torn'
  <2>1. ~torn /\ ~Gone /\ bind \notin {"third", "param"}  BY <1>1, <1>3 DEF Gone
  <2>2. /\ wrap = layer /\ (layer => bind = "bound")
        /\ \A k \in 1..Len(up) : up[k].what # "third"
    BY <2>1, WrapFits
  <2>3. "op" \in Waiting \cup {"op"} /\ "none" \in Layers /\ torn' = torn
    BY <1>1, <1>3, <2>1 DEF Layers, Agreed, Types, FlagType
  <2> QED  BY <1>1, <2>1, <2>2, <2>3, SwitchEncode DEF Agreed
<1> QED  BY <1>2, <1>3

LEMMA SwitchServe ==
    ASSUME Agreed, Switch, Serve
    PROVE  Switch'
<1>0. /\ UNCHANGED <<bind, wrap, send_max, drv, torn, misform, has_tls>>
      /\ up # <<>> /\ up' = Tail(up) /\ up \in Seq(Requested) /\ ~misform
  BY ServeAnswers DEF Agreed, Types, Serve
<1>s. Stopper'  BY <1>0 DEF Stopper
<1>1. /\ 1 \in 1..Len(up) /\ Head(up) = up[1]
      /\ Len(up) \in Nat /\ Len(up') = Len(up) - 1
      /\ \A k \in 1..Len(up') : k + 1 \in 2..Len(up) /\ k + 1 \in 1..Len(up)
                                 /\ up'[k] = up[k + 1]
  BY <1>0, UpTail
<1>2. CASE torn  BY <1>0, <1>2 DEF Switch
<1>3. CASE ~torn
  <2>1. AllFit /\ ThirdLast /\ (layer => bind = "bound")
    BY <1>0, <1>3 DEF Switch
  <2>2. Gone' <=> Gone  BY <1>0 DEF Gone
  <2>3. ThirdLast'
    <3> SUFFICES ASSUME NEW k \in 1..Len(up'), up'[k].what = "third"
                 PROVE  k = Len(up') /\ (bind' = "third" \/ Gone')
      BY DEF ThirdLast
    <3>1. k + 1 = Len(up) /\ (bind = "third" \/ Gone)  BY <1>1, <2>1 DEF ThirdLast
    <3>2. k = Len(up')  BY <1>1, <3>1
    <3> QED  BY <1>0, <2>2, <3>1, <3>2
  <2>4. CASE layer' = layer /\ offer' = offer
    <3>1. AllFit'  BY <1>1, <2>1, <2>4 DEF AllFit, Near
    <3> HIDE DEF AllFit, Stopper, ThirdLast, Gone
    <3> QED  BY <1>0, <1>s, <1>3, <2>1, <2>2, <2>3, <2>4, <3>1 DEF Switch
  <2>5. CASE Head(up).what # "op"
    <3>1. ~NoBindRequest  BY <1>1, <2>5 DEF NoBindRequest
    <3>2. bind \notin {"param", "bound"} /\ ~wrap  BY <3>1 DEF Agreed, Exchange
    <3>3. ~layer  BY <2>1, <3>2
    <3>4. CASE Head(up).what = "third"
      <4>1. 1 = Len(up) /\ (bind = "third" \/ Gone)  BY <1>1, <2>1, <3>4 DEF ThirdLast
      <4>2. Len(up') = 0
        <5>1. Len(up') = Len(up) - 1  BY <1>1
        <5>2. Len(up) = 1  BY <4>1
        <5> QED  BY <5>1, <5>2
      <4>3. up' = <<>>
        <5>1. up' \in Seq(Requested)  BY <1>0
        <5> QED  BY <4>2, <5>1, EmptySeq
      <4>4. AllFit'  BY <4>2 DEF AllFit
      <4> HIDE DEF AllFit, Stopper, ThirdLast, Gone
      <4> QED  BY <1>0, <1>s, <1>3, <2>2, <2>3, <3>2, <4>1, <4>3, <4>4 DEF Switch
    <3>5. CASE Head(up).what # "third"
      <4>1. ~layer'  BY <2>5, <3>3, <3>5, ServeCases DEF Agreed
      <4>2. layer' \in BOOLEAN /\ layer \in BOOLEAN
        BY <1>0, <2>5, <3>3, <3>5, ServeCases DEF Agreed, Types, FlagType
      <4>3. \A k \in 1..Len(up) : up[k].wrapped = layer  BY <2>1 DEF AllFit, Near
      <4>4. AllFit'  BY <1>1, <3>3, <4>1, <4>2, <4>3 DEF AllFit, Near
      <4> HIDE DEF AllFit, Stopper, ThirdLast, Gone
      <4> QED  BY <1>0, <1>s, <1>3, <2>3, <3>2, <4>1, <4>4 DEF Switch
    <3> QED  BY <3>4, <3>5
  <2> QED  BY <2>4, <2>5, ServeCases DEF Agreed
<1> QED  BY <1>2, <1>3

LEMMA SwitchStep ==
    ASSUME Agreed, Switch, [Next]_vars
    PROVE  Switch'
<1>1. CASE Binding \/ BindDropped  BY <1>1, SwitchBinding
<1>2. CASE \E size \in 1..MessageSize : Send(size)  BY <1>2, SwitchSend
<1>3. CASE Serve  BY <1>3, SwitchServe
<1>4. CASE Misunderstands
  <2>1. /\ up # <<>> /\ ~Understands(Head(up))
        /\ UNCHANGED <<bind, up, layer, offer, wrap, send_max, drv, torn>>
    BY <1>4 DEF Misunderstands, params, server
  <2>2. Stopper'  BY <2>1 DEF Stopper, Understands
  <2>3. (AllFit => AllFit') /\ (ThirdLast => ThirdLast') /\ (Gone => Gone')
    BY <2>1 DEF AllFit, Near, ThirdLast, Gone
  <2> HIDE DEF AllFit, Stopper, ThirdLast, Gone
  <2> QED  BY <2>1, <2>2, <2>3 DEF Switch
<1>5. CASE Decoding \/ Read \/ MakeToken \/ Notify \/ Breaks \/ UNCHANGED vars
  <2>1. /\ UNCHANGED <<bind, up, layer, offer, wrap, send_max, misform>>
        /\ torn => torn'
        /\ drv' = drv \/ drv = "running"
    <3>1. CASE Decoding
      BY <3>1, DecodeFrame DEF params, server, history
    <3>2. CASE Read  BY <3>2 DEF Read, params, server
    <3>3. CASE MakeToken  BY <3>3 DEF MakeToken, params
    <3>4. CASE Notify  BY <3>4 DEF Notify, params
    <3>5. CASE Breaks \/ UNCHANGED vars
      BY <3>5 DEF Breaks, vars, params, server, history
    <3> QED  BY <1>5, <3>1, <3>2, <3>3, <3>4, <3>5
  <2>2. Gone => Gone'  BY <2>1 DEF Gone
  <2>3. ~torn' /\ layer => bind' \in {"third", "param", "bound"} \/ Gone'
    BY <2>1, <2>2 DEF Switch
  <2>4. torn => torn'  BY <2>1
  <2> QED  BY <2>1, <2>2, <2>3, <2>4, SwitchKept
<1> QED  BY <1>1, <1>2, <1>3, <1>4, <1>5, NextCases DEF Aside

LEMMA SwitchAlways == Spec => [](Agreed /\ Switch)
<1>1. Init => Switch
  BY DEF Init, Switch, AllFit, Stopper, ThirdLast
<1>2. Agreed /\ Switch /\ [Next]_vars => Switch'  BY SwitchStep
<1>3. Init /\ [][Next]_vars /\ []Agreed => []Switch  BY <1>1, <1>2, PTL
<1> QED  BY <1>3, AgreedAlways, PTL DEF Spec

\* Unless a request or a notification came between the two ends of the switch,
\* or the bind was dropped there, every request reaches the server in the form
\* that it expects, and one that it cannot take is too large by no more than
\* what maybe_wrap adds after its check.
THEOREM RequestsUnderstood == Spec => []Understood
<1>1. Agreed /\ Switch => Understood
  <2> SUFFICES ASSUME Agreed, Switch, ~torn, misform
               PROVE  /\ layer /\ Head(up).wrapped /\ offer.max > 0
                      /\ Head(up).size \in (offer.max + 1)..(offer.max + Overhead)
    BY DEF Understood
  <2>1. up # <<>> /\ ~Understands(Head(up)) /\ AllFit  BY DEF Switch, Stopper
  <2>2. up \in Seq(Requested)  BY DEF Agreed, Types
  <2>3. 1 \in 1..Len(up) /\ Head(up) = up[1]
    <3>1. Len(up) \in Nat /\ Len(up) # 0  BY <2>1, <2>2, EmptySeq, LenProperties
    <3> QED  BY <2>2, <3>1
  <2>4. Near(Head(up))  BY <2>1, <2>3 DEF AllFit
  <2>5. Head(up) \in Requested /\ layer \in BOOLEAN  BY <2>2, <2>3 DEF Agreed, Types, FlagType
  <2>6. Head(up).size \in Nat /\ offer.max \in Nat /\ Overhead \in Nat
    <3>1. offer.max \in MaxSizes  BY DEF Agreed, Types, SizeType
    <3>2. Head(up).size \in 1..(2 + Overhead)  BY <2>5 DEF Requested, MessageSize
    <3>3. Overhead \in Nat  BY OverheadAssumption
    <3>4. Head(up).size \in Nat  BY <3>2, <3>3
    <3>5. offer.max \in Nat  BY <3>1, MaxSizesAssumption
    <3> QED  BY <3>3, <3>4, <3>5
  <2> QED  BY <2>1, <2>4, <2>5, <2>6 DEF Near, Understands
<1> QED  BY <1>1, SwitchAlways, PTL
=============================================================================
