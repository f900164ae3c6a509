-------------------------- MODULE OperationsProofs --------------------------
(***************************************************************************)
(* Theorems about Operations.  Their hypothesis is Contract, which says    *)
(* what the operations ask of the codec and of a server; TLC evaluates it  *)
(* for the codec of Application and Server (CodecContract).                *)
(***************************************************************************)
EXTENDS Operations, SequenceTheorems, FiniteSetTheorems, TLAPS

-----------------------------------------------------------------------------
(* The inductive invariant *)

Streams == {"search", "stream"}
Answerable == {"single", "ntlm"} \cup Streams
Silent == {"abandon", "unbind"}

IsSeq(q) == q \in Seq({q[i] : i \in DOMAIN q})

\* What the server has sent, and the caller has not got.
Left == SubSeq(sent, Len(rx) + 1, Len(sent))

\* The modifiers are what the application has given, ready to be sent, and options left over.
ModifiersInv ==
    /\ given \in [controls : ControlsOrNone, opts : OptionsOrNone, left : OptionsOrNone]
    /\ modifiers = [controls |-> Raw(given.controls),
                    search_opts |-> OrElse(given.opts, given.left)]

CallInv == call = NoCall \/ call \in [kind : Answerable \cup Silent, id : Ids]

\* A call of the kind may be about op.
Fits(kind, op) ==
    /\ kind \in Streams <=> Subject(op) = "search"
    /\ kind = "ntlm" => Subject(op) = "spnego"
    /\ kind = "abandon" <=> op.op = "abandon"
    /\ kind \in Silent => Subject(op) = kind

\* The octets w are those of the request.
Carries(w) == w \in Octets /\ w # <<>> /\ ServerReads(w) = WithLeft(asked)

\* The request of the call is in the channel, and nothing of an earlier one is left.
ChannelInv ==
    ops # <<>> =>
        /\ ops = <<ops[1]>> /\ ops[1].kind = call.kind /\ ops[1].id = call.id
        /\ Carries(Encoded(ops[1].id, ops[1].req, ops[1].controls))
        /\ call.id \in Ids /\ call.kind \in (Answerable \cup Silent) \ {"stream"}
        /\ WithLeft(asked).id = call.id /\ Fits(call.kind, WithLeft(asked).op)
        /\ driver = "running" /\ wire = <<>> /\ sent = <<>>

\* The request is on its way to the server, and so nothing is on its way back.  Nobody waits
\* for an answer to an Abandon or an Unbind.
WireInv ==
    wire = <<>> \/
        /\ Carries(wire)
        /\ sent = <<>> /\ ~eof /\ driver = "running"
        /\ IF call = NoCall THEN Subject(WithLeft(asked).op) \in Silent
           ELSE WithLeft(asked).id = call.id /\ Fits(call.kind, WithLeft(asked).op)

AskedInv == ops = <<>> /\ wire = <<>> => asked = Unasked

\* The driver waits for something that belongs to the call, and has a sender for it.
Waiting ==
    /\ driver = "running" /\ ops = <<>> /\ call.kind \in Answerable
    /\ sent = <<>> \/ Len(rx) < Len(sent)

MapInv == map = IF Waiting THEN {[id |-> call.id, search |-> call.kind \in Streams]} ELSE {}

\* What was sent is an answer of the kind s, of which the caller has got a part.
AnswerOf(s) ==
    /\ s = "search" <=> call.kind \in Streams
    /\ call.kind = "ntlm" => s = "spnego"
    /\ s # "search" => Len(sent) = 1
    /\ Left = <<>> \/ Left \in Remainders(s)
    /\ \A i \in 1 .. Len(rx) : Proper(s, i = Len(sent), rx[i], sent[i])

AnswerInv ==
    /\ IsSeq(sent) /\ IsSeq(rx) /\ Len(rx) <= Len(sent)
    /\ sent # <<>> => /\ call.kind \in Answerable /\ call.id \in Ids
                      /\ \E s \in DOMAIN Responses : AnswerOf(s)

\* The octets w are in a buffer and behind it on the network, perhaps without their end.
Split(w, b, q, lost) ==
    \E p \in 0 .. Len(w) : \E n \in p .. Len(w) :
        /\ b = SubSeq(w, 1, p) /\ q = SubSeq(w, p + 1, n)
        /\ ~lost => n = Len(w)

Flight(w) == Split(w, buf, net, eof)

Quiet == buf = <<>> /\ net = <<>>

FlightInv ==
    /\ buf \in Octets /\ net \in Octets
    /\ IF sent # <<>> THEN \E form \in Forms : Flight(ServerWrites(form, call.id, Left))
       ELSE Quiet \/ (eof /\ \E form \in Forms : Flight(NoticeOf(form)))

NullInv ==
    /\ null => AnsweredAtOnce(call.kind) /\ ops = <<>>
    /\ call.kind \in Silent /\ ops = <<>> /\ driver = "running" => null

DriverInv ==
    /\ driver \in {"running", "ended"}
    /\ driver # "running" => Quiet /\ wire = <<>> /\ ops = <<>> /\ eof

PendingInv ==
    call.kind \in Answerable /\ driver = "running" /\ ~eof /\ ops = <<>>
        => wire # <<>> \/ sent # <<>>

BoolInv == {shut, eof, null, blocking} \subseteq BOOLEAN

IInv ==
    /\ ModifiersInv /\ CallInv /\ ChannelInv /\ WireInv /\ AskedInv /\ MapInv
    /\ AnswerInv /\ FlightInv /\ NullInv /\ DriverInv /\ PendingInv /\ BoolInv

-----------------------------------------------------------------------------
(* Sequences *)

LEMMA OwnElements ==
    ASSUME NEW S, NEW q \in Seq(S)
    PROVE  IsSeq(q)
<1>1. q \in [1 .. Len(q) -> S] /\ Len(q) \in Nat /\ DOMAIN q = 1 .. Len(q)  BY LenProperties
<1> DEFINE T == {q[i] : i \in DOMAIN q}
<1>2. q \in [1 .. Len(q) -> T]  BY <1>1
<1> HIDE DEF T
<1>3. q \in Seq(T)  BY <1>1, <1>2
<1> QED  BY <1>3 DEF IsSeq, T

LEMMA PartFacts ==
    ASSUME NEW S, NEW w \in Seq(S), NEW i \in 1 .. Len(w) + 1, NEW j \in i - 1 .. Len(w)
    PROVE  /\ SubSeq(w, i, j) \in Seq(S)
           /\ Len(SubSeq(w, i, j)) = j - i + 1
           /\ \A h \in 1 .. j - i + 1 : SubSeq(w, i, j)[h] = w[i + h - 1]
<1>0. Len(w) \in Nat  BY LenProperties
<1>1. \A h \in i .. j : w[h] \in S  BY <1>0, ElementOfSeq
<1>2. i \in Int /\ j \in Int  BY <1>0
<1>3. /\ SubSeq(w, i, j) \in Seq(S)
      /\ Len(SubSeq(w, i, j)) = IF i <= j THEN j - i + 1 ELSE 0
      /\ \A h \in 1 .. j - i + 1 : SubSeq(w, i, j)[h] = w[i + h - 1]
  BY <1>1, <1>2, SubSeqProperties
<1>4. (IF i <= j THEN j - i + 1 ELSE 0) = j - i + 1  BY <1>0
<1> QED  BY <1>3, <1>4

\* A part of a part.
LEMMA PartOfPart ==
    ASSUME NEW S, NEW w \in Seq(S), NEW i \in 1 .. Len(w) + 1, NEW j \in i - 1 .. Len(w),
           NEW a \in 1 .. j - i + 2, NEW b \in a - 1 .. j - i + 1
    PROVE  SubSeq(SubSeq(w, i, j), a, b) = SubSeq(w, i + a - 1, i + b - 1)
<1> DEFINE v == SubSeq(w, i, j)
           x == SubSeq(v, a, b)
           y == SubSeq(w, i + a - 1, i + b - 1)
<1>0. Len(w) \in Nat  BY LenProperties
<1>1. /\ v \in Seq(S) /\ Len(v) = j - i + 1
      /\ \A h \in 1 .. j - i + 1 : v[h] = w[i + h - 1]
  BY PartFacts
<1> HIDE DEF v
<1>2. a \in 1 .. Len(v) + 1 /\ b \in a - 1 .. Len(v)  BY <1>0, <1>1
<1>3. /\ x \in Seq(S) /\ Len(x) = b - a + 1
      /\ \A h \in 1 .. b - a + 1 : x[h] = v[a + h - 1]
  BY <1>1, <1>2, PartFacts
<1>4. i + a - 1 \in 1 .. Len(w) + 1 /\ i + b - 1 \in (i + a - 1) - 1 .. Len(w)  BY <1>0
<1>5. /\ y \in Seq(S) /\ Len(y) = (i + b - 1) - (i + a - 1) + 1
      /\ \A h \in 1 .. (i + b - 1) - (i + a - 1) + 1 : y[h] = w[(i + a - 1) + h - 1]
  BY <1>4, PartFacts
<1> HIDE DEF x, y
<1>6. (i + b - 1) - (i + a - 1) + 1 = b - a + 1  BY <1>0
<1>7. \A h \in 1 .. b - a + 1 : /\ a + h - 1 \in 1 .. j - i + 1
                               /\ i + (a + h - 1) - 1 = (i + a - 1) + h - 1
  BY <1>0
<1>8. \A h \in 1 .. b - a + 1 : x[h] = y[h]  BY <1>1, <1>3, <1>5, <1>6, <1>7
<1>9. x = y  BY <1>3, <1>5, <1>6, <1>8, SeqEqual
<1> QED  BY <1>9 DEF x, y, v

\* Adjacent parts.
LEMMA PartsJoined ==
    ASSUME NEW S, NEW w \in Seq(S), NEW p \in 0 .. Len(w), NEW n \in p .. Len(w)
    PROVE  SubSeq(w, 1, p) \o SubSeq(w, p + 1, n) = SubSeq(w, 1, n)
<1>0. Len(w) \in Nat  BY LenProperties
<1>1. 1 \in 1 .. Len(w) + 1 /\ p \in 1 - 1 .. Len(w) /\ n \in p .. Len(w)  BY <1>0
<1> QED  BY <1>1, ConcatAdjacentSubSeq

-----------------------------------------------------------------------------
(* Requests *)

LEMMA ContractParts ==
    ASSUME Contract
    PROVE  RequestContract /\ AnswerContract
BY DEF Contract

LEMMA BuiltReadsAs ==
    ASSUME RequestContract, NEW controls \in ControlsOrNone, NEW r \in BuiltRequests,
           NEW tag \in Tags(r)
    PROVE  \A id \in Ids : ReadsAs(id, controls, tag, r)
BY DEF RequestContract

\* Nothing is under way.
Free == ops = <<>> /\ wire = <<>> /\ asked = Unasked /\ driver \in {"running", "ended"}

\* Nothing of an earlier operation is left.
Cleared == map = {} /\ null = FALSE /\ rx = <<>> /\ sent = <<>>

\* What op_call leaves for the other modifiers.
Rest(kind) ==
    [controls |-> {},
     search_opts |-> IF kind = "search" THEN {} ELSE OrElse(given.opts, given.left)]

\* What a server reads of op: a Search for which no options were given is made with those left.
Meant(kind, op) ==
    IF kind = "search" /\ given.opts = {} /\ given.left # {}
    THEN WithOptions(op, Chosen(given.left)) ELSE op

LEMMA AskedReads ==
    ASSUME NEW id, NEW kind, NEW op
    PROVE  WithLeft(Asked(id, kind, op))
               = [id |-> id, op |-> Meant(kind, op), controls |-> given.controls]
<1> DEFINE a == Asked(id, kind, op)
<1>1. /\ a.id = id /\ a.op = op /\ a.controls = given.controls
      /\ a.left = IF kind = "search" /\ given.opts = {} THEN given.left ELSE {}
  BY DEF Asked
<1> HIDE DEF a
<1> DEFINE read == [id |-> id, op |-> Meant(kind, op), controls |-> given.controls]
<1>2. ASSUME a.left = {} PROVE WithLeft(a) = read
  BY <1>1, <1>2 DEF WithLeft, Request, Meant
<1>3. ASSUME a.left # {} PROVE WithLeft(a) = read
  <2>1. Meant(kind, op) = WithOptions(op, Chosen(given.left)) /\ a.left = given.left
    BY <1>1, <1>3 DEF Meant
  <2>2. WithLeft(a) = [Request(a) EXCEPT !.op = WithOptions(a.op, Chosen(a.left))]
    BY <1>3 DEF WithLeft
  <2> QED  BY <1>1, <2>1, <2>2 DEF Request
<1>4. WithLeft(a) = read  BY <1>2, <1>3
<1> QED  BY <1>4 DEF a

LEMMA ModifiersType ==
    ASSUME ModifiersInv
    PROVE  /\ given.controls \in ControlsOrNone
           /\ given.opts \in OptionsOrNone /\ given.left \in OptionsOrNone
           /\ OrElse(given.opts, given.left) \in OptionsOrNone
           /\ modifiers.controls = Raw(given.controls)
           /\ modifiers.search_opts = OrElse(given.opts, given.left)
           /\ [modifiers EXCEPT !.controls = {}]
                  = [controls |-> {}, search_opts |-> OrElse(given.opts, given.left)]
BY DEF ModifiersInv, OrElse

\* Nothing is left of what was given but the options os.
LEMMA NothingLeft ==
    ASSUME NEW os \in OptionsOrNone,
           given' = [controls |-> {}, opts |-> {}, left |-> os],
           modifiers' = [controls |-> {}, search_opts |-> os]
    PROVE  ModifiersInv'
<1>1. {} \in ControlsOrNone /\ {} \in OptionsOrNone  BY DEF ControlsOrNone, OptionsOrNone
<1>2. Raw({}) = {}  BY DEF Raw
<1>3. given'.controls = {} /\ OrElse(given'.opts, given'.left) = os  BY DEF OrElse
<1>4. given' \in [controls : ControlsOrNone, opts : OptionsOrNone, left : OptionsOrNone]
  BY <1>1
<1>5. modifiers' = [controls |-> Raw(given'.controls),
                   search_opts |-> OrElse(given'.opts, given'.left)]
  BY <1>2, <1>3
<1> QED  BY <1>4, <1>5 DEF ModifiersInv

LEMMA Called ==
    ASSUME ModifiersInv, DriverInv, BoolInv, Free,
           NEW kind \in (Answerable \cup Silent) \ {"stream"}, NEW op, NEW tag,
           Fits(kind, Meant(kind, op)),
           \A id \in Ids : ReadsAs(id, given.controls, tag, Meant(kind, op)),
           op_call(kind, op, tag, modifiers.controls, Rest(kind)),
           Cleared', UNCHANGED link, UNCHANGED blocking
    PROVE  /\ ModifiersInv' /\ CallInv' /\ ChannelInv' /\ WireInv' /\ AskedInv' /\ MapInv'
           /\ AnswerInv' /\ NullInv' /\ DriverInv' /\ PendingInv' /\ BoolInv'
<1>0. modifiers.controls = Raw(given.controls)  BY ModifiersType
<1>1. PICK id \in Ids :
        /\ modifiers' = Rest(kind)
        /\ given' = GivenAfter(kind)
        /\ driver = "running" =>
             /\ call' = [kind |-> kind, id |-> id]
             /\ ops' = <<[id |-> id, kind |-> kind, req |-> tag, controls |-> modifiers.controls]>>
             /\ asked' = Asked(id, kind, op)
        /\ driver # "running" => call' = NoCall /\ ops' = ops /\ asked' = asked
  BY DEF op_call
<1>2. ModifiersInv'
  <2> DEFINE os == IF kind = "search" THEN {} ELSE OrElse(given.opts, given.left)
  <2>1. os \in OptionsOrNone  BY ModifiersType DEF OptionsOrNone
  <2>2. given' = [controls |-> {}, opts |-> {}, left |-> os]  BY <1>1 DEF GivenAfter, NothingGiven
  <2>3. modifiers' = [controls |-> {}, search_opts |-> os]  BY <1>1 DEF Rest
  <2> HIDE DEF os
  <2> QED  BY <2>1, <2>2, <2>3, NothingLeft
<1>3. wire' = <<>> /\ driver' = driver /\ eof' = eof /\ shut' = shut /\ buf' = buf /\ net' = net
  BY DEF Free, link
<1>4. rx' = <<>> /\ sent' = <<>> /\ map' = {} /\ null' = FALSE  BY DEF Cleared
<1>5. WireInv'  BY <1>3 DEF WireInv
<1>6. AnswerInv'
  <2>1. IsSeq(<<>>)  BY EmptySeq, OwnElements
  <2> QED  BY <1>4, <2>1 DEF AnswerInv, IsSeq
<1>7. BoolInv'  BY <1>3, <1>4, Zenon DEF BoolInv
<1>8. CASE driver = "running"
  <2> DEFINE o == [id |-> id, kind |-> kind, req |-> tag, controls |-> modifiers.controls]
  <2>0. call' = [kind |-> kind, id |-> id] /\ ops' = <<o>> /\ asked' = Asked(id, kind, op)
    BY <1>1, <1>8
  <2>1. /\ call' = [kind |-> kind, id |-> id] /\ ops' = <<o>>
        /\ WithLeft(asked') = [id |-> id, op |-> Meant(kind, op), controls |-> given.controls]
    BY <2>0, AskedReads
  <2>2. /\ call'.kind = kind /\ call'.id = id
        /\ WithLeft(asked').id = id /\ WithLeft(asked').op = Meant(kind, op)
    BY <2>1
  <2>3. o.id = id /\ o.kind = kind /\ o.req = tag /\ o.controls = Raw(given.controls)  BY <1>0
  <2> HIDE DEF o
  <2>4. ops' # <<>> /\ ops'[1] = o /\ ops' = <<ops'[1]>>  BY <2>1
  <2>5. LET w == Encoded(o.id, o.req, o.controls)
        IN  w \in Octets /\ w # <<>> /\ ServerReads(w) = WithLeft(asked')
    BY <2>1, <2>3 DEF ReadsAs, Says
  <2>6. ChannelInv'  BY <1>3, <1>4, <1>8, <2>2, <2>3, <2>4, <2>5 DEF ChannelInv, Carries
  <2>7. CallInv'  BY <2>1 DEF CallInv
  <2>8. AskedInv' /\ MapInv' /\ PendingInv' /\ DriverInv'
    BY <1>3, <1>4, <1>8, <2>4 DEF AskedInv, MapInv, Waiting, PendingInv, DriverInv
  <2>9. NullInv'  BY <1>4, <2>4 DEF NullInv
  <2> QED  BY <1>2, <1>5, <1>6, <1>7, <2>6, <2>7, <2>8, <2>9
<1>9. CASE driver # "running"
  <2>1. call' = NoCall /\ ops' = <<>> /\ asked' = Unasked  BY <1>1, <1>9 DEF Free
  <2>2. call'.kind = "none"  BY <2>1 DEF NoCall
  <2>3. ~(call'.kind \in Answerable \cup Silent)  BY <2>2 DEF Answerable, Silent, Streams
  <2>4. ChannelInv' /\ CallInv' /\ AskedInv' /\ MapInv'
    BY <1>4, <2>1, <2>3 DEF ChannelInv, CallInv, AskedInv, MapInv, Waiting
  <2>5. NullInv' /\ PendingInv'  BY <1>4, <2>3 DEF NullInv, PendingInv
  <2>6. DriverInv'  BY <1>3, <1>9, <2>1 DEF DriverInv, Quiet
  <2> QED  BY <1>2, <1>5, <1>6, <1>7, <2>4, <2>5, <2>6
<1> QED  BY <1>8, <1>9

LEMMA NoCallFacts ==
    ASSUME IInv, call = NoCall
    PROVE  /\ ops = <<>> /\ map = {} /\ null = FALSE /\ rx = <<>> /\ sent = <<>>
           /\ call.kind \notin Answerable \cup Silent
<1>1. call.kind = "none"  BY DEF NoCall
<1>2. call.kind \notin Answerable \cup Silent /\ ~AnsweredAtOnce(call.kind)
  BY <1>1 DEF Answerable, Silent, Streams, AnsweredAtOnce
<1>3. ops = <<>>  BY <1>2 DEF IInv, ChannelInv
<1>4. map = {}  BY <1>2 DEF IInv, MapInv, Waiting
<1>5. null = FALSE
  <2>1. null \in BOOLEAN /\ (null => AnsweredAtOnce(call.kind))  BY Zenon DEF IInv, BoolInv, NullInv
  <2> QED  BY <1>2, <2>1, Zenon
<1>6. sent = <<>>  BY <1>2 DEF IInv, AnswerInv
<1>7. rx = <<>>
  <2>1. IsSeq(rx) /\ Len(rx) <= Len(sent)  BY DEF IInv, AnswerInv
  <2>2. Len(sent) = 0  BY <1>6
  <2> QED  BY <2>1, <2>2, EmptySeq, LenProperties DEF IsSeq
<1> QED  BY <1>2, <1>3, <1>4, <1>5, <1>6, <1>7

LEMMA IdleFacts ==
    ASSUME IInv, Idle
    PROVE  Free /\ Cleared
BY NoCallFacts DEF Idle, Free, Cleared, IInv, AskedInv, DriverInv

\* While nothing is expected, nothing but a notice can come.
LEMMA FlightKept ==
    ASSUME FlightInv, sent = <<>>, sent' = <<>>, UNCHANGED <<buf, net, eof>>
    PROVE  FlightInv'
BY DEF FlightInv, Flight, Quiet

LEMMA IdleCalled ==
    ASSUME IInv, Idle,
           NEW kind \in (Answerable \cup Silent) \ {"stream"}, NEW op, NEW tag,
           Fits(kind, Meant(kind, op)),
           \A id \in Ids : ReadsAs(id, given.controls, tag, Meant(kind, op)),
           op_call(kind, op, tag, modifiers.controls, Rest(kind)),
           UNCHANGED received, UNCHANGED link, UNCHANGED blocking
    PROVE  IInv'
<1>1. Free /\ Cleared  BY IdleFacts
<1>2. Cleared'  BY <1>1 DEF Cleared, received
<1>3. ModifiersInv /\ DriverInv /\ BoolInv /\ FlightInv  BY DEF IInv
<1>4. FlightInv'  BY <1>1, <1>2, <1>3, FlightKept DEF Cleared, link
<1>5. /\ ModifiersInv' /\ CallInv' /\ ChannelInv' /\ WireInv' /\ AskedInv' /\ MapInv'
      /\ AnswerInv' /\ NullInv' /\ DriverInv' /\ PendingInv' /\ BoolInv'
  BY <1>1, <1>2, <1>3, Called
<1> QED  BY <1>4, <1>5 DEF IInv

LEMMA OperationStarts ==
    ASSUME IInv, NEW kind \in (Answerable \cup Silent) \ Streams, NEW op, NEW tags,
           Fits(kind, op), Operation(kind, op, tags),
           \A tag \in tags : \A id \in Ids : ReadsAs(id, given.controls, tag, op)
    PROVE  IInv'
<1>1. Idle /\ UNCHANGED received /\ UNCHANGED link /\ UNCHANGED blocking  BY DEF Operation
<1>2. PICK tag \in tags :
        op_call(kind, op, tag, modifiers.controls, [modifiers EXCEPT !.controls = {}])
  BY DEF Operation
<1>3. kind \in (Answerable \cup Silent) \ {"stream"} /\ kind # "search"  BY DEF Streams
<1>4. [modifiers EXCEPT !.controls = {}] = Rest(kind)
  BY <1>3, ModifiersType DEF IInv, Rest
<1>5. op_call(kind, op, tag, modifiers.controls, Rest(kind))  BY <1>2, <1>4
<1>6. Meant(kind, op) = op  BY <1>3 DEF Meant
<1>7. /\ Fits(kind, Meant(kind, op))
      /\ \A id \in Ids : ReadsAs(id, given.controls, tag, Meant(kind, op))
  BY <1>2, <1>6
<1> QED  BY <1>1, <1>3, <1>5, <1>7, IdleCalled

LEMMA GivenType ==
    ASSUME IInv
    PROVE  given.controls \in ControlsOrNone /\ OrElse(given.opts, given.left) \in OptionsOrNone
BY ModifiersType DEF IInv

\* The requests that are built from their parameters as they are.
LEMMA BuiltStarts ==
    ASSUME IInv, RequestContract, NEW kind \in (Answerable \cup Silent) \ Streams,
           NEW r \in BuiltRequests, Fits(kind, r), Operation(kind, r, Tags(r))
    PROVE  IInv'
<1>1. \A tag \in Tags(r) : \A id \in Ids : ReadsAs(id, given.controls, tag, r)
  BY GivenType, BuiltReadsAs
<1> QED  BY <1>1, OperationStarts

LEMMA FitsSingle ==
    ASSUME NEW r \in Requests, r.op \notin {"search", "abandon"}
    PROVE  r \in BuiltRequests /\ Fits("single", r)
<1>1. r \in BuiltRequests  BY DEF BuiltRequests
<1>2. r.op \in OpNames /\ (r.op = "extended" => r.exop.name # "search")  BY RequestsAssumption
<1>3. Subject(r) # "search"
  <2>1. CASE r.op = "extended"  BY <1>2, <2>1 DEF Subject
  <2>2. CASE r.op # "extended"  BY <1>2, <2>2 DEF Subject, OpNames
  <2> QED  BY <2>1, <2>2
<1>4. "single" \notin Streams /\ "single" \notin Silent  BY DEF Streams, Silent
<1> QED  BY <1>1, <1>3, <1>4 DEF Fits

LEMMA SingleStarts ==
    ASSUME IInv, RequestContract, NEW op, op \notin {"search", "abandon"}, NEW r \in Of(op),
           Operation("single", r, Tags(r))
    PROVE  IInv'
<1>1. r \in Requests /\ r.op \notin {"search", "abandon"}  BY DEF Of
<1>2. "single" \in (Answerable \cup Silent) \ Streams  BY DEF Answerable, Silent, Streams
<1> QED  BY <1>1, <1>2, FitsSingle, BuiltStarts

LEMMA StutterKeeps ==
    ASSUME IInv, UNCHANGED vars
    PROVE  IInv'
<1>1. /\ UNCHANGED <<modifiers, call, ops, given, asked>> /\ UNCHANGED <<map, null, rx, sent>>
      /\ UNCHANGED <<driver, shut, buf, net, wire, eof>> /\ UNCHANGED blocking
  BY DEF vars, caller, received, link
<1>2. ModifiersInv' /\ CallInv' /\ ChannelInv' /\ WireInv' /\ AskedInv'
  BY <1>1 DEF IInv, ModifiersInv, CallInv, ChannelInv, WireInv, AskedInv, Carries
<1>3. MapInv' /\ PendingInv'  BY <1>1 DEF IInv, MapInv, Waiting, PendingInv
<1>4. AnswerInv'  BY <1>1 DEF IInv, AnswerInv, AnswerOf, Left
<1>5. FlightInv' /\ DriverInv'  BY <1>1 DEF IInv, FlightInv, Flight, Left, Quiet, DriverInv
<1>6. NullInv' /\ BoolInv'  BY <1>1 DEF IInv, NullInv, BoolInv
<1> QED  BY <1>2, <1>3, <1>4, <1>5, <1>6 DEF IInv

\* The modifiers and what was given change, and nothing else.
LEMMA Modified ==
    ASSUME IInv, ModifiersInv', UNCHANGED <<call, ops, asked, received, link, blocking>>
    PROVE  IInv'
<1>1. /\ UNCHANGED <<call, ops, asked>> /\ UNCHANGED <<map, null, rx, sent>>
      /\ UNCHANGED <<driver, shut, buf, net, wire, eof>> /\ UNCHANGED blocking
  BY DEF received, link
<1>2. CallInv' /\ ChannelInv' /\ WireInv' /\ AskedInv'
  BY <1>1 DEF IInv, CallInv, ChannelInv, WireInv, AskedInv, Carries
<1>3. MapInv' /\ PendingInv'  BY <1>1 DEF IInv, MapInv, Waiting, PendingInv
<1>4. AnswerInv'  BY <1>1 DEF IInv, AnswerInv, AnswerOf, Left
<1>5. FlightInv' /\ DriverInv'  BY <1>1 DEF IInv, FlightInv, Flight, Left, Quiet, DriverInv
<1>6. NullInv' /\ BoolInv'  BY <1>1 DEF IInv, NullInv, BoolInv
<1> QED  BY <1>2, <1>3, <1>4, <1>5, <1>6 DEF IInv

LEMMA ModifiersStep ==
    ASSUME IInv, with_controls \/ with_search_options
    PROVE  IInv'
<1>1. /\ given \in [controls : ControlsOrNone, opts : OptionsOrNone, left : OptionsOrNone]
      /\ modifiers = [controls |-> Raw(given.controls),
                      search_opts |-> OrElse(given.opts, given.left)]
  BY DEF IInv, ModifiersInv
<1>2. CASE with_controls
  <2>1. PICK cs \in ControlLists :
            /\ modifiers' = [modifiers EXCEPT !.controls = {RawControls(cs)}]
            /\ given' = [given EXCEPT !.controls = {cs}]
            /\ UNCHANGED <<call, ops, asked, received, link, blocking>>
    BY <1>2 DEF with_controls
  <2>2. {cs} \in ControlsOrNone /\ Raw({cs}) = {RawControls(cs)}  BY DEF ControlsOrNone, Raw
  <2>3. ModifiersInv'  BY <1>1, <2>1, <2>2 DEF ModifiersInv
  <2> QED  BY <2>1, <2>3, Modified
<1>3. CASE with_search_options
  <2>1. PICK opts \in OptionSets :
            /\ modifiers' = [modifiers EXCEPT !.search_opts = {opts}]
            /\ given' = [given EXCEPT !.opts = {opts}, !.left = {}]
            /\ UNCHANGED <<call, ops, asked, received, link, blocking>>
    BY <1>3 DEF with_search_options
  <2>2. {opts} \in OptionsOrNone /\ {} \in OptionsOrNone  BY DEF OptionsOrNone
  <2>3. OrElse({opts}, {}) = {opts}  BY DEF OrElse
  <2>4. /\ given' = [controls |-> given.controls, opts |-> {opts}, left |-> {}]
        /\ modifiers' = [controls |-> Raw(given.controls), search_opts |-> {opts}]
    BY <1>1, <2>1
  <2>5. ModifiersInv'  BY <1>1, <2>2, <2>3, <2>4 DEF ModifiersInv
  <2> QED  BY <2>1, <2>5, Modified
<1> QED  BY <1>2, <1>3

LEMMA SingleStep ==
    ASSUME IInv, RequestContract,
           \/ Bind \/ Compare \/ Delete \/ ModifyDn \/ Extended \/ Add \/ Modify
    PROVE  IInv'
<1>1. ASSUME NEW op, op \notin {"search", "abandon"}, Single(op) PROVE IInv'
  BY <1>1, SingleStarts DEF Single
<1>2. ASSUME NoValues PROVE IInv'  BY <1>2, StutterKeeps DEF NoValues
<1>3. ASSUME Add PROVE IInv'
  <2>1. PICK r \in Of("add") : NoValues \/ Operation("single", r, Tags(r))  BY <1>3 DEF Add
  <2> QED  BY <1>2, <2>1, SingleStarts
<1>4. ASSUME Modify PROVE IInv'
  <2>1. PICK r \in Of("modify") : NoValues \/ Operation("single", r, Tags(r))  BY <1>4 DEF Modify
  <2> QED  BY <1>2, <2>1, SingleStarts
<1> QED  BY <1>1, <1>3, <1>4 DEF Bind, Compare, Delete, ModifyDn, Extended

LEMMA FitsOthers ==
    /\ ExternalBind \in BuiltRequests /\ Fits("single", ExternalBind)
    /\ UnbindRequest \in BuiltRequests /\ Fits("unbind", UnbindRequest)
    /\ \A ch \in Challenges : /\ SpnegoBind(ch) \in BuiltRequests
                              /\ Fits("ntlm", SpnegoBind(ch)) /\ Fits("single", SpnegoBind(ch))
    /\ \A r \in Of("abandon") : r \in BuiltRequests /\ Fits("abandon", r)
<1> USE DEF Fits, Streams, Silent, Subject
<1>1. ExternalBind \in BuiltRequests /\ Fits("single", ExternalBind)
  BY DEF ExternalBind, BuiltRequests
<1>2. UnbindRequest \in BuiltRequests /\ Fits("unbind", UnbindRequest)
  BY DEF UnbindRequest, BuiltRequests
<1>3. ASSUME NEW ch \in Challenges
      PROVE  /\ SpnegoBind(ch) \in BuiltRequests
             /\ Fits("ntlm", SpnegoBind(ch)) /\ Fits("single", SpnegoBind(ch))
  <2>1. SpnegoBind(ch) \in BuiltRequests  BY DEF BuiltRequests
  <2>2. SpnegoBind(ch).op = "sasl_bind" /\ SpnegoBind(ch).mech = "spnego"  BY DEF SpnegoBind
  <2> QED  BY <2>1, <2>2
<1>4. ASSUME NEW r \in Of("abandon") PROVE r \in BuiltRequests /\ Fits("abandon", r)
  BY DEF Of, BuiltRequests
<1> QED  BY <1>1, <1>2, <1>3, <1>4

LEMMA OtherStep ==
    ASSUME IInv, RequestContract,
           sasl_external_bind \/ sasl_ntlm_bind \/ Unbind \/ Abandon
    PROVE  IInv'
<1>1. {"single", "ntlm", "unbind", "abandon"} \subseteq (Answerable \cup Silent) \ Streams
  BY DEF Answerable, Silent, Streams
<1>2. CASE sasl_external_bind  BY <1>1, <1>2, FitsOthers, BuiltStarts DEF sasl_external_bind
<1>3. CASE sasl_ntlm_bind
  BY <1>1, <1>3, FitsOthers, BuiltStarts, RequestsAssumption DEF sasl_ntlm_bind
<1>4. CASE Unbind  BY <1>1, <1>4, FitsOthers, BuiltStarts DEF Unbind
<1>5. CASE Abandon
  <2>1. PICK r \in Of("abandon") : Operation("abandon", r, Tags(r))  BY <1>5 DEF Abandon
  <2> QED  BY <1>1, <2>1, FitsOthers, BuiltStarts
<1> QED  BY <1>2, <1>3, <1>4, <1>5

\* A Search with sound parameters is sent; with others it is given up before that.
LEMMA SearchStarts ==
    ASSUME IInv, NEW r, NEW p, NEW sound \in BOOLEAN,
           sound => \A id \in Ids : SearchReadsAs(id, given.controls, p, r),
           ~sound => SearchTags(p, Chosen(OrElse(given.opts, given.left))) = {},
           streaming_search_with(r, p, sound)
    PROVE  IInv'
<1> DEFINE os == OrElse(given.opts, given.left)
           tags == SearchTags(p, Chosen(os))
           none == [controls |-> {}, search_opts |-> {}]
<1>1. modifiers.search_opts = os /\ os \in OptionsOrNone
  BY ModifiersType DEF IInv
<1>2. Idle /\ UNCHANGED received /\ UNCHANGED link /\ UNCHANGED blocking
  BY DEF streaming_search_with
<1>3. Free  BY <1>2, IdleFacts
<1>4. CASE tags = {}
  <2>1. sound = FALSE
    <3>1. sound => tags # {}  BY <1>1, IdsAssumption DEF SearchReadsAs, Accepted
    <3> QED  BY <1>4, <3>1
  <2>2. /\ modifiers' = none /\ given' = NothingGiven
        /\ asked' = asked /\ UNCHANGED <<call, ops>>
    BY <1>1, <1>4, <2>1 DEF streaming_search_with
  <2>3. ModifiersInv'
    <3>1. {} \in OptionsOrNone  BY DEF OptionsOrNone
    <3>2. given' = [controls |-> {}, opts |-> {}, left |-> {}]  BY <2>2 DEF NothingGiven
    <3> QED  BY <2>2, <3>1, <3>2, NothingLeft
  <2> QED  BY <1>2, <2>2, <2>3, Modified
<1>5. CASE tags # {}
  <2> DEFINE op == WithOptions(r, Chosen(given.opts))
  <2>1. sound  BY <1>5
  <2>2. PICK tag \in tags : op_call("search", op, tag, modifiers.controls, none)
    BY <1>1, <1>5 DEF streaming_search_with
  <2>2a. Meant("search", op) = WithOptions(r, Chosen(os))
    <3>1. CASE given.opts = {} /\ given.left # {}
      <4>1. os = given.left  BY <3>1 DEF OrElse
      <4>2. WithOptions(op, Chosen(os)) = WithOptions(r, Chosen(os))  BY DEF WithOptions
      <4> QED  BY <3>1, <4>1, <4>2 DEF Meant
    <3>2. CASE ~(given.opts = {} /\ given.left # {})
      <4>1. os = given.opts  BY <3>2 DEF OrElse
      <4> QED  BY <3>2, <4>1 DEF Meant
    <3> QED  BY <3>1, <3>2
  <2>3. \A id \in Ids : ReadsAs(id, given.controls, tag, Meant("search", op))
    BY <1>1, <2>1, <2>2, <2>2a DEF SearchReadsAs, Accepted
  <2>4. none = Rest("search")  BY DEF Rest
  <2>5. Fits("search", Meant("search", op))
    <3>1. Meant("search", op).op = "search"  BY <2>2a DEF WithOptions
    <3> HIDE DEF op
    <3> QED  BY <3>1 DEF Fits, Subject, Streams, Silent
  <2>6. "search" \in (Answerable \cup Silent) \ {"stream"}  BY DEF Answerable, Streams
  <2> HIDE DEF op, none, tags
  <2>7. op_call("search", op, tag, modifiers.controls, Rest("search"))  BY <2>2, <2>4
  <2> QED  BY <1>2, <2>3, <2>5, <2>6, <2>7, IdleCalled
<1> QED  BY <1>4, <1>5

LEMMA SearchStep ==
    ASSUME IInv, RequestContract, Search
    PROVE  IInv'
<1>1. PICK r \in Of("search") : \/ streaming_search_with(r, Params(r), TRUE)
                                \/ streaming_search_with(r, GarbledParams(r), FALSE)
  BY DEF Search
<1>2. \A id \in Ids : SearchReadsAs(id, given.controls, Params(r), r)
  BY GivenType DEF RequestContract
<1>3. SearchTags(GarbledParams(r), Chosen(OrElse(given.opts, given.left))) = {}
  BY GivenType, IdsAssumption DEF RequestContract
<1> QED  BY <1>1, <1>2, <1>3, SearchStarts

LEMMA ByUrlStep ==
    ASSUME IInv, RequestContract, ByUrl
    PROVE  IInv'
<1>1. PICK u \in Urls :
        \/ /\ UrlParams(u) = {} /\ Idle /\ asked' = u.means
           /\ UNCHANGED <<modifiers, call, ops, given, received, link, blocking>>
        \/ \E p \in UrlParams(u) :
              IF UrlExtension(p, "Bindname") = {} THEN streaming_search_with(u.means, p, TRUE)
              ELSE \E b \in UrlBinds(p) : Operation("single", u.means, Tags(b))
  BY DEF ByUrl
<1>2. CASE /\ UrlParams(u) = {} /\ Idle /\ asked' = u.means
           /\ UNCHANGED <<modifiers, call, ops, given, received, link, blocking>>
  <2>1. asked = Unasked  BY <1>2, IdleFacts DEF Free
  <2>2. u.means = Unasked  BY <1>2, GivenType, IdsAssumption DEF RequestContract
  <2> QED  BY <1>2, <2>1, <2>2, StutterKeeps DEF vars, caller
<1>3. ASSUME NEW p \in UrlParams(u), UrlExtension(p, "Bindname") = {},
             streaming_search_with(u.means, p, TRUE)
      PROVE  IInv'
  <2>1. \A id \in Ids : SearchReadsAs(id, given.controls, p, u.means)
    BY <1>3, GivenType DEF RequestContract
  <2> QED  BY <1>3, <2>1, SearchStarts
<1>4. ASSUME NEW p \in UrlParams(u), UrlExtension(p, "Bindname") # {},
             NEW b \in UrlBinds(p), Operation("single", u.means, Tags(b))
      PROVE  IInv'
  <2>1. /\ u.means.op = "simple_bind"
        /\ \A tag \in Tags(b) : \A id \in Ids : ReadsAs(id, given.controls, tag, u.means)
    BY <1>4, GivenType, IdsAssumption DEF RequestContract
  <2>2. Fits("single", u.means)  BY <2>1 DEF Fits, Subject, Streams, Silent
  <2>3. "single" \in (Answerable \cup Silent) \ Streams  BY DEF Answerable, Silent, Streams
  <2> QED  BY <1>4, <2>1, <2>2, <2>3, OperationStarts
<1> QED  BY <1>1, <1>2, <1>3, <1>4

-----------------------------------------------------------------------------
(* Replies *)

LEMMA AnswerSeqs ==
    ASSUME AnswerInv
    PROVE  /\ sent \in Seq({sent[i] : i \in DOMAIN sent}) /\ rx \in Seq({rx[i] : i \in DOMAIN rx})
           /\ Len(sent) \in Nat /\ Len(rx) \in Nat /\ Len(rx) <= Len(sent)
           /\ sent = <<>> => rx = <<>>
           /\ rx # <<>> => Len(rx) >= 1
           /\ sent # <<>> => Len(sent) >= 1
<1>1. /\ sent \in Seq({sent[i] : i \in DOMAIN sent}) /\ rx \in Seq({rx[i] : i \in DOMAIN rx})
      /\ Len(rx) <= Len(sent)
  BY DEF AnswerInv, IsSeq
<1>2. Len(sent) \in Nat /\ Len(rx) \in Nat  BY <1>1, LenProperties
<1>3. rx # <<>> => Len(rx) # 0  BY <1>1, EmptySeq
<1>4. sent # <<>> => Len(sent) # 0  BY <1>1, EmptySeq
<1>5. sent = <<>> => Len(sent) = 0  OBVIOUS
<1> QED  BY <1>1, <1>2, <1>3, <1>4, <1>5

LEMMA RxFacts ==
    ASSUME IInv, rx # <<>>
    PROVE  /\ sent # <<>> /\ wire = <<>> /\ ops = <<>> /\ asked = Unasked
           /\ call.kind \in Answerable
<1>1. sent # <<>>  BY AnswerSeqs DEF IInv
<1>2. wire = <<>> /\ ops = <<>>  BY <1>1 DEF IInv, WireInv, ChannelInv
<1> QED  BY <1>1, <1>2 DEF IInv, AskedInv, AnswerInv

LEMMA EmptyFlight ==
    ASSUME Flight(<<>>)
    PROVE  Quiet
<1>1. PICK p \in 0 .. 0 : \E n \in p .. 0 : buf = SubSeq(<<>>, 1, p) /\ net = SubSeq(<<>>, p + 1, n)
  BY DEF Flight, Split
<1>2. PICK n \in p .. 0 : buf = SubSeq(<<>>, 1, p) /\ net = SubSeq(<<>>, p + 1, n)  BY <1>1
<1>3. p = 0 /\ n = 0  OBVIOUS
<1>4. SubSeq(<<>>, 1, 0) = <<>>  BY SubSeqEmpty
<1> QED  BY <1>2, <1>3, <1>4 DEF Quiet

\* When the caller has got all there was, nothing is on its way.
LEMMA AllGot ==
    ASSUME IInv, AnswerContract, sent # <<>>, Len(rx) = Len(sent)
    PROVE  Quiet /\ map = {}
<1>1. Len(sent) \in Nat  BY AnswerSeqs DEF IInv
<1>2. Left = <<>>
  <2>1. Len(rx) + 1 \in Int /\ Len(sent) \in Int /\ Len(sent) < Len(rx) + 1  BY <1>1
  <2> QED  BY <2>1, SubSeqEmpty DEF Left
<1>3. map = {}
  <2>1. ~(Len(rx) < Len(sent))  BY <1>1
  <2> QED  BY <2>1 DEF IInv, MapInv, Waiting
<1>4. call.id \in Ids  BY DEF IInv, AnswerInv
<1>5. PICK form \in Forms : Flight(ServerWrites(form, call.id, <<>>))
  BY <1>2 DEF IInv, FlightInv
<1>6. ServerWrites(form, call.id, <<>>) = <<>>  BY <1>4 DEF AnswerContract
<1> QED  BY <1>3, <1>5, <1>6, EmptyFlight

LEMMA SingleGot ==
    ASSUME IInv, AnswerContract, rx # <<>>, call.kind \in {"single", "ntlm"}
    PROVE  Quiet /\ map = {} /\ Len(rx) = 1 /\ Len(sent) = 1
<1>1. sent # <<>>  BY RxFacts
<1>2. Len(sent) = 1
  <2>1. PICK s \in DOMAIN Responses : AnswerOf(s)  BY <1>1 DEF IInv, AnswerInv
  <2>2. call.kind \notin Streams  BY DEF Streams
  <2> QED  BY <2>1, <2>2 DEF AnswerOf
<1>3. Len(rx) \in Nat /\ Len(rx) >= 1 /\ Len(rx) <= Len(sent)  BY AnswerSeqs DEF IInv
<1>4. Len(rx) = 1  BY <1>2, <1>3
<1> QED  BY <1>1, <1>2, <1>4, AllGot

\* The call is over, and nothing of it is left.
LEMMA Returned ==
    ASSUME IInv, call' = NoCall, Cleared', sent = <<>> \/ Quiet,
           wire # <<>> => Subject(WithLeft(asked).op) \in Silent, ops = <<>>,
           UNCHANGED <<modifiers, ops, given, asked, link, blocking>>
    PROVE  IInv'
<1>1. /\ UNCHANGED <<modifiers, ops, given, asked>>
      /\ UNCHANGED <<driver, shut, buf, net, wire, eof>> /\ UNCHANGED blocking
  BY DEF link
<1>2. rx' = <<>> /\ sent' = <<>> /\ map' = {} /\ null' = FALSE  BY DEF Cleared
<1>3. call'.kind = "none"  BY DEF NoCall
<1>4. ~(call'.kind \in Answerable) /\ ~(call'.kind \in Silent)
  BY <1>3 DEF Answerable, Silent, Streams
<1>5. ModifiersInv' /\ CallInv' /\ ChannelInv' /\ AskedInv'
  BY <1>1 DEF IInv, ModifiersInv, CallInv, ChannelInv, AskedInv
<1>6. WireInv'  BY <1>1, <1>2 DEF IInv, WireInv, Carries
<1>7. MapInv' /\ PendingInv'  BY <1>2, <1>4 DEF MapInv, Waiting, PendingInv
<1>8. AnswerInv'
  <2>1. IsSeq(<<>>)  BY EmptySeq, OwnElements
  <2> QED  BY <1>2, <2>1 DEF AnswerInv, IsSeq
<1>9. FlightInv'
  <2>1. FlightInv  BY DEF IInv
  <2>2. CASE sent = <<>>  BY <1>1, <1>2, <2>1, <2>2, FlightKept
  <2>3. CASE Quiet  BY <1>1, <1>2, <2>1, <2>3 DEF FlightInv, Quiet
  <2> QED  BY <2>2, <2>3
<1>10. NullInv'  BY <1>2, <1>4 DEF NullInv
<1>11. DriverInv'  BY <1>1 DEF IInv, DriverInv, Quiet
<1>12. BoolInv'  BY <1>1, <1>2, Zenon DEF IInv, BoolInv
<1> QED  BY <1>5, <1>6, <1>7, <1>8, <1>9, <1>10, <1>11, <1>12 DEF IInv

LEMMA ReturnStep ==
    ASSUME IInv, AnswerContract, Return
    PROVE  IInv'
<1>1. /\ call' = NoCall /\ null' = FALSE /\ rx' = <<>> /\ sent' = <<>> /\ map' = map
      /\ UNCHANGED <<modifiers, ops, given, asked, link, blocking>>
  BY DEF Return
<1>2. CASE call.kind = "single" /\ rx # <<>>
  <2>1. Quiet /\ map = {}  BY <1>2, SingleGot
  <2>2. wire = <<>> /\ ops = <<>>  BY <1>2, RxFacts
  <2> QED  BY <1>1, <2>1, <2>2, Returned DEF Cleared
<1>3. CASE call.kind \in {"abandon", "unbind"} /\ null
  <2>1. call.kind \in Silent /\ call.kind \notin Answerable
    BY <1>3 DEF Silent, Answerable, Streams
  <2>2. map = {} /\ sent = <<>>  BY <2>1 DEF IInv, MapInv, Waiting, AnswerInv
  <2>3. ops = <<>>  BY <1>3 DEF IInv, NullInv
  <2>4. call # NoCall  BY <1>3 DEF NoCall
  <2>5. wire # <<>> => Subject(WithLeft(asked).op) \in Silent
    BY <2>1, <2>4 DEF IInv, WireInv, Fits
  <2> QED  BY <1>1, <2>2, <2>3, <2>5, Returned DEF Cleared
<1> QED  BY <1>2, <1>3 DEF Return

LEMMA ReturnErrorStep ==
    ASSUME IInv, ReturnError
    PROVE  IInv'
<1>1. /\ call' = NoCall /\ sent' = <<>> /\ rx = <<>> /\ rx' = rx /\ map' = map /\ null' = null
      /\ driver # "running"
      /\ UNCHANGED <<modifiers, ops, given, asked, link, blocking>>
  BY DEF ReturnError
<1>2. null = FALSE
  <2>1. null \in BOOLEAN /\ ~null  BY Zenon DEF IInv, BoolInv, ReturnError
  <2> QED  BY <2>1, Zenon
<1>3. Quiet /\ ops = <<>> /\ wire = <<>>  BY <1>1 DEF IInv, DriverInv
<1>4. map = {}  BY <1>1 DEF IInv, MapInv, Waiting
<1>5. Cleared'  BY <1>1, <1>2, <1>4 DEF Cleared
<1> QED  BY <1>1, <1>3, <1>5, Returned

LEMMA StreamStartsStep ==
    ASSUME IInv, StreamStarts
    PROVE  IInv'
<1>1. /\ UNCHANGED <<modifiers, ops, given, asked, map, rx, sent>>
      /\ UNCHANGED <<driver, shut, buf, net, wire, eof>> /\ UNCHANGED blocking
      /\ call.kind = "search" /\ call' = [call EXCEPT !.kind = "stream"] /\ null' = FALSE
  BY DEF StreamStarts, link
<1>2. ops = <<>>  BY DEF IInv, NullInv, StreamStarts
<1>3. call \in [kind : Answerable \cup Silent, id : Ids]  BY <1>1 DEF IInv, CallInv, NoCall
<1>4. /\ call'.kind = "stream" /\ call'.id = call.id
      /\ call' \in [kind : Answerable \cup Silent, id : Ids] /\ call' # NoCall
  BY <1>1, <1>3 DEF Answerable, Streams, NoCall
<1>5. /\ call.kind \in Streams /\ call'.kind \in Streams
      /\ call.kind \in Answerable /\ call'.kind \in Answerable
      /\ call.kind \notin Silent /\ call'.kind \notin Silent
  BY <1>1, <1>4 DEF Streams, Answerable, Silent
<1>6. ModifiersInv' /\ CallInv' /\ ChannelInv' /\ AskedInv'
  BY <1>1, <1>2, <1>4 DEF IInv, ModifiersInv, CallInv, ChannelInv, AskedInv
<1>7. WireInv'
  <2>1. call # NoCall  BY <1>1 DEF NoCall
  <2>2. \A op : Fits(call.kind, op) => Fits(call'.kind, op)
    BY <1>1, <1>4, <1>5 DEF Fits
  <2> QED  BY <1>1, <1>4, <2>1, <2>2 DEF IInv, WireInv, Carries
<1>8. MapInv'
  <2>1. Waiting' <=> Waiting  BY <1>1, <1>5 DEF Waiting
  <2>2. [id |-> call'.id, search |-> call'.kind \in Streams]
        = [id |-> call.id, search |-> call.kind \in Streams]
    BY <1>4, <1>5
  <2> QED  BY <1>1, <2>1, <2>2 DEF IInv, MapInv
<1>9. AnswerInv'
  <2>1. Left' = Left  BY <1>1 DEF Left
  <2>2. \A s : AnswerOf(s) => AnswerOf(s)'
    BY <1>1, <1>4, <1>5, <2>1 DEF AnswerOf
  <2> QED  BY <1>1, <1>4, <1>5, <2>2 DEF IInv, AnswerInv
<1>10. FlightInv'  BY <1>1, <1>4 DEF IInv, FlightInv, Flight, Left, Quiet
<1>11. NullInv'  BY <1>1, <1>5 DEF NullInv
<1>12. DriverInv'  BY <1>1 DEF IInv, DriverInv, Quiet
<1>13. PendingInv'  BY <1>1, <1>5 DEF IInv, PendingInv
<1>14. BoolInv'  BY <1>1, Zenon DEF IInv, BoolInv
<1> QED  BY <1>6, <1>7, <1>8, <1>9, <1>10, <1>11, <1>12, <1>13, <1>14 DEF IInv

LEMMA NotNull ==
    ASSUME IInv, call.kind \in {"stream", "ntlm"}
    PROVE  null = FALSE
<1>1. ~AnsweredAtOnce(call.kind)  BY DEF AnsweredAtOnce
<1>2. null \in BOOLEAN /\ (null => AnsweredAtOnce(call.kind))  BY Zenon DEF IInv, BoolInv, NullInv
<1> QED  BY <1>1, <1>2, Zenon

LEMMA TailFacts ==
    ASSUME NEW q, IsSeq(q), q # <<>>
    PROVE  /\ IsSeq(Tail(q)) /\ Len(Tail(q)) = Len(q) - 1
           /\ \A i \in 1 .. Len(q) - 1 : Tail(q)[i] = q[i + 1]
<1> DEFINE S == {q[i] : i \in DOMAIN q}
<1>1. q \in Seq(S)  BY DEF IsSeq
<1> HIDE DEF S
<1>2. /\ Tail(q) \in Seq(S) /\ Len(Tail(q)) = Len(q) - 1
      /\ \A i \in 1 .. Len(Tail(q)) : Tail(q)[i] = q[i + 1]
  BY <1>1, HeadTailProperties
<1> QED  BY <1>2, OwnElements

\* What is left behind the first k elements, when the first element goes.
LEMMA LeftOfTail ==
    ASSUME NEW q, IsSeq(q), NEW k \in 1 .. Len(q)
    PROVE  SubSeq(Tail(q), (k - 1) + 1, Len(q) - 1) = SubSeq(q, k + 1, Len(q))
<1> DEFINE S == {q[i] : i \in DOMAIN q}
<1>1. q \in Seq(S)  BY DEF IsSeq
<1> HIDE DEF S
<1>2. Len(q) \in Nat  BY <1>1, LenProperties
<1>3. q # <<>>  BY <1>2
<1>4. Tail(q) = SubSeq(q, 2, Len(q))  BY <1>1, <1>3, TailIsSubSeq
<1>5. /\ 2 \in 1 .. Len(q) + 1 /\ Len(q) \in 2 - 1 .. Len(q)
      /\ k \in 1 .. Len(q) - 2 + 2 /\ Len(q) - 1 \in k - 1 .. Len(q) - 2 + 1
  BY <1>2
<1>6. SubSeq(SubSeq(q, 2, Len(q)), k, Len(q) - 1) = SubSeq(q, 2 + k - 1, 2 + (Len(q) - 1) - 1)
  BY <1>1, <1>5, PartOfPart
<1>7. (k - 1) + 1 = k /\ 2 + k - 1 = k + 1 /\ 2 + (Len(q) - 1) - 1 = Len(q)  BY <1>2
<1> QED  BY <1>4, <1>6, <1>7

\* One more item of a Search is taken, and it is not the last.
LEMMA ItemTaken ==
    ASSUME IInv, rx # <<>>, Len(sent) >= 2, call.kind = "stream",
           rx' = Tail(rx), sent' = Tail(sent), call' = call,
           UNCHANGED <<modifiers, ops, given, asked, map, null, link, blocking>>
    PROVE  IInv'
<1>1. /\ UNCHANGED <<modifiers, ops, given, asked, map, null>>
      /\ UNCHANGED <<driver, shut, buf, net, wire, eof>> /\ UNCHANGED blocking
  BY DEF link
<1>2. sent # <<>> /\ wire = <<>> /\ ops = <<>> /\ call.kind \in Answerable  BY RxFacts
<1>3. /\ IsSeq(sent) /\ IsSeq(rx) /\ Len(sent) \in Nat /\ Len(rx) \in Nat
      /\ Len(rx) <= Len(sent) /\ Len(rx) >= 1
  BY AnswerSeqs DEF IInv, AnswerInv
<1>4. /\ IsSeq(sent') /\ Len(sent') = Len(sent) - 1
      /\ \A i \in 1 .. Len(sent) - 1 : sent'[i] = sent[i + 1]
  BY <1>2, <1>3, TailFacts
<1>5. /\ IsSeq(rx') /\ Len(rx') = Len(rx) - 1
      /\ \A i \in 1 .. Len(rx) - 1 : rx'[i] = rx[i + 1]
  BY <1>3, TailFacts
<1>6. sent' # <<>>
  <2>1. \A l \in Nat : l >= 2 => l - 1 # 0  OBVIOUS
  <2>2. Len(sent') # 0  BY <1>3, <1>4, <2>1
  <2> QED  BY <2>2
<1>7. Left' = Left
  <2>1. Len(rx) \in 1 .. Len(sent)  BY <1>3
  <2> QED  BY <1>3, <1>4, <1>5, <2>1, LeftOfTail DEF Left
<1>8. ModifiersInv' /\ CallInv' /\ ChannelInv' /\ WireInv' /\ AskedInv'
  BY <1>1, <1>2 DEF IInv, ModifiersInv, CallInv, ChannelInv, WireInv, AskedInv
<1>9. MapInv'
  <2>1. Len(rx') < Len(sent') <=> Len(rx) < Len(sent)  BY <1>3, <1>4, <1>5
  <2>2. Waiting' <=> Waiting  BY <1>1, <1>2, <1>6, <2>1 DEF Waiting
  <2> QED  BY <1>1, <2>2 DEF IInv, MapInv
<1>10. AnswerInv'
  <2>1. PICK s \in DOMAIN Responses : AnswerOf(s)  BY <1>2 DEF IInv, AnswerInv
  <2>2. s = "search"  BY <2>1 DEF AnswerOf, Streams
  <2>3. ASSUME NEW i \in 1 .. Len(rx') PROVE Proper(s, i = Len(sent'), rx'[i], sent'[i])
    <3>1. /\ i + 1 \in 1 .. Len(rx) /\ (i = Len(sent') <=> i + 1 = Len(sent))
          /\ i \in 1 .. Len(rx) - 1 /\ i \in 1 .. Len(sent) - 1
      BY <1>3, <1>4, <1>5
    <3>2. Proper(s, i + 1 = Len(sent), rx[i + 1], sent[i + 1])  BY <2>1, <3>1 DEF AnswerOf
    <3>3. rx'[i] = rx[i + 1] /\ sent'[i] = sent[i + 1]  BY <1>4, <1>5, <3>1
    <3> QED  BY <3>1, <3>2, <3>3 DEF Proper
  <2>4. AnswerOf(s)'  BY <1>7, <2>1, <2>2, <2>3 DEF AnswerOf
  <2>5. Len(rx') <= Len(sent')  BY <1>3, <1>4, <1>5
  <2> QED  BY <1>2, <1>4, <1>5, <2>4, <2>5 DEF IInv, AnswerInv
<1>11. FlightInv'  BY <1>1, <1>2, <1>6, <1>7 DEF IInv, FlightInv, Flight
<1>12. NullInv' /\ BoolInv'  BY <1>1 DEF IInv, NullInv, BoolInv
<1>13. DriverInv' /\ PendingInv'  BY <1>1, <1>6 DEF IInv, DriverInv, Quiet, PendingInv
<1> QED  BY <1>8, <1>9, <1>10, <1>11, <1>12, <1>13 DEF IInv

LEMMA StreamNextStep ==
    ASSUME IInv, AnswerContract, StreamNext
    PROVE  IInv'
<1>1. /\ call.kind = "stream" /\ rx # <<>> /\ rx' = Tail(rx) /\ sent' = Tail(sent)
      /\ call' = IF Head(rx).tag.id = 5 THEN NoCall ELSE call
      /\ UNCHANGED <<modifiers, ops, given, asked, map, null, link, blocking>>
  BY DEF StreamNext
<1>2. sent # <<>> /\ wire = <<>> /\ ops = <<>>  BY <1>1, RxFacts
<1>3. /\ IsSeq(sent) /\ IsSeq(rx) /\ Len(sent) \in Nat /\ Len(rx) \in Nat
      /\ Len(rx) <= Len(sent) /\ Len(rx) >= 1
  BY <1>1, AnswerSeqs DEF IInv, AnswerInv
<1>4. Head(rx) = rx[1] /\ 1 \in 1 .. Len(rx)  BY <1>3
<1>5. Head(rx).tag.id = 5 <=> 1 = Len(sent)
  <2>1. PICK s \in DOMAIN Responses : AnswerOf(s)  BY <1>2 DEF IInv, AnswerInv
  <2>2. s = "search"  BY <1>1, <2>1 DEF AnswerOf, Streams
  <2>3. Proper(s, 1 = Len(sent), rx[1], sent[1])  BY <1>4, <2>1 DEF AnswerOf
  <2> QED  BY <1>4, <2>2, <2>3 DEF Proper
<1>6. CASE Len(sent) = 1
  <2>0. \A k \in Nat : k <= 1 /\ k >= 1 => k = 1  OBVIOUS
  <2>1. Len(rx) = 1 /\ Len(rx) = Len(sent)  BY <1>3, <1>6, <2>0
  <2>2. Quiet /\ map = {}  BY <1>2, <2>1, AllGot
  <2>3. /\ IsSeq(rx') /\ Len(rx') = 0
        /\ IsSeq(sent') /\ Len(sent') = 0
    BY <1>1, <1>2, <1>3, <1>6, <2>1, TailFacts
  <2>4. rx' = <<>> /\ sent' = <<>>  BY <2>3, EmptySeq DEF IsSeq
  <2>5. null = FALSE  BY <1>1, NotNull
  <2>6. Cleared'  BY <1>1, <2>2, <2>4, <2>5 DEF Cleared
  <2>7. call' = NoCall  BY <1>1, <1>5, <1>6
  <2> QED  BY <1>1, <1>2, <2>2, <2>6, <2>7, Returned
<1>7. CASE Len(sent) # 1
  <2>0. \A k, l \in Nat : k <= l /\ k >= 1 /\ l # 1 => l >= 2  OBVIOUS
  <2>1. Len(sent) >= 2  BY <1>3, <1>7, <2>0
  <2>2. call' = call  BY <1>1, <1>5, <1>7
  <2> QED  BY <1>1, <2>1, <2>2, ItemTaken
<1> QED  BY <1>6, <1>7

LEMMA NtlmContinueStep ==
    ASSUME IInv, Contract, NtlmContinue
    PROVE  IInv'
<1>0. RequestContract /\ AnswerContract  BY DEF Contract
<1>1. /\ call.kind = "ntlm" /\ rx # <<>> /\ rx' = <<>> /\ sent' = <<>>
      /\ UNCHANGED <<map, null, link, blocking>>
  BY DEF NtlmContinue
<1>2. sent # <<>> /\ wire = <<>> /\ ops = <<>> /\ asked = Unasked  BY <1>1, RxFacts
<1>3. Quiet /\ map = {} /\ Len(rx) = 1 /\ Len(sent) = 1  BY <1>0, <1>1, SingleGot
<1>4. null = FALSE  BY <1>1, NotNull
<1>5. Cleared'  BY <1>1, <1>3, <1>4 DEF Cleared
<1>6. PICK r \in ResultOf(Head(rx).tag) :
        \/ \E challenge \in r.creds : \E tag \in Tags(SpnegoBind(challenge)) :
                op_call("single", SpnegoBind(challenge), tag,
                        modifiers.controls, [modifiers EXCEPT !.controls = {}])
        \/ call' = NoCall /\ UNCHANGED <<modifiers, ops, given, asked>>
  BY DEF NtlmContinue
<1>7. r.creds \subseteq Challenges
  <2>1. PICK s \in DOMAIN Responses : AnswerOf(s)  BY <1>2 DEF IInv, AnswerInv
  <2>2. s = "spnego"  BY <1>1, <2>1 DEF AnswerOf
  <2>3. Head(rx) = rx[1] /\ 1 \in 1 .. Len(rx)  BY <1>3
  <2>4. Proper(s, 1 = Len(sent), rx[1], sent[1])  BY <2>1, <2>3 DEF AnswerOf
  <2> QED  BY <1>6, <2>2, <2>3, <2>4 DEF Proper
<1>8. CASE call' = NoCall /\ UNCHANGED <<modifiers, ops, given, asked>>
  BY <1>1, <1>2, <1>3, <1>5, <1>8, Returned
<1>9. ASSUME NEW challenge \in r.creds, NEW tag \in Tags(SpnegoBind(challenge)),
             op_call("single", SpnegoBind(challenge), tag,
                     modifiers.controls, [modifiers EXCEPT !.controls = {}])
      PROVE  IInv'
  <2>1. SpnegoBind(challenge) \in BuiltRequests /\ Fits("single", SpnegoBind(challenge))
    BY <1>7, FitsOthers
  <2>0. Meant("single", SpnegoBind(challenge)) = SpnegoBind(challenge)  BY DEF Meant
  <2>2. \A id \in Ids : ReadsAs(id, given.controls, tag, SpnegoBind(challenge))
    BY <1>0, <2>1, GivenType, BuiltReadsAs
  <2>3. [modifiers EXCEPT !.controls = {}] = Rest("single")  BY ModifiersType DEF IInv, Rest
  <2>4. op_call("single", SpnegoBind(challenge), tag, modifiers.controls, Rest("single"))
    BY <1>9, <2>3
  <2>5. ModifiersInv /\ DriverInv /\ BoolInv /\ FlightInv  BY DEF IInv
  <2>6. Free  BY <1>2, <2>5 DEF Free, DriverInv
  <2>7. "single" \in (Answerable \cup Silent) \ {"stream"}  BY DEF Answerable
  <2>8. UNCHANGED link /\ UNCHANGED blocking  BY <1>1
  <2>9. /\ ModifiersInv' /\ CallInv' /\ ChannelInv' /\ WireInv' /\ AskedInv' /\ MapInv'
        /\ AnswerInv' /\ NullInv' /\ DriverInv' /\ PendingInv' /\ BoolInv'
    BY <1>5, <2>0, <2>1, <2>2, <2>4, <2>5, <2>6, <2>7, <2>8, Called
  <2>10. FlightInv'  BY <1>1, <1>3, <2>5, <2>8 DEF FlightInv, Quiet, link
  <2> QED  BY <2>9, <2>10 DEF IInv
<1> QED  BY <1>6, <1>8, <1>9

-----------------------------------------------------------------------------
(* Octets on their way *)

LEMMA RemaindersTail ==
    ASSUME NEW s \in DOMAIN Responses, NEW q \in Remainders(s)
    PROVE  /\ IsSeq(q) /\ Len(q) \in Nat /\ Len(q) >= 1
           /\ Len(q) = 1 => Tail(q) = <<>>
           /\ Len(q) # 1 => Tail(q) \in Remainders(s)
<1>1. PICK ms \in Responses[s] : \E i \in 1 .. Len(ms) : q = SubSeq(ms, i, Len(ms))
  BY DEF Remainders
<1>2. PICK i \in 1 .. Len(ms) : q = SubSeq(ms, i, Len(ms))  BY <1>1
<1>3. IsSeq(ms)  BY ResponsesAssumption DEF IsSeq
<1> DEFINE S == {ms[j] : j \in DOMAIN ms}
<1>4. ms \in Seq(S)  BY <1>3 DEF IsSeq
<1> HIDE DEF S
<1>5. Len(ms) \in Nat  BY <1>4, LenProperties
<1>6. i \in 1 .. Len(ms) + 1 /\ Len(ms) \in i - 1 .. Len(ms)  BY <1>5
<1>7. q \in Seq(S) /\ Len(q) = Len(ms) - i + 1  BY <1>2, <1>4, <1>6, PartFacts
<1>8. Len(q) \in Nat /\ Len(q) >= 1  BY <1>5, <1>7
<1>9. IsSeq(q)  BY <1>7, OwnElements
<1>10. Len(ms) \in i .. Len(ms)  BY <1>5
<1>11. Tail(q) = SubSeq(ms, i + 1, Len(ms))  BY <1>2, <1>4, <1>10, HeadTailOfSubSeq
<1>12. ASSUME Len(q) = 1 PROVE Tail(q) = <<>>
  <2> DEFINE l == Len(ms)
  <2>0. l \in Nat /\ i \in 1 .. l /\ l - i + 1 = 1  BY <1>5, <1>7, <1>12
  <2> HIDE DEF l
  <2>1. i + 1 \in Int /\ l \in Int /\ l < i + 1  BY <2>0
  <2>2. SubSeq(ms, i + 1, l) = <<>>  BY <2>1, SubSeqEmpty
  <2> QED  BY <1>11, <2>2 DEF l
<1>13. ASSUME Len(q) # 1 PROVE Tail(q) \in Remainders(s)
  <2>0. \A l \in Nat : \A h \in 1 .. l : l - h + 1 # 1 => h + 1 \in 1 .. l  OBVIOUS
  <2>1. i + 1 \in 1 .. Len(ms)  BY <1>5, <1>7, <1>13, <2>0
  <2>2. Tail(q) \in {SubSeq(ms, h, Len(ms)) : h \in 1 .. Len(ms)}  BY <1>11, <2>1
  <2> QED  BY <2>2 DEF Remainders
<1> QED  BY <1>8, <1>9, <1>12, <1>13

\* The octets of what is left of an answer.
LEMMA LeftOctets ==
    ASSUME IInv, AnswerContract, sent # <<>>, NEW form \in Forms
    PROVE  ServerWrites(form, call.id, Left) \in Octets
<1>1. call.id \in Ids  BY DEF IInv, AnswerInv
<1>2. PICK s \in DOMAIN Responses : Left = <<>> \/ Left \in Remainders(s)
  BY DEF IInv, AnswerInv, AnswerOf
<1>3. CASE Left = <<>>
  <2>1. ServerWrites(form, call.id, Left) = <<>>  BY <1>1, <1>3 DEF AnswerContract
  <2>2. <<>> \in Octets  BY EmptySeq DEF Octets
  <2> QED  BY <2>1, <2>2
<1>4. CASE Left \in Remainders(s)
  <2>1. Framed(s, Left, form, call.id)  BY <1>1, <1>4 DEF AnswerContract
  <2> QED  BY <2>1 DEF Framed, FramedAs
<1> QED  BY <1>2, <1>3, <1>4

\* The connection is given up: nothing of w is left.
LEMMA FlightLost ==
    ASSUME NEW w \in Octets
    PROVE  Split(w, <<>>, <<>>, TRUE)
<1>1. Len(w) \in Nat  BY LenProperties DEF Octets
<1>2. 0 \in 0 .. Len(w) /\ 0 \in 0 .. Len(w)  BY <1>1
<1>3. SubSeq(w, 1, 0) = <<>> /\ SubSeq(w, 0 + 1, 0) = <<>>  BY SubSeqEmpty
<1> QED  BY <1>2, <1>3 DEF Split

\* The rest of w gets lost on its way.
LEMMA FlightCut ==
    ASSUME NEW w \in Octets, NEW b, NEW q, NEW lost, Split(w, b, q, lost)
    PROVE  Split(w, b, <<>>, TRUE)
<1>1. PICK p \in 0 .. Len(w) : b = SubSeq(w, 1, p)  BY DEF Split
<1>2. Len(w) \in Nat  BY LenProperties DEF Octets
<1>3. p \in p .. Len(w) /\ p \in Int /\ p + 1 \in Int /\ p < p + 1  BY <1>2
<1>4. SubSeq(w, p + 1, p) = <<>>  BY <1>3, SubSeqEmpty
<1> QED  BY <1>1, <1>3, <1>4 DEF Split

\* All of w has just been sent.
LEMMA FlightBegins ==
    ASSUME NEW w \in Octets, NEW lost
    PROVE  Split(w, <<>>, w, lost)
<1>1. Len(w) \in Nat  BY LenProperties DEF Octets
<1>2. 0 \in 0 .. Len(w) /\ Len(w) \in 0 .. Len(w)  BY <1>1
<1>3. SubSeq(w, 1, 0) = <<>>  BY SubSeqEmpty
<1>4. SubSeq(w, 0 + 1, Len(w)) = w  BY SubSeqFull DEF Octets
<1> QED  BY <1>2, <1>3, <1>4 DEF Split

\* Some of it is read.
LEMMA FlightRead ==
    ASSUME NEW w \in Octets, NEW b, NEW q, NEW lost, Split(w, b, q, lost),
           NEW k \in 1 .. Len(q)
    PROVE  Split(w, b \o SubSeq(q, 1, k), SubSeq(q, k + 1, Len(q)), lost)
<1>1. PICK p \in 0 .. Len(w) : \E n \in p .. Len(w) :
        b = SubSeq(w, 1, p) /\ q = SubSeq(w, p + 1, n) /\ (~lost => n = Len(w))
  BY DEF Split
<1>2. PICK n \in p .. Len(w) :
        b = SubSeq(w, 1, p) /\ q = SubSeq(w, p + 1, n) /\ (~lost => n = Len(w))
  BY <1>1
<1>3. Len(w) \in Nat /\ w \in Seq(0 .. 255)  BY LenProperties DEF Octets
<1> DEFINE S == 0 .. 255
<1>4. w \in Seq(S)  BY <1>3
<1> HIDE DEF S
<1>5. p + 1 \in 1 .. Len(w) + 1 /\ n \in (p + 1) - 1 .. Len(w)  BY <1>3
<1>6. Len(q) = n - (p + 1) + 1  BY <1>2, <1>4, <1>5, PartFacts
<1>7. Len(q) = n - p  BY <1>3, <1>6
<1>8. SubSeq(q, 1, k) = SubSeq(w, p + 1, p + k)
  <2>1. 1 \in 1 .. n - (p + 1) + 2 /\ k \in 1 - 1 .. n - (p + 1) + 1  BY <1>3, <1>7
  <2>2. SubSeq(SubSeq(w, p + 1, n), 1, k) = SubSeq(w, (p + 1) + 1 - 1, (p + 1) + k - 1)
    BY <1>4, <1>5, <2>1, PartOfPart
  <2>3. (p + 1) + 1 - 1 = p + 1 /\ (p + 1) + k - 1 = p + k  BY <1>3, <1>7
  <2> QED  BY <1>2, <2>2, <2>3
<1>9. SubSeq(q, k + 1, Len(q)) = SubSeq(w, (p + k) + 1, n)
  <2>1. k + 1 \in 1 .. n - (p + 1) + 2 /\ n - p \in (k + 1) - 1 .. n - (p + 1) + 1  BY <1>3, <1>7
  <2>2. SubSeq(SubSeq(w, p + 1, n), k + 1, n - p)
        = SubSeq(w, (p + 1) + (k + 1) - 1, (p + 1) + (n - p) - 1)
    BY <1>4, <1>5, <2>1, PartOfPart
  <2>3. (p + 1) + (k + 1) - 1 = (p + k) + 1 /\ (p + 1) + (n - p) - 1 = n  BY <1>3, <1>7
  <2> QED  BY <1>2, <1>7, <2>2, <2>3
<1>10. p + k \in 0 .. Len(w) /\ p + k \in p .. Len(w) /\ n \in p + k .. Len(w)  BY <1>3, <1>7
<1>11. b \o SubSeq(q, 1, k) = SubSeq(w, 1, p + k)  BY <1>2, <1>4, <1>8, <1>10, PartsJoined
<1> DEFINE j == p + k
<1>12. /\ j \in 0 .. Len(w) /\ n \in j .. Len(w)
       /\ b \o SubSeq(q, 1, k) = SubSeq(w, 1, j) /\ SubSeq(q, k + 1, Len(q)) = SubSeq(w, j + 1, n)
  BY <1>9, <1>10, <1>11
<1> HIDE DEF j
<1> QED  BY <1>2, <1>12 DEF Split

\* The first k octets are a message, which is decoded.
LEMMA FlightDecoded ==
    ASSUME NEW w \in Octets, NEW p \in 0 .. Len(w), NEW n \in p .. Len(w),
           NEW lost, ~lost => n = Len(w), NEW k \in 0 .. p
    PROVE  /\ SubSeq(w, k + 1, p) \in Octets
           /\ Split(SubSeq(w, k + 1, Len(w)), SubSeq(w, k + 1, p), SubSeq(w, p + 1, n), lost)
<1>1. Len(w) \in Nat /\ w \in Seq(0 .. 255)  BY LenProperties DEF Octets
<1> DEFINE S == 0 .. 255
           v == SubSeq(w, k + 1, Len(w))
<1>2. w \in Seq(S)  BY <1>1
<1> HIDE DEF S
<1>3. k + 1 \in 1 .. Len(w) + 1 /\ Len(w) \in (k + 1) - 1 .. Len(w)  BY <1>1
<1>4. v \in Seq(S) /\ Len(v) = Len(w) - (k + 1) + 1  BY <1>2, <1>3, PartFacts
<1>5. Len(v) = Len(w) - k  BY <1>1, <1>4
<1>6. SubSeq(v, 1, p - k) = SubSeq(w, k + 1, p)
  <2>1. 1 \in 1 .. Len(w) - (k + 1) + 2 /\ p - k \in 1 - 1 .. Len(w) - (k + 1) + 1  BY <1>1
  <2>2. SubSeq(v, 1, p - k) = SubSeq(w, (k + 1) + 1 - 1, (k + 1) + (p - k) - 1)
    BY <1>2, <1>3, <2>1, PartOfPart
  <2>3. (k + 1) + 1 - 1 = k + 1 /\ (k + 1) + (p - k) - 1 = p  BY <1>1
  <2> QED  BY <2>2, <2>3
<1>7. SubSeq(v, (p - k) + 1, n - k) = SubSeq(w, p + 1, n)
  <2>1. /\ (p - k) + 1 \in 1 .. Len(w) - (k + 1) + 2
        /\ n - k \in ((p - k) + 1) - 1 .. Len(w) - (k + 1) + 1
    BY <1>1
  <2>2. SubSeq(v, (p - k) + 1, n - k) = SubSeq(w, (k + 1) + ((p - k) + 1) - 1, (k + 1) + (n - k) - 1)
    BY <1>2, <1>3, <2>1, PartOfPart
  <2>3. (k + 1) + ((p - k) + 1) - 1 = p + 1 /\ (k + 1) + (n - k) - 1 = n  BY <1>1
  <2> QED  BY <2>2, <2>3
<1>8. SubSeq(w, k + 1, p) \in Octets
  <2>1. p \in (k + 1) - 1 .. Len(w)  BY <1>1
  <2> QED  BY <1>2, <1>3, <2>1, PartFacts DEF S, Octets
<1> HIDE DEF v
<1> DEFINE i == p - k
           j == n - k
<1>9. i \in 0 .. Len(v) /\ j \in i .. Len(v)  BY <1>1, <1>5
<1>10. ~lost => j = Len(v)  BY <1>1, <1>5
<1>11. SubSeq(w, k + 1, p) = SubSeq(v, 1, i) /\ SubSeq(w, p + 1, n) = SubSeq(v, i + 1, j)
  BY <1>6, <1>7
<1> HIDE DEF i, j
<1>12. Split(v, SubSeq(w, k + 1, p), SubSeq(w, p + 1, n), lost)  BY <1>9, <1>10, <1>11 DEF Split
<1> QED  BY <1>8, <1>12 DEF v

-----------------------------------------------------------------------------
(* The driver *)

LEMMA StoppedStep ==
    ASSUME IInv, AnswerContract, Stopped("ended")
    PROVE  IInv'
<1>1. /\ driver' = "ended" /\ ops' = <<>> /\ map' = {} /\ buf' = <<>> /\ net' = <<>>
      /\ wire' = <<>> /\ asked' = Unasked /\ eof' = TRUE
      /\ UNCHANGED <<modifiers, call, given, null, rx, sent, shut, blocking>>
  BY DEF Stopped
<1>2. ModifiersInv' /\ CallInv' /\ ChannelInv' /\ WireInv' /\ AskedInv' /\ MapInv'
  BY <1>1 DEF IInv, ModifiersInv, CallInv, ChannelInv, WireInv, AskedInv, MapInv, Waiting
<1>3. AnswerInv'  BY <1>1 DEF IInv, AnswerInv, AnswerOf, Left
<1>4. FlightInv'
  <2>1. <<>> \in Octets  BY EmptySeq DEF Octets
  <2>2. CASE sent = <<>>  BY <1>1, <2>1, <2>2 DEF FlightInv, Quiet
  <2>3. CASE sent # <<>>
    <3>1. PICK form \in Forms : TRUE  BY DEF Forms
    <3>2. ServerWrites(form, call.id, Left) \in Octets  BY <2>3, LeftOctets
    <3>3. Split(ServerWrites(form, call.id, Left), <<>>, <<>>, TRUE)  BY <3>2, FlightLost
    <3>4. Flight(ServerWrites(form, call.id, Left))'  BY <1>1, <3>3 DEF Flight, Left
    <3> QED  BY <1>1, <2>1, <2>3, <3>4 DEF FlightInv
  <2> QED  BY <2>2, <2>3
<1>5. NullInv' /\ PendingInv' /\ DriverInv'
  BY <1>1 DEF IInv, NullInv, PendingInv, DriverInv, Quiet
<1>6. BoolInv'  BY <1>1, Zenon DEF IInv, BoolInv
<1> QED  BY <1>2, <1>3, <1>4, <1>5, <1>6 DEF IInv

LEMMA ChannelFacts ==
    ASSUME IInv, ops # <<>>
    PROVE  /\ Head(ops) = ops[1] /\ ops[1].kind = call.kind /\ ops[1].id = call.id
           /\ Carries(Encoded(ops[1].id, ops[1].req, ops[1].controls))
           /\ call.id \in Ids /\ call.kind \in (Answerable \cup Silent) \ {"stream"}
           /\ call # NoCall /\ WithLeft(asked).id = call.id /\ Fits(call.kind, WithLeft(asked).op)
           /\ driver = "running" /\ wire = <<>> /\ sent = <<>> /\ map = {}
<1>1. ChannelInv /\ MapInv  BY DEF IInv
<1>2. /\ ops = <<ops[1]>> /\ ops[1].kind = call.kind /\ ops[1].id = call.id
      /\ Carries(Encoded(ops[1].id, ops[1].req, ops[1].controls))
      /\ call.id \in Ids /\ call.kind \in (Answerable \cup Silent) \ {"stream"}
      /\ WithLeft(asked).id = call.id /\ Fits(call.kind, WithLeft(asked).op)
      /\ driver = "running" /\ wire = <<>> /\ sent = <<>>
  BY <1>1 DEF ChannelInv
<1>3. call # NoCall  BY <1>2 DEF NoCall, Answerable, Silent, Streams
<1>4. map = {}  BY <1>1 DEF MapInv, Waiting
<1>5. Head(ops) = ops[1]
  <2>1. \A x : Head(<<x>>) = x  OBVIOUS
  <2> QED  BY <1>2, <2>1
<1> QED  BY <1>2, <1>3, <1>4, <1>5

\* The operation o is written.
LEMMA SentStep ==
    ASSUME IInv, ops # <<>>, NEW o, o = Head(ops),
           wire' = IF eof THEN <<>> ELSE Encoded(o.id, o.req, o.controls),
           asked' = IF eof THEN Unasked ELSE asked,
           map' = IF o.kind \in {"abandon", "unbind"} THEN map
                  ELSE map \cup {[id |-> o.id, search |-> o.kind = "search"]},
           null' = AnsweredAtOnce(o.kind),
           shut' = (o.kind = "unbind"),
           ops' = <<>>,
           UNCHANGED <<modifiers, call, given, rx, sent, driver, buf, net, eof, blocking>>
    PROVE  IInv'
<1>1. /\ o.kind = call.kind /\ o.id = call.id
      /\ Carries(Encoded(o.id, o.req, o.controls))
      /\ call.id \in Ids /\ call.kind \in (Answerable \cup Silent) \ {"stream"}
      /\ call # NoCall /\ WithLeft(asked).id = call.id /\ Fits(call.kind, WithLeft(asked).op)
      /\ driver = "running" /\ sent = <<>> /\ map = {}
  BY ChannelFacts
<1>2. ModifiersInv' /\ CallInv' /\ ChannelInv'
  BY DEF IInv, ModifiersInv, CallInv, ChannelInv
<1>3. WireInv'
  <2>1. CASE eof  BY <2>1 DEF WireInv
  <2>2. CASE ~eof
    <3>1. wire' = Encoded(o.id, o.req, o.controls) /\ asked' = asked  BY <2>2
    <3>2. Carries(wire)'  BY <1>1, <3>1 DEF Carries
    <3>3. (~eof)'  BY <2>2
    <3> QED  BY <1>1, <3>1, <3>2, <3>3 DEF WireInv, Carries
  <2> QED  BY <2>1, <2>2
<1>4. AskedInv' /\ PendingInv'
  <2>1. CASE eof  BY <2>1 DEF AskedInv, PendingInv
  <2>2. CASE ~eof
    <3>1. wire' # <<>>  BY <1>1, <2>2 DEF Carries
    <3> QED  BY <3>1 DEF AskedInv, PendingInv
  <2> QED  BY <2>1, <2>2
<1>5. MapInv'
  <2>1. call'.kind = call.kind /\ call'.id = call.id /\ sent' = <<>> /\ driver' = "running"
    BY <1>1
  <2>2. Waiting' <=> call.kind \in Answerable  BY <2>1 DEF Waiting
  <2>3. CASE call.kind \in Answerable
    <3>1. o.kind \notin {"abandon", "unbind"}  BY <1>1, <2>3 DEF Answerable, Streams
    <3>2. (o.kind = "search") = (call.kind \in Streams)  BY <1>1 DEF Streams
    <3>3. map' = {[id |-> call.id, search |-> call.kind \in Streams]}  BY <1>1, <3>1, <3>2
    <3> QED  BY <2>1, <2>2, <2>3, <3>3 DEF MapInv
  <2>4. CASE call.kind \notin Answerable
    <3>1. o.kind \in {"abandon", "unbind"}  BY <1>1, <2>4 DEF Silent
    <3> QED  BY <1>1, <2>2, <2>4, <3>1 DEF MapInv
  <2> QED  BY <2>3, <2>4
<1>6. AnswerInv'  BY <1>1 DEF IInv, AnswerInv
<1>7. FlightInv'  BY <1>1, FlightKept DEF IInv
<1>8. NullInv'
  <2>1. call.kind \in Silent => AnsweredAtOnce(call.kind)  BY DEF Silent, AnsweredAtOnce
  <2>2. null' = AnsweredAtOnce(call.kind) /\ call' = call  BY <1>1
  <2> QED  BY <2>1, <2>2 DEF NullInv
<1>9. DriverInv'  BY <1>1 DEF DriverInv
<1>10. BoolInv'
  <2>1. null' \in BOOLEAN  BY DEF AnsweredAtOnce
  <2>2. shut' \in BOOLEAN  OBVIOUS
  <2>3. eof \in BOOLEAN /\ blocking \in BOOLEAN /\ eof' = eof /\ blocking' = blocking
    BY Zenon DEF IInv, BoolInv
  <2> QED  BY <2>1, <2>2, <2>3, Zenon DEF BoolInv
<1> QED  BY <1>2, <1>3, <1>4, <1>5, <1>6, <1>7, <1>8, <1>9, <1>10 DEF IInv

LEMMA DrvSendStep ==
    ASSUME IInv, AnswerContract, DrvSend
    PROVE  IInv'
<1>1. CASE Stopped("ended")  BY <1>1, StoppedStep
<1>2. CASE ~Stopped("ended")
  <2>1. ops # <<>> /\ ops' = <<>>
        /\ UNCHANGED <<modifiers, call, given, rx, sent, driver, buf, net, eof, blocking>>
    BY <1>2 DEF DrvSend
  <2> DEFINE o == Head(ops)
  <2>2. /\ wire' = IF eof THEN <<>> ELSE Encoded(o.id, o.req, o.controls)
        /\ asked' = IF eof THEN Unasked ELSE asked
        /\ map' = IF o.kind \in {"abandon", "unbind"} THEN map
                  ELSE map \cup {[id |-> o.id, search |-> o.kind = "search"]}
        /\ null' = AnsweredAtOnce(o.kind)
        /\ shut' = (o.kind = "unbind")
    BY <1>2 DEF DrvSend
  <2>3. o = Head(ops)  OBVIOUS
  <2> HIDE DEF o
  <2> QED  BY <2>1, <2>2, <2>3, SentStep
<1> QED  BY <1>1, <1>2

LEMMA DrvReadStep ==
    ASSUME IInv, AnswerContract, DrvRead
    PROVE  IInv'
<1>1. /\ UNCHANGED <<modifiers, call, ops, given, asked>> /\ UNCHANGED <<map, null, rx, sent>>
      /\ UNCHANGED <<driver, shut, wire, eof>> /\ UNCHANGED blocking
      /\ driver = "running" /\ net # <<>>
  BY DEF DrvRead, caller, received, Polled
<1>2. PICK k \in {1, Len(net)} :
        buf' = buf \o SubSeq(net, 1, k) /\ net' = SubSeq(net, k + 1, Len(net))
  BY DEF DrvRead
<1>3. buf \in Octets /\ net \in Octets  BY DEF IInv, FlightInv
<1>4. Len(net) \in Nat /\ Len(net) >= 1 /\ k \in 1 .. Len(net)
  <2>1. Len(net) \in Nat /\ Len(net) # 0  BY <1>1, <1>3, EmptySeq DEF Octets
  <2> QED  BY <2>1
<1>5. ModifiersInv' /\ CallInv' /\ ChannelInv' /\ WireInv' /\ AskedInv'
  BY <1>1 DEF IInv, ModifiersInv, CallInv, ChannelInv, WireInv, AskedInv, Carries
<1>6. MapInv' /\ PendingInv'  BY <1>1 DEF IInv, MapInv, Waiting, PendingInv
<1>7. AnswerInv'  BY <1>1 DEF IInv, AnswerInv, AnswerOf, Left
<1>8. NullInv' /\ BoolInv'  BY <1>1 DEF IInv, NullInv, BoolInv
<1>9. DriverInv'  BY <1>1 DEF DriverInv
<1>10. buf' \in Octets /\ net' \in Octets
  <2> DEFINE S == 0 .. 255
  <2>1. buf \in Seq(S) /\ net \in Seq(S)  BY <1>3 DEF Octets
  <2> HIDE DEF S
  <2>2. 1 \in 1 .. Len(net) + 1 /\ k \in 1 - 1 .. Len(net)  BY <1>4
  <2>3. SubSeq(net, 1, k) \in Seq(S)  BY <2>1, <2>2, PartFacts
  <2>4. k + 1 \in 1 .. Len(net) + 1 /\ Len(net) \in (k + 1) - 1 .. Len(net)  BY <1>4
  <2>5. SubSeq(net, k + 1, Len(net)) \in Seq(S)  BY <2>1, <2>4, PartFacts
  <2>6. buf \o SubSeq(net, 1, k) \in Seq(S)  BY <2>1, <2>3, ConcatProperties
  <2> QED  BY <1>2, <2>5, <2>6 DEF S, Octets
<1>11. \A w \in Octets : Split(w, buf, net, eof) => Split(w, buf', net', eof')
  BY <1>1, <1>2, <1>4, FlightRead
<1>12. FlightInv'
  <2>1. CASE sent # <<>>
    <3>1. PICK form \in Forms : Flight(ServerWrites(form, call.id, Left))
      BY <2>1 DEF IInv, FlightInv
    <3>2. ServerWrites(form, call.id, Left) \in Octets  BY <2>1, LeftOctets
    <3>3. Split(ServerWrites(form, call.id, Left), buf', net', eof')
      BY <1>11, <3>1, <3>2 DEF Flight
    <3>4. Flight(ServerWrites(form, call.id, Left))'  BY <1>1, <3>3 DEF Flight, Left
    <3> QED  BY <1>1, <1>10, <2>1, <3>4 DEF FlightInv
  <2>2. CASE sent = <<>>
    <3>1. PICK form \in Forms : eof /\ Flight(NoticeOf(form))
      BY <1>1, <2>2 DEF IInv, FlightInv, Quiet
    <3>2. NoticeOf(form) \in Octets  BY DEF AnswerContract, Noticed
    <3>3. Flight(NoticeOf(form))'  BY <1>11, <3>1, <3>2 DEF Flight
    <3>4. eof'  BY <1>1, <3>1
    <3> QED  BY <1>1, <1>10, <2>2, <3>3, <3>4 DEF FlightInv
  <2> QED  BY <2>1, <2>2
<1> QED  BY <1>5, <1>6, <1>7, <1>8, <1>9, <1>12 DEF IInv

LEMMA DrvEofStep ==
    ASSUME IInv, AnswerContract, DrvEof
    PROVE  IInv'
BY StoppedStep DEF DrvEof

-----------------------------------------------------------------------------
(* A message is received *)

LEMMA LeftFacts ==
    ASSUME IInv, Left # <<>>
    PROVE  /\ Len(sent) \in Nat /\ Len(rx) \in Nat /\ Len(rx) < Len(sent)
           /\ Len(Left) = Len(sent) - Len(rx)
           /\ Head(Left) = sent[Len(rx) + 1]
           /\ Tail(Left) = SubSeq(sent, (Len(rx) + 1) + 1, Len(sent))
           /\ sent # <<>>
<1> DEFINE S == {sent[i] : i \in DOMAIN sent}
<1>1. sent \in Seq(S) /\ Len(sent) \in Nat /\ Len(rx) \in Nat /\ Len(rx) <= Len(sent)
  BY AnswerSeqs DEF IInv
<1> HIDE DEF S
<1>2. Len(rx) # Len(sent)
  <2> SUFFICES ASSUME Len(rx) = Len(sent) PROVE FALSE
    OBVIOUS
  <2>1. Len(sent) + 1 \in Int /\ Len(sent) \in Int /\ Len(sent) < Len(sent) + 1  BY <1>1
  <2> QED  BY <2>1, SubSeqEmpty DEF Left
<1>3. Len(rx) < Len(sent)  BY <1>1, <1>2
<1> DEFINE i == Len(rx) + 1
<1>4. /\ i \in 1 .. Len(sent) /\ Len(sent) \in i .. Len(sent)
      /\ i \in 1 .. Len(sent) + 1 /\ Len(sent) \in i - 1 .. Len(sent)
      /\ Len(sent) - i + 1 = Len(sent) - Len(rx)
  BY <1>1, <1>3
<1>5. Left = SubSeq(sent, i, Len(sent))  BY DEF Left
<1> HIDE DEF i
<1>6. Head(Left) = sent[i] /\ Tail(Left) = SubSeq(sent, i + 1, Len(sent))
  BY <1>1, <1>4, <1>5, HeadTailOfSubSeq
<1>7. Len(Left) = Len(sent) - i + 1  BY <1>1, <1>4, <1>5, PartFacts
<1>8. sent # <<>>
  <2>1. Len(sent) # 0  BY <1>1, <1>3
  <2> QED  BY <2>1
<1> QED  BY <1>1, <1>3, <1>4, <1>6, <1>7, <1>8 DEF i

\* What the driver finds in its buffer, with Decode(buf) # {}: the next message of the answer.
LEMMA NextMessage ==
    ASSUME IInv, AnswerContract, sent # <<>>, NEW d \in Decode(buf)
    PROVE  \E s \in DOMAIN Responses, form \in Forms, m \in d.message :
              /\ AnswerOf(s) /\ Left \in Remainders(s)
              /\ d.message = {m} /\ m.id = call.id
              /\ Proper(s, Len(Left) = 1, [tag |-> m.protoop, controls |-> m.controls], Head(Left))
              /\ d.rest \in Octets
              /\ Split(ServerWrites(form, call.id, Tail(Left)), d.rest, net, eof)
<1>1. call.id \in Ids  BY DEF IInv, AnswerInv
<1>2. PICK s \in DOMAIN Responses : AnswerOf(s)  BY DEF IInv, AnswerInv
<1>3. PICK form \in Forms : Flight(ServerWrites(form, call.id, Left))  BY DEF IInv, FlightInv
<1>4. Left # <<>>
  <2> SUFFICES ASSUME Left = <<>> PROVE FALSE
    OBVIOUS
  <2>1. ServerWrites(form, call.id, Left) = <<>>  BY <1>1 DEF AnswerContract
  <2>2. buf = <<>>  BY <1>3, <2>1, EmptyFlight DEF Quiet
  <2> QED  BY <2>2 DEF AnswerContract
<1>5. Left \in Remainders(s)  BY <1>2, <1>4 DEF AnswerOf
<1>6. Framed(s, Left, form, call.id)  BY <1>1, <1>5 DEF AnswerContract
<1> DEFINE w == ServerWrites(form, call.id, Left)
           others == ServerWrites(form, call.id, Tail(Left))
           k == Len(w) - Len(others)
<1>7. w \in Octets /\ others \in Octets /\ k \in 1 .. Len(w)
      /\ SubSeq(w, k + 1, Len(w)) = others
  BY <1>6 DEF Framed, FramedAs
<1>8. PICK m \in UNION {e.message : e \in Decode(w)} :
        /\ m.id = call.id
        /\ Proper(s, Len(Left) = 1, [tag |-> m.protoop, controls |-> m.controls], Head(Left))
        /\ \A n \in 0 .. Len(w) :
            Decode(SubSeq(w, 1, n)) = IF n < k THEN {}
                                      ELSE {[message |-> {m}, rest |-> SubSeq(w, k + 1, n)]}
  BY <1>6 DEF Framed, FramedAs
<1>9. Flight(w)  BY <1>3
<1> HIDE DEF w, others, k
<1>10. PICK p \in 0 .. Len(w) : \E n \in p .. Len(w) :
         buf = SubSeq(w, 1, p) /\ net = SubSeq(w, p + 1, n) /\ (~eof => n = Len(w))
  BY <1>9 DEF Flight, Split
<1>11. PICK n \in p .. Len(w) :
         buf = SubSeq(w, 1, p) /\ net = SubSeq(w, p + 1, n) /\ (~eof => n = Len(w))
  BY <1>10
<1>12. Decode(buf) = IF p < k THEN {} ELSE {[message |-> {m}, rest |-> SubSeq(w, k + 1, p)]}
  BY <1>8, <1>11
<1>13. ~(p < k) /\ d = [message |-> {m}, rest |-> SubSeq(w, k + 1, p)]  BY <1>12
<1>14. k \in 0 .. p
  <2>1. Len(w) \in Nat  BY <1>7, LenProperties DEF Octets
  <2> QED  BY <1>7, <1>13, <2>1
<1>15. d.message = {m} /\ d.rest = SubSeq(w, k + 1, p)  BY <1>13
<1>16. d.rest \in Octets /\ Split(others, d.rest, net, eof)
  BY <1>7, <1>11, <1>14, <1>15, FlightDecoded
<1> QED  BY <1>2, <1>5, <1>8, <1>15, <1>16 DEF others

\* The message m of the answer goes to the caller.
LEMMA Taking ==
    ASSUME IInv, sent # <<>>, NEW s \in DOMAIN Responses, AnswerOf(s), Left \in Remainders(s),
           NEW reply, NEW done \in SUBSET map,
           Proper(s, Len(Left) = 1, reply, Head(Left)),
           done = {f \in map : ~f.search \/ reply.tag.id = 5},
           rx' = Append(rx, reply), map' = map \ done,
           NEW form \in Forms, buf' \in Octets,
           Split(ServerWrites(form, call.id, Tail(Left)), buf', net', eof'),
           UNCHANGED <<modifiers, call, ops, given, asked>>, UNCHANGED <<null, sent>>,
           UNCHANGED <<driver, shut, net, wire, eof>>, UNCHANGED blocking,
           driver = "running"
    PROVE  IInv'
<1>1. /\ call.kind \in Answerable /\ wire = <<>> /\ ops = <<>> /\ asked = Unasked
      /\ net \in Octets
  BY DEF IInv, AnswerInv, WireInv, ChannelInv, AskedInv, FlightInv
<1>2. Left # <<>>
  <2>1. Len(Left) >= 1  BY RemaindersTail
  <2> QED  BY <2>1
<1>3. /\ Len(sent) \in Nat /\ Len(rx) \in Nat /\ Len(rx) < Len(sent)
      /\ Len(Left) = Len(sent) - Len(rx)
      /\ Head(Left) = sent[Len(rx) + 1]
      /\ Tail(Left) = SubSeq(sent, (Len(rx) + 1) + 1, Len(sent))
  BY <1>2, LeftFacts
<1>4. /\ IsSeq(rx') /\ Len(rx') = Len(rx) + 1
      /\ \A i \in 1 .. Len(rx) : rx'[i] = rx[i]
      /\ rx'[Len(rx) + 1] = reply
  <2> DEFINE S == {rx[i] : i \in DOMAIN rx} \cup {reply}
  <2>1. rx \in Seq({rx[i] : i \in DOMAIN rx})  BY AnswerSeqs DEF IInv
  <2>2. rx \in Seq(S) /\ reply \in S  BY <2>1, SeqMonotonic
  <2> HIDE DEF S
  <2>3. /\ rx' \in Seq(S) /\ Len(rx') = Len(rx) + 1
        /\ \A i \in 1 .. Len(rx) : rx'[i] = rx[i]
        /\ rx'[Len(rx) + 1] = reply
    BY <2>2, AppendProperties
  <2> QED  BY <2>3, OwnElements
<1>5. Left' = Tail(Left)  BY <1>3, <1>4 DEF Left
<1>6. Len(Left) = 1 <=> Len(rx') = Len(sent)  BY <1>3, <1>4
<1>7. ModifiersInv' /\ CallInv' /\ ChannelInv' /\ WireInv' /\ AskedInv'
  BY <1>1 DEF IInv, ModifiersInv, CallInv, ChannelInv, WireInv, AskedInv
<1>8. AnswerInv'
  <2>1. Left' = <<>> \/ Left' \in Remainders(s)  BY <1>5, RemaindersTail
  <2>2. ASSUME NEW i \in 1 .. Len(rx') PROVE Proper(s, i = Len(sent'), rx'[i], sent'[i])
    <3>1. i \in 1 .. Len(rx) \/ i = Len(rx) + 1  BY <1>3, <1>4
    <3>2. CASE i \in 1 .. Len(rx)  BY <1>4, <3>2 DEF AnswerOf
    <3>3. CASE i = Len(rx) + 1
      <4>1. rx'[i] = reply /\ sent[i] = Head(Left) /\ (i = Len(sent') <=> Len(Left) = 1)
        BY <1>3, <1>4, <1>6, <3>3
      <4> QED  BY <4>1 DEF Proper
    <3> QED  BY <3>1, <3>2, <3>3
  <2>3. AnswerOf(s)'  BY <2>1, <2>2 DEF AnswerOf
  <2>4. Len(rx') <= Len(sent')  BY <1>3, <1>4
  <2> QED  BY <1>1, <1>4, <2>3, <2>4 DEF IInv, AnswerInv
<1>9. MapInv'
  <2> DEFINE F == [id |-> call.id, search |-> call.kind \in Streams]
  <2>1. map = {F}  BY <1>1, <1>3 DEF IInv, MapInv, Waiting
  <2>2. F.search <=> s = "search"  BY DEF AnswerOf
  <2>3. s # "search" => Len(Left) = 1
    <3>1. ASSUME s # "search" PROVE Len(Left) = 1
      <4>1. Len(sent) = 1  BY <3>1 DEF AnswerOf
      <4>2. \A k, l \in Nat : k < l /\ l = 1 => l - k = 1  OBVIOUS
      <4> QED  BY <1>3, <4>1, <4>2
    <3> QED  BY <3>1
  <2>4. s = "search" => (reply.tag.id = 5 <=> Len(Left) = 1)  BY DEF Proper
  <2>5. F \in done <=> (~F.search \/ reply.tag.id = 5)  BY <2>1
  <2> HIDE DEF F
  <2>6. F \in done <=> Len(Left) = 1  BY <2>2, <2>3, <2>4, <2>5
  <2>7. map' = IF Len(Left) = 1 THEN {} ELSE {F}  BY <2>1, <2>6
  <2>8. Waiting' <=> Len(Left) # 1
    <3>1. Len(rx') < Len(sent') <=> Len(Left) # 1  BY <1>3, <1>4
    <3>2. sent' # <<>> /\ ops' = <<>> /\ driver' = "running" /\ call'.kind \in Answerable
      BY <1>1
    <3> QED  BY <3>1, <3>2 DEF Waiting
  <2>9. F = [id |-> call'.id, search |-> call'.kind \in Streams]  BY DEF F
  <2> QED  BY <2>7, <2>8, <2>9 DEF MapInv
<1>10. FlightInv'
  <2>1. Flight(ServerWrites(form, call.id, Left))'  BY <1>5 DEF Flight
  <2> QED  BY <1>1, <2>1 DEF FlightInv
<1>11. NullInv' /\ BoolInv'  BY DEF IInv, NullInv, BoolInv
<1>12. DriverInv' /\ PendingInv'  BY DEF IInv, DriverInv, PendingInv
<1> QED  BY <1>7, <1>8, <1>9, <1>10, <1>11, <1>12 DEF IInv

\* A notice, which belongs to no request, is dropped.
LEMMA Dropping ==
    ASSUME IInv, sent = <<>>, buf' = <<>>, net = <<>>, map' = map, driver = "running",
           UNCHANGED <<modifiers, call, ops, given, asked>>, UNCHANGED <<null, rx, sent>>,
           UNCHANGED <<driver, shut, net, wire, eof>>, UNCHANGED blocking
    PROVE  IInv'
<1>1. ModifiersInv' /\ CallInv' /\ ChannelInv' /\ WireInv' /\ AskedInv'
  BY DEF IInv, ModifiersInv, CallInv, ChannelInv, WireInv, AskedInv, Carries
<1>2. MapInv' /\ PendingInv'  BY DEF IInv, MapInv, Waiting, PendingInv
<1>3. AnswerInv'  BY DEF IInv, AnswerInv
<1>4. FlightInv'
  <2>1. <<>> \in Octets  BY EmptySeq DEF Octets
  <2> QED  BY <2>1 DEF FlightInv, Quiet
<1>5. NullInv' /\ BoolInv' /\ DriverInv'  BY DEF IInv, NullInv, BoolInv, DriverInv
<1> QED  BY <1>1, <1>2, <1>3, <1>4, <1>5 DEF IInv

\* A whole notice is in the buffer when something is decoded and nothing was sent.
LEMMA NoticeOnly ==
    ASSUME IInv, AnswerContract, sent = <<>>, NEW d \in Decode(buf)
    PROVE  /\ \E m : d.message = {m} /\ m.id = 0
           /\ d.rest = <<>> /\ net = <<>>
<1>1. ~Quiet
  <2>1. buf = <<>> => Decode(buf) = {}  BY DEF AnswerContract
  <2> QED  BY <2>1 DEF Quiet
<1>2. PICK form \in Forms : Flight(NoticeOf(form))  BY <1>1 DEF IInv, FlightInv
<1> DEFINE w == NoticeOf(form)
<1>3. /\ w \in Octets
      /\ \A n \in 0 .. Len(w) - 1 : Decode(SubSeq(w, 1, n)) = {}
      /\ \E m \in UNION {e.message : e \in Decode(w)} :
            m.id = 0 /\ Decode(w) = {[message |-> {m}, rest |-> <<>>]}
  BY DEF AnswerContract, Noticed
<1>4. Split(w, buf, net, eof)  BY <1>2 DEF Flight
<1> HIDE DEF w
<1>5. PICK p \in 0 .. Len(w) : \E n \in p .. Len(w) :
        buf = SubSeq(w, 1, p) /\ net = SubSeq(w, p + 1, n)
  BY <1>4 DEF Split
<1>6. PICK n \in p .. Len(w) : buf = SubSeq(w, 1, p) /\ net = SubSeq(w, p + 1, n)
  BY <1>5
<1>7. Len(w) \in Nat  BY <1>3, LenProperties DEF Octets
<1>8. p = Len(w)
  <2>1. p \notin 0 .. Len(w) - 1  BY <1>3, <1>6
  <2> QED  BY <1>7, <2>1
<1>9. buf = w  BY <1>3, <1>6, <1>8, SubSeqFull DEF Octets
<1>10. net = <<>>
  <2>1. n \in Int /\ p + 1 \in Int /\ n < p + 1  BY <1>7, <1>8
  <2> QED  BY <1>6, <2>1, SubSeqEmpty
<1> QED  BY <1>3, <1>9, <1>10

\* What DrvReceive does with the message m.
Handled(d, m) ==
    LET to == {f \in map : f.id = m.id}
        done == {f \in to : Completes(f, m.protoop)}
    IN  IF d.message = {} \/ Unexpected(to, m)
        THEN Stopped("failed")
        ELSE /\ buf' = d.rest
             /\ rx' = IF to = {} THEN rx ELSE Delivered(rx, m)
             /\ map' = map \ done
             /\ UNCHANGED <<caller, null, sent, driver, shut, net, wire, eof, blocking>>

LEMMA DrvReceiveStep ==
    ASSUME IInv, AnswerContract, DrvReceive
    PROVE  IInv'
<1>1. driver = "running"  BY DEF DrvReceive, Polled
<1>2. PICK d \in Decode(buf) : Handled(d, CHOOSE x \in d.message : TRUE)
  BY DEF DrvReceive, Handled
<1>3. CASE sent # <<>>
  <2>1. PICK s \in DOMAIN Responses, form \in Forms, m \in d.message :
            /\ AnswerOf(s) /\ Left \in Remainders(s)
            /\ d.message = {m} /\ m.id = call.id
            /\ Proper(s, Len(Left) = 1, [tag |-> m.protoop, controls |-> m.controls], Head(Left))
            /\ d.rest \in Octets
            /\ Split(ServerWrites(form, call.id, Tail(Left)), d.rest, net, eof)
    BY <1>3, NextMessage
  <2> DEFINE reply == [tag |-> m.protoop, controls |-> m.controls]
             to == {f \in map : f.id = m.id}
             done == {f \in to : Completes(f, m.protoop)}
             F == [id |-> call.id, search |-> call.kind \in Streams]
  <2>2. Left # <<>>
    <3>1. Len(Left) >= 1  BY <2>1, RemaindersTail
    <3> QED  BY <3>1
  <2>3. Len(rx) < Len(sent)  BY <2>2, LeftFacts
  <2>4. map = {F}
    <3>1. call.kind \in Answerable /\ ops = <<>>  BY <1>3 DEF IInv, AnswerInv, ChannelInv
    <3> QED  BY <1>1, <2>3, <3>1 DEF IInv, MapInv, Waiting
  <2>5. to = {F}  BY <2>1, <2>4
  <2>6. reply.tag = m.protoop /\ reply.controls = m.controls  OBVIOUS
  <2>7. ~Unexpected(to, m)
    <3> SUFFICES ASSUME NEW f \in to, f.search
                 PROVE  SearchItem(m.protoop) /\ (m.protoop.id = 5 => ResultOf(m.protoop) # {})
      BY DEF Unexpected
    <3>0. F.search  BY <2>5
    <3>1. s = "search"  BY <2>1, <3>0 DEF AnswerOf
    <3>2. Proper(s, Len(Left) = 1, reply, Head(Left))  BY <2>1
    <3> QED  BY <2>6, <3>1, <3>2 DEF Proper, SearchItem
  <2>8. m = CHOOSE x \in d.message : TRUE  BY <2>1
  <2>9. /\ buf' = d.rest /\ rx' = IF to = {} THEN rx ELSE Delivered(rx, m)
        /\ map' = map \ done
        /\ UNCHANGED <<caller, null, sent, driver, shut, net, wire, eof, blocking>>
    <3>1. Handled(d, m)  BY <1>2, <2>8
    <3>2. d.message # {}  BY <2>1
    <3> QED  BY <2>7, <3>1, <3>2 DEF Handled
  <2>10. rx' = Append(rx, reply)  BY <2>5, <2>9 DEF Delivered
  <2>11. done = {f \in map : ~f.search \/ reply.tag.id = 5}
    BY <2>4, <2>5, <2>6 DEF Completes
  <2>12. done \in SUBSET map  OBVIOUS
  <2>13. Proper(s, Len(Left) = 1, reply, Head(Left))  BY <2>1
  <2>14. /\ UNCHANGED <<modifiers, call, ops, given, asked>> /\ UNCHANGED <<null, sent>>
         /\ UNCHANGED <<driver, shut, net, wire, eof>> /\ UNCHANGED blocking
    BY <2>9 DEF caller
  <2>15. /\ buf' \in Octets
         /\ Split(ServerWrites(form, call.id, Tail(Left)), buf', net', eof')
    BY <2>1, <2>9
  <2>16. map' = map \ done  BY <2>9
  <2> HIDE DEF reply, to, done, F
  <2> QED  BY <1>1, <1>3, <2>1, <2>10, <2>11, <2>12, <2>13, <2>14, <2>15, <2>16, Taking
<1>4. CASE sent = <<>>
  <2>1. PICK m : d.message = {m} /\ m.id = 0  BY <1>4, NoticeOnly
  <2>2. d.rest = <<>> /\ net = <<>>  BY <1>4, NoticeOnly
  <2>3. {f \in map : f.id = m.id} = {}
    <3>1. CASE Waiting
      <4>1. call \in [kind : Answerable \cup Silent, id : Ids]
        BY <3>1 DEF IInv, CallInv, Waiting, NoCall, Answerable, Streams
      <4>2. call.id \in Ids  BY <4>1
      <4>3. \A f \in map : f.id = call.id  BY <3>1 DEF IInv, MapInv
      <4> QED  BY <2>1, <4>2, <4>3, IdsAssumption
    <3>2. CASE ~Waiting  BY <3>2 DEF IInv, MapInv
    <3> QED  BY <3>1, <3>2
  <2>4. m = CHOOSE x \in d.message : TRUE  BY <2>1
  <2>5. /\ buf' = d.rest /\ rx' = rx /\ map' = map
        /\ UNCHANGED <<caller, null, sent, driver, shut, net, wire, eof, blocking>>
    <3>1. Handled(d, m)  BY <1>2, <2>4
    <3>2. d.message # {}  BY <2>1
    <3> QED  BY <2>3, <3>1, <3>2 DEF Handled, Unexpected
  <2>6. /\ UNCHANGED <<modifiers, call, ops, given, asked>> /\ UNCHANGED <<null, rx, sent>>
        /\ UNCHANGED <<driver, shut, net, wire, eof>> /\ UNCHANGED blocking
        /\ buf' = <<>> /\ map' = map
    BY <2>2, <2>5 DEF caller
  <2> QED  BY <1>1, <1>4, <2>2, <2>6, Dropping
<1> QED  BY <1>3, <1>4

-----------------------------------------------------------------------------
(* The server and the network *)

LEMMA WireFacts ==
    ASSUME IInv, wire # <<>>
    PROVE  /\ ServerReads(wire) = WithLeft(asked) /\ sent = <<>> /\ rx = <<>> /\ ops = <<>>
           /\ driver = "running" /\ Quiet
           /\ IF call = NoCall THEN Subject(WithLeft(asked).op) \in Silent
              ELSE WithLeft(asked).id = call.id /\ Fits(call.kind, WithLeft(asked).op)
<1>1. WireInv /\ AnswerInv /\ ChannelInv /\ FlightInv  BY DEF IInv
<1>2. /\ ServerReads(wire) = WithLeft(asked) /\ sent = <<>> /\ ~eof /\ driver = "running"
      /\ IF call = NoCall THEN Subject(WithLeft(asked).op) \in Silent
         ELSE WithLeft(asked).id = call.id /\ Fits(call.kind, WithLeft(asked).op)
  BY <1>1 DEF WireInv, Carries
<1>3. rx = <<>>  BY <1>1, <1>2, AnswerSeqs
<1>4. ops = <<>>  BY <1>1 DEF ChannelInv
<1>5. Quiet  BY <1>1, <1>2 DEF FlightInv
<1> QED  BY <1>2, <1>3, <1>4, <1>5

LEMMA ServeStep ==
    ASSUME IInv, AnswerContract, Serve
    PROVE  IInv'
<1>1. /\ wire # <<>> /\ ~eof /\ wire' = <<>> /\ asked' = Unasked
      /\ UNCHANGED <<modifiers, call, ops, given>> /\ UNCHANGED <<map, null, rx>>
      /\ UNCHANGED <<driver, shut, buf>> /\ UNCHANGED blocking
  BY DEF Serve
<1>2. /\ ServerReads(wire) = WithLeft(asked) /\ sent = <<>> /\ rx = <<>> /\ ops = <<>>
      /\ driver = "running" /\ Quiet
      /\ IF call = NoCall THEN Subject(WithLeft(asked).op) \in Silent
         ELSE WithLeft(asked).id = call.id /\ Fits(call.kind, WithLeft(asked).op)
  BY <1>1, WireFacts
<1>3. ModifiersInv' /\ CallInv' /\ ChannelInv' /\ WireInv' /\ AskedInv'
  BY <1>1, <1>2 DEF IInv, ModifiersInv, CallInv, ChannelInv, WireInv, AskedInv
<1>4. NullInv' /\ DriverInv'
  BY <1>1, <1>2 DEF IInv, NullInv, DriverInv
<1>5. CASE Subject(WithLeft(asked).op) \in DOMAIN Responses
  <2>0. PICK s \in DOMAIN Responses : s = Subject(WithLeft(asked).op)  BY <1>5
  <2>1. PICK ms \in Responses[s], form \in Forms :
            net' = ServerWrites(form, WithLeft(asked).id, ms) /\ sent' = ms /\ eof' = eof
    BY <1>2, <1>5, <2>0 DEF Serve
  <2>2. s \notin Silent  BY <2>0, ResponsesAssumption DEF Silent
  <2>3. WithLeft(asked).id = call.id /\ Fits(call.kind, WithLeft(asked).op) /\ call # NoCall
    BY <1>2, <2>0, <2>2
  <2>4. call \in [kind : Answerable \cup Silent, id : Ids]  BY <2>3 DEF IInv, CallInv
  <2>5. call.kind \in Answerable /\ call.id \in Ids  BY <2>0, <2>2, <2>3, <2>4 DEF Fits
  <2>6. /\ s = "search" <=> call.kind \in Streams
        /\ call.kind = "ntlm" => s = "spnego"
    BY <2>0, <2>3 DEF Fits
  <2>8. IsSeq(ms) /\ ms # <<>> /\ (s # "search" => Len(ms) = 1)
    BY <2>0, <2>1, ResponsesAssumption DEF IsSeq
  <2>9. Len(ms) \in Nat /\ Len(ms) >= 1
    <3>1. Len(ms) \in Nat /\ Len(ms) # 0  BY <2>8, EmptySeq, LenProperties DEF IsSeq
    <3> QED  BY <3>1
  <2>10. SubSeq(ms, 1, Len(ms)) = ms  BY <2>8, SubSeqFull DEF IsSeq
  <2>11. Left' = ms  BY <1>1, <1>2, <2>1, <2>10 DEF Left
  <2>12. ms \in Remainders(s)
    <3>1. 1 \in 1 .. Len(ms)  BY <2>9
    <3>2. ms \in {SubSeq(ms, i, Len(ms)) : i \in 1 .. Len(ms)}  BY <2>10, <3>1
    <3> QED  BY <2>1, <3>2 DEF Remainders
  <2>13. AnswerInv'
    <3>1. IsSeq(<<>>)  BY EmptySeq, OwnElements
    <3>2. rx' = <<>> /\ Len(rx') = 0  BY <1>1, <1>2
    <3>3. AnswerOf(s)'  BY <1>1, <2>1, <2>6, <2>8, <2>11, <2>12, <3>2 DEF AnswerOf
    <3>4. Len(rx') <= Len(sent')  BY <2>1, <2>9, <3>2
    <3>5. IsSeq(rx') /\ IsSeq(sent')  BY <2>1, <2>8, <3>1, <3>2
    <3> QED  BY <1>1, <2>5, <3>3, <3>4, <3>5 DEF AnswerInv, IsSeq
  <2>14. FlightInv'
    <3>1. Framed(s, ms, form, call.id)  BY <2>5, <2>12 DEF AnswerContract
    <3>2. net' \in Octets  BY <2>1, <2>3, <3>1 DEF Framed, FramedAs
    <3>3. buf' = <<>> /\ <<>> \in Octets  BY <1>1, <1>2, EmptySeq DEF Quiet, Octets
    <3>4. Split(net', <<>>, net', eof')  BY <3>2, FlightBegins
    <3>5. net' = ServerWrites(form, call'.id, Left')  BY <1>1, <2>1, <2>3, <2>11
    <3>6. Flight(ServerWrites(form, call.id, Left))'  BY <3>3, <3>4, <3>5 DEF Flight
    <3> QED  BY <2>1, <2>8, <3>2, <3>3, <3>6 DEF FlightInv
  <2>15. MapInv'
    <3>1. Waiting  BY <1>2, <2>5 DEF Waiting
    <3>2. Len(rx') < Len(sent')  BY <1>1, <1>2, <2>1, <2>9
    <3>3. Waiting'  BY <1>1, <1>2, <2>5, <3>2 DEF Waiting
    <3> QED  BY <1>1, <3>1, <3>3 DEF IInv, MapInv
  <2>16. PendingInv'  BY <2>1, <2>8 DEF PendingInv
  <2>17. BoolInv'  BY <1>1, <2>1, Zenon DEF IInv, BoolInv
  <2> QED  BY <1>3, <1>4, <2>13, <2>14, <2>15, <2>16, <2>17 DEF IInv
<1>6. CASE Subject(WithLeft(asked).op) \notin DOMAIN Responses
  <2>1. eof' = (WithLeft(asked).op.op # "abandon") /\ net' = net /\ sent' = sent
    BY <1>2, <1>6 DEF Serve
  <2>2. AnswerInv' /\ MapInv'
    BY <1>1, <1>2, <2>1 DEF IInv, AnswerInv, MapInv, Waiting
  <2>3. FlightInv'  BY <1>1, <1>2, <2>1 DEF IInv, FlightInv, Quiet
  <2>4. PendingInv'
    <3> SUFFICES ASSUME call.kind \in Answerable PROVE eof'
      BY <1>1 DEF PendingInv
    <3>1. call # NoCall /\ call.kind # "abandon"  BY DEF NoCall, Answerable, Streams
    <3>2. WithLeft(asked).op.op # "abandon"  BY <1>2, <3>1 DEF Fits
    <3> QED  BY <2>1, <3>2
  <2>5. BoolInv'
    <3>1. eof' \in BOOLEAN  BY <2>1
    <3>2. null' \in BOOLEAN /\ shut' \in BOOLEAN /\ blocking' \in BOOLEAN
      BY <1>1, Zenon DEF IInv, BoolInv
    <3> QED  BY <3>1, <3>2, Zenon DEF BoolInv
  <2> QED  BY <1>3, <1>4, <2>2, <2>3, <2>4, <2>5 DEF IInv
<1> QED  BY <1>5, <1>6

LEMMA CloseStep ==
    ASSUME IInv, AnswerContract, Close
    PROVE  IInv'
<1>1. /\ driver = "running" /\ ~eof /\ eof' = TRUE /\ wire' = <<>>
      /\ asked' = IF wire = <<>> THEN asked ELSE Unasked
      /\ UNCHANGED <<modifiers, call, ops, given>> /\ UNCHANGED <<map, null, rx, sent>>
      /\ UNCHANGED <<driver, shut, buf>> /\ UNCHANGED blocking
      /\ net' = <<>> \/ (wire # <<>> /\ \E form \in Forms : net' = NoticeOf(form))
  BY DEF Close, received
<1>2. ModifiersInv' /\ CallInv' /\ WireInv'
  BY <1>1 DEF IInv, ModifiersInv, CallInv, WireInv
<1>3. ChannelInv' /\ AskedInv'  BY <1>1 DEF IInv, ChannelInv, AskedInv, Carries
<1>4. MapInv' /\ PendingInv' /\ NullInv' /\ DriverInv'
  BY <1>1 DEF IInv, MapInv, Waiting, PendingInv, NullInv, DriverInv
<1>5. AnswerInv'  BY <1>1 DEF IInv, AnswerInv, AnswerOf, Left
<1>6. BoolInv'  BY <1>1, Zenon DEF IInv, BoolInv
<1>7. FlightInv'
  <2>1. <<>> \in Octets /\ buf \in Octets  BY EmptySeq DEF Octets, IInv, FlightInv
  <2>2. CASE sent # <<>>
    <3>1. net' = <<>>  BY <1>1, <2>2, WireFacts
    <3>2. PICK form \in Forms : Flight(ServerWrites(form, call.id, Left))
      BY <2>2 DEF IInv, FlightInv
    <3>3. ServerWrites(form, call.id, Left) \in Octets  BY <2>2, LeftOctets
    <3>4. Split(ServerWrites(form, call.id, Left), buf, <<>>, TRUE)
      BY <3>2, <3>3, FlightCut DEF Flight
    <3>5. Flight(ServerWrites(form, call.id, Left))'  BY <1>1, <3>1, <3>4 DEF Flight, Left
    <3> QED  BY <1>1, <2>1, <2>2, <3>1, <3>5 DEF FlightInv
  <2>3. CASE sent = <<>>
    <3>1. Quiet  BY <1>1, <2>3 DEF IInv, FlightInv
    <3>2. CASE net' = <<>>  BY <1>1, <2>1, <2>3, <3>1, <3>2 DEF FlightInv, Quiet
    <3>3. ASSUME NEW form \in Forms, net' = NoticeOf(form) PROVE FlightInv'
      <4>1. NoticeOf(form) \in Octets  BY DEF AnswerContract, Noticed
      <4>2. Split(NoticeOf(form), <<>>, NoticeOf(form), TRUE)  BY <4>1, FlightBegins
      <4>3. Flight(NoticeOf(form))'  BY <1>1, <3>1, <3>3, <4>2 DEF Flight, Quiet
      <4> QED  BY <1>1, <2>1, <2>3, <3>3, <4>1, <4>3 DEF FlightInv
    <3> QED  BY <1>1, <3>2, <3>3
  <2> QED  BY <2>2, <2>3
<1> QED  BY <1>2, <1>3, <1>4, <1>5, <1>6, <1>7 DEF IInv

-----------------------------------------------------------------------------
(* The invariant *)

LEMMA Initially ==
    ASSUME Init
    PROVE  IInv
<1> USE DEF Init
<1>1. ModifiersInv
  <2>1. {} \in ControlsOrNone /\ {} \in OptionsOrNone  BY DEF ControlsOrNone, OptionsOrNone
  <2>2. Raw({}) = {}  BY DEF Raw
  <2> QED  BY <2>1, <2>2 DEF ModifiersInv, NothingGiven, OrElse
<1>2. CallInv /\ ChannelInv /\ WireInv /\ AskedInv
  BY DEF CallInv, ChannelInv, WireInv, AskedInv
<1>3. call.kind = "none"  BY DEF NoCall
<1>4. ~(call.kind \in Answerable) /\ ~(call.kind \in Silent)
  BY <1>3 DEF Answerable, Silent, Streams
<1>5. MapInv /\ PendingInv  BY <1>4 DEF MapInv, Waiting, PendingInv
<1>6. AnswerInv
  <2>1. IsSeq(<<>>)  BY EmptySeq, OwnElements
  <2> QED  BY <2>1 DEF AnswerInv, IsSeq
<1>7. FlightInv
  <2>1. <<>> \in Octets  BY EmptySeq DEF Octets
  <2> QED  BY <2>1 DEF FlightInv, Quiet
<1>8. NullInv  BY <1>4 DEF NullInv
<1>9. DriverInv  BY DEF DriverInv
<1>10. BoolInv  BY DEF BoolInv
<1> QED  BY <1>1, <1>2, <1>5, <1>6, <1>7, <1>8, <1>9, <1>10 DEF IInv

LEMMA Inductive ==
    ASSUME Contract, IInv, [Next]_vars
    PROVE  IInv'
<1>0. RequestContract /\ AnswerContract  BY DEF Contract
<1>1. CASE with_controls \/ with_search_options  BY <1>1, ModifiersStep
<1>2. CASE Bind \/ Compare \/ Delete \/ ModifyDn \/ Extended \/ Add \/ Modify
  BY <1>0, <1>2, SingleStep
<1>3. CASE sasl_external_bind \/ sasl_ntlm_bind \/ Unbind \/ Abandon
  BY <1>0, <1>3, OtherStep
<1>4. CASE Search  BY <1>0, <1>4, SearchStep
<1>5. CASE ByUrl  BY <1>0, <1>5, ByUrlStep
<1>6. CASE Return  BY <1>0, <1>6, ReturnStep
<1>7. CASE StreamStarts  BY <1>7, StreamStartsStep
<1>8. CASE StreamNext  BY <1>0, <1>8, StreamNextStep
<1>9. CASE NtlmContinue  BY <1>9, NtlmContinueStep
<1>10. CASE ReturnError  BY <1>10, ReturnErrorStep
<1>11. CASE DrvSend  BY <1>0, <1>11, DrvSendStep
<1>12. CASE DrvRead  BY <1>0, <1>12, DrvReadStep
<1>13. CASE DrvReceive  BY <1>0, <1>13, DrvReceiveStep
<1>14. CASE DrvEof  BY <1>0, <1>14, DrvEofStep
<1>15. CASE Serve  BY <1>0, <1>15, ServeStep
<1>16. CASE Close  BY <1>0, <1>16, CloseStep
<1>17. CASE UNCHANGED vars  BY <1>17, StutterKeeps
<1> QED
  BY <1>1, <1>2, <1>3, <1>4, <1>5, <1>6, <1>7, <1>8, <1>9, <1>10, <1>11, <1>12, <1>13, <1>14,
     <1>15, <1>16, <1>17 DEF Next

LEMMA Invariance ==
    ASSUME Contract
    PROVE  Spec => []IInv
<1>1. Init => IInv  BY Initially
<1>2. IInv /\ [Next]_vars => IInv'  BY Inductive
<1> QED  BY <1>1, <1>2, PTL DEF Spec

-----------------------------------------------------------------------------
(* What the invariant says *)

LEMMA TypeOKFrom ==
    ASSUME IInv
    PROVE  TypeOK
<1>1. \A s \in {buf, net, wire} : s \in Octets
  <2>1. <<>> \in Octets  BY EmptySeq DEF Octets
  <2> QED  BY <2>1 DEF IInv, FlightInv, WireInv, Carries
<1>2. /\ call.kind \in {"none", "single", "ntlm", "search", "stream", "abandon", "unbind"}
      /\ call.id \in Ids \cup {0}
  <2>1. CASE call = NoCall  BY <2>1 DEF NoCall
  <2>2. CASE call \in [kind : Answerable \cup Silent, id : Ids]
    BY <2>2 DEF Answerable, Streams, Silent
  <2> QED  BY <2>1, <2>2 DEF IInv, CallInv
<1>3. Len(ops) <= 1
  <2>1. ops = <<>> \/ ops = <<ops[1]>>  BY DEF IInv, ChannelInv
  <2>2. Len(<<>>) = 0 /\ \A x : Len(<<x>>) = 1  OBVIOUS
  <2> QED  BY <2>1, <2>2
<1>4. Cardinality({}) <= 1 /\ \A x : Cardinality({x}) <= 1
  <2>1. Cardinality({}) = 0  BY FS_EmptySet
  <2>2. \A x : Cardinality({x}) = 1  BY FS_Singleton
  <2> QED  BY <2>1, <2>2
<1>5. Cardinality(map) <= 1  BY <1>4 DEF IInv, MapInv
<1>6. call = NoCall => map = {} /\ rx = <<>> /\ ~null /\ ops = <<>>  BY NoCallFacts
<1>7. driver \in {"running", "ended", "failed"}  BY DEF IInv, DriverInv
<1>8. Cardinality(modifiers.controls) <= 1 /\ Cardinality(modifiers.search_opts) <= 1
  <2>1. /\ given.controls \in ControlsOrNone
        /\ modifiers.controls = Raw(given.controls)
        /\ modifiers.search_opts \in OptionsOrNone
    BY ModifiersType DEF IInv
  <2>2. modifiers.search_opts = {} \/ \E o : modifiers.search_opts = {o}
    BY <2>1 DEF OptionsOrNone
  <2>3. given.controls = {} \/ \E cs : given.controls = {cs}  BY <2>1 DEF ControlsOrNone
  <2>4. Raw({}) = {} /\ \A cs : Raw({cs}) = {RawControls(cs)}  BY DEF Raw
  <2>5. Cardinality(modifiers.search_opts) <= 1  BY <1>4, <2>2
  <2>6. CASE given.controls = {}
    <3>1. modifiers.controls = {}  BY <2>1, <2>4, <2>6
    <3> QED  BY <1>4, <2>5, <3>1
  <2>7. ASSUME NEW cs, given.controls = {cs} PROVE Cardinality(modifiers.controls) <= 1
    <3>1. modifiers.controls = {RawControls(cs)}  BY <2>1, <2>4, <2>7
    <3> QED  BY <1>4, <3>1
  <2> QED  BY <2>3, <2>5, <2>6, <2>7
<1>9. {shut, eof, null, blocking} \subseteq BOOLEAN  BY Zenon DEF IInv, BoolInv
<1> QED  BY <1>1, <1>2, <1>3, <1>5, <1>6, <1>7, <1>8, <1>9, Zenon DEF TypeOK

LEMMA RequestIntactFrom ==
    ASSUME IInv
    PROVE  RequestIntact
BY DEF IInv, WireInv, AskedInv, Carries, RequestIntact

LEMMA ResultIntactFrom ==
    ASSUME IInv
    PROVE  ResultIntact
<1>1. /\ Len(rx) <= Len(sent) /\ (sent = <<>> => rx = <<>>)
      /\ rx \in Seq({rx[i] : i \in DOMAIN rx})
  BY AnswerSeqs DEF IInv
<1>2. ASSUME NEW i \in DOMAIN rx PROVE TakenAs(rx[i], sent[i]) = {sent[i]}
  <2>1. i \in 1 .. Len(rx)  BY <1>1, LenProperties
  <2>2. sent # <<>>
    <3>1. rx = <<>> => DOMAIN rx = {}  OBVIOUS
    <3> QED  BY <1>1, <3>1
  <2>3. PICK s \in DOMAIN Responses : AnswerOf(s)  BY <2>2 DEF IInv, AnswerInv
  <2>4. Proper(s, i = Len(sent), rx[i], sent[i])  BY <2>1, <2>3 DEF AnswerOf
  <2> QED  BY <2>4 DEF Proper
<1> QED  BY <1>1, <1>2 DEF ResultIntact

LEMMA NeverStrandedFrom ==
    ASSUME IInv, AnswerContract
    PROVE  NeverStranded
<1> SUFFICES ASSUME call # NoCall, ops = <<>>, wire = <<>>, net = <<>>, ~null, rx = <<>>, ~eof,
                    driver = "running"
             PROVE  Decode(buf) # {}
  BY DEF NeverStranded
<1>1. call \in [kind : Answerable \cup Silent, id : Ids]  BY DEF IInv, CallInv
<1>2. call.kind \notin Silent  BY DEF IInv, NullInv
<1>3. call.kind \in Answerable /\ call.id \in Ids  BY <1>1, <1>2
<1>4. sent # <<>>  BY <1>3 DEF IInv, PendingInv
<1>5. PICK s \in DOMAIN Responses : AnswerOf(s)  BY <1>4 DEF IInv, AnswerInv
<1>6. Left = sent
  <2>1. sent \in Seq({sent[i] : i \in DOMAIN sent})  BY AnswerSeqs DEF IInv
  <2>2. SubSeq(sent, 1, Len(sent)) = sent  BY <2>1, SubSeqFull
  <2>3. Len(rx) + 1 = 1  OBVIOUS
  <2> QED  BY <2>2, <2>3 DEF Left
<1>7. Left \in Remainders(s)  BY <1>4, <1>5, <1>6 DEF AnswerOf
<1>8. PICK form \in Forms : Flight(ServerWrites(form, call.id, Left))
  BY <1>4 DEF IInv, FlightInv
<1>9. Framed(s, Left, form, call.id)  BY <1>3, <1>7 DEF AnswerContract
<1> DEFINE w == ServerWrites(form, call.id, Left)
           k == Len(w) - Len(ServerWrites(form, call.id, Tail(Left)))
<1>10. w \in Octets /\ k \in 1 .. Len(w)  BY <1>9 DEF Framed, FramedAs
<1>11. PICK m : \A n \in 0 .. Len(w) :
         Decode(SubSeq(w, 1, n)) = IF n < k THEN {}
                                   ELSE {[message |-> {m}, rest |-> SubSeq(w, k + 1, n)]}
  BY <1>9 DEF Framed, FramedAs
<1>12. Split(w, buf, net, eof)  BY <1>8 DEF Flight
<1> HIDE DEF w, k
<1>13. PICK p \in 0 .. Len(w) : buf = SubSeq(w, 1, p) /\ net = SubSeq(w, p + 1, Len(w))
  BY <1>12 DEF Split
<1>14. Len(w) \in Nat /\ w \in Seq(0 .. 255)  BY <1>10, LenProperties DEF Octets
<1>15. p = Len(w)
  <2> DEFINE S == 0 .. 255
  <2>1. w \in Seq(S)  BY <1>14
  <2> HIDE DEF S
  <2>2. p + 1 \in 1 .. Len(w) + 1 /\ Len(w) \in (p + 1) - 1 .. Len(w)  BY <1>14
  <2> DEFINE i == p + 1
  <2>a. i \in 1 .. Len(w) + 1 /\ Len(w) \in i - 1 .. Len(w) /\ net = SubSeq(w, i, Len(w))
    BY <1>13, <2>2
  <2> HIDE DEF i
  <2>b. Len(SubSeq(w, i, Len(w))) = Len(w) - i + 1  BY <2>1, <2>a, PartFacts
  <2>3. Len(net) = Len(w) - (p + 1) + 1  BY <2>a, <2>b DEF i
  <2>4. Len(net) = 0  OBVIOUS
  <2> QED  BY <1>14, <2>3, <2>4
<1>16. ~(p < k)  BY <1>10, <1>14, <1>15
<1>17. Decode(buf) = {[message |-> {m}, rest |-> SubSeq(w, k + 1, p)]}  BY <1>11, <1>13, <1>16
<1> QED  BY <1>17

-----------------------------------------------------------------------------
(* Theorems *)

\* TypeOK: octets stay octets, and the driver keeps a sender, a reply or an answer of its own
\* only for the call under way, whatever is asked and given and wherever the connection ends
\* (Ldap::op_call, the resultmap and searchmap of LdapConnAsync::turn).
THEOREM TypesHold ==
    ASSUME Contract
    PROVE  Spec => []TypeOK
<1>1. IInv => TypeOK  BY TypeOKFrom
<1> QED  BY <1>1, Invariance, PTL

\* For any requests, controls, options and URLs, the server reads on the wire what was asked
\* with the modifiers given for it, and no sound request is refused on its way: each is taken
\* from the handle by op_call or by the clone of a Search, goes through the channel, and is
\* written unless the connection has ended.  Modifiers given for another operation reach a
\* server in one way only: options that an operation other than a Search left with the handle
\* go out with a Search for which none were given (Ldap::op_call, streaming_search_with,
\* get_url_params, LdapConnAsync::turn).
THEOREM RequestsIntact ==
    ASSUME Contract
    PROVE  Spec => []RequestIntact
<1>1. IInv => RequestIntact  BY RequestIntactFrom
<1> QED  BY <1>1, Invariance, PTL

\* For any answers, cut anywhere by the network, the caller takes every reply for the message
\* the server sent, in the order of the server: the decoder waits for a whole message and
\* leaves what is behind it, and the driver appends to the channel of the call with its id
\* (LdapCodec::decode, LdapConnAsync::turn, SearchStream::next_inner).
THEOREM ResultsIntact ==
    ASSUME Contract
    PROVE  Spec => []ResultIntact
<1>1. IInv => ResultIntact  BY ResultIntactFrom
<1> QED  BY <1>1, Invariance, PTL

\* No answer and no notice, however cut, makes the driver fail: it ends with the connection
\* or with the Unbind it has written (decode_inner, the responses in LdapConnAsync::turn).
THEOREM Understood ==
    ASSUME Contract
    PROVE  Spec => []DriverUnderstands
<1>1. IInv => DriverUnderstands  BY DEF IInv, DriverInv, DriverUnderstands
<1> QED  BY <1>1, Invariance, PTL

\* A call that is under way has its request or an answer on the way, complete in the buffer or
\* in its channel, or the connection has ended; also when the driver stands still between the
\* operations of an LdapConn (LdapConnAsync::turn, block_on in LdapConn).
THEOREM NoneStranded ==
    ASSUME Contract
    PROVE  Spec => []NeverStranded
<1>1. IInv => NeverStranded
  <2>1. AnswerContract  BY DEF Contract
  <2> QED  BY <2>1, NeverStrandedFrom
<1> QED  BY <1>1, Invariance, PTL
=============================================================================
