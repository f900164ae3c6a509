------------------------------ MODULE SaslLayer ------------------------------
(***************************************************************************)
(* The GSSAPI bind (Ldap::gssapi_bind, ldap.rs) and the security layer it  *)
(* switches on in the codec (LdapCodec, protocol.rs), in a build with the  *)
(* gssapi feature.                                                         *)
(*                                                                         *)
(* The bind takes three round trips.  After the last one the binding task  *)
(* sets sasl_param and then client_ctx, both shared with the codec, which  *)
(* the driver uses meanwhile for the requests of other handles; from then  *)
(* on messages travel in tokens, each with its length in front.  The       *)
(* server cuts what it sends into tokens, and the network into reads.      *)
(*                                                                         *)
(* An LDAP message is two units long, and so is the length of a token: a   *)
(* unit stands for octets that arrive together, and two of them are enough *)
(* to be cut.  Wrapping makes what is sent longer, by Overhead units, and  *)
(* it is then that the server measures it; of what is received, which      *)
(* nobody measures, the added octets are counted with those they wrap.     *)
(* The server, the network and the Kerberos library are external.  A       *)
(* connection is bound at most once.                                       *)
(***************************************************************************)
EXTENDS Naturals, Sequences

CONSTANTS
    MaxOps,      \* bound on requests apart from the bind and on notifications
    MaxReplies,  \* bound on the messages with which the server answers one
    Overhead,    \* the units that gss_wrap adds to a request
    TokenSizes,  \* the lengths of the tokens the server may make, in units
    MaxSizes,    \* the maximal message sizes it may announce; 0 for none
    Masks        \* the sets of security layers it may offer

ASSUME BoundsAssumption == MaxOps \in Nat /\ MaxReplies \in Nat \ {0}
ASSUME OverheadAssumption == Overhead \in Nat
ASSUME TokenSizesAssumption == TokenSizes \subseteq Nat \ {0}
ASSUME MaxSizesAssumption == 0 \in MaxSizes /\ MaxSizes \subseteq Nat
ASSUME MasksAssumption == Masks \subseteq SUBSET {"none", "privacy"}

VARIABLES
    has_tls,  \* Ldap.has_tls; chosen initially
    bind,     \* how far gssapi_bind has got, or how it has returned
    reply,    \* the answer dispatched to it and not yet taken
    \* shared by the handles and the codec
    wrap,     \* sasl_param.0
    send_max, \* sasl_param.1
    ctx,      \* client_ctx is Some
    \* the driver and its codec
    drv,      \* running, or why it ended
    buf,      \* the read buffer of the Framed
    decoded,  \* LdapCodec.has_decoded_data
    starved,  \* decode() has asked for more input
    got,      \* the numbers of the messages decoded; 0 for one never sent
    \* the network and the server
    up,       \* requests on their way
    ops,      \* the number of requests apart from the bind, and of notifications
    wire,     \* units on their way to us
    layer,    \* the server has switched its layer on
    offer,    \* what it said in its second answer
    ans,      \* what its messages say, by number
    pend,     \* what it has still to put into tokens
    \* history
    untidy,   \* the input was cut in a way that the codec does not provide for
    torn,     \* something came between the two ends of the switch
    misform   \* the server got a request it cannot understand, and stopped

params == <<wrap, send_max, ctx>>
codec == <<buf, decoded, starved, got>>
server == <<layer, offer, ans, pend>>
history == <<untidy, torn, misform>>
vars == <<has_tls, bind, reply, params, drv, codec, up, ops, wire, server, history>>

-----------------------------------------------------------------------------
(* Octets *)

HeaderSize == 2
MessageSize == 2

\* end marks the last unit of a token: it held one message, or many.
Plain(m, i) == [form |-> "plain", m |-> m, i |-> i, end |-> "no"]
Encoded(m) == <<Plain(m, 1), Plain(m, 2)>>
Header(n) == [i \in 1..HeaderSize |-> [form |-> "length", m |-> n, i |-> i, end |-> "no"]]

\* gss_wrap, with the length in front, and gss_unwrap.
Wrapped(us) ==
    Header(Len(us)) \o
    [k \in 1..Len(us) |->
       [us[k] EXCEPT !.form = "wrapped",
                     !.end = IF k < Len(us) THEN "no"
                             ELSE IF us[1].m = us[k].m THEN "one" ELSE "many"]]
Unwrapped(us) == [k \in 1..Len(us) |-> Plain(us[k].m, us[k].i)]

From(s, k) == SubSeq(s, k, Len(s))
Least(a, b) == IF a < b THEN a ELSE b

\* decode_inner: None for an incomplete message, a message, or, for octets
\* that are none, whatever their values make of them.
Parsed(res, m, rest) == [res |-> res, m |-> m, rest |-> rest]
DecodeInner(b) ==
    IF b = <<>> \/ (Len(b) = 1 /\ b[1] = Plain(b[1].m, 1))
    THEN {Parsed("none", 0, b)}
    ELSE IF Len(b) >= MessageSize /\ SubSeq(b, 1, MessageSize) = Encoded(b[1].m)
    THEN {Parsed("message", b[1].m, From(b, MessageSize + 1))}
    ELSE {Parsed("garbled", 0, b), Parsed("panicked", 0, b), Parsed("none", 0, b),
          Parsed("message", 0, <<>>)}

Init ==
    /\ has_tls \in BOOLEAN
    /\ bind = "idle" /\ reply = "none"
    /\ wrap = FALSE /\ send_max = 0 /\ ctx = FALSE
    /\ drv = "running" /\ buf = <<>> /\ decoded = FALSE /\ starved = TRUE /\ got = <<>>
    /\ up = <<>> /\ ops = 0 /\ wire = <<>>
    /\ layer = FALSE /\ offer = [len |-> 0, max |-> 0, mask |-> {}]
    /\ ans = <<>> /\ pend = <<>>
    /\ untidy = FALSE /\ torn = FALSE /\ misform = FALSE

-----------------------------------------------------------------------------
(* Encoder::encode and maybe_wrap, called by the driver *)

Bug_TooLarge(size) == send_max > 0 /\ size > send_max + 1
TooLarge(size) == send_max > 0 /\ size > send_max

\* What is written of a request of that size: the size is checked before the
\* request is wrapped.
SentSize(size) == IF wrap THEN size + Overhead ELSE size

\* An error ends the driver, and so does the panic at the missing context.
Encode(what, size, wants) ==
    /\ drv = "running"
    /\ drv' = IF wrap /\ ~ctx THEN "nocontext"
              ELSE IF wrap /\ TooLarge(size) THEN "toolarge" ELSE drv
    /\ up' = IF drv' # "running" THEN up
             ELSE Append(up, [wrapped |-> wrap, what |-> what, size |-> SentSize(size),
                              wants |-> wants])

\* A request of any handle.  The server may have switched its layer on, and
\* the binding task not yet its own.
Send(size) ==
    /\ ops < MaxOps
    /\ Encode("op", size, "none")
    /\ ops' = ops + 1
    /\ torn' = (torn \/ bind \in {"third", "param"})
    /\ UNCHANGED <<has_tls, bind, reply, params, codec, wire, server, untidy, misform>>

-----------------------------------------------------------------------------
(* Ldap::gssapi_bind *)

Waiting == {"first", "second", "third"}

NeededLayer == IF has_tls THEN "none" ELSE "privacy"

\* A return other than by the end of the exchange.
Returns(how) ==
    /\ bind' = how
    /\ UNCHANGED <<drv, up>>

Requests(what, wants) ==
    /\ bind' = what
    /\ Encode(what, 1, wants)

\* ClientCtx::new makes the first token, or fails.
BindBegins ==
    /\ bind = "idle"
    /\ Requests("first", "none") \/ Returns("error")
    /\ UNCHANGED <<has_tls, reply, params, codec, ops, wire, server, history>>

\* The answer to the first request: another result code than 14 is returned,
\* and step() may refuse the token.
BindSteps ==
    /\ bind = "first" /\ reply # "none"
    /\ reply' = "none"
    /\ \/ reply \in {"ok", "refused"} /\ Returns("returned")
       \/ reply \in {"bare", "more"} /\ Returns("error")
       \/ reply = "more" /\ Requests("second", "none")
    /\ UNCHANGED <<has_tls, params, codec, ops, wire, server, history>>

\* The answer to the second holds the layers offered and the maximal size.
\* The test for an appropriate layer takes the union of the mask and the needed
\* one, which is never zero: the third request is sent whatever was offered.
LayerRejected == offer.mask \cup {NeededLayer} = {}

BindChooses ==
    /\ bind = "second" /\ reply # "none"
    /\ reply' = "none"
    /\ \/ reply \in {"ok", "refused"} /\ Returns("returned")
       \/ reply \in {"bare", "more"} /\ Returns("error")
       \/ reply = "more" /\ offer.len = 0 /\ Returns("panicked")
       \/ reply = "more" /\ offer.len > 0 /\ ~LayerRejected /\ Requests("third", NeededLayer)
    /\ UNCHANGED <<has_tls, params, codec, ops, wire, server, history>>

\* The answer to the third, with success: sasl_param.  Four octets are expected.
Bug_Installs == TRUE
Installs == NeededLayer = "privacy"

Bug_Limit == offer.max
Limit == IF Installs THEN offer.max ELSE send_max

BindSetsParam ==
    /\ bind = "third" /\ reply = "ok"
    /\ reply' = "none"
    /\ IF Installs /\ offer.len # 4
       THEN bind' = "panicked" /\ torn' = TRUE /\ UNCHANGED <<wrap, send_max>>
       ELSE /\ bind' = "param"
            /\ wrap' = (wrap \/ Installs)
            /\ send_max' = Limit
            /\ UNCHANGED torn
    /\ UNCHANGED <<has_tls, ctx, drv, codec, up, ops, wire, server, untidy, misform>>

\* client_ctx, under a lock of its own.
BindSetsCtx ==
    /\ bind = "param"
    /\ ctx' = TRUE
    /\ bind' = "bound"
    /\ UNCHANGED <<has_tls, reply, wrap, send_max, drv, codec, up, ops, wire, server, history>>

BindFails ==
    /\ bind = "third" /\ reply \in {"bare", "more", "refused"}
    /\ reply' = "none"
    /\ Returns("returned")
    /\ UNCHANGED <<has_tls, params, codec, ops, wire, server, history>>

\* The driver has ended, and with it the sender of the reply.
BindLost ==
    /\ bind \in Waiting /\ reply = "none" /\ drv # "running"
    /\ Returns("error")
    /\ UNCHANGED <<has_tls, reply, params, codec, ops, wire, server, history>>

\* The future of the bind is dropped where it awaits.
BindDropped ==
    /\ bind \in Waiting
    /\ Returns("dropped")
    /\ torn' = (torn \/ bind = "third")
    /\ UNCHANGED <<has_tls, reply, params, codec, ops, wire, server, untidy, misform>>

-----------------------------------------------------------------------------
(* Decoder::decode, called by the Framed whenever the driver polls it *)

\* What the driver makes of a result: it dispatches the message, or waits
\* for more input.
Yield(r) ==
    \/ /\ r.res = "message"
       /\ got' = Append(got, r.m)
       /\ reply' = IF r.m = 0 \/ bind \notin Waiting THEN reply
                   ELSE IF ans[r.m] = "op" THEN reply ELSE ans[r.m]
       /\ UNCHANGED <<drv, starved>>
    \/ /\ r.res = "none"
       /\ starved' = TRUE
       /\ UNCHANGED <<got, reply, drv>>
    \/ /\ r.res \in {"garbled", "panicked"}
       /\ drv' = r.res
       /\ UNCHANGED <<got, reply, starved>>

CanDecode == drv = "running" /\ ~starved

\* Without a layer, or with nothing to decode.
DecodePlain ==
    /\ CanDecode
    /\ ~wrap \/ buf = <<>>
    /\ \E r \in DecodeInner(buf) : Yield(r) /\ buf' = r.rest
    /\ UNCHANGED <<has_tls, bind, params, decoded, up, ops, wire, server, history>>

\* The rest of a token.
Bug_StillDecoded(rest) == TRUE
StillDecoded(rest) == rest # <<>>

DecodeKept ==
    /\ CanDecode
    /\ wrap /\ buf # <<>> /\ decoded
    /\ \E r \in DecodeInner(buf) :
         /\ Yield(r)
         /\ buf' = r.rest
         /\ decoded' = StillDecoded(r.rest)
    /\ UNCHANGED <<has_tls, bind, params, up, ops, wire, server, history>>

AtToken == CanDecode /\ wrap /\ buf # <<>> /\ ~decoded

\* "invalid SASL buffer"
DecodeShort ==
    /\ AtToken
    /\ Len(buf) < HeaderSize
    /\ drv' = "invalid"
    /\ UNCHANGED <<has_tls, bind, reply, params, codec, up, ops, wire, server, history>>

HasHeader == Len(buf) >= HeaderSize /\ SubSeq(buf, 1, HeaderSize) = Header(buf[1].m)

\* Other octets taken for a length: the token never comes, or is no token.
DecodeMisread ==
    /\ AtToken
    /\ Len(buf) >= HeaderSize /\ ~HasHeader
    /\ \/ drv' \in {"garbled", "panicked"} /\ UNCHANGED starved
       \/ starved' = TRUE /\ UNCHANGED drv
    /\ UNCHANGED <<has_tls, bind, reply, params, buf, decoded, got, up, ops, wire, server,
                   history>>

Bug_DecodeWaits ==
    /\ AtToken
    /\ HasHeader /\ Len(buf) - HeaderSize < buf[1].m
    /\ starved' = TRUE
    /\ buf' = From(buf, HeaderSize + 1)
    /\ UNCHANGED <<has_tls, bind, reply, params, drv, decoded, got, up, ops, wire, server,
                   history>>

DecodeWaits ==
    /\ AtToken
    /\ HasHeader /\ Len(buf) - HeaderSize < buf[1].m
    /\ starved' = TRUE
    /\ UNCHANGED <<has_tls, bind, reply, params, drv, buf, decoded, got, up, ops, wire,
                   server, history>>

DecodeNoCtx ==
    /\ AtToken
    /\ HasHeader /\ Len(buf) - HeaderSize >= buf[1].m
    /\ ~ctx
    /\ drv' = "nocontext"
    /\ UNCHANGED <<has_tls, bind, reply, params, codec, up, ops, wire, server, history>>

\* What is left of the token is kept if nothing is behind it.
Bug_Keeps(rest, behind) == FALSE
Keeps(rest, behind) == rest # <<>> /\ behind = <<>>

DecodeToken ==
    /\ AtToken
    /\ HasHeader /\ Len(buf) - HeaderSize >= buf[1].m
    /\ ctx
    /\ LET token == SubSeq(buf, HeaderSize + 1, HeaderSize + buf[1].m)
           behind == From(buf, HeaderSize + buf[1].m + 1)
       IN \E r \in DecodeInner(Unwrapped(token)) :
            /\ Yield(r)
            /\ buf' = IF Keeps(r.rest, behind) THEN r.rest ELSE behind
            /\ decoded' = Keeps(r.rest, behind)
    /\ UNCHANGED <<has_tls, bind, params, up, ops, wire, server, history>>

\* A read ends in the middle of a length, or brings more than a token of
\* several messages.
CutInLength(rest) == rest # <<>> /\ rest[1].form = "length" /\ rest[1].i > 1
BehindMany(b) == \E k \in 1..(Len(b) - 1) : b[k].end = "many"

Read ==
    /\ drv = "running" /\ starved
    /\ \E n \in 1..Len(wire) :
         /\ buf' = buf \o SubSeq(wire, 1, n)
         /\ wire' = From(wire, n + 1)
    /\ starved' = FALSE
    /\ untidy' = (untidy \/ CutInLength(wire') \/ BehindMany(buf'))
    /\ UNCHANGED <<has_tls, bind, reply, params, drv, decoded, got, up, ops, server, torn,
                   misform>>

-----------------------------------------------------------------------------
(* The server, which treats requests in order *)

Layers == {"none", "privacy"}
Answers == {"more", "bare", "ok", "refused"}
Offers == [len : {4}, max : MaxSizes, mask : Masks]
            \cup [len : {0, 3}, max : {0}, mask : Masks]

\* It knows the form of a request, and takes those up to the size that it has
\* announced, as they arrive.
Understands(q) ==
    q.wrapped = layer /\ (layer /\ offer.max > 0 => q.size <= offer.max)

Answering(as) ==
    LET us == [k \in 1..(MessageSize * Len(as)) |->
                 Plain(Len(ans) + 1 + (k - 1) \div MessageSize, 1 + ((k - 1) % MessageSize))]
    IN /\ ans' = ans \o as
       /\ IF layer THEN pend' = pend \o us /\ UNCHANGED wire
                   ELSE wire' = wire \o us /\ UNCHANGED pend

Serve ==
    /\ up # <<>> /\ ~misform
    /\ Understands(Head(up))
    /\ up' = Tail(up)
    /\ LET q == Head(up) IN
       \/ /\ q.what = "op"
          /\ \E n \in 1..MaxReplies : Answering([i \in 1..n |-> "op"])
          /\ UNCHANGED <<layer, offer>>
       \/ /\ q.what # "op"
          /\ \E a \in Answers :
               /\ Answering(<<a>>)
               /\ layer' = (layer \/ (q.what = "third" /\ a = "ok" /\ q.wants = "privacy"))
               /\ IF q.what = "second" /\ a = "more" THEN offer' \in Offers ELSE UNCHANGED offer
    /\ UNCHANGED <<has_tls, bind, reply, params, drv, codec, ops, history>>

Misunderstands ==
    /\ up # <<>> /\ ~misform
    /\ ~Understands(Head(up))
    /\ misform' = TRUE
    /\ UNCHANGED <<has_tls, bind, reply, params, drv, codec, up, ops, wire, server, untidy,
                   torn>>

\* The codec provides for tokens that hold whole messages.
MakeToken ==
    /\ pend # <<>>
    /\ \E n \in TokenSizes :
         LET k == Least(n, Len(pend)) IN
         /\ wire' = wire \o Wrapped(SubSeq(pend, 1, k))
         /\ pend' = From(pend, k + 1)
         /\ untidy' = (untidy \/ pend[k].i < MessageSize)
    /\ UNCHANGED <<has_tls, bind, reply, params, drv, codec, up, ops, layer, offer, ans,
                   torn, misform>>

\* An unsolicited notification.
Notify ==
    /\ ops < MaxOps
    /\ ops' = ops + 1
    /\ Answering(<<"op">>)
    /\ torn' = (torn \/ (layer /\ bind \in {"third", "param"}))
    /\ UNCHANGED <<has_tls, bind, reply, params, drv, codec, up, layer, offer, untidy,
                   misform>>

\* The connection breaks, or gss_wrap or gss_unwrap fails.
Breaks ==
    /\ drv = "running"
    /\ drv' = "closed"
    /\ UNCHANGED <<has_tls, bind, reply, params, codec, up, ops, wire, server, history>>

\* Everything has been said: the driver waits for input, or has ended.
Quiet ==
    /\ bind \notin Waiting \cup {"idle", "param"}
    /\ drv = "running" => starved /\ wire = <<>> /\ ops = MaxOps
    /\ up = <<>> \/ misform
    /\ pend = <<>>

Binding == BindBegins \/ BindSteps \/ BindChooses \/ BindSetsParam \/ BindSetsCtx
             \/ BindFails \/ BindLost
Decoding == DecodePlain \/ DecodeKept \/ DecodeShort \/ DecodeMisread \/ DecodeWaits
              \/ DecodeNoCtx \/ DecodeToken
Next ==
    \/ Binding \/ BindDropped
    \/ \E size \in 1..MessageSize : Send(size)
    \/ Decoding \/ Read
    \/ Serve \/ Misunderstands \/ MakeToken \/ Notify \/ Breaks
    \/ Quiet /\ UNCHANGED vars

\* The driver and the binding task are scheduled, the network delivers, and
\* the server answers.  Nothing obliges anybody to send or to bind.
Spec ==
    /\ Init /\ [][Next]_vars
    /\ WF_vars(Binding /\ bind # "idle") /\ WF_vars(Decoding) /\ WF_vars(Read)
    /\ WF_vars(Serve) /\ WF_vars(MakeToken)

-----------------------------------------------------------------------------
(* Properties *)

Unit ==
    [form : {"plain", "wrapped", "length"}, m : Nat, i : 1..2, end : {"no", "one", "many"}]

\* The types of the variables; sasl_param holds a limit only with the layer,
\* and nothing is kept as decoded without it.
TypeOK ==
    /\ has_tls \in BOOLEAN
    /\ bind \in Waiting \cup {"idle", "param", "bound", "returned", "error", "panicked",
                             "dropped"}
    /\ reply \in Answers \cup {"none"}
    /\ wrap \in BOOLEAN /\ ctx \in BOOLEAN /\ send_max \in MaxSizes
    /\ send_max > 0 => wrap
    /\ drv \in {"running", "closed", "toolarge", "invalid", "garbled", "panicked",
               "nocontext"}
    /\ buf \in Seq(Unit) /\ wire \in Seq(Unit) /\ pend \in Seq(Unit)
    /\ decoded \in BOOLEAN /\ starved \in BOOLEAN /\ layer \in BOOLEAN
    /\ decoded => wrap
    /\ got \in Seq(0..Len(ans))
    /\ ans \in Seq(Answers \cup {"op"})
    /\ up \in Seq([wrapped : BOOLEAN, what : Waiting \cup {"op"}, wants : Layers,
                   size : 1..(MessageSize + Overhead)])
    /\ ops \in 0..MaxOps
    /\ untidy \in BOOLEAN /\ torn \in BOOLEAN /\ misform \in BOOLEAN

Orderly == ~untidy /\ ~torn

\* decode() gives the messages as the server sent them, without gap, repetition
\* or change, however they are put into tokens and reads (cut as the codec
\* provides for), across the switch of the layer.
Faithful == Orderly => got = [i \in 1..Len(got) |-> i]

\* And it never reports an invalid buffer or a decoding error, nor panics for
\* want of a context: only the connection, or a request above the
\* server's limit, ends the driver.
CodecSurvives == Orderly => drv \in {"running", "closed", "toolarge"}

\* encode() wraps a request exactly when the server expects it, unless it was
\* sent during the switch; and what it lets through is above the limit of the
\* server by no more than wrapping adds.  The request that the server could not
\* understand is still the first of those on their way.
Understood ==
    ~torn /\ misform =>
        /\ layer /\ Head(up).wrapped
        /\ offer.max > 0 /\ Head(up).size \in (offer.max + 1)..(offer.max + Overhead)

\* When gssapi_bind has returned, both sides agree on the layer, it is there
\* if and only if the bind succeeded without TLS, and its context is too.
LayerAgreed ==
    /\ bind \in {"bound", "returned"} => wrap = layer
    /\ bind = "bound" => (wrap <=> ~has_tls) /\ ctx
    /\ bind \in {"returned", "error", "dropped"} => ~wrap /\ ~ctx

\* Nothing is left lying in the buffer of the codec: all that the server has
\* sent is decoded in the end.
Delivered == <>[](~Orderly \/ drv # "running" \/ misform \/ Len(got) = Len(ans))
=============================================================================
