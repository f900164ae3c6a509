----------------------------- MODULE Operations -----------------------------
(***************************************************************************)
(* One handle, its driver and a server, down to the octets between them:   *)
(* the operations of Ldap with the modifiers given before them (ldap.rs),  *)
(* what the driver writes and how it decodes what it reads, however the    *)
(* network cuts it, and what the caller gets.  The handle may be the one   *)
(* inside an LdapConn (sync.rs).  One operation is under way at a time:    *)
(* LdapMux is about the others, timeouts and dropped futures.              *)
(*                                                                         *)
(* The octets themselves are a matter of the codec: how requests, filters  *)
(* and controls become octets, and octets replies, is given by operators   *)
(* that are parameters here and are defined in Application and the modules *)
(* it extends.  CodecContract states what is asked of them.                *)
(***************************************************************************)
EXTENDS Integers, Sequences, FiniteSets

CONSTANTS
    Ids,            \* message ids the handle may get: its clones use others in between
    Requests,       \* the operations the application asks for
    Urls,           \* the URLs by which it asks for a Bind or a Search
    ControlLists,   \* what it passes to with_controls
    OptionSets,     \* what it passes to with_search_options
    DefaultOpts,    \* SearchOptions::new()
    Challenges,     \* what a server may answer to the first request of an NTLM bind
    Responses       \* for each kind of request the sequences of messages that may answer it

\* The library: parameters to protocol operations, protocol operations to octets and back.
CONSTANTS
    Tags(_),            \* the protocol operations the builder may make of a request
    SearchTags(_, _),   \* and of the parameters of a Search and its options; none if refused
    Params(_),          \* the parameters of a Search, its filter as text
    GarbledParams(_),   \* the same, with something that is no filter
    UrlParams(_),       \* those in a URL; none if refused
    RawControls(_),     \* the controls an application gives, ready to be sent
    Encoded(_, _, _),   \* the octets of an id, a protocol operation and optional controls
    Decode(_),          \* the first message in a buffer, if it is complete, and the rest
    ResultOf(_),        \* LdapResultExt::from; none if it panics
    TakenAs(_, _)       \* what the caller makes of a reply, for which a message was sent

\* The server.
CONSTANTS
    ServerReads(_),         \* the request in some octets
    ServerWrites(_, _, _),  \* in one of Forms and under an id, the octets of several messages
    NoticeOf(_)             \* the octets of a Notice of Disconnection

VARIABLES
    modifiers,  \* Ldap: controls and search_opts, for the next operation
    call,       \* the operation under way: its kind and message id
    ops,        \* the channel from the handle to the driver
    map,        \* resultmap and searchmap: the ids the driver has a sender for
    null,       \* the driver has answered the call itself, with Tag::Null
    rx,         \* the replies handed to the caller and not yet taken
    driver,     \* "running", "ended", or "failed" on what it has received
    shut,       \* the driver has shut its side of the socket down
    buf,        \* octets read and not yet decoded
    net,        \* octets on their way from the server
    wire,       \* octets on their way to the server
    eof,        \* the server has closed the connection
    blocking,   \* the handle is inside an LdapConn
    given,      \* history: the controls and options given for the next operation, and what
                \* has been left of options given for an operation that was no Search
    asked,      \* history: the request the server has not yet seen, and such options left
    sent        \* history: the replies the caller has not yet taken

caller == <<modifiers, call, ops, given, asked>>
received == <<map, null, rx, sent>>
link == <<driver, shut, buf, net, wire, eof>>
vars == <<caller, received, link, blocking>>

NothingGiven == [controls |-> {}, opts |-> {}, left |-> {}]
NoCall == [kind |-> "none", id |-> 0]
Unasked == [op |-> "none"]

-----------------------------------------------------------------------------
(***************************************************************************)
(* Vocabulary.                                                             *)
(***************************************************************************)
Octets == Seq(0 .. 255)
Forms == {"narrow", "wide"}

OpNames == {"simple_bind", "add", "modify", "compare", "delete", "modifydn", "extended",
            "abandon", "search"}

\* What may be left of an answer at some time.
Remainders(s) == UNION {{SubSeq(ms, i, Len(ms)) : i \in 1 .. Len(ms)} : ms \in Responses[s]}

ASSUME IdsAssumption == Ids # {} /\ 0 \notin Ids
ASSUME RequestsAssumption ==
    /\ \A r \in Requests : r.op \in OpNames /\ (r.op = "extended" => r.exop.name # "search")
    /\ <<>> \in Challenges
ASSUME ResponsesAssumption ==
    /\ DOMAIN Responses \cap {"abandon", "unbind"} = {}
    /\ \A s \in DOMAIN Responses : \A ms \in Responses[s] :
            /\ ms \in Seq({ms[i] : i \in DOMAIN ms}) /\ ms # <<>>
            /\ s # "search" => Len(ms) = 1

-----------------------------------------------------------------------------
Init ==
    /\ modifiers = [controls |-> {}, search_opts |-> {}]
    /\ call = NoCall
    /\ ops = <<>>
    /\ map = {}
    /\ null = FALSE
    /\ rx = <<>>
    /\ driver = "running"
    /\ shut = FALSE
    /\ buf = <<>>
    /\ net = <<>>
    /\ wire = <<>>
    /\ eof = FALSE
    /\ blocking \in BOOLEAN
    /\ given = NothingGiven
    /\ asked = Unasked
    /\ sent = <<>>

(***************************************************************************)
(* The handle.                                                             *)
(***************************************************************************)
with_controls ==
    \E cs \in ControlLists :
        /\ call = NoCall
        /\ modifiers' = [modifiers EXCEPT !.controls = {RawControls(cs)}]
        /\ given' = [given EXCEPT !.controls = {cs}]
        /\ UNCHANGED <<call, ops, asked, received, link, blocking>>

with_search_options ==
    \E opts \in OptionSets :
        /\ call = NoCall
        /\ modifiers' = [modifiers EXCEPT !.search_opts = {opts}]
        /\ given' = [given EXCEPT !.opts = {opts}, !.left = {}]
        /\ UNCHANGED <<call, ops, asked, received, link, blocking>>

\* No operation is under way, and the server has read the previous request: requests that
\* follow an Abandon at once are left to LdapMux
Idle == call = NoCall /\ wire = <<>>

\* Of two sets of options, each with at most one element, the first that is there
OrElse(os, others) == IF os = {} THEN others ELSE os

\* What the application has given is meant for this operation.  The documentation of
\* with_search_options wants options "silently discarded" by an operation that is no Search;
\* they are remembered here, because the handle keeps them.
GivenAfter(kind) ==
    IF kind = "search" THEN NothingGiven
    ELSE [NothingGiven EXCEPT !.left = OrElse(given.opts, given.left)]

\* A request as it is asked for with what was given, and the options left over
Asked(id, kind, op) ==
    [id |-> id, op |-> op, controls |-> given.controls,
     left |-> IF kind = "search" /\ given.opts = {} THEN given.left ELSE {}]

\* Send a request, with what remains of the modifiers; fails at once when the driver is gone
op_call(kind, op, req, controls, rest) ==
    \E id \in Ids :
        /\ modifiers' = rest
        /\ given' = GivenAfter(kind)
        /\ IF driver = "running"
           THEN /\ call' = [kind |-> kind, id |-> id]
                /\ ops' = <<[id |-> id, kind |-> kind, req |-> req, controls |-> controls]>>
                /\ asked' = Asked(id, kind, op)
           ELSE /\ call' = NoCall
                /\ UNCHANGED <<ops, asked>>

\* The controls stay with the handle
Bug_Operation(kind, op, tags) ==
    /\ Idle
    /\ \E tag \in tags : op_call(kind, op, tag, modifiers.controls, modifiers)
    /\ UNCHANGED <<received, link, blocking>>

\* An operation that leaves the search options where they are
Operation(kind, op, tags) ==
    /\ Idle
    /\ \E tag \in tags :
            op_call(kind, op, tag, modifiers.controls, [modifiers EXCEPT !.controls = {}])
    /\ UNCHANGED <<received, link, blocking>>

Of(op) == {r \in Requests : r.op = op}

Single(op) == \E r \in Of(op) : Operation("single", r, Tags(r))

Bind == Single("simple_bind")

ExternalBind == [op |-> "sasl_bind", mech |-> "external", creds |-> {<<>>}]

sasl_external_bind == Operation("single", ExternalBind, Tags(ExternalBind))

\* The tokens of the NTLM library, external: what follows a challenge depends on it
Token(challenge) == <<7>> \o challenge

SpnegoBind(challenge) == [op |-> "sasl_bind", mech |-> "spnego", creds |-> {Token(challenge)}]

sasl_ntlm_bind == Operation("ntlm", SpnegoBind(<<>>), Tags(SpnegoBind(<<>>)))

\* AddNoValues: the modifiers stay for the next operation
NoValues == Idle /\ UNCHANGED vars

Add ==
    \E r \in Of("add") :
        IF \E i \in DOMAIN r.attrs : r.attrs[i].vals = {} THEN NoValues
        ELSE Operation("single", r, Tags(r))

Modify ==
    \E r \in Of("modify") :
        IF \E i \in DOMAIN r.mods : r.mods[i].mod = "Add" /\ r.mods[i].vals = {} THEN NoValues
        ELSE Operation("single", r, Tags(r))

Compare == Single("compare")

Delete == Single("delete")

ModifyDn == Single("modifydn")

Extended == Single("extended")

UnbindRequest == [op |-> "unbind"]

Unbind == Operation("unbind", UnbindRequest, Tags(UnbindRequest))

Abandon == \E r \in Of("abandon") : Operation("abandon", r, Tags(r))

\* The options a Search is made with
Chosen(opts) == IF opts = {} THEN DefaultOpts ELSE CHOOSE o \in opts : TRUE

WithOptions(r, o) == [op |-> "search", base |-> r.base, scope |-> r.scope, filter |-> r.filter,
                      attrs |-> r.attrs, opts |-> o]

\* All modifiers go to the clone which the stream uses, and are lost with it when the
\* filter cannot be parsed.  The parameters p stand for the request r, unless they are not
\* sound; a sound request that goes nowhere stays in  asked.
streaming_search_with(r, p, sound) ==
    LET tags == SearchTags(p, Chosen(modifiers.search_opts))
        none == [controls |-> {}, search_opts |-> {}]
    IN  /\ Idle
        /\ IF tags = {}
           THEN /\ modifiers' = none
                /\ given' = NothingGiven
                /\ asked' = IF sound THEN Asked(0, "search", r) ELSE asked
                /\ UNCHANGED <<call, ops>>
           ELSE \E tag \in tags :
                    op_call("search", WithOptions(r, Chosen(given.opts)), tag, modifiers.controls, none)
        /\ UNCHANGED <<received, link, blocking>>

\* With the text of the filter as it should be, or with something else
Search ==
    \E r \in Of("search") :
        \/ streaming_search_with(r, Params(r), TRUE)
        \/ streaming_search_with(r, GarbledParams(r), FALSE)

\* The values of an extension in the parameters of a URL
UrlExtension(p, name) == {e.val : e \in {x \in p.extensions : x.ext = name}}

\* The Binds that the extensions Bindname and XBindpw ask for
UrlBinds(p) == {[op |-> "simple_bind", dn |-> dn, pw |-> pw]
                : dn \in UrlExtension(p, "Bindname"), pw \in UrlExtension(p, "XBindpw")}

\* The operation a URL describes: a Search, or a Bind if it has the extensions for one.  A
\* URL that should be refused means nothing.
ByUrl ==
    \E u \in Urls :
        \/ /\ UrlParams(u) = {}
           /\ Idle
           /\ asked' = u.means
           /\ UNCHANGED <<modifiers, call, ops, given, received, link, blocking>>
        \/ \E p \in UrlParams(u) :
              IF UrlExtension(p, "Bindname") = {} THEN streaming_search_with(u.means, p, TRUE)
              ELSE \E b \in UrlBinds(p) : Operation("single", u.means, Tags(b))

-----------------------------------------------------------------------------
(***************************************************************************)
(* What becomes of a reply.                                                *)
(***************************************************************************)
\* op_call returns what the oneshot channel holds
Return ==
    /\ \/ call.kind = "single" /\ rx # <<>>
       \/ call.kind \in {"abandon", "unbind"} /\ null
    /\ call' = NoCall
    /\ null' = FALSE
    /\ rx' = <<>>
    /\ sent' = <<>>
    /\ UNCHANGED <<modifiers, ops, given, asked, map, link, blocking>>

\* The Search has been sent; its items come through a channel of their own
StreamStarts ==
    /\ call.kind = "search"
    /\ null
    /\ null' = FALSE
    /\ call' = [call EXCEPT !.kind = "stream"]
    /\ UNCHANGED <<modifiers, ops, given, asked, map, rx, sent, link, blocking>>

\* next() until the result has been received, then finish()
StreamNext ==
    /\ call.kind = "stream"
    /\ rx # <<>>
    /\ rx' = Tail(rx)
    /\ sent' = Tail(sent)
    /\ call' = IF Head(rx).tag.id = 5 THEN NoCall ELSE call
    /\ UNCHANGED <<modifiers, ops, given, asked, map, null, link, blocking>>

\* The second request of an NTLM bind, with the answer to the challenge in the reply.
\* Without a challenge, or with one that the library refuses, the bind fails.
NtlmContinue ==
    /\ call.kind = "ntlm"
    /\ rx # <<>>
    /\ rx' = <<>>
    /\ sent' = <<>>
    /\ \E r \in ResultOf(Head(rx).tag) :
        \/ /\ r.rc = 14
           /\ \E challenge \in r.creds : \E tag \in Tags(SpnegoBind(challenge)) :
                op_call("single", SpnegoBind(challenge), tag,
                        modifiers.controls, [modifiers EXCEPT !.controls = {}])
        \/ /\ call' = NoCall
           /\ UNCHANGED <<modifiers, ops, given, asked>>
    /\ UNCHANGED <<map, null, link, blocking>>

\* The driver has dropped the sender: recv fails once the channel is empty
ReturnError ==
    /\ call # NoCall
    /\ driver # "running"
    /\ rx = <<>>
    /\ ~null
    /\ call' = NoCall
    /\ sent' = <<>>
    /\ UNCHANGED <<modifiers, ops, given, asked, map, null, rx, link, blocking>>

-----------------------------------------------------------------------------
(***************************************************************************)
(* The driver.  The runtime of an LdapConn runs it only while a method of  *)
(* the LdapConn or of its EntryStream blocks on an operation.              *)
(***************************************************************************)
Polled == driver = "running" /\ (blocking => call # NoCall)

\* The driver is dropped, and with it the senders, the receiver and the socket
Stopped(how) ==
    /\ driver' = how
    /\ ops' = <<>>
    /\ map' = {}
    /\ buf' = <<>>
    /\ net' = <<>>
    /\ wire' = <<>>
    /\ asked' = Unasked
    /\ eof' = TRUE
    /\ UNCHANGED <<modifiers, call, given, null, rx, sent, shut, blocking>>

\* An Abandon waits for an answer, as a Single operation does
Bug_AnsweredAtOnce(kind) == kind \in {"search", "unbind"}

\* The operations the driver answers itself, with Tag::Null
AnsweredAtOnce(kind) == kind \in {"search", "abandon", "unbind"}

\* An operation is written to the socket; what is written behind the end of the
\* connection gets lost, or fails.  (What an Abandon removes from the maps belongs to
\* another operation, and none is under way.)
DrvSend ==
    /\ Polled
    /\ ops # <<>>
    /\ \/ /\ ~shut
          /\ LET o == Head(ops)
             IN  /\ wire' = IF eof THEN <<>> ELSE Encoded(o.id, o.req, o.controls)
                 /\ asked' = IF eof THEN Unasked ELSE asked
                 /\ map' = IF o.kind \in {"abandon", "unbind"} THEN map
                           ELSE map \cup {[id |-> o.id, search |-> o.kind = "search"]}
                 /\ null' = AnsweredAtOnce(o.kind)
                 /\ shut' = (o.kind = "unbind")
          /\ ops' = <<>>
          /\ UNCHANGED <<modifiers, call, given, rx, sent, driver, buf, net, eof, blocking>>
       \/ (shut \/ eof) /\ Stopped("ended")

\* The socket is read only when no complete message is in the buffer: an octet, or all there is
DrvRead ==
    /\ Polled
    /\ net # <<>>
    /\ Decode(buf) = {}
    /\ \E n \in {1, Len(net)} :
        /\ buf' = buf \o SubSeq(net, 1, n)
        /\ net' = SubSeq(net, n + 1, Len(net))
    /\ UNCHANGED <<caller, received, driver, shut, wire, eof, blocking>>

\* A reply is the last one for its id; here the result of a Search is not
Bug_Completes(f, protoop) == ~f.search

Completes(f, protoop) == ~f.search \/ protoop.id = 5

\* Without the intermediate messages
Bug_SearchItem(protoop) == protoop.id \in {4, 5, 19}

\* What the driver expects for a Search
SearchItem(protoop) == protoop.id \in {4, 5, 19, 25}

\* The message m is nothing for the senders of a Search, whose result the driver parses
Unexpected(to, m) ==
    \E f \in to : /\ f.search
                  /\ ~SearchItem(m.protoop) \/ (m.protoop.id = 5 /\ ResultOf(m.protoop) = {})

\* The last reply overtakes the others
Bug_Delivered(q, m) == <<[tag |-> m.protoop, controls |-> m.controls]>> \o q

\* The channel to the caller
Delivered(q, m) == Append(q, [tag |-> m.protoop, controls |-> m.controls])

\* A message is decoded and handed to the sender filed under its id, if there is one
DrvReceive ==
    /\ Polled
    /\ \E d \in Decode(buf) :
        LET m == CHOOSE x \in d.message : TRUE
            to == {f \in map : f.id = m.id}
            done == {f \in to : Completes(f, m.protoop)}
        IN  IF d.message = {} \/ Unexpected(to, m)
            THEN Stopped("failed")
            ELSE /\ buf' = d.rest
                 /\ rx' = IF to = {} THEN rx ELSE Delivered(rx, m)
                 /\ map' = map \ done
                 /\ UNCHANGED <<caller, null, sent, driver, shut, net, wire, eof, blocking>>

\* The end of the stream, within a message or between two
DrvEof ==
    /\ Polled
    /\ eof
    /\ net = <<>>
    /\ Decode(buf) = {}
    /\ Stopped("ended")

-----------------------------------------------------------------------------
(***************************************************************************)
(* The server and the network.                                             *)
(***************************************************************************)
\* What the answer depends on
Subject(op) == CASE op.op = "extended" -> op.exop.name
                 [] op.op = "sasl_bind" -> op.mech
                 [] OTHER -> op.op

\* A request is answered; there is no answer to an Abandon, and an Unbind or a request that
\* cannot be read ends the connection
Serve ==
    /\ wire # <<>>
    /\ ~eof
    /\ LET r == ServerReads(wire)
       IN  IF Subject(r.op) \in DOMAIN Responses
           THEN \E ms \in Responses[Subject(r.op)], form \in Forms :
                    /\ net' = ServerWrites(form, r.id, ms)
                    /\ sent' = ms
                    /\ UNCHANGED eof
           ELSE /\ eof' = (r.op.op # "abandon")
                /\ UNCHANGED <<net, sent>>
    /\ wire' = <<>>
    /\ asked' = Unasked
    /\ UNCHANGED <<modifiers, call, ops, given, map, null, rx, driver, shut, buf, blocking>>

\* The connection ends: what is under way gets lost.  Or the server takes its leave instead
\* of answering
Close ==
    /\ driver = "running"
    /\ ~eof
    /\ eof' = TRUE
    /\ wire' = <<>>
    /\ asked' = IF wire = <<>> THEN asked ELSE Unasked
    /\ \/ net' = <<>>
       \/ wire # <<>> /\ \E form \in Forms : net' = NoticeOf(form)
    /\ UNCHANGED <<modifiers, call, ops, given, received, driver, shut, buf, blocking>>

-----------------------------------------------------------------------------
Next ==
    \/ with_controls \/ with_search_options
    \/ Bind \/ sasl_external_bind \/ sasl_ntlm_bind \/ Add \/ Modify \/ Compare \/ Delete
    \/ ModifyDn \/ Extended \/ Unbind \/ Abandon \/ Search \/ ByUrl
    \/ Return \/ StreamStarts \/ StreamNext \/ NtlmContinue \/ ReturnError
    \/ DrvSend \/ DrvRead \/ DrvReceive \/ DrvEof
    \/ Serve \/ Close

Spec == Init /\ [][Next]_vars

-----------------------------------------------------------------------------
(***************************************************************************)
(* What the operations ask of the codec.                                   *)
(***************************************************************************)
\* Controls and options, given or not; the controls as they are sent.
ControlsOrNone == {{}} \cup {{cs} : cs \in ControlLists}
OptionsOrNone == {{}} \cup {{o} : o \in OptionSets}
Raw(controls) == {RawControls(cs) : cs \in controls}

\* The octets w are those of the request r.
Says(w, r) == w \in Octets /\ w # <<>> /\ ServerReads(w) = r

\* A server reads op, under the id and with the controls, when tag is sent for it.
ReadsAs(id, controls, tag, op) ==
    Says(Encoded(id, tag, Raw(controls)), [id |-> id, op |-> op, controls |-> controls])

\* It is not refused, and whatever is sent for it is read as op.
Accepted(id, controls, tags, op) == tags # {} /\ \A tag \in tags : ReadsAs(id, controls, tag, op)

\* A Search with the parameters p is read as r.
SearchReadsAs(id, controls, p, r) ==
    \A os \in OptionsOrNone :
        Accepted(id, controls, SearchTags(p, Chosen(os)), WithOptions(r, Chosen(os)))

BuiltRequests == {r \in Requests : r.op # "search"} \cup {ExternalBind, UnbindRequest}
                 \cup {SpnegoBind(ch) : ch \in Challenges}

\* Every request arrives as what it is, and only what should be is refused.
RequestContract ==
    \A id \in Ids, controls \in ControlsOrNone :
        /\ \A r \in BuiltRequests : \A tag \in Tags(r) : ReadsAs(id, controls, tag, r)
        /\ \A r \in Of("search") :
                /\ SearchReadsAs(id, controls, Params(r), r)
                /\ \A os \in OptionsOrNone : SearchTags(GarbledParams(r), Chosen(os)) = {}
        /\ \A u \in Urls :
                /\ UrlParams(u) = {} => u.means = Unasked
                /\ \A p \in UrlParams(u) :
                        IF UrlExtension(p, "Bindname") = {}
                        THEN SearchReadsAs(id, controls, p, u.means)
                        ELSE /\ u.means.op = "simple_bind"
                             /\ \A b \in UrlBinds(p) : \A tag \in Tags(b) :
                                    ReadsAs(id, controls, tag, u.means)

\* The reply d, decoded from the message sent, is what the driver expects in an answer of
\* the kind s, and the caller takes it for that message.
Proper(s, last, d, message) ==
    /\ TakenAs(d, message) = {message}
    /\ s = "search" => /\ d.tag.id \in {4, 5, 19, 25} /\ (d.tag.id = 5 <=> last)
                       /\ d.tag.id = 5 => ResultOf(d.tag) # {}
    /\ s = "spnego" => \A r \in ResultOf(d.tag) : r.creds \subseteq Challenges

\* The first message of an answer q is decoded from its octets w as soon as all of its own
\* have come, from whatever has come, and what comes behind it, others, is left.
FramedAs(s, q, id, w, others) ==
    LET k == Len(w) - Len(others)
    IN  /\ w \in Octets /\ others \in Octets
        /\ k \in 1 .. Len(w) /\ SubSeq(w, k + 1, Len(w)) = others
        /\ \E m \in UNION {d.message : d \in Decode(w)} :
            /\ m.id = id
            /\ Proper(s, Len(q) = 1, [tag |-> m.protoop, controls |-> m.controls], Head(q))
            /\ \A n \in 0 .. Len(w) :
                Decode(SubSeq(w, 1, n)) = IF n < k THEN {}
                                          ELSE {[message |-> {m}, rest |-> SubSeq(w, k + 1, n)]}

Framed(s, q, form, id) ==
    FramedAs(s, q, id, ServerWrites(form, id, q), ServerWrites(form, id, Tail(q)))

\* A notice with the octets w is decoded when all of them have come; it belongs to no request.
Noticed(w) ==
    /\ w \in Octets
    /\ \A n \in 0 .. Len(w) - 1 : Decode(SubSeq(w, 1, n)) = {}
    /\ \E m \in UNION {d.message : d \in Decode(w)} :
            m.id = 0 /\ Decode(w) = {[message |-> {m}, rest |-> <<>>]}

\* Every answer can be received, and so can a notice.
AnswerContract ==
    /\ Decode(<<>>) = {}
    /\ \A form \in Forms, id \in Ids :
        /\ ServerWrites(form, id, <<>>) = <<>>
        /\ \A s \in DOMAIN Responses : \A q \in Remainders(s) : Framed(s, q, form, id)
    /\ \A form \in Forms : Noticed(NoticeOf(form))

\* What OperationsProofs takes as its hypothesis.
Contract == RequestContract /\ AnswerContract

-----------------------------------------------------------------------------
(***************************************************************************)
(* Properties.                                                             *)
(***************************************************************************)
\* Types: octets stay octets, at most one operation is in the channel, and the driver has a
\* sender or an answer for a call only while the call is under way.
TypeOK ==
    /\ \A s \in {buf, net, wire} : s \in Octets
    /\ call.kind \in {"none", "single", "ntlm", "search", "stream", "abandon", "unbind"}
    /\ call.id \in Ids \cup {0}
    /\ Len(ops) <= 1
    /\ Cardinality(map) <= 1
    /\ call = NoCall => map = {} /\ rx = <<>> /\ ~null /\ ops = <<>>
    /\ driver \in {"running", "ended", "failed"}
    /\ Cardinality(modifiers.controls) <= 1 /\ Cardinality(modifiers.search_opts) <= 1
    /\ {shut, eof, null, blocking} \subseteq BOOLEAN

\* The library's encoders and decoders fit the ones of a server: a request is read as what
\* was asked, whatever its parameters, and an answer is decoded as what was sent, from any
\* part of its octets that has come (encode_inner, LdapCodec::encode, decode_inner, Parse,
\* parse_controls, LdapResultExt and the builders and parsers they are used with).  This is
\* about the parameters alone, and so it is stated of the initial states.
CodecContract == Init => Contract

\* What a server should read of the request a, and what it reads when options were left over.
Request(a) == [id |-> a.id, op |-> a.op, controls |-> a.controls]
WithLeft(a) ==
    IF a.left = {} THEN Request(a)
    ELSE [Request(a) EXCEPT !.op = WithOptions(a.op, Chosen(a.left))]

\* The server reads in the octets on the wire what the application has asked for: the
\* operation with all of its parameters, the meaning of filters, names and URLs, the message
\* id, and the controls and search options given since the previous operation, no others;
\* with the one exception that a Search for which none were given goes out with the options
\* given last before an operation that was no Search.  And no request gets lost between the
\* two: a well-formed filter or URL is not refused (op_call, start_inner, get_url_params,
\* LdapCodec::encode, encode_into).
RequestIntact ==
    /\ wire # <<>> => ServerReads(wire) = WithLeft(asked)
    /\ asked # Unasked => ops # <<>> \/ wire # <<>>

\* "If this method is used in combination with a non-Search operation, the provided options
\* will be silently discarded when the operation is invoked" (with_search_options): the
\* exception does not occur.
OptionsDiscarded == wire # <<>> => ServerReads(wire) = Request(asked)

\* The caller gets what the server has sent to it, in order and with nothing changed: result
\* codes and what they are taken for, referrals, credentials, entries and their attributes,
\* Sync Info messages, response controls and extended responses, whatever form of length and
\* of truth the server uses and wherever the network cuts its octets (decode_inner,
\* parse_controls, LdapResultExt, SearchEntry::construct and the parsers of controls).
ResultIntact ==
    /\ Len(rx) <= Len(sent)
    /\ \A i \in DOMAIN rx : TakenAs(rx[i], sent[i]) = {sent[i]}

\* Nothing a server sends makes the driver fail, a Notice of Disconnection in either form
\* included: it ends only when the connection does (decode_inner, turn).
DriverUnderstands == driver # "failed"

\* No operation waits for what will not come: while it is under way, its request is on its
\* way to a server that will answer it, or something is on its way back, or the connection or
\* the driver has come to its end, which the caller will learn.  This holds for an LdapConn
\* too, whose driver stands still between operations (turn, block_on in sync.rs).
NeverStranded ==
    call # NoCall =>
        \/ ops # <<>> \/ wire # <<>>
        \/ net # <<>> \/ Decode(buf) # {}
        \/ null \/ rx # <<>>
        \/ eof \/ driver # "running"
=============================================================================
