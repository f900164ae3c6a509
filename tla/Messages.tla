------------------------------ MODULE Messages ------------------------------
(***************************************************************************)
(* What the library puts into its requests and takes from the responses:   *)
(* the builders of ldap.rs and search.rs, controls and extended            *)
(* operations, the message codec without a security layer, and the results *)
(* of result.rs.  An object identifier or the name of a mechanism is one   *)
(* letter.  A parser yields the empty set where the code panics.           *)
(***************************************************************************)
EXTENDS Escape

Oid == [paged |-> <<65>>, sync |-> <<66>>, syncstate |-> <<67>>, syncdone |-> <<68>>,
        syncinfo |-> <<69>>, preread |-> <<70>>, postread |-> <<71>>, assertion |-> <<72>>,
        matched |-> <<73>>, proxy |-> <<74>>, txn |-> <<75>>, manage |-> <<76>>,
        relax |-> <<77>>, whoami |-> <<78>>, passmod |-> <<79>>, starttxn |-> <<80>>,
        endtxn |-> <<81>>, external |-> <<82>>, spnego |-> <<83>>, notice |-> <<84>>]

\* if let Some(v) = opt { vec.push(F(v)) }
Pushed(F(_), opt) == SetToSeq({F(v) : v \in opt})
Mapped(F(_), s) == [i \in DOMAIN s |-> F(s[i])]
OctetStrings(s) == Mapped(OctetString, s)

\* A parser for each element; all of them or none
Each(F(_), s) ==
    IF \E i \in DOMAIN s : F(s[i]) = {} THEN {}
    ELSE {[i \in DOMAIN s |-> CHOOSE v \in F(s[i]) : TRUE]}

Text(opt) == {s \in expect_primitive(opt) : IsUtf8(s)}
Number(opt, id) ==
    {parse_uint(s) : s \in expect_primitive(match_id(match_class(opt, Universal), id))}

-----------------------------------------------------------------------------
(***************************************************************************)
(* Requests.                                                               *)
(***************************************************************************)
simple_bind(dn, pw) ==
    C(Application, 0, <<Integer(3), OctetString(dn), P(Context, 0, pw)>>)

sasl_bind_req(mech, creds) ==
    C(Application, 0, <<Integer(3), OctetString(<<>>),
        C(Context, 3, <<OctetString(mech)>> \o Pushed(OctetString, creds))>>)

\* An attribute and its values, in the order the HashSet yields them
PartialAttribute(a) == Sequence(<<OctetString(a.type), Set(OctetStrings(a.vals))>>)

add(dn, attrs) == C(Application, 8, <<OctetString(dn), Sequence(Mapped(PartialAttribute, attrs))>>)

compare(dn, attr, val) ==
    C(Application, 14, <<OctetString(dn), Sequence(<<OctetString(attr), OctetString(val)>>)>>)

delete(dn) == P(Application, 10, dn)

ModNumber == [Add |-> 0, Delete |-> 1, Replace |-> 2, Increment |-> 3]

modify(dn, mods) ==
    C(Application, 6, <<OctetString(dn), Sequence(Mapped(
        LAMBDA m : Sequence(<<Enumerated(ModNumber[m.mod]), PartialAttribute(m)>>), mods))>>)

modifydn(dn, rdn, delete_old, new_sup) ==
    C(Application, 12, <<OctetString(dn), OctetString(rdn), Boolean(delete_old)>>
                       \o Pushed(LAMBDA s : P(Context, 0, s), new_sup))

\* construct_exop
extended(exop) ==
    C(Application, 23, <<P(Context, 0, exop.name)>> \o Pushed(LAMBDA v : P(Context, 1, v), exop.val))

unbind == Null(Application, 2)

abandon(msgid) == i_e_into_structure(16, Application, msgid)

\* SearchOptions::new
DefaultOptions == [deref |-> 0, typesonly |-> FALSE, timelimit |-> 0, sizelimit |-> 0]

\* start_inner: nothing when the filter cannot be parsed
search(base, scope, opts, filt, attrs) ==
    {C(Application, 3, <<OctetString(base), Enumerated(scope), Enumerated(opts.deref),
                         Integer(opts.sizelimit), Integer(opts.timelimit),
                         Boolean(opts.typesonly), f, Sequence(OctetStrings(attrs))>>)
     : f \in parse(filt)}

-----------------------------------------------------------------------------
(***************************************************************************)
(* Request controls and extended requests.                                 *)
(***************************************************************************)
PagedResults(c) == encode_inner(Sequence(<<Integer(c.size), OctetString(c.cookie)>>))

RefreshMode == [RefreshOnly |-> 1, RefreshAndPersist |-> 3]
SyncRequest(c) ==
    encode_inner(Sequence(<<Enumerated(RefreshMode[c.mode])>> \o Pushed(OctetString, c.cookie)
                          \o (IF c.reload_hint THEN <<Boolean(TRUE)>> ELSE <<>>)))

from_read_entry(c) == encode_inner(Sequence(OctetStrings(c.attrs)))

from_assertion(c) == {encode_inner(f) : f \in parse(c.text)}
from_matched_values(c) == {encode_inner(f) : f \in parse_matched_values(c.text)}

\* The value of a control, if it has one
ControlValue(c) ==
    CASE c.name = "paged" -> {PagedResults(c)}
      [] c.name = "sync" -> {SyncRequest(c)}
      [] c.name \in {"preread", "postread"} -> {from_read_entry(c)}
      [] c.name = "assertion" -> from_assertion(c)
      [] c.name = "matched" -> from_matched_values(c)
      [] c.name \in {"proxy", "txn"} -> {c.id}
      [] c.name \in {"manage", "relax"} -> {}

\* From<...> for RawControl and critical()
RawControl(c) == [ctype |-> Oid[c.name], crit |-> c.crit \/ c.name \in {"proxy", "txn"},
                  val |-> ControlValue(c)]

build_tag(rc) ==
    Sequence(<<OctetString(rc.ctype)>> \o (IF rc.crit THEN <<Boolean(TRUE)>> ELSE <<>>)
             \o Pushed(OctetString, rc.val))

PasswordModify(x) ==
    LET pm_vec == Pushed(LAMBDA s : P(Context, 0, s), x.user_id)
                  \o Pushed(LAMBDA s : P(Context, 1, s), x.old_pass)
                  \o Pushed(LAMBDA s : P(Context, 2, s), x.new_pass)
    IN  IF pm_vec = <<>> THEN {} ELSE {encode_inner(Sequence(pm_vec))}

EndTxn(x) ==
    {encode_inner(Sequence((IF x.commit THEN <<>> ELSE <<Boolean(FALSE)>>)
                           \o <<OctetString(x.txn_id)>>))}

\* From<...> for Exop
Exop(x) == [name |-> Oid[x.name],
            val |-> CASE x.name = "passmod" -> PasswordModify(x)
                      [] x.name = "endtxn" -> EndTxn(x)
                      [] x.name \in {"whoami", "starttxn"} -> {}]

-----------------------------------------------------------------------------
(***************************************************************************)
(* The codec: LdapCodec::encode and decode_inner.                          *)
(***************************************************************************)
\* The control list is sent only when with_controls has been called
Encode(id, tag, controls) ==
    encode_inner(Sequence(<<Integer(id), tag>>
                          \o Pushed(LAMBDA cs : C(Context, 0, Mapped(build_tag, cs)), controls)))

\* Criticality is optional, and so is the value
ParsedControl(ctrl) ==
    UNION {UNION {
        LET second == Nth(parts, 2)
            crit == \E t \in second : t.id = BooleanType
            maybe_val == IF crit THEN Nth(parts, 3) ELSE second
            vals == expect_primitive(maybe_val)
        IN  IF \/ \E t \in second : t.id \notin {BooleanType, OctetStringType}
               \/ crit /\ expect_primitive(second) \in {{}, {<<>>}}
               \/ maybe_val # {} /\ vals = {}
            THEN {}
            ELSE {[ctype |-> ctype, val |-> vals,
                   crit |-> crit /\ \A v \in expect_primitive(second) : v[1] # 0]}
        : ctype \in Text(Nth(parts, 1))} : parts \in expect_constructed({ctrl})}

parse_controls(t) == UNION {Each(ParsedControl, ctrls) : ctrls \in expect_constructed({t})}

\* The components of a message.  Active Directory appends the identifier of a
\* Notice of Disconnection as another component, which is skipped.
Components(tags) ==
    LET last == Last(tags)
        has_controls == last.class = Context /\ last.id = 0
        n == Len(tags) - (IF last.class = Context /\ last.id \in {0, 10} THEN 1 ELSE 0)
    IN  [protoop |-> Nth(tags, n), id |-> Nth(tags, n - 1),
         controls |-> IF has_controls THEN {last} ELSE {}]

\* The message in a complete tag; {} is a decoding error or a panic
Message(tag) ==
    UNION {LET m == Components(tags)
           IN  UNION {UNION {{[id |-> id, protoop |-> op, controls |-> cs]
                              : id \in Number(m.id, IntegerType)}
                             : cs \in IF m.controls = {} THEN {<<>>}
                                      ELSE UNION {parse_controls(t) : t \in m.controls}}
                      : op \in m.protoop}
           : tags \in {ts \in expect_constructed(match_id({tag}, SequenceType)) : ts # <<>>}}

\* What is in the buffer: the first complete message, if there is one, and the rest
decode_inner(buf) == {[message |-> Message(r.tag), rest |-> r.rest] : r \in Parse(buf)}

-----------------------------------------------------------------------------
(***************************************************************************)
(* Results.                                                                *)
(***************************************************************************)
parse_refs(t) == UNION {Each(LAMBDA u : Text({u}), ts) : ts \in expect_constructed({t})}

\* The last element, if any: what a variable holds that each element overwrites
Final(s) == IF s = <<>> THEN {} ELSE {Last(s)}

\* From<Tag> for LdapResultExt.  Not here: Tag::Null, the answer the driver gives itself to a
\* Search that has been sent, to Abandon and to Unbind, becomes an empty success nobody reads.
LdapResultExt(tag) ==
    UNION {LET with(id) == SelectSeq(From(tags, 4), LAMBDA c : c.id = id)
               octets(c) == expect_primitive({c})
           IN  {[rc |-> rc, matched |-> matched, text |-> text, refs |-> FlattenSeq(refs),
                 exop |-> [name |-> Final(names), val |-> Final(vals)], creds |-> Final(creds)]
                : rc \in Number(Nth(tags, 1), EnumeratedType), matched \in Text(Nth(tags, 2)),
                  text \in Text(Nth(tags, 3)), refs \in Each(parse_refs, with(3)),
                  names \in Each(LAMBDA c : Text({c}), with(10)), vals \in Each(octets, with(11)),
                  creds \in Each(octets, with(7))}
           : tags \in expect_constructed({tag})}

success(rc) == rc = 0
non_error(rc) == rc \in {0, 10}

\* CompareResult
equal(rc) == CASE rc = 5 -> {FALSE} [] rc = 6 -> {TRUE} [] OTHER -> {}
compare_non_error(rc) == rc \in {5, 6, 10}

-----------------------------------------------------------------------------
(***************************************************************************)
(* Entries, intermediate messages, response controls and extended          *)
(* responses.                                                              *)
(***************************************************************************)
\* An attribute with a value that is no text has all of its values, those that
\* are text at the end, among the binary ones
Values(a_type, vals) ==
    LET binary == SelectSeq(vals, LAMBDA s : ~IsUtf8(s))
    IN  [type |-> a_type, binary |-> binary # <<>>,
         vals |-> binary \o SelectSeq(vals, IsUtf8)]

PartialAttributeValues(a_v) ==
    UNION {UNION {UNION {{Values(a_type, vals) : vals \in Each(LAMBDA t : expect_primitive({t}), ts)}
                         : ts \in UNION {expect_constructed({t}) : t \in Nth(part_attr, 2)}}
                  : a_type \in Text(Nth(part_attr, 1))}
           : part_attr \in expect_constructed({a_v})}

\* SearchEntry::construct; the attributes come in a sequence, with distinct types
construct(t) ==
    UNION {UNION {{[dn |-> dn, attrs |-> attrs]
                   : attrs \in UNION {UNION {Each(PartialAttributeValues, as)
                                             : as \in expect_constructed({u})} : u \in Nth(tags, 2)}}
                  : dn \in Text(Nth(tags, 1))}
           : tags \in expect_constructed(match_id({t}, 4))}

\* refreshDone is true unless the server says otherwise, refreshDeletes is not
DefaultFlag(id) == id # 3

\* The parts of a refresh value: a cookie first, then a flag, then a set, each optional
RefreshInfo(id, parts) ==
    LET rank(t) == CASE t.class = Universal /\ t.id = OctetStringType -> 1
                     [] t.class = Universal /\ t.id = BooleanType -> 2
                     [] t.class = Universal /\ t.id = SetType -> 3
                     [] OTHER -> 0
        part(r) == Final(SelectSeq(parts, LAMBDA t : rank(t) = r))
        flags == IF part(2) = {} THEN {DefaultFlag(id)}
                 ELSE {v[1] # 0 : v \in expect_primitive(part(2)) \ {<<>>}}
        uuids == IF part(3) = {} THEN {<<>>}
                 ELSE UNION {Each(LAMBDA u : expect_primitive({u}), us)
                             : us \in expect_constructed(part(3))}
    IN  IF \E pass \in DOMAIN parts : ~(pass <= rank(parts[pass])) THEN {}
        ELSE {[info |-> id, cookie |-> expect_primitive(part(1)), flag |-> f, uuids |-> ToSet(us)]
              : f \in flags, us \in uuids}

SyncInfo(value) ==
    IF value.id = 0 THEN {[info |-> 0, cookie |-> c] : c \in expect_primitive({value})}
    ELSE UNION {RefreshInfo(value.id, ps) : ps \in expect_constructed({value})}

\* The value comes behind the identifier, which must be the one of Sync Info
parse_syncinfo(t) ==
    UNION {LET i == SelectInSeq(tags, LAMBDA u : u.id = 1)
               named(u) == u.id = 0 /\ expect_primitive({u}) = {Oid.syncinfo}
           IN  IF i = 0 \/ \E k \in 1 .. i - 1 : ~named(tags[k]) THEN {}
               ELSE UNION {UNION {SyncInfo(r.tag)
                                  : r \in {x \in parse_tag(v) : x.tag.class = Context /\ x.tag.id < 4}}
                           : v \in expect_primitive({tags[i]})}
           : tags \in expect_constructed(match_id({t}, 25))}

Elements(val) == UNION {expect_constructed({r.tag}) : r \in parse_tag(val)}

PagedResultsParse(val) ==
    UNION {{[size |-> size, cookie |-> cookie]
            : size \in Number(Nth(ts, 1), IntegerType), cookie \in expect_primitive(Nth(ts, 2))}
           : ts \in Elements(val)}

SyncStateParse(val) ==
    UNION {{[state |-> state, uuid |-> uuid, cookie |-> Final(cookie)]
            : state \in Number(Nth(ts, 1), EnumeratedType) \cap 0 .. 3,
              uuid \in expect_primitive(Nth(ts, 2)),
              cookie \in Each(LAMBDA t : expect_primitive({t}), SetToSeq(Nth(ts, 3)))}
           : ts \in Elements(val)}

SyncDoneParse(val) ==
    UNION {LET with(id) == Each(LAMBDA t : expect_primitive({t}), SelectSeq(ts, LAMBDA t : t.id = id))
           IN  {[cookie |-> Final(cookies), refresh_deletes |-> \E v \in Final(flags) : v[1] # 0]
                : cookies \in with(OctetStringType),
                  flags \in {fs \in with(BooleanType) : ~Contains(fs, <<>>)}}
           : ts \in {us \in Elements(val) : \A u \in ToSet(us) : u.id \in {OctetStringType, BooleanType}}}

ReadEntryParse(val) == UNION {{e.attrs : e \in construct(r.tag)} : r \in parse_tag(val)}

\* WhoAmIResp and StartTxnResp: the value itself, as text
WhoAmIRespParse(val) == {v \in {val} : IsUtf8(v)}

PasswordModifyRespParse(val) ==
    UNION {Text(match_id(match_class(Nth(ts, 1), Context), 0)) : ts \in Elements(val)}

\* The pairs of a message id and its controls, the last pair first
RECURSIVE PairsFromEnd(_)
PairsFromEnd(tags) ==
    IF tags = <<>> THEN {<<>>}
    ELSE UNION {UNION {{<<[msg_id |-> id, controls |-> cs]>> \o rest
                        : rest \in PairsFromEnd(SubSeq(tags, 1, Len(tags) - 2))}
                       : id \in Number(Nth(tags, Len(tags) - 1), IntegerType)}
                : cs \in parse_controls(Last(tags))}

\* A message id, then the controls of the updates; each is optional
EndTxnRespParse(val) ==
    UNION {LET updates(t) == t.class = Universal /\ t.id = SequenceType /\ ~IsPrimitive(t)
               ids == SelectSeq(ts, LAMBDA t : ~updates(t))
               msg_ids == Each(LAMBDA t : Number({t}, IntegerType), ids)
               pairs == IF ids = ts THEN {{}}
                        ELSE IF Len(ids) + 1 = Len(ts) /\ updates(Last(ts))
                        THEN {{ps} : ps \in PairsFromEnd(Last(ts).parts)} ELSE {}
           IN  {[msg_id |-> Final(ns), upds_ctrls |-> ps] : ns \in msg_ids, ps \in pairs}
           : ts \in Elements(val)}
=============================================================================
