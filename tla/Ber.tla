-------------------------------- MODULE Ber --------------------------------
(***************************************************************************)
(* BER encoding and decoding as the crate lber does it: whole values,      *)
(* which may be nested (BerHeaders has the parts that are not).            *)
(***************************************************************************)
EXTENDS BerHeaders, SequencesExt

match_class(opt, class) == {t \in opt : t.class = class}
match_id(opt, id) == {t \in opt : t.id = id}
expect_constructed(opt) == {t.parts : t \in {u \in opt : ~IsPrimitive(u)}}
expect_primitive(opt) == {t.octets : t \in {u \in opt : IsPrimitive(u)}}

\* Iterator::next on the elements of a sequence: the i-th of them, if any
Nth(s, i) == IF i \in DOMAIN s THEN {s[i]} ELSE {}

-----------------------------------------------------------------------------
(***************************************************************************)
(* Values and the tags they become (structures/).                          *)
(***************************************************************************)
OctetString(s) == P(Universal, OctetStringType, s)
Boolean(b) == P(Universal, BooleanType, IF b THEN <<255>> ELSE <<0>>)
Null(class, id) == P(class, id, <<>>)
Sequence(parts) == C(Universal, SequenceType, parts)
Set(parts) == C(Universal, SetType, parts)
ExplicitTag(class, id, inner) == C(class, id, <<inner>>)

i_e_into_structure(id, class, inner) == P(class, id, BeOctets(inner, i_e_count(inner)))

Integer(n) == i_e_into_structure(IntegerType, Universal, n)
Enumerated(n) == i_e_into_structure(EnumeratedType, Universal, n)

-----------------------------------------------------------------------------
(***************************************************************************)
(* Writing (write.rs).                                                     *)
(***************************************************************************)
RECURSIVE encode_inner(_)
encode_inner(t) ==
    LET content == IF IsPrimitive(t) THEN t.octets
                   ELSE FlattenSeq([i \in DOMAIN t.parts |-> encode_inner(t.parts[i])])
    IN  write_type(t) \o write_length(Len(content)) \o content

-----------------------------------------------------------------------------
(***************************************************************************)
(* Reading (parse.rs).                                                     *)
(***************************************************************************)
RECURSIVE parse_tag(_), parse_tags(_)
parse_tag(i) ==
    UNION {UNION {
        LET content == SubSeq(l.rest, 1, l.len)
            done(tag) == [tag |-> tag, rest |-> From(l.rest, l.len + 1)]
        IN  CASE Len(l.rest) < l.len -> {}
              [] Len(l.rest) >= l.len /\ ~h.constructed -> {done(P(h.class, h.id, content))}
              [] Len(l.rest) >= l.len /\ h.constructed ->
                    {done(C(h.class, h.id, tags)) : tags \in parse_tags(content)}
        : l \in parse_length(h.rest)} : h \in parse_type_header(i)}

\* The elements of a constructed value, until its content is used up
parse_tags(content) ==
    IF content = <<>> THEN {<<>>}
    ELSE UNION {{<<r.tag>> \o tags : tags \in parse_tags(r.rest)} : r \in parse_tag(content)}

\* Parser::parse: no input is incomplete input, as for parse_tag
Parse(input) == parse_tag(input)
=============================================================================
