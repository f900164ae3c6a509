------------------------------- MODULE Filter -------------------------------
(***************************************************************************)
(* The parser of search filters, filter.rs, and the escapes of util.rs     *)
(* which share its Unescaper.  Text is a sequence of octets.  A parser     *)
(* yields the set of its results, a record of what it has read (out) and   *)
(* the rest of the input; the set is empty when the parser fails.          *)
(***************************************************************************)
EXTENDS Ber

AND_FILT == 0
OR_FILT == 1
NOT_FILT == 2
EQ_MATCH == 3
SUBSTR_MATCH == 4
GTE_MATCH == 5
LTE_MATCH == 6
PRES_MATCH == 7
APPROX_MATCH == 8
EXT_MATCH == 9
SUB_INITIAL == 0
SUB_ANY == 1
SUB_FINAL == 2

\* The characters with a meaning of their own, as octets
Ch == [nul |-> 0, space |-> 32, bang |-> 33, quote |-> 34, hash |-> 35, percent |-> 37,
       amp |-> 38, lpar |-> 40, rpar |-> 41, star |-> 42, plus |-> 43, comma |-> 44,
       hyphen |-> 45, dot |-> 46, slash |-> 47, zero |-> 48, colon |-> 58, semi |-> 59,
       less |-> 60, equals |-> 61, greater |-> 62, qmark |-> 63, backslash |-> 92,
       bar |-> 124, tilde |-> 126]

\* ":dn"
DnFlag == <<Ch.colon, 100, 110>>

\* The tests of characters, as the sets of those that pass
is_digit == 48 .. 57
is_alphabetic == 65 .. 90 \cup 97 .. 122
is_hex_digit == 48 .. 57 \cup 65 .. 70 \cup 97 .. 102
is_alnum_hyphen == is_digit \cup is_alphabetic \cup {Ch.hyphen}

\* Characters that stand for themselves in a value; a backslash begins an escape
is_value_char == 0 .. 255 \ {Ch.nul, Ch.lpar, Ch.rpar, Ch.star}

-----------------------------------------------------------------------------
(***************************************************************************)
(* The combinators of nom.                                                 *)
(***************************************************************************)
Result(out, rest) == [out |-> out, rest |-> rest]

\* alt: the first alternative that succeeds
Alt(first, second) == IF first # {} THEN first ELSE second

\* tag: the text s itself
Literal(s, i) == IF IsPrefix(s, i) THEN {Result(s, From(i, Len(s) + 1))} ELSE {}

\* take_while: as many characters as pass the test
TakeWhile(test, i) ==
    LET stops == {k \in DOMAIN i : i[k] \notin test}
        n == IF stops = {} THEN Len(i) ELSE Min(stops) - 1
    IN  Result(SubSeq(i, 1, n), From(i, n + 1))

\* What was read before is put in front of what a parser has read: text or a list
Joined(before, results) == {Result(before \o r.out, r.rest) : r \in results}

\* terminated: a character behind what a parser has read
Closed(c, results) == UNION {{Result(r.out, l.rest) : l \in Literal(<<c>>, r.rest)} : r \in results}

-----------------------------------------------------------------------------
(***************************************************************************)
(* Attribute descriptions: a type, by number or by name, and options.      *)
(***************************************************************************)
number(i) ==
    LET d == TakeWhile(is_digit, i)
    IN  IF d.out # <<>> /\ (Len(d.out) = 1 \/ d.out[1] # Ch.zero) THEN {d} ELSE {}

\* many0(preceded(separator, part)), as text
RECURSIVE Parts(_, _, _)
Parts(sep, numeric, i) ==
    LET part(j) == IF numeric THEN number(j)
                   ELSE {r \in {TakeWhile(is_alnum_hyphen, j)} : r.out # <<>>}
    IN  Alt(UNION {UNION {Joined(<<sep>> \o p.out, Parts(sep, numeric, p.rest))
                          : p \in part(s.rest)} : s \in Literal(<<sep>>, i)},
            {Result(<<>>, i)})

numericoid(i) == UNION {Joined(n.out, Parts(Ch.dot, TRUE, n.rest)) : n \in number(i)}

descr(i) == IF i # <<>> /\ i[1] \in is_alphabetic THEN {TakeWhile(is_alnum_hyphen, i)} ELSE {}

attributetype(i) == Alt(numericoid(i), descr(i))

attributedescription(i) ==
    UNION {Joined(a.out, Parts(Ch.semi, FALSE, a.rest)) : a \in attributetype(i)}

-----------------------------------------------------------------------------
(***************************************************************************)
(* Unescaper: \NN stands for the octet NN.                                 *)
(***************************************************************************)
\* c & 0x20 is 0x20 for a lower-case letter and 0 for a capital
HexValue(c) == IF c <= 57 THEN c - Ch.zero ELSE c - ((IF c >= 96 THEN 32 ELSE 0) + 65 - 10)

feed(u, c) ==
    CASE u.want = "value" -> IF c # Ch.backslash THEN [want |-> "value", v |-> c]
                             ELSE [want |-> "first", v |-> 0]
      [] u.want = "first" /\ c \in is_hex_digit -> [want |-> "second", v |-> HexValue(c)]
      [] u.want = "second" /\ c \in is_hex_digit ->
            [want |-> "value", v |-> u.v * 16 + HexValue(c)]
      [] OTHER -> [want |-> "error", v |-> 0]

\* The state of an Unescaper fed with all of s, and the values it has produced
Unescape(s) ==
    LET fed[k \in 0 .. Len(s)] ==
            IF k = 0 THEN [u |-> [want |-> "value", v |-> 0], out |-> <<>>]
            ELSE LET acc == fed[k - 1]
                     u == feed(acc.u, s[k])
                 IN  [u |-> u, out |-> IF u.want = "value" THEN Append(acc.out, u.v) ELSE acc.out]
    IN  fed[Len(s)]

unescaped(i) ==
    LET value == TakeWhile(is_value_char, i)
        fed == Unescape(value.out)
    IN  IF fed.u.want = "value" THEN {Result(fed.out, value.rest)} ELSE {}

-----------------------------------------------------------------------------
(***************************************************************************)
(* Items: equality, presence, substrings, orderings, extensible match.     *)
(***************************************************************************)
AttributeValue(id, attr, value) == C(Context, id, <<OctetString(attr), OctetString(value)>>)

\* An attribute, an operator and a value, and the tag with the given id they become
Assertion(op, id, i) ==
    UNION {UNION {{Result(AttributeValue(id, a.out, v.out), v.rest) : v \in unescaped(o.rest)}
                  : o \in Literal(op, a.rest)}
           : a \in attributedescription(i)}

non_eq(i) ==
    Alt(Assertion(<<Ch.greater, Ch.equals>>, GTE_MATCH, i),
    Alt(Assertion(<<Ch.less, Ch.equals>>, LTE_MATCH, i),
        Assertion(<<Ch.tilde, Ch.equals>>, APPROX_MATCH, i)))

\* many0(preceded("*", unescaped)): the values behind the asterisks
RECURSIVE AfterStars(_)
AfterStars(i) ==
    Alt(UNION {UNION {Joined(<<v.out>>, AfterStars(v.rest))
                      : v \in unescaped(s.rest)} : s \in Literal(<<Ch.star>>, i)},
        {Result(<<>>, i)})

\* Only the last component may be empty, and then it is none
SubstringParts(initial, mid_final) ==
    (IF initial = <<>> THEN <<>> ELSE <<P(Context, SUB_INITIAL, initial)>>) \o
    SelectSeq([k \in DOMAIN mid_final |->
                  P(Context, IF k < Len(mid_final) THEN SUB_ANY ELSE SUB_FINAL, mid_final[k])],
              LAMBDA part : part.octets # <<>>)

EqTag(attr, initial, mid_final) ==
    CASE mid_final = <<>> -> AttributeValue(EQ_MATCH, attr, initial)
      [] initial = <<>> /\ mid_final = <<<<>>>> -> P(Context, PRES_MATCH, attr)
      [] OTHER -> C(Context, SUBSTR_MATCH, <<OctetString(attr),
                                             Sequence(SubstringParts(initial, mid_final))>>)

eq(i) ==
    UNION {UNION {UNION {
        {Result(EqTag(a.out, v.out, m.out), m.rest)
         : m \in {x \in AfterStars(v.rest) : \A k \in 1 .. Len(x.out) - 1 : x.out[k] # <<>>}}
        : v \in unescaped(e.rest)} : e \in Literal(<<Ch.equals>>, a.rest)}
        : a \in attributedescription(i)}

\* opt: the parser, or nothing read; the out of both is a set
Some(results) == {Result({r.out}, r.rest) : r \in results}
Opt(results, i) == Alt(Some(results), {Result({}, i)})

\* preceded(":", attributetype)
MRule(i) == UNION {attributetype(c.rest) : c \in Literal(<<Ch.colon>>, i)}

extensible_tag(mrule, attr, value, dn) ==
    C(Context, EXT_MATCH,
      SetToSeq({P(Context, 1, m) : m \in mrule}) \o SetToSeq({P(Context, 2, a) : a \in attr})
      \o <<P(Context, 3, value)>> \o (IF dn THEN <<P(Context, 4, <<255>>)>> ELSE <<>>))

\* What follows an attribute (a set of at most one) in an extensible match
ExtensibleRest(attr, i) ==
    UNION {UNION {UNION {
        {Result(extensible_tag(m.out, attr, v.out, d.out # {}), v.rest) : v \in unescaped(e.rest)}
        : e \in Literal(<<Ch.colon, Ch.equals>>, m.rest)}
        : m \in IF attr # {} THEN Opt(MRule(d.rest), d.rest) ELSE Some(MRule(d.rest))}
        : d \in Opt(Literal(DnFlag, i), i)}

attr_dn_mrule(i) == UNION {ExtensibleRest({a.out}, a.rest) : a \in attributedescription(i)}
dn_mrule(i) == ExtensibleRest({}, i)
extensible(i) == Alt(attr_dn_mrule(i), dn_mrule(i))

item(i) == Alt(eq(i), Alt(non_eq(i), extensible(i)))

-----------------------------------------------------------------------------
(***************************************************************************)
(* Filters.                                                                *)
(***************************************************************************)
RECURSIVE filter(_), filterlist(_)
\* and, or, not, item
filtercomp(i) ==
    LET list(c, id) == UNION {{Result(C(Context, id, f.out), f.rest) : f \in filterlist(r.rest)}
                              : r \in Literal(<<c>>, i)}
        not == UNION {{Result(ExplicitTag(Context, NOT_FILT, f.out), f.rest) : f \in filter(r.rest)}
                      : r \in Literal(<<Ch.bang>>, i)}
    IN  Alt(list(Ch.amp, AND_FILT), Alt(list(Ch.bar, OR_FILT), Alt(not, item(i))))

filter(i) ==
    UNION {Closed(Ch.rpar, filtercomp(p.rest)) : p \in Literal(<<Ch.lpar>>, i)}

filterlist(i) ==
    Alt(UNION {Joined(<<f.out>>, filterlist(f.rest)) : f \in filter(i)}, {Result(<<>>, i)})

\* The items of a matched values filter, at least one
RECURSIVE mv_filteritems(_)
mv_filteritems(i) ==
    UNION {UNION {Joined(<<f.out>>, Alt(mv_filteritems(f.rest), {Result(<<>>, f.rest)}))
                  : f \in Closed(Ch.rpar, item(p.rest))}
           : p \in Literal(<<Ch.lpar>>, i)}

mv_filtexpr(i) ==
    UNION {Closed(Ch.rpar, {Result(Sequence(r.out), r.rest) : r \in mv_filteritems(p.rest)})
           : p \in Literal(<<Ch.lpar>>, i)}

filtexpr(i) == Alt(filter(i), item(i))

\* Everything must have been read
parse(input) == {r.out : r \in {x \in filtexpr(input) : x.rest = <<>>}}
parse_matched_values(input) == {r.out : r \in {x \in mv_filtexpr(input) : x.rest = <<>>}}
=============================================================================
