------------------------------- MODULE Escape -------------------------------
(***************************************************************************)
(* The helpers of util.rs: escaping of literals for filters and for names, *)
(* unescaping, and the parameters of an LDAP URL.  A word of which only    *)
(* its identity matters (the name of a scope or of an extension) is one    *)
(* symbol above the octets; Capitals writes the same word in capitals.     *)
(***************************************************************************)
EXTENDS Filter

Word == [base |-> 1001, one |-> 1002, sub |-> 1003, credentials |-> 1004, saslmech |-> 1005,
         starttls |-> 1006, bindname |-> 1007, xbindpw |-> 1008, other |-> 1009]
Capitals(w) == w + 1000
to_ascii_lowercase(w) == IF w > 2000 THEN w - 1000 ELSE w

\* std::str::from_utf8, for characters of one and of two octets
IsUtf8(s) ==
    \A i \in DOMAIN s :
        \/ s[i] \notin 128 .. 255
        \/ s[i] \in 194 .. 223 /\ i < Len(s) /\ s[i + 1] \in 128 .. 191
        \/ s[i] \in 128 .. 191 /\ i > 1 /\ s[i - 1] \in 194 .. 223

xdigit(c) == c + IF c < 10 THEN Ch.zero ELSE 97 - 10
Escaped(c) == <<Ch.backslash, xdigit(c \div 16), xdigit(c % 16)>>

needs_escape(c) == c \in {Ch.backslash, Ch.star, Ch.lpar, Ch.rpar, Ch.nul}

ldap_escape(lit) ==
    FlattenSeq([i \in DOMAIN lit |-> IF needs_escape(lit[i]) THEN Escaped(lit[i])
                                     ELSE <<lit[i]>>])

always_escape(c) == c \in {Ch.quote, Ch.plus, Ch.comma, Ch.semi, Ch.less, Ch.equals,
                           Ch.greater, Ch.backslash, Ch.nul}
escape_leading(c) == c \in {Ch.space, Ch.hash}
escape_trailing(c) == c = Ch.space

dn_escape(val) ==
    FlattenSeq([i \in DOMAIN val |->
                   IF \/ always_escape(val[i])
                      \/ i = 1 /\ escape_leading(val[i])
                      \/ i = Len(val) /\ escape_trailing(val[i])
                   THEN Escaped(val[i]) ELSE <<val[i]>>])

\* The value is returned as it is unless it contains a backslash
ldap_unescape(val) ==
    LET fed == Unescape(val)
    IN  IF ~Contains(val, Ch.backslash) THEN {val}
        ELSE IF fed.u.want = "value" /\ IsUtf8(fed.out) THEN {fed.out} ELSE {}

-----------------------------------------------------------------------------
(***************************************************************************)
(* get_url_params.                                                         *)
(***************************************************************************)
RECURSIVE splitn(_, _, _)
splitn(n, sep, s) ==
    LET at == {k \in DOMAIN s : s[k] = sep}
    IN  IF n = 1 \/ at = {} THEN <<s>>
        ELSE <<SubSeq(s, 1, Min(at) - 1)>> \o splitn(n - 1, sep, From(s, Min(at) + 1))
Split(sep, s) == splitn(Len(s) + 1, sep, s)

\* percent_decode_str: a percent sign without two hexadecimal digits stands for itself
RECURSIVE percent_decode_str(_)
percent_decode_str(s) ==
    CASE s = <<>> -> <<>>
      [] Len(s) >= 3 /\ s[1] = Ch.percent /\ {s[2], s[3]} \subseteq is_hex_digit ->
            <<HexValue(s[2]) * 16 + HexValue(s[3])>> \o percent_decode_str(From(s, 4))
      [] OTHER -> <<s[1]>> \o percent_decode_str(Tail(s))

\* percent_decode_str(s).decode_utf8()
Decoded(s) == {t \in {percent_decode_str(s)} : IsUtf8(t)}

ascii_lc_equal(s, t) == Len(t) = 1 /\ s = to_ascii_lowercase(t[1])

\* The extension of a name and a value; {} stands for the error on an unknown critical one
Extension(crit, id, val) ==
    CASE id = <<Word.credentials>> -> {[ext |-> "Credentials", val |-> val]}
      [] id = <<Word.saslmech>> -> {[ext |-> "SaslMech", val |-> val]}
      [] id = <<Word.starttls>> -> {[ext |-> "StartTLS", val |-> <<>>]}
      [] ascii_lc_equal(Word.bindname, id) -> {[ext |-> "Bindname", val |-> val]}
      [] ascii_lc_equal(Word.xbindpw, id) -> {[ext |-> "XBindpw", val |-> val]}
      [] OTHER -> IF crit THEN {} ELSE {[ext |-> "Unknown", val |-> <<>>]}

ParsedExtension(ext) ==
    LET idv == splitn(2, Ch.equals, ext)
        crit == idv[1] # <<>> /\ idv[1][1] = Ch.bang
        id == IF crit THEN Tail(idv[1]) ELSE idv[1]
    IN  UNION {Extension(crit, id, v) : v \in Decoded(IF Len(idv) = 2 THEN idv[2] ELSE <<>>)}

\* LdapUrlExt::eq
SameExt(e, f) == e.ext = f.ext

\* All of them, or the error of one.  Of equal ones the set keeps the first.
Extensions(exts) ==
    LET parsed == [i \in DOMAIN exts |-> ParsedExtension(exts[i])]
        kept == [i \in DOMAIN exts |-> CHOOSE e \in parsed[i] : TRUE]
    IN  IF \E i \in DOMAIN exts : parsed[i] = {} THEN {}
        ELSE {{kept[i] : i \in {j \in DOMAIN exts : /\ kept[j].ext # "Unknown"
                                                    /\ \A k \in 1 .. j - 1 : ~SameExt(kept[k], kept[j])}}}

ScopeOf(s) ==
    CASE s \in {<<>>, <<Word.sub>>} -> {2}
      [] s = <<Word.one>> -> {1}
      [] s = <<Word.base>> -> {0}
      [] OTHER -> {}

objectClass == <<111, 98, 106, 101, 99, 116, 67, 108, 97, 115, 115>>
AnyEntry == <<Ch.lpar>> \o objectClass \o <<Ch.equals, Ch.star, Ch.rpar>>

get_url_params(url) ==
    LET query == splitn(4, Ch.qmark, url.query)
        part(i) == IF i \in DOMAIN query THEN query[i] ELSE <<>>
        path == IF url.path # <<>> /\ url.path[1] = Ch.slash THEN Tail(url.path) ELSE url.path
    IN  {[base |-> b, scope |-> s, filter |-> f, extensions |-> e,
          attrs |-> IF part(1) = <<>> THEN <<<<Ch.star>>>> ELSE Split(Ch.comma, part(1))]
         : b \in Decoded(path), s \in ScopeOf(part(2)),
           f \in IF part(3) = <<>> THEN {AnyEntry} ELSE Decoded(part(3)),
           e \in IF part(4) = <<>> THEN {{}} ELSE Extensions(Split(Ch.comma, part(4)))}
=============================================================================
