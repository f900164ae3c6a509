---------------------------- MODULE Application ----------------------------
(***************************************************************************)
(* The two ends of the library, as an application meets them: what it      *)
(* passes to the operations of Ldap (filters, names and URLs, written with *)
(* the help of ldap_escape and dn_escape), the protocol operations and     *)
(* controls that the library makes of it, and what the parsers of the      *)
(* library make of a reply.  Operations is parameterised by these          *)
(* operators and by the codec.                                             *)
(***************************************************************************)
EXTENDS Server

-----------------------------------------------------------------------------
(***************************************************************************)
(* What the application writes.                                            *)
(***************************************************************************)
Operator == [eq |-> <<Ch.equals>>, ge |-> <<Ch.greater, Ch.equals>>, le |-> <<Ch.less, Ch.equals>>,
             approx |-> <<Ch.tilde, Ch.equals>>, and |-> <<Ch.amp>>, or |-> <<Ch.bar>>,
             not |-> <<Ch.bang>>]

RECURSIVE FilterText(_)
FilterText(f) ==
    LET list(opt, prefix) == FlattenSeq(SetToSeq({prefix \o s : s \in opt}))
    IN  <<Ch.lpar>> \o
        (CASE f.f \in {"and", "or", "not"} ->
                Operator[f.f] \o FlattenSeq([i \in DOMAIN f.of |-> FilterText(f.of[i])])
           [] f.f = "present" -> f.attr \o <<Ch.equals, Ch.star>>
           [] f.f = "substr" ->
                f.attr \o <<Ch.equals>> \o FlattenSeq([i \in DOMAIN f.parts |->
                    (IF f.parts[i].at = "initial" THEN <<>> ELSE <<Ch.star>>)
                    \o ldap_escape(f.parts[i].value)])
                \o (IF Last(f.parts).at = "final" THEN <<>> ELSE <<Ch.star>>)
           [] f.f = "ext" ->
                list(f.type, <<>>) \o (IF f.dn THEN DnFlag ELSE <<>>) \o list(f.rule, <<Ch.colon>>)
                \o <<Ch.colon>> \o list({ldap_escape(v) : v \in f.val}, <<Ch.equals>>)
           [] OTHER -> f.attr \o Operator[f.f] \o ldap_escape(f.value))
        \o <<Ch.rpar>>

\* A control as the application gives it, with the text of its filters
WithText(c) ==
    IF c.name \notin {"assertion", "matched"} THEN c
    ELSE LET texts == FlattenSeq([i \in DOMAIN c.filters |-> FilterText(c.filters[i])])
         IN  [name |-> c.name, crit |-> c.crit,
              text |-> IF c.name = "assertion" THEN texts ELSE <<Ch.lpar>> \o texts \o <<Ch.rpar>>]

RdnText(d) == d.type \o <<Ch.equals>> \o dn_escape(d.value)

Percent(s) ==
    FlattenSeq([i \in DOMAIN s |->
        IF s[i] \in {Ch.percent, Ch.qmark, Ch.space, Ch.comma} \/ s[i] \in 128 .. 255
        THEN <<Ch.percent>> \o Tail(Escaped(s[i])) ELSE <<s[i]>>])

UrlText(u) ==
    LET attrs == FlattenSeq([i \in DOMAIN u.attrs |->
                    (IF i = 1 THEN <<>> ELSE <<Ch.comma>>) \o u.attrs[i]])
    IN  [path |-> <<Ch.slash>> \o Percent(u.base),
         query |-> attrs \o <<Ch.qmark>> \o u.scope \o <<Ch.qmark>>
                   \o FlattenSeq(SetToSeq({Percent(FilterText(f)) : f \in u.filter}))
                   \o <<Ch.qmark>> \o FlattenSeq(
                        [i \in DOMAIN u.exts |-> (IF i = 1 THEN <<>> ELSE <<Ch.comma>>)
                            \o u.exts[i].name \o <<Ch.equals>> \o Percent(u.exts[i].val)])]

-----------------------------------------------------------------------------
(***************************************************************************)
(* What becomes of it.                                                     *)
(***************************************************************************)
\* The values in the orders a HashSet may yield them
Ordered(attrs) ==
    {[i \in DOMAIN attrs |-> [attrs[i] EXCEPT !.vals = order[i]]]
     : order \in {o \in [DOMAIN attrs -> UNION {SetToSeqs(attrs[i].vals) : i \in DOMAIN attrs}] :
                    \A i \in DOMAIN attrs : ToSet(o[i]) = attrs[i].vals}}

\* The protocol operation of each request
RequestTags(r) ==
    CASE r.op = "simple_bind" -> {simple_bind(r.dn, r.pw)}
      [] r.op = "sasl_bind" -> {sasl_bind_req(Oid[r.mech], r.creds)}
      [] r.op = "add" -> {add(RdnText(r.name), attrs) : attrs \in Ordered(r.attrs)}
      [] r.op = "modify" -> {modify(r.dn, mods) : mods \in Ordered(r.mods)}
      [] r.op = "compare" -> {compare(r.dn, r.attr, r.val)}
      [] r.op = "delete" -> {delete(r.dn)}
      [] r.op = "modifydn" -> {modifydn(r.dn, RdnText(r.rdn), r.delete_old, r.new_sup)}
      [] r.op = "extended" -> {extended(Exop(r.exop))}
      [] r.op = "unbind" -> {unbind}
      [] r.op = "abandon" -> {abandon(r.msgid)}

\* That of a Search, unless its filter is refused
ParamTags(p, opts) == search(p.base, p.scope, opts, p.filter, p.attrs)

\* The parameters of a Search with the text of its filter as it should be, and without the
\* first character
AsText(r) == [r EXCEPT !.filter = FilterText(r.filter)]
AsGarbledText(r) == [r EXCEPT !.filter = Tail(FilterText(r.filter))]

ParamsOfUrl(u) == get_url_params(UrlText(u))

ControlsGiven(cs) == [i \in DOMAIN cs |-> RawControl(WithText(cs[i]))]

\* The octets of an answer that consists of several messages
WriteMessages(form, id, ms) == FlattenSeq([i \in DOMAIN ms |-> WriteMessage(form, id, ms[i])])

-----------------------------------------------------------------------------
(***************************************************************************)
(* What the caller gets.                                                   *)
(***************************************************************************)
\* What the caller makes of a reply, {} when one of the library's parsers panics.  The
\* parser of a control is chosen by its type, that of an extended response by the request.
Unordered(attrs) == {[attrs[i] EXCEPT !.vals = ToSet(attrs[i].vals)] : i \in DOMAIN attrs}

TakenControl(rc) ==
    LET name == NameOf(rc.ctype)
        parsed(v) == CASE name = "paged" -> PagedResultsParse(v)
                       [] name = "syncstate" -> SyncStateParse(v)
                       [] name = "syncdone" -> SyncDoneParse(v)
                       [] name = "preread" -> {Unordered(as) : as \in ReadEntryParse(v)}
    IN  {[name |-> name, crit |-> rc.crit, value |-> v] : v \in UNION {parsed(octets) : octets \in rc.val}}

TakenUpdates(pairs) ==
    {{[msg_id |-> pairs[i].msg_id, controls |-> CHOOSE cs \in Each(TakenControl, pairs[i].controls) : TRUE]
      : i \in DOMAIN pairs}}

TakenExop(name, v) ==
    CASE name = "passmod" -> {[name |-> name, gen_pass |-> p] : p \in PasswordModifyRespParse(v)}
      [] name = "endtxn" -> {[name |-> name, msg_id |-> r.msg_id,
                              upds_ctrls |-> UNION {TakenUpdates(ps) : ps \in r.upds_ctrls}]
                             : r \in EndTxnRespParse(v)}
      [] OTHER -> {[name |-> name, text |-> t] : t \in WhoAmIRespParse(v)}

TakenResult(tag, name) ==
    {[app |-> tag.id, rc |-> r.rc, matched |-> r.matched, text |-> r.text, refs |-> r.refs,
      creds |-> r.creds, exop |-> UNION {TakenExop(name, v) : v \in r.exop.val},
      outcome |-> IF tag.id = 15
                  THEN CASE equal(r.rc) = {TRUE} -> "true"
                         [] equal(r.rc) = {FALSE} -> "false"
                         [] OTHER -> IF compare_non_error(r.rc) THEN "referral" ELSE "error"
                  ELSE CASE success(r.rc) -> "success"
                         [] ~success(r.rc) /\ non_error(r.rc) -> "referral"
                         [] OTHER -> "error"]
     : r \in {x \in LdapResultExt(tag) : x.exop.name \subseteq {Oid[name]}}}

Taken(d, name) ==
    UNION {CASE d.tag.id = 4 -> UNION {LET rdn == splitn(2, Ch.equals, e.dn)
                                       IN  {[kind |-> "entry", dn |-> [type |-> rdn[1], value |-> v],
                                             attrs |-> Unordered(e.attrs), controls |-> cs]
                                            : v \in ldap_unescape(rdn[2])}
                                       : e \in construct(d.tag)}
             [] d.tag.id = 19 -> {[kind |-> "reference", refs |-> rs, controls |-> cs]
                                  : rs \in parse_refs(d.tag)}
             [] d.tag.id = 25 -> {[kind |-> "info", info |-> i, controls |-> cs]
                                  : i \in parse_syncinfo(d.tag)}
             [] OTHER -> {[kind |-> "result", result |-> r, controls |-> cs]
                          : r \in TakenResult(d.tag, name)}
           : cs \in Each(TakenControl, d.controls)}

ExopName(m) ==
    IF m.kind = "result" /\ m.result.exop # {} THEN (CHOOSE x \in m.result.exop : TRUE).name
    ELSE "whoami"

TakenReply(d, m) == Taken(d, ExopName(m))
=============================================================================
