---------------------------- MODULE MCOperations ----------------------------
(***************************************************************************)
(* An instance of Operations.  Texts are short, a name of an attribute is  *)
(* a letter; the values are those at which an encoding changes its form:   *)
(* characters that must be escaped, lengths around 128 and 256, integers   *)
(* around the powers of 256 and their halves, options present and absent.  *)
(***************************************************************************)
EXTENDS Application, Operations

a == <<97>>
b == <<98>>
c == <<99>>

\* ( * \ ) NUL, an A in hexadecimal and a letter of two octets; names that need all of dn_escape
Tricky == <<40, 42, 92, 41, 0, 92, 52, 49, 195, 169>>
Spaced == <<32, 35, 32>>
Special == <<35, 44, 61, 92, 43, 34, 59, 60, 62, 0, 32>>
NotText == <<255, 0>>
Long(n) == [i \in 1 .. n |-> 97]

Eq(attr, v) == [f |-> "eq", attr |-> attr, value |-> v]
Nested ==
    [f |-> "and", of |-> <<Eq(a, Tricky),
        [f |-> "not", of |-> <<[f |-> "present", attr |-> b]>>],
        [f |-> "or", of |-> <<[f |-> "ge", attr |-> a, value |-> <<61>>],
                              [f |-> "le", attr |-> a, value |-> <<>>],
                              [f |-> "approx", attr |-> a \o <<59>> \o b, value |-> <<124>>]>>]>>]
Part(at, v) == [at |-> at, value |-> v]
Substrings ==
    [f |-> "and", of |-> <<
        [f |-> "substr", attr |-> a, parts |-> <<Part("initial", b), Part("any", <<42>>), Part("final", c)>>],
        [f |-> "substr", attr |-> a, parts |-> <<Part("any", b), Part("any", c)>>],
        [f |-> "substr", attr |-> a, parts |-> <<Part("final", <<92>>)>>]>>]
Ext(attr, dn, rule, v) == [f |-> "ext", type |-> attr, dn |-> dn, rule |-> rule, val |-> {v}]
Extensible ==
    [f |-> "and", of |-> <<Ext({a}, TRUE, {b}, c), Ext({}, TRUE, {<<50, 46, 53>>}, <<42>>),
                           Ext({a}, FALSE, {}, c), Ext({}, FALSE, {b}, <<>>)>>]

SearchFor(base, scope, f, attrs) ==
    [op |-> "search", base |-> base, scope |-> scope, filter |-> f, attrs |-> attrs]
Attr(type, vals) == [type |-> type, vals |-> vals]
Change(mod, type, vals) == [mod |-> mod, type |-> type, vals |-> vals]
Named(value) == [type |-> c, value |-> value]
Exop1(x) == [op |-> "extended", exop |-> x]
PassMod(u, o, n) == [name |-> "passmod", user_id |-> u, old_pass |-> o, new_pass |-> n]

MCRequests ==
    {[op |-> "simple_bind", dn |-> a, pw |-> Tricky],
     [op |-> "add", name |-> Named(Special), attrs |-> <<Attr(a, {b, NotText}), Attr(b, {<<>>})>>],
     [op |-> "add", name |-> Named(b), attrs |-> <<Attr(a, {b}), Attr(b, {})>>],
     [op |-> "modify", dn |-> a, mods |-> <<Change("Add", a, {b}), Change("Delete", b, {}),
                                            Change("Replace", c, {a, b}), Change("Increment", a, {<<49>>})>>],
     [op |-> "modify", dn |-> a, mods |-> <<Change("Replace", b, {}), Change("Add", a, {})>>],
     [op |-> "compare", dn |-> a, attr |-> b, val |-> NotText],
     [op |-> "modifydn", dn |-> a, rdn |-> Named(Spaced), delete_old |-> TRUE, new_sup |-> {b}],
     [op |-> "modifydn", dn |-> a, rdn |-> Named(a), delete_old |-> FALSE, new_sup |-> {}],
     Exop1([name |-> "whoami"]), Exop1([name |-> "starttxn"]),
     Exop1(PassMod({}, {}, {})), Exop1(PassMod({a}, {}, {<<>>})),
     Exop1([name |-> "endtxn", commit |-> TRUE, txn_id |-> a]),
     Exop1([name |-> "endtxn", commit |-> FALSE, txn_id |-> <<>>]),
     SearchFor(a, 0, Nested, <<>>), SearchFor(<<>>, 2, Substrings, <<a, b>>),
     SearchFor(<<>>, 1, Extensible, <<a>>)}
    \cup {[op |-> "delete", dn |-> Long(n)] : n \in {0, 127, 128, 256}}
    \cup {[op |-> "abandon", msgid |-> n] : n \in {127, 32767, 32768, 2147483647}}

\* Everything left out; everything there, with characters that a URL cannot contain; a Bind;
\* an extension that is critical and unknown
MCUrls ==
    {[base |-> <<>>, attrs |-> <<>>, scope |-> <<>>, filter |-> {}, exts |-> <<>>,
      means |-> SearchFor(<<>>, 2, [f |-> "present", attr |-> objectClass], <<<<42>>>>)],
     [base |-> <<63, 32>>, attrs |-> <<a, b>>, scope |-> <<Word.one>>, filter |-> {Eq(a, <<37, 63, 195, 169>>)},
      exts |-> <<>>, means |-> SearchFor(<<63, 32>>, 1, Eq(a, <<37, 63, 195, 169>>), <<a, b>>)],
     [base |-> <<>>, attrs |-> <<>>, scope |-> <<Word.base>>, filter |-> {},
      exts |-> <<[name |-> <<Word.other>>, val |-> a],
                 [name |-> <<33, Capitals(Word.bindname)>>, val |-> <<44, 61>>],
                 [name |-> <<Word.xbindpw>>, val |-> b], [name |-> <<Word.bindname>>, val |-> c]>>,
      means |-> [op |-> "simple_bind", dn |-> <<44, 61>>, pw |-> b]],
     [base |-> a, attrs |-> <<>>, scope |-> <<>>, filter |-> {},
      exts |-> <<[name |-> <<33, Word.other>>, val |-> a]>>, means |-> Unasked]}

Read(name) == [name |-> name, crit |-> TRUE, attrs |-> <<a, b>>]
MCControlLists ==
    {<<>>,
     <<[name |-> "paged", crit |-> FALSE, size |-> 65535, cookie |-> NotText],
       [name |-> "sync", crit |-> TRUE, mode |-> "RefreshOnly", cookie |-> {a}, reload_hint |-> TRUE],
       [name |-> "matched", crit |-> TRUE, filters |-> <<Eq(a, <<42>>), [f |-> "present", attr |-> b]>>]>>,
     <<[name |-> "assertion", crit |-> TRUE, filters |-> <<[f |-> "not", of |-> <<Eq(a, b)>>]>>],
       [name |-> "sync", crit |-> FALSE, mode |-> "RefreshAndPersist", cookie |-> {}, reload_hint |-> FALSE],
       Read("preread"), Read("postread"), [name |-> "manage", crit |-> FALSE, id |-> <<>>],
       [name |-> "relax", crit |-> TRUE, id |-> <<>>],
       [name |-> "proxy", crit |-> TRUE, id |-> a], [name |-> "txn", crit |-> TRUE, id |-> <<>>]>>}

\* Those in MCResponses, and none
MCChallenges == {<<>>, b}

MCOptionSets == {[deref |-> 3, typesonly |-> TRUE, timelimit |-> 128, sizelimit |-> 2147483647]}

Res(app, rc, outcome) ==
    [app |-> app, rc |-> rc, matched |-> <<>>, text |-> <<>>, refs |-> <<>>, creds |-> {},
     exop |-> {}, outcome |-> outcome]
Message1(r, controls) == [kind |-> "result", result |-> r, controls |-> controls]
Only(r) == <<Message1(r, <<>>)>>
Referral(app) == [Res(app, 10, "referral") EXCEPT !.matched = a, !.refs = <<a, <<195, 169>>>>]
Failure(app) == [Res(app, 49, "error") EXCEPT !.text = Long(130)]
Answer(x) == Only([Res(24, 0, "success") EXCEPT !.exop = {x}])
Creds(rc, creds) == [Res(1, rc, IF rc = 0 THEN "success" ELSE "error") EXCEPT !.creds = creds]

Ctl(name, crit, value) == [name |-> name, crit |-> crit, value |-> value]
Values1(type, vals, binary) == [type |-> type, vals |-> vals, binary |-> binary]
Entry(controls) ==
    [kind |-> "entry", dn |-> Named(<<44, 195, 169>>), controls |-> controls,
     attrs |-> {Values1(a, {b, <<195, 169>>}, FALSE), Values1(b, {NotText, a}, TRUE), Values1(c, {}, FALSE)}]
Info(i) == [kind |-> "info", info |-> i, controls |-> <<>>]
Refresh(id, cookie, flag, uuids) == [info |-> id, cookie |-> cookie, flag |-> flag, uuids |-> uuids]

MCResponses ==
    [simple_bind |-> {Only(Res(1, 0, "success"))},
     external |-> {Only(Creds(0, {<<>>}))},
     spnego |-> {Only(Creds(14, {b})), Only(Creds(14, {})), Only(Creds(0, {}))},
     add |-> {Only(Res(9, 0, "success"))},
     modify |-> {<<Message1(Res(7, 0, "success"), <<Ctl("preread", TRUE, {Values1(a, {b}, FALSE)})>>)>>},
     compare |-> {Only(Res(15, 5, "false")), Only(Res(15, 6, "true")), Only(Referral(15))},
     delete |-> {Only(Referral(11))},
     modifydn |-> {Only(Res(13, 0, "success"))},
     whoami |-> {Answer([name |-> "whoami", text |-> <<>>])},
     starttxn |-> {Answer([name |-> "starttxn", text |-> a])},
     passmod |-> {Answer([name |-> "passmod", gen_pass |-> a])},
     endtxn |-> {Answer([name |-> "endtxn", msg_id |-> {300}, upds_ctrls |-> {}]),
                 Answer([name |-> "endtxn", msg_id |-> {}, upds_ctrls |-> {
                    {[msg_id |-> n, controls |-> <<Ctl("preread", FALSE, {Values1(a, {b}, FALSE)})>>]
                     : n \in {1, 200}}}])},
     search |-> {<<Entry(<<Ctl("syncstate", TRUE, [state |-> 1, uuid |-> a, cookie |-> {b}])>>),
                   [kind |-> "reference", refs |-> <<a, b>>, controls |-> <<>>],
                   Message1(Referral(5), <<Ctl("paged", FALSE, [size |-> 32768, cookie |-> NotText])>>)>>,
                 <<Info([info |-> 0, cookie |-> a]), Info(Refresh(3, {a}, TRUE, {a, b})),
                   Message1(Res(5, 0, "success"),
                            <<Ctl("syncdone", FALSE, [cookie |-> {a}, refresh_deletes |-> TRUE])>>)>>,
                 <<Info(Refresh(1, {a}, TRUE, {})), Info(Refresh(2, {}, FALSE, {}))>>
                 \o Only(Res(5, 0, "success")),
                 Only(Failure(5))}]
=============================================================================
