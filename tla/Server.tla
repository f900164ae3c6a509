------------------------------- MODULE Server -------------------------------
(***************************************************************************)
(* The other side, external to the library: what an LDAP server reads in   *)
(* the octets of a request, and the octets of its answers (RFC 4511, 4514, *)
(* 4533, 2696 and so on).  The reader and the writer are independent of    *)
(* the library's: of Messages, only the names of the object identifiers    *)
(* and generic helpers are used here.  Where the octets make no sense, the *)
(* reader yields Nothing or an unreadable operation.                       *)
(***************************************************************************)
EXTENDS Messages

-----------------------------------------------------------------------------
(***************************************************************************)
(* Reading.  The tag of an element is the octet that introduces it.        *)
(***************************************************************************)
Nothing == [tag |-> 0, content |-> <<>>]

\* The elements in a string of octets; lengths are definite, in the short or the long form
RECURSIVE Items(_)
Items(s) ==
    LET n == IF s[2] > 128 THEN s[2] - 128 ELSE 0
        len == IF n = 0 THEN s[2] ELSE TwosComplement(<<0>> \o SubSeq(s, 3, n + 2))
    IN  IF s = <<>> THEN <<>>
        ELSE IF Len(s) < 2 \/ s[2] = 128 \/ Len(s) < n + 2 \/ Len(s) < n + 2 + len
        THEN <<Nothing>>
        ELSE <<[tag |-> s[1], content |-> SubSeq(s, n + 3, n + 2 + len)]>>
             \o Items(From(s, n + 3 + len))

Item(t, i) == LET s == Items(t.content) IN IF i \in DOMAIN s THEN s[i] ELSE Nothing
Contents(t) == LET s == Items(t.content) IN [i \in DOMAIN s |-> s[i].content]
Tagged(t, tag) == {u.content : u \in {v \in ToSet(Items(t.content)) : v.tag = tag}}

ReadAttribute(t) == [type |-> Item(t, 1).content, vals |-> ToSet(Contents(Item(t, 2)))]

Comparison == (163 :> "eq") @@ (165 :> "ge") @@ (166 :> "le") @@ (168 :> "approx")
SubstringPart == (128 :> "initial") @@ (129 :> "any") @@ (130 :> "final")

RECURSIVE ReadFilter(_)
ReadFilter(t) ==
    LET parts == Items(t.content)
        pieces == Items(Item(t, 2).content)
        each == [i \in DOMAIN parts |-> ReadFilter(parts[i])]
    IN  CASE t.tag = 160 -> [f |-> "and", of |-> each]
          [] t.tag = 161 -> [f |-> "or", of |-> each]
          [] t.tag = 162 /\ parts # <<>> -> [f |-> "not", of |-> <<each[1]>>]
          [] t.tag \in DOMAIN Comparison ->
                [f |-> Comparison[t.tag], attr |-> Item(t, 1).content, value |-> Item(t, 2).content]
          [] t.tag = 164 /\ \A i \in DOMAIN pieces : pieces[i].tag \in DOMAIN SubstringPart ->
                [f |-> "substr", attr |-> Item(t, 1).content,
                 parts |-> [i \in DOMAIN pieces |-> [at |-> SubstringPart[pieces[i].tag],
                                                     value |-> pieces[i].content]]]
          [] t.tag = 135 -> [f |-> "present", attr |-> t.content]
          [] t.tag = 169 -> [f |-> "ext", rule |-> Tagged(t, 129), type |-> Tagged(t, 130),
                             val |-> Tagged(t, 131), dn |-> Tagged(t, 132) = {<<255>>}]
          [] OTHER -> [f |-> "unreadable"]

\* The octets that escapes in the text of a name stand for
RECURSIVE Plain(_)
Plain(s) ==
    CASE s = <<>> -> <<>>
      [] Len(s) >= 3 /\ s[1] = 92 /\ {s[2], s[3]} \subseteq is_hex_digit ->
            <<HexValue(s[2]) * 16 + HexValue(s[3])>> \o Plain(From(s, 4))
      [] OTHER -> <<s[1]>> \o Plain(Tail(s))

\* A relative name is a type and a value, unless a character in the value ends it, begins
\* another form of value, or would be dropped
ReadRdn(s) ==
    LET at == {j \in DOMAIN s : s[j] = 61}
        k == IF at = {} THEN 0 ELSE Min(at)
        value == From(s, k + 1)
    IN  IF k = 0 \/ \E i \in DOMAIN value : \/ value[i] \in {0, 34, 43, 44, 59, 60, 61, 62}
                                            \/ value[i] \in {32, 35} /\ i = 1
                                            \/ value[i] = 32 /\ i = Len(value)
        THEN [type |-> "unreadable"]
        ELSE [type |-> SubSeq(s, 1, k - 1), value |-> Plain(value)]

NameOf(oid) == IF \E n \in DOMAIN Oid : Oid[n] = oid THEN CHOOSE n \in DOMAIN Oid : Oid[n] = oid
               ELSE "unknown"

ReadExop(t) ==
    LET name == NameOf(Item(t, 1).content)
        value == IF Item(t, 2).tag = 129 THEN Item(Item(t, 2), 1) ELSE Nothing
    IN  CASE name = "passmod" -> [name |-> name, user_id |-> Tagged(value, 128),
                                  old_pass |-> Tagged(value, 129), new_pass |-> Tagged(value, 130)]
          [] name = "endtxn" -> [name |-> name, commit |-> Tagged(value, 1) # {<<0>>},
                                 txn_id |-> Item(value, Len(Items(value.content))).content]
          [] OTHER -> [name |-> name]

SyncMode == [n \in 0 .. 255 |-> CASE n = 1 -> "RefreshOnly" [] n = 3 -> "RefreshAndPersist"
                                   [] OTHER -> "unknown"]

ReadControl(t) ==
    LET name == NameOf(Item(t, 1).content)
        crit == Item(t, 2) = [tag |-> 1, content |-> <<255>>]
        octets == Item(t, IF crit THEN 3 ELSE 2)
        value == Item(octets, 1)
    IN  [name |-> name, crit |-> crit] @@
        CASE name = "paged" -> [size |-> TwosComplement(Item(value, 1).content),
                                cookie |-> Item(value, 2).content]
          [] name = "sync" -> [mode |-> SyncMode[TwosComplement(Item(value, 1).content)], cookie |-> Tagged(value, 4),
                               reload_hint |-> Tagged(value, 1) = {<<255>>}]
          [] name \in {"preread", "postread"} -> [attrs |-> Contents(value)]
          [] name = "assertion" -> [filters |-> <<ReadFilter(value)>>]
          [] name = "matched" -> [filters |-> LET fs == Items(value.content)
                                              IN  [i \in DOMAIN fs |-> ReadFilter(fs[i])]]
          [] OTHER -> [id |-> octets.content]

ModName == <<"Add", "Delete", "Replace", "Increment">>

ReadOperation(t) ==
    LET str(i) == Item(t, i).content
        int(i) == TwosComplement(str(i))
        all(i) == Items(str(i))
    IN  CASE t.tag = 96 /\ int(1) = 3 /\ Item(t, 3).tag = 128 ->
                [op |-> "simple_bind", dn |-> str(2), pw |-> str(3)]
          [] t.tag = 96 /\ int(1) = 3 /\ Item(t, 3).tag = 163 ->
                [op |-> "sasl_bind", mech |-> NameOf(Item(Item(t, 3), 1).content),
                 creds |-> Nth(Contents(Item(t, 3)), 2)]
          [] t.tag = 66 /\ t.content = <<>> -> [op |-> "unbind"]
          [] t.tag = 99 ->
                [op |-> "search", base |-> str(1), scope |-> int(2), attrs |-> Contents(Item(t, 8)),
                 opts |-> [deref |-> int(3), sizelimit |-> int(4), timelimit |-> int(5),
                           typesonly |-> str(6) = <<255>>],
                 filter |-> ReadFilter(Item(t, 7))]
          [] t.tag = 102 ->
                [op |-> "modify", dn |-> str(1),
                 mods |-> [i \in DOMAIN all(2) |->
                              [mod |-> ModName[TwosComplement(Item(all(2)[i], 1).content) + 1]]
                              @@ ReadAttribute(Item(all(2)[i], 2))]]
          [] t.tag = 104 -> [op |-> "add", name |-> ReadRdn(str(1)),
                             attrs |-> [i \in DOMAIN all(2) |-> ReadAttribute(all(2)[i])]]
          [] t.tag = 74 -> [op |-> "delete", dn |-> t.content]
          [] t.tag = 108 -> [op |-> "modifydn", dn |-> str(1), rdn |-> ReadRdn(str(2)),
                             delete_old |-> str(3) = <<255>>, new_sup |-> Tagged(t, 128)]
          [] t.tag = 110 -> [op |-> "compare", dn |-> str(1), attr |-> Item(Item(t, 2), 1).content,
                             val |-> Item(Item(t, 2), 2).content]
          [] t.tag = 80 -> [op |-> "abandon", msgid |-> TwosComplement(t.content)]
          [] t.tag = 119 -> [op |-> "extended", exop |-> ReadExop(t)]
          [] OTHER -> [op |-> "unreadable"]

\* One message, and nothing else
ReadRequest(octets) ==
    LET m == Items(octets)[1]
        controls == Item(m, 3)
        list == Items(controls.content)
    IN  IF Len(Items(octets)) # 1 \/ m.tag # 48 THEN [id |-> 0, op |-> [op |-> "unreadable"]]
        ELSE [id |-> TwosComplement(Item(m, 1).content), op |-> ReadOperation(Item(m, 2)),
              controls |-> IF controls.tag = 160
                           THEN {[i \in DOMAIN list |-> ReadControl(list[i])]} ELSE {}]

-----------------------------------------------------------------------------
(***************************************************************************)
(* Writing.  A server may write the length of an element with four octets, *)
(* as Active Directory does, or with as few as possible, TRUE as any octet *)
(* that is not zero, and the name of an extended response or not.          *)
(***************************************************************************)
BigEndian(n, count) == [k \in 1 .. count |-> (n \div 256 ^ (count - k)) % 256]
MinimalInteger(n) == BigEndian(n, CHOOSE c \in 1 .. 4 : /\ c = 4 \/ n < 128 * 256 ^ (c - 1)
                                                        /\ c = 1 \/ n >= 128 * 256 ^ (c - 2))

Write(form, tag, content) ==
    LET len == Len(content)
    IN  <<tag>> \o (CASE form = "wide" -> <<132>> \o BigEndian(len, 4)
                      [] form = "narrow" /\ len < 128 -> <<len>>
                      [] form = "narrow" /\ len \in 128 .. 255 -> <<129, len>>
                      [] OTHER -> <<130>> \o BigEndian(len, 2)) \o content

Written(form, tag, contents) == FlattenSeq([i \in DOMAIN contents |-> Write(form, tag, contents[i])])

\* The members of a set, in some order; at most one member is an option
InSomeOrder(set) == FlattenSeq(SetToSeq(set))
WriteSet(form, tag, contents) == InSomeOrder({Write(form, tag, x) : x \in contents})
Yes(form) == IF form = "wide" THEN <<1>> ELSE <<255>>
WriteFlag(form, b) == Write(form, 1, IF b THEN Yes(form) ELSE <<0>>)

\* A name with its special characters and all that is no ASCII escaped, in capitals
CapitalDigit(n) == IF n < 10 THEN 48 + n ELSE 55 + n
WriteRdn(d) ==
    d.type \o <<61>> \o FlattenSeq([i \in DOMAIN d.value |->
        IF d.value[i] < 48 \/ d.value[i] > 122
        THEN <<92, CapitalDigit(d.value[i] \div 16), CapitalDigit(d.value[i] % 16)>>
        ELSE <<d.value[i]>>])

WriteEntry(form, dn, attrs) ==
    Write(form, 100, Write(form, 4, WriteRdn(dn))
        \o Write(form, 48, WriteSet(form, 48,
                {Write(form, 4, a.type) \o Write(form, 49, WriteSet(form, 4, a.vals)) : a \in attrs})))

WriteControlValue(form, name, v) ==
    CASE name = "paged" -> Write(form, 48, Write(form, 2, MinimalInteger(v.size))
                                           \o Write(form, 4, v.cookie))
      [] name = "syncstate" -> Write(form, 48, Write(form, 10, <<v.state>>)
                                               \o Write(form, 4, v.uuid)
                                               \o WriteSet(form, 4, v.cookie))
      [] name = "syncdone" -> Write(form, 48, WriteSet(form, 4, v.cookie)
                                       \o IF v.refresh_deletes THEN WriteFlag(form, TRUE) ELSE <<>>)
      [] name = "preread" -> WriteEntry(form, [type |-> <<99>>, value |-> <<>>], v)

\* A control with a value, with a criticality or without
WriteControl(form, c) ==
    Write(form, 48, Write(form, 4, Oid[c.name])
                    \o (IF c.crit THEN WriteFlag(form, TRUE) ELSE <<>>)
                    \o Write(form, 4, WriteControlValue(form, c.name, c.value)))
WriteControls(form, cs) ==
    IF cs = <<>> THEN <<>>
    ELSE Write(form, 160, FlattenSeq([i \in DOMAIN cs |-> WriteControl(form, cs[i])]))

\* The values of a Sync Info message; a flag is left out where it has its default
WriteSyncInfo(form, s) ==
    IF s.info = 0 THEN Write(form, 128, s.cookie)
    ELSE Write(form, 160 + s.info,
            WriteSet(form, 4, s.cookie)
            \o (IF s.flag = (s.info # 3) THEN <<>> ELSE WriteFlag(form, s.flag))
            \o (IF s.info = 3 THEN Write(form, 49, WriteSet(form, 4, s.uuids)) ELSE <<>>))

WriteExopValue(form, x) ==
    CASE x.name = "passmod" -> Write(form, 48, Write(form, 128, x.gen_pass))
      [] x.name \in {"whoami", "starttxn"} -> x.text
      [] x.name = "endtxn" ->
            Write(form, 48, WriteSet(form, 2, {MinimalInteger(n) : n \in x.msg_id})
                \o WriteSet(form, 48,
                        {InSomeOrder({Write(form, 2, MinimalInteger(u.msg_id)) \o WriteControls(form, u.controls)
                                      : u \in pairs}) : pairs \in x.upds_ctrls}))

WriteResult(form, r) ==
    Write(form, 96 + r.app,
        Write(form, 10, <<r.rc>>) \o Write(form, 4, r.matched) \o Write(form, 4, r.text)
        \o (IF r.refs = <<>> THEN <<>> ELSE Write(form, 163, Written(form, 4, r.refs)))
        \o WriteSet(form, 135, r.creds)
        \o (IF form = "wide" THEN <<>> ELSE WriteSet(form, 138, {Oid[x.name] : x \in r.exop}))
        \o WriteSet(form, 139, {WriteExopValue(form, x) : x \in r.exop}))

WriteMessage(form, id, m) ==
    Write(form, 48, Write(form, 2, MinimalInteger(id))
        \o (CASE m.kind = "entry" -> WriteEntry(form, m.dn, m.attrs)
              [] m.kind = "reference" -> Write(form, 115, Written(form, 4, m.refs))
              [] m.kind = "info" -> Write(form, 121, Write(form, 128, Oid.syncinfo)
                                                     \o Write(form, 129, WriteSyncInfo(form, m.info)))
              [] m.kind = "result" -> WriteResult(form, m.result))
        \o WriteControls(form, m.controls))

\* The Notice of Disconnection.  Active Directory puts its identifier behind the response.
Notice(form) ==
    LET head == Write(form, 10, <<52>>) \o Write(form, 4, <<>>) \o Write(form, 4, <<>>)
        name == Write(form, 138, Oid.notice)
    IN  Write(form, 48, Write(form, 2, <<0>>)
                        \o IF form = "wide" THEN Write(form, 120, head) \o name
                           ELSE Write(form, 120, head \o name))
=============================================================================
