---------------------------- MODULE BerHeaders ----------------------------
(***************************************************************************)
(* The parts of BER that are not nested, as the crate lber writes and      *)
(* reads them: tags, integers, and the identifier and length in front of a *)
(* value.  An octet is a number in 0..255, an octet string a sequence of   *)
(* them, a StructureTag a record with either the octets of a primitive or  *)
(* the parts of a constructed value.  A Rust Option is a set with at most  *)
(* one element; so is the result of a function that may fail or panic.     *)
(***************************************************************************)
EXTENDS Integers, Sequences

(***************************************************************************)
(* Tags (structure.rs, common.rs, universal.rs).                           *)
(***************************************************************************)
Universal == 0
Application == 1
Context == 2

BooleanType == 1
IntegerType == 2
OctetStringType == 4
EnumeratedType == 10
SequenceType == 16
SetType == 17

P(class, id, octets) == [class |-> class, id |-> id, octets |-> octets]
C(class, id, parts) == [class |-> class, id |-> id, parts |-> parts]

IsPrimitive(t) == "octets" \in DOMAIN t

From(s, i) == SubSeq(s, i, Len(s))

-----------------------------------------------------------------------------
(***************************************************************************)
(* Integers (structures/integer.rs).                                       *)
(***************************************************************************)
\* The weight of the i-th octet from the end
Weight(i) == <<1, 256, 65536, 16777216>>[i + 1]

\* The octet of weight 256^i of an i64.  Every integer of the library is an
\* i32 before it becomes one, so that the upper four repeat its sign.
OctetAt(n, i) == IF i < 4 THEN (n \div Weight(i)) % 256 ELSE IF n < 0 THEN 255 ELSE 0

\* The last  count  octets of the big-endian form of n
BeOctets(n, count) == [k \in 1 .. count |-> OctetAt(n, count - k)]

\* How often a number must be shifted by an octet to leave nothing
OctetCount(n) == CHOOSE c \in 1 .. 4 : /\ c = 4 \/ n < Weight(c)
                                       /\ c = 1 \/ n >= Weight(c - 1)

\* An octet too few for 128 .. 255, 32768 .. 65535 and so on
Bug_i_e_count(inner) == OctetCount(IF inner >= 0 THEN inner ELSE -inner)

\* One octet more when the most significant bit of a positive number is set
i_e_count(inner) ==
    LET count == OctetCount(IF inner >= 0 THEN inner ELSE -inner)
    IN  IF inner > 0 /\ count < 4 /\ inner \div (128 * Weight(count - 1)) = 1
        THEN count + 1 ELSE count

-----------------------------------------------------------------------------
(***************************************************************************)
(* Writing an identifier and a length (write.rs).                          *)
(***************************************************************************)
\* The 7-bit groups of a tag number, the most significant first
Groups[n \in Nat] == IF n = 0 THEN <<>> ELSE Append(Groups[n \div 128], n % 128)

write_type(t) ==
    LET lead == t.class * 64 + (IF IsPrimitive(t) THEN 0 ELSE 32)
        groups == Groups[t.id]
    IN  IF t.id > 30
        THEN <<lead + 31>> \o [i \in DOMAIN groups |->
                                  groups[i] + (IF i < Len(groups) THEN 128 ELSE 0)]
        ELSE <<lead + t.id>>

write_length(n) ==
    IF n < 128 THEN <<n>> ELSE <<128 + OctetCount(n)>> \o BeOctets(n, OctetCount(n))

-----------------------------------------------------------------------------
(***************************************************************************)
(* Reading them (parse.rs).  A parser yields what it has read and the rest *)
(* of the input, or nothing when it needs more input.  The streaming       *)
(* parsers have no other failure here: each octet is a type, and no length *)
(* is larger than a usize.                                                 *)
(***************************************************************************)
parse_type_header(i) ==
    IF i = <<>> THEN {}
    ELSE {[class |-> i[1] \div 64, constructed |-> (i[1] \div 32) % 2 = 1, id |-> i[1] % 32,
           rest |-> Tail(i)]}

parse_uint(i) ==
    LET res[k \in 0 .. Len(i)] == IF k = 0 THEN 0 ELSE res[k - 1] * 256 + i[k]
    IN  res[Len(i)]

parse_length(i) ==
    CASE i = <<>> -> {}
      [] i # <<>> /\ i[1] < 128 -> {[len |-> i[1], rest |-> Tail(i)]}
      [] i # <<>> /\ i[1] >= 128 ->
            IF Len(i) - 1 < i[1] - 128 THEN {}
            ELSE {[len |-> parse_uint(SubSeq(i, 2, i[1] - 127)), rest |-> From(i, i[1] - 126)]}

-----------------------------------------------------------------------------
(***************************************************************************)
(* External: an integer as a server reads it.                              *)
(***************************************************************************)
TwosComplement(s) ==
    LET v[k \in 0 .. Len(s)] == IF k = 0 THEN IF s # <<>> /\ s[1] >= 128 THEN -1 ELSE 0
                                 ELSE v[k - 1] * 256 + s[k]
    IN  v[Len(s)]
=============================================================================
