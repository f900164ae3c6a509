------------------------------ MODULE MCLdapMux ------------------------------
(***************************************************************************)
(* LdapMux for TLC.  The calls are interchangeable model values: every     *)
(* workload set below is closed under permutations of the calls.           *)
(***************************************************************************)
EXTENDS LdapMux, TLC

CallSymmetry == Permutations(Calls)

\* Every kind next to every other, except for two searches of which one is
\* adapted: two concurrent streams are explored with direct ones.
AnyKinds == {w \in [Calls -> AllKinds] :
                \/ Cardinality({c \in Calls : w[c] \in SearchKinds}) <= 1
                \/ \A c \in Calls : w[c] # "Adapted"}
\* Enough calls for two generations of an id, at most one of them not Single.
MostlySingles == {w \in [Calls -> {"Single", "Direct", "Abandon"}] :
                    Cardinality({c \in Calls : w[c] # "Single"}) <= 1}
AdaptedOnly == [Calls -> {"Adapted"}]
DirectOnly == [Calls -> {"Direct"}]
\* Every kind next to every other, and at most one Search; how an adapted
\* stream ends is the subject of SearchStream.  TLC checks liveness without
\* symmetry: the first call gets the kind that comes first.
KindOrder == [Direct |-> 1, Single |-> 2, Abandon |-> 3, Unbind |-> 4, Cert |-> 5]
First == CHOOSE c \in Calls : TRUE
AtMostOneSearch == {w \in [Calls -> DOMAIN KindOrder] :
                      \A c \in Calls \ {First} :
                        w[c] # "Direct" /\ KindOrder[w[First]] <= KindOrder[w[c]]}
=============================================================================
