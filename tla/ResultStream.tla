---------------------------- MODULE ResultStream ----------------------------
(***************************************************************************)
(* What a search promises the user who reads it: the entries of the result *)
(* set, in the order of the server, each of them once; "complete" only     *)
(* after the last one; or a failure at any point, after which nothing more *)
(* is given.  A user who drops a call of next() may lose all of that but   *)
(* the order.  SearchStream, with or without adapters, implements this.    *)
(***************************************************************************)
EXTENDS Naturals, Sequences

VARIABLES
    todo,    \* the positions of the entries not yet given to the user
    given,   \* those given, in the order in which they were
    status   \* open, complete, failed or loose

Init ==
    /\ todo \in SUBSET Nat
    /\ given = <<>>
    /\ status = "open"

\* next() returns the entry that comes first.
Give ==
    /\ status = "open"
    /\ \E p \in todo :
        /\ \A q \in todo : p <= q
        /\ todo' = todo \ {p}
        /\ given' = Append(given, p)
    /\ UNCHANGED status

\* next() returns None, and the result is that of the whole search.
Complete ==
    /\ status = "open" /\ todo = {}
    /\ status' = "complete"
    /\ UNCHANGED <<todo, given>>

\* An error, an unsuccessful result, or finish() before the end.
Fail ==
    /\ status = "open"
    /\ status' = "failed"
    /\ UNCHANGED <<todo, given>>

\* A call of next() is dropped.
Drop ==
    /\ status = "open"
    /\ status' = "loose"
    /\ UNCHANGED <<todo, given>>

\* After that next() may leave items out and give hidden ones, in order.
Skip ==
    /\ status = "loose"
    /\ Len(given') = Len(given) + 1
    /\ LET p == given'[Len(given')] IN
        /\ p \in Nat /\ \A i \in 1..Len(given) : given[i] < p
        /\ given' = Append(given, p)
        /\ todo' = todo \ {p}
    /\ UNCHANGED status

Next == Give \/ Complete \/ Fail \/ Drop \/ Skip

Spec == Init /\ [][Next]_<<todo, given, status>>
=============================================================================
