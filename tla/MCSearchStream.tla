--------------------------- MODULE MCSearchStream ---------------------------
(***************************************************************************)
(* SearchStream for TLC: all chains of the two adapters, and result sets   *)
(* with every arrangement of up to MaxItems items on up to MaxPages pages, *)
(* empty pages included.                                                   *)
(***************************************************************************)
EXTENDS SearchStream

CONSTANTS MaxItems, MaxPages

AllChains == UNION {Injection(1..n, Adapters) : n \in 0..2}
PagedOnly == {<<"PagedResults">>}

PageEnds(n) == {c \in UNION {[1..k -> 0..n] : k \in 1..MaxPages} :
                  /\ c[Len(c)] = n
                  /\ \A i, j \in DOMAIN c : i <= j => c[i] <= c[j]}
AllResultSets == UNION {[kinds : [1..n -> Kinds], cuts : PageEnds(n)] : n \in 0..MaxItems}
=============================================================================
