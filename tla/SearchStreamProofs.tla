------------------------- MODULE SearchStreamProofs -------------------------
(***************************************************************************)
(* Proofs about a search stream, for any chain of the two adapters, any    *)
(* result set, and any division of it into pages.                          *)
(***************************************************************************)
EXTENDS SearchStream, SequenceTheorems, TLAPS

-----------------------------------------------------------------------------
(* The inductive invariant.  Flags are kept apart from the data: no prover *)
(* at hand is good at both.                                                *)

FlagType ==
    /\ rx \in BOOLEAN /\ tx \in BOOLEAN
    /\ ended \in BOOLEAN /\ cancelled \in BOOLEAN

CallType ==
    /\ chain \in Chains
    /\ want \in Settings /\ ldap \in Settings /\ saved \in Settings
    /\ state \in {"Fresh", "Active", "Done", "Error", "Closed"}
    /\ phase \in {"idle", "starting", "reading", "paging", "gone", "panicked"}
    /\ ax \in 0..Len(chain) /\ entered \in 0..Len(chain)

ItemType ==
    /\ res \in Results /\ result \in Results /\ chan \in Seq(Results)
    /\ refs \in Seq(Positions) /\ resrefs \in Seq(Positions) /\ out \in Seq(Positions)
    /\ read \in 0..Total

NetType ==
    /\ rs \in ResultSets
    /\ reqs \in Seq([set : Settings, cookie : Nat])
    /\ id \in 0..Len(reqs) /\ scrubbed \in SUBSET (1..Len(reqs))
    /\ srv \in [pos : Nat, end : 0..Total, cookie : Nat] /\ srv.pos <= srv.end

DataType == CallType /\ ItemType /\ NetType

\* Nothing has been sent.
Unsent == state = "Fresh" /\ phase = "idle"

\* Where a call may be, given the state of the stream.
CallInv ==
    /\ phase = "starting" => state = "Fresh"
    /\ phase \in {"reading", "paging"} => state = "Active"
    /\ phase = "gone" => state = "Error"
    /\ state = "Closed" => phase = "idle"
    /\ state = "Fresh" => read = 0 /\ phase \in {"idle", "starting"}
    /\ Unsent => reqs = <<>> /\ ldap = want
    /\ ~Unsent /\ phase # "gone" => id # 0
    /\ Uses("PagedResults") /\ reqs # <<>> => saved = want

\* The receiver is missing while the next page is requested, and for good when
\* the search has ended.
EndInv ==
    /\ phase = "paging" => ~rx
    /\ ended => ~rx /\ ~tx /\ state # "Fresh" /\ phase \notin {"starting", "paging", "gone"}
    /\ state = "Done" => ended
    /\ ended /\ state = "Active" => cancelled \/ chain = <<>>

\* A call that nobody drops enters at the top of the chain and leaves there.
DepthInv ==
    ~cancelled =>
        entered = 0 /\ (phase \in {"idle", "starting", "gone"} => ax = 0)

\* The k-th request is answered with the k-th page, if there are pages.
Paged == Uses("PagedResults") \/ HandPaged

ServerInv ==
    reqs # <<>> =>
        \/ ~Paged /\ srv.end = Total /\ srv.cookie = 0
        \/ /\ Paged
           /\ Len(reqs) <= Len(rs.cuts) /\ srv.end = rs.cuts[Len(reqs)]
           /\ srv.cookie = IF Len(reqs) < Len(rs.cuts) THEN Len(reqs) ELSE 0

\* The final message of the current page.
IsFinal(m) ==
    \/ m = Final(1, 0)
    \/ m = Final(0, srv.cookie) /\ srv.pos = srv.end

\* The channel holds what the server has sent and nobody has read.
ChanLen == srv.pos <= read + Len(chan) /\ read <= srv.pos

ChanInv ==
    /\ ChanLen
    /\ \A i \in 1..Len(chan) :
        \/ read + i <= srv.pos /\ chan[i] = Item(read + i)
        \/ read + i = srv.pos + 1 /\ i = Len(chan) /\ ~tx /\ IsFinal(chan[i])

Increasing(s) == \A i, j \in 1..Len(s) : i < j => s[i] < s[j]

\* What has been read has been given to the user, or hidden.
OutInv ==
    /\ Increasing(out)
    /\ \A p \in Range(out) : p <= read
    /\ \A p \in 1..read : rs.kinds[p] = "entry" => p \in Range(out)
    /\ ~Bypassed => Range(out) = {p \in 1..read : Visible(p)}

\* The referrals read so far, in the adapter until finish() takes them.
Kept == IF state = "Closed" THEN resrefs ELSE refs

RefsInv ==
    ~Bypassed /\ Uses("EntriesOnly") =>
        Increasing(Kept) /\ Range(Kept) = {p \in 1..read : rs.kinds[p] = "ref"}

\* The result is that of the last page, after its last item, or an error.
ResInv ==
    /\ ended =>
        \/ Outcome = Final(1, 0)
        \/ /\ Outcome = Final(0, srv.cookie) /\ read = srv.end
           /\ ~Bypassed /\ Uses("PagedResults") => srv.cookie = 0
    /\ ~ended /\ ~Uses("PagedResults") => Outcome = NoResult

Inv ==
    /\ FlagType /\ DataType /\ CallInv /\ EndInv /\ DepthInv /\ ServerInv
    /\ PagesAlike /\ ChanInv /\ OutInv /\ RefsInv /\ ResInv

-----------------------------------------------------------------------------
(* Lemmas about the operators of the model *)

LEMMA ChainFacts ==
    ASSUME chain \in Chains
    PROVE  /\ chain \in Seq(Adapters) /\ Len(chain) \in Nat
           /\ Below("PagedResults", entered) => Level("PagedResults") \in 0..Len(chain)
<1>1. chain \in Seq(Adapters)
    BY ChainsAssumption
<1>2. ASSUME Below("PagedResults", entered) PROVE Level("PagedResults") \in DOMAIN chain
    BY <1>2 DEF Below, Level
<1> QED
    BY <1>1, <1>2

\* At the top of the chain, everything in it is below.
LEMMA BelowTop ==
    ASSUME chain \in Chains
    PROVE  /\ \A a : Below(a, 0) <=> Uses(a)
           /\ \A a, k : Below(a, k) => Uses(a)
<1>1. DOMAIN chain = 1..Len(chain) /\ Len(chain) \in Nat
    BY ChainFacts
<1> QED
    BY <1>1 DEF Below, Uses, Range

\* Without a chain, its top is all there is.
LEMMA TopFacts ==
    ASSUME CallType, DepthInv, ~Bypassed
    PROVE  entered = 0 /\ (phase \in {"idle", "starting", "gone"} => ax = 0)
<1>1. CASE chain = <<>>
    BY <1>1 DEF CallType
<1>2. CASE ~cancelled
    BY <1>2 DEF DepthInv
<1> QED
    BY <1>1, <1>2 DEF Bypassed

LEMMA SetFacts ==
    ASSUME rs \in ResultSets
    PROVE  /\ Total \in Nat /\ Len(rs.cuts) \in Nat \ {0}
           /\ \A p \in 1..Total : rs.kinds[p] \in Kinds
           /\ rs.cuts[Len(rs.cuts)] = Total
           /\ \A k \in 1..Len(rs.cuts) : rs.cuts[k] \in 0..Total
           /\ \A i, j \in 1..Len(rs.cuts) : i <= j => rs.cuts[i] <= rs.cuts[j]
<1>1. rs.kinds \in Seq(Kinds) /\ rs.cuts \in Seq(0..Len(rs.kinds)) /\ rs.cuts # <<>>
    BY ResultSetsAssumption
<1>2. /\ rs.cuts[Len(rs.cuts)] = Len(rs.kinds)
      /\ \A i, j \in DOMAIN rs.cuts : i <= j => rs.cuts[i] <= rs.cuts[j]
    BY ResultSetsAssumption
<1> QED
    BY <1>1, <1>2, SMTT(30) DEF Total

LEMMA RangeAppend ==
    ASSUME NEW S, NEW s \in Seq(S), NEW e \in S
    PROVE  Range(Append(s, e)) = Range(s) \cup {e}
<1> DEFINE t == Append(s, e)
<1>1. /\ Len(s) \in Nat /\ DOMAIN s = 1..Len(s) /\ DOMAIN t = 1..(Len(s) + 1)
      /\ t[Len(s) + 1] = e /\ \A i \in 1..Len(s) : t[i] = s[i]
    OBVIOUS
<1> HIDE DEF t
<1>2. \A i \in DOMAIN t : i = Len(s) + 1 \/ i \in 1..Len(s)
    BY <1>1
<1>3. Len(s) + 1 \in DOMAIN t /\ \A i \in 1..Len(s) : i \in DOMAIN t
    BY <1>1
<1>4. \A x \in Range(t) : x \in Range(s) \cup {e}
    BY <1>1, <1>2 DEF Range
<1>5. \A x \in Range(s) : x \in Range(t)
    BY <1>1, <1>3 DEF Range
<1>6. e \in Range(t)
    BY <1>1, <1>3 DEF Range
<1> QED
    BY <1>4, <1>5, <1>6 DEF t

LEMMA RangeSeq ==
    ASSUME NEW S, NEW s \in Seq(S)
    PROVE  Range(s) \subseteq S
BY DEF Range

\* Something greater than all the rest at the end keeps the order.
LEMMA IncreasingAppend ==
    ASSUME NEW s \in Seq(Nat), Increasing(s), NEW e \in Nat, \A p \in Range(s) : p < e
    PROVE  Increasing(Append(s, e))
BY DEF Increasing, Range

LEMMA IncreasingInjective ==
    ASSUME NEW s \in Seq(Nat), Increasing(s)
    PROVE  IsInjective(s)
<1>1. \A i, j \in 1..Len(s) : i < j => s[i] < s[j] /\ s[i] \in Nat /\ s[j] \in Nat
    BY DEF Increasing
<1> QED
    BY <1>1 DEF IsInjective

-----------------------------------------------------------------------------
(* Init *)

LEMMA InitInv == Init => Inv
<1> SUFFICES ASSUME Init PROVE Inv
    OBVIOUS
<1> USE DEF Init
<1>1. FlagType
    BY Zenon DEF FlagType
<1>2. DataType
    BY SetFacts, ChainFacts DEF DataType, CallType, ItemType, NetType, Results, NoResult, Final,
                                Settings, Blank, Positions
<1>3. CallInv /\ DepthInv /\ ServerInv /\ PagesAlike
    BY DEF CallInv, Unsent, DepthInv, ServerInv, PagesAlike
<1>4. EndInv
    BY DEF EndInv
<1>5. ChanInv
    BY DEF ChanInv, ChanLen
<1>6. OutInv
    BY DEF OutInv, Increasing, Range
<1>7. RefsInv /\ ResInv
    BY DEF RefsInv, Kept, Increasing, Range, ResInv, Outcome
<1> QED
    BY <1>1, <1>2, <1>3, <1>4, <1>5, <1>6, <1>7 DEF Inv

\* The message next in the channel: the item after the last one read, or the
\* final message of the page, after all its items.
LEMMA HeadFacts ==
    ASSUME DataType, ChanInv, chan # <<>>
    PROVE  /\ Head(chan) \in Results /\ Tail(chan) \in Seq(Results)
           /\ Len(chan) \in Nat /\ Len(Tail(chan)) = Len(chan) - 1
           /\ \A i \in 1..Len(Tail(chan)) : Tail(chan)[i] = chan[i + 1]
           /\ Head(chan).pos # 0 => Head(chan) = Item(read + 1) /\ read + 1 <= srv.pos
           /\ Head(chan).pos = 0 =>
                read = srv.pos /\ Len(chan) = 1 /\ ~tx /\ IsFinal(Head(chan))
<1>1. /\ chan \in Seq(Results) /\ Len(chan) \in Nat /\ Len(chan) >= 1
      /\ Head(chan) = chan[1] /\ Head(chan) \in Results
      /\ read \in Nat /\ srv.pos \in Nat
    BY SetFacts DEF DataType, ItemType, NetType
<1>2. \/ read + 1 <= srv.pos /\ chan[1] = Item(read + 1)
      \/ read + 1 = srv.pos + 1 /\ 1 = Len(chan) /\ ~tx /\ IsFinal(chan[1])
  <2>1. 1 \in 1..Len(chan)
      BY <1>1
  <2> QED
      BY <2>1, Zenon DEF ChanInv
<1>3. Item(read + 1).pos # 0
    BY <1>1 DEF Item
<1>4. IsFinal(chan[1]) => chan[1].pos = 0
    BY DEF IsFinal, Final
<1> QED
    BY <1>1, <1>2, <1>3, <1>4

\* Anyone who reads has sent a request.
LEMMA SentFacts ==
    ASSUME DataType, CallInv, ~Unsent, phase # "gone"
    PROVE  reqs # <<>> /\ Len(reqs) \in Nat \ {0} /\ id \in 1..Len(reqs)
<1>1. Len(reqs) \in Nat /\ id \in 0..Len(reqs) /\ id # 0
    BY DEF DataType, NetType, CallInv
<1> QED
    BY <1>1

-----------------------------------------------------------------------------
(* The steps.  For each part of the invariant: the actions that disturb    *)
(* it, and the rest, which leaves its variables alone.                     *)

LEMMA FlagStep ==
    ASSUME FlagType, [Next]_vars
    PROVE  FlagType'
<1> USE DEF FlagType
<1>1. CASE Start
    BY <1>1, Zenon DEF Start, Request, initvars, uservars, histvars
<1>2. CASE StartRefused \/ Started \/ StartFails
    BY <1>2, Zenon DEF StartRefused, Started, StartFails, initvars, adaptvars, netvars,
                       uservars, histvars
<1>3. CASE CallNext \/ PageStep \/ Cancel \/ Finish
    BY <1>3, Zenon DEF CallNext, PageStep, PageOpened, PageFails, Cancel, Finish, streamvars,
                       netvars, uservars, histvars
<1>4. CASE NextStep
    BY <1>4, Zenon DEF NextStep, NextItem, NextNone, NextPage, NextEndOfStream, NextTimeout,
                       NextPanics, Request, streamvars, netvars, uservars, histvars
<1>5. CASE SrvItem \/ SrvDone \/ ConnLost
    BY <1>5, Zenon DEF SrvItem, SrvDone, ConnLost, streamvars, uservars, histvars
<1>6. CASE UNCHANGED vars
    BY <1>6, Zenon DEF vars, streamvars, netvars, uservars, histvars
<1> QED
    BY <1>1, <1>2, <1>3, <1>4, <1>5, <1>6 DEF Next, Finished

LEMMA CallStep ==
    ASSUME Inv, [Next]_vars
    PROVE  CallInv'
<1> USE DEF Inv, DataType, NetType, CallInv, Unsent, Uses
<1>1. CASE Start
    BY <1>1 DEF Start, Request, initvars, uservars, histvars
<1>2. CASE StartRefused \/ Started \/ StartFails
    BY <1>2 DEF StartRefused, Started, StartFails, initvars, adaptvars, netvars, uservars,
                histvars
<1>3. CASE CallNext \/ PageStep \/ Cancel \/ Finish
    BY <1>3 DEF CallNext, PageStep, PageOpened, PageFails, Cancel, Finish, Return, initvars,
                adaptvars, callvars, streamvars, netvars, uservars, histvars
<1>4. CASE NextItem \/ NextNone \/ NextEndOfStream \/ NextTimeout \/ NextPanics
    BY <1>4 DEF NextItem, NextNone, NextEndOfStream, NextTimeout, NextPanics, Return, initvars,
                adaptvars, streamvars, netvars, uservars, histvars
<1>7. CASE NextPage
    BY <1>7, SentFacts DEF NextPage, Request, initvars, adaptvars, streamvars, netvars,
                           uservars, histvars
<1>5. CASE SrvItem \/ SrvDone \/ ConnLost
    BY <1>5 DEF SrvItem, SrvDone, ConnLost, initvars, adaptvars, callvars, streamvars, uservars,
                histvars
<1>6. CASE UNCHANGED vars
    BY <1>6 DEF vars, initvars, adaptvars, callvars, streamvars, netvars, uservars, histvars
<1> QED
    BY <1>1, <1>2, <1>3, <1>4, <1>5, <1>6, <1>7 DEF Next, NextStep, Finished

LEMMA EndStep ==
    ASSUME Inv, [Next]_vars
    PROVE  EndInv' /\ DepthInv'
<1> USE DEF Inv, FlagType, CallInv, EndInv, DepthInv
<1>1. CASE Start
    BY <1>1 DEF Start, Request, initvars, uservars, histvars
<1>2. CASE StartRefused \/ Started \/ StartFails
    BY <1>2 DEF StartRefused, Started, StartFails, initvars, adaptvars, netvars, uservars,
                histvars
<1>3. CASE CallNext \/ PageStep \/ Cancel \/ Finish
    BY <1>3 DEF CallNext, PageStep, PageOpened, PageFails, Cancel, Finish, Return, initvars,
                adaptvars, callvars, streamvars, netvars, uservars, histvars
<1>4. CASE NextItem \/ NextPage \/ NextEndOfStream \/ NextTimeout \/ NextPanics
    BY <1>4 DEF NextItem, NextPage, NextEndOfStream, NextTimeout, NextPanics, Return, Request,
                initvars, adaptvars, streamvars, netvars, uservars, histvars
<1>7. CASE NextNone
    BY <1>7, HeadFacts DEF NextNone, Return, initvars, adaptvars, streamvars, netvars, uservars,
                           histvars
<1>5. CASE SrvItem \/ SrvDone \/ ConnLost
    BY <1>5 DEF SrvItem, SrvDone, ConnLost, initvars, adaptvars, callvars, streamvars, uservars,
                histvars
<1>6. CASE UNCHANGED vars
    BY <1>6 DEF vars, initvars, adaptvars, callvars, streamvars, netvars, uservars, histvars
<1> QED
    BY <1>1, <1>2, <1>3, <1>4, <1>5, <1>6, <1>7 DEF Next, NextStep, Finished

\* The settings of every request.
Asked == IF Uses("PagedResults") THEN WithPaging(want) ELSE want

LEMMA AskedFacts ==
    ASSUME DataType
    PROVE  Asked \in Settings /\ ("paged" \in Asked.ctrls <=> Paged)
BY DEF DataType, CallType, Asked, WithPaging, Settings, Paged, HandPaged

\* The page after the first c ones, for a cookie the server has given.
LEMMA AnswerFacts ==
    ASSUME rs \in ResultSets, NEW ctrls, NEW c \in Nat, c < Len(rs.cuts),
           "paged" \notin ctrls => c = 0
    PROVE  /\ Answer(ctrls, c) \in [pos : Nat, end : 0..Total, cookie : Nat]
           /\ Answer(ctrls, c).pos = IF c = 0 THEN 0 ELSE rs.cuts[c]
           /\ Answer(ctrls, c).pos <= Answer(ctrls, c).end
           /\ "paged" \notin ctrls =>
                Answer(ctrls, c).end = Total /\ Answer(ctrls, c).cookie = 0
           /\ "paged" \in ctrls =>
                /\ Answer(ctrls, c).end = rs.cuts[c + 1]
                /\ Answer(ctrls, c).cookie = IF c + 1 < Len(rs.cuts) THEN c + 1 ELSE 0
<1>1. CASE "paged" \notin ctrls
    BY <1>1, SetFacts DEF Answer
<1>2. CASE "paged" \in ctrls
  <2>1. /\ rs.cuts[c + 1] \in 0..Total
        /\ c # 0 => rs.cuts[c] \in 0..Total /\ rs.cuts[c] <= rs.cuts[c + 1]
      BY SetFacts
  <2>2. Answer(ctrls, c) = [pos |-> IF c = 0 THEN 0 ELSE rs.cuts[c], end |-> rs.cuts[c + 1],
                            cookie |-> IF c + 1 < Len(rs.cuts) THEN c + 1 ELSE 0]
      BY <1>2 DEF Answer, PageStart
  <2> QED
      BY <1>2, <2>1, <2>2, SetFacts
<1> QED
    BY <1>1, <1>2

\* PagedResults asks for another page when the current one is used up.
LEMMA NextPageFacts ==
    ASSUME Inv, NextPage
    PROVE  /\ Uses("PagedResults") /\ saved = want
           /\ Len(reqs) \in Nat \ {0} /\ Len(reqs) < Len(rs.cuts)
           /\ Head(chan).cookie = Len(reqs) /\ read = rs.cuts[Len(reqs)]
<1> USE DEF Inv
<1>1. Uses("PagedResults") /\ Head(chan).pos = 0 /\ Head(chan).cookie # 0 /\ chan # <<>>
    BY BelowTop DEF NextPage, Continues, DataType, CallType
<1>2. read = srv.pos /\ IsFinal(Head(chan))
    BY <1>1, HeadFacts
<1>3. Head(chan) = Final(0, srv.cookie) /\ srv.pos = srv.end /\ srv.cookie # 0
    BY <1>1, <1>2 DEF IsFinal, Final
<1>4. reqs # <<>> /\ Len(reqs) \in Nat \ {0}
    BY SentFacts DEF NextPage, Unsent
<1>5. Paged
    BY <1>1 DEF Paged
<1>6. /\ Len(reqs) <= Len(rs.cuts) /\ srv.end = rs.cuts[Len(reqs)]
      /\ srv.cookie = IF Len(reqs) < Len(rs.cuts) THEN Len(reqs) ELSE 0
    BY <1>4, <1>5 DEF ServerInv
<1>7. saved = want
    BY <1>1, <1>4 DEF CallInv
<1> QED
    BY <1>1, <1>2, <1>3, <1>4, <1>6, <1>7 DEF Final

\* Start and NextPage send the request for the page after those read.
LEMMA RequestFacts ==
    ASSUME Inv, Start \/ NextPage
    PROVE  /\ reqs' = Append(reqs, [set |-> Asked, cookie |-> Len(reqs)])
           /\ Len(reqs) \in Nat /\ Len(reqs) < Len(rs.cuts)
           /\ ~Paged => Len(reqs) = 0
           /\ srv' = Answer(Asked.ctrls, Len(reqs))
           /\ read = IF Len(reqs) = 0 THEN 0 ELSE rs.cuts[Len(reqs)]
           /\ chan' = <<>>
           /\ UNCHANGED <<initvars, read, out, resrefs, result, cancelled, ended, entered>>
<1> USE DEF Inv
<1>1. CASE Start
  <2>1. Unsent /\ reqs = <<>> /\ ldap = want /\ read = 0
      BY <1>1 DEF CallInv, Start, Unsent
  <2>2. Len(reqs) = 0 /\ Len(rs.cuts) \in Nat \ {0}
      BY <2>1, SetFacts DEF DataType, NetType
  <2>3. Request(Asked, 0)
      BY <1>1, <2>1 DEF Start, Asked
  <2> QED
      BY <1>1, <2>1, <2>2, <2>3 DEF Start, Request, initvars, uservars, histvars
<1>2. CASE NextPage
  <2>1. Request(Asked, Len(reqs))
      BY <1>2, NextPageFacts DEF NextPage, Asked, PageSettings, NextCookie
  <2> QED
      BY <1>2, <2>1, NextPageFacts DEF NextPage, Request, Paged, initvars, uservars, histvars
<1> QED
    BY <1>1, <1>2

\* The requests sent, and the pages they are answered with.
LEMMA ServerStep ==
    ASSUME Inv, [Next]_vars
    PROVE  ServerInv' /\ PagesAlike'
<1> USE DEF Inv
<1>1. CASE Start \/ NextPage
  <2> DEFINE n == Len(reqs)
  <2>1. /\ n \in Nat /\ reqs' = Append(reqs, [set |-> Asked, cookie |-> n])
        /\ reqs \in Seq([set : Settings, cookie : Nat])
        /\ UNCHANGED <<chain, rs, want>>
      BY <1>1, RequestFacts DEF initvars, DataType, NetType
  <2>2. /\ Len(reqs') = n + 1 /\ reqs'[n + 1] = [set |-> Asked, cookie |-> n]
        /\ \A k \in 1..n : reqs'[k] = reqs[k]
        /\ DOMAIN reqs = 1..n /\ DOMAIN reqs' = 1..(n + 1)
      BY <2>1
  <2>3. Asked' = Asked /\ (Paged' <=> Paged) /\ Total' = Total
      BY <2>1 DEF Asked, Paged, HandPaged, Uses, WithPaging, Total
  <2>4. PagesAlike'
    <3>1. \A k \in 1..n : reqs[k] = [set |-> Asked, cookie |-> k - 1]
        BY <2>2 DEF PagesAlike, Asked
    <3>2. \A k \in 1..(n + 1) : reqs'[k] = [set |-> Asked, cookie |-> k - 1]
        BY <2>1, <2>2, <3>1
    <3> QED
        BY <2>2, <2>3, <3>2 DEF PagesAlike, Asked
  <2>5. /\ "paged" \in Asked.ctrls <=> Paged
        /\ n < Len(rs.cuts) /\ srv' = Answer(Asked.ctrls, n) /\ (~Paged => n = 0)
        /\ rs \in ResultSets /\ Len(rs.cuts) \in Nat
      BY <1>1, RequestFacts, AskedFacts, SetFacts DEF DataType, NetType
  <2>6. CASE ~Paged
    <3>1. srv'.end = Total /\ srv'.cookie = 0
        BY <2>1, <2>5, <2>6, AnswerFacts
    <3> QED
        BY <2>3, <2>4, <2>6, <3>1 DEF ServerInv
  <2>7. CASE Paged
    <3>1. srv'.end = rs.cuts[n + 1] /\ srv'.cookie = IF n + 1 < Len(rs.cuts) THEN n + 1 ELSE 0
        BY <2>1, <2>5, <2>7, AnswerFacts
    <3> QED
        BY <2>1, <2>2, <2>3, <2>4, <2>5, <2>7, <3>1 DEF ServerInv
  <2> QED
      BY <2>6, <2>7
<1>2. CASE SrvItem
    BY <1>2 DEF SrvItem, DataType, NetType, ServerInv, PagesAlike, Paged,
                HandPaged, Uses, Total, WithPaging,
                initvars
<1>3. CASE UNCHANGED <<initvars, reqs, srv>>
    BY <1>3 DEF ServerInv, PagesAlike, Paged, HandPaged, Uses, Total, WithPaging, initvars
<1>4. Start \/ NextPage \/ SrvItem \/ UNCHANGED <<initvars, reqs, srv>>
    BY DEF Next, StartRefused, Started, StartFails, CallNext, NextStep, NextItem, NextNone,
           NextEndOfStream, NextTimeout, NextPanics, PageStep, PageOpened, PageFails, Cancel,
           Finish, SrvDone, ConnLost, Finished, netvars, vars
<1> QED
    BY <1>1, <1>2, <1>3, <1>4

\* With the sender there, the channel holds nothing but the unread items.
LEMMA AllItems ==
    ASSUME read \in Nat, srv.pos \in Nat, Len(chan) \in Nat, ChanLen,
           \A i \in 1..Len(chan) : read + i <= srv.pos /\ chan[i] = Item(read + i)
    PROVE  read + Len(chan) = srv.pos
<1>1. CASE Len(chan) = 0
    BY <1>1 DEF ChanLen
<1>2. CASE Len(chan) # 0
  <2>1. Len(chan) \in 1..Len(chan)
      BY <1>2
  <2> QED
      BY <2>1 DEF ChanLen
<1> QED
    BY <1>1, <1>2

\* The channel: the reader takes from one end what the server has put into
\* the other.
LEMMA ChanStep ==
    ASSUME Inv, [Next]_vars
    PROVE  ChanInv'
<1> USE DEF Inv
<1>0. /\ read \in Nat /\ srv.pos \in Nat /\ chan \in Seq(Results) /\ Len(chan) \in Nat
      /\ srv \in [pos : Nat, end : 0..Total, cookie : Nat]
    BY SetFacts DEF DataType, ItemType, NetType
<1>1. CASE Start \/ NextPage
  <2>1. /\ chan' = <<>> /\ read' = read /\ srv' = Answer(Asked.ctrls, Len(reqs))
        /\ read = IF Len(reqs) = 0 THEN 0 ELSE rs.cuts[Len(reqs)]
      BY <1>1, RequestFacts
  <2>2. srv'.pos = read
      BY <1>1, <2>1, RequestFacts, AskedFacts, AnswerFacts DEF DataType, NetType
  <2> QED
      BY <1>0, <2>1, <2>2 DEF ChanInv, ChanLen
<1>2. CASE NextItem
  <2>1. chan # <<>> /\ chan' = Tail(chan) /\ UNCHANGED <<srv, tx>> /\ read' = Head(chan).pos
        /\ Head(chan).pos # 0
      BY <1>2 DEF NextItem
  <2>2. read' = read + 1 /\ read + 1 <= srv.pos
      BY <1>0, <2>1, HeadFacts DEF Item
  <2>3. Len(chan') = Len(chan) - 1 /\ \A i \in 1..Len(chan') : chan'[i] = chan[i + 1]
      BY <2>1, HeadFacts
  <2>4. ChanLen'
    <3>1. ChanLen
        BY DEF ChanInv
    <3> QED
        BY <1>0, <2>1, <2>2, <2>3, <3>1 DEF ChanLen
  <2>5. ASSUME NEW i \in 1..Len(chan')
        PROVE  \/ read' + i <= srv'.pos /\ chan'[i] = Item(read' + i)
               \/ /\ read' + i = srv'.pos + 1 /\ i = Len(chan') /\ ~tx'
                  /\ IsFinal(chan[i])'
    <3>1. i + 1 \in 1..Len(chan) /\ read' + i = read + (i + 1) /\ chan'[i] = chan[i + 1]
          /\ (i + 1 = Len(chan) => i = Len(chan'))
        BY <1>0, <2>2, <2>3
    <3>2. \/ read + (i + 1) <= srv.pos /\ chan[i + 1] = Item(read + (i + 1))
          \/ /\ read + (i + 1) = srv.pos + 1 /\ i + 1 = Len(chan) /\ ~tx
             /\ IsFinal(chan[i + 1])
        BY <3>1, Zenon DEF ChanInv
    <3>3. IsFinal(chan[i + 1]) => IsFinal(chan[i])'
        BY <2>1, <3>1 DEF IsFinal
    <3> QED
        BY <2>1, <3>1, <3>2, <3>3, Zenon
  <2> QED
      BY <2>4, <2>5, Zenon DEF ChanInv
<1>3. CASE NextNone
  <2>1. chan # <<>> /\ chan' = Tail(chan) /\ UNCHANGED <<srv, read>> /\ Head(chan).pos = 0
      BY <1>3 DEF NextNone, histvars
  <2>2. Len(chan') = 0 /\ read = srv.pos
      BY <1>0, <2>1, HeadFacts
  <2> QED
      BY <1>0, <2>1, <2>2 DEF ChanInv, ChanLen
<1>4. CASE SrvItem
  <2>1. /\ tx /\ UNCHANGED <<read, tx>> /\ chan' = Append(chan, Item(srv.pos + 1))
        /\ srv' = [srv EXCEPT !.pos = @ + 1]
      BY <1>4 DEF SrvItem, histvars
  <2>2. srv'.pos = srv.pos + 1 /\ Item(srv.pos + 1) \in Results
      BY <1>0, <2>1 DEF Item, Results
  <2>3. /\ Len(chan') = Len(chan) + 1 /\ chan'[Len(chan) + 1] = Item(srv.pos + 1)
        /\ \A i \in 1..Len(chan) : chan'[i] = chan[i]
      BY <1>0, <2>1, <2>2
  <2>4. \A i \in 1..Len(chan) : read + i <= srv.pos /\ chan[i] = Item(read + i)
      BY <2>1, Zenon DEF ChanInv
  <2>5. read + Len(chan) = srv.pos
      BY <1>0, <2>4, AllItems DEF ChanInv
  <2>6. ASSUME NEW i \in 1..(Len(chan) + 1)
        PROVE  read + i <= srv.pos + 1 /\ chan'[i] = Item(read + i)
    <3>1. CASE i = Len(chan) + 1
        BY <1>0, <2>3, <2>5, <3>1
    <3>2. CASE i \in 1..Len(chan)
        BY <1>0, <2>3, <2>4, <2>5, <3>2
    <3> QED
        BY <1>0, <3>1, <3>2
  <2>7. ChanLen'
      BY <1>0, <2>1, <2>2, <2>3, <2>5 DEF ChanLen
  <2> QED
      BY <1>0, <2>1, <2>2, <2>3, <2>6, <2>7 DEF ChanInv
<1>5. CASE SrvDone
  <2>1. /\ tx /\ UNCHANGED <<read, srv>> /\ ~tx'
        /\ \E m \in Results : IsFinal(m) /\ chan' = Append(chan, m)
      BY <1>0, <1>5 DEF SrvDone, histvars, IsFinal, Final, Results
  <2>2. PICK m \in Results : IsFinal(m) /\ chan' = Append(chan, m)
      BY <2>1
  <2>3. /\ Len(chan') = Len(chan) + 1 /\ chan'[Len(chan) + 1] = m
        /\ \A i \in 1..Len(chan) : chan'[i] = chan[i]
      BY <1>0, <2>2
  <2>4. \A i \in 1..Len(chan) : read + i <= srv.pos /\ chan[i] = Item(read + i)
      BY <2>1, Zenon DEF ChanInv
  <2>5. read + Len(chan) = srv.pos
      BY <1>0, <2>4, AllItems DEF ChanInv
  <2>6. ASSUME NEW i \in 1..Len(chan')
        PROVE  \/ read + i <= srv.pos /\ chan'[i] = Item(read + i)
               \/ read + i = srv.pos + 1 /\ i = Len(chan') /\ chan'[i] = m
    <3>1. CASE i = Len(chan) + 1
        BY <1>0, <2>3, <2>5, <3>1
    <3>2. CASE i \in 1..Len(chan)
        BY <1>0, <2>3, <2>4, <2>5, <3>2
    <3> QED
        BY <1>0, <2>3, <3>1, <3>2
  <2>7. ChanLen'
      BY <1>0, <2>1, <2>3, <2>5 DEF ChanLen
  <2>8. IsFinal(m)'
      BY <2>1, <2>2 DEF IsFinal
  <2> QED
      BY <2>1, <2>6, <2>7, <2>8, Zenon DEF ChanInv
<1>6. CASE ConnLost
  <2>1. UNCHANGED <<read, chan, srv>> /\ ~tx' /\ tx
      BY <1>6 DEF ConnLost, histvars
  <2> QED
      BY <2>1, Zenon DEF ChanInv, ChanLen, IsFinal
<1>7. CASE UNCHANGED <<read, chan, srv, tx>>
  <2> QED
      BY <1>7 DEF ChanInv, ChanLen, IsFinal
<1>8. Start \/ NextPage \/ NextItem \/ NextNone \/ SrvItem \/ SrvDone \/ ConnLost
      \/ UNCHANGED <<read, chan, srv, tx>>
    BY DEF Next, StartRefused, Started, StartFails, CallNext, NextStep,
           NextEndOfStream, NextTimeout, NextPanics, PageStep, PageOpened, PageFails, Cancel,
           Finish, Finished, netvars, histvars, vars
<1> QED
    BY <1>1, <1>2, <1>3, <1>4, <1>5, <1>6, <1>7, <1>8

\* The item that is read is the one after the last; a call that has entered at
\* the top of the chain hides it exactly if it is not to be seen.
LEMMA NextItemFacts ==
    ASSUME Inv, NextItem
    PROVE  /\ read \in Nat /\ read' = read + 1 /\ read' \in Positions /\ read' <= srv.pos
           /\ Head(chan).pos = read + 1
           /\ ~Bypassed => (Hidden(read + 1) <=> ~Visible(read + 1))
           /\ Hidden(read + 1) => rs.kinds[read + 1] # "entry"
           /\ state = "Active" /\ ~ended /\ rx /\ phase = "reading"
           /\ UNCHANGED <<initvars, resrefs, result, res, cancelled, ended, srv, reqs, entered>>
<1> USE DEF Inv
<1>1. Head(chan) = Item(read + 1) /\ read + 1 <= srv.pos /\ read' = Head(chan).pos
    BY HeadFacts DEF NextItem
<1>2. /\ read \in Nat /\ srv.pos \in Nat /\ srv.end \in 0..Total /\ srv.pos <= srv.end
      /\ Total \in Nat
    BY SetFacts DEF DataType, ItemType, NetType
<1>3. ~Bypassed => (Hidden(read + 1) <=> ~Visible(read + 1))
    BY BelowTop, TopFacts DEF Hidden, Visible, DataType, CallType
<1>4. Hidden(read + 1) => rs.kinds[read + 1] # "entry"
    BY DEF Hidden
<1>5. state = "Active" /\ ~ended /\ rx /\ phase = "reading"
    BY DEF NextItem, CallInv, EndInv
<1>6. UNCHANGED <<initvars, resrefs, result, res, cancelled, ended, srv, reqs, entered>>
    BY DEF NextItem
<1> QED
    BY <1>1, <1>2, <1>3, <1>4, <1>5, <1>6 DEF Item, Positions

LEMMA OutStep ==
    ASSUME Inv, [Next]_vars
    PROVE  OutInv'
<1> USE DEF Inv, Bypassed
<1>1. CASE NextItem
  <2> DEFINE p == read + 1
  <2>1. /\ read \in Nat /\ read' = p /\ p \in Positions /\ Head(chan).pos = p
        /\ Hidden(p) => rs.kinds[p] # "entry"
        /\ UNCHANGED <<chain, rs, cancelled>>
      BY <1>1, NextItemFacts DEF initvars
  <2>2. ~Bypassed => (Hidden(p) <=> ~Visible(p))
      BY <1>1, NextItemFacts
  <2>3. Total \in Nat /\ out \in Seq(Positions) /\ out \in Seq(Nat)
      BY SetFacts DEF DataType, ItemType, NetType, Positions
  <2>4. \A q \in Range(out) : q \in Nat /\ q <= read
      BY <2>3, RangeSeq DEF OutInv
  <2>5. \A q : Visible(q)' <=> Visible(q)
      BY <2>1 DEF Visible, Uses
  <2>6. CASE ~Hidden(p)
    <3>1. out' = Append(out, p)
        BY <1>1, <2>1, <2>6 DEF NextItem
    <3>2. Range(out') = Range(out) \cup {p}
        BY <2>1, <2>3, <3>1, RangeAppend
    <3>3. Increasing(out)'
      <4>1. Increasing(out) /\ p \in Nat /\ \A q \in Range(out) : q < p
          BY <2>1, <2>4 DEF OutInv
      <4>2. Increasing(Append(out, p))
          BY <2>3, <4>1, IncreasingAppend
      <4> QED
          BY <3>1, <4>2 DEF Increasing
    <3>4. \A q \in Range(out') : q <= read'
        BY <2>1, <2>4, <3>2
    <3>5. \A q \in 1..read' : rs'.kinds[q] = "entry" => q \in Range(out')
        BY <2>1, <3>2 DEF OutInv
    <3>6. ASSUME ~Bypassed' PROVE Range(out') = {q \in 1..read' : Visible(q)'}
      <4>1. Range(out) = {q \in 1..read : Visible(q)} /\ Visible(p)
          BY <2>1, <2>2, <2>6, <3>6 DEF OutInv
      <4> HIDE DEF p
      <4>2. \A q : q \in 1..p <=> q \in 1..read \/ q = p
          BY <2>1 DEF p
      <4> QED
          BY <2>1, <2>5, <3>2, <4>1, <4>2
    <3> QED
        BY <3>3, <3>4, <3>5, <3>6 DEF OutInv
  <2>7. CASE Hidden(p)
    <3>1. out' = out
        BY <1>1, <2>1, <2>7 DEF NextItem
    <3>2. Increasing(out)' /\ \A q \in Range(out') : q <= read'
        BY <2>1, <2>4, <3>1 DEF OutInv, Increasing
    <3>3. \A q \in 1..read' : rs'.kinds[q] = "entry" => q \in Range(out')
        BY <2>1, <2>7, <3>1 DEF OutInv
    <3>4. ASSUME ~Bypassed' PROVE Range(out') = {q \in 1..read' : Visible(q)'}
      <4>1. Range(out) = {q \in 1..read : Visible(q)} /\ ~Visible(p)
          BY <2>1, <2>2, <2>7, <3>4 DEF OutInv
      <4> HIDE DEF p
      <4>2. \A q : q \in 1..p <=> q \in 1..read \/ q = p
          BY <2>1 DEF p
      <4> QED
          BY <2>1, <2>5, <3>1, <4>1, <4>2
    <3> QED
        BY <3>2, <3>3, <3>4 DEF OutInv
  <2> QED
      BY <2>6, <2>7
<1>2. CASE Cancel
    BY <1>2 DEF Cancel, OutInv, Increasing, Visible, Uses, initvars, uservars
<1>3. CASE UNCHANGED <<chain, rs, out, read, cancelled>>
    BY <1>3 DEF OutInv, Increasing, Visible, Uses
<1>4. NextItem \/ Cancel \/ UNCHANGED <<chain, rs, out, read, cancelled>>
    BY DEF Next, Start, StartRefused, Started, StartFails, CallNext, NextStep, NextNone,
           NextPage,
           NextEndOfStream, NextTimeout, NextPanics, PageStep, PageOpened, PageFails,
           Finish, SrvItem, SrvDone, ConnLost, Finished, initvars, uservars, histvars, vars
<1> QED
    BY <1>1, <1>2, <1>3, <1>4

\* EntriesOnly is not by-passed unless a call was dropped.
LEMMA RefsStep ==
    ASSUME Inv, [Next]_vars
    PROVE  RefsInv'
<1> USE DEF Inv, Bypassed
<1>1. CASE Start
  <2>1. state = "Fresh" /\ state' = state /\ read' = read /\ read = 0 /\ refs' = <<>>
      BY <1>1 DEF Start, CallInv, histvars
  <2> QED
      BY <2>1 DEF RefsInv, Kept, Increasing, Range
<1>2. CASE NextItem
  <2> SUFFICES ASSUME ~Bypassed', Uses("EntriesOnly")'
               PROVE  Increasing(Kept)' /\ Range(Kept') = {q \in 1..read' : rs'.kinds[q] = "ref"}
      BY DEF RefsInv
  <2> DEFINE p == read + 1
  <2>1. /\ read \in Nat /\ read' = p /\ p \in Positions /\ Head(chan).pos = p
        /\ UNCHANGED <<chain, rs, cancelled, resrefs>> /\ state = "Active"
      BY <1>2, NextItemFacts DEF initvars
  <2>2. ~Bypassed /\ Uses("EntriesOnly") /\ (Hidden(p) <=> ~Visible(p))
      BY <1>2, <2>1, NextItemFacts DEF Uses
  <2>3. Kept = refs /\ Kept' = refs'
      BY <1>2, <2>1 DEF Kept, NextItem, Return
  <2>4. Increasing(refs) /\ Range(refs) = {q \in 1..read : rs.kinds[q] = "ref"}
      BY <2>1, <2>2, <2>3 DEF RefsInv
  <2>5. Total \in Nat /\ refs \in Seq(Positions) /\ refs \in Seq(Nat)
      BY SetFacts DEF DataType, ItemType, NetType, Positions
  <2>6. \A q : q \in 1..p <=> q \in 1..read \/ q = p
      BY <2>1
  <2>7. CASE rs.kinds[p] = "ref"
    <3>1. refs' = Append(refs, p)
      <4>1. Hidden(p)
          BY <2>2, <2>7 DEF Visible
      <4> QED
          BY <1>2, <2>1, <2>7, <4>1 DEF NextItem
    <3>2. Range(refs') = Range(refs) \cup {p}
        BY <2>1, <2>5, <3>1, RangeAppend
    <3>3. Increasing(Append(refs, p))
      <4>1. p \in Nat /\ \A q \in Range(refs) : q < p
          BY <2>1, <2>4
      <4> QED
          BY <2>4, <2>5, <4>1, IncreasingAppend
    <3> HIDE DEF p
    <3> QED
        BY <2>1, <2>3, <2>4, <2>6, <2>7, <3>1, <3>2, <3>3 DEF Increasing
  <2>8. CASE rs.kinds[p] # "ref"
    <3>1. refs' = refs
        BY <1>2, <2>1, <2>8 DEF NextItem
    <3> HIDE DEF p
    <3> QED
        BY <2>1, <2>3, <2>4, <2>6, <2>8, <3>1 DEF Increasing
  <2> QED
      BY <2>7, <2>8
<1>3. CASE Cancel
    BY <1>3 DEF Cancel, RefsInv, Kept, Uses, Increasing, initvars, streamvars, adaptvars,
                uservars
<1>4. CASE Finish
  <2>1. /\ state # "Closed" /\ state' = "Closed" /\ phase = "idle"
        /\ UNCHANGED <<chain, rs, read, cancelled>>
      BY <1>4 DEF Finish, initvars
  <2>2. ~Bypassed /\ Uses("EntriesOnly") => Below("EntriesOnly", ax)
      BY <2>1, BelowTop, TopFacts DEF DataType, CallType
  <2>3. ~Bypassed /\ Uses("EntriesOnly") => resrefs' = refs
      BY <1>4, <2>2 DEF Finish
  <2> QED
      BY <2>1, <2>3 DEF RefsInv, Kept, Uses, Increasing
<1>5. CASE /\ UNCHANGED <<chain, rs, read, cancelled, refs, resrefs>>
           /\ state' = "Closed" <=> state = "Closed"
    BY <1>5 DEF RefsInv, Kept, Uses, Increasing
<1>6. \/ Start \/ NextItem \/ Cancel \/ Finish
      \/ /\ UNCHANGED <<chain, rs, read, cancelled, refs, resrefs>>
         /\ state' = "Closed" <=> state = "Closed"
    BY DEF CallInv, Next, StartRefused, Started, StartFails, CallNext, NextStep, NextNone,
           NextPage,
           NextEndOfStream, NextTimeout, NextPanics, PageStep, PageOpened, PageFails, Return,
           SrvItem, SrvDone, ConnLost, Finished, initvars, streamvars, adaptvars, uservars,
           histvars, vars
<1> QED
    BY <1>1, <1>2, <1>3, <1>4, <1>5, <1>6

\* The result is kept as it came, from the final message to finish().
LEMMA ResStep ==
    ASSUME Inv, [Next]_vars
    PROVE  ResInv'
<1> USE DEF Inv, Bypassed
<1>1. CASE Start \/ NextItem
  <2>1. ~ended' /\ ~ended /\ state # "Closed" /\ state' # "Closed"
        /\ UNCHANGED <<chain, res>>
      BY <1>1 DEF Start, NextItem, Return, CallInv, EndInv, initvars, uservars
  <2> QED
      BY <2>1 DEF ResInv, Outcome, Uses
<1>2. CASE NextPage
  <2>1. ~ended' /\ Uses("PagedResults") /\ UNCHANGED chain
      BY <1>2, NextPageFacts DEF NextPage, EndInv, initvars, uservars
  <2> QED
      BY <2>1 DEF ResInv, Uses
<1>3. CASE NextNone
  <2>1. /\ ended' /\ state' # "Closed" /\ res' = Head(chan)
        /\ chan # <<>> /\ Head(chan).pos = 0 /\ ~Continues(Head(chan))
        /\ UNCHANGED <<chain, srv, read, cancelled>>
      BY <1>3 DEF NextNone, Return, initvars, histvars
  <2>2. read = srv.pos /\ IsFinal(Head(chan))
      BY <2>1, HeadFacts
  <2>3. ~Bypassed /\ Uses("PagedResults") => Head(chan).cookie = 0
      BY <2>1, BelowTop, TopFacts DEF DataType, CallType, Continues
  <2> QED
      BY <2>1, <2>2, <2>3 DEF ResInv, Outcome, IsFinal, Final, Uses
<1>4. CASE Cancel
    BY <1>4 DEF Cancel, ResInv, Outcome, Uses, initvars, streamvars, netvars, uservars
<1>5. CASE Finish
    BY <1>5 DEF Finish, ResInv, Outcome, Uses, initvars, netvars
<1>6. CASE SrvItem
    BY <1>6 DEF SrvItem, EndInv, ResInv, Outcome, Uses, initvars, streamvars, uservars, histvars
<1>7. CASE /\ UNCHANGED <<chain, srv, read, cancelled, ended, res, result>>
           /\ state' = "Closed" <=> state = "Closed"
    BY <1>7 DEF ResInv, Outcome, Uses
<1>8. \/ Start \/ NextItem \/ NextPage \/ NextNone \/ Cancel \/ Finish \/ SrvItem
      \/ /\ UNCHANGED <<chain, srv, read, cancelled, ended, res, result>>
         /\ state' = "Closed" <=> state = "Closed"
    BY DEF CallInv, Next, StartRefused, Started, StartFails, CallNext, NextStep,
           NextEndOfStream, NextTimeout, NextPanics, PageStep, PageOpened, PageFails, Return,
           SrvDone, ConnLost, Finished, initvars, streamvars, adaptvars, netvars, uservars,
           histvars, vars
<1> QED
    BY <1>1, <1>2, <1>3, <1>4, <1>5, <1>6, <1>7, <1>8

\* The data have their types.
LEMMA CallTypeStep ==
    ASSUME Inv, [Next]_vars
    PROVE  CallType'
<1> USE DEF Inv, DataType, CallType
<1>0. Len(chain) \in Nat /\ Blank \in Settings
    BY ChainFacts DEF Blank, Settings
<1>1. chain' = chain /\ want' = want
    BY DEF Next, Start, StartRefused, Started, StartFails, CallNext, NextStep, NextItem,
           NextNone,
           NextPage, NextEndOfStream, NextTimeout, NextPanics, PageStep, PageOpened, PageFails,
           Cancel, Finish, SrvItem, SrvDone, ConnLost, Finished, initvars, vars
<1>2. CASE Start
    BY <1>0, <1>1, <1>2 DEF Start
<1>3. CASE NextPage
  <2>1. Level("PagedResults") \in 0..Len(chain)
      BY <1>3, ChainFacts DEF NextPage, Continues
  <2> QED
      BY <1>1, <1>3, <2>1 DEF NextPage, adaptvars
<1>4. CASE CallNext \/ PageOpened
    BY <1>0, <1>1, <1>4 DEF CallNext, PageOpened, adaptvars
<1>5. CASE StartRefused \/ Started \/ StartFails
    BY <1>1, <1>5 DEF StartRefused, Started, StartFails, adaptvars
<1>6. CASE NextItem \/ NextNone
    BY <1>1, <1>6 DEF NextItem, NextNone, Return, adaptvars
<1>7. CASE NextEndOfStream \/ NextTimeout \/ PageFails
    BY <1>1, <1>7 DEF NextEndOfStream, NextTimeout, PageFails, Return, adaptvars
<1>8. CASE NextPanics \/ Cancel \/ Finish
    BY <1>1, <1>8 DEF NextPanics, Cancel, Finish, streamvars, adaptvars, callvars
<1>9. CASE SrvItem \/ SrvDone \/ ConnLost \/ UNCHANGED vars
    BY <1>1, <1>9 DEF SrvItem, SrvDone, ConnLost, streamvars, adaptvars, callvars, vars
<1> QED
    BY <1>2, <1>3, <1>4, <1>5, <1>6, <1>7, <1>8, <1>9 DEF Next, NextStep, PageStep, Finished

LEMMA ItemTypeStep ==
    ASSUME Inv, [Next]_vars
    PROVE  ItemType'
<1> USE DEF Inv, DataType
<1>0. rs' = rs /\ Total' = Total /\ Positions' = Positions /\ Total \in Nat
  <2>1. rs' = rs
      BY DEF Next, Start, StartRefused, Started, StartFails, CallNext, NextStep, NextItem,
             NextNone,
             NextPage, NextEndOfStream, NextTimeout, NextPanics, PageStep, PageOpened, PageFails,
             Cancel, Finish, SrvItem, SrvDone, ConnLost, Finished, initvars, vars
  <2> QED
      BY <2>1, SetFacts DEF Total, Positions, NetType
<1>1. CASE Start
    BY <1>0, <1>1 DEF ItemType, Start, Request, uservars, histvars
<1>2. CASE NextPage
    BY <1>0, <1>2, HeadFacts DEF ItemType, NextPage, Request, adaptvars, uservars, histvars
<1>3. CASE NextItem
  <2>1. /\ read' \in Positions /\ Head(chan).pos = read' /\ chan # <<>> /\ chan' = Tail(chan)
        /\ UNCHANGED <<res, result, resrefs>>
      BY <1>3, NextItemFacts DEF NextItem
  <2>2. out' \in {out, Append(out, read')} /\ refs' \in {refs, Append(refs, read')}
      BY <1>3, <2>1 DEF NextItem
  <2>3. out' \in Seq(Positions) /\ refs' \in Seq(Positions)
    <3>1. out \in Seq(Positions) /\ refs \in Seq(Positions) /\ read' \in Positions
        BY <2>1 DEF ItemType
    <3>2. Append(out, read') \in Seq(Positions) /\ Append(refs, read') \in Seq(Positions)
        BY <3>1, AppendProperties
    <3> QED
        BY <2>2, <3>1, <3>2
  <2>4. read' \in 0..Total /\ chan' \in Seq(Results)
      BY <1>0, <2>1, HeadFacts DEF Positions
  <2> QED
      BY <1>0, <2>1, <2>3, <2>4 DEF ItemType
<1>4. CASE NextNone
    BY <1>0, <1>4, HeadFacts DEF ItemType, NextNone, adaptvars, histvars
<1>5. CASE Finish
  <2>1. NoResult \in Results
      BY DEF NoResult, Final, Results
  <2>2. /\ result' = res /\ res' = NoResult /\ resrefs' \in {resrefs, refs}
        /\ refs' \in {refs, <<>>} /\ UNCHANGED <<chan, out, read>>
      BY <1>5 DEF Finish, netvars
  <2>3. refs' \in Seq(Positions) /\ resrefs' \in Seq(Positions)
    <3>1. refs \in Seq(Positions) /\ resrefs \in Seq(Positions) /\ <<>> \in Seq(Positions)
        BY DEF ItemType
    <3> QED
        BY <2>2, <3>1, Zenon
  <2> QED
      BY <1>0, <2>1, <2>2, <2>3 DEF ItemType
<1>6. CASE SrvItem \/ SrvDone
  <2>1. /\ Item(srv.pos + 1) \in Results
        /\ Final(0, srv.cookie) \in Results /\ Final(1, 0) \in Results
      BY DEF NetType, Item, Final, Results
  <2>2. chan' \in Seq(Results)
    <3>1. PICK m \in Results : chan' = Append(chan, m)
        BY <1>6, <2>1 DEF SrvItem, SrvDone
    <3>2. chan \in Seq(Results)
        BY DEF ItemType
    <3> QED
        BY <3>1, <3>2, AppendProperties
  <2>3. UNCHANGED <<res, result, refs, resrefs, out, read>>
      BY <1>6 DEF SrvItem, SrvDone, streamvars, adaptvars, uservars, histvars
  <2> QED
      BY <1>0, <2>2, <2>3 DEF ItemType
<1>7. CASE UNCHANGED <<res, result, chan, refs, resrefs, out, read>>
    BY <1>0, <1>7 DEF ItemType
<1>8. \/ Start \/ NextPage \/ NextItem \/ NextNone \/ Finish \/ SrvItem \/ SrvDone
      \/ UNCHANGED <<res, result, chan, refs, resrefs, out, read>>
    BY DEF Next, StartRefused, Started, StartFails, CallNext, NextStep, NextEndOfStream,
           NextTimeout, NextPanics, PageStep, PageOpened, PageFails, Cancel, ConnLost, Finished,
           streamvars, adaptvars, netvars, uservars, histvars, vars
<1> QED
    BY <1>1, <1>2, <1>3, <1>4, <1>5, <1>6, <1>7, <1>8

LEMMA NetTypeStep ==
    ASSUME Inv, [Next]_vars
    PROVE  NetType'
<1> USE DEF Inv, DataType
<1>0. Total \in Nat /\ Len(reqs) \in Nat
    BY SetFacts DEF NetType
<1>1. CASE Start \/ NextPage
  <2>1. /\ reqs' = Append(reqs, [set |-> Asked, cookie |-> Len(reqs)])
        /\ Len(reqs) < Len(rs.cuts) /\ srv' = Answer(Asked.ctrls, Len(reqs))
        /\ rs' = rs /\ (~Paged => Len(reqs) = 0)
      BY <1>1, RequestFacts DEF initvars
  <2>2. Asked \in Settings /\ ("paged" \in Asked.ctrls <=> Paged)
      BY AskedFacts
  <2>3. Len(reqs') = Len(reqs) + 1 /\ reqs' \in Seq([set : Settings, cookie : Nat])
      BY <1>0, <2>1, <2>2 DEF NetType
  <2>4. srv' \in [pos : Nat, end : 0..Total, cookie : Nat] /\ srv'.pos <= srv'.end
      BY <1>0, <2>1, <2>2, AnswerFacts DEF NetType
  <2>5. id' \in {id, Len(reqs) + 1} /\ scrubbed' = scrubbed
      BY <1>1 DEF Start, NextPage, histvars
  <2>6. id' \in 0..Len(reqs') /\ scrubbed' \in SUBSET (1..Len(reqs'))
    <3>1. id \in 0..Len(reqs) /\ scrubbed \in SUBSET (1..Len(reqs))
        BY DEF NetType
    <3>2. id' \in 0..(Len(reqs) + 1)
        BY <1>0, <2>5, <3>1
    <3>3. \A x \in 1..Len(reqs) : x \in 1..(Len(reqs) + 1)
        BY <1>0
    <3> QED
        BY <2>3, <2>5, <3>1, <3>2, <3>3
  <2>7. rs' \in ResultSets /\ Total' = Total
      BY <2>1 DEF NetType, Total
  <2> QED
      BY <2>3, <2>4, <2>6, <2>7 DEF NetType
<1>2. CASE SrvItem
  <2>1. /\ srv.pos < srv.end /\ srv' = [srv EXCEPT !.pos = @ + 1]
        /\ UNCHANGED <<rs, reqs, id, scrubbed>>
      BY <1>2 DEF SrvItem, initvars, streamvars, histvars
  <2>2. srv' \in [pos : Nat, end : 0..Total, cookie : Nat] /\ srv'.pos <= srv'.end
      BY <1>0, <2>1, SMTT(30) DEF NetType
  <2> QED
      BY <2>1, <2>2 DEF NetType, Total
<1>3. CASE StartFails \/ PageFails \/ NextTimeout \/ Finish
  <2>1. phase # "gone" /\ ~Unsent
      BY <1>3 DEF StartFails, PageFails, NextTimeout, Finish, Unsent
  <2>2. id \in 1..Len(reqs) /\ Len(reqs) \in 1..Len(reqs)
      BY <1>0, <2>1, SentFacts
  <2>3. /\ scrubbed' \in {scrubbed, scrubbed \cup {id}, scrubbed \cup {Len(reqs)}}
        /\ UNCHANGED <<rs, reqs, id, srv>>
      BY <1>3 DEF StartFails, PageFails, NextTimeout, Finish, initvars, netvars
  <2> QED
      BY <2>2, <2>3 DEF NetType, Total
<1>4. CASE PageOpened
    BY <1>0, <1>4 DEF PageOpened, NetType, Total, initvars, netvars, histvars
<1>5. CASE UNCHANGED <<rs, reqs, id, scrubbed, srv>>
    BY <1>5 DEF NetType, Total
<1>6. \/ Start \/ NextPage \/ SrvItem \/ StartFails \/ PageFails \/ NextTimeout \/ Finish
      \/ PageOpened \/ UNCHANGED <<rs, reqs, id, scrubbed, srv>>
    BY DEF Next, StartRefused, Started, CallNext, NextStep, NextItem, NextNone, NextEndOfStream,
           NextPanics, PageStep, Cancel, SrvDone, ConnLost, Finished,
           initvars, streamvars, netvars, histvars, vars
<1> QED
    BY <1>1, <1>2, <1>3, <1>4, <1>5, <1>6

LEMMA NextInv == Inv /\ [Next]_vars => Inv'
BY FlagStep, CallTypeStep, ItemTypeStep, NetTypeStep, CallStep, EndStep, ServerStep, ChanStep,
   OutStep, RefsStep, ResStep DEF Inv, DataType

LEMMA Invariance == Spec => []Inv
BY InitInv, NextInv, PTL DEF Spec

-----------------------------------------------------------------------------
(* What the invariant implies *)

\* When the last page has been read, everything has.
LEMMA FullyRead ==
    ASSUME Inv, ~Bypassed, reqs # <<>>, read = srv.end, srv.cookie = 0
    PROVE  read = Total /\ Range(out) = {p \in Positions : Visible(p)}
<1>1. srv.end = Total
  <2>1. /\ Len(reqs) \in Nat \ {0} /\ Len(rs.cuts) \in Nat
        /\ rs.cuts[Len(rs.cuts)] = Total
      BY SetFacts DEF Inv, DataType, NetType
  <2> QED
      BY <2>1 DEF Inv, ServerInv
<1> QED
    BY <1>1 DEF Inv, OutInv, Positions

\* The result of a stream that was read to its end by calls nobody dropped is an
\* error, or that of the last page, unless the user pages by hand.
LEMMA WholeFacts ==
    ASSUME Inv, ended, ~Bypassed, Outcome.rc = 0, ~HandPaged
    PROVE  read = Total /\ Range(out) = {p \in Positions : Visible(p)}
<1>1. ~Unsent /\ phase # "gone"
    BY DEF Inv, EndInv, Unsent
<1>2. reqs # <<>>
    BY <1>1, SentFacts DEF Inv
<1>3. read = srv.end /\ (Uses("PagedResults") => srv.cookie = 0)
    BY DEF Inv, ResInv, Final
<1>4. srv.cookie = 0
    BY <1>2, <1>3 DEF Inv, ServerInv, Paged
<1> QED
    BY <1>2, <1>3, <1>4, FullyRead

\* The types of TypeOK, and its relation of the stream to its requests.
THEOREM StreamTypes == Spec => []TypeOK
<1>1. ASSUME Inv PROVE TypeOK
  <2> USE <1>1 DEF Inv, DataType
  <2>1. {rx, tx, ended, cancelled} \subseteq BOOLEAN
      BY Zenon DEF FlagType
  <2>2. Range(chan) \subseteq Results
      BY RangeSeq DEF ItemType
  <2>3. Range(refs) \cup Range(resrefs) \cup Range(out) \subseteq Positions
      BY RangeSeq DEF ItemType
  <2>4. srv.end \in 0..Total /\ srv.pos \in 0..srv.end
      BY SetFacts DEF NetType
  <2>5. state = "Active" => id # 0
      BY DEF CallInv, Unsent
  <2> QED
      BY <2>1, <2>2, <2>3, <2>4, <2>5 DEF TypeOK, CallType, ItemType, NetType
<1> QED
    BY <1>1, Invariance, PTL

\* InOrder: next() gives the user the items in the order of the server and none
\* of them twice, and no entry that was received is withheld, whichever calls
\* of next() were dropped.
THEOREM StreamInOrder == Spec => []InOrder
<1>1. ASSUME Inv PROVE InOrder
  <2>1. DOMAIN out = 1..Len(out)
      BY <1>1 DEF Inv, DataType, ItemType
  <2> QED
      BY <1>1, <2>1 DEF Inv, OutInv, Increasing, InOrder
<1> QED
    BY <1>1, Invariance, PTL

\* WholeSearch: when next() has returned None and the result is a success, the
\* user has got everything there is to see, from all pages.
THEOREM StreamWhole == Spec => []WholeSearch
<1>1. ASSUME Inv PROVE WholeSearch
    BY <1>1, WholeFacts DEF WholeSearch
<1> QED
    BY <1>1, Invariance, PTL

\* RefsCollected: finish() of EntriesOnly returns every referral of every page
\* once.
THEOREM StreamRefs == Spec => []RefsCollected
<1>1. ASSUME Inv PROVE RefsCollected
  <2> SUFFICES ASSUME state = "Closed", Uses("EntriesOnly"), ~Bypassed
               PROVE  /\ Range(resrefs) = {p \in 1..read : rs.kinds[p] = "ref"}
                      /\ IsInjective(resrefs)
      BY DEF RefsCollected
  <2>1. Increasing(resrefs) /\ Range(resrefs) = {p \in 1..read : rs.kinds[p] = "ref"}
      BY <1>1 DEF Inv, RefsInv, Kept
  <2>2. resrefs \in Seq(Nat)
      BY <1>1, SetFacts DEF Inv, DataType, ItemType, NetType, Positions
  <2> QED
      BY <2>1, <2>2, IncreasingInjective
<1> QED
    BY <1>1, Invariance, PTL

\* PagesAlike: PagedResults requests every page with the settings of the user
\* and the cookie of the page before.
THEOREM StreamPagesAlike == Spec => []PagesAlike
<1>1. Inv => PagesAlike
    BY DEF Inv
<1> QED
    BY <1>1, Invariance, PTL

\* FinishTruthful: without paging, finish() returns the result of the server if
\* and only if the stream was read to its end.
THEOREM StreamFinish == Spec => []FinishTruthful
<1>1. ASSUME Inv PROVE FinishTruthful
    BY <1>1 DEF Inv, ResInv, Outcome, Final, NoResult, FinishTruthful
<1> QED
    BY <1>1, Invariance, PTL

-----------------------------------------------------------------------------
(* SearchStream implements ResultStream.                                   *)

Todo == {p \in Positions : Visible(p)} \ Range(out)

LEMMA InitSimulation == Init => RS!Init
<1> SUFFICES ASSUME Init PROVE RS!Init
    OBVIOUS
<1>1. Positions \subseteq Nat
    BY SetFacts DEF Init, Positions
<1> QED
    BY <1>1 DEF Init, RS!Init, Status, Bypassed

\* A step that leaves what the user sees alone.
LEMMA Stutter ==
    ASSUME UNCHANGED <<chain, rs, out, ended, Bypassed>>,
           \/ Bypassed
           \/ UNCHANGED <<state, res, result>>
           \/ ~ended /\ (state' \in {"Fresh", "Active"} <=> state \in {"Fresh", "Active"})
    PROVE  UNCHANGED <<Todo, out, Status>>
BY DEF Todo, Positions, Total, Visible, Uses, Status, Outcome

\* A step that ends the stream with an error.
LEMMA Failure ==
    ASSUME UNCHANGED <<chain, rs, out, ended, Bypassed>>, ~Bypassed, ~ended,
           state \in {"Fresh", "Active"}, state' \notin {"Fresh", "Active"}
    PROVE  RS!Fail
BY DEF RS!Fail, Positions, Total, Visible, Uses, Status

\* As long as the adapters are not by-passed.
LEMMA OrderlySimulation ==
    ASSUME Inv, Inv', ~Bypassed, ~Bypassed', [Next]_vars
    PROVE  [RS!Next]_<<Todo, out, Status>>
<1> USE DEF Inv
<1>0. UNCHANGED Bypassed
    BY DEF Bypassed
<1>1. CASE NextItem
  <2>1. /\ read \in Nat /\ read' = read + 1 /\ read' \in Positions
        /\ Head(chan).pos = read + 1
        /\ Hidden(read + 1) <=> ~Visible(read + 1)
        /\ state = "Active" /\ ~ended /\ UNCHANGED <<chain, rs, ended>>
      BY <1>1, NextItemFacts DEF initvars
  <2>2. CASE Hidden(read + 1)
    <3>1. UNCHANGED <<out, state>>
        BY <1>1, <2>1, <2>2 DEF NextItem
    <3> QED
        BY <1>0, <2>1, <3>1, Stutter
  <2>3. CASE ~Hidden(read + 1)
    <3> DEFINE p == read + 1
    <3>1. out' = Append(out, p) /\ state' = "Active" /\ out \in Seq(Positions) /\ p \in Positions
        BY <1>1, <2>1, <2>3 DEF NextItem, Return, DataType, ItemType
    <3>2. Range(out') = Range(out) \cup {p}
        BY <3>1, RangeAppend
    <3>3. Todo' = Todo \ {p}
        BY <2>1, <3>2 DEF Todo, Positions, Total, Visible, Uses
    <3>4. Range(out) = {q \in 1..read : Visible(q)}
        BY DEF OutInv
    <3>5. p \in Todo
        BY <2>1, <2>3, <3>4 DEF Todo
    <3>6. ASSUME NEW q \in Todo PROVE p <= q
      <4>1. q \in Nat \ {0} /\ ~(q <= read)
          BY <2>1, <3>4, SetFacts DEF Todo, Positions, DataType, NetType
      <4> QED
          BY <2>1, <4>1
    <3>7. Status = "open" /\ Status' = "open"
        BY <2>1, <3>1 DEF Status
    <3> HIDE DEF p
    <3> QED
        BY <3>1, <3>3, <3>5, <3>6, <3>7 DEF RS!Next, RS!Give, Todo
  <2> QED
      BY <2>2, <2>3
<1>2. CASE NextNone
  <2>1. /\ ~ended /\ ended' /\ state = "Active" /\ state' # "Closed"
        /\ UNCHANGED <<chain, rs, out>>
      BY <1>2 DEF NextNone, Return, CallInv, EndInv, initvars
  <2>2. Status = "open" /\ Todo' = Todo
      BY <2>1 DEF Status, Todo, Positions, Total, Visible, Uses
  <2>3. CASE Outcome'.rc = 0 /\ Outcome'.cookie = 0
    <3>1. /\ chan # <<>> /\ Head(chan).pos = 0 /\ res' = Head(chan)
          /\ phase = "reading"
        BY <1>2 DEF NextNone
    <3>2. read = srv.end /\ srv.cookie = 0
        BY <2>1, <2>3, <3>1, HeadFacts DEF Outcome, IsFinal, Final
    <3>3. reqs # <<>>
        BY <3>1, SentFacts DEF Unsent
    <3>4. Todo' = {}
        BY <2>2, <3>2, <3>3, FullyRead DEF Todo
    <3>5. Status' = "complete"
        BY <2>1, <2>3 DEF Status
    <3> QED
        BY <2>1, <2>2, <3>4, <3>5 DEF RS!Next, RS!Complete, Todo
  <2>4. CASE ~(Outcome'.rc = 0 /\ Outcome'.cookie = 0)
    <3>1. Status' = "failed"
        BY <2>1, <2>4 DEF Status
    <3> QED
        BY <2>1, <2>2, <3>1 DEF RS!Next, RS!Fail, Todo
  <2> QED
      BY <2>3, <2>4
<1>3. CASE StartRefused \/ StartFails \/ PageFails \/ NextEndOfStream \/ NextTimeout
  <2>1. /\ ~ended /\ state \in {"Fresh", "Active"} /\ state' = "Error"
        /\ UNCHANGED <<chain, rs, out, ended>>
      BY <1>3 DEF StartRefused, StartFails, PageFails, NextEndOfStream, NextTimeout, Return,
                  CallInv,
                  EndInv, initvars, uservars
  <2> QED
      BY <1>0, <2>1, Failure DEF RS!Next
<1>4. CASE Finish
  <2>1. /\ state' = "Closed" /\ state # "Closed" /\ result' = res
        /\ UNCHANGED <<chain, rs, out, ended>>
      BY <1>4 DEF Finish, initvars
  <2>2. CASE ended
    <3>1. Outcome' = Outcome
        BY <2>1 DEF Outcome
    <3> QED
        BY <2>1, <2>2, <3>1 DEF Todo, Positions, Total, Visible, Uses, Status
  <2>3. CASE ~ended
    <3>1. CASE state = "Active"
        BY <1>0, <2>1, <2>3, <3>1, Failure DEF RS!Next
    <3>2. CASE state # "Active"
      <4>1. state \notin {"Fresh", "Active"}
          BY <1>4, <3>2 DEF Finish
      <4> QED
          BY <1>0, <2>1, <2>3, <4>1, Stutter
    <3> QED
        BY <3>1, <3>2
  <2> QED
      BY <2>2, <2>3
<1>5. CASE Start \/ Started \/ NextPage
  <2>1. /\ ~ended /\ state \in {"Fresh", "Active"} /\ state' \in {"Fresh", "Active"}
        /\ UNCHANGED <<chain, rs, out, ended>>
      BY <1>5 DEF Start, Started, NextPage, CallInv, EndInv, initvars, uservars
  <2> QED
      BY <1>0, <2>1, Stutter
<1>6. CASE UNCHANGED <<chain, rs, out, ended, state, res, result>>
    BY <1>0, <1>6, Stutter
<1>7. \/ NextItem \/ NextNone \/ StartRefused \/ StartFails \/ PageFails \/ NextEndOfStream
      \/ NextTimeout \/ Finish \/ Start \/ Started \/ NextPage
      \/ UNCHANGED <<chain, rs, out, ended, state, res, result>>
    BY DEF Next, CallNext, NextStep, NextPanics, PageStep, PageOpened, Cancel, SrvItem, SrvDone,
           ConnLost, Finished, initvars, streamvars, uservars, vars
<1> QED
    BY <1>1, <1>2, <1>3, <1>4, <1>5, <1>6, <1>7

\* The call of next() that is dropped is one of an active stream.
LEMMA DropSimulation ==
    ASSUME Inv, ~Bypassed, Bypassed', [Next]_vars
    PROVE  RS!Drop
<1> USE DEF Inv
<1>1. Cancel
  <2>1. UNCHANGED <<chain, cancelled>> \/ Cancel
      BY DEF Next, Start, StartRefused, Started, StartFails, CallNext, NextStep, NextItem,
             NextNone, NextPage, NextEndOfStream, NextTimeout, NextPanics, PageStep, PageOpened,
             PageFails, Finish, SrvItem, SrvDone, ConnLost, Finished, initvars, histvars, vars
  <2> QED
      BY <2>1 DEF Bypassed
<1>2. UNCHANGED <<chain, rs, out>> /\ state = "Active"
    BY <1>1 DEF Cancel, CallInv, initvars, uservars
<1>3. ~ended
    BY <1>2 DEF EndInv, Bypassed, Cancel
<1>4. Status = "open" /\ Status' = "loose"
    BY <1>2, <1>3, Zenon DEF Status
<1> QED
    BY <1>2, <1>4 DEF RS!Drop, Todo, Positions, Total, Visible, Uses

\* Afterwards the items still come in order.
LEMMA LooseSimulation ==
    ASSUME Inv, Bypassed, [Next]_vars
    PROVE  [RS!Next]_<<Todo, out, Status>>
<1> USE DEF Inv
<1>1. UNCHANGED <<chain, rs>> /\ (cancelled => cancelled')
    BY DEF Next, Start, StartRefused, Started, StartFails, CallNext, NextStep, NextItem,
           NextNone, NextPage, NextEndOfStream, NextTimeout, NextPanics, PageStep, PageOpened,
           PageFails, Cancel, Finish, SrvItem, SrvDone, ConnLost, Finished, initvars, histvars,
           vars
<1>2. Bypassed' /\ Status = "loose" /\ Status' = "loose"
    BY <1>1, Zenon DEF Bypassed, Status
<1>3. CASE UNCHANGED out
    BY <1>1, <1>2, <1>3 DEF Todo, Positions, Total, Visible, Uses
<1>4. CASE NextItem /\ ~UNCHANGED out
  <2> DEFINE p == read + 1
  <2>1. read \in Nat /\ p \in Positions /\ Head(chan).pos = p
      BY <1>4, NextItemFacts
  <2>2. out' = Append(out, p) /\ out \in Seq(Positions) /\ out \in Seq(Nat) /\ p \in Nat
    <3>1. out' = Append(out, p)
        BY <1>4, <2>1, Zenon DEF NextItem
    <3>2. out \in Seq(Positions) /\ out \in Seq(Nat)
        BY SetFacts DEF DataType, ItemType, NetType, Positions
    <3>3. p \in Nat
        BY <2>1
    <3> QED
        BY <3>1, <3>2, <3>3, Zenon
  <2>3. \A i \in 1..Len(out) : out[i] \in Range(out) /\ out[i] \in Nat
      BY <2>2 DEF Range
  <2>4. \A i \in 1..Len(out) : out[i] < p
      BY <2>1, <2>3 DEF OutInv
  <2>5. Range(out') = Range(out) \cup {p}
      BY <2>1, <2>2, RangeAppend
  <2>6. Todo' = Todo \ {p}
      BY <1>1, <2>5 DEF Todo, Positions, Total, Visible, Uses
  <2>7. Len(out') = Len(out) + 1 /\ out'[Len(out')] = p
      BY <2>2
  <2> HIDE DEF p
  <2> QED
      BY <1>2, <2>2, <2>4, <2>6, <2>7 DEF RS!Next, RS!Skip, Todo
<1>5. NextItem \/ UNCHANGED out
    BY DEF Next, Start, StartRefused, Started, StartFails, CallNext, NextStep,
           NextNone, NextPage, NextEndOfStream, NextTimeout, NextPanics, PageStep, PageOpened,
           PageFails, Cancel, Finish, SrvItem, SrvDone, ConnLost, Finished, uservars, vars
<1> QED
    BY <1>3, <1>4, <1>5

LEMMA StepSimulation ==
    ASSUME Inv, Inv', [Next]_vars
    PROVE  [RS!Next]_<<Todo, out, Status>>
BY OrderlySimulation, DropSimulation, LooseSimulation DEF RS!Next

\* ImplementsResultStream: whatever the chain of adapters, the result set and
\* its pages, the stream gives the user the entries in order and completely, or
\* fails visibly; a dropped call of next() costs an adapted stream all but the
\* order, and one without adapters nothing.
THEOREM StreamRefinement == Spec => ImplementsResultStream
BY InitSimulation, StepSimulation, Invariance, PTL DEF Spec, ImplementsResultStream, RS!Spec,
                                                       Todo
=============================================================================
