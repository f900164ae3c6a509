---------------------------- MODULE SearchStream ----------------------------
(***************************************************************************)
(* One SearchStream (search.rs) and its chain of adapters (adapters.rs),   *)
(* from streaming_search_with to finish().  The user calls next() and      *)
(* finish(); a call of next() runs down the chain, awaits an item of the   *)
(* channel, and possibly, in PagedResults, the start of a Search for the   *)
(* next page, whose channel and handle replace those of the stream.  The   *)
(* user may drop the future of next() at any await.                        *)
(*                                                                         *)
(* The connection and the server are external: the items of a result set   *)
(* arrive in order, in pages if the request has the control, and the       *)
(* channel may close before the final one.                                 *)
(***************************************************************************)
EXTENDS Integers, Sequences, Functions

CONSTANTS
    Chains,      \* the adapter vectors a user may pass
    ResultSets,  \* what the server may have: item kinds and where pages end
    MayCancel    \* the user may drop a call of next()

Adapters == {"EntriesOnly", "PagedResults"}
Kinds == {"entry", "ref", "intermediate"}

ASSUME ChainsAssumption ==
    \A s \in Chains : s \in Seq(Adapters) /\ IsInjective(s)
ASSUME ResultSetsAssumption ==
    \A r \in ResultSets :
        /\ r = [kinds |-> r.kinds, cuts |-> r.cuts]
        /\ r.kinds \in Seq(Kinds)
        /\ r.cuts \in Seq(0..Len(r.kinds))
        /\ r.cuts # <<>> /\ r.cuts[Len(r.cuts)] = Len(r.kinds)
        /\ \A i, j \in DOMAIN r.cuts : i <= j => r.cuts[i] <= r.cuts[j]
ASSUME MayCancelAssumption == MayCancel \in BOOLEAN

VARIABLES
    \* chosen initially
    chain,     \* SearchStream.adapters
    rs,        \* the result set of the server
    want,      \* timeout, search_opts and controls the user put on the handle
    \* the stream
    state,     \* StreamState
    ax,        \* how far the current call has gone down the chain
    rx,        \* rx is Some
    res,       \* SearchStream.res, NoResult for None
    ldap,      \* the settings in the stream's handle
    id,        \* the last_id of that handle: the how manieth request
    \* the adapters
    saved,     \* PagedResults.ldap: its settings
    refs,      \* EntriesOnly.refs
    \* the call under way
    phase,     \* idle, starting, reading, paging; gone or panicked for good
    entered,   \* the value of ax when the call began
    \* the connection and the server
    reqs,      \* the Search requests sent
    chan,      \* the unread items of the newest request's channel
    tx,        \* the sender of that channel exists
    srv,       \* the page it is answered with: position, end, cookie
    \* what the user has seen
    out,       \* the positions of the items returned by next()
    ended,     \* next() has returned Ok(None) on an active stream
    result,    \* what finish() returned
    resrefs,   \* and the referrals in it
    \* history
    read,      \* the position of the last item taken from a channel
    scrubbed,  \* the requests whose id was sent for scrubbing
    cancelled  \* a call of next() was dropped

initvars == <<chain, rs, want>>
streamvars == <<state, ax, rx, res, ldap, id>>
adaptvars == <<saved, refs>>
callvars == <<phase, entered>>
netvars == <<reqs, chan, tx, srv>>
uservars == <<out, ended, result, resrefs>>
histvars == <<read, scrubbed, cancelled>>
vars == <<initvars, streamvars, adaptvars, callvars, netvars, uservars, histvars>>

-----------------------------------------------------------------------------
(* Vocabulary *)

Total == Len(rs.kinds)

\* Items, final messages, and the results of a search and of finish(): the
\* synthetic result has code 88, "user cancelled".
Item(p) == [pos |-> p, rc |-> 0, cookie |-> 0]
Final(rc, cookie) == [pos |-> 0, rc |-> rc, cookie |-> cookie]
NoResult == Final(88, 0)

Settings == [timeout : BOOLEAN, opts : BOOLEAN, ctrls : SUBSET {"user", "paged"}]

\* A new clone of the handle, and the stream's after op_call took everything.
Blank == [timeout |-> FALSE, opts |-> FALSE, ctrls |-> {}]

\* Adapter a is in the chain, and is below level k.
Uses(a) == a \in Range(chain)
Below(a, k) == \E i \in DOMAIN chain : i > k /\ chain[i] = a
Level(a) == CHOOSE i \in DOMAIN chain : chain[i] = a

Init ==
    /\ chain \in Chains /\ rs \in ResultSets /\ want \in Settings
    /\ state = "Fresh" /\ ax = 0 /\ rx = FALSE /\ res = NoResult
    /\ ldap = want /\ id = 0
    /\ saved = Blank /\ refs = <<>>
    /\ phase = "idle" /\ entered = 0
    /\ reqs = <<>> /\ chan = <<>> /\ tx = FALSE
    /\ srv = [pos |-> 0, end |-> 0, cookie |-> 0]
    /\ out = <<>> /\ ended = FALSE /\ result = NoResult /\ resrefs = <<>>
    /\ read = 0 /\ scrubbed = {} /\ cancelled = FALSE

-----------------------------------------------------------------------------
(* Requests *)

PageStart(p) == IF p = 1 THEN 0 ELSE rs.cuts[p - 1]

\* The page with which the server answers.
Answer(ctrls, cookie) ==
    IF "paged" \notin ctrls THEN [pos |-> 0, end |-> Total, cookie |-> 0]
    ELSE LET p == cookie + 1 IN
         [pos |-> PageStart(p), end |-> rs.cuts[p],
          cookie |-> IF p < Len(rs.cuts) THEN p ELSE 0]

\* start_inner and op_call: a Search with the settings l is sent, and its
\* channel created.
Request(l, cookie) ==
    /\ reqs' = Append(reqs, [set |-> l, cookie |-> cookie])
    /\ chan' = <<>> /\ tx' = TRUE
    /\ srv' = Answer(l.ctrls, cookie)

-----------------------------------------------------------------------------
(* SearchStream::start *)

\* PagedResults adds its control to those of the user.
WithPaging(l) == [l EXCEPT !.ctrls = @ \cup {"paged"}]

Start ==
    /\ state = "Fresh" /\ phase = "idle"
    /\ ~(Uses("PagedResults") /\ "paged" \in ldap.ctrls)
    /\ refs' = <<>>
    /\ saved' = IF Uses("PagedResults") THEN ldap ELSE saved
    /\ Request(IF Uses("PagedResults") THEN WithPaging(ldap) ELSE ldap, 0)
    /\ ldap' = Blank /\ id' = Len(reqs) + 1
    /\ rx' = TRUE
    /\ phase' = "starting"
    /\ UNCHANGED <<initvars, state, ax, res, entered, uservars, histvars>>

\* LdapError::AdapterInit for a control that is already there, or a filter
\* that does not parse: the stream is not handed out.
StartRefused ==
    /\ state = "Fresh" /\ phase = "idle"
    /\ state' = "Error" /\ phase' = "gone"
    /\ UNCHANGED <<initvars, ax, rx, res, ldap, id, adaptvars, entered, netvars,
                   uservars, histvars>>

Started ==
    /\ phase = "starting"
    /\ state' = "Active" /\ phase' = "idle"
    /\ UNCHANGED <<initvars, ax, rx, res, ldap, id, adaptvars, entered, netvars,
                   uservars, histvars>>

StartFails ==
    /\ phase = "starting"
    /\ state' = "Error" /\ phase' = "gone"
    /\ scrubbed' \in {scrubbed} \cup (IF want.timeout THEN {scrubbed \cup {id}} ELSE {})
    /\ UNCHANGED <<initvars, ax, rx, res, ldap, id, adaptvars, entered, netvars,
                   uservars, read, cancelled>>

-----------------------------------------------------------------------------
(* SearchStream::next *)

CallNext ==
    /\ phase = "idle" /\ state = "Active"
    /\ phase' = "reading"
    /\ entered' = ax /\ ax' = Len(chain)
    /\ UNCHANGED <<initvars, state, rx, res, ldap, id, adaptvars, netvars, uservars,
                   histvars>>

\* Mutant: the inner method decrements ax as well.
Bug_Return(s) ==
    /\ phase' = "idle" /\ ax' = entered - 1 /\ state' = s

\* The call returns through the adapters it has passed.
Return(s) ==
    /\ phase' = "idle" /\ ax' = entered /\ state' = s

\* Mutant: referrals are passed on.
Bug_Hidden(p) == Below("EntriesOnly", entered) /\ rs.kinds[p] = "intermediate"

\* EntriesOnly keeps an item to itself.
Hidden(p) == Below("EntriesOnly", entered) /\ rs.kinds[p] # "entry"

NextItem ==
    /\ phase = "reading" /\ rx /\ chan # <<>> /\ Head(chan).pos # 0
    /\ LET p == Head(chan).pos IN
        /\ read' = p
        /\ \/ /\ ~Hidden(p)
              /\ out' = Append(out, p)
              /\ Return("Active")
              /\ UNCHANGED refs
           \/ /\ Hidden(p)
              /\ refs' = IF rs.kinds[p] = "ref" THEN Append(refs, p) ELSE refs
              /\ UNCHANGED <<out, phase, ax, state>>
    /\ chan' = Tail(chan)
    /\ UNCHANGED <<initvars, rx, res, ldap, id, saved, entered, reqs, tx, srv, ended,
                   result, resrefs, scrubbed, cancelled>>

\* Mutant: the cookie is not looked at.
Bug_Continues(r) == FALSE

\* There is another page and PagedResults to ask for it.
Continues(r) == Below("PagedResults", entered) /\ r.cookie # 0

\* Mutant: the result is not kept.
Bug_NextNone ==
    /\ phase = "reading" /\ rx /\ chan # <<>> /\ Head(chan).pos = 0
    /\ ~Continues(Head(chan))
    /\ rx' = FALSE /\ chan' = Tail(chan)
    /\ Return(IF entered = 0 /\ chain # <<>> THEN "Done" ELSE "Active")
    /\ ended' = TRUE
    /\ UNCHANGED <<initvars, res, ldap, id, adaptvars, entered, reqs, tx, srv, out,
                   result, resrefs, histvars>>

\* The final message, and the end of the search: only the top of an adapted
\* chain changes the state.
NextNone ==
    /\ phase = "reading" /\ rx /\ chan # <<>> /\ Head(chan).pos = 0
    /\ ~Continues(Head(chan))
    /\ res' = Head(chan) /\ rx' = FALSE /\ chan' = Tail(chan)
    /\ Return(IF entered = 0 /\ chain # <<>> THEN "Done" ELSE "Active")
    /\ ended' = TRUE
    /\ UNCHANGED <<initvars, ldap, id, adaptvars, entered, reqs, tx, srv, out, result,
                   resrefs, histvars>>

\* Mutants: the first page again; a clone of the handle as it is.
Bug_NextCookie(r) == 0
Bug_PageSettings(l) == WithPaging(Blank)

\* The request for the next page: the clone of the saved handle gets the saved
\* timeout, options and controls, the control the cookie of the page before.
NextCookie(r) == r.cookie
PageSettings(l) == WithPaging(l)

\* The final message of a page: streaming_search for the next one.
NextPage ==
    /\ phase = "reading" /\ rx /\ chan # <<>> /\ Head(chan).pos = 0
    /\ Continues(Head(chan))
    /\ res' = Head(chan) /\ rx' = FALSE
    /\ Request(PageSettings(saved), NextCookie(Head(chan)))
    /\ phase' = "paging" /\ ax' = Level("PagedResults")
    /\ UNCHANGED <<initvars, state, ldap, id, adaptvars, entered, uservars,
                   histvars>>

\* The stream gets the handle and the channel of the new Search.
PageOpened ==
    /\ phase = "paging"
    /\ ldap' = Blank /\ id' = Len(reqs) /\ rx' = TRUE
    /\ phase' = "reading" /\ ax' = Len(chain)
    /\ UNCHANGED <<initvars, state, res, adaptvars, entered, netvars, uservars,
                   histvars>>

PageFails ==
    /\ phase = "paging"
    /\ Return("Error")
    /\ scrubbed' \in {scrubbed} \cup
                     (IF saved.timeout THEN {scrubbed \cup {Len(reqs)}} ELSE {})
    /\ UNCHANGED <<initvars, rx, res, ldap, id, adaptvars, entered, netvars, uservars,
                   read, cancelled>>

\* Mutant: a closed channel is taken for one without items so far.
Bug_NextEndOfStream ==
    /\ phase = "reading" /\ rx /\ chan = <<>> /\ ~tx
    /\ Return("Active")
    /\ UNCHANGED <<initvars, rx, res, ldap, id, adaptvars, entered, netvars, uservars,
                   histvars>>

\* LdapError::EndOfStream
NextEndOfStream ==
    /\ phase = "reading" /\ rx /\ chan = <<>> /\ ~tx
    /\ rx' = FALSE
    /\ Return("Error")
    /\ UNCHANGED <<initvars, res, ldap, id, adaptvars, entered, netvars, uservars,
                   histvars>>

NextTimeout ==
    /\ phase = "reading" /\ rx /\ chan = <<>> /\ tx /\ want.timeout
    /\ scrubbed' = scrubbed \cup {id}
    /\ Return("Error")
    /\ UNCHANGED <<initvars, rx, res, ldap, id, adaptvars, entered, netvars, uservars,
                   read, cancelled>>

\* self.rx.as_mut().unwrap()
NextPanics ==
    /\ phase = "reading" /\ ~rx
    /\ phase' = "panicked"
    /\ UNCHANGED <<initvars, streamvars, adaptvars, entered, netvars, uservars,
                   histvars>>

\* The future of next() is dropped at an await: ax keeps its value.
Cancel ==
    /\ MayCancel /\ phase \in {"reading", "paging"}
    /\ phase' = "idle" /\ cancelled' = TRUE
    /\ UNCHANGED <<initvars, streamvars, adaptvars, entered, netvars, uservars, read,
                   scrubbed>>

-----------------------------------------------------------------------------
(* SearchStream::finish, down the chain to finish_inner and back *)

\* EntriesOnly adds the referrals it has kept to the result.
Finish ==
    /\ phase = "idle" /\ state \in {"Active", "Done", "Error"}
    /\ scrubbed' = IF state # "Done" THEN scrubbed \cup {id} ELSE scrubbed
    /\ result' = res /\ res' = NoResult
    /\ \/ Below("EntriesOnly", ax) /\ resrefs' = refs /\ refs' = <<>>
       \/ ~Below("EntriesOnly", ax) /\ UNCHANGED <<resrefs, refs>>
    /\ state' = "Closed" /\ rx' = FALSE
    /\ UNCHANGED <<initvars, ax, ldap, id, saved, callvars, netvars, out, ended,
                   read, cancelled>>

-----------------------------------------------------------------------------
(* The connection and the server (external) *)

SrvItem ==
    /\ tx /\ srv.pos < srv.end
    /\ chan' = Append(chan, Item(srv.pos + 1))
    /\ srv' = [srv EXCEPT !.pos = @ + 1]
    /\ UNCHANGED <<initvars, streamvars, adaptvars, callvars, reqs, tx, uservars,
                   histvars>>

\* Success after the last item of the page, or an error at any point.
SrvDone ==
    /\ tx
    /\ \/ srv.pos = srv.end /\ chan' = Append(chan, Final(0, srv.cookie))
       \/ chan' = Append(chan, Final(1, 0))
    /\ tx' = FALSE
    /\ UNCHANGED <<initvars, streamvars, adaptvars, callvars, reqs, srv, uservars,
                   histvars>>

\* The driver ends, or another handle abandons the Search.
ConnLost ==
    /\ tx
    /\ tx' = FALSE
    /\ UNCHANGED <<initvars, streamvars, adaptvars, callvars, reqs, chan, srv,
                   uservars, histvars>>

-----------------------------------------------------------------------------

NextStep ==
    NextItem \/ NextNone \/ NextPage \/ NextEndOfStream \/ NextTimeout \/ NextPanics
PageStep == PageOpened \/ PageFails

\* Closed, refused or panicked: nothing more happens to the stream.
Finished ==
    /\ state = "Closed" \/ phase \in {"gone", "panicked"}
    /\ UNCHANGED vars

Next ==
    \/ Start \/ StartRefused \/ Started \/ StartFails
    \/ CallNext \/ NextStep \/ PageStep \/ Cancel \/ Finish
    \/ SrvItem \/ SrvDone \/ ConnLost
    \/ Finished

Spec == Init /\ [][Next]_vars

-----------------------------------------------------------------------------
(* Safety properties *)

Results == [pos : Nat, rc : {0, 1, 88}, cookie : Nat]
Positions == 1..Total

\* The variables have the types of the code; a stream that is being read has
\* been started, and its handle names a request that was sent.
TypeOK ==
    /\ want \in Settings /\ ldap \in Settings /\ saved \in Settings
    /\ state \in {"Fresh", "Active", "Done", "Error", "Closed"}
    /\ ax \in 0..Len(chain) /\ entered \in 0..Len(chain)
    /\ {rx, tx, ended, cancelled} \subseteq BOOLEAN
    /\ res \in Results /\ result \in Results /\ Range(chan) \subseteq Results
    /\ Range(refs) \cup Range(resrefs) \cup Range(out) \subseteq Positions
    /\ read \in 0..Total /\ srv.end \in 0..Total /\ srv.pos \in 0..srv.end
    /\ phase \in {"idle", "starting", "reading", "paging", "gone", "panicked"}
    /\ id \in 0..Len(reqs) /\ scrubbed \subseteq 1..Len(reqs)
    /\ state = "Active" => id # 0

\* The user pages by hand, with a control on the handle.
HandPaged == "paged" \in want.ctrls

\* A dropped call of next() has left ax behind: calls by-pass the adapters.
Bypassed == cancelled /\ chain # <<>>

\* What the stream is to give the user.
Visible(p) == Uses("EntriesOnly") => rs.kinds[p] = "entry"

\* The result of the search: in the stream until finish() takes it.
Outcome == IF state = "Closed" THEN result ELSE res

\* next() of PagedResults over the boundaries of pages, of EntriesOnly over
\* hidden items, and a dropped next(): the items come in order, none twice,
\* and no entry that was received is withheld.
InOrder ==
    /\ \A i, j \in DOMAIN out : i < j => out[i] < out[j]
    /\ \A p \in 1..read : rs.kinds[p] = "entry" => p \in Range(out)

\* "the adapter will automatically issue further Searches until the whole
\* search is done": when next() has returned None and the result is a
\* success, the user has got everything, as long as no next() of an adapted
\* stream was dropped.
WholeSearch ==
    (ended /\ Outcome.rc = 0 /\ ~HandPaged /\ ~Bypassed) =>
        read = Total /\ {p \in Positions : Visible(p)} = Range(out)

\* "All referrals in the result stream will be collected in the refs vector of
\* the operation result": once each, from all pages.
RefsCollected ==
    (state = "Closed" /\ Uses("EntriesOnly") /\ ~Bypassed) =>
        /\ Range(resrefs) = {p \in 1..read : rs.kinds[p] = "ref"}
        /\ IsInjective(resrefs)

\* Every page is requested with the timeout, the options and the controls of
\* the user, although clones of a handle start without them, and with the
\* cookie of the page before it.
PagesAlike ==
    \A k \in DOMAIN reqs :
        reqs[k] = [set |-> IF Uses("PagedResults") THEN WithPaging(want) ELSE want,
                   cookie |-> k - 1]

\* finish() without paging: the server's result if the stream was read to the
\* end, and only then.
FinishTruthful ==
    (state = "Closed" /\ ~Uses("PagedResults")) => (ended <=> result # NoResult)

-----------------------------------------------------------------------------
(* Implementation of ResultStream *)

Status ==
    IF Bypassed THEN "loose"
    ELSE IF ended THEN IF Outcome.rc = 0 /\ Outcome.cookie = 0 THEN "complete" ELSE "failed"
    ELSE IF state \in {"Fresh", "Active"} THEN "open" ELSE "failed"

RS == INSTANCE ResultStream WITH
        todo   <- {p \in Positions : Visible(p)} \ Range(out),
        given  <- out,
        status <- Status

\* Whatever the chain of adapters, the stream gives the user the result set in
\* order and completely, or fails visibly; dropped calls of next() do no harm to
\* a stream without adapters, and leave one with them the order.
ImplementsResultStream == RS!Spec

-----------------------------------------------------------------------------
(* What the documentation states; see the findings. *)

\* finish(): "If the stream has been read to the end, the return value will be
\* the actual result returned by the server.  Otherwise, a synthetic
\* cancellation result is returned".
FinishResult == state = "Closed" => (ended <=> result # NoResult)

\* WholeSearch without its exception for a dropped next().
NoneMeansWhole ==
    (ended /\ Outcome.rc = 0 /\ ~HandPaged) => read = Total

-----------------------------------------------------------------------------
(* Liveness: the server answers and the user goes on reading. *)

FairSpec ==
    /\ Spec
    /\ WF_vars(Started \/ StartFails) /\ WF_vars(CallNext)
    /\ WF_vars(NextStep) /\ WF_vars(PageStep) /\ WF_vars(SrvItem \/ SrvDone)

\* The loop of Ldap::search ends, with None, an error or a panic, unless calls
\* of next() are dropped for ever.
ReadsToEnd ==
    \/ []<><<Cancel>>_vars
    \/ state = "Active" ~> (state # "Active" \/ ended \/ phase = "panicked")
=============================================================================
