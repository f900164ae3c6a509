--------------------------- MODULE LdapMuxEndProofs ---------------------------
(***************************************************************************)
(* More theorems about LdapMux, on how operations end: what is lost, what  *)
(* is released and what is left over.  They rest on the invariant of       *)
(* LdapMuxProofs and on those below.                                       *)
(***************************************************************************)
EXTENDS LdapMuxProofs, FiniteSetTheorems, FunctionTheorems

-----------------------------------------------------------------------------
(* The callers *)

\* An Abandon has no target before next_msgid.
IdleTarget == \A c \in Calls : pc[c] = "idle" => tgt[c] = 0

\* A call that was given up has returned.
GivenUpReturned == \A c \in givenUp : pc[c] \in Returned

\* The state Done means that the final result was read by an adapted stream.
DoneRead == \A c \in Calls : stm[c] = "Done" => kind[c] = "Adapted" /\ res[c]

\* An id queued for scrubbing is that of a call that was given up, or of a
\* stream that has its final result.
ScrubOwned ==
    \A i \in Queued(scrubq) : \E c \in Calls : id[c] = i /\ (c \in givenUp \/ res[c])

CallerInv == IdleTarget /\ GivenUpReturned /\ DoneRead /\ ScrubOwned

\* A caller changes only its own place, and has its id and target from next_msgid.
LEMMA ClientPlace ==
    ASSUME FlagType, DataType, Lifecycle, NEW c \in Calls, Client(c)
    PROVE  /\ \A d \in Calls : d # c =>
                /\ pc'[d] = pc[d] /\ id'[d] = id[d] /\ tgt'[d] = tgt[d]
                /\ stm'[d] = stm[d] /\ res'[d] = res[d]
           /\ pc'[c] # "idle"
           /\ pc[c] # "idle" => id'[c] = id[c] /\ tgt'[c] = tgt[c]
           /\ pc[c] \in Returned => pc'[c] = pc[c]
<1> USE DEF DataType, CallType, StreamType, msgvars, callvars, streamvars, mapvars,
        queuevars, netvars
<1>1. /\ stm[c] \in OpenStates => pc[c] = "ok"
      /\ {"Done", "Error", "Active"} = OpenStates
      /\ Returned = {"ok", "failed", "timedout", "cancelled", "panicked"}
  BY DEF Lifecycle, OpenStates, Returned
<1>2. CASE NextMsgId(c)  BY <1>1, <1>2 DEF NextMsgId
<1>3. CASE NextMsgIdPanics(c)  BY <1>1, <1>3 DEF NextMsgIdPanics, StreamLost
<1>4. CASE SendOp(c) \/ SendMisc(c)  BY <1>1, <1>4 DEF SendOp, SendMisc
<1>5. CASE SendFails(c)  BY <1>1, <1>5 DEF SendFails, StreamLost
<1>6. CASE RecvResult(c)  BY <1>1, <1>6 DEF RecvResult
<1>7. CASE RecvError(c) \/ Timeout(c) \/ Cancel(c)
  BY <1>1, <1>7 DEF RecvError, Timeout, Cancel, StreamLost
<1>8. CASE StreamNext(c)
  <2>1. /\ UNCHANGED <<pc, id, tgt>> /\ stm[c] = "Active"
        /\ \A d \in Calls : d # c => stm'[d] = stm[d]
        /\ UNCHANGED res \/ res' = [res EXCEPT ![c] = TRUE]
    BY <1>8 DEF StreamNext
  <2>2. \A d \in Calls : d # c => res'[d] = res[d]  BY <2>1 DEF FlagType
  <2> QED  BY <1>1, <2>1, <2>2
<1>9. CASE StreamEndOfStream(c) \/ StreamTimeout(c) \/ StreamNextPanics(c)
  BY <1>1, <1>9 DEF StreamEndOfStream, StreamTimeout, StreamNextPanics
<1>10. CASE StreamFinish(c) \/ StreamDrop(c)
  BY <1>1, <1>10 DEF StreamFinish, StreamDrop
<1> QED  BY <1>2, <1>3, <1>4, <1>5, <1>6, <1>7, <1>8, <1>9, <1>10 DEF Client

\* It never takes back a result, and scrubs its id only when it gives up or
\* has finished.
LEMMA ClientLeaves ==
    ASSUME FlagType, DataType, Lifecycle, NEW c \in Calls, Client(c)
    PROVE  /\ res[c] => res'[c]
           /\ givenUp \subseteq givenUp' /\ givenUp' \subseteq givenUp \cup {c}
           /\ c \in givenUp' => c \in givenUp \/ pc'[c] \in Returned
           /\ \/ scrubq' = scrubq
              \/ /\ scrubq' = Append(scrubq, id[c]) /\ id[c] \in Ids
                 /\ c \in givenUp' \/ res'[c]
<1> USE DEF DataType, CallType, msgvars, callvars, streamvars, mapvars, queuevars, netvars
<1>1. /\ stm[c] \in OpenStates => pc[c] = "ok" /\ id[c] \in Ids
      /\ pc[c] = "wait" /\ kind[c] # "Cert" => id[c] \in Ids
      /\ {"Done", "Error", "Active"} = OpenStates
      /\ Returned = {"ok", "failed", "timedout", "cancelled", "panicked"}
  BY DEF Lifecycle, OpenStates, IdAssigned, Returned
<1>2. CASE NextMsgId(c) \/ NextMsgIdPanics(c)
  BY <1>2 DEF NextMsgId, NextMsgIdPanics
<1>3. CASE SendOp(c) \/ SendFails(c) \/ SendMisc(c)
  BY <1>3 DEF SendOp, SendFails, SendMisc
<1>4. CASE RecvResult(c) \/ RecvError(c) \/ Cancel(c)
  BY <1>4 DEF RecvResult, RecvError, Cancel
<1>5. CASE Timeout(c)
  <2>1. /\ UNCHANGED res /\ givenUp' = givenUp \cup {c} /\ pc'[c] = "timedout"
        /\ scrubq' = scrubq \/ scrubq' = Append(scrubq, id[c])
        /\ pc[c] = "wait" /\ kind[c] # "Cert"
    BY <1>5 DEF Timeout, ScrubSent
  <2> QED  BY <1>1, <2>1
<1>6. CASE StreamNext(c)
  <2>1. UNCHANGED <<givenUp, scrubq>>  BY <1>6 DEF StreamNext
  <2>2. UNCHANGED res \/ res' = [res EXCEPT ![c] = TRUE]  BY <1>6 DEF StreamNext
  <2>3. res[c] => res'[c]  BY <2>2 DEF FlagType
  <2> QED  BY <2>1, <2>3
<1>7. CASE StreamEndOfStream(c) \/ StreamNextPanics(c) \/ StreamDrop(c)
  BY <1>7 DEF StreamEndOfStream, StreamNextPanics, StreamDrop
<1>8. CASE StreamTimeout(c)
  <2>1. /\ UNCHANGED <<res, pc>> /\ givenUp' = givenUp \cup {c}
        /\ scrubq' = scrubq \/ scrubq' = Append(scrubq, id[c])
        /\ stm[c] = "Active"
    BY <1>8 DEF StreamTimeout, ScrubSent
  <2> QED  BY <1>1, <2>1
<1>9. CASE StreamFinish(c)
  <2>1. /\ UNCHANGED <<res, pc>>
        /\ givenUp' = IF res[c] THEN givenUp ELSE givenUp \cup {c}
        /\ scrubq' = scrubq \/ scrubq' = Append(scrubq, id[c])
        /\ stm[c] \in OpenStates
    BY <1>9 DEF StreamFinish, ScrubSent
  <2>2. c \in givenUp' \/ res'[c]  BY <2>1
  <2>3. givenUp \subseteq givenUp' /\ givenUp' \subseteq givenUp \cup {c}  BY <2>1
  <2> QED  BY <1>1, <2>1, <2>2, <2>3
<1> QED  BY <1>2, <1>3, <1>4, <1>5, <1>6, <1>7, <1>8, <1>9 DEF Client

LEMMA InitCaller == Init => CallerInv
BY DEF Init, CallerInv, IdleTarget, GivenUpReturned, DoneRead, ScrubOwned, Queued

LEMMA CallerStep ==
    ASSUME Inv, CallerInv, [Next]_vars
    PROVE  CallerInv'
<1> USE DEF Inv, TypeInv, LifeInv, CallerInv
<1>0. scrubq \in Seq(Ids) /\ givenUp \subseteq Calls
  BY DEF DataType, DriverType, MsgType
<1>1. ASSUME NEW c \in Calls, Client(c) PROVE CallerInv'
  <2>1. IdleTarget'  BY <1>1, ClientPlace DEF IdleTarget
  <2>2. GivenUpReturned'
    <3> SUFFICES ASSUME NEW d \in givenUp' PROVE pc'[d] \in Returned
      BY DEF GivenUpReturned
    <3>1. d \in givenUp \/ (d = c /\ pc'[c] \in Returned)  BY <1>1, ClientLeaves
    <3>2. CASE d \in givenUp
      <4>1. d \in Calls /\ pc[d] \in Returned  BY <1>0, <3>2 DEF GivenUpReturned
      <4>2. pc'[d] = pc[d]  BY <1>1, <4>1, ClientPlace
      <4> QED  BY <4>1, <4>2 DEF Returned
    <3> QED  BY <3>1, <3>2 DEF Returned
  <2>3. DoneRead'
    <3> SUFFICES ASSUME NEW d \in Calls, stm'[d] = "Done"
                 PROVE  kind'[d] = "Adapted" /\ res'[d]
      BY DEF DoneRead
    <3>1. UNCHANGED kind  BY <1>1, ClientFrame
    <3>2. CASE stm[d] = "Done"
      BY <1>1, <3>1, <3>2, ClientPlace, ClientLeaves DEF DoneRead
    <3>3. CASE stm[d] # "Done"
      <4>1. d = c  BY <1>1, <3>3, ClientPlace
      <4>2. StreamNext(c)
        BY <1>1, <3>3, <4>1
        DEF Client, NextMsgId, NextMsgIdPanics, SendOp, SendFails, SendMisc, RecvResult,
            RecvError, Timeout, Cancel, StreamEndOfStream, StreamTimeout,
            StreamNextPanics, StreamFinish, StreamDrop, StreamLost, streamvars, DataType,
            StreamType
      <4>3. /\ res' = [res EXCEPT ![c] = TRUE]
            /\ stm' = [stm EXCEPT ![c] = IF kind[c] = "Adapted" THEN "Done" ELSE @]
        BY <3>3, <4>1, <4>2 DEF StreamNext
      <4>4. kind[c] = "Adapted"  BY <3>3, <4>1, <4>3 DEF DataType, StreamType
      <4>5. res'[c]  BY <4>3 DEF FlagType
      <4> QED  BY <3>1, <4>1, <4>4, <4>5
    <3> QED  BY <3>2, <3>3
  <2>4. ScrubOwned'
    <3> SUFFICES ASSUME NEW i \in Queued(scrubq')
                 PROVE  \E d \in Calls : id'[d] = i /\ (d \in givenUp' \/ res'[d])
      BY DEF ScrubOwned
    <3>1. CASE i \in Queued(scrubq)
      <4>1. PICK d \in Calls : id[d] = i /\ (d \in givenUp \/ res[d])
        BY <3>1 DEF ScrubOwned
      <4>2. i # 0  BY <1>0, <3>1, MaxIdAssumption DEF Queued, Ids
      <4>3. pc[d] # "idle"  BY <4>1, <4>2 DEF RouteInv, AscendingIds
      <4>4. id'[d] = id[d]  BY <1>1, <4>3, ClientPlace
      <4>5. (res[d] => res'[d]) /\ givenUp \subseteq givenUp'
        BY <1>1, ClientPlace, ClientLeaves
      <4> QED  BY <4>1, <4>4, <4>5
    <3>2. CASE i \notin Queued(scrubq)
      <4>1. /\ scrubq' = Append(scrubq, id[c]) /\ id[c] \in Ids
            /\ c \in givenUp' \/ res'[c]
        BY <1>1, <3>2, ClientLeaves
      <4>2. i = id[c]  BY <1>0, <3>2, <4>1, QueuedAppend
      <4>3. pc[c] # "idle"
        BY <4>1, MaxIdAssumption DEF RouteInv, AscendingIds, Ids
      <4>4. id'[c] = id[c]  BY <1>1, <4>3, ClientPlace
      <4> QED  BY <4>1, <4>2, <4>4
    <3> QED  BY <3>1, <3>2
  <2> QED  BY <2>1, <2>2, <2>3, <2>4
<1>2. ASSUME UNCHANGED <<kind, pc, id, tgt, stm, res, givenUp>>,
             Queued(scrubq') \subseteq Queued(scrubq)
      PROVE  CallerInv'
  <2>1. IdleTarget' /\ GivenUpReturned' /\ DoneRead'
    BY <1>2 DEF IdleTarget, GivenUpReturned, DoneRead, Returned
  <2>2. ScrubOwned'  BY <1>2 DEF ScrubOwned
  <2> QED  BY <2>1, <2>2
<1>3. CASE ServerStep
  BY <1>2, <1>3, ServerFrame DEF callvars, streamvars, queuevars
<1>4. CASE DropHandles \/ UNCHANGED vars
  BY <1>2, <1>4 DEF DropHandles, vars, callvars, streamvars, queuevars
<1>5. CASE DriverStep
  <2>1. Queued(scrubq') \subseteq Queued(scrubq)
    <3>1. CASE scrubq' = scrubq \/ scrubq' = <<>>  BY <3>1 DEF Queued
    <3>2. CASE scrubq # <<>> /\ scrubq' = Tail(scrubq)  BY <1>0, <3>2, QueuedTail
    <3> QED  BY <1>5, <3>1, <3>2, DriverQueues
  <2> QED  BY <1>2, <1>5, <2>1, DriverFrame
<1> QED  BY <1>1, <1>3, <1>4, <1>5, Steps

-----------------------------------------------------------------------------
(* What is released *)

\* Two calls that need the same id are one, and its scrub is not queued unless
\* the call was given up or has its final result.
LEMMA SameId ==
    ASSUME Inv, ~IdsAmbiguous, NEW c \in Calls, NEW d \in Calls,
           id[c] = id[d], id[c] \in Ids, Holds(c), Holds(d)
    PROVE  c = d
<1>1. id[c] # 0  BY MaxIdAssumption DEF Ids
<1>2. CASE ~wrapped  BY <1>1, <1>2 DEF Inv, RouteInv, AscendingIds
<1>3. CASE givenUp = {}  BY <1>3 DEF Inv, HeldInv, IdsHeld
<1> QED  BY <1>2, <1>3 DEF IdsAmbiguous

LEMMA ScrubHolder ==
    ASSUME Inv, CallerInv, ~IdsAmbiguous, NEW c \in Calls, Holds(c),
           id[c] \in Queued(scrubq)
    PROVE  c \in givenUp \/ res[c]
<1>1. CASE givenUp = {}  BY <1>1 DEF Inv, HeldInv, ScrubsUnheld
<1>2. CASE ~wrapped
  <2>1. PICK d \in Calls : id[d] = id[c] /\ (d \in givenUp \/ res[d])
    BY DEF CallerInv, ScrubOwned
  <2>2. id[c] \in Ids  BY DEF Inv, TypeInv, DataType, DriverType, Queued
  <2>3. id[c] # 0  BY <2>2, MaxIdAssumption DEF Ids
  <2>4. d = c  BY <1>2, <2>1, <2>3 DEF Inv, RouteInv, AscendingIds
  <2> QED  BY <2>1, <2>4
<1> QED  BY <1>1, <1>2 DEF IdsAmbiguous

\* The answer at the head of the wire that finds its caller is the last thing
\* about it.
LEMMA ResultIsEnd ==
    ASSUME Inv, ~IdsAmbiguous, DrvResult
    PROVE  \E d \in Calls :
             /\ Head(wire).from = d /\ MsgId(Head(wire)) = id[d] /\ id[d] \in Ids
             /\ resultmap[id[d]] = d /\ kind[d] = "Single"
             /\ d \notin srv /\ d \notin Queued(opq) /\ OnWire(d)
             /\ Reply(d, d)
<1> USE DEF Inv, TypeInv, RouteInv, HeldInv, LifeInv
<1>1. PICK d \in Calls : /\ Lookup(resultmap, MsgId(Head(wire))) = d
                         /\ Reply(d, Head(wire).from)
  BY DEF DrvResult, Lookup, DataType, DriverType
<1>2. wire # <<>> /\ wire \in Seq(Messages)
  BY DEF DrvResult, NextResp, DataType, NetType
<1>3. Head(wire).from = d /\ MsgId(Head(wire)) = id[d] /\ id[d] \in Ids
  BY <1>1, <1>2, Dispatch
<1>4. resultmap[id[d]] = d /\ kind[d] = "Single"
  BY <1>1, <1>3 DEF Lookup, MapsAgree
<1>5. wire[1] = Head(wire) /\ 1 \in DOMAIN wire  BY <1>2
<1>6. Head(wire).tag = "result"
  BY <1>3, <1>4, <1>5, CallsAssumption
  DEF WireAgrees, WellTagged, IsSearch, SearchKinds
<1>7. d \notin srv  BY <1>3, <1>5, <1>6 DEF FinalIsLast
<1>8. OnWire(d)  BY <1>3, <1>5 DEF OnWire
<1>9. d \notin Queued(opq)  BY <1>8 DEF Lifecycle
<1> QED  BY <1>1, <1>3, <1>4, <1>7, <1>8, <1>9

LEMMA ReleaseStep ==
    ASSUME Inv, CallerInv, [Next]_vars, ~IdsAmbiguous,
           NEW c \in Calls, id[c] \in used \ used', c \notin givenUp
    PROVE  c \notin srv' /\ c \notin Queued(opq')
<1> USE DEF Inv, TypeInv, RouteInv, HeldInv, LifeInv
<1>0. id[c] \in Ids  BY DEF DataType, MsgType
<1>1. CASE DrvScrub
  <2>1. /\ scrubq # <<>> /\ used' = used \ {Head(scrubq)} /\ UNCHANGED <<opq, srv>>
        /\ scrubq \in Seq(Ids)
    BY <1>1 DEF DrvScrub, netvars, DataType, DriverType
  <2>2. id[c] \in Queued(scrubq)  BY <2>1, QueuedTail
  <2>3. ASSUME c \in srv \/ c \in Queued(opq) PROVE FALSE
    <3>1. Holds(c)  BY <2>3 DEF Holds
    <3>2. res[c]  BY <2>2, <3>1, ScrubHolder
    <3> QED  BY <2>3, <3>2 DEF EndSeen
  <2> QED  BY <2>1, <2>3
<1>2. ASSUME NEW a \in Calls, DrvAbandon(a) PROVE c \notin srv' /\ c \notin Queued(opq')
  <2>1. TakeOp(a) /\ used' = used \ {id[a]} /\ UNCHANGED srv
    BY <1>2 DEF DrvAbandon, AbandonReleases
  <2>2. a \in Queued(opq) /\ a \notin Queued(opq') /\ a \notin srv  BY <2>1, SentFacts
  <2>3. Queued(opq') \subseteq Queued(opq)
    <3>1. DriverStep  BY <1>2 DEF DriverStep, OpBranch
    <3> QED  BY <3>1, ShrinkFacts
  <2>4. ASSUME c \in srv \/ c \in Queued(opq) PROVE c = a
    <3>1. Holds(c) /\ Holds(a)  BY <2>2, <2>4 DEF Holds
    <3>2. id[c] = id[a]  BY <2>1
    <3> QED  BY <1>0, <3>1, <3>2, SameId
  <2> QED  BY <2>1, <2>2, <2>3, <2>4
<1>3. CASE DrvResult
  <2>1. PICK d \in Calls :
          /\ MsgId(Head(wire)) = id[d] /\ d \notin srv /\ d \notin Queued(opq) /\ OnWire(d)
    BY <1>3, ResultIsEnd
  <2>2. used' = used \ {MsgId(Head(wire))} /\ UNCHANGED <<opq, srv>>
    BY <1>3 DEF DrvResult, queuevars
  <2>3. ASSUME c \in srv \/ c \in Queued(opq) PROVE c = d
    <3>1. Holds(c) /\ Holds(d)  BY <2>1, <2>3 DEF Holds
    <3>2. id[c] = id[d]  BY <2>1, <2>2
    <3> QED  BY <1>0, <3>1, <3>2, SameId
  <2> QED  BY <2>1, <2>2, <2>3
<1>4. ASSUME NEW d \in Calls, Client(d) PROVE FALSE
  <2>1. CASE NextMsgId(d)  BY <2>1 DEF NextMsgId
  <2>2. CASE ~NextMsgId(d)  BY <1>4, <2>2, HoldsClient
  <2> QED  BY <2>1, <2>2
<1>5. CASE ServerStep  BY <1>5, ServerFrame DEF msgvars
<1>6. CASE DropHandles \/ UNCHANGED vars  BY <1>6 DEF DropHandles, vars, msgvars
<1>7. CASE DriverEnds  BY <1>7, DriverEndsStop DEF msgvars
<1>8. CASE DrvSearchItem \/ DrvUnmatched
  BY <1>8 DEF DrvSearchItem, DrvUnmatched, msgvars
<1>9. ASSUME NEW d \in Calls, DrvSingle(d) \/ DrvSearch(d) \/ DrvUnbind(d) \/ DrvMisc(d)
      PROVE  UNCHANGED used
  BY <1>9 DEF DrvSingle, DrvSearch, DrvUnbind, DrvMisc, msgvars
<1> QED
  BY <1>1, <1>2, <1>3, <1>4, <1>5, <1>6, <1>7, <1>8, <1>9, Steps
  DEF DriverStep, ScrubBranch, OpBranch, MiscBranch, StreamBranch, DriverEnds

-----------------------------------------------------------------------------
(* What is lost *)

\* A caller that waits has its sender in the queue or in resultmap, unless it
\* was abandoned.
WaitsServed ==
    drv = "running" /\ ~IdsAmbiguous => \A c \in Calls :
        pc[c] = "wait" /\ oneshot[c] = NoCall /\ kind[c] # "Cert" =>
            \/ c \in Queued(opq)
            \/ resultmap[id[c]] = c
            \/ \E d \in Calls : AbandonedBy(d, c)

LEMMA AbandonedStays ==
    ASSUME Inv, CallerInv, [Next]_vars, NEW c \in Calls, NEW d \in Calls, AbandonedBy(d, c)
    PROVE  AbandonedBy(d, c)'
<1> USE DEF Inv, TypeInv, RouteInv, LifeInv
<1>1. id[c] # 0 /\ tgt[d] # 0  BY DEF AbandonedBy
<1>2. pc[c] # "idle" /\ pc[d] # "idle"
  BY <1>1 DEF AscendingIds, CallerInv, IdleTarget
<1>3. UNCHANGED kind /\ id'[c] = id[c] /\ tgt'[d] = tgt[d]
  <2>1. ASSUME NEW e \in Calls, Client(e)
        PROVE  UNCHANGED kind /\ id'[c] = id[c] /\ tgt'[d] = tgt[d]
    BY <1>2, <2>1, ClientFrame, ClientPlace
  <2>2. CASE ServerStep  BY <2>2, ServerFrame DEF callvars
  <2>3. CASE DropHandles \/ UNCHANGED vars  BY <2>3 DEF DropHandles, vars, callvars
  <2>4. CASE DriverStep  BY <2>4, DriverFrame
  <2> QED  BY <2>1, <2>2, <2>3, <2>4, Steps
<1> QED  BY <1>3 DEF AbandonedBy

\* A step of a caller that does not send a request.
LEMMA ClientWaits ==
    ASSUME FlagType, DataType, Lifecycle, NEW c \in Calls, NEW d \in Calls, Client(d),
           pc'[c] = "wait", kind[c] # "Cert"
    PROVE  \/ SendOp(c)
           \/ pc[c] = "wait" /\ oneshot'[c] = oneshot[c] /\ id'[c] = id[c]
                /\ Queued(opq) \subseteq Queued(opq')
<1> USE DEF DataType, CallType
<1>1. CASE d # c
  <2>1. pc[c] = "wait" /\ id'[c] = id[c]  BY <1>1, ClientPlace
  <2>2. oneshot'[c] = oneshot[c]
    BY <1>1
    DEF Client, NextMsgId, NextMsgIdPanics, SendOp, SendFails, SendMisc, RecvResult,
        RecvError, Timeout, Cancel, StreamNext, StreamEndOfStream, StreamTimeout,
        StreamNextPanics, StreamFinish, StreamDrop, callvars
  <2>3. Queued(opq) \subseteq Queued(opq')
    <3>1. CASE SendOp(d)  BY <3>1, QueuedAppend DEF SendOp, DriverType
    <3>2. CASE NextMsgId(d)  BY <3>2 DEF NextMsgId, queuevars
    <3>3. CASE ~SendOp(d) /\ ~NextMsgId(d)  BY <3>3, ClientMoves
    <3> QED  BY <3>1, <3>2, <3>3
  <2> QED  BY <2>1, <2>2, <2>3
<1>2. CASE d = c /\ ~SendOp(c)
  <2>1. ~NextMsgId(c)  BY <1>2 DEF NextMsgId
  <2>2. UNCHANGED <<opq, id>> /\ pc[c] = "wait"  BY <1>2, <2>1, ClientMoves
  <2>3. ~RecvResult(c) /\ ~Cancel(c)  BY <1>2 DEF RecvResult, Cancel
  <2>4. UNCHANGED oneshot
    BY <1>2, <2>1, <2>3
    DEF Client, NextMsgIdPanics, SendOp, SendFails, SendMisc,
        RecvError, Timeout, StreamNext, StreamEndOfStream, StreamTimeout,
        StreamNextPanics, StreamFinish, StreamDrop, callvars
  <2> QED  BY <2>2, <2>4
<1> QED  BY <1>1, <1>2

LEMMA WaitsStep ==
    ASSUME Inv, CallerInv, WaitsServed, [Next]_vars
    PROVE  WaitsServed'
<1> USE DEF Inv, TypeInv, RouteInv, HeldInv, LifeInv
<1> SUFFICES ASSUME drv' = "running", ~IdsAmbiguous', NEW c \in Calls,
                    pc'[c] = "wait", oneshot'[c] = NoCall, kind'[c] # "Cert"
             PROVE  \/ c \in Queued(opq')
                    \/ resultmap'[id'[c]] = c
                    \/ \E d \in Calls : AbandonedBy(d, c)'
  BY DEF WaitsServed
<1>0. ~IdsAmbiguous  BY Monotone
<1>a. ASSUME NEW d \in Calls, AbandonedBy(d, c) PROVE AbandonedBy(d, c)'
  BY <1>a, AbandonedStays
<1>1. ASSUME drv = "running", pc[c] = "wait", oneshot[c] = NoCall, kind[c] # "Cert"
      PROVE  \/ c \in Queued(opq)
             \/ resultmap[id[c]] = c
             \/ \E d \in Calls : AbandonedBy(d, c)'
  BY <1>0, <1>1, <1>a DEF WaitsServed
<1>2. ASSUME NEW d \in Calls, Client(d)
      PROVE  \/ c \in Queued(opq')
             \/ resultmap'[id'[c]] = c
             \/ \E e \in Calls : AbandonedBy(e, c)'
  <2>1. UNCHANGED <<kind, drv, resultmap>>  BY <1>2, ClientFrame DEF mapvars
  <2>2. CASE SendOp(c)  BY <2>2, QueuedAppend DEF SendOp, DataType, DriverType
  <2>3. CASE ~SendOp(c)
    <3>1. /\ pc[c] = "wait" /\ oneshot[c] = NoCall /\ id'[c] = id[c]
          /\ Queued(opq) \subseteq Queued(opq')
      BY <1>2, <2>1, <2>3, ClientWaits
    <3> QED  BY <1>1, <2>1, <3>1
  <2> QED  BY <2>2, <2>3
<1>3. CASE UNCHANGED <<kind, drv, resultmap, opq, pc, oneshot, id>>
  BY <1>1, <1>3
<1>4. CASE ServerStep
  BY <1>3, <1>4, ServerFrame DEF callvars, mapvars, queuevars
<1>5. CASE DropHandles \/ UNCHANGED vars
  BY <1>3, <1>5 DEF DropHandles, vars, callvars, mapvars, queuevars
<1>6. CASE DriverEnds  BY <1>6, DriverEndsStop DEF Stop
<1>7. CASE DrvUnmatched \/ DrvSearchItem
  BY <1>3, <1>7 DEF DrvUnmatched, DrvSearchItem, callvars, mapvars, queuevars
<1>8. ASSUME DriverStep
      PROVE  UNCHANGED <<kind, pc, id, tgt>>
  BY <1>8, DriverFrame
<1>9. (id[c] \in Ids /\ id[c] # 0) \/ ~DriverStep
  BY <1>8, MaxIdAssumption DEF DataType, IdAssigned, Ids
<1>10. CASE DrvScrub
  <2>0. DriverStep  BY <1>10 DEF DriverStep, ScrubBranch
  <2>1. /\ drv = "running" /\ UNCHANGED <<oneshot, opq>>
        /\ scrubq # <<>> /\ resultmap' = Without(resultmap, Head(scrubq))
        /\ scrubq \in Seq(Ids)
    BY <1>10 DEF DrvScrub, callvars, DataType, DriverType
  <2>2. CASE resultmap[id[c]] = c
    <3>1. Filed(c) /\ Holds(c)  BY <1>9, <2>0, <2>2 DEF Filed, Holds
    <3>2. c \notin givenUp
      BY <1>8, <2>0 DEF CallerInv, GivenUpReturned, Returned
    <3>3. ~res[c]  BY <1>0, <3>1 DEF EndSeen
    <3>4. id[c] \notin Queued(scrubq)  BY <1>0, <3>1, <3>2, <3>3, ScrubHolder
    <3>5. id[c] # Head(scrubq)  BY <2>1, <3>4, QueuedTail
    <3> QED  BY <1>8, <1>9, <2>0, <2>1, <2>2, <3>5 DEF Without
  <2> QED  BY <1>1, <1>8, <2>0, <2>1, <2>2
<1>11. ASSUME NEW d \in Calls, DrvSingle(d)
       PROVE  \/ c \in Queued(opq')
              \/ resultmap'[id'[c]] = c
              \/ \E e \in Calls : AbandonedBy(e, c)'
  <2>0. DriverStep  BY <1>11 DEF DriverStep, OpBranch
  <2>1. /\ TakeOp(d) /\ drv = "running" /\ UNCHANGED oneshot
        /\ resultmap' = [resultmap EXCEPT ![id[d]] = d]
        /\ opq \in Seq(Calls) /\ resultmap \in [Ids -> Calls \cup {NoCall}]
    BY <1>11 DEF DrvSingle, TakeOp, callvars, FiledUnder, DataType, DriverType
  <2>2. CASE c = d  BY <1>8, <1>9, <2>0, <2>1, <2>2
  <2>3. CASE c # d
    <3>1. c \in Queued(opq) => c \in Queued(opq')
      BY <2>1, <2>3, QueuedTail DEF TakeOp
    <3>2. ASSUME resultmap[id[c]] = c PROVE id[c] # id[d]
      <4>1. Holds(c) /\ Holds(d)
        BY <1>9, <2>0, <2>1, <3>2, SentFacts DEF Filed, Holds
      <4> QED  BY <1>0, <1>9, <2>0, <2>3, <4>1, SameId
    <3>3. resultmap[id[c]] = c => resultmap'[id[c]] = c
      BY <1>9, <2>0, <2>1, <3>2
    <3> QED  BY <1>1, <1>8, <2>0, <2>1, <3>1, <3>3
  <2> QED  BY <2>2, <2>3
<1>12. ASSUME NEW d \in Calls, DrvSearch(d) \/ DrvUnbind(d) \/ DrvAbandon(d)
       PROVE  \/ c \in Queued(opq')
              \/ resultmap'[id'[c]] = c
              \/ \E e \in Calls : AbandonedBy(e, c)'
  <2>0. DriverStep  BY <1>12 DEF DriverStep, OpBranch
  <2>1. /\ TakeOp(d) /\ drv = "running" /\ Reply(d, Null)
        /\ opq \in Seq(Calls) /\ oneshot \in [Calls -> Calls \cup {NoCall, Null}]
    BY <1>12 DEF DrvSearch, DrvUnbind, DrvAbandon, TakeOp, DataType, DriverType, CallType
  <2>2. c # d /\ oneshot[c] = NoCall
    BY <1>8, <2>0, <2>1, CallsAssumption DEF Reply
  <2>3. c \in Queued(opq) => c \in Queued(opq')
    BY <2>1, <2>2, QueuedTail DEF TakeOp
  <2>4. ASSUME resultmap[id[c]] = c
        PROVE  resultmap'[id[c]] = c \/ AbandonedBy(d, c)'
    <3>1. CASE DrvSearch(d) \/ DrvUnbind(d)
      BY <2>4, <3>1 DEF DrvSearch, DrvUnbind, mapvars
    <3>2. CASE DrvAbandon(d)
      <4>1. resultmap' = Without(resultmap, tgt[d]) /\ kind[d] = "Abandon"
        BY <3>2 DEF DrvAbandon, Abandons
      <4>2. CASE tgt[d] = id[c]
        BY <1>8, <1>9, <2>0, <2>2, <4>1, <4>2 DEF AbandonedBy
      <4>3. CASE tgt[d] # id[c]  BY <1>9, <2>0, <2>4, <4>1, <4>3 DEF Without
      <4> QED  BY <4>2, <4>3
    <3> QED  BY <1>12, <3>1, <3>2
  <2> QED  BY <1>1, <1>8, <2>0, <2>1, <2>2, <2>3, <2>4
<1>13. ASSUME NEW d \in Calls, DrvMisc(d)
       PROVE  \/ c \in Queued(opq')
              \/ resultmap'[id'[c]] = c
              \/ \E e \in Calls : AbandonedBy(e, c)'
  <2>0. DriverStep  BY <1>13 DEF DriverStep, MiscBranch
  <2>1. /\ drv = "running" /\ UNCHANGED <<opq, resultmap>>
        /\ Reply(d, Null) \/ UNCHANGED oneshot
        /\ oneshot \in [Calls -> Calls \cup {NoCall, Null}]
    BY <1>13 DEF DrvMisc, mapvars, DataType, CallType
  <2>2. oneshot[c] = NoCall
    BY <1>8, <2>0, <2>1, CallsAssumption DEF Reply
  <2> QED  BY <1>1, <1>8, <2>0, <2>1, <2>2
<1>14. CASE DrvResult
  <2>0. DriverStep  BY <1>14 DEF DriverStep, StreamBranch
  <2>1. PICK d \in Calls : MsgId(Head(wire)) = id[d] /\ Reply(d, d) /\ resultmap[id[d]] = d
    BY <1>0, <1>14, ResultIsEnd
  <2>2. /\ drv = "running" /\ UNCHANGED opq
        /\ resultmap' = Without(resultmap, id[d])
        /\ oneshot \in [Calls -> Calls \cup {NoCall, Null}]
    BY <1>14, <2>1 DEF DrvResult, NextResp, Stop, queuevars, DataType, CallType
  <2>3. c # d /\ oneshot[c] = NoCall
    BY <1>8, <2>0, <2>1, <2>2, CallsAssumption DEF Reply
  <2>4. resultmap[id[c]] = c => resultmap'[id[c]] = c
    BY <1>9, <2>0, <2>1, <2>2, <2>3 DEF Without
  <2> QED  BY <1>1, <1>8, <2>0, <2>2, <2>3, <2>4
<1> QED
  BY <1>2, <1>4, <1>5, <1>6, <1>7, <1>10, <1>11, <1>12, <1>13, <1>14, Steps
  DEF DriverStep, ScrubBranch, OpBranch, MiscBranch, StreamBranch, DriverEnds

-----------------------------------------------------------------------------
(* Counting the entries of a Search *)

\* How often m occurs in a queue.
Places(q, m) == {k \in DOMAIN q : q[k] = m}
Count(q, m) == Cardinality(Places(q, m))

LEMMA PlacesFinite ==
    ASSUME NEW S, NEW q \in Seq(S), NEW m
    PROVE  IsFiniteSet(Places(q, m)) /\ Count(q, m) \in Nat
<1>1. DOMAIN q = 1..Len(q) /\ Len(q) \in Nat  OBVIOUS
<1>2. IsFiniteSet(DOMAIN q)  BY <1>1, FS_Interval
<1>3. Places(q, m) \in SUBSET (DOMAIN q)  BY DEF Places
<1>4. IsFiniteSet(Places(q, m))  BY <1>2, <1>3, FS_Subset
<1> QED  BY <1>4, FS_CardinalityType DEF Count

LEMMA CountNone ==
    ASSUME NEW q, NEW m, \A k \in DOMAIN q : q[k] # m
    PROVE  Count(q, m) = 0
<1>1. Places(q, m) = {}  BY DEF Places
<1> QED  BY <1>1, FS_EmptySet DEF Count

LEMMA CountAppend ==
    ASSUME NEW S, NEW q \in Seq(S), NEW x, NEW m
    PROVE  /\ x = m => Count(Append(q, x), m) = Count(q, m) + 1
           /\ x # m => Count(Append(q, x), m) = Count(q, m)
<1> DEFINE a == Append(q, x)
           n == Len(q) + 1
<1>1. Len(q) \in Nat /\ DOMAIN q = 1..Len(q) /\ DOMAIN a = 1..n
  OBVIOUS
<1>2. a[n] = x /\ \A k \in DOMAIN q : a[k] = q[k]
  OBVIOUS
<1>3. (\A k \in DOMAIN a : k = n \/ k \in DOMAIN q) /\ n \in DOMAIN a /\ n \notin DOMAIN q
  BY <1>1
<1>3a. \A k \in DOMAIN q : k \in DOMAIN a  BY <1>1
<1> HIDE DEF a, n
<1>4. CASE x = m
  <2>1. Places(a, m) = Places(q, m) \cup {n}  BY <1>2, <1>3, <1>3a, <1>4 DEF Places
  <2>2. n \notin Places(q, m)  BY <1>3 DEF Places
  <2>3. Count(a, m) = Count(q, m) + 1
    BY <2>1, <2>2, PlacesFinite, FS_AddElement DEF Count
  <2> QED  BY <1>4, <2>3 DEF a
<1>5. CASE x # m
  <2>1. Places(a, m) = Places(q, m)  BY <1>2, <1>3, <1>3a, <1>5 DEF Places
  <2> QED  BY <1>5, <2>1 DEF Count, a
<1> QED  BY <1>4, <1>5

LEMMA CountTail ==
    ASSUME NEW S, NEW q \in Seq(S), q # <<>>, NEW m
    PROVE  /\ Head(q) = m => Count(q, m) = Count(Tail(q), m) + 1
           /\ Head(q) # m => Count(q, m) = Count(Tail(q), m)
<1> DEFINE t == Tail(q)
           f == [k \in Places(t, m) |-> k + 1]
           R == Places(q, m) \ {1}
<1>1. /\ t \in Seq(S) /\ Head(q) = q[1] /\ 1 \in DOMAIN q
      /\ \A k \in DOMAIN t : k \in Nat /\ k # 0 /\ k + 1 \in DOMAIN q /\ t[k] = q[k + 1]
      /\ \A k \in DOMAIN q : k \in Nat /\ (k = 1 \/ (k - 1 \in DOMAIN t /\ t[k - 1] = q[k]))
  OBVIOUS
<1> HIDE DEF t
<1>2. f \in [Places(t, m) -> R]
  <2>1. ASSUME NEW k \in Places(t, m) PROVE k + 1 \in R
    <3>1. k \in DOMAIN t /\ t[k] = m  BY DEF Places
    <3>2. k + 1 \in DOMAIN q /\ q[k + 1] = m /\ k + 1 # 1  BY <1>1, <3>1
    <3> QED  BY <3>2 DEF Places
  <2> QED  BY <2>1
<1>3. \A j, k \in Places(t, m) : f[j] = f[k] => j = k
  <2>1. \A k \in Places(t, m) : k \in Nat  BY <1>1 DEF Places
  <2> QED  BY <2>1
<1>4. \A k \in R : \E j \in Places(t, m) : f[j] = k
  <2> SUFFICES ASSUME NEW k \in R PROVE \E j \in Places(t, m) : f[j] = k
    OBVIOUS
  <2>1. k \in DOMAIN q /\ q[k] = m /\ k # 1  BY DEF Places
  <2>2. k \in Nat /\ k - 1 \in DOMAIN t /\ t[k - 1] = m  BY <1>1, <2>1
  <2>3. k - 1 \in Places(t, m)  BY <2>2 DEF Places
  <2>4. f[k - 1] = k  BY <2>2, <2>3
  <2> QED  BY <2>3, <2>4
<1>5. f \in Bijection(Places(t, m), R)  BY <1>2, <1>3, <1>4, Fun_IsBij
<1>6. ExistsBijection(Places(t, m), R)  BY <1>5, Fun_ExistsBij
<1>7. IsFiniteSet(Places(t, m)) /\ Count(t, m) \in Nat  BY <1>1, PlacesFinite
<1>8. Cardinality(R) = Count(t, m)  BY <1>6, <1>7, FS_Bijection DEF Count
<1>9. /\ IsFiniteSet(Places(q, m)) /\ Count(q, m) \in Nat
  BY PlacesFinite
<1>10. CASE Head(q) = m
  <2>1. 1 \in Places(q, m)  BY <1>1, <1>10 DEF Places
  <2>2. Cardinality(R) = Count(q, m) - 1
    BY <1>9, <2>1, FS_RemoveElement DEF Count
  <2> QED  BY <1>7, <1>8, <1>9, <1>10, <2>2 DEF t
<1>11. CASE Head(q) # m
  <2>1. 1 \notin Places(q, m)  BY <1>1, <1>11 DEF Places
  <2>2. Cardinality(R) = Count(q, m)
    BY <1>9, <2>1, FS_RemoveElement DEF Count
  <2> QED  BY <1>8, <1>11, <2>2 DEF t
<1> QED  BY <1>10, <1>11

EntryOf(c) == [from |-> c, tag |-> "entry"]
Total(c) == got[c] + Count(items[c], EntryOf(c)) + Count(wire, EntryOf(c))

\* The final item of the Search c is in its channel or has been read, and the
\* driver passes items on to its stream.
Ended(c) == res[c] \/ \E k \in DOMAIN items[c] : items[c][k].tag = "done"
Feeds(c) == rx[c] /\ \E i \in Ids : searchmap[i] = c

\* Nothing is known of a request that has not been sent.
Untaken ==
    \A c \in Calls : pc[c] \in {"idle", "tuple"} \/ c \in Queued(opq) =>
        sent[c] = 0 /\ got[c] = 0 /\ items[c] = <<>> /\ ~res[c]

\* The final item is the last one of its channel.
EndLast ==
    ~IdsAmbiguous => \A c \in Calls :
        /\ res[c] => items[c] = <<>>
        /\ \A k \in DOMAIN items[c] : items[c][k].tag = "done" => k = Len(items[c])

\* As long as the driver feeds a stream, and once the stream has its final
\* item, every entry the server sent is on the wire, in the channel or read.
Counted ==
    ~IdsAmbiguous => \A c \in Calls : Feeds(c) \/ Ended(c) => Total(c) = sent[c]

CountInv == Untaken /\ EndLast /\ Counted

LEMMA InitCount == Init => CountInv
<1> SUFFICES ASSUME Init PROVE CountInv
  OBVIOUS
<1> USE DEF Init
<1>1. Untaken  BY DEF Untaken
<1>2. EndLast  BY DEF EndLast
<1>3. Counted  BY CallsAssumption DEF Counted, Feeds, Ended
<1> QED  BY <1>1, <1>2, <1>3 DEF CountInv

\* A caller leaves the streams of others alone, and its own unless it reads or
\* closes it.
LEMMA ClientStream ==
    ASSUME FlagType, DataType, NEW c \in Calls, NEW d \in Calls, Client(d)
    PROVE  \/ d = c /\ StreamNext(c)
           \/ /\ got'[c] = got[c] /\ res'[c] = res[c]
              /\ \/ items'[c] = items[c]
                 \/ items'[c] = <<>> /\ ~rx'[c]
              /\ rx'[c] => rx[c] \/ pc[c] = "idle"
<1> USE DEF DataType, StreamType, FlagType, callvars, streamvars
<1>1. CASE NextMsgId(d)
  <2>1. UNCHANGED <<got, res, items>> /\ rx' = [rx EXCEPT ![d] = IsSearch(d)] /\ pc[d] = "idle"
    BY <1>1 DEF NextMsgId
  <2> QED  BY <2>1
<1>2. CASE NextMsgIdPanics(d) \/ SendOp(d) \/ SendMisc(d) \/ RecvResult(d)
  BY <1>2 DEF NextMsgIdPanics, SendOp, SendMisc, RecvResult
<1>3. CASE SendFails(d) \/ RecvError(d) \/ StreamEndOfStream(d)
  <2>1. UNCHANGED <<got, res, items>> /\ rx' = [rx EXCEPT ![d] = FALSE]
    BY <1>3 DEF SendFails, RecvError, StreamEndOfStream
  <2> QED  BY <2>1
<1>4. CASE StreamTimeout(d) \/ StreamNextPanics(d)
  BY <1>4 DEF StreamTimeout, StreamNextPanics
<1>5. CASE Timeout(d) \/ Cancel(d) \/ StreamFinish(d) \/ StreamDrop(d)
  <2>1. /\ UNCHANGED <<got, res>> /\ rx' = [rx EXCEPT ![d] = FALSE]
        /\ items' = [items EXCEPT ![d] = <<>>]
    BY <1>5 DEF Timeout, Cancel, StreamFinish, StreamDrop
  <2> QED  BY <2>1
<1>6. CASE StreamNext(d) /\ d # c
  <2>1. /\ items' = [items EXCEPT ![d] = Tail(@)]
        /\ UNCHANGED got \/ got' = [got EXCEPT ![d] = @ + 1]
        /\ UNCHANGED res \/ res' = [res EXCEPT ![d] = TRUE]
        /\ UNCHANGED rx \/ rx' = [rx EXCEPT ![d] = FALSE]
    BY <1>6 DEF StreamNext
  <2>2. items'[c] = items[c] /\ got'[c] = got[c]  BY <1>6, <2>1
  <2>3. res'[c] = res[c] /\ rx'[c] = rx[c]  BY <1>6, <2>1
  <2> QED  BY <2>2, <2>3
<1> QED  BY <1>1, <1>2, <1>3, <1>4, <1>5, <1>6 DEF Client

\* What next() does with an item.
LEMMA NextStream ==
    ASSUME FlagType, DataType, NEW c \in Calls, StreamNext(c)
    PROVE  /\ items[c] # <<>> /\ items'[c] = Tail(items[c]) /\ rx[c] /\ pc' = pc
           /\ \/ /\ Head(items[c]).tag = "entry"
                 /\ got'[c] = got[c] + 1 /\ res'[c] = res[c] /\ rx'[c] = rx[c]
              \/ /\ Head(items[c]).tag = "done"
                 /\ got'[c] = got[c] /\ res'[c] /\ ~rx'[c]
<1>1. /\ items[c] # <<>> /\ items'[c] = Tail(items[c]) /\ rx[c] /\ pc' = pc
  BY DEF StreamNext, DataType, StreamType, callvars
<1>2. CASE Head(items[c]).tag = "entry" /\ got' = [got EXCEPT ![c] = @ + 1]
            /\ UNCHANGED <<res, rx>>
  BY <1>1, <1>2 DEF DataType, StreamType
<1>3. CASE Head(items[c]).tag = "done" /\ UNCHANGED got
            /\ res' = [res EXCEPT ![c] = TRUE] /\ rx' = [rx EXCEPT ![c] = FALSE]
  <2>1. res'[c] /\ ~rx'[c]  BY <1>3 DEF FlagType
  <2> QED  BY <1>1, <1>3, <2>1
<1> QED  BY <1>2, <1>3 DEF StreamNext

LEMMA DriverItems ==
    ASSUME DriverStep, ~DrvSearchItem
    PROVE  UNCHANGED <<res, items>>
<1>1. CASE DriverEnds  BY <1>1, DriverEndsStop DEF streamvars
<1>2. CASE DrvScrub \/ DrvResult \/ DrvUnmatched
  BY <1>2 DEF DrvScrub, DrvResult, DrvUnmatched, streamvars
<1>3. ASSUME NEW d \in Calls,
             DrvSingle(d) \/ DrvSearch(d) \/ DrvAbandon(d) \/ DrvUnbind(d) \/ DrvMisc(d)
      PROVE  UNCHANGED <<res, items>>
  BY <1>3 DEF DrvSingle, DrvSearch, DrvAbandon, DrvUnbind, DrvMisc, streamvars
<1> QED
  BY <1>1, <1>2, <1>3
  DEF DriverStep, ScrubBranch, OpBranch, MiscBranch, StreamBranch, DriverEnds

\* What the driver does with an item, and with the stream it is for.
LEMMA ItemStream ==
    ASSUME Inv, DrvSearchItem
    PROVE  \E d \in Calls :
             /\ Lookup(searchmap, MsgId(Head(wire))) = d /\ Filed(d)
             /\ wire # <<>> /\ wire' = Tail(wire)
             /\ \A c \in Calls : c # d => items'[c] = items[c]
             /\ \/ rx[d] /\ items'[d] = Append(items[d], Head(wire))
                \/ ~rx[d] /\ items'[d] = items[d]
             /\ \A c \in Calls, i \in Ids : searchmap'[i] = c => searchmap[i] = c
<1> USE DEF Inv, TypeInv, DataType, DriverType, StreamType
<1>1. PICK d \in Calls :
         /\ Lookup(searchmap, MsgId(Head(wire))) = d
         /\ wire # <<>> /\ wire' = Tail(wire)
         /\ \/ rx[d] /\ items' = [items EXCEPT ![d] = Deliver(@, Head(wire))]
            \/ ~rx[d] /\ UNCHANGED items
         /\ \/ searchmap' = Without(searchmap, MsgId(Head(wire)))
            \/ searchmap' = searchmap
  BY DEF DrvSearchItem, Lookup, NextResp
<1>2. Filed(d)  BY <1>1, CallsAssumption DEF Lookup, Filed
<1>3. \A c \in Calls, i \in Ids : searchmap'[i] = c => searchmap[i] = c
  BY <1>1, CallsAssumption DEF Without
<1>4. \A c \in Calls : c # d => items'[c] = items[c]  BY <1>1
<1>5. \/ rx[d] /\ items'[d] = Append(items[d], Head(wire))
      \/ ~rx[d] /\ items'[d] = items[d]
  BY <1>1 DEF Deliver
<1> QED  BY <1>1, <1>2, <1>3, <1>4, <1>5

LEMMA UntakenStep ==
    ASSUME Inv, Untaken, [Next]_vars
    PROVE  Untaken'
<1> USE DEF Inv, TypeInv, RouteInv, HeldInv, LifeInv
<1> SUFFICES ASSUME NEW c \in Calls, (pc[c] \in {"idle", "tuple"} \/ c \in Queued(opq))'
             PROVE  sent'[c] = 0 /\ got'[c] = 0 /\ items'[c] = <<>> /\ ~res'[c]
  BY DEF Untaken
<1>1. ASSUME pc[c] \in {"idle", "tuple"} \/ c \in Queued(opq)
      PROVE  /\ sent[c] = 0 /\ got[c] = 0 /\ items[c] = <<>> /\ ~res[c]
             /\ c \notin srv /\ ~Filed(c)
  BY <1>1 DEF Untaken, Lifecycle
<1>2. ASSUME NEW d \in Calls, Client(d)
      PROVE  sent'[c] = 0 /\ got'[c] = 0 /\ items'[c] = <<>> /\ ~res'[c]
  <2>1. pc[c] \in {"idle", "tuple"} \/ c \in Queued(opq)
    <3>1. CASE NextMsgId(d)
      <4>1. pc[d] = "idle" /\ UNCHANGED opq  BY <3>1 DEF NextMsgId, queuevars
      <4> QED  BY <1>2, <4>1, ClientPlace
    <3>2. CASE SendOp(d)
      <4>1. pc[d] = "tuple" /\ Queued(opq') = Queued(opq) \cup {d}
        BY <3>2, QueuedAppend DEF SendOp, DataType, DriverType
      <4> QED  BY <1>2, <4>1, ClientPlace
    <3>3. CASE ~NextMsgId(d) /\ ~SendOp(d)  BY <1>2, <3>3, ClientMoves
    <3> QED  BY <3>1, <3>2, <3>3
  <2>2. /\ sent[c] = 0 /\ got[c] = 0 /\ items[c] = <<>> /\ ~res[c]
    BY <1>1, <2>1
  <2>3. UNCHANGED sent  BY <1>2, ClientFrame DEF netvars
  <2>4. ~StreamNext(c)  BY <2>2 DEF StreamNext
  <2> QED  BY <1>2, <2>2, <2>3, <2>4, ClientStream
<1>3. CASE ServerStep
  <2>1. UNCHANGED <<pc, opq, got, items, res>>
    BY <1>3, ServerFrame DEF callvars, queuevars, streamvars
  <2>2. /\ sent[c] = 0 /\ got[c] = 0 /\ items[c] = <<>> /\ ~res[c] /\ c \notin srv
    BY <1>1, <2>1
  <2>3. sent'[c] = sent[c]
    <3>1. ASSUME NEW d \in Calls, SrvEntry(d) PROVE sent'[c] = sent[c]
      <4>1. d # c /\ sent' = [sent EXCEPT ![d] = @ + 1]  BY <2>2, <3>1 DEF SrvEntry
      <4> QED  BY <4>1 DEF DataType, NetType
    <3>2. CASE UNCHANGED sent  BY <3>2
    <3> QED
      BY <1>3, <3>1, <3>2
      DEF ServerStep, Server, SrvResult, SrvDone, SrvForget, SrvClose, SrvReset
  <2> QED  BY <2>1, <2>2, <2>3
<1>4. CASE DropHandles \/ UNCHANGED vars
  <2>1. UNCHANGED <<pc, opq, got, items, res, sent>>
    BY <1>4 DEF DropHandles, vars, callvars, queuevars, streamvars, netvars
  <2> QED  BY <1>1, <2>1
<1>5. CASE DriverStep
  <2>1. UNCHANGED <<pc, sent, got, res>> /\ Queued(opq') \subseteq Queued(opq)
    BY <1>5, DriverFrame, ShrinkFacts
  <2>2. /\ sent[c] = 0 /\ got[c] = 0 /\ items[c] = <<>> /\ ~res[c] /\ ~Filed(c)
    BY <1>1, <2>1
  <2>3. CASE DrvSearchItem  BY <2>1, <2>2, <2>3, ItemStream
  <2>4. CASE ~DrvSearchItem  BY <1>5, <2>1, <2>2, <2>4, DriverItems
  <2> QED  BY <2>3, <2>4
<1> QED  BY <1>2, <1>3, <1>4, <1>5, Steps

LEMMA EndLastStep ==
    ASSUME Inv, EndLast, [Next]_vars
    PROVE  EndLast'
<1> USE DEF Inv, TypeInv, RouteInv, HeldInv, LifeInv
<1> DEFINE Last(s) == \A k \in DOMAIN s : s[k].tag = "done" => k = Len(s)
<1> SUFFICES ASSUME ~IdsAmbiguous', NEW c \in Calls
             PROVE  (res'[c] => items'[c] = <<>>) /\ Last(items'[c])
  BY DEF EndLast
<1>0. ~IdsAmbiguous  BY Monotone
<1>1. (res[c] => items[c] = <<>>) /\ Last(items[c]) /\ items[c] \in Seq(Messages)
  BY <1>0 DEF EndLast, DataType, StreamType
<1>e. Last(<<>>)  OBVIOUS
<1>2. ASSUME NEW d \in Calls, Client(d)
      PROVE  (res'[c] => items'[c] = <<>>) /\ Last(items'[c])
  <2>1. CASE StreamNext(c)
    <3>1. /\ items[c] # <<>> /\ items'[c] = Tail(items[c])
          /\ res'[c] = res[c] \/ Head(items[c]).tag = "done"
      BY <2>1, NextStream
    <3>2. Last(Tail(items[c]))
      <4>1. /\ Len(Tail(items[c])) = Len(items[c]) - 1 /\ Len(items[c]) \in Nat
            /\ \A k \in DOMAIN Tail(items[c]) :
                 k \in Nat /\ k + 1 \in DOMAIN items[c] /\ Tail(items[c])[k] = items[c][k + 1]
        BY <1>1, <3>1
      <4> QED  BY <1>1, <4>1
    <3>3. Head(items[c]).tag = "done" => Tail(items[c]) = <<>>
      <4>1. Head(items[c]) = items[c][1] /\ 1 \in DOMAIN items[c]  BY <1>1, <3>1
      <4>2. Head(items[c]).tag = "done" => Len(items[c]) = 1  BY <1>1, <4>1
      <4> QED  BY <1>1, <3>1, <4>2
    <3>4. res[c] => FALSE  BY <1>1, <3>1
    <3> QED  BY <3>1, <3>2, <3>3, <3>4
  <2>2. CASE ~StreamNext(c)
    <3>1. res'[c] = res[c] /\ (items'[c] = items[c] \/ items'[c] = <<>>)
      BY <1>2, <2>2, ClientStream
    <3> QED  BY <1>1, <1>e, <3>1
  <2> QED  BY <2>1, <2>2
<1>3. CASE UNCHANGED <<res, items>>  BY <1>1, <1>3
<1>4. CASE ServerStep  BY <1>3, <1>4, ServerFrame DEF streamvars
<1>5. CASE DropHandles \/ UNCHANGED vars  BY <1>3, <1>5 DEF DropHandles, vars, streamvars
<1>6. CASE DriverStep /\ ~DrvSearchItem  BY <1>3, <1>6, DriverItems
<1>7. CASE DrvSearchItem
  <2>0. UNCHANGED res  BY <1>7 DEF DrvSearchItem
  <2>1. \/ items'[c] = items[c]
        \/ items'[c] = Append(items[c], Head(wire)) /\ Filed(c)
    BY <1>7, ItemStream
  <2>2. CASE items'[c] = items[c]  BY <1>1, <2>0, <2>2
  <2>3. CASE items'[c] = Append(items[c], Head(wire)) /\ Filed(c)
    <3>1. ~res[c] /\ \A k \in DOMAIN items[c] : items[c][k].tag # "done"
      BY <1>0, <2>3 DEF EndSeen
    <3>2. /\ Len(items'[c]) = Len(items[c]) + 1 /\ Len(items[c]) \in Nat
          /\ \A k \in DOMAIN items'[c] :
               k = Len(items[c]) + 1 \/ (k \in DOMAIN items[c] /\ items'[c][k] = items[c][k])
      BY <1>1, <2>3
    <3>3. Last(items'[c])  BY <3>1, <3>2
    <3> QED  BY <2>0, <3>1, <3>3
  <2> QED  BY <2>1, <2>2, <2>3
<1> QED  BY <1>2, <1>4, <1>5, <1>6, <1>7, Steps

\* Moving the entries of c along does not change their number.
LEMMA TotalType ==
    ASSUME DataType, NEW c \in Calls
    PROVE  /\ got[c] \in Nat /\ Count(items[c], EntryOf(c)) \in Nat
           /\ Count(wire, EntryOf(c)) \in Nat /\ sent[c] \in Nat
           /\ items[c] \in Seq(Messages) /\ wire \in Seq(Messages)
<1>1. /\ got[c] \in Nat /\ sent[c] \in Nat
      /\ items[c] \in Seq(Messages) /\ wire \in Seq(Messages)
  BY MaxEntriesAssumption DEF DataType, StreamType, NetType
<1> QED  BY <1>1, PlacesFinite

LEMMA NotOnWire ==
    ASSUME NEW c, ~OnWire(c)
    PROVE  Count(wire, EntryOf(c)) = 0
<1>1. EntryOf(c).from = c  BY DEF EntryOf
<1> QED  BY <1>1, CountNone DEF OnWire

LEMMA CountedClient ==
    ASSUME Inv, EndLast, Counted, ~IdsAmbiguous, NEW c \in Calls, NEW d \in Calls, Client(d),
           Feeds(c)' \/ Ended(c)'
    PROVE  Total(c)' = sent'[c]
<1> USE DEF Inv, TypeInv, RouteInv, HeldInv, LifeInv
<1>0. UNCHANGED <<wire, sent, searchmap>>  BY ClientFrame DEF netvars, mapvars
<1>1. Feeds(c) \/ Ended(c) => Total(c) = sent[c]  BY DEF Counted
<1>2. CASE StreamNext(c)
  <2>1. /\ items[c] # <<>> /\ items'[c] = Tail(items[c])
        /\ items[c] \in Seq(Messages)
    BY <1>2, NextStream, TotalType
  <2>2. Feeds(c) \/ Ended(c)
    <3>1. Feeds(c)' => Feeds(c)  BY <1>0, <1>2, NextStream DEF Feeds
    <3>2. Ended(c)' => Ended(c)
      <4>1. CASE Head(items[c]).tag = "done"  BY <2>1, <4>1 DEF Ended
      <4>2. CASE Head(items[c]).tag # "done"
        <5>1. res'[c] = res[c]  BY <1>2, <4>2, NextStream
        <5>2. \A k \in DOMAIN Tail(items[c]) :
                k + 1 \in DOMAIN items[c] /\ Tail(items[c])[k] = items[c][k + 1]
          BY <2>1
        <5> QED  BY <2>1, <5>1, <5>2 DEF Ended
      <4> QED  BY <4>1, <4>2
    <3> QED  BY <3>1, <3>2
  <2>3. Head(items[c]) \in Messages /\ Head(items[c]).from = c
    <3>1. Head(items[c]) = items[c][1] /\ 1 \in DOMAIN items[c]  BY <2>1
    <3> QED  BY <2>1, <3>1 DEF Matched
  <2>4. CASE Head(items[c]).tag = "entry" /\ got'[c] = got[c] + 1
    <3>1. Head(items[c]) = EntryOf(c)  BY <2>3, <2>4 DEF EntryOf, Messages
    <3>2. Count(items[c], EntryOf(c)) = Count(items'[c], EntryOf(c)) + 1
      BY <2>1, <3>1, CountTail
    <3>3. Count(items'[c], EntryOf(c)) \in Nat
      <4>1. items'[c] \in Seq(Messages)  BY <2>1
      <4> QED  BY <4>1, PlacesFinite
    <3> DEFINE x == Count(items[c], EntryOf(c))
               y == Count(items'[c], EntryOf(c))
               w == Count(wire, EntryOf(c))
    <3>4. Total(c)' = got'[c] + y + w /\ Total(c) = got[c] + x + w
      BY <1>0 DEF Total
    <3>5. got[c] \in Nat /\ x \in Nat /\ w \in Nat  BY TotalType
    <3> HIDE DEF x, y, w
    <3>6. Total(c)' = Total(c)  BY <2>4, <3>2, <3>3, <3>4, <3>5 DEF x, y
    <3> QED  BY <1>0, <1>1, <2>2, <3>6
  <2>5. CASE Head(items[c]).tag = "done" /\ got'[c] = got[c]
    <3>1. Head(items[c]) # EntryOf(c)  BY <2>5 DEF EntryOf
    <3>2. Count(items[c], EntryOf(c)) = Count(items'[c], EntryOf(c))
      BY <2>1, <3>1, CountTail
    <3>3. Total(c)' = Total(c)  BY <1>0, <2>5, <3>2 DEF Total
    <3> QED  BY <1>0, <1>1, <2>2, <3>3
  <2> QED  BY <1>2, <2>4, <2>5, NextStream
<1>3. CASE ~StreamNext(c)
  <2>1. /\ got'[c] = got[c] /\ res'[c] = res[c]
        /\ items'[c] = items[c] \/ (items'[c] = <<>> /\ ~rx'[c])
        /\ rx'[c] => rx[c] \/ pc[c] = "idle"
    BY <1>3, ClientStream
  <2>2. Feeds(c)' => Feeds(c)
    BY <1>0, <2>1 DEF Feeds, Lifecycle, Filed
  <2>3. CASE items'[c] = items[c]
    <3>1. Feeds(c) \/ Ended(c)  BY <2>1, <2>2, <2>3 DEF Ended
    <3>2. Total(c)' = Total(c)  BY <1>0, <2>1, <2>3 DEF Total
    <3> QED  BY <1>0, <1>1, <3>1, <3>2
  <2>4. CASE items'[c] = <<>> /\ ~rx'[c]
    <3>1. ~Feeds(c)'  BY <2>4 DEF Feeds
    <3>2. res'[c]  BY <2>4, <3>1 DEF Ended
    <3>3. items'[c] = items[c]  BY <2>1, <2>4, <3>2 DEF EndLast
    <3> QED  BY <2>3, <3>3
  <2> QED  BY <2>1, <2>3, <2>4
<1> QED  BY <1>2, <1>3

LEMMA CountedServer ==
    ASSUME Inv, Counted, ~IdsAmbiguous, NEW c \in Calls, ServerStep, Feeds(c)' \/ Ended(c)'
    PROVE  Total(c)' = sent'[c]
<1> USE DEF Inv, TypeInv
<1>0. UNCHANGED <<got, items, rx, res, searchmap>>
  BY ServerFrame DEF streamvars, mapvars
<1>1. Feeds(c) \/ Ended(c)  BY <1>0 DEF Feeds, Ended
<1>2. Total(c) = sent[c]  BY <1>1 DEF Counted
<1>3. EntryOf(c).from = c /\ EntryOf(c).tag = "entry"  BY DEF EntryOf
<1>4. ASSUME NEW m, m # EntryOf(c), wire' = wire \/ wire' = Append(wire, m),
             sent'[c] = sent[c]
      PROVE  Total(c)' = sent'[c]
  <2>0. wire \in Seq(Messages)  BY TotalType
  <2>1. Count(wire', EntryOf(c)) = Count(wire, EntryOf(c))
    <3>1. CASE wire' = wire  BY <3>1
    <3>2. CASE wire' = Append(wire, m)  BY <1>4, <2>0, <3>2, CountAppend
    <3> QED  BY <1>4, <3>1, <3>2
  <2> QED  BY <1>0, <1>2, <1>4, <2>1 DEF Total
<1>5. ASSUME NEW d \in Calls, SrvEntry(d) PROVE Total(c)' = sent'[c]
  <2>1. /\ wire' = Append(wire, EntryOf(d)) /\ sent' = [sent EXCEPT ![d] = @ + 1]
        /\ sent \in [Calls -> 0..MaxEntries]
    BY <1>5 DEF SrvEntry, EntryOf, DataType, NetType
  <2>2. CASE d = c
    <3>1. Count(wire', EntryOf(c)) = Count(wire, EntryOf(c)) + 1
      BY <2>1, <2>2, TotalType, CountAppend
    <3>2. sent'[c] = sent[c] + 1  BY <2>1, <2>2
    <3> DEFINE x == Count(items[c], EntryOf(c))
               w == Count(wire, EntryOf(c))
    <3>3. Total(c)' = got[c] + x + Count(wire', EntryOf(c)) /\ Total(c) = got[c] + x + w
      BY <1>0 DEF Total
    <3>4. got[c] \in Nat /\ x \in Nat /\ w \in Nat /\ sent[c] \in Nat  BY TotalType
    <3>5. Count(wire', EntryOf(c)) = w + 1  BY <3>1
    <3> HIDE DEF x, w
    <3> QED  BY <1>2, <3>2, <3>3, <3>4, <3>5
  <2>3. CASE d # c
    <3>1. EntryOf(d) # EntryOf(c)  BY <2>3 DEF EntryOf
    <3>2. sent'[c] = sent[c]  BY <2>1, <2>3
    <3> QED  BY <1>4, <2>1, <3>1, <3>2
  <2> QED  BY <2>2, <2>3
<1>6. ASSUME NEW d \in Calls, SrvResult(d) \/ SrvDone(d) \/ SrvForget(d)
      PROVE  Total(c)' = sent'[c]
  <2>1. /\ sent'[c] = sent[c]
        /\ \/ wire' = wire
           \/ wire' = Append(wire, [from |-> d, tag |-> "result"])
           \/ wire' = Append(wire, [from |-> d, tag |-> "done"])
    BY <1>6 DEF SrvResult, SrvDone, SrvForget
  <2>2. /\ [from |-> d, tag |-> "result"] # EntryOf(c)
        /\ [from |-> d, tag |-> "done"] # EntryOf(c)
    BY DEF EntryOf
  <2> QED  BY <1>4, <2>1, <2>2
<1>7. CASE SrvClose \/ SrvReset
  <2>1. /\ sent'[c] = sent[c]
        /\ wire' = wire \/ wire' = Append(wire, [from |-> NoCall, tag |-> "notice"])
    BY <1>7 DEF SrvClose, SrvReset
  <2>2. [from |-> NoCall, tag |-> "notice"] # EntryOf(c)  BY DEF EntryOf
  <2> QED  BY <1>4, <2>1, <2>2
<1> QED  BY <1>5, <1>6, <1>7 DEF ServerStep, Server

LEMMA CountedDriver ==
    ASSUME Inv, Untaken, Counted, ~IdsAmbiguous, NEW c \in Calls, DriverStep,
           Feeds(c)' \/ Ended(c)'
    PROVE  Total(c)' = sent'[c]
<1> USE DEF Inv, TypeInv, RouteInv, HeldInv, LifeInv
<1>0. UNCHANGED <<got, sent, rx, res, id>>  BY DriverFrame
<1>1. Feeds(c) \/ Ended(c) => Total(c) = sent[c]  BY DEF Counted
<1>2. Ended(c) => ~OnWire(c) /\ ~Filed(c)  BY DEF EndSeen, Ended
<1>3. wire \in Seq(Messages) /\ items[c] \in Seq(Messages)  BY TotalType
<1>4. EntryOf(c).from = c /\ EntryOf(c).tag = "entry"  BY DEF EntryOf
<1>5. ASSUME UNCHANGED items, UNCHANGED wire, Feeds(c) \/ Ended(c)
      PROVE  Total(c)' = sent'[c]
  BY <1>0, <1>1, <1>5 DEF Total
<1>6. ASSUME UNCHANGED items PROVE Ended(c)' <=> Ended(c)
  BY <1>0, <1>6 DEF Ended
<1>7. ASSUME UNCHANGED items, wire' = <<>>, \A i \in Ids : searchmap'[i] = NoCall
      PROVE  Total(c)' = sent'[c]
  <2>1. ~Feeds(c)'  BY <1>7, CallsAssumption DEF Feeds
  <2>2. Ended(c)  BY <1>6, <1>7, <2>1
  <2>3. Count(wire, EntryOf(c)) = 0  BY <1>2, <2>2, NotOnWire
  <2>4. Count(wire', EntryOf(c)) = 0  BY <1>7, CountNone
  <2>5. Total(c)' = Total(c)  BY <1>0, <1>7, <2>3, <2>4 DEF Total
  <2> QED  BY <1>0, <1>1, <2>2, <2>5
<1>8. ASSUME UNCHANGED items, wire # <<>>, wire' = Tail(wire), Head(wire) # EntryOf(c),
             Feeds(c) \/ Ended(c)
      PROVE  Total(c)' = sent'[c]
  <2>1. Count(wire', EntryOf(c)) = Count(wire, EntryOf(c))  BY <1>3, <1>8, CountTail
  <2>2. Total(c)' = Total(c)  BY <1>0, <1>8, <2>1 DEF Total
  <2> QED  BY <1>0, <1>1, <1>8, <2>2
<1>9. ASSUME \A i \in Ids : searchmap'[i] = c => searchmap[i] = c
      PROVE  Feeds(c)' => Feeds(c)
  BY <1>0, <1>9 DEF Feeds
<1>10. wire # <<>> => Head(wire) = wire[1] /\ 1 \in DOMAIN wire  BY <1>3
<1>11. CASE DriverEnds
  BY <1>7, <1>11, DriverEndsStop DEF Stop, streamvars
<1>12. CASE DrvScrub
  <2>1. UNCHANGED <<items, wire>> /\ searchmap' = Without(searchmap, Head(scrubq))
    BY <1>12 DEF DrvScrub, streamvars, netvars
  <2>2. Feeds(c)' => Feeds(c)  BY <1>9, <2>1, CallsAssumption DEF Without
  <2> QED  BY <1>5, <1>6, <2>1, <2>2
<1>13. ASSUME NEW d \in Calls, DrvSingle(d) \/ DrvAbandon(d) \/ DrvUnbind(d) \/ DrvMisc(d)
       PROVE  Total(c)' = sent'[c]
  <2>1. /\ UNCHANGED <<items, wire>>
        /\ searchmap' = searchmap \/ \E i : searchmap' = Without(searchmap, i)
    BY <1>13 DEF DrvSingle, DrvAbandon, DrvUnbind, DrvMisc, streamvars, netvars, mapvars
  <2>2. Feeds(c)' => Feeds(c)  BY <1>9, <2>1, CallsAssumption DEF Without
  <2> QED  BY <1>5, <1>6, <2>1, <2>2
<1>14. ASSUME NEW d \in Calls, DrvSearch(d) PROVE Total(c)' = sent'[c]
  <2>1. /\ UNCHANGED <<items, wire>> /\ TakeOp(d)
        /\ searchmap' = [searchmap EXCEPT ![id[d]] = d]
    BY <1>14 DEF DrvSearch, FiledUnder, streamvars
  <2>2. CASE d = c
    <3>1. c \in Queued(opq) /\ ~OnWire(c)  BY <2>1, <2>2, SentFacts
    <3>2. sent[c] = 0 /\ got[c] = 0 /\ items[c] = <<>>  BY <3>1 DEF Untaken
    <3>3. Count(wire, EntryOf(c)) = 0  BY <3>1, NotOnWire
    <3>4. Count(items[c], EntryOf(c)) = 0  BY <3>2, CountNone
    <3>5. Total(c) = 0  BY <3>2, <3>3, <3>4 DEF Total
    <3>6. Total(c)' = Total(c)  BY <1>0, <2>1 DEF Total
    <3> QED  BY <1>0, <3>2, <3>5, <3>6
  <2>3. CASE d # c
    <3>1. Feeds(c)' => Feeds(c)
      BY <1>9, <2>1, <2>3 DEF DataType, DriverType
    <3> QED  BY <1>5, <1>6, <2>1, <3>1
  <2> QED  BY <2>2, <2>3
<1>15. CASE DrvResult
  <2>1. CASE Stop("panicked")
    BY <1>7, <1>15, <2>1 DEF DrvResult, Stop, streamvars
  <2>2. CASE ~Stop("panicked")
    <3>1. UNCHANGED <<items, searchmap>> /\ wire # <<>> /\ wire' = Tail(wire)
      BY <1>15, <2>2 DEF DrvResult, NextResp, streamvars
    <3>2. PICK d \in Calls : Head(wire).from = d /\ kind[d] = "Single"
      BY <1>15, ResultIsEnd
    <3>3. Head(wire) # EntryOf(c)
      <4>1. WellTagged(Head(wire))  BY <1>10, <3>1 DEF WireAgrees
      <4> QED  BY <1>4, <3>2, <4>1 DEF WellTagged, IsSearch, SearchKinds
    <3>4. Feeds(c)' => Feeds(c)  BY <1>9, <3>1
    <3> QED  BY <1>6, <1>8, <3>1, <3>3, <3>4
  <2> QED  BY <2>1, <2>2
<1>16. CASE DrvUnmatched
  <2>1. /\ UNCHANGED <<items, searchmap>> /\ wire # <<>> /\ wire' = Tail(wire)
        /\ Lookup(searchmap, MsgId(Head(wire))) = NoCall
    BY <1>16 DEF DrvUnmatched, NextResp, streamvars, mapvars
  <2>2. Feeds(c) \/ Ended(c)  BY <1>6, <1>9, <2>1
  <2>3. ASSUME Head(wire) = EntryOf(c) PROVE FALSE
    <3>1. Head(wire).from = c /\ OnWire(c)
      BY <1>4, <1>10, <2>1, <2>3 DEF OnWire
    <3>2. PICK i \in Ids : searchmap[i] = c  BY <1>2, <2>2, <3>1 DEF Feeds
    <3>3. id[c] = i  BY <3>2 DEF MapsAgree
    <3>4. MsgId(Head(wire)) = i  BY <3>1, <3>3, CallsAssumption DEF MsgId
    <3> QED  BY <2>1, <3>2, <3>4, CallsAssumption DEF Lookup
  <2> QED  BY <1>8, <2>1, <2>2, <2>3
<1>17. CASE DrvSearchItem
  <2>1. PICK d \in Calls :
          /\ Lookup(searchmap, MsgId(Head(wire))) = d /\ Filed(d)
          /\ wire # <<>> /\ wire' = Tail(wire)
          /\ \A e \in Calls : e # d => items'[e] = items[e]
          /\ \/ rx[d] /\ items'[d] = Append(items[d], Head(wire))
             \/ ~rx[d] /\ items'[d] = items[d]
          /\ \A e \in Calls, i \in Ids : searchmap'[i] = e => searchmap[i] = e
    BY <1>17, ItemStream
  <2>2. Head(wire).from = d /\ MsgId(Head(wire)) = id[d] /\ id[d] \in Ids
    BY <2>1, Dispatch
  <2>3. Feeds(c)' => Feeds(c)  BY <1>9, <2>1
  <2>4. CASE c # d
    <3>1. items'[c] = items[c]  BY <2>1, <2>4
    <3>2. Head(wire) # EntryOf(c)  BY <1>4, <2>2, <2>4
    <3>3. Count(wire', EntryOf(c)) = Count(wire, EntryOf(c))
      BY <1>3, <2>1, <3>2, CountTail
    <3>4. Total(c)' = Total(c)  BY <1>0, <3>1, <3>3 DEF Total
    <3>5. Feeds(c) \/ Ended(c)  BY <1>0, <2>3, <3>1 DEF Ended
    <3> QED  BY <1>0, <1>1, <3>4, <3>5
  <2>5. CASE c = d
    <3>1. ~Ended(c)  BY <1>2, <2>1, <2>5
    <3>2. CASE ~rx[d] /\ items'[d] = items[d]
      BY <1>0, <2>5, <3>1, <3>2 DEF Feeds, Ended
    <3>3. CASE rx[d] /\ items'[d] = Append(items[d], Head(wire))
      <4>1. Feeds(c)
        BY <2>1, <2>2, <2>5, <3>3, CallsAssumption DEF Feeds, Lookup
      <4> DEFINE x == Count(items[c], EntryOf(c))
                 y == Count(items'[c], EntryOf(c))
                 w == Count(wire, EntryOf(c))
                 v == Count(wire', EntryOf(c))
      <4>2. Total(c)' = got[c] + y + v /\ Total(c) = got[c] + x + w
        BY <1>0 DEF Total
      <4>3. got[c] \in Nat /\ x \in Nat /\ w \in Nat  BY TotalType
      <4>4. v \in Nat
        <5>1. Tail(wire) \in Seq(Messages)  BY <1>3, <2>1
        <5> QED  BY <2>1, <5>1, PlacesFinite
      <4>5. \/ y = x + 1 /\ w = v + 1
            \/ y = x /\ w = v
        <5>1. items'[c] = Append(items[c], Head(wire))  BY <2>5, <3>3
        <5>2. CASE Head(wire) = EntryOf(c)
          <6>1. y = x + 1  BY <1>3, <5>1, <5>2, CountAppend
          <6>2. w = v + 1  BY <1>3, <2>1, <5>2, CountTail
          <6> QED  BY <6>1, <6>2
        <5>3. CASE Head(wire) # EntryOf(c)
          <6>1. y = x  BY <1>3, <5>1, <5>3, CountAppend
          <6>2. w = v  BY <1>3, <2>1, <5>3, CountTail
          <6> QED  BY <6>1, <6>2
        <5> QED  BY <5>2, <5>3
      <4> HIDE DEF x, y, w, v
      <4>6. Total(c)' = Total(c)  BY <4>2, <4>3, <4>4, <4>5
      <4> QED  BY <1>0, <1>1, <4>1, <4>6
    <3> QED  BY <2>1, <3>2, <3>3
  <2> QED  BY <2>4, <2>5
<1> QED
  BY <1>11, <1>12, <1>13, <1>14, <1>15, <1>16, <1>17
  DEF DriverStep, ScrubBranch, OpBranch, MiscBranch, StreamBranch, DriverEnds

LEMMA CountStep ==
    ASSUME Inv, CountInv, [Next]_vars
    PROVE  CountInv'
<1> USE DEF CountInv
<1>1. Untaken' /\ EndLast'  BY UntakenStep, EndLastStep
<1>2. Counted'
  <2> SUFFICES ASSUME ~IdsAmbiguous', NEW c \in Calls, Feeds(c)' \/ Ended(c)'
               PROVE  Total(c)' = sent'[c]
    BY DEF Counted
  <2>1. ~IdsAmbiguous  BY Monotone DEF Inv, TypeInv
  <2>2. ASSUME NEW d \in Calls, Client(d) PROVE Total(c)' = sent'[c]
    BY <2>1, <2>2, CountedClient
  <2>3. CASE ServerStep  BY <2>1, <2>3, CountedServer
  <2>4. CASE DriverStep  BY <2>1, <2>4, CountedDriver
  <2>5. CASE DropHandles \/ UNCHANGED vars
    <3>1. UNCHANGED <<got, items, rx, res, wire, sent, searchmap>>
      BY <2>5 DEF DropHandles, vars, streamvars, netvars, mapvars
    <3>2. Feeds(c) \/ Ended(c)  BY <3>1 DEF Feeds, Ended
    <3>3. Total(c) = sent[c]  BY <2>1, <3>2 DEF Counted
    <3>4. Total(c)' = Total(c)  BY <3>1 DEF Total
    <3> QED  BY <3>1, <3>3, <3>4
  <2> QED  BY <2>2, <2>3, <2>4, <2>5, Steps
<1> QED  BY <1>1, <1>2

-----------------------------------------------------------------------------
(* What is left over *)

FinalOnWire(c) ==
    \E k \in DOMAIN wire : wire[k].from = c /\ wire[k].tag \in {"result", "done"}

\* An operation the server was told to abandon has left the maps ...
AbandonedUnfiled == \A c \in abn : ~Filed(c)

\* ... and any other in the maps will be answered.
FiledServed ==
    drv = "running" /\ peer = "open" =>
        \A c \in Calls : Filed(c) => c \in srv \/ FinalOnWire(c)

\* c will still release its id, or keeps it for good.
Owes(c) ==
    \/ pc[c] = "tuple"
    \/ ~IsSearch(c) /\ (c \in Queued(opq) \/ resultmap[id[c]] = c)
    \/ IsSearch(c) /\ (pc[c] = "wait" \/ stm[c] \in OpenStates)
    \/ KeepsId(c)

\* Every id in use is queued for scrubbing, or some call owes it.
UsedOwed ==
    drv = "running" => \A i \in used :
        i \in Queued(scrubq) \/ \E c \in Calls : id[c] = i /\ Owes(c)

DrainInv == AbandonedUnfiled /\ FiledServed /\ UsedOwed

LEMMA InitDrain == Init => DrainInv
BY CallsAssumption DEF Init, DrainInv, AbandonedUnfiled, FiledServed, UsedOwed, Filed

LEMMA AbandonedUnfiledStep ==
    ASSUME Inv, AbandonedUnfiled, [Next]_vars
    PROVE  AbandonedUnfiled'
<1> USE DEF Inv, TypeInv, RouteInv, LifeInv
<1>0. abn \subseteq srv /\ srv \subseteq Calls  BY DEF DataType, NetType
<1>1. ASSUME abn' \subseteq abn, \A c \in srv : Filed(c)' => Filed(c)
      PROVE  AbandonedUnfiled'
  BY <1>0, <1>1 DEF AbandonedUnfiled
<1>2. ASSUME NEW d \in Calls, Client(d) PROVE AbandonedUnfiled'
  BY <1>1, <1>2, ClientFrame DEF netvars, mapvars, Filed
<1>3. CASE ServerStep
  <2>1. abn' \subseteq abn
    BY <1>3
    DEF ServerStep, Server, SrvResult, SrvEntry, SrvDone, SrvForget, SrvClose, SrvReset
  <2> QED  BY <1>0, <1>1, <1>3, <2>1, ServerMoves
<1>4. CASE DropHandles \/ UNCHANGED vars
  BY <1>1, <1>4 DEF DropHandles, vars, netvars, mapvars, Filed
<1>5. ASSUME DriverStep PROVE \A c \in srv : Filed(c)' => Filed(c)
  BY <1>0, <1>5, DriverMoves DEF Lifecycle
<1>6. ASSUME NEW a \in Calls, DrvAbandon(a) PROVE AbandonedUnfiled'
  <2>0. DriverStep  BY <1>6 DEF DriverStep, OpBranch
  <2>1. /\ resultmap' = Without(resultmap, tgt[a]) /\ searchmap' = Without(searchmap, tgt[a])
        /\ abn' = abn \cup {d \in srv : id[d] = tgt[a]}
    BY <1>6 DEF DrvAbandon, Abandons
  <2> SUFFICES ASSUME NEW c \in abn' PROVE ~Filed(c)'
    BY DEF AbandonedUnfiled
  <2>2. CASE c \in abn  BY <1>0, <1>5, <2>0, <2>2 DEF AbandonedUnfiled
  <2>3. CASE c \in srv /\ id[c] = tgt[a]
    <3>1. \A i \in Ids : i # tgt[a] => resultmap[i] # c /\ searchmap[i] # c
      BY <1>0, <2>3 DEF MapsAgree
    <3>2. c # NoCall  BY <1>0, <2>3, CallsAssumption
    <3> QED  BY <2>1, <3>1, <3>2 DEF Filed, Without
  <2> QED  BY <2>1, <2>2, <2>3
<1>7. CASE DriverStep /\ ~\E a \in Calls : DrvAbandon(a)
  <2>1. abn' \subseteq abn
    <3>1. CASE DriverEnds  BY <3>1, DriverEndsStop DEF Stop
    <3>2. CASE DrvScrub \/ DrvSearchItem \/ DrvResult \/ DrvUnmatched
      BY <3>2 DEF DrvScrub, DrvSearchItem, DrvResult, DrvUnmatched, Stop, netvars
    <3>3. ASSUME NEW d \in Calls, DrvSingle(d) \/ DrvSearch(d) \/ DrvUnbind(d) \/ DrvMisc(d)
          PROVE  abn' \subseteq abn
      BY <3>3 DEF DrvSingle, DrvSearch, DrvUnbind, DrvMisc, netvars
    <3> QED
      BY <1>7, <3>1, <3>2, <3>3
      DEF DriverStep, ScrubBranch, OpBranch, MiscBranch, StreamBranch, DriverEnds
  <2> QED  BY <1>1, <1>5, <1>7, <2>1
<1> QED  BY <1>2, <1>3, <1>4, <1>6, <1>7, Steps

\* The final message of c leaves the wire, and c the maps.
LEMMA FinalTaken ==
    ASSUME Inv, DrvResult \/ DrvUnmatched \/ DrvSearchItem, drv' = "running",
           NEW c \in Calls, Head(wire).from = c, Head(wire).tag \in {"result", "done"}
    PROVE  ~Filed(c)'
<1> USE DEF Inv, TypeInv, RouteInv
<1>0. MsgId(Head(wire)) = id[c]  BY CallsAssumption DEF MsgId
<1>1. \A i \in Ids : /\ resultmap[i] = c => id[c] = i /\ kind[c] = "Single"
                     /\ searchmap[i] = c => id[c] = i /\ IsSearch(c)
  BY DEF MapsAgree
<1>2. CASE DrvResult
  <2>1. /\ resultmap' = Without(resultmap, id[c]) /\ UNCHANGED searchmap
        /\ Lookup(searchmap, id[c]) = NoCall
    BY <1>0, <1>2 DEF DrvResult, Stop
  <2> QED  BY <1>1, <2>1, CallsAssumption DEF Filed, Without, Lookup
<1>3. CASE DrvUnmatched
  <2>1. /\ UNCHANGED <<resultmap, searchmap>>
        /\ Lookup(searchmap, id[c]) = NoCall /\ Lookup(resultmap, id[c]) = NoCall
    BY <1>0, <1>3 DEF DrvUnmatched, mapvars
  <2> QED  BY <1>1, <2>1, CallsAssumption DEF Filed, Lookup
<1>4. CASE DrvSearchItem
  <2>1. /\ UNCHANGED resultmap /\ Head(wire).tag = "done" /\ wire # <<>>
        /\ searchmap' = Without(searchmap, id[c])
    BY <1>0, <1>4 DEF DrvSearchItem, NextResp
  <2>2. WellTagged(Head(wire))  BY <2>1 DEF WireAgrees, DataType, NetType
  <2>3. kind[c] # "Single"
    BY <2>1, <2>2, CallsAssumption DEF WellTagged, IsSearch, SearchKinds
  <2> QED  BY <1>1, <2>1, <2>3, CallsAssumption DEF Filed, Without
<1> QED  BY <1>2, <1>3, <1>4

LEMMA FiledServedStep ==
    ASSUME Inv, AbandonedUnfiled, FiledServed, [Next]_vars
    PROVE  FiledServed'
<1> USE DEF Inv, TypeInv, RouteInv, LifeInv
<1> SUFFICES ASSUME drv' = "running", peer' = "open", NEW c \in Calls, Filed(c)'
             PROVE  c \in srv' \/ FinalOnWire(c)'
  BY DEF FiledServed
<1>0. wire \in Seq(Messages)  BY DEF DataType, NetType
<1>1. ASSUME drv = "running", peer = "open", Filed(c) PROVE c \in srv \/ FinalOnWire(c)
  BY <1>1 DEF FiledServed
<1>2. CASE UNCHANGED <<drv, peer, srv, wire>> /\ Filed(c)
  BY <1>1, <1>2 DEF FinalOnWire
<1>3. ASSUME NEW d \in Calls, Client(d) PROVE c \in srv' \/ FinalOnWire(c)'
  BY <1>2, <1>3, ClientFrame DEF mapvars, netvars, Filed
<1>4. CASE DropHandles \/ UNCHANGED vars
  BY <1>2, <1>4 DEF DropHandles, vars, mapvars, netvars, Filed
<1>5. CASE ServerStep
  <2>0. UNCHANGED <<drv, resultmap, searchmap>> /\ Filed(c)
    BY <1>5, ServerFrame DEF mapvars, Filed
  <2>1. ASSUME NEW f, NEW t, wire' = Append(wire, [from |-> f, tag |-> t])
        PROVE  /\ FinalOnWire(c) => FinalOnWire(c)'
               /\ f = c /\ t \in {"result", "done"} => FinalOnWire(c)'
    <3> DEFINE m == [from |-> f, tag |-> t]
    <3>1. m.from = f /\ m.tag = t  OBVIOUS
    <3> HIDE DEF m
    <3>2. /\ \A k \in DOMAIN wire : k \in DOMAIN Append(wire, m) /\ Append(wire, m)[k] = wire[k]
          /\ Len(wire) + 1 \in DOMAIN Append(wire, m)
          /\ Append(wire, m)[Len(wire) + 1] = m
      BY <1>0
    <3>3. wire' = Append(wire, m)  BY <2>1 DEF m
    <3> QED  BY <3>1, <3>2, <3>3 DEF FinalOnWire
  <2>2. ASSUME NEW d \in Calls, Server(d) PROVE c \in srv' \/ FinalOnWire(c)'
    <3>0. peer = "open"  BY <2>2 DEF Server, SrvResult, SrvEntry, SrvDone, SrvForget, Online
    <3>1. c \in srv \/ FinalOnWire(c)  BY <1>1, <2>0, <3>0
    <3>2. CASE SrvResult(d)
      <4>1. wire' = Append(wire, [from |-> d, tag |-> "result"]) /\ srv' = srv \ {d}
        BY <3>2 DEF SrvResult
      <4> QED  BY <2>1, <3>1, <4>1
    <3>3. CASE SrvEntry(d)
      <4>1. wire' = Append(wire, [from |-> d, tag |-> "entry"]) /\ srv' = srv
        BY <3>3 DEF SrvEntry
      <4> QED  BY <2>1, <3>1, <4>1
    <3>4. CASE SrvDone(d)
      <4>1. wire' = Append(wire, [from |-> d, tag |-> "done"]) /\ srv' = srv \ {d}
        BY <3>4 DEF SrvDone
      <4> QED  BY <2>1, <3>1, <4>1
    <3>5. CASE SrvForget(d)
      <4>1. wire' = wire /\ srv' = srv \ {d} /\ d \in abn  BY <3>5 DEF SrvForget
      <4>2. c # d  BY <2>0, <4>1 DEF AbandonedUnfiled
      <4> QED  BY <3>1, <4>1, <4>2 DEF FinalOnWire
    <3> QED  BY <2>2, <3>2, <3>3, <3>4, <3>5 DEF Server
  <2>3. ~SrvClose /\ ~SrvReset  BY DEF SrvClose, SrvReset
  <2> QED  BY <1>5, <2>2, <2>3 DEF ServerStep
<1>6. CASE DriverEnds  BY <1>6, DriverEndsStop DEF Stop
<1>7. ASSUME DriverStep PROVE peer = "open"  BY <1>7, DriverFrame
<1>8. CASE DrvScrub
  <2>1. Filed(c)  BY <1>8, CallsAssumption DEF DrvScrub, Filed, Without
  <2> QED  BY <1>2, <1>8, <2>1 DEF DrvScrub, netvars
<1>9. ASSUME NEW d \in Calls, DrvSingle(d) \/ DrvSearch(d)
      PROVE  c \in srv' \/ FinalOnWire(c)'
  <2>0. DriverStep  BY <1>9 DEF DriverStep, OpBranch
  <2>1. srv' = srv \cup {d} /\ UNCHANGED wire /\ drv = "running"
    BY <1>7, <1>9, <2>0 DEF DrvSingle, DrvSearch, ServerSees, TakeOp
  <2>2. Filed(c) \/ c = d
    BY <1>9 DEF DrvSingle, DrvSearch, Filed, DataType, DriverType
  <2>3. Filed(c) => c \in srv \/ FinalOnWire(c)  BY <1>1, <1>7, <2>0, <2>1
  <2> QED  BY <2>1, <2>2, <2>3 DEF FinalOnWire
<1>10. ASSUME NEW d \in Calls, DrvAbandon(d) \/ DrvUnbind(d) \/ DrvMisc(d)
       PROVE  c \in srv' \/ FinalOnWire(c)'
  <2>1. Filed(c)
    BY <1>10, CallsAssumption DEF DrvAbandon, DrvUnbind, DrvMisc, mapvars, Filed, Without
  <2>2. UNCHANGED <<drv, peer, srv, wire>>
    BY <1>10 DEF DrvAbandon, DrvUnbind, DrvMisc, netvars
  <2> QED  BY <1>2, <2>1, <2>2
<1>11. CASE DrvResult \/ DrvUnmatched \/ DrvSearchItem
  <2>0. DriverStep  BY <1>11 DEF DriverStep, StreamBranch
  <2>1. /\ wire # <<>> /\ wire' = Tail(wire) /\ UNCHANGED srv /\ drv = "running"
    BY <1>11 DEF DrvResult, DrvUnmatched, DrvSearchItem, NextResp, Stop
  <2>2. Filed(c)
    <3>1. CASE DrvResult  BY <3>1, CallsAssumption DEF DrvResult, Stop, Filed, Without
    <3>2. CASE DrvUnmatched  BY <3>2 DEF DrvUnmatched, mapvars, Filed
    <3>3. CASE DrvSearchItem
      BY <3>3, CallsAssumption DEF DrvSearchItem, Filed, Without
    <3> QED  BY <1>11, <3>1, <3>2, <3>3
  <2>3. c \in srv \/ FinalOnWire(c)  BY <1>1, <1>7, <2>0, <2>1, <2>2
  <2>4. ASSUME FinalOnWire(c) PROVE FinalOnWire(c)'
    <3>1. PICK k \in DOMAIN wire : wire[k].from = c /\ wire[k].tag \in {"result", "done"}
      BY <2>4 DEF FinalOnWire
    <3>2. k # 1
      <4>1. Head(wire) = wire[1]  BY <1>0, <2>1
      <4> QED  BY <1>11, <3>1, <4>1, FinalTaken
    <3>3. k - 1 \in DOMAIN Tail(wire) /\ Tail(wire)[k - 1] = wire[k]
      BY <1>0, <2>1, <3>2
    <3> QED  BY <2>1, <3>1, <3>3 DEF FinalOnWire
  <2> QED  BY <2>1, <2>3, <2>4
<1> QED
  BY <1>3, <1>4, <1>5, <1>6, <1>8, <1>9, <1>10, <1>11, Steps
  DEF DriverStep, ScrubBranch, OpBranch, MiscBranch, StreamBranch, DriverEnds

\* A caller passes on what it owes, until it has its id scrubbed or keeps it.
LEMMA OwesClient ==
    ASSUME Inv, CallerInv, [Next]_vars, drv = "running", NEW c \in Calls, NEW d \in Calls,
           Client(d), Owes(c), id[c] \in Ids
    PROVE  Owes(c)' \/ id[c] \in Queued(scrubq')
<1> USE DEF Inv, TypeInv, RouteInv, LifeInv, DataType, CallType, StreamType
<1>0. pc[c] # "idle"  BY MaxIdAssumption DEF Ids, AscendingIds
<1>1. /\ UNCHANGED <<kind, resultmap>> /\ id'[c] = id[c]
      /\ IsSearch(c)' = IsSearch(c)
  BY <1>0, ClientFrame, ClientPlace DEF mapvars, IsSearch
<1>2. Queued(opq) \subseteq Queued(opq')
  <2>1. CASE SendOp(d)  BY <2>1, QueuedAppend DEF SendOp, DriverType
  <2>2. CASE NextMsgId(d)  BY <2>2 DEF NextMsgId, queuevars
  <2>3. CASE ~SendOp(d) /\ ~NextMsgId(d)  BY <2>3, ClientMoves
  <2> QED  BY <2>1, <2>2, <2>3
<1>3. CASE \E e \in Calls : AbandonedBy(e, c)
  <2>1. \E e \in Calls : AbandonedBy(e, c)'  BY <1>3, AbandonedStays
  <2> QED  BY <2>1 DEF Owes, KeepsId
<1>4. CASE kind[c] = "Unbind"  BY <1>1, <1>4 DEF Owes, KeepsId
<1>5. CASE d # c /\ ~\E e \in Calls : AbandonedBy(e, c)
  <2>1. pc'[c] = pc[c] /\ stm'[c] = stm[c] /\ res'[c] = res[c]  BY <1>5, ClientPlace
  <2> QED  BY <1>1, <1>2, <1>5, <2>1 DEF Owes, KeepsId
<1>6. CASE d = c /\ ~IsSearch(c) /\ ~KeepsId(c)
  <2>1. CASE pc[c] = "tuple"
    <3>1. stm[c] \notin OpenStates  BY <2>1 DEF Lifecycle
    <3>2. SendOp(c)
      BY <1>6, <2>1, <3>1
      DEF Client, NextMsgId, NextMsgIdPanics, SendOp, SendFails, SendMisc, RecvResult,
          RecvError, Timeout, Cancel, StreamNext, StreamEndOfStream, StreamTimeout,
          StreamNextPanics, StreamFinish, StreamDrop, OpenStates
    <3>3. c \in Queued(opq')  BY <3>2, QueuedAppend DEF SendOp, DriverType
    <3> QED  BY <1>1, <1>6, <3>3 DEF Owes
  <2>2. CASE pc[c] # "tuple"  BY <1>1, <1>2, <1>6, <2>2 DEF Owes
  <2> QED  BY <2>1, <2>2
<1>7. CASE d = c /\ IsSearch(c)
  <2> USE <1>1, <1>7 DEF Owes, KeepsId
  <2>0. kind[c] # "Cert" /\ (kind[c] # "Adapted" => kind[c] = "Direct")
    BY DEF IsSearch, SearchKinds
  <2>1. CASE SendOp(c)  BY <2>1 DEF SendOp
  <2>2. CASE RecvResult(c)  BY <2>2 DEF RecvResult, OpenStates
  <2>3. CASE RecvError(c) \/ Timeout(c) \/ Cancel(c)
    BY <2>3 DEF RecvError, Timeout, Cancel, StreamLost
  <2>4. CASE StreamNext(c)
    <3>1. stm'[c] \in {"Active", "Done"}  BY <2>4 DEF StreamNext
    <3> QED  BY <3>1 DEF OpenStates
  <2>5. CASE StreamEndOfStream(c) \/ StreamTimeout(c) \/ StreamNextPanics(c) \/ StreamDrop(c)
    BY <2>5 DEF StreamEndOfStream, StreamTimeout, StreamNextPanics, StreamDrop, OpenStates
  <2>6. CASE StreamFinish(c)
    <3>1. CASE stm[c] = "Done"
      <4>1. kind[c] = "Adapted" /\ res[c]  BY <3>1 DEF CallerInv, DoneRead
      <4>2. stm'[c] = "Closed" /\ UNCHANGED res  BY <2>6 DEF StreamFinish
      <4> QED  BY <4>1, <4>2
    <3>2. CASE stm[c] # "Done"
      <4>1. scrubq' = Append(scrubq, id[c])  BY <2>6, <3>2 DEF StreamFinish, ScrubSent
      <4>2. scrubq \in Seq(Ids)  BY DEF DriverType
      <4> QED  BY <4>1, <4>2, QueuedAppend
    <3> QED  BY <3>1, <3>2
  <2>7. ~NextMsgId(c) /\ ~NextMsgIdPanics(c) /\ ~SendMisc(c) /\ ~SendFails(c)
    BY <1>0, <2>0 DEF NextMsgId, NextMsgIdPanics, SendMisc, SendFails
  <2> QED  BY <2>1, <2>2, <2>3, <2>4, <2>5, <2>6, <2>7 DEF Client
<1> QED  BY <1>3, <1>4, <1>5, <1>6, <1>7 DEF KeepsId, IsSearch, SearchKinds

\* The driver releases the id, or passes on what is owed for it.
LEMMA OwesDriver ==
    ASSUME Inv, DriverStep, drv = "running", drv' = "running", NEW c \in Calls,
           Owes(c), id[c] \in used'
    PROVE  \E d \in Calls : id'[d] = id[c] /\ Owes(d)'
<1> USE DEF Inv, TypeInv, RouteInv, LifeInv, DataType
<1>0. /\ UNCHANGED <<kind, pc, id, tgt, stm, res>>
      /\ \A d \in Calls : IsSearch(d)' = IsSearch(d) /\ (KeepsId(d) => KeepsId(d)')
  BY DriverFrame DEF IsSearch, KeepsId, AbandonedBy
<1>1. used' \subseteq used /\ id[c] \in Ids
  <2>1. CASE DriverEnds  BY <2>1, DriverEndsStop DEF Stop
  <2>2. ASSUME DrvScrub \/ DrvSearchItem \/ DrvResult \/ DrvUnmatched
        PROVE  used' \subseteq used
    BY <2>2 DEF DrvScrub, DrvSearchItem, DrvResult, DrvUnmatched, msgvars
  <2>3. ASSUME NEW d \in Calls,
               DrvSingle(d) \/ DrvSearch(d) \/ DrvAbandon(d) \/ DrvUnbind(d) \/ DrvMisc(d)
        PROVE  used' \subseteq used
    BY <2>3 DEF DrvSingle, DrvSearch, DrvAbandon, DrvUnbind, DrvMisc, msgvars
  <2>4. used' \subseteq used
    BY <2>1, <2>2, <2>3
    DEF DriverStep, ScrubBranch, OpBranch, MiscBranch, StreamBranch, DriverEnds, Stop
  <2> QED  BY <2>4 DEF MsgType
<1>2. CASE pc[c] = "tuple" \/ IsSearch(c) \/ KeepsId(c)
  <2>1. Owes(c)'
    BY <1>0, <1>2 DEF Owes, OpenStates, IsSearch, SearchKinds
  <2> QED  BY <1>0, <2>1
<1>3. ASSUME ~IsSearch(c), c \in Queued(opq') \/ resultmap'[id[c]] = c
      PROVE  \E d \in Calls : id'[d] = id[c] /\ Owes(d)'
  BY <1>0, <1>3 DEF Owes
<1>4. CASE ~IsSearch(c) /\ (c \in Queued(opq) \/ resultmap[id[c]] = c)
  <2> USE <1>4
  <2>0. \A i \in Ids : resultmap[i] = c => kind[c] = "Single"  BY DEF MapsAgree
  <2>1. CASE DrvScrub
    BY <1>1, <1>3, <2>1 DEF DrvScrub, Without
  <2>2. CASE DrvSearchItem \/ DrvUnmatched
    BY <1>3, <2>2 DEF DrvSearchItem, DrvUnmatched, mapvars, queuevars
  <2>3. CASE DrvResult
    BY <1>1, <1>3, <2>3 DEF DrvResult, Stop, Without, queuevars
  <2>4. ASSUME NEW d \in Calls, DrvMisc(d)
        PROVE  \E e \in Calls : id'[e] = id[c] /\ Owes(e)'
    BY <1>3, <2>4 DEF DrvMisc, mapvars
  <2>5. ASSUME NEW d \in Calls, TakeOp(d), c # d PROVE c \in Queued(opq) => c \in Queued(opq')
    BY <2>5, QueuedTail DEF TakeOp, DriverType
  <2>6. ASSUME NEW d \in Calls, DrvSingle(d)
        PROVE  \E e \in Calls : id'[e] = id[c] /\ Owes(e)'
    <3>1. /\ TakeOp(d) /\ resultmap' = [resultmap EXCEPT ![id[d]] = d] /\ kind[d] = "Single"
      BY <2>6 DEF DrvSingle, FiledUnder
    <3>2. CASE id[d] = id[c]
      <4>1. resultmap'[id[d]] = d  BY <1>1, <3>1, <3>2 DEF DriverType
      <4>2. ~IsSearch(d)  BY <3>1 DEF IsSearch, SearchKinds
      <4>3. Owes(d)'  BY <1>0, <4>1, <4>2 DEF Owes
      <4> QED  BY <1>0, <3>2, <4>3
    <3>3. CASE id[d] # id[c]
      <4>1. resultmap'[id[c]] = resultmap[id[c]]  BY <1>1, <3>1, <3>3 DEF DriverType
      <4> QED  BY <1>3, <2>5, <3>1, <3>3, <4>1
    <3> QED  BY <3>2, <3>3
  <2>7. ASSUME NEW d \in Calls, DrvSearch(d)
        PROVE  \E e \in Calls : id'[e] = id[c] /\ Owes(e)'
    <3>1. TakeOp(d) /\ IsSearch(d) /\ UNCHANGED resultmap  BY <2>7 DEF DrvSearch
    <3> QED  BY <1>3, <2>5, <3>1
  <2>8. ASSUME NEW d \in Calls, DrvUnbind(d)
        PROVE  \E e \in Calls : id'[e] = id[c] /\ Owes(e)'
    <3>1. TakeOp(d) /\ kind[d] = "Unbind" /\ UNCHANGED resultmap
      BY <2>8 DEF DrvUnbind, mapvars
    <3>2. CASE d = c  BY <1>2, <3>1, <3>2 DEF KeepsId
    <3>3. CASE d # c  BY <1>3, <2>5, <3>1, <3>3
    <3> QED  BY <3>2, <3>3
  <2>9. ASSUME NEW d \in Calls, DrvAbandon(d)
        PROVE  \E e \in Calls : id'[e] = id[c] /\ Owes(e)'
    <3>1. /\ TakeOp(d) /\ kind[d] = "Abandon" /\ used' = used \ {id[d]}
          /\ resultmap' = Without(resultmap, tgt[d])
      BY <2>9 DEF DrvAbandon, AbandonReleases, Abandons
    <3>2. d # c  BY <3>1
    <3>3. CASE c \in Queued(opq)  BY <1>3, <2>5, <3>1, <3>2, <3>3
    <3>4. CASE resultmap[id[c]] = c /\ tgt[d] # id[c]
      BY <1>1, <1>3, <3>1, <3>4 DEF Without
    <3>5. CASE tgt[d] = id[c]
      <4>1. id[c] # 0  BY <1>1, MaxIdAssumption DEF Ids
      <4>2. AbandonedBy(d, c)  BY <3>1, <3>2, <3>5, <4>1 DEF AbandonedBy
      <4> QED  BY <1>2, <4>2 DEF KeepsId
    <3> QED  BY <3>3, <3>4, <3>5
  <2>10. ~DriverEnds  BY DriverEndsStop DEF Stop
  <2> QED
    BY <2>1, <2>2, <2>3, <2>4, <2>6, <2>7, <2>8, <2>9, <2>10
    DEF DriverStep, ScrubBranch, OpBranch, MiscBranch, StreamBranch, DriverEnds
<1> QED  BY <1>2, <1>4 DEF Owes

LEMMA UsedOwedStep ==
    ASSUME Inv, CallerInv, UsedOwed, [Next]_vars
    PROVE  UsedOwed'
<1> USE DEF Inv, TypeInv, RouteInv, LifeInv
<1> SUFFICES ASSUME drv' = "running", NEW i \in used'
             PROVE  i \in Queued(scrubq') \/ \E c \in Calls : id'[c] = i /\ Owes(c)'
  BY DEF UsedOwed
<1>0. scrubq \in Seq(Ids) /\ used \subseteq Ids  BY DEF DataType, DriverType, MsgType
<1>1. ASSUME drv = "running", i \in used
      PROVE  i \in Queued(scrubq) \/ \E c \in Calls : id[c] = i /\ Owes(c)
  BY <1>1 DEF UsedOwed
<1>2. ASSUME NEW d \in Calls, Client(d)
      PROVE  i \in Queued(scrubq') \/ \E c \in Calls : id'[c] = i /\ Owes(c)'
  <2>0. UNCHANGED drv  BY <1>2, ClientFrame
  <2>1. CASE i \in used
    <3>1. CASE i \in Queued(scrubq)
      <4>1. scrubq' = scrubq \/ scrubq' = Append(scrubq, id[d])  BY <1>2, ClientLeaves
      <4> QED  BY <1>0, <3>1, <4>1, QueuedAppend
    <3>2. CASE i \notin Queued(scrubq)
      <4>1. PICK c \in Calls : id[c] = i /\ Owes(c)  BY <1>1, <2>0, <2>1, <3>2
      <4>2. id[c] \in Ids  BY <1>0, <2>1, <4>1
      <4>3. pc[c] # "idle"  BY <4>2, MaxIdAssumption DEF Ids, AscendingIds
      <4>4. id'[c] = id[c]  BY <1>2, <4>3, ClientPlace
      <4> QED  BY <1>2, <2>0, <4>1, <4>2, <4>4, OwesClient
    <3> QED  BY <3>1, <3>2
  <2>2. CASE i \notin used
    <3>1. NextMsgId(d)  BY <1>2, <2>2, HoldsClient
    <3>2. id'[d] = i /\ pc'[d] = "tuple"
      BY <2>2, <3>1 DEF NextMsgId, DataType, CallType
    <3> QED  BY <3>2 DEF Owes
  <2> QED  BY <2>1, <2>2
<1>3. ASSUME UNCHANGED <<drv, used, scrubq, kind, pc, id, tgt, stm, res, opq, resultmap>>
      PROVE  i \in Queued(scrubq') \/ \E c \in Calls : id'[c] = i /\ Owes(c)'
  BY <1>1, <1>3 DEF Owes, KeepsId, AbandonedBy, IsSearch
<1>4. CASE ServerStep
  BY <1>3, <1>4, ServerFrame DEF msgvars, callvars, streamvars, mapvars, queuevars
<1>5. CASE DropHandles \/ UNCHANGED vars
  BY <1>3, <1>5 DEF DropHandles, vars, msgvars, callvars, streamvars, mapvars, queuevars
<1>6. CASE DriverStep
  <2>1. ~DriverEnds  BY DriverEndsStop DEF Stop
  <2>2. /\ used' \subseteq used /\ drv = "running"
        /\ \/ UNCHANGED scrubq
           \/ scrubq # <<>> /\ scrubq' = Tail(scrubq) /\ used' = used \ {Head(scrubq)}
    <3>1. CASE DrvScrub \/ DrvSearchItem \/ DrvResult \/ DrvUnmatched
      BY <3>1
      DEF DrvScrub, DrvSearchItem, DrvResult, DrvUnmatched, NextResp, Stop, msgvars, queuevars
    <3>2. ASSUME NEW d \in Calls,
                 DrvSingle(d) \/ DrvSearch(d) \/ DrvAbandon(d) \/ DrvUnbind(d) \/ DrvMisc(d)
          PROVE  used' \subseteq used /\ drv = "running" /\ UNCHANGED scrubq
      BY <3>2 DEF DrvSingle, DrvSearch, DrvAbandon, DrvUnbind, DrvMisc, TakeOp, msgvars
    <3> QED
      BY <1>6, <2>1, <3>1, <3>2
      DEF DriverStep, ScrubBranch, OpBranch, MiscBranch, StreamBranch, DriverEnds
  <2>3. CASE i \in Queued(scrubq)
    <3>1. CASE UNCHANGED scrubq  BY <2>3, <3>1
    <3>2. CASE scrubq # <<>> /\ scrubq' = Tail(scrubq) /\ used' = used \ {Head(scrubq)}
      <4>1. i # Head(scrubq)  BY <3>2
      <4>2. i \in Queued(Tail(scrubq))  BY <1>0, <2>3, <3>2, <4>1, QueuedTail
      <4> QED  BY <3>2, <4>2
    <3> QED  BY <2>2, <3>1, <3>2
  <2>4. CASE i \notin Queued(scrubq)
    <3>1. PICK c \in Calls : id[c] = i /\ Owes(c)  BY <1>1, <2>2, <2>4
    <3> QED  BY <1>6, <2>2, <3>1, OwesDriver
  <2> QED  BY <2>3, <2>4
<1> QED  BY <1>2, <1>4, <1>5, <1>6, Steps

-----------------------------------------------------------------------------
(* How a stream comes to panic *)

\* The receiver of a Search exists from next_msgid until its result is read, and
\* a stream that has no receiver and is still Active is a direct one.
OpenReads ==
    \A c \in Calls :
        /\ IsSearch(c) /\ pc[c] \in {"tuple", "wait"} => rx[c]
        /\ stm[c] = "Active" => rx[c] \/ (kind[c] = "Direct" /\ res[c])
        /\ stm[c] = "Panicked" => kind[c] = "Direct" /\ res[c]

\* What a caller does to a stream, in terms of OpenReads.
ReadStep(c) ==
    /\ kind'[c] = kind[c] /\ (res[c] => res'[c])
    /\ \/ pc'[c] = pc[c] \/ pc'[c] \in Returned
       \/ pc'[c] = "tuple" /\ (IsSearch(c) => rx'[c])
       \/ pc'[c] = "wait" /\ (pc[c] = "tuple" \/ ~IsSearch(c)) /\ rx'[c] = rx[c]
    /\ rx'[c] = rx[c] \/ rx'[c] = IsSearch(c) \/ pc'[c] \in Returned
    /\ \/ stm'[c] = stm[c] /\ (rx'[c] = rx[c] \/ stm[c] # "Active" \/ (kind[c] = "Direct" /\ res'[c]))
       \/ stm'[c] = "Active" /\ rx'[c] = rx[c] /\ (stm[c] = "Active" \/ (pc[c] = "wait" /\ IsSearch(c)))
       \/ stm'[c] = "Panicked" /\ stm[c] = "Active" /\ ~rx[c]
       \/ stm'[c] \in {"Done", "Error", "Closed", "Dropped"}

LEMMA ClientReads ==
    ASSUME FlagType, DataType, Lifecycle, NEW c \in Calls, NEW d \in Calls, Client(d)
    PROVE  ReadStep(c)
<1> USE DEF DataType, CallType, StreamType, msgvars, callvars, streamvars, ReadStep
<1>0. /\ "Active" \in OpenStates /\ Returned = {"ok", "failed", "timedout", "cancelled", "panicked"}
      /\ stm[d] \in OpenStates => pc[d] = "ok"
      /\ rx \in [Calls -> BOOLEAN] /\ res \in [Calls -> BOOLEAN]
      /\ kind \in [Calls -> AllKinds] /\ pc \in [Calls -> PCs] /\ stm \in [Calls -> StreamStates]
  BY DEF Lifecycle, OpenStates, Returned, FlagType
<1> USE <1>0
<1>1. CASE NextMsgId(d)
  <2>1. /\ UNCHANGED <<kind, stm, res>> /\ rx' = [rx EXCEPT ![d] = IsSearch(d)]
        /\ pc[d] = "idle" /\ pc' = [pc EXCEPT ![d] = "tuple"] /\ stm[d] # "Active"
    BY <1>1 DEF NextMsgId
  <2>2. CASE c = d  BY <2>1, <2>2
  <2>3. CASE c # d  BY <2>1, <2>3
  <2> QED  BY <2>2, <2>3
<1>2. CASE NextMsgIdPanics(d)
  <2>1. /\ UNCHANGED <<kind, rx, res>> /\ pc' = [pc EXCEPT ![d] = "panicked"] /\ stm' = StreamLost(d)
    BY <1>2 DEF NextMsgIdPanics
  <2> QED  BY <2>1 DEF StreamLost
<1>3. CASE SendOp(d) \/ SendMisc(d)
  <2>1. /\ UNCHANGED <<kind, rx, res, stm>> /\ pc' = [pc EXCEPT ![d] = "wait"]
        /\ pc[d] = "tuple" \/ kind[d] = "Cert"
    BY <1>3 DEF SendOp, SendMisc
  <2> QED  BY <2>1 DEF IsSearch, SearchKinds
<1>4. CASE SendFails(d) \/ RecvError(d) \/ Timeout(d) \/ Cancel(d)
  <2>1. /\ UNCHANGED <<kind, res>> /\ rx' = [rx EXCEPT ![d] = FALSE] /\ stm' = StreamLost(d)
        /\ \E p \in Returned : pc' = [pc EXCEPT ![d] = p]
        /\ pc[d] # "ok"
    BY <1>4 DEF SendFails, RecvError, Timeout, Cancel
  <2>2. stm[d] # "Active"  BY <2>1
  <2> QED  BY <2>1, <2>2 DEF StreamLost
<1>5. CASE RecvResult(d)
  <2>1. /\ UNCHANGED <<kind, res, rx>> /\ pc[d] = "wait" /\ pc' = [pc EXCEPT ![d] = "ok"]
        /\ stm' = [stm EXCEPT ![d] = IF IsSearch(d) THEN "Active" ELSE @]
    BY <1>5 DEF RecvResult
  <2> QED  BY <2>1
<1>6. CASE StreamNext(d)
  <2>1. UNCHANGED <<kind, pc>>  BY <1>6 DEF StreamNext
  <2>2. \/ UNCHANGED <<res, rx, stm>>
        \/ /\ res' = [res EXCEPT ![d] = TRUE] /\ rx' = [rx EXCEPT ![d] = FALSE]
           /\ stm' = [stm EXCEPT ![d] = IF kind[d] = "Adapted" THEN "Done" ELSE @]
    BY <1>6 DEF StreamNext
  <2>3. pc[d] = "ok"  BY <1>6 DEF StreamNext
  <2>4. kind[d] = "Direct" \/ kind[d] = "Adapted"
    BY <1>6 DEF StreamNext, Lifecycle, IsSearch, SearchKinds
  <2>5. CASE UNCHANGED <<res, rx, stm>>  BY <2>1, <2>5
  <2>6. CASE c # d  BY <2>1, <2>2, <2>6
  <2>7. ASSUME c = d, res' = [res EXCEPT ![d] = TRUE], rx' = [rx EXCEPT ![d] = FALSE],
               stm' = [stm EXCEPT ![d] = IF kind[d] = "Adapted" THEN "Done" ELSE @]
        PROVE  ReadStep(c)
    <3>1. res'[c] /\ pc'[c] \in Returned  BY <2>1, <2>3, <2>7
    <3>2. stm'[c] = IF kind[c] = "Adapted" THEN "Done" ELSE stm[c]  BY <2>7
    <3> QED  BY <2>1, <2>4, <2>7, <3>1, <3>2
  <2> QED  BY <2>2, <2>5, <2>6, <2>7
<1>7. CASE StreamEndOfStream(d) \/ StreamFinish(d) \/ StreamDrop(d)
  <2>1. /\ UNCHANGED <<kind, res, pc>> /\ rx' = [rx EXCEPT ![d] = FALSE] /\ pc[d] = "ok"
        /\ \E s \in {"Error", "Closed", "Dropped"} : stm' = [stm EXCEPT ![d] = s]
    BY <1>7 DEF StreamEndOfStream, StreamFinish, StreamDrop
  <2> QED  BY <2>1
<1>8. CASE StreamTimeout(d) \/ StreamNextPanics(d)
  <2>1. UNCHANGED <<kind, res, pc, rx>>  BY <1>8 DEF StreamTimeout, StreamNextPanics
  <2>2. \/ stm' = [stm EXCEPT ![d] = "Error"]
        \/ stm' = [stm EXCEPT ![d] = "Panicked"] /\ stm[d] = "Active" /\ ~rx[d]
    BY <1>8 DEF StreamTimeout, StreamNextPanics
  <2> QED  BY <2>1, <2>2
<1> QED  BY <1>1, <1>2, <1>3, <1>4, <1>5, <1>6, <1>7, <1>8 DEF Client

LEMMA OpenReadsStep ==
    ASSUME FlagType, DataType, Lifecycle, OpenReads, [Next]_vars
    PROVE  OpenReads'
<1>1. CASE UNCHANGED <<kind, pc, rx, res, stm>>  BY <1>1 DEF OpenReads, IsSearch
<1>2. ASSUME NEW d \in Calls, Client(d) PROVE OpenReads'
  <2> SUFFICES ASSUME NEW c \in Calls
               PROVE  /\ (IsSearch(c) /\ pc[c] \in {"tuple", "wait"} => rx[c])'
                      /\ stm'[c] = "Active" => rx'[c] \/ (kind'[c] = "Direct" /\ res'[c])
                      /\ stm'[c] = "Panicked" => kind'[c] = "Direct" /\ res'[c]
    BY DEF OpenReads
  <2>1. ReadStep(c)  BY <1>2, ClientReads
  <2>2. /\ IsSearch(c) /\ pc[c] \in {"tuple", "wait"} => rx[c]
        /\ stm[c] = "Active" => rx[c] \/ (kind[c] = "Direct" /\ res[c])
        /\ stm[c] = "Panicked" => kind[c] = "Direct" /\ res[c]
    BY DEF OpenReads
  <2>3. IsSearch(c)' <=> IsSearch(c)  BY <2>1 DEF ReadStep, IsSearch
  <2>4. \A p \in Returned : p # "tuple" /\ p # "wait"  BY DEF Returned
  <2>5. (IsSearch(c) /\ pc[c] \in {"tuple", "wait"} => rx[c])'
    BY <2>1, <2>2, <2>3, <2>4 DEF ReadStep
  <2>6. stm'[c] = "Active" => rx'[c] \/ (kind'[c] = "Direct" /\ res'[c])
    BY <2>1, <2>2 DEF ReadStep
  <2>7. stm'[c] = "Panicked" => kind'[c] = "Direct" /\ res'[c]
    BY <2>1, <2>2 DEF ReadStep
  <2> QED  BY <2>5, <2>6, <2>7
<1>3. CASE ServerStep  BY <1>1, <1>3, ServerFrame DEF callvars, streamvars
<1>4. CASE DriverStep  BY <1>1, <1>4, DriverFrame
<1>5. CASE DropHandles \/ UNCHANGED vars
  BY <1>1, <1>5 DEF DropHandles, vars, callvars, streamvars
<1> QED  BY <1>2, <1>3, <1>4, <1>5, Steps

-----------------------------------------------------------------------------
(* The theorems *)

EndInv == Inv /\ CallerInv /\ WaitsServed /\ CountInv /\ DrainInv

LEMMA EndAlways == Spec => []EndInv
<1>1. Init => EndInv
  <2>1. Init => WaitsServed  BY DEF Init, WaitsServed
  <2> QED  BY <2>1, InitInv, InitCaller, InitCount, InitDrain DEF EndInv
<1>2. EndInv /\ [Next]_vars => EndInv'
  <2> SUFFICES ASSUME EndInv, [Next]_vars PROVE EndInv'
    OBVIOUS
  <2> USE DEF EndInv, DrainInv
  <2>1. Inv' /\ CallerInv'  BY InvStep, CallerStep
  <2>2. WaitsServed' /\ CountInv'  BY WaitsStep, CountStep
  <2>3. AbandonedUnfiled' /\ FiledServed' /\ UsedOwed'
    BY AbandonedUnfiledStep, FiledServedStep, UsedOwedStep
  <2> QED  BY <2>1, <2>2, <2>3
<1> QED  BY <1>1, <1>2, PTL DEF Spec

\* LdapError::ResultRecv on a live connection: whatever the other handles scrub
\* or abandon, the sender that a waiting op_call depends on stays in the queue
\* or in resultmap unless some handle abandoned that very operation, or the
\* driver could not get the certificate asked for.
THEOREM NoReplyLost == Spec => []NoSpuriousLoss
<1>1. EndInv => NoSpuriousLoss
  <2> SUFFICES ASSUME EndInv, drv = "running", ~IdsAmbiguous, NEW c \in Calls,
                      pc[c] = "wait", oneshot[c] = NoCall, ~SenderAlive(c), kind[c] # "Cert"
               PROVE  \E d \in Calls : AbandonedBy(d, c)
    BY DEF NoSpuriousLoss
  <2>1. id[c] \in Ids  BY DEF EndInv, Inv, TypeInv, DataType, IdAssigned
  <2> QED  BY <2>1 DEF EndInv, WaitsServed, SenderAlive
<1> QED  BY <1>1, EndAlways, PTL

\* SearchStream::next: a stream that has its final result has returned each
\* entry the server sent exactly once, whatever scrubs, Abandons and timeouts of
\* other operations the driver handled in between.
THEOREM StreamsComplete == Spec => []StreamComplete
<1>1. EndInv => StreamComplete
  <2> SUFFICES ASSUME EndInv, ~IdsAmbiguous, NEW c \in Calls, res[c]
               PROVE  got[c] = sent[c]
    BY DEF StreamComplete
  <2> USE DEF EndInv, Inv, TypeInv, HeldInv, CountInv
  <2>1. Total(c) = sent[c]  BY DEF Counted, Ended
  <2>2. items[c] = <<>>  BY DEF EndLast
  <2>3. Count(items[c], EntryOf(c)) = 0
    <3>1. \A k \in DOMAIN items[c] : items[c][k] # EntryOf(c)  BY <2>2
    <3> QED  BY <3>1, CountNone
  <2>4. Count(wire, EntryOf(c)) = 0
    <3>1. ~OnWire(c)  BY DEF EndSeen
    <3> QED  BY <3>1, NotOnWire
  <2>5. got[c] \in Nat  BY DEF DataType, StreamType
  <2> QED  BY <2>1, <2>3, <2>4, <2>5 DEF Total
<1> QED  BY <1>1, EndAlways, PTL

\* The id-scrubbing protocol between the handles and turn() at rest: in
\* whatever order requests, responses, scrubs and Abandons met, no sender is left
\* in resultmap or searchmap, and the only ids still in use are those of the
\* operations that by KeepsId never release theirs.
THEOREM Drains == Spec => []DrainsWhenQuiescent
<1>1. EndInv => DrainsWhenQuiescent
  <2> SUFFICES ASSUME EndInv, Quiescent
               PROVE  /\ \A i \in Ids : resultmap[i] = NoCall /\ searchmap[i] = NoCall
                      /\ used \subseteq {id[c] : c \in {d \in Calls : KeepsId(d)}}
    BY DEF DrainsWhenQuiescent
  <2> USE DEF EndInv, Inv, TypeInv, DataType, DrainInv
  <2>1. /\ drv = "running" /\ peer = "open" /\ opq = <<>> /\ scrubq = <<>>
        /\ wire = <<>> /\ srv = {}
        /\ \A c \in Calls : pc[c] \in Returned \cup {"idle"} /\ stm[c] \notin OpenStates
    BY DEF Quiescent
  <2>2. \A c \in Calls : ~Filed(c)  BY <2>1 DEF FiledServed, FinalOnWire
  <2>3. \A i \in Ids : resultmap[i] = NoCall /\ searchmap[i] = NoCall
    BY <2>2 DEF Filed, DriverType
  <2>4. ASSUME NEW i \in used PROVE \E c \in Calls : id[c] = i /\ KeepsId(c)
    <3>1. i \in Ids  BY DEF MsgType
    <3>2. i \notin Queued(scrubq)  BY <2>1 DEF Queued
    <3>3. PICK c \in Calls : id[c] = i /\ Owes(c)  BY <2>1, <3>2 DEF UsedOwed
    <3>4. pc[c] # "tuple" /\ pc[c] # "wait"  BY <2>1 DEF Returned
    <3>5. c \notin Queued(opq)  BY <2>1 DEF Queued
    <3>6. resultmap[id[c]] # c  BY <2>3, <3>1, <3>3, CallsAssumption
    <3> QED  BY <2>1, <3>3, <3>4, <3>5, <3>6 DEF Owes
  <2> QED  BY <2>3, <2>4
<1> QED  BY <1>1, EndAlways, PTL

\* No step of turn() (a scrub, an Abandon, a final response) returns to
\* next_msgid the id of an operation that is queued or in the server's hands,
\* unless its own caller has given it up.
THEOREM ReleasesFinished == Spec => ReleasesOnlyFinished
<1>1. EndInv /\ [Next]_vars =>
        [\A c \in Calls :
          (id[c] \in used \ used' /\ ~IdsAmbiguous /\ c \notin givenUp)
              => c \notin srv' /\ c \notin Queued(opq')]_vars
  BY ReleaseStep DEF EndInv
<1> QED  BY <1>1, EndAlways, PTL DEF Spec, ReleasesOnlyFinished

\* Where the assertion of next_msgid holds for a connection at rest (finding 1): as long as
\* the operations that never release their ids leave one, with every Search read to its
\* end and finished, a slot is free.  Without adapted streams, Abandons and Unbinds all are.
THEOREM SlotsFree ==
    Spec => []((\E i \in Ids : \A c \in Calls : KeepsId(c) => id[c] # i)
                  => SlotFreeWhenQuiescent)
<1>1. DrainsWhenQuiescent =>
        ((\E i \in Ids : \A c \in Calls : KeepsId(c) => id[c] # i) => SlotFreeWhenQuiescent)
  BY DEF DrainsWhenQuiescent, SlotFreeWhenQuiescent
<1> QED  BY <1>1, Drains, PTL

\* When next() panics (finding 2): only on a direct stream that has its final result, so
\* only when the user calls it again after its Ok(None); never on a stream with adapters,
\* and never where the connection or a timeout ended the stream (search.rs, next_inner).
THEOREM PanicsAfterEnd ==
    Spec => [](\A c \in Calls : stm[c] = "Panicked" => kind[c] = "Direct" /\ res[c])
<1>1. Init => OpenReads  BY DEF Init, OpenReads
<1>2. EndInv /\ OpenReads /\ [Next]_vars => OpenReads'
  BY OpenReadsStep DEF EndInv, Inv, TypeInv, LifeInv
<1>3. OpenReads => \A c \in Calls : stm[c] = "Panicked" => kind[c] = "Direct" /\ res[c]
  BY DEF OpenReads
<1> QED  BY <1>1, <1>2, <1>3, EndAlways, PTL DEF Spec
=============================================================================
