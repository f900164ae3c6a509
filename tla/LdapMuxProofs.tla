---------------------------- MODULE LdapMuxProofs ----------------------------
(***************************************************************************)
(* Theorems about LdapMux, for every set of calls, every workload and      *)
(* every number of message ids.                                            *)
(***************************************************************************)
EXTENDS LdapMux, TLAPS

-----------------------------------------------------------------------------
(* Type correctness *)

\* What TypeOK needs to be inductive: a scrub is sent only by calls that have
\* been given an id.
IdAssigned ==
    \A c \in Calls :
        /\ pc[c] \in {"tuple", "wait"} /\ kind[c] # "Cert" => id[c] \in Ids
        /\ stm[c] \in OpenStates => id[c] \in Ids

\* The part of the type invariant that is not about flags.  (The flags are
\* kept apart: the SMT backend does not mix Boolean values and arithmetic.)
DataType == MsgType /\ CallType /\ StreamType /\ DriverType /\ NetType /\ IdAssigned

LEMMA InitType == Init => FlagType /\ DataType
<1> SUFFICES ASSUME Init PROVE FlagType /\ DataType
  OBVIOUS
<1> USE DEF Init
<1>1. FlagType    BY DEF FlagType
<1>2. MsgType     BY MaxIdAssumption DEF MsgType, Ids
<1>3. CallType    BY MaxIdAssumption, WorkloadsAssumption DEF CallType, PCs
<1>4. StreamType  BY DEF StreamType, StreamStates
<1>5. DriverType  BY DEF DriverType, Ids
<1>6. NetType     BY MaxEntriesAssumption DEF NetType
<1>7. IdAssigned  BY DEF IdAssigned, OpenStates
<1> QED  BY <1>1, <1>2, <1>3, <1>4, <1>5, <1>6, <1>7 DEF DataType

LEMMA QueueTail ==
    ASSUME NEW S, NEW q \in Seq(S), q # <<>>
    PROVE  Head(q) \in S /\ Tail(q) \in Seq(S)
OBVIOUS

LEMMA ScrubSentType ==
    ASSUME DriverType, NEW c \in Calls, id[c] \in Ids
    PROVE  ScrubSent(c) \in Seq(Ids)
<1>1. scrubq \in Seq(Ids)  BY DEF DriverType
<1>2. Append(scrubq, id[c]) \in Seq(Ids)  BY <1>1
<1> QED  BY <1>1, <1>2 DEF ScrubSent

\* The steps of one caller.
LEMMA ClientType ==
    ASSUME DataType, NEW c \in Calls, Client(c)
    PROVE  DataType'
<1> USE MaxIdAssumption, MaxEntriesAssumption, CallsAssumption
    DEF DataType, MsgType, CallType, StreamType, DriverType, NetType,
        IdAssigned, Ids, PCs, StreamStates, OpenStates,
        AllKinds, SearchKinds, IsSearch, msgvars, callvars, streamvars, mapvars,
        queuevars, netvars
<1>1. CASE NextMsgId(c)
  <2> USE <1>1 DEF NextMsgId
  <2>1. MsgType'  BY DEF MsgType
  <2>2. CallType'
    <3>1. id' \in [Calls -> 0..MaxId]  OBVIOUS
    <3>2. tgt' \in [Calls -> 0..MaxId]
      <4>1. CASE UNCHANGED tgt  BY <4>1
      <4>2. CASE \E t \in Calls : tgt' = [tgt EXCEPT ![c] = id[t]]  BY <4>2
      <4> QED  BY <4>1, <4>2
    <3>3. pc' \in [Calls -> PCs]  OBVIOUS
    <3> QED  BY <3>1, <3>2, <3>3 DEF CallType
  <2>3. StreamType'  BY DEF StreamType
  <2>4. DriverType'  BY DEF DriverType
  <2>5. NetType'  BY DEF NetType
  <2>6. IdAssigned'  BY DEF IdAssigned
  <2> QED  BY <2>1, <2>2, <2>3, <2>4, <2>5, <2>6 DEF DataType
<1>2. CASE NextMsgIdPanics(c)  BY <1>2 DEF NextMsgIdPanics, StreamLost
<1>3. CASE SendOp(c)           BY <1>3, SMTT(30) DEF SendOp
<1>4. CASE SendFails(c)        BY <1>4 DEF SendFails, StreamLost
<1>5. CASE SendMisc(c)         BY <1>5, SMTT(30) DEF SendMisc
<1>6. CASE RecvResult(c)       BY <1>6 DEF RecvResult
<1>7. CASE RecvError(c)        BY <1>7 DEF RecvError, StreamLost
<1>8. CASE Timeout(c)
  <2> USE <1>8 DEF Timeout, StreamLost
  <2>1. MsgType'  BY DEF MsgType
  <2>2. CallType'  BY DEF CallType
  <2>3. StreamType'  BY DEF StreamType
  <2>4. DriverType'  BY ScrubSentType DEF DriverType
  <2>5. NetType'  BY DEF NetType
  <2>6. IdAssigned'  BY DEF IdAssigned
  <2> QED  BY <2>1, <2>2, <2>3, <2>4, <2>5, <2>6 DEF DataType
<1>9. CASE Cancel(c)
  <2> USE <1>9 DEF Cancel, StreamLost
  <2>1. MsgType'  BY DEF MsgType
  <2>2. CallType'  BY DEF CallType
  <2>3. StreamType'  BY DEF StreamType
  <2>4. DriverType'  BY DEF DriverType
  <2>5. NetType'  BY DEF NetType
  <2>6. IdAssigned'  BY DEF IdAssigned
  <2> QED  BY <2>1, <2>2, <2>3, <2>4, <2>5, <2>6 DEF DataType
<1>10. CASE StreamNext(c)
  <2> USE <1>10 DEF StreamNext
  <2>1. MsgType'  BY DEF MsgType
  <2>2. CallType'  BY DEF CallType
  <2>3. StreamType'
    <3>1. Tail(items[c]) \in Seq(Messages)  BY QueueTail
    <3>2. items' \in [Calls -> Seq(Messages)]  BY <3>1
    <3>3. stm' \in [Calls -> StreamStates]  OBVIOUS
    <3>4. got' \in [Calls -> Nat]
      <4>1. CASE UNCHANGED got  BY <4>1
      <4>2. CASE got' = [got EXCEPT ![c] = @ + 1]  BY <4>2, SMTT(30)
      <4> QED  BY <4>1, <4>2
    <3> QED  BY <3>2, <3>3, <3>4 DEF StreamType
  <2>4. DriverType'  BY DEF DriverType
  <2>5. NetType'  BY DEF NetType
  <2>6. IdAssigned'  BY DEF IdAssigned
  <2> QED  BY <2>1, <2>2, <2>3, <2>4, <2>5, <2>6 DEF DataType
<1>11. CASE StreamEndOfStream(c)  BY <1>11 DEF StreamEndOfStream
<1>12. CASE StreamTimeout(c)
  <2> USE <1>12 DEF StreamTimeout
  <2>1. MsgType'  BY DEF MsgType
  <2>2. CallType'  BY DEF CallType
  <2>3. StreamType'  BY DEF StreamType
  <2>4. DriverType'  BY ScrubSentType DEF DriverType
  <2>5. NetType'  BY DEF NetType
  <2>6. IdAssigned'  BY DEF IdAssigned
  <2> QED  BY <2>1, <2>2, <2>3, <2>4, <2>5, <2>6 DEF DataType
<1>13. CASE StreamNextPanics(c)  BY <1>13 DEF StreamNextPanics
<1>14. CASE StreamFinish(c)
  <2> USE <1>14 DEF StreamFinish
  <2>1. MsgType'  BY DEF MsgType
  <2>2. CallType'  BY DEF CallType
  <2>3. StreamType'  BY DEF StreamType
  <2>4. DriverType'  BY ScrubSentType DEF DriverType
  <2>5. NetType'  BY DEF NetType
  <2>6. IdAssigned'  BY DEF IdAssigned
  <2> QED  BY <2>1, <2>2, <2>3, <2>4, <2>5, <2>6 DEF DataType
<1>15. CASE StreamDrop(c)      BY <1>15, SMTT(30) DEF StreamDrop
<1> QED
  BY <1>1, <1>2, <1>3, <1>4, <1>5, <1>6, <1>7, <1>8, <1>9, <1>10, <1>11,
     <1>12, <1>13, <1>14, <1>15 DEF Client

LEMMA WithoutType ==
    ASSUME NEW i, NEW map \in [Ids -> Calls \cup {NoCall}]
    PROVE  Without(map, i) \in [Ids -> Calls \cup {NoCall}]
BY DEF Without

\* The connection is dropped and nothing else changes but the oneshot.
LEMMA StopType ==
    ASSUME NetType, NEW how \in {"done", "failed", "panicked"}, Stop(how),
           UNCHANGED <<sock, peer, sent>>
    PROVE  DriverType' /\ NetType'
<1>1. DriverType'  BY DEF DriverType, Stop
<1>2. NetType'     BY DEF NetType, Stop
<1> QED  BY <1>1, <1>2

\* The steps that end the driver.
DriverEnds ==
    \/ DrvScrubPanics \/ DrvAbandonPanics \/ DrvSendFails \/ DrvNoHandles
    \/ DrvSearchPanics \/ DrvEof \/ DrvRecvFails

LEMMA DriverEndsStop ==
    ASSUME DriverEnds
    PROVE  /\ \E how \in {"done", "failed", "panicked"} : Stop(how)
           /\ UNCHANGED <<msgvars, callvars, streamvars, handles, sock, peer, sent,
                          givenUp>>
BY DEF DriverEnds, DrvScrubPanics, DrvAbandonPanics, DrvSendFails, DrvNoHandles,
       DrvSearchPanics, DrvEof, DrvRecvFails

LEMMA EndType ==
    ASSUME DataType, DriverEnds
    PROVE  DataType'
<1> USE DriverEndsStop DEF DataType, msgvars, callvars, streamvars
<1>1. MsgType'     BY DEF MsgType
<1>2. CallType'    BY DEF CallType
<1>3. StreamType'  BY DEF StreamType
<1>4. DriverType' /\ NetType'  BY StopType
<1>5. IdAssigned'  BY DEF IdAssigned
<1> QED  BY <1>1, <1>2, <1>3, <1>4, <1>5

\* The steps of the driver that let it go on, and DrvResult.
LEMMA DriverOpType ==
    ASSUME DataType, NEW c \in Calls,
           DrvSingle(c) \/ DrvSearch(c) \/ DrvAbandon(c) \/ DrvUnbind(c) \/ DrvMisc(c)
    PROVE  DataType'
<1> USE CallsAssumption
    DEF DataType, msgvars, callvars, streamvars, mapvars, queuevars, netvars
<1>1. CASE DrvSingle(c)
  <2> USE <1>1 DEF DrvSingle, TakeOp, ServerSees, FiledUnder
  <2>1. MsgType'  BY DEF MsgType
  <2>2. CallType'  BY DEF CallType
  <2>3. StreamType'  BY DEF StreamType
  <2>4. DriverType'
    <3>1. opq' \in Seq(Calls)  BY QueueTail DEF DriverType
    <3>2. resultmap' \in [Ids -> Calls \cup {NoCall}]  BY DEF DriverType
    <3> QED  BY <3>1, <3>2 DEF DriverType
  <2>5. NetType'  BY DEF NetType
  <2>6. IdAssigned'  BY DEF IdAssigned
  <2> QED  BY <2>1, <2>2, <2>3, <2>4, <2>5, <2>6 DEF DataType
<1>2. CASE DrvSearch(c)
  <2> USE <1>2 DEF DrvSearch, TakeOp, ServerSees, FiledUnder, Reply
  <2>1. MsgType'  BY DEF MsgType
  <2>2. CallType'  BY DEF CallType
  <2>3. StreamType'  BY DEF StreamType
  <2>4. DriverType'
    <3>1. opq' \in Seq(Calls)  BY QueueTail DEF DriverType
    <3>2. searchmap' \in [Ids -> Calls \cup {NoCall}]  BY DEF DriverType
    <3> QED  BY <3>1, <3>2 DEF DriverType
  <2>5. NetType'  BY DEF NetType
  <2>6. IdAssigned'  BY DEF IdAssigned
  <2> QED  BY <2>1, <2>2, <2>3, <2>4, <2>5, <2>6 DEF DataType
<1>3. CASE DrvAbandon(c)
  <2> USE <1>3 DEF DrvAbandon, TakeOp, Reply
  <2>1. MsgType'  BY DEF MsgType
  <2>2. CallType'  BY DEF CallType
  <2>3. StreamType'  BY DEF StreamType
  <2>4. DriverType'
    <3>1. opq' \in Seq(Calls)  BY QueueTail DEF DriverType
    <3>2. /\ resultmap' \in [Ids -> Calls \cup {NoCall}]
          /\ searchmap' \in [Ids -> Calls \cup {NoCall}]
      BY WithoutType DEF DriverType
    <3> QED  BY <3>1, <3>2 DEF DriverType
  <2>5. NetType'  BY DEF NetType
  <2>6. IdAssigned'  BY DEF IdAssigned
  <2> QED  BY <2>1, <2>2, <2>3, <2>4, <2>5, <2>6 DEF DataType
<1>4. CASE DrvUnbind(c)
  <2> USE <1>4 DEF DrvUnbind, TakeOp, Reply
  <2>1. MsgType'  BY DEF MsgType
  <2>2. CallType'  BY DEF CallType
  <2>3. StreamType'  BY DEF StreamType
  <2>4. DriverType'
    <3>1. opq' \in Seq(Calls)  BY QueueTail DEF DriverType
    <3> QED  BY <3>1 DEF DriverType
  <2>5. NetType'  BY DEF NetType
  <2>6. IdAssigned'  BY DEF IdAssigned
  <2> QED  BY <2>1, <2>2, <2>3, <2>4, <2>5, <2>6 DEF DataType
<1>5. CASE DrvMisc(c)
  <2> USE <1>5 DEF DrvMisc, Reply
  <2>1. MsgType'  BY DEF MsgType
  <2>2. CallType'  BY DEF CallType
  <2>3. StreamType'  BY DEF StreamType
  <2>4. DriverType'
    <3>1. miscq' \in Seq(Calls)  BY QueueTail DEF DriverType
    <3> QED  BY <3>1 DEF DriverType
  <2>5. NetType'  BY DEF NetType
  <2>6. IdAssigned'  BY DEF IdAssigned
  <2> QED  BY <2>1, <2>2, <2>3, <2>4, <2>5, <2>6 DEF DataType
<1> QED  BY <1>1, <1>2, <1>3, <1>4, <1>5

LEMMA DriverRespType ==
    ASSUME DataType, DrvScrub \/ DrvSearchItem \/ DrvResult \/ DrvUnmatched
    PROVE  DataType'
<1> USE CallsAssumption
    DEF DataType, msgvars, callvars, streamvars, mapvars, queuevars, netvars
<1>1. CASE DrvScrub
  <2> USE <1>1 DEF DrvScrub
  <2>1. MsgType'  BY DEF MsgType
  <2>2. CallType'  BY DEF CallType
  <2>3. StreamType'  BY DEF StreamType
  <2>4. DriverType'
    <3>1. scrubq' \in Seq(Ids)  BY QueueTail DEF DriverType
    <3>2. /\ resultmap' \in [Ids -> Calls \cup {NoCall}]
          /\ searchmap' \in [Ids -> Calls \cup {NoCall}]
      BY WithoutType DEF DriverType
    <3> QED  BY <3>1, <3>2 DEF DriverType
  <2>5. NetType'  BY DEF NetType
  <2>6. IdAssigned'  BY DEF IdAssigned
  <2> QED  BY <2>1, <2>2, <2>3, <2>4, <2>5, <2>6 DEF DataType
<1>a. wire # <<>> => /\ Head(wire) \in Messages
                    /\ Tail(wire) \in Seq(Messages)
  BY QueueTail DEF NetType
<1>b. DriverType => /\ Lookup(searchmap, MsgId(Head(wire))) \in Calls \cup {NoCall}
                   /\ Lookup(resultmap, MsgId(Head(wire))) \in Calls \cup {NoCall}
  BY DEF Lookup, DriverType
<1>2. CASE DrvSearchItem
  <2> USE <1>2 DEF DrvSearchItem, NextResp
  <2>1. MsgType'  BY DEF MsgType
  <2>2. CallType'  BY DEF CallType
  <2>3. StreamType'
    <3> DEFINE d == Lookup(searchmap, MsgId(Head(wire)))
    <3>0. d \in Calls  BY <1>b
    <3>1. items' \in [Calls -> Seq(Messages)]
      <4>1. CASE UNCHANGED items  BY <4>1 DEF StreamType
      <4>2. CASE items' = [items EXCEPT ![d] = Deliver(@, Head(wire))]
        <5>1. Deliver(items[d], Head(wire)) \in Seq(Messages)
          BY <1>a, <3>0 DEF StreamType, Deliver
        <5> QED  BY <4>2, <5>1, <3>0 DEF StreamType
      <4> QED  BY <4>1, <4>2
    <3> QED  BY <3>1 DEF StreamType
  <2>4. DriverType'  BY WithoutType DEF DriverType
  <2>5. NetType'  BY <1>a DEF NetType
  <2>6. IdAssigned'  BY DEF IdAssigned
  <2> QED  BY <2>1, <2>2, <2>3, <2>4, <2>5, <2>6 DEF DataType
<1>3. CASE DrvResult
  <2> USE <1>3 DEF DrvResult, NextResp
  <2>1. MsgType'  BY DEF MsgType
  <2>2. CallType'
    <3>1. Head(wire).from \in Calls \cup {NoCall}  BY <1>a DEF Messages
    <3>2. oneshot' \in [Calls -> Calls \cup {NoCall, Null}]
      BY <3>1, <1>b DEF CallType, Reply
    <3> QED  BY <3>2 DEF CallType
  <2>3. StreamType'  BY DEF StreamType
  <2>4. DriverType' /\ NetType'
    <3>1. CASE Stop("panicked")  BY <3>1, StopType
    <3>2. CASE ~poisoned
      <4>1. resultmap' \in [Ids -> Calls \cup {NoCall}]
        BY <3>2, WithoutType DEF DriverType
      <4>2. DriverType'  BY <3>2, <4>1 DEF DriverType
      <4>3. NetType'  BY <3>2, <1>a DEF NetType
      <4> QED  BY <4>2, <4>3
    <3> QED  BY <3>1, <3>2
  <2>5. IdAssigned'  BY DEF IdAssigned
  <2> QED  BY <2>1, <2>2, <2>3, <2>4, <2>5 DEF DataType
<1>4. CASE DrvUnmatched
  <2> USE <1>4 DEF DrvUnmatched, NextResp
  <2>1. MsgType'  BY DEF MsgType
  <2>2. CallType'  BY DEF CallType
  <2>3. StreamType'  BY DEF StreamType
  <2>4. DriverType'  BY DEF DriverType
  <2>5. NetType'  BY <1>a DEF NetType
  <2>6. IdAssigned'  BY DEF IdAssigned
  <2> QED  BY <2>1, <2>2, <2>3, <2>4, <2>5, <2>6 DEF DataType
<1> QED  BY <1>1, <1>2, <1>3, <1>4


\* The server's steps.
LEMMA ServerType ==
    ASSUME DataType, (\E c \in Calls : Server(c)) \/ SrvClose \/ SrvReset
    PROVE  DataType'
<1> USE DEF DataType, msgvars, callvars, streamvars, mapvars, queuevars
<1>1. ASSUME NEW c \in Calls, Server(c)
      PROVE  /\ UNCHANGED <<msgvars, callvars, streamvars, drv, mapvars, queuevars,
                            handles, givenUp>>
             /\ NetType'
  <2> USE DEF NetType
  <2>1. \A t \in {"result", "entry", "done", "notice"} :
          [from |-> c, tag |-> t] \in Messages
    BY DEF Messages
  <2>2. CASE SrvResult(c)  BY <2>1, <2>2 DEF SrvResult
  <2>3. CASE SrvEntry(c)
    BY <2>1, <2>3, MaxEntriesAssumption DEF SrvEntry
  <2>4. CASE SrvDone(c)    BY <2>1, <2>4 DEF SrvDone
  <2>5. CASE SrvForget(c)  BY <2>5 DEF SrvForget
  <2> QED  BY <1>1, <2>2, <2>3, <2>4, <2>5 DEF Server
<1>2. ASSUME SrvClose \/ SrvReset
      PROVE  /\ UNCHANGED <<msgvars, callvars, streamvars, drv, mapvars, queuevars,
                            handles, givenUp>>
             /\ NetType'
  <2>1. [from |-> NoCall, tag |-> "notice"] \in Messages  BY DEF Messages
  <2>2. CASE SrvClose  BY <2>1, <2>2 DEF SrvClose, NetType
  <2>3. CASE SrvReset  BY <2>3 DEF SrvReset, NetType
  <2> QED  BY <1>2, <2>2, <2>3
<1>3. /\ UNCHANGED <<msgvars, callvars, streamvars, drv, mapvars, queuevars,
                     handles, givenUp>>
      /\ NetType'
  BY <1>1, <1>2
<1>4. MsgType'     BY <1>3 DEF MsgType
<1>5. CallType'    BY <1>3 DEF CallType
<1>6. StreamType'  BY <1>3 DEF StreamType
<1>7. DriverType'  BY <1>3 DEF DriverType
<1>8. IdAssigned'  BY <1>3 DEF IdAssigned
<1> QED  BY <1>3, <1>4, <1>5, <1>6, <1>7, <1>8

LEMMA StutterType ==
    ASSUME DataType, DropHandles \/ UNCHANGED vars
    PROVE  DataType'
<1> USE DEF DataType, vars, msgvars, callvars, streamvars, mapvars, queuevars, netvars,
            DropHandles
<1>1. MsgType'     BY DEF MsgType
<1>2. CallType'    BY DEF CallType
<1>3. StreamType'  BY DEF StreamType
<1>4. DriverType'  BY DEF DriverType
<1>5. NetType'     BY DEF NetType
<1>6. IdAssigned'  BY DEF IdAssigned
<1> QED  BY <1>1, <1>2, <1>3, <1>4, <1>5, <1>6

LEMMA DataTypeStep == DataType /\ [Next]_vars => DataType'
<1> SUFFICES ASSUME DataType, [Next]_vars PROVE DataType'
  OBVIOUS
<1>1. ASSUME NEW c \in Calls, Client(c) PROVE DataType'  BY <1>1, ClientType
<1>2. CASE (\E c \in Calls : Server(c)) \/ SrvClose \/ SrvReset  BY <1>2, ServerType
<1>3. CASE ScrubBranch \/ OpBranch \/ MiscBranch \/ StreamBranch
  BY <1>3, DriverOpType, DriverRespType, EndType
  DEF ScrubBranch, OpBranch, MiscBranch, StreamBranch, DriverEnds
<1>4. CASE DropHandles \/ Finished \/ UNCHANGED vars
  BY <1>4, StutterType DEF Finished
<1> QED  BY <1>1, <1>2, <1>3, <1>4 DEF Next

LEMMA FlagTypeStep == FlagType /\ [Next]_vars => FlagType'
<1> SUFFICES ASSUME FlagType, [Next]_vars PROVE FlagType'
  OBVIOUS
<1> USE DEF FlagType, vars, msgvars, callvars, streamvars, mapvars, queuevars, netvars
<1>1. ASSUME NEW c \in Calls, Client(c) PROVE FlagType'
  <2>1. CASE NextMsgId(c)        BY <2>1 DEF NextMsgId, IsSearch
  <2>2. CASE NextMsgIdPanics(c)  BY <2>2 DEF NextMsgIdPanics
  <2>3. CASE SendOp(c) \/ SendFails(c) \/ SendMisc(c)
    BY <2>3 DEF SendOp, SendFails, SendMisc
  <2>4. CASE RecvResult(c) \/ RecvError(c) \/ Timeout(c) \/ Cancel(c)
    BY <2>4 DEF RecvResult, RecvError, Timeout, Cancel
  <2>5. CASE StreamNext(c)  BY <2>5 DEF StreamNext
  <2>6. CASE StreamEndOfStream(c) \/ StreamTimeout(c) \/ StreamNextPanics(c)
    BY <2>6 DEF StreamEndOfStream, StreamTimeout, StreamNextPanics
  <2>7. CASE StreamFinish(c) \/ StreamDrop(c)
    BY <2>7 DEF StreamFinish, StreamDrop
  <2> QED  BY <1>1, <2>1, <2>2, <2>3, <2>4, <2>5, <2>6, <2>7 DEF Client
<1>2. CASE (\E c \in Calls : Server(c)) \/ SrvClose \/ SrvReset
  BY <1>2, ZenonT(60) DEF Server, SrvResult, SrvEntry, SrvDone, SrvForget, SrvClose, SrvReset
<1>3. CASE DriverEnds  BY <1>3, DriverEndsStop
<1>4. CASE DrvScrub \/ DrvSearchItem \/ DrvResult \/ DrvUnmatched
  BY <1>4 DEF DrvScrub, DrvSearchItem, DrvResult, DrvUnmatched
<1>5. ASSUME NEW c \in Calls,
             DrvSingle(c) \/ DrvSearch(c) \/ DrvAbandon(c) \/ DrvUnbind(c) \/ DrvMisc(c)
      PROVE  FlagType'
  BY <1>5 DEF DrvSingle, DrvSearch, DrvAbandon, DrvUnbind, DrvMisc
<1>6. CASE DropHandles  BY <1>6 DEF DropHandles
<1>7. CASE UNCHANGED vars  BY <1>7
<1> QED
  BY <1>1, <1>2, <1>3, <1>4, <1>5, <1>6, <1>7
  DEF Next, Finished, ScrubBranch, OpBranch, MiscBranch, StreamBranch, DriverEnds

\* Type correctness, for any number of calls and ids: in particular the driver
\* is never asked to scrub an id that no operation was given, although last_id
\* of a new clone of the handle is zero.
THEOREM TypeCorrect == Spec => []TypeOK
<1>1. FlagType /\ DataType /\ [Next]_vars => (FlagType /\ DataType)'
  BY DataTypeStep, FlagTypeStep
<1>2. FlagType /\ DataType => TypeOK  BY DEF DataType, TypeOK
<1> QED  BY InitType, <1>1, <1>2, PTL DEF Spec

-----------------------------------------------------------------------------
(* Ids and maps *)

\* An id is assigned once, in ascending order.
AscendingIds ==
    /\ \A c \in Calls : pc[c] = "idle" => id[c] = 0
    /\ ~wrapped => \A c \in Calls :
        /\ id[c] <= last
        /\ \A d \in Calls : id[c] = id[d] /\ id[c] # 0 => c = d

\* A sender is filed under the id of its call, in the map for its kind.
MapsAgree ==
    \A i \in Ids, c \in Calls :
        /\ resultmap[i] = c => id[c] = i /\ kind[c] = "Single"
        /\ searchmap[i] = c => id[c] = i /\ IsSearch(c)

\* The server answers with messages of the right type.
WellTagged(m) ==
    \/ m.from = NoCall /\ m.tag = "notice"
    \/ m.from \in Calls /\ kind[m.from] = "Single" /\ m.tag = "result"
    \/ m.from \in Calls /\ IsSearch(m.from) /\ m.tag \in {"entry", "done"}

WireAgrees == \A k \in DOMAIN wire : WellTagged(wire[k])

LEMMA AscendingStep ==
    ASSUME DataType, FlagType, AscendingIds, [Next]_vars
    PROVE  AscendingIds'
<1> USE DEF AscendingIds, vars, msgvars, callvars, streamvars, mapvars, queuevars,
            netvars
<1>1. ASSUME NEW c \in Calls, NextMsgId(c) PROVE AscendingIds'
  <2>1. PICK n \in Ids : /\ last' = n
                         /\ id' = [id EXCEPT ![c] = n]
                         /\ wrapped' = (wrapped \/ n <= last)
    BY <1>1 DEF NextMsgId
  <2>2. pc[c] = "idle" /\ pc' = [pc EXCEPT ![c] = "tuple"]  BY <1>1 DEF NextMsgId
  <2>3. pc \in [Calls -> PCs] /\ id \in [Calls -> 0..MaxId] /\ last \in 0..MaxId
    BY DEF DataType, CallType, MsgType
  <2>4. \A d \in Calls : pc'[d] = "idle" => id'[d] = 0
    BY <2>1, <2>2, <2>3
  <2>5. ASSUME ~wrapped', NEW d \in Calls
        PROVE  /\ id'[d] <= last'
               /\ \A e \in Calls : id'[d] = id'[e] /\ id'[d] # 0 => d = e
    <3>1. ~wrapped /\ ~(n <= last)  BY <2>1, <2>5
    <3>2. n > last /\ n \in Nat  BY <3>1, <2>3, MaxIdAssumption DEF Ids
    <3>3. \A e \in Calls : id[e] <= last /\ id[e] \in Nat
      BY <3>1, <2>3, MaxIdAssumption
    <3>4. \A e \in Calls : id'[e] = IF e = c THEN n ELSE id[e]  BY <2>1, <2>3
    <3>5. \A e, f \in Calls : id[e] = id[f] /\ id[e] # 0 => e = f  BY <3>1
    <3> QED  BY <2>1, <2>3, <3>2, <3>3, <3>4, <3>5
  <2> QED  BY <2>4, <2>5
<1>2. ASSUME UNCHANGED <<id, last, wrapped>>,
             \A c \in Calls : pc'[c] = "idle" => pc[c] = "idle"
      PROVE  AscendingIds'
  BY <1>2
<1>3. ASSUME NEW c \in Calls, Client(c), ~NextMsgId(c)
      PROVE  /\ UNCHANGED <<id, last, wrapped>>
             /\ \A d \in Calls : pc'[d] = "idle" => pc[d] = "idle"
  <2> USE DEF DataType, CallType
  <2>2. CASE NextMsgIdPanics(c)  BY <2>2 DEF NextMsgIdPanics
  <2>3. CASE SendOp(c) \/ SendFails(c) \/ SendMisc(c)
    BY <2>3 DEF SendOp, SendFails, SendMisc
  <2>4. CASE RecvResult(c) \/ RecvError(c) \/ Timeout(c) \/ Cancel(c)
    BY <2>4 DEF RecvResult, RecvError, Timeout, Cancel
  <2>5. CASE StreamNext(c)  BY <2>5 DEF StreamNext
  <2>6. CASE StreamEndOfStream(c) \/ StreamTimeout(c) \/ StreamNextPanics(c)
    BY <2>6 DEF StreamEndOfStream, StreamTimeout, StreamNextPanics
  <2>7. CASE StreamFinish(c) \/ StreamDrop(c)
    BY <2>7 DEF StreamFinish, StreamDrop
  <2> QED  BY <1>3, <2>2, <2>3, <2>4, <2>5, <2>6, <2>7 DEF Client
<1>4. CASE (\E c \in Calls : Server(c)) \/ SrvClose \/ SrvReset
  BY <1>4, <1>2
  DEF Server, SrvResult, SrvEntry, SrvDone, SrvForget, SrvClose, SrvReset
<1>5. CASE DriverEnds  BY <1>5, <1>2, DriverEndsStop
<1>6. CASE DrvScrub \/ DrvSearchItem \/ DrvResult \/ DrvUnmatched
  BY <1>6, <1>2 DEF DrvScrub, DrvSearchItem, DrvResult, DrvUnmatched
<1>7. ASSUME NEW c \in Calls,
             DrvSingle(c) \/ DrvSearch(c) \/ DrvAbandon(c) \/ DrvUnbind(c) \/ DrvMisc(c)
      PROVE  AscendingIds'
  BY <1>7, <1>2 DEF DrvSingle, DrvSearch, DrvAbandon, DrvUnbind, DrvMisc
<1>8. CASE DropHandles \/ UNCHANGED vars  BY <1>8, <1>2 DEF DropHandles
<1> QED
  BY <1>1, <1>2, <1>3, <1>4, <1>5, <1>6, <1>7, <1>8
  DEF Next, Finished, ScrubBranch, OpBranch, MiscBranch, StreamBranch, DriverEnds

\* What a step of the callers leaves alone.
LEMMA ClientFrame ==
    ASSUME NEW c \in Calls, Client(c)
    PROVE  /\ UNCHANGED <<kind, drv, mapvars, netvars>>
           /\ id' = id \/ (pc[c] = "idle" /\ \E n \in Ids : id' = [id EXCEPT ![c] = n])
           /\ poisoned => poisoned'
           /\ wrapped => wrapped'
<1> USE DEF msgvars, callvars, streamvars, mapvars, queuevars, netvars
<1>1. CASE NextMsgId(c)        BY <1>1 DEF NextMsgId
<1>2. CASE NextMsgIdPanics(c)  BY <1>2 DEF NextMsgIdPanics
<1>3. CASE SendOp(c) \/ SendFails(c) \/ SendMisc(c)
  BY <1>3 DEF SendOp, SendFails, SendMisc
<1>4. CASE RecvResult(c) \/ RecvError(c) \/ Timeout(c) \/ Cancel(c)
  BY <1>4 DEF RecvResult, RecvError, Timeout, Cancel
<1>5. CASE StreamNext(c)  BY <1>5 DEF StreamNext
<1>6. CASE StreamEndOfStream(c) \/ StreamTimeout(c) \/ StreamNextPanics(c)
  BY <1>6 DEF StreamEndOfStream, StreamTimeout, StreamNextPanics
<1>7. CASE StreamFinish(c) \/ StreamDrop(c)
  BY <1>7 DEF StreamFinish, StreamDrop
<1> QED  BY <1>1, <1>2, <1>3, <1>4, <1>5, <1>6, <1>7 DEF Client

\* What a step of the driver or the server leaves alone.
DriverStep == ScrubBranch \/ OpBranch \/ MiscBranch \/ StreamBranch
ServerStep == (\E c \in Calls : Server(c)) \/ SrvClose \/ SrvReset

LEMMA ServerFrame ==
    ASSUME ServerStep
    PROVE  UNCHANGED <<msgvars, callvars, streamvars, drv, mapvars, queuevars, handles,
                       givenUp>>
BY DEF ServerStep, Server, SrvResult, SrvEntry, SrvDone, SrvForget, SrvClose, SrvReset

LEMMA DriverFrame ==
    ASSUME DriverStep
    PROVE  UNCHANGED <<last, poisoned, wrapped, kind, pc, id, tgt, stm, rx, res, got,
                       handles, peer, sent, givenUp>>
<1> USE DEF msgvars, callvars, streamvars, mapvars, queuevars, netvars
<1>1. CASE DriverEnds  BY <1>1, DriverEndsStop
<1>2. CASE DrvScrub \/ DrvSearchItem \/ DrvResult \/ DrvUnmatched
  BY <1>2 DEF DrvScrub, DrvSearchItem, DrvResult, DrvUnmatched
<1>3. ASSUME NEW c \in Calls,
             DrvSingle(c) \/ DrvSearch(c) \/ DrvAbandon(c) \/ DrvUnbind(c) \/ DrvMisc(c)
      PROVE  UNCHANGED <<last, poisoned, wrapped, kind, pc, id, tgt, stm, rx, res, got,
                         handles, peer, sent, givenUp>>
  BY <1>3 DEF DrvSingle, DrvSearch, DrvAbandon, DrvUnbind, DrvMisc
<1> QED
  BY <1>1, <1>2, <1>3
  DEF DriverStep, ScrubBranch, OpBranch, MiscBranch, StreamBranch, DriverEnds

LEMMA Steps ==
    ASSUME [Next]_vars
    PROVE  \/ \E c \in Calls : Client(c)
           \/ ServerStep
           \/ DriverStep
           \/ DropHandles
           \/ UNCHANGED vars
BY DEF Next, Finished, ServerStep, DriverStep

LEMMA MapsStep ==
    ASSUME DataType, AscendingIds, MapsAgree, [Next]_vars
    PROVE  MapsAgree'
<1> USE DEF MapsAgree, mapvars
<1>1. ASSUME NEW c \in Calls, Client(c) PROVE MapsAgree'
  <2>1. \A d \in Calls : id[d] \in Ids => id'[d] = id[d]
    BY <1>1, ClientFrame, MaxIdAssumption DEF AscendingIds, DataType, CallType, Ids
  <2> QED  BY <1>1, <2>1, ClientFrame DEF IsSearch
<1>2. ASSUME UNCHANGED <<kind, id, resultmap, searchmap>> PROVE MapsAgree'
  BY <1>2 DEF IsSearch
<1>3. CASE ServerStep  BY <1>3, <1>2, ServerFrame DEF callvars
<1>4. CASE DropHandles \/ UNCHANGED vars
  BY <1>4, <1>2 DEF DropHandles, vars, callvars
<1>5. CASE DriverStep
  <2> USE <1>5, DriverFrame, CallsAssumption DEF IsSearch
  <2>1. CASE DriverEnds  BY <2>1, DriverEndsStop DEF Stop
  <2>2. CASE DrvScrub  BY <2>2 DEF DrvScrub, Without
  <2>3. CASE DrvSearchItem  BY <2>3 DEF DrvSearchItem, Without
  <2>4. CASE DrvResult  BY <2>4 DEF DrvResult, Without, Stop
  <2>5. CASE DrvUnmatched  BY <2>5 DEF DrvUnmatched
  <2>6. ASSUME NEW c \in Calls,
               DrvSingle(c) \/ DrvSearch(c) \/ DrvAbandon(c) \/ DrvUnbind(c) \/ DrvMisc(c)
        PROVE  MapsAgree'
    <3> USE DEF DataType, DriverType
    <3>1. CASE DrvSingle(c)   BY <3>1 DEF DrvSingle, FiledUnder
    <3>2. CASE DrvSearch(c)   BY <3>2 DEF DrvSearch, FiledUnder
    <3>3. CASE DrvAbandon(c)  BY <3>3 DEF DrvAbandon, Without
    <3>4. CASE DrvUnbind(c) \/ DrvMisc(c)  BY <3>4 DEF DrvUnbind, DrvMisc
    <3> QED  BY <2>6, <3>1, <3>2, <3>3, <3>4
  <2> QED
    BY <2>1, <2>2, <2>3, <2>4, <2>5, <2>6
    DEF DriverStep, ScrubBranch, OpBranch, MiscBranch, StreamBranch, DriverEnds
<1> QED  BY <1>1, <1>3, <1>4, <1>5, Steps

LEMMA WireStep ==
    ASSUME DataType, WireAgrees, [Next]_vars
    PROVE  WireAgrees'
<1> USE DEF WireAgrees, WellTagged, IsSearch
<1>0. wire \in Seq(Messages)  BY DEF DataType, NetType
<1>1. ASSUME UNCHANGED kind,
             wire' = wire \/ wire' = <<>> \/ (wire # <<>> /\ wire' = Tail(wire))
      PROVE  WireAgrees'
  BY <1>0, <1>1
<1>2. ASSUME UNCHANGED kind, NEW m \in Messages, WellTagged(m), wire' = Append(wire, m)
      PROVE  WireAgrees'
  BY <1>0, <1>2
<1>3. ASSUME NEW c \in Calls, Client(c) PROVE WireAgrees'
  BY <1>3, <1>1, ClientFrame DEF netvars
<1>4. CASE DropHandles \/ UNCHANGED vars
  BY <1>4, <1>1 DEF DropHandles, vars, callvars, netvars
<1>5. CASE ServerStep
  <2>0. UNCHANGED kind  BY <1>5, ServerFrame DEF callvars
  <2>1. ASSUME NEW c \in Calls, Server(c) PROVE WireAgrees'
    <3> USE <2>0, <1>1, <1>2 DEF Messages
    <3>1. CASE SrvResult(c)  BY <3>1 DEF SrvResult
    <3>2. CASE SrvEntry(c)   BY <3>2 DEF SrvEntry
    <3>3. CASE SrvDone(c)    BY <3>3 DEF SrvDone
    <3>4. CASE SrvForget(c)  BY <3>4 DEF SrvForget
    <3> QED  BY <2>1, <3>1, <3>2, <3>3, <3>4 DEF Server
  <2>2. CASE SrvClose  BY <2>0, <2>2, <1>1, <1>2 DEF SrvClose, Messages
  <2>3. CASE SrvReset  BY <2>0, <2>3, <1>1 DEF SrvReset
  <2> QED  BY <1>5, <2>1, <2>2, <2>3 DEF ServerStep
<1>6. CASE DriverStep
  <2> USE <1>1, <1>6, DriverFrame DEF netvars
  <2>1. CASE DriverEnds  BY <2>1, DriverEndsStop DEF Stop
  <2>2. CASE DrvScrub  BY <2>2 DEF DrvScrub
  <2>3. CASE DrvSearchItem \/ DrvResult \/ DrvUnmatched
    BY <2>3 DEF DrvSearchItem, DrvResult, DrvUnmatched, NextResp, Stop
  <2>4. ASSUME NEW c \in Calls,
               DrvSingle(c) \/ DrvSearch(c) \/ DrvAbandon(c) \/ DrvUnbind(c) \/ DrvMisc(c)
        PROVE  WireAgrees'
    BY <2>4 DEF DrvSingle, DrvSearch, DrvAbandon, DrvUnbind, DrvMisc
  <2> QED
    BY <2>1, <2>2, <2>3, <2>4
    DEF DriverStep, ScrubBranch, OpBranch, MiscBranch, StreamBranch, DriverEnds
<1> QED  BY <1>3, <1>4, <1>5, <1>6, Steps

-----------------------------------------------------------------------------
(* The life of a request *)

OnWire(c) == \E k \in DOMAIN wire : wire[k].from = c
Filed(c) == \E i \in Ids : resultmap[i] = c \/ searchmap[i] = c

\* A request is queued at most once ...
QueuedOnce == \A j, k \in DOMAIN opq : opq[j] = opq[k] => j = k

\* ... then sent, and only then known to the server and the maps; its stream
\* is open only after the call has returned.
Lifecycle ==
    \A c \in Calls :
        /\ pc[c] \in {"idle", "tuple"} =>
              /\ c \notin Queued(opq) /\ c \notin srv /\ ~OnWire(c) /\ ~Filed(c)
        /\ c \in Queued(opq) => c \notin srv /\ ~OnWire(c) /\ ~Filed(c)
        /\ c \in Queued(opq) \/ pc[c] = "tuple" => kind[c] # "Cert"
        /\ stm[c] \in OpenStates => pc[c] = "ok" /\ IsSearch(c)

\* The server sends nothing for a request after its final message.
FinalIsLast ==
    \A k \in DOMAIN wire :
        wire[k].tag \in {"result", "done"} =>
            /\ wire[k].from \notin srv
            /\ \A j \in DOMAIN wire : j > k => wire[j].from # wire[k].from

LifeInv == QueuedOnce /\ Lifecycle /\ FinalIsLast

LEMMA InitLife == Init => LifeInv
<1> SUFFICES ASSUME Init PROVE LifeInv
  OBVIOUS
<1> USE CallsAssumption DEF Init
<1>1. QueuedOnce   BY DEF QueuedOnce
<1>2. Lifecycle    BY DEF Lifecycle, Queued, OnWire, Filed, OpenStates
<1>3. FinalIsLast  BY DEF FinalIsLast
<1> QED  BY <1>1, <1>2, <1>3 DEF LifeInv

\* The steps of a caller other than the first two.
LEMMA ClientMoves ==
    ASSUME DataType, Lifecycle, NEW c \in Calls, Client(c), ~NextMsgId(c), ~SendOp(c)
    PROVE  /\ UNCHANGED <<used, opq, id>>
           /\ \A d \in Calls : pc'[d] \in {"idle", "tuple"} => pc'[d] = pc[d]
           /\ \A d \in Calls : d # c => pc'[d] = pc[d] /\ stm'[d] = stm[d]
           /\ \A d \in Calls : stm'[d] \in OpenStates =>
                  \/ stm[d] \in OpenStates /\ pc'[d] = pc[d]
                  \/ pc[d] = "wait" /\ pc'[d] = "ok" /\ IsSearch(d)
           /\ \A d \in Calls : pc'[d] = "wait" => pc[d] = "wait" \/ kind[d] = "Cert"
<1> USE DEF DataType, CallType, StreamType, msgvars, callvars, streamvars, mapvars,
        queuevars, netvars
<1>1. /\ \A d \in Calls : stm[d] \in OpenStates => pc[d] = "ok" /\ IsSearch(d)
      /\ {"Done", "Error", "Active"} = OpenStates
  BY DEF Lifecycle, OpenStates
<1>2. CASE NextMsgIdPanics(c)  BY <1>1, <1>2 DEF NextMsgIdPanics, StreamLost
<1>3. CASE SendFails(c)  BY <1>1, <1>3 DEF SendFails, StreamLost
<1>4. CASE SendMisc(c)   BY <1>1, <1>4 DEF SendMisc
<1>5. CASE RecvResult(c)  BY <1>1, <1>5 DEF RecvResult
<1>6. CASE RecvError(c) \/ Timeout(c) \/ Cancel(c)
  BY <1>1, <1>6, ZenonT(60) DEF RecvError, Timeout, Cancel, StreamLost
<1>7. CASE StreamNext(c)  BY <1>1, <1>7, ZenonT(60) DEF StreamNext
<1>8. CASE StreamEndOfStream(c) \/ StreamTimeout(c) \/ StreamNextPanics(c)
  BY <1>1, <1>8 DEF StreamEndOfStream, StreamTimeout, StreamNextPanics
<1>9. CASE StreamFinish(c) \/ StreamDrop(c)
  BY <1>1, <1>9 DEF StreamFinish, StreamDrop
<1> QED  BY <1>2, <1>3, <1>4, <1>5, <1>6, <1>7, <1>8, <1>9 DEF Client

LEMMA QueuedAppend ==
    ASSUME NEW S, NEW q \in Seq(S), NEW x
    PROVE  Queued(Append(q, x)) = Queued(q) \cup {x}
<1> DEFINE a == Append(q, x)
<1>1. Len(q) \in Nat /\ DOMAIN q = 1..Len(q) /\ DOMAIN a = 1..(Len(q) + 1)
  OBVIOUS
<1>2. a[Len(q) + 1] = x /\ \A k \in DOMAIN q : a[k] = q[k]
  OBVIOUS
<1>3. \A k \in DOMAIN a : k = Len(q) + 1 \/ k \in DOMAIN q
  BY <1>1
<1>4. Len(q) + 1 \in DOMAIN a /\ \A k \in DOMAIN q : k \in DOMAIN a
  BY <1>1
<1> HIDE DEF a
<1>5. Queued(a) = Queued(q) \cup {x}
  BY <1>2, <1>3, <1>4 DEF Queued
<1> QED  BY <1>5 DEF a

LEMMA QueuedTail ==
    ASSUME NEW S, NEW q \in Seq(S), q # <<>>
    PROVE  /\ Queued(Tail(q)) \subseteq Queued(q)
           /\ Head(q) \in Queued(q)
           /\ Queued(q) = Queued(Tail(q)) \cup {Head(q)}
<1>1. Head(q) = q[1] /\ 1 \in DOMAIN q  OBVIOUS
<1>2. \A k \in DOMAIN Tail(q) : k + 1 \in DOMAIN q /\ Tail(q)[k] = q[k + 1]
  OBVIOUS
<1>3. \A k \in DOMAIN q : k = 1 \/ (k - 1 \in DOMAIN Tail(q) /\ Tail(q)[k - 1] = q[k])
  OBVIOUS
<1> DEFINE t == Tail(q)
           h == Head(q)
<1>4. /\ h = q[1] /\ 1 \in DOMAIN q
      /\ \A k \in DOMAIN t : k + 1 \in DOMAIN q /\ t[k] = q[k + 1]
      /\ \A k \in DOMAIN q : k = 1 \/ (k - 1 \in DOMAIN t /\ t[k - 1] = q[k])
  BY <1>1, <1>2, <1>3
<1> HIDE DEF t, h
<1>5. Queued(t) \subseteq Queued(q)  BY <1>4 DEF Queued
<1>6. h \in Queued(q)  BY <1>4 DEF Queued
<1>7. Queued(q) \subseteq Queued(t) \cup {h}
  <2> SUFFICES ASSUME NEW k \in DOMAIN q PROVE q[k] \in Queued(t) \cup {h}
    BY DEF Queued
  <2> QED  BY <1>4 DEF Queued
<1> QED  BY <1>5, <1>6, <1>7 DEF t, h

LEMMA QueuedTailOnce ==
    ASSUME NEW S, NEW q \in Seq(S), q # <<>>,
           \A j, k \in DOMAIN q : q[j] = q[k] => j = k
    PROVE  /\ Head(q) \notin Queued(Tail(q))
           /\ \A j, k \in DOMAIN Tail(q) : Tail(q)[j] = Tail(q)[k] => j = k
<1>1. Head(q) = q[1] /\ 1 \in DOMAIN q  OBVIOUS
<1>2. \A k \in DOMAIN Tail(q) : k + 1 \in DOMAIN q /\ Tail(q)[k] = q[k + 1] /\ k \in Nat \ {0}
  OBVIOUS
<1> QED  BY <1>1, <1>2 DEF Queued

LEMMA QueuedAppendOnce ==
    ASSUME NEW S, NEW q \in Seq(S), NEW x, x \notin Queued(q),
           \A j, k \in DOMAIN q : q[j] = q[k] => j = k
    PROVE  \A j, k \in DOMAIN Append(q, x) : Append(q, x)[j] = Append(q, x)[k] => j = k
<1> DEFINE a == Append(q, x)
<1>1. Len(q) \in Nat /\ DOMAIN q = 1..Len(q) /\ DOMAIN a = 1..(Len(q) + 1)
  OBVIOUS
<1>2. a[Len(q) + 1] = x /\ \A k \in DOMAIN q : a[k] = q[k]
  OBVIOUS
<1>3. \A k \in DOMAIN a : k = Len(q) + 1 \/ k \in DOMAIN q
  BY <1>1
<1>4. \A k \in DOMAIN q : q[k] # x  BY DEF Queued
<1> HIDE DEF a
<1>5. \A j, k \in DOMAIN a : a[j] = a[k] => j = k  BY <1>2, <1>3, <1>4
<1> QED  BY <1>5 DEF a

\* A step of the driver takes nothing from a queue but its head.
LEMMA DriverQueues ==
    ASSUME DataType, DriverStep
    PROVE  /\ opq' = opq \/ opq' = <<>> \/ (opq # <<>> /\ opq' = Tail(opq))
           /\ wire' = wire \/ wire' = <<>> \/ (wire # <<>> /\ wire' = Tail(wire))
           /\ scrubq' = scrubq \/ scrubq' = <<>> \/ (scrubq # <<>> /\ scrubq' = Tail(scrubq))
<1> USE DEF msgvars, callvars, streamvars, mapvars, queuevars, netvars
<1>1. CASE DriverEnds  BY <1>1, DriverEndsStop DEF Stop
<1>2. CASE DrvScrub  BY <1>2 DEF DrvScrub
<1>3. CASE DrvSearchItem \/ DrvResult \/ DrvUnmatched
  BY <1>3 DEF DrvSearchItem, DrvResult, DrvUnmatched, NextResp, Stop
<1>4. ASSUME NEW c \in Calls,
             DrvSingle(c) \/ DrvSearch(c) \/ DrvAbandon(c) \/ DrvUnbind(c) \/ DrvMisc(c)
      PROVE  /\ opq' = opq \/ (opq # <<>> /\ opq' = Tail(opq))
             /\ UNCHANGED <<wire, scrubq>>
  BY <1>4 DEF DrvSingle, DrvSearch, DrvAbandon, DrvUnbind, DrvMisc, TakeOp
<1> QED
  BY <1>1, <1>2, <1>3, <1>4
  DEF DriverStep, ScrubBranch, OpBranch, MiscBranch, StreamBranch, DriverEnds

LEMMA QueuedOnceStep ==
    ASSUME DataType, Lifecycle, QueuedOnce, [Next]_vars
    PROVE  QueuedOnce'
<1> USE DEF QueuedOnce
<1>0. opq \in Seq(Calls)  BY DEF DataType, DriverType
<1>1. ASSUME NEW c \in Calls, Client(c) PROVE QueuedOnce'
  <2>1. CASE NextMsgId(c)  BY <2>1 DEF NextMsgId, queuevars
  <2>2. CASE SendOp(c)
    <3>1. c \notin Queued(opq) /\ opq' = Append(opq, c)
      BY <2>2 DEF SendOp, Lifecycle
    <3> QED  BY <3>1, <1>0, QueuedAppendOnce
  <2>3. CASE ~NextMsgId(c) /\ ~SendOp(c)  BY <1>1, <2>3, ClientMoves
  <2> QED  BY <2>1, <2>2, <2>3
<1>2. CASE ServerStep  BY <1>2, ServerFrame DEF queuevars
<1>3. CASE DropHandles \/ UNCHANGED vars  BY <1>3 DEF DropHandles, vars, queuevars
<1>4. CASE DriverStep
  <2>1. CASE opq' = opq \/ opq' = <<>>  BY <2>1
  <2>2. CASE opq # <<>> /\ opq' = Tail(opq)  BY <2>2, <1>0, QueuedTailOnce
  <2> QED  BY <1>4, <2>1, <2>2, DriverQueues
<1> QED  BY <1>1, <1>2, <1>3, <1>4, Steps

\* A step that only takes requests out of where they are.
LEMMA LifecycleShrinks ==
    ASSUME Lifecycle, UNCHANGED <<kind, pc, stm>>,
           Queued(opq') \subseteq Queued(opq), srv' \subseteq srv,
           \A d \in Calls : OnWire(d)' => OnWire(d),
           \A d \in Calls : Filed(d)' => Filed(d)
    PROVE  Lifecycle'
BY DEF Lifecycle, IsSearch

LEMMA ShrinkFacts ==
    ASSUME DataType, DriverStep
    PROVE  /\ Queued(opq') \subseteq Queued(opq)
           /\ \A d \in Calls : OnWire(d)' => OnWire(d)
<1>1. Queued(opq') \subseteq Queued(opq)
  <2>1. CASE opq' = opq \/ opq' = <<>>  BY <2>1 DEF Queued
  <2>2. CASE opq # <<>> /\ opq' = Tail(opq)
    BY <2>2, QueuedTail DEF DataType, DriverType
  <2> QED  BY <2>1, <2>2, DriverQueues
<1>2. ASSUME NEW d \in Calls, OnWire(d)' PROVE OnWire(d)
  <2>0. wire \in Seq(Messages)  BY DEF DataType, NetType
  <2>1. CASE wire' = wire \/ wire' = <<>>  BY <1>2, <2>1 DEF OnWire
  <2>2. CASE wire # <<>> /\ wire' = Tail(wire)
    <3>1. PICK k \in DOMAIN Tail(wire) : Tail(wire)[k].from = d
      BY <1>2, <2>2 DEF OnWire
    <3>2. k + 1 \in DOMAIN wire /\ wire[k + 1] = Tail(wire)[k]  BY <2>0, <2>2
    <3> QED  BY <3>1, <3>2 DEF OnWire
  <2> QED  BY <2>1, <2>2, DriverQueues
<1> QED  BY <1>1, <1>2

LEMMA OnWireAppend ==
    ASSUME wire \in Seq(Messages), NEW f, NEW t,
           wire' = Append(wire, [from |-> f, tag |-> t])
    PROVE  \A d : OnWire(d)' => OnWire(d) \/ d = f
<1> DEFINE m == [from |-> f, tag |-> t]
<1>1. m.from = f  OBVIOUS
<1> HIDE DEF m
<1>2. \A k \in DOMAIN Append(wire, m) :
        (k \in DOMAIN wire /\ Append(wire, m)[k] = wire[k]) \/ Append(wire, m)[k] = m
  OBVIOUS
<1>3. wire' = Append(wire, m)  BY DEF m
<1> QED  BY <1>1, <1>2, <1>3 DEF OnWire

\* The request at the head of the queue is sent.
LEMMA SentFacts ==
    ASSUME DataType, Lifecycle, QueuedOnce, NEW c \in Calls, TakeOp(c)
    PROVE  /\ c \in Queued(opq) /\ c \notin Queued(opq')
           /\ pc[c] \notin {"idle", "tuple"} /\ kind[c] # "Cert"
           /\ c \notin srv /\ ~OnWire(c) /\ ~Filed(c)
<1>1. opq \in Seq(Calls) /\ opq # <<>> /\ c = Head(opq) /\ opq' = Tail(opq)
  BY DEF TakeOp, DataType, DriverType
<1>2. c \in Queued(opq)  BY <1>1, QueuedTail
<1>3. c \notin Queued(opq')  BY <1>1, QueuedTailOnce DEF QueuedOnce
<1> QED  BY <1>2, <1>3 DEF Lifecycle

LEMMA LifecycleStep ==
    ASSUME DataType, Lifecycle, QueuedOnce, [Next]_vars
    PROVE  Lifecycle'
<1>0. opq \in Seq(Calls) /\ wire \in Seq(Messages)
  BY DEF DataType, DriverType, NetType
<1>1. ASSUME NEW c \in Calls, Client(c) PROVE Lifecycle'
  <2>1. /\ UNCHANGED <<kind, srv, wire, resultmap, searchmap>>
        /\ \A d \in Calls : (OnWire(d)' <=> OnWire(d)) /\ (Filed(d)' <=> Filed(d))
    BY <1>1, ClientFrame DEF mapvars, netvars, OnWire, Filed
  <2>2. CASE NextMsgId(c)
    <3>1. /\ pc[c] = "idle" /\ pc' = [pc EXCEPT ![c] = "tuple"]
          /\ UNCHANGED <<opq, stm>> /\ kind[c] # "Cert"
      BY <2>2 DEF NextMsgId, queuevars
    <3> QED  BY <2>1, <3>1 DEF Lifecycle, IsSearch, DataType, CallType
  <2>3. CASE SendOp(c)
    <3>1. /\ pc[c] = "tuple" /\ pc' = [pc EXCEPT ![c] = "wait"] /\ UNCHANGED stm
          /\ Queued(opq') = Queued(opq) \cup {c} /\ kind[c] # "Cert"
      BY <2>3, <1>0, QueuedAppend DEF SendOp, streamvars, Lifecycle
    <3> QED  BY <2>1, <3>1 DEF Lifecycle, IsSearch, DataType, CallType
  <2>4. CASE ~NextMsgId(c) /\ ~SendOp(c)
    BY <1>1, <2>1, <2>4, ClientMoves DEF Lifecycle, IsSearch
  <2> QED  BY <2>2, <2>3, <2>4
<1>2. CASE ServerStep
  <2>0. UNCHANGED <<kind, pc, stm, opq, resultmap, searchmap>>
    BY <1>2, ServerFrame DEF callvars, streamvars, mapvars, queuevars
  <2>1. ASSUME NEW c \in Calls, c \in srv, srv' \subseteq srv, NEW t,
               wire' = Append(wire, [from |-> c, tag |-> t])
        PROVE  Lifecycle'
    <3>1. \A d \in Calls : OnWire(d)' => OnWire(d) \/ d = c
      BY <1>0, <2>1, OnWireAppend
    <3> QED  BY <2>0, <2>1, <3>1 DEF Lifecycle, Filed, IsSearch
  <2>2. ASSUME NEW c \in Calls, Server(c) PROVE Lifecycle'
    <3>1. CASE SrvResult(c)  BY <2>1, <3>1 DEF SrvResult
    <3>2. CASE SrvEntry(c)   BY <2>1, <3>2 DEF SrvEntry
    <3>3. CASE SrvDone(c)    BY <2>1, <3>3 DEF SrvDone
    <3>4. CASE SrvForget(c)
      BY <2>0, <3>4, LifecycleShrinks DEF SrvForget, OnWire, Filed
    <3> QED  BY <2>2, <3>1, <3>2, <3>3, <3>4 DEF Server
  <2>3. CASE SrvClose
    <3>1. \A d \in Calls : OnWire(d)' => OnWire(d)
      <4>1. CASE wire' = wire  BY <4>1 DEF OnWire
      <4>2. CASE wire' # wire
        BY <1>0, <2>3, <4>2, CallsAssumption, OnWireAppend DEF SrvClose
      <4> QED  BY <4>1, <4>2
    <3> QED  BY <2>0, <2>3, <3>1, LifecycleShrinks DEF SrvClose, Filed
  <2>4. CASE SrvReset
    BY <2>0, <2>4, LifecycleShrinks DEF SrvReset, OnWire, Filed
  <2> QED  BY <1>2, <2>2, <2>3, <2>4 DEF ServerStep
<1>3. CASE DropHandles \/ UNCHANGED vars
  BY <1>3, LifecycleShrinks
  DEF DropHandles, vars, callvars, streamvars, queuevars, netvars, mapvars, OnWire, Filed
<1>4. CASE DriverStep
  <2>0. /\ UNCHANGED <<kind, pc, stm>>
        /\ Queued(opq') \subseteq Queued(opq)
        /\ \A d \in Calls : OnWire(d)' => OnWire(d)
    BY <1>4, DriverFrame, ShrinkFacts
  <2> USE CallsAssumption
  <2>1. CASE DriverEnds
    BY <2>0, <2>1, DriverEndsStop, LifecycleShrinks DEF Stop, Filed
  <2>2. CASE DrvScrub
    BY <2>0, <2>2, LifecycleShrinks DEF DrvScrub, Filed, Without, netvars
  <2>3. CASE DrvSearchItem
    BY <2>0, <2>3, LifecycleShrinks DEF DrvSearchItem, Filed, Without
  <2>4. CASE DrvResult
    BY <2>0, <2>4, LifecycleShrinks DEF DrvResult, Filed, Without, Stop
  <2>5. CASE DrvUnmatched
    BY <2>0, <2>5, LifecycleShrinks DEF DrvUnmatched, Filed, mapvars
  <2>6. ASSUME NEW c \in Calls, DrvSingle(c) \/ DrvSearch(c) PROVE Lifecycle'
    <3>1. TakeOp(c) /\ srv' \subseteq srv \cup {c}
      BY <2>6 DEF DrvSingle, DrvSearch, ServerSees
    <3>2. \A d \in Calls : Filed(d)' => Filed(d) \/ d = c
      BY <2>6 DEF DrvSingle, DrvSearch, Filed, DataType, DriverType
    <3> QED  BY <2>0, <3>1, <3>2, SentFacts DEF Lifecycle, IsSearch
  <2>7. ASSUME NEW c \in Calls, DrvAbandon(c) \/ DrvUnbind(c) \/ DrvMisc(c)
        PROVE  Lifecycle'
    BY <2>0, <2>7, LifecycleShrinks
    DEF DrvAbandon, DrvUnbind, DrvMisc, Filed, Without, mapvars, netvars
  <2> QED
    BY <1>4, <2>1, <2>2, <2>3, <2>4, <2>5, <2>6, <2>7
    DEF DriverStep, ScrubBranch, OpBranch, MiscBranch, StreamBranch, DriverEnds
<1> QED  BY <1>1, <1>2, <1>3, <1>4, Steps

LEMMA FinalStep ==
    ASSUME DataType, Lifecycle, QueuedOnce, WireAgrees, FinalIsLast, [Next]_vars
    PROVE  FinalIsLast'
<1>0. wire \in Seq(Messages) /\ srv \subseteq Calls  BY DEF DataType, NetType
<1>1. ASSUME srv' \subseteq srv,
             wire' = wire \/ wire' = <<>> \/ (wire # <<>> /\ wire' = Tail(wire))
      PROVE  FinalIsLast'
  <2>1. CASE wire' = wire \/ wire' = <<>>  BY <1>1, <2>1 DEF FinalIsLast
  <2>2. CASE wire # <<>> /\ wire' = Tail(wire)
    <3>1. \A k \in DOMAIN wire' : k \in Nat /\ k + 1 \in DOMAIN wire /\ wire'[k] = wire[k + 1]
      BY <1>0, <2>2
    <3> QED  BY <1>1, <3>1 DEF FinalIsLast
  <2> QED  BY <1>1, <2>1, <2>2
<1>2. ASSUME NEW c \in srv, NEW t, wire' = Append(wire, [from |-> c, tag |-> t]),
             srv' \subseteq srv, t = "entry" \/ c \notin srv'
      PROVE  FinalIsLast'
  <2> DEFINE m == [from |-> c, tag |-> t]
  <2>1. m.from = c /\ m.tag = t  OBVIOUS
  <2> HIDE DEF m
  <2>2. /\ Len(wire) \in Nat /\ DOMAIN wire = 1..Len(wire)
        /\ DOMAIN Append(wire, m) = 1..(Len(wire) + 1)
        /\ \A k \in DOMAIN wire : Append(wire, m)[k] = wire[k]
        /\ Append(wire, m)[Len(wire) + 1] = m
    BY <1>0
  <2>3. wire' = Append(wire, m)  BY <1>2 DEF m
  <2> SUFFICES ASSUME NEW k \in DOMAIN wire', wire'[k].tag \in {"result", "done"}
               PROVE  /\ wire'[k].from \notin srv'
                      /\ \A j \in DOMAIN wire' : j > k => wire'[j].from # wire'[k].from
    BY DEF FinalIsLast
  <2>4. CASE k = Len(wire) + 1
    BY <1>2, <2>1, <2>2, <2>3, <2>4
  <2>5. CASE k \in DOMAIN wire
    <3>1. /\ wire'[k] = wire[k] /\ wire[k].from \notin srv
          /\ \A j \in DOMAIN wire : j > k => wire[j].from # wire[k].from
      BY <2>2, <2>3, <2>5 DEF FinalIsLast
    <3>2. ASSUME NEW j \in DOMAIN wire', j > k PROVE wire'[j].from # wire'[k].from
      BY <1>2, <2>1, <2>2, <2>3, <3>1, <3>2
    <3> QED  BY <1>2, <3>1, <3>2
  <2> QED  BY <2>2, <2>3, <2>4, <2>5
<1>3. ASSUME NEW c \in Calls, Client(c) PROVE FinalIsLast'
  BY <1>1, <1>3, ClientFrame DEF netvars
<1>4. CASE DropHandles \/ UNCHANGED vars
  BY <1>1, <1>4 DEF DropHandles, vars, netvars
<1>5. CASE ServerStep
  <2>1. ASSUME NEW c \in Calls, Server(c) PROVE FinalIsLast'
    <3>1. CASE SrvResult(c)  BY <1>2, <3>1 DEF SrvResult
    <3>2. CASE SrvEntry(c)   BY <1>2, <3>2 DEF SrvEntry
    <3>3. CASE SrvDone(c)    BY <1>2, <3>3 DEF SrvDone
    <3>4. CASE SrvForget(c)  BY <1>1, <3>4 DEF SrvForget
    <3> QED  BY <2>1, <3>1, <3>2, <3>3, <3>4 DEF Server
  <2>2. CASE SrvClose
    <3>1. CASE wire' = wire  BY <1>1, <2>2, <3>1 DEF SrvClose
    <3>2. CASE wire' = Append(wire, [from |-> NoCall, tag |-> "notice"])
      <4> DEFINE m == [from |-> NoCall, tag |-> "notice"]
      <4>1. m.from = NoCall /\ m.tag = "notice"  OBVIOUS
      <4> HIDE DEF m
      <4>2. /\ Len(wire) \in Nat /\ DOMAIN wire = 1..Len(wire)
            /\ DOMAIN Append(wire, m) = 1..(Len(wire) + 1)
            /\ \A k \in DOMAIN wire : Append(wire, m)[k] = wire[k]
            /\ Append(wire, m)[Len(wire) + 1] = m
        BY <1>0
      <4>3. wire' = Append(wire, m) /\ srv' = srv  BY <2>2, <3>2 DEF m, SrvClose
      <4>4. \A k \in DOMAIN wire : wire[k].tag # "notice" => wire[k].from # NoCall
        BY CallsAssumption DEF WireAgrees, WellTagged
      <4> QED  BY <4>1, <4>2, <4>3, <4>4 DEF FinalIsLast
    <3> QED  BY <2>2, <3>1, <3>2 DEF SrvClose
  <2>3. CASE SrvReset  BY <1>1, <2>3 DEF SrvReset
  <2> QED  BY <1>5, <2>1, <2>2, <2>3 DEF ServerStep
<1>6. CASE DriverStep
  <2>1. CASE srv' \subseteq srv  BY <1>1, <1>6, <2>1, DriverQueues
  <2>2. ASSUME NEW c \in Calls, DrvSingle(c) \/ DrvSearch(c) PROVE FinalIsLast'
    <3>1. TakeOp(c) /\ srv' \subseteq srv \cup {c} /\ wire' = wire
      BY <2>2 DEF DrvSingle, DrvSearch, ServerSees
    <3>2. \A k \in DOMAIN wire : wire[k].from # c  BY <3>1, SentFacts DEF OnWire
    <3> QED  BY <3>1, <3>2 DEF FinalIsLast
  <2>3. CASE DriverEnds  BY <1>0, <2>1, <2>3, DriverEndsStop DEF Stop
  <2>4. CASE DrvScrub \/ DrvSearchItem \/ DrvResult \/ DrvUnmatched
    BY <2>1, <2>4
    DEF DrvScrub, DrvSearchItem, DrvResult, DrvUnmatched, Stop, netvars
  <2>5. ASSUME NEW c \in Calls, DrvAbandon(c) \/ DrvUnbind(c) \/ DrvMisc(c)
        PROVE  srv' \subseteq srv
    BY <2>5 DEF DrvAbandon, DrvUnbind, DrvMisc, netvars
  <2> QED
    BY <1>6, <2>1, <2>2, <2>3, <2>4, <2>5
    DEF DriverStep, ScrubBranch, OpBranch, MiscBranch, StreamBranch, DriverEnds
<1> QED  BY <1>3, <1>4, <1>5, <1>6, Steps

-----------------------------------------------------------------------------
(* Who holds an id *)

\* c needs its id: its request, its answer or its stream is still about.
Holds(c) ==
    \/ pc[c] = "tuple"
    \/ pc[c] = "wait" /\ IsSearch(c)
    \/ stm[c] \in OpenStates
    \/ c \in Queued(opq) \/ c \in srv \/ OnWire(c) \/ Filed(c)

\* As long as no call has been given up early, an id that is needed is in use,
\* by one call, and what is queued for scrubbing is in use but not needed.
IdsHeld ==
    givenUp = {} =>
        /\ \A c \in Calls : Holds(c) => id[c] \in used
        /\ \A c, d \in Calls : Holds(c) /\ Holds(d) /\ id[c] = id[d] => c = d

ScrubsUnheld ==
    givenUp = {} =>
        /\ \A i \in Queued(scrubq) : i \in used /\ \A c \in Calls : Holds(c) => id[c] # i
        /\ \A j, k \in DOMAIN scrubq : scrubq[j] = scrubq[k] => j = k

\* As long as ids tell operations apart: once the final item of a Search is in
\* its stream's channel, or has been read from it, the operation is over
\* everywhere else.
EndSeen ==
    ~IdsAmbiguous => \A c \in Calls :
        (res[c] \/ \E k \in DOMAIN items[c] : items[c][k].tag = "done") =>
            /\ c \notin Queued(opq) /\ c \notin srv /\ ~OnWire(c) /\ ~Filed(c)
            /\ pc[c] \notin {"idle", "tuple"}

\* What a caller does with its own channels.
LEMMA ClientChannels ==
    ASSUME FlagType, DataType, NEW c \in Calls, Client(c)
    PROVE  /\ givenUp \subseteq givenUp'
           /\ \A d \in Calls :
                /\ oneshot'[d] = oneshot[d] \/ oneshot'[d] = NoCall
                /\ \/ items'[d] = items[d]
                   \/ items'[d] = <<>>
                   \/ items[d] # <<>> /\ items'[d] = Tail(items[d])
                /\ \/ res'[d] = res[d]
                   \/ items[d] # <<>> /\ Head(items[d]).tag = "done"
           /\ givenUp' = {} => scrubq' = scrubq \/ (StreamFinish(c) /\ res[c])
<1> USE DEF DataType, CallType, StreamType, msgvars, callvars, streamvars, mapvars,
        queuevars, netvars
<1>1. CASE NextMsgId(c) \/ NextMsgIdPanics(c)
  BY <1>1 DEF NextMsgId, NextMsgIdPanics
<1>2. CASE SendOp(c) \/ SendFails(c) \/ SendMisc(c)
  BY <1>2 DEF SendOp, SendFails, SendMisc
<1>3. CASE RecvResult(c) \/ RecvError(c)  BY <1>3 DEF RecvResult, RecvError
<1>4. CASE Timeout(c) \/ Cancel(c)  BY <1>4 DEF Timeout, Cancel
<1>5. CASE StreamNext(c)
  <2>1. UNCHANGED <<givenUp, oneshot, scrubq>>  BY <1>5 DEF StreamNext
  <2>2. items[c] # <<>> /\ items' = [items EXCEPT ![c] = Tail(@)]
    BY <1>5 DEF StreamNext
  <2>3. UNCHANGED res \/ (Head(items[c]).tag = "done" /\ res' = [res EXCEPT ![c] = TRUE])
    BY <1>5 DEF StreamNext
  <2>4. \A d \in Calls : \/ items'[d] = items[d]
                         \/ items[d] # <<>> /\ items'[d] = Tail(items[d])
    BY <2>2
  <2>5. \A d \in Calls : \/ res'[d] = res[d]
                         \/ items[d] # <<>> /\ Head(items[d]).tag = "done"
    <3>1. CASE UNCHANGED res  BY <3>1
    <3>2. CASE Head(items[c]).tag = "done" /\ res' = [res EXCEPT ![c] = TRUE]
      BY <2>2, <3>2 DEF FlagType
    <3> QED  BY <2>3, <3>1, <3>2
  <2> QED  BY <2>1, <2>4, <2>5
<1>6. CASE StreamEndOfStream(c) \/ StreamTimeout(c) \/ StreamNextPanics(c)
  BY <1>6 DEF StreamEndOfStream, StreamTimeout, StreamNextPanics
<1>7. CASE StreamFinish(c)
  <2>1. /\ items' = [items EXCEPT ![c] = <<>>] /\ UNCHANGED <<res, oneshot>>
        /\ givenUp' = IF res[c] THEN givenUp ELSE givenUp \cup {c}
    BY <1>7 DEF StreamFinish
  <2>2. \A d \in Calls : items'[d] = items[d] \/ items'[d] = <<>>  BY <2>1
  <2>3. givenUp \subseteq givenUp' /\ (givenUp' = {} => res[c])  BY <2>1
  <2> QED  BY <1>7, <2>1, <2>2, <2>3
<1>8. CASE StreamDrop(c)  BY <1>8 DEF StreamDrop
<1> QED  BY <1>1, <1>2, <1>3, <1>4, <1>5, <1>6, <1>7, <1>8 DEF Client

LEMMA Monotone ==
    ASSUME FlagType, DataType, [Next]_vars
    PROVE  /\ wrapped => wrapped'
           /\ poisoned => poisoned'
           /\ givenUp \subseteq givenUp'
           /\ ~IdsAmbiguous' => ~IdsAmbiguous
<1>1. (wrapped => wrapped') /\ (poisoned => poisoned') /\ givenUp \subseteq givenUp'
  <2>1. ASSUME NEW c \in Calls, Client(c)
        PROVE  (wrapped => wrapped') /\ (poisoned => poisoned') /\ givenUp \subseteq givenUp'
    BY <2>1, ClientFrame, ClientChannels
  <2>2. CASE ServerStep  BY <2>2, ServerFrame DEF msgvars
  <2>3. CASE DriverStep  BY <2>3, DriverFrame
  <2>4. CASE DropHandles \/ UNCHANGED vars  BY <2>4 DEF DropHandles, vars, msgvars
  <2> QED  BY <2>1, <2>2, <2>3, <2>4, Steps
<1> QED  BY <1>1 DEF IdsAmbiguous

\* The dispatch finds the call that the message answers.
LEMMA Dispatch ==
    ASSUME DataType, AscendingIds, MapsAgree, IdsHeld, ~IdsAmbiguous, wire # <<>>,
           NEW d \in Calls,
           \/ Lookup(searchmap, MsgId(Head(wire))) = d
           \/ Lookup(resultmap, MsgId(Head(wire))) = d
    PROVE  /\ Head(wire).from = d /\ MsgId(Head(wire)) = id[d] /\ id[d] \in Ids
<1> DEFINE i == MsgId(Head(wire))
<1>1. i \in Ids /\ (searchmap[i] = d \/ resultmap[i] = d)
  BY CallsAssumption DEF Lookup
<1>2. Head(wire) \in Messages /\ Head(wire) = wire[1] /\ 1 \in DOMAIN wire
  BY DEF DataType, NetType
<1>3. Head(wire).from \in Calls /\ id[Head(wire).from] = i
  BY <1>1, <1>2, MaxIdAssumption DEF MsgId, Messages, Ids
<1>4. id[d] = i  BY <1>1 DEF MapsAgree
<1>5. i # 0  BY <1>1, MaxIdAssumption DEF Ids
<1>6. CASE ~wrapped  BY <1>3, <1>4, <1>5, <1>6, <1>1 DEF AscendingIds
<1>7. CASE givenUp = {}
  <2>1. OnWire(Head(wire).from)  BY <1>2 DEF OnWire
  <2>2. Filed(d)  BY <1>1 DEF Filed
  <2> QED  BY <1>1, <1>3, <1>4, <1>7, <2>1, <2>2 DEF IdsHeld, Holds
<1> QED  BY <1>6, <1>7 DEF IdsAmbiguous

LEMMA HoldsClient ==
    ASSUME DataType, Lifecycle, NEW c \in Calls, Client(c), ~NextMsgId(c)
    PROVE  /\ \A d \in Calls : Holds(d)' => Holds(d)
           /\ UNCHANGED <<used, id>>
<1>1. /\ UNCHANGED <<kind, srv, wire, resultmap, searchmap>>
      /\ \A d \in Calls : /\ (OnWire(d)' <=> OnWire(d)) /\ (Filed(d)' <=> Filed(d))
                          /\ IsSearch(d)' <=> IsSearch(d)
  BY ClientFrame DEF mapvars, netvars, OnWire, Filed, IsSearch
<1>2. CASE SendOp(c)
  <2>1. /\ pc[c] = "tuple" /\ pc' = [pc EXCEPT ![c] = "wait"] /\ UNCHANGED <<stm, used, id>>
        /\ Queued(opq') = Queued(opq) \cup {c}
    BY <1>2, QueuedAppend DEF SendOp, streamvars, msgvars, DataType, DriverType
  <2> QED  BY <1>1, <2>1 DEF Holds, DataType, CallType
<1>3. CASE ~SendOp(c)
  <2>1. /\ UNCHANGED <<used, opq, id>>
        /\ \A d \in Calls : pc'[d] = "tuple" => pc[d] = "tuple"
        /\ \A d \in Calls : stm'[d] \in OpenStates =>
               stm[d] \in OpenStates \/ (pc[d] = "wait" /\ IsSearch(d))
        /\ \A d \in Calls : pc'[d] = "wait" => pc[d] = "wait" \/ kind[d] = "Cert"
    BY <1>3, ClientMoves
  <2>2. \A d \in Calls : IsSearch(d) => kind[d] # "Cert"  BY DEF IsSearch, SearchKinds
  <2> QED  BY <1>1, <2>1, <2>2 DEF Holds
<1> QED  BY <1>2, <1>3

-----------------------------------------------------------------------------
(* The inductive invariant *)

TypeInv == FlagType /\ DataType
RouteInv == AscendingIds /\ MapsAgree /\ WireAgrees
HeldInv == IdsHeld /\ ScrubsUnheld /\ EndSeen
Inv == TypeInv /\ RouteInv /\ LifeInv /\ HeldInv /\ Matched /\ DriverSurvives

LEMMA InitInv == Init => Inv
<1> SUFFICES ASSUME Init PROVE Inv
  OBVIOUS
<1>1. TypeInv  BY InitType DEF TypeInv
<1>2. LifeInv  BY InitLife
<1> USE CallsAssumption DEF Init
<1>3. RouteInv
  <2>1. AscendingIds  BY DEF AscendingIds
  <2>2. MapsAgree     BY DEF MapsAgree
  <2>3. WireAgrees    BY DEF WireAgrees
  <2> QED  BY <2>1, <2>2, <2>3 DEF RouteInv
<1>4. HeldInv
  <2>1. \A c \in Calls : ~Holds(c)
    BY DEF Holds, OpenStates, Queued, OnWire, Filed
  <2>2. IdsHeld  BY <2>1 DEF IdsHeld
  <2>3. ScrubsUnheld  BY DEF ScrubsUnheld, Queued
  <2>4. EndSeen  BY DEF EndSeen
  <2> QED  BY <2>2, <2>3, <2>4 DEF HeldInv
<1>5. Matched  BY DEF Matched
<1>6. DriverSurvives  BY DEF DriverSurvives
<1> QED  BY <1>1, <1>2, <1>3, <1>4, <1>5, <1>6 DEF Inv

LEMMA SurvivesStep ==
    ASSUME Inv, [Next]_vars
    PROVE  DriverSurvives'
<1> USE DEF Inv, TypeInv, RouteInv, HeldInv, DriverSurvives
<1>0. (poisoned => poisoned') /\ (~IdsAmbiguous' => ~IdsAmbiguous)  BY Monotone
<1>1. ASSUME NEW c \in Calls, Client(c) PROVE DriverSurvives'
  BY <1>0, <1>1, ClientFrame
<1>2. CASE ServerStep  BY <1>0, <1>2, ServerFrame
<1>3. CASE DropHandles \/ UNCHANGED vars  BY <1>0, <1>3 DEF DropHandles, vars
<1>4. CASE DriverStep
  <2>1. CASE DrvSearchPanics
    <3>1. PICK d \in Calls : Lookup(searchmap, MsgId(Head(wire))) = d
      BY <2>1 DEF DrvSearchPanics, Lookup, DataType, DriverType
    <3>2. ASSUME ~IdsAmbiguous PROVE FALSE
      <4>1. wire # <<>> /\ Head(wire).tag \notin {"entry", "done"}
        BY <2>1 DEF DrvSearchPanics, NextResp
      <4>2. Head(wire).from = d /\ MsgId(Head(wire)) = id[d] /\ id[d] \in Ids
        BY <3>1, <3>2, <4>1, Dispatch
      <4>3. IsSearch(d)  BY <3>1, <4>2 DEF Lookup, MapsAgree
      <4>4. WellTagged(Head(wire))
        BY <4>1 DEF WireAgrees, DataType, NetType
      <4> QED  BY <4>1, <4>2, <4>3, <4>4, CallsAssumption
           DEF WellTagged, IsSearch, SearchKinds
    <3> QED  BY <1>0, <3>2
  <2>2. CASE DrvScrubPanics \/ DrvAbandonPanics
    BY <1>0, <2>2 DEF DrvScrubPanics, DrvAbandonPanics
  <2>3. CASE DrvSendFails \/ DrvNoHandles \/ DrvEof \/ DrvRecvFails
    BY <2>3 DEF DrvSendFails, DrvNoHandles, DrvEof, DrvRecvFails, Stop
  <2>4. CASE DrvResult  BY <1>0, <2>4 DEF DrvResult
  <2>5. CASE DrvScrub \/ DrvSearchItem \/ DrvUnmatched
    BY <1>0, <2>5 DEF DrvScrub, DrvSearchItem, DrvUnmatched
  <2>6. ASSUME NEW c \in Calls,
               DrvSingle(c) \/ DrvSearch(c) \/ DrvAbandon(c) \/ DrvUnbind(c) \/ DrvMisc(c)
        PROVE  DriverSurvives'
    BY <1>0, <2>6 DEF DrvSingle, DrvSearch, DrvAbandon, DrvUnbind, DrvMisc
  <2> QED
    BY <1>4, <2>1, <2>2, <2>3, <2>4, <2>5, <2>6
    DEF DriverStep, ScrubBranch, OpBranch, MiscBranch, StreamBranch
<1> QED  BY <1>1, <1>2, <1>3, <1>4, Steps

LEMMA MatchedStep ==
    ASSUME Inv, [Next]_vars
    PROVE  Matched'
<1> USE DEF Inv, TypeInv, RouteInv, HeldInv
<1> SUFFICES ASSUME ~IdsAmbiguous', NEW c \in Calls
             PROVE  /\ oneshot'[c] \in Calls => oneshot'[c] = c
                    /\ \A k \in DOMAIN items'[c] : items'[c][k].from = c
  BY DEF Matched
<1>0. ~IdsAmbiguous  BY Monotone
<1>1. /\ oneshot[c] \in Calls => oneshot[c] = c
      /\ \A k \in DOMAIN items[c] : items[c][k].from = c
      /\ items[c] \in Seq(Messages)
  BY <1>0 DEF Matched, DataType, StreamType
<1>2. ASSUME NEW d \in Calls, Client(d)
      PROVE  /\ oneshot'[c] \in Calls => oneshot'[c] = c
             /\ \A k \in DOMAIN items'[c] : items'[c][k].from = c
  <2>1. oneshot'[c] = oneshot[c] \/ oneshot'[c] = NoCall  BY <1>2, ClientChannels
  <2>2. \A k \in DOMAIN items'[c] : items'[c][k].from = c
    <3>1. CASE items'[c] = items[c] \/ items'[c] = <<>>  BY <1>1, <3>1
    <3>2. CASE items[c] # <<>> /\ items'[c] = Tail(items[c])
      <4>1. \A k \in DOMAIN Tail(items[c]) :
              k + 1 \in DOMAIN items[c] /\ Tail(items[c])[k] = items[c][k + 1]
        BY <1>1, <3>2
      <4> QED  BY <1>1, <3>2, <4>1
    <3> QED  BY <1>2, <3>1, <3>2, ClientChannels
  <2> QED  BY <1>1, <2>1, <2>2, CallsAssumption
<1>3. CASE UNCHANGED <<oneshot, items>>  BY <1>1, <1>3
<1>4. CASE ServerStep  BY <1>3, <1>4, ServerFrame DEF callvars, streamvars
<1>5. CASE DropHandles \/ UNCHANGED vars
  BY <1>3, <1>5 DEF DropHandles, vars, callvars, streamvars
<1>6. CASE DrvSearchItem
  <2>1. UNCHANGED oneshot /\ wire # <<>>  BY <1>6 DEF DrvSearchItem, callvars, NextResp
  <2>2. PICK d \in Calls : /\ Lookup(searchmap, MsgId(Head(wire))) = d
                           /\ \/ UNCHANGED items
                              \/ items' = [items EXCEPT ![d] = Deliver(@, Head(wire))]
    BY <1>6 DEF DrvSearchItem, Lookup, DataType, DriverType
  <2>3. Head(wire).from = d  BY <1>0, <2>1, <2>2, Dispatch
  <2>4. CASE UNCHANGED items  BY <1>3, <2>1, <2>4
  <2>5. CASE items' = [items EXCEPT ![d] = Deliver(@, Head(wire))]
    <3>1. CASE c # d  BY <1>1, <2>1, <2>5, <3>1 DEF DataType, StreamType
    <3>2. CASE c = d
      <4>1. items'[c] = Append(items[c], Head(wire))
        BY <2>5, <3>2 DEF DataType, StreamType, Deliver
      <4>2. \A k \in DOMAIN items'[c] : items'[c][k] = Head(wire)
                                       \/ (k \in DOMAIN items[c] /\ items'[c][k] = items[c][k])
        BY <1>1, <4>1
      <4> QED  BY <1>1, <2>1, <2>3, <3>2, <4>2
    <3> QED  BY <3>1, <3>2
  <2> QED  BY <2>2, <2>4, <2>5
<1>7. CASE DrvResult
  <2>1. UNCHANGED items /\ wire # <<>>  BY <1>7 DEF DrvResult, streamvars, NextResp
  <2>2. PICK d \in Calls : /\ Lookup(resultmap, MsgId(Head(wire))) = d
                           /\ Reply(d, Head(wire).from)
    BY <1>7 DEF DrvResult, Lookup, DataType, DriverType
  <2>3. Head(wire).from = d  BY <1>0, <2>1, <2>2, Dispatch
  <2> QED  BY <1>1, <2>1, <2>2, <2>3 DEF Reply, DataType, CallType
<1>8. CASE DriverEnds  BY <1>3, <1>8, DriverEndsStop DEF callvars, streamvars
<1>9. CASE DrvScrub \/ DrvUnmatched
  BY <1>3, <1>9 DEF DrvScrub, DrvUnmatched, callvars, streamvars
<1>10. ASSUME NEW d \in Calls,
              DrvSingle(d) \/ DrvSearch(d) \/ DrvAbandon(d) \/ DrvUnbind(d) \/ DrvMisc(d)
       PROVE  UNCHANGED items /\ (oneshot'[c] = oneshot[c] \/ oneshot'[c] = Null)
  BY <1>10
  DEF DrvSingle, DrvSearch, DrvAbandon, DrvUnbind, DrvMisc, Reply, callvars,
      streamvars, DataType, CallType
<1> QED
  BY <1>1, <1>2, <1>4, <1>5, <1>6, <1>7, <1>8, <1>9, <1>10, Steps, CallsAssumption
  DEF DriverStep, ScrubBranch, OpBranch, MiscBranch, StreamBranch, DriverEnds

\* A step of the driver moves requests on; only one taken from the queue gets
\* to the server or into a map.
LEMMA DriverMoves ==
    ASSUME DataType, DriverStep
    PROVE  \A d \in Calls :
             /\ d \in srv' => d \in srv \/ d \in Queued(opq)
             /\ Filed(d)' => Filed(d) \/ d \in Queued(opq)
<1> USE CallsAssumption DEF Filed, mapvars, netvars
<1>1. CASE DriverEnds  BY <1>1, DriverEndsStop DEF Stop
<1>2. CASE DrvScrub  BY <1>2 DEF DrvScrub, Without
<1>3. CASE DrvSearchItem  BY <1>3 DEF DrvSearchItem, Without
<1>4. CASE DrvResult  BY <1>4 DEF DrvResult, Without, Stop
<1>5. CASE DrvUnmatched  BY <1>5 DEF DrvUnmatched
<1>6. ASSUME NEW c \in Calls, DrvSingle(c) \/ DrvSearch(c)
      PROVE  \A d \in Calls :
               /\ d \in srv' => d \in srv \/ d \in Queued(opq)
               /\ Filed(d)' => Filed(d) \/ d \in Queued(opq)
  <2>1. TakeOp(c) /\ srv' \subseteq srv \cup {c}
    BY <1>6 DEF DrvSingle, DrvSearch, ServerSees
  <2>2. \A d \in Calls : Filed(d)' => Filed(d) \/ d = c
    BY <1>6 DEF DrvSingle, DrvSearch, DataType, DriverType
  <2>3. c \in Queued(opq)
    BY <2>1, QueuedTail DEF TakeOp, DataType, DriverType
  <2> QED  BY <2>1, <2>2, <2>3
<1>7. ASSUME NEW c \in Calls, DrvAbandon(c) \/ DrvUnbind(c) \/ DrvMisc(c)
      PROVE  \A d \in Calls : (d \in srv' => d \in srv) /\ (Filed(d)' => Filed(d))
  BY <1>7 DEF DrvAbandon, DrvUnbind, DrvMisc, Without
<1> QED
  BY <1>1, <1>2, <1>3, <1>4, <1>5, <1>6, <1>7
  DEF DriverStep, ScrubBranch, OpBranch, MiscBranch, StreamBranch, DriverEnds

LEMMA DriverHolds ==
    ASSUME DataType, DriverStep
    PROVE  \A d \in Calls : Holds(d)' => Holds(d)
BY DriverMoves, ShrinkFacts, DriverFrame DEF Holds, IsSearch

LEMMA ServerMoves ==
    ASSUME DataType, ServerStep
    PROVE  /\ srv' \subseteq srv
           /\ \A d \in Calls : OnWire(d)' => OnWire(d) \/ d \in srv
           /\ \A d \in Calls : Filed(d)' <=> Filed(d)
<1>0. wire \in Seq(Messages) /\ UNCHANGED <<resultmap, searchmap>>
  BY ServerFrame DEF mapvars, DataType, NetType
<1>1. ASSUME NEW c \in Calls, Server(c)
      PROVE  /\ srv' \subseteq srv
             /\ \A d \in Calls : OnWire(d)' => OnWire(d) \/ d \in srv
  <2>1. CASE SrvResult(c)  BY <1>0, <2>1, OnWireAppend DEF SrvResult
  <2>2. CASE SrvEntry(c)   BY <1>0, <2>2, OnWireAppend DEF SrvEntry
  <2>3. CASE SrvDone(c)    BY <1>0, <2>3, OnWireAppend DEF SrvDone
  <2>4. CASE SrvForget(c)  BY <2>4 DEF SrvForget, OnWire
  <2> QED  BY <1>1, <2>1, <2>2, <2>3, <2>4 DEF Server
<1>2. ASSUME SrvClose \/ SrvReset
      PROVE  srv' = srv /\ \A d \in Calls : OnWire(d)' => OnWire(d)
  <2>1. CASE wire' = wire  BY <1>2, <2>1 DEF SrvClose, SrvReset, OnWire
  <2>2. CASE wire' # wire
    BY <1>0, <1>2, <2>2, CallsAssumption, OnWireAppend DEF SrvClose, SrvReset
  <2> QED  BY <2>1, <2>2
<1> QED  BY <1>0, <1>1, <1>2 DEF ServerStep, Filed

LEMMA EndSeenStep ==
    ASSUME Inv, [Next]_vars
    PROVE  EndSeen'
<1> USE DEF Inv, TypeInv, RouteInv, HeldInv, LifeInv
<1> DEFINE Ended(c) == res[c] \/ \E k \in DOMAIN items[c] : items[c][k].tag = "done"
           Over(c) == /\ c \notin Queued(opq) /\ c \notin srv /\ ~OnWire(c) /\ ~Filed(c)
                      /\ pc[c] \notin {"idle", "tuple"}
<1> SUFFICES ASSUME ~IdsAmbiguous', NEW c \in Calls, Ended(c)' PROVE Over(c)'
  BY DEF EndSeen
<1>0. ~IdsAmbiguous  BY Monotone
<1>1. Ended(c) => Over(c)  BY <1>0 DEF EndSeen
<1>2. ASSUME NEW d \in Calls, Client(d) PROVE Over(c)'
  <2>1. Ended(c)
    <3>0. items[c] \in Seq(Messages)  BY DEF DataType, StreamType
    <3>1. CASE items[c] # <<>> /\ Head(items[c]).tag = "done"  BY <3>0, <3>1
    <3>2. CASE res'[c] = res[c] /\ (items'[c] = items[c] \/ items'[c] = <<>>)
      BY <3>2
    <3>3. CASE res'[c] = res[c] /\ items[c] # <<>> /\ items'[c] = Tail(items[c])
      <4>1. \A k \in DOMAIN Tail(items[c]) :
              k + 1 \in DOMAIN items[c] /\ Tail(items[c])[k] = items[c][k + 1]
        BY <3>0, <3>3
      <4> QED  BY <3>3, <4>1
    <3> QED  BY <1>2, <3>1, <3>2, <3>3, ClientChannels
  <2>2. Over(c)  BY <1>1, <2>1
  <2> HIDE DEF Ended
  <2>3. /\ UNCHANGED <<kind, srv, wire, resultmap, searchmap>>
        /\ (OnWire(c)' <=> OnWire(c)) /\ (Filed(c)' <=> Filed(c))
    BY <1>2, ClientFrame DEF mapvars, netvars, OnWire, Filed
  <2>4. CASE NextMsgId(d)
    <3>1. pc[d] = "idle" /\ pc' = [pc EXCEPT ![d] = "tuple"] /\ UNCHANGED opq
      BY <2>4 DEF NextMsgId, queuevars
    <3> QED  BY <2>2, <2>3, <3>1 DEF DataType, CallType
  <2>5. CASE SendOp(d)
    <3>1. /\ pc[d] = "tuple" /\ pc' = [pc EXCEPT ![d] = "wait"]
          /\ Queued(opq') = Queued(opq) \cup {d}
      BY <2>5, QueuedAppend DEF SendOp, DataType, DriverType
    <3> QED  BY <2>2, <2>3, <3>1 DEF DataType, CallType
  <2>6. CASE ~NextMsgId(d) /\ ~SendOp(d)
    <3>1. opq' = opq /\ (pc'[c] \in {"idle", "tuple"} => pc'[c] = pc[c])
      BY <1>2, <2>6, ClientMoves
    <3> QED  BY <2>2, <2>3, <3>1
  <2> QED  BY <2>4, <2>5, <2>6
<1>3. CASE ServerStep
  <2>1. UNCHANGED <<pc, opq, res, items>>
    BY <1>3, ServerFrame DEF callvars, streamvars, queuevars
  <2>2. Over(c)  BY <1>1, <2>1
  <2> QED  BY <1>3, <2>1, <2>2, ServerMoves
<1>4. CASE DropHandles \/ UNCHANGED vars
  <2>1. UNCHANGED <<pc, opq, res, items, srv, wire, resultmap, searchmap>>
    BY <1>4
    DEF DropHandles, vars, callvars, streamvars, queuevars, netvars, mapvars
  <2>2. Over(c)  BY <1>1, <2>1
  <2> QED  BY <2>1, <2>2 DEF OnWire, Filed
<1>5. ASSUME DriverStep, Ended(c) PROVE Over(c)'
  BY <1>1, <1>5, DriverMoves, ShrinkFacts, DriverFrame
<1>6. CASE DrvSearchItem
  <2>0. DriverStep  BY <1>6 DEF DriverStep, StreamBranch
  <2>1. PICK d \in Calls :
           /\ Lookup(searchmap, MsgId(Head(wire))) = d
           /\ \/ UNCHANGED items
              \/ items' = [items EXCEPT ![d] = Deliver(@, Head(wire))]
           /\ Head(wire).tag = "done" => searchmap' = Without(searchmap, MsgId(Head(wire)))
    BY <1>6 DEF DrvSearchItem, Lookup, DataType, DriverType
  <2>2. /\ UNCHANGED <<res, srv, resultmap, opq, pc>>
        /\ wire # <<>> /\ wire' = Tail(wire) /\ wire \in Seq(Messages)
    BY <1>6 DEF DrvSearchItem, NextResp, callvars, queuevars, DataType, NetType
  <2>3. Head(wire).from = d /\ MsgId(Head(wire)) = id[d] /\ id[d] \in Ids
    BY <1>0, <2>1, <2>2, Dispatch
  <2>4. CASE Ended(c)  BY <1>5, <2>0, <2>4
  <2>5. CASE ~Ended(c)
    <3>1. c = d /\ Head(wire).tag = "done"
      <4>1. items[c] \in Seq(Messages)  BY DEF DataType, StreamType
      <4>2. items'[c] # items[c]  BY <2>2, <2>5
      <4>3. c = d /\ items'[c] = Append(items[c], Head(wire))
        BY <2>1, <4>2 DEF DataType, StreamType, Deliver
      <4>4. \A k \in DOMAIN items'[c] : items'[c][k] = Head(wire)
                                       \/ (k \in DOMAIN items[c] /\ items'[c][k] = items[c][k])
        BY <4>1, <4>3
      <4> QED  BY <2>2, <2>5, <4>3, <4>4
    <3>2. wire[1] = Head(wire) /\ 1 \in DOMAIN wire  BY <2>2
    <3>3. c \notin srv /\ \A j \in DOMAIN wire : j > 1 => wire[j].from # c
      BY <2>3, <3>1, <3>2 DEF FinalIsLast
    <3>4. \A k \in DOMAIN Tail(wire) : k + 1 \in DOMAIN wire /\ k + 1 > 1
                                      /\ Tail(wire)[k] = wire[k + 1]
      BY <2>2
    <3>5. ~OnWire(c)'  BY <2>2, <3>3, <3>4 DEF OnWire
    <3>6. OnWire(c)  BY <2>3, <3>1, <3>2 DEF OnWire
    <3>7. c \notin Queued(opq) /\ pc[c] \notin {"idle", "tuple"}
      BY <3>6 DEF Lifecycle
    <3>8. searchmap[id[c]] = c  BY <2>1, <2>3, <3>1 DEF Lookup
    <3>9. ~Filed(c)'
      <4>1. IsSearch(c)  BY <2>3, <3>1, <3>8 DEF MapsAgree
      <4>2. \A j \in Ids : resultmap[j] # c
        BY <4>1 DEF MapsAgree, IsSearch, SearchKinds
      <4>3. \A j \in Ids : searchmap'[j] # c
        BY <2>1, <2>3, <3>1, CallsAssumption DEF MapsAgree, Without
      <4> QED  BY <2>2, <4>2, <4>3 DEF Filed
    <3> QED  BY <2>2, <3>3, <3>5, <3>7, <3>9
  <2> QED  BY <2>4, <2>5
<1>7. CASE DriverStep /\ ~DrvSearchItem
  <2>1. UNCHANGED <<res, items>>
    <3>1. CASE DriverEnds  BY <3>1, DriverEndsStop DEF streamvars
    <3>2. CASE DrvScrub \/ DrvResult \/ DrvUnmatched
      BY <3>2 DEF DrvScrub, DrvResult, DrvUnmatched, streamvars
    <3>3. ASSUME NEW d \in Calls,
                 DrvSingle(d) \/ DrvSearch(d) \/ DrvAbandon(d) \/ DrvUnbind(d) \/ DrvMisc(d)
          PROVE  UNCHANGED <<res, items>>
      BY <3>3 DEF DrvSingle, DrvSearch, DrvAbandon, DrvUnbind, DrvMisc, streamvars
    <3> QED
      BY <1>7, <3>1, <3>2, <3>3
      DEF DriverStep, ScrubBranch, OpBranch, MiscBranch, StreamBranch, DriverEnds
  <2> QED  BY <1>5, <1>7, <2>1
<1> QED  BY <1>2, <1>3, <1>4, <1>6, <1>7, Steps

\* A step in which nobody starts to hold an id and no held or queued id is
\* released.
LEMMA HeldShrinks ==
    ASSUME IdsHeld, ScrubsUnheld, DataType, givenUp = {}, UNCHANGED id,
           \/ scrubq' = scrubq
           \/ scrubq' = <<>>
           \/ scrubq # <<>> /\ scrubq' = Tail(scrubq),
           \A d \in Calls : Holds(d)' => Holds(d),
           \A d \in Calls : Holds(d)' /\ id[d] \in used => id[d] \in used',
           \A i \in Queued(scrubq') : i \in used => i \in used'
    PROVE  IdsHeld' /\ ScrubsUnheld'
<1>0. scrubq \in Seq(Ids)  BY DEF DataType, DriverType
<1>1. /\ \A d \in Calls : Holds(d) => id[d] \in used
      /\ \A c, d \in Calls : Holds(c) /\ Holds(d) /\ id[c] = id[d] => c = d
      /\ \A i \in Queued(scrubq) : i \in used /\ \A c \in Calls : Holds(c) => id[c] # i
      /\ \A j, k \in DOMAIN scrubq : scrubq[j] = scrubq[k] => j = k
  BY DEF IdsHeld, ScrubsUnheld
<1>2. Queued(scrubq') \subseteq Queued(scrubq)
  <2>1. CASE scrubq' = scrubq  BY <2>1
  <2>2. CASE scrubq' = <<>>    BY <2>2 DEF Queued
  <2>3. CASE scrubq # <<>> /\ scrubq' = Tail(scrubq)  BY <1>0, <2>3, QueuedTail
  <2> QED  BY <2>1, <2>2, <2>3
<1>3. \A j, k \in DOMAIN scrubq' : scrubq'[j] = scrubq'[k] => j = k
  <2>1. CASE scrubq' = scrubq  BY <1>1, <2>1
  <2>2. CASE scrubq' = <<>>    BY <2>2
  <2>3. CASE scrubq # <<>> /\ scrubq' = Tail(scrubq)
    BY <1>0, <1>1, <2>3, QueuedTailOnce
  <2> QED  BY <2>1, <2>2, <2>3
<1>4. IdsHeld'  BY <1>1 DEF IdsHeld
<1>5. ScrubsUnheld'  BY <1>1, <1>2, <1>3 DEF ScrubsUnheld
<1> QED  BY <1>4, <1>5

\* A new id is in use by nobody.
LEMMA HeldNew ==
    ASSUME Inv, givenUp = {}, NEW c \in Calls, NextMsgId(c)
    PROVE  IdsHeld' /\ ScrubsUnheld'
<1> USE DEF Inv, TypeInv, HeldInv
<1>1. PICK n \in Ids : /\ n \notin used /\ used' = used \cup {n}
                       /\ id' = [id EXCEPT ![c] = n]
  BY DEF NextMsgId, IsNextId
<1>2. /\ \A d \in Calls : Holds(d) => id[d] \in used
      /\ \A b, d \in Calls : Holds(b) /\ Holds(d) /\ id[b] = id[d] => b = d
      /\ \A i \in Queued(scrubq) : i \in used /\ \A d \in Calls : Holds(d) => id[d] # i
      /\ \A j, k \in DOMAIN scrubq : scrubq[j] = scrubq[k] => j = k
  BY DEF IdsHeld, ScrubsUnheld
<1>3. /\ UNCHANGED <<kind, stm, srv, wire, resultmap, searchmap, opq, scrubq>>
      /\ pc' = [pc EXCEPT ![c] = "tuple"]
  BY DEF NextMsgId, queuevars, netvars, mapvars
<1>4. \A d \in Calls : Holds(d)' => Holds(d) \/ d = c
  BY <1>3 DEF Holds, OnWire, Filed, IsSearch, DataType, CallType
<1>5. id'[c] = n /\ \A d \in Calls : d # c => id'[d] = id[d]
  BY <1>1 DEF DataType, CallType
<1>6. \A d \in Calls : Holds(d)' => id'[d] = n \/ (d # c /\ Holds(d) /\ id'[d] \in used)
  BY <1>2, <1>4, <1>5
<1>7. IdsHeld'
  <2>1. \A d \in Calls : Holds(d)' => id'[d] \in used'  BY <1>1, <1>6
  <2>2. ASSUME NEW b \in Calls, NEW d \in Calls, Holds(b)', Holds(d)', id'[b] = id'[d]
        PROVE  b = d
    BY <1>1, <1>2, <1>4, <1>5, <2>2
  <2> QED  BY <2>1, <2>2 DEF IdsHeld
<1>8. ScrubsUnheld'
  BY <1>1, <1>2, <1>3, <1>4, <1>5 DEF ScrubsUnheld
<1> QED  BY <1>7, <1>8

\* finish() after the final result: the id it sends is no longer needed, and
\* was needed, hence not queued, until now.
LEMMA HeldFinish ==
    ASSUME Inv, givenUp = {}, NEW c \in Calls, Client(c), StreamFinish(c), res[c]
    PROVE  IdsHeld' /\ ScrubsUnheld'
<1> USE DEF Inv, TypeInv, HeldInv, LifeInv
<1>0. scrubq \in Seq(Ids)  BY DEF DataType, DriverType
<1>1. /\ \A d \in Calls : Holds(d)' => Holds(d)
      /\ UNCHANGED <<used, id, kind, pc, opq, srv, wire, resultmap, searchmap>>
  <2>1. ~NextMsgId(c)
    <3>1. stm[c] \in OpenStates  BY DEF StreamFinish
    <3>2. pc[c] = "ok"  BY <3>1 DEF Lifecycle
    <3> QED  BY <3>2 DEF NextMsgId
  <2>2. UNCHANGED <<used, id, kind, pc, opq, srv, wire, resultmap, searchmap>>
    BY DEF StreamFinish, msgvars, callvars, mapvars, netvars
  <2> QED  BY <2>1, <2>2, HoldsClient
<1>2. CASE scrubq' = scrubq
  <2>1. \A d \in Calls : Holds(d)' /\ id[d] \in used => id[d] \in used'  BY <1>1
  <2>2. \A i \in Queued(scrubq') : i \in used => i \in used'  BY <1>1
  <2> QED  BY <1>1, <1>2, <2>1, <2>2, HeldShrinks
<1>3. CASE scrubq' = Append(scrubq, id[c])
  <2>1. /\ \A d \in Calls : Holds(d) => id[d] \in used
        /\ \A b, d \in Calls : Holds(b) /\ Holds(d) /\ id[b] = id[d] => b = d
        /\ \A i \in Queued(scrubq) : i \in used /\ \A d \in Calls : Holds(d) => id[d] # i
        /\ \A j, k \in DOMAIN scrubq : scrubq[j] = scrubq[k] => j = k
    BY DEF IdsHeld, ScrubsUnheld
  <2>2. Holds(c)  BY DEF StreamFinish, Holds
  <2>3. ~Holds(c)'
    <3>1. /\ c \notin Queued(opq) /\ c \notin srv /\ ~OnWire(c) /\ ~Filed(c)
          /\ pc[c] = "ok"
      BY DEF EndSeen, IdsAmbiguous, StreamFinish, Lifecycle
    <3>2. stm'[c] = "Closed"  BY DEF StreamFinish, DataType, StreamType
    <3> QED  BY <1>1, <3>1, <3>2 DEF Holds, OnWire, Filed, OpenStates
  <2>4. Queued(scrubq') = Queued(scrubq) \cup {id[c]}  BY <1>0, <1>3, QueuedAppend
  <2>5. \A j, k \in DOMAIN scrubq' : scrubq'[j] = scrubq'[k] => j = k
    BY <1>0, <1>3, <2>1, <2>2, QueuedAppendOnce
  <2>6. IdsHeld'  BY <1>1, <2>1 DEF IdsHeld
  <2>7. ScrubsUnheld'
    <3>1. \A i \in Queued(scrubq') : i \in used'  BY <1>1, <2>1, <2>2, <2>4
    <3>2. ASSUME NEW i \in Queued(scrubq'), NEW d \in Calls, Holds(d)' PROVE id'[d] # i
      BY <1>1, <2>1, <2>2, <2>3, <2>4, <3>2
    <3> QED  BY <2>5, <3>1, <3>2 DEF ScrubsUnheld
  <2> QED  BY <2>6, <2>7
<1> QED  BY <1>2, <1>3 DEF StreamFinish, ScrubSent

\* The branches of the driver that release an id, and the others.
LEMMA HeldDriver ==
    ASSUME Inv, givenUp = {}, DriverStep
    PROVE  IdsHeld' /\ ScrubsUnheld'
<1> USE DEF Inv, TypeInv, RouteInv, HeldInv, LifeInv
<1>0. /\ \A d \in Calls : Holds(d)' => Holds(d)
      /\ UNCHANGED <<id, kind, pc, stm>>
      /\ \/ scrubq' = scrubq
         \/ scrubq' = <<>>
         \/ scrubq # <<>> /\ scrubq' = Tail(scrubq)
      /\ scrubq \in Seq(Ids)
  BY DriverHolds, DriverFrame, DriverQueues DEF DataType, DriverType
<1>1. /\ \A d \in Calls : Holds(d) => id[d] \in used
      /\ \A b, d \in Calls : Holds(b) /\ Holds(d) /\ id[b] = id[d] => b = d
      /\ \A i \in Queued(scrubq) : i \in used /\ \A d \in Calls : Holds(d) => id[d] # i
      /\ \A j, k \in DOMAIN scrubq : scrubq[j] = scrubq[k] => j = k
  BY DEF IdsHeld, ScrubsUnheld
<1>2. CASE UNCHANGED used
  <2>1. \A d \in Calls : Holds(d)' /\ id[d] \in used => id[d] \in used'  BY <1>2
  <2>2. \A i \in Queued(scrubq') : i \in used => i \in used'  BY <1>2
  <2> QED  BY <1>0, <2>1, <2>2, HeldShrinks
<1>3. CASE DrvScrub
  <2>1. scrubq # <<>> /\ scrubq' = Tail(scrubq) /\ used' = used \ {Head(scrubq)}
    BY <1>3 DEF DrvScrub
  <2>2. Head(scrubq) \in Queued(scrubq) /\ Head(scrubq) \notin Queued(scrubq')
    BY <1>0, <1>1, <2>1, QueuedTail, QueuedTailOnce
  <2>3. \A d \in Calls : Holds(d)' /\ id[d] \in used => id[d] \in used'
    BY <1>0, <1>1, <2>1, <2>2
  <2>4. \A i \in Queued(scrubq') : i \in used => i \in used'  BY <2>1, <2>2
  <2> QED  BY <1>0, <2>3, <2>4, HeldShrinks
<1>4. ASSUME NEW c \in Calls, DrvAbandon(c) PROVE IdsHeld' /\ ScrubsUnheld'
  <2>1. TakeOp(c) /\ used' = used \ {id[c]} /\ kind[c] = "Abandon"
        /\ UNCHANGED <<scrubq, srv, wire>>
    BY <1>4 DEF DrvAbandon, AbandonReleases
  <2>2. /\ c \in Queued(opq) /\ c \notin Queued(opq') /\ pc[c] # "tuple"
        /\ c \notin srv /\ ~OnWire(c) /\ ~Filed(c)
    BY <2>1, SentFacts
  <2>3. ~IsSearch(c) /\ stm[c] \notin OpenStates
    BY <2>1 DEF IsSearch, SearchKinds, Lifecycle
  <2>4. ~Holds(c)'
    <3>1. ~Filed(c)'
      BY <1>4, <2>2, CallsAssumption DEF DrvAbandon, Filed, Without
    <3> QED  BY <1>0, <2>1, <2>2, <2>3, <3>1 DEF Holds, OnWire, IsSearch
  <2>5. Holds(c)  BY <2>2 DEF Holds
  <2>6. \A d \in Calls : Holds(d)' /\ id[d] \in used => id[d] \in used'
    BY <1>0, <1>1, <2>1, <2>4, <2>5
  <2>7. \A i \in Queued(scrubq') : i \in used => i \in used'
    BY <1>1, <2>1, <2>5
  <2> QED  BY <1>0, <2>6, <2>7, HeldShrinks
<1>5. CASE DrvResult /\ used' # used
  <2>0. ~IdsAmbiguous  BY DEF IdsAmbiguous
  <2>1. PICK d \in Calls : /\ Lookup(resultmap, MsgId(Head(wire))) = d
                           /\ resultmap' = Without(resultmap, MsgId(Head(wire)))
    BY <1>5 DEF DrvResult, Lookup, DataType, DriverType
  <2>2. /\ wire # <<>> /\ wire' = Tail(wire) /\ wire \in Seq(Messages)
        /\ used' = used \ {MsgId(Head(wire))}
        /\ UNCHANGED <<searchmap, opq, scrubq, srv>>
    BY <1>5 DEF DrvResult, NextResp, queuevars, DataType, NetType
  <2>3. Head(wire).from = d /\ MsgId(Head(wire)) = id[d] /\ id[d] \in Ids
    BY <2>0, <2>1, <2>2, Dispatch
  <2>4. resultmap[id[d]] = d /\ kind[d] = "Single"
    BY <2>1, <2>3 DEF Lookup, MapsAgree
  <2>5. ~IsSearch(d) /\ stm[d] \notin OpenStates
    BY <2>4 DEF IsSearch, SearchKinds, Lifecycle
  <2>6. wire[1] = Head(wire) /\ 1 \in DOMAIN wire  BY <2>2
  <2>7. Head(wire).tag = "result"
    BY <2>3, <2>5, <2>6, CallsAssumption DEF WireAgrees, WellTagged
  <2>8. d \notin srv /\ \A j \in DOMAIN wire : j > 1 => wire[j].from # d
    BY <2>3, <2>6, <2>7 DEF FinalIsLast
  <2>9. ~OnWire(d)'
    <3>1. \A k \in DOMAIN Tail(wire) : k + 1 \in DOMAIN wire /\ k + 1 > 1
                                      /\ Tail(wire)[k] = wire[k + 1]
      BY <2>2
    <3> QED  BY <2>2, <2>8, <3>1 DEF OnWire
  <2>10. OnWire(d)  BY <2>3, <2>6 DEF OnWire
  <2>11. d \notin Queued(opq) /\ pc[d] \notin {"idle", "tuple"}
    BY <2>10 DEF Lifecycle
  <2>12. ~Filed(d)'
    <3>1. \A j \in Ids : searchmap[j] # d  BY <2>5 DEF MapsAgree
    <3>2. \A j \in Ids : resultmap'[j] # d
      BY <2>1, <2>3, CallsAssumption DEF MapsAgree, Without
    <3> QED  BY <2>2, <3>1, <3>2 DEF Filed
  <2>13. ~Holds(d)'
    BY <1>0, <2>2, <2>5, <2>8, <2>9, <2>11, <2>12 DEF Holds, IsSearch
  <2>14. Holds(d)  BY <2>10 DEF Holds
  <2>15. \A c \in Calls : Holds(c)' /\ id[c] \in used => id[c] \in used'
    BY <1>0, <1>1, <2>2, <2>3, <2>13, <2>14
  <2>16. \A i \in Queued(scrubq') : i \in used => i \in used'
    BY <1>1, <2>2, <2>3, <2>14
  <2> QED  BY <1>0, <2>15, <2>16, HeldShrinks
<1>6. CASE DriverEnds  BY <1>2, <1>6, DriverEndsStop DEF msgvars
<1>7. CASE DrvSearchItem \/ DrvUnmatched
  BY <1>2, <1>7 DEF DrvSearchItem, DrvUnmatched, msgvars
<1>8. ASSUME NEW c \in Calls, DrvSingle(c) \/ DrvSearch(c) \/ DrvUnbind(c) \/ DrvMisc(c)
      PROVE  UNCHANGED used
  BY <1>8 DEF DrvSingle, DrvSearch, DrvUnbind, DrvMisc, msgvars
<1> QED
  BY <1>2, <1>3, <1>4, <1>5, <1>6, <1>7, <1>8
  DEF DriverStep, ScrubBranch, OpBranch, MiscBranch, StreamBranch, DriverEnds

LEMMA HeldStep ==
    ASSUME Inv, [Next]_vars
    PROVE  IdsHeld' /\ ScrubsUnheld'
<1> USE DEF Inv, TypeInv, HeldInv, LifeInv
<1> SUFFICES ASSUME givenUp' = {} PROVE IdsHeld' /\ ScrubsUnheld'
  BY DEF IdsHeld, ScrubsUnheld
<1>0. givenUp = {}  BY Monotone
<1>1. ASSUME UNCHANGED <<id, used, scrubq>>, \A d \in Calls : Holds(d)' => Holds(d)
      PROVE  IdsHeld' /\ ScrubsUnheld'
  BY <1>0, <1>1, HeldShrinks
<1>2. ASSUME NEW c \in Calls, Client(c) PROVE IdsHeld' /\ ScrubsUnheld'
  <2>1. CASE NextMsgId(c)  BY <1>0, <2>1, HeldNew
  <2>2. CASE StreamFinish(c) /\ res[c]  BY <1>0, <1>2, <2>2, HeldFinish
  <2>3. CASE ~NextMsgId(c) /\ ~(StreamFinish(c) /\ res[c])
    BY <1>1, <1>2, <2>3, HoldsClient, ClientChannels
  <2> QED  BY <2>1, <2>2, <2>3
<1>3. CASE ServerStep
  <2>1. UNCHANGED <<kind, pc, stm, opq, id, used, scrubq>>
    BY <1>3, ServerFrame DEF msgvars, callvars, streamvars, queuevars
  <2>2. \A d \in Calls : Holds(d)' => Holds(d)
    BY <1>3, <2>1, ServerMoves DEF Holds, IsSearch
  <2> QED  BY <1>1, <2>1, <2>2
<1>4. CASE DropHandles \/ UNCHANGED vars
  <2>1. UNCHANGED <<kind, pc, stm, opq, id, used, scrubq, srv, wire, resultmap, searchmap>>
    BY <1>4 DEF DropHandles, vars, msgvars, callvars, streamvars, queuevars, netvars, mapvars
  <2>2. \A d \in Calls : Holds(d)' => Holds(d)
    BY <2>1 DEF Holds, IsSearch, OnWire, Filed
  <2> QED  BY <1>1, <2>1, <2>2
<1>5. CASE DriverStep  BY <1>0, <1>5, HeldDriver
<1> QED  BY <1>2, <1>3, <1>4, <1>5, Steps

-----------------------------------------------------------------------------
(* The theorems *)

LEMMA InvStep == Inv /\ [Next]_vars => Inv'
<1> SUFFICES ASSUME Inv, [Next]_vars PROVE Inv'
  OBVIOUS
<1>1. TypeInv'
  BY DataTypeStep, FlagTypeStep DEF Inv, TypeInv
<1>2. RouteInv'
  BY AscendingStep, MapsStep, WireStep DEF Inv, TypeInv, RouteInv, LifeInv
<1>3. LifeInv'
  BY QueuedOnceStep, LifecycleStep, FinalStep DEF Inv, TypeInv, RouteInv, LifeInv
<1>4. HeldInv'  BY HeldStep, EndSeenStep DEF HeldInv
<1>5. Matched' /\ DriverSurvives'  BY MatchedStep, SurvivesStep
<1> QED  BY <1>1, <1>2, <1>3, <1>4, <1>5 DEF Inv

LEMMA InvAlways == Spec => []Inv
BY InitInv, InvStep, PTL DEF Spec

\* The dispatch of LdapConnAsync::turn by message id: for any number of
\* handles, calls and ids, a caller and a stream only get what the server sent
\* in answer to their own request, unless ids have wrapped around and some call
\* was given up before its end.
THEOREM DispatchCorrect == Spec => []Matched
BY InvAlways, PTL DEF Inv

\* Under the same circumstances panic!("unrecognized op id") in turn() is
\* unreachable; the driver panics only on the mutex that next_msgid poisoned.
THEOREM DriverNeverPanics == Spec => []DriverSurvives
BY InvAlways, PTL DEF Inv
=============================================================================
