--------------------------- MODULE EstablishProofs ---------------------------
(***************************************************************************)
(* Proofs about the establishment of a connection, for any number of       *)
(* messages the server may send unasked.                                   *)
(***************************************************************************)
EXTENDS Establish, TLAPS

\* Before there is a connection nothing has happened on it.
NotYet == pc \in {"begin", "connecting"} => conn = "none" /\ op = "none" /\ buf = <<>>

\* Only StartTLS uses an operation and the task.
OnlyStartTls ==
    ~StartsTls => pc # "starttls" /\ op = "none" /\ conn \notin {"task", "joined"}

\* The operation owns an id while it is under way, and it is the reply that
\* ends the turn in which it arrives.
OpInv ==
    /\ op \in {"none", "replied"} => used = {}
    /\ op = "replied" => broke = "reply" /\ conn # "task"

\* The handshake begins after a success, with an empty buffer.
HandshakeInv ==
    pc \in {"handshake", "ok"} =>
        buf = <<>> /\ (StartsTls => op = "replied" /\ rc = "success")

\* What new_tcp makes a TLS connection of.
Handshakes == cfg.scheme = "ldaps" \/ StartsTls

\* Only these connections go through the handshake, all of them do before they
\* are ready, and the others keep the socket they began with.
ReadyInv ==
    /\ pc \in {"connecting", "ok"} => cfg.scheme # "other"
    /\ pc \in {"starttls", "handshake"} => Handshakes
    /\ io = "tls" \/ has_tls => pc = "ok" /\ Handshakes
    /\ pc = "ok" /\ Handshakes => io = "tls" /\ has_tls
    /\ pc = "ok" /\ ~Handshakes => io = StreamFor(cfg.scheme)

Inv == TypeOK /\ NotYet /\ OnlyStartTls /\ OpInv /\ HandshakeInv /\ ReadyInv

LEMMA InitInv == Init => Inv
<1> SUFFICES ASSUME Init PROVE Inv
    OBVIOUS
<1>1. FlagType
    BY Zenon DEF Init, FlagType
<1>2. CallType /\ NetType
    BY MaxStrayAssumption DEF Init, CallType, NetType, Ended
<1>3. Owned /\ NotYet /\ OnlyStartTls /\ OpInv /\ HandshakeInv /\ ReadyInv
    BY DEF Init, Owned, NotYet, OnlyStartTls, OpInv, HandshakeInv, ReadyInv
<1> QED
    BY <1>1, <1>2, <1>3 DEF Inv, TypeOK

\* What a failing call drops does not disturb the invariant.
LEMMA GiveUpInv ==
    ASSUME Inv, pc # "ok", NEW e \in {"error", "panicked"}, GiveUp(e)
    PROVE  Inv'
<1>1. FlagType'
    BY Zenon DEF Inv, TypeOK, FlagType, GiveUp, netvars
<1>2. CallType' /\ NetType' /\ Owned'
    BY DEF Inv, TypeOK, CallType, NetType, Owned, Ended, GiveUp, opvars, netvars
<1>3. NotYet' /\ OnlyStartTls' /\ OpInv' /\ HandshakeInv' /\ ReadyInv'
    BY DEF Inv, GiveUp, NotYet, OnlyStartTls, OpInv, HandshakeInv, ReadyInv,
           Handshakes, StreamFor, StartsTls, opvars
<1> QED
    BY <1>1, <1>2, <1>3 DEF Inv, TypeOK

LEMMA NewPairInv ==
    ASSUME Inv, pc \in {"begin", "connecting"}, cfg.scheme # "other", NewPair
    PROVE  Inv'
<1>1. FlagType'
    BY Zenon DEF Inv, TypeOK, FlagType, NewPair, netvars
<1>2. CallType' /\ NetType' /\ Owned'
    BY DEF Inv, TypeOK, CallType, NetType, Owned, NotYet, Ended, NewPair, AfterConnect,
           StreamFor, StartsTls, opvars, netvars
<1>3. NotYet' /\ OnlyStartTls' /\ OpInv' /\ HandshakeInv' /\ ReadyInv'
    BY DEF Inv, NewPair, AfterConnect, NotYet, OnlyStartTls, OpInv, HandshakeInv, ReadyInv,
           Handshakes,
           StreamFor, StartsTls, opvars
<1> QED
    BY <1>1, <1>2, <1>3 DEF Inv, TypeOK

\* A read takes the messages off the wire and leaves the rest of them in the
\* buffer.
LEMMA ReceivesType ==
    ASSUME NEW S, wire \in Seq(S), NEW msgs, Receives(msgs)
    PROVE  wire' \in Seq(S) /\ buf' \in Seq(S) /\ Head(wire) \in msgs
BY DEF Receives

\* The end of the turn: the task no longer owns the connection.
LEMMA TurnEndsInv ==
    ASSUME Inv, conn = "task", NEW r \in {"reply", "stray", "eof", "closed"}, TurnEnds(r)
    PROVE  /\ conn' \in {"joined", "none"} /\ broke' = r
           /\ conn' = "joined" => pc = "starttls"
           /\ pc \notin {"begin", "connecting", "handshake", "ok"}
           /\ StartsTls /\ op # "replied"
BY DEF Inv, TypeOK, Owned, NotYet, OnlyStartTls, OpInv, TurnEnds, SentBack

LEMMA NextInv == Inv /\ [Next]_vars => Inv'
<1> SUFFICES ASSUME Inv, [Next]_vars PROVE Inv'
    OBVIOUS
<1> USE DEF Inv, TypeOK
<1>1. CASE Refuse
    BY <1>1, GiveUpInv DEF Refuse
<1>2. CASE PanicNoHost
    BY <1>2, GiveUpInv DEF PanicNoHost
<1>3. CASE Connect
  <2>1. FlagType'
      BY <1>3, Zenon DEF FlagType, Connect, netvars
  <2>2. CallType' /\ NetType' /\ Owned'
      BY <1>3 DEF CallType, NetType, Owned, NotYet, Ended, Connect, opvars, netvars
  <2>3. NotYet' /\ OnlyStartTls' /\ OpInv' /\ HandshakeInv' /\ ReadyInv'
      BY <1>3 DEF Connect, BadUrl, NotYet, OnlyStartTls, OpInv, HandshakeInv, ReadyInv,
                  Handshakes, StreamFor, StartsTls, opvars
  <2> QED
      BY <2>1, <2>2, <2>3
<1>4. CASE ConnectedAtOnce
    BY <1>4, NewPairInv DEF ConnectedAtOnce, BadUrl
<1>5. CASE Connected
    BY <1>5, NewPairInv DEF Connected, ReadyInv
<1>6. CASE ConnectFails
    BY <1>6, GiveUpInv DEF ConnectFails
<1>7. CASE ExtendedSend
  <2>1. FlagType'
      BY <1>7, Zenon DEF FlagType, ExtendedSend, callvars, netvars
  <2>2. CallType' /\ NetType' /\ Owned'
      BY <1>7 DEF CallType, NetType, Owned, ExtendedSend, callvars, netvars
  <2>3. NotYet' /\ OnlyStartTls' /\ OpInv' /\ HandshakeInv' /\ ReadyInv'
      BY <1>7 DEF ExtendedSend, Owned, CallType, NotYet, OnlyStartTls, OpInv, HandshakeInv,
                  ReadyInv, Handshakes, StreamFor, StartsTls, callvars
  <2> QED
      BY <2>1, <2>2, <2>3
<1>8. CASE ExtendedFails
    BY <1>8, GiveUpInv DEF ExtendedFails
<1>9. CASE Joined
  <2>1. CASE ~Accepts(rc)
      BY <1>9, <2>1, GiveUpInv DEF Joined
  <2>2. CASE Accepts(rc)
    <3>0. /\ pc = "starttls" /\ conn = "joined" /\ op = "replied" /\ rc = "success"
          /\ pc' = "handshake" /\ conn' = "here" /\ buf' = <<>>
          /\ UNCHANGED <<cfg, handle, has_tls, io, opvars, broke, netvars>>
        BY <1>9, <2>2 DEF Joined, Accepts, Unread
    <3>1. FlagType'
        BY <3>0, Zenon DEF FlagType, netvars
    <3>2. CallType' /\ NetType'
        BY <3>0 DEF CallType, NetType, opvars, netvars
    <3>3. NotYet' /\ OnlyStartTls' /\ OpInv' /\ HandshakeInv' /\ ReadyInv'
        BY <3>0 DEF NotYet, OnlyStartTls, OpInv, HandshakeInv, ReadyInv,
                    Handshakes, StreamFor, StartsTls, opvars
    <3>4. Owned'
        BY <3>0 DEF Owned
    <3> QED
        BY <3>1, <3>2, <3>3, <3>4
  <2> QED
      BY <2>1, <2>2
<1>10. CASE TaskSends
  <2>1. FlagType'
      BY <1>10, Zenon DEF FlagType, TaskSends, callvars
  <2>2. CallType' /\ NetType' /\ Owned'
      BY <1>10 DEF CallType, NetType, Owned, TaskSends, callvars
  <2>3. NotYet' /\ OnlyStartTls' /\ OpInv' /\ HandshakeInv' /\ ReadyInv'
      BY <1>10 DEF TaskSends, Owned, NotYet, OnlyStartTls, OpInv, HandshakeInv, ReadyInv,
                   Handshakes,
                   StreamFor, StartsTls, callvars
  <2> QED
      BY <2>1, <2>2, <2>3
<1>11. CASE TaskFails
  <2>1. FlagType'
      BY <1>11, Zenon DEF FlagType, TaskFails, callvars, netvars
  <2>2. CallType' /\ NetType' /\ Owned'
      BY <1>11 DEF CallType, NetType, Owned, TaskFails, callvars, opvars, netvars
  <2>3. NotYet' /\ OnlyStartTls' /\ OpInv' /\ HandshakeInv' /\ ReadyInv'
      BY <1>11 DEF TaskFails, Owned, NotYet, OnlyStartTls, OpInv, HandshakeInv, ReadyInv,
                   Handshakes,
                   StreamFor, StartsTls, callvars, opvars
  <2> QED
      BY <2>1, <2>2, <2>3
<1>12. CASE TaskReplies
  <2>1. FlagType'
      BY <1>12, Zenon DEF FlagType, TaskReplies, callvars
  <2>2. wire' \in Seq({"success", "refused", "stray"})
        /\ buf' \in Seq({"success", "refused", "stray"})
        /\ rc' \in {"success", "refused"}
      BY <1>12, ReceivesType DEF TaskReplies, NetType
  <2>3. /\ conn' \in {"joined", "none"} /\ broke' = "reply"
        /\ conn' = "joined" => pc = "starttls"
        /\ pc \notin {"begin", "connecting", "handshake", "ok"}
        /\ StartsTls
      BY <1>12, TurnEndsInv DEF TaskReplies
  <2>4. CallType' /\ NetType' /\ Owned'
      BY <1>12, <2>2, <2>3 DEF CallType, NetType, Owned, TaskReplies, callvars
  <2>5. NotYet' /\ OnlyStartTls' /\ OpInv' /\ HandshakeInv' /\ ReadyInv'
      BY <1>12, <2>2, <2>3 DEF TaskReplies, NotYet, OnlyStartTls, OpInv, HandshakeInv,
                               ReadyInv, Handshakes, StreamFor, StartsTls, callvars
  <2> QED
      BY <2>1, <2>4, <2>5
<1>13. CASE TaskUnmatched \/ TaskEof \/ TaskNoHandle
  <2>1. FlagType'
      BY <1>13, Zenon DEF FlagType, TaskUnmatched, TaskEof, TaskNoHandle, callvars, netvars
  <2>2. wire' \in Seq({"success", "refused", "stray"})
        /\ buf' \in Seq({"success", "refused", "stray"})
      BY <1>13, ReceivesType DEF TaskUnmatched, TaskEof, TaskNoHandle, netvars, NetType
  <2>3. /\ conn' \in {"joined", "none"} /\ broke' \in {"stray", "eof", "closed"}
        /\ conn' = "joined" => pc = "starttls"
        /\ pc \notin {"begin", "connecting", "handshake", "ok"}
        /\ StartsTls /\ op # "replied"
      BY <1>13, TurnEndsInv DEF TaskUnmatched, TaskEof, TaskNoHandle
  <2>4. UNCHANGED <<cfg, callvars, io, opvars, peer, stray>>
      BY <1>13 DEF TaskUnmatched, TaskEof, TaskNoHandle, netvars
  <2>5. CallType' /\ NetType' /\ Owned'
      BY <2>2, <2>3, <2>4 DEF CallType, NetType, Owned, callvars, opvars
  <2>6. NotYet' /\ OnlyStartTls' /\ OpInv' /\ HandshakeInv' /\ ReadyInv'
      BY <2>3, <2>4 DEF NotYet, OnlyStartTls, OpInv, HandshakeInv, ReadyInv,
                        Handshakes, StreamFor, StartsTls,
                        callvars, opvars
  <2> QED
      BY <2>1, <2>5, <2>6
<1>14. CASE HandshakeOk
  <2>1. FlagType'
      BY <1>14, Zenon DEF FlagType, HandshakeOk, netvars
  <2>2. CallType' /\ NetType' /\ Owned'
      BY <1>14 DEF CallType, NetType, Owned, Ended, HandshakeOk, opvars, netvars
  <2>3. NotYet' /\ OnlyStartTls' /\ OpInv' /\ HandshakeInv' /\ ReadyInv'
      BY <1>14 DEF HandshakeOk, Owned, NotYet, OnlyStartTls, OpInv, HandshakeInv, ReadyInv,
                   Handshakes,
                   StreamFor, StartsTls, opvars
  <2> QED
      BY <2>1, <2>2, <2>3
<1>15. CASE HandshakeFails
    BY <1>15, GiveUpInv DEF HandshakeFails
<1>16. CASE Timeout
    BY <1>16, GiveUpInv DEF Timeout
<1>17. CASE SrvAnswers \/ SrvStray \/ SrvCloses
  <2>1. FlagType'
      BY <1>17, Zenon DEF FlagType, SrvAnswers, SrvStray, SrvCloses, callvars
  <2>2. NetType'
    <3>1. CASE SrvAnswers
        BY <3>1 DEF NetType, SrvAnswers
    <3>2. CASE SrvStray
        BY <3>2, MaxStrayAssumption DEF NetType, SrvStray
    <3>3. CASE SrvCloses
        BY <3>3 DEF NetType, SrvCloses
    <3> QED
        BY <1>17, <3>1, <3>2, <3>3
  <2>3. UNCHANGED <<cfg, callvars, io, conn, opvars, broke, buf>>
      BY <1>17 DEF SrvAnswers, SrvStray, SrvCloses
  <2>4. CallType' /\ Owned' /\ NotYet' /\ OnlyStartTls' /\ OpInv' /\ HandshakeInv' /\ ReadyInv'
      BY <2>3 DEF CallType, Owned, NotYet, OnlyStartTls, OpInv, HandshakeInv, ReadyInv,
                  Handshakes,
                  StreamFor, StartsTls, callvars, opvars
  <2> QED
      BY <2>1, <2>2, <2>4
<1>18. CASE HandedOverFails
    BY <1>18, GiveUpInv DEF HandedOverFails
<1>19. CASE Finished \/ UNCHANGED vars
  <2>1. UNCHANGED vars
      BY <1>19 DEF Finished
  <2> QED
      BY <2>1 DEF FlagType, CallType, NetType, Owned, NotYet, OnlyStartTls, OpInv, HandshakeInv,
                  ReadyInv, Handshakes, StreamFor, StartsTls, vars, callvars, opvars, netvars
<1> QED
    BY <1>1, <1>2, <1>3, <1>4, <1>5, <1>6, <1>7, <1>8, <1>9, <1>10, <1>11, <1>12, <1>13,
       <1>14, <1>15, <1>16, <1>17, <1>18, <1>19
       DEF Next, Task, Call, Outside

LEMMA Invariance == Spec => []Inv
BY InitInv, NextInv, PTL DEF Spec

\* The types of the variables, and that the connection moves between the
\* future, the task and the oneshot without being lost or left behind.
THEOREM TypeCorrect == Spec => []TypeOK
<1>1. Inv => TypeOK
    BY DEF Inv
<1> QED
    BY <1>1, Invariance, PTL

\* Whoever asks for TLS, by the scheme or by set_starttls, gets a TLS stream or
\* no connection, or, over ldapi, a local socket in the clear; nobody else gets
\* TLS: whatever the server sends and in whatever order the task and the future
\* run.
THEOREM Secure == Spec => []SecureOrError
<1>1. Inv => SecureOrError
  <2> SUFFICES ASSUME Inv, pc = "ok" PROVE SecureOrError
      BY DEF SecureOrError
  <2>1. CASE Handshakes
      BY <2>1 DEF Inv, OpInv, HandshakeInv, ReadyInv, Handshakes, StartsTls, AsksForTls,
                  Secured, SecureOrError
  <2>2. CASE ~Handshakes
    <3>1. cfg.scheme \in {"ldap", "ldapi"} /\ (AsksForTls => cfg.scheme = "ldapi")
        BY <2>2 DEF Inv, TypeOK, CallType, Configs, ReadyInv, Handshakes, StartsTls, AsksForTls
    <3>2. io = StreamFor(cfg.scheme) /\ ~has_tls
        BY <2>2 DEF Inv, ReadyInv
    <3> QED
        BY <3>1, <3>2 DEF StreamFor, SecureOrError
  <2> QED
      BY <2>1, <2>2
<1> QED
    BY <1>1, Invariance, PTL

\* The socket of ldapi is the only way not to get what set_starttls promises.
THEOREM SecureOverTcp == Spec => [](cfg.scheme # "ldapi" => SecureAsAsked)
<1>1. SecureOrError => (cfg.scheme # "ldapi" => SecureAsAsked)
    BY DEF SecureOrError, SecureAsAsked
<1> QED
    BY <1>1, Secure, PTL

\* The connection handed out holds no id, no sender and no plain text.
THEOREM StartsClean == Spec => []CleanStart
<1>1. Inv => CleanStart
    BY DEF Inv, OnlyStartTls, OpInv, HandshakeInv, CleanStart
<1> QED
    BY <1>1, Invariance, PTL
=============================================================================
