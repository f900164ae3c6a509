------------------------------ MODULE Establish ------------------------------
(***************************************************************************)
(* How a connection comes into being: LdapConnAsync::from_url_with_settings *)
(* with new_unix and new_tcp (conn.rs), in a build with TLS.               *)
(*                                                                         *)
(* For StartTLS the connection is given to a spawned task that runs turn() *)
(* in its SingleOp mode and sends the connection back, while the handle    *)
(* performs the extended operation; try_join! waits for both.  Then the    *)
(* Framed is taken apart and its socket handed to the TLS library.  The    *)
(* connection timeout drops all of this at any await, except for the task, *)
(* which runs on.  The server, the network and the TLS library are         *)
(* external.                                                               *)
(***************************************************************************)
EXTENDS Naturals, Sequences

CONSTANT MaxStray    \* bound on the messages the server sends unasked

ASSUME MaxStrayAssumption == MaxStray \in Nat

Configs == [scheme   : {"ldap", "ldaps", "ldapi", "other"},
            host     : {"some", "empty", "none", "port"},
            starttls : BOOLEAN,
            stream   : {"none", "tcp", "unix", "invalid"},
            timeout  : BOOLEAN]

VARIABLES
    cfg,      \* the URL and LdapConnSettings; chosen initially
    pc,       \* how far the future has got; ok, error or panicked in the end
    io,       \* ConnType of the connection; none before there is one
    conn,     \* who owns it: here, the task, the oneshot (joined), or nobody
    handle,   \* the Ldap handle exists
    has_tls,  \* Ldap.has_tls
    op,       \* the StartTLS operation: none, tuple, filed, replied
    rc,       \* the result in the reply
    used,     \* the message ids in use
    broke,    \* history: what ended the turn of the task
    \* the socket
    buf,      \* messages in the read buffer of the Framed, not yet decoded
    wire,     \* messages on the way
    peer,     \* the server's side: open, closed or reset
    asked,    \* the server has the StartTLS request
    stray     \* the number of messages it has sent unasked

callvars == <<pc, handle, has_tls>>
opvars == <<op, rc, used>>
netvars == <<wire, peer, asked, stray>>
vars == <<cfg, callvars, io, conn, opvars, broke, buf, netvars>>

Ended == {"ok", "error", "panicked"}

Init ==
    /\ cfg \in Configs
    /\ pc = "begin" /\ io = "none" /\ conn = "none" /\ handle = FALSE /\ has_tls = FALSE
    /\ op = "none" /\ rc = "none" /\ used = {} /\ broke = "none"
    /\ buf = <<>> /\ wire = <<>> /\ peer = "open" /\ asked = FALSE /\ stray = 0

-----------------------------------------------------------------------------
(* The URL and the stream *)

\* An error or a panic is returned; what the future owned is dropped.
GiveUp(end) ==
    /\ pc' = end
    /\ handle' = FALSE
    /\ conn' = IF conn = "task" THEN conn ELSE "none"
    /\ UNCHANGED <<cfg, has_tls, io, opvars, broke, buf, netvars>>

\* The stream the URL asks for, if the settings contain one.
StreamFor(scheme) == IF scheme = "ldapi" THEN "unix" ELSE "tcp"
HasStream == cfg.stream = StreamFor(cfg.scheme)

\* The conditions in the order in which new_unix and new_tcp examine them.
BadUrl ==
    \/ cfg.scheme = "ldapi" /\ cfg.stream = "none" /\ cfg.host # "some"
    \/ cfg.scheme = "other"
NoHost == cfg.scheme \in {"ldap", "ldaps"} /\ cfg.host = "none"
Mismatch == cfg.stream # "none" /\ ~HasStream

\* UnknownScheme, EmptyUnixPath, PortInUnixPath, MismatchedStreamType
Refuse ==
    /\ pc = "begin"
    /\ BadUrl \/ (Mismatch /\ ~NoHost)
    /\ GiveUp("error")

\* panic!("unexpected None from url.host_str()")
PanicNoHost ==
    /\ pc = "begin" /\ NoHost
    /\ GiveUp("panicked")

Connect ==
    /\ pc = "begin" /\ ~BadUrl /\ ~NoHost /\ cfg.stream = "none"
    /\ pc' = "connecting"
    /\ UNCHANGED <<cfg, handle, has_tls, io, conn, opvars, broke, buf, netvars>>

ConnectFails ==
    /\ pc = "connecting"
    /\ GiveUp("error")

\* What new_tcp does with the new pair of connection and handle: for ldaps the
\* settings' starttls is reset.  new_unix does not look at it.
StartsTls == cfg.scheme = "ldap" /\ cfg.starttls
AfterConnect ==
    CASE cfg.scheme = "ldaps" -> "handshake"
      [] StartsTls            -> "starttls"
      [] OTHER                -> "ok"

\* conn_pair, and the task for StartTLS.
NewPair ==
    /\ io' = StreamFor(cfg.scheme)
    /\ handle' = TRUE
    /\ pc' = AfterConnect
    /\ conn' = IF StartsTls THEN "task" ELSE "here"
    /\ UNCHANGED <<cfg, has_tls, opvars, broke, buf, netvars>>

Connected == pc = "connecting" /\ NewPair

\* The socket is taken from the settings.
ConnectedAtOnce ==
    /\ pc = "begin" /\ ~BadUrl /\ ~NoHost /\ HasStream
    /\ NewPair

\* set_nonblocking or from_std reports an error.
HandedOverFails ==
    /\ pc = "begin" /\ ~BadUrl /\ ~NoHost /\ HasStream
    /\ GiveUp("error")

-----------------------------------------------------------------------------
(* StartTLS: ldap.extended(StartTLS) in new_tcp *)

\* op_call: the tuple is queued if the receiver exists, in the task or in the
\* connection that the task has already sent back.
ExtendedSend ==
    /\ pc = "starttls" /\ op = "none" /\ conn # "none"
    /\ op' = "tuple" /\ used' = {1}
    /\ UNCHANGED <<cfg, callvars, io, conn, rc, broke, buf, netvars>>

\* LdapError::OpSend, or ResultRecv when the sender of the reply is dropped.
ExtendedFails ==
    /\ pc = "starttls" /\ conn = "none" /\ op # "replied"
    /\ GiveUp("error")

\* Mutant: the result code is not looked at.
Bug_Accepts(r) == TRUE

\* res.success()?
Accepts(r) == r = "success"

\* Mutant: the new Framed is built with the old read buffer.
Bug_Unread(b) == b

\* into_parts: of the old Framed only the socket and the codec are kept.
Unread(b) == <<>>

\* try_join! has both results.
Joined ==
    /\ pc = "starttls" /\ conn = "joined" /\ op = "replied"
    /\ \/ /\ Accepts(rc)
          /\ pc' = "handshake" /\ conn' = "here" /\ buf' = Unread(buf)
          /\ UNCHANGED <<cfg, handle, has_tls, io, opvars, broke, netvars>>
       \/ /\ ~Accepts(rc)
          /\ GiveUp("error")

-----------------------------------------------------------------------------
(* StartTLS: the task, single_op and turn(LoopMode::SingleOp) *)

\* Mutant: the result of the send is ignored and the connection kept.
Bug_SentBack == "joined"

\* The connection is sent back, and dropped if nobody waits for it.
SentBack == IF pc = "starttls" THEN "joined" ELSE "none"

\* The turn is over, for the reason r.
TurnEnds(r) == conn' = SentBack /\ broke' = r

\* LdapOp::Single: filed, and the loop continues.
TaskSends ==
    /\ conn = "task" /\ op = "tuple" /\ peer # "reset"
    /\ op' = "filed" /\ asked' = TRUE
    /\ UNCHANGED <<cfg, callvars, io, conn, rc, used, broke, buf, wire, peer, stray>>

\* Reading or writing fails: turn() returns the error, self is dropped.
TaskFails ==
    /\ conn = "task" /\ peer = "reset"
    /\ conn' = "none" /\ broke' = "error"
    /\ UNCHANGED <<cfg, callvars, io, opvars, buf, netvars>>

\* One read of the socket may bring several messages; the first is decoded.
Receives(msgs) ==
    /\ wire # <<>> /\ Head(wire) \in msgs
    /\ \E k \in 1..Len(wire) : /\ buf' = SubSeq(wire, 2, k)
                               /\ wire' = SubSeq(wire, k + 1, Len(wire))

\* The response to StartTLS is dispatched.
TaskReplies ==
    /\ conn = "task" /\ op = "filed" /\ Receives({"success", "refused"})
    /\ op' = "replied" /\ rc' = Head(wire)
    /\ used' = {}
    /\ TurnEnds("reply")
    /\ UNCHANGED <<cfg, callvars, io, peer, asked, stray>>

\* "unmatched id": the one turn is used up.
TaskUnmatched ==
    /\ conn = "task" /\ Receives({"stray"})
    /\ TurnEnds("stray")
    /\ UNCHANGED <<cfg, callvars, io, opvars, peer, asked, stray>>

TaskEof ==
    /\ conn = "task" /\ peer = "closed" /\ wire = <<>>
    /\ TurnEnds("eof")
    /\ UNCHANGED <<cfg, callvars, io, opvars, buf, netvars>>

\* Mutant: a closed queue is polled again, as id_scrub_rx is in the
\* continuous mode.
Bug_TaskNoHandle == conn = "task" /\ ~handle /\ UNCHANGED vars

\* The handle was dropped with the future of new_tcp: the queues are closed.
TaskNoHandle ==
    /\ conn = "task" /\ ~handle
    /\ TurnEnds("closed")
    /\ UNCHANGED <<cfg, callvars, io, opvars, buf, netvars>>

-----------------------------------------------------------------------------
(* TLS, and the timeout *)

\* The TLS library (external) is content: nothing else is on the wire.
HandshakeOk ==
    /\ pc = "handshake" /\ peer = "open" /\ wire = <<>>
    /\ io' = "tls" /\ has_tls' = TRUE /\ pc' = "ok"
    /\ UNCHANGED <<cfg, handle, conn, opvars, broke, buf, netvars>>

HandshakeFails ==
    /\ pc = "handshake"
    /\ GiveUp("error")

\* time::timeout around new_tcp; new_unix has none.
Timed == cfg.timeout /\ cfg.scheme # "ldapi"

\* Mutant: the timeout covers connect only.
Bug_Timeout ==
    /\ Timed /\ pc = "connecting"
    /\ GiveUp("error")

Timeout ==
    /\ Timed /\ pc \in {"connecting", "starttls", "handshake"}
    /\ GiveUp("error")

-----------------------------------------------------------------------------
(* The server (external), while the plain TCP connection is in use *)

Online == io = "tcp" /\ peer = "open" /\ (pc = "handshake" \/ conn \in {"task", "joined"})

SrvAnswers ==
    /\ Online /\ asked
    /\ \E r \in {"success", "refused"} : wire' = Append(wire, r)
    /\ asked' = FALSE
    /\ UNCHANGED <<cfg, callvars, io, conn, opvars, broke, buf, peer, stray>>

\* A notice, or any other message that is not the response.
SrvStray ==
    /\ Online /\ stray < MaxStray
    /\ wire' = Append(wire, "stray") /\ stray' = stray + 1
    /\ UNCHANGED <<cfg, callvars, io, conn, opvars, broke, buf, peer, asked>>

SrvCloses ==
    /\ Online
    /\ peer' \in {"closed", "reset"}
    /\ UNCHANGED <<cfg, callvars, io, conn, opvars, broke, buf, wire, asked, stray>>

-----------------------------------------------------------------------------

\* The steps of the task, those of the call that depend on nobody else, and
\* what connect and the TLS library report to it.
Task ==
    \/ TaskSends \/ TaskFails \/ TaskReplies \/ TaskUnmatched \/ TaskEof \/ TaskNoHandle
Call ==
    \/ Refuse \/ PanicNoHost \/ Connect \/ ConnectedAtOnce \/ HandedOverFails
    \/ ExtendedSend \/ ExtendedFails \/ Joined
Outside == Connected \/ ConnectFails \/ HandshakeOk \/ HandshakeFails

\* The task has sent the connection back without having seen the response:
\* the end of the connection or a message with another id took its only
\* turn.  The sender of the reply lives on in the connection's resultmap or
\* queue, and the connection in try_join!, so that extended() waits for ever.
Hung == pc = "starttls" /\ conn = "joined" /\ broke \in {"eof", "stray"}

Finished ==
    /\ (pc \in Ended /\ conn # "task") \/ (Hung /\ op # "none")
    /\ UNCHANGED vars

Next == Task \/ Call \/ Outside \/ Timeout \/ SrvAnswers \/ SrvStray \/ SrvCloses \/ Finished

Spec == Init /\ [][Next]_vars

-----------------------------------------------------------------------------
(* Safety properties *)

FlagType == handle \in BOOLEAN /\ has_tls \in BOOLEAN /\ asked \in BOOLEAN

CallType ==
    /\ cfg \in Configs
    /\ pc \in {"begin", "connecting", "starttls", "handshake"} \cup Ended
    /\ io \in {"none", "tcp", "unix", "tls"}
    /\ conn \in {"none", "here", "task", "joined"}
    /\ op \in {"none", "tuple", "filed", "replied"}
    /\ rc \in {"none", "success", "refused"}
    /\ used \in SUBSET {1}
    /\ broke \in {"none", "error", "reply", "stray", "eof", "closed"}

NetType ==
    /\ buf \in Seq({"success", "refused", "stray"})
    /\ wire \in Seq({"success", "refused", "stray"})
    /\ peer \in {"open", "closed", "reset"}
    /\ stray \in 0..MaxStray

\* A connection on the oneshot has a receiver that waits, and the future goes
\* on only with a connection and a handle of its own.
Owned ==
    /\ conn = "joined" => pc = "starttls"
    /\ pc \in {"handshake", "ok"} => conn = "here"
    /\ pc \in {"starttls", "handshake", "ok"} => handle

\* The variables have their types, and the connection moves between the
\* future, the task and the oneshot without being lost or left behind.
TypeOK == FlagType /\ CallType /\ NetType /\ Owned

\* Whoever calls asks for TLS, by the scheme or by set_starttls.
AsksForTls == cfg.scheme = "ldaps" \/ cfg.starttls

\* The stream is a TLS stream, with StartTLS only after the server has agreed,
\* and never because of some other message that arrived while the task had its
\* turn.
Secured ==
    /\ io = "tls" /\ has_tls
    /\ cfg.scheme # "ldaps" => rc = "success" /\ broke = "reply"

\* Whoever asks for TLS gets a TLS stream or no connection, but for one case:
\* new_unix passes over set_starttls, and returns a local socket, always in the
\* clear.  So a TCP connection, at least, is never handed out in the clear to
\* one who asked for TLS, and nobody else gets TLS (new_tcp, new_unix).
SecureOrError ==
    pc = "ok" =>
        /\ AsksForTls => Secured \/ (cfg.scheme = "ldapi" /\ io = "unix" /\ ~has_tls)
        /\ ~AsksForTls => io # "tls" /\ ~has_tls

\* "If `true`, use the StartTLS extended operation to establish a secure
\* connection" (set_starttls), whatever the scheme: not so for ldapi.
SecureAsAsked == pc = "ok" /\ AsksForTls => Secured

\* The connection that drive() starts with is as new: the StartTLS operation
\* has left no id in use and no sender behind, and of what the server sent
\* before the handshake nothing waits in the buffer to be taken for a message
\* received over TLS.
CleanStart == pc = "ok" => used = {} /\ op \in {"none", "replied"} /\ buf = <<>>

-----------------------------------------------------------------------------
(* Liveness: the tasks are scheduled and the timer fires.  The server, the *)
(* network and the TLS library are obliged to answer only a call without a *)
(* timeout.                                                                *)

FairSpec ==
    /\ Spec
    /\ WF_vars(Task) /\ WF_vars(Call) /\ WF_vars(Timeout)
    /\ WF_vars(~Timed /\ Outside) /\ WF_vars(~Timed /\ SrvAnswers)

\* With a timeout the call returns, whatever the server does; without one it
\* returns unless it hangs as described.
Returns == (pc # "begin") ~> (pc \in Ended \/ (Hung /\ ~Timed))

\* Whatever becomes of the call, the spawned task ends: a timeout leaves no
\* task behind that waits for a server that is silent.
TaskEnds == (conn = "task") ~> (conn # "task")
=============================================================================
