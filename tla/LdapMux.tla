------------------------------- MODULE LdapMux -------------------------------
(***************************************************************************)
(* The multiplexing core of the ldap3 crate: many clones of the Ldap       *)
(* handle (ldap.rs) share one connection, whose driver (the select! loop   *)
(* LdapConnAsync::turn, conn.rs) assigns server responses to callers by    *)
(* message id.                                                             *)
(*                                                                         *)
(* One element of Calls is one operation invoked on some clone: a          *)
(* single-response operation, a streaming Search without ("Direct") or     *)
(* with ("Adapted") a chain of adapters, an Abandon, an Unbind, or a       *)
(* request for the peer's certificate.  Every client step that other tasks *)
(* can interleave with is an action, and so is every branch of the select! *)
(* loop.  The server and the network are external: they answer outstanding *)
(* requests in any order, may close or reset the connection, and forget an *)
(* abandoned operation or answer it nevertheless.                          *)
(***************************************************************************)
EXTENDS Integers, Sequences, FiniteSets

CONSTANTS
    Calls,       \* the operations the handles of one connection invoke
    NoCall,      \* "no entry" in the driver's maps, "no request" on the wire
    Null,        \* the Tag::Null answer the driver itself gives
    MaxId,       \* i32::MAX in the code: the largest message id
    Workloads,   \* which kind of operation each call may be
    MaxEntries   \* bound on the entries a server returns for one Search

AllKinds == {"Single", "Direct", "Adapted", "Abandon", "Unbind", "Cert"}
SearchKinds == {"Direct", "Adapted"}

ASSUME CallsAssumption == NoCall \notin Calls /\ Null \notin Calls /\ NoCall # Null
ASSUME MaxIdAssumption == MaxId \in Nat \ {0}
ASSUME WorkloadsAssumption == Workloads \subseteq [Calls -> AllKinds]
ASSUME MaxEntriesAssumption == MaxEntries \in Nat

Ids == 1..MaxId

VARIABLES
    \* shared under the mutex Ldap.msgmap
    last,       \* the id assigned last; 0 before the first one
    used,       \* the ids in use
    poisoned,   \* a thread panicked while it held the mutex
    \* the callers
    kind,       \* what each call does; chosen initially
    pc,         \* how far the call has got
    id,         \* its message id; 0 before next_msgid
    tgt,        \* the id an Abandon names
    oneshot,    \* the reply channel: empty, Null, or whose answer it holds
    \* the SearchStreams
    stm,        \* StreamState, and Dropped / Panicked for a stream that is gone
    rx,         \* SearchStream.rx is Some and its receiver alive
    res,        \* the final result was read into SearchStream.res (and is kept
                \* here when finish() takes it)
    items,      \* the unread items of the channel
    got,        \* the number of entries returned by next()
    \* the driver
    drv,        \* running, or how turn() ended
    opq,        \* Ldap.tx -> LdapConnAsync.rx
    scrubq,     \* id_scrub_tx -> id_scrub_rx
    miscq,      \* misc_tx -> misc_rx
    resultmap,  \* id -> the call whose oneshot sender is stored
    searchmap,  \* id -> the Search whose channel sender is stored
    handles,    \* some Ldap handle is alive
    \* the socket and the server
    sock,       \* our write half: open or shut
    peer,       \* the server's side: open, closed or reset
    srv,        \* requests the server works on
    abn,        \* those among them it was told to abandon
    sent,       \* the entries it has returned for each Search
    wire,       \* messages on the way to the driver
    \* history
    wrapped,    \* the id counter has started again from below
    givenUp     \* calls whose id was scrubbed before the caller saw the end

msgvars == <<last, used, poisoned, wrapped>>
callvars == <<kind, pc, id, tgt, oneshot>>
streamvars == <<stm, rx, res, items, got>>
mapvars == <<resultmap, searchmap>>
queuevars == <<opq, scrubq, miscq>>
netvars == <<sock, peer, srv, abn, sent, wire>>
vars == <<msgvars, callvars, streamvars, drv, mapvars, queuevars, handles,
          netvars, givenUp>>

-----------------------------------------------------------------------------
(* Vocabulary *)

PCs == {"idle", "tuple", "wait", "ok", "failed", "timedout", "cancelled",
        "panicked"}
Returned == {"ok", "failed", "timedout", "cancelled", "panicked"}
StreamStates == {"Fresh", "Active", "Done", "Error", "Closed", "Dropped",
                 "Panicked"}
OpenStates == {"Active", "Done", "Error"}
Messages == [from : Calls \cup {NoCall}, tag : {"result", "entry", "done", "notice"}]

\* The elements of a queue.
Queued(q) == {q[k] : k \in DOMAIN q}

IsSearch(c) == kind[c] \in SearchKinds

\* The id a message carries: that of the request it answers, 0 for a notice.
MsgId(m) == IF m.from = NoCall THEN 0 ELSE id[m.from]

\* The call that a map holds for id i, if any: HashMap::get.
Lookup(map, i) == IF i \in Ids THEN map[i] ELSE NoCall

\* HashMap::remove.
Without(map, i) == [j \in Ids |-> IF j = i THEN NoCall ELSE map[j]]

\* The sender of c's oneshot channel still exists: in the tuple on its way
\* to the driver or in resultmap.
SenderAlive(c) == \/ c \in Queued(opq)
                  \/ c \in Queued(miscq)
                  \/ \E i \in Ids : resultmap[i] = c

\* A sender of the item channel of the Search c still exists.
ItemSenderAlive(c) == \/ c \in Queued(opq)
                      \/ \E i \in Ids : searchmap[i] = c

\* stm once the call c has returned an error: the stream was never handed out.
StreamLost(c) == [stm EXCEPT ![c] = IF IsSearch(c) THEN "Dropped" ELSE @]

\* Mutants: the last_id of a fresh clone, and that of the handle used last.
Bug_ScrubSentZero(c) == IF drv = "running" THEN Append(scrubq, 0) ELSE scrubq
Bug_ScrubSentLast(c) == IF drv = "running" THEN Append(scrubq, last) ELSE scrubq

\* c sends its id to the driver for scrubbing; the send fails without effect
\* once the driver is gone.
ScrubSent(c) == IF drv = "running" THEN Append(scrubq, id[c]) ELSE scrubq

Init ==
    /\ last = 0 /\ used = {} /\ poisoned = FALSE /\ wrapped = FALSE
    /\ kind \in Workloads
    /\ pc = [c \in Calls |-> "idle"]
    /\ id = [c \in Calls |-> 0]
    /\ tgt = [c \in Calls |-> 0]
    /\ oneshot = [c \in Calls |-> NoCall]
    /\ stm = [c \in Calls |-> "Fresh"]
    /\ rx = [c \in Calls |-> FALSE]
    /\ res = [c \in Calls |-> FALSE]
    /\ items = [c \in Calls |-> <<>>]
    /\ got = [c \in Calls |-> 0]
    /\ drv = "running"
    /\ opq = <<>> /\ scrubq = <<>> /\ miscq = <<>>
    /\ resultmap = [i \in Ids |-> NoCall]
    /\ searchmap = [i \in Ids |-> NoCall]
    /\ handles = TRUE
    /\ sock = "open" /\ peer = "open"
    /\ srv = {} /\ abn = {} /\ wire = <<>>
    /\ sent = [c \in Calls |-> 0]
    /\ givenUp = {}

-----------------------------------------------------------------------------
(* Ldap::next_msgid: the first free id after the last one, cyclically. *)

\* The id k steps after l in the cycle 1..MaxId.
Slot(l, k) == ((l + k - 1) % MaxId) + 1

\* Mutant: ids are not checked for being in use.
Bug_IsNextId(l, u, n) == n = Slot(l, 1)

\* n is what the scan returns: every id it passed before n was in use.
IsNextId(l, u, n) ==
    \E k \in Ids : /\ n = Slot(l, k)
                   /\ n \notin u
                   /\ \A j \in 1..(k-1) : Slot(l, j) \in u

NextMsgId(c) ==
    /\ pc[c] = "idle" /\ handles /\ kind[c] # "Cert"
    /\ ~poisoned /\ used # Ids
    /\ \E n \in Ids :
        /\ IsNextId(last, used, n)
        /\ last' = n
        /\ used' = used \cup {n}
        /\ id' = [id EXCEPT ![c] = n]
        /\ wrapped' = (wrapped \/ n <= last)
    /\ \/ kind[c] # "Abandon" /\ UNCHANGED tgt
       \/ /\ kind[c] = "Abandon"
          /\ \E t \in Calls : /\ id[t] # 0
                              /\ tgt' = [tgt EXCEPT ![c] = id[t]]
    /\ pc' = [pc EXCEPT ![c] = "tuple"]
    /\ rx' = [rx EXCEPT ![c] = IsSearch(c)]
    /\ UNCHANGED <<poisoned, kind, oneshot, stm, res, items, got, drv, mapvars,
                   queuevars, handles, netvars, givenUp>>

\* The assertion "wraparound with no free slots" fails while the mutex is
\* held; from then on every lock().expect(..) panics.
NextMsgIdPanics(c) ==
    /\ pc[c] = "idle" /\ handles /\ kind[c] # "Cert"
    /\ poisoned \/ used = Ids
    /\ poisoned' = TRUE
    /\ pc' = [pc EXCEPT ![c] = "panicked"]
    /\ stm' = StreamLost(c)
    /\ UNCHANGED <<last, used, wrapped, kind, id, tgt, oneshot, rx, res, items,
                   got, drv, mapvars, queuevars, handles, netvars, givenUp>>

-----------------------------------------------------------------------------
(* Ldap::op_call after next_msgid: send the tuple, await the oneshot. *)

SendOp(c) ==
    /\ pc[c] = "tuple" /\ drv = "running"
    /\ opq' = Append(opq, c)
    /\ pc' = [pc EXCEPT ![c] = "wait"]
    /\ UNCHANGED <<msgvars, kind, id, tgt, oneshot, streamvars, drv, mapvars,
                   scrubq, miscq, handles, netvars, givenUp>>

\* The driver has dropped its receiver: LdapError::OpSend, MiscSend.
SendFails(c) ==
    /\ drv # "running"
    /\ pc[c] = "tuple" \/ (pc[c] = "idle" /\ handles /\ kind[c] = "Cert")
    /\ pc' = [pc EXCEPT ![c] = "failed"]
    /\ stm' = StreamLost(c)
    /\ rx' = [rx EXCEPT ![c] = FALSE]
    /\ UNCHANGED <<msgvars, kind, id, tgt, oneshot, res, items, got, drv,
                   mapvars, queuevars, handles, netvars, givenUp>>

\* Ldap::get_peer_certificate uses the misc channel and no message id.
SendMisc(c) ==
    /\ pc[c] = "idle" /\ handles /\ kind[c] = "Cert" /\ drv = "running"
    /\ miscq' = Append(miscq, c)
    /\ pc' = [pc EXCEPT ![c] = "wait"]
    /\ UNCHANGED <<msgvars, kind, id, tgt, oneshot, streamvars, drv, mapvars,
                   opq, scrubq, handles, netvars, givenUp>>

RecvResult(c) ==
    /\ pc[c] = "wait" /\ oneshot[c] # NoCall
    /\ pc' = [pc EXCEPT ![c] = "ok"]
    /\ oneshot' = [oneshot EXCEPT ![c] = NoCall]
    /\ stm' = [stm EXCEPT ![c] = IF IsSearch(c) THEN "Active" ELSE @]
    /\ UNCHANGED <<msgvars, kind, id, tgt, rx, res, items, got, drv,
                   mapvars, queuevars, handles, netvars, givenUp>>

\* The sender was dropped without a reply: LdapError::ResultRecv.
RecvError(c) ==
    /\ pc[c] = "wait" /\ oneshot[c] = NoCall /\ ~SenderAlive(c)
    /\ pc' = [pc EXCEPT ![c] = "failed"]
    /\ stm' = StreamLost(c)
    /\ rx' = [rx EXCEPT ![c] = FALSE]
    /\ UNCHANGED <<msgvars, kind, id, tgt, oneshot, res, items, got, drv,
                   mapvars, queuevars, handles, netvars, givenUp>>

\* time::timeout elapses before the reply: the id is sent for scrubbing.
Timeout(c) ==
    /\ pc[c] = "wait" /\ kind[c] # "Cert"
    /\ oneshot[c] = NoCall /\ SenderAlive(c)
    /\ pc' = [pc EXCEPT ![c] = "timedout"]
    /\ scrubq' = ScrubSent(c)
    /\ givenUp' = givenUp \cup {c}
    /\ stm' = StreamLost(c)
    /\ rx' = [rx EXCEPT ![c] = FALSE]
    /\ items' = [items EXCEPT ![c] = <<>>]
    /\ UNCHANGED <<msgvars, kind, id, tgt, oneshot, res, got, drv, mapvars, opq,
                   miscq, handles, netvars>>

\* The user drops the future of a call that waits: nothing is scrubbed.
Cancel(c) ==
    /\ pc[c] = "wait"
    /\ pc' = [pc EXCEPT ![c] = "cancelled"]
    /\ oneshot' = [oneshot EXCEPT ![c] = NoCall]
    /\ stm' = StreamLost(c)
    /\ rx' = [rx EXCEPT ![c] = FALSE]
    /\ items' = [items EXCEPT ![c] = <<>>]
    /\ UNCHANGED <<msgvars, kind, id, tgt, res, got, drv, mapvars,
                   queuevars, handles, netvars, givenUp>>

-----------------------------------------------------------------------------
(* SearchStream::next and SearchStream::finish.  The adapted stream stands *)
(* for one with a pass-through adapter such as EntriesOnly.                *)

\* next() returns Ok(Some(..)) for an entry, Ok(None) for the final message;
\* only the adapted branch then changes the state to Done.
StreamNext(c) ==
    /\ stm[c] = "Active" /\ rx[c] /\ items[c] # <<>>
    /\ items' = [items EXCEPT ![c] = Tail(@)]
    /\ \/ /\ Head(items[c]).tag = "entry"
          /\ got' = [got EXCEPT ![c] = @ + 1]
          /\ UNCHANGED <<res, rx, stm>>
       \/ /\ Head(items[c]).tag = "done"
          /\ res' = [res EXCEPT ![c] = TRUE]
          /\ rx' = [rx EXCEPT ![c] = FALSE]
          /\ stm' = [stm EXCEPT ![c] = IF kind[c] = "Adapted" THEN "Done" ELSE @]
          /\ UNCHANGED got
    /\ UNCHANGED <<msgvars, callvars, drv, mapvars, queuevars, handles, netvars,
                   givenUp>>

\* The channel is closed before the final message: LdapError::EndOfStream.
StreamEndOfStream(c) ==
    /\ stm[c] = "Active" /\ rx[c] /\ items[c] = <<>> /\ ~ItemSenderAlive(c)
    /\ stm' = [stm EXCEPT ![c] = "Error"]
    /\ rx' = [rx EXCEPT ![c] = FALSE]
    /\ UNCHANGED <<msgvars, callvars, res, items, got, drv, mapvars, queuevars,
                   handles, netvars, givenUp>>

StreamTimeout(c) ==
    /\ stm[c] = "Active" /\ rx[c] /\ items[c] = <<>> /\ ItemSenderAlive(c)
    /\ stm' = [stm EXCEPT ![c] = "Error"]
    /\ scrubq' = ScrubSent(c)
    /\ givenUp' = givenUp \cup {c}
    /\ UNCHANGED <<msgvars, callvars, rx, res, items, got, drv, mapvars, opq,
                   miscq, handles, netvars>>

\* self.rx.as_mut().unwrap() on a stream that is still Active although its
\* final message has been read.
StreamNextPanics(c) ==
    /\ stm[c] = "Active" /\ ~rx[c]
    /\ stm' = [stm EXCEPT ![c] = "Panicked"]
    /\ UNCHANGED <<msgvars, callvars, rx, res, items, got, drv, mapvars,
                   queuevars, handles, netvars, givenUp>>

StreamFinish(c) ==
    /\ stm[c] \in OpenStates
    /\ scrubq' = IF stm[c] # "Done" THEN ScrubSent(c) ELSE scrubq
    /\ givenUp' = IF res[c] THEN givenUp ELSE givenUp \cup {c}
    /\ stm' = [stm EXCEPT ![c] = "Closed"]
    /\ rx' = [rx EXCEPT ![c] = FALSE]
    /\ items' = [items EXCEPT ![c] = <<>>]
    /\ UNCHANGED <<msgvars, callvars, res, got, drv, mapvars, opq, miscq,
                   handles, netvars>>

\* The user drops the stream without finish().
StreamDrop(c) ==
    /\ stm[c] \in OpenStates
    /\ stm' = [stm EXCEPT ![c] = "Dropped"]
    /\ rx' = [rx EXCEPT ![c] = FALSE]
    /\ items' = [items EXCEPT ![c] = <<>>]
    /\ UNCHANGED <<msgvars, callvars, res, got, drv, mapvars, queuevars, handles,
                   netvars, givenUp>>

\* The last clone of the handle is dropped; an open stream or a call under
\* way owns one.
DropHandles ==
    /\ handles
    /\ \A c \in Calls : /\ pc[c] \in Returned \cup {"idle"}
                        /\ stm[c] \notin OpenStates
    /\ handles' = FALSE
    /\ UNCHANGED <<msgvars, callvars, streamvars, drv, mapvars, queuevars,
                   netvars, givenUp>>

-----------------------------------------------------------------------------
(* LdapConnAsync::turn, one action per branch of select!. *)

\* turn() returns (or panics) and the connection is dropped with its
\* channels, their contents, the senders in its maps and the socket, which
\* ends whatever the server was still doing for us.
Stop(how) ==
    /\ drv' = how
    /\ srv' = {} /\ abn' = {} /\ wire' = <<>>
    /\ opq' = <<>> /\ scrubq' = <<>> /\ miscq' = <<>>
    /\ resultmap' = [i \in Ids |-> NoCall]
    /\ searchmap' = [i \in Ids |-> NoCall]

\* Mutant: the id is not released.
Bug_DrvScrub ==
    /\ drv = "running" /\ scrubq # <<>> /\ ~poisoned
    /\ resultmap' = Without(resultmap, Head(scrubq))
    /\ searchmap' = Without(searchmap, Head(scrubq))
    /\ scrubq' = Tail(scrubq)
    /\ UNCHANGED <<msgvars, callvars, streamvars, drv, opq, miscq, handles,
                   netvars, givenUp>>

\* id_scrub_rx
DrvScrub ==
    /\ drv = "running" /\ scrubq # <<>> /\ ~poisoned
    /\ LET i == Head(scrubq) IN
        /\ resultmap' = Without(resultmap, i)
        /\ searchmap' = Without(searchmap, i)
        /\ used' = used \ {i}
    /\ scrubq' = Tail(scrubq)
    /\ UNCHANGED <<last, poisoned, wrapped, callvars, streamvars, drv, opq,
                   miscq, handles, netvars, givenUp>>

\* The op branch up to the successful stream.send(): c is the next tuple.
TakeOp(c) ==
    /\ drv = "running" /\ opq # <<>> /\ c = Head(opq)
    /\ sock = "open" /\ peer # "reset"
    /\ opq' = Tail(opq)

\* The driver's send on c's oneshot; it is lost if the caller has gone.
Reply(c, value) ==
    oneshot' = [oneshot EXCEPT ![c] = IF pc[c] = "wait" THEN value ELSE @]

\* What the server sees of a request that was written to the socket.
ServerSees(c) == srv' = IF peer = "open" THEN srv \cup {c} ELSE srv

\* Mutant: the id in the shared counter instead of the one in the tuple.
Bug_FiledUnder(c) == last

\* The key under which resultmap and searchmap keep the senders of c.
FiledUnder(c) == id[c]

DrvSingle(c) ==
    /\ TakeOp(c) /\ kind[c] = "Single"
    /\ resultmap' = [resultmap EXCEPT ![FiledUnder(c)] = c]
    /\ ServerSees(c)
    /\ UNCHANGED <<msgvars, callvars, streamvars, drv, searchmap, scrubq, miscq,
                   handles, sock, peer, abn, sent, wire, givenUp>>

DrvSearch(c) ==
    /\ TakeOp(c) /\ IsSearch(c)
    /\ searchmap' = [searchmap EXCEPT ![FiledUnder(c)] = c]
    /\ Reply(c, Null)
    /\ ServerSees(c)
    /\ UNCHANGED <<msgvars, kind, pc, id, tgt, streamvars, drv, resultmap, scrubq,
                   miscq, handles, sock, peer, abn, sent, wire, givenUp>>

\* Mutants: the target stays in the maps; the target's id is released.
Bug_Abandons(c) == 0
Bug_AbandonReleases(c) == tgt[c]

\* The id removed from both maps, and the one removed from the ids in use.
Abandons(c) == tgt[c]
AbandonReleases(c) == id[c]

\* The target leaves the maps but stays in use; the Abandon's own id, which
\* no response will carry, is released.
DrvAbandon(c) ==
    /\ TakeOp(c) /\ kind[c] = "Abandon" /\ ~poisoned
    /\ resultmap' = Without(resultmap, Abandons(c))
    /\ searchmap' = Without(searchmap, Abandons(c))
    /\ used' = used \ {AbandonReleases(c)}
    /\ Reply(c, Null)
    /\ abn' = abn \cup {d \in srv : id[d] = tgt[c]}
    /\ UNCHANGED <<last, poisoned, wrapped, kind, pc, id, tgt, streamvars, drv,
                   scrubq, miscq, handles, sock, peer, srv, sent, wire, givenUp>>

\* The write half is shut down; the loop goes on.
DrvUnbind(c) ==
    /\ TakeOp(c) /\ kind[c] = "Unbind"
    /\ sock' = "shut"
    /\ Reply(c, Null)
    /\ UNCHANGED <<msgvars, kind, pc, id, tgt, streamvars, drv, mapvars, scrubq,
                   miscq, handles, peer, srv, abn, sent, wire, givenUp>>

\* stream.send() fails: turn() returns Err.
DrvSendFails ==
    /\ drv = "running" /\ opq # <<>>
    /\ sock = "shut" \/ peer # "open"
    /\ Stop("failed")
    /\ UNCHANGED <<msgvars, callvars, streamvars, handles, sock, peer, sent, givenUp>>

\* The certificate is sent, or the sender dropped because there is an error.
DrvMisc(c) ==
    /\ drv = "running" /\ miscq # <<>> /\ c = Head(miscq)
    /\ miscq' = Tail(miscq)
    /\ Reply(c, Null) \/ UNCHANGED oneshot
    /\ UNCHANGED <<msgvars, kind, pc, id, tgt, streamvars, drv, mapvars, opq,
                   scrubq, handles, netvars, givenUp>>

\* Mutant: the driver waits until no id is in use.
Bug_DrvNoHandles ==
    /\ drv = "running" /\ ~handles /\ used = {}
    /\ Stop("done")
    /\ UNCHANGED <<msgvars, callvars, streamvars, handles, sock, peer, sent, givenUp>>

\* All handles are gone: rx or misc_rx yields None and the loop breaks.
DrvNoHandles ==
    /\ drv = "running" /\ ~handles
    /\ Stop("done")
    /\ UNCHANGED <<msgvars, callvars, streamvars, handles, sock, peer, sent, givenUp>>

\* stream.next() yields a message.
NextResp == drv = "running" /\ wire # <<>>

\* Mutant: the last item overtakes the others.
Bug_Deliver(q, m) == <<m>> \o q

\* The channel of a SearchStream.
Deliver(q, m) == Append(q, m)

\* An item of a Search; the entry leaves searchmap with the final item or
\* when the stream has gone.
DrvSearchItem ==
    LET d == Lookup(searchmap, MsgId(Head(wire))) IN
    /\ NextResp /\ d # NoCall /\ Head(wire).tag \in {"entry", "done"}
    /\ wire' = Tail(wire)
    /\ \/ rx[d] /\ items' = [items EXCEPT ![d] = Deliver(@, Head(wire))]
       \/ ~rx[d] /\ UNCHANGED items
    /\ searchmap' = IF Head(wire).tag = "done" \/ ~rx[d]
                     THEN Without(searchmap, MsgId(Head(wire))) ELSE searchmap
    /\ UNCHANGED <<msgvars, callvars, stm, rx, res, got, drv, resultmap,
                   queuevars, handles, sock, peer, srv, abn, sent, givenUp>>

\* panic!("unrecognized op id") for the response to something else.
DrvSearchPanics ==
    /\ NextResp /\ Lookup(searchmap, MsgId(Head(wire))) # NoCall
    /\ Head(wire).tag \notin {"entry", "done"}
    /\ Stop("panicked")
    /\ UNCHANGED <<msgvars, callvars, streamvars, handles, sock, peer, sent, givenUp>>

DrvResult ==
    LET d == Lookup(resultmap, MsgId(Head(wire))) IN
    /\ NextResp /\ Lookup(searchmap, MsgId(Head(wire))) = NoCall /\ d # NoCall
    /\ Reply(d, Head(wire).from)
    /\ \/ /\ ~poisoned
          /\ resultmap' = Without(resultmap, MsgId(Head(wire)))
          /\ used' = used \ {MsgId(Head(wire))}
          /\ wire' = Tail(wire)
          /\ UNCHANGED <<searchmap, drv, queuevars, srv, abn>>
       \/ poisoned /\ Stop("panicked") /\ UNCHANGED used
    /\ UNCHANGED <<last, poisoned, wrapped, kind, pc, id, tgt, streamvars, handles,
                   sock, peer, sent, givenUp>>

\* "unmatched id"
DrvUnmatched ==
    /\ NextResp
    /\ wire' = Tail(wire)
    /\ Lookup(searchmap, MsgId(Head(wire))) = NoCall
    /\ Lookup(resultmap, MsgId(Head(wire))) = NoCall
    /\ UNCHANGED <<msgvars, callvars, streamvars, drv, mapvars, queuevars,
                   handles, sock, peer, srv, abn, sent, givenUp>>

\* The poisoned mutex: lock().expect(..) in the scrub and Abandon branches.
DrvScrubPanics ==
    /\ drv = "running" /\ scrubq # <<>> /\ poisoned
    /\ Stop("panicked")
    /\ UNCHANGED <<msgvars, callvars, streamvars, handles, sock, peer, sent, givenUp>>

DrvAbandonPanics ==
    /\ drv = "running" /\ opq # <<>> /\ sock = "open" /\ peer # "reset"
    /\ kind[Head(opq)] = "Abandon" /\ poisoned
    /\ Stop("panicked")
    /\ UNCHANGED <<msgvars, callvars, streamvars, handles, sock, peer, sent, givenUp>>

\* Mutant: end of file ends the driver only if no id is in use.
Bug_DrvEof ==
    /\ drv = "running" /\ peer = "closed" /\ wire = <<>> /\ used = {}
    /\ Stop("done")
    /\ UNCHANGED <<msgvars, callvars, streamvars, handles, sock, peer, sent, givenUp>>

\* End of file, once everything received has been handled.
DrvEof ==
    /\ drv = "running" /\ peer = "closed" /\ wire = <<>>
    /\ Stop("done")
    /\ UNCHANGED <<msgvars, callvars, streamvars, handles, sock, peer, sent, givenUp>>

\* A read or decoding error: turn() returns Err.
DrvRecvFails ==
    /\ drv = "running" /\ peer = "reset"
    /\ Stop("failed")
    /\ UNCHANGED <<msgvars, callvars, streamvars, handles, sock, peer, sent, givenUp>>

-----------------------------------------------------------------------------
(* The server (external). *)

Online == drv = "running" /\ peer = "open"

SrvResult(c) ==
    /\ Online /\ c \in srv /\ kind[c] = "Single"
    /\ wire' = Append(wire, [from |-> c, tag |-> "result"])
    /\ srv' = srv \ {c} /\ abn' = abn \ {c}
    /\ UNCHANGED <<msgvars, callvars, streamvars, drv, mapvars, queuevars,
                   handles, sock, peer, sent, givenUp>>

SrvEntry(c) ==
    /\ Online /\ c \in srv /\ IsSearch(c) /\ sent[c] < MaxEntries
    /\ wire' = Append(wire, [from |-> c, tag |-> "entry"])
    /\ sent' = [sent EXCEPT ![c] = @ + 1]
    /\ UNCHANGED <<msgvars, callvars, streamvars, drv, mapvars, queuevars,
                   handles, sock, peer, srv, abn, givenUp>>

SrvDone(c) ==
    /\ Online /\ c \in srv /\ IsSearch(c)
    /\ wire' = Append(wire, [from |-> c, tag |-> "done"])
    /\ srv' = srv \ {c} /\ abn' = abn \ {c}
    /\ UNCHANGED <<msgvars, callvars, streamvars, drv, mapvars, queuevars,
                   handles, sock, peer, sent, givenUp>>

\* An abandoned operation ends without a response.
SrvForget(c) ==
    /\ Online /\ c \in abn
    /\ srv' = srv \ {c} /\ abn' = abn \ {c}
    /\ UNCHANGED <<msgvars, callvars, streamvars, drv, mapvars, queuevars,
                   handles, sock, peer, sent, wire, givenUp>>

\* The server closes the connection, possibly after a notice of
\* disconnection, whose message id is 0.
SrvClose ==
    /\ Online
    /\ peer' = "closed"
    /\ wire' \in {wire, Append(wire, [from |-> NoCall, tag |-> "notice"])}
    /\ UNCHANGED <<msgvars, callvars, streamvars, drv, mapvars, queuevars,
                   handles, sock, srv, abn, sent, givenUp>>

SrvReset ==
    /\ Online
    /\ peer' = "reset"
    /\ UNCHANGED <<msgvars, callvars, streamvars, drv, mapvars, queuevars,
                   handles, sock, srv, abn, sent, wire, givenUp>>

-----------------------------------------------------------------------------

Client(c) ==
    \/ NextMsgId(c) \/ NextMsgIdPanics(c)
    \/ SendOp(c) \/ SendFails(c) \/ SendMisc(c)
    \/ RecvResult(c) \/ RecvError(c) \/ Timeout(c) \/ Cancel(c)
    \/ StreamNext(c) \/ StreamEndOfStream(c) \/ StreamTimeout(c)
    \/ StreamNextPanics(c) \/ StreamFinish(c) \/ StreamDrop(c)

\* The four branches of select!.
ScrubBranch == DrvScrub \/ DrvScrubPanics
OpBranch ==
    \/ \E c \in Calls : DrvSingle(c) \/ DrvSearch(c) \/ DrvAbandon(c) \/ DrvUnbind(c)
    \/ DrvAbandonPanics \/ DrvSendFails \/ DrvNoHandles
MiscBranch == \E c \in Calls : DrvMisc(c)
StreamBranch ==
    \/ DrvSearchItem \/ DrvSearchPanics \/ DrvResult \/ DrvUnmatched
    \/ DrvEof \/ DrvRecvFails

Server(c) == SrvResult(c) \/ SrvEntry(c) \/ SrvDone(c) \/ SrvForget(c)

\* Everything has ended: the driver has returned and no handle is left.
Finished == drv # "running" /\ ~handles /\ UNCHANGED vars

Next ==
    \/ \E c \in Calls : Client(c) \/ Server(c)
    \/ ScrubBranch \/ OpBranch \/ MiscBranch \/ StreamBranch
    \/ DropHandles \/ SrvClose \/ SrvReset \/ Finished

Spec == Init /\ [][Next]_vars

-----------------------------------------------------------------------------
(* Safety properties *)

FlagType ==
    /\ poisoned \in BOOLEAN
    /\ wrapped \in BOOLEAN
    /\ handles \in BOOLEAN
    /\ rx \in [Calls -> BOOLEAN]
    /\ res \in [Calls -> BOOLEAN]

MsgType ==
    /\ last \in 0..MaxId
    /\ used \subseteq Ids
    /\ givenUp \subseteq Calls

CallType ==
    /\ kind \in [Calls -> AllKinds]
    /\ pc \in [Calls -> PCs]
    /\ id \in [Calls -> 0..MaxId]
    /\ tgt \in [Calls -> 0..MaxId]
    /\ oneshot \in [Calls -> Calls \cup {NoCall, Null}]

StreamType ==
    /\ stm \in [Calls -> StreamStates]
    /\ items \in [Calls -> Seq(Messages)]
    /\ got \in [Calls -> Nat]

DriverType ==
    /\ drv \in {"running", "done", "failed", "panicked"}
    /\ opq \in Seq(Calls)
    /\ scrubq \in Seq(Ids)
    /\ miscq \in Seq(Calls)
    /\ resultmap \in [Ids -> Calls \cup {NoCall}]
    /\ searchmap \in [Ids -> Calls \cup {NoCall}]

NetType ==
    /\ sock \in {"open", "shut"}
    /\ peer \in {"open", "closed", "reset"}
    /\ srv \subseteq Calls
    /\ abn \subseteq srv
    /\ sent \in [Calls -> 0..MaxEntries]
    /\ wire \in Seq(Messages)

\* Every variable ranges over the values its Rust type and its use allow; in
\* particular only assigned ids are ever sent for scrubbing.
TypeOK ==
    FlagType /\ MsgType /\ CallType /\ StreamType /\ DriverType /\ NetType

\* The circumstances in which message ids cannot tell operations apart: the
\* counter has gone round and some id was released, by a timeout or by
\* finish() before the end, while the server could still answer under it.
IdsAmbiguous == wrapped /\ givenUp # {}

\* The dispatch of turn() by message id: a caller, and a stream, only ever
\* gets what the server sent in answer to its own request.
Matched ==
    ~IdsAmbiguous => \A c \in Calls :
        /\ oneshot[c] \in Calls => oneshot[c] = c
        /\ \A k \in DOMAIN items[c] : items[c][k].from = c

\* panic!("unrecognized op id") in turn() is out of the reach of a server
\* that answers each request with a message of the right type; the driver
\* otherwise panics only on a mutex poisoned by next_msgid.
DriverSurvives == drv = "panicked" => (poisoned \/ IdsAmbiguous)

\* When a stream has a final result, next() has returned every entry the
\* server sent before it: none is lost to a scrub, an Abandon, a timeout or
\* the end of the connection, and none counted twice.
StreamComplete ==
    ~IdsAmbiguous => \A c \in Calls : res[c] => got[c] = sent[c]

AbandonedBy(d, c) == kind[d] = "Abandon" /\ d # c /\ id[c] # 0 /\ tgt[d] = id[c]

\* While the connection lives, a caller that waits loses its reply channel
\* (LdapError::ResultRecv) only when some handle abandoned its operation or
\* the driver could not get the certificate: the scrubs and Abandons of other
\* calls never hit it.
NoSpuriousLoss ==
    (drv = "running" /\ ~IdsAmbiguous) => \A c \in Calls :
        (pc[c] = "wait" /\ oneshot[c] = NoCall /\ ~SenderAlive(c)) =>
            kind[c] = "Cert" \/ \E d \in Calls : AbandonedBy(d, c)

\* Nothing is under way on a live connection.
Quiescent ==
    /\ drv = "running" /\ peer = "open"
    /\ opq = <<>> /\ scrubq = <<>> /\ miscq = <<>>
    /\ wire = <<>> /\ srv = {}
    /\ \A c \in Calls : /\ pc[c] \in Returned \cup {"idle"}
                        /\ stm[c] \notin OpenStates

\* The operations that never release their id: a Search whose stream or
\* future was dropped, an adapted Search read to the end, an operation that
\* another call abandoned, and Unbind, which ends the connection.
KeepsId(c) ==
    \/ kind[c] = "Unbind"
    \/ IsSearch(c) /\ stm[c] \in {"Dropped", "Panicked"}
    \/ kind[c] = "Adapted" /\ stm[c] = "Closed" /\ res[c]
    \/ \E d \in Calls : AbandonedBy(d, c)

\* A connection at rest has empty maps, and except for the cases of KeepsId
\* every id has been released, whatever the order in which the scrub, the
\* request and the response reached the driver.
DrainsWhenQuiescent ==
    Quiescent => /\ \A i \in Ids : resultmap[i] = NoCall /\ searchmap[i] = NoCall
                 /\ used \subseteq {id[c] : c \in {d \in Calls : KeepsId(d)}}

\* No step releases the id of an operation that is still on its way to the
\* server or in its hands, unless the caller has given it up.
ReleasesOnlyFinished ==
    [][\A c \in Calls :
        (id[c] \in used \ used' /\ ~IdsAmbiguous /\ c \notin givenUp)
            => c \notin srv' /\ c \notin Queued(opq')]_vars

-----------------------------------------------------------------------------
(* What the comments and assertions of the code state; see the findings. *)

\* next_msgid asserts that the scan finds a free slot.  It must at least do
\* so when nothing is under way and every Search was read to its end and
\* finished, as Ldap::search does it.
SlotFreeWhenQuiescent ==
    (Quiescent /\ \A c \in Calls :
        IsSearch(c) /\ id[c] # 0 => stm[c] = "Closed" /\ res[c]) => used # Ids

\* "Ok(None) at the end of the stream": next() never panics.
NextNeverPanics == \A c \in Calls : stm[c] # "Panicked"

-----------------------------------------------------------------------------
(* Liveness.  tokio::select! polls its branches in random order, so every  *)
(* branch that stays ready is taken; the tasks that await a reply are      *)
(* polled when it arrives.  The server answers what it was asked (or drops *)
(* what it was told to abandon) and closes the connection after our FIN.   *)
(* Nothing obliges a user to start a call, to time out or to cancel; one   *)
(* who holds an open stream reads it to the end and then lets go of it.    *)

StreamRelease(c) ==
    (stm[c] \in {"Done", "Error"} \/ res[c]) /\ (StreamFinish(c) \/ StreamDrop(c))

\* What the task that runs c does without further decisions of its user.
Progress(c) ==
    \/ SendOp(c) \/ SendFails(c) \/ RecvResult(c) \/ RecvError(c)
    \/ StreamNext(c) \/ StreamEndOfStream(c) \/ StreamRelease(c)

Fairness ==
    /\ \A c \in Calls : /\ WF_vars(Progress(c))
                        /\ WF_vars(SrvResult(c) \/ SrvDone(c) \/ SrvForget(c))
    /\ WF_vars(ScrubBranch) /\ WF_vars(OpBranch)
    /\ WF_vars(MiscBranch) /\ WF_vars(StreamBranch)
    /\ WF_vars(sock = "shut" /\ SrvClose)

FairSpec == Spec /\ Fairness

\* op_call always returns, also without a timeout: with its answer, or with an
\* error when the connection ends or another handle abandons the operation.
CallReturns == \A c \in Calls : pc[c] = "wait" ~> pc[c] # "wait"

\* A reader of a stream reaches its end: the final result or EndOfStream.
StreamEnds == \A c \in Calls :
    (stm[c] = "Active" /\ rx[c]) ~> ~(stm[c] = "Active" /\ rx[c])

\* "Dropping the last handle will automatically close the connection."
DriverEndsAfterHandles == ~handles ~> drv # "running"

\* After an Unbind the driver ends too, although its loop goes on.
DriverEndsAfterUnbind == sock = "shut" ~> drv # "running"
=============================================================================
