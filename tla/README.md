# A verification project for the ldap3 crate

TLA+ models of ldap3 0.12.1, an asynchronous LDAP client library in Rust: what they
model, what TLC checks on small instances, and what TLAPS proves for all of them.
Paths are relative to the repository; `conn.rs` stands for `src/conn.rs` and so on.

## 1. Inventory

### 1.1 The parts of the library and how they interact

An application opens a connection and gets two things: the connection itself
(`LdapConnAsync`), which it spawns as a task that runs the *driver*, and a *handle*
(`Ldap`), of which it may make any number of clones. Operations are invoked on handles
by any task or thread. They meet the driver in four places:

* `msgmap`, a mutex around the last message id and the set of ids in use;
* `tx`, an unbounded queue of operations: id, kind of operation, request, controls, and
  the sender of a oneshot channel for the reply;
* `id_scrub_tx`, an unbounded queue of ids that callers have given up;
* `misc_tx`, an unbounded queue of other questions (the peer's certificate).

The driver, `LdapConnAsync::turn`, is a `tokio::select!` over these three queues and the
socket. It files the reply senders under the message id (`resultmap`, and for a Search
the sender of an item channel in `searchmap`), and hands each response to the sender
filed under its id.

| part | source | state | operations |
|---|---|---|---|
| handle | `ldap.rs` | last id used, timeout, options and controls for the next operation | `next_msgid`, `op_call`, one method per LDAP operation, `abandon`, `unbind`, `get_peer_certificate` |
| driver | `conn.rs` 747-870 | `resultmap`, `searchmap`, the receivers, the framed socket | the four branches of `turn` |
| establishment | `conn.rs` 196-598 | settings; a connection under construction | `new_unix`, `new_tcp`, StartTLS in a task of its own, TLS handshake, timeout |
| search streams | `search.rs` | `StreamState`, `ax`, the channel, the result | `start`, `next`, `finish` |
| adapters | `adapters.rs` | collected referrals; saved handle and search parameters | `start`, `next`, `finish` of `EntriesOnly` and `PagedResults` |
| codec | `protocol.rs` | whether a part of the buffer is unwrapped already; the layer's parameters and context, shared with the handles | `decode`, `encode` |
| BER | `lber/` | parser state | parse, write |
| filters, escaping, URLs | `filter.rs`, `util.rs` | none | pure functions |
| requests, results, controls, exops | `ldap.rs`, `result.rs`, `controls_impl`, `exop_impl` | none | building and parsing |
| SASL binds | `ldap.rs` 245-509 | a security context shared with the codec | several `op_call`s in a row |
| synchronous interface | `sync.rs` | a runtime | `block_on` around each method |

### 1.2 What is hard, and what correctness means

* *Handle and driver.* Requests, scrubs, responses and drops of futures race; ids wrap
  around; an assertion may fail with the mutex held. Correct means: every caller gets
  the answer to its own request or an error; the driver survives; a stream is complete;
  nothing is released early, and everything in the end.
* *Search streams.* A paged search replaces the inside of a stream while it is read; the
  adapters are entered by incrementing a level that a dropped future leaves behind.
  Correct means: the user gets the result set in order, once and completely, or learns
  that this is not so.
* *Establishment.* The future of `new_tcp`, the spawned task and the timeout run
  concurrently while the connection moves between them. Correct means: TLS or an error for
  whoever asked for TLS,
  nothing of the plain text phase carried over, and neither the call nor the task left
  waiting.
* *GSSAPI bind and security layer.* The binding task switches the layer on in two steps
  while the driver encodes and decodes; the server does so at another time; tokens,
  messages and reads have different boundaries. Correct means: both sides agree on the
  layer, each request has the form the server expects, and what it sends is decoded completely and in order.
* *BER, builders, parsers.* Fragmentation of the input, boundaries of lengths and signs,
  escapes that pass through several layers (a value in a filter in a URL), optional parts
  and defaults, modifiers kept on the handle between operations. Correct means: the server
  reads what the application meant, the application gets what the server sent, and
  nothing a server may send ends the driver.

PROJECT.json lists each hazard at its line, with the properties that cover it.

## 2. Modules

| module | models |
|---|---|
| `LdapMux` | handles, driver, and streams without adapters or with pass-through ones |
| `MCLdapMux` | instances of it for TLC |
| `LdapMuxProofs` | its inductive invariant and three theorems on dispatch |
| `LdapMuxEndProofs` | further invariants and six theorems on how operations end |
| `ResultStream` | abstract: what a search promises its reader |
| `SearchStream` | one stream with any chain of the two adapters; implements `ResultStream` |
| `MCSearchStream` | instances of it |
| `SearchStreamProofs` | its inductive invariant, six theorems, and the refinement |
| `Establish` | from the URL to a connection that can be driven |
| `EstablishProofs` | its inductive invariant and four theorems |
| `SaslLayer` | the GSSAPI bind and the codec with its security layer |
| `SaslLayerProofs` | three theorems on the bind and the switch of the layer |
| `SaslStreamProofs` | two theorems on what the codec decodes |
| `BerHeaders` | the crate `lber`: tags, integers, identifiers and lengths |
| `BerHeadersProofs` | six theorems about them |
| `Ber` | the rest of `lber`: nested values, the writer and the streaming parser |
| `Filter` | `filter.rs`: the grammar of search filters, from text to tags |
| `Escape` | `util.rs`: escaping, unescaping, the parameters of a URL |
| `Messages` | the builders of requests, controls and extended operations, the message codec, the parsers of results, entries and controls |
| `Server` | external: what a server reads in the octets of a request, and the octets of its answers |
| `Application` | what an application passes to the operations and makes of the replies, in terms of the codec |
| `Operations` | a handle, its driver and a server, down to the octets between them, for any codec |
| `OperationsProofs` | its inductive invariant and five theorems |
| `MCOperations` | an instance of it: `Operations` with the codec of `Application` |

`BerHeaders` to `Application` are a chain: each extends the one before it. `Operations`
extends none of them. It takes the codec as constant operators, so that it can be reasoned about:
the operators of the codec are recursive, as the values are.

Definitions prefixed `Bug_` are mutants of the definition that follows them: plausible
slips in the code, each of which makes TLC report the property it is paired with in
PROJECT.json. They occur in no specification.

### 2.1 LdapMux

One element of `Calls` is one operation on some clone of the handle; its kind is chosen
initially. `pc[c]` follows `op_call`: `idle`, `tuple` (the id is assigned, the
tuple not yet queued), `wait` (for the oneshot), and the ways in which it returns. For a
Search `stm[c]` is the `StreamState`, with `Dropped` and `Panicked` for a stream that is
gone. A oneshot or an item holds the request that the server answered, so
that an answer given to the wrong caller is visible. Client steps are split
where other tasks can come between them; each branch of `select!` is one action, since
the driver awaits only the socket inside of it. A send to a queue and its reception are separate.

`next_msgid` is stated as what its loop finds: the first id, cyclically after the last
one, that is not in use. `MaxId` stands for `i32::MAX`. A timeout is possible whenever
its caller waits without a reply: durations are not modelled. Dropping the future of a call (`Cancel`) is
possible wherever it awaits. The driver's end drops its maps and queues, which is what
wakes the callers that wait.

The server and the network are external. The server answers outstanding requests in any
order with messages of the right type, may forget or still answer what it was told to
abandon, and may close or reset the connection at any time. A server that breaks the
protocol is not modelled: with one, the `panic!`s of `turn` are reachable by design.

A connection on which StartTLS was performed starts with the last id 1 instead of 0; the
state is the same as after any first operation that has ended (`CleanStart` of `Establish`).

### 2.2 ResultStream and SearchStream

`SearchStream` follows one stream with its handle and its adapters through `start`,
`next` and `finish`. `ax` is the level in the chain; a call of `next()` runs down from the
level at which it begins (`entered`), to the channel (`reading`) and, in `PagedResults`,
to the request of another page (`paging`). `MayCancel` allows the user to drop the future
at these awaits, in which case `ax` keeps its value; if there are adapters, later calls
pass them by (`Bypassed`). The
server has a result set of entries, referrals and intermediate messages, cut into pages;
it ends a page with success or an error, and the channel may be closed before.

`ResultStream` has three variables: what is still to be given, what was given, and
whether the search is open, complete, failed, or `loose`: after a dropped call it promises
nothing but the order. The mapping: `given` is what `next()` has
returned, `todo` the visible rest of the result set, and `status` is `complete` when `next()` has
returned `None` and the result to be had from `finish()` is a success without a cookie.
A user who adds a paging control by hand, without the adapter, gets one page and its
cookie: that counts as not complete. `status` is `loose` when the adapters are `Bypassed`; a
stream without adapters never is, because dropped calls do it no harm.

### 2.3 Establish

`conn` says who owns the connection: the future of `new_tcp` (`here`), the task, or the
oneshot on which the task sends it back (`joined`; the value waits inside of `try_join!`).
`GiveUp` is the return of an error, or the drop of the future by the timeout: the
handle and whatever the future owns are dropped, and the task is not. A read may bring
more than one message: the first is decoded and ends the turn, the others stay in the buffer of the
`Framed`, which `into_parts` drops. The TLS library succeeds only if nothing but its own
messages is on the wire, and may fail at any time. `AsksForTls` is a matter of the settings
alone: the scheme `ldaps`, or `set_starttls` with whatever scheme. `StartsTls` is what
`new_tcp` makes of them; `new_unix` never looks at the setting (section 5).

### 2.4 SaslLayer

`bind` follows `gssapi_bind` through its three requests (`first`, `second`, `third`), the
setting of `sasl_param` (`param`) and of `client_ctx` (`bound`), or to one of its early
returns. The codec is modelled on units instead of octets: a message and the length of a
token have two units each, so that each can be cut in the middle. A unit knows its
message and its place in it, which is how a lost, repeated or mixed-up message
shows; `DecodeInner` returns the set of possible results, which has more than one
element only for octets that are no message. One disjunct of `Decoding` is one path through
`decode`. The `Framed` calls `decode` until it returns `None` (`starved`), and then reads any part of
what is on the wire.

The server treats requests in order, answers the bind as it likes, switches its layer on
with the last answer, stops at a request it cannot read or that is larger than it has
announced (`misform`), and may send
notifications at any time. A request has the size at which it is sent: `maybe_wrap` tests the size
before wrapping, and wrapping adds `Overhead` (`SentSize`). The client cannot know by how much, so
`Understood` says what the test does achieve: what is above the limit is so by at most `Overhead`
(section 5). Its tokens have any length in `TokenSizes`, so that one may hold several
messages or end inside of one. Two history variables record what the code
does not provide for, in terms of the input alone: `untidy` and `torn` (section 4).

### 2.5 BerHeaders, Ber, Filter, Escape, Messages

Pure functions, named as in the source, on octets: text is a sequence of numbers below 256, a
`StructureTag` a record with either octets or parts. A Rust `Option` is a set
with at most one element, and a function that may fail or panic yields the empty set where it
does; so `match_id(match_class(...))` reads as in the code. A parser of `Filter` yields
records of what it has read and of the rest of the input, and the combinators of `nom` are
operators on such sets. The streaming parser of `Ber` yields the empty set when it
needs more input.

Names of which only the identity matters are not spelled: an object identifier or the
name of a mechanism is one letter, and the words in a URL (scopes, extensions) are symbols above
the octets. Integers are `i32`, which is what every caller of `lber` in the library passes, widened to
`i64` as the code does.

### 2.6 Server, Application and Operations

`Server` is written from the RFCs and shares none of the library's encoding or decoding: its reader of
requests takes a message apart by octets, its writer has two dialects. `narrow` uses
the shortest lengths, 255 for TRUE and names in extended responses; `wide` uses lengths
of four octets, as Active Directory does, 1 for TRUE, and puts the name of a Notice of
Disconnection behind the response.

`Application` is what is between the parameters and the octets: the texts an application
writes with `ldap_escape` and `dn_escape`, the protocol operation that each method of `Ldap` makes of
its parameters (`RequestTags`, `ParamTags`), and what a caller makes of a
reply with the parser for it (`TakenReply`). `Operations` has these as parameters, and the encoder,
the decoder and the server. `Contract` says what it asks of them: a request is read as
what was asked, for every id, list of controls and set of options; only what should be refused is;
every answer is decoded as soon as its first message has come in full, from any part of
the octets, and what is behind it is left; a notice is understood. `CodecContract` has
TLC evaluate all of that for the codec in the chain of modules.

In `Operations`, `modifiers` are the controls and options that wait on the handle,
`call` the operation under way, `ops` the channel to the driver, `map` its maps,
`buf` the buffer of the `Framed`, `net` and `wire` the octets that are on their way.
There is one action for each method of `Ldap`, including the early returns that send nothing
(an attribute without values, a filter that cannot be parsed) and what becomes of the
modifiers then. Filters and names reach the methods as
text, produced with `ldap_escape` and `dn_escape` as an application would; `ByUrl` goes
through `get_url_params` as well. `DrvRead` brings a single octet or all there is, so that
a message is cut at every place. `blocking` makes the handle that of an
`LdapConn`: the driver, on the runtime of the `LdapConn`, then takes steps only while an operation is under way.
Three history variables hold what the application has given (`given`), what it has
asked for (`asked`), and what the server has sent (`sent`).

`given` follows the documentation: options are for the next operation, and an operation
that is no Search discards them. What the handle keeps nevertheless is in its field `left`, and goes
into `asked.left` when a Search for which nothing was given uses it. `RequestIntact` names
this one exception (`WithLeft`); that it does not occur is `OptionsDiscarded` (finding 5).

One operation is under way at a time, and a new one begins when the server has read
the previous request: what overlapping operations, timeouts and dropped
futures do to each other is the subject of `LdapMux`, where messages have no content.

## 3. Runs

| run | instance | states | shows |
|---|---|---|---|
| `mux_safety` | 2 calls of any kinds, 3 ids, 1 entry | 605 thousand | dispatch, completeness of streams, release of ids and map entries |
| `mux_wrap` | 3 calls, at least two of them single-response ones, 2 ids | 708 thousand | the same where ids are reused |
| `mux_live` | 2 calls, 2 ids, fairness | 65 thousand | calls return, streams end, the driver ends |
| `mux_slots` | 2 adapted searches, 2 ids | violation | finding 1 |
| `mux_next_twice` | 1 search | violation | finding 2 |
| `stream_safety` | 5 chains, up to 2 items and 2 pages, dropped calls, fairness | 636 thousand | order, completeness, referrals, page requests, `finish()`; `ResultStream` is implemented; reading ends |
| `stream_finish` | `PagedResults` | violation | finding 3 |
| `stream_cancel` | `PagedResults`, dropped calls | violation | finding 4 |
| `establish` | all 256 settings, 2 unasked messages | 5.6 thousand | over TCP TLS or an error for whoever asks for it, a clean start, ends of call and task |
| `operations` | any sequence of 25 requests, both SASL binds, Unbind and 4 URLs, 3 lists of controls, 1 set of options, both dialects, a message id of two octets | 103 thousand | the codec fulfils its contract; requests and replies keep their meaning; the driver understands every answer; no call is stranded |
| `operations_options` | the same | violation | finding 5 |
| `sasl` | a bind, 2 requests or notifications, 1 or 2 replies to each, tokens of 2 to 4 units, limits of 0, 1 and 2, 1 unit of overhead, fairness | 485 thousand | framing, agreement on the layer, form and size of the requests, delivery |

*Bounds.* Two calls are enough for every pair of kinds of operations to race, and the
properties relate at most two calls; two calls in three ids never wrap around, so that
`mux_wrap` adds a third call to two ids: the second generation of an id then meets the late
answers of the first. One entry distinguishes a stream cut short from a complete one.
For streams, two items on up to two pages give every order of kinds, empty pages
in front and at the end, and a page boundary between two items; there is one boundary
between pages, and further ones repeat it with another cookie. In `establish`
two unasked messages can come before, after and together with the response.
In `sasl` two requests with up to two replies give tokens of one and of several messages,
a token behind another one, and tokens that end inside of a message (3 units); the limits are
none, one unit, which is half a request, and two units, which a request meets exactly before it is
wrapped and exceeds by the one unit of overhead afterwards. The only mask offered is `none`: it fits a
TLS connection and does not fit the other.

In `operations` there is no bound on the number of operations: the state after one of them is among
the initial ones again, but for the modifiers and the state of the connection. The values are those at which an encoding
changes its form: lengths 0, 127, 128 and 256, integers 127, 128, 32767, 32768, 65535 and
2^31-1, options present and absent, sets empty and with several members in
any order, every kind of filter and nested ones, each character that any of the escapes
treats specially, a character of two octets and octets that are not UTF-8, and a literal
that looks like an escape.

*Symmetry.* The calls are interchangeable in the safety runs (every set of workloads is
closed under permutation); the liveness run uses none, and orders the kinds instead.

*Deadlock* is checked in every run; in `operations` an application may always begin something. The final states, in which every task has ended, stutter explicitly
(`Finished`, `Quiet`); in `Establish` so does the hang described below.

*Fairness.* `LdapMux`: tokio polls a task that was woken, and `select!` begins with a
random branch, so a branch that stays ready is taken (weak fairness per branch). A call
goes on by itself once it has begun. The server answers or forgets each request, and
closes after we have shut our side down. Nothing obliges a user to begin a call, to time
out or to cancel; the holder of a stream reads it to the end and lets go of it.
`SearchStream`: the reader goes on calling `next()`, as the loop of `Ldap::search` does,
and the server answers; a user who drops calls for ever is excepted in `ReadsToEnd`. `Establish`: the task and the future are scheduled and the timer
fires; connect, handshake and server are obliged to answer only a call without a timeout,
so that the timeout is shown to work against a silent server. `SaslLayer`: the driver and
the binding task are scheduled, the network delivers and the server answers; nobody is
obliged to bind, to send or to keep the connection. `Operations` has none: that calls
return is `CallReturns` of `LdapMux`; `NeverStranded` is the part of it that depends on octets, namely that
a call never waits for a message which the library failed to write or to find in its buffer.

## 4. Exceptions the properties name

* `IdsAmbiguous`: the counter has wrapped around *and* some call was given up before its
  end. Its id was then released while the server could still answer under it; a new
  owner of the id may get that answer. With 2^31 ids this is the protocol's own limit, but the code
  does not exclude it.
* `KeepsId`: operations that never release their id: dropped searches, abandoned
  operations, `Unbind`, and adapted searches read to the end (finding 1).
* A poisoned mutex: `next_msgid` asserts under the lock that a slot is free; afterwards the driver and all
  handles panic at their next lock.
* `Hung`: during StartTLS the task's only turn is used up by the end of the connection,
  or by any message with another id. The task sends the connection back with the reply
  sender still in `resultmap`; `try_join!` keeps it while `extended()` waits for that
  very sender. Without a connection timeout the call never returns; with one, `Returns` shows that it does.
* `untidy`: a read ended inside of the length of a token (`decode` reports an invalid
  buffer, `protocol.rs` 142), more data came with a token of several messages (the rest of
  it is dropped, 156), or a token ended inside of a message. TCP and the SASL rules allow all three.
* `torn`: between the server's switch and the client's a request was sent or a
  notification received, or the bind was dropped there.
* `Overhead`: `Understood` lets a request exceed the server's limit by what wrapping adds (section 5).
* A local socket is in the clear, whatever `starttls` says: `SecureOrError` names it (section 5).
* `left`: options that an operation other than a Search left on the handle (finding 5).

## 5. Findings

1. `mux_slots`: ids of adapted searches that were read to the end are never released
   (`search.rs` 706, `conn.rs` 851-853), so that the assertion in `next_msgid` can fail on
   a connection at rest.
2. `mux_next_twice`: `next()` on a stream without adapters, called again after `Ok(None)`,
   panics (`search.rs` 763-769).
3. `stream_finish`: `finish()` in the middle of a later page returns the result of the
   page before instead of the synthetic cancellation (`search.rs` 717, 785-788).
4. `stream_cancel`: dropping the future of `next()` leaves `ax` incremented; the stream
   then passes its adapters by, and a paged search ends after a page (`search.rs` 770-774).
5. `operations_options`: search options given before an operation that is no Search stay on
   the handle until the next Search (`op_call`, `ldap.rs` 186), while `ldap.rs` 203-205 says
   that they are "silently discarded when the operation is invoked".

Where docs and code also differ, or the code does not do what it intends, met while the models were
written. They follow the code; no run is about these:

* With `set_starttls(true)`, documented as "use the StartTLS extended operation to establish a
  secure connection" (`conn.rs` 278-279), a connection over `ldapi` is returned in the
  clear: `new_unix` never reads the setting (445-467). `SecureOrError` says so; without its
  exception it is `SecureAsAsked`, which is proved for TCP only.
* `maybe_wrap` compares the size before wrapping with the limit of the server (`protocol.rs`
  190) and sends the wrapped octets, which are more (200-205); a request may pass the test for "buffer too
  large for GSSAPI" and still be above the limit. `CHANGELOG.md` 73-74 says that the
  check is made before wrapping, and the FIXME in `ldap.rs` 406-408 what is missing. In the run `sasl` such
  requests are sent, and `Understood` bounds them.
* The test for an offered layer (`ldap.rs` 400) takes the union of the mask and the needed layer,
  which is never zero: the error "no appropriate security layer offered" (402) cannot be
  returned, and the third request asks for a layer that was not offered.
* `gssapi_bind` sets `sasl_param` and `client_ctx` under two locks (`ldap.rs` 424-428); a
  request that the driver encodes in between finds no context, and `expect("client Option mut
  ref")` panics (`protocol.rs` 189). The model does it (`nocontext`); `CodecSurvives` excepts it as `torn`.
* The comment of `compare()` (`ldap.rs` 645-647) has the codes 5 and 6 the wrong way
  round; `result.rs` 457-461 and the protocol agree, and so does the model.
* `add` and `modify` that return `AddNoValues` leave the modifiers for the next operation;
  a Search whose filter cannot be parsed loses them.
* Some negative integers below -128 are written with an octet too few (`integer.rs` 26-38). The library sends none.
* An indefinite length (128) is read as a length of 0; tags above 30 are
  written in a form that the parser does not read. LDAP has neither.
* A matching rule whose name begins with `dn` cannot be given in a filter: `:dn` is taken for the flag.
* `EndTxnResp` lists the controls of the updates in an order of its own; the model compares them as a set.
* `is_closed()` of an `LdapConn` is known only after the next call: its driver stands still in between.

## 6. Proofs

All theorems hold for every value of the constants that satisfies the named assumptions
(`CallsAssumption`, `MaxIdAssumption`, ..., evaluated by TLC in every run of the module).
Every inductive invariant was checked by TLC on the instances of section 3 before it was
proved. In each module the Boolean variables have a type invariant of their own
(`FlagType`), because the provers treat them better apart from the data.

### 6.1 LdapMux

`LdapMuxProofs`, for any number of calls and ids:

* `TypeCorrect`: `Spec => []TypeOK`.
* `DispatchCorrect`: `Spec => []Matched`. A caller gets only answers to its own request.
* `DriverNeverPanics`: `Spec => []DriverSurvives`.

`Matched` is not inductive: that an answer is right depends on what is filed under its id
when it arrives. There are two reasons why it is right, and the inductive invariant `Inv`
has a part for each: before the counter wraps around, ids are unique; afterwards, as long
as nothing was given up, an id is not assigned again while anything of its operation
is about.

* `RouteInv`: ids are assigned once and in ascending order until they wrap around
  (`AscendingIds`); a sender is filed under the id of its call, in the map for its kind
  (`MapsAgree`); messages on the wire have the type of the request they answer.
* `LifeInv`: a request is queued once, then sent, and only then known to the server and
  the maps; nothing follows its final message.
* `HeldInv`: while no call has been given up early, an id that some call still needs
  (its request queued or with the server, its answer on the wire, its sender filed, its
  stream open) is in `used` and needed by that call only (`IdsHeld`); what is queued for
  scrubbing is needed by nobody and queued once (`ScrubsUnheld`). And unless ids are
  ambiguous, once the final item of a Search is in its channel the operation is over
  everywhere else (`EndSeen`).

`HeldInv` is what the order in which `turn` and `finish()` release ids has to preserve.
Once ids are ambiguous neither part holds, and the conclusions are given up with them.

`LdapMuxEndProofs` adds to `Inv` what is needed to say how operations end (`EndInv`):

* `NoReplyLost`: `Spec => []NoSpuriousLoss`.
* `StreamsComplete`: `Spec => []StreamComplete`.
* `Drains`: `Spec => []DrainsWhenQuiescent`.
* `ReleasesFinished`: `Spec => ReleasesOnlyFinished`, an action property.
* `SlotsFree`: where finding 1 does not apply. As long as some id belongs to no operation that
  never releases its own (`KeepsId`), a connection at rest has a free id.
* `PanicsAfterEnd`: where finding 2 does not apply. `next()` panics only on a direct
  stream that has already returned its result.

The parts of `EndInv`:

* `CallerInv` says who may cause the removal of something: an Abandon has a target only
  after `next_msgid`; an id queued for scrubbing belongs to a call that was given up, and
  has returned, or to a stream that has its final result. A scrub therefore never hits a
  caller that waits.
* `WaitsServed`: the sender of a caller that waits is in the queue or in `resultmap`, or
  its operation was abandoned. This is `NoSpuriousLoss` stated over the maps; it is inductive together
  with `CallerInv` and `IdsHeld`.
* `CountInv`: the entries which the server has sent for a Search are the ones on the wire,
  in the channel, and read (`Counted`), as long as the driver feeds the stream and after
  its end. The final item is the last of its channel, and nothing was counted for a
  request not yet taken by the driver. With `EndSeen` the first two terms are zero when the result has been read.
* `DrainInv`: what is filed and not abandoned is in the server's hands, or its final
  message is on the wire; and every id in use is queued for scrubbing, or some call `Owes`
  it, that is, will release it when its reply arrives or its stream is finished, or never
  does (`KeepsId`). At rest only the last case is left, from which `SlotsFree` follows.

`PanicsAfterEnd` needs an invariant of its own (`OpenReads`): a stream that is still active
has its receiver, unless it is a direct one that has returned its result.

### 6.2 SearchStream

`SearchStreamProofs`, for any chain of the adapters, any result set and any division of
it into pages:

* `StreamTypes`, `StreamInOrder`, `StreamWhole`, `StreamRefs`, `StreamPagesAlike`,
  `StreamFinish`: `TypeOK`, `InOrder`, `WholeSearch`, `RefsCollected`, `PagesAlike` and
  `FinishTruthful` always hold, dropped calls included.
* `StreamRefinement`: `Spec => ImplementsResultStream`.

The invariant follows an item from the server to the user. `ServerInv`: the k-th request is
answered with the k-th page. `ChanInv`: the channel holds, in order, what the server has sent
and nobody has read, and at most one final message, which is the last. `OutInv`: what has
been read has been given to the user, or hidden by `EntriesOnly`. `RefsInv`: the
referrals among it are in the adapter, and after `finish()` in the result. `ResInv`: when
the search has ended, its result is an error, or the success of the current page, which has been
read to its end; and under an adapter that nobody has bypassed this is the last page.
`DepthInv` says that a call which nobody drops enters and leaves at the top of the chain;
it is the part that a dropped `next()` destroys (finding 4), so that the parts which depend on
it have `~Bypassed` as a condition. Without a chain the top is all there is (`TopFacts`). `CallInv` and `EndInv` relate the state of
the stream to where its call is.

For the refinement each step is shown to be a step of `ResultStream` or a stutter: `NextItem`
that returns something visible is `Give`; `NextNone` is `Complete` or `Fail`, depending on
the result; the errors of `start`, of `next` and of a further page, and `finish()` before
the end, are `Fail`; the server's steps, hidden items and the change of pages are
stutters (`OrderlySimulation`). The first dropped call of an adapted stream is `Drop`, and each item returned
after it `Skip` (`DropSimulation`, `LooseSimulation`).

### 6.3 Establish

`EstablishProofs`, for any number of unasked messages:

* `TypeCorrect`, with the ownership of the connection,
* `Secure`: `Spec => []SecureOrError`,
* `SecureOverTcp`: `Spec => [](cfg.scheme # "ldapi" => SecureAsAsked)`, which `ldapi` is not (section 5),
* `StartsClean`: `Spec => []CleanStart`.

`SecureOrError` follows from an invariant that describes the phases: before there is a
connection nothing was sent (`NotYet`); only StartTLS uses the task and an operation
(`OnlyStartTls`); the reply, and nothing else, ends the turn in which it arrives (`OpInv`); the handshake
begins after a success and with an empty buffer (`HandshakeInv`); and a connection that
is ready and was to be secure has been through it (`ReadyInv`).

### 6.4 SaslLayer

For any numbers of requests and replies, any token sizes, any overhead of wrapping, and any
offers of the server.

`SaslLayerProofs`:

* `LayerTypes`: `Spec => []TypeOK`. That the numbers decoded are those of messages sent
  needs the contents of the buffers: all units carry such numbers, and a length is
  followed by all of its token (`Followed`), so that a length is never opened as a message.
* `BindAgrees`: `Spec => []LayerAgreed`. During the bind exactly one thing is under way:
  its request, the answer, or the reply that the driver has dispatched (`Round`). The
  answer to the third request says whether the server has switched (`Settles`), and since each
  message in the clear comes once (`ClearOnce`), it is dispatched once.
* `RequestsUnderstood`: `Spec => []Understood`. As long as nothing is `torn`, the third
  request is the last one on its way, and from the server's switch to the end of the client's
  nothing is on its way (`Switch`); a request encoded before or after has the right form, and
  one encoded after it is at most `Overhead` above the limit (`Near`). With `Overhead = 0` the theorem says that
  every request fits.

`SaslStreamProofs`:

* `DecodesInOrder`: `Spec => []Faithful`.
* `CodecNeverFails`: `Spec => []CodecSurvives`.

Both follow from `Stream`, which says for an orderly input where every unit is. A
unit has a `Place` in all that the server has said. Before the switch, what is in transit
is `Straight`: plain units in order, from the first one not taken. Afterwards it is a
`Chain` of tokens of whole messages in order, and what is not yet in a token is straight
again (`Pending`). While a part of a token is kept as decoded, the buffer is straight and
the chain begins behind it. `Cuts` is what the conditions on the input amount to: no read ended inside of
a length, and nothing is behind a token of several messages. `Boundary` is the crucial
part: when the binding task gets its reply, that message was the last one in the clear,
so that the codec, which takes the rest of the buffer for tokens from then on, finds nothing there,
and the first token cannot come before the context is set. The lemmas `StraightDecode`,
`ChainFront` and `ChainAppend` are about one message, the first token and a further token.

### 6.5 Operations

`OperationsProofs`, under the hypothesis `Contract`, for any requests, URLs, controls, options,
answers and ids:

* `TypesHold`: `Spec => []TypeOK`.
* `RequestsIntact`: `Spec => []RequestIntact`.
* `ResultsIntact`: `Spec => []ResultIntact`.
* `Understood`: `Spec => []DriverUnderstands`.
* `NoneStranded`: `Spec => []NeverStranded`.

`Contract` is a statement about the constants alone: which octets stand for which request
and reply. The run `operations` evaluates it for the codec as it is in the source
(`CodecContract`), so that its hypothesis is one that the code fulfils on the instance. The
theorems then say that nothing the handle, the driver or the network do between those
octets spoils it: modifiers that wait on the handle or go to a clone, reads
that end anywhere, a connection that ends anywhere, a runtime that stands still.

The inductive invariant `IInv` follows a request and its answer:

* `ModifiersInv`: what waits on the handle is what was given since the last operation, or
  else the options that were left.
* `ChannelInv`, `WireInv`, `AskedInv`: what was asked is in exactly one of the two places on
  its way to the server, in octets that say it; nothing of an answer is about then, and
  the kind of the call is one for which that request can be answered (`Fits`).
* `AnswerInv`: what was sent is an answer of the right kind, and what the
  caller has got of it is `Proper`; the rest is `Left`.
* `FlightInv`: buffer and network together hold the octets of `Left`, or a beginning of them when
  the connection has ended; without an answer, nothing or those of a notice. This
  is where the cuts are: with the contract, the next message is decoded exactly when it has come in full
  (`NextMessage`), and taking it leaves the octets of the rest (`FlightDecoded`).
* `MapInv`: the driver has a sender exactly while it `Waits` for something of the call, so
  that no reply is dropped and none is kept.
* `NullInv`, `DriverInv`, `PendingInv`: what the driver answers itself; that it ends without
  leaving anything behind; and that a request taken by the driver is on the wire or answered.

`NeverStranded` is not inductive: it follows from `PendingInv`, `FlightInv` and
the contract, by which a message that has come in full is found.

### 6.6 BerHeaders

`BerHeadersProofs`, for every number an `i32` can hold, from -128 on, and every length below 2^31:

* `IntegersKept`: the octets of an integer are the number in two's complement.
* `IntegersRead`: the library's own reader, which knows no sign, finds every number from 0 on.
* `IntegersShortest`: they are as few as BER demands.
* `LengthsKept`: a length is read as it was written, in either form, and what is behind it is left.
* `LengthsAwaited`: a length that has not come in full is waited for, wherever it is cut.
* `IdentifiersKept`: class, number and kind of a tag up to 30 are read as written.

The run `operations` has the boundaries (127, 128, 32767, ...) of these; the theorems have all
that is between them. Below -128 `i_e_into_structure` takes an octet too few for some numbers,
because it looks for a sign only in positive ones; the library sends no such number unless an
application sets a negative limit. The functions
that read numbers are recursive; four octets are few enough to unroll them (`Horner`). The rest of the
codec is nested, and remains with TLC.

### 6.7 Only model-checked

* All liveness properties (`CallReturns`, `StreamEnds`, `DriverEndsAfterHandles`,
  `DriverEndsAfterUnbind`, `ReadsToEnd`, `Returns`, `TaskEnds`, `Delivered`): they need
  fairness and `ENABLED`, which are outside of what the prover supports.
* `CodecContract`, and with it `Ber`, `Filter`, `Escape`, `Messages` and `Application`. BER
  elements and filters are nested and the operators on them recursive; what recursive definitions
  compute for every input needs induction over data, which is out of reach as well.
* The refutations in the five runs that expect a violation: they are counterexamples.

## 7. Not modelled

* The texts of errors and result codes, `Display` and logging; the wrappers
  `SearchResult` and `ExopResult`, which repeat the tests of `LdapResult`.
* `SequenceOf` and `SetOf` of `lber`, which the library does not use; characters of more than two octets.
* The tokens of the NTLM and GSSAPI libraries and the channel binding, which are
  external; a second bind on a connection that has a security layer.
* Adapters written by users, which may do anything with the stream.
* Durations, memory, and TLS itself.
* Examples and test data.

## 8. Plan

The components are modelled, and every invariant and action property that the runs
check is proved, except `CodecContract`. What could follow:

1. `CodecContract` for single requests of any parameters, on top of `BerHeadersProofs`, with
   a prover that does induction over nested values.
2. The liveness properties, with a prover that knows `ENABLED`.
