# A TLA+ model of the server

This directory models the HTTP server of this repository: the threads that
serve connections, the queue between them, the file cache they share, the
table of users, the sessions that a connection can turn into, and the text and
byte algorithms on the way. TLC checks the models on small instances. TLAPS proves
what matters most about the queue, the serving core, the file cache, the table of
users and the WebSocket sessions for every value of their constants, and about the
algorithms for inputs of any length.

`PROJECT.json` maps every definition that stands for code to the lines it
models and lists the components, runs, mutants, findings, hazards and theorems.

## The system

| Part | Source | State | Operations | Talks to |
|---|---|---|---|---|
| Event loop | `src/server/server.cc`, `include/server/server.hh` | main socket, epoll descriptor and its event array | constructor, `epoll_add`, `loop` | queue (push), sockets (accept, close) |
| Descriptor queue | `include/thread_safe_queue.hh` | `std::queue`, mutex, condition variable | `push`, `pop` | loop pushes, workers pop |
| Worker threads | `server.hh:71-77`, `src/myserver.cc` | locals of the worker function | read a request, route it, answer, close | queue, sockets, file cache, users, WebSocket |
| Sockets | `src/server/socket.cc` | a descriptor number | `read`, `write`, `close` | kernel |
| HTTP requests | `src/server/http.cc:84-247` | a 4 KiB buffer per request, parsed fields | constructor, `qvalue`, `form_data` | socket |
| HTTP responses | `src/server/http.cc:251-306` | none | `send_file`, `send_str`, `error::respond` | file cache, socket |
| File cache | `src/file_cache.cc` | `std::map` of `cached_file`, one `std::shared_mutex` | `file_cache`, `~locked_cache_view` | `zlib.cc`, file system |
| User table | `src/server/users.cc`, `src/user.cc` | image of `db/users`, two sorted indexes | load, `new_user`, `reset_pw`, `reset_cookie`, look-ups, logins | file system, bcrypt |
| WebSocket | `src/server/websocket.cc` | none | handshake, `receive_frame`, `parse_frame`, `send_frame` | socket |
| Old HTTP | `src/http.cc` | gzip files on disk | `send_file` | file system |
| Text algorithms | `base64.cc`, `lex_str_sort.cc`, parts of `http.cc` and `users.cc` | none | pure functions | |

A connection's life: the main socket becomes readable, the loop accepts until
`EAGAIN` and registers the new descriptor edge-triggered. When bytes arrive the
loop pushes the *number* onto the queue. A worker pops it, reads once, parses,
answers and closes the number. The kernel may give the same number to the next
client at once. Nothing else ties a queued number to a connection.

What is hard here, and the properties that make each part correct:

- **Queue.** A notification sent after the unlock, spurious wakeups, `front`
  and `pop` in two statements. Correct: no wakeup is lost, and every value is
  delivered exactly once and in order.
- **Loop and workers.** Edges are reported once, numbers are reused, and
  events, queued numbers and workers outlive connections. Correct: no event is
  lost, no backlog is stranded, a worker acts on the connection it was given,
  each connection is finished, a client's departure is noticed, workers come back.
- **File cache.** The lock changes mode by being released and taken again, a
  decision made under one mode is used under the other, and a view keeps the
  shared lock while it is sent. Correct: locks balance on every path; bytes
  being sent do not change and are one whole version; they are not stale.
- **User table.** Two sorted indexes over an image that is changed before they
  are, a file that must stay record-for-record equal to the image, system calls
  that fail half-way, kills and machine crashes. Correct: the indexes are exact,
  file and memory agree between calls, a reported user survives.
- **WebSocket sessions.** One read and one frame per edge, a length check that
  does not know what was read, frames cut or joined by the network, several
  workers at one session, buffers that keep other sessions' bytes. Correct: no
  frame is heard that was not sent, a peer that takes turns is answered, a
  session that has ended is closed. Each holds with an exception that the
  property names.
- **HTTP requests.** A scan in place that is bounded by the buffer, not by what
  was read; five ways to get a body. Correct: a request is read as it was written
  and no other request's bytes become part of it.
- **Text and bytes.** Ends of lists and lines, padding, byte order, overflow,
  sign extension. Correct: they agree with a reference definition.

## Modules

| Module | What it is |
|---|---|
| `FifoQueue` | What the queue promises: an atomic push, pop and finish |
| `ThreadSafeQueue` | `include/thread_safe_queue.hh`, one action per statement that touches shared state |
| `ThreadSafeQueueProofs` | Its theorems |
| `Server` | Loop, sockets, kernel, clients and workers, composed with `FifoQueue` |
| `ServerProofs` | Its theorems: about any clients, and about patient ones |
| `FileCache` | `file_cache()` and the view, as `send_file()` uses them |
| `FileCacheProofs` | Its theorems |
| `Users` | The user table as the command `user` drives it |
| `UsersProofs` | Lemmas on sorting, searching and inserting; its theorems |
| `HttpRequest` | `http::request`: the read, the scan of the header, the body |
| `HttpForms` | What handlers do with a request's text: `form_data`, `qvalue()`, `post_form_data()`, the path filter, the lists of the handshake; and the MIME table |
| `TextAlgorithms` | `base64.cc`, `lex_str_sort.cc` |
| `WsCodec` | `parse_frame()` and `send_frame()` on bytes |
| `WsCodecProofs` | Lemmas on bits and bytes; that every frame is understood |
| `Bcrypt` | `src/bcrypt` around Eksblowfish, as `bcrypt.hh` uses it |
| `WebSocket` | Sessions: the handler, `receive_frame()`, workers and peers; extends `WsCodec` |
| `WebSocketProofs` | Its theorems |
| `AlgorithmProofs` | Induction over recursive functions; theorems on bcrypt, base64, the order of names, buffers, bodies and paths |
| `TextProofs` | Theorems on requests and forms, and about the run `text` |
| `MC*` | Instances for TLC; `MCText` picks one algorithm and one input per step |

Operators that a comment introduces as a *slip to compare with* are the code
with one plausible mistake. They are in no specification; each shows that a
property would notice that mistake.

### FifoQueue and ThreadSafeQueue

`ThreadSafeQueue` keeps the `std::queue` (`q`), the mutex's owner (`mx`), the
wait set (`cv`) and each thread's program counter and local (`pc`, `val`).
`Lock` is both `lock_guard` and `unique_lock`, and re-locking inside `wait()`.
`PushEmplace`, `PushRelease`, `PushNotify` are the lines 17-20 of the header;
`PopWait`, `PopFront`, `PopTake`, `PopReturn` the lines 23-28. `SpuriousWake`
is what the standard allows of `wait()`.

`ImplementsFifo` states that this is `FifoQueue`, liveness included, under the
mapping `Hand`: a worker has a value from the moment `q.pop()` removed it until
it asks again. `FifoQueue` has two specifications: `SafeSpec`, which the proofs
use, and `Spec`, with fairness, which TLC checks.

### Server

The kernel is part of the model because the code's correctness rests on it:
`table` is the descriptor table (`accept()` gives the lowest free number, closing
frees it and drops it from epoll), `ready` is the edge-triggered ready list.
An item joins `ready` when something happens on its connection, and
`epoll_wait()` reports it once if it is still pollable. `batch` is the part of
`epoll_events` that the loop has not handled. The queue is `INSTANCE FifoQueue`,
which `ThreadSafeQueue` implements, so its locks need no states here.

Each queued event carries as a history value (`of`) the connection it was
reported for. No guard depends on it. `req` and `got` are history too: who asked
for the response that a worker is writing, and who received it.

A worker goes from `pop` to `read`, then to `head` and `body` (a file, in several
writes), to `answer` (a page, a redirection or an `http::error`, in one write), or
straight to `close`: a request that is neither a GET nor a POST (lines 70 and 118
have no `else`), or one for which something other than an `http::error` is thrown
(line 161), is closed without a response. `ReadRequest` is the single `read()` of
`http::request` with the choice among these. While `read()` returns `EAGAIN` nothing
is enabled, which is the code's spin. `ReadFails` is its exception. `ReadEnd` is
the end of the stream: the handler returns at line 55, before it closes anything, and
the connection stays open and registered with its edge used up (`ended`). A write that
throws inside `send_file()` is caught there and becomes a 404 that the handler sends
(`WriteFails`, `Respond`). If a write of the handler throws, `catch (...)` closes
(`AnswerFails`). If that of `e.respond()` does, which stands in a catch clause itself, the
exception skips the `sock.close()` below it (`RespondFails`).

At this commit `myserver.cc` does not fit the headers beside it: its worker
function takes the server and a `file_desc`, which `server.hh` neither passes nor
defines. Both `Server` and `WebSocket` read it as the `ivanp::socket` that the queue hands
out: its destructor closes nothing (only that of `uniq_socket` does, the type of the main
socket and the epoll descriptor), so that only an explicit `close()` ends a connection.
With a type that closes at the end of its scope the return of line 171 would end every
WebSocket session after its first frame, and line 55 would leave nothing open.

Assumptions: `epoll_events` has room for every descriptor; a connection that can be
written to takes a write whole and at once, so the partial writes and the retry on `EAGAIN`
of `socket::write()` are left out (`Deliver`; a slow reader would need them); the process takes no signals besides
`SIGPIPE`; a `Patient` client sends one request in one segment and waits for
the close, any other may split it, hang up or reset at any point. The
WebSocket branch, which leaves the descriptor open, is not in this module.

### FileCache

`entry` is `struct cached_file`; `readers` and `writer` are the
`std::shared_mutex`; `pc` the place in `file_cache()`, and in `send_file()` while
it sends. A version stands for a file's bytes and length. The two pieces
of C that matter to the properties are kept as such: what `malloc()` returned and
`read()` did not fill is `Garbage`, and `deflate_alloc()` called on the dangling
`f.zdata` sets `freed`. After that nothing is known, so the model stops there;
the properties claim nothing of what follows.

Assumptions: every name already has its node in the `std::map` (the insertion
under a shared lock is undefined behaviour and is listed as a hazard); files
are replaced by renaming, not rewritten in place; time stamps start at 1, the
empty entry's is 0.

### Users

`m` is the file image, `f_len` how many of its records count, `off` the
descriptor's offset, `by_name` and `by_cookie` the two indexes. `Create`,
`Write`, `Sync`, `Index`, `Commit` are `new_user()` in order; `Reset`, `Pwrite`,
`Psync` are the two resets; `Load` is the constructor. `CreateFails` is every
exception, which `user.cc` does not survive (`Retries = FALSE`). `Exit` is the
end or kill of a process at any step: the file keeps what was written.
`Crash` is the end of the machine: what was not synced may be found whole, in
part or not at all. `Load` refuses every file with a record that is there in part. The
code refuses it if the bytes end within a record (`users.cc:126-134`); a torn record with
others behind it, when its bytes and theirs happen to divide into records, it would read as
other users than were written. The model does not follow that case.

Assumptions: records are equally long, so an offset is a record's number; names
and cookies are ordered numbers, as `strcmp()` and `memcmp()` order strings;
cookies come from a small set, so the retry loop of `rndstr()` really collides;
one `user` process runs at a time (`Alone`): two at once do corrupt the file,
which is listed as a hazard.

### HttpRequest and HttpForms

These are operators without state. A buffer is a sequence of letters: a
character where the scan tells it apart from others, a whole word where it does
not (`"Content-Length"`, the numerals). `Request(sent, nread, short, stale)` is the
constructor: the first read returns `nread` letters, the rest of the buffer is
`stale`, a second read returns at most `short` of what is left. `Parse` is the
scan, `RequestLine` and `Field` the two kinds of line, `BodyOfFull` the branch
for a buffer that the read filled. A view whose length wrapped is `Wild`, memory
that `malloc()` returned and nothing filled is `Garbage`. In `HttpForms` a C
string is a sequence that ends in its only `NUL`.

What the models show of the code besides their properties: an incomplete
header may be completed by bytes of an earlier request, and `nread_data` then
wraps; a body that comes in a second segment is not waited for unless the first
read filled the buffer ("default buffer was enough", `http.cc:155`); `\r` followed
by other characters is accepted, since only `\n` resets `nr`, in spite of the
message at `http.cc:103`; the messages at lines 163 and 165 are exchanged, which
the model, having only codes, does not tell apart; a parameter without a value
reaches `pw_login()` as a null pointer. In the MIME table a comment goes on
at its last character (for a lone `#` for ever), and a last line without an end of
line is dropped. In the lists of the handshake empty elements join their
neighbour, and a comma at the end makes the scan leave the value.

### TextAlgorithms

A base64 letter is its index, a `char` a number. `Base64Decode` has the scan as it
is, bounded by six times the length (`base64.cc:60` multiplies `len` before `end` is
computed), so the property is claimed where a `NUL` follows the text. A number that
does not fit `unsigned` leaves 0 in the variable (`lex_str_sort.cc`, with
`std::from_chars`), and the order is still one that `std::sort()` accepts.

### WsCodec and WebSocket

`ParseFrame` maps a buffer to a frame and the buffer with its payload unmasked,
`Xor` bit by bit. A length of `Huge` (4 MiB) or more is one value, as no buffer is that
long. It says `overrun` where the loop at `websocket.cc:200` leaves the buffer: the check
at line 180 compares the length with the whole buffer, not with what is left
behind the head. `SendFrame` writes an extended length in host order; the server
sends four bytes, so peers never see that.

`WebSocket` keeps per peer the place of its connection in its life (`phase`: asked by
HTTP, 101 sent, registered, closed), what it has sent and what waits in the kernel
(`rx`), and per worker the place in the handler, the descriptor, the reply and the
buffer, whose old bytes `parse_frame()` may read. `Hello` writes the 101, `EpollAdd`
registers the descriptor a step later, and what came in between is reported then, or
`EpollAddFails` (see below).
`ReceiveFrame` reads once and parses once: whatever else was read is dropped.
`ReceiveNothing` is the end of the stream or a descriptor that another worker has
closed; while neither holds and nothing has come it is disabled, which is the
spin of `socket::read()`. `Reply`, `ReplyFails` and `Close` end the handler. `heard`,
`got`, `torn` and `left` are histories that no guard of the server depends on.

Every segment is an edge, so one session may be queued twice and be in two
workers' hands; the second one may find nothing, the middle of a frame, or a
closed session. All of this is in the model. After an overrun nothing is known
and the model stops (`alive`).

What peers send is given by constants: `Script[p]`, the frames of a peer, `Stream[p]`,
their bytes, and `Cut[p]`, where each frame ends. `StreamAssumption` ties the three
together: each part of the stream is a frame of RFC 6455, masked, shorter than `Huge`, in
any form of length that is long enough. How those bytes are cut into segments is not
assumed; that is `Send`.

Other assumptions: `server.accept()` and `file_desc`, which tell a request from a session
and decide whether a descriptor is closed at the end of its scope, are not in the
repository at this commit. A session ends only by an explicit close, as in `Server`. For
`server.accept()` there are two readings, and the constant `Registered` has the peers to
which the first applies:

- The event loop accepts and registers the connection, as `server.cc:71-83` does. Then the
  handler's `epoll_add()` fails with `EEXIST`, throws, and `catch (...)` closes
  (`EpollAddFails`). Until then the session is in epoll's set, so that frames which come
  between the 101 and the close reach another worker.
- The worker accepts on the main socket, as the comment at `myserver.cc:162` has it ("the
  main socket might be closed if accept throws"), and the handler registers what is to
  stay open. Then `EpollAdd` succeeds. `Pop` takes a worker that was given a request
  to its connection in both readings; that the main socket itself would be queued
  is left out.

The theorems hold for any `Registered`, so what the run `websocket` checks of safety is
proved for both readings. The run `websocket` is the second reading, which
is the only one in which a session goes on; `websocket_registered` is the first.

Numbers that are reused, resets and failing writes are in `Server`; a peer that has shut
down its direction still reads. Handshakes that are refused are in the run `text`.

### Bcrypt

A setting or a hash is a record of its fields. Eksblowfish is a one-way function: the
hash *is* the record of salt, cost and expanded key. `BFSetKey` has the correct
and the buggy key schedule and the safety measure; `KeyWords` is the length of an
expanded key (18 in the code). `CryptRn` contains the self-test, as far as it compares
key schedules with each other.

## Runs

| Run | Configuration | Result | Shows |
|---|---|---|---|
| `queue` | 2 pushing and 2 popping threads, 2 values, 3 pushes | pass | `NoLostWakeup`, `InOrderExactlyOnce`, `ImplementsFifo` with liveness |
| `server_patient` | 3 patient clients, 2 descriptors, 2 workers | pass | `OwnConnection`, `EveryClientFinished` |
| `server_impatient` | 1 patient and 1 arbitrary client with 2 segments, 1 descriptor, 2 workers | pass | `NoEventLost`, `BacklogWatched`, `WorkerReturns`, `GoneClientNoticed` |
| `file_cache` | 3 workers, 1 file with 3 versions, the last too large, no gzip | pass | `LocksMatch`, `ViewIntact`, `FreshView` |
| `file_cache_gzip` | 2 workers, gzip and plain | pass | `ViewIntact`, `FreshView` up to the first use of freed memory |
| `users_index` | 3 names, 4 cookies, every fault | pass | `IndexesExact` |
| `users_crash` | 2 names, 3 cookies, 2 passwords, failing `write` and `fsync`, crashes | pass | `FileAgrees`, `AckedSurvive` |
| `users_failure` | `fsync` fails, the caller goes on | violation | `FailureIgnored` |
| `users_growth` | `realloc()` moves the indexes | violation | `NewUserIndexed` |
| `text` | every input of small sets, one algorithm at a time | pass | the 13 properties below |
| `websocket` | 1 patient peer, 1 that splits, joins and hangs up, 2 workers, buffers of 16 bytes, `Registered = {}` | pass | `FramesHeardWereSent`, `NothingStranded`, `PatientServed`, `GoneSessionEnds` |
| `websocket_registered` | the same, both peers in `Registered` | pass | `RegisteredClosed` |

The properties of `text`:

| Property | Says |
|---|---|
| `Base64Exact` | encoding is the bits six at a time; decoding gives the bytes back, with a zero for each `=`, and stays in its vector |
| `SortOrder` | `lex_str_less` is a strict weak order, with case, categories and overflowing numbers |
| `RequestsRead` | a request that fits is read as it was written, whatever the buffer held |
| `StaleHarmless` | what an earlier request left has no influence once the header was read whole |
| `BodiesAccounted` | a body is as long as its `Content-Length`, within the limit; only a short read leaves garbage |
| `FormsRead` | pieces sent are the pieces found, in both kinds of form; truncated forms are refused |
| `HeaderListsSearched` | weights and elements of comma-separated headers, over several headers of a name |
| `PathsInside` | an accepted path never leaves `files/`, and what is refused is known exactly |
| `MimesRead` | the table has the lines of its file |
| `FramesUnderstood` | every form of length and any mask is understood, and exactly which replies a peer understands |
| `PasswordsTold` | `bcrypt_check()` accepts what was hashed and nothing that differs in a char that counts |
| `SafetyMeasured` | no hash under `$2a$` is one of another password under `$2x$`; only chars 0xff are affected |
| `FailuresNeverMatch` | a call that fails never leaves the stored hash in the output |

Why the bounds are enough:

- *queue.* Two poppers are needed for one to take what woke the other, two
  pushers for two pending notifications, three pushes for a queue that fills,
  empties and fills again while a thread sleeps. The proofs remove the bound.
- *server.* With one descriptor fewer than clients a number is reused and
  `accept()` fails; with two workers one can hold a number that the other
  closes. A split request (two segments) queues a number a second time while it
  is served. One descriptor in `server_impatient` makes every late event fall on
  a reused number. `Conns` and `Workers` are not symmetric sets in the
  configurations, since both runs check liveness.
- *file cache.* Three workers, as the window between the modes needs one
  in it, one that reloads and one that holds the shared lock; three versions
  so that a reload can be overtaken. In the gzip run two are enough for
  every outcome of the window, and the third only multiplies states.
- *users.* A third name can go first, between or last in an index, and it makes
  the indexes grow past `MinCap = 2` (32 in the code). `MaxRecords` stops
  creations, not resets. The crash run needs two records (a reset of one while
  the other is appended) and two passwords to tell the old one from the new.

- *text.* A buffer of 16 letters holds a request with one header and is exceeded
  by one with two, so both kinds of body occur, with lengths below, at and above
  what was read and `MaxBody = 4`; every single letter of a request is replaced by
  each of those that end something, and every request is cut at every letter.
  The other alphabets have one letter for each case of the code, and texts long
  enough for three elements. Long WebSocket lengths are taken on both sides of each
  limit. Expanded keys have two words, so passwords longer than a word, longer
  than the key, and with a char 0xff before, at and behind a boundary occur.
- *websocket.* The peer that is not patient has a ping of nine bytes and a close
  of eight: together they exceed the buffer by one byte, so something is left
  behind. It may cut within the first frame behind byte 2 (`Pieces`), and its mask
  is one that looks like a head of fifteen bytes when it is read alone: this is how
  the overrun is reached. The patient peer's first frame has its length in two bytes
  although one would do. Two workers are enough for two at one session. The
  patient peer sends a text and a pong, so that both kinds of reply are due while
  the other peer's bytes are in the same buffers.

`CHECK_DEADLOCK FALSE` stands where the system may really stop: every client
has been served, or the process was killed, or no operation is left within the
bounds. The queue runs with deadlock checking: with `MaxPushes` reached
some worker could still wake spuriously, and a behaviour in which all wait
forever for a lock would be reported.

### Disagreements with the repository's comments

Two are runs that TLC finds violated:

1. `users.cc:257` says that if a creation fails "previous steps can be ignored".
   `write()` has already extended the file and moved the offset (`users_failure`).
2. `users.cc:248` says "index the new user". When the indexes are full the
   iterators were taken before `append_user()` called `realloc()` (`users_growth`).

Others are part of the models, and the properties are stated around them:

3. `myserver.cc:156` says "always close HTTP socket". For a client that closes without a
   request the handler has returned at line 55 before, and its descriptor stays open until
   the client resets the connection, if ever. `GoneClientNoticed` claims no more than that a
   worker has read the end of the stream. This depends on what `file_desc` is (see `Server`).
4. `myserver.cc:92` says "move prevents closing" of the registration of a session. If the
   event loop has accepted the connection, it has registered it already (`server.cc:82`),
   the second registration throws, and every session is closed behind its 101:
   `RegisteredClosed`. This depends on what `server.accept()` is (see `WebSocket`).
5. `http.cc:261` says "send cached file" of a branch that is reached with no
   cached file. Two first requests for a file, one of them compressed, overlap;
   in the gap between `unlock()` and `lock_shared()` the plain one resets
   `zdata`. The client gets an empty response, and as the view has no data its
   destructor keeps the shared lock, after which nothing can be loaded. This takes
   `gz = true`; the callers in `myserver.cc` leave it at its default, `false`. `LocksMatch`
   is therefore not among the properties of `file_cache_gzip`.

## Fairness

- Threads: weak fairness per thread for its next step. The scheduler runs
  every runnable thread; nothing stronger is assumed.
- The mutex of the queue: weak fairness of *some* thread taking a free mutex. A
  `std::mutex` promises nothing to any particular thread, so individual
  delivery is not claimed, only that a queued value is popped.
- `Server`: weak fairness of the loop, of some worker popping, of each worker's
  next step. A client that has connected sends, and one that is not patient
  hangs up in the end: without that no property could bound the spin of
  `socket::read()`, which has no timeout. `accept()`, resets and connects are
  not fair.
- `FileCache` has no fairness and no liveness property. The thread that holds the exclusive
  lock never waits, and that every path gives it back is `LocksMatch`. That a request
  *finishes* is not claimed: `try_lock()` may fail for ever while others hold the shared lock.
- `WebSocket`: weak fairness of the loop's report of each edge, of some worker
  popping, and of each worker's next step, as in `Server`. Peers send their script,
  and one that is not patient shuts its direction down in the end: a worker that
  was given a session twice spins in `read()` until then, and only that returns
  it to the patient one.
- `Users` has no fairness and no liveness property: calls are made by a person.

## What is proved

`ThreadSafeQueueProofs`, from `QueueAssumption` alone (pushers and poppers are
different threads, `NoThread` and `NoValue` are not among threads and values,
`MaxPushes` is a number):

- `TypeCorrect`, `NoWakeupIsLost`, `ExactlyOnceInOrder`: `Spec => []TypeOK`,
  `[]NoLostWakeup`, `[]InOrderExactlyOnce`.
- `RefinesFifo`: `Spec => Fifo!SafeSpec`, the safety half of `ImplementsFifo`.

The inductive invariant `IInv` has seven conjuncts. `InOrderExactlyOnce` is not
inductive alone: `PopTake` removes the head but records the local copy, so it
needs `FrontHeld` (between the two statements the copy is still the head). That
holds only because no other consumer is there, which is `MutexOwned`.
`NoLostWakeup` needs `WaitSetOK`, so that a consumer that goes to sleep found
the queue empty while owning the mutex, and `MutexOwned`, so that no push is
inside at that moment. `ArgumentHeld` types what is queued. Two lemmas on
sequences (`MoveHead`, `AppendQueued`) carry the arithmetic of the histories.
For the refinement, `PushEmplace` maps to `Push`, `PopTake` to `Pop`,
`HandlerDone` to `Finish`, and everything else to a stutter.

`ServerProofs`, from `ServerAssumption` and `NoEventAssumption` (`Main` is no
descriptor of a connection, `NoConn` no connection, `NoEvent` no event), for
any sets of connections, descriptors and workers and any `Patient` and `MaxSegs`:

- `TypeCorrect`, `NoEventIsLost`, `BacklogIsWatched`: `Spec => []TypeOK`,
  `[]NoEventLost`, `[]BacklogWatched`.

An event leaves the program's hands in four ways. The loop or a worker closes its
descriptor, and `CloseFd` leaves nothing pending on it (`CloseFdFacts`). Or a worker
returns without closing: at the end of the stream, which it has then read (`ended`), or
because `e.respond()` threw on a connection that is reset. The last case needs
`ResetWatched`: a reset is an edge of its own, so whatever the worker leaves is on the
ready list or in other hands. The rest of `IInv` makes that argument go through:
`HandsFull` (a worker has an event exactly while it is in its handler), `MainKept` (no
worker is given the listening socket, and it is never closed; part of `TypeOK`),
`BatchHandled` (`epoll_wait()` overwrites no event that is not handled yet) and `Asked`.

For patient clients, `OwnConnectionKept`: `Spec => []OwnConnection`. Its
invariant `OwnInv` says that an event in the program's hands is `Current`: its
descriptor still refers to the connection it was reported for, that connection
has sent its only request, and the descriptor is not ready again. With
`BatchDistinct`, `QueueDistinct` and `HandsDistinct` (no number is twice in the
program's hands) this is inductive: only a current event's holder closes its
number, and a number that `accept()` hands out again is in nobody's hands.

`FileCacheProofs`, from `CacheAssumption`, for any threads, names and versions:

- `TypeCorrect`, `ViewStaysIntact`: `Spec => []TypeOK`, `[]ViewIntact`. The
  invariant cannot say that a thread holds the shared lock once: that is false
  when a view has no data. `SharedHeld` says at least once, `Exclusive` that
  the writer is the thread in `load`, `read` or `zip` and that nobody is a
  reader then. Hence an entry changes only when nobody looks at it.
  `EntryWhole` and `Filling` say what the entry holds meanwhile.
- `LocksBalance`: `PlainFiles => (Spec => []LocksMatch)`. `PlainFiles` (nothing
  is compressed, no time stamp is 0) is needed: otherwise a view can be returned that has
  no data and keeps its lock.

- `ViewsAreFresh`: `Spec => []FreshView`: what is sent is a version that was on disk when
  this request, or one that overlaps it, opened the file (another worker that opened it
  before may fill the entry after). Time stamps are all that `file_cache()`
  compares, so the argument is about them. `Dated`: what an entry holds has the entry's
  time stamp, except for the compressed copy while the entry is being filled, which
  gives it the stamp first. `Overlap`: the versions of two requests for one file that
  overlap are near each other. `NearEntry`: a request that has decided to keep an entry,
  or has filled it, finds in it something near until it has its view, although it
  holds no lock in the gap between the modes. All three are claimed until a `read()`
  has failed, as `FreshView` is.

`UsersProofs`, from `UsersAssumption` and `TornAssumption`, for any processes, names,
cookies, passwords and sizes of the indexes:

- `TypeCorrect`: `Spec => []TypeOK`, for every constant. `TypeOK` is `Types` and
  `Bounds`: every record that an index or a call under way names is in the image, or
  `SortBy` and the searches would not be defined.
- `IndexesCorrect`: `~Retries => (Spec => []IndexesExact)`. `user.cc` does not go on
  after an exception, and the runs `users_failure` and `users_growth` show what would
  happen and why a process that wrote through a stale iterator (`wild`) takes no further step.
- `FileCorrect`, `AckedCorrect`: `[]FileAgrees` and `[]AckedSurvive`, if also `write()`
  is never short (`"short" \notin Faults`). A short `write()` leaves half a record that the
  next load divides the file by, which no run claims to survive.

`TableInv` has five parts. `OneOpen`: one process has the table open. `Indexed`: both
indexes list 1..n, once each, in strictly increasing order, where n counts the user that
`new_user()` has indexed and not yet committed. `Fresh`: the record that is being created
shares its name and cookie with no other, which the search at the start and the loop
around `rndstr()` have established and which only the next step uses. `Distinct`: records of
the file differ, or no strict order could exist after a load. `Mirrors`: the file is the
image, record for record, except the record of a call under way. `AckedInv` adds `Kept`:
from `fsync()` to the report the synced file is the file, and a password that a reset is
about to write is one that the user may have.

Its first part has the facts about the algorithms, for sequences of any length.
`std::sort` is `SortBy`, which puts an element at the place given by the number of those
before it; that this permutes the sequence and orders it, that `std::lower_bound` finds an
element if and only if it is there, and that `append_user()` inserts it in order are
proved by counting (a set of positions that is closed downwards is 1..c for its
cardinality c), without induction.

`WsCodecProofs` is about operators:

- `EveryFrameUnderstood`: `FrameUnderstood` for every opcode, payload shorter than `Huge`,
  mask and form of length, and anything behind the frame. `ByteIsBits` and `XorBits` make
  bytes of bits and back, so that masking twice with one byte is the identity
  (`XorTwice`); `LengthRead` says that each form of a length is read as it was
  written; `FrameRead` finds head, mask and payload in a buffer that starts with a frame.
- `ParseTyped`, `SendTyped`: whatever bytes a buffer holds, parsing and sending leave one
  of the same length, and a frame has an opcode and bytes.
- `EveryReplyUnderstood`: `ReplyUnderstood` for every opcode, message of less than 64 KiB
  and size of the buffer. `HeaderShape` gives the bytes of a head; a peer understands every
  reply of less than 126 bytes that fits (`ReplyRead`), and a longer one exactly if its
  length reads the same in both byte orders (`LongReplyRead`).

`WebSocketProofs`, from `WebSocketAssumption` (workers are finitely many; a buffer holds at
least 14 bytes, the longest head with its mask, and fewer than `Huge`) and
`StreamAssumption`, for any peers, scripts, segments (`Pieces`) and workers:

- `TypeCorrect`: `Spec => []TypeOK`. That a session is never sent more answers than frames
  were heard needs `Answered`: the answers that workers are still to send are counted too.
- `FramesHeardCorrect`: `Spec => []FramesHeardWereSent`. `Streamed` says that what waits
  in the kernel is the end of what was sent. `HeardInOrder` places every frame heard within what
  the server has *read*, not merely within what was sent: without that a read could hear
  an earlier frame again. A read that starts and ends at ends of frames finds the next
  frame at the start of the buffer (`FrameAt`, from `FrameParsed`), whatever the rest of
  the buffer holds, and does not unmask past its end. When a `read()` comes short of either
  end the peer is `torn`, and the property claims nothing for it.
- `NothingIsStranded`: `Spec => []NothingStranded`, for any `Registered`. Every step that
  takes a session out of `ready`, the queue or a hand puts it into the next of them, or has
  emptied it, or has put it into `left`. For a session that the loop has registered this
  needs `GreetedOnce`: a connection is given its 101 by one worker, whose edge was used up by
  the request, and nothing has come and nobody else holds it at that moment.

`AlgorithmProofs` begins with bcrypt. From `BcryptAssumption` and `NullAssumption` (a null
pointer is neither a salt nor a setting), for a key of any number of words; a password is any
sequence of chars but NUL:

- `HashesTellPasswords`: `HashTellsPasswords` for all passwords, 16 random bytes and any work
  factor. `RoundTrip`: `BF_decode()` undoes `BF_encode()` for any number of bytes.
  `AlikeSignificant`: the chars that the loop takes of two passwords are the same exactly if
  the passwords agree up to the NUL or the end of the key, since the first NUL among them
  shows the length. `SelfTestPasses` works out the self-test's key.
- `SafetyMeasureHolds`: `SafetyMeasure` for all passwords. `Extended` is what the sign
  extension leaves of four chars; it is idempotent and keeps a negative char
  (`ExtendedFacts`), so the correct key that equals a buggy one with lost chars is its own
  image under the bug and has a sign, which is when the measure flips the bit (`LossShows`).
- `NoFailureMatches`: `FailureNeverMatches` for any setting and size. A hash repeats its
  setting but for bits that no byte of the salt takes (`TrimFacts`), so it is accepted again
  and gives itself (`HashedAgain`).

The rest of `AlgorithmProofs`, and `TextProofs`, have the algorithms over text, for inputs of
any length; `TextProofs` also has the run `text`. Each of the twelve theorems about that run
has two parts: what the algorithm does for every input, and that the run's property follows
(`Spec => []...`). The second part needs `AlwaysPicked`: the inputs that the run picks satisfy
the hypotheses of the first.

- `Base64Holds`: `Base64RoundTrip` for all bytes. The encoder and the decoder are loops whose
  state is a group half written; `EncodedUpTo` and `DecodedUpTo` say what has been written
  after k of them, for each residue of k. `BitsGrouped` does the same for the reference.
- `SortOrderHolds`: `StrictWeakOrder` for any set of strings and any largest number. Both
  strings are walked token by token; `Verdict` is the answer from two places on. The
  transitivity of "neither is less" needs that such strings have tokens of the same
  category and rank one by one (`SameTokens`), where numbers that overflow rank alike.
- `RequestsReadHolds`: `ReadAsWritten` for every request that a client writes well (`WellWritten`:
  any letters that are no control characters, `/` before the path, no blank in the method and
  the protocol, no colon in a field's name), any body and whatever the buffer held. The lines
  of the request are places where its text is cut (`CutsLines`, `LaidOut`): the scan stops at
  the last of them and at none before, and takes the same lines. Then the request line and
  each field are read back, and the body is put together from what the reads returned.
  `LetterAssumption`: NUL is none of CR, LF, blank and colon; `AlphabetAssumption` says so of the
  run's other letters.
- `FormsReadHolds`: both kinds of form. `FormAsPieces` for all texts: `FormTurns` is the loop of
  `form_data`, `Split` cuts at each `&`. `Within` says what the loop has of a piece that it is
  in the middle of, `PieceWalked` what a whole piece makes of the parameters, and `Applied`,
  from the last piece to the first, what all that follow make of them (`FormIsPieces`).
  `PostFormExact` and `PostFormRoundTrip` for all bytes, and all texts shorter than 64 KiB,
  beyond which a length does not fit its two bytes: `AcceptedIsEncoded` goes from the end of
  the data to its start, `CutRead` from the first text to the last before a cut, and
  `BlockRead` is a text that may be cut off. `SeparatorAssumption`: NUL separates nothing;
  `NullTextAssumption`: a null pointer is no text.
- `StaleHarmlessHolds`, `BodiesAccountedHolds`: for a buffer of any `Size`, any `MaxBody`, and
  any letters sent. `ParseOfBuffer` is the core of both: the scan stops at the empty line, so
  it sees only what was read when that contains one. The second asks that no letter sent *is*
  `Garbage`, the mark of memory that nothing filled (`AlphabetAssumption` for the run).
- `PathsInsideHolds`: `PathStaysInside` for all paths of the listed characters and `%`. The code
  scans from each `/` over dots; the reference splits the path into pieces. `SplitIs` says that
  the pieces are those that begin behind each `/`, and `DotsPiece` that the scan stops at a `/`
  or the end exactly if the piece is of dots alone. `NulAssumption`: no listed character is NUL.
- `MimesReadHolds`: `MimesOfLines` for all texts without NUL. The table is read from a line's
  start on (`MimesAreLines`, from the last line to the first); a line is trimmed at both ends
  before the key is cut off, as the reference does. `TableAssumption`: the run's texts have no NUL.
- `FramesUnderstoodHolds`, `PasswordsToldHolds`, `SafetyMeasuredHolds`, `FailuresNeverMatchHolds`
  join the theorems of `WsCodecProofs` and those on bcrypt with the run. A peer understands
  replies of up to 125 bytes, as all are that the server sends; longer ones it misreads
  unless their length is the same in both byte orders.

The library's induction theorems are of no use here, as they take an operator as a parameter.
What stands in for them is that a nonempty set of naturals has a least element
(`LeastNatural`): `UpwardInduction` and `DownwardInduction` are about membership in a *set*.
Loops are written as recursive functions, which `CHOOSE` defines; `StepwiseFollows` and
`BackwardExists` show that a function with these steps exists, without which nothing would be
known of its values.

Only model-checked:

- `HeaderListsSearched`. It would take a second description of its scan, as `Split` did, and
  `qvalue()` folds over values, which is an unknown function to the provers.
- every liveness property (`ImplementsFifo`'s fairness, `EveryClientFinished`,
  `WorkerReturns`, `GoneClientNoticed`, `PatientServed`, `GoneSessionEnds`,
  `RegisteredClosed`):
  liveness under fairness and `ENABLED` are out of this prover's reach.

No module declares a `RECURSIVE` operator, so that every one of them can be proved about.

## Not modelled

- The pages of logged-in users and the logins of the running server: they look up
  a table that is loaded once and never changes (`const users_table users`).
- `src/http.cc`, an older copy of the HTTP code with a cache of gzip files on disk: it
  is not in the Makefile and includes a header that is gone (`http.hh`).
- `mimes()` (`http.cc:55-60`), which leaves out the key it searches for and does not
  compile, and `send_str()` (lines 289-306), which uses names that do not exist.
- Eksblowfish itself: its S-boxes, its rounds and `x86.S`. A reference for it would be
  a second copy. The salts of other hash types (`gensalt.c`), `crypt_ra()` and
  `crypt_gensalt_ra()` are reached by nothing: the program asks for `$2a$` only.
- SHA1 of the handshake, zlib, SQLite (`include/sqlite.hh` is included by nothing).
- The table of the running server goes stale: it is loaded once (`myserver.cc:18`), so users
  and passwords that the command changes are not seen until a restart. A file whose time
  stamp is 0 (`file_cache.cc:55`) looks like an empty entry and is never read; the model's
  time stamps start at 1.
- `whole_file.cc` (one read of a file), `error.hh`, `string.hh`, `scope_guard.hh`, the
  build and the assets: no state.
- Signals other than `SIGPIPE`. `epoll_wait()` interrupted by one throws outside the
  `try` of a `noexcept` function.

## Plan

1. *Done:* `FifoQueue`, `ThreadSafeQueue`, `Server`, `FileCache`, `Users`, `HttpRequest`,
   `HttpForms`, `TextAlgorithms`, `WsCodec`, `WebSocket`, `Bcrypt`.
2. *Done:* the proofs about all of them that have state: every safety
   invariant that a run checks of `ThreadSafeQueue`, `Server`, `FileCache`, `Users` and
   `WebSocket` is a theorem.
3. *Done:* the proofs about the algorithms: the codec of frames, bcrypt, base64, the order of
   names, the scan and the body of a request and a request as its client wrote it, the check
   of a path, both kinds of form, the MIME table. *Left:* lists of headers.
4. Slow readers in `Server`: writes that block, workers that are all taken.
