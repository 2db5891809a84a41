-------------------------------- MODULE Server --------------------------------
(***************************************************************************)
(* The serving core: the event loop of src/server/server.cc, the descriptor *)
(* queue (the abstract FifoQueue that ThreadSafeQueue implements), and the  *)
(* worker threads of include/server/server.hh running the HTTP branch of    *)
(* the worker function of src/myserver.cc over src/server/socket.cc.        *)
(* Clients and the kernel (sockets, descriptor table, edge-triggered epoll) *)
(* are the environment.  A descriptor is a small number that the kernel     *)
(* reuses; the code only ever knows the number, so each queued event also   *)
(* carries, as a history value, the connection it was reported for.         *)
(***************************************************************************)
EXTENDS Naturals, Sequences

CONSTANTS
  Conns,    \* client connections; each connects at most once
  Patient,  \* those whose client sends one request and waits for the close
  Fds,      \* descriptor numbers free for connections (the process limit)
  Workers,  \* worker threads
  Main,     \* the descriptor of main_socket
  NoConn,   \* what a closed descriptor refers to
  NoEvent,  \* a worker's empty hand
  MaxSegs   \* BOUND: segments one client sends

ASSUME ServerAssumption ==
  /\ Patient \subseteq Conns
  /\ Fds \subseteq Nat
  /\ Main \notin Fds
  /\ NoConn \notin Conns
  /\ MaxSegs \in Nat \ {0}

Events == [fd : Fds \cup {Main}, of : Conns \cup {NoConn}, closes : BOOLEAN]

ASSUME NoEventAssumption == NoEvent \notin Events

VARIABLES
  conn,     \* conn[c]: "new", in the listen "backlog", "open", or "closed"
  backlog,  \* connections waiting for accept()
  table,    \* table[f]: the connection that descriptor f refers to
  rx,       \* rx[c]: segments received by the kernel and not yet read
  sent,     \* sent[c]: segments the client has sent
  peer,     \* peer[c]: "up", "fin" (closed), "rst", "finrst" (reset after fin)
  ready,    \* epoll's ready list
  batch,    \* epoll_events[0..n-1], those the loop has still to handle
  lpc,      \* the loop: "wait", "events" or "accept"
  queue,    \* server::queue
  hand,     \* hand[w]: the event whose descriptor worker w was given
  wpc,      \* where worker w is
  req,      \* req[w]: the connection that sent the request w is serving
  got,      \* history: got[c], whose requests' responses were written to c
  answered, \* history: connections that got the last write of their response
  unanswered, \* history: connections whose request was left without one
  ended,    \* history: connections whose end of stream a worker has read
  alive,    \* FALSE once a signal has killed the process
  emfile    \* history: some accept() failed for want of a descriptor

kernel == <<conn, backlog, table, rx, sent, peer, ready>>
loop   == <<batch, lpc>>
work   == <<wpc, req>>
past   == <<got, answered, unanswered, ended>>
vars   == <<kernel, loop, queue, hand, work, past, alive, emfile>>

Q == INSTANCE FifoQueue WITH
       Consumers <- Workers, Values <- Events, NoValue <- NoEvent

(* The connection behind a number, and the numbers in use for it.           *)
FdsOf(c) == {f \in Fds : table[f] = c}

Init ==
  /\ conn = [c \in Conns |-> "new"]
  /\ backlog = <<>>
  /\ table = [f \in Fds |-> NoConn]
  /\ rx = [c \in Conns |-> 0]
  /\ sent = [c \in Conns |-> 0]
  /\ peer = [c \in Conns |-> "up"]
  /\ ready = {}
  /\ batch = {}
  /\ lpc = "wait"
  /\ Q!Init
  /\ wpc = [w \in Workers |-> "pop"]
  /\ req = [w \in Workers |-> NoConn]
  /\ got = [c \in Conns |-> {}]
  /\ answered = {}
  /\ unanswered = {}
  /\ ended = {}
  /\ alive = TRUE
  /\ emfile = FALSE
------------------------------------------------------------------------------
(* The clients.  Anything that happens on an open connection puts its       *)
(* descriptor on epoll's ready list once (EPOLLET reports edges).           *)
Connect(c) ==
  /\ conn[c] = "new"
  /\ conn' = [conn EXCEPT ![c] = "backlog"]
  /\ backlog' = Append(backlog, c)
  /\ ready' = ready \cup {Main}
  /\ UNCHANGED <<table, rx, sent, peer, loop, queue, hand, work, past, alive, emfile>>

Connected(c) == conn[c] \in {"backlog", "open"}

Send(c) ==
  /\ Connected(c)
  /\ peer[c] = "up"
  /\ sent[c] < IF c \in Patient THEN 1 ELSE MaxSegs
  /\ sent' = [sent EXCEPT ![c] = @ + 1]
  /\ rx' = [rx EXCEPT ![c] = @ + 1]
  /\ ready' = ready \cup FdsOf(c)
  /\ UNCHANGED <<conn, backlog, table, peer, loop, queue, hand, work, past, alive, emfile>>

(* The client closes its end, or resets the connection; a client that has   *)
(* closed answers later writes with a reset.                                *)
Hang(c, to) ==
  /\ c \notin Patient
  /\ Connected(c)
  /\ peer' = [peer EXCEPT ![c] = to]
  /\ ready' = ready \cup FdsOf(c)
  /\ UNCHANGED <<conn, backlog, table, rx, sent, loop, queue, hand, work, past, alive, emfile>>

Fin(c)   == peer[c] = "up" /\ Hang(c, "fin")
Reset(c) == \/ peer[c] = "up" /\ Hang(c, "rst")
            \/ peer[c] = "fin" /\ Hang(c, "finrst")

Client(c) == Connect(c) \/ Send(c) \/ Fin(c) \/ Reset(c)
------------------------------------------------------------------------------
(* ::close(f).  Closing a number that refers to nothing fails with EBADF,   *)
(* which socket::close() ignores.  The kernel drops f from epoll.           *)
CloseFd(f) ==
  /\ table' = [table EXCEPT ![f] = NoConn]
  /\ ready' = ready \ {f}
  /\ conn' = [c \in Conns |-> IF table[f] = c THEN "closed" ELSE conn[c]]
  /\ rx' = [c \in Conns |-> IF table[f] = c THEN 0 ELSE rx[c]]
  /\ UNCHANGED <<backlog, sent, peer>>

(* What epoll_wait() finds when it polls an item of its ready list again.   *)
Pollable(f) ==
  IF f = Main THEN backlog # <<>>
  ELSE table[f] \in Conns /\ (rx[table[f]] > 0 \/ peer[table[f]] # "up")

EventOf(f) ==
  IF f = Main THEN [fd |-> Main, of |-> NoConn, closes |-> FALSE]
  ELSE [fd |-> f, of |-> table[f],
        closes |-> peer[table[f]] \in {"rst", "finrst"}]

(* A slip to compare with: without EPOLLET an event is reported until read. *)
EpollWaitLevel ==
  /\ alive
  /\ lpc = "wait"
  /\ batch' = {EventOf(f) : f \in {g \in ready : Pollable(g)}}
  /\ batch' # {}
  /\ lpc' = "events"
  /\ ready' = {g \in ready : Pollable(g)}
  /\ UNCHANGED <<conn, backlog, table, rx, sent, peer, queue, hand, work, past, alive, emfile>>

(* epoll_wait(): every reported edge is handed out once.  The array is      *)
(* large enough for all descriptors, and the order in it is unspecified.    *)
EpollWait ==
  /\ alive
  /\ lpc = "wait"
  /\ batch' = {EventOf(f) : f \in {g \in ready : Pollable(g)}}
  /\ batch' # {}
  /\ lpc' = "events"
  /\ ready' = {}
  /\ UNCHANGED <<conn, backlog, table, rx, sent, peer, queue, hand, work, past, alive, emfile>>

Handled(e) ==
  /\ alive
  /\ lpc = "events"
  /\ e \in batch
  /\ batch' = batch \ {e}

AfterEvent == IF batch' = {} THEN "wait" ELSE "events"

(* A slip to compare with: a hung-up connection is skipped, not closed.     *)
LoopCloseSkip(e) ==
  /\ Handled(e)
  /\ e.closes
  /\ lpc' = AfterEvent
  /\ UNCHANGED <<kernel, queue, hand, work, past, alive, emfile>>

(* flags & EPOLLHUP || flags & EPOLLERR || !(flags & EPOLLIN): fd.close()   *)
LoopClose(e) ==
  /\ Handled(e)
  /\ e.closes
  /\ lpc' = AfterEvent
  /\ CloseFd(e.fd)
  /\ UNCHANGED <<queue, hand, work, past, alive, emfile>>

(* fd == main_socket: go and accept *)
LoopMain(e) ==
  /\ Handled(e)
  /\ e.fd = Main
  /\ lpc' = "accept"
  /\ UNCHANGED <<kernel, queue, hand, work, past, alive, emfile>>

(* A slip to compare with: the listening socket is queued like the others.  *)
LoopPushAny(e) ==
  /\ Handled(e)
  /\ ~e.closes
  /\ lpc' = AfterEvent
  /\ Q!Push(e)
  /\ UNCHANGED <<kernel, work, past, alive, emfile>>

(* queue.push(fd) *)
LoopPush(e) ==
  /\ Handled(e)
  /\ e.fd # Main
  /\ ~e.closes
  /\ lpc' = AfterEvent
  /\ Q!Push(e)
  /\ UNCHANGED <<kernel, work, past, alive, emfile>>

AfterAccept == IF batch = {} THEN "wait" ELSE "events"

FreeFds == {f \in Fds : table[f] = NoConn}

(* A slip to compare with: one accept() per event of the main socket.       *)
AcceptOne ==
  /\ alive
  /\ lpc = "accept"
  /\ backlog # <<>>
  /\ \E f \in FreeFds :
       /\ \A g \in FreeFds : f <= g
       /\ table' = [table EXCEPT ![f] = Head(backlog)]
       /\ ready' = ready \cup {f}
  /\ conn' = [conn EXCEPT ![Head(backlog)] = "open"]
  /\ backlog' = Tail(backlog)
  /\ lpc' = AfterAccept
  /\ UNCHANGED <<rx, sent, peer, batch, queue, hand, work, past, alive, emfile>>

(* accept() gives the lowest free number; nonblock(); epoll_add() reports   *)
(* at once what has already arrived.                                        *)
Accept ==
  /\ alive
  /\ lpc = "accept"
  /\ backlog # <<>>
  /\ \E f \in FreeFds :
       /\ \A g \in FreeFds : f <= g
       /\ table' = [table EXCEPT ![f] = Head(backlog)]
       /\ ready' = ready \cup {f}
  /\ conn' = [conn EXCEPT ![Head(backlog)] = "open"]
  /\ backlog' = Tail(backlog)
  /\ UNCHANGED <<rx, sent, peer, loop, queue, hand, work, past, alive, emfile>>

(* errno == EAGAIN: every pending connection was accepted *)
AcceptDone ==
  /\ alive
  /\ lpc = "accept"
  /\ backlog = <<>>
  /\ lpc' = AfterAccept
  /\ UNCHANGED <<kernel, batch, queue, hand, work, past, alive, emfile>>

(* Any other errno, here EMFILE: thrown, and caught below the loop's switch. *)
AcceptFail ==
  /\ alive
  /\ lpc = "accept"
  /\ backlog # <<>>
  /\ FreeFds = {}
  /\ lpc' = AfterAccept
  /\ emfile' = TRUE
  /\ UNCHANGED <<kernel, batch, queue, hand, work, past, alive>>

Loop ==
  \/ EpollWait \/ Accept \/ AcceptDone \/ AcceptFail
  \/ \E e \in batch : LoopClose(e) \/ LoopMain(e) \/ LoopPush(e)
------------------------------------------------------------------------------
(* worker_function(queue.pop(), ...) *)
Pop(w) ==
  /\ alive
  /\ wpc[w] = "pop"
  /\ Q!Pop(w)
  /\ wpc' = [wpc EXCEPT ![w] = "read"]
  /\ UNCHANGED <<kernel, loop, req, past, alive, emfile>>

(* The connection that w's descriptor refers to now. *)
Target(w) == table[hand[w].fd]

Goto(w, from, to) ==
  /\ alive
  /\ wpc[w] = from
  /\ wpc' = [wpc EXCEPT ![w] = to]

(* http::request reads once: socket::read() returns what has arrived.  The   *)
(* handler then sends a file in several writes, or a page, a redirection or  *)
(* an http::error in one.  A method that is neither GET nor POST is closed   *)
(* without a response, and so is a request for which something else than an  *)
(* http::error is thrown (catch (...)).                                      *)
ReadRequest(w) ==
  \E to \in {"head", "answer", "close"} :
    /\ Goto(w, "read", to)
    /\ Target(w) \in Conns
    /\ rx[Target(w)] > 0
    /\ rx' = [rx EXCEPT ![Target(w)] = 0]
    /\ req' = [req EXCEPT ![w] = Target(w)]
    /\ unanswered' = IF to = "close" THEN unanswered \cup {Target(w)} ELSE unanswered
    /\ UNCHANGED <<conn, backlog, table, sent, peer, ready, loop, queue, hand,
                   got, answered, ended, alive, emfile>>

AtEnd(w) ==
  /\ Target(w) \in Conns
  /\ rx[Target(w)] = 0
  /\ peer[Target(w)] \in {"fin", "finrst"}

(* A slip to compare with: end of file is retried like EAGAIN.              *)
ReadEndRetry(w) ==
  /\ Goto(w, "read", "read")
  /\ AtEnd(w)
  /\ UNCHANGED <<kernel, loop, queue, hand, req, past, alive, emfile>>

(* read() returns 0, and the handler returns at `if (!req.method) return',  *)
(* which closes nothing: the descriptor stays open and registered.          *)
ReadEnd(w) ==
  /\ Goto(w, "read", "pop")
  /\ AtEnd(w)
  /\ ended' = ended \cup {Target(w)}
  /\ Q!Finish(w)
  /\ UNCHANGED <<kernel, loop, req, got, answered, unanswered, alive, emfile>>

(* read() throws (EBADF, ECONNRESET) and catch (...) closes.  While it fails *)
(* with EAGAIN, it tries again.                                              *)
ReadFails(w) ==
  /\ Goto(w, "read", "close")
  /\ \/ Target(w) = NoConn
     \/ Target(w) \in Conns /\ rx[Target(w)] = 0 /\ peer[Target(w)] = "rst"
  /\ UNCHANGED <<kernel, loop, queue, hand, req, past, alive, emfile>>

(* A write of the response that the connection behind the descriptor takes. *)
Deliver(w) ==
  /\ Target(w) \in Conns
  /\ peer[Target(w)] \in {"up", "fin"}
  /\ got' = [got EXCEPT ![Target(w)] = @ \cup {req[w]}]

(* The first write of send_file(): the header with what was read so far.    *)
WriteHead(w) ==
  /\ Goto(w, "head", "body")
  /\ Deliver(w)
  /\ UNCHANGED <<kernel, loop, queue, hand, req, answered, unanswered, ended, alive, emfile>>

(* The last write of send_file(). *)
WriteBody(w) ==
  /\ Goto(w, "body", "close")
  /\ Deliver(w)
  /\ answered' = IF Target(w) = req[w] THEN answered \cup {req[w]} ELSE answered
  /\ UNCHANGED <<kernel, loop, queue, hand, req, unanswered, ended, alive, emfile>>

(* A response of one write. *)
Answer(w) ==
  /\ Goto(w, "answer", "close")
  /\ Deliver(w)
  /\ answered' = IF Target(w) = req[w] THEN answered \cup {req[w]} ELSE answered
  /\ UNCHANGED <<kernel, loop, queue, hand, req, unanswered, ended, alive, emfile>>

(* The errors of write() that are exceptions: EBADF, ECONNRESET. *)
WriteThrows(w) == Target(w) \in Conns => peer[Target(w)] = "rst"

(* It throws in the handler, and catch (...) closes. *)
AnswerFails(w) ==
  /\ Goto(w, "answer", "close")
  /\ WriteThrows(w)
  /\ UNCHANGED <<kernel, loop, queue, hand, req, past, alive, emfile>>

(* write() throws (EBADF, ECONNRESET) inside send_file()'s try, which turns *)
(* every exception into a 404 for the handler to send.                      *)
WriteFails(w) ==
  /\ \E from \in {"head", "body"} : Goto(w, from, "respond")
  /\ WriteThrows(w)
  /\ UNCHANGED <<kernel, loop, queue, hand, req, past, alive, emfile>>

(* e.respond(sock) and sock.close(), on whatever the descriptor refers to   *)
(* by now.                                                                  *)
Respond(w) ==
  /\ Goto(w, "respond", "close")
  /\ Deliver(w)
  /\ UNCHANGED <<kernel, loop, queue, hand, req, answered, unanswered, ended, alive, emfile>>

(* When e.respond(sock) throws, the exception leaves its catch clause and    *)
(* skips the sock.close() below it.  An http::error that is not send_file()'s *)
(* comes here from "answer".                                                *)
RespondFails(w) ==
  /\ \E from \in {"answer", "respond"} : Goto(w, from, "pop")
  /\ WriteThrows(w)
  /\ req' = [req EXCEPT ![w] = NoConn]
  /\ Q!Finish(w)
  /\ UNCHANGED <<kernel, loop, past, alive, emfile>>

(* A write after the connection's reset was already reported, or after a    *)
(* reset of a closed connection, fails with EPIPE and raises SIGPIPE, which *)
(* the program neither ignores nor handles.                                 *)
BrokenPipe(w) ==
  /\ alive
  /\ wpc[w] # "pop"
  /\ Target(w) \in Conns
  /\ \/ wpc[w] \in {"head", "body", "answer"} /\ peer[Target(w)] = "finrst"
     \/ wpc[w] = "respond" /\ peer[Target(w)] \in {"rst", "finrst"}
  /\ alive' = FALSE
  /\ UNCHANGED <<kernel, loop, queue, hand, work, past, emfile>>

(* sock.close(), and the worker's loop calls pop() again. *)
Close(w) ==
  /\ Goto(w, "close", "pop")
  /\ CloseFd(hand[w].fd)
  /\ req' = [req EXCEPT ![w] = NoConn]
  /\ Q!Finish(w)
  /\ UNCHANGED <<loop, past, alive, emfile>>

Worker(w) ==
  \/ ReadRequest(w) \/ ReadEnd(w) \/ ReadFails(w)
  \/ WriteHead(w) \/ WriteBody(w) \/ WriteFails(w)
  \/ Answer(w) \/ AnswerFails(w) \/ Respond(w) \/ RespondFails(w)
  \/ BrokenPipe(w) \/ Close(w)

Next ==
  \/ \E c \in Conns : Client(c)
  \/ Loop
  \/ \E w \in Workers : Pop(w) \/ Worker(w)

(* The scheduler runs the loop's thread and every worker that can move, and *)
(* hands queued descriptors to waiting workers (FifoQueue).  A client that  *)
(* has connected sends its request, and one that is not patient hangs up.   *)
Fairness ==
  /\ WF_vars(Loop)
  /\ WF_vars(\E w \in Workers : Pop(w))
  /\ \A w \in Workers : WF_vars(Worker(w))
  /\ \A c \in Conns : WF_vars(Send(c)) /\ WF_vars(Fin(c))

Spec == Init /\ [][Next]_vars /\ Fairness
------------------------------------------------------------------------------
KernelTypes ==
  /\ conn \in [Conns -> {"new", "backlog", "open", "closed"}]
  /\ backlog \in Seq(Conns)
  /\ table \in [Fds -> Conns \cup {NoConn}]
  /\ rx \in [Conns -> Nat]
  /\ sent \in [Conns -> Nat]
  /\ peer \in [Conns -> {"up", "fin", "rst", "finrst"}]
  /\ ready \subseteq Fds \cup {Main}

LoopTypes ==
  /\ batch \subseteq Events
  /\ lpc \in {"wait", "events", "accept"}
  /\ queue \in Seq(Events)

WorkerTypes ==
  /\ hand \in [Workers -> Events \cup {NoEvent}]
  /\ wpc \in [Workers -> {"pop", "read", "head", "body", "answer",
                          "respond", "close"}]
  /\ req \in [Workers -> Conns \cup {NoConn}]

HistoryTypes ==
  /\ got \in [Conns -> SUBSET Conns]
  /\ answered \subseteq Conns
  /\ unanswered \subseteq Conns
  /\ ended \subseteq Conns
  /\ alive \in BOOLEAN
  /\ emfile \in BOOLEAN

(* Workers are only ever given descriptors of connections: the loop keeps   *)
(* the listening socket for itself, and never closes it.                    *)
MainKept ==
  /\ \A e \in batch : e.closes => e.fd # Main
  /\ \A i \in DOMAIN queue : queue[i].fd # Main
  /\ \A w \in Workers : wpc[w] # "pop" => hand[w].fd # Main

(* Every variable has its type, and the descriptors that a worker may be    *)
(* given are those of connections.                                          *)
TypeOK == KernelTypes /\ LoopTypes /\ WorkerTypes /\ HistoryTypes /\ MainKept

(* The descriptor f is in the program's hands: fetched by the loop, queued, *)
(* or with a worker.                                                        *)
InFlight(f) ==
  \/ \E e \in batch : e.fd = f
  \/ \E i \in DOMAIN queue : queue[i].fd = f
  \/ \E w \in Workers : wpc[w] # "pop" /\ hand[w].fd = f

(* Something happened on the connection behind f that no worker has read:   *)
(* bytes, a reset, or an end of the stream.                                 *)
Pending(f) ==
  LET c == table[f]
  IN  /\ c # NoConn
      /\ rx[c] > 0 \/ peer[c] # "up"
      /\ ~(c \in ended /\ rx[c] = 0 /\ peer[c] = "fin")

(* Edge triggering loses nothing: an open connection with unread bytes, a   *)
(* reset, or an end of its stream that nobody has read, is on the ready     *)
(* list or on its way to being served or closed, although its edge is       *)
(* reported only once, a worker reads only once, and some paths through the *)
(* handler leave the connection open.                                       *)
NoEventLost == \A f \in Fds : Pending(f) => f \in ready \/ InFlight(f)

(* The accept loop leaves no connection behind, except where accept() has   *)
(* failed: then only the next client to connect gets the backlog moving.    *)
BacklogWatched ==
  backlog # <<>> =>
    \/ Main \in ready
    \/ \E e \in batch : e.fd = Main
    \/ lpc = "accept"
    \/ emfile

(* When every client sends one request and waits, a worker's descriptor     *)
(* refers to the connection it was queued for, no two workers share one,    *)
(* and a response is written only to the connection that asked.             *)
AllPatient == Patient = Conns

OwnConnection ==
  AllPatient =>
    /\ \A w \in Workers : wpc[w] # "pop" => Target(w) = hand[w].of
    /\ \A v, w \in Workers :
         v # w /\ wpc[v] # "pop" /\ wpc[w] # "pop" => hand[v].fd # hand[w].fd
    /\ \A c \in Conns : got[c] \subseteq {c}

(* When every client is patient, each that connects is closed in the end,   *)
(* with its whole response or on one of the paths of the handler that give  *)
(* none, unless the process has run out of descriptors at some accept().    *)
EveryClientFinished ==
  AllPatient =>
    \A c \in Conns :
      conn[c] = "backlog" ~>
        emfile \/ (c \in answered \cup unanswered /\ conn[c] = "closed")

(* A worker never stays in its handler for good, whatever the clients do,   *)
(* provided they hang up in the end: the spin on EAGAIN ends.               *)
WorkerReturns ==
  \A w \in Workers : wpc[w] # "pop" ~> (wpc[w] = "pop" \/ ~alive)

(* A client that has gone is noticed: its connection is closed, or a worker *)
(* has at least read the end of its stream, which closes nothing            *)
(* (myserver.cc:55).  After a reset it is closed, also by way of the paths  *)
(* of the handler that close nothing.                                       *)
GoneClientNoticed ==
  \A c \in Conns :
    /\ conn[c] = "open" /\ peer[c] # "up" ~>
         conn[c] = "closed" \/ c \in ended \/ ~alive
    /\ conn[c] = "open" /\ peer[c] \in {"rst", "finrst"} ~>
         conn[c] = "closed" \/ ~alive
==============================================================================
