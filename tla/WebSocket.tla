------------------------------- MODULE WebSocket -------------------------------
(***************************************************************************)
(* WebSocket sessions: the part of src/myserver.cc that turns an HTTP       *)
(* connection into one, its WebSocket branch, and receive_frame() of        *)
(* src/server/websocket.cc, run by worker threads that share the descriptor *)
(* queue.  Peers and the kernel (streams of bytes, edge-triggered epoll)    *)
(* are the environment.  A session ends only by an explicit close; numbers  *)
(* that are reused and connections that are reset are the matter of Server. *)
(***************************************************************************)
EXTENDS WsCodec, FiniteSets

CONSTANTS
  Peers,    \* each opens one session
  Registered, \* those whose connection the event loop has registered
  Patient,  \* those that wait for the reply to a frame before the next one
  Pieces,   \* BOUND: where the others end a segment within a frame
  Script,   \* Script[p]: the frames that p sends, <<opcode, payload>>
  Stream,   \* Stream[p]: their bytes, one frame behind the other
  Cut,      \* Cut[p][n]: where in that the first n frames end
  Mask,     \* the mask that peers use
  Workers,  \* worker threads
  Size,     \* the size of a worker's buffer
  Fresh,    \* what malloc() may leave in it
  NoPeer    \* a worker's empty hand

ASSUME WebSocketAssumption ==
  /\ Patient \subseteq Peers /\ Registered \subseteq Peers
  /\ Pieces \subseteq Nat \ {0}
  /\ IsFiniteSet(Workers)
  /\ Size \in Nat /\ 14 <= Size   \* a head, eight bytes of length, a mask
  /\ Size < Huge
  /\ Fresh \subseteq Bytes
  /\ NoPeer \notin Peers

(* Peers send frames as RFC 6455 has them, in any form a length may have.   *)
ASSUME StreamAssumption ==
  /\ Mask \in Masks
  /\ \A p \in Peers :
       /\ Script[p] \in Seq(Opcodes \X Seq(Bytes))
       /\ Stream[p] \in Seq(Bytes)
       /\ Cut[p] \in [0..Len(Script[p]) -> 0..Len(Stream[p])]
       /\ Cut[p][0] = 0 /\ Cut[p][Len(Script[p])] = Len(Stream[p])
       /\ \A i, j \in DOMAIN Cut[p] : i < j => Cut[p][i] < Cut[p][j]
       /\ \A n \in DOMAIN Script[p] :
            LET payload == Script[p][n][2]
            IN  /\ Len(payload) < Huge
                /\ \E form \in Forms(Len(payload)) :
                     SubSeq(Stream[p], Cut[p][n - 1] + 1, Cut[p][n])
                       = ClientFrame(Script[p][n][1], payload, Mask, form)

VARIABLES
  phase,  \* phase[p]: "http", "added" (101 sent), "open" (registered), "closed"
  sent,   \* sent[p]: how many bytes p has sent
  rx,     \* rx[p]: the bytes received by the kernel and not yet read
  fin,    \* peers that have closed their direction of the stream
  ready,  \* epoll's ready list
  queue,  \* the descriptor queue
  wpc,    \* worker w: "pop", "hello", "add", "read", "reply" or "close"
  hand,   \* hand[w]: the session whose descriptor w was given last
  reply,  \* reply[w]: the message and opcode that w will send
  buf,    \* buf[w]: its buffer
  alive,  \* FALSE once memory behind a buffer was written
  heard,  \* history: heard[p], the frames that were parsed for p, in order
  got,    \* history: got[p], what was written to p, as p reads it
  torn,   \* history: peers some of whose frames were not read in one piece
  left    \* history: peers whose last read left bytes or the end behind

net  == <<phase, sent, rx, fin, ready>>
work == <<wpc, hand, reply, buf>>
past == <<heard, got, torn, left>>
vars == <<net, queue, work, alive, past>>

(* Where a peer's frames end, and how many of them it has sent whole.       *)
Ends == [p \in Peers |-> {Cut[p][n] : n \in DOMAIN Cut[p]}]
FramesSent(p) == Cardinality({n \in DOMAIN Script[p] : Cut[p][n] <= sent[p]})

Init ==
  /\ phase = [p \in Peers |-> "http"]
  /\ sent = [p \in Peers |-> 0]
  /\ rx = [p \in Peers |-> <<>>]
  /\ fin = {}
  /\ ready = Peers            \* the request for the session has come
  /\ queue = <<>>
  /\ wpc = [w \in Workers |-> "pop"]
  /\ hand = [w \in Workers |-> NoPeer]
  /\ reply = [w \in Workers |-> <<>>]
  /\ \E x \in Fresh : buf = [w \in Workers |-> [i \in 1..Size |-> x]]
  /\ alive = TRUE
  /\ heard = [p \in Peers |-> <<>>]
  /\ got = [p \in Peers |-> <<>>]
  /\ torn = {}
  /\ left = {}
------------------------------------------------------------------------------
(* The session p exists, and its descriptor is in epoll's set. *)
Live(p) == phase[p] \in {"added", "open"}
InEpoll(p) == phase[p] = "open" \/ (p \in Registered /\ phase[p] = "added")

Edge(p) == IF InEpoll(p) THEN ready \cup {p} ELSE ready

(* A peer sends n more bytes after it has got its 101: a patient one the    *)
(* next frame, any other one up to the end of some frame or to a byte       *)
(* within one.                                                              *)
SegmentOf(p, n) ==
  LET to == sent[p] + n
  IN  IF p \in Patient
      THEN Len(got[p]) = FramesSent(p) /\ to \in Ends[p] /\ Ends[p] \cap (sent[p] + 1)..(to - 1) = {}
      ELSE to \in Ends[p] \cup Pieces

Send(p) ==
  /\ alive
  /\ Live(p)
  /\ p \notin fin
  /\ \E n \in 1..(Len(Stream[p]) - sent[p]) :
       /\ SegmentOf(p, n)
       /\ sent' = [sent EXCEPT ![p] = @ + n]
       /\ rx' = [rx EXCEPT ![p] = @ \o SubSeq(Stream[p], sent[p] + 1, sent[p] + n)]
  /\ ready' = Edge(p)
  /\ UNCHANGED <<phase, fin, queue, work, alive, past>>

(* One that is not patient says no more: it shuts its direction down. *)
Fin(p) ==
  /\ alive
  /\ p \notin Patient \cup fin
  /\ Live(p)
  /\ fin' = fin \cup {p}
  /\ ready' = Edge(p)
  /\ UNCHANGED <<phase, sent, rx, queue, work, alive, past>>

(* The loop takes an edge from epoll and queues the descriptor (LoopPush).  *)
Report(p) ==
  /\ alive
  /\ p \in ready
  /\ ready' = ready \ {p}
  /\ queue' = Append(queue, p)
  /\ UNCHANGED <<phase, sent, rx, fin, work, alive, past>>
------------------------------------------------------------------------------
Goto(w, from, to) ==
  /\ alive
  /\ wpc[w] = from
  /\ wpc' = [wpc EXCEPT ![w] = to]

Return(w, from) ==
  /\ Goto(w, from, "pop")
  /\ hand' = [hand EXCEPT ![w] = NoPeer]
  /\ reply' = [reply EXCEPT ![w] = <<>>]

(* worker_function(queue.pop(), ...).  server.accept(), which this          *)
(* repository has not, tells the requests from the sessions: by the         *)
(* descriptor alone if the event loop accepts and registers (server.cc:71),  *)
(* as it does for Registered; or, as the comment at myserver.cc:162 has it,   *)
(* by accepting on the main socket, and then epoll does not know the        *)
(* connection yet.                                                          *)
Pop(w) ==
  /\ queue # <<>>
  /\ Goto(w, "pop", IF phase[Head(queue)] = "http" THEN "hello" ELSE "read")
  /\ hand' = [hand EXCEPT ![w] = Head(queue)]
  /\ queue' = Tail(queue)
  /\ UNCHANGED <<net, reply, buf, alive, past>>

(* websocket::handshake() writes the 101: from here on the peer may send.   *)
Hello(w) ==
  /\ Goto(w, "hello", "add")
  /\ phase' = [phase EXCEPT ![hand[w]] = "added"]
  /\ UNCHANGED <<sent, rx, fin, ready, queue, hand, reply, buf, alive, past>>

(* server.epoll_add(): what has come in the meantime is reported at once.   *)
EpollAdd(w) ==
  /\ hand[w] \notin Registered
  /\ Return(w, "add")
  /\ phase' = [phase EXCEPT ![hand[w]] = "open"]
  /\ ready' = IF rx[hand[w]] # <<>> \/ hand[w] \in fin
              THEN ready \cup {hand[w]} ELSE ready
  /\ UNCHANGED <<sent, rx, fin, queue, buf, alive, past>>

(* A slip to compare with: the error of epoll_ctl() goes unnoticed.         *)
EpollAddIgnored(w) ==
  /\ hand[w] \in Registered
  /\ Return(w, "add")
  /\ UNCHANGED <<net, queue, buf, alive, past>>

(* epoll_ctl() fails when the event loop has added the descriptor before     *)
(* (EEXIST), or another worker has closed it (EBADF); epoll_add() throws.    *)
EpollAddFails(w) ==
  /\ hand[w] \in Registered
  /\ Goto(w, "add", "close")
  /\ UNCHANGED <<net, queue, hand, reply, buf, alive, past>>

(* What the handler does with a frame: a close ends the session, ping and   *)
(* pong answer each other, and everything else is answered with a text.     *)
TheText == <<84, 69, 83, 84>>
ReplyTo(opcode) ==
  CASE opcode = PING -> <<PONG, <<>>>>
    [] opcode = PONG -> <<PING, <<>>>>
    [] OTHER         -> <<TEXT, TheText>>

(* receive_frame(): one read, then one frame parsed at the buffer's start;  *)
(* what else was read is dropped.                                           *)
ReceiveFrame(w) ==
  LET p == hand[w]
      n == IF Len(rx[p]) < Size THEN Len(rx[p]) ELSE Size
      start == sent[p] - Len(rx[p])
  IN  /\ wpc[w] = "read" /\ Live(p) /\ n > 0
      /\ \E f \in {ParseFrame(b) : b \in {SubSeq(rx[p], 1, n) \o SubSeq(buf[w], n + 1, Size)}} :
           /\ Goto(w, "read", IF f.opcode \in {NoFrame, CLOSE} THEN "close" ELSE "reply")
           /\ rx' = [rx EXCEPT ![p] = SubSeq(@, n + 1, Len(@))]
           /\ buf' = [buf EXCEPT ![w] = f.buffer]
           /\ left' = IF n < Len(rx[p]) \/ p \in fin THEN left \cup {p} ELSE left \ {p}
           /\ torn' = IF {start, start + n} \subseteq Ends[p] THEN torn ELSE torn \cup {p}
           /\ alive' = ~f.overrun
           /\ heard' = IF f.opcode = NoFrame THEN heard
                       ELSE [heard EXCEPT ![p] = Append(@, <<f.opcode, f.payload>>)]
           /\ reply' = [reply EXCEPT ![w] = ReplyTo(f.opcode)]
           /\ UNCHANGED <<phase, sent, fin, ready, queue, hand, got>>

(* Slips to compare with: at the end of the stream an empty text is         *)
(* answered, the buffer is parsed nevertheless, or the session is kept.     *)
ReceiveNothingAnswered(w) ==
  /\ Goto(w, "read", "reply")
  /\ Live(hand[w]) /\ rx[hand[w]] = <<>> /\ hand[w] \in fin
  /\ reply' = [reply EXCEPT ![w] = ReplyTo(TEXT)]
  /\ UNCHANGED <<net, queue, hand, buf, alive, past>>
ReceiveNothingParsed(w) ==
  LET f == ParseFrame(buf[w])
  IN  /\ Goto(w, "read", "close")
      /\ Live(hand[w]) /\ rx[hand[w]] = <<>> /\ hand[w] \in fin
      /\ heard' = IF f.opcode = NoFrame THEN heard
                  ELSE [heard EXCEPT ![hand[w]] = Append(@, <<f.opcode, f.payload>>)]
      /\ UNCHANGED <<net, queue, hand, reply, buf, alive, got, torn, left>>
ReceiveNothingKeep(w) ==
  /\ Return(w, "read")
  /\ Live(hand[w]) => rx[hand[w]] = <<>> /\ hand[w] \in fin
  /\ UNCHANGED <<net, queue, buf, alive, past>>

(* read() returns 0 (an empty frame is an error), or fails with EBADF after *)
(* another worker has closed the session; as long as nothing has come and   *)
(* the stream is open, it spins.                                            *)
ReceiveNothing(w) ==
  /\ Goto(w, "read", "close")
  /\ Live(hand[w]) => rx[hand[w]] = <<>> /\ hand[w] \in fin
  /\ UNCHANGED <<net, queue, hand, reply, buf, alive, past>>

(* A slip to compare with: the handler's end closes the session.            *)
ReplyCloses(w) ==
  LET s == SendFrame(buf[w], reply[w][2], reply[w][1])
  IN  /\ Goto(w, "reply", "close")
      /\ Live(hand[w])
      /\ buf' = [buf EXCEPT ![w] = s.buffer]
      /\ got' = [got EXCEPT ![hand[w]] = Append(@, PeerReads(s.bytes))]
      /\ UNCHANGED <<net, queue, hand, reply, alive, heard, torn, left>>

(* send_frame(), and back to pop() with the session open. *)
Reply(w) ==
  LET s == SendFrame(buf[w], reply[w][2], reply[w][1])
  IN  /\ Return(w, "reply")
      /\ Live(hand[w])
      /\ buf' = [buf EXCEPT ![w] = s.buffer]
      /\ got' = [got EXCEPT ![hand[w]] = Append(@, PeerReads(s.bytes))]
      /\ UNCHANGED <<net, queue, alive, heard, torn, left>>

ReplyFails(w) ==
  LET s == SendFrame(buf[w], reply[w][2], reply[w][1])
  IN  /\ Goto(w, "reply", "close")
      /\ phase[hand[w]] = "closed"
      /\ buf' = [buf EXCEPT ![w] = s.buffer]
      /\ UNCHANGED <<net, queue, hand, reply, alive, past>>

(* sock.close(), for a close frame or in one of the catch (...). *)
Close(w) ==
  /\ Return(w, "close")
  /\ phase' = [phase EXCEPT ![hand[w]] = "closed"]
  /\ rx' = [rx EXCEPT ![hand[w]] = <<>>]
  /\ ready' = ready \ {hand[w]}
  /\ UNCHANGED <<sent, fin, queue, buf, alive, past>>

Worker(w) ==
  \/ Hello(w) \/ EpollAdd(w) \/ EpollAddFails(w)
  \/ ReceiveFrame(w) \/ ReceiveNothing(w) \/ Reply(w) \/ ReplyFails(w) \/ Close(w)

Next ==
  \/ \E p \in Peers : Send(p) \/ Fin(p) \/ Report(p)
  \/ \E w \in Workers : Pop(w) \/ Worker(w)

(* The loop, the queue and the workers run; a peer sends its script, and    *)
(* one that is not patient hangs up.                                        *)
Fairness ==
  /\ \A p \in Peers : WF_vars(Report(p)) /\ WF_vars(Send(p)) /\ WF_vars(Fin(p))
  /\ WF_vars(\E w \in Workers : Pop(w))
  /\ \A w \in Workers : WF_vars(Worker(w))

Spec == Init /\ [][Next]_vars /\ Fairness
------------------------------------------------------------------------------
TypeOK ==
  /\ phase \in [Peers -> {"http", "added", "open", "closed"}]
  /\ \A p \in Peers : /\ sent[p] \in 0..Len(Stream[p])
                       /\ rx[p] \in Seq(Bytes)
                       /\ heard[p] \in Seq(Opcodes \X Seq(Bytes))
                       /\ Len(heard[p]) >= Len(got[p])
  /\ fin \subseteq Peers /\ ready \subseteq Peers
  /\ torn \subseteq Peers /\ left \subseteq Peers
  /\ queue \in Seq(Peers)
  /\ wpc \in [Workers -> {"pop", "hello", "add", "read", "reply", "close"}]
  /\ hand \in [Workers -> Peers \cup {NoPeer}]
  /\ \A w \in Workers : Len(buf[w]) = Size /\ Range(buf[w]) \subseteq Bytes
  /\ alive \in BOOLEAN

(* A session of whole frames that were read whole hears nothing that its    *)
(* peer did not send, nothing twice and nothing out of order, although      *)
(* frames that come together are dropped, several workers read at once, and *)
(* their buffers still hold the frames of other sessions.  And no worker    *)
(* unmasks past its buffer unless some frame came in pieces.                *)
FramesHeardWereSent ==
  /\ \A p \in Peers \ torn :
       \E at \in [DOMAIN heard[p] -> 1..FramesSent(p)] :
         /\ \A i, j \in DOMAIN at : i < j => at[i] < at[j]
         /\ \A i \in DOMAIN at : heard[p][i] = Script[p][at[i]]
  /\ alive \/ torn # {}

(* Edge triggering loses no session: one that epoll knows and has something *)
(* to be read is on its way to a worker, unless its last read took a part of   *)
(* what there was: the bytes beyond the buffer, or the end of the stream    *)
(* behind its last bytes, wait for an edge that may never come.             *)
NothingStranded ==
  \A p \in Peers :
    InEpoll(p) /\ (rx[p] # <<>> \/ p \in fin) =>
      \/ p \in ready \cup Range(queue)
      \/ \E w \in Workers : hand[w] = p /\ wpc[w] \in {"read", "close"}
      \/ p \in left

(* What a peer reads as the replies to its first n frames.                  *)
Expected(p, n) ==
  [i \in 1..n |-> [opcode |-> ReplyTo(Script[p][i][1])[1], complete |-> TRUE,
                   payload |-> ReplyTo(Script[p][i][1])[2]]]

(* A peer that waits for each reply gets the right one to every frame it    *)
(* sends, once and in order, and its session stays open ("move prevents     *)
(* closing", myserver.cc:92), whatever the other peers do, provided they    *)
(* hang up in the end.  It takes that the loop has not registered the       *)
(* connection.                                                              *)
PatientServed ==
  \A p \in Patient \ Registered : \A n \in 1..Len(Script[p]) :
    FramesSent(p) = n ~> ~alive \/ (got[p] = Expected(p, n) /\ phase[p] = "open")

(* A session ends after its peer has shut its direction down, unless that   *)
(* came together with the last bytes.                                       *)
GoneSessionEnds ==
  \A p \in Peers : p \in fin ~> ~alive \/ phase[p] = "closed" \/ p \in left

(* A session whose connection the event loop has registered does not        *)
(* outlive its handshake: the handler adds the descriptor a second time     *)
(* behind the 101 and closes it, although its peer may be silent and other  *)
(* workers may answer its frames until then.                                *)
RegisteredClosed ==
  \A p \in Registered : phase[p] = "added" ~> ~alive \/ phase[p] = "closed"
==============================================================================
