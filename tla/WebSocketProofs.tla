---------------------------- MODULE WebSocketProofs ----------------------------
(***************************************************************************)
(* Proofs about WebSocket for any peers, scripts, masks, numbers of workers *)
(* and sizes of their buffers.                                              *)
(***************************************************************************)
EXTENDS WebSocket, WsCodecProofs, FiniteSetTheorems

(* What the handler sends, and what a peer reads of it. *)
Replies == {<<PONG, <<>>>>, <<PING, <<>>>>, <<TEXT, TheText>>}
Read == [opcode : Opcodes, complete : {TRUE}, payload : Seq(Bytes)]
Frames == Opcodes \X Seq(Bytes)
Buffers == {b \in Seq(Bytes) : Len(b) = Size}

Types ==
  /\ phase \in [Peers -> {"http", "added", "open", "closed"}]
  /\ sent \in [Peers -> Nat]
  /\ rx \in [Peers -> Seq(Bytes)]
  /\ fin \in SUBSET Peers
  /\ ready \in SUBSET Peers
  /\ queue \in Seq(Peers)
  /\ wpc \in [Workers -> {"pop", "hello", "add", "read", "reply", "close"}]
  /\ hand \in [Workers -> Peers \cup {NoPeer}]
  /\ reply \in [Workers -> Replies \cup {<<>>}]
  /\ buf \in [Workers -> Buffers]
  /\ alive \in BOOLEAN
  /\ heard \in [Peers -> Seq(Frames)]
  /\ got \in [Peers -> Seq(Read)]
  /\ torn \in SUBSET Peers
  /\ left \in SUBSET Peers

(* A worker has a session in its hand, and an answer when it is to send one. *)
HandsFull ==
  \A w \in Workers : /\ wpc[w] # "pop" => hand[w] \in Peers
                     /\ wpc[w] = "reply" => reply[w] \in Replies

(* What waits in the kernel are the last bytes that the peer has sent.      *)
Streamed ==
  \A p \in Peers :
    /\ sent[p] <= Len(Stream[p]) /\ Len(rx[p]) <= sent[p]
    /\ \A i \in 1..Len(rx[p]) : rx[p][i] = Stream[p][(sent[p] - Len(rx[p])) + i]

(* Each answer is to a frame, and so is each one that is still to be sent.  *)
Answering(p) == {w \in Workers : wpc[w] = "reply" /\ hand[w] = p}
Answered == \A p \in Peers : Len(heard[p]) >= Len(got[p]) + Cardinality(Answering(p))

(* The frames heard from a peer whose frames were all read in one piece are *)
(* frames of its script, in order, and lie in what the server has read.     *)
Matches(p, at) ==
  /\ \A i, j \in DOMAIN at : i < j => at[i] < at[j]
  /\ \A i \in DOMAIN at : /\ heard[p][i] = Script[p][at[i]]
                          /\ Cut[p][at[i]] <= sent[p] - Len(rx[p])
HeardInOrder ==
  \A p \in Peers \ torn : \E at \in [DOMAIN heard[p] -> DOMAIN Script[p]] : Matches(p, at)

(* A request for a session is in one place: in the ready list, in the queue *)
(* or in the hand of the worker that greets; its peer is silent until then. *)
Greets == \A w \in Workers : wpc[w] = "hello" => phase[hand[w]] = "http"
Serves == \A w \in Workers : wpc[w] \notin {"pop", "hello"} => phase[hand[w]] # "http"
Silent == \A p \in Peers : phase[p] = "http" => rx[p] = <<>> /\ p \notin fin
InLine(p) ==
  \A i \in 1..Len(queue) : queue[i] = p =>
    p \notin ready /\ \A j \in 1..Len(queue) : queue[j] = p => i = j
InHand(p) ==
  \A w \in Workers : wpc[w] = "hello" /\ hand[w] = p =>
    /\ p \notin ready
    /\ \A i \in 1..Len(queue) : queue[i] # p
    /\ \A v \in Workers : wpc[v] = "hello" /\ hand[v] = p => v = w
GreetedOnce ==
  /\ Greets /\ Serves /\ Silent
  /\ \A p \in Peers : phase[p] = "http" => InLine(p) /\ InHand(p)

IInv ==
  /\ Types /\ HandsFull /\ GreetedOnce /\ Streamed /\ Answered /\ HeardInOrder /\ NothingStranded
  /\ alive \/ torn # {}
------------------------------------------------------------------------------
(* What the handler answers is one of its three answers, and each is bytes. *)
LEMMA RepliesTyped ==
  /\ \A opcode : ReplyTo(opcode) \in Replies
  /\ \A r \in Replies : /\ r[1] \in Opcodes /\ r[2] \in Seq(Bytes)
                        /\ Len(r[2]) < 126 /\ Len(r[2]) + 10 <= Size
<1>1. \A opcode : ReplyTo(opcode) \in Replies
  BY DEF ReplyTo, Replies
<1>2. Size \in Nat /\ 14 <= Size
  BY WebSocketAssumption
<1>3. 84 \in Bytes /\ 69 \in Bytes /\ 83 \in Bytes
  BY DEF Bytes
<1>4. TheText \in Seq(Bytes) /\ Len(TheText) = 4
  BY <1>3 DEF TheText
<1>5. <<>> \in Seq(Bytes) /\ Len(<<>>) = 0
  OBVIOUS
<1>6. PONG \in Opcodes /\ PING \in Opcodes /\ TEXT \in Opcodes
  BY DEF PONG, PING, TEXT, Opcodes
<1>8. \A r \in Replies : /\ r[1] \in Opcodes /\ r[2] \in Seq(Bytes)
                         /\ Len(r[2]) < 126 /\ Len(r[2]) + 10 <= Size
  <2> TAKE r \in Replies
  <2>1. r[1] \in Opcodes
    BY <1>6 DEF Replies
  <2>2. r[2] = <<>> \/ r[2] = TheText
    BY DEF Replies
  <2>3. r[2] \in Seq(Bytes) /\ (Len(r[2]) = 0 \/ Len(r[2]) = 4)
    BY <1>4, <1>5, <2>2
  <2>4. \A k : k = 0 \/ k = 4 => k < 126 /\ k + 10 <= Size
    BY <1>2
  <2> QED
    BY <2>1, <2>3, <2>4
<1> QED
  BY <1>1, <1>8

(* What the worker parses: the bytes read, then its buffer's old ones.      *)
LEMMA BufferRead ==
  ASSUME Types, NEW w \in Workers, NEW p \in Peers, NEW n \in Nat,
         n = IF Len(rx[p]) < Size THEN Len(rx[p]) ELSE Size
  PROVE  /\ n <= Len(rx[p]) /\ n <= Size /\ 14 <= Size
         /\ SubSeq(rx[p], 1, n) \o SubSeq(buf[w], n + 1, Size) \in Buffers
         /\ \A i \in 1..n : (SubSeq(rx[p], 1, n) \o SubSeq(buf[w], n + 1, Size))[i] = rx[p][i]
         /\ SubSeq(rx[p], n + 1, Len(rx[p])) \in Seq(Bytes)
         /\ Len(SubSeq(rx[p], n + 1, Len(rx[p]))) = Len(rx[p]) - n
         /\ \A i \in 1..(Len(rx[p]) - n) :
              SubSeq(rx[p], n + 1, Len(rx[p]))[i] = rx[p][n + i]
<1> DEFINE r == rx[p]
           b == buf[w]
<1>1. r \in Seq(Bytes) /\ b \in Seq(Bytes) /\ Len(b) = Size
  BY DEF Types, Buffers
<1>2. Size \in Nat /\ 14 <= Size
  BY WebSocketAssumption
<1>3. n <= Len(r) /\ n <= Size /\ Len(r) \in Nat
  BY <1>1, <1>2
<1> HIDE DEF r, b
<1>4. /\ SubSeq(r, 1, n) \in Seq(Bytes) /\ Len(SubSeq(r, 1, n)) = n
      /\ \A i \in 1..n : SubSeq(r, 1, n)[i] = r[i]
  <2>1. \A i, j \in Int : 1 <= i /\ i <= j + 1 /\ j <= Len(r) =>
          /\ SubSeq(r, i, j) \in Seq(Bytes)
          /\ Len(SubSeq(r, i, j)) = j - i + 1
          /\ \A k \in 1..(j - i + 1) : SubSeq(r, i, j)[k] = r[i + k - 1]
    BY <1>1, Slice
  <2>2. 1 \in Int /\ n \in Int /\ 1 <= n + 1 /\ n - 1 + 1 = n /\ \A i \in 1..n : 1 + i - 1 = i
    OBVIOUS
  <2> QED
    BY <1>3, <2>1, <2>2
<1>5. SubSeq(b, n + 1, Size) \in Seq(Bytes) /\ Len(SubSeq(b, n + 1, Size)) = Size - n
  <2>1. n + 1 \in Int /\ 1 <= n + 1 /\ n + 1 <= Size + 1 /\ Size \in Int /\ Size <= Len(b)
    BY <1>1, <1>2, <1>3
  <2>2. /\ SubSeq(b, n + 1, Size) \in Seq(Bytes)
        /\ Len(SubSeq(b, n + 1, Size)) = Size - (n + 1) + 1
    BY <1>1, <2>1, Slice
  <2>3. Size - (n + 1) + 1 = Size - n
    BY <1>2
  <2> QED
    BY <2>2, <2>3
<1>6. /\ SubSeq(r, n + 1, Len(r)) \in Seq(Bytes)
      /\ Len(SubSeq(r, n + 1, Len(r))) = Len(r) - n
      /\ \A i \in 1..(Len(r) - n) : SubSeq(r, n + 1, Len(r))[i] = r[n + i]
  <2>1. n + 1 \in Int /\ 1 <= n + 1 /\ n + 1 <= Len(r) + 1 /\ Len(r) \in Int /\ Len(r) <= Len(r)
    BY <1>3
  <2>2. /\ SubSeq(r, n + 1, Len(r)) \in Seq(Bytes)
        /\ Len(SubSeq(r, n + 1, Len(r))) = Len(r) - (n + 1) + 1
        /\ \A i \in 1..(Len(r) - (n + 1) + 1) :
             SubSeq(r, n + 1, Len(r))[i] = r[(n + 1) + i - 1]
    BY <1>1, <2>1, Slice
  <2>3. Len(r) - (n + 1) + 1 = Len(r) - n
        /\ \A i \in 1..(Len(r) - n) : (n + 1) + i - 1 = n + i
    BY <1>3
  <2> QED
    BY <2>2, <2>3
<1> DEFINE u == SubSeq(r, 1, n)
           v == SubSeq(b, n + 1, Size)
<1> HIDE DEF u, v
<1>7. u \in Seq(Bytes) /\ Len(u) = n /\ v \in Seq(Bytes) /\ Len(v) = Size - n
  BY <1>4, <1>5 DEF u, v
<1>8. /\ u \o v \in Seq(Bytes) /\ Len(u \o v) = Len(u) + Len(v)
      /\ \A i \in 1..Len(u) : (u \o v)[i] = u[i]
  BY <1>7, Concat
<1>9. Len(u) + Len(v) = Size
  BY <1>2, <1>7
<1>10. u \o v \in Buffers
  BY <1>8, <1>9 DEF Buffers
<1>11. \A i \in 1..n : (u \o v)[i] = r[i]
  BY <1>4, <1>7, <1>8 DEF u
<1> QED
  BY <1>2, <1>3, <1>6, <1>10, <1>11 DEF u, v, r, b

(* What a step of receive_frame() does, for the session and the buffer that *)
(* it reads.                                                                *)
Received(w, p, n, b) ==
  LET f == ParseFrame(b)
      start == sent[p] - Len(rx[p])
  IN  /\ alive /\ p = hand[w] /\ wpc[w] = "read" /\ Live(p)
      /\ n <= Len(rx[p]) /\ n <= Size
      /\ \A i \in 1..n : b[i] = rx[p][i]
      /\ wpc' = [wpc EXCEPT ![w] = IF f.opcode \in {NoFrame, CLOSE} THEN "close" ELSE "reply"]
      /\ rx' = [rx EXCEPT ![p] = SubSeq(rx[p], n + 1, Len(rx[p]))]
      /\ buf' = [buf EXCEPT ![w] = f.buffer]
      /\ left' = IF n < Len(rx[p]) \/ p \in fin THEN left \cup {p} ELSE left \ {p}
      /\ torn' = IF {start, start + n} \subseteq Ends[p] THEN torn ELSE torn \cup {p}
      /\ alive' = ~f.overrun
      /\ heard' = IF f.opcode = NoFrame THEN heard
                  ELSE [heard EXCEPT ![p] = Append(heard[p], <<f.opcode, f.payload>>)]
      /\ reply' = [reply EXCEPT ![w] = ReplyTo(f.opcode)]
      /\ UNCHANGED <<phase, sent, fin, ready, queue, hand, got>>

LEMMA ReceiveFacts ==
  ASSUME Types, HandsFull, NEW w \in Workers, ReceiveFrame(w)
  PROVE  \E p \in Peers, n \in Nat \ {0}, b \in Buffers : Received(w, p, n, b)
<1> DEFINE p == hand[w]
           n == IF Len(rx[p]) < Size THEN Len(rx[p]) ELSE Size
           b == SubSeq(rx[p], 1, n) \o SubSeq(buf[w], n + 1, Size)
<1>1. wpc[w] = "read" /\ Live(p) /\ n > 0
  BY DEF ReceiveFrame
<1>2. p \in Peers
  BY <1>1 DEF HandsFull
<1>3. n \in Nat /\ n \in Nat \ {0}
  <2>1. Len(rx[p]) \in Nat /\ Size \in Nat
    BY <1>2, WebSocketAssumption DEF Types
  <2> QED
    BY <1>1, <2>1
<1>4. n <= Len(rx[p]) /\ n <= Size /\ b \in Buffers /\ \A i \in 1..n : b[i] = rx[p][i]
  BY <1>2, <1>3, BufferRead
<1>5. Received(w, p, n, b)
  <2>1. PICK f \in {ParseFrame(x) : x \in {b}} :
            /\ Goto(w, "read", IF f.opcode \in {NoFrame, CLOSE} THEN "close" ELSE "reply")
            /\ rx' = [rx EXCEPT ![p] = SubSeq(@, n + 1, Len(@))]
            /\ buf' = [buf EXCEPT ![w] = f.buffer]
            /\ left' = IF n < Len(rx[p]) \/ p \in fin THEN left \cup {p} ELSE left \ {p}
            /\ torn' = IF {sent[p] - Len(rx[p]), sent[p] - Len(rx[p]) + n} \subseteq Ends[p]
                       THEN torn ELSE torn \cup {p}
            /\ alive' = ~f.overrun
            /\ heard' = IF f.opcode = NoFrame THEN heard
                        ELSE [heard EXCEPT ![p] = Append(@, <<f.opcode, f.payload>>)]
            /\ reply' = [reply EXCEPT ![w] = ReplyTo(f.opcode)]
            /\ UNCHANGED <<phase, sent, fin, ready, queue, hand, got>>
    BY Zenon DEF ReceiveFrame
  <2> HIDE DEF n, b
  <2>2. f = ParseFrame(b)
    OBVIOUS
  <2> QED
    BY <1>1, <1>4, <2>1, <2>2 DEF Received, Goto
<1> QED
  BY <1>2, <1>3, <1>4, <1>5

(* send_frame() leaves a buffer, and what it has sent is read as a frame.   *)
LEMMA ReplyFacts ==
  ASSUME Types, HandsFull, NEW w \in Workers, wpc[w] = "reply"
  PROVE  LET s == SendFrame(buf[w], reply[w][2], reply[w][1])
         IN  s.buffer \in Buffers /\ PeerReads(s.bytes) \in Read
<1> DEFINE b == buf[w]
           op == reply[w][1]
           message == reply[w][2]
           s == SendFrame(b, message, op)
<1>1. b \in Seq(Bytes) /\ Len(b) = Size
  BY DEF Types, Buffers
<1>2. op \in Opcodes /\ message \in Seq(Bytes) /\ Len(message) < 126 /\ Len(message) + 10 <= Size
  BY RepliesTyped DEF HandsFull
<1> HIDE DEF b, op, message
<1>3. s.buffer \in Seq(Bytes) /\ Len(s.buffer) = Len(b)
  <2>1. Len(message) \in Nat
    BY <1>2
  <2>2. \A k \in Nat : k < 126 => k < Limit
    BY SMT DEF Limit
  <2>3. Len(message) < Limit
    BY <1>2, <2>1, <2>2
  <2> QED
    BY <1>1, <1>2, <2>3, SendTyped
<1>4. PeerReads(s.bytes) = [opcode |-> op, complete |-> TRUE, payload |-> message]
  BY <1>1, <1>2, ReplyRead
<1>5. PeerReads(s.bytes) \in Read
  BY <1>2, <1>4 DEF Read
<1> QED
  BY <1>1, <1>3, <1>5 DEF Buffers, b, op, message
------------------------------------------------------------------------------
(* Types, and that a worker in the handler has a session.                   *)
LEMMA TypesInit == Init => Types /\ HandsFull
<1> SUFFICES ASSUME Init PROVE Types /\ HandsFull
  OBVIOUS
<1>1. buf \in [Workers -> Buffers]
  <2>1. PICK x \in Fresh : buf = [w \in Workers |-> [i \in 1..Size |-> x]]
    BY DEF Init
  <2>2. x \in Bytes /\ Size \in Nat
    BY WebSocketAssumption
  <2>3. [i \in 1..Size |-> x] \in Buffers
    BY <2>2 DEF Buffers
  <2> QED
    BY <2>1, <2>3
<1>2. <<>> \in Seq(Bytes) /\ <<>> \in Seq(Frames) /\ <<>> \in Seq(Read) /\ <<>> \in Seq(Peers)
  OBVIOUS
<1>3. Types
  BY <1>1, <1>2 DEF Init, Types
<1>4. HandsFull
  BY DEF Init, HandsFull
<1> QED
  BY <1>3, <1>4

LEMMA SendTypes ==
  ASSUME Types, HandsFull, NEW p \in Peers, Send(p)
  PROVE  Types' /\ HandsFull'
<1>1. PICK n \in 1..(Len(Stream[p]) - sent[p]) :
         /\ sent' = [sent EXCEPT ![p] = @ + n]
         /\ rx' = [rx EXCEPT ![p] = @ \o SubSeq(Stream[p], sent[p] + 1, sent[p] + n)]
  BY DEF Send
<1>2. Stream[p] \in Seq(Bytes) /\ sent[p] \in Nat /\ rx[p] \in Seq(Bytes)
  BY StreamAssumption DEF Types
<1>3. SubSeq(Stream[p], sent[p] + 1, sent[p] + n) \in Seq(Bytes)
  <2>1. /\ sent[p] + 1 \in Int /\ sent[p] + n \in Int /\ 1 <= sent[p] + 1
        /\ sent[p] + 1 <= (sent[p] + n) + 1 /\ sent[p] + n <= Len(Stream[p])
    BY <1>2
  <2> QED
    BY <1>2, <2>1, Slice
<1> DEFINE x == SubSeq(Stream[p], sent[p] + 1, sent[p] + n)
<1> HIDE DEF x
<1>4. rx[p] \o x \in Seq(Bytes)
  BY <1>2, <1>3, Concat DEF x
<1>5. sent' \in [Peers -> Nat] /\ rx' \in [Peers -> Seq(Bytes)]
  <2>1. sent[p] + n \in Nat
    BY <1>2
  <2> QED
    BY <1>1, <1>4, <2>1 DEF Types, x
<1>6. ready' \in SUBSET Peers
  BY DEF Send, Edge, Types
<1>7. UNCHANGED <<phase, fin, queue, wpc, hand, reply, buf, alive, heard, got, torn, left>>
  BY DEF Send, work, past
<1> QED
  BY <1>5, <1>6, <1>7 DEF Types, HandsFull

LEMMA PeerTypes ==
  ASSUME Types, HandsFull, NEW p \in Peers, Fin(p) \/ Report(p)
  PROVE  Types' /\ HandsFull'
<1>1. CASE Fin(p)
  <2>1. fin' \in SUBSET Peers /\ ready' \in SUBSET Peers
    BY <1>1 DEF Fin, Edge, Types
  <2>2. UNCHANGED <<phase, sent, rx, queue, wpc, hand, reply, buf, alive, heard, got, torn, left>>
    BY <1>1 DEF Fin, work, past
  <2> QED
    BY <2>1, <2>2 DEF Types, HandsFull
<1>2. CASE Report(p)
  <2>1. ready' \in SUBSET Peers /\ queue' \in Seq(Peers)
    BY <1>2 DEF Report, Types
  <2>2. UNCHANGED <<phase, sent, rx, fin, wpc, hand, reply, buf, alive, heard, got, torn, left>>
    BY <1>2 DEF Report, work, past
  <2> QED
    BY <2>1, <2>2 DEF Types, HandsFull
<1> QED
  BY <1>1, <1>2

LEMMA PopTypes ==
  ASSUME Types, HandsFull, NEW w \in Workers, Pop(w)
  PROVE  Types' /\ HandsFull'
<1>1. queue # <<>> /\ queue \in Seq(Peers)
  BY DEF Pop, Types
<1>2. Head(queue) \in Peers /\ Tail(queue) \in Seq(Peers)
  BY <1>1
<1>3. /\ wpc' = [wpc EXCEPT ![w] = IF phase[Head(queue)] = "http" THEN "hello" ELSE "read"]
      /\ hand' = [hand EXCEPT ![w] = Head(queue)]
      /\ queue' = Tail(queue)
      /\ UNCHANGED <<phase, sent, rx, fin, ready, reply, buf, alive, heard, got, torn, left>>
  BY DEF Pop, Goto, net, past
<1>4. /\ wpc' \in [Workers -> {"pop", "hello", "add", "read", "reply", "close"}]
      /\ hand' \in [Workers -> Peers \cup {NoPeer}] /\ queue' \in Seq(Peers)
  BY <1>2, <1>3 DEF Types
<1>5. wpc'[w] # "reply" /\ hand'[w] \in Peers
      /\ \A v \in Workers \ {w} : wpc'[v] = wpc[v] /\ hand'[v] = hand[v]
  BY <1>2, <1>3 DEF Types
<1>6. Types'
  BY <1>3, <1>4 DEF Types
<1>7. HandsFull'
  BY <1>3, <1>5 DEF HandsFull
<1> QED
  BY <1>6, <1>7

(* What the steps of the handler that only move on have in common. *)
LEMMA HandlerTypes ==
  ASSUME Types, HandsFull, NEW w \in Workers,
         \/ Hello(w) \/ EpollAdd(w) \/ EpollAddFails(w)
         \/ ReceiveNothing(w) \/ Close(w)
  PROVE  Types' /\ HandsFull'
<1>0. <<>> \in Seq(Bytes)
  OBVIOUS
<1>1. CASE Hello(w)
  <2>1. hand[w] \in Peers
    BY <1>1 DEF Hello, Goto, HandsFull
  <2>2. /\ wpc' = [wpc EXCEPT ![w] = "add"] /\ phase' = [phase EXCEPT ![hand[w]] = "added"]
        /\ UNCHANGED <<sent, rx, fin, ready, queue, hand, reply, buf, alive, heard, got, torn, left>>
    BY <1>1 DEF Hello, Goto, past
  <2>3. Types'
    BY <2>1, <2>2 DEF Types
  <2>4. HandsFull'
    BY <2>1, <2>2 DEF Types, HandsFull
  <2> QED
    BY <2>3, <2>4
<1>2. CASE EpollAdd(w)
  <2>1. hand[w] \in Peers
    BY <1>2 DEF EpollAdd, Return, Goto, HandsFull
  <2>2. /\ wpc' = [wpc EXCEPT ![w] = "pop"] /\ hand' = [hand EXCEPT ![w] = NoPeer]
        /\ reply' = [reply EXCEPT ![w] = <<>>] /\ phase' = [phase EXCEPT ![hand[w]] = "open"]
        /\ ready' \in {ready, ready \cup {hand[w]}}
        /\ UNCHANGED <<sent, rx, fin, queue, buf, alive, heard, got, torn, left>>
    BY <1>2 DEF EpollAdd, Return, Goto, past
  <2>3. Types'
    BY <2>1, <2>2 DEF Types
  <2>4. HandsFull'
    BY <2>1, <2>2 DEF Types, HandsFull
  <2> QED
    BY <2>3, <2>4
<1>3. CASE ReceiveNothing(w) \/ EpollAddFails(w)
  <2>1. hand[w] \in Peers
    BY <1>3 DEF ReceiveNothing, EpollAddFails, Goto, HandsFull
  <2>2. /\ wpc' = [wpc EXCEPT ![w] = "close"]
        /\ UNCHANGED <<phase, sent, rx, fin, ready, queue, hand, reply, buf, alive,
                       heard, got, torn, left>>
    BY <1>3 DEF ReceiveNothing, EpollAddFails, Goto, net, past
  <2>3. Types'
    BY <2>1, <2>2 DEF Types
  <2>4. HandsFull'
    BY <2>1, <2>2 DEF Types, HandsFull
  <2> QED
    BY <2>3, <2>4
<1>4. CASE Close(w)
  <2>1. hand[w] \in Peers
    BY <1>4 DEF Close, Return, Goto, HandsFull
  <2>2. /\ wpc' = [wpc EXCEPT ![w] = "pop"] /\ hand' = [hand EXCEPT ![w] = NoPeer]
        /\ reply' = [reply EXCEPT ![w] = <<>>] /\ phase' = [phase EXCEPT ![hand[w]] = "closed"]
        /\ rx' = [rx EXCEPT ![hand[w]] = <<>>] /\ ready' = ready \ {hand[w]}
        /\ UNCHANGED <<sent, fin, queue, buf, alive, heard, got, torn, left>>
    BY <1>4 DEF Close, Return, Goto, past
  <2>3. Types'
    BY <1>0, <2>1, <2>2 DEF Types
  <2>4. HandsFull'
    BY <2>1, <2>2 DEF Types, HandsFull
  <2> QED
    BY <2>3, <2>4
<1> QED
  BY <1>1, <1>2, <1>3, <1>4

LEMMA ReplyTypes ==
  ASSUME Types, HandsFull, NEW w \in Workers, Reply(w) \/ ReplyFails(w)
  PROVE  Types' /\ HandsFull'
<1> DEFINE s == SendFrame(buf[w], reply[w][2], reply[w][1])
<1>1. wpc[w] = "reply" /\ hand[w] \in Peers
  BY DEF Reply, ReplyFails, Return, Goto, HandsFull
<1>2. s.buffer \in Buffers /\ PeerReads(s.bytes) \in Read
  BY <1>1, ReplyFacts
<1> DEFINE b == s.buffer
           r == PeerReads(s.bytes)
<1>3. CASE Reply(w)
  <2>1. /\ wpc' = [wpc EXCEPT ![w] = "pop"] /\ hand' = [hand EXCEPT ![w] = NoPeer]
        /\ reply' = [reply EXCEPT ![w] = <<>>] /\ buf' = [buf EXCEPT ![w] = b]
        /\ got' = [got EXCEPT ![hand[w]] = Append(got[hand[w]], r)]
        /\ UNCHANGED <<phase, sent, rx, fin, ready, queue, alive, heard, torn, left>>
    BY <1>3 DEF Reply, Return, Goto, net
  <2> HIDE DEF b, r
  <2>2. Append(got[hand[w]], r) \in Seq(Read)
    BY <1>1, <1>2 DEF Types, r
  <2>3. Types'
    BY <1>1, <1>2, <2>1, <2>2 DEF Types, b
  <2>4. HandsFull'
    BY <2>1 DEF Types, HandsFull
  <2> QED
    BY <2>3, <2>4
<1>4. CASE ReplyFails(w)
  <2>1. /\ wpc' = [wpc EXCEPT ![w] = "close"] /\ buf' = [buf EXCEPT ![w] = b]
        /\ UNCHANGED <<phase, sent, rx, fin, ready, queue, hand, reply, alive,
                       heard, got, torn, left>>
    BY <1>4 DEF ReplyFails, Goto, net, past
  <2> HIDE DEF b
  <2>2. Types'
    BY <1>2, <2>1 DEF Types, b
  <2>3. HandsFull'
    BY <1>1, <2>1 DEF Types, HandsFull
  <2> QED
    BY <2>2, <2>3
<1> QED
  BY <1>3, <1>4

LEMMA ReceiveTypes ==
  ASSUME Types, HandsFull, NEW w \in Workers, ReceiveFrame(w)
  PROVE  Types' /\ HandsFull'
<1>1. PICK p \in Peers, n \in Nat \ {0}, b \in Buffers : Received(w, p, n, b)
  BY ReceiveFacts
<1> DEFINE f == ParseFrame(b)
<1>2. /\ f.opcode \in Opcodes \cup {NoFrame} /\ f.payload \in Seq(Bytes)
      /\ f.buffer \in Buffers /\ f.overrun \in BOOLEAN
  <2>1. b \in Seq(Bytes) /\ Len(b) = Size /\ Len(b) >= 14
    BY WebSocketAssumption DEF Buffers
  <2> QED
    BY <2>1, ParseTyped DEF Buffers
<1>3. /\ p = hand[w]
      /\ wpc' = [wpc EXCEPT ![w] = IF f.opcode \in {NoFrame, CLOSE} THEN "close" ELSE "reply"]
      /\ rx' = [rx EXCEPT ![p] = SubSeq(rx[p], n + 1, Len(rx[p]))]
      /\ buf' = [buf EXCEPT ![w] = f.buffer]
      /\ left' \in {left \cup {p}, left \ {p}}
      /\ torn' \in {torn, torn \cup {p}}
      /\ alive' = ~f.overrun
      /\ heard' = IF f.opcode = NoFrame THEN heard
                  ELSE [heard EXCEPT ![p] = Append(heard[p], <<f.opcode, f.payload>>)]
      /\ reply' = [reply EXCEPT ![w] = ReplyTo(f.opcode)]
      /\ UNCHANGED <<phase, sent, fin, ready, queue, hand, got>>
      /\ n <= Len(rx[p])
  BY <1>1 DEF Received
<1> HIDE DEF f
<1>4. SubSeq(rx[p], n + 1, Len(rx[p])) \in Seq(Bytes)
  <2>1. rx[p] \in Seq(Bytes)
    BY DEF Types
  <2>2. n + 1 \in Int /\ 1 <= n + 1 /\ n + 1 <= Len(rx[p]) + 1 /\ Len(rx[p]) \in Int
    BY <1>3, <2>1
  <2> QED
    BY <2>1, <2>2, Slice
<1>5. heard' \in [Peers -> Seq(Frames)]
  <2>1. CASE f.opcode = NoFrame
    BY <1>3, <2>1 DEF Types
  <2>2. CASE f.opcode # NoFrame
    <3>1. <<f.opcode, f.payload>> \in Frames
      BY <1>2, <2>2 DEF Frames
    <3>2. heard[p] \in Seq(Frames)
      BY DEF Types
    <3>3. Append(heard[p], <<f.opcode, f.payload>>) \in Seq(Frames)
      BY <3>1, <3>2, AppendProperties
    <3> QED
      BY <1>3, <2>2, <3>3 DEF Types
  <2> QED
    BY <2>1, <2>2
<1>6. /\ rx' \in [Peers -> Seq(Bytes)] /\ buf' \in [Workers -> Buffers]
      /\ alive' \in BOOLEAN
  BY <1>2, <1>3, <1>4 DEF Types
<1>7. reply' \in [Workers -> Replies \cup {<<>>}] /\ reply'[w] \in Replies
  BY <1>3, RepliesTyped DEF Types
<1>8. /\ wpc' \in [Workers -> {"pop", "hello", "add", "read", "reply", "close"}]
      /\ left' \in SUBSET Peers /\ torn' \in SUBSET Peers
  BY <1>3 DEF Types
<1>9. Types'
  BY <1>3, <1>5, <1>6, <1>7, <1>8 DEF Types
<1>10. \A v \in Workers \ {w} : wpc'[v] = wpc[v] /\ hand'[v] = hand[v] /\ reply'[v] = reply[v]
  BY <1>3 DEF Types
<1>11. HandsFull'
  BY <1>3, <1>7, <1>10 DEF HandsFull
<1> QED
  BY <1>9, <1>11

LEMMA TypesNext ==
  ASSUME Types, HandsFull, [Next]_vars
  PROVE  Types' /\ HandsFull'
<1>1. CASE UNCHANGED vars
  BY <1>1 DEF vars, net, work, past, Types, HandsFull
<1>2. ASSUME NEW p \in Peers, Send(p) \/ Fin(p) \/ Report(p)
      PROVE  Types' /\ HandsFull'
  BY <1>2, SendTypes, PeerTypes
<1>3. ASSUME NEW w \in Workers, Pop(w) \/ Worker(w)
      PROVE  Types' /\ HandsFull'
  BY <1>3, PopTypes, HandlerTypes, ReplyTypes, ReceiveTypes DEF Worker
<1> QED
  BY <1>1, <1>2, <1>3 DEF Next
------------------------------------------------------------------------------
(* A request for a session is never in two places, and once greeted it is   *)
(* none any more.                                                           *)
LEMMA PeersGreeted ==
  ASSUME Types, GreetedOnce, NEW p \in Peers, Send(p) \/ Fin(p) \/ Report(p)
  PROVE  GreetedOnce'
<1>1. UNCHANGED <<phase, wpc, hand>>
  BY DEF Send, Fin, Report, work
<1>2. CASE Send(p) \/ Fin(p)
  <2>1. /\ phase[p] # "http" /\ queue' = queue /\ ready' \in {ready, ready \cup {p}}
        /\ \A q \in Peers : q # p => rx'[q] = rx[q] /\ (q \in fin' <=> q \in fin)
    BY <1>2 DEF Send, Fin, Edge, Live, Types
  <2> QED
    BY <1>1, <2>1 DEF GreetedOnce, Greets, Serves, Silent, InLine, InHand
<1>3. CASE Report(p)
  <2>1. /\ p \in ready /\ ready' = ready \ {p} /\ queue' = Append(queue, p)
        /\ UNCHANGED <<rx, fin>>
    BY <1>3 DEF Report
  <2>2. /\ Len(queue) \in Nat /\ Len(queue') = Len(queue) + 1
        /\ \A i \in 1..Len(queue) : queue'[i] = queue[i]
        /\ queue'[Len(queue) + 1] = p
    BY <2>1, AppendProperties, LenProperties DEF Types
  <2>3. \A i \in 1..Len(queue') : i \in 1..Len(queue) \/ i = Len(queue) + 1
    BY <2>2
  <2> SUFFICES ASSUME NEW q \in Peers, phase[q] = "http"
               PROVE  /\ \A i \in 1..Len(queue') : queue'[i] = q =>
                           /\ q \notin ready'
                           /\ \A j \in 1..Len(queue') : queue'[j] = q => i = j
                      /\ \A w \in Workers : wpc[w] = "hello" /\ hand[w] = q =>
                           q \notin ready' /\ \A i \in 1..Len(queue') : queue'[i] # q
    BY <1>1, <2>1 DEF GreetedOnce, Greets, Serves, Silent, InLine, InHand
  <2>4. CASE q = p
    <3>1. \A i \in 1..Len(queue) : queue[i] # p
      BY <2>1, <2>4 DEF GreetedOnce, InLine
    <3>2. \A w \in Workers : ~(wpc[w] = "hello" /\ hand[w] = p)
      BY <2>1, <2>4 DEF GreetedOnce, InHand
    <3>3. \A i \in 1..Len(queue') : queue'[i] = p => i = Len(queue) + 1
      BY <2>2, <2>3, <3>1
    <3> QED
      BY <2>1, <2>4, <3>2, <3>3
  <2>5. CASE q # p
    <3>1. \A i \in 1..Len(queue') : queue'[i] = q => i \in 1..Len(queue) /\ queue[i] = q
      BY <2>2, <2>3, <2>5
    <3>2. \A i \in 1..Len(queue) : queue[i] = q =>
            q \notin ready /\ \A j \in 1..Len(queue) : queue[j] = q => i = j
      BY DEF GreetedOnce, InLine
    <3>3. \A w \in Workers : wpc[w] = "hello" /\ hand[w] = q =>
            q \notin ready /\ \A i \in 1..Len(queue) : queue[i] # q
      BY DEF GreetedOnce, InHand
    <3> QED
      BY <2>1, <3>1, <3>2, <3>3
  <2> QED
    BY <2>4, <2>5
<1> QED
  BY <1>2, <1>3

LEMMA PopGreeted ==
  ASSUME Types, HandsFull, GreetedOnce, NEW w \in Workers, Pop(w)
  PROVE  GreetedOnce'
<1> DEFINE h == Head(queue)
<1>1. /\ queue # <<>> /\ wpc[w] = "pop"
      /\ wpc' = [wpc EXCEPT ![w] = IF phase[h] = "http" THEN "hello" ELSE "read"]
      /\ hand' = [hand EXCEPT ![w] = h]
      /\ queue' = Tail(queue)
      /\ UNCHANGED <<phase, rx, fin, ready>>
  BY DEF Pop, Goto, net
<1>2. /\ Len(queue) \in Nat /\ Len(queue') = Len(queue) - 1 /\ 1 \in 1..Len(queue)
      /\ \A i \in 1..Len(queue') : i + 1 \in 1..Len(queue) /\ queue'[i] = queue[i + 1]
      /\ h = queue[1] /\ h \in Peers
  <2>1. queue \in Seq(Peers)
    BY DEF Types
  <2>2. /\ Tail(queue) \in Seq(Peers) /\ Len(Tail(queue)) = Len(queue) - 1
        /\ \A i \in 1..Len(Tail(queue)) : Tail(queue)[i] = queue[i + 1]
        /\ h \in Peers
    BY <1>1, <2>1, HeadTailProperties
  <2>3. h = queue[1] /\ Len(queue) \in Nat /\ Len(queue) # 0
    BY <1>1, <2>1
  <2> QED
    BY <1>1, <2>2, <2>3
<1> HIDE DEF h
<1>3. /\ hand'[w] = h /\ wpc'[w] = IF phase[h] = "http" THEN "hello" ELSE "read"
      /\ \A v \in Workers \ {w} : wpc'[v] = wpc[v] /\ hand'[v] = hand[v]
  BY <1>1 DEF Types
<1>4. phase[h] = "http" => /\ h \notin ready
                           /\ \A j \in 1..Len(queue) : queue[j] = h => 1 = j
                           /\ \A v \in Workers : ~(wpc[v] = "hello" /\ hand[v] = h)
  BY <1>2 DEF GreetedOnce, InLine, InHand
<1>5. phase[h] = "http" => \A i \in 1..Len(queue') : queue'[i] # h
  BY <1>2, <1>4
<1>6. \A v \in Workers : /\ wpc'[v] = "hello" => phase[hand'[v]] = "http"
                         /\ wpc'[v] \notin {"pop", "hello"} => phase[hand'[v]] # "http"
  BY <1>3 DEF GreetedOnce, Greets, Serves
<1>7. ASSUME NEW q \in Peers, phase[q] = "http"
      PROVE  /\ rx[q] = <<>> /\ q \notin fin
             /\ \A i \in 1..Len(queue') : queue'[i] = q =>
                  q \notin ready /\ \A j \in 1..Len(queue') : queue'[j] = q => i = j
             /\ \A v \in Workers : wpc'[v] = "hello" /\ hand'[v] = q =>
                  /\ q \notin ready
                  /\ \A i \in 1..Len(queue') : queue'[i] # q
                  /\ \A u \in Workers : wpc'[u] = "hello" /\ hand'[u] = q => u = v
  <2>1. /\ rx[q] = <<>> /\ q \notin fin
        /\ \A i \in 1..Len(queue) : queue[i] = q =>
             q \notin ready /\ \A j \in 1..Len(queue) : queue[j] = q => i = j
        /\ \A v \in Workers : wpc[v] = "hello" /\ hand[v] = q =>
             /\ q \notin ready
             /\ \A i \in 1..Len(queue) : queue[i] # q
             /\ \A u \in Workers : wpc[u] = "hello" /\ hand[u] = q => u = v
    BY <1>7 DEF GreetedOnce, Greets, Serves, Silent, InLine, InHand
  <2>2. \A i, j \in 1..Len(queue') : queue'[i] = q /\ queue'[j] = q => q \notin ready /\ i = j
    <3> TAKE i, j \in 1..Len(queue')
    <3> HAVE queue'[i] = q /\ queue'[j] = q
    <3>1. /\ i + 1 \in 1..Len(queue) /\ queue[i + 1] = q
          /\ j + 1 \in 1..Len(queue) /\ queue[j + 1] = q
      BY <1>2
    <3>2. q \notin ready /\ i + 1 = j + 1
      BY <2>1, <3>1
    <3> QED
      BY <3>2
  <2>3. CASE q = h
    BY <1>3, <1>4, <1>5, <1>7, <2>1, <2>2, <2>3
  <2>4. CASE q # h
    <3>1. \A v \in Workers : wpc'[v] = "hello" /\ hand'[v] = q =>
                                wpc[v] = "hello" /\ hand[v] = q
      BY <1>3, <2>4
    <3>2. \A i \in 1..Len(queue') : queue'[i] = q => \E j \in 1..Len(queue) : queue[j] = q
      BY <1>2
    <3> QED
      BY <2>1, <2>2, <3>1, <3>2
  <2> QED
    BY <2>3, <2>4
<1> QED
  BY <1>1, <1>6, <1>7 DEF GreetedOnce, Greets, Serves, Silent, InLine, InHand

LEMMA WorkerGreeted ==
  ASSUME Types, HandsFull, GreetedOnce, NEW w \in Workers, Worker(w)
  PROVE  GreetedOnce'
<1> DEFINE p == hand[w]
<1>1. wpc[w] # "pop" /\ p \in Peers
  BY DEF Worker, Hello, EpollAdd, EpollAddFails, ReceiveFrame, ReceiveNothing, Reply,
         ReplyFails, Close, Return, Goto, HandsFull
<1>2. /\ wpc'[w] # "hello" /\ queue' = queue /\ fin' = fin
      /\ \A v \in Workers \ {w} : wpc'[v] = wpc[v] /\ hand'[v] = hand[v]
      /\ hand'[w] = p \/ wpc'[w] = "pop"
      /\ \A q \in Peers : q # p => /\ phase'[q] = phase[q] /\ rx'[q] = rx[q]
                                    /\ (q \in ready' <=> q \in ready)
      /\ phase'[p] # "http" \/ (wpc[w] # "hello" /\ phase'[p] = phase[p])
  <2>1. CASE Hello(w)
    <3>1. /\ wpc' = [wpc EXCEPT ![w] = "add"] /\ phase' = [phase EXCEPT ![p] = "added"]
          /\ UNCHANGED <<rx, fin, ready, queue, hand>>
      BY <2>1 DEF Hello, Goto
    <3> QED
      BY <1>1, <3>1 DEF Types
  <2>2. CASE EpollAdd(w)
    <3>1. /\ wpc' = [wpc EXCEPT ![w] = "pop"] /\ phase' = [phase EXCEPT ![p] = "open"]
          /\ hand' = [hand EXCEPT ![w] = NoPeer] /\ ready' \in {ready, ready \cup {p}}
          /\ UNCHANGED <<rx, fin, queue>>
      BY <2>2 DEF EpollAdd, Return, Goto
    <3> QED
      BY <1>1, <3>1 DEF Types
  <2>3. CASE EpollAddFails(w) \/ ReceiveNothing(w) \/ ReplyFails(w)
    <3>1. /\ wpc[w] # "hello" /\ wpc' = [wpc EXCEPT ![w] = "close"]
          /\ UNCHANGED <<phase, rx, fin, ready, queue, hand>>
      BY <2>3 DEF EpollAddFails, ReceiveNothing, ReplyFails, Goto, net
    <3> QED
      BY <1>1, <3>1 DEF Types
  <2>4. CASE Reply(w)
    <3>1. /\ wpc[w] # "hello" /\ wpc' = [wpc EXCEPT ![w] = "pop"]
          /\ hand' = [hand EXCEPT ![w] = NoPeer]
          /\ UNCHANGED <<phase, rx, fin, ready, queue>>
      BY <2>4 DEF Reply, Return, Goto, net
    <3> QED
      BY <1>1, <3>1 DEF Types
  <2>5. CASE Close(w)
    <3>1. /\ wpc' = [wpc EXCEPT ![w] = "pop"] /\ phase' = [phase EXCEPT ![p] = "closed"]
          /\ hand' = [hand EXCEPT ![w] = NoPeer]
          /\ rx' = [rx EXCEPT ![p] = <<>>] /\ ready' = ready \ {p}
          /\ UNCHANGED <<fin, queue>>
      BY <2>5 DEF Close, Return, Goto
    <3> QED
      BY <1>1, <3>1 DEF Types
  <2>6. CASE ReceiveFrame(w)
    <3>1. PICK q \in Peers, n \in Nat \ {0}, b \in Buffers : Received(w, q, n, b)
      BY <2>6, ReceiveFacts
    <3>2. /\ q = p /\ wpc[w] # "hello"
          /\ \E to \in {"close", "reply"} : wpc' = [wpc EXCEPT ![w] = to]
          /\ rx' = [rx EXCEPT ![p] = SubSeq(rx[p], n + 1, Len(rx[p]))]
          /\ UNCHANGED <<phase, fin, ready, queue, hand>>
      BY <3>1 DEF Received
    <3> QED
      BY <1>1, <3>2 DEF Types
  <2> QED
    BY <2>1, <2>2, <2>3, <2>4, <2>5, <2>6 DEF Worker
<1>3. phase'[p] # "http"
  BY <1>1, <1>2 DEF GreetedOnce, Serves
<1>4. \A v \in Workers \ {w} : wpc[v] = "hello" => hand[v] # p
  <2> SUFFICES ASSUME NEW v \in Workers \ {w}, wpc[v] = "hello", hand[v] = p
               PROVE  FALSE
    OBVIOUS
  <2>1. phase[p] = "http"
    BY DEF GreetedOnce, Greets
  <2>2. wpc[w] = "hello"
    BY <1>1, <2>1 DEF GreetedOnce, Serves
  <2> QED
    BY <1>1, <2>1, <2>2 DEF GreetedOnce, InHand
<1> HIDE DEF p
<1>5. \A q \in Peers : q # p => /\ phase'[q] = phase[q] /\ rx'[q] = rx[q]
                                /\ (q \in ready' <=> q \in ready)
  BY <1>2
<1>6. \A v \in Workers :
        /\ wpc'[v] = "hello" => phase'[hand'[v]] = "http"
        /\ wpc'[v] \notin {"pop", "hello"} => phase'[hand'[v]] # "http"
  <2> TAKE v \in Workers
  <2>1. CASE v = w
    BY <1>2, <1>3, <2>1
  <2>2. CASE v # w
    <3>1. wpc'[v] = wpc[v] /\ hand'[v] = hand[v]
      BY <1>2, <2>2
    <3>2. wpc[v] # "pop" => hand[v] \in Peers
      BY DEF HandsFull
    <3>3. CASE hand[v] = p
      BY <1>3, <1>4, <2>2, <3>1, <3>3
    <3>4. CASE hand[v] # p
      <4>1. wpc[v] # "pop" => phase'[hand[v]] = phase[hand[v]]
        BY <1>5, <3>2, <3>4
      <4> QED
        BY <3>1, <4>1 DEF GreetedOnce, Greets, Serves
    <3> QED
      BY <3>3, <3>4
  <2> QED
    BY <2>1, <2>2
<1>7. ASSUME NEW q \in Peers, phase'[q] = "http"
      PROVE  /\ q # p /\ phase[q] = "http" /\ rx'[q] = rx[q] /\ (q \in ready' <=> q \in ready)
             /\ \A v \in Workers : wpc'[v] = "hello" /\ hand'[v] = q =>
                                    wpc[v] = "hello" /\ hand[v] = q
  <2>1. q # p
    BY <1>3, <1>7
  <2>2. phase'[q] = phase[q] /\ rx'[q] = rx[q] /\ (q \in ready' <=> q \in ready)
    BY <1>5, <2>1
  <2>3. \A v \in Workers : wpc'[v] = "hello" /\ hand'[v] = q => wpc[v] = "hello" /\ hand[v] = q
    BY <1>2
  <2> QED
    BY <1>7, <2>1, <2>2, <2>3
<1> QED
  BY <1>2, <1>6, <1>7 DEF GreetedOnce, Greets, Serves, Silent, InLine, InHand

LEMMA GreetedNext ==
  ASSUME Types, HandsFull, GreetedOnce, [Next]_vars
  PROVE  GreetedOnce'
<1>1. CASE UNCHANGED vars
  BY <1>1 DEF vars, net, work, GreetedOnce, Greets, Serves, Silent, InLine, InHand
<1> QED
  BY <1>1, PeersGreeted, PopGreeted, WorkerGreeted DEF Next
------------------------------------------------------------------------------
(* No session is stranded: NothingStranded needs no more than the types and *)
(* that a peer is silent before its session is greeted.                     *)

(* Something of the session p is in the kernel, and somebody will look.     *)
Waiting(p) == InEpoll(p) /\ (rx[p] # <<>> \/ p \in fin)
Watched(p) ==
  \/ p \in ready \/ p \in Range(queue) \/ p \in left
  \/ \E w \in Workers : hand[w] = p /\ wpc[w] \in {"read", "close"}

LEMMA StrandedForm == NothingStranded <=> \A p \in Peers : Waiting(p) => Watched(p)
BY DEF NothingStranded, Waiting, Watched

LEMMA QueueRange ==
  ASSUME NEW s \in Seq(Peers), NEW p \in Peers
  PROVE  /\ \A q : q \in Range(s) => q \in Range(Append(s, p))
         /\ p \in Range(Append(s, p))
         /\ s # <<>> => \A q : q \in Range(s) => q = Head(s) \/ q \in Range(Tail(s))
<1>1. /\ Append(s, p) \in Seq(Peers) /\ Len(Append(s, p)) = Len(s) + 1
      /\ \A i \in 1..Len(s) : Append(s, p)[i] = s[i]
      /\ Append(s, p)[Len(s) + 1] = p
  BY AppendProperties
<1>2. DOMAIN s = 1..Len(s) /\ DOMAIN Append(s, p) = 1..(Len(s) + 1) /\ Len(s) \in Nat
  BY <1>1, LenProperties
<1> DEFINE t == Append(s, p)
<1> HIDE DEF t
<1>3. ASSUME NEW q, q \in Range(s)
      PROVE  q \in Range(t)
  <2>1. PICK i \in 1..Len(s) : q = s[i]
    BY <1>2, <1>3 DEF Range
  <2>2. i \in DOMAIN t /\ t[i] = q
    BY <1>1, <1>2, <2>1 DEF t
  <2> QED
    BY <2>2 DEF Range
<1>4. p \in Range(t)
  <2>1. Len(s) + 1 \in DOMAIN t /\ t[Len(s) + 1] = p
    BY <1>1, <1>2 DEF t
  <2> QED
    BY <2>1 DEF Range
<1>5. ASSUME s # <<>>, NEW q, q \in Range(s), q # Head(s)
      PROVE  q \in Range(Tail(s))
  <2>1. PICK i \in 1..Len(s) : q = s[i]
    BY <1>2, <1>5 DEF Range
  <2>2. /\ Tail(s) \in Seq(Peers) /\ Len(Tail(s)) = Len(s) - 1
        /\ \A k \in 1..Len(Tail(s)) : Tail(s)[k] = s[k + 1]
    BY <1>5, HeadTailProperties
  <2>3. Head(s) = s[1]
    BY <1>5
  <2>4. i # 1
    BY <1>5, <2>1, <2>3
  <2>5. i - 1 \in 1..Len(Tail(s)) /\ (i - 1) + 1 = i
    BY <1>2, <2>1, <2>2, <2>4
  <2>6. DOMAIN Tail(s) = 1..Len(Tail(s))
    BY <2>2, LenProperties
  <2>7. Tail(s)[i - 1] = q
    BY <2>1, <2>2, <2>5
  <2> QED
    BY <2>5, <2>6, <2>7 DEF Range
<1> QED
  BY <1>3, <1>4, <1>5 DEF t

LEMMA PeersWatched ==
  ASSUME Types, NothingStranded, NEW p \in Peers, Send(p) \/ Fin(p) \/ Report(p)
  PROVE  NothingStranded'
<1>1. \A q \in Peers : Waiting(q) => Watched(q)
  BY StrandedForm
<1>2. UNCHANGED <<phase, wpc, hand, left>>
  BY DEF Send, Fin, Report, work, past
<1> SUFFICES ASSUME NEW q \in Peers, Waiting(q)'
             PROVE  Watched(q)'
  BY DEF NothingStranded, Waiting, Watched
<1>3. InEpoll(q)
  BY <1>2 DEF Waiting, InEpoll
<1>4. CASE Send(p) \/ Fin(p)
  <2>1. queue' = queue /\ ready' = Edge(p)
    BY <1>4 DEF Send, Fin
  <2>2. CASE q = p
    BY <1>3, <2>1, <2>2 DEF Edge, Watched
  <2>3. CASE q # p
    <3>1. rx'[q] = rx[q] /\ (q \in fin' <=> q \in fin)
      BY <1>4, <2>3 DEF Send, Fin, Types
    <3>2. Waiting(q)
      BY <1>2, <3>1 DEF Waiting, InEpoll
    <3>3. q \in ready => q \in ready'
      BY <2>1 DEF Edge
    <3> QED
      BY <1>1, <1>2, <2>1, <3>2, <3>3 DEF Watched
  <2> QED
    BY <2>2, <2>3
<1>5. CASE Report(p)
  <2>1. ready' = ready \ {p} /\ queue' = Append(queue, p) /\ UNCHANGED <<rx, fin>>
    BY <1>5 DEF Report
  <2>2. Waiting(q)
    BY <1>2, <2>1 DEF Waiting, InEpoll
  <2>3. queue \in Seq(Peers)
    BY DEF Types
  <2>4. (q \in Range(queue) => q \in Range(queue')) /\ p \in Range(queue')
    BY <2>1, <2>3, QueueRange
  <2> QED
    BY <1>1, <1>2, <2>1, <2>2, <2>4 DEF Watched
<1> QED
  BY <1>4, <1>5

LEMMA PopWatched ==
  ASSUME Types, HandsFull, NothingStranded, NEW w \in Workers, Pop(w)
  PROVE  NothingStranded'
<1>1. \A q \in Peers : Waiting(q) => Watched(q)
  BY StrandedForm
<1>2. /\ queue # <<>> /\ wpc[w] = "pop"
      /\ wpc' = [wpc EXCEPT ![w] = IF phase[Head(queue)] = "http" THEN "hello" ELSE "read"]
      /\ hand' = [hand EXCEPT ![w] = Head(queue)]
      /\ queue' = Tail(queue)
      /\ UNCHANGED <<phase, rx, fin, ready, left>>
  BY DEF Pop, Goto, net, past
<1> SUFFICES ASSUME NEW q \in Peers, Waiting(q)'
             PROVE  Watched(q)'
  BY DEF NothingStranded, Waiting, Watched
<1>3. phase[q] # "http" /\ Waiting(q)
  BY <1>2 DEF Waiting, InEpoll
<1>4. queue \in Seq(Peers)
  BY DEF Types
<1>5. q \in Range(queue) => q = Head(queue) \/ q \in Range(queue')
  BY <1>2, <1>4, QueueRange
<1>6. CASE q = Head(queue)
  <2>1. hand'[w] = q /\ wpc'[w] = "read"
    BY <1>2, <1>3, <1>6 DEF Types
  <2> QED
    BY <2>1 DEF Watched
<1>7. CASE q # Head(queue)
  <2>1. ASSUME NEW v \in Workers, hand[v] = q, wpc[v] \in {"read", "close"}
        PROVE  hand'[v] = q /\ wpc'[v] \in {"read", "close"}
    BY <1>2, <2>1 DEF Types
  <2> QED
    BY <1>1, <1>2, <1>3, <1>5, <1>7, <2>1 DEF Watched
<1> QED
  BY <1>6, <1>7

(* The steps in which a worker keeps looking at what it looked at.          *)
LEMMA HandlerWatched ==
  ASSUME Types, HandsFull, GreetedOnce, NothingStranded, NEW w \in Workers,
         \/ Hello(w) \/ EpollAdd(w) \/ EpollAddFails(w) \/ ReceiveNothing(w)
         \/ Reply(w) \/ ReplyFails(w) \/ Close(w)
  PROVE  NothingStranded'
<1>1. \A q \in Peers : Waiting(q) => Watched(q)
  BY StrandedForm
<1>2. hand[w] \in Peers
  BY DEF Hello, EpollAdd, EpollAddFails, ReceiveNothing, Reply, ReplyFails, Close,
         Return, Goto, HandsFull
<1> SUFFICES ASSUME NEW q \in Peers, Waiting(q)'
             PROVE  Watched(q)'
  BY DEF NothingStranded, Waiting, Watched
<1>3. CASE Hello(w)
  <2>1. /\ wpc[w] = "hello" /\ wpc' = [wpc EXCEPT ![w] = "add"]
        /\ phase' = [phase EXCEPT ![hand[w]] = "added"]
        /\ UNCHANGED <<rx, fin, ready, queue, hand, left>>
    BY <1>3 DEF Hello, Goto, past
  <2>2. q # hand[w]
    BY <2>1 DEF GreetedOnce, Greets, Silent, Waiting
  <2>3. Waiting(q)
    BY <1>2, <2>1, <2>2 DEF Waiting, InEpoll, Types
  <2>4. \A v \in Workers : wpc[v] \in {"read", "close"} => wpc'[v] = wpc[v]
    BY <2>1 DEF Types
  <2> QED
    BY <1>1, <2>1, <2>3, <2>4 DEF Watched
<1>4. CASE EpollAdd(w)
  <2>1. /\ wpc[w] = "add" /\ wpc' = [wpc EXCEPT ![w] = "pop"]
        /\ hand' = [hand EXCEPT ![w] = NoPeer]
        /\ phase' = [phase EXCEPT ![hand[w]] = "open"]
        /\ ready' = IF rx[hand[w]] # <<>> \/ hand[w] \in fin
                    THEN ready \cup {hand[w]} ELSE ready
        /\ UNCHANGED <<rx, fin, queue, left>>
    BY <1>4 DEF EpollAdd, Return, Goto, past
  <2>2. CASE q = hand[w]
    BY <2>1, <2>2 DEF Waiting, Watched
  <2>3. CASE q # hand[w]
    <3>1. Waiting(q)
      BY <1>2, <2>1, <2>3 DEF Waiting, InEpoll, Types
    <3>2. \A v \in Workers : wpc[v] \in {"read", "close"} =>
                               wpc'[v] = wpc[v] /\ hand'[v] = hand[v]
      BY <2>1 DEF Types
    <3>3. q \in ready => q \in ready'
      BY <2>1
    <3> QED
      BY <1>1, <2>1, <3>1, <3>2, <3>3 DEF Watched
  <2> QED
    BY <2>2, <2>3
<1>5. CASE ReceiveNothing(w)
  <2>1. /\ wpc[w] = "read" /\ wpc' = [wpc EXCEPT ![w] = "close"]
        /\ UNCHANGED <<phase, rx, fin, ready, queue, hand, left>>
    BY <1>5 DEF ReceiveNothing, Goto, net, past
  <2>2. Waiting(q)
    BY <2>1 DEF Waiting, InEpoll
  <2>3. \A v \in Workers : wpc[v] \in {"read", "close"} => wpc'[v] \in {"read", "close"}
    BY <2>1 DEF Types
  <2> QED
    BY <1>1, <2>1, <2>2, <2>3 DEF Watched
<1>6. CASE Reply(w)
  <2>1. /\ wpc[w] = "reply" /\ wpc' = [wpc EXCEPT ![w] = "pop"]
        /\ hand' = [hand EXCEPT ![w] = NoPeer]
        /\ UNCHANGED <<phase, rx, fin, ready, queue, left>>
    BY <1>6 DEF Reply, Return, Goto, net
  <2>2. Waiting(q)
    BY <2>1 DEF Waiting, InEpoll
  <2>3. \A v \in Workers : wpc[v] \in {"read", "close"} =>
                             wpc'[v] = wpc[v] /\ hand'[v] = hand[v]
    BY <2>1 DEF Types
  <2> QED
    BY <1>1, <2>1, <2>2, <2>3 DEF Watched
<1>7. CASE ReplyFails(w)
  <2>1. /\ wpc[w] = "reply" /\ wpc' = [wpc EXCEPT ![w] = "close"]
        /\ UNCHANGED <<phase, rx, fin, ready, queue, hand, left>>
    BY <1>7 DEF ReplyFails, Goto, net, past
  <2>2. Waiting(q)
    BY <2>1 DEF Waiting, InEpoll
  <2>3. \A v \in Workers : wpc[v] \in {"read", "close"} => wpc'[v] \in {"read", "close"}
    BY <2>1 DEF Types
  <2> QED
    BY <1>1, <2>1, <2>2, <2>3 DEF Watched
<1>8. CASE Close(w)
  <2>1. /\ wpc[w] = "close" /\ wpc' = [wpc EXCEPT ![w] = "pop"]
        /\ hand' = [hand EXCEPT ![w] = NoPeer]
        /\ phase' = [phase EXCEPT ![hand[w]] = "closed"]
        /\ rx' = [rx EXCEPT ![hand[w]] = <<>>] /\ ready' = ready \ {hand[w]}
        /\ UNCHANGED <<fin, queue, left>>
    BY <1>8 DEF Close, Return, Goto, past
  <2>2. q # hand[w]
    BY <1>2, <2>1 DEF Waiting, InEpoll, Types
  <2>3. Waiting(q)
    BY <1>2, <2>1, <2>2 DEF Waiting, InEpoll, Types
  <2>4. \A v \in Workers : wpc[v] \in {"read", "close"} /\ hand[v] = q =>
                             wpc'[v] = wpc[v] /\ hand'[v] = hand[v]
    BY <2>1, <2>2 DEF Types
  <2> QED
    BY <1>1, <2>1, <2>2, <2>3, <2>4 DEF Watched
<1>9. CASE EpollAddFails(w)
  <2>1. /\ wpc[w] = "add" /\ wpc' = [wpc EXCEPT ![w] = "close"]
        /\ UNCHANGED <<phase, rx, fin, ready, queue, hand, left>>
    BY <1>9 DEF EpollAddFails, Goto, net, past
  <2>2. Waiting(q)
    BY <2>1 DEF Waiting, InEpoll
  <2>3. \A v \in Workers : wpc[v] \in {"read", "close"} => wpc'[v] \in {"read", "close"}
    BY <2>1 DEF Types
  <2> QED
    BY <1>1, <2>1, <2>2, <2>3 DEF Watched
<1> QED
  BY <1>3, <1>4, <1>5, <1>6, <1>7, <1>8, <1>9

LEMMA ReceiveWatched ==
  ASSUME Types, HandsFull, NothingStranded, NEW w \in Workers, ReceiveFrame(w)
  PROVE  NothingStranded'
<1>1. \A q \in Peers : Waiting(q) => Watched(q)
  BY StrandedForm
<1>2. PICK p \in Peers, n \in Nat \ {0}, b \in Buffers : Received(w, p, n, b)
  BY ReceiveFacts
<1>3. /\ p = hand[w] /\ n <= Len(rx[p])
      /\ wpc'= [wpc EXCEPT ![w] = IF ParseFrame(b).opcode \in {NoFrame, CLOSE}
                                  THEN "close" ELSE "reply"]
      /\ rx' = [rx EXCEPT ![p] = SubSeq(rx[p], n + 1, Len(rx[p]))]
      /\ left' = IF n < Len(rx[p]) \/ p \in fin THEN left \cup {p} ELSE left \ {p}
      /\ UNCHANGED <<phase, fin, ready, queue, hand>>
  BY <1>2 DEF Received
<1> SUFFICES ASSUME NEW q \in Peers, Waiting(q)'
             PROVE  Watched(q)'
  BY DEF NothingStranded, Waiting, Watched
<1>4. CASE q = p
  <2>1. CASE n < Len(rx[p]) \/ p \in fin
    BY <1>3, <1>4, <2>1 DEF Watched
  <2>2. CASE ~(n < Len(rx[p]) \/ p \in fin)
    <3>1. rx[p] \in Seq(Bytes) /\ Len(rx[p]) \in Nat
      BY DEF Types
    <3>2. Len(rx[p]) < n + 1
      BY <1>3, <2>2, <3>1
    <3>3. SubSeq(rx[p], n + 1, Len(rx[p])) = <<>>
      BY <3>1, <3>2, SubSeqEmpty
    <3>4. rx'[p] = <<>>
      BY <1>3, <3>3 DEF Types
    <3> QED
      BY <1>3, <1>4, <2>2, <3>4 DEF Waiting
  <2> QED
    BY <2>1, <2>2
<1>5. CASE q # p
  <2>1. rx'[q] = rx[q] /\ (q \in left' <=> q \in left)
    BY <1>3, <1>5 DEF Types
  <2>2. Waiting(q)
    BY <1>3, <2>1 DEF Waiting, InEpoll
  <2>3. \A v \in Workers : hand[v] = q => wpc'[v] = wpc[v]
    BY <1>3, <1>5 DEF Types
  <2> QED
    BY <1>1, <1>3, <2>1, <2>2, <2>3 DEF Watched
<1> QED
  BY <1>4, <1>5

LEMMA WatchedNext ==
  ASSUME Types, HandsFull, GreetedOnce, NothingStranded, [Next]_vars
  PROVE  NothingStranded'
<1>1. CASE UNCHANGED vars
  BY <1>1 DEF vars, net, work, past, NothingStranded, InEpoll
<1>2. ASSUME NEW p \in Peers, Send(p) \/ Fin(p) \/ Report(p)
      PROVE  NothingStranded'
  BY <1>2, PeersWatched
<1>3. ASSUME NEW w \in Workers, Pop(w) \/ Worker(w)
      PROVE  NothingStranded'
  BY <1>3, PopWatched, HandlerWatched, ReceiveWatched DEF Worker
<1> QED
  BY <1>1, <1>2, <1>3 DEF Next
------------------------------------------------------------------------------
(* What waits in the kernel is the end of what was sent.                    *)
StreamedOf(p) ==
  /\ sent[p] <= Len(Stream[p]) /\ Len(rx[p]) <= sent[p]
  /\ \A i \in 1..Len(rx[p]) : rx[p][i] = Stream[p][(sent[p] - Len(rx[p])) + i]

LEMMA StreamedForm == Streamed <=> \A p \in Peers : StreamedOf(p)
BY DEF Streamed, StreamedOf

LEMMA SendStreamed ==
  ASSUME Types, Streamed, NEW p \in Peers, Send(p)
  PROVE  Streamed'
<1>1. PICK n \in 1..(Len(Stream[p]) - sent[p]) :
         /\ sent' = [sent EXCEPT ![p] = @ + n]
         /\ rx' = [rx EXCEPT ![p] = @ \o SubSeq(Stream[p], sent[p] + 1, sent[p] + n)]
  BY DEF Send
<1> DEFINE s == sent[p]
           r == rx[p]
           c == Stream[p]
           x == SubSeq(c, s + 1, s + n)
<1>2. c \in Seq(Bytes) /\ s \in Nat /\ r \in Seq(Bytes) /\ Len(r) \in Nat /\ Len(c) \in Nat
  BY StreamAssumption DEF Types
<1>3. s <= Len(c) /\ Len(r) <= s /\ \A i \in 1..Len(r) : r[i] = c[(s - Len(r)) + i]
  BY DEF Streamed
<1>4. sent'[p] = s + n /\ rx'[p] = r \o x
  BY <1>1 DEF Types
<1> HIDE DEF s, r, c
<1>5. n \in Nat \ {0} /\ s + n <= Len(c)
  BY <1>1, <1>2 DEF s, c
<1>6. x \in Seq(Bytes) /\ Len(x) = n /\ \A i \in 1..n : x[i] = c[s + i]
  <2>1. s + 1 \in Int /\ s + n \in Int /\ 1 <= s + 1 /\ s + 1 <= (s + n) + 1
    BY <1>2, <1>5
  <2>2. /\ x \in Seq(Bytes) /\ Len(x) = (s + n) - (s + 1) + 1
        /\ \A i \in 1..((s + n) - (s + 1) + 1) : x[i] = c[(s + 1) + i - 1]
    BY <1>2, <1>5, <2>1, Slice
  <2>3. (s + n) - (s + 1) + 1 = n /\ \A i \in 1..n : (s + 1) + i - 1 = s + i
    BY <1>2, <1>5
  <2> QED
    BY <2>2, <2>3
<1> HIDE DEF x
<1>7. /\ Len(r \o x) = Len(r) + n
      /\ \A i \in 1..Len(r) : (r \o x)[i] = r[i]
      /\ \A i \in 1..n : (r \o x)[Len(r) + i] = x[i]
  <2>1. /\ Len(r \o x) = Len(r) + Len(x)
        /\ \A i \in 1..Len(r) : (r \o x)[i] = r[i]
        /\ \A i \in 1..Len(x) : (r \o x)[Len(r) + i] = x[i]
    BY <1>2, <1>6, Concat
  <2> QED
    BY <1>6, <2>1
<1>8. (s + n) - (Len(r) + n) = s - Len(r) /\ Len(r) + n <= s + n
  BY <1>2, <1>3, <1>5
<1>9. ASSUME NEW i \in 1..(Len(r) + n)
      PROVE  (r \o x)[i] = c[(s - Len(r)) + i]
  <2>1. CASE i <= Len(r)
    <3>1. i \in 1..Len(r)
      BY <1>2, <2>1
    <3> QED
      BY <1>3, <1>7, <3>1
  <2>2. CASE i > Len(r)
    <3>1. PICK k \in 1..n : Len(r) + k = i /\ s + k = (s - Len(r)) + i
      <4>1. i - Len(r) \in 1..n /\ Len(r) + (i - Len(r)) = i
            /\ s + (i - Len(r)) = (s - Len(r)) + i
        BY <1>2, <1>5, <2>2
      <4> QED
        BY <4>1
    <3>2. (r \o x)[i] = x[k]
      BY <1>7, <3>1
    <3>3. x[k] = c[(s - Len(r)) + i]
      BY <1>6, <3>1
    <3> QED
      BY <3>2, <3>3
  <2>3. i <= Len(r) \/ i > Len(r)
    BY <1>2, <1>5
  <2> QED
    BY <2>1, <2>2, <2>3
<1>10. StreamedOf(p)'
  BY <1>4, <1>5, <1>7, <1>8, <1>9 DEF StreamedOf, c
<1>11. ASSUME NEW q \in Peers, q # p
       PROVE  StreamedOf(q)'
  <2>1. sent'[q] = sent[q] /\ rx'[q] = rx[q]
    BY <1>1, <1>11 DEF Types
  <2> QED
    BY <2>1, StreamedForm DEF StreamedOf
<1> QED
  BY <1>10, <1>11 DEF Streamed, StreamedOf

LEMMA ReceiveStreamed ==
  ASSUME Types, HandsFull, Streamed, NEW w \in Workers, ReceiveFrame(w)
  PROVE  Streamed'
<1>1. PICK p \in Peers, n \in Nat \ {0}, b \in Buffers : Received(w, p, n, b)
  BY ReceiveFacts
<1>2. n <= Len(rx[p]) /\ sent' = sent /\ rx' = [rx EXCEPT ![p] = SubSeq(rx[p], n + 1, Len(rx[p]))]
  BY <1>1 DEF Received
<1> DEFINE s == sent[p]
           r == rx[p]
           c == Stream[p]
           x == SubSeq(r, n + 1, Len(r))
<1>3. s \in Nat /\ r \in Seq(Bytes) /\ Len(r) \in Nat
  BY DEF Types
<1>4. s <= Len(c) /\ Len(r) <= s /\ \A i \in 1..Len(r) : r[i] = c[(s - Len(r)) + i]
  BY DEF Streamed
<1>5. sent'[p] = s /\ rx'[p] = x /\ n <= Len(r)
  BY <1>2 DEF Types
<1> HIDE DEF s, r, c
<1>6. Len(x) = Len(r) - n /\ \A i \in 1..(Len(r) - n) : x[i] = r[n + i]
  <2>1. n + 1 \in Int /\ 1 <= n + 1 /\ n + 1 <= Len(r) + 1 /\ Len(r) \in Int /\ Len(r) <= Len(r)
    BY <1>3, <1>5
  <2>2. /\ Len(x) = Len(r) - (n + 1) + 1
        /\ \A i \in 1..(Len(r) - (n + 1) + 1) : x[i] = r[(n + 1) + i - 1]
    BY <1>3, <2>1, Slice
  <2>3. Len(r) - (n + 1) + 1 = Len(r) - n
        /\ \A i \in 1..(Len(r) - n) : (n + 1) + i - 1 = n + i
    BY <1>3, <1>5
  <2> QED
    BY <2>2, <2>3
<1> HIDE DEF x
<1>7. ASSUME NEW i \in 1..(Len(r) - n)
      PROVE  x[i] = c[(s - (Len(r) - n)) + i]
  <2>1. n + i \in 1..Len(r) /\ (s - Len(r)) + (n + i) = (s - (Len(r) - n)) + i
    BY <1>3, <1>5
  <2> QED
    BY <1>4, <1>6, <2>1
<1>8. Len(r) - n <= s
  BY <1>3, <1>4, <1>5
<1>9. StreamedOf(p)'
  BY <1>4, <1>5, <1>6, <1>7, <1>8 DEF StreamedOf, c
<1>10. ASSUME NEW q \in Peers, q # p
       PROVE  StreamedOf(q)'
  <2>1. sent'[q] = sent[q] /\ rx'[q] = rx[q]
    BY <1>2, <1>10 DEF Types
  <2> QED
    BY <2>1, StreamedForm DEF StreamedOf
<1> QED
  BY <1>9, <1>10 DEF Streamed, StreamedOf

LEMMA CloseStreamed ==
  ASSUME Types, HandsFull, Streamed, NEW w \in Workers, Close(w)
  PROVE  Streamed'
<1>1. hand[w] \in Peers /\ sent' = sent /\ rx' = [rx EXCEPT ![hand[w]] = <<>>]
  BY DEF Close, Return, Goto, HandsFull
<1> SUFFICES ASSUME NEW q \in Peers
             PROVE  StreamedOf(q)'
  BY DEF Streamed, StreamedOf
<1>2. CASE q = hand[w]
  <2>1. rx'[q] = <<>> /\ sent'[q] = sent[q] /\ sent[q] \in Nat /\ Len(<<>>) = 0
    BY <1>1, <1>2 DEF Types
  <2>2. sent[q] <= Len(Stream[q])
    BY DEF Streamed
  <2>3. Len(rx'[q]) = 0 /\ 0 <= sent[q]
    BY <2>1
  <2> QED
    BY <2>1, <2>2, <2>3 DEF StreamedOf
<1>3. CASE q # hand[w]
  <2>1. sent'[q] = sent[q] /\ rx'[q] = rx[q]
    BY <1>1, <1>3 DEF Types
  <2> QED
    BY <2>1, StreamedForm DEF StreamedOf
<1> QED
  BY <1>2, <1>3

(* The steps that neither bring bytes nor take any.                         *)
Quiet ==
  \/ UNCHANGED vars
  \/ \E p \in Peers : Fin(p) \/ Report(p)
  \/ \E w \in Workers : \/ Pop(w) \/ Hello(w) \/ EpollAdd(w) \/ EpollAddFails(w)
                        \/ ReceiveNothing(w) \/ Reply(w) \/ ReplyFails(w)

LEMMA QuietFacts == Quiet => UNCHANGED <<sent, rx, heard, torn, alive>>
<1>1. UNCHANGED vars => UNCHANGED <<sent, rx, heard, torn, alive>>
  BY DEF vars, net, past
<1>2. \A p \in Peers : Fin(p) \/ Report(p) => UNCHANGED <<sent, rx, heard, torn, alive>>
  BY DEF Fin, Report, past
<1>3. \A w \in Workers : Pop(w) \/ Hello(w) \/ EpollAdd(w) \/ EpollAddFails(w) =>
        UNCHANGED <<sent, rx, heard, torn, alive>>
  BY DEF Pop, Hello, EpollAdd, EpollAddFails, net, past
<1>4. \A w \in Workers : ReceiveNothing(w) \/ Reply(w) \/ ReplyFails(w) =>
        UNCHANGED <<sent, rx, heard, torn, alive>>
  BY DEF ReceiveNothing, Reply, ReplyFails, net, past
<1> QED
  BY <1>1, <1>2, <1>3, <1>4 DEF Quiet

LEMMA NextForm ==
  [Next]_vars => \/ Quiet \/ \E p \in Peers : Send(p)
                 \/ \E w \in Workers : ReceiveFrame(w) \/ Close(w)
BY DEF Next, Worker, Quiet

LEMMA StreamedNext ==
  ASSUME Types, HandsFull, Streamed, [Next]_vars
  PROVE  Streamed'
<1>1. CASE Quiet
  BY <1>1, QuietFacts DEF Streamed
<1> QED
  BY <1>1, NextForm, SendStreamed, ReceiveStreamed, CloseStreamed
------------------------------------------------------------------------------
(* What is heard from a peer none of whose frames came in pieces.           *)

(* How far into the stream of p the server has read.                        *)
ReadTo(p) == sent[p] - Len(rx[p])

(* A read from the end of one frame to the end of another one finds the     *)
(* next frame of the script at the buffer's start, and nothing is unmasked  *)
(* past the buffer.                                                         *)
LEMMA FrameAt ==
  ASSUME Types, Streamed, NEW p \in Peers, NEW n \in Nat \ {0}, NEW b \in Buffers,
         n <= Len(rx[p]), n <= Size, \A i \in 1..n : b[i] = rx[p][i],
         {ReadTo(p), ReadTo(p) + n} \subseteq Ends[p]
  PROVE  \E k \in DOMAIN Script[p] :
           /\ Cut[p][k - 1] = ReadTo(p) /\ Cut[p][k] <= ReadTo(p) + n
           /\ ParseFrame(b).overrun = FALSE
           /\ \/ ParseFrame(b).opcode = NoFrame
              \/ <<ParseFrame(b).opcode, ParseFrame(b).payload>> = Script[p][k]
<1> DEFINE s == ReadTo(p)
           cut == Cut[p]
           script == Script[p]
           stream == Stream[p]
           l == Len(script)
           f == ParseFrame(b)
<1>1. /\ script \in Seq(Opcodes \X Seq(Bytes)) /\ stream \in Seq(Bytes)
      /\ cut \in [0..l -> 0..Len(stream)]
      /\ \A i, j \in DOMAIN cut : i < j => cut[i] < cut[j]
      /\ Mask \in Masks
      /\ \A k \in DOMAIN script :
           /\ Len(script[k][2]) < Huge
           /\ \E form \in Forms(Len(script[k][2])) :
                SubSeq(stream, cut[k - 1] + 1, cut[k])
                  = ClientFrame(script[k][1], script[k][2], Mask, form)
  BY StreamAssumption
<1>2. /\ sent[p] \in Nat /\ rx[p] \in Seq(Bytes) /\ Len(rx[p]) \in Nat
      /\ Len(rx[p]) <= sent[p]
      /\ \A i \in 1..Len(rx[p]) : rx[p][i] = stream[(sent[p] - Len(rx[p])) + i]
  BY DEF Types, Streamed
<1>3. s \in Nat /\ \A i \in 1..n : b[i] = stream[s + i]
  <2> DEFINE m == Len(rx[p])
  <2>1. s = sent[p] - m /\ m \in Nat /\ m <= sent[p] /\ n <= m
    BY <1>2 DEF ReadTo
  <2>2. \A i \in 1..m : rx[p][i] = stream[s + i]
    BY <1>2, <2>1
  <2> HIDE DEF m, s
  <2>3. s \in Nat
    BY <1>2, <2>1
  <2>4. \A i \in 1..n : i \in 1..m /\ b[i] = rx[p][i]
    BY <2>1
  <2> QED
    BY <2>2, <2>3, <2>4
<1>4. PICK i \in DOMAIN cut, j \in DOMAIN cut : s = cut[i] /\ s + n = cut[j]
  BY DEF Ends
<1> HIDE DEF s, cut, script, stream
<1>5. l \in Nat /\ DOMAIN script = 1..l /\ DOMAIN cut = 0..l
  BY <1>1
<1> HIDE DEF l
<1>6. i \in 0..l /\ j \in 0..l /\ i < j
  <2>1. i \in 0..l /\ j \in 0..l
    BY <1>4, <1>5
  <2>2. cut[i] \in Nat /\ cut[j] \in Nat /\ cut[i] < cut[j]
    BY <1>3, <1>4
  <2>3. ~(j < i) /\ j # i
    BY <1>1, <2>2
  <2> QED
    BY <2>1, <2>3
<1>7. PICK k \in 1..l : k - 1 = i /\ (k = j \/ k < j) /\ k \in 0..l
  <2>1. i + 1 \in 1..l /\ (i + 1) - 1 = i /\ (i + 1 = j \/ i + 1 < j) /\ i + 1 \in 0..l
    BY <1>5, <1>6
  <2> QED
    BY <2>1
<1>8. cut[k - 1] = s /\ cut[k] \in 0..Len(stream) /\ s < cut[k] /\ cut[k] <= s + n
  <2>1. cut[k] \in 0..Len(stream)
    BY <1>1, <1>5, <1>7
  <2>2. i < k
    BY <1>6, <1>7
  <2>3. cut[i] < cut[k]
    BY <1>1, <1>5, <1>6, <1>7, <2>2
  <2>4. CASE k = j
    BY <1>3, <1>4, <1>7, <2>1, <2>3, <2>4
  <2>5. CASE k < j
    <3>1. cut[k] < cut[j]
      BY <1>1, <1>5, <1>6, <1>7, <2>5
    <3> QED
      BY <1>3, <1>4, <1>7, <2>1, <2>3, <3>1
  <2> QED
    BY <1>7, <2>4, <2>5
<1> DEFINE opcode == script[k][1]
           payload == script[k][2]
<1>9. opcode \in Opcodes /\ payload \in Seq(Bytes) /\ script[k] = <<opcode, payload>>
  <2>1. script[k] \in Opcodes \X Seq(Bytes)
    BY <1>1, <1>5, <1>7
  <2> QED
    BY <2>1
<1>10. PICK form \in Forms(Len(payload)) :
         SubSeq(stream, s + 1, cut[k]) = ClientFrame(opcode, payload, Mask, form)
  BY <1>1, <1>5, <1>7, <1>8
<1>11. Len(payload) < Huge
  BY <1>1, <1>5, <1>7
<1> HIDE DEF opcode, payload
<1> DEFINE c == ClientFrame(opcode, payload, Mask, form)
           e == cut[k]
<1> HIDE DEF c, e
<1>12. e \in Nat /\ s < e /\ e <= s + n /\ e <= Len(stream) /\ Len(stream) \in Nat
  BY <1>1, <1>8 DEF e
<1>13. /\ Len(SubSeq(stream, s + 1, e)) = e - s
       /\ \A x \in 1..(e - s) : SubSeq(stream, s + 1, e)[x] = stream[s + x]
  <2>1. s + 1 \in Int /\ e \in Int /\ 1 <= s + 1 /\ s + 1 <= e + 1 /\ e <= Len(stream)
    BY <1>3, <1>12
  <2>2. /\ Len(SubSeq(stream, s + 1, e)) = e - (s + 1) + 1
        /\ \A x \in 1..(e - (s + 1) + 1) : SubSeq(stream, s + 1, e)[x] = stream[(s + 1) + x - 1]
    BY <1>1, <2>1, Slice
  <2>3. e - (s + 1) + 1 = e - s /\ \A x \in 1..(e - s) : (s + 1) + x - 1 = s + x
    BY <1>3, <1>12
  <2> QED
    BY <2>2, <2>3
<1>14. Len(c) = e - s /\ \A x \in 1..(e - s) : c[x] = stream[s + x]
  BY <1>10, <1>13 DEF c, e
<1>15. b \in Seq(Bytes) /\ Len(b) = Size /\ Size \in Nat
  BY WebSocketAssumption DEF Buffers
<1>16. Len(c) <= Len(b) /\ \A x \in 1..Len(c) : b[x] = c[x]
  <2>1. e - s \in Nat /\ e - s <= n /\ e - s <= Len(b)
    BY <1>3, <1>12, <1>15
  <2>2. \A x \in 1..(e - s) : x \in 1..n
    BY <2>1
  <2> QED
    BY <1>3, <1>14, <2>1, <2>2
<1>17. /\ Len(ClientFrame(opcode, payload, Mask, form)) <= Len(b)
       /\ \A x \in 1..Len(ClientFrame(opcode, payload, Mask, form)) :
            b[x] = ClientFrame(opcode, payload, Mask, form)[x]
  BY <1>16 DEF c
<1> HIDE DEF opcode, payload
<1>18. \A o \in Opcodes, y \in Seq(Bytes) : \A g \in Forms(Len(y)) :
         /\ Len(y) < Huge
         /\ Len(ClientFrame(o, y, Mask, g)) <= Len(b)
         /\ \A x \in 1..Len(ClientFrame(o, y, Mask, g)) : b[x] = ClientFrame(o, y, Mask, g)[x]
         => /\ ParseFrame(b).overrun = FALSE
            /\ ParseFrame(b).opcode = NoFrame
               \/ (ParseFrame(b).opcode = o /\ ParseFrame(b).payload = y)
  <2>1. Mask \in Masks
    BY StreamAssumption
  <2> TAKE o \in Opcodes, y \in Seq(Bytes)
  <2> TAKE g \in Forms(Len(y))
  <2> HAVE /\ Len(y) < Huge
           /\ Len(ClientFrame(o, y, Mask, g)) <= Len(b)
           /\ \A x \in 1..Len(ClientFrame(o, y, Mask, g)) : b[x] = ClientFrame(o, y, Mask, g)[x]
  <2> DEFINE at == HeadLen(g) + 4
             z == ParseFrame(b)
  <2>2. z = IF y # <<>> /\ BadMask(Mask)
            THEN [opcode |-> NoFrame, payload |-> <<>>, buffer |-> b, overrun |-> FALSE]
            ELSE [opcode |-> o, payload |-> y, overrun |-> FALSE,
                  buffer |-> IF y = <<>> THEN b
                             ELSE SubSeq(b, 1, at) \o y \o SubSeq(b, at + Len(y) + 1, Len(b))]
    BY <1>15, <2>1, FrameParsed
  <2> HIDE DEF z, at
  <2>3. /\ z.overrun = FALSE
        /\ z.opcode = NoFrame \/ (z.opcode = o /\ z.payload = y)
    BY <2>2
  <2> QED
    BY <2>3 DEF z
<1>19. f.overrun = FALSE /\ (f.opcode = NoFrame \/ (f.opcode = opcode /\ f.payload = payload))
  BY <1>9, <1>10, <1>11, <1>17, <1>18
<1> HIDE DEF f
<1>20. f.overrun = FALSE /\ (f.opcode = NoFrame \/ <<f.opcode, f.payload>> = script[k])
  BY <1>9, <1>19
<1> QED
  BY <1>5, <1>7, <1>8, <1>20 DEF f, s, cut, script

Ordered(p) == \E at \in [DOMAIN heard[p] -> DOMAIN Script[p]] : Matches(p, at)

LEMMA OrderedForm == HeardInOrder <=> \A p \in Peers \ torn : Ordered(p)
BY DEF HeardInOrder, Ordered

(* Reading on leaves what was heard in order.                               *)
LEMMA OrderedKept ==
  ASSUME Types, Types', NEW p \in Peers, Ordered(p),
         heard'[p] = heard[p], ReadTo(p) <= ReadTo(p)'
  PROVE  Ordered(p)'
<1>1. PICK at \in [DOMAIN heard[p] -> DOMAIN Script[p]] : Matches(p, at)
  BY DEF Ordered
<1>2. ReadTo(p) \in Int /\ ReadTo(p)' \in Int
  BY DEF ReadTo, Types
<1>3. ASSUME NEW i \in DOMAIN at
      PROVE  Cut[p][at[i]] <= ReadTo(p)'
  <2>1. at[i] \in DOMAIN Script[p]
    OBVIOUS
  <2>2. Cut[p][at[i]] \in Nat
    <3>1. /\ Script[p] \in Seq(Opcodes \X Seq(Bytes)) /\ Stream[p] \in Seq(Bytes)
          /\ Cut[p] \in [0..Len(Script[p]) -> 0..Len(Stream[p])]
      BY StreamAssumption
    <3>2. at[i] \in 0..Len(Script[p])
      BY <2>1, <3>1
    <3> QED
      BY <3>1, <3>2
  <2>3. Cut[p][at[i]] <= ReadTo(p)
    BY <1>1 DEF Matches, ReadTo
  <2> QED
    BY <1>2, <2>2, <2>3
<1>4. Matches(p, at)'
  BY <1>1, <1>3 DEF Matches, ReadTo
<1> QED
  BY <1>4 DEF Ordered

LEMMA SendOrdered ==
  ASSUME Types, HandsFull, Streamed, HeardInOrder, NEW p \in Peers, Send(p)
  PROVE  HeardInOrder'
<1>1. PICK n \in 1..(Len(Stream[p]) - sent[p]) :
         /\ sent' = [sent EXCEPT ![p] = @ + n]
         /\ rx' = [rx EXCEPT ![p] = @ \o SubSeq(Stream[p], sent[p] + 1, sent[p] + n)]
         /\ UNCHANGED <<heard, torn>>
  BY DEF Send, past
<1>2. Types'
  BY SendTypes
<1>3. ReadTo(p)' = ReadTo(p) /\ ReadTo(p) \in Int
  <2> DEFINE s == sent[p]
             r == rx[p]
             x == SubSeq(Stream[p], s + 1, s + n)
  <2>1. s \in Nat /\ r \in Seq(Bytes) /\ Len(r) \in Nat /\ Stream[p] \in Seq(Bytes)
    BY StreamAssumption DEF Types
  <2>2. x \in Seq(Bytes) /\ Len(x) = n
    <3>1. /\ s + 1 \in Int /\ s + n \in Int /\ 1 <= s + 1 /\ s + 1 <= (s + n) + 1
          /\ s + n <= Len(Stream[p]) /\ (s + n) - (s + 1) + 1 = n
      BY <2>1
    <3>2. x \in Seq(Bytes) /\ Len(x) = (s + n) - (s + 1) + 1
      BY <2>1, <3>1, Slice
    <3> QED
      BY <3>1, <3>2
  <2> HIDE DEF x
  <2>3. Len(r \o x) = Len(r) + n
    BY <2>1, <2>2, Concat
  <2>4. sent'[p] = s + n /\ rx'[p] = r \o x
    BY <1>1 DEF Types, x
  <2>5. (s + n) - (Len(r) + n) = s - Len(r) /\ s - Len(r) \in Int
    BY <2>1
  <2> QED
    BY <2>3, <2>4, <2>5 DEF ReadTo
<1>4. \A q \in Peers : q # p => ReadTo(q)' = ReadTo(q)
  BY <1>1 DEF Types, ReadTo
<1>5. \A q \in Peers : ReadTo(q) \in Int /\ ReadTo(q)' = ReadTo(q)
  BY <1>3, <1>4 DEF Types, ReadTo
<1>6. \A q \in Peers : ReadTo(q) <= ReadTo(q)'
  BY <1>5
<1> SUFFICES ASSUME NEW q \in Peers \ torn'
             PROVE  Ordered(q)'
  BY DEF HeardInOrder, Ordered
<1>7. Ordered(q) /\ heard'[q] = heard[q]
  BY <1>1, OrderedForm
<1> QED
  BY <1>2, <1>6, <1>7, OrderedKept

LEMMA CloseOrdered ==
  ASSUME Types, HandsFull, Streamed, HeardInOrder, NEW w \in Workers, Close(w)
  PROVE  HeardInOrder'
<1>1. /\ hand[w] \in Peers /\ sent' = sent /\ rx' = [rx EXCEPT ![hand[w]] = <<>>]
      /\ UNCHANGED <<heard, torn>>
  BY DEF Close, Return, Goto, HandsFull, past
<1>2. Types'
  BY HandlerTypes
<1>3. \A q \in Peers : ReadTo(q) <= ReadTo(q)'
  <2> TAKE q \in Peers
  <2>1. sent[q] \in Nat /\ Len(rx[q]) \in Nat /\ Len(<<>>) = 0
    BY DEF Types
  <2>2. sent[q] - Len(rx[q]) <= sent[q] - Len(rx[q]) /\ sent[q] - Len(rx[q]) <= sent[q] - 0
    BY <2>1
  <2>3. rx'[q] = rx[q] \/ rx'[q] = <<>>
    BY <1>1 DEF Types
  <2> QED
    BY <1>1, <2>1, <2>2, <2>3 DEF ReadTo
<1> SUFFICES ASSUME NEW q \in Peers \ torn'
             PROVE  Ordered(q)'
  BY DEF HeardInOrder, Ordered
<1>4. Ordered(q) /\ heard'[q] = heard[q]
  BY <1>1, OrderedForm
<1> QED
  BY <1>2, <1>3, <1>4, OrderedKept

(* One more frame, and it is the one behind those that the server has read. *)
LEMMA OrderedMore ==
  ASSUME Types, Types', NEW p \in Peers, Ordered(p), NEW k \in DOMAIN Script[p],
         Cut[p][k - 1] = ReadTo(p), Cut[p][k] <= ReadTo(p)',
         heard'[p] = Append(heard[p], Script[p][k])
  PROVE  Ordered(p)'
<1>1. PICK at \in [DOMAIN heard[p] -> DOMAIN Script[p]] : Matches(p, at)
  BY DEF Ordered
<1> DEFINE h == heard[p]
           l == Len(h)
           cut == Cut[p]
           d == Len(Script[p])
<1>2. /\ h \in Seq(Frames) /\ l \in Nat /\ DOMAIN h = 1..l
      /\ ReadTo(p) \in Int /\ ReadTo(p)' \in Int
  BY DEF Types, ReadTo
<1>3. /\ d \in Nat /\ DOMAIN Script[p] = 1..d /\ Len(Stream[p]) \in Nat
      /\ cut \in [0..d -> 0..Len(Stream[p])]
      /\ \A i, j \in 0..d : i < j => cut[i] < cut[j]
  <2>1. /\ Script[p] \in Seq(Opcodes \X Seq(Bytes)) /\ Stream[p] \in Seq(Bytes)
        /\ cut \in [0..d -> 0..Len(Stream[p])]
        /\ \A i, j \in DOMAIN cut : i < j => cut[i] < cut[j]
    BY StreamAssumption
  <2>2. DOMAIN cut = 0..d
    BY <2>1
  <2> HIDE DEF cut
  <2> QED
    BY <2>1, <2>2
<1>4. /\ at \in [1..l -> 1..d] /\ k \in 1..d
      /\ \A i, j \in 1..l : i < j => at[i] < at[j]
      /\ \A i \in 1..l : h[i] = Script[p][at[i]] /\ cut[at[i]] <= ReadTo(p)
  BY <1>1, <1>2, <1>3 DEF Matches, ReadTo
<1>5. \A x \in 1..d : x \in 0..d /\ x - 1 \in 0..d
  BY <1>3
<1>6. /\ Len(heard'[p]) = l + 1 /\ DOMAIN heard'[p] = 1..(l + 1)
      /\ \A i \in 1..l : heard'[p][i] = h[i]
      /\ heard'[p][l + 1] = Script[p][k]
  <2>1. Script[p][k] \in Frames
    BY StreamAssumption DEF Frames
  <2> QED
    BY <1>2, <2>1
<1> HIDE DEF h, l, cut, d
<1>7. cut[k - 1] = ReadTo(p) /\ cut[k] <= ReadTo(p)'
  BY DEF cut
<1>8. ReadTo(p) <= ReadTo(p)'
  <2>1. k - 1 \in 0..d /\ k \in 0..d /\ k - 1 < k
    BY <1>3, <1>4
  <2>2. cut[k - 1] < cut[k] /\ cut[k] \in Nat /\ cut[k - 1] \in Nat
    BY <1>3, <2>1
  <2> QED
    BY <1>2, <1>7, <2>2
<1>9. \A i \in 1..l : at[i] < k
  <2> TAKE i \in 1..l
  <2>1. at[i] \in 0..d /\ at[i] \in 1..d /\ k - 1 \in 0..d
    BY <1>4, <1>5
  <2>2. cut[at[i]] \in Nat /\ cut[k - 1] \in Nat /\ cut[at[i]] <= cut[k - 1]
    BY <1>3, <1>4, <1>7, <2>1
  <2>3. ~(k - 1 < at[i])
    BY <1>3, <2>1, <2>2
  <2> QED
    BY <1>3, <1>4, <2>1, <2>3
<1>10. PICK new \in [1..(l + 1) -> 1..d] : \A i \in 1..(l + 1) : new[i] = IF i <= l THEN at[i] ELSE k
  <2>1. \A i \in 1..(l + 1) : i <= l => i \in 1..l
    BY <1>2
  <2>2. [i \in 1..(l + 1) |-> IF i <= l THEN at[i] ELSE k] \in [1..(l + 1) -> 1..d]
    BY <1>4, <2>1
  <2> QED
    BY <2>2
<1>11. \A i \in 1..l : new[i] = at[i] /\ i \in 1..(l + 1)
  BY <1>2, <1>10
<1>12. new[l + 1] = k /\ DOMAIN new = 1..(l + 1) /\ \A i \in 1..(l + 1) : i \in 1..l \/ i = l + 1
  BY <1>2, <1>10
<1>13. \A i, j \in DOMAIN new : i < j => new[i] < new[j]
  <2> SUFFICES ASSUME NEW i \in 1..(l + 1), NEW j \in 1..(l + 1), i < j
               PROVE  new[i] < new[j]
    BY <1>12
  <2>1. i \in 1..l
    BY <1>2
  <2>2. CASE j \in 1..l
    BY <1>4, <1>11, <2>1, <2>2
  <2>3. CASE j = l + 1
    BY <1>9, <1>11, <1>12, <2>1, <2>3
  <2> QED
    BY <1>12, <2>2, <2>3
<1>14. ASSUME NEW i \in DOMAIN new
       PROVE  heard'[p][i] = Script[p][new[i]] /\ cut[new[i]] <= ReadTo(p)'
  <2>1. CASE i \in 1..l
    <3>1. heard'[p][i] = Script[p][new[i]]
      BY <1>4, <1>6, <1>11, <2>1
    <3>2. cut[at[i]] <= ReadTo(p) /\ at[i] \in 0..d
      BY <1>4, <1>5, <2>1
    <3>3. cut[at[i]] \in Nat
      BY <1>3, <3>2
    <3>4. cut[new[i]] <= ReadTo(p)'
      BY <1>2, <1>8, <1>11, <2>1, <3>2, <3>3
    <3> QED
      BY <3>1, <3>4
  <2>2. CASE i = l + 1
    BY <1>6, <1>7, <1>12, <2>2
  <2> QED
    BY <1>12, <2>1, <2>2
<1>15. Matches(p, new)'
  BY <1>13, <1>14 DEF Matches, ReadTo, cut
<1> QED
  BY <1>3, <1>6, <1>10, <1>15 DEF Ordered

LEMMA ReceiveOrdered ==
  ASSUME Types, HandsFull, Streamed, HeardInOrder, NEW w \in Workers, ReceiveFrame(w)
  PROVE  HeardInOrder' /\ (alive' \/ torn' # {})
<1>1. PICK p \in Peers, n \in Nat \ {0}, b \in Buffers : Received(w, p, n, b)
  BY ReceiveFacts
<1>2. Types'
  BY ReceiveTypes
<1> DEFINE f == ParseFrame(b)
<1>3. /\ n <= Len(rx[p]) /\ n <= Size /\ \A i \in 1..n : b[i] = rx[p][i]
      /\ sent' = sent /\ rx' = [rx EXCEPT ![p] = SubSeq(rx[p], n + 1, Len(rx[p]))]
      /\ torn' = IF {ReadTo(p), ReadTo(p) + n} \subseteq Ends[p] THEN torn ELSE torn \cup {p}
      /\ alive' = ~f.overrun
      /\ heard' = IF f.opcode = NoFrame THEN heard
                  ELSE [heard EXCEPT ![p] = Append(heard[p], <<f.opcode, f.payload>>)]
  BY <1>1 DEF Received, ReadTo
<1> HIDE DEF f
<1>4. p \in torn' \/ {ReadTo(p), ReadTo(p) + n} \subseteq Ends[p]
  BY <1>3
<1>5. ReadTo(p)' = ReadTo(p) + n /\ ReadTo(p) \in Int
  <2>1. sent[p] \in Nat /\ rx[p] \in Seq(Bytes) /\ Len(rx[p]) \in Nat
    BY DEF Types
  <2>2. rx'[p] = SubSeq(rx[p], n + 1, Len(rx[p]))
    BY <1>3 DEF Types
  <2>3. n + 1 \in Int /\ 1 <= n + 1 /\ n + 1 <= Len(rx[p]) + 1 /\ Len(rx[p]) \in Int
        /\ Len(rx[p]) <= Len(rx[p])
    BY <1>3, <2>1
  <2>4. Len(SubSeq(rx[p], n + 1, Len(rx[p]))) = Len(rx[p]) - (n + 1) + 1
    BY <2>1, <2>3, Slice
  <2>5. Len(rx'[p]) = Len(rx[p]) - n
    BY <2>1, <2>2, <2>4
  <2> QED
    BY <1>3, <2>1, <2>5 DEF ReadTo
<1>6. {ReadTo(p), ReadTo(p) + n} \subseteq Ends[p] =>
        \E k \in DOMAIN Script[p] :
          /\ Cut[p][k - 1] = ReadTo(p) /\ Cut[p][k] <= ReadTo(p) + n
          /\ f.overrun = FALSE
          /\ f.opcode = NoFrame \/ <<f.opcode, f.payload>> = Script[p][k]
  BY <1>3, FrameAt DEF f
<1>7. alive' \/ torn' # {}
  BY <1>3, <1>4, <1>6
<1>8. \A q \in Peers : q # p => ReadTo(q)' = ReadTo(q) /\ ReadTo(q) \in Int /\ heard'[q] = heard[q]
  BY <1>3 DEF ReadTo, Types
<1>9. HeardInOrder'
  <2> SUFFICES ASSUME NEW q \in Peers \ torn'
               PROVE  Ordered(q)'
    BY DEF HeardInOrder, Ordered
  <2>1. q \notin torn
    BY <1>3
  <2>2. Ordered(q)
    BY <2>1, OrderedForm
  <2>3. CASE q # p
    <3>1. ReadTo(q) <= ReadTo(q)' /\ heard'[q] = heard[q]
      BY <1>8, <2>3
    <3> QED
      BY <1>2, <2>2, <3>1, OrderedKept
  <2>4. CASE q = p
    <3>1. PICK k \in DOMAIN Script[p] :
            /\ Cut[p][k - 1] = ReadTo(p) /\ Cut[p][k] <= ReadTo(p) + n
            /\ f.overrun = FALSE
            /\ f.opcode = NoFrame \/ <<f.opcode, f.payload>> = Script[p][k]
      BY <1>4, <1>6, <2>4
    <3>2. CASE f.opcode = NoFrame
      <4>1. heard'[p] = heard[p] /\ ReadTo(p) <= ReadTo(p)'
        BY <1>3, <1>5, <3>2
      <4> QED
        BY <1>2, <2>2, <2>4, <4>1, OrderedKept
    <3>3. CASE f.opcode # NoFrame
      <4>1. <<f.opcode, f.payload>> = Script[p][k]
        BY <3>1, <3>3
      <4>2. heard'[p] = Append(heard[p], Script[p][k])
        BY <1>3, <3>3, <4>1 DEF Types
      <4>3. Cut[p][k] <= ReadTo(p)'
        BY <1>5, <3>1
      <4> QED
        BY <1>2, <2>2, <2>4, <3>1, <4>2, <4>3, OrderedMore
    <3> QED
      BY <3>2, <3>3
  <2> QED
    BY <2>3, <2>4
<1> QED
  BY <1>7, <1>9

LEMMA OrderedNext ==
  ASSUME Types, HandsFull, Streamed, HeardInOrder, alive \/ torn # {}, [Next]_vars
  PROVE  HeardInOrder' /\ (alive' \/ torn' # {})
<1>1. CASE Quiet
  BY <1>1, QuietFacts DEF HeardInOrder, Matches
<1>2. ASSUME NEW p \in Peers, Send(p)
      PROVE  HeardInOrder' /\ (alive' \/ torn' # {})
  <2>1. UNCHANGED <<alive, torn>>
    BY <1>2 DEF Send, past
  <2> QED
    BY <1>2, <2>1, SendOrdered
<1>3. ASSUME NEW w \in Workers, Close(w)
      PROVE  HeardInOrder' /\ (alive' \/ torn' # {})
  <2>1. UNCHANGED <<alive, torn>>
    BY <1>3 DEF Close, past
  <2> QED
    BY <1>3, <2>1, CloseOrdered
<1> QED
  BY <1>1, <1>2, <1>3, NextForm, ReceiveOrdered
------------------------------------------------------------------------------
(* No answer without a frame.                                               *)
AnsweredOf(p) == Len(heard[p]) >= Len(got[p]) + Cardinality(Answering(p))

LEMMA AnsweredForm == Answered <=> \A p \in Peers : AnsweredOf(p)
BY DEF Answered, AnsweredOf

(* How the answers may come and go.                                         *)
LEMMA AnsweredMoves ==
  ASSUME Types, Types', NEW p \in Peers, AnsweredOf(p), NEW w \in Workers,
         \/ /\ Answering(p)' \subseteq Answering(p)
            /\ Len(heard'[p]) >= Len(heard[p]) /\ got'[p] = got[p]
         \/ /\ Answering(p)' \subseteq Answering(p) \cup {w}
            /\ Len(heard'[p]) = Len(heard[p]) + 1 /\ got'[p] = got[p]
         \/ /\ w \in Answering(p) /\ Answering(p)' \subseteq Answering(p) \ {w}
            /\ heard'[p] = heard[p] /\ Len(got'[p]) = Len(got[p]) + 1
  PROVE  AnsweredOf(p)'
<1>1. PICK old \in SUBSET Workers, new \in SUBSET Workers :
        old = Answering(p) /\ new = Answering(p)'
  BY DEF Answering
<1>2. IsFiniteSet(Workers) /\ IsFiniteSet(old)
  BY WebSocketAssumption, FS_Subset
<1>3. Cardinality(old) \in Nat
  BY <1>2, FS_CardinalityType
<1>4. /\ Len(heard[p]) \in Nat /\ Len(heard'[p]) \in Nat
      /\ Len(got[p]) \in Nat /\ Len(got'[p]) \in Nat
  BY DEF Types
<1>5. Len(heard[p]) >= Len(got[p]) + Cardinality(old)
  BY <1>1 DEF AnsweredOf
<1> SUFFICES Len(heard'[p]) >= Len(got'[p]) + Cardinality(new)
  BY <1>1 DEF AnsweredOf
<1>6. CASE /\ new \subseteq old
           /\ Len(heard'[p]) >= Len(heard[p]) /\ got'[p] = got[p]
  <2>1. Cardinality(new) <= Cardinality(old) /\ IsFiniteSet(new)
    BY <1>2, <1>6, FS_Subset
  <2>2. Cardinality(new) \in Nat
    BY <2>1, FS_CardinalityType
  <2> QED
    BY <1>3, <1>4, <1>5, <1>6, <2>1, <2>2
<1>7. CASE /\ new \subseteq old \cup {w}
           /\ Len(heard'[p]) = Len(heard[p]) + 1 /\ got'[p] = got[p]
  <2> DEFINE more == old \cup {w}
  <2>1. /\ IsFiniteSet(more)
        /\ Cardinality(more) = Cardinality(old) \/ Cardinality(more) = Cardinality(old) + 1
    BY <1>2, FS_AddElement
  <2> HIDE DEF more
  <2>2. Cardinality(new) <= Cardinality(more) /\ IsFiniteSet(new)
    BY <1>7, <2>1, FS_Subset DEF more
  <2>3. Cardinality(new) \in Nat
    BY <2>2, FS_CardinalityType
  <2> QED
    BY <1>3, <1>4, <1>5, <1>7, <2>1, <2>2, <2>3
<1>8. CASE /\ w \in old /\ new \subseteq old \ {w}
           /\ heard'[p] = heard[p] /\ Len(got'[p]) = Len(got[p]) + 1
  <2> DEFINE less == old \ {w}
  <2>1. IsFiniteSet(less) /\ Cardinality(less) = Cardinality(old) - 1
    BY <1>2, <1>8, FS_RemoveElement
  <2> HIDE DEF less
  <2>2. Cardinality(new) <= Cardinality(less) /\ IsFiniteSet(new)
    BY <1>8, <2>1, FS_Subset DEF less
  <2>3. Cardinality(new) \in Nat
    BY <2>2, FS_CardinalityType
  <2> QED
    BY <1>3, <1>4, <1>5, <1>8, <2>1, <2>2, <2>3
<1> QED
  BY <1>1, <1>6, <1>7, <1>8

LEMMA ReceiveAnswered ==
  ASSUME Types, HandsFull, Answered, NEW w \in Workers, ReceiveFrame(w)
  PROVE  Answered'
<1>1. PICK p \in Peers, n \in Nat \ {0}, b \in Buffers : Received(w, p, n, b)
  BY ReceiveFacts
<1>2. Types'
  BY ReceiveTypes
<1> DEFINE f == ParseFrame(b)
<1>3. /\ p = hand[w]
      /\ wpc' = [wpc EXCEPT ![w] = IF f.opcode \in {NoFrame, CLOSE} THEN "close" ELSE "reply"]
      /\ heard' = IF f.opcode = NoFrame THEN heard
                  ELSE [heard EXCEPT ![p] = Append(heard[p], <<f.opcode, f.payload>>)]
      /\ UNCHANGED <<hand, got>>
  BY <1>1 DEF Received
<1> HIDE DEF f
<1>4. heard[p] \in Seq(Frames) /\ heard'[p] \in Seq(Frames)
  BY <1>2 DEF Types
<1>5. \/ heard'[p] = heard[p] /\ wpc'[w] # "reply"
      \/ heard'[p] = Append(heard[p], <<f.opcode, f.payload>>)
  BY <1>3 DEF Types
<1>6. \A v \in Workers : v # w => wpc'[v] = wpc[v]
  BY <1>3 DEF Types
<1> SUFFICES ASSUME NEW q \in Peers
             PROVE  AnsweredOf(q)'
  BY DEF Answered, AnsweredOf
<1>7. AnsweredOf(q) /\ got'[q] = got[q] /\ Len(heard[q]) \in Nat
  BY <1>3, AnsweredForm DEF Types
<1>8. CASE q # p
  <2>1. heard'[q] = heard[q]
    BY <1>3, <1>8 DEF Types
  <2>2. Answering(q)' \subseteq Answering(q)
    BY <1>3, <1>6, <1>8 DEF Answering
  <2> QED
    BY <1>2, <1>7, <2>1, <2>2, AnsweredMoves
<1>9. CASE q = p /\ heard'[p] = heard[p] /\ wpc'[w] # "reply"
  <2>1. Answering(q)' \subseteq Answering(q)
    BY <1>3, <1>6, <1>9 DEF Answering
  <2> QED
    BY <1>2, <1>7, <1>9, <2>1, AnsweredMoves
<1>10. CASE q = p /\ heard'[p] = Append(heard[p], <<f.opcode, f.payload>>)
  <2>1. Answering(q)' \subseteq Answering(q) \cup {w}
    BY <1>3, <1>6 DEF Answering
  <2>2. Len(heard'[q]) = Len(heard[q]) + 1
    BY <1>4, <1>10
  <2> QED
    BY <1>2, <1>7, <2>1, <2>2, AnsweredMoves
<1> QED
  BY <1>5, <1>8, <1>9, <1>10

LEMMA ReplyAnswered ==
  ASSUME Types, HandsFull, Answered, NEW w \in Workers, Reply(w)
  PROVE  Answered'
<1>1. Types'
  BY ReplyTypes
<1>2. hand[w] \in Peers /\ w \in Answering(hand[w])
  BY DEF Reply, Return, Goto, HandsFull, Answering
<1> DEFINE x == PeerReads(SendFrame(buf[w], reply[w][2], reply[w][1]).bytes)
<1>3. /\ wpc' = [wpc EXCEPT ![w] = "pop"] /\ hand' = [hand EXCEPT ![w] = NoPeer]
      /\ got' = [got EXCEPT ![hand[w]] = Append(got[hand[w]], x)]
      /\ heard' = heard
  BY DEF Reply, Return, Goto
<1> HIDE DEF x
<1>4. wpc'[w] = "pop" /\ \A v \in Workers : v # w => wpc'[v] = wpc[v] /\ hand'[v] = hand[v]
  BY <1>3 DEF Types
<1>5. \A q \in Peers : Answering(q)' \subseteq Answering(q) /\ w \notin Answering(q)'
  BY <1>4 DEF Answering
<1> SUFFICES ASSUME NEW q \in Peers
             PROVE  AnsweredOf(q)'
  BY DEF Answered, AnsweredOf
<1>6. AnsweredOf(q) /\ heard'[q] = heard[q] /\ Len(heard[q]) \in Nat
  BY <1>3, AnsweredForm DEF Types
<1>7. CASE q # hand[w]
  <2>1. got'[q] = got[q]
    BY <1>2, <1>3, <1>7 DEF Types
  <2> QED
    BY <1>1, <1>5, <1>6, <2>1, AnsweredMoves
<1>8. CASE q = hand[w]
  <2>1. got'[q] = Append(got[q], x) /\ got[q] \in Seq(Read) /\ got'[q] \in Seq(Read)
    BY <1>1, <1>3, <1>8 DEF Types
  <2>2. Len(got'[q]) = Len(got[q]) + 1
    BY <2>1
  <2>3. Answering(q)' \subseteq Answering(q) \ {w}
    BY <1>5
  <2> QED
    BY <1>1, <1>2, <1>6, <1>8, <2>2, <2>3, AnsweredMoves
<1> QED
  BY <1>7, <1>8

LEMMA AnsweredNext ==
  ASSUME Types, HandsFull, Answered, [Next]_vars
  PROVE  Answered'
<1>1. CASE UNCHANGED <<wpc, hand, heard, got>>
  BY <1>1 DEF Answered, Answering
<1>2. UNCHANGED vars => UNCHANGED <<wpc, hand, heard, got>>
  BY DEF vars, work, past
<1>3. \A p \in Peers : Send(p) \/ Fin(p) \/ Report(p) => UNCHANGED <<wpc, hand, heard, got>>
  BY DEF Send, Fin, Report, work, past
<1>4. ASSUME NEW w \in Workers,
             \/ Pop(w) \/ Hello(w) \/ EpollAdd(w) \/ EpollAddFails(w)
             \/ ReceiveNothing(w) \/ ReplyFails(w) \/ Close(w)
      PROVE  Answered'
  <2>1. Types'
    BY <1>4, PopTypes, HandlerTypes, ReplyTypes
  <2>2. UNCHANGED <<heard, got>>
    BY <1>4 DEF Pop, Hello, EpollAdd, EpollAddFails, ReceiveNothing, ReplyFails, Close, past
  <2>3. \E to \in {"pop", "hello", "add", "read", "close"} : wpc' = [wpc EXCEPT ![w] = to]
    <3>1. Pop(w) => \E to \in {"hello", "read"} : wpc' = [wpc EXCEPT ![w] = to]
      BY DEF Pop, Goto
    <3>2. Hello(w) \/ EpollAddFails(w) \/ ReceiveNothing(w) \/ ReplyFails(w) =>
            \E to \in {"add", "close"} : wpc' = [wpc EXCEPT ![w] = to]
      BY DEF Hello, EpollAddFails, ReceiveNothing, ReplyFails, Goto
    <3>3. EpollAdd(w) \/ Close(w) => wpc' = [wpc EXCEPT ![w] = "pop"]
      BY DEF EpollAdd, Close, Return, Goto
    <3> QED
      BY <1>4, <3>1, <3>2, <3>3
  <2>4. hand' = hand \/ \E x : hand' = [hand EXCEPT ![w] = x]
    <3>1. Hello(w) \/ EpollAddFails(w) \/ ReceiveNothing(w) \/ ReplyFails(w) =>
            hand' = hand
      BY DEF Hello, EpollAddFails, ReceiveNothing, ReplyFails
    <3>2. EpollAdd(w) \/ Close(w) => hand' = [hand EXCEPT ![w] = NoPeer]
      BY DEF EpollAdd, Close, Return
    <3>3. Pop(w) => hand' = [hand EXCEPT ![w] = Head(queue)]
      BY DEF Pop
    <3> QED
      BY <1>4, <3>1, <3>2, <3>3
  <2>5. /\ wpc'[w] # "reply"
        /\ \A v \in Workers : v # w => wpc'[v] = wpc[v] /\ hand'[v] = hand[v]
    BY <2>3, <2>4 DEF Types
  <2>6. \A q \in Peers : Answering(q)' \subseteq Answering(q)
    BY <2>5 DEF Answering
  <2>7. \A q \in Peers : AnsweredOf(q) /\ Len(heard[q]) \in Nat
    BY AnsweredForm DEF Types
  <2>8. \A q \in Peers : Len(heard'[q]) >= Len(heard[q]) /\ got'[q] = got[q]
    BY <2>2, <2>7
  <2>9. \A q \in Peers : AnsweredOf(q)'
    BY <2>1, <2>6, <2>7, <2>8, AnsweredMoves
  <2> QED
    BY <2>9 DEF Answered, AnsweredOf
<1> QED
  BY <1>1, <1>2, <1>3, <1>4, ReceiveAnswered, ReplyAnswered DEF Next, Worker
------------------------------------------------------------------------------
(* The invariant: it holds at first, every step keeps it, and it implies    *)
(* what is to be shown.                                                     *)
LEMMA IInvInit == Init => IInv
<1> SUFFICES ASSUME Init PROVE IInv
  OBVIOUS
<1>1. Types /\ HandsFull
  BY TypesInit
<1>2. \A p \in Peers : /\ sent[p] = 0 /\ rx[p] = <<>> /\ heard[p] = <<>> /\ got[p] = <<>>
                       /\ phase[p] = "http"
  BY DEF Init
<1>3. Len(<<>>) = 0 /\ DOMAIN <<>> = {} /\ 1..0 = {}
  OBVIOUS
<1>4. Streamed
  <2>1. \A p \in Peers : Len(Stream[p]) \in Nat
    BY StreamAssumption
  <2>2. \A p \in Peers : sent[p] = 0 /\ Len(rx[p]) = 0 /\ 0 <= Len(Stream[p])
    BY <1>2, <1>3, <2>1
  <2> QED
    BY <1>3, <2>2 DEF Streamed
<1>5. Answered
  <2>1. \A p \in Peers : Answering(p) = {}
    BY DEF Init, Answering
  <2>2. Cardinality({}) = 0
    BY FS_EmptySet
  <2>3. \A p \in Peers : Len(heard[p]) = 0 /\ Len(got[p]) = 0
    BY <1>2, <1>3
  <2>4. \A p \in Peers : Cardinality(Answering(p)) = 0
    BY <2>1, <2>2
  <2>5. 0 >= 0 + 0
    OBVIOUS
  <2> QED
    BY <2>3, <2>4, <2>5 DEF Answered
<1>6. HeardInOrder
  <2> SUFFICES ASSUME NEW p \in Peers
               PROVE  \E at \in [DOMAIN heard[p] -> DOMAIN Script[p]] : Matches(p, at)
    BY DEF HeardInOrder
  <2>1. DOMAIN heard[p] = {}
    BY <1>2, <1>3
  <2>2. PICK at : at = [i \in {} |-> 0]
    OBVIOUS
  <2>3. at \in [DOMAIN heard[p] -> DOMAIN Script[p]] /\ DOMAIN at = {}
    BY <2>1, <2>2
  <2> QED
    BY <2>3 DEF Matches
<1>7. NothingStranded
  BY <1>2 DEF NothingStranded, InEpoll
<1>8. alive
  BY DEF Init
<1>9. GreetedOnce
  <2>1. queue = <<>> /\ fin = {} /\ \A w \in Workers : wpc[w] = "pop"
    BY DEF Init
  <2>2. \A i \in 1..Len(queue) : FALSE
    BY <1>3, <2>1
  <2> QED
    BY <1>2, <2>1, <2>2 DEF GreetedOnce, Greets, Serves, Silent, InLine, InHand
<1> QED
  BY <1>1, <1>4, <1>5, <1>6, <1>7, <1>8, <1>9 DEF IInv

LEMMA IInvNext == IInv /\ [Next]_vars => IInv'
<1> SUFFICES ASSUME IInv, [Next]_vars PROVE IInv'
  OBVIOUS
<1>1. /\ Types /\ HandsFull /\ GreetedOnce /\ Streamed /\ Answered
      /\ HeardInOrder /\ NothingStranded /\ (alive \/ torn # {})
  BY DEF IInv
<1>2. Types' /\ HandsFull'
  BY <1>1, TypesNext
<1>3. GreetedOnce' /\ Streamed' /\ Answered' /\ NothingStranded'
  BY <1>1, GreetedNext, StreamedNext, AnsweredNext, WatchedNext
<1>4. HeardInOrder' /\ (alive' \/ torn' # {})
  BY <1>1, OrderedNext
<1> QED
  BY <1>2, <1>3, <1>4 DEF IInv

LEMMA IInvTypes == IInv => TypeOK
<1> SUFFICES ASSUME IInv PROVE TypeOK
  OBVIOUS
<1>1. Types /\ Streamed /\ Answered
  BY DEF IInv
<1>2. ASSUME NEW p \in Peers
      PROVE  /\ sent[p] \in 0..Len(Stream[p])
             /\ rx[p] \in Seq(Bytes)
             /\ heard[p] \in Seq(Opcodes \X Seq(Bytes))
             /\ Len(heard[p]) >= Len(got[p])
  <2>1. sent[p] \in Nat /\ sent[p] <= Len(Stream[p]) /\ Len(Stream[p]) \in Nat
    BY <1>1, StreamAssumption DEF Types, Streamed
  <2>2. rx[p] \in Seq(Bytes) /\ heard[p] \in Seq(Opcodes \X Seq(Bytes))
    BY <1>1 DEF Types, Frames
  <2>3. Cardinality(Answering(p)) \in Nat
    <3>1. IsFiniteSet(Workers) /\ Answering(p) \in SUBSET Workers
      BY WebSocketAssumption DEF Answering
    <3>2. IsFiniteSet(Answering(p))
      BY <3>1, FS_Subset
    <3> QED
      BY <3>2, FS_CardinalityType
  <2>4. Len(heard[p]) \in Nat /\ Len(got[p]) \in Nat
    BY <1>1 DEF Types
  <2>5. Len(heard[p]) >= Len(got[p]) + Cardinality(Answering(p))
    BY <1>1 DEF Answered
  <2> QED
    BY <2>1, <2>2, <2>3, <2>4, <2>5
<1>3. \A w \in Workers : Len(buf[w]) = Size /\ Range(buf[w]) \subseteq Bytes
  <2> TAKE w \in Workers
  <2>1. buf[w] \in Seq(Bytes) /\ Len(buf[w]) = Size
    BY <1>1 DEF Types, Buffers
  <2>2. \A i \in DOMAIN buf[w] : buf[w][i] \in Bytes
    BY <2>1
  <2> QED
    BY <2>1, <2>2 DEF Range
<1> QED
  BY <1>1, <1>2, <1>3 DEF TypeOK, Types

LEMMA IInvHeard == IInv => FramesHeardWereSent
<1> SUFFICES ASSUME IInv PROVE FramesHeardWereSent
  OBVIOUS
<1>1. Types /\ Streamed /\ HeardInOrder /\ (alive \/ torn # {})
  BY DEF IInv
<1>2. ASSUME NEW p \in Peers \ torn
      PROVE  \E at \in [DOMAIN heard[p] -> 1..FramesSent(p)] :
               /\ \A i, j \in DOMAIN at : i < j => at[i] < at[j]
               /\ \A i \in DOMAIN at : heard[p][i] = Script[p][at[i]]
  <2> DEFINE d == Len(Script[p])
             cut == Cut[p]
             whole == {n \in DOMAIN Script[p] : cut[n] <= sent[p]}
  <2>1. PICK at \in [DOMAIN heard[p] -> DOMAIN Script[p]] : Matches(p, at)
    BY <1>1 DEF HeardInOrder
  <2>2. /\ d \in Nat /\ DOMAIN Script[p] = 1..d /\ Len(Stream[p]) \in Nat
        /\ cut \in [0..d -> 0..Len(Stream[p])]
        /\ \A i, j \in 0..d : i < j => cut[i] < cut[j]
    <3>1. /\ Script[p] \in Seq(Opcodes \X Seq(Bytes)) /\ Stream[p] \in Seq(Bytes)
          /\ cut \in [0..d -> 0..Len(Stream[p])]
          /\ \A i, j \in DOMAIN cut : i < j => cut[i] < cut[j]
      BY StreamAssumption
    <3>2. DOMAIN cut = 0..d
      BY <3>1
    <3> HIDE DEF cut
    <3> QED
      BY <3>1, <3>2
  <2>3. sent[p] \in Nat /\ Len(rx[p]) \in Nat /\ Len(rx[p]) <= sent[p]
    BY <1>1 DEF Types, Streamed
  <2> HIDE DEF d, cut
  <2>4. whole \in SUBSET (1..d) /\ IsFiniteSet(whole)
    <3>1. IsFiniteSet(1..d)
      BY <2>2, FS_Interval
    <3>2. whole \in SUBSET (1..d)
      BY <2>2
    <3> QED
      BY <3>1, <3>2, FS_Subset
  <2>5. Cardinality(whole) \in Nat
    BY <2>4, FS_CardinalityType
  <2>6. ASSUME NEW i \in DOMAIN at
        PROVE  at[i] \in 1..Cardinality(whole)
    <3>1. at[i] \in 1..d /\ at[i] \in 0..d /\ cut[at[i]] <= sent[p] - Len(rx[p])
      BY <2>1, <2>2 DEF Matches, cut
    <3>2. cut[at[i]] \in Nat /\ cut[at[i]] <= sent[p]
      <4>1. cut[at[i]] \in Nat
        BY <2>2, <3>1
      <4> QED
        BY <2>3, <3>1, <4>1
    <3>3. 1..at[i] \in SUBSET whole
      <4> SUFFICES ASSUME NEW n \in 1..at[i]
                   PROVE  n \in whole
        OBVIOUS
      <4>1. n \in 1..d /\ n \in 0..d /\ (n = at[i] \/ n < at[i])
        BY <2>2, <3>1
      <4>2. cut[n] \in Nat /\ cut[n] <= cut[at[i]]
        BY <2>2, <3>1, <3>2, <4>1
      <4>3. cut[n] <= sent[p]
        BY <2>3, <3>2, <4>2
      <4> QED
        BY <2>2, <4>1, <4>3
    <3>4. Cardinality(1..at[i]) = at[i] /\ at[i] \in Nat
      <4>1. 1 \in Int /\ at[i] \in Int /\ ~(1 > at[i]) /\ at[i] - 1 + 1 = at[i]
        BY <3>1
      <4>2. Cardinality(1..at[i]) = IF 1 > at[i] THEN 0 ELSE at[i] - 1 + 1
        BY <4>1, FS_Interval
      <4> QED
        BY <3>1, <4>1, <4>2
    <3>5. at[i] <= Cardinality(whole)
      BY <2>4, <3>3, <3>4, FS_Subset
    <3> QED
      BY <2>5, <3>1, <3>5
  <2>7. FramesSent(p) = Cardinality(whole)
    BY DEF FramesSent, cut
  <2>8. at \in [DOMAIN heard[p] -> 1..FramesSent(p)]
    BY <2>6, <2>7
  <2>9. /\ \A i, j \in DOMAIN at : i < j => at[i] < at[j]
        /\ \A i \in DOMAIN at : heard[p][i] = Script[p][at[i]]
    BY <2>1 DEF Matches
  <2> QED
    BY <2>8, <2>9
<1> QED
  BY <1>1, <1>2 DEF FramesHeardWereSent

(* In every reachable state of any number of sessions and workers, the      *)
(* inductive invariant holds.                                               *)
THEOREM Invariance == Spec => []IInv
<1>1. Init => IInv
  BY IInvInit
<1>2. IInv /\ [Next]_vars => IInv'
  BY IInvNext
<1> QED
  BY <1>1, <1>2, PTL DEF Spec

(* The state keeps its types: a worker's buffer stays of its size and holds *)
(* bytes, what the parser makes of them is a frame, and no session is sent  *)
(* more answers than frames were heard from it.                             *)
THEOREM TypeCorrect == Spec => []TypeOK
<1>1. IInv => TypeOK
  BY IInvTypes
<1> QED
  BY <1>1, Invariance, PTL

(* receive_frame() makes of a session of whole frames only frames that its  *)
(* peer sent, each one once and in order, for any script, mask and form of  *)
(* length, although frames are dropped, the buffers hold those of other     *)
(* sessions and any number of workers read at once; and memory behind a     *)
(* buffer is unmasked only when some frame came in pieces.                  *)
THEOREM FramesHeardCorrect == Spec => []FramesHeardWereSent
<1>1. IInv => FramesHeardWereSent
  BY IInvHeard
<1> QED
  BY <1>1, Invariance, PTL

(* Whether the event loop registers a connection when it accepts it or a    *)
(* worker does after the 101, and whether or not that second epoll_ctl() is  *)
(* refused: with EPOLLET, one read per event and no rearming, no session     *)
(* that epoll knows is lost, but one whose last read took only a part of     *)
(* what there was.                                                          *)
THEOREM NothingIsStranded == Spec => []NothingStranded
<1>1. IInv => NothingStranded
  BY DEF IInv
<1> QED
  BY <1>1, Invariance, PTL
==============================================================================
