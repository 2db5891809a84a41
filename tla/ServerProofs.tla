----------------------------- MODULE ServerProofs -----------------------------
(***************************************************************************)
(* Proofs about Server for any connections, descriptors and workers: types, *)
(* and that neither an edge of a connection nor one of the listening socket *)
(* is lost between epoll, the loop, the queue and the workers; and, when    *)
(* every client sends one request and waits for the close, that no worker   *)
(* serves another's connection.                                             *)
(***************************************************************************)
EXTENDS Server, TLAPS

(* A worker is inside its handler exactly while it has an event in hand.    *)
HandsFull == \A w \in Workers : hand[w] = NoEvent <=> wpc[w] = "pop"

(* epoll_wait() is called only when everything it gave before is handled.   *)
BatchHandled == lpc = "wait" => batch = {}

(* A response is written for somebody's request.                            *)
Asked ==
  \A w \in Workers :
    wpc[w] \in {"head", "body", "answer", "respond"} => req[w] \in Conns

(* A connection that was reset is watched until the loop closes it: no       *)
(* worker's read takes that event away.                                      *)
Broken(f) == table[f] # NoConn /\ peer[table[f]] \in {"rst", "finrst"}
Hup(f) == f \in ready \/ \E e \in batch : e.fd = f /\ e.closes
ResetWatched == \A f \in Fds : Broken(f) => Hup(f)

IInv ==
  /\ TypeOK
  /\ HandsFull
  /\ BatchHandled
  /\ Asked
  /\ NoEventLost
  /\ ResetWatched
  /\ BacklogWatched

LEMMA InitInv == Init => IInv
<1> SUFFICES ASSUME Init PROVE IInv
  OBVIOUS
<1> USE ServerAssumption, NoEventAssumption DEF Init, Q!Init
<1>1. KernelTypes /\ LoopTypes /\ WorkerTypes
  BY DEF KernelTypes, LoopTypes, WorkerTypes
<1>2. HistoryTypes
  BY DEF HistoryTypes
<1>3. HandsFull /\ MainKept /\ BatchHandled /\ Asked
  BY DEF HandsFull, MainKept, BatchHandled, Asked
<1>4. NoEventLost /\ ResetWatched /\ BacklogWatched
  BY DEF NoEventLost, Pending, ResetWatched, Broken, BacklogWatched
<1> QED
  BY <1>1, <1>2, <1>3, <1>4 DEF IInv, TypeOK
------------------------------------------------------------------------------
(* A step that touches neither the loop, the queue nor the workers keeps     *)
(* all that is said of them alone, and every descriptor in their hands.      *)
LEMMA ProgramUntouched ==
  ASSUME IInv, UNCHANGED <<loop, queue, hand, work, past, alive, emfile>>
  PROVE  /\ LoopTypes' /\ WorkerTypes' /\ HistoryTypes'
         /\ HandsFull' /\ MainKept' /\ BatchHandled' /\ Asked'
         /\ \A f \in Fds : InFlight(f) => InFlight(f)'
         /\ UNCHANGED <<batch, ended>>
<1> USE DEF IInv, TypeOK, loop, work, past
<1>1. LoopTypes' /\ WorkerTypes'
  BY DEF LoopTypes, WorkerTypes
<1>2. HistoryTypes'
  BY DEF HistoryTypes
<1>3. HandsFull' /\ MainKept' /\ BatchHandled' /\ Asked'
  BY DEF HandsFull, MainKept, BatchHandled, Asked
<1>4. \A f \in Fds : InFlight(f) => InFlight(f)'
  BY DEF InFlight
<1> QED
  BY <1>1, <1>2, <1>3, <1>4

(* What the clients do: whatever happens on a connection puts its            *)
(* descriptor on the ready list.                                             *)
LEMMA ClientInv ==
  ASSUME IInv, NEW c \in Conns, Client(c)
  PROVE  IInv'
<1> USE ServerAssumption
<1>0. /\ KernelTypes /\ NoEventLost /\ ResetWatched /\ BacklogWatched
      /\ UNCHANGED <<loop, queue, hand, work, past, alive, emfile>>
  BY DEF IInv, TypeOK, Client, Connect, Send, Fin, Reset, Hang
<1>1. /\ LoopTypes' /\ WorkerTypes' /\ HistoryTypes'
      /\ HandsFull' /\ MainKept' /\ BatchHandled' /\ Asked'
      /\ \A f \in Fds : InFlight(f) => InFlight(f)'
      /\ UNCHANGED <<batch, ended>>
  BY <1>0, ProgramUntouched
<1>2. CASE Connect(c)
  <2>1. KernelTypes'
    <3>1. backlog' \in Seq(Conns)
      BY <1>0, <1>2 DEF Connect, KernelTypes
    <3>2. conn' \in [Conns -> {"new", "backlog", "open", "closed"}]
      BY <1>0, <1>2 DEF Connect, KernelTypes
    <3> QED BY <1>0, <1>2, <3>1, <3>2 DEF Connect, KernelTypes
  <2>2. NoEventLost'
    BY <1>0, <1>1, <1>2 DEF Connect, NoEventLost, Pending
  <2>4. ResetWatched'
    BY <1>0, <1>1, <1>2 DEF Connect, ResetWatched, Broken, Hup
  <2>3. BacklogWatched'
    BY <1>2 DEF Connect, BacklogWatched
  <2> QED BY <1>1, <2>1, <2>2, <2>3, <2>4 DEF IInv, TypeOK
<1>3. CASE Send(c)
  <2>1. KernelTypes'
    <3>1. rx' \in [Conns -> Nat] /\ sent' \in [Conns -> Nat]
      BY <1>0, <1>3 DEF Send, KernelTypes
    <3>2. ready' \subseteq Fds \cup {Main}
      BY <1>0, <1>3 DEF Send, KernelTypes, FdsOf
    <3> QED BY <1>0, <1>3, <3>1, <3>2 DEF Send, KernelTypes
  <2>2. NoEventLost'
    BY <1>0, <1>1, <1>3 DEF Send, NoEventLost, Pending, FdsOf, KernelTypes
  <2>4. ResetWatched'
    BY <1>0, <1>1, <1>3 DEF Send, ResetWatched, Broken, Hup, FdsOf
  <2>3. BacklogWatched'
    BY <1>0, <1>3 DEF Send, BacklogWatched, loop
  <2> QED BY <1>1, <2>1, <2>2, <2>3, <2>4 DEF IInv, TypeOK
<1>4. ASSUME NEW to \in {"fin", "rst", "finrst"}, Hang(c, to)
      PROVE  IInv'
  <2>1. KernelTypes'
    BY <1>0, <1>4 DEF Hang, KernelTypes, FdsOf
  <2>2. NoEventLost'
    BY <1>0, <1>1, <1>4 DEF Hang, NoEventLost, Pending, FdsOf, KernelTypes
  <2>4. ResetWatched'
    BY <1>0, <1>1, <1>4 DEF Hang, ResetWatched, Broken, Hup, FdsOf, KernelTypes
  <2>3. BacklogWatched'
    BY <1>0, <1>4 DEF Hang, BacklogWatched, loop
  <2> QED BY <1>1, <2>1, <2>2, <2>3, <2>4 DEF IInv, TypeOK
<1> QED
  BY <1>2, <1>3, <1>4 DEF Client, Fin, Reset
------------------------------------------------------------------------------
(* Closing a descriptor leaves nothing pending on it, and adds nothing to    *)
(* what is pending on the others or takes them off the ready list.           *)
LEMMA CloseFdFacts ==
  ASSUME KernelTypes, NEW f \in Fds, CloseFd(f), UNCHANGED ended
  PROVE  /\ KernelTypes'
         /\ ~Pending(f)' /\ ~Broken(f)'
         /\ \A g \in Fds \ {f} : /\ Pending(g)' => Pending(g)
                                 /\ Broken(g)' => Broken(g)
                                 /\ g \in ready => g \in ready'
         /\ Main \in ready => Main \in ready'
         /\ UNCHANGED backlog
<1> USE ServerAssumption DEF KernelTypes, CloseFd
<1>1. KernelTypes'
  <2>1. table' \in [Fds -> Conns \cup {NoConn}]
    OBVIOUS
  <2>2. conn' \in [Conns -> {"new", "backlog", "open", "closed"}]
    OBVIOUS
  <2>3. rx' \in [Conns -> Nat]
    OBVIOUS
  <2> QED BY <2>1, <2>2, <2>3
<1>2. ~Pending(f)' /\ ~Broken(f)'
  BY DEF Pending, Broken
<1>3. ASSUME NEW g \in Fds \ {f}, Pending(g)' PROVE Pending(g)
  <2>1. table'[g] = table[g] /\ table[g] \in Conns
    BY <1>3 DEF Pending
  <2>2. rx'[table[g]] > 0 => rx[table[g]] > 0
    BY <2>1
  <2>3. rx[table[g]] = 0 => rx'[table[g]] = 0
    BY <2>1
  <2> QED BY <1>3, <2>1, <2>2, <2>3 DEF Pending
<1>4. \A g \in Fds \ {f} : Broken(g)' => Broken(g)
  BY DEF Broken
<1> QED
  BY <1>1, <1>2, <1>3, <1>4

(* The events that the loop handles one after another. *)
LEMMA LoopCloseInv ==
  ASSUME IInv, NEW e \in batch, LoopClose(e)
  PROVE  IInv'
<1> USE ServerAssumption DEF IInv, TypeOK
<1>1. /\ e \in Events /\ e.fd \in Fds
      /\ batch' = batch \ {e} /\ lpc = "events" /\ lpc' = AfterEvent
      /\ CloseFd(e.fd)
      /\ UNCHANGED <<queue, hand, wpc, req, got, answered, unanswered, ended, alive, emfile>>
  BY DEF LoopClose, Handled, LoopTypes, MainKept, Events, work, past
<1>2. /\ KernelTypes' /\ UNCHANGED backlog
      /\ ~Pending(e.fd)' /\ ~Broken(e.fd)'
      /\ \A g \in Fds \ {e.fd} : /\ Pending(g)' => Pending(g)
                                 /\ Broken(g)' => Broken(g)
                                 /\ g \in ready => g \in ready'
      /\ Main \in ready => Main \in ready'
  BY <1>1, CloseFdFacts
<1>3. LoopTypes' /\ BatchHandled'
  BY <1>1 DEF LoopTypes, AfterEvent, BatchHandled
<1>4. WorkerTypes' /\ HandsFull' /\ MainKept' /\ Asked'
  BY <1>1 DEF WorkerTypes, HandsFull, MainKept, Asked
<1>5. HistoryTypes'
  BY <1>1 DEF HistoryTypes
<1>6. NoEventLost'
  <2> SUFFICES ASSUME NEW g \in Fds, Pending(g)'
               PROVE  g \in ready' \/ InFlight(g)'
    BY DEF NoEventLost
  <2>1. g # e.fd /\ Pending(g) /\ (g \in ready => g \in ready')
    BY <1>2
  <2>2. g \in ready \/ InFlight(g)
    BY <2>1 DEF NoEventLost
  <2>3. InFlight(g) => InFlight(g)'
    BY <1>1, <2>1 DEF InFlight
  <2> QED BY <2>1, <2>2, <2>3
<1>7. BacklogWatched'
  BY <1>1, <1>2 DEF BacklogWatched
<1>8. ResetWatched'
  BY <1>1, <1>2 DEF ResetWatched, Hup
<1> QED
  BY <1>2, <1>3, <1>4, <1>5, <1>6, <1>7, <1>8

LEMMA LoopMainInv ==
  ASSUME IInv, NEW e \in batch, LoopMain(e)
  PROVE  IInv'
<1> USE ServerAssumption DEF IInv, TypeOK
<1>1. /\ e.fd = Main /\ batch' = batch \ {e} /\ lpc' = "accept"
      /\ UNCHANGED <<conn, backlog, table, rx, sent, peer, ready>>
      /\ UNCHANGED <<queue, hand, wpc, req, got, answered, unanswered, ended, alive, emfile>>
  BY DEF LoopMain, Handled, kernel, work, past
<1>2. KernelTypes' /\ LoopTypes' /\ BatchHandled'
  BY <1>1 DEF KernelTypes, LoopTypes, BatchHandled
<1>3. WorkerTypes' /\ HandsFull' /\ MainKept' /\ Asked'
  BY <1>1 DEF WorkerTypes, HandsFull, MainKept, Asked
<1>4. HistoryTypes'
  BY <1>1 DEF HistoryTypes
<1>5. NoEventLost'
  BY <1>1 DEF NoEventLost, Pending, InFlight
<1>6. BacklogWatched'
  BY <1>1 DEF BacklogWatched
<1>7. ResetWatched'
  BY <1>1, ServerAssumption DEF ResetWatched, Broken, Hup
<1> QED
  BY <1>2, <1>3, <1>4, <1>5, <1>6, <1>7

LEMMA LoopPushInv ==
  ASSUME IInv, NEW e \in batch, LoopPush(e)
  PROVE  IInv'
<1> USE ServerAssumption DEF IInv, TypeOK
<1>1. /\ e \in Events /\ e.fd # Main /\ ~e.closes
      /\ batch' = batch \ {e} /\ lpc = "events" /\ lpc' = AfterEvent
      /\ queue' = Append(queue, e)
      /\ UNCHANGED <<conn, backlog, table, rx, sent, peer, ready>>
      /\ UNCHANGED <<hand, wpc, req, got, answered, unanswered, ended, alive, emfile>>
  BY DEF LoopPush, Handled, LoopTypes, Q!Push, kernel, work, past
<1>2. KernelTypes' /\ BatchHandled'
  BY <1>1 DEF KernelTypes, BatchHandled, AfterEvent
<1>3. LoopTypes'
  BY <1>1 DEF LoopTypes, AfterEvent
<1>4. queue \in Seq(Events)
  BY DEF LoopTypes
<1>5. /\ DOMAIN queue' = 1..(Len(queue) + 1)
      /\ \A i \in DOMAIN queue : i \in DOMAIN queue' /\ queue'[i] = queue[i]
      /\ queue'[Len(queue) + 1] = e
  BY <1>1, <1>4
<1>6. WorkerTypes' /\ HandsFull' /\ Asked'
  BY <1>1 DEF WorkerTypes, HandsFull, Asked
<1>7. MainKept'
  BY <1>1, <1>4, <1>5 DEF MainKept
<1>8. HistoryTypes'
  BY <1>1 DEF HistoryTypes
<1>9. NoEventLost'
  <2>1. ASSUME NEW f \in Fds, InFlight(f) PROVE InFlight(f)'
    <3>1. CASE \E d \in batch : d.fd = f
      BY <1>1, <1>4, <1>5, <3>1 DEF InFlight
    <3>2. CASE \E i \in DOMAIN queue : queue[i].fd = f
      BY <1>5, <3>2 DEF InFlight
    <3>3. CASE \E w \in Workers : wpc[w] # "pop" /\ hand[w].fd = f
      BY <1>1, <3>3 DEF InFlight
    <3> QED BY <2>1, <3>1, <3>2, <3>3 DEF InFlight
  <2> QED BY <1>1, <2>1 DEF NoEventLost, Pending
<1>10. BacklogWatched'
  BY <1>1 DEF BacklogWatched
<1>11. ResetWatched'
  BY <1>1 DEF ResetWatched, Broken, Hup
<1> QED
  BY <1>2, <1>3, <1>6, <1>7, <1>8, <1>9, <1>10, <1>11

(* epoll_wait() empties the ready list into the batch: what was pending is   *)
(* in the loop's hands.                                                      *)
LEMMA EpollWaitInv ==
  ASSUME IInv, EpollWait
  PROVE  IInv'
<1> USE ServerAssumption DEF IInv, TypeOK
<1>1. /\ batch' = {EventOf(f) : f \in {g \in ready : Pollable(g)}}
      /\ batch = {} /\ lpc' = "events" /\ ready' = {}
      /\ UNCHANGED <<conn, backlog, table, rx, sent, peer>>
      /\ UNCHANGED <<queue, hand, wpc, req, got, answered, unanswered, ended, alive, emfile>>
  BY DEF EpollWait, BatchHandled, work, past
<1>2. ASSUME NEW f \in ready, Pollable(f)
      PROVE  /\ EventOf(f) \in Events
             /\ EventOf(f).fd = f
             /\ EventOf(f).closes => f # Main
             /\ Broken(f) /\ f # Main => EventOf(f).closes
  <2>1. CASE f = Main
    <3>1. EventOf(f) = [fd |-> Main, of |-> NoConn, closes |-> FALSE]
      BY <2>1 DEF EventOf
    <3> QED BY <2>1, <3>1 DEF Events
  <2>2. CASE f # Main
    <3>1. f \in Fds /\ table[f] \in Conns
      BY <1>2, <2>2 DEF KernelTypes, Pollable
    <3>2. EventOf(f) \in Events /\ EventOf(f).fd = f
      BY <2>2, <3>1 DEF EventOf, Events
    <3> DEFINE hup == peer[table[f]] \in {"rst", "finrst"}
    <3>3. EventOf(f) = [fd |-> f, of |-> table[f], closes |-> hup]
      BY <2>2 DEF EventOf
    <3>4. Broken(f) => hup
      BY DEF Broken
    <3> HIDE DEF hup
    <3>5. Broken(f) => EventOf(f).closes
      BY <3>3, <3>4
    <3> QED BY <2>2, <3>2, <3>5
  <2> QED BY <2>1, <2>2
<1>3. KernelTypes'
  BY <1>1 DEF KernelTypes
<1>4. LoopTypes' /\ BatchHandled'
  BY <1>1, <1>2 DEF LoopTypes, BatchHandled
<1>5. WorkerTypes' /\ HandsFull' /\ Asked'
  BY <1>1 DEF WorkerTypes, HandsFull, Asked
<1>6. MainKept'
  BY <1>1, <1>2 DEF MainKept
<1>7. HistoryTypes'
  BY <1>1 DEF HistoryTypes
<1>8. NoEventLost'
  <2> SUFFICES ASSUME NEW f \in Fds, Pending(f)
               PROVE  InFlight(f)'
    BY <1>1 DEF NoEventLost, Pending
  <2>1. f \in ready \/ InFlight(f)
    BY DEF NoEventLost
  <2>2. CASE f \in ready
    <3>1. Pollable(f)
      BY DEF Pending, Pollable, KernelTypes
    <3>2. EventOf(f) \in batch' /\ EventOf(f).fd = f
      BY <1>1, <1>2, <2>2, <3>1
    <3> QED BY <3>2 DEF InFlight
  <2>3. CASE InFlight(f)
    BY <1>1, <2>3 DEF InFlight
  <2> QED BY <2>1, <2>2, <2>3
<1>9. BacklogWatched'
  <2> SUFFICES ASSUME backlog # <<>>, ~emfile
               PROVE  \E e \in batch' : e.fd = Main
    BY <1>1 DEF BacklogWatched
  <2>1. Main \in ready \/ lpc = "accept"
    BY <1>1 DEF BacklogWatched
  <2>2. Main \in ready /\ Pollable(Main)
    BY <2>1 DEF EpollWait, Pollable
  <2>3. EventOf(Main) \in batch' /\ EventOf(Main).fd = Main
    BY <1>1, <1>2, <2>2
  <2> QED BY <2>3
<1>10. ResetWatched'
  <2> SUFFICES ASSUME NEW f \in Fds, Broken(f)
               PROVE  \E e \in batch' : e.fd = f /\ e.closes
    BY <1>1 DEF ResetWatched, Broken, Hup
  <2>1. f \in ready
    BY <1>1 DEF ResetWatched, Hup
  <2>2. Pollable(f) /\ f # Main
    BY DEF Broken, Pollable, KernelTypes
  <2>3. EventOf(f) \in batch' /\ EventOf(f).fd = f /\ EventOf(f).closes
    BY <1>1, <1>2, <2>1, <2>2
  <2> QED BY <2>3
<1> QED
  BY <1>3, <1>4, <1>5, <1>6, <1>7, <1>8, <1>9, <1>10

LEMMA AcceptInv ==
  ASSUME IInv, Accept
  PROVE  IInv'
<1> USE ServerAssumption
<1>0. /\ KernelTypes /\ NoEventLost /\ ResetWatched
      /\ UNCHANGED <<loop, queue, hand, work, past, alive, emfile>>
      /\ lpc = "accept" /\ lpc' = "accept"
  BY DEF IInv, TypeOK, Accept, loop
<1>1. /\ LoopTypes' /\ WorkerTypes' /\ HistoryTypes'
      /\ HandsFull' /\ MainKept' /\ BatchHandled' /\ Asked'
      /\ \A f \in Fds : InFlight(f) => InFlight(f)'
      /\ UNCHANGED <<batch, ended>>
  BY <1>0, ProgramUntouched
<1>2. /\ backlog \in Seq(Conns) /\ backlog # <<>> /\ Head(backlog) \in Conns
      /\ backlog' = Tail(backlog)
      /\ conn' = [conn EXCEPT ![Head(backlog)] = "open"]
      /\ UNCHANGED <<rx, sent, peer>>
  BY <1>0 DEF Accept, KernelTypes
<1>3. PICK f \in Fds : /\ table[f] = NoConn
                       /\ table' = [table EXCEPT ![f] = Head(backlog)]
                       /\ ready' = ready \cup {f}
  BY DEF Accept, FreeFds
<1>4. KernelTypes'
  <2>1. backlog' \in Seq(Conns)
    BY <1>2
  <2>2. table' \in [Fds -> Conns \cup {NoConn}]
    BY <1>0, <1>2, <1>3 DEF KernelTypes
  <2>3. conn' \in [Conns -> {"new", "backlog", "open", "closed"}]
    BY <1>0, <1>2 DEF KernelTypes
  <2> QED BY <1>0, <1>2, <1>3, <2>1, <2>2, <2>3 DEF KernelTypes
<1>5. NoEventLost'
  BY <1>0, <1>1, <1>2, <1>3 DEF NoEventLost, Pending, KernelTypes
<1>6. BacklogWatched'
  BY <1>0 DEF BacklogWatched
<1>7. ResetWatched'
  BY <1>0, <1>1, <1>2, <1>3 DEF ResetWatched, Broken, Hup, KernelTypes
<1> QED
  BY <1>1, <1>4, <1>5, <1>6, <1>7 DEF IInv, TypeOK

(* The accept loop ends: nothing is left in the backlog, or accept() failed. *)
LEMMA AcceptEndsInv ==
  ASSUME IInv, AcceptDone \/ AcceptFail
  PROVE  IInv'
<1> USE ServerAssumption DEF IInv, TypeOK
<1>1. /\ lpc' = AfterAccept
      /\ UNCHANGED <<conn, backlog, table, rx, sent, peer, ready>>
      /\ UNCHANGED <<batch, queue, hand, wpc, req, got, answered, unanswered, ended, alive>>
      /\ backlog = <<>> \/ emfile'
  BY DEF AcceptDone, AcceptFail, kernel, work, past
<1>2. emfile' \in BOOLEAN
  BY DEF AcceptDone, AcceptFail, HistoryTypes
<1>3. KernelTypes' /\ LoopTypes' /\ BatchHandled'
  BY <1>1 DEF KernelTypes, LoopTypes, BatchHandled, AfterAccept
<1>4. WorkerTypes' /\ HandsFull' /\ MainKept' /\ Asked'
  BY <1>1 DEF WorkerTypes, HandsFull, MainKept, Asked
<1>5. HistoryTypes'
  BY <1>1, <1>2 DEF HistoryTypes
<1>6. NoEventLost'
  BY <1>1 DEF NoEventLost, Pending, InFlight
<1>7. BacklogWatched'
  BY <1>1 DEF BacklogWatched
<1>8. ResetWatched'
  BY <1>1 DEF ResetWatched, Broken, Hup
<1> QED
  BY <1>3, <1>4, <1>5, <1>6, <1>7, <1>8
------------------------------------------------------------------------------
(* pop(): a descriptor goes from the queue into a worker's hand. *)
LEMMA PopInv ==
  ASSUME IInv, NEW w \in Workers, Pop(w)
  PROVE  IInv'
<1> USE ServerAssumption, NoEventAssumption DEF IInv, TypeOK
<1>1. /\ wpc[w] = "pop" /\ wpc' = [wpc EXCEPT ![w] = "read"]
      /\ queue # <<>> /\ queue' = Tail(queue)
      /\ hand' = [hand EXCEPT ![w] = Head(queue)]
      /\ UNCHANGED <<conn, backlog, table, rx, sent, peer, ready>>
      /\ UNCHANGED <<batch, lpc, req, got, answered, unanswered, ended, alive, emfile>>
  BY DEF Pop, Q!Pop, kernel, loop, past
<1>2. /\ queue \in Seq(Events) /\ Head(queue) \in Events
      /\ Head(queue) = queue[1] /\ 1 \in DOMAIN queue
      /\ queue' \in Seq(Events)
      /\ DOMAIN queue' = 1..(Len(queue) - 1)
      /\ \A i \in DOMAIN queue' : queue'[i] = queue[i + 1] /\ i + 1 \in DOMAIN queue
      /\ \A i \in DOMAIN queue \ {1} : i - 1 \in DOMAIN queue' /\ queue'[i - 1] = queue[i]
  <2>1. queue \in Seq(Events) /\ queue # <<>>
    BY <1>1 DEF LoopTypes
  <2> QED BY <1>1, <2>1
<1>3. KernelTypes' /\ LoopTypes' /\ BatchHandled'
  BY <1>1, <1>2 DEF KernelTypes, LoopTypes, BatchHandled
<1>4. WorkerTypes' /\ HandsFull' /\ Asked'
  BY <1>1, <1>2 DEF WorkerTypes, HandsFull, Asked
<1>5. MainKept'
  BY <1>1, <1>2 DEF MainKept, WorkerTypes
<1>6. HistoryTypes'
  BY <1>1 DEF HistoryTypes
<1>7. NoEventLost'
  <2>1. ASSUME NEW f \in Fds, InFlight(f) PROVE InFlight(f)'
    <3>1. CASE \E d \in batch : d.fd = f
      BY <1>1, <3>1 DEF InFlight
    <3>2. ASSUME NEW i \in DOMAIN queue, queue[i].fd = f PROVE InFlight(f)'
      <4>1. CASE i = 1
        <5>1. hand'[w].fd = f /\ wpc'[w] # "pop"
          BY <1>1, <1>2, <3>2, <4>1 DEF WorkerTypes
        <5> QED BY <5>1 DEF InFlight
      <4>2. CASE i # 1
        BY <1>2, <3>2, <4>2 DEF InFlight
      <4> QED BY <4>1, <4>2
    <3>3. CASE \E v \in Workers : wpc[v] # "pop" /\ hand[v].fd = f
      BY <1>1, <3>3 DEF InFlight, WorkerTypes
    <3> QED BY <2>1, <3>1, <3>2, <3>3 DEF InFlight
  <2> QED BY <1>1, <2>1 DEF NoEventLost, Pending
<1>8. BacklogWatched'
  BY <1>1 DEF BacklogWatched
<1>9. ResetWatched'
  BY <1>1 DEF ResetWatched, Broken, Hup
<1> QED
  BY <1>3, <1>4, <1>5, <1>6, <1>7, <1>8, <1>9

(* A step inside a handler: the worker keeps its descriptor, and what is     *)
(* unread on the connections can only become less.                           *)
LEMMA HandlerStep ==
  ASSUME IInv, NEW w \in Workers, wpc[w] # "pop",
         NEW to \in {"read", "head", "body", "answer", "respond", "close"},
         wpc' = [wpc EXCEPT ![w] = to],
         rx' \in [Conns -> Nat], \A c \in Conns : rx'[c] <= rx[c],
         req' \in [Workers -> Conns \cup {NoConn}], Asked',
         HistoryTypes',
         UNCHANGED <<conn, backlog, table, sent, peer, ready>>,
         UNCHANGED <<batch, lpc, queue, hand, ended, emfile>>
  PROVE  IInv'
<1> USE DEF IInv, TypeOK
<1>1. KernelTypes' /\ LoopTypes' /\ BatchHandled'
  BY DEF KernelTypes, LoopTypes, BatchHandled
<1>2. WorkerTypes' /\ HandsFull' /\ MainKept'
  BY DEF WorkerTypes, HandsFull, MainKept
<1>3. NoEventLost'
  <2> SUFFICES ASSUME NEW f \in Fds, Pending(f)'
               PROVE  f \in ready \/ InFlight(f)'
    BY DEF NoEventLost
  <2>1. Pending(f)
    BY DEF Pending, KernelTypes
  <2>2. InFlight(f) => InFlight(f)'
    BY DEF InFlight, WorkerTypes
  <2> QED BY <2>1, <2>2 DEF NoEventLost
<1>4. BacklogWatched'
  BY DEF BacklogWatched
<1>5. ResetWatched'
  BY DEF ResetWatched, Broken, Hup
<1> QED
  BY <1>1, <1>2, <1>3, <1>4, <1>5

(* The handler's ends that close nothing: nothing is pending on what was in  *)
(* hand, or it was reset, and then the loop is about to close it.            *)
LEMMA LeaveOpenInv ==
  ASSUME IInv, NEW w \in Workers, ReadEnd(w) \/ RespondFails(w)
  PROVE  IInv'
<1> USE ServerAssumption, NoEventAssumption DEF IInv, TypeOK
<1>1. /\ wpc[w] # "pop" /\ wpc' = [wpc EXCEPT ![w] = "pop"]
      /\ hand' = [hand EXCEPT ![w] = NoEvent]
      /\ req' \in [Workers -> Conns \cup {NoConn}]
      /\ \A v \in Workers \ {w} : req'[v] = req[v]
      /\ UNCHANGED <<conn, backlog, table, rx, sent, peer, ready>>
      /\ UNCHANGED <<batch, lpc, queue, got, answered, unanswered, alive, emfile>>
  BY DEF ReadEnd, RespondFails, Goto, Q!Finish, WorkerTypes, kernel, loop, past
<1>2. ended' \subseteq Conns /\ ended \subseteq ended'
  BY DEF ReadEnd, RespondFails, AtEnd, HistoryTypes, past
<1>3. PICK f \in Fds : f = hand[w].fd
  BY <1>1 DEF WorkerTypes, HandsFull, MainKept, Events
<1>4. Pending(f)' => Broken(f)
  <2>1. CASE ReadEnd(w)
    BY <1>1, <1>3, <2>1 DEF ReadEnd, AtEnd, Target, Pending, Broken
  <2>2. CASE RespondFails(w)
    BY <1>1, <1>3, <2>2 DEF RespondFails, WriteThrows, Target, Pending, Broken, KernelTypes
  <2> QED BY <2>1, <2>2
<1>5. KernelTypes' /\ LoopTypes' /\ BatchHandled'
  BY <1>1 DEF KernelTypes, LoopTypes, BatchHandled
<1>6. WorkerTypes' /\ HandsFull' /\ MainKept' /\ Asked'
  BY <1>1 DEF WorkerTypes, HandsFull, MainKept, Asked
<1>7. HistoryTypes'
  BY <1>1, <1>2 DEF HistoryTypes
<1>8. NoEventLost'
  <2> SUFFICES ASSUME NEW g \in Fds, Pending(g)'
               PROVE  g \in ready \/ InFlight(g)'
    BY <1>1 DEF NoEventLost
  <2>1. CASE g = f
    BY <1>1, <1>4, <2>1 DEF ResetWatched, Hup, InFlight
  <2>2. CASE g # f
    <3>1. Pending(g)
      BY <1>1, <1>2 DEF Pending
    <3>2. InFlight(g) => InFlight(g)'
      BY <1>1, <1>3, <2>2 DEF InFlight, WorkerTypes
    <3> QED BY <3>1, <3>2 DEF NoEventLost
  <2> QED BY <2>1, <2>2
<1>9. ResetWatched' /\ BacklogWatched'
  BY <1>1 DEF ResetWatched, Broken, Hup, BacklogWatched
<1> QED
  BY <1>5, <1>6, <1>7, <1>8, <1>9

(* sock.close() and back to pop(): what was in hand is closed. *)
LEMMA CloseInv ==
  ASSUME IInv, NEW w \in Workers, Close(w)
  PROVE  IInv'
<1> USE ServerAssumption, NoEventAssumption DEF IInv, TypeOK
<1>1. /\ wpc[w] = "close" /\ wpc' = [wpc EXCEPT ![w] = "pop"]
      /\ hand' = [hand EXCEPT ![w] = NoEvent]
      /\ req' = [req EXCEPT ![w] = NoConn]
      /\ CloseFd(hand[w].fd)
      /\ UNCHANGED <<batch, lpc, queue, got, answered, unanswered, ended, alive, emfile>>
  BY DEF Close, Goto, Q!Finish, loop, past
<1>2. PICK f \in Fds : f = hand[w].fd
  BY <1>1 DEF WorkerTypes, HandsFull, MainKept, Events
<1>3. /\ KernelTypes' /\ UNCHANGED backlog
      /\ ~Pending(f)' /\ ~Broken(f)'
      /\ \A g \in Fds \ {f} : /\ Pending(g)' => Pending(g)
                              /\ Broken(g)' => Broken(g)
                              /\ g \in ready => g \in ready'
      /\ Main \in ready => Main \in ready'
  BY <1>1, <1>2, CloseFdFacts
<1>4. LoopTypes' /\ BatchHandled'
  BY <1>1 DEF LoopTypes, BatchHandled
<1>5. WorkerTypes' /\ HandsFull' /\ MainKept' /\ Asked'
  BY <1>1 DEF WorkerTypes, HandsFull, MainKept, Asked
<1>6. HistoryTypes'
  BY <1>1 DEF HistoryTypes
<1>7. NoEventLost'
  <2> SUFFICES ASSUME NEW g \in Fds, Pending(g)'
               PROVE  g \in ready' \/ InFlight(g)'
    BY DEF NoEventLost
  <2>1. g # f /\ Pending(g) /\ (g \in ready => g \in ready')
    BY <1>3
  <2>2. g \in ready \/ InFlight(g)
    BY <2>1 DEF NoEventLost
  <2>3. InFlight(g) => InFlight(g)'
    BY <1>1, <1>2, <2>1 DEF InFlight, WorkerTypes
  <2> QED BY <2>1, <2>2, <2>3
<1>8. BacklogWatched'
  BY <1>1, <1>3 DEF BacklogWatched
<1>9. ResetWatched'
  BY <1>1, <1>3 DEF ResetWatched, Hup
<1> QED
  BY <1>3, <1>4, <1>5, <1>6, <1>7, <1>8, <1>9

(* The handler of myserver.cc, statement by statement. *)
LEMMA WorkerInv ==
  ASSUME IInv, NEW w \in Workers, Worker(w)
  PROVE  IInv'
<1> USE ServerAssumption, NoEventAssumption
<1>0. KernelTypes /\ WorkerTypes /\ HistoryTypes /\ Asked
  BY DEF IInv, TypeOK
<1>1. CASE ReadRequest(w)
  <2>1. PICK to \in {"head", "answer", "close"} :
          /\ wpc[w] = "read" /\ wpc' = [wpc EXCEPT ![w] = to]
          /\ Target(w) \in Conns
          /\ rx' = [rx EXCEPT ![Target(w)] = 0]
          /\ req' = [req EXCEPT ![w] = Target(w)]
          /\ unanswered' \subseteq unanswered \cup {Target(w)}
          /\ UNCHANGED <<conn, backlog, table, sent, peer, ready>>
          /\ UNCHANGED <<batch, lpc, queue, hand, got, answered, ended, alive, emfile>>
    BY <1>1 DEF ReadRequest, Goto, loop
  <2>3. rx' \in [Conns -> Nat] /\ \A c \in Conns : rx'[c] <= rx[c]
    BY <1>0, <2>1 DEF KernelTypes
  <2>4. req' \in [Workers -> Conns \cup {NoConn}] /\ Asked'
    BY <1>0, <2>1 DEF WorkerTypes, Asked
  <2>5. HistoryTypes'
    BY <1>0, <2>1 DEF HistoryTypes
  <2> QED BY <2>1, <2>3, <2>4, <2>5, HandlerStep
<1>2. ASSUME NEW to \in {"body", "close", "respond"},
             wpc[w] # "pop", wpc' = [wpc EXCEPT ![w] = to],
             to \in {"body", "respond"} => wpc[w] \in {"head", "body"},
             HistoryTypes',
             UNCHANGED <<kernel, loop, queue, hand, req, ended, emfile>>
      PROVE  IInv'
  <2>1. /\ UNCHANGED <<conn, backlog, table, rx, sent, peer, ready>>
        /\ UNCHANGED <<batch, lpc, queue, hand, req, ended, emfile>>
    BY <1>2 DEF kernel, loop
  <2>2. rx' \in [Conns -> Nat] /\ \A c \in Conns : rx'[c] <= rx[c]
    BY <1>0, <2>1 DEF KernelTypes
  <2>3. req' \in [Workers -> Conns \cup {NoConn}] /\ Asked'
    BY <1>0, <1>2, <2>1 DEF WorkerTypes, Asked
  <2> QED BY <1>2, <2>1, <2>2, <2>3, HandlerStep
<1>3. ASSUME wpc[w] \in {"head", "body", "answer", "respond"}, Deliver(w)
      PROVE  got' \in [Conns -> SUBSET Conns]
  <2>1. req[w] \in Conns
    BY <1>0, <1>3 DEF Asked
  <2> QED BY <1>0, <1>3, <2>1 DEF Deliver, HistoryTypes
<1>4. CASE ReadFails(w) \/ AnswerFails(w) \/ WriteFails(w)
  <2>1. HistoryTypes'
    BY <1>0, <1>4 DEF ReadFails, AnswerFails, WriteFails, HistoryTypes, past
  <2> QED BY <1>2, <1>4, <2>1 DEF ReadFails, AnswerFails, WriteFails, Goto, past
<1>5. CASE WriteHead(w)
  <2>1. HistoryTypes'
    BY <1>0, <1>3, <1>5 DEF WriteHead, Goto, HistoryTypes
  <2> QED BY <1>2, <1>5, <2>1 DEF WriteHead, Goto
<1>6. CASE WriteBody(w) \/ Answer(w)
  <2>1. answered' \subseteq Conns
    BY <1>0, <1>6 DEF WriteBody, Answer, Goto, HistoryTypes, Asked
  <2>2. got' \in [Conns -> SUBSET Conns]
    BY <1>3, <1>6 DEF WriteBody, Answer, Goto
  <2>3. HistoryTypes'
    BY <1>0, <1>6, <2>1, <2>2 DEF WriteBody, Answer, HistoryTypes
  <2> QED BY <1>2, <1>6, <2>3 DEF WriteBody, Answer, Goto
<1>7. CASE ReadEnd(w) \/ RespondFails(w)
  BY <1>7, LeaveOpenInv
<1>9. CASE Respond(w)
  <2>1. got' \in [Conns -> SUBSET Conns]
    BY <1>3, <1>9 DEF Respond, Goto
  <2>2. HistoryTypes'
    BY <1>0, <1>9, <2>1 DEF Respond, Goto, HistoryTypes
  <2> QED BY <1>2, <1>9, <2>2 DEF Respond, Goto
<1>10. CASE BrokenPipe(w)
  <2>1. /\ UNCHANGED <<conn, backlog, table, rx, sent, peer, ready>>
        /\ UNCHANGED <<batch, lpc, queue, hand, wpc, req, got, answered, unanswered, ended, emfile>>
        /\ alive' = FALSE
    BY <1>10 DEF BrokenPipe, kernel, loop, work, past
  <2>2. KernelTypes' /\ WorkerTypes' /\ LoopTypes'
    BY <2>1 DEF IInv, TypeOK, KernelTypes, WorkerTypes, LoopTypes
  <2>3. HistoryTypes'
    BY <1>0, <2>1 DEF HistoryTypes
  <2>4. HandsFull' /\ MainKept' /\ BatchHandled' /\ Asked'
    BY <2>1 DEF IInv, TypeOK, HandsFull, MainKept, BatchHandled, Asked
  <2>5. NoEventLost' /\ ResetWatched' /\ BacklogWatched'
    BY <2>1 DEF IInv, NoEventLost, Pending, InFlight, ResetWatched, Broken, Hup,
                BacklogWatched
  <2> QED BY <2>2, <2>3, <2>4, <2>5 DEF IInv, TypeOK
<1>11. CASE Close(w)
  BY <1>11, CloseInv
<1> QED
  BY <1>1, <1>4, <1>5, <1>6, <1>7, <1>9, <1>10, <1>11 DEF Worker
------------------------------------------------------------------------------
LEMMA NextInv == IInv /\ [Next]_vars => IInv'
<1> SUFFICES ASSUME IInv, [Next]_vars PROVE IInv'
  OBVIOUS
<1>1. ASSUME NEW c \in Conns, Client(c) PROVE IInv'
  BY <1>1, ClientInv
<1>2. CASE Loop
  BY <1>2, EpollWaitInv, AcceptInv, AcceptEndsInv, LoopCloseInv, LoopMainInv,
     LoopPushInv DEF Loop
<1>3. ASSUME NEW w \in Workers, Pop(w) \/ Worker(w) PROVE IInv'
  BY <1>3, PopInv, WorkerInv
<1>4. CASE UNCHANGED vars
  <2>1. /\ UNCHANGED <<conn, backlog, table, rx, sent, peer, ready>>
        /\ UNCHANGED <<batch, lpc, queue, hand, wpc, req, got, answered, unanswered, ended>>
        /\ UNCHANGED <<alive, emfile>>
    BY <1>4 DEF vars, kernel, loop, work, past
  <2>2. KernelTypes' /\ WorkerTypes' /\ LoopTypes'
    BY <2>1 DEF IInv, TypeOK, KernelTypes, WorkerTypes, LoopTypes
  <2>3. HistoryTypes'
    BY <2>1 DEF IInv, TypeOK, HistoryTypes
  <2>4. HandsFull' /\ MainKept' /\ BatchHandled' /\ Asked'
    BY <2>1 DEF IInv, TypeOK, HandsFull, MainKept, BatchHandled, Asked
  <2>5. NoEventLost' /\ ResetWatched' /\ BacklogWatched'
    BY <2>1 DEF IInv, NoEventLost, Pending, InFlight, ResetWatched, Broken, Hup,
                BacklogWatched
  <2> QED BY <2>2, <2>3, <2>4, <2>5 DEF IInv, TypeOK
<1> QED
  BY <1>1, <1>2, <1>3, <1>4 DEF Next

(* The inductive invariant holds in every state of every behaviour.          *)
THEOREM Invariance == Spec => []IInv
<1>1. Init => IInv
  BY InitInv
<1>2. IInv /\ [Next]_vars => IInv'
  BY NextInv
<1> QED
  BY <1>1, <1>2, PTL DEF Spec

(* Every variable of the serving core has its type. *)
THEOREM TypeCorrect == Spec => []TypeOK
<1>1. IInv => TypeOK
  BY DEF IInv
<1> QED
  BY <1>1, Invariance, PTL

(* Edge triggering without EPOLLONESHOT and with a single read() per event   *)
(* loses nothing, for any number of connections, descriptors and workers.    *)
THEOREM NoEventIsLost == Spec => []NoEventLost
<1>1. IInv => NoEventLost
  BY DEF IInv
<1> QED
  BY <1>1, Invariance, PTL

(* No pending connection is stranded in the backlog unless some accept()     *)
(* failed.                                                                   *)
THEOREM BacklogIsWatched == Spec => []BacklogWatched
<1>1. IInv => BacklogWatched
  BY DEF IInv
<1> QED
  BY <1>1, Invariance, PTL
------------------------------------------------------------------------------
(* Patient clients: although the program only knows reusable numbers, a     *)
(* worker's number refers to the connection it was queued for, to no other  *)
(* worker's, and a response goes to the connection that asked.              *)

Busy(w) == wpc[w] # "pop"

(* Nothing but requests has happened on any connection. *)
OneRequestEach ==
  \A c \in Conns : peer[c] = "up" /\ (rx[c] > 0 => sent[c] > 0)

(* An event in the program's hands still names the connection it was         *)
(* reported for, whose only request has been reported with it: the           *)
(* descriptor is not ready again.                                            *)
Current(e) ==
  e.fd # Main =>
    /\ e.fd \in Fds /\ e.fd \notin ready
    /\ table[e.fd] = e.of /\ e.of \in Conns
    /\ sent[e.of] > 0
    /\ ~e.closes

AllCurrent ==
  /\ \A e \in batch : Current(e)
  /\ \A i \in DOMAIN queue : Current(queue[i])
  /\ \A w \in Workers : Busy(w) => Current(hand[w])

(* No descriptor is twice in the program's hands.                            *)
BatchDistinct ==
  /\ \A d, e \in batch : d.fd = e.fd => d = e
  /\ \A e \in batch, i \in DOMAIN queue : e.fd # queue[i].fd
  /\ \A e \in batch, w \in Workers : Busy(w) => e.fd # hand[w].fd

QueueDistinct ==
  /\ \A i, j \in DOMAIN queue : i # j => queue[i].fd # queue[j].fd
  /\ \A i \in DOMAIN queue, w \in Workers : Busy(w) => queue[i].fd # hand[w].fd

HandsDistinct ==
  \A v, w \in Workers : v # w /\ Busy(v) /\ Busy(w) => hand[v].fd # hand[w].fd

(* The request being served came from the connection of the event, and no    *)
(* write to it has failed.                                                   *)
ServesOwn ==
  \A w \in Workers :
    /\ wpc[w] # "respond"
    /\ wpc[w] \in {"head", "body", "answer"} => req[w] = hand[w].of

GotOwn == \A c \in Conns : got[c] \subseteq {c}

OwnInv ==
  /\ OneRequestEach
  /\ AllCurrent
  /\ BatchDistinct
  /\ QueueDistinct
  /\ HandsDistinct
  /\ ServesOwn
  /\ GotOwn

LEMMA OwnInit == Init => OwnInv
<1> SUFFICES ASSUME Init PROVE OwnInv
  OBVIOUS
<1> USE DEF Init, Q!Init
<1>1. OneRequestEach /\ GotOwn
  BY DEF OneRequestEach, GotOwn
<1>2. AllCurrent /\ BatchDistinct /\ QueueDistinct /\ HandsDistinct
  BY DEF AllCurrent, BatchDistinct, QueueDistinct, HandsDistinct, Busy
<1>3. ServesOwn
  BY DEF ServesOwn
<1> QED
  BY <1>1, <1>2, <1>3 DEF OwnInv

(* What depends only on the loop, the queue, the hands and the histories.    *)
LEMMA DistinctUntouched ==
  ASSUME OwnInv, UNCHANGED <<batch, queue, hand, wpc, req, got>>
  PROVE  /\ BatchDistinct' /\ QueueDistinct' /\ HandsDistinct'
         /\ ServesOwn' /\ GotOwn'
<1>1. BatchDistinct'
  BY DEF OwnInv, BatchDistinct, Busy
<1>2. QueueDistinct' /\ HandsDistinct'
  BY DEF OwnInv, QueueDistinct, HandsDistinct, Busy
<1>3. ServesOwn' /\ GotOwn'
  BY DEF OwnInv, ServesOwn, GotOwn
<1> QED
  BY <1>1, <1>2, <1>3

(* A client sends its request before any event of it is in the program's     *)
(* hands.                                                                    *)
LEMMA ClientOwn ==
  ASSUME AllPatient, IInv, OwnInv, NEW c \in Conns, Client(c)
  PROVE  OwnInv'
<1> USE ServerAssumption DEF AllPatient
<1>1. KernelTypes /\ OneRequestEach /\ AllCurrent
  BY DEF IInv, TypeOK, OwnInv
<1>2. ~Fin(c) /\ ~Reset(c)
  BY DEF Fin, Reset, Hang
<1>3. UNCHANGED <<batch, queue, hand, wpc, req, got, table, peer>>
  BY <1>2 DEF Client, Connect, Send, loop, work, past
<1>4. /\ BatchDistinct' /\ QueueDistinct' /\ HandsDistinct'
      /\ ServesOwn' /\ GotOwn'
  BY <1>3, DistinctUntouched
<1>5. CASE Connect(c)
  <2>1. \A e : Current(e) => Current(e)'
    BY <1>5 DEF Connect, Current
  <2>2. AllCurrent'
    BY <1>1, <1>3, <2>1 DEF AllCurrent, Busy
  <2>3. OneRequestEach'
    BY <1>1, <1>5 DEF Connect, OneRequestEach
  <2> QED BY <1>4, <2>2, <2>3 DEF OwnInv
<1>6. CASE Send(c)
  <2>1. sent[c] = 0 /\ sent' = [sent EXCEPT ![c] = @ + 1]
        /\ ready' = ready \cup FdsOf(c) /\ rx' = [rx EXCEPT ![c] = @ + 1]
    BY <1>1, <1>6 DEF Send, KernelTypes
  <2>2. ASSUME NEW e, Current(e) PROVE Current(e)'
    <3> SUFFICES ASSUME e.fd # Main PROVE Current(e)'
      BY DEF Current
    <3>1. e.of # c /\ e.of \in Conns /\ table[e.fd] = e.of
      BY <2>1, <2>2 DEF Current
    <3>2. e.fd \notin ready' /\ sent'[e.of] = sent[e.of]
      BY <1>1, <2>1, <2>2, <3>1 DEF Current, FdsOf, KernelTypes
    <3> QED BY <1>3, <2>2, <3>2 DEF Current
  <2>3. AllCurrent'
    BY <1>1, <1>3, <2>2 DEF AllCurrent, Busy
  <2>4. OneRequestEach'
    BY <1>1, <1>3, <2>1 DEF OneRequestEach, KernelTypes
  <2> QED BY <1>4, <2>3, <2>4 DEF OwnInv
<1> QED
  BY <1>2, <1>5, <1>6 DEF Client

(* A descriptor that epoll reports is in nobody's hands: it was ready.       *)
LEMMA EpollWaitOwn ==
  ASSUME AllPatient, IInv, OwnInv, EpollWait
  PROVE  OwnInv'
<1> USE ServerAssumption DEF OwnInv
<1>1. /\ batch' = {EventOf(f) : f \in {g \in ready : Pollable(g)}}
      /\ ready' = {}
      /\ UNCHANGED <<table, rx, sent, peer, queue, hand, wpc, req, got>>
  BY DEF EpollWait, work, past
<1>2. /\ KernelTypes
      /\ \A i \in DOMAIN queue : queue[i].fd # Main
      /\ \A w \in Workers : Busy(w) => hand[w].fd # Main
  BY DEF IInv, TypeOK, MainKept, Busy
<1>3. ASSUME NEW f \in ready, Pollable(f), NEW e, e = EventOf(f)
      PROVE  e.fd = f /\ Current(e)'
  <2>1. CASE f = Main
    BY <1>3, <2>1 DEF EventOf, Current
  <2>2. CASE f # Main
    <3>1. f \in Fds /\ table[f] \in Conns /\ peer[table[f]] = "up"
      BY <1>2, <1>3, <2>2 DEF KernelTypes, Pollable, OneRequestEach
    <3>2. e.fd = f /\ e.of = table[f] /\ ~e.closes
      BY <1>3, <2>2, <3>1 DEF EventOf
    <3>3. sent[table[f]] > 0
      BY <1>3, <2>2, <3>1 DEF Pollable, OneRequestEach
    <3> QED BY <1>1, <2>2, <3>1, <3>2, <3>3 DEF Current
  <2> QED BY <2>1, <2>2
<1>4. \A e : Current(e) => Current(e)'
  BY <1>1 DEF Current
<1>5. AllCurrent'
  <2>1. \A e \in batch' : Current(e)'
    BY <1>1, <1>3
  <2> QED BY <1>1, <1>4, <2>1 DEF AllCurrent, Busy
<1>6. BatchDistinct'
  <2>1. \A d, e \in batch' : d.fd = e.fd => d = e
    BY <1>1, <1>3
  <2>2. ASSUME NEW e \in batch', NEW i \in DOMAIN queue PROVE e.fd # queue[i].fd
    BY <1>1, <1>2, <1>3, <2>2 DEF AllCurrent, Current
  <2>3. ASSUME NEW e \in batch', NEW w \in Workers, Busy(w)
        PROVE  e.fd # hand[w].fd
    BY <1>1, <1>2, <1>3, <2>3 DEF AllCurrent, Current
  <2> QED BY <1>1, <2>1, <2>2, <2>3 DEF BatchDistinct, Busy
<1>7. QueueDistinct' /\ HandsDistinct'
  BY <1>1 DEF QueueDistinct, HandsDistinct, Busy
<1>8. OneRequestEach' /\ ServesOwn' /\ GotOwn'
  BY <1>1 DEF OneRequestEach, ServesOwn, GotOwn
<1> QED
  BY <1>5, <1>6, <1>7, <1>8

(* Handling an event: nothing closes a patient client's connection here, and *)
(* a descriptor moves from the batch to the queue.                           *)
LEMMA LoopEventOwn ==
  ASSUME AllPatient, IInv, OwnInv, NEW e \in batch,
         LoopClose(e) \/ LoopMain(e) \/ LoopPush(e)
  PROVE  OwnInv'
<1> USE DEF OwnInv
<1>1. ~LoopClose(e)
  BY DEF LoopClose, AllCurrent, Current, IInv, TypeOK, MainKept
<1>2. /\ batch' = batch \ {e}
      /\ UNCHANGED <<table, rx, sent, peer, ready, hand, wpc, req, got>>
  BY <1>1 DEF LoopMain, LoopPush, Handled, Q!Push, kernel, work, past
<1>3. \A d : Current(d) => Current(d)'
  BY <1>2 DEF Current
<1>4. OneRequestEach' /\ HandsDistinct' /\ ServesOwn' /\ GotOwn'
  BY <1>2 DEF OneRequestEach, HandsDistinct, ServesOwn, GotOwn, Busy
<1>5. CASE LoopMain(e)
  <2>1. UNCHANGED queue
    BY <1>5 DEF LoopMain
  <2>2. AllCurrent'
    BY <1>2, <1>3, <2>1 DEF AllCurrent, Busy
  <2>3. BatchDistinct' /\ QueueDistinct'
    BY <1>2, <2>1 DEF BatchDistinct, QueueDistinct, Busy
  <2> QED BY <1>4, <2>2, <2>3
<1>6. CASE LoopPush(e)
  <2>1. /\ queue \in Seq(Events) /\ e \in Events
        /\ queue' = Append(queue, e)
    BY <1>6 DEF LoopPush, Q!Push, IInv, TypeOK, LoopTypes
  <2>2. /\ DOMAIN queue' = (DOMAIN queue) \cup {Len(queue) + 1}
        /\ Len(queue) + 1 \notin DOMAIN queue
        /\ \A i \in DOMAIN queue : queue'[i] = queue[i]
        /\ queue'[Len(queue) + 1] = e
    BY <2>1
  <2>3. AllCurrent'
    BY <1>2, <1>3, <2>2 DEF AllCurrent, Busy
  <2>4. BatchDistinct'
    BY <1>2, <2>2 DEF BatchDistinct, Busy
  <2>5. QueueDistinct'
    BY <1>2, <2>2 DEF BatchDistinct, QueueDistinct, Busy
  <2> QED BY <1>4, <2>3, <2>4, <2>5
<1> QED
  BY <1>1, <1>5, <1>6

(* accept() gives out a number that is closed, hence in nobody's hands.      *)
LEMMA AcceptOwn ==
  ASSUME AllPatient, IInv, OwnInv, Accept \/ AcceptDone \/ AcceptFail
  PROVE  OwnInv'
<1> USE ServerAssumption
<1>1. KernelTypes /\ OneRequestEach /\ AllCurrent
  BY DEF IInv, TypeOK, OwnInv
<1>2. UNCHANGED <<batch, queue, hand, wpc, req, got, rx, sent, peer>>
  BY DEF Accept, AcceptDone, AcceptFail, kernel, loop, work, past
<1>3. /\ BatchDistinct' /\ QueueDistinct' /\ HandsDistinct'
      /\ ServesOwn' /\ GotOwn'
  BY <1>2, DistinctUntouched
<1>4. OneRequestEach'
  BY <1>1, <1>2 DEF OneRequestEach
<1>5. ASSUME NEW e, Current(e) PROVE Current(e)'
  <2>1. CASE Accept
    <3>1. PICK f \in Fds : /\ table[f] = NoConn
                           /\ table' = [table EXCEPT ![f] = Head(backlog)]
                           /\ ready' = ready \cup {f}
      BY <2>1 DEF Accept, FreeFds
    <3>2. e.fd # Main => e.fd # f
      BY <1>5, <3>1 DEF Current
    <3> QED BY <1>1, <1>2, <1>5, <3>1, <3>2 DEF Current, KernelTypes
  <2>2. CASE AcceptDone \/ AcceptFail
    BY <1>5, <2>2 DEF AcceptDone, AcceptFail, kernel, Current
  <2> QED BY <2>1, <2>2
<1>6. AllCurrent'
  BY <1>1, <1>2, <1>5 DEF AllCurrent, Busy
<1> QED
  BY <1>3, <1>4, <1>6 DEF OwnInv

LEMMA PopOwn ==
  ASSUME IInv, OwnInv, NEW w \in Workers, Pop(w)
  PROVE  OwnInv'
<1> USE DEF OwnInv
<1>1. /\ wpc[w] = "pop" /\ wpc' = [wpc EXCEPT ![w] = "read"]
      /\ queue # <<>> /\ queue' = Tail(queue)
      /\ hand' = [hand EXCEPT ![w] = Head(queue)]
      /\ UNCHANGED <<table, rx, sent, peer, ready, batch, req, got>>
      /\ WorkerTypes /\ queue \in Seq(Events)
  BY DEF Pop, Q!Pop, kernel, loop, past, IInv, TypeOK, LoopTypes
<1>2. /\ Head(queue) = queue[1] /\ 1 \in DOMAIN queue
      /\ DOMAIN queue' = 1..(Len(queue) - 1)
      /\ \A i \in DOMAIN queue' : /\ queue'[i] = queue[i + 1]
                                  /\ i + 1 \in DOMAIN queue /\ i + 1 # 1
                                  /\ i \in Nat
  BY <1>1
<1>3. \A e : Current(e) => Current(e)'
  BY <1>1 DEF Current
<1>4. /\ hand'[w] = queue[1]
      /\ \A v \in Workers \ {w} : hand'[v] = hand[v] /\ (Busy(v)' => Busy(v))
  BY <1>1, <1>2 DEF WorkerTypes, Busy
<1>5. AllCurrent'
  BY <1>1, <1>2, <1>3, <1>4 DEF AllCurrent
<1>6. BatchDistinct'
  BY <1>1, <1>2, <1>4 DEF BatchDistinct
<1>7. QueueDistinct'
  <2>1. \A i, j \in DOMAIN queue' : i # j => queue'[i].fd # queue'[j].fd
    BY <1>2 DEF QueueDistinct
  <2>2. ASSUME NEW i \in DOMAIN queue', NEW v \in Workers, Busy(v)'
        PROVE  queue'[i].fd # hand'[v].fd
    BY <1>2, <1>4, <2>2 DEF QueueDistinct
  <2> QED BY <2>1, <2>2 DEF QueueDistinct
<1>8. HandsDistinct'
  BY <1>2, <1>4 DEF HandsDistinct, QueueDistinct
<1>9. OneRequestEach' /\ GotOwn'
  BY <1>1 DEF OneRequestEach, GotOwn
<1>10. ServesOwn'
  BY <1>1 DEF ServesOwn, WorkerTypes
<1> QED
  BY <1>5, <1>6, <1>7, <1>8, <1>9, <1>10

(* A step inside the handler keeps the descriptor in hand, and what it       *)
(* leaves behind must be the worker's own request and reader.                *)
LEMMA HandlerOwn ==
  ASSUME WorkerTypes, OwnInv, NEW w \in Workers, Busy(w),
         NEW to \in {"read", "head", "body", "answer", "close"},
         wpc' = [wpc EXCEPT ![w] = to],
         OneRequestEach', GotOwn', ServesOwn',
         UNCHANGED <<table, sent, ready, batch, queue, hand>>
  PROVE  OwnInv'
<1> USE DEF OwnInv
<1>1. \A v \in Workers : Busy(v)' <=> Busy(v)
  BY DEF Busy, WorkerTypes
<1>2. \A e : Current(e) => Current(e)'
  BY DEF Current
<1>3. AllCurrent'
  BY <1>1, <1>2 DEF AllCurrent
<1>4. BatchDistinct' /\ QueueDistinct' /\ HandsDistinct'
  BY <1>1 DEF BatchDistinct, QueueDistinct, HandsDistinct
<1> QED
  BY <1>3, <1>4

(* The number in hand is closed; it is in nobody else's hands.               *)
LEMMA CloseOwn ==
  ASSUME IInv, OwnInv, NEW w \in Workers, Close(w)
  PROVE  OwnInv'
<1> USE ServerAssumption DEF OwnInv
<1>1. /\ wpc[w] = "close" /\ wpc' = [wpc EXCEPT ![w] = "pop"]
      /\ hand' = [hand EXCEPT ![w] = NoEvent]
      /\ req' = [req EXCEPT ![w] = NoConn]
      /\ KernelTypes /\ WorkerTypes
      /\ UNCHANGED <<batch, queue, got, sent, peer>>
  BY DEF Close, Goto, Q!Finish, loop, past, CloseFd, IInv, TypeOK
<1>2. PICK f : f = hand[w].fd
  OBVIOUS
<1>3. /\ table' = [table EXCEPT ![f] = NoConn]
      /\ ready' = ready \ {f}
      /\ \A c \in Conns : rx'[c] > 0 => rx[c] > 0
  BY <1>1, <1>2 DEF Close, CloseFd, KernelTypes
<1>4. \A v \in Workers : Busy(v)' <=> v # w /\ Busy(v)
  BY <1>1 DEF Busy, WorkerTypes
<1>5. \A v \in Workers \ {w} : hand'[v] = hand[v]
  BY <1>1 DEF WorkerTypes
<1>6. \A e : Current(e) /\ e.fd # f => Current(e)'
  BY <1>1, <1>3 DEF Current, KernelTypes
<1>7. AllCurrent'
  <2>1. Busy(w)
    BY <1>1 DEF Busy
  <2>2. \A e \in batch' : Current(e)'
    BY <1>1, <1>2, <1>6, <2>1 DEF AllCurrent, BatchDistinct
  <2>3. ASSUME NEW i \in DOMAIN queue, NEW e, e = queue[i] PROVE Current(e)'
    BY <1>1, <1>2, <1>6, <2>1, <2>3 DEF AllCurrent, QueueDistinct
  <2>4. ASSUME NEW v \in Workers, Busy(v)', NEW e, e = hand'[v]
        PROVE  Current(e)'
    BY <1>2, <1>4, <1>5, <1>6, <2>1, <2>4 DEF AllCurrent, HandsDistinct
  <2> QED BY <1>1, <2>2, <2>3, <2>4 DEF AllCurrent
<1>8. BatchDistinct' /\ QueueDistinct' /\ HandsDistinct'
  BY <1>1, <1>4, <1>5 DEF BatchDistinct, QueueDistinct, HandsDistinct
<1>9. OneRequestEach' /\ GotOwn'
  BY <1>1, <1>3 DEF OneRequestEach, GotOwn
<1>10. ServesOwn'
  BY <1>1 DEF ServesOwn, WorkerTypes
<1> QED
  BY <1>7, <1>8, <1>9, <1>10

LEMMA WorkerOwn ==
  ASSUME AllPatient, IInv, OwnInv, NEW w \in Workers, Worker(w)
  PROVE  OwnInv'
<1> USE ServerAssumption
<1>0. /\ KernelTypes /\ WorkerTypes /\ HistoryTypes
      /\ OneRequestEach /\ AllCurrent /\ ServesOwn /\ GotOwn
  BY DEF IInv, TypeOK, OwnInv
<1>1. Busy(w) => /\ hand[w] \in Events /\ hand[w].fd \in Fds
                 /\ Target(w) = hand[w].of /\ Target(w) \in Conns
                 /\ peer[Target(w)] = "up"
  <2> SUFFICES ASSUME Busy(w)
               PROVE  /\ hand[w] \in Events /\ hand[w].fd \in Fds
                      /\ Target(w) = hand[w].of /\ Target(w) \in Conns
                      /\ peer[Target(w)] = "up"
    OBVIOUS
  <2>1. hand[w] \in Events /\ hand[w].fd # Main
    BY <1>0 DEF Busy, WorkerTypes, IInv, TypeOK, HandsFull, MainKept
  <2>2. Current(hand[w])
    BY <1>0 DEF AllCurrent
  <2> QED BY <1>0, <2>1, <2>2 DEF Current, Target, OneRequestEach
<1>2. /\ ~WriteFails(w) /\ ~AnswerFails(w) /\ ~RespondFails(w) /\ ~BrokenPipe(w)
      /\ ~Respond(w) /\ ~ReadEnd(w)
  <2>1. ~WriteThrows(w) \/ wpc[w] \notin {"head", "body", "answer", "respond"}
    BY <1>1 DEF WriteThrows, Busy
  <2>2. ~WriteFails(w) /\ ~AnswerFails(w) /\ ~RespondFails(w)
    BY <2>1 DEF WriteFails, AnswerFails, RespondFails, Goto
  <2>3. ~Respond(w)
    BY <1>0 DEF Respond, Goto, ServesOwn
  <2>4. ~BrokenPipe(w) /\ ~ReadEnd(w)
    BY <1>1 DEF BrokenPipe, ReadEnd, AtEnd, Goto, Busy
  <2> QED BY <2>2, <2>3, <2>4
<1>3. CASE ReadRequest(w)
  <2>1. PICK to \in {"head", "answer", "close"} :
          /\ Busy(w) /\ wpc' = [wpc EXCEPT ![w] = to]
          /\ rx' = [rx EXCEPT ![Target(w)] = 0]
          /\ req' = [req EXCEPT ![w] = Target(w)]
          /\ UNCHANGED <<peer, sent, got, table, ready, batch, queue, hand>>
    BY <1>3 DEF ReadRequest, Goto, Busy, loop
  <2>3. OneRequestEach' /\ GotOwn'
    BY <1>0, <2>1 DEF OneRequestEach, GotOwn, KernelTypes
  <2>4. ServesOwn'
    BY <1>0, <1>1, <2>1 DEF ServesOwn, WorkerTypes
  <2> QED BY <1>0, <2>1, <2>3, <2>4, HandlerOwn
<1>4. ASSUME NEW to \in {"body", "close"},
             Busy(w), wpc' = [wpc EXCEPT ![w] = to],
             to = "body" => wpc[w] = "head",
             GotOwn', UNCHANGED <<kernel, loop, queue, hand, req>>
      PROVE  OwnInv'
  <2>1. UNCHANGED <<table, rx, sent, peer, ready, batch, queue, hand, req>>
    BY <1>4 DEF kernel, loop
  <2>2. OneRequestEach'
    BY <1>0, <2>1 DEF OneRequestEach
  <2>3. ServesOwn'
    BY <1>0, <1>4, <2>1 DEF ServesOwn, WorkerTypes
  <2> QED BY <1>0, <1>4, <2>1, <2>2, <2>3, HandlerOwn
<1>5. ASSUME wpc[w] \in {"head", "body", "answer"}, Deliver(w)
      PROVE  GotOwn'
  <2>1. req[w] = Target(w)
    BY <1>0, <1>1, <1>5 DEF ServesOwn, Busy
  <2> QED BY <1>0, <1>5, <2>1 DEF Deliver, GotOwn, HistoryTypes
<1>6. CASE ReadFails(w)
  <2>1. GotOwn'
    BY <1>0, <1>6 DEF ReadFails, GotOwn, past
  <2> QED BY <1>4, <1>6, <2>1 DEF ReadFails, Goto, Busy
<1>7. CASE WriteHead(w) \/ WriteBody(w) \/ Answer(w)
  BY <1>4, <1>5, <1>7 DEF WriteHead, WriteBody, Answer, Goto, Busy
<1>9. CASE Close(w)
  BY <1>9, CloseOwn
<1> QED
  BY <1>2, <1>3, <1>6, <1>7, <1>9 DEF Worker
------------------------------------------------------------------------------
LEMMA NextOwn == AllPatient /\ IInv /\ OwnInv /\ [Next]_vars => OwnInv'
<1> SUFFICES ASSUME AllPatient, IInv, OwnInv, [Next]_vars PROVE OwnInv'
  OBVIOUS
<1>1. ASSUME NEW c \in Conns, Client(c) PROVE OwnInv'
  BY <1>1, ClientOwn
<1>2. CASE Loop
  BY <1>2, EpollWaitOwn, AcceptOwn, LoopEventOwn DEF Loop
<1>3. ASSUME NEW w \in Workers, Pop(w) \/ Worker(w) PROVE OwnInv'
  BY <1>3, PopOwn, WorkerOwn
<1>4. CASE UNCHANGED vars
  <2>1. UNCHANGED <<table, rx, sent, peer, ready, batch, queue, hand, wpc, req, got>>
    BY <1>4 DEF vars, kernel, loop, work, past
  <2>2. AllCurrent' /\ OneRequestEach'
    BY <2>1 DEF OwnInv, AllCurrent, Current, OneRequestEach, Busy
  <2> QED BY <2>1, <2>2, DistinctUntouched DEF OwnInv
<1> QED
  BY <1>1, <1>2, <1>3, <1>4 DEF Next

LEMMA OwnInvImplies == IInv /\ OwnInv => OwnConnection
<1> SUFFICES ASSUME IInv, OwnInv PROVE OwnConnection
  OBVIOUS
<1>1. ASSUME NEW w \in Workers, wpc[w] # "pop" PROVE Target(w) = hand[w].of
  BY <1>1 DEF IInv, TypeOK, MainKept, OwnInv, AllCurrent, Current, Busy, Target
<1>2. \A v, w \in Workers :
        v # w /\ wpc[v] # "pop" /\ wpc[w] # "pop" => hand[v].fd # hand[w].fd
  BY DEF OwnInv, HandsDistinct, Busy
<1>3. \A c \in Conns : got[c] \subseteq {c}
  BY DEF OwnInv, GotOwn
<1> QED
  BY <1>1, <1>2, <1>3 DEF OwnConnection

(* With patient clients, descriptor reuse confuses nobody: each worker acts  *)
(* on the connection its event was reported for, alone, and the response     *)
(* goes to the client that asked, for any number of connections,             *)
(* descriptors and workers.                                                  *)
THEOREM OwnConnectionKept == Spec => []OwnConnection
<1>1. CASE AllPatient
  <2>1. Init => OwnInv
    BY OwnInit
  <2>2. IInv /\ OwnInv /\ [Next]_vars => OwnInv'
    BY <1>1, NextOwn
  <2>3. IInv /\ OwnInv => OwnConnection
    BY OwnInvImplies
  <2> QED BY <2>1, <2>2, <2>3, Invariance, PTL DEF Spec
<1>2. CASE ~AllPatient
  <2>1. OwnConnection
    BY <1>2 DEF OwnConnection
  <2> QED BY <2>1, PTL
<1> QED
  BY <1>1, <1>2
==============================================================================
