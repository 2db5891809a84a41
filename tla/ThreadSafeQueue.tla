--------------------------- MODULE ThreadSafeQueue ---------------------------
(***************************************************************************)
(* include/thread_safe_queue.hh: a std::queue guarded by a std::mutex, with *)
(* a std::condition_variable on which pop() waits for the queue to become   *)
(* non-empty.  One action per statement that touches shared state, so every *)
(* interleaving of the threads' statements is a behaviour.  Consumers are   *)
(* the worker threads of include/server/server.hh, whose loop is            *)
(* `for (;;) worker_function(queue.pop(), ...)'.                            *)
(***************************************************************************)
EXTENDS Naturals, Sequences

CONSTANTS
  Producers,  \* threads that call push()
  Consumers,  \* threads that call pop()
  Values,     \* what is queued: socket descriptors
  NoValue,    \* an empty local variable
  NoThread,   \* owner of the free mutex
  MaxPushes   \* BOUND: no push() starts once this many values were pushed

Threads == Producers \cup Consumers

ASSUME QueueAssumption ==
  /\ Producers \cap Consumers = {}
  /\ NoThread \notin Threads
  /\ NoValue \notin Values
  /\ MaxPushes \in Nat

VARIABLES
  q,       \* the std::queue
  mx,      \* the thread that owns the mutex, or NoThread
  cv,      \* the threads blocked in cv.wait()
  pc,      \* where each thread is
  val,     \* push()'s argument, pop()'s local x
  pushed,  \* history: values in the order q.emplace() appended them
  popped   \* history: values pop() removed, in the order of q.pop()

vars == <<q, mx, cv, pc, val, pushed, popped>>

(* "outside" and "handler": outside the class; "lock": at a lock or blocked *)
(* re-locking inside wait(); "sleep": in wait(); the rest own the mutex,    *)
(* except "notify", after push()'s inner scope has ended.                   *)
ProducerPC == {"outside", "lock", "emplace", "release", "notify"}
ConsumerPC == {"lock", "test", "sleep", "take", "return", "handler"}
Owning     == {"emplace", "release", "test", "take", "return"}

Init ==
  /\ q = <<>>
  /\ mx = NoThread
  /\ cv = {}
  /\ pc = [t \in Threads |-> IF t \in Producers THEN "outside" ELSE "lock"]
  /\ val = [t \in Threads |-> NoValue]
  /\ pushed = <<>>
  /\ popped = <<>>

Goto(t, from, to) ==
  /\ pc[t] = from
  /\ pc' = [pc EXCEPT ![t] = to]
------------------------------------------------------------------------------
(* std::lock_guard / std::unique_lock: the constructor blocks until the     *)
(* mutex is free.  A consumer woken from wait() re-locks the same way.      *)
Lock(t) ==
  /\ mx = NoThread
  /\ mx' = t
  /\ Goto(t, "lock", IF t \in Producers THEN "emplace" ELSE "test")
  /\ UNCHANGED <<q, cv, val, pushed, popped>>

(* push(args) is called. *)
PushCall(p, v) ==
  /\ Len(pushed) < MaxPushes
  /\ Goto(p, "outside", "lock")
  /\ val' = [val EXCEPT ![p] = v]
  /\ UNCHANGED <<q, mx, cv, pushed, popped>>

(* Slips to compare with: the argument was moved from before it is queued,  *)
(* and it is queued at the wrong end.                                       *)
PushEmplaceMoved(p) ==
  /\ Goto(p, "emplace", "release")
  /\ q' = Append(q, NoValue)
  /\ pushed' = Append(pushed, NoValue)
  /\ UNCHANGED <<mx, cv, val, popped>>
PushEmplaceFront(p) ==
  /\ Goto(p, "emplace", "release")
  /\ q' = <<val[p]>> \o q
  /\ pushed' = Append(pushed, val[p])
  /\ UNCHANGED <<mx, cv, val, popped>>

(* q.emplace(std::forward<Args>(args)...) *)
PushEmplace(p) ==
  /\ Goto(p, "emplace", "release")
  /\ q' = Append(q, val[p])
  /\ pushed' = Append(pushed, val[p])
  /\ UNCHANGED <<mx, cv, val, popped>>

(* A slip to compare with: push() returns without a notification. *)
PushReleaseQuiet(p) ==
  /\ Goto(p, "release", "outside")
  /\ mx' = NoThread
  /\ val' = [val EXCEPT ![p] = NoValue]
  /\ UNCHANGED <<q, cv, pushed, popped>>

(* The lock_guard's scope ends before the notification. *)
PushRelease(p) ==
  /\ Goto(p, "release", "notify")
  /\ mx' = NoThread
  /\ UNCHANGED <<q, cv, val, pushed, popped>>

(* A slip to compare with: notify only when the queue was empty before.    *)
PushNotifyIfFirst(p) ==
  /\ pc[p] = "notify"
  /\ cv' = IF Len(q) = 1 THEN {} ELSE cv
  /\ pc' = [t \in Threads |-> IF t = p THEN "outside"
                              ELSE IF t \in cv \ cv' THEN "lock" ELSE pc[t]]
  /\ val' = [val EXCEPT ![p] = NoValue]
  /\ UNCHANGED <<q, mx, pushed, popped>>

(* cv.notify_all(): every thread blocked in wait() goes on to re-lock. *)
PushNotify(p) ==
  /\ pc[p] = "notify"
  /\ cv' = {}
  /\ pc' = [t \in Threads |-> IF t = p THEN "outside"
                              ELSE IF t \in cv THEN "lock" ELSE pc[t]]
  /\ val' = [val EXCEPT ![p] = NoValue]
  /\ UNCHANGED <<q, mx, pushed, popped>>
------------------------------------------------------------------------------
(* while (q.empty()) cv.wait(lock): wait() releases the mutex and blocks in *)
(* one step, as the condition variable guarantees.                          *)
PopWait(c) ==
  /\ q = <<>>
  /\ Goto(c, "test", "sleep")
  /\ cv' = cv \cup {c}
  /\ mx' = NoThread
  /\ UNCHANGED <<q, val, pushed, popped>>

(* auto x = std::move(q.front()) *)
PopFront(c) ==
  /\ q # <<>>
  /\ Goto(c, "test", "take")
  /\ val' = [val EXCEPT ![c] = Head(q)]
  /\ UNCHANGED <<q, mx, cv, pushed, popped>>

(* q.pop() *)
PopTake(c) ==
  /\ Goto(c, "take", "return")
  /\ q' = Tail(q)
  /\ popped' = Append(popped, val[c])
  /\ UNCHANGED <<mx, cv, val, pushed>>

(* return x: the unique_lock's destructor releases the mutex. *)
PopReturn(c) ==
  /\ Goto(c, "return", "handler")
  /\ mx' = NoThread
  /\ UNCHANGED <<q, cv, val, pushed, popped>>

(* wait() may return without a notification. *)
SpuriousWake(c) ==
  /\ c \in cv
  /\ Goto(c, "sleep", "lock")
  /\ cv' = cv \ {c}
  /\ UNCHANGED <<q, mx, val, pushed, popped>>

(* worker_function returned or threw; the loop calls pop() again. *)
HandlerDone(c) ==
  /\ Goto(c, "handler", "lock")
  /\ val' = [val EXCEPT ![c] = NoValue]
  /\ UNCHANGED <<q, mx, cv, pushed, popped>>
------------------------------------------------------------------------------
ProducerStep(p) == PushEmplace(p) \/ PushRelease(p) \/ PushNotify(p)

ConsumerStep(c) ==
  PopWait(c) \/ PopFront(c) \/ PopTake(c) \/ PopReturn(c) \/ HandlerDone(c)

Next ==
  \/ \E t \in Threads : Lock(t)
  \/ \E p \in Producers, v \in Values : PushCall(p, v)
  \/ \E p \in Producers : ProducerStep(p)
  \/ \E c \in Consumers : ConsumerStep(c) \/ SpuriousWake(c)

(* The scheduler runs every runnable thread, and a free mutex that threads  *)
(* are queued for is given to some thread: nothing says to which.           *)
Fairness ==
  /\ WF_vars(\E t \in Threads : Lock(t))
  /\ \A p \in Producers : WF_vars(ProducerStep(p))
  /\ \A c \in Consumers : WF_vars(ConsumerStep(c))

Spec == Init /\ [][Next]_vars /\ Fairness
------------------------------------------------------------------------------
(* Types of the variables, and which program counters each role can have.   *)
TypeOK ==
  /\ q \in Seq(Values)
  /\ mx \in Threads \cup {NoThread}
  /\ cv \subseteq Consumers
  /\ pc \in [Threads -> ProducerPC \cup ConsumerPC]
  /\ \A p \in Producers : pc[p] \in ProducerPC
  /\ \A c \in Consumers : pc[c] \in ConsumerPC
  /\ val \in [Threads -> Values \cup {NoValue}]
  /\ pushed \in Seq(Values)
  /\ popped \in Seq(Values)

(* The mutex is owned by the one thread that is between a lock and the      *)
(* matching release, and by no one when there is none.                      *)
MutexOwned == \A t \in Threads : mx = t <=> pc[t] \in Owning

(* The wait set is exactly the set of consumers that sit in cv.wait().      *)
WaitSetOK == \A t \in Threads : t \in cv <=> pc[t] = "sleep"

(* Lines 26 and 27 act on the same element: while a consumer is between     *)
(* them its x is still the front.                                           *)
FrontHeld ==
  \A c \in Consumers : pc[c] = "take" => q # <<>> /\ val[c] = Head(q)

(* What a producer was given stays with it until its push() has returned.   *)
ArgumentHeld ==
  \A p \in Producers : pc[p] # "outside" => val[p] \in Values

(* No push is lost on a sleeper: if values are queued while a consumer is   *)
(* blocked in wait(), some producer is still to execute notify_all().       *)
NoLostWakeup ==
  (q # <<>> /\ cv # {}) => \E p \in Producers : pc[p] \in {"release", "notify"}

(* What consumers got, followed by what is queued, is what was pushed in    *)
(* the order it was pushed: no value is lost, duplicated or overtaken, with *)
(* any number of threads in push() and pop().                               *)
InOrderExactlyOnce == pushed = popped \o q

(* The values in hand, as the abstract queue sees them.                     *)
Hand == [c \in Consumers |->
           IF pc[c] \in {"return", "handler"} THEN val[c] ELSE NoValue]

Fifo == INSTANCE FifoQueue WITH queue <- q, hand <- Hand

(* push() and pop() behave as if atomic, and a queued value is eventually   *)
(* popped if some worker keeps returning to pop().                          *)
ImplementsFifo == Fifo!Spec
==============================================================================
