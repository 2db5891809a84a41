------------------------------ MODULE FifoQueue ------------------------------
(***************************************************************************)
(* What include/thread_safe_queue.hh promises to its callers: a FIFO of    *)
(* values in which push() and pop() each take effect at one instant.  The  *)
(* mutex, the condition variable and the steps between them are absent     *)
(* here; ThreadSafeQueue is the detailed queue and implements this one.    *)
(* Server uses these two actions for its `queue' member.                   *)
(***************************************************************************)
EXTENDS Sequences

CONSTANTS Consumers, Values, NoValue

VARIABLES
  queue,  \* the values pushed and not yet popped, oldest first
  hand    \* hand[c]: the value pop() gave consumer c, NoValue between two calls

vars == <<queue, hand>>

Init ==
  /\ queue = <<>>
  /\ hand = [c \in Consumers |-> NoValue]

(* push() returns nothing and can always be called. *)
Push(v) ==
  /\ queue' = Append(queue, v)
  /\ UNCHANGED hand

(* pop() blocks on an empty queue; otherwise it removes the oldest value. *)
Pop(c) ==
  /\ queue # <<>>
  /\ hand[c] = NoValue
  /\ hand' = [hand EXCEPT ![c] = Head(queue)]
  /\ queue' = Tail(queue)

(* The consumer has dealt with its value and is about to call pop() again. *)
Finish(c) ==
  /\ hand[c] # NoValue
  /\ hand' = [hand EXCEPT ![c] = NoValue]
  /\ UNCHANGED queue

Next ==
  \/ \E v \in Values : Push(v)
  \/ \E c \in Consumers : Pop(c) \/ Finish(c)

SafeSpec == Init /\ [][Next]_vars

(* A value does not stay in the queue while some consumer is inside pop(). *)
Spec == SafeSpec /\ WF_vars(\E c \in Consumers : Pop(c))
==============================================================================
