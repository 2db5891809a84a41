------------------------ MODULE ThreadSafeQueueProofs ------------------------
(***************************************************************************)
(* Proofs about ThreadSafeQueue for any threads, values and bound: the      *)
(* mutex discipline, no lost wakeup, exactly-once FIFO order, and the       *)
(* step-by-step implementation of FifoQueue.                                *)
(***************************************************************************)
EXTENDS ThreadSafeQueue, TLAPS

(* The inductive invariant.  NoLostWakeup and InOrderExactlyOnce are the     *)
(* goals; FrontHeld is what InOrderExactlyOnce needs when pop() removes the  *)
(* element it copied, and holds because MutexOwned excludes a second         *)
(* consumer between the two statements; ArgumentHeld types what is queued.   *)
IInv ==
  /\ TypeOK
  /\ MutexOwned
  /\ WaitSetOK
  /\ FrontHeld
  /\ ArgumentHeld
  /\ NoLostWakeup
  /\ InOrderExactlyOnce

(* Moving the head of one sequence to the end of another keeps the whole.    *)
LEMMA MoveHead ==
  ASSUME NEW S, NEW r \in Seq(S), NEW s \in Seq(S), s # <<>>
  PROVE  Append(r, Head(s)) \o Tail(s) = r \o s
  BY SMTT(30)

(* Appending to the queued part is appending to the whole history.           *)
LEMMA AppendQueued ==
  ASSUME TypeOK, NEW v \in Values
  PROVE  Append(popped \o q, v) = popped \o Append(q, v)
<1>1. q \in Seq(Values) /\ popped \in Seq(Values)
  BY DEF TypeOK
<1> QED
  BY <1>1, SMTT(30)

(* Under the mutex discipline two threads never both hold the mutex.         *)
LEMMA OneOwner ==
  ASSUME MutexOwned, NEW t \in Threads, NEW u \in Threads,
         pc[t] \in Owning, pc[u] \in Owning
  PROVE  t = u
  BY DEF MutexOwned

LEMMA InitInv == Init => IInv
<1> SUFFICES ASSUME Init PROVE IInv
  OBVIOUS
<1> USE QueueAssumption DEF Init, Threads
<1>1. TypeOK
  BY DEF TypeOK, ProducerPC, ConsumerPC
<1>2. MutexOwned /\ WaitSetOK
  BY DEF MutexOwned, WaitSetOK, Owning
<1>3. FrontHeld /\ ArgumentHeld /\ NoLostWakeup
  BY DEF FrontHeld, ArgumentHeld, NoLostWakeup
<1>4. InOrderExactlyOnce
  BY DEF InOrderExactlyOnce
<1> QED
  BY <1>1, <1>2, <1>3, <1>4 DEF IInv

(* Every statement preserves the inductive invariant.                        *)
LEMMA NextInv == IInv /\ [Next]_vars => IInv'
<1> SUFFICES ASSUME IInv, [Next]_vars PROVE IInv'
  OBVIOUS
<1> USE QueueAssumption
<1> USE DEF IInv
<1>1. ASSUME NEW t \in Threads, Lock(t) PROVE IInv'
  <2> USE <1>1 DEF Lock, Goto
  <2>1. TypeOK'
    BY DEF TypeOK, Threads, ProducerPC, ConsumerPC
  <2>2. MutexOwned' /\ WaitSetOK'
    BY DEF TypeOK, MutexOwned, WaitSetOK, Threads, Owning
  <2>3. FrontHeld' /\ ArgumentHeld'
    BY DEF TypeOK, FrontHeld, ArgumentHeld, Threads
  <2>4. NoLostWakeup' /\ InOrderExactlyOnce'
    BY DEF TypeOK, NoLostWakeup, InOrderExactlyOnce, Threads
  <2> QED BY <2>1, <2>2, <2>3, <2>4
<1>2. ASSUME NEW p \in Producers, NEW v \in Values, PushCall(p, v) PROVE IInv'
  <2> USE <1>2 DEF PushCall, Goto
  <2>1. TypeOK'
    BY DEF TypeOK, Threads, ProducerPC, ConsumerPC
  <2>2. MutexOwned' /\ WaitSetOK'
    BY DEF TypeOK, MutexOwned, WaitSetOK, Threads, Owning
  <2>3. FrontHeld' /\ ArgumentHeld'
    BY DEF TypeOK, FrontHeld, ArgumentHeld, Threads
  <2>4. NoLostWakeup' /\ InOrderExactlyOnce'
    BY DEF TypeOK, NoLostWakeup, InOrderExactlyOnce, Threads
  <2> QED BY <2>1, <2>2, <2>3, <2>4
<1>3. ASSUME NEW p \in Producers, PushEmplace(p) PROVE IInv'
  <2> USE <1>3 DEF PushEmplace, Goto
  <2>0. val[p] \in Values
    BY DEF ArgumentHeld
  <2>1. TypeOK'
    BY <2>0 DEF TypeOK, Threads, ProducerPC, ConsumerPC
  <2>2. MutexOwned' /\ WaitSetOK'
    BY DEF TypeOK, MutexOwned, WaitSetOK, Threads, Owning
  <2>3. FrontHeld'
    <3>1. \A c \in Consumers : pc'[c] # "take"
      BY OneOwner DEF TypeOK, Threads, Owning
    <3> QED BY <3>1 DEF FrontHeld
  <2>4. ArgumentHeld'
    BY DEF TypeOK, ArgumentHeld, Threads
  <2>5. NoLostWakeup'
    <3>1. pc'[p] = "release"
      BY DEF TypeOK, Threads
    <3> QED BY <3>1 DEF NoLostWakeup
  <2>6. InOrderExactlyOnce'
    <3>1. Append(popped \o q, val[p]) = popped \o Append(q, val[p])
      BY <2>0, AppendQueued
    <3> QED BY <3>1 DEF InOrderExactlyOnce
  <2> QED BY <2>1, <2>2, <2>3, <2>4, <2>5, <2>6
<1>4. ASSUME NEW p \in Producers, PushRelease(p) PROVE IInv'
  <2> USE <1>4 DEF PushRelease, Goto
  <2>1. TypeOK'
    BY DEF TypeOK, Threads, ProducerPC, ConsumerPC
  <2>2. MutexOwned' /\ WaitSetOK'
    BY DEF TypeOK, MutexOwned, WaitSetOK, Threads, Owning
  <2>3. FrontHeld' /\ ArgumentHeld'
    BY DEF TypeOK, FrontHeld, ArgumentHeld, Threads
  <2>4. NoLostWakeup' /\ InOrderExactlyOnce'
    BY DEF TypeOK, NoLostWakeup, InOrderExactlyOnce, Threads
  <2> QED BY <2>1, <2>2, <2>3, <2>4
<1>5. ASSUME NEW p \in Producers, PushNotify(p) PROVE IInv'
  <2> USE <1>5 DEF PushNotify
  <2>1. TypeOK'
    BY DEF TypeOK, Threads, ProducerPC, ConsumerPC
  <2>2. MutexOwned' /\ WaitSetOK'
    BY DEF TypeOK, MutexOwned, WaitSetOK, Threads, Owning
  <2>3. FrontHeld' /\ ArgumentHeld'
    BY DEF TypeOK, FrontHeld, ArgumentHeld, Threads
  <2>4. NoLostWakeup' /\ InOrderExactlyOnce'
    BY DEF NoLostWakeup, InOrderExactlyOnce
  <2> QED BY <2>1, <2>2, <2>3, <2>4
<1>6. ASSUME NEW c \in Consumers, PopWait(c) PROVE IInv'
  <2> USE <1>6 DEF PopWait, Goto
  <2>1. TypeOK'
    BY DEF TypeOK, Threads, ProducerPC, ConsumerPC
  <2>2. MutexOwned' /\ WaitSetOK'
    BY DEF TypeOK, MutexOwned, WaitSetOK, Threads, Owning
  <2>3. FrontHeld' /\ ArgumentHeld'
    BY DEF TypeOK, FrontHeld, ArgumentHeld, Threads
  <2>4. NoLostWakeup' /\ InOrderExactlyOnce'
    BY DEF NoLostWakeup, InOrderExactlyOnce
  <2> QED BY <2>1, <2>2, <2>3, <2>4
<1>7. ASSUME NEW c \in Consumers, PopFront(c) PROVE IInv'
  <2> USE <1>7 DEF PopFront, Goto
  <2>0. Head(q) \in Values
    BY DEF TypeOK
  <2>1. TypeOK'
    BY <2>0 DEF TypeOK, Threads, ProducerPC, ConsumerPC
  <2>2. MutexOwned' /\ WaitSetOK'
    BY DEF TypeOK, MutexOwned, WaitSetOK, Threads, Owning
  <2>3. FrontHeld' /\ ArgumentHeld'
    BY <2>0 DEF TypeOK, FrontHeld, ArgumentHeld, Threads
  <2>4. NoLostWakeup' /\ InOrderExactlyOnce'
    BY DEF TypeOK, NoLostWakeup, InOrderExactlyOnce, Threads
  <2> QED BY <2>1, <2>2, <2>3, <2>4
<1>8. ASSUME NEW c \in Consumers, PopTake(c) PROVE IInv'
  <2> USE <1>8 DEF PopTake, Goto
  <2>0. q # <<>> /\ val[c] = Head(q) /\ Head(q) \in Values /\ Tail(q) \in Seq(Values)
    BY DEF FrontHeld, TypeOK
  <2>1. TypeOK'
    BY <2>0 DEF TypeOK, Threads, ProducerPC, ConsumerPC
  <2>2. MutexOwned' /\ WaitSetOK'
    BY DEF TypeOK, MutexOwned, WaitSetOK, Threads, Owning
  <2>3. FrontHeld'
    <3>1. \A d \in Consumers : pc'[d] # "take"
      BY OneOwner DEF TypeOK, Threads, Owning
    <3> QED BY <3>1 DEF FrontHeld
  <2>4. ArgumentHeld'
    BY DEF TypeOK, ArgumentHeld, Threads
  <2>5. NoLostWakeup'
    <3>1. \A p \in Producers : pc[p] \in {"release", "notify"} => pc'[p] = pc[p]
      BY DEF TypeOK, Threads
    <3> QED BY <2>0, <3>1 DEF NoLostWakeup
  <2>6. InOrderExactlyOnce'
    BY <2>0, MoveHead DEF TypeOK, InOrderExactlyOnce
  <2> QED BY <2>1, <2>2, <2>3, <2>4, <2>5, <2>6
<1>9. ASSUME NEW c \in Consumers, PopReturn(c) PROVE IInv'
  <2> USE <1>9 DEF PopReturn, Goto
  <2>1. TypeOK'
    BY DEF TypeOK, Threads, ProducerPC, ConsumerPC
  <2>2. MutexOwned' /\ WaitSetOK'
    BY DEF TypeOK, MutexOwned, WaitSetOK, Threads, Owning
  <2>3. FrontHeld' /\ ArgumentHeld'
    BY DEF TypeOK, FrontHeld, ArgumentHeld, Threads
  <2>4. NoLostWakeup' /\ InOrderExactlyOnce'
    BY DEF TypeOK, NoLostWakeup, InOrderExactlyOnce, Threads
  <2> QED BY <2>1, <2>2, <2>3, <2>4
<1>10. ASSUME NEW c \in Consumers, SpuriousWake(c) PROVE IInv'
  <2> USE <1>10 DEF SpuriousWake, Goto
  <2>1. TypeOK'
    BY DEF TypeOK, Threads, ProducerPC, ConsumerPC
  <2>2. MutexOwned' /\ WaitSetOK'
    BY DEF TypeOK, MutexOwned, WaitSetOK, Threads, Owning
  <2>3. FrontHeld' /\ ArgumentHeld'
    BY DEF TypeOK, FrontHeld, ArgumentHeld, Threads
  <2>4. NoLostWakeup' /\ InOrderExactlyOnce'
    BY DEF TypeOK, NoLostWakeup, InOrderExactlyOnce, Threads
  <2> QED BY <2>1, <2>2, <2>3, <2>4
<1>11. ASSUME NEW c \in Consumers, HandlerDone(c) PROVE IInv'
  <2> USE <1>11 DEF HandlerDone, Goto
  <2>1. TypeOK'
    BY DEF TypeOK, Threads, ProducerPC, ConsumerPC
  <2>2. MutexOwned' /\ WaitSetOK'
    BY DEF TypeOK, MutexOwned, WaitSetOK, Threads, Owning
  <2>3. FrontHeld' /\ ArgumentHeld'
    BY DEF TypeOK, FrontHeld, ArgumentHeld, Threads
  <2>4. NoLostWakeup' /\ InOrderExactlyOnce'
    BY DEF TypeOK, NoLostWakeup, InOrderExactlyOnce, Threads
  <2> QED BY <2>1, <2>2, <2>3, <2>4
<1>12. CASE UNCHANGED vars
  BY <1>12 DEF vars, TypeOK, MutexOwned, WaitSetOK, FrontHeld, ArgumentHeld,
               NoLostWakeup, InOrderExactlyOnce
<1> QED
  <2> HIDE DEF IInv
  <2> QED
    BY <1>1, <1>2, <1>3, <1>4, <1>5, <1>6, <1>7, <1>8, <1>9, <1>10, <1>11, <1>12
       DEF Next, ProducerStep, ConsumerStep

(* Every behaviour keeps the inductive invariant, hence the mutex discipline *)
(* of push() and pop() and the types.                                        *)
THEOREM Invariance == Spec => []IInv
<1>1. Init => IInv
  BY InitInv
<1>2. IInv /\ [Next]_vars => IInv'
  BY NextInv
<1> QED
  BY <1>1, <1>2, PTL DEF Spec

(* Every behaviour has well-typed variables.                                 *)
THEOREM TypeCorrect == Spec => []TypeOK
<1>1. IInv => TypeOK
  BY DEF IInv
<1> QED
  BY <1>1, Invariance, PTL

(* No worker stays parked in cv.wait() beside a queued descriptor unless a   *)
(* push() still owes its notify_all().                                       *)
THEOREM NoWakeupIsLost == Spec => []NoLostWakeup
<1>1. IInv => NoLostWakeup
  BY DEF IInv
<1> QED
  BY <1>1, Invariance, PTL

(* pop() returns every pushed value once, in the order push() queued them.   *)
THEOREM ExactlyOnceInOrder == Spec => []InOrderExactlyOnce
<1>1. IInv => InOrderExactlyOnce
  BY DEF IInv
<1> QED
  BY <1>1, Invariance, PTL
------------------------------------------------------------------------------
(* The safety half of ImplementsFifo: PushEmplace is the abstract Push,      *)
(* PopTake the abstract Pop, HandlerDone the abstract Finish, and every      *)
(* other statement is invisible.                                             *)
LEMMA InitRefines == Init => Fifo!Init
  BY QueueAssumption DEF Init, Fifo!Init, Hand, Threads

LEMMA StepRefines == IInv /\ [Next]_vars => [Fifo!Next]_(Fifo!vars)
<1> SUFFICES ASSUME IInv, [Next]_vars
             PROVE  Fifo!Next \/ UNCHANGED <<q, Hand>>
  BY DEF Fifo!vars
<1> USE QueueAssumption DEF IInv
<1>1. ASSUME NEW t \in Threads, Lock(t) PROVE UNCHANGED <<q, Hand>>
  BY <1>1 DEF Lock, Goto, Hand, TypeOK, Threads
<1>2. ASSUME NEW p \in Producers, NEW v \in Values, PushCall(p, v)
      PROVE  UNCHANGED <<q, Hand>>
  BY <1>2 DEF PushCall, Goto, Hand, TypeOK, Threads
<1>3. ASSUME NEW p \in Producers, PushEmplace(p) PROVE Fifo!Next
  <2>1. val[p] \in Values
    BY <1>3 DEF PushEmplace, Goto, ArgumentHeld
  <2>2. UNCHANGED Hand
    BY <1>3 DEF PushEmplace, Goto, Hand, TypeOK, Threads
  <2>3. Fifo!Push(val[p])
    BY <1>3, <2>2 DEF PushEmplace, Fifo!Push
  <2> QED BY <2>1, <2>3 DEF Fifo!Next
<1>4. ASSUME NEW p \in Producers, PushRelease(p) PROVE UNCHANGED <<q, Hand>>
  BY <1>4 DEF PushRelease, Goto, Hand, TypeOK, Threads
<1>5. ASSUME NEW p \in Producers, PushNotify(p) PROVE UNCHANGED <<q, Hand>>
  BY <1>5 DEF PushNotify, Hand, TypeOK, Threads, WaitSetOK
<1>6. ASSUME NEW c \in Consumers, PopWait(c) PROVE UNCHANGED <<q, Hand>>
  BY <1>6 DEF PopWait, Goto, Hand, TypeOK, Threads
<1>7. ASSUME NEW c \in Consumers, PopFront(c) PROVE UNCHANGED <<q, Hand>>
  BY <1>7 DEF PopFront, Goto, Hand, TypeOK, Threads
<1>8. ASSUME NEW c \in Consumers, PopTake(c) PROVE Fifo!Next
  <2>1. q # <<>> /\ val[c] = Head(q)
    BY <1>8 DEF PopTake, Goto, FrontHeld
  <2>2. Hand[c] = NoValue
    BY <1>8 DEF PopTake, Goto, Hand
  <2>3. Hand' = [Hand EXCEPT ![c] = Head(q)]
    BY <1>8, <2>1 DEF PopTake, Goto, Hand, TypeOK, Threads
  <2>4. Fifo!Pop(c)
    BY <1>8, <2>1, <2>2, <2>3 DEF PopTake, Fifo!Pop
  <2> QED BY <2>4 DEF Fifo!Next
<1>9. ASSUME NEW c \in Consumers, PopReturn(c) PROVE UNCHANGED <<q, Hand>>
  BY <1>9 DEF PopReturn, Goto, Hand, TypeOK, Threads
<1>10. ASSUME NEW c \in Consumers, SpuriousWake(c) PROVE UNCHANGED <<q, Hand>>
  BY <1>10 DEF SpuriousWake, Goto, Hand, TypeOK, Threads
<1>11. ASSUME NEW c \in Consumers, HandlerDone(c)
       PROVE  Fifo!Next \/ UNCHANGED <<q, Hand>>
  <2>1. Hand' = [Hand EXCEPT ![c] = NoValue] /\ UNCHANGED q
    BY <1>11 DEF HandlerDone, Goto, Hand, TypeOK, Threads
  <2>2. CASE Hand[c] # NoValue
    BY <2>1, <2>2 DEF Fifo!Next, Fifo!Finish
  <2>3. CASE Hand[c] = NoValue
    BY <2>1, <2>3 DEF Hand
  <2> QED BY <2>2, <2>3
<1>12. CASE UNCHANGED vars
  BY <1>12 DEF vars, Hand
<1> QED
  <2> HIDE DEF IInv
  <2> QED
    BY <1>1, <1>2, <1>3, <1>4, <1>5, <1>6, <1>7, <1>8, <1>9, <1>10, <1>11, <1>12
       DEF Next, ProducerStep, ConsumerStep

(* push() and pop() take effect at one instant each, between call and        *)
(* return, for any number of threads: the queue is a FIFO to its callers.    *)
THEOREM RefinesFifo == Spec => Fifo!SafeSpec
<1>1. Init => Fifo!Init
  BY InitRefines
<1>2. IInv /\ [Next]_vars => [Fifo!Next]_(Fifo!vars)
  BY StepRefines
<1> QED
  BY <1>1, <1>2, Invariance, PTL DEF Spec, Fifo!SafeSpec
==============================================================================
