-------------------------- MODULE MCThreadSafeQueue --------------------------
(* Model values for ThreadSafeQueue are given in the cfg.  Two producers and *)
(* two consumers let a push race a push, a pop race a pop, and both race a   *)
(* wait; two values and three pushes tell a duplicate from a repetition.     *)
EXTENDS ThreadSafeQueue
==============================================================================
