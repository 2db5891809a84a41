------------------------------- MODULE MCUsers -------------------------------
(* Users for TLC: one process, which may end at any step and be started      *)
(* again; up to three names, so that a new one can go first, between and     *)
(* last in an index; and a capacity of two, so that a third user makes the   *)
(* indexes grow.                                                             *)
EXTENDS Users
==============================================================================
