------------------------------- MODULE MCServer -------------------------------
(* Server for TLC.  In MCServerPatient.cfg every client sends one request    *)
(* and waits, and there is one connection more than there are descriptors,   *)
(* so that a number is reused and accept() can fail.  In                      *)
(* MCServerImpatient.cfg one client sends twice, hangs up or resets at any    *)
(* moment while a patient one reuses its descriptor.                          *)
EXTENDS Server
==============================================================================
