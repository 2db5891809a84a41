----------------------------- MODULE MCFileCache -----------------------------
(* FileCache for TLC.  Three workers, because the window between the two     *)
(* modes of the lock needs one that is in it, one that reloads, and one that  *)
(* holds the shared lock.  The largest version is too large for the cache.   *)
EXTENDS FileCache

(* Every edit moves st_mtime. *)
MCMtime == [v \in Versions |-> v]
==============================================================================
