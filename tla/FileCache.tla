------------------------------ MODULE FileCache ------------------------------
(***************************************************************************)
(* src/file_cache.cc, as http::send_file() (src/server/http.cc) uses it: a  *)
(* process-wide cache of file contents behind one std::shared_mutex.  A     *)
(* worker keeps the shared lock while it sends from the cache.  There is no *)
(* upgrade or downgrade between the two modes of the lock: the code lets go *)
(* of one before it asks for the other, and other workers run in between.   *)
(* A version stands for a file's bytes and their number.  Every name has a  *)
(* map node already, so that files[name] finds it and inserts nothing, and  *)
(* files are replaced by renaming: an open descriptor keeps its version.    *)
(***************************************************************************)
EXTENDS Naturals, FiniteSets

CONSTANTS
  Threads,   \* worker threads, each in at most one file_cache() at a time
  NoThread,  \* owner of the free lock
  Names,     \* file names
  Versions,  \* what a file can contain, in the order the versions appear
  Large,     \* the versions above file_cache_max_size
  Mtime,     \* Mtime[v]: st_mtime of version v, in whole seconds
  GzModes,   \* the values of the gz argument
  Null,      \* a null pointer
  Garbage    \* memory that malloc() returned and read() did not fill

ASSUME CacheAssumption ==
  /\ NoThread \notin Threads
  /\ Versions \subseteq Nat
  /\ Large \subseteq Versions
  /\ Mtime \in [Versions -> Nat]
  /\ GzModes \subseteq BOOLEAN
  /\ Null \notin Versions /\ Garbage \notin Versions /\ Null # Garbage

VARIABLES
  disk,    \* disk[n]: the version of file n now on disk
  entry,   \* entry[n]: struct cached_file
  readers, \* readers[t]: shared locks that t has taken and not released
  writer,  \* the thread that holds the lock exclusively, or NoThread
  pc,      \* where each thread is
  name,    \* the file each thread was asked for
  gz,      \* the local gz
  ver,     \* ver[t]: the version that t's descriptor and sb refer to
  same,    \* the local same_time
  view,    \* the locked_cache_view that file_cache() returned
  near,    \* history: versions opened by t's request or one that overlaps it
  failed,  \* history: some read() into the cache failed
  freed    \* TRUE once freed memory was used: nothing is known from then on

locals == <<name, gz, ver, same, near>>
vars   == <<disk, entry, readers, writer, pc, locals, view, failed, freed>>

Empty == [data |-> Null, size |-> Null, gz |-> FALSE]

Init ==
  /\ disk \in [Names -> Versions]
  /\ entry = [n \in Names |->
                [data |-> Null, size |-> Null, z |-> Null, time |-> 0]]
  /\ readers = [t \in Threads |-> 0]
  /\ writer = NoThread
  /\ pc = [t \in Threads |-> "idle"]
  /\ name \in [Threads -> Names]
  /\ gz = [t \in Threads |-> FALSE]
  /\ ver = [t \in Threads |-> Null]
  /\ same = [t \in Threads |-> FALSE]
  /\ view = [t \in Threads |-> Empty]
  /\ near = [t \in Threads |-> {}]
  /\ failed = FALSE
  /\ freed = FALSE

Goto(t, from, to) ==
  /\ ~freed
  /\ pc[t] = from
  /\ pc' = [pc EXCEPT ![t] = to]

Active == {t \in Threads : pc[t] # "idle"}
Entry(t) == entry[name[t]]
------------------------------------------------------------------------------
(* Someone replaces the file by a later version. *)
Edit(n) ==
  /\ \E v \in Versions : v > disk[n] /\ disk' = [disk EXCEPT ![n] = v]
  /\ UNCHANGED <<entry, readers, writer, pc, locals, view, failed, freed>>

(* open() and fstat(). *)
Open(t, n, g) ==
  /\ Goto(t, "idle", "lock")
  /\ name' = [name EXCEPT ![t] = n]
  /\ gz' = [gz EXCEPT ![t] = g]
  /\ ver' = [ver EXCEPT ![t] = disk[n]]
  /\ near' = [u \in Threads |->
                IF u = t
                THEN {disk[n]} \cup {ver[x] : x \in {y \in Active : name[y] = n}}
                ELSE IF u \in Active /\ name[u] = n THEN near[u] \cup {disk[n]}
                ELSE near[u]]
  /\ UNCHANGED <<disk, entry, readers, writer, same, view, failed, freed>>

(* retry_cached: lock_shared() waits only for an exclusive owner. *)
LockShared(t) ==
  /\ writer = NoThread
  /\ Goto(t, "lock", "check")
  /\ readers' = [readers EXCEPT ![t] = @ + 1]
  /\ UNCHANGED <<disk, entry, writer, locals, view, failed, freed>>

SameTime(t) == Mtime[ver[t]] = Entry(t).time
Pointer(t)  == IF gz[t] THEN Entry(t).z ELSE Entry(t).data

ViewOf(t) ==
  IF gz[t] THEN [data |-> Entry(t).z, size |-> Entry(t).z, gz |-> TRUE]
  ELSE [data |-> Entry(t).data, size |-> Entry(t).size, gz |-> FALSE]

(* A slip to compare with: the time stamp is not compared. *)
HitAnyTime(t) ==
  /\ Goto(t, "check", "serve")
  /\ Pointer(t) # Null
  /\ same' = [same EXCEPT ![t] = TRUE]
  /\ view' = [view EXCEPT ![t] = ViewOf(t)]
  /\ UNCHANGED <<disk, entry, readers, writer, name, gz, ver, near, failed, freed>>

(* goto return_cached, with the shared lock. *)
Hit(t) ==
  /\ Goto(t, "check", "serve")
  /\ SameTime(t) /\ Pointer(t) # Null
  /\ same' = [same EXCEPT ![t] = TRUE]
  /\ view' = [view EXCEPT ![t] = ViewOf(t)]
  /\ UNCHANGED <<disk, entry, readers, writer, name, gz, ver, near, failed, freed>>

(* unlock_shared(); a file that is too large is not cached. *)
Miss(t) ==
  /\ Goto(t, "check", IF ver[t] \in Large THEN "direct" ELSE "try")
  /\ ~(SameTime(t) /\ Pointer(t) # Null)
  /\ same' = [same EXCEPT ![t] = SameTime(t)]
  /\ readers' = [readers EXCEPT ![t] = @ - 1]
  /\ UNCHANGED <<disk, entry, writer, name, gz, ver, near, view, failed, freed>>

Free == writer = NoThread /\ \A u \in Threads : readers[u] = 0

TryLock(t) ==
  /\ Free
  /\ Goto(t, "try", IF same[t] THEN "zip" ELSE "load")
  /\ writer' = t
  /\ UNCHANGED <<disk, entry, readers, locals, view, failed, freed>>

(* yield(); goto retry_cached *)
TryFail(t) ==
  /\ ~Free
  /\ Goto(t, "try", "lock")
  /\ UNCHANGED <<disk, entry, readers, writer, locals, view, failed, freed>>

(* f.time, free(f.data), f.data = malloc(f.size), before read() *)
Load(t) ==
  /\ Goto(t, "load", "read")
  /\ entry' = [entry EXCEPT ![name[t]] =
                 [@ EXCEPT !.time = Mtime[ver[t]], !.data = Garbage, !.size = ver[t]]]
  /\ UNCHANGED <<disk, readers, writer, locals, view, failed, freed>>

(* read(fd, f.data, f.size) *)
Read(t) ==
  /\ Goto(t, "read", "zip")
  /\ entry' = [entry EXCEPT ![name[t]].data = ver[t]]
  /\ UNCHANGED <<disk, readers, writer, locals, view, failed, freed>>

(* A slip to compare with: the exception leaves the lock taken.             *)
ReadFailLocked(t) ==
  /\ Goto(t, "read", "idle")
  /\ failed' = TRUE
  /\ UNCHANGED <<disk, entry, readers, writer, locals, view, freed>>

(* read() fails: unlock() and throw; the entry keeps what Load() stored.    *)
ReadFail(t) ==
  /\ Goto(t, "read", "idle")
  /\ writer' = NoThread
  /\ failed' = TRUE
  /\ UNCHANGED <<disk, entry, readers, locals, view, freed>>

(* free(f.zdata), and no compressed copy: gz is off or deflate failed.      *)
NoZip(t) ==
  /\ Goto(t, "zip", "relock")
  /\ writer' = NoThread
  /\ entry' = [entry EXCEPT ![name[t]].z = Null]
  /\ gz' = [gz EXCEPT ![t] = FALSE]
  /\ UNCHANGED <<disk, readers, name, ver, same, near, view, failed, freed>>

(* free(f.zdata) and deflate_alloc() into f.zdata, which fills or           *)
(* reallocates what it points to: freed memory, unless it was null.  When   *)
(* f.data is null the result is not the file's either.                      *)
Zip(t) ==
  /\ Goto(t, "zip", "relock")
  /\ gz[t]
  /\ writer' = NoThread
  /\ entry' = [entry EXCEPT ![name[t]].z =
                 IF Entry(t).data = Null THEN Garbage ELSE Entry(t).data]
  /\ freed' = (Entry(t).z # Null)
  /\ UNCHANGED <<disk, readers, locals, view, failed>>

(* A slip to compare with: the lock is let go before the bytes are sent.    *)
RelockNot(t) ==
  /\ writer = NoThread
  /\ Goto(t, "relock", "serve")
  /\ view' = [view EXCEPT ![t] = ViewOf(t)]
  /\ UNCHANGED <<disk, entry, readers, writer, locals, failed, freed>>

(* lock_shared(), and return what the entry holds by now. *)
Relock(t) ==
  /\ writer = NoThread
  /\ Goto(t, "relock", "serve")
  /\ readers' = [readers EXCEPT ![t] = @ + 1]
  /\ view' = [view EXCEPT ![t] = ViewOf(t)]
  /\ UNCHANGED <<disk, entry, writer, locals, failed, freed>>

(* send_file() has written the response; ~locked_cache_view().              *)
Sent(t) ==
  /\ Goto(t, "serve", "idle")
  /\ readers' = [readers EXCEPT ![t] = IF view[t].data = Null THEN @ ELSE @ - 1]
  /\ view' = [view EXCEPT ![t] = Empty]
  /\ UNCHANGED <<disk, entry, writer, locals, failed, freed>>

(* The file was read and sent piece by piece, past the cache. *)
SentDirect(t) ==
  /\ Goto(t, "direct", "idle")
  /\ UNCHANGED <<disk, entry, readers, writer, locals, view, failed, freed>>

Step(t) ==
  \/ LockShared(t) \/ Hit(t) \/ Miss(t) \/ TryLock(t) \/ TryFail(t)
  \/ Load(t) \/ Read(t) \/ ReadFail(t) \/ NoZip(t) \/ Zip(t)
  \/ Relock(t) \/ Sent(t) \/ SentDirect(t)

Next ==
  \/ \E n \in Names : Edit(n)
  \/ \E t \in Threads, n \in Names, g \in GzModes : Open(t, n, g)
  \/ \E t \in Threads : Step(t)

Spec == Init /\ [][Next]_vars
------------------------------------------------------------------------------
Contents == Versions \cup {Null, Garbage}

LockTypes ==
  /\ readers \in [Threads -> Nat]
  /\ writer \in Threads \cup {NoThread}
  /\ pc \in [Threads -> {"idle", "lock", "check", "try", "load", "read", "zip",
                         "relock", "serve", "direct"}]

DataTypes ==
  /\ disk \in [Names -> Versions]
  /\ entry \in [Names -> [data : Contents, size : Versions \cup {Null},
                          z : Contents, time : Nat]]
  /\ failed \in BOOLEAN
  /\ freed \in BOOLEAN

RequestTypes ==
  /\ name \in [Threads -> Names]
  /\ gz \in [Threads -> BOOLEAN]
  /\ ver \in [Threads -> Versions \cup {Null}]
  /\ same \in [Threads -> BOOLEAN]
  /\ view \in [Threads -> [data : Contents, size : Contents, gz : BOOLEAN]]
  /\ near \in [Threads -> SUBSET Versions]

TypeOK == LockTypes /\ DataTypes /\ RequestTypes

(* A request holds the shared lock exactly while it looks at the entry or   *)
(* sends from it, the exclusive one exactly while it changes the entry, and *)
(* gives both back on every path.                                           *)
LocksMatch ==
  \A t \in Threads :
    /\ readers[t] = IF pc[t] \in {"check", "serve"} THEN 1 ELSE 0
    /\ writer = t <=> pc[t] \in {"load", "read", "zip"}

(* The bytes being sent stay what they were when file_cache() returned, for *)
(* as long as a client takes to receive them, and are one whole version of  *)
(* the file with that version's length, unless a read() has failed.         *)
ViewIntact ==
  \A t \in Threads :
    pc[t] = "serve" =>
      /\ view[t] = ViewOf(t)
      /\ view[t].data = view[t].size \/ (view[t].data = Garbage /\ failed)

(* If any two versions differ in their time stamps, what a request is given *)
(* was on disk when it or some request that overlaps it opened the file:    *)
(* never a version that only finished requests had seen.  A failed read()   *)
(* breaks this: it leaves the new time stamp beside the old compressed copy. *)
DistinctTimes == \A v, w \in Versions : v # w => Mtime[v] # Mtime[w]

FreshView ==
  DistinctTimes /\ ~failed =>
    \A t \in Threads :
      pc[t] = "serve" /\ view[t].data \in Versions => view[t].data \in near[t]
==============================================================================
