---------------------------- MODULE FileCacheProofs ----------------------------
(***************************************************************************)
(* Proofs about FileCache for any threads, names and versions: types, that  *)
(* the bytes being sent never change under the sender, that they are those  *)
(* of the file as it was at some time during the request, and, for files    *)
(* that are not compressed, that the two modes of the lock balance.         *)
(***************************************************************************)
EXTENDS FileCache, TLAPS

(* A request under way has opened a version of its file. *)
Opened == \A t \in Threads : pc[t] # "idle" => ver[t] \in Versions

(* Whoever looks at an entry or sends from it holds the shared lock at least *)
(* once.  (Exactly once is LocksMatch: a view without data is not released.) *)
SharedHeld == \A t \in Threads : pc[t] \in {"check", "serve"} => readers[t] > 0

(* The exclusive lock is with the thread that changes an entry, and excludes *)
(* all shared ones.                                                          *)
Exclusive ==
  /\ \A t \in Threads : writer = t <=> pc[t] \in {"load", "read", "zip"}
  /\ writer # NoThread => \A t \in Threads : readers[t] = 0

(* The plain copy of an entry has the length it is stored with, except while *)
(* read() is filling it, or for good if that failed.                         *)
EntryWhole ==
  \A n \in Names :
    \/ entry[n].data = entry[n].size
    \/ /\ entry[n].data = Garbage
       /\ failed \/ \E t \in Threads : pc[t] = "read" /\ name[t] = n

(* While it is being filled, it already has the length of the new version.   *)
Filling == \A t \in Threads : pc[t] = "read" => Entry(t).size = ver[t]

IInv ==
  /\ TypeOK
  /\ Opened
  /\ SharedHeld
  /\ Exclusive
  /\ EntryWhole
  /\ Filling
  /\ ViewIntact

LEMMA InitInv == Init => IInv
<1> SUFFICES ASSUME Init PROVE IInv
  OBVIOUS
<1> USE CacheAssumption DEF Init
<1>1. LockTypes /\ DataTypes
  <2>1. entry \in [Names -> [data : Contents, size : Versions \cup {Null},
                             z : Contents, time : Nat]]
    BY DEF Contents
  <2>2. failed \in BOOLEAN /\ freed \in BOOLEAN
    OBVIOUS
  <2> QED BY <2>1, <2>2 DEF LockTypes, DataTypes
<1>2. RequestTypes
  <2>1. view \in [Threads -> [data : Contents, size : Contents, gz : BOOLEAN]]
    BY DEF Empty, Contents
  <2>2. gz \in [Threads -> BOOLEAN] /\ same \in [Threads -> BOOLEAN]
    OBVIOUS
  <2> QED BY <2>1, <2>2 DEF RequestTypes
<1>3. /\ Opened /\ SharedHeld /\ Exclusive
      /\ EntryWhole /\ Filling /\ ViewIntact
  BY DEF Opened, SharedHeld, Exclusive, EntryWhole, Filling, ViewIntact
<1> QED
  BY <1>1, <1>2, <1>3 DEF IInv, TypeOK
------------------------------------------------------------------------------
(* What is being sent stays intact if the entries stay, or nobody sends.     *)
LEMMA ViewsKept ==
  ASSUME ViewIntact, failed => failed',
         \A u \in Threads : pc'[u] = "serve" =>
           /\ pc[u] = "serve"
           /\ view'[u] = view[u] /\ name'[u] = name[u] /\ gz'[u] = gz[u],
         entry' = entry \/ \A u \in Threads : pc[u] # "serve"
  PROVE  ViewIntact'
<1> SUFFICES ASSUME NEW u \in Threads, pc'[u] = "serve"
             PROVE  /\ view'[u] = ViewOf(u)'
                    /\ \/ view'[u].data = view'[u].size
                       \/ view'[u].data = Garbage /\ failed'
  BY DEF ViewIntact
<1>1. entry' = entry /\ ViewOf(u)' = ViewOf(u)
  BY DEF ViewOf, Entry
<1> QED
  BY <1>1 DEF ViewIntact

(* A view taken from an entry that nobody is changing is intact.             *)
LEMMA ViewTaken ==
  ASSUME IInv, NEW t \in Threads, writer = NoThread,
         view' = [view EXCEPT ![t] = ViewOf(t)],
         UNCHANGED <<entry, name, gz, failed>>,
         pc' = [pc EXCEPT ![t] = "serve"]
  PROVE  ViewIntact'
<1> SUFFICES ASSUME NEW u \in Threads, pc'[u] = "serve"
             PROVE  /\ view'[u] = ViewOf(u)'
                    /\ \/ view'[u].data = view'[u].size
                       \/ view'[u].data = Garbage /\ failed'
  BY DEF ViewIntact
<1>0. LockTypes /\ DataTypes /\ RequestTypes
  BY DEF IInv, TypeOK
<1>1. ViewOf(u)' = ViewOf(u)
  BY DEF ViewOf, Entry
<1>2. CASE u = t
  <2>1. view'[u] = ViewOf(u)
    BY <1>0, <1>2 DEF RequestTypes
  <2>2. \A v \in Threads : pc[v] # "read"
    BY CacheAssumption DEF IInv, Exclusive
  <2>3. \/ Entry(t).data = Entry(t).size
        \/ Entry(t).data = Garbage /\ failed
    BY <1>0, <2>2 DEF IInv, EntryWhole, Entry, RequestTypes
  <2>4. \/ ViewOf(u).data = ViewOf(u).size
        \/ ViewOf(u).data = Garbage /\ failed
    BY <1>2, <2>3 DEF ViewOf
  <2> QED BY <1>1, <2>1, <2>4
<1>3. CASE u # t
  BY <1>0, <1>1, <1>3 DEF IInv, ViewIntact, LockTypes, RequestTypes
<1> QED
  BY <1>2, <1>3

(* While an entry is being changed, nobody looks at one or sends from one.   *)
LEMMA NobodyReads ==
  ASSUME IInv, writer # NoThread
  PROVE  \A u \in Threads : pc[u] \notin {"check", "serve"}
  BY DEF IInv, SharedHeld, Exclusive

(* Invariants that only depend on the entries, on who is in read() and on    *)
(* what it reads into.                                                       *)
LEMMA EntriesKept ==
  ASSUME IInv, UNCHANGED <<entry, failed>>,
         \A u \in Threads : pc[u] = "read" <=> pc'[u] = "read",
         \A u \in Threads : pc[u] = "read" => name'[u] = name[u] /\ ver'[u] = ver[u]
  PROVE  EntryWhole' /\ Filling'
<1>1. EntryWhole'
  BY DEF IInv, EntryWhole
<1>2. Filling'
  BY DEF IInv, Filling, Entry
<1> QED
  BY <1>1, <1>2

LEMMA EditInv ==
  ASSUME IInv, NEW n \in Names, Edit(n)
  PROVE  IInv'
<1>0. LockTypes /\ DataTypes /\ RequestTypes
  BY DEF IInv, TypeOK
<1>1. /\ UNCHANGED <<entry, readers, writer, pc, failed, freed>>
      /\ UNCHANGED <<name, gz, ver, same, near, view>>
  BY DEF Edit, locals
<1>2. LockTypes' /\ RequestTypes'
  BY <1>0, <1>1 DEF LockTypes, RequestTypes
<1>3. DataTypes'
  <2>1. disk' \in [Names -> Versions]
    BY <1>0 DEF Edit, DataTypes
  <2> QED BY <1>0, <1>1, <2>1 DEF DataTypes
<1>4. Opened' /\ SharedHeld' /\ Exclusive'
  BY <1>1 DEF IInv, Opened, SharedHeld, Exclusive
<1>5. EntryWhole' /\ Filling'
  BY <1>1, EntriesKept
<1>6. ViewIntact'
  BY <1>1, ViewsKept DEF IInv
<1> QED
  BY <1>2, <1>3, <1>4, <1>5, <1>6 DEF IInv, TypeOK

LEMMA OpenInv ==
  ASSUME IInv, NEW t \in Threads, NEW n \in Names, NEW g \in GzModes, Open(t, n, g)
  PROVE  IInv'
<1> USE CacheAssumption
<1>0. LockTypes /\ DataTypes /\ RequestTypes
  BY DEF IInv, TypeOK
<1>1. /\ pc[t] = "idle" /\ pc' = [pc EXCEPT ![t] = "lock"]
      /\ name' = [name EXCEPT ![t] = n] /\ gz' = [gz EXCEPT ![t] = g]
      /\ ver' = [ver EXCEPT ![t] = disk[n]]
      /\ UNCHANGED <<disk, entry, readers, writer, same, view, failed, freed>>
  BY DEF Open, Goto
<1>2. LockTypes' /\ DataTypes'
  BY <1>0, <1>1 DEF LockTypes, DataTypes
<1>3. Opened' /\ SharedHeld' /\ Exclusive'
  BY <1>0, <1>1 DEF IInv, LockTypes, DataTypes, RequestTypes, Opened, SharedHeld, Exclusive
<1>4. RequestTypes'
  <2>1. disk[n] \in Versions /\ g \in BOOLEAN
    BY <1>0 DEF DataTypes
  <2>2. \A u \in Active : ver[u] \in Versions
    BY DEF IInv, Opened, Active
  <2>3. near' \in [Threads -> SUBSET Versions]
    BY <1>0, <2>1, <2>2 DEF Open, RequestTypes
  <2>4. gz' \in [Threads -> BOOLEAN]
    BY <1>0, <1>1, <2>1 DEF RequestTypes
  <2>5. ver' \in [Threads -> Versions \cup {Null}]
    BY <1>0, <1>1, <2>1 DEF RequestTypes
  <2> QED BY <1>0, <1>1, <2>3, <2>4, <2>5 DEF RequestTypes
<1>5. EntryWhole' /\ Filling'
  BY <1>0, <1>1, EntriesKept DEF LockTypes, RequestTypes
<1>6. ViewIntact'
  BY <1>0, <1>1, ViewsKept DEF IInv, LockTypes, RequestTypes
<1> QED
  BY <1>2, <1>3, <1>4, <1>5, <1>6 DEF IInv, TypeOK

(* The steps of file_cache() that take or give back a lock.                  *)
LEMMA LockStepInv ==
  ASSUME IInv, NEW t \in Threads,
         LockShared(t) \/ Miss(t) \/ TryLock(t) \/ TryFail(t) \/ SentDirect(t)
  PROVE  IInv'
<1> USE CacheAssumption
<1>0. LockTypes /\ DataTypes /\ RequestTypes
  BY DEF IInv, TypeOK
<1>1. UNCHANGED <<disk, entry, name, gz, ver, near, view, failed, freed>>
  BY DEF LockShared, Miss, TryLock, TryFail, SentDirect, locals
<1>2. same' \in [Threads -> BOOLEAN]
  BY <1>0 DEF LockShared, Miss, TryLock, TryFail, SentDirect, locals, RequestTypes, SameTime
<1>3. PICK to \in {"lock", "check", "direct", "try", "zip", "load", "idle"} :
        pc' = [pc EXCEPT ![t] = to]
  BY DEF LockShared, Miss, TryLock, TryFail, SentDirect, Goto
<1>4. pc[t] \in {"lock", "check", "try", "direct"}
  BY DEF LockShared, Miss, TryLock, TryFail, SentDirect, Goto
<1>5. LockTypes'
  <2>1. readers' \in [Threads -> Nat]
    BY <1>0 DEF LockShared, Miss, TryLock, TryFail, SentDirect, Goto, LockTypes,
                IInv, SharedHeld
  <2>2. writer' \in Threads \cup {NoThread}
    BY <1>0 DEF LockShared, Miss, TryLock, TryFail, SentDirect, LockTypes
  <2> QED BY <1>0, <1>3, <2>1, <2>2 DEF LockTypes
<1>6. DataTypes' /\ RequestTypes'
  BY <1>0, <1>1, <1>2 DEF DataTypes, RequestTypes
<1>7. Opened'
  BY <1>0, <1>1, <1>3, <1>4 DEF IInv, Opened, LockTypes
<1>8. SharedHeld'
  BY <1>0 DEF IInv, SharedHeld, LockTypes, LockShared, Miss, TryLock, TryFail,
              SentDirect, Goto
<1>9. Exclusive'
  BY <1>0 DEF IInv, Exclusive, LockTypes, LockShared, Miss, TryLock, TryFail,
              SentDirect, Goto, Free, SharedHeld
<1>10. EntryWhole' /\ Filling'
  BY <1>0, <1>1, <1>3, <1>4, EntriesKept DEF LockTypes
<1>11. ViewIntact'
  BY <1>0, <1>1, <1>3, <1>4, ViewsKept DEF IInv, LockTypes
<1> QED
  BY <1>5, <1>6, <1>7, <1>8, <1>9, <1>10, <1>11 DEF IInv, TypeOK

(* The two places where file_cache() returns a view.                         *)
LEMMA ReturnInv ==
  ASSUME IInv, NEW t \in Threads, Hit(t) \/ Relock(t)
  PROVE  IInv'
<1> USE CacheAssumption
<1>0. LockTypes /\ DataTypes /\ RequestTypes
  BY DEF IInv, TypeOK
<1>1. /\ pc[t] \in {"check", "relock"} /\ pc' = [pc EXCEPT ![t] = "serve"]
      /\ view' = [view EXCEPT ![t] = ViewOf(t)]
      /\ UNCHANGED <<disk, entry, writer, name, gz, ver, near, failed, freed>>
  BY DEF Hit, Relock, Goto, locals
<1>2. writer = NoThread
  BY <1>0 DEF Hit, Relock, Goto, IInv, SharedHeld, Exclusive, LockTypes
<1>3. /\ readers' \in [Threads -> Nat]
      /\ \A u \in Threads \ {t} : readers'[u] = readers[u]
      /\ readers'[t] > 0
  <2>1. CASE Hit(t)
    <3>1. UNCHANGED readers /\ readers[t] > 0
      BY <2>1 DEF Hit, Goto, IInv, SharedHeld
    <3> QED BY <1>0, <3>1 DEF LockTypes
  <2>2. CASE Relock(t)
    <3>1. readers' = [readers EXCEPT ![t] = @ + 1]
      BY <2>2 DEF Relock
    <3> QED BY <1>0, <3>1 DEF LockTypes
  <2> QED BY <2>1, <2>2
<1>4. same' \in [Threads -> BOOLEAN]
  BY <1>0 DEF Hit, Relock, RequestTypes, locals
<1>5. view' \in [Threads -> [data : Contents, size : Contents, gz : BOOLEAN]]
  <2>1. Entry(t) \in [data : Contents, size : Versions \cup {Null},
                      z : Contents, time : Nat]
    BY <1>0 DEF DataTypes, RequestTypes, Entry
  <2> DEFINE V == [data : Contents, size : Contents, gz : BOOLEAN]
  <2>2. ViewOf(t) \in V
    BY <2>1 DEF ViewOf, Contents
  <2>3. view \in [Threads -> V]
    BY <1>0 DEF RequestTypes
  <2> HIDE DEF V
  <2>4. view' \in [Threads -> V]
    BY <1>1, <2>2, <2>3
  <2> QED BY <2>4 DEF V
<1>6. LockTypes' /\ DataTypes'
  BY <1>0, <1>1, <1>3 DEF LockTypes, DataTypes
<1>7. RequestTypes'
  BY <1>0, <1>1, <1>4, <1>5 DEF RequestTypes
<1>8. Opened'
  BY <1>0, <1>1 DEF IInv, Opened, LockTypes
<1>9. SharedHeld' /\ Exclusive'
  <2>1. SharedHeld'
    BY <1>0, <1>1, <1>3 DEF IInv, SharedHeld, LockTypes
  <2>2. Exclusive'
    BY <1>0, <1>1, <1>2 DEF IInv, Exclusive, LockTypes
  <2> QED BY <2>1, <2>2
<1>10. EntryWhole' /\ Filling'
  BY <1>0, <1>1, EntriesKept DEF LockTypes
<1>11. ViewIntact'
  BY <1>1, <1>2, ViewTaken
<1> QED
  BY <1>6, <1>7, <1>8, <1>9, <1>10, <1>11 DEF IInv, TypeOK

LEMMA SentInv ==
  ASSUME IInv, NEW t \in Threads, Sent(t)
  PROVE  IInv'
<1> USE CacheAssumption
<1>0. LockTypes /\ DataTypes /\ RequestTypes
  BY DEF IInv, TypeOK
<1>1. /\ pc[t] = "serve" /\ pc' = [pc EXCEPT ![t] = "idle"]
      /\ view' = [view EXCEPT ![t] = Empty]
      /\ UNCHANGED <<disk, entry, writer, name, gz, ver, same, near, failed, freed>>
  BY DEF Sent, Goto, locals
<1>2. /\ readers' \in [Threads -> Nat]
      /\ \A u \in Threads \ {t} : readers'[u] = readers[u]
      /\ readers[t] > 0
  BY <1>0, <1>1 DEF Sent, LockTypes, IInv, SharedHeld
<1>3. writer = NoThread
  BY <1>0, <1>2 DEF IInv, Exclusive, LockTypes
<1>4. Empty \in [data : Contents, size : Contents, gz : BOOLEAN]
  BY DEF Empty, Contents
<1>5. LockTypes' /\ DataTypes' /\ RequestTypes'
  BY <1>0, <1>1, <1>2, <1>4 DEF LockTypes, DataTypes, RequestTypes
<1>6. Opened' /\ SharedHeld'
  BY <1>0, <1>1, <1>2 DEF IInv, Opened, SharedHeld, LockTypes
<1>7. Exclusive'
  BY <1>0, <1>1, <1>3 DEF IInv, Exclusive, LockTypes
<1>8. EntryWhole' /\ Filling'
  BY <1>0, <1>1, EntriesKept DEF LockTypes
<1>9. ViewIntact'
  BY <1>0, <1>1, ViewsKept DEF IInv, LockTypes, RequestTypes
<1> QED
  BY <1>5, <1>6, <1>7, <1>8, <1>9 DEF IInv, TypeOK

(* What all steps under the exclusive lock have in common: nobody else is    *)
(* affected.                                                                 *)
LEMMA ExclusiveStep ==
  ASSUME IInv, NEW t \in Threads, pc[t] \in {"load", "read", "zip"},
         NEW to \in {"read", "zip", "relock", "idle"},
         pc' = [pc EXCEPT ![t] = to],
         writer' = IF to \in {"read", "zip"} THEN t ELSE NoThread,
         failed => failed',
         UNCHANGED <<readers, ver, view>>
  PROVE  LockTypes' /\ Opened' /\ SharedHeld' /\ Exclusive' /\ ViewIntact'
<1> USE CacheAssumption
<1>0. LockTypes
  BY DEF IInv, TypeOK
<1>1. writer = t
  BY DEF IInv, Exclusive
<1>2. LockTypes'
  BY <1>0 DEF LockTypes
<1>3. Opened' /\ SharedHeld'
  BY <1>0 DEF IInv, Opened, SharedHeld, LockTypes
<1>4. Exclusive'
  BY <1>0, <1>1 DEF IInv, Exclusive, LockTypes
<1>5. \A u \in Threads : pc[u] # "serve" /\ pc'[u] # "serve"
  BY <1>0, <1>1, NobodyReads DEF LockTypes
<1>6. ViewIntact'
  BY <1>5 DEF ViewIntact
<1> QED
  BY <1>2, <1>3, <1>4, <1>6

LEMMA ReloadInv ==
  ASSUME IInv, NEW t \in Threads, Load(t) \/ Read(t) \/ ReadFail(t)
  PROVE  IInv'
<1> USE CacheAssumption
<1>0. /\ LockTypes /\ DataTypes /\ RequestTypes
      /\ pc[t] \in {"load", "read"} /\ ver[t] \in Versions /\ name[t] \in Names
      /\ \A u \in Threads : pc[u] = "read" => u = t
  <2>1. pc[t] \in {"load", "read"}
    BY DEF Load, Read, ReadFail, Goto
  <2> QED BY <2>1 DEF IInv, TypeOK, Opened, RequestTypes, Exclusive
<1>1. UNCHANGED <<disk, readers, name, gz, ver, same, near, view, freed>>
  BY DEF Load, Read, ReadFail, locals
<1>2. RequestTypes'
  BY <1>0, <1>1 DEF RequestTypes
<1>3. CASE Load(t)
  <2>1. /\ pc[t] = "load" /\ pc' = [pc EXCEPT ![t] = "read"]
        /\ UNCHANGED <<writer, failed>> /\ writer = t
        /\ entry' = [entry EXCEPT ![name[t]] =
             [@ EXCEPT !.time = Mtime[ver[t]], !.data = Garbage, !.size = ver[t]]]
    BY <1>3 DEF Load, Goto, IInv, Exclusive
  <2>2. LockTypes' /\ Opened' /\ SharedHeld' /\ Exclusive' /\ ViewIntact'
    BY <1>1, <2>1, ExclusiveStep
  <2>3. Mtime[ver[t]] \in Nat
    BY <1>0
  <2>4. DataTypes'
    BY <1>0, <1>1, <2>1, <2>3 DEF DataTypes, Contents
  <2>5. EntryWhole'
    BY <1>0, <1>1, <2>1 DEF IInv, EntryWhole, DataTypes, LockTypes
  <2>6. Filling'
    BY <1>0, <1>1, <2>1 DEF Filling, Entry, DataTypes, LockTypes
  <2> QED BY <1>2, <2>2, <2>4, <2>5, <2>6 DEF IInv, TypeOK
<1>4. CASE Read(t)
  <2>1. /\ pc[t] = "read" /\ pc' = [pc EXCEPT ![t] = "zip"]
        /\ UNCHANGED <<writer, failed>> /\ writer = t
        /\ entry' = [entry EXCEPT ![name[t]].data = ver[t]]
    BY <1>4 DEF Read, Goto, IInv, Exclusive, locals
  <2>2. LockTypes' /\ Opened' /\ SharedHeld' /\ Exclusive' /\ ViewIntact'
    BY <1>1, <2>1, ExclusiveStep
  <2>3. DataTypes'
    BY <1>0, <1>1, <2>1 DEF DataTypes, Contents
  <2>4. entry[name[t]].size = ver[t]
    BY <2>1 DEF IInv, Filling, Entry
  <2>5. EntryWhole'
    BY <1>0, <1>1, <2>1, <2>4 DEF IInv, EntryWhole, DataTypes, LockTypes
  <2>6. Filling'
    BY <1>0, <2>1 DEF Filling, LockTypes
  <2> QED BY <1>2, <2>2, <2>3, <2>5, <2>6 DEF IInv, TypeOK
<1>5. CASE ReadFail(t)
  <2>1. /\ pc[t] = "read" /\ pc' = [pc EXCEPT ![t] = "idle"]
        /\ writer' = NoThread /\ failed' = TRUE /\ UNCHANGED entry
    BY <1>5 DEF ReadFail, Goto
  <2>2. LockTypes' /\ Opened' /\ SharedHeld' /\ Exclusive' /\ ViewIntact'
    BY <1>1, <2>1, ExclusiveStep
  <2>3. DataTypes'
    BY <1>0, <1>1, <2>1 DEF DataTypes
  <2>4. EntryWhole'
    BY <2>1 DEF IInv, EntryWhole
  <2>5. Filling'
    BY <1>0, <2>1 DEF Filling, LockTypes
  <2> QED BY <1>2, <2>2, <2>3, <2>4, <2>5 DEF IInv, TypeOK
<1> QED
  BY <1>3, <1>4, <1>5

LEMMA CompressInv ==
  ASSUME IInv, NEW t \in Threads, NoZip(t) \/ Zip(t)
  PROVE  IInv'
<1> USE CacheAssumption
<1>0. /\ LockTypes /\ DataTypes /\ RequestTypes
      /\ pc[t] = "zip" /\ name[t] \in Names
      /\ \A u \in Threads : pc[u] # "read"
  <2>1. pc[t] = "zip"
    BY DEF NoZip, Zip, Goto
  <2> QED BY <2>1 DEF IInv, TypeOK, RequestTypes, Exclusive
<1>1. /\ pc' = [pc EXCEPT ![t] = "relock"] /\ writer' = NoThread
      /\ UNCHANGED <<disk, readers, name, ver, same, near, view, failed>>
  BY DEF NoZip, Zip, Goto, locals
<1>2. PICK z \in Contents : entry' = [entry EXCEPT ![name[t]].z = z]
  <2>1. Entry(t).data \in Contents
    BY <1>0 DEF DataTypes, Entry
  <2>2. CASE NoZip(t)
    BY <2>2 DEF NoZip, Contents
  <2>3. CASE Zip(t)
    BY <2>1, <2>3 DEF Zip, Contents
  <2> QED BY <2>2, <2>3
<1>3. LockTypes' /\ Opened' /\ SharedHeld' /\ Exclusive' /\ ViewIntact'
  BY <1>0, <1>1, ExclusiveStep
<1>4. freed' \in BOOLEAN
  BY <1>0 DEF NoZip, Zip, DataTypes
<1>5. DataTypes'
  BY <1>0, <1>1, <1>2, <1>4 DEF DataTypes
<1>6. gz' \in [Threads -> BOOLEAN]
  BY <1>0 DEF NoZip, Zip, RequestTypes, locals
<1>7. RequestTypes'
  BY <1>0, <1>1, <1>6 DEF RequestTypes
<1>8. EntryWhole'
  BY <1>0, <1>1, <1>2 DEF IInv, EntryWhole, DataTypes
<1>9. Filling'
  BY <1>0, <1>1 DEF Filling, LockTypes
<1> QED
  BY <1>3, <1>5, <1>7, <1>8, <1>9 DEF IInv, TypeOK
------------------------------------------------------------------------------
LEMMA NextInv == IInv /\ [Next]_vars => IInv'
<1> SUFFICES ASSUME IInv, [Next]_vars PROVE IInv'
  OBVIOUS
<1>1. ASSUME NEW n \in Names, Edit(n) PROVE IInv'
  BY <1>1, EditInv
<1>2. ASSUME NEW t \in Threads, NEW n \in Names, NEW g \in GzModes, Open(t, n, g)
      PROVE  IInv'
  BY <1>2, OpenInv
<1>3. ASSUME NEW t \in Threads, Step(t) PROVE IInv'
  BY <1>3, LockStepInv, ReturnInv, SentInv, ReloadInv, CompressInv DEF Step
<1>4. CASE UNCHANGED vars
  <2>1. /\ UNCHANGED <<disk, entry, readers, writer, pc, failed, freed>>
        /\ UNCHANGED <<name, gz, ver, same, near, view>>
    BY <1>4 DEF vars, locals
  <2>2. LockTypes' /\ DataTypes' /\ RequestTypes'
    BY <2>1 DEF IInv, TypeOK, LockTypes, DataTypes, RequestTypes
  <2>3. Opened' /\ SharedHeld' /\ Exclusive'
    BY <2>1 DEF IInv, Opened, SharedHeld, Exclusive
  <2>4. EntryWhole' /\ Filling'
    BY <2>1, EntriesKept
  <2>5. ViewIntact'
    BY <2>1, ViewsKept DEF IInv
  <2> QED BY <2>2, <2>3, <2>4, <2>5 DEF IInv, TypeOK
<1> QED
  BY <1>1, <1>2, <1>3, <1>4 DEF Next

(* The inductive invariant holds in every state of every behaviour.          *)
THEOREM Invariance == Spec => []IInv
<1>1. Init => IInv
  BY InitInv
<1>2. IInv /\ [Next]_vars => IInv'
  BY NextInv
<1> QED
  BY <1>1, <1>2, PTL DEF Spec

(* Every variable of the cache has its type. *)
THEOREM TypeCorrect == Spec => []TypeOK
<1>1. IInv => TypeOK
  BY DEF IInv
<1> QED
  BY <1>1, Invariance, PTL

(* While a worker sends from the cache nobody changes what it sends, however *)
(* long its client takes, and the plain bytes have the length that is sent,  *)
(* for any number of workers, files and versions.                            *)
THEOREM ViewStaysIntact == Spec => []ViewIntact
<1>1. IInv => ViewIntact
  BY DEF IInv
<1> QED
  BY <1>1, Invariance, PTL
------------------------------------------------------------------------------
(* When nobody asks for compression and no file has the time stamp of an     *)
(* empty entry, every view has data, and so every shared lock is released.   *)
PlainFiles == GzModes = {FALSE} /\ \A v \in Versions : Mtime[v] > 0

(* An entry without data has the time stamp of an empty one. *)
Stamped == \A n \in Names : entry[n].data = Null => entry[n].time = 0

(* Whoever misses has to load the file; who has loaded it finds it there.    *)
Loaded ==
  \A t \in Threads :
    /\ ~gz[t]
    /\ pc[t] = "try" => ~same[t]
    /\ pc[t] \in {"zip", "relock"} => Entry(t).data # Null
    /\ pc[t] = "serve" => view[t].data # Null

Balanced ==
  \A t \in Threads : readers[t] = IF pc[t] \in {"check", "serve"} THEN 1 ELSE 0

PlainInv == Stamped /\ Loaded /\ Balanced

LEMMA PlainInit == Init => PlainInv
  BY CacheAssumption DEF Init, PlainInv, Stamped, Loaded, Balanced

LEMMA PlainStep ==
  ASSUME PlainFiles, IInv, PlainInv, NEW t \in Threads, Step(t)
  PROVE  PlainInv'
<1> USE CacheAssumption
<1>0. /\ LockTypes /\ DataTypes /\ RequestTypes
      /\ Stamped /\ Loaded /\ Balanced
      /\ Entry(t).data = Null => Entry(t).time = 0
      /\ pc[t] # "idle" => Mtime[ver[t]] > 0
  BY DEF IInv, TypeOK, PlainInv, PlainFiles, Stamped, RequestTypes, Entry, Opened
<1>1. CASE LockShared(t)
  <2> USE <1>1 DEF LockShared, Goto, locals
  <2>1. Stamped' /\ Loaded'
    BY <1>0 DEF Stamped, Loaded, Entry, LockTypes
  <2>2. Balanced'
    BY <1>0 DEF Balanced, LockTypes
  <2> QED BY <2>1, <2>2 DEF PlainInv
<1>2. CASE Hit(t)
  <2> USE <1>2 DEF Hit, Goto
  <2>1. view'[t].data # Null
    BY <1>0 DEF Loaded, Pointer, ViewOf, RequestTypes
  <2>2. Stamped' /\ Loaded'
    BY <1>0, <2>1 DEF Stamped, Loaded, Entry, LockTypes, RequestTypes
  <2>3. Balanced'
    BY <1>0 DEF Balanced, LockTypes
  <2> QED BY <2>2, <2>3 DEF PlainInv
<1>3. CASE Miss(t)
  <2>1. /\ pc[t] = "check" /\ pc' = [pc EXCEPT ![t] = IF ver[t] \in Large THEN "direct" ELSE "try"]
        /\ readers' = [readers EXCEPT ![t] = @ - 1]
        /\ same' = [same EXCEPT ![t] = SameTime(t)]
        /\ UNCHANGED <<entry, name, gz, view>>
    BY <1>3 DEF Miss, Goto
  <2>2. ~SameTime(t)
    BY <1>0, <1>3, <2>1 DEF Miss, Loaded, Pointer, SameTime
  <2>3. Stamped'
    BY <1>0, <2>1 DEF Stamped
  <2>4. Loaded'
    BY <1>0, <2>1, <2>2 DEF Loaded, Entry, LockTypes, RequestTypes
  <2>5. Balanced'
    BY <1>0, <2>1 DEF Balanced, LockTypes
  <2> QED BY <2>3, <2>4, <2>5 DEF PlainInv
<1>4. CASE TryLock(t) \/ TryFail(t) \/ SentDirect(t)
  <2>1. PICK to \in {"load", "lock", "idle"} : pc' = [pc EXCEPT ![t] = to]
    BY <1>0, <1>4 DEF TryLock, TryFail, SentDirect, Goto, Loaded
  <2>2. /\ UNCHANGED <<entry, readers, name, gz, same, view>>
        /\ pc[t] \notin {"check", "serve"}
    BY <1>4 DEF TryLock, TryFail, SentDirect, Goto, locals
  <2>3. Stamped' /\ Loaded'
    BY <1>0, <2>1, <2>2 DEF Stamped, Loaded, Entry, LockTypes
  <2>4. Balanced'
    BY <1>0, <2>1, <2>2 DEF Balanced, LockTypes
  <2> QED BY <2>3, <2>4 DEF PlainInv
<1>5. CASE Load(t) \/ Read(t) \/ ReadFail(t) \/ NoZip(t)
  <2>1. PICK to \in {"read", "zip", "idle", "relock"} :
          /\ pc' = [pc EXCEPT ![t] = to]
          /\ to = "zip" => Read(t)
          /\ to = "relock" => pc[t] = "zip" /\ NoZip(t)
    BY <1>5 DEF Load, Read, ReadFail, NoZip, Goto
  <2>2. /\ UNCHANGED <<readers, name, same, view>>
        /\ pc[t] \notin {"check", "serve", "try"} /\ pc[t] # "idle"
        /\ \A u \in Threads : gz'[u] => gz[u]
    BY <1>0, <1>5 DEF Load, Read, ReadFail, NoZip, Goto, locals, RequestTypes
  <2>3. ver[t] \in Versions /\ ver[t] # Null
    BY <2>2 DEF IInv, Opened
  <2>4. \A n \in Names : /\ entry'[n].data = Null => entry[n].data = Null
                         /\ entry'[n].data = Null => entry'[n].time = entry[n].time
    <3>1. CASE Load(t)
      BY <1>0, <3>1 DEF Load, DataTypes
    <3>2. CASE Read(t)
      BY <1>0, <2>3, <3>2 DEF Read, DataTypes
    <3>3. CASE ReadFail(t)
      BY <3>3 DEF ReadFail
    <3>4. CASE NoZip(t)
      BY <1>0, <3>4 DEF NoZip, DataTypes
    <3> QED BY <1>5, <3>1, <3>2, <3>3, <3>4
  <2>5. Stamped'
    BY <1>0, <2>4 DEF Stamped
  <2>6. Read(t) => Entry(t)'.data # Null
    BY <1>0, <2>3 DEF Read, Entry, DataTypes, RequestTypes, locals
  <2>7. Loaded'
    <3> SUFFICES ASSUME NEW u \in Threads
                 PROVE  /\ ~gz'[u]
                        /\ pc'[u] = "try" => ~same'[u]
                        /\ pc'[u] \in {"zip", "relock"} => Entry(u)'.data # Null
                        /\ pc'[u] = "serve" => view'[u].data # Null
      BY DEF Loaded
    <3>1. ~gz'[u] /\ (pc'[u] = "try" => ~same'[u])
      BY <1>0, <2>1, <2>2 DEF Loaded, LockTypes
    <3>2. pc'[u] = "serve" => view'[u].data # Null
      BY <1>0, <2>1, <2>2 DEF Loaded, LockTypes
    <3>3. pc'[u] \in {"zip", "relock"} => Entry(u)'.data # Null
      BY <1>0, <2>1, <2>2, <2>4, <2>6 DEF Loaded, Entry, LockTypes, RequestTypes
    <3> QED BY <3>1, <3>2, <3>3
  <2>8. Balanced'
    BY <1>0, <2>1, <2>2 DEF Balanced, LockTypes
  <2> QED BY <2>5, <2>7, <2>8 DEF PlainInv
<1>6. ~Zip(t)
  BY <1>0 DEF Zip, Loaded
<1>7. CASE Relock(t)
  <2> USE <1>7 DEF Relock, Goto, locals
  <2>1. view'[t].data # Null
    BY <1>0 DEF Loaded, ViewOf, RequestTypes
  <2>2. Stamped' /\ Loaded'
    BY <1>0, <2>1 DEF Stamped, Loaded, Entry, LockTypes, RequestTypes
  <2>3. Balanced'
    BY <1>0 DEF Balanced, LockTypes
  <2> QED BY <2>2, <2>3 DEF PlainInv
<1>8. CASE Sent(t)
  <2> USE <1>8 DEF Sent, Goto, locals
  <2>1. readers' = [readers EXCEPT ![t] = @ - 1]
    BY <1>0 DEF Loaded
  <2>2. Stamped' /\ Loaded'
    BY <1>0 DEF Stamped, Loaded, Entry, LockTypes, RequestTypes
  <2>3. Balanced'
    BY <1>0, <2>1 DEF Balanced, LockTypes
  <2> QED BY <2>2, <2>3 DEF PlainInv
<1> QED
  BY <1>1, <1>2, <1>3, <1>4, <1>5, <1>6, <1>7, <1>8 DEF Step

LEMMA PlainNext == PlainFiles /\ IInv /\ PlainInv /\ [Next]_vars => PlainInv'
<1> SUFFICES ASSUME PlainFiles, IInv, PlainInv, [Next]_vars PROVE PlainInv'
  OBVIOUS
<1>0. LockTypes /\ RequestTypes
  BY DEF IInv, TypeOK
<1>1. ASSUME NEW n \in Names, Edit(n) PROVE PlainInv'
  BY <1>1 DEF Edit, locals, PlainInv, Stamped, Loaded, Balanced, Entry
<1>2. ASSUME NEW t \in Threads, NEW n \in Names, NEW g \in GzModes, Open(t, n, g)
      PROVE  PlainInv'
  <2>1. /\ pc[t] = "idle" /\ pc' = [pc EXCEPT ![t] = "lock"]
        /\ name' = [name EXCEPT ![t] = n] /\ gz' = [gz EXCEPT ![t] = FALSE]
        /\ UNCHANGED <<entry, readers, same, view>>
    BY <1>2 DEF Open, Goto, PlainFiles
  <2>2. Stamped' /\ Loaded'
    BY <1>0, <2>1 DEF PlainInv, Stamped, Loaded, Entry, LockTypes, RequestTypes
  <2>3. Balanced'
    BY <1>0, <2>1 DEF PlainInv, Balanced, LockTypes
  <2> QED BY <2>2, <2>3 DEF PlainInv
<1>3. ASSUME NEW t \in Threads, Step(t) PROVE PlainInv'
  BY <1>3, PlainStep
<1>4. CASE UNCHANGED vars
  BY <1>4 DEF vars, locals, PlainInv, Stamped, Loaded, Balanced, Entry
<1> QED
  BY <1>1, <1>2, <1>3, <1>4 DEF Next

(* Where no response is compressed and no time stamp is zero, both modes of  *)
(* the lock balance on every path through file_cache(), its exception        *)
(* included.                                                                 *)
THEOREM LocksBalance == PlainFiles => (Spec => []LocksMatch)
<1> SUFFICES ASSUME PlainFiles PROVE Spec => []LocksMatch
  OBVIOUS
<1>1. Init => PlainInv
  BY PlainInit
<1>2. IInv /\ PlainInv /\ [Next]_vars => PlainInv'
  BY PlainNext
<1>3. IInv /\ PlainInv => LocksMatch
  BY DEF IInv, Exclusive, PlainInv, Balanced, LocksMatch
<1> QED
  BY <1>1, <1>2, <1>3, Invariance, PTL DEF Spec

------------------------------------------------------------------------------
(* What the plain copy of an entry is has the entry's time stamp, and so has *)
(* the compressed copy unless the entry is being filled, which gives it the  *)
(* stamp first.                                                              *)
Dated ==
  /\ \A n \in Names :
       /\ entry[n].data \in Versions => Mtime[entry[n].data] = entry[n].time
       /\ entry[n].z \in Versions =>
            \/ Mtime[entry[n].z] = entry[n].time
            \/ \E t \in Threads : name[t] = n /\ pc[t] \in {"read", "zip"}
  /\ \A t \in Threads : pc[t] = "read" => Entry(t).time = Mtime[ver[t]]

(* Requests for a file that overlap are near each other. *)
Overlap ==
  \A t, u \in Threads :
    pc[t] # "idle" /\ pc[u] # "idle" /\ name[t] = name[u] => ver[u] \in near[t]

(* A request that has decided not to read the file, or has read it, finds in *)
(* the entry what is near it.                                                *)
Keeps(t) == pc[t] = "relock" \/ (pc[t] = "try" /\ same[t])
NearEntry ==
  \A t \in Threads :
    /\ (Keeps(t) \/ pc[t] = "zip") /\ Entry(t).data \in Versions => Entry(t).data \in near[t]
    /\ Keeps(t) /\ Entry(t).z \in Versions => Entry(t).z \in near[t]
    /\ pc[t] = "serve" /\ view[t].data \in Versions => view[t].data \in near[t]

FreshInv == ~failed => Dated /\ Overlap /\ NearEntry

LEMMA FreshInit == Init => FreshInv
  BY CacheAssumption DEF Init, FreshInv, Dated, Overlap, NearEntry, Keeps, Entry

(* Under the shared lock no entry is being filled, and what has the time     *)
(* stamp of one's own file is that file.                                     *)
LEMMA SameTimeNear ==
  ASSUME DistinctTimes, IInv, Dated, Overlap, NEW t \in Threads, pc[t] = "check", SameTime(t)
  PROVE  /\ Entry(t).data \in Versions => Entry(t).data \in near[t]
         /\ Entry(t).z \in Versions => Entry(t).z \in near[t]
<1>0. ver[t] \in Versions /\ name[t] \in Names /\ ver[t] \in near[t]
  BY DEF IInv, TypeOK, RequestTypes, Opened, Overlap
<1>1. writer = NoThread
  <2>1. readers[t] > 0 /\ readers[t] \in Nat
    BY DEF IInv, TypeOK, LockTypes, SharedHeld
  <2> QED BY <2>1 DEF IInv, Exclusive
<1>2. \A u \in Threads : pc[u] \notin {"read", "zip"}
  BY <1>1, CacheAssumption DEF IInv, Exclusive
<1>3. /\ Entry(t).data \in Versions => Mtime[Entry(t).data] = Mtime[ver[t]]
      /\ Entry(t).z \in Versions => Mtime[Entry(t).z] = Mtime[ver[t]]
  BY <1>0, <1>2 DEF Dated, Entry, SameTime
<1> QED
  BY <1>0, <1>3 DEF DistinctTimes

(* Steps that change no entry and no request's file.                         *)
LEMMA DatedKept ==
  ASSUME Dated, UNCHANGED <<entry, name, ver>>,
         \A u \in Threads : /\ pc[u] \in {"read", "zip"} => pc'[u] = pc[u]
                            /\ pc'[u] = "read" => pc[u] = "read"
  PROVE  Dated'
<1>1. ASSUME NEW n \in Names
      PROVE  /\ entry'[n].data \in Versions => Mtime[entry'[n].data] = entry'[n].time
             /\ entry'[n].z \in Versions =>
                  \/ Mtime[entry'[n].z] = entry'[n].time
                  \/ \E t \in Threads : name'[t] = n /\ pc'[t] \in {"read", "zip"}
  BY DEF Dated
<1>2. ASSUME NEW t \in Threads, pc'[t] = "read" PROVE Entry(t)'.time = Mtime[ver'[t]]
  BY <1>2 DEF Dated, Entry
<1> QED
  BY <1>1, <1>2 DEF Dated

LEMMA OverlapKept ==
  ASSUME Overlap, UNCHANGED <<name, ver, near>>,
         \A u \in Threads : pc'[u] # "idle" => pc[u] # "idle"
  PROVE  Overlap'
  BY DEF Overlap

(* The steps outside the exclusive lock.                                     *)
LEMMA FreshOutside ==
  ASSUME DistinctTimes, IInv, Dated, Overlap, NearEntry, NEW t \in Threads,
         \/ LockShared(t) \/ Hit(t) \/ Miss(t) \/ TryLock(t) \/ TryFail(t)
         \/ Relock(t) \/ Sent(t) \/ SentDirect(t)
  PROVE  Dated' /\ Overlap' /\ NearEntry'
<1>0. LockTypes /\ RequestTypes
  BY DEF IInv, TypeOK
<1>1. UNCHANGED <<entry, name, ver, near>>
  BY DEF LockShared, Hit, Miss, TryLock, TryFail, Relock, Sent, SentDirect, locals
<1>2. PICK to \in {"check", "serve", "direct", "try", "zip", "load", "lock", "idle"} :
        pc' = [pc EXCEPT ![t] = to]
  BY DEF LockShared, Hit, Miss, TryLock, TryFail, Relock, Sent, SentDirect, Goto
<1>3. pc[t] \in {"lock", "check", "try", "relock", "serve", "direct"}
  BY DEF LockShared, Hit, Miss, TryLock, TryFail, Relock, Sent, SentDirect, Goto
<1>4. Dated'
  BY <1>0, <1>1, <1>2, <1>3, DatedKept DEF LockTypes
<1>5. Overlap'
  BY <1>0, <1>1, <1>2, <1>3, OverlapKept DEF LockTypes
<1>6. \A u \in Threads : Entry(u)' = Entry(u)
  BY <1>1 DEF Entry
<1>7. \A u \in Threads \ {t} : pc'[u] = pc[u] /\ same'[u] = same[u] /\ view'[u] = view[u]
  BY <1>0, <1>2 DEF LockTypes, RequestTypes, locals,
                    LockShared, Hit, Miss, TryLock, TryFail, Relock, Sent, SentDirect
<1>8. /\ Keeps(t)' => /\ Entry(t).data \in Versions => Entry(t).data \in near[t]
                      /\ Entry(t).z \in Versions => Entry(t).z \in near[t]
      /\ pc'[t] = "zip" /\ Entry(t).data \in Versions => Entry(t).data \in near[t]
  <2>1. CASE Miss(t)
    <3>1. pc[t] = "check" /\ same'[t] = SameTime(t) /\ pc'[t] \in {"direct", "try"}
      BY <1>0, <2>1 DEF Miss, Goto, LockTypes, RequestTypes
    <3> QED BY <3>1, SameTimeNear DEF Keeps
  <2>2. CASE TryLock(t)
    <3>1. pc[t] = "try" /\ pc'[t] = IF same[t] THEN "zip" ELSE "load"
      BY <1>0, <2>2 DEF TryLock, Goto, LockTypes
    <3> QED BY <3>1 DEF NearEntry, Keeps
  <2>3. CASE LockShared(t) \/ Hit(t) \/ TryFail(t) \/ Relock(t) \/ Sent(t) \/ SentDirect(t)
    <3>1. pc'[t] \notin {"relock", "try", "zip"}
      BY <1>0, <2>3 DEF LockShared, Hit, TryFail, Relock, Sent, SentDirect, Goto, LockTypes
    <3> QED BY <3>1 DEF Keeps
  <2> QED BY <2>1, <2>2, <2>3
<1>9. pc'[t] = "serve" /\ view'[t].data \in Versions => view'[t].data \in near[t]
  <2>1. CASE Hit(t) \/ Relock(t)
    <3>1. view'[t] = ViewOf(t)
      BY <1>0, <2>1 DEF Hit, Relock, RequestTypes
    <3>2. /\ Entry(t).data \in Versions => Entry(t).data \in near[t]
          /\ Entry(t).z \in Versions => Entry(t).z \in near[t]
      <4>1. CASE Hit(t)
        BY <4>1, SameTimeNear DEF Hit, Goto
      <4>2. CASE Relock(t)
        BY <4>2 DEF Relock, Goto, NearEntry, Keeps
      <4> QED BY <2>1, <4>1, <4>2
    <3> QED BY <3>1, <3>2 DEF ViewOf
  <2>2. CASE ~(Hit(t) \/ Relock(t))
    <3>1. pc'[t] # "serve"
      BY <1>0, <2>2 DEF LockShared, Miss, TryLock, TryFail, Sent, SentDirect, Goto, LockTypes
    <3> QED BY <3>1
  <2> QED BY <2>1, <2>2
<1>10. NearEntry'
  <2> SUFFICES ASSUME NEW u \in Threads
               PROVE  /\ (Keeps(u)' \/ pc'[u] = "zip") /\ Entry(u)'.data \in Versions
                           => Entry(u)'.data \in near'[u]
                      /\ Keeps(u)' /\ Entry(u)'.z \in Versions => Entry(u)'.z \in near'[u]
                      /\ pc'[u] = "serve" /\ view'[u].data \in Versions
                           => view'[u].data \in near'[u]
    BY DEF NearEntry
  <2>1. CASE u = t
    BY <1>1, <1>6, <1>8, <1>9, <2>1
  <2>2. CASE u # t
    BY <1>1, <1>6, <1>7, <2>2 DEF NearEntry, Keeps
  <2> QED BY <2>1, <2>2
<1> QED
  BY <1>4, <1>5, <1>10

(* The steps under the exclusive lock: what others find in the entry changes *)
(* to what is near them, since they overlap with whoever reads it.           *)
LEMMA FreshInside ==
  ASSUME IInv, Dated, Overlap, NearEntry, NEW t \in Threads,
         Load(t) \/ Read(t) \/ NoZip(t) \/ Zip(t)
  PROVE  Dated' /\ Overlap' /\ NearEntry'
<1> USE CacheAssumption
<1>0. /\ LockTypes /\ DataTypes /\ RequestTypes
      /\ pc[t] \in {"load", "read", "zip"} /\ ver[t] \in Versions /\ name[t] \in Names
      /\ \A u \in Threads : pc[u] \in {"load", "read", "zip"} => u = t
  <2>1. pc[t] \in {"load", "read", "zip"}
    BY DEF Load, Read, NoZip, Zip, Goto
  <2> QED BY <2>1 DEF IInv, TypeOK, Opened, RequestTypes, Exclusive
<1>1. UNCHANGED <<name, ver, near, same, view>>
  BY DEF Load, Read, NoZip, Zip, locals
<1>2. PICK to \in {"read", "zip", "relock"} : pc' = [pc EXCEPT ![t] = to]
  BY DEF Load, Read, NoZip, Zip, Goto
<1>3. \A u \in Threads \ {t} : pc'[u] = pc[u] /\ pc'[u] \notin {"load", "read", "zip"}
  BY <1>0, <1>2 DEF LockTypes
<1>4. Overlap'
  BY <1>0, <1>1, <1>2, OverlapKept DEF LockTypes
<1>5. \A n \in Names \ {name[t]} : entry'[n] = entry[n]
  BY <1>0 DEF Load, Read, NoZip, Zip, DataTypes
<1> DEFINE new == entry'[name[t]]
           old == entry[name[t]]
<1>6. \/ /\ pc[t] = "load" /\ pc'[t] = "read"
         /\ new.data = Garbage /\ new.z = old.z /\ new.time = Mtime[ver[t]]
      \/ /\ pc[t] = "read" /\ pc'[t] = "zip"
         /\ new.data = ver[t] /\ new.z = old.z /\ new.time = old.time
      \/ /\ pc[t] = "zip" /\ pc'[t] = "relock"
         /\ new.data = old.data /\ new.time = old.time
         /\ new.z \in {Null, Garbage, old.data}
  <2>1. CASE Load(t)
    BY <1>0, <2>1 DEF Load, Goto, LockTypes, DataTypes
  <2>2. CASE Read(t)
    BY <1>0, <2>2 DEF Read, Goto, LockTypes, DataTypes
  <2>3. CASE NoZip(t)
    BY <1>0, <2>3 DEF NoZip, Goto, LockTypes, DataTypes
  <2>4. CASE Zip(t)
    BY <1>0, <2>4 DEF Zip, Goto, LockTypes, DataTypes, Entry
  <2> QED BY <2>1, <2>2, <2>3, <2>4
<1> HIDE DEF new, old
<1>7. /\ old.data \in Versions => Mtime[old.data] = old.time
      /\ pc[t] = "read" => old.time = Mtime[ver[t]]
  BY <1>0 DEF Dated, Entry, old
<1>8. Dated'
  <2>1. ASSUME NEW n \in Names
        PROVE  /\ entry'[n].data \in Versions => Mtime[entry'[n].data] = entry'[n].time
               /\ entry'[n].z \in Versions =>
                    \/ Mtime[entry'[n].z] = entry'[n].time
                    \/ \E u \in Threads : name'[u] = n /\ pc'[u] \in {"read", "zip"}
    <3>1. CASE n = name[t]
      <4>1. /\ new.data \in Versions => Mtime[new.data] = new.time
            /\ new.z \in Versions => Mtime[new.z] = new.time \/ pc'[t] \in {"read", "zip"}
        BY <1>6, <1>7
      <4> QED BY <1>1, <3>1, <4>1 DEF new
    <3>2. CASE n # name[t]
      <4>1. ~ \E u \in Threads : name[u] = n /\ pc[u] \in {"read", "zip"}
        BY <1>0, <3>2
      <4> QED BY <1>5, <3>2, <4>1 DEF Dated
    <3> QED BY <3>1, <3>2
  <2>2. ASSUME NEW u \in Threads, pc'[u] = "read" PROVE Entry(u)'.time = Mtime[ver'[u]]
    <3>1. u = t
      BY <1>3, <2>2
    <3>2. new.time = Mtime[ver[t]]
      BY <1>6, <2>2, <3>1
    <3> QED BY <1>1, <3>1, <3>2 DEF Entry, new
  <2> QED BY <2>1, <2>2 DEF Dated
<1>9. ASSUME NEW u \in Threads, Keeps(u)' \/ pc'[u] = "zip"
      PROVE  /\ Entry(u)'.data \in Versions => Entry(u)'.data \in near[u]
             /\ Keeps(u)' /\ Entry(u)'.z \in Versions => Entry(u)'.z \in near[u]
  <2>1. pc[u] # "idle"
    BY <1>0, <1>3, <1>9 DEF Keeps
  <2>2. CASE name[u] # name[t]
    <3>1. Entry(u)' = Entry(u)
      BY <1>0, <1>1, <1>5, <2>2 DEF Entry, RequestTypes
    <3>2. u # t /\ pc'[u] = pc[u] /\ same'[u] = same[u]
      BY <1>1, <1>3, <2>2
    <3> QED BY <1>9, <3>1, <3>2 DEF NearEntry, Keeps
  <2>3. CASE name[u] = name[t]
    <3>1. Entry(u)' = new /\ Entry(u) = old
      BY <1>1, <2>3 DEF Entry, new, old
    <3>2. ver[t] \in near[u]
      BY <1>0, <2>1, <2>3 DEF Overlap
    <3>3. CASE u = t
      <4>1. pc[t] = "zip" /\ old.data \in Versions => old.data \in near[t]
        BY DEF NearEntry, Entry, old
      <4>2. Keeps(t)' => pc'[t] = "relock"
        BY <1>6 DEF Keeps
      <4> QED BY <1>6, <1>9, <3>1, <3>2, <3>3, <4>1, <4>2
    <3>4. CASE u # t
      <4>1. Keeps(u) /\ Keeps(u)'
        BY <1>1, <1>3, <1>9, <3>4 DEF Keeps
      <4>2. /\ old.data \in Versions => old.data \in near[u]
            /\ old.z \in Versions => old.z \in near[u]
        BY <3>1, <4>1 DEF NearEntry
      <4> QED BY <1>6, <3>1, <3>2, <4>2
    <3> QED BY <3>3, <3>4
  <2> QED BY <2>2, <2>3
<1>10. ASSUME NEW u \in Threads, pc'[u] = "serve", view'[u].data \in Versions
       PROVE  view'[u].data \in near[u]
  <2>1. pc[u] = "serve"
    BY <1>3, <1>6, <1>10
  <2> QED BY <1>1, <1>10, <2>1 DEF NearEntry
<1>11. NearEntry'
  BY <1>1, <1>9, <1>10 DEF NearEntry
<1> QED
  BY <1>4, <1>8, <1>11

LEMMA FreshOpen ==
  ASSUME IInv, Dated, Overlap, NearEntry,
         NEW t \in Threads, NEW n \in Names, NEW g \in GzModes, Open(t, n, g)
  PROVE  Dated' /\ Overlap' /\ NearEntry'
<1>0. LockTypes /\ DataTypes /\ RequestTypes
  BY DEF IInv, TypeOK
<1>1. /\ pc[t] = "idle" /\ pc' = [pc EXCEPT ![t] = "lock"]
      /\ name' = [name EXCEPT ![t] = n]
      /\ ver' = [ver EXCEPT ![t] = disk[n]]
      /\ UNCHANGED <<entry, same, view>>
  BY DEF Open, Goto
<1>2. /\ pc'[t] = "lock" /\ name'[t] = n /\ ver'[t] = disk[n]
      /\ \A u \in Threads \ {t} :
           pc'[u] = pc[u] /\ name'[u] = name[u] /\ ver'[u] = ver[u]
  BY <1>0, <1>1 DEF LockTypes, RequestTypes
<1>3. /\ disk[n] \in near'[t]
      /\ \A u \in Threads : pc[u] # "idle" /\ name[u] = n => ver[u] \in near'[t]
      /\ \A u \in Threads \ {t} : near[u] \subseteq near'[u]
      /\ \A u \in Threads \ {t} : pc[u] # "idle" /\ name[u] = n => disk[n] \in near'[u]
  <2>1. near' = [u \in Threads |->
                   IF u = t
                   THEN {disk[n]} \cup {ver[x] : x \in {y \in Active : name[y] = n}}
                   ELSE IF u \in Active /\ name[u] = n THEN near[u] \cup {disk[n]}
                   ELSE near[u]]
    BY DEF Open
  <2>2. near'[t] = {disk[n]} \cup {ver[x] : x \in {y \in Active : name[y] = n}}
    BY <2>1
  <2>3. \A u \in Threads \ {t} :
          near'[u] = IF u \in Active /\ name[u] = n THEN near[u] \cup {disk[n]} ELSE near[u]
    BY <2>1
  <2> QED BY <2>2, <2>3 DEF Active
<1>4. Dated'
  <2>1. ASSUME NEW k \in Names
        PROVE  /\ entry'[k].data \in Versions => Mtime[entry'[k].data] = entry'[k].time
               /\ entry'[k].z \in Versions =>
                    \/ Mtime[entry'[k].z] = entry'[k].time
                    \/ \E u \in Threads : name'[u] = k /\ pc'[u] \in {"read", "zip"}
    <3>1. \A u \in Threads : name[u] = k /\ pc[u] \in {"read", "zip"}
                               => name'[u] = k /\ pc'[u] \in {"read", "zip"}
      BY <1>1, <1>2
    <3> QED BY <1>1, <3>1 DEF Dated
  <2>2. ASSUME NEW u \in Threads, pc'[u] = "read" PROVE Entry(u)'.time = Mtime[ver'[u]]
    <3>1. u # t
      BY <1>2, <2>2
    <3> QED BY <1>1, <1>2, <2>2, <3>1 DEF Dated, Entry
  <2> QED BY <2>1, <2>2 DEF Dated
<1>5. Overlap'
  <2> SUFFICES ASSUME NEW u \in Threads, NEW x \in Threads,
                      pc'[u] # "idle", pc'[x] # "idle", name'[u] = name'[x]
               PROVE  ver'[x] \in near'[u]
    BY DEF Overlap
  <2>1. CASE u = t
    BY <1>2, <1>3, <2>1
  <2>2. CASE u # t /\ x = t
    BY <1>2, <1>3, <2>2
  <2>3. CASE u # t /\ x # t
    BY <1>2, <1>3, <2>3 DEF Overlap
  <2> QED BY <2>1, <2>2, <2>3
<1>6. NearEntry'
  <2> SUFFICES ASSUME NEW u \in Threads
               PROVE  /\ (Keeps(u)' \/ pc'[u] = "zip") /\ Entry(u)'.data \in Versions
                           => Entry(u)'.data \in near'[u]
                      /\ Keeps(u)' /\ Entry(u)'.z \in Versions => Entry(u)'.z \in near'[u]
                      /\ pc'[u] = "serve" /\ view'[u].data \in Versions
                           => view'[u].data \in near'[u]
    BY DEF NearEntry
  <2>1. CASE u = t
    BY <1>2, <2>1 DEF Keeps
  <2>2. CASE u # t
    <3>1. Entry(u)' = Entry(u) /\ (Keeps(u)' <=> Keeps(u)) /\ near[u] \subseteq near'[u]
      BY <1>1, <1>2, <1>3, <2>2 DEF Entry, Keeps
    <3> QED BY <1>1, <1>2, <2>2, <3>1 DEF NearEntry
  <2> QED BY <2>1, <2>2
<1> QED
  BY <1>4, <1>5, <1>6

LEMMA FreshNext == DistinctTimes /\ IInv /\ FreshInv /\ [Next]_vars => FreshInv'
<1> SUFFICES ASSUME DistinctTimes, IInv, FreshInv, [Next]_vars, ~failed'
             PROVE  Dated' /\ Overlap' /\ NearEntry'
  BY DEF FreshInv
<1>0. ASSUME failed PROVE FALSE
  BY <1>0 DEF Next, Edit, Open, Step, LockShared, Hit, Miss, TryLock, TryFail, Load, Read,
              ReadFail, NoZip, Zip, Relock, Sent, SentDirect, vars
<1>1. Dated /\ Overlap /\ NearEntry
  BY <1>0 DEF FreshInv
<1>2. ASSUME UNCHANGED <<entry, pc, locals, view>> PROVE Dated' /\ Overlap' /\ NearEntry'
  BY <1>1, <1>2 DEF locals, Dated, Overlap, NearEntry, Keeps, Entry
<1>3. ASSUME NEW t \in Threads, NEW n \in Names, NEW g \in GzModes, Open(t, n, g)
      PROVE  Dated' /\ Overlap' /\ NearEntry'
  BY <1>1, <1>3, FreshOpen
<1>4. ASSUME NEW t \in Threads, Step(t)
      PROVE  Dated' /\ Overlap' /\ NearEntry'
  <2>1. ~ReadFail(t)
    BY DEF ReadFail
  <2> QED BY <1>1, <1>4, <2>1, FreshOutside, FreshInside DEF Step
<1>5. ASSUME NEW n \in Names, Edit(n) PROVE UNCHANGED <<entry, pc, locals, view>>
  BY <1>5 DEF Edit
<1>6. UNCHANGED vars => UNCHANGED <<entry, pc, locals, view>>
  BY DEF vars
<1> QED
  BY <1>2, <1>3, <1>4, <1>5, <1>6 DEF Next

(* If any two versions differ in their time stamps and no read() has failed, *)
(* a response holds a version that was on disk when its request, or one that *)
(* overlaps it, opened the file, for any number of workers, files, versions. *)
THEOREM ViewsAreFresh == Spec => []FreshView
<1>1. CASE DistinctTimes
  <2>1. Init => FreshInv
    BY FreshInit
  <2>2. IInv /\ FreshInv /\ [Next]_vars => FreshInv'
    BY <1>1, FreshNext
  <2>3. FreshInv => FreshView
    BY DEF FreshInv, NearEntry, FreshView
  <2> QED
    BY <2>1, <2>2, <2>3, Invariance, PTL DEF Spec
<1>2. CASE ~DistinctTimes
  <2>1. FreshView
    BY <1>2 DEF FreshView
  <2> QED
    BY <2>1, PTL
<1> QED
  BY <1>1, <1>2
==============================================================================
