-------------------------------- MODULE Users --------------------------------
(***************************************************************************)
(* src/server/users.cc as src/user.cc drives it: the table of users that a  *)
(* process reads from db/users, changes in memory, and writes back record   *)
(* by record.  Memory keeps the file's image and two indexes into it,       *)
(* sorted by name and by cookie, which std::lower_bound searches.           *)
(* A record stands for its bytes and all records are taken to be equally    *)
(* long, so an offset is a record's number.  Names and cookies are numbers  *)
(* ordered as strcmp() and memcmp() order them.                             *)
(***************************************************************************)
EXTENDS Naturals, FiniteSets, SequencesExt

CONSTANTS
  Procs,    \* processes that open the file
  Names,    \* user names
  Cookies,  \* what rndstr() can draw
  Pws,      \* passwords
  MinCap,   \* least capacity of an index: 1u<<5 in the constructor
  Faults,   \* system calls that may fail: subset of {"write", "short", "fsync"}
  Retries,  \* does the caller go on after an exception?  user.cc does not
  Moves,    \* may realloc() of an index move it?
  Torn,     \* an incomplete record
  MaxRecords \* BOUND: no creation starts once the offset is there

ASSUME UsersAssumption ==
  /\ Names \subseteq Nat
  /\ Cookies \subseteq Nat
  /\ MinCap \in Nat \ {0}
  /\ Faults \subseteq {"write", "short", "fsync"}
  /\ Moves \in BOOLEAN /\ Retries \in BOOLEAN
  /\ MaxRecords \in Nat

Record == [name : Names, cookie : Cookies, pw : Pws]

ASSUME TornAssumption == Torn \notin Record

VARIABLES
  file,     \* the file, as every process sees it
  synced,   \* the file as of the last fsync()
  st,       \* st[p]: "off", "ready", or the next step of the call p is in
  user,     \* user[p]: the number of the record that call is about
  m,        \* m[p]: the image of the file, with the record being created
  u_len,    \* u_len[p]: indexed users
  f_len,    \* f_len[p]: records of the image that count
  off,      \* off[p]: the file offset of p's descriptor
  by_name,  \* by_name[p], by_cookie[p]: numbers of records
  by_cookie,
  u_cap,    \* u_cap[p]: capacity of the indexes
  wild,     \* wild[p]: a stale iterator was written through
  acked     \* history: acked[n], the passwords n may have, {} if not created

disk  == <<file, synced>>
index == <<u_len, by_name, by_cookie, u_cap, wild>>
vars  == <<disk, st, user, m, f_len, off, index, acked>>

Init ==
  /\ file = <<>>
  /\ synced = <<>>
  /\ st = [p \in Procs |-> "off"]
  /\ user = [p \in Procs |-> 0]
  /\ m = [p \in Procs |-> <<>>]
  /\ u_len = [p \in Procs |-> 0]
  /\ f_len = [p \in Procs |-> 0]
  /\ off = [p \in Procs |-> 0]
  /\ by_name = [p \in Procs |-> <<>>]
  /\ by_cookie = [p \in Procs |-> <<>>]
  /\ u_cap = [p \in Procs |-> MinCap]
  /\ wild = [p \in Procs |-> FALSE]
  /\ acked = [n \in Names |-> {}]

Step(p, from, to) ==
  /\ ~wild[p]
  /\ st[p] = from
  /\ st' = [st EXCEPT ![p] = to]
------------------------------------------------------------------------------
(* std::sort(): the elements of s in the order of their keys.  Equal keys,  *)
(* which no table of user.cc has, stay in the order they were in.           *)
Before(s, key, i, j) ==
  \/ key[s[i]] < key[s[j]]
  \/ key[s[i]] = key[s[j]] /\ i < j

Place(s, key, i) == 1 + Cardinality({j \in DOMAIN s : Before(s, key, j, i)})

SortBy(s, key) ==
  [k \in DOMAIN s |-> s[CHOOSE i \in DOMAIN s : Place(s, key, i) = k]]

(* std::sort(by_cookie, by_cookie+u_len, cookie_cmp{m}), and by name.       *)
SortByName(s, image)   == SortBy(s, [i \in DOMAIN image |-> image[i].name])
SortByCookie(s, image) == SortBy(s, [i \in DOMAIN image |-> image[i].cookie])

(* The keys along an index, and std::lower_bound and std::upper_bound over  *)
(* them, as positions: the end is one past the last.                        *)
NamesAlong(p)   == [i \in DOMAIN by_name[p] |-> m[p][by_name[p][i]].name]
CookiesAlong(p) == [i \in DOMAIN by_cookie[p] |-> m[p][by_cookie[p][i]].cookie]

LowerBound(keys, k) == 1 + Cardinality({i \in DOMAIN keys : keys[i] < k})
UpperBound(keys, k) == 1 + Cardinality({i \in DOMAIN keys : keys[i] <= k})

(* find_by_name(), find_by_cookie(): a record's number, or 0. *)
FindByName(p, n) ==
  LET i == LowerBound(NamesAlong(p), n)
  IN  IF i \in DOMAIN by_name[p] /\ NamesAlong(p)[i] = n THEN by_name[p][i] ELSE 0

FindByCookie(p, c) ==
  LET i == LowerBound(CookiesAlong(p), c)
  IN  IF i \in DOMAIN by_cookie[p] /\ CookiesAlong(p)[i] = c
      THEN by_cookie[p][i] ELSE 0

(* std::bit_ceil(n), for n > 0: the least power of two that is not below n, *)
(* the only one in n..2n-1.  A power of two has no odd factor but 1.        *)
IsPowerOfTwo(c) == \A a, b \in 1..c : a * b = c => a = 1 \/ a % 2 = 0

BitCeil(n) == CHOOSE c \in n..(2 * n - 1) : IsPowerOfTwo(c)

(* The constructor: read the whole file, index every record, sort.  A file  *)
(* with an incomplete record is refused as corrupted.                       *)
Load(p) ==
  /\ Step(p, "off", "ready")
  /\ \A i \in DOMAIN file : file[i] # Torn
  /\ m' = [m EXCEPT ![p] = file]
  /\ u_len' = [u_len EXCEPT ![p] = Len(file)]
  /\ f_len' = [f_len EXCEPT ![p] = Len(file)]
  /\ off' = [off EXCEPT ![p] = Len(file)]
  /\ LET all == [i \in 1..Len(file) |-> i]
     IN  /\ by_name' = [by_name EXCEPT ![p] = SortByName(all, file)]
         /\ by_cookie' = [by_cookie EXCEPT ![p] = SortByCookie(all, file)]
  /\ u_cap' = [u_cap EXCEPT ![p] =
                 IF MinCap >= Len(file) THEN MinCap ELSE BitCeil(Len(file))]
  /\ UNCHANGED <<disk, user, wild, acked>>

(* The end of process p, or of all processes, takes their memory with it.   *)
Forget(P) ==
  LET reset(f, x) == [p \in Procs |-> IF p \in P THEN x ELSE f[p]]
  IN  /\ st' = reset(st, "off")
      /\ user' = reset(user, 0)
      /\ m' = reset(m, <<>>)
      /\ f_len' = reset(f_len, 0)
      /\ off' = reset(off, 0)
      /\ u_len' = reset(u_len, 0)
      /\ by_name' = reset(by_name, <<>>)
      /\ by_cookie' = reset(by_cookie, <<>>)
      /\ u_cap' = reset(u_cap, MinCap)
      /\ wild' = reset(wild, FALSE)
------------------------------------------------------------------------------
(* new_user(), up to write(): the name is free; the record is put together  *)
(* beyond f_len, with a cookie that the index does not hold, and by_cookie  *)
(* is sorted again.                                                         *)
Create(p, n, pw, c) ==
  /\ off[p] < MaxRecords
  /\ Step(p, "ready", "write")
  /\ FindByName(p, n) = 0
  /\ FindByCookie(p, c) = 0
  /\ m' = [m EXCEPT ![p] =
             Append(SubSeq(@, 1, f_len[p]), [name |-> n, cookie |-> c, pw |-> pw])]
  /\ user' = [user EXCEPT ![p] = f_len[p] + 1]
  /\ by_cookie' = [by_cookie EXCEPT ![p] = SortByCookie(@, m'[p])]
  /\ UNCHANGED <<disk, u_len, f_len, off, by_name, u_cap, wild, acked>>

(* write(): at the descriptor's offset, which it moves. *)
WriteRecord(p, record) ==
  /\ file' = IF off[p] = Len(file) THEN Append(file, record)
             ELSE [file EXCEPT ![off[p] + 1] = record]
  /\ off' = [off EXCEPT ![p] = @ + 1]

Write(p) ==
  /\ Step(p, "write", "sync")
  /\ \/ WriteRecord(p, m[p][user[p]])
     \/ "short" \in Faults /\ WriteRecord(p, Torn) \* less than asked is no error
  /\ UNCHANGED <<synced, user, m, f_len, index, acked>>

(* A slip to compare with: the failed user is taken off again, though it    *)
(* was never counted.                                                       *)
CreateFailsUndo(p) ==
  /\ \/ "write" \in Faults /\ Step(p, "write", "ready")
     \/ "fsync" \in Faults /\ Step(p, "sync", "ready")
  /\ user' = [user EXCEPT ![p] = 0]
  /\ f_len' = [f_len EXCEPT ![p] = @ - 1]
  /\ UNCHANGED <<disk, m, off, index, acked>>

(* The exceptions of new_user(): nothing is undone, in the file or here.    *)
FailedStep(p) ==
  \/ "write" \in Faults /\ st[p] = "write"
  \/ "fsync" \in Faults /\ st[p] = "sync"

CreateFails(p) ==
  /\ FailedStep(p)
  /\ IF Retries
     THEN /\ st' = [st EXCEPT ![p] = "ready"]
          /\ user' = [user EXCEPT ![p] = 0]
          /\ UNCHANGED <<m, f_len, off, index>>
     ELSE Forget({p})
  /\ UNCHANGED <<disk, acked>>

(* A slip to compare with: the user is indexed before the file is synced    *)
(* and reported as created without it.                                      *)
SyncNot(p) ==
  /\ Step(p, "sync", "index")
  /\ UNCHANGED <<disk, user, m, f_len, off, index, acked>>

Sync(p) ==
  /\ Step(p, "sync", "index")
  /\ synced' = file
  /\ UNCHANGED <<file, user, m, f_len, off, index, acked>>

(* A slip to compare with: the new user goes to the end of both indexes.    *)
IndexLast(p) ==
  /\ Step(p, "index", "commit")
  /\ by_name' = [by_name EXCEPT ![p] = Append(@, user[p])]
  /\ by_cookie' = [by_cookie EXCEPT ![p] = Append(@, user[p])]
  /\ u_len' = [u_len EXCEPT ![p] = @ + 1]
  /\ UNCHANGED <<disk, user, m, f_len, off, u_cap, wild, acked>>

(* upper_bound() finds the places, append_user() puts the user last and     *)
(* doubles the indexes when they are full, rotate_right() moves it to its   *)
(* place, through iterators that a moved index leaves dangling.             *)
Index(p) ==
  /\ Step(p, "index", "commit")
  /\ LET u == user[p]
         i == UpperBound(NamesAlong(p), m[p][u].name)
         j == UpperBound(CookiesAlong(p), m[p][u].cookie)
     IN  /\ by_name' = [by_name EXCEPT ![p] = InsertAt(@, i, u)]
         /\ by_cookie' = [by_cookie EXCEPT ![p] = InsertAt(@, j, u)]
  /\ u_len' = [u_len EXCEPT ![p] = @ + 1]
  /\ u_cap' = [u_cap EXCEPT ![p] = IF u_len[p] = @ THEN 2 * @ ELSE @]
  /\ wild' = [wild EXCEPT ![p] = Moves /\ u_len[p] = u_cap[p]]
  /\ UNCHANGED <<disk, user, m, f_len, off, acked>>

(* f_len += user_len, and the name is returned to the caller. *)
Commit(p) ==
  /\ Step(p, "commit", "ready")
  /\ f_len' = [f_len EXCEPT ![p] = @ + 1]
  /\ acked' = [acked EXCEPT ![m[p][user[p]].name] = {m[p][user[p]].pw}]
  /\ user' = [user EXCEPT ![p] = 0]
  /\ UNCHANGED <<disk, m, off, index>>
------------------------------------------------------------------------------
(* reset_pw() and reset_cookie() of a user that exists, in memory; the      *)
(* cookie is drawn anew in both, and by_cookie is sorted again.             *)
Reset(p, n, pw, c) ==
  /\ Step(p, "ready", "pwrite")
  /\ FindByName(p, n) # 0
  /\ FindByCookie(p, c) = 0
  /\ user' = [user EXCEPT ![p] = FindByName(p, n)]
  /\ m' = [m EXCEPT ![p][FindByName(p, n)] = [@ EXCEPT !.pw = pw, !.cookie = c]]
  /\ by_cookie' = [by_cookie EXCEPT ![p] = SortByCookie(@, m'[p])]
  /\ acked' = [acked EXCEPT ![n] = IF @ = {} THEN {} ELSE @ \cup {pw}]
  /\ UNCHANGED <<disk, u_len, f_len, off, by_name, u_cap, wild>>

ResetPw(p, n, pw, c) == Reset(p, n, pw, c)
ResetCookie(p, n, c) ==
  FindByName(p, n) # 0 /\ Reset(p, n, m[p][FindByName(p, n)].pw, c)

(* A slip to compare with: write() instead of pwrite(). *)
PwriteAtOffset(p) ==
  /\ Step(p, "pwrite", "psync")
  /\ WriteRecord(p, m[p][user[p]])
  /\ UNCHANGED <<synced, user, m, f_len, index, acked>>

(* pwrite() of the record's hash and cookie at the record's own offset: the *)
(* name there stays, and the descriptor's offset too.                       *)
Pwrite(p) ==
  /\ Step(p, "pwrite", "psync")
  /\ user[p] \in DOMAIN file
  /\ file' = [file EXCEPT ![user[p]] =
                IF @ = Torn THEN Torn
                ELSE [@ EXCEPT !.pw = m[p][user[p]].pw, !.cookie = m[p][user[p]].cookie]]
  /\ UNCHANGED <<synced, user, m, f_len, off, index, acked>>

Psync(p) ==
  /\ Step(p, "psync", "ready")
  /\ synced' = file
  /\ LET r == m[p][user[p]] IN acked' = [acked EXCEPT ![r.name] = {r.pw}]
  /\ user' = [user EXCEPT ![p] = 0]
  /\ UNCHANGED <<file, m, f_len, off, index>>
------------------------------------------------------------------------------
(* main() returns, or the process is killed: what it wrote stays.           *)
Exit(p) ==
  /\ st[p] # "off"
  /\ Forget({p})
  /\ UNCHANGED <<disk, acked>>

(* The machine stops: of a record appended since the last fsync() nothing,  *)
(* a part or all is found afterwards, of other changes nothing or all.      *)
Crash ==
  /\ file # synced
  /\ \/ file' \in {synced, file}
     \/ Len(file) = Len(synced) + 1 /\ file' = Append(synced, Torn)
  /\ synced' = file'
  /\ Forget(Procs)
  /\ UNCHANGED acked

(* user.cc runs one process at a time here. *)
Alone(p) == \A q \in Procs \ {p} : st[q] = "off"

Next ==
  \/ \E p \in Procs :
       \/ Alone(p) /\ Load(p)
       \/ Exit(p) \/ Write(p) \/ CreateFails(p) \/ Sync(p) \/ Index(p) \/ Commit(p)
       \/ Pwrite(p) \/ Psync(p)
       \/ \E n \in Names, c \in Cookies :
            \/ \E pw \in Pws : Create(p, n, pw, c) \/ ResetPw(p, n, pw, c)
            \/ ResetCookie(p, n, c)
  \/ Crash

Spec == Init /\ [][Next]_vars
------------------------------------------------------------------------------
Creating  == {"write", "sync", "index", "commit"}
Resetting == {"pwrite", "psync"}

Types ==
  /\ file \in Seq(Record \cup {Torn})
  /\ synced \in Seq(Record \cup {Torn})
  /\ st \in [Procs -> {"off", "ready", "write", "sync", "index", "commit",
                       "pwrite", "psync"}]
  /\ user \in [Procs -> Nat]
  /\ m \in [Procs -> Seq(Record)]
  /\ u_len \in [Procs -> Nat] /\ f_len \in [Procs -> Nat] /\ off \in [Procs -> Nat]
  /\ by_name \in [Procs -> Seq(Nat)] /\ by_cookie \in [Procs -> Seq(Nat)]
  /\ u_cap \in [Procs -> Nat]
  /\ wild \in [Procs -> BOOLEAN]
  /\ acked \in [Names -> SUBSET Pws]

(* Indexed users: the one that new_user() adds counts before f_len does.    *)
Counted(p) == f_len[p] + (IF st[p] = "commit" THEN 1 ELSE 0)

(* The image holds what f_len counts, the record of a call under way, and   *)
(* every record an index names.                                             *)
Bounds(p) ==
  /\ f_len[p] <= Len(m[p])
  /\ st[p] \in Creating => user[p] = f_len[p] + 1 /\ Len(m[p]) = f_len[p] + 1
  /\ st[p] \in Resetting => user[p] \in 1..f_len[p]
  /\ Range(by_name[p]) \subseteq 1..Counted(p)
  /\ Range(by_cookie[p]) \subseteq 1..Counted(p)

TypeOK == Types /\ \A p \in Procs : Bounds(p)

(* Between two calls both indexes list every record of the image once, in   *)
(* strictly increasing order of their key: every user and every cookie is   *)
(* found by binary search and no two users share a name or a cookie, after  *)
(* any sequence of creations, resets, failures and restarts.                *)
Increasing(keys) == \A i, j \in DOMAIN keys : i < j => keys[i] < keys[j]

IndexedAt(p) ==
  /\ ~wild[p]
  /\ u_len[p] = f_len[p]
  /\ Len(by_name[p]) = u_len[p] /\ Len(by_cookie[p]) = u_len[p]
  /\ Range(by_name[p]) = 1..f_len[p]
  /\ Range(by_cookie[p]) = 1..f_len[p]
  /\ Increasing(NamesAlong(p))
  /\ Increasing(CookiesAlong(p))

IndexesExact == \A p \in Procs : st[p] = "ready" => IndexedAt(p)

(* Between two calls of the one process that has the file open, the file    *)
(* holds each user's record where memory has it, and nothing else, and the  *)
(* next write() will append: pwrite() of a reset cannot hit another user's  *)
(* record.                                                                  *)
InPlace(p) ==
  \A i \in 1..f_len[p] : i \in DOMAIN file /\ file[i] = m[p][i]

FileAgrees ==
  \A p \in Procs :
    st[p] = "ready" => InPlace(p) /\ Len(file) = f_len[p] /\ off[p] = f_len[p]

(* A user whose creation was reported is in the file from then on, with the *)
(* password last reported, or the one of a reset that was interrupted,      *)
(* whatever process or machine crashes follow.                              *)
AckedSurvive ==
  \A n \in Names :
    acked[n] # {} =>
      \E i \in DOMAIN file :
        file[i] # Torn /\ file[i].name = n /\ file[i].pw \in acked[n]

(* users.cc:257 `this must be the last step so that in case of failure      *)
(* previous steps can be ignored': after a creation that failed, the users  *)
(* of the table are still where the file has them.                          *)
FailureIgnored == \A p \in Procs : st[p] = "ready" => InPlace(p)

(* users.cc:248 `index the new user': when new_user() is about to commit,   *)
(* both indexes hold it in its place.                                       *)
NewUserIndexed ==
  \A p \in Procs :
    st[p] = "commit" => ~wild[p] /\ FindByName(p, m[p][user[p]].name) = user[p]
==============================================================================
