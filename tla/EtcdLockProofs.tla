--------------------------- MODULE EtcdLockProofs ---------------------------
(***************************************************************************)
(* Proofs about EtcdLock, for every number of locks, appends and faults.   *)
(***************************************************************************)
EXTENDS EtcdLock, TLAPS

\* TypeOK needs to know that what is renewed has a key.
TypeInv == TypeOK /\ \A c \in Locks : pc[c] = "renew" => ttl /\ seq[c] # 0

\* The side condition of Exclusion.
Undisturbed == ttl => ~revived /\ faults = 0

IsFirst(c) == \A k \in Keys : seq[c] <= k

\* A lock that believes to be taken has the first entry.  With a ttl its entry
\* may be gone; it then learns so before it believes anything of the next one,
\* which it appends with is_taken out of date.
OwnEntry(c) == seq[c] \in Keys => queue[seq[c]] = c

TakenHasEntry(c) ==
    taken[c] =>
        /\ seq[c] # 0
        /\ ~ttl => seq[c] \in Keys
        /\ pc[c] = "append" => seq[c] \notin Keys

TakenIsFirst(c) ==
    taken[c] /\ seq[c] \in Keys /\ (ttl => pc[c] # "locker") => IsFirst(c)

MutexInv ==
    Undisturbed =>
        \A c \in Locks : OwnEntry(c) /\ TakenHasEntry(c) /\ TakenIsFirst(c)

\* The entry a lock knows of is the only one of its uuid, and it appends only
\* if there is none.
EntriesKnown(c) == seq[c] # 0 => \A k \in Keys : queue[k] = c => k = seq[c]

AppendsFirst(c) == pc[c] = "append" => \A k \in Keys : queue[k] # c

OneEntry(c) == \A j, k \in Keys : queue[j] = c /\ queue[k] = c => j = k

EntryInv ==
    ~orphaned => \A c \in Locks : OneEntry(c) /\ EntriesKnown(c) /\ AppendsFirst(c)

-----------------------------------------------------------------------------
(* Types. *)

LEMMA InitTypeInv == Init => TypeInv
  <1> SUFFICES ASSUME Init PROVE TypeInv
    OBVIOUS
  <1>1. Keys = {}
    BY DEF Init, Keys
  <1>2. queue \in [Keys -> Locks]
    <2>1. queue = [k \in {} |-> 0]
      BY DEF Init
    <2>. QED
      BY <1>1, <2>1
  <1>3. taken \in [Locks -> BOOLEAN] /\ blocking \in [Locks -> BOOLEAN]
    BY DEF Init
  <1>4. lastKey \in 0..MaxKey /\ faults \in 0..MaxFaults
    BY LockAssumption DEF Init
  <1>5. ttl \in BOOLEAN /\ callers \in {"poll", "any"} /\ revived \in BOOLEAN /\ orphaned \in BOOLEAN
    BY LockAssumption DEF Init
  <1>6. seq \in [Locks -> 0..lastKey] /\ watchKey \in [Locks -> 0..lastKey]
    BY DEF Init
  <1>7. pc \in [Locks -> {"idle", "find", "append", "renew", "locker", "watch", "waiting", "findkey", "delete"}] /\ \A c \in Locks : pc[c] = "idle"
    BY DEF Init
  <1>8. Keys \subseteq 1..lastKey
    BY <1>1
  <1>. QED
    BY <1>2, <1>3, <1>4, <1>5, <1>6, <1>7, <1>8 DEF TypeInv, TypeOK

\* An event on a key moves waiting locks on, and no other.
LEMMA WakeOK ==
    ASSUME TypeInv, NEW c \in Locks, NEW k,
           NEW l \in {"idle", "locker"}, GotoAndWake(c, l, k)
    PROVE  /\ pc' \in [Locks -> {"idle", "find", "append", "renew", "locker", "watch",
                                 "waiting", "findkey", "delete"}]
           /\ \A d \in Locks : pc'[d] \in {"renew", "append"} => pc'[d] = pc[d]
  BY DEF TypeInv, TypeOK, GotoAndWake

LEMMA PutOK ==
    ASSUME TypeInv, NEW c \in Locks, NEW k \in 1..lastKey', lastKey' >= lastKey,
           lastKey' \in Nat, Put(k, c)
    PROVE  Keys' \subseteq 1..lastKey' /\ queue' \in [Keys' -> Locks]
  BY DEF TypeInv, TypeOK, Put, Keys

LEMMA RemoveOK ==
    ASSUME TypeInv, NEW k, Remove(k)
    PROVE  Keys' = Keys \ {k} /\ queue' \in [Keys' -> Locks]
  BY DEF TypeInv, TypeOK, Remove, Restrict, Keys

LEMMA FoundOK ==
    ASSUME TypeInv, NEW c \in Locks
    PROVE  Found(c) \subseteq Keys /\ Found(c) \subseteq 1..lastKey
  BY DEF Found, TypeInv, TypeOK

LEMMA StepTypeInv == TypeInv /\ [Next]_vars => TypeInv'
  <1> SUFFICES ASSUME TypeInv, [Next]_vars PROVE TypeInv'
    OBVIOUS
  <1> USE LockAssumption
  <1>1. ASSUME NEW c \in Locks, NEW b \in BOOLEAN, Acquire(c, b) PROVE TypeInv'
    BY <1>1 DEF Acquire, Goto, setting, TypeInv, TypeOK, Keys
  <1>2. ASSUME NEW c \in Locks, Release(c) \/ IsAcquired(c) \/ WatchAgain(c) \/ Watch(c)
        PROVE  TypeInv'
    BY <1>2 DEF Release, IsAcquired, WatchAgain, Watch, Goto, Take, setting,
                TypeInv, TypeOK, Keys
  <1>3. ASSUME NEW c \in Locks, FindLock(c) \/ FindKey(c) PROVE TypeInv'
    <2>1. /\ UNCHANGED <<queue, lastKey, setting, blocking, watchKey, faults, revived, orphaned>>
          /\ pc[c] \in {"find", "findkey"}
      BY <1>3 DEF FindLock, FindKey
    <2>2. seq' = seq \/ \E k \in Found(c) : seq' = [seq EXCEPT ![c] = k]
      BY <1>3 DEF FindLock, FindKey
    <2>3. seq' \in [Locks -> 0..lastKey]
          /\ \A d \in Locks : seq'[d] = seq[d] \/ seq'[d] # 0
      BY <2>2, FoundOK DEF TypeInv, TypeOK
    <2>4. \/ pc' = [pc EXCEPT ![c] = "renew"] /\ ttl /\ seq'[c] # 0
          \/ \E l \in {"idle", "append", "locker", "delete"} : pc' = [pc EXCEPT ![c] = l]
      <3>1. \A k \in Found(c) : k # 0 /\ (seq' = [seq EXCEPT ![c] = k] => seq'[c] = k)
        BY FoundOK DEF TypeInv, TypeOK
      <3>2. CASE ttl
        BY <1>3, <3>1, <3>2 DEF FindLock, FindKey, Goto
      <3>3. CASE ~ttl
        BY <1>3, <3>3 DEF FindLock, FindKey, Goto
      <3>. QED
        BY <3>2, <3>3
    <2>5. taken' \in [Locks -> BOOLEAN]
      BY <1>3 DEF FindLock, FindKey, Take, TypeInv, TypeOK
    <2>. QED
      BY <2>1, <2>3, <2>4, <2>5 DEF setting, TypeInv, TypeOK, Keys
  <1>4. ASSUME NEW c \in Locks, Append(c) \/ AppendAnswerLost(c) \/ AppendResent(c)
        PROVE  TypeInv'
    <2>1. lastKey' = lastKey + 1 /\ lastKey' \in 0..MaxKey /\ lastKey' \in 1..lastKey'
      BY <1>4 DEF Append, AppendAnswerLost, AppendResent, Appended, TypeInv, TypeOK
    <2>2. Put(lastKey', c)
      BY <1>4 DEF Append, AppendAnswerLost, AppendResent, Appended
    <2>3. Keys' \subseteq 1..lastKey' /\ queue' \in [Keys' -> Locks]
      BY <2>1, <2>2, PutOK DEF TypeInv, TypeOK
    <2>4. /\ UNCHANGED <<setting, taken, blocking, watchKey, revived>>
          /\ pc[c] = "append"
      BY <1>4 DEF Append, AppendAnswerLost, AppendResent, Appended
    <2>5. watchKey' \in [Locks -> 0..lastKey'] /\ seq' \in [Locks -> 0..lastKey']
          /\ \A d \in Locks : d # c => seq'[d] = seq[d]
      BY <1>4, <2>1, <2>4
         DEF Append, AppendAnswerLost, AppendResent, TypeInv, TypeOK
    <2>6. pc' = pc \/ \E l \in {"idle", "locker"} : pc' = [pc EXCEPT ![c] = l]
      BY <1>4 DEF Append, AppendAnswerLost, AppendResent, Goto
    <2>7. faults' \in 0..MaxFaults
      BY <1>4 DEF Append, AppendAnswerLost, AppendResent, Fault, TypeInv, TypeOK
    <2>8. orphaned' \in BOOLEAN
      BY <1>4 DEF Append, AppendAnswerLost, AppendResent, TypeInv, TypeOK
    <2>. QED
      BY <2>1, <2>3, <2>4, <2>5, <2>6, <2>7, <2>8 DEF setting, TypeInv, TypeOK
  <1>5. ASSUME NEW c \in Locks, Renew(c) \/ RenewAnswerLost(c) PROVE TypeInv'
    <2>1. PICK l \in {"idle", "locker"} : Renewed(c, l)
      BY <1>5 DEF Renew, RenewAnswerLost
    <2>2. seq[c] \in 1..lastKey' /\ lastKey' = lastKey /\ lastKey' \in Nat
      BY <2>1 DEF Renewed, TypeInv, TypeOK
    <2>3. Keys' \subseteq 1..lastKey' /\ queue' \in [Keys' -> Locks]
      BY <2>1, <2>2, PutOK DEF Renewed, TypeInv, TypeOK
    <2>4. UNCHANGED <<lastKey, setting, seq, taken, blocking, watchKey, orphaned>>
      BY <2>1 DEF Renewed
    <2>5. faults' \in 0..MaxFaults
      BY <1>5 DEF Renew, RenewAnswerLost, Fault, TypeInv, TypeOK
    <2>6. revived' \in BOOLEAN
      BY <2>1 DEF Renewed, TypeInv, TypeOK
    <2>7. GotoAndWake(c, l, seq[c])
      BY <2>1 DEF Renewed
    <2>. QED
      BY <2>3, <2>4, <2>5, <2>6, <2>7, WakeOK DEF setting, TypeInv, TypeOK
  <1>6. ASSUME NEW c \in Locks, GetLocker(c) PROVE TypeInv'
    <2>1. UNCHANGED <<queue, lastKey, setting, seq, blocking, faults, revived, orphaned>>
      BY <1>6 DEF GetLocker
    <2>2. \E l \in {"idle", "watch"} : pc' = [pc EXCEPT ![c] = l]
      BY <1>6 DEF GetLocker, LockerRaises, Goto
    <2>3. taken' \in [Locks -> BOOLEAN]
      <3>1. taken' = taken \/ \E b \in BOOLEAN : taken' = [taken EXCEPT ![c] = b]
        BY <1>6 DEF GetLocker, LockerRaises, Take, IsLocker
      <3>. QED
        BY <3>1 DEF TypeInv, TypeOK
    <2>4. watchKey' \in [Locks -> 0..lastKey]
      <3>1. watchKey' = watchKey \/ \E k \in Keys : watchKey' = [watchKey EXCEPT ![c] = k]
        BY <1>6 DEF GetLocker, LockerRaises, Before
      <3>. QED
        BY <3>1 DEF TypeInv, TypeOK
    <2>. QED
      BY <2>1, <2>2, <2>3, <2>4 DEF setting, TypeInv, TypeOK, Keys
  <1>7. ASSUME NEW c \in Locks, Delete(c) PROVE TypeInv'
    <2>1. Keys' \subseteq 1..lastKey' /\ queue' \in [Keys' -> Locks]
      BY <1>7, RemoveOK DEF Delete, TypeInv, TypeOK
    <2>2. /\ pc' \in [Locks -> {"idle", "find", "append", "renew", "locker", "watch",
                                "waiting", "findkey", "delete"}]
          /\ \A d \in Locks : pc'[d] = "renew" => pc[d] = "renew"
      BY <1>7, WakeOK DEF Delete, Goto, TypeInv, TypeOK
    <2>. QED
      BY <1>7, <2>1, <2>2 DEF Delete, Take, setting, TypeInv, TypeOK
  <1>8. ASSUME NEW c \in Locks, RequestFails(c) PROVE TypeInv'
    <2>1. UNCHANGED <<queue, lastKey, setting, seq, blocking, watchKey, revived, orphaned>>
      BY <1>8 DEF RequestFails, LockerRaises
    <2>2. \E l \in {"idle", "watch"} : pc' = [pc EXCEPT ![c] = l]
      BY <1>8 DEF RequestFails, LockerRaises, Goto
    <2>3. taken' = taken \/ taken' = [taken EXCEPT ![c] = FALSE]
      BY <1>8 DEF RequestFails, LockerRaises, Take
    <2>4. faults' \in 0..MaxFaults
      BY <1>8 DEF RequestFails, Fault, TypeInv, TypeOK
    <2>. QED
      BY <2>1, <2>2, <2>3, <2>4 DEF setting, TypeInv, TypeOK, Keys
  <1>9. ASSUME NEW k \in Keys, Expire(k) PROVE TypeInv'
    <2>1. Keys' \subseteq 1..lastKey' /\ queue' \in [Keys' -> Locks]
      BY <1>9, RemoveOK DEF Expire, TypeInv, TypeOK
    <2>. QED
      BY <1>9, <2>1 DEF Expire, setting, TypeInv, TypeOK
  <1>10. CASE UNCHANGED vars
    BY <1>10 DEF vars, setting, TypeInv, TypeOK, Keys
  <1>. QED
    BY <1>1, <1>2, <1>3, <1>4, <1>5, <1>6, <1>7, <1>8, <1>9, <1>10 DEF Next, GoOn

\* The lock stays within its types: keys, sequences and the control of every
\* call of acquire and release (lock.py:59-177).
THEOREM LockTypeCorrect == Spec => []TypeOK
  <1>1. TypeInv => TypeOK
    BY DEF TypeInv
  <1>. QED
    BY <1>1, InitTypeInv, StepTypeInv, PTL DEF Spec

-----------------------------------------------------------------------------
(* Mutual exclusion. *)

LockInv(c) == OwnEntry(c) /\ TakenHasEntry(c) /\ TakenIsFirst(c)

\* A step that leaves the queue alone, lets no lock believe more than before,
\* and lets none append or stop asking that is out of date.
LEMMA QuietStep ==
    ASSUME TypeInv, NEW d \in Locks, LockInv(d),
           UNCHANGED <<queue, ttl>>, seq'[d] = seq[d],
           taken'[d] => taken[d],
           pc'[d] = "append" /\ taken'[d] => seq[d] \notin Keys,
           ttl /\ pc[d] = "locker" /\ taken'[d] => pc'[d] = "locker" \/ seq[d] \notin Keys
    PROVE  LockInv(d)'
  BY DEF LockInv, OwnEntry, TakenHasEntry, TakenIsFirst, IsFirst, Keys

LEMMA StaysUndisturbed ==
    ASSUME TypeInv, [Next]_vars, Undisturbed' PROVE Undisturbed
  <1>1. ttl' = ttl /\ (faults' = faults \/ Fault)
    BY DEF Next, GoOn, vars, setting, Acquire, Release, IsAcquired, FindLock, Append, Renew,
           GetLocker, Watch, FindKey, Delete, WatchAgain, AppendAnswerLost, AppendResent,
           RenewAnswerLost, RequestFails, Expire, Appended, Renewed
  <1>2. revived' = revived
        \/ \E c \in Locks : revived' = (revived \/ seq[c] \notin Keys)
    BY DEF Next, GoOn, vars, setting, Acquire, Release, IsAcquired, FindLock, Append, Renew,
           GetLocker, Watch, FindKey, Delete, WatchAgain, AppendAnswerLost, AppendResent,
           RenewAnswerLost, RequestFails, Expire, Appended, Renewed
  <1>3. ~revived' => ~revived
    BY <1>2
  <1>. QED
    BY <1>1, <1>3 DEF Undisturbed, Fault, TypeInv, TypeOK

LEMMA StepLockInv ==
    ASSUME TypeInv, [Next]_vars, Undisturbed', \A c \in Locks : LockInv(c),
           NEW d \in Locks
    PROVE  LockInv(d)'
  <1>1. ASSUME NEW c \in Locks, NEW b \in BOOLEAN, Acquire(c, b) PROVE LockInv(d)'
    <2>1. pc'[d] = pc[d] \/ (pc[d] = "idle" /\ pc'[d] = "find")
      BY <1>1 DEF Acquire, Goto, TypeInv, TypeOK
    <2>. QED
      BY <1>1, <2>1, QuietStep DEF Acquire, setting, LockInv, TakenHasEntry
  <1>2. ASSUME NEW c \in Locks, Release(c) \/ WatchAgain(c) \/ Watch(c) PROVE LockInv(d)'
    <2>1. pc'[d] = pc[d] \/ (pc[d] \notin {"locker"} /\ pc'[d] # "append")
      BY <1>2 DEF Release, WatchAgain, Watch, Goto, TypeInv, TypeOK
    <2>. QED
      BY <1>2, <2>1, QuietStep DEF Release, WatchAgain, Watch, setting, LockInv, TakenHasEntry
  <1>3. ASSUME NEW c \in Locks, IsAcquired(c) PROVE LockInv(d)'
    <2>1. taken'[d] => taken[d]
      BY <1>3 DEF IsAcquired, Take, TypeInv, TypeOK
    <2>. QED
      BY <1>3, <2>1, QuietStep DEF IsAcquired, setting, LockInv, TakenHasEntry
  <1>4. ASSUME NEW c \in Locks, FindLock(c) \/ FindKey(c) PROVE LockInv(d)'
    <2>1. UNCHANGED <<queue, ttl>> /\ (d # c => seq'[d] = seq[d] /\ pc'[d] = pc[d])
          /\ (taken'[d] => taken[d])
      BY <1>4 DEF FindLock, FindKey, Goto, Take, setting, TypeInv, TypeOK
    <2>2. CASE d # c
      BY <2>1, <2>2, QuietStep DEF LockInv, TakenHasEntry
    <2>3. CASE d = c /\ Found(c) = {}
      <3>1. seq' = seq /\ pc[c] # "locker"
        BY <1>4, <2>3 DEF FindLock, FindKey
      <3>2. taken[c] => seq[c] \notin Keys
        BY <2>3 DEF LockInv, TakenHasEntry, Found
      <3>. QED
        BY <2>1, <2>3, <3>1, <3>2, QuietStep
    <2>4. CASE d = c /\ Found(c) # {}
      <3>1. PICK k \in Found(c) : seq' = [seq EXCEPT ![c] = k]
        BY <1>4, <2>4 DEF FindLock, FindKey
      <3>2. pc[c] # "locker" /\ pc'[c] # "append"
        BY <1>4, <2>4 DEF FindLock, FindKey, Goto, TypeInv, TypeOK
      <3>3. CASE seq[c] # 0
        <4>1. seq'[d] = seq[d]
          BY <2>4, <3>1, <3>3 DEF Found, TypeInv, TypeOK
        <4>. QED
          BY <2>1, <2>4, <3>2, <4>1, QuietStep
      <3>4. CASE seq[c] = 0
        <4>1. ~taken'[c] /\ seq'[c] = k /\ queue[k] = c
          BY <2>1, <2>4, <3>1, <3>4 DEF Found, LockInv, TakenHasEntry, TypeInv, TypeOK
        <4>. QED
          BY <2>1, <2>4, <4>1 DEF LockInv, OwnEntry, TakenHasEntry, TakenIsFirst, Keys
      <3>. QED
        BY <3>3, <3>4
    <2>. QED
      BY <2>2, <2>3, <2>4
  <1>5. ASSUME NEW c \in Locks, Append(c) \/ AppendAnswerLost(c) \/ AppendResent(c)
        PROVE  LockInv(d)'
    <2>1. /\ lastKey' = lastKey + 1 /\ Put(lastKey', c) /\ pc[c] = "append"
          /\ UNCHANGED <<taken, ttl>>
      BY <1>5 DEF Append, AppendAnswerLost, AppendResent, Appended, setting
    <2>2. /\ Keys' = Keys \cup {lastKey + 1} /\ lastKey + 1 \notin Keys
          /\ queue'[lastKey + 1] = c /\ \A k \in Keys : queue'[k] = queue[k]
      BY <2>1 DEF Put, Keys, TypeInv, TypeOK
    <2>3. \A e \in Locks : seq[e] <= lastKey /\ seq[e] \in Nat
      BY DEF TypeInv, TypeOK
    <2>4. CASE d # c
      <3>1. pc'[d] = pc[d] /\ seq'[d] = seq[d]
        BY <1>5, <2>4 DEF Append, AppendAnswerLost, AppendResent, Goto, TypeInv, TypeOK
      <3>. QED
        BY <2>1, <2>2, <2>3, <3>1
           DEF LockInv, OwnEntry, TakenHasEntry, TakenIsFirst, IsFirst, TypeInv, TypeOK
    <2>5. CASE d = c /\ Append(c)
      <3>1. seq'[c] = lastKey + 1 /\ pc'[c] = "locker"
        BY <2>5, <2>1 DEF Append, Goto, TypeInv, TypeOK
      <3>2. taken[c] => ttl
        BY <2>1 DEF LockInv, TakenHasEntry
      <3>. QED
        BY <2>1, <2>2, <2>3, <2>5, <3>1, <3>2
           DEF LockInv, OwnEntry, TakenHasEntry, TakenIsFirst, TypeInv, TypeOK
    <2>6. CASE d = c /\ ~Append(c)
      <3>1. seq'[c] = seq[c] /\ Fault
        BY <1>5, <2>6 DEF AppendAnswerLost, AppendResent
      <3>2. ~ttl
        BY <2>1, <3>1 DEF Undisturbed, Fault, TypeInv, TypeOK
      <3>3. ~taken[c]
        BY <2>1, <3>2 DEF LockInv, TakenHasEntry
      <3>. QED
        BY <2>1, <2>2, <2>3, <2>6, <3>1, <3>3
           DEF LockInv, OwnEntry, TakenHasEntry, TakenIsFirst
    <2>. QED
      BY <2>4, <2>5, <2>6
  <1>6. ASSUME NEW c \in Locks, Renew(c) \/ RenewAnswerLost(c) PROVE LockInv(d)'
    <2>1. PICK l \in {"idle", "locker"} : Renewed(c, l)
      BY <1>6 DEF Renew, RenewAnswerLost
    <2>2. ttl /\ ttl' = ttl /\ UNCHANGED <<seq, taken>>
      BY <2>1 DEF Renewed, setting, TypeInv
    <2>3. l = "locker" /\ seq[c] \in Keys
      <3>1. ~revived' /\ faults' = 0
        BY <2>2 DEF Undisturbed
      <3>2. ~Fault
        BY <3>1 DEF Fault, TypeInv, TypeOK
      <3>3. Renewed(c, "locker")
        BY <1>6, <3>2 DEF Renew, RenewAnswerLost
      <3>4. l = "locker"
        BY <2>1, <3>3 DEF Renewed, GotoAndWake, TypeInv, TypeOK
      <3>. QED
        BY <2>1, <3>1, <3>4 DEF Renewed
    <2>4. queue' = queue
      <3>1. queue[seq[c]] = c
        BY <2>3 DEF LockInv, OwnEntry
      <3>2. Keys' = Keys /\ \A k \in Keys : queue'[k] = queue[k]
        BY <2>1, <2>3, <3>1 DEF Renewed, Put, Keys
      <3>3. queue' = [k \in Keys |-> queue'[k]] /\ queue = [k \in Keys |-> queue[k]]
        BY <2>1, <2>3 DEF Renewed, Put, Keys, TypeInv, TypeOK
      <3>. QED
        BY <3>2, <3>3
    <2>5. pc'[d] = pc[d] \/ pc'[d] = "locker"
      BY <2>1, <2>3 DEF Renewed, GotoAndWake, TypeInv, TypeOK
    <2>. QED
      BY <2>2, <2>4, <2>5, QuietStep DEF LockInv, TakenHasEntry
  <1>7. ASSUME NEW c \in Locks, GetLocker(c) PROVE LockInv(d)'
    <2>1. UNCHANGED <<queue, ttl, seq>> /\ pc'[c] \in {"idle", "watch"}
      BY <1>7 DEF GetLocker, LockerRaises, Goto, setting, TypeInv, TypeOK
    <2>2. CASE d # c
      <3>1. pc'[d] = pc[d] /\ taken'[d] = taken[d]
        BY <1>7, <2>2 DEF GetLocker, LockerRaises, Goto, Take, TypeInv, TypeOK
      <3>. QED
        BY <2>1, <3>1, QuietStep DEF LockInv, TakenHasEntry
    <2>3. CASE d = c /\ seq[c] \notin Keys
      <3>1. taken' = taken
        BY <1>7, <2>3 DEF GetLocker, LockerRaises
      <3>. QED
        BY <2>1, <2>3, <3>1, QuietStep
    <2>4. CASE d = c /\ seq[c] \in Keys
      <3>1. taken'[c] = IsLocker(c)
        BY <1>7, <2>4 DEF GetLocker, Take, TypeInv, TypeOK
      <3>2. IsLocker(c) => IsFirst(c) /\ IsFirst(c)'
        BY <2>1 DEF IsLocker, Before, IsFirst, Keys, TypeInv, TypeOK
      <3>3. seq[c] # 0
        BY <2>4 DEF TypeInv, TypeOK
      <3>. QED
        BY <2>1, <2>4, <3>1, <3>2, <3>3
           DEF LockInv, OwnEntry, TakenHasEntry, TakenIsFirst, Keys
    <2>. QED
      BY <2>2, <2>3, <2>4
  <1>8. ASSUME NEW c \in Locks, Delete(c) PROVE LockInv(d)'
    <2>1. /\ UNCHANGED <<seq, ttl>> /\ ~taken'[c] /\ Remove(seq[c])
          /\ d # c => taken'[d] = taken[d]
      BY <1>8 DEF Delete, Take, setting, TypeInv, TypeOK
    <2>2. Keys' = Keys \ {seq[c]} /\ \A k \in Keys' : queue'[k] = queue[k]
      BY <2>1 DEF Remove, Restrict, Keys
    <2>3. pc'[d] = pc[d] \/ (pc'[d] \in {"idle", "locker"} /\ (pc'[d] = "idle" => d = c))
      BY <1>8 DEF Delete, Goto, GotoAndWake, TypeInv, TypeOK
    <2>4. d # c /\ seq[d] \in Keys => seq[d] # seq[c]
      <3>1. OwnEntry(c) /\ OwnEntry(d)
        BY DEF LockInv
      <3>. QED
        BY <3>1 DEF OwnEntry
    <2>. QED
      BY <2>1, <2>2, <2>3, <2>4
         DEF LockInv, OwnEntry, TakenHasEntry, TakenIsFirst, IsFirst
  <1>9. ASSUME NEW c \in Locks, RequestFails(c) PROVE LockInv(d)'
    <2>1. pc'[d] # "append" \/ pc'[d] = pc[d]
      BY <1>9 DEF RequestFails, LockerRaises, Goto, TypeInv, TypeOK
    <2>2. UNCHANGED <<queue, seq, ttl>> /\ Fault
      BY <1>9 DEF RequestFails, setting
    <2>3. ~ttl
      BY <2>2 DEF Undisturbed, Fault, TypeInv, TypeOK
    <2>4. taken'[d] => taken[d]
      BY <1>9 DEF RequestFails, LockerRaises, Take, TypeInv, TypeOK
    <2>. QED
      BY <2>1, <2>2, <2>3, <2>4, QuietStep DEF LockInv, TakenHasEntry
  <1>10. ASSUME NEW k \in Keys, Expire(k) PROVE LockInv(d)'
    <2>1. /\ ttl /\ UNCHANGED <<seq, ttl, taken>> /\ Remove(k)
          /\ pc'[d] = pc[d] \/ pc'[d] = "locker"
      BY <1>10 DEF Expire, setting, TypeInv, TypeOK
    <2>2. Keys' = Keys \ {k} /\ \A j \in Keys' : queue'[j] = queue[j]
      BY <2>1 DEF Remove, Restrict, Keys
    <2>. QED
      BY <2>1, <2>2 DEF LockInv, OwnEntry, TakenHasEntry, TakenIsFirst, IsFirst
  <1>11. CASE UNCHANGED vars
    BY <1>11, QuietStep DEF vars, setting, LockInv, TakenHasEntry
  <1>. QED
    BY <1>1, <1>2, <1>3, <1>4, <1>5, <1>6, <1>7, <1>8, <1>9, <1>10, <1>11 DEF Next, GoOn

LEMMA StepMutexInv == TypeInv /\ MutexInv /\ [Next]_vars => MutexInv'
  BY StaysUndisturbed, StepLockInv DEF MutexInv, LockInv

LEMMA InitMutexInv == Init => MutexInv
  BY DEF Init, MutexInv, OwnEntry, TakenHasEntry, TakenIsFirst, Keys

\* Two locks that are taken and have an entry have the first one.
LEMMA FirstIsOne ==
    ASSUME TypeInv, NEW c \in Locks, NEW d \in Locks, OwnEntry(c), OwnEntry(d),
           seq[c] \in Keys, seq[d] \in Keys, IsFirst(c), IsFirst(d)
    PROVE  c = d
  <1>1. seq[c] = seq[d]
    BY DEF IsFirst, TypeInv, TypeOK
  <1>. QED
    BY <1>1 DEF OwnEntry

\* Without a ttl, and with one as long as nothing was revived and no request
\* failed, two locks are never acquired at a time (lock.py:59-177).
THEOREM LockExcludes == Spec => []Exclusion
  <1>1. TypeInv /\ MutexInv => Exclusion
    <2> SUFFICES ASSUME TypeInv, MutexInv, Undisturbed,
                        NEW c \in Locks, NEW d \in Locks, Holds(c), Holds(d)
                 PROVE  c = d
      BY DEF Exclusion, MutualExclusion, Undisturbed
    <2>1. /\ OwnEntry(c) /\ seq[c] \in Keys /\ IsFirst(c)
          /\ OwnEntry(d) /\ seq[d] \in Keys /\ IsFirst(d)
      BY DEF MutexInv, TakenIsFirst, Holds
    <2>. QED
      BY <2>1, FirstIsOne
  <1>. QED
    BY <1>1, InitTypeInv, StepTypeInv, InitMutexInv, StepMutexInv, PTL DEF Spec

-----------------------------------------------------------------------------
(* One entry per lock. *)

EntryInvOf(c) == OneEntry(c) /\ EntriesKnown(c) /\ AppendsFirst(c)

\* A step that gives the lock no entry, and has it learn none.
LEMMA NoNewEntry ==
    ASSUME NEW d \in Locks, EntryInvOf(d), Keys' \subseteq Keys,
           \A k \in Keys' : queue'[k] = d => queue[k] = d,
           seq'[d] = seq[d], pc'[d] = "append" => pc[d] = "append"
    PROVE  EntryInvOf(d)'
  BY DEF EntryInvOf, OneEntry, EntriesKnown, AppendsFirst

LEMMA StepEntryInvOf ==
    ASSUME TypeInv, [Next]_vars, ~orphaned', \A c \in Locks : EntryInvOf(c),
           NEW d \in Locks
    PROVE  EntryInvOf(d)'
  <1>1. ASSUME NEW c \in Locks, NEW b \in BOOLEAN,
               \/ Acquire(c, b) \/ Release(c) \/ IsAcquired(c) \/ WatchAgain(c)
               \/ Watch(c) \/ GetLocker(c) \/ RequestFails(c)
        PROVE  EntryInvOf(d)'
    <2>1. UNCHANGED <<queue, seq>>
      BY <1>1 DEF Acquire, Release, IsAcquired, WatchAgain, Watch, GetLocker, RequestFails
    <2>2. pc' = pc \/ \E l \in {"find", "findkey", "delete", "watch", "waiting", "idle"} :
                         pc' = [pc EXCEPT ![c] = l]
      BY <1>1 DEF Acquire, Release, IsAcquired, WatchAgain, Watch, GetLocker, RequestFails,
                  LockerRaises, Goto
    <2>3. pc'[d] = "append" => pc[d] = "append"
      BY <2>2 DEF TypeInv, TypeOK
    <2>. QED
      BY <2>1, <2>3, NoNewEntry DEF Keys
  <1>2. ASSUME NEW c \in Locks, FindLock(c) \/ FindKey(c) PROVE EntryInvOf(d)'
    <2>1. UNCHANGED queue /\ (d # c => seq'[d] = seq[d] /\ pc'[d] = pc[d])
      BY <1>2 DEF FindLock, FindKey, Goto, TypeInv, TypeOK
    <2>2. CASE d # c
      BY <2>1, <2>2, NoNewEntry DEF Keys
    <2>3. CASE d = c /\ Found(c) = {}
      <3>1. seq' = seq
        BY <1>2, <2>3 DEF FindLock, FindKey
      <3>2. \A k \in Keys : queue[k] # c
        BY <2>3 DEF EntryInvOf, EntriesKnown, Found, TypeInv, TypeOK
      <3>. QED
        BY <2>1, <2>3, <3>1, <3>2
           DEF EntryInvOf, OneEntry, EntriesKnown, AppendsFirst, Keys
    <2>4. CASE d = c /\ Found(c) # {}
      <3>1. PICK k \in Found(c) : seq' = [seq EXCEPT ![c] = k]
        BY <1>2, <2>4 DEF FindLock, FindKey
      <3>2. pc'[c] # "append" /\ seq'[c] = k /\ k \in Keys
        BY <1>2, <2>4, <3>1, FoundOK DEF FindLock, FindKey, Goto, TypeInv, TypeOK
      <3>3. \A j \in Keys : queue[j] = c => j = k
        <4>1. CASE seq[c] # 0
          BY <3>1, <4>1 DEF Found, EntryInvOf, EntriesKnown
        <4>2. CASE seq[c] = 0
          BY <3>1, <4>2 DEF Found, EntryInvOf, OneEntry
        <4>. QED
          BY <4>1, <4>2
      <3>. QED
        BY <2>1, <2>4, <3>2, <3>3
           DEF EntryInvOf, OneEntry, EntriesKnown, AppendsFirst, Keys
    <2>. QED
      BY <2>2, <2>3, <2>4
  <1>3. ASSUME NEW c \in Locks, Append(c) \/ AppendAnswerLost(c) \/ AppendResent(c)
        PROVE  EntryInvOf(d)'
    <2>1. lastKey' = lastKey + 1 /\ Put(lastKey', c) /\ pc[c] = "append"
      BY <1>3 DEF Append, AppendAnswerLost, AppendResent, Appended
    <2>2. /\ Keys' = Keys \cup {lastKey + 1} /\ lastKey + 1 \notin Keys
          /\ queue'[lastKey + 1] = c /\ \A k \in Keys : queue'[k] = queue[k]
      BY <2>1 DEF Put, Keys, TypeInv, TypeOK
    <2>3. CASE d # c
      <3>1. pc'[d] = pc[d] /\ seq'[d] = seq[d]
        BY <1>3, <2>3 DEF Append, AppendAnswerLost, AppendResent, Goto, TypeInv, TypeOK
      <3>. QED
        BY <2>2, <2>3, <3>1 DEF EntryInvOf, OneEntry, EntriesKnown, AppendsFirst
    <2>4. CASE d = c
      <3>1. pc'[c] # "append" /\ (seq'[c] = lastKey + 1 \/ seq'[c] = 0)
        BY <1>3, <2>1 DEF Append, AppendAnswerLost, AppendResent, Goto, TypeInv, TypeOK
      <3>2. \A k \in Keys : queue[k] # c
        BY <2>1 DEF EntryInvOf, AppendsFirst
      <3>. QED
        BY <2>2, <2>4, <3>1, <3>2 DEF EntryInvOf, OneEntry, EntriesKnown, AppendsFirst
    <2>. QED
      BY <2>3, <2>4
  <1>4. ASSUME NEW c \in Locks, Renew(c) \/ RenewAnswerLost(c) PROVE EntryInvOf(d)'
    <2>1. PICK l \in {"idle", "locker"} : Renewed(c, l)
      BY <1>4 DEF Renew, RenewAnswerLost
    <2>2. UNCHANGED seq /\ seq[c] # 0
      BY <2>1 DEF Renewed, TypeInv
    <2>3. /\ Keys' = Keys \cup {seq[c]} /\ queue'[seq[c]] = c
          /\ \A k \in Keys : k # seq[c] => queue'[k] = queue[k]
      BY <2>1 DEF Renewed, Put, Keys
    <2>4. pc'[d] = "append" => pc[d] = "append" /\ d # c
      BY <2>1 DEF Renewed, GotoAndWake, TypeInv, TypeOK
    <2>. QED
      BY <2>2, <2>3, <2>4 DEF EntryInvOf, OneEntry, EntriesKnown, AppendsFirst
  <1>5. ASSUME NEW c \in Locks, Delete(c) PROVE EntryInvOf(d)'
    <2>1. Keys' \subseteq Keys /\ \A k \in Keys' : queue'[k] = queue[k]
      BY <1>5 DEF Delete, Remove, Restrict, Keys
    <2>2. pc'[d] = "append" => pc[d] = "append"
      BY <1>5 DEF Delete, Goto, GotoAndWake, TypeInv, TypeOK
    <2>. QED
      BY <1>5, <2>1, <2>2, NoNewEntry DEF Delete
  <1>6. ASSUME NEW k \in Keys, Expire(k) PROVE EntryInvOf(d)'
    <2>1. Keys' \subseteq Keys /\ \A j \in Keys' : queue'[j] = queue[j]
      BY <1>6 DEF Expire, Remove, Restrict, Keys
    <2>2. pc'[d] = "append" => pc[d] = "append"
      BY <1>6 DEF Expire, TypeInv, TypeOK
    <2>. QED
      BY <1>6, <2>1, <2>2, NoNewEntry DEF Expire
  <1>7. CASE UNCHANGED vars
    BY <1>7, NoNewEntry DEF vars, Keys
  <1>. QED
    BY <1>1, <1>2, <1>3, <1>4, <1>5, <1>6, <1>7 DEF Next, GoOn

LEMMA StaysOrphaned == [Next]_vars /\ ~orphaned' => ~orphaned
  BY DEF Next, GoOn, vars, Acquire, Release, IsAcquired, FindLock, Append, Renew,
         GetLocker, Watch, FindKey, Delete, WatchAgain, AppendAnswerLost, AppendResent,
         RenewAnswerLost, RequestFails, Expire, Appended, Renewed

\* A lock never has two entries in the queue, whatever answers were lost, unless
\* an append was sent twice or made with an old sequence (lock.py:17-20, 66-72).
THEOREM LockHasOneEntry == Spec => []OneEntryPerLock
  <1>1. Init => EntryInv
    BY DEF Init, EntryInv, OneEntry, EntriesKnown, AppendsFirst, Keys
  <1>2. TypeInv /\ EntryInv /\ [Next]_vars => EntryInv'
    BY StepEntryInvOf, StaysOrphaned DEF EntryInv, EntryInvOf
  <1>3. TypeInv /\ EntryInv => OneEntryPerLock
    BY DEF EntryInv, OneEntry, OneEntryPerLock, TypeInv, TypeOK
  <1>. QED
    BY <1>1, <1>2, <1>3, InitTypeInv, StepTypeInv, PTL DEF Spec

-----------------------------------------------------------------------------
(* The refinement of TicketLock. *)

Served == {c \in Locks : taken[c]}

LEMMA StepTicket ==
    ASSUME TypeInv, MutexInv, ~ttl, [Next]_vars
    PROVE  [Tickets!TicketNext]_(Tickets!ticketVars)
  <1> USE DEF Served
  <1>1. \A c \in Locks : LockInv(c)
    BY DEF MutexInv, Undisturbed, LockInv
  <1>2. CASE UNCHANGED <<queue, taken>>
    BY <1>2 DEF Tickets!ticketVars
  <1>3. ASSUME NEW c \in Locks, UNCHANGED queue, taken' = [taken EXCEPT ![c] = FALSE]
        PROVE  Tickets!TicketNext
    <2>1. Served' = Served \ {c}
      BY <1>3 DEF TypeInv, TypeOK
    <2>. QED
      BY <1>3, <2>1 DEF Tickets!TicketNext, Tickets!Leave
  <1>4. ASSUME NEW c \in Locks, Append(c) \/ AppendAnswerLost(c) \/ AppendResent(c)
        PROVE  Tickets!TicketNext
    <2>1. /\ lastKey' = lastKey + 1 /\ Put(lastKey', c) /\ lastKey < MaxKey
          /\ UNCHANGED taken
      BY <1>4 DEF Append, AppendAnswerLost, AppendResent, Appended
    <2>2. lastKey + 1 \in 1..MaxKey /\ \A k \in Keys : k < lastKey + 1
      BY <2>1, LockAssumption DEF TypeInv, TypeOK
    <2>3. Tickets!Draw(c)
      BY <2>1, <2>2 DEF Tickets!Draw, Tickets!Out, Put, Keys
    <2>. QED
      BY <2>3 DEF Tickets!TicketNext
  <1>5. ASSUME NEW c \in Locks, GetLocker(c), seq[c] \in Keys
        PROVE  [Tickets!TicketNext]_(Tickets!ticketVars)
    <2>1. UNCHANGED queue /\ taken' = [taken EXCEPT ![c] = IsLocker(c)]
      BY <1>5 DEF GetLocker, Take
    <2>2. CASE ~IsLocker(c)
      <3>1. IsLocker(c) = FALSE
        BY <2>2 DEF IsLocker
      <3>. QED
        BY <1>3, <2>1, <3>1
    <2>3. CASE IsLocker(c)
      <3>1. IsFirst(c) /\ queue[seq[c]] = c
        BY <1>1, <1>5, <2>3
           DEF IsLocker, Before, IsFirst, Keys, LockInv, OwnEntry, TypeInv, TypeOK
      <3>2. Served \subseteq {c}
        <4>1. ASSUME NEW d \in Locks, taken[d] PROVE d = c
          <5>1. seq[d] \in Keys /\ IsFirst(d) /\ OwnEntry(d) /\ OwnEntry(c)
            BY <1>1, <4>1 DEF LockInv, TakenHasEntry, TakenIsFirst
          <5>. QED
            BY <1>5, <3>1, <5>1, FirstIsOne
        <4>. QED
          BY <4>1
      <3>3. Served' = {c}
        BY <2>1, <2>3, <3>2 DEF TypeInv, TypeOK
      <3>4. CASE Served = {}
        <4>1. Tickets!Enter(c)
          BY <1>5, <2>1, <3>1, <3>3, <3>4 DEF Tickets!Enter, Tickets!Out, IsFirst, Keys
        <4>. QED
          BY <4>1 DEF Tickets!TicketNext
      <3>5. CASE Served = {c}
        BY <2>1, <3>3, <3>5 DEF Tickets!ticketVars
      <3>. QED
        BY <3>2, <3>4, <3>5
    <2>. QED
      BY <2>2, <2>3
  <1>6. ASSUME NEW c \in Locks, Delete(c) PROVE [Tickets!TicketNext]_(Tickets!ticketVars)
    <2>1. Remove(seq[c]) /\ taken' = [taken EXCEPT ![c] = FALSE]
      BY <1>6 DEF Delete, Take
    <2>2. CASE seq[c] \notin Keys
      <3>1. queue' = queue
        BY <2>1, <2>2 DEF Remove, Restrict, Keys, TypeInv, TypeOK
      <3>. QED
        BY <1>3, <2>1, <3>1
    <2>3. CASE seq[c] \in Keys
      <3>1. queue[seq[c]] = c
        BY <1>1, <2>3 DEF LockInv, OwnEntry
      <3>2. Tickets!GiveBack(c)
        BY <2>1, <2>3, <3>1
           DEF Tickets!GiveBack, Tickets!Out, Tickets!Restrict, Remove, Restrict, Keys
      <3>3. Served' = Served \ {c}
        BY <2>1 DEF TypeInv, TypeOK
      <3>. QED
        BY <3>2, <3>3 DEF Tickets!Leave, Tickets!TicketNext
    <2>. QED
      BY <2>2, <2>3
  <1>7. ASSUME NEW c \in Locks, FindKey(c) \/ RequestFails(c)
        PROVE  [Tickets!TicketNext]_(Tickets!ticketVars)
    <2>1. UNCHANGED queue /\ (taken' = taken \/ taken' = [taken EXCEPT ![c] = FALSE])
      BY <1>7 DEF FindKey, RequestFails, LockerRaises, Take
    <2>. QED
      BY <1>2, <1>3, <2>1
  <1>8. ASSUME NEW c \in Locks, IsAcquired(c) PROVE [Tickets!TicketNext]_(Tickets!ticketVars)
    <2>1. taken' = taken
      BY <1>1, <1>8 DEF IsAcquired, Take, LockInv, TakenHasEntry, TypeInv, TypeOK
    <2>. QED
      BY <1>2, <1>8, <2>1 DEF IsAcquired
  <1>9. ASSUME NEW c \in Locks, Renew(c) \/ RenewAnswerLost(c) PROVE FALSE
    BY <1>9 DEF Renew, RenewAnswerLost, Renewed, TypeInv
  <1>10. ASSUME NEW c \in Locks, NEW b \in BOOLEAN,
                \/ Acquire(c, b) \/ Release(c) \/ FindLock(c) \/ Watch(c) \/ WatchAgain(c)
                \/ GetLocker(c) /\ seq[c] \notin Keys
         PROVE  UNCHANGED <<queue, taken>>
    BY <1>10 DEF Acquire, Release, FindLock, Watch, WatchAgain, GetLocker, LockerRaises
  <1>11. CASE UNCHANGED vars
    BY <1>2, <1>11 DEF vars
  <1>. QED
    BY <1>2, <1>4, <1>5, <1>6, <1>7, <1>8, <1>9, <1>10, <1>11 DEF Next, GoOn, Expire

\* Without a ttl the recipe implements TicketLock: one lock is served at a time,
\* in the order of the entries (lock.py:59-177).
THEOREM LockImplementsTickets == Spec => ServesInOrder
  <1>1. TypeInv /\ MutexInv /\ [Next]_vars
        => [~ttl => Tickets!TicketNext]_(Tickets!ticketVars)
    BY StepTicket
  <1>. QED
    BY <1>1, InitTypeInv, StepTypeInv, InitMutexInv, StepMutexInv, PTL DEF Spec, ServesInOrder

=============================================================================
