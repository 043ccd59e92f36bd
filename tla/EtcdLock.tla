------------------------------ MODULE EtcdLock ------------------------------
(***************************************************************************)
(* The lock recipe of python-etcd (python-etcd/src/etcd/lock.py): a client *)
(* appends an entry to a directory of etcd; the entry with the smallest    *)
(* key holds the lock, every other one watches the entry before its own.   *)
(*                                                                         *)
(* One action is one request to etcd with what the code does until the     *)
(* next one.  A Lock object stands for its client, and for the uuid that   *)
(* is the value of its entries.  Keys are compared as numbers: etcd pads   *)
(* them to one length, so that the code's comparison of strings agrees.    *)
(***************************************************************************)
EXTENDS Integers, FiniteSets, Functions

CONSTANTS
    Locks,     \* the Lock objects that contend for one name
    Ttls,      \* may the entries expire: a subset of BOOLEAN
    Callers,   \* "poll": every call of acquire has blocking=False, "any"
    MaxKey,    \* bound: appends
    MaxFaults  \* bound: requests that fail or whose answer is lost

ASSUME LockAssumption ==
    /\ IsFiniteSet(Locks)
    /\ Ttls \subseteq BOOLEAN
    /\ Callers \subseteq {"poll", "any"}
    /\ MaxKey \in Nat /\ MaxFaults \in Nat

VARIABLES
    queue,      \* the entries of /_locks/<name>: key -> uuid
    lastKey,    \* the key etcd gave out last
    ttl,        \* lock_ttl is not None, in every call of acquire
    callers,    \* how acquire is called in this behaviour
    pc,         \* the next request of each lock
    seq,        \* _sequence, 0 for None
    taken,      \* is_taken
    blocking,   \* the argument of the call of acquire
    watchKey,   \* the entry that is watched, 0 for none
    faults,     \* faults so far
    revived,    \* history: a renewal has written an entry that had expired
    orphaned    \* history: an append was executed whose key no lock will learn

setting == <<ttl, callers>>
vars == <<queue, lastKey, setting, pc, seq, taken, blocking, watchKey,
          faults, revived, orphaned>>

Keys == DOMAIN queue
Before(c) == {k \in Keys : k < seq[c]}

TypeOK ==
    /\ lastKey \in 0..MaxKey
    /\ Keys \subseteq 1..lastKey
    /\ queue \in [Keys -> Locks]
    /\ ttl \in BOOLEAN /\ callers \in {"poll", "any"}
    /\ pc \in [Locks -> {"idle", "find", "append", "renew", "locker", "watch",
                         "waiting", "findkey", "delete"}]
    /\ seq \in [Locks -> 0..lastKey]
    /\ taken \in [Locks -> BOOLEAN]
    /\ blocking \in [Locks -> BOOLEAN]
    /\ watchKey \in [Locks -> 0..lastKey]
    /\ faults \in 0..MaxFaults
    /\ revived \in BOOLEAN /\ orphaned \in BOOLEAN

Init ==
    /\ queue = <<>> /\ lastKey = 0
    /\ ttl \in Ttls /\ callers \in Callers
    /\ pc = [c \in Locks |-> "idle"]
    /\ seq = [c \in Locks |-> 0]
    /\ taken = [c \in Locks |-> FALSE]
    /\ blocking = [c \in Locks |-> FALSE]
    /\ watchKey = [c \in Locks |-> 0]
    /\ faults = 0
    /\ revived = FALSE /\ orphaned = FALSE

Goto(c, l) == pc' = [pc EXCEPT ![c] = l]

Take(c, b) == taken' = [taken EXCEPT ![c] = b]

-----------------------------------------------------------------------------
(* What etcd does with an entry.  An event on a key ends the watches on    *)
(* it, and their owners read the queue again.                              *)

WokenBy(k) == {c \in Locks : pc[c] = "waiting" /\ watchKey[c] = k}

\* The control of all locks when c goes on to l and key k has an event.
GotoAndWake(c, l, k) ==
    pc' = [d \in Locks |-> IF d = c THEN l
                           ELSE IF d \in WokenBy(k) THEN "locker" ELSE pc[d]]

Put(k, c) == queue' = [j \in Keys \cup {k} |-> IF j = k THEN c ELSE queue[j]]

Remove(k) == queue' = Restrict(queue, Keys \ {k})

-----------------------------------------------------------------------------
(* acquire *)

Acquire(c, b) ==
    /\ pc[c] = "idle"
    /\ callers = "poll" => ~b
    /\ Goto(c, "find")
    /\ blocking' = [blocking EXCEPT ![c] = b]
    /\ watchKey' = [watchKey EXCEPT ![c] = 0]
    /\ UNCHANGED <<queue, lastKey, setting, seq, taken, faults, revived, orphaned>>

\* Mutant of Found: looks only at its own sequence.
FoundBySequence(c) == {seq[c]} \cap Keys

\* _find_lock: by the sequence if there is one, else by the uuid.
Found(c) ==
    IF seq[c] # 0 THEN {seq[c]} \cap Keys ELSE {k \in Keys : queue[k] = c}

\* Mutant of FindLock: does not note the sequence it has found.
FindLockForgets(c) ==
    /\ pc[c] = "find"
    /\ IF Found(c) = {} THEN Goto(c, "append")
                        ELSE Goto(c, IF ttl THEN "renew" ELSE "locker")
    /\ UNCHANGED <<queue, lastKey, setting, seq, taken, blocking, watchKey, faults, revived, orphaned>>

FindLock(c) ==
    /\ pc[c] = "find"
    /\ \/ /\ Found(c) = {}
          /\ Goto(c, "append")
          /\ UNCHANGED seq
       \/ \E k \in Found(c) :
             /\ seq' = [seq EXCEPT ![c] = k]
             /\ Goto(c, IF ttl THEN "renew" ELSE "locker")
    /\ UNCHANGED <<queue, lastKey, setting, taken, blocking, watchKey, faults, revived, orphaned>>

\* write(path, uuid, append=True), as etcd executes it.
Appended(c) ==
    /\ pc[c] = "append"
    /\ lastKey < MaxKey
    /\ lastKey' = lastKey + 1
    /\ Put(lastKey', c)
    /\ UNCHANGED <<setting, taken, blocking, watchKey, revived>>

Append(c) ==
    /\ Appended(c)
    /\ seq' = [seq EXCEPT ![c] = lastKey']
    /\ Goto(c, "locker")
    /\ UNCHANGED <<faults, orphaned>>

\* write(lock_key, uuid): etcd creates the key if it is not there any more.
Renewed(c, l) ==
    /\ pc[c] = "renew"
    /\ Put(seq[c], c)
    /\ revived' = (revived \/ seq[c] \notin Keys)
    /\ GotoAndWake(c, l, seq[c])
    /\ UNCHANGED <<lastKey, setting, seq, taken, blocking, watchKey, orphaned>>

Renew(c) == Renewed(c, "locker") /\ UNCHANGED faults

\* Mutant of IsLocker: takes the wrong end of the list.
IsLastOfQueue(c) == \A k \in Keys : k <= seq[c]

IsLocker(c) == Before(c) = {}

\* _get_locker raises: EtcdLockExpired, or a request that failed.  In the first
\* round the caller gets the exception.  Later ones are called inside of the
\* `try' of the round before, which swallows it and watches its key again.
LockerRaises(c) ==
    /\ pc[c] = "locker"
    /\ Goto(c, IF watchKey[c] = 0 THEN "idle" ELSE "watch")
    /\ UNCHANGED <<taken, watchKey>>

\* _acquired and _get_locker: is_taken is set after the queue was read.
GetLocker(c) ==
    /\ \/ seq[c] \notin Keys /\ LockerRaises(c)
       \/ /\ pc[c] = "locker"
          /\ seq[c] \in Keys
          /\ Take(c, IsLocker(c))
          /\ IF IsLocker(c) \/ ~blocking[c]
             THEN Goto(c, "idle") /\ UNCHANGED watchKey
             ELSE /\ \E k \in Before(c) :
                        /\ \A j \in Before(c) : j <= k
                        /\ watchKey' = [watchKey EXCEPT ![c] = k]
                  /\ Goto(c, "watch")
    /\ UNCHANGED <<queue, lastKey, setting, seq, blocking, faults, revived, orphaned>>

\* watch without an index: etcd waits for the next event on the key, which it
\* does for a key that is not there, too.
Watch(c) ==
    /\ pc[c] = "watch"
    /\ Goto(c, "waiting")
    /\ UNCHANGED <<queue, lastKey, setting, seq, taken, blocking, watchKey, faults, revived, orphaned>>

\* A timeout or a lost connection: `except EtcdException: pass'.
WatchAgain(c) ==
    /\ pc[c] = "waiting"
    /\ Goto(c, "watch")
    /\ UNCHANGED <<queue, lastKey, setting, seq, taken, blocking, watchKey, faults, revived, orphaned>>

-----------------------------------------------------------------------------
(* release, is_acquired *)

Release(c) ==
    /\ pc[c] = "idle"
    /\ Goto(c, IF seq[c] = 0 THEN "findkey" ELSE "delete")
    /\ UNCHANGED <<queue, lastKey, setting, seq, taken, blocking, watchKey, faults, revived, orphaned>>

\* No sequence, and none to be found: lock_key raises ValueError.
FindKey(c) ==
    /\ pc[c] = "findkey"
    /\ \/ /\ Found(c) = {}
          /\ Take(c, FALSE)
          /\ Goto(c, "idle")
          /\ UNCHANGED seq
       \/ \E k \in Found(c) :
             /\ seq' = [seq EXCEPT ![c] = k]
             /\ Goto(c, "delete")
             /\ UNCHANGED taken
    /\ UNCHANGED <<queue, lastKey, setting, blocking, watchKey, faults, revived, orphaned>>

\* Mutant of Delete: only says that the lock is not taken.
DeleteForgets(c) ==
    /\ pc[c] = "delete"
    /\ Take(c, FALSE)
    /\ Goto(c, "idle")
    /\ UNCHANGED <<queue, lastKey, setting, seq, blocking, watchKey, faults, revived, orphaned>>

\* The sequence stays; an entry that is gone already is no error, and an answer
\* that is lost leaves the same state.
Delete(c) ==
    /\ pc[c] = "delete"
    /\ Remove(seq[c])
    /\ Take(c, FALSE)
    /\ IF seq[c] \in Keys THEN GotoAndWake(c, "idle", seq[c]) ELSE Goto(c, "idle")
    /\ UNCHANGED <<lastKey, setting, seq, blocking, watchKey, faults, revived, orphaned>>

IsAcquired(c) ==
    /\ pc[c] = "idle"
    /\ Take(c, taken[c] /\ seq[c] \in Keys)
    /\ UNCHANGED <<queue, lastKey, setting, pc, seq, blocking, watchKey, faults, revived, orphaned>>

-----------------------------------------------------------------------------
(* Faults, and time. *)

Fault ==
    /\ faults < MaxFaults
    /\ faults' = faults + 1

\* etcd executes the append and the client raises.  A lock that has no sequence
\* will find the entry by its uuid; one that has an old one will not.
AppendAnswerLost(c) ==
    /\ Fault
    /\ Appended(c)
    /\ Goto(c, "idle")
    /\ orphaned' = (orphaned \/ seq[c] # 0)
    /\ UNCHANGED seq

\* The same, and _wrap_request sends it again to another server.
AppendResent(c) ==
    /\ Fault
    /\ Appended(c)
    /\ orphaned' = TRUE
    /\ UNCHANGED <<pc, seq>>

RenewAnswerLost(c) == Fault /\ Renewed(c, "idle")

\* The request is not executed, and the exception goes to the caller; release
\* clears is_taken all the same.
RequestFails(c) ==
    /\ Fault
    /\ \/ LockerRaises(c)
       \/ /\ pc[c] \in {"find", "append", "renew", "findkey"}
          /\ Goto(c, "idle")
          /\ UNCHANGED <<taken, watchKey>>
       \/ /\ pc[c] = "delete"
          /\ Goto(c, "idle")
          /\ Take(c, FALSE)
          /\ UNCHANGED watchKey
    /\ UNCHANGED <<queue, lastKey, setting, seq, blocking, revived, orphaned>>

Expire(k) ==
    /\ ttl
    /\ k \in Keys
    /\ Remove(k)
    /\ pc' = [c \in Locks |-> IF c \in WokenBy(k) THEN "locker" ELSE pc[c]]
    /\ UNCHANGED <<lastKey, setting, seq, taken, blocking, watchKey, faults, revived, orphaned>>

-----------------------------------------------------------------------------
\* The rest of a call that has begun.
GoOn(c) ==
    \/ FindLock(c)
    \/ Append(c)
    \/ Renew(c)
    \/ GetLocker(c)
    \/ Watch(c)
    \/ FindKey(c)
    \/ Delete(c)

Next ==
    \/ \E c \in Locks :
          \/ \E b \in BOOLEAN : Acquire(c, b)
          \/ Release(c)
          \/ IsAcquired(c)
          \/ GoOn(c)
          \/ WatchAgain(c)
          \/ AppendAnswerLost(c)
          \/ AppendResent(c)
          \/ RenewAnswerLost(c)
          \/ RequestFails(c)
    \/ \E k \in Keys : Expire(k)

Spec == Init /\ [][Next]_vars

\* Calls go on.  A caller that has no lock asks again, and one that has it
\* releases it in the end.
FairSpec ==
    /\ Spec
    /\ \A c \in Locks :
          /\ WF_vars(GoOn(c))
          /\ SF_vars(~taken[c] /\ \E b \in BOOLEAN : Acquire(c, b))
          /\ SF_vars(taken[c] /\ Release(c))

-----------------------------------------------------------------------------
(* Properties. *)

\* What is_acquired would answer between two calls.
Holds(c) == pc[c] = "idle" /\ taken[c] /\ seq[c] \in Keys

\* Two locks are never acquired at the same time (is_acquired "tells us if
\* the lock is acquired", lock.py:46).
MutualExclusion == \A c, d \in Locks : Holds(c) /\ Holds(d) => c = d

\* The same without a ttl, whatever answers are lost, calls fail and waiters
\* poll; and with one, as long as no renewal has written an entry that had
\* expired and no call has raised while is_taken was out of date (lock.py:59-78,
\* 104-115, 159-177).
Exclusion == (ttl => ~revived /\ faults = 0) => MutualExclusion

\* Without a ttl the recipe serves its callers one at a time and in the order of
\* their entries, whatever requests fail or are sent twice: each step is one of
\* TicketLock.  A caller that polls keeps its place, and a lock that is acquired
\* again does not overtake (lock.py:59-93, 104-115, 159-177).
Tickets == INSTANCE TicketLock
               WITH Clients <- Locks, Numbers <- 1..MaxKey,
                    tickets <- queue, served <- {c \in Locks : taken[c]}

ServesInOrder ==
    [][~ttl => Tickets!TicketNext]_(Tickets!ticketVars)

\* A lock never has two entries, although answers get lost: "it is possible
\* for our create request to succeed on the server, but for a failure to
\* prevent us from getting back the full path name" (lock.py:17-20).  An append
\* that was sent twice, or by a lock with an old sequence, is out of its reach.
OneEntryPerLock ==
    ~orphaned => \A j, k \in Keys : queue[j] = queue[k] => j = k

\* When every caller polls, entries do not expire and none is orphaned, a lock
\* that has an entry is taken in the end, or is being released (lock.py:113-115:
\* the entry keeps its place between the calls).
PollersAcquire ==
    callers = "poll" /\ ~ttl =>
        \A c \in Locks :
            (\E k \in Keys : queue[k] = c) ~>
                (taken[c] \/ pc[c] \in {"findkey", "delete"} \/ orphaned)

\* "Block until the lock is obtained" (lock.py:63): a blocking call ends, as
\* long as the holders release the lock and the bound on appends is not met.
BlockingCallsEnd ==
    \A c \in Locks :
        pc[c] = "locker" /\ blocking[c] ~> (pc[c] = "idle" \/ lastKey = MaxKey)
=============================================================================
