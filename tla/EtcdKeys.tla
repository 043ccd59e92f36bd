------------------------------ MODULE EtcdKeys ------------------------------
(***************************************************************************)
(* The operations of python-etcd's Client on one key (python-etcd/src/     *)
(* etcd/client.py): read, write with its conditions, update, test_and_set, *)
(* delete, and the generator eternal_watch, over the store of EtcdStore.   *)
(*                                                                         *)
(* A read or a watch is answered by the client's server from what it has   *)
(* applied; a write is executed at the end of the log.  Between a request  *)
(* and its answer the client may lose its server, and the request may be   *)
(* sent again.                                                             *)
(***************************************************************************)
EXTENDS EtcdErrors, FiniteSets, SequencesExt

CONSTANTS
    Members, Snapshots, NoRegistry,      \* of EtcdStore: the servers, the values
    MaxIndex, HistorySize, MaxCluster,   \* of the key, no key, the bounds
    Updaters,   \* clients that read and write the key
    Watchers,   \* clients that watch it
    Casts,      \* who takes part in a behaviour: a set of sets of clients
    None,       \* no object, no request, no previous value
    MaxCalls,   \* bound: writes the updaters ask for
    MaxFaults   \* bound: requests without an answer

Clients == Updaters \cup Watchers

ASSUME KeysAssumption ==
    /\ NoRegistry \notin Snapshots
    /\ MaxIndex \in Nat \ {0} /\ HistorySize \in Nat \ {0} /\ MaxCluster \in Nat \ {0}
    /\ Updaters \cap Watchers = {}
    /\ Casts \subseteq SUBSET Clients
    /\ None \notin Snapshots \cup {NoRegistry}
    /\ MaxCalls \in Nat /\ MaxFaults \in Nat

VARIABLES
    clusterId, log, applied,  \* of EtcdStore
    cast,       \* the clients that take part
    server,     \* the member each client talks to
    expected,   \* expected_cluster_id, 0 for None
    obj,        \* the EtcdResult an updater got last: value, modifiedIndex
                \* and, as a history, the cluster it comes from
    req,        \* its write on the way, with a copy of obj as a history
    outcome,    \* how its last write ended: "none" while it runs, and once
                \* the caller has read again
    executed,   \* history: the versions which that write's requests replaced
    pc,         \* of eternal_watch: "off", "send", "wait", "ended"
    local,      \* local_index, 0 for None
    since,      \* the index from which the server looks for an event
    yielded,    \* the indices of the events yielded
    first,      \* history: the index the generator began with, if need be
                \* that of its first event
    calls, faults

\* Nothing here asks what the key has ever held.
INSTANCE EtcdStore WITH published <- Snapshots \cup {NoRegistry}

store == <<clusterId, log, applied>>
updaters == <<obj, req, outcome, executed, calls>>
watchers == <<pc, local, since, yielded, first>>
vars == <<store, cast, server, expected, updaters, watchers, faults>>

Result == [value : Snapshots, index : Nat, cluster : Nat]
Ops == {"create", "update", "test_and_set", "delete"}
Request == [obj : Result \cup {None}, value : Contents, op : Ops,
            prevIndex : Nat, prevValue : Snapshots \cup {None},
            prevExist : {"any", "true", "false"}]

TypeOK ==
    /\ StoreTypeOK
    /\ cast \in Casts
    /\ server \in [Clients -> Members]
    /\ expected \in [Clients -> 0..MaxCluster]
    /\ obj \in [Updaters -> Result \cup {None}]
    /\ req \in [Updaters -> Request \cup {None}]
    /\ outcome \in [Updaters -> Exceptions \cup {"none", "ok"}]
    /\ executed \in [Updaters -> Seq([op : Ops, version : Result \cup {None},
                                   read : Result \cup {None}])]
    /\ pc \in [Watchers -> {"off", "send", "wait", "ended"}]
    /\ local \in [Watchers -> 0..(MaxIndex + 1)]
    /\ since \in [Watchers -> 0..(MaxIndex + 1)]
    /\ yielded \in [Watchers -> Seq(1..MaxIndex)]
    /\ first \in [Watchers -> 0..(MaxIndex + 1)]
    /\ calls \in 0..MaxCalls /\ faults \in 0..MaxFaults

Init ==
    /\ clusterId = 1
    /\ \E s \in Contents : log = FreshLog(s)
    /\ applied = [m \in Members |-> 1]
    /\ cast \in Casts
    /\ \E m \in Members : server = [c \in Clients |-> m]
    /\ expected = [c \in Clients |-> 0]
    /\ obj = [c \in Updaters |-> None]
    /\ req = [c \in Updaters |-> None]
    /\ outcome = [c \in Updaters |-> "none"]
    /\ executed = [c \in Updaters |-> <<>>]
    /\ pc = [w \in Watchers |-> "off"]
    /\ local = [w \in Watchers |-> 0]
    /\ since = [w \in Watchers |-> 0]
    /\ yielded = [w \in Watchers |-> <<>>]
    /\ first = [w \in Watchers |-> 0]
    /\ calls = 0 /\ faults = 0

-----------------------------------------------------------------------------
(* The request engine, as far as these operations see it (EtcdClient has   *)
(* its detail): an answer of another cluster raises once, a request that   *)
(* has no answer is sent to another member or gives up.                    *)

Foreign(c) == expected[c] \notin {0, clusterId}

Learn(c) == expected' = [expected EXCEPT ![c] = clusterId]

Fault ==
    /\ faults < MaxFaults
    /\ faults' = faults + 1

FailOver(c) ==
    \E m \in Members \ {server[c]} : server' = [server EXCEPT ![c] = m]

\* The headers may have come before the rest was lost.
MayLearn(c) == (expected[c] = 0 /\ Learn(c)) \/ UNCHANGED expected

-----------------------------------------------------------------------------
(* read *)

Version == IF Current = NoRegistry THEN None
           ELSE [value |-> Current, index |-> Latest.rev, cluster |-> clusterId]

\* _result_from_response: the node that member m has.
ResultFrom(m) ==
    [value |-> StateAt(m), index |-> log[applied[m]].rev, cluster |-> clusterId]

Ends(c, how) == outcome' = [outcome EXCEPT ![c] = how]

\* EtcdClusterIdChanged and EtcdKeyNotFound leave the caller what it had.
Read(c) ==
    /\ req[c] = None
    /\ calls < MaxCalls
    /\ Learn(c)
    /\ obj' = IF Foreign(c) \/ StateAt(server[c]) = NoRegistry THEN obj
              ELSE [obj EXCEPT ![c] = ResultFrom(server[c])]
    /\ Ends(c, "none")
    /\ executed' = [executed EXCEPT ![c] = <<>>]
    /\ UNCHANGED <<store, cast, server, req, calls, watchers, faults>>

-----------------------------------------------------------------------------
(* write, and what is built on it.                                         *)

Sends(c, r) ==
    /\ req[c] = None
    /\ calls < MaxCalls
    /\ calls' = calls + 1
    /\ req' = [req EXCEPT ![c] = r]
    /\ Ends(c, "none")
    /\ executed' = [executed EXCEPT ![c] = <<>>]
    /\ UNCHANGED <<store, cast, server, expected, obj, watchers, faults>>

Write(op, value, prevIndex, prevValue, prevExist, x) ==
    [obj |-> x, value |-> value, op |-> op, prevIndex |-> prevIndex,
     prevValue |-> prevValue, prevExist |-> prevExist]

Create(c, v) == Sends(c, Write("create", v, 0, None, "false", obj[c]))

TestAndSet(c, v) ==
    obj[c] # None /\ Sends(c, Write("test_and_set", v, 0, obj[c].value, "any", obj[c]))

\* Mutant of UpdateRequest: only asks that the key exists.
UpdateRequestAny(x, v) == Write("update", v, 0, None, "true", x)

UpdateRequest(x, v) == Write("update", v, x.index, None, "true", x)

Update(c, v) == obj[c] # None /\ Sends(c, UpdateRequest(obj[c], v))

\* delete and pop, with a prevIndex.  Without one, and like an unconditional
\* write, they are what Others does.
Delete(c) ==
    /\ obj[c] # None
    /\ Sends(c, Write("delete", NoRegistry, obj[c].index, None, "any", obj[c]))

\* What etcd makes of a request: status and code.
Conditional(r) == r.op = "delete" \/ r.prevExist = "true" \/ r.prevIndex # 0 \/ r.prevValue # None

Verdict(r) ==
    IF Current = NoRegistry
    THEN IF Conditional(r) THEN <<404, 100>> ELSE <<201, NoCode>>
    ELSE IF r.prevExist = "false" THEN <<412, 105>>
    ELSE IF r.prevIndex \notin {0, Latest.rev} \/ r.prevValue \notin {None, Current}
    THEN <<412, 101>>
    ELSE <<200, NoCode>>

Accepted(r) == Verdict(r)[1] \in {200, 201}

Execute(c) ==
    IF Accepted(req[c])
    THEN /\ WriteRegistry(req[c].value)
         /\ executed' = [executed EXCEPT ![c] =
                Append(@, [op |-> req[c].op, version |-> Version, read |-> req[c].obj])]
    ELSE UNCHANGED <<store, executed>>

\* The cluster id is compared when the write has been executed already.
Answer(c) ==
    /\ req[c] # None
    /\ Execute(c)
    /\ Learn(c)
    /\ req' = [req EXCEPT ![c] = None]
    /\ IF Foreign(c)
       THEN Ends(c, "EtcdClusterIdChanged")
       ELSE Ends(c, HandleServerResponse(Verdict(req[c])[1], Verdict(req[c])[2]))
    /\ obj' = IF ~Foreign(c) /\ Accepted(req[c])
              THEN [obj EXCEPT ![c] = Version'] ELSE obj
    /\ UNCHANGED <<cast, server, calls, watchers, faults>>

\* Mutant of NoAnswer: the exception of urllib3 goes to the caller as it is.
NoAnswerRaw(c) ==
    /\ req[c] # None
    /\ Fault
    /\ req' = [req EXCEPT ![c] = None]
    /\ Ends(c, "HTTPError")
    /\ UNCHANGED <<store, cast, server, expected, obj, executed, calls, watchers>>

\* No answer: it goes to the next server, or raises.  It may have been executed.
NoAnswer(c) ==
    /\ req[c] # None
    /\ Fault
    /\ \/ UNCHANGED <<store, executed, expected>>
       \/ ~Foreign(c) /\ Execute(c) /\ MayLearn(c)
       \/ Foreign(c) /\ Execute(c) /\ UNCHANGED expected
    /\ \/ FailOver(c) /\ UNCHANGED <<req, outcome>>
       \/ /\ req' = [req EXCEPT ![c] = None]
          /\ Ends(c, "EtcdConnectionFailed")
          /\ UNCHANGED server
    /\ UNCHANGED <<cast, obj, calls, watchers>>

-----------------------------------------------------------------------------
(* eternal_watch *)

Goto(w, l) == pc' = [pc EXCEPT ![w] = l]

\* From now on, or from what a read of the same client has returned: after the
\* version of the key, or after the index of the answer.
EternalWatch(w) ==
    /\ pc[w] = "off"
    /\ Goto(w, "send")
    /\ \/ UNCHANGED <<local, first, expected>>
       \/ \E index \in {log[applied[server[w]]].rev + 1, IndexAt(server[w]) + 1} :
             /\ local' = [local EXCEPT ![w] = index]
             /\ first' = [first EXCEPT ![w] = index]
             /\ Learn(w)
    /\ UNCHANGED <<store, cast, server, since, yielded, updaters, faults>>

\* Mutant of WatchSend: waits on whatever cluster answers.
WatchSendUnchecked(w) ==
    /\ pc[w] = "send"
    /\ Learn(w)
    /\ Goto(w, "wait")
    /\ since' = [since EXCEPT ![w] = IF local[w] = 0 THEN IndexAt(server[w]) + 1
                                     ELSE local[w]]
    /\ UNCHANGED <<store, cast, server, local, yielded, first, updaters, faults>>

\* watch: `if index', so that etcd chooses the index for None.
WatchSend(w) ==
    /\ pc[w] = "send"
    /\ Learn(w)
    /\ IF Foreign(w) \/ (local[w] # 0 /\ Cleared(server[w], local[w]))
       THEN Goto(w, "ended") /\ UNCHANGED since
       ELSE /\ Goto(w, "wait")
            /\ since' = [since EXCEPT ![w] = IF local[w] = 0 THEN IndexAt(server[w]) + 1
                                             ELSE local[w]]
    /\ UNCHANGED <<store, cast, server, local, yielded, first, updaters, faults>>

Yield(w, i, next) ==
    /\ pc[w] = "wait"
    /\ IsFirstEvent(server[w], since[w], i)
    /\ yielded' = [yielded EXCEPT ![w] = Append(@, i)]
    /\ local' = [local EXCEPT ![w] = next]
    /\ first' = [first EXCEPT ![w] = IF @ = 0 THEN i ELSE @]
    /\ Goto(w, "send")
    /\ UNCHANGED <<store, cast, server, expected, since, updaters, faults>>

\* Mutant of WatchYield: goes on after the index of the answer's header.
WatchYieldHeader(w) ==
    \E i \in 1..MaxIndex : Yield(w, i, IndexAt(server[w]) + 1)

\* local_index = response.modifiedIndex + 1
WatchYield(w) == \E i \in 1..MaxIndex : Yield(w, i, i + 1)

\* timeout=0 is no timeout: only a lost server ends the wait.
WatchFails(w) ==
    /\ pc[w] \in {"send", "wait"}
    /\ Fault
    /\ \/ FailOver(w) /\ Goto(w, "send")
       \/ Goto(w, "ended") /\ UNCHANGED server
    /\ UNCHANGED <<store, cast, expected, local, since, yielded, first, updaters>>

-----------------------------------------------------------------------------
(* The store. *)

Unmoved == UNCHANGED <<cast, server, expected, updaters, faults>>

\* A rebuilt cluster has none of the connections of the old one.
Rebuild ==
    /\ \E s \in Contents : ReplaceCluster(s)
    /\ pc' = [w \in Watchers |-> IF pc[w] = "wait" THEN "send" ELSE pc[w]]
    /\ Unmoved
    /\ UNCHANGED <<local, since, yielded, first>>

Others == (\E s \in Contents : WriteRegistry(s)) /\ Unmoved /\ UNCHANGED watchers

Elsewhere == WriteElsewhere /\ Unmoved /\ UNCHANGED watchers

Replicates(m) == Replicate(m) /\ Unmoved /\ UNCHANGED watchers

Watching(w) == WatchSend(w) \/ WatchYield(w)

Next ==
    \/ \E c \in Updaters \cap cast :
          \/ Read(c)
          \/ \E v \in Snapshots :
                \/ Create(c, v)
                \/ Update(c, v)
                \/ TestAndSet(c, v)
          \/ Delete(c)
          \/ Answer(c)
          \/ NoAnswer(c)
    \/ \E w \in Watchers \cap cast :
          \/ EternalWatch(w)
          \/ Watching(w)
          \/ WatchFails(w)
    \/ Rebuild
    \/ Others
    \/ Elsewhere
    \/ \E m \in Members : Replicates(m)

Spec == Init /\ [][Next]_vars

\* A watch is sent and its answer read; members apply the log in the end.
FairSpec ==
    /\ Spec
    /\ \A w \in Watchers : WF_vars(Watching(w))
    /\ \A m \in Members : WF_vars(Replicates(m))

-----------------------------------------------------------------------------
(* Properties. *)

Running(w) == pc[w] \in {"send", "wait"} /\ expected[w] = clusterId

Events(from, to) == {i \in from..to : i \in DOMAIN log /\ log[i].rev = i}

\* The generator has yielded every change of the key from its first index to
\* its local_index, in order and once, whatever servers it went through
\* (client.py:733-737).
EveryChangeOnce ==
    \A w \in Watchers : Running(w) =>
        /\ Range(yielded[w]) = Events(first[w], local[w] - 1)
        /\ \A i, j \in DOMAIN yielded[w] : i < j => yielded[w][i] < yielded[w][j]

\* An update that returns was executed once, although it may have been sent
\* again, and replaced the very value that its caller had read, unless the
\* caller still holds an object of a cluster that was replaced
\* (client.py:466-489, 793-849).
UpdatesOnce ==
    \A c \in Updaters :
        outcome[c] = "ok" /\ executed[c] # <<>> /\ Last(executed[c]).op = "update" =>
            \/ Last(executed[c]).read.cluster # clusterId
            \/ Len(executed[c]) = 1
               /\ executed[c][1].version.value = executed[c][1].read.value

\* Every change at or after local_index is yielded, unless the generator ends:
\* it does not get stuck beside an event, however it fails over.
EveryChangeArrives ==
    \A w \in Watchers, i \in 2..MaxIndex :
        (Running(w) /\ local[w] # 0 /\ i \in Events(local[w], MaxIndex)) ~>
            (local[w] > i \/ pc[w] = "ended")
=============================================================================
