----------------------------- MODULE EtcdStore -----------------------------
(***************************************************************************)
(* The etcd v2 store that holds the service registry.  etcd is not part of *)
(* the repository: the module states what acshaproxy and python-etcd rely  *)
(* on when they read a directory recursively, watch it from an index, and  *)
(* look at the X-Etcd-Index and X-Etcd-Cluster-ID headers of a response.   *)
(*                                                                         *)
(* A cluster executes writes in one order, its log; a member has applied a *)
(* prefix of it and answers from that prefix.  The directory of interest,  *)
(* /<cluster>/registry/services, is one value per index: a snapshot, or    *)
(* NoRegistry when the directory does not exist.                           *)
(***************************************************************************)
EXTENDS Integers, Sequences

CONSTANTS
    Members,      \* the servers of the cluster
    Snapshots,    \* the contents the registry directory may have
    NoRegistry,   \* the directory does not exist
    MaxIndex,     \* bound: writes per cluster
    HistorySize,  \* events a member remembers (1000 in etcd v2)
    MaxCluster    \* bound: clusters that replace one another

ASSUME StoreAssumption ==
    /\ NoRegistry \notin Snapshots
    /\ MaxIndex \in Nat \ {0}
    /\ HistorySize \in Nat \ {0}
    /\ MaxCluster \in Nat \ {0}

Contents == Snapshots \cup {NoRegistry}

VARIABLES
    clusterId,   \* the X-Etcd-Cluster-ID of the cluster now in place
    log,         \* log[i]: the directory after write i, and the last write
                 \* not after i that touched the directory
    applied,     \* applied[m]: the index member m answers from
    published    \* history: every content the directory has had

storeVars == <<clusterId, log, applied, published>>

LogEntry == [services : Contents, rev : Nat]

StoreTypeOK ==
    /\ clusterId \in 1..MaxCluster
    /\ log \in Seq(LogEntry)
    /\ applied \in [Members -> Nat]
    /\ published \subseteq Contents

-----------------------------------------------------------------------------
(* What a client can ask a member. *)

Latest == log[Len(log)]
Current == Latest.services

\* The directory as member m sees it, and the index of that answer.
StateAt(m) == log[applied[m]].services
IndexAt(m) == applied[m]

\* The oldest event member m still remembers is max(1, applied - size + 1).
Cleared(m, index) == index + HistorySize <= applied[m]

\* The first event on the directory, at or after index, that m has applied.
IsFirstEvent(m, index, i) ==
    /\ i \in index..applied[m]
    /\ log[i].rev = i
    /\ \A j \in index..(i - 1) : log[j].rev # j

HasEvent(m, index) == \E i \in index..applied[m] : log[i].rev = i

-----------------------------------------------------------------------------
(* What the rest of the world does to the store. *)

FreshLog(s) == <<[services |-> s, rev |-> IF s = NoRegistry THEN 0 ELSE 1]>>

StoreInit ==
    /\ clusterId = 1
    /\ \E s \in Contents : log = FreshLog(s) /\ published = {s}
    /\ applied = [m \in Members |-> 1]

\* The agents of the platform write, rewrite or remove the registry.
WriteRegistry(s) ==
    /\ Len(log) < MaxIndex
    /\ s = NoRegistry => Current # NoRegistry
    /\ log' = Append(log, [services |-> s, rev |-> Len(log) + 1])
    /\ published' = published \cup {s}
    /\ UNCHANGED <<clusterId, applied>>

\* A write elsewhere in the key space only moves the index.
WriteElsewhere ==
    /\ Len(log) < MaxIndex
    /\ log' = Append(log, Latest)
    /\ UNCHANGED <<clusterId, applied, published>>

Replicate(m) ==
    /\ applied[m] < Len(log)
    /\ applied' = [applied EXCEPT ![m] = @ + 1]
    /\ UNCHANGED <<clusterId, log, published>>

\* The cluster is rebuilt: another id, indices that start over.
ReplaceCluster(s) ==
    /\ clusterId < MaxCluster
    /\ clusterId' = clusterId + 1
    /\ log' = FreshLog(s)
    /\ applied' = [m \in Members |-> 1]
    /\ published' = published \cup {s}

Environment ==
    \/ \E s \in Contents : WriteRegistry(s)
    \/ WriteElsewhere
    \/ \E s \in Contents : ReplaceCluster(s)

StoreNext == Environment \/ \E m \in Members : Replicate(m)
=============================================================================
