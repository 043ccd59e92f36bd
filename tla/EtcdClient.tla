----------------------------- MODULE EtcdClient -----------------------------
(***************************************************************************)
(* The request engine of python-etcd's Client (python-etcd/src/etcd/       *)
(* client.py): which server it talks to, what it does when that server     *)
(* does not answer, and how it notices another cluster.  Every read,       *)
(* write, delete and watch of the library goes through it.                 *)
(*                                                                         *)
(* A name is what a URI calls a server; ServerOf says which server it is.  *)
(* A server is up, or stuck (it has no quorum: it still lists the members  *)
(* but lets a request run into the read timeout), or down.                 *)
(***************************************************************************)
EXTENDS Integers, Sequences, SequencesExt, FiniteSets

CONSTANTS
    Hosts,        \* the names given to the constructor, in order
    Advertised,   \* the names the members list on /machines
    ServerOf(_),  \* name -> server
    Servers,
    Modes,        \* "cluster": allow_reconnect, "proxies": with use_proxies,
                  \* "single": neither, and one host
    Statuses,     \* the states a server may change to
    MaxChanges,   \* bound: changes of a server or of the cluster
    MaxLost       \* bound: answers lost on the way

Names == Range(Hosts) \cup Advertised

ASSUME ClientAssumption ==
    /\ Hosts \in Seq(Range(Hosts)) /\ Hosts # <<>>
    /\ Advertised # {} /\ IsFiniteSet(Advertised)
    /\ \A i, j \in DOMAIN Hosts : Hosts[i] = Hosts[j] => i = j
    /\ \A n \in Names : ServerOf(n) \in Servers
    /\ Modes \subseteq {"cluster", "proxies", "single"}
    /\ Statuses \subseteq {"up", "stuck", "down"}
    /\ MaxChanges \in Nat /\ MaxLost \in Nat

VARIABLES
    status,     \* of each server
    cluster,    \* the id the servers put into X-Etcd-Cluster-ID
    changes, lost,  \* bounded counters
    mode,       \* how the client was constructed
    base,       \* _base_uri
    cache,      \* _machines_cache
    expected,   \* expected_cluster_id, 0 for None
    pc,         \* "init", "idle", "send", "refresh", "unusable"
    kind,       \* of the request: "read", "watch", "append"
    failed,     \* some_request_failed
    answered,   \* the request has its response
    outcome,    \* how the last request ended: "ok" or the exception
    unreached,  \* history: servers that failed since the request began
    complete,   \* history: base and cache covered all members when it began
    trusted     \* history: the cluster of the last response that was accepted
                \* since EtcdClusterIdChanged was raised, or 0

world == <<status, cluster, changes, lost>>
link == <<mode, base, cache, expected>>
request == <<kind, failed, answered, outcome, unreached, complete>>
vars == <<world, link, pc, request, trusted>>

Outcomes == {"none", "ok", "EtcdConnectionFailed", "EtcdException",
             "EtcdWatchTimedOut", "EtcdClusterIdChanged", "ValueError"}

TypeOK ==
    /\ status \in [Servers -> {"up", "stuck", "down"}]
    /\ cluster \in Nat /\ changes \in 0..MaxChanges /\ lost \in 0..MaxLost
    /\ mode \in Modes
    /\ base \in Names
    /\ cache \in Seq(Names)
    /\ expected \in Nat /\ trusted \in Nat
    /\ pc \in {"init", "idle", "send", "refresh", "unusable"}
    /\ kind \in {"read", "watch", "append"}
    /\ failed \in BOOLEAN /\ answered \in BOOLEAN /\ complete \in BOOLEAN
    /\ outcome \in Outcomes
    /\ unreached \subseteq Servers

Here == status[ServerOf(base)]
Known == {ServerOf(n) : n \in {base} \cup Range(cache)}
Members == {ServerOf(n) : n \in Advertised}

\* Mutant of Without: the name stays.
WithoutNothing(names, n) == names

\* cache.remove(name) drops the first occurrence, or raises ValueError.
Without(names, n) == RemoveAt(names, CHOOSE i \in DOMAIN names :
                         names[i] = n /\ \A j \in 1..(i - 1) : names[j] # n)

Init ==
    /\ status \in [Servers -> Statuses]
    /\ cluster = 1 /\ changes = 0 /\ lost = 0
    /\ mode \in Modes
    /\ base = Head(Hosts)
    /\ cache = IF mode = "single" THEN <<>> ELSE Tail(Hosts)
    /\ expected = 0 /\ trusted = 0
    /\ pc = IF mode = "cluster" THEN "init" ELSE "idle"
    /\ kind = "read" /\ failed = FALSE /\ answered = FALSE
    /\ outcome = "none" /\ unreached = {} /\ complete = FALSE

-----------------------------------------------------------------------------
(* The property `machines', one server at a time.                          *)

\* Mutant of MachinesRetry: the server that failed is put back.
MachinesRetryRotates ==
    /\ Here = "down"
    /\ cache # <<>>
    /\ base' = Head(cache)
    /\ cache' = Append(Tail(cache), base)
    /\ unreached' = unreached \cup {ServerOf(base)}

\* The server does not answer: take the first of the cache, call myself.
MachinesRetry ==
    /\ Here = "down"
    /\ cache # <<>>
    /\ base' = Head(cache)
    /\ cache' = Tail(cache)
    /\ unreached' = unreached \cup {ServerOf(base)}

\* Mutant of MachinesGivesUp: does not look into the cache.
MachinesGivesUpAtOnce ==
    /\ Here = "down"
    /\ unreached' = unreached \cup {ServerOf(base)}
    /\ UNCHANGED <<base, cache>>

MachinesGivesUp ==
    /\ Here = "down"
    /\ cache = <<>>
    /\ unreached' = unreached \cup {ServerOf(base)}
    /\ UNCHANGED <<base, cache>>

\* The list of the members, in whatever order they put it.
MachinesAnswers(names) ==
    /\ Here # "down"
    /\ names \in SetToSeqs(Advertised)
    /\ UNCHANGED <<base, unreached>>

-----------------------------------------------------------------------------
(* __init__, with allow_reconnect and without use_proxies.                 *)

Construct ==
    /\ pc = "init"
    /\ \/ /\ MachinesRetry
          /\ UNCHANGED <<pc, outcome>>
       \/ /\ MachinesGivesUp
          /\ pc' = "unusable" /\ outcome' = "EtcdException"
       \/ /\ \E names \in SetToSeqs(Advertised) : MachinesAnswers(names)
          \* set(_machines_cache) is taken before `machines' shortens it
          /\ cache' \in SetToSeqs(
                 (Range(Tail(Hosts)) \cup Advertised) \ {base})
          /\ pc' = "idle"
          /\ UNCHANGED outcome
    /\ UNCHANGED <<world, mode, expected, kind, failed, answered, complete, trusted>>

-----------------------------------------------------------------------------
(* api_execute under _wrap_request.                                        *)

Begin(k) ==
    /\ pc = "idle"
    /\ pc' = "send"
    /\ kind' = k
    /\ failed' = FALSE /\ answered' = FALSE
    /\ outcome' = "none"
    /\ unreached' = {}
    /\ complete' = (Members \subseteq Known)
    /\ UNCHANGED <<world, link, trusted>>

Ends(how) == pc' = "idle" /\ outcome' = how

\* _check_cluster_id: the new id is recorded, so that this is raised once.
OtherCluster ==
    /\ pc = "send"
    /\ Here = "up"
    /\ expected # 0 /\ expected # cluster
    /\ expected' = cluster
    /\ Ends("EtcdClusterIdChanged")
    /\ trusted' = 0
    /\ UNCHANGED <<world, mode, base, cache, kind, failed, answered, unreached, complete>>

\* Mutant of Answer: nobody compares the cluster ids.
AnswerUnchecked ==
    /\ pc = "send"
    /\ Here = "up"
    /\ expected' = cluster
    /\ trusted' = cluster
    /\ answered' = TRUE
    /\ IF failed THEN pc' = "refresh" /\ UNCHANGED outcome ELSE Ends("ok")
    /\ UNCHANGED <<world, mode, base, cache, kind, failed, unreached, complete>>

\* The response is complete.  After a failure the list of the members is
\* refreshed before the response is handed out.
Answer ==
    /\ pc = "send"
    /\ Here = "up"
    /\ expected \in {0, cluster}
    /\ expected' = cluster
    /\ trusted' = cluster
    /\ answered' = TRUE
    /\ IF failed THEN pc' = "refresh" /\ UNCHANGED outcome ELSE Ends("ok")
    /\ UNCHANGED <<world, mode, base, cache, kind, failed, unreached, complete>>

\* A watch that gets no event, or no answer, within read_timeout.
WatchTimesOut ==
    /\ pc = "send"
    /\ kind = "watch"
    /\ Here # "down"
    /\ Ends("EtcdWatchTimedOut")
    /\ UNCHANGED <<world, link, kind, failed, answered, unreached, complete, trusted>>

\* No connection, no response in time, or the response is lost.
NoResponse ==
    /\ pc = "send"
    /\ \/ /\ Here = "down" \/ (Here = "stuck" /\ kind # "watch")
          /\ UNCHANGED <<lost, expected>>
       \/ /\ Here = "up" /\ lost < MaxLost
          /\ lost' = lost + 1
          \* the headers may have come, and with them the first cluster id
          /\ expected' \in {expected, IF expected = 0 THEN cluster ELSE expected}
    /\ unreached' = unreached \cup {ServerOf(base)}
    /\ UNCHANGED <<status, cluster, changes, mode, kind, answered, complete, trusted>>

\* Mutant of GiveUp: the exception of urllib3 goes to the caller as it is.
GiveUpRaw ==
    /\ NoResponse
    /\ cache = <<>>
    /\ Ends("MaxRetryError")
    /\ UNCHANGED <<base, cache, failed>>

\* _next_server has nothing left, or reconnection is not allowed.
GiveUp ==
    /\ NoResponse
    /\ cache = <<>>
    /\ Ends("EtcdConnectionFailed")
    /\ UNCHANGED <<base, cache, failed>>

\* _next_server takes the last of the cache.  With proxies the list is not
\* refreshed, and the name just taken cannot be removed from it once more.
FailOver ==
    /\ NoResponse
    /\ cache # <<>>
    /\ base' = Last(cache)
    /\ cache' = Front(cache)
    /\ failed' = TRUE
    /\ IF mode = "proxies"
       THEN Ends("ValueError")
       ELSE pc' = "refresh" /\ UNCHANGED outcome

\* _machines_cache = machines, then remove(_base_uri); the loop ends with the
\* response, or sends the request again.
Refresh ==
    /\ pc = "refresh"
    /\ mode = "cluster"
    /\ \/ /\ MachinesRetry
          /\ UNCHANGED <<pc, outcome>>
       \/ /\ MachinesGivesUp
          /\ Ends("EtcdException")
       \/ \E names \in SetToSeqs(Advertised) :
             /\ MachinesAnswers(names)
             /\ IF base \in Range(names)
                THEN /\ cache' = Without(names, base)
                     /\ IF answered THEN Ends("ok")
                                    ELSE pc' = "send" /\ UNCHANGED outcome
                ELSE /\ cache' = names
                     /\ Ends("ValueError")
    /\ UNCHANGED <<world, mode, expected, kind, failed, answered, complete, trusted>>

-----------------------------------------------------------------------------
(* The servers. *)

ServerChanges(s, x) ==
    /\ changes < MaxChanges
    /\ status[s] # x
    /\ changes' = changes + 1
    /\ status' = [status EXCEPT ![s] = x]
    /\ UNCHANGED <<cluster, lost, link, pc, request, trusted>>

ClusterChanges ==
    /\ changes < MaxChanges
    /\ changes' = changes + 1
    /\ cluster' = cluster + 1
    /\ UNCHANGED <<status, lost, link, pc, request, trusted>>

Client ==
    \/ Construct
    \/ OtherCluster
    \/ Answer
    \/ WatchTimesOut
    \/ GiveUp
    \/ FailOver
    \/ Refresh

Next ==
    \/ Client
    \/ \E k \in {"read", "watch", "append"} : Begin(k)
    \/ \E s \in Servers, x \in Statuses : ServerChanges(s, x)
    \/ ClusterChanges

\* Timeouts bound every step of the client; nobody has to make a request.
Spec == Init /\ [][Next]_vars
FairSpec == Spec /\ WF_vars(Client)

-----------------------------------------------------------------------------
(* Properties. *)

\* Between two attempts the cache never holds the name in use, so that a
\* fail-over goes to another name: pop, the refresh and remove agree, wherever
\* `machines' itself failed over in between (client.py:205-209, 845-849).  The
\* code compares names only: a server known under two of them (client.py:198)
\* may be tried again under its other one.
SpareIsAnotherName ==
    pc \in {"idle", "send"} => base \notin Range(cache)

\* A caller never gets two answers from different clusters without an
\* EtcdClusterIdChanged in between, however many fail-overs, lost answers and
\* watches lie between them (client.py:800, 897-913).
ClusterChangeIsAnnounced ==
    [][trusted # 0 => trusted' \in {0, trusted}]_vars

\* A request gives up only after every member failed to answer it, provided
\* that the client knew all members when it began (client.py:764-776,
\* 820-849, 293-306).
GivesUpOnlyAfterTryingAll ==
    /\ pc = "idle" /\ mode = "cluster" /\ complete
    /\ outcome \in {"EtcdConnectionFailed", "EtcdException"}
    => Members \subseteq unreached

\* Every request returns as long as each server either answers or is down,
\* and its retries end (client.py:793-849).
InFlight == pc \in {"send", "refresh"}
SomeStuck == \E s \in Servers : status[s] = "stuck"

RequestReturns == InFlight ~> (~InFlight \/ SomeStuck)

\* Every request returns: "_next_server() raises EtcdException if there are no
\* machines left to try, breaking out of the loop" (client.py:823-824).
RetriesEnd == InFlight ~> ~InFlight
=============================================================================
