# acs-proxy: formal models

TLA+ models of `acs/proxy` (directory `src/acshaproxy`) and of the etcd client
it carries (`src/python-etcd`), model-checked with TLC and, for the core,
proved with TLAPS.

## 1. The system

acs/proxy is one process in a container. It waits for changes of a directory
of etcd, the *service registry*, and keeps a HAProxy configured after it.

    platform agents --write--> etcd members <--watch, read-- acs/proxy --file, reload--> HAProxy

| component | state | operations | what makes it correct |
|---|---|---|---|
| listener (`main.py`, `registry/events.py`, `registry/etcd_info.py`, `acshaproxycfg.py`) | `wait_index`, the etcd client, `Haproxy.cls_cfg`, `cls_certs`, the file, the running HAProxy | watch, re-read, second re-read through another client, update | no change of the registry is lost; HAProxy ends up with the current registry and never serves a mixture; what is in memory is what is running |
| links (`etcd_info.py`, `acs_link_helper.py`, the filter in `acshaproxycfg.py`) | of one call: the generators, the services found, the links | parse, filter, endpoints | exactly the healthy containers of the services that ask for it get traffic; a service that does not ask for the proxy does no harm if its documents and labels have the right shape |
| request engine of python-etcd (`client.py`) | `_base_uri`, `_machines_cache`, `expected_cluster_id` | construct, `machines`, request, fail-over, refresh | a fail-over goes to another name than the one in use; all servers are tried before giving up; requests return; a replaced cluster is announced |
| lock of python-etcd (`lock.py`) | uuid, sequence, `is_taken`; the queue in etcd | acquire, release, is_acquired, watch the predecessor | mutual exclusion, one entry per lock, nobody waits for ever |
| operations of python-etcd (`client.py`, `__init__.py`) | the `EtcdResult` a caller holds, the `local_index` of a generator; the key in etcd | read, conditional writes, update, test_and_set, delete, pop, `eternal_watch`; the walk through a tree of nodes; exceptions | an update is executed once and replaces what its caller has read; a generator yields every change once, in order, and does not get stuck |
| auth of python-etcd (`auth.py`) | an `EtcdUser` or `EtcdRole` object per administrator, the switch; the entity in etcd | edit, read, write in several requests, delete, `active` | a write brings about what the object says; concurrent writers overwrite one another, but not where they agree |
| etcd itself (external) | log, applied index per member, event history | | what the code relies on |
| dockercloud-haproxy (external) | | renders the configuration, reloads | `Haproxy.update` calls `_config_ssl`, then `_update_haproxy` |

Components interact by calls: `run_forever` -> `watch_prefix` ->
`Client.read` -> `_wrap_request`; the handler -> `run_haproxy` -> `AcsHaproxy()`
-> a *new* `Client` -> `get_acs_links` -> `Haproxy.update`. There is no second
thread: what runs concurrently is the store, its members, the servers' failures,
the signals and the end of the process. The hard behaviours are therefore

* the registry changing between the watch, the re-read and the second re-read,
  each of which may be answered by another member, or another cluster;
* events dropped by a failing re-read, healed by nothing but the next event or
  the 600 s timeout of the watch;
* exceptions: which of them the code catches, and what has been assigned before;
* signals and crashes at an arbitrary point, followed by a restart;
* fail-over: two lists of servers, one of which the other one replaces while
  both shrink;
* in the lock, other clients and the ttl act between any two requests of a call,
  and an append may be executed although its caller hears of a failure;
* a request that had no answer is sent to another server, whether it was executed
  or not: an update may come twice, a watch goes on at a member that has applied
  less;
* a user or role is written in several requests, computed from one read.

`PROJECT.json` lists these hazards one by one, with the line where each bites
and the property that covers it.

## 2. Modules

| module | models | kind |
|---|---|---|
| `EtcdStore` | etcd as the code sees it | external component, state and actions |
| `ConfigSync` | what the listener promises | abstract specification |
| `AcsProxy` | the listener, over `EtcdStore` | specification and properties |
| `AcsProxyProofs` | | theorems about `AcsProxy` |
| `AcsRegistry` | the registry as documents: which are unreadable, which raise, and the links of the others | pure operators, the reference |
| `EtcdResult` | the tree of nodes a recursive read returns, and the generator that walks through it | pure operators |
| `AcsLinks` | parsing, filter, links, over `EtcdResult` | specification and properties |
| `AcsLinksProofs` | | theorems about `AcsLinks` |
| `EtcdClient` | the request engine | specification and properties |
| `EtcdClientProofs` | | theorems about `EtcdClient` |
| `TicketLock` | what the lock recipe promises without a ttl | abstract specification |
| `EtcdLock` | the lock recipe | specification and properties |
| `EtcdLockProofs` | | theorems about `EtcdLock` |
| `EtcdErrors` | which exception an answer becomes, which `except` takes it | pure operators |
| `EtcdKeys` | the operations on a key, over `EtcdStore` and `EtcdErrors` | specification and properties |
| `EtcdKeysProofs` | | theorems about `EtcdKeys` |
| `EtcdAuth` | users, roles and the switch, over `EtcdErrors` | specification and properties |
| `EtcdAuthProofs` | | theorems about `EtcdAuth` |
| `MCAcsProxy`, `MCAcsLinks`, `MCEtcdClient`, `MCEtcdLock`, `MCEtcdKeys`, `MCEtcdAuth` | | instances for TLC |

Operators whose comment says *Mutant of X* are deliberately wrong versions of X;
no specification uses them. They show that a property depends on the code.

### 2.1 EtcdStore

`log[i]` is the content of the registry directory after write `i`, and the last
write up to `i` that touched the directory (`rev`). `applied[m]` is the index up
to which member `m` has applied the log: a plain GET is answered from there
(the code never asks for quorum reads) and the answer's `X-Etcd-Index` is that
index. `Cleared` is error 401: a member remembers `HistorySize` events (1000 in
etcd). `ReplaceCluster` is a rebuilt cluster: another id, indices starting over.
`published` is a history variable, everything the directory ever held.

### 2.2 AcsProxy

`pc` says which call of the loop comes next: `watch` (`watch_prefix`),
`refetch` (`get_services_info` in `run_forever`), `links` (the constructor of
`AcsHaproxy`, which reads again), `update` (`Haproxy.update`), `down` (the
process does not run). One action is one call with one outcome:

| action | code |
|---|---|
| `Boot`, `BootFails` | `get_etcd_client` at the head of `run_forever` |
| `FirstRead`, `FirstReadFindsNoKey` | `watch_prefix` with index 0 |
| `WatchEvent`, `WatchCleared`, `WatchTimesOut`, `WatchMeetsOtherCluster`, `WatchFails` | `watch_prefix` with an index: the event, and each `except` clause |
| `Refetch`, `RefetchUnreadable`, `RefetchMeetsOtherCluster`, `RefetchFails` | the re-read, and the exceptions it drops |
| `InitLinks`, `InitLinksUnreadable`, `InitLinksFails`, `InitLinksRaises` | `_init_acs_links`: links, legacy links, or an exception outside of the `try` |
| `UpdateConfig`, `UpdateConfigSaveFails`, `UpdateCerts`, `UpdateNothing` | the branches of `_update_haproxy` |
| `SigtermSwallowed`, `SigtermEnds`, `Crash` | `sys.exit` called with two arguments, SIGKILL |

`Die` resets what lives in the process and stops HAProxy, which runs in the same
container; the configuration file stays. `expected` is the client's
`expected_cluster_id`: a watch or a re-read that meets another cluster records
the new id and raises, once. The client of the second re-read is new: it starts
at the first server of `ETCD_NODES` (`Primary`) and expects no id. `synced` is a
history variable: the last result of a watch was followed by an update that came
from the registry.

The registry's content is abstract: `ParseFails` and `LinkFails` say what an
exception comes from, `Cfg` and `Certs` what HAProxy gets. `MCAcsProxy` gives
them their values by writing the registries as the documents etcd holds: what
`AcsRegistry` says of them is what `AcsLinks` is proved to compute.

### 2.3 AcsRegistry, EtcdResult and AcsLinks

`AcsRegistry` speaks of the registry as a whole. `Unreadable`: some document has the
wrong shape. `Raises`: some service is `Unlinkable`, by its labels, its names or a
container without a name. `LinksOf`: by container id, the link of the last place
`<<service, container>>` that serves under this id. A service without any port
serves nowhere: there is no endpoint, and no link is assigned.

A node of etcd is a file or a directory with its nodes; its key is the sequence
of the parts between slashes. `get_subtree` is a recursive generator. `EtcdResult`
represents a suspended one by the sequence of the nodes it has still to go into:
`Resume` takes the first off and puts its children before the rest, which yields a
directory before what is below it. With `leaves_only` the nodes that have children
are gone into and not yielded (`IsLeaf`).

`AcsLinks` is the code that gets from the tree to the links, one node or container a
step; three generators are open at a time:

| action | code |
|---|---|
| `EnterService`, `SkipNode`, `ServiceParsed`, `ServicesParsed` | `parse_services`, over `walk`; it goes on below a service that it has handed to `parse_service`, and skips what it finds there by the number of parts of the key |
| `VisitInfo`, `VisitContainers`, `VisitOther` | `parse_service`, over `visit`; the files below `containers` come by once more and are passed |
| `ParseContainer`, `EnterDirectory`, `ContainersParsed` | the loop over `tree.leaves`, over `leaves` |
| `LinkContainer`, `ServiceLinked`, `Linked` | the loops of `get_acs_links` |
| `LabelsRaise`, `ContainerRaises` | its exceptions |

Text that is no JSON is left out by the `except` clause; JSON of the wrong shape
escapes it (`Escapes`) and ends the call as `unparsed`, which `AcsProxy` has as
`ParseFails`; an exception of `get_acs_links` ends it as `raised`, `LinkFails`. The
nodes of a directory come in any order: `infoFirst`.

### 2.4 EtcdClient

`base` and `cache` are `_base_uri` and `_machines_cache`, by name; `ServerOf`
maps names to servers, so that a server may have two names. The code compares
names: `SpareIsAnotherName` says that the one in use is never spare, and a server
with two of them may be tried again under its other one. `Begin` is the
caller; `Answer`, `OtherCluster`, `WatchTimesOut`, `GiveUp` and `FailOver` are
the outcomes of one turn of the loop in `_wrap_request`; `Refresh` is one turn of
the property `machines` called at its end, `Construct` the same in the
constructor. A `stuck` server has lost its quorum: it lists the members and lets
everything else run into the timeout. `unreached`, `complete` and `trusted` are
history variables.

### 2.5 EtcdLock

The queue in etcd is `queue`, from keys to the lock (its uuid) that wrote them;
keys are numbers, since etcd pads them to one length. `pc` names the next request
of each Lock, and one action is that request with what the code does until the
next one:

| action | code |
|---|---|
| `Acquire`, `FindLock` | `acquire`, `_find_lock`: by `_sequence` if there is one, else by the uuid |
| `Append`, `Renew` | the two writes of `acquire`; the renewal creates an entry that is gone |
| `GetLocker` | `_get_locker` and what `_acquired` does with it: taken, not taken, or on to the watch |
| `Watch`, `WatchAgain` | the `while` loop of `_acquired` |
| `Release`, `FindKey`, `Delete`, `IsAcquired` | `release`, `is_acquired` |
| `AppendAnswerLost`, `AppendResent`, `RenewAnswerLost`, `RequestFails` | the request raises, executed or not; `_wrap_request` may send an append twice |
| `Expire` | the ttl |

`_acquired` calls itself inside of its own `try`: what a later round raises,
`EtcdLockExpired` included, is swallowed by the round before, which watches its
key again (`LockerRaises`; `watchKey` is 0 in the first round). `acquire` is
called with one kind of ttl in a behaviour, and either always with
`blocking=False` or anyhow. The clients talk to one server. A member that lags
only shows entries that are deleted already, since a client reads its own append
and so everything before it; a fail-over to a member that has not applied the
client's own append is left out. `revived` and `orphaned` are history variables
for what the recipe cannot handle.

`TicketLock` is the queue without its traffic: clients draw tickets, the oldest
ticket is served when nobody is, and a client that leaves may give its ticket back.
`ServesInOrder` maps `queue` to the tickets and the locks with `is_taken` to those
served.

### 2.6 EtcdErrors

`Base` is the class tree of the exceptions, `Catches` what an `except` clause
takes, `ErrorExceptions` the table from etcd's codes to classes, and `Handle`
`EtcdError.handle`, where the statuses 404 and 401 outrank the code of the body.
`EtcdKeys` and `EtcdAuth` get the exceptions of their answers from here.

### 2.7 EtcdKeys

The store is that of `EtcdStore`, the directory of the registry being one key. A
read or a watch is answered by the client's member from what it has applied; a
write is executed at the end of the log. Of the request engine, which
`EtcdClient` has in detail, this module keeps what its callers see: the cluster
id that is compared after the request was executed, and a request without answer
that goes to another member or raises.

| action | code |
|---|---|
| `Read` | `read`, `get`: the caller's object, or what it had if the call raises |
| `Create`, `TestAndSet`, `Update`, `Delete` | the request of `write` with `prevExist=False`, `test_and_set`, `update`, `delete` or `pop` with a `prevIndex`; writes without a condition are `Others` |
| `Answer`, `NoAnswer` | the two ends of a turn of `_wrap_request` |
| `EternalWatch`, `WatchSend`, `WatchYield`, `WatchFails` | `eternal_watch`: started with no index or one from a read, the request, the event, a lost server |

`Verdict` is what etcd makes of the conditions. `executed` and `first` are
history variables; `obj` remembers the cluster an index comes from.

### 2.8 EtcdAuth

All administrators edit one user or one role. A permission is a role of a user,
or a path with "R" or "W" of a role. `Edit` and its uses are the setters of the
objects, `Write` is the read of `write` with the payloads computed from it
(`UserToNet`, `RoleToNet`), `Send` one of these payloads with its answer, which
replaces what the object holds (`FromNet`). `RequestFails` and `AnswerLost` end
the call, or send the payload again. `Delete` and `SetActive` are the other
calls. `strict` says whether etcd refuses a grant of what is granted, and the
like: which version does is not for this code to say, so both are checked. `given`
is what etcd gives the entity of itself: the tests write user root without roles
before each test and then read the role `root` (`test_auth.py:11-13`, `49`), so that
`Stored` keeps `RootRole` with this user, whatever is requested, and both properties
say so. `SetActiveCannotRead` is a setter of `active` that fails at its first
request. Errors of this API carry no `errorCode`. `want` and `alone` are history variables.

## 3. Runs

| run | specification | asks | instance |
|---|---|---|---|
| `ListenerSafety` | `PromptSpec` | `TypeOK`, `NoLostWakeup`, `ConvergesPromptly` | 1 server, registries `before`, `moved`, `noid` (unparsable), `unnamed` (raises) or none, 3 writes per cluster, history of 1, 2 clusters, 1 fault: request, save, SIGTERM or crash |
| `ListenerLive` | `FairSpec` | `MemoryIsTruth`, `ServesOneRegistry`, `Converges` | 2 servers, `before`, `moved` (other address), `renewed` (other certificate) or none, 2 writes per cluster, 2 clusters, 1 fault: request, fail-over, SIGTERM or crash |
| `Links` | `Spec` | `LinksAreServingContainers`, `FailsOnBadDocuments`, `RaisesAtFirstUnlinkable` | every registry of up to 2 services with up to 2 containers from 10 info and 6 container documents, info before or after containers |
| `ClientFailover` | `FairSpec` | `TypeOK`, `SpareIsAnotherName`, `GivesUpOnlyAfterTryingAll`, `ClusterChangeIsAnnounced`, `RequestReturns` | 3 servers, one under an alias, the three modes of the client, 3 changes, 1 lost answer |
| `Lock` | `FairSpec` | `TypeOK`, `Exclusion`, `OneEntryPerLock`, `ServesInOrder`, `PollersAcquire` | 2 locks, 3 appends, with and without ttl, polling callers and any callers, 1 fault |
| `Keys` | `FairSpec` | `TypeOK`, `EveryChangeOnce`, `UpdatesOnce`, `EveryChangeArrives` | one updater or one generator, 2 members, 2 values or no key, 3 writes per cluster, history of 1, 2 clusters, 2 writes of the updater, 1 lost request or answer |
| `Auth` | `Spec` | `TypeOK`, `WriteTakesEffect`, `AgreementPrevails` | 2 administrators (symmetric), user root or another user with 2 roles, or a role with 1 path, a lenient or a strict server, 3 calls, 1 fault |
| `SaveFailure`, `ForeignIndex` | `FairSpec`, `Spec` | one property each, violated | smallest instance of `AcsProxy` that shows it |
| `StuckServers` | `FairSpec` | `RetriesEnd`, violated | `MCEtcdClient` |
| `LockWakeup`, `LockRenewal` | `FairSpec`, `Spec` | `BlockingCallsEnd`, `MutualExclusion`, violated | 2 locks, no fault |

**Bounds.** `MaxIndex` (writes per cluster), `MaxCluster`, `MaxFaults`,
`HistorySize` and, in `EtcdClient`, `MaxChanges` and `MaxLost` bound what the
world does, never what the code does. Three writes and a history of one are the
least with which an event is reported, another one follows between the two
re-reads, and the event after it is forgotten before the watch; two clusters
allow an index of the old one to lie beyond the log of the new one; one fault
strikes in any state. In `EtcdClient` three changes are enough to take down all
three servers, or to take down two and bring one back. In `EtcdLock` the third
append is that of a lock that comes back after its entry was deleted or expired;
with three locks the invariants were explored too (under symmetry, 938,000
states), the liveness property was not. In `Keys` other writers are in the store
(`Others`), so that one client meets every interleaving; three writes let another
one come before an update and after it, and let a value return that was there
before. In `Links` two services can list one container, two containers give the loops
a state to get wrong, and with two services the order of the nodes varies in the
second. In `Auth` three calls are a write of each administrator and a deletion, or
a second write; a user's write has up to three payloads.

**Fairness.** `FairSpec` of `AcsProxy` assumes that the process goes on
(`run_forever` loops, every request has a timeout, and README.md of the
repository starts the container with `restart: always`) and that a member
applies the log in the end. Nothing is assumed about writes, faults, or the
order in which members answer. `WatchTimesOut` belongs to `Listen`, whose
fairness makes a watch without events time out: 600 s pass. `PromptSpec` drops
this help. `FairSpec` of `EtcdClient` assumes that a turn of the client ends,
which its timeouts do. `FairSpec` of `EtcdLock` assumes that a call that has
begun goes on, and of the callers what a lock needs: who holds it releases it,
and who does not hold it asks again. These two are strong fairness, for the
requests of a call keep its caller from the next one. `FairSpec` of `EtcdKeys`
assumes that a watch is sent and an event that is there is read, and that members
apply the log; nothing is assumed of callers, writers and faults.

**Deadlock.** The client may be unusable after
its construction, or its servers may have used up `MaxChanges` while it idles:
this run does not check for deadlock; neither do those of the lock, whose last
state is one where `MaxKey` appends are used up, and `Keys` and `Auth`, which end
where the calls are used up or a generator has raised. The listener's runs do, and `Links`, where only a call that is over may stay as it is.

### Disagreements found

The five runs that end in a violation are disagreements between the code and
what the repository says of it: `PROJECT.json` has the lines and the quotations.

* `SaveFailure`: a failed save is never retried.
* `ForeignIndex`: an index of a replaced cluster is waited on.
* `StuckServers`: a request may be retried for ever.
* `LockWakeup`: a blocking `acquire` misses the release that makes it the owner.
  In the trace the lock that is first in the queue watches a key that is gone,
  and the second one watches the first: both wait for ever.
* `LockRenewal`: the renewal of an entry that has just expired takes the lock
  from its new owner, and both answer that they have acquired it.

The models also have behaviours that no run singles out, because a simpler
condition excludes them from a property that holds:

* `NoLostWakeup` is claimed for one server: the second re-read goes to the first
  server of `ETCD_NODES` without quorum, and a member that lags may give a
  registry older than the one already served.
* `GivesUpOnlyAfterTryingAll` is claimed if the client knew all members when the
  request began (`complete`): an outage of all servers leaves `_machines_cache`
  empty, and later requests give up beside servers that are up again.
* `FailOver` ends in `ValueError` with `use_proxies`: the name that was just
  taken from the list cannot be removed from it again.
* `OneEntryPerLock` is claimed unless `orphaned`: a Lock that is used again looks
  for its old `_sequence` only, so that an append whose answer was lost stays in
  the queue; so does one that `_wrap_request` sent twice.
* `Exclusion` with a ttl is claimed without `revived` and without faults:
  `is_taken` keeps its old value when a renewed `acquire` raises after its append.

* `FirstReadFindsNoKey`: the log line of the clause for a missing registry
  (`etcd_info.py:139`) formats two placeholders with one value and raises
  `TypeError`, which ends the process; the next one finds the same until the
  directory is there.
* `UpdatesOnce` is claimed unless the caller holds an object of another cluster: the
  write is executed before its answer tells of the new cluster, and replaces
  whatever has the same index there. It is claimed of updates that return: one
  that was executed, lost its answer and was sent again is told
  `EtcdCompareFailed`.
* It is claimed of `update`, not of `test_and_set`, which compares values: sent
  again after its answer was lost, it is executed twice if the old value has
  returned.
* `EveryChangeOnce` begins at `first`: a generator without an index lets each server
  choose where it begins until it has yielded once, so that a fail-over before that
  leaves out what the next server applied earlier.
* `WriteTakesEffect` is claimed of writes that return. One that failed half-way has
  replaced the object by etcd's answer to the payloads before, so that its
  repetition no longer knows what was wanted.
* A `write` whose first read raises keeps the password in the object, although the
  comment at `auth.py:122-123` does not want it to (`WriteCannotRead`); `str` of a
  user blanks it (`Str`), and a write after that leaves the old password.
* `DeleteRaises`: the generic clause of `delete` looks up `self._base_uri`, which an
  `EtcdUser` does not have, and ends in `AttributeError`.

What holds in spite of these: `Converges` holds with one fault of any other kind,
because a watch that times out starts over with a plain read, and a process
that ends is started again; the index of another cluster is waited on for one
watch only. Its run has no registry that is unparsable or cannot be linked, and too few
writes for a watch to find its index forgotten: these are in `ListenerSafety`, where
`ConvergesPromptly` says that the proxy gets over them without the timeout.

## 4. Proofs

`AcsProxyProofs` proves, for every number of servers, registries, writes,
clusters, faults and every size of the history:

| theorem | states | assumes |
|---|---|---|
| `TypeCorrect` | `Spec => []TypeOK` | |
| `MemoryIsAlwaysTruth` | `Spec => []MemoryIsTruth` | `SavesSucceed`: no fault of kind `save` |
| `NoWakeupIsLost` | `Spec => []NoLostWakeup` | `OneServer`: `Members = {Primary}` |
| `ImplementsConfigSync` | `Spec => ServesOneRegistry` | `SavesSucceed` |

besides `StoreAssumption` and `ProxyAssumption`, which keep the sentinel values
apart and which TLC evaluates in each run of `MCAcsProxy`.

* `TypeInv` strengthens `TypeOK`: a member has applied a non-empty prefix of the
  log (so that `StateAt` is defined), every content of the log has been
  published, and in `update` there is a view.
* `MemoryIsTruth` is inductive: the only actions that touch the four variables
  are `Die` and the branches of `Haproxy.update`.
* `NoWakeupIsLost` needs two more invariants. `LogInv`: `rev` of an entry is the
  last write that touched the directory, so that without an event in a range of
  the log the content does not change there. `WakeInv` says, for each `pc`, from
  which index on the view that was read last is the content of the log: on the
  way from the watch to the update, a read made with the index of the event in
  hand is at least as recent as the event, and an event after it lies at or
  beyond `wait_index`.
* `ImplementsConfigSync` maps `running` to `haproxy`; `SyncInv` says that what
  `update` is about to load is a published, routable view or the legacy one.
  Each action of the listener is then `Install`, `Regress`, `Stop` or a stutter,
  and a write to the registry is `Publish`.

`NoWakeupIsLost` needs `OneServer`: with several servers a lagging member may answer
the re-reads.

`EtcdLockProofs` proves, for every number of locks, appends and faults, with and
without a ttl, from `LockAssumption` only:

| theorem | states |
|---|---|
| `LockTypeCorrect` | `Spec => []TypeOK` |
| `LockExcludes` | `Spec => []Exclusion` |
| `LockHasOneEntry` | `Spec => []OneEntryPerLock` |
| `LockImplementsTickets` | `Spec => ServesInOrder` |

* `MutexInv` is the strengthening of `Exclusion`: a lock whose `is_taken` is true and
  whose entry is there has the first entry. Between its append and the reading of the
  queue `is_taken` may be out of date, with a ttl, so that this control point is
  excepted; and an append happens only if the old entry is gone (`TakenHasEntry`).
  Two locks with the first entry are one, because the entry at a lock's sequence is
  its own (`OwnEntry`) and etcd gives out each key once.
* `EntryInv`: an entry with a lock's uuid is the one its sequence names, and in front
  of an append there is none.
* `LockImplementsTickets` needs `MutexInv` only: a step that sets `is_taken` finds
  nobody else served.

`EtcdClientProofs` proves, for every list of hosts and of members, every naming of
the servers, every mode and number of changes and lost answers:

| theorem | states | inductive invariant |
|---|---|---|
| `ClientTypeCorrect` | `Spec => []TypeOK` | `CacheInv` |
| `SpareIsAlwaysAnotherName` | `Spec => []SpareIsAnotherName` | with `CacheInv` |
| `ClusterChangesAreAnnounced` | `Spec => ClusterChangeIsAnnounced` | `TrustInv` |
| `GivesUpLast` | `Spec => []GivesUpOnlyAfterTryingAll` | `CacheInv /\ CoverInv` |

* `CacheInv`: the cache has no name twice. `pop` takes the last name, `remove` the
  first that is equal to the one in use, and `machines` replaces the list in
  between; with a name twice, `remove` would leave one behind. `ClientAssumption`
  therefore says that `Hosts` has no name twice (the constructor does not check it,
  a caller that repeats a host has the other behaviour) and that there are finitely
  many `Advertised` names.
* `TrustInv`: what the caller was told is `None` or what `_check_cluster_id` compares
  with, although a lost answer may have changed the latter.
* `CoverInv`: while a request of a client that knew all members runs, each member is
  in the cache, in use or has been tried. Only the refresh, which may come from a
  member that was tried already, could lose one.

`EtcdAuthProofs` proves, for every number of administrators, roles, paths, calls and
faults, users and roles, lenient and strict servers:

| theorem | states |
|---|---|
| `AuthTypeCorrect` | `Spec => []TypeOK` |
| `WriteAlwaysTakesEffect` | `Spec => []WriteTakesEffect` |
| `AgreementAlwaysPrevails` | `Spec => []AgreementPrevails` |

`AuthInv` is the one inductive invariant. Its parts say where what is not yet in
etcd still is:

* `ShapeInv`: the payloads that are left serve what the call is to bring about: a
  grant has only wanted permissions, a revocation none of them.
* `WriteInv`, of a write that nobody has come between: a wanted permission is stored or
  a grant of it is pending, a stored one is wanted or its revocation is pending, and
  the like for the password and for an entity that is absent.
* `ExistInv`, `OnInv`, `OffInv`, `SwitchInv`: when all administrators want a
  permission, it is stored or a payload of one of them still grants it. This is weaker than
  `WriteInv` for each, which others break, and strong enough because no payload of
  theirs takes away what all want.

`AuthAssumption` says that there is an administrator (with none, `AgreementPrevails`
speaks of no write), that `Absent` is no entity and that `RootRole` is a role; TLC
evaluates it. `GivenInv` says that an entity that is stored has what etcd `given` it:
no request takes it away. The proof found
that two arms of a CASE in `PutStatus` and in `Stored` overlapped: the
value of such a CASE is that of some true arm, which TLC takes to be the first. Their
arms now exclude each other.

`EtcdKeysProofs` proves, for every number of clients, members, values, writes, clusters
and faults and every size of the history:

| theorem | states |
|---|---|
| `KeysTypeCorrect` | `Spec => []TypeOK` |
| `UpdatesAreOnce` | `Spec => []UpdatesOnce` |
| `EveryChangeIsYieldedOnce` | `Spec => []EveryChangeOnce` |

from `KeysAssumption` only. `KeysInv` has four parts:

* `LogInv`: an entry repeats the one of the last event, `log[log[i].rev] = log[i]`. So an
  index that a read returned stands for a value.
* `UpdaterInv`: what a client holds of the cluster in place is an event of its log
  (`Held`), and an update that was executed cannot be executed again, because the last
  event lies beyond its `prevIndex` (`UpdateInv`). The case of a replaced cluster
  is why an index alone is not enough, and why `UpdatesOnce` excepts it.
* `WatcherInv`: a generator that waits does so on the cluster it knows, from its
  `local_index`; one that knows no cluster has yielded nothing; and
  `YieldInv`, which is `EveryChangeOnce` with `local_index` at most one beyond the log:
  without this bound a later write could put an event behind it.
* `Grows` sums up what a step of the store leaves of these: the log is extended, or
  the cluster is another one, of which nobody holds anything yet.

`UpdaterStep`, `WatcherStep` and `StoreStep` reduce each action to the client that acts.

`AcsLinksProofs` proves, for every registry (any number of services and containers,
any documents, ids that repeat, any order of the nodes), every `ADDITIONAL_SERVICES`
and every project name:

| theorem | states |
|---|---|
| `AcsLinksInvariant` | `Spec => []LinksInv` |
| `LinksAreServing` | `Spec => []LinksAreServingContainers` |
| `FailuresAreBadDocuments` | `Spec => []FailsOnBadDocuments` |
| `FirstUnlinkableRaises` | `Spec => []RaisesAtFirstUnlinkable` |

The two loops compute something about the whole registry, so that `LinksInv` says of
each point of them what has been done and what is still ahead:

* `WalkInv`: `walk` is some nodes from below the services that were entered (`Deep`,
  none of them a service) followed by the subtrees of the services to come. Which of
  the former are left does not matter, for they are skipped.
* `VisitInv`, `LeavesInv`: where `parse_service` is, and that the containers it has
  found are the documents among the first `j` nodes, in their order. `Picks` says the
  latter by a strictly increasing function from the list found to the nodes it was
  found at: such a witness is extended by each `Append` (`ParseStep`), where a
  recursive definition of the list would ask for an induction.
* `LinkInv`: a place `<<service, container>>` is `Dealt` with when the loops are past it.
  None of these raises (`DoneIsLinkable`: a service is passed only when all its places
  are, so that an exception comes from the first that cannot be linked), each that serves has a link under its id, and each link is that of
  the last one that serves under the id. The place of the next step is
  later than all that were dealt with (`PlaceLinked`).

When all places are dealt with, `Origin` maps them into the registry by the functions
of `Picks`. It meets every serving place (`ServingFacts`) and keeps the order
(`OriginOrder`), so that the last assignment is that of the last place, and the
links are `LinksOf(registry)`.

`RegistryAssumption`, which TLC evaluates in the run `Links`, says what the entries of a
registry are, and two things more. No service or container has the id `info` or
`containers`: `parse_service` tells nodes by the last part of the key only, and would
take such a container for the info node. And no info document is `Missing`, the value
that stands for `service.info` of a `Service` that has none. The proof found
an omission: `LinksOf` had said nothing of services without a
port, for which `get_acs_links` assigns no link; no document of the run was without
one. There is one now.

All inductive invariants were checked by TLC on the instances of the runs before they
were proved; `LinksInv`, whose evaluation is slow, on a smaller set of registries.

Only model-checked are the liveness properties under fairness (`Converges`,
`ConvergesPromptly`, `RequestReturns`, `EveryChangeArrives`, `PollersAcquire`), which
need ENABLED. Every safety property that a passing run checks is a theorem, under the
assumptions named above.

## 5. Not modelled

* `SIGUSR1` (`on_user_reload` of dockercloud-haproxy) and the mode `legacy` of
  `main`, which nothing selects.
* The text of haproxy.cfg and the certificates: `Cfg` and `Certs`. `_config_ssl` of
  dockercloud-haproxy is assumed to store the certificates and to set
  `ssl_updated` when they differ from `cls_certs`.
* In `get_acs_links`: the log of linked services, container names beyond their
  presence, the protocol suffix of a port, and nulls elsewhere than in
  `definition` and `labels`.
* In the lock: the setter of the uuid, the context manager (`__enter__` asks for
  a ttl of 0), and `max(0, None)` for a call without timeout, which is 0 in
  Python 2 and a `TypeError` in Python 3.
* In `python-etcd`: SRV discovery, TLS, statistics, the deprecated calls; writes of
  directories; the printing and comparison of results; error answers whose body is
  no JSON, which lose their status on the way to `handle`.
* In `EtcdKeys`: an answer to `read` that is lost, or a fail-over of it, which is a read
  at another member; and a request that timed out and is executed after its caller has
  gone on. In `EtcdLock` and `EtcdAuth` too a lost request is executed at once or never.
* In the auth module: `names`, which only reads, members that lag, and an administrator
  who edits its own rights.
* Packaging, build scripts and images: they have no behaviour of their own.
* Time: the absence of a delay between retries.

## 6. Plan

1. Done: store, listener, links, request engine, lock, operations, auth, their
   runs; the proofs of every safety property of a run.
2. Compose `EtcdClient` with the listener's reads and with `EtcdKeys`: which member
   answers becomes the work of the fail-over instead of a nondeterministic choice.
3. Instantiate `AcsLinks` in `AcsProxy` in place of `Unreadable`, `Raises` and `LinksOf`,
   now a step each. The theorems of `AcsLinksProofs` say that nothing but the
   number of states would change.
