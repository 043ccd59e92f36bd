------------------------------ MODULE AcsProxy ------------------------------
(***************************************************************************)
(* The acs/proxy process: it watches the service registry in etcd and      *)
(* keeps a running HAProxy configured after it (acshaproxy/main.py,        *)
(* registry/events.py, registry/etcd_info.py, acshaproxycfg.py).           *)
(*                                                                         *)
(* One action is one call of the loop in Events.run_forever with one       *)
(* outcome: the watch, the re-read of the registry, the construction of    *)
(* AcsHaproxy (which reads the registry again through a client of its      *)
(* own), and Haproxy.update.  The store moves between any two of them.     *)
(***************************************************************************)
EXTENDS EtcdStore, FiniteSets

CONSTANTS
    Primary,        \* the first server of ETCD_NODES
    Legacy,         \* the links of the process environment (LegacySpecs)
    NoView,         \* no AcsHaproxy object has been built yet
    Cfg(_),         \* view -> the text haproxy.cfg gets (external library)
    Certs(_),       \* view -> the certificates HAProxy gets
    NoCfg,          \* Haproxy.cls_cfg = None, or no configuration file
    NoCerts,        \* Haproxy.cls_certs = []
    Stopped,        \* HAProxy does not run
    ParseFails(_),  \* parse_services raises on this snapshot
    LinkFails(_),   \* get_acs_links raises on this snapshot
    FaultKinds,     \* the kinds of fault that may strike
    MaxFaults       \* bound: faults in one behaviour

Views == Snapshots \cup {Legacy}

ASSUME ProxyAssumption ==
    /\ Primary \in Members
    /\ NoView \notin Views \cup {NoRegistry}
    /\ Legacy \notin Contents
    /\ \A v \in Views : Cfg(v) # NoCfg
    /\ FaultKinds \subseteq {"request", "failover", "save", "sigterm", "crash"}
    /\ MaxFaults \in Nat

VARIABLES
    pc,         \* where the process is in run_forever; "down": not running
    waitIndex,  \* wait_index of run_forever
    conn,       \* the member the event client's _base_uri names
    expected,   \* expected_cluster_id of the event client, 0 for None
    specs,      \* what the last AcsHaproxy was built from, and where in the
                \* store that was read
    clsCfg,     \* Haproxy.cls_cfg
    clsCerts,   \* Haproxy.cls_certs
    file,       \* the content of HAPROXY_CONFIG_FILE
    haproxy,    \* what the running HAProxy loaded, or Stopped
    faults,     \* faults so far
    synced      \* history: the last watch result led to an update from the
                \* registry, and none has come since

client == <<waitIndex, conn, expected>>
memory == <<specs, clsCfg, clsCerts>>
output == <<file, haproxy>>
proxyVars == <<pc, client, memory, output, faults, synced>>
vars == <<storeVars, proxyVars>>

Configs == {Cfg(v) : v \in Views}
CertSets == {Certs(v) : v \in Views}
Loaded == [cfg : Configs \cup {NoCfg}, certs : CertSets \cup {NoCerts}]
Reads == [view : Views \cup {NoView}, at : Nat]

TypeOK ==
    /\ StoreTypeOK
    /\ pc \in {"down", "watch", "refetch", "links", "update"}
    /\ waitIndex \in Nat
    /\ conn \in Members
    /\ expected \in 0..MaxCluster
    /\ specs \in Reads
    /\ clsCfg \in Configs \cup {NoCfg}
    /\ clsCerts \in CertSets \cup {NoCerts}
    /\ file \in Configs \cup {NoCfg}
    /\ haproxy \in Loaded \cup {Stopped}
    /\ faults \in 0..MaxFaults
    /\ synced \in BOOLEAN

NothingRead == [view |-> NoView, at |-> 0]
FromLegacy == [view |-> Legacy, at |-> 0]

Init ==
    /\ StoreInit
    /\ pc = "down"
    /\ waitIndex = 0 /\ conn = Primary /\ expected = 0
    /\ specs = NothingRead /\ clsCfg = NoCfg /\ clsCerts = NoCerts
    /\ file = NoCfg /\ haproxy = Stopped
    /\ faults = 0
    /\ synced = FALSE

-----------------------------------------------------------------------------
(* Faults, and the end of the process. *)

Fault(kind) ==
    /\ kind \in FaultKinds
    /\ faults < MaxFaults
    /\ faults' = faults + 1

\* A request of a client whose _base_uri names m0 is answered by m: another
\* member answers when m0 does not and _next_server picks it.
AnsweredBy(m0, m) == IF m = m0 THEN UNCHANGED faults ELSE Fault("failover")

\* An exception nobody catches ends main.  Its container ends with it, and
\* HAProxy with the container; the configuration file stays.
Die ==
    /\ pc' = "down"
    /\ waitIndex' = 0 /\ conn' = Primary /\ expected' = 0
    /\ specs' = NothingRead /\ clsCfg' = NoCfg /\ clsCerts' = NoCerts
    /\ haproxy' = Stopped
    /\ synced' = FALSE

-----------------------------------------------------------------------------
(* main and the head of run_forever: a client is built, which asks the     *)
(* members for their list and looks at no cluster id.                      *)

Boot(m) ==
    /\ pc = "down"
    /\ AnsweredBy(Primary, m)
    /\ conn' = m
    /\ pc' = "watch"
    /\ UNCHANGED <<waitIndex, expected, memory, output, synced, storeVars>>

\* No member answers: get_etcd_client raises, main ends, docker restarts it.
BootFails ==
    /\ pc = "down"
    /\ Fault("request")
    /\ UNCHANGED <<pc, client, memory, output, synced, storeVars>>

-----------------------------------------------------------------------------
(* watch_prefix. *)

\* The answer comes from another cluster than the last one did.
Foreign == expected # 0 /\ expected # clusterId

\* run_forever gets None and 0, and goes straight back to watch_prefix.
StartOver ==
    /\ waitIndex' = 0
    /\ UNCHANGED <<pc, memory, output, synced>>

\* Mutant of Result: waits one index too far.
ResultSkips(index) ==
    /\ waitIndex' = index + 1
    /\ pc' = "refetch"
    /\ synced' = FALSE
    /\ UNCHANGED <<memory, output>>

\* run_forever gets a result, and the index to wait for after it.
Result(index) ==
    /\ waitIndex' = index
    /\ pc' = "refetch"
    /\ synced' = FALSE
    /\ UNCHANGED <<memory, output>>

WatchAnswer(m) ==
    /\ pc = "watch"
    /\ AnsweredBy(conn, m)
    /\ conn' = m
    /\ expected' = clusterId
    /\ UNCHANGED storeVars

\* EtcdClusterIdChanged reaches the bare except.
WatchMeetsOtherCluster(m) ==
    /\ WatchAnswer(m)
    /\ Foreign
    /\ StartOver

\* wait_index = 0: a plain recursive read.
FirstRead(m) ==
    /\ WatchAnswer(m)
    /\ ~Foreign
    /\ waitIndex = 0
    /\ StateAt(m) # NoRegistry
    /\ Result(IndexAt(m) + 1)

\* EtcdKeyNotFound: the handler's own log line raises TypeError, which no
\* clause of that try statement catches.
FirstReadFindsNoKey(m) ==
    /\ pc = "watch"
    /\ AnsweredBy(conn, m)
    /\ ~Foreign
    /\ waitIndex = 0
    /\ StateAt(m) = NoRegistry
    /\ Die
    /\ UNCHANGED <<file, storeVars>>

\* The watch returns its event; the request may be older than the loss of
\* the event from the member's history.
WatchEvent(m) ==
    /\ WatchAnswer(m)
    /\ ~Foreign
    /\ waitIndex # 0
    /\ \E i \in waitIndex..applied[m] :
           IsFirstEvent(m, waitIndex, i) /\ Result(i + 1)

WatchCleared(m) ==
    /\ WatchAnswer(m)
    /\ ~Foreign
    /\ waitIndex # 0
    /\ Cleared(m, waitIndex)
    /\ StartOver

\* Mutant of WatchTimesOut: keeps the index instead of starting over.
WatchTimesOutKeepsIndex ==
    /\ pc = "watch"
    /\ waitIndex # 0
    /\ ~Foreign /\ ~Cleared(conn, waitIndex) /\ ~HasEvent(conn, waitIndex)
    /\ UNCHANGED vars

\* 600 seconds without an event.
WatchTimesOut ==
    /\ pc = "watch"
    /\ waitIndex # 0
    /\ ~Foreign /\ ~Cleared(conn, waitIndex) /\ ~HasEvent(conn, waitIndex)
    /\ expected' = clusterId
    /\ StartOver
    /\ UNCHANGED <<conn, faults, storeVars>>

\* Every other exception, EtcdConnectionFailed first.
WatchFails ==
    /\ pc = "watch"
    /\ Fault("request")
    /\ StartOver
    /\ UNCHANGED <<conn, expected, storeVars>>

-----------------------------------------------------------------------------
(* run_forever reads the registry again before it calls the handler.  The  *)
(* exceptions of that read are logged and dropped; wait_index has moved.   *)

\* get_services_info returns: the directory is there and parses.
Readable(s) == s # NoRegistry /\ ~ParseFails(s)

RefetchAnswer(m) ==
    /\ pc = "refetch"
    /\ AnsweredBy(conn, m)
    /\ conn' = m
    /\ expected' = clusterId
    /\ UNCHANGED <<waitIndex, memory, output, synced, storeVars>>

Refetch(m) ==
    /\ RefetchAnswer(m)
    /\ ~Foreign
    /\ Readable(StateAt(m))
    /\ pc' = "links"

RefetchMeetsOtherCluster(m) ==
    /\ RefetchAnswer(m)
    /\ Foreign
    /\ pc' = "watch"

RefetchUnreadable(m) ==
    /\ RefetchAnswer(m)
    /\ ~Foreign
    /\ ~Readable(StateAt(m))
    /\ pc' = "watch"

RefetchFails ==
    /\ pc = "refetch"
    /\ Fault("request")
    /\ pc' = "watch"
    /\ UNCHANGED <<client, memory, output, synced, storeVars>>

-----------------------------------------------------------------------------
(* on_acs_event -> run_haproxy -> AcsHaproxy(): _init_acs_links throws the *)
(* registry of the message away and reads it once more, with a new client  *)
(* that starts at Primary and expects no cluster id.                       *)

Construct(read) ==
    /\ specs' = read
    /\ pc' = "update"
    /\ UNCHANGED <<client, clsCfg, clsCerts, output, synced, storeVars>>

\* Mutant of InitLinks: takes a missing directory for a registry.
InitLinksUnchecked(m) ==
    /\ pc = "links"
    /\ AnsweredBy(Primary, m)
    /\ Construct([view |-> StateAt(m), at |-> IndexAt(m)])

InitLinks(m) ==
    /\ pc = "links"
    /\ AnsweredBy(Primary, m)
    /\ Readable(StateAt(m)) /\ ~LinkFails(StateAt(m))
    /\ Construct([view |-> StateAt(m), at |-> IndexAt(m)])

\* The read or the parsing raises: "regressing to legacy links mode".
InitLinksUnreadable(m) ==
    /\ pc = "links"
    /\ AnsweredBy(Primary, m)
    /\ ~Readable(StateAt(m))
    /\ Construct(FromLegacy)

InitLinksFails ==
    /\ pc = "links"
    /\ Fault("request")
    /\ Construct(FromLegacy)

\* get_acs_links is called outside of the try statement.
InitLinksRaises(m) ==
    /\ pc = "links"
    /\ AnsweredBy(Primary, m)
    /\ Readable(StateAt(m)) /\ LinkFails(StateAt(m))
    /\ Die
    /\ UNCHANGED <<file, storeVars>>

-----------------------------------------------------------------------------
(* Haproxy.update: _config_ssl stores the certificates and notes whether   *)
(* they changed, then _update_haproxy compares the configuration with the  *)
(* last one.                                                               *)

BackToWatch ==
    /\ pc' = "watch"
    /\ clsCerts' = Certs(specs.view)
    /\ synced' = (specs.view # Legacy)
    /\ UNCHANGED <<client, specs, storeVars>>

\* The new HAProxy loads the file and the certificates on the disk.
RunReload == haproxy' = [cfg |-> file', certs |-> clsCerts']

\* Mutant of UpdateConfig: reloads before it saves.
UpdateConfigReloadsFirst ==
    /\ pc = "update"
    /\ clsCfg # Cfg(specs.view)
    /\ clsCfg' = Cfg(specs.view)
    /\ file' = clsCfg'
    /\ BackToWatch
    /\ haproxy' = [cfg |-> file, certs |-> clsCerts']
    /\ UNCHANGED faults

UpdateConfig ==
    /\ pc = "update"
    /\ clsCfg # Cfg(specs.view)
    /\ clsCfg' = Cfg(specs.view)
    /\ file' = clsCfg'
    /\ BackToWatch
    /\ RunReload
    /\ UNCHANGED faults

\* save_to_file returns False: cls_cfg has been assigned already.
UpdateConfigSaveFails ==
    /\ pc = "update"
    /\ clsCfg # Cfg(specs.view)
    /\ Fault("save")
    /\ clsCfg' = Cfg(specs.view)
    /\ BackToWatch
    /\ UNCHANGED output

\* Mutant of UpdateCerts: takes equal text for nothing to do.
UpdateCertsForgets ==
    /\ pc = "update"
    /\ clsCfg = Cfg(specs.view)
    /\ clsCerts # Certs(specs.view)
    /\ UNCHANGED <<clsCfg, output, faults>>
    /\ BackToWatch

UpdateCerts ==
    /\ pc = "update"
    /\ clsCfg = Cfg(specs.view)
    /\ clsCerts # Certs(specs.view)
    /\ UNCHANGED <<clsCfg, file, faults>>
    /\ BackToWatch
    /\ RunReload

UpdateNothing ==
    /\ pc = "update"
    /\ clsCfg = Cfg(specs.view)
    /\ clsCerts = Certs(specs.view)
    /\ BackToWatch
    /\ UNCHANGED <<clsCfg, output, faults>>

-----------------------------------------------------------------------------
(* SIGTERM's handler is sys.exit, called with two arguments: it raises     *)
(* TypeError wherever the process is, and the try statement around that    *)
(* place treats it as any other exception.                                 *)

SigtermSwallowed ==
    /\ Fault("sigterm")
    /\ \/ /\ pc = "watch"
          /\ StartOver
          /\ UNCHANGED <<conn, expected, storeVars>>
       \/ /\ pc = "refetch"
          /\ pc' = "watch"
          /\ UNCHANGED <<client, memory, output, synced, storeVars>>
       \/ /\ pc = "links"
          /\ Construct(FromLegacy)

\* What Haproxy.update may have written when it is cut short.
PartialSave ==
    file' \in {file} \cup (IF pc = "update" THEN {Cfg(specs.view)} ELSE {})

\* Between the try statements, and in Haproxy.update, the TypeError ends main.
SigtermEnds ==
    /\ pc # "down"
    /\ Fault("sigterm")
    /\ Die
    /\ PartialSave
    /\ UNCHANGED storeVars

\* SIGKILL, out of memory, loss of the host.
Crash ==
    /\ pc # "down"
    /\ Fault("crash")
    /\ Die
    /\ PartialSave
    /\ UNCHANGED storeVars

-----------------------------------------------------------------------------
WatchPrefix(m) ==
    \/ WatchMeetsOtherCluster(m)
    \/ FirstRead(m)
    \/ FirstReadFindsNoKey(m)
    \/ WatchEvent(m)
    \/ WatchCleared(m)

GetServicesInfo(m) ==
    \/ Refetch(m)
    \/ RefetchMeetsOtherCluster(m)
    \/ RefetchUnreadable(m)

InitAcsLinks(m) ==
    \/ InitLinks(m)
    \/ InitLinksUnreadable(m)
    \/ InitLinksRaises(m)

Update == UpdateConfig \/ UpdateCerts \/ UpdateNothing

Work ==
    \/ \E m \in Members :
           Boot(m) \/ WatchPrefix(m) \/ GetServicesInfo(m) \/ InitAcsLinks(m)
    \/ Update

Listen == Work \/ WatchTimesOut

Failure ==
    \/ BootFails
    \/ WatchFails
    \/ RefetchFails
    \/ InitLinksFails
    \/ UpdateConfigSaveFails
    \/ SigtermSwallowed
    \/ SigtermEnds
    \/ Crash

Next ==
    \/ Listen
    \/ Failure
    \/ StoreNext /\ UNCHANGED proxyVars

\* The loop runs on, docker restarts the container (restart: always), and a
\* member catches up.  Nothing obliges the registry to change, or a fault.
StoreFairness ==
    \A m \in Members : WF_vars(Replicate(m) /\ UNCHANGED proxyVars)

Spec == Init /\ [][Next]_vars
FairSpec == Spec /\ WF_vars(Listen) /\ StoreFairness

\* The same without the help of the watch's timeout.
PromptSpec == Spec /\ WF_vars(Work) /\ StoreFairness

-----------------------------------------------------------------------------
(* Properties. *)

\* A registry that the proxy can turn into a configuration.
Routable(s) == Readable(s) /\ ~LinkFails(s)

Config(view) == [cfg |-> Cfg(view), certs |-> Certs(view)]

\* No lost wake-up, when one server answers everything: if the last change
\* the watch reported was followed by an update, and the configuration in
\* memory is not that of the registry, then the request the loop is about to
\* make (or has pending) cannot miss the difference: an event at or after
\* wait_index, an index no longer in the history, or another cluster.
\* events.py:20-30 reads the registry twice after the watch returned and
\* waits from the index of the event, not of those reads.
NoLostWakeup ==
    /\ pc = "watch" /\ synced /\ waitIndex # 0
    /\ Current # NoRegistry /\ clsCfg # Cfg(Current)
    =>
        \/ \E i \in waitIndex..Len(log) : log[i].rev = i
        \/ expected # clusterId

\* As long as saves succeed, the comparison of _update_haproxy with cls_cfg
\* and cls_certs is a comparison with what the running HAProxy loaded and
\* with what the file holds: the early return "remains unchanged" never
\* hides a difference (acshaproxycfg.py:80-92).
MemoryIsTruth ==
    clsCfg # NoCfg =>
        /\ file = clsCfg
        /\ haproxy = [cfg |-> clsCfg, certs |-> clsCerts]

\* Every step of the proxy is a step of ConfigSync, as long as saves succeed:
\* HAProxy never serves the text of one registry with the certificates of
\* another, nor anything from a registry that get_acs_links rejects.
Sync == INSTANCE ConfigSync WITH running <- haproxy, Usable <- Routable

ServesOneRegistry == Sync!SyncSpec

\* The proxy ends up with the configuration of the registry and stays there,
\* once the registry, the cluster and the faults have come to rest: what the
\* README promises ("will configure itself automatically when the linked
\* services change").  Dropped re-reads, regressions to the legacy links and
\* stale answers are healed by the 600 s timeout of the watch (FairSpec).
Converges == <>[](Routable(Current) => haproxy = Config(Current))

\* With one server, one cluster and no fault it gets there without the help of
\* a timeout, whatever unreadable registries come in between (PromptSpec;
\* events.py:19-30).
ConvergesPromptly ==
    [](faults = 0 /\ clusterId = 1) => Converges

\* The loop never waits on an index that was read from another cluster: the
\* purpose EtcdClusterIdChanged states ("to prevent waiting on an etcd_index
\* that was only valid on the old cluster").
NeverWaitsOnForeignIndex ==
    pc = "watch" /\ waitIndex # 0 /\ expected = clusterId =>
        waitIndex <= Len(log) + 1
=============================================================================
