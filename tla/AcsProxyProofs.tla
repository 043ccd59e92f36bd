--------------------------- MODULE AcsProxyProofs ---------------------------
(***************************************************************************)
(* Proofs about AcsProxy, for every value of its constants.                *)
(***************************************************************************)
EXTENDS AcsProxy, TLAPS

\* What the store keeps true by itself: a member answers from a write of the
\* log.
StoreInv ==
    /\ StoreTypeOK
    /\ Len(log) >= 1
    /\ \A m \in Members : applied[m] \in 1..Len(log)

\* TypeOK needs to know that an update has something to update from.
TypeInv ==
    /\ StoreInv
    /\ TypeOK
    /\ pc = "update" => specs.view \in Views

\* A step of the world leaves the proxy alone.
StoreStep == StoreNext /\ UNCHANGED proxyVars

LEMMA StepOfStore ==
    ASSUME [Next]_vars
    PROVE  StoreStep \/ UNCHANGED storeVars
  BY DEF StoreStep, Next, Listen, Work, Failure, vars, WatchPrefix, GetServicesInfo,
         InitAcsLinks, Update, Boot, BootFails, WatchAnswer,
         WatchMeetsOtherCluster, FirstRead, FirstReadFindsNoKey,
         WatchEvent, WatchCleared, WatchTimesOut, WatchFails,
         RefetchAnswer, Refetch, RefetchMeetsOtherCluster,
         RefetchUnreadable, RefetchFails, Construct, InitLinks,
         InitLinksUnreadable, InitLinksFails, InitLinksRaises,
         BackToWatch, UpdateConfig, UpdateConfigSaveFails, UpdateCerts,
         UpdateNothing, SigtermSwallowed, SigtermEnds, Crash

LEMMA StoreInitOK == StoreInit => StoreInv
  <1> USE StoreAssumption
  <1> SUFFICES ASSUME StoreInit PROVE StoreInv
    OBVIOUS
  <1>1. PICK s \in Contents : log = FreshLog(s) /\ published = {s}
    BY DEF StoreInit
  <1>2. FreshLog(s) \in Seq(LogEntry) /\ Len(FreshLog(s)) = 1
    BY DEF FreshLog, LogEntry
  <1>. QED
    BY <1>1, <1>2 DEF StoreInit, StoreInv, StoreTypeOK

LEMMA StoreStepOK == StoreInv /\ [StoreNext]_storeVars => StoreInv'
  <1> USE StoreAssumption
  <1> SUFFICES ASSUME StoreInv, [StoreNext]_storeVars PROVE StoreInv'
    OBVIOUS
  <1>1. ASSUME NEW s \in Contents, WriteRegistry(s) PROVE StoreInv'
    <2>1. [services |-> s, rev |-> Len(log) + 1] \in LogEntry
      BY DEF StoreInv, StoreTypeOK, LogEntry
    <2>2. log' \in Seq(LogEntry) /\ Len(log') = Len(log) + 1
      BY <1>1, <2>1 DEF WriteRegistry, StoreInv, StoreTypeOK
    <2>. QED
      BY <1>1, <2>2 DEF WriteRegistry, StoreInv, StoreTypeOK
  <1>2. CASE WriteElsewhere
    <2>1. Latest \in LogEntry
      BY DEF Latest, StoreInv, StoreTypeOK
    <2>2. log' \in Seq(LogEntry) /\ Len(log') = Len(log) + 1
      BY <1>2, <2>1 DEF WriteElsewhere, StoreInv, StoreTypeOK
    <2>. QED
      BY <1>2, <2>2 DEF WriteElsewhere, StoreInv, StoreTypeOK
  <1>3. ASSUME NEW m \in Members, Replicate(m) PROVE StoreInv'
    BY <1>3 DEF Replicate, StoreInv, StoreTypeOK
  <1>4. ASSUME NEW s \in Contents, ReplaceCluster(s) PROVE StoreInv'
    <2>1. log' \in Seq(LogEntry) /\ Len(log') = 1
      BY <1>4 DEF ReplaceCluster, FreshLog, LogEntry
    <2>. QED
      BY <1>4, <2>1 DEF ReplaceCluster, StoreInv, StoreTypeOK
  <1>5. CASE UNCHANGED storeVars
    BY <1>5 DEF storeVars, StoreInv, StoreTypeOK
  <1>. QED
    BY <1>1, <1>2, <1>3, <1>4, <1>5 DEF StoreNext, Environment

\* What a member answers is a content of the registry.
LEMMA StateAtOK ==
    ASSUME StoreInv, NEW m \in Members
    PROVE  StateAt(m) \in Contents /\ IndexAt(m) \in 1..Len(log)
  <1>1. applied[m] \in 1..Len(log)
    BY DEF StoreInv
  <1>2. log[applied[m]] \in LogEntry
    BY <1>1 DEF StoreInv, StoreTypeOK
  <1>. QED
    BY <1>1, <1>2 DEF StateAt, IndexAt, LogEntry

-----------------------------------------------------------------------------
(* Type correctness. *)

LEMMA FaultOK ==
    ASSUME TypeOK, NEW kind, Fault(kind)
    PROVE  faults' \in 0..MaxFaults
  BY ProxyAssumption DEF TypeOK, Fault

LEMMA AnsweredByOK ==
    ASSUME TypeOK, NEW m0, NEW m, AnsweredBy(m0, m)
    PROVE  faults' \in 0..MaxFaults
  BY FaultOK DEF TypeOK, AnsweredBy

LEMMA NothingReadOK == NothingRead \in Reads
  BY StoreAssumption DEF NothingRead, Reads

LEMMA InitTypeInv == Init => TypeInv
  <1> SUFFICES ASSUME Init PROVE TypeInv
    OBVIOUS
  <1>1. StoreInv
    BY StoreInitOK DEF Init
  <1>2. synced \in BOOLEAN
    BY Zenon DEF Init
  <1>3. TypeOK
    BY <1>1, <1>2, NothingReadOK, ProxyAssumption, StoreAssumption
       DEF Init, TypeOK, StoreInv
  <1>. QED
    BY <1>1, <1>3 DEF TypeInv, Init

LEMMA DieTypeOK ==
    ASSUME TypeInv, Die, StoreInv', faults' \in 0..MaxFaults,
           file' \in Configs \cup {NoCfg}
    PROVE  TypeInv'
  <1>1. synced' \in BOOLEAN
    BY Zenon DEF Die
  <1>2. TypeOK'
    BY <1>1, NothingReadOK, ProxyAssumption, StoreAssumption
       DEF TypeInv, TypeOK, Die, StoreInv
  <1>. QED
    BY <1>2 DEF TypeInv, Die

\* What Construct needs to know of its argument.
LEMMA ConstructTypeOK ==
    ASSUME TypeInv, StoreInv', NEW read \in Reads, read.view \in Views,
           Construct(read), faults' \in 0..MaxFaults
    PROVE  TypeInv'
  BY DEF TypeInv, TypeOK, StoreInv, Construct, client, output

LEMMA FromLegacyOK == FromLegacy \in Reads /\ FromLegacy.view \in Views
  BY StoreAssumption DEF FromLegacy, Reads, Views

LEMMA ViewConfig ==
    ASSUME NEW v \in Views
    PROVE  Cfg(v) \in Configs /\ Certs(v) \in CertSets
  BY DEF Configs, CertSets

LEMMA StepTypeInv == TypeInv /\ [Next]_vars => TypeInv'
  <1> SUFFICES ASSUME TypeInv, [Next]_vars PROVE TypeInv'
    OBVIOUS
  <1> USE ProxyAssumption, StoreAssumption
  <1>0. StoreInv'
    <2>1. [StoreNext]_storeVars
      BY StepOfStore DEF StoreStep
    <2>. QED
      BY <2>1, StoreStepOK DEF TypeInv
  <1>1. ASSUME NEW m \in Members, Boot(m) PROVE TypeInv'
    BY <1>0, <1>1, AnsweredByOK
       DEF Boot, TypeInv, TypeOK, StoreInv, memory, output
  <1>2. CASE BootFails
    BY <1>0, <1>2, FaultOK
       DEF BootFails, TypeInv, TypeOK, StoreInv, client, memory, output
  <1>3. ASSUME NEW m \in Members, WatchPrefix(m) PROVE TypeInv'
    <2>1. CASE WatchMeetsOtherCluster(m) \/ WatchCleared(m)
      <3>1. WatchAnswer(m) /\ StartOver
        BY <2>1 DEF WatchMeetsOtherCluster, WatchCleared
      <3>2. faults' \in 0..MaxFaults
        BY <3>1, AnsweredByOK DEF WatchAnswer, TypeInv
      <3>. QED
        BY <1>0, <3>1, <3>2
           DEF WatchAnswer, StartOver, TypeInv, TypeOK, StoreInv,
               StoreTypeOK, memory, output
    <2>2. CASE FirstRead(m)
      <3>1. IndexAt(m) + 1 \in Nat
        BY StateAtOK DEF TypeInv, StoreInv, StoreTypeOK
      <3>2. synced' \in BOOLEAN
        BY <2>2, Zenon DEF FirstRead, Result
      <3>. QED
        BY <1>0, <2>2, <3>1, <3>2, AnsweredByOK
           DEF FirstRead, WatchAnswer, Result, TypeInv, TypeOK, StoreInv,
               StoreTypeOK, memory, output
    <2>3. CASE FirstReadFindsNoKey(m)
      <3>1. faults' \in 0..MaxFaults
        BY <2>3, AnsweredByOK DEF FirstReadFindsNoKey, TypeInv
      <3>2. Die /\ file' \in Configs \cup {NoCfg}
        BY <2>3 DEF FirstReadFindsNoKey, TypeInv, TypeOK
      <3>. QED
        BY <1>0, <3>1, <3>2, DieTypeOK
    <2>4. CASE WatchEvent(m)
      <3>1. PICK i \in waitIndex..applied[m] : Result(i + 1)
        BY <2>4 DEF WatchEvent
      <3>2. i + 1 \in Nat
        BY <3>1 DEF TypeInv, TypeOK, StoreInv, StoreTypeOK
      <3>3. synced' \in BOOLEAN
        BY <3>1, Zenon DEF Result
      <3>. QED
        BY <1>0, <2>4, <3>1, <3>2, <3>3, AnsweredByOK
           DEF WatchEvent, WatchAnswer, Result, TypeInv, TypeOK, StoreInv,
               StoreTypeOK, memory, output
    <2>. QED
      BY <1>3, <2>1, <2>2, <2>3, <2>4 DEF WatchPrefix
  <1>4. CASE WatchTimesOut
    BY <1>0, <1>4
       DEF WatchTimesOut, StartOver, TypeInv, TypeOK, StoreInv, StoreTypeOK,
           memory, output
  <1>5. CASE WatchFails
    BY <1>0, <1>5, FaultOK
       DEF WatchFails, StartOver, TypeInv, TypeOK, StoreInv, memory, output
  <1>6. ASSUME NEW m \in Members, GetServicesInfo(m) PROVE TypeInv'
    BY <1>0, <1>6, AnsweredByOK
       DEF GetServicesInfo, Refetch, RefetchMeetsOtherCluster,
           RefetchUnreadable, RefetchAnswer, TypeInv, TypeOK, StoreInv,
           StoreTypeOK, memory, output
  <1>7. CASE RefetchFails
    BY <1>0, <1>7, FaultOK
       DEF RefetchFails, TypeInv, TypeOK, StoreInv, client, memory, output
  <1>8. ASSUME NEW m \in Members, InitAcsLinks(m) PROVE TypeInv'
    <2>1. CASE InitLinks(m)
      <3> DEFINE read == [view |-> StateAt(m), at |-> IndexAt(m)]
      <3>1. read \in Reads /\ read.view \in Views
        BY <2>1, StateAtOK
           DEF InitLinks, Readable, Reads, Views, Contents, TypeInv,
               StoreInv, StoreTypeOK
      <3>2. Construct(read) /\ faults' \in 0..MaxFaults
        BY <2>1, AnsweredByOK DEF InitLinks, TypeInv
      <3>. QED
        BY <1>0, <3>1, <3>2, ConstructTypeOK
    <2>2. CASE InitLinksUnreadable(m)
      BY <1>0, <2>2, AnsweredByOK, ConstructTypeOK, FromLegacyOK
         DEF InitLinksUnreadable, TypeInv
    <2>3. CASE InitLinksRaises(m)
      BY <1>0, <2>3, AnsweredByOK, DieTypeOK
         DEF InitLinksRaises, TypeInv, TypeOK
    <2>. QED
      BY <1>8, <2>1, <2>2, <2>3 DEF InitAcsLinks
  <1>9. CASE InitLinksFails
    BY <1>0, <1>9, FaultOK, ConstructTypeOK, FromLegacyOK
       DEF InitLinksFails, TypeInv
  <1>10. CASE Update \/ UpdateConfigSaveFails
    <2>1. specs.view \in Views
      BY <1>10
         DEF Update, UpdateConfig, UpdateCerts, UpdateNothing,
             UpdateConfigSaveFails, TypeInv
    <2>2. Cfg(specs.view) \in Configs /\ Certs(specs.view) \in CertSets
      BY <2>1, ViewConfig
    <2>3. CASE UpdateConfig
      BY <1>0, <2>2, <2>3
         DEF UpdateConfig, BackToWatch, RunReload, TypeInv, TypeOK, StoreInv,
             client, Loaded
    <2>4. CASE UpdateConfigSaveFails
      BY <1>0, <2>2, <2>4, FaultOK
         DEF UpdateConfigSaveFails, BackToWatch, TypeInv, TypeOK, StoreInv,
             client, output
    <2>5. CASE UpdateCerts
      BY <1>0, <2>2, <2>5
         DEF UpdateCerts, BackToWatch, RunReload, TypeInv, TypeOK, StoreInv,
             client, Loaded
    <2>6. CASE UpdateNothing
      BY <1>0, <2>2, <2>6
         DEF UpdateNothing, BackToWatch, TypeInv, TypeOK, StoreInv, client,
             output
    <2>. QED
      BY <1>10, <2>3, <2>4, <2>5, <2>6 DEF Update
  <1>11. CASE SigtermSwallowed
    <2>1. faults' \in 0..MaxFaults
      BY <1>11, FaultOK DEF SigtermSwallowed, TypeInv
    <2>2. CASE Construct(FromLegacy)
      BY <1>0, <2>1, <2>2, ConstructTypeOK, FromLegacyOK
    <2>3. CASE ~Construct(FromLegacy)
      BY <1>0, <1>11, <2>1, <2>3
         DEF SigtermSwallowed, StartOver, TypeInv, TypeOK, StoreInv, client,
             memory, output
    <2>. QED
      BY <2>2, <2>3
  <1>12. CASE SigtermEnds \/ Crash
    <2>1. faults' \in 0..MaxFaults
      BY <1>12, FaultOK DEF SigtermEnds, Crash, TypeInv
    <2>2. file' \in Configs \cup {NoCfg}
      BY <1>12, ViewConfig
         DEF SigtermEnds, Crash, PartialSave, TypeInv, TypeOK
    <2>. QED
      BY <1>0, <1>12, <2>1, <2>2, DieTypeOK DEF SigtermEnds, Crash
  <1>13. CASE StoreStep \/ UNCHANGED vars
    BY <1>0, <1>13
       DEF StoreStep, vars, proxyVars, client, memory, output, TypeInv,
           TypeOK, StoreInv
  <1>. QED
    BY <1>1, <1>2, <1>3, <1>4, <1>5, <1>6, <1>7, <1>8, <1>9, <1>10, <1>11,
       <1>12, <1>13
       DEF Next, Listen, Work, Failure, StoreStep

\* Every variable keeps its type: what an update works from is a registry
\* that was read or the legacy links, and what HAProxy loads is a
\* configuration of such a view.
THEOREM TypeCorrect == Spec => []TypeOK
  <1>1. Spec => []TypeInv
    BY InitTypeInv, StepTypeInv, PTL DEF Spec
  <1>2. TypeInv => TypeOK
    BY DEF TypeInv
  <1>. QED
    BY <1>1, <1>2, PTL

-----------------------------------------------------------------------------
(* The comparison with cls_cfg is a comparison with what HAProxy runs.     *)

SavesSucceed == "save" \notin FaultKinds

\* A step that touches neither the outputs nor what is remembered of them.
LEMMA MemoryUntouched ==
    ASSUME MemoryIsTruth, UNCHANGED <<clsCfg, clsCerts, file, haproxy>>
    PROVE  MemoryIsTruth'
  BY DEF MemoryIsTruth

LEMMA MemoryLost == ASSUME Die PROVE MemoryIsTruth'
  BY DEF Die, MemoryIsTruth

\* Only Haproxy.update and the end of the process change the outputs.
LEMMA OnlyUpdateWrites ==
    ASSUME SavesSucceed, [Next]_vars, ~Die, ~Update
    PROVE  UNCHANGED <<clsCfg, clsCerts, file, haproxy>>
  <1>1. ~UpdateConfigSaveFails
    BY DEF UpdateConfigSaveFails, Fault, SavesSucceed
  <1>. QED
    BY <1>1
       DEF Next, Listen, Work, Failure, vars, proxyVars, WatchPrefix,
           GetServicesInfo, InitAcsLinks, Update, Boot, BootFails,
           WatchAnswer, WatchMeetsOtherCluster, FirstRead, Result,
           StartOver, FirstReadFindsNoKey, WatchEvent, WatchCleared,
           WatchTimesOut, WatchFails, RefetchAnswer, Refetch,
           RefetchMeetsOtherCluster, RefetchUnreadable, RefetchFails,
           Construct, InitLinks, InitLinksUnreadable, InitLinksFails,
           InitLinksRaises, SigtermSwallowed, SigtermEnds, Crash, memory,
           output

LEMMA StepMemoryIsTruth ==
    ASSUME SavesSucceed, MemoryIsTruth, [Next]_vars
    PROVE  MemoryIsTruth'
  <1>1. CASE Die
    BY <1>1, MemoryLost
  <1>2. CASE UpdateConfig
    BY <1>2 DEF UpdateConfig, BackToWatch, RunReload, MemoryIsTruth
  <1>3. CASE UpdateCerts
    BY <1>3 DEF UpdateCerts, BackToWatch, RunReload, MemoryIsTruth
  <1>4. CASE UpdateNothing
    BY <1>4 DEF UpdateNothing, BackToWatch, output, MemoryIsTruth
  <1>5. CASE ~Die /\ ~Update
    BY <1>5, OnlyUpdateWrites, MemoryUntouched
  <1>. QED
    BY <1>1, <1>2, <1>3, <1>4, <1>5 DEF Update

\* As long as saves succeed, whatever the process remembers of the last
\* configuration is what the file holds and what HAProxy loaded.
THEOREM MemoryIsAlwaysTruth ==
    ASSUME SavesSucceed
    PROVE  Spec => []MemoryIsTruth
  <1>1. Init => MemoryIsTruth
    BY DEF Init, MemoryIsTruth
  <1>2. MemoryIsTruth /\ [Next]_vars => MemoryIsTruth'
    BY StepMemoryIsTruth
  <1>. QED
    BY <1>1, <1>2, PTL DEF Spec

-----------------------------------------------------------------------------
(* No lost wake-up.                                                        *)

OneServer == Members = {Primary}

\* Two writes of the log show the same directory, or an event lies between.
LogInv ==
    \A i, j \in 1..Len(log) : i <= j =>
        \/ log[i].services = log[j].services
        \/ \E k \in (i + 1)..j : log[k].rev = k

\* What the last update worked from is not older than the event before it.
ReadSinceEvent ==
    /\ specs.at \in 1..Len(log)
    /\ specs.view = log[specs.at].services
    /\ waitIndex <= specs.at + 1

\* The strengthening of NoLostWakeup: how far the loop got with the event
\* before waitIndex, as long as the cluster is the one of that event.
WakeInv ==
    /\ expected <= clusterId
    /\ pc = "down" => waitIndex = 0
    /\ pc = "refetch" => expected # 0 /\ synced = FALSE
    /\ expected = clusterId =>
        /\ pc \in {"refetch", "links"} => waitIndex <= applied[Primary] + 1
        /\ pc = "update" /\ specs.view # Legacy => ReadSinceEvent
        /\ pc = "watch" /\ synced /\ waitIndex # 0 =>
               ReadSinceEvent /\ clsCfg = Cfg(specs.view)

LEMMA StepLogInv ==
    ASSUME TypeInv, LogInv, [Next]_vars
    PROVE  LogInv'
  <1>1. CASE UNCHANGED log
    BY <1>1 DEF LogInv
  <1>2. ASSUME NEW entry, log' = Append(log, entry),
               entry = Latest \/ entry.rev = Len(log) + 1
        PROVE  LogInv'
    <2>1. Len(log) \in Nat /\ Len(log) >= 1 /\ Len(log') = Len(log) + 1
      BY <1>2 DEF TypeInv, StoreInv, StoreTypeOK
    <2>2. log'[Len(log) + 1] = entry /\ \A i \in 1..Len(log) : log'[i] = log[i]
      BY <1>2 DEF TypeInv, StoreInv, StoreTypeOK
    <2>3. ASSUME NEW i \in 1..Len(log'), NEW j \in 1..Len(log'), i <= j
          PROVE  \/ log'[i].services = log'[j].services
                 \/ \E k \in (i + 1)..j : log'[k].rev = k
      <3>1. CASE i = j
        BY <3>1
      <3>2. CASE j <= Len(log)
        <4>1. \/ log[i].services = log[j].services
              \/ \E k \in (i + 1)..j : log[k].rev = k
          BY <2>1, <2>3, <3>2 DEF LogInv
        <4>. QED
          BY <4>1, <2>1, <2>2, <2>3, <3>2
      <3>3. CASE i < j /\ j = Len(log) + 1 /\ entry.rev = Len(log) + 1
        BY <2>1, <2>2, <3>3
      <3>4. CASE i < j /\ j = Len(log) + 1 /\ entry = Latest
        <4>0. /\ i \in 1..Len(log) /\ i <= Len(log)
              /\ Len(log) \in 1..Len(log)
          BY <2>1, <3>4
        <4>1. \/ log[i].services = log[Len(log)].services
              \/ \E k \in (i + 1)..Len(log) : log[k].rev = k
          BY <4>0 DEF LogInv
        <4>2. CASE log[i].services = log[Len(log)].services
          BY <4>2, <2>1, <2>2, <2>3, <3>4 DEF Latest
        <4>3. CASE \E k \in (i + 1)..Len(log) : log[k].rev = k
          BY <4>3, <2>1, <2>2, <2>3, <3>4
        <4>. QED
          BY <4>1, <4>2, <4>3
      <3>. QED
        BY <1>2, <2>1, <2>3, <3>1, <3>2, <3>3, <3>4
    <2>. QED
      BY <2>3 DEF LogInv
  <1>3. ASSUME NEW s \in Contents, ReplaceCluster(s)
        PROVE  LogInv'
    <2>1. Len(log') = 1
      BY <1>3 DEF ReplaceCluster, FreshLog
    <2>. QED
      BY <2>1 DEF LogInv
  <1>4. CASE StoreStep
    <2>1. ASSUME NEW s \in Contents, WriteRegistry(s) PROVE LogInv'
      <3> DEFINE entry == [services |-> s, rev |-> Len(log) + 1]
      <3>1. log' = Append(log, entry) /\ entry.rev = Len(log) + 1
        BY <2>1 DEF WriteRegistry
      <3> HIDE DEF entry
      <3>. QED
        BY <3>1, <1>2
    <2>2. CASE WriteElsewhere
      <3> DEFINE entry == Latest
      <3>1. log' = Append(log, entry) /\ entry = Latest
        BY <2>2 DEF WriteElsewhere
      <3> HIDE DEF entry
      <3>. QED
        BY <3>1, <1>2
    <2>. QED
      BY <1>1, <1>3, <1>4, <2>1, <2>2
         DEF StoreStep, StoreNext, Environment, Replicate
  <1>. QED
    BY <1>1, <1>4, StepOfStore DEF storeVars

LEMMA InitWakeInv == Init => LogInv /\ WakeInv
  <1> SUFFICES ASSUME Init PROVE LogInv /\ WakeInv
    OBVIOUS
  <1>1. Len(log) = 1
    BY DEF Init, StoreInit, FreshLog
  <1>2. LogInv
    BY <1>1 DEF LogInv
  <1>3. WakeInv
    BY DEF Init, StoreInit, WakeInv
  <1>. QED
    BY <1>2, <1>3

\* The world: an append moves no read, a new cluster frees from every claim.
LEMMA StoreStepWakeInv ==
    ASSUME OneServer, TypeInv, TypeInv', WakeInv, StoreStep
    PROVE  WakeInv'
  <1>1. UNCHANGED <<pc, waitIndex, expected, specs, clsCfg, synced>>
    BY DEF StoreStep, proxyVars, client, memory
  <1>2. ASSUME NEW entry, log' = Append(log, entry),
               UNCHANGED <<clusterId, applied>>
        PROVE  WakeInv'
    <2>1. Len(log') = Len(log) + 1
      BY <1>2 DEF TypeInv, StoreInv, StoreTypeOK
    <2>2. \A i \in 1..Len(log) : log'[i] = log[i]
      BY <1>2 DEF TypeInv, StoreInv, StoreTypeOK
    <2>3. ReadSinceEvent => ReadSinceEvent'
      BY <1>1, <2>1, <2>2 DEF ReadSinceEvent, TypeInv, StoreInv, StoreTypeOK
    <2>. QED
      BY <1>1, <1>2, <2>3 DEF WakeInv
  <1>3. CASE Replicate(Primary)
    <2>1. applied'[Primary] = applied[Primary] + 1
      BY <1>3 DEF Replicate, OneServer, TypeInv, StoreInv, StoreTypeOK
    <2>2. ReadSinceEvent => ReadSinceEvent'
      BY <1>1, <1>3 DEF Replicate, ReadSinceEvent
    <2>3. waitIndex <= applied[Primary] + 1 => waitIndex <= applied'[Primary] + 1
      BY <2>1, ProxyAssumption DEF TypeInv, TypeOK, StoreInv, StoreTypeOK
    <2>. QED
      BY <1>1, <1>3, <2>2, <2>3 DEF WakeInv, Replicate
  <1>4. ASSUME NEW s \in Contents, ReplaceCluster(s)
        PROVE  WakeInv'
    <2>1. expected' <= clusterId' /\ expected' # clusterId'
      BY <1>1, <1>4 DEF ReplaceCluster, WakeInv, TypeInv, TypeOK, StoreTypeOK
    <2>. QED
      BY <1>1, <2>1 DEF WakeInv
  <1>. QED
    BY <1>2, <1>3, <1>4, ProxyAssumption
       DEF StoreStep, StoreNext, Environment, WriteRegistry, WriteElsewhere,
           OneServer

\* The steps of the watch that lead back to it wait from the start.
LEMMA StartOverWakeInv ==
    ASSUME TypeInv, WakeInv, StartOver, pc = "watch",
           expected' \in {expected, clusterId}, UNCHANGED clusterId
    PROVE  WakeInv'
  <1>1. expected' <= clusterId'
    BY DEF TypeInv, TypeOK, StoreTypeOK, WakeInv
  <1>. QED
    BY <1>1 DEF StartOver, WakeInv

LEMMA DieWakeInv ==
    ASSUME TypeInv, Die, UNCHANGED clusterId
    PROVE  WakeInv'
  BY DEF TypeInv, TypeOK, StoreTypeOK, Die, WakeInv

LEMMA ConstructWakeInv ==
    ASSUME TypeInv, WakeInv, pc = "links", NEW read, Construct(read),
           read.view = Legacy \/ (expected = clusterId => ReadSinceEvent')
    PROVE  WakeInv'
  BY DEF WakeInv, Construct, client, storeVars

LEMMA StepWakeInv ==
    ASSUME OneServer, TypeInv, TypeInv', WakeInv, [Next]_vars
    PROVE  WakeInv'
  <1>1. CASE StoreStep
    BY <1>1, StoreStepWakeInv
  <1>2. CASE UNCHANGED vars
    BY <1>2
       DEF vars, storeVars, proxyVars, client, memory, WakeInv, ReadSinceEvent
  <1>3. CASE Die /\ UNCHANGED storeVars
    BY <1>3, DieWakeInv DEF storeVars
  <1>4. ASSUME NEW m \in Members, Boot(m) PROVE WakeInv'
    BY <1>4 DEF Boot, memory, storeVars, WakeInv
  <1>5. CASE BootFails
    BY <1>5
       DEF BootFails, client, memory, storeVars, WakeInv, ReadSinceEvent
  <1>6. ASSUME NEW m \in Members,
               WatchMeetsOtherCluster(m) \/ WatchCleared(m)
        PROVE  WakeInv'
    BY <1>6, StartOverWakeInv
       DEF WatchMeetsOtherCluster, WatchCleared, WatchAnswer, storeVars
  <1>7. CASE WatchTimesOut \/ WatchFails
    BY <1>7, StartOverWakeInv DEF WatchTimesOut, WatchFails, storeVars
  <1>8. ASSUME NEW m \in Members, FirstRead(m) \/ WatchEvent(m)
        PROVE  WakeInv'
    <2>1. PICK i \in Nat : i <= applied[m] /\ Result(i + 1)
      BY <1>8, StateAtOK
         DEF FirstRead, WatchEvent, TypeInv, TypeOK, StoreInv, StoreTypeOK,
             IndexAt
    <2>2. m = Primary /\ expected' = clusterId /\ UNCHANGED storeVars
      BY <1>8 DEF FirstRead, WatchEvent, WatchAnswer, OneServer
    <2>3. waitIndex' <= applied'[Primary] + 1
      BY <2>1, <2>2
         DEF Result, storeVars, TypeInv, StoreInv, StoreTypeOK
    <2>. QED
      BY <2>1, <2>2, <2>3
         DEF Result, storeVars, WakeInv, TypeInv, TypeOK, StoreTypeOK
  <1>9. ASSUME NEW m \in Members, GetServicesInfo(m) PROVE WakeInv'
    <2>1. /\ pc = "refetch" /\ expected # 0 /\ synced = FALSE
          /\ expected' = clusterId
          /\ UNCHANGED <<waitIndex, synced, storeVars>>
      BY <1>9
         DEF GetServicesInfo, Refetch, RefetchMeetsOtherCluster,
             RefetchUnreadable, RefetchAnswer, WakeInv
    <2>2. CASE Refetch(m)
      <3>1. expected = clusterId /\ pc' = "links"
        BY <2>1, <2>2 DEF Refetch, Foreign
      <3>. QED
        BY <2>1, <3>1 DEF WakeInv, storeVars
    <2>3. CASE pc' = "watch"
      BY <2>1, <2>3
         DEF WakeInv, storeVars, TypeInv, TypeOK, StoreTypeOK
    <2>. QED
      BY <1>9, <2>2, <2>3
         DEF GetServicesInfo, RefetchMeetsOtherCluster, RefetchUnreadable
  <1>10. CASE RefetchFails
    BY <1>10 DEF RefetchFails, client, memory, storeVars, WakeInv
  <1>11. ASSUME NEW m \in Members, InitLinks(m) PROVE WakeInv'
    <2> DEFINE read == [view |-> StateAt(m), at |-> IndexAt(m)]
    <2>1. m = Primary /\ Construct(read) /\ pc = "links"
      BY <1>11 DEF InitLinks, OneServer
    <2>2. expected = clusterId => ReadSinceEvent'
      BY <2>1, StateAtOK
         DEF Construct, ReadSinceEvent, WakeInv, StateAt, IndexAt, client,
             storeVars, TypeInv
    <2> HIDE DEF read
    <2>. QED
      BY <2>1, <2>2, ConstructWakeInv
  <1>12. CASE Construct(FromLegacy) /\ pc = "links"
    BY <1>12, ConstructWakeInv DEF FromLegacy
  <1>13. CASE Update \/ UpdateConfigSaveFails
    <2>1. /\ pc = "update" /\ BackToWatch
          /\ clsCfg' = Cfg(specs.view)
      BY <1>13
         DEF Update, UpdateConfig, UpdateCerts, UpdateNothing,
             UpdateConfigSaveFails
    <2>2. ReadSinceEvent => ReadSinceEvent'
      BY <2>1 DEF BackToWatch, client, storeVars, ReadSinceEvent
    <2>. QED
      BY <2>1, <2>2 DEF BackToWatch, client, storeVars, WakeInv
  <1>14. CASE SigtermSwallowed
    <2>1. CASE pc = "watch" /\ StartOver /\ UNCHANGED <<conn, expected, storeVars>>
      BY <2>1, StartOverWakeInv DEF storeVars
    <2>2. CASE /\ pc = "refetch" /\ pc' = "watch"
               /\ UNCHANGED <<client, memory, output, synced, storeVars>>
      BY <2>2 DEF client, memory, storeVars, WakeInv
    <2>. QED
      BY <1>12, <1>14, <2>1, <2>2 DEF SigtermSwallowed
  <1>15. CASE \E m \in Members : FirstReadFindsNoKey(m) \/ InitLinksRaises(m)
    BY <1>3, <1>15 DEF FirstReadFindsNoKey, InitLinksRaises, storeVars
  <1>16. CASE SigtermEnds \/ Crash
    BY <1>3, <1>16 DEF SigtermEnds, Crash
  <1>17. CASE InitLinksFails \/ \E m \in Members : InitLinksUnreadable(m)
    BY <1>12, <1>17 DEF InitLinksUnreadable, InitLinksFails
  <1>. QED
    BY <1>1, <1>2, <1>4, <1>5, <1>6, <1>7, <1>8, <1>9, <1>10, <1>11, <1>13,
       <1>14, <1>15, <1>16, <1>17
       DEF Next, Listen, Work, Failure, WatchPrefix, InitAcsLinks, StoreStep

\* The invariant is strong enough: no event since the read means that the
\* registry still is what was read.
LEMMA WakeInvSuffices ==
    ASSUME TypeInv, LogInv, WakeInv
    PROVE  NoLostWakeup
  <1> SUFFICES ASSUME pc = "watch", synced, waitIndex # 0,
                      clsCfg # Cfg(Current), expected = clusterId
               PROVE  \E i \in waitIndex..Len(log) : log[i].rev = i
    BY DEF NoLostWakeup
  <1>1. ReadSinceEvent /\ clsCfg = Cfg(specs.view)
    BY DEF WakeInv
  <1>2. Len(log) \in Nat /\ Len(log) >= 1 /\ waitIndex \in Nat
    BY DEF TypeInv, TypeOK, StoreInv, StoreTypeOK
  <1>3. specs.at \in 1..Len(log) /\ Len(log) \in 1..Len(log)
    BY <1>1, <1>2 DEF ReadSinceEvent
  <1>4. \/ log[specs.at].services = log[Len(log)].services
        \/ \E k \in (specs.at + 1)..Len(log) : log[k].rev = k
    BY <1>3 DEF LogInv
  <1>5. log[specs.at].services # log[Len(log)].services
    BY <1>1 DEF ReadSinceEvent, Current, Latest
  <1>. QED
    BY <1>1, <1>2, <1>3, <1>4, <1>5 DEF ReadSinceEvent

\* With one server, the loop of run_forever never waits past a change of the
\* registry that its last update did not see.
THEOREM NoWakeupIsLost ==
    ASSUME OneServer
    PROVE  Spec => []NoLostWakeup
  <1>1. Init => TypeInv /\ LogInv /\ WakeInv
    BY InitTypeInv, InitWakeInv
  <1>2. TypeInv /\ LogInv /\ WakeInv /\ [Next]_vars
        => TypeInv' /\ LogInv' /\ WakeInv'
    BY StepTypeInv, StepLogInv, StepWakeInv
  <1>3. TypeInv /\ LogInv /\ WakeInv => NoLostWakeup
    BY WakeInvSuffices
  <1>. QED
    BY <1>1, <1>2, <1>3, PTL DEF Spec

-----------------------------------------------------------------------------
(* The proxy implements ConfigSync.                                        *)

\* What an update works from has been published, and can be used.
SyncInv ==
    /\ \A i \in 1..Len(log) : log[i].services \in published
    /\ pc = "update" /\ specs.view # Legacy =>
           specs.view \in published /\ Routable(specs.view)

LEMMA InitSync == Init => SyncInv /\ Sync!SyncInit
  <1> SUFFICES ASSUME Init PROVE SyncInv /\ Sync!SyncInit
    OBVIOUS
  <1>1. PICK s \in Contents : log = FreshLog(s) /\ published = {s}
    BY DEF Init, StoreInit
  <1>. QED
    BY <1>1 DEF Init, FreshLog, SyncInv, Sync!SyncInit

LEMMA StoreStepSync ==
    ASSUME TypeInv, SyncInv, StoreStep
    PROVE  SyncInv' /\ [Sync!SyncNext]_Sync!syncVars
  <1>1. UNCHANGED <<pc, specs, haproxy>>
    BY DEF StoreStep, proxyVars, memory, output
  <1>2. ASSUME NEW s \in Contents, WriteRegistry(s) \/ ReplaceCluster(s)
        PROVE  SyncInv' /\ Sync!SyncNext
    <2>1. published' = published \cup {s}
      BY <1>2 DEF WriteRegistry, ReplaceCluster
    <2>2. \A i \in 1..Len(log') : log'[i].services \in published'
      <3>1. CASE WriteRegistry(s)
        <4> DEFINE entry == [services |-> s, rev |-> Len(log) + 1]
        <4>1. log' = Append(log, entry) /\ entry.services = s
          BY <3>1 DEF WriteRegistry
        <4> HIDE DEF entry
        <4>2. /\ Len(log') = Len(log) + 1 /\ log'[Len(log) + 1] = entry
              /\ \A i \in 1..Len(log) : log'[i] = log[i]
          BY <4>1 DEF TypeInv, StoreInv, StoreTypeOK
        <4>. QED
          BY <2>1, <4>1, <4>2
             DEF SyncInv, TypeInv, StoreInv, StoreTypeOK
      <3>2. CASE ReplaceCluster(s)
        BY <2>1, <3>2 DEF ReplaceCluster, FreshLog
      <3>. QED
        BY <1>2, <3>1, <3>2
    <2>. QED
      BY <1>1, <2>1, <2>2 DEF SyncInv, Sync!SyncNext, Sync!Publish
  <1>3. CASE WriteElsewhere
    <2>1. \A i \in 1..Len(log') : log'[i].services \in published'
      BY <1>3
         DEF WriteElsewhere, Latest, SyncInv, TypeInv, StoreInv, StoreTypeOK
    <2>. QED
      BY <1>1, <1>3, <2>1 DEF WriteElsewhere, SyncInv, Sync!syncVars
  <1>4. ASSUME NEW m \in Members, Replicate(m)
        PROVE  SyncInv' /\ UNCHANGED Sync!syncVars
    BY <1>1, <1>4 DEF Replicate, SyncInv, Sync!syncVars
  <1>. QED
    BY <1>2, <1>3, <1>4 DEF StoreStep, StoreNext, Environment

\* A reload serves the view of the update, whole.
LEMMA ReloadSync ==
    ASSUME TypeInv, SyncInv, pc = "update", UNCHANGED published,
           haproxy' = [cfg |-> Cfg(specs.view), certs |-> Certs(specs.view)]
    PROVE  Sync!SyncNext
  <1>1. CASE specs.view = Legacy
    BY <1>1 DEF Sync!SyncNext, Sync!Regress, Sync!Serve
  <1>2. CASE specs.view # Legacy
    <2>1. specs.view \in Contents /\ specs.view \in published
      BY <1>2 DEF SyncInv, TypeInv, StoreInv, StoreTypeOK
    <2>2. Sync!Install(specs.view)
      BY <1>2, <2>1 DEF SyncInv, Sync!Install, Sync!Serve
    <2>. QED
      BY <2>1, <2>2 DEF Sync!SyncNext
  <1>. QED
    BY <1>1, <1>2

LEMMA UpdateSync ==
    ASSUME TypeInv, SyncInv, MemoryIsTruth, Update
    PROVE  [Sync!SyncNext]_Sync!syncVars
  <1>1. pc = "update" /\ UNCHANGED published
    BY DEF Update, UpdateConfig, UpdateCerts, UpdateNothing, BackToWatch,
           storeVars
  <1>2. CASE UpdateConfig
    BY <1>1, <1>2, ReloadSync DEF UpdateConfig, BackToWatch, RunReload
  <1>3. CASE UpdateCerts
    <2>1. Cfg(specs.view) # NoCfg
      BY <1>1, ProxyAssumption DEF TypeInv
    <2>2. haproxy' = [cfg |-> Cfg(specs.view), certs |-> Certs(specs.view)]
      BY <1>3, <2>1
         DEF UpdateCerts, BackToWatch, RunReload, MemoryIsTruth
    <2>. QED
      BY <1>1, <2>2, ReloadSync
  <1>4. CASE UpdateNothing
    BY <1>1, <1>4 DEF UpdateNothing, output, Sync!syncVars
  <1>. QED
    BY <1>2, <1>3, <1>4 DEF Update

LEMMA StepSync ==
    ASSUME SavesSucceed, TypeInv, SyncInv, MemoryIsTruth, [Next]_vars
    PROVE  SyncInv' /\ [Sync!SyncNext]_Sync!syncVars
  <1>1. CASE StoreStep
    BY <1>1, StoreStepSync
  <1>2. CASE UNCHANGED storeVars
    <2>1. UNCHANGED <<log, published>>
      BY <1>2 DEF storeVars
    <2>2. SyncInv'
      <3>1. CASE pc' # "update"
        BY <2>1, <3>1 DEF SyncInv
      <3>2. CASE UNCHANGED <<pc, specs>>
        BY <2>1, <3>2 DEF SyncInv
      <3>3. CASE \E m \in Members : InitLinks(m)
        <4>1. PICK m \in Members : InitLinks(m)
          BY <3>3
        <4>2. StateAt(m) \in published /\ Routable(StateAt(m))
          BY <4>1
             DEF InitLinks, Routable, StateAt, SyncInv, TypeInv, StoreInv
        <4>. QED
          BY <2>1, <4>1, <4>2 DEF InitLinks, Construct, SyncInv
      <3>4. CASE Construct(FromLegacy)
        BY <2>1, <3>4 DEF Construct, FromLegacy, SyncInv
      <3>. QED
        BY <3>1, <3>2, <3>3, <3>4
           DEF Next, Listen, Work, Failure, vars, proxyVars, WatchPrefix,
               GetServicesInfo, InitAcsLinks, Update, Boot, BootFails,
               WatchAnswer, WatchMeetsOtherCluster, FirstRead, Result,
               StartOver, FirstReadFindsNoKey, Die, WatchEvent,
               WatchCleared, WatchTimesOut, WatchFails, RefetchAnswer,
               Refetch, RefetchMeetsOtherCluster, RefetchUnreadable,
               RefetchFails, InitLinksUnreadable, InitLinksFails,
               InitLinksRaises, BackToWatch, UpdateConfig,
               UpdateConfigSaveFails, UpdateCerts, UpdateNothing,
               SigtermSwallowed, SigtermEnds, Crash, memory
    <2>3. CASE Update
      BY <2>2, <2>3, UpdateSync
    <2>4. CASE Die
      BY <2>1, <2>2, <2>4 DEF Die, Sync!SyncNext, Sync!Stop
    <2>5. CASE ~Die /\ ~Update
      BY <2>1, <2>2, <2>5, OnlyUpdateWrites DEF Sync!syncVars
    <2>. QED
      BY <2>3, <2>4, <2>5
  <1>. QED
    BY <1>1, <1>2, StepOfStore

\* As long as saves succeed the proxy implements ConfigSync: HAProxy serves
\* the text and the certificates of one registry, published before and
\* accepted by get_acs_links, or those of the legacy links.
THEOREM ImplementsConfigSync ==
    ASSUME SavesSucceed
    PROVE  Spec => ServesOneRegistry
  <1>1. Init => TypeInv /\ MemoryIsTruth /\ SyncInv /\ Sync!SyncInit
    BY InitTypeInv, InitSync DEF Init, MemoryIsTruth
  <1>2. TypeInv /\ MemoryIsTruth /\ SyncInv /\ [Next]_vars
        => TypeInv' /\ MemoryIsTruth' /\ SyncInv'
           /\ [Sync!SyncNext]_Sync!syncVars
    BY StepTypeInv, StepMemoryIsTruth, StepSync
  <1>. QED
    BY <1>1, <1>2, PTL DEF Spec, ServesOneRegistry, Sync!SyncSpec

=============================================================================
