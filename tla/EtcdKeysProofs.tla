--------------------------- MODULE EtcdKeysProofs ---------------------------
(***************************************************************************)
(* Proofs about EtcdKeys, for every number of clients, members, values,    *)
(* writes, clusters and faults.                                            *)
(***************************************************************************)
EXTENDS EtcdKeys, TLAPS

\* An entry without an event of its own repeats the entry of the last event.
LogInv ==
    /\ Len(log) \in 1..MaxIndex
    /\ \A i \in 1..Len(log) :
          /\ log[i].rev <= i
          /\ log[i].services # NoRegistry => log[i].rev # 0
          /\ log[i].rev # 0 => log[log[i].rev] = log[i]
    /\ \A m \in Members : applied[m] \in 1..Len(log)

\* What a client holds of the cluster in place is an event of its log.
Held(x) ==
    /\ x.cluster <= clusterId
    /\ x.cluster = clusterId =>
          /\ x.index \in 1..Len(log)
          /\ log[x.index] = [services |-> x.value, rev |-> x.index]

\* An update on the way that was executed cannot be executed again.
UpdateInv(c) ==
    /\ req[c].obj # None
    /\ req[c].prevIndex = req[c].obj.index
    /\ req[c].prevValue = None
    /\ req[c].prevExist = "true"
    /\ req[c].obj.cluster = clusterId /\ executed[c] # <<>> =>
          /\ Len(executed[c]) = 1
          /\ executed[c][1].version.value = req[c].obj.value
          /\ req[c].obj.index < Latest.rev

OnceInv(c) ==
    outcome[c] = "ok" /\ executed[c] # <<>> /\ Last(executed[c]).op = "update" =>
        \/ Last(executed[c]).read.cluster # clusterId
        \/ Len(executed[c]) = 1
           /\ executed[c][1].version.value = executed[c][1].read.value

UpdaterInv(c) ==
    /\ obj[c] # None => Held(obj[c])
    /\ req[c] # None =>
          /\ outcome[c] = "none"
          /\ req[c].obj # None => Held(req[c].obj)
          /\ \A i \in 1..Len(executed[c]) :
                executed[c][i].op = req[c].op /\ executed[c][i].read = req[c].obj
          /\ req[c].op = "update" => UpdateInv(c)
    /\ \A i \in 1..Len(executed[c]) :
          executed[c][i].op = "update" =>
              executed[c][i].read # None /\ executed[c][i].read.cluster <= clusterId
    /\ OnceInv(c)

\* How far a generator has come, and that it has yielded all until there.
YieldInv(w) ==
    /\ local[w] - 1 <= Len(log)
    /\ Range(yielded[w]) = Events(first[w], local[w] - 1)
    /\ \A i, j \in DOMAIN yielded[w] : i < j => yielded[w][i] < yielded[w][j]

WatcherInv(w) ==
    /\ expected[w] <= clusterId
    /\ pc[w] = "off" => expected[w] = 0 /\ local[w] = 0
    /\ pc[w] = "wait" => expected[w] = clusterId
    /\ pc[w] = "wait" /\ local[w] # 0 => since[w] = local[w]
    /\ local[w] = 0 => first[w] = 0 /\ yielded[w] = <<>>
    /\ local[w] # 0 => expected[w] # 0 /\ first[w] \in 1..local[w]
    /\ Running(w) => YieldInv(w)

KeysInv ==
    /\ TypeOK
    /\ LogInv
    /\ \A c \in Updaters : UpdaterInv(c)
    /\ \A w \in Watchers : WatcherInv(w)

-----------------------------------------------------------------------------
(* The store: a log that grows, or a new cluster. *)

\* What a step of the store, or none, leaves of what clients know.
Grows ==
    /\ StoreTypeOK' /\ LogInv'
    /\ \A x \in Result : Held(x) => Held(x)'
    /\ clusterId <= clusterId'
    /\ clusterId' = clusterId =>
          /\ Len(log) <= Len(log')
          /\ \A n \in Nat : n < Latest.rev => n < Latest'.rev
          /\ \A from, to \in Int : to <= Len(log) => Events(from, to)' = Events(from, to)

LEMMA LogTyped ==
    ASSUME StoreTypeOK, LogInv
    PROVE  /\ Len(log) \in Nat /\ DOMAIN log = 1..Len(log) /\ clusterId \in Nat
           /\ \A i \in 1..Len(log) : /\ log[i] \in LogEntry /\ log[i].rev \in Nat
                                     /\ log[i].services \in Contents
           /\ Latest = log[Len(log)] /\ Len(log) \in 1..Len(log)
           /\ Latest \in LogEntry /\ Current \in Contents
  <1>1. log \in Seq(LogEntry) /\ clusterId \in Nat
    BY KeysAssumption DEF StoreTypeOK
  <1>2. Len(log) \in 1..Len(log)
    BY <1>1 DEF LogInv
  <1>3. \A i \in 1..Len(log) : log[i] \in LogEntry
    BY <1>1
  <1>. QED
    BY <1>1, <1>2, <1>3 DEF Latest, Current, LogEntry

LEMMA AppendGrows ==
    ASSUME StoreTypeOK, LogInv, Len(log) < MaxIndex, NEW entry \in LogEntry,
           log' = Append(log, entry), UNCHANGED <<clusterId, applied>>,
           entry = Latest \/ entry.rev = Len(log) + 1
    PROVE  /\ Grows
           /\ Len(log') = Len(log) + 1 /\ Latest' = entry
  <1>1. /\ log \in Seq(LogEntry) /\ Len(log) \in 1..Len(log) /\ Len(log) \in Nat
        /\ MaxIndex \in Nat
    BY LogTyped, KeysAssumption DEF StoreTypeOK
  <1>2. /\ log' \in Seq(LogEntry) /\ Len(log') = Len(log) + 1 /\ log'[Len(log) + 1] = entry
        /\ \A i \in 1..Len(log) : log'[i] = log[i]
        /\ DOMAIN log = 1..Len(log) /\ DOMAIN log' = 1..Len(log')
    BY <1>1
  <1>3. Latest' = entry
    BY <1>2 DEF Latest
  <1>4. StoreTypeOK'
    BY <1>2 DEF StoreTypeOK
  <1>5. entry.rev \in Nat /\ Latest.rev \in Nat /\ Latest.rev <= Len(log) /\ Latest.rev <= entry.rev
    BY <1>1, LogTyped DEF LogInv, LogEntry
  <1>6. LogInv'
    <2>1. ASSUME NEW i \in 1..Len(log')
          PROVE  /\ log'[i].rev <= i
                 /\ log'[i].services # NoRegistry => log'[i].rev # 0
                 /\ log'[i].rev # 0 => log'[log'[i].rev] = log'[i]
      <3>1. CASE i \in 1..Len(log)
        <4>1. /\ log[i].rev \in Nat /\ log[i].rev <= i
              /\ log[i].services # NoRegistry => log[i].rev # 0
              /\ log[i].rev # 0 => log[log[i].rev] = log[i]
          BY <3>1, LogTyped DEF LogInv
        <4>2. log[i].rev # 0 => log[i].rev \in 1..Len(log)
          BY <1>1, <3>1, <4>1
        <4>. QED
          BY <1>2, <3>1, <4>1, <4>2
      <3>2. CASE i = Len(log) + 1 /\ entry.rev = Len(log) + 1
        BY <1>1, <1>2, <3>2
      <3>3. CASE i = Len(log) + 1 /\ entry = Latest
        <4>1. /\ entry.services # NoRegistry => entry.rev # 0
              /\ entry.rev # 0 => log[entry.rev] = entry
          BY <1>1, <3>3 DEF LogInv, Latest
        <4>2. entry.rev # 0 => entry.rev \in 1..Len(log)
          BY <1>1, <1>5, <3>3
        <4>3. log'[i] = entry /\ entry.rev <= i
          BY <1>1, <1>2, <1>5, <3>3
        <4>4. entry.rev # 0 => log'[entry.rev] = entry
          BY <1>2, <4>1, <4>2
        <4>. QED
          BY ONLY <4>1, <4>3, <4>4
      <3>4. i \in 1..Len(log) \/ i = Len(log) + 1
        BY <1>1, <1>2
      <3>. QED
        BY <3>1, <3>2, <3>3, <3>4
    <2>2. Len(log') \in 1..MaxIndex
      BY <1>1, <1>2
    <2>3. \A m \in Members : applied'[m] \in 1..Len(log')
      BY <1>1, <1>2 DEF LogInv, StoreTypeOK
    <2>. QED
      BY <2>1, <2>2, <2>3 DEF LogInv
  <1>7. ASSUME NEW x \in Result, Held(x) PROVE Held(x)'
    BY <1>1, <1>2, <1>7 DEF Held, Result
  <1>8. ASSUME NEW from \in Int, NEW to \in Int, to <= Len(log)
        PROVE  Events(from, to)' = Events(from, to)
    BY <1>1, <1>2, <1>8 DEF Events
  <1>. QED
    BY <1>1, <1>2, <1>3, <1>4, <1>5, <1>6, <1>7, <1>8, LogTyped DEF Grows

LEMMA WriteGrows ==
    ASSUME StoreTypeOK, LogInv, NEW s \in Contents, WriteRegistry(s)
    PROVE  /\ Grows /\ UNCHANGED clusterId
           /\ Latest' = [services |-> s, rev |-> Len(log) + 1]
           /\ Len(log') = Len(log) + 1
  <1> DEFINE entry == [services |-> s, rev |-> Len(log) + 1]
  <1>1. entry \in LogEntry /\ entry.rev = Len(log) + 1
    BY LogTyped DEF LogEntry
  <1>2. Len(log) < MaxIndex /\ log' = Append(log, entry) /\ UNCHANGED <<clusterId, applied>>
    BY DEF WriteRegistry
  <1>3. UNCHANGED clusterId
    BY <1>2
  <1> HIDE DEF entry
  <1>4. Grows /\ Len(log') = Len(log) + 1 /\ Latest' = entry
    BY <1>1, <1>2, AppendGrows
  <1>. QED
    BY <1>3, <1>4 DEF entry

LEMMA ElsewhereGrows ==
    ASSUME StoreTypeOK, LogInv, WriteElsewhere
    PROVE  Grows /\ UNCHANGED clusterId
  <1> DEFINE entry == Latest
  <1>1. entry \in LogEntry
    BY LogTyped
  <1>2. /\ Len(log) < MaxIndex /\ log' = Append(log, entry)
        /\ UNCHANGED <<clusterId, applied>> /\ entry = Latest
    BY DEF WriteElsewhere
  <1> HIDE DEF entry
  <1>. QED
    BY <1>1, <1>2, AppendGrows

LEMMA SameLogGrows ==
    ASSUME StoreTypeOK, LogInv, UNCHANGED <<clusterId, log>>,
           applied' \in [Members -> Nat], \A m \in Members : applied'[m] \in 1..Len(log)
    PROVE  Grows
  <1>1. StoreTypeOK' /\ LogInv'
    BY DEF StoreTypeOK, LogInv
  <1>2. /\ \A x \in Result : Held(x) => Held(x)'
        /\ \A from, to \in Int : Events(from, to)' = Events(from, to)
    BY DEF Held, Events
  <1>3. Latest' = Latest /\ Len(log') = Len(log) /\ Latest.rev \in Nat
    BY LogTyped DEF Latest, LogEntry
  <1>. QED
    BY <1>1, <1>2, <1>3, LogTyped DEF Grows

LEMMA ReplicateGrows ==
    ASSUME StoreTypeOK, LogInv, NEW m \in Members, Replicate(m)
    PROVE  Grows /\ UNCHANGED clusterId
  <1>1. /\ applied[m] < Len(log) /\ applied' = [applied EXCEPT ![m] = applied[m] + 1]
        /\ UNCHANGED <<clusterId, log>>
    BY DEF Replicate
  <1>2. applied \in [Members -> Nat] /\ \A n \in Members : applied[n] \in 1..Len(log)
    BY DEF StoreTypeOK, LogInv
  <1>3. applied' \in [Members -> Nat] /\ \A n \in Members : applied'[n] \in 1..Len(log)
    BY <1>1, <1>2, LogTyped
  <1>. QED
    BY <1>1, <1>3, SameLogGrows

LEMMA UnchangedGrows ==
    ASSUME StoreTypeOK, LogInv, UNCHANGED store
    PROVE  Grows /\ UNCHANGED clusterId
  <1>1. UNCHANGED <<clusterId, log, applied>>
    BY DEF store
  <1>. QED
    BY <1>1, SameLogGrows DEF StoreTypeOK, LogInv

LEMMA FreshOK ==
    ASSUME NEW s \in Contents
    PROVE  /\ FreshLog(s) \in Seq(LogEntry) /\ Len(FreshLog(s)) = 1
           /\ FreshLog(s)[1].services = s
           /\ FreshLog(s)[1].rev = IF s = NoRegistry THEN 0 ELSE 1
  BY DEF FreshLog, LogEntry

LEMMA ReplaceGrows ==
    ASSUME StoreTypeOK, LogInv, NEW s \in Contents, ReplaceCluster(s)
    PROVE  Grows /\ clusterId' = clusterId + 1
  <1>1. /\ clusterId < MaxCluster /\ clusterId' = clusterId + 1 /\ log' = FreshLog(s)
        /\ applied' = [m \in Members |-> 1]
    BY DEF ReplaceCluster
  <1>2. clusterId \in 1..MaxCluster /\ MaxCluster \in Nat /\ MaxIndex \in Nat \ {0}
    BY KeysAssumption DEF StoreTypeOK
  <1>3. clusterId' \in 1..MaxCluster
    BY <1>1, <1>2
  <1>4. StoreTypeOK'
    BY <1>1, <1>3, FreshOK DEF StoreTypeOK
  <1>5. LogInv'
    <2>1. /\ Len(log') = 1 /\ log'[1].services = s
          /\ log'[1].rev = IF s = NoRegistry THEN 0 ELSE 1
      BY <1>1, FreshOK
    <2>2. \A i \in 1..Len(log') : i = 1
      BY <2>1
    <2>3. ASSUME NEW i \in 1..Len(log')
          PROVE  /\ log'[i].rev <= i
                 /\ log'[i].services # NoRegistry => log'[i].rev # 0
                 /\ log'[i].rev # 0 => log'[log'[i].rev] = log'[i]
      BY <2>1, <2>2
    <2>4. Len(log') \in 1..MaxIndex /\ \A m \in Members : applied'[m] \in 1..Len(log')
      BY <1>1, <1>2, <2>1
    <2>. QED
      BY <2>3, <2>4 DEF LogInv
  <1>6. \A x \in Result : Held(x) => Held(x)'
    BY <1>1, <1>2 DEF Held, Result
  <1>. QED
    BY <1>1, <1>2, <1>4, <1>5, <1>6 DEF Grows

\* What a read of entry i returns.
LEMMA NodeHeld ==
    ASSUME StoreTypeOK, LogInv, NEW i \in 1..Len(log), log[i].services # NoRegistry,
           NEW x, x = [value |-> log[i].services, index |-> log[i].rev, cluster |-> clusterId]
    PROVE  x \in Result /\ Held(x)
  <1>1. /\ log[i] \in LogEntry /\ log[i].services \in Snapshots /\ log[i].rev \in Nat \ {0}
        /\ log[i].rev <= i /\ log[log[i].rev] = log[i] /\ Len(log) \in Nat /\ clusterId \in Nat
    BY LogTyped DEF LogInv, Contents
  <1>2. log[i] = [services |-> log[i].services, rev |-> log[i].rev]
    BY <1>1 DEF LogEntry
  <1>. QED
    BY <1>1, <1>2 DEF Result, Held

VersionOK == Version = None \/ (Version \in Result /\ Held(Version))

LEMMA VersionHeld == StoreTypeOK /\ LogInv => VersionOK
  <1> SUFFICES ASSUME StoreTypeOK, LogInv, Current # NoRegistry
               PROVE  Version \in Result /\ Held(Version)
    BY DEF Version, VersionOK
  <1>1. Len(log) \in 1..Len(log) /\ log[Len(log)].services # NoRegistry
    BY LogTyped DEF Current
  <1>2. Version = [value |-> log[Len(log)].services, index |-> log[Len(log)].rev,
                   cluster |-> clusterId]
    BY DEF Version, Current, Latest
  <1>. QED
    BY <1>1, <1>2, NodeHeld

-----------------------------------------------------------------------------
(* Clients that a step passes by. *)

Entry == [op : Ops, version : Result \cup {None}, read : Result \cup {None}]

LEMMA ExecutedTyped ==
    ASSUME TypeOK, NEW c \in Updaters
    PROVE  /\ Len(executed[c]) \in Nat
           /\ executed[c] # <<>> => Len(executed[c]) \in 1..Len(executed[c])
           /\ Last(executed[c]) = executed[c][Len(executed[c])]
           /\ \A i \in 1..Len(executed[c]) : executed[c][i].read \in Result \cup {None}
  <1>1. executed[c] \in Seq(Entry)
    BY DEF TypeOK, Entry
  <1>2. \A e \in Entry : e.read \in Result \cup {None}
    BY DEF Entry
  <1>3. \A i \in 1..Len(executed[c]) : executed[c][i] \in Entry
    BY <1>1
  <1>4. Len(executed[c]) \in Nat /\ (executed[c] # <<>> => Len(executed[c]) \in 1..Len(executed[c]))
    BY <1>1
  <1>. QED
    BY <1>2, <1>3, <1>4 DEF Last

LEMMA ClustersTyped ==
    ASSUME StoreTypeOK, Grows
    PROVE  /\ clusterId \in Nat /\ clusterId' \in Nat /\ clusterId <= clusterId'
           /\ clusterId \in 1..MaxCluster
           /\ Len(log) \in Nat /\ Len(log') \in Nat
  <1>1. clusterId \in 1..MaxCluster /\ MaxCluster \in Nat /\ log \in Seq(LogEntry)
    BY KeysAssumption DEF StoreTypeOK
  <1>2. StoreTypeOK' /\ clusterId <= clusterId'
    BY DEF Grows
  <1>3. clusterId' \in 1..MaxCluster /\ log' \in Seq(LogEntry)
    BY <1>2 DEF StoreTypeOK
  <1>. QED
    BY <1>1, <1>2, <1>3

LEMMA UpdaterKept ==
    ASSUME TypeOK, Grows, NEW c \in Updaters, UpdaterInv(c),
           UNCHANGED <<obj[c], req[c], outcome[c], executed[c]>>
    PROVE  UpdaterInv(c)'
  <1>1. /\ obj[c] \in Result \cup {None} /\ req[c] \in Request \cup {None}
        /\ clusterId \in Nat /\ clusterId' \in Nat /\ clusterId <= clusterId'
    BY ClustersTyped DEF TypeOK
  <1>2. /\ obj'[c] = obj[c] /\ req'[c] = req[c] /\ outcome'[c] = outcome[c]
        /\ executed'[c] = executed[c]
    OBVIOUS
  <1>3. ASSUME obj[c] # None PROVE Held(obj[c])'
    <2>1. obj[c] \in Result /\ Held(obj[c])
      BY <1>1, <1>3 DEF UpdaterInv
    <2>2. \A y \in Result : Held(y) => Held(y)'
      BY DEF Grows
    <2>. QED
      BY <1>2, <2>1, <2>2 DEF Held
  <1>4. ASSUME req[c] # None, req[c].obj # None PROVE Held(req[c].obj)'
    <2>1. req[c].obj \in Result /\ Held(req[c].obj)
      BY <1>1, <1>4 DEF UpdaterInv, Request
    <2>2. \A y \in Result : Held(y) => Held(y)'
      BY DEF Grows
    <2>. QED
      BY <1>2, <2>1, <2>2 DEF Held
  <1>5. ASSUME NEW i \in 1..Len(executed[c]), executed[c][i].op = "update"
        PROVE  /\ executed[c][i].read # None /\ executed[c][i].read \in Result
               /\ executed[c][i].read.cluster <= clusterId
               /\ executed[c][i].read.cluster <= clusterId'
    <2>1. executed[c][i].read # None /\ executed[c][i].read.cluster <= clusterId
      BY <1>5 DEF UpdaterInv
    <2>2. executed[c][i].read \in Result
      BY <2>1, ExecutedTyped
    <2>3. executed[c][i].read.cluster \in Nat
      BY <2>2 DEF Result
    <2>. QED
      BY <1>1, <2>1, <2>2, <2>3
  <1>6. clusterId' # clusterId => clusterId < clusterId'
    BY <1>1
  <1>7. OnceInv(c)'
    <2>1. executed[c] # <<>> =>
             /\ Len(executed[c]) \in 1..Len(executed[c])
             /\ Last(executed[c]) = executed[c][Len(executed[c])]
      BY ExecutedTyped
    <2>2. CASE clusterId' = clusterId
      BY <1>2, <2>2 DEF UpdaterInv, OnceInv
    <2>3. CASE clusterId < clusterId'
      <3> SUFFICES ASSUME executed[c] # <<>>, Last(executed[c]).op = "update"
                   PROVE  Last(executed[c]).read.cluster # clusterId'
        BY <1>2 DEF OnceInv
      <3>1. Last(executed[c]).read \in Result /\ Last(executed[c]).read.cluster <= clusterId
        BY <1>5, <2>1
      <3>. QED
        BY <1>1, <2>3, <3>1 DEF Result
    <2>. QED
      BY <1>6, <2>2, <2>3
  <1>8. req[c] # None /\ req[c].op = "update" => UpdateInv(c)'
    <2> SUFFICES ASSUME req[c] # None, req[c].op = "update" PROVE UpdateInv(c)'
      OBVIOUS
    <2>1. /\ UpdateInv(c) /\ req[c].obj # None /\ req[c].obj \in Result /\ Held(req[c].obj)
          /\ req[c].obj.index \in Nat /\ req[c].obj.cluster \in Nat
      BY <1>1 DEF UpdaterInv, UpdateInv, Request, Result
    <2>2. CASE clusterId' = clusterId
      <3>1. req[c].obj.index < Latest.rev => req[c].obj.index < Latest'.rev
        BY <2>1, <2>2 DEF Grows
      <3>. QED
        BY <1>2, <2>1, <2>2, <3>1 DEF UpdateInv
    <2>3. CASE clusterId < clusterId'
      <3>1. req[c].obj.cluster # clusterId'
        BY <1>1, <2>1, <2>3 DEF Held
      <3>. QED
        BY <1>2, <2>1, <3>1 DEF UpdateInv
    <2>. QED
      BY <1>6, <2>2, <2>3
  <1>. QED
    BY <1>2, <1>3, <1>4, <1>5, <1>7, <1>8 DEF UpdaterInv

LEMMA WatcherKept ==
    ASSUME TypeOK, LogInv, Grows, NEW w \in Watchers, WatcherInv(w),
           UNCHANGED <<expected[w], local[w], since[w], yielded[w], first[w]>>,
           \/ pc'[w] = pc[w] /\ (clusterId' = clusterId \/ pc[w] # "wait")
           \/ pc[w] \in {"send", "wait"} /\ pc'[w] \in {"send", "ended"}
    PROVE  WatcherInv(w)'
  <1>1. /\ expected[w] \in Nat /\ local[w] \in Nat /\ first[w] \in Nat /\ Len(log) \in Nat
        /\ clusterId \in Nat /\ clusterId' \in Nat /\ clusterId <= clusterId'
        /\ w \in Clients /\ Len(log') \in Nat
    BY KeysAssumption, LogTyped DEF TypeOK, StoreTypeOK, Grows, Clients
  <1>2. /\ expected'[w] = expected[w] /\ local'[w] = local[w] /\ since'[w] = since[w]
        /\ yielded'[w] = yielded[w] /\ first'[w] = first[w]
    OBVIOUS
  <1>3. Running(w)' => YieldInv(w)'
    <2> SUFFICES ASSUME pc'[w] \in {"send", "wait"}, expected[w] = clusterId'
                 PROVE  YieldInv(w)'
      BY <1>2 DEF Running
    <2>1. clusterId' = clusterId /\ Running(w)
      BY <1>1, <1>2 DEF Running, WatcherInv
    <2>2. YieldInv(w)
      BY <2>1 DEF WatcherInv
    <2>3. Events(first[w], local[w] - 1)' = Events(first[w], local[w] - 1)
      <3>1. first[w] \in Int /\ local[w] - 1 \in Int /\ local[w] - 1 <= Len(log)
        BY <1>1, <2>2 DEF YieldInv
      <3>2. \A a, b \in Int : b <= Len(log) => Events(a, b)' = Events(a, b)
        BY <2>1 DEF Grows
      <3>3. first'[w] = first[w] /\ local'[w] - 1 = local[w] - 1
        BY <1>2
      <3>4. \A a, b : first'[w] = a /\ local'[w] - 1 = b =>
                          Events(first[w], local[w] - 1)' = Events(a, b)'
        BY DEF Events
      <3>. QED
        BY <3>1, <3>2, <3>3, <3>4
    <2>4. local[w] - 1 <= Len(log')
      BY <1>1, <2>1, <2>2 DEF YieldInv, Grows
    <2>. QED
      BY <1>2, <2>2, <2>3, <2>4 DEF YieldInv
  <1>4. /\ expected'[w] <= clusterId'
        /\ pc'[w] = "off" => expected'[w] = 0 /\ local'[w] = 0
        /\ pc'[w] = "wait" => expected'[w] = clusterId'
        /\ pc'[w] = "wait" /\ local'[w] # 0 => since'[w] = local'[w]
    BY <1>1, <1>2 DEF WatcherInv
  <1>5. /\ local'[w] = 0 => first'[w] = 0 /\ yielded'[w] = <<>>
        /\ local'[w] # 0 => expected'[w] # 0 /\ first'[w] \in 1..local'[w]
    BY <1>1, <1>2 DEF WatcherInv
  <1>. QED
    BY <1>3, <1>4, <1>5 DEF WatcherInv

-----------------------------------------------------------------------------
(* A write on the way. *)

\* What the requests of the write r have done: all of them, and an update once.
RanOnce(x, r) ==
    /\ \A i \in 1..Len(x) : x[i].op = r.op /\ x[i].read = r.obj
    /\ r.op = "update" /\ r.obj.cluster = clusterId /\ x # <<>> =>
          /\ Len(x) = 1
          /\ x[1].version.value = r.obj.value
          /\ r.obj.index < Latest.rev

\* An accepted update finds the version of which its caller holds the value.
LEMMA AcceptedUpdate ==
    ASSUME KeysInv, NEW c \in Updaters, NEW r, r = req[c], r # None, r.op = "update",
           r.obj.cluster = clusterId, Accepted(r)
    PROVE  /\ r.obj.index = Latest.rev /\ r.obj.index <= Len(log)
           /\ Version.value = r.obj.value
           /\ executed[c] = <<>>
  <1>1. /\ UpdaterInv(c) /\ LogInv /\ StoreTypeOK /\ r \in Request
    BY DEF KeysInv, TypeOK
  <1>2. /\ r.obj # None /\ r.obj \in Result /\ Held(r.obj) /\ r.prevIndex = r.obj.index
        /\ r.prevExist = "true" /\ UpdateInv(c)
    BY <1>1 DEF UpdaterInv, UpdateInv, Request
  <1>3. /\ r.obj.index \in 1..Len(log)
        /\ log[r.obj.index] = [services |-> r.obj.value, rev |-> r.obj.index]
    BY <1>2 DEF Held
  <1>4. Current # NoRegistry /\ r.prevIndex \in {0, Latest.rev}
    <2>1. Conditional(r)
      BY <1>2 DEF Conditional
    <2>2. Current # NoRegistry
      BY <2>1 DEF Accepted, Verdict
    <2>3. r.prevIndex \in {0, Latest.rev}
      BY <1>2, <2>2 DEF Accepted, Verdict
    <2>. QED
      BY <2>2, <2>3
  <1>5. /\ Len(log) \in Nat /\ Latest = log[Len(log)] /\ Len(log) \in 1..Len(log)
        /\ Latest.rev \in Nat
    BY <1>1, LogTyped
  <1>6. r.obj.index = Latest.rev /\ Latest.rev # 0
    BY <1>2, <1>3, <1>4, <1>5
  <1>7. log[Latest.rev] = Latest
    BY <1>1, <1>5, <1>6 DEF LogInv
  <1>8. Current = r.obj.value
    BY <1>3, <1>6, <1>7 DEF Current
  <1>9. Version.value = r.obj.value
    BY <1>4, <1>8 DEF Version
  <1>10. executed[c] = <<>>
    BY <1>2, <1>5, <1>6 DEF UpdateInv
  <1>. QED
    BY <1>3, <1>5, <1>6, <1>9, <1>10

LEMMA RanOK ==
    ASSUME KeysInv, NEW c \in Updaters, NEW r, r = req[c], r # None,
           Execute(c) \/ UNCHANGED <<store, executed>>
    PROVE  /\ Grows /\ UNCHANGED clusterId
           /\ executed' \in [Updaters -> Seq(Entry)]
           /\ executed' = [executed EXCEPT ![c] = executed'[c]]
           /\ RanOnce(executed[c], r)'
  <1>1. /\ UpdaterInv(c) /\ LogInv /\ StoreTypeOK /\ r \in Request
        /\ executed \in [Updaters -> Seq(Entry)]
    BY DEF KeysInv, TypeOK, Entry
  <1>2. /\ \A i \in 1..Len(executed[c]) :
              executed[c][i].op = r.op /\ executed[c][i].read = r.obj
        /\ r.op = "update" => UpdateInv(c)
    BY <1>1 DEF UpdaterInv
  <1>3. CASE UNCHANGED <<store, executed>>
    <2>1. UNCHANGED <<clusterId, log, executed, store>>
      BY <1>3 DEF store
    <2>2. Latest' = Latest
      BY <2>1 DEF Latest
    <2>3. RanOnce(executed[c], r)'
      BY <1>2, <2>1, <2>2 DEF RanOnce, UpdateInv
    <2>. QED
      BY <1>1, <2>1, <2>3, UnchangedGrows
  <1>4. ASSUME Accepted(r), WriteRegistry(r.value),
               executed' = [executed EXCEPT ![c] =
                   Append(@, [op |-> r.op, version |-> Version, read |-> r.obj])]
        PROVE  /\ Grows /\ UNCHANGED clusterId
               /\ executed' \in [Updaters -> Seq(Entry)]
               /\ executed' = [executed EXCEPT ![c] = executed'[c]]
               /\ RanOnce(executed[c], r)'
    <2> DEFINE entry == [op |-> r.op, version |-> Version, read |-> r.obj]
               old == executed[c]
    <2>1. /\ r.value \in Contents /\ r.op \in Ops /\ r.obj \in Result \cup {None}
      BY <1>1 DEF Request
    <2>2. Version \in Result \cup {None}
      BY <1>1, VersionHeld DEF VersionOK
    <2>3. entry \in Entry
      BY <2>1, <2>2 DEF Entry
    <2>4. entry.op = r.op /\ entry.read = r.obj /\ entry.version = Version
      OBVIOUS
    <2>5. /\ Grows /\ UNCHANGED clusterId /\ Latest'.rev = Len(log) + 1
      BY <1>1, <1>4, <2>1, WriteGrows
    <2>6. executed' = [executed EXCEPT ![c] = Append(old, entry)] /\ old \in Seq(Entry)
      BY <1>1, <1>4
    <2> HIDE DEF entry
    <2>7. executed'[c] = Append(old, entry)
      BY <1>1, <2>6
    <2>8. executed' \in [Updaters -> Seq(Entry)]
      BY <1>1, <2>3, <2>6
    <2>9. executed' = [executed EXCEPT ![c] = executed'[c]]
      BY <2>6, <2>7
    <2> HIDE DEF old
    <2>10. /\ Len(old) \in Nat /\ Len(Append(old, entry)) = Len(old) + 1
           /\ \A i \in 1..Len(old) : Append(old, entry)[i] = old[i]
           /\ Append(old, entry)[Len(old) + 1] = entry
           /\ Len(old) = 0 => old = <<>>
      BY <2>3, <2>6
    <2>11. \A i \in 1..Len(old) : old[i].op = r.op /\ old[i].read = r.obj
      BY <1>2 DEF old
    <2>12. ASSUME NEW i \in 1..Len(executed'[c])
           PROVE  executed'[c][i].op = r.op /\ executed'[c][i].read = r.obj
      <3>1. CASE i \in 1..Len(old)
        BY <2>7, <2>10, <2>11, <3>1
      <3>2. CASE i = Len(old) + 1
        BY <2>4, <2>7, <2>10, <3>2
      <3>. QED
        BY <2>7, <2>10, <3>1, <3>2
    <2>13. ASSUME r.op = "update", r.obj.cluster = clusterId
           PROVE  /\ Len(executed'[c]) = 1
                  /\ executed'[c][1].version.value = r.obj.value
                  /\ r.obj.index < Latest'.rev
      <3>1. /\ r.obj.index = Latest.rev /\ r.obj.index <= Len(log)
            /\ Version.value = r.obj.value /\ old = <<>>
        BY <1>4, <2>13, AcceptedUpdate DEF old
      <3>2. Len(executed'[c]) = 1 /\ executed'[c][1] = entry
        BY <2>7, <2>10, <3>1
      <3>3. Latest.rev \in Nat /\ Len(log) \in Nat
        BY <1>1, LogTyped
      <3>. QED
        BY <2>4, <2>5, <3>1, <3>2, <3>3
    <2>14. RanOnce(executed[c], r)'
      BY <2>5, <2>12, <2>13 DEF RanOnce
    <2>. QED
      BY <2>5, <2>8, <2>9, <2>14
  <1>. QED
    BY <1>3, <1>4 DEF Execute

\* The invariant of the client whose write went on, or ended.
LEMMA WriteKept ==
    ASSUME KeysInv, NEW c \in Updaters, NEW r, r = req[c], r # None,
           Execute(c) \/ UNCHANGED <<store, executed>>,
           (obj[c] # None => Held(obj[c]))',
           req'[c] = None \/ (req'[c] = r /\ outcome'[c] = "none")
    PROVE  UpdaterInv(c)'
  <1>1. /\ UpdaterInv(c) /\ LogInv /\ StoreTypeOK /\ r \in Request /\ clusterId \in Nat
    BY LogTyped DEF KeysInv, TypeOK
  <1>2. Grows /\ clusterId' = clusterId /\ RanOnce(executed[c], r)'
    BY RanOK
  <1>3. executed'[c] \in Seq(Entry)
    BY RanOK
  <1>4. executed'[c] # <<>> =>
           /\ Len(executed'[c]) \in 1..Len(executed'[c]) /\ 1 \in 1..Len(executed'[c])
           /\ Last(executed[c])' = executed'[c][Len(executed'[c])]
    BY <1>3 DEF Last
  <1>5. /\ \A i \in 1..Len(executed'[c]) :
              executed'[c][i].op = r.op /\ executed'[c][i].read = r.obj
        /\ r.op = "update" /\ r.obj.cluster = clusterId /\ executed'[c] # <<>> =>
              /\ Len(executed'[c]) = 1
              /\ executed'[c][1].version.value = r.obj.value
              /\ r.obj.index < Latest'.rev
    BY <1>2 DEF RanOnce
  <1>6. r.op = "update" => r.obj # None /\ r.obj.cluster <= clusterId
    BY <1>1 DEF UpdaterInv, UpdateInv, Held
  <1>7. OnceInv(c)'
    BY <1>2, <1>4, <1>5 DEF OnceInv
  <1>8. ASSUME req'[c] = r, r.obj # None PROVE Held(req[c].obj)'
    <2>1. r.obj \in Result /\ Held(r.obj)
      BY <1>1, <1>8 DEF UpdaterInv, Request
    <2>2. \A y \in Result : Held(y) => Held(y)'
      BY <1>2 DEF Grows
    <2>. QED
      BY <1>8, <2>1, <2>2 DEF Held
  <1>9. ASSUME req'[c] = r, r.op = "update" PROVE UpdateInv(c)'
    <2>1. UpdateInv(c)
      BY <1>1, <1>9 DEF UpdaterInv
    <2>. QED
      BY <1>2, <1>5, <1>9, <2>1 DEF UpdateInv
  <1>10. \A i \in 1..Len(executed'[c]) : executed'[c][i].op = "update" =>
             executed'[c][i].read # None /\ executed'[c][i].read.cluster <= clusterId'
    BY <1>2, <1>5, <1>6
  <1>. QED
    BY <1>5, <1>7, <1>8, <1>9, <1>10 DEF UpdaterInv

-----------------------------------------------------------------------------
(* A step of one client, or of the store, when its own part is kept. *)

LEMMA UpdaterStep ==
    ASSUME KeysInv, NEW c \in Updaters, Grows, UNCHANGED <<clusterId, cast, watchers>>,
           server' \in [Clients -> Members],
           expected' = expected \/ Learn(c),
           obj' \in [Updaters -> Result \cup {None}],
           req' \in [Updaters -> Request \cup {None}],
           outcome' \in [Updaters -> Exceptions \cup {"none", "ok"}],
           executed' \in [Updaters -> Seq(Entry)],
           \A b \in Updaters \ {c} : UNCHANGED <<obj[b], req[b], outcome[b], executed[b]>>,
           calls' \in 0..MaxCalls, faults' \in 0..MaxFaults,
           UpdaterInv(c)'
    PROVE  KeysInv'
  <1>1. TypeOK /\ LogInv
    BY DEF KeysInv
  <1>2. StoreTypeOK' /\ LogInv'
    BY DEF Grows
  <1>3. clusterId \in 0..MaxCluster /\ clusterId' = clusterId
    BY <1>1, ClustersTyped DEF TypeOK
  <1>4. expected' \in [Clients -> 0..MaxCluster]
    BY <1>1, <1>3 DEF TypeOK, Learn
  <1>5. UNCHANGED <<pc, local, since, yielded, first>>
    BY DEF watchers
  <1>6. TypeOK'
    BY <1>1, <1>2, <1>4, <1>5 DEF TypeOK, Entry
  <1>7. ASSUME NEW b \in Updaters PROVE UpdaterInv(b)'
    <2>1. CASE b = c
      BY <2>1
    <2>2. CASE b # c
      <3>1. UNCHANGED <<obj[b], req[b], outcome[b], executed[b]>>
        BY <2>2
      <3>2. UpdaterInv(b)
        BY DEF KeysInv
      <3>. QED
        BY <1>1, <3>1, <3>2, UpdaterKept
    <2>. QED
      BY <2>1, <2>2
  <1>8. ASSUME NEW w \in Watchers PROVE WatcherInv(w)'
    <2>1. WatcherInv(w)
      BY DEF KeysInv
    <2>2. expected'[w] = expected[w]
      BY <1>1, KeysAssumption DEF TypeOK, Learn, Clients
    <2>. QED
      BY <1>1, <1>3, <1>5, <2>1, <2>2, WatcherKept
  <1>. QED
    BY <1>2, <1>6, <1>7, <1>8 DEF KeysInv

LEMMA WatcherStep ==
    ASSUME KeysInv, NEW w \in Watchers, UNCHANGED <<store, cast, updaters>>,
           server' \in [Clients -> Members],
           expected' = expected \/ Learn(w),
           pc' \in [Watchers -> {"off", "send", "wait", "ended"}],
           local' \in [Watchers -> 0..(MaxIndex + 1)],
           since' \in [Watchers -> 0..(MaxIndex + 1)],
           yielded' \in [Watchers -> Seq(1..MaxIndex)],
           first' \in [Watchers -> 0..(MaxIndex + 1)],
           \A v \in Watchers \ {w} :
              UNCHANGED <<pc[v], local[v], since[v], yielded[v], first[v]>>,
           faults' \in 0..MaxFaults,
           WatcherInv(w)'
    PROVE  KeysInv'
  <1>1. TypeOK /\ LogInv
    BY DEF KeysInv
  <1>2. Grows /\ clusterId' = clusterId /\ StoreTypeOK' /\ LogInv'
    BY <1>1, UnchangedGrows DEF Grows, TypeOK
  <1>3. clusterId \in 0..MaxCluster
    BY <1>1, <1>2, ClustersTyped DEF TypeOK
  <1>4. expected' \in [Clients -> 0..MaxCluster]
    BY <1>1, <1>3 DEF TypeOK, Learn
  <1>5. UNCHANGED <<obj, req, outcome, executed, calls>>
    BY DEF updaters
  <1>6. TypeOK'
    BY <1>1, <1>2, <1>4, <1>5 DEF TypeOK
  <1>7. ASSUME NEW b \in Updaters PROVE UpdaterInv(b)'
    <2>1. UpdaterInv(b)
      BY DEF KeysInv
    <2>. QED
      BY <1>1, <1>2, <1>5, <2>1, UpdaterKept
  <1>8. ASSUME NEW v \in Watchers PROVE WatcherInv(v)'
    <2>1. CASE v = w
      BY <2>1
    <2>2. CASE v # w
      <3>1. WatcherInv(v)
        BY DEF KeysInv
      <3>2. expected'[v] = expected[v]
        BY <1>1, <2>2 DEF TypeOK, Learn, Clients
      <3>3. UNCHANGED <<pc[v], local[v], since[v], yielded[v], first[v]>>
        BY <2>2
      <3>. QED
        BY <1>1, <1>2, <3>1, <3>2, <3>3, WatcherKept
    <2>. QED
      BY <2>1, <2>2
  <1>. QED
    BY <1>2, <1>6, <1>7, <1>8 DEF KeysInv

LEMMA StoreStep ==
    ASSUME KeysInv, Grows, Unmoved, UNCHANGED <<local, since, yielded, first>>,
           \/ UNCHANGED <<clusterId, pc>>
           \/ pc' = [w \in Watchers |-> IF pc[w] = "wait" THEN "send" ELSE pc[w]]
    PROVE  KeysInv'
  <1>1. TypeOK /\ LogInv
    BY DEF KeysInv
  <1>2. StoreTypeOK' /\ LogInv'
    BY DEF Grows
  <1>3. UNCHANGED <<cast, server, expected, obj, req, outcome, executed, calls, faults>>
    BY DEF Unmoved, updaters
  <1>4. /\ pc' \in [Watchers -> {"off", "send", "wait", "ended"}]
        /\ \A w \in Watchers :
              \/ pc'[w] = pc[w] /\ (clusterId' = clusterId \/ pc[w] # "wait")
              \/ pc[w] \in {"send", "wait"} /\ pc'[w] \in {"send", "ended"}
    BY <1>1 DEF TypeOK
  <1>5. TypeOK'
    BY <1>1, <1>2, <1>3, <1>4 DEF TypeOK
  <1>6. ASSUME NEW b \in Updaters PROVE UpdaterInv(b)'
    <2>1. UpdaterInv(b)
      BY DEF KeysInv
    <2>. QED
      BY <1>1, <1>3, <2>1, UpdaterKept
  <1>7. ASSUME NEW w \in Watchers PROVE WatcherInv(w)'
    <2>1. WatcherInv(w)
      BY DEF KeysInv
    <2>. QED
      BY <1>1, <1>3, <1>4, <2>1, WatcherKept
  <1>. QED
    BY <1>2, <1>5, <1>6, <1>7 DEF KeysInv

-----------------------------------------------------------------------------
(* The actions of an updater. *)

LEMMA OutcomesOK ==
    /\ \A status, code : HandleServerResponse(status, code) \in Exceptions \cup {"ok"}
    /\ "EtcdConnectionFailed" \in Exceptions /\ "EtcdClusterIdChanged" \in Exceptions
  <1>1. Exceptions = {"EtcdException", "EtcdValueError", "EtcdCompareFailed",
            "EtcdDirNotEmpty", "EtcdClusterIdChanged", "EtcdKeyError",
            "EtcdKeyNotFound", "EtcdNotFile", "EtcdNotDir", "EtcdAlreadyExist",
            "EtcdRootReadOnly", "EtcdEventIndexCleared", "EtcdConnectionFailed",
            "EtcdWatchTimedOut", "EtcdInsufficientPermissions",
            "EtcdWatcherCleared", "EtcdLeaderElectionInProgress", "EtcdLockExpired"}
    BY DEF Exceptions, Base
  <1>2. \A code : ErrorExceptions(code) \in Exceptions
    BY <1>1 DEF ErrorExceptions
  <1>3. \A status, code : Handle(status, code) \in Exceptions
    BY <1>1, <1>2 DEF Handle
  <1>. QED
    BY <1>1, <1>3 DEF HandleServerResponse

LEMMA ExecutedStarts ==
    ASSUME TypeOK, NEW c \in Updaters
    PROVE  [executed EXCEPT ![c] = <<>>] \in [Updaters -> Seq(Entry)]
  <1>1. executed \in [Updaters -> Seq(Entry)]
    BY DEF TypeOK, Entry
  <1>2. <<>> \in Seq(Entry)
    OBVIOUS
  <1>. QED
    BY <1>1, <1>2

LEMMA FaultOK ==
    ASSUME KeysInv, Fault
    PROVE  faults' \in 0..MaxFaults
  BY KeysAssumption DEF KeysInv, TypeOK, Fault

LEMMA ReadOK ==
    ASSUME KeysInv, NEW c \in Updaters, Read(c)
    PROVE  KeysInv'
  <1> USE DEF Read
  <1>1. TypeOK /\ LogInv /\ UpdaterInv(c) /\ server[c] \in Members
    BY DEF KeysInv, TypeOK, Clients
  <1>2. Grows /\ UNCHANGED clusterId
    BY <1>1, UnchangedGrows DEF TypeOK
  <1>3. /\ obj' \in [Updaters -> Result \cup {None}]
        /\ \A b \in Updaters \ {c} : obj'[b] = obj[b]
        /\ (obj[c] # None => Held(obj[c]))'
    <2>1. CASE obj' = obj
      <3>1. ASSUME obj[c] # None PROVE Held(obj[c])'
        <4>1. obj[c] \in Result /\ Held(obj[c])
          BY <1>1, <3>1 DEF TypeOK, UpdaterInv
        <4>2. \A y \in Result : Held(y) => Held(y)'
          BY <1>2 DEF Grows
        <4>. QED
          BY <2>1, <4>1, <4>2 DEF Held
      <3>. QED
        BY <1>1, <2>1, <3>1 DEF TypeOK
    <2>2. CASE /\ StateAt(server[c]) # NoRegistry
               /\ obj' = [obj EXCEPT ![c] = ResultFrom(server[c])]
      <3>0. PICK x : x = ResultFrom(server[c])
        OBVIOUS
      <3>i. PICK i : i = applied[server[c]]
        OBVIOUS
      <3>1. /\ i \in 1..Len(log) /\ log[i].services # NoRegistry
            /\ x = [value |-> log[i].services, index |-> log[i].rev, cluster |-> clusterId]
        BY <1>1, <2>2, <3>0, <3>i DEF LogInv, StateAt, ResultFrom
      <3>2. x \in Result /\ Held(x)
        BY <1>1, <3>1, NodeHeld DEF TypeOK
      <3>3. \A y \in Result : Held(y) => Held(y)'
        BY <1>2 DEF Grows
      <3>4. obj' = [obj EXCEPT ![c] = x] /\ obj'[c] = x
        BY <1>1, <2>2, <3>0 DEF TypeOK
      <3>5. Held(obj[c])'
        BY <3>2, <3>3, <3>4 DEF Held
      <3>. QED
        BY <1>1, <3>2, <3>4, <3>5 DEF TypeOK
    <2>. QED
      BY <2>1, <2>2
  <1>4. /\ req' = req /\ req[c] = None
        /\ executed' = [executed EXCEPT ![c] = <<>>]
        /\ outcome' = [outcome EXCEPT ![c] = "none"]
    BY DEF Ends
  <1>5. executed' \in [Updaters -> Seq(Entry)]
    BY <1>1, <1>4, ExecutedStarts
  <1>6. outcome' \in [Updaters -> Exceptions \cup {"none", "ok"}]
    BY <1>1, <1>4 DEF TypeOK
  <1>7. req'[c] = None /\ executed'[c] = <<>> /\ outcome'[c] = "none"
    BY <1>1, <1>4 DEF TypeOK
  <1>8. UpdaterInv(c)'
    BY <1>3, <1>7 DEF UpdaterInv, OnceInv
  <1>9. \A b \in Updaters \ {c} : UNCHANGED <<obj[b], req[b], outcome[b], executed[b]>>
    BY <1>1, <1>3, <1>4 DEF TypeOK
  <1>10. /\ server' \in [Clients -> Members] /\ req' \in [Updaters -> Request \cup {None}]
         /\ calls' \in 0..MaxCalls /\ faults' \in 0..MaxFaults
    BY <1>1 DEF TypeOK
  <1>. QED
    BY <1>2, <1>3, <1>5, <1>6, <1>8, <1>9, <1>10, UpdaterStep

\* Every write starts with the object its caller holds.
LEMMA SendsOK ==
    ASSUME KeysInv, NEW c \in Updaters, NEW r \in Request, Sends(c, r), r.obj = obj[c],
           r.op = "update" => /\ r.obj # None /\ r.prevIndex = r.obj.index
                              /\ r.prevValue = None /\ r.prevExist = "true"
    PROVE  KeysInv'
  <1>1. TypeOK /\ LogInv /\ UpdaterInv(c)
    BY DEF KeysInv
  <1>2. /\ UNCHANGED <<store, cast, server, expected, obj, watchers, faults>>
        /\ calls < MaxCalls /\ calls' = calls + 1
        /\ req' = [req EXCEPT ![c] = r]
        /\ executed' = [executed EXCEPT ![c] = <<>>]
        /\ outcome' = [outcome EXCEPT ![c] = "none"]
    BY DEF Sends, Ends
  <1>3. Grows /\ clusterId' = clusterId
    BY <1>1, <1>2, UnchangedGrows DEF TypeOK
  <1>4. /\ req' \in [Updaters -> Request \cup {None}]
        /\ outcome' \in [Updaters -> Exceptions \cup {"none", "ok"}]
        /\ executed' \in [Updaters -> Seq(Entry)]
    <2>1. /\ req \in [Updaters -> Request \cup {None}]
          /\ outcome \in [Updaters -> Exceptions \cup {"none", "ok"}]
      BY <1>1 DEF TypeOK
    <2>. QED
      BY <1>1, <1>2, <2>1, ExecutedStarts
  <1>5. req'[c] = r /\ executed'[c] = <<>> /\ outcome'[c] = "none" /\ obj'[c] = obj[c]
    BY <1>1, <1>2 DEF TypeOK
  <1>6. ASSUME obj[c] # None PROVE Held(obj[c])' /\ Held(req[c].obj)'
    <2>1. obj[c] \in Result /\ Held(obj[c])
      BY <1>1, <1>6 DEF TypeOK, UpdaterInv
    <2>2. \A y \in Result : Held(y) => Held(y)'
      BY <1>3 DEF Grows
    <2>. QED
      BY <1>5, <2>1, <2>2 DEF Held
  <1>7. r.op = "update" => UpdateInv(c)'
    BY <1>5 DEF UpdateInv
  <1>8. UpdaterInv(c)'
    BY <1>5, <1>6, <1>7 DEF UpdaterInv, OnceInv
  <1>9. \A b \in Updaters \ {c} : UNCHANGED <<obj[b], req[b], outcome[b], executed[b]>>
    BY <1>1, <1>2 DEF TypeOK
  <1>10. calls' \in 0..MaxCalls
    BY <1>1, <1>2, KeysAssumption DEF TypeOK
  <1>11. /\ server' \in [Clients -> Members] /\ obj' \in [Updaters -> Result \cup {None}]
         /\ faults' \in 0..MaxFaults
    BY <1>1, <1>2 DEF TypeOK
  <1>12. UNCHANGED <<clusterId, cast, watchers>> /\ expected' = expected
    BY <1>2, <1>3
  <1>. QED
    BY <1>3, <1>4, <1>8, <1>9, <1>10, <1>11, <1>12, UpdaterStep

LEMMA WritesOK ==
    ASSUME KeysInv, NEW c \in Updaters, NEW v \in Snapshots,
           Create(c, v) \/ Update(c, v) \/ TestAndSet(c, v)
    PROVE  KeysInv'
  <1>1. obj[c] \in Result \cup {None}
    BY DEF KeysInv, TypeOK
  <1>2. /\ obj[c] # None => obj[c].index \in Nat /\ obj[c].value \in Snapshots
        /\ v \in Contents
    BY <1>1 DEF Result, Contents
  <1>3. CASE Create(c, v)
    <2> DEFINE r == Write("create", v, 0, None, "false", obj[c])
    <2>1. Sends(c, r)
      BY <1>3 DEF Create
    <2>2. r \in Request /\ r.obj = obj[c] /\ r.op = "create"
      BY <1>1, <1>2 DEF Write, Request, Ops
    <2> HIDE DEF r
    <2>. QED
      BY <2>1, <2>2, SendsOK
  <1>4. CASE Update(c, v)
    <2> DEFINE r == UpdateRequest(obj[c], v)
    <2>1. Sends(c, r) /\ obj[c] # None
      BY <1>4 DEF Update
    <2>2. /\ r \in Request /\ r.obj = obj[c] /\ r.prevIndex = r.obj.index
          /\ r.prevValue = None /\ r.prevExist = "true"
      BY <1>1, <1>2, <2>1 DEF UpdateRequest, Write, Request, Ops
    <2> HIDE DEF r
    <2>. QED
      BY <2>1, <2>2, SendsOK
  <1>5. CASE TestAndSet(c, v)
    <2> DEFINE r == Write("test_and_set", v, 0, obj[c].value, "any", obj[c])
    <2>1. Sends(c, r) /\ obj[c] # None
      BY <1>5 DEF TestAndSet
    <2>2. r \in Request /\ r.obj = obj[c] /\ r.op = "test_and_set"
      BY <1>1, <1>2, <2>1 DEF Write, Request, Ops
    <2> HIDE DEF r
    <2>. QED
      BY <2>1, <2>2, SendsOK
  <1>. QED
    BY <1>3, <1>4, <1>5

LEMMA DeleteOK ==
    ASSUME KeysInv, NEW c \in Updaters, Delete(c)
    PROVE  KeysInv'
  <1> DEFINE r == Write("delete", NoRegistry, obj[c].index, None, "any", obj[c])
  <1>1. Sends(c, r) /\ obj[c] # None
    BY DEF Delete
  <1>2. obj[c] \in Result /\ obj[c].index \in Nat
    BY <1>1 DEF KeysInv, TypeOK, Result
  <1>3. r \in Request /\ r.obj = obj[c] /\ r.op = "delete"
    BY <1>2 DEF Write, Request, Ops, Contents
  <1> HIDE DEF r
  <1>. QED
    BY <1>1, <1>3, SendsOK

LEMMA AnswerOK ==
    ASSUME KeysInv, NEW c \in Updaters, Answer(c)
    PROVE  KeysInv'
  <1> DEFINE r == req[c]
             how == HandleServerResponse(Verdict(r)[1], Verdict(r)[2])
  <1>1. TypeOK /\ LogInv /\ UpdaterInv(c)
    BY DEF KeysInv
  <1>2. /\ r # None /\ Execute(c) /\ expected' = [expected EXCEPT ![c] = clusterId]
        /\ req' = [req EXCEPT ![c] = None]
        /\ \/ outcome' = [outcome EXCEPT ![c] = "EtcdClusterIdChanged"]
           \/ outcome' = [outcome EXCEPT ![c] = how]
        /\ obj' = obj \/ obj' = [obj EXCEPT ![c] = Version']
        /\ UNCHANGED <<cast, server, calls, watchers, faults>>
    BY DEF Answer, Learn, Ends
  <1>3. how \in Exceptions \cup {"ok"} /\ "EtcdClusterIdChanged" \in Exceptions
    BY OutcomesOK
  <1> HIDE DEF how, r
  <1>4. /\ Grows /\ UNCHANGED clusterId
        /\ executed' \in [Updaters -> Seq(Entry)]
        /\ executed' = [executed EXCEPT ![c] = executed'[c]]
    BY <1>2, RanOK DEF r
  <1>5. Version' = None \/ (Version' \in Result /\ Held(Version)')
    <2>1. StoreTypeOK' /\ LogInv'
      BY <1>4 DEF Grows
    <2>2. VersionOK'
      BY <2>1, VersionHeld, PTL
    <2>. QED
      BY <2>2 DEF VersionOK
  <1>6. /\ obj' \in [Updaters -> Result \cup {None}]
        /\ \A b \in Updaters \ {c} : obj'[b] = obj[b]
        /\ obj'[c] = obj[c] \/ obj'[c] = Version'
    BY <1>1, <1>2, <1>5 DEF TypeOK
  <1>7. ASSUME obj'[c] # None PROVE Held(obj[c])'
    <2>1. CASE obj'[c] = obj[c]
      <3>1. obj[c] \in Result /\ Held(obj[c])
        BY <1>1, <1>7, <2>1 DEF TypeOK, UpdaterInv
      <3>2. \A y \in Result : Held(y) => Held(y)'
        BY <1>4 DEF Grows
      <3>. QED
        BY <2>1, <3>1, <3>2 DEF Held
    <2>2. CASE obj'[c] = Version'
      BY <1>5, <1>7, <2>2 DEF Held
    <2>. QED
      BY <1>6, <2>1, <2>2
  <1>8. /\ req' \in [Updaters -> Request \cup {None}] /\ req'[c] = None
        /\ outcome' \in [Updaters -> Exceptions \cup {"none", "ok"}]
    BY <1>1, <1>2, <1>3 DEF TypeOK
  <1>9. UpdaterInv(c)'
    BY <1>2, <1>7, <1>8, WriteKept DEF r
  <1>10. \A b \in Updaters \ {c} : req'[b] = req[b] /\ outcome'[b] = outcome[b]
    BY <1>1, <1>2 DEF TypeOK
  <1>11. \A b \in Updaters \ {c} : executed'[b] = executed[b]
    BY <1>4
  <1>12. /\ server' \in [Clients -> Members] /\ calls' \in 0..MaxCalls
         /\ faults' \in 0..MaxFaults /\ UNCHANGED <<cast, watchers>> /\ Learn(c)
    BY <1>1, <1>2 DEF TypeOK, Learn
  <1>13. \A b \in Updaters \ {c} : UNCHANGED <<obj[b], req[b], outcome[b], executed[b]>>
    BY <1>6, <1>10, <1>11
  <1>. QED
    BY <1>4, <1>6, <1>8, <1>9, <1>12, <1>13, UpdaterStep

LEMMA NoAnswerOK ==
    ASSUME KeysInv, NEW c \in Updaters, NoAnswer(c)
    PROVE  KeysInv'
  <1> DEFINE r == req[c]
  <1>1. TypeOK /\ LogInv /\ UpdaterInv(c)
    BY DEF KeysInv
  <1>2. /\ r # None
        /\ Execute(c) \/ UNCHANGED <<store, executed>>
        /\ expected' = expected \/ Learn(c)
        /\ \/ FailOver(c) /\ UNCHANGED <<req, outcome>>
           \/ /\ req' = [req EXCEPT ![c] = None]
              /\ outcome' = [outcome EXCEPT ![c] = "EtcdConnectionFailed"]
              /\ UNCHANGED server
        /\ UNCHANGED <<cast, obj, calls, watchers>>
    BY DEF NoAnswer, MayLearn, Ends
  <1>3. faults' \in 0..MaxFaults
    BY FaultOK DEF NoAnswer
  <1>4. /\ Grows /\ UNCHANGED clusterId
        /\ executed' \in [Updaters -> Seq(Entry)]
        /\ executed' = [executed EXCEPT ![c] = executed'[c]]
    BY <1>2, RanOK
  <1>5. ASSUME obj'[c] # None PROVE Held(obj[c])'
    <2>1. obj'[c] = obj[c]
      BY <1>2
    <2>2. obj[c] \in Result /\ Held(obj[c])
      BY <1>1, <1>5, <2>1 DEF TypeOK, UpdaterInv
    <2>3. \A y \in Result : Held(y) => Held(y)'
      BY <1>4 DEF Grows
    <2>. QED
      BY <2>1, <2>2, <2>3 DEF Held
  <1>6. /\ req' \in [Updaters -> Request \cup {None}]
        /\ outcome' \in [Updaters -> Exceptions \cup {"none", "ok"}]
        /\ \A b \in Updaters \ {c} : req'[b] = req[b] /\ outcome'[b] = outcome[b]
        /\ req'[c] = None \/ (req'[c] = r /\ outcome'[c] = "none")
    <2>1. /\ req \in [Updaters -> Request \cup {None}]
          /\ outcome \in [Updaters -> Exceptions \cup {"none", "ok"}]
          /\ outcome[c] = "none"
      BY <1>1, <1>2 DEF TypeOK, UpdaterInv
    <2>2. CASE UNCHANGED <<req, outcome>>
      BY <2>1, <2>2
    <2>3. CASE /\ req' = [req EXCEPT ![c] = None]
               /\ outcome' = [outcome EXCEPT ![c] = "EtcdConnectionFailed"]
      BY <2>1, <2>3, OutcomesOK
    <2>. QED
      BY <1>2, <2>2, <2>3
  <1>7. UpdaterInv(c)'
    BY <1>2, <1>5, <1>6, WriteKept
  <1>8. server' \in [Clients -> Members]
    BY <1>1, <1>2 DEF TypeOK, FailOver
  <1>9. \A b \in Updaters \ {c} : UNCHANGED <<obj[b], req[b], outcome[b], executed[b]>>
    <2>1. \A b \in Updaters \ {c} : executed'[b] = executed[b]
      BY <1>4
    <2>. QED
      BY <1>2, <1>6, <2>1
  <1>10. /\ obj' \in [Updaters -> Result \cup {None}] /\ calls' \in 0..MaxCalls
         /\ UNCHANGED <<cast, watchers>>
    BY <1>1, <1>2 DEF TypeOK
  <1>11. expected' = expected \/ Learn(c)
    BY <1>2
  <1>. QED
    BY <1>3, <1>4, <1>6, <1>7, <1>8, <1>9, <1>10, <1>11, UpdaterStep

-----------------------------------------------------------------------------
(* The actions of a generator. *)

LEMMA IndexOK ==
    ASSUME StoreTypeOK, LogInv, NEW m \in Members
    PROVE  /\ applied[m] \in 1..Len(log) /\ applied[m] \in Nat /\ Len(log) <= MaxIndex
           /\ log[applied[m]].rev \in Nat /\ log[applied[m]].rev <= applied[m]
           /\ Len(log) \in Nat /\ MaxIndex \in Nat
  BY LogTyped, KeysAssumption DEF LogInv

LEMMA EternalWatchOK ==
    ASSUME KeysInv, NEW w \in Watchers, EternalWatch(w)
    PROVE  KeysInv'
  <1>1. TypeOK /\ LogInv /\ WatcherInv(w) /\ server[w] \in Members /\ StoreTypeOK
    BY DEF KeysInv, TypeOK, Clients
  <1>2. /\ pc[w] = "off" /\ pc' = [pc EXCEPT ![w] = "send"]
        /\ UNCHANGED <<store, cast, server, since, yielded, updaters, faults>>
        /\ \/ UNCHANGED <<local, first, expected>>
           \/ \E index \in {log[applied[server[w]]].rev + 1, applied[server[w]] + 1} :
                 /\ local' = [local EXCEPT ![w] = index]
                 /\ first' = [first EXCEPT ![w] = index]
                 /\ Learn(w)
    BY DEF EternalWatch, Goto, IndexAt
  <1>3. UNCHANGED <<clusterId, log>> /\ clusterId \in Nat \ {0} /\ Len(log) \in Nat
    BY <1>1, <1>2, LogTyped DEF store, StoreTypeOK
  <1>4. /\ expected[w] = 0 /\ local[w] = 0 /\ first[w] = 0 /\ yielded[w] = <<>>
        /\ pc'[w] = "send" /\ yielded'[w] = <<>>
        /\ pc' \in [Watchers -> {"off", "send", "wait", "ended"}]
    BY <1>1, <1>2 DEF TypeOK, WatcherInv
  <1>5. CASE UNCHANGED <<local, first, expected>>
    <2>1. ~Running(w)'
      BY <1>3, <1>4, <1>5 DEF Running
    <2>2. WatcherInv(w)'
      BY <1>3, <1>4, <1>5, <2>1 DEF WatcherInv
    <2>3. /\ server' \in [Clients -> Members] /\ expected' = expected
          /\ local' \in [Watchers -> 0..(MaxIndex + 1)]
          /\ since' \in [Watchers -> 0..(MaxIndex + 1)]
          /\ yielded' \in [Watchers -> Seq(1..MaxIndex)]
          /\ first' \in [Watchers -> 0..(MaxIndex + 1)]
          /\ faults' \in 0..MaxFaults
      BY <1>1, <1>2, <1>5 DEF TypeOK
    <2>4. \A v \in Watchers \ {w} :
             UNCHANGED <<pc[v], local[v], since[v], yielded[v], first[v]>>
      BY <1>1, <1>2, <1>5 DEF TypeOK
    <2>. QED
      BY <1>2, <1>4, <2>2, <2>3, <2>4, WatcherStep
  <1>6. ASSUME NEW index \in {log[applied[server[w]]].rev + 1, applied[server[w]] + 1},
               local' = [local EXCEPT ![w] = index], first' = [first EXCEPT ![w] = index],
               Learn(w)
        PROVE  KeysInv'
    <2>1. index \in 1..(MaxIndex + 1) /\ index - 1 <= Len(log) /\ index \in Nat
      BY <1>1, IndexOK
    <2>2. /\ expected'[w] = clusterId /\ local'[w] = index /\ first'[w] = index
          /\ local' \in [Watchers -> 0..(MaxIndex + 1)]
          /\ first' \in [Watchers -> 0..(MaxIndex + 1)]
      BY <1>1, <1>6, <2>1 DEF TypeOK, Learn, Clients
    <2>3. Events(first[w], local[w] - 1)' = {}
      BY <2>1, <2>2 DEF Events
    <2>4. Range(<<>>) = {} /\ DOMAIN <<>> = {}
      BY DEF Range
    <2>5. YieldInv(w)'
      BY <1>3, <1>4, <2>1, <2>2, <2>3, <2>4 DEF YieldInv
    <2>6. WatcherInv(w)'
      BY <1>3, <1>4, <2>1, <2>2, <2>5 DEF WatcherInv
    <2>7. /\ server' \in [Clients -> Members]
          /\ since' \in [Watchers -> 0..(MaxIndex + 1)]
          /\ yielded' \in [Watchers -> Seq(1..MaxIndex)]
          /\ faults' \in 0..MaxFaults
      BY <1>1, <1>2 DEF TypeOK
    <2>8. \A v \in Watchers \ {w} :
             UNCHANGED <<pc[v], local[v], since[v], yielded[v], first[v]>>
      BY <1>1, <1>2, <1>6 DEF TypeOK
    <2>. QED
      BY <1>2, <1>4, <1>6, <2>2, <2>6, <2>7, <2>8, WatcherStep
  <1>. QED
    BY <1>2, <1>5, <1>6

\* Nothing is yielded before the first index is known.
LEMMA NoneYielded ==
    ASSUME NEW w \in Watchers, Len(log) \in Nat,
           local[w] = 0, first[w] = 0, yielded[w] = <<>>
    PROVE  YieldInv(w)
  <1>1. Events(0, 0 - 1) = {}
    BY DEF Events
  <1>2. Range(<<>>) = {} /\ DOMAIN <<>> = {}
    BY DEF Range
  <1>3. Events(first[w], local[w] - 1) = {} /\ local[w] - 1 <= Len(log)
    BY <1>1
  <1>4. /\ Range(yielded[w]) = {}
        /\ \A i, j \in DOMAIN yielded[w] : i < j => yielded[w][i] < yielded[w][j]
    BY <1>2
  <1>. QED
    BY <1>3, <1>4 DEF YieldInv

LEMMA WatchSendOK ==
    ASSUME KeysInv, NEW w \in Watchers, WatchSend(w)
    PROVE  KeysInv'
  <1>1. TypeOK /\ LogInv /\ WatcherInv(w) /\ server[w] \in Members /\ StoreTypeOK
    BY DEF KeysInv, TypeOK, Clients
  <1>2. /\ pc[w] = "send" /\ Learn(w)
        /\ \/ pc' = [pc EXCEPT ![w] = "ended"] /\ UNCHANGED since
           \/ /\ ~Foreign(w) /\ pc' = [pc EXCEPT ![w] = "wait"]
              /\ since' = [since EXCEPT ![w] = IF local[w] = 0 THEN applied[server[w]] + 1
                                               ELSE local[w]]
        /\ UNCHANGED <<store, cast, server, local, yielded, first, updaters, faults>>
    BY DEF WatchSend, Goto, IndexAt
  <1>3. /\ UNCHANGED <<clusterId, log, local, yielded, first>>
        /\ clusterId \in Nat \ {0} /\ Len(log) \in Nat
    BY <1>1, <1>2, LogTyped DEF store, StoreTypeOK
  <1>4. expected'[w] = clusterId
    BY <1>1, <1>2 DEF TypeOK, Learn, Clients
  <1>5. /\ server' \in [Clients -> Members]
        /\ local' \in [Watchers -> 0..(MaxIndex + 1)]
        /\ yielded' \in [Watchers -> Seq(1..MaxIndex)]
        /\ first' \in [Watchers -> 0..(MaxIndex + 1)]
        /\ faults' \in 0..MaxFaults
    BY <1>1, <1>2, <1>3 DEF TypeOK
  <1>6. /\ pc' \in [Watchers -> {"off", "send", "wait", "ended"}]
        /\ since' \in [Watchers -> 0..(MaxIndex + 1)]
        /\ \A v \in Watchers \ {w} : UNCHANGED <<pc[v], since[v]>>
        /\ \/ pc'[w] = "ended"
           \/ /\ ~Foreign(w) /\ pc'[w] = "wait"
              /\ since'[w] = IF local[w] = 0 THEN applied[server[w]] + 1 ELSE local[w]
    <2>1. /\ pc \in [Watchers -> {"off", "send", "wait", "ended"}]
          /\ since \in [Watchers -> 0..(MaxIndex + 1)]
          /\ local[w] \in 0..(MaxIndex + 1)
      BY <1>1 DEF TypeOK
    <2>2. applied[server[w]] + 1 \in 0..(MaxIndex + 1)
      BY <1>1, IndexOK
    <2>. QED
      BY <1>2, <2>1, <2>2
  <1>7. \A v \in Watchers \ {w} : UNCHANGED <<pc[v], local[v], since[v], yielded[v], first[v]>>
    BY <1>3, <1>6
  <1>8. WatcherInv(w)'
    <2>1. CASE pc'[w] = "ended"
      <3>1. ~Running(w)'
        BY <2>1 DEF Running
      <3>. QED
        BY <1>1, <1>3, <1>4, <2>1, <3>1 DEF WatcherInv
    <2>2. CASE /\ ~Foreign(w) /\ pc'[w] = "wait"
               /\ since'[w] = IF local[w] = 0 THEN applied[server[w]] + 1 ELSE local[w]
      <3>1. YieldInv(w)
        <4>1. CASE expected[w] = clusterId
          BY <1>1, <1>2, <4>1 DEF WatcherInv, Running
        <4>2. CASE expected[w] = 0
          BY <1>1, <1>3, <4>2, NoneYielded DEF WatcherInv
        <4>. QED
          BY <2>2, <4>1, <4>2 DEF Foreign
      <3>2. YieldInv(w)'
        <4>1. /\ local'[w] = local[w] /\ yielded'[w] = yielded[w] /\ first'[w] = first[w]
              /\ log' = log
          BY <1>3
        <4>2. Events(first[w], local[w] - 1)' = Events(first[w], local[w] - 1)
          BY <4>1 DEF Events
        <4>. QED
          BY <3>1, <4>1, <4>2 DEF YieldInv
      <3>. QED
        BY <1>1, <1>3, <1>4, <2>2, <3>2 DEF WatcherInv
    <2>. QED
      BY <1>6, <2>1, <2>2
  <1>. QED
    BY <1>2, <1>5, <1>6, <1>7, <1>8, WatcherStep

LEMMA RangeOfAppend ==
    ASSUME NEW S, NEW s \in Seq(S), NEW e \in S
    PROVE  Range(Append(s, e)) = Range(s) \cup {e}
  <1>1. /\ Len(s) \in Nat /\ DOMAIN s = 1..Len(s) /\ DOMAIN Append(s, e) = 1..(Len(s) + 1)
        /\ \A i \in 1..Len(s) : Append(s, e)[i] = s[i]
        /\ Append(s, e)[Len(s) + 1] = e
    OBVIOUS
  <1> DEFINE t == Append(s, e)
  <1>2. /\ \A i \in DOMAIN s : i \in DOMAIN t /\ t[i] = s[i]
        /\ \A i \in DOMAIN t : i = Len(s) + 1 \/ i \in DOMAIN s
        /\ Len(s) + 1 \in DOMAIN t /\ t[Len(s) + 1] = e
    BY <1>1
  <1> HIDE DEF t
  <1>3. Range(t) = Range(s) \cup {e}
    BY <1>2 DEF Range
  <1>. QED
    BY <1>3 DEF t

\* The next event follows those yielded, and there is none between.
LEMMA NextEvent ==
    ASSUME NEW from \in Nat, NEW next \in Nat, NEW i \in Nat,
           Len(log) \in Nat, DOMAIN log = 1..Len(log), from <= next, next <= i, from # 0,
           i \in 1..Len(log), log[i].rev = i,
           \A j \in next..(i - 1) : log[j].rev # j
    PROVE  Events(from, i) = Events(from, next - 1) \cup {i}
  <1>1. ASSUME NEW j \in from..i
        PROVE  j \in from..(next - 1) \/ j \in next..(i - 1) \/ j = i
    OBVIOUS
  <1>2. \A j \in from..(next - 1) : j \in from..i
    OBVIOUS
  <1>3. i \in from..i
    OBVIOUS
  <1>. QED
    BY <1>1, <1>2, <1>3 DEF Events

LEMMA WatchYieldOK ==
    ASSUME KeysInv, NEW w \in Watchers, WatchYield(w)
    PROVE  KeysInv'
  <1>1. TypeOK /\ LogInv /\ WatcherInv(w) /\ server[w] \in Members /\ StoreTypeOK
    BY DEF KeysInv, TypeOK, Clients
  <1>2. PICK i \in 1..MaxIndex : Yield(w, i, i + 1)
    BY DEF WatchYield
  <1>3. /\ pc[w] = "wait" /\ IsFirstEvent(server[w], since[w], i)
        /\ yielded' = [yielded EXCEPT ![w] = Append(yielded[w], i)]
        /\ local' = [local EXCEPT ![w] = i + 1]
        /\ first' = [first EXCEPT ![w] = IF first[w] = 0 THEN i ELSE first[w]]
        /\ pc' = [pc EXCEPT ![w] = "send"]
        /\ UNCHANGED <<store, cast, server, expected, since, updaters, faults>>
    BY <1>2 DEF Yield, Goto
  <1>4. /\ UNCHANGED <<clusterId, log, expected>> /\ clusterId \in Nat \ {0}
        /\ Len(log) \in Nat /\ DOMAIN log = 1..Len(log) /\ MaxIndex \in Nat
    BY <1>1, <1>3, LogTyped, KeysAssumption DEF store, StoreTypeOK
  <1>5. /\ local[w] \in Nat /\ first[w] \in Nat /\ since[w] \in Nat
        /\ first[w] \in 0..(MaxIndex + 1)
        /\ yielded[w] \in Seq(1..MaxIndex) /\ i \in Nat /\ applied[server[w]] <= Len(log)
        /\ applied[server[w]] \in Nat
    BY <1>1, <1>4, IndexOK DEF TypeOK
  <1>6. /\ since[w] <= i /\ i \in 1..Len(log) /\ log[i].rev = i
        /\ \A j \in since[w]..(i - 1) : log[j].rev # j
    BY <1>3, <1>4, <1>5 DEF IsFirstEvent
  <1>7. /\ expected[w] = clusterId /\ Running(w) /\ YieldInv(w)
        /\ local[w] = 0 => first[w] = 0 /\ yielded[w] = <<>>
        /\ local[w] # 0 => first[w] \in 1..local[w] /\ since[w] = local[w]
    BY <1>1, <1>3 DEF WatcherInv, Running
  <1>8. /\ yielded'[w] = Append(yielded[w], i) /\ local'[w] = i + 1
        /\ first'[w] = (IF first[w] = 0 THEN i ELSE first[w]) /\ pc'[w] = "send"
    BY <1>1, <1>3 DEF TypeOK
  <1>9. Events(first'[w], i) = Events(first[w], local[w] - 1) \cup {i}
    <2>1. CASE local[w] = 0
      <3>1. first[w] = 0 /\ first'[w] = i
        BY <1>7, <1>8, <2>1
      <3>2. Events(0, 0 - 1) = {}
        BY DEF Events
      <3>3. Events(i, i) = {i}
        <4>1. \A j \in i..i : j = i
          BY <1>5
        <4>2. i \in i..i
          BY <1>5
        <4>. QED
          BY <1>4, <1>6, <4>1, <4>2 DEF Events
      <3>. QED
        BY <2>1, <3>1, <3>2, <3>3
    <2>2. CASE local[w] # 0
      <3>1. first'[w] = first[w] /\ first[w] # 0 /\ first[w] <= local[w] /\ local[w] <= i
        BY <1>5, <1>6, <1>7, <1>8, <2>2
      <3>2. \A j \in local[w]..(i - 1) : log[j].rev # j
        BY <1>6, <1>7, <2>2
      <3>3. \A from, next, e \in Nat :
               /\ from <= next /\ next <= e /\ from # 0 /\ e \in 1..Len(log) /\ log[e].rev = e
               /\ \A j \in next..(e - 1) : log[j].rev # j
               => Events(from, e) = Events(from, next - 1) \cup {e}
        BY <1>4, NextEvent
      <3>4. first[w] \in Nat /\ local[w] \in Nat /\ i \in Nat
        BY <1>5
      <3>5. i \in 1..Len(log) /\ log[i].rev = i
        BY <1>6
      <3>6. Events(first[w], i) = Events(first[w], local[w] - 1) \cup {i}
        BY ONLY <3>1, <3>2, <3>3, <3>4, <3>5
      <3>. QED
        BY <3>1, <3>6
    <2>. QED
      BY <2>1, <2>2
  <1>10. Range(yielded'[w]) = Events(first[w], local[w] - 1)'
    <2>1. Range(Append(yielded[w], i)) = Range(yielded[w]) \cup {i}
      <3> DEFINE S == 1..MaxIndex
      <3>1. yielded[w] \in Seq(S) /\ i \in S
        BY <1>2, <1>5
      <3> HIDE DEF S
      <3>. QED
        BY <3>1, RangeOfAppend
    <2>2. Range(yielded[w]) = Events(first[w], local[w] - 1)
      BY <1>7 DEF YieldInv
    <2>3. local'[w] - 1 = i
      BY <1>5, <1>8
    <2>4. Events(first[w], local[w] - 1)' = Events(first'[w], i)
      BY <1>4, <2>3 DEF Events
    <2>. QED
      BY <1>8, <1>9, <2>1, <2>2, <2>4
  <1>11. \A j \in DOMAIN yielded[w] : yielded[w][j] < i
    <2>1. CASE local[w] = 0
      BY <1>7, <2>1
    <2>2. CASE local[w] # 0
      <3>1. \A x \in Events(first[w], local[w] - 1) : x <= local[w] - 1 /\ x \in Int
        BY <1>5 DEF Events
      <3>2. \A j \in DOMAIN yielded[w] : yielded[w][j] \in Range(yielded[w])
        BY DEF Range
      <3>3. local[w] <= i
        BY <1>6, <1>7, <2>2
      <3>. QED
        BY <1>5, <1>7, <3>1, <3>2, <3>3 DEF YieldInv
    <2>. QED
      BY <2>1, <2>2
  <1>12. \A j, k \in DOMAIN yielded'[w] : j < k => yielded'[w][j] < yielded'[w][k]
    <2> DEFINE y == yielded[w]
               z == Append(yielded[w], i)
    <2>1. /\ Len(y) \in Nat /\ DOMAIN y = 1..Len(y) /\ DOMAIN z = 1..(Len(y) + 1)
          /\ \A j \in 1..Len(y) : z[j] = y[j] /\ z[Len(y) + 1] = i
      BY <1>5
    <2>2. z[Len(y) + 1] = i
      BY <1>5
    <2>3. \A j, k \in DOMAIN y : j < k => y[j] < y[k]
      BY <1>7 DEF YieldInv
    <2>4. \A j \in DOMAIN y : y[j] < i
      BY <1>11
    <2> HIDE DEF y, z
    <2>5. ASSUME NEW j \in DOMAIN z, NEW k \in DOMAIN z, j < k
          PROVE  z[j] < z[k]
      <3>1. j \in 1..Len(y) /\ (k \in 1..Len(y) \/ k = Len(y) + 1)
        BY <2>1, <2>5
      <3>. QED
        BY <2>1, <2>2, <2>3, <2>4, <2>5, <3>1
    <2>. QED
      BY <1>8, <2>5 DEF z
  <1>13. YieldInv(w)'
    <2>1. local'[w] - 1 <= Len(log')
      BY <1>4, <1>5, <1>6, <1>8
    <2>. QED
      BY ONLY <1>10, <1>12, <2>1 DEF YieldInv
  <1>14. WatcherInv(w)'
    <2>1. expected'[w] = clusterId' /\ clusterId' # 0 /\ clusterId' \in Nat
      BY <1>4, <1>7
    <2>2. local'[w] # 0 /\ first'[w] \in 1..local'[w]
      BY <1>5, <1>6, <1>7, <1>8
    <2>. QED
      BY <1>8, <1>13, <2>1, <2>2 DEF WatcherInv
  <1>15. /\ server' \in [Clients -> Members]
         /\ since' \in [Watchers -> 0..(MaxIndex + 1)]
         /\ pc' \in [Watchers -> {"off", "send", "wait", "ended"}]
         /\ faults' \in 0..MaxFaults
    BY <1>1, <1>3 DEF TypeOK
  <1>16. local' \in [Watchers -> 0..(MaxIndex + 1)]
    BY <1>1, <1>3, <1>4, <1>5 DEF TypeOK
  <1>17. first' \in [Watchers -> 0..(MaxIndex + 1)]
    <2>1. (IF first[w] = 0 THEN i ELSE first[w]) \in 0..(MaxIndex + 1)
      BY <1>4, <1>5
    <2>. QED
      BY <1>1, <1>3, <2>1 DEF TypeOK
  <1>18. yielded' \in [Watchers -> Seq(1..MaxIndex)]
    <2>1. Append(yielded[w], i) \in Seq(1..MaxIndex)
      BY <1>5
    <2>. QED
      BY <1>1, <1>3, <2>1 DEF TypeOK
  <1>19. \A v \in Watchers \ {w} :
             UNCHANGED <<pc[v], local[v], since[v], yielded[v], first[v]>>
    BY <1>1, <1>3 DEF TypeOK
  <1>. QED
    BY <1>3, <1>14, <1>15, <1>16, <1>17, <1>18, <1>19, WatcherStep

LEMMA WatchFailsOK ==
    ASSUME KeysInv, NEW w \in Watchers, WatchFails(w)
    PROVE  KeysInv'
  <1>1. TypeOK /\ LogInv /\ WatcherInv(w) /\ StoreTypeOK
    BY DEF KeysInv, TypeOK
  <1>2. /\ pc[w] \in {"send", "wait"}
        /\ pc' = [pc EXCEPT ![w] = "send"] \/ pc' = [pc EXCEPT ![w] = "ended"]
        /\ FailOver(w) \/ UNCHANGED server
        /\ UNCHANGED <<store, cast, expected, local, since, yielded, first, updaters>>
    BY DEF WatchFails, Goto
  <1>3. faults' \in 0..MaxFaults
    BY FaultOK DEF WatchFails
  <1>4. pc'[w] \in {"send", "ended"} /\ pc' \in [Watchers -> {"off", "send", "wait", "ended"}]
    BY <1>1, <1>2 DEF TypeOK
  <1>5. Grows /\ UNCHANGED clusterId
    BY <1>1, <1>2, UnchangedGrows
  <1>6. WatcherInv(w)'
    BY <1>1, <1>2, <1>4, <1>5, WatcherKept
  <1>7. server' \in [Clients -> Members]
    BY <1>1, <1>2 DEF TypeOK, FailOver
  <1>8. /\ local' \in [Watchers -> 0..(MaxIndex + 1)]
        /\ since' \in [Watchers -> 0..(MaxIndex + 1)]
        /\ yielded' \in [Watchers -> Seq(1..MaxIndex)]
        /\ first' \in [Watchers -> 0..(MaxIndex + 1)]
    BY <1>1, <1>2 DEF TypeOK
  <1>9. \A v \in Watchers \ {w} :
             UNCHANGED <<pc[v], local[v], since[v], yielded[v], first[v]>>
    BY <1>1, <1>2 DEF TypeOK
  <1>. QED
    BY <1>2, <1>3, <1>4, <1>6, <1>7, <1>8, <1>9, WatcherStep

-----------------------------------------------------------------------------
(* The invariant. *)

LEMMA WorldOK ==
    ASSUME KeysInv, Rebuild \/ Others \/ Elsewhere \/ \E m \in Members : Replicates(m)
    PROVE  KeysInv'
  <1>1. StoreTypeOK /\ LogInv
    BY DEF KeysInv, TypeOK
  <1>2. CASE Rebuild
    <2>1. Grows
      BY <1>1, <1>2, ReplaceGrows DEF Rebuild
    <2>. QED
      BY <1>2, <2>1, StoreStep DEF Rebuild
  <1>3. CASE Others
    <2>1. Grows /\ UNCHANGED clusterId
      BY <1>1, <1>3, WriteGrows DEF Others
    <2>. QED
      BY <1>3, <2>1, StoreStep DEF Others, watchers
  <1>4. CASE Elsewhere
    <2>1. Grows /\ UNCHANGED clusterId
      BY <1>1, <1>4, ElsewhereGrows DEF Elsewhere
    <2>. QED
      BY <1>4, <2>1, StoreStep DEF Elsewhere, watchers
  <1>5. ASSUME NEW m \in Members, Replicates(m) PROVE KeysInv'
    <2>1. Grows /\ UNCHANGED clusterId
      BY <1>1, <1>5, ReplicateGrows DEF Replicates
    <2>. QED
      BY <1>5, <2>1, StoreStep DEF Replicates, watchers
  <1>. QED
    BY <1>2, <1>3, <1>4, <1>5

LEMMA StutterOK ==
    ASSUME KeysInv, UNCHANGED vars
    PROVE  KeysInv'
  <1>1. UNCHANGED store /\ Unmoved /\ UNCHANGED watchers
    BY DEF vars, Unmoved
  <1>2. Grows /\ UNCHANGED clusterId
    BY <1>1, UnchangedGrows DEF KeysInv, TypeOK
  <1>. QED
    BY <1>1, <1>2, StoreStep DEF watchers

LEMMA InitKeysInv == Init => KeysInv
  <1> SUFFICES ASSUME Init PROVE KeysInv
    OBVIOUS
  <1> USE DEF Init
  <1>1. PICK s \in Contents : log = FreshLog(s)
    OBVIOUS
  <1>2. /\ Len(log) = 1 /\ log \in Seq(LogEntry) /\ log[1].services = s
        /\ log[1].rev = IF s = NoRegistry THEN 0 ELSE 1
    BY <1>1, FreshOK
  <1>3. MaxIndex \in Nat \ {0} /\ MaxCluster \in Nat \ {0}
    BY KeysAssumption
  <1>4. StoreTypeOK
    <2>1. clusterId \in 1..MaxCluster
      BY <1>3
    <2>2. applied \in [Members -> Nat]
      OBVIOUS
    <2>. QED
      BY <1>2, <2>1, <2>2 DEF StoreTypeOK, Contents
  <1>5. LogInv
    <2>1. ASSUME NEW i \in 1..Len(log)
          PROVE  /\ log[i].rev <= i
                 /\ log[i].services # NoRegistry => log[i].rev # 0
                 /\ log[i].rev # 0 => log[log[i].rev] = log[i]
      <3>1. i = 1
        BY <1>2
      <3>. QED
        BY <1>2, <3>1
    <2>2. Len(log) \in 1..MaxIndex /\ \A m \in Members : applied[m] \in 1..Len(log)
      BY <1>2, <1>3
    <2>. QED
      BY <2>1, <2>2 DEF LogInv
  <1>6. TypeOK
    <2>1. <<>> \in Seq(Entry) /\ <<>> \in Seq(1..MaxIndex)
      OBVIOUS
    <2>2. executed \in [Updaters -> Seq(Entry)] /\ yielded \in [Watchers -> Seq(1..MaxIndex)]
      BY <2>1
    <2>3. /\ cast \in Casts /\ server \in [Clients -> Members]
          /\ obj \in [Updaters -> Result \cup {None}]
          /\ req \in [Updaters -> Request \cup {None}]
          /\ outcome \in [Updaters -> Exceptions \cup {"none", "ok"}]
          /\ pc \in [Watchers -> {"off", "send", "wait", "ended"}]
      OBVIOUS
    <2>4. /\ expected \in [Clients -> 0..MaxCluster]
          /\ local \in [Watchers -> 0..(MaxIndex + 1)]
          /\ since \in [Watchers -> 0..(MaxIndex + 1)]
          /\ first \in [Watchers -> 0..(MaxIndex + 1)]
          /\ calls \in 0..MaxCalls /\ faults \in 0..MaxFaults
      BY <1>3, KeysAssumption
    <2>. QED
      BY <1>4, <2>2, <2>3, <2>4 DEF TypeOK, Entry
  <1>7. ASSUME NEW c \in Updaters PROVE UpdaterInv(c)
    <2>1. obj[c] = None /\ req[c] = None /\ outcome[c] = "none" /\ executed[c] = <<>>
      OBVIOUS
    <2>. QED
      BY <2>1 DEF UpdaterInv, OnceInv
  <1>8. ASSUME NEW w \in Watchers PROVE WatcherInv(w)
    <2>1. /\ expected[w] = 0 /\ local[w] = 0 /\ first[w] = 0 /\ yielded[w] = <<>>
          /\ pc[w] = "off" /\ clusterId = 1
      BY DEF Clients
    <2>. QED
      BY <2>1 DEF WatcherInv, Running
  <1>. QED
    BY <1>5, <1>6, <1>7, <1>8 DEF KeysInv

LEMMA StepKeysInv == KeysInv /\ [Next]_vars => KeysInv'
  <1> SUFFICES ASSUME KeysInv, [Next]_vars PROVE KeysInv'
    OBVIOUS
  <1>1. CASE UNCHANGED vars
    BY <1>1, StutterOK
  <1>2. ASSUME NEW c \in Updaters \cap cast,
               \/ Read(c)
               \/ \E v \in Snapshots : Create(c, v) \/ Update(c, v) \/ TestAndSet(c, v)
               \/ Delete(c) \/ Answer(c) \/ NoAnswer(c)
        PROVE  KeysInv'
    BY <1>2, ReadOK, WritesOK, DeleteOK, AnswerOK, NoAnswerOK
  <1>3. ASSUME NEW w \in Watchers \cap cast,
               EternalWatch(w) \/ Watching(w) \/ WatchFails(w)
        PROVE  KeysInv'
    BY <1>3, EternalWatchOK, WatchSendOK, WatchYieldOK, WatchFailsOK DEF Watching
  <1>. QED
    BY <1>1, <1>2, <1>3, WorldOK DEF Next

LEMMA KeysInvariant == Spec => []KeysInv
  BY InitKeysInv, StepKeysInv, PTL DEF Spec

\* Whatever a client holds, sends and is answered is of its type; in particular
\* no write ends with anything but an exception of python-etcd
\* (client.py:457-464, 793-852).
THEOREM KeysTypeCorrect == Spec => []TypeOK
  <1>1. KeysInv => TypeOK
    BY DEF KeysInv
  <1>. QED
    BY <1>1, KeysInvariant, PTL

\* An update that returns was executed once and replaced the value that its
\* caller had read, however often it was sent and whoever wrote in between
\* (client.py:466-489, 793-849).
THEOREM UpdatesAreOnce == Spec => []UpdatesOnce
  <1>1. KeysInv => \A c \in Updaters : OnceInv(c)
    BY DEF KeysInv, UpdaterInv
  <1>2. KeysInv => UpdatesOnce
    BY <1>1 DEF UpdatesOnce, OnceInv
  <1>. QED
    BY <1>2, KeysInvariant, PTL

\* A generator that has not ended has yielded every change from its first index
\* to its local_index, in order and once, for any number of members, each as far
\* behind as it may be, and however often it failed over (client.py:714-737).
THEOREM EveryChangeIsYieldedOnce == Spec => []EveryChangeOnce
  <1>1. KeysInv => \A w \in Watchers : Running(w) => YieldInv(w)
    BY DEF KeysInv, WatcherInv
  <1>2. KeysInv => EveryChangeOnce
    BY <1>1 DEF EveryChangeOnce, YieldInv
  <1>. QED
    BY <1>2, KeysInvariant, PTL
=============================================================================
