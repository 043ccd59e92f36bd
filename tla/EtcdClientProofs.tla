-------------------------- MODULE EtcdClientProofs --------------------------
(***************************************************************************)
(* Proofs about EtcdClient, for every list of hosts and of members, every  *)
(* naming of the servers and every number of changes and lost answers.     *)
(***************************************************************************)
EXTENDS EtcdClient, FiniteSetTheorems, SequenceTheorems, TLAPS

\* The cache never lists a name twice, although `machines' replaces it and
\* three ways to take a name out of it are mixed.
CacheInv == TypeOK /\ IsInjective(cache)

\* While a request runs, each member is known to the client or was tried.
Covered == Members \subseteq Known \cup unreached

CoverInv ==
    /\ pc = "init" => ~complete
    /\ pc \in {"send", "refresh"} /\ mode = "cluster" /\ complete => Covered
    /\ GivesUpOnlyAfterTryingAll

\* What the caller trusts is what _check_cluster_id compares with.
TrustInv == trusted \in {0, expected}

-----------------------------------------------------------------------------
(* Sequences without repetition. *)

LEMMA OrderOK ==
    ASSUME NEW S, IsFiniteSet(S), NEW f \in SetToSeqs(S)
    PROVE  f \in Seq(S) /\ IsInjective(f) /\ Range(f) = S
  <1> DEFINE D == 1..Cardinality(S)
  <1>1. Cardinality(S) \in Nat
    BY FS_CardinalityType
  <1>2. f \in [D -> S] /\ IsInjective(f)
    BY DEF SetToSeqs, IsInjective
  <1>3. f \in Seq(S)
    BY <1>1, <1>2
  <1>4. IsFiniteSet(D) /\ Cardinality(D) = Cardinality(S)
    BY <1>1, FS_Interval
  <1>5. f \in Injection(D, S)
    BY <1>2 DEF Injection
  <1>6. f \in Surjection(D, S)
    BY <1>4, <1>5, FS_Injection
  <1>. QED
    BY <1>2, <1>3, <1>6 DEF Surjection, Range

LEMMA RangeFinite ==
    ASSUME NEW S, NEW s \in Seq(S)
    PROVE  IsFiniteSet(Range(s))
  <1>1. DOMAIN s = 1..Len(s) /\ Len(s) \in Nat
    OBVIOUS
  <1>2. IsFiniteSet(1..Len(s))
    BY <1>1, FS_Interval
  <1>3. s \in Surjection(1..Len(s), Range(s))
    <2>1. s \in [1..Len(s) -> Range(s)]
      BY <1>1 DEF Range
    <2>. QED
      BY <1>1, <2>1 DEF Surjection, Range
  <1>. QED
    BY <1>2, <1>3, FS_Surjection

LEMMA TailOK ==
    ASSUME NEW S, NEW s \in Seq(S), s # <<>>, IsInjective(s)
    PROVE  /\ Head(s) \in S /\ Tail(s) \in Seq(S) /\ IsInjective(Tail(s))
           /\ Head(s) \notin Range(Tail(s))
           /\ Range(s) = {Head(s)} \cup Range(Tail(s))
  <1>1. /\ Len(s) \in Nat \ {0} /\ DOMAIN s = 1..Len(s) /\ Head(s) = s[1]
        /\ s[1] \in S
    OBVIOUS
  <1>2. /\ Tail(s) \in Seq(S) /\ Len(Tail(s)) = Len(s) - 1
        /\ \A i \in 1..Len(Tail(s)) : Tail(s)[i] = s[i + 1]
        /\ DOMAIN Tail(s) = 1..Len(Tail(s))
    BY HeadTailProperties
  <1>3. IsInjective(Tail(s)) /\ Head(s) \notin Range(Tail(s))
    BY <1>1, <1>2 DEF IsInjective, Range
  <1>4. Range(s) = {Head(s)} \cup Range(Tail(s))
    <2> DEFINE t == Tail(s)
    <2> HIDE DEF t
    <2>1. \A i \in DOMAIN s : i = 1 \/ (i - 1 \in DOMAIN t /\ s[i] = t[i - 1])
      BY <1>1, <1>2 DEF t
    <2>2. \A i \in DOMAIN t : i + 1 \in DOMAIN s /\ t[i] = s[i + 1]
      BY <1>1, <1>2 DEF t
    <2>3. Range(s) \subseteq {s[1]} \cup Range(t)
      BY <2>1 DEF Range
    <2>4. Range(t) \subseteq Range(s) /\ s[1] \in Range(s)
      BY <1>1, <2>2 DEF Range
    <2>. QED
      BY <1>1, <2>3, <2>4 DEF t
  <1>. QED
    BY <1>1, <1>2, <1>3, <1>4

LEMMA FrontOK ==
    ASSUME NEW S, NEW s \in Seq(S), s # <<>>, IsInjective(s)
    PROVE  /\ Last(s) \in S /\ Front(s) \in Seq(S) /\ IsInjective(Front(s))
           /\ Last(s) \notin Range(Front(s))
           /\ Range(s) = {Last(s)} \cup Range(Front(s))
  <1>1. Len(s) \in Nat \ {0} /\ DOMAIN s = 1..Len(s) /\ Last(s) = s[Len(s)] /\ Last(s) \in S
    BY DEF Last
  <1>2. \A i \in 1..(Len(s) - 1) : s[i] \in S
    BY <1>1
  <1>3. /\ Front(s) \in Seq(S) /\ Len(Front(s)) = Len(s) - 1
        /\ \A i \in 1..(Len(s) - 1) : Front(s)[i] = s[i]
    BY <1>1, <1>2, SubSeqProperties DEF Front
  <1>4. DOMAIN Front(s) = 1..(Len(s) - 1)
    BY <1>1, <1>3
  <1>5. DOMAIN s = {Len(s)} \cup DOMAIN Front(s) /\ Len(s) \notin DOMAIN Front(s)
    BY <1>1, <1>4
  <1>6. IsInjective(Front(s)) /\ Last(s) \notin Range(Front(s))
    BY <1>1, <1>3, <1>4, <1>5 DEF IsInjective, Range
  <1>7. Range(s) = {Last(s)} \cup Range(Front(s))
    BY <1>1, <1>3, <1>4, <1>5 DEF Range
  <1>. QED
    BY <1>1, <1>3, <1>6, <1>7

\* cache.remove takes out the one occurrence there is.
LEMMA WithoutOK ==
    ASSUME NEW S, NEW s \in Seq(S), IsInjective(s), NEW n \in Range(s)
    PROVE  /\ Without(s, n) \in Seq(S) /\ IsInjective(Without(s, n))
           /\ Range(Without(s, n)) = Range(s) \ {n}
  <1>1. Len(s) \in Nat /\ DOMAIN s = 1..Len(s) /\ \A i \in 1..Len(s) : s[i] \in S
    OBVIOUS
  <1> DEFINE First(i) == s[i] = n /\ \A j \in 1..(i - 1) : s[j] # n
             k == CHOOSE i \in DOMAIN s : First(i)
  <1>2. PICK i \in DOMAIN s : s[i] = n
    BY DEF Range
  <1>3. First(i)
    BY <1>1, <1>2 DEF IsInjective
  <1>4. k \in DOMAIN s /\ s[k] = n
    BY <1>3
  <1> DEFINE a == SubSeq(s, 1, k - 1)
             b == SubSeq(s, k + 1, Len(s))
             w == Without(s, n)
  <1>5. w = a \o b
    BY DEF Without, RemoveAt
  <1>6. k \in Nat /\ 1 <= k /\ k <= Len(s)
    BY <1>1, <1>4
  <1> HIDE DEF k
  <1>7. a \in Seq(S) /\ Len(a) = k - 1 /\ \A j \in 1..(k - 1) : a[j] = s[j]
    <2>1. \A j \in 1..(k - 1) : s[j] \in S
      BY <1>1, <1>6
    <2>. QED
      BY <2>1, <1>6, SubSeqProperties
  <1>8. b \in Seq(S) /\ Len(b) = Len(s) - k /\ \A j \in 1..(Len(s) - k) : b[j] = s[k + j]
    <2>1. \A j \in (k + 1)..Len(s) : s[j] \in S
      BY <1>1, <1>6
    <2>2. k + 1 \in Int /\ Len(s) \in Int
      BY <1>1, <1>6
    <2>3. /\ b \in Seq(S)
          /\ Len(b) = IF k + 1 <= Len(s) THEN Len(s) - (k + 1) + 1 ELSE 0
          /\ \A j \in 1..(Len(s) - (k + 1) + 1) : b[j] = s[(k + 1) + j - 1]
      BY ONLY <2>1, <2>2, SubSeqProperties
    <2> HIDE DEF b
    <2>4. Len(b) = Len(s) - k
      <3>1. ASSUME NEW L \in Nat, NEW m \in 1..L
            PROVE  (IF m + 1 <= L THEN L - (m + 1) + 1 ELSE 0) = L - m
        OBVIOUS
      <3>. QED
        BY <3>1, <2>3, <1>1, <1>4
    <2>5. \A j \in 1..(Len(s) - k) : b[j] = s[k + j]
      <3> TAKE j \in 1..(Len(s) - k)
      <3>1. (k + 1) + j - 1 = k + j /\ j \in 1..(Len(s) - (k + 1) + 1)
        BY <1>1, <1>6
      <3>. QED
        BY <3>1, <2>3
    <2>. QED
      BY <2>3, <2>4, <2>5
  <1> HIDE DEF a, b
  <1>9. /\ w \in Seq(S) /\ Len(w) = Len(s) - 1
        /\ \A j \in 1..(Len(s) - 1) : w[j] = IF j < k THEN s[j] ELSE s[j + 1]
    <2>1. /\ w \in Seq(S) /\ Len(w) = Len(a) + Len(b)
          /\ \A j \in 1..(Len(a) + Len(b)) : w[j] = IF j <= Len(a) THEN a[j] ELSE b[j - Len(a)]
      <3>1. /\ a \o b \in Seq(S) /\ Len(a \o b) = Len(a) + Len(b)
            /\ \A j \in 1..(Len(a) + Len(b)) :
                   (a \o b)[j] = IF j <= Len(a) THEN a[j] ELSE b[j - Len(a)]
        BY <1>7, <1>8, ConcatProperties
      <3>. QED
        BY <3>1, <1>5
    <2>2. ASSUME NEW j \in 1..(Len(s) - 1)
          PROVE  w[j] = IF j < k THEN s[j] ELSE s[j + 1]
      <3>1. CASE j < k
        <4>1. j <= Len(a) /\ j \in 1..(k - 1) /\ j \in 1..(Len(a) + Len(b))
          BY <3>1, <1>1, <1>6, <1>7, <1>8
        <4>. QED
          BY <4>1, <3>1, <2>1, <1>7
      <3>2. CASE j >= k
        <4>1. j - (k - 1) \in 1..(Len(s) - k) /\ k + (j - (k - 1)) = j + 1
          BY <3>2, <1>1, <1>6
        <4>2. w[j] = b[j - (k - 1)]
          BY <3>2, <2>1, <1>1, <1>6, <1>7, <1>8
        <4>. QED
          BY <4>1, <4>2, <3>2, <1>6, <1>8
      <3>. QED
        BY <3>1, <3>2, <1>6
    <2>. QED
      BY <2>1, <2>2, <1>1, <1>6, <1>7, <1>8
  <1> HIDE DEF w
  <1>10. DOMAIN w = 1..(Len(s) - 1)
    BY <1>1, <1>9
  <1>11. IsInjective(w)
    <2> SUFFICES ASSUME NEW x \in 1..(Len(s) - 1), NEW y \in 1..(Len(s) - 1), w[x] = w[y]
                 PROVE  x = y
      BY <1>10 DEF IsInjective
    <2> DEFINE Old(j) == IF j < k THEN j ELSE j + 1
    <2>1. \A j \in 1..(Len(s) - 1) : Old(j) \in DOMAIN s /\ w[j] = s[Old(j)]
      BY <1>1, <1>6, <1>9
    <2>2. Old(x) = Old(y)
      BY <2>1 DEF IsInjective
    <2>. QED
      BY <2>2, <1>1, <1>6
  <1>12. \A j \in 1..(Len(s) - 1) : w[j] \in Range(s) /\ w[j] # n
    BY <1>1, <1>4, <1>6, <1>9 DEF IsInjective, Range
  <1>13. ASSUME NEW j \in 1..Len(s), s[j] # n PROVE s[j] \in Range(w)
    <2>1. CASE j < k
      BY <2>1, <1>1, <1>6, <1>9, <1>10 DEF Range
    <2>2. CASE j > k
      <3>1. j - 1 \in 1..(Len(s) - 1) /\ ~(j - 1 < k) /\ (j - 1) + 1 = j
        BY <2>2, <1>1, <1>6
      <3>2. w[j - 1] = s[j]
        BY <3>1, <1>9
      <3>. QED
        BY <3>1, <3>2, <1>10 DEF Range
    <2>. QED
      BY <2>1, <2>2, <1>4, <1>13, <1>6
  <1>14. Range(w) = Range(s) \ {n}
    BY <1>1, <1>10, <1>12, <1>13 DEF Range
  <1>. QED
    BY <1>9, <1>11, <1>14 DEF w

-----------------------------------------------------------------------------
(* Types, and the cache. *)

LEMMA NamesFinite ==
    /\ Range(Tail(Hosts)) \subseteq Names /\ Head(Hosts) \in Names
    /\ Tail(Hosts) \in Seq(Names) /\ IsInjective(Tail(Hosts))
    /\ Head(Hosts) \notin Range(Tail(Hosts))
    /\ Advertised \subseteq Names /\ Advertised # {}
    /\ \A n \in Names : IsFiniteSet((Range(Tail(Hosts)) \cup Advertised) \ {n})
  <1>1. Hosts \in Seq(Range(Hosts)) /\ Hosts # <<>> /\ IsInjective(Hosts)
    BY ClientAssumption DEF IsInjective
  <1>2. /\ Head(Hosts) \in Range(Hosts) /\ Tail(Hosts) \in Seq(Range(Hosts))
        /\ IsInjective(Tail(Hosts)) /\ Head(Hosts) \notin Range(Tail(Hosts))
        /\ Range(Hosts) = {Head(Hosts)} \cup Range(Tail(Hosts))
    BY <1>1, TailOK
  <1>3. Tail(Hosts) \in Seq(Names)
    BY <1>2, SeqMonotonic DEF Names
  <1>4. IsFiniteSet(Range(Tail(Hosts)))
    BY <1>2, RangeFinite
  <1>5. IsFiniteSet(Range(Tail(Hosts)) \cup Advertised)
    BY <1>4, FS_Union, ClientAssumption
  <1>6. \A n \in Names : IsFiniteSet((Range(Tail(Hosts)) \cup Advertised) \ {n})
    BY <1>5, FS_Difference
  <1>. QED
    BY <1>2, <1>3, <1>6, ClientAssumption DEF Names

LEMMA InitCacheInv == Init => CacheInv /\ SpareIsAnotherName
  <1> SUFFICES ASSUME Init PROVE CacheInv /\ SpareIsAnotherName
    OBVIOUS
  <1>1. cache \in Seq(Names) /\ IsInjective(cache) /\ base \notin Range(cache) /\ base \in Names
    BY NamesFinite DEF Init, IsInjective, Range
  <1>2. status \in [Servers -> {"up", "stuck", "down"}] /\ mode \in Modes
    BY ClientAssumption DEF Init
  <1>3. pc \in {"init", "idle", "send", "refresh", "unusable"} /\ outcome \in Outcomes
    BY DEF Init, Outcomes
  <1>4. cluster \in Nat /\ changes \in 0..MaxChanges /\ lost \in 0..MaxLost
    BY ClientAssumption DEF Init
  <1>5. TypeOK
    BY <1>1, <1>2, <1>3, <1>4 DEF Init, TypeOK
  <1>. QED
    BY <1>1, <1>5 DEF CacheInv, SpareIsAnotherName

\* What a call of `machines' does to the server in use and to the cache.
LEMMA MachinesOK ==
    ASSUME CacheInv, MachinesRetry
    PROVE  /\ base' \in Names /\ cache' \in Seq(Names) /\ IsInjective(cache')
           /\ base' \notin Range(cache') /\ Range(cache) = {base'} \cup Range(cache')
           /\ unreached' = unreached \cup {ServerOf(base)} /\ unreached' \subseteq Servers
  <1>1. cache \in Seq(Names) /\ cache # <<>> /\ IsInjective(cache) /\ base \in Names
        /\ unreached \subseteq Servers
    BY DEF CacheInv, TypeOK, MachinesRetry
  <1>2. ServerOf(base) \in Servers
    BY <1>1, ClientAssumption
  <1>. QED
    BY <1>1, <1>2, TailOK DEF MachinesRetry

\* The list that `machines' returns holds each member once.
LEMMA MachinesListed ==
    ASSUME NEW names, MachinesAnswers(names)
    PROVE  names \in Seq(Names) /\ IsInjective(names) /\ Range(names) = Advertised
  <1>1. names \in Seq(Advertised) /\ IsInjective(names) /\ Range(names) = Advertised
    BY OrderOK, ClientAssumption DEF MachinesAnswers
  <1>. QED
    BY <1>1, SeqMonotonic, NamesFinite

LEMMA NoResponseOK ==
    ASSUME CacheInv, NoResponse
    PROVE  /\ lost' \in 0..MaxLost /\ expected' \in Nat
           /\ unreached' = unreached \cup {ServerOf(base)} /\ unreached' \subseteq Servers
           /\ pc = "send"
           /\ UNCHANGED <<status, cluster, changes, mode, kind, answered, complete, trusted>>
  <1>1. ServerOf(base) \in Servers
    BY ClientAssumption DEF CacheInv, TypeOK
  <1>. QED
    BY <1>1, ClientAssumption DEF NoResponse, CacheInv, TypeOK

\* The three ways of a refresh to go on.
LEMMA RefreshOK ==
    ASSUME CacheInv, Refresh
    PROVE  /\ UNCHANGED <<world, mode, expected, kind, failed, answered, complete, trusted>>
           /\ pc = "refresh" /\ mode = "cluster"
           /\ \/ MachinesRetry /\ UNCHANGED <<pc, outcome>>
              \/ /\ cache = <<>> /\ UNCHANGED <<base, cache>>
                 /\ unreached' = unreached \cup {ServerOf(base)}
                 /\ pc' = "idle" /\ outcome' = "EtcdException"
              \/ /\ UNCHANGED <<base, unreached>>
                 /\ cache' \in Seq(Names) /\ IsInjective(cache')
                 /\ Range(cache') = Advertised \ {base}
                 /\ \/ pc' = "idle" /\ outcome' \in {"ok", "ValueError"}
                    \/ pc' = "send" /\ UNCHANGED outcome
  <1>1. CASE MachinesRetry /\ UNCHANGED <<pc, outcome>>
    BY <1>1 DEF Refresh
  <1>2. CASE MachinesGivesUp /\ Ends("EtcdException")
    BY <1>2 DEF Refresh, MachinesGivesUp, Ends
  <1>3. ASSUME NEW names \in SetToSeqs(Advertised), MachinesAnswers(names),
               IF base \in Range(names)
               THEN /\ cache' = Without(names, base)
                    /\ IF answered THEN Ends("ok")
                                   ELSE pc' = "send" /\ UNCHANGED outcome
               ELSE /\ cache' = names
                    /\ Ends("ValueError")
        PROVE  /\ UNCHANGED <<base, unreached>>
               /\ cache' \in Seq(Names) /\ IsInjective(cache')
               /\ Range(cache') = Advertised \ {base}
               /\ \/ pc' = "idle" /\ outcome' \in {"ok", "ValueError"}
                  \/ pc' = "send" /\ UNCHANGED outcome
    <2>1. names \in Seq(Names) /\ IsInjective(names) /\ Range(names) = Advertised
      BY <1>3, MachinesListed
    <2>2. UNCHANGED <<base, unreached>>
      BY <1>3 DEF MachinesAnswers
    <2>3. CASE base \in Range(names)
      BY <1>3, <2>1, <2>2, <2>3, WithoutOK DEF Ends
    <2>4. CASE base \notin Range(names)
      BY <1>3, <2>1, <2>2, <2>4 DEF Ends
    <2>. QED
      BY <2>3, <2>4
  <1>. QED
    BY <1>1, <1>2, <1>3 DEF Refresh

LEMMA ConstructOK ==
    ASSUME CacheInv, Construct
    PROVE  /\ UNCHANGED <<world, mode, expected, kind, failed, answered, complete, trusted>>
           /\ pc = "init"
           /\ \/ MachinesRetry /\ UNCHANGED <<pc, outcome>>
              \/ /\ UNCHANGED <<base, cache>> /\ unreached' = unreached \cup {ServerOf(base)}
                 /\ pc' = "unusable" /\ outcome' = "EtcdException"
              \/ /\ UNCHANGED <<base, unreached, outcome>>
                 /\ cache' \in Seq(Names) /\ IsInjective(cache')
                 /\ base \notin Range(cache')
                 /\ pc' = "idle"
  <1>1. CASE MachinesRetry /\ UNCHANGED <<pc, outcome>>
    BY <1>1 DEF Construct
  <1>2. CASE MachinesGivesUp /\ pc' = "unusable" /\ outcome' = "EtcdException"
    BY <1>2 DEF Construct, MachinesGivesUp
  <1>3. ASSUME NEW names, MachinesAnswers(names), UNCHANGED outcome, pc' = "idle",
               cache' \in SetToSeqs((Range(Tail(Hosts)) \cup Advertised) \ {base})
        PROVE  /\ UNCHANGED <<base, unreached, outcome>>
               /\ cache' \in Seq(Names) /\ IsInjective(cache')
               /\ base \notin Range(cache')
    <2> DEFINE S == (Range(Tail(Hosts)) \cup Advertised) \ {base}
    <2>1. IsFiniteSet(S) /\ S \subseteq Names
      BY NamesFinite DEF CacheInv, TypeOK
    <2>2. cache' \in Seq(S) /\ IsInjective(cache') /\ Range(cache') = S
      BY <1>3, <2>1, OrderOK
    <2>3. cache' \in Seq(Names)
      BY <2>1, <2>2, SeqMonotonic
    <2>. QED
      BY <1>3, <2>2, <2>3 DEF MachinesAnswers
  <1>. QED
    BY <1>1, <1>2, <1>3 DEF Construct

LEMMA StepCacheInv ==
    CacheInv /\ SpareIsAnotherName /\ [Next]_vars => CacheInv' /\ SpareIsAnotherName'
  <1> SUFFICES ASSUME CacheInv, SpareIsAnotherName, [Next]_vars
               PROVE  CacheInv' /\ SpareIsAnotherName'
    OBVIOUS
  <1> USE DEF world, link, request
  <1>1. CASE Construct
    <2>1. /\ base' \in Names /\ cache' \in Seq(Names) /\ IsInjective(cache')
          /\ unreached' \subseteq Servers /\ pc' \in {"init", "idle", "unusable"}
          /\ outcome' \in Outcomes /\ (pc' = "idle" => base' \notin Range(cache'))
      <3>1. ServerOf(base) \in Servers
        BY ClientAssumption DEF CacheInv, TypeOK
      <3>. QED
        BY <1>1, <3>1, ConstructOK, MachinesOK DEF CacheInv, TypeOK, Outcomes
    <2>2. UNCHANGED <<world, mode, expected, kind, failed, answered, complete, trusted>>
      BY <1>1, ConstructOK
    <2>. QED
      BY <2>1, <2>2 DEF CacheInv, TypeOK, SpareIsAnotherName
  <1>2. CASE OtherCluster
    BY <1>2 DEF OtherCluster, Ends, CacheInv, TypeOK, SpareIsAnotherName, Outcomes
  <1>3. CASE Answer
    BY <1>3 DEF Answer, Ends, CacheInv, TypeOK, SpareIsAnotherName, Outcomes
  <1>4. CASE WatchTimesOut
    BY <1>4 DEF WatchTimesOut, Ends, CacheInv, TypeOK, SpareIsAnotherName, Outcomes
  <1>5. CASE GiveUp
    BY <1>5, NoResponseOK DEF GiveUp, Ends, CacheInv, TypeOK, SpareIsAnotherName, Outcomes
  <1>6. CASE FailOver
    <2>1. cache \in Seq(Names) /\ cache # <<>> /\ IsInjective(cache)
      BY <1>6 DEF FailOver, CacheInv, TypeOK
    <2>2. /\ base' \in Names /\ cache' \in Seq(Names) /\ IsInjective(cache')
          /\ base' \notin Range(cache')
      BY <1>6, <2>1, FrontOK DEF FailOver
    <2>3. pc' \in {"idle", "refresh"} /\ outcome' \in Outcomes /\ failed' = TRUE
      BY <1>6 DEF FailOver, Ends, Outcomes, CacheInv, TypeOK
    <2>. QED
      BY <1>6, <2>2, <2>3, NoResponseOK DEF FailOver, CacheInv, TypeOK, SpareIsAnotherName
  <1>7. CASE Refresh
    <2>1. /\ base' \in Names /\ cache' \in Seq(Names) /\ IsInjective(cache')
          /\ unreached' \subseteq Servers /\ pc' \in {"refresh", "idle", "send"}
          /\ outcome' \in Outcomes
          /\ (pc' \in {"idle", "send"} => base' \notin Range(cache'))
      <3>1. ServerOf(base) \in Servers
        BY ClientAssumption DEF CacheInv, TypeOK
      <3>2. cache = <<>> => Range(cache) = {}
        BY DEF Range
      <3>. QED
        BY <1>7, <3>1, <3>2, RefreshOK, MachinesOK DEF CacheInv, TypeOK, Outcomes
    <2>2. UNCHANGED <<world, mode, expected, kind, failed, answered, complete, trusted>>
      BY <1>7, RefreshOK
    <2>. QED
      BY <2>1, <2>2 DEF CacheInv, TypeOK, SpareIsAnotherName
  <1>8. ASSUME NEW k \in {"read", "watch", "append"}, Begin(k)
        PROVE  CacheInv' /\ SpareIsAnotherName'
    BY <1>8 DEF Begin, CacheInv, TypeOK, SpareIsAnotherName, Outcomes
  <1>9. ASSUME NEW t \in Servers, NEW x \in Statuses, ServerChanges(t, x)
        PROVE  CacheInv' /\ SpareIsAnotherName'
    BY <1>9, ClientAssumption DEF ServerChanges, CacheInv, TypeOK, SpareIsAnotherName
  <1>10. CASE ClusterChanges
    BY <1>10, ClientAssumption DEF ClusterChanges, CacheInv, TypeOK, SpareIsAnotherName
  <1>11. CASE UNCHANGED vars
    BY <1>11 DEF vars, CacheInv, TypeOK, SpareIsAnotherName
  <1>. QED
    BY <1>1, <1>2, <1>3, <1>4, <1>5, <1>6, <1>7, <1>8, <1>9, <1>10, <1>11 DEF Next, Client

LEMMA CacheInvariant == Spec => [](CacheInv /\ SpareIsAnotherName)
  <1>. QED
    BY InitCacheInv, StepCacheInv, PTL DEF Spec

\* Whatever the servers do, the client's state stays within its types
\* (client.py:100-230, 778-913).
THEOREM ClientTypeCorrect == Spec => []TypeOK
  <1>1. CacheInv => TypeOK
    BY DEF CacheInv
  <1>. QED
    BY <1>1, CacheInvariant, PTL

\* Between two attempts the name in use is not among the spare ones, for every
\* list of hosts, however many names a server has, and every order in which the
\* members are listed (client.py:205-209, 845-849).
THEOREM SpareIsAlwaysAnotherName == Spec => []SpareIsAnotherName
  BY CacheInvariant, PTL

-----------------------------------------------------------------------------
(* The cluster id. *)

LEMMA StepTrustInv ==
    TrustInv /\ [Next]_vars => TrustInv' /\ (trusted # 0 => trusted' \in {0, trusted})
  <1> SUFFICES ASSUME TrustInv, [Next]_vars
               PROVE  TrustInv' /\ (trusted # 0 => trusted' \in {0, trusted})
    OBVIOUS
  <1> USE DEF world, link, request, TrustInv
  <1>1. CASE OtherCluster
    BY <1>1 DEF OtherCluster
  <1>2. CASE Answer
    BY <1>2 DEF Answer
  <1>3. CASE GiveUp \/ FailOver
    BY <1>3 DEF GiveUp, FailOver, NoResponse
  <1>4. CASE Construct \/ WatchTimesOut \/ Refresh
    BY <1>4 DEF Construct, WatchTimesOut, Refresh
  <1>5. CASE \E k \in {"read", "watch", "append"} : Begin(k)
    BY <1>5 DEF Begin
  <1>6. CASE ClusterChanges \/ \E t \in Servers, x \in Statuses : ServerChanges(t, x)
    BY <1>6 DEF ServerChanges, ClusterChanges
  <1>7. CASE UNCHANGED vars
    BY <1>7 DEF vars
  <1>. QED
    BY <1>1, <1>2, <1>3, <1>4, <1>5, <1>6, <1>7 DEF Next, Client

\* Two answers of different clusters always have an EtcdClusterIdChanged in
\* between, however many fail-overs and lost answers do, and although a lost
\* answer may have left its cluster id behind (client.py:800, 897-913).
THEOREM ClusterChangesAreAnnounced == Spec => ClusterChangeIsAnnounced
  <1>1. Init => TrustInv
    BY DEF Init, TrustInv
  <1>2. TrustInv /\ [Next]_vars => TrustInv'
    BY StepTrustInv
  <1>3. TrustInv /\ [Next]_vars => [trusted # 0 => trusted' \in {0, trusted}]_vars
    BY StepTrustInv
  <1>. QED
    BY <1>1, <1>2, <1>3, PTL DEF Spec, ClusterChangeIsAnnounced

-----------------------------------------------------------------------------
(* Giving up. *)

LEMMA InitCoverInv == Init => CoverInv
  BY DEF Init, CoverInv, GivesUpOnlyAfterTryingAll

\* Known and unreached together never lose a server while a request runs.
LEMMA MachinesCover ==
    ASSUME CacheInv, MachinesRetry, Covered
    PROVE  Covered'
  <1>1. Range(cache) = {base'} \cup Range(cache')
    BY MachinesOK
  <1>2. unreached' = unreached \cup {ServerOf(base)}
    BY MachinesOK
  <1>. QED
    BY <1>1, <1>2 DEF Covered, Known, Members

LEMMA NothingElseKnown ==
    ASSUME cache = <<>>, Covered, unreached' = unreached \cup {ServerOf(base)}
    PROVE  Members \subseteq unreached'
  <1>1. Range(cache) = {}
    BY DEF Range
  <1>. QED
    BY <1>1 DEF Covered, Known

LEMMA StepCoverInv == CacheInv /\ CoverInv /\ [Next]_vars => CoverInv'
  <1> SUFFICES ASSUME CacheInv, CoverInv, [Next]_vars
               PROVE  CoverInv'
    OBVIOUS
  <1> USE DEF world, link, request, CoverInv, GivesUpOnlyAfterTryingAll
  <1>1. CASE Construct
    BY <1>1, ConstructOK
  <1>2. CASE OtherCluster
    BY <1>2 DEF OtherCluster, Ends
  <1>3. CASE Answer
    BY <1>3 DEF Answer, Ends, Covered, Known
  <1>4. CASE WatchTimesOut
    BY <1>4 DEF WatchTimesOut, Ends
  <1>5. CASE GiveUp
    <2>1. /\ pc = "send" /\ cache = <<>> /\ unreached' = unreached \cup {ServerOf(base)}
          /\ pc' = "idle" /\ UNCHANGED <<mode, complete>>
      BY <1>5, NoResponseOK DEF GiveUp, Ends
    <2>. QED
      BY <2>1, NothingElseKnown
  <1>6. CASE FailOver
    <2>1. /\ pc = "send" /\ unreached' = unreached \cup {ServerOf(base)}
          /\ UNCHANGED <<mode, complete>>
      BY <1>6, NoResponseOK DEF FailOver
    <2>2. cache \in Seq(Names) /\ cache # <<>> /\ IsInjective(cache)
      BY <1>6 DEF FailOver, CacheInv, TypeOK
    <2>3. Range(cache) = {base'} \cup Range(cache')
      BY <1>6, <2>2, FrontOK DEF FailOver
    <2>4. Covered => Covered'
      BY <2>1, <2>3 DEF Covered, Known, Members
    <2>5. pc' = "refresh" \/ (pc' = "idle" /\ outcome' = "ValueError")
      BY <1>6 DEF FailOver, Ends
    <2>. QED
      BY <2>1, <2>4, <2>5
  <1>7. CASE Refresh
    <2>1. UNCHANGED <<mode, complete>> /\ pc = "refresh" /\ mode = "cluster"
      BY <1>7, RefreshOK
    <2>2. CASE MachinesRetry /\ UNCHANGED <<pc, outcome>>
      BY <2>1, <2>2, MachinesCover
    <2>3. CASE /\ cache = <<>> /\ UNCHANGED <<base, cache>>
               /\ unreached' = unreached \cup {ServerOf(base)}
               /\ pc' = "idle" /\ outcome' = "EtcdException"
      BY <2>1, <2>3, NothingElseKnown
    <2>4. CASE /\ UNCHANGED <<base, unreached>>
               /\ Range(cache') = Advertised \ {base}
               /\ \/ pc' = "idle" /\ outcome' \in {"ok", "ValueError"}
                  \/ pc' = "send" /\ UNCHANGED outcome
      <3>1. Advertised \subseteq {base'} \cup Range(cache')
        BY <2>4
      <3>2. Covered'
        BY <3>1 DEF Covered, Known, Members
      <3>. QED
        BY <2>1, <2>4, <3>2
    <2>. QED
      BY <1>7, <2>2, <2>3, <2>4, RefreshOK
  <1>8. ASSUME NEW k \in {"read", "watch", "append"}, Begin(k) PROVE CoverInv'
    BY <1>8 DEF Begin, Covered, Known, Members
  <1>9. CASE ClusterChanges \/ \E t \in Servers, x \in Statuses : ServerChanges(t, x)
    BY <1>9 DEF ServerChanges, ClusterChanges, Covered, Known, Members
  <1>10. CASE UNCHANGED vars
    BY <1>10 DEF vars, Covered, Known, Members
  <1>. QED
    BY <1>1, <1>2, <1>3, <1>4, <1>5, <1>6, <1>7, <1>8, <1>9, <1>10 DEF Next, Client

\* A request that gives up has had no answer from any member, if the client
\* knew all of them when it began: no mixture of fail-overs and refreshes,
\* which replace the list in the middle, forgets one (client.py:293-306,
\* 764-776, 820-849).
THEOREM GivesUpLast == Spec => []GivesUpOnlyAfterTryingAll
  <1>1. CacheInv /\ CoverInv /\ [Next]_vars => CoverInv'
    BY StepCoverInv
  <1>2. CoverInv => GivesUpOnlyAfterTryingAll
    BY DEF CoverInv
  <1>. QED
    BY <1>1, <1>2, InitCoverInv, CacheInvariant, PTL DEF Spec
=============================================================================
