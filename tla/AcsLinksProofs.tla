--------------------------- MODULE AcsLinksProofs ---------------------------
(***************************************************************************)
(* Theorems about AcsLinks: for every registry, every service and          *)
(* container document, every order of the nodes and every                  *)
(* ADDITIONAL_SERVICES, what the two loops return is what AcsRegistry says *)
(* of the documents.                                                       *)
(***************************************************************************)
EXTENDS AcsLinks, SequenceTheorems, TLAPS

-----------------------------------------------------------------------------
(* The inductive invariant. *)

Parsing == {"services", "service", "containers"}
Outcomes == {"unparsed", "raised", "linked"}

InfoDocs == {content.doc : content \in {x \in InfoContents : IsDoc(x)}}
StateDocs == {content.doc : content \in {x \in ContainerContents : IsDoc(x)}}
Containers == [id : Ids, state : StateDocs]
Services == [info : InfoDocs \cup {Missing}, containers : Seq(Containers)]

TypeInv ==
    /\ registry \in Registries
    /\ pc \in Parsing \cup {"links"} \cup Outcomes
    /\ service \in Services
    /\ services \in Seq(Services)
    /\ done \in Nat /\ seen \in Nat

\* What has become of an info node.
InfoOf(content) == IF IsDoc(content) THEN content.doc ELSE Missing

InfoParsed(svc, entry) == entry.info # Misshapen /\ svc.info = InfoOf(entry.info)

ContainerOf(node) == [id |-> node.id, state |-> node.node.doc]

\* list is what the first n of the nodes have become: pos says which of them,
\* in the order of the nodes.
Picks(pos, list, nodes, n) ==
    /\ \A k, l \in DOMAIN list : k < l => pos[k] < pos[l]
    /\ \A k \in DOMAIN list :
           IsDoc(nodes[pos[k]].node) /\ list[k] = ContainerOf(nodes[pos[k]])
    /\ \A j \in 1..n : IsDoc(nodes[j].node) => \E k \in DOMAIN list : pos[k] = j

ParsedTo(list, nodes, n) ==
    /\ \A j \in 1..n : nodes[j].node # Misshapen
    /\ \E pos \in [DOMAIN list -> 1..n] : Picks(pos, list, nodes, n)

ContainersParsedOf(svc, entry) ==
    ParsedTo(svc.containers, entry.containers, Len(entry.containers))

Parsed(svc, entry) == InfoParsed(svc, entry) /\ ContainersParsedOf(svc, entry)

\* The container nodes of a service, and all nodes below a service.
Files(entry) == [j \in DOMAIN entry.containers |-> ContainerFile(entry, entry.containers[j])]
FileSet(entry) == {ContainerFile(entry, entry.containers[j]) : j \in DOMAIN entry.containers}
Below(entry) == {InfoFile(entry), ContainersDir(entry)} \cup FileSet(entry)
Deep == UNION {Below(registry[i]) : i \in DOMAIN registry}
Trees == [i \in DOMAIN registry |-> ServiceTree(registry[i])]

\* The services parse_services has come to.
Entered == IF pc = "services" THEN Len(services) ELSE Len(services) + 1

\* parse_services has still to walk through nodes below the services it has
\* come to, which it skips, and through the services after them.
WalkInv ==
    pc \in Parsing =>
        /\ Entered <= Len(registry)
        /\ \A i \in 1..Len(services) : Parsed(services[i], registry[i])
        /\ \/ walk = <<Tree(registry)>> /\ Entered = 0
           \/ \E skipped \in Seq(Deep) :
                  walk = skipped \o SubSeq(Trees, Entered + 1, Len(registry))

\* Behind the directory of containers: its files, which parse_service
\* passes, and the info node if it comes last.
Behind(rest, svc, entry) ==
    \E files \in Seq(FileSet(entry)) :
        \/ rest = files /\ InfoParsed(svc, entry)
        \/ /\ rest = files \o <<InfoFile(entry)>> /\ entry.info # Empty
           /\ svc.info = Missing

\* How far parse_service is, and what it has found.
VisitInv ==
    pc = "service" =>
        LET entry == registry[Len(services) + 1] IN
        \/ /\ visit = <<ServiceTree(entry)>> \/ visit = ServiceNodes(entry)
           /\ service = NewService
        \/ /\ visit = <<ContainersDir(entry)>>
           /\ InfoParsed(service, entry) /\ service.containers = <<>>
        \/ Behind(visit, service, entry) /\ ContainersParsedOf(service, entry)

\* The leaves that are left, and the containers found before them.
LeavesInv ==
    pc = "containers" =>
        LET entry == registry[Len(services) + 1] IN
        /\ Behind(visit, service, entry)
        /\ \/ leaves = <<ContainersDir(entry)>> /\ service.containers = <<>>
           \/ \E j \in 0..Len(entry.containers) :
                  /\ leaves = SubSeq(Files(entry), j + 1, Len(entry.containers))
                  /\ ParsedTo(service.containers, entry.containers, j)

\* get_acs_links starts with all services and without links.
ReadInv ==
    /\ pc \in Parsing => done = 0 /\ seen = 0 /\ links = <<>>
    /\ pc = "unparsed" => Unreadable(registry)
    /\ pc \in {"links", "linked", "raised"} =>
           /\ Len(services) = Len(registry)
           /\ \A i \in DOMAIN registry : Parsed(services[i], registry[i])
    /\ RaisesAtFirstUnlinkable

\* The places <<service, container>> get_acs_links is done with.
Dealt(p) ==
    /\ p[1] \in DOMAIN services /\ p[2] \in DOMAIN services[p[1]].containers
    /\ p[1] <= done \/ (p[1] = done + 1 /\ p[2] <= seen)

InfoAt(p) == services[p[1]].info
ContainerAt(p) == services[p[1]].containers[p[2]]

ServesAt(p) == InfoAt(p) # Missing /\ Serves(InfoAt(p), ContainerAt(p).state)

\* The last of the places dealt with that serve under its id.
LastAt(p) ==
    \A q \in Nat \X Nat :
        Dealt(q) /\ ServesAt(q) /\ ContainerAt(q).id = ContainerAt(p).id => ~Later(q, p)

\* Nothing dealt with so far raises, and links holds what serves among it.
LinkInv ==
    pc \in {"links", "linked"} =>
        /\ done <= Len(services)
        /\ pc = "linked" => done = Len(services)
        /\ seen > 0 => done < Len(services) /\ seen <= Len(services[done + 1].containers)
        /\ links = [id \in DOMAIN links |-> links[id]]
        /\ \A i \in 1..done : services[i].info # Missing => services[i].info.labels # Null
        /\ \A p \in Nat \X Nat :
               Dealt(p) /\ InfoAt(p) # Missing =>
                   ~LinkRaises(InfoAt(p), ContainerAt(p).state)
        /\ \A p \in Nat \X Nat :
               Dealt(p) /\ ServesAt(p) => ContainerAt(p).id \in DOMAIN links
        /\ \A id \in DOMAIN links :
               \E p \in Nat \X Nat :
                   /\ Dealt(p) /\ ServesAt(p) /\ LastAt(p)
                   /\ ContainerAt(p).id = id
                   /\ links[id] = LinkTo(InfoAt(p), ContainerAt(p).state)

LinksInv == TypeInv /\ WalkInv /\ VisitInv /\ LeavesInv /\ ReadInv /\ LinkInv

-----------------------------------------------------------------------------
(* Generators. *)

\* The first of two parts of a sequence is used up first.
LEMMA TailConcat ==
    ASSUME NEW S, NEW a \in Seq(S), NEW b \in Seq(S), a # <<>>
    PROVE  /\ a \o b # <<>>
           /\ Head(a \o b) = Head(a)
           /\ Tail(a \o b) = Tail(a) \o b
<1>1. /\ a \o b \in Seq(S) /\ Len(a \o b) = Len(a) + Len(b)
      /\ \A i \in 1 .. Len(a) + Len(b) :
             (a \o b)[i] = IF i <= Len(a) THEN a[i] ELSE b[i - Len(a)]
  BY ConcatProperties
<1>2. Len(a) \in Nat \ {0} /\ Len(b) \in Nat
  BY EmptySeq, LenProperties
<1>3. a \o b # <<>>
  BY <1>1, <1>2, EmptySeq
<1>4. Head(a \o b) = Head(a)
  BY <1>1, <1>2, <1>3
<1>5. /\ Tail(a) \in Seq(S) /\ Len(Tail(a)) = Len(a) - 1
      /\ \A i \in 1 .. Len(Tail(a)) : Tail(a)[i] = a[i + 1]
  BY HeadTailProperties
<1>6. /\ Tail(a \o b) \in Seq(S) /\ Len(Tail(a \o b)) = Len(a) + Len(b) - 1
      /\ \A i \in 1 .. Len(a) + Len(b) - 1 : Tail(a \o b)[i] = (a \o b)[i + 1]
  BY <1>1, <1>3, HeadTailProperties
<1>7. /\ Tail(a) \o b \in Seq(S) /\ Len(Tail(a) \o b) = Len(a) - 1 + Len(b)
      /\ \A i \in 1 .. Len(a) - 1 + Len(b) :
             (Tail(a) \o b)[i] =
                 IF i <= Len(a) - 1 THEN Tail(a)[i] ELSE b[i - (Len(a) - 1)]
  BY <1>5, ConcatProperties
<1>8. ASSUME NEW i \in 1 .. Len(a) + Len(b) - 1
      PROVE  Tail(a \o b)[i] = (Tail(a) \o b)[i]
  <2>1. i + 1 \in 1 .. Len(a) + Len(b) /\ i + 1 - Len(a) = i - (Len(a) - 1)
    BY <1>2
  <2>2. Tail(a \o b)[i] = IF i + 1 <= Len(a) THEN a[i + 1] ELSE b[i + 1 - Len(a)]
    BY <1>1, <1>6, <2>1
  <2>3. CASE i + 1 <= Len(a)
    BY <1>2, <1>5, <1>7, <2>2, <2>3
  <2>4. CASE ~(i + 1 <= Len(a))
    BY <1>2, <1>7, <2>1, <2>2, <2>4
  <2> QED BY <2>3, <2>4
<1>9. Tail(a \o b) = Tail(a) \o b
  BY <1>2, <1>6, <1>7, <1>8, SeqEqual
<1> QED BY <1>3, <1>4, <1>9

\* A generator that is resumed leaves what lies behind its next node alone.
LEMMA ResumeConcat ==
    ASSUME NEW S, NEW a \in Seq(S), NEW b \in Seq(S), a # <<>>,
           Children(Head(a)) \in Seq(S)
    PROVE  /\ a \o b # <<>>
           /\ Head(a \o b) = Head(a)
           /\ Resume(a \o b) = Resume(a) \o b
           /\ Resume(a) \in Seq(S)
<1>1. /\ a \o b # <<>> /\ Head(a \o b) = Head(a)
      /\ Tail(a \o b) = Tail(a) \o b
  BY TailConcat
<1>2. Tail(a) \in Seq(S)
  BY HeadTailProperties
<1>3. Resume(a) \in Seq(S)
  BY <1>2, ConcatProperties DEF Resume
<1>4. (Children(Head(a)) \o Tail(a)) \o b = Children(Head(a)) \o (Tail(a) \o b)
  BY <1>2, ConcatAssociative
<1>5. Resume(a \o b) = Resume(a) \o b
  BY <1>1, <1>4 DEF Resume
<1> QED BY <1>1, <1>3, <1>5

\* A generator goes through a sequence of nodes one by one.
LEMMA ResumeSuffix ==
    ASSUME NEW S, NEW s \in Seq(S), NEW i \in 1 .. Len(s),
           Children(s[i]) \in Seq(S)
    PROVE  LET rest == SubSeq(s, i, Len(s)) IN
           /\ rest \in Seq(S) /\ rest # <<>>
           /\ Head(rest) = s[i]
           /\ Resume(rest) = Children(s[i]) \o SubSeq(s, i + 1, Len(s))
<1>1. Len(s) \in i .. Len(s)
  BY LenProperties
<1>2. /\ SubSeq(s, i, Len(s)) \in Seq(S)
      /\ Len(SubSeq(s, i, Len(s))) = Len(s) - i + 1
  BY <1>1, SubSeqProperties, LenProperties
<1>3. /\ Head(SubSeq(s, i, Len(s))) = s[i]
      /\ Tail(SubSeq(s, i, Len(s))) = SubSeq(s, i + 1, Len(s))
  BY <1>1, HeadTailOfSubSeq
<1>4. SubSeq(s, i, Len(s)) # <<>>
  <2>1. Len(s) \in Nat /\ Len(SubSeq(s, i, Len(s))) # 0
    BY <1>2, LenProperties
  <2>2. Len(<<>>) = 0
    OBVIOUS
  <2> QED BY <2>1, <2>2, Zenon
<1> QED BY <1>2, <1>3, <1>4 DEF Resume

\* A generator of one node.
LEMMA ResumeOne ==
    ASSUME NEW S, NEW x, Children(x) \in Seq(S)
    PROVE  /\ <<x>> # <<>> /\ Head(<<x>>) = x
           /\ Resume(<<x>>) = Children(x)
<1>1. <<x>> # <<>> /\ Head(<<x>>) = x /\ Tail(<<x>>) = <<>>
  OBVIOUS
<1>2. Children(x) \o <<>> = Children(x)
  BY ConcatEmptySeq
<1> QED BY <1>1, <1>2 DEF Resume

-----------------------------------------------------------------------------
(* The nodes of the tree. *)

LEMMA FileFacts ==
    ASSUME NEW entry \in Entries, NEW container \in Range(entry.containers)
    PROVE  LET node == ContainerFile(entry, container) IN
           /\ Children(node) = <<>> /\ IsLeaf(node)
           /\ ~IsService(node)
           /\ ~IsNamed(node, "info") /\ ~IsNamed(node, "containers")
           /\ node.value = container.node
           /\ node.key[Len(node.key)] = container.id
<1>1. container.id \in Ids
  <2>1. entry.containers \in Seq([id : Ids, node : ContainerContents])
    BY DEF Entries
  <2>2. container \in [id : Ids, node : ContainerContents]
    BY <2>1, RangeOfSeq
  <2> QED BY <2>2
<1> QED
  BY <1>1, RegistryAssumption
  DEF ContainerFile, File, Children, IsLeaf, IsService, IsNamed

LEMMA InfoFacts ==
    ASSUME NEW entry
    PROVE  LET node == InfoFile(entry) IN
           /\ Children(node) = <<>>
           /\ ~IsService(node)
           /\ IsNamed(node, "info") /\ ~IsNamed(node, "containers")
           /\ node.value = entry.info
BY DEF InfoFile, File, Children, IsService, IsNamed

LEMMA DirFacts ==
    ASSUME NEW entry
    PROVE  LET node == ContainersDir(entry) IN
           /\ Children(node) = Files(entry)
           /\ ~IsService(node)
           /\ ~IsNamed(node, "info") /\ IsNamed(node, "containers")
           /\ node.value = Empty
BY DEF ContainersDir, Dir, Children, IsService, IsNamed, Files, Empty

LEMMA ServiceFacts ==
    ASSUME NEW entry \in Entries
    PROVE  LET node == ServiceTree(entry) IN
           /\ Children(node) = ServiceNodes(entry)
           /\ IsService(node)
           /\ ~IsNamed(node, "info") /\ ~IsNamed(node, "containers")
BY RegistryAssumption DEF Entries, ServiceTree, Dir, Children, IsService, IsNamed

LEMMA TreeFacts ==
    ASSUME NEW entries
    PROVE  /\ Children(Tree(entries)) = [i \in DOMAIN entries |-> ServiceTree(entries[i])]
           /\ ~IsService(Tree(entries))
BY DEF Tree, Dir, Base, Children, IsService

LEMMA FilesAreSeq ==
    ASSUME NEW entry \in Entries
    PROVE  /\ Files(entry) \in Seq(FileSet(entry))
           /\ Len(Files(entry)) = Len(entry.containers)
           /\ Len(entry.containers) \in Nat
           /\ \A j \in 1 .. Len(entry.containers) :
                  /\ entry.containers[j] \in Range(entry.containers)
                  /\ Files(entry)[j] = ContainerFile(entry, entry.containers[j])
<1>1. entry.containers \in Seq([id : Ids, node : ContainerContents])
  BY DEF Entries
<1>2. Len(entry.containers) \in Nat /\ DOMAIN entry.containers = 1 .. Len(entry.containers)
  BY <1>1, LenProperties
<1>3. Files(entry) \in [1 .. Len(entry.containers) -> FileSet(entry)]
  BY <1>2 DEF Files, FileSet
<1>4. Files(entry) \in Seq(FileSet(entry))
  BY <1>2, <1>3, SeqDef
<1>5. Len(Files(entry)) = Len(entry.containers)
  BY <1>2, <1>3, <1>4, LenProperties
<1> QED BY <1>2, <1>4, <1>5 DEF Files, Range

\* The files are all there is below the directory of containers.
LEMMA BelowFacts ==
    ASSUME NEW entry \in Entries, NEW node \in Below(entry)
    PROVE  ~IsService(node) /\ Children(node) \in Seq(Below(entry))
<1>1. CASE node = InfoFile(entry)
  BY <1>1, InfoFacts, EmptySeq
<1>2. CASE node = ContainersDir(entry)
  <2>1. Files(entry) \in Seq(Below(entry))
    BY FilesAreSeq, SeqMonotonic DEF Below
  <2> QED BY <1>2, <2>1, DirFacts
<1>3. CASE node \in FileSet(entry)
  <2>1. PICK j \in DOMAIN entry.containers : node = ContainerFile(entry, entry.containers[j])
    BY <1>3 DEF FileSet
  <2>2. entry.containers[j] \in Range(entry.containers)
    BY DEF Range
  <2> QED BY <2>1, <2>2, FileFacts, EmptySeq
<1> QED BY <1>1, <1>2, <1>3 DEF Below

LEMMA ServiceNodesFacts ==
    ASSUME NEW entry \in Entries
    PROVE  /\ ServiceNodes(entry) \in Seq(Below(entry))
           /\ \/ entry.info = Empty /\ ServiceNodes(entry) = <<ContainersDir(entry)>>
              \/ /\ entry.info # Empty
                 /\ ServiceNodes(entry) = <<InfoFile(entry), ContainersDir(entry)>>
              \/ /\ entry.info # Empty
                 /\ ServiceNodes(entry) = <<ContainersDir(entry), InfoFile(entry)>>
<1>1. entry.infoFirst \in BOOLEAN
  BY DEF Entries
<1>2. InfoFile(entry) \in Below(entry) /\ ContainersDir(entry) \in Below(entry)
  BY DEF Below
<1>3. CASE entry.info = Empty
  BY <1>2, <1>3 DEF ServiceNodes
<1>4. CASE entry.info # Empty /\ entry.infoFirst
  BY <1>2, <1>4 DEF ServiceNodes
<1>5. CASE entry.info # Empty /\ ~entry.infoFirst
  BY <1>2, <1>5 DEF ServiceNodes
<1> QED BY <1>1, <1>3, <1>4, <1>5

LEMMA RegistryFacts ==
    ASSUME registry \in Registries
    PROVE  /\ registry \in Seq(Entries)
           /\ Len(registry) \in Nat /\ DOMAIN registry = 1 .. Len(registry)
           /\ \A i \in 1 .. Len(registry) : registry[i] \in Entries
           /\ Trees \in Seq(Range(Trees)) /\ Len(Trees) = Len(registry)
           /\ \A i \in 1 .. Len(registry) : Trees[i] = ServiceTree(registry[i])
           /\ Children(Tree(registry)) = Trees
<1>1. registry \in Seq(Entries)
  BY RegistryAssumption
<1>2. Len(registry) \in Nat /\ registry \in [1 .. Len(registry) -> Entries]
  BY <1>1, LenProperties
<1>3. Trees \in [1 .. Len(registry) -> Range(Trees)]
  BY <1>2 DEF Trees, Range
<1>4. Trees \in Seq(Range(Trees))
  BY <1>2, <1>3, SeqDef
<1>5. Len(Trees) = Len(registry)
  BY <1>2, <1>3, <1>4, LenProperties
<1>6. Children(Tree(registry)) = Trees
  BY TreeFacts DEF Trees
<1>7. \A i \in 1 .. Len(registry) : Trees[i] = ServiceTree(registry[i])
  BY <1>2 DEF Trees
<1> QED BY <1>1, <1>2, <1>4, <1>5, <1>6, <1>7

LEMMA DeepFacts ==
    ASSUME registry \in Registries
    PROVE  /\ \A node \in Deep : ~IsService(node) /\ Children(node) \in Seq(Deep)
           /\ \A i \in 1 .. Len(registry) : ServiceNodes(registry[i]) \in Seq(Deep)
<1>1. ASSUME NEW i \in 1 .. Len(registry)
      PROVE  registry[i] \in Entries /\ Below(registry[i]) \subseteq Deep
  BY RegistryFacts DEF Deep
<1>2. ASSUME NEW node \in Deep
      PROVE  ~IsService(node) /\ Children(node) \in Seq(Deep)
  <2>1. PICK i \in 1 .. Len(registry) : node \in Below(registry[i])
    BY RegistryFacts DEF Deep
  <2>2. ~IsService(node) /\ Children(node) \in Seq(Below(registry[i]))
    BY <1>1, <2>1, BelowFacts
  <2> QED BY <1>1, <2>2, SeqMonotonic
<1>3. ASSUME NEW i \in 1 .. Len(registry)
      PROVE  ServiceNodes(registry[i]) \in Seq(Deep)
  BY <1>1, ServiceNodesFacts, SeqMonotonic
<1> QED BY <1>2, <1>3

-----------------------------------------------------------------------------
(* parse_services. *)

\* What the generator of parse_services yields next, and leaves.
LEMMA WalkHead ==
    ASSUME TypeInv, WalkInv, pc \in Parsing
    PROVE  /\ walk = <<>> => Entered = Len(registry)
           /\ walk # <<>> /\ IsService(Head(walk)) =>
                  /\ Entered < Len(registry)
                  /\ Head(walk) = ServiceTree(registry[Entered + 1])
                  /\ \E skipped \in Seq(Deep) :
                         Resume(walk) =
                             skipped \o SubSeq(Trees, Entered + 2, Len(registry))
           /\ walk # <<>> /\ ~IsService(Head(walk)) =>
                  \E skipped \in Seq(Deep) :
                      Resume(walk) =
                          skipped \o SubSeq(Trees, Entered + 1, Len(registry))
<1> DEFINE N == Len(registry)
           rest == SubSeq(Trees, Entered + 1, N)
           All == Deep \cup Range(Trees)
<1>1. /\ N \in Nat /\ Entered \in Nat /\ Entered <= N
  BY RegistryFacts, LenProperties DEF TypeInv, WalkInv, Entered
<1>2. registry \in Registries
  BY DEF TypeInv
<1>3. Trees \in Seq(All) /\ Len(Trees) = N
  BY <1>2, RegistryFacts, SeqMonotonic
<1>4. rest \in Seq(All)
  <2>1. \A i \in Entered + 1 .. N : Trees[i] \in All
    BY <1>1, <1>3, ElementOfSeq
  <2> QED BY <1>1, <2>1, SubSeqProperties
<1>5. CASE walk = <<Tree(registry)>> /\ Entered = 0
  <2>1. walk # <<>> /\ Head(walk) = Tree(registry) /\ Resume(walk) = Trees
    BY <1>2, <1>3, <1>5, RegistryFacts, ResumeOne
  <2>2. ~IsService(Head(walk))
    BY <2>1, TreeFacts
  <2>3. Trees = <<>> \o SubSeq(Trees, Entered + 1, N)
    <3>1. SubSeq(Trees, 1, N) = Trees
      BY <1>3, SubSeqFull
    <3> QED BY <1>3, <1>5, <3>1, ConcatEmptySeq
  <2> QED BY <2>1, <2>2, <2>3, EmptySeq
<1>6. ASSUME NEW skipped \in Seq(Deep), walk = skipped \o rest, skipped # <<>>
      PROVE  /\ walk # <<>> /\ ~IsService(Head(walk))
             /\ \E a \in Seq(Deep) : Resume(walk) = a \o rest
  <2>1. skipped \in Seq(All)
    BY SeqMonotonic
  <2>2. Head(skipped) \in Deep /\ Tail(skipped) \in Seq(Deep)
    BY <1>6, HeadTailProperties
  <2>3. ~IsService(Head(skipped)) /\ Children(Head(skipped)) \in Seq(Deep)
    BY <1>2, <2>2, DeepFacts
  <2>4. Children(Head(skipped)) \in Seq(All)
    BY <2>3, SeqMonotonic
  <2>5. /\ walk # <<>> /\ Head(walk) = Head(skipped)
        /\ Resume(walk) = Resume(skipped) \o rest
    BY <1>4, <1>6, <2>1, <2>4, ResumeConcat
  <2>6. Resume(skipped) \in Seq(Deep)
    BY <2>2, <2>3, ConcatProperties DEF Resume
  <2> QED BY <2>3, <2>5, <2>6
<1>7. ASSUME walk = <<>> \o rest
      PROVE  /\ walk = <<>> => Entered = N
             /\ walk # <<>> =>
                    /\ Entered < N
                    /\ IsService(Head(walk))
                    /\ Head(walk) = ServiceTree(registry[Entered + 1])
                    /\ \E a \in Seq(Deep) : Resume(walk) = a \o SubSeq(Trees, Entered + 2, N)
  <2>1. walk = rest
    BY <1>4, <1>7, ConcatEmptySeq
  <2>2. CASE Entered = N
    BY <1>1, <2>1, <2>2, SubSeqEmpty
  <2>3. CASE Entered < N
    <3>1. Entered + 1 \in 1 .. N
      BY <1>1, <2>3
    <3>2. /\ Trees[Entered + 1] = ServiceTree(registry[Entered + 1])
          /\ registry[Entered + 1] \in Entries
      BY <1>2, <3>1, RegistryFacts
    <3>3. /\ Children(Trees[Entered + 1]) = ServiceNodes(registry[Entered + 1])
          /\ IsService(Trees[Entered + 1])
      BY <3>2, ServiceFacts
    <3>4. ServiceNodes(registry[Entered + 1]) \in Seq(Deep)
      BY <1>2, <3>1, DeepFacts
    <3>5. Children(Trees[Entered + 1]) \in Seq(All)
      BY <3>3, <3>4, SeqMonotonic
    <3>6. /\ rest # <<>> /\ Head(rest) = Trees[Entered + 1]
          /\ Resume(rest) =
                 Children(Trees[Entered + 1]) \o SubSeq(Trees, (Entered + 1) + 1, N)
      BY <1>3, <3>1, <3>5, ResumeSuffix
    <3>7. (Entered + 1) + 1 = Entered + 2
      BY <1>1
    <3>8. /\ walk # <<>> /\ IsService(Head(walk))
          /\ Head(walk) = ServiceTree(registry[Entered + 1])
      BY <2>1, <3>2, <3>3, <3>6
    <3>9. Resume(walk) = ServiceNodes(registry[Entered + 1]) \o SubSeq(Trees, Entered + 2, N)
      BY <2>1, <3>3, <3>6, <3>7
    <3> QED BY <2>3, <3>4, <3>8, <3>9, Zenon
  <2>4. Entered = N \/ Entered < N
    BY <1>1
  <2> QED BY <2>2, <2>3, <2>4, Zenon
<1>8. CASE \E skipped \in Seq(Deep) : walk = skipped \o rest
  <2>1. PICK skipped \in Seq(Deep) : walk = skipped \o rest
    BY <1>8
  <2>2. CASE skipped = <<>>
    BY <1>7, <2>1, <2>2
  <2>3. CASE skipped # <<>>
    BY <1>6, <2>1, <2>3
  <2> QED BY <2>2, <2>3
<1> QED BY <1>5, <1>8 DEF WalkInv

-----------------------------------------------------------------------------
(* parse_service. *)

\* What the generator of parse_service yields next, and leaves.
LEMMA VisitHead ==
    ASSUME TypeInv, WalkInv, VisitInv, pc = "service",
           NEW entry, entry = registry[Len(services) + 1]
    PROVE  /\ entry \in Entries
           /\ visit = <<>> => Parsed(service, entry)
           /\ visit # <<>> /\ IsNamed(Head(visit), "info") =>
                  /\ ~IsNamed(Head(visit), "containers")
                  /\ Head(visit).value = entry.info
                  /\ service.info = Missing
                  /\ \/ /\ Resume(visit) = <<ContainersDir(entry)>>
                        /\ service.containers = <<>>
                     \/ Resume(visit) = <<>> /\ ContainersParsedOf(service, entry)
           /\ visit # <<>> /\ IsNamed(Head(visit), "containers") =>
                  /\ Head(visit) = ContainersDir(entry)
                  /\ service.containers = <<>>
                  /\ Behind(Resume(visit), service, entry)
           /\ visit # <<>> /\ ~IsNamed(Head(visit), "info")
                           /\ ~IsNamed(Head(visit), "containers") =>
                  \/ Resume(visit) = ServiceNodes(entry) /\ service = NewService
                  \/ /\ Behind(Resume(visit), service, entry)
                     /\ ContainersParsedOf(service, entry)
<1>1. entry \in Entries
  <2>1. Len(services) + 1 \in 1 .. Len(registry)
    BY RegistryFacts, LenProperties DEF TypeInv, WalkInv, Entered, Parsing
  <2> QED BY <2>1, RegistryFacts DEF TypeInv
<1> DEFINE I == InfoFile(entry)
           D == ContainersDir(entry)
           S == ServiceTree(entry)
<1>2. /\ Children(I) = <<>> /\ IsNamed(I, "info") /\ ~IsNamed(I, "containers")
      /\ I.value = entry.info
  BY InfoFacts
<1>3. /\ Children(D) = Files(entry) /\ ~IsNamed(D, "info") /\ IsNamed(D, "containers")
      /\ Files(entry) \in Seq(FileSet(entry))
  BY <1>1, DirFacts, FilesAreSeq
<1>4. /\ Children(S) = ServiceNodes(entry)
      /\ ~IsNamed(S, "info") /\ ~IsNamed(S, "containers")
  BY <1>1, ServiceFacts
<1>5. NewService.info = Missing /\ NewService.containers = <<>>
  BY DEF NewService
<1>6. CASE visit = <<S>> /\ service = NewService
  <2>1. visit # <<>> /\ Head(visit) = S /\ Resume(visit) = ServiceNodes(entry)
    BY <1>1, <1>4, <1>6, ResumeOne, ServiceNodesFacts
  <2> QED BY <1>1, <1>4, <1>6, <2>1
\* The directory is next, and rest comes after it.
<1>7. ASSUME Head(visit) = D, visit # <<>>, service.containers = <<>>,
             Resume(visit) = Files(entry) \/ Resume(visit) = Files(entry) \o <<I>>,
             Resume(visit) = Files(entry) => InfoParsed(service, entry),
             Resume(visit) # Files(entry) => entry.info # Empty /\ service.info = Missing
      PROVE  /\ ~IsNamed(Head(visit), "info") /\ IsNamed(Head(visit), "containers")
             /\ Behind(Resume(visit), service, entry)
  BY <1>3, <1>7 DEF Behind
<1>8. CASE visit = <<D>> /\ InfoParsed(service, entry) /\ service.containers = <<>>
  <2>1. visit # <<>> /\ Head(visit) = D /\ Resume(visit) = Files(entry)
    BY <1>3, <1>8, ResumeOne
  <2> QED BY <1>1, <1>7, <1>8, <2>1
<1>9. CASE visit = ServiceNodes(entry) /\ service = NewService
  <2>1. CASE entry.info = Empty /\ visit = <<D>>
    <3>1. InfoParsed(service, entry)
      BY <1>5, <1>9, <2>1 DEF InfoParsed, InfoOf, IsDoc, Empty, Misshapen
    <3> QED BY <1>5, <1>8, <1>9, <2>1, <3>1
  <2>2. CASE entry.info # Empty /\ visit = <<I, D>>
    <3>1. visit # <<>> /\ Head(visit) = I /\ Tail(visit) = <<D>>
      BY <2>2
    <3>2. <<>> \o <<D>> = <<D>>
      BY <3>1
    <3>3. Resume(visit) = <<D>>
      BY <1>2, <3>1, <3>2 DEF Resume
    <3> QED BY <1>1, <1>2, <1>5, <1>9, <3>1, <3>3
  <2>3. CASE entry.info # Empty /\ visit = <<D, I>>
    <3>1. visit # <<>> /\ Head(visit) = D /\ Tail(visit) = <<I>>
      BY <2>3
    <3>2. Resume(visit) = Files(entry) \o <<I>>
      BY <1>3, <3>1 DEF Resume
    <3>3. Behind(Resume(visit), service, entry)
      BY <1>3, <1>5, <1>9, <2>3, <3>2 DEF Behind
    <3> QED BY <1>1, <1>3, <1>5, <1>9, <3>1, <3>3
  <2> QED BY <1>1, <1>9, <2>1, <2>2, <2>3, ServiceNodesFacts
<1>10. ASSUME NEW files \in Seq(FileSet(entry)), files # <<>>
       PROVE  /\ Children(Head(files)) = <<>>
              /\ ~IsNamed(Head(files), "info") /\ ~IsNamed(Head(files), "containers")
              /\ Resume(files) = Tail(files) /\ Tail(files) \in Seq(FileSet(entry))
  <2>1. Head(files) \in FileSet(entry) /\ Tail(files) \in Seq(FileSet(entry))
    BY <1>10, HeadTailProperties
  <2>2. PICK j \in DOMAIN entry.containers :
            Head(files) = ContainerFile(entry, entry.containers[j])
    BY <2>1 DEF FileSet
  <2>3. /\ Children(Head(files)) = <<>>
        /\ ~IsNamed(Head(files), "info") /\ ~IsNamed(Head(files), "containers")
    <3>1. entry.containers[j] \in Range(entry.containers)
      BY DEF Range
    <3> QED BY <1>1, <2>2, <3>1, FileFacts
  <2>4. Resume(files) = Tail(files)
    BY <2>1, <2>3, ConcatEmptySeq DEF Resume
  <2> QED BY <2>1, <2>3, <2>4
<1>11. CASE Behind(visit, service, entry) /\ ContainersParsedOf(service, entry)
  <2>1. PICK files \in Seq(FileSet(entry)) :
            \/ visit = files /\ InfoParsed(service, entry)
            \/ visit = files \o <<I>> /\ entry.info # Empty /\ service.info = Missing
    BY <1>11 DEF Behind
  <2>2. CASE visit = files /\ InfoParsed(service, entry)
    <3>1. CASE files = <<>>
      BY <1>1, <1>11, <2>2, <3>1 DEF Parsed
    <3>2. CASE files # <<>>
      <4>1. Behind(Resume(visit), service, entry)
        BY <1>10, <2>2, <3>2 DEF Behind
      <4> QED BY <1>1, <1>10, <1>11, <2>2, <3>2, <4>1
    <3> QED BY <3>1, <3>2
  <2>3. CASE visit = files \o <<I>> /\ entry.info # Empty /\ service.info = Missing
    <3>1. CASE files = <<>>
      <4>1. visit = <<I>>
        BY <2>3, <3>1
      <4>2. visit # <<>> /\ Head(visit) = I /\ Resume(visit) = <<>>
        BY <1>2, <4>1, ResumeOne, EmptySeq
      <4> QED BY <1>1, <1>2, <1>11, <2>3, <4>2
    <3>2. CASE files # <<>>
      <4> DEFINE All == FileSet(entry) \cup {I}
      <4>1. files \in Seq(All) /\ <<I>> \in Seq(All) /\ <<>> \in Seq(All)
        <5>1. files \in Seq(All)
          BY SeqMonotonic
        <5>2. <<I>> \in Seq(All)
          OBVIOUS
        <5> QED BY <5>1, <5>2
      <4>2. /\ visit # <<>> /\ Head(visit) = Head(files)
            /\ Resume(visit) = Resume(files) \o <<I>>
        <5>1. Children(Head(files)) \in Seq(All)
          BY <1>10, <3>2, <4>1
        <5> HIDE DEF All, I
        <5>2. /\ files \o <<I>> # <<>> /\ Head(files \o <<I>>) = Head(files)
              /\ Resume(files \o <<I>>) = Resume(files) \o <<I>>
          BY <3>2, <4>1, <5>1, ResumeConcat
        <5> QED BY <2>3, <5>2 DEF I
      <4>3. Behind(Resume(visit), service, entry)
        BY <1>10, <2>3, <3>2, <4>2 DEF Behind
      <4> QED BY <1>1, <1>10, <1>11, <3>2, <4>2, <4>3
    <3> QED BY <3>1, <3>2
  <2> QED BY <2>1, <2>2, <2>3
<1> QED BY <1>6, <1>8, <1>9, <1>11 DEF VisitInv

\* Nothing has been found among no nodes.
LEMMA NothingParsed ==
    ASSUME NEW nodes
    PROVE  ParsedTo(<<>>, nodes, 0)
<1> DEFINE pos == [k \in {} |-> 1]
<1>1. pos \in [DOMAIN <<>> -> 1..0] /\ DOMAIN <<>> = {}
  OBVIOUS
<1>2. Picks(pos, <<>>, nodes, 0)
  BY <1>1 DEF Picks
<1>3. \A j \in 1..0 : nodes[j].node # Misshapen
  OBVIOUS
<1> HIDE DEF pos
<1> QED BY <1>1, <1>2, <1>3, Zenon DEF ParsedTo

\* A node that is no document is left out, a document is appended.
LEMMA ParseStep ==
    ASSUME NEW list \in Seq(Containers), NEW nodes, NEW j \in Nat,
           ParsedTo(list, nodes, j), nodes[j + 1].node # Misshapen
    PROVE  /\ ~IsDoc(nodes[j + 1].node) => ParsedTo(list, nodes, j + 1)
           /\ IsDoc(nodes[j + 1].node) /\ ContainerOf(nodes[j + 1]) \in Containers =>
                  ParsedTo(Append(list, ContainerOf(nodes[j + 1])), nodes, j + 1)
<1>1. PICK pos \in [DOMAIN list -> 1..j] : Picks(pos, list, nodes, j)
  BY DEF ParsedTo
<1>2. \A i \in 1..(j + 1) : nodes[i].node # Misshapen
  <2>1. \A i \in 1..j : nodes[i].node # Misshapen
    BY DEF ParsedTo
  <2> QED BY <2>1
<1>3. DOMAIN list = 1..Len(list) /\ Len(list) \in Nat
  BY LenProperties
<1>4. ASSUME ~IsDoc(nodes[j + 1].node)
      PROVE  ParsedTo(list, nodes, j + 1)
  <2>1. pos \in [DOMAIN list -> 1..(j + 1)]
    BY <1>1
  <2>2. Picks(pos, list, nodes, j + 1)
    BY <1>1, <1>4 DEF Picks
  <2> QED BY <1>2, <2>1, <2>2 DEF ParsedTo
<1>5. ASSUME IsDoc(nodes[j + 1].node), ContainerOf(nodes[j + 1]) \in Containers
      PROVE  ParsedTo(Append(list, ContainerOf(nodes[j + 1])), nodes, j + 1)
  <2> DEFINE more == Append(list, ContainerOf(nodes[j + 1]))
             last == Len(list) + 1
             longer == [k \in 1..last |-> IF k = last THEN j + 1 ELSE pos[k]]
  <2>1. /\ DOMAIN more = 1..last
        /\ \A k \in 1..Len(list) : more[k] = list[k]
        /\ more[last] = ContainerOf(nodes[j + 1])
    <3>1. /\ more \in Seq(Containers) /\ Len(more) = last
          /\ \A k \in 1..Len(list) : more[k] = list[k]
          /\ more[last] = ContainerOf(nodes[j + 1])
      BY <1>5, AppendProperties
    <3> QED BY <3>1, LenProperties
  <2>2. \A k \in 1..Len(list) : longer[k] = pos[k] /\ pos[k] \in 1..j
    BY <1>1, <1>3
  <2>3. longer[last] = j + 1
    BY <1>3
  <2>4. longer \in [DOMAIN more -> 1..(j + 1)]
    <3>1. ASSUME NEW k \in 1..last
          PROVE  (IF k = last THEN j + 1 ELSE pos[k]) \in 1..(j + 1)
      BY <1>1, <1>3
    <3> QED BY <2>1, <3>1
  <2> HIDE DEF longer, more
  <2>5. ASSUME NEW k \in DOMAIN more, NEW l \in DOMAIN more, k < l
        PROVE  longer[k] < longer[l]
    <3>1. k \in 1..Len(list)
      BY <1>3, <2>1, <2>5
    <3>2. CASE l = last
      BY <2>2, <2>3, <3>1, <3>2
    <3>3. CASE l # last
      <4>1. l \in 1..Len(list)
        BY <1>3, <2>1, <3>3
      <4> QED BY <1>1, <1>3, <2>2, <2>5, <3>1, <4>1 DEF Picks
    <3> QED BY <3>2, <3>3
  <2>6. ASSUME NEW k \in DOMAIN more
        PROVE  /\ IsDoc(nodes[longer[k]].node)
               /\ more[k] = ContainerOf(nodes[longer[k]])
    <3>1. CASE k = last
      BY <1>5, <2>1, <2>3, <3>1
    <3>2. CASE k # last
      <4>1. k \in 1..Len(list)
        BY <1>3, <2>1, <3>2
      <4> QED BY <1>1, <1>3, <2>1, <2>2, <4>1 DEF Picks
    <3> QED BY <3>1, <3>2
  <2>7. ASSUME NEW i \in 1..(j + 1), IsDoc(nodes[i].node)
        PROVE  \E k \in DOMAIN more : longer[k] = i
    <3>1. CASE i = j + 1
      BY <1>3, <2>1, <2>3, <3>1
    <3>2. CASE i # j + 1
      <4>1. PICK k \in DOMAIN list : pos[k] = i
        BY <1>1, <2>7, <3>2 DEF Picks
      <4>2. k \in DOMAIN more /\ longer[k] = i
        BY <1>3, <2>1, <2>2, <4>1
      <4> QED BY <4>2
    <3> QED BY <3>1, <3>2
  <2>8. Picks(longer, more, nodes, j + 1)
    BY <2>5, <2>6, <2>7 DEF Picks
  <2>9. ParsedTo(more, nodes, j + 1)
    BY <1>2, <2>4, <2>8 DEF ParsedTo
  <2> QED BY <2>9 DEF more
<1> QED BY <1>4, <1>5

\* What the generator tree.leaves comes to next, and leaves.
LEMMA LeavesHead ==
    ASSUME TypeInv, WalkInv, LeavesInv, pc = "containers",
           NEW entry, entry = registry[Len(services) + 1]
    PROVE  LET nodes == entry.containers IN
           /\ entry \in Entries
           /\ leaves = <<>> => ContainersParsedOf(service, entry)
           /\ leaves # <<>> /\ ~IsLeaf(Head(leaves)) =>
                  /\ Resume(leaves) = SubSeq(Files(entry), 1, Len(nodes))
                  /\ service.containers = <<>>
           /\ leaves # <<>> /\ IsLeaf(Head(leaves)) =>
                  \/ /\ Head(leaves).value = Empty
                     /\ Len(nodes) = 0 /\ service.containers = <<>>
                     /\ Resume(leaves) = SubSeq(Files(entry), 1, Len(nodes))
                  \/ \E j \in 0..Len(nodes) :
                         /\ j < Len(nodes)
                         /\ Head(leaves).value = nodes[j + 1].node
                         /\ Head(leaves).key[Len(Head(leaves).key)] = nodes[j + 1].id
                         /\ Resume(leaves) = SubSeq(Files(entry), j + 2, Len(nodes))
                         /\ ParsedTo(service.containers, nodes, j)
<1> DEFINE nodes == entry.containers
           D == ContainersDir(entry)
           N == Len(nodes)
<1>1. entry \in Entries
  <2>1. Len(services) + 1 \in 1 .. Len(registry)
    BY RegistryFacts, LenProperties DEF TypeInv, WalkInv, Entered, Parsing
  <2> QED BY <2>1, RegistryFacts DEF TypeInv
<1>2. /\ Files(entry) \in Seq(FileSet(entry)) /\ Len(Files(entry)) = N /\ N \in Nat
      /\ \A j \in 1..N : /\ nodes[j] \in Range(nodes)
                         /\ Files(entry)[j] = ContainerFile(entry, nodes[j])
  BY <1>1, FilesAreSeq
<1>3. SubSeq(Files(entry), 1, N) = Files(entry)
  BY <1>2, SubSeqFull
<1>4. CASE leaves = <<D>> /\ service.containers = <<>>
  <2>1. /\ leaves # <<>> /\ Head(leaves) = D /\ Resume(leaves) = Files(entry)
        /\ D.value = Empty
    BY <1>2, <1>4, DirFacts, ResumeOne
  <2>2. IsLeaf(D) => N = 0
    <3>1. IsLeaf(D) => Files(entry) = <<>>
      BY DirFacts DEF IsLeaf
    <3> QED BY <1>2, <3>1
  <2> QED BY <1>1, <1>3, <1>4, <2>1, <2>2
<1>5. ASSUME NEW j \in 0..N, leaves = SubSeq(Files(entry), j + 1, N),
             ParsedTo(service.containers, nodes, j)
      PROVE  /\ leaves = <<>> => ContainersParsedOf(service, entry)
             /\ leaves # <<>> =>
                    /\ IsLeaf(Head(leaves)) /\ j < N
                    /\ Head(leaves).value = nodes[j + 1].node
                    /\ Head(leaves).key[Len(Head(leaves).key)] = nodes[j + 1].id
                    /\ Resume(leaves) = SubSeq(Files(entry), j + 2, N)
  <2>1. CASE j = N
    <3>1. leaves = <<>>
      BY <1>2, <1>5, <2>1, SubSeqEmpty
    <3> QED BY <1>5, <2>1, <3>1 DEF ContainersParsedOf
  <2>2. CASE j < N
    <3>1. j + 1 \in 1..N
      BY <1>2, <2>2
    <3>2. /\ Children(Files(entry)[j + 1]) = <<>> /\ IsLeaf(Files(entry)[j + 1])
          /\ Files(entry)[j + 1].value = nodes[j + 1].node
          /\ Files(entry)[j + 1].key[Len(Files(entry)[j + 1].key)] = nodes[j + 1].id
      BY <1>1, <1>2, <3>1, FileFacts
    <3>3. Children(Files(entry)[j + 1]) \in Seq(FileSet(entry))
      BY <3>2, EmptySeq
    <3>4. /\ leaves # <<>> /\ Head(leaves) = Files(entry)[j + 1]
          /\ Resume(leaves) = <<>> \o SubSeq(Files(entry), (j + 1) + 1, N)
      <4>1. PICK files, i : files = Files(entry) /\ i = j + 1
        OBVIOUS
      <4>2. files \in Seq(FileSet(entry)) /\ Len(files) = N /\ i \in 1..Len(files)
        BY <1>2, <3>1, <4>1
      <4>3. Children(files[i]) \in Seq(FileSet(entry)) /\ Children(files[i]) = <<>>
        BY <3>2, <3>3, <4>1
      <4>4. /\ SubSeq(files, i, N) # <<>> /\ Head(SubSeq(files, i, N)) = files[i]
            /\ Resume(SubSeq(files, i, N)) = Children(files[i]) \o SubSeq(files, i + 1, N)
        BY <4>2, <4>3, ResumeSuffix
      <4> QED BY <1>5, <4>1, <4>3, <4>4
    <3>5. <<>> \o SubSeq(Files(entry), (j + 1) + 1, N) = SubSeq(Files(entry), j + 2, N)
      <4>1. \A i \in j + 2 .. N : Files(entry)[i] \in FileSet(entry)
        BY <1>2, ElementOfSeq
      <4>2. SubSeq(Files(entry), j + 2, N) \in Seq(FileSet(entry))
        BY <1>2, <4>1, SubSeqProperties
      <4> QED BY <4>2, ConcatEmptySeq
    <3> QED BY <2>2, <3>2, <3>4, <3>5
  <2> QED BY <1>2, <2>1, <2>2
<1> QED BY <1>1, <1>4, <1>5 DEF LeavesInv

-----------------------------------------------------------------------------
(* The invariant holds at first, and the parser keeps it. *)

LEMMA LinksInit == Init => LinksInv
<1> SUFFICES ASSUME Init PROVE LinksInv
  OBVIOUS
<1>1. NewService \in Services
  BY DEF NewService, Services
<1>2. TypeInv
  BY <1>1 DEF Init, TypeInv, Parsing
<1>3. WalkInv
  <2>1. Entered = 0 /\ Len(services) = 0 /\ walk = <<Tree(registry)>>
    BY DEF Init, Entered, GetSubtree
  <2>2. Entered <= Len(registry)
    BY <1>2, <2>1, RegistryFacts DEF TypeInv
  <2> QED BY <2>1, <2>2 DEF WalkInv
<1>4. VisitInv /\ LeavesInv /\ ReadInv /\ LinkInv
  BY DEF Init, VisitInv, LeavesInv, ReadInv, LinkInv, Parsing, RaisesAtFirstUnlinkable
<1> QED BY <1>2, <1>3, <1>4 DEF LinksInv

\* What the parser leaves alone.
LEMMA ParserFrame ==
    ASSUME ParseServices \/ ParseService
    PROVE  /\ registry' = registry /\ pc \in Parsing
           /\ done' = done /\ seen' = seen /\ links' = links
           /\ pc' \notin {"linked", "raised"}
BY DEF ParseServices, ParseService, SkipNode, EnterService, ServiceParsed,
       ServicesParsed, VisitInfo, VisitContainers, VisitOther, EnterDirectory,
       ParseContainer, ContainersParsed, Parsing, linking, parsing

\* The definitions that speak of the registry only.
LEMMA RegistryUnchanged ==
    ASSUME registry' = registry
    PROVE  /\ Deep' = Deep /\ Trees' = Trees
           /\ Tree(registry)' = Tree(registry)
BY DEF Deep, Trees

LEMMA ParserTypes ==
    ASSUME TypeInv, WalkInv, VisitInv, LeavesInv, ParseServices \/ ParseService
    PROVE  TypeInv'
<1>1. registry' \in Registries /\ done' \in Nat /\ seen' \in Nat
  BY ParserFrame DEF TypeInv
<1>2. pc' \in Parsing \cup {"links"} \cup Outcomes
  BY DEF ParseServices, ParseService, SkipNode, EnterService, ServiceParsed,
         ServicesParsed, VisitInfo, VisitContainers, VisitOther, EnterDirectory,
         ParseContainer, ContainersParsed, Parsing, Outcomes, TypeInv
<1>3. service' \in Services
  <2>0. NewService \in Services /\ service \in Services
    BY DEF NewService, Services, TypeInv
  <2>1. CASE service' \in {service, NewService}
    BY <2>0, <2>1
  <2>2. CASE VisitInfo
    <3>1. PICK entry : entry = registry[Len(services) + 1]
      OBVIOUS
    <3>2. entry.info \in InfoContents /\ Head(visit).value = entry.info
      BY <2>2, <3>1, VisitHead DEF VisitInfo, Entries
    <3>3. IsDoc(entry.info) => entry.info.doc \in InfoDocs
      BY <3>2 DEF InfoDocs
    <3>4. /\ service.info \in InfoDocs \cup {Missing}
          /\ service.containers \in Seq(Containers)
          /\ service = [info |-> service.info, containers |-> service.containers]
      BY DEF TypeInv, Services
    <3>5. service' = [info |-> IF IsDoc(entry.info) THEN entry.info.doc ELSE service.info,
                      containers |-> service.containers]
      BY <2>2, <3>2, <3>4 DEF VisitInfo
    <3> QED BY <3>3, <3>4, <3>5 DEF Services
  <2>3. CASE ParseContainer
    <3>1. PICK entry : entry = registry[Len(services) + 1]
      OBVIOUS
    <3>2. CASE ~IsDoc(Head(leaves).value)
      BY <2>1, <2>3, <3>2 DEF ParseContainer
    <3>3. CASE IsDoc(Head(leaves).value)
      <4>1. pc = "containers" /\ leaves # <<>> /\ IsLeaf(Head(leaves))
        BY <2>3 DEF ParseContainer
      <4>2. entry \in Entries /\ Head(leaves).value # Empty
        BY <3>1, <3>3, <4>1, LeavesHead DEF IsDoc, Empty
      <4>3. PICK j \in 0..Len(entry.containers) :
                /\ j < Len(entry.containers)
                /\ Head(leaves).value = entry.containers[j + 1].node
                /\ Head(leaves).key[Len(Head(leaves).key)] = entry.containers[j + 1].id
        BY <3>1, <4>1, <4>2, LeavesHead
      <4>4. entry.containers[j + 1] \in [id : Ids, node : ContainerContents]
        <5>1. entry.containers \in Seq([id : Ids, node : ContainerContents])
          BY <4>2 DEF Entries
        <5>2. j + 1 \in 1..Len(entry.containers)
          BY <4>3, <5>1, LenProperties
        <5> QED BY <5>1, <5>2, ElementOfSeq
      <4> DEFINE new == [id |-> Head(leaves).key[Len(Head(leaves).key)],
                         state |-> Head(leaves).value.doc]
      <4>5. new \in Containers
        BY <3>3, <4>3, <4>4 DEF Containers, StateDocs
      <4>6. service.containers \in Seq(Containers) /\ service \in Services
        BY DEF TypeInv, Services
      <4>7. Append(service.containers, new) \in Seq(Containers)
        BY <4>5, <4>6, AppendProperties
      <4>8. service' = [service EXCEPT !.containers = Append(service.containers, new)]
        BY <2>3, <3>3 DEF ParseContainer
      <4>9. /\ service'.info = service.info
            /\ service'.containers = Append(service.containers, new)
            /\ service' = [info |-> service'.info, containers |-> service'.containers]
        BY <4>6, <4>8 DEF Services
      <4>10. service.info \in InfoDocs \cup {Missing}
        BY <4>6 DEF Services
      <4> HIDE DEF new
      <4> QED BY <4>7, <4>9, <4>10 DEF Services
    <3> QED BY <3>2, <3>3
  <2>4. CASE ~VisitInfo /\ ~ParseContainer
    <3>1. service' \in {service, NewService}
      BY <2>4 DEF ParseServices, ParseService, SkipNode, EnterService, ServiceParsed,
             ServicesParsed, VisitContainers, VisitOther, EnterDirectory,
             ContainersParsed, parsing
    <3> QED BY <2>1, <3>1
  <2> QED BY <2>2, <2>3, <2>4
<1>4. services' \in Seq(Services)
  <2>1. CASE ServiceParsed
    <3>1. service \in Services /\ services \in Seq(Services)
      BY DEF TypeInv
    <3> QED BY <2>1, <3>1, AppendProperties DEF ServiceParsed
  <2>2. CASE ~ServiceParsed
    <3>1. services' = services
      BY <2>2 DEF ParseServices, ParseService, SkipNode, EnterService,
             ServicesParsed, VisitInfo, VisitContainers, VisitOther, EnterDirectory,
             ParseContainer, ContainersParsed, parsing
    <3> QED BY <3>1 DEF TypeInv
  <2> QED BY <2>1, <2>2
<1> QED BY <1>1, <1>2, <1>3, <1>4 DEF TypeInv

LEMMA ParserWalks ==
    ASSUME TypeInv, WalkInv, VisitInv, ParseServices \/ ParseService
    PROVE  WalkInv'
<1>1. /\ registry' = registry /\ pc \in Parsing
      /\ Deep' = Deep /\ Trees' = Trees /\ Tree(registry)' = Tree(registry)
  BY ParserFrame, RegistryUnchanged
<1>2. registry \in Registries /\ Len(registry) \in Nat /\ Len(services) \in Nat
  BY RegistryFacts, LenProperties DEF TypeInv
<1>3. Entered \in Nat
  BY <1>2 DEF Entered
<1>4. /\ Entered <= Len(registry)
       /\ \A i \in 1..Len(services) : Parsed(services[i], registry[i])
       /\ \/ walk = <<Tree(registry)>> /\ Entered = 0
          \/ \E skipped \in Seq(Deep) :
                 walk = skipped \o SubSeq(Trees, Entered + 1, Len(registry))
  BY <1>1, Zenon DEF WalkInv
<1>5. CASE SkipNode
  <2>1. walk # <<>> /\ ~IsService(Head(walk)) /\ walk' = Resume(walk)
        /\ Entered' = Entered /\ services' = services
    BY <1>5 DEF SkipNode, Entered
  <2>2. \E skipped \in Seq(Deep) :
            walk' = skipped \o SubSeq(Trees, Entered + 1, Len(registry))
    BY <1>1, <2>1, WalkHead
  <2> QED BY <1>1, <1>2, <1>3, <1>4, <2>1, <2>2 DEF WalkInv
<1>6. CASE EnterService
  <2>1. walk # <<>> /\ IsService(Head(walk)) /\ walk' = Resume(walk)
        /\ Entered' = Entered + 1 /\ services' = services
    BY <1>6 DEF EnterService, Entered
  <2>2. /\ Entered < Len(registry)
        /\ \E skipped \in Seq(Deep) :
               walk' = skipped \o SubSeq(Trees, Entered + 2, Len(registry))
    BY <1>1, <2>1, WalkHead
  <2>3. Entered' <= Len(registry) /\ Entered + 2 = Entered' + 1
    BY <1>2, <1>3, <1>4, <2>1, <2>2
  <2>4. \E skipped \in Seq(Deep) :
            walk' = skipped \o SubSeq(Trees, Entered' + 1, Len(registry))
    BY <2>2, <2>3
  <2> QED BY <1>1, <1>2, <1>3, <1>4, <2>1, <2>3, <2>4 DEF WalkInv
<1>7. CASE ServiceParsed
  <2>1. /\ pc = "service" /\ visit = <<>> /\ pc' = "services" /\ walk' = walk
        /\ services' = Append(services, service)
    BY <1>7 DEF ServiceParsed
  <2>2. /\ services \in Seq(Services) /\ service \in Services
    BY DEF TypeInv
  <2>3. /\ Len(services') = Len(services) + 1
        /\ \A i \in 1..Len(services) : services'[i] = services[i]
        /\ services'[Len(services) + 1] = service
    BY <2>1, <2>2, AppendProperties
  <2>4. Entered' = Entered
    BY <2>1, <2>3 DEF Entered
  <2>5. Parsed(service, registry[Len(services) + 1])
    BY <2>1, VisitHead
  <2>6. \A i \in 1..Len(services') : Parsed(services'[i], registry[i])
    BY <1>2, <1>3, <1>4, <2>3, <2>5
  <2> QED BY <1>1, <1>2, <1>3, <1>4, <2>1, <2>4, <2>6 DEF WalkInv
<1>8. CASE ServicesParsed \/ (ParseService /\ pc' = "unparsed")
  <2>1. pc' \notin Parsing
    BY <1>8 DEF ServicesParsed, Parsing
  <2> QED BY <2>1 DEF WalkInv
<1>9. CASE ParseService /\ pc' # "unparsed"
  <2>1. walk' = walk /\ services' = services /\ Entered' = Entered
    BY <1>9 DEF ParseService, VisitInfo, VisitContainers, VisitOther, EnterDirectory,
           ParseContainer, ContainersParsed, parsing, Entered
  <2> QED BY <1>1, <1>2, <1>3, <1>4, <2>1 DEF WalkInv
<1> QED BY <1>5, <1>6, <1>7, <1>8, <1>9 DEF ParseServices

LEMMA ParserVisits ==
    ASSUME TypeInv, WalkInv, VisitInv, LeavesInv, ParseServices \/ ParseService
    PROVE  VisitInv'
<1>1. registry' = registry /\ pc \in Parsing
  BY ParserFrame
<1>2. SUFFICES ASSUME pc' = "service" PROVE VisitInv'
  BY DEF VisitInv
<1>3. CASE EnterService
  <2>1. /\ pc = "services" /\ walk # <<>> /\ IsService(Head(walk))
        /\ visit' = <<Head(walk)>> /\ service' = NewService /\ services' = services
    BY <1>3 DEF EnterService, GetSubtree
  <2>2. Head(walk) = ServiceTree(registry[Len(services) + 1])
    BY <1>1, <2>1, WalkHead DEF Entered
  <2> QED BY <1>1, <2>1, <2>2 DEF VisitInv
<1> DEFINE entry == registry[Len(services) + 1]
<1>4. CASE VisitInfo
  <2>1. /\ pc = "service" /\ visit # <<>> /\ IsNamed(Head(visit), "info")
        /\ visit' = Resume(visit) /\ services' = services
        /\ Head(visit).value # Misshapen
        /\ service' = IF IsDoc(Head(visit).value)
                      THEN [service EXCEPT !.info = Head(visit).value.doc]
                      ELSE service
    BY <1>2, <1>4 DEF VisitInfo, Escapes
  <2>2. /\ Head(visit).value = entry.info /\ service.info = Missing
        /\ \/ Resume(visit) = <<ContainersDir(entry)>> /\ service.containers = <<>>
           \/ Resume(visit) = <<>> /\ ContainersParsedOf(service, entry)
    BY <2>1, VisitHead
  <2>3. /\ service'.info = InfoOf(entry.info)
        /\ service'.containers = service.containers
    BY <2>1, <2>2 DEF InfoOf, TypeInv, Services
  <2>4. InfoParsed(service', entry)
    BY <2>1, <2>2, <2>3 DEF InfoParsed
  <2>5. CASE visit' = <<ContainersDir(entry)>> /\ service'.containers = <<>>
    BY <1>1, <2>1, <2>4, <2>5 DEF VisitInv
  <2>6. CASE visit' = <<>> /\ ContainersParsedOf(service, entry)
    <3>1. Behind(visit', service', entry)
      BY <2>4, <2>6, EmptySeq DEF Behind
    <3>2. ContainersParsedOf(service', entry)
      BY <2>3, <2>6 DEF ContainersParsedOf
    <3> QED BY <1>1, <2>1, <3>1, <3>2 DEF VisitInv
  <2> QED BY <2>1, <2>2, <2>3, <2>5, <2>6
<1>5. CASE VisitOther
  <2>1. /\ pc = "service" /\ visit # <<>>
        /\ ~IsNamed(Head(visit), "info") /\ ~IsNamed(Head(visit), "containers")
        /\ visit' = Resume(visit) /\ services' = services /\ service' = service
    BY <1>5 DEF VisitOther
  <2>2. \/ visit' = ServiceNodes(entry) /\ service = NewService
        \/ Behind(visit', service, entry) /\ ContainersParsedOf(service, entry)
    BY <2>1, VisitHead
  <2> QED BY <1>1, <2>1, <2>2 DEF VisitInv
<1>6. CASE ContainersParsed
  <2>1. /\ pc = "containers" /\ leaves = <<>>
        /\ visit' = visit /\ services' = services /\ service' = service
    BY <1>6 DEF ContainersParsed, parsing
  <2>2. ContainersParsedOf(service, entry) /\ Behind(visit, service, entry)
    BY <2>1, LeavesHead DEF LeavesInv
  <2> QED BY <1>1, <2>1, <2>2 DEF VisitInv
<1>7. ~SkipNode /\ ~ServiceParsed /\ ~ServicesParsed /\ ~VisitContainers
      /\ ~EnterDirectory /\ ~ParseContainer
  BY <1>2 DEF SkipNode, ServiceParsed, ServicesParsed, VisitContainers, EnterDirectory,
         ParseContainer
<1> QED BY <1>3, <1>4, <1>5, <1>6, <1>7 DEF ParseServices, ParseService

LEMMA ParserLeaves ==
    ASSUME TypeInv, WalkInv, VisitInv, LeavesInv, ParseServices \/ ParseService
    PROVE  LeavesInv'
<1>1. registry' = registry /\ pc \in Parsing
  BY ParserFrame
<1>2. SUFFICES ASSUME pc' = "containers" PROVE LeavesInv'
  BY DEF LeavesInv
<1> DEFINE entry == registry[Len(services) + 1]
           N == Len(entry.containers)
<1>3. CASE VisitContainers
  <2>1. /\ pc = "service" /\ visit # <<>> /\ IsNamed(Head(visit), "containers")
        /\ visit' = Resume(visit) /\ leaves' = <<Head(visit)>>
        /\ services' = services /\ service' = service
    BY <1>3 DEF VisitContainers, GetSubtree
  <2>2. /\ Head(visit) = ContainersDir(entry) /\ service.containers = <<>>
        /\ Behind(Resume(visit), service, entry)
    BY <2>1, VisitHead
  <2> QED BY <1>1, <2>1, <2>2 DEF LeavesInv
<1>4. CASE EnterDirectory
  <2>1. /\ pc = "containers" /\ leaves # <<>> /\ ~IsLeaf(Head(leaves))
        /\ leaves' = Resume(leaves) /\ visit' = visit
        /\ services' = services /\ service' = service
    BY <1>4 DEF EnterDirectory
  <2>2. /\ Resume(leaves) = SubSeq(Files(entry), 1, N)
        /\ service.containers = <<>> /\ entry \in Entries
    BY <2>1, LeavesHead
  <2>3. Behind(visit, service, entry)
    BY <2>1 DEF LeavesInv
  <2>4. ParsedTo(service.containers, entry.containers, 0) /\ 0 \in 0..N
    BY <2>2, NothingParsed, FilesAreSeq
  <2>5. leaves' = SubSeq(Files(entry), 0 + 1, N)
    BY <2>1, <2>2
  <2> QED BY <1>1, <2>1, <2>3, <2>4, <2>5 DEF LeavesInv
<1>5. CASE ParseContainer
  <2>1. /\ pc = "containers" /\ leaves # <<>> /\ IsLeaf(Head(leaves))
        /\ leaves' = Resume(leaves) /\ visit' = visit /\ services' = services
        /\ Head(leaves).value # Misshapen
    BY <1>2, <1>5 DEF ParseContainer, Escapes
  <2>2. entry \in Entries /\ Behind(visit, service, entry)
    BY <2>1, LeavesHead DEF LeavesInv
  <2>3. service.containers \in Seq(Containers) /\ service \in Services
    BY DEF TypeInv, Services
  <2>4. CASE /\ Head(leaves).value = Empty
             /\ N = 0 /\ service.containers = <<>>
             /\ Resume(leaves) = SubSeq(Files(entry), 1, N)
    <3>1. service' = service
      BY <1>5, <2>4 DEF ParseContainer, IsDoc, Empty
    <3>2. ParsedTo(service.containers, entry.containers, 0) /\ 0 \in 0..N
      BY <2>4, NothingParsed
    <3>3. leaves' = SubSeq(Files(entry), 0 + 1, N)
      BY <2>1, <2>4
    <3> QED BY <1>1, <2>1, <2>2, <3>1, <3>2, <3>3 DEF LeavesInv
  <2>5. ASSUME NEW j \in 0..N, j < N,
               Head(leaves).value = entry.containers[j + 1].node,
               Head(leaves).key[Len(Head(leaves).key)] = entry.containers[j + 1].id,
               Resume(leaves) = SubSeq(Files(entry), j + 2, N),
               ParsedTo(service.containers, entry.containers, j)
        PROVE  LeavesInv'
    <3> DEFINE node == entry.containers[j + 1]
    <3>1. /\ j \in Nat /\ j + 1 \in 1..N /\ j + 1 \in 0..N /\ j + 2 = (j + 1) + 1
      BY <2>2, <2>5, FilesAreSeq
    <3>2. /\ node \in [id : Ids, node : ContainerContents]
      <4>1. entry.containers \in Seq([id : Ids, node : ContainerContents])
        BY <2>2 DEF Entries
      <4> QED BY <3>1, <4>1, ElementOfSeq
    <3>3. leaves' = SubSeq(Files(entry), (j + 1) + 1, N)
      BY <2>1, <2>5, <3>1
    <3>4. /\ service'.info = service.info
          /\ ParsedTo(service'.containers, entry.containers, j + 1)
      <4>1. CASE ~IsDoc(node.node)
        <5>1. service' = service
          BY <1>5, <2>5, <4>1 DEF ParseContainer
        <5> QED BY <2>1, <2>3, <2>5, <3>1, <4>1, <5>1, ParseStep
      <4>2. CASE IsDoc(node.node)
        <5>1. ContainerOf(node) \in Containers
          BY <3>2, <4>2 DEF ContainerOf, Containers, StateDocs
        <5>2. service' = [service EXCEPT !.containers =
                             Append(service.containers, ContainerOf(node))]
          BY <1>5, <2>5, <4>2 DEF ParseContainer, ContainerOf
        <5>3. /\ service'.info = service.info
              /\ service'.containers = Append(service.containers, ContainerOf(node))
          BY <2>3, <5>2 DEF Services
        <5>4. ParsedTo(Append(service.containers, ContainerOf(node)),
                       entry.containers, j + 1)
          BY <2>1, <2>3, <2>5, <3>1, <4>2, <5>1, ParseStep
        <5> QED BY <5>3, <5>4
      <4> QED BY <4>1, <4>2
    <3>5. Behind(visit', service', entry)
      BY <2>1, <2>2, <3>4 DEF Behind, InfoParsed
    <3> QED BY <1>1, <2>1, <3>1, <3>3, <3>4, <3>5 DEF LeavesInv
  <2> QED BY <2>1, <2>4, <2>5, LeavesHead
<1>6. ~SkipNode /\ ~EnterService /\ ~ServiceParsed /\ ~ServicesParsed
      /\ ~VisitInfo /\ ~VisitOther /\ ~ContainersParsed
  BY <1>2 DEF SkipNode, EnterService, ServiceParsed, ServicesParsed, VisitInfo,
         VisitOther, ContainersParsed
<1> QED BY <1>3, <1>4, <1>5, <1>6 DEF ParseServices, ParseService

LEMMA ParserReads ==
    ASSUME LinksInv, ParseServices \/ ParseService
    PROVE  ReadInv' /\ LinkInv'
<1>1. /\ registry' = registry /\ pc \in Parsing
      /\ done' = done /\ seen' = seen /\ links' = links
      /\ pc' \notin {"linked", "raised"}
  BY ParserFrame
<1>2. done = 0 /\ seen = 0 /\ links = <<>>
  BY <1>1 DEF LinksInv, ReadInv
<1>3. TypeInv /\ WalkInv /\ VisitInv /\ LeavesInv
  BY DEF LinksInv
<1>4. registry \in Registries /\ Len(registry) \in Nat /\ Len(services) \in Nat
      /\ DOMAIN registry = 1..Len(registry)
  BY <1>3, RegistryFacts, LenProperties DEF TypeInv
<1>5. CASE pc' \in Parsing
  BY <1>1, <1>2, <1>5 DEF ReadInv, LinkInv, Parsing, RaisesAtFirstUnlinkable
\* A document of the wrong shape.
<1>6. CASE pc' = "unparsed"
  <2> DEFINE entry == registry[Len(services) + 1]
  <2>1. VisitInfo \/ ParseContainer
    BY <1>1, <1>6 DEF ParseServices, ParseService, SkipNode, EnterService, ServiceParsed,
           ServicesParsed, VisitContainers, VisitOther, EnterDirectory,
           ContainersParsed, Parsing
  <2>2. pc \in {"service", "containers"}
    BY <2>1 DEF VisitInfo, ParseContainer
  <2>3. entry \in Range(registry)
    <3>1. Entered <= Len(registry) /\ Entered = Len(services) + 1
      BY <1>3, <2>2 DEF WalkInv, Entered, Parsing
    <3> QED BY <1>4, <3>1 DEF Range
  <2>4. \/ entry.info = Misshapen
        \/ \E container \in Range(entry.containers) : container.node = Misshapen
    <3>1. CASE VisitInfo
      <4>1. /\ pc = "service" /\ visit # <<>> /\ IsNamed(Head(visit), "info")
            /\ Head(visit).value = Misshapen
        BY <1>6, <3>1 DEF VisitInfo, Escapes
      <4> QED BY <1>3, <4>1, VisitHead
    <3>2. CASE ParseContainer
      <4>1. /\ pc = "containers" /\ leaves # <<>> /\ IsLeaf(Head(leaves))
            /\ Head(leaves).value = Misshapen
        BY <1>6, <3>2 DEF ParseContainer, Escapes
      <4>2. entry \in Entries
        BY <1>3, <4>1, LeavesHead
      <4>3. PICK j \in 0..Len(entry.containers) :
                j < Len(entry.containers) /\ entry.containers[j + 1].node = Misshapen
        BY <1>3, <4>1, LeavesHead DEF Misshapen, Empty
      <4>4. entry.containers[j + 1] \in Range(entry.containers)
        <5>1. Len(entry.containers) \in Nat
          BY <4>2, FilesAreSeq
        <5>2. j + 1 \in 1..Len(entry.containers)
          BY <4>3, <5>1
        <5> QED BY <4>2, <5>2, FilesAreSeq
      <4> QED BY <4>3, <4>4
    <3> QED BY <2>1, <3>1, <3>2
  <2>5. Unreadable(registry)
    BY <2>3, <2>4 DEF Unreadable
  <2> QED BY <1>1, <1>6, <2>5 DEF ReadInv, LinkInv, Parsing, RaisesAtFirstUnlinkable
\* The end of the tree.
<1>7. CASE pc' = "links"
  <2>1. ServicesParsed
    BY <1>1, <1>7 DEF ParseServices, ParseService, SkipNode, EnterService, ServiceParsed,
           VisitInfo, VisitContainers, VisitOther, EnterDirectory, ParseContainer,
           ContainersParsed, Parsing
  <2>2. pc = "services" /\ walk = <<>> /\ services' = services
    BY <2>1 DEF ServicesParsed, parsing
  <2>3. Entered = Len(registry) /\ Entered = Len(services)
    BY <1>1, <1>3, <2>2, WalkHead DEF Entered
  <2>4. \A i \in 1..Len(services) : Parsed(services[i], registry[i])
    BY <1>1, <1>3 DEF WalkInv
  <2>5. ReadInv'
    BY <1>1, <1>4, <1>7, <2>2, <2>3, <2>4 DEF ReadInv, Parsing, RaisesAtFirstUnlinkable
  <2>6. done' = 0 /\ seen' = 0 /\ links' = <<>> /\ DOMAIN links' = {}
    BY <1>1, <1>2
  <2>7. \A p \in Nat \X Nat : ~Dealt(p)'
    <3> SUFFICES ASSUME NEW p \in Nat \X Nat, Dealt(p)' PROVE FALSE
      OBVIOUS
    <3>1. /\ p[1] \in DOMAIN services /\ p[2] \in DOMAIN services[p[1]].containers
          /\ p[1] <= 0 \/ p[2] <= 0
      BY <2>2, <2>6 DEF Dealt
    <3>2. CASE p[1] <= 0
      BY <1>3, <3>1, <3>2, LenProperties DEF TypeInv
    <3>3. CASE p[2] <= 0
      <4>1. services[p[1]] \in Services
        BY <1>3, <3>1, LenProperties, ElementOfSeq DEF TypeInv
      <4>2. services[p[1]].containers \in Seq(Containers)
        BY <4>1 DEF Services
      <4> QED BY <3>1, <3>3, <4>2, LenProperties
    <3> QED BY <3>1, <3>2, <3>3
  <2>8. done' <= Len(services') /\ links' = [id \in DOMAIN links' |-> links'[id]]
    BY <1>4, <2>2, <2>6
  <2>9. LinkInv'
    BY <1>7, <2>6, <2>7, <2>8 DEF LinkInv
  <2> QED BY <2>5, <2>9
<1>8. pc' \in Parsing \cup {"links", "unparsed"}
  BY <1>1, <1>3, ParserTypes DEF TypeInv, Outcomes
<1> QED BY <1>5, <1>6, <1>7, <1>8

-----------------------------------------------------------------------------
(* get_acs_links. *)

\* What get_acs_links leaves alone.
LEMMA LinksFrame ==
    ASSUME GetAcsLinks
    PROVE  /\ registry' = registry /\ service' = service /\ services' = services
           /\ pc = "links" /\ pc' \in {"links", "raised", "linked"}
           /\ \/ done' = done /\ seen' = seen
              \/ done' = done /\ seen' = seen + 1
              \/ done' = done + 1 /\ seen' = 0
BY DEF GetAcsLinks, LabelsRaise, ContainerRaises, LinkContainer, ServiceLinked, Linked,
       AtContainer, AtService, parsing, linking

\* A service as parsed.
LEMMA ServiceTypes ==
    ASSUME TypeInv, NEW i \in DOMAIN services
    PROVE  /\ i \in 1..Len(services) /\ Len(services) \in Nat
           /\ services[i] \in Services
           /\ services[i].containers \in Seq(Containers)
           /\ Len(services[i].containers) \in Nat
           /\ DOMAIN services[i].containers = 1..Len(services[i].containers)
<1>1. services \in Seq(Services) /\ Len(services) \in Nat /\ i \in 1..Len(services)
  BY LenProperties DEF TypeInv
<1>2. services[i] \in Services
  BY <1>1, ElementOfSeq
<1>3. services[i].containers \in Seq(Containers)
  BY <1>2 DEF Services
<1> QED BY <1>1, <1>2, <1>3, LenProperties

\* What a service that has been parsed says of its entry.
LEMMA ParsedFacts ==
    ASSUME registry \in Registries, NEW i \in DOMAIN registry, NEW svc,
           Parsed(svc, registry[i])
    PROVE  LET entry == registry[i] IN
           /\ entry.info # Misshapen
           /\ svc.info # Missing <=> IsDoc(entry.info)
           /\ IsDoc(entry.info) => svc.info = entry.info.doc
           /\ DOMAIN entry.containers = 1..Len(entry.containers)
           /\ \A j \in DOMAIN entry.containers : entry.containers[j].node # Misshapen
           /\ \E pos \in [DOMAIN svc.containers -> 1..Len(entry.containers)] :
                  Picks(pos, svc.containers, entry.containers, Len(entry.containers))
<1> DEFINE entry == registry[i]
<1>1. entry \in Entries
  BY RegistryFacts
<1>2. /\ entry.info \in InfoContents
      /\ entry.containers \in Seq([id : Ids, node : ContainerContents])
  BY <1>1 DEF Entries
<1>3. DOMAIN entry.containers = 1..Len(entry.containers)
  BY <1>2, LenProperties
<1>4. IsDoc(entry.info) => entry.info.doc # Missing
  BY <1>2, RegistryAssumption
<1>5. entry.info # Misshapen /\ svc.info = InfoOf(entry.info)
  BY DEF Parsed, InfoParsed
<1>6. /\ \A j \in 1..Len(entry.containers) : entry.containers[j].node # Misshapen
      /\ \E pos \in [DOMAIN svc.containers -> 1..Len(entry.containers)] :
             Picks(pos, svc.containers, entry.containers, Len(entry.containers))
  BY DEF Parsed, ContainersParsedOf, ParsedTo
<1> QED BY <1>3, <1>4, <1>5, <1>6 DEF InfoOf

\* The filter of get_acs_links, said of the label and the names.
LEMMA LinkRaisesFacts ==
    ASSUME NEW info, NEW container
    PROVE  LinkRaises(info, container) <=>
               /\ Asks(info)
               /\ \/ Additional = "list" /\ Missing \in {info.project, info.name}
                  \/ Admitted(info) /\ container.name = Missing
BY DEF LinkRaises, WantsProxy, Asks, FilterRaises, InFilter, Admitted

\* When a link is assigned, and what is assigned.
LEMMA LinkFacts ==
    ASSUME NEW info, NEW container, info.labels # Null
    PROVE  LET endpoints == GetContainerEndpoints(container, info) IN
           /\ WantsProxy(info) /\ InFilter(info) /\ DOMAIN endpoints # {} <=>
                  Serves(info, container)
           /\ Serves(info, container) =>
                  [service |-> ServiceName(info), envvars |-> info.labels,
                   endpoints |-> endpoints] = LinkTo(info, container)
<1> DEFINE endpoints == GetContainerEndpoints(container, info)
<1>1. /\ WantsProxy(info) <=> Asks(info)
      /\ InFilter(info) <=> Admitted(info)
  BY DEF WantsProxy, Asks, InFilter, Admitted
<1>2. CASE Healthy(container)
  <2>1. endpoints = [port \in PortList(info) |-> <<container.ip, port>>]
    BY <1>2 DEF GetContainerEndpoints
  <2>2. DOMAIN endpoints = PortList(info)
    BY <2>1
  <2>3. container.status = "running" /\ container.health = "success"
    BY <1>2 DEF Healthy
  <2> HIDE DEF endpoints
  <2>4. WantsProxy(info) /\ InFilter(info) /\ DOMAIN endpoints # {} <=> Serves(info, container)
    BY <1>1, <2>2, <2>3 DEF Serves
  <2>5. [service |-> ServiceName(info), envvars |-> info.labels,
         endpoints |-> endpoints] = LinkTo(info, container)
    BY <2>1 DEF LinkTo
  <2> QED BY <2>4, <2>5 DEF endpoints
<1>3. CASE ~Healthy(container)
  <2>1. endpoints = <<>> /\ DOMAIN endpoints = {}
    BY <1>3 DEF GetContainerEndpoints
  <2>2. ~Serves(info, container)
    BY <1>3 DEF Serves, Healthy
  <2> QED BY <2>1, <2>2
<1> QED BY <1>2, <1>3

LEMMA LinkerTypes == ASSUME TypeInv, GetAcsLinks PROVE TypeInv'
BY LinksFrame DEF TypeInv, Outcomes

\* The services get_acs_links is done with can be linked.
LEMMA DoneIsLinkable ==
    ASSUME LinksInv, pc \in {"links", "linked"}, NEW i \in 1..done
    PROVE  ~Unlinkable(registry[i])
<1>1. /\ TypeInv /\ LinkInv /\ registry \in Registries /\ done \in Nat
      /\ Len(registry) \in Nat /\ DOMAIN registry = 1..Len(registry)
  BY RegistryFacts DEF LinksInv, TypeInv
<1>2. /\ Len(services) = Len(registry)
      /\ \A j \in DOMAIN registry : Parsed(services[j], registry[j])
  BY DEF LinksInv, ReadInv
<1> DEFINE entry == registry[i]
           svc == services[i]
<1>3. i \in Nat /\ i <= done /\ i \in DOMAIN registry /\ i \in DOMAIN services
  <2>1. i \in Nat /\ i <= done /\ done <= Len(services)
    BY <1>1 DEF LinkInv
  <2>2. DOMAIN services = 1..Len(services)
    BY <1>1, LenProperties DEF TypeInv
  <2> QED BY <1>1, <1>2, <2>1, <2>2
<1>4. Parsed(svc, entry)
  BY <1>2, <1>3
<1> SUFFICES ASSUME Unlinkable(entry) PROVE FALSE
  OBVIOUS
<1>5. svc.info # Missing /\ svc.info = entry.info.doc
  BY <1>1, <1>3, <1>4, ParsedFacts DEF Unlinkable
<1>6. svc.info.labels # Null
  BY <1>1, <1>3, <1>5 DEF LinkInv
<1>7. PICK container \in Range(entry.containers) :
          /\ Asks(svc.info) /\ IsDoc(container.node)
          /\ \/ Additional = "list" /\ Missing \in {svc.info.project, svc.info.name}
             \/ Admitted(svc.info) /\ container.node.doc.name = Missing
  BY <1>5, <1>6 DEF Unlinkable
<1>8. PICK j \in DOMAIN entry.containers : container = entry.containers[j]
  BY DEF Range
<1>9. PICK pos \in [DOMAIN svc.containers -> 1..Len(entry.containers)] :
          Picks(pos, svc.containers, entry.containers, Len(entry.containers))
  BY <1>1, <1>3, <1>4, ParsedFacts
<1>10. PICK k \in DOMAIN svc.containers : pos[k] = j
  <2>1. j \in 1..Len(entry.containers)
    BY <1>1, <1>3, <1>4, ParsedFacts
  <2> QED BY <1>7, <1>8, <1>9, <2>1 DEF Picks
<1>11. svc.containers[k] = ContainerOf(container) /\ k \in Nat
  BY <1>1, <1>3, <1>8, <1>9, <1>10, ServiceTypes DEF Picks
<1> HIDE DEF entry, svc
<1>12. LinkRaises(svc.info, container.node.doc)
  BY <1>7, LinkRaisesFacts
<1>13. PICK p : p = <<i, k>>
  OBVIOUS
<1>14. p \in Nat \X Nat /\ p[1] = i /\ p[2] = k
  BY <1>3, <1>11, <1>13
<1>15. InfoAt(p) = svc.info /\ ContainerAt(p).state = container.node.doc
  BY <1>11, <1>14 DEF InfoAt, ContainerAt, ContainerOf, svc
<1>16. Dealt(p)
  BY <1>3, <1>10, <1>14 DEF Dealt, svc
<1> QED BY <1>1, <1>5, <1>12, <1>14, <1>15, <1>16 DEF LinkInv

\* An exception of get_acs_links comes from a service that cannot be linked.
LEMMA LinkerReads ==
    ASSUME LinksInv, GetAcsLinks
    PROVE  ReadInv'
<1>1. /\ registry' = registry /\ services' = services
      /\ pc = "links" /\ pc' \in {"links", "raised", "linked"}
  BY LinksFrame
<1>2. TypeInv /\ registry \in Registries /\ Len(registry) \in Nat
      /\ DOMAIN registry = 1..Len(registry) /\ done \in Nat /\ seen \in Nat
  BY RegistryFacts DEF LinksInv, TypeInv
<1>3. /\ Len(services) = Len(registry)
      /\ \A i \in DOMAIN registry : Parsed(services[i], registry[i])
  BY <1>1 DEF LinksInv, ReadInv
<1>4. SUFFICES ASSUME pc' = "raised"
               PROVE  done < Len(registry) /\ Unlinkable(registry[done + 1]) /\ done' = done
  <2>1. \A i \in 1..done : ~Unlinkable(registry[i])
    BY <1>1, DoneIsLinkable
  <2> QED BY <1>1, <1>3, <2>1 DEF ReadInv, Parsing, RaisesAtFirstUnlinkable
<1>5. LabelsRaise \/ ContainerRaises
  BY <1>1, <1>4 DEF GetAcsLinks, LinkContainer, ServiceLinked, Linked
<1> DEFINE i == done + 1
           entry == registry[i]
           svc == services[i]
<1>6. /\ i \in DOMAIN registry /\ done < Len(registry) /\ done' = done /\ i \in DOMAIN services
      /\ svc.info # Missing /\ svc.info = entry.info.doc /\ IsDoc(entry.info)
  <2>1. done < Len(services) /\ svc.info # Missing
    BY <1>5 DEF LabelsRaise, ContainerRaises, AtContainer, AtService, NextService
  <2>2. i \in DOMAIN registry /\ i \in 1..Len(services)
    BY <1>2, <1>3, <2>1
  <2>3. i \in DOMAIN services
    BY <1>2, <2>2, LenProperties DEF TypeInv
  <2>4. Parsed(svc, entry)
    BY <1>3, <2>2
  <2>5. done' = done /\ done < Len(registry)
    BY <1>3, <1>5, <2>1 DEF LabelsRaise, ContainerRaises, linking
  <2> HIDE DEF i
  <2> QED BY <1>2, <2>1, <2>2, <2>3, <2>4, <2>5, ParsedFacts
<1>7. CASE LabelsRaise
  <2>1. svc.info.labels = Null
    BY <1>7 DEF LabelsRaise, NextService
  <2>2. Unlinkable(entry)
    BY <1>6, <2>1 DEF Unlinkable
  <2> QED BY <1>6, <2>2
<1>8. CASE ContainerRaises
  <2> DEFINE k == seen + 1
  <2>1. seen < Len(svc.containers) /\ LinkRaises(svc.info, svc.containers[k].state)
    BY <1>8 DEF ContainerRaises, AtContainer, NextService, NextContainer
  <2>2. k \in DOMAIN svc.containers
    BY <1>2, <1>6, <2>1, ServiceTypes
  <2> HIDE DEF i, k
  <2>3. Parsed(svc, entry)
    BY <1>3, <1>6
  <2>4. PICK pos \in [DOMAIN svc.containers -> 1..Len(entry.containers)] :
            Picks(pos, svc.containers, entry.containers, Len(entry.containers))
    BY <1>2, <1>6, <2>3, ParsedFacts
  <2>5. DOMAIN entry.containers = 1..Len(entry.containers)
    BY <1>2, <1>6, <2>3, ParsedFacts
  <2> DEFINE container == entry.containers[pos[k]]
  <2>6. /\ IsDoc(container.node) /\ svc.containers[k].state = container.node.doc
        /\ container \in Range(entry.containers)
    <3>1. IsDoc(container.node) /\ svc.containers[k] = ContainerOf(container)
      BY <2>2, <2>4 DEF Picks
    <3>2. pos[k] \in DOMAIN entry.containers
      BY <2>2, <2>4, <2>5
    <3> QED BY <3>1, <3>2 DEF ContainerOf, Range
  <2>7. /\ Asks(svc.info)
        /\ \/ Additional = "list" /\ Missing \in {svc.info.project, svc.info.name}
           \/ Admitted(svc.info) /\ svc.containers[k].state.name = Missing
    BY <2>1, LinkRaisesFacts DEF k
  <2> HIDE DEF container, svc, entry
  <2>8. Unlinkable(entry)
    BY <1>6, <2>6, <2>7 DEF Unlinkable
  <2> QED BY <1>6, <2>8 DEF entry, i
<1> QED BY <1>5, <1>7, <1>8

\* The next place is later than every place dealt with.
LEMMA PlaceLinked ==
    ASSUME TypeInv, done' = done, seen' = seen + 1, services' = services,
           NEW p \in Nat \X Nat,
           done < Len(services), seen < Len(services[done + 1].containers),
           NEW next, next = <<done + 1, seen + 1>>
    PROVE  /\ Dealt(p)' <=> Dealt(p) \/ p = next
           /\ Dealt(p) => ~Later(p, next) /\ p # next
           /\ Dealt(next)'
<1>1. done \in Nat /\ seen \in Nat /\ services \in Seq(Services)
  BY DEF TypeInv
<1>2. done + 1 \in DOMAIN services
  BY <1>1, LenProperties
<1>3. seen + 1 \in DOMAIN services[done + 1].containers
  BY <1>1, <1>2, ServiceTypes
<1>4. /\ Dealt(p)' <=> /\ p[1] \in DOMAIN services
                       /\ p[2] \in DOMAIN services[p[1]].containers
                       /\ p[1] <= done \/ (p[1] = done + 1 /\ p[2] <= seen + 1)
  BY DEF Dealt
<1>5. p = <<p[1], p[2]>> /\ p[1] \in Nat /\ p[2] \in Nat
  OBVIOUS
<1>6. Dealt(next)'
  BY <1>1, <1>2, <1>3 DEF Dealt
<1>7. Dealt(p)' <=> Dealt(p) \/ p = next
  BY <1>1, <1>2, <1>3, <1>4, <1>5 DEF Dealt
<1>8. Dealt(p) => ~Later(p, next) /\ p # next
  BY <1>1, <1>5 DEF Dealt, Later
<1> QED BY <1>6, <1>7, <1>8

LEMMA ContainerLinked ==
    ASSUME LinksInv, LinkContainer
    PROVE  LinkInv'
<1> DEFINE info == services[done + 1].info
           id == services[done + 1].containers[seen + 1].id
           state == services[done + 1].containers[seen + 1].state
           endpoints == GetContainerEndpoints(state, info)
           link == [service |-> ServiceName(info), envvars |-> info.labels,
                    endpoints |-> endpoints]
           assigned == WantsProxy(info) /\ InFilter(info) /\ DOMAIN endpoints # {}
<1>1. /\ pc = "links" /\ pc' = "links" /\ done' = done /\ seen' = seen + 1
      /\ services' = services
      /\ done < Len(services) /\ seen < Len(services[done + 1].containers)
      /\ info # Missing /\ info.labels # Null /\ ~LinkRaises(info, state)
      /\ links' = IF assigned
                  THEN [x \in DOMAIN links \cup {id} |-> IF x = id THEN link ELSE links[x]]
                  ELSE links
  BY DEF LinkContainer, AtContainer, AtService, NextService, NextContainer, parsing
<1>2. TypeInv /\ LinkInv /\ done \in Nat /\ seen \in Nat /\ Len(services) \in Nat
  BY LenProperties DEF LinksInv, TypeInv
<1>3. PICK next : next = <<done + 1, seen + 1>>
  OBVIOUS
<1>4. /\ InfoAt(next)' = info /\ InfoAt(next) = info
      /\ ContainerAt(next)'.state = state /\ ContainerAt(next).state = state
      /\ ContainerAt(next)'.id = id /\ ContainerAt(next).id = id
      /\ next \in Nat \X Nat
  BY <1>1, <1>2, <1>3 DEF InfoAt, ContainerAt
<1>5. /\ assigned <=> ServesAt(next)
      /\ ServesAt(next) => link = LinkTo(info, state)
  <2>1. assigned <=> Serves(info, state)
    BY <1>1, LinkFacts
  <2>2. Serves(info, state) => link = LinkTo(info, state)
    BY <1>1, LinkFacts
  <2> QED BY <1>1, <1>4, <2>1, <2>2 DEF ServesAt
<1> HIDE DEF link, assigned
<1>6. ASSUME NEW p \in Nat \X Nat
      PROVE  /\ InfoAt(p)' = InfoAt(p) /\ ContainerAt(p)' = ContainerAt(p)
             /\ ServesAt(p)' <=> ServesAt(p)
             /\ Dealt(p)' <=> Dealt(p) \/ p = next
             /\ Dealt(p) => ~Later(p, next) /\ p # next
  BY <1>1, <1>2, <1>3, PlaceLinked DEF InfoAt, ContainerAt, ServesAt
<1>7. Dealt(next)'
  BY <1>1, <1>2, <1>3, <1>4, PlaceLinked
<1> HIDE DEF info, id, state
<1>8. /\ \A x \in DOMAIN links : x \in DOMAIN links'
      /\ assigned => id \in DOMAIN links' /\ links'[id] = link
      /\ \A x \in DOMAIN links' :
             \/ assigned /\ x = id
             \/ x \in DOMAIN links /\ links'[x] = links[x] /\ ~(assigned /\ x = id)
      /\ links' = [x \in DOMAIN links' |-> links'[x]]
  <2>0. links = [x \in DOMAIN links |-> links[x]]
    BY <1>1, <1>2 DEF LinkInv
  <2>1. CASE assigned
    BY <1>1, <2>1
  <2>2. CASE ~assigned
    BY <1>1, <2>0, <2>2
  <2> QED BY <2>1, <2>2
<1>9. ASSUME NEW p \in Nat \X Nat, Dealt(p)', InfoAt(p)' # Missing
      PROVE  ~LinkRaises(InfoAt(p), ContainerAt(p).state)'
  <2>1. CASE p = next
    BY <1>1, <1>4, <1>6, <2>1
  <2>2. CASE Dealt(p)
    BY <1>1, <1>2, <1>6, <1>9, <2>2 DEF LinkInv
  <2> QED BY <1>6, <1>9, <2>1, <2>2
<1>10. ASSUME NEW p \in Nat \X Nat, Dealt(p)', ServesAt(p)'
      PROVE  ContainerAt(p)'.id \in DOMAIN links'
  <2>1. CASE p = next
    BY <1>4, <1>5, <1>6, <1>8, <1>10, <2>1
  <2>2. CASE Dealt(p)
    BY <1>1, <1>2, <1>6, <1>8, <1>10, <2>2 DEF LinkInv
  <2> QED BY <1>6, <1>10, <2>1, <2>2
<1>11. ASSUME NEW x \in DOMAIN links'
       PROVE  \E p \in Nat \X Nat :
                  /\ Dealt(p)' /\ ServesAt(p)' /\ LastAt(p)'
                  /\ ContainerAt(p)'.id = x
                  /\ links'[x] = LinkTo(InfoAt(p), ContainerAt(p).state)'
  <2>1. CASE assigned /\ x = id
    <3>1. LastAt(next)'
      <4> SUFFICES ASSUME NEW q \in Nat \X Nat, Dealt(q)' PROVE ~Later(q, next)
        BY DEF LastAt
      <4>1. ~Later(next, next)
        BY <1>2, <1>3 DEF Later
      <4> QED BY <1>6, <4>1
    <3>2. ServesAt(next)'
      BY <1>4, <1>5, <1>6, <2>1
    <3>3. links'[x] = LinkTo(InfoAt(next), ContainerAt(next).state)'
      BY <1>4, <1>5, <1>6, <1>8, <2>1
    <3> QED BY <1>4, <1>7, <2>1, <3>1, <3>2, <3>3
  <2>2. CASE x \in DOMAIN links /\ links'[x] = links[x] /\ ~(assigned /\ x = id)
    <3>1. PICK p \in Nat \X Nat :
              /\ Dealt(p) /\ ServesAt(p) /\ LastAt(p)
              /\ ContainerAt(p).id = x
              /\ links[x] = LinkTo(InfoAt(p), ContainerAt(p).state)
      BY <1>1, <1>2, <2>2 DEF LinkInv
    <3>2. LastAt(p)'
      <4> SUFFICES ASSUME NEW q \in Nat \X Nat, Dealt(q)', ServesAt(q)',
                          ContainerAt(q)'.id = ContainerAt(p)'.id
                   PROVE  ~Later(q, p)
        BY DEF LastAt
      <4>1. q # next
        BY <1>4, <1>5, <1>6, <2>2, <3>1
      <4> QED BY <1>6, <3>1, <4>1 DEF LastAt
    <3>3. /\ Dealt(p)' /\ ServesAt(p)' /\ ContainerAt(p)'.id = x
          /\ links'[x] = LinkTo(InfoAt(p), ContainerAt(p).state)'
      BY <1>6, <2>2, <3>1
    <3> QED BY <3>2, <3>3
  <2> QED BY <1>8, <2>1, <2>2
<1>12. /\ done' <= Len(services')
       /\ seen' > 0 => done' < Len(services') /\ seen' <= Len(services'[done' + 1].containers)
       /\ \A i \in 1..done' : services'[i].info # Missing => services'[i].info.labels # Null
  <2>1. done + 1 \in DOMAIN services
    BY <1>1, <1>2, LenProperties DEF TypeInv
  <2>2. Len(services[done + 1].containers) \in Nat
    BY <1>2, <2>1, ServiceTypes
  <2>3. \A i \in 1..done : services[i].info # Missing => services[i].info.labels # Null
    BY <1>1, <1>2 DEF LinkInv
  <2> QED BY <1>1, <1>2, <2>2, <2>3
<1>13. pc' # "linked"
  BY <1>1
<1> QED BY <1>8, <1>9, <1>10, <1>11, <1>12, <1>13 DEF LinkInv

\* A service is done with when its containers are, or when it has no info.
LEMMA ServiceDone ==
    ASSUME LinksInv, ServiceLinked
    PROVE  LinkInv'
<1>1. /\ pc = "links" /\ pc' = "links" /\ done' = done + 1 /\ seen' = 0
      /\ services' = services /\ links' = links
      /\ done < Len(services)
      /\ \/ services[done + 1].info = Missing
         \/ /\ services[done + 1].info # Missing /\ services[done + 1].info.labels # Null
            /\ seen = Len(services[done + 1].containers)
  BY DEF ServiceLinked, AtService, NextService, parsing
<1>2. TypeInv /\ LinkInv /\ done \in Nat /\ seen \in Nat /\ Len(services) \in Nat
  BY LenProperties DEF LinksInv, TypeInv
<1>3. ASSUME NEW p \in Nat \X Nat
      PROVE  /\ InfoAt(p)' = InfoAt(p) /\ ContainerAt(p)' = ContainerAt(p)
             /\ ServesAt(p)' <=> ServesAt(p)
             /\ ServesAt(p) => InfoAt(p) # Missing
             /\ Dealt(p) => Dealt(p)'
             /\ Dealt(p)' /\ InfoAt(p) # Missing => Dealt(p)
  <2>1. /\ InfoAt(p)' = InfoAt(p) /\ ContainerAt(p)' = ContainerAt(p)
        /\ ServesAt(p)' <=> ServesAt(p)
        /\ ServesAt(p) => InfoAt(p) # Missing
    BY <1>1 DEF InfoAt, ContainerAt, ServesAt
  <2>2. Dealt(p)' <=> /\ p[1] \in DOMAIN services
                      /\ p[2] \in DOMAIN services[p[1]].containers
                      /\ p[1] <= done + 1 \/ (p[1] = done + 2 /\ p[2] <= 0)
    BY <1>1, <1>2 DEF Dealt
  <2>3. p[1] \in Nat /\ p[2] \in Nat
    OBVIOUS
  <2>4. Dealt(p) => Dealt(p)'
    BY <1>2, <2>2, <2>3 DEF Dealt
  <2>5. ASSUME Dealt(p)', InfoAt(p) # Missing
        PROVE  Dealt(p)
    <3>1. p[2] \in 1..Len(services[p[1]].containers)
      BY <1>2, <2>2, <2>5, ServiceTypes
    <3>2. p[1] <= done + 1
      BY <2>2, <2>3, <2>5, <3>1
    <3>3. CASE p[1] <= done
      BY <2>2, <2>5, <3>3 DEF Dealt
    <3>4. CASE p[1] = done + 1
      <4>1. p[2] <= seen
        BY <1>1, <2>5, <3>1, <3>4 DEF InfoAt
      <4> QED BY <2>2, <2>5, <3>4, <4>1 DEF Dealt
    <3> QED BY <1>2, <2>3, <3>2, <3>3, <3>4
  <2> QED BY <2>1, <2>4, <2>5
<1>4. ASSUME NEW p \in Nat \X Nat, LastAt(p)
      PROVE  LastAt(p)'
  <2> SUFFICES ASSUME NEW q \in Nat \X Nat, Dealt(q)', ServesAt(q)',
                      ContainerAt(q)'.id = ContainerAt(p)'.id
               PROVE  ~Later(q, p)
    BY DEF LastAt
  <2> QED BY <1>3, <1>4 DEF LastAt
<1>5. ASSUME NEW x \in DOMAIN links'
      PROVE  \E p \in Nat \X Nat :
                 /\ Dealt(p)' /\ ServesAt(p)' /\ LastAt(p)'
                 /\ ContainerAt(p)'.id = x
                 /\ links'[x] = LinkTo(InfoAt(p), ContainerAt(p).state)'
  <2>1. PICK p \in Nat \X Nat :
            /\ Dealt(p) /\ ServesAt(p) /\ LastAt(p)
            /\ ContainerAt(p).id = x
            /\ links[x] = LinkTo(InfoAt(p), ContainerAt(p).state)
    BY <1>1, <1>2 DEF LinkInv
  <2> QED BY <1>1, <1>3, <1>4, <2>1
<1>6. /\ \A p \in Nat \X Nat :
             Dealt(p)' /\ InfoAt(p)' # Missing =>
                 ~LinkRaises(InfoAt(p), ContainerAt(p).state)'
      /\ \A p \in Nat \X Nat :
             Dealt(p)' /\ ServesAt(p)' => ContainerAt(p)'.id \in DOMAIN links'
  BY <1>1, <1>2, <1>3 DEF LinkInv
<1>7. /\ done' <= Len(services')
      /\ ~(seen' > 0)
      /\ links' = [id \in DOMAIN links' |-> links'[id]]
  BY <1>1, <1>2 DEF LinkInv
<1>8. \A i \in 1..done' : services'[i].info # Missing => services'[i].info.labels # Null
  <2>1. \A i \in 1..done : services[i].info # Missing => services[i].info.labels # Null
    BY <1>1, <1>2 DEF LinkInv
  <2> QED BY <1>1, <1>2, <2>1
<1>9. pc' # "linked"
  BY <1>1
<1> QED BY <1>5, <1>6, <1>7, <1>8, <1>9 DEF LinkInv

\* Nothing LinkInv speaks of changes, but the outcome may be there.
LEMMA SameLinks ==
    ASSUME LinkInv, services' = services, linking' = linking, pc = "links" \/ pc' = pc,
           pc' = "linked" => done = Len(services)
    PROVE  LinkInv'
<1>1. /\ \A p : /\ InfoAt(p)' = InfoAt(p) /\ ContainerAt(p)' = ContainerAt(p)
                /\ Dealt(p)' <=> Dealt(p)
      /\ done' = done /\ seen' = seen /\ links' = links
  BY DEF InfoAt, ContainerAt, Dealt, linking
<1>2. \A p : ServesAt(p)' <=> ServesAt(p)
  BY <1>1 DEF ServesAt
<1>3. \A p : LastAt(p)' <=> LastAt(p)
  BY <1>1, <1>2 DEF LastAt
<1> QED BY <1>1, <1>2, <1>3 DEF LinkInv

LEMMA LinkerLinks ==
    ASSUME LinksInv, GetAcsLinks
    PROVE  LinkInv'
<1>1. LinkInv
  BY DEF LinksInv
<1>2. CASE LabelsRaise
  BY <1>2 DEF LabelsRaise, LinkInv
<1>3. CASE ContainerRaises
  BY <1>3 DEF ContainerRaises, LinkInv
<1>4. CASE LinkContainer
  BY <1>4, ContainerLinked
<1>5. CASE ServiceLinked
  BY <1>5, ServiceDone
<1>6. CASE Linked
  <2>1. services' = services /\ linking' = linking /\ pc = "links" /\ done = Len(services)
    BY <1>6 DEF Linked, parsing, linking
  <2> QED BY <1>1, <2>1, SameLinks
<1> QED BY <1>2, <1>3, <1>4, <1>5, <1>6 DEF GetAcsLinks

\* Every step keeps the invariant.
LEMMA LinksStep == LinksInv /\ [Next]_vars => LinksInv'
<1> SUFFICES ASSUME LinksInv, [Next]_vars PROVE LinksInv'
  OBVIOUS
<1>1. TypeInv /\ WalkInv /\ VisitInv /\ LeavesInv /\ ReadInv /\ LinkInv
  BY DEF LinksInv
<1>2. CASE ParseServices \/ ParseService
  BY <1>1, <1>2, ParserTypes, ParserWalks, ParserVisits, ParserLeaves, ParserReads
  DEF LinksInv
<1>3. CASE GetAcsLinks
  <2>1. pc' \notin Parsing
    BY <1>3, LinksFrame DEF Parsing
  <2>2. WalkInv' /\ VisitInv' /\ LeavesInv'
    BY <2>1 DEF WalkInv, VisitInv, LeavesInv, Parsing
  <2> QED BY <1>1, <1>3, <2>2, LinkerTypes, LinkerReads, LinkerLinks DEF LinksInv
<1>4. CASE UNCHANGED vars
  <2>1. /\ registry' = registry /\ pc' = pc /\ walk' = walk /\ visit' = visit
        /\ leaves' = leaves /\ service' = service /\ services' = services
        /\ done' = done /\ seen' = seen /\ links' = links /\ linking' = linking
    BY <1>4 DEF vars, parsing, linking
  <2>2. TypeInv' /\ ReadInv'
    BY <1>1, <2>1 DEF TypeInv, ReadInv, RaisesAtFirstUnlinkable
  <2>3. WalkInv'
    BY <1>1, <2>1, RegistryUnchanged DEF WalkInv, Entered
  <2>4. VisitInv' /\ LeavesInv'
    BY <1>1, <2>1 DEF VisitInv, LeavesInv
  <2>5. LinkInv'
    <3>1. pc' = "linked" => done = Len(services)
      BY <1>1, <2>1 DEF LinkInv
    <3> QED BY <1>1, <2>1, <3>1, SameLinks
  <2> QED BY <2>2, <2>3, <2>4, <2>5 DEF LinksInv
<1> QED BY <1>2, <1>3, <1>4 DEF Next, Over

-----------------------------------------------------------------------------
(* The theorems. *)

\* Whatever the registry holds, the walk through it and the loop over its
\* services are where the invariant says.
THEOREM AcsLinksInvariant == Spec => []LinksInv
<1>1. Init => LinksInv
  BY LinksInit
<1>2. LinksInv /\ [Next]_vars => LinksInv'
  BY LinksStep
<1> QED BY <1>1, <1>2, PTL DEF Spec

\* Which node of its service a container was parsed from, and its place in
\* the registry.
NodesOf(i) ==
    CHOOSE pos \in [DOMAIN services[i].containers -> 1..Len(registry[i].containers)] :
        Picks(pos, services[i].containers, registry[i].containers,
              Len(registry[i].containers))

Origin(p) == <<p[1], NodesOf(p[1])[p[2]]>>

\* All services have been read, and all places are dealt with.
LEMMA AllDealt ==
    ASSUME LinksInv, pc = "linked"
    PROVE  /\ TypeInv /\ LinkInv
           /\ registry \in Registries /\ Len(registry) \in Nat
           /\ DOMAIN registry = 1..Len(registry) /\ DOMAIN services = DOMAIN registry
           /\ \A i \in DOMAIN registry : Parsed(services[i], registry[i])
           /\ \A p : Dealt(p) <=> /\ p[1] \in DOMAIN services
                                  /\ p[2] \in DOMAIN services[p[1]].containers
<1>1. TypeInv /\ LinkInv /\ registry \in Registries
  BY DEF LinksInv, TypeInv
<1>2. Len(registry) \in Nat /\ DOMAIN registry = 1..Len(registry)
  BY <1>1, RegistryFacts
<1>3. /\ Len(services) = Len(registry)
      /\ \A i \in DOMAIN registry : Parsed(services[i], registry[i])
  BY DEF LinksInv, ReadInv
<1>4. DOMAIN services = 1..Len(services)
  BY <1>1, LenProperties DEF TypeInv
<1>5. done = Len(services)
  BY <1>1 DEF LinkInv
<1>6. \A p : Dealt(p) <=> /\ p[1] \in DOMAIN services
                          /\ p[2] \in DOMAIN services[p[1]].containers
  BY <1>2, <1>3, <1>4, <1>5 DEF Dealt
<1> QED BY <1>1, <1>2, <1>3, <1>4, <1>6

LEMMA NodesOfFacts ==
    ASSUME LinksInv, pc = "linked", NEW i \in DOMAIN registry
    PROVE  LET entry == registry[i]
               list == services[i].containers
               pos == NodesOf(i)
           IN  /\ DOMAIN list = 1..Len(list) /\ Len(list) \in Nat
               /\ DOMAIN entry.containers = 1..Len(entry.containers)
               /\ pos \in [DOMAIN list -> 1..Len(entry.containers)]
               /\ \A k, l \in DOMAIN list : k < l => pos[k] < pos[l]
               /\ \A k \in DOMAIN list :
                      /\ IsDoc(entry.containers[pos[k]].node)
                      /\ list[k] = ContainerOf(entry.containers[pos[k]])
               /\ \A j \in DOMAIN entry.containers :
                      /\ entry.containers[j].node # Misshapen
                      /\ IsDoc(entry.containers[j].node) =>
                             \E k \in DOMAIN list : pos[k] = j
               /\ entry.info # Misshapen
               /\ services[i].info # Missing <=> IsDoc(entry.info)
               /\ IsDoc(entry.info) => services[i].info = entry.info.doc
<1> DEFINE entry == registry[i]
           list == services[i].containers
           pos == NodesOf(i)
<1>1. /\ TypeInv /\ registry \in Registries /\ i \in DOMAIN services
      /\ Parsed(services[i], entry)
  BY AllDealt
<1>2. DOMAIN list = 1..Len(list) /\ Len(list) \in Nat
  BY <1>1, ServiceTypes
<1>3. /\ entry.info # Misshapen
      /\ services[i].info # Missing <=> IsDoc(entry.info)
      /\ IsDoc(entry.info) => services[i].info = entry.info.doc
      /\ DOMAIN entry.containers = 1..Len(entry.containers)
      /\ \A j \in DOMAIN entry.containers : entry.containers[j].node # Misshapen
      /\ \E p \in [DOMAIN list -> 1..Len(entry.containers)] :
             Picks(p, list, entry.containers, Len(entry.containers))
  BY <1>1, ParsedFacts
<1>4. /\ pos \in [DOMAIN list -> 1..Len(entry.containers)]
      /\ Picks(pos, list, entry.containers, Len(entry.containers))
  BY <1>3 DEF NodesOf
<1> HIDE DEF entry, list, pos
<1>5. /\ \A k, l \in DOMAIN list : k < l => pos[k] < pos[l]
      /\ \A k \in DOMAIN list :
             /\ IsDoc(entry.containers[pos[k]].node)
             /\ list[k] = ContainerOf(entry.containers[pos[k]])
      /\ \A j \in DOMAIN entry.containers :
             IsDoc(entry.containers[j].node) => \E k \in DOMAIN list : pos[k] = j
  BY <1>3, <1>4 DEF Picks
<1> USE DEF entry, list, pos
<1> QED BY <1>2, <1>3, <1>4, <1>5

\* A container that get_acs_links serves stands in the registry, as itself.
LEMMA OriginFacts ==
    ASSUME LinksInv, pc = "linked", NEW p \in Nat \X Nat, Dealt(p), ServesAt(p)
    PROVE  /\ Origin(p) \in Serving(registry)
           /\ IdAt(registry, Origin(p)) = ContainerAt(p).id
           /\ LinkAt(registry, Origin(p)) = LinkTo(InfoAt(p), ContainerAt(p).state)
<1> DEFINE i == p[1]
           k == p[2]
           entry == registry[i]
           j == NodesOf(i)[k]
           container == entry.containers[j]
<1>1. /\ i \in DOMAIN registry /\ k \in DOMAIN services[i].containers
      /\ i \in Nat /\ k \in Nat
  BY AllDealt
<1>2. /\ j \in DOMAIN entry.containers /\ IsDoc(container.node)
      /\ services[i].containers[k] = ContainerOf(container)
      /\ services[i].info # Missing <=> IsDoc(entry.info)
      /\ IsDoc(entry.info) => services[i].info = entry.info.doc
  BY <1>1, NodesOfFacts
<1>3. InfoAt(p) # Missing /\ Serves(InfoAt(p), ContainerAt(p).state)
  BY DEF ServesAt
<1>4. /\ IsDoc(entry.info) /\ InfoAt(p) = entry.info.doc
      /\ ContainerAt(p) = [id |-> container.id, state |-> container.node.doc]
  BY <1>2, <1>3 DEF InfoAt, ContainerAt, ContainerOf
<1>5. Origin(p) = <<i, j>> /\ Origin(p)[1] = i /\ Origin(p)[2] = j
  BY DEF Origin
<1>6. Origin(p) \in Places(registry)
  BY <1>1, <1>2, <1>5 DEF Places
<1>7. ContainerAt(p).id = container.id /\ ContainerAt(p).state = container.node.doc
  BY <1>4
<1> HIDE DEF i, j, k
<1>8. Origin(p) \in Serving(registry)
  BY <1>2, <1>3, <1>4, <1>5, <1>6, <1>7 DEF Serving
<1>9. IdAt(registry, Origin(p)) = ContainerAt(p).id
  BY <1>5, <1>7 DEF IdAt
<1>10. LinkAt(registry, Origin(p)) = LinkTo(InfoAt(p), ContainerAt(p).state)
  BY <1>4, <1>5, <1>7 DEF LinkAt
<1> QED BY <1>8, <1>9, <1>10

\* The other way round, no container that should get traffic is passed over.
LEMMA ServingFacts ==
    ASSUME LinksInv, pc = "linked", NEW r \in Serving(registry)
    PROVE  \E p \in Nat \X Nat : Dealt(p) /\ ServesAt(p) /\ Origin(p) = r
<1> DEFINE entry == registry[r[1]]
           container == entry.containers[r[2]]
<1>1. /\ r \in Places(registry) /\ IsDoc(entry.info) /\ IsDoc(container.node)
      /\ Serves(entry.info.doc, container.node.doc)
  BY DEF Serving
<1>2. /\ r[1] \in DOMAIN registry /\ r[2] \in DOMAIN entry.containers
      /\ r = <<r[1], r[2]>>
  BY <1>1 DEF Places
<1>3. PICK k \in DOMAIN services[r[1]].containers : NodesOf(r[1])[k] = r[2]
  BY <1>1, <1>2, NodesOfFacts
<1>4. /\ services[r[1]].containers[k] = ContainerOf(container)
      /\ services[r[1]].info # Missing /\ services[r[1]].info = entry.info.doc
      /\ k \in Nat
  BY <1>1, <1>2, <1>3, NodesOfFacts
<1> HIDE DEF entry, container
<1>5. r[1] \in Nat /\ r[1] \in DOMAIN services
  BY <1>2, AllDealt
<1>6. PICK p : p = <<r[1], k>>
  OBVIOUS
<1>7. p \in Nat \X Nat /\ p[1] = r[1] /\ p[2] = k
  BY <1>4, <1>5, <1>6
<1>8. Dealt(p)
  BY <1>3, <1>5, <1>7, AllDealt
<1>9. ServesAt(p)
  BY <1>1, <1>4, <1>7 DEF ServesAt, InfoAt, ContainerAt, ContainerOf
<1>10. Origin(p) = r
  BY <1>2, <1>3, <1>7 DEF Origin
<1> QED BY <1>7, <1>8, <1>9, <1>10

\* The order of the containers is that of their nodes.
LEMMA OriginOrder ==
    ASSUME LinksInv, pc = "linked",
           NEW p \in Nat \X Nat, Dealt(p), NEW q \in Nat \X Nat, Dealt(q),
           Later(Origin(q), Origin(p))
    PROVE  Later(q, p)
<1>1. /\ p[1] \in DOMAIN registry /\ p[2] \in DOMAIN services[p[1]].containers
      /\ q[1] \in DOMAIN registry /\ q[2] \in DOMAIN services[q[1]].containers
      /\ p[1] \in Nat /\ p[2] \in Nat /\ q[1] \in Nat /\ q[2] \in Nat
  BY AllDealt
<1>2. \/ q[1] > p[1]
      \/ q[1] = p[1] /\ NodesOf(q[1])[q[2]] > NodesOf(p[1])[p[2]]
  BY DEF Later, Origin
<1>3. CASE q[1] > p[1]
  BY <1>3 DEF Later
<1>4. CASE q[1] = p[1] /\ NodesOf(q[1])[q[2]] > NodesOf(p[1])[p[2]]
  <2>1. /\ NodesOf(p[1])[p[2]] \in Nat /\ NodesOf(p[1])[q[2]] \in Nat
        /\ q[2] < p[2] => NodesOf(p[1])[q[2]] < NodesOf(p[1])[p[2]]
    <3>1. \A k \in DOMAIN services[p[1]].containers : NodesOf(p[1])[k] \in Nat
      BY <1>1, NodesOfFacts
    <3>2. \A k, l \in DOMAIN services[p[1]].containers :
              k < l => NodesOf(p[1])[k] < NodesOf(p[1])[l]
      BY <1>1, NodesOfFacts
    <3> QED BY <1>1, <1>4, <3>1, <3>2
  <2>2. q[2] > p[2]
    BY <1>1, <1>4, <2>1
  <2> QED BY <1>4, <2>2 DEF Later
<1> QED BY <1>2, <1>3, <1>4

LEMMA LinkedAsSaid ==
    ASSUME LinksInv, pc = "linked"
    PROVE  links = LinksOf(registry)
<1> DEFINE LastUnder(id, r) == IsLast(registry, r) /\ IdAt(registry, r) = id
<1>1. ASSUME NEW id \in DOMAIN links
      PROVE  \E r \in Serving(registry) : LastUnder(id, r) /\ links[id] = LinkAt(registry, r)
  <2>1. PICK p \in Nat \X Nat :
            /\ Dealt(p) /\ ServesAt(p) /\ LastAt(p) /\ ContainerAt(p).id = id
            /\ links[id] = LinkTo(InfoAt(p), ContainerAt(p).state)
    BY AllDealt DEF LinkInv
  <2>2. /\ Origin(p) \in Serving(registry) /\ IdAt(registry, Origin(p)) = id
        /\ LinkAt(registry, Origin(p)) = links[id]
    BY <2>1, OriginFacts
  <2>3. ASSUME NEW r \in Serving(registry), IdAt(registry, r) = id, Later(r, Origin(p))
        PROVE  FALSE
    <3>1. PICK q \in Nat \X Nat : Dealt(q) /\ ServesAt(q) /\ Origin(q) = r
      BY ServingFacts
    <3>2. ContainerAt(q).id = id
      BY <2>3, <3>1, OriginFacts
    <3>3. Later(q, p)
      BY <2>1, <2>3, <3>1, OriginOrder
    <3> QED BY <2>1, <3>1, <3>2, <3>3 DEF LastAt
  <2>4. LastUnder(id, Origin(p))
    BY <2>2, <2>3 DEF IsLast
  <2> QED BY <2>2, <2>4
\* There is but one last place.
<1>2. ASSUME NEW id, NEW r \in Serving(registry), NEW t \in Serving(registry),
             LastUnder(id, r), LastUnder(id, t)
      PROVE  r = t
  <2>1. ~Later(r, t) /\ ~Later(t, r)
    BY <1>2 DEF IsLast
  <2>2. ASSUME NEW s \in Serving(registry)
        PROVE  s[1] \in Nat /\ s[2] \in Nat /\ s = <<s[1], s[2]>>
    <3>1. PICK q \in Nat \X Nat : Dealt(q) /\ Origin(q) = s
      BY ServingFacts
    <3>2. s \in Places(registry)
      BY DEF Serving
    <3>3. s[1] \in DOMAIN registry /\ s[2] \in DOMAIN registry[s[1]].containers
          /\ s = <<s[1], s[2]>>
      BY <3>2 DEF Places
    <3>4. DOMAIN registry[s[1]].containers = 1..Len(registry[s[1]].containers)
      BY <3>3, NodesOfFacts
    <3> QED BY <3>3, <3>4, AllDealt
  <2>3. /\ r[1] \in Nat /\ r[2] \in Nat /\ r = <<r[1], r[2]>>
        /\ t[1] \in Nat /\ t[2] \in Nat /\ t = <<t[1], t[2]>>
    BY <2>2
  <2>4. r[1] = t[1] /\ r[2] = t[2]
    BY <2>1, <2>3 DEF Later
  <2> QED BY <2>3, <2>4
<1>3. DOMAIN links = {IdAt(registry, r) : r \in Serving(registry)}
  <2>1. ASSUME NEW r \in Serving(registry)
        PROVE  IdAt(registry, r) \in DOMAIN links
    <3>1. PICK q \in Nat \X Nat : Dealt(q) /\ ServesAt(q) /\ Origin(q) = r
      BY ServingFacts
    <3> QED BY <3>1, OriginFacts, AllDealt DEF LinkInv
  <2> QED BY <1>1, <2>1
<1>4. ASSUME NEW id \in DOMAIN links
      PROVE  links[id] = LinkAt(registry, CHOOSE r \in Serving(registry) : LastUnder(id, r))
  <2>1. PICK r \in Serving(registry) : LastUnder(id, r) /\ links[id] = LinkAt(registry, r)
    BY <1>1
  <2> HIDE DEF LastUnder
  <2>2. (CHOOSE t \in Serving(registry) : LastUnder(id, t)) \in Serving(registry)
        /\ LastUnder(id, CHOOSE t \in Serving(registry) : LastUnder(id, t))
    BY <2>1
  <2>3. (CHOOSE t \in Serving(registry) : LastUnder(id, t)) = r
    BY <1>2, <2>1, <2>2
  <2> QED BY <2>1, <2>3
<1>5. links = [id \in DOMAIN links |-> links[id]]
  BY AllDealt DEF LinkInv
<1>6. LinksOf(registry) =
          [id \in {IdAt(registry, r) : r \in Serving(registry)} |->
              LinkAt(registry, CHOOSE r \in Serving(registry) : LastUnder(id, r))]
  BY DEF LinksOf
<1> HIDE DEF LastUnder
<1> QED BY <1>3, <1>4, <1>5, <1>6

\* get_acs_links is reached with well-shaped documents only.
LEMMA LinkedIsReadable ==
    ASSUME LinksInv, pc \in {"linked", "raised"}
    PROVE  ~Unreadable(registry)
<1>1. registry \in Registries /\ \A i \in DOMAIN registry : Parsed(services[i], registry[i])
  BY DEF LinksInv, TypeInv, ReadInv
<1>2. ASSUME NEW i \in DOMAIN registry
      PROVE  /\ registry[i].info # Misshapen
             /\ \A container \in Range(registry[i].containers) : container.node # Misshapen
  <2>1. Parsed(services[i], registry[i])
    BY <1>1
  <2> QED BY <1>1, <2>1, ParsedFacts DEF Range
<1> QED BY <1>2 DEF Unreadable, Range

\* Links are returned only if every service can be linked.
LEMMA LinkedIsLinkable ==
    ASSUME LinksInv, pc = "linked"
    PROVE  ~Raises(registry)
<1> SUFFICES ASSUME NEW i \in DOMAIN registry PROVE ~Unlinkable(registry[i])
  BY DEF Raises, Range
<1>1. i \in 1..done
  <2>1. DOMAIN registry = 1..Len(registry) /\ done = Len(services) /\ Len(services) = Len(registry)
    BY AllDealt DEF LinksInv, ReadInv, LinkInv
  <2> QED BY <2>1
<1> QED BY <1>1, DoneIsLinkable

\* The links are those of the running and healthy containers of the admitted
\* services that ask for the proxy, whatever else the registry holds, in
\* whatever order etcd lists the nodes (etcd_info.py, acs_link_helper.py).
THEOREM LinksAreServing == Spec => []LinksAreServingContainers
<1>1. LinksInv => LinksAreServingContainers
  BY LinkedAsSaid DEF LinksAreServingContainers
<1> QED BY <1>1, AcsLinksInvariant, PTL

\* Each way in which the call can end tells which documents the registry
\* holds: wrong shapes, services that cannot be linked, or neither
\* (etcd_info.py:79-100, acshaproxycfg.py:63-78).
THEOREM FailuresAreBadDocuments == Spec => []FailsOnBadDocuments
<1>1. LinksInv => FailsOnBadDocuments
  <2>1. LinksInv /\ pc = "unparsed" => Unreadable(registry)
    BY DEF LinksInv, ReadInv
  <2>2. ASSUME LinksInv, pc = "raised" PROVE Raises(registry)
    <3>1. done < Len(registry) /\ Unlinkable(registry[done + 1])
      BY <2>2 DEF LinksInv, ReadInv, RaisesAtFirstUnlinkable
    <3>2. done + 1 \in DOMAIN registry
      BY <2>2, <3>1, RegistryFacts DEF LinksInv, TypeInv
    <3> QED BY <3>1, <3>2 DEF Raises, Range
  <2> QED BY <2>1, <2>2, LinkedIsReadable, LinkedIsLinkable DEF FailsOnBadDocuments
<1> QED BY <1>1, AcsLinksInvariant, PTL

\* Where get_acs_links raises there is a service that cannot be linked, and it
\* is the first one: no document of another service makes the loop end before
\* it, and none makes the loop go past it (acs_link_helper.py:9-21).
THEOREM FirstUnlinkableRaises == Spec => []RaisesAtFirstUnlinkable
<1>1. LinksInv => RaisesAtFirstUnlinkable
  BY DEF LinksInv, ReadInv
<1> QED BY <1>1, AcsLinksInvariant, PTL
=============================================================================
