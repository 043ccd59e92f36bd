------------------------------ MODULE AcsLinks ------------------------------
(***************************************************************************)
(* From the answer of etcd to the links of HAProxy: parse_services of      *)
(* registry/etcd_info.py, which walks through the tree of nodes, and       *)
(* get_acs_links of acs_link_helper.py, which goes through the services    *)
(* found.  One step takes one node of the tree, or one container; what     *)
(* makes them interesting is which exceptions are caught, which containers *)
(* are let through, and which assignment to a link stays.                  *)
(***************************************************************************)
EXTENDS AcsRegistry, EtcdResult

CONSTANTS
    Ids,               \* ids of services and of containers
    InfoContents,      \* what an info node may hold
    ContainerContents, \* what a container node may hold
    Registries         \* the registries that are read

Entries ==
    [id : Ids, info : InfoContents, infoFirst : BOOLEAN,
     containers : Seq([id : Ids, node : ContainerContents])]

\* Any registry; only a service or container called "info" or "containers"
\* would be taken for a node of that kind.
ASSUME RegistryAssumption ==
    /\ Registries \subseteq Seq(Entries)
    /\ {"info", "containers"} \cap Ids = {}
    /\ \A content \in InfoContents : IsDoc(content) => content.doc # Missing

VARIABLES
    registry,    \* what etcd holds
    pc,          \* "services", "service", "containers", "links" or an outcome:
                 \* "unparsed", "raised", "linked"
    walk,        \* the generator of parse_services
    visit,       \* the generator of parse_service
    leaves,      \* the generator tree.leaves
    service,     \* the Service object under construction
    services,    \* the list of services
    done, seen,  \* services get_acs_links is done with, containers of the next
    links        \* links, by container id

parsing == <<walk, visit, leaves, service, services>>
linking == <<done, seen, links>>
vars == <<registry, pc, parsing, linking>>

-----------------------------------------------------------------------------
(* The tree etcd answers with.  A node that holds nothing is not there.    *)
(* The nodes of a directory come in no particular order.                   *)

Base == <<"default", "registry", "services">>

InfoFile(entry) ==
    File(<<"default", "registry", "services", entry.id, "info">>, entry.info)

ContainerFile(entry, container) ==
    File(<<"default", "registry", "services", entry.id, "containers", container.id>>,
         container.node)

ContainersDir(entry) ==
    Dir(<<"default", "registry", "services", entry.id, "containers">>,
        [j \in DOMAIN entry.containers |-> ContainerFile(entry, entry.containers[j])])

ServiceNodes(entry) ==
    CASE entry.info = Empty -> <<ContainersDir(entry)>>
      [] entry.info # Empty /\ entry.infoFirst -> <<InfoFile(entry), ContainersDir(entry)>>
      [] entry.info # Empty /\ ~entry.infoFirst -> <<ContainersDir(entry), InfoFile(entry)>>

ServiceTree(entry) ==
    Dir(<<"default", "registry", "services", entry.id>>, ServiceNodes(entry))

Tree(entries) == Dir(Base, [i \in DOMAIN entries |-> ServiceTree(entries[i])])

-----------------------------------------------------------------------------
NewService == [info |-> Missing, containers |-> <<>>]

Init ==
    /\ registry \in Registries
    /\ pc = "services"
    /\ walk = GetSubtree(Tree(registry))
    /\ visit = <<>>
    /\ leaves = <<>>
    /\ service = NewService
    /\ services = <<>>
    /\ done = 0
    /\ seen = 0
    /\ links = <<>>

\* The key of a service splits into five parts, the first of them empty.
IsService(node) == Len(node.key) = 4

IsNamed(node, name) == node.key[Len(node.key)] = name

-----------------------------------------------------------------------------
(* parse_services *)

SkipNode ==
    /\ pc = "services" /\ walk # <<>> /\ ~IsService(Head(walk))
    /\ walk' = Resume(walk)
    /\ UNCHANGED <<registry, pc, visit, leaves, service, services, linking>>

EnterService ==
    /\ pc = "services" /\ walk # <<>> /\ IsService(Head(walk))
    /\ pc' = "service"
    /\ walk' = Resume(walk)
    /\ visit' = GetSubtree(Head(walk))
    /\ service' = NewService
    /\ UNCHANGED <<registry, leaves, services, linking>>

ServiceParsed ==
    /\ pc = "service" /\ visit = <<>>
    /\ pc' = "services"
    /\ services' = Append(services, service)
    /\ UNCHANGED <<registry, walk, visit, leaves, service, linking>>

ServicesParsed ==
    /\ pc = "services" /\ walk = <<>>
    /\ pc' = "links"
    /\ UNCHANGED <<registry, parsing, linking>>

-----------------------------------------------------------------------------
(* parse_service *)

\* Mutant of Escapes: text that is no JSON is not left out either.
EscapesToo(content) == content \in {Garbled, Misshapen}

\* The exceptions `except ValueError' does not take.
Escapes(content) == content = Misshapen

VisitInfo ==
    /\ pc = "service" /\ visit # <<>> /\ IsNamed(Head(visit), "info")
    /\ visit' = Resume(visit)
    /\ LET content == Head(visit).value IN
       /\ pc' = IF Escapes(content) THEN "unparsed" ELSE pc
       /\ service' = IF IsDoc(content)
                     THEN [service EXCEPT !.info = content.doc]
                     ELSE service
    /\ UNCHANGED <<registry, walk, leaves, services, linking>>

VisitContainers ==
    /\ pc = "service" /\ visit # <<>> /\ IsNamed(Head(visit), "containers")
    /\ pc' = "containers"
    /\ visit' = Resume(visit)
    /\ leaves' = GetSubtree(Head(visit))
    /\ UNCHANGED <<registry, walk, service, services, linking>>

VisitOther ==
    /\ pc = "service" /\ visit # <<>>
    /\ ~IsNamed(Head(visit), "info") /\ ~IsNamed(Head(visit), "containers")
    /\ visit' = Resume(visit)
    /\ UNCHANGED <<registry, pc, walk, leaves, service, services, linking>>

\* A directory of leaves is gone into, and not yielded.
EnterDirectory ==
    /\ pc = "containers" /\ leaves # <<>> /\ ~IsLeaf(Head(leaves))
    /\ leaves' = Resume(leaves)
    /\ UNCHANGED <<registry, pc, walk, visit, service, services, linking>>

\* A container is called after its key.
ParseContainer ==
    /\ pc = "containers" /\ leaves # <<>> /\ IsLeaf(Head(leaves))
    /\ leaves' = Resume(leaves)
    /\ LET leaf == Head(leaves) IN
       /\ pc' = IF Escapes(leaf.value) THEN "unparsed" ELSE pc
       /\ service' =
              IF IsDoc(leaf.value)
              THEN [service EXCEPT !.containers =
                       Append(@, [id |-> leaf.key[Len(leaf.key)], state |-> leaf.value.doc])]
              ELSE service
    /\ UNCHANGED <<registry, walk, visit, services, linking>>

ContainersParsed ==
    /\ pc = "containers" /\ leaves = <<>>
    /\ pc' = "service"
    /\ UNCHANGED <<registry, parsing, linking>>

-----------------------------------------------------------------------------
(* get_acs_links *)

WantsProxy(info) ==
    info.labels.required = "true" \/ info.labels.VIRTUAL_HOST # Missing

\* `project + ":" + service' raises TypeError on a missing name.
FilterRaises(info) ==
    Additional = "list" /\ Missing \in {info.project, info.name}

InFilter(info) ==
    \/ Additional = "all"
    \/ Additional = "list" /\ <<info.project, info.name>> \in Listed
    \/ info.project = ProjectName

\* Mutant of LinkRaises: the name is used before the labels are looked at.
LinkRaisesOnAnyName(info, container) ==
    container.name = Missing \/ (WantsProxy(info) /\ FilterRaises(info))

\* _container.get("name").lstrip("/") on a container without a name.
LinkRaises(info, container) ==
    WantsProxy(info) /\ (FilterRaises(info) \/ (InFilter(info) /\ container.name = Missing))

\* Mutant of Healthy: running is enough.
HealthyIfRunning(container) == container.status = "running"

Healthy(container) ==
    container.status = "running" /\ container.health = "success"

\* The endpoints of a container, by port: where HAProxy sends requests.
GetContainerEndpoints(container, info) ==
    IF Healthy(container)
    THEN [port \in PortList(info) |-> <<container.ip, port>>]
    ELSE <<>>

NextService == services[done + 1]
NextContainer == NextService.containers[seen + 1]

AtService == pc = "links" /\ done < Len(services)

\* .get on a "definition" or "labels" that is null.
LabelsRaise ==
    /\ AtService /\ NextService.info # Missing /\ NextService.info.labels = Null
    /\ pc' = "raised"
    /\ UNCHANGED <<registry, parsing, linking>>

AtContainer ==
    /\ AtService /\ NextService.info # Missing /\ NextService.info.labels # Null
    /\ seen < Len(NextService.containers)

ContainerRaises ==
    /\ AtContainer /\ LinkRaises(NextService.info, NextContainer.state)
    /\ pc' = "raised"
    /\ UNCHANGED <<registry, parsing, linking>>

\* links[container_id] = ...: the last assignment stays.
LinkContainer ==
    /\ AtContainer /\ ~LinkRaises(NextService.info, NextContainer.state)
    /\ seen' = seen + 1
    /\ LET info == NextService.info
           id == NextContainer.id
           endpoints == GetContainerEndpoints(NextContainer.state, info)
           link == [service |-> ServiceName(info),
                    envvars |-> info.labels,
                    endpoints |-> endpoints]
       IN  links' = IF WantsProxy(info) /\ InFilter(info) /\ DOMAIN endpoints # {}
                    THEN [x \in DOMAIN links \cup {id} |-> IF x = id THEN link ELSE links[x]]
                    ELSE links
    /\ UNCHANGED <<registry, pc, parsing, done>>

\* Nothing is done for a service without info.
ServiceLinked ==
    /\ AtService
    /\ \/ NextService.info = Missing
       \/ /\ NextService.info # Missing /\ NextService.info.labels # Null
          /\ seen = Len(NextService.containers)
    /\ done' = done + 1
    /\ seen' = 0
    /\ UNCHANGED <<registry, pc, parsing, links>>

Linked ==
    /\ pc = "links" /\ done = Len(services)
    /\ pc' = "linked"
    /\ UNCHANGED <<registry, parsing, linking>>

-----------------------------------------------------------------------------
ParseServices == SkipNode \/ EnterService \/ ServiceParsed \/ ServicesParsed

ParseService ==
    \/ VisitInfo \/ VisitContainers \/ VisitOther
    \/ EnterDirectory \/ ParseContainer \/ ContainersParsed

GetAcsLinks ==
    LabelsRaise \/ ContainerRaises \/ LinkContainer \/ ServiceLinked \/ Linked

\* The call is over: it returned the links, or raised.
Over == pc \in {"unparsed", "raised", "linked"} /\ UNCHANGED vars

Next == ParseServices \/ ParseService \/ GetAcsLinks \/ Over

Spec == Init /\ [][Next]_vars

-----------------------------------------------------------------------------
(* Properties *)

\* HAProxy gets exactly the running and healthy containers of the services
\* that ask for the proxy and that ADDITIONAL_SERVICES admits, each under the
\* service that lists it last, whatever could not be parsed beside them
\* (acs_link_helper.py:6-31, README.md:11-15).
LinksAreServingContainers == pc = "linked" => links = LinksOf(registry)

\* The answer cannot be read only if a document has the wrong shape, and an
\* exception of get_acs_links, which ends the process, comes from a service
\* that cannot be linked; a registry with such documents is not linked in
\* part (etcd_info.py:79-100, acshaproxycfg.py:63-78).
FailsOnBadDocuments ==
    /\ pc = "unparsed" => Unreadable(registry)
    /\ pc = "raised" => ~Unreadable(registry) /\ Raises(registry)
    /\ pc = "linked" => ~Unreadable(registry) /\ ~Raises(registry)

\* An exception of get_acs_links comes from the service it is at, which asks for
\* the proxy or has no labels object at all: what the services before it hold
\* has not raised, and none that cannot be linked was passed over on the way
\* (acs_link_helper.py:9-21).
RaisesAtFirstUnlinkable ==
    pc = "raised" =>
        /\ done < Len(registry)
        /\ Unlinkable(registry[done + 1])
        /\ \A i \in 1..done : ~Unlinkable(registry[i])
=============================================================================
