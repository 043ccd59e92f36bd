---------------------------- MODULE AcsRegistry ----------------------------
(***************************************************************************)
(* The registry of services as documents, and what acs/proxy should make   *)
(* of it: which registries cannot be read, which end the process, and the  *)
(* links of the others.  Said of the documents as a whole; AcsLinks is the *)
(* code that gets there node by node.                                      *)
(*                                                                         *)
(* A registry is the sequence of its services.  A service has an info node *)
(* and a directory of container nodes; a node holds nothing, text that is  *)
(* no JSON, JSON of the wrong shape, or a record.                          *)
(***************************************************************************)
EXTENDS Integers, Sequences, SequencesExt

CONSTANTS
    ProjectName,   \* COMPOSE_PROJECT_NAME of the proxy
    Additional,    \* ADDITIONAL_SERVICES: "none", "all" or "list"
    Listed,        \* the <<project, service>> pairs of that list
    Missing,       \* a key a JSON object does not have
    Null           \* null where the code expects an object

Empty == [kind |-> "empty"]        \* no value: `if tree.value' is false
Garbled == [kind |-> "garbled"]    \* json.loads raises ValueError
Misshapen == [kind |-> "shape"]    \* info without "id", container no object
Doc(d) == [kind |-> "doc", doc |-> d]

IsDoc(content) == content.kind = "doc"

\* A mapping is a sequence of parts: <<container>>, <<host, container>> or
\* <<ip, host, container>>.  port.split(":", 1)[-1] takes off one part.
PublishedPort(mapping) == IF Len(mapping) = 1 THEN mapping ELSE Tail(mapping)

PortList(info) ==
    LET mapped == {PublishedPort(p) : p \in info.expose \cup info.ports}
    IN  IF mapped # {} THEN mapped ELSE info.exposed

\* "%s_%s": a name is the sequence of its parts between underscores.
ServiceName(info) ==
    LET Text(name) == IF name = Missing THEN <<"None">> ELSE name
    IN  Text(info.project) \o Text(info.name)

-----------------------------------------------------------------------------
(* Registries that make the code raise. *)

\* KeyError and TypeError pass the `except ValueError' of parse_service.
Unreadable(registry) ==
    \E service \in Range(registry) :
        \/ service.info = Misshapen
        \/ \E container \in Range(service.containers) : container.node = Misshapen

\* A service whose label asks for the proxy.
Asks(info) == info.labels.required = "true" \/ info.labels.VIRTUAL_HOST # Missing

Admitted(info) ==
    \/ info.project = ProjectName
    \/ Additional = "all"
    \/ Additional = "list" /\ <<info.project, info.name>> \in Listed

\* The filter cannot join a name that is missing, and a container that is to
\* be linked needs a name.
Unlinkable(service) ==
    /\ IsDoc(service.info)
    /\ \/ service.info.doc.labels = Null
       \/ /\ Asks(service.info.doc)
          /\ \E container \in Range(service.containers) :
                 /\ IsDoc(container.node)
                 /\ \/ /\ Additional = "list"
                       /\ Missing \in {service.info.doc.project, service.info.doc.name}
                    \/ Admitted(service.info.doc) /\ container.node.doc.name = Missing

Raises(registry) == \E service \in Range(registry) : Unlinkable(service)

-----------------------------------------------------------------------------
(* The links. *)

\* The places <<service, container>> of the registry, in the order of the
\* assignments to links[container_id].
Places(registry) == UNION {{i} \X DOMAIN registry[i].containers : i \in DOMAIN registry}

Later(p, q) == p[1] > q[1] \/ (p[1] = q[1] /\ p[2] > q[2])

IdAt(registry, p) == registry[p[1]].containers[p[2]].id

\* The containers that are to get traffic.
Serves(info, container) ==
    /\ info.labels # Null /\ Asks(info) /\ Admitted(info)
    /\ PortList(info) # {}
    /\ container.status = "running" /\ container.health = "success"

Serving(registry) ==
    {p \in Places(registry) :
        LET service == registry[p[1]]
            container == service.containers[p[2]]
        IN  /\ IsDoc(service.info) /\ IsDoc(container.node)
            /\ Serves(service.info.doc, container.node.doc)}

LinkTo(info, container) ==
    [service |-> ServiceName(info),
     envvars |-> info.labels,
     endpoints |-> [port \in PortList(info) |-> <<container.ip, port>>]]

LinkAt(registry, p) ==
    LinkTo(registry[p[1]].info.doc, registry[p[1]].containers[p[2]].node.doc)

\* p is the last place that serves under its id.
IsLast(registry, p) ==
    /\ p \in Serving(registry)
    /\ \A q \in Serving(registry) : IdAt(registry, q) = IdAt(registry, p) => ~Later(q, p)

LinksOf(registry) ==
    [id \in {IdAt(registry, p) : p \in Serving(registry)} |->
        LinkAt(registry, CHOOSE p \in Serving(registry) :
                             IsLast(registry, p) /\ IdAt(registry, p) = id)]
=============================================================================
