----------------------------- MODULE MCAcsLinks -----------------------------
(***************************************************************************)
(* AcsLinks on every registry of up to two services with up to two         *)
(* container nodes each, drawn from the documents below.                   *)
(***************************************************************************)
EXTENDS AcsLinks

Labels(required, vhost) == [required |-> required, VIRTUAL_HOST |-> vhost]

InfoDoc(labels, project, name, ports, exposed) ==
    Doc([labels |-> labels, project |-> project, name |-> name,
         expose |-> {}, ports |-> ports, exposed |-> exposed])

Wanted == Labels("true", Missing)
Web == <<"web">>
Ours == <<"shop">>
Theirs == <<"blog">>

MCIds == {"s1", "s2", "c1", "c2"}

MCInfoContents ==
    {Empty, Garbled, Misshapen,
     InfoDoc(Wanted, Ours, Web, {<<"80">>}, {<<"8080">>}),
     InfoDoc(Wanted, Ours, Web, {}, {}),
     InfoDoc(Labels("false", "shop.example"), Ours, Web, {}, {<<"8080">>}),
     InfoDoc(Labels("false", Missing), Ours, Web, {<<"80">>}, {}),
     InfoDoc(Wanted, Theirs, Web, {<<"8000", "80">>}, {}),
     InfoDoc(Wanted, Missing, Web, {<<"ip0", "8000", "80">>}, {}),
     InfoDoc(Null, Ours, Web, {<<"80">>}, {})}

\* The services ADDITIONAL_SERVICES names.
MCListed == {<<Theirs, Web>>}

\* A node below containers: its id and what it holds.
Node(id, content) == [id |-> id, node |-> content]

ContainerDoc(name, ip, status, health) ==
    Doc([name |-> name, ip |-> ip, status |-> status, health |-> health])

ContainerNodes ==
    {Node("c1", Garbled),
     Node("c2", Misshapen),
     Node("c1", ContainerDoc("/web_1", "ip1", "running", "success")),
     Node("c2", ContainerDoc("/web_2", "ip2", "running", "success")),
     Node("c1", ContainerDoc("/web_1", "ip1", "running", "fail")),
     Node("c2", ContainerDoc(Missing, "ip2", "exited", "success"))}

MCContainerContents == {container.node : container \in ContainerNodes}

\* A directory has a key once.
ContainerDirs ==
    {nodes \in BoundedSeq(ContainerNodes, 2) :
        \A i, j \in DOMAIN nodes : nodes[i].id = nodes[j].id => i = j}

Service(id) ==
    [id : {id}, info : MCInfoContents, infoFirst : BOOLEAN, containers : ContainerDirs]

\* With two services, the nodes of the first come in one order.
MCRegistries ==
    {<<>>} \cup {<<first>> : first \in Service("s1")}
           \cup {first \in Service("s1") : first.infoFirst} \X Service("s2")
=============================================================================
