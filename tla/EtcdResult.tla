----------------------------- MODULE EtcdResult -----------------------------
(***************************************************************************)
(* The answer to a recursive read (class EtcdResult of python-etcd/src/    *)
(* etcd/__init__.py): a tree of nodes, and the generator get_subtree that  *)
(* walks through it.  A key is the sequence of its parts.                  *)
(*                                                                         *)
(* A generator is the sequence of the nodes it has still to go into, which *)
(* is what the suspended calls of get_subtree stand for: the first of them *)
(* is next, and its children come before the rest.                         *)
(***************************************************************************)
EXTENDS Sequences

\* etcd's JSON of a node: "nodes" is there for a directory read recursively.
File(key, value) == [key |-> key, value |-> value, dir |-> FALSE, nodes |-> <<>>]
Dir(key, nodes) == [key |-> key, value |-> [kind |-> "empty"], dir |-> TRUE, nodes |-> nodes]

\* _children: raw nodes, turned into results when they are walked through.
Children(node) == IF node.dir THEN node.nodes ELSE <<>>

GetSubtree(node) == <<node>>

\* The generator after its next node.
Resume(todo) == Children(Head(todo)) \o Tail(todo)

\* A node without children is a leaf, an empty directory too.  With
\* leaves_only the others are gone into and not yielded.
IsLeaf(node) == Children(node) = <<>>
=============================================================================
