---------------------------- MODULE MCEtcdClient ----------------------------
(***************************************************************************)
(* Three servers; the constructor is given names of two of them, one of    *)
(* them a name that the members do not use themselves ("if you input       *)
(* 127.0.0.1 as your host and etcd advertises localhost", client.py:198).  *)
(***************************************************************************)
EXTENDS EtcdClient

CONSTANTS s1, s2, s3, alias

MCServerOf(name) == IF name = alias THEN s2 ELSE name

MCHosts == <<s1, alias>>
=============================================================================
