----------------------------- MODULE MCAcsProxy -----------------------------
(***************************************************************************)
(* Instances of AcsProxy for TLC: two or three registries, written as the  *)
(* documents etcd would hold and turned into configurations by the links   *)
(* AcsRegistry gives them, which is what AcsLinks computes.                *)
(***************************************************************************)
EXTENDS AcsProxy, Functions, TLC

CONSTANTS
    m1, m2,        \* servers
    Absent, Null,  \* a key that is not there, and null
    LegacyCfg      \* the configuration the environment's links give

Acs == INSTANCE AcsRegistry
    WITH ProjectName <- <<"shop">>, Additional <- "none", Listed <- {},
         Missing <- Absent, Null <- Null

Info(cert) ==
    Acs!Doc([labels |-> [required |-> "true", VIRTUAL_HOST |-> Absent,
                         SSL_CERT |-> cert],
             project |-> <<"shop">>, name |-> <<"web">>,
             expose |-> {}, ports |-> {<<"80">>}, exposed |-> {}])

Container(name, ip, health) ==
    Acs!Doc([name |-> name, ip |-> ip, status |-> "running", health |-> health])

Service(info, container) ==
    <<[info |-> info, containers |-> <<[id |-> "c1", node |-> container]>>]>>

\* What the registry directory may hold.
Registry ==
    [before  |-> Service(Info("pem1"), Container("/web_1", "ip1", "success")),
     moved   |-> Service(Info("pem1"), Container("/web_1", "ip2", "success")),
     renewed |-> Service(Info("pem2"), Container("/web_1", "ip1", "success")),
     sick    |-> Service(Info("pem1"), Container("/web_1", "ip1", "fail")),
     noid    |-> Service(Acs!Misshapen, Container("/web_1", "ip1", "success")),
     unnamed |-> Service(Info("pem1"), Container(Absent, "ip1", "success"))]

MCParseFailsTable == [s \in Snapshots |-> Acs!Unreadable(Registry[s])]
MCParseFails(s) == MCParseFailsTable[s]

MCLinkFailsTable == [s \in Snapshots |-> ~MCParseFails(s) /\ Acs!Raises(Registry[s])]
MCLinkFails(s) == MCLinkFailsTable[s]

\* The text of haproxy.cfg, up to what tells two registries apart: the
\* endpoints.  A certificate changes nothing in it.
Usable(s) == ~MCParseFails(s) /\ ~MCLinkFails(s)

LinksOf(s) == IF Usable(s) THEN Acs!LinksOf(Registry[s]) ELSE <<>>

MCCfgTable ==
    [s \in Snapshots |-> {link.endpoints : link \in Range(LinksOf(s))}]
MCCfg(v) == IF v = Legacy THEN LegacyCfg ELSE MCCfgTable[v]

\* Haproxy.cls_certs = []
MCNoCerts == {}

MCCertsTable ==
    [s \in Snapshots |-> {link.envvars.SSL_CERT : link \in Range(LinksOf(s))}]
MCCerts(v) == IF v = Legacy THEN MCNoCerts ELSE MCCertsTable[v]

=============================================================================
