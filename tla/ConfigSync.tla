----------------------------- MODULE ConfigSync -----------------------------
(***************************************************************************)
(* What acs/proxy promises about the HAProxy it runs, without the watch,   *)
(* the clients or the cache of the last configuration: HAProxy serves one  *)
(* configuration, text and certificates together, of a registry that was   *)
(* published and could be used, or of the environment's links.             *)
(***************************************************************************)
CONSTANTS
    Contents,     \* what the registry directory may hold, or its absence
    Legacy,       \* the links of the process environment
    Cfg(_), Certs(_), Usable(_),
    Stopped

VARIABLES
    published,    \* every content the registry has had
    running       \* what HAProxy serves

syncVars == <<published, running>>

Serve(view) == running' = [cfg |-> Cfg(view), certs |-> Certs(view)]

SyncInit ==
    /\ \E s \in Contents : published = {s}
    /\ running = Stopped

Publish(s) ==
    /\ published' = published \cup {s}
    /\ UNCHANGED running

Install(s) ==
    /\ s \in published
    /\ Usable(s)
    /\ Serve(s)
    /\ UNCHANGED published

Regress == Serve(Legacy) /\ UNCHANGED published

Stop == running' = Stopped /\ UNCHANGED published

SyncNext ==
    \/ \E s \in Contents : Publish(s) \/ Install(s)
    \/ Regress
    \/ Stop

SyncSpec == SyncInit /\ [][SyncNext]_syncVars
=============================================================================
