----------------------------- MODULE TicketLock -----------------------------
(***************************************************************************)
(* What the lock recipe promises when entries do not expire: clients draw  *)
(* tickets, and are served one at a time, in the order of the tickets.     *)
(* EtcdLock implements this specification.                                 *)
(***************************************************************************)
EXTENDS Integers, Functions

CONSTANTS
    Clients,
    Numbers   \* what is printed on the tickets: integers

VARIABLES
    tickets,  \* number -> client, of the tickets that are out
    served    \* the clients that believe to have the lock

ticketVars == <<tickets, served>>

Out == DOMAIN tickets

TicketInit == tickets = <<>> /\ served = {}

\* A ticket is drawn at the end of the queue; a client may hold several.
Draw(c) ==
    /\ \E n \in Numbers :
          /\ \A k \in Out : k < n
          /\ tickets' = [k \in Out \cup {n} |-> IF k = n THEN c ELSE tickets[k]]
    /\ UNCHANGED served

\* Nobody is served before an older ticket is given back.
Enter(c) ==
    /\ served = {}
    /\ \E n \in Out : tickets[n] = c /\ \A k \in Out : n <= k
    /\ served' = {c}
    /\ UNCHANGED tickets

GiveBack(c) ==
    \E n \in Out : tickets[n] = c /\ tickets' = Restrict(tickets, Out \ {n})

\* A client leaves, or finds that it has not been served; its ticket may stay.
Leave(c) ==
    /\ served' = served \ {c}
    /\ GiveBack(c) \/ UNCHANGED tickets

TicketNext == \E c \in Clients : Draw(c) \/ Enter(c) \/ Leave(c)

TicketSpec == TicketInit /\ [][TicketNext]_ticketVars
=============================================================================
