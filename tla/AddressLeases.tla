---------------------------- MODULE AddressLeases ----------------------------
(***************************************************************************)
(* What the control plane and the user plane of the gateway promise for the *)
(* addresses of UEs: an address is leased to one PDN connection at a time,  *)
(* packets for it are routed to a connection only while that connection     *)
(* holds the lease, and a lease ends only when no packet is routed by it.   *)
(***************************************************************************)
CONSTANTS Addresses, Connections, Nobody   \* Nobody is no connection

VARIABLES
  holder,    \* address -> the connection it is leased to
  route      \* address -> the connection its packets go to

Init == holder = [a \in Addresses |-> Nobody] /\ route = [a \in Addresses |-> Nobody]

Lease(a, c) ==
  /\ holder[a] = Nobody
  /\ holder' = [holder EXCEPT ![a] = c]
  /\ UNCHANGED route

Route(a) ==
  /\ holder[a] # Nobody /\ route[a] = Nobody
  /\ route' = [route EXCEPT ![a] = holder[a]]
  /\ UNCHANGED holder

\* The user plane drops any number of routes at a time.
Unroute(A) ==
  /\ route' = [a \in Addresses |-> IF a \in A THEN Nobody ELSE route[a]]
  /\ UNCHANGED holder

Return(a) ==
  /\ holder[a] # Nobody /\ route[a] = Nobody
  /\ holder' = [holder EXCEPT ![a] = Nobody]
  /\ UNCHANGED route

Next ==
  \/ \E a \in Addresses, c \in Connections : Lease(a, c)
  \/ \E a \in Addresses : Route(a) \/ Return(a)
  \/ \E A \in SUBSET Addresses : Unroute(A)

Spec == Init /\ [][Next]_<<holder, route>>

\* Whoever receives packets for an address holds its lease.
RoutedToHolder == \A a \in Addresses : route[a] \in {Nobody, holder[a]}

==============================================================================
