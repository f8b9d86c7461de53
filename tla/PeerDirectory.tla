--------------------------- MODULE PeerDirectory ----------------------------
(***************************************************************************)
(* What the peer registry promises to the interface and to senders: a      *)
(* device is listed, and an address offered as its route, exactly while    *)
(* one of the sources claims it.  A report replaces what its source said   *)
(* of that device; a withdrawal takes claims and adds none.                *)
(***************************************************************************)
CONSTANTS Ids, Sources, Addrs

VARIABLES
    claims,    \* <<device, source, address>>
    routes,    \* <<device, address>>
    listed     \* devices

vars == <<claims, routes, listed>>

Init == claims = {} /\ routes = {} /\ listed = {}

Recomputed ==
    /\ routes' = {<<c[1], c[3]>> : c \in claims'}
    /\ listed' = {c[1] : c \in claims'}

Reports(id, s, at) ==
    /\ claims' = {c \in claims : c[1] # id \/ c[2] # s} \cup ({id} \X {s} \X at)
    /\ Recomputed

Withdraws(gone) ==
    /\ claims' = claims \ gone
    /\ Recomputed

Next ==
    \/ \E id \in Ids, s \in Sources, at \in (SUBSET Addrs) \ {{}} : Reports(id, s, at)
    \/ \E gone \in SUBSET claims : Withdraws(gone)

Spec == Init /\ [][Next]_vars
=============================================================================
