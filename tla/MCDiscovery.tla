---------------------------- MODULE MCDiscovery -----------------------------
(* A small instance of Discovery: the local fallback takes whoever answers *)
(* at the one address, where two devices come and go, and mDNS advertises  *)
(* one of them.  Both report direct local routes.                          *)
EXTENDS Discovery, TLC

CONSTANTS d1, a1, k1, fallback

Broadcast(a) == [source |-> <<fallback, a>>, addr |-> a, expects |-> Anyone]
Polled == fallback :> {Broadcast(a1)}
OneAdvertises == d1 :> <<Mdns, d1>>

AllSources == {c.source : c \in UNION Range(Candidates)} \cup Range(Advertised)
Ranks == [s \in AllSources |-> 0]
Discoveries == [s \in AllSources |-> s[1]]
ProbedSources == {s \in AllSources : s[1] # Mdns}
OneKey == [id \in Ids |-> k1]
=============================================================================
