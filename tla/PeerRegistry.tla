---------------------------- MODULE PeerRegistry ----------------------------
(***************************************************************************)
(* PeerRegistry (src-tauri/src/peer.rs) with the ranking of routing.rs.    *)
(* Discovery workers, manual connections and transfers report to one       *)
(* registry; each call below runs under the registry's lock, but the       *)
(* reports were made earlier and may arrive late.                          *)
(*                                                                         *)
(* obs holds what each source said (source_observations), endpoints the    *)
(* view reconciled from it, peers the metadata of each listed device.  The *)
(* key of a device stands for all metadata its reports carry: name, system *)
(* and protocol version follow the same rule.  Route history, kept for     *)
(* diagnostics only, is left out.                                          *)
(***************************************************************************)
EXTENDS Integers, FiniteSets, FiniteSetsExt, Functions

CONSTANTS
    Ids, Keys, NoKey,   \* device identifiers and public-key fingerprints
    Addrs,              \* endpoint addresses
    Sources,            \* endpoint sources
    RankOf,             \* route_rank of the class each source reports
    DiscoveryOf,        \* the discovery each source belongs to
    Probed,             \* sources that report after a secure probe
    MaxAge,             \* PEER_STALE_AFTER, in clock steps
    MaxClock            \* bound on the clock

ASSUME RegistryAssumption ==
    /\ NoKey \notin Keys
    /\ RankOf \in [Sources -> Nat] /\ Probed \subseteq Sources
    /\ Sources \subseteq DOMAIN DiscoveryOf
    /\ MaxAge \in Nat /\ MaxClock \in Nat

VARIABLES
    obs,         \* [id, addr, source, seen, reach]: source observations
    endpoints,   \* [id, addr, source, seen, reach]: the reconciled view
    peers,       \* id -> [key, auth, seen]
    clock,
    bound,       \* history: the key last authenticated for each id
    proven       \* history: listed endpoints that ever completed a handshake

vars == <<obs, endpoints, peers, clock, bound, proven>>

Reaches == {"reachable", "unknown", "unreachable"}
Listings == [id : Ids, addr : Addrs, source : Sources,
             seen : 0..MaxClock, reach : Reaches]
Metadata == [key : Keys, auth : Keys \cup {NoKey}, seen : 0..MaxClock]

Init ==
    /\ obs = {} /\ endpoints = {} /\ peers = [id \in {} |-> NoKey]
    /\ clock = 0 /\ bound = [id \in Ids |-> NoKey] /\ proven = {}

Of(listing, id) == {e \in listing : e.id = id}
At(listing, id, a) == {e \in listing : e.id = id /\ e.addr = a}
Seen(listing) == {e.seen : e \in listing}

-----------------------------------------------------------------------------
(* reconcile_endpoints: one endpoint per address some source vouches for.  *)
(* Of equally good and recent sources any one may give its name.           *)
AsGood(x, y) ==
    \/ RankOf[x.source] < RankOf[y.source]
    \/ RankOf[x.source] = RankOf[y.source] /\ x.seen >= y.seen

Selected(claims) == CHOOSE x \in claims : \A y \in claims : AsGood(x, y)

BugRetryCountsAsReachable(claims, before) ==
    IF \E x \in claims : x.reach = "reachable" THEN "reachable"
    ELSE IF before = {} THEN "unknown"
    ELSE LET p == CHOOSE e \in before : TRUE
         IN IF p.reach = "unreachable" /\ Max(Seen(claims)) > p.seen
              THEN "reachable" ELSE p.reach

Reach(claims, before) ==
    IF \E x \in claims : x.reach = "reachable" THEN "reachable"
    ELSE IF before = {} THEN "unknown"
    ELSE LET p == CHOOSE e \in before : TRUE
         IN IF p.reach = "unreachable" /\ Max(Seen(claims)) > p.seen
              THEN "unknown" ELSE p.reach

Endpoint(all, view, id, a) ==
    LET claims == At(all, id, a)
    IN [id |-> id, addr |-> a, source |-> Selected(claims).source,
        seen |-> Max(Seen(claims)), reach |-> Reach(claims, At(view, id, a))]

Reconciled(all, view, id) ==
    {Endpoint(all, view, id, a) : a \in {o.addr : o \in Of(all, id)}}

(* The view after the peers in touched were reconciled against all.        *)
View(all, touched) ==
    {e \in endpoints : e.id \notin touched}
        \cup UNION {Reconciled(all, endpoints, id) : id \in touched}

-----------------------------------------------------------------------------
(* apply_observation: source s saw id, with metadata key, at addresses at, *)
(* at time t.                                                              *)
Current(id, s, t) ==
    \A o \in obs : o.id = id /\ o.source = s => o.seen <= t

MetadataAfter(was, key, t) ==
    IF t < was.seen THEN was
    ELSE [was EXCEPT !.seen = t, !.key = IF was.auth = NoKey THEN key ELSE @]

Report(s) == IF s \in Probed THEN "reachable" ELSE "unknown"

StillListed(pairs) == pairs \cap {<<e.id, e.addr>> : e \in endpoints'}

Observe(id, key, s, at, t) ==
    LET new  == [key |-> key, auth |-> NoKey, seen |-> clock]
        was  == IF id \in DOMAIN peers THEN peers[id] ELSE new
        said == {[id |-> id, addr |-> a, source |-> s, seen |-> t,
                  reach |-> Report(s)] : a \in at}
    IN /\ obs' = IF Current(id, s, t)
                   THEN {o \in obs : ~(o.id = id /\ o.source = s)} \cup said
                   ELSE obs
       /\ endpoints' = View(obs', {id})
       /\ peers' = [i \in DOMAIN peers \cup {id} |->
                      IF i = id THEN MetadataAfter(was, key, t) ELSE peers[i]]
       /\ proven' = StillListed(IF s \in Probed /\ Current(id, s, t)
                                   THEN proven \cup ({id} \X at) ELSE proven)
       /\ UNCHANGED <<clock, bound>>

(* record_route_success and record_route_failure change the view only.     *)
Marked(id, a, reach) ==
    {IF e.id = id /\ e.addr = a THEN [e EXCEPT !.reach = reach] ELSE e :
       e \in endpoints}

RouteSuccess(id, a) ==
    /\ At(endpoints, id, a) # {}
    /\ endpoints' = Marked(id, a, "reachable")
    /\ proven' = proven \cup {<<id, a>>}
    /\ UNCHANGED <<obs, peers, clock, bound>>

RouteFailure(id, a) ==
    /\ At(endpoints, id, a) # {}
    /\ endpoints' = Marked(id, a, "unreachable")
    /\ UNCHANGED <<obs, peers, clock, bound, proven>>

(* record_authenticated_identity, after a secure Hello.                    *)
Authenticate(id, key) ==
    /\ id \in DOMAIN peers
    /\ peers' = [peers EXCEPT ![id].key = key, ![id].auth = key]
    /\ bound' = [bound EXCEPT ![id] = key]
    /\ UNCHANGED <<obs, endpoints, clock, proven>>

-----------------------------------------------------------------------------
(* Observations go; the peers they leave without endpoint go with them.    *)
Retain(kept, touched) ==
    /\ obs' = kept
    /\ endpoints' = View(kept, touched)
    /\ peers' = Restrict(peers, {e.id : e \in endpoints'})
    /\ proven' = StillListed(proven)
    /\ UNCHANGED <<clock, bound>>

BugPeersAreNotRefreshed(kept) == {}

Losing(kept) == {o.id : o \in obs \ kept}

WithoutSource(s) == {o \in obs : o.source # s}

(* remove_endpoint_source, remove_discovery_source.                        *)
RemoveSource(s) == Retain(WithoutSource(s), Losing(WithoutSource(s)))

WithoutDiscovery(d) == {o \in obs : DiscoveryOf[o.source] # d}

RemoveDiscovery(d) == Retain(WithoutDiscovery(d), Losing(WithoutDiscovery(d)))

(* remove_stale_for_discovery reconciles every peer.                       *)
Fresh(d) == {o \in obs : DiscoveryOf[o.source] = d => clock - o.seen <= MaxAge}

Expire(d) == Retain(Fresh(d), DOMAIN peers)

Tick ==
    /\ clock < MaxClock /\ clock' = clock + 1
    /\ UNCHANGED <<obs, endpoints, peers, bound, proven>>

(* A report was timed before it is applied: now, or a step earlier.        *)
Times == {t \in {clock - 1, clock} : t >= 0}

Next ==
    \/ \E id \in Ids, key \in Keys, s \in Sources,
          at \in (SUBSET Addrs) \ {{}}, t \in Times : Observe(id, key, s, at, t)
    \/ \E id \in Ids, a \in Addrs : RouteSuccess(id, a) \/ RouteFailure(id, a)
    \/ \E id \in Ids, key \in Keys : Authenticate(id, key)
    \/ \E s \in Sources : RemoveSource(s)
    \/ \E d \in Range(DiscoveryOf) : RemoveDiscovery(d) \/ Expire(d)
    \/ Tick

Spec == Init /\ [][Next]_vars

-----------------------------------------------------------------------------
(* Every variable holds a value of its kind.                               *)
TypeOK ==
    /\ obs \subseteq Listings /\ endpoints \subseteq Listings
    /\ DOMAIN peers \subseteq Ids
    /\ \A id \in DOMAIN peers : peers[id] \in Metadata
    /\ clock \in 0..MaxClock
    /\ bound \in [Ids -> Keys \cup {NoKey}]
    /\ proven \subseteq Ids \X Addrs

(* The incremental view equals the observations: a device is listed, and   *)
(* an address is offered as its route, exactly while some source vouches.  *)
ListedIffVouched ==
    /\ {<<e.id, e.addr>> : e \in endpoints} = {<<o.id, o.addr>> : o \in obs}
    /\ DOMAIN peers = {e.id : e \in endpoints}

(* An address is one route of a device, and its source is among those that *)
(* vouch for it now, with no better class among them; it is as recent as   *)
(* the newest of them.                                                     *)
RouteIsBacked ==
    \A e \in endpoints :
        /\ At(endpoints, e.id, e.addr) = {e}
        /\ \E o \in At(obs, e.id, e.addr) : o.source = e.source
        /\ \E o \in At(obs, e.id, e.addr) : o.seen = e.seen
        /\ \A o \in At(obs, e.id, e.addr) :
             RankOf[e.source] <= RankOf[o.source] /\ o.seen <= e.seen

(* A route is called reachable only if a handshake with this device was    *)
(* completed there since the route was listed: no advertisement, expiry or *)
(* retry makes it so.                                                      *)
ReachableHasEvidence ==
    \A e \in endpoints : e.reach = "reachable" => <<e.id, e.addr>> \in proven

(* While a device stays listed, discovery cannot replace the key that a    *)
(* secure Hello bound.                                                     *)
BoundKeyStands ==
    \A id \in DOMAIN peers : peers[id].auth # NoKey => peers[id].key = bound[id]

(* Removing a source leaves what the other sources say, and every device   *)
(* they still vouch for.                                                   *)
RemovalIsScoped ==
    [][\A s \in Sources : RemoveSource(s) =>
         \A o \in obs : o.source # s => o \in obs' /\ o.id \in DOMAIN peers']_vars

(* Expiry of one discovery delists exactly the devices for which no other  *)
(* discovery speaks and of which it has not heard in time itself.          *)
ExpiryIsScoped ==
    [][\A d \in Range(DiscoveryOf) : Expire(d) => \A id \in Ids :
         id \in DOMAIN peers' <=>
           \E o \in Of(obs, id) : DiscoveryOf[o.source] # d \/ clock - o.seen <= MaxAge]_vars

(* Reconciling step by step shows what recomputing from all claims would.  *)
Directory == INSTANCE PeerDirectory WITH
    claims <- {<<o.id, o.source, o.addr>> : o \in obs},
    routes <- {<<e.id, e.addr>> : e \in endpoints},
    listed <- DOMAIN peers

(* The registry implements the directory: a report touches one source of   *)
(* one device, a removal adds nothing, and the lists always agree.         *)
ImplementsDirectory == Directory!Spec

(* A report that arrives after a newer one of its source changes neither   *)
(* what is known of the device nor how recent its routes are.  It makes    *)
(* the routes be reconciled, so that one marked unreachable since may be   *)
(* reachable again, where an observation still says so.                    *)
LateReportsAreIgnored ==
    [][\A id \in Ids, key \in Keys, s \in Sources, at \in (SUBSET Addrs) \ {{}}, t \in Times :
         Observe(id, key, s, at, t) /\ ~Current(id, s, t) =>
           /\ UNCHANGED <<obs, peers>>
           /\ \A e \in endpoints : \A n \in At(endpoints', e.id, e.addr) :
                /\ n.seen = e.seen
                /\ \/ n.reach = e.reach
                   \/ n.reach = "reachable"
                        /\ \E o \in At(obs, e.id, e.addr) : o.reach = "reachable"]_vars

(* An unreachable route is tried again after any newer observation of it.  *)
FreshReportAllowsRetry ==
    [][\A e \in endpoints : \A n \in At(endpoints', e.id, e.addr) :
         e.reach = "unreachable" /\ n.seen > e.seen => n.reach # "unreachable"]_vars
=============================================================================
