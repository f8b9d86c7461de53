-------------------------- MODULE DiscoveryProofs ---------------------------
(***************************************************************************)
(* Theorems about PeerRegistry and about Discovery, for any devices, keys, *)
(* addresses and sources.                                                  *)
(*                                                                         *)
(* First the registry under any order of calls.  Then its workers: they    *)
(* use the registry only through its calls, so that what was shown of it   *)
(* holds under them; and what they vouch for, and what the interface is    *)
(* told of it, is true.                                                    *)
(***************************************************************************)
EXTENDS Discovery, WellFoundedInduction, TLAPS

(* Every nonempty set of natural numbers has a least element.              *)
LEMMA LeastExists ==
    ASSUME NEW S, S \subseteq Nat, S # {}
    PROVE  \E x \in S : \A y \in S : x <= y
<1> DEFINE less == {p \in Nat \X Nat : p[1] < p[2]}
<1>1. IsWellFoundedOn(less, Nat)
  BY NatLessThanWellFounded DEF OpToRel
<1>2. \A x, y \in Nat : <<y, x>> \in less <=> y < x
  OBVIOUS
<1> HIDE DEF less
<1>3. PICK x \in S : \A y \in S : <<y, x>> \notin less
  <2>1. \E x \in S : \A y \in S : ~(<<y, x>> \in less)
    BY <1>1, WFMin
  <2> QED BY <2>1
<1>4. \A y \in S : ~(y < x) /\ x \in Nat /\ y \in Nat
  BY <1>2, <1>3
<1>5. \A y \in S : x <= y
  BY <1>4
<1> QED BY <1>5

(* The latest of some times on the clock exists, and Max finds it.         *)
LEMMA LatestExists ==
    ASSUME NEW S, S \subseteq 0..MaxClock, S # {}
    PROVE  Max(S) \in S /\ \A y \in S : Max(S) >= y
<1> DEFINE left == {MaxClock - y : y \in S}
<1>1. left \subseteq Nat /\ left # {}
  <2>1. \A y \in S : y \in 0..MaxClock /\ MaxClock \in Nat
    BY RegistryAssumption
  <2>2. \A y \in S : MaxClock - y \in Nat
    BY <2>1
  <2> QED BY <2>2
<1>2. PICK l \in left : \A m \in left : l <= m
  BY <1>1, LeastExists
<1>3. PICK x \in S : l = MaxClock - x
  BY <1>2
<1>4. \A y \in S : x >= y
  <2> SUFFICES ASSUME NEW y \in S PROVE x >= y
    OBVIOUS
  <2>1. MaxClock - x <= MaxClock - y
    BY <1>2, <1>3
  <2>2. x \in Nat /\ y \in Nat /\ MaxClock \in Nat
    BY RegistryAssumption
  <2> QED BY <2>1, <2>2
<1> QED BY <1>4 DEF Max

(* reconcile_endpoints always finds a source to name: the best class, and  *)
(* the latest report among those of that class.                            *)
LEMMA SelectedIsBest ==
    ASSUME NEW claims, claims \subseteq Listings, claims # {}
    PROVE  /\ Selected(claims) \in claims
           /\ \A y \in claims : AsGood(Selected(claims), y)
<1> DEFINE ranks == {RankOf[c.source] : c \in claims}
<1>1. \A c \in claims : c.source \in Sources /\ c.seen \in 0..MaxClock
                        /\ RankOf[c.source] \in Nat
  BY RegistryAssumption DEF Listings
<1>2. PICK r \in ranks : \A q \in ranks : r <= q
  <2>1. ranks \subseteq Nat /\ ranks # {}
    BY <1>1
  <2> HIDE DEF ranks
  <2> QED BY <2>1, LeastExists
<1> DEFINE best == {c \in claims : RankOf[c.source] = r}
<1>3. Seen(best) \subseteq 0..MaxClock /\ Seen(best) # {}
  BY <1>1, <1>2 DEF Seen
<1>4. PICK x \in best : \A y \in best : x.seen >= y.seen
  <2>1. Max(Seen(best)) \in Seen(best) /\ \A t \in Seen(best) : Max(Seen(best)) >= t
    BY <1>3, LatestExists
  <2> QED BY <2>1 DEF Seen
<1>5. \A y \in claims : AsGood(x, y)
  <2> SUFFICES ASSUME NEW y \in claims PROVE AsGood(x, y)
    OBVIOUS
  <2>1. r <= RankOf[y.source] /\ r \in Nat /\ RankOf[y.source] \in Nat
    BY <1>1, <1>2
  <2>2. RankOf[x.source] = r
    BY <1>4
  <2>3. CASE RankOf[y.source] = r
    BY <1>4, <2>2, <2>3 DEF AsGood
  <2>4. CASE RankOf[y.source] # r
    BY <2>1, <2>2, <2>4 DEF AsGood
  <2> QED BY <2>3, <2>4
<1>6. x \in claims
  BY <1>4
<1> QED BY <1>5, <1>6 DEF Selected

(* One reconciled endpoint: what vouches for it, and what its reachability *)
(* comes from.                                                             *)
LEMMA EndpointIsBacked ==
    ASSUME NEW heard, heard \subseteq Listings, NEW view, view \subseteq Listings,
           NEW id \in Ids, NEW a \in Addrs, At(heard, id, a) # {},
           NEW e, e = Endpoint(heard, view, id, a)
    PROVE  /\ e \in Listings /\ e.id = id /\ e.addr = a
           /\ \E o \in At(heard, id, a) : o.source = e.source
           /\ \E o \in At(heard, id, a) : o.seen = e.seen
           /\ \A o \in At(heard, id, a) :
                RankOf[e.source] <= RankOf[o.source] /\ o.seen <= e.seen
           /\ e.reach = "reachable" =>
                \E p \in At(heard, id, a) \cup At(view, id, a) : p.reach = "reachable"
           /\ e.reach = "unreachable" =>
                \E p \in At(view, id, a) : p.reach = "unreachable" /\ ~(e.seen > p.seen)
<1> DEFINE claims == At(heard, id, a)
           before == At(view, id, a)
           p == CHOOSE q \in before : TRUE
<1>1. claims \subseteq Listings /\ before \subseteq Listings
  BY DEF At
<1>2. Selected(claims) \in claims /\ \A y \in claims : AsGood(Selected(claims), y)
  BY <1>1, SelectedIsBest
<1>3. Max(Seen(claims)) \in Seen(claims) /\ \A t \in Seen(claims) : Max(Seen(claims)) >= t
  <2>1. Seen(claims) \subseteq 0..MaxClock /\ Seen(claims) # {}
    BY <1>1 DEF Seen, Listings
  <2> QED BY <2>1, LatestExists
<1>4. before # {} => p \in before
  OBVIOUS
<1>5. e = [id |-> id, addr |-> a, source |-> Selected(claims).source,
           seen |-> Max(Seen(claims)), reach |-> Reach(claims, before)]
  BY DEF Endpoint
<1> HIDE DEF claims, before, p
<1>6. /\ Reach(claims, before) \in Reaches
      /\ Reach(claims, before) = "reachable" =>
            \E q \in claims \cup before : q.reach = "reachable"
      /\ Reach(claims, before) = "unreachable" =>
            \E q \in before : q.reach = "unreachable" /\ ~(Max(Seen(claims)) > q.seen)
  <2>1. CASE \E x \in claims : x.reach = "reachable"
    BY <2>1 DEF Reach, Reaches
  <2>2. CASE before = {} /\ ~(\E x \in claims : x.reach = "reachable")
    BY <2>2 DEF Reach, Reaches
  <2>3. CASE before # {} /\ ~(\E x \in claims : x.reach = "reachable")
    <3>1. Reach(claims, before) =
            IF p.reach = "unreachable" /\ Max(Seen(claims)) > p.seen
              THEN "unknown" ELSE p.reach
      BY <2>3 DEF Reach, p
    <3>2. p \in before /\ p.reach \in Reaches
      BY <1>1, <1>4, <2>3 DEF Listings
    <3> QED BY <3>1, <3>2 DEF Reaches
  <2> QED BY <2>1, <2>2, <2>3
<1>7. e \in Listings
  <2>1. Selected(claims).source \in Sources
    BY <1>1, <1>2 DEF Listings
  <2>2. Max(Seen(claims)) \in 0..MaxClock
    BY <1>1, <1>3 DEF Seen, Listings
  <2> QED BY <1>5, <1>6, <2>1, <2>2 DEF Listings
<1>8. \A o \in claims : RankOf[e.source] <= RankOf[o.source] /\ o.seen <= e.seen
  <2> SUFFICES ASSUME NEW o \in claims
               PROVE  RankOf[e.source] <= RankOf[o.source] /\ o.seen <= e.seen
    OBVIOUS
  <2>1. AsGood(Selected(claims), o) /\ e.source = Selected(claims).source
    BY <1>2, <1>5
  <2>2. RankOf[o.source] \in Nat /\ RankOf[e.source] \in Nat
    BY <1>1, <1>7, RegistryAssumption DEF Listings
  <2>3. o.seen \in Seen(claims) /\ e.seen = Max(Seen(claims))
    BY <1>5 DEF Seen
  <2>4. o.seen \in 0..MaxClock /\ e.seen \in 0..MaxClock
    BY <1>1, <1>7 DEF Listings
  <2> QED BY <1>3, <2>1, <2>2, <2>3, <2>4 DEF AsGood
<1>9. \E o \in claims : o.seen = e.seen
  BY <1>3, <1>5 DEF Seen
<1> QED BY <1>2, <1>5, <1>6, <1>7, <1>8, <1>9 DEF claims, before

-----------------------------------------------------------------------------
(* What a mutation of the observations must look like for the view to stay *)
(* right when only the peers in touched are reconciled.                    *)
Touches(heard, touched) ==
    /\ heard \subseteq Listings /\ touched \subseteq Ids
    /\ \A o \in Listings : o.id \notin touched => (o \in heard <=> o \in obs)

Places(listing) == {<<e.id, e.addr>> : e \in listing}

(* Every endpoint of the new view: kept as it was, or reconciled.          *)
LEMMA ViewMembers ==
    ASSUME TypeOK, NEW heard, NEW touched, Touches(heard, touched)
    PROVE  /\ \A e \in View(heard, touched) :
                 \/ e \in endpoints /\ e.id \notin touched
                 \/ \E id \in touched, a \in Addrs :
                       At(heard, id, a) # {} /\ e = Endpoint(heard, endpoints, id, a)
           /\ \A id \in touched, a \in Addrs : At(heard, id, a) # {} =>
                 Endpoint(heard, endpoints, id, a) \in View(heard, touched)
           /\ \A e \in endpoints : e.id \notin touched => e \in View(heard, touched)
<1>1. ASSUME NEW id \in touched, NEW e
      PROVE  e \in Reconciled(heard, endpoints, id) <=>
                \E a \in Addrs : At(heard, id, a) # {} /\ e = Endpoint(heard, endpoints, id, a)
  <2>1. \A a : a \in {o.addr : o \in Of(heard, id)} <=> a \in Addrs /\ At(heard, id, a) # {}
    BY DEF Touches, Of, At, Listings
  <2> QED BY <2>1 DEF Reconciled
<1>2. \A e : e \in View(heard, touched) <=>
        \/ e \in endpoints /\ e.id \notin touched
        \/ \E id \in touched : e \in Reconciled(heard, endpoints, id)
  BY DEF View
<1> QED BY <1>1, <1>2

(* Some source vouches for an address exactly while it is listed.          *)
LEMMA VouchedAt ==
    ASSUME ListedIffVouched, NEW id, NEW a
    PROVE  At(endpoints, id, a) # {} <=> At(obs, id, a) # {}
<1>1. Places(endpoints) = Places(obs)
  BY DEF ListedIffVouched, Places
<1>2. \A l : At(l, id, a) # {} <=> <<id, a>> \in Places(l)
  BY DEF At, Places
<1> QED BY <1>1, <1>2

(* Reconciling only the touched peers leaves a view that is right for all. *)
LEMMA Reconciling ==
    ASSUME TypeOK, ListedIffVouched, RouteIsBacked,
           NEW heard, NEW touched, Touches(heard, touched),
           obs' = heard, endpoints' = View(heard, touched)
    PROVE  /\ endpoints' \subseteq Listings
           /\ Places(endpoints') = Places(heard)
           /\ RouteIsBacked'
           /\ \A n \in endpoints' :
                /\ n.reach = "reachable" => \E q \in heard \cup endpoints :
                     q.id = n.id /\ q.addr = n.addr /\ q.reach = "reachable"
                /\ n.reach = "unreachable" => \E q \in At(endpoints, n.id, n.addr) :
                     q.reach = "unreachable" /\ ~(n.seen > q.seen)
<1>0. /\ \A e \in View(heard, touched) :
            \/ e \in endpoints /\ e.id \notin touched
            \/ \E id \in touched, a \in Addrs :
                  At(heard, id, a) # {} /\ e = Endpoint(heard, endpoints, id, a)
      /\ \A id \in touched, a \in Addrs : At(heard, id, a) # {} =>
            Endpoint(heard, endpoints, id, a) \in View(heard, touched)
      /\ \A e \in endpoints : e.id \notin touched => e \in View(heard, touched)
  BY ViewMembers
<1>1. heard \subseteq Listings /\ endpoints \subseteq Listings /\ touched \subseteq Ids
  BY DEF TypeOK, Touches
<1>2. ASSUME NEW id \in touched, NEW a \in Addrs, At(heard, id, a) # {},
             NEW e, e = Endpoint(heard, endpoints, id, a)
      PROVE  /\ e \in Listings /\ e.id = id /\ e.addr = a
             /\ \E o \in At(heard, id, a) : o.source = e.source
             /\ \E o \in At(heard, id, a) : o.seen = e.seen
             /\ \A o \in At(heard, id, a) :
                  RankOf[e.source] <= RankOf[o.source] /\ o.seen <= e.seen
             /\ e.reach = "reachable" =>
                  \E q \in At(heard, id, a) \cup At(endpoints, id, a) : q.reach = "reachable"
             /\ e.reach = "unreachable" =>
                  \E q \in At(endpoints, id, a) : q.reach = "unreachable" /\ ~(e.seen > q.seen)
  BY <1>1, <1>2, EndpointIsBacked
<1>3. endpoints' \subseteq Listings
  BY <1>0, <1>1, <1>2
<1>4. ASSUME NEW id \in Ids \ touched, NEW a
      PROVE  At(endpoints', id, a) = At(endpoints, id, a) /\ At(heard, id, a) = At(obs, id, a)
  <2>1. At(endpoints', id, a) = At(endpoints, id, a)
    BY <1>0, <1>2 DEF At
  <2>2. At(heard, id, a) = At(obs, id, a)
    BY <1>1 DEF At, Touches, TypeOK
  <2> QED BY <2>1, <2>2
<1>5. ASSUME NEW id \in touched, NEW a \in Addrs
      PROVE  /\ At(heard, id, a) = {} => At(endpoints', id, a) = {}
             /\ At(heard, id, a) # {} =>
                  At(endpoints', id, a) = {Endpoint(heard, endpoints, id, a)}
  <2>1. \A e \in At(endpoints', id, a) :
          At(heard, id, a) # {} /\ e = Endpoint(heard, endpoints, id, a)
    BY <1>0, <1>2 DEF At
  <2>2. At(heard, id, a) # {} =>
          Endpoint(heard, endpoints, id, a) \in At(endpoints', id, a)
    BY <1>0, <1>2 DEF At
  <2> QED BY <2>1, <2>2
<1>6. Places(endpoints') = Places(heard)
  <2>1. ASSUME NEW id \in Ids, NEW a \in Addrs
        PROVE  At(endpoints', id, a) # {} <=> At(heard, id, a) # {}
    <3>1. CASE id \in touched
      <4>1. CASE At(heard, id, a) = {}
        BY <1>5, <3>1, <4>1
      <4>2. CASE At(heard, id, a) # {}
        <5>1. At(endpoints', id, a) = {Endpoint(heard, endpoints, id, a)}
          BY <1>5, <3>1, <4>2
        <5> QED BY <4>2, <5>1
      <4> QED BY <4>1, <4>2
    <3>2. CASE id \notin touched
      <4>1. At(endpoints, id, a) # {} <=> At(obs, id, a) # {}
        BY VouchedAt
      <4> QED BY <1>4, <3>2, <4>1
    <3> QED BY <3>1, <3>2
  <2>2. \A id, a : <<id, a>> \in Places(endpoints') <=>
                     id \in Ids /\ a \in Addrs /\ At(endpoints', id, a) # {}
    BY <1>3 DEF Places, At, Listings
  <2>3. \A id, a : <<id, a>> \in Places(heard) <=>
                     id \in Ids /\ a \in Addrs /\ At(heard, id, a) # {}
    BY <1>1 DEF Places, At, Listings
  <2>4. \A id, a : <<id, a>> \in Places(endpoints') <=> <<id, a>> \in Places(heard)
    BY <2>1, <2>2, <2>3
  <2>5. \A x \in Places(endpoints') : \E id, a : x = <<id, a>>
    BY DEF Places
  <2>6. \A x \in Places(heard) : \E id, a : x = <<id, a>>
    BY DEF Places
  <2> QED BY <2>4, <2>5, <2>6
<1>7. RouteIsBacked'
  <2> SUFFICES ASSUME NEW e \in endpoints'
               PROVE  /\ At(endpoints', e.id, e.addr) = {e}
                      /\ \E o \in At(heard, e.id, e.addr) : o.source = e.source
                      /\ \E o \in At(heard, e.id, e.addr) : o.seen = e.seen
                      /\ \A o \in At(heard, e.id, e.addr) :
                           RankOf[e.source] <= RankOf[o.source] /\ o.seen <= e.seen
    BY DEF RouteIsBacked, At
  <2>1. CASE e.id \in touched
    <3>1. PICK a \in Addrs : At(heard, e.id, a) # {} /\ e = Endpoint(heard, endpoints, e.id, a)
      BY <1>0, <1>2, <2>1
    <3>2. e.addr = a
      BY <1>2, <2>1, <3>1
    <3> QED BY <1>2, <1>5, <2>1, <3>1, <3>2
  <2>2. CASE e.id \notin touched
    <3>1. e \in endpoints /\ e.id \in Ids
      BY <1>0, <1>1, <1>2, <2>2 DEF Listings
    <3>2. /\ At(endpoints, e.id, e.addr) = {e}
          /\ \E o \in At(obs, e.id, e.addr) : o.source = e.source
          /\ \E o \in At(obs, e.id, e.addr) : o.seen = e.seen
          /\ \A o \in At(obs, e.id, e.addr) :
               RankOf[e.source] <= RankOf[o.source] /\ o.seen <= e.seen
      BY <3>1 DEF RouteIsBacked
    <3> QED BY <1>4, <2>2, <3>1, <3>2
  <2> QED BY <2>1, <2>2
<1>8. ASSUME NEW n \in endpoints'
      PROVE  /\ n.reach = "reachable" => \E q \in heard \cup endpoints :
                   q.id = n.id /\ q.addr = n.addr /\ q.reach = "reachable"
             /\ n.reach = "unreachable" => \E q \in At(endpoints, n.id, n.addr) :
                   q.reach = "unreachable" /\ ~(n.seen > q.seen)
  <2>1. CASE n \in endpoints
    <3>1. n.seen \in Nat /\ n \in At(endpoints, n.id, n.addr)
      BY <1>1, <2>1, RegistryAssumption DEF Listings, At
    <3>2. ~(n.seen > n.seen)
      BY <3>1
    <3> QED BY <2>1, <3>1, <3>2
  <2>2. ASSUME NEW id \in touched, NEW a \in Addrs,
               At(heard, id, a) # {}, n = Endpoint(heard, endpoints, id, a)
        PROVE  /\ n.reach = "reachable" => \E q \in heard \cup endpoints :
                     q.id = n.id /\ q.addr = n.addr /\ q.reach = "reachable"
               /\ n.reach = "unreachable" => \E q \in At(endpoints, n.id, n.addr) :
                     q.reach = "unreachable" /\ ~(n.seen > q.seen)
    BY <1>2, <2>2 DEF At
  <2> QED BY <1>0, <2>1, <2>2
<1> QED BY <1>3, <1>6, <1>7, <1>8

-----------------------------------------------------------------------------
(* What else an observation carries: a reachable one was proven when it    *)
(* was made, and one source dates all it says of a device alike.           *)
ProvenWhenSaid ==
    \A o \in obs : o.reach = "reachable" => <<o.id, o.addr>> \in proven

DatedAlike ==
    \A o, n \in obs : o.id = n.id /\ o.source = n.source => o.seen = n.seen

IInv ==
    /\ TypeOK /\ ListedIffVouched /\ RouteIsBacked /\ BoundKeyStands
    /\ ReachableHasEvidence /\ ProvenWhenSaid /\ DatedAlike

(* What an action property says of one step.                               *)
RetryAllowed ==
    \A e \in endpoints : \A n \in At(endpoints', e.id, e.addr) :
        e.reach = "unreachable" /\ n.seen > e.seen => n.reach # "unreachable"

(* Init establishes the invariant.                                         *)
LEMMA InitHolds == Init => IInv
<1> SUFFICES ASSUME Init PROVE IInv
  OBVIOUS
<1> USE DEF Init
<1>1. TypeOK
  <2>1. 0 \in 0..MaxClock
    BY RegistryAssumption
  <2> QED BY <2>1 DEF TypeOK
<1>2. ListedIffVouched /\ RouteIsBacked /\ BoundKeyStands
  BY DEF ListedIffVouched, RouteIsBacked, BoundKeyStands
<1>3. ReachableHasEvidence /\ ProvenWhenSaid /\ DatedAlike
  BY DEF ReachableHasEvidence, ProvenWhenSaid, DatedAlike
<1> QED BY <1>1, <1>2, <1>3 DEF IInv

(* The listed devices are those with a listed place.                       *)
LEMMA IdsOfPlaces ==
    ASSUME NEW l, NEW k, Places(l) = Places(k)
    PROVE  {e.id : e \in l} = {o.id : o \in k}
<1>1. \A i : i \in {e.id : e \in l} <=> \E a : <<i, a>> \in Places(l)
  BY DEF Places
<1>2. \A i : i \in {e.id : e \in k} <=> \E a : <<i, a>> \in Places(k)
  BY DEF Places
<1> QED BY <1>1, <1>2

(* What every reconciling step shares: the observations become all, and    *)
(* the pairs proven so far, with those of pairs, stay while listed.        *)
LEMMA ReconcilingKeeps ==
    ASSUME IInv, NEW heard, NEW touched, Touches(heard, touched),
           obs' = heard, endpoints' = View(heard, touched),
           NEW pairs, pairs \subseteq Ids \X Addrs, proven \subseteq pairs,
           proven' = StillListed(pairs),
           \A o \in heard : o.reach = "reachable" => <<o.id, o.addr>> \in pairs
    PROVE  /\ endpoints' \subseteq Listings /\ obs' \subseteq Listings
           /\ proven' \subseteq Ids \X Addrs
           /\ Places(endpoints') = Places(obs')
           /\ {e.id : e \in endpoints'} = {o.id : o \in obs'}
           /\ RouteIsBacked' /\ ReachableHasEvidence' /\ ProvenWhenSaid'
           /\ RetryAllowed
<1>1. /\ endpoints' \subseteq Listings
      /\ Places(endpoints') = Places(heard)
      /\ RouteIsBacked'
      /\ \A n \in endpoints' :
           /\ n.reach = "reachable" => \E q \in heard \cup endpoints :
                q.id = n.id /\ q.addr = n.addr /\ q.reach = "reachable"
           /\ n.reach = "unreachable" => \E q \in At(endpoints, n.id, n.addr) :
                q.reach = "unreachable" /\ ~(n.seen > q.seen)
  BY Reconciling DEF IInv
<1>2. proven' = pairs \cap Places(endpoints')
  BY DEF StillListed, Places
<1>3. ReachableHasEvidence'
  <2> SUFFICES ASSUME NEW n \in endpoints', n.reach = "reachable"
               PROVE  <<n.id, n.addr>> \in proven'
    BY DEF ReachableHasEvidence
  <2>1. PICK q \in heard \cup endpoints :
            q.id = n.id /\ q.addr = n.addr /\ q.reach = "reachable"
    BY <1>1
  <2>2. <<q.id, q.addr>> \in pairs
    BY <2>1 DEF IInv, ReachableHasEvidence
  <2> QED BY <1>2, <2>1, <2>2 DEF Places
<1>4. ProvenWhenSaid'
  <2> SUFFICES ASSUME NEW o \in heard, o.reach = "reachable"
               PROVE  <<o.id, o.addr>> \in proven'
    BY DEF ProvenWhenSaid
  <2>1. <<o.id, o.addr>> \in Places(endpoints')
    BY <1>1 DEF Places
  <2> QED BY <1>2, <2>1
<1>5. RetryAllowed
  <2> SUFFICES ASSUME NEW e \in endpoints, NEW n \in At(endpoints', e.id, e.addr),
                      n.seen > e.seen, n.reach = "unreachable"
               PROVE  FALSE
    BY DEF RetryAllowed
  <2>1. n \in endpoints' /\ n.id = e.id /\ n.addr = e.addr
    BY DEF At
  <2>2. At(endpoints, e.id, e.addr) = {e}
    BY DEF IInv, RouteIsBacked
  <2> QED BY <1>1, <2>1, <2>2
<1>6. {e.id : e \in endpoints'} = {o.id : o \in heard}
  BY <1>1, IdsOfPlaces
<1> QED BY <1>1, <1>2, <1>3, <1>4, <1>5, <1>6 DEF Touches

(* Types and bindings of the metadata, when one report was applied.        *)
LEMMA MetadataKeeps ==
    ASSUME NEW was \in Metadata, NEW key \in Keys, NEW t \in 0..MaxClock
    PROVE  /\ MetadataAfter(was, key, t) \in Metadata
           /\ MetadataAfter(was, key, t).auth = was.auth
           /\ was.auth # NoKey => MetadataAfter(was, key, t).key = was.key
<1>1. CASE t < was.seen
  BY <1>1 DEF MetadataAfter
<1>2. CASE ~(t < was.seen) /\ was.auth = NoKey
  BY <1>2 DEF MetadataAfter, Metadata
<1>3. CASE ~(t < was.seen) /\ was.auth # NoKey
  BY <1>3 DEF MetadataAfter, Metadata
<1> QED BY <1>1, <1>2, <1>3

(* A report, current or late, keeps the invariant.                         *)
LEMMA ObserveKeeps ==
    ASSUME IInv, NEW id \in Ids, NEW key \in Keys, NEW s \in Sources,
           NEW at \in (SUBSET Addrs) \ {{}}, NEW t \in Times,
           Observe(id, key, s, at, t)
    PROVE  IInv' /\ RetryAllowed
<1> DEFINE said == {[id |-> id, addr |-> a, source |-> s, seen |-> t,
                     reach |-> Report(s)] : a \in at}
           kept == {o \in obs : ~(o.id = id /\ o.source = s)}
           pairs == IF s \in Probed /\ Current(id, s, t)
                      THEN proven \cup ({id} \X at) ELSE proven
           new == [key |-> key, auth |-> NoKey, seen |-> clock]
           was == IF id \in DOMAIN peers THEN peers[id] ELSE new
<1>1. /\ obs' = IF Current(id, s, t) THEN kept \cup said ELSE obs
      /\ endpoints' = View(obs', {id})
      /\ peers' = [i \in DOMAIN peers \cup {id} |->
                     IF i = id THEN MetadataAfter(was, key, t) ELSE peers[i]]
      /\ proven' = StillListed(pairs)
      /\ clock' = clock /\ bound' = bound
  BY DEF Observe
<1>2. t \in 0..MaxClock /\ clock \in 0..MaxClock
  BY RegistryAssumption DEF Times, IInv, TypeOK
<1>3. said \subseteq Listings
  BY <1>2 DEF Listings, Report, Reaches
<1>4. /\ \A o \in said : o.id = id /\ o.source = s /\ o.seen = t /\ o.addr \in at
      /\ \A o \in said : o.reach = "reachable" => s \in Probed
      /\ said # {}
  <2>1. \A o \in said : o.id = id /\ o.source = s /\ o.seen = t /\ o.addr \in at
                        /\ o.reach = Report(s)
    OBVIOUS
  <2>2. PICK a \in at : TRUE
    OBVIOUS
  <2>3. [id |-> id, addr |-> a, source |-> s, seen |-> t, reach |-> Report(s)] \in said
    BY <2>2
  <2>4. Report(s) = "reachable" => s \in Probed
    BY DEF Report
  <2> HIDE DEF said
  <2> QED BY <2>1, <2>3, <2>4
<1>5. was \in Metadata
  BY <1>2 DEF IInv, TypeOK, Metadata
<1> HIDE DEF said, was
<1>6. Touches(obs', {id})
  BY <1>1, <1>3, <1>4 DEF Touches, IInv, TypeOK
<1>7. /\ pairs \subseteq Ids \X Addrs /\ proven \subseteq pairs
      /\ \A o \in obs' : o.reach = "reachable" => <<o.id, o.addr>> \in pairs
  <2>1. pairs \subseteq Ids \X Addrs /\ proven \subseteq pairs
    BY DEF IInv, TypeOK
  <2>2. ASSUME NEW o \in obs', o.reach = "reachable"
        PROVE  <<o.id, o.addr>> \in pairs
    <3>1. CASE o \in obs
      BY <2>1, <2>2, <3>1 DEF IInv, ProvenWhenSaid
    <3>2. CASE o \notin obs
      <4>1. Current(id, s, t) /\ o \in said
        BY <1>1, <3>2
      <4> QED BY <1>4, <2>2, <4>1
    <3> QED BY <3>1, <3>2
  <2> QED BY <2>1, <2>2
<1> HIDE DEF pairs
<1>8. /\ endpoints' \subseteq Listings /\ obs' \subseteq Listings
      /\ proven' \subseteq Ids \X Addrs
      /\ Places(endpoints') = Places(obs')
      /\ {e.id : e \in endpoints'} = {o.id : o \in obs'}
      /\ RouteIsBacked' /\ ReachableHasEvidence' /\ ProvenWhenSaid'
      /\ RetryAllowed
  BY <1>1, <1>6, <1>7, ReconcilingKeeps
<1>10. DatedAlike'
  <2> SUFFICES ASSUME NEW o \in obs', NEW n \in obs', o.id = n.id, o.source = n.source
               PROVE  o.seen = n.seen
    BY DEF DatedAlike
  <2>1. CASE ~Current(id, s, t)
    BY <1>1, <2>1 DEF IInv, DatedAlike
  <2>2. CASE Current(id, s, t) /\ o.id = id /\ o.source = s
    <3>1. o \in said /\ n \in said
      BY <1>1, <2>2
    <3> QED BY <1>4, <3>1
  <2>3. CASE Current(id, s, t) /\ ~(o.id = id /\ o.source = s)
    BY <1>1, <1>4, <2>3 DEF IInv, DatedAlike
  <2> QED BY <2>1, <2>2, <2>3
<1>11. DOMAIN peers' = {e.id : e \in endpoints'}
  <2>1. DOMAIN peers = {o.id : o \in obs}
    <3>1. {e.id : e \in endpoints} = {o.id : o \in obs}
      BY IdsOfPlaces DEF IInv, ListedIffVouched, Places
    <3> QED BY <3>1 DEF IInv, ListedIffVouched
  <2>2. \A i : i \in {o.id : o \in obs'} <=> i \in {o.id : o \in obs} \cup {id}
    <3>1. CASE Current(id, s, t)
      BY <1>1, <1>4, <3>1
    <3>2. CASE ~Current(id, s, t)
      BY <1>1, <3>2 DEF Current
    <3> QED BY <3>1, <3>2
  <2>3. DOMAIN peers' = DOMAIN peers \cup {id}
    BY <1>1
  <2> QED BY <1>8, <2>1, <2>2, <2>3
<1>12. \A i \in DOMAIN peers' : /\ peers'[i] \in Metadata
                                /\ peers'[i].auth # NoKey => peers'[i].key = bound'[i]
  <2> SUFFICES ASSUME NEW i \in DOMAIN peers'
               PROVE  /\ peers'[i] \in Metadata
                      /\ peers'[i].auth # NoKey => peers'[i].key = bound'[i]
    OBVIOUS
  <2>1. CASE i # id
    BY <1>1, <2>1 DEF IInv, TypeOK, BoundKeyStands
  <2>2. CASE i = id
    <3>1. peers'[id] = MetadataAfter(was, key, t)
      BY <1>1, <2>2
    <3>2. was.auth # NoKey => was.key = bound[id]
      BY DEF was, IInv, BoundKeyStands
    <3> QED BY <1>1, <1>2, <1>5, <2>2, <3>1, <3>2, MetadataKeeps
  <2> QED BY <2>1, <2>2
<1>13. TypeOK'
  BY <1>1, <1>8, <1>12 DEF IInv, TypeOK
<1>14. ListedIffVouched' /\ BoundKeyStands'
  BY <1>8, <1>11, <1>12 DEF ListedIffVouched, BoundKeyStands, Places
<1> QED BY <1>8, <1>10, <1>13, <1>14 DEF IInv

(* Forgetting observations, with all the peers that lose one reconciled,   *)
(* keeps the invariant.                                                    *)
LEMMA RetainKeeps ==
    ASSUME IInv, NEW kept \in SUBSET obs, NEW touched \in SUBSET Ids,
           Losing(kept) \subseteq touched, Retain(kept, touched)
    PROVE  IInv' /\ RetryAllowed
<1>1. /\ obs' = kept /\ endpoints' = View(kept, touched)
      /\ peers' = [i \in {e.id : e \in endpoints'} |-> peers[i]]
      /\ proven' = StillListed(proven)
      /\ clock' = clock /\ bound' = bound
  BY DEF Retain, Restrict
<1>2. Touches(kept, touched)
  BY DEF Touches, Losing, IInv, TypeOK
<1>3. \A o \in kept : o.reach = "reachable" => <<o.id, o.addr>> \in proven
  BY DEF IInv, ProvenWhenSaid
<1>4. proven \subseteq Ids \X Addrs
  BY DEF IInv, TypeOK
<1>5. /\ endpoints' \subseteq Listings /\ obs' \subseteq Listings
      /\ proven' \subseteq Ids \X Addrs
      /\ Places(endpoints') = Places(obs')
      /\ {e.id : e \in endpoints'} = {o.id : o \in obs'}
      /\ RouteIsBacked' /\ ReachableHasEvidence' /\ ProvenWhenSaid'
      /\ RetryAllowed
  BY <1>1, <1>2, <1>3, <1>4, ReconcilingKeeps
<1>6. DOMAIN peers' = {o.id : o \in kept} /\ DOMAIN peers' \subseteq DOMAIN peers
  <2>1. DOMAIN peers' = {e.id : e \in endpoints'}
    BY <1>1
  <2>2. {e.id : e \in endpoints} = {o.id : o \in obs}
    BY IdsOfPlaces DEF IInv, ListedIffVouched, Places
  <2>3. DOMAIN peers = {o.id : o \in obs}
    BY <2>2 DEF IInv, ListedIffVouched
  <2> QED BY <1>1, <1>5, <2>1, <2>3
<1>7. \A i \in DOMAIN peers' : peers'[i] = peers[i]
  BY <1>1
<1>8. TypeOK'
  BY <1>1, <1>5, <1>6, <1>7 DEF IInv, TypeOK
<1>9. ListedIffVouched' /\ BoundKeyStands'
  BY <1>1, <1>5, <1>6, <1>7 DEF IInv, ListedIffVouched, BoundKeyStands, Places
<1>10. DatedAlike'
  BY <1>1 DEF IInv, DatedAlike
<1> QED BY <1>5, <1>8, <1>9, <1>10 DEF IInv

(* Marking a route by the end of an attempt keeps the invariant.           *)
LEMMA MarkingKeeps ==
    ASSUME IInv, NEW id \in Ids, NEW a \in Addrs, NEW reach \in Reaches,
           endpoints' = Marked(id, a, reach), At(endpoints, id, a) # {},
           proven' = IF reach = "reachable" THEN proven \cup {<<id, a>>} ELSE proven,
           UNCHANGED <<obs, peers, clock, bound>>
    PROVE  IInv' /\ RetryAllowed
<1> DEFINE mark(e) == IF e.id = id /\ e.addr = a THEN [e EXCEPT !.reach = reach] ELSE e
<1>1. endpoints' = {mark(e) : e \in endpoints}
  BY DEF Marked
<1>2. \A e \in endpoints :
        /\ mark(e) \in Listings
        /\ mark(e).id = e.id /\ mark(e).addr = e.addr
        /\ mark(e).source = e.source /\ mark(e).seen = e.seen
        /\ mark(e).reach = IF e.id = id /\ e.addr = a THEN reach ELSE e.reach
  BY DEF IInv, TypeOK, Listings
<1> HIDE DEF mark
<1>3. \A i, b : At(endpoints', i, b) = {mark(e) : e \in At(endpoints, i, b)}
  BY <1>1, <1>2 DEF At
<1>4. Places(endpoints') = Places(endpoints)
  BY <1>1, <1>2 DEF Places
<1>5. TypeOK'
  BY <1>1, <1>2 DEF IInv, TypeOK
<1>6. ListedIffVouched'
  <2>1. {e.id : e \in endpoints'} = {e.id : e \in endpoints}
    BY <1>4, IdsOfPlaces
  <2> QED BY <1>4, <2>1 DEF IInv, ListedIffVouched, Places
<1>7. RouteIsBacked'
  <2> SUFFICES ASSUME NEW n \in endpoints'
               PROVE  /\ At(endpoints', n.id, n.addr) = {n}
                      /\ \E o \in At(obs, n.id, n.addr) : o.source = n.source
                      /\ \E o \in At(obs, n.id, n.addr) : o.seen = n.seen
                      /\ \A o \in At(obs, n.id, n.addr) :
                           RankOf[n.source] <= RankOf[o.source] /\ o.seen <= n.seen
    BY DEF RouteIsBacked, At
  <2>1. PICK e \in endpoints : n = mark(e)
    BY <1>1
  <2> QED BY <1>2, <1>3, <2>1 DEF IInv, RouteIsBacked
<1>8. ReachableHasEvidence' /\ ProvenWhenSaid'
  BY <1>1, <1>2 DEF IInv, ReachableHasEvidence, ProvenWhenSaid
<1>9. BoundKeyStands' /\ DatedAlike'
  BY DEF IInv, BoundKeyStands, DatedAlike
<1>11. RetryAllowed
  <2> SUFFICES ASSUME NEW e \in endpoints, NEW n \in At(endpoints', e.id, e.addr),
                      n.seen > e.seen
               PROVE  FALSE
    BY DEF RetryAllowed
  <2>1. n = mark(e)
    BY <1>3 DEF IInv, RouteIsBacked
  <2>2. e.seen \in Nat
    BY RegistryAssumption DEF IInv, TypeOK, Listings
  <2> QED BY <1>2, <2>1, <2>2
<1> QED BY <1>5, <1>6, <1>7, <1>8, <1>9, <1>11 DEF IInv

(* Every step keeps the invariant and what the action properties say.      *)
LEMMA StepKeeps ==
    ASSUME IInv, [Next]_vars
    PROVE  IInv' /\ RetryAllowed
<1>1. ASSUME NEW id \in Ids, NEW key \in Keys, NEW s \in Sources,
             NEW at \in (SUBSET Addrs) \ {{}}, NEW t \in Times,
             Observe(id, key, s, at, t)
      PROVE  IInv' /\ RetryAllowed
  BY <1>1, ObserveKeeps
<1>2. ASSUME NEW id \in Ids, NEW a \in Addrs, RouteSuccess(id, a)
      PROVE  IInv' /\ RetryAllowed
  BY <1>2, MarkingKeeps DEF RouteSuccess, Reaches
<1>3. ASSUME NEW id \in Ids, NEW a \in Addrs, RouteFailure(id, a)
      PROVE  IInv' /\ RetryAllowed
  BY <1>3, MarkingKeeps DEF RouteFailure, Reaches
<1>4. ASSUME UNCHANGED <<obs, endpoints, clock, proven>>, TypeOK', BoundKeyStands',
             DOMAIN peers' = DOMAIN peers
      PROVE  IInv' /\ RetryAllowed
  <2>1. \A o \in obs \cup endpoints : o.seen \in Nat
    BY RegistryAssumption DEF IInv, TypeOK, Listings
  <2>3. RetryAllowed
    BY <1>4, <2>1 DEF RetryAllowed, IInv, RouteIsBacked
  <2>4. ListedIffVouched' /\ RouteIsBacked' /\ ReachableHasEvidence'
    BY <1>4 DEF IInv, ListedIffVouched, RouteIsBacked, ReachableHasEvidence, At
  <2>5. ProvenWhenSaid' /\ DatedAlike'
    BY <1>4 DEF IInv, ProvenWhenSaid, DatedAlike
  <2> QED BY <1>4, <2>3, <2>4, <2>5 DEF IInv
<1>5. ASSUME NEW id \in Ids, NEW key \in Keys, Authenticate(id, key)
      PROVE  IInv' /\ RetryAllowed
  <2>1. /\ id \in DOMAIN peers /\ DOMAIN peers' = DOMAIN peers
        /\ \A i \in DOMAIN peers : i # id => peers'[i] = peers[i] /\ bound'[i] = bound[i]
        /\ peers'[id] = [peers[id] EXCEPT !.key = key, !.auth = key]
        /\ bound' \in [Ids -> Keys \cup {NoKey}] /\ bound'[id] = key
    BY <1>5 DEF Authenticate, IInv, TypeOK
  <2>2. peers'[id] \in Metadata /\ peers'[id].key = key /\ peers'[id].auth = key
    BY <2>1 DEF Metadata, IInv, TypeOK
  <2>3. TypeOK'
    BY <1>5, <2>1, <2>2 DEF Authenticate, IInv, TypeOK
  <2>4. BoundKeyStands'
    BY <2>1, <2>2 DEF IInv, BoundKeyStands
  <2> QED BY <1>4, <1>5, <2>1, <2>3, <2>4 DEF Authenticate
<1>6. CASE Tick \/ UNCHANGED vars
  <2>1. clock' \in 0..MaxClock
    BY <1>6, RegistryAssumption DEF Tick, vars, IInv, TypeOK
  <2>2. TypeOK' /\ BoundKeyStands'
    BY <1>6, <2>1 DEF Tick, vars, IInv, TypeOK, BoundKeyStands
  <2>3. UNCHANGED <<obs, endpoints, peers, bound, proven>>
    BY <1>6 DEF Tick, vars
  <2>4. RetryAllowed
    <3>1. \A o \in obs \cup endpoints : o.seen \in Nat
      BY RegistryAssumption DEF IInv, TypeOK, Listings
    <3> QED BY <2>3, <3>1 DEF RetryAllowed, IInv, RouteIsBacked
  <2>5. ListedIffVouched' /\ RouteIsBacked' /\ ReachableHasEvidence'
    BY <2>3 DEF IInv, ListedIffVouched, RouteIsBacked, ReachableHasEvidence, At
  <2>6. ProvenWhenSaid' /\ DatedAlike'
    BY <2>3 DEF IInv, ProvenWhenSaid, DatedAlike
  <2> QED BY <2>2, <2>4, <2>5, <2>6 DEF IInv
<1>7. ASSUME NEW kept \in SUBSET obs, Retain(kept, Losing(kept))
      PROVE  IInv' /\ RetryAllowed
  <2>1. Losing(kept) \subseteq Ids
    BY DEF Losing, IInv, TypeOK, Listings
  <2> QED BY <1>7, <2>1, RetainKeeps
<1>8. ASSUME NEW s \in Sources, RemoveSource(s)
      PROVE  IInv' /\ RetryAllowed
  BY <1>7, <1>8 DEF RemoveSource, WithoutSource
<1>9. ASSUME NEW d, RemoveDiscovery(d)
      PROVE  IInv' /\ RetryAllowed
  BY <1>7, <1>9 DEF RemoveDiscovery, WithoutDiscovery
<1>10. ASSUME NEW d, Expire(d)
       PROVE  IInv' /\ RetryAllowed
  <2>1. Fresh(d) \in SUBSET obs /\ DOMAIN peers \in SUBSET Ids
    BY DEF Fresh, IInv, TypeOK
  <2>2. {e.id : e \in endpoints} = {o.id : o \in obs}
    BY IdsOfPlaces DEF IInv, ListedIffVouched, Places
  <2>3. Losing(Fresh(d)) \subseteq DOMAIN peers
    BY <2>2 DEF Losing, IInv, ListedIffVouched
  <2> QED BY <1>10, <2>1, <2>3, RetainKeeps DEF Expire
<1> QED BY <1>1, <1>2, <1>3, <1>5, <1>6, <1>8, <1>9, <1>10 DEF Next

-----------------------------------------------------------------------------
(* The invariant that the properties below follow from.                    *)
THEOREM InvariantHolds == Spec => []IInv
<1>1. IInv /\ [Next]_vars => IInv'
  BY StepKeeps
<1> QED BY <1>1, InitHolds, PTL DEF Spec

(* Every variable of the registry always holds a value of its kind.        *)
THEOREM TypesHold == Spec => []TypeOK
<1>1. IInv => TypeOK
  BY DEF IInv
<1> QED BY <1>1, InvariantHolds, PTL

(* The incremental view always agrees with what the sources say, however   *)
(* reports, removals and expiries interleave.                              *)
THEOREM ListsAgree == Spec => []ListedIffVouched
<1>1. IInv => ListedIffVouched
  BY DEF IInv
<1> QED BY <1>1, InvariantHolds, PTL

(* Each listed address is one route, named after a source that vouches for *)
(* it, of the best class.                                                  *)
THEOREM RoutesAreBacked == Spec => []RouteIsBacked
<1>1. IInv => RouteIsBacked
  BY DEF IInv
<1> QED BY <1>1, InvariantHolds, PTL

(* No advertisement, expiry or retry makes a route reachable.              *)
THEOREM ReachabilityIsEarned == Spec => []ReachableHasEvidence
<1>1. IInv => ReachableHasEvidence
  BY DEF IInv
<1> QED BY <1>1, InvariantHolds, PTL

(* Discovery cannot replace a bound key while the device is listed.        *)
THEOREM BindingStands == Spec => []BoundKeyStands
<1>1. IInv => BoundKeyStands
  BY DEF IInv
<1> QED BY <1>1, InvariantHolds, PTL

(* What is known of a device is as recent as the newest report of it.      *)
MetadataIsNewest ==
    \A o \in obs : o.id \in DOMAIN peers /\ o.seen <= peers[o.id].seen

IsMap == peers = [i \in DOMAIN peers |-> peers[i]]

LEMMA MapKeeps == ASSUME IInv, IsMap, [Next]_vars PROVE IsMap'
<1>1. CASE UNCHANGED peers
  BY <1>1 DEF IsMap
<1>2. ASSUME NEW id \in Ids, NEW key \in Keys, NEW s \in Sources,
             NEW at \in (SUBSET Addrs) \ {{}}, NEW t \in Times,
             Observe(id, key, s, at, t)
      PROVE  IsMap'
  BY <1>2 DEF Observe, IsMap
<1>3. ASSUME NEW kept, NEW touched, Retain(kept, touched) PROVE IsMap'
  BY <1>3 DEF Retain, Restrict, IsMap
<1>4. ASSUME NEW id \in Ids, NEW key \in Keys, Authenticate(id, key) PROVE IsMap'
  BY <1>4 DEF Authenticate, IsMap
<1> QED BY <1>1, <1>2, <1>3, <1>4 DEF Next, RouteSuccess, RouteFailure, RemoveSource,
           RemoveDiscovery, Expire, Tick, vars

LEMMA NewestKeeps ==
    ASSUME IInv, IInv', MetadataIsNewest, [Next]_vars
    PROVE  MetadataIsNewest'
<1> SUFFICES ASSUME NEW o \in obs'
             PROVE  o.id \in DOMAIN peers' /\ o.seen <= peers'[o.id].seen
  BY DEF MetadataIsNewest
<1>1. o.id \in DOMAIN peers' /\ o.seen \in Nat
  <2>1. {e.id : e \in endpoints'} = {n.id : n \in obs'}
    BY IdsOfPlaces DEF IInv, ListedIffVouched, Places
  <2> QED BY <2>1, RegistryAssumption DEF IInv, ListedIffVouched, TypeOK, Listings
<1>2. \A i \in DOMAIN peers : peers[i].seen \in Nat
  BY RegistryAssumption DEF IInv, TypeOK, Metadata
<1>3. ASSUME o \in obs, \A i \in DOMAIN peers' : i \in DOMAIN peers => peers'[i].seen = peers[i].seen
      PROVE  o.seen <= peers'[o.id].seen
  BY <1>1, <1>3 DEF MetadataIsNewest
<1>4. ASSUME NEW id \in Ids, NEW key \in Keys, NEW s \in Sources,
             NEW at \in (SUBSET Addrs) \ {{}}, NEW t \in Times,
             Observe(id, key, s, at, t)
      PROVE  o.seen <= peers'[o.id].seen
  <2> DEFINE new == [key |-> key, auth |-> NoKey, seen |-> clock]
             was == IF id \in DOMAIN peers THEN peers[id] ELSE new
  <2>1. /\ o \in obs \/ (o.id = id /\ o.seen = t)
        /\ \A i \in DOMAIN peers : i # id => peers'[i] = peers[i]
        /\ peers'[id] = MetadataAfter(was, key, t)
    BY <1>4 DEF Observe
  <2>2. t \in Nat /\ clock \in Nat
    BY RegistryAssumption DEF Times, IInv, TypeOK
  <2>3. was \in [key : Keys, auth : Keys \cup {NoKey}, seen : Nat]
    BY <2>2, RegistryAssumption DEF IInv, TypeOK, Metadata
  <2>4. id \in DOMAIN peers => was = peers[id]
    OBVIOUS
  <2> HIDE DEF was
  <2>5. t <= peers'[id].seen /\ was.seen <= peers'[id].seen /\ peers'[id].seen \in Nat
    <3>1. CASE t < was.seen
      BY <2>1, <2>2, <2>3, <3>1 DEF MetadataAfter
    <3>2. CASE ~(t < was.seen)
      <4>1. peers'[id].seen = t
        BY <2>1, <2>3, <3>2 DEF MetadataAfter
      <4> QED BY <2>2, <2>3, <3>2, <4>1
    <3> QED BY <3>1, <3>2
  <2>6. CASE o \in obs /\ o.id = id
    BY <1>1, <2>3, <2>4, <2>5, <2>6 DEF MetadataIsNewest
  <2>7. CASE o \in obs /\ o.id # id
    BY <2>1, <2>7 DEF MetadataIsNewest
  <2> QED BY <2>1, <2>5, <2>6, <2>7
<1>5. ASSUME NEW kept \in SUBSET obs, NEW touched, Retain(kept, touched)
      PROVE  o.seen <= peers'[o.id].seen
  <2>1. o \in obs /\ \A i \in DOMAIN peers' : peers'[i] = peers[i]
    BY <1>5 DEF Retain, Restrict
  <2> QED BY <1>3, <2>1
<1>6. ASSUME NEW id \in Ids, NEW a \in Addrs, RouteSuccess(id, a) \/ RouteFailure(id, a)
      PROVE  o.seen <= peers'[o.id].seen
  BY <1>3, <1>6 DEF RouteSuccess, RouteFailure
<1>7. ASSUME NEW id \in Ids, NEW key \in Keys, Authenticate(id, key)
      PROVE  o.seen <= peers'[o.id].seen
  <2>1. o \in obs /\ \A i \in DOMAIN peers : peers'[i].seen = peers[i].seen
    BY <1>7 DEF Authenticate, IInv, TypeOK, Metadata
  <2> QED BY <1>3, <2>1
<1>8. CASE Tick \/ UNCHANGED vars
  BY <1>1, <1>3, <1>8 DEF Tick, vars
<1>9. CASE \/ \E s \in Sources : RemoveSource(s)
           \/ \E d \in Range(DiscoveryOf) : RemoveDiscovery(d) \/ Expire(d)
  <2>1. ASSUME NEW kept \in SUBSET obs, Retain(kept, Losing(kept)) \/ Retain(kept, DOMAIN peers)
        PROVE  o.seen <= peers'[o.id].seen
    BY <1>5, <2>1
  <2>2. \A x : WithoutSource(x) \subseteq obs /\ WithoutDiscovery(x) \subseteq obs
                /\ Fresh(x) \subseteq obs
    BY DEF WithoutSource, WithoutDiscovery, Fresh
  <2>3. ASSUME NEW s \in Sources, RemoveSource(s) PROVE o.seen <= peers'[o.id].seen
    BY <2>1, <2>2, <2>3 DEF RemoveSource
  <2>4. ASSUME NEW d \in Range(DiscoveryOf), RemoveDiscovery(d) \/ Expire(d)
        PROVE  o.seen <= peers'[o.id].seen
    BY <2>1, <2>2, <2>4 DEF RemoveDiscovery, Expire
  <2> QED BY <1>1, <1>9, <2>3, <2>4
<1> QED BY <1>1, <1>4, <1>6, <1>7, <1>8, <1>9 DEF Next

(* One reconciliation without a new report.                                *)
LEMMA LateKeeps ==
    ASSUME IInv, IInv', MetadataIsNewest, IsMap,
           NEW id \in Ids, NEW key \in Keys, NEW s \in Sources, NEW at \in (SUBSET Addrs) \ {{}}, NEW t \in Times,
           Observe(id, key, s, at, t), ~Current(id, s, t)
    PROVE  /\ UNCHANGED <<obs, peers>>
           /\ \A e \in endpoints : \A n \in At(endpoints', e.id, e.addr) :
                /\ n.seen = e.seen
                /\ \/ n.reach = e.reach
                   \/ n.reach = "reachable"
                        /\ \E o \in At(obs, e.id, e.addr) : o.reach = "reachable"
<1>1. obs' = obs /\ endpoints' = View(obs, {id})
  BY DEF Observe
<1>2. PICK o \in obs : o.id = id /\ o.source = s /\ ~(o.seen <= t)
  BY DEF Current
<1>3. id \in DOMAIN peers /\ o.seen <= peers[id].seen
  BY <1>2 DEF MetadataIsNewest
<1>4. t \in Nat /\ o.seen \in Nat /\ peers[id].seen \in Nat
  BY <1>3, RegistryAssumption DEF Times, IInv, TypeOK, Listings, Metadata
<1>5. peers' = peers
  <2>1. t < peers[id].seen
    BY <1>2, <1>3, <1>4
  <2>2. peers' = [i \in DOMAIN peers |-> peers[i]]
    BY <1>3, <2>1 DEF Observe, MetadataAfter
  <2> QED BY <2>2 DEF IsMap
<1>6. ASSUME NEW e \in endpoints, NEW n \in At(endpoints', e.id, e.addr)
      PROVE  /\ n.seen = e.seen
             /\ \/ n.reach = e.reach
                \/ n.reach = "reachable"
                     /\ \E q \in At(obs, e.id, e.addr) : q.reach = "reachable"
  <2>1. e \in Listings /\ n \in Listings /\ n.id = e.id /\ n.addr = e.addr
    BY <1>6 DEF IInv, TypeOK, At
  <2>2. n.seen = e.seen
    <3>1. PICK p \in At(obs, e.id, e.addr) : p.seen = e.seen
      BY DEF IInv, RouteIsBacked
    <3>2. PICK q \in At(obs, e.id, e.addr) : q.seen = n.seen
      BY <1>1, <1>6, <2>1 DEF IInv, RouteIsBacked, At
    <3>3. p.seen <= n.seen
      BY <1>1, <1>6, <2>1 DEF IInv, RouteIsBacked, At
    <3>4. q.seen <= e.seen
      BY DEF IInv, RouteIsBacked
    <3>5. e.seen \in Nat /\ n.seen \in Nat
      BY <2>1, RegistryAssumption DEF Listings
    <3> QED BY <3>1, <3>2, <3>3, <3>4, <3>5
  <2>3. CASE e.id # id
    <3>1. Touches(obs, {id})
      BY DEF Touches, IInv, TypeOK
    <3>2. n \in endpoints
      <4>1. n \in View(obs, {id}) /\ n.id # id
        BY <1>1, <1>6, <2>1, <2>3 DEF At
      <4>2. \A a : Endpoint(obs, endpoints, id, a).id = id
        BY DEF Endpoint
      <4> QED BY <3>1, <4>1, <4>2, ViewMembers DEF IInv
    <3>3. n = e
      BY <2>1, <3>2 DEF IInv, RouteIsBacked, At
    <3> QED BY <3>3
  <2>4. CASE e.id = id
    <3> DEFINE claims == At(obs, e.id, e.addr)
               before == At(endpoints, e.id, e.addr)
    <3>1. before = {e}
      BY DEF IInv, RouteIsBacked
    <3>2. n = Endpoint(obs, endpoints, e.id, e.addr)
      <4>1. n \in Reconciled(obs, endpoints, id)
        BY <1>1, <1>6, <2>1, <2>4 DEF At, View
      <4>2. PICK a \in {x.addr : x \in Of(obs, id)} : n = Endpoint(obs, endpoints, id, a)
        BY <4>1 DEF Reconciled
      <4>3. n.addr = a
        BY <4>2 DEF Endpoint
      <4> QED BY <2>1, <2>4, <4>2, <4>3
    <3>3. n.reach = Reach(claims, {e}) /\ n.seen = Max(Seen(claims))
      BY <3>1, <3>2 DEF Endpoint
    <3>4. (CHOOSE p \in {e} : TRUE) = e
      OBVIOUS
    <3>5. ~(e.seen > e.seen)
      BY <2>1, RegistryAssumption DEF Listings
    <3> HIDE DEF claims
    <3>6. \/ n.reach = e.reach
          \/ n.reach = "reachable" /\ \E q \in claims : q.reach = "reachable"
      BY <2>2, <3>3, <3>4, <3>5 DEF Reach
    <3> QED BY <2>2, <3>6 DEF claims
  <2> QED BY <2>2, <2>3, <2>4
<1> QED BY <1>1, <1>5, <1>6

(* A late report changes neither metadata nor dates; a route that failed   *)
(* may be called reachable again, by an observation that says so.          *)
THEOREM LateReportsOnlyReconcile == Spec => LateReportsAreIgnored
<1> DEFINE Late == \A id \in Ids, key \in Keys, s \in Sources,
                      at \in (SUBSET Addrs) \ {{}}, t \in Times :
             Observe(id, key, s, at, t) /\ ~Current(id, s, t) =>
               /\ UNCHANGED <<obs, peers>>
               /\ \A e \in endpoints : \A n \in At(endpoints', e.id, e.addr) :
                    /\ n.seen = e.seen
                    /\ \/ n.reach = e.reach
                       \/ n.reach = "reachable"
                            /\ \E o \in At(obs, e.id, e.addr) : o.reach = "reachable"
<1>1. Init => MetadataIsNewest /\ IsMap
  BY DEF Init, MetadataIsNewest, IsMap
<1>2. IInv /\ IInv' /\ MetadataIsNewest /\ IsMap /\ [Next]_vars => MetadataIsNewest' /\ IsMap'
  BY NewestKeeps, MapKeeps
<1>3. IInv /\ IInv' /\ MetadataIsNewest /\ IsMap => Late
  BY LateKeeps
<1> QED BY <1>1, <1>2, <1>3, InvariantHolds, PTL DEF Spec, LateReportsAreIgnored

(* A newer observation always makes an unreachable route worth a try.      *)
THEOREM RetryIsAllowed == Spec => FreshReportAllowsRetry
<1>1. IInv /\ [Next]_vars => [RetryAllowed]_vars
  BY StepKeeps
<1> QED BY <1>1, InvariantHolds, PTL DEF Spec, FreshReportAllowsRetry, RetryAllowed

(* A source that goes takes no one else's reports, nor a device with them. *)
THEOREM RemovalLeavesTheRest == Spec => RemovalIsScoped
<1> DEFINE Scoped == \A s \in Sources : RemoveSource(s) =>
              \A o \in obs : o.source # s => o \in obs' /\ o.id \in DOMAIN peers'
<1>1. IInv /\ IInv' => Scoped
  <2> SUFFICES ASSUME IInv', NEW s \in Sources, RemoveSource(s),
                      NEW o \in obs, o.source # s
               PROVE  o \in obs' /\ o.id \in DOMAIN peers'
    OBVIOUS
  <2>1. o \in obs'
    BY DEF RemoveSource, Retain, WithoutSource
  <2>2. {e.id : e \in endpoints'} = {n.id : n \in obs'}
    BY IdsOfPlaces DEF IInv, ListedIffVouched, Places
  <2> QED BY <2>1, <2>2 DEF IInv, ListedIffVouched
<1> QED BY <1>1, InvariantHolds, PTL DEF RemovalIsScoped

(* An expiry delists a device exactly if all that speaks for it are        *)
(* reports of that discovery that are too old, however the incremental     *)
(* view came about.                                                        *)
THEOREM ExpiryDelistsTheSilent == Spec => ExpiryIsScoped
<1> DEFINE Scoped == \A d \in Range(DiscoveryOf) : Expire(d) => \A id \in Ids :
              id \in DOMAIN peers' <=>
                \E o \in Of(obs, id) : DiscoveryOf[o.source] # d \/ clock - o.seen <= MaxAge
<1>1. IInv' => Scoped
  <2> SUFFICES ASSUME IInv', NEW d \in Range(DiscoveryOf), Expire(d), NEW id \in Ids
               PROVE  id \in DOMAIN peers' <=>
                        \E o \in Of(obs, id) :
                           DiscoveryOf[o.source] # d \/ clock - o.seen <= MaxAge
    OBVIOUS
  <2>1. DOMAIN peers' = {n.id : n \in obs'}
    BY IdsOfPlaces DEF IInv, ListedIffVouched, Places
  <2>2. obs' = Fresh(d)
    BY DEF Expire, Retain
  <2> QED BY <2>1, <2>2 DEF Fresh, Of
<1> QED BY <1>1, InvariantHolds, PTL DEF ExpiryIsScoped

-----------------------------------------------------------------------------
(* The registry implements the directory.                                  *)
Claims == {<<o.id, o.source, o.addr>> : o \in obs}

(* Whatever changed the observations, the lists were recomputed.           *)
LEMMA ListsAreRecomputed == IInv' => Directory!Recomputed
<1> SUFFICES ASSUME IInv'
             PROVE  /\ {<<e.id, e.addr>> : e \in endpoints'} = {<<c[1], c[3]>> : c \in Claims'}
                    /\ DOMAIN peers' = {c[1] : c \in Claims'}
  BY DEF Directory!Recomputed, Claims
<1>0. /\ \A o \in obs' : \E c \in Claims' : c[1] = o.id /\ c[3] = o.addr
      /\ \A c \in Claims' : \E o \in obs' : c[1] = o.id /\ c[3] = o.addr
  <2>1. ASSUME NEW o \in obs'
        PROVE  \E c \in Claims' : c[1] = o.id /\ c[3] = o.addr
    <3>1. <<o.id, o.source, o.addr>> \in Claims'
      BY DEF Claims
    <3>2. <<o.id, o.source, o.addr>>[1] = o.id /\ <<o.id, o.source, o.addr>>[3] = o.addr
      OBVIOUS
    <3> QED BY <3>1, <3>2
  <2>2. ASSUME NEW c \in Claims'
        PROVE  \E o \in obs' : c[1] = o.id /\ c[3] = o.addr
    <3>1. PICK o \in obs' : c = <<o.id, o.source, o.addr>>
      BY DEF Claims
    <3> QED BY <3>1
  <2> QED BY <2>1, <2>2
<1>1. {<<c[1], c[3]>> : c \in Claims'} = {<<o.id, o.addr>> : o \in obs'}
  BY <1>0
<1>2. {c[1] : c \in Claims'} = {o.id : o \in obs'}
  BY <1>0
<1>3. {e.id : e \in endpoints'} = {o.id : o \in obs'}
  BY IdsOfPlaces DEF IInv, ListedIffVouched, Places
<1> QED BY <1>1, <1>2, <1>3 DEF IInv, ListedIffVouched

(* Lists of unchanged observations are unchanged.                          *)
LEMMA SameClaims ==
    ASSUME IInv, IInv', obs' = obs
    PROVE  UNCHANGED Directory!vars
<1>1. {<<o.id, o.source, o.addr>> : o \in obs'} = {<<o.id, o.source, o.addr>> : o \in obs}
  OBVIOUS
<1>2. {<<e.id, e.addr>> : e \in endpoints'} = {<<e.id, e.addr>> : e \in endpoints}
  BY DEF IInv, ListedIffVouched
<1>3. {e.id : e \in endpoints'} = {o.id : o \in obs'}
  BY IdsOfPlaces DEF IInv, ListedIffVouched, Places
<1>4. {e.id : e \in endpoints} = {o.id : o \in obs}
  BY IdsOfPlaces DEF IInv, ListedIffVouched, Places
<1>5. DOMAIN peers' = DOMAIN peers
  BY <1>3, <1>4 DEF IInv, ListedIffVouched
<1> QED BY <1>1, <1>2, <1>5 DEF Directory!vars

(* A report is a report of the directory, or a late one that it ignores.   *)
LEMMA ObserveReports ==
    ASSUME IInv, IInv', NEW id \in Ids, NEW key \in Keys, NEW s \in Sources,
           NEW at \in (SUBSET Addrs) \ {{}}, NEW t \in Times,
           Observe(id, key, s, at, t)
    PROVE  Directory!Reports(id, s, at) \/ UNCHANGED Directory!vars
<1> DEFINE said == {[id |-> id, addr |-> a, source |-> s, seen |-> t,
                     reach |-> Report(s)] : a \in at}
           kept == {o \in obs : ~(o.id = id /\ o.source = s)}
<1>1. CASE ~Current(id, s, t)
  BY <1>1, SameClaims DEF Observe
<1>2. CASE Current(id, s, t)
  <2>1. obs' = kept \cup said
    BY <1>2 DEF Observe
  <2>2. \A c : c \in {<<o.id, o.source, o.addr>> : o \in said} <=> c \in {id} \X {s} \X at
    <3>1. \A o \in said : o.id = id /\ o.source = s /\ o.addr \in at
      OBVIOUS
    <3>2. ASSUME NEW a \in at
          PROVE  \E o \in said : o.id = id /\ o.source = s /\ o.addr = a
      <4>1. [id |-> id, addr |-> a, source |-> s, seen |-> t, reach |-> Report(s)] \in said
        OBVIOUS
      <4> HIDE DEF said
      <4> QED BY <4>1
    <3> HIDE DEF said
    <3>3. \A c : c \in {id} \X {s} \X at <=> \E a \in at : c = <<id, s, a>>
      OBVIOUS
    <3>4. \A c : c \in {<<o.id, o.source, o.addr>> : o \in said}
                   <=> \E o \in said : c = <<o.id, o.source, o.addr>>
      OBVIOUS
    <3> QED BY <3>1, <3>2, <3>3, <3>4
  <2>3. {<<o.id, o.source, o.addr>> : o \in kept} = {c \in Claims : c[1] # id \/ c[2] # s}
    BY DEF Claims
  <2> HIDE DEF said, kept
  <2>4. Claims' = {<<o.id, o.source, o.addr>> : o \in kept}
                    \cup {<<o.id, o.source, o.addr>> : o \in said}
    BY <2>1 DEF Claims
  <2>5. Claims' = {c \in Claims : c[1] # id \/ c[2] # s} \cup ({id} \X {s} \X at)
    BY <2>2, <2>3, <2>4
  <2>6. Directory!Recomputed
    BY ListsAreRecomputed
  <2> QED BY <2>5, <2>6 DEF Directory!Reports, Claims
<1> QED BY <1>1, <1>2

(* A removal or an expiry withdraws the claims that only it explains.      *)
LEMMA RetainWithdraws ==
    ASSUME IInv, IInv', obs' \in SUBSET obs
    PROVE  \E gone \in SUBSET Claims : Directory!Withdraws(gone)
<1>1. Claims' \subseteq Claims
  BY DEF Claims
<1>2. Claims' = Claims \ (Claims \ Claims')
  BY <1>1
<1>3. Directory!Recomputed
  BY ListsAreRecomputed
<1> DEFINE gone == Claims \ Claims'
<1>4. Claims' = Claims \ gone /\ gone \in SUBSET Claims
  BY <1>2
<1> HIDE DEF gone
<1> QED BY <1>3, <1>4 DEF Directory!Withdraws, Claims

(* Step-by-step reconciliation implements recomputing from all claims.     *)
THEOREM RegistryImplementsDirectory == Spec => ImplementsDirectory
<1>1. Init => Directory!Init
  BY DEF Init, Directory!Init
<1>2. ASSUME IInv, IInv', [Next]_vars
      PROVE  Directory!Next \/ UNCHANGED Directory!vars
  <2>1. ASSUME obs' \in SUBSET obs
        PROVE  Directory!Next
    BY <1>2, <2>1, RetainWithdraws DEF Directory!Next, Claims
  <2>2. ASSUME NEW id \in Ids, NEW key \in Keys, NEW s \in Sources,
               NEW at \in (SUBSET Addrs) \ {{}}, NEW t \in Times,
               Observe(id, key, s, at, t)
        PROVE  Directory!Next \/ UNCHANGED Directory!vars
    BY <1>2, <2>2, ObserveReports DEF Directory!Next
  <2>3. ASSUME obs' = obs
        PROVE  UNCHANGED Directory!vars
    BY <1>2, <2>3, SameClaims
  <2>4. ASSUME NEW id, NEW a, RouteSuccess(id, a) \/ RouteFailure(id, a)
        PROVE  obs' = obs
    BY <2>4 DEF RouteSuccess, RouteFailure
  <2>5. ASSUME NEW id, NEW key, Authenticate(id, key)
        PROVE  obs' = obs
    BY <2>5 DEF Authenticate
  <2>6. ASSUME NEW s, RemoveSource(s)
        PROVE  obs' \in SUBSET obs
    BY <2>6 DEF RemoveSource, Retain, WithoutSource
  <2>7. ASSUME NEW d, RemoveDiscovery(d) \/ Expire(d)
        PROVE  obs' \in SUBSET obs
    BY <2>7 DEF RemoveDiscovery, Expire, Retain, WithoutDiscovery, Fresh
  <2>8. Tick \/ UNCHANGED vars => obs' = obs
    BY DEF Tick, vars
  <2> QED BY <1>2, <2>1, <2>2, <2>3, <2>4, <2>5, <2>6, <2>7, <2>8 DEF Next
<1> QED BY <1>1, <1>2, InvariantHolds, PTL
        DEF Spec, ImplementsDirectory, Directory!Spec

-----------------------------------------------------------------------------
(* What the workers hand to the registry are devices, sources and          *)
(* addresses it knows, and reports are timed by its clock.                 *)
Known ==
    /\ clock \in 0..MaxClock
    /\ \A w \in Workers :
         /\ todo[w] \subseteq Candidates[w]
         /\ won[w] \subseteq Candidates[w] \X Ids
         /\ applied[w] \in Ids \cup {Nobody}
         /\ previous[w] \cup current[w] \subseteq Sources

Typed ==
    /\ occupant \in [Addrs -> Ids \cup {Nobody}]
    /\ DOMAIN todo = Workers /\ DOMAIN won = Workers /\ DOMAIN applied = Workers
    /\ DOMAIN previous = Workers /\ DOMAIN current = Workers
    /\ Known

(* The workers start with nothing to hand over.                            *)
LEMMA TypedInit == DiscoveryInit => Typed
<1> SUFFICES ASSUME DiscoveryInit PROVE Typed
  OBVIOUS
<1>1. clock \in 0..MaxClock
  BY RegistryAssumption DEF DiscoveryInit, Init
<1> QED BY <1>1 DEF DiscoveryInit, Typed, Known

(* Every step of a worker keeps what it hands over known.                  *)
LEMMA TypedCycle ==
    ASSUME Typed, NEW w \in Workers, Cycle(w)
    PROVE  Typed'
<1> USE DEF Typed, Known
<1>1. CASE Poll(w)
  BY <1>1 DEF Poll, screen, vars
<1>2. ASSUME NEW c \in todo[w], Probe(w, c) PROVE Typed'
  <2>1. c \in Candidates[w] /\ c.addr \in Addrs
    BY DiscoveryAssumption
  <2>2. Answers(c, occupant[c.addr]) => occupant[c.addr] \in Ids
    BY <2>1 DEF Answers
  <2> QED BY <1>2, <2>1, <2>2 DEF Probe, screen, vars
<1>3. ASSUME NEW x \in won[w], Apply(w, x) PROVE Typed'
  <2>1. x[1] \in Candidates[w] /\ x[2] \in Ids /\ x[1].source \in Sources
    BY DiscoveryAssumption
  <2>2. UNCHANGED clock
    BY <1>3 DEF Apply, Observe
  <2> QED BY <1>3, <2>1, <2>2 DEF Apply
<1>4. CASE Name(w)
  BY <1>4 DEF Name, Authenticate, screen
<1>5. CASE Leave(w)
  BY <1>5 DEF Leave, Old, screen, vars
<1>6. ASSUME NEW s \in previous[w], Forget(w, s) PROVE Typed'
  <2>1. UNCHANGED clock
    BY <1>6 DEF Forget, RemoveSource, Retain
  <2> QED BY <1>6, <2>1 DEF Forget
<1>7. CASE EndCycle(w)
  BY <1>7 DEF EndCycle, screen, vars
<1>8. CASE Read(w) \/ Emit(w)
  BY <1>8 DEF Read, Emit, prober, vars
<1> QED BY <1>1, <1>2, <1>3, <1>4, <1>5, <1>6, <1>7, <1>8 DEF Cycle

(* So does every other step.                                               *)
LEMMA TypedStep == Typed /\ [DiscoveryNext]_all => Typed'
<1> SUFFICES ASSUME Typed, [DiscoveryNext]_all PROVE Typed'
  OBVIOUS
<1>1. ASSUME NEW a \in Addrs, NEW d \in Ids \cup {Nobody}, Moves(a, d) PROVE Typed'
  BY <1>1 DEF Moves, Typed, Known, prober, vars
<1>2. ASSUME NEW w \in Workers, Cycle(w) PROVE Typed'
  BY <1>2, TypedCycle
<1>3. CASE MdnsStep
  <2>1. UNCHANGED <<prober, occupant, clock>>
    BY <1>3 DEF MdnsStep, Resolve, Observe, Removed, RemoveSource, Purge, Expire,
                Disconnect, SessionLost, RemoveDiscovery, Retry, Read, Emit, Retain,
                others, vars
  <2> QED BY <2>1 DEF Typed, Known, prober
<1>4. CASE Reports
  <2>1. UNCHANGED clock
    BY <1>4 DEF Reports, RouteSuccess, RouteFailure
  <2> QED BY <1>4, <2>1 DEF Reports, Typed, Known, prober
<1>5. CASE Passes
  <2>1. clock' \in 0..MaxClock
    BY <1>5, RegistryAssumption DEF Passes, Tick, Typed, Known
  <2> QED BY <1>5, <2>1 DEF Passes, Typed, Known, prober
<1>6. CASE UNCHANGED all
  BY <1>6 DEF all, Typed, Known, prober, vars
<1> QED BY <1>1, <1>2, <1>3, <1>4, <1>5, <1>6 DEF DiscoveryNext

-----------------------------------------------------------------------------
(* An observation timed by the clock is one the registry allows.           *)
LEMMA ObserveIsCall ==
    ASSUME clock \in 0..MaxClock, NEW id \in Ids, NEW key \in Keys,
           NEW s \in Sources, NEW at \in (SUBSET Addrs) \ {{}},
           Observe(id, key, s, at, clock)
    PROVE  Next
<1>1. clock \in Times
  BY RegistryAssumption DEF Times
<1>2. \E i \in Ids, k \in Keys, r \in Sources, l \in (SUBSET Addrs) \ {{}}, t \in Times :
        Observe(i, k, r, l, t)
  BY <1>1
<1> QED BY <1>2 DEF Next

(* A step of a prober is a call of the registry or leaves it alone.        *)
LEMMA CycleIsCall ==
    ASSUME Typed, NEW w \in Workers, Cycle(w)
    PROVE  [Next]_vars
<1>1. CASE Poll(w) \/ Leave(w) \/ EndCycle(w) \/ Read(w) \/ Emit(w)
  BY <1>1 DEF Poll, Leave, EndCycle, Read, Emit
<1>2. ASSUME NEW c \in todo[w], Probe(w, c) PROVE UNCHANGED vars
  BY <1>2 DEF Probe
<1>3. ASSUME NEW x \in won[w], Apply(w, x) PROVE Next
  <2>1. /\ x[1] \in Candidates[w] /\ x[2] \in Ids /\ KeyOf[x[2]] \in Keys
        /\ x[1].source \in Sources /\ x[1].addr \in Addrs
    BY DiscoveryAssumption DEF Typed, Known
  <2>2. {x[1].addr} \in (SUBSET Addrs) \ {{}} /\ clock \in 0..MaxClock
    BY <2>1 DEF Typed, Known
  <2>3. Observe(x[2], KeyOf[x[2]], x[1].source, {x[1].addr}, clock)
    BY <1>3 DEF Apply
  <2> QED BY <2>1, <2>2, <2>3, ObserveIsCall
<1>4. CASE Name(w)
  <2>1. applied[w] \in Ids /\ KeyOf[applied[w]] \in Keys
    BY <1>4, DiscoveryAssumption DEF Name, Typed, Known
  <2>2. Authenticate(applied[w], KeyOf[applied[w]])
    BY <1>4 DEF Name
  <2> QED BY <2>1, <2>2 DEF Next
<1>5. ASSUME NEW s \in previous[w], Forget(w, s) PROVE Next
  <2>1. s \in Sources /\ RemoveSource(s)
    BY <1>5 DEF Forget, Typed, Known
  <2> QED BY <2>1 DEF Next
<1> QED BY <1>1, <1>2, <1>3, <1>4, <1>5 DEF Cycle

(* So is a step of the mDNS thread.                                        *)
LEMMA MdnsIsCall ==
    ASSUME Typed, MdnsStep
    PROVE  [Next]_vars
<1>1. ASSUME NEW id \in Ids, NEW key \in Keys, NEW at \in (SUBSET Addrs) \ {{}},
             Resolve(id, key, at)
      PROVE  Next
  <2>1. Advertised[id] \in Sources /\ Observe(id, key, Advertised[id], at, clock)
    BY <1>1, DiscoveryAssumption DEF Resolve
  <2>2. clock \in 0..MaxClock
    BY DEF Typed, Known
  <2> QED BY <2>1, <2>2, ObserveIsCall
<1>2. ASSUME NEW id \in Ids, Removed(id) PROVE Next
  <2>1. Advertised[id] \in Sources /\ RemoveSource(Advertised[id])
    BY <1>2, DiscoveryAssumption DEF Removed
  <2> QED BY <2>1 DEF Next
<1>3. CASE Purge \/ SessionLost
  <2>1. Expire(Mdns) \/ RemoveDiscovery(Mdns)
    BY <1>3 DEF Purge, SessionLost
  <2>2. Mdns \in Range(DiscoveryOf)
    BY DiscoveryAssumption
  <2> QED BY <2>1, <2>2 DEF Next
<1>4. CASE Disconnect \/ Retry \/ Read(Mdns) \/ Emit(Mdns)
  BY <1>4 DEF Disconnect, Retry, Read, Emit
<1> QED BY <1>1, <1>2, <1>3, <1>4 DEF MdnsStep

(* Under any number of workers, candidates and devices, the registry is    *)
(* only ever changed by one of its own calls, with arguments it knows.     *)
THEOREM DiscoveryUsesRegistry == DiscoverySpec => Spec
<1>1. DiscoveryInit => Init
  BY DEF DiscoveryInit
<1>2. Typed /\ [DiscoveryNext]_all => [Next]_vars
  <2> SUFFICES ASSUME Typed, [DiscoveryNext]_all PROVE [Next]_vars
    OBVIOUS
  <2>1. ASSUME NEW a \in Addrs, NEW d \in Ids \cup {Nobody}, Moves(a, d)
        PROVE  UNCHANGED vars
    BY <2>1 DEF Moves
  <2>2. ASSUME NEW w \in Workers, Cycle(w) PROVE [Next]_vars
    BY <2>2, CycleIsCall
  <2>3. CASE MdnsStep
    BY <2>3, MdnsIsCall
  <2>4. CASE Reports
    BY <2>4 DEF Reports, Next
  <2>5. CASE Passes
    BY <2>5 DEF Passes, Next
  <2>6. CASE UNCHANGED all
    BY <2>6 DEF all
  <2> QED BY <2>1, <2>2, <2>3, <2>4, <2>5, <2>6 DEF DiscoveryNext
<1> QED BY <1>1, <1>2, TypedInit, TypedStep, PTL DEF DiscoverySpec, Spec

(* So the list of devices is the one the sources vouch for, and a route    *)
(* counts as reachable only after a handshake, however the workers, the    *)
(* mDNS session and the transfers interleave.                              *)
THEOREM ListIsRight == DiscoverySpec => [](ListedIffVouched /\ ReachableHasEvidence)
BY DiscoveryUsesRegistry, ListsAgree, ReachabilityIsEarned, PTL

-----------------------------------------------------------------------------
(* What a worker vouches for.  A source is as the candidates it stands for *)
(* say: for one device, or for whoever answers at its address.             *)
Awaits(w, s, id) == \E c \in Candidates[w] : c.source = s /\ c.expects \in {Anyone, id}

(* Its sources are those of the last cycle or of this one; a source of     *)
(* this one stands for an answer, and each answer for a report.            *)
Vouching(w) ==
    /\ \A x \in won[w] : x[1] \in Candidates[w] /\ x[1].expects \in {Anyone, x[2]}
    /\ \A s \in previous[w] \cup current[w] : DiscoveryOf[s] = w
    /\ stage[w] = "idle" => current[w] = {}
    /\ stage[w] = "leaving" => previous[w] \cap current[w] = {}
    /\ \A s \in current[w] : \E x \in answered[w] : x[1] = s
    /\ \A x \in answered[w] :
         /\ Awaits(w, x[1], x[2])
         /\ stage[w] # "idle" => x[1] \in current[w]
         /\ \E o \in Reported(w) : x = <<o.source, o.id>>
    /\ \A o \in Reported(w) :
         /\ Awaits(w, o.source, o.id)
         /\ o.source \in previous[w] \cup current[w]
         /\ stage[w] = "idle" => \E x \in answered[w] : x[1] = o.source

(* While lists are read one at a time, the only one under way is the       *)
(* current one unless a thread has a change still to tell.                 *)
Telling ==
    /\ alone => \A t, u \in Threads :
                  letter[t] # Nobody /\ letter[u] # Nobody => t = u
    /\ alone /\ due = {} =>
         /\ \A t \in Threads : letter[t] # Nobody => letter[t] = DOMAIN peers
         /\ (\A t \in Threads : letter[t] = Nobody) => shown = DOMAIN peers

Tables ==
    /\ DOMAIN stage = Workers /\ DOMAIN answered = Workers
    /\ DOMAIN letter = Threads

Screening ==
    /\ Typed /\ Tables /\ Telling
    /\ \A w \in Workers : Vouching(w)

(* A report replaces observations of its source and device only; a         *)
(* withdrawal adds none and takes those of its source or discovery only.   *)
LEMMA ObserveReplaces ==
    ASSUME NEW id, NEW key, NEW s, NEW at, NEW t, Observe(id, key, s, at, t), at # {}
    PROVE  /\ \A o \in obs' : o \in obs \/ (o.source = s /\ o.id = id)
           /\ \A o \in obs : o \in obs' \/ (o.source = s /\ o.id = id)
           /\ \E o \in obs' : o.source = s /\ o.id = id
<1>1. CASE Current(id, s, t)
  <2>1. PICK a \in at : TRUE
    OBVIOUS
  <2>2. [id |-> id, addr |-> a, source |-> s, seen |-> t, reach |-> Report(s)] \in obs'
    BY <1>1, <2>1 DEF Observe
  <2> QED BY <1>1, <2>2 DEF Observe
<1>2. CASE ~Current(id, s, t)
  BY <1>2 DEF Observe, Current
<1> QED BY <1>1, <1>2

LEMMA RemovalTakes ==
    ASSUME NEW s, RemoveSource(s)
    PROVE  \A o : o \in obs' <=> o \in obs /\ o.source # s
BY DEF RemoveSource, Retain, WithoutSource

LEMMA DiscoveryTakes ==
    ASSUME NEW d, Expire(d) \/ RemoveDiscovery(d)
    PROVE  obs' \subseteq obs /\ \A o \in obs : DiscoveryOf[o.source] # d => o \in obs'
BY DEF Expire, Retain, Fresh, RemoveDiscovery, WithoutDiscovery

(* What a worker vouches for is not touched by the others.                 *)
LEMMA OthersKeep ==
    ASSUME NEW w \in Workers, Vouching(w), Reported(w)' = Reported(w),
           stage'[w] = stage[w], won'[w] = won[w], current'[w] = current[w],
           previous'[w] = previous[w], answered'[w] = answered[w]
    PROVE  Vouching(w)'
BY DEF Vouching, Awaits

LEMMA OthersReport ==
    ASSUME NEW w \in Workers, NEW s, DiscoveryOf[s] # w,
           \A o \in obs' : o \in obs \/ o.source = s,
           \A o \in obs : o \in obs' \/ o.source = s
    PROVE  Reported(w)' = Reported(w)
BY DEF Reported

(* A worker's own cycle keeps what it vouches for true.                    *)
LEMMA OwnCycle ==
    ASSUME Screening, NEW w \in Workers, Cycle(w)
    PROVE  Vouching(w)'
<1> USE DEF Screening, Typed, Known, Tables
<1>0. Vouching(w)
  OBVIOUS
<1>1. CASE Poll(w)
  <2>1. Reported(w)' = Reported(w)
    BY <1>1 DEF Poll, Reported, vars
  <2>2. /\ stage'[w] = "probing" /\ answered'[w] = {} /\ won' = won
        /\ current' = current /\ previous' = previous /\ current[w] = {}
    BY <1>0, <1>1 DEF Poll, Vouching
  <2> QED BY <1>0, <2>1, <2>2 DEF Vouching, Awaits
<1>2. ASSUME NEW c \in todo[w], Probe(w, c) PROVE Vouching(w)'
  <2>1. Reported(w)' = Reported(w)
    BY <1>2 DEF Probe, Reported, vars
  <2>2. /\ stage' = stage /\ answered' = answered
        /\ current' = current /\ previous' = previous
    BY <1>2 DEF Probe
  <2>3. \A x \in won'[w] : x \in won[w] \/ (x = <<c, occupant[c.addr]>> /\ Answers(c, occupant[c.addr]))
    BY <1>2 DEF Probe
  <2>4. \A x \in won'[w] : x[1] \in Candidates[w] /\ x[1].expects \in {Anyone, x[2]}
    BY <1>0, <2>3 DEF Vouching, Answers
  <2> QED BY <1>0, <2>1, <2>2, <2>4 DEF Vouching, Awaits
<1>3. ASSUME NEW x \in won[w], Apply(w, x) PROVE Vouching(w)'
  <2>1. /\ x[1] \in Candidates[w] /\ x[1].expects \in {Anyone, x[2]} /\ x[2] \in Ids
        /\ DiscoveryOf[x[1].source] = w /\ Awaits(w, x[1].source, x[2])
    BY <1>0, DiscoveryAssumption DEF Vouching, Awaits
  <2>2. Observe(x[2], KeyOf[x[2]], x[1].source, {x[1].addr}, clock)
    BY <1>3 DEF Apply
  <2>3. /\ \A o \in Reported(w)' : o \in Reported(w) \/ (o.source = x[1].source /\ o.id = x[2])
        /\ \A o \in Reported(w) : o \in Reported(w)' \/ (o.source = x[1].source /\ o.id = x[2])
        /\ \E o \in Reported(w)' : o.source = x[1].source /\ o.id = x[2]
    BY <2>1, <2>2, ObserveReplaces DEF Reported
  <2>4. /\ stage' = stage /\ stage[w] = "probing" /\ previous' = previous
        /\ won'[w] \subseteq won[w] /\ current'[w] = current[w] \cup {x[1].source}
        /\ answered'[w] = answered[w] \cup {<<x[1].source, x[2]>>}
    BY <1>3 DEF Apply
  <2>5. \A y \in won'[w] : y[1] \in Candidates[w] /\ y[1].expects \in {Anyone, y[2]}
    BY <1>0, <2>4 DEF Vouching
  <2>6. /\ \A s \in previous'[w] \cup current'[w] : DiscoveryOf[s] = w
        /\ \A s \in current'[w] : \E y \in answered'[w] : y[1] = s
    <3>1. \A s \in previous'[w] \cup current'[w] : DiscoveryOf[s] = w
      BY <1>0, <2>1, <2>4 DEF Vouching
    <3>2. ASSUME NEW s \in current[w] PROVE \E y \in answered'[w] : y[1] = s
      <4>1. PICK y \in answered[w] : y[1] = s
        BY <1>0 DEF Vouching
      <4> QED BY <2>4, <4>1
    <3>3. \E y \in answered'[w] : y[1] = x[1].source
      <4>1. <<x[1].source, x[2]>> \in answered'[w]
        BY <2>4
      <4> QED BY <4>1
    <3> QED BY <2>4, <3>1, <3>2, <3>3
  <2>7. ASSUME NEW y \in answered'[w]
        PROVE  /\ Awaits(w, y[1], y[2]) /\ y[1] \in current'[w]
               /\ \E o \in Reported(w)' : y = <<o.source, o.id>>
    <3>1. CASE y = <<x[1].source, x[2]>>
      BY <2>1, <2>3, <2>4, <3>1
    <3>2. CASE y # <<x[1].source, x[2]>>
      <4>1. y \in answered[w]
        BY <2>4, <2>7, <3>2
      <4>2. PICK o \in Reported(w) : y = <<o.source, o.id>>
        BY <1>0, <4>1 DEF Vouching
      <4>3. o \in Reported(w)'
        BY <2>3, <3>2, <4>2
      <4> QED BY <1>0, <2>4, <4>1, <4>2, <4>3 DEF Vouching
    <3> QED BY <3>1, <3>2
  <2>8. \A o \in Reported(w)' :
          /\ Awaits(w, o.source, o.id)
          /\ o.source \in previous'[w] \cup current'[w]
    BY <1>0, <2>1, <2>3, <2>4 DEF Vouching
  <2>9. stage'[w] = "probing"
    BY <2>4
  <2> QED BY <2>5, <2>6, <2>7, <2>8, <2>9 DEF Vouching, Awaits
<1>4. CASE Name(w) \/ Read(w) \/ Emit(w)
  <2>1. UNCHANGED <<obs, stage, won, current, previous, answered>>
    BY <1>4 DEF Name, Authenticate, Read, Emit, prober, vars
  <2> QED BY <1>0, <2>1, OthersKeep DEF Reported
<1>5. CASE Leave(w)
  <2>1. Reported(w)' = Reported(w)
    BY <1>5 DEF Leave, Reported, vars
  <2>2. /\ stage'[w] = "leaving" /\ answered' = answered /\ won' = won
        /\ current' = current /\ previous'[w] = previous[w] \ current[w]
        /\ stage[w] = "probing"
    BY <1>5 DEF Leave, Old
  <2> QED BY <1>0, <2>1, <2>2 DEF Vouching, Awaits
<1>6. ASSUME NEW s \in previous[w], Forget(w, s) PROVE Vouching(w)'
  <2>1. \A o : o \in Reported(w)' <=> o \in Reported(w) /\ o.source # s
    BY <1>6, RemovalTakes DEF Forget, Reported
  <2>2. /\ stage' = stage /\ stage[w] = "leaving" /\ answered' = answered /\ won' = won
        /\ current' = current /\ previous'[w] = previous[w] \ {s}
    BY <1>6 DEF Forget
  <2>3. s \notin current[w]
    BY <1>0, <2>2 DEF Vouching
  <2>4. \A x \in answered[w] : \E o \in Reported(w)' : x = <<o.source, o.id>>
    <3> SUFFICES ASSUME NEW x \in answered[w] PROVE \E o \in Reported(w)' : x = <<o.source, o.id>>
      OBVIOUS
    <3>1. x[1] \in current[w]
      BY <1>0, <2>2 DEF Vouching
    <3>2. PICK o \in Reported(w) : x = <<o.source, o.id>>
      BY <1>0 DEF Vouching
    <3> QED BY <2>1, <2>3, <3>1, <3>2
  <2> QED BY <1>0, <2>1, <2>2, <2>4 DEF Vouching, Awaits
<1>7. CASE EndCycle(w)
  <2>1. Reported(w)' = Reported(w)
    BY <1>7 DEF EndCycle, Reported, vars
  <2>2. /\ answered' = answered /\ won' = won /\ previous[w] = {} /\ stage'[w] = "idle"
        /\ current'[w] = {} /\ previous'[w] = current[w]
    BY <1>7 DEF EndCycle
  <2>3. \A o \in Reported(w) :
          /\ Awaits(w, o.source, o.id) /\ o.source \in current[w]
          /\ \E x \in answered[w] : x[1] = o.source
    BY <1>0, <2>2 DEF Vouching
  <2>4. \A x \in answered[w] :
          Awaits(w, x[1], x[2]) /\ \E o \in Reported(w) : x = <<o.source, o.id>>
    BY <1>0 DEF Vouching
  <2>5. /\ \A x \in won[w] : x[1] \in Candidates[w] /\ x[1].expects \in {Anyone, x[2]}
        /\ \A s \in current[w] : DiscoveryOf[s] = w
    BY <1>0 DEF Vouching
  <2> QED BY <2>1, <2>2, <2>3, <2>4, <2>5 DEF Vouching, Awaits
<1> QED BY <1>1, <1>2, <1>3, <1>4, <1>5, <1>6, <1>7 DEF Cycle

(* Another worker's cycle leaves it alone.                                 *)
LEMMA OtherCycle ==
    ASSUME Screening, NEW w \in Workers, NEW v \in Workers, v # w, Cycle(v)
    PROVE  Vouching(w)'
<1> USE DEF Screening, Typed, Known, Tables
<1>1. Vouching(w) /\ Vouching(v)
  OBVIOUS
<1>2. /\ stage'[w] = stage[w] /\ won'[w] = won[w] /\ current'[w] = current[w]
      /\ previous'[w] = previous[w] /\ answered'[w] = answered[w]
  <2>1. CASE Poll(v)
    BY <2>1 DEF Poll
  <2>2. ASSUME NEW c \in todo[v], Probe(v, c) PROVE <1>2!:
    BY <2>2 DEF Probe
  <2>3. ASSUME NEW x \in won[v], Apply(v, x) PROVE <1>2!:
    BY <2>3 DEF Apply
  <2>4. CASE Name(v) \/ Read(v) \/ Emit(v)
    BY <2>4 DEF Name, Authenticate, Read, Emit, prober
  <2>5. CASE Leave(v)
    BY <2>5 DEF Leave
  <2>6. ASSUME NEW s \in previous[v], Forget(v, s) PROVE <1>2!:
    BY <2>6 DEF Forget
  <2>7. CASE EndCycle(v)
    BY <2>7 DEF EndCycle
  <2> QED BY <2>1, <2>2, <2>3, <2>4, <2>5, <2>6, <2>7 DEF Cycle
<1>3. Reported(w)' = Reported(w)
  <2>1. CASE Poll(v) \/ Leave(v) \/ EndCycle(v) \/ Read(v) \/ Emit(v) \/ Name(v)
    BY <2>1 DEF Poll, Leave, EndCycle, Read, Emit, Name, Authenticate, vars, Reported
  <2>2. ASSUME NEW c \in todo[v], Probe(v, c) PROVE Reported(w)' = Reported(w)
    BY <2>2 DEF Probe, vars, Reported
  <2>3. ASSUME NEW x \in won[v], Apply(v, x) PROVE Reported(w)' = Reported(w)
    <3>1. x[1] \in Candidates[v] /\ DiscoveryOf[x[1].source] = v
      BY DiscoveryAssumption
    <3>2. Observe(x[2], KeyOf[x[2]], x[1].source, {x[1].addr}, clock)
      BY <2>3 DEF Apply
    <3>3. /\ \A o \in obs' : o \in obs \/ o.source = x[1].source
          /\ \A o \in obs : o \in obs' \/ o.source = x[1].source
      BY <3>2, ObserveReplaces
    <3> QED BY <3>1, <3>3, OthersReport
  <2>4. ASSUME NEW s \in previous[v], Forget(v, s) PROVE Reported(w)' = Reported(w)
    <3>1. DiscoveryOf[s] = v
      BY <1>1 DEF Vouching
    <3> QED BY <2>4, <3>1, RemovalTakes DEF Forget, Reported
  <2> QED BY <2>1, <2>2, <2>3, <2>4 DEF Cycle
<1> QED BY <1>1, <1>2, <1>3, OthersKeep

(* So do mDNS, the transfers, the network and the clock.                   *)
LEMMA VouchingStep ==
    ASSUME Screening, [DiscoveryNext]_all, NEW w \in Workers
    PROVE  Vouching(w)'
<1>1. Vouching(w)
  BY DEF Screening
<1>2. ASSUME NEW v \in Workers, Cycle(v) PROVE Vouching(w)'
  BY <1>2, OwnCycle, OtherCycle
<1>3. ASSUME UNCHANGED prober, Reported(w)' = Reported(w) PROVE Vouching(w)'
  BY <1>1, <1>3, OthersKeep DEF prober
<1>4. CASE MdnsStep
  <2>1. UNCHANGED prober
    BY <1>4 DEF MdnsStep, Resolve, Removed, Purge, Disconnect, SessionLost, Retry,
                Read, Emit, others
  <2>2. ASSUME NEW id \in Ids, NEW key \in Keys, NEW at \in (SUBSET Addrs) \ {{}},
               Resolve(id, key, at)
        PROVE  Reported(w)' = Reported(w)
    <3>1. DiscoveryOf[Advertised[id]] = Mdns /\ Mdns # w
      BY <2>2, DiscoveryAssumption DEF Resolve
    <3>2. Observe(id, key, Advertised[id], at, clock)
      BY <2>2 DEF Resolve
    <3>3. /\ \A o \in obs' : o \in obs \/ o.source = Advertised[id]
          /\ \A o \in obs : o \in obs' \/ o.source = Advertised[id]
      BY <3>2, ObserveReplaces
    <3> QED BY <3>1, <3>3, OthersReport
  <2>3. ASSUME NEW id \in Ids, Removed(id) PROVE Reported(w)' = Reported(w)
    <3>1. DiscoveryOf[Advertised[id]] = Mdns /\ Mdns # w
      BY <2>3, DiscoveryAssumption DEF Removed
    <3> QED BY <2>3, <3>1, RemovalTakes DEF Removed, Reported
  <2>4. ASSUME Purge \/ SessionLost PROVE Reported(w)' = Reported(w)
    <3>1. Mdns # w
      BY DiscoveryAssumption
    <3>2. obs' \subseteq obs /\ \A o \in obs : DiscoveryOf[o.source] # Mdns => o \in obs'
      BY <2>4, DiscoveryTakes DEF Purge, SessionLost
    <3> QED BY <3>1, <3>2 DEF Reported
  <2>5. ASSUME Disconnect \/ Retry \/ Read(Mdns) \/ Emit(Mdns)
        PROVE  Reported(w)' = Reported(w)
    BY <2>5 DEF Disconnect, Retry, Read, Emit, vars, Reported
  <2> QED BY <1>3, <1>4, <2>1, <2>2, <2>3, <2>4, <2>5 DEF MdnsStep
<1>5. ASSUME NEW a \in Addrs, NEW d \in Ids \cup {Nobody}, Moves(a, d) PROVE Vouching(w)'
  BY <1>3, <1>5 DEF Moves, vars, Reported
<1>6. CASE Reports
  BY <1>3, <1>6 DEF Reports, RouteSuccess, RouteFailure, Reported
<1>7. CASE Passes
  BY <1>3, <1>7 DEF Passes, Tick, Reported
<1>8. CASE UNCHANGED all
  BY <1>3, <1>8 DEF all, vars, Reported
<1> QED BY <1>2, <1>4, <1>5, <1>6, <1>7, <1>8 DEF DiscoveryNext

-----------------------------------------------------------------------------
(* A step that changes the registry leaves something due, or the list has  *)
(* the same devices.                                                       *)
LEMMA ChangesAreNoted ==
    ASSUME Telling, UNCHANGED screen, due \subseteq due',
           due' # {} \/ DOMAIN peers' = DOMAIN peers
    PROVE  Telling'
BY DEF Telling, screen

LEMMA NotedIsDue ==
    ASSUME NEW t, Noted(t)
    PROVE  due \subseteq due' /\ (due' # {} \/ DOMAIN peers' = DOMAIN peers)
BY DEF Noted, Visible

LEMMA ReadKeeps ==
    ASSUME Tables, Telling, DOMAIN peers \subseteq Ids, NEW t \in Threads, Read(t)
    PROVE  Telling'
<1> USE DEF Tables
<1>1. /\ letter' = [letter EXCEPT ![t] = DOMAIN peers]
      /\ alone' = \A u \in Threads : letter[u] = Nobody
      /\ UNCHANGED peers
  BY DEF Read, vars
<1>2. DOMAIN peers # Nobody
  BY DiscoveryAssumption
<1>3. letter'[t] = DOMAIN peers /\ \A u \in Threads : u # t => letter'[u] = letter[u]
  BY <1>1
<1>4. alone' => \A u \in Threads : u # t => letter'[u] = Nobody
  BY <1>1, <1>3
<1>5. alone' => \A u, v \in Threads : letter'[u] # Nobody /\ letter'[v] # Nobody => u = v
  BY <1>4
<1>6. alone' => \A u \in Threads : letter'[u] # Nobody => letter'[u] = DOMAIN peers
  BY <1>3, <1>4
<1>7. ~ \A u \in Threads : letter'[u] = Nobody
  BY <1>2, <1>3
<1> QED BY <1>1, <1>5, <1>6, <1>7 DEF Telling

LEMMA EmitKeeps ==
    ASSUME Tables, Telling, NEW t \in Threads, Emit(t)
    PROVE  Telling'
<1> USE DEF Tables
<1>1. /\ letter[t] # Nobody /\ shown' = letter[t]
      /\ letter' = [letter EXCEPT ![t] = Nobody]
      /\ UNCHANGED <<peers, alone, due>>
  BY DEF Emit, vars
<1>2. letter'[t] = Nobody /\ \A u \in Threads : u # t => letter'[u] = letter[u]
  BY <1>1
<1>3. alone' => \A u \in Threads : letter'[u] = Nobody
  BY <1>1, <1>2 DEF Telling
<1>4. alone' /\ due' = {} => shown' = DOMAIN peers'
  BY <1>1 DEF Telling
<1> QED BY <1>3, <1>4 DEF Telling

(* Every step keeps the lists under way and what is due to be told.        *)
LEMMA TellingStep ==
    ASSUME Screening, DOMAIN peers \subseteq Ids, [DiscoveryNext]_all
    PROVE  Telling'
<1>1. Telling /\ Tables
  BY DEF Screening
<1>2. ASSUME UNCHANGED <<letter, shown, alone>>, UNCHANGED due, DOMAIN peers' = DOMAIN peers
      PROVE  Telling'
  BY <1>1, <1>2 DEF Telling
<1>3. ASSUME NEW t, UNCHANGED screen, Noted(t) PROVE Telling'
  BY <1>1, <1>3, NotedIsDue, ChangesAreNoted
<1>4. ASSUME NEW w \in Workers, Cycle(w) PROVE Telling'
  <2>1. CASE Poll(w) \/ Leave(w) \/ EndCycle(w)
    BY <1>2, <2>1 DEF Poll, Leave, EndCycle, screen, vars
  <2>2. ASSUME NEW c \in todo[w], Probe(w, c) PROVE Telling'
    BY <1>2, <2>2 DEF Probe, screen, vars
  <2>3. CASE Name(w)
    <3>1. DOMAIN peers' = DOMAIN peers
      BY <2>3 DEF Name, Authenticate
    <3> QED BY <1>2, <2>3, <3>1 DEF Name, screen
  <2>4. ASSUME NEW x \in won[w], Apply(w, x) PROVE Telling'
    BY <1>3, <2>4 DEF Apply
  <2>5. ASSUME NEW s \in previous[w], Forget(w, s) PROVE Telling'
    BY <1>3, <2>5 DEF Forget
  <2>6. w \in Threads
    BY DEF Threads
  <2>7. CASE Read(w) \/ Emit(w)
    BY <1>1, <2>6, <2>7, ReadKeeps, EmitKeeps
  <2> QED BY <1>4, <2>1, <2>2, <2>3, <2>4, <2>5, <2>7 DEF Cycle
<1>5. CASE MdnsStep
  <2>1. ASSUME NEW id \in Ids, NEW key \in Keys, NEW at \in (SUBSET Addrs) \ {{}},
               Resolve(id, key, at)
        PROVE  Telling'
    BY <1>3, <2>1 DEF Resolve, others
  <2>2. ASSUME NEW id \in Ids, Removed(id) PROVE Telling'
    BY <1>3, <2>2 DEF Removed, others
  <2>3. CASE Purge
    BY <1>3, <2>3 DEF Purge, others
  <2>4. CASE Disconnect
    BY <1>2, <2>4 DEF Disconnect, others, screen, vars
  <2>5. CASE SessionLost \/ Retry
    <3>1. UNCHANGED screen /\ due \subseteq due' /\ due' # {}
      BY <2>5 DEF SessionLost, Retry, others
    <3> QED BY <1>1, <3>1, ChangesAreNoted
  <2>6. Mdns \in Threads
    BY DEF Threads
  <2>7. CASE Read(Mdns) \/ Emit(Mdns)
    BY <1>1, <2>6, <2>7, ReadKeeps, EmitKeeps
  <2> QED BY <1>5, <2>1, <2>2, <2>3, <2>4, <2>5, <2>7 DEF MdnsStep
<1>6. ASSUME NEW a \in Addrs, NEW d \in Ids \cup {Nobody}, Moves(a, d) PROVE Telling'
  BY <1>2, <1>6 DEF Moves, screen, vars
<1>7. CASE Reports
  <2>1. UNCHANGED peers
    BY <1>7 DEF Reports, RouteSuccess, RouteFailure
  <2> QED BY <1>2, <1>7, <2>1 DEF Reports, screen
<1>8. CASE Passes
  BY <1>2, <1>8 DEF Passes, Tick, screen
<1>9. CASE UNCHANGED all
  BY <1>2, <1>9 DEF all, screen, vars
<1> QED BY <1>4, <1>5, <1>6, <1>7, <1>8, <1>9 DEF DiscoveryNext

(* The tables keep their domains.                                          *)
LEMMA TablesStep == Tables /\ [DiscoveryNext]_all => Tables'
<1> SUFFICES ASSUME Tables, [DiscoveryNext]_all PROVE Tables'
  OBVIOUS
<1> USE DEF Tables
<1>1. ASSUME NEW w \in Workers, Cycle(w) PROVE Tables'
  BY <1>1 DEF Cycle, Poll, Probe, Apply, Name, Leave, Forget, EndCycle, Read, Emit,
              prober, screen
<1>2. CASE MdnsStep
  BY <1>2 DEF MdnsStep, Resolve, Removed, Purge, Disconnect, SessionLost, Retry, Read,
              Emit, others, prober, screen
<1>3. ASSUME NEW a \in Addrs, NEW d \in Ids \cup {Nobody}, Moves(a, d) PROVE Tables'
  BY <1>3 DEF Moves, prober, screen
<1>4. CASE Reports \/ Passes \/ UNCHANGED all
  BY <1>4 DEF Reports, Passes, all, prober, screen
<1> QED BY <1>1, <1>2, <1>3, <1>4 DEF DiscoveryNext

(* The invariant of the workers and of what they tell the interface.       *)
THEOREM Screened == DiscoverySpec => []Screening
<1>1. DiscoveryInit => Screening
  <2> SUFFICES ASSUME DiscoveryInit PROVE Screening
    OBVIOUS
  <2>1. Tables /\ obs = {} /\ DOMAIN peers = {}
    BY DEF DiscoveryInit, Init, Tables
  <2>2. Telling
    BY <2>1 DEF DiscoveryInit, Telling
  <2>3. ASSUME NEW w \in Workers PROVE Vouching(w)
    BY <2>1, <2>3 DEF DiscoveryInit, Vouching, Reported
  <2> QED BY <2>1, <2>2, <2>3, TypedInit DEF Screening
<1>2. TypeOK /\ Screening /\ [DiscoveryNext]_all => Screening'
  <2> SUFFICES ASSUME TypeOK, Screening, [DiscoveryNext]_all PROVE Screening'
    OBVIOUS
  <2>1. Typed' /\ Tables'
    BY TypedStep, TablesStep DEF Screening
  <2>2. Telling'
    BY TellingStep DEF TypeOK
  <2>3. \A w \in Workers : Vouching(w)'
    BY VouchingStep
  <2> QED BY <2>1, <2>2, <2>3 DEF Screening
<1> QED BY <1>1, <1>2, DiscoveryUsesRegistry, TypesHold, PTL DEF DiscoverySpec

(* After each cycle a worker, of any kind, vouches for all who proved      *)
(* their key to it in that cycle and at no source where nobody did; where  *)
(* it expects one device, for nobody else.                                 *)
THEOREM OnlyAnswersAreKept == DiscoverySpec => []OnlyWhoAnswered
<1>1. Screening => OnlyWhoAnswered
  <2> SUFFICES ASSUME Screening, NEW w \in Workers, stage[w] = "idle"
               PROVE  /\ \A x \in answered[w] : \E o \in Reported(w) : x = <<o.source, o.id>>
                      /\ \A o \in Reported(w) : \E x \in answered[w] :
                           x[1] = o.source /\ (x[2] = o.id \/ TakesAnyone(w, o.source))
    BY DEF OnlyWhoAnswered
  <2>1. Vouching(w)
    BY DEF Screening
  <2>2. ASSUME NEW o \in Reported(w), NEW x \in answered[w], x[1] = o.source
        PROVE  x[2] = o.id \/ TakesAnyone(w, o.source)
    <3>1. Awaits(w, o.source, o.id) /\ Awaits(w, o.source, x[2])
      BY <2>1, <2>2 DEF Vouching
    <3>2. PICK c \in Candidates[w] : c.source = o.source /\ c.expects \in {Anyone, o.id}
      BY <3>1 DEF Awaits
    <3>3. PICK d \in Candidates[w] : d.source = o.source /\ d.expects \in {Anyone, x[2]}
      BY <3>1 DEF Awaits
    <3>4. c.expects = d.expects
      BY <3>2, <3>3, DiscoveryAssumption
    <3> QED BY <3>2, <3>3, <3>4 DEF TakesAnyone
  <2>3. \A o \in Reported(w) : \E x \in answered[w] : x[1] = o.source
    BY <2>1 DEF Vouching
  <2>4. \A x \in answered[w] : \E o \in Reported(w) : x = <<o.source, o.id>>
    BY <2>1 DEF Vouching
  <2> QED BY <2>2, <2>3, <2>4
<1> QED BY <1>1, Screened, PTL

(* The interface shows the registry's list once every thread has told what *)
(* it had to, unless two had read the list at once.                        *)
THEOREM InterfaceIsCurrent == DiscoverySpec => []ShownIsCurrent
<1>1. Screening => ShownIsCurrent
  BY DEF Screening, Telling, ShownIsCurrent
<1> QED BY <1>1, Screened, PTL
=============================================================================
