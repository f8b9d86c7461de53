-------------------------- MODULE TrustStoreProofs --------------------------
(***************************************************************************)
(* Theorems about TrustStore for any devices, keys, routes and folders,    *)
(* any length of the list and any number of operations that overlap.       *)
(***************************************************************************)
EXTENDS TrustStore, FiniteSetTheorems, SequenceTheorems, WellFoundedInduction,
        TLAPS

-----------------------------------------------------------------------------
(* Lists, their filters and their sorting.                                 *)

(* Every nonempty set of natural numbers has a least element.              *)
LEMMA LeastExists ==
    ASSUME NEW S, S \subseteq Nat, S # {}
    PROVE  \E x \in S : \A y \in S : x <= y
<1> DEFINE less == {p \in Nat \X Nat : p[1] < p[2]}
<1>1. IsWellFoundedOn(less, Nat)
  BY NatLessThanWellFounded DEF OpToRel
<1>2. \A x, y \in Nat : <<y, x>> \in less <=> y < x
  OBVIOUS
<1> HIDE DEF less
<1>3. PICK x \in S : \A y \in S : <<y, x>> \notin less
  <2>1. \E x \in S : \A y \in S : ~(<<y, x>> \in less)
    BY <1>1, WFMin
  <2> QED BY <2>1
<1>4. \A y \in S : ~(y < x) /\ x \in Nat /\ y \in Nat
  BY <1>2, <1>3
<1>5. \A y \in S : x <= y
  BY <1>4
<1> QED BY <1>5

StrictOrder(S, before) ==
    /\ \A x \in S : <<x, x>> \notin before
    /\ \A x, y, z \in S :
         <<x, y>> \in before /\ <<y, z>> \in before => <<x, z>> \in before
    /\ \A x, y \in S : x # y => <<x, y>> \in before \/ <<y, x>> \in before

(* A finite set has a last element in a strict order.                      *)
LEMMA LastExists ==
    ASSUME NEW S, IsFiniteSet(S), S # {}, NEW before, StrictOrder(S, before)
    PROVE  \E m \in S : \A x \in S \ {m} : <<x, m>> \in before
<1> DEFINE HasLast(X) == \E m \in X : \A x \in X \ {m} : <<x, m>> \in before
           bad == {X \in SUBSET S : X # {} /\ ~HasLast(X)}
           sizes == {Cardinality(X) : X \in bad}
<1>1. \A X \in SUBSET S : IsFiniteSet(X) /\ Cardinality(X) \in Nat
  BY FS_Subset, FS_CardinalityType
<1>2. bad = {}
  <2> SUFFICES ASSUME bad # {} PROVE FALSE
    OBVIOUS
  <2>1. sizes \subseteq Nat /\ sizes # {}
    BY <1>1
  <2> HIDE DEF sizes
  <2>2. PICK n \in sizes : \A k \in sizes : n <= k
    BY <2>1, LeastExists
  <2>3. PICK X \in bad : n = Cardinality(X)
    BY <2>2 DEF sizes
  <2>4. PICK x \in X : TRUE
    OBVIOUS
  <2> DEFINE Y == X \ {x}
  <2>5. Cardinality(Y) = n - 1 /\ n \in Nat /\ Y \subseteq S
    BY <1>1, <2>3, FS_RemoveElement
  <2>6. Y \notin bad
    <3>1. Y \in bad => n - 1 \in sizes
      BY <2>5 DEF sizes
    <3> QED BY <2>2, <2>5, <3>1
  <2>7. CASE Y = {}
    BY <2>3, <2>7
  <2>8. CASE Y # {}
    <3>1. PICK m \in Y : \A y \in Y \ {m} : <<y, m>> \in before
      BY <2>5, <2>6, <2>8
    <3>2. CASE <<m, x>> \in before
      <4>1. \A y \in X \ {x} : <<y, x>> \in before
        BY <2>3, <3>1, <3>2 DEF StrictOrder
      <4> QED BY <2>3, <4>1
    <3>3. CASE <<x, m>> \in before
      <4>1. \A y \in X \ {m} : <<y, m>> \in before
        BY <3>1, <3>3
      <4> QED BY <2>3, <3>1, <4>1
    <3> QED BY <2>3, <3>1, <3>2, <3>3 DEF StrictOrder
  <2> QED BY <2>7, <2>8
<1> QED BY <1>2

Enumerates(p, S, before) ==
    /\ p \in [1..Cardinality(S) -> S]
    /\ \A i, j \in 1..Cardinality(S) : i < j => <<p[i], p[j]>> \in before
    /\ \A x \in S : \E i \in 1..Cardinality(S) : p[i] = x

(* The elements of a finite set can be put in a strict order.              *)
LEMMA EnumerationExists ==
    ASSUME NEW S, IsFiniteSet(S), NEW before, StrictOrder(S, before)
    PROVE  \E p : Enumerates(p, S, before)
<1> DEFINE bad == {X \in SUBSET S : ~\E p : Enumerates(p, X, before)}
           sizes == {Cardinality(X) : X \in bad}
<1>1. \A X \in SUBSET S : IsFiniteSet(X) /\ Cardinality(X) \in Nat
  BY FS_Subset, FS_CardinalityType
<1>2. bad = {}
  <2> SUFFICES ASSUME bad # {} PROVE FALSE
    OBVIOUS
  <2>1. sizes \subseteq Nat /\ sizes # {}
    BY <1>1
  <2> HIDE DEF sizes
  <2>2. PICK n \in sizes : \A k \in sizes : n <= k
    BY <2>1, LeastExists
  <2>3. PICK X \in bad : n = Cardinality(X)
    BY <2>2 DEF sizes
  <2>4. CASE X = {}
    <3>1. Cardinality(X) = 0
      BY <2>4, FS_EmptySet
    <3>2. Enumerates([i \in 1..0 |-> i], X, before)
      BY <2>4, <3>1 DEF Enumerates
    <3> QED BY <2>3, <3>2
  <2>5. CASE X # {}
    <3>1. StrictOrder(X, before) /\ IsFiniteSet(X)
      BY <1>1, <2>3 DEF StrictOrder
    <3>2. PICK m \in X : \A x \in X \ {m} : <<x, m>> \in before
      BY <2>5, <3>1, LastExists
    <3> DEFINE Y == X \ {m}
    <3>3. Cardinality(Y) = n - 1 /\ n \in Nat /\ Y \subseteq S /\ n - 1 \in Nat
      BY <1>1, <2>3, <3>1, FS_RemoveElement
    <3>4. Y \notin bad
      BY <2>1, <2>2, <3>3 DEF sizes
    <3>5. PICK p : Enumerates(p, Y, before)
      BY <3>3, <3>4
    <3> DEFINE q == [i \in 1..n |-> IF i = n THEN m ELSE p[i]]
    <3>6. \A i \in 1..n : i # n => i \in 1..(n - 1)
      BY <3>3
    <3>7. n \in 1..n /\ 1..(n - 1) \subseteq 1..n /\ n \notin 1..(n - 1)
      BY <3>3
    <3>8. p \in [1..(n - 1) -> Y] /\ \A x \in Y : \E i \in 1..(n - 1) : p[i] = x
      BY <3>3, <3>5 DEF Enumerates
    <3>9. q \in [1..n -> X]
      BY <3>6, <3>8
    <3>10. ASSUME NEW x \in X PROVE \E i \in 1..n : q[i] = x
      BY <3>7, <3>8
    <3>11. ASSUME NEW i \in 1..n, NEW j \in 1..n, i < j
           PROVE  <<q[i], q[j]>> \in before
      <4>1. i # n /\ i \in 1..(n - 1) /\ p[i] \in Y
        BY <3>3, <3>8, <3>11
      <4>2. CASE j = n
        BY <3>2, <4>1, <4>2
      <4>3. CASE j # n
        BY <3>3, <3>5, <3>6, <3>11, <4>1, <4>3 DEF Enumerates
      <4> QED BY <4>2, <4>3
    <3>12. Enumerates(q, X, before)
      BY <2>3, <3>9, <3>10, <3>11 DEF Enumerates
    <3> QED BY <2>3, <3>12
  <2> QED BY <2>4, <2>5
<1> QED BY <1>2

-----------------------------------------------------------------------------
(* Arranging a list keeps its elements, and those at the places only.      *)
LEMMA Arranging ==
    ASSUME NEW A, NEW peers \in Seq(A), NEW places \in SUBSET DOMAIN peers,
           NEW before, StrictOrder(places, before),
           NEW list, list = Arranged(peers, places, before)
    PROVE  /\ list \in Seq(A) /\ Len(list) = Cardinality(places)
           /\ \A i \in DOMAIN list : \E j \in places : list[i] = peers[j]
           /\ \A j \in places : \E i \in DOMAIN list : list[i] = peers[j]
<1> DEFINE n == Cardinality(places)
           order == CHOOSE p \in [1..n -> places] :
                      /\ \A i, j \in 1..n : i < j => <<p[i], p[j]>> \in before
                      /\ \A x \in places : \E i \in 1..n : p[i] = x
<1>1. IsFiniteSet(places) /\ n \in Nat
  <2>1. DOMAIN peers = 1..Len(peers) /\ Len(peers) \in Nat
    OBVIOUS
  <2>2. IsFiniteSet(DOMAIN peers)
    BY <2>1, FS_Interval
  <2> QED BY <2>2, FS_Subset, FS_CardinalityType
<1>2. PICK p : Enumerates(p, places, before)
  BY <1>1, EnumerationExists
<1>3. order \in [1..n -> places] /\ \A x \in places : \E i \in 1..n : order[i] = x
  BY <1>2 DEF Enumerates
<1>4. list = [i \in 1..n |-> peers[order[i]]]
  BY DEF Arranged
<1> HIDE DEF order
<1>5. \A j \in DOMAIN peers : peers[j] \in A
  OBVIOUS
<1>6. list \in Seq(A) /\ Len(list) = n /\ DOMAIN list = 1..n
  <2>1. list \in [1..n -> A]
    BY <1>3, <1>4, <1>5
  <2> QED BY <1>1, <2>1
<1> HIDE DEF n
<1>7. \A i \in 1..n : list[i] = peers[order[i]] /\ order[i] \in places
  BY <1>3, <1>4
<1>8. \A j \in places : \E i \in 1..n : list[i] = peers[j]
  BY <1>3, <1>7
<1> QED BY <1>6, <1>7, <1>8 DEF n

LEMMA IntervalSize ==
    ASSUME NEW n \in Nat
    PROVE  IsFiniteSet(1..n) /\ Cardinality(1..n) = n
<1>1. /\ IsFiniteSet(1..n)
      /\ Cardinality(1..n) = IF 1 > n THEN 0 ELSE n - 1 + 1
  BY FS_Interval
<1> QED BY <1>1

(* Only(peers, places) holds the elements at those places.                 *)
LEMMA Filtering ==
    ASSUME NEW A, NEW peers \in Seq(A), NEW places \in SUBSET DOMAIN peers,
           NEW list, list = Only(peers, places)
    PROVE  /\ list \in Seq(A) /\ Len(list) <= Len(peers)
           /\ \A i \in DOMAIN list : \E j \in places : list[i] = peers[j]
           /\ \A j \in places : \E i \in DOMAIN list : list[i] = peers[j]
<1> DEFINE before == {pair \in places \X places : pair[1] < pair[2]}
<1>1. DOMAIN peers = 1..Len(peers) /\ Len(peers) \in Nat
  OBVIOUS
<1>2. \A i, j \in places : <<i, j>> \in before <=> i < j
  OBVIOUS
<1>3. list = Arranged(peers, places, before)
  BY DEF Only
<1> HIDE DEF before
<1>4. StrictOrder(places, before)
  <2>1. \A i \in places : i \in Nat
    BY <1>1
  <2> QED BY <1>2, <2>1 DEF StrictOrder
<1>5. Cardinality(places) <= Len(peers)
  <2>1. IsFiniteSet(1..Len(peers)) /\ Cardinality(1..Len(peers)) = Len(peers)
    BY <1>1, IntervalSize
  <2> QED BY <1>1, <2>1, FS_Subset
<1>6. /\ list \in Seq(A) /\ Len(list) = Cardinality(places)
      /\ \A i \in DOMAIN list : \E j \in places : list[i] = peers[j]
      /\ \A j \in places : \E i \in DOMAIN list : list[i] = peers[j]
  BY <1>3, <1>4, Arranging
<1> QED BY <1>5, <1>6

Peer == [id : Nat, key : Keys \cup {NoKey}, routes : SUBSET Routes,
         trusted : BOOLEAN, at : Nat]

(* The sort neither loses nor makes up a device.                           *)
LEMMA Sorting ==
    ASSUME NEW peers \in Seq(Peer), NEW list, list = Sorted(peers)
    PROVE  /\ list \in Seq(Peer) /\ Len(list) = Len(peers)
           /\ \A i \in DOMAIN list : \E j \in DOMAIN peers : list[i] = peers[j]
           /\ \A j \in DOMAIN peers : \E i \in DOMAIN list : list[i] = peers[j]
<1> DEFINE places == DOMAIN peers
           Ahead(i, j) == \/ Newer(peers[i], peers[j])
                          \/ ~Newer(peers[j], peers[i]) /\ i < j
           before == {pair \in places \X places :
                        LET p == peers[pair[1]]  q == peers[pair[2]]
                        IN Newer(p, q) \/ (~Newer(q, p) /\ pair[1] < pair[2])}
<1>1. places = 1..Len(peers) /\ Len(peers) \in Nat
  OBVIOUS
<1>2. \A i, j \in places : <<i, j>> \in before <=> Ahead(i, j)
  OBVIOUS
<1>3. list = Arranged(peers, places, before)
  BY DEF Sorted
<1> HIDE DEF before
<1>4. \A i \in places : peers[i].at \in Nat /\ peers[i].id \in Nat /\ i \in Nat
  <2>1. \A i \in places : peers[i] \in Peer /\ i \in Nat
    BY <1>1
  <2> QED BY <2>1 DEF Peer
<1> HIDE DEF places
<1>5. StrictOrder(places, before)
  <2>1. \A i \in places : ~Ahead(i, i)
    BY <1>4 DEF Newer
  <2>2. \A i, j \in places : i # j => Ahead(i, j) \/ Ahead(j, i)
    BY <1>4 DEF Newer
  <2>3. ASSUME NEW i \in places, NEW j \in places, NEW k \in places,
               Ahead(i, j), Ahead(j, k)
        PROVE  Ahead(i, k)
    <3>1. PICK a \in Nat, b \in Nat, c \in Nat, x \in Nat, y \in Nat, z \in Nat :
            /\ a = peers[i].at /\ b = peers[j].at /\ c = peers[k].at
            /\ x = peers[i].id /\ y = peers[j].id /\ z = peers[k].id
      BY <1>4
    <3>2. PICK l \in Nat, m \in Nat, n \in Nat : l = i /\ m = j /\ n = k
      BY <1>4
    <3>3. a > b \/ (a = b /\ x < y) \/ (a = b /\ x = y /\ l < m)
      BY <2>3, <3>1, <3>2 DEF Newer
    <3>4. b > c \/ (b = c /\ y < z) \/ (b = c /\ y = z /\ m < n)
      BY <2>3, <3>1, <3>2 DEF Newer
    <3>5. a > c \/ (a = c /\ x < z) \/ (a = c /\ x = z /\ l < n)
      BY <3>3, <3>4
    <3> QED BY <3>1, <3>2, <3>5 DEF Newer
  <2> QED BY <1>2, <2>1, <2>2, <2>3 DEF StrictOrder
<1>6. Cardinality(places) = Len(peers)
  BY <1>1, IntervalSize DEF places
<1> QED BY <1>3, <1>5, <1>6, Arranging DEF places

-----------------------------------------------------------------------------
(* What the operations make of a list.                                     *)

(* A key is always presented with the same device identifier.              *)
KeyNamesDevice == \A v, w \in Identities : v.key = w.key => v.id = w.id

(* Who is trusted was confirmed, under the identifier it came with.        *)
Sound(peers, keys) ==
    /\ peers \in Seq(Peer)
    /\ \A i \in DOMAIN peers : peers[i].key # NoKey =>
         \E w \in Identities : w.id = peers[i].id /\ w.key = peers[i].key
    /\ TrustedKeys(peers) \subseteq keys \ {NoKey}
    /\ KeyNamesDevice => OneKeyPerDevice(peers)

(* Everything trusted in one list is trusted in another, as that device.   *)
Inherits(list, peers) ==
    \A i \in DOMAIN list : list[i].trusted =>
        \E j \in DOMAIN peers :
            /\ peers[j].trusted
            /\ peers[j].id = list[i].id /\ peers[j].key = list[i].key

LEMMA Numbers ==
    /\ \A w \in Identities : w.id \in Nat /\ w.key \in Keys /\ w.key # NoKey
    /\ Keys \subseteq Keys \cup {NoKey} /\ NoKey \notin Keys
    /\ MaxPeers \in Nat \ {0} /\ MaxClock \in Nat /\ Ui \notin Tasks
    /\ Nothing \notin Callers /\ Nothing \notin Destinations
BY StoreAssumption DEF Ids, Keys

LEMMA InheritedIsSound ==
    ASSUME NEW list, NEW peers, NEW keys, Sound(peers, keys), list \in Seq(Peer),
           KeyNamesDevice => Inherits(list, peers),
           TrustedKeys(list) \subseteq TrustedKeys(peers),
           \A i \in DOMAIN list : list[i].key # NoKey =>
              \E w \in Identities : w.id = list[i].id /\ w.key = list[i].key
    PROVE  Sound(list, keys)
BY DEF Sound, Inherits, OneKeyPerDevice

(* SelectInSeq finds an entry that passes the test, if there is one.       *)
LEMMA FirstMatch ==
    ASSUME NEW n \in Nat, NEW S \in SUBSET (1..n), S # {}
    PROVE  Min(S) \in S
<1>1. S \subseteq Nat
  OBVIOUS
<1>2. \E x \in S : \A y \in S : x <= y
  BY <1>1, LeastExists
<1> QED BY <1>2 DEF Min

(* A list that keeps some elements of another keeps them sound.            *)
LEMMA PartIsSound ==
    ASSUME NEW list, NEW peers, NEW keys, Sound(peers, keys), list \in Seq(Peer),
           \A i \in DOMAIN list : \E j \in DOMAIN peers : list[i] = peers[j]
    PROVE  Sound(list, keys) /\ TrustedKeys(list) \subseteq TrustedKeys(peers)
<1>1. Inherits(list, peers) /\ TrustedKeys(list) \subseteq TrustedKeys(peers)
  BY DEF Inherits, TrustedKeys
<1>2. \A i \in DOMAIN list : list[i].key # NoKey =>
        \E w \in Identities : w.id = list[i].id /\ w.key = list[i].key
  BY DEF Sound
<1> QED BY <1>1, <1>2, InheritedIsSound

LEMMA TruncatingKeeps ==
    ASSUME NEW A, NEW peers \in Seq(A), NEW list, list = Truncated(peers)
    PROVE  /\ list \in Seq(A)
           /\ \A i \in DOMAIN list : i \in DOMAIN peers /\ list[i] = peers[i]
           /\ Len(peers) <= MaxPeers => list = peers
<1> DEFINE n == Min({Len(peers), MaxPeers})
<1>1. Len(peers) \in Nat /\ MaxPeers \in Nat
  BY Numbers
<1>3. n \in {Len(peers), MaxPeers} /\ n <= Len(peers) /\ n <= MaxPeers
  <2>1. \E x \in {Len(peers), MaxPeers} : \A y \in {Len(peers), MaxPeers} : x <= y
    BY <1>1
  <2> QED BY <2>1 DEF Min
<1> HIDE DEF n
<1>4. n \in Nat
  BY <1>1, <1>3
<1>5. list = SubSeq(peers, 1, n) /\ list = [i \in 1..n |-> peers[i]]
  BY <1>1, <1>4 DEF Truncated, n
<1>6. \A i \in 1..n : i \in 1..Len(peers) /\ peers[i] \in A
  BY <1>1, <1>3, <1>4
<1>7. list \in Seq(A) /\ DOMAIN list = 1..n
  BY <1>4, <1>5, <1>6
<1>8. Len(peers) <= MaxPeers => n = Len(peers)
  BY <1>1, <1>3
<1> QED BY <1>1, <1>5, <1>6, <1>7, <1>8

(* The keys a device may come with.                                        *)
KeysOf(id) == {other.key : other \in {w \in Identities : w.id = id}}

(* trust_peer: the key gains trust, and of the others only keys of the same *)
(* device lose it.                                                         *)
LEMMA Trusting ==
    ASSUME NEW peers, NEW keys, Sound(peers, keys), NEW who \in Identities,
           NEW now \in Nat, NEW list, list = AfterTrust(peers, who, now)
    PROVE  /\ Sound(list, keys \cup {who.key})
           /\ who.key \in TrustedKeys(list)
           /\ TrustedKeys(list) \subseteq TrustedKeys(peers) \cup {who.key}
           /\ TrustedKeys(peers) \ KeysOf(who.id) \subseteq TrustedKeys(list)
<1> DEFINE demoted == [i \in DOMAIN peers |-> Demoted(peers[i], who)]
           found == {i \in 1..Len(demoted) : demoted[i].key = who.key}
           k == IF found # {} THEN Min(found) ELSE 0
           new == [id |-> who.id, key |-> who.key, routes |-> {},
                   trusted |-> TRUE, at |-> now]
           Other(peer) == peer.id = who.id /\ peer.key # who.key
<1>1. peers \in Seq(Peer) /\ Len(peers) \in Nat /\ DOMAIN peers = 1..Len(peers)
  BY DEF Sound
<1>2. \A i \in DOMAIN peers :
        /\ demoted[i] \in Peer
        /\ demoted[i].id = peers[i].id /\ demoted[i].key = peers[i].key
        /\ demoted[i].trusted <=> peers[i].trusted /\ ~Other(peers[i])
  <2> SUFFICES ASSUME NEW i \in DOMAIN peers
      PROVE  /\ Demoted(peers[i], who) \in Peer
             /\ Demoted(peers[i], who).id = peers[i].id
             /\ Demoted(peers[i], who).key = peers[i].key
             /\ Demoted(peers[i], who).trusted
                  <=> peers[i].trusted /\ ~Other(peers[i])
    OBVIOUS
  <2>1. peers[i] \in Peer
    BY <1>1
  <2>2. CASE Other(peers[i])
    BY <2>1, <2>2 DEF Demoted, Peer
  <2>3. CASE ~Other(peers[i])
    BY <2>1, <2>3 DEF Demoted
  <2> QED BY <2>2, <2>3
<1>3. demoted \in Seq(Peer) /\ Len(demoted) = Len(peers) /\ DOMAIN demoted = DOMAIN peers
  <2>1. demoted \in [1..Len(peers) -> Peer]
    BY <1>1, <1>2
  <2> QED BY <1>1, <2>1
<1>4. new \in Peer
  BY Numbers DEF Peer
<1>5. list = IF k = 0 THEN Append(demoted, new)
             ELSE [demoted EXCEPT ![k] =
                     [@ EXCEPT !.id = who.id, !.trusted = TRUE, !.at = now]]
  BY DEF AfterTrust, SelectInSeq
<1>6. IF found # {} THEN k \in DOMAIN peers /\ peers[k].key = who.key /\ k # 0
                    ELSE k = 0
  <2>1. CASE found # {}
    <3>1. Min(found) \in found
      BY <1>1, <1>3, <2>1, FirstMatch
    <3> QED BY <1>1, <1>2, <1>3, <2>1, <3>1
  <2> QED BY <2>1
<1> HIDE DEF demoted, k, new, Other
<1>7. /\ list \in Seq(Peer)
      /\ \E i \in DOMAIN list :
           list[i].trusted /\ list[i].id = who.id /\ list[i].key = who.key
      /\ \A i \in DOMAIN list :
           \/ list[i].id = who.id /\ list[i].key = who.key
           \/ /\ i \in DOMAIN peers
              /\ list[i].id = peers[i].id /\ list[i].key = peers[i].key
              /\ list[i].trusted => peers[i].trusted /\ ~Other(peers[i])
      /\ \A j \in DOMAIN peers : peers[j].trusted /\ ~Other(peers[j]) =>
           \E i \in DOMAIN list : list[i].trusted /\ list[i].key = peers[j].key
  <2>1. CASE found # {}
    <3> DEFINE renewed == [demoted[k] EXCEPT !.id = who.id, !.trusted = TRUE, !.at = now]
    <3>1. k \in DOMAIN demoted /\ peers[k].key = who.key /\ demoted[k].key = who.key
      BY <1>2, <1>3, <1>6, <2>1
    <3>2. list = [demoted EXCEPT ![k] = renewed]
      BY <1>5, <1>6, <2>1
    <3>3. /\ renewed \in Peer /\ renewed.trusted
          /\ renewed.id = who.id /\ renewed.key = who.key
      BY <1>2, <1>3, <3>1, Numbers DEF Peer
    <3> HIDE DEF renewed
    <3>4. list \in Seq(Peer) /\ DOMAIN list = DOMAIN peers /\ list[k] = renewed
      BY <1>3, <3>1, <3>2, <3>3
    <3>5. \A i \in DOMAIN peers : i # k => list[i] = demoted[i]
      BY <1>3, <3>2
    <3> QED BY <1>2, <1>3, <3>1, <3>3, <3>4, <3>5
  <2>2. CASE found = {}
    <3>1. list = Append(demoted, new)
      BY <1>5, <1>6, <2>2
    <3>2. /\ list \in Seq(Peer) /\ DOMAIN list = 1..(Len(peers) + 1)
          /\ list[Len(peers) + 1] = new
          /\ \A i \in DOMAIN peers : i \in DOMAIN list /\ list[i] = demoted[i]
      BY <1>1, <1>3, <1>4, <3>1
    <3>3. new.trusted /\ new.id = who.id /\ new.key = who.key
      BY DEF new
    <3>4. \A i \in DOMAIN list : i \in DOMAIN peers \/ i = Len(peers) + 1
      BY <1>1, <3>2
    <3>5. Len(peers) + 1 \in DOMAIN list
      BY <1>1, <3>2
    <3> QED BY <1>2, <3>2, <3>3, <3>4, <3>5
  <2> QED BY <2>1, <2>2
<1> USE DEF Other
<1>8. /\ who.key \in TrustedKeys(list)
      /\ TrustedKeys(list) \subseteq TrustedKeys(peers) \cup {who.key}
  BY <1>7 DEF TrustedKeys
<1>9. ASSUME NEW x \in TrustedKeys(peers)
      PROVE  x \in TrustedKeys(list) \/ x \in KeysOf(who.id)
  <2>1. PICK j \in DOMAIN peers : peers[j].trusted /\ peers[j].key = x
    BY DEF TrustedKeys
  <2>2. x # NoKey
    BY DEF Sound
  <2>3. CASE Other(peers[j])
    BY <2>1, <2>2, <2>3 DEF Sound, KeysOf
  <2>4. CASE ~Other(peers[j])
    BY <1>7, <2>1, <2>4 DEF TrustedKeys
  <2> QED BY <2>3, <2>4
<1>10. Sound(list, keys \cup {who.key})
  <2>1. \A i \in DOMAIN list : list[i].key # NoKey =>
          \E w \in Identities : w.id = list[i].id /\ w.key = list[i].key
    BY <1>7 DEF Sound
  <2>2. TrustedKeys(list) \subseteq (keys \cup {who.key}) \ {NoKey}
    BY <1>8, Numbers DEF Sound
  <2>3. KeyNamesDevice => OneKeyPerDevice(list)
    BY <1>7 DEF Sound, OneKeyPerDevice
  <2> QED BY <1>7, <2>1, <2>2, <2>3 DEF Sound
<1> QED BY <1>8, <1>9, <1>10

(* forget_trusted_device: the key loses its trust, nobody else does.       *)
LEMMA Forgetting ==
    ASSUME NEW peers, NEW keys, Sound(peers, keys), NEW key,
           NEW list, list = AfterForget(peers, key)
    PROVE  /\ Sound(list, keys)
           /\ TrustedKeys(list) = TrustedKeys(peers) \ {key}
<1> DEFINE places == {i \in DOMAIN peers : peers[i].key # key}
<1>1. peers \in Seq(Peer)
  BY DEF Sound
<1>2. list = Only(peers, places) /\ places \in SUBSET DOMAIN peers
  BY DEF AfterForget
<1> HIDE DEF places
<1>3. /\ list \in Seq(Peer)
      /\ \A i \in DOMAIN list : \E j \in places : list[i] = peers[j]
      /\ \A j \in places : \E i \in DOMAIN list : list[i] = peers[j]
  BY <1>1, <1>2, Filtering
<1>4. Sound(list, keys) /\ TrustedKeys(list) \subseteq TrustedKeys(peers)
  BY <1>2, <1>3, PartIsSound
<1>5. key \notin TrustedKeys(list)
  BY <1>3 DEF TrustedKeys, places
<1>6. TrustedKeys(peers) \ {key} \subseteq TrustedKeys(list)
  BY <1>3 DEF TrustedKeys, places
<1> QED BY <1>4, <1>5, <1>6

(* remember_peer grants no trust; with room in the list it takes none.     *)
LEMMA Remembering ==
    ASSUME NEW peers, NEW keys, Sound(peers, keys), NEW who \in Identities,
           NEW route \in Routes, NEW now \in Nat,
           NEW list, list = AfterRemember(peers, who, route, now)
    PROVE  /\ Sound(list, keys)
           /\ TrustedKeys(list) \subseteq TrustedKeys(peers)
           /\ Len(peers) < MaxPeers => TrustedKeys(peers) \subseteq TrustedKeys(list)
<1> DEFINE found == {i \in 1..Len(peers) : SameDevice(peers[i], who)}
           k == IF found # {} THEN Min(found) ELSE 0
           new == [id |-> who.id, key |-> who.key, routes |-> {route},
                   trusted |-> FALSE, at |-> now]
           all == Append(peers, new)
           known == [id |-> who.id, key |-> who.key,
                     routes |-> Trimmed(peers[k].routes, route),
                     trusted |-> peers[k].trusted /\ peers[k].key # NoKey,
                     at |-> now]
<1>1. peers \in Seq(Peer) /\ Len(peers) \in Nat /\ DOMAIN peers = 1..Len(peers)
  BY DEF Sound
<1>2. CASE found # {}
  <2>1. Min(found) \in found
    BY <1>1, <1>2, FirstMatch
  <2>2. k \in DOMAIN peers /\ k # 0 /\ SameDevice(peers[k], who)
    BY <1>1, <1>2, <2>1
  <2>3. list = [peers EXCEPT ![k] =
                 [id |-> who.id, key |-> who.key,
                  routes |-> Trimmed(@.routes, route),
                  trusted |-> @.trusted /\ @.key # NoKey, at |-> now]]
    BY <2>2 DEF AfterRemember, EntryOf, SelectInSeq
  <2> HIDE DEF k
  <2>4. list = [peers EXCEPT ![k] = known]
    BY <2>3
  <2>5. known \in Peer
    <3>1. peers[k] \in Peer
      BY <1>1, <2>2
    <3>2. Trimmed(peers[k].routes, route) \in SUBSET Routes
      BY <3>1 DEF Trimmed, Peer
    <3>3. (peers[k].trusted /\ peers[k].key # NoKey) \in BOOLEAN
      BY <3>1 DEF Peer
    <3> QED BY <3>1, <3>2, <3>3, Numbers DEF Peer
  <2>6. /\ known.id = who.id /\ known.key = who.key
        /\ known.trusted <=> peers[k].trusted /\ peers[k].key # NoKey
    OBVIOUS
  <2> HIDE DEF known
  <2>7. /\ list \in Seq(Peer) /\ DOMAIN list = DOMAIN peers /\ list[k] = known
        /\ \A i \in DOMAIN peers : i # k => list[i] = peers[i]
    BY <1>1, <2>2, <2>4, <2>5
  <2>8. peers[k].trusted => peers[k].key = who.key
    BY <2>2 DEF SameDevice, Sound, TrustedKeys
  <2>9. TrustedKeys(list) = TrustedKeys(peers)
    <3>1. \A i \in DOMAIN peers :
            /\ list[i].trusted => peers[i].trusted /\ peers[i].key = list[i].key
            /\ peers[i].trusted => list[i].trusted /\ peers[i].key = list[i].key
      BY <2>2, <2>6, <2>7, <2>8, Numbers
    <3> QED BY <2>7, <3>1 DEF TrustedKeys
  <2>10. KeyNamesDevice => Inherits(list, peers)
    <3> SUFFICES ASSUME KeyNamesDevice, NEW i \in DOMAIN list, list[i].trusted
        PROVE  /\ peers[i].trusted
               /\ peers[i].id = list[i].id /\ peers[i].key = list[i].key
      BY <2>7 DEF Inherits
    <3>1. CASE i = k
      <4>1. peers[k].trusted /\ peers[k].key = who.key /\ who.key # NoKey
        BY <2>6, <2>7, <2>8, <3>1, Numbers
      <4>2. peers[k].id = who.id
        BY <2>2, <4>1 DEF Sound, KeyNamesDevice
      <4> QED BY <2>6, <2>7, <3>1, <4>1, <4>2
    <3>2. CASE i # k
      BY <2>7, <3>2
    <3> QED BY <3>1, <3>2
  <2>11. \A i \in DOMAIN list : list[i].key # NoKey =>
           \E w \in Identities : w.id = list[i].id /\ w.key = list[i].key
    BY <2>6, <2>7 DEF Sound
  <2>12. Sound(list, keys)
    BY <2>7, <2>9, <2>10, <2>11, InheritedIsSound
  <2> QED BY <2>9, <2>12
<1>3. CASE found = {}
  <2>1. list = Truncated(Sorted(all))
    BY <1>3 DEF AfterRemember, EntryOf, SelectInSeq
  <2>2. new \in Peer
    BY Numbers DEF Peer
  <2>3. new.id = who.id /\ new.key = who.key /\ ~new.trusted
    OBVIOUS
  <2> HIDE DEF new
  <2>4. /\ all \in Seq(Peer) /\ DOMAIN all = 1..(Len(peers) + 1)
        /\ Len(all) = Len(peers) + 1
        /\ \A i \in DOMAIN all :
             (i \in DOMAIN peers /\ all[i] = peers[i]) \/ all[i] = new
        /\ \A i \in DOMAIN peers : i \in DOMAIN all /\ all[i] = peers[i]
    BY <1>1, <2>2
  <2> HIDE DEF all
  <2>5. PICK sorted : sorted = Sorted(all)
    OBVIOUS
  <2>6. /\ sorted \in Seq(Peer) /\ Len(sorted) = Len(all)
        /\ \A i \in DOMAIN sorted : \E j \in DOMAIN all : sorted[i] = all[j]
        /\ \A j \in DOMAIN all : \E i \in DOMAIN sorted : sorted[i] = all[j]
    <3>1. all \in Seq(Peer)
      BY <2>4
    <3> QED BY <2>5, <3>1, Sorting
  <2>7. /\ list \in Seq(Peer)
        /\ \A i \in DOMAIN list : i \in DOMAIN sorted /\ list[i] = sorted[i]
        /\ Len(sorted) <= MaxPeers => list = sorted
    BY <2>1, <2>5, <2>6, TruncatingKeeps
  <2>8. \A i \in DOMAIN list :
          list[i] = new \/ \E j \in DOMAIN peers : list[i] = peers[j]
    BY <2>4, <2>6, <2>7
  <2>9. Inherits(list, peers) /\ TrustedKeys(list) \subseteq TrustedKeys(peers)
    BY <2>3, <2>8 DEF Inherits, TrustedKeys
  <2>10. \A i \in DOMAIN list : list[i].key # NoKey =>
           \E w \in Identities : w.id = list[i].id /\ w.key = list[i].key
    BY <2>3, <2>8 DEF Sound
  <2>11. Sound(list, keys)
    BY <2>7, <2>9, <2>10, InheritedIsSound
  <2>12. ASSUME Len(peers) < MaxPeers PROVE TrustedKeys(peers) \subseteq TrustedKeys(list)
    <3>1. list = sorted
      BY <1>1, <2>4, <2>6, <2>7, <2>12, Numbers
    <3>2. \A j \in DOMAIN peers : \E i \in DOMAIN list : list[i] = peers[j]
      BY <2>4, <2>6, <3>1
    <3> QED BY <3>2 DEF TrustedKeys
  <2> QED BY <2>9, <2>11, <2>12
<1> QED BY <1>2, <1>3

(* load revives no trust that the file does not hold; and all of it unless *)
(* the file holds more devices than may be remembered.                     *)
LEMMA Reviving ==
    ASSUME NEW peers, NEW keys, Sound(peers, keys), NEW list, list = Revived(peers)
    PROVE  /\ Sound(list, keys)
           /\ TrustedKeys(list) \subseteq TrustedKeys(peers)
           /\ Len(peers) <= MaxPeers => TrustedKeys(peers) \subseteq TrustedKeys(list)
<1> DEFINE places == {i \in DOMAIN peers : Sane(peers[i])}
<1>1. peers \in Seq(Peer) /\ Len(peers) \in Nat
  BY DEF Sound
<1>2. PICK only : only = Only(peers, places)
  OBVIOUS
<1>3. places \in SUBSET DOMAIN peers
  OBVIOUS
<1> HIDE DEF places
<1>4. /\ only \in Seq(Peer) /\ Len(only) <= Len(peers)
      /\ \A i \in DOMAIN only : \E j \in places : only[i] = peers[j]
      /\ \A j \in places : \E i \in DOMAIN only : only[i] = peers[j]
  BY <1>1, <1>2, <1>3, Filtering
<1>5. PICK sane : sane = Truncated(only)
  OBVIOUS
<1>6. /\ sane \in Seq(Peer)
      /\ \A i \in DOMAIN sane : i \in DOMAIN only /\ sane[i] = only[i]
      /\ Len(only) <= MaxPeers => sane = only
  BY <1>4, <1>5, TruncatingKeeps
<1> DEFINE alive == {i \in DOMAIN sane : Revivable(sane[i])}
<1>7. alive \in SUBSET DOMAIN sane /\ list = Only(sane, alive)
  BY <1>2, <1>5 DEF Revived, places
<1> HIDE DEF alive
<1>8. /\ list \in Seq(Peer)
      /\ \A i \in DOMAIN list : \E j \in alive : list[i] = sane[j]
      /\ \A j \in alive : \E i \in DOMAIN list : list[i] = sane[j]
  BY <1>6, <1>7, Filtering
<1>9. \A i \in DOMAIN list : \E j \in DOMAIN peers : list[i] = peers[j]
  BY <1>3, <1>4, <1>6, <1>7, <1>8
<1>10. Sound(list, keys) /\ TrustedKeys(list) \subseteq TrustedKeys(peers)
  BY <1>8, <1>9, PartIsSound
<1>11. ASSUME Len(peers) <= MaxPeers PROVE TrustedKeys(peers) \subseteq TrustedKeys(list)
  <2>1. sane = only
    <3>1. Len(only) \in Nat
      BY <1>4
    <3> QED BY <1>1, <1>4, <1>6, <1>11, <3>1, Numbers
  <2>2. ASSUME NEW j \in DOMAIN peers, peers[j].trusted
        PROVE  \E i \in DOMAIN list : list[i] = peers[j]
    <3>1. j \in places
      BY <2>2 DEF Sane, Sound, TrustedKeys, places
    <3>2. PICK i \in DOMAIN only : only[i] = peers[j]
      BY <1>4, <3>1
    <3>3. i \in alive
      BY <2>1, <2>2, <3>2 DEF Revivable, alive
    <3> QED BY <1>8, <2>1, <3>2, <3>3
  <2> QED BY <2>2 DEF TrustedKeys
<1> QED BY <1>10, <1>11

-----------------------------------------------------------------------------
(* Whatever overlaps, every list there is, in memory, in the file, about   *)
(* to be written or kept to be put back, is sound.                         *)
Restores(c) == pc[c] # "idle" /\ op[c].kind \in Restoring

CallersAreTyped ==
    /\ pc \in [Callers -> {"idle", "save", "write", "undo", "apply"}]
    /\ op \in [Callers -> Operations \cup {Nothing}]
    /\ DOMAIN previous = Callers /\ DOMAIN image = Callers
    /\ \A c \in Callers :
         /\ op[c] = Nothing <=> pc[c] = "idle"
         /\ pc[c] # "idle" /\ op[c].kind \in {"forget", "prefs"} => c = Ui
         /\ pc[c] = "undo" => Restores(c)
         /\ pc[c] = "apply" => op[c].kind = "prefs"

ListsAreSound ==
    /\ Sound(remembered, confirmed) /\ Sound(disk.peers, confirmed)
    /\ \A c \in Callers :
         /\ Restores(c) => Sound(previous[c], confirmed)
         /\ pc[c] = "write" => Sound(image[c].peers, confirmed)

Confirmed == clock \in Nat /\ CallersAreTyped /\ ListsAreSound

LEMMA MoreConfirmed ==
    ASSUME NEW peers, NEW keys, NEW more, Sound(peers, keys), keys \subseteq more
    PROVE  Sound(peers, more)
BY DEF Sound

LEMMA InitConfirmed == Init => Confirmed
<1> SUFFICES ASSUME Init PROVE Confirmed
  OBVIOUS
<1>1. Legacy \in Seq(Peer) /\ \A i \in DOMAIN Legacy : Legacy[i].key = NoKey /\ ~Legacy[i].trusted
  <2> DEFINE Old == [id : Nat, key : {NoKey}, routes : SUBSET Routes,
                     trusted : {FALSE}, at : Nat]
  <2>1. Legacy \in Seq(Old)
    BY StoreAssumption
  <2>2. \A peer \in Old : peer \in Peer /\ peer.key = NoKey /\ ~peer.trusted
    BY DEF Peer
  <2> HIDE DEF Old
  <2> QED BY <2>1, <2>2
<1>2. Sound(Legacy, {})
  BY <1>1 DEF Sound, TrustedKeys, OneKeyPerDevice
<1> QED BY <1>2 DEF Init, Confirmed, CallersAreTyped, ListsAreSound, Restores

(* Where a caller that starts or goes on with its operation may be next.   *)
LEMMA StartsTyped ==
    ASSUME Confirmed, NEW c \in Callers, NEW o, Starts(c, o)
    PROVE  clock' \in Nat /\ clock \in Nat /\ op[c] = Nothing /\ pc[c] = "idle"
BY Numbers DEF Confirmed, CallersAreTyped, Starts, Idle

LEMMA TrustConfirmed ==
    ASSUME Confirmed, NEW c \in Tasks, NEW who \in Identities, Trust(c, who)
    PROVE  Confirmed'
<1> USE DEF Confirmed
<1>1. c \in Callers
  BY DEF Callers
<1>2. clock' \in Nat
  BY <1>1, StartsTyped DEF Trust
<1>3. [kind |-> "trust", key |-> who.key] \in Operations
  BY Numbers DEF Operations
<1>4. Sound(remembered', confirmed')
  BY <1>2, Trusting DEF Trust, ListsAreSound
<1>5. confirmed \subseteq confirmed' /\ \A list : Sound(list, confirmed) => Sound(list, confirmed')
  BY MoreConfirmed DEF Trust
<1>6. CallersAreTyped'
  BY <1>1, <1>3, StoreAssumption DEF Trust, To, CallersAreTyped, Restores, Restoring, Callers
<1>7. ListsAreSound'
  BY <1>1, <1>4, <1>5 DEF Trust, To, ListsAreSound, CallersAreTyped, Restores, Restoring
<1> QED BY <1>2, <1>6, <1>7

LEMMA ForgetConfirmed ==
    ASSUME Confirmed, NEW key \in Keys, Forget(key)
    PROVE  Confirmed'
<1> USE DEF Confirmed
<1>1. Ui \in Callers
  BY DEF Callers
<1>2. clock' \in Nat
  BY <1>1, StartsTyped DEF Forget
<1>3. [kind |-> "forget", key |-> key] \in Operations
  BY DEF Operations
<1>4. Sound(remembered', confirmed)
  BY Forgetting DEF Forget, ListsAreSound
<1>5. UNCHANGED <<confirmed, disk>>
  BY DEF Forget
<1>6. CASE remembered' = remembered
  BY <1>1, <1>2, <1>4, <1>5, <1>6
     DEF Forget, callers, CallersAreTyped, ListsAreSound, Restores
<1>7. CASE remembered' # remembered
  <2>1. CallersAreTyped'
    BY <1>1, <1>3, <1>7, StoreAssumption
       DEF Forget, To, CallersAreTyped, Restores, Restoring, Callers
  <2>2. ListsAreSound'
    BY <1>1, <1>4, <1>5, <1>7
       DEF Forget, To, ListsAreSound, CallersAreTyped, Restores, Restoring
  <2> QED BY <1>2, <2>1, <2>2
<1> QED BY <1>6, <1>7

LEMMA RememberConfirmed ==
    ASSUME Confirmed, NEW c \in Tasks, NEW who \in Identities, NEW route \in Routes,
           Remember(c, who, route)
    PROVE  Confirmed'
<1> USE DEF Confirmed
<1>1. c \in Callers /\ c # Ui
  BY Numbers DEF Callers
<1>2. clock' \in Nat
  BY <1>1, StartsTyped DEF Remember
<1>3. [kind |-> "remember", key |-> who.key] \in Operations
  BY Numbers DEF Operations
<1>4. Sound(remembered', confirmed)
  BY <1>2, Remembering DEF Remember, ListsAreSound
<1>5. UNCHANGED <<confirmed, disk>>
  BY DEF Remember
<1>6. CASE UNCHANGED callers
  BY <1>1, <1>2, <1>4, <1>5, <1>6
     DEF callers, CallersAreTyped, ListsAreSound, Restores
<1>7. CASE /\ op' = [op EXCEPT ![c] = [kind |-> "remember", key |-> who.key]]
           /\ To(c, "save") /\ UNCHANGED <<previous, image>>
  <2>1. CallersAreTyped'
    BY <1>1, <1>3, <1>7, StoreAssumption
       DEF To, CallersAreTyped, Restores, Restoring, Callers
  <2>2. ListsAreSound'
    BY <1>1, <1>4, <1>5, <1>7
       DEF To, ListsAreSound, CallersAreTyped, Restores, Restoring
  <2> QED BY <1>2, <2>1, <2>2
<1> QED BY <1>6, <1>7 DEF Remember

LEMMA PreferencesConfirmed ==
    ASSUME Confirmed, NEW folder \in Destinations,
           SetPreferences(folder) \/ ApplyPreferences
    PROVE  Confirmed'
<1> USE DEF Confirmed
<1>1. Ui \in Callers
  BY DEF Callers
<1>2. CASE SetPreferences(folder)
  <2>1. clock' \in Nat
    BY <1>1, <1>2, StartsTyped DEF SetPreferences
  <2>2. [kind |-> "prefs", key |-> NoKey] \in Operations
    BY DEF Operations
  <2>3. CallersAreTyped'
    BY <1>1, <1>2, <2>2, StoreAssumption
       DEF SetPreferences, To, CallersAreTyped, Restores, Restoring, Callers
  <2>4. ListsAreSound'
    BY <1>1, <1>2 DEF SetPreferences, To, ListsAreSound, CallersAreTyped,
       Restores, Restoring
  <2> QED BY <2>1, <2>3, <2>4
<1>3. CASE ApplyPreferences
  BY <1>1, <1>3 DEF ApplyPreferences, Done, To, history, ListsAreSound,
     CallersAreTyped, Restores, Restoring
<1> QED BY <1>2, <1>3

LEMMA SavingConfirmed ==
    ASSUME Confirmed, NEW c \in Callers,
           Snapshot(c) \/ Written(c) \/ WriteFails(c) \/ Undo(c)
    PROVE  Confirmed'
<1> USE DEF Confirmed
<1>1. CASE Snapshot(c)
  BY <1>1 DEF Snapshot, store, history, Memory, To, ListsAreSound, CallersAreTyped, Restores
<1>2. CASE Written(c)
  <2>1. CallersAreTyped' /\ clock' = clock
    BY <1>2 DEF Written, Done, To, CallersAreTyped, Restores, Restoring
  <2>2. ListsAreSound'
    BY <1>2 DEF Written, Done, To, ListsAreSound, CallersAreTyped, Restores, Restoring
  <2> QED BY <2>1, <2>2
<1>3. CASE WriteFails(c)
  BY <1>3 DEF WriteFails, store, history, Done, To, ListsAreSound, CallersAreTyped, Restores
<1>4. CASE Undo(c)
  BY <1>4 DEF Undo, Done, To, ListsAreSound, CallersAreTyped, Restores
<1> QED BY <1>1, <1>2, <1>3, <1>4

LEMMA RestartConfirmed ==
    ASSUME Confirmed, NEW missing \in SUBSET Removable, Restart(missing)
    PROVE  Confirmed'
<1> USE DEF Confirmed
<1>1. Sound(remembered', confirmed) /\ UNCHANGED <<clock, confirmed>>
  BY Reviving DEF Restart, ListsAreSound
<1>2. Sound(disk'.peers, confirmed)
  BY <1>1 DEF Restart, ListsAreSound
<1>3. pc' = [c \in Callers |-> "idle"] /\ op' = [c \in Callers |-> Nothing]
  BY DEF Restart
<1>4. DOMAIN previous' = Callers /\ DOMAIN image' = Callers
  BY DEF Restart
<1> QED BY <1>1, <1>2, <1>3, <1>4 DEF CallersAreTyped, ListsAreSound, Restores

LEMMA StepConfirmed == Confirmed /\ [Next]_vars => Confirmed'
<1> SUFFICES ASSUME Confirmed, [Next]_vars PROVE Confirmed'
  OBVIOUS
<1>1. CASE UNCHANGED vars
  BY <1>1 DEF vars, store, callers, history, Confirmed, CallersAreTyped, ListsAreSound, Restores
<1>2. CASE Next
  BY <1>2, TrustConfirmed, ForgetConfirmed, RememberConfirmed, PreferencesConfirmed,
     SavingConfirmed, RestartConfirmed, StoreAssumption DEF Next
<1> QED BY <1>1, <1>2

THEOREM AlwaysConfirmed == Spec => []Confirmed
BY InitConfirmed, StepConfirmed, PTL DEF Spec


(* What is trusted, in memory and in the file, is a key that the user      *)
(* confirmed, under one key for each device: no snapshot that persist      *)
(* writes late and no copy that trust_peer or forget_trusted_device        *)
(* restores gives trust to anybody else.                                   *)
THEOREM TrustIsConfirmed ==
    Spec => [](/\ TrustedKeys(remembered) \cup TrustedKeys(disk.peers) \subseteq confirmed
               /\ NoKey \notin TrustedKeys(remembered)
               /\ KeyNamesDevice => /\ OneKeyPerDevice(remembered)
                                    /\ OneKeyPerDevice(disk.peers))
<1>1. Confirmed =>
        /\ TrustedKeys(remembered) \cup TrustedKeys(disk.peers) \subseteq confirmed
        /\ NoKey \notin TrustedKeys(remembered)
        /\ KeyNamesDevice => OneKeyPerDevice(remembered) /\ OneKeyPerDevice(disk.peers)
  BY DEF Confirmed, ListsAreSound, Sound
<1> QED BY <1>1, AlwaysConfirmed, PTL

(* Only the user grants trust, whatever overlaps: trust_peer and           *)
(* forget_trusted_device put back lists of confirmed keys only, and        *)
(* remember_peer and load hand on no trust to another key.  A key always   *)
(* comes with the same device, or a renamed device would have two.         *)
THEOREM TrustIsGranted ==
    ASSUME KeyNamesDevice
    PROVE  Spec => []TrustOnlyByUser
<1>1. Confirmed => TrustOnlyByUser
  BY DEF Confirmed, ListsAreSound, Sound, TrustOnlyByUser
<1> QED BY <1>1, AlwaysConfirmed, PTL

-----------------------------------------------------------------------------
(* An operation that has the store to itself is the only one.              *)
Alone ==
    /\ sole \in Callers \cup {Nothing}
    /\ sole # Nothing => \A c \in Callers : c # sole => pc[c] = "idle"

LEMMA StartsAlone ==
    ASSUME Confirmed, Alone, NEW c \in Callers, NEW o, Starts(c, o)
    PROVE  /\ sole' = IF Quiet THEN c ELSE Nothing
           /\ \A d \in Callers : Quiet => pc[d] = "idle"
BY DEF Starts, Quiet, Idle

LEMMA StepAlone ==
    ASSUME Confirmed, Alone, [Next]_vars
    PROVE  Alone'
<1> USE DEF Confirmed, CallersAreTyped
<1>1. ASSUME NEW c \in Callers, NEW o, Starts(c, o),
             \A d \in Callers : d # c => pc'[d] = pc[d]
      PROVE  Alone'
  BY <1>1, StartsAlone DEF Alone
<1>2. Ui \in Callers /\ Tasks \subseteq Callers
  BY DEF Callers
<1>3. ASSUME NEW c \in Tasks, NEW who \in Identities,
             Trust(c, who) \/ \E route \in Routes : Remember(c, who, route)
      PROVE  Alone'
  BY <1>1, <1>2, <1>3 DEF Trust, Remember, To, callers
<1>4. ASSUME NEW key \in Keys, Forget(key) PROVE Alone'
  BY <1>1, <1>2, <1>4 DEF Forget, To, callers
<1>5. ASSUME NEW folder \in Destinations, SetPreferences(folder) PROVE Alone'
  BY <1>1, <1>2, <1>5 DEF SetPreferences, To
<1>6. ASSUME NEW c \in Callers,
             Snapshot(c) \/ Written(c) \/ WriteFails(c) \/ Undo(c)
      PROVE  Alone'
  <2>1. pc[c] # "idle" /\ sole' = sole
    BY <1>6 DEF Snapshot, Written, WriteFails, Undo, history
  <2>2. \A d \in Callers : d # c => pc'[d] = pc[d]
    BY <1>6 DEF Snapshot, Written, WriteFails, Undo, Done, To
  <2> QED BY <2>1, <2>2 DEF Alone
<1>7. CASE ApplyPreferences
  <2>1. pc[Ui] # "idle" /\ sole' = sole
    BY <1>7 DEF ApplyPreferences, history
  <2>2. \A d \in Callers : d # Ui => pc'[d] = pc[d]
    BY <1>7 DEF ApplyPreferences, Done, To
  <2> QED BY <2>1, <2>2 DEF Alone
<1>8. ASSUME NEW missing \in SUBSET Removable, Restart(missing) PROVE Alone'
  BY <1>8 DEF Restart, Alone
<1>9. CASE UNCHANGED vars
  BY <1>9 DEF vars, callers, history, Alone
<1> QED BY <1>3, <1>4, <1>5, <1>6, <1>7, <1>8, <1>9 DEF Next

Basis == Confirmed /\ Alone

LEMMA InitBasis == Init => Basis
BY InitConfirmed DEF Init, Basis, Alone

LEMMA StepBasis == Basis /\ [Next]_vars => Basis'
BY StepConfirmed, StepAlone DEF Basis

-----------------------------------------------------------------------------
(* No list that there is, or that may come back, trusts what was withdrawn; *)
(* the key of a forget that has the store to itself is gone already.       *)
Removes(c) == sole = c /\ op[c].kind = "forget"

Barring ==
    /\ barred \cap TrustedKeys(remembered) = {}
    /\ barred \cap TrustedKeys(disk.peers) = {}
    /\ \A c \in Callers :
         /\ Restores(c) => barred \cap TrustedKeys(previous[c]) = {}
         /\ pc[c] = "write" => barred \cap TrustedKeys(image[c].peers) = {}
         /\ Removes(c) /\ pc[c] \in {"save", "write"} =>
              op[c].key \notin TrustedKeys(remembered)
         /\ Removes(c) /\ pc[c] = "write" =>
              op[c].key \notin TrustedKeys(image[c].peers)

LEMMA BasisParts ==
    ASSUME Basis
    PROVE  /\ CallersAreTyped /\ Alone
           /\ Sound(remembered, confirmed) /\ Sound(disk.peers, confirmed)
BY DEF Basis, Confirmed, ListsAreSound

LEMMA StartsParts ==
    ASSUME Basis, NEW c \in Callers, NEW o, Starts(c, o)
    PROVE  /\ clock' \in Nat /\ pc[c] = "idle"
           /\ sole' = IF Quiet THEN c ELSE Nothing
           /\ \A d \in Callers : Quiet => pc[d] = "idle"
BY StartsTyped, StartsAlone DEF Basis

(* An operation that starts elsewhere leaves what was said of this caller. *)
LEMMA OthersBarred ==
    ASSUME Basis, Barring, NEW d \in Callers,
           UNCHANGED <<pc[d], op[d], previous[d], image[d]>>,
           barred' \subseteq barred,
           sole' = d => sole = d /\ TrustedKeys(remembered') \subseteq TrustedKeys(remembered)
    PROVE  /\ Restores(d)' => barred' \cap TrustedKeys(previous'[d]) = {}
           /\ pc'[d] = "write" => barred' \cap TrustedKeys(image'[d].peers) = {}
           /\ Removes(d)' /\ pc'[d] \in {"save", "write"} =>
                op'[d].key \notin TrustedKeys(remembered')
           /\ Removes(d)' /\ pc'[d] = "write" =>
                op'[d].key \notin TrustedKeys(image'[d].peers)
BY DEF Barring, Restores, Removes

LEMMA BeginningBarred ==
    ASSUME Basis, Barring,
           \/ \E c \in Tasks, who \in Identities :
                \/ Trust(c, who)
                \/ \E route \in Routes : Remember(c, who, route)
           \/ \E key \in Keys : Forget(key)
           \/ \E folder \in Destinations : SetPreferences(folder)
    PROVE  Barring'
<1>1. /\ CallersAreTyped /\ Alone
      /\ Sound(remembered, confirmed) /\ Sound(disk.peers, confirmed)
  BY BasisParts
<1>2. Ui \in Callers /\ Tasks \subseteq Callers /\ Ui \notin Tasks /\ Nothing \notin Callers
  BY Numbers DEF Callers
<1>3. ASSUME NEW c \in Tasks, NEW who \in Identities, Trust(c, who) PROVE Barring'
  <2>1. /\ clock' \in Nat /\ pc[c] = "idle" /\ sole' \in {c, Nothing}
    BY <1>2, <1>3, StartsParts DEF Trust
  <2>2. /\ remembered' = AfterTrust(remembered, who, clock')
        /\ barred' = barred \ {who.key} /\ UNCHANGED disk
    BY <1>3 DEF Trust
  <2>3. TrustedKeys(remembered') \subseteq TrustedKeys(remembered) \cup {who.key}
    BY <1>1, <2>1, <2>2, Trusting
  <2>4. /\ pc'[c] = "save" /\ op'[c].kind = "trust" /\ previous'[c] = remembered
        /\ \A d \in Callers : d # c =>
             UNCHANGED <<pc[d], op[d], previous[d], image[d]>>
    BY <1>1, <1>2, <1>3 DEF Trust, To, CallersAreTyped
  <2>5. \A d \in Callers : d # c => sole' # d
    BY <1>2, <2>1
  <2> QED BY <2>2, <2>3, <2>4, <2>5, OthersBarred DEF Barring, Restores, Removes
<1>4. ASSUME NEW c \in Tasks, NEW who \in Identities, NEW route \in Routes,
             Remember(c, who, route)
      PROVE  Barring'
  <2>1. /\ clock' \in Nat /\ pc[c] = "idle" /\ sole' \in {c, Nothing}
    BY <1>2, <1>4, StartsParts DEF Remember
  <2>2. /\ remembered' = AfterRemember(remembered, who, route, clock')
        /\ UNCHANGED <<barred, disk>>
    BY <1>4 DEF Remember
  <2>3. TrustedKeys(remembered') \subseteq TrustedKeys(remembered)
    BY <1>1, <2>1, <2>2, Remembering
  <2>4. /\ pc'[c] = "idle" \/ (pc'[c] = "save" /\ op'[c].kind = "remember")
        /\ \A d \in Callers : d # c =>
             UNCHANGED <<pc[d], op[d], previous[d], image[d]>>
    <3>1. CASE UNCHANGED callers
      BY <2>1, <3>1 DEF callers
    <3>2. CASE /\ op' = [op EXCEPT ![c] = [kind |-> "remember", key |-> who.key]]
               /\ To(c, "save") /\ UNCHANGED <<previous, image>>
      BY <1>1, <1>2, <3>2 DEF To, CallersAreTyped
    <3> QED BY <1>4, <3>1, <3>2 DEF Remember
  <2>5. \A d \in Callers : d # c => sole' # d
    BY <1>2, <2>1
  <2> QED BY <2>2, <2>3, <2>4, <2>5, OthersBarred
          DEF Barring, Restores, Restoring, Removes
<1>5. ASSUME NEW key \in Keys, Forget(key) PROVE Barring'
  <2>1. /\ pc[Ui] = "idle" /\ sole' \in {Ui, Nothing}
        /\ \A d \in Callers : Quiet => pc[d] = "idle"
    BY <1>2, <1>5, StartsParts DEF Forget
  <2>2. TrustedKeys(remembered') = TrustedKeys(remembered) \ {key} /\ UNCHANGED disk
    BY <1>1, <1>5, Forgetting DEF Forget
  <2>3. CASE remembered' = remembered
    <3>1. /\ UNCHANGED callers
          /\ barred' \in {barred, barred \cup {key}}
          /\ barred' # barred => Quiet /\ key \notin TrustedKeys(disk.peers)
      BY <1>5, <2>3 DEF Forget
    <3>2. CASE barred' = barred
      <4>1. \A d \in Callers : UNCHANGED <<pc[d], op[d], previous[d], image[d]>>
        BY <3>1 DEF callers
      <4>2. \A d \in Callers : d # Ui => sole' # d
        BY <1>2, <2>1
      <4>3. \A d \in Callers : d # Ui =>
              /\ Restores(d)' => barred' \cap TrustedKeys(previous'[d]) = {}
              /\ pc'[d] = "write" => barred' \cap TrustedKeys(image'[d].peers) = {}
              /\ ~Removes(d)'
        BY <3>2, <4>1, <4>2 DEF Barring, Restores, Removes
      <4> QED BY <2>1, <2>2, <2>3, <3>2, <4>1, <4>3 DEF Barring, Restores
    <3>3. CASE barred' # barred
      <4>1. \A d \in Callers : pc'[d] = "idle"
        BY <2>1, <3>1, <3>3 DEF callers
      <4> QED BY <2>2, <2>3, <3>1, <3>3, <4>1 DEF Barring, Restores
    <3> QED BY <3>2, <3>3
  <2>4. CASE remembered' # remembered
    <3>1. /\ UNCHANGED barred /\ pc'[Ui] = "save" /\ previous'[Ui] = remembered
          /\ op'[Ui].key = key
          /\ \A d \in Callers : d # Ui =>
               UNCHANGED <<pc[d], op[d], previous[d], image[d]>>
      BY <1>1, <1>2, <1>5, <2>4 DEF Forget, To, CallersAreTyped
    <3>2. \A d \in Callers : d # Ui => sole' # d
      BY <1>2, <2>1
    <3> QED BY <2>2, <3>1, <3>2, OthersBarred DEF Barring, Restores, Removes
  <2> QED BY <2>3, <2>4
<1>6. ASSUME NEW folder \in Destinations, SetPreferences(folder) PROVE Barring'
  <2>1. /\ pc[Ui] = "idle" /\ sole' \in {Ui, Nothing}
    BY <1>2, <1>6, StartsParts DEF SetPreferences
  <2>2. /\ UNCHANGED <<remembered, disk, barred>> /\ pc'[Ui] = "write"
        /\ op'[Ui].kind = "prefs" /\ image'[Ui].peers = remembered
        /\ \A d \in Callers : d # Ui =>
             UNCHANGED <<pc[d], op[d], previous[d], image[d]>>
    BY <1>1, <1>2, <1>6 DEF SetPreferences, To, CallersAreTyped
  <2>3. \A d \in Callers : d # Ui => sole' # d
    BY <1>2, <2>1
  <2> QED BY <2>2, <2>3, OthersBarred DEF Barring, Restores, Restoring, Removes
<1> QED BY <1>3, <1>4, <1>5, <1>6

LEMMA SavingBarred ==
    ASSUME Basis, Barring, NEW c \in Callers,
           Snapshot(c) \/ Written(c) \/ WriteFails(c) \/ Undo(c)
    PROVE  Barring'
<1>1. CallersAreTyped /\ Alone /\ Nothing \notin Callers
  BY BasisParts, Numbers
<1>2. pc[c] # "idle" /\ sole' = sole
  BY DEF Snapshot, Written, WriteFails, Undo, history
<1>3. \A d \in Callers : d # c => UNCHANGED <<pc[d], op[d], previous[d], image[d]>>
  BY <1>1 DEF Snapshot, Written, WriteFails, Undo, Done, To, CallersAreTyped
<1>4. sole = c => \A d \in Callers : d # c => pc'[d] = "idle"
  BY <1>1, <1>3 DEF Alone
<1>5. sole # c => \A d \in Callers : sole # d
  BY <1>1, <1>2 DEF Alone
<1>6. CASE Snapshot(c)
  <2>1. /\ pc[c] = "save" /\ image'[c].peers = remembered /\ UNCHANGED op[c]
        /\ UNCHANGED <<remembered, disk, barred, previous>>
    BY <1>1, <1>6 DEF Snapshot, Memory, store, history, CallersAreTyped
  <2>2. Restores(c)' => Restores(c)
    BY <2>1 DEF Restores
  <2> QED BY <1>2, <1>3, <2>1, <2>2, OthersBarred DEF Barring, Removes
<1>7. CASE Written(c)
  <2>1. pc[c] = "write" /\ disk' = image[c] /\ UNCHANGED remembered
    BY <1>7 DEF Written
  <2>2. IF Removes(c) THEN barred' = barred \cup {op[c].key} ELSE barred' = barred
    BY <1>7 DEF Written, Removes
  <2>3. pc'[c] = "idle" \/ (pc'[c] = "apply" /\ op'[c].kind = "prefs")
    BY <1>1, <1>7 DEF Written, Done, To, CallersAreTyped
  <2>4. barred' \cap (TrustedKeys(remembered) \cup TrustedKeys(image[c].peers)) = {}
    BY <2>1, <2>2 DEF Barring
  <2>5. ~Restores(c)'
    BY <2>3 DEF Restores, Restoring
  <2>6. CASE sole = c
    BY <1>4, <2>1, <2>3, <2>4, <2>5, <2>6 DEF Barring, Restores
  <2>7. CASE sole # c
    BY <1>2, <1>3, <2>1, <2>2, <2>3, <2>4, <2>5, <2>7, OthersBarred DEF Barring, Removes
  <2> QED BY <2>6, <2>7
<1>8. CASE WriteFails(c)
  <2>1. pc'[c] \in {"idle", "undo"} /\ UNCHANGED <<remembered, disk, barred>>
    BY <1>1, <1>8 DEF WriteFails, Done, To, store, history, CallersAreTyped
  <2>2. Restores(c)' => Restores(c) /\ UNCHANGED previous[c]
    BY <1>1, <1>2, <1>8 DEF WriteFails, Done, To, Restores, CallersAreTyped
  <2> QED BY <1>2, <1>3, <2>1, <2>2, OthersBarred DEF Barring
<1>9. CASE Undo(c)
  <2>1. /\ remembered' = previous[c] /\ UNCHANGED disk /\ pc'[c] = "idle"
        /\ barred' \in {barred, barred \cup {op[c].key}}
        /\ barred' # barred =>
             /\ sole = c
             /\ op[c].key \notin TrustedKeys(previous[c]) \cup TrustedKeys(disk.peers)
    BY <1>1, <1>9 DEF Undo, Done, To, CallersAreTyped
  <2>2. Restores(c)
    BY <1>1, <1>9 DEF Undo, CallersAreTyped
  <2>3. /\ barred' \cap TrustedKeys(remembered') = {}
        /\ barred' \cap TrustedKeys(disk'.peers) = {}
    BY <2>1, <2>2 DEF Barring
  <2>4. CASE sole = c
    BY <1>4, <2>1, <2>3, <2>4 DEF Barring, Restores
  <2>5. CASE sole # c
    <3>1. barred' = barred /\ \A d \in Callers : sole' # d
      BY <1>2, <1>5, <2>1, <2>5
    <3> QED BY <1>3, <2>1, <2>3, <3>1, OthersBarred DEF Barring, Restores
  <2> QED BY <2>4, <2>5
<1> QED BY <1>6, <1>7, <1>8, <1>9

LEMMA StepBarred ==
    ASSUME Basis, Barring, [Next]_vars
    PROVE  Barring'
<1>1. CASE UNCHANGED vars
  BY <1>1 DEF vars, store, callers, history, Barring, Restores, Removes
<1>2. CASE ApplyPreferences
  <2>1. /\ Ui \in Callers /\ pc'[Ui] = "idle"
        /\ UNCHANGED <<remembered, disk, barred, sole>>
        /\ \A d \in Callers : d # Ui =>
             UNCHANGED <<pc[d], op[d], previous[d], image[d]>>
    BY <1>2, BasisParts
    DEF ApplyPreferences, Done, To, history, Callers, CallersAreTyped
  <2> QED BY <2>1, OthersBarred DEF Barring, Restores
<1>3. ASSUME NEW missing \in SUBSET Removable, Restart(missing) PROVE Barring'
  <2>1. /\ remembered' = Revived(disk.peers) /\ disk'.peers \in {disk.peers, remembered'}
        /\ UNCHANGED barred /\ \A d \in Callers : pc'[d] = "idle"
    BY <1>3 DEF Restart
  <2>2. TrustedKeys(remembered') \subseteq TrustedKeys(disk.peers)
    BY <2>1, BasisParts, Reviving
  <2> QED BY <2>1, <2>2 DEF Barring, Restores
<1> QED BY <1>1, <1>2, <1>3, BeginningBarred, SavingBarred DEF Next

(* Trust that was withdrawn, or could not be saved, is gone for good: no   *)
(* snapshot, no copy put back and no start that comes later has it,        *)
(* however many operations overlap then.                                   *)
THEOREM ForgettingLasts == Spec => []WithdrawnStaysWithdrawn
<1>1. Init => Barring
  BY DEF Init, Barring, Restores
<1>2. Basis /\ Barring /\ [Next]_vars => Basis' /\ Barring'
  BY StepBasis, StepBarred
<1>3. Barring => WithdrawnStaysWithdrawn
  BY DEF Barring, WithdrawnStaysWithdrawn
<1> QED BY <1>1, <1>2, <1>3, InitBasis, PTL DEF Spec

-----------------------------------------------------------------------------
(* The list of remembered devices is below its limit; a device more, and   *)
(* remember_peer or load leaves out those not seen for longest, trusted or *)
(* not.                                                                    *)
HasRoom == Len(remembered) < MaxPeers

Fits ==
    /\ Len(disk.peers) <= MaxPeers
    /\ \A c \in Callers : pc[c] = "write" => Len(image[c].peers) <= MaxPeers

(* What the operation that has the store to itself decides.                *)
Undecided ==
    IF \E c \in Callers : sole = c /\ pc[c] # "idle" THEN Concern(op[sole]) ELSE {}

Grants(c) == sole = c /\ op[c].kind = "trust"

(* Trust that is owed is in the file and in every list that may be put     *)
(* back; what nobody is deciding about is in memory and in every snapshot. *)
(* The key of a trust under way that is alone is trusted already.          *)
Owes ==
    /\ owed \subseteq TrustedKeys(disk.peers)
    /\ owed \ Undecided \subseteq TrustedKeys(remembered)
    /\ \A c \in Callers :
         /\ Restores(c) => owed \subseteq TrustedKeys(previous[c])
         /\ pc[c] = "write" => owed \ Undecided \subseteq TrustedKeys(image[c].peers)
         /\ Grants(c) /\ pc[c] \in {"save", "write"} =>
              op[c].key \in TrustedKeys(remembered)
         /\ Grants(c) /\ pc[c] = "write" =>
              op[c].key \in TrustedKeys(image[c].peers)

LEMMA StepFits ==
    ASSUME Basis, Fits, HasRoom, HasRoom', [Next]_vars
    PROVE  Fits'
<1>1. CallersAreTyped /\ Len(remembered) \in Nat /\ Len(remembered') \in Nat
      /\ MaxPeers \in Nat
  BY StepBasis, BasisParts, Numbers DEF Basis, Confirmed, ListsAreSound, Sound
<1>2. Len(remembered) <= MaxPeers /\ Len(remembered') <= MaxPeers
  BY <1>1 DEF HasRoom
<1>3. Ui \in Callers /\ Tasks \subseteq Callers
  BY DEF Callers
<1>4. ASSUME UNCHANGED disk,
             \A c \in Callers : pc'[c] = "write" =>
                \/ pc[c] = "write" /\ UNCHANGED image[c]
                \/ image'[c].peers = remembered
      PROVE  Fits'
  BY <1>2, <1>4 DEF Fits
<1>5. ASSUME NEW c \in Tasks, NEW who \in Identities,
             Trust(c, who) \/ \E route \in Routes : Remember(c, who, route)
      PROVE  Fits'
  BY <1>1, <1>3, <1>4, <1>5 DEF Trust, Remember, To, callers, CallersAreTyped
<1>6. ASSUME NEW key \in Keys, Forget(key) PROVE Fits'
  BY <1>1, <1>3, <1>4, <1>6 DEF Forget, To, callers, CallersAreTyped
<1>7. ASSUME NEW folder \in Destinations, SetPreferences(folder) PROVE Fits'
  BY <1>1, <1>3, <1>4, <1>7 DEF SetPreferences, To, CallersAreTyped
<1>8. ASSUME NEW c \in Callers,
             Snapshot(c) \/ WriteFails(c) \/ Undo(c)
      PROVE  Fits'
  BY <1>1, <1>4, <1>8
  DEF Snapshot, Memory, WriteFails, Undo, Done, To, store, CallersAreTyped
<1>9. ASSUME NEW c \in Callers, Written(c) PROVE Fits'
  <2>1. pc[c] = "write" /\ disk' = image[c]
    BY <1>9 DEF Written
  <2>2. \A d \in Callers : pc'[d] = "write" => pc[d] = "write" /\ UNCHANGED image[d]
    BY <1>1, <1>9 DEF Written, Done, To, CallersAreTyped
  <2> QED BY <2>1, <2>2 DEF Fits
<1>10. CASE ApplyPreferences
  BY <1>1, <1>3, <1>4, <1>10 DEF ApplyPreferences, Done, To, CallersAreTyped
<1>11. ASSUME NEW missing \in SUBSET Removable, Restart(missing) PROVE Fits'
  <2>1. disk' = [peers |-> remembered', destination |-> destination'] \/ UNCHANGED disk
    BY <1>11 DEF Restart
  <2>2. \A d \in Callers : pc'[d] = "idle"
    BY <1>11 DEF Restart
  <2> QED BY <1>2, <2>1, <2>2 DEF Fits
<1>12. CASE UNCHANGED vars
  BY <1>12 DEF vars, store, callers, Fits
<1> QED BY <1>5, <1>6, <1>7, <1>8, <1>9, <1>10, <1>11, <1>12 DEF Next

(* What is undecided, told by who has the store.                           *)
LEMMA UndecidedParts ==
    ASSUME Basis
    PROVE  /\ \A c \in Callers : sole = c /\ pc[c] # "idle" => Undecided = Concern(op[c])
           /\ \A c \in Callers : sole = c /\ pc[c] = "idle" => Undecided = {}
           /\ sole = Nothing => Undecided = {}
           /\ Quiet => Undecided = {}
<1>1. Nothing \notin Callers
  BY Numbers
<1> QED BY <1>1 DEF Undecided, Quiet, Idle

(* What an operation that starts makes of what is owed.                    *)
LEMMA StartsOwing ==
    ASSUME Basis, Owes, Basis', NEW c \in Callers, NEW o, Starts(c, o),
           pc'[c] # "idle" => op'[c] = o
    PROVE  /\ owed' \subseteq owed
           /\ owed' \subseteq TrustedKeys(remembered)
           /\ owed' \ Undecided' \subseteq owed \ Undecided
           /\ pc'[c] # "idle" => owed' \ Undecided' \subseteq owed \ Concern(o)
           /\ pc'[c] = "idle" => Undecided' = {}
           /\ \A d \in Callers : sole' # d \/ d = c
<1>1. /\ sole' = IF Quiet THEN c ELSE Nothing
      /\ owed' = IF Quiet THEN owed
                          ELSE owed \ UNION {Concern(x) : x \in Together(o)}
      /\ Nothing \notin Callers
  BY Numbers DEF Starts
<1>2. CASE Quiet
  <2>1. Undecided = {} /\ sole' = c /\ owed' = owed
    BY <1>1, <1>2, UndecidedParts
  <2>2. pc'[c] # "idle" => Undecided' = Concern(o)
    BY <2>1 DEF Undecided
  <2>3. pc'[c] = "idle" => Undecided' = {}
    BY <2>1 DEF Undecided
  <2> QED BY <2>1, <2>2, <2>3 DEF Owes
<1>3. CASE ~Quiet
  <2>1. sole' = Nothing /\ Undecided' = {}
    BY <1>1, <1>3 DEF Undecided
  <2>2. owed' \subseteq owed \ Concern(o)
    BY <1>1, <1>3 DEF Together
  <2>3. owed' \cap Undecided = {}
    <3>1. CASE \E d \in Callers : sole = d /\ pc[d] # "idle"
      <4>1. Undecided = Concern(op[sole]) /\ op[sole] \in Together(o)
        BY <3>1 DEF Undecided, Together, Idle
      <4> QED BY <1>1, <1>3, <4>1
    <3>2. CASE ~\E d \in Callers : sole = d /\ pc[d] # "idle"
      BY <3>2 DEF Undecided
    <3> QED BY <3>1, <3>2
  <2> QED BY <1>1, <2>1, <2>2, <2>3 DEF Owes
<1> QED BY <1>2, <1>3

(* An operation that starts leaves what was said of the other callers.     *)
LEMMA OthersOwe ==
    ASSUME Basis, Owes, NEW d \in Callers,
           UNCHANGED <<pc[d], op[d], previous[d], image[d]>>,
           owed' \subseteq owed, owed' \ Undecided' \subseteq owed \ Undecided,
           sole' # d
    PROVE  /\ Restores(d)' => owed' \subseteq TrustedKeys(previous'[d])
           /\ pc'[d] = "write" => owed' \ Undecided' \subseteq TrustedKeys(image'[d].peers)
           /\ ~Grants(d)'
BY DEF Owes, Restores, Grants

LEMMA BeginningOwes ==
    ASSUME Basis, Basis', HasRoom, Owes,
           \/ \E c \in Tasks, who \in Identities :
                \/ Trust(c, who)
                \/ \E route \in Routes : Remember(c, who, route)
           \/ \E key \in Keys : Forget(key)
           \/ \E folder \in Destinations : SetPreferences(folder)
    PROVE  Owes'
<1>1. /\ CallersAreTyped /\ Alone
      /\ Sound(remembered, confirmed) /\ Sound(disk.peers, confirmed)
  BY BasisParts
<1>2. Ui \in Callers /\ Tasks \subseteq Callers /\ Ui \notin Tasks
  BY Numbers DEF Callers
<1>3. ASSUME NEW c \in Tasks, NEW who \in Identities, Trust(c, who) PROVE Owes'
  <2> DEFINE o == [kind |-> "trust", key |-> who.key]
  <2>1. Starts(c, o) /\ c \in Callers
    BY <1>2, <1>3 DEF Trust
  <2>2. clock' \in Nat
    BY <2>1, StartsParts
  <2>3. /\ pc'[c] = "save" /\ op'[c] = o /\ previous'[c] = remembered
        /\ \A d \in Callers : d # c =>
             UNCHANGED <<pc[d], op[d], previous[d], image[d]>>
    BY <1>1, <2>1, <1>3 DEF Trust, To, CallersAreTyped
  <2>4. remembered' = AfterTrust(remembered, who, clock') /\ UNCHANGED disk
    BY <1>3 DEF Trust
  <2>5. /\ who.key \in TrustedKeys(remembered')
        /\ TrustedKeys(remembered) \ KeysOf(who.id) \subseteq TrustedKeys(remembered')
    BY <1>1, <2>2, <2>4, Trusting
  <2>6. KeysOf(who.id) \subseteq Concern(o)
    BY DEF KeysOf, Concern
  <2>7. /\ owed' \subseteq owed /\ owed' \subseteq TrustedKeys(remembered)
        /\ owed' \ Undecided' \subseteq owed \ Undecided
        /\ owed' \ Undecided' \subseteq owed \ Concern(o)
        /\ \A d \in Callers : sole' # d \/ d = c
    BY <2>1, <2>3, StartsOwing
  <2>8. owed' \ Undecided' \subseteq TrustedKeys(remembered')
    BY <2>5, <2>6, <2>7 DEF Owes
  <2> HIDE DEF o
  <2>9. \A d \in Callers : d # c =>
          /\ Restores(d)' => owed' \subseteq TrustedKeys(previous'[d])
          /\ pc'[d] = "write" => owed' \ Undecided' \subseteq TrustedKeys(image'[d].peers)
          /\ ~Grants(d)'
    BY <2>3, <2>7, OthersOwe
  <2>10. op'[c].key = who.key
    BY <2>3 DEF o
  <2> QED BY <2>3, <2>4, <2>5, <2>7, <2>8, <2>9, <2>10 DEF Owes
<1>4. ASSUME NEW c \in Tasks, NEW who \in Identities, NEW route \in Routes,
             Remember(c, who, route)
      PROVE  Owes'
  <2> DEFINE o == [kind |-> "remember", key |-> who.key]
  <2>1. Starts(c, o) /\ c \in Callers
    BY <1>2, <1>4 DEF Remember
  <2>2. clock' \in Nat /\ pc[c] = "idle"
    BY <2>1, StartsParts
  <2>3. remembered' = AfterRemember(remembered, who, route, clock') /\ UNCHANGED disk
    BY <1>4 DEF Remember
  <2>4. TrustedKeys(remembered) \subseteq TrustedKeys(remembered')
    BY <1>1, <2>2, <2>3, Remembering DEF HasRoom
  <2>5. /\ pc'[c] = "idle" \/ (pc'[c] = "save" /\ op'[c] = o)
        /\ \A d \in Callers : d # c =>
             UNCHANGED <<pc[d], op[d], previous[d], image[d]>>
    <3>1. CASE UNCHANGED callers
      BY <2>2, <3>1 DEF callers
    <3>2. CASE /\ op' = [op EXCEPT ![c] = [kind |-> "remember", key |-> who.key]]
               /\ To(c, "save") /\ UNCHANGED <<previous, image>>
      BY <1>1, <2>1, <3>2 DEF To, CallersAreTyped
    <3> QED BY <1>4, <3>1, <3>2 DEF Remember
  <2>6. o.kind = "remember"
    OBVIOUS
  <2>7. /\ owed' \subseteq owed /\ owed' \subseteq TrustedKeys(remembered)
        /\ owed' \ Undecided' \subseteq owed \ Undecided
        /\ \A d \in Callers : sole' # d \/ d = c
    BY <2>1, <2>5, StartsOwing
  <2> HIDE DEF o
  <2>8. \A d \in Callers : d # c =>
          /\ Restores(d)' => owed' \subseteq TrustedKeys(previous'[d])
          /\ pc'[d] = "write" => owed' \ Undecided' \subseteq TrustedKeys(image'[d].peers)
          /\ ~Grants(d)'
    BY <2>5, <2>7, OthersOwe
  <2>9. /\ pc'[c] # "write" /\ ~Restores(c)'
        /\ pc'[c] \in {"save", "write"} => ~Grants(c)'
    BY <2>5, <2>6 DEF Restores, Restoring, Grants
  <2> QED BY <2>3, <2>4, <2>7, <2>8, <2>9 DEF Owes
<1>5. ASSUME NEW key \in Keys, Forget(key) PROVE Owes'
  <2> DEFINE o == [kind |-> "forget", key |-> key]
  <2>1. Starts(Ui, o) /\ o.kind = "forget" /\ o.key = key
    BY <1>5 DEF Forget
  <2>2. pc[Ui] = "idle"
    BY <1>2, <2>1, StartsParts
  <2>3. TrustedKeys(remembered') = TrustedKeys(remembered) \ {key} /\ UNCHANGED disk
    BY <1>1, <1>5, Forgetting DEF Forget
  <2>4. /\ \/ pc'[Ui] = "idle" /\ remembered' = remembered
           \/ pc'[Ui] = "save" /\ op'[Ui] = o /\ previous'[Ui] = remembered
        /\ \A d \in Callers : d # Ui =>
             UNCHANGED <<pc[d], op[d], previous[d], image[d]>>
    <3>1. CASE remembered' = remembered
      <4>1. UNCHANGED callers
        BY <1>5, <3>1 DEF Forget
      <4> QED BY <2>2, <3>1, <4>1 DEF callers
    <3>2. CASE remembered' # remembered
      BY <1>1, <1>2, <1>5, <3>2 DEF Forget, To, CallersAreTyped
    <3> QED BY <3>1, <3>2
  <2>5. /\ owed' \subseteq owed /\ owed' \subseteq TrustedKeys(remembered)
        /\ owed' \ Undecided' \subseteq owed \ Undecided
        /\ pc'[Ui] # "idle" => owed' \ Undecided' \subseteq owed \ Concern(o)
        /\ \A d \in Callers : sole' # d \/ d = Ui
    BY <1>2, <2>1, <2>4, StartsOwing
  <2>6. Concern(o) = {key}
    BY <2>1 DEF Concern
  <2> HIDE DEF o
  <2>7. owed' \ Undecided' \subseteq TrustedKeys(remembered')
    BY <2>3, <2>4, <2>5, <2>6 DEF Owes
  <2>8. \A d \in Callers : d # Ui =>
          /\ Restores(d)' => owed' \subseteq TrustedKeys(previous'[d])
          /\ pc'[d] = "write" => owed' \ Undecided' \subseteq TrustedKeys(image'[d].peers)
          /\ ~Grants(d)'
    BY <2>4, <2>5, OthersOwe
  <2>9. /\ pc'[Ui] # "write" /\ (pc'[Ui] = "save" => ~Grants(Ui)')
        /\ Restores(Ui)' => previous'[Ui] = remembered
    BY <2>1, <2>4 DEF Restores, Grants
  <2> QED BY <2>3, <2>4, <2>5, <2>7, <2>8, <2>9 DEF Owes
<1>6. ASSUME NEW folder \in Destinations, SetPreferences(folder) PROVE Owes'
  <2> DEFINE o == [kind |-> "prefs", key |-> NoKey]
  <2>1. Starts(Ui, o) /\ o.kind = "prefs"
    BY <1>6 DEF SetPreferences
  <2>2. /\ UNCHANGED <<remembered, disk>> /\ pc'[Ui] = "write"
        /\ op'[Ui] = o /\ image'[Ui].peers = remembered
        /\ \A d \in Callers : d # Ui =>
             UNCHANGED <<pc[d], op[d], previous[d], image[d]>>
    BY <1>1, <1>2, <1>6 DEF SetPreferences, To, CallersAreTyped
  <2>3. /\ owed' \subseteq owed /\ owed' \subseteq TrustedKeys(remembered)
        /\ owed' \ Undecided' \subseteq owed \ Undecided
        /\ \A d \in Callers : sole' # d \/ d = Ui
    BY <1>2, <2>1, <2>2, StartsOwing
  <2> HIDE DEF o
  <2>4. \A d \in Callers : d # Ui =>
          /\ Restores(d)' => owed' \subseteq TrustedKeys(previous'[d])
          /\ pc'[d] = "write" => owed' \ Undecided' \subseteq TrustedKeys(image'[d].peers)
          /\ ~Grants(d)'
    BY <2>2, <2>3, OthersOwe
  <2>5. ~Restores(Ui)' /\ ~Grants(Ui)'
    BY <2>1, <2>2 DEF Restores, Restoring, Grants
  <2> QED BY <2>2, <2>3, <2>4, <2>5 DEF Owes
<1> QED BY <1>3, <1>4, <1>5, <1>6

(* A caller under way has the store to itself, or nothing is undecided.    *)
LEMMA UnderWay ==
    ASSUME Basis, NEW c \in Callers, pc[c] # "idle"
    PROVE  \/ /\ sole = c /\ Undecided = Concern(op[c])
              /\ \A d \in Callers : d # c => pc[d] = "idle"
           \/ sole = Nothing /\ Undecided = {} /\ \A d \in Callers : sole # d
<1>1. Alone /\ Nothing \notin Callers
  BY BasisParts, Numbers
<1>2. CASE sole = c
  BY <1>1, <1>2, UndecidedParts DEF Alone
<1>3. CASE sole # c
  BY <1>1, <1>3, UndecidedParts DEF Alone
<1> QED BY <1>2, <1>3

LEMMA SavingOwes ==
    ASSUME Basis, Basis', Owes, NEW c \in Callers,
           Snapshot(c) \/ Written(c) \/ WriteFails(c) \/ Undo(c)
    PROVE  Owes'
<1>1. CallersAreTyped /\ CallersAreTyped'
  BY BasisParts DEF Basis, Confirmed
<1>2. pc[c] # "idle" /\ sole' = sole
  BY DEF Snapshot, Written, WriteFails, Undo, history
<1>3. \A d \in Callers : d # c => UNCHANGED <<pc[d], op[d], previous[d], image[d]>>
  BY <1>1 DEF Snapshot, Written, WriteFails, Undo, Done, To, CallersAreTyped
<1>4. \/ /\ sole = c /\ Undecided = Concern(op[c])
         /\ \A d \in Callers : d # c => pc[d] = "idle"
      \/ sole = Nothing /\ Undecided = {} /\ \A d \in Callers : sole # d
  BY <1>2, UnderWay
<1>5. sole = Nothing => Undecided' = {}
  BY <1>2, UndecidedParts, Numbers DEF Undecided
<1>6. CASE Snapshot(c)
  <2>1. /\ pc[c] = "save" /\ pc'[c] = "write" /\ image'[c].peers = remembered
        /\ UNCHANGED <<op, remembered, disk, owed, previous>>
    BY <1>1, <1>6 DEF Snapshot, Memory, To, store, history, CallersAreTyped
  <2>2. Undecided' = Undecided
    BY <1>2, <1>3, <2>1 DEF Undecided
  <2>3. Restores(c)' => Restores(c)
    BY <1>2, <2>1 DEF Restores
  <2> QED BY <1>2, <1>3, <2>1, <2>2, <2>3 DEF Owes, Restores, Grants
<1>7. CASE Written(c)
  <2>1. /\ pc[c] = "write" /\ disk' = image[c] /\ UNCHANGED remembered
        /\ owed' = (owed \ Concern(op[c])) \cup (IF Grants(c) THEN {op[c].key} ELSE {})
    BY <1>7 DEF Written, Grants
  <2>2. \/ pc'[c] = "idle"
        \/ (pc'[c] = "apply" /\ op'[c].kind = "prefs")
    BY <1>1, <1>7 DEF Written, Done, To, CallersAreTyped
  <2>3. ~Restores(c)' /\ pc'[c] \notin {"save", "write"}
    BY <2>2 DEF Restores, Restoring
  <2>4. CASE sole = c
    <3>1. /\ owed' \subseteq TrustedKeys(remembered)
          /\ owed' \subseteq TrustedKeys(disk'.peers)
      BY <1>4, <2>1, <2>4, Numbers DEF Owes
    <3>2. \A d \in Callers : d # c => pc'[d] = "idle"
      BY <1>3, <1>4, <2>4, Numbers
    <3> QED BY <2>1, <2>3, <3>1, <3>2 DEF Owes, Restores
  <2>5. CASE sole # c
    <3>1. sole = Nothing /\ Undecided = {} /\ Undecided' = {} /\ owed' \subseteq owed
      BY <1>4, <1>5, <2>1, <2>5 DEF Grants
    <3>2. \A d \in Callers : d # c =>
            /\ Restores(d)' => owed' \subseteq TrustedKeys(previous'[d])
            /\ pc'[d] = "write" => owed' \ Undecided' \subseteq TrustedKeys(image'[d].peers)
            /\ ~Grants(d)'
      BY <1>2, <1>3, <1>4, <2>5, <3>1, OthersOwe
    <3> QED BY <2>1, <2>3, <3>1, <3>2 DEF Owes
  <2> QED BY <2>4, <2>5
<1>8. CASE WriteFails(c)
  <2>1. /\ UNCHANGED <<remembered, disk, owed>> /\ pc[c] = "write"
        /\ \/ pc'[c] = "undo" /\ UNCHANGED <<op[c], previous[c]>>
           \/ pc'[c] = "idle" /\ op[c].kind \notin Restoring
    BY <1>1, <1>8 DEF WriteFails, Done, To, store, history, CallersAreTyped
  <2>2. Restores(c)' => Restores(c) /\ UNCHANGED previous[c]
    BY <1>2, <2>1 DEF Restores
  <2>3. Undecided' = Undecided
    <3>1. CASE sole = c /\ pc'[c] = "undo"
      BY <1>2, <1>4, <2>1, <3>1 DEF Undecided
    <3>2. CASE sole = c /\ pc'[c] = "idle"
      <4>1. Concern(op[c]) = {} /\ Undecided' = {}
        BY <1>2, <2>1, <3>2 DEF Concern, Restoring, Undecided
      <4> QED BY <1>4, <3>2, <4>1
    <3>3. CASE sole # c
      BY <1>4, <1>5, <3>3
    <3> QED BY <2>1, <3>1, <3>2, <3>3
  <2>4. \A d \in Callers : d # c =>
          /\ Restores(d)' => owed' \subseteq TrustedKeys(previous'[d])
          /\ pc'[d] = "write" => owed' \ Undecided' \subseteq TrustedKeys(image'[d].peers)
          /\ Grants(d)' /\ pc'[d] \in {"save", "write"} => FALSE
    <3>1. CASE sole = c
      BY <1>3, <1>4, <3>1, Numbers DEF Restores
    <3>2. CASE sole # c
      BY <1>2, <1>3, <1>4, <2>1, <2>3, <3>2, OthersOwe
    <3> QED BY <3>1, <3>2
  <2> QED BY <2>1, <2>2, <2>3, <2>4 DEF Owes
<1>9. CASE Undo(c)
  <2>1. /\ remembered' = previous[c] /\ UNCHANGED <<disk, owed>> /\ pc'[c] = "idle"
        /\ Restores(c)
    BY <1>1, <1>9 DEF Undo, Done, To, CallersAreTyped
  <2>2. Undecided' = {}
    <3>1. CASE sole = c
      BY <1>2, <2>1, <3>1 DEF Undecided
    <3>2. CASE sole # c
      BY <1>4, <1>5, <3>2
    <3> QED BY <3>1, <3>2
  <2>3. owed \subseteq TrustedKeys(remembered')
    BY <2>1 DEF Owes
  <2>4. \A d \in Callers : d # c =>
          /\ Restores(d)' => owed' \subseteq TrustedKeys(previous'[d])
          /\ pc'[d] = "write" => owed' \ Undecided' \subseteq TrustedKeys(image'[d].peers)
          /\ Grants(d)' /\ pc'[d] \in {"save", "write"} => FALSE
    <3>1. CASE sole = c
      BY <1>3, <1>4, <3>1, Numbers DEF Restores
    <3>2. CASE sole # c
      BY <1>2, <1>3, <1>4, <2>1, <2>2, <3>2, OthersOwe
    <3> QED BY <3>1, <3>2
  <2> QED BY <2>1, <2>2, <2>3, <2>4 DEF Owes, Restores
<1> QED BY <1>6, <1>7, <1>8, <1>9

LEMMA StepOwes ==
    ASSUME Basis, Basis', Fits, HasRoom, Owes, [Next]_vars
    PROVE  Owes'
<1>1. CASE UNCHANGED vars
  BY <1>1 DEF vars, store, callers, history, Owes, Undecided, Restores, Grants
<1>2. CASE ApplyPreferences
  <2>1. /\ Ui \in Callers /\ pc[Ui] = "apply" /\ pc'[Ui] = "idle"
        /\ UNCHANGED <<remembered, disk, owed, sole>> /\ op[Ui].kind = "prefs"
        /\ \A d \in Callers : d # Ui =>
             UNCHANGED <<pc[d], op[d], previous[d], image[d]>>
    BY <1>2, BasisParts
    DEF ApplyPreferences, Done, To, history, Callers, CallersAreTyped
  <2>2. Undecided = {} /\ Undecided' = {}
    <3>1. Concern(op[Ui]) = {}
      BY <2>1 DEF Concern
    <3>2. Undecided = {}
      BY <2>1, <3>1, UnderWay
    <3>3. CASE sole = Ui
      BY <2>1, <3>2, <3>3 DEF Undecided
    <3>4. CASE sole # Ui
      <4>1. \A d \in Callers : sole' # d
        BY <2>1, <3>4, UnderWay
      <4> QED BY <3>2, <4>1 DEF Undecided
    <3> QED BY <3>3, <3>4
  <2>3. \A d \in Callers : d # Ui => (Restores(d)' => Restores(d)) /\ (Grants(d)' => Grants(d))
    BY <2>1 DEF Restores, Grants
  <2> QED BY <2>1, <2>2, <2>3 DEF Owes, Restores
<1>3. ASSUME NEW missing \in SUBSET Removable, Restart(missing) PROVE Owes'
  <2>1. /\ remembered' = Revived(disk.peers) /\ disk'.peers \in {disk.peers, remembered'}
        /\ UNCHANGED owed /\ \A d \in Callers : pc'[d] = "idle"
    BY <1>3 DEF Restart
  <2>2. TrustedKeys(disk.peers) \subseteq TrustedKeys(remembered')
    BY <2>1, BasisParts, Reviving DEF Fits
  <2> QED BY <2>1, <2>2 DEF Owes, Restores
<1> QED BY <1>1, <1>2, <1>3, BeginningOwes, SavingOwes DEF Next

-----------------------------------------------------------------------------
(* Memory, the file and every snapshot name the folder that was saved      *)
(* last, unless a start missed it; a folder about to be applied is that    *)
(* folder.                                                                 *)
Certain == savedTo # Nothing /\ ~missed

Folders ==
    /\ sole = Nothing /\ pc[Ui] # "idle" /\ op[Ui].kind = "prefs" => savedTo = Nothing
    /\ Certain =>
         /\ disk.destination = savedTo
         /\ pc[Ui] # "apply" => destination = savedTo
         /\ pc[Ui] = "apply" => image[Ui].destination = savedTo
         /\ \A c \in Callers : pc[c] = "write" /\ op[c].kind # "prefs" =>
              image[c].destination = savedTo

(* What a start makes of the folder that is certain.                       *)
LEMMA StartsFolders ==
    ASSUME Basis, Folders, NEW c \in Callers, NEW o, Starts(c, o),
           UNCHANGED <<destination, disk, missed>>,
           \A d \in Callers : d # c => UNCHANGED <<pc[d], op[d], image[d]>>,
           \/ pc'[c] \in {"idle", "save"}
           \/ pc'[c] = "write" /\ op'[c].kind = "prefs",
           pc'[c] # "idle" => op'[c] = o
    PROVE  Folders'
<1>1. /\ pc[c] = "idle" /\ sole' = IF Quiet THEN c ELSE Nothing
      /\ Nothing \notin Callers /\ Ui \in Callers
  BY StartsParts, Numbers DEF Callers
<1>2. /\ savedTo' \in {savedTo, Nothing}
      /\ ~Quiet /\ (\E x \in Together(o) : x.kind = "prefs") => savedTo' = Nothing
  BY DEF Starts
<1>3. Certain' => Certain /\ savedTo' = savedTo
  BY <1>2 DEF Certain
<1>4. ASSUME sole' = Nothing, pc'[Ui] # "idle", op'[Ui].kind = "prefs"
      PROVE  savedTo' = Nothing
  <2>1. ~Quiet
    BY <1>1, <1>4
  <2>2. op'[Ui] \in Together(o)
    <3>1. CASE c = Ui
      BY <1>4, <3>1 DEF Together
    <3>2. CASE c # Ui
      BY <1>1, <1>4, <3>2 DEF Together, Idle
    <3> QED BY <3>1, <3>2
  <2> QED BY <1>2, <1>4, <2>1, <2>2
<1>5. ASSUME Certain'
      PROVE  /\ disk'.destination = savedTo'
             /\ pc'[Ui] # "apply" => destination' = savedTo'
             /\ pc'[Ui] = "apply" => image'[Ui].destination = savedTo'
             /\ \A d \in Callers : pc'[d] = "write" /\ op'[d].kind # "prefs" =>
                  image'[d].destination = savedTo'
  <2>1. Certain /\ savedTo' = savedTo
    BY <1>3, <1>5
  <2>2. CASE c = Ui
    BY <1>1, <2>1, <2>2 DEF Folders
  <2>3. CASE c # Ui
    BY <1>1, <2>1, <2>3 DEF Folders
  <2> QED BY <2>2, <2>3
<1> QED BY <1>4, <1>5 DEF Folders

LEMMA BeginningFolders ==
    ASSUME Basis, Folders,
           \/ \E c \in Tasks, who \in Identities :
                \/ Trust(c, who)
                \/ \E route \in Routes : Remember(c, who, route)
           \/ \E key \in Keys : Forget(key)
           \/ \E folder \in Destinations : SetPreferences(folder)
    PROVE  Folders'
<1>1. CallersAreTyped /\ Ui \in Callers /\ Tasks \subseteq Callers
  BY BasisParts DEF Callers
<1>2. ASSUME NEW c \in Tasks, NEW who \in Identities, Trust(c, who) PROVE Folders'
  <2>1. /\ Starts(c, [kind |-> "trust", key |-> who.key]) /\ c \in Callers
        /\ UNCHANGED <<destination, disk, missed>>
    BY <1>1, <1>2 DEF Trust
  <2>2. /\ pc'[c] = "save" /\ op'[c] = [kind |-> "trust", key |-> who.key]
        /\ \A d \in Callers : d # c => UNCHANGED <<pc[d], op[d], image[d]>>
    BY <1>1, <1>2 DEF Trust, To, CallersAreTyped
  <2> QED BY <2>1, <2>2, StartsFolders
<1>3. ASSUME NEW c \in Tasks, NEW who \in Identities, NEW route \in Routes,
             Remember(c, who, route)
      PROVE  Folders'
  <2>1. /\ Starts(c, [kind |-> "remember", key |-> who.key]) /\ c \in Callers
        /\ UNCHANGED <<destination, disk, missed>>
    BY <1>1, <1>3 DEF Remember
  <2>2. CASE UNCHANGED callers
    <3>1. /\ pc'[c] = "idle"
          /\ \A d \in Callers : UNCHANGED <<pc[d], op[d], image[d]>>
      BY <2>1, <2>2, StartsParts DEF callers
    <3> QED BY <2>1, <3>1, StartsFolders
  <2>3. CASE /\ op' = [op EXCEPT ![c] = [kind |-> "remember", key |-> who.key]]
             /\ To(c, "save") /\ UNCHANGED <<previous, image>>
    <3>1. /\ pc'[c] = "save" /\ op'[c] = [kind |-> "remember", key |-> who.key]
          /\ \A d \in Callers : d # c => UNCHANGED <<pc[d], op[d], image[d]>>
      BY <1>1, <2>1, <2>3 DEF To, CallersAreTyped
    <3> QED BY <2>1, <3>1, StartsFolders
  <2> QED BY <1>3, <2>2, <2>3 DEF Remember
<1>4. ASSUME NEW key \in Keys, Forget(key) PROVE Folders'
  <2>1. /\ Starts(Ui, [kind |-> "forget", key |-> key])
        /\ UNCHANGED <<destination, disk, missed>>
    BY <1>4 DEF Forget
  <2>2. CASE remembered' = remembered
    <3>1. UNCHANGED callers
      BY <1>4, <2>2 DEF Forget
    <3>2. /\ pc'[Ui] = "idle"
          /\ \A d \in Callers : UNCHANGED <<pc[d], op[d], image[d]>>
      BY <1>1, <2>1, <3>1, StartsParts DEF callers
    <3> QED BY <1>1, <2>1, <3>2, StartsFolders
  <2>3. CASE remembered' # remembered
    <3>1. /\ pc'[Ui] = "save" /\ op'[Ui] = [kind |-> "forget", key |-> key]
          /\ \A d \in Callers : d # Ui => UNCHANGED <<pc[d], op[d], image[d]>>
      BY <1>1, <1>4, <2>3 DEF Forget, To, CallersAreTyped
    <3> QED BY <1>1, <2>1, <3>1, StartsFolders
  <2> QED BY <2>2, <2>3
<1>5. ASSUME NEW folder \in Destinations, SetPreferences(folder) PROVE Folders'
  <2>1. /\ Starts(Ui, [kind |-> "prefs", key |-> NoKey])
        /\ UNCHANGED <<destination, disk, missed>>
    BY <1>5 DEF SetPreferences
  <2>2. /\ pc'[Ui] = "write" /\ op'[Ui] = [kind |-> "prefs", key |-> NoKey]
        /\ \A d \in Callers : d # Ui => UNCHANGED <<pc[d], op[d], image[d]>>
    BY <1>1, <1>5 DEF SetPreferences, To, CallersAreTyped
  <2> QED BY <1>1, <2>1, <2>2, StartsFolders
<1> QED BY <1>2, <1>3, <1>4, <1>5

LEMMA SavingFolders ==
    ASSUME Basis, Folders, NEW c \in Callers,
           Snapshot(c) \/ Written(c) \/ WriteFails(c) \/ Undo(c)
    PROVE  Folders'
<1>1. CallersAreTyped /\ Alone /\ Nothing \notin Callers /\ Ui \in Callers
  BY BasisParts, Numbers DEF Callers
<1>2. pc[c] \notin {"idle", "apply"} /\ sole' = sole /\ UNCHANGED destination
  BY DEF Snapshot, Written, WriteFails, Undo, history, store
<1>3. \A d \in Callers : d # c => UNCHANGED <<pc[d], op[d], image[d]>>
  BY <1>1 DEF Snapshot, Written, WriteFails, Undo, Done, To, CallersAreTyped
<1>4. pc'[c] # "idle" => op'[c] = op[c]
  BY <1>1 DEF Snapshot, Written, WriteFails, Undo, Done, To, CallersAreTyped
<1>5. sole \in {c, Nothing} /\ (sole = c => \A d \in Callers : d # c => pc[d] = "idle")
  BY <1>1, <1>2 DEF Alone
<1>6. CASE Snapshot(c)
  <2>1. /\ pc'[c] = "write" /\ image'[c].destination = destination
        /\ pc[c] = "save" /\ UNCHANGED <<disk, savedTo, missed>>
    BY <1>1, <1>6 DEF Snapshot, Memory, To, store, history, CallersAreTyped
  <2>2. Certain => pc[Ui] # "apply"
    BY <1>1, <1>2, <1>5 DEF Folders, Certain, CallersAreTyped
  <2> QED BY <1>1, <1>2, <1>3, <1>4, <2>1, <2>2 DEF Folders, Certain
<1>7. CASE Written(c)
  <2>1. pc[c] = "write" /\ disk' = image[c]
    BY <1>7 DEF Written
  <2>2. CASE op[c].kind = "prefs"
    <3>1. /\ c = Ui /\ pc'[Ui] = "apply" /\ UNCHANGED image
      BY <1>1, <1>7, <2>2 DEF Written, To, CallersAreTyped
    <3>2. CASE sole = c
      <4>1. savedTo' = image[c].destination
        BY <1>7, <2>2, <3>2 DEF Written
      <4>2. \A d \in Callers : d # c => pc'[d] = "idle"
        BY <1>3, <1>5, <3>2
      <4> QED BY <1>1, <1>2, <2>1, <3>1, <3>2, <4>1, <4>2 DEF Folders, Certain
    <3>3. CASE sole # c
      <4>1. savedTo = Nothing /\ savedTo' = Nothing
        BY <1>2, <1>5, <1>7, <2>2, <3>1, <3>3 DEF Written, Folders
      <4> QED BY <4>1 DEF Folders, Certain
    <3> QED BY <3>2, <3>3
  <2>3. CASE op[c].kind # "prefs"
    <3>1. pc'[c] = "idle" /\ UNCHANGED <<savedTo, missed>>
      BY <1>1, <1>7, <2>3 DEF Written, Done, To, CallersAreTyped
    <3> QED BY <1>1, <1>2, <1>3, <2>1, <2>3, <3>1 DEF Folders, Certain
  <2> QED BY <2>2, <2>3
<1>8. CASE WriteFails(c) \/ Undo(c)
  <2>1. pc'[c] \in {"idle", "undo"} /\ UNCHANGED <<disk, savedTo, missed>>
    BY <1>1, <1>8 DEF WriteFails, Undo, Done, To, CallersAreTyped, store, history
  <2> QED BY <1>1, <1>2, <1>3, <1>4, <2>1 DEF Folders, Certain
<1> QED BY <1>6, <1>7, <1>8

LEMMA StepFolders ==
    ASSUME Basis, Folders, [Next]_vars
    PROVE  Folders'
<1>1. CASE UNCHANGED vars
  BY <1>1 DEF vars, store, callers, history, Folders, Certain
<1>2. CASE ApplyPreferences
  <2>1. /\ Ui \in Callers /\ pc[Ui] = "apply" /\ pc'[Ui] = "idle"
        /\ UNCHANGED <<disk, savedTo, missed>> /\ destination' = image[Ui].destination
        /\ \A d \in Callers : d # Ui => UNCHANGED <<pc[d], op[d], image[d]>>
    BY <1>2, BasisParts
    DEF ApplyPreferences, Done, To, history, Callers, CallersAreTyped
  <2> QED BY <2>1 DEF Folders, Certain
<1>3. ASSUME NEW missing \in SUBSET Removable, Restart(missing) PROVE Folders'
  <2>1. /\ destination' = Resolved(disk.destination, missing)
        /\ disk'.destination \in {disk.destination, destination'}
        /\ Ui \in Callers /\ \A d \in Callers : pc'[d] = "idle"
        /\ savedTo' = savedTo /\ missed' = (missed \/ savedTo \in missing)
    BY <1>3 DEF Restart, Callers
  <2>2. Certain' => /\ Certain /\ destination' = savedTo
                    /\ disk'.destination = savedTo
    BY <2>1 DEF Certain, Folders, Resolved
  <2> QED BY <2>1, <2>2 DEF Folders
<1> QED BY <1>1, <1>2, <1>3, BeginningFolders, SavingFolders DEF Next

(* What the user decided and was told lasts, however many operations       *)
(* overlap afterwards and whichever folders are missing, while the list of *)
(* devices has room: persist and load hand every saved trust on, a failed  *)
(* save puts no list back that lacks it, and no snapshot or start replaces *)
(* the folder that was saved.                                              *)
THEOREM DecisionsAreKept == Spec /\ []HasRoom => []DecisionsLast
<1> DEFINE Inv == Basis /\ Fits /\ Owes /\ Folders
<1>1. Init /\ HasRoom => Inv
  <2> SUFFICES ASSUME Init, HasRoom PROVE Inv
    OBVIOUS
  <2>1. Basis /\ Len(remembered) \in Nat
    BY InitBasis DEF Basis, Confirmed, ListsAreSound, Sound
  <2>2. Fits
    BY <2>1, Numbers DEF Init, HasRoom, Fits
  <2>3. Owes
    BY DEF Init, Owes, Restores
  <2>4. Folders
    BY DEF Init, Folders, Callers
  <2> QED BY <2>1, <2>2, <2>3, <2>4
<1>2. Inv /\ HasRoom /\ HasRoom' /\ [Next]_vars => Inv'
  BY StepBasis, StepFits, StepOwes, StepFolders
<1>3. Inv => DecisionsLast
  <2> SUFFICES ASSUME Inv PROVE DecisionsLast
    OBVIOUS
  <2>1. owed \subseteq TrustedKeys(Revived(disk.peers))
    BY BasisParts, Reviving DEF Fits, Owes
  <2>2. Quiet => owed \subseteq TrustedKeys(remembered)
    BY UndecidedParts DEF Owes
  <2>3. Certain => /\ disk.destination = savedTo
                   /\ Idle(Ui) => destination = savedTo
    BY DEF Folders, Idle
  <2> QED BY <2>1, <2>2, <2>3 DEF DecisionsLast, Certain
<1> HIDE DEF Inv
<1> QED BY <1>1, <1>2, <1>3, PTL DEF Spec
=============================================================================
