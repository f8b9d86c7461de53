--------------------------- MODULE RouteRaceProofs --------------------------
(***************************************************************************)
(* Theorems about RouteRace for any number of routes, any ranks and limits *)
(* and any stagger, stage timeout and deadline that RaceAssumption admits. *)
(*                                                                         *)
(* The inductive invariant has two ideas.  A process that is kept running  *)
(* never meets the deadline: the launches are a stagger apart, an attempt  *)
(* has three stages, and the deadline is beyond their sum.  And a race     *)
(* that ran out of attempts has a verdict against every route it tried, so *)
(* that the next one begins with others as long as there are others.  What *)
(* discovery takes back in between is counted, whatever it is.             *)
(***************************************************************************)
EXTENDS RouteRace, FiniteSetTheorems, TLAPS

Stages == {"connect", "secure", "hello"} \cup Verdicts

TypeOK ==
    /\ behind \in [Routes -> Kinds] /\ steady \in BOOLEAN
    /\ marks \in [Routes -> {"unknown", "reachable", "unreachable"}]
    /\ ranked \in [1..Cardinality(Routes) -> Routes]
    /\ next \in Nat /\ due \in Nat /\ now \in Nat /\ races \in Nat \ {0}
    /\ lifted \in Nat
    /\ DOMAIN attempts \subseteq Routes
    /\ \A r \in DOMAIN attempts : attempts[r] \in [stage : Stages, since : Nat]
    /\ interrupted \in Interrupts
    /\ outcome \in {"racing", "connected", "failed", "canceled", "shutdown"}
    /\ ~Racing => DOMAIN attempts = {}

(* What an attempt has seen of what is behind its route.                   *)
AttemptsAreFair ==
    /\ \A r \in DOMAIN attempts :
         /\ attempts[r].stage = "secure" => behind[r] \notin {"closed", "silent"}
         /\ attempts[r].stage = "hello" => behind[r] \in {"other", "peer"}
         /\ attempts[r].stage = "found" => behind[r] = "peer"
         /\ attempts[r].stage = "failed" => behind[r] # "peer"
    /\ \A r \in Routes : marks[r] = "unreachable" => behind[r] # "peer"
    /\ outcome = "connected" => \E r \in Routes : winner = {r} /\ behind[r] = "peer"

(* Times of an undisturbed race.                                           *)
LastLaunch == (Limit - 1) * Stagger

Started(stage) ==
    CASE stage = "connect" -> LastLaunch
      [] stage = "secure" -> LastLaunch + StageTimeout
      [] stage = "hello" -> LastLaunch + 2 * StageTimeout

OnTime ==
    steady /\ Racing =>
      /\ next < Attempted => now <= due /\ due <= next * Stagger
      /\ \A r \in Live : /\ attempts[r].since <= Started(attempts[r].stage)
                         /\ now <= attempts[r].since + StageTimeout
      /\ now <= LastLaunch + 3 * StageTimeout

(* Each launched attempt is still there or ended with a verdict.           *)
Unreachable == {r \in Routes : marks[r] = "unreachable"}
Tried == {ranked[i] : i \in 1..Attempted}

NoneIsLost ==
    /\ next <= Attempted
    /\ Racing => \A i \in 1..next :
         ranked[i] \in DOMAIN attempts \/ ranked[i] \in Unreachable
    /\ steady /\ outcome = "failed" => Tried \subseteq Unreachable

(* The verdicts there are, those this race will bring and those that were  *)
(* taken back add up.                                                      *)
RacesAddUp ==
    steady /\ outcome \in {"racing", "failed"} =>
      \/ \A r \in Routes : behind[r] # "peer"
      \/ Unreachable \cup Tried = Routes
      \/ Cardinality(Unreachable \cup Tried) + lifted >= races * Limit

IInv == TypeOK /\ AttemptsAreFair /\ OnTime /\ NoneIsLost /\ RacesAddUp

-----------------------------------------------------------------------------
(* The constants.                                                          *)
LEMMA Numbers ==
    /\ Limit \in Nat /\ Limit >= 1 /\ Stagger \in Nat /\ StageTimeout \in Nat
    /\ StageTimeout >= 1 /\ LastLaunch \in Nat
    /\ Deadline > LastLaunch + 3 * StageTimeout
    /\ \A k \in Nat : k < Limit => k * Stagger <= LastLaunch
    /\ \A k \in Nat : (k + 1) * Stagger = k * Stagger + Stagger
    /\ \A k \in Nat : (k + 1) * Limit = k * Limit + Limit /\ k * Limit \in Nat
<1>1. /\ Limit \in Nat /\ Limit >= 1 /\ Stagger \in Nat /\ StageTimeout \in Nat
      /\ StageTimeout >= 1
  BY RaceAssumption
<1>2. LastLaunch \in Nat
  BY <1>1 DEF LastLaunch
<1>3. Deadline > LastLaunch + 3 * StageTimeout
  BY RaceAssumption DEF LastLaunch
<1>4. ASSUME NEW k \in Nat, k < Limit PROVE k * Stagger <= LastLaunch
  <2>1. PICK m \in Nat : Limit - 1 = k + m
    BY <1>1, <1>4
  <2>2. LastLaunch = k * Stagger + m * Stagger
    BY <1>1, <2>1 DEF LastLaunch
  <2>3. m * Stagger >= 0 /\ k * Stagger \in Int /\ m * Stagger \in Int
    BY <1>1, <2>1
  <2> QED BY <2>2, <2>3
<1>5. \A k \in Nat : (k + 1) * Stagger = k * Stagger + Stagger
  BY <1>1
<1>6. \A k \in Nat : (k + 1) * Limit = k * Limit + Limit /\ k * Limit \in Nat
  BY <1>1
<1> QED BY <1>1, <1>2, <1>3, <1>4, <1>5, <1>6

LEMMA Sizes ==
    /\ IsFiniteSet(Routes) /\ Cardinality(Routes) \in Nat
    /\ TypeOK => /\ Len(ranked) = Cardinality(Routes)
                 /\ Attempted \in Nat /\ Attempted <= Limit
                 /\ Attempted = IF Cardinality(Routes) < Limit
                                  THEN Cardinality(Routes) ELSE Limit
                 /\ \A i \in 1..Attempted : ranked[i] \in Routes
<1>1. IsFiniteSet(Routes) /\ Cardinality(Routes) \in Nat
  BY RaceAssumption, FS_CardinalityType
<1>2. ASSUME TypeOK PROVE Len(ranked) = Cardinality(Routes)
  BY <1>1, <1>2 DEF TypeOK
<1>3. ASSUME TypeOK
      PROVE  /\ Attempted \in Nat /\ Attempted <= Limit
             /\ Attempted = IF Cardinality(Routes) < Limit
                              THEN Cardinality(Routes) ELSE Limit
             /\ Attempted <= Cardinality(Routes)
  BY <1>1, <1>2, <1>3, Numbers DEF Attempted
<1>4. ASSUME TypeOK PROVE \A i \in 1..Attempted : ranked[i] \in Routes
  BY <1>1, <1>3, <1>4 DEF TypeOK
<1> QED BY <1>1, <1>2, <1>3, <1>4

LEMMA SomeRoutes == TypeOK => Unreachable \cup Tried \subseteq Routes
BY Sizes DEF Unreachable, Tried

(* The first k of a ranking are k routes.                                  *)
LEMMA RankedOnce ==
    ASSUME NEW s \in RankEndpoints, NEW i \in DOMAIN s, NEW j \in DOMAIN s, s[i] = s[j],
           marks \in [Routes -> {"unknown", "reachable", "unreachable"}]
    PROVE  i = j
<1>1. DOMAIN s = 1..Cardinality(Routes) /\ Cardinality(Routes) \in Nat
  BY Sizes DEF RankEndpoints
<1>2. s[i] \in Routes /\ Order[s[i]] \in Nat
  BY RaceAssumption DEF RankEndpoints
<1>3. ~Before(s[i], s[i])
  <2>1. ReachabilityRank(s[i]) \in {0, 1, 2}
    BY <1>2 DEF ReachabilityRank
  <2> QED BY <1>2, <2>1 DEF Before
<1>4. ~(i < j) /\ ~(j < i)
  BY <1>3 DEF RankEndpoints
<1> QED BY <1>1, <1>4

LEMMA FirstOnes ==
    ASSUME NEW s \in RankEndpoints, NEW k \in 0..Cardinality(Routes),
           marks \in [Routes -> {"unknown", "reachable", "unreachable"}]
    PROVE  /\ {s[i] : i \in 1..k} \subseteq Routes
           /\ IsFiniteSet({s[i] : i \in 1..k})
           /\ Cardinality({s[i] : i \in 1..k}) = k
<1> DEFINE T == {s[i] : i \in 1..k}
           f == [i \in 1..k |-> s[i]]
<1>1. k \in Nat /\ 1..k \subseteq DOMAIN s /\ s \in [1..Cardinality(Routes) -> Routes]
  BY Sizes DEF RankEndpoints
<1>2. f \in Surjection(1..k, T)
  BY DEF Surjection
<1>3. f \in Injection(1..k, T)
  <2>1. \A i, j \in 1..k : f[i] = f[j] => i = j
    BY <1>1, RankedOnce
  <2> QED BY <2>1 DEF Injection, IsInjective
<1>4. IsFiniteSet(1..k) /\ Cardinality(1..k) = k
  BY <1>1, FS_Interval
<1>5. IsFiniteSet(T) /\ Cardinality(T) = Cardinality(1..k)
  BY <1>2, <1>3, <1>4, FS_Surjection
<1> QED BY <1>1, <1>4, <1>5

(* A ranking begins with the routes that have no verdict against them.     *)
LEMMA RankingAddsUp ==
    ASSUME NEW s \in RankEndpoints, NEW b \in Int,
           marks \in [Routes -> {"unknown", "reachable", "unreachable"}],
           Unreachable = Routes \/ Cardinality(Unreachable) >= b
    PROVE  LET k == IF Cardinality(Routes) < Limit THEN Cardinality(Routes) ELSE Limit
               T == {s[i] : i \in 1..k}
           IN \/ Unreachable \cup T = Routes
              \/ Cardinality(Unreachable \cup T) >= b + Limit
<1> DEFINE k == IF Cardinality(Routes) < Limit THEN Cardinality(Routes) ELSE Limit
           T == {s[i] : i \in 1..k}
<1>1. k \in 0..Cardinality(Routes) /\ k \in Nat
  BY Sizes, Numbers
<1>2. T \subseteq Routes /\ IsFiniteSet(T) /\ Cardinality(T) = k
  BY <1>1, FirstOnes
<1>3. /\ Unreachable \subseteq Routes /\ IsFiniteSet(Unreachable)
      /\ Cardinality(Unreachable) \in Nat
  BY Sizes, FS_Subset, FS_CardinalityType DEF Unreachable
<1>4. /\ s \in [1..Cardinality(Routes) -> Routes]
      /\ \A r \in Routes : \E i \in DOMAIN s : s[i] = r
      /\ \A i, j \in DOMAIN s : i < j => Before(s[i], s[j])
  BY DEF RankEndpoints
<1>5. CASE Unreachable = Routes
  BY <1>2, <1>3, <1>5
<1>6. CASE Unreachable # Routes /\ \E i \in 1..k : s[i] \in Unreachable
  <2>1. PICK i \in 1..k : s[i] \in Unreachable
    BY <1>6
  <2>2. ASSUME NEW r \in Routes, r \notin Unreachable PROVE r \in T
    <3>1. PICK j \in DOMAIN s : s[j] = r
      BY <1>4
    <3>2. j \in Nat /\ j >= 1 /\ i \in Nat /\ i \in DOMAIN s /\ i <= k
      BY <1>1, <1>4, Sizes
    <3>3. ReachabilityRank(s[i]) = 2 /\ ReachabilityRank(r) \in {0, 1}
      BY <2>1, <2>2 DEF ReachabilityRank, Unreachable
    <3>4. ~Before(s[i], s[j])
      BY <3>1, <3>3 DEF Before
    <3>5. j <= k
      BY <1>1, <1>4, <3>2, <3>4
    <3> QED BY <3>1, <3>2, <3>5
  <2> QED BY <1>2, <1>3, <2>2
<1>7. CASE Unreachable # Routes /\ \A i \in 1..k : s[i] \notin Unreachable
  <2>1. Unreachable \cap T = {}
    BY <1>7
  <2>2. Cardinality(Unreachable \cup T) = Cardinality(Unreachable) + k
    <3> HIDE DEF T, k
    <3>1. Cardinality(Unreachable \cup T) =
            Cardinality(Unreachable) + Cardinality(T) - Cardinality(Unreachable \cap T)
      BY <1>2, <1>3, FS_Union
    <3>2. Cardinality(Unreachable \cap T) = 0
      BY <2>1, FS_EmptySet
    <3> QED BY <1>1, <1>2, <1>3, <3>1, <3>2
  <2>3. CASE k = Limit
    BY <1>3, <1>7, <2>2, <2>3, Numbers
  <2>4. CASE k = Cardinality(Routes)
    <3>1. T = Routes
      BY <1>2, <2>4, Sizes, FS_Subset
    <3> QED BY <1>3, <3>1
  <2> QED BY <2>3, <2>4
<1> QED BY <1>5, <1>6, <1>7

-----------------------------------------------------------------------------
(* A race starts: the first one, or a retry after a failed one.            *)
AddsUp ==
    \A b \in Int :
      Unreachable = Routes \/ Cardinality(Unreachable) >= b =>
        Unreachable \cup Tried = Routes \/ Cardinality(Unreachable \cup Tried) >= b + Limit

LEMMA RaceStarts == TypeOK /\ ranked \in RankEndpoints => AddsUp
<1> SUFFICES ASSUME TypeOK, ranked \in RankEndpoints, NEW b \in Int,
                    Unreachable = Routes \/ Cardinality(Unreachable) >= b
             PROVE  \/ Unreachable \cup Tried = Routes
                    \/ Cardinality(Unreachable \cup Tried) >= b + Limit
  BY DEF AddsUp
<1>1. marks \in [Routes -> {"unknown", "reachable", "unreachable"}]
  BY DEF TypeOK
<1>2. Attempted = IF Cardinality(Routes) < Limit THEN Cardinality(Routes) ELSE Limit
  BY Sizes
<1> QED BY <1>1, <1>2, RankingAddsUp DEF Tried

LEMMA InitIInv == Init => IInv
<1> SUFFICES ASSUME Init PROVE IInv OBVIOUS
<1>1. DOMAIN attempts = {}
  BY DEF Init
<1>2. TypeOK
  <2>1. ranked \in [1..Cardinality(Routes) -> Routes]
    BY DEF Init, RankEndpoints
  <2>2. marks \in [Routes -> {"unknown", "reachable", "unreachable"}]
    BY DEF Init
  <2> QED BY <1>1, <2>1, <2>2 DEF Init, TypeOK, Interrupts
<1>3. Unreachable = {} /\ \A r \in Routes : marks[r] = "unknown"
  BY DEF Init, Unreachable
<1>4. AttemptsAreFair
  BY <1>1, <1>3 DEF Init, AttemptsAreFair
<1>5. OnTime
  <2>1. Live = {}
    BY <1>1 DEF Live
  <2>2. 0 * Stagger = 0 /\ LastLaunch + 3 * StageTimeout >= 0
    BY Numbers
  <2> QED BY <2>1, <2>2 DEF Init, OnTime
<1>6. NoneIsLost
  BY <1>2, Sizes DEF Init, NoneIsLost
<1>7. RacesAddUp
  <2>1. Cardinality(Unreachable) >= 0
    BY <1>3, FS_EmptySet
  <2>2. Unreachable \cup Tried = Routes \/ Cardinality(Unreachable \cup Tried) >= 0 + Limit
    <3>1. AddsUp
      BY <1>2, RaceStarts DEF Init
    <3>2. PICK b \in Int : b = 0
      OBVIOUS
    <3>3. \/ Unreachable \cup Tried = Routes
          \/ Cardinality(Unreachable \cup Tried) >= b + Limit
      BY <2>1, <3>1, <3>2 DEF AddsUp
    <3> QED BY <3>2, <3>3
  <2>3. 0 + Limit = races * Limit /\ lifted = 0 /\ Limit \in Nat
    BY Numbers DEF Init
  <2>4. Cardinality(Unreachable \cup Tried) \in Nat
    <3>1. Unreachable \cup Tried \subseteq Routes
      BY <1>2, Sizes DEF Unreachable, Tried
    <3> QED BY <3>1, Sizes, FS_Subset, FS_CardinalityType
  <2> QED BY <2>2, <2>3, <2>4 DEF RacesAddUp
<1> QED BY <1>2, <1>4, <1>5, <1>6, <1>7 DEF IInv

-----------------------------------------------------------------------------
(* Steps of one attempt.                                                   *)
ToStage(r, stage) ==
    /\ stage = "secure" => attempts[r].stage = "connect" /\ behind[r] \notin {"closed", "silent"}
    /\ stage = "hello" => attempts[r].stage = "secure" /\ behind[r] \in {"other", "peer"}
    /\ stage = "found" => behind[r] = "peer"
    /\ stage = "failed" => behind[r] # "peer"
    /\ stage # "connect"

LEMMA ToKeepsIInv ==
    ASSUME IInv, NEW r \in Live, NEW stage \in Stages, To(r, stage), ToStage(r, stage)
    PROVE  IInv'
<1> USE DEF IInv
<1>1. /\ Racing /\ attempts' = [attempts EXCEPT ![r] = [stage |-> stage, since |-> now]]
      /\ UNCHANGED <<behind, steady, marks, ranked, next, due, now, interrupted,
                     outcome, winner, races, lifted>>
  BY DEF To, setting
<1>2. /\ r \in DOMAIN attempts /\ attempts[r].stage \in {"connect", "secure", "hello"}
      /\ attempts[r].since \in Nat /\ now \in Nat
  BY DEF Live, TypeOK, Stages
<1>3. /\ DOMAIN attempts' = DOMAIN attempts
      /\ attempts'[r] = [stage |-> stage, since |-> now]
      /\ \A x \in DOMAIN attempts : x # r => attempts'[x] = attempts[x]
  BY <1>1, <1>2
<1>4. TypeOK'
  <2>1. \A x \in DOMAIN attempts' : attempts'[x] \in [stage : Stages, since : Nat]
    BY <1>2, <1>3 DEF TypeOK
  <2>2. Racing'
    BY <1>1 DEF Racing
  <2> QED BY <1>1, <1>3, <2>1, <2>2 DEF TypeOK
<1>5. AttemptsAreFair'
  BY <1>1, <1>3 DEF AttemptsAreFair, ToStage
<1>6. OnTime'
  <2> SUFFICES ASSUME steady
               PROVE  /\ next < Attempted => now <= due /\ due <= next * Stagger
                      /\ \A x \in Live' : /\ attempts'[x].since <= Started(attempts'[x].stage)
                                          /\ now <= attempts'[x].since + StageTimeout
                      /\ now <= LastLaunch + 3 * StageTimeout
    BY <1>1 DEF OnTime, Attempted, Started
  <2>1. /\ next < Attempted => now <= due /\ due <= next * Stagger
        /\ now <= LastLaunch + 3 * StageTimeout
    BY <1>1 DEF OnTime
  <2>2. ASSUME NEW x \in Live'
        PROVE  /\ attempts'[x].since <= Started(attempts'[x].stage)
               /\ now <= attempts'[x].since + StageTimeout
    <3>1. CASE x # r
      <4>1. x \in Live /\ attempts'[x] = attempts[x]
        BY <2>2, <3>1, <1>3 DEF Live
      <4> QED BY <1>1, <4>1 DEF OnTime
    <3>2. CASE x = r
      <4>1. attempts'[x].stage = stage /\ attempts'[x].since = now /\ stage \in {"secure", "hello"}
        BY <3>2, <2>2, <1>3 DEF Live, Stages, ToStage
      <4>2. /\ attempts[r].since <= Started(attempts[r].stage)
            /\ now <= attempts[r].since + StageTimeout
        BY <1>1 DEF OnTime
      <4>3. now <= Started(stage)
        BY <4>1, <4>2, <1>2, Numbers DEF Started, ToStage
      <4> QED BY <4>1, <4>3, <1>2, Numbers
    <3> QED BY <3>1, <3>2
  <2> QED BY <2>1, <2>2
<1>7. NoneIsLost'
  BY <1>1, <1>3 DEF NoneIsLost, Racing, Unreachable, Tried, Attempted
<1>8. RacesAddUp'
  BY <1>1 DEF RacesAddUp, Unreachable, Tried, Attempted
<1> QED BY <1>4, <1>5, <1>6, <1>7, <1>8

LEMMA AttemptKeepsIInv ==
    ASSUME IInv, NEW r \in Live,
           \/ Connected(r) \/ Refused(r) \/ Secured(r) \/ Identified(r)
           \/ TimedOut(r) \/ Aborted(r)
    PROVE  IInv'
<1> USE DEF Stages, Verdicts, ToStage
<1>1. /\ r \in Routes /\ behind[r] \in Kinds
      /\ attempts[r].stage \in {"connect", "secure", "hello"}
      /\ attempts[r].stage = "secure" => behind[r] \notin {"closed", "silent"}
      /\ attempts[r].stage = "hello" => behind[r] \in {"other", "peer"}
  BY DEF IInv, TypeOK, AttemptsAreFair, Live
<1>2. CASE Connected(r)
  BY <1>2, ToKeepsIInv DEF Connected
<1>3. CASE Refused(r)
  BY <1>3, ToKeepsIInv DEF Refused
<1>4. CASE Secured(r)
  BY <1>1, <1>4, ToKeepsIInv DEF Secured, Kinds
<1>5. CASE Identified(r)
  BY <1>1, <1>5, ToKeepsIInv DEF Identified, Verdict
<1>6. CASE TimedOut(r)
  BY <1>6, ToKeepsIInv DEF TimedOut, TimeoutIsDue, Answers
<1>7. CASE Aborted(r)
  BY <1>7, ToKeepsIInv DEF Aborted, IInv, TypeOK, Interrupts
<1> QED BY <1>2, <1>3, <1>4, <1>5, <1>6, <1>7

-----------------------------------------------------------------------------
(* Steps of the race.                                                      *)
LEMMA LaunchKeepsIInv == ASSUME IInv, Launch PROVE IInv'
<1> USE DEF IInv
<1> DEFINE who == ranked[next + 1]
           new == [stage |-> "connect", since |-> now]
<1>1. /\ Racing /\ next < Attempted /\ now >= due
      /\ attempts' = [r \in DOMAIN attempts \cup {who} |->
                        IF r \in DOMAIN attempts THEN attempts[r] ELSE new]
      /\ next' = next + 1 /\ due' = now + Stagger
      /\ UNCHANGED <<behind, steady, marks, ranked, now, interrupted, outcome, winner, races, lifted>>
  BY DEF Launch, LaunchIsDue, setting
<1>2. /\ who \in Routes /\ next \in Nat /\ now \in Nat /\ Attempted \in Nat
      /\ Attempted <= Limit
  BY <1>1, Sizes DEF TypeOK
<1> HIDE DEF who
<1>3. /\ DOMAIN attempts' = DOMAIN attempts \cup {who}
      /\ \A r \in DOMAIN attempts : attempts'[r] = attempts[r]
      /\ \A r \in DOMAIN attempts' : r \notin DOMAIN attempts => attempts'[r] = new
  BY <1>1
<1>4. TypeOK'
  <2>1. \A r \in DOMAIN attempts' : attempts'[r] \in [stage : Stages, since : Nat]
    BY <1>2, <1>3 DEF TypeOK, Stages
  <2>2. DOMAIN attempts' \subseteq Routes
    BY <1>2, <1>3 DEF TypeOK
  <2>3. Racing' /\ next' \in Nat /\ due' \in Nat
    BY <1>1, <1>2, Numbers DEF Racing
  <2> QED BY <1>1, <2>1, <2>2, <2>3 DEF TypeOK
<1>5. AttemptsAreFair'
  BY <1>1, <1>3 DEF AttemptsAreFair
<1>6. OnTime'
  <2> SUFFICES ASSUME steady
               PROVE  /\ next + 1 < Attempted => now <= due' /\ due' <= (next + 1) * Stagger
                      /\ \A r \in Live' : /\ attempts'[r].since <= Started(attempts'[r].stage)
                                          /\ now <= attempts'[r].since + StageTimeout
                      /\ now <= LastLaunch + 3 * StageTimeout
    BY <1>1 DEF OnTime, Attempted, Started
  <2>1. now <= due /\ due <= next * Stagger /\ now <= LastLaunch + 3 * StageTimeout
    BY <1>1 DEF OnTime
  <2>2. due \in Nat /\ next * Stagger \in Nat /\ next * Stagger <= LastLaunch
        /\ (next + 1) * Stagger = next * Stagger + Stagger
    BY <1>1, <1>2, Numbers DEF TypeOK
  <2>3. now <= due' /\ due' <= (next + 1) * Stagger
    <3>1. Stagger \in Nat
      BY Numbers
    <3>2. now >= due /\ due' = now + Stagger
      BY <1>1
    <3>3. now = due /\ now <= next * Stagger
      <4>1. now \in Nat /\ due \in Nat /\ now <= due /\ due <= next * Stagger
        BY <1>2, <2>1, <2>2
      <4> QED BY <3>2, <4>1
    <3> HIDE DEF LastLaunch
    <3> QED BY <1>2, <2>2, <3>1, <3>2, <3>3
  <2>4. ASSUME NEW r \in Live'
        PROVE  /\ attempts'[r].since <= Started(attempts'[r].stage)
               /\ now <= attempts'[r].since + StageTimeout
    <3>1. CASE r \in DOMAIN attempts
      <4>1. r \in Live /\ attempts'[r] = attempts[r]
        BY <2>4, <3>1, <1>3 DEF Live
      <4> QED BY <1>1, <4>1 DEF OnTime
    <3>2. CASE r \notin DOMAIN attempts
      <4>1. attempts'[r].since = now /\ attempts'[r].stage = "connect"
        BY <2>4, <3>2, <1>3 DEF Live
      <4> QED BY <4>1, <1>2, <2>1, <2>2, Numbers DEF Started
    <3> QED BY <3>1, <3>2
  <2> QED BY <2>1, <2>3, <2>4
<1>7. NoneIsLost'
  <2>1. \A i \in 1..(next + 1) : ranked[i] \in DOMAIN attempts' \/ ranked[i] \in Unreachable
    BY <1>1, <1>2, <1>3 DEF NoneIsLost, who
  <2>2. next + 1 <= Attempted
    BY <1>1, <1>2
  <2> QED BY <1>1, <2>1, <2>2 DEF NoneIsLost, Racing, Unreachable, Tried, Attempted
<1>8. RacesAddUp'
  BY <1>1 DEF RacesAddUp, Unreachable, Tried, Attempted
<1> QED BY <1>4, <1>5, <1>6, <1>7, <1>8

(* A failed attempt has its verdict recorded.                              *)
LEMMA FailureKeepsIInv ==
    ASSUME IInv, NEW r \in Joinable, Failure(r) PROVE IInv'
<1> USE DEF IInv
<1>1. /\ Racing /\ attempts[r].stage = "failed" /\ r \in DOMAIN attempts
      /\ marks' = [marks EXCEPT ![r] = "unreachable"]
      /\ attempts' = [x \in DOMAIN attempts \ {r} |-> attempts[x]]
      /\ UNCHANGED <<behind, steady, ranked, next, due, now, interrupted, outcome, winner, races, lifted>>
  BY DEF Failure, Learnt, Blamed, Joinable, setting
<1>2. /\ r \in Routes /\ behind[r] # "peer"
      /\ DOMAIN attempts' = DOMAIN attempts \ {r}
      /\ \A x \in DOMAIN attempts' : attempts'[x] = attempts[x]
  BY <1>1 DEF TypeOK, AttemptsAreFair
<1>3. /\ marks' \in [Routes -> {"unknown", "reachable", "unreachable"}]
      /\ \A x \in Routes : marks'[x] = IF x = r THEN "unreachable" ELSE marks[x]
  BY <1>1, <1>2 DEF TypeOK
<1>4. Unreachable' = Unreachable \cup {r}
  BY <1>2, <1>3 DEF Unreachable
<1>5. TypeOK'
  <2>1. /\ DOMAIN attempts' \subseteq Routes
        /\ \A x \in DOMAIN attempts' : attempts'[x] \in [stage : Stages, since : Nat]
    BY <1>2 DEF TypeOK
  <2>2. Racing'
    BY <1>1 DEF Racing
  <2> QED BY <1>1, <1>3, <2>1, <2>2 DEF TypeOK
<1>6. AttemptsAreFair'
  <2>1. \A x \in Routes : marks'[x] = "unreachable" => behind[x] # "peer"
    BY <1>2, <1>3 DEF AttemptsAreFair
  <2> QED BY <1>1, <1>2, <2>1 DEF AttemptsAreFair
<1>7. OnTime'
  <2>1. \A x \in Live' : x \in Live /\ attempts'[x] = attempts[x]
    BY <1>2 DEF Live
  <2> QED BY <1>1, <2>1 DEF OnTime, Racing, Attempted, Started
<1>8. NoneIsLost'
  <2>1. outcome = "racing" /\ outcome' = "racing"
    BY <1>1 DEF Racing
  <2> QED BY <1>1, <1>2, <1>4, <2>1 DEF NoneIsLost, Racing, Tried, Attempted
<1>9. RacesAddUp'
  <2>1. outcome = "racing" /\ outcome' = "racing" /\ Tried' = Tried
    BY <1>1 DEF Racing, Tried, Attempted
  <2>3. Unreachable \cup Tried \subseteq Unreachable' \cup Tried'
    BY <1>4, <2>1
  <2>4. IsFiniteSet(Unreachable' \cup Tried') /\ Unreachable' \cup Tried' \subseteq Routes
    <3>1. Unreachable' \subseteq Routes /\ Tried \subseteq Routes
      BY Sizes DEF Unreachable, Tried
    <3> QED BY <2>1, <3>1, Sizes, FS_Subset
  <2>5. /\ Cardinality(Unreachable \cup Tried) <= Cardinality(Unreachable' \cup Tried')
        /\ Cardinality(Unreachable \cup Tried) \in Nat
        /\ Cardinality(Unreachable' \cup Tried') \in Nat
    BY <2>3, <2>4, FS_Subset, FS_CardinalityType
  <2>6. races * Limit \in Nat /\ lifted \in Nat
    BY Numbers DEF TypeOK
  <2>7. ASSUME steady
        PROVE  \/ \A x \in Routes : behind[x] # "peer"
               \/ Unreachable' \cup Tried' = Routes
               \/ Cardinality(Unreachable' \cup Tried') + lifted >= races * Limit
    <3>1. CASE \A x \in Routes : behind[x] # "peer"
      BY <3>1
    <3>2. CASE Unreachable \cup Tried = Routes
      BY <2>3, <2>4, <3>2
    <3>3. CASE Cardinality(Unreachable \cup Tried) + lifted >= races * Limit
      BY <2>5, <2>6, <3>3
    <3> QED BY <2>1, <2>7, <3>1, <3>2, <3>3 DEF RacesAddUp
  <2> QED BY <1>1, <2>1, <2>7 DEF RacesAddUp
<1> QED BY <1>5, <1>6, <1>7, <1>8, <1>9

(* The end of a race.  An undisturbed one does not end by the deadline.    *)
LEMMA EndKeepsIInv ==
    ASSUME IInv, \/ \E r \in Joinable : Success(r) \/ GivesUp(r)
                 \/ Exhausted \/ DeadlinePasses \/ Interrupted
    PROVE  IInv'
<1> USE DEF IInv
<1>1. /\ Racing /\ outcome' \in {"connected", "failed", "canceled", "shutdown"}
      /\ attempts' = <<>> /\ DOMAIN attempts' = {}
      /\ UNCHANGED <<behind, steady, ranked, next, due, now, interrupted, races, lifted>>
  BY DEF Success, GivesUp, Exhausted, DeadlinePasses, Interrupted, End, setting,
         TypeOK, Interrupts
<1>2. CASE \E r \in Joinable : Success(r)
  <2>1. PICK r \in Joinable : Success(r)
    BY <1>2
  <2>2. /\ outcome' = "connected" /\ winner' = {r} /\ r \in Routes /\ behind[r] = "peer"
        /\ marks' = [marks EXCEPT ![r] = "reachable"]
    BY <2>1 DEF Success, End, Joinable, AttemptsAreFair, TypeOK
  <2>3. /\ marks' \in [Routes -> {"unknown", "reachable", "unreachable"}]
        /\ \A x \in Routes : marks'[x] = "unreachable" => marks[x] = "unreachable"
    BY <2>2 DEF TypeOK
  <2>4. TypeOK'
    BY <1>1, <2>2, <2>3 DEF TypeOK, Racing
  <2>5. AttemptsAreFair'
    BY <1>1, <2>2, <2>3 DEF AttemptsAreFair
  <2>6. OnTime' /\ NoneIsLost' /\ RacesAddUp'
    BY <1>1, <2>2 DEF OnTime, NoneIsLost, RacesAddUp, Racing, Attempted
  <2> QED BY <2>4, <2>5, <2>6
<1>3. CASE ~\E r \in Joinable : Success(r)
  <2>1. /\ outcome' \in {"failed", "canceled", "shutdown"} /\ winner' = {} /\ marks' = marks
    BY <1>3 DEF GivesUp, Learnt, Blamed, Exhausted, DeadlinePasses, Interrupted, End,
                TypeOK, Interrupts
  <2>2. TypeOK'
    BY <1>1, <2>1 DEF TypeOK, Racing
  <2>3. AttemptsAreFair'
    BY <1>1, <2>1 DEF AttemptsAreFair
  <2>4. OnTime'
    BY <1>1, <2>1 DEF OnTime, Racing
  <2>5. ASSUME steady, outcome' = "failed" PROVE Tried \subseteq Unreachable
    <3>1. Exhausted \/ DeadlinePasses
      BY <1>3, <2>5 DEF GivesUp, Interrupted, End, TypeOK, Interrupts
    <3>2. ~DeadlinePasses
      <4>1. now <= LastLaunch + 3 * StageTimeout /\ now \in Nat
        BY <1>1, <2>5 DEF OnTime, TypeOK
      <4>2. ~(now >= Deadline)
        BY <4>1, Numbers, RaceAssumption
      <4> QED BY <4>2 DEF DeadlinePasses
    <3>3. DOMAIN attempts = {} /\ next >= Attempted
      BY <3>1, <3>2 DEF Exhausted, IsExhausted
    <3>4. \A i \in 1..Attempted : i \in 1..next
      BY <3>3, Sizes DEF TypeOK
    <3> QED BY <1>1, <3>3, <3>4 DEF NoneIsLost, Tried
  <2>6. NoneIsLost'
    BY <1>1, <2>1, <2>5 DEF NoneIsLost, Racing, Unreachable, Tried, Attempted
  <2>7. RacesAddUp'
    <3>1. outcome = "racing"
      BY <1>1 DEF Racing
    <3> QED BY <1>1, <2>1, <3>1 DEF RacesAddUp, Unreachable, Tried, Attempted
  <2> QED BY <2>2, <2>3, <2>4, <2>6, <2>7
<1> QED BY <1>2, <1>3

LEMMA InterruptKeepsIInv ==
    ASSUME IInv, NEW how \in Interrupts \ {"no"}, Interrupt(how) PROVE IInv'
<1>1. interrupted' = how
      /\ UNCHANGED <<behind, steady, marks, ranked, next, due, attempts, now, outcome,
                     winner, races, lifted>>
  BY DEF Interrupt, setting
<1>2. TypeOK'
  BY <1>1 DEF IInv, TypeOK, Racing
<1>3. AttemptsAreFair'
  BY <1>1 DEF IInv, AttemptsAreFair
<1>4. OnTime'
  BY <1>1 DEF IInv, OnTime, Racing, Attempted, Live, Started
<1>5. NoneIsLost' /\ RacesAddUp'
  BY <1>1 DEF IInv, NoneIsLost, RacesAddUp, Racing, Unreachable, Tried, Attempted
<1> QED BY <1>2, <1>3, <1>4, <1>5 DEF IInv

(* The clock waits, undisturbed, for a launch or for an attempt that has   *)
(* time left.                                                              *)
LEMMA TickKeepsIInv == ASSUME IInv, Tick PROVE IInv'
<1> USE DEF IInv
<1>1. /\ Racing /\ now' = now + 1
      /\ UNCHANGED <<behind, steady, marks, ranked, next, due, attempts, interrupted,
                     outcome, winner, races, lifted>>
  BY DEF Tick, setting
<1>2. TypeOK'
  BY <1>1 DEF TypeOK, Racing
<1>3. AttemptsAreFair' /\ NoneIsLost' /\ RacesAddUp'
  BY <1>1 DEF AttemptsAreFair, NoneIsLost, RacesAddUp, Racing, Unreachable, Tried, Attempted
<1>4. OnTime'
  <2> SUFFICES ASSUME steady
               PROVE  /\ next < Attempted => now + 1 <= due /\ due <= next * Stagger
                      /\ \A r \in Live : /\ attempts[r].since <= Started(attempts[r].stage)
                                         /\ now + 1 <= attempts[r].since + StageTimeout
                      /\ now + 1 <= LastLaunch + 3 * StageTimeout
    BY <1>1 DEF OnTime, Racing, Attempted, Live, Started
  <2>1. /\ Joinable = {} /\ ~IsExhausted /\ ~LaunchIsDue
        /\ \A r \in Live : ~TimeoutIsDue(r) /\ (Answers(r) => ~StageIsOver(r))
    BY DEF Tick
  <2>2. now \in Nat /\ due \in Nat /\ next \in Nat /\ Attempted \in Nat /\ Attempted <= Limit
    BY Sizes DEF TypeOK
  <2>3. next < Attempted => now + 1 <= due /\ due <= next * Stagger
    BY <1>1, <2>1, <2>2 DEF OnTime, LaunchIsDue
  <2>4. ASSUME NEW r \in Live
        PROVE  /\ attempts[r].since <= Started(attempts[r].stage)
               /\ now + 1 <= attempts[r].since + StageTimeout
               /\ attempts[r].since \in Nat
               /\ attempts[r].stage \in {"connect", "secure", "hello"}
    <3>1. attempts[r].since \in Nat /\ attempts[r].stage \in {"connect", "secure", "hello"}
      BY DEF Live, TypeOK, Stages
    <3>2. ~StageIsOver(r)
      BY <2>1 DEF TimeoutIsDue
    <3> QED BY <1>1, <2>2, <3>1, <3>2, Numbers DEF OnTime, StageIsOver
  <2>5. now + 1 <= LastLaunch + 3 * StageTimeout
    <3>1. CASE Live # {}
      <4>1. PICK r \in Live : TRUE
        BY <3>1
      <4>2. Started(attempts[r].stage) <= LastLaunch + 2 * StageTimeout
        BY <2>4, Numbers DEF Started
      <4>3. Started(attempts[r].stage) \in Nat
        BY <2>4, Numbers DEF Started
      <4> QED BY <2>2, <2>4, <4>2, <4>3, Numbers
    <3>2. CASE Live = {}
      <4>1. next < Attempted
        BY <2>1, <2>2, <3>2 DEF Joinable, IsExhausted
      <4>2. next * Stagger <= LastLaunch /\ next * Stagger \in Nat
        BY <2>2, <4>1, Numbers
      <4> QED BY <2>2, <2>3, <4>1, <4>2, Numbers
    <3> QED BY <3>1, <3>2
  <2> QED BY <2>3, <2>4, <2>5
<1> QED BY <1>2, <1>3, <1>4

(* The next race knows what the last one learnt, less what was taken back. *)
LEMMA RetryKeepsIInv == ASSUME IInv, Retry PROVE IInv'
<1> USE DEF IInv
<1>1. /\ outcome = "failed" /\ outcome' = "racing" /\ races' = races + 1
      /\ ranked' \in RankEndpoints' /\ next' = 0 /\ due' = 0 /\ now' = 0
      /\ UNCHANGED <<behind, steady, attempts, interrupted, winner>>
  BY DEF Retry, setting
<1>2. PICK named \in SUBSET Routes :
        /\ \E report \in [named -> Reports] :
             marks' = [r \in Routes |-> IF r \in named THEN report[r] ELSE marks[r]]
        /\ lifted' = lifted + Cardinality({r \in named : marks[r] = "unreachable"})
  BY DEF Retry
<1> DEFINE back == {r \in named : marks[r] = "unreachable"}
<1>3. /\ marks' \in [Routes -> {"unknown", "reachable", "unreachable"}]
      /\ \A r \in Routes :
           marks'[r] = "unreachable" <=> marks[r] = "unreachable" /\ r \notin named
  BY <1>2, RaceAssumption DEF TypeOK
<1>4. /\ Unreachable' = Unreachable \ back
      /\ back \subseteq Unreachable /\ IsFiniteSet(Unreachable) /\ IsFiniteSet(back)
      /\ Cardinality(back) \in Nat /\ Cardinality(Unreachable) \in Nat
      /\ lifted' = lifted + Cardinality(back)
  <2>1. Unreachable' = Unreachable \ back /\ back \subseteq Unreachable /\ Unreachable \subseteq Routes
    BY <1>3 DEF Unreachable
  <2>2. IsFiniteSet(Unreachable) /\ IsFiniteSet(back)
    BY <2>1, Sizes, FS_Subset
  <2>3. Cardinality(back) \in Nat /\ Cardinality(Unreachable) \in Nat
    BY <2>2, FS_CardinalityType
  <2> QED BY <1>2, <2>1, <2>2, <2>3
<1>5. Cardinality(Unreachable') = Cardinality(Unreachable) - Cardinality(back)
      /\ Cardinality(Unreachable') \in Nat
  <2> HIDE DEF back
  <2>1. Unreachable \cap back = back
    BY <1>4
  <2>2. Cardinality(Unreachable \ back) =
          Cardinality(Unreachable) - Cardinality(Unreachable \cap back)
    BY <1>4, FS_Difference
  <2>3. IsFiniteSet(Unreachable \ back)
    BY <1>4, FS_Difference
  <2> QED BY <1>4, <2>1, <2>2, <2>3, FS_CardinalityType
<1>6. DOMAIN attempts = {} /\ races \in Nat /\ lifted \in Nat
  BY <1>1 DEF TypeOK, Racing
<1>7. TypeOK'
  <2>1. ranked' \in [1..Cardinality(Routes) -> Routes]
    BY <1>1 DEF RankEndpoints
  <2>2. lifted' \in Nat
    BY <1>4, <1>6
  <2> QED BY <1>1, <1>3, <1>6, <2>1, <2>2 DEF TypeOK
<1>8. AttemptsAreFair'
  BY <1>1, <1>3, <1>6 DEF AttemptsAreFair
<1>9. OnTime'
  <2>1. 0 * Stagger = 0 /\ LastLaunch + 3 * StageTimeout >= 0
    BY Numbers
  <2> QED BY <1>1, <1>6, <2>1 DEF OnTime, Live
<1>10. NoneIsLost'
  <2>1. Len(ranked') = Cardinality(Routes)
    BY <1>7, Sizes DEF TypeOK
  <2>2. Attempted' = IF Cardinality(Routes) < Limit THEN Cardinality(Routes) ELSE Limit
    BY <2>1 DEF Attempted
  <2> QED BY <1>1, <2>2, Sizes, Numbers DEF NoneIsLost
<1>11. RacesAddUp'
  <2> SUFFICES ASSUME steady
               PROVE  \/ \A r \in Routes : behind[r] # "peer"
                      \/ Unreachable' \cup Tried' = Routes
                      \/ Cardinality(Unreachable' \cup Tried') + lifted' >= races' * Limit
    BY <1>1 DEF RacesAddUp
  <2>1. Unreachable \cup Tried = Unreachable
    BY <1>1 DEF NoneIsLost
  <2>2. \/ \A r \in Routes : behind[r] # "peer"
        \/ Unreachable = Routes \/ Cardinality(Unreachable) + lifted >= races * Limit
    BY <1>1, <2>1 DEF RacesAddUp
  <2>3. races * Limit \in Nat /\ races' * Limit = races * Limit + Limit
    BY <1>1, <1>6, Numbers
  <2>4. CASE Cardinality(Unreachable) + lifted >= races * Limit
    <3> DEFINE b == races * Limit - lifted'
    <3>1. b \in Int /\ Cardinality(Unreachable') >= b
      BY <1>4, <1>5, <1>6, <2>3, <2>4
    <3> HIDE DEF b
    <3>2. \/ Unreachable' \cup Tried' = Routes
          \/ Cardinality(Unreachable' \cup Tried') >= b + Limit
      <4>1. (TypeOK /\ ranked \in RankEndpoints => AddsUp)'
        BY RaceStarts, PTL
      <4> QED BY <1>1, <1>7, <3>1, <4>1 DEF AddsUp
    <3>3. CASE Cardinality(Unreachable' \cup Tried') >= b + Limit
      <4>1. Cardinality(Unreachable' \cup Tried') \in Nat
        <5>1. (TypeOK => Unreachable \cup Tried \subseteq Routes)'
          BY SomeRoutes, PTL
        <5>2. Unreachable' \cup Tried' \subseteq Routes
          BY <1>7, <5>1
        <5> QED BY <5>2, Sizes, FS_Subset, FS_CardinalityType
      <4> QED BY <1>4, <1>6, <2>3, <3>3, <4>1, Numbers DEF b
    <3> QED BY <3>2, <3>3
  <2>5. CASE Unreachable = Routes
    BY <2>5 DEF AttemptsAreFair, Unreachable
  <2> QED BY <2>2, <2>4, <2>5
<1> QED BY <1>7, <1>8, <1>9, <1>10, <1>11

LEMMA StutterKeepsIInv == ASSUME IInv, UNCHANGED vars PROVE IInv'
<1>1. UNCHANGED <<behind, steady, marks, ranked, next, due, attempts, now, interrupted,
                  outcome, winner, races, lifted>>
  BY DEF vars, setting
<1>2. TypeOK'
  BY <1>1 DEF IInv, TypeOK, Racing
<1>3. AttemptsAreFair'
  BY <1>1 DEF IInv, AttemptsAreFair
<1>4. OnTime'
  BY <1>1 DEF IInv, OnTime, Racing, Attempted, Live, Started
<1>5. NoneIsLost' /\ RacesAddUp'
  BY <1>1 DEF IInv, NoneIsLost, RacesAddUp, Racing, Unreachable, Tried, Attempted
<1> QED BY <1>2, <1>3, <1>4, <1>5 DEF IInv

LEMMA StepKeepsIInv == IInv /\ [Next]_vars => IInv'
<1> SUFFICES ASSUME IInv, [Next]_vars PROVE IInv'
  OBVIOUS
<1>1. CASE \E r \in Live : \/ Connected(r) \/ Refused(r) \/ Secured(r) \/ Identified(r)
                           \/ TimedOut(r) \/ Aborted(r)
  BY <1>1, AttemptKeepsIInv
<1>2. CASE Launch
  BY <1>2, LaunchKeepsIInv
<1>3. CASE \/ \E r \in Joinable : Success(r) \/ GivesUp(r)
           \/ Exhausted \/ DeadlinePasses \/ Interrupted
  BY <1>3, EndKeepsIInv
<1>4. CASE \E r \in Joinable : Failure(r)
  BY <1>4, FailureKeepsIInv
<1>5. CASE \E how \in Interrupts \ {"no"} : Interrupt(how)
  BY <1>5, InterruptKeepsIInv
<1>6. CASE Tick
  BY <1>6, TickKeepsIInv
<1>7. CASE Retry
  BY <1>7, RetryKeepsIInv
<1>8. CASE UNCHANGED vars
  BY <1>8, StutterKeepsIInv
<1> QED BY <1>1, <1>2, <1>3, <1>4, <1>5, <1>6, <1>7, <1>8 DEF Next, Rest

-----------------------------------------------------------------------------
(* The inductive invariant holds in every reachable state.                 *)
THEOREM Invariant == Spec => []IInv
BY InitIInv, StepKeepsIInv, PTL DEF Spec

(* The transfer gets a connection to its peer, and a race that fails       *)
(* although the process ran had no route to the peer among those it may    *)
(* try: the deadline of 12 s is never what ended it.                       *)
THEOREM PeerIsFound == Spec => []RaceFindsThePeer
<1>1. IInv => RaceFindsThePeer
  BY Sizes DEF IInv, RaceFindsThePeer, AttemptsAreFair, NoneIsLost, Tried, Unreachable
<1> QED BY <1>1, Invariant, PTL

(* No route that works is ever marked unreachable.                         *)
THEOREM BlameIsDeserved == Spec => []WorkingRouteIsNotBlamed
<1>1. IInv => WorkingRouteIsNotBlamed
  BY DEF IInv, WorkingRouteIsNotBlamed, AttemptsAreFair
<1> QED BY <1>1, Invariant, PTL

(* However many routes there are, wherever the working one ranks and       *)
(* whichever failures discovery takes back, retries reach it once they are *)
(* more than what was taken back costs.                                    *)
THEOREM RetriesCoverAllRoutes == Spec => []PersistenceFindsTheRoute
<1>1. IInv => PersistenceFindsTheRoute
  <2> SUFFICES ASSUME IInv, steady, outcome = "failed",
                      races * Limit >= Cardinality(Routes) + lifted
               PROVE  \A r \in Routes : behind[r] # "peer"
    BY DEF PersistenceFindsTheRoute
  <2>1. Unreachable \cup Tried = Unreachable
    BY DEF IInv, NoneIsLost
  <2>2. \/ \A r \in Routes : behind[r] # "peer"
        \/ Unreachable = Routes \/ Cardinality(Unreachable) + lifted >= races * Limit
    BY <2>1 DEF IInv, RacesAddUp
  <2>3. /\ Unreachable \subseteq Routes /\ Cardinality(Unreachable) <= Cardinality(Routes)
        /\ Cardinality(Unreachable) \in Nat /\ Cardinality(Routes) \in Nat
        /\ Cardinality(Routes) = Cardinality(Unreachable) => Unreachable = Routes
    BY Sizes, FS_Subset, FS_CardinalityType DEF Unreachable
  <2>4. races * Limit \in Nat /\ lifted \in Nat
    BY Numbers DEF IInv, TypeOK
  <2>5. (\A r \in Routes : behind[r] # "peer") \/ Unreachable = Routes
    BY <2>2, <2>3, <2>4
  <2> QED BY <2>5 DEF IInv, AttemptsAreFair, Unreachable
<1> QED BY <1>1, Invariant, PTL
=============================================================================
