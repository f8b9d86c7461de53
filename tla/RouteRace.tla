----------------------------- MODULE RouteRace ------------------------------
(***************************************************************************)
(* How a transfer reaches its peer: connect_to_peer (transfer.rs) races    *)
(* connect_and_identify (connectivity.rs) over the ranked routes           *)
(* (routing.rs), starting one attempt per Stagger, at most Limit of them.  *)
(* The first verified connection ends the race.  After a failed race the   *)
(* user may try again; the routes are then ranked with what was learnt and *)
(* with what discovery, which reports all the time, said since (peer.rs).  *)
(* Its reports count when the routes are ranked, so they come then.        *)
(*                                                                         *)
(* A step of the clock is one stagger.  What is behind a route does not    *)
(* change, and a route that answers does so within the stage timeout.  If  *)
(* not steady, the process may be kept from running for any time, so that  *)
(* timers are late and the deadline can win.  A panic of an attempt's task *)
(* is left out.                                                            *)
(***************************************************************************)
EXTENDS Integers, Sequences, FiniteSets

CONSTANTS
    Routes,         \* the endpoints listed for the peer
    Order,          \* their rank by class and address, all different
    Limit,          \* MAX_ROUTE_ATTEMPTS
    Stagger,        \* ROUTE_STAGGER
    StageTimeout,   \* IDENTIFICATION_TIMEOUT
    Deadline,       \* ROUTE_CONNECT_TIMEOUT
    MaxRaces,       \* bound on the retries
    Reports         \* what a newer report says of a route

(* 7 * 150 ms + 3 * 2 s < 12 s.                                            *)
ASSUME RaceAssumption ==
    /\ IsFiniteSet(Routes) /\ Order \in [Routes -> Nat]
    /\ {Limit, Stagger, StageTimeout, Deadline, MaxRaces} \subseteq Nat \ {0}
    /\ Reports \subseteq {"unknown", "reachable"}
    /\ Deadline > (Limit - 1) * Stagger + 3 * StageTimeout

VARIABLES
    behind,     \* what answers at each route
    steady,     \* whatever is ready runs before the clock moves on
    marks,      \* reachability of the routes in the registry
    ranked,     \* the candidates of this race, in order
    next,       \* next_index: how many were launched
    due,        \* next_launch
    attempts,   \* route -> [stage, since], the tasks not yet joined
    now, interrupted, outcome, winner, races,
    lifted      \* history: failures that a newer report took back

setting == <<behind, steady>>
vars == <<setting, marks, ranked, next, due, attempts, now, interrupted,
          outcome, winner, races, lifted>>

(* Nothing listens; packets vanish; a service that is not Drop; another    *)
(* version; another device, this device itself or a Hello whose key is not *)
(* the session's; the peer.                                                *)
Kinds == {"closed", "silent", "mute", "old", "other", "peer"}

Verdicts == {"found", "failed", "canceled", "shutdown"}
Interrupts == {"no", "canceled", "shutdown"}

BugOrderOnly(r) == 0

ReachabilityRank(r) ==
    CASE marks[r] = "reachable" -> 0 [] marks[r] = "unknown" -> 1
      [] marks[r] = "unreachable" -> 2

Before(x, y) ==
    \/ ReachabilityRank(x) < ReachabilityRank(y)
    \/ ReachabilityRank(x) = ReachabilityRank(y) /\ Order[x] < Order[y]

(* All routes in ascending rank; ranks differ, so there is one such list.  *)
RankEndpoints ==
    {s \in [1..Cardinality(Routes) -> Routes] :
       /\ \A r \in Routes : \E i \in DOMAIN s : s[i] = r
       /\ \A i, j \in DOMAIN s : i < j => Before(s[i], s[j])}

Attempted == IF Len(ranked) < Limit THEN Len(ranked) ELSE Limit

Init ==
    /\ behind \in [Routes -> Kinds] /\ steady \in BOOLEAN
    /\ marks = [r \in Routes |-> "unknown"] /\ ranked \in RankEndpoints
    /\ next = 0 /\ due = 0 /\ attempts = <<>> /\ now = 0
    /\ interrupted = "no" /\ outcome = "racing" /\ winner = {} /\ races = 1
    /\ lifted = 0

Racing == outcome = "racing"
Live == {r \in DOMAIN attempts : attempts[r].stage \notin Verdicts}
Joinable == DOMAIN attempts \ Live

LaunchIsDue == next < Attempted /\ now >= due

-----------------------------------------------------------------------------
(* connect_and_identify: three bounded stages, each given up when the      *)
(* transfer is cancelled or the application shuts down.                    *)
To(r, stage) ==
    /\ Racing /\ r \in Live
    /\ attempts' = [attempts EXCEPT ![r] = [stage |-> stage, since |-> now]]
    /\ UNCHANGED <<setting, marks, ranked, next, due, now, interrupted, outcome,
                   winner, races, lifted>>

Connected(r) ==
    attempts[r].stage = "connect" /\ behind[r] \notin {"closed", "silent"}
        /\ To(r, "secure")

Refused(r) ==
    attempts[r].stage = "connect" /\ behind[r] = "closed" /\ To(r, "failed")

(* establish: the preface of another version ends it.                      *)
Secured(r) ==
    /\ attempts[r].stage = "secure" /\ behind[r] # "mute"
    /\ To(r, IF behind[r] = "old" THEN "failed" ELSE "hello")

BugIdIsNotCompared(kind) == "found"

(* The checks of the Hello: its key is the session's, it is not this       *)
(* device, it is the device the route was listed for.                      *)
Verdict(kind) == IF kind = "peer" THEN "found" ELSE "failed"

Identified(r) == attempts[r].stage = "hello" /\ To(r, Verdict(behind[r]))

Answers(r) ==
    <<attempts[r].stage, behind[r]>> \notin {<<"connect", "silent">>, <<"secure", "mute">>}

StageIsOver(r) == now - attempts[r].since >= StageTimeout

TimeoutIsDue(r) == ~Answers(r) /\ StageIsOver(r)

TimedOut(r) == TimeoutIsDue(r) /\ To(r, "failed")

Aborted(r) == interrupted # "no" /\ To(r, interrupted)

-----------------------------------------------------------------------------
(* connect_to_peer: whichever branch of the select is ready goes first.    *)
End(result, who, learnt) ==
    /\ outcome' = result /\ winner' = who /\ marks' = learnt /\ attempts' = <<>>
    /\ UNCHANGED <<setting, ranked, next, due, now, interrupted, races, lifted>>

Launch ==
    /\ Racing /\ LaunchIsDue
    /\ attempts' = [r \in DOMAIN attempts \cup {ranked[next + 1]} |->
                      IF r \in DOMAIN attempts THEN attempts[r]
                      ELSE [stage |-> "connect", since |-> now]]
    /\ next' = next + 1 /\ due' = now + Stagger
    /\ UNCHANGED <<setting, marks, ranked, now, interrupted, outcome, winner,
                   races, lifted>>

Success(r) ==
    /\ Racing /\ r \in Joinable /\ attempts[r].stage = "found"
    /\ End("connected", {r}, [marks EXCEPT ![r] = "reachable"])

BugAnyEndIsAFailure(r) == attempts[r].stage # "found"

Blamed(r) == attempts[r].stage = "failed"

Learnt(r) == IF Blamed(r) THEN [marks EXCEPT ![r] = "unreachable"] ELSE marks

Failure(r) ==
    /\ Racing /\ r \in Joinable /\ attempts[r].stage = "failed"
    /\ marks' = Learnt(r)
    /\ attempts' = [x \in DOMAIN attempts \ {r} |-> attempts[x]]
    /\ UNCHANGED <<setting, ranked, next, due, now, interrupted, outcome, winner,
                   races, lifted>>

GivesUp(r) ==
    /\ Racing /\ r \in Joinable /\ attempts[r].stage \in {"canceled", "shutdown"}
    /\ End(attempts[r].stage, {}, Learnt(r))

IsExhausted == DOMAIN attempts = {} /\ next >= Attempted

Exhausted == Racing /\ IsExhausted /\ End("failed", {}, marks)

DeadlinePasses == Racing /\ now >= Deadline /\ End("failed", {}, marks)

Interrupted == Racing /\ interrupted # "no" /\ End(interrupted, {}, marks)

-----------------------------------------------------------------------------
(* The user cancels, or closes the application, at any time.               *)
Interrupt(how) ==
    /\ Racing /\ interrupted = "no" /\ interrupted' = how
    /\ UNCHANGED <<setting, marks, ranked, next, due, attempts, now, outcome,
                   winner, races, lifted>>

Tick ==
    /\ Racing /\ interrupted = "no" /\ now < Deadline
    /\ steady => /\ Joinable = {} /\ ~IsExhausted /\ ~LaunchIsDue
                 /\ \A r \in Live :
                      ~TimeoutIsDue(r) /\ (Answers(r) => ~StageIsOver(r))
    /\ now' = now + 1
    /\ UNCHANGED <<setting, marks, ranked, next, due, attempts, interrupted,
                   outcome, winner, races, lifted>>

(* reconcile_endpoints: a route that a newer report names again is a       *)
(* candidate again, and a reachable one where a probe reached it.          *)
Retry ==
    /\ outcome = "failed" /\ races < MaxRaces /\ races' = races + 1
    /\ \E named \in SUBSET Routes :
         /\ \E report \in [named -> Reports] :
              marks' = [r \in Routes |-> IF r \in named THEN report[r] ELSE marks[r]]
         /\ lifted' = lifted + Cardinality({r \in named : marks[r] = "unreachable"})
    /\ ranked' \in RankEndpoints' /\ next' = 0 /\ due' = 0 /\ now' = 0
    /\ outcome' = "racing"
    /\ UNCHANGED <<setting, attempts, interrupted, winner>>

Rest == ~Racing /\ UNCHANGED vars

Next ==
    \/ \E r \in Live : \/ Connected(r) \/ Refused(r) \/ Secured(r) \/ Identified(r)
                       \/ TimedOut(r) \/ Aborted(r)
    \/ Launch \/ Exhausted \/ DeadlinePasses \/ Interrupted
    \/ \E r \in Joinable : Success(r) \/ Failure(r) \/ GivesUp(r)
    \/ \E how \in Interrupts \ {"no"} : Interrupt(how)
    \/ Tick \/ Retry \/ Rest

Spec == Init /\ [][Next]_vars

-----------------------------------------------------------------------------
(* Stale, silent or foreign routes do not keep a working one from being    *)
(* used, nor are they used: the connection handed to the transfer leads to *)
(* the device it is for, and a race that fails although the process ran    *)
(* had no route to it among those it may try.                              *)
RaceFindsThePeer ==
    /\ outcome = "connected" => \E r \in Routes : winner = {r} /\ behind[r] = "peer"
    /\ steady /\ outcome = "failed" =>
           \A i \in 1..Attempted : behind[ranked[i]] # "peer"

(* Losing the race, cancellation and shutdown are not held against a       *)
(* route: one that works is never marked unreachable.                      *)
WorkingRouteIsNotBlamed ==
    \A r \in Routes : behind[r] = "peer" => marks[r] # "unreachable"

(* More routes than one race may try do not hide the working one from who  *)
(* retries, wherever it ranked: each race that fails tries Limit routes    *)
(* more, less those whose failure a newer report took back.                *)
PersistenceFindsTheRoute ==
    steady /\ outcome = "failed" /\ races * Limit >= Cardinality(Routes) + lifted
        => \A r \in Routes : behind[r] # "peer"
=============================================================================
