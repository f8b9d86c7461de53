----------------------------- MODULE Discovery ------------------------------
(***************************************************************************)
(* The discovery workers (src-tauri/src/discovery.rs) on top of the peer   *)
(* registry.  A prober (local fallback, Tailscale, remembered endpoints)   *)
(* works in cycles: poll candidates, probe them, apply what answered, take *)
(* back what answered last time and not now, tell the interface.  The mDNS *)
(* thread applies events one at a time and restarts its session when the   *)
(* daemon goes away.  Devices join, leave and take over addresses at any   *)
(* moment, also between a probe and the use of its result.                 *)
(*                                                                         *)
(* A probe that is skipped while an update is being installed, one that    *)
(* fails and a candidate that timed out are the same: no answer.           *)
(***************************************************************************)
EXTENDS PeerRegistry

CONSTANTS
    Workers,        \* the probing workers
    Candidates,     \* worker -> what it may poll: [source, addr, expects]
    Anyone,         \* a candidate that expects no particular device
    Nobody,         \* an address where no device answers
    Advertised,     \* device -> its mDNS source
    KeyOf           \* the key each device has

Mdns == "mdns"
Threads == Workers \cup {Mdns}

ASSUME DiscoveryAssumption ==
    /\ Mdns \notin Workers /\ Anyone \notin Ids /\ Nobody \notin Ids
    /\ \A listing \in SUBSET Ids : listing # Nobody
    /\ KeyOf \in [Ids -> Keys] /\ Mdns \in Range(DiscoveryOf)
    /\ \A id \in DOMAIN Advertised :
         Advertised[id] \in Sources /\ DiscoveryOf[Advertised[id]] = Mdns
    /\ \A w \in Workers : \A c \in Candidates[w] :
         c.source \in Sources /\ DiscoveryOf[c.source] = w /\ c.addr \in Addrs
    /\ \A w \in Workers : \A c, x \in Candidates[w] :
         c.source = x.source => c.expects = x.expects

VARIABLES
    occupant,   \* which device answers at each address
    stage,      \* worker -> idle, probing, leaving
    todo,       \* worker -> candidates not probed yet
    won,        \* worker -> <<candidate, device>> that answered, not applied
    applied,    \* worker -> device just observed, its key not recorded yet
    previous,   \* worker -> sources of its last cycle
    current,    \* worker -> sources of this cycle
    session,    \* mDNS: up, failing, down; off when its thread did not start
    due,        \* threads that changed the registry and have not said so
    letter,     \* thread -> the list it read and has not emitted, or Nobody
    shown,      \* the list the interface got last
    alone,      \* history: the last list was read with no other under way
    answered    \* history: worker -> <<source, device>> of its last cycle

prober == <<stage, todo, won, applied, previous, current, answered>>
screen == <<letter, shown, alone>>
all == <<vars, prober, screen, occupant, session, due>>

DiscoveryInit ==
    /\ Init
    /\ occupant \in [Addrs -> Ids \cup {Nobody}]
    /\ stage = [w \in Workers |-> "idle"]
    /\ todo = [w \in Workers |-> {}] /\ won = todo /\ answered = todo
    /\ previous = todo /\ current = todo
    /\ applied = [w \in Workers |-> Nobody]
    /\ session \in {"up", "off"}
    /\ due = {}
    /\ letter = [t \in Threads |-> Nobody] /\ shown = {} /\ alone = TRUE

(* Whoever answered at an address may leave, and another take it over.     *)
Moves(a, d) ==
    /\ occupant[a] # d /\ occupant' = [occupant EXCEPT ![a] = d]
    /\ UNCHANGED <<vars, prober, screen, session, due>>

-----------------------------------------------------------------------------
(* One cycle of a prober.  Any part of the candidates may be polled: the   *)
(* client is down, a response was late, an entry is too old.               *)
Poll(w) ==
    /\ stage[w] = "idle" /\ w \notin due /\ letter[w] = Nobody
    /\ stage' = [stage EXCEPT ![w] = "probing"]
    /\ \E cs \in SUBSET Candidates[w] : todo' = [todo EXCEPT ![w] = cs]
    /\ answered' = [answered EXCEPT ![w] = {}]
    /\ UNCHANGED <<vars, screen, won, applied, previous, current,
                   occupant, session, due>>

Answers(c, d) == d # Nobody /\ c.expects \in {Anyone, d}

Probe(w, c) ==
    /\ stage[w] = "probing" /\ c \in todo[w]
    /\ todo' = [todo EXCEPT ![w] = @ \ {c}]
    /\ \/ /\ Answers(c, occupant[c.addr])
          /\ won' = [won EXCEPT ![w] = @ \cup {<<c, occupant[c.addr]>>}]
       \/ UNCHANGED won
    /\ UNCHANGED <<vars, screen, stage, applied, previous, current, answered,
                   occupant, session, due>>

(* apply_observation_visible answers TRUE for more than fresh timestamps.  *)
Look(listing) == {<<e.id, e.addr, e.source, e.reach>> : e \in listing}

Visible ==
    \/ DOMAIN peers' # DOMAIN peers \/ Look(obs') # Look(obs)
    \/ Look(endpoints') # Look(endpoints)
    \/ \E id \in DOMAIN peers : peers'[id].key # peers[id].key

BugOnlyArrivals(t) ==
    due' = IF DOMAIN peers' \subseteq DOMAIN peers THEN due ELSE due \cup {t}

Noted(t) == due' = IF Visible THEN due \cup {t} ELSE due

(* apply_probe_successes: the observation of an answer first, ...          *)
Apply(w, x) ==
    /\ stage[w] = "probing" /\ todo[w] = {}
    /\ x \in won[w] /\ applied[w] = Nobody
    /\ Observe(x[2], KeyOf[x[2]], x[1].source, {x[1].addr}, clock)
    /\ won' = [won EXCEPT ![w] = @ \ {x}]
    /\ applied' = [applied EXCEPT ![w] = x[2]]
    /\ current' = [current EXCEPT ![w] = @ \cup {x[1].source}]
    /\ answered' = [answered EXCEPT ![w] = @ \cup {<<x[1].source, x[2]>>}]
    /\ Noted(w)
    /\ UNCHANGED <<screen, stage, todo, previous, occupant, session>>

(* ... then the key it proved, in a second critical section.               *)
Name(w) ==
    /\ applied[w] # Nobody
    /\ Authenticate(applied[w], KeyOf[applied[w]])
    /\ applied' = [applied EXCEPT ![w] = Nobody]
    /\ UNCHANGED <<screen, stage, todo, won, previous, current, answered,
                   occupant, session, due>>

(* remove_old_sources, one source at a time.                               *)
BugOldMeansBack(w) == previous[w] \cap current[w]

Old(w) == previous[w] \ current[w]

Leave(w) ==
    /\ stage[w] = "probing" /\ todo[w] = {} /\ won[w] = {} /\ applied[w] = Nobody
    /\ stage' = [stage EXCEPT ![w] = "leaving"]
    /\ previous' = [previous EXCEPT ![w] = Old(w)]
    /\ UNCHANGED <<vars, screen, todo, won, applied, current, answered,
                   occupant, session, due>>

Forget(w, s) ==
    /\ stage[w] = "leaving" /\ s \in previous[w]
    /\ RemoveSource(s)
    /\ previous' = [previous EXCEPT ![w] = @ \ {s}]
    /\ Noted(w)
    /\ UNCHANGED <<screen, stage, todo, won, applied, current, answered,
                   occupant, session>>

EndCycle(w) ==
    /\ stage[w] = "leaving" /\ previous[w] = {}
    /\ stage' = [stage EXCEPT ![w] = "idle"]
    /\ previous' = [previous EXCEPT ![w] = current[w]]
    /\ current' = [current EXCEPT ![w] = {}]
    /\ UNCHANGED <<vars, screen, todo, won, applied, answered,
                   occupant, session, due>>

-----------------------------------------------------------------------------
(* The mDNS thread.  What it resolves need not be true any more.           *)
Ready == session = "up" /\ Mdns \notin due /\ letter[Mdns] = Nobody

others == <<prober, screen, occupant>>

Resolve(id, key, at) ==
    /\ Ready /\ id \in DOMAIN Advertised
    /\ Observe(id, key, Advertised[id], at, clock)
    /\ Noted(Mdns) /\ UNCHANGED <<others, session>>

Removed(id) ==
    /\ Ready /\ id \in DOMAIN Advertised
    /\ RemoveSource(Advertised[id])
    /\ Noted(Mdns) /\ UNCHANGED <<others, session>>

Purge ==
    /\ Ready
    /\ Expire(Mdns)
    /\ Noted(Mdns) /\ UNCHANGED <<others, session>>

Disconnect ==
    /\ Ready /\ session' = "failing"
    /\ UNCHANGED <<vars, others, due>>

SessionLost ==
    /\ session = "failing" /\ session' = "down"
    /\ RemoveDiscovery(Mdns)
    /\ due' = due \cup {Mdns}
    /\ UNCHANGED others

Retry ==
    /\ session = "down" /\ Mdns \notin due /\ letter[Mdns] = Nobody
    /\ session' = "up" /\ due' = due \cup {Mdns}
    /\ UNCHANGED <<vars, others>>

-----------------------------------------------------------------------------
(* emit_state reads the list under the lock and emits it after.            *)
Read(t) ==
    /\ t \in due /\ (t # Mdns => stage[t] = "idle")
    /\ letter' = [letter EXCEPT ![t] = DOMAIN peers]
    /\ alone' = \A u \in Threads : letter[u] = Nobody
    /\ due' = due \ {t}
    /\ UNCHANGED <<vars, prober, shown, occupant, session>>

Emit(t) ==
    /\ letter[t] # Nobody
    /\ shown' = letter[t] /\ letter' = [letter EXCEPT ![t] = Nobody]
    /\ UNCHANGED <<vars, prober, alone, occupant, session, due>>

Cycle(w) ==
    \/ Poll(w) \/ (\E c \in todo[w] : Probe(w, c))
    \/ (\E x \in won[w] : Apply(w, x)) \/ Name(w)
    \/ Leave(w) \/ (\E s \in previous[w] : Forget(w, s)) \/ EndCycle(w)
    \/ Read(w) \/ Emit(w)

MdnsStep ==
    \/ \E id \in Ids, key \in Keys, at \in (SUBSET Addrs) \ {{}} : Resolve(id, key, at)
    \/ \E id \in Ids : Removed(id)
    \/ Purge \/ Disconnect \/ SessionLost \/ Retry \/ Read(Mdns) \/ Emit(Mdns)

(* A transfer reports how its connection to an offered route ended.        *)
Reports ==
    /\ \E id \in Ids, a \in Addrs : RouteSuccess(id, a) \/ RouteFailure(id, a)
    /\ UNCHANGED <<prober, screen, occupant, session, due>>

Passes == Tick /\ UNCHANGED <<prober, screen, occupant, session, due>>

DiscoveryNext ==
    \/ \E a \in Addrs, d \in Ids \cup {Nobody} : Moves(a, d)
    \/ \E w \in Workers : Cycle(w)
    \/ MdnsStep
    \/ Reports
    \/ Passes

(* The workers are loops on threads of their own; the network owes nothing.*)
DiscoverySpec ==
    /\ DiscoveryInit /\ [][DiscoveryNext]_all
    /\ \A w \in Workers : WF_all(Cycle(w))

-----------------------------------------------------------------------------
Reported(w) == {o \in obs : DiscoveryOf[o.source] = w}
TakesAnyone(w, s) == \E c \in Candidates[w] : c.source = s /\ c.expects = Anyone

(* After a cycle the worker vouches for every device that proved its key   *)
(* in this very cycle, whatever the other threads withdrew meanwhile, and  *)
(* for no source that was silent.  Another device than the one that        *)
(* answered is left only at a source that takes anyone: it is named after  *)
(* an address, so that it stays current when a device takes that over.     *)
OnlyWhoAnswered ==
    \A w \in Workers : stage[w] = "idle" =>
        /\ \A x \in answered[w] : \E o \in Reported(w) : x = <<o.source, o.id>>
        /\ \A o \in Reported(w) : \E x \in answered[w] :
             x[1] = o.source /\ (x[2] = o.id \/ TakesAnyone(w, o.source))

(* Once no thread has anything left to tell, the interface shows the list, *)
(* unless two threads had read it at once: the older copy may arrive last  *)
(* and stay until the next change.                                         *)
ShownIsCurrent ==
    due = {} /\ alone /\ (\A t \in Threads : letter[t] = Nobody) => shown = DOMAIN peers

(* A source at which nobody answers any more that it takes, because its    *)
(* device left for good or another one moved in, vouches for nobody in the *)
(* end.                                                                    *)
SilentSourceIsGivenUp ==
    \A w \in Workers : \A s \in {c.source : c \in Candidates[w]} :
        <>[](\A c \in Candidates[w] : c.source = s => ~Answers(c, occupant[c.addr]))
            => <>[](\A o \in obs : o.source # s)
=============================================================================
