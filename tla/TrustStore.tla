----------------------------- MODULE TrustStore -----------------------------
(***************************************************************************)
(* What AppState remembers and writes to settings.json                     *)
(* (src-tauri/src/models.rs): remembered devices with their trust, and the *)
(* receive destination.  Every operation changes memory under a lock,      *)
(* releases it, and only then saves a snapshot; a failed save puts an      *)
(* earlier copy back.  The steps between the locks are separate actions,   *)
(* so operations of several threads overlap; a restart keeps only what the *)
(* file holds.                                                             *)
(*                                                                         *)
(* History variables record what the user decided and was told.  No action *)
(* of the program depends on them.  What operations that overlap leave     *)
(* behind is anyone's guess, so most of them follow the operations that    *)
(* had the store to themselves.                                            *)
(***************************************************************************)
EXTENDS Integers, SequencesExt

CONSTANTS
    Identities,     \* [id, key] of the devices that complete a handshake
    Routes,         \* endpoints, ordered by address
    Destinations, Fallback,   \* receive folders; Fallback is the default one
    Removable,      \* folders that may be missing when the program starts
    Legacy,         \* devices in the settings file of an older release
    Tasks, Ui,      \* tasks and threads; the thread that runs UI commands
    NoKey, Nothing,
    MaxPeers,       \* MAX_REMEMBERED_PEERS
    MaxRoutes,      \* MAX_REMEMBERED_ENDPOINTS
    MaxClock,       \* bound: seconds told apart
    MaxOverlap,     \* bound: operations in progress at the same time
    MaxStarts       \* bound: operations of a behaviour

Callers == Tasks \cup {Ui}
Ids  == {who.id : who \in Identities}
Keys == {who.key : who \in Identities}

Operations == [kind : {"trust", "forget", "remember", "prefs"},
               key : Keys \cup {NoKey}]

(* Before there were keys nobody was trusted.                              *)
ASSUME StoreAssumption ==
    /\ Routes \subseteq Nat /\ Ids \subseteq Nat
    /\ NoKey \notin Keys /\ Ui \notin Tasks
    /\ Nothing \notin Operations \cup Callers \cup Destinations
    /\ Legacy \in Seq([id : Nat, key : {NoKey}, routes : SUBSET Routes,
                       trusted : {FALSE}, at : Nat])
    /\ Fallback \in Destinations \ Removable
    /\ {MaxPeers, MaxRoutes, MaxOverlap} \subseteq Nat \ {0}
    /\ {MaxClock, MaxStarts} \subseteq Nat

VARIABLES
    remembered,   \* remembered_peers
    destination,  \* preferences.destination
    disk,         \* settings.json
    clock,        \* unix_now
    started,      \* operations so far
    pc, op,       \* control point and operation of each caller
    previous,     \* the copy trust_peer and forget_trusted_device restore
    image,        \* the settings a caller is writing
    confirmed,    \* keys the user ever chose to trust
    forgotten,    \* keys the user forgot and did not trust again
    sole,         \* who had the store to itself since it started, or Nothing
    owed,         \* keys whose trust was saved and not withdrawn since
    barred,       \* keys whose trust was withdrawn or could not be saved
    savedTo,      \* the destination last saved, or Nothing if none for sure
    missed        \* that folder was missing at a start since

store   == <<remembered, destination, disk, clock, started>>
callers == <<pc, op, previous, image>>
history == <<confirmed, forgotten, sole, owed, barred, savedTo, missed>>
vars == <<store, callers, history>>

Memory == [peers |-> remembered, destination |-> destination]

Init ==
    /\ remembered = Legacy /\ destination = Fallback
    /\ disk = [peers |-> Legacy, destination |-> Fallback]
    /\ clock = 0 /\ started = 0
    /\ pc = [c \in Callers |-> "idle"]
    /\ op = [c \in Callers |-> Nothing]
    /\ previous = [c \in Callers |-> Nothing]
    /\ image = [c \in Callers |-> Nothing]
    /\ confirmed = {} /\ forgotten = {} /\ owed = {} /\ barred = {}
    /\ sole = Nothing /\ savedTo = Fallback /\ missed = FALSE

TrustedKeys(peers) == {peers[i].key : i \in {j \in DOMAIN peers : peers[j].trusted}}

Idle(c) == pc[c] = "idle"
Quiet == \A c \in Callers : Idle(c)

(* The keys that an operation decides about.                               *)
Concern(o) ==
    IF o.kind = "trust"
      THEN {w.key : w \in {v \in Identities :
                             \E x \in Identities : x.key = o.key /\ x.id = v.id}}
    ELSE IF o.kind = "forget" THEN {o.key} ELSE {}

(* Operations under way: the one that starts and the others.               *)
Together(o) == {o} \cup {op[c] : c \in {d \in Callers : ~Idle(d)}}

(* A caller starts operation o; the clock may have moved.  From here on    *)
(* nothing is certain of what two operations under way both decide.        *)
Starts(c, o) ==
    /\ Idle(c)
    /\ Cardinality({d \in Callers : ~Idle(d)}) < MaxOverlap
    /\ started < MaxStarts /\ started' = started + 1
    /\ clock' \in clock..MaxClock /\ clock' <= clock + 1
    /\ sole' = IF Quiet THEN c ELSE Nothing
    /\ owed' = IF Quiet THEN owed ELSE owed \ UNION {Concern(x) : x \in Together(o)}
    /\ savedTo' = IF Quiet \/ \A x \in Together(o) : x.kind # "prefs"
                    THEN savedTo ELSE Nothing

To(c, l) == pc' = [pc EXCEPT ![c] = l]

(* The operation ends without another step.                                *)
Done(c) ==
    /\ To(c, "idle")
    /\ op' = [op EXCEPT ![c] = Nothing]
    /\ previous' = [previous EXCEPT ![c] = Nothing]
    /\ image' = [image EXCEPT ![c] = Nothing]

-----------------------------------------------------------------------------
(* What a filter and a stable sort of a list return: its elements at some  *)
(* places, in some order of the places.                                    *)
Arranged(peers, places, before) ==
    LET n == Cardinality(places)
        order == CHOOSE p \in [1..n -> places] :
                   /\ \A i, j \in 1..n : i < j => <<p[i], p[j]>> \in before
                   /\ \A x \in places : \E i \in 1..n : p[i] = x
    IN [i \in 1..n |-> peers[order[i]]]

Only(peers, places) ==
    Arranged(peers, places, {pair \in places \X places : pair[1] < pair[2]})

-----------------------------------------------------------------------------
(* trust_peer: other keys of the same device lose their trust, the entry   *)
(* of this key gains it.                                                   *)
Demoted(peer, who) ==
    IF peer.id = who.id /\ peer.key # who.key
      THEN [peer EXCEPT !.trusted = FALSE] ELSE peer

AfterTrust(peers, who, now) ==
    LET demoted == [i \in DOMAIN peers |-> Demoted(peers[i], who)]
        k == SelectInSeq(demoted, LAMBDA p : p.key = who.key)
    IN IF k = 0
         THEN Append(demoted, [id |-> who.id, key |-> who.key, routes |-> {},
                               trusted |-> TRUE, at |-> now])
         ELSE [demoted EXCEPT ![k] =
                 [@ EXCEPT !.id = who.id, !.trusted = TRUE, !.at = now]]

Trust(c, who) ==
    /\ c \in Tasks /\ Starts(c, [kind |-> "trust", key |-> who.key])
    /\ remembered' = AfterTrust(remembered, who, clock')
    /\ previous' = [previous EXCEPT ![c] = remembered]
    /\ op' = [op EXCEPT ![c] = [kind |-> "trust", key |-> who.key]]
    /\ To(c, "save")
    /\ confirmed' = confirmed \cup {who.key}
    /\ forgotten' = forgotten \ {who.key}
    /\ barred' = barred \ {who.key}
    /\ UNCHANGED <<destination, disk, image, missed>>

(* forget_trusted_device: saves only when an entry disappeared.            *)
BugForgetsOneEntry(peers, key) ==
    LET k == SelectInSeq(peers, LAMBDA p : p.key = key)
    IN IF k = 0 THEN peers ELSE RemoveAt(peers, k)

AfterForget(peers, key) == Only(peers, {i \in DOMAIN peers : peers[i].key # key})

Forget(key) ==
    /\ Starts(Ui, [kind |-> "forget", key |-> key])
    /\ remembered' = AfterForget(remembered, key)
    /\ IF remembered' = remembered
         THEN /\ barred' = IF Quiet /\ key \notin TrustedKeys(disk.peers)
                             THEN barred \cup {key} ELSE barred
              /\ UNCHANGED callers
         ELSE /\ previous' = [previous EXCEPT ![Ui] = remembered]
              /\ op' = [op EXCEPT ![Ui] = [kind |-> "forget", key |-> key]]
              /\ To(Ui, "save") /\ UNCHANGED <<image, barred>>
    /\ forgotten' = forgotten \cup {key}
    /\ UNCHANGED <<destination, disk, confirmed, missed>>

-----------------------------------------------------------------------------
(* remember_peer, after a handshake with who at route.                     *)
BugBoundByDevice(peer, who) == peer.id = who.id

SameDevice(peer, who) ==
    \/ peer.key = who.key
    \/ peer.id = who.id /\ peer.key = NoKey

Trimmed(routes, route) ==
    IF Cardinality(routes \cup {route}) <= MaxRoutes
      THEN routes \cup {route}
      ELSE (routes \cup {route}) \ {Min(routes \ {route})}

Newer(p, q) == p.at > q.at \/ (p.at = q.at /\ p.id < q.id)

Sorted(peers) ==
    Arranged(peers, DOMAIN peers,
             {pair \in (DOMAIN peers) \X (DOMAIN peers) :
                LET p == peers[pair[1]]  q == peers[pair[2]]
                IN Newer(p, q) \/ (~Newer(q, p) /\ pair[1] < pair[2])})

Truncated(peers) == SubSeq(peers, 1, Min({Len(peers), MaxPeers}))

EntryOf(peers, who) == SelectInSeq(peers, LAMBDA p : SameDevice(p, who))

AfterRemember(peers, who, route, now) ==
    LET k == EntryOf(peers, who)
    IN IF k = 0
         THEN Truncated(Sorted(Append(peers,
                [id |-> who.id, key |-> who.key, routes |-> {route},
                 trusted |-> FALSE, at |-> now])))
         ELSE [peers EXCEPT ![k] =
                [id |-> who.id, key |-> who.key,
                 routes |-> Trimmed(@.routes, route),
                 trusted |-> @.trusted /\ @.key # NoKey, at |-> now]]

(* A new device, key or route must be saved.                               *)
DurableChange(peers, who, route) ==
    LET k == EntryOf(peers, who)
    IN \/ k = 0
       \/ peers[k].key # who.key \/ peers[k].id # who.id
       \/ route \notin peers[k].routes

(* A device that only changed its name or system is saved as well.         *)
Remember(c, who, route) ==
    /\ c \in Tasks /\ Starts(c, [kind |-> "remember", key |-> who.key])
    /\ remembered' = AfterRemember(remembered, who, route, clock')
    /\ \/ /\ op' = [op EXCEPT ![c] = [kind |-> "remember", key |-> who.key]]
          /\ To(c, "save") /\ UNCHANGED <<previous, image>>
       \/ ~DurableChange(remembered, who, route) /\ UNCHANGED callers
    /\ UNCHANGED <<destination, disk, confirmed, forgotten, barred, missed>>

-----------------------------------------------------------------------------
(* update_preferences: the file is written from the new destination before *)
(* memory changes.                                                         *)
SetPreferences(folder) ==
    /\ Starts(Ui, [kind |-> "prefs", key |-> NoKey])
    /\ op' = [op EXCEPT ![Ui] = [kind |-> "prefs", key |-> NoKey]]
    /\ image' = [image EXCEPT ![Ui] =
                   [peers |-> remembered, destination |-> folder]]
    /\ To(Ui, "write")
    /\ UNCHANGED <<remembered, destination, disk, previous, confirmed, forgotten,
                   barred, missed>>

(* preferences.write() waits for the readers that persist() keeps locked   *)
(* during a write.                                                         *)
ApplyPreferences ==
    /\ pc[Ui] = "apply"
    /\ \A c \in Tasks : pc[c] # "write"
    /\ destination' = image[Ui].destination
    /\ Done(Ui)
    /\ UNCHANGED <<remembered, disk, clock, started, history>>

(* persist: the snapshot, then the write and its atomic replacement.       *)
Snapshot(c) ==
    /\ pc[c] = "save"
    /\ image' = [image EXCEPT ![c] = Memory]
    /\ To(c, "write")
    /\ UNCHANGED <<store, op, previous, history>>

Written(c) ==
    /\ pc[c] = "write"
    /\ disk' = image[c]
    /\ IF op[c].kind = "prefs"
         THEN To(c, "apply") /\ UNCHANGED <<op, previous, image>>
         ELSE Done(c)
    /\ owed' = (owed \ Concern(op[c]))
                 \cup (IF sole = c /\ op[c].kind = "trust" THEN {op[c].key} ELSE {})
    /\ barred' = IF sole = c /\ op[c].kind = "forget" THEN barred \cup {op[c].key}
                                                      ELSE barred
    /\ IF sole = c /\ op[c].kind = "prefs"
         THEN savedTo' = image[c].destination /\ missed' = FALSE
         ELSE UNCHANGED <<savedTo, missed>>
    /\ UNCHANGED <<remembered, destination, clock, started, confirmed, forgotten, sole>>

Restoring == {"trust", "forget"}

WriteFails(c) ==
    /\ pc[c] = "write"
    /\ IF op[c].kind \in Restoring
         THEN To(c, "undo") /\ UNCHANGED <<op, previous, image>>
         ELSE Done(c)
    /\ UNCHANGED <<store, history>>

(* The whole earlier list returns.  A device that could not be forgotten   *)
(* is reported to the user as such.                                        *)
Undo(c) ==
    /\ pc[c] = "undo"
    /\ remembered' = previous[c]
    /\ forgotten' = IF op[c].kind = "forget" THEN forgotten \ {op[c].key}
                                             ELSE forgotten
    /\ barred' = IF /\ sole = c /\ op[c].kind = "trust"
                    /\ op[c].key \notin TrustedKeys(previous[c]) \cup TrustedKeys(disk.peers)
                   THEN barred \cup {op[c].key} ELSE barred
    /\ Done(c)
    /\ UNCHANGED <<destination, disk, clock, started, confirmed, sole, owed, savedTo,
                   missed>>

-----------------------------------------------------------------------------
(* load: what survives of the file.                                        *)
Sane(peer) == peer.trusted => peer.key # NoKey

BugOnlyRoutesRevive(peer) == peer.routes # {}

Revivable(peer) == peer.trusted \/ peer.routes # {}

Revived(peers) ==
    LET sane == Truncated(Only(peers, {i \in DOMAIN peers : Sane(peers[i])}))
    IN Only(sane, {i \in DOMAIN sane : Revivable(sane[i])})

Resolved(folder, missing) == IF folder \in missing THEN Fallback ELSE folder

(* The program dies at any point and is started again: load, then the      *)
(* first persist, whose failure is only logged.  An unfinished decision    *)
(* was never acknowledged.                                                 *)
Restart(missing) ==
    /\ remembered' = Revived(disk.peers)
    /\ destination' = Resolved(disk.destination, missing)
    /\ \/ disk' = [peers |-> remembered', destination |-> destination']
       \/ UNCHANGED disk
    /\ pc' = [c \in Callers |-> "idle"]
    /\ op' = [c \in Callers |-> Nothing]
    /\ previous' = [c \in Callers |-> Nothing]
    /\ image' = [c \in Callers |-> Nothing]
    /\ forgotten' = IF op[Ui] # Nothing /\ op[Ui].kind = "forget"
                      THEN forgotten \ {op[Ui].key} ELSE forgotten
    /\ sole' = Nothing
    /\ missed' = (missed \/ savedTo \in missing)
    /\ UNCHANGED <<clock, started, confirmed, owed, barred, savedTo>>

Next ==
    \/ \E c \in Tasks, who \in Identities :
         \/ Trust(c, who)
         \/ \E route \in Routes : Remember(c, who, route)
    \/ \E key \in Keys : Forget(key)
    \/ \E folder \in Destinations : SetPreferences(folder)
    \/ ApplyPreferences
    \/ \E c \in Callers : Snapshot(c) \/ Written(c) \/ WriteFails(c) \/ Undo(c)
    \/ \E missing \in SUBSET Removable : Restart(missing)

Spec == Init /\ [][Next]_vars

-----------------------------------------------------------------------------
OneKeyPerDevice(peers) ==
    \A i, j \in DOMAIN peers :
        peers[i].trusted /\ peers[j].trusted /\ peers[i].id = peers[j].id
            => peers[i].key = peers[j].key

(* Only the user grants trust: no route, renaming, legacy record, restored *)
(* copy or restart makes a key trusted that was never confirmed, or two    *)
(* keys of a device at a time.                                             *)
TrustOnlyByUser ==
    /\ TrustedKeys(remembered) \cup TrustedKeys(disk.peers) \subseteq confirmed
    /\ NoKey \notin TrustedKeys(remembered)
    /\ OneKeyPerDevice(remembered) /\ OneKeyPerDevice(disk.peers)

(* Trust that the user withdrew, or that was refused since it could not be *)
(* saved, by an operation that nothing overlapped, is gone in memory and   *)
(* in the file.  It stays gone whatever fails or overlaps afterwards and   *)
(* through restarts, until the user grants it again.                       *)
WithdrawnStaysWithdrawn ==
    barred \cap (TrustedKeys(remembered) \cup TrustedKeys(disk.peers)) = {}

(* The same of all that the user forgot, as documented; an operation that  *)
(* overlaps the forgetting breaks it.                                      *)
ForgottenStaysForgotten ==
    Quiet => forgotten \cap (TrustedKeys(remembered) \cup TrustedKeys(disk.peers)) = {}

(* What was decided by an operation that nothing overlapped, and was told  *)
(* to be saved, lasts whatever fails or overlaps afterwards: a trusted     *)
(* device is recognized, also after a crash at any moment, until its trust *)
(* is decided about again; files go to the folder saved last, unless it    *)
(* was missing at a start.                                                 *)
DecisionsLast ==
    /\ owed \subseteq TrustedKeys(Revived(disk.peers))
    /\ Quiet => owed \subseteq TrustedKeys(remembered)
    /\ savedTo # Nothing /\ ~missed =>
         /\ disk.destination = savedTo
         /\ Idle(Ui) => destination = savedTo

(* The saved folder stays in the settings, as documented; a start at which *)
(* the folder is missing breaks it.                                        *)
SavedFolderIsKept == savedTo # Nothing => disk.destination = savedTo
=============================================================================
