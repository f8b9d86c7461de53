----------------------------- MODULE Admission -----------------------------
(***************************************************************************)
(* AppState as the point where tasks meet (src-tauri/src/models.rs): the   *)
(* one-transfer slot, the cancellation registry, pending incoming and      *)
(* trust requests, connection slots and activity guards, the updater's     *)
(* installation gate, and shutdown.  One step is one critical section, so  *)
(* everything the code does between two locks can be interleaved.          *)
(*                                                                         *)
(* The tasks are the send command with run_outgoing (Outs), the listener's *)
(* connection handlers (Ins) and the probes of discovery and of manual     *)
(* connection, which only hold a guard (Probes).  Every task uses one      *)
(* identifier: the code draws a fresh UUID for each.                       *)
(***************************************************************************)
EXTENDS Integers, FiniteSets

CONSTANTS Outs, Ins, Probes,
          MaxConnections,   \* permits of connection_slots
          None

Tasks == Outs \cup Ins

ASSUME TasksAssumption ==
    /\ Outs \cap Ins = {} /\ Tasks \cap Probes = {}
    /\ None \notin Tasks
ASSUME ConnectionsAssumption == MaxConnections \in Nat \ {0}

VARIABLES
    pc,               \* control point of each task
    active,           \* active_transfer
    cancellations,    \* identifiers with a registered token
    cancelled,        \* identifiers whose token is cancelled
    pendingRequests,  \* incoming requests waiting for the user
    pendingTrust,     \* trust requests waiting for the user
    answer,           \* what each request's oneshot channel holds
    trustAnswer,
    guards,           \* holders of a ConnectionActivityGuard
    permits,          \* holders of a connection slot
    installing,       \* updater_installing
    shutdown,         \* the shutdown token
    quitting          \* steps of shutdown() taken

registry == <<cancellations, cancelled, pendingRequests, pendingTrust>>
channels == <<answer, trustAnswer>>
sessions == <<guards, permits>>
vars == <<pc, active, registry, channels, sessions,
          installing, shutdown, quitting>>

Goto(t, l) == pc' = [pc EXCEPT ![t] = l]

Init ==
    /\ pc = [t \in Tasks |-> "idle"]
    /\ active = None
    /\ cancellations = {} /\ cancelled = {}
    /\ pendingRequests = {} /\ pendingTrust = {}
    /\ answer = [t \in Tasks |-> "none"]
    /\ trustAnswer = [t \in Tasks |-> "none"]
    /\ guards = {} /\ permits = {}
    /\ installing = FALSE /\ shutdown = FALSE /\ quitting = "no"

-----------------------------------------------------------------------------
(* Where a task goes when it is trusted, and when it fails.                *)
Trusted(t) == IF t \in Outs THEN "work" ELSE "check"
Failed(t)  == IF t \in Outs THEN "release" ELSE "leave"

Interrupted(t) == shutdown \/ t \in cancelled

BugOneConnectionTooMany == Cardinality(permits) <= MaxConnections

PermitFree == Cardinality(permits) < MaxConnections

(* run_listener: a permit, then a guard, or the connection is dropped.     *)
Accept(t) ==
    /\ t \in Ins /\ pc[t] = "idle"
    /\ \/ PermitFree /\ permits' = permits \cup {t} /\ Goto(t, "guard")
       \/ ~PermitFree /\ Goto(t, "done") /\ UNCHANGED permits
    /\ UNCHANGED <<active, registry, channels, guards,
                   installing, shutdown, quitting>>

BugActivityIgnoresInstall == ~shutdown

ActivityAllowed == ~shutdown /\ ~installing

(* try_begin_connection_activity                                           *)
TakeGuard(t) ==
    /\ t \in Ins /\ pc[t] = "guard"
    /\ \/ /\ ActivityAllowed
          /\ guards' = guards \cup {t} /\ Goto(t, "handshake")
          /\ UNCHANGED permits
       \/ /\ ~ActivityAllowed
          /\ permits' = permits \ {t} /\ Goto(t, "done") /\ UNCHANGED guards
    /\ UNCHANGED <<active, registry, channels, installing, shutdown, quitting>>

(* The handshake and the request are read, or the connection ends.         *)
Identify(t) ==
    /\ t \in Ins /\ pc[t] = "handshake"
    /\ Goto(t, "trust") \/ Goto(t, "leave")
    /\ UNCHANGED <<active, registry, channels, sessions,
                   installing, shutdown, quitting>>

(* The send_files command was called.                                      *)
Send(t) ==
    /\ t \in Outs /\ pc[t] = "idle"
    /\ Goto(t, "check")
    /\ UNCHANGED <<active, registry, channels, sessions,
                   installing, shutdown, quitting>>

Refused(t) == IF t \in Outs THEN "done" ELSE "leave"

(* try_begin_transfer looks at the shutdown token before it takes a lock.  *)
Check(t) ==
    /\ pc[t] = "check"
    /\ Goto(t, IF shutdown THEN Refused(t) ELSE "admit")
    /\ UNCHANGED <<active, registry, channels, sessions,
                   installing, shutdown, quitting>>

BugNoSecondShutdownCheck == ~installing /\ active = None

SlotFree == ~installing /\ ~shutdown /\ active = None

(* Its critical section, under update_gate and active_transfer.            *)
Admit(t) ==
    /\ pc[t] = "admit"
    /\ \/ SlotFree /\ active' = t /\ Goto(t, "register")
       \/ ~SlotFree /\ Goto(t, Refused(t)) /\ UNCHANGED active
    /\ UNCHANGED <<registry, channels, sessions, installing, shutdown, quitting>>

(* register_cancellation; only then does the task show itself.             *)
Register(t) ==
    /\ pc[t] = "register"
    /\ cancellations' = cancellations \cup {t}
    /\ Goto(t, IF t \in Outs THEN "prepare" ELSE "offer")
    /\ UNCHANGED <<active, cancelled, pendingRequests, pendingTrust, channels,
                   sessions, installing, shutdown, quitting>>

(* Hashing and connecting, up to the trust check.                          *)
Prepare(t) ==
    /\ t \in Outs /\ pc[t] = "prepare"
    /\ Goto(t, "trust") \/ Goto(t, "release")
    /\ UNCHANGED <<active, registry, channels, sessions,
                   installing, shutdown, quitting>>

BugTrustPromptsStack == TRUE

TrustPromptFree == pendingTrust = {}

(* ensure_peer_trusted: known, or one prompt at a time.                    *)
AskTrust(t) ==
    /\ pc[t] = "trust"
    /\ \/ Goto(t, Trusted(t)) /\ UNCHANGED pendingTrust
       \/ /\ TrustPromptFree
          /\ pendingTrust' = pendingTrust \cup {t} /\ Goto(t, "awaitTrust")
       \/ ~TrustPromptFree /\ Goto(t, Failed(t)) /\ UNCHANGED pendingTrust
    /\ UNCHANGED <<active, cancellations, cancelled, pendingRequests,
                   channels, sessions, installing, shutdown, quitting>>

LeaveTrust(t, l) ==
    /\ pc[t] = "awaitTrust"
    /\ pendingTrust' = pendingTrust \ {t} /\ Goto(t, l)
    /\ UNCHANGED <<active, cancellations, cancelled, pendingRequests,
                   channels, sessions, installing, shutdown, quitting>>

(* The tokens are not looked at again after an answer; storing the trust   *)
(* may fail.                                                               *)
AwaitTrust(t) ==
    \/ trustAnswer[t] = "yes" /\ LeaveTrust(t, Trusted(t))
    \/ trustAnswer[t] # "none" /\ LeaveTrust(t, Failed(t))
    \/ Interrupted(t) /\ LeaveTrust(t, Failed(t))

TrustTimeout(t) == LeaveTrust(t, Failed(t))

(* add_pending_request, and the request is shown or cannot be.             *)
Offer(t) ==
    /\ t \in Ins /\ pc[t] = "offer"
    /\ \/ pendingRequests' = pendingRequests \cup {t} /\ Goto(t, "awaitUser")
       \/ Goto(t, "release") /\ UNCHANGED pendingRequests
    /\ UNCHANGED <<active, cancellations, cancelled, pendingTrust,
                   channels, sessions, installing, shutdown, quitting>>

LeaveUser(t, l) ==
    /\ pc[t] = "awaitUser"
    /\ pendingRequests' = pendingRequests \ {t} /\ Goto(t, l)
    /\ UNCHANGED <<active, cancellations, cancelled, pendingTrust,
                   channels, sessions, installing, shutdown, quitting>>

BugOnlyTheUserDecides(t) == t \in cancelled

StopsWaiting(t) == Interrupted(t)

(* wait_for_decision without its timer and its peer.                       *)
AwaitUser(t) ==
    \/ /\ answer[t] # "none"
       /\ LeaveUser(t, IF answer[t] = "yes" /\ ~Interrupted(t)
                       THEN "work" ELSE "release")
    \/ StopsWaiting(t) /\ LeaveUser(t, "release")

(* Its timer, or the sender cancels or disconnects.                        *)
RequestEnds(t) == LeaveUser(t, "release")

(* Bytes move until the transfer ends, one way or another.                 *)
Work(t) ==
    /\ pc[t] = "work" /\ Goto(t, "release")
    /\ UNCHANGED <<active, registry, channels, sessions,
                   installing, shutdown, quitting>>

BugSlotOutlivesTask(t) == active

SlotAfter(t) == IF active = t THEN None ELSE active

BugOnlyTheOwnerClears(t) == IF active = t THEN "clear" ELSE Refused(t)

AfterRelease(t) == "clear"

(* finish_transfer: the slot first, then the registries, whose three locks *)
(* nothing else takes together.                                            *)
Release(t) ==
    /\ pc[t] = "release"
    /\ active' = SlotAfter(t) /\ Goto(t, AfterRelease(t))
    /\ UNCHANGED <<registry, channels, sessions, installing, shutdown, quitting>>

Clear(t) ==
    /\ pc[t] = "clear"
    /\ cancellations' = cancellations \ {t}
    /\ pendingRequests' = pendingRequests \ {t}
    /\ pendingTrust' = pendingTrust \ {t}
    /\ Goto(t, IF t \in Outs THEN "done" ELSE "leave")
    /\ UNCHANGED <<active, cancelled, channels, sessions,
                   installing, shutdown, quitting>>

(* The handler returns: its guard and its permit are dropped.              *)
Leave(t) ==
    /\ t \in Ins /\ pc[t] = "leave"
    /\ guards' = guards \ {t} /\ permits' = permits \ {t} /\ Goto(t, "done")
    /\ UNCHANGED <<active, registry, channels, installing, shutdown, quitting>>

(* A discovery or manual-connection probe holds a guard for its handshake. *)
Probe(p) ==
    /\ \/ p \notin guards /\ ActivityAllowed /\ guards' = guards \cup {p}
       \/ p \in guards /\ guards' = guards \ {p}
    /\ UNCHANGED <<pc, active, registry, channels, permits,
                   installing, shutdown, quitting>>

-----------------------------------------------------------------------------
(* Commands of the user and of the updater.                                *)

BugDecisionIsOnlyRead(pending, t) == pending

Remaining(pending, t) == pending \ {t}

CancelTransfer(t) ==
    /\ t \in cancellations
    /\ cancelled' = cancelled \cup {t}
    /\ UNCHANGED <<pc, active, cancellations, pendingRequests, pendingTrust,
                   channels, sessions, installing, shutdown, quitting>>

(* The oneshot sender leaves the map before the answer is sent.            *)
ResolveRequest(t, a) ==
    /\ t \in pendingRequests
    /\ pendingRequests' = Remaining(pendingRequests, t)
    /\ answer' = [answer EXCEPT ![t] = a]
    /\ UNCHANGED <<pc, active, cancellations, cancelled, pendingTrust,
                   trustAnswer, sessions, installing, shutdown, quitting>>

ResolveTrust(t, a) ==
    /\ t \in pendingTrust
    /\ pendingTrust' = Remaining(pendingTrust, t)
    /\ trustAnswer' = [trustAnswer EXCEPT ![t] = a]
    /\ UNCHANGED <<pc, active, cancellations, cancelled, pendingRequests,
                   answer, sessions, installing, shutdown, quitting>>

(* try_begin_updater_install and end_updater_install                       *)
BeginInstall ==
    /\ ~shutdown /\ ~installing /\ active = None /\ guards = {}
    /\ installing' = TRUE
    /\ UNCHANGED <<pc, active, registry, channels, sessions, shutdown, quitting>>

EndInstall ==
    /\ installing /\ installing' = FALSE
    /\ UNCHANGED <<pc, active, registry, channels, sessions, shutdown, quitting>>

-----------------------------------------------------------------------------
(* shutdown(): the token, then each collection under its own lock, then    *)
(* the slot.                                                               *)
BeginShutdown ==
    /\ ~shutdown /\ shutdown' = TRUE /\ quitting' = "tokens"
    /\ UNCHANGED <<pc, active, registry, channels, sessions, installing>>

TakeTokens ==
    /\ quitting = "tokens" /\ quitting' = "requests"
    /\ cancelled' = cancelled \cup cancellations /\ cancellations' = {}
    /\ UNCHANGED <<pc, active, pendingRequests, pendingTrust, channels,
                   sessions, installing, shutdown>>

Deny(channel, waiting) ==
    [t \in Tasks |-> IF t \in waiting THEN "no" ELSE channel[t]]

TakeRequests ==
    /\ quitting = "requests" /\ quitting' = "trust"
    /\ answer' = Deny(answer, pendingRequests) /\ pendingRequests' = {}
    /\ UNCHANGED <<pc, active, cancellations, cancelled, pendingTrust,
                   trustAnswer, sessions, installing, shutdown>>

TakeTrust ==
    /\ quitting = "trust" /\ quitting' = "slot"
    /\ trustAnswer' = Deny(trustAnswer, pendingTrust) /\ pendingTrust' = {}
    /\ UNCHANGED <<pc, active, cancellations, cancelled, pendingRequests,
                   answer, sessions, installing, shutdown>>

ClearSlot ==
    /\ quitting = "slot" /\ quitting' = "done"
    /\ active' = None
    /\ UNCHANGED <<pc, registry, channels, sessions, installing, shutdown>>

ShutdownStep == TakeTokens \/ TakeRequests \/ TakeTrust \/ ClearSlot

-----------------------------------------------------------------------------
(* What a task does by itself, and what others do to it.                   *)
TaskStep(t) ==
    \/ TakeGuard(t) \/ Identify(t) \/ Check(t) \/ Admit(t) \/ Register(t)
    \/ Prepare(t) \/ AskTrust(t) \/ AwaitTrust(t) \/ Offer(t) \/ AwaitUser(t)
    \/ Work(t) \/ Release(t) \/ Clear(t) \/ Leave(t)

Outside(t) ==
    \/ Send(t) \/ Accept(t) \/ TrustTimeout(t) \/ RequestEnds(t)
    \/ CancelTransfer(t)
    \/ \E a \in {"yes", "no"} : ResolveRequest(t, a) \/ ResolveTrust(t, a)

Next ==
    \/ \E t \in Tasks : TaskStep(t) \/ Outside(t)
    \/ \E p \in Probes : Probe(p)
    \/ BeginInstall \/ EndInstall \/ BeginShutdown \/ ShutdownStep

Spec == Init /\ [][Next]_vars

(* The runtime keeps polling tasks and shutdown() does not wait; users,    *)
(* peers and timers promise nothing.                                       *)
Fairness ==
    /\ \A t \in Tasks : WF_vars(TaskStep(t))
    /\ WF_vars(ShutdownStep)

FairSpec == Spec /\ Fairness

-----------------------------------------------------------------------------
Points == {"idle", "guard", "handshake", "check", "admit", "register",
           "prepare", "trust", "awaitTrust", "offer", "awaitUser", "work",
           "release", "clear", "leave", "done"}

(* Every variable has its type, and at most MaxConnections handlers hold   *)
(* one of the semaphore's permits.                                         *)
TypeOK ==
    /\ pc \in [Tasks -> Points]
    /\ active \in Tasks \cup {None}
    /\ cancellations \subseteq Tasks /\ cancelled \subseteq Tasks
    /\ pendingRequests \subseteq Tasks /\ pendingTrust \subseteq Tasks
    /\ answer \in [Tasks -> {"none", "yes", "no"}]
    /\ trustAnswer \in [Tasks -> {"none", "yes", "no"}]
    /\ guards \subseteq Ins \cup Probes
    /\ permits \subseteq Ins /\ IsFiniteSet(permits)
    /\ Cardinality(permits) <= MaxConnections
    /\ installing \in BOOLEAN /\ shutdown \in BOOLEAN
    /\ quitting \in {"no", "tokens", "requests", "trust", "slot", "done"}

(* The task is between a successful try_begin_transfer and finish_transfer. *)
InSlot(t) ==
    \/ pc[t] \in {"register", "prepare", "offer", "awaitUser", "work", "release"}
    \/ t \in Outs /\ pc[t] \in {"trust", "awaitTrust"}

(* At most one task at a time runs a transfer, also while shutdown() is    *)
(* emptying the slot under it.                                             *)
OneTransfer == \A t, u \in Tasks : InSlot(t) /\ InSlot(u) => t = u

(* The updater never installs while a transfer runs or a secure session is *)
(* being set up, whichever of them looked first.                           *)
InstallExcludesSessions ==
    installing => guards = {} /\ \A t \in Tasks : ~InSlot(t)

(* active_transfer names the task that runs, until shutdown() empties it.  *)
SlotMatchesTask ==
    quitting # "done" => \A t \in Tasks : active = t <=> InSlot(t)

(* After shutdown() has returned, the slot is empty for good: no task that *)
(* passed the first shutdown check takes it later.                         *)
IdleAfterShutdown == quitting = "done" => active = None

(* A task that waits without an answer can still be answered, and nothing  *)
(* is left in the maps for a task that no longer waits.                    *)
WaitersAreReachable ==
    \A t \in Tasks :
        /\ t \in pendingTrust <=> pc[t] = "awaitTrust" /\ trustAnswer[t] = "none"
        /\ t \in pendingRequests <=> pc[t] = "awaitUser" /\ answer[t] = "none"

(* At most one trust prompt waits for the user.                            *)
TrustPromptsOneAtATime == \A t, u \in pendingTrust : t = u

(* A finished task has left nothing behind in the shared state, not even   *)
(* when shutdown() took the slot from it.                                  *)
NothingLeftBehind ==
    \A t \in Tasks :
        pc[t] = "done" => /\ t \notin cancellations /\ t \notin guards
                          /\ t \notin permits /\ active # t

(* The user's first answer to a request stands: neither a second command   *)
(* nor shutdown() turns it into another.                                   *)
AnswerStands ==
    [][\A t \in Tasks :
        /\ answer[t] # "none" => answer'[t] = answer[t]
        /\ trustAnswer[t] # "none" => trustAnswer'[t] = trustAnswer[t]]_vars

(* Once the application quits every task ends, whatever the user, the peer *)
(* and the timers do, and whatever shutdown() found registered.            *)
ShutdownDrains ==
    shutdown ~> \A t \in Tasks : pc[t] \in {"idle", "done"}

=============================================================================
