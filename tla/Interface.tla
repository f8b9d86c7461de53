----------------------------- MODULE Interface ------------------------------
(***************************************************************************)
(* The main window (src/main.tsx): the transfer it shows, the request and  *)
(* the trust prompt it asks the user about, and the queue of batches to    *)
(* send next.  Commands go to the backend and their answers come back by   *)
(* one channel, events come by another, and the two are not ordered; a     *)
(* handler runs to its next await without interruption.                    *)
(*                                                                         *)
(* Of the backend there is what the window can tell apart: one transfer at *)
(* a time, which reports its end before it frees the slot (transfer.rs),   *)
(* and trust prompts, which wait outside that slot and expire.  Device     *)
(* selection, notices and the settings page, which only hide this state,   *)
(* are left out; a device that is not available leaves the queue as it is. *)
(***************************************************************************)
EXTENDS Integers, Sequences, FiniteSets, SequencesExt

CONSTANTS
    MaxBatches,    \* bound on the batches the user drops
    MaxQueue,      \* MAX_QUEUED_TRANSFERS
    Incomings,     \* transfers other devices request
    Prompts,       \* trust requests
    None

Batches == 1..MaxBatches

PhaseOrder == [preparing |-> 0, waiting_for_acceptance |-> 2, transferring |-> 4,
               completed |-> 100, failed |-> 100]

Transfers == Batches \cup Incomings

Views == [id : Transfers, phase : DOMAIN PhaseOrder]   \* what is shown of one

ASSUME InterfaceAssumption ==
    /\ MaxBatches \in Nat /\ MaxQueue \in Nat \ {0}
    /\ None \notin Transfers \cup Prompts \cup Views
    /\ Batches \cap Incomings = {}

VARIABLES
    queue,      \* queuedTransfers
    active,     \* activeTransfer: [id, phase], or None
    incoming,   \* the request the user is asked about, or None
    prompt,     \* trustRequest, or None
    calls,      \* sendFiles under way: [batch, queued, before, answer]
    declining,  \* requests declined whose command has not returned
    answering,  \* respondToTrust under way: [id, answer], or None
    dropped,    \* batches dropped so far
    slot,       \* backend: the running transfer, or None
    phase,      \* backend: its phase
    accepted,   \* backend: whether the user accepted it
    seen,       \* backend: incoming transfers so far
    waiting,    \* backend: trust requests that wait for a decision
    asked,      \* backend: trust requests so far
    events,     \* emitted and not delivered
    owed,       \* history: batches queued, neither taken nor removed
    sent        \* history: batches in the order the backend took them

screen == <<queue, active, incoming, prompt>>
user == <<calls, declining, answering, dropped>>
transfer == <<slot, phase, accepted, seen>>
trust == <<waiting, asked>>
history == <<owed, sent>>
vars == <<screen, user, transfer, trust, events, history>>

Terminal(p) == PhaseOrder[p] = 100

Outgoing(t) == t \in Batches

Init ==
    /\ queue = <<>> /\ active = None /\ incoming = None /\ prompt = None
    /\ calls = {} /\ declining = {} /\ answering = None /\ dropped = 0
    /\ slot = None /\ phase = "preparing" /\ accepted = FALSE /\ seen = {}
    /\ waiting = {} /\ asked = {} /\ events = <<>>
    /\ owed = {} /\ sent = <<>>

-----------------------------------------------------------------------------
(* startTransfer: queue the files behind an outgoing transfer, or send.    *)
QueueHasRoom == Len(queue) < MaxQueue

Queues == active # None /\ Outgoing(active.id) /\ incoming = None /\ prompt = None

Locked == active # None \/ incoming # None \/ prompt # None

Update(t, p) == [type |-> "update", id |-> t, phase |-> p]

Call(b, queued, before) ==
    [batch |-> b, queued |-> queued, before |-> before, answer |-> "none"]

Drop ==
    /\ dropped < MaxBatches /\ dropped' = dropped + 1
    /\ \/ /\ Queues /\ QueueHasRoom
          /\ queue' = Append(queue, dropped') /\ owed' = owed \cup {dropped'}
          /\ UNCHANGED calls
       \/ /\ ~Locked
          /\ calls' = calls \cup {Call(dropped', FALSE, None)}
          /\ UNCHANGED <<queue, owed>>
    /\ UNCHANGED <<active, incoming, prompt, declining, answering, transfer, trust,
                   events, sent>>

(* The filters of the queue.  Its entries have names of their own, so that *)
(* one goes at most.                                                       *)
Without(q, b) ==
    IF b \in ToSet(q) THEN RemoveAt(q, CHOOSE i \in DOMAIN q : q[i] = b) ELSE q

RemoveQueued(b) ==
    /\ b \in ToSet(queue)
    /\ active # None /\ Outgoing(active.id) /\ incoming = None /\ prompt = None
    /\ queue' = Without(queue, b) /\ owed' = owed \ {b}
    /\ UNCHANGED <<active, incoming, prompt, user, transfer, trust, events, sent>>

(* finishTransfer: the button under a finished transfer.                   *)
BugStaysQueuedWhileSent(b) == queue

Taken(b) == Without(queue, b)

Finish ==
    /\ active # None /\ Terminal(active.phase) /\ incoming = None /\ prompt = None
    /\ active' = None
    /\ \/ queue = <<>> /\ UNCHANGED <<queue, calls>>
       \/ /\ queue # <<>>
          /\ queue' = Taken(Head(queue))
          /\ calls' = calls \cup {Call(Head(queue), TRUE, active)}
    /\ UNCHANGED <<incoming, prompt, declining, answering, dropped, transfer, trust,
                   events, history>>

(* send_files takes the slot, or refuses: busy, offline, closing.          *)
Answered(c, a) == calls' = (calls \ {c}) \cup {[c EXCEPT !.answer = a]}

SendFiles(c) ==
    /\ c.answer = "none"
    /\ \/ /\ slot = None
          /\ slot' = c.batch /\ phase' = "preparing" /\ accepted' = TRUE
          /\ Answered(c, "ok")
          /\ events' = Append(events, Update(c.batch, phase'))
          /\ owed' = owed \ {c.batch} /\ sent' = Append(sent, c.batch)
       \/ /\ Answered(c, "refused")
          /\ UNCHANGED <<slot, phase, accepted, events, history>>
    /\ UNCHANGED <<screen, declining, answering, dropped, seen, trust>>

BugRefusedIsDropped(b) == queue

Restored(b) == <<b>> \o Without(queue, b)

BugRefusalShowsNothing(before) == None

ViewAfterRefusal(before) == before

SendFilesReturns(c) ==
    /\ c.answer # "none"
    /\ calls' = calls \ {c}
    /\ IF c.queued /\ c.answer = "refused"
         THEN queue' = Restored(c.batch) /\ active' = ViewAfterRefusal(c.before)
         ELSE UNCHANGED <<queue, active>>
    /\ UNCHANGED <<incoming, prompt, declining, answering, dropped, transfer, trust,
                   events, history>>

-----------------------------------------------------------------------------
(* Events, in the order they were emitted.                                 *)
ShouldAccept(t, p) ==
    \/ active = None
    \/ active.id # t /\ Terminal(active.phase)
    \/ /\ active.id = t /\ ~Terminal(active.phase)
       /\ (Terminal(p) \/ PhaseOrder[p] >= PhaseOrder[active.phase])

AnswersRequest(p) == p # "waiting_for_acceptance"

Shows(e) ==
    /\ active' = IF ShouldAccept(e.id, e.phase)
                   THEN [id |-> e.id, phase |-> e.phase] ELSE active
    /\ incoming' = IF AnswersRequest(e.phase) /\ incoming = e.id
                     THEN None ELSE incoming
    /\ UNCHANGED prompt

AsksForFiles(e) ==
    /\ incoming' = e.id
    /\ active' = IF active # None /\ active.id = e.id THEN None ELSE active
    /\ UNCHANGED prompt

AsksForTrust(e) == prompt' = e.id /\ UNCHANGED <<active, incoming>>

Deliver ==
    /\ events # <<>>
    /\ LET e == Head(events)
       IN \/ e.type = "update" /\ Shows(e)
          \/ e.type = "incoming" /\ AsksForFiles(e)
          \/ e.type = "trust" /\ AsksForTrust(e)
    /\ events' = Tail(events)
    /\ UNCHANGED <<queue, user, transfer, trust, history>>

(* onRespond of the request: the panel stays when the backend refuses.     *)
(* Its buttons are disabled until the command returns, but the update of   *)
(* the declined transfer may close it before that, and the panel of the    *)
(* next request has buttons of its own.                                    *)
RespondToIncoming(yes) ==
    /\ incoming # None /\ prompt = None
    /\ slot = incoming /\ phase = "waiting_for_acceptance" /\ ~accepted
    /\ \/ /\ yes /\ accepted' = TRUE
          /\ UNCHANGED <<declining, phase, events>>
       \/ /\ ~yes /\ declining' = declining \cup {slot} /\ phase' = "failed"
          /\ events' = Append(events, Update(slot, "failed"))
          /\ UNCHANGED accepted
    /\ UNCHANGED <<screen, calls, answering, dropped, slot, seen, trust, history>>

(* What is shown by then is closed, whichever request it is.               *)
DeclineReturns(i) ==
    /\ i \in declining /\ declining' = declining \ {i}
    /\ incoming' = None
    /\ UNCHANGED <<queue, active, prompt, calls, answering, dropped, transfer, trust,
                   events, history>>

(* onRespond of the prompt: the backend is asked, then the panel closes,   *)
(* but not when the backend no longer waits.                               *)
RespondToTrust ==
    /\ prompt # None /\ answering = None
    /\ answering' = [id |-> prompt, answer |-> prompt \in waiting]
    /\ waiting' = waiting \ {prompt}
    /\ UNCHANGED <<screen, calls, declining, dropped, transfer, asked, events, history>>

TrustReturns ==
    /\ answering # None /\ answering' = None
    /\ prompt' = IF answering.answer THEN None ELSE prompt
    /\ UNCHANGED <<queue, active, incoming, calls, declining, dropped, transfer,
                   trust, events, history>>

-----------------------------------------------------------------------------
(* The backend, as the window sees it.                                     *)
Advance ==
    /\ slot # None /\ accepted /\ ~Terminal(phase) /\ phase # "transferring"
    /\ phase' = "transferring"
    /\ events' = Append(events, Update(slot, phase'))
    /\ UNCHANGED <<screen, user, slot, accepted, seen, trust, history>>

End ==
    /\ slot # None /\ ~Terminal(phase)
    /\ phase' \in {"failed"} \cup IF phase = "transferring" THEN {"completed"} ELSE {}
    /\ events' = Append(events, Update(slot, phase'))
    /\ UNCHANGED <<screen, user, slot, accepted, seen, trust, history>>

FreeSlot ==
    /\ slot # None /\ Terminal(phase)
    /\ slot' = None
    /\ UNCHANGED <<screen, user, phase, accepted, seen, trust, events, history>>

Request(i) ==
    /\ slot = None /\ i \notin seen /\ seen' = seen \cup {i}
    /\ slot' = i /\ phase' = "waiting_for_acceptance" /\ accepted' = FALSE
    /\ events' = events \o <<Update(i, phase'), [type |-> "incoming", id |-> i]>>
    /\ UNCHANGED <<screen, user, trust, history>>

AskTrust(p) ==
    /\ waiting = {} /\ p \notin asked /\ asked' = asked \cup {p}
    /\ waiting' = waiting \cup {p}
    /\ events' = Append(events, [type |-> "trust", id |-> p])
    /\ UNCHANGED <<screen, user, transfer, history>>

(* The decision timed out, or its connection or transfer was cancelled.    *)
Expire(p) ==
    /\ p \in waiting /\ waiting' = waiting \ {p}
    /\ UNCHANGED <<screen, user, transfer, asked, events, history>>

TransferTask == Advance \/ End \/ FreeSlot

Window ==
    \/ Deliver \/ TrustReturns \/ \E i \in Incomings : DeclineReturns(i)
    \/ \E c \in calls : SendFiles(c) \/ SendFilesReturns(c)

Next ==
    \/ Drop \/ Finish \/ (\E b \in Batches : RemoveQueued(b))
    \/ Window \/ TransferTask
    \/ (\E yes \in BOOLEAN : RespondToIncoming(yes)) \/ RespondToTrust
    \/ \E i \in Incomings : Request(i)
    \/ \E p \in Prompts : AskTrust(p) \/ Expire(p)

Spec == Init /\ [][Next]_vars

-----------------------------------------------------------------------------
InFlight == {c.batch : c \in {x \in calls : x.queued /\ x.answer # "ok"}}

Quiet == events = <<>> /\ slot = None /\ calls = {} /\ declining = {}

(* A batch the user queued is in the queue, on its way to the backend or   *)
(* on its way back, until the backend took it or the user removed it, and  *)
(* none is sent twice, whatever failed and was restored before.            *)
QueuedBatchIsKept ==
    /\ owed = ToSet(queue) \cup InFlight
    /\ IsInjective(queue) /\ IsInjective(sent)
    /\ ToSet(queue) \cap (InFlight \cup ToSet(sent)) = {}

(* When nothing is under way any more, a queue is not left without the     *)
(* panel of a finished transfer, whose button starts the next batch, and   *)
(* no dead request is in front of that panel.  Only a trust prompt may be. *)
QueueCanContinue ==
    Quiet /\ queue # <<>> =>
        active # None /\ Terminal(active.phase) /\ incoming = None
=============================================================================
