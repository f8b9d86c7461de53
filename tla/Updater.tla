------------------------------ MODULE Updater -------------------------------
(***************************************************************************)
(* The updater: UpdaterController (src/lib/updater-core.ts), the hook that *)
(* drives it and the plugin client (src/lib/updater.ts), against the       *)
(* installation gate of the backend (models.rs).  JavaScript runs to the   *)
(* next await without interruption, so one step is the code between two    *)
(* awaits; the user, the timer, transfers and the plugin act in between.   *)
(*                                                                         *)
(* A relaunch that succeeds ends the process.  Progress events, which keep *)
(* the state "downloading", and the wording of failures are left out.      *)
(***************************************************************************)
EXTENDS Integers, FiniteSets

CONSTANTS
    MaxOffers,    \* bound on the updates the plugin hands out
    MaxWork,      \* bound on concurrent sessions and transfers
    NoUpdate

ASSUME BoundsAssumption ==
    MaxOffers \in Nat \ {0} /\ MaxWork \in Nat \ {0} /\ NoUpdate \notin 1..MaxOffers

VARIABLES
    kind,          \* state.kind, what the settings page shows
    candidate,     \* the update on offer
    downloaded,    \* its package is here
    operation,     \* the one operation under way: none, check, update
    check,         \* performCheck: off, asking, closing
    manual,        \* whether the user asked for that check
    update,        \* performUpdate: off, download, gate, granted, install,
                   \* relaunch, release
    using,         \* the update performUpdate was called with
    transferBusy,  \* the interface's own signal
    automatic,     \* automaticChecksEnabled
    disposal,      \* dispose(): no, closing, done
    offers,        \* updates handed out so far
    open,          \* those not closed
    fetched,       \* history: the update whose package was downloaded last
    work,          \* backend: transfers and secure sessions running
    gate,          \* backend: updater_installing
    stranded,      \* history: endInstall failed, and nobody tries it again
    exited         \* the process was replaced

checking == <<check, manual>>
updating == <<update, using, downloaded, fetched>>
handles == <<offers, open>>
backend == <<work, gate, stranded, exited>>
inputs == <<transferBusy, automatic, disposal>>
controller ==
    <<kind, candidate, operation, checking, updating, handles, backend, inputs>>

UpdaterInit ==
    /\ kind = "idle" /\ candidate = NoUpdate /\ downloaded = FALSE
    /\ operation = "none" /\ check = "off" /\ manual = FALSE
    /\ update = "off" /\ using = NoUpdate /\ fetched = NoUpdate
    /\ transferBusy = FALSE /\ automatic \in BOOLEAN /\ disposal = "no"
    /\ offers = 0 /\ open = {}
    /\ work = 0 /\ gate = FALSE /\ stranded = FALSE /\ exited = FALSE

(* setState: a disposed controller shows nothing any more.                 *)
Show(k) == kind' = IF disposal = "no" THEN k ELSE kind

-----------------------------------------------------------------------------
(* check(): the timer's, on start and every interval, or the user's.       *)
BugCheckDuringUpdate(byUser) ==
    /\ disposal = "no" /\ (byUser \/ automatic)
    /\ check = "off" /\ (candidate = NoUpdate \/ operation = "update")

MayCheck(byUser) ==
    /\ disposal = "no" /\ (byUser \/ automatic)
    /\ operation = "none" /\ candidate = NoUpdate
    /\ kind \notin {"downloading", "installing"}

Check(byUser) ==
    /\ MayCheck(byUser)
    /\ Show("checking")
    /\ operation' = "check" /\ check' = "asking" /\ manual' = byUser
    /\ UNCHANGED <<candidate, updating, handles, backend, inputs>>

(* What a failed check shows; a timer's failure is quiet.                  *)
FailedCheck == {"unsupported", IF manual THEN "failed" ELSE "idle"}

CheckEnds == check' = "off" /\ operation' = "none"

(* The plugin has nothing, or nothing newer than this build.               *)
NothingNew ==
    /\ check = "asking"
    /\ Show("up-to-date") /\ CheckEnds
    /\ UNCHANGED <<candidate, manual, updating, handles, backend, inputs>>

(* A handle with an old version or malformed metadata is closed first.     *)
Offered == offers < MaxOffers /\ offers' = offers + 1 /\ open' = open \cup {offers'}

RejectOffer ==
    /\ check = "asking" /\ Offered /\ check' = "closing"
    /\ UNCHANGED <<kind, candidate, operation, manual, updating, backend, inputs>>

Rejected == {offers}

CloseRejected ==
    /\ check = "closing"
    /\ open' = open \ Rejected
    /\ \E k \in {"up-to-date"} \cup FailedCheck : Show(k)
    /\ CheckEnds
    /\ UNCHANGED <<candidate, manual, updating, offers, backend, inputs>>

AcceptOffer ==
    /\ check = "asking" /\ Offered
    /\ candidate' = offers' /\ downloaded' = FALSE
    /\ Show("available") /\ CheckEnds
    /\ UNCHANGED <<manual, update, using, fetched, backend, inputs>>

CheckFails ==
    /\ check = "asking"
    /\ \E k \in FailedCheck : Show(k)
    /\ CheckEnds
    /\ UNCHANGED <<candidate, manual, updating, handles, backend, inputs>>

-----------------------------------------------------------------------------
(* startUpdate() and performUpdate().                                      *)
StartUpdate ==
    /\ disposal = "no" /\ ~transferBusy /\ candidate # NoUpdate /\ operation = "none"
    /\ operation' = "update" /\ using' = candidate
    /\ IF downloaded THEN update' = "gate" /\ UNCHANGED kind
       ELSE update' = "download" /\ Show("downloading")
    /\ UNCHANGED <<candidate, checking, downloaded, fetched, handles, backend, inputs>>

UpdateEnds(k) == update' = "off" /\ operation' = "none" /\ Show(k)

(* The interface may have become busy while the download ran.              *)
Downloaded ==
    /\ update = "download"
    /\ downloaded' = TRUE /\ fetched' = using
    /\ \/ transferBusy /\ UpdateEnds("ready")
       \/ ~transferBusy /\ update' = "gate" /\ UNCHANGED <<operation, kind>>
    /\ UNCHANGED <<candidate, checking, using, handles, backend, inputs>>

DownloadFails ==
    /\ update = "download"
    /\ UpdateEnds("failed")
    /\ UNCHANGED <<candidate, checking, using, downloaded, fetched, handles,
                   backend, inputs>>

(* beginInstall: the backend grants the gate when nothing runs.  A command *)
(* that fails to reach it counts as a refusal.                             *)
GateIsFree == ~gate /\ work = 0

BeginInstall ==
    /\ update = "gate"
    /\ \/ GateIsFree /\ gate' = TRUE /\ update' = "granted" /\ UNCHANGED <<operation, kind>>
       \/ UpdateEnds("ready") /\ UNCHANGED gate
    /\ UNCHANGED <<candidate, checking, using, downloaded, fetched, handles,
                   work, stranded, exited, inputs>>

Install ==
    /\ update = "granted" /\ update' = "install"
    /\ Show("installing")
    /\ UNCHANGED <<candidate, operation, checking, using, downloaded, fetched,
                   handles, backend, inputs>>

BugFailureSkipsRelease == "off"

AfterFailure == "release"

InstallOrRelaunchFails ==
    /\ update \in {"install", "relaunch"}
    /\ update' = AfterFailure
    /\ operation' = IF update' = "off" THEN "none" ELSE operation
    /\ Show("failed")
    /\ UNCHANGED <<candidate, checking, using, downloaded, fetched, handles,
                   backend, inputs>>

(* On Windows the installer ends the process itself.                       *)
Installed ==
    /\ update = "install"
    /\ \/ update' = "relaunch" /\ UNCHANGED exited
       \/ exited' = TRUE /\ UNCHANGED update
    /\ UNCHANGED <<kind, candidate, operation, checking, using, downloaded,
                   fetched, handles, work, gate, stranded, inputs>>

Relaunch ==
    /\ update = "relaunch" /\ exited' = TRUE
    /\ UNCHANGED <<kind, candidate, operation, checking, updating, handles,
                   work, gate, stranded, inputs>>

(* endInstall: when the command fails, the error is swallowed.             *)
EndInstall ==
    /\ update = "release"
    /\ update' = "off" /\ operation' = "none"
    /\ \/ gate' = FALSE /\ UNCHANGED stranded
       \/ stranded' = TRUE /\ UNCHANGED gate
    /\ UNCHANGED <<kind, candidate, checking, using, downloaded, fetched,
                   handles, work, exited, inputs>>

-----------------------------------------------------------------------------
(* dispose() closes the candidate of that moment and drops it afterwards.  *)
Dispose ==
    /\ disposal = "no" /\ disposal' = "closing"
    /\ open' = open \ {candidate}
    /\ UNCHANGED <<kind, candidate, operation, checking, updating, offers,
                   backend, transferBusy, automatic>>

Disposed ==
    /\ disposal = "closing" /\ disposal' = "done"
    /\ candidate' = NoUpdate
    /\ UNCHANGED <<kind, operation, checking, updating, handles, backend,
                   transferBusy, automatic>>

(* The hook forwards what the interface and the settings say.              *)
SetTransferBusy ==
    /\ disposal = "no" /\ transferBusy' = ~transferBusy
    /\ UNCHANGED <<kind, candidate, operation, checking, updating, handles,
                   backend, automatic, disposal>>

SetAutomaticChecks ==
    /\ disposal = "no" /\ automatic' = ~automatic
    /\ UNCHANGED <<kind, candidate, operation, checking, updating, handles,
                   backend, transferBusy, disposal>>

(* try_begin_transfer, try_begin_connection_activity and their ends.       *)
WorkBegins ==
    /\ ~gate /\ work < MaxWork /\ work' = work + 1
    /\ UNCHANGED <<kind, candidate, operation, checking, updating, handles,
                   gate, stranded, exited, inputs>>

WorkEnds ==
    /\ work > 0 /\ work' = work - 1
    /\ UNCHANGED <<kind, candidate, operation, checking, updating, handles,
                   gate, stranded, exited, inputs>>

Checks ==
    \/ NothingNew \/ RejectOffer \/ CloseRejected \/ AcceptOffer \/ CheckFails

Updates ==
    \/ Downloaded \/ DownloadFails \/ BeginInstall \/ Install
    \/ InstallOrRelaunchFails \/ Installed \/ Relaunch \/ EndInstall

UpdaterNext ==
    /\ ~exited
    /\ \/ (\E byUser \in BOOLEAN : Check(byUser)) \/ Checks
       \/ StartUpdate \/ Updates
       \/ Dispose \/ Disposed \/ SetTransferBusy \/ SetAutomaticChecks
       \/ WorkBegins \/ WorkEnds

(* Every call of the plugin and of the backend answers at last; the user   *)
(* need not do anything.                                                   *)
UpdaterSpec ==
    /\ UpdaterInit /\ [][UpdaterNext]_controller
    /\ WF_controller(~exited /\ Checks) /\ WF_controller(~exited /\ Updates)

-----------------------------------------------------------------------------
(* The gate is held by a running installation only: no failed              *)
(* installation, refused relaunch or disposal leaves transfers locked out, *)
(* but only an endInstall that failed itself; and no transfer runs while   *)
(* files of the program are replaced.                                      *)
GateBelongsToUpdate ==
    /\ gate <=> update \in {"granted", "install", "relaunch", "release"} \/ stranded
    /\ update \in {"install", "relaunch"} \/ exited => work = 0

(* What is installed is the package that was downloaded last, of the       *)
(* update that is on offer and, until it is installed, stays on show.      *)
InstallsTheOffer ==
    /\ update \in {"gate", "granted", "install", "relaunch"} =>
         /\ fetched = using
         /\ disposal = "no" => candidate = using /\ downloaded
    /\ candidate # NoUpdate /\ disposal = "no" =>
         kind \in {"available", "downloading", "ready", "installing", "failed"}

(* Transfers are not locked out for ever: the gate opens again, unless     *)
(* endInstall fails, or the process is replaced.                           *)
GateOpensAgain == gate ~> (~gate \/ stranded \/ exited)
=============================================================================
