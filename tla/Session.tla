------------------------------ MODULE Session ------------------------------
(***************************************************************************)
(* One transfer over one secured connection: the sender task with its      *)
(* remote-signal monitor (run_outgoing_with_events, send_files,            *)
(* monitor_remote), the receiver task (handle_incoming, receive_incoming,  *)
(* receive_files, finish_incoming_error) and the destination folder, all   *)
(* of src-tauri/src/transfer.rs and transfer_files.rs.                     *)
(*                                                                         *)
(* A file is a run of Chunks data frames.  What a frame carries is only    *)
(* whether it agrees with the digest the sender announced: the source may  *)
(* change between hashing and streaming.  Every await that the code bounds *)
(* by a timer may time out, the connection may break, either user may      *)
(* cancel or quit, and either process may crash.                           *)
(***************************************************************************)
EXTENDS Integers, Sequences, FiniteSets

CONSTANTS NFiles,    \* files in the batch
          Chunks,    \* data frames that make up each announced file
          Window,    \* frames the connection buffers towards the receiver
          Stubborn   \* files the receiving filesystem may refuse to delete

Files == 1..NFiles

ASSUME BatchAssumption  == NFiles \in Nat \ {0} /\ Chunks \in Nat
ASSUME WindowAssumption == Window \in Nat \ {0}
ASSUME StubbornAssumption == Stubborn \subseteq Files

VARIABLES
    sUp, sPc,          \* sender process alive; control point of its task
    sPhase, sErr,      \* phase its tracker shows; error the task ends with
    sFile, sAt, sSent, \* file being streamed, point in it, frames sent of it
    sMsg,              \* frame being written
    monitor, signal,   \* monitor_remote and the signal it has queued
    sCancel, sShut,    \* the sender's cancellation and shutdown tokens
    rUp, rPc, rPhase, rErr,
    rFile, rAt,        \* file being received, point in it
    rReply, rFin,      \* decision to write; number of files finalized
    answer,            \* the pending incoming request and its resolution
    rCancel, rShut,
    staged, published, \* .part files and final files in the destination
    got, clean,        \* frames written to each file; do they match the digest
    conn, toR, toS     \* the connection and what is in flight each way

sVars    == <<sUp, sPc, sPhase, sErr, sFile, sAt, sSent, sMsg>>
mVars    == <<monitor, signal>>
rVars    == <<rUp, rPc, rPhase, rErr, rFile, rAt, rReply, rFin>>
diskVars == <<staged, published, got, clean>>
userVars == <<sCancel, sShut, rCancel, rShut, answer>>
netVars  == <<conn, toR, toS>>
vars == <<sVars, mVars, rVars, diskVars, userVars, netVars>>

-----------------------------------------------------------------------------
(* TransferPhase, TransferTracker.                                         *)

Phases == {"Preparing", "Requesting", "WaitingForAcceptance", "Accepted",
           "Transferring", "Verifying", "Completing",
           "Completed", "Rejected", "Failed", "Canceled"}
Terminal == {"Completed", "Rejected", "Failed", "Canceled"}

(* Variants named Bug... are plausible mistakes.  No action uses them: each *)
(* stands in for the definition that follows it, to show that a property   *)
(* notices.                                                                *)
BugNoFailureOnceVerifying(p, q) ==
    \/ p = q
    \/ p \notin Terminal \cup {"Verifying"} /\ q \in {"Canceled", "Failed"}
    \/ p = "Verifying" /\ q = "Completing"

CanTransition(p, q) ==
    \/ p = q
    \/ p \notin Terminal /\ q \in {"Canceled", "Failed"}
    \/ <<p, q>> \in {<<"Preparing", "Requesting">>,
                     <<"Requesting", "WaitingForAcceptance">>,
                     <<"WaitingForAcceptance", "Accepted">>,
                     <<"WaitingForAcceptance", "Rejected">>,
                     <<"Accepted", "Transferring">>,
                     <<"Transferring", "Verifying">>,
                     <<"Verifying", "Completing">>,
                     <<"Completing", "Completed">>}

(* TransferTracker::transition drops a transition the table does not allow. *)
Transition(p, q) == IF CanTransition(p, q) THEN q ELSE p

CancelErrors == {"Canceled", "RemoteCanceled", "ShuttingDown"}
Errors == CancelErrors \cup
          {"Timeout", "Connection", "Invalid", "RemoteFailure", "Local"}

BugLostWhileWaitingIsRejection(p, e) ==
    IF p \in Terminal THEN p
    ELSE IF p = "WaitingForAcceptance" /\ e = "Connection" THEN "Rejected"
    ELSE Transition(p, IF e \in CancelErrors THEN "Canceled" ELSE "Failed")

FinishError(p, e) ==
    IF p \in Terminal THEN p
    ELSE Transition(p, IF e \in CancelErrors THEN "Canceled" ELSE "Failed")

-----------------------------------------------------------------------------
(* Messages.  file is 0 and ok is TRUE where a message has no such field.  *)

ToReceiver == [kind : {"Request", "FileStart", "Data", "FileEnd",
                       "Complete", "Cancel"},
               file : 0..NFiles, ok : BOOLEAN]
Reasons == {"none", "declined", "busy", "expired", "cancelled"}
ToSender == [kind : {"Decision", "Result", "Cancel", "ProtocolError"},
             ok : BOOLEAN, why : Reasons]

Plain(k)        == [kind |-> k, file |-> 0, ok |-> TRUE]
FileMsg(k, f)   == [kind |-> k, file |-> f, ok |-> TRUE]
DataMsg(good)   == [kind |-> "Data", file |-> 0, ok |-> good]
Decision(ok, w) == [kind |-> "Decision", ok |-> ok, why |-> w]
Result(ok)      == [kind |-> "Result", ok |-> ok, why |-> "none"]
Notice(k)       == [kind |-> k, ok |-> FALSE, why |-> "none"]

SClosed == ~sUp \/ sPc = "done"
RClosed == ~rUp \/ rPc = "done"

(* The connection is "none", "up", "down" (both ends are told) or "silent" *)
(* (the peer is unreachable and nobody is told: what is written vanishes). *)
(* A write can be taken by the connection, whoever still reads from it.    *)
Takes     == conn \in {"up", "silent"}
Put(q, m) == IF conn = "up" THEN Append(q, m) ELSE q
RoomToR   == Takes /\ (conn = "up" => Len(toR) < Window)
StuckToR  == conn = "silent" \/ ~RoomToR
GoneForS  == conn = "down" \/ (conn = "up" /\ RClosed)
EofAtS    == toS = <<>> /\ GoneForS
EofAtR    == toR = <<>> /\ (conn = "down" \/ (conn = "up" /\ SClosed))

Init ==
    /\ sUp = TRUE /\ sPc = "prepare" /\ sPhase = "Preparing" /\ sErr = "None"
    /\ sFile = 1 /\ sAt = "start" /\ sSent = 0 /\ sMsg = Plain("Complete")
    /\ monitor = "off" /\ signal = "none"
    /\ rUp = TRUE /\ rPc = "idle" /\ rPhase = "None" /\ rErr = "None"
    /\ rFile = 1 /\ rAt = "start" /\ rReply = "none" /\ rFin = 0
    /\ answer = "none"
    /\ sCancel = FALSE /\ sShut = FALSE /\ rCancel = FALSE /\ rShut = FALSE
    /\ staged = {} /\ published = {}
    /\ got = [f \in Files |-> 0] /\ clean = [f \in Files |-> TRUE]
    /\ conn = "none" /\ toR = <<>> /\ toS = <<>>

-----------------------------------------------------------------------------
(* The sender.                                                             *)

(* A select! on the two tokens may pick either one that is set;            *)
(* check_cancelled looks at shutdown first.                                *)
SInterrupts == (IF sShut THEN {"ShuttingDown"} ELSE {})
               \cup (IF sCancel THEN {"Canceled"} ELSE {})
SChecked == IF sShut THEN {"ShuttingDown"} ELSE SInterrupts

SFail(e)   == sErr' = e /\ sPc' = "finish"
(* Once the request is out, a local cancellation is also sent to the peer. *)
SAbort(e)  == sErr' = e /\ sPc' = IF e = "Canceled" THEN "cancel" ELSE "finish"

SPrepare ==
    /\ sUp /\ sPc = "prepare"
    /\ \/ /\ SInterrupts = {}
          /\ sPhase' = Transition(sPhase, "Requesting")
          /\ sPc' = "connect" /\ UNCHANGED sErr
       \/ /\ \E e \in SInterrupts \cup {"Local"} : SFail(e)
          /\ UNCHANGED sPhase
    /\ UNCHANGED <<sUp, sFile, sAt, sSent, sMsg,
                   mVars, rVars, diskVars, userVars, netVars>>

(* The handshake completes on both sides at once: the listener has handed  *)
(* the connection to handle_incoming.                                      *)
SConnect ==
    /\ sUp /\ sPc = "connect"
    /\ \/ /\ rUp /\ rPc = "idle"
          /\ conn' = "up" /\ rPc' = "request" /\ sPc' = "trust"
          /\ UNCHANGED sErr
       \/ /\ \E e \in SInterrupts \cup {"Connection"} : SFail(e)
          /\ UNCHANGED <<conn, rPc>>
    /\ UNCHANGED <<sUp, sPhase, sFile, sAt, sSent, sMsg, mVars,
                   rUp, rPhase, rErr, rFile, rAt, rReply, rFin,
                   diskVars, userVars, toR, toS>>

STrust ==
    /\ sUp /\ sPc = "trust"
    /\ \/ sPc' = "request" /\ UNCHANGED sErr
       \/ \E e \in SInterrupts \cup {"Local"} : SFail(e)
    /\ UNCHANGED <<sUp, sPhase, sFile, sAt, sSent, sMsg,
                   mVars, rVars, diskVars, userVars, netVars>>

(* An interrupted write may still have reached the connection.             *)
SRequest ==
    /\ sUp /\ sPc = "request"
    /\ \/ /\ RoomToR
          /\ toR' = Put(toR, Plain("Request"))
          /\ \/ /\ sPhase' = Transition(sPhase, "WaitingForAcceptance")
                /\ sPc' = "decision" /\ UNCHANGED sErr
             \/ (\E e \in SInterrupts : SFail(e)) /\ UNCHANGED sPhase
       \/ /\ \/ \E e \in SInterrupts : SFail(e)
             \/ GoneForS /\ SFail("Connection")
             \/ StuckToR /\ SFail("Timeout")
          /\ UNCHANGED <<toR, sPhase>>
    /\ UNCHANGED <<sUp, sFile, sAt, sSent, sMsg, mVars, rVars,
                   diskVars, userVars, conn, toS>>

SDecision ==
    /\ sUp /\ sPc = "decision"
    /\ \/ /\ toS # <<>> /\ toS' = Tail(toS)
          /\ \/ /\ Head(toS).kind = "Decision" /\ Head(toS).ok
                /\ sPhase' = Transition(Transition(sPhase, "Accepted"),
                                        "Transferring")
                /\ sPc' = "stream" /\ monitor' = "reading"
                /\ UNCHANGED sErr
             \/ /\ Head(toS).kind = "Decision" /\ ~Head(toS).ok
                /\ sPhase' = Transition(sPhase,
                        IF Head(toS).why = "cancelled" THEN "Canceled"
                                                       ELSE "Rejected")
                /\ sPc' = "finish" /\ UNCHANGED <<sErr, monitor>>
             \/ /\ Head(toS).kind # "Decision"
                /\ SFail("RemoteFailure")
                /\ UNCHANGED <<sPhase, monitor>>
       \/ /\ \/ EofAtS /\ SFail("Connection")
             \/ SFail("Timeout")
             \/ \E e \in SInterrupts : SAbort(e)
          /\ UNCHANGED <<toS, sPhase, monitor>>
    /\ UNCHANGED <<sUp, sFile, sAt, sSent, sMsg, signal, rVars,
                   diskVars, userVars, conn, toR>>

(* What check_remote_signal or a select! on the signal reports while the   *)
(* sender is still streaming (remote_signal_error).                        *)
EarlySignal ==
    CASE signal = "cancelled"              -> {"RemoteCanceled"}
      [] signal \in {"success", "failure"} -> {"Invalid"}
      [] signal = "lost"                   -> {"Connection"}
      [] signal = "none"  -> IF monitor = "exited" THEN {"Connection"} ELSE {}

(* The checks in front of every watched write, and what is written next.   *)
(* Reading the source is part of it: the frame may differ from what was    *)
(* hashed, the file may end early or late, or the read may fail.           *)
NextMessage ==
    IF sAt = "start"
    THEN {IF sFile <= NFiles THEN FileMsg("FileStart", sFile)
                             ELSE Plain("Complete")}
    ELSE {FileMsg("FileEnd", sFile)} \cup
         (IF sSent <= Chunks THEN {DataMsg(TRUE), DataMsg(FALSE)} ELSE {})

StopStreaming ==
    IF sAt = "body" THEN SInterrupts \cup EarlySignal
    ELSE IF SChecked # {} THEN SChecked ELSE EarlySignal

SStream ==
    /\ sUp /\ sPc = "stream"
    /\ \/ /\ StopStreaming = {}
          /\ sMsg' \in NextMessage
          /\ sPc' = "write" /\ UNCHANGED sErr
       \/ /\ \/ \E e \in StopStreaming : SAbort(e)
             \/ StopStreaming = {} /\ sAt = "body" /\ SAbort("Local")
          /\ UNCHANGED sMsg
    /\ UNCHANGED <<sUp, sPhase, sFile, sAt, sSent,
                   mVars, rVars, diskVars, userVars, netVars>>

(* The write itself looks at neither the tokens nor the monitor again.     *)
SWrite ==
    /\ sUp /\ sPc = "write"
    /\ \/ /\ RoomToR
          /\ toR' = Put(toR, sMsg)
          /\ sAt' = CASE sMsg.kind = "Complete" -> "sent"
                      [] sMsg.kind = "FileEnd"  -> "start"
                      [] OTHER                  -> "body"
          /\ sSent' = IF sMsg.kind = "Data" THEN sSent + 1 ELSE 0
          /\ sFile' = IF sMsg.kind = "FileEnd" THEN sFile + 1 ELSE sFile
          /\ sPhase' = CASE sMsg.kind = "Complete" ->
                                Transition(sPhase, "Completing")
                         [] sMsg.kind = "FileEnd" /\ sFile = NFiles ->
                                Transition(sPhase, "Verifying")
                         [] OTHER -> sPhase
          /\ sPc' = IF sMsg.kind = "Complete" THEN "result" ELSE "stream"
          /\ UNCHANGED sErr
       \/ /\ \/ GoneForS /\ SAbort("Connection")
             \/ StuckToR /\ SAbort("Timeout")
          /\ UNCHANGED <<toR, sAt, sSent, sFile, sPhase>>
    /\ UNCHANGED <<sUp, sMsg, mVars, rVars, diskVars, userVars, conn, toS>>

BugResultTimerOnlyAfterExit == signal = "none" /\ monitor = "exited"

ResultWaitExpires == signal = "none"

SResult ==
    /\ sUp /\ sPc = "result"
    /\ \/ /\ signal = "success"
          /\ sPhase' = Transition(sPhase, "Completed")
          /\ sPc' = "finish" /\ UNCHANGED sErr
       \/ /\ \/ signal = "failure" /\ SAbort("RemoteFailure")
             \/ signal = "cancelled" /\ SAbort("RemoteCanceled")
             \/ signal = "lost" /\ SAbort("Connection")
             \/ signal = "none" /\ monitor = "exited" /\ SAbort("Connection")
             \/ ResultWaitExpires /\ SAbort("Timeout")
             \/ \E e \in SInterrupts : SAbort(e)
          /\ UNCHANGED sPhase
    /\ UNCHANGED <<sUp, sFile, sAt, sSent, sMsg,
                   mVars, rVars, diskVars, userVars, netVars>>

SSendCancel ==
    /\ sUp /\ sPc = "cancel"
    /\ \/ RoomToR /\ toR' = Put(toR, Plain("Cancel"))
       \/ UNCHANGED toR
    /\ sPc' = "finish"
    /\ UNCHANGED <<sUp, sPhase, sErr, sFile, sAt, sSent, sMsg,
                   mVars, rVars, diskVars, userVars, conn, toS>>

(* stop_remote_monitor, finish_error, finish_transfer; the socket closes.  *)
SFinish ==
    /\ sUp /\ sPc = "finish"
    /\ sPhase' = IF sErr = "None" THEN sPhase ELSE FinishError(sPhase, sErr)
    /\ monitor' = "off" /\ sPc' = "done"
    /\ UNCHANGED <<sUp, sErr, sFile, sAt, sSent, sMsg, signal,
                   rVars, diskVars, userVars, netVars>>

BugAnyResultIsSuccess(m) ==
    IF m.kind = "Cancel" THEN "cancelled" ELSE "success"

SignalOf(m) ==
    CASE m.kind = "Cancel"           -> "cancelled"
      [] m.kind = "Result" /\ m.ok   -> "success"
      [] OTHER                       -> "failure"

BugCloseIsCancel == "cancelled"

SignalOfEof == "lost"

(* monitor_remote reads one frame, queues what it means and exits.  On     *)
(* shutdown it exits with nothing queued.                                  *)
Monitor ==
    /\ sUp /\ monitor = "reading"
    /\ monitor' = "exited"
    /\ \/ /\ toS # <<>> /\ toS' = Tail(toS)
          /\ signal' = SignalOf(Head(toS))
       \/ EofAtS /\ signal' = SignalOfEof /\ UNCHANGED toS
       \/ sShut /\ UNCHANGED <<signal, toS>>
    /\ UNCHANGED <<sVars, rVars, diskVars, userVars, conn, toR>>

-----------------------------------------------------------------------------
(* The receiver.                                                           *)

RInterrupts == (IF rShut THEN {"ShuttingDown"} ELSE {})
               \cup (IF rCancel THEN {"Canceled"} ELSE {})
RChecked == IF rShut THEN {"ShuttingDown"} ELSE RInterrupts

(* The task ends before a batch exists; finish_error only shows the error  *)
(* when there is a tracker.                                                *)
REnd(e) ==
    /\ rPc' = "done" /\ rErr' = e
    /\ rPhase' = IF rPhase = "None" \/ e = "None" THEN rPhase
                 ELSE FinishError(rPhase, e)

(* finish_incoming_error starts with the deletions.                        *)
RAbort(e) == rErr' = e /\ rPc' = "cleanup"

(* Best-effort writes of the receiver: sent, or not.                       *)
MaySend(m) == toS' \in {toS, Put(toS, m)}

RRequest ==
    /\ rUp /\ rPc = "request"
    /\ \/ /\ toR # <<>> /\ Head(toR).kind = "Request"
          /\ toR' = Tail(toR) /\ rPc' = "trust"
          /\ UNCHANGED <<rPhase, rErr>>
       \/ /\ \/ EofAtR /\ REnd("None")       \* an identification probe
             \/ REnd("Timeout")
             \/ rShut /\ REnd("ShuttingDown")
          /\ UNCHANGED toR
    /\ UNCHANGED <<rUp, rFile, rAt, rReply, rFin,
                   sVars, mVars, diskVars, userVars, conn, toS>>

(* ensure_peer_trusted and try_begin_transfer; the pending request is      *)
(* registered before the user is shown it.                                 *)
RTrust ==
    /\ rUp /\ rPc = "trust"
    /\ \/ /\ rPhase' = "WaitingForAcceptance" /\ rPc' = "ask"
          /\ answer' = "pending" /\ UNCHANGED <<rErr, toS>>
       \/ /\ REnd("None")                      \* busy with another transfer
          /\ MaySend(Decision(FALSE, "busy")) /\ UNCHANGED answer
       \/ /\ rPhase' = "Failed" /\ rPc' = "done" /\ rErr' = "Local"
          /\ MaySend(Notice("ProtocolError"))  \* the request cannot be shown
          /\ UNCHANGED answer
       \/ /\ \E e \in {"Local"} \cup RInterrupts : REnd(e)
          /\ UNCHANGED <<answer, toS>>
    /\ UNCHANGED <<rUp, rFile, rAt, rReply, rFin, sVars, mVars, diskVars,
                   sCancel, sShut, rCancel, rShut, conn, toR>>

BugAnyAnswerAccepts == "accept"

ReplyToAnswer == IF answer = "yes" THEN "accept" ELSE "declined"

(* wait_for_decision and clear_pending_request.                            *)
RAsk ==
    /\ rUp /\ rPc = "ask"
    /\ answer' = IF answer = "pending" THEN "cleared" ELSE answer
    /\ \/ /\ answer \in {"yes", "no"}
          /\ \/ /\ RChecked = {}
                /\ rReply' = ReplyToAnswer
                /\ rPc' = "decide" /\ UNCHANGED <<rErr, rPhase>>
             \/ /\ RChecked = {"Canceled"}
                /\ rReply' = "cancelled" /\ rPc' = "decide"
                /\ UNCHANGED <<rErr, rPhase>>
             \/ /\ RChecked = {"ShuttingDown"}
                /\ REnd("ShuttingDown") /\ UNCHANGED rReply
          /\ UNCHANGED toR
       \/ /\ toR # <<>> /\ Head(toR).kind = "Cancel"
          /\ toR' = Tail(toR) /\ REnd("RemoteCanceled")
          /\ UNCHANGED rReply
       \/ EofAtR /\ REnd("Connection") /\ UNCHANGED <<toR, rReply>>
       \/ /\ rReply' = "expired" /\ rPc' = "decide"
          /\ UNCHANGED <<rErr, rPhase, toR>>
       \/ /\ rCancel /\ rReply' = "cancelled" /\ rPc' = "decide"
          /\ UNCHANGED <<rErr, rPhase, toR>>
       \/ rShut /\ REnd("ShuttingDown") /\ UNCHANGED <<toR, rReply>>
    /\ UNCHANGED <<rUp, rFile, rAt, rFin, sVars, mVars, diskVars,
                   sCancel, sShut, rCancel, rShut, conn, toS>>

(* The decision is written; after an acceptance the destination folder is  *)
(* checked.                                                                *)
RDecide ==
    /\ rUp /\ rPc = "decide"
    /\ \/ /\ rReply = "accept" /\ Takes
          /\ toS' = Put(toS, Decision(TRUE, "none"))
          /\ rPhase' = Transition(Transition(rPhase, "Accepted"),
                                  "Transferring")
          /\ \/ rPc' = "receive" /\ UNCHANGED rErr
             \/ RAbort("Local")
       \/ /\ rReply \in {"declined", "expired"} /\ Takes
          /\ toS' = Put(toS, Decision(FALSE, rReply))
          /\ rPhase' = Transition(rPhase, "Rejected")
          /\ rPc' = "done" /\ UNCHANGED rErr
       \/ /\ rReply = "cancelled"
          /\ MaySend(Decision(FALSE, "cancelled"))
          /\ REnd("Canceled")
       \/ /\ rReply # "cancelled"
          /\ REnd("Connection") /\ UNCHANGED toS
    /\ UNCHANGED <<rUp, rFile, rAt, rReply, rFin,
                   sVars, mVars, diskVars, userVars, conn, toR>>

BugOneFrameTooMany(m) ==
    \/ rAt = "start" /\ rFile <= NFiles
         /\ m.kind = "FileStart" /\ m.file = rFile
    \/ rAt = "start" /\ rFile > NFiles /\ m.kind = "Complete"
    \/ rAt = "body" /\ m.kind = "Data" /\ got[rFile] <= Chunks
    \/ rAt = "body" /\ m.kind = "FileEnd" /\ m.file = rFile
         /\ got[rFile] = Chunks

(* receive_files: what the next frame must be, and what it does.  A frame  *)
(* is read and then applied to the file on disk, which may fail.           *)
Expected(m) ==
    \/ rAt = "start" /\ rFile <= NFiles
         /\ m.kind = "FileStart" /\ m.file = rFile
    \/ rAt = "start" /\ rFile > NFiles /\ m.kind = "Complete"
    \/ rAt = "body" /\ m.kind = "Data" /\ got[rFile] < Chunks
    \/ rAt = "body" /\ m.kind = "FileEnd" /\ m.file = rFile
         /\ got[rFile] = Chunks

RStart(m) ==
    /\ m.kind = "FileStart"
    /\ staged' = staged \cup {rFile}
    /\ got' = [got EXCEPT ![rFile] = 0]
    /\ clean' = [clean EXCEPT ![rFile] = TRUE]
    /\ rAt' = "body" /\ UNCHANGED <<rFile, rPc, rErr>>

RData(m) ==
    /\ m.kind = "Data"
    /\ got' = [got EXCEPT ![rFile] = @ + 1]
    /\ clean' = [clean EXCEPT ![rFile] = @ /\ m.ok]
    /\ UNCHANGED <<rFile, rAt, staged, rPc, rErr>>

BugSizeIsEnough(f) == TRUE

DigestMatches(f) == clean[f]

RFileEnd(m) ==
    /\ m.kind = "FileEnd"
    /\ IF DigestMatches(rFile)
       THEN rFile' = rFile + 1 /\ rAt' = "start" /\ UNCHANGED <<rPc, rErr>>
       ELSE RAbort("Local") /\ UNCHANGED <<rFile, rAt>>
    /\ UNCHANGED <<staged, got, clean>>

RComplete(m) ==
    /\ m.kind = "Complete"
    /\ rPc' = "verify"
    /\ UNCHANGED <<rFile, rAt, rErr, staged, got, clean>>

BugOnlyDataReadsExpire == rAt = "body"

(* read_control_with_timeout and read_frame_with_timeout.                  *)
FrameReadExpires == rAt \in {"start", "body"}

RReceive ==
    /\ rUp /\ rPc = "receive"
    /\ \/ /\ toR # <<>> /\ toR' = Tail(toR)
          /\ LET m == Head(toR) IN
             \/ /\ Expected(m)
                /\ RStart(m) \/ RData(m) \/ RFileEnd(m) \/ RComplete(m)
             \/ /\ \/ Expected(m) /\ m.kind # "Complete" /\ RAbort("Local")
                   \/ m.kind = "Cancel" /\ RAbort("RemoteCanceled")
                   \/ ~Expected(m) /\ m.kind # "Cancel" /\ RAbort("Invalid")
                /\ UNCHANGED <<rFile, rAt, staged, got, clean>>
       \/ /\ \/ EofAtR /\ RAbort("Connection")
             \/ FrameReadExpires /\ RAbort("Timeout")
             \/ \E e \in RInterrupts : RAbort(e)
          /\ UNCHANGED <<toR, rFile, rAt, staged, got, clean>>
    /\ UNCHANGED <<rUp, rPhase, rReply, rFin, published,
                   sVars, mVars, userVars, conn, toS>>

RVerify ==
    /\ rUp /\ rPc = "verify"
    /\ \/ /\ RChecked = {}
          /\ rPhase' = Transition(rPhase, "Verifying")
          /\ rPc' = "finalize" /\ UNCHANGED rErr
       \/ (\E e \in RChecked : RAbort(e)) /\ UNCHANGED rPhase
    /\ UNCHANGED <<rUp, rFile, rAt, rReply, rFin,
                   sVars, mVars, diskVars, userVars, netVars>>

(* One turn of the finalization loop.  Name collisions are resolved inside *)
(* finalize_staged_file.  The hard-link fallback may leave both names when *)
(* neither can be deleted; that file is then not in the finalized list.    *)
RFinalize ==
    /\ rUp /\ rPc = "finalize"
    /\ \/ /\ RChecked = {} /\ rFin < NFiles
          /\ \/ /\ staged' = staged \ {rFin + 1}
                /\ published' = published \cup {rFin + 1}
                /\ rFin' = rFin + 1 /\ UNCHANGED <<rPc, rErr>>
             \/ /\ published' \in {published, published \cup
                                            ({rFin + 1} \cap Stubborn)}
                /\ RAbort("Local") /\ UNCHANGED <<staged, rFin>>
          /\ UNCHANGED rPhase
       \/ /\ RChecked = {} /\ rFin = NFiles
          /\ rPhase' = Transition(rPhase, "Completing")
          /\ rPc' = "commit" /\ UNCHANGED <<rErr, rFin, staged, published>>
       \/ /\ \E e \in RChecked : RAbort(e)
          /\ UNCHANGED <<rPhase, rFin, staged, published>>
    /\ UNCHANGED <<rUp, rFile, rAt, rReply, got, clean,
                   sVars, mVars, userVars, netVars>>

(* The last look at the tokens: from here the batch is kept.               *)
RCommit ==
    /\ rUp /\ rPc = "commit"
    /\ \/ RChecked = {} /\ rPc' = "acknowledge" /\ UNCHANGED rErr
       \/ \E e \in RChecked : RAbort(e)
    /\ UNCHANGED <<rUp, rPhase, rFile, rAt, rReply, rFin,
                   sVars, mVars, diskVars, userVars, netVars>>

BugUnsentAckUndoesBatch ==
    /\ rUp /\ rPc = "acknowledge"
    /\ \/ toS' = Put(toS, Result(TRUE)) /\ rPc' = "complete" /\ UNCHANGED rErr
       \/ RAbort("Connection") /\ UNCHANGED toS
    /\ UNCHANGED <<rUp, rPhase, rFile, rAt, rReply, rFin,
                   sVars, mVars, diskVars, userVars, conn, toR>>

RAcknowledge ==
    /\ rUp /\ rPc = "acknowledge"
    /\ MaySend(Result(TRUE)) /\ rPc' = "complete"
    /\ UNCHANGED <<rUp, rPhase, rErr, rFile, rAt, rReply, rFin,
                   sVars, mVars, diskVars, userVars, conn, toR>>

RFinish ==
    /\ rUp /\ rPc = "complete"
    /\ rPhase' = Transition(rPhase, "Completed") /\ rPc' = "done"
    /\ UNCHANGED <<rUp, rErr, rFile, rAt, rReply, rFin,
                   sVars, mVars, diskVars, userVars, netVars>>

BugCleanupStopsAtFirstError ==
    IF staged \cap Stubborn = {} THEN {{}} ELSE SUBSET staged

(* cleanup_staged tries every file, three times each.                      *)
CleanupLeaves == SUBSET (staged \cap Stubborn)

RCleanup ==
    /\ rUp /\ rPc = "cleanup"
    /\ staged' \in CleanupLeaves
    /\ rPc' = "rollback"
    /\ UNCHANGED <<rUp, rPhase, rErr, rFile, rAt, rReply, rFin,
                   published, got, clean, sVars, mVars, userVars, netVars>>

BugNothingToRollBack == {}

(* rollback_finalized: only what the finalized list names.                 *)
Finalized == 1..rFin

RRollback ==
    /\ rUp /\ rPc = "rollback"
    /\ \E kept \in SUBSET (Finalized \cap Stubborn) :
           published' = published \ (Finalized \ kept)
    /\ rPc' = "report"
    /\ UNCHANGED <<rUp, rPhase, rErr, rFile, rAt, rReply, rFin,
                   staged, got, clean, sVars, mVars, userVars, netVars>>

(* The rest of finish_incoming_error.  Either write may be lost.           *)
RReport ==
    /\ rUp /\ rPc = "report"
    /\ LET cancels == IF rErr = "Canceled" THEN {<<>>, <<Notice("Cancel")>>}
                                           ELSE {<<>>}
       IN \E c \in cancels, r \in {<<>>, <<Result(FALSE)>>} :
             /\ conn = "up" \/ c \o r = <<>>
             /\ toS' = toS \o c \o r
    /\ REnd(rErr)
    /\ UNCHANGED <<rUp, rFile, rAt, rReply, rFin,
                   sVars, mVars, diskVars, userVars, conn, toR>>

-----------------------------------------------------------------------------
(* Users, crashes, the network.                                            *)

SUserCancel ==
    /\ sUp /\ sPc # "done" /\ ~sCancel /\ sCancel' = TRUE
    /\ UNCHANGED <<sVars, mVars, rVars, diskVars, netVars,
                   sShut, rCancel, rShut, answer>>

(* AppState::shutdown: the token, every registered cancellation, and a no  *)
(* to every pending request.                                               *)
SShutdown ==
    /\ sUp /\ ~sShut /\ sShut' = TRUE
    /\ sCancel' = (sCancel \/ sPc # "done")
    /\ UNCHANGED <<sVars, mVars, rVars, diskVars, netVars,
                   rCancel, rShut, answer>>

(* The receiving user's cancellation is registered once the slot is taken. *)
Registered == rPc \notin {"idle", "request", "trust", "done"}

RUserCancel ==
    /\ rUp /\ Registered /\ ~rCancel /\ rCancel' = TRUE
    /\ UNCHANGED <<sVars, mVars, rVars, diskVars, netVars,
                   sCancel, sShut, rShut, answer>>

RShutdown ==
    /\ rUp /\ ~rShut /\ rShut' = TRUE
    /\ rCancel' = (rCancel \/ Registered)
    /\ answer' = IF answer = "pending" THEN "no" ELSE answer
    /\ UNCHANGED <<sVars, mVars, rVars, diskVars, netVars, sCancel, sShut>>

RUserAnswer ==
    /\ rUp /\ answer = "pending" /\ answer' \in {"yes", "no"}
    /\ UNCHANGED <<sVars, mVars, rVars, diskVars, netVars,
                   sCancel, sShut, rCancel, rShut>>

(* A process dies where it stands; what is on disk stays there.            *)
SCrash ==
    /\ sUp /\ sPc # "done" /\ sUp' = FALSE
    /\ UNCHANGED <<sPc, sPhase, sErr, sFile, sAt, sSent, sMsg,
                   mVars, rVars, diskVars, userVars, netVars>>

RCrash ==
    /\ rUp /\ rPc # "done" /\ rUp' = FALSE
    /\ UNCHANGED <<rPc, rPhase, rErr, rFile, rAt, rReply, rFin,
                   sVars, mVars, diskVars, userVars, netVars>>

(* The connection breaks, noticed or not: a suffix of what is in flight is *)
(* lost each way.                                                          *)
Break ==
    /\ conn = "up" /\ conn' \in {"down", "silent"}
    /\ \E i \in 0..Len(toR) : toR' = SubSeq(toR, 1, i)
    /\ \E i \in 0..Len(toS) : toS' = SubSeq(toS, 1, i)
    /\ UNCHANGED <<sVars, mVars, rVars, diskVars, userVars>>

SenderStep == \/ SPrepare \/ SConnect \/ STrust \/ SRequest \/ SDecision
              \/ SStream \/ SWrite \/ SResult \/ SSendCancel \/ SFinish
ReceiverStep == \/ RRequest \/ RTrust \/ RAsk \/ RDecide \/ RReceive
                \/ RVerify \/ RFinalize \/ RCommit \/ RAcknowledge
                \/ RFinish \/ RCleanup \/ RRollback \/ RReport
Environment == \/ SUserCancel \/ SShutdown \/ RUserCancel \/ RShutdown
               \/ RUserAnswer \/ SCrash \/ RCrash \/ Break

Next == SenderStep \/ Monitor \/ ReceiverStep \/ Environment

Spec == Init /\ [][Next]_vars

(* The runtime keeps polling live tasks and every timer fires: each task   *)
(* that can move does.  Users, crashes and the network owe nothing.        *)
Fairness == WF_vars(SenderStep) /\ WF_vars(Monitor) /\ WF_vars(ReceiverStep)

FairSpec == Spec /\ Fairness

-----------------------------------------------------------------------------
(* Properties.                                                             *)

(* Every variable keeps its type and the connection never buffers more     *)
(* than its window.                                                        *)
TypeOK ==
    /\ sUp \in BOOLEAN /\ rUp \in BOOLEAN
    /\ sPc \in {"prepare", "connect", "trust", "request", "decision", "stream",
                "write", "result", "cancel", "finish", "done"}
    /\ rPc \in {"idle", "request", "trust", "ask", "decide", "receive",
                "verify", "finalize", "commit", "acknowledge", "complete",
                "cleanup", "rollback", "report", "done"}
    /\ sPhase \in Phases /\ rPhase \in Phases \cup {"None"}
    /\ sErr \in Errors \cup {"None"} /\ rErr \in Errors \cup {"None"}
    /\ sFile \in 1..(NFiles + 1) /\ rFile \in 1..(NFiles + 1)
    /\ sAt \in {"start", "body", "sent"} /\ rAt \in {"start", "body"}
    /\ sSent \in 0..(Chunks + 1)
    /\ sMsg \in ToReceiver
    /\ monitor \in {"off", "reading", "exited"}
    /\ signal \in {"none", "cancelled", "success", "failure", "lost"}
    /\ rReply \in {"none", "accept", "declined", "expired", "cancelled"}
    /\ rFin \in 0..NFiles
    /\ answer \in {"none", "pending", "yes", "no", "cleared"}
    /\ sCancel \in BOOLEAN /\ sShut \in BOOLEAN
    /\ rCancel \in BOOLEAN /\ rShut \in BOOLEAN
    /\ staged \subseteq Files /\ published \subseteq Files
    /\ got \in [Files -> 0..Chunks] /\ clean \in [Files -> BOOLEAN]
    /\ conn \in {"none", "up", "down", "silent"}
    /\ toR \in Seq(ToReceiver) /\ toS \in Seq(ToSender)
    /\ Len(toR) <= Window

Committed == rPc \in {"acknowledge", "complete"} \/ rPhase = "Completed"
Verified(f) == got[f] = Chunks /\ clean[f]

(* A sender that shows Completed has had its batch delivered: the receiver *)
(* is past its last look at the cancellation tokens, every file is at its  *)
(* final name and every byte is the one announced.  Sender result handling *)
(* in send_files against receive_incoming's finalization.                  *)
CompletedMeansDelivered ==
    sPhase = "Completed" =>
        Committed /\ published = Files /\ \A f \in Files : Verified(f)

(* No file gets its final name before the sender has sent Complete and the *)
(* whole batch, not only that file, has passed its size and digest checks: *)
(* receive_files returns before the finalization loop of receive_incoming. *)
PublishedOnlyAsVerifiedBatch ==
    published # {} => sAt = "sent" /\ \A f \in Files : Verified(f)

(* Nothing is written to the destination folder unless the receiving user  *)
(* said yes to this request: wait_for_decision before receive_files.       *)
DiskNeedsConsent == staged \cup published # {} => answer = "yes"

(* A receiver task that ends without completing leaves neither staging     *)
(* files nor finalized files behind, except files the filesystem refuses   *)
(* to delete; a completed one leaves no staging file: finish_incoming_error*)
(* on every path that can follow a staged or finalized file.               *)
EndedBatchIsAllOrNothing ==
    rPc = "done" =>
        IF rPhase = "Completed" THEN staged = {} /\ published = Files
        ELSE staged \cup published \subseteq Stubborn

(* A task that has ended shows its user a terminal phase, and the one its  *)
(* outcome calls for: no error path of send_files or receive_incoming      *)
(* returns before the tracker has been told, in an order the phase table   *)
(* accepts.  A receiver that never had a tracker shows nothing.            *)
Shows(phase, err, successes) ==
    CASE err = "None"           -> phase \in successes
      [] err \in CancelErrors   -> phase = "Canceled"
      [] OTHER                  -> phase = "Failed"

OutcomeIsShown ==
    /\ sPc = "done" =>
          Shows(sPhase, sErr, {"Completed", "Rejected", "Canceled"})
    /\ rPc = "done" /\ rPhase # "None" =>
          Shows(rPhase, rErr, {"Completed", "Rejected"})

(* What one side tells its user about the other is true: it blames a       *)
(* remote cancellation only on a peer that was cancelled, a remote failure *)
(* only on a peer that failed, and a rejection only on a peer that turned  *)
(* the request down and wrote no file.                                     *)
BlameIsReal ==
    /\ sErr = "RemoteCanceled" => rErr = "Canceled"
    /\ sErr = "RemoteFailure"  => rErr # "None" /\ ~Committed
    /\ rErr = "RemoteCanceled" => sErr = "Canceled"
    /\ sPhase = "Rejected" =>
           rPhase \in {"None", "Rejected"} /\ staged \cup published = {}

(* Past its last check the receiver never takes the batch back, whatever   *)
(* is cancelled, lost or crashes afterwards.                               *)
CommitIsFinal ==
    [][Committed => Committed' /\ published' = published]_vars

(* Every wait of either task is bounded, so both tasks end whatever the    *)
(* users, the network and the other side do.                               *)
SenderEnds   == <>(sPc = "done" \/ ~sUp)
ReceiverEnds == (rPc # "idle") ~> (rPc = "done" \/ ~rUp)

(* Of a result that arrives while files are still being streamed, the code *)
(* says that the receiver completed before the sender finished             *)
(* (remote_signal_error).                                                  *)
EarlyResultMeansCompleted == sErr = "Invalid" => Committed

-----------------------------------------------------------------------------
(* The session implements the handover.  The receiver keeps the batch when *)
(* it passes its last check, before the sender or its own user can know.   *)

ReceiverOutcome == IF Committed THEN "kept"
                   ELSE IF rPc = "done" THEN "dropped" ELSE "pending"
SenderOutcome == IF sPhase = "Completed" THEN "completed"
                 ELSE IF sPhase \in Terminal THEN "stopped" ELSE "pending"

H == INSTANCE Handover WITH agreed <- answer = "yes", offered <- sAt = "sent",
        dest <- published, receiver <- ReceiverOutcome, sender <- SenderOutcome

(* Every step of the two tasks is a step of the abstract handover or       *)
(* invisible to it.                                                        *)
ImplementsHandover == H!Spec
=============================================================================
