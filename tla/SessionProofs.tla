--------------------------- MODULE SessionProofs ----------------------------
(***************************************************************************)
(* Theorems about Session for a batch of any number of files of any size,  *)
(* any window and any set of files that resist deletion.                   *)
(*                                                                         *)
(* The inductive invariant ties each control point of the two tasks to the *)
(* phase their users see, to the files on disk and to what is in flight.   *)
(***************************************************************************)
EXTENDS Session, TLAPS

(* The sender: its phase and error at each control point, ...              *)
SenderShows ==
    /\ sPc = "prepare" => sPhase = "Preparing"
    /\ sPc \in {"connect", "trust", "request"} => sPhase = "Requesting"
    /\ sPc = "decision" => sPhase = "WaitingForAcceptance"
    /\ sPc \in {"stream", "write"} =>
           sPhase = IF sFile <= NFiles THEN "Transferring" ELSE "Verifying"
    /\ sPc = "result" => sPhase = "Completing"
    /\ sPc = "cancel" => sErr = "Canceled" /\ sPhase \notin Terminal
    /\ sPc = "finish" => IF sErr = "None"
                         THEN sPhase \in {"Completed", "Rejected", "Canceled"}
                         ELSE sPhase \notin Terminal
    /\ sPc = "done" => Shows(sPhase, sErr, {"Completed", "Rejected", "Canceled"})
    /\ sPc \notin {"cancel", "finish", "done"} => sErr = "None"

(* ... and how far it is in the batch.                                     *)
SenderStreams ==
    /\ sPc \in {"prepare", "connect", "trust", "request", "decision"} =>
           sAt = "start" /\ sFile = 1
    /\ sPc = "stream" => sAt # "sent"
    /\ sPc = "write"  => sAt # "sent" /\ sMsg \in NextMessage
    /\ sAt = "body"   => sFile \in Files

(* The receiver: its phase and error at each control point, ...            *)
ReceiverShows ==
    /\ rPc \in {"idle", "request", "trust"} => rPhase = "None"
    /\ rPc \in {"ask", "decide"} => rPhase = "WaitingForAcceptance"
    /\ rPc \in {"receive", "verify"} => rPhase = "Transferring"
    /\ rPc = "finalize" => rPhase = "Verifying"
    /\ rPc \in {"commit", "acknowledge", "complete"} => rPhase = "Completing"
    /\ rPc \in {"cleanup", "rollback", "report"} =>
           rErr # "None" /\ rPhase \notin Terminal \cup {"None"}
    /\ rPc = "done" => \/ rPhase = "None"
                       \/ Shows(rPhase, rErr, {"Completed", "Rejected"})
    /\ rPc \notin {"cleanup", "rollback", "report", "done"} => rErr = "None"

Deciding == {"idle", "request", "trust", "ask", "decide"}
Keeping == {"verify", "finalize", "commit", "acknowledge", "complete"}

(* ... its answer, ...                                                     *)
Consent ==
    /\ rPc \in {"idle", "request", "trust"} => answer = "none"
    /\ answer = "pending" => rPc = "ask"
    /\ rPc = "decide" /\ rReply = "accept" => answer = "yes"
    /\ rPc \notin Deciding \cup {"done"} => answer = "yes"
    /\ DiskNeedsConsent

(* ... and the files on its disk.                                          *)
Disk ==
    /\ rPc \in Deciding => rFile = 1 /\ rAt = "start" /\ staged = {}
    /\ rPc \in Deciding \cup {"receive", "verify"} => rFin = 0 /\ published = {}
    /\ rPc = "receive" =>
           /\ rAt = "body" => rFile \in Files
           /\ staged = 1..(IF rAt = "body" THEN rFile ELSE rFile - 1)
           /\ \A f \in 1..(rFile - 1) : Verified(f)
    /\ rPc \in Keeping =>
           /\ sAt = "sent" /\ \A f \in Files : Verified(f)
           /\ published = 1..rFin /\ staged = Files \ published
    /\ rPc \in {"commit", "acknowledge", "complete"} => rFin = NFiles
    /\ rPc \in {"cleanup", "rollback"} => published \subseteq Finalized \cup Stubborn
    /\ rPc \in {"rollback", "report"} => staged \subseteq Stubborn
    /\ rPc = "report" => published \subseteq Stubborn
    /\ EndedBatchIsAllOrNothing
    /\ PublishedOnlyAsVerifiedBatch

(* A receiver that turned the request down, and one that failed.           *)
TurnedDown ==
    rPc = "done" /\ rPhase \in {"None", "Rejected"} /\ staged \cup published = {}
GaveUp == rPc = "done" /\ rErr # "None" /\ ~Committed

(* What frames towards the receiver say of the sender is true, ...         *)
ToReceiverIsTrue ==
    /\ \A i \in 1..Len(toR) :
         /\ toR[i].kind = "Complete" => sAt = "sent"
         /\ toR[i].kind = "Cancel" => sErr = "Canceled" /\ sPc \in {"finish", "done"}
    /\ rErr = "RemoteCanceled" => sErr = "Canceled" /\ sPc \in {"finish", "done"}

(* ... and so is what frames towards the sender say of the receiver, once  *)
(* they are read as well.  There is one decision, and it comes first.      *)
ToSenderIsTrue ==
    /\ \A i \in 1..Len(toS) :
         /\ rPc \notin Deciding
         /\ toS[i].kind = "Decision" =>
              /\ i = 1 /\ monitor = "off"
              /\ ~toS[i].ok /\ toS[i].why # "cancelled" => TurnedDown
         /\ toS[i].kind = "Result" => IF toS[i].ok THEN Committed ELSE GaveUp
         /\ toS[i].kind = "Cancel" => GaveUp /\ rErr = "Canceled"
         /\ toS[i].kind = "ProtocolError" => GaveUp
    /\ monitor # "off" => rPc \notin Deciding

SenderIsToldTheTruth ==
    /\ signal = "success" => Committed
    /\ signal = "failure" => GaveUp
    /\ signal = "cancelled" => GaveUp /\ rErr = "Canceled"
    /\ sPhase = "Completed" => Committed
    /\ sPhase = "Rejected" => TurnedDown
    /\ sErr = "RemoteCanceled" => GaveUp /\ rErr = "Canceled"
    /\ sErr = "RemoteFailure" => GaveUp

IInv ==
    /\ TypeOK /\ SenderShows /\ SenderStreams
    /\ ReceiverShows /\ Consent /\ Disk
    /\ ToReceiverIsTrue /\ ToSenderIsTrue /\ SenderIsToldTheTruth

-----------------------------------------------------------------------------
(* Queues.  A frame of the shortened queue is one of the queue.            *)
LEMMA PrefixIsPart ==
    ASSUME NEW S, NEW q \in Seq(S), NEW n \in 0..Len(q)
    PROVE  /\ SubSeq(q, 1, n) \in Seq(S) /\ Len(SubSeq(q, 1, n)) = n
           /\ \A i \in 1..n : SubSeq(q, 1, n)[i] = q[i]
OBVIOUS

(* A queue without its first frame.                                        *)
LEMMA TailIsPart ==
    ASSUME NEW S, NEW q \in Seq(S), q # <<>>
    PROVE  /\ Head(q) \in S /\ Head(q) = q[1] /\ Tail(q) \in Seq(S)
           /\ Len(q) \in Nat \ {0} /\ Len(Tail(q)) = Len(q) - 1
           /\ \A i \in 1..Len(Tail(q)) : Tail(q)[i] = q[i + 1]
OBVIOUS

(* A queue with one more frame.                                            *)
LEMMA AppendAddsLast ==
    ASSUME NEW S, NEW q \in Seq(S), NEW m \in S
    PROVE  /\ Append(q, m) \in Seq(S) /\ Len(Append(q, m)) = Len(q) + 1
           /\ \A i \in 1..Len(q) : Append(q, m)[i] = q[i]
           /\ Append(q, m)[Len(q) + 1] = m
OBVIOUS

(* The frames that are written.                                            *)
LEMMA FramesAreTyped ==
    /\ \A k \in {"Request", "Complete", "Cancel"} : Plain(k) \in ToReceiver
    /\ \A f \in Files : FileMsg("FileStart", f) \in ToReceiver
                       /\ FileMsg("FileEnd", f) \in ToReceiver
    /\ \A good \in BOOLEAN : DataMsg(good) \in ToReceiver
    /\ \A ok \in BOOLEAN, w \in Reasons : Decision(ok, w) \in ToSender
    /\ \A ok \in BOOLEAN : Result(ok) \in ToSender
    /\ \A k \in {"Cancel", "ProtocolError"} : Notice(k) \in ToSender
BY BatchAssumption DEF Plain, FileMsg, DataMsg, Decision, Result, Notice,
   ToReceiver, ToSender, Reasons, Files

(* What the tracker's transitions and the tokens can answer.               *)
LEMMA AnswersOfHelpers ==
    /\ \A p, q : Transition(p, q) \in {p, q}
    /\ \A p, e : FinishError(p, e) \in {p, "Canceled", "Failed"}
    /\ SInterrupts \subseteq CancelErrors /\ SChecked \subseteq CancelErrors
    /\ RInterrupts \subseteq CancelErrors /\ RChecked \subseteq CancelErrors
    /\ CancelErrors \subseteq Errors /\ Terminal \subseteq Phases
BY DEF Transition, FinishError, Phases, Terminal, SInterrupts, SChecked,
   RInterrupts, RChecked, CancelErrors, Errors

(* Nor do the tokens ever name the peer's cancellation.                    *)
LEMMA InterruptsAreLocal ==
    "RemoteCanceled" \notin SInterrupts \cup SChecked \cup RInterrupts \cup RChecked
BY DEF SInterrupts, SChecked, RInterrupts, RChecked

-----------------------------------------------------------------------------
(* Which steps touch what: the sender's variables, ...                     *)
LEMMA SenderFrame ==
    ASSUME [Next]_vars, ~SenderStep, ~SCrash
    PROVE  UNCHANGED sVars
<1>1. CASE Monitor
  BY <1>1 DEF Monitor
<1>2. CASE ReceiverStep
  BY <1>2 DEF ReceiverStep, RRequest, RTrust, RAsk, RDecide, RReceive, RVerify,
     RFinalize, RCommit, RAcknowledge, RFinish, RCleanup, RRollback, RReport
<1>3. CASE Environment
  BY <1>3 DEF Environment, SUserCancel, SShutdown, RUserCancel, RShutdown,
     RUserAnswer, RCrash, Break
<1> QED BY <1>1, <1>2, <1>3 DEF Next, vars

(* The receiver's variables.                                               *)
LEMMA ReceiverFrame ==
    ASSUME [Next]_vars, ~ReceiverStep, ~SConnect, ~RCrash
    PROVE  UNCHANGED rVars
<1>1. CASE Monitor
  BY <1>1 DEF Monitor
<1>2. CASE SenderStep
  BY <1>2 DEF SenderStep, SPrepare, STrust, SRequest, SDecision, SStream, SWrite,
     SResult, SSendCancel, SFinish
<1>3. CASE Environment
  BY <1>3 DEF Environment, SUserCancel, SShutdown, RUserCancel, RShutdown,
     RUserAnswer, SCrash, Break
<1> QED BY <1>1, <1>2, <1>3 DEF Next, vars

(* The destination folder.                                                 *)
LEMMA DiskFrame ==
    ASSUME [Next]_vars, ~RReceive, ~RFinalize, ~RCleanup, ~RRollback
    PROVE  UNCHANGED diskVars
<1>1. CASE Monitor
  BY <1>1 DEF Monitor
<1>2. CASE SenderStep
  BY <1>2 DEF SenderStep, SPrepare, SConnect, STrust, SRequest, SDecision, SStream,
     SWrite, SResult, SSendCancel, SFinish
<1>3. CASE ReceiverStep
  BY <1>3 DEF ReceiverStep, RRequest, RTrust, RAsk, RDecide, RVerify, RCommit,
     RAcknowledge, RFinish, RReport
<1>4. CASE Environment
  BY <1>4 DEF Environment, SUserCancel, SShutdown, RUserCancel, RShutdown,
     RUserAnswer, SCrash, RCrash, Break
<1> QED BY <1>1, <1>2, <1>3, <1>4 DEF Next, vars

(* The pending request.                                                    *)
LEMMA AnswerFrame ==
    ASSUME [Next]_vars, ~RTrust, ~RAsk, ~RShutdown, ~RUserAnswer
    PROVE  UNCHANGED answer
<1>1. CASE Monitor
  BY <1>1 DEF Monitor, userVars
<1>2. CASE SenderStep
  BY <1>2 DEF SenderStep, SPrepare, SConnect, STrust, SRequest, SDecision, SStream,
     SWrite, SResult, SSendCancel, SFinish, userVars
<1>3. CASE ReceiverStep
  BY <1>3 DEF ReceiverStep, RRequest, RDecide, RReceive, RVerify, RFinalize, RCommit,
     RAcknowledge, RFinish, RCleanup, RRollback, RReport, userVars
<1>4. CASE Environment
  BY <1>4 DEF Environment, SUserCancel, SShutdown, RUserCancel, SCrash, RCrash, Break,
     userVars
<1> QED BY <1>1, <1>2, <1>3, <1>4 DEF Next, vars, userVars

(* The monitor and its signal.                                             *)
LEMMA MonitorFrame ==
    ASSUME [Next]_vars, ~SDecision, ~SFinish, ~Monitor
    PROVE  UNCHANGED mVars
<1>1. CASE SenderStep
  BY <1>1 DEF SenderStep, SPrepare, SConnect, STrust, SRequest, SStream,
     SWrite, SResult, SSendCancel
<1>2. CASE ReceiverStep
  BY <1>2 DEF ReceiverStep, RRequest, RTrust, RAsk, RDecide, RReceive, RVerify,
     RFinalize, RCommit, RAcknowledge, RFinish, RCleanup, RRollback, RReport
<1>3. CASE Environment
  BY <1>3 DEF Environment, SUserCancel, SShutdown, RUserCancel, RShutdown,
     RUserAnswer, SCrash, RCrash, Break
<1> QED BY <1>1, <1>2, <1>3 DEF Next, vars

(* What is in flight to the receiver ...                                   *)
LEMMA ToReceiverFrame ==
    ASSUME [Next]_vars, ~SRequest, ~SWrite, ~SSendCancel, ~RRequest, ~RAsk,
           ~RReceive, ~Break
    PROVE  UNCHANGED toR
<1>1. CASE Monitor
  BY <1>1 DEF Monitor
<1>2. CASE SenderStep
  BY <1>2 DEF SenderStep, SPrepare, SConnect, STrust, SDecision, SStream, SResult,
     SFinish, netVars
<1>3. CASE ReceiverStep
  BY <1>3 DEF ReceiverStep, RTrust, RDecide, RVerify, RFinalize, RCommit,
     RAcknowledge, RFinish, RCleanup, RRollback, RReport, netVars
<1>4. CASE Environment
  BY <1>4 DEF Environment, SUserCancel, SShutdown, RUserCancel, RShutdown,
     RUserAnswer, SCrash, RCrash, netVars
<1> QED BY <1>1, <1>2, <1>3, <1>4 DEF Next, vars, netVars

(* ... and to the sender.                                                  *)
LEMMA ToSenderFrame ==
    ASSUME [Next]_vars, ~SDecision, ~Monitor, ~RTrust, ~RDecide, ~RAcknowledge,
           ~RReport, ~Break
    PROVE  UNCHANGED toS
<1>1. CASE SenderStep
  BY <1>1 DEF SenderStep, SPrepare, SConnect, STrust, SRequest, SStream, SWrite,
     SResult, SSendCancel, SFinish, netVars
<1>2. CASE ReceiverStep
  BY <1>2 DEF ReceiverStep, RRequest, RAsk, RReceive, RVerify, RFinalize, RCommit,
     RFinish, RCleanup, RRollback, netVars
<1>3. CASE Environment
  BY <1>3 DEF Environment, SUserCancel, SShutdown, RUserCancel, RShutdown,
     RUserAnswer, SCrash, RCrash, netVars
<1> QED BY <1>1, <1>2, <1>3 DEF Next, vars, netVars

-----------------------------------------------------------------------------
(* Types, by owner of the variable.                                        *)
SenderTyped ==
    /\ sUp \in BOOLEAN
    /\ sPc \in {"prepare", "connect", "trust", "request", "decision", "stream",
                "write", "result", "cancel", "finish", "done"}
    /\ sPhase \in Phases /\ sErr \in Errors \cup {"None"}
    /\ sFile \in 1..(NFiles + 1) /\ sAt \in {"start", "body", "sent"}
    /\ sSent \in 0..(Chunks + 1) /\ sMsg \in ToReceiver

ReceiverTyped ==
    /\ rUp \in BOOLEAN
    /\ rPc \in {"idle", "request", "trust", "ask", "decide", "receive",
                "verify", "finalize", "commit", "acknowledge", "complete",
                "cleanup", "rollback", "report", "done"}
    /\ rPhase \in Phases \cup {"None"} /\ rErr \in Errors \cup {"None"}
    /\ rFile \in 1..(NFiles + 1) /\ rAt \in {"start", "body"}
    /\ rReply \in {"none", "accept", "declined", "expired", "cancelled"}
    /\ rFin \in 0..NFiles

DiskTyped ==
    /\ staged \subseteq Files /\ published \subseteq Files
    /\ got \in [Files -> 0..Chunks] /\ clean \in [Files -> BOOLEAN]

UsersTyped ==
    /\ answer \in {"none", "pending", "yes", "no", "cleared"}
    /\ sCancel \in BOOLEAN /\ sShut \in BOOLEAN
    /\ rCancel \in BOOLEAN /\ rShut \in BOOLEAN

MonitorTyped ==
    /\ monitor \in {"off", "reading", "exited"}
    /\ signal \in {"none", "cancelled", "success", "failure", "lost"}

NetTyped ==
    /\ conn \in {"none", "up", "down", "silent"}
    /\ toR \in Seq(ToReceiver) /\ toS \in Seq(ToSender)
    /\ Len(toR) <= Window

(* TypeOK, part by part.                                                   *)
LEMMA TypeParts ==
    TypeOK <=> SenderTyped /\ ReceiverTyped /\ DiskTyped
               /\ UsersTyped /\ MonitorTyped /\ NetTyped
BY DEF MonitorTyped, TypeOK, SenderTyped, ReceiverTyped, DiskTyped, UsersTyped, NetTyped

(* What the sender may write next, by its point in the file.               *)
LEMMA NextMessages ==
    ASSUME SenderTyped, sAt = "body" => sFile \in Files, sAt # "sent",
           NEW m \in NextMessage
    PROVE  /\ m \in ToReceiver
           /\ m.kind \in {"FileStart", "Data", "FileEnd", "Complete"}
           /\ m.kind = "Complete"  => sAt = "start" /\ sFile = NFiles + 1
           /\ m.kind = "FileStart" => sAt = "start" /\ sFile \in Files
           /\ m.kind = "Data"      => sAt = "body" /\ sSent <= Chunks
           /\ m.kind = "FileEnd"   => sAt = "body"
<1>1. CASE sAt = "start"
  <2>1. CASE sFile <= NFiles
    <3>1. m = FileMsg("FileStart", sFile) /\ sFile \in Files
      BY <1>1, <2>1, BatchAssumption DEF NextMessage, SenderTyped, Files
    <3> QED BY <1>1, <3>1, FramesAreTyped DEF FileMsg
  <2>2. CASE ~(sFile <= NFiles)
    <3>1. m = Plain("Complete") /\ sFile = NFiles + 1
      BY <1>1, <2>2, BatchAssumption DEF NextMessage, SenderTyped
    <3> QED BY <1>1, <3>1, FramesAreTyped DEF Plain
  <2> QED BY <2>1, <2>2
<1>2. CASE sAt = "body"
  <2>1. CASE m = FileMsg("FileEnd", sFile)
    BY <1>2, <2>1, FramesAreTyped DEF FileMsg
  <2>2. CASE sSent <= Chunks /\ m \in {DataMsg(TRUE), DataMsg(FALSE)}
    <3>1. PICK good \in BOOLEAN : m = DataMsg(good)
      BY <2>2
    <3>2. m.kind = "Data" /\ m \in ToReceiver
      BY <3>1, BatchAssumption DEF DataMsg, ToReceiver
    <3> QED BY <1>2, <2>2, <3>2
  <2> QED BY <1>2, <2>1, <2>2 DEF NextMessage
<1> QED BY <1>1, <1>2 DEF SenderTyped

(* What stops the stream is an error.                                      *)
LEMMA StopsAreErrors ==
    ASSUME MonitorTyped
    PROVE  StopStreaming \subseteq Errors
<1>1. EarlySignal \subseteq Errors
  BY DEF MonitorTyped, EarlySignal, Errors, CancelErrors
<1> QED BY <1>1, AnswersOfHelpers DEF StopStreaming

(* The transitions that the tasks ask for.                                 *)
LEMMA Transitions ==
    /\ Transition("Preparing", "Requesting") = "Requesting"
    /\ Transition("Requesting", "WaitingForAcceptance") = "WaitingForAcceptance"
    /\ Transition("WaitingForAcceptance", "Accepted") = "Accepted"
    /\ Transition("WaitingForAcceptance", "Rejected") = "Rejected"
    /\ Transition("WaitingForAcceptance", "Canceled") = "Canceled"
    /\ Transition("Accepted", "Transferring") = "Transferring"
    /\ Transition("Transferring", "Verifying") = "Verifying"
    /\ Transition("Verifying", "Completing") = "Completing"
    /\ Transition("Completing", "Completed") = "Completed"
BY DEF Transition, CanTransition, Terminal

(* An error is shown by every task that has not ended.                     *)
LEMMA ErrorsAreShown ==
    ASSUME NEW p, p \notin Terminal, NEW e
    PROVE  FinishError(p, e) = IF e \in CancelErrors THEN "Canceled" ELSE "Failed"
BY DEF FinishError, Transition, CanTransition

(* How the receiver ends before a batch exists.                            *)
LEMMA ReceiverEnding ==
    ASSUME NEW e, REnd(e), rPhase \notin Terminal
    PROVE  /\ rPc' = "done" /\ rErr' = e
           /\ rPhase' = IF rPhase = "None" \/ e = "None" THEN rPhase
                        ELSE IF e \in CancelErrors THEN "Canceled" ELSE "Failed"
BY DEF REnd, FinishError, Transition, CanTransition

(* The sender's variables keep their types: frames sent of a file stop at  *)
(* one past the announced number, files at one past the batch.             *)
LEMMA SenderKeepsTypes ==
    ASSUME SenderTyped, MonitorTyped, SenderStreams, [Next]_vars
    PROVE  SenderTyped'
<1> USE DEF SenderTyped
<1>a. CancelErrors \subseteq Errors /\ {"Canceled", "RemoteCanceled", "ShuttingDown", "Timeout",
      "Connection", "Invalid", "RemoteFailure", "Local"} \subseteq Errors
  BY DEF CancelErrors, Errors
<1>b. {"Requesting", "WaitingForAcceptance", "Accepted", "Transferring", "Verifying",
       "Completing", "Completed", "Canceled", "Rejected", "Failed"} \subseteq Phases
  BY DEF Phases
<1>1. CASE SPrepare
  BY <1>1, <1>a, <1>b, AnswersOfHelpers DEF SPrepare, SFail
<1>2. CASE SConnect
  BY <1>2, <1>a, AnswersOfHelpers DEF SConnect, SFail
<1>3. CASE STrust
  BY <1>3, <1>a, AnswersOfHelpers DEF STrust, SFail
<1>4. CASE SRequest
  BY <1>4, <1>a, <1>b, AnswersOfHelpers DEF SRequest, SFail
<1>5. CASE SDecision
  BY <1>5, <1>a, <1>b, AnswersOfHelpers DEF SDecision, SFail, SAbort
<1>6. CASE SStream
  <2>1. StopStreaming \subseteq Errors
    BY StopsAreErrors
  <2>2. sMsg' \in ToReceiver
    BY <1>6, NextMessages DEF SStream, SenderStreams
  <2> QED BY <1>6, <1>a, <2>1, <2>2 DEF SStream, SAbort
<1>7. CASE SWrite
  <2>1. /\ sMsg.kind = "FileEnd" => sFile \in 1..NFiles
        /\ sMsg.kind = "Data" => sSent \in 0..Chunks
    BY <1>7, NextMessages DEF SWrite, SenderStreams, Files
  <2> QED BY <1>7, <1>a, <1>b, <2>1, AnswersOfHelpers, BatchAssumption
          DEF SWrite, SAbort
<1>8. CASE SResult
  BY <1>8, <1>a, <1>b, AnswersOfHelpers DEF SResult, SAbort
<1>9. CASE SSendCancel
  BY <1>9 DEF SSendCancel
<1>10. CASE SFinish
  BY <1>10, <1>b, AnswersOfHelpers DEF SFinish
<1>11. CASE SCrash
  BY <1>11 DEF SCrash
<1>12. CASE ~SenderStep /\ ~SCrash
  BY <1>12, SenderFrame DEF sVars
<1> QED BY <1>1, <1>2, <1>3, <1>4, <1>5, <1>6, <1>7, <1>8, <1>9, <1>10, <1>11, <1>12
        DEF SenderStep

(* The receiver's variables keep their types.                              *)
LEMMA ReceiverKeepsTypes ==
    ASSUME ReceiverTyped, ReceiverShows, Disk, [Next]_vars
    PROVE  ReceiverTyped'
<1> USE DEF ReceiverTyped
<1>a. CancelErrors \subseteq Errors /\ {"Canceled", "RemoteCanceled", "ShuttingDown", "Timeout",
      "Connection", "Invalid", "RemoteFailure", "Local"} \subseteq Errors
  BY DEF CancelErrors, Errors
<1>b. {"Requesting", "WaitingForAcceptance", "Accepted", "Transferring", "Verifying",
       "Completing", "Completed", "Canceled", "Rejected", "Failed"} \subseteq Phases
  BY DEF Phases
<1>c. rPc \notin {"done"} => rPhase \notin Terminal
  BY DEF ReceiverShows, Terminal
<1>1. CASE SConnect
  BY <1>1 DEF SConnect
<1>2. CASE RRequest
  BY <1>2, <1>a, <1>b, <1>c, ReceiverEnding DEF RRequest
<1>3. CASE RTrust
  <2>1. CASE \E e \in Errors \cup {"None"} : REnd(e)
    BY <1>3, <2>1, <1>b, <1>c, ReceiverEnding DEF RTrust
  <2>2. CASE rPhase' = "WaitingForAcceptance" /\ rPc' = "ask" /\ UNCHANGED rErr
    BY <1>3, <2>2, <1>b DEF RTrust
  <2>3. CASE rPhase' = "Failed" /\ rPc' = "done" /\ rErr' = "Local"
    BY <1>3, <2>3, <1>a, <1>b DEF RTrust
  <2> QED BY <1>3, <2>1, <2>2, <2>3, <1>a, AnswersOfHelpers DEF RTrust
<1>4. CASE RAsk
  BY <1>4, <1>a, <1>b, <1>c, ReceiverEnding DEF RAsk, ReplyToAnswer
<1>5. CASE RDecide
  <2>1. CASE \E e \in Errors : REnd(e)
    BY <1>5, <2>1, <1>b, <1>c, ReceiverEnding DEF RDecide
  <2>2. CASE rPhase' = "Transferring" /\ rPc' = "receive" /\ UNCHANGED rErr
    BY <1>5, <2>2, <1>b DEF RDecide
  <2>3. CASE rPhase' = "Transferring" /\ RAbort("Local")
    BY <1>5, <2>3, <1>a, <1>b DEF RDecide, RAbort
  <2>4. CASE rPhase' = "Rejected" /\ rPc' = "done" /\ UNCHANGED rErr
    BY <1>5, <2>4, <1>b DEF RDecide
  <2> QED BY <1>5, <2>1, <2>2, <2>3, <2>4, <1>a, Transitions DEF RDecide, ReceiverShows
<1>6. CASE RReceive
  <2>1. CASE \E m : Expected(m) /\ (RStart(m) \/ RData(m) \/ RFileEnd(m) \/ RComplete(m))
    BY <1>6, <2>1, <1>a, BatchAssumption
    DEF RReceive, RAbort, RStart, RData, RFileEnd, RComplete, Expected, Disk, Files
  <2>2. CASE \E e \in Errors : RAbort(e) /\ UNCHANGED <<rFile, rAt>>
    BY <1>6, <2>2 DEF RReceive, RAbort
  <2> QED BY <1>6, <1>a, <2>1, <2>2, AnswersOfHelpers DEF RReceive
<1>7. CASE RVerify
  BY <1>7, <1>a, <1>b, AnswersOfHelpers DEF RVerify, RAbort
<1>8. CASE RFinalize
  BY <1>8, <1>a, <1>b, AnswersOfHelpers, BatchAssumption DEF RFinalize, RAbort
<1>9. CASE RCommit
  BY <1>9, <1>a, AnswersOfHelpers DEF RCommit, RAbort
<1>10. CASE RAcknowledge
  BY <1>10 DEF RAcknowledge
<1>11. CASE RFinish
  BY <1>11, <1>b, AnswersOfHelpers DEF RFinish
<1>12. CASE RCleanup
  BY <1>12 DEF RCleanup
<1>13. CASE RRollback
  BY <1>13 DEF RRollback
<1>14. CASE RReport
  BY <1>14, <1>b, <1>c, ReceiverEnding DEF RReport
<1>15. CASE RCrash
  BY <1>15 DEF RCrash
<1>16. CASE ~ReceiverStep /\ ~SConnect /\ ~RCrash
  BY <1>16, ReceiverFrame DEF rVars
<1> QED BY <1>1, <1>2, <1>3, <1>4, <1>5, <1>6, <1>7, <1>8, <1>9, <1>10, <1>11, <1>12,
           <1>13, <1>14, <1>15, <1>16 DEF ReceiverStep

(* What is on disk keeps its type: no file gets more frames than           *)
(* announced.                                                              *)
LEMMA DiskKeepsTypes ==
    ASSUME DiskTyped, ReceiverTyped, NetTyped, Disk, [Next]_vars
    PROVE  DiskTyped'
<1> USE DEF DiskTyped
<1>1. CASE RReceive
  <2>1. CASE toR # <<>> /\ Expected(Head(toR)) /\ rFile \in Files /\ RStart(Head(toR))
    BY <1>1, <2>1, BatchAssumption DEF RReceive, RStart
  <2>2. CASE toR # <<>> /\ Expected(Head(toR)) /\ rFile \in Files /\ RData(Head(toR))
    <3> DEFINE m == Head(toR)
    <3>0. m \in ToReceiver
      BY <2>2, TailIsPart DEF NetTyped
    <3>1. m.ok \in BOOLEAN
      BY <3>0 DEF ToReceiver
    <3>2. got[rFile] \in 0..Chunks /\ got[rFile] < Chunks
      BY <2>2 DEF RData, Expected
    <3>3. got' \in [Files -> 0..Chunks]
      BY <2>2, <3>2, BatchAssumption DEF RData
    <3>4. clean' \in [Files -> BOOLEAN]
      BY <2>2, <3>1 DEF RData
    <3> QED BY <1>1, <2>2, <3>3, <3>4 DEF RReceive, RData
  <2>3. CASE UNCHANGED <<staged, got, clean>>
    BY <1>1, <2>3 DEF RReceive
  <2>4. CASE toR # <<>> /\ Expected(Head(toR))
             /\ (RStart(Head(toR)) \/ RData(Head(toR)))
    <3>1. rFile \in Files
      BY <1>1, <2>4 DEF RReceive, Disk, Expected, RStart, RData, Files, ReceiverTyped
    <3> QED BY <2>1, <2>2, <2>4, <3>1
  <2> QED BY <1>1, <2>3, <2>4 DEF RReceive, RFileEnd, RComplete
<1>2. CASE RFinalize
  <2>1. rFin < NFiles => rFin + 1 \in Files
    BY BatchAssumption DEF ReceiverTyped, Files
  <2>2. UNCHANGED <<got, clean>>
    BY <1>2 DEF RFinalize
  <2>3. CASE staged' = staged \ {rFin + 1} /\ published' = published \cup {rFin + 1}
             /\ rFin < NFiles
    BY <2>1, <2>2, <2>3
  <2>4. CASE UNCHANGED staged /\ published' \subseteq published \cup Stubborn
    BY <2>2, <2>4, StubbornAssumption
  <2> QED BY <1>2, <2>3, <2>4 DEF RFinalize
<1>3. CASE RCleanup
  BY <1>3 DEF RCleanup, CleanupLeaves
<1>4. CASE RRollback
  BY <1>4 DEF RRollback
<1>5. CASE ~RReceive /\ ~RFinalize /\ ~RCleanup /\ ~RRollback
  BY <1>5, DiskFrame DEF diskVars
<1> QED BY <1>1, <1>2, <1>3, <1>4, <1>5

(* Tokens and the pending request keep their types.                        *)
LEMMA UsersKeepTypes ==
    ASSUME UsersTyped, SenderTyped, [Next]_vars
    PROVE  UsersTyped'
<1> USE DEF UsersTyped
<1>1. CASE Monitor
  BY <1>1 DEF Monitor, userVars
<1>2. CASE SenderStep
  BY <1>2 DEF SenderStep, SPrepare, SConnect, STrust, SRequest, SDecision, SStream,
     SWrite, SResult, SSendCancel, SFinish, userVars
<1>3. CASE RTrust \/ RAsk
  BY <1>3 DEF RTrust, RAsk
<1>4. CASE ReceiverStep /\ ~RTrust /\ ~RAsk
  BY <1>4 DEF ReceiverStep, RRequest, RDecide, RReceive, RVerify, RFinalize, RCommit,
     RAcknowledge, RFinish, RCleanup, RRollback, RReport, userVars
<1>5. CASE Environment
  BY <1>5 DEF Environment, SUserCancel, SShutdown, RUserCancel, RShutdown, RUserAnswer,
     SCrash, RCrash, Break, userVars
<1> QED BY <1>1, <1>2, <1>3, <1>4, <1>5 DEF Next, vars, userVars

(* The monitor and its signal keep their types.                            *)
LEMMA MonitorKeepsTypes ==
    ASSUME MonitorTyped, [Next]_vars
    PROVE  MonitorTyped'
<1> USE DEF MonitorTyped
<1>1. CASE Monitor
  BY <1>1 DEF Monitor, SignalOf, SignalOfEof
<1>2. CASE SDecision
  BY <1>2 DEF SDecision
<1>3. CASE SFinish
  BY <1>3 DEF SFinish
<1> QED BY <1>1, <1>2, <1>3, MonitorFrame DEF mVars

(* What a write does to a queue.                                           *)
LEMMA PutKeepsQueue ==
    ASSUME NEW S, NEW q \in Seq(S), NEW m \in S
    PROVE  /\ Put(q, m) \in Seq(S)
           /\ Len(Put(q, m)) = IF conn = "up" THEN Len(q) + 1 ELSE Len(q)
           /\ \A i \in 1..Len(Put(q, m)) :
                \/ i \in 1..Len(q) /\ Put(q, m)[i] = q[i]
                \/ conn = "up" /\ i = Len(q) + 1 /\ Put(q, m)[i] = m
BY AppendAddsLast DEF Put

(* The connection keeps its types and never buffers more than the window.  *)
LEMMA NetKeepsTypes ==
    ASSUME NetTyped, SenderTyped, ReceiverTyped, [Next]_vars
    PROVE  NetTyped'
<1> USE DEF NetTyped
<1>1. conn' \in {"none", "up", "down", "silent"}
  <2>1. CASE Monitor
    BY <2>1 DEF Monitor
  <2>2. CASE SConnect \/ Break
    BY <2>2 DEF SConnect, Break
  <2>3. CASE SenderStep /\ ~SConnect
    BY <2>3 DEF SenderStep, SPrepare, STrust, SRequest, SDecision, SStream,
       SWrite, SResult, SSendCancel, SFinish, netVars
  <2>4. CASE ReceiverStep
    BY <2>4 DEF ReceiverStep, RRequest, RTrust, RAsk, RDecide, RReceive, RVerify,
       RFinalize, RCommit, RAcknowledge, RFinish, RCleanup, RRollback, RReport, netVars
  <2>5. CASE Environment /\ ~Break
    BY <2>5 DEF Environment, SUserCancel, SShutdown, RUserCancel, RShutdown, RUserAnswer,
       SCrash, RCrash, netVars
  <2> QED BY <2>1, <2>2, <2>3, <2>4, <2>5 DEF Next, vars, netVars
<1>2. toR' \in Seq(ToReceiver) /\ Len(toR') <= Window
  <2>1. ASSUME NEW m \in ToReceiver, RoomToR, toR' = Put(toR, m)
        PROVE  toR' \in Seq(ToReceiver) /\ Len(toR') <= Window
    <3>1. /\ Put(toR, m) \in Seq(ToReceiver) /\ Len(toR) \in Nat
          /\ Len(Put(toR, m)) = IF conn = "up" THEN Len(toR) + 1 ELSE Len(toR)
      BY PutKeepsQueue
    <3> QED BY <2>1, <3>1, WindowAssumption DEF RoomToR
  <2>2. ASSUME toR # <<>>, toR' = Tail(toR)
        PROVE  toR' \in Seq(ToReceiver) /\ Len(toR') <= Window
    BY <2>2, TailIsPart, WindowAssumption
  <2>3. CASE SRequest
    BY <2>1, <2>3, FramesAreTyped DEF SRequest
  <2>4. CASE SWrite
    BY <2>1, <2>4 DEF SWrite, SenderTyped
  <2>5. CASE SSendCancel
    BY <2>1, <2>5, FramesAreTyped DEF SSendCancel
  <2>6. CASE RRequest
    BY <2>2, <2>6 DEF RRequest
  <2>7. CASE RAsk
    BY <2>2, <2>7 DEF RAsk
  <2>8. CASE RReceive
    BY <2>2, <2>8 DEF RReceive
  <2>9. CASE Break
    BY <2>9, PrefixIsPart, WindowAssumption DEF Break
  <2> QED BY <2>3, <2>4, <2>5, <2>6, <2>7, <2>8, <2>9, ToReceiverFrame
<1>3. toS' \in Seq(ToSender)
  <2>1. ASSUME NEW m \in ToSender, toS' = Put(toS, m)
        PROVE  toS' \in Seq(ToSender)
    BY <2>1, PutKeepsQueue
  <2>2. ASSUME toS # <<>>, toS' = Tail(toS)
        PROVE  toS' \in Seq(ToSender)
    BY <2>2, TailIsPart
  <2>3. CASE SDecision
    BY <2>2, <2>3 DEF SDecision
  <2>4. CASE Monitor
    BY <2>2, <2>4 DEF Monitor
  <2>5. CASE RTrust
    <3>1. Decision(FALSE, "busy") \in ToSender /\ Notice("ProtocolError") \in ToSender
      BY FramesAreTyped DEF Reasons
    <3> QED BY <2>1, <2>5, <3>1 DEF RTrust, MaySend
  <2>6. CASE RDecide
    <3>1. \A w \in {"none", "declined", "expired", "cancelled"} :
             Decision(TRUE, w) \in ToSender /\ Decision(FALSE, w) \in ToSender
      BY FramesAreTyped DEF Reasons
    <3> QED BY <2>1, <2>6, <3>1 DEF RDecide, MaySend, ReceiverTyped
  <2>7. CASE RAcknowledge
    BY <2>1, <2>7, FramesAreTyped DEF RAcknowledge, MaySend
  <2>8. CASE RReport
    <3>1. Notice("Cancel") \in ToSender /\ Result(FALSE) \in ToSender
      BY FramesAreTyped
    <3>2. PICK c \in {<<>>, <<Notice("Cancel")>>}, r \in {<<>>, <<Result(FALSE)>>} :
             toS' = toS \o c \o r
      BY <2>8 DEF RReport
    <3>3. /\ <<>> \in Seq(ToSender)
          /\ \A m \in ToSender : <<m>> \in Seq(ToSender)
      OBVIOUS
    <3>4. c \in Seq(ToSender) /\ r \in Seq(ToSender)
      BY <3>1, <3>2, <3>3
    <3> QED BY <3>2, <3>4
  <2>9. CASE Break
    BY <2>9, PrefixIsPart DEF Break
  <2> QED BY <2>3, <2>4, <2>5, <2>6, <2>7, <2>8, <2>9, ToSenderFrame
<1> QED BY <1>1, <1>2, <1>3

-----------------------------------------------------------------------------
(* Each part of the invariant is kept by every step.                       *)

(* The phase the sender shows follows its control point: no step asks for  *)
(* a transition the table drops.                                           *)
LEMMA SenderShowsStep ==
    ASSUME SenderTyped, MonitorTyped, SenderShows, SenderStreams, [Next]_vars
    PROVE  SenderShows'
<1> USE DEF SenderShows
<1>a. "None" \notin CancelErrors \cup Errors
  BY DEF CancelErrors, Errors
<1>1. CASE SPrepare
  BY <1>1, <1>a, AnswersOfHelpers, Transitions DEF SPrepare, SFail, Terminal
<1>2. CASE SConnect
  BY <1>2, <1>a, AnswersOfHelpers DEF SConnect, SFail, Terminal
<1>3. CASE STrust
  BY <1>3, <1>a, AnswersOfHelpers DEF STrust, SFail, Terminal
<1>4. CASE SRequest
  BY <1>4, <1>a, AnswersOfHelpers, Transitions DEF SRequest, SFail, Terminal
<1>5. CASE SDecision
  BY <1>5, <1>a, AnswersOfHelpers, Transitions, BatchAssumption
  DEF SDecision, SFail, SAbort, Terminal, SenderStreams
<1>6. CASE SStream
  <2>1. "None" \notin StopStreaming
    BY <1>a, StopsAreErrors
  <2>2. sPhase \notin Terminal
    BY <1>6 DEF SStream, Terminal
  <2> QED BY <1>6, <2>1, <2>2 DEF SStream, SAbort
<1>7. CASE SWrite
  <2>1. /\ sMsg.kind = "FileEnd" => sFile \in 1..NFiles
        /\ sMsg.kind = "Complete" => sFile = NFiles + 1
        /\ sMsg.kind # "Complete" => sFile \in 1..NFiles
    BY <1>7, NextMessages DEF SWrite, SenderStreams, Files
  <2>2. CASE sMsg.kind = "Complete" /\ UNCHANGED sErr
    BY <1>7, <2>1, <2>2, Transitions, BatchAssumption DEF SWrite, SAbort
  <2>3. CASE sMsg.kind # "Complete" /\ UNCHANGED sErr
    BY <1>7, <2>1, <2>3, Transitions, BatchAssumption DEF SWrite, SAbort
  <2>4. CASE \E e \in {"Connection", "Timeout"} : SAbort(e) /\ UNCHANGED sPhase
    BY <1>7, <2>4 DEF SWrite, SAbort, Terminal
  <2> QED BY <1>7, <2>2, <2>3, <2>4 DEF SWrite
<1>8. CASE SResult
  <2>1. sPhase = "Completing" /\ sPhase \notin Terminal
    BY <1>8 DEF SResult, Terminal
  <2>2. CASE sPhase' = "Completed" /\ sPc' = "finish" /\ UNCHANGED sErr
    BY <1>8, <2>2 DEF SResult
  <2>3. CASE \E e : e # "None" /\ SAbort(e) /\ UNCHANGED sPhase
    BY <2>1, <2>3 DEF SAbort
  <2>4. \A e \in SInterrupts : e # "None"
    BY <1>a, AnswersOfHelpers
  <2> QED BY <1>8, <2>1, <2>2, <2>3, <2>4, Transitions DEF SResult
<1>9. CASE SSendCancel
  BY <1>9 DEF SSendCancel
<1>10. CASE SFinish
  <2>1. CASE sErr = "None"
    BY <1>10, <1>a, <2>1 DEF SFinish, Shows
  <2>2. CASE sErr # "None"
    BY <1>10, <1>a, <2>2, ErrorsAreShown DEF SFinish, Shows
  <2> QED BY <2>1, <2>2
<1>11. CASE SCrash
  BY <1>11 DEF SCrash
<1>12. CASE ~SenderStep /\ ~SCrash
  BY <1>12, SenderFrame DEF sVars
<1> QED BY <1>1, <1>2, <1>3, <1>4, <1>5, <1>6, <1>7, <1>8, <1>9, <1>10, <1>11, <1>12
        DEF SenderStep

(* A frame is written at the point of the stream it was made for.          *)
LEMMA SenderStreamsStep ==
    ASSUME SenderTyped, MonitorTyped, SenderShows, SenderStreams, [Next]_vars
    PROVE  SenderStreams'
<1> USE DEF SenderStreams
<1>1. CASE SPrepare
  BY <1>1 DEF SPrepare, SFail
<1>2. CASE SConnect
  BY <1>2 DEF SConnect, SFail
<1>3. CASE STrust
  BY <1>3 DEF STrust, SFail
<1>4. CASE SRequest
  BY <1>4 DEF SRequest, SFail
<1>5. CASE SDecision
  BY <1>5 DEF SDecision, SFail, SAbort
<1>6. CASE SStream
  <2>1. CASE sPc' = "write" /\ sMsg' \in NextMessage
    <3>1. UNCHANGED <<sAt, sFile, sSent>>
      BY <1>6 DEF SStream
    <3>2. UNCHANGED NextMessage
      BY <3>1 DEF NextMessage
    <3> QED BY <1>6, <2>1, <3>1, <3>2 DEF SStream
  <2>2. CASE \E e : SAbort(e)
    BY <1>6, <2>2 DEF SStream, SAbort
  <2> QED BY <1>6, <2>1, <2>2 DEF SStream
<1>7. CASE SWrite
  <2>1. /\ sMsg.kind \in {"FileStart", "Data", "FileEnd", "Complete"}
        /\ sMsg.kind \in {"FileStart", "Data"} => sFile \in Files
    BY <1>7, NextMessages DEF SWrite
  <2>2. CASE UNCHANGED sErr /\ sMsg.kind = "Complete"
    BY <1>7, <2>1, <2>2 DEF SWrite, SAbort
  <2>3. CASE UNCHANGED sErr /\ sMsg.kind # "Complete"
    BY <1>7, <2>1, <2>3 DEF SWrite, SAbort
  <2>4. CASE \E e : SAbort(e) /\ UNCHANGED <<sAt, sFile>>
    BY <1>7, <2>4 DEF SWrite, SAbort
  <2> QED BY <1>7, <2>2, <2>3, <2>4 DEF SWrite
<1>8. CASE SResult
  BY <1>8 DEF SResult, SAbort
<1>9. CASE SSendCancel
  BY <1>9 DEF SSendCancel
<1>10. CASE SFinish
  BY <1>10 DEF SFinish
<1>11. CASE SCrash
  <2>1. UNCHANGED NextMessage
    BY <1>11 DEF SCrash, NextMessage
  <2> QED BY <1>11, <2>1 DEF SCrash
<1>12. CASE ~SenderStep /\ ~SCrash
  <2>1. UNCHANGED sVars
    BY <1>12, SenderFrame
  <2>2. UNCHANGED NextMessage
    BY <2>1 DEF sVars, NextMessage
  <2> QED BY <2>1, <2>2 DEF sVars
<1> QED BY <1>1, <1>2, <1>3, <1>4, <1>5, <1>6, <1>7, <1>8, <1>9, <1>10, <1>11, <1>12
        DEF SenderStep

(* The phase the receiver shows follows its control point.                 *)
LEMMA ReceiverShowsStep ==
    ASSUME ReceiverTyped, ReceiverShows, [Next]_vars
    PROVE  ReceiverShows'
<1> USE DEF ReceiverShows
<1>a. "None" \notin CancelErrors /\ "None" \notin Terminal
  BY DEF CancelErrors, Terminal
<1>b. /\ \A e \in {"Canceled", "ShuttingDown", "RemoteCanceled"} : e \in CancelErrors
      /\ \A e \in {"Timeout", "Connection", "Local"} : e \notin CancelErrors
  BY DEF CancelErrors
<1>c. rPc # "done" => rPhase \notin Terminal
  BY DEF Terminal, ReceiverTyped
<1>d. ASSUME NEW e, REnd(e), rPc # "done", rPhase = "None" \/ e # "None"
      PROVE  ReceiverShows'
  <2>1. CASE rPhase = "None"
    BY <1>c, <1>d, <2>1, ReceiverEnding
  <2>2. CASE rPhase # "None"
    BY <1>a, <1>c, <1>d, <2>2, ReceiverEnding DEF Shows
  <2> QED BY <2>1, <2>2
<1>e. ASSUME NEW e, RAbort(e), e # "None", UNCHANGED rPhase,
             rPc \in {"receive", "verify", "finalize", "commit"}
      PROVE  ReceiverShows'
  BY <1>a, <1>e DEF RAbort, Terminal
<1>f. \A e \in RInterrupts \cup RChecked : e # "None"
  BY <1>a, AnswersOfHelpers
<1>1. CASE SConnect
  BY <1>1 DEF SConnect
<1>2. CASE RRequest
  BY <1>2, <1>d DEF RRequest
<1>3. CASE RTrust
  <2>1. CASE rPhase' = "WaitingForAcceptance" /\ rPc' = "ask" /\ UNCHANGED rErr
    BY <1>3, <2>1 DEF RTrust
  <2>2. CASE rPhase' = "Failed" /\ rPc' = "done" /\ rErr' = "Local"
    BY <1>3, <1>b, <2>2 DEF Shows
  <2> QED BY <1>3, <1>d, <2>1, <2>2 DEF RTrust
<1>4. CASE RAsk
  BY <1>4, <1>d DEF RAsk
<1>5. CASE RDecide
  <2>1. CASE rPhase' = "Transferring" /\ rPc' = "receive" /\ UNCHANGED rErr
    BY <1>5, <2>1 DEF RDecide
  <2>2. CASE rPhase' = "Transferring" /\ RAbort("Local")
    BY <1>5, <2>2 DEF RAbort, Terminal
  <2>3. CASE rPhase' = "Rejected" /\ rPc' = "done" /\ UNCHANGED rErr
    BY <1>5, <1>a, <2>3 DEF RDecide, Shows
  <2> QED BY <1>5, <1>d, <2>1, <2>2, <2>3, Transitions DEF RDecide
<1>6. CASE RReceive
  <2>1. CASE UNCHANGED <<rPc, rErr>>
    BY <1>6, <2>1 DEF RReceive
  <2>2. CASE rPc' = "verify" /\ UNCHANGED rErr
    BY <1>6, <2>2 DEF RReceive
  <2>3. CASE \E e : e # "None" /\ RAbort(e)
    BY <1>6, <1>e, <2>3 DEF RReceive
  <2> QED BY <1>6, <1>f, <2>1, <2>2, <2>3
          DEF RReceive, RStart, RData, RFileEnd, RComplete
<1>7. CASE RVerify
  BY <1>7, <1>e, <1>f, Transitions DEF RVerify
<1>8. CASE RFinalize
  BY <1>8, <1>e, <1>f, Transitions DEF RFinalize
<1>9. CASE RCommit
  BY <1>9, <1>e, <1>f DEF RCommit
<1>10. CASE RAcknowledge
  BY <1>10 DEF RAcknowledge
<1>11. CASE RFinish
  BY <1>11, <1>a, Transitions DEF RFinish, Shows
<1>12. CASE RCleanup
  BY <1>12 DEF RCleanup
<1>13. CASE RRollback
  BY <1>13 DEF RRollback
<1>14. CASE RReport
  BY <1>14, <1>d DEF RReport
<1>15. CASE RCrash
  BY <1>15 DEF RCrash
<1>16. CASE ~ReceiverStep /\ ~SConnect /\ ~RCrash
  BY <1>16, ReceiverFrame DEF rVars
<1> QED BY <1>1, <1>2, <1>3, <1>4, <1>5, <1>6, <1>7, <1>8, <1>9, <1>10, <1>11, <1>12,
           <1>13, <1>14, <1>15, <1>16 DEF ReceiverStep

(* Only the user's yes leads past the decision.                            *)
LEMMA ConsentStep ==
    ASSUME UsersTyped, ReceiverTyped, ReceiverShows, Consent, Disk, [Next]_vars
    PROVE  Consent'
<1> USE DEF Consent
<1>a. ASSUME UNCHANGED <<rPc, rReply, answer, staged, published>>
      PROVE  Consent'
  BY <1>a DEF DiskNeedsConsent
<1>b. ASSUME UNCHANGED answer, answer = "yes", rPc' \notin {"idle", "request", "trust"}
      PROVE  Consent'
  BY <1>b DEF Deciding, DiskNeedsConsent
<1>c. rPc \notin Deciding => UNCHANGED answer /\ (answer = "yes" \/ rPc = "done")
  <2>1. rPc \notin Deciding => answer # "pending"
    BY DEF Deciding
  <2> QED BY <2>1, AnswerFrame DEF Deciding, RTrust, RAsk, RShutdown, RUserAnswer
<1>1. CASE SConnect
  BY <1>1 DEF SConnect, userVars, diskVars, DiskNeedsConsent, Deciding
<1>2. CASE RRequest
  BY <1>2 DEF RRequest, REnd, userVars, diskVars, DiskNeedsConsent, Deciding
<1>3. CASE RTrust
  <2>1. staged = {} /\ published = {} /\ answer = "none"
    BY <1>3 DEF RTrust, Disk, Deciding
  <2>2. UNCHANGED <<staged, published>>
    BY <1>3 DEF RTrust, diskVars
  <2>3. CASE rPc' = "ask" /\ answer' = "pending"
    BY <2>1, <2>2, <2>3 DEF DiskNeedsConsent, Deciding
  <2>4. CASE rPc' = "done" /\ UNCHANGED answer
    BY <2>1, <2>2, <2>4 DEF DiskNeedsConsent, Deciding
  <2> QED BY <1>3, <2>3, <2>4 DEF RTrust, REnd
<1>4. CASE RAsk
  <2>1. staged = {} /\ published = {} /\ UNCHANGED <<staged, published>>
    BY <1>4 DEF RAsk, Disk, Deciding, diskVars
  <2>2. answer' # "pending" /\ (answer = "yes" => answer' = "yes")
    BY <1>4 DEF RAsk
  <2>3. CASE rPc' = "done"
    BY <2>1, <2>2, <2>3 DEF DiskNeedsConsent, Deciding
  <2>4. CASE rPc' = "decide" /\ (rReply' = "accept" => answer = "yes")
    BY <2>1, <2>2, <2>4 DEF DiskNeedsConsent, Deciding
  <2> QED BY <1>4, <2>3, <2>4 DEF RAsk, REnd, ReplyToAnswer
<1>5. CASE RDecide
  <2>1. staged = {} /\ published = {} /\ UNCHANGED <<staged, published, answer>>
    BY <1>5 DEF RDecide, Disk, Deciding, diskVars, userVars
  <2>2. CASE rPc' = "done"
    BY <1>5, <2>1, <2>2 DEF RDecide, DiskNeedsConsent, Deciding
  <2>3. CASE answer = "yes"
    <3>1. rPc' \notin {"idle", "request", "trust"}
      BY <1>5 DEF RDecide, REnd, RAbort
    <3> QED BY <1>b, <2>1, <2>3, <3>1
  <2> QED BY <1>5, <2>2, <2>3 DEF RDecide, REnd
<1>6. CASE ReceiverStep /\ rPc \notin Deciding
  <2>1. CASE answer = "yes"
    <3>1. rPc' \notin {"idle", "request", "trust"}
      BY <1>6 DEF ReceiverStep, RRequest, RTrust, RAsk, RDecide, RReceive, RStart, RData,
         RFileEnd, RComplete, RVerify, RFinalize, RCommit, RAcknowledge, RFinish,
         RCleanup, RRollback, RReport, REnd, RAbort, Deciding
    <3> QED BY <1>b, <1>c, <1>6, <2>1, <3>1
  <2>2. CASE rPc = "done"
    BY <1>6, <2>2 DEF ReceiverStep, RRequest, RTrust, RAsk, RDecide, RReceive,
       RVerify, RFinalize, RCommit, RAcknowledge, RFinish, RCleanup, RRollback, RReport
  <2> QED BY <1>c, <1>6, <2>1, <2>2
<1>7. CASE RCrash
  BY <1>7, <1>a DEF RCrash, diskVars, userVars
<1>8. CASE RShutdown \/ RUserAnswer
  <2>1. UNCHANGED <<rPc, rReply, staged, published>>
    BY <1>8 DEF RShutdown, RUserAnswer, rVars, diskVars
  <2>2. CASE answer = "pending"
    BY <1>8, <2>1, <2>2 DEF RShutdown, RUserAnswer, DiskNeedsConsent, Deciding
  <2>3. CASE answer # "pending"
    BY <1>8, <1>a, <2>1, <2>3 DEF RShutdown, RUserAnswer
  <2> QED BY <2>2, <2>3
<1>9. CASE ~ReceiverStep /\ ~SConnect /\ ~RCrash /\ ~RShutdown /\ ~RUserAnswer
  <2>1. UNCHANGED <<rVars, diskVars, answer>>
    BY <1>9, ReceiverFrame, DiskFrame, AnswerFrame DEF ReceiverStep
  <2> QED BY <1>a, <2>1 DEF rVars, diskVars
<1> QED BY <1>1, <1>2, <1>3, <1>4, <1>5, <1>6, <1>7, <1>8, <1>9
        DEF ReceiverStep, Deciding, RReceive, RVerify, RFinalize, RCommit,
            RAcknowledge, RFinish, RCleanup, RRollback, RReport

(* A sender that has sent the whole batch has.                             *)
LEMMA SentIsFinal ==
    ASSUME SenderStreams, sAt = "sent", [Next]_vars
    PROVE  sAt' = "sent"
<1>1. CASE SenderStep
  BY <1>1 DEF SenderStep, SPrepare, SConnect, STrust, SRequest, SDecision, SStream,
     SWrite, SResult, SSendCancel, SFinish, SenderStreams
<1>2. CASE SCrash
  BY <1>2 DEF SCrash
<1> QED BY <1>1, <1>2, SenderFrame DEF sVars

(* The destination folder follows the receiver's control point.            *)
LEMMA DiskStep ==
    ASSUME TypeOK, SenderStreams, ReceiverShows, Disk, ToReceiverIsTrue, [Next]_vars
    PROVE  Disk'
<1> USE DEF Disk, EndedBatchIsAllOrNothing, PublishedOnlyAsVerifiedBatch
<1>t. SenderTyped /\ ReceiverTyped /\ DiskTyped /\ NetTyped
  BY TypeParts
<1>s. sAt = "sent" => sAt' = "sent"
  BY SentIsFinal
<1>a. ASSUME UNCHANGED <<rPc, rPhase, rFile, rAt, rFin, diskVars>>
      PROVE  Disk'
  BY <1>a, <1>s DEF diskVars, Finalized, Verified, Deciding, Keeping, Files
(* From a control point with nothing on disk.                              *)
<1>b. ASSUME rPc \in Deciding, UNCHANGED <<rFile, rAt, rFin, diskVars>>,
             rPc' \in Deciding \cup {"receive", "cleanup", "done"},
             rPc' = "done" => rPhase' # "Completed"
      PROVE  Disk'
  <2>1. /\ staged' = {} /\ published' = {} /\ rFile' = 1 /\ rAt' = "start" /\ rFin' = 0
    BY <1>b DEF diskVars
  <2>2. 1..(rFile' - 1) = {}
    BY <2>1
  <2>3. CASE rPc' \in Deciding
    BY <2>1, <2>3 DEF Deciding, Keeping
  <2>4. CASE rPc' = "receive"
    BY <2>1, <2>2, <2>4 DEF Deciding, Keeping
  <2>5. CASE rPc' \in {"cleanup", "done"}
    BY <1>b, <2>1, <2>5 DEF Deciding, Keeping
  <2> QED BY <1>b, <2>3, <2>4, <2>5
(* Giving up a batch.                                                      *)
<1>c. ASSUME rPc \in {"receive", "verify", "finalize", "commit"}, 
             UNCHANGED <<got, clean, staged, rFin>>, rPc' = "cleanup",
             published' \subseteq published \cup Stubborn,
             published # {} \/ published' # {} => sAt = "sent" /\ \A f \in Files : Verified(f)
      PROVE  Disk'
  BY <1>c, <1>s, <1>t DEF Finalized, Verified, Deciding, Keeping, Files, DiskTyped
<1>1. CASE SConnect
  BY <1>1, <1>a, <1>b DEF SConnect, Deciding, ReceiverShows
<1>2. CASE RRequest
  <2>1. rPc' = "done" => rPhase' # "Completed"
    BY <1>2, ReceiverEnding DEF RRequest, ReceiverShows, Terminal
  <2> QED BY <1>2, <1>b, <2>1 DEF RRequest, REnd, Deciding
<1>3. CASE RTrust
  <2>1. rPc' = "done" => rPhase' # "Completed"
    BY <1>3, ReceiverEnding DEF RTrust, ReceiverShows, Terminal
  <2> QED BY <1>3, <1>b, <2>1 DEF RTrust, REnd, Deciding
<1>4. CASE RAsk
  <2>1. rPc' = "done" => rPhase' # "Completed"
    BY <1>4, ReceiverEnding DEF RAsk, ReceiverShows, Terminal
  <2> QED BY <1>4, <1>b, <2>1 DEF RAsk, REnd, Deciding
<1>5. CASE RDecide
  <2>1. rPc' = "done" => rPhase' # "Completed"
    BY <1>5, ReceiverEnding, Transitions DEF RDecide, RAbort, ReceiverShows, Terminal
  <2> QED BY <1>5, <1>b, <2>1 DEF RDecide, REnd, RAbort, Deciding
<1>6. CASE RReceive
  <2> DEFINE m == Head(toR)
  <2>1. CASE Expected(m) /\ RStart(m) /\ toR # <<>>
    <3>1. rFile \in Files /\ rAt = "start"
      BY <1>6, <1>t, <2>1 DEF Expected, RStart, ReceiverTyped, Files
    <3>2. /\ staged' = 1..rFile /\ rAt' = "body" /\ UNCHANGED <<rFile, rPc, published, rFin>>
          /\ rPc = "receive"
      BY <1>6, <1>t, <2>1, <3>1 DEF RReceive, RStart, Files
    <3>3. \A f \in 1..(rFile - 1) : Verified(f)'
      BY <1>6, <1>t, <2>1, <3>1 DEF RReceive, RStart, Verified, DiskTyped, Files
    <3> QED BY <3>1, <3>2, <3>3 DEF Deciding, Keeping
  <2>2. CASE Expected(m) /\ RData(m) /\ toR # <<>>
    <3>1. rAt = "body" /\ rFile \in Files
      BY <1>6, <2>2 DEF RReceive, Expected, RData
    <3>2. /\ UNCHANGED <<staged, rAt, rFile, rPc, published, rFin>> /\ rPc = "receive"
      BY <1>6, <2>2 DEF RReceive, RData
    <3>3. \A f \in 1..(rFile - 1) : Verified(f)'
      BY <1>6, <1>t, <2>2, <3>1 DEF RReceive, RData, Verified, DiskTyped, Files
    <3> QED BY <3>1, <3>2, <3>3 DEF Deciding, Keeping
  <2>3. CASE Expected(m) /\ RFileEnd(m) /\ clean[rFile] /\ toR # <<>>
    <3>1. rAt = "body" /\ rFile \in Files /\ Verified(rFile)
      BY <1>6, <2>3 DEF RReceive, Expected, RFileEnd, Verified
    <3>2. /\ UNCHANGED <<staged, rPc, published, rFin, got, clean>> /\ rPc = "receive"
          /\ rAt' = "start" /\ rFile' = rFile + 1
      BY <1>6, <2>3 DEF RReceive, RFileEnd, DigestMatches
    <3>3. \A f \in 1..rFile : Verified(f)'
      BY <3>1, <3>2 DEF Verified, Files
    <3> QED BY <3>1, <3>2, <3>3, BatchAssumption DEF Deciding, Keeping, Files
  <2>4. CASE Expected(m) /\ RComplete(m) /\ toR # <<>>
    <3>1. rAt = "start" /\ rFile = NFiles + 1
      BY <1>6, <1>t, <2>4, BatchAssumption DEF Expected, RComplete, ReceiverTyped
    <3>2. sAt = "sent"
      BY <2>4, <1>t, TailIsPart DEF RComplete, ToReceiverIsTrue, NetTyped
    <3>3. /\ UNCHANGED <<staged, published, rFin, got, clean>> /\ rPc = "receive"
          /\ rPc' = "verify"
      BY <1>6, <2>4 DEF RReceive, RComplete
    <3>4. staged = Files /\ \A f \in Files : Verified(f)
      BY <3>1, <3>3, BatchAssumption DEF Files
    <3> QED BY <1>s, <3>2, <3>3, <3>4 DEF Deciding, Keeping, Verified, Files
  <2>5. CASE (\E e : RAbort(e)) /\ UNCHANGED <<staged, got, clean>>
    BY <1>6, <1>c, <2>5 DEF RReceive, RAbort
  <2> QED BY <1>6, <2>1, <2>2, <2>3, <2>4, <2>5 DEF RReceive, RFileEnd, DigestMatches
<1>7. CASE RVerify
  <2>1. CASE rPc' = "finalize"
    BY <1>7, <1>s, <2>1 DEF RVerify, Verified, Deciding, Keeping, diskVars, Files
  <2>2. CASE \E e : RAbort(e)
    BY <1>7, <1>c, <2>2 DEF RVerify, RAbort, diskVars
  <2> QED BY <1>7, <2>1, <2>2 DEF RVerify
<1>8. CASE RFinalize
  <2>1. /\ sAt = "sent" /\ \A f \in Files : Verified(f)
        /\ published = 1..rFin /\ staged = Files \ published /\ rPc = "finalize"
    BY <1>8 DEF RFinalize, Keeping
  <2>2. UNCHANGED <<got, clean>>
    BY <1>8 DEF RFinalize
  <2>3. CASE /\ rFin < NFiles /\ staged' = staged \ {rFin + 1}
             /\ published' = published \cup {rFin + 1}
             /\ rFin' = rFin + 1 /\ rPc' = rPc
    <3>1. published' = 1..rFin' /\ staged' = Files \ published'
      BY <1>t, <2>1, <2>3 DEF ReceiverTyped
    <3> QED BY <1>s, <2>1, <2>2, <2>3, <3>1 DEF Verified, Deciding, Keeping, Files
  <2>4. CASE rPc' = "commit" /\ rFin = NFiles /\ UNCHANGED <<rFin, staged, published>>
    BY <1>s, <2>1, <2>2, <2>4 DEF Verified, Deciding, Keeping, Files
  <2>5. CASE (\E e : RAbort(e)) /\ UNCHANGED <<staged, rFin>>
             /\ published' \subseteq published \cup Stubborn
    BY <1>c, <2>1, <2>2, <2>5 DEF RAbort
  <2> QED BY <1>8, <2>3, <2>4, <2>5 DEF RFinalize
<1>9. CASE RCommit
  <2>1. CASE rPc' = "acknowledge"
    BY <1>9, <1>s, <2>1 DEF RCommit, Verified, Deciding, Keeping, diskVars, Files
  <2>2. CASE \E e : RAbort(e)
    BY <1>9, <1>c, <2>2 DEF RCommit, RAbort, diskVars, Keeping
  <2> QED BY <1>9, <2>1, <2>2 DEF RCommit
<1>10. CASE RAcknowledge
  BY <1>10, <1>s DEF RAcknowledge, Verified, Deciding, Keeping, diskVars, Files
<1>11. CASE RFinish
  BY <1>11, <1>s, <1>t, Transitions, BatchAssumption
  DEF RFinish, Verified, Deciding, Keeping, diskVars, Files, ReceiverShows
<1>12. CASE RCleanup
  <2>1. /\ rPc = "cleanup" /\ rPc' = "rollback" /\ staged' \subseteq Stubborn
        /\ UNCHANGED <<published, rFin, got, clean>>
    BY <1>12 DEF RCleanup, CleanupLeaves
  <2> QED BY <1>s, <2>1 DEF Verified, Deciding, Keeping, Finalized, Files
<1>13. CASE RRollback
  <2>1. /\ rPc = "rollback" /\ rPc' = "report" /\ published' \subseteq published
        /\ UNCHANGED <<staged, rFin, got, clean>>
    BY <1>13 DEF RRollback
  <2>2. published' \subseteq Stubborn
    BY <1>13 DEF RRollback
  <2> QED BY <1>s, <2>1, <2>2 DEF Verified, Deciding, Keeping, Files
<1>14. CASE RReport
  <2>1. rPhase' # "Completed"
    BY <1>14, <1>t, ReceiverEnding DEF RReport, ReceiverShows, Terminal, ReceiverTyped
  <2> QED BY <1>14, <1>s, <2>1 DEF RReport, REnd, Verified, Deciding, Keeping, diskVars, Files
<1>15. CASE RCrash
  BY <1>15, <1>a DEF RCrash
<1>16. CASE ~ReceiverStep /\ ~SConnect /\ ~RCrash
  <2>1. UNCHANGED <<rVars, diskVars>>
    BY <1>16, ReceiverFrame, DiskFrame DEF ReceiverStep
  <2> QED BY <1>a, <2>1 DEF rVars
<1> QED BY <1>1, <1>2, <1>3, <1>4, <1>5, <1>6, <1>7, <1>8, <1>9, <1>10, <1>11, <1>12,
           <1>13, <1>14, <1>15, <1>16 DEF ReceiverStep

(* A sender that ends as canceled stays so.                                *)
LEMMA CanceledIsFinal ==
    ASSUME sErr = "Canceled", sPc \in {"finish", "done"}, [Next]_vars
    PROVE  sErr' = "Canceled" /\ sPc' \in {"finish", "done"}
<1>1. CASE SenderStep
  BY <1>1 DEF SenderStep, SPrepare, SConnect, STrust, SRequest, SDecision, SStream,
     SWrite, SResult, SSendCancel, SFinish
<1>2. CASE SCrash
  BY <1>2 DEF SCrash
<1> QED BY <1>1, <1>2, SenderFrame DEF sVars

(* No frame towards the receiver lies, and none becomes untrue.            *)
LEMMA ToReceiverStep ==
    ASSUME TypeOK, SenderShows, SenderStreams, ReceiverShows, ToReceiverIsTrue, [Next]_vars
    PROVE  ToReceiverIsTrue'
<1> DEFINE IsTrue(m) == /\ m.kind = "Complete" => sAt' = "sent"
                        /\ m.kind = "Cancel" =>
                              sErr' = "Canceled" /\ sPc' \in {"finish", "done"}
<1>t. SenderTyped /\ ReceiverTyped /\ NetTyped
  BY TypeParts
<1>a. \A i \in 1..Len(toR) : IsTrue(toR[i])
  BY SentIsFinal, CanceledIsFinal DEF ToReceiverIsTrue
<1>b. \A i \in 1..Len(toR') : IsTrue(toR'[i])
  <2> HIDE DEF IsTrue
  <2>1. ASSUME NEW m \in ToReceiver, toR' = Put(toR, m), IsTrue(m)
        PROVE  \A i \in 1..Len(toR') : IsTrue(toR'[i])
    <3>1. \A i \in 1..Len(Put(toR, m)) :
             (i \in 1..Len(toR) /\ Put(toR, m)[i] = toR[i]) \/ Put(toR, m)[i] = m
      BY <1>t, PutKeepsQueue DEF NetTyped
    <3> QED BY <1>a, <2>1, <3>1
  <2>2. ASSUME toR # <<>>, toR' = Tail(toR)
        PROVE  \A i \in 1..Len(toR') : IsTrue(toR'[i])
    <3>1. /\ \A i \in 1..Len(Tail(toR)) : Tail(toR)[i] = toR[i + 1]
          /\ Len(Tail(toR)) = Len(toR) - 1 /\ Len(toR) \in Nat
      BY <1>t, <2>2, TailIsPart DEF NetTyped
    <3>2. \A i \in 1..Len(Tail(toR)) : i + 1 \in 1..Len(toR)
      BY <3>1
    <3> QED BY <1>a, <2>2, <3>1, <3>2
  <2>3. CASE SRequest
    <3>1. IsTrue(Plain("Request"))
      BY DEF IsTrue, Plain
    <3> QED BY <1>a, <2>1, <2>3, <3>1, FramesAreTyped DEF SRequest
  <2>4. CASE SWrite
    <3>1. CASE toR' = Put(toR, sMsg) /\ (sMsg.kind = "Complete" => sAt' = "sent")
      <4>1. sMsg \in ToReceiver /\ sMsg.kind # "Cancel"
        BY <1>t, <2>4, NextMessages DEF SWrite, SenderStreams
      <4> QED BY <2>1, <3>1, <4>1 DEF IsTrue
    <3>2. CASE UNCHANGED toR
      BY <1>a, <3>2
    <3> QED BY <2>4, <3>1, <3>2 DEF SWrite
  <2>5. CASE SSendCancel
    <3>1. IsTrue(Plain("Cancel"))
      BY <2>5 DEF IsTrue, Plain, SSendCancel, SenderShows
    <3> QED BY <1>a, <2>1, <2>5, <3>1, FramesAreTyped DEF SSendCancel
  <2>6. CASE RRequest
    BY <1>a, <2>2, <2>6 DEF RRequest
  <2>7. CASE RAsk
    BY <1>a, <2>2, <2>7 DEF RAsk
  <2>8. CASE RReceive
    BY <1>a, <2>2, <2>8 DEF RReceive
  <2>9. CASE Break
    <3>1. PICK n \in 0..Len(toR) : toR' = SubSeq(toR, 1, n)
      BY <2>9 DEF Break
    <3>2. Len(toR') = n /\ \A i \in 1..n : toR'[i] = toR[i]
      BY <1>t, <3>1, PrefixIsPart DEF NetTyped
    <3> QED BY <1>a, <1>t, <3>2 DEF NetTyped
  <2> QED BY <1>a, <2>3, <2>4, <2>5, <2>6, <2>7, <2>8, <2>9, ToReceiverFrame
<1>c. ASSUME rErr' = "RemoteCanceled"
      PROVE  sErr' = "Canceled" /\ sPc' \in {"finish", "done"}
  <2>1. CASE rErr = "RemoteCanceled"
    BY <2>1, CanceledIsFinal DEF ToReceiverIsTrue
  <2>2. ASSUME toR # <<>>, Head(toR).kind = "Cancel"
        PROVE  sErr' = "Canceled" /\ sPc' \in {"finish", "done"}
    <3>1. Head(toR) = toR[1] /\ 1 \in 1..Len(toR)
      BY <1>t, <2>2, TailIsPart DEF NetTyped
    <3> QED BY <1>a, <2>2, <3>1
  <2>3. CASE rErr # "RemoteCanceled" /\ ~RAsk /\ ~RReceive
    BY <1>c, <2>3, ReceiverFrame, InterruptsAreLocal
    DEF ReceiverStep, SConnect, RRequest, RTrust, RDecide, RVerify, RFinalize, RCommit,
        RAcknowledge, RFinish, RCleanup, RRollback, RReport, RCrash, REnd, RAbort, rVars
  <2>4. CASE RAsk
    BY <1>c, <2>1, <2>2, <2>4 DEF RAsk, REnd
  <2>5. CASE RReceive
    BY <1>c, <2>1, <2>2, <2>5, InterruptsAreLocal
    DEF RReceive, RAbort, RStart, RData, RFileEnd, RComplete
  <2> QED BY <2>1, <2>3, <2>4, <2>5
<1> QED BY <1>b, <1>c DEF ToReceiverIsTrue

(* Nothing is done by a receiver that has ended.                           *)
LEMMA EndIsFinal ==
    ASSUME ReceiverTyped, rPc = "done", [Next]_vars
    PROVE  UNCHANGED <<rPc, rPhase, rErr, diskVars>>
<1>1. \/ ~ReceiverStep /\ ~SConnect
      \/ UNCHANGED <<rPc, rPhase, rErr, diskVars>>
  BY DEF ReceiverStep, SConnect, RRequest, RTrust, RAsk, RDecide, RReceive, RVerify,
     RFinalize, RCommit, RAcknowledge, RFinish, RCleanup, RRollback, RReport
<1>2. CASE RCrash
  BY <1>2 DEF RCrash
<1>3. CASE ~ReceiverStep /\ ~SConnect /\ ~RCrash
  BY <1>3, ReceiverFrame, DiskFrame DEF ReceiverStep, rVars
<1> QED BY <1>1, <1>2, <1>3

(* What the receiver has decided stays decided.                            *)
LEMMA OutcomesAreFinal ==
    ASSUME ReceiverTyped, ReceiverShows, [Next]_vars
    PROVE  /\ Committed => Committed'
           /\ GaveUp => GaveUp' /\ rErr' = rErr
           /\ TurnedDown => TurnedDown'
           /\ rPc \notin Deciding => rPc' \notin Deciding
<1>1. CASE rPc = "done"
  BY <1>1, EndIsFinal DEF GaveUp, TurnedDown, Committed, Deciding, diskVars
<1>2. CASE rPc # "done" /\ ~ReceiverStep /\ ~SConnect
  <2>1. UNCHANGED <<rPc, rPhase, rErr>>
    BY <1>2, ReceiverFrame DEF rVars, RCrash
  <2> QED BY <1>2, <2>1 DEF GaveUp, TurnedDown, Committed, Deciding
<1>3. CASE rPc # "done" /\ (ReceiverStep \/ SConnect)
  <2>1. Committed => Committed'
    BY <1>3, Transitions DEF Committed, ReceiverShows, ReceiverTyped, Terminal,
       ReceiverStep, SConnect, RRequest, RTrust, RAsk, RDecide, RReceive, RVerify,
       RFinalize, RCommit, RAcknowledge, RFinish, RCleanup, RRollback, RReport
  <2>2. rPc \notin Deciding => rPc' \notin Deciding
    BY <1>3 DEF Deciding, ReceiverStep, SConnect, RRequest, RTrust, RAsk, RDecide,
       RReceive, RStart, RData, RFileEnd, RComplete, RVerify, RFinalize, RCommit,
       RAcknowledge, RFinish, RCleanup, RRollback, RReport, REnd, RAbort
  <2> QED BY <1>3, <2>1, <2>2 DEF GaveUp, TurnedDown
<1> QED BY <1>1, <1>2, <1>3

(* What a frame towards the sender says of the receiver.                   *)
LEMMA ToSenderStep ==
    ASSUME TypeOK, ReceiverShows, Disk, ToSenderIsTrue, [Next]_vars
    PROVE  ToSenderIsTrue'
<1> DEFINE Tells(m) ==
             /\ rPc' \notin Deciding
             /\ m.kind = "Decision" /\ ~m.ok /\ m.why # "cancelled" => TurnedDown'
             /\ m.kind = "Result" => IF m.ok THEN Committed' ELSE GaveUp'
             /\ m.kind = "Cancel" => GaveUp' /\ rErr' = "Canceled"
             /\ m.kind = "ProtocolError" => GaveUp'
           IsTrue(m, i) == /\ Tells(m)
                           /\ m.kind = "Decision" => i = 1 /\ monitor' = "off"
<1>t. ReceiverTyped /\ NetTyped /\ MonitorTyped
  BY TypeParts
<1>a. \A i \in 1..Len(toS) :
         /\ Tells(toS[i])
         /\ toS[i].kind = "Decision" => i = 1 /\ monitor = "off"
  BY <1>t, OutcomesAreFinal DEF ToSenderIsTrue
<1>e. ASSUME toS # <<>> PROVE rPc \notin Deciding
  <2>1. 1 \in 1..Len(toS)
    BY <1>t, <1>e, TailIsPart DEF NetTyped
  <2> QED BY <2>1 DEF ToSenderIsTrue
<1>b. \A i \in 1..Len(toS') : IsTrue(toS'[i], i)
  <2> HIDE DEF Tells
  <2>1. ASSUME NEW m \in ToSender, toS' = Put(toS, m), Tells(m),
               monitor' \in {monitor, "off"},
               m.kind = "Decision" => toS = <<>> /\ monitor = "off"
        PROVE  \A i \in 1..Len(toS') : IsTrue(toS'[i], i)
    <3>1. \A i \in 1..Len(Put(toS, m)) :
             \/ i \in 1..Len(toS) /\ Put(toS, m)[i] = toS[i]
             \/ i = Len(toS) + 1 /\ Put(toS, m)[i] = m
      BY <1>t, PutKeepsQueue DEF NetTyped
    <3>2. toS = <<>> => Len(toS) = 0
      OBVIOUS
    <3> QED BY <1>a, <2>1, <3>1, <3>2
  <2>2. ASSUME toS # <<>>, toS' = Tail(toS)
        PROVE  \A i \in 1..Len(toS') : IsTrue(toS'[i], i)
    <3>1. /\ \A i \in 1..Len(Tail(toS)) : Tail(toS)[i] = toS[i + 1]
          /\ Len(Tail(toS)) = Len(toS) - 1 /\ Len(toS) \in Nat
      BY <1>t, <2>2, TailIsPart DEF NetTyped
    <3>2. \A i \in 1..Len(Tail(toS)) : i + 1 \in 1..Len(toS) /\ i + 1 # 1
      BY <3>1
    <3> QED BY <1>a, <2>2, <3>1, <3>2
  <2>3. ASSUME UNCHANGED toS, monitor' \in {monitor, "off"}
        PROVE  \A i \in 1..Len(toS') : IsTrue(toS'[i], i)
    BY <1>a, <2>3
  <2>4. CASE SDecision
    BY <2>2, <2>3, <2>4 DEF SDecision
  <2>5. CASE Monitor
    <3>1. CASE UNCHANGED toS
      BY <1>a, <2>5, <3>1 DEF Monitor
    <3> QED BY <2>2, <2>5, <3>1 DEF Monitor
  <2>6. CASE RTrust
    <3>1. /\ UNCHANGED monitor /\ rPhase = "None" /\ toS = <<>> /\ monitor = "off"
          /\ staged = {} /\ published = {} /\ UNCHANGED diskVars
      BY <1>e, <2>6 DEF RTrust, mVars, ReceiverShows, ToSenderIsTrue, Deciding, Disk
    <3>2. CASE UNCHANGED toS
      BY <2>3, <3>1, <3>2
    <3>3. CASE toS' = Put(toS, Decision(FALSE, "busy")) /\ REnd("None")
      <4>1. TurnedDown' /\ rPc' = "done"
        BY <3>1, <3>3 DEF TurnedDown, REnd, diskVars
      <4>2. Tells(Decision(FALSE, "busy"))
        BY <4>1 DEF Tells, Decision, Deciding
      <4> QED BY <2>1, <3>1, <3>3, <4>2, FramesAreTyped DEF Reasons
    <3>4. CASE toS' = Put(toS, Notice("ProtocolError")) /\ rPhase' = "Failed"
               /\ rPc' = "done" /\ rErr' = "Local"
      <4>1. GaveUp'
        BY <3>4 DEF GaveUp, Committed
      <4>2. Tells(Notice("ProtocolError"))
        BY <3>4, <4>1 DEF Tells, Notice, Deciding
      <4> QED BY <2>1, <3>1, <3>4, <4>2, FramesAreTyped
    <3> QED BY <2>6, <3>2, <3>3, <3>4 DEF RTrust, MaySend
  <2>7. CASE RDecide
    <3>1. /\ UNCHANGED monitor /\ rPhase = "WaitingForAcceptance"
          /\ toS = <<>> /\ monitor = "off"
          /\ staged = {} /\ published = {} /\ UNCHANGED diskVars
      BY <1>e, <2>7 DEF RDecide, mVars, ReceiverShows, ToSenderIsTrue, Deciding, Disk
    <3>2. CASE UNCHANGED toS
      BY <2>3, <3>1, <3>2
    <3>3. CASE toS' = Put(toS, Decision(TRUE, "none")) /\ rPc' \in {"receive", "cleanup"}
      <4>1. Tells(Decision(TRUE, "none"))
        BY <3>3 DEF Tells, Decision, Deciding
      <4> QED BY <2>1, <3>1, <3>3, <4>1, FramesAreTyped DEF Reasons
    <3>4. ASSUME NEW w \in {"declined", "expired"}, toS' = Put(toS, Decision(FALSE, w)),
                 rPhase' = "Rejected", rPc' = "done"
          PROVE  \A i \in 1..Len(toS') : IsTrue(toS'[i], i)
      <4>1. TurnedDown'
        BY <3>1, <3>4 DEF TurnedDown, diskVars
      <4>2. Tells(Decision(FALSE, w))
        BY <3>4, <4>1 DEF Tells, Decision, Deciding
      <4> QED BY <2>1, <3>1, <3>4, <4>2, FramesAreTyped DEF Reasons
    <3>5. CASE toS' = Put(toS, Decision(FALSE, "cancelled")) /\ rPc' = "done"
      <4>1. Tells(Decision(FALSE, "cancelled"))
        BY <3>5 DEF Tells, Decision, Deciding
      <4> QED BY <2>1, <3>1, <3>5, <4>1, FramesAreTyped DEF Reasons
    <3> QED BY <2>7, <3>1, <3>2, <3>3, <3>4, <3>5, Transitions
            DEF RDecide, MaySend, REnd, RAbort
  <2>8. CASE RAcknowledge
    <3>1. Tells(Result(TRUE)) /\ UNCHANGED monitor
      BY <2>8 DEF RAcknowledge, Tells, Result, Committed, Deciding, mVars
    <3>2. Result(TRUE) \in ToSender /\ Result(TRUE).kind # "Decision"
      BY FramesAreTyped DEF Result
    <3> QED BY <2>1, <2>3, <2>8, <3>1, <3>2 DEF RAcknowledge, MaySend
  <2>9. CASE RReport
    <3>1. PICK c \in (IF rErr = "Canceled" THEN {<<>>, <<Notice("Cancel")>>} ELSE {<<>>}),
               r \in {<<>>, <<Result(FALSE)>>} : toS' = toS \o c \o r
      BY <2>9 DEF RReport
    <3>2. GaveUp' /\ rPc' = "done" /\ rErr' = rErr /\ UNCHANGED monitor
      <4>1. rErr # "None" /\ rPhase # "None" /\ rPhase \notin Terminal
        BY <2>9 DEF RReport, ReceiverShows
      <4>2. rPc' = "done" /\ rErr' = rErr /\ rPhase' \in {"Canceled", "Failed"}
        BY <2>9, <4>1, ReceiverEnding DEF RReport
      <4> QED BY <2>9, <4>1, <4>2 DEF RReport, GaveUp, Committed, mVars
    <3>3. Tells(Result(FALSE)) /\ Result(FALSE).kind # "Decision"
      BY <3>2 DEF Tells, Result, Deciding
    <3>4. rErr = "Canceled" => Tells(Notice("Cancel")) /\ Notice("Cancel").kind # "Decision"
      BY <3>2 DEF Tells, Notice, Deciding
    <3>5. /\ \A j \in 1..Len(c) : Tells(c[j]) /\ c[j].kind # "Decision"
          /\ \A j \in 1..Len(r) : Tells(r[j]) /\ r[j].kind # "Decision"
      <4>1. ASSUME NEW m, NEW q \in {<<>>, <<m>>}, Tells(m), m.kind # "Decision"
            PROVE  \A j \in 1..Len(q) : Tells(q[j]) /\ q[j].kind # "Decision"
        <5>1. \A j \in 1..Len(q) : q[j] = m
          OBVIOUS
        <5> QED BY <4>1, <5>1
      <4>2. \A j \in 1..Len(<<>>) : Tells(<<>>[j]) /\ <<>>[j].kind # "Decision"
        <5>1. 1..Len(<<>>) = {}
          OBVIOUS
        <5> QED BY <5>1
      <4> QED BY <3>1, <3>3, <3>4, <4>1, <4>2
    <3>6. /\ <<>> \in Seq(ToSender)
          /\ \A m \in ToSender : <<m>> \in Seq(ToSender)
      OBVIOUS
    <3>7. c \in Seq(ToSender) /\ r \in Seq(ToSender)
      BY <3>1, <3>6, FramesAreTyped
    <3>8. \A i \in 1..Len(toS') :
             \/ i \in 1..Len(toS) /\ toS'[i] = toS[i]
             \/ \E j \in 1..Len(c) : toS'[i] = c[j]
             \/ \E j \in 1..Len(r) : toS'[i] = r[j]
      <4>1. \A i \in 1..Len(toS \o c \o r) :
               \/ i \in 1..Len(toS) /\ (toS \o c \o r)[i] = toS[i]
               \/ \E j \in 1..Len(c) : (toS \o c \o r)[i] = c[j]
               \/ \E j \in 1..Len(r) : (toS \o c \o r)[i] = r[j]
        <5>1. toS \in Seq(ToSender)
          BY <1>t DEF NetTyped
        <5> QED BY ONLY <5>1, <3>7, SMTT(30)
      <4> QED BY <3>1, <4>1
    <3> QED BY <1>a, <3>2, <3>5, <3>8
  <2>10. CASE Break
    <3>1. PICK n \in 0..Len(toS) : toS' = SubSeq(toS, 1, n)
      BY <2>10 DEF Break
    <3>2. Len(toS') = n /\ \A i \in 1..n : toS'[i] = toS[i]
      BY <1>t, <3>1, PrefixIsPart DEF NetTyped
    <3>3. UNCHANGED monitor
      BY <2>10 DEF Break, mVars
    <3> QED BY <1>a, <1>t, <3>2, <3>3 DEF NetTyped
  <2>11. CASE ~(SDecision \/ Monitor \/ RTrust \/ RDecide \/ RAcknowledge \/ RReport
                \/ Break)
    <3>1. CASE SFinish
      BY <2>3, <2>11, <3>1, ToSenderFrame DEF SFinish
    <3> QED BY <2>3, <2>11, <3>1, ToSenderFrame, MonitorFrame DEF mVars
  <2> QED BY <2>4, <2>5, <2>6, <2>7, <2>8, <2>9, <2>10, <2>11
<1>c. monitor' # "off" => rPc' \notin Deciding
  <2>1. CASE rPc \notin Deciding
    BY <1>t, <2>1, OutcomesAreFinal
  <2>2. CASE rPc \in Deciding
    <3>1. toS = <<>> /\ monitor = "off"
      BY <1>e, <2>2 DEF ToSenderIsTrue
    <3> QED BY <3>1, MonitorFrame DEF SDecision, SFinish, Monitor, mVars
  <2> QED BY <2>1, <2>2
<1>d. Deciding' = Deciding
  BY DEF Deciding
<1> QED BY <1>b, <1>c, <1>d DEF ToSenderIsTrue
(* A committed batch is whole: every file is published and verified.       *)
LEMMA CommittedIsWhole ==
    ASSUME ReceiverTyped, ReceiverShows, Disk, Committed
    PROVE  /\ sAt = "sent" /\ published = Files /\ staged = {}
           /\ \A f \in Files : Verified(f)
<1>1. CASE rPc \in {"acknowledge", "complete"}
  <2>1. /\ sAt = "sent" /\ \A f \in Files : Verified(f)
        /\ published = 1..rFin /\ staged = Files \ published /\ rFin = NFiles
    BY <1>1 DEF Disk, Keeping
  <2> QED BY <2>1 DEF Files
<1>2. CASE rPhase = "Completed"
  <2>1. rPc = "done"
    BY <1>2 DEF ReceiverTyped, ReceiverShows, Terminal
  <2>2. 1 \in Files
    BY BatchAssumption DEF Files
  <2> QED BY <1>2, <2>1, <2>2
          DEF Disk, EndedBatchIsAllOrNothing, PublishedOnlyAsVerifiedBatch
<1> QED BY <1>1, <1>2 DEF Committed

(* What the sender concludes from frames and signals is true.              *)
LEMMA SenderIsToldStep ==
    ASSUME TypeOK, SenderShows, SenderStreams, ReceiverShows, Disk,
           ToSenderIsTrue, SenderIsToldTheTruth, [Next]_vars
    PROVE  SenderIsToldTheTruth'
<1>t. SenderTyped /\ ReceiverTyped /\ NetTyped /\ MonitorTyped
  BY TypeParts
<1>a. /\ Committed => Committed'
      /\ GaveUp => GaveUp' /\ rErr' = rErr
      /\ TurnedDown => TurnedDown'
  BY <1>t, OutcomesAreFinal
<1>h. ASSUME toS # <<>>
      PROVE  /\ Head(toS) \in ToSender
             /\ Head(toS).kind = "Decision" => monitor = "off"
             /\ Head(toS).kind = "Decision" /\ ~Head(toS).ok
                   /\ Head(toS).why # "cancelled" => TurnedDown
             /\ Head(toS).kind = "Result" => IF Head(toS).ok THEN Committed ELSE GaveUp
             /\ Head(toS).kind = "Cancel" => GaveUp /\ rErr = "Canceled"
             /\ Head(toS).kind = "ProtocolError" => GaveUp
  <2>1. Head(toS) = toS[1] /\ 1 \in 1..Len(toS) /\ Head(toS) \in ToSender
    BY <1>t, <1>h, TailIsPart DEF NetTyped
  <2> QED BY <2>1 DEF ToSenderIsTrue
<1>k. \A m \in ToSender : m.kind \in {"Decision", "Result", "Cancel", "ProtocolError"}
  BY DEF ToSender
<1>1. /\ signal' = "success" => Committed'
      /\ signal' = "failure" => GaveUp'
      /\ signal' = "cancelled" => GaveUp' /\ rErr' = "Canceled"
  <2>1. CASE UNCHANGED signal
    BY <1>a, <2>1 DEF SenderIsToldTheTruth
  <2>2. CASE Monitor
    <3>1. CASE toS # <<>> /\ signal' = SignalOf(Head(toS))
      BY <1>a, <1>h, <1>k, <2>2, <3>1 DEF Monitor, SignalOf
    <3>2. CASE signal' = "lost"
      BY <3>2
    <3> QED BY <2>1, <2>2, <3>1, <3>2 DEF Monitor, SignalOfEof
  <2> QED BY <2>1, <2>2, MonitorFrame DEF SDecision, SFinish, mVars
<1>2. sPhase' = "Completed" => Committed'
  <2>1. CASE SResult
    BY <1>a, <2>1, Transitions DEF SResult, SenderShows, SenderIsToldTheTruth
  <2>2. CASE SenderStep /\ ~SResult
    <3>1. sPhase' = "Completed" => sPhase = "Completed"
      BY <2>2, AnswersOfHelpers DEF SenderStep, SPrepare, SConnect, STrust, SRequest,
         SDecision, SStream, SWrite, SSendCancel, SFinish
    <3> QED BY <1>a, <3>1 DEF SenderIsToldTheTruth
  <2>3. CASE SCrash
    BY <1>a, <2>3 DEF SCrash, SenderIsToldTheTruth
  <2> QED BY <1>a, <2>1, <2>2, <2>3, SenderFrame DEF sVars, SenderIsToldTheTruth
<1>3. sPhase' = "Rejected" => TurnedDown'
  <2>1. CASE SDecision
    <3>1. CASE toS # <<>> /\ Head(toS).kind = "Decision" /\ ~Head(toS).ok
               /\ sPhase' = Transition(sPhase, IF Head(toS).why = "cancelled"
                                               THEN "Canceled" ELSE "Rejected")
      BY <1>a, <1>h, <2>1, <3>1, Transitions DEF SDecision, SenderShows
    <3>2. CASE sPhase' = "Transferring" \/ sPhase' = sPhase
      BY <2>1, <3>2 DEF SDecision, SenderShows
    <3> QED BY <2>1, <3>1, <3>2, Transitions DEF SDecision, SenderShows
  <2>2. CASE SenderStep /\ ~SDecision
    <3>1. sPhase' = "Rejected" => sPhase = "Rejected"
      BY <2>2, AnswersOfHelpers DEF SenderStep, SPrepare, SConnect, STrust, SRequest,
         SStream, SWrite, SResult, SSendCancel, SFinish
    <3> QED BY <1>a, <3>1 DEF SenderIsToldTheTruth
  <2>3. CASE SCrash
    BY <1>a, <2>3 DEF SCrash, SenderIsToldTheTruth
  <2> QED BY <1>a, <2>1, <2>2, <2>3, SenderFrame DEF sVars, SenderIsToldTheTruth
<1>4. /\ sErr' = "RemoteCanceled" => GaveUp' /\ rErr' = "Canceled"
      /\ sErr' = "RemoteFailure" => GaveUp'
  <2>1. CASE UNCHANGED sErr
    BY <1>a, <2>1 DEF SenderIsToldTheTruth
  <2>2. CASE SDecision
    <3>1. CASE toS # <<>> /\ Head(toS).kind # "Decision"
      <4>1. ~Committed
        BY <1>t, <2>2, CommittedIsWhole DEF SDecision, SenderStreams
      <4>2. GaveUp
        BY <1>h, <1>k, <3>1, <4>1
      <4>3. sErr' # "RemoteCanceled"
        BY <2>2, InterruptsAreLocal, <3>1 DEF SDecision, SFail, SAbort
      <4> QED BY <1>a, <4>2, <4>3
    <3>2. CASE sErr' \notin {"RemoteCanceled", "RemoteFailure"}
      BY <3>2
    <3> QED BY <2>1, <2>2, <3>1, <3>2, InterruptsAreLocal, AnswersOfHelpers
            DEF SDecision, SFail, SAbort, CancelErrors
  <2>3. CASE SStream
    <3>1. "RemoteFailure" \notin StopStreaming
      BY <1>t, AnswersOfHelpers DEF StopStreaming, EarlySignal, MonitorTyped, CancelErrors
    <3>2. "RemoteCanceled" \in StopStreaming => signal = "cancelled"
      BY <1>t, InterruptsAreLocal DEF StopStreaming, EarlySignal, MonitorTyped
    <3> QED BY <1>a, <2>1, <2>3, <3>1, <3>2 DEF SStream, SAbort, SenderIsToldTheTruth
  <2>4. CASE SResult
    BY <1>a, <2>1, <2>4, InterruptsAreLocal, AnswersOfHelpers
    DEF SResult, SAbort, SenderIsToldTheTruth, CancelErrors
  <2>5. CASE SenderStep /\ ~SDecision /\ ~SStream /\ ~SResult
    <3>1. UNCHANGED sErr \/ sErr' \notin {"RemoteCanceled", "RemoteFailure"}
      BY <2>5, InterruptsAreLocal, AnswersOfHelpers
      DEF SenderStep, SPrepare, SConnect, STrust, SRequest, SWrite, SSendCancel, SFinish,
          SFail, SAbort, CancelErrors
    <3> QED BY <2>1, <3>1
  <2>6. CASE SCrash
    BY <2>1, <2>6 DEF SCrash
  <2> QED BY <2>1, <2>2, <2>3, <2>4, <2>5, <2>6, SenderFrame DEF sVars
<1> QED BY <1>1, <1>2, <1>3, <1>4 DEF SenderIsToldTheTruth

-----------------------------------------------------------------------------
(* The invariant and what follows from it.                                 *)

(* The invariant holds before the sender starts ...                        *)
LEMMA InitIInv == Init => IInv
<1> SUFFICES ASSUME Init PROVE IInv
  OBVIOUS
<1> USE DEF Init
<1>1. TypeOK
  <2>1. SenderTyped
    <3>1. sMsg \in ToReceiver
      BY FramesAreTyped
    <3>2. sFile \in 1..(NFiles + 1) /\ sSent \in 0..(Chunks + 1)
      BY BatchAssumption
    <3>3. sUp \in BOOLEAN
      OBVIOUS
    <3>4. sPhase \in Phases /\ sErr \in Errors \cup {"None"}
      BY DEF Phases
    <3>5. sAt \in {"start", "body", "sent"} /\ sPc \in {"prepare"}
      OBVIOUS
    <3> QED BY <3>1, <3>2, <3>3, <3>4, <3>5 DEF SenderTyped
  <2>2. ReceiverTyped
    <3>1. rFile \in 1..(NFiles + 1) /\ rFin \in 0..NFiles
      BY BatchAssumption
    <3> QED BY <3>1 DEF ReceiverTyped
  <2>4. DiskTyped
    BY BatchAssumption DEF DiskTyped
  <2>5. UsersTyped /\ MonitorTyped
    BY DEF UsersTyped, MonitorTyped
  <2>3. NetTyped
    BY WindowAssumption DEF NetTyped
  <2> QED BY <2>1, <2>2, <2>3, <2>4, <2>5, TypeParts
<1>2. SenderShows /\ SenderStreams
  BY DEF SenderShows, SenderStreams
<1>3. ReceiverShows
  BY DEF ReceiverShows
<1>4. Consent
  BY DEF Consent, Deciding, DiskNeedsConsent
<1>5. Disk
  BY DEF Disk, Deciding, Keeping, EndedBatchIsAllOrNothing, PublishedOnlyAsVerifiedBatch
<1>6. ToReceiverIsTrue /\ ToSenderIsTrue /\ SenderIsToldTheTruth
  BY DEF ToReceiverIsTrue, ToSenderIsTrue, SenderIsToldTheTruth
<1> QED BY <1>1, <1>2, <1>3, <1>4, <1>5, <1>6 DEF IInv

(* ... and every step keeps it.                                            *)
LEMMA StepIInv == IInv /\ [Next]_vars => IInv'
<1> SUFFICES ASSUME IInv, [Next]_vars PROVE IInv'
  OBVIOUS
<1> USE DEF IInv
<1>1. SenderTyped' /\ ReceiverTyped' /\ DiskTyped' /\ UsersTyped' /\ MonitorTyped' /\ NetTyped'
  BY TypeParts, SenderKeepsTypes, ReceiverKeepsTypes, DiskKeepsTypes, UsersKeepTypes,
     MonitorKeepsTypes, NetKeepsTypes
<1>2. TypeOK'
  BY <1>1 DEF TypeOK, SenderTyped, ReceiverTyped, DiskTyped, UsersTyped, MonitorTyped,
     NetTyped
<1>3. SenderShows' /\ SenderStreams'
  BY TypeParts, SenderShowsStep, SenderStreamsStep
<1>4. ReceiverShows' /\ Consent' /\ Disk'
  BY TypeParts, ReceiverShowsStep, ConsentStep, DiskStep
<1>5. ToReceiverIsTrue' /\ ToSenderIsTrue' /\ SenderIsToldTheTruth'
  BY ToReceiverStep, ToSenderStep, SenderIsToldStep
<1> QED BY <1>2, <1>3, <1>4, <1>5

(* The inductive invariant holds throughout a transfer.                    *)
THEOREM Invariant == Spec => []IInv
BY InitIInv, StepIInv, PTL DEF Spec

(* Every variable keeps its type and the connection its bound.             *)
THEOREM TypeCorrect == Spec => []TypeOK
<1>1. IInv => TypeOK
  BY DEF IInv
<1> QED BY <1>1, Invariant, PTL

(* A sender that shows Completed has had every file delivered whole:       *)
(* send_files only trusts a result that receive_incoming wrote past its    *)
(* last look at the tokens.                                                *)
THEOREM Delivery == Spec => []CompletedMeansDelivered
<1>1. IInv => CompletedMeansDelivered
  BY TypeParts, CommittedIsWhole DEF IInv, SenderIsToldTheTruth, CompletedMeansDelivered
<1> QED BY <1>1, Invariant, PTL

(* No file gets its final name before the whole batch passed its checks:   *)
(* receive_files returns before the loop of finalize_staged_file.          *)
THEOREM Publication == Spec => []PublishedOnlyAsVerifiedBatch
<1>1. IInv => PublishedOnlyAsVerifiedBatch
  BY DEF IInv, Disk
<1> QED BY <1>1, Invariant, PTL

(* Nothing is on disk without the user's yes: wait_for_decision comes      *)
(* before receive_files.                                                   *)
THEOREM ConsentComesFirst == Spec => []DiskNeedsConsent
<1>1. IInv => DiskNeedsConsent
  BY DEF IInv, Consent
<1> QED BY <1>1, Invariant, PTL

(* A receiver that ends leaves the whole batch or nothing it can delete:   *)
(* finish_incoming_error cleans up on every path after a staged file.      *)
THEOREM AllOrNothing == Spec => []EndedBatchIsAllOrNothing
<1>1. IInv => EndedBatchIsAllOrNothing
  BY DEF IInv, Disk
<1> QED BY <1>1, Invariant, PTL

(* A task that has ended shows the terminal phase its outcome calls for:   *)
(* the transitions the code asks for are in the table, in that order.      *)
THEOREM OutcomesShown == Spec => []OutcomeIsShown
<1>1. IInv => OutcomeIsShown
  BY DEF IInv, SenderShows, ReceiverShows, OutcomeIsShown
<1> QED BY <1>1, Invariant, PTL

(* What either user is told about the other side is true: decisions,       *)
(* results and cancellations are read as what they were sent for.          *)
THEOREM TrueBlame == Spec => []BlameIsReal
<1>1. IInv => BlameIsReal
  BY DEF IInv, ToReceiverIsTrue, SenderIsToldTheTruth, GaveUp, TurnedDown, BlameIsReal
<1> QED BY <1>1, Invariant, PTL

(* Past its last look at the tokens the receiver never takes a batch back: *)
(* no step of receive_incoming after it leads to finish_incoming_error.    *)
THEOREM CommitmentHolds == Spec => CommitIsFinal
<1>1. IInv /\ [Next]_vars => [Committed => Committed' /\ published' = published]_vars
  <2> SUFFICES ASSUME IInv, [Next]_vars, Committed
               PROVE  Committed' /\ published' = published
    OBVIOUS
  <2>1. ReceiverTyped /\ ReceiverShows
    BY TypeParts DEF IInv
  <2>2. rPc \in {"acknowledge", "complete", "done"}
    BY <2>1 DEF Committed, ReceiverTyped, ReceiverShows, Terminal
  <2>3. UNCHANGED diskVars
    BY <2>2, DiskFrame DEF RReceive, RFinalize, RCleanup, RRollback
  <2> QED BY <2>1, <2>3, OutcomesAreFinal DEF diskVars
<1> QED BY <1>1, Invariant, PTL DEF Spec, CommitIsFinal

-----------------------------------------------------------------------------
(* The session implements the handover: outcomes, once reached, stay, and  *)
(* each change of one is the abstract step of that name.                   *)

(* Nothing is agreed, offered or placed at the start.                      *)
LEMMA InitHandover == Init => H!Init
BY DEF Init, H!Init, ReceiverOutcome, SenderOutcome, Committed, Terminal

(* Only the user's answer changes what was agreed.                         *)
LEMMA AgreementIsFinal ==
    ASSUME Consent, [Next]_vars, ~RUserAnswer
    PROVE  (answer' = "yes") = (answer = "yes")
<1>1. CASE RTrust \/ RAsk \/ RShutdown
  BY <1>1 DEF RTrust, RAsk, RShutdown, Consent
<1> QED BY <1>1, AnswerFrame

(* The sender offers, completes and stops.                                 *)
LEMMA SenderHandsOver ==
    ASSUME IInv, SenderStep
    PROVE  [H!Next]_(H!handover)
<1> USE DEF IInv
<1>t. SenderTyped /\ ReceiverTyped
  BY TypeParts
<1>1. UNCHANGED <<answer, published, ReceiverOutcome>>
  <2>1. CASE SConnect
    BY <2>1 DEF SConnect, ReceiverOutcome, Committed, userVars, diskVars
  <2>2. CASE ~SConnect
    <3>1. UNCHANGED <<answer, published, rPc, rPhase>>
      BY <2>2 DEF SenderStep, SPrepare, STrust, SRequest, SDecision, SStream, SWrite,
         SResult, SSendCancel, SFinish, userVars, diskVars, rVars
    <3> QED BY <3>1 DEF ReceiverOutcome, Committed
  <2> QED BY <2>1, <2>2
<1>2. CASE SWrite
  <2>1. sPhase \notin Terminal /\ sPhase' \notin Terminal
    BY <1>2, AnswersOfHelpers DEF SWrite, SenderShows, Terminal
  <2>2. SenderOutcome = "pending" /\ SenderOutcome' = "pending"
    BY <2>1 DEF SenderOutcome, Terminal
  <2>3. sAt # "sent"
    BY <1>2 DEF SWrite, SenderStreams
  <2>4. CASE sAt' = "sent"
    BY <1>1, <2>2, <2>4 DEF H!Next, H!Offer
  <2>5. CASE sAt' # "sent"
    BY <1>1, <2>2, <2>3, <2>5 DEF H!handover
  <2> QED BY <2>4, <2>5
<1>3. CASE ~SWrite
  <2>1. UNCHANGED sAt
    BY <1>3 DEF SenderStep, SPrepare, SConnect, STrust, SRequest, SDecision, SStream,
       SResult, SSendCancel, SFinish
  <2>2. sPhase \in Terminal => UNCHANGED sPhase
    BY DEF SenderStep, SPrepare, SConnect, STrust, SRequest, SDecision, SStream, SWrite,
       SResult, SSendCancel, SFinish, SenderShows, FinishError, Terminal
  <2>3. sPhase' = "Completed" /\ sPhase # "Completed" => Committed
    <3>1. CASE SResult
      BY <3>1, Transitions DEF SResult, SenderShows, SenderIsToldTheTruth
    <3>2. CASE ~SResult
      BY <1>3, <3>2, AnswersOfHelpers DEF SenderStep, SPrepare, SConnect, STrust,
         SRequest, SDecision, SStream, SSendCancel, SFinish
    <3> QED BY <3>1, <3>2
  <2>4. CASE UNCHANGED SenderOutcome
    BY <1>1, <2>1, <2>4 DEF H!handover
  <2>5. CASE SenderOutcome = "pending" /\ SenderOutcome' = "completed"
    <3>1. ReceiverOutcome = "kept"
      BY <2>3, <2>5 DEF SenderOutcome, ReceiverOutcome
    <3> QED BY <1>1, <2>1, <2>5, <3>1 DEF H!Next, H!Complete
  <2>6. CASE SenderOutcome = "pending" /\ SenderOutcome' = "stopped"
    BY <1>1, <2>1, <2>6 DEF H!Next, H!Stop
  <2> QED BY <2>2, <2>4, <2>5, <2>6 DEF SenderOutcome, Terminal
<1> QED BY <1>2, <1>3

(* The receiver places, withdraws, keeps and drops.                        *)
LEMMA ReceiverHandsOver ==
    ASSUME IInv, ReceiverStep, [Next]_vars
    PROVE  [H!Next]_(H!handover)
<1> USE DEF IInv
<1>t. SenderTyped /\ ReceiverTyped
  BY TypeParts
<1>1. UNCHANGED <<sAt, SenderOutcome>> /\ (answer' = "yes") = (answer = "yes")
  <2>1. UNCHANGED <<sAt, sPhase>>
    BY DEF ReceiverStep, RRequest, RTrust, RAsk, RDecide, RReceive, RVerify, RFinalize,
       RCommit, RAcknowledge, RFinish, RCleanup, RRollback, RReport, sVars
  <2>2. CASE RTrust \/ RAsk
    BY <2>1, <2>2 DEF RTrust, RAsk, Consent, SenderOutcome
  <2>3. CASE ~RTrust /\ ~RAsk
    <3>1. UNCHANGED answer
      BY <2>3 DEF ReceiverStep, RRequest, RDecide, RReceive, RVerify, RFinalize, RCommit,
         RAcknowledge, RFinish, RCleanup, RRollback, RReport, userVars
    <3> QED BY <2>1, <3>1 DEF SenderOutcome
  <2> QED BY <2>2, <2>3
<1>p. rPc \notin {"acknowledge", "complete", "done"} => ReceiverOutcome = "pending"
  BY <1>t DEF ReceiverOutcome, Committed, ReceiverShows, ReceiverTyped, Terminal
<1>2. CASE RFinalize
  <2>1. ReceiverOutcome = "pending" /\ ReceiverOutcome' = "pending"
    BY <1>2, <1>p, AnswersOfHelpers, Transitions
    DEF RFinalize, RAbort, ReceiverOutcome, Committed, ReceiverShows
  <2>2. answer = "yes" /\ sAt = "sent"
    BY <1>2 DEF RFinalize, Consent, Deciding, Disk, Keeping
  <2>3. CASE UNCHANGED published
    BY <1>1, <2>1, <2>3 DEF H!handover
  <2>4. CASE rFin < NFiles /\ published' = published \cup {rFin + 1}
    <3>1. rFin + 1 \in Files
      BY <1>t, <2>4, BatchAssumption DEF ReceiverTyped, Files
    <3> QED BY <1>1, <2>1, <2>2, <2>4, <3>1 DEF H!Next, H!Place
  <2> QED BY <1>2, <2>3, <2>4 DEF RFinalize
<1>3. CASE RRollback
  <2>1. ReceiverOutcome = "pending" /\ ReceiverOutcome' = "pending"
    BY <1>3, <1>p DEF RRollback, ReceiverOutcome, Committed
  <2>2. published' \subseteq published \cap Stubborn
    BY <1>3 DEF RRollback, Disk
  <2> QED BY <1>1, <2>1, <2>2 DEF H!Next, H!Withdraw
<1>4. CASE ~RFinalize /\ ~RRollback
  <2>1. UNCHANGED published
    BY <1>4, DiskFrame DEF RReceive, RCleanup, diskVars
  <2>2. CASE UNCHANGED ReceiverOutcome
    BY <1>1, <2>1, <2>2 DEF H!handover
  <2>3. CASE ReceiverOutcome = "pending" /\ ReceiverOutcome' = "kept"
    <3>1. Committed' /\ ~Committed
      BY <2>3 DEF ReceiverOutcome
    <3>2. ReceiverTyped' /\ ReceiverShows' /\ Disk'
      BY TypeParts, ReceiverKeepsTypes, ReceiverShowsStep, DiskStep
    <3>3. published' = Files
      <4>1. CASE rPc' \in {"acknowledge", "complete"}
        <5>1. published' = 1..rFin' /\ rFin' = NFiles
          BY <3>2, <4>1 DEF Disk, Keeping
        <5> QED BY <5>1 DEF Files
      <4>2. CASE rPhase' = "Completed"
        <5>1. rPc' = "done"
          BY <3>2, <4>2 DEF ReceiverTyped, ReceiverShows, Terminal
        <5> QED BY <3>2, <4>2, <5>1 DEF Disk, EndedBatchIsAllOrNothing, Files
      <4> QED BY <3>1, <4>1, <4>2 DEF Committed
    <3>4. published = Files
      BY <2>1, <3>3
    <3> QED BY <1>1, <2>1, <2>3, <3>4 DEF H!Next, H!Keep
  <2>4. CASE ReceiverOutcome = "pending" /\ ReceiverOutcome' = "dropped"
    <3>1. rPc' = "done" /\ rPc # "done"
      BY <2>4 DEF ReceiverOutcome
    <3>2. rPc \in Deciding \cup {"report"}
      BY <1>p, <2>4, <3>1 DEF ReceiverStep, RRequest, RTrust, RAsk, RDecide, RReceive,
         RStart, RData, RFileEnd, RComplete, RVerify, RFinalize, RCommit, RAcknowledge,
         RFinish, RCleanup, RRollback, RReport, RAbort, Deciding, ReceiverOutcome,
         Committed
    <3>3. published \subseteq Stubborn
      BY <3>2 DEF Disk
    <3> QED BY <1>1, <2>1, <2>4, <3>3 DEF H!Next, H!Drop
  <2>5. ReceiverOutcome # "pending" => UNCHANGED ReceiverOutcome
    <3>1. Committed => Committed'
      BY <1>t, OutcomesAreFinal
    <3>2. rPc = "done" => UNCHANGED <<rPc, rPhase>>
      BY <1>t, EndIsFinal
    <3> QED BY <3>1, <3>2 DEF ReceiverOutcome, Committed
  <2> QED BY <2>2, <2>3, <2>4, <2>5 DEF ReceiverOutcome
<1> QED BY <1>2, <1>3, <1>4

(* Every step of a session is one of the handover's or invisible to it.    *)
LEMMA StepHandover == IInv /\ [Next]_vars => [H!Next]_(H!handover)
<1> SUFFICES ASSUME IInv, [Next]_vars PROVE [H!Next]_(H!handover)
  OBVIOUS
<1>1. CASE SenderStep
  BY <1>1, SenderHandsOver
<1>2. CASE ReceiverStep
  BY <1>2, ReceiverHandsOver
<1>3. CASE ~SenderStep /\ ~ReceiverStep
  <2>1. UNCHANGED <<sAt, SenderOutcome>>
    BY <1>3, SenderFrame DEF sVars, SCrash, SenderOutcome
  <2>2. UNCHANGED published
    BY <1>3, DiskFrame DEF diskVars, ReceiverStep
  <2>3. UNCHANGED ReceiverOutcome
    BY <1>3, ReceiverFrame DEF rVars, RCrash, ReceiverOutcome, Committed, SenderStep
  <2>4. CASE RUserAnswer
    <3>1. answer = "pending" /\ ReceiverOutcome = "pending"
      BY <2>4 DEF RUserAnswer, IInv, Consent, ReceiverShows, ReceiverOutcome, Committed
    <3>2. CASE answer' = "yes"
      BY <2>1, <2>2, <2>3, <3>1, <3>2 DEF H!Next, H!Agree
    <3>3. CASE answer' # "yes"
      BY <2>1, <2>2, <2>3, <3>1, <3>3 DEF H!handover
    <3> QED BY <3>2, <3>3
  <2>5. CASE ~RUserAnswer
    <3>1. (answer' = "yes") = (answer = "yes")
      BY <2>5, AgreementIsFinal DEF IInv
    <3> QED BY <2>1, <2>2, <2>3, <3>1 DEF H!handover
  <2> QED BY <2>4, <2>5
<1> QED BY <1>1, <1>2, <1>3

(* The two tasks together implement the abstract handover: run_outgoing    *)
(* and handle_incoming agree on the outcome whatever the connection loses. *)
THEOREM RefinesHandover == Spec => ImplementsHandover
BY InitHandover, StepHandover, Invariant, PTL DEF Spec, H!Spec, ImplementsHandover
=============================================================================
