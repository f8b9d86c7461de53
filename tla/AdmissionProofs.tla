-------------------------- MODULE AdmissionProofs --------------------------
(***************************************************************************)
(* Theorems about Admission for any sets of tasks and probes.  The runs    *)
(* check the same properties for a few tasks.                              *)
(***************************************************************************)
EXTENDS Admission, FiniteSetTheorems, TLAPS

(* Opening or closing one of the semaphore's permits keeps the count.      *)
LEMMA PermitCount ==
    ASSUME NEW S, IsFiniteSet(S), NEW t
    PROVE  /\ IsFiniteSet(S \cup {t}) /\ IsFiniteSet(S \ {t})
           /\ Cardinality(S) \in Nat
           /\ Cardinality(S \ {t}) <= Cardinality(S)
           /\ Cardinality(S \cup {t}) <= Cardinality(S) + 1
<1>1. IsFiniteSet(S \cup {t}) /\ Cardinality(S \cup {t}) \in
        {Cardinality(S), Cardinality(S) + 1}
  BY FS_AddElement
<1>2. IsFiniteSet(S \ {t}) /\ Cardinality(S \ {t}) \in
        {Cardinality(S), Cardinality(S) - 1}
  BY FS_RemoveElement
<1>3. Cardinality(S) \in Nat
  BY FS_CardinalityType
<1> QED BY <1>1, <1>2, <1>3

(* The part of the type invariant that counts.                             *)
PermitsOK == /\ permits \subseteq Ins /\ IsFiniteSet(permits)
             /\ Cardinality(permits) <= MaxConnections

(* A freed permit keeps the count within its bound.                      *)
LEMMA PermitsMayClose ==
    ASSUME PermitsOK, NEW t, permits' \in {permits, permits \ {t}}
    PROVE  PermitsOK'
<1>1. CASE permits' = permits
  BY <1>1 DEF PermitsOK
<1>2. CASE permits' = permits \ {t}
  <2>1. /\ IsFiniteSet(permits \ {t}) /\ Cardinality(permits) \in Nat
        /\ Cardinality(permits \ {t}) <= Cardinality(permits)
        /\ Cardinality(permits \ {t}) \in Nat
    BY PermitCount, FS_CardinalityType DEF PermitsOK
  <2> QED BY <1>2, <2>1, ConnectionsAssumption DEF PermitsOK
<1> QED BY <1>1, <1>2

(* A permit taken while one is free keeps the count within its bound.    *)
LEMMA PermitsMayOpen ==
    ASSUME PermitsOK, PermitFree, NEW t \in Ins, permits' = permits \cup {t}
    PROVE  PermitsOK'
<1>1. /\ IsFiniteSet(permits \cup {t}) /\ Cardinality(permits) \in Nat
      /\ Cardinality(permits \cup {t}) <= Cardinality(permits) + 1
      /\ Cardinality(permits \cup {t}) \in Nat
  BY PermitCount, FS_CardinalityType DEF PermitsOK
<1> QED BY <1>1, ConnectionsAssumption DEF PermitsOK, PermitFree

(* The initial state is typed.                                           *)
LEMMA TypeInit == Init => TypeOK
<1> SUFFICES ASSUME Init PROVE TypeOK
  OBVIOUS
<1> USE DEF Init
<1>1. IsFiniteSet(permits) /\ Cardinality(permits) = 0
  BY FS_EmptySet
<1>2. permits \subseteq Ins /\ Cardinality(permits) <= MaxConnections
  BY <1>1, ConnectionsAssumption
<1> QED BY <1>1, <1>2 DEF TypeOK, Points

(* A step that leaves the permits alone is typed by its own assignments.   *)
LEMMA TypeTask ==
    ASSUME TypeOK, NEW t \in Tasks, TaskStep(t)
    PROVE  TypeOK'
<1> USE DEF TypeOK, Points, registry, channels, sessions, Goto
<1>0. PermitsOK
  BY DEF PermitsOK
<1>1. CASE TakeGuard(t)
  <2>1. PermitsOK'
    BY <1>0, <1>1, PermitsMayClose DEF TakeGuard
  <2> QED BY <1>1, <2>1 DEF TakeGuard, PermitsOK
<1>2. CASE Identify(t)
  BY <1>2 DEF Identify
<1>3. CASE Check(t)
  BY <1>3 DEF Check, Refused
<1>4. CASE Admit(t)
  BY <1>4 DEF Admit, Refused
<1>5. CASE Register(t)
  BY <1>5 DEF Register
<1>6. CASE Prepare(t)
  BY <1>6 DEF Prepare
<1>7. CASE AskTrust(t)
  BY <1>7 DEF AskTrust, Trusted, Failed
<1>8. CASE AwaitTrust(t)
  BY <1>8 DEF AwaitTrust, LeaveTrust, Trusted, Failed
<1>9. CASE Offer(t)
  BY <1>9 DEF Offer
<1>10. CASE AwaitUser(t)
  BY <1>10 DEF AwaitUser, LeaveUser
<1>11. CASE Work(t)
  BY <1>11 DEF Work
<1>12. CASE Release(t)
  BY <1>12 DEF Release, SlotAfter, AfterRelease
<1>13. CASE Clear(t)
  BY <1>13 DEF Clear
<1>14. CASE Leave(t)
  <2>1. PermitsOK'
    BY <1>0, <1>14, PermitsMayClose DEF Leave
  <2> QED BY <1>14, <2>1 DEF Leave, PermitsOK
<1> QED BY <1>1, <1>2, <1>3, <1>4, <1>5, <1>6, <1>7, <1>8, <1>9, <1>10,
           <1>11, <1>12, <1>13, <1>14 DEF TaskStep

(* Arrivals, users and the ends of tasks keep every variable in its type.*)
LEMMA TypeOutside ==
    ASSUME TypeOK, NEW t \in Tasks, Outside(t)
    PROVE  TypeOK'
<1> USE DEF TypeOK, Points, registry, channels, sessions, Goto
<1>0. PermitsOK
  BY DEF PermitsOK
<1>1. CASE Send(t)
  BY <1>1 DEF Send
<1>2. CASE Accept(t)
  <2>1. CASE PermitFree /\ permits' = permits \cup {t}
    <3>1. PermitsOK'
      BY <1>0, <1>2, <2>1, PermitsMayOpen DEF Accept
    <3> QED BY <1>2, <3>1 DEF Accept, PermitsOK
  <2>2. CASE UNCHANGED permits
    BY <1>2, <2>2 DEF Accept
  <2> QED BY <1>2, <2>1, <2>2 DEF Accept
<1>3. CASE TrustTimeout(t)
  BY <1>3 DEF TrustTimeout, LeaveTrust, Failed
<1>4. CASE RequestEnds(t)
  BY <1>4 DEF RequestEnds, LeaveUser
<1>5. CASE CancelTransfer(t)
  BY <1>5 DEF CancelTransfer
<1>6. ASSUME NEW a \in {"yes", "no"}, ResolveRequest(t, a)
      PROVE  TypeOK'
  BY <1>6 DEF ResolveRequest, Remaining
<1>7. ASSUME NEW a \in {"yes", "no"}, ResolveTrust(t, a)
      PROVE  TypeOK'
  BY <1>7 DEF ResolveTrust, Remaining
<1> QED BY <1>1, <1>2, <1>3, <1>4, <1>5, <1>6, <1>7 DEF Outside

(* Every step keeps every variable in its type.                          *)
LEMMA TypeStep == TypeOK /\ [Next]_vars => TypeOK'
<1> SUFFICES ASSUME TypeOK, [Next]_vars PROVE TypeOK'
  OBVIOUS
<1>1. CASE \E t \in Tasks : TaskStep(t) \/ Outside(t)
  BY <1>1, TypeTask, TypeOutside
<1>2. ASSUME NEW p \in Probes, Probe(p) PROVE TypeOK'
  BY <1>2 DEF Probe, TypeOK, registry, channels
<1>3. CASE BeginInstall \/ EndInstall \/ BeginShutdown
  BY <1>3 DEF BeginInstall, EndInstall, BeginShutdown, TypeOK,
              registry, channels, sessions
<1>4. CASE ShutdownStep
  BY <1>4 DEF ShutdownStep, TakeTokens, TakeRequests, TakeTrust, ClearSlot,
              Deny, TypeOK, registry, channels, sessions
<1>5. CASE UNCHANGED vars
  BY <1>5 DEF vars, TypeOK, registry, channels, sessions
<1> QED BY <1>1, <1>2, <1>3, <1>4, <1>5 DEF Next

(* For any number of tasks and permits, the state stays well typed and at  *)
(* most MaxConnections handlers hold a permit.                             *)
THEOREM TypeCorrect == Spec => []TypeOK
<1> QED BY TypeInit, TypeStep, PTL DEF Spec

-----------------------------------------------------------------------------
(* The slot.                                                               *)

(* The slot, the tasks in it and the installation flag only move together. *)
SlotInv ==
    /\ SlotMatchesTask
    /\ OneTransfer
    /\ IdleAfterShutdown
    /\ InstallExcludesSessions
    /\ shutdown <=> quitting # "no"

(* No task step but Admit and Release moves a task into or out of the      *)
(* slot, and none takes a guard during an installation.                    *)
SlotIdle == /\ UNCHANGED <<active, installing, shutdown, quitting>>
            /\ \A u \in Tasks : InSlot(u)' <=> InSlot(u)
            /\ installing => guards' \subseteq guards

(* A step that leaves the slot, the gate and the tasks' hold on them alone*)
(* keeps the slot invariant.                                             *)
LEMMA SlotIdleKeepsSlotInv == SlotInv /\ SlotIdle => SlotInv'
BY DEF SlotInv, SlotIdle, SlotMatchesTask, OneTransfer, IdleAfterShutdown,
       InstallExcludesSessions

(* All steps of tasks and users but those that enter or leave the slot or*)
(* the gate leave them alone.                                            *)
LEMMA OtherTaskSteps ==
    ASSUME TypeOK, NEW t \in Tasks, TaskStep(t) \/ Outside(t),
           ~Admit(t), ~Release(t)
    PROVE  SlotIdle
<1> USE TasksAssumption DEF SlotIdle, InSlot, TypeOK, Points, Goto, Tasks,
                            registry, channels, sessions
<1>1. CASE TakeGuard(t)
  BY <1>1 DEF TakeGuard, ActivityAllowed
<1>2. CASE Identify(t)
  BY <1>2 DEF Identify
<1>3. CASE Check(t)
  BY <1>3 DEF Check, Refused
<1>4. CASE Register(t)
  BY <1>4 DEF Register
<1>5. CASE Prepare(t)
  BY <1>5 DEF Prepare
<1>6. CASE AskTrust(t)
  BY <1>6 DEF AskTrust, Trusted, Failed
<1>7. CASE AwaitTrust(t)
  BY <1>7 DEF AwaitTrust, LeaveTrust, Trusted, Failed
<1>8. CASE Offer(t)
  BY <1>8 DEF Offer
<1>9. CASE AwaitUser(t)
  BY <1>9 DEF AwaitUser, LeaveUser
<1>10. CASE Work(t)
  BY <1>10 DEF Work
<1>11. CASE Clear(t)
  BY <1>11 DEF Clear
<1>12. CASE Leave(t)
  BY <1>12 DEF Leave
<1>13. CASE Send(t)
  BY <1>13 DEF Send
<1>14. CASE Accept(t)
  BY <1>14 DEF Accept
<1>15. CASE TrustTimeout(t)
  BY <1>15 DEF TrustTimeout, LeaveTrust, Failed
<1>16. CASE RequestEnds(t)
  BY <1>16 DEF RequestEnds, LeaveUser
<1>17. CASE CancelTransfer(t)
  BY <1>17 DEF CancelTransfer
<1>18. ASSUME NEW a \in {"yes", "no"}, ResolveRequest(t, a)
       PROVE  SlotIdle
  BY <1>18 DEF ResolveRequest, Remaining
<1>19. ASSUME NEW a \in {"yes", "no"}, ResolveTrust(t, a)
       PROVE  SlotIdle
  BY <1>19 DEF ResolveTrust, Remaining
<1> QED BY <1>1, <1>2, <1>3, <1>4, <1>5, <1>6, <1>7, <1>8, <1>9, <1>10,
           <1>11, <1>12, <1>13, <1>14, <1>15, <1>16, <1>17, <1>18, <1>19
           DEF TaskStep, Outside

(* Every step keeps the slot invariant.                                  *)
LEMMA SlotStep == TypeOK /\ SlotInv /\ [Next]_vars => SlotInv'
<1> SUFFICES ASSUME TypeOK, SlotInv, [Next]_vars PROVE SlotInv'
  OBVIOUS
<1>1. ASSUME NEW t \in Tasks, Admit(t) PROVE SlotInv'
  <2>1. CASE SlotFree /\ active' = t /\ Goto(t, "register")
    <3>1. quitting # "done" /\ \A u \in Tasks : ~InSlot(u)
      BY <2>1, TasksAssumption DEF SlotFree, SlotInv, SlotMatchesTask
    <3>2. \A u \in Tasks : InSlot(u)' <=> u = t
      BY <3>1, <2>1 DEF Goto, InSlot, TypeOK
    <3> QED BY <1>1, <2>1, <3>1, <3>2 DEF Admit, SlotFree, SlotInv,
              SlotMatchesTask, OneTransfer, IdleAfterShutdown,
              InstallExcludesSessions, sessions
  <2>2. CASE ~SlotFree /\ Goto(t, Refused(t)) /\ UNCHANGED active
    <3>1. SlotIdle
      BY <1>1, <2>2 DEF Admit, Goto, Refused, InSlot, SlotIdle, TypeOK,
                        sessions
    <3> QED BY <3>1, SlotIdleKeepsSlotInv
  <2> QED BY <1>1, <2>1, <2>2 DEF Admit
<1>2. ASSUME NEW t \in Tasks, Release(t) PROVE SlotInv'
  <2>1. \A u \in Tasks : InSlot(u)' <=> InSlot(u) /\ u # t
    BY <1>2 DEF Release, AfterRelease, Goto, InSlot, TypeOK
  <2>2. InSlot(t)
    BY <1>2 DEF Release, InSlot
  <2> QED BY <1>2, <2>1, <2>2, TasksAssumption DEF Release, SlotAfter,
            SlotInv, SlotMatchesTask, OneTransfer, IdleAfterShutdown,
            InstallExcludesSessions, sessions
<1>3. ASSUME NEW t \in Tasks, TaskStep(t) \/ Outside(t),
             ~Admit(t), ~Release(t)
      PROVE  SlotInv'
  BY <1>3, OtherTaskSteps, SlotIdleKeepsSlotInv
<1>4. ASSUME NEW p \in Probes, Probe(p) PROVE SlotInv'
  <2>1. SlotIdle
    BY <1>4 DEF Probe, ActivityAllowed, SlotIdle, InSlot
  <2> QED BY <2>1, SlotIdleKeepsSlotInv
<1>5. CASE BeginInstall
  BY <1>5, TasksAssumption DEF BeginInstall, SlotInv, SlotMatchesTask,
     OneTransfer, IdleAfterShutdown, InstallExcludesSessions, InSlot, sessions
<1>6. CASE EndInstall \/ BeginShutdown
  BY <1>6 DEF EndInstall, BeginShutdown, SlotInv, SlotMatchesTask,
     OneTransfer, IdleAfterShutdown, InstallExcludesSessions, InSlot, sessions
<1>7. CASE ShutdownStep
  BY <1>7 DEF ShutdownStep, TakeTokens, TakeRequests, TakeTrust, ClearSlot,
     SlotInv, SlotMatchesTask, OneTransfer, IdleAfterShutdown,
     InstallExcludesSessions, InSlot, sessions
<1>8. CASE UNCHANGED vars
  BY <1>8 DEF vars, SlotInv, SlotMatchesTask, OneTransfer,
     IdleAfterShutdown, InstallExcludesSessions, InSlot, sessions
<1> QED BY <1>1, <1>2, <1>3, <1>4, <1>5, <1>6, <1>7, <1>8 DEF Next

(* The slot invariant holds at the start.                                *)
LEMMA SlotInit == Init => SlotInv
BY TasksAssumption DEF Init, SlotInv, SlotMatchesTask, OneTransfer,
   IdleAfterShutdown, InstallExcludesSessions, InSlot

(* The slot invariant always holds.                                      *)
LEMMA SlotCorrect == Spec => [](TypeOK /\ SlotInv)
<1> QED BY TypeInit, TypeStep, SlotInit, SlotStep, PTL DEF Spec

(* At most one task at a time runs a transfer, however many are started    *)
(* and received at once, and also while shutdown() empties the slot.       *)
THEOREM OneTransferAtATime == Spec => []OneTransfer
<1>1. SlotInv => OneTransfer
  BY DEF SlotInv
<1> QED BY <1>1, SlotCorrect, PTL

(* The updater never installs while a transfer runs or a secure session is *)
(* being set up.                                                           *)
THEOREM InstallIsExclusive == Spec => []InstallExcludesSessions
<1>1. SlotInv => InstallExcludesSessions
  BY DEF SlotInv
<1> QED BY <1>1, SlotCorrect, PTL

(* The slot names the running task until shutdown() empties it, and stays  *)
(* empty afterwards.                                                       *)
THEOREM SlotIsFaithful == Spec => [](SlotMatchesTask /\ IdleAfterShutdown)
<1>1. SlotInv => SlotMatchesTask /\ IdleAfterShutdown
  BY DEF SlotInv
<1> QED BY <1>1, SlotCorrect, PTL

-----------------------------------------------------------------------------
(* The requests that wait for the user.                                    *)

(* Not yet at the trust check, or not yet at the offer.                    *)
BeforeTrust(t) ==
    \/ pc[t] \in {"idle", "guard", "handshake", "trust"}
    \/ t \in Outs /\ pc[t] \in {"check", "admit", "register", "prepare"}
BeforeOffer(t) ==
    pc[t] \in {"idle", "guard", "handshake", "check", "admit", "register",
               "prepare", "trust", "awaitTrust", "offer"}

(* A request is answered at most once and only after it was made.          *)
WaitInv ==
    /\ WaitersAreReachable
    /\ \A t \in Tasks : /\ BeforeTrust(t) => trustAnswer[t] = "none"
                        /\ BeforeOffer(t) => answer[t] = "none"

(* The steps of tasks keep every waiting prompt answerable.              *)
LEMMA WaitTask ==
    ASSUME TypeOK, WaitInv, NEW t \in Tasks, TaskStep(t) \/ Outside(t)
    PROVE  WaitInv'
<1> USE TasksAssumption DEF WaitInv, WaitersAreReachable, BeforeTrust,
        BeforeOffer, TypeOK, Points, Goto, Tasks, registry, channels
<1>1. CASE TakeGuard(t)
  BY <1>1 DEF TakeGuard
<1>2. CASE Identify(t)
  BY <1>2 DEF Identify
<1>3. CASE Check(t)
  BY <1>3 DEF Check, Refused
<1>4. CASE Admit(t)
  BY <1>4 DEF Admit, Refused
<1>5. CASE Register(t)
  BY <1>5 DEF Register
<1>6. CASE Prepare(t)
  BY <1>6 DEF Prepare
<1>7. CASE AskTrust(t)
  BY <1>7 DEF AskTrust, Trusted, Failed
<1>8. CASE AwaitTrust(t)
  BY <1>8 DEF AwaitTrust, LeaveTrust, Trusted, Failed
<1>9. CASE Offer(t)
  BY <1>9 DEF Offer
<1>10. CASE AwaitUser(t)
  BY <1>10 DEF AwaitUser, LeaveUser
<1>11. CASE Work(t)
  BY <1>11 DEF Work
<1>12. CASE Release(t)
  BY <1>12 DEF Release, AfterRelease
<1>13. CASE Clear(t)
  BY <1>13 DEF Clear
<1>14. CASE Leave(t)
  BY <1>14 DEF Leave
<1>15. CASE Send(t)
  BY <1>15 DEF Send
<1>16. CASE Accept(t)
  BY <1>16 DEF Accept
<1>17. CASE TrustTimeout(t)
  BY <1>17 DEF TrustTimeout, LeaveTrust, Failed
<1>18. CASE RequestEnds(t)
  BY <1>18 DEF RequestEnds, LeaveUser
<1>19. CASE CancelTransfer(t)
  BY <1>19 DEF CancelTransfer
<1>20. ASSUME NEW a \in {"yes", "no"}, ResolveRequest(t, a)
       PROVE  WaitInv'
  BY <1>20 DEF ResolveRequest, Remaining
<1>21. ASSUME NEW a \in {"yes", "no"}, ResolveTrust(t, a)
       PROVE  WaitInv'
  BY <1>21 DEF ResolveTrust, Remaining
<1> QED BY <1>1, <1>2, <1>3, <1>4, <1>5, <1>6, <1>7, <1>8, <1>9, <1>10,
           <1>11, <1>12, <1>13, <1>14, <1>15, <1>16, <1>17, <1>18, <1>19,
           <1>20, <1>21
           DEF TaskStep, Outside

(* Every step keeps every waiting prompt answerable.                     *)
LEMMA WaitStep == TypeOK /\ WaitInv /\ [Next]_vars => WaitInv'
<1> SUFFICES ASSUME TypeOK, WaitInv, [Next]_vars PROVE WaitInv'
  OBVIOUS
<1> USE DEF WaitInv, WaitersAreReachable, BeforeTrust, BeforeOffer,
            registry, channels
<1>1. CASE \E t \in Tasks : TaskStep(t) \/ Outside(t)
  BY <1>1, WaitTask
<1>2. ASSUME NEW p \in Probes, Probe(p) PROVE WaitInv'
  BY <1>2 DEF Probe
<1>3. CASE BeginInstall \/ EndInstall \/ BeginShutdown
  BY <1>3 DEF BeginInstall, EndInstall, BeginShutdown
<1>4. CASE TakeTokens \/ ClearSlot
  BY <1>4 DEF TakeTokens, ClearSlot
<1>5. CASE TakeRequests
  BY <1>5 DEF TakeRequests, Deny, TypeOK
<1>6. CASE TakeTrust
  BY <1>6 DEF TakeTrust, Deny, TypeOK
<1>7. CASE UNCHANGED vars
  BY <1>7 DEF vars
<1> QED BY <1>1, <1>2, <1>3, <1>4, <1>5, <1>6, <1>7 DEF Next, ShutdownStep

(* Nobody waits at the start.                                            *)
LEMMA WaitInit == Init => WaitInv
BY DEF Init, WaitInv, WaitersAreReachable, BeforeTrust, BeforeOffer

(* The invariant of waiting prompts always holds.                        *)
LEMMA WaitCorrect == Spec => [](TypeOK /\ WaitInv)
<1> QED BY TypeInit, TypeStep, WaitInit, WaitStep, PTL DEF Spec

(* A task that waits for the user can always be answered, and no request   *)
(* outlives the task that made it.                                         *)
THEOREM WaitersReachable == Spec => []WaitersAreReachable
<1>1. WaitInv => WaitersAreReachable
  BY DEF WaitInv
<1> QED BY <1>1, WaitCorrect, PTL

(* No step lets two trust prompts be open at once.                       *)
LEMMA TrustPromptStep ==
    TypeOK /\ TrustPromptsOneAtATime /\ [Next]_vars => TrustPromptsOneAtATime'
<1> SUFFICES ASSUME TypeOK, TrustPromptsOneAtATime, [Next]_vars
             PROVE  TrustPromptsOneAtATime'
  OBVIOUS
<1>1. ASSUME NEW t \in Tasks, AskTrust(t) PROVE TrustPromptsOneAtATime'
  BY <1>1 DEF AskTrust, TrustPromptFree, TrustPromptsOneAtATime
<1>2. ASSUME NEW t \in Tasks, TaskStep(t) \/ Outside(t), ~AskTrust(t)
      PROVE  pendingTrust' \subseteq pendingTrust
  BY <1>2 DEF TaskStep, Outside, TakeGuard, Identify, Check, Admit, Register,
     Prepare, AwaitTrust, TrustTimeout, LeaveTrust, Offer, AwaitUser,
     RequestEnds, LeaveUser, Work, Release, Clear, Leave, Send, Accept,
     CancelTransfer, ResolveRequest, ResolveTrust, Remaining, registry
<1>3. CASE \E t \in Tasks : TaskStep(t) \/ Outside(t)
  BY <1>1, <1>2, <1>3 DEF TrustPromptsOneAtATime
<1>4. CASE ~\E t \in Tasks : TaskStep(t) \/ Outside(t)
  <2>1. pendingTrust' \subseteq pendingTrust
    BY <1>4 DEF Next, vars, Probe, BeginInstall, EndInstall, BeginShutdown,
       ShutdownStep, TakeTokens, TakeRequests, TakeTrust, ClearSlot, registry
  <2> QED BY <2>1 DEF TrustPromptsOneAtATime
<1> QED BY <1>3, <1>4

(* The user is never asked to trust two devices at once.                   *)
THEOREM OneTrustPrompt == Spec => []TrustPromptsOneAtATime
<1>1. Init => TrustPromptsOneAtATime
  BY DEF Init, TrustPromptsOneAtATime
<1> QED BY <1>1, TypeCorrect, TrustPromptStep, PTL DEF Spec

(* No step changes an answer a user gave.                                *)
LEMMA AnswerStep ==
    ASSUME TypeOK, WaitInv, [Next]_vars, NEW t \in Tasks
    PROVE  /\ answer[t] # "none" => answer'[t] = answer[t]
           /\ trustAnswer[t] # "none" => trustAnswer'[t] = trustAnswer[t]
<1> DEFINE Stands ==
        /\ answer[t] # "none" => answer'[t] = answer[t]
        /\ trustAnswer[t] # "none" => trustAnswer'[t] = trustAnswer[t]
<1>1. ASSUME NEW u \in Tasks, NEW a \in {"yes", "no"},
             ResolveRequest(u, a) \/ ResolveTrust(u, a)
      PROVE  Stands
  BY <1>1 DEF ResolveRequest, ResolveTrust, WaitInv, WaitersAreReachable,
              TypeOK
<1>2. CASE TakeRequests \/ TakeTrust
  BY <1>2 DEF TakeRequests, TakeTrust, Deny, WaitInv, WaitersAreReachable
<1>3. CASE UNCHANGED channels
  BY <1>3 DEF channels
<1>4. ASSUME NEW u \in Tasks, TaskStep(u) \/ Outside(u),
             ~\E a \in {"yes", "no"} :
                 ResolveRequest(u, a) \/ ResolveTrust(u, a)
      PROVE  UNCHANGED channels
  BY <1>4 DEF TaskStep, Outside, TakeGuard, Identify, Check, Admit, Register,
     Prepare, AskTrust, AwaitTrust, TrustTimeout, LeaveTrust, Offer,
     AwaitUser, RequestEnds, LeaveUser, Work, Release, Clear, Leave, Send,
     Accept, CancelTransfer
<1>5. CASE (\E p \in Probes : Probe(p)) \/ BeginInstall \/ EndInstall
           \/ BeginShutdown \/ TakeTokens \/ ClearSlot \/ UNCHANGED vars
  BY <1>3, <1>5 DEF Probe, BeginInstall, EndInstall, BeginShutdown,
     TakeTokens, ClearSlot, vars
<1> QED BY <1>1, <1>2, <1>3, <1>4, <1>5 DEF Next, ShutdownStep

(* The user's first answer stands: neither a second command nor shutdown() *)
(* turns it into another.                                                  *)
THEOREM AnswersStand == Spec => AnswerStands
<1>1. TypeOK /\ WaitInv /\ [Next]_vars =>
        [\A t \in Tasks :
            /\ answer[t] # "none" => answer'[t] = answer[t]
            /\ trustAnswer[t] # "none" => trustAnswer'[t] = trustAnswer[t]]_vars
  BY AnswerStep
<1> QED BY <1>1, WaitCorrect, PTL DEF Spec, AnswerStands

-----------------------------------------------------------------------------
(* What a finished task leaves behind.                                     *)

(* Who may still hold which resource, by control point.                    *)
HoldInv ==
    \A t \in Tasks :
        /\ t \in cancellations => InSlot(t) \/ pc[t] = "clear"
        /\ t \in guards => pc[t] \notin {"idle", "guard", "done"}
        /\ t \in permits => pc[t] \notin {"idle", "done"}

(* The steps of tasks and users keep resources at the points that may hold*)
(* them.                                                                 *)
LEMMA HoldTask ==
    ASSUME TypeOK, HoldInv, NEW t \in Tasks, TaskStep(t) \/ Outside(t)
    PROVE  HoldInv'
<1> USE TasksAssumption DEF HoldInv, InSlot, TypeOK, Points, Goto, Tasks,
                            registry, channels, sessions
<1>1. CASE TakeGuard(t)
  BY <1>1 DEF TakeGuard
<1>2. CASE Identify(t)
  BY <1>2 DEF Identify
<1>3. CASE Check(t)
  BY <1>3 DEF Check, Refused
<1>4. CASE Admit(t)
  BY <1>4 DEF Admit, Refused
<1>5. CASE Register(t)
  BY <1>5 DEF Register
<1>6. CASE Prepare(t)
  BY <1>6 DEF Prepare
<1>7. CASE AskTrust(t)
  BY <1>7 DEF AskTrust, Trusted, Failed
<1>8. CASE AwaitTrust(t)
  BY <1>8 DEF AwaitTrust, LeaveTrust, Trusted, Failed
<1>9. CASE Offer(t)
  BY <1>9 DEF Offer
<1>10. CASE AwaitUser(t)
  BY <1>10 DEF AwaitUser, LeaveUser
<1>11. CASE Work(t)
  BY <1>11 DEF Work
<1>12. CASE Release(t)
  BY <1>12 DEF Release, AfterRelease
<1>13. CASE Clear(t)
  BY <1>13 DEF Clear
<1>14. CASE Leave(t)
  BY <1>14 DEF Leave
<1>15. CASE Send(t)
  BY <1>15 DEF Send
<1>16. CASE Accept(t)
  BY <1>16 DEF Accept
<1>17. CASE TrustTimeout(t)
  BY <1>17 DEF TrustTimeout, LeaveTrust, Failed
<1>18. CASE RequestEnds(t)
  BY <1>18 DEF RequestEnds, LeaveUser
<1>19. CASE CancelTransfer(t)
  BY <1>19 DEF CancelTransfer
<1>20. ASSUME NEW a \in {"yes", "no"}, ResolveRequest(t, a)
       PROVE  HoldInv'
  BY <1>20 DEF ResolveRequest, Remaining
<1>21. ASSUME NEW a \in {"yes", "no"}, ResolveTrust(t, a)
       PROVE  HoldInv'
  BY <1>21 DEF ResolveTrust, Remaining
<1> QED BY <1>1, <1>2, <1>3, <1>4, <1>5, <1>6, <1>7, <1>8, <1>9, <1>10,
           <1>11, <1>12, <1>13, <1>14, <1>15, <1>16, <1>17, <1>18, <1>19,
           <1>20, <1>21
           DEF TaskStep, Outside

(* Every step keeps resources at the points that may hold them.          *)
LEMMA HoldStep == TypeOK /\ HoldInv /\ [Next]_vars => HoldInv'
<1> SUFFICES ASSUME TypeOK, HoldInv, [Next]_vars PROVE HoldInv'
  OBVIOUS
<1> USE TasksAssumption DEF HoldInv, InSlot, registry, channels, sessions
<1>1. CASE \E t \in Tasks : TaskStep(t) \/ Outside(t)
  BY <1>1, HoldTask
<1>2. ASSUME NEW p \in Probes, Probe(p) PROVE HoldInv'
  BY <1>2 DEF Probe
<1>3. CASE BeginInstall \/ EndInstall \/ BeginShutdown
  BY <1>3 DEF BeginInstall, EndInstall, BeginShutdown
<1>4. CASE ShutdownStep
  BY <1>4 DEF ShutdownStep, TakeTokens, TakeRequests, TakeTrust, ClearSlot
<1>5. CASE UNCHANGED vars
  BY <1>5 DEF vars
<1> QED BY <1>1, <1>2, <1>3, <1>4, <1>5 DEF Next

(* Nothing is held at the start.                                         *)
LEMMA HoldInit == Init => HoldInv
BY DEF Init, HoldInv

(* A finished task has left nothing in the shared state, not even when     *)
(* shutdown() took the slot from it.                                       *)
THEOREM NothingIsLeftBehind == Spec => []NothingLeftBehind
<1>1. SlotInv /\ HoldInv => NothingLeftBehind
  BY TasksAssumption DEF SlotInv, SlotMatchesTask, IdleAfterShutdown, HoldInv,
     NothingLeftBehind, InSlot
<1> QED BY <1>1, HoldInit, HoldStep, TypeInit, TypeStep, SlotCorrect, PTL
        DEF Spec
=============================================================================
