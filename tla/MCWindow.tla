------------------------------ MODULE MCWindow ------------------------------
(* The main window and its updater in one run.  Interface reads nothing of *)
(* the updater, and of the window the updater sees transferBusy only,      *)
(* which Updater lets change at any time.  What one does therefore never   *)
(* depends on where the other is, and each is explored while the other     *)
(* rests in its first state.                                               *)
EXTENDS Interface, Updater

CONSTANT MaxActs   \* bound on batches, requests and prompts together

(* A prompt counts twice: it comes with a running and a queued batch, with *)
(* two requests, or with one of each.                                      *)
Acts == dropped + Cardinality(seen) + 2 * Cardinality(asked)

(* The first state with automatic checks off will do: both are the same to *)
(* the window.                                                             *)
InterfaceMoves ==
    /\ Next /\ Acts' <= MaxActs
    /\ UpdaterInit /\ ~automatic /\ UNCHANGED controller

UpdaterMoves == Acts = 0 /\ UpdaterNext /\ UNCHANGED vars

WindowInit == Init /\ UpdaterInit

WindowSpec ==
    /\ WindowInit
    /\ [][InterfaceMoves \/ UpdaterMoves]_<<vars, controller>>
    /\ WF_controller(~exited /\ Checks) /\ WF_controller(~exited /\ Updates)
=============================================================================
