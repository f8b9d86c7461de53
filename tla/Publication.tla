---------------------------- MODULE Publication -----------------------------
(***************************************************************************)
(* How a received batch gets its names (src-tauri/src/transfer_files.rs,   *)
(* the finalization loop of transfer.rs and the no-replace move of         *)
(* platform.rs) while other programs use the folder.  Session abstracts    *)
(* all of this to one published set; here every name is chosen, checked    *)
(* and moved in its own step.                                              *)
(*                                                                         *)
(* A name is a model value, Candidates lists the names that a suffix makes *)
(* of one, Lower folds case and Unicode form.  What the code takes for     *)
(* the same name (fold) and what the folder does (folds) may differ.       *)
(***************************************************************************)
EXTENDS Integers, Sequences, FiniteSets

CONSTANTS
    Batch,          \* the names a batch may announce, as a set of sequences
    Candidates,     \* announced name -> its collision names, in order
    Lower,          \* name -> its folded form
    MaxCreated,     \* bound on the files other programs create
    Nothing         \* no file

Names == DOMAIN Lower
Outside == [by : {"outside"}, n : 1..MaxCreated]
Part(i) == [by |-> "batch", n |-> i]

ASSUME NamesAssumption ==
    /\ Lower \in [Names -> Names] /\ MaxCreated \in Nat
    /\ Batch \subseteq Seq(DOMAIN Candidates)
    /\ \A c \in DOMAIN Candidates : Candidates[c] \in Seq(Names)
    /\ Nothing \notin [by : {"outside", "batch"}, n : Nat]

VARIABLES
    fold,       \* path_key folds names (default_case_insensitive_filesystem)
    folds,      \* the folder itself does
    batch,      \* announced names
    folder,     \* place -> file, Nothing if there is none
    parts,      \* batch files whose .part file exists
    final,      \* StagedFile.final_path of each staged file
    used,       \* used_names
    finalized,  \* paths a failure would roll back
    pc,         \* receiving, moving, linked, failing, completed, failed
    created,    \* files other programs have created so far
    promised,   \* history: the name each file got when it was staged
    taken,      \* history: places another program's file ever had
    stuck       \* history: some remove_file of ours failed

task == <<batch, parts, final, used, finalized, pc, promised, stuck>>
vars == <<fold, folds, batch, folder, parts, final, used, finalized, pc,
          created, promised, taken, stuck>>

setting == <<fold, folds, batch>>
others == <<created, promised, taken>>
names == <<final, used>>

Files == DOMAIN batch
Place(n) == IF folds THEN Lower[n] ELSE n

(* path_key: names that may collide have one key.                          *)
PathKey(n) == IF fold THEN Lower[n] ELSE n

Init ==
    /\ fold \in BOOLEAN /\ folds \in BOOLEAN /\ batch \in Batch
    /\ folder = [n \in Names |-> Nothing]
    /\ parts = {} /\ final = <<>> /\ used = {} /\ finalized = <<>>
    /\ pc = "receiving" /\ created = 0 /\ promised = <<>> /\ taken = {} /\ stuck = FALSE

-----------------------------------------------------------------------------
(* available_destination_path: the first candidate that is neither in the  *)
(* folder nor promised to a file of this batch; the loop is bounded.       *)
Available(name) ==
    {i \in DOMAIN Candidates[name] :
       /\ folder[Place(Candidates[name][i])] = Nothing
       /\ PathKey(Candidates[name][i]) \notin used}

First(S) == CHOOSE i \in S : \A j \in S : i <= j

(* The next file of the batch is staged under a hidden name; the final one *)
(* is chosen when its FileStart arrives.                                   *)
Stage ==
    /\ pc = "receiving" /\ Len(final) < Len(batch)
    /\ LET name == batch[Len(final) + 1]
       IN \/ /\ Available(name) # {}
             /\ LET chosen == Candidates[name][First(Available(name))]
                IN /\ final' = Append(final, chosen)
                   /\ used' = used \cup {PathKey(chosen)}
             /\ parts' = parts \cup {Len(final) + 1}
             /\ pc' = pc
          \/ /\ Available(name) = {} /\ pc' = "failing"
             /\ UNCHANGED <<names, parts>>
    /\ promised' = final'
    /\ UNCHANGED <<setting, folder, finalized, created, taken, stuck>>

(* The batch is verified; finalization starts from the promised names.     *)
Verify ==
    /\ pc = "receiving" /\ Len(final) = Len(batch)
    /\ pc' = "moving" /\ used' = {PathKey(final[i]) : i \in Files}
    /\ UNCHANGED <<setting, others, folder, parts, final, finalized, stuck>>

(* Cancellation, a lost connection, a full disk.                           *)
Fail ==
    /\ pc \in {"receiving", "moving"} /\ pc' = "failing"
    /\ UNCHANGED <<setting, others, names, folder, parts, finalized, stuck>>

-----------------------------------------------------------------------------
Current == Len(finalized) + 1

BugReplaces(n) == TRUE

(* What both no-replace primitives ask of the destination.                 *)
Free(n) == folder[Place(n)] = Nothing

(* The path that a rollback would remove.                                  *)
Landed == final[Current]

Published == finalized' = Append(finalized, Landed)

(* move_file_without_overwrite: the staged file is moved in one step.      *)
Move ==
    /\ pc = "moving" /\ Current <= Len(batch) /\ Free(final[Current])
    /\ folder' = [folder EXCEPT ![Place(final[Current])] = Part(Current)]
    /\ parts' = parts \ {Current} /\ Published
    /\ UNCHANGED <<setting, others, names, pc, stuck>>

(* Another program's file came first, by either primitive: the next free   *)
(* name is promised and the loop tries again.                              *)
Collide ==
    /\ pc = "moving" /\ Current <= Len(batch) /\ ~Free(final[Current])
    /\ LET name == batch[Current]
       IN \/ /\ Available(name) # {}
             /\ LET chosen == Candidates[name][First(Available(name))]
                IN /\ final' = [final EXCEPT ![Current] = chosen]
                   /\ used' = used \cup {PathKey(chosen)}
             /\ pc' = pc
          \/ /\ Available(name) = {} /\ pc' = "failing" /\ UNCHANGED names
    /\ UNCHANGED <<setting, others, folder, parts, finalized, stuck>>

(* No such primitive here: a hard link, then the staged name goes.         *)
Link ==
    /\ pc = "moving" /\ Current <= Len(batch) /\ Free(final[Current])
    /\ folder' = [folder EXCEPT ![Place(final[Current])] = Part(Current)]
    /\ pc' = "linked"
    /\ UNCHANGED <<setting, others, names, parts, finalized, stuck>>

Unlink ==
    /\ pc = "linked" /\ pc' = "moving"
    /\ parts' = parts \ {Current} /\ Published
    /\ UNCHANGED <<setting, others, names, folder, stuck>>

WithoutLink == [folder EXCEPT ![Place(final[Current])] = Nothing]

(* The staged name cannot be removed: the link goes instead, if it can.    *)
UnlinkFails ==
    /\ pc = "linked" /\ pc' = "failing"
    /\ \/ folder' = WithoutLink /\ stuck' = stuck
       \/ folder' = folder /\ stuck' = TRUE
    /\ UNCHANGED <<setting, others, names, parts, finalized>>

Complete ==
    /\ pc = "moving" /\ Current > Len(batch) /\ pc' = "completed"
    /\ UNCHANGED <<setting, others, names, folder, parts, finalized, stuck>>

-----------------------------------------------------------------------------
(* cleanup_staged: each .part file goes, or cannot be removed three times. *)
CleanUp ==
    /\ pc = "failing" /\ pc' = "rolling_back"
    /\ parts' \in SUBSET parts /\ stuck' = (stuck \/ parts' # {})
    /\ UNCHANGED <<setting, others, names, folder, finalized>>

BugOnlyTheLast == <<>>

Earlier == SubSeq(finalized, 1, Len(finalized) - 1)

(* rollback_finalized: newest first, whatever has that path now.           *)
RollBack ==
    /\ pc = "rolling_back" /\ finalized # <<>>
    /\ \/ /\ folder' = [folder EXCEPT ![Place(finalized[Len(finalized)])] = Nothing]
          /\ stuck' = stuck
       \/ folder' = folder /\ stuck' = TRUE
    /\ finalized' = Earlier
    /\ UNCHANGED <<setting, others, names, parts, pc>>

Failed ==
    /\ pc = "rolling_back" /\ finalized = <<>> /\ pc' = "failed"
    /\ UNCHANGED <<setting, others, names, folder, parts, finalized, stuck>>

Task ==
    \/ Stage \/ Verify \/ Fail \/ Move \/ Collide \/ Link \/ Unlink
    \/ UnlinkFails \/ Complete \/ CleanUp \/ RollBack \/ Failed

(* Another program adds a file at a free name, or removes one of its own.  *)
Create(n) ==
    /\ created < MaxCreated /\ folder[Place(n)] = Nothing
    /\ folder' = [folder EXCEPT ![Place(n)] = [by |-> "outside", n |-> created + 1]]
    /\ created' = created + 1 /\ taken' = taken \cup {Place(n)}
    /\ UNCHANGED <<setting, task>>

Delete(n) ==
    /\ folder[n] \in Outside /\ folder' = [folder EXCEPT ![n] = Nothing]
    /\ UNCHANGED <<setting, task, created, taken>>

Next == Task \/ \E n \in Names : Create(n) \/ Delete(n)

Spec == Init /\ [][Next]_vars

-----------------------------------------------------------------------------
Parts == {Part(i) : i \in Files}

(* "An existing file is never overwritten": no step of a transfer, a       *)
(* failing one included, changes a file of another program.                *)
OthersKeepTheirFiles ==
    [][Task => \A n \in Names : folder[n] \in Outside => folder'[n] = folder[n]]_vars

(* A batch that completed has every file once, under the path it reported, *)
(* and no hidden file; one that failed left nothing but what could not be  *)
(* removed.  No file of it took what another one was promised, as long as  *)
(* path_key folds names wherever the folder does.                          *)
BatchIsWholeOrGone ==
    /\ pc = "completed" =>
         /\ parts = {}
         /\ \A i \in Files : {n \in Names : folder[n] = Part(i)} = {Place(finalized[i])}
    /\ pc = "failed" /\ ~stuck =>
         parts = {} /\ \A n \in Names : folder[n] \notin Parts
    /\ (folds => fold) => \A i \in DOMAIN final :
         final[i] # promised[i] => Place(promised[i]) \in taken
=============================================================================
