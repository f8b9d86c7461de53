-------------------------- MODULE PublicationProofs -------------------------
(***************************************************************************)
(* Theorems about Publication for every batch, folder, collision suffixes  *)
(* and case rules, and any number of files other programs create.          *)
(*                                                                         *)
(* A rollback removes paths, not files: it asks nobody whose file has the  *)
(* path now.  The inductive invariant says why that is safe: until a path  *)
(* is taken from the list of what was finalized, the file at it is the one *)
(* the batch put there.                                                    *)
(***************************************************************************)
EXTENDS Publication, SequenceTheorems, WellFoundedInduction, TLAPS

TypeOK ==
    /\ fold \in BOOLEAN /\ folds \in BOOLEAN /\ stuck \in BOOLEAN
    /\ batch \in Batch
    /\ folder \in [Names -> {Nothing} \cup Outside \cup Parts]
    /\ parts \subseteq Files
    /\ final \in Seq(Names) /\ finalized \in Seq(Names) /\ promised \in Seq(Names)
    /\ created \in 0..MaxCreated
    /\ pc \in {"receiving", "moving", "linked", "completed", "failing",
               "rolling_back", "failed"}

(* Where the task is in its loops, by what it has on record.               *)
Progress ==
    /\ Len(finalized) <= Len(final) /\ Len(final) <= Len(batch)
    /\ Len(promised) = Len(final)
    /\ pc = "receiving" =>
         promised = final /\ finalized = <<>> /\ parts = DOMAIN final
    /\ pc \in {"moving", "linked", "completed"} =>
         /\ Len(final) = Len(batch)
         /\ parts = {i \in Files : i > Len(finalized)}
    /\ pc \in {"receiving", "moving", "linked", "completed"} => ~stuck
    /\ pc = "linked" => Current <= Len(batch)
    /\ pc = "completed" => Len(finalized) = Len(batch)
    /\ pc \in {"rolling_back", "failed"} /\ ~stuck => parts = {}
    /\ pc = "failed" => finalized = <<>>

(* The files of the batch are where the record of finalized paths has      *)
(* them, and nowhere else unless one could not be removed.                 *)
Linked(i) == pc = "linked" /\ i = Current
Recorded(i) == i \in DOMAIN finalized \/ Linked(i)

PathsAreOurs ==
    /\ \A i \in DOMAIN finalized : finalized[i] = final[i]
    /\ \A i \in Files : Recorded(i) => folder[Place(final[i])] = Part(i)
    /\ ~stuck => \A n \in Names, i \in Files :
         folder[n] = Part(i) => Recorded(i) /\ n = Place(final[i])

(* Names of one batch do not collide under path_key, the first choices     *)
(* included, and a first choice is given up only for another program.      *)
NamesAreApart ==
    /\ \A i \in DOMAIN final : PathKey(final[i]) \in used
    /\ \A i, j \in DOMAIN final :
         PathKey(final[i]) = PathKey(final[j]) => i = j
    /\ \A n \in Names : folder[n] \in Outside => n \in taken
    /\ (folds => fold) => \A i \in DOMAIN final :
         final[i] # promised[i] => Place(promised[i]) \in taken

IInv == TypeOK /\ Progress /\ PathsAreOurs /\ NamesAreApart

-----------------------------------------------------------------------------
(* The operators the model is built from.                                  *)
LEMMA FirstIsIn ==
    ASSUME NEW S \in SUBSET Nat, S # {} PROVE First(S) \in S
<1>1. IsWellFoundedOn(OpToRel(<, Nat), Nat)
  BY NatLessThanWellFounded
<1>2. \E i \in S : \A j \in S : ~(<<j, i>> \in OpToRel(<, Nat))
  BY <1>1, WFMin, Zenon
<1>3. \A i, j \in Nat : ~(<<j, i>> \in OpToRel(<, Nat)) => ~(j < i)
  BY Zenon DEF OpToRel
<1>4. \A i \in S : i \in Nat
  OBVIOUS
<1>5. \E i \in S : \A j \in S : ~(j < i)
  BY <1>2, <1>3, <1>4, Zenon
<1>6. \E i \in S : \A j \in S : i <= j
  BY <1>4, <1>5
<1> QED BY <1>6 DEF First

LEMMA FilesAreTold ==
    /\ \A i, j : Part(i) = Part(j) => i = j
    /\ \A i : Part(i) \notin Outside
    /\ \A i \in Nat : Part(i) # Nothing
    /\ Nothing \notin Outside
<1>1. \A i \in Nat : Part(i) \in [by : {"outside", "batch"}, n : Nat]
  BY DEF Part
<1>2. \A f \in Outside : f \in [by : {"outside", "batch"}, n : Nat]
  BY NamesAssumption DEF Outside
<1> QED BY <1>1, <1>2, NamesAssumption DEF Part, Outside

LEMMA NamesAreNames ==
    ASSUME NEW n \in Names PROVE Place(n) \in Names /\ PathKey(n) \in Names
BY NamesAssumption DEF Place, PathKey, Names

(* Files at one place have one key, where path_key folds what the folder   *)
(* folds.                                                                  *)
LEMMA SamePlaceSameKey ==
    ASSUME NEW m \in Names, NEW n \in Names, folds => fold, Place(m) = Place(n)
    PROVE  PathKey(m) = PathKey(n)
BY DEF Place, PathKey

(* available_destination_path returns a name that nobody has.              *)
LEMMA AvailableIsFree ==
    ASSUME NEW name \in DOMAIN Candidates, Available(name) # {}
    PROVE  LET chosen == Candidates[name][First(Available(name))]
           IN /\ chosen \in Names /\ PathKey(chosen) \notin used
              /\ folder[Place(chosen)] = Nothing
<1>1. Candidates[name] \in Seq(Names)
  BY NamesAssumption
<1>2. Available(name) \subseteq DOMAIN Candidates[name] /\ DOMAIN Candidates[name] \subseteq Nat
  BY <1>1 DEF Available
<1>3. First(Available(name)) \in Available(name)
  BY <1>2, FirstIsIn
<1> QED BY <1>1, <1>2, <1>3 DEF Available

LEMMA BatchIsNames ==
    ASSUME TypeOK
    PROVE  /\ batch \in Seq(DOMAIN Candidates) /\ Len(batch) \in Nat
           /\ Files = 1..Len(batch) /\ DOMAIN final = 1..Len(final)
           /\ DOMAIN finalized = 1..Len(finalized) /\ DOMAIN promised = 1..Len(promised)
           /\ Len(final) \in Nat /\ Len(finalized) \in Nat /\ Len(promised) \in Nat
BY NamesAssumption DEF TypeOK, Files

LEMMA InitIInv == Init => IInv
<1> SUFFICES ASSUME Init PROVE IInv OBVIOUS
<1>1. TypeOK
  <2>1. folder \in [Names -> {Nothing} \cup Outside \cup Parts]
    BY DEF Init
  <2>2. final \in Seq(Names) /\ finalized \in Seq(Names) /\ promised \in Seq(Names)
    BY DEF Init
  <2>3. parts \subseteq Files /\ created \in 0..MaxCreated
    BY NamesAssumption DEF Init
  <2> QED BY <2>1, <2>2, <2>3 DEF Init, TypeOK
<1>2. Progress
  BY <1>1, BatchIsNames DEF Init, Progress, Files
<1>3. \A n \in Names : folder[n] = Nothing
  BY DEF Init
<1>4. PathsAreOurs
  BY <1>1, <1>3, BatchIsNames, FilesAreTold DEF Init, PathsAreOurs, Recorded, Linked
<1>5. NamesAreApart
  BY <1>1, <1>3, BatchIsNames, FilesAreTold DEF Init, NamesAreApart
<1> QED BY <1>1, <1>2, <1>4, <1>5 DEF IInv

-----------------------------------------------------------------------------
(* Receiving.                                                              *)
LEMMA StageKeepsIInv ==
    ASSUME IInv, Stage PROVE IInv'
<1> USE DEF IInv
<1> DEFINE name == batch[Len(final) + 1]
           chosen == Candidates[name][First(Available(name))]
<1>1. /\ pc = "receiving" /\ Len(final) < Len(batch)
      /\ promised = final /\ finalized = <<>> /\ promised' = final'
      /\ UNCHANGED <<fold, folds, batch, folder, finalized, created, taken, stuck>>
  BY DEF Stage, Progress, setting
<1>2. name \in DOMAIN Candidates
  BY <1>1, BatchIsNames
<1>3. Len(finalized) = 0 /\ DOMAIN finalized = {} /\ ~Linked(1) /\ ~stuck
  BY <1>1, BatchIsNames DEF Linked, Progress
<1>4. CASE Available(name) # {} /\ pc' = pc
  <2>1. /\ final' = Append(final, chosen) /\ used' = used \cup {PathKey(chosen)}
        /\ parts' = parts \cup {Len(final) + 1}
    BY <1>4, <1>1 DEF Stage
  <2>2. chosen \in Names /\ PathKey(chosen) \notin used
    BY <1>2, <1>4, AvailableIsFree
  <2>3. final \in Seq(Names)
    BY DEF TypeOK
  <2>4. /\ final' \in Seq(Names) /\ Len(final') = Len(final) + 1
        /\ DOMAIN final' = 1..(Len(final) + 1)
        /\ final'[Len(final) + 1] = chosen
        /\ \A i \in 1..Len(final) : final'[i] = final[i]
    BY <2>1, <2>2, <2>3
  <2> HIDE DEF name, chosen
  <2>5. TypeOK'
    BY <1>1, <1>4, <2>1, <2>4, BatchIsNames DEF TypeOK, Files, Parts
  <2>6. Progress'
    BY <1>1, <1>3, <1>4, <2>1, <2>4, BatchIsNames DEF Progress, Files
  <2>7. PathsAreOurs'
    BY <1>1, <1>3, <1>4, <2>4, BatchIsNames DEF PathsAreOurs, Recorded, Linked, Files, Place
  <2>8. \A n : PathKey(n)' = PathKey(n)
    BY <1>1 DEF PathKey
  <2>9. NamesAreApart'
    BY <1>1, <2>1, <2>2, <2>4, <2>8, BatchIsNames DEF NamesAreApart
  <2> QED BY <2>5, <2>6, <2>7, <2>9
<1>5. CASE Available(name) = {} /\ pc' = "failing" /\ UNCHANGED <<names, parts>>
  <2>1. UNCHANGED <<final, used, parts>>
    BY <1>5 DEF names
  <2> HIDE DEF name
  <2>2. TypeOK'
    BY <1>1, <1>5, <2>1 DEF TypeOK, Files, Parts
  <2>3. Progress'
    BY <1>1, <1>3, <1>5, <2>1, BatchIsNames DEF Progress, Files
  <2>4. PathsAreOurs'
    BY <1>1, <1>3, <1>5, <2>1, BatchIsNames DEF PathsAreOurs, Recorded, Linked, Files, Place
  <2>5. NamesAreApart'
    BY <1>1, <2>1, BatchIsNames DEF NamesAreApart, PathKey, Place
  <2> QED BY <2>2, <2>3, <2>4, <2>5
<1> QED BY <1>4, <1>5, <1>1 DEF Stage

(* A step that only moves the program counter, or what of its own files it *)
(* has left.                                                               *)
LEMMA VerifyKeepsIInv ==
    ASSUME IInv, Verify PROVE IInv'
<1> USE DEF IInv
<1>1. /\ pc = "receiving" /\ pc' = "moving" /\ Len(final) = Len(batch)
      /\ used' = {PathKey(final[i]) : i \in Files}
      /\ UNCHANGED <<fold, folds, batch, folder, parts, final, finalized,
                     created, promised, taken, stuck>>
  BY DEF Verify, setting, others
<1>2. Len(finalized) = 0 /\ parts = DOMAIN final /\ ~stuck
  BY <1>1, BatchIsNames DEF Progress
<1>3. TypeOK'
  BY <1>1 DEF TypeOK, Files, Parts
<1>4. Progress'
  BY <1>1, <1>2, BatchIsNames DEF Progress, Files
<1>5. PathsAreOurs'
  BY <1>1, <1>2, BatchIsNames DEF PathsAreOurs, Recorded, Linked, Files, Place
<1>6. NamesAreApart'
  BY <1>1, <1>2, BatchIsNames DEF NamesAreApart, Files, PathKey, Place
<1> QED BY <1>3, <1>4, <1>5, <1>6

LEMMA EndKeepsIInv ==
    ASSUME IInv, Fail \/ Complete \/ CleanUp \/ Failed PROVE IInv'
<1> USE DEF IInv
<1>1. /\ UNCHANGED <<fold, folds, batch, folder, final, used, finalized,
                     created, promised, taken>>
      /\ parts' \subseteq parts
      /\ stuck => stuck'
  <2>1. UNCHANGED <<setting, others, names, folder, finalized>>
    BY DEF Fail, Complete, CleanUp, Failed
  <2>2. parts' \subseteq parts
    BY DEF Fail, Complete, CleanUp, Failed
  <2>3. stuck => stuck'
    BY DEF Fail, Complete, CleanUp, Failed
  <2> QED BY <2>1, <2>2, <2>3 DEF setting, others, names
<1>2. pc # "linked" /\ pc' # "linked"
  BY DEF Fail, Complete, CleanUp, Failed
<1>3. TypeOK'
  BY <1>1 DEF TypeOK, Files, Parts, Fail, Complete, CleanUp, Failed
<1>4. Progress'
  <2>1. CASE Fail
    BY <1>1, <2>1 DEF Fail, Progress, Files
  <2>2. CASE Complete
    <3>1. /\ pc = "moving" /\ pc' = "completed" /\ UNCHANGED <<parts, stuck>>
          /\ Len(finalized) + 1 > Len(batch)
      BY <2>2 DEF Complete, Current
    <3>2. ~stuck /\ Len(final) = Len(batch) /\ parts = {i \in Files : i > Len(finalized)}
      BY <3>1 DEF Progress
    <3>3. Len(finalized) <= Len(batch) /\ Len(finalized) \in Nat /\ Len(batch) \in Nat
      BY BatchIsNames DEF Progress
    <3>4. Len(finalized) = Len(batch)
      BY <3>1, <3>3
    <3> QED BY <1>1, <3>1, <3>2, <3>4 DEF Progress, Files
  <2>3. CASE CleanUp
    BY <1>1, <2>3 DEF CleanUp, Progress, Files, TypeOK
  <2>4. CASE Failed
    BY <1>1, <2>4 DEF Failed, Progress, Files
  <2> QED BY <2>1, <2>2, <2>3, <2>4
<1>5. PathsAreOurs'
  BY <1>1, <1>2 DEF PathsAreOurs, Recorded, Linked, Files, Place
<1>6. NamesAreApart'
  BY <1>1 DEF NamesAreApart, PathKey, Place
<1> QED BY <1>3, <1>4, <1>5, <1>6

-----------------------------------------------------------------------------
(* Publishing.                                                             *)
LEMMA CurrentIsNext ==
    ASSUME IInv, pc \in {"moving", "linked"}, Current <= Len(batch)
    PROVE  /\ Current \in Files /\ Current \in DOMAIN final
           /\ Current \in Nat /\ Current = Len(finalized) + 1
           /\ Current \notin DOMAIN finalized /\ ~stuck
           /\ final[Current] \in Names /\ Place(final[Current]) \in Names
           /\ PathKey(final[Current]) \in Names
<1>1. /\ Current \in Files /\ Current \in DOMAIN final /\ Current \in Nat
      /\ Current = Len(finalized) + 1 /\ Current \notin DOMAIN finalized /\ ~stuck
  BY BatchIsNames DEF IInv, Progress, Current
<1>2. final[Current] \in Names
  BY <1>1 DEF IInv, TypeOK
<1> QED BY <1>1, <1>2, NamesAreNames

(* A file of the batch comes to its free name: nobody else's changes.      *)
LEMMA LandingKeepsPaths ==
    ASSUME IInv, pc = "moving", Current <= Len(batch), Free(final[Current]),
           folder' = [folder EXCEPT ![Place(final[Current])] = Part(Current)],
           UNCHANGED <<fold, folds, batch, final, promised, taken, created>>
    PROVE  /\ folder' \in [Names -> {Nothing} \cup Outside \cup Parts]
           /\ folder'[Place(final[Current])] = Part(Current)
           /\ \A i \in Files : Recorded(i) => folder'[Place(final[i])] = Part(i)
           /\ \A n \in Names, i \in Files : folder'[n] = Part(i) =>
                \/ i = Current /\ n = Place(final[i])
                \/ Recorded(i) /\ n = Place(final[i])
           /\ \A n \in Names : folder'[n] \in Outside => n \in taken
<1> USE DEF IInv
<1>1. /\ Current \in Files /\ Place(final[Current]) \in Names /\ Current \in Nat /\ ~stuck
  BY CurrentIsNext
<1>2. folder \in [Names -> {Nothing} \cup Outside \cup Parts]
  BY DEF TypeOK
<1>3. Part(Current) \in Parts
  BY <1>1 DEF Parts
<1>4. folder' \in [Names -> {Nothing} \cup Outside \cup Parts]
  BY <1>1, <1>2, <1>3
<1>5. folder'[Place(final[Current])] = Part(Current)
  BY <1>1, <1>2
<1>6. \A n \in Names : n # Place(final[Current]) => folder'[n] = folder[n]
  BY <1>1, <1>2
<1>7. \A i \in Files : i \in Nat
  BY BatchIsNames
<1>8. ASSUME NEW i \in Files, Recorded(i) PROVE folder'[Place(final[i])] = Part(i)
  <2>1. folder[Place(final[i])] = Part(i) /\ Part(i) # Nothing
    BY <1>7, <1>8, FilesAreTold DEF PathsAreOurs
  <2>2. Place(final[i]) # Place(final[Current])
    BY <2>1 DEF Free
  <2>3. i \in DOMAIN final
    BY <1>8, <1>1, BatchIsNames DEF Recorded, Linked, Progress
  <2>4. Place(final[i]) \in Names
    BY <2>3, NamesAreNames DEF TypeOK
  <2> QED BY <2>1, <2>2, <2>4, <1>6
<1>9. ASSUME NEW n \in Names, NEW i \in Files, folder'[n] = Part(i)
      PROVE  \/ i = Current /\ n = Place(final[i])
             \/ Recorded(i) /\ n = Place(final[i])
  <2>1. CASE n = Place(final[Current])
    BY <2>1, <1>5, <1>9, FilesAreTold
  <2>2. CASE n # Place(final[Current])
    BY <2>2, <1>1, <1>6, <1>9 DEF PathsAreOurs
  <2> QED BY <2>1, <2>2
<1>10. \A n \in Names : folder'[n] \in Outside => n \in taken
  BY <1>5, <1>6, FilesAreTold DEF NamesAreApart
<1> QED BY <1>4, <1>5, <1>8, <1>9, <1>10

LEMMA MoveKeepsIInv ==
    ASSUME IInv, Move PROVE IInv'
<1> USE DEF IInv
<1>1. /\ pc = "moving" /\ pc' = "moving" /\ Current <= Len(batch) /\ Free(final[Current])
      /\ folder' = [folder EXCEPT ![Place(final[Current])] = Part(Current)]
      /\ parts' = parts \ {Current}
      /\ finalized' = Append(finalized, final[Current])
      /\ UNCHANGED <<fold, folds, batch, final, used, created, promised, taken, stuck>>
  BY DEF Move, setting, others, names, Published, Landed
<1>2. /\ Current \in Files /\ Current \in DOMAIN final /\ Current \in Nat
      /\ Current = Len(finalized) + 1 /\ final[Current] \in Names /\ ~stuck
      /\ Place(final[Current]) \in Names
  BY <1>1, CurrentIsNext
<1>3. finalized \in Seq(Names)
  BY DEF TypeOK
<1>4. /\ finalized' \in Seq(Names) /\ Len(finalized') = Current
      /\ DOMAIN finalized' = 1..Current
      /\ finalized'[Current] = final[Current]
      /\ \A i \in 1..Len(finalized) : finalized'[i] = finalized[i]
  BY <1>1, <1>2, <1>3
<1>5. /\ folder' \in [Names -> {Nothing} \cup Outside \cup Parts]
      /\ folder'[Place(final[Current])] = Part(Current)
      /\ \A i \in Files : Recorded(i) => folder'[Place(final[i])] = Part(i)
      /\ \A n \in Names, i \in Files : folder'[n] = Part(i) =>
           \/ i = Current /\ n = Place(final[i])
           \/ Recorded(i) /\ n = Place(final[i])
      /\ \A n \in Names : folder'[n] \in Outside => n \in taken
  BY <1>1, LandingKeepsPaths
<1>6. /\ \A i : Recorded(i)' <=> i \in 1..Current
      /\ \A i : Recorded(i) <=> i \in 1..Len(finalized)
      /\ \A n : Place(n)' = Place(n) /\ PathKey(n)' = PathKey(n)
  BY <1>1, <1>4, BatchIsNames DEF Recorded, Linked, Place, PathKey
<1>7. TypeOK'
  BY <1>1, <1>4, <1>5 DEF TypeOK, Files, Parts
<1>8. Progress'
  BY <1>1, <1>2, <1>4, BatchIsNames DEF Progress, Files
<1>9. PathsAreOurs'
  BY <1>1, <1>2, <1>4, <1>5, <1>6, BatchIsNames DEF PathsAreOurs, Files
<1>10. NamesAreApart'
  BY <1>1, <1>5, <1>6 DEF NamesAreApart
<1> QED BY <1>7, <1>8, <1>9, <1>10

LEMMA LinkKeepsIInv ==
    ASSUME IInv, Link PROVE IInv'
<1> USE DEF IInv
<1>1. /\ pc = "moving" /\ pc' = "linked" /\ Current <= Len(batch) /\ Free(final[Current])
      /\ folder' = [folder EXCEPT ![Place(final[Current])] = Part(Current)]
      /\ UNCHANGED <<fold, folds, batch, parts, final, used, finalized,
                     created, promised, taken, stuck>>
  BY DEF Link, setting, others, names
<1>2. /\ Current \in Files /\ Current \in Nat /\ ~stuck
      /\ Current = Len(finalized) + 1 /\ Current \notin DOMAIN finalized
  BY <1>1, CurrentIsNext
<1>3. /\ folder' \in [Names -> {Nothing} \cup Outside \cup Parts]
      /\ folder'[Place(final[Current])] = Part(Current)
      /\ \A i \in Files : Recorded(i) => folder'[Place(final[i])] = Part(i)
      /\ \A n \in Names, i \in Files : folder'[n] = Part(i) =>
           \/ i = Current /\ n = Place(final[i])
           \/ Recorded(i) /\ n = Place(final[i])
      /\ \A n \in Names : folder'[n] \in Outside => n \in taken
  BY <1>1, LandingKeepsPaths
<1>4. /\ \A i : Recorded(i)' <=> i = Current \/ Recorded(i)
      /\ \A n : Place(n)' = Place(n) /\ PathKey(n)' = PathKey(n)
  BY <1>1 DEF Recorded, Linked, Place, PathKey, Current
<1>5. TypeOK'
  BY <1>1, <1>3 DEF TypeOK, Files, Parts
<1>6. Progress'
  BY <1>1, <1>2, BatchIsNames DEF Progress, Files, Current
<1>7. PathsAreOurs'
  BY <1>1, <1>3, <1>4 DEF PathsAreOurs, Files
<1>8. NamesAreApart'
  BY <1>1, <1>3, <1>4 DEF NamesAreApart
<1> QED BY <1>5, <1>6, <1>7, <1>8

LEMMA UnlinkKeepsIInv ==
    ASSUME IInv, Unlink PROVE IInv'
<1> USE DEF IInv
<1>1. /\ pc = "linked" /\ pc' = "moving" /\ parts' = parts \ {Current}
      /\ finalized' = Append(finalized, final[Current])
      /\ UNCHANGED <<fold, folds, batch, folder, final, used, created, promised, taken, stuck>>
  BY DEF Unlink, setting, others, names, Published, Landed
<1>2. /\ Current \in Files /\ Current \in DOMAIN final /\ Current \in Nat
      /\ Current = Len(finalized) + 1 /\ final[Current] \in Names /\ ~stuck
      /\ Current <= Len(batch)
  BY <1>1, CurrentIsNext DEF Progress
<1>3. finalized \in Seq(Names)
  BY DEF TypeOK
<1>4. /\ finalized' \in Seq(Names) /\ Len(finalized') = Current
      /\ DOMAIN finalized' = 1..Current
      /\ finalized'[Current] = final[Current]
      /\ \A i \in 1..Len(finalized) : finalized'[i] = finalized[i]
  BY <1>1, <1>2, <1>3
<1>5. /\ \A i : Recorded(i)' <=> i \in 1..Current
      /\ \A i : Recorded(i) <=> i \in 1..Current
      /\ \A n : Place(n)' = Place(n) /\ PathKey(n)' = PathKey(n)
  BY <1>1, <1>2, <1>4, BatchIsNames DEF Recorded, Linked, Place, PathKey
<1>6. TypeOK'
  BY <1>1, <1>4 DEF TypeOK, Files, Parts
<1>7. Progress'
  BY <1>1, <1>2, <1>4, BatchIsNames DEF Progress, Files
<1>8. PathsAreOurs'
  BY <1>1, <1>2, <1>4, <1>5, BatchIsNames DEF PathsAreOurs, Files
<1>9. NamesAreApart'
  BY <1>1, <1>5 DEF NamesAreApart
<1> QED BY <1>6, <1>7, <1>8, <1>9

(* Another program was faster: a place that was promised is taken by it.   *)
LEMMA CollideKeepsIInv ==
    ASSUME IInv, Collide PROVE IInv'
<1> USE DEF IInv
<1> DEFINE name == batch[Current]
           chosen == Candidates[name][First(Available(name))]
<1>1. /\ pc = "moving" /\ Current <= Len(batch) /\ ~Free(final[Current])
      /\ UNCHANGED <<fold, folds, batch, folder, parts, finalized,
                     created, promised, taken, stuck>>
  BY DEF Collide, setting, others
<1>2. /\ Current \in Files /\ Current \in DOMAIN final /\ Current \in Nat
      /\ Current \notin DOMAIN finalized /\ Current = Len(finalized) + 1
      /\ final[Current] \in Names /\ Place(final[Current]) \in Names /\ ~stuck
  BY <1>1, CurrentIsNext
<1>3. name \in DOMAIN Candidates
  BY <1>2, BatchIsNames
<1>4. \A i : Recorded(i) <=> i \in DOMAIN finalized
  BY <1>1 DEF Recorded, Linked
<1>5. \A n : PathKey(n)' = PathKey(n) /\ Place(n)' = Place(n)
  BY <1>1 DEF PathKey, Place
<1>6. (folds => fold) => Place(promised[Current]) \in taken
  <2> SUFFICES ASSUME folds => fold PROVE Place(promised[Current]) \in taken
    OBVIOUS
  <2>1. CASE final[Current] # promised[Current]
    BY <2>1, <1>2 DEF NamesAreApart
  <2>2. CASE final[Current] = promised[Current]
    <3>1. folder[Place(final[Current])] \in Outside \cup Parts
      BY <1>1, <1>2 DEF TypeOK, Free
    <3>2. folder[Place(final[Current])] \notin Parts
      <4> SUFFICES ASSUME NEW i \in Files, folder[Place(final[Current])] = Part(i)
                   PROVE  FALSE
        BY DEF Parts
      <4>1. i \in DOMAIN finalized /\ Place(final[Current]) = Place(final[i])
        BY <1>2, <1>4 DEF PathsAreOurs
      <4>2. i \in DOMAIN final /\ final[i] \in Names
        BY <4>1, BatchIsNames DEF Progress, TypeOK
      <4>3. PathKey(final[Current]) = PathKey(final[i])
        BY <1>2, <4>1, <4>2, SamePlaceSameKey
      <4> QED BY <1>2, <4>1, <4>2, <4>3 DEF NamesAreApart
    <3> QED BY <2>2, <3>1, <3>2, <1>2 DEF NamesAreApart
  <2> QED BY <2>1, <2>2
<1>7. CASE Available(name) # {} /\ pc' = pc
  <2>1. final' = [final EXCEPT ![Current] = chosen] /\ used' = used \cup {PathKey(chosen)}
    BY <1>1, <1>7 DEF Collide
  <2>2. chosen \in Names /\ PathKey(chosen) \notin used
    BY <1>3, <1>7, AvailableIsFree
  <2>3. final \in Seq(Names)
    BY DEF TypeOK
  <2>4. /\ final' \in Seq(Names) /\ Len(final') = Len(final) /\ DOMAIN final' = DOMAIN final
        /\ final'[Current] = chosen
        /\ \A i \in DOMAIN final : i # Current => final'[i] = final[i]
    BY <1>2, <2>1, <2>2, <2>3
  <2> HIDE DEF name, chosen
  <2>5. TypeOK'
    BY <1>1, <1>7, <2>1, <2>4 DEF TypeOK, Files, Parts
  <2>6. Progress'
    BY <1>1, <1>7, <2>1, <2>4 DEF Progress, Files
  <2>7. \A i : Recorded(i)' <=> i \in DOMAIN finalized
    BY <1>1, <1>7 DEF Recorded, Linked
  <2>8. \A i \in DOMAIN finalized : i \in DOMAIN final /\ final'[i] = final[i]
    BY <1>2, <2>4, BatchIsNames DEF Progress
  <2>9. PathsAreOurs'
    BY <1>1, <1>4, <1>5, <2>7, <2>8 DEF PathsAreOurs, Files
  <2>10. NamesAreApart'
    <3>1. \A i \in DOMAIN final' : PathKey(final'[i]) \in used'
      BY <2>1, <2>4 DEF NamesAreApart
    <3>2. \A i, j \in DOMAIN final' : PathKey(final'[i]) = PathKey(final'[j]) => i = j
      BY <2>2, <2>4 DEF NamesAreApart
    <3>3. (folds => fold) => \A i \in DOMAIN final' :
            final'[i] # promised[i] => Place(promised[i]) \in taken
      BY <1>6, <2>4 DEF NamesAreApart
    <3> QED BY <1>1, <1>5, <3>1, <3>2, <3>3 DEF NamesAreApart
  <2> QED BY <2>5, <2>6, <2>9, <2>10
<1>8. CASE Available(name) = {} /\ pc' = "failing" /\ UNCHANGED names
  <2>1. UNCHANGED <<final, used>>
    BY <1>8 DEF names
  <2> HIDE DEF name
  <2>2. TypeOK'
    BY <1>1, <1>8, <2>1 DEF TypeOK, Files, Parts
  <2>3. Progress'
    BY <1>1, <1>8, <2>1 DEF Progress, Files
  <2>4. \A i : Recorded(i)' <=> i \in DOMAIN finalized
    BY <1>1, <1>8 DEF Recorded, Linked
  <2>5. PathsAreOurs'
    BY <1>1, <1>4, <1>5, <2>1, <2>4 DEF PathsAreOurs, Files
  <2>6. NamesAreApart'
    BY <1>1, <1>5, <2>1 DEF NamesAreApart
  <2> QED BY <2>2, <2>3, <2>5, <2>6
<1> QED BY <1>1, <1>7, <1>8 DEF Collide

-----------------------------------------------------------------------------
(* Removing a file of the batch by its path.                               *)
LEMMA RemovalKeepsPaths ==
    ASSUME IInv, NEW k \in Files, Recorded(k),
           folder' = [folder EXCEPT ![Place(final[k])] = Nothing]
    PROVE  /\ folder' \in [Names -> {Nothing} \cup Outside \cup Parts]
           /\ \A i \in Files : Recorded(i) /\ i # k => folder'[Place(final[i])] = Part(i)
           /\ ~stuck => \A n \in Names, i \in Files :
                folder'[n] = Part(i) => i # k /\ Recorded(i) /\ n = Place(final[i])
           /\ \A n \in Names : folder[n] \in Outside => folder'[n] = folder[n]
           /\ \A n \in Names : folder'[n] \in Outside => n \in taken
<1> USE DEF IInv
<1>1. folder \in [Names -> {Nothing} \cup Outside \cup Parts]
  BY DEF TypeOK
<1>2. \A i \in Files : Recorded(i) => i \in DOMAIN final
  BY BatchIsNames DEF Recorded, Linked, Progress, Current
<1>3. \A i \in Files : Recorded(i) => Place(final[i]) \in Names
  BY <1>2, NamesAreNames DEF TypeOK
<1>4. folder[Place(final[k])] = Part(k)
  BY DEF PathsAreOurs
<1>5. /\ folder' \in [Names -> {Nothing} \cup Outside \cup Parts]
      /\ folder'[Place(final[k])] = Nothing
      /\ \A n \in Names : n # Place(final[k]) => folder'[n] = folder[n]
  BY <1>1, <1>3
<1>6. \A i \in Files : i \in Nat
  BY BatchIsNames
<1>7. \A i \in Files : Recorded(i) /\ i # k => folder'[Place(final[i])] = Part(i)
  BY <1>3, <1>4, <1>5, FilesAreTold DEF PathsAreOurs
<1>8. ~stuck => \A n \in Names, i \in Files :
        folder'[n] = Part(i) => i # k /\ Recorded(i) /\ n = Place(final[i])
  BY <1>5, <1>6, FilesAreTold DEF PathsAreOurs
<1>9. \A n \in Names : folder[n] \in Outside => folder'[n] = folder[n]
  BY <1>4, <1>5, FilesAreTold
<1>10. \A n \in Names : folder'[n] \in Outside => n \in taken
  BY <1>5, FilesAreTold DEF NamesAreApart
<1> QED BY <1>5, <1>7, <1>8, <1>9, <1>10

LEMMA UnlinkFailsKeepsIInv ==
    ASSUME IInv, UnlinkFails
    PROVE  IInv' /\ \A n \in Names : folder[n] \in Outside => folder'[n] = folder[n]
<1> USE DEF IInv
<1>1. /\ pc = "linked" /\ pc' = "failing"
      /\ UNCHANGED <<fold, folds, batch, parts, final, used, finalized,
                     created, promised, taken>>
  BY DEF UnlinkFails, setting, others, names
<1>2. Current \in Files /\ Current \notin DOMAIN finalized /\ ~stuck
  BY <1>1, CurrentIsNext DEF Progress
<1>3. /\ Recorded(Current)
      /\ \A i : Recorded(i)' <=> i \in DOMAIN finalized
      /\ \A i : Recorded(i) <=> i \in DOMAIN finalized \/ i = Current
      /\ \A n : PathKey(n)' = PathKey(n) /\ Place(n)' = Place(n)
  BY <1>1 DEF Recorded, Linked, PathKey, Place
<1>4. Progress'
  BY <1>1 DEF Progress, Files
<1>5. CASE folder' = WithoutLink /\ stuck' = stuck
  <2>1. /\ folder' \in [Names -> {Nothing} \cup Outside \cup Parts]
        /\ \A i \in Files : Recorded(i) /\ i # Current => folder'[Place(final[i])] = Part(i)
        /\ ~stuck => \A n \in Names, i \in Files :
             folder'[n] = Part(i) => i # Current /\ Recorded(i) /\ n = Place(final[i])
        /\ \A n \in Names : folder[n] \in Outside => folder'[n] = folder[n]
        /\ \A n \in Names : folder'[n] \in Outside => n \in taken
    BY <1>2, <1>3, <1>5, RemovalKeepsPaths DEF WithoutLink
  <2>2. TypeOK'
    BY <1>1, <1>5, <2>1 DEF TypeOK, Files, Parts
  <2>3. PathsAreOurs'
    BY <1>1, <1>2, <1>3, <1>5, <2>1 DEF PathsAreOurs, Files
  <2>4. NamesAreApart'
    BY <1>1, <1>3, <2>1 DEF NamesAreApart
  <2> QED BY <1>4, <2>1, <2>2, <2>3, <2>4
<1>6. CASE folder' = folder /\ stuck' = TRUE
  <2>1. TypeOK'
    BY <1>1, <1>6 DEF TypeOK, Files, Parts
  <2>2. PathsAreOurs'
    BY <1>1, <1>3, <1>6 DEF PathsAreOurs, Files
  <2>3. NamesAreApart'
    BY <1>1, <1>3, <1>6 DEF NamesAreApart
  <2> QED BY <1>4, <1>6, <2>1, <2>2, <2>3
<1> QED BY <1>5, <1>6 DEF UnlinkFails

LEMMA RollBackKeepsIInv ==
    ASSUME IInv, RollBack
    PROVE  IInv' /\ \A n \in Names : folder[n] \in Outside => folder'[n] = folder[n]
<1> USE DEF IInv
<1> DEFINE last == Len(finalized)
<1>1. /\ pc = "rolling_back" /\ pc' = "rolling_back" /\ finalized # <<>>
      /\ finalized' = SubSeq(finalized, 1, last - 1)
      /\ UNCHANGED <<fold, folds, batch, parts, final, used, created, promised, taken>>
  BY DEF RollBack, Earlier, setting, others, names
<1>2. finalized \in Seq(Names)
  BY DEF TypeOK
<1>3. last \in DOMAIN finalized /\ last \in Nat /\ last >= 1
  BY <1>1, <1>2
<1>4. last \in Files /\ last \in DOMAIN final /\ finalized[last] = final[last]
  BY <1>3, BatchIsNames DEF Progress, PathsAreOurs
<1>5. /\ finalized' \in Seq(Names) /\ Len(finalized') = last - 1
      /\ DOMAIN finalized' = 1..(last - 1)
      /\ \A i \in 1..(last - 1) : finalized'[i] = finalized[i]
  <2> HIDE DEF last
  <2>2. /\ SubSeq(finalized, 1, last - 1) \in Seq(Names)
        /\ Len(SubSeq(finalized, 1, last - 1)) = last - 1
        /\ \A i \in 1..(last - 1) : SubSeq(finalized, 1, last - 1)[i] = finalized[i]
    <3>1. \A i \in 1..(last - 1) : finalized[i] \in Names
      BY <1>2, <1>3 DEF last
    <3> QED BY <1>3, <3>1, SubSeqProperties
  <2>3. finalized' \in Seq(Names) /\ Len(finalized') = last - 1
    BY <1>1, <1>3, <2>2
  <2> QED BY <1>1, <1>3, <2>2, <2>3
<1> HIDE DEF last
<1>6. /\ Recorded(last)
      /\ \A i : Recorded(i)' <=> i \in 1..(last - 1)
      /\ \A i : Recorded(i) <=> i \in 1..last
      /\ \A n : PathKey(n)' = PathKey(n) /\ Place(n)' = Place(n)
  BY <1>1, <1>3, <1>5, BatchIsNames DEF Recorded, Linked, PathKey, Place, last
<1>7. Progress'
  <2>1. Len(finalized') <= Len(final)
    BY <1>3, <1>5, BatchIsNames DEF Progress, last
  <2>2. stuck => stuck'
    BY DEF RollBack
  <2> QED BY <1>1, <2>1, <2>2 DEF Progress, Files
<1>8. CASE folder' = [folder EXCEPT ![Place(finalized[last])] = Nothing] /\ stuck' = stuck
  <2>1. /\ folder' \in [Names -> {Nothing} \cup Outside \cup Parts]
        /\ \A i \in Files : Recorded(i) /\ i # last => folder'[Place(final[i])] = Part(i)
        /\ ~stuck => \A n \in Names, i \in Files :
             folder'[n] = Part(i) => i # last /\ Recorded(i) /\ n = Place(final[i])
        /\ \A n \in Names : folder[n] \in Outside => folder'[n] = folder[n]
        /\ \A n \in Names : folder'[n] \in Outside => n \in taken
    BY <1>4, <1>6, <1>8, RemovalKeepsPaths
  <2>2. TypeOK'
    BY <1>1, <1>5, <1>8, <2>1 DEF TypeOK, Files, Parts
  <2>3. \A i : Recorded(i)' <=> Recorded(i) /\ i # last
    BY <1>3, <1>6
  <2>4. \A i \in DOMAIN finalized' : finalized'[i] = final[i]
    BY <1>3, <1>5, <1>6, BatchIsNames DEF PathsAreOurs, last
  <2>5. PathsAreOurs'
    BY <1>1, <1>6, <1>8, <2>1, <2>3, <2>4 DEF PathsAreOurs, Files
  <2>6. NamesAreApart'
    BY <1>1, <1>6, <2>1 DEF NamesAreApart
  <2> QED BY <1>7, <2>1, <2>2, <2>5, <2>6
<1>9. CASE folder' = folder /\ stuck' = TRUE
  <2>1. TypeOK'
    BY <1>1, <1>5, <1>9 DEF TypeOK, Files, Parts
  <2>2. \A i \in DOMAIN finalized' : finalized'[i] = final[i]
    BY <1>3, <1>5, <1>6, BatchIsNames DEF PathsAreOurs, last
  <2>3. \A i : Recorded(i)' => Recorded(i)
    BY <1>3, <1>6
  <2>4. PathsAreOurs'
    BY <1>1, <1>6, <1>9, <2>2, <2>3 DEF PathsAreOurs, Files
  <2>5. NamesAreApart'
    BY <1>1, <1>6, <1>9 DEF NamesAreApart
  <2> QED BY <1>7, <1>9, <2>1, <2>4, <2>5
<1> QED BY <1>8, <1>9 DEF RollBack, last

-----------------------------------------------------------------------------
(* Other programs.                                                         *)
LEMMA OthersKeepIInv ==
    ASSUME IInv, NEW n \in Names, Create(n) \/ Delete(n) PROVE IInv'
<1> USE DEF IInv
<1>1. /\ UNCHANGED <<fold, folds, batch, parts, final, used, finalized, pc, promised, stuck>>
      /\ taken \subseteq taken'
  BY DEF Create, Delete, setting, task
<1>2. /\ \A i : Recorded(i)' <=> Recorded(i)
      /\ \A m : PathKey(m)' = PathKey(m) /\ Place(m)' = Place(m)
  BY <1>1 DEF Recorded, Linked, Current, PathKey, Place
<1>3. Place(n) \in Names
  BY NamesAreNames
<1>4. \A i \in Files : i \in Nat
  BY BatchIsNames
<1>5. \A i \in Files : Recorded(i) => Place(final[i]) \in Names
  <2>1. \A i \in Files : Recorded(i) => i \in DOMAIN final
    BY BatchIsNames DEF Recorded, Linked, Progress, Current
  <2> QED BY <2>1, NamesAreNames DEF TypeOK
<1>6. folder \in [Names -> {Nothing} \cup Outside \cup Parts]
  BY DEF TypeOK
<1>7. Progress'
  BY <1>1 DEF Progress, Files, Current
<1>8. CASE Create(n)
  <2> DEFINE file == [by |-> "outside", n |-> created + 1]
  <2>1. /\ folder' = [folder EXCEPT ![Place(n)] = file] /\ folder[Place(n)] = Nothing
        /\ created' = created + 1 /\ created < MaxCreated /\ taken' = taken \cup {Place(n)}
    BY <1>8 DEF Create
  <2>2. created' \in 0..MaxCreated /\ file \in Outside
    BY <2>1, NamesAssumption DEF TypeOK, Outside
  <2> HIDE DEF file
  <2>3. /\ folder' \in [Names -> {Nothing} \cup Outside \cup Parts]
        /\ folder'[Place(n)] = file
        /\ \A m \in Names : m # Place(n) => folder'[m] = folder[m]
    BY <1>3, <1>6, <2>1, <2>2
  <2>4. TypeOK'
    BY <1>1, <2>2, <2>3 DEF TypeOK, Files, Parts
  <2>5. \A i \in Files : Recorded(i) => folder'[Place(final[i])] = Part(i)
    BY <1>4, <1>5, <2>1, <2>3, FilesAreTold DEF PathsAreOurs
  <2>6. \A m \in Names, i \in Files : folder'[m] = Part(i) => folder[m] = Part(i)
    BY <2>2, <2>3, FilesAreTold
  <2>7. PathsAreOurs'
    BY <1>1, <1>2, <2>5, <2>6 DEF PathsAreOurs, Files
  <2>8. NamesAreApart'
    BY <1>1, <1>2, <2>1, <2>3 DEF NamesAreApart
  <2> QED BY <1>7, <2>4, <2>7, <2>8
<1>9. CASE Delete(n)
  <2>1. /\ folder' = [folder EXCEPT ![n] = Nothing] /\ folder[n] \in Outside
        /\ UNCHANGED <<created, taken>>
    BY <1>9 DEF Delete
  <2>2. /\ folder' \in [Names -> {Nothing} \cup Outside \cup Parts]
        /\ folder'[n] = Nothing
        /\ \A m \in Names : m # n => folder'[m] = folder[m]
    BY <1>6, <2>1
  <2>3. TypeOK'
    BY <1>1, <2>1, <2>2 DEF TypeOK, Files, Parts
  <2>4. \A i \in Files : Recorded(i) => folder'[Place(final[i])] = Part(i)
    BY <1>5, <2>1, <2>2, FilesAreTold DEF PathsAreOurs
  <2>5. \A m \in Names, i \in Files : folder'[m] = Part(i) => folder[m] = Part(i)
    BY <1>4, <2>2, FilesAreTold
  <2>6. PathsAreOurs'
    BY <1>1, <1>2, <2>4, <2>5 DEF PathsAreOurs, Files
  <2>7. NamesAreApart'
    BY <1>1, <1>2, <2>1, <2>2, FilesAreTold DEF NamesAreApart
  <2> QED BY <1>7, <2>3, <2>6, <2>7
<1> QED BY <1>8, <1>9

LEMMA StutterKeepsIInv == IInv /\ UNCHANGED vars => IInv'
BY DEF IInv, vars, TypeOK, Progress, PathsAreOurs, NamesAreApart, Recorded, Linked,
       Current, Files, Parts, PathKey, Place

LEMMA StepKeepsIInv == IInv /\ [Next]_vars => IInv'
<1> SUFFICES ASSUME IInv, [Next]_vars PROVE IInv'
  OBVIOUS
<1>1. CASE Stage
  BY <1>1, StageKeepsIInv
<1>2. CASE Verify
  BY <1>2, VerifyKeepsIInv
<1>3. CASE Fail \/ Complete \/ CleanUp \/ Failed
  BY <1>3, EndKeepsIInv
<1>4. CASE Move
  BY <1>4, MoveKeepsIInv
<1>5. CASE Collide
  BY <1>5, CollideKeepsIInv
<1>6. CASE Link
  BY <1>6, LinkKeepsIInv
<1>7. CASE Unlink
  BY <1>7, UnlinkKeepsIInv
<1>8. CASE UnlinkFails
  BY <1>8, UnlinkFailsKeepsIInv
<1>9. CASE RollBack
  BY <1>9, RollBackKeepsIInv
<1>10. CASE \E n \in Names : Create(n) \/ Delete(n)
  BY <1>10, OthersKeepIInv
<1>11. CASE UNCHANGED vars
  BY <1>11, StutterKeepsIInv
<1> QED BY <1>1, <1>2, <1>3, <1>4, <1>5, <1>6, <1>7, <1>8, <1>9, <1>10, <1>11 DEF Next, Task

-----------------------------------------------------------------------------
(* The inductive invariant holds in every reachable state.                 *)
THEOREM Invariant == Spec => []IInv
BY InitIInv, StepKeepsIInv, PTL DEF Spec

(* No step of a transfer, its rollback by path included, changes a file of *)
(* another program, whenever those programs come and go.                   *)
THEOREM NeverOverwrites == Spec => OthersKeepTheirFiles
<1>1. ASSUME IInv, Task PROVE \A n \in Names : folder[n] \in Outside => folder'[n] = folder[n]
  <2>1. CASE Move \/ Link
    <3>1. /\ pc = "moving" /\ Current <= Len(batch) /\ folder[Place(final[Current])] = Nothing
          /\ folder' = [folder EXCEPT ![Place(final[Current])] = Part(Current)]
      BY <2>1 DEF Move, Link, Free
    <3>2. folder \in [Names -> {Nothing} \cup Outside \cup Parts]
      BY <1>1 DEF IInv, TypeOK
    <3> QED BY <3>1, <3>2, FilesAreTold
  <2>2. CASE UnlinkFails
    BY <1>1, <2>2, UnlinkFailsKeepsIInv
  <2>3. CASE RollBack
    BY <1>1, <2>3, RollBackKeepsIInv
  <2>4. CASE Stage \/ Verify \/ Fail \/ Collide \/ Unlink \/ Complete \/ CleanUp \/ Failed
    BY <2>4 DEF Stage, Verify, Fail, Collide, Unlink, Complete, CleanUp, Failed
  <2> QED BY <1>1, <2>1, <2>2, <2>3, <2>4 DEF Task
<1>2. IInv /\ [Next]_vars =>
        [Task => \A n \in Names : folder[n] \in Outside => folder'[n] = folder[n]]_vars
  BY <1>1
<1> QED BY <1>2, Invariant, PTL DEF Spec, OthersKeepTheirFiles

(* A completed batch is there whole and where it was reported to be; of a  *)
(* failed one nothing is left but what could not be removed; and a name is *)
(* changed only because another program took it.                           *)
THEOREM WholeOrGone == Spec => []BatchIsWholeOrGone
<1>1. IInv => BatchIsWholeOrGone
  <2> SUFFICES ASSUME IInv PROVE BatchIsWholeOrGone OBVIOUS
  <2> USE DEF IInv
  <2>1. ASSUME pc = "completed"
        PROVE  /\ parts = {}
               /\ \A i \in Files : {n \in Names : folder[n] = Part(i)} = {Place(finalized[i])}
    <3>1. /\ Len(finalized) = Len(batch) /\ Len(final) = Len(batch) /\ ~stuck
          /\ parts = {i \in Files : i > Len(finalized)}
      BY <2>1 DEF Progress
    <3>2. parts = {}
      BY <3>1, BatchIsNames
    <3>3. ASSUME NEW i \in Files
          PROVE  {n \in Names : folder[n] = Part(i)} = {Place(finalized[i])}
      <4>1. i \in DOMAIN finalized /\ i \in DOMAIN final
        BY <3>1, BatchIsNames
      <4>2. finalized[i] = final[i] /\ Place(final[i]) \in Names
        BY <4>1, NamesAreNames DEF PathsAreOurs, TypeOK
      <4>3. folder[Place(final[i])] = Part(i)
        BY <4>1 DEF PathsAreOurs, Recorded
      <4>4. \A n \in Names : folder[n] = Part(i) => n = Place(final[i])
        BY <3>1 DEF PathsAreOurs
      <4> QED BY <4>2, <4>3, <4>4
    <3> QED BY <3>2, <3>3
  <2>2. ASSUME pc = "failed", ~stuck
        PROVE  parts = {} /\ \A n \in Names : folder[n] \notin Parts
    <3>1. parts = {} /\ DOMAIN finalized = {}
      BY <2>2 DEF Progress
    <3>2. \A i : ~Recorded(i)
      BY <2>2, <3>1 DEF Recorded, Linked
    <3> QED BY <2>2, <3>1, <3>2 DEF PathsAreOurs, Parts
  <2> QED BY <2>1, <2>2 DEF NamesAreApart, BatchIsWholeOrGone
<1> QED BY <1>1, Invariant, PTL
=============================================================================
