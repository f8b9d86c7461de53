---------------------------- MODULE WindowProofs ----------------------------
(***************************************************************************)
(* Theorems about the two parts that run in the window: the main window    *)
(* itself (Interface) and the updater's controller (Updater).              *)
(*                                                                         *)
(* The first part holds for any number of batches, requests and prompts    *)
(* and any length of the queue.  The events under way, the calls under way *)
(* and what is shown each carry a part of what the user asked for; the     *)
(* invariant says which part, so that none is lost when it passes from one *)
(* to the other.                                                           *)
(***************************************************************************)
EXTENDS Interface, Updater, SequenceTheorems, TLAPS

Phases == DOMAIN PhaseOrder

Calls == [batch : Batches, queued : BOOLEAN, before : Views \cup {None},
          answer : {"none", "ok", "refused"}]

Events == [type : {"update"}, id : Transfers, phase : Phases]
          \cup [type : {"incoming"}, id : Incomings] \cup [type : {"trust"}, id : Prompts]

TypeOK ==
    /\ queue \in Seq(Batches) /\ sent \in Seq(Batches) /\ owed \subseteq Batches
    /\ dropped \in 0..MaxBatches
    /\ active \in Views \cup {None} /\ incoming \in Incomings \cup {None}
    /\ slot \in Transfers \cup {None} /\ phase \in Phases
    /\ calls \subseteq Calls /\ events \in Seq(Events)

(* A batch is in one place.  One that is not dropped yet is in none.       *)
InOnePlace ==
    /\ \A c, d \in calls : c.batch = d.batch => c = d
    /\ \A c \in calls : c.batch <= dropped /\ c.batch \notin ToSet(queue)
    /\ \A c \in calls : c.answer # "ok" => c.batch \notin ToSet(sent)
    /\ \A b \in ToSet(queue) \cup ToSet(sent) : b <= dropped

(* The transfer that has not reported its end.                             *)
Runner == IF slot # None /\ ~Terminal(phase) THEN slot ELSE None

(* A view for the queue is there, or an update or a refusal brings it.     *)
IsUpdate(e) == e.type = "update"

UpdateIn(s) == \E i \in 1..Len(s) : IsUpdate(s[i])

ViewIsComing ==
    \/ active # None \/ Runner # None \/ UpdateIn(events)
    \/ \E c \in calls : c.queued /\ c.answer # "ok"

GoesOn ==
    /\ \A c \in calls : c.queued => c.before # None
    /\ queue # <<>> => ViewIsComing

(* What is shown as running and what is asked runs indeed, or the update   *)
(* with its end is under way, behind everything else that is said of it.   *)
IsEnd(e, t) == IsUpdate(e) /\ e.id = t /\ Terminal(e.phase)

EndIn(s, t, i) == \E j \in i..Len(s) : IsEnd(s[j], t)

Expected(t, s, r) == t = r \/ EndIn(s, t, 1)

EndsLast(s, r) ==
    \A i \in 1..Len(s) : s[i].type # "trust" => s[i].id = r \/ EndIn(s, s[i].id, i)

EndIsComing ==
    /\ EndsLast(events, Runner)
    /\ active # None /\ ~Terminal(active.phase) => Expected(active.id, events, Runner)
    /\ incoming # None => Expected(incoming, events, Runner)
    /\ \A c \in calls : c.queued => Terminal(c.before.phase)

Holds == TypeOK /\ InOnePlace /\ QueuedBatchIsKept /\ GoesOn

IInv == Holds /\ EndIsComing
-----------------------------------------------------------------------------
LEMMA PhasesAre ==
    Phases = {"preparing", "waiting_for_acceptance", "transferring", "completed", "failed"}
BY DEF Phases, PhaseOrder

(* Nothing that the window shows is taken for an empty view.               *)
LEMMA NamesAre ==
    /\ None \notin Transfers /\ None \notin Views /\ None \notin Incomings
    /\ Batches \subseteq Transfers /\ Incomings \subseteq Transfers /\ Batches \subseteq Nat
BY InterfaceAssumption DEF Transfers, Batches

(* Two sequences put together.                                             *)
Joins(xy, x, y, S) ==
    /\ xy = x \o y /\ xy \in Seq(S) /\ Len(xy) = Len(x) + Len(y)
    /\ \A i \in 1..Len(x) : xy[i] = x[i]
    /\ \A i \in 1..Len(y) : xy[Len(x) + i] = y[i]

LEMMA Joined ==
    ASSUME NEW S, NEW x \in Seq(S), NEW y \in Seq(S)
    PROVE  \E xy : Joins(xy, x, y, S)
<1>1. x \o y \in Seq(S)
  OBVIOUS
<1>2. Len(x \o y) = Len(x) + Len(y)
  OBVIOUS
<1>3. \A i \in 1..Len(x) : (x \o y)[i] = x[i]
  OBVIOUS
<1>4. \A i \in 1..Len(y) : (x \o y)[Len(x) + i] = y[i]
  OBVIOUS
<1>5. Joins(x \o y, x, y, S)
  BY <1>1, <1>2, <1>3, <1>4, Zenon DEF Joins
<1> QED BY <1>5

(* A batch more at the end of a queue of different ones ...                *)
LEMMA Added ==
    ASSUME NEW q \in Seq(Batches), IsInjective(q), NEW b \in Batches, b \notin ToSet(q)
    PROVE  /\ Append(q, b) \in Seq(Batches) /\ IsInjective(Append(q, b))
           /\ ToSet(Append(q, b)) = ToSet(q) \cup {b}
<1> DEFINE r == Append(q, b)
<1>1. /\ r \in Seq(Batches) /\ Len(r) = Len(q) + 1 /\ r[Len(q) + 1] = b
      /\ \A i \in 1..Len(q) : r[i] = q[i]
  OBVIOUS
<1>2. DOMAIN q = 1..Len(q) /\ DOMAIN r = 1..Len(r) /\ Len(q) \in Nat
  BY <1>1
<1> HIDE DEF r
<1>3. \A i \in 1..Len(r) : i \in 1..Len(q) \/ i = Len(q) + 1
  BY <1>1, <1>2
<1>4. \A i \in 1..Len(q) : q[i] # b
  BY <1>2 DEF ToSet
<1>5. IsInjective(r)
  BY <1>1, <1>2, <1>3, <1>4 DEF IsInjective
<1>6. ToSet(r) = ToSet(q) \cup {b}
  <2>1. Len(q) + 1 \in 1..Len(r) /\ \A i \in 1..Len(q) : i \in 1..Len(r)
    BY <1>1, <1>2
  <2> QED BY <1>1, <1>2, <1>3, <2>1 DEF ToSet
<1> QED BY <1>1, <1>5, <1>6 DEF r

(* ... or in front of it ...                                               *)
LEMMA PutInFront ==
    ASSUME NEW q \in Seq(Batches), IsInjective(q), NEW b \in Batches, b \notin ToSet(q)
    PROVE  /\ <<b>> \o q \in Seq(Batches) /\ IsInjective(<<b>> \o q)
           /\ ToSet(<<b>> \o q) = ToSet(q) \cup {b}
<1> DEFINE e == <<b>>
<1>1. e \in Seq(Batches) /\ Len(e) = 1 /\ e[1] = b
  OBVIOUS
<1> HIDE DEF e
<1>2. PICK r : Joins(r, e, q, Batches)
  BY <1>1, Joined
<1>3. /\ r \in Seq(Batches) /\ Len(r) = Len(e) + Len(q)
      /\ \A i \in 1..Len(e) : r[i] = e[i]
      /\ \A i \in 1..Len(q) : r[Len(e) + i] = q[i]
  BY <1>2, Zenon DEF Joins
<1>4. /\ Len(r) = 1 + Len(q) /\ r[1] = b /\ \A i \in 1..Len(q) : r[1 + i] = q[i]
      /\ DOMAIN q = 1..Len(q) /\ DOMAIN r = 1..Len(r) /\ Len(q) \in Nat
  <2>1. 1 \in 1..Len(e)
    BY <1>1
  <2> QED BY <1>1, <1>3, <2>1
<1>5. \A i \in 1..Len(r) : i = 1 \/ (i - 1 \in 1..Len(q) /\ 1 + (i - 1) = i)
  BY <1>4
<1>6. \A i \in 1..Len(q) : q[i] # b /\ 1 + i \in 1..Len(r)
  BY <1>4 DEF ToSet
<1>7. IsInjective(r)
  <2>1. ASSUME NEW i \in 1..Len(r), NEW j \in 1..Len(r), r[i] = r[j] PROVE i = j
    <3>1. CASE i = 1
      <4>1. j # 1 => r[j] = q[j - 1] /\ q[j - 1] # b
        BY <1>4, <1>5, <1>6
      <4> QED BY <1>4, <2>1, <3>1, <4>1
    <3>2. CASE i # 1
      <4>1. r[i] = q[i - 1] /\ q[i - 1] # b /\ i - 1 \in 1..Len(q)
        BY <1>4, <1>5, <1>6, <3>2
      <4>2. j # 1
        BY <1>4, <2>1, <4>1
      <4>3. r[j] = q[j - 1] /\ j - 1 \in 1..Len(q)
        BY <1>4, <1>5, <4>2
      <4>4. i - 1 = j - 1
        BY <1>4, <2>1, <4>1, <4>3 DEF IsInjective
      <4> QED BY <4>4
    <3> QED BY <3>1, <3>2
  <2> QED BY <1>4, <2>1 DEF IsInjective
<1>8. ToSet(r) = ToSet(q) \cup {b}
  <2>1. ASSUME NEW x \in ToSet(r) PROVE x \in ToSet(q) \cup {b}
    <3>1. PICK i \in 1..Len(r) : x = r[i]
      BY <1>4, <2>1 DEF ToSet
    <3>2. CASE i = 1
      BY <1>4, <3>1, <3>2
    <3>3. CASE i # 1
      <4>1. i - 1 \in 1..Len(q) /\ r[i] = q[i - 1]
        BY <1>4, <1>5, <3>3
      <4> QED BY <1>4, <3>1, <4>1 DEF ToSet
    <3> QED BY <3>2, <3>3
  <2>2. ASSUME NEW x \in ToSet(q) PROVE x \in ToSet(r)
    <3>1. PICK i \in 1..Len(q) : x = q[i]
      BY <1>4, <2>2 DEF ToSet
    <3>2. 1 + i \in 1..Len(r) /\ r[1 + i] = x
      BY <1>4, <1>6, <3>1
    <3> QED BY <1>4, <3>2 DEF ToSet
  <2>3. b \in ToSet(r)
    <3>1. 1 \in 1..Len(r)
      BY <1>4
    <3> QED BY <1>4, <3>1 DEF ToSet
  <2> QED BY <2>1, <2>2, <2>3
<1>9. r = <<b>> \o q
  BY <1>2, Zenon DEF Joins, e
<1> QED BY <1>3, <1>7, <1>8, <1>9

(* ... or one taken out leaves different ones.                             *)
LEMMA TakenOut ==
    ASSUME NEW q \in Seq(Batches), IsInjective(q), NEW b \in ToSet(q)
    PROVE  /\ Without(q, b) \in Seq(Batches) /\ IsInjective(Without(q, b))
           /\ ToSet(Without(q, b)) = ToSet(q) \ {b}
<1> DEFINE k == CHOOSE i \in DOMAIN q : q[i] = b
           x == SubSeq(q, 1, k - 1)
           y == SubSeq(q, k + 1, Len(q))
<1>0. DOMAIN q = 1..Len(q) /\ Len(q) \in Nat
  OBVIOUS
<1>1. k \in 1..Len(q) /\ q[k] = b
  <2>1. \E i \in DOMAIN q : q[i] = b
    BY DEF ToSet
  <2> QED BY <1>0, <2>1
<1>2. Without(q, b) = x \o y
  BY Zenon DEF Without, RemoveAt
<1> HIDE DEF k
<1>3. x \in Seq(Batches) /\ Len(x) = k - 1 /\ \A i \in 1..(k - 1) : x[i] = q[i]
  BY <1>1
<1>4. /\ y \in Seq(Batches) /\ Len(y) = Len(q) - k
      /\ \A i \in 1..(Len(q) - k) : y[i] = q[k + i]
  BY <1>1
<1> HIDE DEF x, y
<1>5. PICK r : Joins(r, x, y, Batches)
  BY <1>3, <1>4, Joined
<1>6. /\ r \in Seq(Batches) /\ Len(r) = Len(x) + Len(y)
      /\ \A i \in 1..Len(x) : r[i] = x[i]
      /\ \A i \in 1..Len(y) : r[Len(x) + i] = y[i]
  BY <1>5, Zenon DEF Joins
<1>7. DOMAIN r = 1..Len(r) /\ Len(r) = Len(q) - 1
  BY <1>0, <1>1, <1>3, <1>4, <1>6
<1> DEFINE from(i) == IF i < k THEN i ELSE i + 1
<1>8. ASSUME NEW i \in 1..Len(r)
      PROVE  from(i) \in 1..Len(q) /\ from(i) # k /\ r[i] = q[from(i)]
  <2>1. CASE i < k
    <3>1. i \in 1..Len(x) /\ i \in 1..(k - 1)
      BY <1>1, <1>3, <2>1
    <3>2. r[i] = q[i]
      BY <1>3, <1>6, <3>1
    <3> QED BY <1>0, <1>1, <2>1, <3>2
  <2>2. CASE ~(i < k)
    <3>1. /\ i - (k - 1) \in 1..(Len(q) - k) /\ (k - 1) + (i - (k - 1)) = i
          /\ k + (i - (k - 1)) = i + 1
      BY <1>0, <1>1, <1>7, <2>2
    <3>2. r[i] = y[i - (k - 1)]
      <4>1. PICK j \in 1..(Len(q) - k) : j = i - (k - 1) /\ (k - 1) + j = i
        BY <3>1
      <4>2. r[(k - 1) + j] = y[j]
        BY <1>3, <1>4, <1>6
      <4> QED BY <4>1, <4>2
    <3>3. r[i] = q[i + 1]
      BY <1>4, <3>1, <3>2
    <3>4. i + 1 \in 1..Len(q) /\ i + 1 # k
      BY <1>0, <1>1, <1>7, <2>2
    <3> QED BY <2>2, <3>3, <3>4
  <2> QED BY <2>1, <2>2
<1>9. ASSUME NEW j \in 1..Len(q), j # k PROVE \E i \in 1..Len(r) : from(i) = j
  <2>1. CASE j < k
    <3>1. j \in 1..Len(r) /\ from(j) = j
      BY <1>0, <1>1, <1>7, <2>1
    <3> QED BY <3>1
  <2>2. CASE j > k
    <3>1. j - 1 \in 1..Len(r) /\ from(j - 1) = j
      BY <1>0, <1>1, <1>7, <2>2
    <3> QED BY <3>1
  <2> QED BY <1>1, <1>9, <2>1, <2>2
<1>10. \A i, j \in 1..Len(r) : from(i) = from(j) => i = j
  BY <1>1
<1> HIDE DEF from
<1>11. IsInjective(r)
  <2>1. ASSUME NEW i \in 1..Len(r), NEW j \in 1..Len(r), r[i] = r[j] PROVE i = j
    <3>1. from(i) = from(j)
      BY <1>0, <1>8, <2>1 DEF IsInjective
    <3> QED BY <1>10, <3>1
  <2> QED BY <1>7, <2>1 DEF IsInjective
<1>12. ToSet(r) = ToSet(q) \ {b}
  <2>1. ASSUME NEW z \in ToSet(r) PROVE z \in ToSet(q) \ {b}
    <3>1. PICK i \in 1..Len(r) : z = r[i]
      BY <1>7, <2>1 DEF ToSet
    <3>2. from(i) \in 1..Len(q) /\ from(i) # k /\ z = q[from(i)]
      BY <1>8, <3>1
    <3>3. z # b
      BY <1>0, <1>1, <3>2 DEF IsInjective
    <3> QED BY <1>0, <3>2, <3>3 DEF ToSet
  <2>2. ASSUME NEW z \in ToSet(q) \ {b} PROVE z \in ToSet(r)
    <3>1. PICK j \in 1..Len(q) : z = q[j]
      BY <1>0, <2>2 DEF ToSet
    <3>2. j # k
      BY <1>1, <2>2, <3>1
    <3>3. PICK i \in 1..Len(r) : from(i) = j
      BY <1>9, <3>2
    <3>4. r[i] = z
      BY <1>8, <3>1, <3>3
    <3> QED BY <1>7, <3>4 DEF ToSet
  <2> QED BY <2>1, <2>2
<1>13. r = x \o y
  BY <1>5, Zenon DEF Joins
<1> QED BY <1>2, <1>6, <1>11, <1>12, <1>13

-----------------------------------------------------------------------------
(* An event more keeps the updates that are under way.                     *)
LEMMA OneMoreEvent ==
    ASSUME NEW s \in Seq(Events), NEW e \in Events
    PROVE  /\ Append(s, e) \in Seq(Events)
           /\ UpdateIn(s) => UpdateIn(Append(s, e))
           /\ IsUpdate(e) => UpdateIn(Append(s, e))
<1> DEFINE r == Append(s, e)
<1>1. /\ r \in Seq(Events) /\ Len(r) = Len(s) + 1 /\ r[Len(s) + 1] = e
      /\ \A i \in 1..Len(s) : r[i] = s[i] /\ i \in 1..Len(r)
      /\ Len(s) + 1 \in 1..Len(r)
  OBVIOUS
<1> HIDE DEF r
<1>2. UpdateIn(s) => UpdateIn(r)
  BY <1>1 DEF UpdateIn
<1>3. IsUpdate(e) => UpdateIn(r)
  BY <1>1 DEF UpdateIn
<1> QED BY <1>1, <1>2, <1>3 DEF r

LEMMA UpdatesAreEvents ==
    ASSUME NEW t \in Transfers, NEW p \in Phases
    PROVE  Update(t, p) \in Events /\ IsUpdate(Update(t, p))
BY DEF Update, Events, IsUpdate

(* Steps that move no batch: a view for the queue must still be there.     *)
LEMMA BatchesStay ==
    ASSUME IInv, UNCHANGED <<queue, calls, sent, owed, dropped>>,
           active' \in Views \cup {None}, incoming' \in Incomings \cup {None},
           slot' \in Transfers \cup {None}, phase' \in Phases, events' \in Seq(Events),
           queue # <<>> => ViewIsComing'
    PROVE  Holds'
<1>1. TypeOK /\ InOnePlace /\ QueuedBatchIsKept /\ GoesOn
  BY DEF IInv, Holds
<1>2. TypeOK'
  BY <1>1 DEF TypeOK
<1>3. InOnePlace' /\ QueuedBatchIsKept'
  BY <1>1 DEF InOnePlace, QueuedBatchIsKept, InFlight
<1>4. GoesOn'
  BY <1>1 DEF GoesOn
<1> QED BY <1>2, <1>3, <1>4 DEF Holds

(* What is coming stays coming while the view is untouched and no update   *)
(* goes.                                                                   *)
LEMMA StillComing ==
    ASSUME IInv, UNCHANGED <<queue, calls>>, queue # <<>>,
           active # None => active' # None \/ UpdateIn(events'),
           Runner # None => Runner' # None \/ UpdateIn(events'),
           UpdateIn(events) => UpdateIn(events')
    PROVE  ViewIsComing'
<1>1. ViewIsComing
  BY DEF IInv, Holds, GoesOn
<1> QED BY <1>1 DEF ViewIsComing, UpdateIn

(* Delivering an event shows a transfer, or asks the user.                 *)
LEMMA DeliverKeeps ==
    ASSUME IInv, Deliver
    PROVE  Holds'
<1> DEFINE e == Head(events)
<1>0. TypeOK
  BY DEF IInv, Holds
<1>1. /\ events # <<>> /\ events' = Tail(events)
      /\ UNCHANGED <<queue, calls, sent, owed, dropped, slot, phase>>
      /\ \/ e.type = "update" /\ Shows(e)
         \/ e.type = "incoming" /\ AsksForFiles(e)
         \/ e.type = "trust" /\ AsksForTrust(e)
  BY DEF Deliver, user, transfer, history
<1>2. /\ events \in Seq(Events) /\ e \in Events /\ e = events[1]
      /\ events' \in Seq(Events) /\ Len(events') = Len(events) - 1 /\ Len(events) \in Nat
      /\ \A i \in 1..Len(events') : events'[i] = events[i + 1]
  BY <1>0, <1>1 DEF TypeOK
<1> HIDE DEF e
<1>3. ~IsUpdate(e) /\ UpdateIn(events) => UpdateIn(events')
  <2> SUFFICES ASSUME ~IsUpdate(e), UpdateIn(events) PROVE UpdateIn(events')
    OBVIOUS
  <2>1. PICK i \in 1..Len(events) : IsUpdate(events[i])
    BY DEF UpdateIn
  <2>2. i # 1
    BY <1>2, <2>1
  <2>3. i - 1 \in 1..Len(events') /\ (i - 1) + 1 = i
    BY <1>2, <2>2
  <2>4. events'[i - 1] = events[i]
    BY <1>2, <2>3
  <2> QED BY <2>1, <2>3, <2>4 DEF UpdateIn
<1>4. active \in Views \cup {None} /\ incoming \in Incomings \cup {None}
      /\ slot' \in Transfers \cup {None} /\ phase' \in Phases
  BY <1>0, <1>1 DEF TypeOK
<1>5. CASE e.type = "update" /\ Shows(e)
  <2>1. e.id \in Transfers /\ e.phase \in Phases
    BY <1>2, <1>5 DEF Events
  <2>2. [id |-> e.id, phase |-> e.phase] \in Views
    BY <2>1 DEF Views, Phases
  <2>3. active' \in Views /\ incoming' \in Incomings \cup {None}
    BY <1>4, <1>5, <2>2 DEF Shows, ShouldAccept
  <2>4. active' # None
    BY <2>3, NamesAre
  <2> QED BY <1>1, <1>2, <1>4, <2>3, <2>4, BatchesStay DEF ViewIsComing
<1>6. CASE e.type = "incoming" /\ AsksForFiles(e)
  <2>1. e.id \in Incomings
    BY <1>2, <1>6 DEF Events
  <2>2. incoming' = e.id /\ active' \in Views \cup {None}
    BY <1>4, <1>6 DEF AsksForFiles
  <2>3. incoming' \in Incomings \cup {None}
    BY <2>1, <2>2
  <2>4. e.id = Runner \/ EndIn(events, e.id, 1)
    <3>1. 1 \in 1..Len(events) /\ events[1].type # "trust"
      BY <1>1, <1>2, <1>6
    <3> QED BY <1>2, <3>1 DEF IInv, EndIsComing, EndsLast
  <2>5. Runner' # None \/ UpdateIn(events')
    <3>1. CASE e.id = Runner
      BY <1>1, <2>1, <3>1, NamesAre DEF Runner
    <3>2. CASE EndIn(events, e.id, 1)
      <4>1. UpdateIn(events)
        BY <3>2 DEF EndIn, IsEnd, UpdateIn
      <4> QED BY <1>3, <1>6, <4>1 DEF IsUpdate
    <3> QED BY <2>4, <3>1, <3>2
  <2> QED BY <1>1, <1>2, <1>4, <2>2, <2>3, <2>5, BatchesStay DEF ViewIsComing
<1>7. CASE e.type = "trust" /\ AsksForTrust(e)
  <2>1. UNCHANGED <<active, incoming>>
    BY <1>7 DEF AsksForTrust
  <2>2. UpdateIn(events) => UpdateIn(events')
    BY <1>3, <1>7 DEF IsUpdate
  <2>3. Runner' = Runner
    BY <1>1 DEF Runner
  <2>4. queue # <<>> => ViewIsComing'
    BY <1>1, <2>1, <2>2, <2>3, StillComing
  <2> QED BY <1>1, <1>2, <1>4, <2>1, <2>4, BatchesStay
<1> QED BY <1>1, <1>5, <1>6, <1>7

(* The user's answers and the backend's own steps.                         *)
LEMMA OthersKeep ==
    ASSUME IInv,
           \/ \E yes \in BOOLEAN : RespondToIncoming(yes)
           \/ \E i \in Incomings : DeclineReturns(i)
           \/ RespondToTrust \/ TrustReturns \/ TransferTask
           \/ \E i \in Incomings : Request(i)
           \/ \E p \in Prompts : AskTrust(p) \/ Expire(p)
           \/ UNCHANGED vars
    PROVE  Holds'
<1>0. TypeOK
  BY DEF IInv, Holds
<1>1. /\ active \in Views \cup {None} /\ incoming \in Incomings \cup {None}
      /\ slot \in Transfers \cup {None} /\ phase \in Phases /\ events \in Seq(Events)
  BY <1>0 DEF TypeOK
<1>2. ASSUME UNCHANGED <<queue, calls, sent, owed, dropped, active>>,
             incoming' \in Incomings \cup {None},
             Runner # None => Runner' # None \/ UpdateIn(events'),
             slot' \in Transfers \cup {None}, phase' \in Phases, events' \in Seq(Events),
             UpdateIn(events) => UpdateIn(events')
      PROVE  Holds'
  <2>1. queue # <<>> => ViewIsComing'
    BY <1>2, StillComing
  <2> QED BY <1>1, <1>2, <2>1, BatchesStay
<1>3. ASSUME NEW yes \in BOOLEAN, RespondToIncoming(yes) PROVE Holds'
  <2>1. /\ UNCHANGED <<queue, calls, sent, owed, dropped, active, incoming, slot>>
        /\ incoming # None /\ slot = incoming
        /\ \/ UNCHANGED <<phase, events>>
           \/ phase' = "failed" /\ events' = Append(events, Update(slot, "failed"))
    BY <1>3 DEF RespondToIncoming, screen, history
  <2>2. CASE UNCHANGED <<phase, events>>
    BY <1>1, <1>2, <2>1, <2>2 DEF Runner
  <2>3. CASE phase' = "failed" /\ events' = Append(events, Update(slot, "failed"))
    <3>1. "failed" \in Phases /\ slot \in Transfers
      BY <1>1, <2>1, PhasesAre
    <3>2. Update(slot, "failed") \in Events /\ IsUpdate(Update(slot, "failed"))
      BY <3>1, UpdatesAreEvents
    <3>3. events' \in Seq(Events) /\ UpdateIn(events')
      BY <1>1, <2>3, <3>2, OneMoreEvent
    <3> QED BY <1>1, <1>2, <2>1, <2>3, <3>1, <3>3
  <2> QED BY <2>1, <2>2, <2>3
<1>4. CASE RespondToTrust
  BY <1>1, <1>2, <1>4 DEF RespondToTrust, screen, transfer, history, Runner
<1>5. CASE TrustReturns
  BY <1>1, <1>2, <1>5 DEF TrustReturns, transfer, history, Runner
<1>6. ASSUME NEW i \in Incomings, DeclineReturns(i) PROVE Holds'
  BY <1>1, <1>2, <1>6 DEF DeclineReturns, transfer, history, Runner
<1>7. ASSUME NEW p \in Phases, slot # None, phase' = p, events' = Append(events, Update(slot, p)),
             UNCHANGED <<screen, user, slot, history>>
      PROVE  Holds'
  <2>1. Update(slot, p) \in Events /\ IsUpdate(Update(slot, p))
    BY <1>1, <1>7, UpdatesAreEvents
  <2>2. events' \in Seq(Events) /\ UpdateIn(events')
    BY <1>1, <1>7, <2>1, OneMoreEvent
  <2> QED BY <1>1, <1>2, <1>7, <2>2 DEF screen, user, history
<1>8. CASE Advance \/ End
  <2>1. phase' \in Phases
    BY <1>8, PhasesAre DEF Advance, End
  <2>2. /\ slot # None /\ events' = Append(events, Update(slot, phase'))
        /\ UNCHANGED <<screen, user, slot, history>>
    BY <1>8 DEF Advance, End
  <2> QED BY <1>7, <2>1, <2>2
<1>9. CASE FreeSlot
  BY <1>1, <1>2, <1>9 DEF FreeSlot, screen, user, history, Runner
<1>10. ASSUME NEW i \in Incomings, Request(i) PROVE Holds'
  <2> DEFINE u == Update(i, "waiting_for_acceptance")
             a == [type |-> "incoming", id |-> i]
             both == <<u, a>>
  <2>1. /\ slot' = i /\ phase' = "waiting_for_acceptance"
        /\ UNCHANGED <<queue, calls, sent, owed, dropped, active, incoming>>
    BY <1>10 DEF Request, screen, user, history
  <2>2. events' = events \o both
    BY <1>10 DEF Request
  <2>3. phase' \in Phases /\ slot' \in Transfers
    BY <2>1, PhasesAre, NamesAre
  <2>4. u \in Events /\ a \in Events
    <3>1. i \in Transfers /\ "waiting_for_acceptance" \in Phases
      BY NamesAre, PhasesAre
    <3>2. u \in Events
      BY <3>1, UpdatesAreEvents
    <3> QED BY <3>2 DEF Events
  <2> HIDE DEF u, a
  <2>5. both \in Seq(Events)
    BY <2>4
  <2> HIDE DEF both
  <2>6. PICK all : Joins(all, events, both, Events)
    BY <1>1, <2>5, Joined
  <2>7. /\ all \in Seq(Events) /\ Len(all) = Len(events) + Len(both)
        /\ \A k \in 1..Len(events) : all[k] = events[k]
    BY <2>6, Zenon DEF Joins
  <2>8. all = events'
    BY <2>2, <2>6, Zenon DEF Joins
  <2>9. UpdateIn(events) => UpdateIn(all)
    <3>1. \A k \in 1..Len(events) : k \in 1..Len(all)
      BY <1>1, <2>5, <2>7
    <3> QED BY <2>7, <3>1 DEF UpdateIn
  <2>10. Runner = None
    BY <1>10 DEF Runner, Request
  <2> QED BY <1>1, <1>2, <2>1, <2>3, <2>7, <2>8, <2>9, <2>10
<1>11. ASSUME NEW p \in Prompts, AskTrust(p) PROVE Holds'
  <2>1. [type |-> "trust", id |-> p] \in Events
    BY DEF Events
  <2>2. /\ events' = Append(events, [type |-> "trust", id |-> p])
        /\ UNCHANGED <<queue, calls, sent, owed, dropped, active, incoming, slot, phase>>
    BY <1>11 DEF AskTrust, screen, user, transfer, history
  <2>3. events' \in Seq(Events) /\ (UpdateIn(events) => UpdateIn(events'))
    BY <1>1, <2>1, <2>2, OneMoreEvent
  <2> QED BY <1>1, <1>2, <2>2, <2>3 DEF Runner
<1>12. ASSUME NEW p \in Prompts, Expire(p) PROVE Holds'
  BY <1>1, <1>2, <1>12 DEF Expire, screen, user, transfer, history, Runner
<1>13. CASE UNCHANGED vars
  BY <1>1, <1>2, <1>13 DEF vars, screen, user, transfer, history, Runner
<1> QED BY <1>3, <1>4, <1>5, <1>6, <1>8, <1>9, <1>10, <1>11, <1>12, <1>13
   DEF TransferTask

-----------------------------------------------------------------------------
(* A batch queued or sent at once is one that was nowhere before.          *)
LEMMA DropKeeps ==
    ASSUME IInv, Drop
    PROVE  Holds'
<1>0. TypeOK /\ InOnePlace /\ QueuedBatchIsKept /\ GoesOn
  BY DEF IInv, Holds
<1> DEFINE b == dropped + 1
<1>1. /\ dropped' = b /\ dropped < MaxBatches
      /\ UNCHANGED <<active, incoming, prompt, slot, phase, events, sent>>
  BY DEF Drop, transfer
<1>2. b \in Batches /\ b \in 0..MaxBatches /\ dropped < b /\ dropped \in Nat
  BY <1>0, <1>1, InterfaceAssumption DEF TypeOK, Batches
<1> HIDE DEF b
<1>3. /\ b \notin ToSet(queue) /\ b \notin ToSet(sent) /\ b \notin owed
      /\ \A c \in calls : c.batch # b
  <2>1. \A x \in ToSet(queue) \cup ToSet(sent) : x <= dropped
    BY <1>0 DEF InOnePlace
  <2>2. \A c \in calls : c.batch <= dropped
    BY <1>0 DEF InOnePlace
  <2>3. ~(b <= dropped)
    BY <1>2
  <2>4. b \notin InFlight
    BY <2>2, <2>3 DEF InFlight
  <2> QED BY <1>0, <2>1, <2>2, <2>3, <2>4 DEF QueuedBatchIsKept
<1>4. \A x \in Batches : x <= dropped => x <= dropped'
  BY <1>1, <1>2, InterfaceAssumption DEF Batches
<1>5. /\ ToSet(queue) \subseteq Batches /\ ToSet(sent) \subseteq Batches
      /\ \A c \in calls : c.batch \in Batches
  BY <1>0 DEF TypeOK, ToSet, Calls
<1>6. \A x \in ToSet(queue) \cup ToSet(sent) : x <= dropped'
  BY <1>0, <1>4, <1>5 DEF InOnePlace
<1>7. \A c \in calls : c.batch <= dropped'
  BY <1>0, <1>4, <1>5 DEF InOnePlace
<1>8. b <= dropped'
  BY <1>1, <1>2
<1>9. CASE /\ Queues /\ queue' = Append(queue, dropped') /\ owed' = owed \cup {dropped'}
           /\ UNCHANGED calls
  <2>1. /\ queue' \in Seq(Batches) /\ IsInjective(queue')
        /\ ToSet(queue') = ToSet(queue) \cup {b}
    BY <1>0, <1>1, <1>2, <1>3, <1>9, Added DEF TypeOK, QueuedBatchIsKept
  <2>2. TypeOK'
    BY <1>0, <1>1, <1>2, <1>9, <2>1 DEF TypeOK
  <2>3. InOnePlace'
    <3>1. \A c \in calls : c.batch \notin ToSet(queue')
      BY <1>0, <1>3, <2>1 DEF InOnePlace
    <3>2. \A x \in ToSet(queue') \cup ToSet(sent) : x <= dropped'
      BY <1>6, <1>8, <2>1
    <3> QED BY <1>0, <1>1, <1>7, <1>9, <3>1, <3>2 DEF InOnePlace
  <2>4. QueuedBatchIsKept'
    <3>1. InFlight' = InFlight /\ b \notin InFlight
      BY <1>3, <1>9 DEF InFlight
    <3> QED BY <1>0, <1>1, <1>3, <1>9, <2>1, <3>1 DEF QueuedBatchIsKept
  <2>5. GoesOn'
    BY <1>0, <1>1, <1>9 DEF GoesOn, ViewIsComing, Queues
  <2> QED BY <2>2, <2>3, <2>4, <2>5 DEF Holds
<1>10. CASE /\ calls' = calls \cup {Call(dropped', FALSE, None)} /\ UNCHANGED <<queue, owed>>
  <2> DEFINE d == Call(dropped', FALSE, None)
  <2>1. d \in Calls /\ d.batch = b /\ ~d.queued /\ d.answer = "none"
    BY <1>1, <1>2 DEF Call, Calls
  <2> HIDE DEF d
  <2>2. calls' = calls \cup {d}
    BY <1>10 DEF d
  <2>3. TypeOK'
    BY <1>0, <1>1, <1>2, <1>10, <2>1, <2>2 DEF TypeOK
  <2>4. InOnePlace'
    <3>1. \A c, e \in calls' : c.batch = e.batch => c = e
      BY <1>0, <1>3, <2>1, <2>2 DEF InOnePlace
    <3>2. \A c \in calls' : c.batch <= dropped' /\ c.batch \notin ToSet(queue')
      BY <1>0, <1>3, <1>7, <1>8, <1>10, <2>1, <2>2 DEF InOnePlace
    <3>3. \A c \in calls' : c.answer # "ok" => c.batch \notin ToSet(sent')
      BY <1>0, <1>1, <1>3, <2>1, <2>2 DEF InOnePlace
    <3> QED BY <1>1, <1>6, <1>10, <3>1, <3>2, <3>3 DEF InOnePlace
  <2>5. QueuedBatchIsKept'
    <3>1. InFlight' = InFlight
      BY <2>1, <2>2 DEF InFlight
    <3> QED BY <1>0, <1>1, <1>10, <3>1 DEF QueuedBatchIsKept
  <2>6. GoesOn'
    BY <1>0, <1>1, <1>10, <2>1, <2>2 DEF GoesOn, ViewIsComing, Runner
  <2> QED BY <2>3, <2>4, <2>5, <2>6 DEF Holds
<1> QED BY <1>9, <1>10 DEF Drop

(* A batch removed leaves the others where they are.                       *)
LEMMA RemoveKeeps ==
    ASSUME IInv, NEW b \in Batches, RemoveQueued(b)
    PROVE  Holds'
<1>0. TypeOK /\ InOnePlace /\ QueuedBatchIsKept /\ GoesOn
  BY DEF IInv, Holds
<1>1. /\ b \in ToSet(queue) /\ active # None
      /\ queue' = Without(queue, b) /\ owed' = owed \ {b}
      /\ UNCHANGED <<active, incoming, prompt, calls, dropped, slot, phase, events, sent>>
  BY DEF RemoveQueued, user, transfer
<1>2. /\ queue' \in Seq(Batches) /\ IsInjective(queue')
      /\ ToSet(queue') = ToSet(queue) \ {b}
  BY <1>0, <1>1, TakenOut DEF TypeOK, QueuedBatchIsKept
<1>3. TypeOK'
  BY <1>0, <1>1, <1>2 DEF TypeOK
<1>4. InOnePlace'
  BY <1>0, <1>1, <1>2 DEF InOnePlace
<1>5. QueuedBatchIsKept'
  <2>1. InFlight' = InFlight
    BY <1>1 DEF InFlight
  <2>2. b \notin InFlight
    BY <1>0, <1>1 DEF QueuedBatchIsKept
  <2> QED BY <1>0, <1>1, <1>2, <2>1, <2>2 DEF QueuedBatchIsKept
<1>6. GoesOn'
  BY <1>0, <1>1 DEF GoesOn, ViewIsComing
<1> QED BY <1>3, <1>4, <1>5, <1>6 DEF Holds

(* The first batch leaves the queue for the call that sends it.            *)
LEMMA FinishKeeps ==
    ASSUME IInv, Finish
    PROVE  Holds'
<1>0. TypeOK /\ InOnePlace /\ QueuedBatchIsKept /\ GoesOn
  BY DEF IInv, Holds
<1>1. /\ active # None /\ active' = None
      /\ UNCHANGED <<incoming, prompt, dropped, slot, phase, events, owed, sent>>
  BY DEF Finish, transfer, history
<1>2. CASE queue = <<>> /\ UNCHANGED <<queue, calls>>
  <2>1. queue # <<>> => ViewIsComing'
    BY <1>2
  <2>2. /\ active' \in Views \cup {None} /\ incoming' \in Incomings \cup {None}
        /\ slot' \in Transfers \cup {None} /\ phase' \in Phases /\ events' \in Seq(Events)
    BY <1>0, <1>1 DEF TypeOK
  <2> QED BY <1>1, <1>2, <2>1, <2>2, BatchesStay
<1>3. CASE /\ queue # <<>> /\ queue' = Taken(Head(queue))
           /\ calls' = calls \cup {Call(Head(queue), TRUE, active)}
  <2> DEFINE b == Head(queue)
             d == Call(b, TRUE, active)
  <2>1. b \in ToSet(queue) /\ b \in Batches
    <3>1. b = queue[1] /\ 1 \in DOMAIN queue /\ queue[1] \in Batches
      BY <1>0, <1>3 DEF TypeOK
    <3> QED BY <3>1 DEF ToSet
  <2>2. queue' = Without(queue, b)
    BY <1>3 DEF Taken
  <2> HIDE DEF b
  <2>3. d \in Calls /\ d.batch = b /\ d.queued /\ d.answer = "none" /\ d.before = active
    BY <1>0, <2>1 DEF Call, Calls, TypeOK
  <2>4. calls' = calls \cup {d}
    BY <1>3 DEF b
  <2> HIDE DEF d
  <2>5. /\ queue' \in Seq(Batches) /\ IsInjective(queue')
        /\ ToSet(queue') = ToSet(queue) \ {b}
    BY <1>0, <2>1, <2>2, TakenOut DEF TypeOK, QueuedBatchIsKept
  <2>6. /\ b \notin ToSet(sent) /\ b <= dropped /\ \A c \in calls : c.batch # b
    BY <1>0, <2>1 DEF InOnePlace, QueuedBatchIsKept
  <2>7. TypeOK'
    BY <1>0, <1>1, <2>3, <2>4, <2>5 DEF TypeOK
  <2>8. InOnePlace'
    <3>1. \A c, e \in calls' : c.batch = e.batch => c = e
      BY <1>0, <2>3, <2>4, <2>6 DEF InOnePlace
    <3>2. \A c \in calls' : c.batch <= dropped' /\ c.batch \notin ToSet(queue')
      BY <1>0, <1>1, <2>3, <2>4, <2>5, <2>6 DEF InOnePlace
    <3>3. \A c \in calls' : c.answer # "ok" => c.batch \notin ToSet(sent')
      BY <1>0, <1>1, <2>3, <2>4, <2>6 DEF InOnePlace
    <3> QED BY <1>0, <1>1, <2>5, <3>1, <3>2, <3>3 DEF InOnePlace
  <2>9. QueuedBatchIsKept'
    <3>1. InFlight' = InFlight \cup {b}
      BY <2>3, <2>4 DEF InFlight
    <3> QED BY <1>0, <1>1, <2>1, <2>5, <2>6, <3>1 DEF QueuedBatchIsKept
  <2>10. GoesOn'
    <3>1. d \in calls' /\ d.queued /\ d.answer # "ok" /\ d.before # None
      BY <1>1, <2>3, <2>4
    <3> QED BY <1>0, <2>4, <3>1 DEF GoesOn, ViewIsComing
  <2> QED BY <2>7, <2>8, <2>9, <2>10 DEF Holds
<1> QED BY <1>2, <1>3 DEF Finish

(* The backend takes a batch, or refuses it.                               *)
LEMMA SendKeeps ==
    ASSUME IInv, NEW c \in calls, SendFiles(c)
    PROVE  Holds'
<1>0. TypeOK /\ InOnePlace /\ QueuedBatchIsKept /\ GoesOn
  BY DEF IInv, Holds
<1>1. /\ c.answer = "none"
      /\ UNCHANGED <<queue, active, incoming, prompt, dropped>>
  BY DEF SendFiles, screen
<1>2. c \in Calls /\ c.batch \in Batches
  BY <1>0 DEF TypeOK, Calls
<1>3. ASSUME NEW a \in {"ok", "refused"}
      PROVE  LET d == [c EXCEPT !.answer = a]
             IN d \in Calls /\ d.batch = c.batch /\ d.queued = c.queued
                /\ d.before = c.before /\ d.answer = a
  BY <1>2 DEF Calls
<1>4. c.batch \notin ToSet(queue) /\ c.batch \notin ToSet(sent) /\ c.batch <= dropped
  BY <1>0, <1>1 DEF InOnePlace
<1>5. ASSUME NEW a \in {"ok", "refused"}, NEW d, d = [c EXCEPT !.answer = a],
             calls' = (calls \ {c}) \cup {d}
      PROVE  /\ d \in Calls /\ d.batch = c.batch /\ d.queued = c.queued
             /\ d.before = c.before /\ d.answer = a
             /\ calls' \subseteq Calls
             /\ \A x, y \in calls' : x.batch = y.batch => x = y
             /\ \A x \in calls' : x.batch <= dropped /\ x.batch \notin ToSet(queue)
             /\ \A x \in calls' : x.queued => x.before # None
             /\ \A x \in calls' : x # d => x \in calls /\ x.batch # c.batch
  <2>1. d \in Calls /\ d.batch = c.batch /\ d.queued = c.queued
        /\ d.before = c.before /\ d.answer = a
    BY <1>3, <1>5
  <2>2. calls' \subseteq Calls
    BY <1>0, <1>5, <2>1 DEF TypeOK
  <2>3. \A x \in calls' : x # d => x \in calls /\ x.batch # c.batch
    BY <1>0, <1>5 DEF InOnePlace
  <2>4. \A x, y \in calls' : x.batch = y.batch => x = y
    BY <1>0, <2>1, <2>3 DEF InOnePlace
  <2>5. \A x \in calls' : x.batch <= dropped /\ x.batch \notin ToSet(queue)
    BY <1>0, <1>4, <2>1, <2>3 DEF InOnePlace
  <2>6. \A x \in calls' : x.queued => x.before # None
    BY <1>0, <2>1, <2>3 DEF GoesOn
  <2> QED BY <2>1, <2>2, <2>3, <2>4, <2>5, <2>6
<1>6. CASE /\ slot' = c.batch /\ phase' = "preparing" /\ Answered(c, "ok")
           /\ events' = Append(events, Update(c.batch, phase'))
           /\ owed' = owed \ {c.batch} /\ sent' = Append(sent, c.batch)
  <2>1. PICK d : d = [c EXCEPT !.answer = "ok"] /\ calls' = (calls \ {c}) \cup {d}
    BY <1>6 DEF Answered
  <2>2. /\ d.batch = c.batch /\ d.answer = "ok"
        /\ calls' \subseteq Calls
        /\ \A x, y \in calls' : x.batch = y.batch => x = y
        /\ \A x \in calls' : x.batch <= dropped /\ x.batch \notin ToSet(queue)
        /\ \A x \in calls' : x.queued => x.before # None
        /\ \A x \in calls' : x # d => x \in calls /\ x.batch # c.batch
    BY <1>5, <2>1
  <2>3. /\ sent' \in Seq(Batches) /\ IsInjective(sent')
        /\ ToSet(sent') = ToSet(sent) \cup {c.batch}
    BY <1>0, <1>2, <1>4, <1>6, Added DEF TypeOK, QueuedBatchIsKept
  <2>4. "preparing" \in Phases /\ c.batch \in Transfers
    BY <1>2, PhasesAre, NamesAre
  <2>5. events' \in Seq(Events) /\ UpdateIn(events')
    <3>1. Update(c.batch, "preparing") \in Events /\ IsUpdate(Update(c.batch, "preparing"))
      BY <2>4, UpdatesAreEvents
    <3>2. events \in Seq(Events) /\ events' = Append(events, Update(c.batch, "preparing"))
      BY <1>0, <1>6 DEF TypeOK
    <3> QED BY <3>1, <3>2, OneMoreEvent
  <2>6. TypeOK'
    BY <1>0, <1>1, <1>6, <2>2, <2>3, <2>4, <2>5 DEF TypeOK
  <2>7. InOnePlace'
    <3>1. \A x \in calls' : x.answer # "ok" => x.batch \notin ToSet(sent')
      BY <1>0, <2>2, <2>3 DEF InOnePlace
    <3>2. \A b \in ToSet(queue) \cup ToSet(sent') : b <= dropped
      BY <1>0, <1>4, <2>3 DEF InOnePlace
    <3> QED BY <1>1, <2>2, <3>1, <3>2 DEF InOnePlace
  <2>8. QueuedBatchIsKept'
    <3>1. InFlight' = InFlight \ {c.batch}
      <4>1. \A x \in calls : x # c => x \in calls' /\ x.batch # c.batch
        BY <1>0, <2>1 DEF InOnePlace
      <4> QED BY <2>2, <4>1 DEF InFlight
    <3> QED BY <1>0, <1>1, <1>4, <1>6, <2>3, <3>1 DEF QueuedBatchIsKept
  <2>9. GoesOn'
    BY <2>2, <2>5 DEF GoesOn, ViewIsComing
  <2> QED BY <2>6, <2>7, <2>8, <2>9 DEF Holds
<1>7. CASE Answered(c, "refused") /\ UNCHANGED <<slot, phase, events, owed, sent>>
  <2>1. PICK d : d = [c EXCEPT !.answer = "refused"] /\ calls' = (calls \ {c}) \cup {d}
    BY <1>7 DEF Answered
  <2>2. /\ d.batch = c.batch /\ d.queued = c.queued /\ d.answer = "refused"
        /\ calls' \subseteq Calls
        /\ \A x, y \in calls' : x.batch = y.batch => x = y
        /\ \A x \in calls' : x.batch <= dropped /\ x.batch \notin ToSet(queue)
        /\ \A x \in calls' : x.queued => x.before # None
        /\ \A x \in calls' : x # d => x \in calls /\ x.batch # c.batch
    BY <1>5, <2>1
  <2>3. TypeOK'
    BY <1>0, <1>1, <1>7, <2>2 DEF TypeOK
  <2>4. InOnePlace'
    <3>1. \A x \in calls' : x.answer # "ok" => x.batch \notin ToSet(sent)
      BY <1>0, <1>4, <2>2 DEF InOnePlace
    <3>2. \A b \in ToSet(queue) \cup ToSet(sent) : b <= dropped
      BY <1>0 DEF InOnePlace
    <3> QED BY <1>1, <1>7, <2>2, <3>1, <3>2 DEF InOnePlace
  <2>5. QueuedBatchIsKept'
    <3>1. InFlight' = InFlight
      <4>1. \A x \in calls : x # c => x \in calls'
        BY <2>1
      <4>2. d \in calls'
        BY <2>1
      <4> QED BY <1>1, <2>2, <4>1, <4>2 DEF InFlight
    <3> QED BY <1>0, <1>1, <1>7, <3>1 DEF QueuedBatchIsKept
  <2>6. GoesOn'
    <3>1. (\E x \in calls : x.queued /\ x.answer # "ok")
            => \E x \in calls' : x.queued /\ x.answer # "ok"
      <4> SUFFICES ASSUME NEW x \in calls, x.queued, x.answer # "ok"
                   PROVE  \E y \in calls' : y.queued /\ y.answer # "ok"
        OBVIOUS
      <4>1. CASE x = c
        BY <2>1, <2>2, <4>1
      <4>2. CASE x # c
        BY <2>1, <4>2
      <4> QED BY <4>1, <4>2
    <3> QED BY <1>0, <1>1, <1>7, <2>2, <3>1 DEF GoesOn, ViewIsComing, Runner
  <2> QED BY <2>3, <2>4, <2>5, <2>6 DEF Holds
<1> QED BY <1>6, <1>7 DEF SendFiles, history

(* A refused batch returns to the queue and what was shown to the window.  *)
LEMMA ReturnKeeps ==
    ASSUME IInv, NEW c \in calls, SendFilesReturns(c)
    PROVE  Holds'
<1>0. TypeOK /\ InOnePlace /\ QueuedBatchIsKept /\ GoesOn
  BY DEF IInv, Holds
<1>1. /\ c.answer # "none" /\ calls' = calls \ {c}
      /\ UNCHANGED <<incoming, prompt, dropped, slot, phase, events, owed, sent>>
  BY DEF SendFilesReturns, transfer, history
<1>2. c \in Calls /\ c.batch \in Batches /\ c.before \in Views \cup {None}
      /\ c.answer \in {"none", "ok", "refused"} /\ c.queued \in BOOLEAN
  BY <1>0 DEF TypeOK, Calls
<1>3. /\ calls' \subseteq Calls
      /\ \A x, y \in calls' : x.batch = y.batch => x = y
      /\ \A x \in calls' : x.batch <= dropped /\ x.batch \notin ToSet(queue) /\ x.batch # c.batch
      /\ \A x \in calls' : x.answer # "ok" => x.batch \notin ToSet(sent)
      /\ \A x \in calls' : x.queued => x.before # None
  BY <1>0, <1>1 DEF TypeOK, InOnePlace, GoesOn
<1>4. CASE c.queued /\ c.answer = "refused"
  <2>1. queue' = Restored(c.batch) /\ active' = c.before
    BY <1>4 DEF SendFilesReturns, ViewAfterRefusal
  <2>2. c.batch \notin ToSet(queue) /\ c.batch \notin ToSet(sent) /\ c.batch <= dropped
    BY <1>0, <1>4 DEF InOnePlace
  <2>3. Restored(c.batch) = <<c.batch>> \o queue
    BY <2>2, Zenon DEF Restored, Without
  <2>4. /\ queue' \in Seq(Batches) /\ IsInjective(queue')
        /\ ToSet(queue') = ToSet(queue) \cup {c.batch}
    <3>1. /\ <<c.batch>> \o queue \in Seq(Batches) /\ IsInjective(<<c.batch>> \o queue)
          /\ ToSet(<<c.batch>> \o queue) = ToSet(queue) \cup {c.batch}
      BY <1>0, <1>2, <2>2, PutInFront DEF TypeOK, QueuedBatchIsKept
    <3> QED BY <2>1, <2>3, <3>1, Zenon
  <2>5. active' # None
    BY <1>0, <1>4, <2>1 DEF GoesOn
  <2>6. TypeOK'
    BY <1>0, <1>1, <1>2, <1>3, <2>1, <2>4 DEF TypeOK
  <2>7. InOnePlace'
    BY <1>0, <1>1, <1>3, <2>2, <2>4 DEF InOnePlace
  <2>8. QueuedBatchIsKept'
    <3>1. InFlight = InFlight' \cup {c.batch} /\ c.batch \notin InFlight'
      BY <1>1, <1>3, <1>4 DEF InFlight
    <3> QED BY <1>0, <1>1, <2>2, <2>4, <3>1 DEF QueuedBatchIsKept
  <2>9. GoesOn'
    BY <1>3, <2>5 DEF GoesOn, ViewIsComing
  <2> QED BY <2>6, <2>7, <2>8, <2>9 DEF Holds
<1>5. CASE ~(c.queued /\ c.answer = "refused")
  <2>1. UNCHANGED <<queue, active>>
    BY <1>5 DEF SendFilesReturns
  <2>2. ~(c.queued /\ c.answer # "ok")
    BY <1>1, <1>2, <1>5
  <2>3. TypeOK'
    BY <1>0, <1>1, <1>3, <2>1 DEF TypeOK
  <2>4. InOnePlace'
    BY <1>0, <1>1, <1>3, <2>1 DEF InOnePlace
  <2>5. QueuedBatchIsKept'
    <3>1. InFlight' = InFlight
      BY <1>1, <2>2 DEF InFlight
    <3> QED BY <1>0, <1>1, <2>1, <3>1 DEF QueuedBatchIsKept
  <2>6. GoesOn'
    BY <1>0, <1>1, <1>3, <2>1, <2>2 DEF GoesOn, ViewIsComing, Runner
  <2> QED BY <2>3, <2>4, <2>5, <2>6 DEF Holds
<1> QED BY <1>4, <1>5

-----------------------------------------------------------------------------
(* What the window is told of a transfer last is its end.                  *)
LEMMA PhaseKinds ==
    /\ Terminal("failed") /\ Terminal("completed")
    /\ ~Terminal("preparing") /\ ~Terminal("waiting_for_acceptance") /\ ~Terminal("transferring")
BY DEF Terminal, PhaseOrder

(* An event more, from the running transfer or about its end, leaves each  *)
(* end behind what is said of its transfer.                                *)
LEMMA EndStaysLast ==
    ASSUME NEW s \in Seq(Events), NEW e \in Events, NEW r, NEW q,
           EndsLast(s, r), r = None \/ r = q \/ IsEnd(e, r),
           e.type # "trust" => e.id = q \/ IsEnd(e, e.id)
    PROVE  /\ EndsLast(Append(s, e), q)
           /\ \A t \in Transfers : Expected(t, s, r) => Expected(t, Append(s, e), q)
<1> DEFINE a == Append(s, e)
           n == Len(s) + 1
<1>1. /\ Len(a) = n /\ a[n] = e /\ Len(s) \in Nat
      /\ \A i \in 1..Len(s) : a[i] = s[i]
  OBVIOUS
<1> HIDE DEF a
<1>2. ASSUME NEW t, NEW i \in 1..Len(s), EndIn(s, t, i) PROVE EndIn(a, t, i)
  <2>1. PICK j \in i..Len(s) : IsEnd(s[j], t)
    BY <1>2 DEF EndIn
  <2>2. j \in i..Len(a) /\ a[j] = s[j]
    BY <1>1, <2>1
  <2> QED BY <2>1, <2>2 DEF EndIn
<1>3. ASSUME NEW t, NEW i \in 1..n, IsEnd(e, t) PROVE EndIn(a, t, i)
  <2>1. n \in i..Len(a)
    BY <1>1
  <2> QED BY <1>1, <1>3, <2>1 DEF EndIn
<1>4. ASSUME NEW t \in Transfers, NEW i \in 1..n, t = r PROVE t = q \/ EndIn(a, t, i)
  <2>1. t # None
    BY NamesAre
  <2> QED BY <1>3, <1>4, <2>1
<1>5. EndsLast(a, q)
  <2> SUFFICES ASSUME NEW i \in 1..Len(a), a[i].type # "trust"
               PROVE  a[i].id = q \/ EndIn(a, a[i].id, i)
    BY DEF EndsLast
  <2>1. CASE i = n
    BY <1>1, <1>3, <2>1
  <2>2. CASE i # n
    <3>1. i \in 1..Len(s) /\ a[i] = s[i] /\ s[i] \in Events /\ i \in 1..n
      BY <1>1, <2>2
    <3>2. s[i].id \in Transfers
      BY <3>1, NamesAre DEF Events
    <3>3. s[i].id = r \/ EndIn(s, s[i].id, i)
      BY <3>1 DEF EndsLast
    <3> QED BY <1>2, <1>4, <3>1, <3>2, <3>3
  <2> QED BY <2>1, <2>2
<1>6. ASSUME NEW t \in Transfers, Expected(t, s, r) PROVE Expected(t, a, q)
  <2>1. 1 \in 1..n
    BY <1>1
  <2>2. CASE t = r
    BY <1>4, <2>1, <2>2 DEF Expected
  <2>3. CASE EndIn(s, t, 1)
    <3>1. 1 \in 1..Len(s)
      BY <1>1, <2>3 DEF EndIn
    <3> QED BY <1>2, <2>3, <3>1 DEF Expected
  <2> QED BY <1>6, <2>2, <2>3 DEF Expected
<1> QED BY <1>5, <1>6 DEF a

(* Steps that report something, or nothing.                                *)
LEMMA ReportsKeep ==
    ASSUME IInv, UNCHANGED <<active, incoming>>,
           \A c \in calls' : c.queued => Terminal(c.before.phase),
           \/ UNCHANGED events /\ Runner' = Runner
           \/ EndsLast(events', Runner')
              /\ \A t \in Transfers : Expected(t, events, Runner) => Expected(t, events', Runner')
    PROVE  EndIsComing'
<1>1. EndIsComing /\ TypeOK
  BY DEF IInv, Holds
<1>2. /\ active # None => active.id \in Transfers
      /\ incoming # None => incoming \in Transfers
  BY <1>1, NamesAre DEF TypeOK, Views
<1> QED BY <1>1, <1>2 DEF EndIsComing

(* The events the backend emits.                                           *)
LEMMA BackendKeepsEnds ==
    ASSUME IInv,
           \/ \E yes \in BOOLEAN : RespondToIncoming(yes)
           \/ TransferTask \/ \E i \in Incomings : Request(i)
           \/ \E p \in Prompts : AskTrust(p) \/ Expire(p)
    PROVE  EndIsComing'
<1>0. TypeOK /\ EndIsComing
  BY DEF IInv, Holds
<1>1. /\ slot \in Transfers \cup {None} /\ events \in Seq(Events)
      /\ EndsLast(events, Runner)
      /\ \A c \in calls : c.queued => Terminal(c.before.phase)
  BY <1>0 DEF TypeOK, EndIsComing
<1>2. ASSUME UNCHANGED <<active, incoming, calls>>, NEW e \in Events,
             events' = Append(events, e),
             Runner = None \/ Runner = Runner' \/ IsEnd(e, Runner),
             e.type # "trust" => e.id = Runner' \/ IsEnd(e, e.id)
      PROVE  EndIsComing'
  <2>1. /\ EndsLast(Append(events, e), Runner')
        /\ \A t \in Transfers :
             Expected(t, events, Runner) => Expected(t, Append(events, e), Runner')
    BY <1>1, <1>2, EndStaysLast, Zenon
  <2>2. /\ EndsLast(events', Runner')
        /\ \A t \in Transfers : Expected(t, events, Runner) => Expected(t, events', Runner')
    BY <1>2, <2>1
  <2> QED BY <1>1, <1>2, <2>2, ReportsKeep
<1>3. ASSUME UNCHANGED <<active, incoming, calls, events>>, Runner' = Runner PROVE EndIsComing'
  BY <1>1, <1>3, ReportsKeep
<1>4. ASSUME NEW yes \in BOOLEAN, RespondToIncoming(yes) PROVE EndIsComing'
  <2>1. /\ UNCHANGED <<active, incoming, calls, slot>>
        /\ slot # None /\ phase = "waiting_for_acceptance"
        /\ \/ UNCHANGED <<phase, events>>
           \/ phase' = "failed" /\ events' = Append(events, Update(slot, "failed"))
    BY <1>4 DEF RespondToIncoming, screen
  <2>2. CASE UNCHANGED <<phase, events>>
    BY <1>3, <2>1, <2>2 DEF Runner
  <2>3. CASE phase' = "failed" /\ events' = Append(events, Update(slot, "failed"))
    <3>1. Runner = slot /\ slot \in Transfers
      BY <1>1, <2>1, PhaseKinds DEF Runner
    <3>2. Update(slot, "failed") \in Events /\ IsEnd(Update(slot, "failed"), slot)
      BY <3>1, PhasesAre, PhaseKinds, UpdatesAreEvents DEF IsEnd, Update
    <3> QED BY <1>2, <2>1, <2>3, <3>1, <3>2 DEF Update
  <2> QED BY <2>1, <2>2, <2>3
<1>5. CASE Advance
  <2>1. /\ UNCHANGED <<active, incoming, calls>> /\ slot \in Transfers
        /\ Runner = slot /\ Runner' = slot
        /\ events' = Append(events, Update(slot, "transferring"))
    BY <1>1, <1>5, PhaseKinds DEF Advance, screen, user, Runner
  <2>2. Update(slot, "transferring") \in Events /\ Update(slot, "transferring").id = slot
    BY <2>1, PhasesAre, UpdatesAreEvents DEF Update
  <2> QED BY <1>2, <2>1, <2>2
<1>6. CASE End
  <2>1. /\ UNCHANGED <<active, incoming, calls>> /\ slot \in Transfers /\ Runner = slot
        /\ phase' \in {"failed", "completed"}
        /\ events' = Append(events, Update(slot, phase'))
    BY <1>1, <1>6 DEF End, screen, user, Runner
  <2>2. Terminal(phase') /\ phase' \in Phases
    BY <2>1, PhaseKinds, PhasesAre
  <2>3. /\ Update(slot, phase') \in Events /\ Update(slot, phase').id = slot
        /\ IsEnd(Update(slot, phase'), slot)
    BY <2>1, <2>2, UpdatesAreEvents DEF IsEnd, Update
  <2> QED BY <1>2, <2>1, <2>3
<1>7. CASE FreeSlot
  BY <1>3, <1>7 DEF FreeSlot, screen, user, Runner
<1>8. ASSUME NEW i \in Incomings, Request(i) PROVE EndIsComing'
  <2> DEFINE u == Update(i, "waiting_for_acceptance")
             a == [type |-> "incoming", id |-> i]
             one == Append(events, u)
  <2>1. /\ UNCHANGED <<active, incoming, calls>>
        /\ Runner = None /\ Runner' = i
        /\ events' = events \o <<u, a>>
    BY <1>8, NamesAre, PhaseKinds DEF Request, screen, user, Runner
  <2>2. u \in Events /\ a \in Events /\ u.id = i /\ a.id = i
    <3>1. i \in Transfers /\ "waiting_for_acceptance" \in Phases
      BY NamesAre, PhasesAre
    <3> QED BY <3>1, UpdatesAreEvents DEF Update, Events
  <2> HIDE DEF u, a
  <2>3. events' = Append(one, a) /\ one \in Seq(Events)
    BY <1>1, <2>1, <2>2
  <2> HIDE DEF one
  <2>4. EndsLast(one, i) /\ \A t \in Transfers : Expected(t, events, None) => Expected(t, one, i)
    BY <1>1, <2>1, <2>2, EndStaysLast, Zenon DEF one
  <2>5. EndsLast(Append(one, a), i)
        /\ \A t \in Transfers : Expected(t, one, i) => Expected(t, Append(one, a), i)
    BY <2>2, <2>3, <2>4, EndStaysLast, Zenon
  <2>6. EndsLast(events', Runner')
        /\ \A t \in Transfers : Expected(t, events, Runner) => Expected(t, events', Runner')
    BY <2>1, <2>3, <2>4, <2>5
  <2> QED BY <1>1, <2>1, <2>6, ReportsKeep
<1>9. ASSUME NEW p \in Prompts, AskTrust(p) PROVE EndIsComing'
  <2>1. [type |-> "trust", id |-> p] \in Events /\ [type |-> "trust", id |-> p].type = "trust"
    BY DEF Events
  <2>2. /\ events' = Append(events, [type |-> "trust", id |-> p])
        /\ UNCHANGED <<active, incoming, calls>> /\ Runner' = Runner
    BY <1>9 DEF AskTrust, screen, user, transfer, Runner
  <2> QED BY <1>2, <2>1, <2>2
<1>10. ASSUME NEW p \in Prompts, Expire(p) PROVE EndIsComing'
  BY <1>3, <1>10 DEF Expire, screen, user, transfer, Runner
<1> QED BY <1>4, <1>5, <1>6, <1>7, <1>8, <1>9, <1>10 DEF TransferTask

(* A command that returns shows a finished transfer or closes a request.   *)
LEMMA CommandsKeepEnds ==
    ASSUME IInv,
           \/ Drop \/ Finish \/ \E b \in Batches : RemoveQueued(b)
           \/ \E c \in calls : SendFiles(c) \/ SendFilesReturns(c)
           \/ \E i \in Incomings : DeclineReturns(i)
           \/ RespondToTrust \/ TrustReturns \/ UNCHANGED vars
    PROVE  EndIsComing'
<1>0. TypeOK /\ EndIsComing
  BY DEF IInv, Holds
<1>1. /\ events \in Seq(Events) /\ calls \subseteq Calls
      /\ EndsLast(events, Runner)
      /\ active # None /\ ~Terminal(active.phase) => Expected(active.id, events, Runner)
      /\ incoming # None => Expected(incoming, events, Runner)
      /\ \A c \in calls : c.queued => Terminal(c.before.phase)
  BY <1>0 DEF TypeOK, EndIsComing
<1>2. ASSUME UNCHANGED events, Runner' = Runner,
             active' = active \/ active' = None \/ Terminal(active'.phase),
             incoming' = incoming \/ incoming' = None,
             \A c \in calls' : c.queued => Terminal(c.before.phase)
      PROVE  EndIsComing'
  BY <1>1, <1>2 DEF EndIsComing
<1>3. CASE Drop
  <2>1. \A c \in calls' : c \in calls \/ ~c.queued
    BY <1>3 DEF Drop, Call
  <2> QED BY <1>1, <1>2, <1>3, <2>1 DEF Drop, transfer, Runner
<1>4. CASE Finish
  <2>1. \A c \in calls' : c \in calls \/ c.before = active
    BY <1>4 DEF Finish, Call
  <2> QED BY <1>1, <1>2, <1>4, <2>1 DEF Finish, transfer, Runner
<1>5. ASSUME NEW b \in Batches, RemoveQueued(b) PROVE EndIsComing'
  BY <1>1, <1>2, <1>5 DEF RemoveQueued, user, transfer, Runner
<1>6. ASSUME NEW c \in calls, SendFiles(c) PROVE EndIsComing'
  <2>1. ASSUME NEW a \in {"ok", "refused"}, Answered(c, a)
        PROVE  \A d \in calls' : d.queued => Terminal(d.before.phase)
    <3>1. c \in Calls
      BY <1>1
    <3>2. [c EXCEPT !.answer = a].queued = c.queued /\ [c EXCEPT !.answer = a].before = c.before
      BY <3>1 DEF Calls
    <3> QED BY <1>1, <2>1, <3>2 DEF Answered
  <2>2. CASE /\ slot = None /\ slot' = c.batch /\ phase' = "preparing" /\ Answered(c, "ok")
             /\ events' = Append(events, Update(c.batch, phase'))
    <3> DEFINE e == Update(c.batch, "preparing")
    <3>1. c.batch \in Transfers /\ c.batch # None
      BY <1>1, NamesAre DEF Calls
    <3>2. Runner = None /\ Runner' = c.batch
      BY <2>2, <3>1, PhaseKinds DEF Runner
    <3>3. e \in Events /\ e.id = c.batch
      BY <3>1, PhasesAre, UpdatesAreEvents DEF Update
    <3>4. events' = Append(events, e)
      BY <2>2
    <3> HIDE DEF e
    <3>5. EndsLast(Append(events, e), Runner') /\ \A t \in Transfers :
             Expected(t, events, Runner) => Expected(t, Append(events, e), Runner')
      BY <1>1, <3>2, <3>3, EndStaysLast, Zenon
    <3>6. UNCHANGED <<active, incoming>>
      BY <1>6 DEF SendFiles, screen
    <3>7. \A d \in calls' : d.queued => Terminal(d.before.phase)
      BY <2>1, <2>2
    <3>8. EndsLast(events', Runner') /\ \A t \in Transfers :
             Expected(t, events, Runner) => Expected(t, events', Runner')
      BY <3>4, <3>5
    <3> QED BY <3>6, <3>7, <3>8, ReportsKeep
  <2>3. CASE Answered(c, "refused") /\ UNCHANGED <<slot, phase, events>>
    <3>1. \A d \in calls' : d.queued => Terminal(d.before.phase)
      BY <2>1, <2>3
    <3>2. UNCHANGED <<active, incoming>>
      BY <1>6 DEF SendFiles, screen
    <3> QED BY <1>2, <2>3, <3>1, <3>2 DEF Runner
  <2> QED BY <1>6, <2>2, <2>3 DEF SendFiles
<1>7. ASSUME NEW c \in calls, SendFilesReturns(c) PROVE EndIsComing'
  <2>1. /\ calls' = calls \ {c} /\ UNCHANGED <<incoming, slot, phase, events>>
        /\ active' = active \/ (c.queued /\ active' = c.before)
    BY <1>7 DEF SendFilesReturns, ViewAfterRefusal, transfer
  <2> QED BY <1>1, <1>2, <2>1 DEF Runner
<1>8. ASSUME NEW i \in Incomings, DeclineReturns(i) PROVE EndIsComing'
  BY <1>1, <1>2, <1>8 DEF DeclineReturns, transfer, Runner
<1>9. CASE RespondToTrust
  BY <1>1, <1>2, <1>9 DEF RespondToTrust, screen, transfer, Runner
<1>10. CASE TrustReturns
  BY <1>1, <1>2, <1>10 DEF TrustReturns, transfer, Runner
<1>11. CASE UNCHANGED vars
  BY <1>1, <1>2, <1>11 DEF vars, screen, user, transfer, Runner
<1> QED BY <1>3, <1>4, <1>5, <1>6, <1>7, <1>8, <1>9, <1>10, <1>11

(* The window learns of an end when that end leaves the events.            *)
LEMMA DeliverKeepsEnds ==
    ASSUME IInv, Deliver
    PROVE  EndIsComing'
<1> DEFINE e == Head(events)
<1>0. TypeOK /\ EndIsComing
  BY DEF IInv, Holds
<1>1. /\ events # <<>> /\ events' = Tail(events)
      /\ UNCHANGED <<calls, slot, phase>>
      /\ \/ e.type = "update" /\ Shows(e)
         \/ e.type = "incoming" /\ AsksForFiles(e)
         \/ e.type = "trust" /\ AsksForTrust(e)
  BY DEF Deliver, user, transfer
<1>2. /\ e \in Events /\ e = events[1] /\ Len(events) \in Nat /\ Len(events) > 0
      /\ Len(events') = Len(events) - 1
      /\ \A i \in 1..Len(events') : events'[i] = events[i + 1]
  BY <1>0, <1>1 DEF TypeOK
<1> HIDE DEF e
<1>3. Runner' = Runner
  BY <1>1 DEF Runner
<1>4. /\ EndsLast(events, Runner)
      /\ active # None /\ ~Terminal(active.phase) => Expected(active.id, events, Runner)
      /\ incoming # None => Expected(incoming, events, Runner)
      /\ \A c \in calls : c.queued => Terminal(c.before.phase)
  BY <1>0 DEF EndIsComing
<1>5. ASSUME NEW t, NEW i \in 1..Len(events), EndIn(events, t, i), i > 1 \/ ~IsEnd(e, t)
      PROVE  EndIn(events', t, IF i > 1 THEN i - 1 ELSE 1)
  <2>1. PICK j \in i..Len(events) : IsEnd(events[j], t)
    BY <1>5 DEF EndIn
  <2>2. j # 1
    BY <1>2, <1>5, <2>1
  <2>3. PICK k \in 1..Len(events') : k = j - 1 /\ k + 1 = j
    BY <1>2, <2>1, <2>2
  <2>4. events'[k] = events[j]
    BY <1>2, <2>3
  <2>5. k \in (IF i > 1 THEN i - 1 ELSE 1)..Len(events')
    BY <1>2, <2>1, <2>3
  <2> QED BY <2>1, <2>4, <2>5 DEF EndIn
<1>6. EndsLast(events', Runner')
  <2> SUFFICES ASSUME NEW i \in 1..Len(events'), events'[i].type # "trust"
               PROVE  events'[i].id = Runner' \/ EndIn(events', events'[i].id, i)
    BY DEF EndsLast
  <2>1. PICK k \in 1..Len(events) : k = i + 1 /\ k > 1 /\ k - 1 = i
    BY <1>2
  <2>2. events'[i] = events[k]
    BY <1>2, <2>1
  <2>3. events[k].id = Runner \/ EndIn(events, events[k].id, k)
    BY <1>4, <2>2 DEF EndsLast
  <2>4. EndIn(events, events[k].id, k) => EndIn(events', events[k].id, i)
    BY <1>5, <2>1
  <2> QED BY <1>3, <2>2, <2>3, <2>4
<1>7. ASSUME NEW t, Expected(t, events, Runner), ~IsEnd(e, t)
      PROVE  Expected(t, events', Runner')
  <2>1. 1 \in 1..Len(events)
    BY <1>2
  <2>2. EndIn(events, t, 1) => EndIn(events', t, 1)
    BY <1>5, <1>7, <2>1
  <2> QED BY <1>3, <1>7, <2>2 DEF Expected
<1>8. e.type # "trust" => Expected(e.id, events, Runner)
  <2>1. 1 \in 1..Len(events)
    BY <1>2
  <2> QED BY <1>2, <1>4, <2>1 DEF EndsLast, Expected
<1>9. \A c \in calls' : c.queued => Terminal(c.before.phase)
  BY <1>1, <1>4
<1>10. ASSUME active' # None, ~Terminal(active'.phase)
       PROVE  Expected(active'.id, events', Runner')
  <2>1. CASE e.type = "update" /\ active' = [id |-> e.id, phase |-> e.phase]
    <3>1. active'.id = e.id /\ active'.phase = e.phase
      BY <2>1
    <3>2. ~IsEnd(e, e.id)
      BY <1>10, <3>1 DEF IsEnd
    <3> QED BY <1>7, <1>8, <2>1, <3>1, <3>2
  <2>2. CASE active' = active
    <3>1. Expected(active.id, events, Runner)
      BY <1>4, <1>10, <2>2
    <3>2. ~IsEnd(e, active.id)
      <4> SUFFICES ASSUME IsEnd(e, active.id) PROVE FALSE
        OBVIOUS
      <4>1. e.type = "update" /\ e.id = active.id /\ Terminal(e.phase) /\ Shows(e)
        BY <1>1 DEF IsEnd, IsUpdate
      <4>2. active' = [id |-> e.id, phase |-> e.phase]
        BY <1>10, <2>2, <4>1 DEF Shows, ShouldAccept
      <4> QED BY <1>10, <4>1, <4>2
    <3> QED BY <1>7, <2>2, <3>1, <3>2
  <2>3. \/ e.type = "update" /\ active' = [id |-> e.id, phase |-> e.phase]
        \/ active' = active
    BY <1>1, <1>10 DEF Shows, AsksForFiles, AsksForTrust
  <2> QED BY <2>1, <2>2, <2>3
<1>11. ASSUME incoming' # None PROVE Expected(incoming', events', Runner')
  <2>1. CASE e.type = "incoming" /\ incoming' = e.id
    <3>1. ~IsEnd(e, e.id)
      BY <2>1 DEF IsEnd, IsUpdate
    <3> QED BY <1>7, <1>8, <2>1, <3>1
  <2>2. CASE incoming' = incoming
    <3>1. ~IsEnd(e, incoming)
      <4> SUFFICES ASSUME IsEnd(e, incoming) PROVE FALSE
        OBVIOUS
      <4>1. e.type = "update" /\ e.id = incoming /\ Terminal(e.phase) /\ Shows(e)
        BY <1>1 DEF IsEnd, IsUpdate
      <4>2. e.phase # "waiting_for_acceptance"
        BY <4>1, PhaseKinds
      <4> QED BY <1>11, <2>2, <4>1, <4>2 DEF Shows, AnswersRequest
    <3> QED BY <1>4, <1>7, <1>11, <2>2, <3>1
  <2>3. \/ e.type = "incoming" /\ incoming' = e.id
        \/ incoming' = incoming
    BY <1>1, <1>11 DEF Shows, AsksForFiles, AsksForTrust
  <2> QED BY <2>1, <2>2, <2>3
<1> QED BY <1>6, <1>9, <1>10, <1>11 DEF EndIsComing

-----------------------------------------------------------------------------
(* An empty queue waits for nobody.                                        *)
LEMMA InitHolds == Init => IInv
<1> SUFFICES ASSUME Init PROVE IInv
  OBVIOUS
<1>1. TypeOK
  BY PhasesAre, InterfaceAssumption DEF Init, TypeOK
<1>2. InOnePlace /\ GoesOn
  BY DEF Init, InOnePlace, GoesOn, ToSet
<1>3. QueuedBatchIsKept
  BY DEF Init, QueuedBatchIsKept, InFlight, ToSet, IsInjective
<1>4. EndIsComing
  BY DEF Init, EndIsComing, EndsLast
<1> QED BY <1>1, <1>2, <1>3, <1>4 DEF IInv, Holds

THEOREM Invariant == Spec => []IInv
<1>1. IInv /\ [Next]_vars => IInv'
  <2> SUFFICES ASSUME IInv, [Next]_vars PROVE IInv'
    OBVIOUS
  <2>1. CASE Drop \/ Finish \/ \E b \in Batches : RemoveQueued(b)
    BY <2>1, DropKeeps, FinishKeeps, RemoveKeeps, CommandsKeepEnds DEF IInv
  <2>2. CASE Deliver
    BY <2>2, DeliverKeeps, DeliverKeepsEnds DEF IInv
  <2>3. CASE \E c \in calls : SendFiles(c) \/ SendFilesReturns(c)
    BY <2>3, SendKeeps, ReturnKeeps, CommandsKeepEnds DEF IInv
  <2>4. CASE (\E i \in Incomings : DeclineReturns(i)) \/ RespondToTrust \/ TrustReturns
             \/ UNCHANGED vars
    BY <2>4, OthersKeep, CommandsKeepEnds DEF IInv
  <2>5. CASE \/ TransferTask \/ \E yes \in BOOLEAN : RespondToIncoming(yes)
             \/ \E i \in Incomings : Request(i)
             \/ \E p \in Prompts : AskTrust(p) \/ Expire(p)
    BY <2>5, OthersKeep, BackendKeepsEnds DEF IInv
  <2> QED BY <2>1, <2>2, <2>3, <2>4, <2>5 DEF Next, Window
<1> QED BY <1>1, InitHolds, PTL DEF Spec

(* However commands and events overtake each other, a batch the user       *)
(* queued is in one place until the backend took it or the user removed    *)
(* it: main.tsx takes it out of the queue before it is sent, and puts it   *)
(* back when it is refused.                                                *)
THEOREM NoBatchIsLost == Spec => []QueuedBatchIsKept
<1>1. IInv => QueuedBatchIsKept
  BY DEF IInv, Holds
<1> QED BY <1>1, Invariant, PTL

(* When all is quiet, the panel of a finished transfer waits with the      *)
(* button that starts the queue, and no request that is over hides it: the *)
(* last thing main.tsx hears of a transfer is its end.                     *)
THEOREM QueueGoesOn == Spec => []QueueCanContinue
<1>1. IInv => QueueCanContinue
  <2> SUFFICES ASSUME IInv, Quiet, queue # <<>>
               PROVE  active # None /\ Terminal(active.phase) /\ incoming = None
    BY DEF QueueCanContinue
  <2>1. TypeOK /\ ViewIsComing /\ EndIsComing
    BY DEF IInv, Holds, GoesOn
  <2>2. Len(events) = 0 /\ calls = {} /\ slot = None
    BY DEF Quiet
  <2>3. Runner = None /\ ~UpdateIn(events) /\ \A t \in Transfers : ~Expected(t, events, Runner)
    BY <2>2, NamesAre DEF Runner, UpdateIn, Expected, EndIn
  <2>4. incoming = None
    BY <2>1, <2>3, NamesAre DEF TypeOK, EndIsComing
  <2>5. active # None
    BY <2>1, <2>2, <2>3 DEF ViewIsComing
  <2>6. Terminal(active.phase)
    <3>1. active.id \in Transfers
      BY <2>1, <2>5 DEF TypeOK, Views
    <3> QED BY <2>1, <2>3, <2>5, <3>1 DEF EndIsComing
  <2> QED BY <2>4, <2>5, <2>6
<1> QED BY <1>1, Invariant, PTL

-----------------------------------------------------------------------------
(* The updater's controller, for any number of updates on offer and of     *)
(* transfers at the same time.  It relies on this without a lock: the one  *)
(* operation under way is the coroutine suspended at an await, and nothing *)
(* but that coroutine touches what it read before.                         *)

(* Where the two coroutines can be suspended.                              *)
Holding == {"granted", "install", "relaunch", "release"}

Suspended ==
    /\ check \in {"off", "asking", "closing"}
    /\ update \in {"off", "download", "gate"} \cup Holding
    /\ operation \in {"none", "check", "update"}
    /\ operation = "check"  <=> check # "off"
    /\ operation = "update" <=> update # "off"

(* The gate is held by the update, and nothing runs beside it.             *)
GateIsExclusive ==
    /\ work \in Nat
    /\ gate <=> update \in Holding \/ stranded
    /\ stranded => update \notin Holding
    /\ gate => work = 0
    /\ exited => update \in {"install", "relaunch"}

(* What is on offer, downloaded and used, unless the controller is gone.   *)
OfferIsKept ==
    /\ update \in {"gate", "granted", "install", "relaunch"} => fetched = using
    /\ disposal = "no" =>
         /\ check # "off" => candidate = NoUpdate
         /\ update # "off" => candidate = using
         /\ downloaded => fetched = candidate
         /\ update \in {"gate", "granted", "install", "relaunch"} => downloaded
         /\ candidate # NoUpdate =>
              kind \in {"available", "downloading", "ready", "installing", "failed"}

UpdaterInv == Suspended /\ GateIsExclusive /\ OfferIsKept

-----------------------------------------------------------------------------
(* Nothing is under way when the controller is created.                    *)
LEMMA UpdaterStarts == UpdaterInit => UpdaterInv
BY DEF UpdaterInit, UpdaterInv, Suspended, GateIsExclusive, OfferIsKept, Holding

(* Steps of a check: no update is under way, and nothing is on offer.      *)
LEMMA CheckKeeps ==
    ASSUME UpdaterInv, ~exited,
           (\E byUser \in BOOLEAN : Check(byUser)) \/ Checks
    PROVE  UpdaterInv'
<1> USE DEF UpdaterInv, Suspended, GateIsExclusive, OfferIsKept, Holding
<1> USE DEF checking, updating, backend, inputs,
            Show, UpdateEnds, CheckEnds, FailedCheck
<1>1. CASE \E byUser \in BOOLEAN : Check(byUser)
  BY <1>1 DEF Check, MayCheck
<1>2. CASE NothingNew
  BY <1>2 DEF NothingNew
<1>3. CASE RejectOffer
  BY <1>3 DEF RejectOffer
<1>4. CASE CloseRejected
  BY <1>4 DEF CloseRejected
<1>5. CASE AcceptOffer
  BY <1>5 DEF AcceptOffer
<1>6. CASE CheckFails
  BY <1>6 DEF CheckFails
<1> QED BY <1>1, <1>2, <1>3, <1>4, <1>5, <1>6 DEF Checks

(* Steps of an update: no check is under way, and the gate goes with it.   *)
LEMMA UpdateKeeps ==
    ASSUME UpdaterInv, ~exited, StartUpdate \/ Updates
    PROVE  UpdaterInv'
<1> USE DEF UpdaterInv, Suspended, GateIsExclusive, OfferIsKept, Holding
<1> USE DEF checking, updating, backend, inputs,
            Show, UpdateEnds, CheckEnds, FailedCheck
<1>1. CASE StartUpdate
  BY <1>1 DEF StartUpdate
<1>2. CASE Downloaded
  BY <1>2 DEF Downloaded
<1>3. CASE DownloadFails
  BY <1>3 DEF DownloadFails
<1>4. CASE BeginInstall
  BY <1>4 DEF BeginInstall, GateIsFree
<1>5. CASE Install
  BY <1>5 DEF Install
<1>6. CASE InstallOrRelaunchFails
  BY <1>6 DEF InstallOrRelaunchFails, AfterFailure
<1>7. CASE Installed
  BY <1>7 DEF Installed
<1>8. CASE Relaunch
  BY <1>8 DEF Relaunch
<1>9. CASE EndInstall
  <2>1. Suspended'
    BY <1>9 DEF EndInstall
  <2>2. GateIsExclusive'
    <3>1. /\ update \in Holding /\ update' \notin Holding /\ gate /\ ~stranded
          /\ UNCHANGED <<work, exited>> /\ work = 0 /\ ~exited
      BY <1>9 DEF EndInstall
    <3>2. CASE gate' = FALSE /\ UNCHANGED stranded
      BY <3>1, <3>2
    <3>3. CASE stranded' = TRUE /\ UNCHANGED gate
      BY <3>1, <3>3
    <3> QED BY <1>9, <3>2, <3>3 DEF EndInstall
  <2>3. OfferIsKept'
    BY <1>9 DEF EndInstall
  <2> QED BY <2>1, <2>2, <2>3
<1> QED BY <1>1, <1>2, <1>3, <1>4, <1>5, <1>6, <1>7, <1>8, <1>9 DEF Updates

(* Steps between the awaits: disposal, settings, and transfers that come   *)
(* and go.                                                                 *)
LEMMA BetweenAwaitsKeeps ==
    ASSUME UpdaterInv, ~exited,
           \/ Dispose \/ Disposed
           \/ SetTransferBusy \/ SetAutomaticChecks
           \/ WorkBegins \/ WorkEnds
    PROVE  UpdaterInv'
<1> USE DEF UpdaterInv, Suspended, GateIsExclusive, OfferIsKept, Holding
<1> USE DEF checking, updating, backend, inputs,
            Show, UpdateEnds, CheckEnds, FailedCheck
<1>1. CASE Dispose
  BY <1>1 DEF Dispose
<1>2. CASE Disposed
  BY <1>2 DEF Disposed
<1>3. CASE SetTransferBusy
  BY <1>3 DEF SetTransferBusy
<1>4. CASE SetAutomaticChecks
  BY <1>4 DEF SetAutomaticChecks
<1>5. CASE WorkBegins
  BY <1>5 DEF WorkBegins
<1>6. CASE WorkEnds
  BY <1>6 DEF WorkEnds
<1> QED BY <1>1, <1>2, <1>3, <1>4, <1>5, <1>6

(* The invariant holds whatever happens between two awaits.                *)
THEOREM UpdaterInvariant == UpdaterSpec => []UpdaterInv
<1>1. UpdaterInv /\ [UpdaterNext]_controller => UpdaterInv'
  <2> SUFFICES ASSUME UpdaterInv, [UpdaterNext]_controller PROVE UpdaterInv'
    OBVIOUS
  <2>1. CASE UpdaterNext
    BY <2>1, CheckKeeps, UpdateKeeps, BetweenAwaitsKeeps DEF UpdaterNext
  <2>2. CASE UNCHANGED controller
    BY <2>2 DEF UpdaterInv, Suspended, GateIsExclusive, OfferIsKept,
       controller, checking, updating,
       handles, backend, inputs
  <2> QED BY <2>1, <2>2
<1> QED BY <1>1, UpdaterStarts, PTL DEF UpdaterSpec

(* The gate of the backend is held exactly while performUpdate needs it,   *)
(* and nothing is transferred while the program is replaced: each path out *)
(* of the try block of performUpdate calls endInstall, and only where that *)
(* call fails is the gate left held.                                       *)
THEOREM GateIsReleased == UpdaterSpec => []GateBelongsToUpdate
<1>1. UpdaterInv => GateBelongsToUpdate
  BY DEF UpdaterInv, Suspended, GateIsExclusive, GateBelongsToUpdate,
     Holding
<1> QED BY <1>1, UpdaterInvariant, PTL

(* What is installed is what was downloaded for the update on offer: no    *)
(* check replaces the candidate while performUpdate waits, and a package   *)
(* of an earlier candidate is not taken for the new one's.                 *)
THEOREM OfferIsInstalled == UpdaterSpec => []InstallsTheOffer
<1>1. UpdaterInv => InstallsTheOffer
  BY DEF UpdaterInv, Suspended, OfferIsKept, InstallsTheOffer
<1> QED BY <1>1, UpdaterInvariant, PTL
=============================================================================
