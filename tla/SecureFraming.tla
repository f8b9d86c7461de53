--------------------------- MODULE SecureFraming ----------------------------
(***************************************************************************)
(* One direction of a secure channel (secure.rs): write_frame cuts a Drop  *)
(* frame (protocol.rs) into encrypted records, read_logical puts it        *)
(* together again.  A write may be given up by a timeout anywhere in a     *)
(* frame, and the transfer then writes one more frame (a Cancel or a       *)
(* refusal) on the same channel; a read may be given up as well, when the  *)
(* receiving user decides first.                                           *)
(*                                                                         *)
(* A byte carries the number of its frame, its place in it and what its    *)
(* frame's header declares.  The Noise session is external: it opens       *)
(* exactly the next record, unaltered.  The connection may lose, repeat,   *)
(* swap or alter records.  A peer that is not regular holds the session's  *)
(* keys but cuts its frames in its own way.                                *)
(***************************************************************************)
EXTENDS Integers, Sequences, SequencesExt

CONSTANTS
    HeaderSize,     \* FRAME_HEADER_SIZE
    MaxFragment,    \* MAX_FRAGMENT_PAYLOAD
    MaxPayload,     \* [control, data]: the payload limits of protocol.rs
    MaxSent,        \* bound on the frames a writer starts
    MaxFaults       \* bound on what is given up, lost, repeated or altered

Kinds == DOMAIN MaxPayload
MaxFrame == HeaderSize + MaxPayload["control"]

ASSUME FramingAssumption ==
    /\ Kinds = {"control", "data"}
    /\ {HeaderSize, MaxFragment, MaxSent, MaxPayload["control"]} \subseteq Nat \ {0}
    /\ MaxPayload["data"] \in 1..MaxPayload["control"] /\ MaxFaults \in Nat

VARIABLES
    sent,       \* [kind, size]: the frames started, whole or not
    writing,    \* [on, offset]: the write in progress
    encrypted,  \* records encrypted so far: the next nonce
    wire,       \* records under way, <<>> of a record never arrives
    opened,     \* records decrypted so far
    incoming,   \* next_incoming_message
    active,     \* the logical frame being read: [total, bytes], bytes = <<>> if none
    delivered,  \* payloads handed to the transfer, as their bytes
    state,      \* of the reader: "open", "rejected", "ended"
    faults,     \* reads and writes given up, and faults of the connection
    regular     \* the writer is this program

vars == <<sent, writing, encrypted, wire, opened, incoming, active, delivered,
          state, faults, regular>>

Frames == [kind : Kinds, size : 0..MaxPayload["control"] + 1]
Bytes(id, from, to, f) ==
    [i \in 1..(to - from) |-> [id |-> id, at |-> from + i - 1, frame |-> f]]

Inactive == [total |-> 0, bytes |-> <<>>]

Init ==
    /\ sent = <<>> /\ writing = [on |-> FALSE, offset |-> 0] /\ encrypted = 0
    /\ wire = <<>> /\ opened = 0 /\ incoming = 0 /\ active = Inactive
    /\ delivered = <<>> /\ state = "open" /\ faults = 0 /\ regular \in BOOLEAN

-----------------------------------------------------------------------------
(* write_frame.  A frame the limits refuse is not started.                 *)
Writable(f) == f.size <= MaxPayload[f.kind] /\ (f.kind = "data" => f.size > 0)

Current == sent[Len(sent)]
Total == HeaderSize + Current.size
Least(a, b) == IF a < b THEN a ELSE b

Begin(f) ==
    /\ ~writing.on /\ Len(sent) < MaxSent /\ Writable(f)
    /\ sent' = Append(sent, f) /\ writing' = [on |-> TRUE, offset |-> 0]
    /\ UNCHANGED <<encrypted, wire, opened, incoming, active, delivered, state, faults, regular>>

BugLastIsShort(from, to) == to - from < MaxFragment

IsLast(from, to) == to = Total

BugNumberedOnFirstRecord == IF encrypted = 0 THEN 0 ELSE Len(sent) - 1

Number == Len(sent) - 1

Fragment(from) ==
    LET to == from + Least(Total - from, MaxFragment)
    IN [nonce |-> encrypted, id |-> Number, total |-> Total,
        offset |-> from, first |-> from = 0, last |-> IsLast(from, to),
        data |-> Bytes(Number, from, to, Current)]

WriteRecord ==
    /\ writing.on
    /\ LET r == Fragment(writing.offset)
           end == writing.offset + Len(r.data)
       IN /\ wire' = Append(wire, r)
          /\ writing' = [on |-> end < Total, offset |-> end]
    /\ encrypted' = encrypted + 1
    /\ UNCHANGED <<sent, opened, incoming, active, delivered, state, faults, regular>>

(* A timeout gives the write up: before the record is encrypted, or with   *)
(* nothing or only a part of it written.                                   *)
GiveUpWrite(how) ==
    /\ writing.on /\ writing' = [writing EXCEPT !.on = FALSE]
    /\ faults < MaxFaults /\ faults' = faults + 1
    /\ encrypted' = IF how = "waiting" THEN encrypted ELSE encrypted + 1
    /\ wire' = IF how = "partly" THEN Append(wire, <<>>) ELSE wire
    /\ UNCHANGED <<sent, opened, incoming, active, delivered, state, regular>>

(* A peer of another make cuts, numbers and labels its records as it       *)
(* likes; each is read before the next one is chosen.                      *)
ForeignRecord ==
    /\ state = "open" /\ wire = <<>> /\ encrypted <= MaxSent
    /\ \E f \in IF active.bytes = <<>> THEN Frames ELSE {active.bytes[1].frame},
          id \in 0..1, total \in 1..MaxFrame + 1, from \in 0..MaxFrame,
          n \in 0..MaxFragment + 1, first, last \in BOOLEAN :
            wire' = <<[nonce |-> encrypted, id |-> id, total |-> total,
                       offset |-> from, first |-> first, last |-> last,
                       data |-> Bytes(id, from, from + n, f)]>>
    /\ encrypted' = encrypted + 1
    /\ UNCHANGED <<sent, writing, opened, incoming, active, delivered, state, faults, regular>>

-----------------------------------------------------------------------------
(* read_secure_record and read_logical.                                    *)
Opens(r) == r # <<>> /\ r.nonce = opened

WellFormed(r) ==
    /\ r.total \in 1..MaxFrame
    /\ r.data # <<>> /\ Len(r.data) <= MaxFragment

Starts(r) == r.id = incoming /\ r.offset = 0 /\ r.first

BugPlaceIsNotCompared(r) == r.total = active.total

Continues(r) ==
    /\ r.id = incoming /\ r.total = active.total /\ r.offset = Len(active.bytes)

End(r) == r.offset + Len(r.data)

Accepts(r) ==
    /\ WellFormed(r)
    /\ IF active.bytes = <<>> THEN Starts(r) ELSE Continues(r)
    /\ End(r) <= r.total
    /\ r.last <=> End(r) = r.total

(* decode_frame: the header must account for every byte, within the limit. *)
Decodes(bytes) ==
    Writable(bytes[1].frame) /\ Len(bytes) = HeaderSize + bytes[1].frame.size

Reject ==
    /\ state' = "rejected" /\ wire' = Tail(wire)
    /\ UNCHANGED <<sent, writing, encrypted, opened, incoming, active, delivered, faults, regular>>

Read ==
    /\ state = "open" /\ wire # <<>>
    /\ LET r == Head(wire)
           bytes == active.bytes \o r.data
       IN /\ Opens(r) /\ Accepts(r) /\ wire' = Tail(wire) /\ opened' = opened + 1
          /\ IF End(r) = r.total
               THEN /\ Decodes(bytes) /\ delivered' = Append(delivered, bytes)
                    /\ incoming' = incoming + 1 /\ active' = Inactive
               ELSE /\ active' = [total |-> r.total, bytes |-> bytes]
                    /\ UNCHANGED <<delivered, incoming>>
    /\ UNCHANGED <<sent, writing, encrypted, state, faults, regular>>

(* The rest of a partly written record is taken from what follows it.      *)
Readable == Head(wire) # <<>> \/ Len(wire) > 1

Refuse ==
    /\ state = "open" /\ wire # <<>> /\ Readable
    /\ LET r == Head(wire)
       IN \/ ~Opens(r) /\ Reject
          \/ Opens(r) /\ ~Accepts(r) /\ Reject
          \/ /\ Opens(r) /\ Accepts(r) /\ End(r) = r.total
             /\ ~Decodes(active.bytes \o r.data) /\ Reject

(* The receiving user decides while a frame arrives: the read is dropped   *)
(* with what it has read of the frame, and a new one starts.               *)
DropRead ==
    /\ state = "open" /\ faults < MaxFaults /\ faults' = faults + 1
    /\ \/ active.bytes # <<>> /\ active' = Inactive /\ UNCHANGED wire
       \/ /\ wire # <<>> /\ Head(wire) # <<>> /\ active' = Inactive
          /\ wire' = <<<<>>>> \o Tail(wire)
    /\ UNCHANGED <<sent, writing, encrypted, opened, incoming, delivered, state, regular>>

-----------------------------------------------------------------------------
(* The connection: it is lost, or it loses, repeats, swaps, alters records.*)
(* What it would do to the records of another make, their writer can do.   *)
Faulty(now) ==
    /\ faults < MaxFaults /\ faults' = faults + 1 /\ wire' = now
    /\ UNCHANGED <<sent, writing, encrypted, opened, incoming, active, delivered, state, regular>>

Disturb ==
    regular /\ \E i \in 1..Len(wire) :
        \/ Faulty(RemoveAt(wire, i))
        \/ Faulty(InsertAt(wire, i, wire[i]))
        \/ i > 1 /\ Faulty([wire EXCEPT ![i] = wire[i - 1], ![i - 1] = wire[i]])
        \/ wire[i] # <<>> /\ Faulty([wire EXCEPT ![i].nonce = -1])

Disconnect ==
    /\ state = "open" /\ state' = "ended" /\ faults < MaxFaults /\ faults' = faults + 1
    /\ UNCHANGED <<sent, writing, encrypted, wire, opened, incoming, active, delivered, regular>>

Write ==
    \/ regular /\ \/ WriteRecord
                  \/ \E f \in Frames : Begin(f)
                  \/ \E how \in {"waiting", "unsent", "partly"} : GiveUpWrite(how)
    \/ ~regular /\ ForeignRecord

Next == Write \/ Read \/ Refuse \/ DropRead \/ Disturb \/ Disconnect

(* The writer's task and the reader's task both run.                       *)
Fairness == WF_vars(WriteRecord) /\ WF_vars(Read) /\ WF_vars(Refuse)

Spec == Init /\ [][Next]_vars /\ Fairness

-----------------------------------------------------------------------------
Whole(i) == Bytes(i - 1, 0, HeaderSize + sent[i].size, sent[i])

(* However a peer cuts, numbers and labels its records, what is delivered  *)
(* is a frame within the limits, whole, unmixed and in its turn.  If the   *)
(* writer is this program these are the first of the frames sent, whatever *)
(* is given up, lost, repeated or altered.                                 *)
DeliversWhatWasSent ==
    /\ \A i \in 1..Len(delivered) : \E f \in Frames :
         Writable(f) /\ delivered[i] = Bytes(i - 1, 0, HeaderSize + f.size, f)
    /\ regular =>
         /\ Len(delivered) <= Len(sent)
         /\ \A i \in 1..Len(delivered) : delivered[i] = Whole(i)

(* Both ends agree on limits, cuts and numbers, also at their boundaries:  *)
(* every frame handed to an undisturbed channel arrives.                   *)
EveryFrameArrives ==
    \A n \in 1..MaxSent : Len(sent) >= n ~> Len(delivered) >= n \/ faults > 0
=============================================================================
