------------------------- MODULE SessionBasisProofs -------------------------
(***************************************************************************)
(* Theorems about what Session takes for granted: that messages arrive     *)
(* whole and in turn (SecureFraming), and that a task waiting for its      *)
(* cancellation is woken (CancelToken).                                    *)
(*                                                                         *)
(* The first part holds for any limits on headers, fragments and payloads, *)
(* any number of frames and of faults.  A record says which bytes of which *)
(* frame it carries, and the reader takes it only where it fits, so that   *)
(* nothing has to be known of the order in which records arrive.           *)
(***************************************************************************)
EXTENDS SecureFraming, CancelToken, SequenceTheorems, TLAPS

Octets == [id : Nat, at : Nat, frame : Frames]
Records == [nonce : Int, id : Nat, total : Nat, offset : Nat, first : BOOLEAN,
            last : BOOLEAN, data : Seq(Octets)]
Pieces == Records \cup {<<>>}

TypeOK ==
    /\ sent \in Seq(Frames) /\ regular \in BOOLEAN
    /\ encrypted \in Nat /\ incoming \in Nat
    /\ wire \in Seq(Pieces)
    /\ active \in [total : Nat, bytes : Seq(Octets)]
    /\ delivered \in Seq(Seq(Octets)) /\ incoming = Len(delivered)
    /\ writing \in [on : BOOLEAN, offset : Nat]

(* A write under way has bytes of its frame left.                          *)
HasBytesLeft == writing.on => Len(sent) > 0 /\ writing.offset < Total

(* A record carries the bytes of one frame that it names: of this program, *)
(* of a frame sent; of another make, of the frame being read.              *)
FromFrame(r, f) ==
    /\ r.data = Bytes(r.id, r.offset, r.offset + Len(r.data), f)
    /\ regular => /\ r.id < Len(sent) /\ f = sent[r.id + 1]
                  /\ r.total = HeaderSize + f.size
    /\ ~regular /\ active.bytes # <<>> => f = active.bytes[1].frame

Proper(r) == r # <<>> => \E f \in Frames : FromFrame(r, f)

OnTheWire ==
    /\ \A i \in 1..Len(wire) : Proper(wire[i])
    /\ ~regular => Len(wire) <= 1

(* What was read of a frame are its first bytes.                           *)
BeingRead ==
    active.bytes # <<>> => \E f \in Frames :
        /\ active.bytes = Bytes(incoming, 0, Len(active.bytes), f)
        /\ regular => incoming < Len(sent) /\ f = sent[incoming + 1]

IInv == TypeOK /\ HasBytesLeft /\ OnTheWire /\ BeingRead /\ DeliversWhatWasSent

-----------------------------------------------------------------------------
(* Sizes are natural numbers.                                              *)
LEMMA Limits ==
    /\ HeaderSize \in Nat \ {0} /\ MaxFragment \in Nat \ {0} /\ MaxSent \in Nat \ {0}
    /\ MaxFrame \in Nat
    /\ \A f \in Frames : f.kind \in Kinds /\ f.size \in Nat
BY FramingAssumption DEF Frames, MaxFrame

(* Two sequences put together.                                             *)
Joins(xy, x, y, S) ==
    /\ xy = x \o y /\ xy \in Seq(S) /\ Len(xy) = Len(x) + Len(y)
    /\ \A i \in 1..Len(x) : xy[i] = x[i]
    /\ \A i \in 1..Len(y) : xy[Len(x) + i] = y[i]

LEMMA Joined ==
    ASSUME NEW S, NEW x \in Seq(S), NEW y \in Seq(S)
    PROVE  \E xy : Joins(xy, x, y, S)
<1>1. x \o y \in Seq(S)
  OBVIOUS
<1>2. Len(x \o y) = Len(x) + Len(y)
  OBVIOUS
<1>3. \A i \in 1..Len(x) : (x \o y)[i] = x[i]
  OBVIOUS
<1>4. \A i \in 1..Len(y) : (x \o y)[Len(x) + i] = y[i]
  OBVIOUS
<1>5. Joins(x \o y, x, y, S)
  BY <1>1, <1>2, <1>3, <1>4, Zenon DEF Joins
<1> QED BY <1>5

(* Bytes of a frame are a sequence as long as their span ...               *)
LEMMA BytesAreOctets ==
    ASSUME NEW id \in Nat, NEW from \in Nat, NEW to \in Nat, from <= to, NEW f \in Frames
    PROVE  /\ Bytes(id, from, to, f) \in Seq(Octets)
           /\ Len(Bytes(id, from, to, f)) = to - from
<1>1. to - from \in Nat
  OBVIOUS
<1>2. \A i \in 1..(to - from) : [id |-> id, at |-> from + i - 1, frame |-> f] \in Octets
  BY DEF Octets
<1> QED BY <1>1, <1>2 DEF Bytes

(* ... and adjoining spans put together are the span of both.              *)
LEMMA BytesAdjoin ==
    ASSUME NEW id \in Nat, NEW a \in Nat, NEW b \in Nat, NEW c \in Nat,
           a <= b, b <= c, NEW f \in Frames
    PROVE  Bytes(id, a, b, f) \o Bytes(id, b, c, f) = Bytes(id, a, c, f)
<1> DEFINE x == Bytes(id, a, b, f)
           y == Bytes(id, b, c, f)
           z == Bytes(id, a, c, f)
<1>1. x \in Seq(Octets) /\ Len(x) = b - a
  BY BytesAreOctets
<1>2. y \in Seq(Octets) /\ Len(y) = c - b
  BY BytesAreOctets
<1>3. z \in Seq(Octets) /\ Len(z) = c - a
  <2>1. a <= c
    OBVIOUS
  <2> QED BY <2>1, BytesAreOctets
<1>4. \A i \in 1..(b - a) : x[i] = [id |-> id, at |-> a + i - 1, frame |-> f]
  BY DEF Bytes
<1>5. \A i \in 1..(c - b) : y[i] = [id |-> id, at |-> b + i - 1, frame |-> f]
  BY DEF Bytes
<1>6. \A i \in 1..(c - a) : z[i] = [id |-> id, at |-> a + i - 1, frame |-> f]
  BY DEF Bytes
<1> HIDE DEF x, y, z
<1>7. PICK xy : Joins(xy, x, y, Octets)
  BY <1>1, <1>2, Joined
<1>8. /\ xy \in Seq(Octets) /\ Len(xy) = (b - a) + (c - b)
      /\ \A i \in 1..(b - a) : xy[i] = x[i]
      /\ \A i \in 1..(c - b) : xy[(b - a) + i] = y[i]
  <2>1. /\ xy \in Seq(Octets) /\ Len(xy) = Len(x) + Len(y)
        /\ \A i \in 1..Len(x) : xy[i] = x[i]
        /\ \A i \in 1..Len(y) : xy[Len(x) + i] = y[i]
    BY <1>7, Zenon DEF Joins
  <2> QED BY <1>1, <1>2, <2>1
<1>9. ASSUME NEW i \in 1..(c - a) PROVE xy[i] = z[i]
  <2>1. CASE i <= b - a
    <3>1. i \in 1..(b - a)
      BY <2>1
    <3> QED BY <1>4, <1>6, <1>8, <3>1
  <2>2. CASE i > b - a
    <3>1. i - (b - a) \in 1..(c - b) /\ (b - a) + (i - (b - a)) = i
      BY <2>2
    <3>2. xy[i] = y[i - (b - a)]
      BY <1>8, <3>1
    <3>3. y[i - (b - a)] = [id |-> id, at |-> b + (i - (b - a)) - 1, frame |-> f]
      BY <1>5, <3>1
    <3>4. b + (i - (b - a)) - 1 = a + i - 1
      BY <3>1
    <3> QED BY <1>6, <3>2, <3>3, <3>4
  <2> QED BY <2>1, <2>2
<1>10. Len(xy) = Len(z) /\ Len(z) = c - a
  BY <1>3, <1>8
<1>11. xy = z
  BY <1>3, <1>8, <1>9, <1>10, SeqEqual
<1>12. xy = x \o y
  BY <1>7, Zenon DEF Joins
<1> QED BY <1>11, <1>12 DEF x, y, z

(* The first byte names the frame.                                         *)
LEMMA FirstByte ==
    ASSUME NEW id \in Nat, NEW n \in Nat, n > 0, NEW f \in Frames
    PROVE  Bytes(id, 0, n, f)[1].frame = f
BY DEF Bytes

(* A record that continues the bytes held makes them longer.               *)
Spans(s, id, a, b, f) == s = Bytes(id, a, b, f)

LEMMA BytesGrow ==
    ASSUME NEW held, NEW data, NEW id \in Nat, NEW a \in Nat, NEW n \in Nat, NEW m \in Nat,
           NEW f \in Frames, Spans(held, id, a, n, f), Spans(data, id, n, m, f),
           a <= n, n <= m, a < m
    PROVE  /\ Spans(held \o data, id, a, m, f)
           /\ held \o data \in Seq(Octets)
           /\ Len(held \o data) = m - a
           /\ (held \o data)[1].frame = f
<1>1. Bytes(id, a, n, f) \o Bytes(id, n, m, f) = Bytes(id, a, m, f)
  BY BytesAdjoin, ZenonT(40)
<1>2. a <= m
  OBVIOUS
<1>3. Bytes(id, a, m, f) \in Seq(Octets) /\ Len(Bytes(id, a, m, f)) = m - a
  BY <1>2, BytesAreOctets
<1>4. Bytes(id, a, m, f)[1].frame = f
  BY DEF Bytes
<1> QED BY <1>1, <1>3, <1>4, Zenon DEF Spans

(* What is taken out of a sequence, or put into it twice, leaves its items.*)
LEMMA RemovedItems ==
    ASSUME NEW S, NEW s \in Seq(S), NEW i \in 1..Len(s)
    PROVE  /\ RemoveAt(s, i) \in Seq(S)
           /\ \A k \in 1..Len(RemoveAt(s, i)) : \E j \in 1..Len(s) : RemoveAt(s, i)[k] = s[j]
<1> DEFINE p == SubSeq(s, 1, i - 1)
           q == SubSeq(s, i + 1, Len(s))
<1>1. p \in Seq(S) /\ Len(p) = i - 1 /\ \A k \in 1..(i - 1) : p[k] = s[k]
  OBVIOUS
<1>2. q \in Seq(S) /\ Len(q) = Len(s) - i /\ \A k \in 1..(Len(s) - i) : q[k] = s[i + k]
  OBVIOUS
<1> HIDE DEF p, q
<1>3. PICK pq : Joins(pq, p, q, S)
  BY <1>1, <1>2, Joined
<1>4. /\ pq \in Seq(S) /\ Len(pq) = Len(p) + Len(q)
      /\ \A k \in 1..Len(p) : pq[k] = p[k]
      /\ \A k \in 1..Len(q) : pq[Len(p) + k] = q[k]
  BY <1>3, Zenon DEF Joins
<1>5. ASSUME NEW k \in 1..Len(pq) PROVE \E j \in 1..Len(s) : pq[k] = s[j]
  <2>1. CASE k <= i - 1
    <3>1. k \in 1..(i - 1) /\ k \in 1..Len(s)
      BY <2>1
    <3> QED BY <1>1, <1>4, <3>1
  <2>2. CASE k > i - 1
    <3>1. /\ k - (i - 1) \in 1..(Len(s) - i) /\ (i - 1) + (k - (i - 1)) = k
          /\ i + (k - (i - 1)) \in 1..Len(s)
      BY <1>1, <1>2, <1>4, <2>2
    <3>2. pq[k] = q[k - (i - 1)]
      BY <1>1, <1>2, <1>4, <3>1
    <3> QED BY <1>2, <3>1, <3>2
  <2> QED BY <1>1, <2>1, <2>2
<1>6. RemoveAt(s, i) = pq
  BY <1>3, Zenon DEF Joins, RemoveAt, p, q
<1> QED BY <1>4, <1>5, <1>6

LEMMA RepeatedItems ==
    ASSUME NEW S, NEW s \in Seq(S), NEW i \in 1..Len(s)
    PROVE  /\ InsertAt(s, i, s[i]) \in Seq(S)
           /\ \A k \in 1..Len(InsertAt(s, i, s[i])) :
                \E j \in 1..Len(s) : InsertAt(s, i, s[i])[k] = s[j]
<1> DEFINE p == SubSeq(s, 1, i - 1)
           e == <<s[i]>>
           q == SubSeq(s, i, Len(s))
<1>1. p \in Seq(S) /\ Len(p) = i - 1 /\ \A k \in 1..(i - 1) : p[k] = s[k]
  OBVIOUS
<1>2. e \in Seq(S) /\ Len(e) = 1 /\ e[1] = s[i]
  OBVIOUS
<1>3. /\ q \in Seq(S) /\ Len(q) = Len(s) - i + 1
      /\ \A k \in 1..(Len(s) - i + 1) : q[k] = s[i + k - 1]
  OBVIOUS
<1> HIDE DEF p, e, q
<1>4. PICK pe : Joins(pe, p, e, S)
  BY <1>1, <1>2, Joined
<1>6. /\ pe \in Seq(S) /\ Len(pe) = Len(p) + Len(e)
      /\ \A k \in 1..Len(p) : pe[k] = p[k]
      /\ \A k \in 1..Len(e) : pe[Len(p) + k] = e[k]
  BY <1>4, Zenon DEF Joins
<1>7. Len(pe) = i /\ \A k \in 1..i : pe[k] = s[k]
  <2>1. ASSUME NEW k \in 1..i PROVE pe[k] = s[k]
    <3>1. CASE k <= i - 1
      BY <1>1, <1>6, <3>1
    <3>2. CASE k = i
      <4>1. 1 \in 1..Len(e) /\ Len(p) + 1 = i
        BY <1>1, <1>2
      <4> QED BY <1>2, <1>6, <3>2, <4>1
    <3> QED BY <3>1, <3>2
  <2> QED BY <1>1, <1>2, <1>6, <2>1
<1>5. PICK all : Joins(all, pe, q, S)
  BY <1>3, <1>6, Joined
<1>8. /\ all \in Seq(S) /\ Len(all) = Len(pe) + Len(q)
      /\ \A k \in 1..Len(pe) : all[k] = pe[k]
      /\ \A k \in 1..Len(q) : all[Len(pe) + k] = q[k]
  BY <1>5, Zenon DEF Joins
<1>9. ASSUME NEW k \in 1..Len(all) PROVE \E j \in 1..Len(s) : all[k] = s[j]
  <2>1. CASE k <= i
    <3>1. k \in 1..i /\ k \in 1..Len(s)
      BY <2>1
    <3> QED BY <1>7, <1>8, <3>1
  <2>2. CASE k > i
    <3>1. /\ k - i \in 1..(Len(s) - i + 1) /\ i + (k - i) = k
          /\ i + (k - i) - 1 \in 1..Len(s)
      BY <1>3, <1>7, <1>8, <2>2
    <3>2. all[k] = q[k - i]
      BY <1>3, <1>7, <1>8, <3>1
    <3> QED BY <1>3, <3>1, <3>2
  <2> QED BY <1>7, <1>8, <2>1, <2>2
<1>10. InsertAt(s, i, s[i]) = all
  BY <1>4, <1>5, Zenon DEF Joins, InsertAt, p, e, q
<1> QED BY <1>8, <1>9, <1>10

(* A record, or what is left of one.                                       *)
LEMMA PiecesAre ==
    /\ <<>> \in Pieces /\ Records \subseteq Pieces
    /\ \A r \in Pieces : r # <<>> => r \in Records
BY DEF Pieces

-----------------------------------------------------------------------------
(* The channel starts empty.                                               *)
LEMMA InitHolds == Init => IInv
<1> SUFFICES ASSUME Init PROVE IInv
  OBVIOUS
<1>1. TypeOK
  BY DEF Init, TypeOK, Inactive
<1>2. HasBytesLeft /\ OnTheWire /\ BeingRead /\ DeliversWhatWasSent
  BY DEF Init, HasBytesLeft, OnTheWire, BeingRead, DeliversWhatWasSent, Inactive
<1> QED BY <1>1, <1>2 DEF IInv

(* A new frame leaves the earlier ones what they were.                     *)
LEMMA BeginKeeps ==
    ASSUME IInv, NEW f \in Frames, Begin(f)
    PROVE  IInv'
<1> USE DEF IInv, TypeOK
<1>1. /\ sent' = Append(sent, f) /\ writing' = [on |-> TRUE, offset |-> 0]
      /\ UNCHANGED <<encrypted, wire, opened, incoming, active, delivered, state, regular>>
  BY DEF Begin
<1>2. /\ sent' \in Seq(Frames) /\ Len(sent') = Len(sent) + 1 /\ sent'[Len(sent) + 1] = f
      /\ \A i \in 1..Len(sent) : sent'[i] = sent[i]
  BY <1>1
<1>3. TypeOK'
  BY <1>1, <1>2
<1>4. HasBytesLeft'
  BY <1>1, <1>2, Limits DEF HasBytesLeft, Total, Current
<1>5. ASSUME NEW r \in Pieces, Proper(r) PROVE Proper(r)'
  <2> SUFFICES ASSUME r # <<>> PROVE \E g \in Frames : FromFrame(r, g)'
    BY DEF Proper
  <2>1. PICK g \in Frames : FromFrame(r, g)
    BY <1>5 DEF Proper
  <2>2. r.id \in Nat
    BY PiecesAre DEF Records
  <2>3. ASSUME regular
        PROVE  r.id < Len(sent') /\ g = sent'[r.id + 1] /\ r.total = HeaderSize + g.size
    <3>1. r.id < Len(sent) /\ g = sent[r.id + 1] /\ r.total = HeaderSize + g.size
      BY <2>1, <2>3 DEF FromFrame
    <3>2. r.id + 1 \in 1..Len(sent)
      BY <2>2, <3>1
    <3> QED BY <1>2, <2>2, <3>1, <3>2
  <2>4. FromFrame(r, g)'
    BY <1>1, <2>1, <2>3 DEF FromFrame
  <2> QED BY <2>4
<1>6. OnTheWire'
  <2>1. \A i \in 1..Len(wire) : wire[i] \in Pieces
    OBVIOUS
  <2> QED BY <1>1, <1>5, <2>1 DEF OnTheWire
<1>7. BeingRead'
  <2> SUFFICES ASSUME active.bytes # <<>>
               PROVE  \E g \in Frames :
                        /\ active.bytes = Bytes(incoming, 0, Len(active.bytes), g)
                        /\ regular => incoming < Len(sent') /\ g = sent'[incoming + 1]
    BY <1>1 DEF BeingRead
  <2>1. PICK g \in Frames :
          /\ active.bytes = Bytes(incoming, 0, Len(active.bytes), g)
          /\ regular => incoming < Len(sent) /\ g = sent[incoming + 1]
    BY DEF BeingRead
  <2>2. ASSUME regular PROVE incoming < Len(sent') /\ g = sent'[incoming + 1]
    <3>1. incoming + 1 \in 1..Len(sent)
      BY <2>1, <2>2
    <3> QED BY <1>2, <2>1, <2>2, <3>1
  <2> QED BY <2>1, <2>2
<1>8. DeliversWhatWasSent'
  <2>1. ASSUME regular, NEW i \in 1..Len(delivered) PROVE delivered[i] = Whole(i)'
    <3>1. delivered[i] = Whole(i) /\ i \in 1..Len(sent)
      BY <2>1 DEF DeliversWhatWasSent
    <3> QED BY <1>2, <3>1 DEF Whole
  <2>2. regular => Len(delivered) <= Len(sent')
    BY <1>2 DEF DeliversWhatWasSent
  <2> QED BY <1>1, <2>1, <2>2 DEF DeliversWhatWasSent
<1> QED BY <1>3, <1>4, <1>6, <1>7, <1>8

(* The record of a fragment carries what it says.                          *)
LEMMA FragmentIsRecord ==
    ASSUME encrypted \in Nat, Current \in Frames, Number \in Nat, Total \in Nat,
           NEW from \in Nat, from < Total
    PROVE  LET r == Fragment(from)
               to == from + Least(Total - from, MaxFragment)
           IN /\ r \in Records /\ r.id = Number /\ r.total = Total /\ r.offset = from
              /\ r.data = Bytes(Number, from, to, Current) /\ Len(r.data) = to - from
              /\ to \in Nat /\ from < to /\ to <= Total
<1> DEFINE to == from + Least(Total - from, MaxFragment)
<1>1. to \in Nat /\ from < to /\ to <= Total /\ from <= to
  BY Limits DEF Least
<1>2. Fragment(from) =
        [nonce |-> encrypted, id |-> Number, total |-> Total,
         offset |-> from, first |-> from = 0, last |-> IsLast(from, to),
         data |-> Bytes(Number, from, to, Current)]
  BY DEF Fragment
<1> HIDE DEF to
<1> DEFINE data == Bytes(Number, from, to, Current)
<1>3. data \in Seq(Octets) /\ Len(data) = to - from
  BY <1>1, BytesAreOctets
<1> HIDE DEF data
<1>4. encrypted \in Int /\ (from = 0) \in BOOLEAN /\ IsLast(from, to) \in BOOLEAN
  BY DEF IsLast
<1>5. Fragment(from) \in Records
  BY <1>2, <1>3, <1>4 DEF Records, data
<1>6. /\ Fragment(from).id = Number /\ Fragment(from).total = Total
      /\ Fragment(from).offset = from /\ Fragment(from).data = data
  BY <1>2 DEF data
<1> QED BY <1>1, <1>3, <1>5, <1>6 DEF to, data

LEMMA WriteKeeps ==
    ASSUME IInv, regular, WriteRecord
    PROVE  IInv'
<1>0. TypeOK /\ HasBytesLeft /\ OnTheWire /\ BeingRead /\ DeliversWhatWasSent
  BY DEF IInv
<1> DEFINE from == writing.offset
           to == from + Least(Total - from, MaxFragment)
           r == Fragment(from)
<1>1. /\ writing.on /\ wire' = Append(wire, r)
      /\ writing' = [on |-> from + Len(r.data) < Total, offset |-> from + Len(r.data)]
      /\ encrypted' = encrypted + 1
      /\ UNCHANGED <<sent, opened, incoming, active, delivered, state, regular>>
  BY DEF WriteRecord
<1>2. /\ Current \in Frames /\ Number \in Nat /\ Number + 1 = Len(sent)
      /\ from \in Nat /\ from < Total /\ encrypted \in Nat
  BY <1>0, <1>1 DEF TypeOK, HasBytesLeft, Current, Number
<1>3. Total \in Nat
  BY <1>2, Limits DEF Total
<1>4. /\ r \in Records /\ r.id = Number /\ r.total = Total /\ r.offset = from
      /\ r.data = Bytes(Number, from, to, Current) /\ Len(r.data) = to - from
      /\ to \in Nat /\ from < to /\ to <= Total
  BY <1>2, <1>3, FragmentIsRecord
<1> HIDE DEF r, to, from
<1>5. FromFrame(r, Current)
  <2>1. r.offset + Len(r.data) = to
    BY <1>2, <1>4
  <2>2. r.id < Len(sent) /\ Current = sent[r.id + 1]
    BY <1>2, <1>4 DEF Current
  <2> QED BY <1>4, <2>1, <2>2 DEF FromFrame, Total
<1>6. from + Len(r.data) = to
  BY <1>2, <1>4
<1>7. wire' \in Seq(Pieces) /\ \A i \in 1..Len(wire') :
        wire'[i] = r \/ (i \in 1..Len(wire) /\ wire'[i] = wire[i])
  <2>1. wire \in Seq(Pieces) /\ r \in Pieces
    BY <1>0, <1>4, PiecesAre DEF TypeOK
  <2> QED BY <1>1, <2>1
<1>8. TypeOK'
  <2>1. writing' \in [on : BOOLEAN, offset : Nat]
    BY <1>1, <1>4, <1>6
  <2>2. encrypted' \in Nat
    BY <1>1, <1>2
  <2> QED BY <1>0, <1>1, <1>7, <2>1, <2>2 DEF TypeOK
<1>9. HasBytesLeft'
  <2>1. writing'.on = (to < Total) /\ writing'.offset = to /\ Total' = Total
    BY <1>1, <1>6 DEF Total, Current
  <2>2. Len(sent') > 0
    BY <1>1, <1>2
  <2> QED BY <2>1, <2>2 DEF HasBytesLeft
<1>10. \A x : Proper(x)' <=> Proper(x)
  BY <1>1 DEF Proper, FromFrame
<1>11. OnTheWire'
  <2>1. Proper(r)
    BY <1>2, <1>5 DEF Proper
  <2>2. \A i \in 1..Len(wire) : Proper(wire[i])
    BY <1>0 DEF OnTheWire
  <2>3. \A i \in 1..Len(wire') : Proper(wire'[i])
    BY <1>7, <2>1, <2>2
  <2> QED BY <1>1, <1>10, <2>3 DEF OnTheWire
<1>12. BeingRead' /\ DeliversWhatWasSent'
  BY <1>0, <1>1 DEF BeingRead, DeliversWhatWasSent, Whole
<1> QED BY <1>8, <1>9, <1>11, <1>12 DEF IInv

(* A spoiled record is one that cannot be opened; the rest of it is as it  *)
(* was.                                                                    *)
LEMMA SpoiledRecord ==
    ASSUME NEW r \in Records
    PROVE  LET x == [r EXCEPT !.nonce = -1]
           IN /\ x \in Records /\ x \in Pieces /\ x.data = r.data /\ x.id = r.id
              /\ x.offset = r.offset /\ x.total = r.total
BY DEF Records, Pieces

(* Records may go and come again in any order, and be spoiled.             *)
Stems(x) ==
    \/ x = <<>>
    \/ \E j \in 1..Len(wire) : wire[j] # <<>> /\ x \in {wire[j], [wire[j] EXCEPT !.nonce = -1]}

LEMMA WireKeeps ==
    ASSUME IInv, UNCHANGED <<sent, incoming, active, delivered, regular, writing>>,
           encrypted' \in Nat, wire' \in Seq(Pieces), ~regular => Len(wire') <= 1,
           \A i \in 1..Len(wire') : Stems(wire'[i])
    PROVE  IInv'
<1>0. TypeOK /\ HasBytesLeft /\ OnTheWire /\ BeingRead /\ DeliversWhatWasSent
  BY DEF IInv
<1>1. TypeOK'
  BY <1>0 DEF TypeOK
<1>2. HasBytesLeft' /\ BeingRead' /\ DeliversWhatWasSent'
  BY <1>0 DEF HasBytesLeft, Total, Current, BeingRead, DeliversWhatWasSent, Whole
<1>3. ASSUME NEW x, Stems(x), x # <<>> PROVE \E f \in Frames : FromFrame(x, f)
  <2>1. PICK j \in 1..Len(wire) :
          wire[j] # <<>> /\ x \in {wire[j], [wire[j] EXCEPT !.nonce = -1]}
    BY <1>3 DEF Stems
  <2>2. wire[j] \in Records
    <3>1. wire[j] \in Pieces
      BY <1>0 DEF TypeOK
    <3> QED BY <2>1, <3>1, PiecesAre
  <2>3. PICK f \in Frames : FromFrame(wire[j], f)
    BY <1>0, <2>1 DEF OnTheWire, Proper
  <2>4. /\ x.data = wire[j].data /\ x.id = wire[j].id
        /\ x.offset = wire[j].offset /\ x.total = wire[j].total
    BY <2>1, <2>2, SpoiledRecord
  <2>5. FromFrame(x, f)
    BY <2>3, <2>4 DEF FromFrame
  <2> QED BY <2>5
<1>4. \A x : Proper(x)' <=> Proper(x)
  BY DEF Proper, FromFrame
<1>5. \A i \in 1..Len(wire') : Proper(wire'[i])
  BY <1>3 DEF Proper
<1>6. OnTheWire'
  BY <1>4, <1>5 DEF OnTheWire
<1> QED BY <1>1, <1>2, <1>6 DEF IInv

(* A write given up leaves a part of its record at most.                   *)
LEMMA GiveUpKeeps ==
    ASSUME IInv, regular, NEW how, GiveUpWrite(how)
    PROVE  IInv'
<1>0. TypeOK /\ HasBytesLeft /\ OnTheWire /\ BeingRead /\ DeliversWhatWasSent
  BY DEF IInv
<1>1. /\ UNCHANGED <<sent, incoming, active, delivered, regular>>
      /\ writing' = [writing EXCEPT !.on = FALSE]
      /\ encrypted' = encrypted \/ encrypted' = encrypted + 1
      /\ wire' = wire \/ wire' = Append(wire, <<>>)
  BY DEF GiveUpWrite
<1>2. wire \in Seq(Pieces) /\ <<>> \in Pieces
  BY <1>0, PiecesAre DEF TypeOK
<1>3. /\ Append(wire, <<>>) \in Seq(Pieces)
      /\ \A i \in 1..Len(Append(wire, <<>>)) :
           \/ Append(wire, <<>>)[i] = <<>>
           \/ i \in 1..Len(wire) /\ Append(wire, <<>>)[i] = wire[i]
  BY <1>2
<1>4. wire' \in Seq(Pieces)
  BY <1>1, <1>2, <1>3
<1>5. TypeOK'
  <2>1. writing \in [on : BOOLEAN, offset : Nat] /\ encrypted \in Nat
    BY <1>0 DEF TypeOK
  <2>2. writing' \in [on : BOOLEAN, offset : Nat]
    BY <1>1, <2>1
  <2>3. encrypted' \in Nat
    <3>1. encrypted' = encrypted \/ encrypted' = encrypted + 1
      BY <1>1
    <3> QED BY <2>1, <3>1
  <2> QED BY <1>0, <1>1, <1>4, <2>2, <2>3 DEF TypeOK
<1>6. \A x : Proper(x)' <=> Proper(x)
  BY <1>1 DEF Proper, FromFrame
<1>7. \A i \in 1..Len(wire) : Proper(wire[i])
  BY <1>0 DEF OnTheWire
<1>8. \A i \in 1..Len(wire') : Proper(wire'[i])
  <2>1. Proper(<<>>)
    BY DEF Proper
  <2>2. CASE wire' = wire
    BY <1>7, <2>2
  <2>3. CASE wire' = Append(wire, <<>>)
    BY <1>3, <1>7, <2>1, <2>3
  <2> QED BY <1>1, <2>2, <2>3
<1>9. OnTheWire'
  BY <1>1, <1>6, <1>8 DEF OnTheWire
<1>10. HasBytesLeft' /\ BeingRead' /\ DeliversWhatWasSent'
  <2>1. ~writing'.on
    BY <1>0, <1>1 DEF TypeOK
  <2> QED BY <1>0, <1>1, <2>1 DEF HasBytesLeft, BeingRead, DeliversWhatWasSent, Whole
<1> QED BY <1>5, <1>9, <1>10 DEF IInv

(* Neither does the connection make a record that was not sent.            *)
LEMMA DisturbKeeps ==
    ASSUME IInv, Disturb
    PROVE  IInv'
<1>0. TypeOK /\ HasBytesLeft /\ OnTheWire /\ BeingRead /\ DeliversWhatWasSent
  BY DEF IInv
<1>1. PICK i \in 1..Len(wire) :
        \/ Faulty(RemoveAt(wire, i))
        \/ Faulty(InsertAt(wire, i, wire[i]))
        \/ i > 1 /\ Faulty([wire EXCEPT ![i] = wire[i - 1], ![i - 1] = wire[i]])
        \/ wire[i] # <<>> /\ Faulty([wire EXCEPT ![i].nonce = -1])
  BY DEF Disturb
<1>2. /\ regular
      /\ UNCHANGED <<sent, incoming, active, delivered, regular, writing, encrypted>>
  BY <1>1 DEF Disturb, Faulty
<1>3. wire \in Seq(Pieces) /\ encrypted' \in Nat
  BY <1>0, <1>2 DEF TypeOK
<1>4. \A j \in 1..Len(wire) : wire[j] \in Pieces /\ Stems(wire[j])
  BY <1>3 DEF Stems
<1>5. ASSUME wire' \in Seq(Pieces),
             \A k \in 1..Len(wire') : \E j \in 1..Len(wire) : wire'[k] = wire[j]
      PROVE  IInv'
  <2>1. \A k \in 1..Len(wire') : Stems(wire'[k])
    BY <1>4, <1>5
  <2> QED BY <1>2, <1>3, <1>5, <2>1, WireKeeps
<1>6. CASE Faulty(RemoveAt(wire, i))
  <2>1. wire' = RemoveAt(wire, i)
    BY <1>6 DEF Faulty
  <2>2. /\ RemoveAt(wire, i) \in Seq(Pieces)
        /\ \A k \in 1..Len(RemoveAt(wire, i)) :
             \E j \in 1..Len(wire) : RemoveAt(wire, i)[k] = wire[j]
    BY <1>3, RemovedItems
  <2> QED BY <1>5, <2>1, <2>2, Zenon
<1>7. CASE Faulty(InsertAt(wire, i, wire[i]))
  <2>1. wire' = InsertAt(wire, i, wire[i])
    BY <1>7 DEF Faulty
  <2>2. /\ InsertAt(wire, i, wire[i]) \in Seq(Pieces)
        /\ \A k \in 1..Len(InsertAt(wire, i, wire[i])) :
             \E j \in 1..Len(wire) : InsertAt(wire, i, wire[i])[k] = wire[j]
    BY <1>3, RepeatedItems
  <2> QED BY <1>5, <2>1, <2>2, Zenon
<1>8. CASE i > 1 /\ Faulty([wire EXCEPT ![i] = wire[i - 1], ![i - 1] = wire[i]])
  <2>1. wire' = [wire EXCEPT ![i] = wire[i - 1], ![i - 1] = wire[i]] /\ i - 1 \in 1..Len(wire)
    BY <1>8 DEF Faulty
  <2>2. /\ wire' \in Seq(Pieces)
        /\ \A k \in 1..Len(wire') : \E j \in 1..Len(wire) : wire'[k] = wire[j]
    BY <1>3, <2>1
  <2> QED BY <1>5, <2>2
<1>9. CASE wire[i] # <<>> /\ Faulty([wire EXCEPT ![i].nonce = -1])
  <2>1. PICK x : x = [wire[i] EXCEPT !.nonce = -1]
    OBVIOUS
  <2>2. wire' = [wire EXCEPT ![i] = x]
    BY <1>9, <2>1 DEF Faulty
  <2>3. wire[i] \in Records
    BY <1>4, <1>9, PiecesAre
  <2>4. x \in Pieces
    BY <2>1, <2>3, SpoiledRecord
  <2>5. Stems(x)
    BY <1>9, <2>1 DEF Stems
  <2>6. /\ wire' \in Seq(Pieces) /\ Len(wire') = Len(wire) /\ wire'[i] = x
        /\ \A k \in 1..Len(wire) : k # i => wire'[k] = wire[k]
    BY <1>3, <2>2, <2>4
  <2>7. \A k \in 1..Len(wire') : Stems(wire'[k])
    BY <1>4, <2>5, <2>6
  <2> QED BY <1>2, <1>3, <2>6, <2>7, WireKeeps
<1> QED BY <1>1, <1>6, <1>7, <1>8, <1>9

(* A peer of another make carries on with the frame it has begun.          *)
LEMMA ForeignKeeps ==
    ASSUME IInv, ~regular, ForeignRecord
    PROVE  IInv'
<1>0. TypeOK /\ HasBytesLeft /\ OnTheWire /\ BeingRead /\ DeliversWhatWasSent
  BY DEF IInv
<1>1. PICK f \in IF active.bytes = <<>> THEN Frames ELSE {active.bytes[1].frame},
           id \in 0..1, total \in 1..MaxFrame + 1, from \in 0..MaxFrame,
           n \in 0..MaxFragment + 1, first \in BOOLEAN, last \in BOOLEAN :
        wire' = <<[nonce |-> encrypted, id |-> id, total |-> total,
                   offset |-> from, first |-> first, last |-> last,
                   data |-> Bytes(id, from, from + n, f)]>>
  BY DEF ForeignRecord
<1>2. f \in Frames /\ (active.bytes # <<>> => f = active.bytes[1].frame)
  <2>1. CASE active.bytes = <<>>
    BY <2>1
  <2>2. CASE active.bytes # <<>>
    <3>1. active.bytes \in Seq(Octets)
      BY <1>0 DEF TypeOK
    <3>2. active.bytes[1] \in Octets
      BY <2>2, <3>1
    <3> QED BY <2>2, <3>2 DEF Octets
  <2> QED BY <2>1, <2>2
<1>3. /\ UNCHANGED <<sent, writing, incoming, active, delivered, regular>>
      /\ encrypted' \in Nat /\ encrypted \in Int
  BY <1>0 DEF ForeignRecord, TypeOK
<1>4. /\ id \in Nat /\ total \in Nat /\ from \in Nat /\ n \in Nat
      /\ from + n \in Nat /\ from <= from + n /\ (from + n) - from = n
  BY Limits
<1> DEFINE data == Bytes(id, from, from + n, f)
<1>5. data \in Seq(Octets) /\ Len(data) = n
  <2>1. PICK k \in Nat, a \in Nat, to \in Nat : k = id /\ a = from /\ to = from + n
    BY <1>4
  <2>2. a <= to /\ to - a = n
    BY <1>4, <2>1
  <2>3. Bytes(k, a, to, f) \in Seq(Octets) /\ Len(Bytes(k, a, to, f)) = to - a
    BY <1>2, <2>2, BytesAreOctets
  <2>4. data = Bytes(k, a, to, f)
    BY <2>1
  <2> HIDE DEF data
  <2> QED BY <2>2, <2>3, <2>4
<1>6. PICK r : r = [nonce |-> encrypted, id |-> id, total |-> total,
                    offset |-> from, first |-> first, last |-> last, data |-> data]
  OBVIOUS
<1>7. wire' = <<r>>
  BY <1>1, <1>6
<1> HIDE DEF data
<1>8. /\ r \in Records /\ r.data = data /\ r.id = id /\ r.offset = from
  BY <1>3, <1>4, <1>5, <1>6 DEF Records
<1>9. wire' \in Seq(Pieces) /\ Len(wire') = 1 /\ wire'[1] = r
  <2>1. r \in Pieces
    BY <1>8, PiecesAre
  <2> QED BY <1>7, <2>1
<1>10. TypeOK'
  BY <1>0, <1>3, <1>9 DEF TypeOK
<1>11. FromFrame(r, f)
  <2>1. r.data = Bytes(r.id, r.offset, r.offset + Len(r.data), f)
    BY <1>5, <1>8 DEF data
  <2> QED BY <1>2, <2>1 DEF FromFrame
<1>12. \A x : Proper(x)' <=> Proper(x)
  BY <1>3 DEF Proper, FromFrame
<1>13. \A i \in 1..Len(wire') : Proper(wire'[i])
  BY <1>2, <1>9, <1>11 DEF Proper
<1>14. OnTheWire'
  BY <1>9, <1>12, <1>13 DEF OnTheWire
<1>15. HasBytesLeft' /\ BeingRead' /\ DeliversWhatWasSent'
  BY <1>0, <1>3 DEF HasBytesLeft, Total, Current, BeingRead, DeliversWhatWasSent, Whole
<1> QED BY <1>10, <1>14, <1>15 DEF IInv

(* Records that go from the wire.                                          *)
LEMMA TailKeeps ==
    ASSUME IInv, wire # <<>>, wire' = Tail(wire),
           UNCHANGED <<sent, incoming, active, delivered, regular, writing, encrypted>>
    PROVE  IInv'
<1>0. wire \in Seq(Pieces) /\ encrypted \in Nat /\ (~regular => Len(wire) <= 1)
  BY DEF IInv, TypeOK, OnTheWire
<1>1. /\ wire' \in Seq(Pieces) /\ Len(wire') = Len(wire) - 1
      /\ \A i \in 1..Len(wire') : i + 1 \in 1..Len(wire) /\ wire'[i] = wire[i + 1]
  BY <1>0
<1>2. \A i \in 1..Len(wire') : Stems(wire'[i])
  BY <1>1 DEF Stems
<1>3. encrypted' \in Nat /\ (~regular => Len(wire') <= 1)
  BY <1>0, <1>1
<1> QED BY <1>1, <1>2, <1>3, WireKeeps

-----------------------------------------------------------------------------
(* The reader adds a record to a frame only where it continues it.         *)
LEMMA ReadKeeps ==
    ASSUME IInv, Read
    PROVE  IInv'
<1>0. TypeOK /\ HasBytesLeft /\ OnTheWire /\ BeingRead /\ DeliversWhatWasSent
  BY DEF IInv
<1> DEFINE r == Head(wire)
           held == active.bytes
           bytes == held \o r.data
<1>1. /\ wire # <<>> /\ Opens(r) /\ Accepts(r) /\ wire' = Tail(wire)
      /\ UNCHANGED <<sent, writing, encrypted, regular>>
  BY DEF Read
<1>2. /\ IF End(r) = r.total
           THEN /\ Decodes(bytes) /\ delivered' = Append(delivered, bytes)
                /\ incoming' = incoming + 1 /\ active' = Inactive
           ELSE /\ active' = [total |-> r.total, bytes |-> bytes]
                /\ delivered' = delivered /\ incoming' = incoming
  BY DEF Read
<1>3. /\ wire \in Seq(Pieces) /\ encrypted \in Nat /\ incoming \in Nat
      /\ held \in Seq(Octets) /\ delivered \in Seq(Seq(Octets)) /\ incoming = Len(delivered)
      /\ sent \in Seq(Frames) /\ regular \in BOOLEAN
      /\ writing \in [on : BOOLEAN, offset : Nat]
  BY <1>0 DEF TypeOK
<1>4. r \in Records /\ Proper(r) /\ r # <<>>
  <2>1. Len(wire) > 0 /\ r = wire[1] /\ 1 \in 1..Len(wire)
    BY <1>1, <1>3
  <2>2. wire[1] \in Pieces /\ Proper(wire[1])
    BY <1>0, <1>3, <2>1 DEF OnTheWire
  <2>3. r # <<>>
    BY <1>1 DEF Opens
  <2> HIDE DEF r
  <2> QED BY <2>1, <2>2, <2>3, PiecesAre
<1>5. /\ wire' \in Seq(Pieces) /\ Len(wire') = Len(wire) - 1
      /\ \A i \in 1..Len(wire') : i + 1 \in 1..Len(wire) /\ wire'[i] = wire[i + 1]
  BY <1>1, <1>3
<1> HIDE DEF r
<1>6. PICK f \in Frames : FromFrame(r, f)
  BY <1>4 DEF Proper
<1>7. /\ r.data \in Seq(Octets) /\ r.data # <<>> /\ r.total \in Nat
      /\ r.id = incoming /\ r.offset = Len(held)
  <2>1. r.data \in Seq(Octets) /\ r.total \in Nat
    BY <1>4 DEF Records
  <2>2. r.data # <<>>
    BY <1>1 DEF Accepts, WellFormed
  <2>3. r.id = incoming /\ r.offset = Len(held)
    BY <1>1 DEF Accepts, Starts, Continues
  <2> QED BY <2>1, <2>2, <2>3
<1>17. PICK k \in Nat, n \in Nat, m \in Nat :
         k = incoming /\ n = Len(held) /\ m = n + Len(r.data) /\ n <= m /\ m > 0
  <2>1. Len(held) \in Nat /\ Len(r.data) \in Nat /\ Len(r.data) > 0
    BY <1>3, <1>7
  <2>2. PICK k \in Nat : k = incoming
    BY <1>3
  <2>3. PICK n \in Nat : n = Len(held)
    BY <2>1
  <2>4. PICK m \in Nat : m = n + Len(r.data) /\ n <= m /\ m > 0
    BY <2>1
  <2> QED BY <2>2, <2>3, <2>4, Zenon
<1>8. n <= m /\ m > 0
  BY <1>17
<1>9. /\ r.data = Bytes(k, n, m, f)
      /\ regular => incoming < Len(sent) /\ f = sent[incoming + 1]
      /\ ~regular /\ held # <<>> => f = held[1].frame
  BY <1>6, <1>7, <1>17 DEF FromFrame
<1>10. held = Bytes(k, 0, n, f)
  <2>1. CASE held = <<>>
    <3>1. n = 0
      BY <1>17, <2>1
    <3> QED BY <2>1, <3>1 DEF Bytes
  <2>2. CASE held # <<>>
    <3>1. PICK g \in Frames :
            /\ held = Bytes(k, 0, n, g)
            /\ regular => incoming < Len(sent) /\ g = sent[incoming + 1]
      BY <1>0, <1>17, <2>2 DEF BeingRead
    <3>2. n > 0
      BY <1>3, <1>17, <2>2
    <3>3. Bytes(k, 0, n, g)[1].frame = g
      BY <3>2, FirstByte
    <3>4. f = g
      BY <1>9, <2>2, <3>1, <3>3
    <3> QED BY <3>1, <3>4
  <2> QED BY <2>1, <2>2
<1>11. /\ bytes = Bytes(k, 0, m, f)
       /\ bytes \in Seq(Octets) /\ Len(bytes) = m /\ bytes[1].frame = f
  <2> HIDE DEF held
  <2>1. 0 \in Nat /\ 0 <= n /\ n <= m /\ 0 < m /\ m - 0 = m
    BY <1>8
  <2>2. Spans(held, k, 0, n, f) /\ Spans(r.data, k, n, m, f)
    BY <1>9, <1>10, Zenon DEF Spans
  <2>3. /\ Spans(held \o r.data, k, 0, m, f) /\ held \o r.data \in Seq(Octets)
        /\ Len(held \o r.data) = m - 0 /\ (held \o r.data)[1].frame = f
    BY <2>1, <2>2, BytesGrow, ZenonT(60)
  <2> QED BY <2>1, <2>3, Zenon DEF Spans
<1> HIDE DEF bytes, held
<1>13. OnTheWire'
  <2>1. ~regular => Len(wire') = 0
    <3>1. ~regular => Len(wire) <= 1
      BY <1>0 DEF OnTheWire
    <3>2. Len(wire) \in Nat /\ Len(wire') \in Nat
      BY <1>3, <1>5
    <3> QED BY <1>5, <3>1, <3>2
  <2>2. \A i \in 1..Len(wire') : Proper(wire[i + 1])
    BY <1>0, <1>5 DEF OnTheWire
  <2>3. ASSUME regular, NEW x, Proper(x) PROVE Proper(x)'
    BY <1>1, <2>3 DEF Proper, FromFrame
  <2>4. \A i \in 1..Len(wire') : Proper(wire[i])'
    <3>1. CASE regular
      <4>1. \A x : Proper(x) => Proper(x)'
        BY <2>3, <3>1
      <4> QED BY <1>5, <2>2, <4>1
    <3>2. CASE ~regular
      <4>1. Len(wire') = 0
        BY <2>1, <3>2
      <4> QED BY <4>1
    <3> QED BY <3>1, <3>2
  <2>5. ~regular' => Len(wire') <= 1
    <3>1. Len(wire') = 0 => Len(wire') <= 1
      OBVIOUS
    <3>2. regular' = regular
      BY <1>1
    <3> QED BY <2>1, <3>1, <3>2, Zenon
  <2> QED BY <2>4, <2>5 DEF OnTheWire
<1>14. HasBytesLeft'
  BY <1>0, <1>1 DEF HasBytesLeft, Total, Current
<1>15. CASE End(r) = r.total
  <2>1. /\ Decodes(bytes) /\ delivered' = Append(delivered, bytes)
        /\ incoming' = incoming + 1 /\ active' = Inactive
    BY <1>2, <1>15
  <2>2. Writable(f) /\ m = HeaderSize + f.size
    BY <1>11, <2>1 DEF Decodes
  <2>3. /\ delivered' \in Seq(Seq(Octets)) /\ Len(delivered') = Len(delivered) + 1
        /\ delivered'[Len(delivered) + 1] = bytes
        /\ \A i \in 1..Len(delivered) : delivered'[i] = delivered[i]
    BY <1>3, <1>11, <2>1
  <2>4. TypeOK'
    <3>1. active' \in [total : Nat, bytes : Seq(Octets)]
      BY <2>1 DEF Inactive
    <3>2. incoming' \in Nat /\ incoming' = Len(delivered')
      BY <1>3, <2>1, <2>3
    <3> QED BY <1>1, <1>3, <1>5, <2>3, <3>1, <3>2 DEF TypeOK
  <2>5. BeingRead'
    BY <2>1 DEF BeingRead, Inactive
  <2>6. DeliversWhatWasSent'
    <3>1. \A i \in 1..Len(delivered') :
            i \in 1..Len(delivered) \/ (i = Len(delivered) + 1 /\ i - 1 = incoming)
      BY <1>3, <2>3
    <3>2. ASSUME NEW i \in 1..Len(delivered')
          PROVE  \E g \in Frames :
                   /\ Writable(g) /\ delivered'[i] = Bytes(i - 1, 0, HeaderSize + g.size, g)
                   /\ regular => i <= Len(sent) /\ g = sent[i]
      <4>1. CASE i \in 1..Len(delivered)
        <5>1. CASE regular
          <6>1. PICK g \in Frames :
                  Writable(g) /\ delivered[i] = Bytes(i - 1, 0, HeaderSize + g.size, g)
            BY <1>0, <4>1 DEF DeliversWhatWasSent
          <6>2. /\ i \in 1..Len(sent) /\ delivered[i] = Whole(i)
            BY <1>0, <1>3, <4>1, <5>1 DEF DeliversWhatWasSent
          <6>3. /\ HeaderSize + g.size \in Nat /\ HeaderSize + g.size > 0
                /\ sent[i] \in Frames
                /\ HeaderSize + sent[i].size \in Nat /\ HeaderSize + sent[i].size > 0
                /\ i - 1 \in Nat
            <7>1. sent[i] \in Frames
              BY <1>3, <6>2
            <7>2. \A h \in Frames : HeaderSize + h.size \in Nat /\ HeaderSize + h.size > 0
              BY Limits
            <7>3. i - 1 \in Nat
              BY <6>2
            <7> QED BY <6>1, <7>1, <7>2, <7>3
          <6>4. delivered[i][1].frame = g
            BY <6>1, <6>3, FirstByte
          <6>5. delivered[i][1].frame = sent[i]
            <7>1. delivered[i] = Bytes(i - 1, 0, HeaderSize + sent[i].size, sent[i])
              BY <6>2 DEF Whole
            <7> QED BY <7>1, <6>3, FirstByte
          <6>6. g = sent[i] /\ i <= Len(sent)
            BY <6>2, <6>4, <6>5
          <6> QED BY <2>3, <4>1, <6>1, <6>6
        <5>2. CASE ~regular
          BY <1>0, <2>3, <4>1, <5>2 DEF DeliversWhatWasSent
        <5> QED BY <5>1, <5>2
      <4>2. CASE i = Len(delivered) + 1 /\ i - 1 = incoming
        <5>1. delivered'[i] = Bytes(i - 1, 0, HeaderSize + f.size, f)
          BY <1>11, <1>17, <2>2, <2>3, <4>2
        <5>2. incoming + 1 = i
          BY <1>3, <4>2
        <5>3. regular => i <= Len(sent) /\ f = sent[i]
          BY <1>3, <1>9, <5>2
        <5> QED BY <2>2, <5>1, <5>3
      <4> QED BY <3>1, <4>1, <4>2
    <3>3. \A i \in 1..Len(delivered') : \E g \in Frames :
            Writable(g) /\ delivered'[i] = Bytes(i - 1, 0, HeaderSize + g.size, g)
      BY <3>2
    <3>4. regular => \A i \in 1..Len(delivered') : i <= Len(sent) /\ delivered'[i] = Whole(i)
      BY <3>2 DEF Whole
    <3>5. regular => Len(delivered') <= Len(sent)
      <4>1. Len(delivered') \in 1..Len(delivered')
        BY <1>3, <2>3
      <4> QED BY <3>4, <4>1
    <3> QED BY <1>1, <3>3, <3>4, <3>5 DEF DeliversWhatWasSent, Whole
  <2> QED BY <1>13, <1>14, <2>4, <2>5, <2>6 DEF IInv
<1>16. CASE End(r) # r.total
  <2>1. /\ active' = [total |-> r.total, bytes |-> bytes]
        /\ delivered' = delivered /\ incoming' = incoming
    BY <1>2, <1>16
  <2>2. active' \in [total : Nat, bytes : Seq(Octets)] /\ active'.bytes = bytes
    BY <1>7, <1>11, <2>1
  <2>3. TypeOK'
    BY <1>1, <1>3, <1>5, <2>1, <2>2 DEF TypeOK
  <2>4. BeingRead'
    <3>1. bytes = Bytes(incoming, 0, Len(bytes), f)
      BY <1>11, <1>17
    <3> QED BY <1>1, <1>9, <2>1, <2>2, <3>1 DEF BeingRead
  <2>5. DeliversWhatWasSent'
    BY <1>0, <1>1, <2>1 DEF DeliversWhatWasSent, Whole
  <2> QED BY <1>13, <1>14, <2>3, <2>4, <2>5 DEF IInv
<1> QED BY <1>15, <1>16

(* A read given up forgets what it had of the frame.                       *)
LEMMA DropKeeps ==
    ASSUME IInv, DropRead
    PROVE  IInv'
<1>0. TypeOK /\ HasBytesLeft /\ OnTheWire /\ BeingRead /\ DeliversWhatWasSent
  BY DEF IInv
<1>1. /\ UNCHANGED <<sent, writing, encrypted, incoming, delivered, regular>>
      /\ active' = Inactive
      /\ wire' = wire \/ (wire # <<>> /\ wire' = <<<<>>>> \o Tail(wire))
  BY DEF DropRead
<1>2. wire \in Seq(Pieces) /\ <<>> \in Pieces
  BY <1>0, PiecesAre DEF TypeOK
<1>3. /\ wire' \in Seq(Pieces) /\ Len(wire') = Len(wire)
      /\ \A i \in 1..Len(wire') : wire'[i] = <<>> \/ wire'[i] = wire[i]
  <2>1. CASE wire' = wire
    BY <1>2, <2>1
  <2>2. CASE wire # <<>> /\ wire' = <<<<>>>> \o Tail(wire)
    <3> DEFINE part == <<<<>>>>
               rest == Tail(wire)
    <3>1. part \in Seq(Pieces) /\ Len(part) = 1 /\ part[1] = <<>>
      BY <1>2
    <3>2. /\ rest \in Seq(Pieces) /\ Len(rest) = Len(wire) - 1 /\ Len(wire) \in Nat
          /\ \A i \in 1..Len(rest) : rest[i] = wire[i + 1]
      BY <1>2, <2>2
    <3> HIDE DEF part, rest
    <3>3. PICK all : Joins(all, part, rest, Pieces)
      BY <3>1, <3>2, Joined
    <3>4. /\ all \in Seq(Pieces) /\ Len(all) = Len(part) + Len(rest)
          /\ \A i \in 1..Len(part) : all[i] = part[i]
          /\ \A i \in 1..Len(rest) : all[Len(part) + i] = rest[i]
      BY <3>3, Zenon DEF Joins
    <3>5. wire' = all
      BY <2>2, <3>3, Zenon DEF Joins, part, rest
    <3>6. ASSUME NEW i \in 1..Len(all) PROVE all[i] = <<>> \/ all[i] = wire[i]
      <4>1. CASE i = 1
        <5>1. 1 \in 1..Len(part)
          BY <3>1
        <5> QED BY <3>1, <3>4, <4>1, <5>1
      <4>2. CASE i # 1
        <5>1. i - 1 \in 1..Len(rest) /\ 1 + (i - 1) = i /\ (i - 1) + 1 = i
          BY <3>1, <3>2, <3>4, <4>2
        <5>2. all[i] = rest[i - 1]
          BY <3>1, <3>4, <5>1
        <5> QED BY <3>2, <5>1, <5>2
      <4> QED BY <4>1, <4>2
    <3> QED BY <3>1, <3>2, <3>4, <3>5, <3>6
  <2> QED BY <1>1, <2>1, <2>2
<1>4. TypeOK'
  <2>1. active' \in [total : Nat, bytes : Seq(Octets)]
    BY <1>1 DEF Inactive
  <2> QED BY <1>0, <1>1, <1>3, <2>1 DEF TypeOK
<1>5. ASSUME NEW x, Proper(x) PROVE Proper(x)'
  <2>1. active'.bytes = <<>>
    BY <1>1 DEF Inactive
  <2> QED BY <1>1, <1>5, <2>1 DEF Proper, FromFrame
<1>6. OnTheWire'
  <2>1. \A i \in 1..Len(wire) : Proper(wire[i])
    BY <1>0 DEF OnTheWire
  <2>2. Proper(<<>>)
    BY DEF Proper
  <2>3. \A i \in 1..Len(wire') : Proper(wire[i])'
    <3>1. \A x : Proper(x) => Proper(x)'
      BY <1>5
    <3>2. \A i \in 1..Len(wire') : Proper(wire'[i])
      BY <1>3, <2>1, <2>2
    <3> QED BY <3>1, <3>2
  <2>4. ~regular' => Len(wire') <= 1
    <3>1. ~regular => Len(wire) <= 1
      BY <1>0 DEF OnTheWire
    <3>2. regular' = regular /\ Len(wire') = Len(wire)
      BY <1>1, <1>3
    <3> QED BY <3>1, <3>2, Zenon
  <2> QED BY <2>3, <2>4 DEF OnTheWire
<1>7. HasBytesLeft' /\ BeingRead' /\ DeliversWhatWasSent'
  <2>1. active'.bytes = <<>>
    BY <1>1 DEF Inactive
  <2> QED BY <1>0, <1>1, <2>1 DEF HasBytesLeft, Total, Current, BeingRead,
                                  DeliversWhatWasSent, Whole
<1> QED BY <1>4, <1>6, <1>7 DEF IInv

(* Every step of the channel keeps the invariant.                          *)
LEMMA StepKeeps == IInv /\ [Next]_vars => IInv'
<1> SUFFICES ASSUME IInv, [Next]_vars PROVE IInv'
  OBVIOUS
<1>1. CASE Write
  BY <1>1, BeginKeeps, WriteKeeps, GiveUpKeeps, ForeignKeeps DEF Write
<1>2. CASE Read
  BY <1>2, ReadKeeps
<1>3. CASE Refuse
  <2>1. wire # <<>> /\ wire' = Tail(wire)
    BY <1>3 DEF Refuse, Reject
  <2>2. UNCHANGED <<sent, incoming, active, delivered, regular, writing, encrypted>>
    BY <1>3 DEF Refuse, Reject
  <2> QED BY <2>1, <2>2, TailKeeps
<1>4. CASE DropRead
  BY <1>4, DropKeeps
<1>5. CASE Disturb
  BY <1>5, DisturbKeeps
<1>6. CASE Disconnect \/ UNCHANGED vars
  <2>1. UNCHANGED <<sent, incoming, active, delivered, regular, writing, encrypted, wire>>
    BY <1>6 DEF Disconnect, vars
  <2>2. wire \in Seq(Pieces) /\ encrypted \in Nat /\ (~regular => Len(wire) <= 1)
    BY DEF IInv, TypeOK, OnTheWire
  <2>3. \A i \in 1..Len(wire) : Stems(wire[i])
    BY DEF Stems
  <2> QED BY <2>1, <2>2, <2>3, WireKeeps
<1> QED BY <1>1, <1>2, <1>3, <1>4, <1>5, <1>6 DEF Next

(* Whatever the sizes of headers, fragments and frames, and however often  *)
(* reads and writes are given up and records are lost, repeated, swapped   *)
(* or altered, a channel hands over only whole frames in their turn: if    *)
(* this program writes, the first ones of those it sent.                   *)
THEOREM WholeFramesInTurn == Spec => []DeliversWhatWasSent
<1>1. IInv => DeliversWhatWasSent
  BY DEF IInv
<1> QED BY <1>1, InitHolds, StepKeeps, PTL DEF Spec
-----------------------------------------------------------------------------
(* The cancellation token of a transfer, with any number of waiters and    *)
(* cancellers.                                                             *)
(* A cancel() that has set the flag is on its way to notify, or has done   *)
(* so; a waiter that looks at the flag is registered or already woken.     *)
Registered ==
    \A w \in Waiters :
        /\ at[w] \in {"checking", "awaiting", "asleep"} => w \in registered \cup notified
        /\ w \in registered => at[w] \in {"checking", "awaiting", "asleep"} /\ w \notin notified

TokenInv == TokenTypeOK /\ Registered /\ NoLostWakeup

WaiterStep(w) ==
    \/ Enter(w) \/ Register(w) \/ CheckFlag(w)
    \/ Sleep(w) \/ Wake(w) \/ Leave(w)

(* A new token has nobody waiting.                                         *)
LEMMA TokenStarts == TokenInit => TokenInv
BY DEF TokenInit, TokenInv, TokenTypeOK, Registered, NoLostWakeup, Places

(* A step of a waiter keeps the invariant ...                              *)
LEMMA WaiterKeeps ==
    ASSUME TokenInv, NEW w \in Waiters, WaiterStep(w)
    PROVE  TokenInv'
<1> USE DEF TokenInv, TokenTypeOK, Registered, NoLostWakeup, Places, Goes
<1>1. CASE Enter(w)
  BY <1>1 DEF Enter
<1>2. CASE Register(w)
  BY <1>2 DEF Register, Enabled
<1>3. CASE CheckFlag(w)
  BY <1>3 DEF CheckFlag
<1>4. CASE Sleep(w)
  BY <1>4 DEF Sleep
<1>5. CASE Wake(w)
  BY <1>5 DEF Wake
<1>6. CASE Leave(w)
  BY <1>6 DEF Leave
<1> QED BY <1>1, <1>2, <1>3, <1>4, <1>5, <1>6 DEF WaiterStep

(* ... and so does one of a canceller.                                     *)
LEMMA CancellerKeeps ==
    ASSUME TokenInv, NEW c \in Cancellers, Store(c) \/ NotifyWaiters(c)
    PROVE  TokenInv'
<1> USE DEF TokenInv, TokenTypeOK, Registered, NoLostWakeup, Places, Calls
<1>1. CASE Store(c)
  BY <1>1 DEF Store
<1>2. CASE NotifyWaiters(c)
  BY <1>2 DEF NotifyWaiters
<1> QED BY <1>1, <1>2

LEMMA TokenStepKeeps == TokenInv /\ [TokenNext]_token => TokenInv'
<1> SUFFICES ASSUME TokenInv, [TokenNext]_token PROVE TokenInv'
  OBVIOUS
<1>1. CASE UNCHANGED token
  BY <1>1 DEF token, TokenInv, TokenTypeOK, Registered, NoLostWakeup, Places
<1>2. CASE \E w \in Waiters : WaiterStep(w)
  BY <1>2, WaiterKeeps
<1>3. CASE \E c \in Cancellers : Store(c) \/ NotifyWaiters(c)
  BY <1>3, CancellerKeeps
<1> QED BY <1>1, <1>2, <1>3 DEF TokenNext, WaiterStep

(* The wake-up that models.rs:496 fears to lose is never lost, whatever    *)
(* the number of tasks that wait and that cancel.                          *)
THEOREM WakeupIsNeverLost == TokenSpec => []NoLostWakeup
<1>1. TokenInv => NoLostWakeup
  BY DEF TokenInv
<1> QED BY <1>1, TokenStarts, TokenStepKeeps, PTL DEF TokenSpec
=============================================================================
