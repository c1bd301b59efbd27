-------------------------- MODULE SplitPacketProofs --------------------------
(***************************************************************************)
(* Proofs about long packets: whatever the network loses, repeats or       *)
(* delays, what NET_GetLong hands over under a number that was used once   *)
(* is the packet that was sent, and the packet that the network was kind   *)
(* to comes out, for any numbers of parts, any net_splitrate and any       *)
(* number of packets, resets and faults.                                   *)
(***************************************************************************)
EXTENDS SplitPacket, FiniteSetTheorems, SequenceTheorems, TLAPS

----------------------------------------------------------------------------
(* The invariant *)

PartSet == [id : Nat, seq : Nat, number : PartNumbers, of : PartCounts]
Content == PartSet \cup {<< >>}
Packets == [seq : Nat, parts : PartCounts]
Entries == [current : Int, left : Int, flags : [PartNumbers -> Int],
            total : PartCounts \cup {0}, buffer : [PartNumbers -> Content]]

SplitTypes ==
  /\ sequence \in Nat \ {0}
  /\ long \in Seq(Packets) /\ \A id \in DOMAIN long : long[id].seq >= 2
  /\ queue \in Seq(PartSet) /\ wire \in Seq(PartSet)
  /\ entry \in Entries
  /\ rebuilt \in Seq([seq : Int, parts : Seq(Content)])
  /\ calm \in BOOLEAN /\ faults \in Nat

\* Part n of the packet id
Part(id, n) ==
  [id |-> id, seq |-> long[id].seq, number |-> n, of |-> long[id].parts]

\* What is queued and under way are parts of packets that were sent.
Real(p) ==
  /\ p.id \in DOMAIN long /\ p.number \in 0 .. long[p.id].parts - 1
  /\ p = Part(p.id, p.number)
RealParts ==
  /\ \A i \in DOMAIN wire : Real(wire[i])
  /\ \A i \in DOMAIN queue : Real(queue[i])

Used(k) == Users(k) # {}

\* The entry e, of the number of packet id, has the parts K and counts the others.
GatheredIn(id, e, K) ==
  /\ e.left = long[id].parts - Cardinality(K)
  /\ \A n \in K : e.flags[n] = e.current /\ e.buffer[n] = Part(id, n)
  /\ long[id].parts - 1 \in K => e.total = long[id].parts
Gathered(id, e) == \E K \in SUBSET (0 .. long[id].parts - 1) : GatheredIn(id, e, K)

\* Of a number that only one packet had, the entry has nothing but its parts.
EntryInv ==
  /\ entry.current \in {-1, 0} \/ Used(entry.current)
  /\ \A n \in PartNumbers : entry.flags[n] = -1 \/ Used(entry.flags[n])
  /\ \A id \in DOMAIN long : Users(entry.current) = {id} => Gathered(id, entry)

WholeInv == WholePackets /\ \A i \in DOMAIN rebuilt : Used(rebuilt[i].seq)

\* The parts of the last packet are under way in order, behind m others: the first
\* k have arrived, those from the q-th on are queued.
Order(m, k) ==
  LET L == Len(long)
      q == k + Len(wire) - m
  IN  /\ \A i \in 1 .. m : wire[i].id # L
      /\ \A i \in m + 1 .. Len(wire) : wire[i] = Part(L, k + i - m - 1)
      /\ q + Len(queue) = long[L].parts
      /\ \A i \in 1 .. Len(queue) : queue[i] = Part(L, q + i - 1)
      /\ k > 0 => m = 0

\* What the receiver has then
Reached(k) ==
  LET L == Len(long)
      c == long[L].parts
      s == long[L].seq
  IN  /\ k < c => \A n \in PartNumbers : entry.flags[n] = s => n < k
      /\ k = 0 => entry.current # s
      /\ 0 < k /\ k < c => entry.current = s /\ entry.left = c - k
      /\ k = c => rebuilt # << >> /\ Last(rebuilt).parts = Parts(L, long[L])

\* The last packet arrives if nothing disturbs it.
Arrives ==
  \E m \in 0 .. Len(wire), k \in 0 .. long[Len(long)].parts : Order(m, k) /\ Reached(k)
CalmInv ==
  calm => /\ long # << >>
          /\ Users(long[Len(long)].seq) = {Len(long)} => Arrives

SplitInv == SplitTypes /\ RealParts /\ EntryInv /\ WholeInv /\ CalmInv

----------------------------------------------------------------------------
(* Sequences and parts *)

(* Removing an element moves the later ones up. *)
LEMMA RemoveFacts ==
  ASSUME NEW X, NEW s \in Seq(X), NEW i \in 1 .. Len(s)
  PROVE  /\ RemoveAt(s, i) \in Seq(X) /\ Len(RemoveAt(s, i)) = Len(s) - 1
         /\ \A j \in 1 .. Len(s) - 1 : RemoveAt(s, i)[j] = IF j < i THEN s[j] ELSE s[j + 1]
PROOF
<1> DEFINE a == SubSeq(s, 1, i - 1)
           b == SubSeq(s, i + 1, Len(s))
<1>1. /\ a \in Seq(X) /\ Len(a) = i - 1 /\ \A j \in 1 .. i - 1 : a[j] = s[j]
      /\ b \in Seq(X) /\ Len(b) = Len(s) - i /\ \A j \in 1 .. Len(s) - i : b[j] = s[i + j]
  OBVIOUS
<1> HIDE DEF a, b
<1>2. a \o b \in Seq(X) /\ Len(a \o b) = Len(s) - 1
  <2>1. a \o b \in Seq(X) /\ Len(a \o b) = Len(a) + Len(b)
    BY <1>1, ConcatProperties
  <2>2. Len(s) \in Nat /\ i \in Nat
    OBVIOUS
  <2> QED
    BY <1>1, <2>1, <2>2
<1>3. ASSUME NEW j \in 1 .. Len(s) - 1
      PROVE  (a \o b)[j] = IF j < i THEN s[j] ELSE s[j + 1]
  <2>1. (a \o b)[j] = IF j <= Len(a) THEN a[j] ELSE b[j - Len(a)]
    BY <1>1
  <2> QED
    BY <1>1, <2>1
<1> QED
  BY <1>2, <1>3 DEF RemoveAt, a, b

(* The parts of a packet. *)
LEMMA PartsFacts ==
  ASSUME NEW id \in Nat, NEW packet \in Packets
  PROVE  /\ Parts(id, packet) \in Seq(PartSet) /\ Len(Parts(id, packet)) = packet.parts
         /\ packet.parts \in Nat \ {0}
         /\ \A n \in 0 .. packet.parts - 1 : n \in PartNumbers
         /\ \A n \in 1 .. packet.parts :
              Parts(id, packet)[n] =
                [id |-> id, seq |-> packet.seq, number |-> n - 1, of |-> packet.parts]
PROOF
<1>1. packet.parts \in PartCounts /\ packet.seq \in Nat
  BY DEF Packets
<1>2. packet.parts \in Nat \ {0}
  BY <1>1, SplitConstants
<1>3. \A n \in 0 .. packet.parts - 1 : n \in PartNumbers
  BY <1>1 DEF PartNumbers
<1>4. ASSUME NEW n \in 1 .. packet.parts
      PROVE  [id |-> id, seq |-> packet.seq, number |-> n - 1, of |-> packet.parts] \in PartSet
  <2>1. n - 1 \in 0 .. packet.parts - 1
    BY <1>2
  <2> QED
    BY <1>1, <1>3, <2>1 DEF PartSet
<1> QED
  BY <1>2, <1>3, <1>4 DEF Parts

(* A packet that was sent. *)
LEMMA LongFacts ==
  ASSUME SplitTypes, NEW id \in DOMAIN long
  PROVE  /\ id \in Nat \ {0} /\ long[id] \in Packets
         /\ long[id].seq \in Nat /\ long[id].seq >= 2
         /\ long[id].parts \in PartCounts /\ long[id].parts \in Nat \ {0}
         /\ \A n \in 0 .. long[id].parts - 1 : n \in PartNumbers
         /\ Len(Parts(id, long[id])) = long[id].parts
         /\ \A n \in 0 .. long[id].parts - 1 : Parts(id, long[id])[n + 1] = Part(id, n)
PROOF
<1>1. id \in Nat \ {0} /\ long[id] \in Packets /\ long[id].seq >= 2
  BY DEF SplitTypes
<1>2. \A n \in 0 .. long[id].parts - 1 : n + 1 \in 1 .. long[id].parts /\ (n + 1) - 1 = n
  BY <1>1, PartsFacts
<1>3. \A n \in 0 .. long[id].parts - 1 : Parts(id, long[id])[n + 1] = Part(id, n)
  BY <1>1, <1>2, PartsFacts DEF Part
<1> QED
  BY <1>1, <1>3, PartsFacts DEF Packets

(* The fields of a part that was sent, and its number's users. *)
LEMMA RealFacts ==
  ASSUME SplitTypes, NEW p, Real(p)
  PROVE  /\ p.id \in DOMAIN long /\ p \in PartSet /\ p.number \in PartNumbers
         /\ p.seq = long[p.id].seq /\ p.of = long[p.id].parts
         /\ p.number \in 0 .. p.of - 1 /\ p.of \in PartCounts
         /\ p.seq \in Nat /\ p.seq >= 2 /\ p.id \in Users(p.seq)
PROOF
<1>1. p.id \in DOMAIN long /\ p.number \in 0 .. long[p.id].parts - 1 /\ p = Part(p.id, p.number)
  BY DEF Real
<1>2. p.seq = long[p.id].seq /\ p.of = long[p.id].parts
  BY <1>1 DEF Part
<1>3. /\ p.id \in Nat /\ long[p.id].seq \in Nat /\ long[p.id].seq >= 2
      /\ long[p.id].parts \in PartCounts /\ p.number \in PartNumbers
  BY <1>1, LongFacts
<1>4. p \in PartSet
  BY <1>1, <1>3 DEF Part, PartSet
<1> QED
  BY <1>1, <1>2, <1>3, <1>4 DEF Users

----------------------------------------------------------------------------
(* The receiver *)

(* The numbers of c parts. *)
LEMMA NumbersFinite ==
  ASSUME NEW c \in Nat
  PROVE  IsFiniteSet(0 .. c - 1) /\ Cardinality(0 .. c - 1) = c
PROOF
<1> DEFINE d == c - 1
<1>1. d \in Int /\ 0 \in Int /\ (IF 0 > d THEN 0 ELSE d - 0 + 1) = c
  OBVIOUS
<1> HIDE DEF d
<1>2. IsFiniteSet(0 .. d) /\ Cardinality(0 .. d) = IF 0 > d THEN 0 ELSE d - 0 + 1
  BY <1>1, FS_Interval
<1>3. IsFiniteSet(0 .. d) /\ Cardinality(0 .. d) = c
  BY <1>1, <1>2
<1> QED
  BY <1>3 DEF d

(* PutPart field by field. *)
LEMMA PutFields ==
  ASSUME NEW e \in Entries, NEW p \in PartSet
  PROVE  /\ PutPart(e, p) \in Entries
         /\ PutPart(e, p).current = p.seq
         /\ PutPart(e, p).left = (IF e.current = p.seq THEN e.left ELSE p.of)
                                   - (IF e.flags[p.number] = p.seq THEN 0 ELSE 1)
         /\ PutPart(e, p).flags = [e.flags EXCEPT ![p.number] = p.seq]
         /\ PutPart(e, p).total = IF e.flags[p.number] # p.seq /\ p.number = p.of - 1
                                  THEN p.of ELSE e.total
         /\ PutPart(e, p).buffer = [e.buffer EXCEPT ![p.number] = p]
PROOF
<1> DEFINE f == Series(e, p)
           g == CountPart(f, p)
           h == [g EXCEPT !.buffer[p.number] = p]
<1>1. /\ p.seq \in Nat /\ p.of \in PartCounts /\ p.of \in Nat /\ p.number \in PartNumbers
      /\ p \in Content
  BY SplitConstants DEF PartSet, Content
<1>2. /\ f \in Entries /\ f.current = p.seq /\ f.flags = e.flags /\ f.total = e.total
      /\ f.buffer = e.buffer /\ f.left = IF e.current = p.seq THEN e.left ELSE p.of
  <2>1. CASE e.current = -1 \/ p.seq # e.current
    <3>1. f = [e EXCEPT !.current = p.seq, !.left = p.of] /\ e.current # p.seq
      BY <1>1, <2>1 DEF Series
    <3> DEFINE x == p.seq
               y == p.of
    <3>2. x \in Int /\ y \in Int
      BY <1>1
    <3>3. f = [e EXCEPT !.current = x, !.left = y]
      BY <3>1
    <3> HIDE DEF f, x, y
    <3>4. f \in Entries
      BY <3>2, <3>3 DEF Entries
    <3>5. /\ f.current = x /\ f.left = y /\ f.flags = e.flags /\ f.total = e.total
          /\ f.buffer = e.buffer
      BY <3>3 DEF Entries
    <3> QED
      BY <3>1, <3>4, <3>5 DEF x, y
  <2>2. CASE ~ (e.current = -1 \/ p.seq # e.current)
    <3>1. f = e
      BY <2>2 DEF Series
    <3> HIDE DEF f
    <3> QED
      BY <2>2, <3>1
  <2> QED
    BY <2>1, <2>2
<1> HIDE DEF f
<1>3. /\ g \in Entries /\ g.current = p.seq /\ g.buffer = f.buffer
      /\ g.left = f.left - (IF f.flags[p.number] = p.seq THEN 0 ELSE 1)
      /\ g.flags = [f.flags EXCEPT ![p.number] = p.seq]
      /\ g.total = IF f.flags[p.number] # p.seq /\ p.number = p.of - 1 THEN p.of ELSE f.total
  <2>1. CASE f.flags[p.number] = p.seq
    <3>1. g = f
      BY <2>1 DEF CountPart
    <3>2. f.flags \in [PartNumbers -> Int]
      BY <1>2 DEF Entries
    <3>3. f.flags = [f.flags EXCEPT ![p.number] = p.seq]
      BY <2>1, <3>2
    <3>4. f.left - 0 = f.left
      BY <1>2 DEF Entries
    <3> HIDE DEF g
    <3> QED
      BY <1>2, <2>1, <3>1, <3>3, <3>4
  <2>2. CASE f.flags[p.number] # p.seq
    <3>1. g = [f EXCEPT !.left = @ - 1, !.flags[p.number] = p.seq,
                        !.total = IF p.number = p.of - 1 THEN p.of ELSE @]
      BY <2>2 DEF CountPart
    <3> DEFINE x == f.left - 1
               y == [f.flags EXCEPT ![p.number] = p.seq]
               z == IF p.number = p.of - 1 THEN p.of ELSE f.total
    <3>2. /\ f.left \in Int /\ f.flags \in [PartNumbers -> Int] /\ f.total \in PartCounts \cup {0}
          /\ p.seq \in Int
      BY <1>1, <1>2 DEF Entries
    <3>3. x \in Int /\ y \in [PartNumbers -> Int] /\ z \in PartCounts \cup {0}
      BY <1>1, <3>2
    <3>4. g = [f EXCEPT !.left = x, !.flags = y, !.total = z]
      BY <1>2, <3>1 DEF Entries
    <3> HIDE DEF g, x, y, z
    <3>5. /\ g \in Entries /\ g.current = f.current /\ g.buffer = f.buffer
          /\ g.left = x /\ g.flags = y /\ g.total = z
      BY <1>2, <3>3, <3>4 DEF Entries
    <3> QED
      BY <1>2, <2>2, <3>5 DEF x, y, z
  <2> QED
    BY <2>1, <2>2
<1> HIDE DEF g
<1>4. /\ h \in Entries /\ h.current = g.current /\ h.left = g.left /\ h.flags = g.flags
      /\ h.total = g.total /\ h.buffer = [g.buffer EXCEPT ![p.number] = p]
  BY <1>1, <1>3 DEF Entries
<1>5. PutPart(e, p) = h
  BY DEF PutPart, f, g
<1> HIDE DEF h
<1> QED
  BY <1>2, <1>3, <1>4, <1>5

(* A part of a packet whose number was used once is gathered with the others. *)
LEMMA PutGathers ==
  ASSUME SplitTypes, NEW id \in DOMAIN long, NEW n \in 0 .. long[id].parts - 1,
         Users(long[id].seq) = {id},
         entry.current = long[id].seq => Gathered(id, entry)
  PROVE  Gathered(id, PutPart(entry, Part(id, n)))
PROOF
<1> DEFINE c == long[id].parts
           s == long[id].seq
           p == Part(id, n)
           e == PutPart(entry, p)
<1>1. c \in Nat \ {0} /\ s \in Nat /\ n \in Nat /\ n \in PartNumbers /\ entry \in Entries
  BY LongFacts DEF SplitTypes
<1>2. p.seq = s /\ p.number = n /\ p.of = c /\ p \in PartSet
  BY LongFacts DEF Part, PartSet
<1>3. /\ e.current = s /\ e \in Entries
      /\ e.left = (IF entry.current = s THEN entry.left ELSE c)
                    - (IF entry.flags[n] = s THEN 0 ELSE 1)
      /\ e.flags = [entry.flags EXCEPT ![n] = s]
      /\ e.total = IF entry.flags[n] # s /\ n = c - 1 THEN c ELSE entry.total
      /\ e.buffer = [entry.buffer EXCEPT ![n] = p]
  BY <1>1, <1>2, PutFields
<1>4. entry.left \in Int /\ entry.flags \in [PartNumbers -> Int] /\ DOMAIN entry.buffer = PartNumbers
  BY <1>1 DEF Entries
<1> HIDE DEF e, p
<1>5. PICK K \in SUBSET (0 .. c - 1) :
        /\ (IF entry.current = s THEN entry.left ELSE c) = c - Cardinality(K)
        /\ \A k \in K : entry.flags[k] = s /\ entry.buffer[k] = Part(id, k)
        /\ c - 1 \in K => entry.total = c
  <2>1. CASE entry.current = s
    BY <2>1 DEF Gathered, GatheredIn
  <2>2. CASE entry.current # s
    <3>1. Cardinality({}) = 0 /\ c - 0 = c
      BY <1>1, FS_EmptySet
    <3> QED
      BY <2>2, <3>1
  <2> QED
    BY <2>1, <2>2
<1>6. IsFiniteSet(K) /\ Cardinality(K) \in Nat
  <2>1. IsFiniteSet(0 .. c - 1)
    BY <1>1, NumbersFinite
  <2> QED
    BY <2>1, FS_Subset, FS_CardinalityType
<1> HIDE DEF c, s
<1>7. CASE entry.flags[n] = s
  <2>1. e.left = c - Cardinality(K)
    BY <1>1, <1>3, <1>4, <1>5, <1>6, <1>7
  <2>2. ASSUME NEW k \in K
        PROVE  e.flags[k] = s /\ e.buffer[k] = Part(id, k)
    <3>1. k \in PartNumbers
      BY <1>5, LongFacts DEF c
    <3> QED
      BY <1>1, <1>3, <1>4, <1>5, <3>1 DEF p
  <2>3. c - 1 \in K => e.total = c
    BY <1>3, <1>5, <1>7
  <2>4. GatheredIn(id, e, K)
    BY <1>3, <2>1, <2>2, <2>3 DEF GatheredIn, c, s
  <2> QED
    BY <1>5, <2>4 DEF Gathered, c, e, p
<1>8. CASE entry.flags[n] # s
  <2> DEFINE M == K \cup {n}
  <2>1. n \notin K /\ M \in SUBSET (0 .. c - 1)
    BY <1>5, <1>8 DEF c
  <2>2. Cardinality(M) = Cardinality(K) + 1
    BY <1>6, <2>1, FS_AddElement
  <2>3. e.left = c - Cardinality(M)
    BY <1>1, <1>3, <1>4, <1>5, <1>6, <1>8, <2>2
  <2>4. ASSUME NEW k \in M
        PROVE  e.flags[k] = s /\ e.buffer[k] = Part(id, k)
    <3>1. k \in PartNumbers
      BY <2>1, LongFacts DEF c
    <3> QED
      BY <1>1, <1>3, <1>4, <1>5, <3>1 DEF p
  <2>5. c - 1 \in M => e.total = c
    BY <1>3, <1>5, <1>8
  <2> HIDE DEF M
  <2>6. GatheredIn(id, e, M)
    BY <1>3, <2>3, <2>4, <2>5 DEF GatheredIn, c, s
  <2> QED
    BY <2>1, <2>6 DEF Gathered, c, e, p
<1> QED
  BY <1>7, <1>8

(* When nothing is left to come, the entry has the whole packet. *)
LEMMA GatheredAll ==
  ASSUME SplitTypes, NEW id \in DOMAIN long, NEW e, Gathered(id, e), e.left <= 0
  PROVE  /\ [n \in 1 .. e.total |-> e.buffer[n - 1]] = Parts(id, long[id])
         /\ \A n \in 0 .. long[id].parts - 1 : e.flags[n] = e.current
PROOF
<1> DEFINE c == long[id].parts
<1>1. PICK K \in SUBSET (0 .. c - 1) : GatheredIn(id, e, K)
  BY DEF Gathered
<1>2. c \in Nat \ {0}
  BY LongFacts
<1>3. K = 0 .. c - 1
  <2>1. IsFiniteSet(0 .. c - 1) /\ Cardinality(0 .. c - 1) = c
    BY <1>2, NumbersFinite
  <2>2. Cardinality(K) \in Nat /\ Cardinality(K) <= c
    BY <2>1, FS_Subset, FS_CardinalityType
  <2>3. Cardinality(K) = c
    BY <1>1, <1>2, <2>2 DEF GatheredIn
  <2> QED
    BY <2>1, <2>3, FS_Subset
<1>4. /\ e.total = c
      /\ \A n \in 0 .. c - 1 : e.flags[n] = e.current /\ e.buffer[n] = Part(id, n)
  BY <1>1, <1>2, <1>3 DEF GatheredIn
<1>5. /\ Parts(id, long[id]) = [n \in 1 .. c |-> Parts(id, long[id])[n]]
      /\ \A n \in 0 .. c - 1 : Parts(id, long[id])[n + 1] = Part(id, n)
  BY LongFacts DEF Parts
<1> HIDE DEF c
<1>6. ASSUME NEW n \in 1 .. c
      PROVE  e.buffer[n - 1] = Parts(id, long[id])[n]
  <2>1. n - 1 \in 0 .. c - 1 /\ (n - 1) + 1 = n
    BY <1>2
  <2> QED
    BY <1>4, <1>5, <2>1
<1>7. [n \in 1 .. e.total |-> e.buffer[n - 1]] = Parts(id, long[id])
  BY <1>4, <1>5, <1>6
<1> QED
  BY <1>4, <1>7 DEF c

\* What NET_GetLong hands over of the entry e
Handed(e) == [seq |-> e.current, parts |-> [n \in 1 .. e.total |-> e.buffer[n - 1]]]

(* Numbers that nobody used. *)
LEMMA UsersFacts ==
  ASSUME SplitTypes
  PROVE  /\ \A k : Used(k) => k \in Nat /\ k >= 2
         /\ \A k, id : id \in Users(k) <=> id \in DOMAIN long /\ long[id].seq = k
         /\ Users(-1) = {} /\ Users(0) = {}
BY LongFacts DEF Used, Users

(* A part keeps what the entry and the packets handed over are. *)
LEMMA GetLong ==
  ASSUME SplitTypes, EntryInv, WholeInv, NEW p, Real(p), NET_GetLong(p), long' = long
  PROVE  /\ entry' \in Entries /\ rebuilt' \in Seq([seq : Int, parts : Seq(Content)])
         /\ EntryInv' /\ WholeInv'
PROOF
<1> DEFINE e == PutPart(entry, p)
           r == Handed(e)
           s == p.seq
<1>1. /\ p.id \in DOMAIN long /\ p \in PartSet /\ p.number \in PartNumbers
      /\ s = long[p.id].seq /\ p.number \in 0 .. long[p.id].parts - 1
      /\ s \in Nat /\ s >= 2 /\ p.id \in Users(s) /\ p = Part(p.id, p.number)
  BY RealFacts DEF Real
<1>2. /\ entry \in Entries /\ entry.flags \in [PartNumbers -> Int]
      /\ rebuilt \in Seq([seq : Int, parts : Seq(Content)])
  BY DEF SplitTypes, Entries
<1>3. e \in Entries /\ e.current = s /\ e.flags = [entry.flags EXCEPT ![p.number] = s]
  BY <1>1, <1>2, PutFields
<1>4. ASSUME NEW id \in DOMAIN long, Users(s) = {id}
      PROVE  Gathered(id, e)
  <2>1. id = p.id
    BY <1>1, <1>4
  <2>2. entry.current = s => Gathered(id, entry)
    BY <1>4 DEF EntryInv
  <2> HIDE DEF s
  <2> QED
    BY <1>1, <1>4, <2>1, <2>2, PutGathers
<1>5. /\ \A k : Used(k) = (Users(k) # {})
      /\ \A k, id : id \in Users(k) => id \in DOMAIN long
  BY DEF Users, Used
<1>6. ASSUME NEW n \in PartNumbers
      PROVE  e.flags[n] = -1 \/ Used(e.flags[n])
  BY <1>1, <1>2, <1>3, <1>6 DEF EntryInv, Used
<1>7. /\ e.left <= 0 => entry' = [e EXCEPT !.current = -1] /\ rebuilt' = Append(rebuilt, r)
      /\ ~ (e.left <= 0) => entry' = e /\ rebuilt' = rebuilt
  BY DEF NET_GetLong, Handed
<1> HIDE DEF e, r
<1>8. CASE e.left <= 0
  <2>1. /\ entry' \in Entries /\ entry'.current = -1 /\ entry'.flags = e.flags
    <3>1. entry' = [e EXCEPT !.current = -1] /\ -1 \in Int
      BY <1>7, <1>8
    <3> QED
      BY <1>3, <3>1 DEF Entries
  <2>2. EntryInv'
    <3>1. Users(-1) = {} /\ Users(-1)' = {}
      BY UsersFacts DEF Users
    <3>2. \A n \in PartNumbers : e.flags[n] = -1 \/ Used(e.flags[n])
      BY <1>6
    <3> QED
      BY <2>1, <3>1, <3>2 DEF EntryInv, Used, Users
  <2>3. r \in [seq : Int, parts : Seq(Content)]
    <3>1. /\ e.total \in PartCounts \cup {0} /\ e.buffer \in [PartNumbers -> Content]
          /\ e.current \in Int
      BY <1>3 DEF Entries
    <3>2. e.total \in Nat /\ \A n \in 1 .. e.total : n - 1 \in PartNumbers
      <4> DEFINE t == e.total
      <4>3. t \in PartCounts \cup {0}
        BY <3>1
      <4> HIDE DEF t
      <4>1. t \in PartCounts \cup {0} /\ t \in Nat
        <5>1. PartCounts \subseteq Nat
          BY SplitConstants
        <5> QED
          BY <4>3, <5>1
      <4>2. ASSUME NEW n \in 1 .. t
            PROVE  n - 1 \in PartNumbers
        <5>1. t \in PartCounts /\ n - 1 \in 0 .. t - 1
          BY <4>1
        <5> QED
          BY <5>1 DEF PartNumbers
      <4> QED
        BY <4>1, <4>2 DEF t
    <3>3. [n \in 1 .. e.total |-> e.buffer[n - 1]] \in Seq(Content)
      BY <3>1, <3>2
    <3> QED
      BY <3>1, <3>3 DEF r, Handed
  <2>4. r.seq = s /\ r.parts = [n \in 1 .. e.total |-> e.buffer[n - 1]]
    BY <1>3 DEF r, Handed
  <2> DEFINE R == [seq : Int, parts : Seq(Content)]
  <2>9. rebuilt' = Append(rebuilt, r) /\ rebuilt \in Seq(R) /\ r \in R
    BY <1>2, <1>7, <1>8, <2>3
  <2> HIDE DEF R
  <2>5. /\ rebuilt' \in Seq(R)
        /\ \A i \in DOMAIN rebuilt' : \/ i \in DOMAIN rebuilt /\ rebuilt'[i] = rebuilt[i]
                                      \/ rebuilt'[i] = r
    BY <2>9
  <2>6. ASSUME NEW id \in DOMAIN long, Users(s) = {id}
        PROVE  r.parts = Parts(id, long[id])
    BY <1>4, <1>8, <2>4, <2>6, GatheredAll
  <2>7. ASSUME NEW i \in DOMAIN rebuilt'
        PROVE  /\ Used(rebuilt'[i].seq)
               /\ \A id \in Users(rebuilt'[i].seq) : Users(rebuilt'[i].seq) = {id} =>
                    rebuilt'[i].parts = Parts(id, long[id])
    <3>1. CASE i \in DOMAIN rebuilt /\ rebuilt'[i] = rebuilt[i]
      BY <3>1 DEF WholeInv, WholePackets
    <3>2. CASE rebuilt'[i] = r
      BY <1>1, <1>5, <2>4, <2>6, <3>2
    <3> QED
      BY <2>5, <3>1, <3>2
  <2>8. WholeInv'
    BY <2>7 DEF WholeInv, WholePackets, Used, Users
  <2> QED
    BY <2>1, <2>2, <2>5, <2>8 DEF R
<1>9. CASE ~ (e.left <= 0)
  <2>1. entry' = e /\ rebuilt' = rebuilt
    BY <1>7, <1>9
  <2>2. EntryInv'
    <3>1. Used(e.current)
      BY <1>1, <1>3, <1>5
    <3>2. \A n \in PartNumbers : e.flags[n] = -1 \/ Used(e.flags[n])
      BY <1>6
    <3>3. \A id \in DOMAIN long : Users(e.current) = {id} => Gathered(id, e)
      BY <1>3, <1>4
    <3> QED
      BY <2>1, <3>1, <3>2, <3>3 DEF EntryInv, Used, Users, Gathered, GatheredIn, Part
  <2>3. WholeInv'
    BY <2>1 DEF WholeInv, WholePackets, Used, Users
  <2> QED
    BY <1>2, <1>3, <2>1, <2>2, <2>3
<1> QED
  BY <1>8, <1>9

(* A part of the packet that arrives in order, and one of another. *)
LEMMA GetLongReaches ==
  ASSUME SplitTypes, EntryInv, WholeInv, long # << >>, Users(long[Len(long)].seq) = {Len(long)},
         NEW p, Real(p), NET_GetLong(p), long' = long, NEW k \in 0 .. long[Len(long)].parts,
         Reached(k)
  PROVE  /\ p.id # Len(long) /\ k = 0 => Reached(0)'
         /\ p = Part(Len(long), k) /\ k < long[Len(long)].parts => Reached(k + 1)'
PROOF
<1> DEFINE L == Len(long)
           c == long[L].parts
           s == long[L].seq
           e == PutPart(entry, p)
           r == Handed(e)
<1>1. /\ L \in DOMAIN long /\ c \in Nat \ {0} /\ s \in Nat /\ s >= 2
      /\ \A n \in 0 .. c - 1 : n \in PartNumbers
  <2>1. L \in DOMAIN long
    BY DEF SplitTypes
  <2> QED
    BY <2>1, LongFacts
<1>2. /\ p \in PartSet /\ p.number \in PartNumbers /\ p.seq = long[p.id].seq
      /\ p.id \in Users(p.seq) /\ p.seq \in Nat
  BY RealFacts
<1>3. /\ entry \in Entries /\ entry.flags \in [PartNumbers -> Int]
      /\ entry.left \in Int /\ rebuilt \in Seq([seq : Int, parts : Seq(Content)])
  BY DEF SplitTypes, Entries
<1>4. /\ e \in Entries /\ e.current = p.seq /\ e.flags = [entry.flags EXCEPT ![p.number] = p.seq]
      /\ e.left = (IF entry.current = p.seq THEN entry.left ELSE p.of)
                    - (IF entry.flags[p.number] = p.seq THEN 0 ELSE 1)
  BY <1>2, <1>3, PutFields
<1>5. /\ e.left <= 0 => entry' = [e EXCEPT !.current = -1] /\ rebuilt' = Append(rebuilt, r)
      /\ ~ (e.left <= 0) => entry' = e /\ rebuilt' = rebuilt
  BY DEF NET_GetLong, Handed
<1> HIDE DEF e, r
<1>6. entry'.flags = e.flags /\ entry'.left = e.left /\ entry'.current \in {-1, p.seq}
      /\ (~ (e.left <= 0) => entry'.current = p.seq)
  BY <1>4, <1>5 DEF Entries
<1>7. ASSUME p.id # L, k = 0
      PROVE  Reached(0)'
  <2>1. p.seq # s
    BY <1>2, <1>7
  <2>2. \A n \in PartNumbers : entry'.flags[n] # s
    <3>1. \A n \in PartNumbers : entry.flags[n] # s
      <4>1. 0 < c /\ \A n \in PartNumbers : n \in Nat
        BY <1>1, SplitConstants DEF PartNumbers
      <4> QED
        BY <1>7, <4>1 DEF Reached
    <3> QED
      BY <1>2, <1>3, <1>4, <1>6, <2>1, <3>1
  <2>3. entry'.current # s
    BY <1>1, <1>6, <2>1
  <2> QED
    BY <1>1, <2>2, <2>3 DEF Reached
<1>8. ASSUME p = Part(L, k), k < c
      PROVE  Reached(k + 1)'
  <2>1. p.seq = s /\ p.number = k /\ p.of = c /\ p.id = L
    BY <1>8 DEF Part
  <2>2. entry.flags[k] # s
    BY <1>1, <1>8, <2>1, <1>2 DEF Reached
  <2>3. (IF entry.current = s THEN entry.left ELSE c) = c - k
    BY <1>1, <1>8 DEF Reached
  <2>4. e.left = c - (k + 1)
    BY <1>1, <1>3, <1>4, <2>1, <2>2, <2>3
  <2>5. \A n \in PartNumbers : entry'.flags[n] = s => n < k + 1
    <3>1. ASSUME NEW n \in PartNumbers, entry'.flags[n] = s
          PROVE  n < k + 1
      <4>1. n = k \/ entry.flags[n] = s
        BY <1>3, <1>4, <1>6, <2>1, <3>1
      <4>2. n \in Nat
        BY SplitConstants DEF PartNumbers
      <4> QED
        BY <1>8, <4>1, <4>2 DEF Reached
    <3> QED
      BY <3>1
  <2>6. CASE k + 1 < c
    <3>1. ~ (e.left <= 0)
      BY <1>1, <2>4, <2>6
    <3> QED
      BY <1>1, <1>6, <2>1, <2>4, <2>5, <2>6, <3>1 DEF Reached
  <2>7. CASE k + 1 = c
    <3>1. e.left <= 0 /\ rebuilt' = Append(rebuilt, r)
      BY <1>1, <1>5, <2>4, <2>7
    <3>2. Gathered(L, e)
      <4>1. entry.current = s => Gathered(L, entry)
        BY <1>1 DEF EntryInv
      <4>2. k \in 0 .. c - 1
        BY <1>1, <1>8
      <4>3. Gathered(L, PutPart(entry, Part(L, k)))
        BY <1>1, <4>1, <4>2, PutGathers
      <4> QED
        BY <1>8, <4>3 DEF e
    <3>3. r.parts = Parts(L, long[L])
      BY <1>1, <3>1, <3>2, GatheredAll DEF r, Handed
    <3>4. rebuilt' # << >> /\ Last(rebuilt') = r
      <4>1. Len(rebuilt') = Len(rebuilt) + 1 /\ rebuilt'[Len(rebuilt) + 1] = r /\ Len(rebuilt) \in Nat
        BY <1>3, <3>1
      <4> QED
        BY <4>1 DEF Last
    <3> QED
      BY <1>1, <2>7, <3>3, <3>4 DEF Reached
  <2> QED
    BY <1>1, <1>8, <2>6, <2>7
<1> QED
  BY <1>7, <1>8

----------------------------------------------------------------------------
(* The sender *)

(* A packet more, and what it changes for the numbers. *)
LEMMA LongGrows ==
  ASSUME SplitTypes, NEW packet \in Packets, packet.seq >= 2, long' = Append(long, packet)
  PROVE  /\ long' \in Seq(Packets) /\ Len(long') = Len(long) + 1 /\ Len(long) \in Nat
         /\ DOMAIN long' = DOMAIN long \cup {Len(long) + 1} /\ Len(long) + 1 \notin DOMAIN long
         /\ long'[Len(long) + 1] = packet
         /\ \A id \in DOMAIN long : long'[id] = long[id]
         /\ \A id \in DOMAIN long' : long'[id].seq >= 2
         /\ \A k : Users(k)' = Users(k) \cup (IF k = packet.seq THEN {Len(long) + 1} ELSE {})
         /\ \A p : Real(p) => Real(p)'
PROOF
<1>1. long \in Seq(Packets) /\ \A id \in DOMAIN long : long[id].seq >= 2
  BY DEF SplitTypes
<1>2. /\ long' \in Seq(Packets) /\ Len(long') = Len(long) + 1 /\ Len(long) \in Nat
      /\ DOMAIN long' = DOMAIN long \cup {Len(long) + 1} /\ Len(long) + 1 \notin DOMAIN long
      /\ long'[Len(long) + 1] = packet
      /\ \A id \in DOMAIN long : long'[id] = long[id]
  BY <1>1
<1>3. \A id \in DOMAIN long' : long'[id].seq >= 2
  BY <1>1, <1>2
<1>4. \A k : Users(k)' = Users(k) \cup (IF k = packet.seq THEN {Len(long) + 1} ELSE {})
  <2> TAKE k
  <2>1. ASSUME NEW id
        PROVE  id \in Users(k)' <=> id \in Users(k) \/ (k = packet.seq /\ id = Len(long) + 1)
    BY <1>2 DEF Users
  <2> QED
    BY <2>1
<1>5. \A p : Real(p) => Real(p)'
  BY <1>2 DEF Real, Part
<1> QED
  BY <1>1, <1>2, <1>3, <1>4, <1>5

(* NET_SendLong queues and sends the parts of a packet, under a new number. *)
LEMMA SendLong ==
  ASSUME SplitInv, NEW count \in PartCounts, NET_SendLong(count), calm' \in BOOLEAN
  PROVE  /\ SplitTypes' /\ RealParts' /\ EntryInv' /\ WholeInv' /\ long' # << >>
         /\ queue = << >> /\ Users(long[Len(long)].seq)' = {Len(long')} => Arrives'
PROOF
<1>1. PICK l \in Nat, s \in Nat, packet \in Packets, a \in 0 .. count :
        /\ l = Len(long) /\ s = sequence + 1 /\ s >= 2
        /\ packet = [seq |-> s, parts |-> count] /\ packet.seq = s /\ packet.parts = count
        /\ a = IF SplitRate < count THEN SplitRate ELSE count
  <2>1. count \in Nat /\ SplitRate \in Nat
    BY SplitConstants
  <2>2. Len(long) \in Nat /\ sequence + 1 \in Nat /\ sequence + 1 >= 2
    BY DEF SplitInv, SplitTypes
  <2>3. (IF SplitRate < count THEN SplitRate ELSE count) \in 0 .. count
    BY <2>1
  <2>4. [seq |-> sequence + 1, parts |-> count] \in Packets
    BY <2>2 DEF Packets
  <2> QED
    BY <2>2, <2>3, <2>4
<1>2. PICK ps : ps = Parts(l + 1, packet)
  OBVIOUS
<1>3. /\ ps \in Seq(PartSet) /\ Len(ps) = count /\ count \in Nat \ {0}
      /\ \A n \in 1 .. count :
           ps[n] = [id |-> l + 1, seq |-> s, number |-> n - 1, of |-> count]
  BY <1>1, <1>2, PartsFacts
<1>4. PICK x, y : x = SubSeq(ps, 1, a) /\ y = SubSeq(ps, a + 1, count)
  OBVIOUS
<1>5. /\ x \in Seq(PartSet) /\ Len(x) = a /\ \A n \in 1 .. a : x[n] = ps[n]
      /\ y \in Seq(PartSet) /\ Len(y) = count - a /\ \A n \in 1 .. count - a : y[n] = ps[a + n]
  <2>1. a \in Nat /\ a <= count /\ a + 1 \in Nat /\ a + 1 >= 1
    BY <1>3
  <2>2. x \in Seq(PartSet) /\ Len(x) = a /\ \A n \in 1 .. a : x[n] = ps[n]
    BY <1>3, <1>4, <2>1
  <2>3. y \in Seq(PartSet) /\ Len(y) = count - a /\ \A n \in 1 .. count - a : y[n] = ps[a + n]
    BY <1>3, <1>4, <2>1
  <2> QED
    BY <2>2, <2>3
<1>6. /\ sequence' = s /\ long' = Append(long, packet)
      /\ wire' = wire \o x /\ queue' = queue \o y
      /\ entry' = entry /\ rebuilt' = rebuilt /\ faults' = faults
  BY <1>1, <1>2, <1>4 DEF NET_SendLong
<1>7. /\ long' \in Seq(Packets) /\ Len(long') = l + 1
      /\ DOMAIN long' = DOMAIN long \cup {l + 1} /\ l + 1 \notin DOMAIN long
      /\ long'[l + 1] = packet
      /\ \A id \in DOMAIN long : long'[id] = long[id]
      /\ \A id \in DOMAIN long' : long'[id].seq >= 2
      /\ \A k : Users(k)' = Users(k) \cup (IF k = s THEN {l + 1} ELSE {})
      /\ \A p : Real(p) => Real(p)'
  BY <1>1, <1>6, LongGrows DEF SplitInv
<1>8. ASSUME NEW n \in 1 .. count
      PROVE  Real(ps[n])' /\ ps[n] = Part(l + 1, n - 1)'
  <2>1. long'[l + 1].parts = count /\ long'[l + 1].seq = s /\ l + 1 \in DOMAIN long'
    BY <1>1, <1>7
  <2>2. ps[n] = [id |-> l + 1, seq |-> s, number |-> n - 1, of |-> count]
    BY <1>3
  <2>3. n - 1 \in 0 .. count - 1
    BY <1>3
  <2>4. ps[n].id = l + 1 /\ ps[n].number = n - 1
    BY <2>2
  <2> QED
    BY <2>1, <2>2, <2>3, <2>4 DEF Real, Part
<1>9. PICK w \in Seq(PartSet), m \in Nat :
        /\ w = wire /\ m = Len(w) /\ queue \in Seq(PartSet)
        /\ \A i \in 1 .. m : Real(w[i])' /\ w[i].id \in DOMAIN long
        /\ \A i \in 1 .. Len(queue) : \E p : p = queue[i] /\ Real(p)'
  <2>1. /\ wire \in Seq(PartSet) /\ queue \in Seq(PartSet)
        /\ \A i \in 1 .. Len(wire) : Real(wire[i]) /\ wire[i].id \in DOMAIN long
        /\ \A i \in 1 .. Len(queue) : Real(queue[i])
    BY DEF SplitInv, SplitTypes, RealParts, Real
  <2>2. PICK w \in Seq(PartSet), m \in Nat : w = wire /\ m = Len(w)
    BY <2>1
  <2>3. \A i \in 1 .. m : Real(w[i])' /\ w[i].id \in DOMAIN long
    BY <1>7, <2>1, <2>2
  <2>4. \A i \in 1 .. Len(queue) : \E p : p = queue[i] /\ Real(p)'
    BY <1>7, <2>1
  <2> QED
    BY <2>1, <2>2, <2>3, <2>4
<1>10. /\ wire' \in Seq(PartSet) /\ queue' \in Seq(PartSet)
       /\ Len(wire') = m + a /\ Len(queue') = Len(queue) + (count - a)
       /\ \A i \in 1 .. m : wire'[i] = w[i]
       /\ \A i \in 1 .. a : wire'[m + i] = ps[i]
       /\ \A i \in 1 .. Len(queue) : queue'[i] = queue[i]
       /\ \A i \in 1 .. count - a : queue'[Len(queue) + i] = ps[a + i]
       /\ Len(queue) \in Nat
  <2>1. w \o x \in Seq(PartSet) /\ queue \o y \in Seq(PartSet)
    BY <1>5, <1>9, ConcatProperties
  <2>2. Len(w \o x) = m + a /\ Len(queue \o y) = Len(queue) + (count - a)
    BY <1>5, <1>9, ConcatProperties
  <2>3. Len(queue) \in Nat
    BY <1>9
  <2>4. /\ \A i \in 1 .. m : (w \o x)[i] = w[i]
        /\ \A i \in 1 .. a : (w \o x)[m + i] = x[i]
    BY <1>1, <1>5, <1>9
  <2>5. /\ \A i \in 1 .. Len(queue) : (queue \o y)[i] = queue[i]
        /\ \A i \in 1 .. count - a : (queue \o y)[Len(queue) + i] = y[i]
    BY <1>1, <1>3, <1>5, <1>9
  <2> QED
    BY <1>5, <1>6, <1>9, <2>1, <2>2, <2>3, <2>4, <2>5
<1>11. SplitTypes'
  BY <1>1, <1>6, <1>7, <1>10 DEF SplitInv, SplitTypes
<1>12. RealParts'
  <2>1. ASSUME NEW i \in DOMAIN wire'
        PROVE  \E p : p = wire'[i] /\ Real(p)'
    <3>1. CASE i \in 1 .. m
      BY <1>9, <1>10, <3>1
    <3>2. CASE i \notin 1 .. m
      <4>1. PICK n \in 1 .. a : n \in 1 .. count /\ m + n = i
        <5>1. i \in 1 .. m + a
          BY <1>10
        <5>2. i - m \in 1 .. a /\ i - m \in 1 .. count /\ m + (i - m) = i
          BY <1>1, <1>3, <3>2, <5>1
        <5> QED
          BY <5>2
      <4> QED
        BY <1>8, <1>10, <4>1
    <3> QED
      BY <3>1, <3>2
  <2>2. ASSUME NEW i \in DOMAIN queue'
        PROVE  \E p : p = queue'[i] /\ Real(p)'
    <3>1. CASE i \in 1 .. Len(queue)
      BY <1>9, <1>10, <3>1
    <3>2. CASE i \notin 1 .. Len(queue)
      <4>1. PICK n \in 1 .. count - a : a + n \in 1 .. count /\ Len(queue) + n = i
        <5>1. i \in 1 .. Len(queue) + (count - a) /\ Len(queue) \in Nat
          BY <1>10
        <5>2. /\ i - Len(queue) \in 1 .. count - a /\ a + (i - Len(queue)) \in 1 .. count
              /\ Len(queue) + (i - Len(queue)) = i
          BY <1>1, <1>3, <3>2, <5>1
        <5> QED
          BY <5>2
      <4> QED
        BY <1>8, <1>10, <4>1
    <3> QED
      BY <3>1, <3>2
  <2> QED
    BY <2>1, <2>2 DEF RealParts, Real, Part
<1>13. ASSUME NEW k, Used(k), NEW id, Users(k)' = {id}
       PROVE  id \in DOMAIN long /\ Users(k) = {id}
  <2>1. PICK u : u \in Users(k) /\ u \in DOMAIN long
    BY <1>13 DEF Used, Users
  <2>2. Users(k) \subseteq {id}
    BY <1>7, <1>13
  <2> QED
    BY <2>1, <2>2
<1>14. \A k : Used(k) => Used(k)'
  BY <1>7 DEF Used
<1>15. EntryInv'
  <2>1. PICK e : e = entry /\ entry' = e
    BY <1>6
  <2>2. e.current \in {-1, 0} \/ Used(e.current)
    BY <2>1 DEF SplitInv, EntryInv
  <2>3. Users(-1)' = {} /\ Users(0)' = {}
    BY <1>1, <1>7, UsersFacts DEF SplitInv
  <2>4. ASSUME NEW id \in DOMAIN long', Users(e.current)' = {id}
        PROVE  Gathered(id, e)'
    <3>1. id \in DOMAIN long /\ Users(e.current) = {id}
      BY <1>13, <2>2, <2>3, <2>4
    <3>2. Gathered(id, e)
      BY <2>1, <3>1 DEF SplitInv, EntryInv
    <3> QED
      BY <1>7, <3>1, <3>2 DEF Gathered, GatheredIn, Part
  <2>5. \A n \in PartNumbers : e.flags[n] = -1 \/ Used(e.flags[n])'
    BY <1>14, <2>1 DEF SplitInv, EntryInv
  <2>6. e.current \in {-1, 0} \/ Used(e.current)'
    BY <1>14, <2>2
  <2> QED
    BY <2>1, <2>4, <2>5, <2>6 DEF EntryInv, Used, Users, Gathered, GatheredIn, Part
<1>16. WholeInv'
  <2>1. PICK r : r = rebuilt /\ rebuilt' = r
    BY <1>6
  <2>2. \A i \in DOMAIN r : Used(r[i].seq)
    BY <2>1 DEF SplitInv, WholeInv
  <2>3. ASSUME NEW i \in DOMAIN r, NEW id, Users(r[i].seq)' = {id}
        PROVE  r[i].parts = Parts(id, long'[id])
    <3>1. id \in DOMAIN long /\ Users(r[i].seq) = {id}
      BY <1>13, <2>2, <2>3
    <3> QED
      BY <1>7, <2>1, <2>3, <3>1 DEF SplitInv, WholeInv, WholePackets
  <2>4. \A i \in DOMAIN r : Used(r[i].seq)'
    BY <1>14, <2>2
  <2> QED
    BY <2>1, <2>3, <2>4 DEF WholeInv, WholePackets, Used, Users
<1>17. long' # << >>
  BY <1>7
<1>18. ASSUME queue = << >>, Users(long[Len(long)].seq)' = {Len(long')}
       PROVE  Arrives'
  <2>1. long'[Len(long')].parts = count /\ long'[Len(long')].seq = s
    BY <1>1, <1>7
  <2>2. Users(s) = {}
    <3>1. Users(s)' = {l + 1}
      BY <1>7, <1>18, <2>1 DEF Users
    <3> QED
      BY <1>7, <3>1 DEF Users
  <2>3. Len(queue) = 0
    BY <1>18
  <2>4. PICK q \in Nat : q = Len(wire') - m /\ q = a
    BY <1>1, <1>9, <1>10
  <2>5. \A i \in 1 .. m : wire'[i].id # l + 1
    BY <1>7, <1>9, <1>10
  <2>6. ASSUME NEW i \in m + 1 .. Len(wire')
        PROVE  wire'[i] = [id |-> l + 1, seq |-> s, number |-> 0 + i - m - 1, of |-> count]
    <3>1. PICK n \in 1 .. a : n \in 1 .. count /\ m + n = i /\ 0 + i - m - 1 = n - 1
      <4>1. i - m \in 1 .. a /\ i - m \in 1 .. count /\ m + (i - m) = i
            /\ 0 + i - m - 1 = (i - m) - 1
        BY <1>1, <1>3, <1>9, <1>10
      <4> QED
        BY <4>1
    <3> QED
      BY <1>3, <1>10, <3>1
  <2>7. ASSUME NEW i \in 1 .. Len(queue')
        PROVE  queue'[i] = [id |-> l + 1, seq |-> s, number |-> q + i - 1, of |-> count]
    <3>1. i \in 1 .. count - a /\ a + i \in 1 .. count /\ 0 + i = i /\ q + i - 1 = (a + i) - 1
      BY <1>1, <1>3, <1>10, <2>3, <2>4
    <3>2. queue'[i] = ps[a + i]
      BY <1>10, <2>3, <3>1
    <3> QED
      BY <1>3, <3>1, <3>2
  <2>8. q + Len(queue') = count
    BY <1>1, <1>3, <1>10, <2>3, <2>4
  <2>9. Order(m, 0)'
    <3>1. 0 + Len(wire') - m = q
      BY <1>1, <1>9, <1>10, <2>4
    <3>2. /\ \A i \in 1 .. m : wire'[i].id # Len(long')
          /\ \A i \in m + 1 .. Len(wire') :
               wire'[i] = [id |-> Len(long'), seq |-> long'[Len(long')].seq,
                           number |-> 0 + i - m - 1, of |-> long'[Len(long')].parts]
          /\ q + Len(queue') = long'[Len(long')].parts
          /\ \A i \in 1 .. Len(queue') :
               queue'[i] = [id |-> Len(long'), seq |-> long'[Len(long')].seq,
                            number |-> q + i - 1, of |-> long'[Len(long')].parts]
      BY <1>7, <2>1, <2>5, <2>6, <2>7, <2>8
    <3> QED
      BY <3>1, <3>2 DEF Order, Part
  <2>10. Reached(0)'
    <3>1. entry.current # s /\ \A n \in PartNumbers : entry.flags[n] # s
      BY <1>1, <2>2 DEF SplitInv, EntryInv, Used
    <3> QED
      BY <1>3, <1>6, <2>1, <3>1 DEF Reached
  <2>11. m \in 0 .. Len(wire') /\ 0 \in 0 .. count
    BY <1>1, <1>3, <1>9, <1>10
  <2> QED
    BY <2>1, <2>9, <2>10, <2>11 DEF Arrives
<1> QED
  BY <1>11, <1>12, <1>15, <1>16, <1>17, <1>18

(* What a step keeps that leaves the packets, the entry and what was handed over. *)
LEMMA ReceiverKept ==
  ASSUME SplitInv, long' = long, entry' = entry, rebuilt' = rebuilt
  PROVE  EntryInv' /\ WholeInv'
BY DEF SplitInv, EntryInv, WholeInv, WholePackets, Used, Users, Gathered, GatheredIn, Part

(* The last packet, when the network is kind to it. *)
LEMMA CalmFacts ==
  ASSUME SplitInv, calm, Users(long[Len(long)].seq) = {Len(long)}
  PROVE  \E l \in Nat, c \in Nat \ {0}, s \in Nat, m \in Nat, k \in Nat :
           /\ l = Len(long) /\ c = long[l].parts /\ s = long[l].seq /\ long # << >>
           /\ m \in 0 .. Len(wire) /\ k \in 0 .. c /\ Order(m, k) /\ Reached(k)
PROOF
<1>1. long # << >> /\ Arrives /\ SplitTypes
  BY DEF SplitInv, CalmInv
<1>2. Len(long) \in DOMAIN long /\ Len(long) \in Nat
  BY <1>1 DEF SplitTypes
<1>3. long[Len(long)].parts \in Nat \ {0} /\ long[Len(long)].seq \in Nat
  BY <1>1, <1>2, LongFacts
<1>4. PICK m \in 0 .. Len(wire), k \in 0 .. long[Len(long)].parts : Order(m, k) /\ Reached(k)
  BY <1>1 DEF Arrives
<1>5. m \in Nat /\ k \in Nat
  BY <1>1, <1>3 DEF SplitTypes
<1> QED
  BY <1>1, <1>2, <1>3, <1>4, <1>5

(* A queued part leaves: of the last packet, the next one. *)
LEMMA SendQueuedPacketInv ==
  ASSUME SplitInv, NEW i \in DOMAIN queue, SendQueuedPacket(i)
  PROVE  SplitInv'
PROOF
<1>1. /\ wire' = Append(wire, queue[i]) /\ queue' = RemoveAt(queue, i)
      /\ \A j \in 1 .. i - 1 : queue[j].id # queue[i].id
      /\ sequence' = sequence /\ entry' = entry /\ long' = long /\ rebuilt' = rebuilt
      /\ calm' = calm /\ faults' = faults
  BY DEF SendQueuedPacket
<1>2. /\ wire \in Seq(PartSet) /\ queue \in Seq(PartSet) /\ queue[i] \in PartSet
      /\ i \in 1 .. Len(queue) /\ Len(queue) \in Nat /\ Len(wire) \in Nat
  BY DEF SplitInv, SplitTypes
<1>3. /\ queue' \in Seq(PartSet) /\ Len(queue') = Len(queue) - 1
      /\ \A j \in 1 .. Len(queue) - 1 : queue'[j] = IF j < i THEN queue[j] ELSE queue[j + 1]
  BY <1>1, <1>2, RemoveFacts
<1>4. /\ wire' \in Seq(PartSet) /\ Len(wire') = Len(wire) + 1
      /\ \A j \in 1 .. Len(wire) : wire'[j] = wire[j]
      /\ wire'[Len(wire) + 1] = queue[i]
  BY <1>1, <1>2
<1>5. SplitTypes'
  BY <1>1, <1>3, <1>4 DEF SplitInv, SplitTypes
<1>6. RealParts'
  <2>1. /\ \A j \in 1 .. Len(wire) : Real(wire[j])
        /\ \A j \in 1 .. Len(queue) : Real(queue[j])
    BY <1>2 DEF SplitInv, RealParts
  <2>2. ASSUME NEW j \in DOMAIN wire'
        PROVE  Real(wire'[j])
    <3>1. j \in 1 .. Len(wire) + 1
      BY <1>4
    <3> QED
      BY <1>2, <1>4, <2>1, <3>1
  <2>3. ASSUME NEW j \in DOMAIN queue'
        PROVE  Real(queue'[j])
    <3>1. j \in 1 .. Len(queue) - 1
      BY <1>3
    <3> QED
      BY <1>2, <1>3, <2>1, <3>1
  <2> QED
    BY <1>1, <2>2, <2>3 DEF RealParts, Real, Part
<1>7. EntryInv' /\ WholeInv'
  BY <1>1, ReceiverKept
<1>8. ASSUME calm, Users(long[Len(long)].seq) = {Len(long)}
      PROVE  Arrives'
  <2>1. PICK l \in Nat, c \in Nat \ {0}, s \in Nat, m \in Nat, k \in Nat :
           /\ l = Len(long) /\ c = long[l].parts /\ s = long[l].seq /\ long # << >>
           /\ m \in 0 .. Len(wire) /\ k \in 0 .. c /\ Order(m, k) /\ Reached(k)
    BY <1>8, CalmFacts
  <2>2. PICK q \in Int : q = k + Len(wire) - m /\ k + Len(wire') - m = q + 1
    <3>1. k + Len(wire) - m \in Int /\ k + Len(wire') - m = (k + Len(wire) - m) + 1
      BY <1>2, <1>4
    <3> QED
      BY <3>1
  <2>3. /\ \A j \in 1 .. m : wire[j].id # l
        /\ \A j \in m + 1 .. Len(wire) :
             wire[j] = [id |-> l, seq |-> s, number |-> k + j - m - 1, of |-> c]
        /\ q + Len(queue) = c
        /\ \A j \in 1 .. Len(queue) :
             queue[j] = [id |-> l, seq |-> s, number |-> q + j - 1, of |-> c]
        /\ k > 0 => m = 0
    BY <2>1, <2>2 DEF Order, Part
  <2>4. i = 1
    <3>1. ASSUME NEW j \in 1 .. Len(queue)
          PROVE  queue[j].id = l
      <4>1. queue[j] = [id |-> l, seq |-> s, number |-> q + j - 1, of |-> c]
        BY <2>3
      <4> QED
        BY <4>1
    <3> QED
      BY <1>1, <1>2, <3>1
  <2>5. ASSUME NEW j \in 1 .. m
        PROVE  wire'[j].id # l
    <3>1. j \in 1 .. Len(wire)
      BY <1>2, <2>1
    <3> QED
      BY <1>4, <2>3, <3>1
  <2>6. ASSUME NEW j \in m + 1 .. Len(wire')
        PROVE  wire'[j] = [id |-> l, seq |-> s, number |-> k + j - m - 1, of |-> c]
    <3>1. CASE j = Len(wire) + 1
      <4>1. q + 1 - 1 = k + j - m - 1
        BY <1>2, <2>2, <3>1
      <4>2. wire'[j] = [id |-> l, seq |-> s, number |-> q + 1 - 1, of |-> c]
        BY <1>2, <1>4, <2>3, <2>4, <3>1
      <4> QED
        BY <4>1, <4>2
    <3>2. CASE j # Len(wire) + 1
      <4>1. j \in m + 1 .. Len(wire) /\ j \in 1 .. Len(wire)
        BY <1>2, <1>4, <2>1, <3>2
      <4> QED
        BY <1>4, <2>3, <4>1
    <3> QED
      BY <3>1, <3>2
  <2>7. ASSUME NEW j \in 1 .. Len(queue')
        PROVE  queue'[j] = [id |-> l, seq |-> s, number |-> (q + 1) + j - 1, of |-> c]
    <3>1. j + 1 \in 1 .. Len(queue) /\ j \in 1 .. Len(queue) - 1 /\ ~ (j < i)
          /\ q + (j + 1) - 1 = (q + 1) + j - 1
      BY <1>2, <1>3, <2>4
    <3> QED
      BY <1>3, <2>3, <3>1
  <2>8. (q + 1) + Len(queue') = c
    BY <1>2, <1>3, <2>3
  <2>9. Order(m, k)'
    <3>1. /\ \A j \in m + 1 .. Len(wire') : wire'[j] = Part(l, k + j - m - 1)
          /\ \A j \in 1 .. Len(queue') : queue'[j] = Part(l, (q + 1) + j - 1)
      BY <2>1, <2>6, <2>7 DEF Part
    <3> QED
      BY <1>1, <2>1, <2>2, <2>3, <2>5, <2>8, <3>1 DEF Order, Part
  <2>10. Reached(k)'
    BY <1>1, <2>1 DEF Reached
  <2>11. m \in 0 .. Len(wire')
    BY <1>2, <1>4, <2>1
  <2> QED
    BY <1>1, <2>1, <2>9, <2>10, <2>11 DEF Arrives
<1>9. CalmInv'
  <2>1. calm => long # << >>
    BY DEF SplitInv, CalmInv
  <2> QED
    BY <1>1, <1>8, <2>1 DEF CalmInv, Users
<1> QED
  BY <1>5, <1>6, <1>7, <1>9 DEF SplitInv

(* What is left on the way when the oldest part has gone, and when it goes again. *)
LEMMA WireFacts ==
  ASSUME SplitInv, wire # << >>, long' = long, queue' = queue,
         wire' = Tail(wire) \/ wire' = Append(Tail(wire), Head(wire))
  PROVE  /\ Real(Head(wire)) /\ Head(wire) = wire[1] /\ Len(wire) \in Nat \ {0}
         /\ wire' \in Seq(PartSet) /\ RealParts'
         /\ wire' = Tail(wire) => /\ Len(wire') = Len(wire) - 1
                                  /\ \A j \in 1 .. Len(wire) - 1 : wire'[j] = wire[j + 1]
PROOF
<1>1. /\ wire \in Seq(PartSet) /\ Len(wire) \in Nat \ {0} /\ Head(wire) = wire[1]
      /\ \A j \in 1 .. Len(wire) : Real(wire[j])
      /\ \A j \in DOMAIN queue : Real(queue[j])
  BY DEF SplitInv, SplitTypes, RealParts
<1>2. PICK t \in Seq(PartSet), h \in PartSet :
        /\ t = Tail(wire) /\ h = Head(wire) /\ Real(h) /\ Len(t) = Len(wire) - 1
        /\ \A j \in 1 .. Len(wire) - 1 : t[j] = wire[j + 1]
  <2>1. /\ Tail(wire) \in Seq(PartSet) /\ Head(wire) \in PartSet /\ Real(Head(wire))
        /\ Len(Tail(wire)) = Len(wire) - 1
        /\ \A j \in 1 .. Len(wire) - 1 : Tail(wire)[j] = wire[j + 1]
    BY <1>1
  <2> QED
    BY <2>1
<1>3. /\ Append(t, h) \in Seq(PartSet) /\ Len(Append(t, h)) = Len(t) + 1
      /\ \A j \in 1 .. Len(t) : Append(t, h)[j] = t[j]
      /\ Append(t, h)[Len(t) + 1] = h
  BY <1>2
<1>4. \A j \in 1 .. Len(t) : Real(t[j])
  BY <1>1, <1>2
<1>5. \A j \in DOMAIN t : Real(t[j])
  BY <1>2, <1>4
<1>6. \A j \in DOMAIN Append(t, h) : Real(Append(t, h)[j])
  <2>1. DOMAIN Append(t, h) = 1 .. Len(t) + 1 /\ Len(t) \in Nat
    BY <1>2, <1>3
  <2> QED
    BY <1>2, <1>3, <1>4, <2>1
<1>7. \A j \in DOMAIN wire' : Real(wire'[j])
  BY <1>2, <1>5, <1>6
<1>8. RealParts'
  BY <1>1, <1>7 DEF RealParts, Real, Part
<1> QED
  BY <1>1, <1>2, <1>3, <1>8

(* A part arrives. *)
LEMMA ReceivePartInv ==
  ASSUME SplitInv, ReceivePart
  PROVE  SplitInv'
PROOF
<1>1. /\ wire # << >> /\ NET_GetLong(Head(wire)) /\ wire' = Tail(wire)
      /\ sequence' = sequence /\ queue' = queue /\ long' = long /\ calm' = calm /\ faults' = faults
  BY DEF ReceivePart
<1>2. /\ Real(Head(wire)) /\ Head(wire) = wire[1] /\ Len(wire) \in Nat \ {0}
      /\ wire' \in Seq(PartSet) /\ RealParts' /\ Len(wire') = Len(wire) - 1
      /\ \A j \in 1 .. Len(wire) - 1 : wire'[j] = wire[j + 1]
  BY <1>1, WireFacts
<1>3. PICK p : p = Head(wire) /\ Real(p) /\ NET_GetLong(p) /\ p = wire[1]
  BY <1>1, <1>2
<1>4. /\ entry' \in Entries /\ rebuilt' \in Seq([seq : Int, parts : Seq(Content)])
      /\ EntryInv' /\ WholeInv'
  BY <1>1, <1>3, GetLong DEF SplitInv
<1>5. SplitTypes'
  BY <1>1, <1>2, <1>4 DEF SplitInv, SplitTypes
<1>6. ASSUME calm, Users(long[Len(long)].seq) = {Len(long)}
      PROVE  Arrives'
  <2>1. PICK l \in Nat, c \in Nat \ {0}, s \in Nat, m \in Nat, k \in Nat :
           /\ l = Len(long) /\ c = long[l].parts /\ s = long[l].seq /\ long # << >>
           /\ m \in 0 .. Len(wire) /\ k \in 0 .. c /\ Order(m, k) /\ Reached(k)
    BY <1>6, CalmFacts
  <2>2. /\ p.id # l /\ k = 0 => Reached(0)'
        /\ p = Part(l, k) /\ k < c => Reached(k + 1)'
    BY <1>1, <1>3, <1>6, <2>1, GetLongReaches DEF SplitInv
  <2>3. /\ \A j \in 1 .. m : wire[j].id # l
        /\ \A j \in m + 1 .. Len(wire) : wire[j] = Part(l, k + j - m - 1)
        /\ k + Len(wire) - m + Len(queue) = c
        /\ \A j \in 1 .. Len(queue) : queue[j] = Part(l, k + Len(wire) - m + j - 1)
        /\ k > 0 => m = 0
    BY <2>1 DEF Order
  <2>4. CASE m > 0
    <3>1. k = 0 /\ Reached(0)'
      BY <1>2, <1>3, <2>1, <2>2, <2>3, <2>4
    <3>2. PICK n \in Nat : n = m - 1 /\ n \in 0 .. Len(wire')
      <4>1. m - 1 \in Nat /\ m - 1 \in 0 .. Len(wire')
        BY <1>2, <2>1, <2>4
      <4> QED
        BY <4>1
    <3>3. ASSUME NEW j \in 1 .. n
          PROVE  wire'[j].id # l
      <4>1. j \in 1 .. Len(wire) - 1 /\ j + 1 \in 1 .. m
        BY <1>2, <2>1, <3>2
      <4> QED
        BY <1>2, <2>3, <4>1
    <3>4. ASSUME NEW j \in n + 1 .. Len(wire')
          PROVE  wire'[j] = Part(l, 0 + j - n - 1)
      <4>1. /\ j \in 1 .. Len(wire) - 1 /\ j + 1 \in m + 1 .. Len(wire)
            /\ 0 + (j + 1) - m - 1 = 0 + j - n - 1
        BY <1>2, <3>2
      <4> QED
        BY <1>2, <2>3, <3>1, <4>1
    <3>5. 0 + Len(wire') - n = k + Len(wire) - m
      BY <1>2, <3>1, <3>2
    <3>6. Order(n, 0)'
      <4>1. /\ \A j \in 1 .. n : wire'[j].id # Len(long)
            /\ \A j \in n + 1 .. Len(wire') : wire'[j] = Part(Len(long), 0 + j - n - 1)
            /\ 0 + Len(wire') - n + Len(queue) = long[Len(long)].parts
            /\ \A j \in 1 .. Len(queue) :
                 queue[j] = Part(Len(long), 0 + Len(wire') - n + j - 1)
        BY <2>1, <2>3, <3>3, <3>4, <3>5
      <4>2. PICK q : q = 0 + Len(wire') - n
        OBVIOUS
      <4>3. /\ q + Len(queue) = long[Len(long)].parts
            /\ \A j \in 1 .. Len(queue) : queue[j] = Part(Len(long), q + j - 1)
        BY <4>1, <4>2
      <4>4. PICK z : z = 0 /\ ~ (z > 0)
        OBVIOUS
      <4>5. /\ \A j \in n + 1 .. Len(wire') :
                 wire'[j] = [id |-> Len(long'), seq |-> long'[Len(long')].seq,
                             number |-> z + j - n - 1, of |-> long'[Len(long')].parts]
            /\ \A j \in 1 .. Len(queue') :
                 queue'[j] = [id |-> Len(long'), seq |-> long'[Len(long')].seq,
                              number |-> q + j - 1, of |-> long'[Len(long')].parts]
            /\ q + Len(queue') = long'[Len(long')].parts /\ q = z + Len(wire') - n
            /\ \A j \in 1 .. n : wire'[j].id # Len(long')
        BY <1>1, <4>1, <4>2, <4>3, <4>4 DEF Part
      <4>6. Order(n, z)'
        BY <4>4, <4>5 DEF Order, Part
      <4> QED
        BY <4>4, <4>6
    <3>7. 0 \in 0 .. c
      BY <2>1
    <3> QED
      BY <1>1, <2>1, <3>1, <3>2, <3>6, <3>7 DEF Arrives
  <2>5. CASE m = 0
    <3>1. p = Part(l, k)
      <4>1. 1 \in m + 1 .. Len(wire) /\ k + 1 - m - 1 = k
        BY <1>2, <2>5
      <4> QED
        BY <1>3, <2>3, <4>1
    <3>2. k < c
      <4>1. Len(queue) \in Nat
        BY DEF SplitInv, SplitTypes
      <4> QED
        BY <1>2, <2>3, <2>5, <4>1
    <3>3. PICK n \in Nat : n = k + 1 /\ n \in 0 .. c /\ Reached(n)'
      <4>1. k + 1 \in Nat /\ k + 1 \in 0 .. c
        BY <3>2
      <4> QED
        BY <2>2, <3>1, <3>2, <4>1
    <3>4. ASSUME NEW j \in 0 + 1 .. Len(wire')
          PROVE  wire'[j] = Part(l, n + j - 0 - 1)
      <4>1. /\ j \in 1 .. Len(wire) - 1 /\ j + 1 \in m + 1 .. Len(wire)
            /\ k + (j + 1) - m - 1 = n + j - 0 - 1
        BY <1>2, <2>5, <3>3
      <4> QED
        BY <1>2, <2>3, <4>1
    <3>5. n + Len(wire') - 0 = k + Len(wire) - m
      BY <1>2, <2>5, <3>3
    <3>6. Order(0, n)'
      <4>1. /\ \A j \in 0 + 1 .. Len(wire') : wire'[j] = Part(Len(long), n + j - 0 - 1)
            /\ n + Len(wire') - 0 + Len(queue) = long[Len(long)].parts
            /\ \A j \in 1 .. Len(queue) :
                 queue[j] = Part(Len(long), n + Len(wire') - 0 + j - 1)
        BY <2>1, <2>3, <3>4, <3>5
      <4>2. \A j \in 1 .. 0 : wire'[j].id # Len(long)
        OBVIOUS
      <4> QED
        BY <1>1, <4>1, <4>2 DEF Order, Part
    <3>7. 0 \in 0 .. Len(wire')
      BY <1>2
    <3> QED
      BY <1>1, <2>1, <3>3, <3>6, <3>7 DEF Arrives
  <2> QED
    BY <2>1, <2>4, <2>5
<1>7. CalmInv'
  <2>1. calm => long # << >>
    BY DEF SplitInv, CalmInv
  <2> QED
    BY <1>1, <1>6, <2>1 DEF CalmInv, Users
<1> QED
  BY <1>2, <1>4, <1>5, <1>7 DEF SplitInv

(* A step that changes nothing of what the last packet needs. *)
LEMMA CalmKept ==
  ASSUME SplitInv, UNCHANGED <<queue, wire, entry, long, rebuilt, calm>>
  PROVE  CalmInv'
PROOF
<1>1. ASSUME NEW m, NEW k, Order(m, k), Reached(k)
      PROVE  (Order(m, k) /\ Reached(k))'
  <2>1. Order(m, k)'
    BY <1>1 DEF Order, Part
  <2>2. Reached(k)'
    BY <1>1 DEF Reached
  <2> QED
    BY <2>1, <2>2
<1>2. Arrives => Arrives'
  BY <1>1 DEF Arrives
<1> QED
  BY <1>2 DEF SplitInv, CalmInv, Users

(* What disturbs the last packet: the network, a packet that nobody held back. *)
LEMMA DisturbedInv ==
  ASSUME SplitInv, LosePart \/ RepeatPart \/ DelayPart
  PROVE  SplitInv'
PROOF
<1>1. /\ wire # << >> /\ faults' = faults + 1 /\ calm' = FALSE
      /\ sequence' = sequence /\ queue' = queue /\ long' = long
      /\ wire' = Tail(wire) \/ wire' = Append(Tail(wire), Head(wire))
  BY DEF LosePart, RepeatPart, DelayPart, Fault
<1>2. Real(Head(wire)) /\ wire' \in Seq(PartSet) /\ RealParts'
  BY <1>1, WireFacts
<1>3. /\ entry' \in Entries /\ rebuilt' \in Seq([seq : Int, parts : Seq(Content)])
      /\ EntryInv' /\ WholeInv'
  <2>1. CASE RepeatPart
    <3>1. PICK p : Real(p) /\ NET_GetLong(p)
      BY <1>2, <2>1 DEF RepeatPart
    <3> QED
      BY <1>1, <3>1, GetLong DEF SplitInv
  <2>2. CASE ~ RepeatPart
    <3>1. entry' = entry /\ rebuilt' = rebuilt
      BY <2>2 DEF LosePart, DelayPart
    <3> QED
      BY <1>1, <3>1, ReceiverKept DEF SplitInv, SplitTypes
  <2> QED
    BY <2>1, <2>2
<1>4. SplitTypes'
  <2>1. calm' \in BOOLEAN
    BY <1>1, Zenon
  <2>2. faults' \in Nat
    BY <1>1 DEF SplitInv, SplitTypes
  <2> QED
    BY <1>1, <1>2, <1>3, <2>1, <2>2 DEF SplitInv, SplitTypes
<1> QED
  BY <1>1, <1>2, <1>3, <1>4 DEF SplitInv, CalmInv

(* A new entry. *)
LEMMA NewEntryFacts ==
  /\ NewEntry \in Entries /\ NewEntry.current = 0
  /\ \A n \in PartNumbers : NewEntry.flags[n] = -1
BY DEF NewEntry, Entries, Content

(* The entry is taken away: of the last packet there was nothing in it. *)
LEMMA DiscardStaleInv ==
  ASSUME SplitInv, DiscardStale
  PROVE  SplitInv'
PROOF
<1>1. /\ entry' = NewEntry /\ calm' = (calm /\ wire = << >> /\ queue = << >>)
      /\ sequence' = sequence /\ queue' = queue /\ wire' = wire /\ long' = long
      /\ rebuilt' = rebuilt /\ faults' = faults
  BY DEF DiscardStale
<1>2. SplitTypes /\ RealParts /\ WholeInv /\ calm' \in BOOLEAN
  BY <1>1 DEF SplitInv
<1>3. entry' \in Entries /\ entry'.current = 0 /\ \A n \in PartNumbers : entry'.flags[n] = -1
  BY <1>1, NewEntryFacts
<1>4. SplitTypes'
  BY <1>1, <1>2, <1>3 DEF SplitTypes
<1>5. RealParts' /\ WholeInv'
  BY <1>1, <1>2 DEF RealParts, Real, Part, WholeInv, WholePackets, Used, Users
<1>6. EntryInv'
  <2>1. \A id \in DOMAIN long' : long'[id].seq # 0
    BY <1>1, <1>2 DEF SplitTypes
  <2>2. \A id \in DOMAIN long' : Users(entry.current)' # {id}
    BY <1>3, <2>1 DEF Users
  <2> QED
    BY <1>3, <2>2 DEF EntryInv
<1>7. CalmInv'
  <2>1. SUFFICES ASSUME calm, wire = << >>, queue = << >>
                 PROVE  /\ long' # << >>
                        /\ Users(long[Len(long)].seq) = {Len(long)} => Arrives'
    BY <1>1 DEF CalmInv, Users
  <2>2. long' # << >>
    BY <1>1, <2>1 DEF SplitInv, CalmInv
  <2>3. ASSUME Users(long[Len(long)].seq) = {Len(long)}
        PROVE  Arrives'
    <3>1. PICK l \in Nat, c \in Nat \ {0}, s \in Nat, m \in Nat, k \in Nat :
           /\ l = Len(long) /\ c = long[l].parts /\ s = long[l].seq /\ long # << >>
           /\ m \in 0 .. Len(wire) /\ k \in 0 .. c /\ Order(m, k) /\ Reached(k)
      BY <2>1, <2>3, CalmFacts
    <3>2. m = 0 /\ k = c
      <4>1. Len(wire) = 0 /\ Len(queue) = 0
        BY <2>1
      <4>2. k + Len(wire) - m + Len(queue) = c
        BY <3>1 DEF Order
      <4> QED
        BY <3>1, <4>1, <4>2
    <3>3. Order(m, k)'
      BY <1>1, <3>1 DEF Order, Part
    <3>4. rebuilt # << >> /\ Last(rebuilt).parts = Parts(l, long[l])
      BY <3>1, <3>2 DEF Reached
    <3>5. Reached(k)'
      BY <1>1, <3>1, <3>2, <3>4 DEF Reached
    <3> QED
      BY <1>1, <3>1, <3>3, <3>5 DEF Arrives
  <2> QED
    BY <2>2, <2>3
<1> QED
  BY <1>4, <1>5, <1>6, <1>7 DEF SplitInv

----------------------------------------------------------------------------
(* The invariant and what it says *)

LEMMA SplitInitInv ==
  ASSUME SplitInit
  PROVE  SplitInv
PROOF
<1>1. /\ sequence = 1 /\ queue = << >> /\ wire = << >> /\ entry = NewEntry /\ long = << >>
      /\ rebuilt = << >> /\ calm = FALSE /\ faults = 0
  BY DEF SplitInit
<1>2. SplitTypes
  <2>1. /\ entry \in Entries /\ sequence \in Nat \ {0} /\ faults \in Nat
        /\ long \in Seq(Packets) /\ wire \in Seq(PartSet) /\ queue \in Seq(PartSet)
        /\ rebuilt \in Seq([seq : Int, parts : Seq(Content)])
    BY <1>1, NewEntryFacts
  <2>2. calm \in BOOLEAN
    BY <1>1, Zenon
  <2>3. \A id \in DOMAIN long : long[id].seq >= 2
    BY <1>1
  <2> QED
    BY <2>1, <2>2, <2>3 DEF SplitTypes
<1>3. RealParts
  BY <1>1 DEF RealParts
<1>4. EntryInv
  BY <1>1, NewEntryFacts DEF EntryInv
<1>5. WholeInv
  BY <1>1 DEF WholeInv, WholePackets
<1> QED
  BY <1>1, <1>2, <1>3, <1>4, <1>5 DEF SplitInv, CalmInv

LEMMA SplitNextInv ==
  ASSUME SplitInv, [SplitNext]_splitVars
  PROVE  SplitInv'
PROOF
<1>1. ASSUME NEW count \in PartCounts, SendDatagramLong(count)
      PROVE  SplitInv'
  <2>1. queue = << >> /\ NET_SendLong(count) /\ calm' = TRUE
    BY <1>1 DEF SendDatagramLong, CanPacket
  <2>2. /\ SplitTypes' /\ RealParts' /\ EntryInv' /\ WholeInv' /\ long' # << >>
        /\ Users(long[Len(long)].seq)' = {Len(long')} => Arrives'
    BY <2>1, SendLong
  <2> QED
    BY <2>2 DEF SplitInv, CalmInv
<1>2. ASSUME NEW count \in PartCounts, TransmitLong(count)
      PROVE  SplitInv'
  <2>1. NET_SendLong(count) /\ calm' = FALSE
    BY <1>2 DEF TransmitLong
  <2>2. SplitTypes' /\ RealParts' /\ EntryInv' /\ WholeInv'
    BY <2>1, SendLong
  <2> QED
    BY <2>1, <2>2 DEF SplitInv, CalmInv
<1>3. ASSUME NEW i \in DOMAIN queue, SendQueuedPacket(i)
      PROVE  SplitInv'
  BY <1>3, SendQueuedPacketInv
<1>4. CASE ResetChannel
  <2>1. /\ sequence' = 1 /\ faults' = faults + 1
        /\ UNCHANGED <<queue, wire, entry, long, rebuilt, calm>>
    BY <1>4 DEF ResetChannel
  <2>2. SplitTypes'
    BY <2>1 DEF SplitInv, SplitTypes
  <2>3. EntryInv' /\ WholeInv'
    BY <2>1, ReceiverKept
  <2>4. RealParts'
    BY <2>1 DEF SplitInv, RealParts, Real, Part
  <2>5. CalmInv'
    BY <2>1, CalmKept
  <2> QED
    BY <2>2, <2>3, <2>4, <2>5 DEF SplitInv
<1>5. CASE ReceivePart
  BY <1>5, ReceivePartInv
<1>6. CASE DiscardStale
  BY <1>6, DiscardStaleInv
<1>7. CASE LosePart \/ RepeatPart \/ DelayPart
  BY <1>7, DisturbedInv
<1>8. CASE UNCHANGED splitVars
  <2>1. UNCHANGED <<sequence, queue, wire, entry, long, rebuilt, calm, faults>>
    BY <1>8 DEF splitVars
  <2>2. SplitTypes'
    BY <2>1 DEF SplitInv, SplitTypes
  <2>3. EntryInv' /\ WholeInv'
    BY <2>1, ReceiverKept
  <2>4. RealParts'
    BY <2>1 DEF SplitInv, RealParts, Real, Part
  <2>5. CalmInv'
    BY <2>1, CalmKept
  <2> QED
    BY <2>2, <2>3, <2>4, <2>5 DEF SplitInv
<1> QED
  BY <1>1, <1>2, <1>3, <1>4, <1>5, <1>6, <1>7, <1>8 DEF SplitNext

(* SplitInv holds in every state that the sender, the network and the      *)
(* receiver reach.                                                         *)
THEOREM SplitInvariance == SplitSpec => []SplitInv
PROOF
<1>1. SplitInit => SplitInv
  BY SplitInitInv
<1>2. SplitInv /\ [SplitNext]_splitVars => SplitInv'
  BY SplitNextInv
<1> QED
  BY <1>1, <1>2, PTL DEF SplitSpec

(* What comes out under a number that was used once is the packet that was *)
(* sent, and the packet that the network was kind to comes out.            *)
THEOREM PacketsPutTogether == SplitSpec => []PutTogetherAsSent
PROOF
<1>1. ASSUME SplitInv, calm, queue = << >>, wire = << >>,
             Cardinality(Users(Last(long).seq)) = 1
      PROVE  rebuilt # << >> /\ Last(rebuilt).parts = Parts(Len(long), Last(long))
  <2>1. /\ long # << >> /\ SplitTypes /\ Len(long) \in DOMAIN long /\ Len(long) \in Nat
        /\ DOMAIN long = 1 .. Len(long) /\ Last(long) = long[Len(long)]
    BY <1>1 DEF SplitInv, SplitTypes, CalmInv, Last
  <2>2. PICK U : U = Users(long[Len(long)].seq) /\ U \subseteq 1 .. Len(long) /\ Len(long) \in U
                 /\ Cardinality(U) = 1
    BY <1>1, <2>1 DEF Users
  <2>3. U = {Len(long)}
    <3>1. PICK l : l = Len(long) /\ l \in U /\ l \in Int
      BY <2>1, <2>2
    <3>2. IsFiniteSet(1 .. Len(long))
      BY <2>1, FS_Interval
    <3>3. IsFiniteSet(U)
      BY <2>2, <3>2, FS_Subset
    <3>4. IsFiniteSet({l}) /\ Cardinality({l}) = 1
      BY FS_Singleton
    <3>5. {l} \subseteq U
      BY <3>1
    <3> QED
      BY <2>2, <3>1, <3>3, <3>4, <3>5, FS_Subset
  <2>4. PICK l \in Nat, c \in Nat \ {0}, s \in Nat, m \in Nat, k \in Nat :
           /\ l = Len(long) /\ c = long[l].parts /\ s = long[l].seq /\ long # << >>
           /\ m \in 0 .. Len(wire) /\ k \in 0 .. c /\ Order(m, k) /\ Reached(k)
    BY <1>1, <2>2, <2>3, CalmFacts
  <2>5. k = c
    <3>1. Len(wire) = 0 /\ Len(queue) = 0
      BY <1>1
    <3>2. k + Len(wire) - m + Len(queue) = c
      BY <2>4 DEF Order
    <3> QED
      BY <2>4, <3>1, <3>2
  <2>6. rebuilt # << >> /\ Last(rebuilt).parts = Parts(l, long[l])
    BY <2>4, <2>5 DEF Reached
  <2> QED
    BY <2>1, <2>4, <2>6
<1>2. SplitInv => PutTogetherAsSent
  BY <1>1 DEF SplitInv, WholeInv, PutTogetherAsSent, CalmPacketArrives
<1> QED
  BY <1>2, SplitInvariance, PTL
=============================================================================
