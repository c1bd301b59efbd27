------------------------- MODULE StringTableProofs -------------------------
(***************************************************************************)
(* Proofs about a string table and its mirror: for any strings, data,      *)
(* ticks, requests and messages, whatever snapshots and acknowledgements   *)
(* are lost, the client has the table of the message it read last, and     *)
(* what the server leaves out of an update is what the client has.         *)
(***************************************************************************)
EXTENDS StringTable, WellFoundedInduction, TLAPS

----------------------------------------------------------------------------
(* Reading an update *)

Content == [name : Names, data : Data \cup {NoData}]

\* The update u of the content c is that to the content d, which adds strings to it.
Follows(c, u, d) ==
  /\ c \in Seq(Content) /\ d \in Seq(Content) /\ Len(c) <= Len(d) /\ Len(d) <= MaxEntries
  /\ DOMAIN u \subseteq 1 .. Len(d)
  /\ \A i, j \in 1 .. Len(d) : d[i].name = d[j].name => i = j
  /\ \A i \in 1 .. Len(c) : c[i].name = d[i].name
  /\ \A i \in 1 .. Len(d) :
       /\ i \in DOMAIN u => u[i].data = d[i].data /\ (i > Len(c) => u[i] = d[i])
       /\ i \notin DOMAIN u => i <= Len(c) /\ c[i] = d[i]

\* ParseUpdate's loop, and what it has made of c after the entries up to i.
Put(t, u, i) ==
  LET at == IF i <= Len(t) THEN {i} ELSE {j \in DOMAIN t : t[j].name = u[i].name}
  IN IF at # {} THEN [t EXCEPT ![Min(at)].data = u[i].data] ELSE Append(t, u[i])
Parsing(g, c, u) ==
  g = [i \in 0 .. MaxEntries |->
         IF i = 0 THEN c ELSE IF i \in DOMAIN u THEN Put(g[i - 1], u, i) ELSE g[i - 1]]
Length(c, d, i) == IF i <= Len(c) THEN Len(c) ELSE IF i <= Len(d) THEN i ELSE Len(d)
Upto(c, d, i) == [j \in 1 .. Length(c, d, i) |-> IF j <= i THEN d[j] ELSE c[j]]

LEMMA MinOfOne ==
  ASSUME NEW i \in Nat
  PROVE  Min({i}) = i
<1>1. \A y \in {i} : i <= y
  OBVIOUS
<1> QED
  BY <1>1 DEF Min

LEMMA SameSeq ==
  ASSUME NEW S, NEW s \in Seq(S), NEW t \in Seq(S), Len(s) = Len(t),
         \A j \in 1 .. Len(t) : s[j] = t[j]
  PROVE  s = t
<1>1. s \in [1 .. Len(t) -> S] /\ t \in [1 .. Len(t) -> S]
  OBVIOUS
<1> QED
  BY <1>1

LEMMA UptoOk ==
  ASSUME NEW c, NEW u, NEW d, Follows(c, u, d), NEW i \in Nat
  PROVE  /\ Length(c, d, i) \in Nat /\ Upto(c, d, i) \in Seq(Content)
         /\ Len(Upto(c, d, i)) = Length(c, d, i)
         /\ DOMAIN Upto(c, d, i) = 1 .. Length(c, d, i)
         /\ \A j \in 1 .. Length(c, d, i) :
              Upto(c, d, i)[j] = (IF j <= i THEN d[j] ELSE c[j]) /\ Upto(c, d, i)[j] \in Content
<1>1. /\ c \in Seq(Content) /\ d \in Seq(Content) /\ Len(c) \in Nat /\ Len(d) \in Nat
      /\ Len(c) <= Len(d)
      /\ \A j \in 1 .. Len(c) : c[j] \in Content
      /\ \A j \in 1 .. Len(d) : d[j] \in Content
  BY DEF Follows
<1>2. PICK n \in Nat : n = Length(c, d, i)
  BY <1>1 DEF Length
<1>3. \A j \in 1 .. n : (IF j <= i THEN d[j] ELSE c[j]) \in Content
  BY <1>1, <1>2 DEF Length
<1>4. PICK f : f = [j \in 1 .. n |-> IF j <= i THEN d[j] ELSE c[j]]
  OBVIOUS
<1>5. f \in [1 .. n -> Content]
  BY <1>3, <1>4
<1>6. f \in Seq(Content) /\ Len(f) = n
  BY <1>5
<1>7. Upto(c, d, i) = f
  BY <1>2, <1>4 DEF Upto
<1> QED
  BY <1>2, <1>3, <1>4, <1>6, <1>7

LEMMA PutNext ==
  ASSUME NEW c, NEW u, NEW d, Follows(c, u, d), NEW i \in Nat, i >= 1
  PROVE  Upto(c, d, i) = IF i \in DOMAIN u THEN Put(Upto(c, d, i - 1), u, i)
                         ELSE Upto(c, d, i - 1)
<1>1. /\ Len(c) \in Nat /\ Len(d) \in Nat /\ Len(c) <= Len(d)
      /\ \A j \in 1 .. Len(d) : d[j] \in Content
  BY DEF Follows
<1>2. PICK k \in Nat : k = i - 1
  OBVIOUS
<1>3. PICK s, t : s = Upto(c, d, k) /\ t = Upto(c, d, i)
  OBVIOUS
<1>4. /\ s \in Seq(Content) /\ Len(s) = Length(c, d, k) /\ DOMAIN s = 1 .. Len(s)
      /\ \A j \in 1 .. Len(s) : s[j] = (IF j <= k THEN d[j] ELSE c[j]) /\ s[j] \in Content
  BY <1>2, <1>3, UptoOk
<1>5. /\ t \in Seq(Content) /\ Len(t) = Length(c, d, i) /\ DOMAIN t = 1 .. Len(t)
      /\ \A j \in 1 .. Len(t) : t[j] = (IF j <= i THEN d[j] ELSE c[j]) /\ t[j] \in Content
  <2>1. /\ Upto(c, d, i) \in Seq(Content) /\ Len(Upto(c, d, i)) = Length(c, d, i)
        /\ DOMAIN Upto(c, d, i) = 1 .. Length(c, d, i)
        /\ \A j \in 1 .. Length(c, d, i) :
             Upto(c, d, i)[j] = (IF j <= i THEN d[j] ELSE c[j]) /\ Upto(c, d, i)[j] \in Content
    BY UptoOk
  <2> QED
    BY <1>3, <2>1
<1>6. Len(s) \in Nat /\ Len(t) \in Nat
  BY <1>4, <1>5
<1>7. ASSUME NEW r \in Seq(Content), Len(r) = Len(t), \A j \in 1 .. Len(t) : r[j] = t[j]
      PROVE  r = t
  BY <1>5, <1>7, SameSeq
<1>8. CASE i \notin DOMAIN u
  <2>1. Len(s) = Len(t) /\ \A j \in 1 .. Len(t) : s[j] = t[j]
    <3>1. CASE i <= Len(d)
      <4>1. i <= Len(c) /\ c[i] = d[i]
        BY <1>1, <1>8, <3>1 DEF Follows
      <4>2. Len(s) = Len(c) /\ Len(t) = Len(c)
        BY <1>1, <1>2, <1>4, <1>5, <4>1 DEF Length
      <4> QED
        BY <1>1, <1>2, <1>4, <1>5, <4>1, <4>2
    <3>2. CASE i > Len(d)
      <4>1. Len(s) = Len(d) /\ Len(t) = Len(d)
        BY <1>1, <1>2, <1>4, <1>5, <3>2 DEF Length
      <4> QED
        BY <1>1, <1>2, <1>4, <1>5, <3>2, <4>1
    <3> QED
      BY <1>1, <3>1, <3>2
  <2>2. s = t
    BY <1>4, <1>7, <2>1
  <2> QED
    BY <1>2, <1>3, <1>8, <2>2
<1>9. CASE i \in DOMAIN u /\ i <= Len(c)
  <2>1. Len(s) = Len(c) /\ Len(t) = Len(c)
    BY <1>1, <1>2, <1>4, <1>5, <1>9 DEF Length
  <2>2. Put(s, u, i) = [s EXCEPT ![i].data = u[i].data]
    BY <1>9, <2>1, MinOfOne DEF Put
  <2>3. s[i] = c[i] /\ c[i] \in Content /\ d[i] \in Content /\ c[i].name = d[i].name
        /\ u[i].data = d[i].data
    BY <1>1, <1>2, <1>4, <1>9, <2>1 DEF Follows
  <2>4. [s[i] EXCEPT !.data = u[i].data] = d[i]
    BY <2>3 DEF Content
  <2>5. PICK r : r = [s EXCEPT ![i] = d[i]]
    OBVIOUS
  <2>6. Put(s, u, i) = r
    BY <1>4, <1>9, <2>1, <2>2, <2>4, <2>5
  <2>7. /\ r \in Seq(Content) /\ Len(r) = Len(s)
        /\ \A j \in 1 .. Len(s) : r[j] = IF j = i THEN d[i] ELSE s[j]
    <3>1. s \in [1 .. Len(s) -> Content]
      BY <1>4
    <3>2. r \in [1 .. Len(s) -> Content]
      BY <2>3, <2>5, <3>1
    <3>3. r \in Seq(Content) /\ Len(r) = Len(s)
      BY <1>6, <3>2
    <3> QED
      BY <1>4, <2>5, <3>1, <3>3
  <2>8. \A j \in 1 .. Len(t) : r[j] = t[j]
    BY <1>2, <1>4, <1>5, <1>9, <2>1, <2>7
  <2>9. r = t
    BY <1>7, <2>1, <2>7, <2>8
  <2> QED
    BY <1>2, <1>3, <1>9, <2>6, <2>9
<1>10. CASE i \in DOMAIN u /\ i > Len(c)
  <2>1. i <= Len(d) /\ u[i] = d[i]
    BY <1>1, <1>10 DEF Follows
  <2>2. Len(s) = k /\ Len(t) = i
    BY <1>1, <1>2, <1>4, <1>5, <1>10, <2>1 DEF Length
  <2>3. \A j \in 1 .. k : s[j] = d[j] /\ j \in 1 .. Len(d) /\ j # i
    BY <1>2, <1>4, <2>1, <2>2
  <2>4. {j \in DOMAIN s : s[j].name = u[i].name} = {}
    BY <1>1, <1>4, <2>1, <2>2, <2>3 DEF Follows
  <2>5. Put(s, u, i) = Append(s, d[i])
    BY <1>2, <2>1, <2>2, <2>4 DEF Put
  <2>6. PICK r : r = Append(s, d[i])
    OBVIOUS
  <2>7. d[i] \in Content
    BY <1>1, <2>1
  <2>8. r \in Seq(Content) /\ Len(r) = i /\ \A j \in 1 .. i : r[j] = IF j = i THEN d[i] ELSE s[j]
    BY <1>2, <1>4, <2>2, <2>6, <2>7
  <2>9. \A j \in 1 .. Len(t) : r[j] = t[j]
    BY <1>2, <1>5, <2>2, <2>3, <2>8
  <2>10. r = t
    BY <1>7, <2>2, <2>8, <2>9
  <2> QED
    BY <1>2, <1>3, <1>10, <2>5, <2>6, <2>10
<1> QED
  BY <1>1, <1>8, <1>9, <1>10

\* An update read into the content it follows makes it the content it was written from.
LEMMA ParseFollows ==
  ASSUME NEW c, NEW u, NEW d, Follows(c, u, d)
  PROVE  ParseUpdate(c, u) = d
<1>1. /\ Len(c) \in Nat /\ Len(d) \in Nat /\ MaxEntries \in Nat /\ Len(d) <= MaxEntries
      /\ c \in Seq(Content) /\ d \in Seq(Content) /\ Len(c) <= Len(d)
  BY StringTableConstants DEF Follows
<1>2. Upto(c, d, 0) = c
  <2>1. Length(c, d, 0) = Len(c)
    BY <1>1 DEF Length
  <2>2. PICK t : t = Upto(c, d, 0)
    OBVIOUS
  <2>3. PICK n \in Nat : n = 0
    BY <1>1
  <2>4. /\ t \in Seq(Content) /\ Len(t) = Len(c)
        /\ \A j \in 1 .. Len(c) : t[j] = (IF j <= n THEN d[j] ELSE c[j])
    BY <2>1, <2>2, <2>3, UptoOk
  <2>5. \A j \in 1 .. Len(c) : t[j] = c[j]
    BY <1>1, <2>3, <2>4
  <2>6. t = c
    BY <1>1, <2>4, <2>5, SameSeq
  <2> QED
    BY <2>2, <2>6
<1>3. PICK G : G = [i \in 0 .. MaxEntries |-> Upto(c, d, i)]
  OBVIOUS
<1>4. Parsing(G, c, u)
  <2>1. ASSUME NEW i \in 0 .. MaxEntries
        PROVE  G[i] = IF i = 0 THEN c ELSE IF i \in DOMAIN u THEN Put(G[i - 1], u, i) ELSE G[i - 1]
    <3>1. CASE i = 0
      BY <1>2, <1>3, <3>1
    <3>2. CASE i # 0
      <4>1. i \in Nat /\ i >= 1 /\ i - 1 \in 0 .. MaxEntries
        BY <1>1, <3>2
      <4>2. G[i] = Upto(c, d, i) /\ G[i - 1] = Upto(c, d, i - 1)
        BY <1>3, <4>1
      <4> QED
        BY <3>2, <4>1, <4>2, PutNext
    <3> QED
      BY <3>1, <3>2
  <2> QED
    BY <1>3, <2>1 DEF Parsing
<1>5. PICK g : g = CHOOSE h : Parsing(h, c, u)
  OBVIOUS
<1>6. Parsing(g, c, u)
  BY <1>4, <1>5
<1>7. \A i \in 0 .. MaxEntries :
        g[i] = IF i = 0 THEN c ELSE IF i \in DOMAIN u THEN Put(g[i - 1], u, i) ELSE g[i - 1]
  BY <1>6 DEF Parsing
<1>8. \A i \in 0 .. MaxEntries : g[i] = Upto(c, d, i)
  <2> SUFFICES ASSUME {i \in 0 .. MaxEntries : g[i] # Upto(c, d, i)} # {} PROVE FALSE
    OBVIOUS
  <2>1. PICK T : T = {i \in 0 .. MaxEntries : g[i] # Upto(c, d, i)}
    OBVIOUS
  <2>2. T \subseteq Nat /\ T # {}
    BY <2>1
  <2>3. PICK i \in T : \A y \in T : ~ (<<y, i>> \in OpToRel(<, Nat))
    BY <2>2, NatLessThanWellFounded, WFMin
  <2>4. i \in 0 .. MaxEntries /\ g[i] # Upto(c, d, i)
    BY <2>1
  <2>5. i # 0
    BY <1>1, <1>2, <1>7, <2>4
  <2>6. i - 1 \in 0 .. MaxEntries /\ i \in Nat /\ i - 1 \in Nat /\ i - 1 < i /\ i >= 1
    BY <1>1, <2>4, <2>5
  <2>7. <<i - 1, i>> \in OpToRel(<, Nat)
    <3>1. <<i - 1, i>> \in Nat \X Nat
      BY <2>6
    <3>2. <<i - 1, i>>[1] < <<i - 1, i>>[2]
      BY <2>6
    <3> QED
      BY <3>1, <3>2 DEF OpToRel
  <2>8. i - 1 \notin T
    BY <2>3, <2>7
  <2>9. g[i - 1] = Upto(c, d, i - 1)
    BY <2>1, <2>6, <2>8
  <2>10. g[i] = IF i \in DOMAIN u THEN Put(Upto(c, d, i - 1), u, i) ELSE Upto(c, d, i - 1)
    BY <1>7, <2>4, <2>5, <2>9
  <2> QED
    BY <2>4, <2>6, <2>10, PutNext
<1>9. ParseUpdate(c, u) = g[MaxEntries]
  BY <1>5 DEF ParseUpdate, Parsing, Put
<1>10. Upto(c, d, MaxEntries) = d
  <2>1. Length(c, d, MaxEntries) = Len(d)
    BY <1>1 DEF Length
  <2>2. PICK t : t = Upto(c, d, MaxEntries)
    OBVIOUS
  <2>3. PICK n \in Nat : n = MaxEntries
    BY <1>1
  <2>4. /\ t \in Seq(Content) /\ Len(t) = Len(d)
        /\ \A j \in 1 .. Len(d) : t[j] = (IF j <= n THEN d[j] ELSE c[j])
    <3>1. /\ Upto(c, d, n) \in Seq(Content) /\ Len(Upto(c, d, n)) = Length(c, d, n)
          /\ \A j \in 1 .. Length(c, d, n) : Upto(c, d, n)[j] = (IF j <= n THEN d[j] ELSE c[j])
      BY UptoOk
    <3> QED
      BY <2>1, <2>2, <2>3, <3>1
  <2>5. \A j \in 1 .. Len(d) : t[j] = d[j]
    BY <1>1, <2>3, <2>4
  <2>6. t = d
    BY <1>1, <2>4, <2>5, SameSeq
  <2> QED
    BY <2>2, <2>6
<1> QED
  BY <1>1, <1>8, <1>9, <1>10

----------------------------------------------------------------------------
(* The invariant *)

Entries == [name : Names, data : Data \cup {NoData}, created : Nat, changed : Nat]
TableState == [entries : Seq(Entries), lastChanged : Nat, changes : Int]
FrameState == [phase : {"network", "late", "think"}, tick : Nat, tableTick : Nat,
               signed : BOOLEAN]
BaseState == [state : {"connected", "new", "full"}, signonTick : Int, deltaTick : Int,
              ackTick : Int, waitTick : Int]
ClientState == [deltaTick : Int, table : Seq(Content), server : Seq(Content), requests : Int]

\* Entries have names of their own, and stamps that the table and its container bound.
TableOk(t, f) ==
  /\ t \in TableState /\ Len(t.entries) <= MaxEntries
  /\ \A i, j \in 1 .. Len(t.entries) : t.entries[i].name = t.entries[j].name => i = j
  /\ \A i \in 1 .. Len(t.entries) :
       t.entries[i].changed <= t.lastChanged /\ t.entries[i].changed <= f.tableTick
FrameOk(f) == f \in FrameState /\ f.tick <= f.tableTick /\ f.tableTick <= f.tick + 1

\* What is changed from now on is stamped after tick.
Sealed(f, tick) == tick \in Nat /\ tick <= f.tick /\ (tick < f.tableTick \/ f.signed)

\* The content c has what of the entries e was not changed after tick.
Covers(e, c, tick) ==
  /\ c \in Seq(Content) /\ Len(c) <= Len(e)
  /\ \A i \in 1 .. Len(c) : c[i].name = e[i].name
  /\ \A i \in 1 .. Len(e) :
       /\ e[i].changed <= tick => i <= Len(c) /\ c[i].data = e[i].data
       /\ i > Len(c) => e[i].created > tick

\* The messages q under way, each of which follows the one before; the first follows
\* what the client has, the content c of tick.
MessageOk(m, e, f, tick) ==
  /\ m.kind \in {"full", "delta"} /\ Sealed(f, m.tick) /\ tick <= m.tick
  /\ Covers(e, m.content, m.tick)
Chain(q, c, tick, e, f) ==
  /\ Sealed(f, tick) /\ Covers(e, c, tick)
  /\ \A k \in DOMAIN q : MessageOk(q[k], e, f, tick)
  /\ \A j, k \in DOMAIN q : j <= k => q[j].tick <= q[k].tick
  /\ \A k \in DOMAIN q :
       Follows(IF k = 1 THEN c ELSE q[k - 1].content, q[k].update, q[k].content)

\* No tick that is told, or known, is of a message that the client has not read.
Known(b, c, p, tick) ==
  /\ b.signonTick <= tick /\ b.deltaTick <= tick /\ b.ackTick <= tick
  /\ c.deltaTick <= tick /\ \A i \in DOMAIN p : p[i] <= tick

Empty(b, c, p) ==
  /\ c.table = << >> /\ c.deltaTick = -1 /\ p = << >>
  /\ b.deltaTick = -1 /\ b.ackTick = 0

\* Before signing on, with the signon data under way, and after it has arrived.
Fresh(b, c, q, p) == b.state = "connected" /\ Empty(b, c, p) /\ b.signonTick = 0 /\ q = << >>
Signing(b, c, q, p, e, f) ==
  /\ b.state = "new" /\ Empty(b, c, p)
  /\ Len(q) = 1 /\ q[1].kind = "signon" /\ b.signonTick = q[1].tick /\ Sealed(f, q[1].tick)
  /\ Covers(e, q[1].content, q[1].tick) /\ Follows(<< >>, q[1].update, q[1].content)
Signed(b, c, q, p, e, f) ==
  /\ b.state # "connected"
  /\ \E tick \in Nat : Chain(q, c.table, tick, e, f) /\ Known(b, c, p, tick)

Mirroring(b, c, q, p, e, f) ==
  Fresh(b, c, q, p) \/ Signing(b, c, q, p, e, f) \/ Signed(b, c, q, p, e, f)

TableTypes ==
  /\ FrameOk(frame) /\ TableOk(table, frame) /\ base \in BaseState /\ client \in ClientState
  /\ (\E S : toClient \in Seq(S)) /\ toServer \in Seq(Int)

Mirrored ==
  /\ TableTypes /\ client.table = client.server
  /\ Mirroring(base, client, toClient, toServer, table.entries, frame)

----------------------------------------------------------------------------
(* Changes, and the progress of the frame *)

\* Nothing that a frame and a table mean to messages is lost.
Goes(t, f, u, g) ==
  /\ TableOk(u, g) /\ FrameOk(g)
  /\ \A tick : Sealed(f, tick) => Sealed(g, tick)
  /\ \A tick, c : Sealed(f, tick) /\ Covers(t.entries, c, tick) => Covers(u.entries, c, tick)

LEMMA GoesOk ==
  ASSUME NEW t, NEW f, NEW u, NEW g, Goes(t, f, u, g), NEW b, NEW c, NEW q, NEW p,
         Mirroring(b, c, q, p, t.entries, f)
  PROVE  Mirroring(b, c, q, p, u.entries, g)
<1>1. CASE Fresh(b, c, q, p)
  BY <1>1 DEF Mirroring
<1>2. CASE Signing(b, c, q, p, t.entries, f)
  BY <1>2 DEF Mirroring, Signing, Goes
<1>3. CASE Signed(b, c, q, p, t.entries, f)
  <2>1. PICK tick \in Nat : Chain(q, c.table, tick, t.entries, f) /\ Known(b, c, p, tick)
    BY <1>3 DEF Signed
  <2>2. Chain(q, c.table, tick, u.entries, g)
    BY <2>1 DEF Chain, MessageOk, Goes
  <2> QED
    BY <1>3, <2>1, <2>2 DEF Signed, Mirroring
<1> QED
  BY <1>1, <1>2, <1>3 DEF Mirroring

LEMMA FrameGoes ==
  ASSUME NEW t, NEW f, TableOk(t, f), FrameOk(f), NEW g, FrameOk(g),
         f.tick <= g.tick, f.tableTick <= g.tableTick,
         f.tick < g.tableTick \/ (g.tableTick = f.tableTick /\ (f.signed => g.signed))
  PROVE  Goes(t, f, t, g)
<1>1. /\ f.tick \in Nat /\ f.tableTick \in Nat /\ g.tick \in Nat /\ g.tableTick \in Nat
  BY DEF FrameOk, FrameState
<1>2. TableOk(t, g)
  <2>1. \A i \in 1 .. Len(t.entries) : t.entries[i].changed \in Nat
    <3>1. t.entries \in Seq(Entries)
      BY DEF TableOk, TableState
    <3>2. \A i \in 1 .. Len(t.entries) : t.entries[i] \in Entries
      BY <3>1
    <3> QED
      BY <3>2 DEF Entries
  <2> QED
    BY <1>1, <2>1 DEF TableOk
<1>3. \A tick : Sealed(f, tick) => Sealed(g, tick)
  BY <1>1 DEF Sealed
<1> QED
  BY <1>2, <1>3 DEF Goes

LEMMA ChangeGoes ==
  ASSUME ~ SignonRace, TableTypes, Change
  PROVE  Goes(table, frame, table', frame) /\ UNCHANGED <<frame, base, client, toClient, toServer>>
<1>0. PICK e, T : e = table.entries /\ T = frame.tableTick
  OBVIOUS
<1>1. /\ e \in Seq(Entries) /\ Len(e) \in Nat /\ T \in Nat /\ Len(e) <= MaxEntries
      /\ table.changes \in Int /\ table.lastChanged \in Nat
      /\ \A i \in 1 .. Len(e) : e[i] \in Entries
      /\ \A i, j \in 1 .. Len(e) : e[i].name = e[j].name => i = j
      /\ \A i \in 1 .. Len(e) : e[i].changed <= T
  <2>1. /\ e \in Seq(Entries) /\ T \in Nat /\ Len(e) <= MaxEntries
        /\ table.changes \in Int /\ table.lastChanged \in Nat
        /\ \A i, j \in 1 .. Len(e) : e[i].name = e[j].name => i = j
        /\ \A i \in 1 .. Len(e) : e[i].changed <= T
    BY <1>0 DEF TableTypes, TableOk, TableState, FrameOk, FrameState
  <2> QED
    BY <2>1
<1>2. /\ ~ frame.signed /\ UNCHANGED <<frame, base, client, toClient, toServer>>
  BY DEF Change
<1>3. \A tick : Sealed(frame, tick) => tick < T /\ tick \in Nat
  BY <1>0, <1>2 DEF Sealed
<1>4. ASSUME NEW i \in 1 .. MaxEntries, NEW d \in Data \cup {NoData}, SetUserData(i, d)
      PROVE  Goes(table, frame, table', frame)
  <2>1. PICK x : x = [e[i] EXCEPT !.data = d, !.changed = T]
    OBVIOUS
  <2>2. i \in 1 .. Len(e)
    BY <1>0, <1>1, <1>4 DEF SetUserData
  <2>3. x \in Entries /\ x.name = e[i].name /\ x.created = e[i].created /\ x.changed = T
    <3>1. e[i] \in Entries
      BY <1>1, <2>2
    <3>2. PICK y : y = [e[i] EXCEPT !.data = d]
      OBVIOUS
    <3>3. y \in Entries /\ y.name = e[i].name /\ y.created = e[i].created
      BY <3>1, <3>2 DEF Entries
    <3>4. x = [y EXCEPT !.changed = T]
      BY <2>1, <3>1, <3>2 DEF Entries
    <3> QED
      BY <1>1, <3>3, <3>4 DEF Entries
  <2>4. PICK n : n = [e EXCEPT ![i] = x]
    OBVIOUS
  <2>5. /\ n \in Seq(Entries) /\ Len(n) = Len(e)
        /\ \A j \in 1 .. Len(e) : n[j] = IF j = i THEN x ELSE e[j]
    <3>1. e \in [1 .. Len(e) -> Entries]
      BY <1>1
    <3>2. n \in [1 .. Len(e) -> Entries]
      BY <2>3, <2>4, <3>1
    <3>3. n \in Seq(Entries) /\ Len(n) = Len(e)
      BY <1>1, <3>2
    <3> QED
      BY <2>4, <3>1, <3>3
  <2>6. table' = [entries |-> n, lastChanged |-> T, changes |-> table.changes + 1]
    <3>1. table' = [entries |-> [e EXCEPT ![i].data = d, ![i].changed = T],
                    lastChanged |-> T, changes |-> table.changes + 1]
      BY <1>0, <1>4 DEF SetUserData
    <3>2. [e EXCEPT ![i].data = d, ![i].changed = T] = n
      BY <1>1, <2>1, <2>2, <2>4
    <3> QED
      BY <3>1, <3>2
  <2>7. \A j \in 1 .. Len(e) : e[j].changed <= T /\ e[j].changed \in Nat
    BY <1>1 DEF Entries
  <2>8. TableOk(table', frame)
    <3>1. table' \in TableState
      BY <1>1, <2>5, <2>6 DEF TableState
    <3>2. \A j, k \in 1 .. Len(e) : n[j].name = n[k].name => j = k
      BY <1>1, <2>3, <2>5
    <3>3. \A j \in 1 .. Len(e) : n[j].changed <= T
      BY <1>1, <2>3, <2>5, <2>7
    <3> QED
      BY <1>0, <1>1, <2>5, <2>6, <3>1, <3>2, <3>3 DEF TableOk
  <2>9. ASSUME NEW tick, NEW c, Sealed(frame, tick), Covers(e, c, tick)
        PROVE  Covers(n, c, tick)
    <3>1. tick < T /\ tick \in Nat
      BY <1>3, <2>9
    <3>2. \A j \in 1 .. Len(e) : n[j].name = e[j].name /\ n[j].created = e[j].created
      BY <2>3, <2>5
    <3>3. \A j \in 1 .. Len(e) : n[j].changed <= tick => n[j] = e[j]
      BY <1>1, <2>3, <2>5, <3>1
    <3>4. Len(c) \in Nat /\ Len(c) <= Len(e)
      BY <2>9 DEF Covers
    <3> QED
      BY <1>1, <2>5, <2>9, <3>2, <3>3, <3>4 DEF Covers
  <2> QED
    BY <1>0, <2>6, <2>8, <2>9 DEF Goes, TableTypes
<1>5. ASSUME NEW m \in Names, NEW d \in Data \cup {NoData}, NewString(m, d)
      PROVE  Goes(table, frame, table', frame)
  <2>1. PICK x : x = Entry(m, d, T)
    OBVIOUS
  <2>2. x \in Entries /\ x.name = m /\ x.created = T /\ x.changed = T
    BY <1>1, <2>1 DEF Entry, Entries
  <2>3. PICK n : n = Append(e, x)
    OBVIOUS
  <2>4. /\ n \in Seq(Entries) /\ Len(n) = Len(e) + 1
        /\ \A j \in 1 .. Len(e) + 1 : n[j] = IF j = Len(e) + 1 THEN x ELSE e[j]
    BY <1>1, <2>2, <2>3
  <2>5. /\ table' = [entries |-> n, lastChanged |-> T, changes |-> table.changes + 1]
        /\ Len(e) < MaxEntries /\ m \notin {e[j].name : j \in DOMAIN e}
    BY <1>0, <1>5, <2>1, <2>3 DEF NewString
  <2>6. \A j \in 1 .. Len(e) : e[j].changed <= T /\ e[j].changed \in Nat
    BY <1>1 DEF Entries
  <2>7. TableOk(table', frame)
    <3>1. table' \in TableState
      BY <1>1, <2>4, <2>5 DEF TableState
    <3>2. \A j, k \in 1 .. Len(n) : n[j].name = n[k].name => j = k
      <4>1. \A j \in 1 .. Len(e) : e[j].name # m
        BY <1>1, <2>5
      <4> QED
        BY <1>1, <2>2, <2>4, <4>1
    <3>3. \A j \in 1 .. Len(n) : n[j].changed <= T
      BY <1>1, <2>2, <2>4, <2>6
    <3>4. Len(n) <= MaxEntries
      BY <1>1, <2>4, <2>5, StringTableConstants
    <3> QED
      BY <1>0, <1>1, <2>5, <3>1, <3>2, <3>3, <3>4 DEF TableOk
  <2>8. ASSUME NEW tick, NEW c, Sealed(frame, tick), Covers(e, c, tick)
        PROVE  Covers(n, c, tick)
    <3>1. tick < T /\ tick \in Nat
      BY <1>3, <2>8
    <3>2. Len(c) \in Nat /\ Len(c) <= Len(e)
      BY <2>8 DEF Covers
    <3>3. \A i \in 1 .. Len(n) :
            /\ n[i].changed <= tick => i <= Len(c) /\ c[i].data = n[i].data
            /\ i > Len(c) => n[i].created > tick
      <4>1. \A i \in 1 .. Len(e) : n[i] = e[i] /\ i # Len(e) + 1
        BY <1>1, <2>4
      <4>2. \A i \in 1 .. Len(e) :
              /\ n[i].changed <= tick => i <= Len(c) /\ c[i].data = n[i].data
              /\ i > Len(c) => n[i].created > tick
        BY <2>8, <4>1 DEF Covers
      <4>3. n[Len(e) + 1].changed > tick /\ n[Len(e) + 1].created > tick
        BY <1>1, <2>2, <2>4, <3>1
      <4>4. ASSUME NEW i \in 1 .. Len(n) PROVE i \in 1 .. Len(e) \/ i = Len(e) + 1
        BY <1>1, <2>4
      <4>5. ~ (n[Len(e) + 1].changed <= tick)
        BY <1>1, <2>2, <2>4, <3>1
      <4> QED
        BY <4>2, <4>3, <4>4, <4>5
    <3> QED
      BY <1>1, <2>4, <2>8, <3>2, <3>3 DEF Covers
  <2> QED
    BY <1>0, <2>5, <2>7, <2>8 DEF Goes, TableTypes
<1> QED
  BY <1>2, <1>4, <1>5 DEF Change

----------------------------------------------------------------------------
(* Messages *)

LEMMA AppendOk ==
  ASSUME NEW S, NEW q \in Seq(S), NEW m
  PROVE  /\ Append(q, m) \in Seq(S \cup {m}) /\ Len(q) \in Nat
         /\ Len(Append(q, m)) = Len(q) + 1 /\ DOMAIN q = 1 .. Len(q)
         /\ DOMAIN Append(q, m) = 1 .. Len(q) + 1
         /\ \A k \in 1 .. Len(q) : Append(q, m)[k] = q[k]
         /\ Append(q, m)[Len(q) + 1] = m
<1>1. q \in Seq(S \cup {m}) /\ m \in S \cup {m}
  OBVIOUS
<1> QED
  BY <1>1

LEMMA TailOk ==
  ASSUME NEW S, NEW q \in Seq(S), q # << >>
  PROVE  /\ Tail(q) \in Seq(S) /\ Head(q) = q[1] /\ 1 \in DOMAIN q
         /\ \A k \in DOMAIN Tail(q) : k \in Nat /\ k + 1 \in DOMAIN q /\ Tail(q)[k] = q[k + 1]
<1>1. Len(q) \in Nat /\ Len(q) >= 1 /\ DOMAIN q = 1 .. Len(q)
  OBVIOUS
<1>2. Tail(q) \in Seq(S) /\ Len(Tail(q)) = Len(q) - 1 /\ Head(q) = q[1]
  BY <1>1
<1>3. \A k \in 1 .. Len(q) - 1 : Tail(q)[k] = q[k + 1]
  BY <1>1
<1> QED
  BY <1>1, <1>2, <1>3

\* What is written for a client that is known to have what was not changed after ack.
LEMMA ContentsOk ==
  ASSUME TableTypes
  PROVE  LET e == table.entries
         IN  /\ e \in Seq(Entries) /\ Len(e) \in Nat /\ DOMAIN e = 1 .. Len(e)
             /\ \A i \in 1 .. Len(e) : e[i] \in Entries
             /\ Contents(e) \in Seq(Content) /\ Len(Contents(e)) = Len(e)
             /\ \A i \in 1 .. Len(e) :
                  /\ Contents(e)[i] = [name |-> e[i].name, data |-> e[i].data]
                  /\ Contents(e)[i].name = e[i].name /\ Contents(e)[i].data = e[i].data
<1>1. PICK e : e = table.entries
  OBVIOUS
<1>2. e \in Seq(Entries)
  BY <1>1 DEF TableTypes, TableOk, TableState
<1>3. Len(e) \in Nat /\ DOMAIN e = 1 .. Len(e) /\ \A i \in 1 .. Len(e) : e[i] \in Entries
  BY <1>2
<1>4. \A i \in 1 .. Len(e) : [name |-> e[i].name, data |-> e[i].data] \in Content
  BY <1>3 DEF Entries, Content
<1>5. PICK d : d = [i \in 1 .. Len(e) |-> [name |-> e[i].name, data |-> e[i].data]]
  OBVIOUS
<1>6. d \in [1 .. Len(e) -> Content]
  BY <1>4, <1>5
<1>7. d \in Seq(Content) /\ Len(d) = Len(e)
  BY <1>3, <1>6
<1>8. Contents(e) = d
  BY <1>3, <1>5 DEF Contents
<1>9. \A i \in 1 .. Len(e) : /\ d[i] = [name |-> e[i].name, data |-> e[i].data]
                             /\ d[i].name = e[i].name /\ d[i].data = e[i].data
  BY <1>5
<1> QED
  BY <1>1, <1>2, <1>3, <1>7, <1>8, <1>9

LEMMA WriteFollows ==
  ASSUME TableTypes, NEW c, NEW tick \in Int, Covers(table.entries, c, tick),
         NEW ack \in Int, ack <= tick,
         NEW u, u \in {WriteUpdate(ack), WriteUpdateMessage(ack)}
  PROVE  Follows(c, u, Contents(table.entries))
<1>1. PICK e, d : e = table.entries /\ d = Contents(e)
  OBVIOUS
<1>2. /\ e \in Seq(Entries) /\ Len(e) \in Nat /\ DOMAIN e = 1 .. Len(e)
      /\ \A i \in 1 .. Len(e) : e[i] \in Entries
      /\ d \in Seq(Content) /\ Len(d) = Len(e)
      /\ \A i \in 1 .. Len(e) : /\ d[i] = [name |-> e[i].name, data |-> e[i].data]
                                 /\ d[i].name = e[i].name /\ d[i].data = e[i].data
  BY <1>1, ContentsOk
<1>3. /\ Len(e) <= MaxEntries /\ \A i, j \in 1 .. Len(e) : e[i].name = e[j].name => i = j
      /\ \A i \in 1 .. Len(e) : e[i].changed <= table.lastChanged
      /\ table.lastChanged \in Nat
  BY <1>1 DEF TableTypes, TableOk, TableState
<1>4. /\ c \in Seq(Content) /\ Len(c) <= Len(e) /\ Len(c) \in Nat
      /\ \A i \in 1 .. Len(c) : c[i] \in Content
      /\ \A i \in 1 .. Len(c) : c[i].name = e[i].name
      /\ \A i \in 1 .. Len(e) : e[i].changed <= tick => i <= Len(c) /\ c[i].data = e[i].data
      /\ \A i \in 1 .. Len(e) : i > Len(c) => e[i].created > tick
  <2>1. c \in Seq(Content) /\ Covers(e, c, tick)
    BY <1>1 DEF Covers
  <2>2. Len(c) \in Nat /\ \A i \in 1 .. Len(c) : c[i] \in Content
    BY <2>1
  <2> QED
    BY <2>1, <2>2 DEF Covers
<1>5. \A i \in 1 .. Len(e) :
        /\ e[i].created \in Nat /\ e[i].changed \in Nat
        /\ (e[i].changed <= ack => e[i].changed <= tick)
  BY <1>2 DEF Entries
<1>6. \A i \in 1 .. Len(e) : e[i].changed <= ack => i <= Len(c) /\ c[i] = d[i]
  <2> SUFFICES ASSUME NEW i \in 1 .. Len(e), e[i].changed <= ack
               PROVE  i <= Len(c) /\ c[i] = d[i]
    OBVIOUS
  <2>1. i <= Len(c) /\ c[i].data = e[i].data
    BY <1>4, <1>5
  <2>2. i \in 1 .. Len(c) /\ c[i] \in Content /\ c[i].name = e[i].name
    BY <1>4, <2>1
  <2> QED
    BY <1>2, <2>1, <2>2 DEF Content
<1>7. CASE u = WriteUpdate(ack)
  <2>1. /\ DOMAIN u = {i \in 1 .. Len(e) : e[i].changed > ack}
        /\ \A i \in DOMAIN u :
             u[i] = [name |-> IF e[i].created >= ack THEN e[i].name ELSE NoName,
                     data |-> e[i].data]
    BY <1>1, <1>2, <1>7 DEF WriteUpdate
  <2>2. \A i \in 1 .. Len(e) : i > Len(c) => e[i].created >= ack
    BY <1>4, <1>5
  <2>3. ASSUME NEW i \in 1 .. Len(e), i \in DOMAIN u
        PROVE  u[i].data = d[i].data /\ (i > Len(c) => u[i] = d[i])
    <3>1. u[i] = [name |-> IF e[i].created >= ack THEN e[i].name ELSE NoName, data |-> e[i].data]
      BY <2>1, <2>3
    <3>2. u[i].data = e[i].data
      BY <3>1
    <3>3. i > Len(c) => u[i] = [name |-> e[i].name, data |-> e[i].data]
      BY <2>2, <3>1
    <3> QED
      BY <1>2, <3>2, <3>3
  <2>4. ASSUME NEW i \in 1 .. Len(e), i \notin DOMAIN u
        PROVE  i <= Len(c) /\ c[i] = d[i]
    BY <1>5, <1>6, <2>1, <2>4
  <2>5. DOMAIN u \subseteq 1 .. Len(d)
    BY <1>2, <2>1
  <2>6. \A i, j \in 1 .. Len(d) : d[i].name = d[j].name => i = j
    BY <1>2, <1>3
  <2>7. ASSUME NEW i \in 1 .. Len(c) PROVE c[i].name = d[i].name
    <3>1. i \in 1 .. Len(e)
      BY <1>2, <1>4
    <3>2. d[i].name = e[i].name
      BY <1>2, <3>1
    <3> QED
      BY <1>4, <3>2
  <2> QED
    BY <1>1, <1>2, <1>3, <1>4, <2>3, <2>4, <2>5, <2>6, <2>7 DEF Follows
<1>8. CASE u = << >> /\ ~ (table.lastChanged > ack)
  <2>1. \A i \in 1 .. Len(e) : e[i].changed <= ack
    BY <1>3, <1>5, <1>8
  <2>2. DOMAIN u = {}
    BY <1>8
  <2>3. \A i, j \in 1 .. Len(d) : d[i].name = d[j].name => i = j
    BY <1>2, <1>3
  <2>4. ASSUME NEW i \in 1 .. Len(c) PROVE c[i].name = d[i].name
    <3>1. i \in 1 .. Len(e)
      BY <1>2, <1>4
    <3>2. d[i].name = e[i].name
      BY <1>2, <3>1
    <3> QED
      BY <1>4, <3>2
  <2>5. \A i \in 1 .. Len(d) : i <= Len(c) /\ c[i] = d[i]
    BY <1>2, <1>6, <2>1
  <2> QED
    BY <1>1, <1>2, <1>3, <1>4, <2>2, <2>3, <2>4, <2>5 DEF Follows
<1> QED
  BY <1>7, <1>8 DEF WriteUpdateMessage, ChangedSinceTick

LEMMA CoversContents ==
  ASSUME TableTypes, NEW tick
  PROVE  Covers(table.entries, Contents(table.entries), tick)
<1>1. PICK e, d : e = table.entries /\ d = Contents(e)
  OBVIOUS
<1>2. /\ Len(e) \in Nat /\ d \in Seq(Content) /\ Len(d) = Len(e)
      /\ \A i \in 1 .. Len(e) : d[i].name = e[i].name /\ d[i].data = e[i].data
  BY <1>1, ContentsOk
<1>3. Covers(e, d, tick)
  BY <1>2 DEF Covers
<1> QED
  BY <1>1, <1>3

\* A message is sent at the end of a frame: it follows the last one.
LEMMA ChainAppend ==
  ASSUME NEW S, NEW q \in Seq(S), NEW c, NEW tick \in Nat, NEW e, NEW f, FrameOk(f),
         Chain(q, c, tick, e, f), NEW m, m.kind \in {"full", "delta"}, m.tick = f.tick,
         Sealed(f, m.tick), Covers(e, m.content, m.tick),
         \A d, t : t \in Nat /\ tick <= t /\ Covers(e, d, t) => Follows(d, m.update, m.content)
  PROVE  Chain(Append(q, m), c, tick, e, f)
<1>1. PICK n : n = Append(q, m)
  OBVIOUS
<1>2. /\ Len(q) \in Nat /\ DOMAIN q = 1 .. Len(q) /\ DOMAIN n = 1 .. Len(q) + 1
      /\ \A k \in 1 .. Len(q) : n[k] = q[k]
      /\ n[Len(q) + 1] = m
  BY <1>1, AppendOk
<1>3. \A k \in 1 .. Len(q) : q[k].tick \in Nat /\ q[k].tick <= f.tick /\ tick <= q[k].tick
                              /\ Covers(e, q[k].content, q[k].tick)
  BY <1>2 DEF Chain, MessageOk, Sealed
<1>4. tick <= f.tick /\ f.tick \in Nat /\ Covers(e, c, tick)
  BY DEF Chain, Sealed, FrameOk, FrameState
<1>5. ASSUME NEW k \in DOMAIN n PROVE MessageOk(n[k], e, f, tick)
  BY <1>2, <1>4 DEF Chain, MessageOk
<1>6. ASSUME NEW j \in DOMAIN n, NEW k \in DOMAIN n, j <= k PROVE n[j].tick <= n[k].tick
  BY <1>2, <1>3, <1>4, <1>6 DEF Chain
<1>7. ASSUME NEW k \in DOMAIN n
      PROVE  Follows(IF k = 1 THEN c ELSE n[k - 1].content, n[k].update, n[k].content)
  <2>1. CASE k \in 1 .. Len(q)
    <3>1. n[k] = q[k] /\ (k # 1 => n[k - 1] = q[k - 1])
      BY <1>2, <2>1
    <3> QED
      BY <1>2, <2>1, <3>1 DEF Chain
  <2>2. CASE k = Len(q) + 1
    <3>1. n[k] = m
      BY <1>2, <2>2
    <3>2. CASE k = 1
      BY <1>4, <3>1, <3>2
    <3>3. CASE k # 1
      <4>1. k - 1 \in 1 .. Len(q) /\ n[k - 1] = q[k - 1]
        BY <1>2, <2>2, <3>3
      <4> QED
        BY <1>3, <3>1, <3>3, <4>1
    <3> QED
      BY <3>2, <3>3
  <2> QED
    BY <1>2, <2>1, <2>2
<1> QED
  BY <1>1, <1>5, <1>6, <1>7 DEF Chain

LEMMA ChainTail ==
  ASSUME NEW S, NEW q \in Seq(S), q # << >>, NEW c, NEW tick \in Nat, NEW e, NEW f,
         Chain(q, c, tick, e, f)
  PROVE  /\ q[1].tick \in Nat /\ tick <= q[1].tick /\ q[1].kind \in {"full", "delta"}
         /\ ParseUpdate(c, q[1].update) = q[1].content
         /\ Chain(Tail(q), q[1].content, q[1].tick, e, f)
<1>1. PICK n : n = Tail(q)
  OBVIOUS
<1>2. /\ 1 \in DOMAIN q
      /\ \A k \in DOMAIN n : k \in Nat /\ k + 1 \in DOMAIN q /\ n[k] = q[k + 1]
  BY <1>1, TailOk
<1>3. /\ q[1].tick \in Nat /\ tick <= q[1].tick /\ q[1].kind \in {"full", "delta"}
      /\ Sealed(f, q[1].tick) /\ Covers(e, q[1].content, q[1].tick)
  BY <1>2 DEF Chain, MessageOk, Sealed
<1>4. ParseUpdate(c, q[1].update) = q[1].content
  BY <1>2, ParseFollows DEF Chain
<1>5. DOMAIN n \subseteq Nat \ {0}
  <2>1. n \in Seq(S)
    BY <1>1, TailOk
  <2> QED
    BY <2>1
<1>6. ASSUME NEW k \in DOMAIN n PROVE MessageOk(n[k], e, f, q[1].tick)
  BY <1>2, <1>5 DEF Chain, MessageOk
<1>7. ASSUME NEW j \in DOMAIN n, NEW k \in DOMAIN n, j <= k PROVE n[j].tick <= n[k].tick
  BY <1>2, <1>7 DEF Chain
<1>8. ASSUME NEW k \in DOMAIN n
      PROVE  Follows(IF k = 1 THEN q[1].content ELSE n[k - 1].content, n[k].update, n[k].content)
  <2>1. k \in Nat /\ k # 0 /\ k + 1 \in DOMAIN q /\ n[k] = q[k + 1] /\ k + 1 # 1 /\ (k + 1) - 1 = k
    BY <1>2, <1>5
  <2>2. Follows(q[k].content, n[k].update, n[k].content)
    <3>1. Follows(IF k + 1 = 1 THEN c ELSE q[(k + 1) - 1].content, q[k + 1].update,
                  q[k + 1].content)
      BY <2>1 DEF Chain
    <3> QED
      BY <2>1, <3>1
  <2>3. k # 1 => k - 1 \in DOMAIN n /\ n[k - 1] = q[k]
    <3>1. DOMAIN n = 1 .. Len(n) /\ Len(n) \in Nat
      <4>1. n \in Seq(S)
        BY <1>1, TailOk
      <4> QED
        BY <4>1
    <3>2. k # 1 => k - 1 \in DOMAIN n /\ (k - 1) + 1 = k
      BY <2>1, <3>1
    <3> QED
      BY <1>2, <3>2
  <2> QED
    BY <2>2, <2>3
<1> QED
  BY <1>1, <1>3, <1>4, <1>6, <1>7, <1>8 DEF Chain

----------------------------------------------------------------------------
(* The steps *)

LEMMA MirroredInit == TableInit => Mirrored
<1> SUFFICES ASSUME TableInit PROVE Mirrored
  OBVIOUS
<1>1. /\ First \in Names /\ FirstTick \in Nat /\ MaxEntries \in Nat /\ MaxEntries >= 1
  BY StringTableConstants
<1>2. PICK x : x = Entry(First, NoData, FirstTick)
  OBVIOUS
<1>3. x \in Entries /\ x.changed = FirstTick
  BY <1>1, <1>2 DEF Entry, Entries
<1>4. table = [entries |-> <<x>>, lastChanged |-> FirstTick, changes |-> 0]
  BY <1>2 DEF TableInit
<1>5. <<x>> \in Seq(Entries) /\ Len(<<x>>) = 1 /\ <<x>>[1] = x
  BY <1>3
<1>6. /\ table \in TableState /\ table.entries = <<x>> /\ table.lastChanged = FirstTick
  BY <1>1, <1>4, <1>5 DEF TableState
<1>7. /\ frame \in FrameState /\ frame.tick = FirstTick /\ frame.tableTick = FirstTick
  BY <1>1 DEF TableInit, FrameState
<1>8. FrameOk(frame) /\ TableOk(table, frame)
  <2>1. \A i \in 1 .. 1 : i = 1
    OBVIOUS
  <2>2. x.changed <= FirstTick
    BY <1>1, <1>3
  <2> QED
    BY <1>1, <1>3, <1>5, <1>6, <1>7, <2>1, <2>2 DEF FrameOk, TableOk
<1>9. base \in BaseState /\ client \in ClientState
  <2>1. << >> \in Seq(Content)
    OBVIOUS
  <2> QED
    BY <2>1 DEF TableInit, BaseState, ClientState
<1>10. toClient \in Seq({}) /\ toServer \in Seq(Int)
  BY DEF TableInit
<1>11. Fresh(base, client, toClient, toServer) /\ client.table = client.server
  BY DEF TableInit, Fresh, Empty
<1> QED
  BY <1>8, <1>9, <1>10, <1>11 DEF Mirrored, TableTypes, Mirroring

\* The frame goes on: nothing is sent.
LEMMA FrameMirrored ==
  ASSUME Mirrored, FrameOk(frame'), frame.tick <= frame'.tick,
         frame.tableTick <= frame'.tableTick,
         frame.tick < frame'.tableTick
           \/ (frame'.tableTick = frame.tableTick /\ (frame.signed => frame'.signed)),
         UNCHANGED table
  PROVE  /\ Goes(table, frame, table, frame')
         /\ UNCHANGED <<base, client, toClient, toServer>> => Mirrored'
<1>1. Goes(table, frame, table, frame')
  BY FrameGoes DEF Mirrored, TableTypes
<1>2. Mirroring(base, client, toClient, toServer, table.entries, frame')
  BY <1>1, GoesOk DEF Mirrored
<1> QED
  BY <1>1, <1>2 DEF Mirrored, TableTypes, Goes

LEMMA WriteBaselinesMirrored ==
  ASSUME Mirrored, WriteBaselines
  PROVE  Mirrored'
<1>1. PICK m : m = Message("signon", WriteUpdate(-1))
  OBVIOUS
<1>2. /\ base.state = "connected"
      /\ frame' = [frame EXCEPT !.phase = "late", !.signed = frame.tick = frame.tableTick]
      /\ base' = [base EXCEPT !.state = "new", !.signonTick = frame.tick]
      /\ toClient' = Append(toClient, m)
      /\ UNCHANGED <<table, client, toServer>>
  BY <1>1 DEF WriteBaselines
<1>3. /\ m.kind = "signon" /\ m.tick = frame.tick /\ m.update = WriteUpdate(-1)
      /\ m.content = Contents(table.entries)
  BY <1>1 DEF Message
<1>4. TableTypes /\ frame \in FrameState /\ base \in BaseState
  BY DEF Mirrored, TableTypes, FrameOk
<1>5. /\ toClient = << >> /\ toServer = << >> /\ Empty(base, client, toServer)
  BY <1>2 DEF Mirrored, Mirroring, Fresh, Signing, Signed, Empty
<1>6. PICK b \in BOOLEAN : b = (frame.tick = frame.tableTick)
  OBVIOUS
<1>7. frame' = [frame EXCEPT !.phase = "late", !.signed = b]
  BY <1>2, <1>6
<1>8. /\ frame' \in FrameState /\ frame'.tick = frame.tick /\ frame'.tableTick = frame.tableTick
      /\ frame'.signed = b
  <2>1. PICK g : g = [frame EXCEPT !.phase = "late"]
    OBVIOUS
  <2>2. g \in FrameState /\ g.tick = frame.tick /\ g.tableTick = frame.tableTick
    BY <1>4, <2>1 DEF FrameState
  <2>3. frame' = [g EXCEPT !.signed = b]
    BY <1>7, <2>1
  <2> QED
    BY <2>2, <2>3 DEF FrameState
<1>9. FrameOk(frame') /\ TableOk(table', frame')
  BY <1>2, <1>4, <1>8 DEF TableTypes, FrameOk, TableOk
<1>10. Sealed(frame', frame.tick)
  BY <1>4, <1>6, <1>8 DEF Sealed, TableTypes, FrameOk, FrameState
<1>11. /\ base' \in BaseState /\ base'.state = "new" /\ base'.signonTick = frame.tick
       /\ base'.deltaTick = base.deltaTick /\ base'.ackTick = base.ackTick
  <2>1. frame.tick \in Int
    BY <1>4 DEF FrameState
  <2>2. PICK c : c = [base EXCEPT !.state = "new"]
    OBVIOUS
  <2>3. /\ c \in BaseState /\ c.state = "new" /\ c.deltaTick = base.deltaTick
        /\ c.ackTick = base.ackTick
    BY <1>4, <2>2 DEF BaseState
  <2>4. base' = [c EXCEPT !.signonTick = frame.tick]
    BY <1>2, <2>2
  <2> QED
    BY <2>1, <2>3, <2>4 DEF BaseState
<1>12. toClient' = <<m>>
  BY <1>2, <1>5
<1>13. toClient' \in Seq({m}) /\ Len(toClient') = 1 /\ toClient'[1] = m
  BY <1>12
<1>14. Covers(table.entries, m.content, m.tick)
  BY <1>3, <1>4, CoversContents
<1>15. Follows(<< >>, m.update, m.content)
  <2>1. Covers(table.entries, << >>, -1)
    <3>1. PICK e : e = table.entries
      OBVIOUS
    <3>2. Len(e) \in Nat /\ \A i \in 1 .. Len(e) : e[i] \in Entries
      BY <1>4, <3>1, ContentsOk
    <3>3. \A i \in 1 .. Len(e) : e[i].created > -1 /\ ~ (e[i].changed <= -1)
      BY <3>2 DEF Entries
    <3>4. << >> \in Seq(Content) /\ Len(<< >>) = 0
      OBVIOUS
    <3> QED
      BY <3>1, <3>2, <3>3, <3>4 DEF Covers
  <2> QED
    BY <1>3, <1>4, <2>1, WriteFollows
<1>16. Signing(base', client', toClient', toServer', table'.entries, frame')
  BY <1>2, <1>3, <1>5, <1>10, <1>11, <1>13, <1>14, <1>15 DEF Signing, Empty
<1> QED
  BY <1>2, <1>4, <1>9, <1>11, <1>13, <1>16 DEF Mirrored, TableTypes, Mirroring

\* The client acknowledges no later tick than that of what it has.
LEMMA AckKnown ==
  ASSUME TableTypes, NEW c, NEW p, NEW tick \in Nat, Known(base, c, p, tick)
  PROVE  GetMaxAckTickCount \in Int /\ GetMaxAckTickCount <= tick
<1>1. PICK i, j, k \in Int : i = base.signonTick /\ j = base.deltaTick /\ k = base.ackTick
  BY DEF TableTypes, BaseState
<1>2. i <= tick /\ j <= tick /\ k <= tick
  BY <1>1 DEF Known
<1>3. \E x \in {i, j, k} : \A y \in {i, j, k} : x >= y
  BY <1>1
<1>4. Max({i, j, k}) \in {i, j, k}
  BY <1>3 DEF Max
<1> QED
  BY <1>1, <1>2, <1>4 DEF GetMaxAckTickCount

LEMMA SendMirrored ==
  ASSUME Mirrored, NEW sends \in BOOLEAN, NEW full \in BOOLEAN, SendClientUpdates(sends, full)
  PROVE  Mirrored'
<1>1. frame' = AfterSnapshots /\ UNCHANGED <<table, client, toServer>>
  BY DEF SendClientUpdates
<1>2. TableTypes /\ frame \in FrameState /\ FrameOk(frame)
  BY DEF Mirrored, TableTypes, FrameOk
<1>3. /\ frame' \in FrameState /\ frame'.tick = frame.tick
      /\ frame'.tableTick = frame.tick + 1 /\ frame.tick \in Nat /\ frame.tableTick \in Nat
  <2>1. PICK g : g = [frame EXCEPT !.phase = "network"]
    OBVIOUS
  <2>2. PICK n \in Nat : n = frame.tick + 1
    BY <1>2 DEF FrameState
  <2>3. PICK h : h = [g EXCEPT !.tableTick = n]
    OBVIOUS
  <2>4. g \in FrameState /\ g.tick = frame.tick
    BY <1>2, <2>1 DEF FrameState
  <2>5. h \in FrameState /\ h.tick = frame.tick /\ h.tableTick = n
    BY <2>3, <2>4 DEF FrameState
  <2>6. frame' = [h EXCEPT !.signed = FALSE]
    BY <1>1, <2>1, <2>2, <2>3 DEF AfterSnapshots
  <2>7. frame' \in FrameState /\ frame'.tick = h.tick /\ frame'.tableTick = h.tableTick
    BY <2>5, <2>6 DEF FrameState
  <2> QED
    BY <1>2, <2>2, <2>5, <2>7 DEF FrameState
<1>4. frame.tableTick <= frame.tick + 1
  BY <1>2 DEF FrameOk
<1>5. FrameOk(frame')
  BY <1>3 DEF FrameOk
<1>6. /\ Goes(table, frame, table, frame')
      /\ UNCHANGED <<base, client, toClient, toServer>> => Mirrored'
  BY <1>1, <1>3, <1>4, <1>5, FrameMirrored
<1>7. CASE UNCHANGED <<base, toClient>>
  BY <1>1, <1>6, <1>7
<1>8. ASSUME base.state = "full",
             NEW kind \in {"full", "delta"},
             toClient' = Append(toClient, Message(kind, WriteUpdateMessage(GetMaxAckTickCount))),
             base' = base \/ base' = [base EXCEPT !.waitTick = frame.tick]
      PROVE  Mirrored'
  <2>1. PICK m : m = Message(kind, WriteUpdateMessage(GetMaxAckTickCount))
    OBVIOUS
  <2>2. /\ m.kind = kind /\ m.tick = frame.tick /\ m.content = Contents(table.entries)
        /\ m.update = WriteUpdateMessage(GetMaxAckTickCount) /\ toClient' = Append(toClient, m)
    BY <1>8, <2>1 DEF Message
  <2>3. Mirroring(base, client, toClient, toServer, table.entries, frame')
    BY <1>6, GoesOk DEF Mirrored
  <2>4. PICK tick \in Nat : /\ Chain(toClient, client.table, tick, table.entries, frame')
                            /\ Known(base, client, toServer, tick)
    BY <1>8, <2>3 DEF Mirroring, Fresh, Signing, Signed
  <2>5. GetMaxAckTickCount \in Int /\ GetMaxAckTickCount <= tick
    BY <1>2, <2>4, AckKnown
  <2>6. ASSUME NEW d, NEW t, t \in Nat, tick <= t, Covers(table.entries, d, t)
        PROVE  Follows(d, m.update, m.content)
    <3>1. t \in Int /\ GetMaxAckTickCount <= t
      BY <2>5, <2>6
    <3>2. Follows(d, WriteUpdateMessage(GetMaxAckTickCount), Contents(table.entries))
      BY <1>2, <2>5, <2>6, <3>1, WriteFollows
    <3> QED
      BY <2>2, <3>2
  <2>7. Sealed(frame', m.tick) /\ m.tick = frame'.tick
    BY <1>3, <2>2 DEF Sealed
  <2>8. Covers(table.entries, m.content, m.tick)
    BY <1>2, <2>2, CoversContents
  <2>9. PICK S : toClient \in Seq(S)
    BY <1>2 DEF TableTypes
  <2>10. Chain(toClient', client.table, tick, table.entries, frame')
    BY <1>5, <2>2, <2>4, <2>6, <2>7, <2>8, <2>9, ChainAppend
  <2>11. toClient' \in Seq(S \cup {m})
    BY <2>2, <2>9, AppendOk
  <2>12. /\ base' \in BaseState /\ base'.state = base.state
         /\ base'.signonTick = base.signonTick /\ base'.deltaTick = base.deltaTick
         /\ base'.ackTick = base.ackTick
    BY <1>2, <1>3, <1>8 DEF TableTypes, BaseState
  <2>13. Signed(base', client', toClient', toServer', table'.entries, frame')
    BY <1>1, <1>8, <2>4, <2>10, <2>12 DEF Signed, Known
  <2>14. TableOk(table', frame')
    BY <1>1, <1>6 DEF Goes
  <2> QED
    BY <1>1, <1>2, <1>5, <2>11, <2>12, <2>13, <2>14 DEF Mirrored, TableTypes, Mirroring
<1> QED
  <2>1. CASE sends
    <3>1. SendTables(full)
      BY <2>1 DEF SendClientUpdates
    <3>2. CASE base.state # "full" \/ base.waitTick > 0
      BY <1>7, <3>1, <3>2 DEF SendTables
    <3>3. CASE ~ (base.state # "full" \/ base.waitTick > 0)
      <4>1. /\ toClient' = Append(toClient, Message(IF full THEN "full" ELSE "delta",
                                             WriteUpdateMessage(GetMaxAckTickCount)))
            /\ base' = IF full THEN [base EXCEPT !.waitTick = frame.tick] ELSE base
        BY <3>1, <3>3 DEF SendTables
      <4>2. (IF full THEN "full" ELSE "delta") \in {"full", "delta"}
        OBVIOUS
      <4> QED
        BY <1>8, <3>3, <4>1, <4>2
    <3> QED
      BY <3>2, <3>3
  <2>2. CASE ~ sends
    BY <1>7, <2>2 DEF SendClientUpdates
  <2> QED
    BY <2>1, <2>2

\* What the client reads: the signon data, or the message that follows what it has.
LEMMA ReadMirrored ==
  ASSUME Mirrored, ReceiveMessage
  PROVE  Mirrored'
<1>1. PICK m, c, e : m = Head(toClient) /\ c = client /\ e = table.entries
  OBVIOUS
<1>2. /\ toClient # << >> /\ toClient' = Tail(toClient)
      /\ UNCHANGED <<frame, table, base, toServer>>
  BY DEF ReceiveMessage
<1>3. PICK t, d : /\ t = ParseUpdate(IF m.kind = "signon" THEN << >> ELSE c.table, m.update)
                  /\ d = CASE m.kind = "signon" -> -1
                           [] m.kind = "full" -> m.tick
                           [] m.kind = "delta" -> IF c.deltaTick >= 0 THEN m.tick ELSE c.deltaTick
  OBVIOUS
<1>4. client' = [c EXCEPT !.table = t, !.server = m.content, !.deltaTick = d]
  <2>1. client' = [client EXCEPT
          !.table = ParseUpdate(IF m.kind = "signon" THEN << >> ELSE @, m.update),
          !.server = m.content,
          !.deltaTick = CASE m.kind = "signon" -> -1
                          [] m.kind = "full" -> m.tick
                          [] m.kind = "delta" -> IF @ >= 0 THEN m.tick ELSE @]
    BY <1>1 DEF ReceiveMessage
  <2> QED
    BY <1>1, <1>3, <2>1
<1>5. c \in ClientState /\ c.table = c.server /\ TableTypes
  BY <1>1 DEF Mirrored, TableTypes
<1>6. PICK S : toClient \in Seq(S)
  BY <1>5 DEF TableTypes
<1>7. m = toClient[1] /\ 1 \in DOMAIN toClient /\ toClient' \in Seq(S)
  BY <1>1, <1>2, <1>6, TailOk
<1>8. ASSUME t = m.content, m.content \in Seq(Content), d \in Int
      PROVE  /\ client' \in ClientState /\ client'.table = client'.server
             /\ client'.table = m.content /\ client'.deltaTick = d
  <2>1. PICK x : x = [c EXCEPT !.table = t]
    OBVIOUS
  <2>2. x \in ClientState /\ x.table = t
    BY <1>5, <1>8, <2>1 DEF ClientState
  <2>3. PICK y : y = [x EXCEPT !.server = m.content]
    OBVIOUS
  <2>4. y \in ClientState /\ y.table = t /\ y.server = m.content
    BY <1>8, <2>2, <2>3 DEF ClientState
  <2>5. client' = [y EXCEPT !.deltaTick = d]
    BY <1>4, <2>1, <2>3
  <2> QED
    BY <1>8, <2>4, <2>5 DEF ClientState
<1>9. ASSUME t = m.content, m.content \in Seq(Content), d \in Int,
             Signed(base', client', toClient', toServer', table'.entries, frame')
      PROVE  Mirrored'
  <2>1. TableTypes'
    BY <1>2, <1>5, <1>7, <1>8, <1>9 DEF TableTypes, TableOk
  <2> QED
    BY <1>8, <1>9, <2>1 DEF Mirrored, Mirroring
<1>10. CASE Signing(base, client, toClient, toServer, e, frame)
  <2>1. /\ m.kind = "signon" /\ Follows(<< >>, m.update, m.content) /\ Covers(e, m.content, m.tick)
        /\ Sealed(frame, m.tick) /\ base.signonTick = m.tick /\ Len(toClient) = 1
        /\ base.state = "new" /\ base.deltaTick = -1 /\ base.ackTick = 0 /\ toServer = << >>
    BY <1>7, <1>10 DEF Signing, Empty
  <2>2. t = m.content /\ d = -1 /\ m.content \in Seq(Content)
    <3>1. ParseUpdate(<< >>, m.update) = m.content
      BY <2>1, ParseFollows
    <3>2. t = ParseUpdate(<< >>, m.update) /\ d = -1
      BY <1>3, <2>1
    <3> QED
      BY <2>1, <3>1, <3>2 DEF Follows
  <2>3. client'.table = m.content /\ client'.deltaTick = -1
    BY <1>8, <2>2
  <2>4. toClient' = << >>
    BY <1>2, <1>6, <2>1
  <2>5. PICK tick \in Nat : tick = m.tick
    BY <2>1 DEF Sealed
  <2>6. Chain(toClient', client'.table, tick, e, frame)
    BY <2>1, <2>3, <2>4, <2>5 DEF Chain
  <2>7. Known(base, client', toServer, tick)
    BY <2>1, <2>3, <2>5 DEF Known
  <2>8. Signed(base', client', toClient', toServer', table'.entries, frame')
    BY <1>1, <1>2, <2>1, <2>6, <2>7 DEF Signed
  <2> QED
    BY <1>9, <2>2, <2>8
<1>11. CASE Signed(base, client, toClient, toServer, e, frame)
  <2>1. PICK tick \in Nat : /\ Chain(toClient, c.table, tick, e, frame)
                            /\ Known(base, c, toServer, tick)
    BY <1>1, <1>11 DEF Signed
  <2>2. /\ m.tick \in Nat /\ tick <= m.tick /\ m.kind \in {"full", "delta"}
        /\ ParseUpdate(c.table, m.update) = m.content
        /\ Chain(toClient', m.content, m.tick, e, frame)
    BY <1>2, <1>6, <1>7, <2>1, ChainTail
  <2>3. t = m.content /\ d \in Int /\ d <= m.tick
    <3>1. c.deltaTick \in Int /\ c.deltaTick <= tick
      BY <1>5, <2>1 DEF ClientState, Known
    <3>2. d = m.tick \/ d = c.deltaTick
      BY <1>3, <2>2
    <3>3. t = m.content
      BY <1>3, <2>2
    <3> QED
      BY <2>2, <3>1, <3>2, <3>3
  <2>4. m.content \in Seq(Content)
    BY <1>7, <2>1 DEF Chain, MessageOk, Covers
  <2>5. client'.table = m.content /\ client'.deltaTick = d
    BY <1>8, <2>3, <2>4
  <2>6. Known(base, client', toServer, m.tick)
    <3>1. /\ base.signonTick \in Int /\ base.deltaTick \in Int /\ base.ackTick \in Int
          /\ \A i \in DOMAIN toServer : toServer[i] \in Int
      <4>1. toServer \in Seq(Int)
        BY <1>5 DEF TableTypes
      <4> QED
        BY <1>5, <4>1 DEF TableTypes, BaseState
    <3> QED
      BY <2>1, <2>2, <2>3, <2>5, <3>1 DEF Known
  <2>7. Signed(base', client', toClient', toServer', table'.entries, frame')
    <3>1. Chain(toClient', client'.table, m.tick, e, frame)
      BY <2>2, <2>5
    <3> QED
      BY <1>1, <1>2, <1>11, <2>2, <2>6, <3>1 DEF Signed
  <2> QED
    BY <1>9, <2>3, <2>4, <2>7
<1> QED
  <2>1. ~ Fresh(base, client, toClient, toServer)
    BY <1>2 DEF Fresh
  <2> QED
    BY <1>1, <1>10, <1>11, <2>1 DEF Mirrored, Mirroring

\* The ticks the client tells and the server reads are of what it has.
LEMMA RequestMirrored ==
  ASSUME Mirrored, RequestFullUpdate
  PROVE  Mirrored'
<1>1. /\ client.deltaTick >= 0 /\ UNCHANGED <<frame, table, base, toClient, toServer>>
      /\ client' = [client EXCEPT !.deltaTick = -1, !.requests = @ + 1]
  BY DEF RequestFullUpdate
<1>2. /\ client' \in ClientState /\ client'.table = client.table
      /\ client'.server = client.server /\ client'.deltaTick = -1
  <2>1. PICK n \in Int : n = client.requests + 1
    BY DEF Mirrored, TableTypes, ClientState
  <2>2. PICK x : x = [client EXCEPT !.deltaTick = -1]
    OBVIOUS
  <2>3. /\ x \in ClientState /\ x.table = client.table /\ x.server = client.server
        /\ x.deltaTick = -1
    BY <2>2 DEF Mirrored, TableTypes, ClientState
  <2>4. client' = [x EXCEPT !.requests = n]
    BY <1>1, <2>1, <2>2
  <2> QED
    BY <2>1, <2>3, <2>4 DEF ClientState
<1>3. PICK tick \in Nat : /\ Chain(toClient, client.table, tick, table.entries, frame)
                          /\ Known(base, client, toServer, tick) /\ base.state # "connected"
  <2>1. ~ Empty(base, client, toServer)
    BY <1>1 DEF Empty
  <2> QED
    BY <2>1 DEF Mirrored, Mirroring, Fresh, Signing, Signed
<1>4. Known(base, client', toServer, tick)
  BY <1>2, <1>3 DEF Known
<1> QED
  BY <1>1, <1>2, <1>3, <1>4 DEF Mirrored, TableTypes, Mirroring, Signed

LEMMA MoveMirrored ==
  ASSUME Mirrored, SendMove
  PROVE  Mirrored'
<1>1. /\ base.state = "full" /\ toServer' = Append(toServer, client.deltaTick)
      /\ UNCHANGED <<frame, table, base, client, toClient>>
  BY DEF SendMove
<1>2. PICK tick \in Nat : /\ Chain(toClient, client.table, tick, table.entries, frame)
                          /\ Known(base, client, toServer, tick)
  BY <1>1 DEF Mirrored, Mirroring, Fresh, Signing, Signed
<1>3. client.deltaTick \in Int /\ toServer \in Seq(Int)
  BY DEF Mirrored, TableTypes, ClientState
<1>4. toServer' \in Seq(Int)
  BY <1>1, <1>3
<1>5. \A i \in DOMAIN toServer' : toServer'[i] <= tick
  <2>1. /\ DOMAIN toServer = 1 .. Len(toServer) /\ DOMAIN toServer' = 1 .. Len(toServer) + 1
        /\ Len(toServer) \in Nat
        /\ \A k \in 1 .. Len(toServer) : toServer'[k] = toServer[k]
        /\ toServer'[Len(toServer) + 1] = client.deltaTick
    BY <1>1, <1>3, AppendOk
  <2> QED
    BY <1>2, <2>1 DEF Known
<1>6. Known(base, client, toServer', tick)
  BY <1>2, <1>5 DEF Known
<1> QED
  BY <1>1, <1>2, <1>4, <1>6 DEF Mirrored, TableTypes, Mirroring, Signed

LEMMA AckMirrored ==
  ASSUME Mirrored, NEW pending \in BOOLEAN, ReceiveMove(pending)
  PROVE  Mirrored'
<1>1. /\ toServer # << >> /\ toServer' = Tail(toServer)
      /\ base' = UpdateAcknowledgedTick(Head(toServer), pending)
      /\ UNCHANGED <<frame, table, client, toClient>>
  BY DEF ReceiveMove
<1>2. base \in BaseState /\ toServer \in Seq(Int)
  BY DEF Mirrored, TableTypes
<1>3. PICK tick \in Nat : /\ Chain(toClient, client.table, tick, table.entries, frame)
                          /\ Known(base, client, toServer, tick) /\ base.state # "connected"
  <2>1. ~ Empty(base, client, toServer)
    BY <1>1 DEF Empty
  <2> QED
    BY <2>1 DEF Mirrored, Mirroring, Fresh, Signing, Signed
<1>4. /\ toServer' \in Seq(Int) /\ Head(toServer) = toServer[1] /\ 1 \in DOMAIN toServer
      /\ \A k \in DOMAIN toServer' : k + 1 \in DOMAIN toServer /\ toServer'[k] = toServer[k + 1]
  BY <1>1, <1>2, TailOk
<1>5. PICK a \in Int : a = Head(toServer) /\ a <= tick
  BY <1>2, <1>3, <1>4 DEF Known
<1>6. /\ base' \in BaseState /\ base'.state = base.state /\ base'.signonTick = base.signonTick
      /\ base'.deltaTick \in {base.deltaTick, a, -1} /\ base'.ackTick \in {base.ackTick, a}
  <2>1. ASSUME base' = AcknowledgeTick(a)
        PROVE  /\ base' \in BaseState /\ base'.state = base.state
               /\ base'.signonTick = base.signonTick
               /\ base'.deltaTick \in {base.deltaTick, a, -1} /\ base'.ackTick \in {base.ackTick, a}
    <3>1. PICK k \in Int : k = IF a > -1 THEN a ELSE base.ackTick
      BY <1>2 DEF BaseState
    <3>2. PICK w \in Int : w = IF base.waitTick > 0 /\ a = base.waitTick THEN -1 ELSE base.waitTick
      BY <1>2 DEF BaseState
    <3>3. base' = [base EXCEPT !.deltaTick = a, !.ackTick = k, !.waitTick = w]
      BY <2>1, <3>1, <3>2 DEF AcknowledgeTick
    <3>4. PICK x : x = [base EXCEPT !.deltaTick = a]
      OBVIOUS
    <3>5. /\ x \in BaseState /\ x.state = base.state /\ x.signonTick = base.signonTick
          /\ x.deltaTick = a
      BY <1>2, <3>4 DEF BaseState
    <3>6. PICK y : y = [x EXCEPT !.ackTick = k]
      OBVIOUS
    <3>7. /\ y \in BaseState /\ y.state = base.state /\ y.signonTick = base.signonTick
          /\ y.deltaTick = a /\ y.ackTick = k
      BY <3>5, <3>6 DEF BaseState
    <3>8. base' = [y EXCEPT !.waitTick = w]
      BY <3>3, <3>4, <3>6
    <3>9. /\ base' \in BaseState /\ base'.state = base.state
          /\ base'.signonTick = base.signonTick /\ base'.deltaTick = a /\ base'.ackTick = k
      BY <3>7, <3>8 DEF BaseState
    <3> QED
      BY <3>1, <3>9
  <2>2. ASSUME base' = [base EXCEPT !.waitTick = -1, !.deltaTick = -1]
        PROVE  /\ base' \in BaseState /\ base'.state = base.state
               /\ base'.signonTick = base.signonTick
               /\ base'.deltaTick = -1 /\ base'.ackTick = base.ackTick
    <3>1. PICK x : x = [base EXCEPT !.waitTick = -1]
      OBVIOUS
    <3>2. /\ x \in BaseState /\ x.state = base.state /\ x.signonTick = base.signonTick
          /\ x.ackTick = base.ackTick
      BY <1>2, <3>1 DEF BaseState
    <3>3. base' = [x EXCEPT !.deltaTick = -1]
      BY <2>2, <3>1
    <3> QED
      BY <3>2, <3>3 DEF BaseState
  <2>3. base' = base \/ base' = AcknowledgeTick(a)
        \/ base' = [base EXCEPT !.waitTick = -1, !.deltaTick = -1]
    <3>1. base' = UpdateAcknowledgedTick(a, pending)
      BY <1>1, <1>5
    <3>2. PICK w \in Int, b \in Int : w = base.waitTick /\ b = base.deltaTick
      BY <1>2 DEF BaseState
    <3>3. CASE w > 0
      <4>1. base' = AckWhileWaiting(a, pending)
        BY <3>1, <3>2, <3>3 DEF UpdateAcknowledgedTick
      <4>2. CASE a > w
        BY <3>2, <4>1, <4>2 DEF AckWhileWaiting
      <4>3. CASE a = -1 /\ ~ (a > w)
        BY <3>2, <3>3, <4>1, <4>3 DEF AckWhileWaiting
      <4>4. CASE a = w
        BY <3>2, <3>3, <4>1, <4>4 DEF AckWhileWaiting
      <4>5. CASE ~ (a > w) /\ a # -1 /\ a # w
        BY <3>2, <4>1, <4>5 DEF AckWhileWaiting
      <4> QED
        BY <4>2, <4>3, <4>4, <4>5
    <3>4. CASE ~ (w > 0)
      <4>1. w <= 0
        BY <3>4
      <4> QED
        BY <3>1, <3>2, <3>4, <4>1 DEF UpdateAcknowledgedTick
    <3> QED
      BY <3>3, <3>4
  <2>4. /\ -1 \in {base.deltaTick, a, -1} /\ base.deltaTick \in {base.deltaTick, a, -1}
        /\ base.ackTick \in {base.ackTick, a}
    OBVIOUS
  <2>5. CASE base' = [base EXCEPT !.waitTick = -1, !.deltaTick = -1]
    BY <2>2, <2>4, <2>5
  <2>6. CASE base' = base
    BY <1>2, <2>4, <2>6
  <2>7. CASE base' = AcknowledgeTick(a)
    BY <2>1, <2>7
  <2> QED
    BY <2>3, <2>5, <2>6, <2>7
<1>7. Known(base', client, toServer', tick)
  <2>1. \A k \in DOMAIN toServer' : toServer'[k] <= tick
    BY <1>3, <1>4 DEF Known
  <2> QED
    BY <1>3, <1>5, <1>6, <2>1 DEF Known
<1> QED
  BY <1>1, <1>3, <1>4, <1>6, <1>7 DEF Mirrored, TableTypes, Mirroring, Signed

LEMMA ActivateMirrored ==
  ASSUME Mirrored, ActivatePlayer
  PROVE  Mirrored'
<1>1. /\ base.state = "new" /\ client.table # << >> /\ base' = [base EXCEPT !.state = "full"]
      /\ UNCHANGED <<frame, table, client, toClient, toServer>>
  BY DEF ActivatePlayer
<1>2. /\ base' \in BaseState /\ base'.state = "full" /\ base'.signonTick = base.signonTick
      /\ base'.deltaTick = base.deltaTick /\ base'.ackTick = base.ackTick
  BY <1>1 DEF Mirrored, TableTypes, BaseState
<1>3. Signed(base, client, toClient, toServer, table.entries, frame)
  BY <1>1 DEF Mirrored, Mirroring, Fresh, Signing, Empty
<1>4. Signed(base', client', toClient', toServer', table'.entries, frame')
  BY <1>1, <1>2, <1>3 DEF Signed, Known
<1> QED
  BY <1>1, <1>2, <1>4 DEF Mirrored, TableTypes, Mirroring

LEMMA ThinkMirrored ==
  ASSUME Mirrored, NotFinalTick \/ \E simulating \in BOOLEAN : Think(simulating)
  PROVE  Mirrored'
<1>1. UNCHANGED <<table, base, client, toClient, toServer>>
  BY DEF NotFinalTick, Think
<1>2. /\ frame \in FrameState /\ FrameOk(frame) /\ frame.tick \in Nat /\ frame.tableTick \in Nat
      /\ frame.tableTick <= frame.tick + 1
  BY DEF Mirrored, TableTypes, FrameOk, FrameState
<1>3. ASSUME NEW p \in {"network", "think"}, frame' = [frame EXCEPT !.phase = p]
      PROVE  Mirrored'
  <2>1. /\ FrameOk(frame') /\ frame'.tick = frame.tick /\ frame'.tableTick = frame.tableTick
        /\ frame'.signed = frame.signed
    BY <1>2, <1>3 DEF FrameOk, FrameState
  <2> QED
    BY <1>1, <1>2, <2>1, FrameMirrored
<1>4. ASSUME frame' = SetTick(frame.tick + 1)
      PROVE  Mirrored'
  <2>1. PICK n \in Nat : n = frame.tick + 1
    BY <1>2
  <2>2. PICK f : f = [frame EXCEPT !.phase = "think", !.tick = n]
    OBVIOUS
  <2>3. PICK g : g = [f EXCEPT !.tableTick = n]
    OBVIOUS
  <2>4. frame' = [g EXCEPT !.signed = FALSE]
    BY <1>4, <2>1, <2>2, <2>3 DEF SetTick
  <2>5. f \in FrameState /\ f.tick = n
    BY <1>2, <2>2 DEF FrameState
  <2>6. g \in FrameState /\ g.tick = n /\ g.tableTick = n
    BY <2>3, <2>5 DEF FrameState
  <2>7. frame' \in FrameState /\ frame'.tick = n /\ frame'.tableTick = n
    BY <2>4, <2>6 DEF FrameState
  <2>8. FrameOk(frame') /\ frame.tick < frame'.tableTick /\ frame.tick <= frame'.tick
        /\ frame.tableTick <= frame'.tableTick
    BY <1>2, <2>1, <2>7 DEF FrameOk
  <2> QED
    BY <1>1, <2>8, FrameMirrored
<1> QED
  BY <1>3, <1>4 DEF NotFinalTick, Think

LEMMA MirroredStep ==
  ASSUME ~ SignonRace
  PROVE  Mirrored /\ [TableNext]_tableVars => Mirrored'
<1> SUFFICES ASSUME Mirrored, [TableNext]_tableVars PROVE Mirrored'
  OBVIOUS
<1>1. CASE Change
  <2>1. /\ Goes(table, frame, table', frame)
        /\ UNCHANGED <<frame, base, client, toClient, toServer>>
    BY <1>1, ChangeGoes DEF Mirrored
  <2>2. Mirroring(base, client, toClient, toServer, table'.entries, frame)
    BY <2>1, GoesOk DEF Mirrored
  <2> QED
    BY <2>1, <2>2 DEF Mirrored, TableTypes, Goes
<1>2. CASE UNCHANGED tableVars
  BY <1>2 DEF tableVars, Mirrored, TableTypes
<1> QED
  BY <1>1, <1>2, WriteBaselinesMirrored, ActivateMirrored, ThinkMirrored, SendMirrored,
     ReadMirrored, RequestMirrored, MoveMirrored, AckMirrored DEF TableNext

LEMMA MirroredAlways ==
  ASSUME ~ SignonRace
  PROVE  TableSpec => []Mirrored
<1>1. TableInit => Mirrored
  BY MirroredInit
<1>2. Mirrored /\ [TableNext]_tableVars => Mirrored'
  BY MirroredStep
<1> QED
  BY <1>1, <1>2, PTL DEF TableSpec

\* Whichever snapshots and acknowledgements are lost, and however often the client asks for a
\* full update, ParseUpdate makes its mirror the table the message was written from, if
\* no table changes between the signon data of a client and the next tick of the tables.
THEOREM MirrorsAreTables ==
  ASSUME ~ SignonRace
  PROVE  TableSpec => []MirrorIsTable
<1>1. Mirrored => MirrorIsTable
  BY DEF Mirrored, MirrorIsTable
<1> QED
  BY <1>1, MirroredAlways, PTL

\* What WriteUpdate leaves out for the tick the client acknowledged ("Client is up to date")
\* the client has, as it is now; under the same condition.
THEOREM SkippedIsKnown ==
  ASSUME ~ SignonRace
  PROVE  TableSpec => []SkippedIsUpToDate
<1>1. Mirrored => SkippedIsUpToDate
  <2> SUFFICES ASSUME Mirrored, base.state = "full", NEW i \in DOMAIN table.entries,
                      table.entries[i].changed <= GetMaxAckTickCount
               PROVE  /\ i \in DOMAIN client.table
                      /\ client.table[i] = Contents(table.entries)[i]
    BY DEF SkippedIsUpToDate
  <2>1. PICK e, c : e = table.entries /\ c = client.table
    OBVIOUS
  <2>2. PICK tick \in Nat : /\ Covers(e, c, tick) /\ Known(base, client, toServer, tick)
    BY <2>1 DEF Mirrored, Mirroring, Fresh, Signing, Signed, Chain
  <2>3. GetMaxAckTickCount \in Int /\ GetMaxAckTickCount <= tick
    BY <2>2, AckKnown DEF Mirrored
  <2>4. /\ DOMAIN e = 1 .. Len(e) /\ Len(e) \in Nat /\ \A j \in 1 .. Len(e) : e[j] \in Entries
        /\ \A j \in 1 .. Len(e) : Contents(e)[j] = [name |-> e[j].name, data |-> e[j].data]
    BY <2>1, ContentsOk DEF Mirrored
  <2>5. i \in 1 .. Len(e) /\ e[i].changed \in Nat
    BY <2>1, <2>4 DEF Entries
  <2>6. e[i].changed <= tick
    BY <2>1, <2>3, <2>5
  <2>7. i <= Len(c) /\ c[i].data = e[i].data
    BY <2>2, <2>5, <2>6 DEF Covers
  <2>8. c \in Seq(Content) /\ Len(c) \in Nat
    BY <2>2 DEF Covers
  <2>9. i \in DOMAIN c /\ c[i] \in Content /\ c[i].name = e[i].name
    BY <2>2, <2>5, <2>7, <2>8 DEF Covers
  <2>10. c[i] = [name |-> e[i].name, data |-> e[i].data]
    BY <2>7, <2>9 DEF Content
  <2> QED
    BY <2>1, <2>4, <2>5, <2>9, <2>10
<1> QED
  BY <1>1, MirroredAlways, PTL
=============================================================================
