---- MODULE TSQueueProofs ----
(***************************************************************************)
(* CTSQueue and CJobQueue, for any number of threads, nodes and items.     *)
(* Without recycled nodes CTSQueue implements the atomic queue (the first  *)
(* part).  With and without, no item is lost or duplicated and the two     *)
(* counters, the queue's m_Count and the job queue's m_nItems, tell what   *)
(* is in the queue at rest.                                                *)
(***************************************************************************)
EXTENDS JobQueue, SequenceTheorems, FunctionTheorems, FiniteSetTheorems, WellFoundedInduction, TLAPS

----------------------------------------------------------------------------
(* The invariant without recycled nodes.                                   *)

PushPlaces == {"pushEnd", "pushSeq", "pushNode", "pushLink", "pushHelp", "pushHelpTail"}
Anchored == {"popTailSeq", "popNext", "popCheck", "popTail", "popHelp", "popElem", "popSwap"}
PopPlaces == {"popSeq", "popNode"} \cup Anchored
Labels == {"idle", "pushFinish", "pushCount", "popCount", "popFree"} \cup PushPlaces \cup PopPlaces

Locals ==
  [new : Nodes \cup {Null}, node : Nodes \cup {Null}, seq : Nat, tseq : Nat,
   next : Nodes \cup {Null, End}, elem : Nat]

TypeOK ==
  /\ head \in [node : Nodes, seq : Nat] /\ tail \in [node : Nodes, seq : Nat]
  /\ next \in [Nodes -> Nodes \cup {Null, End}] /\ elem \in [Nodes -> Nat]
  /\ free = <<>> /\ unused \subseteq Nodes
  /\ pc \in [Threads -> Labels] /\ loc \in [Threads -> Locals]
  /\ pushes \in 0..MaxPush /\ linked \in Seq(Values) /\ popped \in Seq(Nat)
  /\ sawEmpty \in [Threads -> BOOLEAN] /\ alive \subseteq Threads

In(c, n) == \E i \in 1..Len(c) : c[i] = n

\* The nodes, in the order they were linked: the dummies of the past, the dummy, the
\* nodes of the items that are left.
Chain(c) ==
  /\ Len(c) = Len(linked) + 1 /\ Len(popped) <= Len(linked)
  /\ \A i, j \in 1..Len(c) : c[i] = c[j] => i = j
  /\ \A i \in 1..Len(c) : /\ c[i] \in Nodes \ unused
                          /\ next[c[i]] = IF i < Len(c) THEN c[i + 1] ELSE End
  /\ \A i \in 1..Len(linked) : i > Len(popped) => elem[c[i + 1]] = linked[i]
  /\ head.node = c[Len(popped) + 1] /\ head.seq = Len(popped)
  /\ In(c, tail.node)

\* A thread that pushes.
PushOK(c, u) ==
  /\ pc[u] \in PushPlaces =>
       /\ loc[u].new \in Nodes \ unused /\ ~ In(c, loc[u].new) /\ elem[loc[u].new] \in Values
       /\ pc[u] # "pushEnd" => next[loc[u].new] = End
       /\ \A v \in Threads : pc[v] \in PushPlaces /\ loc[v].new = loc[u].new => v = u
  /\ pc[u] \in {"pushLink", "pushHelp", "pushHelpTail"} => In(c, loc[u].node)
  /\ pc[u] = "pushHelp" => next[loc[u].node] # End
  /\ pc[u] = "pushHelpTail" => In(c, loc[u].next)
  /\ pc[u] = "pushFinish" => In(c, loc[u].new)

\* A thread that pops.
PopOK(c, u) ==
  /\ pc[u] \in PopPlaces \ {"popSeq"} => loc[u].seq <= head.seq
  /\ pc[u] \in Anchored =>
       In(c, loc[u].node) /\ (loc[u].seq = head.seq => loc[u].node = head.node)
  /\ pc[u] \in {"popCheck", "popTail", "popHelp", "popElem", "popSwap"} =>
       loc[u].next = End \/ (loc[u].next \in Nodes /\ next[loc[u].node] = loc[u].next)
  /\ pc[u] \in {"popHelp", "popElem", "popSwap"} => loc[u].next # End
  /\ pc[u] = "popCheck" /\ loc[u].next = End /\ loc[u].seq = head.seq => sawEmpty[u]
  /\ pc[u] = "popTail" /\ loc[u].next = End => sawEmpty[u]
  /\ pc[u] = "popSwap" /\ loc[u].seq = head.seq => loc[u].elem = linked[Len(popped) + 1]
  /\ pc[u] \in {"popCount", "popFree"} => \E i \in 1..Len(popped) : loc[u].node = c[i]
  /\ pc[u] \in PopPlaces /\ Len(popped) = Len(linked) => sawEmpty[u]

Threaded(c) == \A u \in Threads : PushOK(c, u) /\ PopOK(c, u)

IInv == TypeOK /\ \E c \in Seq(Nodes) : Chain(c) /\ Threaded(c)

----------------------------------------------------------------------------
(* The chain.                                                              *)

\* The successor of a node of the chain is a node of the chain, and the last one, which
\* is the dummy when the queue is empty, is followed by End.
LEMMA Successor ==
  ASSUME TypeOK, NEW c \in Seq(Nodes), Chain(c), NEW n, In(c, n)
  PROVE  /\ n \in Nodes /\ next[n] # Null
         /\ next[n] \in Nodes => In(c, next[n])
         /\ next[n] = End => n = c[Len(c)]
PROOF
<1>1. PICK i \in 1..Len(c) : c[i] = n
  BY DEF In
<1>2. Len(c) \in Nat /\ \A k \in 1..Len(c) : c[k] \in Nodes
  OBVIOUS
<1>3. n \in Nodes /\ next[n] = IF i < Len(c) THEN c[i + 1] ELSE End
  BY <1>1 DEF Chain
<1>4. CASE i < Len(c)
  <2>1. i + 1 \in 1..Len(c) /\ c[i + 1] \in Nodes
    BY <1>2, <1>4
  <2> QED
    BY <1>3, <1>4, <2>1, PtrAssumption DEF In
<1>5. CASE i = Len(c)
  BY <1>1, <1>2, <1>3, <1>5, PtrAssumption
<1> QED
  BY <1>2, <1>4, <1>5

\* The dummy: what follows it is the first item.
LEMMA First ==
  ASSUME TypeOK, NEW c \in Seq(Nodes), Chain(c)
  PROVE  /\ In(c, head.node)
         /\ next[head.node] = End <=> Len(popped) = Len(linked)
         /\ next[head.node] \in Nodes =>
              /\ Len(popped) + 1 \in 1..Len(linked) /\ Len(popped) + 2 \in 1..Len(c)
              /\ next[head.node] = c[Len(popped) + 2]
              /\ elem[next[head.node]] = linked[Len(popped) + 1]
PROOF
<1>1. /\ Len(linked) \in Nat /\ Len(popped) \in Nat /\ Len(c) = Len(linked) + 1
      /\ Len(popped) <= Len(linked)
  BY DEF Chain, TypeOK
<1> DEFINE i == Len(popped) + 1
<1>2. i \in 1..Len(c) /\ head.node = c[i]
  BY <1>1 DEF Chain
<1>3. next[head.node] = IF i < Len(c) THEN c[i + 1] ELSE End
  BY <1>2 DEF Chain
<1>4. i < Len(c) => c[i + 1] \in Nodes
  BY <1>1, <1>2
<1>5. ASSUME i < Len(c)
      PROVE  i \in 1..Len(linked) /\ i + 1 \in 1..Len(c) /\ elem[c[i + 1]] = linked[i]
  <2>1. i \in 1..Len(linked) /\ i > Len(popped) /\ i + 1 \in 1..Len(c)
    BY <1>1, <1>5
  <2> QED
    BY <2>1 DEF Chain
<1>6. In(c, head.node)
  BY <1>2 DEF In
<1>7. i + 1 = Len(popped) + 2
  BY <1>1
<1> QED
  BY <1>1, <1>2, <1>3, <1>4, <1>5, <1>6, <1>7, PtrAssumption

\* A step that only thread t notices.
LEMMA LocalStep ==
  ASSUME IInv, NEW t \in Threads, NEW c \in Seq(Nodes), Chain(c), Threaded(c), TypeOK',
         UNCHANGED <<shared, history>>,
         \A u \in Threads : u # t => pc'[u] = pc[u] /\ loc'[u] = loc[u],
         pc'[t] \in PushPlaces => pc[t] \in PushPlaces /\ loc'[t].new = loc[t].new,
         PushOK(c, t)', PopOK(c, t)'
  PROVE  IInv'
PROOF
<1>1. /\ head' = head /\ tail' = tail /\ next' = next /\ elem' = elem /\ unused' = unused
      /\ linked' = linked /\ popped' = popped /\ sawEmpty' = sawEmpty
  BY DEF shared, history
<1>2. Chain(c)'
  BY <1>1 DEF Chain, In
<1>3. ASSUME NEW u \in Threads, u # t
      PROVE  PushOK(c, u)' /\ PopOK(c, u)'
  <2>1. pc'[u] = pc[u] /\ loc'[u] = loc[u] /\ PushOK(c, u) /\ PopOK(c, u)
    BY <1>3 DEF Threaded
  <2>2. PushOK(c, u)'
    BY <1>1, <1>3, <2>1 DEF PushOK, In
  <2>3. PopOK(c, u)'
    BY <1>1, <2>1 DEF PopOK, In
  <2> QED
    BY <2>2, <2>3
<1> QED
  BY <1>2, <1>3 DEF IInv, Threaded

----------------------------------------------------------------------------
(* The steps.                                                              *)

\* What a step that reads leaves to be shown.
LEMMA ReadTypes ==
  ASSUME TypeOK, NEW t \in Threads, UNCHANGED <<shared, history>>,
         alive' \subseteq Threads,
         pc' \in [Threads -> Labels], loc' \in [Threads -> Locals]
  PROVE  TypeOK'
PROOF
  BY DEF TypeOK, shared, history

LEMMA PushReads ==
  ASSUME IInv, NEW t \in alive,
         ReadTailSeq(t) \/ ReadTailNode(t) \/ LinkFails(t) \/ ReadHelped(t)
  PROVE  IInv'
PROOF
<1>1. PICK c \in Seq(Nodes) : Chain(c) /\ Threaded(c)
  BY DEF IInv
<1>2. /\ TypeOK /\ t \in Threads /\ UNCHANGED <<shared, history>> /\ alive' = alive
      /\ head' = head /\ tail' = tail /\ next' = next /\ elem' = elem /\ unused' = unused
      /\ linked' = linked /\ popped' = popped /\ sawEmpty' = sawEmpty
  BY DEF IInv, TypeOK, ReadTailSeq, ReadTailNode, LinkFails, ReadHelped, Read, Step, shared, history
<1>3. PushOK(c, t) /\ PopOK(c, t) /\ loc[t] \in Locals /\ In(c, tail.node)
  BY <1>1, <1>2 DEF Threaded, TypeOK, Chain
<1>4. /\ loc[t].new \in Nodes \cup {Null} /\ loc[t].node \in Nodes \cup {Null}
      /\ loc[t].next \in Nodes \cup {Null, End} /\ loc[t].seq \in Nat /\ loc[t].tseq \in Nat
      /\ loc[t].elem \in Nat /\ tail.node \in Nodes /\ tail.seq \in Nat
      /\ pc \in [Threads -> Labels] /\ loc \in [Threads -> Locals]
      /\ next \in [Nodes -> Nodes \cup {Null, End}]
  BY <1>2, <1>3 DEF Locals, TypeOK
<1>5. CASE ReadTailSeq(t)
  <2> DEFINE r == [Blank EXCEPT !.new = loc[t].new, !.seq = tail.seq]
  <2>1. /\ pc[t] = "pushSeq" /\ pc' = [pc EXCEPT ![t] = "pushNode"]
        /\ loc' = [loc EXCEPT ![t] = r]
    BY <1>5 DEF ReadTailSeq, Read, Goto
  <2>2. r \in Locals /\ r.new = loc[t].new
    BY <1>4 DEF Blank, Locals, NoItem
  <2> HIDE DEF r
  <2>3. pc'[t] = "pushNode" /\ loc'[t].new = loc[t].new
    BY <1>2, <1>4, <2>1, <2>2
  <2>4. TypeOK'
    BY <1>2, <1>4, <2>1, <2>2, ReadTypes DEF Labels, PushPlaces, TypeOK
  <2>5. PushOK(c, t)'
    BY <1>2, <1>3, <2>1, <2>3, <1>4 DEF PushOK, PushPlaces, In
  <2>6. PopOK(c, t)'
    BY <2>3 DEF PopOK, PopPlaces, Anchored
  <2> QED
    BY <1>1, <1>2, <1>4, <2>1, <2>3, <2>4, <2>5, <2>6, LocalStep DEF PushPlaces
<1>6. CASE ReadTailNode(t)
  <2> DEFINE r == [loc[t] EXCEPT !.node = tail.node]
  <2>1. /\ pc[t] = "pushNode" /\ pc' = [pc EXCEPT ![t] = "pushLink"]
        /\ loc' = [loc EXCEPT ![t] = r]
    BY <1>6 DEF ReadTailNode, Read, Goto
  <2>2. r \in Locals /\ r.new = loc[t].new /\ r.node = tail.node
    BY <1>3, <1>4 DEF Locals
  <2> HIDE DEF r
  <2>3. pc'[t] = "pushLink" /\ loc'[t].new = loc[t].new /\ loc'[t].node = tail.node
    BY <1>2, <1>4, <2>1, <2>2
  <2>4. TypeOK'
    BY <1>2, <1>4, <2>1, <2>2, ReadTypes DEF Labels, PushPlaces, TypeOK
  <2>5. PushOK(c, t)'
    BY <1>2, <1>3, <2>1, <2>3, <1>4 DEF PushOK, PushPlaces, In
  <2>6. PopOK(c, t)'
    BY <2>3 DEF PopOK, PopPlaces, Anchored
  <2> QED
    BY <1>1, <1>2, <1>4, <2>1, <2>3, <2>4, <2>5, <2>6, LocalStep DEF PushPlaces
<1>7. CASE LinkFails(t)
  <2>1. /\ pc[t] = "pushLink" /\ pc' = [pc EXCEPT ![t] = "pushHelp"] /\ loc' = loc
        /\ next[loc[t].node] # End
    BY <1>7 DEF LinkFails, Step, Goto
  <2>2. pc'[t] = "pushHelp"
    BY <1>2, <1>4, <2>1
  <2>3. TypeOK'
    BY <1>2, <1>4, <2>1, ReadTypes DEF Labels, PushPlaces, TypeOK
  <2>4. PushOK(c, t)'
    BY <1>2, <1>3, <2>1, <2>2, <1>4 DEF PushOK, PushPlaces, In
  <2>5. PopOK(c, t)'
    BY <2>2 DEF PopOK, PopPlaces, Anchored
  <2> QED
    BY <1>1, <1>2, <1>4, <2>1, <2>2, <2>3, <2>4, <2>5, LocalStep DEF PushPlaces
<1>8. CASE ReadHelped(t)
  <2> DEFINE n == next[loc[t].node]
             r == [loc[t] EXCEPT !.next = n]
  <2>1. /\ pc[t] = "pushHelp" /\ pc' = [pc EXCEPT ![t] = "pushHelpTail"]
        /\ loc' = [loc EXCEPT ![t] = r]
    BY <1>8 DEF ReadHelped, Read, Goto
  <2>2. n \in Nodes /\ In(c, n)
    BY <1>1, <1>2, <1>3, <2>1, <1>4, Successor DEF PushOK
  <2>3. r \in Locals /\ r.new = loc[t].new /\ r.node = loc[t].node /\ r.next = n
    BY <1>3, <1>4, <2>2 DEF Locals
  <2> HIDE DEF r, n
  <2>4. /\ pc'[t] = "pushHelpTail" /\ loc'[t].new = loc[t].new /\ loc'[t].node = loc[t].node
        /\ loc'[t].next = n
    BY <1>2, <1>4, <2>1, <2>3
  <2>5. TypeOK'
    BY <1>2, <1>4, <2>1, <2>3, ReadTypes DEF Labels, PushPlaces, TypeOK
  <2>6. PushOK(c, t)'
    BY <1>2, <1>3, <2>1, <2>2, <2>4, <1>4 DEF PushOK, PushPlaces, In
  <2>7. PopOK(c, t)'
    BY <2>4 DEF PopOK, PopPlaces, Anchored
  <2> QED
    BY <1>1, <1>2, <1>4, <2>1, <2>4, <2>5, <2>6, <2>7, LocalStep DEF PushPlaces
<1> QED
  BY <1>5, <1>6, <1>7, <1>8

LEMMA PopReads ==
  ASSUME IInv, NEW t \in alive,
         ReadHeadSeq(t) \/ ReadHeadNode(t) \/ ReadTailSequence(t) \/ ReadNext(t) \/ ReadElem(t)
  PROVE  IInv'
PROOF
<1>1. PICK c \in Seq(Nodes) : Chain(c) /\ Threaded(c)
  BY DEF IInv
<1>2. /\ TypeOK /\ t \in Threads /\ UNCHANGED <<shared, history>> /\ alive' = alive
      /\ head' = head /\ tail' = tail /\ next' = next /\ elem' = elem /\ unused' = unused
      /\ linked' = linked /\ popped' = popped /\ sawEmpty' = sawEmpty
  BY DEF IInv, TypeOK, ReadHeadSeq, ReadHeadNode, ReadTailSequence, ReadNext, ReadElem, Read,
    shared, history
<1>3. /\ PopOK(c, t) /\ loc[t] \in Locals /\ In(c, head.node)
      /\ next[head.node] = End <=> Len(popped) = Len(linked)
  BY <1>1, <1>2, First DEF Threaded, TypeOK
<1>4. /\ loc[t].new \in Nodes \cup {Null} /\ loc[t].node \in Nodes \cup {Null}
      /\ loc[t].next \in Nodes \cup {Null, End} /\ loc[t].seq \in Nat /\ loc[t].tseq \in Nat
      /\ loc[t].elem \in Nat
      /\ head.node \in Nodes /\ head.seq \in Nat /\ tail.node \in Nodes /\ tail.seq \in Nat
      /\ pc \in [Threads -> Labels] /\ loc \in [Threads -> Locals]
      /\ next \in [Nodes -> Nodes \cup {Null, End}] /\ elem \in [Nodes -> Nat]
  BY <1>2, <1>3 DEF Locals, TypeOK
<1>5. CASE ReadHeadSeq(t)
  <2> DEFINE r == [Blank EXCEPT !.seq = head.seq]
  <2>1. /\ pc[t] = "popSeq" /\ pc' = [pc EXCEPT ![t] = "popNode"]
        /\ loc' = [loc EXCEPT ![t] = r]
    BY <1>5 DEF ReadHeadSeq, Read, Goto
  <2>2. r \in Locals /\ r.seq = head.seq
    BY <1>4 DEF Blank, Locals, NoItem
  <2> HIDE DEF r
  <2>3. pc'[t] = "popNode" /\ loc'[t].seq = head.seq
    BY <1>2, <1>4, <2>1, <2>2
  <2>4. TypeOK'
    BY <1>2, <1>4, <2>1, <2>2, ReadTypes DEF Labels, PopPlaces, TypeOK
  <2>5. PushOK(c, t)'
    BY <2>3 DEF PushOK, PushPlaces
  <2>6. PopOK(c, t)'
    BY <1>2, <1>3, <1>4, <2>1, <2>3 DEF PopOK, PopPlaces, Anchored
  <2> QED
    BY <1>1, <1>2, <1>4, <2>1, <2>3, <2>4, <2>5, <2>6, LocalStep DEF PushPlaces
<1>6. CASE ReadHeadNode(t)
  <2> DEFINE r == [loc[t] EXCEPT !.node = head.node]
  <2>1. /\ pc[t] = "popNode" /\ pc' = [pc EXCEPT ![t] = "popTailSeq"]
        /\ loc' = [loc EXCEPT ![t] = r]
    BY <1>6 DEF ReadHeadNode, Read, Goto
  <2>2. r \in Locals /\ r.seq = loc[t].seq /\ r.node = head.node
    BY <1>3, <1>4 DEF Locals
  <2> HIDE DEF r
  <2>3. pc'[t] = "popTailSeq" /\ loc'[t].seq = loc[t].seq /\ loc'[t].node = head.node
    BY <1>2, <1>4, <2>1, <2>2
  <2>4. TypeOK'
    BY <1>2, <1>4, <2>1, <2>2, ReadTypes DEF Labels, PopPlaces, Anchored, TypeOK
  <2>5. PushOK(c, t)'
    BY <2>3 DEF PushOK, PushPlaces
  <2>6. PopOK(c, t)'
    BY <1>2, <1>3, <1>4, <2>1, <2>3 DEF PopOK, PopPlaces, Anchored, In
  <2> QED
    BY <1>1, <1>2, <1>4, <2>1, <2>3, <2>4, <2>5, <2>6, LocalStep DEF PushPlaces
<1>7. CASE ReadTailSequence(t)
  <2> DEFINE r == [loc[t] EXCEPT !.tseq = tail.seq]
  <2>1. /\ pc[t] = "popTailSeq" /\ pc' = [pc EXCEPT ![t] = "popNext"]
        /\ loc' = [loc EXCEPT ![t] = r]
    BY <1>7 DEF ReadTailSequence, Read, Goto
  <2>2. r \in Locals /\ r.seq = loc[t].seq /\ r.node = loc[t].node
    BY <1>3, <1>4 DEF Locals
  <2> HIDE DEF r
  <2>3. pc'[t] = "popNext" /\ loc'[t].seq = loc[t].seq /\ loc'[t].node = loc[t].node
    BY <1>2, <1>4, <2>1, <2>2
  <2>4. TypeOK'
    BY <1>2, <1>4, <2>1, <2>2, ReadTypes DEF Labels, PopPlaces, Anchored, TypeOK
  <2>5. PushOK(c, t)'
    BY <2>3 DEF PushOK, PushPlaces
  <2>6. PopOK(c, t)'
    BY <1>2, <1>3, <1>4, <2>1, <2>3 DEF PopOK, PopPlaces, Anchored, In
  <2> QED
    BY <1>1, <1>2, <1>4, <2>1, <2>3, <2>4, <2>5, <2>6, LocalStep DEF PushPlaces
<1>8. CASE ReadNext(t)
  <2> DEFINE n == next[loc[t].node]
             r == [loc[t] EXCEPT !.next = n]
  <2>1. /\ pc[t] = "popNext" /\ pc' = [pc EXCEPT ![t] = "popCheck"]
        /\ loc' = [loc EXCEPT ![t] = r]
    BY <1>8 DEF ReadNext, Read, Goto
  <2>2. /\ In(c, loc[t].node) /\ loc[t].node \in Nodes /\ n \in Nodes \cup {End}
        /\ loc[t].seq = head.seq => loc[t].node = head.node
    BY <1>1, <1>2, <1>3, <1>4, <2>1, Successor DEF PopOK, Anchored
  <2>3. r \in Locals /\ r.seq = loc[t].seq /\ r.node = loc[t].node /\ r.next = n
    BY <1>3, <1>4, <2>2 DEF Locals
  <2>4. n = End /\ loc[t].seq = head.seq => sawEmpty[t]
    BY <1>3, <2>1, <2>2 DEF PopOK, PopPlaces, Anchored
  <2>5. /\ pc'[t] = "popCheck" /\ loc'[t].seq = loc[t].seq /\ loc'[t].node = loc[t].node
        /\ loc'[t].next = n
    <3> HIDE DEF r, n
    <3> QED
      BY <1>2, <1>4, <2>1, <2>3
  <2>6. TypeOK'
    <3> HIDE DEF r, n
    <3> QED
      BY <1>2, <1>4, <2>1, <2>3, ReadTypes DEF Labels, PopPlaces, Anchored, TypeOK
  <2> HIDE DEF r
  <2>7. PushOK(c, t)'
    BY <2>5 DEF PushOK, PushPlaces
  <2>8. PopOK(c, t)'
    BY <1>2, <1>3, <1>4, <2>1, <2>2, <2>4, <2>5 DEF PopOK, PopPlaces, Anchored, In
  <2> QED
    BY <1>1, <1>2, <1>4, <2>1, <2>5, <2>6, <2>7, <2>8, LocalStep DEF PushPlaces
<1>9. CASE ReadElem(t)
  <2> DEFINE r == [loc[t] EXCEPT !.elem = elem[loc[t].next]]
  <2>1. /\ pc[t] = "popElem" /\ pc' = [pc EXCEPT ![t] = "popSwap"]
        /\ loc' = [loc EXCEPT ![t] = r]
    BY <1>9 DEF ReadElem, Read, Goto
  <2>2. /\ loc[t].next \in Nodes /\ loc[t].next # End /\ next[loc[t].node] = loc[t].next
        /\ loc[t].seq = head.seq => loc[t].node = head.node
        /\ In(c, loc[t].node) /\ elem[loc[t].next] \in Nat
    BY <1>3, <1>4, <2>1 DEF PopOK, Anchored
  <2>3. loc[t].seq = head.seq => elem[loc[t].next] = linked[Len(popped) + 1]
    BY <1>1, <1>2, <2>2, First
  <2>4. /\ r \in Locals /\ r.seq = loc[t].seq /\ r.node = loc[t].node /\ r.next = loc[t].next
        /\ r.elem = elem[loc[t].next]
    BY <1>3, <1>4, <2>2 DEF Locals
  <2> HIDE DEF r
  <2>5. /\ pc'[t] = "popSwap" /\ loc'[t].seq = loc[t].seq /\ loc'[t].node = loc[t].node
        /\ loc'[t].next = loc[t].next /\ loc'[t].elem = elem[loc[t].next]
    BY <1>2, <1>4, <2>1, <2>4
  <2>6. TypeOK'
    BY <1>2, <1>4, <2>1, <2>4, ReadTypes DEF Labels, PopPlaces, Anchored, TypeOK
  <2>7. PushOK(c, t)'
    BY <2>5 DEF PushOK, PushPlaces
  <2>8. PopOK(c, t)'
    BY <1>2, <1>3, <1>4, <2>1, <2>2, <2>3, <2>5 DEF PopOK, PopPlaces, Anchored, In
  <2> QED
    BY <1>1, <1>2, <1>4, <2>1, <2>5, <2>6, <2>7, <2>8, LocalStep DEF PushPlaces
<1> QED
  BY <1>5, <1>6, <1>7, <1>8, <1>9

LEMMA PopChecks ==
  ASSUME IInv, NEW t \in alive,
         CheckSeq(t) \/ PopEmpty(t) \/ CheckTail(t) \/ TakeFails(t) \/ Suspend(t)
  PROVE  IInv'
PROOF
<1>1. PICK c \in Seq(Nodes) : Chain(c) /\ Threaded(c)
  BY DEF IInv
<1>2. /\ TypeOK /\ t \in Threads /\ UNCHANGED <<shared, history>> /\ alive' \subseteq Threads
      /\ head' = head /\ tail' = tail /\ next' = next /\ elem' = elem /\ unused' = unused
      /\ linked' = linked /\ popped' = popped /\ sawEmpty' = sawEmpty
  BY DEF IInv, TypeOK, CheckSeq, PopEmpty, CheckTail, TakeFails, Suspend, Step, shared, history
<1>3. /\ PushOK(c, t) /\ PopOK(c, t)
      /\ pc \in [Threads -> Labels] /\ loc \in [Threads -> Locals]
  BY <1>1, <1>2 DEF Threaded, TypeOK
<1>4. CASE CheckSeq(t)
  <2> DEFINE l == IF loc[t].next = Null \/ loc[t].seq # head.seq THEN "popSeq" ELSE "popTail"
  <2>1. pc[t] = "popCheck" /\ pc' = [pc EXCEPT ![t] = l] /\ loc' = loc
    BY <1>4 DEF CheckSeq, Step, Goto
  <2>2. l \in {"popSeq", "popTail"} /\ l \in Labels /\ (l = "popTail" => loc[t].seq = head.seq)
    BY DEF Labels, PopPlaces, Anchored
  <2> HIDE DEF l
  <2>3. pc'[t] = l
    BY <1>2, <1>3, <2>1
  <2>4. TypeOK'
    BY <1>2, <1>3, <2>1, <2>2, ReadTypes
  <2>5. PushOK(c, t)'
    BY <2>2, <2>3 DEF PushOK, PushPlaces
  <2>6. PopOK(c, t)'
    BY <1>2, <1>3, <2>1, <2>2, <2>3 DEF PopOK, PopPlaces, Anchored, In
  <2> QED
    BY <1>1, <1>2, <1>3, <2>1, <2>2, <2>3, <2>4, <2>5, <2>6, LocalStep DEF PushPlaces
<1>5. CASE PopEmpty(t)
  <2>1. pc' = [pc EXCEPT ![t] = "idle"] /\ loc' = [loc EXCEPT ![t] = Blank]
    BY <1>5 DEF PopEmpty, Goto
  <2>2. Blank \in Locals
    BY DEF Blank, Locals, NoItem
  <2>3. pc'[t] = "idle"
    BY <1>2, <1>3, <2>1
  <2>4. TypeOK'
    BY <1>2, <1>3, <2>1, <2>2, ReadTypes DEF Labels
  <2>5. PushOK(c, t)' /\ PopOK(c, t)'
    BY <2>3 DEF PushOK, PushPlaces, PopOK, PopPlaces, Anchored
  <2> QED
    BY <1>1, <1>2, <1>3, <2>1, <2>3, <2>4, <2>5, LocalStep DEF PushPlaces
<1>6. CASE CheckTail(t)
  <2> DEFINE l == IF loc[t].node = tail.node THEN "popHelp"
                  ELSE IF loc[t].next # End THEN "popElem"
                  ELSE "popSeq"
  <2>1. /\ pc[t] = "popTail" /\ pc' = [pc EXCEPT ![t] = l] /\ loc' = loc
        /\ ~ (loc[t].node = tail.node /\ loc[t].next = End)
    BY <1>6 DEF CheckTail, Step, Goto
  <2>2. /\ l \in {"popHelp", "popElem", "popSeq"} /\ l \in Labels
        /\ l # "popSeq" => loc[t].next # End
    BY <2>1 DEF Labels, PopPlaces, Anchored
  <2> HIDE DEF l
  <2>3. pc'[t] = l
    BY <1>2, <1>3, <2>1
  <2>4. TypeOK'
    BY <1>2, <1>3, <2>1, <2>2, ReadTypes
  <2>5. PushOK(c, t)'
    BY <2>2, <2>3 DEF PushOK, PushPlaces
  <2>6. PopOK(c, t)'
    BY <1>2, <1>3, <2>1, <2>2, <2>3 DEF PopOK, PopPlaces, Anchored, In
  <2> QED
    BY <1>1, <1>2, <1>3, <2>1, <2>2, <2>3, <2>4, <2>5, <2>6, LocalStep DEF PushPlaces
<1>7. CASE TakeFails(t)
  <2>1. pc[t] = "popSwap" /\ pc' = [pc EXCEPT ![t] = "popSeq"] /\ loc' = loc
    BY <1>7 DEF TakeFails, Step, Goto
  <2>2. pc'[t] = "popSeq"
    BY <1>2, <1>3, <2>1
  <2>3. TypeOK'
    BY <1>2, <1>3, <2>1, ReadTypes DEF Labels, PopPlaces
  <2>4. PushOK(c, t)'
    BY <2>2 DEF PushOK, PushPlaces
  <2>5. PopOK(c, t)'
    BY <1>2, <1>3, <2>1, <2>2 DEF PopOK, PopPlaces, Anchored
  <2> QED
    BY <1>1, <1>2, <1>3, <2>1, <2>2, <2>3, <2>4, <2>5, LocalStep DEF PushPlaces
<1>8. CASE Suspend(t)
  <2>1. pc' = pc /\ loc' = loc
    BY <1>8 DEF Suspend
  <2>2. TypeOK'
    BY <1>2, <1>3, <2>1, ReadTypes
  <2>3. PushOK(c, t)' /\ PopOK(c, t)'
    BY <1>2, <1>3, <2>1 DEF PushOK, PopOK, In
  <2> QED
    BY <1>1, <1>2, <2>1, <2>2, <2>3, LocalStep
<1> QED
  BY <1>4, <1>5, <1>6, <1>7, <1>8

LEMMA TailMoves ==
  ASSUME IInv, NEW t \in alive, HelpPush(t) \/ MoveTail(t) \/ HelpPop(t)
  PROVE  IInv'
PROOF
<1>1. PICK c \in Seq(Nodes) : Chain(c) /\ Threaded(c)
  BY DEF IInv
<1>2. /\ TypeOK /\ t \in Threads /\ UNCHANGED <<free, count, history, alive, loc>>
      /\ head' = head /\ next' = next /\ elem' = elem /\ unused' = unused
      /\ linked' = linked /\ popped' = popped /\ sawEmpty' = sawEmpty /\ pushes' = pushes
  BY DEF IInv, TypeOK, HelpPush, MoveTail, HelpPop, Step, history
<1>3. /\ PushOK(c, t) /\ PopOK(c, t) /\ In(c, tail.node)
      /\ pc \in [Threads -> Labels] /\ loc[t] \in Locals /\ tail \in [node : Nodes, seq : Nat]
  BY <1>1, <1>2 DEF Threaded, TypeOK, Chain
<1>4. PICK l \in {"pushSeq", "pushCount", "popSeq"}, n \in Nodes :
        /\ In(c, n) /\ pc' = [pc EXCEPT ![t] = l]
        /\ \/ tail' = tail
           \/ tail' = [node |-> n, seq |-> tail.seq + 1]
        /\ l = "pushSeq" => pc[t] = "pushHelpTail"
        /\ l = "popSeq" => pc[t] = "popHelp"
  <2>1. CASE HelpPush(t)
    <3>1. /\ pc[t] = "pushHelpTail" /\ pc' = [pc EXCEPT ![t] = "pushSeq"]
          /\ tail' = tail \/ tail' = [node |-> loc[t].next, seq |-> tail.seq + 1]
      BY <2>1 DEF HelpPush, Step, Goto, FinishPush
    <3>2. In(c, loc[t].next)
      BY <1>3, <3>1 DEF PushOK
    <3> QED
      BY <1>1, <1>2, <3>1, <3>2, Successor
  <2>2. CASE MoveTail(t)
    <3>1. /\ pc[t] = "pushFinish" /\ pc' = [pc EXCEPT ![t] = "pushCount"]
          /\ tail' = tail \/ tail' = [node |-> loc[t].new, seq |-> tail.seq + 1]
      BY <2>2 DEF MoveTail, Step, Goto, FinishPush
    <3>2. In(c, loc[t].new)
      BY <1>3, <3>1 DEF PushOK
    <3> QED
      BY <1>1, <1>2, <3>1, <3>2, Successor
  <2>3. CASE HelpPop(t)
    <3>1. /\ pc[t] = "popHelp" /\ pc' = [pc EXCEPT ![t] = "popSeq"]
          /\ tail' = tail \/ tail' = [node |-> loc[t].next, seq |-> tail.seq + 1]
      BY <2>3 DEF HelpPop, Step, Goto, FinishPush
    <3>2. In(c, loc[t].node) /\ next[loc[t].node] \in Nodes /\ loc[t].next = next[loc[t].node]
      BY <1>3, <3>1 DEF PopOK, Anchored
    <3>3. In(c, loc[t].next)
      BY <1>1, <1>2, <3>2, Successor
    <3> QED
      BY <1>1, <1>2, <3>1, <3>3, Successor
  <2> QED
    BY <2>1, <2>2, <2>3
<1>5. n \in Nodes /\ tail' \in [node : Nodes, seq : Nat] /\ In(c, tail'.node)
  BY <1>1, <1>2, <1>3, <1>4, Successor
<1>6. TypeOK'
  BY <1>2, <1>3, <1>4, <1>5 DEF TypeOK, Labels, PushPlaces, PopPlaces, history
<1>7. Chain(c)'
  BY <1>1, <1>2, <1>5 DEF Chain, In
<1>8. /\ pc'[t] = l /\ \A u \in Threads : u # t => pc'[u] = pc[u]
      /\ loc' = loc
  BY <1>2, <1>3, <1>4
<1>9. ASSUME NEW u \in Threads
      PROVE  PushOK(c, u)' /\ PopOK(c, u)'
  <2>1. PushOK(c, u) /\ PopOK(c, u)
    BY <1>1 DEF Threaded
  <2>2. CASE u # t
    <3>1. PushOK(c, u)'
      BY <1>2, <1>4, <1>8, <2>1, <2>2 DEF PushOK, In, PushPlaces
    <3>2. PopOK(c, u)'
      BY <1>2, <1>8, <2>1, <2>2 DEF PopOK, In
    <3> QED
      BY <3>1, <3>2
  <2>3. CASE u = t
    <3>1. PushOK(c, u)'
      BY <1>2, <1>4, <1>8, <2>1, <2>3 DEF PushOK, In, PushPlaces
    <3>2. PopOK(c, u)'
      BY <1>2, <1>4, <1>8, <2>1, <2>3 DEF PopOK, PopPlaces, Anchored
    <3> QED
      BY <3>1, <3>2
  <2> QED
    BY <2>2, <2>3
<1> QED
  BY <1>6, <1>7, <1>9 DEF IInv, Threaded

LEMMA CountSteps ==
  ASSUME IInv, NEW t \in alive, CountUp(t) \/ CountDown(t)
  PROVE  IInv'
PROOF
<1>1. PICK c \in Seq(Nodes) : Chain(c) /\ Threaded(c)
  BY DEF IInv
<1>2. /\ TypeOK /\ t \in Threads /\ UNCHANGED <<free, history, alive>>
      /\ head' = head /\ tail' = tail /\ next' = next /\ elem' = elem /\ unused' = unused
      /\ linked' = linked /\ popped' = popped /\ sawEmpty' = sawEmpty /\ pushes' = pushes
      /\ pc \in [Threads -> Labels] /\ loc \in [Threads -> Locals]
  BY DEF IInv, TypeOK, CountUp, CountDown, Step, history
<1>3. PICK l \in {"idle", "popFree"} :
        /\ pc' = [pc EXCEPT ![t] = l]
        /\ \/ l = "idle" /\ loc' = [loc EXCEPT ![t] = Blank]
           \/ l = "popFree" /\ pc[t] = "popCount" /\ loc' = loc
  BY DEF CountUp, CountDown, Step, Goto
<1>4. Blank \in Locals
  BY DEF Blank, Locals, NoItem
<1>5. TypeOK'
  BY <1>2, <1>3, <1>4 DEF TypeOK, Labels, history
<1>6. Chain(c)'
  BY <1>1, <1>2 DEF Chain, In
<1>7. pc'[t] = l /\ \A u \in Threads : u # t => pc'[u] = pc[u] /\ loc'[u] = loc[u]
  BY <1>2, <1>3
<1>8. ASSUME NEW u \in Threads
      PROVE  PushOK(c, u)' /\ PopOK(c, u)'
  <2>1. PushOK(c, u) /\ PopOK(c, u)
    BY <1>1 DEF Threaded
  <2>2. CASE u # t
    <3>1. PushOK(c, u)'
      BY <1>2, <1>7, <2>1, <2>2 DEF PushOK, In, PushPlaces
    <3>2. PopOK(c, u)'
      BY <1>2, <1>7, <2>1, <2>2 DEF PopOK, In
    <3> QED
      BY <3>1, <3>2
  <2>3. CASE u = t
    BY <1>2, <1>3, <1>7, <2>1, <2>3 DEF PushOK, PushPlaces, PopOK, PopPlaces, Anchored
  <2> QED
    BY <2>2, <2>3
<1> QED
  BY <1>5, <1>6, <1>8 DEF IInv, Threaded

LEMMA StartsPush ==
  ASSUME IInv, ~ Recycle, NEW t \in alive, PushItem(t)
  PROVE  IInv'
PROOF
<1>1. PICK c \in Seq(Nodes) : Chain(c) /\ Threaded(c)
  BY DEF IInv
<1>2. /\ TypeOK /\ t \in Threads /\ free = <<>> /\ pushes \in 0..MaxPush /\ MaxPush \in Nat
      /\ pc \in [Threads -> Labels] /\ loc \in [Threads -> Locals]
      /\ elem \in [Nodes -> Nat] /\ unused \subseteq Nodes
  BY BoundAssumption DEF IInv, TypeOK
<1> DEFINE n == NewNode(unused)
           r == [Blank EXCEPT !.new = n]
<1>3. n \in unused /\ n \in Nodes
  BY <1>2 DEF PushItem, NewNode
<1>4. r \in Locals /\ r.new = n
  BY <1>3 DEF Blank, Locals, NoItem
<1>5. /\ pc' = [pc EXCEPT ![t] = "pushEnd"] /\ loc' = [loc EXCEPT ![t] = r]
      /\ elem' = [elem EXCEPT ![n] = pushes + 1] /\ unused' = unused \ {n} /\ free' = free
      /\ pushes' = pushes + 1 /\ pushes < MaxPush
      /\ head' = head /\ tail' = tail /\ next' = next /\ linked' = linked /\ popped' = popped
      /\ sawEmpty' = sawEmpty /\ alive' = alive
  BY <1>2 DEF PushItem, Goto
<1> HIDE DEF n, r
<1>6. TypeOK'
  BY <1>2, <1>3, <1>4, <1>5 DEF TypeOK, Labels, PushPlaces
<1>7. ~ In(c, n)
  BY <1>1, <1>3 DEF Chain, In
<1>8. Chain(c)'
  <2>1. \A i \in 1..Len(c) : c[i] # n
    BY <1>7 DEF In
  <2>2. Len(c) = Len(linked) + 1 /\ Len(linked) \in Nat
    BY <1>1, <1>2 DEF Chain, TypeOK
  <2>3. \A i \in 1..Len(linked) : i + 1 \in 1..Len(c) /\ c[i + 1] \in Nodes /\ c[i + 1] # n
    BY <2>1, <2>2
  <2>4. \A i \in 1..Len(linked) : elem'[c[i + 1]] = elem[c[i + 1]]
    BY <1>2, <1>5, <2>3
  <2> QED
    BY <1>1, <1>5, <2>1, <2>4 DEF Chain, In
<1>9. /\ pc'[t] = "pushEnd" /\ loc'[t].new = n /\ elem'[n] = pushes + 1
      /\ pushes + 1 \in Values
      /\ \A u \in Threads : u # t => pc'[u] = pc[u] /\ loc'[u] = loc[u]
      /\ \A m \in Nodes : m # n => elem'[m] = elem[m]
  BY <1>2, <1>3, <1>4, <1>5 DEF Values
<1>10. ASSUME NEW u \in Threads
       PROVE  PushOK(c, u)' /\ PopOK(c, u)'
  <2>1. /\ PushOK(c, u) /\ PopOK(c, u)
        /\ \A v \in Threads : pc[v] \in PushPlaces => loc[v].new \in Nodes \ unused
    BY <1>1 DEF Threaded, PushOK
  <2>2. CASE u # t
    <3>1. PushOK(c, u)'
      BY <1>3, <1>5, <1>9, <2>1, <2>2 DEF PushOK, In
    <3>2. PopOK(c, u)'
      BY <1>5, <1>9, <2>1, <2>2 DEF PopOK, In
    <3> QED
      BY <3>1, <3>2
  <2>3. CASE u = t
    <3>1. \A v \in Threads : pc'[v] \in PushPlaces /\ loc'[v].new = n => v = t
      BY <1>3, <1>9, <2>1
    <3>2. PushOK(c, t)'
      BY <1>3, <1>5, <1>7, <1>9, <3>1 DEF PushOK, In, PushPlaces
    <3>3. PopOK(c, t)'
      BY <1>9 DEF PopOK, PopPlaces, Anchored
    <3> QED
      BY <2>3, <3>2, <3>3
  <2> QED
    BY <2>2, <2>3
<1> QED
  BY <1>6, <1>8, <1>10 DEF IInv, Threaded

LEMMA StartsPop ==
  ASSUME IInv, NEW t \in alive, PopItem(t)
  PROVE  IInv'
PROOF
<1>1. PICK c \in Seq(Nodes) : Chain(c) /\ Threaded(c)
  BY DEF IInv
<1>2. /\ TypeOK /\ t \in Threads
      /\ pc \in [Threads -> Labels] /\ sawEmpty \in [Threads -> BOOLEAN]
      /\ Len(linked) \in Nat /\ Len(popped) \in Nat
  BY DEF IInv, TypeOK
<1>3. /\ pc' = [pc EXCEPT ![t] = "popSeq"] /\ loc' = loc /\ alive' = alive /\ pushes' = pushes
      /\ sawEmpty' = [sawEmpty EXCEPT ![t] = (Remaining = <<>>)]
      /\ head' = head /\ tail' = tail /\ next' = next /\ linked' = linked /\ popped' = popped
      /\ elem' = elem /\ unused' = unused /\ free' = free
  BY DEF PopItem, Step, Goto, shared
<1>4. sawEmpty' \in [Threads -> BOOLEAN] /\ \A u \in Threads : u # t => sawEmpty'[u] = sawEmpty[u]
  BY <1>2, <1>3
<1>5. TypeOK'
  BY <1>2, <1>3, <1>4 DEF TypeOK, Labels, PopPlaces
<1>6. Chain(c)'
  BY <1>1, <1>3 DEF Chain, In
<1>7. /\ pc'[t] = "popSeq"
      /\ \A u \in Threads : u # t => pc'[u] = pc[u] /\ loc'[u] = loc[u]
  BY <1>2, <1>3
<1>8. Len(popped) = Len(linked) => sawEmpty'[t]
  <2>1. Len(popped) = Len(linked) => Remaining = <<>>
    BY <1>2 DEF Remaining, TypeOK
  <2> QED
    BY <1>2, <1>3, <2>1
<1>9. ASSUME NEW u \in Threads
      PROVE  PushOK(c, u)' /\ PopOK(c, u)'
  <2>1. PushOK(c, u) /\ PopOK(c, u)
    BY <1>1 DEF Threaded
  <2>2. CASE u # t
    <3>1. PushOK(c, u)'
      BY <1>3, <1>7, <2>1, <2>2 DEF PushOK, In, PushPlaces
    <3>2. PopOK(c, u)'
      BY <1>3, <1>4, <1>7, <2>1, <2>2 DEF PopOK, In
    <3> QED
      BY <3>1, <3>2
  <2>3. CASE u = t
    BY <1>3, <1>7, <1>8, <2>3 DEF PushOK, PushPlaces, PopOK, PopPlaces, Anchored
  <2> QED
    BY <2>2, <2>3
<1> QED
  BY <1>5, <1>6, <1>9 DEF IInv, Threaded

LEMMA ClosesItself ==
  ASSUME IInv, NEW t \in alive, SetEnd(t)
  PROVE  IInv'
PROOF
<1>1. PICK c \in Seq(Nodes) : Chain(c) /\ Threaded(c)
  BY DEF IInv
<1> DEFINE n == loc[t].new
<1>2. /\ TypeOK /\ t \in Threads /\ pc \in [Threads -> Labels]
      /\ next \in [Nodes -> Nodes \cup {Null, End}]
  BY DEF IInv, TypeOK
<1>3. /\ pc[t] = "pushEnd" /\ pc' = [pc EXCEPT ![t] = "pushSeq"] /\ loc' = loc
      /\ next' = [next EXCEPT ![n] = End] /\ alive' = alive /\ pushes' = pushes
      /\ head' = head /\ tail' = tail /\ linked' = linked /\ popped' = popped
      /\ elem' = elem /\ unused' = unused /\ free' = free /\ sawEmpty' = sawEmpty
  BY DEF SetEnd, Step, Goto, history
<1>4. /\ n \in Nodes /\ ~ In(c, n)
      /\ \A v \in Threads : pc[v] \in PushPlaces /\ loc[v].new = n => v = t
  BY <1>1, <1>2, <1>3 DEF Threaded, PushOK, PushPlaces
<1> HIDE DEF n
<1>5. /\ next'[n] = End
      /\ \A m \in Nodes : m # n => next'[m] = next[m]
      /\ \A m : In(c, m) => m \in Nodes /\ next'[m] = next[m]
  BY <1>1, <1>2, <1>3, <1>4, Successor
<1>6. TypeOK'
  BY <1>2, <1>3 DEF TypeOK, Labels, PushPlaces
<1>7. Chain(c)'
  <2>1. \A i \in 1..Len(c) : next'[c[i]] = next[c[i]]
    BY <1>5 DEF In
  <2> QED
    BY <1>1, <1>3, <2>1 DEF Chain, In
<1>8. /\ pc'[t] = "pushSeq"
      /\ \A u \in Threads : u # t => pc'[u] = pc[u]
      /\ \A v \in Threads : pc'[v] \in PushPlaces => pc[v] \in PushPlaces
  BY <1>2, <1>3 DEF PushPlaces
<1>9. ASSUME NEW u \in Threads
      PROVE  PushOK(c, u)' /\ PopOK(c, u)'
  <2>1. PushOK(c, u) /\ PopOK(c, u)
    BY <1>1 DEF Threaded
  <2>2. CASE u # t
    <3>1. pc'[u] = pc[u] /\ loc'[u] = loc[u]
      BY <1>3, <1>8, <2>2
    <3>2. pc[u] \in PushPlaces => loc[u].new \in Nodes /\ loc[u].new # n
      BY <1>4, <2>1, <2>2 DEF PushOK
    <3>3. PushOK(c, u)'
      BY <1>3, <1>5, <1>8, <2>1, <3>1, <3>2 DEF PushOK, In, PushPlaces
    <3>4. PopOK(c, u)'
      BY <1>3, <1>5, <2>1, <3>1 DEF PopOK, In, Anchored
    <3> QED
      BY <3>3, <3>4
  <2>3. CASE u = t
    <3>1. PushOK(c, t)'
      BY <1>3, <1>5, <1>8, <2>1, <2>3 DEF PushOK, In, PushPlaces, n
    <3>2. PopOK(c, t)'
      BY <1>8 DEF PopOK, PopPlaces, Anchored
    <3> QED
      BY <2>3, <3>1, <3>2
  <2> QED
    BY <2>2, <2>3
<1> QED
  BY <1>6, <1>7, <1>9 DEF IInv, Threaded

\* The new node becomes the last of the chain, and its item the last that was linked.
LEMMA Links ==
  ASSUME IInv, NEW t \in alive, LinkNode(t)
  PROVE  IInv'
PROOF
<1>1. PICK c \in Seq(Nodes) : Chain(c) /\ Threaded(c)
  BY DEF IInv
<1> DEFINE n == loc[t].new
           m == loc[t].node
<1>2. /\ TypeOK /\ t \in Threads /\ pc \in [Threads -> Labels] /\ elem \in [Nodes -> Nat]
      /\ next \in [Nodes -> Nodes \cup {Null, End}] /\ linked \in Seq(Values)
      /\ Len(linked) \in Nat /\ Len(popped) \in Nat /\ Len(c) \in Nat
      /\ Len(c) = Len(linked) + 1 /\ Len(popped) <= Len(linked)
  <2>1. TypeOK /\ t \in Threads
    BY DEF IInv, TypeOK
  <2>2. Len(linked) \in Nat /\ Len(popped) \in Nat /\ Len(c) \in Nat
    BY <2>1 DEF TypeOK
  <2> QED
    BY <1>1, <2>1, <2>2 DEF TypeOK, Chain
<1>3. /\ pc[t] = "pushLink" /\ pc' = [pc EXCEPT ![t] = "pushFinish"] /\ loc' = loc
      /\ next[m] = End /\ next' = [next EXCEPT ![m] = n]
      /\ linked' = Append(linked, elem[n]) /\ alive' = alive /\ pushes' = pushes
      /\ head' = head /\ tail' = tail /\ popped' = popped
      /\ elem' = elem /\ unused' = unused /\ free' = free /\ sawEmpty' = sawEmpty
  BY DEF LinkNode, Step, Goto
<1>4. /\ n \in Nodes \ unused /\ ~ In(c, n) /\ elem[n] \in Values /\ next[n] = End /\ In(c, m)
      /\ \A v \in Threads : pc[v] \in PushPlaces /\ loc[v].new = n => v = t
  BY <1>1, <1>2, <1>3 DEF Threaded, PushOK, PushPlaces
<1>5. m \in Nodes /\ m = c[Len(c)] /\ m # n
  BY <1>1, <1>2, <1>3, <1>4, Successor
<1> HIDE DEF n, m
<1>a. Append(c, n) \in Seq(Nodes)
  BY <1>4
<1>d. PICK d \in Seq(Nodes) : d = Append(c, n)
  BY <1>a, Zenon
<1>6. /\ d \in Seq(Nodes) /\ Len(d) = Len(c) + 1 /\ d[Len(c) + 1] = n
      /\ \A i \in 1..Len(c) : d[i] = c[i] /\ c[i] \in Nodes
      /\ \A i \in 1..Len(d) : i \in 1..Len(c) \/ i = Len(c) + 1
  <2>1. /\ d \in Seq(Nodes) /\ Len(d) = Len(c) + 1 /\ d[Len(c) + 1] = n
        /\ \A i \in 1..Len(c) : d[i] = c[i]
    BY <1>4, <1>d
  <2>2. \A i \in 1..Len(c) : c[i] \in Nodes
    OBVIOUS
  <2> QED
    BY <1>2, <2>1, <2>2
<1>7. \A x : In(d, x) <=> In(c, x) \/ x = n
  <2>1. Len(c) + 1 \in 1..Len(d) /\ \A i \in 1..Len(c) : i \in 1..Len(d)
    BY <1>2, <1>6
  <2> QED
    BY <1>6, <2>1 DEF In
<1>8. /\ linked' \in Seq(Values) /\ Len(linked') = Len(linked) + 1
      /\ linked'[Len(linked) + 1] = elem[n]
      /\ \A i \in 1..Len(linked) : linked'[i] = linked[i]
  BY <1>2, <1>3, <1>4
<1>9. /\ next' \in [Nodes -> Nodes \cup {Null, End}] /\ next'[m] = n
      /\ \A x \in Nodes : x # m => next'[x] = next[x]
  BY <1>2, <1>3, <1>4, <1>5
<1>10. TypeOK'
  BY <1>2, <1>3, <1>8, <1>9 DEF TypeOK, Labels
<1>11. Chain(d)'
  <2>1. Len(d) = Len(linked') + 1 /\ Len(popped) <= Len(linked')
    BY <1>2, <1>6, <1>8
  <2>2. \A i \in 1..Len(c) : c[i] # n
    BY <1>4 DEF In
  <2>3. \A i, j \in 1..Len(d) : d[i] = d[j] => i = j
    BY <1>1, <1>6, <2>2 DEF Chain
  <2>4. ASSUME NEW i \in 1..Len(d)
        PROVE  d[i] \in Nodes \ unused /\ next'[d[i]] = IF i < Len(d) THEN d[i + 1] ELSE End
    <3>1. CASE i \in 1..Len(c) /\ i < Len(c)
      <4>1. i + 1 \in 1..Len(c) /\ Len(c) \in 1..Len(c) /\ i # Len(c)
        BY <1>2, <3>1
      <4>2. c[i] # m
        BY <1>1, <1>5, <3>1, <4>1 DEF Chain
      <4>3. next[c[i]] = c[i + 1] /\ c[i] \in Nodes \ unused
        BY <1>1, <3>1 DEF Chain
      <4>4. next'[c[i]] = c[i + 1]
        BY <1>9, <4>2, <4>3
      <4>5. d[i] = c[i] /\ d[i + 1] = c[i + 1] /\ i < Len(d)
        BY <1>2, <1>6, <3>1, <4>1
      <4> QED
        BY <4>3, <4>4, <4>5
    <3>2. CASE i = Len(c)
      <4>1. i \in 1..Len(c) /\ d[i] = m /\ c[i] \in Nodes \ unused
        BY <1>1, <1>2, <1>5, <1>6, <3>2 DEF Chain
      <4> QED
        BY <1>2, <1>5, <1>6, <1>9, <3>2, <4>1
    <3>3. CASE i = Len(c) + 1
      BY <1>2, <1>4, <1>5, <1>6, <1>9, <3>3
    <3> QED
      BY <1>2, <1>6, <3>1, <3>2, <3>3
  <2>5. ASSUME NEW i \in 1..Len(linked'), i > Len(popped)
        PROVE  elem[d[i + 1]] = linked'[i]
    <3>1. CASE i \in 1..Len(linked)
      <4>1. i + 1 \in 1..Len(c)
        BY <1>2, <3>1
      <4> QED
        BY <1>1, <1>6, <1>8, <2>5, <3>1, <4>1 DEF Chain
    <3>2. CASE i = Len(linked) + 1
      BY <1>2, <1>6, <1>8, <3>2
    <3> QED
      BY <1>2, <1>8, <3>1, <3>2
  <2>6. Len(popped) + 1 \in 1..Len(c)
    BY <1>2
  <2>7. head.node = d[Len(popped) + 1] /\ head.seq = Len(popped) /\ In(d, tail.node)
    BY <1>1, <1>6, <1>7, <2>6 DEF Chain
  <2>8. /\ head'.node = d[Len(popped') + 1] /\ head'.seq = Len(popped')
        /\ In(d, tail'.node)
    BY <1>3, <2>7
  <2>9. \A i \in 1..Len(d) : /\ d[i] \in Nodes \ unused'
                             /\ next'[d[i]] = IF i < Len(d) THEN d[i + 1] ELSE End
    BY <1>3, <2>4
  <2>10. \A i \in 1..Len(linked') : i > Len(popped') => elem'[d[i + 1]] = linked'[i]
    BY <1>3, <2>5
  <2> QED
    BY <1>3, <2>1, <2>3, <2>8, <2>9, <2>10 DEF Chain, In
<1>12. /\ pc'[t] = "pushFinish" /\ loc'[t].new = n
       /\ \A u \in Threads : u # t => pc'[u] = pc[u]
       /\ \A v \in Threads : pc'[v] \in PushPlaces => pc[v] \in PushPlaces
  BY <1>2, <1>3 DEF PushPlaces, n
<1>13. ASSUME NEW u \in Threads
       PROVE  PushOK(d, u)' /\ PopOK(d, u)'
  <2>1. PushOK(c, u) /\ PopOK(c, u)
    BY <1>1 DEF Threaded
  <2>2. CASE u # t
    <3>1. pc'[u] = pc[u] /\ loc'[u] = loc[u]
      BY <1>3, <1>12, <2>2
    <3>2. /\ \A x : In(c, x) => In(d, x)
          /\ \A x \in Nodes : next[x] # End => next'[x] = next[x]
      BY <1>3, <1>7, <1>9
    <3>3. PushOK(d, u)'
      <4>1. pc[u] \in PushPlaces =>
              /\ loc[u].new \in Nodes /\ loc[u].new # n /\ loc[u].new # m
              /\ next'[loc[u].new] = next[loc[u].new]
        BY <1>4, <1>9, <2>1, <2>2 DEF PushOK
      <4>2. pc[u] = "pushHelp" => next'[loc[u].node] # End
        BY <1>1, <1>2, <2>1, <3>2, Successor DEF PushOK
      <4>3. pc[u] \in PushPlaces =>
              /\ ~ In(d, loc[u].new) /\ (pc[u] # "pushEnd" => next'[loc[u].new] = End)
              /\ \A v \in Threads : pc[v] \in PushPlaces /\ loc[v].new = loc[u].new => v = u
        BY <1>7, <2>1, <4>1 DEF PushOK
      <4>4. /\ pc[u] \in {"pushLink", "pushHelp", "pushHelpTail"} => In(d, loc[u].node)
            /\ pc[u] = "pushHelpTail" => In(d, loc[u].next)
            /\ pc[u] = "pushFinish" => In(d, loc[u].new)
        BY <2>1, <3>2 DEF PushOK
      <4>5. /\ \A v \in Threads : /\ loc'[v] = loc[v]
                                  /\ pc'[v] \in PushPlaces => pc[v] \in PushPlaces
            /\ unused' = unused /\ elem' = elem
        BY <1>3, <1>12
      <4>6. pc[u] \in PushPlaces =>
              loc[u].new \in Nodes \ unused /\ elem[loc[u].new] \in Values
        BY <2>1 DEF PushOK
      <4> QED
        BY <3>1, <4>2, <4>3, <4>4, <4>5, <4>6 DEF PushOK, In
    <3>4. PopOK(d, u)'
      <4>1. pc[u] \in Anchored => loc[u].node \in Nodes
        BY <1>1, <1>2, <2>1, Successor DEF PopOK
      <4>2. ASSUME pc[u] = "popSwap", loc[u].seq = head.seq
            PROVE  linked'[Len(popped) + 1] = linked[Len(popped) + 1]
        <5>1. next[head.node] \in Nodes
          BY <2>1, <4>2 DEF PopOK, Anchored
        <5>2. Len(popped) + 1 \in 1..Len(linked)
          BY <1>1, <1>2, <5>1, First
        <5> QED
          BY <1>8, <5>2
      <4>3. Len(popped) + 1 \in 1..Len(c) /\ Len(popped) # Len(linked')
        BY <1>2, <1>8
      <4>4. \A i \in 1..Len(popped) : d[i] = c[i]
        BY <1>2, <1>6
      <4>5. /\ pc[u] \in {"popCheck", "popTail", "popHelp", "popElem", "popSwap"} =>
                 loc[u].next = End \/ (loc[u].next \in Nodes /\ next'[loc[u].node] = loc[u].next)
        BY <2>1, <3>2, <4>1, PtrAssumption DEF PopOK, Anchored
      <4>6. pc[u] \in {"popCount", "popFree"} => \E i \in 1..Len(popped) : loc[u].node = d[i]
        BY <2>1, <4>4 DEF PopOK
      <4>7. pc[u] \in Anchored =>
              In(d, loc[u].node) /\ (loc[u].seq = head.seq => loc[u].node = head.node)
        BY <2>1, <3>2 DEF PopOK
      <4>8. pc[u] = "popSwap" /\ loc[u].seq = head.seq => loc[u].elem = linked'[Len(popped) + 1]
        BY <2>1, <4>2 DEF PopOK
      <4>9. pc'[u] \in Anchored =>
              In(d, loc'[u].node) /\ (loc'[u].seq = head'.seq => loc'[u].node = head'.node)
        BY <1>3, <3>1, <4>7
      <4> QED
        BY <1>3, <2>1, <3>1, <4>3, <4>5, <4>6, <4>8, <4>9 DEF PopOK, In
    <3> QED
      BY <3>3, <3>4
  <2>3. CASE u = t
    <3>1. In(d, n)
      BY <1>7
    <3>2. PushOK(d, t)'
      BY <1>12, <3>1 DEF PushOK, In, PushPlaces
    <3>3. PopOK(d, t)'
      BY <1>12 DEF PopOK, PopPlaces, Anchored
    <3> QED
      BY <2>3, <3>2, <3>3
  <2> QED
    BY <2>2, <2>3
<1> QED
  BY <1>10, <1>11, <1>13 DEF IInv, Threaded

\* What the thread that moves the head has read is the first item.
LEMMA TakesFirst ==
  ASSUME IInv, NEW t \in alive, TakeHead(t)
  PROVE  /\ Len(popped) + 1 \in 1..Len(linked) /\ loc[t].elem = linked[Len(popped) + 1]
         /\ \A c \in Seq(Nodes) : Chain(c) /\ Threaded(c) =>
              /\ loc[t].node = c[Len(popped) + 1] /\ loc[t].next = c[Len(popped) + 2]
              /\ Len(popped) + 2 \in 1..Len(c)
PROOF
<1>1. /\ TypeOK /\ t \in Threads /\ pc[t] = "popSwap" /\ head \in [node : Nodes, seq : Nat]
      /\ head = [node |-> loc[t].node, seq |-> loc[t].seq]
  BY DEF IInv, TypeOK, TakeHead, HeadMoved
<1>2. head.node = loc[t].node /\ head.seq = loc[t].seq
  BY <1>1
<1>3. ASSUME NEW c \in Seq(Nodes), Chain(c), Threaded(c)
      PROVE  /\ Len(popped) + 1 \in 1..Len(linked) /\ loc[t].elem = linked[Len(popped) + 1]
             /\ loc[t].node = c[Len(popped) + 1] /\ loc[t].next = c[Len(popped) + 2]
             /\ Len(popped) + 2 \in 1..Len(c)
  <2>1. PopOK(c, t)
    BY <1>1, <1>3 DEF Threaded
  <2>2. next[head.node] = loc[t].next /\ next[head.node] \in Nodes
    BY <1>1, <1>2, <2>1 DEF PopOK
  <2>3. loc[t].elem = linked[Len(popped) + 1]
    BY <1>1, <1>2, <2>1 DEF PopOK
  <2>4. head.node = c[Len(popped) + 1]
    BY <1>3 DEF Chain
  <2> QED
    BY <1>1, <1>2, <1>3, <2>2, <2>3, <2>4, First
<1> QED
  BY <1>3 DEF IInv

LEMMA Takes ==
  ASSUME IInv, NEW t \in alive, TakeHead(t)
  PROVE  IInv'
PROOF
<1>1. PICK c \in Seq(Nodes) : Chain(c) /\ Threaded(c)
  BY DEF IInv
<1> DEFINE k == Len(popped) + 1
<1>2. /\ TypeOK /\ t \in Threads /\ pc \in [Threads -> Labels] /\ loc \in [Threads -> Locals]
      /\ sawEmpty \in [Threads -> BOOLEAN] /\ popped \in Seq(Nat)
      /\ Len(linked) \in Nat /\ Len(popped) \in Nat
  BY DEF IInv, TypeOK
<1>3. /\ pc' = [pc EXCEPT ![t] = "popCount"] /\ loc' = loc
      /\ head' = [node |-> loc[t].next, seq |-> loc[t].seq + 1]
      /\ head = [node |-> loc[t].node, seq |-> loc[t].seq]
      /\ popped' = Append(popped, loc[t].elem)
      /\ sawEmpty' = [u \in Threads |-> sawEmpty[u] \/ Len(popped') = Len(linked)]
      /\ next' = next /\ linked' = linked /\ alive' = alive /\ pushes' = pushes
      /\ tail' = tail /\ elem' = elem /\ unused' = unused /\ free' = free
  BY DEF TakeHead, Goto, HeadMoved
<1>4. /\ k \in 1..Len(linked) /\ loc[t].elem = linked[k]
      /\ loc[t].node = c[k] /\ loc[t].next = c[k + 1] /\ k + 1 \in 1..Len(c)
  <2>1. k + 1 = Len(popped) + 2
    BY <1>2
  <2> QED
    BY <1>1, <2>1, TakesFirst
<1>5. loc[t].elem \in Nat /\ loc[t].seq = Len(popped) /\ loc[t].next \in Nodes
  <2>1. loc[t] \in Locals /\ head.seq = loc[t].seq /\ head.seq = Len(popped)
    BY <1>1, <1>2, <1>3 DEF Chain
  <2> QED
    BY <1>4, <2>1 DEF Locals
<1>6. /\ popped' \in Seq(Nat) /\ Len(popped') = k
      /\ head'.node = c[k + 1] /\ head'.seq = k /\ head' \in [node : Nodes, seq : Nat]
      /\ head.seq < head'.seq /\ sawEmpty' \in [Threads -> BOOLEAN]
  <2>1. popped' \in Seq(Nat) /\ Len(popped') = k
    BY <1>2, <1>3, <1>5
  <2>2. /\ head'.node = c[k + 1] /\ head'.seq = k /\ head' \in [node : Nodes, seq : Nat]
        /\ head.seq < head'.seq
    BY <1>2, <1>3, <1>4, <1>5
  <2>3. sawEmpty' \in [Threads -> BOOLEAN]
    BY <1>2, <1>3
  <2> QED
    BY <2>1, <2>2, <2>3
<1>7. /\ \A u \in Threads : sawEmpty[u] => sawEmpty'[u]
      /\ Len(popped') = Len(linked) => \A u \in Threads : sawEmpty'[u]
  BY <1>2, <1>3
<1> HIDE DEF k
<1>8. TypeOK'
  BY <1>2, <1>3, <1>6 DEF TypeOK, Labels
<1>9. Chain(c)'
  <2>1. k <= Len(linked) /\ Len(popped') <= Len(linked)
    BY <1>2, <1>4, <1>6
  <2>2. \A i \in 1..Len(linked) : i > k => i > Len(popped)
    BY <1>2 DEF k
  <2>3. \A i \in 1..Len(linked) : i > Len(popped') => elem'[c[i + 1]] = linked'[i]
    BY <1>1, <1>3, <1>6, <2>2 DEF Chain
  <2>4. head'.node = c[Len(popped') + 1] /\ head'.seq = Len(popped')
    BY <1>6
  <2> QED
    BY <1>1, <1>3, <2>1, <2>3, <2>4 DEF Chain, In
<1>10. /\ pc'[t] = "popCount" /\ \A u \in Threads : u # t => pc'[u] = pc[u]
       /\ \A v \in Threads : pc'[v] \in PushPlaces => pc[v] \in PushPlaces
  BY <1>2, <1>3 DEF PushPlaces
<1>11. ASSUME NEW u \in Threads
       PROVE  PushOK(c, u)' /\ PopOK(c, u)'
  <2>1. PushOK(c, u) /\ PopOK(c, u) /\ loc[u].seq \in Nat /\ head.seq \in Nat /\ k \in Nat
    BY <1>1, <1>2 DEF Threaded, Locals, TypeOK, k
  <2>2. CASE u # t
    <3>1. pc'[u] = pc[u] /\ loc'[u] = loc[u]
      BY <1>3, <1>10, <2>2
    <3>2. PushOK(c, u)'
      BY <1>3, <1>10, <2>1, <3>1 DEF PushOK, In, PushPlaces
    <3>3. PopOK(c, u)'
      <4>1. pc[u] \in PopPlaces \ {"popSeq"} => loc[u].seq <= head'.seq /\ loc[u].seq # head'.seq
        BY <1>6, <2>1 DEF PopOK
      <4>2. Anchored \subseteq PopPlaces \ {"popSeq"} /\ "popCheck" \in Anchored
            /\ "popSwap" \in Anchored
        BY DEF Anchored, PopPlaces
      <4>3. \A i \in 1..Len(popped) : i \in 1..Len(popped')
        BY <1>2, <1>6 DEF k
      <4>4. pc[u] \in Anchored => In(c, loc[u].node) /\ loc[u].seq # head'.seq
        BY <2>1, <4>1, <4>2 DEF PopOK
      <4> QED
        BY <1>3, <1>7, <2>1, <3>1, <4>1, <4>2, <4>3, <4>4 DEF PopOK, In
    <3> QED
      BY <3>2, <3>3
  <2>3. CASE u = t
    <3>1. k \in 1..Len(popped') /\ loc'[t].node = c[k]
      BY <1>3, <1>4, <1>6, <2>1
    <3>2. PushOK(c, t)'
      BY <1>10 DEF PushOK, PushPlaces
    <3>3. PopOK(c, t)'
      BY <1>10, <3>1 DEF PopOK, PopPlaces, Anchored
    <3> QED
      BY <2>3, <3>2, <3>3
  <2> QED
    BY <2>2, <2>3
<1> QED
  BY <1>8, <1>9, <1>11 DEF IInv, Threaded

\* Without recycling, the old dummy only takes the item that was popped.
LEMMA Frees ==
  ASSUME IInv, ~ Recycle, NEW t \in alive, FreeNode(t)
  PROVE  IInv'
PROOF
<1>1. PICK c \in Seq(Nodes) : Chain(c) /\ Threaded(c)
  BY DEF IInv
<1> DEFINE m == loc[t].node
<1>2. /\ TypeOK /\ t \in Threads /\ pc \in [Threads -> Labels] /\ loc \in [Threads -> Locals]
      /\ elem \in [Nodes -> Nat] /\ loc[t].elem \in Nat
      /\ Len(linked) \in Nat /\ Len(popped) \in Nat /\ Len(c) = Len(linked) + 1
      /\ Len(popped) <= Len(linked)
  <2>1. TypeOK /\ t \in Threads /\ loc[t] \in Locals
    BY DEF IInv, TypeOK
  <2>2. loc[t].elem \in Nat
    BY <2>1 DEF Locals
  <2> QED
    BY <1>1, <2>1, <2>2 DEF TypeOK, Chain
<1>3. /\ pc[t] = "popFree" /\ pc' = [pc EXCEPT ![t] = "idle"]
      /\ loc' = [loc EXCEPT ![t] = Blank]
      /\ elem' = [elem EXCEPT ![m] = loc[t].elem] /\ next' = next /\ free' = free
      /\ head' = head /\ tail' = tail /\ linked' = linked /\ popped' = popped
      /\ unused' = unused /\ sawEmpty' = sawEmpty /\ alive' = alive /\ pushes' = pushes
  BY DEF FreeNode, Goto, history
<1>4. PICK k \in 1..Len(popped) : m = c[k]
  BY <1>1, <1>2, <1>3 DEF Threaded, PopOK
<1>5. m \in Nodes /\ In(c, m) /\ k \in 1..Len(c)
  <2>1. k \in 1..Len(c)
    BY <1>2
  <2> QED
    BY <1>4, <2>1 DEF In
<1> HIDE DEF m
<1>6. \A x \in Nodes : x # m => elem'[x] = elem[x]
  BY <1>2, <1>3
<1>7. Blank \in Locals
  BY DEF Blank, Locals, NoItem
<1>8. TypeOK'
  BY <1>2, <1>3, <1>5, <1>7 DEF TypeOK, Labels
<1>9. Chain(c)'
  <2>1. ASSUME NEW i \in 1..Len(linked), i > Len(popped)
        PROVE  elem'[c[i + 1]] = linked[i]
    <3>1. i + 1 \in 1..Len(c) /\ i + 1 # k
      BY <1>2, <2>1
    <3>2. c[i + 1] \in Nodes /\ c[i + 1] # m
      BY <1>1, <1>4, <1>5, <3>1 DEF Chain
    <3> QED
      BY <1>1, <1>6, <2>1, <3>2 DEF Chain
  <2> QED
    BY <1>1, <1>3, <2>1 DEF Chain, In
<1>10. /\ pc'[t] = "idle"
       /\ \A u \in Threads : u # t => pc'[u] = pc[u] /\ loc'[u] = loc[u]
       /\ \A v \in Threads : pc'[v] \in PushPlaces => pc[v] \in PushPlaces /\ v # t
  BY <1>2, <1>3 DEF PushPlaces
<1>11. ASSUME NEW u \in Threads
       PROVE  PushOK(c, u)' /\ PopOK(c, u)'
  <2>1. PushOK(c, u) /\ PopOK(c, u)
    BY <1>1 DEF Threaded
  <2>2. CASE u # t
    <3>1. pc[u] \in PushPlaces => loc[u].new \in Nodes /\ loc[u].new # m
      BY <1>5, <2>1 DEF PushOK
    <3>2. PushOK(c, u)'
      BY <1>3, <1>6, <1>10, <2>1, <2>2, <3>1 DEF PushOK, In
    <3>3. PopOK(c, u)'
      BY <1>3, <1>10, <2>1, <2>2 DEF PopOK, In
    <3> QED
      BY <3>2, <3>3
  <2>3. CASE u = t
    BY <1>10, <2>3 DEF PushOK, PushPlaces, PopOK, PopPlaces, Anchored
  <2> QED
    BY <2>2, <2>3
<1> QED
  BY <1>8, <1>9, <1>11 DEF IInv, Threaded

----------------------------------------------------------------------------
(* The theorems.                                                           *)

LEMMA InitInv ==
  ASSUME Init
  PROVE  IInv
PROOF
<1>1. /\ Nodes # {} /\ head = [node |-> NewNode(Nodes), seq |-> 0] /\ tail = head
      /\ next = [n \in Nodes |-> IF n = head.node THEN End ELSE Null]
      /\ unused = Nodes \ {head.node} /\ linked = <<>> /\ popped = <<>>
      /\ pc = [t \in Threads |-> "idle"]
  BY PtrAssumption DEF Init
<1> DEFINE h == NewNode(Nodes)
<1>2. h \in Nodes
  BY <1>1 DEF NewNode
<1>3. head.node = h /\ head.seq = 0 /\ tail.node = h /\ head \in [node : Nodes, seq : Nat]
  BY <1>1, <1>2
<1> HIDE DEF h
<1>4. Blank \in Locals
  BY DEF Blank, Locals, NoItem
<1>5. TypeOK
  BY <1>3, <1>4, BoundAssumption DEF Init, TypeOK, Labels, NoItem
<1>a. <<h>> \in Seq(Nodes) /\ Len(<<h>>) = 1 /\ <<h>>[1] = h
  BY <1>2
<1>6. PICK c \in Seq(Nodes) : c = <<h>>
  BY <1>a, Zenon
<1>7. Len(c) = 1 /\ c[1] = h /\ Len(linked) = 0 /\ Len(popped) = 0
  BY <1>1, <1>6, <1>a
<1>8. Chain(c)
  <2>1. next[h] = End /\ h \in Nodes \ unused
    BY <1>1, <1>2, <1>3
  <2>2. In(c, h)
    BY <1>7 DEF In
  <2> QED
    BY <1>1, <1>2, <1>3, <1>7, <2>1, <2>2 DEF Chain
<1>9. Threaded(c)
  BY <1>1 DEF Threaded, PushOK, PopOK, PushPlaces, PopPlaces, Anchored
<1> QED
  BY <1>5, <1>8, <1>9 DEF IInv

LEMMA NextInv ==
  ASSUME IInv, ~ Recycle, Next
  PROVE  IInv'
PROOF
<1>1. PICK t \in alive : Run(t) \/ PushItem(t) \/ PopItem(t) \/ Suspend(t)
  BY DEF Next
<1>2. CASE Run(t)
  BY <1>2, PushReads, PopReads, PopChecks, TailMoves, CountSteps, ClosesItself, Links, Takes, Frees
    DEF Run
<1> QED
  BY <1>1, <1>2, StartsPush, StartsPop, PopChecks

LEMMA StutterInv ==
  ASSUME IInv, UNCHANGED vars
  PROVE  IInv'
PROOF
<1>1. /\ UNCHANGED <<pc, loc, pushes, alive, free>>
      /\ head' = head /\ tail' = tail /\ next' = next /\ elem' = elem /\ unused' = unused
      /\ linked' = linked /\ popped' = popped /\ sawEmpty' = sawEmpty
  BY DEF vars, shared, history
<1>2. PICK c \in Seq(Nodes) : Chain(c) /\ Threaded(c)
  BY DEF IInv
<1>3. TypeOK'
  BY <1>1 DEF IInv, TypeOK
<1>4. Chain(c)'
  BY <1>1, <1>2 DEF Chain, In
<1>5. Threaded(c)'
  BY <1>1, <1>2 DEF Threaded, PushOK, PopOK, In
<1> QED
  BY <1>3, <1>4, <1>5 DEF IInv

(* Without recycled nodes the queue is a chain of distinct nodes from the   *)
(* dummies of the past over the dummy to the last node linked, whose items  *)
(* are the items linked and not popped.                                     *)
THEOREM QueueIsChain ==
  ASSUME ~ Recycle
  PROVE  Spec => []IInv
PROOF
<1>1. Init => IInv
  BY InitInv
<1>2. IInv /\ [Next]_vars => IInv'
  BY NextInv, StutterInv
<1> QED
  BY <1>1, <1>2, PTL DEF Spec

----------------------------------------------------------------------------
(* The steps of the atomic queue.                                          *)

\* What is left of a sequence when one more item is appended.
LEMMA RestAppend ==
  ASSUME NEW S, NEW s \in Seq(S), NEW v \in S, NEW k \in 0..Len(s)
  PROVE  SubSeq(Append(s, v), k + 1, Len(s) + 1) = Append(SubSeq(s, k + 1, Len(s)), v)
PROOF
<1> DEFINE a == Append(s, v)
           r == SubSeq(s, k + 1, Len(s))
           q == SubSeq(a, k + 1, Len(s) + 1)
<1>1. Len(s) \in Nat /\ k \in Nat /\ k <= Len(s)
  OBVIOUS
<1>2. /\ a \in Seq(S) /\ Len(a) = Len(s) + 1 /\ a[Len(s) + 1] = v
      /\ \A i \in 1..Len(s) : a[i] = s[i]
  BY AppendProperties
<1>3. /\ r \in Seq(S) /\ Len(r) = Len(s) - k
      /\ \A i \in 1..Len(r) : r[i] = s[k + i]
  <2>1. \A i \in (k + 1)..Len(s) : s[i] \in S
    BY <1>1
  <2> QED
    BY <1>1, <2>1, SubSeqProperties
<1>4. /\ q \in Seq(S) /\ Len(q) = Len(s) + 1 - k
      /\ \A i \in 1..Len(q) : q[i] = a[k + i]
  <2>1. \A i \in (k + 1)..(Len(s) + 1) : a[i] \in S
    BY <1>1, <1>2
  <2> QED
    BY <1>1, <2>1, SubSeqProperties
<1> HIDE DEF a, r, q
<1>5. /\ Append(r, v) \in Seq(S) /\ Len(Append(r, v)) = Len(q)
      /\ \A i \in 1..Len(r) : Append(r, v)[i] = r[i]
      /\ Append(r, v)[Len(r) + 1] = v
  BY <1>1, <1>3, <1>4, AppendProperties
<1>6. ASSUME NEW i \in 1..Len(q)
      PROVE  q[i] = Append(r, v)[i]
  <2>1. CASE i \in 1..Len(r)
    <3>1. k + i \in 1..Len(s)
      BY <1>1, <1>3, <2>1
    <3> QED
      BY <1>2, <1>3, <1>4, <1>5, <2>1, <3>1
  <2>2. CASE i = Len(r) + 1
    <3>1. k + i = Len(s) + 1
      BY <1>1, <1>3, <2>2
    <3> QED
      BY <1>2, <1>4, <1>5, <2>2, <3>1
  <2> QED
    BY <1>1, <1>3, <1>4, <2>1, <2>2
<1>7. q = Append(r, v)
  BY <1>4, <1>5, <1>6, SeqEqual
<1> QED
  BY <1>7 DEF a, r, q

\* What is left of a sequence when one more item is taken.
LEMMA RestTail ==
  ASSUME NEW S, NEW s \in Seq(S), NEW k \in Nat, k < Len(s)
  PROVE  /\ SubSeq(s, k + 1, Len(s)) # <<>>
         /\ Head(SubSeq(s, k + 1, Len(s))) = s[k + 1]
         /\ Tail(SubSeq(s, k + 1, Len(s))) = SubSeq(s, k + 2, Len(s))
PROOF
<1> DEFINE r == SubSeq(s, k + 1, Len(s))
           q == SubSeq(s, k + 2, Len(s))
<1>1. Len(s) \in Nat /\ \A i \in 1..Len(s) : s[i] \in S
  OBVIOUS
<1>2. /\ r \in Seq(S) /\ Len(r) = Len(s) - k
      /\ \A i \in 1..Len(r) : r[i] = s[k + i]
  <2>1. \A i \in (k + 1)..Len(s) : s[i] \in S
    BY <1>1
  <2> QED
    BY <1>1, <2>1, SubSeqProperties
<1>3. /\ q \in Seq(S) /\ Len(q) = Len(s) - (k + 1)
      /\ \A i \in 1..Len(q) : q[i] = s[k + i + 1]
  <2>1. \A i \in (k + 2)..Len(s) : s[i] \in S
    BY <1>1
  <2> QED
    BY <1>1, <2>1, SubSeqProperties
<1> HIDE DEF r, q
<1>4. r # <<>> /\ 1 \in 1..Len(r)
  BY <1>1, <1>2
<1>5. Head(r) = r[1] /\ r[1] = s[k + 1]
  BY <1>2, <1>4
<1>6. /\ Tail(r) \in Seq(S) /\ Len(Tail(r)) = Len(r) - 1
      /\ \A i \in 1..Len(Tail(r)) : Tail(r)[i] = r[i + 1]
  BY <1>2, <1>4, HeadTailProperties
<1>7. ASSUME NEW i \in 1..Len(q)
      PROVE  Tail(r)[i] = q[i]
  <2>1. i \in 1..Len(Tail(r)) /\ i + 1 \in 1..Len(r) /\ k + (i + 1) = k + i + 1
    BY <1>1, <1>2, <1>3, <1>6
  <2> QED
    BY <1>2, <1>3, <1>6, <2>1
<1>8. Tail(r) = q
  <2>1. Len(Tail(r)) = Len(q)
    BY <1>1, <1>2, <1>3, <1>6
  <2> QED
    BY <1>3, <1>6, <1>7, <2>1, SeqEqual
<1> QED
  BY <1>4, <1>5, <1>8 DEF r, q

LEMMA StepOfQueue ==
  ASSUME IInv, Next
  PROVE  Q!Next
PROOF
<1>1. PICK t \in alive : Run(t) \/ PushItem(t) \/ PopItem(t) \/ Suspend(t)
  BY DEF Next
<1>2. /\ t \in Threads /\ TypeOK /\ linked \in Seq(Values)
      /\ Len(linked) \in Nat /\ Len(popped) \in Nat /\ Len(popped) <= Len(linked)
  BY DEF IInv, TypeOK, Chain
<1>3. ASSUME linked' = linked, popped' = popped
      PROVE  Remaining' = Remaining
  BY <1>3 DEF Remaining
<1>4. CASE LinkNode(t)
  <2>1. PICK c \in Seq(Nodes) : Chain(c) /\ Threaded(c)
    BY DEF IInv
  <2>2. elem[loc[t].new] \in Values
    BY <1>2, <1>4, <2>1 DEF LinkNode, Step, Threaded, PushOK, PushPlaces
  <2>3. /\ linked' = Append(linked, elem[loc[t].new]) /\ popped' = popped
        /\ ret' = <<>> /\ sawEmpty' = sawEmpty
    BY <1>4 DEF LinkNode, Step
  <2>4. Len(linked') = Len(linked) + 1 /\ Len(popped) \in 0..Len(linked)
    BY <1>2, <2>2, <2>3
  <2>5. Remaining' = Append(Remaining, elem[loc[t].new])
    BY <1>2, <2>2, <2>3, <2>4, RestAppend DEF Remaining
  <2>6. Q!Push
    BY <2>2, <2>3, <2>5 DEF Q!Push
  <2> QED
    BY <2>6 DEF Q!Next
<1>5. CASE TakeHead(t)
  <2>1. /\ popped' = Append(popped, loc[t].elem) /\ linked' = linked
        /\ ret' = <<t, loc[t].elem>>
        /\ sawEmpty' = [u \in Threads |-> sawEmpty[u] \/ Len(popped') = Len(linked)]
    BY <1>5 DEF TakeHead
  <2>2. Len(popped) < Len(linked) /\ loc[t].elem = linked[Len(popped) + 1]
    BY <1>2, <1>5, TakesFirst
  <2>3. Len(popped') = Len(popped) + 1
    <3>1. loc[t].elem \in Nat /\ popped \in Seq(Nat)
      BY <1>2 DEF TypeOK, Locals
    <3> QED
      BY <2>1, <3>1
  <2>4. /\ Remaining # <<>> /\ Head(Remaining) = loc[t].elem
        /\ Remaining' = Tail(Remaining)
    <3>1. Len(popped') + 1 = Len(popped) + 2
      BY <1>2, <2>3
    <3> QED
      BY <1>2, <2>1, <2>2, <3>1, RestTail DEF Remaining
  <2>5. Len(popped') = Len(linked) <=> Remaining' = <<>>
    <3>1. Remaining' = SubSeq(linked, Len(popped') + 1, Len(linked))
      BY <2>1 DEF Remaining
    <3>2. CASE Len(popped') = Len(linked)
      BY <1>2, <3>1, <3>2, SubSeqEmpty
    <3>3. CASE Len(popped') < Len(linked)
      <4>1. Remaining' # <<>>
        BY <1>2, <2>3, <3>1, <3>3, RestTail
      <4> QED
        BY <1>2, <2>3, <3>3, <4>1
    <3> QED
      BY <1>2, <2>2, <2>3, <3>2, <3>3
  <2>6. Q!Pop(t)
    BY <2>1, <2>4, <2>5 DEF Q!Pop
  <2> QED
    BY <1>2, <2>6 DEF Q!Next
<1>6. CASE PopItem(t)
  <2>1. Q!StartPop(t)
    BY <1>3, <1>6 DEF PopItem, Step, Q!StartPop
  <2> QED
    BY <1>2, <2>1 DEF Q!Next
<1>7. CASE PopEmpty(t)
  <2>1. sawEmpty[t]
    BY <1>2, <1>7 DEF IInv, PopEmpty, Threaded, PopOK
  <2>2. Q!FindEmpty(t)
    BY <1>3, <1>7, <2>1 DEF PopEmpty, history, Q!FindEmpty
  <2> QED
    BY <1>2, <2>2 DEF Q!Next
<1>8. ASSUME ret' = <<>>, linked' = linked, popped' = popped, sawEmpty' = sawEmpty
      PROVE  Q!Next
  BY <1>3, <1>8 DEF Q!Quiet, Q!Next
<1>9. CASE PushItem(t)
  BY <1>8, <1>9 DEF PushItem
<1>10. CASE Suspend(t)
  BY <1>8, <1>10 DEF Suspend, history
<1>11. CASE SetEnd(t) \/ ReadTailSeq(t) \/ ReadTailNode(t) \/ LinkFails(t) \/ ReadHelped(t)
            \/ HelpPush(t) \/ MoveTail(t) \/ CountUp(t)
  BY <1>8, <1>11 DEF SetEnd, ReadTailSeq, ReadTailNode, LinkFails, ReadHelped, HelpPush, MoveTail,
    CountUp, Step, Read, history
<1>12. CASE ReadHeadSeq(t) \/ ReadHeadNode(t) \/ ReadTailSequence(t) \/ ReadNext(t) \/ CheckSeq(t)
            \/ CheckTail(t) \/ HelpPop(t) \/ ReadElem(t)
  BY <1>8, <1>12 DEF ReadHeadSeq, ReadHeadNode, ReadTailSequence, ReadNext, CheckSeq, CheckTail,
    HelpPop, ReadElem, Step, Read, history
<1>13. CASE TakeFails(t) \/ CountDown(t) \/ FreeNode(t)
  BY <1>8, <1>13 DEF TakeFails, CountDown, FreeNode, Step, history
<1> QED
  BY <1>1, <1>4, <1>5, <1>6, <1>7, <1>9, <1>10, <1>11, <1>12, <1>13 DEF Run

(* CTSQueue whose nodes are not used again is an atomic queue: for any      *)
(* number of threads, wherever they are suspended, items come out in the    *)
(* order they were linked in, none is lost or comes out twice, and a Pop    *)
(* that answers NULL saw the queue empty.                                   *)
THEOREM QueueIsAtomic ==
  ASSUME ~ Recycle
  PROVE  Spec => ImplementsAtomicQueue
PROOF
<1>1. Init => Q!Init
  <2>1. Init => Remaining = <<>>
    BY SubSeqEmpty DEF Init, Remaining
  <2> QED
    BY <2>1 DEF Init, Q!Init
<1>2. IInv /\ [Next]_vars => [Q!Next]_Q!queueVars
  <2>1. UNCHANGED vars => UNCHANGED Q!queueVars
    BY DEF vars, history, Q!queueVars, Remaining
  <2> QED
    BY <2>1, StepOfQueue
<1> QED
  BY <1>1, <1>2, QueueIsChain, PTL DEF Spec, ImplementsAtomicQueue, Q!Spec

----------------------------------------------------------------------------
(* The invariant with recycled nodes.                                      *)

Types ==
  /\ head \in [node : Nodes, seq : Nat] /\ tail \in [node : Nodes, seq : Nat]
  /\ next \in [Nodes -> Nodes \cup {Null, End}] /\ elem \in [Nodes -> Nat]
  /\ free \in Seq(Nodes) /\ unused \subseteq Nodes
  /\ pc \in [Threads -> Labels] /\ loc \in [Threads -> Locals]
  /\ pushes \in Nat /\ popped \in Seq(Nat) /\ alive \subseteq Threads

\* The owner of the nodes that are in the queue.
Main == CHOOSE x : x \notin Threads

\* A node that PushItem took, before SetEnd; a thread that has taken the old dummy.
Open(n) == \E t \in Threads : pc[t] = "pushEnd" /\ loc[t].new = n
InHand(t) == pc[t] \in {"popCount", "popFree"}

\* The nodes P of the dummy and of the items are not free, not unused and nobody's.
Memory(P) ==
  /\ head.node \in P /\ P \subseteq Nodes \ unused
  /\ \A i \in 1..Len(free) : free[i] \notin P \cup unused
  /\ \A i, j \in 1..Len(free) : free[i] = free[j] => i = j
  /\ \A t \in Threads : InHand(t) =>
       /\ loc[t].node \in Nodes \ (P \cup unused)
       /\ \A i \in 1..Len(free) : free[i] # loc[t].node
       /\ \A u \in Threads : InHand(u) /\ loc[u].node = loc[t].node => u = t

\* They form lists, the queue and one for each thread that has a node to link.  A node
\* is in the list of its owner, at a depth of its own.
Lists(P, own, dep) ==
  /\ \A m, n \in P : own[m] = own[n] /\ dep[m] = dep[n] => m = n
  /\ \A n \in P : ~ Open(n) /\ next[n] # End =>
       next[n] \in P /\ own[next[n]] = own[n] /\ dep[next[n]] = dep[n] + 1
  /\ \A m, n \in P : own[m] = own[n] /\ next[n] = End => dep[m] <= dep[n]
  /\ \A n \in P : ~ Open(n) => \E e \in P : own[e] = own[n] /\ next[e] = End
  /\ \A n \in P : Open(n) => next[n] # End /\ \A m \in P : own[m] = own[n] => m = n
  /\ \A n \in Nodes \ P : next[n] # End

\* Where the lists begin, and that the tail is in the queue.
Begins(P, own, dep) ==
  /\ own[head.node] = Main /\ \A n \in P : own[n] = Main => dep[head.node] <= dep[n]
  /\ \A n \in P : own[n] # Main => own[n] \in Threads /\ pc[own[n]] \in PushPlaces
  /\ \A t \in Threads : pc[t] \in PushPlaces =>
       /\ loc[t].new \in P /\ own[loc[t].new] = t
       /\ \A n \in P : own[n] = t => dep[loc[t].new] <= dep[n]
  /\ tail.node \in P /\ own[tail.node] = Main

\* A thread about to link to a node that is in the list of another is above that one.
Ranked(P, own, rank) ==
  \A u \in Threads : pc[u] = "pushLink" /\ loc[u].node \in P /\ own[loc[u].node] # Main
                        => rank[own[loc[u].node]] < rank[u]

\* Every item pushed was popped, or is in one node.
Held(P) ==
  /\ \A n \in P \ {head.node} :
       /\ elem[n] \in 1..pushes
       /\ \A i \in 1..Len(popped) : popped[i] # elem[n]
       /\ \A m \in P \ {head.node} : elem[m] = elem[n] => m = n
  /\ \A i \in 1..Len(popped) : popped[i] \in 1..pushes
  /\ \A i, j \in 1..Len(popped) : popped[i] = popped[j] => i = j
  /\ \A v \in 1..pushes : \/ \E i \in 1..Len(popped) : popped[i] = v
                          \/ \E n \in P \ {head.node} : elem[n] = v

\* What a thread that pushes knows while the tail is what it read.
Linking == {"pushLink", "pushHelp", "pushHelpTail", "pushFinish"}
PushSees(u) ==
  /\ pc[u] \in {"pushNode"} \cup Linking => loc[u].seq <= tail.seq
  /\ pc[u] \in Linking =>
       loc[u].node \in Nodes /\ (loc[u].seq = tail.seq => loc[u].node = tail.node)
  /\ pc[u] = "pushHelp" /\ loc[u].seq = tail.seq => next[tail.node] # End
  /\ pc[u] = "pushHelpTail" /\ loc[u].seq = tail.seq =>
       loc[u].next # End /\ loc[u].next = next[tail.node]
  /\ pc[u] = "pushFinish" /\ loc[u].seq = tail.seq => loc[u].new = next[tail.node]

\* What a thread that pops knows while the head, or the tail, is what it read.
PopSees(u) ==
  /\ pc[u] \in PopPlaces \ {"popSeq"} => loc[u].seq <= head.seq
  /\ pc[u] \in Anchored =>
       loc[u].node \in Nodes /\ (loc[u].seq = head.seq => loc[u].node = head.node)
  /\ pc[u] \in {"popNext", "popCheck", "popTail", "popHelp"} => loc[u].tseq <= tail.seq
  /\ pc[u] \in {"popCheck", "popTail", "popHelp", "popElem", "popSwap"} /\ loc[u].seq = head.seq =>
       loc[u].next = End \/ loc[u].next = next[head.node]
  /\ /\ pc[u] \in {"popCheck", "popTail", "popHelp"}
     /\ loc[u].tseq = tail.seq /\ loc[u].node = tail.node
     => loc[u].next = End \/ loc[u].next = next[tail.node]
  /\ pc[u] \in {"popTail", "popHelp", "popElem", "popSwap"} => loc[u].next # Null
  /\ pc[u] \in {"popHelp", "popElem", "popSwap"} => loc[u].next # End
  /\ pc[u] \in {"popElem", "popSwap"} /\ loc[u].seq = head.seq => tail.node # head.node
  /\ pc[u] = "popSwap" /\ loc[u].seq = head.seq => loc[u].elem = elem[next[head.node]]

Woven(P, own, dep, rank) ==
  /\ P \in SUBSET Nodes /\ own \in [P -> Threads \cup {Main}] /\ dep \in [P -> Nat]
  /\ rank \in [Threads -> Nat]
  /\ Memory(P) /\ Lists(P, own, dep) /\ Begins(P, own, dep) /\ Ranked(P, own, rank) /\ Held(P)
  /\ \A u \in Threads : PushSees(u) /\ PopSees(u)

RInv == Types /\ \E P, own, dep, rank : Woven(P, own, dep, rank)

LEMMA MainIsNoThread == Main \notin Threads
<1>1. \E x : x \notin Threads
  BY NoSetContainsEverything
<1> QED
  BY <1>1 DEF Main

\* The dummy and the tail: no thread is about to close them, and what follows is in the
\* queue, behind.
LEMMA InQueue ==
  ASSUME NEW P, NEW own, NEW dep, NEW rank, Woven(P, own, dep, rank), Types,
         NEW n \in P, own[n] = Main
  PROVE  /\ ~ Open(n) /\ n \in Nodes
         /\ next[n] # End => /\ next[n] \in P /\ own[next[n]] = Main /\ next[n] # head.node
                             /\ next[n] \in Nodes /\ next[n] # n
<1>1. ~ Open(n)
  <2> SUFFICES ASSUME NEW t \in Threads, pc[t] = "pushEnd", loc[t].new = n PROVE FALSE
    BY DEF Open
  <2>1. own[n] = t
    BY DEF Woven, Begins, PushPlaces
  <2> QED
    BY <2>1, MainIsNoThread
<1>2. n \in Nodes /\ P \subseteq Nodes /\ dep \in [P -> Nat]
  BY DEF Woven
<1>3. ASSUME next[n] # End
      PROVE  /\ next[n] \in P /\ own[next[n]] = Main /\ next[n] # head.node
             /\ next[n] \in Nodes /\ next[n] # n
  <2>1. next[n] \in P /\ own[next[n]] = Main /\ dep[next[n]] = dep[n] + 1
    BY <1>1, <1>3 DEF Woven, Lists
  <2>2. dep[head.node] <= dep[n] /\ head.node \in P
    BY DEF Woven, Begins, Memory
  <2>3. dep[n] \in Nat /\ dep[head.node] \in Nat
    BY <1>2, <2>2
  <2> QED
    BY <1>2, <2>1, <2>2, <2>3
<1> QED
  BY <1>1, <1>2, <1>3

\* A step in which thread t reads, or moves the tail on.
LEMMA Aside ==
  ASSUME Types, Types', NEW P, NEW own, NEW dep, NEW rank, Woven(P, own, dep, rank),
         NEW t \in Threads,
         UNCHANGED <<head, next, elem, free, unused, pushes, popped>>,
         \/ tail' = tail
         \/ next[tail.node] # End /\ tail'.node = next[tail.node] /\ tail'.seq = tail.seq + 1,
         \A u \in Threads \ {t} : pc'[u] = pc[u] /\ loc'[u] = loc[u],
         pc'[t] \in PushPlaces <=> pc[t] \in PushPlaces,
         pc[t] \in PushPlaces => loc'[t].new = loc[t].new,
         pc'[t] = "pushEnd" <=> pc[t] = "pushEnd",
         InHand(t)' <=> InHand(t), InHand(t) => loc'[t].node = loc[t].node,
         pc'[t] = "pushLink" => loc'[t].node = tail.node,
         PushSees(t)', PopSees(t)'
  PROVE  RInv'
<1>1. /\ head' = head /\ next' = next /\ elem' = elem /\ free' = free /\ unused' = unused
      /\ pushes' = pushes /\ popped' = popped
  OBVIOUS
<1>2. \A n : Open(n)' <=> Open(n)
  <2> SUFFICES ASSUME NEW n PROVE Open(n)' <=> Open(n)
    OBVIOUS
  <2>1. \A u \in Threads : pc'[u] = "pushEnd" <=> pc[u] = "pushEnd"
    OBVIOUS
  <2>2. \A u \in Threads : pc[u] = "pushEnd" => loc'[u].new = loc[u].new
    BY DEF PushPlaces
  <2> QED
    BY <2>1, <2>2 DEF Open
<1>3. \A u \in Threads : /\ InHand(u)' <=> InHand(u)
                         /\ InHand(u) => loc'[u].node = loc[u].node
  BY DEF InHand
<1>4. /\ P \in SUBSET Nodes /\ own \in [P -> Threads \cup {Main}] /\ dep \in [P -> Nat]
      /\ rank \in [Threads -> Nat]
      /\ Memory(P) /\ Lists(P, own, dep) /\ Begins(P, own, dep) /\ Ranked(P, own, rank) /\ Held(P)
      /\ \A u \in Threads : PushSees(u) /\ PopSees(u)
  BY DEF Woven
<1>5. Memory(P)'
  BY <1>1, <1>3, <1>4 DEF Memory
<1>6. Lists(P, own, dep)'
  BY <1>1, <1>2, <1>4 DEF Lists
<1>7. Held(P)'
  BY <1>1, <1>4 DEF Held
<1>8. /\ tail.node \in P /\ own[tail.node] = Main /\ head.node \in P /\ own[head.node] = Main
      /\ tail.seq \in Nat /\ tail'.seq \in Nat /\ head.seq \in Nat
  BY <1>4 DEF Begins, Memory, Types
<1>9. /\ tail'.node \in P /\ own[tail'.node] = Main
      /\ tail'.seq >= tail.seq /\ (tail'.seq = tail.seq => tail' = tail)
      /\ tail' # tail => tail'.node # head.node
  <2>1. CASE tail' = tail
    BY <1>8, <2>1
  <2>2. CASE next[tail.node] # End /\ tail'.node = next[tail.node] /\ tail'.seq = tail.seq + 1
    BY <1>8, <2>2, InQueue
  <2> QED
    BY <2>1, <2>2
<1>10. \A u \in Threads : /\ pc'[u] \in PushPlaces <=> pc[u] \in PushPlaces
                          /\ pc[u] \in PushPlaces => loc'[u].new = loc[u].new
  OBVIOUS
<1>11. Begins(P, own, dep)'
  BY <1>1, <1>4, <1>9, <1>10 DEF Begins
<1>12. Ranked(P, own, rank)'
  <2> SUFFICES ASSUME NEW u \in Threads, pc'[u] = "pushLink", loc'[u].node \in P,
                      own[loc'[u].node] # Main
               PROVE  rank[own[loc'[u].node]] < rank[u]
    BY DEF Ranked
  <2>1. u # t
    BY <1>8
  <2> QED
    BY <1>4, <2>1 DEF Ranked
<1>13. ASSUME NEW u \in Threads
       PROVE  PushSees(u)' /\ PopSees(u)'
  <2>1. CASE u = t
    BY <2>1
  <2>2. CASE u # t
    <3>1. /\ pc'[u] = pc[u] /\ loc'[u] = loc[u] /\ PushSees(u) /\ PopSees(u)
          /\ loc[u].seq \in Nat /\ loc[u].tseq \in Nat
      BY <1>4, <2>2 DEF Types, Locals
    <3>2. PushSees(u)'
      BY <1>1, <1>8, <1>9, <3>1 DEF PushSees, Linking
    <3>3. PopSees(u)'
      BY <1>1, <1>8, <1>9, <3>1 DEF PopSees, PopPlaces, Anchored
    <3> QED
      BY <3>2, <3>3
  <2> QED
    BY <2>1, <2>2
<1>14. Woven(P, own, dep, rank)'
  BY <1>4, <1>5, <1>6, <1>7, <1>11, <1>12, <1>13 DEF Woven
<1> QED
  BY <1>14 DEF RInv

\* The same for a step of thread t to l, with r for its locals.
LEMMA AsideTo ==
  ASSUME Types, NEW P, NEW own, NEW dep, NEW rank, Woven(P, own, dep, rank),
         NEW t \in Threads, NEW l \in Labels, NEW r \in Locals,
         pc' = [pc EXCEPT ![t] = l], loc' = [loc EXCEPT ![t] = r],
         UNCHANGED <<head, next, elem, free, unused, pushes, popped, alive>>,
         \/ tail' = tail
         \/ /\ next[tail.node] # End /\ next[tail.node] = tail'.node /\ tail'.seq = tail.seq + 1
            /\ tail' \in [node : Nodes, seq : Nat],
         l \in PushPlaces <=> pc[t] \in PushPlaces,
         pc[t] \in PushPlaces => r.new = loc[t].new,
         l = "pushEnd" <=> pc[t] = "pushEnd",
         l \in {"popCount", "popFree"} <=> InHand(t), InHand(t) => r.node = loc[t].node,
         l = "pushLink" => r.node = tail.node,
         pc'[t] = l /\ loc'[t] = r => PushSees(t)' /\ PopSees(t)'
  PROVE  RInv'
<1>1. /\ pc \in [Threads -> Labels] /\ loc \in [Threads -> Locals]
      /\ tail \in [node : Nodes, seq : Nat]
  BY DEF Types
<1>2. /\ pc'[t] = l /\ loc'[t] = r
      /\ \A u \in Threads \ {t} : pc'[u] = pc[u] /\ loc'[u] = loc[u]
  BY <1>1
<1>3. Types'
  BY <1>1 DEF Types
<1>4. /\ InHand(t)' <=> InHand(t)
      /\ tail' = tail \/ (next[tail.node] # End /\ tail'.node = next[tail.node]
                          /\ tail'.seq = tail.seq + 1)
  BY <1>2 DEF InHand
<1> QED
  BY <1>2, <1>3, <1>4, Aside

\* What FinishPush does where its node follows the tail it compares with.
LEMMA Finishes ==
  ASSUME Types, NEW P, NEW own, NEW dep, NEW rank, Woven(P, own, dep, rank),
         NEW n, NEW old, FinishPush(n, old),
         tail = old => n # End /\ n = next[tail.node]
  PROVE  /\ tail.seq \in Nat
         /\ \/ tail' = tail
            \/ /\ next[tail.node] # End /\ next[tail.node] = tail'.node /\ tail'.seq = tail.seq + 1
               /\ tail' \in [node : Nodes, seq : Nat]
<1>1. tail.node \in P /\ own[tail.node] = Main /\ tail.seq \in Nat
  BY DEF Types, Woven, Begins
<1>2. CASE tail = old
  <2>1. n = next[tail.node] /\ n # End /\ n \in Nodes
    BY <1>1, <1>2, InQueue
  <2> QED
    BY <1>1, <1>2, <2>1 DEF FinishPush
<1> QED
  BY <1>1, <1>2 DEF FinishPush

LEMMA PushAside ==
  ASSUME RInv, NEW t \in alive,
         \/ ReadTailSeq(t) \/ ReadTailNode(t) \/ LinkFails(t) \/ ReadHelped(t)
         \/ HelpPush(t) \/ MoveTail(t) \/ CountUp(t)
  PROVE  RInv'
<1>1. PICK P, own, dep, rank : Woven(P, own, dep, rank)
  BY DEF RInv
<1>2. Types /\ t \in Threads /\ loc \in [Threads -> Locals]
  BY DEF RInv, Types
<1>3. /\ PushSees(t) /\ loc[t] \in Locals /\ tail.seq \in Nat /\ tail.node \in Nodes
      /\ tail \in [node : Nodes, seq : Nat] /\ tail = [node |-> tail.node, seq |-> tail.seq]
      /\ next \in [Nodes -> Nodes \cup {Null, End}]
      /\ [loc EXCEPT ![t] = loc[t]] = loc
  BY <1>1, <1>2 DEF Woven, Types
<1>4. /\ loc[t].new \in Nodes \cup {Null} /\ loc[t].node \in Nodes \cup {Null}
      /\ loc[t].next \in Nodes \cup {Null, End} /\ loc[t].seq \in Nat /\ loc[t].tseq \in Nat
      /\ loc[t].elem \in Nat
  BY <1>3 DEF Locals
<1>5. CASE ReadTailSeq(t)
  <2> DEFINE r == [Blank EXCEPT !.new = loc[t].new, !.seq = tail.seq]
  <2>1. /\ pc[t] = "pushSeq" /\ pc' = [pc EXCEPT ![t] = "pushNode"]
        /\ loc' = [loc EXCEPT ![t] = r] /\ tail' = tail
        /\ UNCHANGED <<head, next, elem, free, unused, pushes, popped, alive>>
    BY <1>5 DEF ReadTailSeq, Read, Goto, shared, history
  <2>2. r \in Locals /\ r.new = loc[t].new /\ r.seq = tail.seq
    BY <1>3, <1>4 DEF Blank, Locals, NoItem
  <2> HIDE DEF r
  <2>3. pc'[t] = "pushNode" /\ loc'[t] = r => PushSees(t)' /\ PopSees(t)'
    BY <1>3, <2>1, <2>2 DEF PushSees, PopSees, PopPlaces, Anchored, Linking
  <2> QED
    BY <1>1, <1>2, <2>1, <2>2, <2>3, AsideTo DEF PushPlaces, Labels, InHand
<1>6. CASE ReadTailNode(t)
  <2> DEFINE r == [loc[t] EXCEPT !.node = tail.node]
  <2>1. /\ pc[t] = "pushNode" /\ pc' = [pc EXCEPT ![t] = "pushLink"]
        /\ loc' = [loc EXCEPT ![t] = r] /\ tail' = tail
        /\ UNCHANGED <<head, next, elem, free, unused, pushes, popped, alive>>
    BY <1>6 DEF ReadTailNode, Read, Goto, shared, history
  <2>2. r \in Locals /\ r.new = loc[t].new /\ r.seq = loc[t].seq /\ r.node = tail.node
    BY <1>3, <1>4 DEF Locals
  <2> HIDE DEF r
  <2>3. pc'[t] = "pushLink" /\ loc'[t] = r => PushSees(t)' /\ PopSees(t)'
    BY <1>3, <2>1, <2>2 DEF PushSees, PopSees, PopPlaces, Anchored, Linking
  <2> QED
    BY <1>1, <1>2, <2>1, <2>2, <2>3, AsideTo DEF PushPlaces, Labels, InHand
<1>7. CASE LinkFails(t)
  <2>1. /\ pc[t] = "pushLink" /\ pc' = [pc EXCEPT ![t] = "pushHelp"] /\ next[loc[t].node] # End
        /\ loc' = [loc EXCEPT ![t] = loc[t]] /\ tail' = tail
        /\ UNCHANGED <<head, next, elem, free, unused, pushes, popped, alive>>
    BY <1>3, <1>7 DEF LinkFails, Step, Goto, shared, history
  <2>2. pc'[t] = "pushHelp" /\ loc'[t] = loc[t] => PushSees(t)' /\ PopSees(t)'
    BY <1>3, <2>1 DEF PushSees, PopSees, PopPlaces, Anchored, Linking
  <2> QED
    BY <1>1, <1>2, <1>3, <2>1, <2>2, AsideTo DEF PushPlaces, Labels, InHand
<1>8. CASE ReadHelped(t)
  <2> DEFINE r == [loc[t] EXCEPT !.next = next[loc[t].node]]
  <2>1. /\ pc[t] = "pushHelp" /\ pc' = [pc EXCEPT ![t] = "pushHelpTail"]
        /\ loc' = [loc EXCEPT ![t] = r] /\ tail' = tail
        /\ UNCHANGED <<head, next, elem, free, unused, pushes, popped, alive>>
    BY <1>8 DEF ReadHelped, Read, Goto, shared, history
  <2>2. /\ loc[t].node \in Nodes /\ loc[t].seq <= tail.seq
        /\ loc[t].seq = tail.seq => loc[t].node = tail.node /\ next[tail.node] # End
    BY <1>3, <2>1 DEF PushSees, Linking
  <2>3. /\ r \in Locals /\ r.new = loc[t].new /\ r.seq = loc[t].seq /\ r.node = loc[t].node
        /\ r.next = next[loc[t].node]
    BY <1>3, <1>4, <2>2 DEF Locals
  <2> HIDE DEF r
  <2>4. pc'[t] = "pushHelpTail" /\ loc'[t] = r => PushSees(t)' /\ PopSees(t)'
    BY <2>1, <2>2, <2>3 DEF PushSees, PopSees, PopPlaces, Anchored, Linking
  <2> QED
    BY <1>1, <1>2, <2>1, <2>3, <2>4, AsideTo DEF PushPlaces, Labels, InHand
<1>9. CASE HelpPush(t)
  <2>1. /\ pc[t] = "pushHelpTail" /\ pc' = [pc EXCEPT ![t] = "pushSeq"]
        /\ loc' = [loc EXCEPT ![t] = loc[t]] /\ FinishPush(loc[t].next, OldTail(t))
        /\ UNCHANGED <<head, next, elem, free, unused, pushes, popped, alive>>
    BY <1>3, <1>9 DEF HelpPush, Step, Goto, history
  <2>2. tail = OldTail(t) => loc[t].next # End /\ loc[t].next = next[tail.node]
    BY <1>3, <2>1 DEF PushSees, OldTail
  <2>3. \/ tail' = tail
        \/ /\ next[tail.node] # End /\ next[tail.node] = tail'.node /\ tail'.seq = tail.seq + 1
           /\ tail' \in [node : Nodes, seq : Nat]
    BY <1>1, <1>2, <2>1, <2>2, Finishes
  <2>4. pc'[t] = "pushSeq" /\ loc'[t] = loc[t] => PushSees(t)' /\ PopSees(t)'
    BY DEF PushSees, PopSees, PopPlaces, Anchored, Linking
  <2> QED
    BY <1>1, <1>2, <1>3, <2>1, <2>3, <2>4, AsideTo DEF PushPlaces, Labels, InHand
<1>10. CASE MoveTail(t)
  <2>1. /\ pc[t] = "pushFinish" /\ pc' = [pc EXCEPT ![t] = "pushCount"]
        /\ loc' = [loc EXCEPT ![t] = loc[t]] /\ FinishPush(loc[t].new, OldTail(t))
        /\ UNCHANGED <<head, next, elem, free, unused, pushes, popped, alive>>
    BY <1>3, <1>10 DEF MoveTail, Step, Goto, history
  <2>2. tail = OldTail(t) => loc[t].new # End /\ loc[t].new = next[tail.node]
    BY <1>3, <1>4, <2>1, PtrAssumption DEF PushSees, OldTail
  <2>3. \/ tail' = tail
        \/ /\ next[tail.node] # End /\ next[tail.node] = tail'.node /\ tail'.seq = tail.seq + 1
           /\ tail' \in [node : Nodes, seq : Nat]
    BY <1>1, <1>2, <2>1, <2>2, Finishes
  <2>4. pc'[t] = "pushCount" /\ loc'[t] = loc[t] => PushSees(t)' /\ PopSees(t)'
    BY DEF PushSees, PopSees, PopPlaces, Anchored, Linking
  <2> QED
    BY <1>1, <1>2, <1>3, <2>1, <2>3, <2>4, AsideTo DEF PushPlaces, Labels, InHand
<1>11. CASE CountUp(t)
  <2>1. /\ pc[t] = "pushCount" /\ pc' = [pc EXCEPT ![t] = "idle"]
        /\ loc' = [loc EXCEPT ![t] = Blank] /\ tail' = tail
        /\ UNCHANGED <<head, next, elem, free, unused, pushes, popped, alive>>
    BY <1>11 DEF CountUp, Goto, history
  <2>2. Blank \in Locals
    BY DEF Blank, Locals, NoItem
  <2>3. pc'[t] = "idle" /\ loc'[t] = Blank => PushSees(t)' /\ PopSees(t)'
    BY DEF PushSees, PopSees, PopPlaces, Anchored, Linking
  <2> QED
    BY <1>1, <1>2, <2>1, <2>2, <2>3, AsideTo DEF PushPlaces, Labels, InHand
<1> QED
  BY <1>5, <1>6, <1>7, <1>8, <1>9, <1>10, <1>11

LEMMA PopAside ==
  ASSUME RInv, NEW t \in alive,
         \/ ReadHeadSeq(t) \/ ReadHeadNode(t) \/ ReadTailSequence(t) \/ ReadNext(t) \/ CheckSeq(t)
         \/ CheckTail(t) \/ HelpPop(t) \/ ReadElem(t) \/ TakeFails(t)
  PROVE  RInv'
<1>1. PICK P, own, dep, rank : Woven(P, own, dep, rank)
  BY DEF RInv
<1>2. Types /\ t \in Threads /\ loc \in [Threads -> Locals]
  BY DEF RInv, Types
<1>3. /\ PopSees(t) /\ loc[t] \in Locals /\ tail.seq \in Nat /\ tail.node \in Nodes
      /\ head.seq \in Nat /\ head.node \in Nodes
      /\ tail = [node |-> tail.node, seq |-> tail.seq]
      /\ next \in [Nodes -> Nodes \cup {Null, End}] /\ elem \in [Nodes -> Nat]
      /\ [loc EXCEPT ![t] = loc[t]] = loc
  BY <1>1, <1>2 DEF Woven, Types
<1>4. /\ loc[t].new \in Nodes \cup {Null} /\ loc[t].node \in Nodes \cup {Null}
      /\ loc[t].next \in Nodes \cup {Null, End} /\ loc[t].seq \in Nat /\ loc[t].tseq \in Nat
      /\ loc[t].elem \in Nat
  BY <1>3 DEF Locals
<1>5. /\ own[head.node] = Main /\ head.node \in P /\ own[tail.node] = Main /\ tail.node \in P
  BY <1>1 DEF Woven, Begins, Memory
<1>6. CASE ReadHeadSeq(t)
  <2> DEFINE r == [Blank EXCEPT !.seq = head.seq]
  <2>1. /\ pc[t] = "popSeq" /\ pc' = [pc EXCEPT ![t] = "popNode"]
        /\ loc' = [loc EXCEPT ![t] = r] /\ tail' = tail
        /\ UNCHANGED <<head, next, elem, free, unused, pushes, popped, alive>>
    BY <1>6 DEF ReadHeadSeq, Read, Goto, shared, history
  <2>2. r \in Locals /\ r.seq = head.seq
    BY <1>3, <1>4 DEF Blank, Locals, NoItem
  <2> HIDE DEF r
  <2>3. pc'[t] = "popNode" /\ loc'[t] = r => PushSees(t)' /\ PopSees(t)'
    BY <1>3, <2>1, <2>2 DEF PushSees, PopSees, PopPlaces, Anchored, Linking
  <2> QED
    BY <1>1, <1>2, <2>1, <2>2, <2>3, AsideTo DEF PushPlaces, PopPlaces, Anchored, Labels, InHand
<1>7. CASE ReadHeadNode(t)
  <2> DEFINE r == [loc[t] EXCEPT !.node = head.node]
  <2>1. /\ pc[t] = "popNode" /\ pc' = [pc EXCEPT ![t] = "popTailSeq"]
        /\ loc' = [loc EXCEPT ![t] = r] /\ tail' = tail
        /\ UNCHANGED <<head, next, elem, free, unused, pushes, popped, alive>>
    BY <1>7 DEF ReadHeadNode, Read, Goto, shared, history
  <2>2. r \in Locals /\ r.seq = loc[t].seq /\ r.node = head.node
    BY <1>3, <1>4 DEF Locals
  <2> HIDE DEF r
  <2>3. pc'[t] = "popTailSeq" /\ loc'[t] = r => PushSees(t)' /\ PopSees(t)'
    BY <1>3, <2>1, <2>2 DEF PushSees, PopSees, PopPlaces, Anchored, Linking
  <2> QED
    BY <1>1, <1>2, <2>1, <2>2, <2>3, AsideTo DEF PushPlaces, PopPlaces, Anchored, Labels, InHand
<1>8. CASE ReadTailSequence(t)
  <2> DEFINE r == [loc[t] EXCEPT !.tseq = tail.seq]
  <2>1. /\ pc[t] = "popTailSeq" /\ pc' = [pc EXCEPT ![t] = "popNext"]
        /\ loc' = [loc EXCEPT ![t] = r] /\ tail' = tail
        /\ UNCHANGED <<head, next, elem, free, unused, pushes, popped, alive>>
    BY <1>8 DEF ReadTailSequence, Read, Goto, shared, history
  <2>2. r \in Locals /\ r.seq = loc[t].seq /\ r.node = loc[t].node /\ r.tseq = tail.seq
    BY <1>3, <1>4 DEF Locals
  <2> HIDE DEF r
  <2>3. pc'[t] = "popNext" /\ loc'[t] = r => PushSees(t)' /\ PopSees(t)'
    BY <1>3, <2>1, <2>2 DEF PushSees, PopSees, PopPlaces, Anchored, Linking
  <2> QED
    BY <1>1, <1>2, <2>1, <2>2, <2>3, AsideTo DEF PushPlaces, PopPlaces, Anchored, Labels, InHand
<1>9. CASE ReadNext(t)
  <2> DEFINE r == [loc[t] EXCEPT !.next = next[loc[t].node]]
  <2>1. /\ pc[t] = "popNext" /\ pc' = [pc EXCEPT ![t] = "popCheck"]
        /\ loc' = [loc EXCEPT ![t] = r] /\ tail' = tail
        /\ UNCHANGED <<head, next, elem, free, unused, pushes, popped, alive>>
    BY <1>9 DEF ReadNext, Read, Goto, shared, history
  <2>2. loc[t].node \in Nodes
    BY <1>3, <2>1 DEF PopSees, Anchored
  <2>3. /\ r \in Locals /\ r.seq = loc[t].seq /\ r.node = loc[t].node /\ r.tseq = loc[t].tseq
        /\ r.next = next[loc[t].node]
    BY <1>3, <1>4, <2>2 DEF Locals
  <2> HIDE DEF r
  <2>4. pc'[t] = "popCheck" /\ loc'[t] = r => PushSees(t)' /\ PopSees(t)'
    BY <1>3, <2>1, <2>3 DEF PushSees, PopSees, PopPlaces, Anchored, Linking
  <2> QED
    BY <1>1, <1>2, <2>1, <2>3, <2>4, AsideTo DEF PushPlaces, PopPlaces, Anchored, Labels, InHand
<1>10. CASE CheckSeq(t)
  <2> DEFINE l == IF loc[t].next = Null \/ loc[t].seq # head.seq THEN "popSeq" ELSE "popTail"
  <2>1. /\ pc[t] = "popCheck" /\ pc' = [pc EXCEPT ![t] = l]
        /\ loc' = [loc EXCEPT ![t] = loc[t]] /\ tail' = tail
        /\ UNCHANGED <<head, next, elem, free, unused, pushes, popped, alive>>
    BY <1>3, <1>10 DEF CheckSeq, Step, Goto, shared, history
  <2>2. l \in {"popSeq", "popTail"} /\ (l = "popTail" => loc[t].next # Null)
    OBVIOUS
  <2> HIDE DEF l
  <2>3. pc'[t] = l /\ loc'[t] = loc[t] => PushSees(t)' /\ PopSees(t)'
    BY <1>3, <2>1, <2>2 DEF PushSees, PopSees, PopPlaces, Anchored, Linking
  <2> QED
    BY <1>1, <1>2, <1>3, <2>1, <2>2, <2>3, AsideTo DEF PushPlaces, PopPlaces, Anchored, Labels, InHand
<1>11. CASE CheckTail(t)
  <2> DEFINE l == IF loc[t].node = tail.node THEN "popHelp"
                  ELSE IF loc[t].next # End THEN "popElem" ELSE "popSeq"
  <2>1. /\ pc[t] = "popTail" /\ pc' = [pc EXCEPT ![t] = l]
        /\ loc' = [loc EXCEPT ![t] = loc[t]] /\ tail' = tail
        /\ ~ (loc[t].node = tail.node /\ loc[t].next = End)
        /\ UNCHANGED <<head, next, elem, free, unused, pushes, popped, alive>>
    BY <1>3, <1>11 DEF CheckTail, Step, Goto, shared, history
  <2>2. /\ l \in {"popHelp", "popElem", "popSeq"}
        /\ l \in {"popHelp", "popElem"} => loc[t].next # End
        /\ l = "popElem" => loc[t].node # tail.node
    BY <2>1
  <2> HIDE DEF l
  <2>3. pc'[t] = l /\ loc'[t] = loc[t] => PushSees(t)'
    BY <2>2 DEF PushSees, Linking
  <2>4. pc'[t] = l /\ loc'[t] = loc[t] => PopSees(t)'
    <3>1. CASE l = "popHelp"
      BY <1>3, <2>1, <2>2, <3>1 DEF PopSees, PopPlaces, Anchored
    <3>2. CASE l = "popElem"
      BY <1>3, <2>1, <2>2, <3>2 DEF PopSees, PopPlaces, Anchored
    <3>3. CASE l = "popSeq"
      BY <3>3 DEF PopSees, PopPlaces, Anchored
    <3> QED
      BY <2>2, <3>1, <3>2, <3>3
  <2> QED
    BY <1>1, <1>2, <1>3, <2>1, <2>2, <2>3, <2>4, AsideTo
      DEF PushPlaces, PopPlaces, Anchored, Labels, InHand
<1>12. CASE HelpPop(t)
  <2> DEFINE old == [node |-> loc[t].node, seq |-> loc[t].tseq]
  <2>1. /\ pc[t] = "popHelp" /\ pc' = [pc EXCEPT ![t] = "popSeq"]
        /\ loc' = [loc EXCEPT ![t] = loc[t]] /\ FinishPush(loc[t].next, old)
        /\ UNCHANGED <<head, next, elem, free, unused, pushes, popped, alive>>
    BY <1>3, <1>12 DEF HelpPop, Step, Goto, history
  <2>2. tail = old => loc[t].next # End /\ loc[t].next = next[tail.node]
    BY <1>3, <2>1 DEF PopSees
  <2> HIDE DEF old
  <2>3. \/ tail' = tail
        \/ /\ next[tail.node] # End /\ next[tail.node] = tail'.node /\ tail'.seq = tail.seq + 1
           /\ tail' \in [node : Nodes, seq : Nat]
    BY <1>1, <1>2, <2>1, <2>2, Finishes
  <2>4. pc'[t] = "popSeq" /\ loc'[t] = loc[t] => PushSees(t)' /\ PopSees(t)'
    BY DEF PushSees, PopSees, PopPlaces, Anchored, Linking
  <2> QED
    BY <1>1, <1>2, <1>3, <2>1, <2>3, <2>4, AsideTo DEF PushPlaces, PopPlaces, Anchored, Labels, InHand
<1>13. CASE ReadElem(t)
  <2> DEFINE r == [loc[t] EXCEPT !.elem = elem[loc[t].next]]
  <2>1. /\ pc[t] = "popElem" /\ pc' = [pc EXCEPT ![t] = "popSwap"]
        /\ loc' = [loc EXCEPT ![t] = r] /\ tail' = tail
        /\ UNCHANGED <<head, next, elem, free, unused, pushes, popped, alive>>
    BY <1>13 DEF ReadElem, Read, Goto, shared, history
  <2>2. elem[loc[t].next] \in Nat
    <3>1. loc[t].next \in Nodes
      BY <1>3, <1>4, <2>1 DEF PopSees
    <3> QED
      BY <1>3, <3>1
  <2>3. /\ r \in Locals /\ r.seq = loc[t].seq /\ r.node = loc[t].node /\ r.next = loc[t].next
        /\ r.elem = elem[loc[t].next]
    BY <1>3, <1>4, <2>2 DEF Locals
  <2> HIDE DEF r
  <2>4. pc'[t] = "popSwap" /\ loc'[t] = r => PushSees(t)' /\ PopSees(t)'
    BY <1>3, <2>1, <2>3 DEF PushSees, PopSees, PopPlaces, Anchored, Linking
  <2> QED
    BY <1>1, <1>2, <2>1, <2>3, <2>4, AsideTo DEF PushPlaces, PopPlaces, Anchored, Labels, InHand
<1>14. CASE TakeFails(t)
  <2>1. /\ pc[t] = "popSwap" /\ pc' = [pc EXCEPT ![t] = "popSeq"]
        /\ loc' = [loc EXCEPT ![t] = loc[t]] /\ tail' = tail
        /\ UNCHANGED <<head, next, elem, free, unused, pushes, popped, alive>>
    BY <1>3, <1>14 DEF TakeFails, Step, Goto, shared, history
  <2>2. pc'[t] = "popSeq" /\ loc'[t] = loc[t] => PushSees(t)' /\ PopSees(t)'
    BY DEF PushSees, PopSees, PopPlaces, Anchored, Linking
  <2> QED
    BY <1>1, <1>2, <1>3, <2>1, <2>2, AsideTo DEF PushPlaces, PopPlaces, Anchored, Labels, InHand
<1> QED
  BY <1>6, <1>7, <1>8, <1>9, <1>10, <1>11, <1>12, <1>13, <1>14

\* A step that changes nothing of what the invariant is about.
LEMMA SameWoven ==
  ASSUME NEW P, NEW own, NEW dep, NEW rank, Woven(P, own, dep, rank),
         UNCHANGED <<head, tail, next, elem, free, unused, pc, loc, pushes, popped>>
  PROVE  Woven(P, own, dep, rank)'
<1>1. /\ P \in SUBSET Nodes /\ own \in [P -> Threads \cup {Main}] /\ dep \in [P -> Nat]
      /\ rank \in [Threads -> Nat]
      /\ Memory(P) /\ Lists(P, own, dep) /\ Begins(P, own, dep) /\ Ranked(P, own, rank) /\ Held(P)
      /\ \A u \in Threads : PushSees(u) /\ PopSees(u)
  BY DEF Woven
<1>2. \A n : Open(n)' <=> Open(n)
  BY DEF Open
<1>3. Memory(P)'
  BY <1>1 DEF Memory, InHand
<1>4. Lists(P, own, dep)'
  BY <1>1, <1>2 DEF Lists
<1>5. Begins(P, own, dep)'
  BY <1>1 DEF Begins
<1>6. Ranked(P, own, rank)'
  BY <1>1 DEF Ranked
<1>7. Held(P)'
  BY <1>1 DEF Held
<1>8. ASSUME NEW u \in Threads
      PROVE  PushSees(u)' /\ PopSees(u)'
  <2>1. PushSees(u)'
    BY <1>1 DEF PushSees
  <2>2. PopSees(u)'
    BY <1>1 DEF PopSees
  <2> QED
    BY <2>1, <2>2
<1> QED
  BY <1>1, <1>3, <1>4, <1>5, <1>6, <1>7, <1>8 DEF Woven

LEMMA OtherAside ==
  ASSUME RInv, NEW t \in alive, PopItem(t) \/ PopEmpty(t) \/ CountDown(t) \/ Suspend(t)
  PROVE  RInv'
<1>1. PICK P, own, dep, rank : Woven(P, own, dep, rank)
  BY DEF RInv
<1>2. Types /\ t \in Threads /\ loc \in [Threads -> Locals]
  BY DEF RInv, Types
<1>3. loc[t] \in Locals /\ [loc EXCEPT ![t] = loc[t]] = loc
  BY <1>2
<1>4. CASE PopItem(t)
  <2>1. /\ pc[t] = "idle" /\ pc' = [pc EXCEPT ![t] = "popSeq"]
        /\ loc' = [loc EXCEPT ![t] = loc[t]] /\ tail' = tail
        /\ UNCHANGED <<head, next, elem, free, unused, pushes, popped, alive>>
    BY <1>3, <1>4 DEF PopItem, Step, Goto, shared
  <2>2. pc'[t] = "popSeq" /\ loc'[t] = loc[t] => PushSees(t)' /\ PopSees(t)'
    BY DEF PushSees, PopSees, PopPlaces, Anchored, Linking
  <2> QED
    BY <1>1, <1>2, <1>3, <2>1, <2>2, AsideTo DEF PushPlaces, PopPlaces, Anchored, Labels, InHand
<1>5. CASE PopEmpty(t)
  <2>1. /\ pc[t] = "popTail" /\ pc' = [pc EXCEPT ![t] = "idle"]
        /\ loc' = [loc EXCEPT ![t] = Blank] /\ tail' = tail
        /\ UNCHANGED <<head, next, elem, free, unused, pushes, popped, alive>>
    BY <1>5 DEF PopEmpty, Goto, shared, history
  <2>2. Blank \in Locals
    BY DEF Blank, Locals, NoItem
  <2>3. pc'[t] = "idle" /\ loc'[t] = Blank => PushSees(t)' /\ PopSees(t)'
    BY DEF PushSees, PopSees, PopPlaces, Anchored, Linking
  <2> QED
    BY <1>1, <1>2, <2>1, <2>2, <2>3, AsideTo DEF PushPlaces, Labels, InHand
<1>6. CASE CountDown(t)
  <2>1. /\ pc[t] = "popCount" /\ pc' = [pc EXCEPT ![t] = "popFree"]
        /\ loc' = [loc EXCEPT ![t] = loc[t]] /\ tail' = tail
        /\ UNCHANGED <<head, next, elem, free, unused, pushes, popped, alive>>
    BY <1>3, <1>6 DEF CountDown, Step, Goto, history
  <2>2. pc'[t] = "popFree" /\ loc'[t] = loc[t] => PushSees(t)' /\ PopSees(t)'
    BY DEF PushSees, PopSees, PopPlaces, Anchored, Linking
  <2> QED
    BY <1>1, <1>2, <1>3, <2>1, <2>2, AsideTo DEF PushPlaces, Labels, InHand
<1>7. CASE Suspend(t)
  <2>1. /\ UNCHANGED <<head, tail, next, elem, free, unused, pushes, popped, pc, loc>>
        /\ alive' \subseteq Threads
    BY <1>2, <1>7 DEF Suspend, shared, history, Types
  <2>2. Types'
    BY <1>2, <2>1 DEF Types
  <2>3. Woven(P, own, dep, rank)'
    BY <1>1, <2>1, SameWoven
  <2> QED
    BY <2>2, <2>3 DEF RInv
<1> QED
  BY <1>4, <1>5, <1>6, <1>7

----------------------------------------------------------------------------
(* The steps that change nodes.                                            *)

\* What another thread knows survives what changes no node that is closed off in the queue.
LEMMA SeesKept ==
  ASSUME Types, NEW u \in Threads, PushSees(u), PopSees(u), pc'[u] = pc[u], loc'[u] = loc[u],
         head' = head, tail' = tail,
         \A n \in {head.node, tail.node} : next[n] # End => next'[n] = next[n],
         next[head.node] # End => elem'[next[head.node]] = elem[next[head.node]]
  PROVE  PushSees(u)' /\ PopSees(u)'
<1>1. loc[u] \in Locals
  BY DEF Types
<1>2. loc[u].new \in Nodes \cup {Null}
  BY <1>1 DEF Locals
<1>3. PushSees(u)'
  BY <1>2, PtrAssumption DEF PushSees, Linking
<1>4. PopSees(u)'
  <2>1. pc[u] \in {"popElem", "popSwap"} /\ loc[u].seq = head.seq => next[head.node] # End
    BY DEF PopSees
  <2> QED
    BY <2>1 DEF PopSees, PopPlaces, Anchored
<1> QED
  BY <1>3, <1>4

\* The free list without its first node.
LEMMA TailFacts ==
  ASSUME NEW S, NEW s \in Seq(S), s # << >>
  PROVE  /\ Head(s) \in S /\ Head(s) = s[1] /\ 1 \in 1..Len(s)
         /\ Tail(s) \in Seq(S) /\ Len(Tail(s)) = Len(s) - 1
         /\ \A i \in 1..Len(Tail(s)) : Tail(s)[i] = s[i + 1] /\ i + 1 \in 1..Len(s) /\ i + 1 # 1
<1>1. Len(s) \in Nat /\ Len(s) # 0
  BY EmptySeq
<1>2. Tail(s) \in Seq(S) /\ Len(Tail(s)) = Len(s) - 1 /\ \A i \in 1..Len(s) - 1 : Tail(s)[i] = s[i + 1]
  BY HeadTailProperties
<1> QED
  BY <1>1, <1>2

LEMMA Starts ==
  ASSUME RInv, NEW t \in alive, PushItem(t)
  PROVE  RInv'
<1>1. PICK P, own, dep, rank : Woven(P, own, dep, rank)
  BY DEF RInv
<1>2. Types /\ t \in Threads /\ pc[t] = "idle"
  BY DEF RInv, Types, PushItem
<1>3. PICK n : n = IF free = << >> THEN NewNode(unused) ELSE Head(free)
  OBVIOUS
<1>4. PICK r : r = [Blank EXCEPT !.new = n]
  OBVIOUS
<1>5. /\ free # << >> \/ unused # {}
      /\ loc' = [loc EXCEPT ![t] = r] /\ elem' = [elem EXCEPT ![n] = pushes + 1]
      /\ free' = (IF free = << >> THEN free ELSE Tail(free)) /\ unused' = unused \ {n}
      /\ pushes' = pushes + 1 /\ pc' = [pc EXCEPT ![t] = "pushEnd"]
      /\ head' = head /\ tail' = tail /\ next' = next /\ popped' = popped /\ alive' = alive
  BY <1>3, <1>4 DEF PushItem, Goto
<1>6. /\ P \in SUBSET Nodes /\ own \in [P -> Threads \cup {Main}] /\ dep \in [P -> Nat]
      /\ rank \in [Threads -> Nat]
      /\ Memory(P) /\ Lists(P, own, dep) /\ Begins(P, own, dep) /\ Ranked(P, own, rank) /\ Held(P)
      /\ \A u \in Threads : PushSees(u) /\ PopSees(u)
  BY <1>1 DEF Woven
<1>7. /\ free \in Seq(Nodes) /\ unused \subseteq Nodes /\ pc \in [Threads -> Labels]
      /\ loc \in [Threads -> Locals] /\ elem \in [Nodes -> Nat] /\ pushes \in Nat
      /\ next \in [Nodes -> Nodes \cup {Null, End}]
  BY <1>2 DEF Types
<1>8. /\ n \in Nodes \ P /\ n # head.node /\ next[n] # End
      /\ \A u \in Threads : InHand(u) => loc[u].node # n
      /\ free' \in Seq(Nodes) /\ \A i \in 1..Len(free') : free'[i] # n
      /\ \A i \in 1..Len(free') : \E j \in 1..Len(free) : free'[i] = free[j]
      /\ \A i, j \in 1..Len(free') : free'[i] = free'[j] => i = j
  <2>1. CASE free = << >>
    <3>1. n \in unused
      BY <1>3, <1>5, <2>1 DEF NewNode
    <3>2. free' = free /\ Len(free) = 0
      BY <1>5, <2>1
    <3> QED
      BY <1>6, <1>7, <3>1, <3>2 DEF Memory, Lists
  <2>2. CASE free # << >>
    <3>1. /\ n = free[1] /\ n \in Nodes /\ 1 \in 1..Len(free) /\ free' \in Seq(Nodes)
          /\ \A i \in 1..Len(free') : free'[i] = free[i + 1] /\ i + 1 \in 1..Len(free) /\ i + 1 # 1
      BY <1>3, <1>5, <1>7, <2>2, TailFacts
    <3>2. \A i, j \in 1..Len(free') : free'[i] = free'[j] => i = j
      <4> SUFFICES ASSUME NEW i \in 1..Len(free'), NEW j \in 1..Len(free'), free'[i] = free'[j]
                   PROVE  i = j
        OBVIOUS
      <4>1. i + 1 = j + 1
        BY <1>6, <3>1 DEF Memory
      <4> QED
        BY <3>1, <4>1
    <3>3. n \notin P /\ \A u \in Threads : InHand(u) => loc[u].node # n
      BY <1>6, <3>1 DEF Memory
    <3>4. \A i \in 1..Len(free') : free'[i] # n
      BY <1>6, <3>1 DEF Memory
    <3>5. n # head.node /\ next[n] # End
      BY <1>6, <3>1, <3>3 DEF Memory, Lists
    <3> QED
      BY <3>1, <3>2, <3>3, <3>4, <3>5
  <2> QED
    BY <2>1, <2>2
<1>9. /\ r \in Locals /\ r.new = n
  BY <1>4, <1>8 DEF Blank, Locals, NoItem
<1>10. /\ pc'[t] = "pushEnd" /\ loc'[t] = r
       /\ \A u \in Threads \ {t} : pc'[u] = pc[u] /\ loc'[u] = loc[u]
       /\ elem' \in [Nodes -> Nat] /\ elem'[n] = pushes + 1
       /\ \A m \in Nodes \ {n} : elem'[m] = elem[m]
       /\ pc' \in [Threads -> Labels] /\ loc' \in [Threads -> Locals]
  BY <1>2, <1>5, <1>7, <1>8, <1>9 DEF Labels, PushPlaces
<1>11. Types'
  BY <1>2, <1>5, <1>7, <1>8, <1>10 DEF Types
<1>12. PICK P2 : P2 = P \cup {n}
  OBVIOUS
<1>13. PICK own2 : own2 = [m \in P2 |-> IF m = n THEN t ELSE own[m]]
  OBVIOUS
<1>14. PICK dep2 : dep2 = [m \in P2 |-> IF m = n THEN 0 ELSE dep[m]]
  OBVIOUS
<1>15. PICK rank2 : rank2 = [u \in Threads |-> IF u = t THEN 0 ELSE rank[u] + 1]
  OBVIOUS
<1>16. /\ P2 \in SUBSET Nodes /\ own2 \in [P2 -> Threads \cup {Main}] /\ dep2 \in [P2 -> Nat]
       /\ rank2 \in [Threads -> Nat]
       /\ n \in P2 /\ own2[n] = t /\ dep2[n] = 0
       /\ \A m \in P : m \in P2 /\ m # n /\ own2[m] = own[m] /\ dep2[m] = dep[m] /\ own[m] # t
       /\ \A m \in P2 : m \in P \/ m = n
  <2>1. \A m \in P : own[m] # t
    BY <1>2, <1>6, MainIsNoThread DEF Begins, PushPlaces
  <2>2. /\ P2 \in SUBSET Nodes /\ \A m \in P : m \in P2 /\ m # n
        /\ n \in P2 /\ \A m \in P2 : m \in P \/ m = n
    BY <1>6, <1>8, <1>12
  <2>3. own2 \in [P2 -> Threads \cup {Main}] /\ own2[n] = t /\ \A m \in P : own2[m] = own[m]
    BY <1>2, <1>6, <1>13, <2>2
  <2>4. dep2 \in [P2 -> Nat] /\ dep2[n] = 0 /\ \A m \in P : dep2[m] = dep[m]
    BY <1>6, <1>14, <2>2
  <2>5. rank2 \in [Threads -> Nat]
    BY <1>6, <1>15
  <2> QED
    BY <2>1, <2>2, <2>3, <2>4, <2>5
<1>17. Open(n)' /\ \A m \in P : Open(m)' <=> Open(m)
  <2>1. Open(n)'
    BY <1>2, <1>9, <1>10 DEF Open
  <2>2. ASSUME NEW m \in P
        PROVE  Open(m)' <=> Open(m)
    <3>1. m # n
      BY <1>16
    <3>2. \A u \in Threads : pc'[u] = "pushEnd" /\ loc'[u].new = m <=> pc[u] = "pushEnd" /\ loc[u].new = m
      BY <1>2, <1>9, <1>10, <3>1
    <3> QED
      BY <3>2 DEF Open
  <2> QED
    BY <2>1, <2>2
<1>18. \A u \in Threads : (InHand(u)' <=> InHand(u)) /\ (InHand(u) => loc'[u] = loc[u])
  BY <1>2, <1>10 DEF InHand
<1>19. Memory(P2)'
  <2>1. head.node \in P2 /\ P2 \subseteq Nodes \ unused'
    BY <1>5, <1>6, <1>8, <1>12 DEF Memory
  <2>2. \A i \in 1..Len(free') : free'[i] \notin P2 \cup unused'
    BY <1>5, <1>6, <1>8, <1>12 DEF Memory
  <2>3. ASSUME NEW u \in Threads, InHand(u)
        PROVE  /\ loc[u].node \in Nodes \ (P2 \cup unused')
               /\ \A i \in 1..Len(free') : free'[i] # loc[u].node
               /\ \A v \in Threads : InHand(v) /\ loc[v].node = loc[u].node => v = u
    BY <1>5, <1>6, <1>8, <1>12, <2>3 DEF Memory
  <2>4. ASSUME NEW u \in Threads, InHand(u)'
        PROVE  /\ loc'[u].node \in Nodes \ (P2 \cup unused')
               /\ \A i \in 1..Len(free') : free'[i] # loc'[u].node
               /\ \A v \in Threads : InHand(v)' /\ loc'[v].node = loc'[u].node => v = u
    BY <1>18, <2>3, <2>4
  <2>5. head'.node \in P2
    BY <1>5, <2>1
  <2> QED
    BY <1>8, <2>1, <2>2, <2>4, <2>5 DEF Memory
<1>20. Lists(P2, own2, dep2)'
  <2>1. /\ \A m, k \in P : own[m] = own[k] /\ dep[m] = dep[k] => m = k
        /\ \A m \in P : ~ Open(m) /\ next[m] # End =>
             next[m] \in P /\ own[next[m]] = own[m] /\ dep[next[m]] = dep[m] + 1
        /\ \A m, k \in P : own[m] = own[k] /\ next[k] = End => dep[m] <= dep[k]
        /\ \A m \in P : ~ Open(m) => \E e \in P : own[e] = own[m] /\ next[e] = End
        /\ \A m \in P : Open(m) => next[m] # End /\ \A k \in P : own[k] = own[m] => k = m
        /\ \A m \in Nodes \ P : next[m] # End
    BY <1>6 DEF Lists
  <2>2. \A m, k \in P2 : own2[m] = own2[k] /\ dep2[m] = dep2[k] => m = k
    BY <1>16, <2>1
  <2>3. \A m \in P2 : ~ Open(m)' /\ next[m] # End =>
           next[m] \in P2 /\ own2[next[m]] = own2[m] /\ dep2[next[m]] = dep2[m] + 1
    BY <1>16, <1>17, <2>1
  <2>4. \A m, k \in P2 : own2[m] = own2[k] /\ next[k] = End => dep2[m] <= dep2[k]
    BY <1>8, <1>16, <2>1
  <2>5. \A m \in P2 : ~ Open(m)' => \E e \in P2 : own2[e] = own2[m] /\ next[e] = End
    BY <1>16, <1>17, <2>1
  <2>6. \A m \in P2 : Open(m)' => next[m] # End /\ \A k \in P2 : own2[k] = own2[m] => k = m
    BY <1>8, <1>16, <1>17, <2>1
  <2>7. \A m \in Nodes \ P2 : next[m] # End
    BY <1>16, <2>1
  <2> QED
    BY <1>5, <2>2, <2>3, <2>4, <2>5, <2>6, <2>7 DEF Lists
<1>21. Begins(P2, own2, dep2)'
  <2>1. head.node \in P /\ tail.node \in P
    BY <1>6 DEF Memory, Begins
  <2>2. own2[head.node] = Main /\ \A m \in P2 : own2[m] = Main => dep2[head.node] <= dep2[m]
    BY <1>2, <1>6, <1>16, <2>1, MainIsNoThread DEF Begins
  <2>3. \A m \in P2 : own2[m] # Main => own2[m] \in Threads /\ pc'[own2[m]] \in PushPlaces
    BY <1>2, <1>6, <1>10, <1>16 DEF Begins, PushPlaces
  <2>4. ASSUME NEW u \in Threads, pc'[u] \in PushPlaces
        PROVE  /\ loc'[u].new \in P2 /\ own2[loc'[u].new] = u
               /\ \A m \in P2 : own2[m] = u => dep2[loc'[u].new] <= dep2[m]
    <3>1. CASE u = t
      BY <1>9, <1>10, <1>16, <3>1
    <3>2. CASE u # t
      <4>1. /\ pc[u] \in PushPlaces /\ loc'[u].new = loc[u].new
            /\ loc[u].new \in P /\ own[loc[u].new] = u
            /\ \A m \in P : own[m] = u => dep[loc[u].new] <= dep[m]
        BY <1>6, <1>10, <2>4, <3>2 DEF Begins
      <4> QED
        BY <1>16, <3>2, <4>1
    <3> QED
      BY <3>1, <3>2
  <2>5. tail.node \in P2 /\ own2[tail.node] = Main
    BY <1>6, <1>16, <2>1 DEF Begins
  <2> QED
    BY <1>5, <2>2, <2>3, <2>4, <2>5 DEF Begins
<1>22. Ranked(P2, own2, rank2)'
  <2> SUFFICES ASSUME NEW u \in Threads, pc'[u] = "pushLink", loc'[u].node \in P2,
                      own2[loc'[u].node] # Main
               PROVE  rank2[own2[loc'[u].node]] < rank2[u]
    BY DEF Ranked
  <2>1. u # t /\ pc[u] = "pushLink" /\ loc'[u] = loc[u]
    BY <1>10
  <2>2. rank2[u] = rank[u] + 1 /\ rank[u] \in Nat /\ rank2[t] = 0
    BY <1>2, <1>6, <1>15, <2>1
  <2>3. CASE loc[u].node = n
    BY <1>16, <2>1, <2>2, <2>3
  <2>4. CASE loc[u].node \in P
    <3>1. /\ own2[loc[u].node] = own[loc[u].node] /\ own[loc[u].node] # t
          /\ own[loc[u].node] \in Threads
      BY <1>6, <1>16, <2>1, <2>4
    <3>2. rank[own[loc[u].node]] < rank[u]
      BY <1>6, <2>1, <2>4, <3>1 DEF Ranked
    <3>3. rank2[own[loc[u].node]] = rank[own[loc[u].node]] + 1 /\ rank[own[loc[u].node]] \in Nat
      BY <1>6, <1>15, <3>1
    <3> QED
      BY <2>1, <2>2, <3>1, <3>2, <3>3
  <2> QED
    BY <1>16, <2>1, <2>3, <2>4
<1>23. Held(P2)'
  <2>1. /\ \A m \in P \ {head.node} :
             /\ elem[m] \in 1..pushes
             /\ \A i \in 1..Len(popped) : popped[i] # elem[m]
             /\ \A k \in P \ {head.node} : elem[k] = elem[m] => k = m
        /\ \A i \in 1..Len(popped) : popped[i] \in 1..pushes
        /\ \A i, j \in 1..Len(popped) : popped[i] = popped[j] => i = j
        /\ \A v \in 1..pushes : \/ \E i \in 1..Len(popped) : popped[i] = v
                                \/ \E m \in P \ {head.node} : elem[m] = v
    BY <1>6 DEF Held
  <2>2. /\ \A m \in P : elem'[m] = elem[m] /\ m \in P2
        /\ \A m \in P2 \ {head.node} : m \in P \ {head.node} \/ m = n
        /\ n \in P2 \ {head.node} /\ elem'[n] = pushes + 1
    BY <1>6, <1>8, <1>10, <1>16
  <2>3. /\ \A v \in 1..pushes : v \in 1..pushes + 1 /\ v # pushes + 1
        /\ \A v \in 1..pushes + 1 : v \in 1..pushes \/ v = pushes + 1
        /\ pushes + 1 \in 1..pushes + 1
    BY <1>7
  <2>4. ASSUME NEW m \in P2 \ {head.node}
        PROVE  /\ elem'[m] \in 1..pushes + 1
               /\ \A i \in 1..Len(popped) : popped[i] # elem'[m]
               /\ \A k \in P2 \ {head.node} : elem'[k] = elem'[m] => k = m
    BY <2>1, <2>2, <2>3
  <2>5. \A i \in 1..Len(popped) : popped[i] \in 1..pushes + 1
    BY <2>1, <2>3
  <2>6. \A v \in 1..pushes + 1 : \/ \E i \in 1..Len(popped) : popped[i] = v
                                 \/ \E m \in P2 \ {head.node} : elem'[m] = v
    BY <2>1, <2>2, <2>3
  <2> QED
    BY <1>5, <2>1, <2>4, <2>5, <2>6 DEF Held
<1>24. ASSUME NEW u \in Threads
       PROVE  PushSees(u)' /\ PopSees(u)'
  <2>1. CASE u = t
    BY <1>10, <2>1 DEF PushSees, PopSees, PopPlaces, Anchored, Linking
  <2>2. CASE u # t
    <3>1. next[head.node] # End => elem'[next[head.node]] = elem[next[head.node]]
      <4>1. head.node \in P /\ own[head.node] = Main
        BY <1>6 DEF Memory, Begins
      <4>2. next[head.node] # End => next[head.node] \in P /\ next[head.node] \in Nodes
        BY <1>1, <1>2, <4>1, InQueue
      <4> QED
        BY <1>8, <1>10, <4>2
    <3> QED
      BY <1>2, <1>5, <1>6, <1>10, <2>2, <3>1, SeesKept
  <2> QED
    BY <2>1, <2>2
<1>25. Woven(P2, own2, dep2, rank2)'
  BY <1>16, <1>19, <1>20, <1>21, <1>22, <1>23, <1>24 DEF Woven
<1> QED
  BY <1>11, <1>25 DEF RInv

LEMMA Closes ==
  ASSUME RInv, NEW t \in alive, SetEnd(t)
  PROVE  RInv'
<1>1. PICK P, own, dep, rank : Woven(P, own, dep, rank)
  BY DEF RInv
<1>2. /\ Types /\ t \in Threads /\ next \in [Nodes -> Nodes \cup {Null, End}]
      /\ pc \in [Threads -> Labels]
  BY DEF RInv, Types
<1>3. PICK n : n = loc[t].new
  OBVIOUS
<1>4. /\ pc[t] = "pushEnd" /\ pc' = [pc EXCEPT ![t] = "pushSeq"] /\ loc' = loc
      /\ next' = [next EXCEPT ![n] = End]
      /\ UNCHANGED <<head, tail, elem, free, unused, pushes, popped, alive>>
  BY <1>3 DEF SetEnd, Step, Goto, history
<1>5. /\ P \in SUBSET Nodes /\ own \in [P -> Threads \cup {Main}] /\ dep \in [P -> Nat]
      /\ rank \in [Threads -> Nat]
      /\ Memory(P) /\ Lists(P, own, dep) /\ Begins(P, own, dep) /\ Ranked(P, own, rank) /\ Held(P)
      /\ \A u \in Threads : PushSees(u) /\ PopSees(u)
  BY <1>1 DEF Woven
<1>6. n \in P /\ own[n] = t /\ Open(n) /\ \A m \in P : own[m] = t => m = n
  <2>1. n \in P /\ own[n] = t /\ Open(n)
    BY <1>2, <1>3, <1>4, <1>5 DEF Begins, PushPlaces, Open
  <2> QED
    BY <1>5, <2>1 DEF Lists
<1>7. /\ next' \in [Nodes -> Nodes \cup {Null, End}] /\ next'[n] = End
      /\ \A m \in Nodes \ {n} : next'[m] = next[m]
      /\ pc'[t] = "pushSeq" /\ \A u \in Threads \ {t} : pc'[u] = pc[u]
      /\ pc' \in [Threads -> Labels]
  BY <1>2, <1>4, <1>5, <1>6 DEF Labels, PushPlaces
<1>8. Types'
  BY <1>2, <1>4, <1>7 DEF Types
<1>9. ~ Open(n)' /\ \A m \in P \ {n} : Open(m)' <=> Open(m)
  <2>1. ASSUME NEW u \in Threads, u # t, pc[u] = "pushEnd"
        PROVE  loc[u].new # n
    BY <1>5, <1>6, <2>1 DEF Begins, PushPlaces
  <2> QED
    BY <1>3, <1>4, <1>7, <2>1 DEF Open
<1>10. \A u \in Threads : /\ InHand(u)' <=> InHand(u)
                          /\ pc'[u] \in PushPlaces <=> pc[u] \in PushPlaces
                          /\ pc'[u] = "pushLink" => pc[u] = "pushLink"
  BY <1>4, <1>7 DEF InHand, PushPlaces
<1>11. Memory(P)'
  BY <1>4, <1>5, <1>10 DEF Memory
<1>12. Lists(P, own, dep)'
  <2>1. /\ \A m, k \in P : own[m] = own[k] /\ dep[m] = dep[k] => m = k
        /\ \A m \in P : ~ Open(m) /\ next[m] # End =>
             next[m] \in P /\ own[next[m]] = own[m] /\ dep[next[m]] = dep[m] + 1
        /\ \A m, k \in P : own[m] = own[k] /\ next[k] = End => dep[m] <= dep[k]
        /\ \A m \in P : ~ Open(m) => \E e \in P : own[e] = own[m] /\ next[e] = End
        /\ \A m \in P : Open(m) => next[m] # End /\ \A k \in P : own[k] = own[m] => k = m
        /\ \A m \in Nodes \ P : next[m] # End
    BY <1>5 DEF Lists
  <2>2. \A m \in P : m \in Nodes /\ (m = n \/ (m \in P \ {n} /\ next'[m] = next[m] /\ own[m] # t))
    BY <1>5, <1>6, <1>7
  <2>3. \A m \in P : ~ Open(m)' /\ next'[m] # End =>
           next'[m] \in P /\ own[next'[m]] = own[m] /\ dep[next'[m]] = dep[m] + 1
    BY <1>7, <1>9, <2>1, <2>2
  <2>4. \A m, k \in P : own[m] = own[k] /\ next'[k] = End => dep[m] <= dep[k]
    BY <1>5, <1>6, <2>1, <2>2
  <2>5. \A m \in P : ~ Open(m)' => \E e \in P : own[e] = own[m] /\ next'[e] = End
    <3> SUFFICES ASSUME NEW m \in P, ~ Open(m)' PROVE \E e \in P : own[e] = own[m] /\ next'[e] = End
      OBVIOUS
    <3>1. CASE m = n
      BY <1>7, <3>1
    <3>2. CASE m # n
      <4>1. PICK e \in P : own[e] = own[m] /\ next[e] = End
        BY <1>9, <2>1, <3>2
      <4> QED
        BY <1>6, <2>2, <3>2, <4>1
    <3> QED
      BY <3>1, <3>2
  <2>6. \A m \in P : Open(m)' => next'[m] # End /\ \A k \in P : own[k] = own[m] => k = m
    BY <1>9, <2>1, <2>2
  <2>7. \A m \in Nodes \ P : next'[m] # End
    BY <1>6, <1>7, <2>1
  <2> QED
    BY <2>1, <2>3, <2>4, <2>5, <2>6, <2>7 DEF Lists
<1>13. Begins(P, own, dep)'
  BY <1>4, <1>5, <1>10 DEF Begins
<1>14. Ranked(P, own, rank)'
  BY <1>4, <1>5, <1>10 DEF Ranked
<1>15. Held(P)'
  BY <1>4, <1>5 DEF Held
<1>16. ASSUME NEW u \in Threads
       PROVE  PushSees(u)' /\ PopSees(u)'
  <2>1. CASE u = t
    BY <1>7, <2>1 DEF PushSees, PopSees, PopPlaces, Anchored, Linking
  <2>2. CASE u # t
    <3>1. \A m \in {head.node, tail.node} : m \in Nodes /\ m # n
      <4>1. /\ head.node \in P /\ own[head.node] = Main /\ tail.node \in P /\ own[tail.node] = Main
            /\ P \subseteq Nodes /\ t # Main
        BY <1>2, <1>5, MainIsNoThread DEF Memory, Begins
      <4> QED
        BY <1>6, <4>1
    <3> QED
      BY <1>2, <1>4, <1>5, <1>7, <2>2, <3>1, SeesKept
  <2> QED
    BY <2>1, <2>2
<1>17. Woven(P, own, dep, rank)'
  BY <1>5, <1>11, <1>12, <1>13, <1>14, <1>15, <1>16 DEF Woven
<1> QED
  BY <1>8, <1>17 DEF RInv

\* The list of a thread is appended to the one that the node it links to is in, the
\* queue or the list of another thread.
LEMMA LinksOn ==
  ASSUME RInv, NEW t \in alive, LinkNode(t)
  PROVE  RInv'
<1>1. PICK P, own, dep, rank : Woven(P, own, dep, rank)
  BY DEF RInv
<1>2. /\ Types /\ t \in Threads /\ next \in [Nodes -> Nodes \cup {Null, End}]
      /\ pc \in [Threads -> Labels]
  BY DEF RInv, Types
<1>3. PICK n, m : n = loc[t].new /\ m = loc[t].node
  OBVIOUS
<1>4. /\ pc[t] = "pushLink" /\ pc' = [pc EXCEPT ![t] = "pushFinish"] /\ loc' = loc
      /\ next[m] = End /\ next' = [next EXCEPT ![m] = n]
      /\ UNCHANGED <<head, tail, elem, free, unused, pushes, popped, alive>>
  BY <1>3 DEF LinkNode, Step, Goto
<1>5. /\ P \in SUBSET Nodes /\ own \in [P -> Threads \cup {Main}] /\ dep \in [P -> Nat]
      /\ rank \in [Threads -> Nat]
      /\ Memory(P) /\ Lists(P, own, dep) /\ Begins(P, own, dep) /\ Ranked(P, own, rank) /\ Held(P)
      /\ \A u \in Threads : PushSees(u) /\ PopSees(u)
  BY <1>1 DEF Woven
<1>6. /\ \A x, y \in P : own[x] = own[y] /\ dep[x] = dep[y] => x = y
      /\ \A x \in P : ~ Open(x) /\ next[x] # End =>
           next[x] \in P /\ own[next[x]] = own[x] /\ dep[next[x]] = dep[x] + 1
      /\ \A x, y \in P : own[x] = own[y] /\ next[y] = End => dep[x] <= dep[y]
      /\ \A x \in P : ~ Open(x) => \E e \in P : own[e] = own[x] /\ next[e] = End
      /\ \A x \in P : Open(x) => next[x] # End /\ \A y \in P : own[y] = own[x] => y = x
      /\ \A x \in Nodes \ P : next[x] # End
  BY <1>5 DEF Lists
<1>7. m \in P /\ ~ Open(m)
  <2>1. m \in Nodes
    BY <1>2, <1>3, <1>4, <1>5 DEF PushSees, Linking
  <2> QED
    BY <1>4, <1>6, <2>1
<1>8. /\ n \in P /\ own[n] = t /\ \A x \in P : own[x] = t => dep[n] <= dep[x]
  BY <1>2, <1>3, <1>4, <1>5 DEF Begins, PushPlaces
<1>9. PICK w : w = own[m]
  OBVIOUS
<1>10. w # t /\ w \in Threads \cup {Main} /\ t # Main
  <2>1. w \in Threads \cup {Main} /\ t # Main
    BY <1>2, <1>5, <1>7, <1>9, MainIsNoThread
  <2>2. w # t
    <3> SUFFICES ASSUME w = t PROVE FALSE
      OBVIOUS
    <3>1. loc[t].node \in P /\ own[loc[t].node] = t /\ own[loc[t].node] # Main
      BY <1>3, <1>7, <1>9, <2>1
    <3>2. rank[t] < rank[t]
      BY <1>2, <1>4, <1>5, <3>1 DEF Ranked
    <3>3. rank[t] \in Nat
      BY <1>2, <1>5
    <3> QED
      BY <3>2, <3>3
  <2> QED
    BY <2>1, <2>2
<1>11. n # m /\ n \in Nodes /\ m \in Nodes
  BY <1>5, <1>7, <1>8, <1>9, <1>10
<1>12. PICK own2 : own2 = [x \in P |-> IF own[x] = t THEN w ELSE own[x]]
  OBVIOUS
<1>13. PICK dep2 : dep2 = [x \in P |-> IF own[x] = t THEN dep[x] - dep[n] + dep[m] + 1 ELSE dep[x]]
  OBVIOUS
<1>14. /\ own2 \in [P -> Threads \cup {Main}] /\ dep2 \in [P -> Nat]
       /\ \A x \in P : own[x] = t =>
            /\ own2[x] = w /\ dep2[x] = dep[x] - dep[n] + dep[m] + 1
            /\ dep2[x] > dep[m] /\ dep2[x] \in Nat
       /\ \A x \in P : own[x] # t => own2[x] = own[x] /\ dep2[x] = dep[x]
       /\ \A x \in P : dep[x] \in Nat /\ own2[x] # t
  <2>1. \A x \in P : dep[x] \in Nat /\ (own[x] = t => dep[n] <= dep[x])
    BY <1>5, <1>8
  <2>2. \A x \in P : IF own[x] = t THEN dep2[x] = dep[x] - dep[n] + dep[m] + 1 ELSE dep2[x] = dep[x]
    BY <1>13
  <2>3. \A x \in P : dep2[x] \in Nat /\ (own[x] = t => dep2[x] > dep[m])
    BY <1>7, <1>8, <2>1, <2>2
  <2>4. dep2 \in [P -> Nat]
    BY <1>13, <2>3
  <2>5. own2 \in [P -> Threads \cup {Main}] /\ \A x \in P : own2[x] # t
    BY <1>5, <1>10, <1>12
  <2> QED
    BY <1>12, <2>1, <2>2, <2>3, <2>4, <2>5
<1>15. /\ next' \in [Nodes -> Nodes \cup {Null, End}] /\ next'[m] = n
       /\ \A x \in Nodes \ {m} : next'[x] = next[x]
       /\ pc'[t] = "pushFinish" /\ \A u \in Threads \ {t} : pc'[u] = pc[u]
       /\ pc' \in [Threads -> Labels]
  BY <1>2, <1>4, <1>11 DEF Labels
<1>16. Types'
  BY <1>2, <1>4, <1>15 DEF Types
<1>17. \A x : Open(x)' <=> Open(x)
  BY <1>4, <1>15 DEF Open
<1>18. \A u \in Threads : /\ InHand(u)' <=> InHand(u)
                          /\ pc'[u] \in PushPlaces <=> pc[u] \in PushPlaces /\ u # t
                          /\ pc'[u] = "pushLink" <=> pc[u] = "pushLink" /\ u # t
  BY <1>4, <1>15 DEF InHand, PushPlaces
<1>19. Memory(P)'
  BY <1>4, <1>5, <1>18 DEF Memory
<1>20. Lists(P, own2, dep2)'
  <2>1. ASSUME NEW x \in P, NEW y \in P, own2[x] = own2[y], dep2[x] = dep2[y]
        PROVE  x = y
    <3>1. CASE own[x] = t /\ own[y] = t
      <4>1. dep[x] = dep[y]
        BY <1>7, <1>8, <1>14, <2>1, <3>1
      <4> QED
        BY <1>6, <3>1, <4>1
    <3>2. CASE own[x] = t /\ own[y] # t
      BY <1>4, <1>6, <1>7, <1>9, <1>14, <2>1, <3>2
    <3>3. CASE own[x] # t /\ own[y] = t
      BY <1>4, <1>6, <1>7, <1>9, <1>14, <2>1, <3>3
    <3>4. CASE own[x] # t /\ own[y] # t
      BY <1>6, <1>14, <2>1, <3>4
    <3> QED
      BY <3>1, <3>2, <3>3, <3>4
  <2>2. ASSUME NEW x \in P, ~ Open(x), next'[x] # End
        PROVE  next'[x] \in P /\ own2[next'[x]] = own2[x] /\ dep2[next'[x]] = dep2[x] + 1
    <3>1. CASE x = m
      BY <1>7, <1>8, <1>9, <1>10, <1>14, <1>15, <3>1
    <3>2. CASE x # m
      <4>1. x \in Nodes /\ next'[x] = next[x]
        BY <1>5, <1>15, <3>2
      <4>2. next[x] \in P /\ own[next[x]] = own[x] /\ dep[next[x]] = dep[x] + 1
        BY <1>6, <2>2, <4>1
      <4>3. CASE own[x] = t
        BY <1>7, <1>8, <1>14, <4>1, <4>2, <4>3
      <4>4. CASE own[x] # t
        BY <1>14, <4>1, <4>2, <4>4
      <4> QED
        BY <4>3, <4>4
    <3> QED
      BY <3>1, <3>2
  <2>3. ASSUME NEW x \in P, NEW y \in P, own2[x] = own2[y], next'[y] = End
        PROVE  dep2[x] <= dep2[y]
    <3>1. y # m /\ next[y] = End
      BY <1>5, <1>11, <1>15, <2>3, PtrAssumption
    <3>2. CASE own[y] = t
      <4>1. CASE own[x] = t
        <5>1. dep[x] <= dep[y]
          BY <1>6, <3>1, <3>2, <4>1
        <5> QED
          BY <1>7, <1>8, <1>14, <3>2, <4>1, <5>1
      <4>2. CASE own[x] # t
        <5>1. own[x] = own[m] /\ dep[x] <= dep[m] /\ dep2[x] = dep[x]
          BY <1>4, <1>6, <1>7, <1>9, <1>14, <2>3, <3>2, <4>2
        <5>2. dep2[y] > dep[m] /\ dep2[y] \in Nat
          BY <1>14, <3>2
        <5> QED
          BY <1>7, <1>14, <5>1, <5>2
      <4> QED
        BY <4>1, <4>2
    <3>3. CASE own[y] # t
      <4>1. own[y] # w
        <5> SUFFICES ASSUME own[y] = w PROVE FALSE
          OBVIOUS
        <5>1. dep[y] <= dep[m] /\ dep[m] <= dep[y]
          BY <1>4, <1>6, <1>7, <1>9, <3>1
        <5>2. dep[y] = dep[m]
          BY <1>7, <1>14, <5>1
        <5> QED
          BY <1>6, <1>7, <1>9, <3>1, <5>2
      <4>2. own[x] # t
        BY <1>14, <2>3, <3>3, <4>1
      <4> QED
        BY <1>6, <1>14, <2>3, <3>1, <3>3, <4>2
    <3> QED
      BY <3>2, <3>3
  <2>4. ASSUME NEW x \in P, ~ Open(x)
        PROVE  \E e \in P : own2[e] = own2[x] /\ next'[e] = End
    <3>1. CASE own2[x] = w
      <4>1. ~ Open(n)
        BY <1>2, <1>4, <1>5, <1>8 DEF Open, Begins, PushPlaces
      <4>2. PICK e \in P : own[e] = t /\ next[e] = End
        BY <1>6, <1>8, <4>1
      <4>3. e # m
        BY <1>9, <1>10, <4>2
      <4> QED
        BY <1>5, <1>14, <1>15, <3>1, <4>2, <4>3
    <3>2. CASE own2[x] # w
      <4>1. own[x] # t /\ own2[x] = own[x]
        BY <1>14, <3>2
      <4>2. PICK e \in P : own[e] = own[x] /\ next[e] = End
        BY <1>6, <2>4
      <4>3. e # m
        BY <1>9, <3>2, <4>1, <4>2
      <4> QED
        BY <1>5, <1>14, <1>15, <4>1, <4>2, <4>3
    <3> QED
      BY <3>1, <3>2
  <2>5. ASSUME NEW x \in P, Open(x)
        PROVE  next'[x] # End /\ \A y \in P : own2[y] = own2[x] => y = x
    <3>1. x # m /\ next'[x] = next[x] /\ next[x] # End
      BY <1>5, <1>6, <1>7, <1>15, <2>5
    <3>2. own[x] # t
      <4>1. PICK u \in Threads : pc[u] = "pushEnd" /\ loc[u].new = x
        BY <2>5 DEF Open
      <4>2. own[x] = u /\ u # t
        BY <1>4, <1>5, <4>1 DEF Begins, PushPlaces
      <4> QED
        BY <4>2
    <3>3. own[x] # w
      BY <1>6, <1>7, <1>9, <2>5
    <3> QED
      BY <1>6, <1>14, <2>5, <3>1, <3>2, <3>3
  <2>6. \A x \in Nodes \ P : next'[x] # End
    BY <1>6, <1>7, <1>15
  <2> QED
    BY <1>17, <2>1, <2>2, <2>3, <2>4, <2>5, <2>6 DEF Lists
<1>21. Begins(P, own2, dep2)'
  <2>1. /\ head.node \in P /\ own[head.node] = Main /\ tail.node \in P /\ own[tail.node] = Main
        /\ \A x \in P : own[x] = Main => dep[head.node] <= dep[x]
        /\ \A x \in P : own[x] # Main => own[x] \in Threads /\ pc[own[x]] \in PushPlaces
    BY <1>5 DEF Begins, Memory
  <2>2. ASSUME NEW x \in P, own2[x] = Main
        PROVE  dep2[head.node] <= dep2[x]
    <3>1. dep2[head.node] = dep[head.node] /\ dep[head.node] \in Nat
      BY <1>10, <1>14, <2>1
    <3>2. CASE own[x] = t
      <4>1. dep[head.node] <= dep[m] /\ dep2[x] > dep[m] /\ dep2[x] \in Nat /\ dep[m] \in Nat
        BY <1>7, <1>9, <1>14, <2>1, <2>2, <3>2
      <4> QED
        BY <3>1, <4>1
    <3>3. CASE own[x] # t
      BY <1>14, <2>1, <2>2, <3>1, <3>3
    <3> QED
      BY <3>2, <3>3
  <2>3. \A x \in P : own2[x] # Main => own2[x] \in Threads /\ pc'[own2[x]] \in PushPlaces
    BY <1>7, <1>9, <1>14, <1>18, <2>1
  <2>4. ASSUME NEW u \in Threads, pc'[u] \in PushPlaces
        PROVE  /\ loc[u].new \in P /\ own2[loc[u].new] = u
               /\ \A x \in P : own2[x] = u => dep2[loc[u].new] <= dep2[x]
    <3>1. /\ u # t /\ loc[u].new \in P /\ own[loc[u].new] = u
          /\ \A x \in P : own[x] = u => dep[loc[u].new] <= dep[x]
      BY <1>5, <1>18, <2>4 DEF Begins
    <3>2. own2[loc[u].new] = u /\ dep2[loc[u].new] = dep[loc[u].new] /\ dep[loc[u].new] \in Nat
      BY <1>14, <3>1
    <3>3. ASSUME NEW x \in P, own2[x] = u
          PROVE  dep2[loc[u].new] <= dep2[x]
      <4>1. CASE own[x] = t
        <5>1. dep[loc[u].new] <= dep[m] /\ dep2[x] > dep[m] /\ dep2[x] \in Nat /\ dep[m] \in Nat
          BY <1>7, <1>9, <1>14, <3>1, <3>3, <4>1
        <5> QED
          BY <3>2, <5>1
      <4>2. CASE own[x] # t
        BY <1>14, <3>1, <3>2, <3>3, <4>2
      <4> QED
        BY <4>1, <4>2
    <3> QED
      BY <3>1, <3>2, <3>3
  <2>5. own2[head.node] = Main /\ own2[tail.node] = Main
    BY <1>10, <1>14, <2>1
  <2> QED
    BY <1>4, <2>1, <2>2, <2>3, <2>4, <2>5 DEF Begins
<1>22. Ranked(P, own2, rank)'
  <2> SUFFICES ASSUME NEW u \in Threads, pc'[u] = "pushLink", loc[u].node \in P,
                      own2[loc[u].node] # Main
               PROVE  rank[own2[loc[u].node]] < rank[u]
    BY <1>4 DEF Ranked
  <2>1. u # t /\ pc[u] = "pushLink"
    BY <1>18
  <2>2. CASE own[loc[u].node] = t
    <3>1. rank[t] < rank[u]
      BY <1>5, <1>10, <2>1, <2>2 DEF Ranked
    <3>2. own2[loc[u].node] = w /\ w \in Threads
      BY <1>10, <1>14, <2>2
    <3>3. rank[w] < rank[t]
      BY <1>2, <1>3, <1>4, <1>5, <1>7, <1>9, <3>2, MainIsNoThread DEF Ranked
    <3>4. rank[t] \in Nat /\ rank[u] \in Nat /\ rank[w] \in Nat
      BY <1>2, <1>5, <3>2
    <3> QED
      BY <3>1, <3>2, <3>3, <3>4
  <2>3. CASE own[loc[u].node] # t
    BY <1>5, <1>14, <2>1, <2>3 DEF Ranked
  <2> QED
    BY <2>2, <2>3
<1>23. Held(P)'
  BY <1>4, <1>5 DEF Held
<1>24. ASSUME NEW u \in Threads
       PROVE  PushSees(u)' /\ PopSees(u)'
  <2>1. CASE u = t
    <3>1. loc[t].seq <= tail.seq /\ m \in Nodes /\ (loc[t].seq = tail.seq => m = tail.node)
      BY <1>2, <1>3, <1>4, <1>5 DEF PushSees, Linking
    <3> QED
      BY <1>3, <1>4, <1>15, <2>1, <3>1 DEF PushSees, PopSees, PopPlaces, Anchored, Linking
  <2>2. CASE u # t
    <3>1. \A x \in {head.node, tail.node} : next[x] # End => next'[x] = next[x]
      BY <1>4, <1>5, <1>15 DEF Memory, Begins
    <3> QED
      BY <1>2, <1>4, <1>5, <1>15, <2>2, <3>1, SeesKept
  <2> QED
    BY <2>1, <2>2
<1>25. Woven(P, own2, dep2, rank)'
  BY <1>5, <1>14, <1>19, <1>20, <1>21, <1>22, <1>23, <1>24 DEF Woven
<1> QED
  BY <1>16, <1>25 DEF RInv

\* The old dummy is in the hand of the thread that takes the item, and the node behind it
\* is the dummy.
LEMMA TakesItem ==
  ASSUME RInv, NEW t \in alive, TakeHead(t)
  PROVE  RInv'
<1>1. PICK P, own, dep, rank : Woven(P, own, dep, rank)
  BY DEF RInv
<1>2. /\ Types /\ t \in Threads /\ next \in [Nodes -> Nodes \cup {Null, End}]
      /\ pc \in [Threads -> Labels] /\ loc \in [Threads -> Locals] /\ elem \in [Nodes -> Nat]
      /\ head \in [node : Nodes, seq : Nat] /\ popped \in Seq(Nat) /\ pushes \in Nat
  BY DEF RInv, Types
<1>3. PICK h, x, v : h = head.node /\ x = loc[t].next /\ v = loc[t].elem
  OBVIOUS
<1>4. /\ pc[t] = "popSwap" /\ pc' = [pc EXCEPT ![t] = "popCount"] /\ loc' = loc
      /\ head = [node |-> loc[t].node, seq |-> loc[t].seq]
      /\ head' = [node |-> x, seq |-> loc[t].seq + 1]
      /\ popped' = Append(popped, v)
      /\ UNCHANGED <<tail, next, elem, free, unused, pushes, alive>>
  BY <1>3 DEF TakeHead, HeadMoved, Goto
<1>5. /\ P \in SUBSET Nodes /\ own \in [P -> Threads \cup {Main}] /\ dep \in [P -> Nat]
      /\ rank \in [Threads -> Nat]
      /\ Memory(P) /\ Lists(P, own, dep) /\ Begins(P, own, dep) /\ Ranked(P, own, rank) /\ Held(P)
      /\ \A u \in Threads : PushSees(u) /\ PopSees(u)
  BY <1>1 DEF Woven
<1>6. loc[t].seq = head.seq /\ loc[t].node = h /\ v \in Nat
  BY <1>2, <1>3, <1>4 DEF Locals
<1>7. x = next[h] /\ x # End /\ tail.node # h /\ v = elem[x]
  BY <1>2, <1>3, <1>4, <1>5, <1>6 DEF PopSees
<1>8. /\ h \in P /\ own[h] = Main /\ tail.node \in P /\ own[tail.node] = Main
      /\ \A n \in P : own[n] = Main => dep[h] <= dep[n]
  BY <1>3, <1>5 DEF Memory, Begins
<1>9. x \in P /\ own[x] = Main /\ x # h /\ x \in Nodes /\ ~ Open(h)
  BY <1>1, <1>2, <1>3, <1>7, <1>8, InQueue
<1>10. /\ \A m, n \in P : own[m] = own[n] /\ dep[m] = dep[n] => m = n
       /\ \A n \in P : ~ Open(n) /\ next[n] # End =>
            next[n] \in P /\ own[next[n]] = own[n] /\ dep[next[n]] = dep[n] + 1
       /\ \A m, n \in P : own[m] = own[n] /\ next[n] = End => dep[m] <= dep[n]
       /\ \A n \in P : ~ Open(n) => \E e \in P : own[e] = own[n] /\ next[e] = End
       /\ \A n \in P : Open(n) => next[n] # End /\ \A m \in P : own[m] = own[n] => m = n
       /\ \A n \in Nodes \ P : next[n] # End
  BY <1>5 DEF Lists
<1>11. PICK P2 : P2 = P \ {h}
  OBVIOUS
<1>12. PICK own2, dep2 : own2 = [n \in P2 |-> own[n]] /\ dep2 = [n \in P2 |-> dep[n]]
  OBVIOUS
<1>13. /\ P2 \in SUBSET Nodes /\ own2 \in [P2 -> Threads \cup {Main}] /\ dep2 \in [P2 -> Nat]
       /\ \A n \in P2 : n \in P /\ n # h /\ own2[n] = own[n] /\ dep2[n] = dep[n] /\ dep[n] \in Nat
       /\ \A n \in P : n # h => n \in P2
       /\ dep[h] \in Nat
  BY <1>5, <1>8, <1>11, <1>12
<1>14. /\ pc'[t] = "popCount" /\ \A u \in Threads \ {t} : pc'[u] = pc[u]
       /\ pc' \in [Threads -> Labels]
  BY <1>2, <1>4 DEF Labels
<1>15. /\ head' \in [node : Nodes, seq : Nat] /\ head'.node = x /\ head'.seq = head.seq + 1
       /\ head.seq \in Nat /\ popped' \in Seq(Nat) /\ Len(popped') = Len(popped) + 1
       /\ Len(popped) \in Nat /\ popped'[Len(popped) + 1] = v
       /\ \A i \in 1..Len(popped) : popped'[i] = popped[i] /\ i # Len(popped) + 1
       /\ \A i \in 1..Len(popped') : i \in 1..Len(popped) \/ i = Len(popped) + 1
       /\ 1..Len(popped) \subseteq 1..Len(popped')
  <2>1. head.seq \in Nat
    BY <1>2
  <2>2. head' \in [node : Nodes, seq : Nat] /\ head'.node = x /\ head'.seq = head.seq + 1
    BY <1>4, <1>6, <1>9, <2>1
  <2>3. /\ popped' \in Seq(Nat) /\ Len(popped') = Len(popped) + 1 /\ Len(popped) \in Nat
        /\ popped'[Len(popped) + 1] = v /\ \A i \in 1..Len(popped) : popped'[i] = popped[i]
    BY <1>2, <1>4, <1>6
  <2> QED
    BY <2>1, <2>2, <2>3
<1>16. Types'
  BY <1>2, <1>4, <1>14, <1>15 DEF Types
<1>17. \A n : Open(n)' <=> Open(n)
  BY <1>4, <1>14 DEF Open
<1>18. \A u \in Threads : /\ InHand(u)' <=> InHand(u) \/ u = t
                          /\ pc'[u] \in PushPlaces <=> pc[u] \in PushPlaces
                          /\ pc'[u] = "pushLink" <=> pc[u] = "pushLink"
  BY <1>4, <1>14 DEF InHand, PushPlaces
<1>19. Memory(P2)'
  <2>1. x \in P2 /\ P2 \subseteq Nodes \ unused
    BY <1>5, <1>9, <1>11 DEF Memory
  <2>2. /\ \A i \in 1..Len(free) : free[i] \notin P2 \cup unused /\ free[i] # h
        /\ \A i, j \in 1..Len(free) : free[i] = free[j] => i = j
        /\ h \notin P2 \cup unused /\ h \in Nodes
    BY <1>5, <1>8, <1>11 DEF Memory
  <2>3. \A u \in Threads : InHand(u) =>
          /\ loc[u].node \in Nodes \ (P2 \cup unused) /\ loc[u].node # h
          /\ \A i \in 1..Len(free) : free[i] # loc[u].node
          /\ \A w \in Threads : InHand(w) /\ loc[w].node = loc[u].node => w = u
    BY <1>5, <1>8, <1>11 DEF Memory
  <2>4. \A u \in Threads : InHand(u)' =>
          /\ loc[u].node \in Nodes \ (P2 \cup unused)
          /\ \A i \in 1..Len(free) : free[i] # loc[u].node
          /\ \A w \in Threads : InHand(w)' /\ loc[w].node = loc[u].node => w = u
    BY <1>2, <1>6, <1>18, <2>2, <2>3
  <2> QED
    BY <1>4, <1>15, <2>1, <2>2, <2>4 DEF Memory
<1>20. Lists(P2, own2, dep2)'
  <2>1. \A m, n \in P2 : own2[m] = own2[n] /\ dep2[m] = dep2[n] => m = n
    BY <1>10, <1>13
  <2>2. ASSUME NEW n \in P2, ~ Open(n), next[n] # End
        PROVE  next[n] \in P2 /\ own2[next[n]] = own2[n] /\ dep2[next[n]] = dep2[n] + 1
    <3>1. /\ n \in P /\ next[n] \in P /\ own[next[n]] = own[n] /\ dep[next[n]] = dep[n] + 1
          /\ dep[n] \in Nat
      BY <1>10, <1>13, <2>2
    <3>2. next[n] # h
      BY <1>8, <1>13, <3>1
    <3> QED
      BY <1>13, <3>1, <3>2
  <2>3. \A m, n \in P2 : own2[m] = own2[n] /\ next[n] = End => dep2[m] <= dep2[n]
    BY <1>10, <1>13
  <2>4. \A n \in P2 : ~ Open(n) => \E e \in P2 : own2[e] = own2[n] /\ next[e] = End
    BY <1>7, <1>10, <1>13
  <2>5. \A n \in P2 : Open(n) => next[n] # End /\ \A m \in P2 : own2[m] = own2[n] => m = n
    BY <1>10, <1>13
  <2>6. \A n \in Nodes \ P2 : next[n] # End
    BY <1>7, <1>10, <1>13
  <2> QED
    BY <1>4, <1>17, <2>1, <2>2, <2>3, <2>4, <2>5, <2>6 DEF Lists
<1>21. Begins(P2, own2, dep2)'
  <2>1. x \in P2 /\ own2[x] = Main /\ tail.node \in P2 /\ own2[tail.node] = Main
    BY <1>7, <1>8, <1>9, <1>13
  <2>2. ASSUME NEW n \in P2, own2[n] = Main
        PROVE  dep2[x] <= dep2[n]
    <3>1. dep[x] = dep[h] + 1 /\ dep[h] <= dep[n] /\ dep[n] # dep[h]
      BY <1>7, <1>8, <1>9, <1>10, <1>13, <2>2
    <3> QED
      BY <1>13, <2>1, <3>1
  <2>3. \A n \in P2 : own2[n] # Main => own2[n] \in Threads /\ pc'[own2[n]] \in PushPlaces
    BY <1>5, <1>13, <1>18 DEF Begins
  <2>4. ASSUME NEW u \in Threads, pc'[u] \in PushPlaces
        PROVE  /\ loc[u].new \in P2 /\ own2[loc[u].new] = u
               /\ \A n \in P2 : own2[n] = u => dep2[loc[u].new] <= dep2[n]
    <3>1. /\ loc[u].new \in P /\ own[loc[u].new] = u
          /\ \A n \in P : own[n] = u => dep[loc[u].new] <= dep[n]
      BY <1>5, <1>18, <2>4 DEF Begins
    <3>2. loc[u].new \in P2
      BY <1>8, <1>13, <3>1, MainIsNoThread
    <3> QED
      BY <1>13, <3>1, <3>2
  <2> QED
    BY <1>4, <1>15, <2>1, <2>2, <2>3, <2>4 DEF Begins
<1>22. Ranked(P2, own2, rank)'
  BY <1>4, <1>5, <1>13, <1>18 DEF Ranked
<1>23. Held(P2)'
  <2>1. /\ \A m \in P \ {h} :
             /\ elem[m] \in 1..pushes
             /\ \A i \in 1..Len(popped) : popped[i] # elem[m]
             /\ \A k \in P \ {h} : elem[k] = elem[m] => k = m
        /\ \A i \in 1..Len(popped) : popped[i] \in 1..pushes
        /\ \A i, j \in 1..Len(popped) : popped[i] = popped[j] => i = j
        /\ \A w \in 1..pushes : \/ \E i \in 1..Len(popped) : popped[i] = w
                                \/ \E m \in P \ {h} : elem[m] = w
    BY <1>3, <1>5 DEF Held
  <2>2. x \in P \ {h} /\ \A m \in P2 \ {x} : m \in P \ {h} /\ m # x
    BY <1>9, <1>11
  <2>3. ASSUME NEW m \in P2 \ {x}
        PROVE  /\ elem[m] \in 1..pushes
               /\ \A i \in 1..Len(popped') : popped'[i] # elem[m]
               /\ \A k \in P2 \ {x} : elem[k] = elem[m] => k = m
    <3>1. m \in P \ {h} /\ m # x
      BY <2>2
    <3>2. elem[m] \in 1..pushes /\ \A k \in P2 \ {x} : elem[k] = elem[m] => k = m
      BY <2>1, <2>2, <3>1
    <3>3. elem[m] # v /\ \A i \in 1..Len(popped) : popped[i] # elem[m]
      BY <1>7, <2>1, <2>2, <3>1
    <3>4. ASSUME NEW i \in 1..Len(popped')
          PROVE  popped'[i] # elem[m]
      <4>1. CASE i \in 1..Len(popped)
        BY <1>15, <3>3, <4>1
      <4>2. CASE i = Len(popped) + 1
        BY <1>15, <3>3, <4>2
      <4> QED
        BY <1>15, <4>1, <4>2
    <3> QED
      BY <3>2, <3>4
  <2>4. \A i \in 1..Len(popped') : popped'[i] \in 1..pushes
    BY <1>7, <1>15, <2>1, <2>2
  <2>5. \A i, j \in 1..Len(popped') : popped'[i] = popped'[j] => i = j
    BY <1>7, <1>15, <2>1, <2>2
  <2>6. ASSUME NEW w \in 1..pushes
        PROVE  \/ \E i \in 1..Len(popped') : popped'[i] = w
               \/ \E m \in P2 \ {x} : elem[m] = w
    <3>1. CASE \E i \in 1..Len(popped) : popped[i] = w
      BY <1>15, <3>1
    <3>2. CASE \E m \in P \ {h} : elem[m] = w
      <4>1. PICK m \in P \ {h} : elem[m] = w
        BY <3>2
      <4>2. CASE m = x
        <5>1. Len(popped) + 1 \in 1..Len(popped')
          BY <1>15
        <5> QED
          BY <1>7, <1>15, <4>1, <4>2, <5>1
      <4>3. CASE m # x
        BY <1>11, <4>1, <4>3
      <4> QED
        BY <4>2, <4>3
    <3> QED
      BY <2>1, <3>1, <3>2
  <2>7. elem' = elem /\ pushes' = pushes /\ head'.node = x
    BY <1>4, <1>15
  <2> QED
    BY <2>3, <2>4, <2>5, <2>6, <2>7 DEF Held
<1>24. ASSUME NEW u \in Threads
       PROVE  PushSees(u)' /\ PopSees(u)'
  <2>1. CASE u = t
    BY <1>14, <2>1 DEF PushSees, PopSees, PopPlaces, Anchored, Linking
  <2>2. CASE u # t
    <3>1. pc'[u] = pc[u] /\ PushSees(u) /\ PopSees(u) /\ loc[u].seq \in Nat
      BY <1>2, <1>5, <1>14, <2>2 DEF Locals
    <3>2. PushSees(u)'
      BY <1>4, <3>1 DEF PushSees, Linking
    <3>3. PopSees(u)'
      <4>1. loc[u].seq <= head.seq => loc[u].seq <= head'.seq /\ loc[u].seq # head'.seq
        BY <1>15, <3>1
      <4> QED
        BY <1>4, <3>1, <4>1 DEF PopSees, PopPlaces, Anchored
    <3> QED
      BY <3>2, <3>3
  <2> QED
    BY <2>1, <2>2
<1>25. Woven(P2, own2, dep2, rank)'
  BY <1>5, <1>13, <1>19, <1>20, <1>21, <1>22, <1>23, <1>24 DEF Woven
<1> QED
  BY <1>16, <1>25 DEF RInv

\* The node in hand goes to the free list, when nodes are recycled.
LEMMA GivesBack ==
  ASSUME RInv, NEW t \in alive, FreeNode(t)
  PROVE  RInv'
<1>1. PICK P, own, dep, rank : Woven(P, own, dep, rank)
  BY DEF RInv
<1>2. /\ Types /\ t \in Threads /\ next \in [Nodes -> Nodes \cup {Null, End}]
      /\ pc \in [Threads -> Labels] /\ loc \in [Threads -> Locals] /\ elem \in [Nodes -> Nat]
      /\ free \in Seq(Nodes)
  BY DEF RInv, Types
<1>3. PICK n, v : n = loc[t].node /\ v = loc[t].elem
  OBVIOUS
<1>4. /\ pc[t] = "popFree" /\ pc' = [pc EXCEPT ![t] = "idle"] /\ loc' = [loc EXCEPT ![t] = Blank]
      /\ elem' = [elem EXCEPT ![n] = v]
      /\ UNCHANGED <<head, tail, unused, pushes, popped, alive>>
      /\ \/ /\ next' = [next EXCEPT ![n] = IF free = << >> THEN Null ELSE Head(free)]
            /\ free' = <<n>> \o free
         \/ next' = next /\ free' = free
  BY <1>3 DEF FreeNode, Goto, history
<1>5. /\ P \in SUBSET Nodes /\ own \in [P -> Threads \cup {Main}] /\ dep \in [P -> Nat]
      /\ rank \in [Threads -> Nat]
      /\ Memory(P) /\ Lists(P, own, dep) /\ Begins(P, own, dep) /\ Ranked(P, own, rank) /\ Held(P)
      /\ \A u \in Threads : PushSees(u) /\ PopSees(u)
  BY <1>1 DEF Woven
<1>6. /\ n \in Nodes \ (P \cup unused) /\ v \in Nat /\ \A i \in 1..Len(free) : free[i] # n
      /\ \A u \in Threads : InHand(u) /\ loc[u].node = n => u = t
  <2>1. InHand(t)
    BY <1>4 DEF InHand
  <2>2. v \in Nat
    BY <1>2, <1>3 DEF Locals
  <2> QED
    BY <1>2, <1>3, <1>5, <2>1, <2>2 DEF Memory
<1>7. /\ free' \in Seq(Nodes) /\ \A i \in 1..Len(free') : free'[i] = n \/ \E j \in 1..Len(free) : free'[i] = free[j]
      /\ \A i, j \in 1..Len(free') : free'[i] = free'[j] => i = j
  <2>1. CASE free' = free
    BY <1>2, <1>5, <2>1 DEF Memory
  <2>2. CASE free' = <<n>> \o free
    <3>1. /\ free' \in Seq(Nodes) /\ Len(free') = Len(free) + 1 /\ Len(free) \in Nat /\ free'[1] = n
          /\ \A i \in 1..Len(free') : i # 1 => free'[i] = free[i - 1] /\ i - 1 \in 1..Len(free)
      BY <1>2, <1>6, <2>2
    <3>2. \A i \in 1..Len(free') : free'[i] = n \/ \E j \in 1..Len(free) : free'[i] = free[j]
      BY <3>1
    <3>3. ASSUME NEW i \in 1..Len(free'), NEW j \in 1..Len(free'), free'[i] = free'[j]
          PROVE  i = j
      <4>1. CASE i = 1 \/ j = 1
        BY <1>6, <3>1, <3>3, <4>1
      <4>2. CASE i # 1 /\ j # 1
        <5>1. i - 1 = j - 1
          BY <1>5, <3>1, <3>3, <4>2 DEF Memory
        <5> QED
          BY <3>1, <5>1
      <4> QED
        BY <4>1, <4>2
    <3> QED
      BY <3>1, <3>2, <3>3
  <2> QED
    BY <1>4, <2>1, <2>2
<1>8. /\ next' \in [Nodes -> Nodes \cup {Null, End}] /\ next'[n] # End
      /\ \A m \in Nodes \ {n} : next'[m] = next[m]
  <2>1. CASE next' = next
    BY <1>2, <1>5, <1>6, <2>1 DEF Lists
  <2>2. CASE next' = [next EXCEPT ![n] = IF free = << >> THEN Null ELSE Head(free)]
    <3>1. free # << >> => Head(free) \in Nodes
      BY <1>2, TailFacts
    <3>2. PICK y : y = IF free = << >> THEN Null ELSE Head(free)
      OBVIOUS
    <3>3. y \in Nodes \cup {Null, End} /\ y # End
      BY <3>1, <3>2, PtrAssumption
    <3>4. next' = [next EXCEPT ![n] = y]
      BY <2>2, <3>2
    <3> QED
      BY <1>2, <1>6, <3>3, <3>4
  <2> QED
    BY <1>4, <2>1, <2>2
<1>9. Blank \in Locals
  BY DEF Blank, Locals, NoItem
<1>10. /\ pc'[t] = "idle" /\ \A u \in Threads \ {t} : pc'[u] = pc[u] /\ loc'[u] = loc[u]
       /\ pc' \in [Threads -> Labels] /\ loc' \in [Threads -> Locals]
       /\ elem' \in [Nodes -> Nat] /\ \A m \in Nodes \ {n} : elem'[m] = elem[m]
  BY <1>2, <1>4, <1>6, <1>9 DEF Labels
<1>11. Types'
  BY <1>2, <1>4, <1>7, <1>8, <1>10 DEF Types
<1>12. \A m : Open(m)' <=> Open(m)
  BY <1>2, <1>4, <1>10 DEF Open
<1>13. \A u \in Threads : /\ InHand(u)' => InHand(u) /\ u # t /\ loc'[u] = loc[u]
                          /\ pc'[u] \in PushPlaces <=> pc[u] \in PushPlaces
                          /\ pc[u] \in PushPlaces => loc'[u] = loc[u]
                          /\ pc'[u] = "pushLink" => pc[u] = "pushLink" /\ loc'[u] = loc[u]
  BY <1>4, <1>10 DEF InHand, PushPlaces
<1>14. \A m \in P : m \in Nodes /\ m # n /\ next'[m] = next[m] /\ elem'[m] = elem[m]
  BY <1>5, <1>6, <1>8, <1>10
<1>15. Memory(P)'
  <2>1. head.node \in P /\ P \subseteq Nodes \ unused
    BY <1>5 DEF Memory
  <2>2. \A i \in 1..Len(free') : free'[i] \notin P \cup unused
    BY <1>5, <1>6, <1>7 DEF Memory
  <2>3. ASSUME NEW u \in Threads, InHand(u)'
        PROVE  /\ loc'[u].node \in Nodes \ (P \cup unused)
               /\ \A i \in 1..Len(free') : free'[i] # loc'[u].node
               /\ \A w \in Threads : InHand(w)' /\ loc'[w].node = loc'[u].node => w = u
    <3>1. InHand(u) /\ u # t /\ loc'[u] = loc[u]
      BY <1>13, <2>3
    <3>2. /\ loc[u].node \in Nodes \ (P \cup unused) /\ loc[u].node # n
          /\ \A i \in 1..Len(free) : free[i] # loc[u].node
          /\ \A w \in Threads : InHand(w) /\ loc[w].node = loc[u].node => w = u
      BY <1>5, <1>6, <3>1 DEF Memory
    <3> QED
      BY <1>7, <1>13, <3>1, <3>2
  <2>4. head' = head /\ unused' = unused
    BY <1>4
  <2> QED
    BY <1>7, <2>1, <2>2, <2>3, <2>4 DEF Memory
<1>16. Lists(P, own, dep)'
  <2>1. \A m \in Nodes \ P : next'[m] # End
    BY <1>5, <1>8 DEF Lists
  <2> QED
    BY <1>5, <1>12, <1>14, <2>1 DEF Lists
<1>17. Begins(P, own, dep)'
  BY <1>4, <1>5, <1>13 DEF Begins
<1>18. Ranked(P, own, rank)'
  BY <1>5, <1>13 DEF Ranked
<1>19. Held(P)'
  <2>1. head' = head /\ pushes' = pushes /\ popped' = popped
    BY <1>4
  <2> QED
    BY <1>5, <1>14, <2>1 DEF Held
<1>20. ASSUME NEW u \in Threads
       PROVE  PushSees(u)' /\ PopSees(u)'
  <2>1. CASE u = t
    BY <1>10, <2>1 DEF PushSees, PopSees, PopPlaces, Anchored, Linking
  <2>2. CASE u # t
    <3>1. head.node \in P /\ own[head.node] = Main /\ tail.node \in P
      BY <1>5 DEF Memory, Begins
    <3>2. next[head.node] # End => next[head.node] \in P
      BY <1>1, <1>2, <3>1, InQueue
    <3> QED
      BY <1>2, <1>4, <1>5, <1>10, <1>14, <2>2, <3>1, <3>2, SeesKept
  <2> QED
    BY <2>1, <2>2
<1>21. Woven(P, own, dep, rank)'
  BY <1>5, <1>15, <1>16, <1>17, <1>18, <1>19, <1>20 DEF Woven
<1> QED
  BY <1>11, <1>21 DEF RInv

----------------------------------------------------------------------------
(* The invariant holds.                                                    *)

LEMMA InitRInv ==
  ASSUME Init
  PROVE  RInv
<1>1. PICK h : h = head.node
  OBVIOUS
<1>2. /\ h \in Nodes /\ head = [node |-> h, seq |-> 0] /\ tail = head
      /\ next = [n \in Nodes |-> IF n = h THEN End ELSE Null] /\ unused = Nodes \ {h}
      /\ elem = [n \in Nodes |-> 0] /\ free = << >> /\ pushes = 0 /\ popped = << >>
      /\ pc = [t \in Threads |-> "idle"] /\ loc = [t \in Threads |-> Blank] /\ alive = Threads
  BY <1>1, PtrAssumption DEF Init, NewNode, NoItem
<1>3. Types
  BY <1>2 DEF Types, Labels, Locals, Blank, NoItem
<1>4. PICK own, dep, rank : /\ own = [n \in {h} |-> Main] /\ dep = [n \in {h} |-> 0]
                            /\ rank = [t \in Threads |-> 0]
  OBVIOUS
<1>5. Memory({h})
  BY <1>2 DEF Memory, InHand
<1>6. Lists({h}, own, dep)
  BY <1>2, <1>4, PtrAssumption DEF Lists, Open
<1>7. Begins({h}, own, dep)
  BY <1>2, <1>4 DEF Begins, PushPlaces
<1>8. Ranked({h}, own, rank)
  BY <1>2 DEF Ranked
<1>9. Held({h})
  BY <1>2 DEF Held
<1>10. \A u \in Threads : PushSees(u) /\ PopSees(u)
  BY <1>2 DEF PushSees, PopSees, PopPlaces, Anchored, Linking
<1>11. Woven({h}, own, dep, rank)
  BY <1>2, <1>4, <1>5, <1>6, <1>7, <1>8, <1>9, <1>10 DEF Woven
<1> QED
  BY <1>3, <1>11 DEF RInv

LEMMA StutterRInv ==
  ASSUME RInv, UNCHANGED vars
  PROVE  RInv'
<1>1. PICK P, own, dep, rank : Woven(P, own, dep, rank)
  BY DEF RInv
<1>2. UNCHANGED <<head, tail, next, elem, free, unused, pc, loc, pushes, popped, alive>>
  BY DEF vars, shared, history
<1>3. Types'
  BY <1>2 DEF RInv, Types
<1>4. Woven(P, own, dep, rank)'
  BY <1>1, <1>2, SameWoven
<1> QED
  BY <1>3, <1>4 DEF RInv

LEMMA StepRInv ==
  ASSUME RInv, NEW t \in alive, Run(t) \/ PushItem(t) \/ PopItem(t) \/ Suspend(t)
  PROVE  RInv'
<1>1. CASE \/ ReadTailSeq(t) \/ ReadTailNode(t) \/ LinkFails(t) \/ ReadHelped(t)
           \/ HelpPush(t) \/ MoveTail(t) \/ CountUp(t)
  BY <1>1, PushAside
<1>2. CASE \/ ReadHeadSeq(t) \/ ReadHeadNode(t) \/ ReadTailSequence(t) \/ ReadNext(t)
           \/ CheckSeq(t) \/ CheckTail(t) \/ HelpPop(t) \/ ReadElem(t) \/ TakeFails(t)
  BY <1>2, PopAside
<1>3. CASE PopItem(t) \/ PopEmpty(t) \/ CountDown(t) \/ Suspend(t)
  BY <1>3, OtherAside
<1>4. CASE PushItem(t) \/ SetEnd(t) \/ LinkNode(t)
  BY <1>4, Starts, Closes, LinksOn
<1>5. CASE TakeHead(t) \/ FreeNode(t)
  BY <1>5, TakesItem, GivesBack
<1> QED
  BY <1>1, <1>2, <1>3, <1>4, <1>5 DEF Run

\* The nodes of a CTSQueue, recycled or not, are a list from the dummy to the tail and on
\* to the end, the lists of the nodes about to be linked, and the free list, all apart:
\* whatever the threads do between the steps of PushItem and PopItem, no node is in two
\* places and no item in two nodes.
THEOREM QueueIsWoven == Spec => []RInv
<1>1. ASSUME RInv, [Next]_vars
      PROVE  RInv'
  BY <1>1, StepRInv, StutterRInv DEF Next
<1> QED
  BY <1>1, InitRInv, PTL DEF Spec

----------------------------------------------------------------------------
(* The count.                                                              *)

\* A set that a step of t changes at t only.
LEMMA OneChanged ==
  ASSUME NEW T, IsFiniteSet(T), NEW t \in T, NEW S \in SUBSET T, NEW S2 \in SUBSET T,
         \A u \in T \ {t} : u \in S2 <=> u \in S
  PROVE  /\ Cardinality(S) \in Nat /\ Cardinality(S2) \in Nat
         /\ t \in S /\ t \notin S2 => Cardinality(S2) = Cardinality(S) - 1
         /\ t \notin S /\ t \in S2 => Cardinality(S2) = Cardinality(S) + 1
         /\ (t \in S <=> t \in S2) => Cardinality(S2) = Cardinality(S)
<1>1. IsFiniteSet(S) /\ IsFiniteSet(S2)
  BY FS_Subset
<1>2. Cardinality(S) \in Nat /\ Cardinality(S2) \in Nat
  BY <1>1, FS_CardinalityType
<1>3. CASE t \in S /\ t \notin S2
  <2>1. S2 = S \ {t}
    BY <1>3
  <2> QED
    BY <1>1, <1>2, <1>3, <2>1, FS_RemoveElement
<1>4. CASE t \notin S /\ t \in S2
  <2>1. S2 = S \cup {t}
    BY <1>4
  <2> QED
    BY <1>1, <1>2, <1>4, <2>1, FS_AddElement
<1>5. CASE t \in S <=> t \in S2
  <2>1. S2 = S
    BY <1>5
  <2> QED
    BY <1>2, <1>5, <2>1
<1> QED
  BY <1>2, <1>3, <1>4, <1>5

\* The threads that have taken the number of an item and not counted it; that have taken
\* the item and not discounted it.
Uncounted == PushPlaces \cup {"pushFinish", "pushCount"}
Pushing == {t \in Threads : pc[t] \in Uncounted}
Popping == {t \in Threads : pc[t] = "popCount"}

Counted ==
  /\ count \in Int
  /\ count = pushes - Len(popped) - Cardinality(Pushing) + Cardinality(Popping)

LEMMA InitCounted ==
  ASSUME IsFiniteSet(Threads), Init
  PROVE  Counted
<1>1. Pushing = {} /\ Popping = {}
  BY DEF Init, Pushing, Popping, Uncounted, PushPlaces
<1>2. count = 0 /\ pushes = 0 /\ Len(popped) = 0
  BY DEF Init
<1> QED
  BY <1>1, <1>2, FS_EmptySet DEF Counted

LEMMA Balances ==
  ASSUME NEW c \in Int, NEW q \in Nat, NEW p \in Nat, NEW a \in Nat, NEW b \in Nat,
         c = q - p - a + b
  PROVE  /\ c = (q + 1) - p - (a + 1) + b
         /\ c + 1 \in Int /\ c + 1 = q - p - (a - 1) + b
         /\ c = q - (p + 1) - a + (b + 1)
         /\ c - 1 \in Int /\ c - 1 = q - p - a + (b - 1)
  OBVIOUS

LEMMA StepCounted ==
  ASSUME IsFiniteSet(Threads), RInv, Counted, NEW t \in alive,
         Run(t) \/ PushItem(t) \/ PopItem(t) \/ Suspend(t)
  PROVE  Counted'
<1>1. t \in Threads /\ pc \in [Threads -> Labels] /\ pushes \in Nat /\ popped \in Seq(Nat)
      /\ loc \in [Threads -> Locals]
  BY DEF RInv, Types
<1>2. PICK p, k, a, b : p = Len(popped) /\ k = pc[t] /\ a = Cardinality(Pushing) /\ b = Cardinality(Popping)
  OBVIOUS
<1>3. count \in Int /\ p \in Nat /\ count = pushes - p - a + b
  BY <1>1, <1>2 DEF Counted
<1>4. ASSUME NEW l, pc' = [pc EXCEPT ![t] = l]
      PROVE  /\ a \in Nat /\ b \in Nat
             /\ k \in Uncounted /\ l \notin Uncounted => Cardinality(Pushing)' = a - 1
             /\ k \notin Uncounted /\ l \in Uncounted => Cardinality(Pushing)' = a + 1
             /\ (k \in Uncounted <=> l \in Uncounted) => Cardinality(Pushing)' = a
             /\ k = "popCount" /\ l # "popCount" => Cardinality(Popping)' = b - 1
             /\ k # "popCount" /\ l = "popCount" => Cardinality(Popping)' = b + 1
             /\ (k = "popCount" <=> l = "popCount") => Cardinality(Popping)' = b
  <2>1. PICK A, B, A2, B2 : A = Pushing /\ B = Popping /\ A2 = Pushing' /\ B2 = Popping'
    OBVIOUS
  <2>2. A \in SUBSET Threads /\ B \in SUBSET Threads /\ A2 \in SUBSET Threads /\ B2 \in SUBSET Threads
    BY <2>1 DEF Pushing, Popping
  <2>3. pc'[t] = l /\ pc[t] = k /\ t \in Threads /\ \A u \in Threads \ {t} : pc'[u] = pc[u]
    BY <1>1, <1>2, <1>4
  <2>4. \A u \in Threads \ {t} : (u \in A2 <=> u \in A) /\ (u \in B2 <=> u \in B)
    BY <2>1, <2>3 DEF Pushing, Popping
  <2>5. (t \in A <=> k \in Uncounted) /\ (t \in A2 <=> l \in Uncounted)
    BY <2>1, <2>3 DEF Pushing
  <2>6. (t \in B <=> k = "popCount") /\ (t \in B2 <=> l = "popCount")
    BY <2>1, <2>3 DEF Popping
  <2>7. /\ Cardinality(A) \in Nat
        /\ t \in A /\ t \notin A2 => Cardinality(A2) = Cardinality(A) - 1
        /\ t \notin A /\ t \in A2 => Cardinality(A2) = Cardinality(A) + 1
        /\ (t \in A <=> t \in A2) => Cardinality(A2) = Cardinality(A)
    BY <2>2, <2>3, <2>4, OneChanged
  <2>8. /\ Cardinality(B) \in Nat
        /\ t \in B /\ t \notin B2 => Cardinality(B2) = Cardinality(B) - 1
        /\ t \notin B /\ t \in B2 => Cardinality(B2) = Cardinality(B) + 1
        /\ (t \in B <=> t \in B2) => Cardinality(B2) = Cardinality(B)
    BY <2>2, <2>3, <2>4, OneChanged
  <2>9. Cardinality(Pushing)' = Cardinality(A2) /\ Cardinality(Popping)' = Cardinality(B2)
    BY <2>1
  <2> QED
    BY <1>2, <2>1, <2>5, <2>6, <2>7, <2>8, <2>9
<1>5. CASE PushItem(t)
  <2>1. /\ k = "idle" /\ pc' = [pc EXCEPT ![t] = "pushEnd"] /\ pushes' = pushes + 1
        /\ count' = count /\ popped' = popped
    BY <1>2, <1>5 DEF PushItem, Goto
  <2>2. k \notin Uncounted /\ "pushEnd" \in Uncounted /\ k # "popCount" /\ "pushEnd" # "popCount"
    BY <2>1 DEF Uncounted, PushPlaces
  <2>3. Cardinality(Pushing)' = a + 1 /\ Cardinality(Popping)' = b /\ a \in Nat /\ b \in Nat
    BY <1>4, <2>1, <2>2
  <2>4. count = (pushes + 1) - p - (a + 1) + b
    BY <1>1, <1>3, <2>3, Balances
  <2>5. Len(popped') = p
    BY <1>2, <2>1
  <2>6. count' \in Int /\ count' = pushes' - Len(popped') - (a + 1) + b
    BY <1>3, <2>1, <2>4, <2>5
  <2> QED
    BY <2>3, <2>6 DEF Counted
<1>6. CASE CountUp(t)
  <2>1. /\ k = "pushCount" /\ pc' = [pc EXCEPT ![t] = "idle"] /\ pushes' = pushes
        /\ count' = count + 1 /\ popped' = popped
    BY <1>2, <1>6 DEF CountUp, Goto, history
  <2>2. k \in Uncounted /\ "idle" \notin Uncounted /\ k # "popCount" /\ "idle" # "popCount"
    BY <2>1 DEF Uncounted, PushPlaces
  <2>3. Cardinality(Pushing)' = a - 1 /\ Cardinality(Popping)' = b /\ a \in Nat /\ b \in Nat
    BY <1>4, <2>1, <2>2
  <2>4. count + 1 \in Int /\ count + 1 = pushes - p - (a - 1) + b
    BY <1>1, <1>3, <2>3, Balances
  <2>5. Len(popped') = p
    BY <1>2, <2>1
  <2>6. count' \in Int /\ count' = pushes' - Len(popped') - (a - 1) + b
    BY <2>1, <2>4, <2>5
  <2> QED
    BY <2>3, <2>6 DEF Counted
<1>7. CASE TakeHead(t)
  <2>1. /\ k = "popSwap" /\ pc' = [pc EXCEPT ![t] = "popCount"] /\ pushes' = pushes
        /\ count' = count /\ popped' = Append(popped, loc[t].elem)
    BY <1>2, <1>7 DEF TakeHead, Goto
  <2>2. k \notin Uncounted /\ "popCount" \notin Uncounted
    BY <2>1 DEF Uncounted, PushPlaces
  <2>3. Cardinality(Pushing)' = a /\ Cardinality(Popping)' = b + 1 /\ a \in Nat /\ b \in Nat
    BY <1>4, <2>1, <2>2
  <2>4. Len(popped') = p + 1
    <3>1. loc[t].elem \in Nat
      BY <1>1 DEF Locals
    <3> QED
      BY <1>1, <1>2, <2>1, <3>1
  <2>5. count = pushes - (p + 1) - a + (b + 1)
    BY <1>1, <1>3, <2>3, Balances
  <2>6. count' \in Int /\ count' = pushes' - Len(popped') - a + (b + 1)
    BY <1>3, <2>1, <2>4, <2>5
  <2> QED
    BY <2>3, <2>6 DEF Counted
<1>8. CASE CountDown(t)
  <2>1. /\ k = "popCount" /\ pc' = [pc EXCEPT ![t] = "popFree"] /\ pushes' = pushes
        /\ count' = count - 1 /\ popped' = popped
    BY <1>2, <1>8 DEF CountDown, Step, Goto, history
  <2>2. k \notin Uncounted /\ "popFree" \notin Uncounted /\ "popFree" # "popCount"
    BY <2>1 DEF Uncounted, PushPlaces
  <2>3. Cardinality(Pushing)' = a /\ Cardinality(Popping)' = b - 1 /\ a \in Nat /\ b \in Nat
    BY <1>4, <2>1, <2>2
  <2>4. Len(popped') = p /\ pushes' = pushes /\ count' = count - 1 /\ pushes \in Nat
    BY <1>1, <1>2, <2>1
  <2>5. count - 1 \in Int /\ count - 1 = pushes - p - a + (b - 1)
    BY <1>1, <1>3, <2>3, Balances
  <2>6. count' \in Int /\ count' = pushes' - Len(popped') - a + (b - 1)
    BY <2>4, <2>5
  <2> QED
    BY <2>3, <2>6 DEF Counted
<1>9. ASSUME NEW l, pc' = [pc EXCEPT ![t] = l],
              count' = count, pushes' = pushes, popped' = popped,
              \/ pc[t] \in PushPlaces /\ l \in PushPlaces \cup {"pushFinish"}
              \/ pc[t] = "pushFinish" /\ l = "pushCount"
              \/ pc[t] \in PopPlaces \cup {"idle", "popFree"} /\ l \in PopPlaces \cup {"idle"}
       PROVE  Counted'
  <2>1. (k \in Uncounted <=> l \in Uncounted) /\ (k = "popCount" <=> l = "popCount")
    BY <1>2, <1>9 DEF Uncounted, PushPlaces, PopPlaces, Anchored
  <2>2. Cardinality(Pushing)' = a /\ Cardinality(Popping)' = b
    BY <1>4, <1>9, <2>1
  <2> QED
    BY <1>2, <1>3, <1>9, <2>2 DEF Counted
<1>10. CASE SetEnd(t) \/ ReadTailSeq(t) \/ ReadTailNode(t) \/ LinkFails(t) \/ ReadHelped(t) \/ HelpPush(t)
  <2>1. count' = count /\ pushes' = pushes /\ popped' = popped
    BY <1>10 DEF SetEnd, ReadTailSeq, ReadTailNode, LinkFails, ReadHelped, HelpPush, Read, shared, history
  <2>2. \E l \in PushPlaces : pc' = [pc EXCEPT ![t] = l] /\ pc[t] \in PushPlaces
    BY <1>10 DEF SetEnd, ReadTailSeq, ReadTailNode, LinkFails, ReadHelped, HelpPush, Read, Step, Goto, PushPlaces
  <2> QED
    BY <1>9, <2>1, <2>2
<1>11. CASE LinkNode(t) \/ MoveTail(t)
  <2>1. count' = count /\ pushes' = pushes /\ popped' = popped
    BY <1>11 DEF LinkNode, MoveTail, history
  <2>2. \/ pc' = [pc EXCEPT ![t] = "pushFinish"] /\ pc[t] = "pushLink"
        \/ pc' = [pc EXCEPT ![t] = "pushCount"] /\ pc[t] = "pushFinish"
    BY <1>11 DEF LinkNode, MoveTail, Step, Goto
  <2> QED
    BY <1>9, <2>1, <2>2 DEF PushPlaces
<1>12. CASE PopItem(t) \/ ReadHeadSeq(t) \/ ReadHeadNode(t) \/ ReadTailSequence(t) \/ ReadNext(t)
            \/ CheckSeq(t) \/ CheckTail(t) \/ ReadElem(t)
  <2>1. count' = count /\ pushes' = pushes /\ popped' = popped
    BY <1>12 DEF PopItem, ReadHeadSeq, ReadHeadNode, ReadTailSequence, ReadNext, CheckSeq, CheckTail,
                 ReadElem, Read, shared, history
  <2>2. \E l \in PopPlaces : pc' = [pc EXCEPT ![t] = l] /\ pc[t] \in PopPlaces \cup {"idle"}
    BY <1>12 DEF PopItem, ReadHeadSeq, ReadHeadNode, ReadTailSequence, ReadNext, CheckSeq, CheckTail,
                 ReadElem, Read, Step, Goto, PopPlaces, Anchored
  <2> QED
    BY <1>9, <2>1, <2>2
<1>13. CASE HelpPop(t) \/ TakeFails(t) \/ PopEmpty(t) \/ FreeNode(t)
  <2>1. count' = count /\ pushes' = pushes /\ popped' = popped
    BY <1>13 DEF HelpPop, TakeFails, PopEmpty, FreeNode, shared, history
  <2>2. \E l \in PopPlaces \cup {"idle"} :
          pc' = [pc EXCEPT ![t] = l] /\ pc[t] \in PopPlaces \cup {"popFree"}
    BY <1>13 DEF HelpPop, TakeFails, PopEmpty, FreeNode, Step, Goto, PopPlaces, Anchored
  <2> QED
    BY <1>9, <2>1, <2>2
<1>14. CASE Suspend(t)
  BY <1>14 DEF Suspend, shared, history, Counted, Pushing, Popping
<1> QED
  BY <1>5, <1>6, <1>7, <1>8, <1>10, <1>11, <1>12, <1>13, <1>14 DEF Run

LEMMA StutterCounted ==
  ASSUME Counted, UNCHANGED vars
  PROVE  Counted'
<1>1. pc' = pc /\ count' = count /\ pushes' = pushes /\ popped' = popped
  BY DEF vars, shared, history
<1> QED
  BY <1>1 DEF Counted, Pushing, Popping

----------------------------------------------------------------------------
(* What is in the queue when no operation is under way.                    *)

\* The least number that a condition fails for.
LEMMA LeastOf ==
  ASSUME NEW T, T \subseteq Nat, T # {}
  PROVE  \E i \in T : i # 0 => i - 1 \in Nat /\ i - 1 \notin T
<1>1. PICK i \in T : \A y \in T : ~ (<<y, i>> \in OpToRel(<, Nat))
  BY NatLessThanWellFounded, WFMin
<1>2. ASSUME i # 0
      PROVE  i - 1 \in Nat /\ i - 1 \notin T
  <2>1. i \in Nat /\ i - 1 \in Nat /\ i - 1 < i
    BY <1>2
  <2>2. <<i - 1, i>> \in Nat \X Nat /\ <<i - 1, i>>[1] < <<i - 1, i>>[2]
    BY <2>1
  <2>3. <<i - 1, i>> \in OpToRel(<, Nat)
    BY <2>2 DEF OpToRel
  <2> QED
    BY <1>1, <2>1, <2>3
<1> QED
  BY <1>2

\* X: the dummy and the nodes of the items, up to the end.
Listed(L, X) ==
  /\ L \in Nat /\ X \in [0..L -> Nodes] /\ X[0] = head.node
  /\ \A i \in 0..L : next[X[i]] = IF i = L THEN End ELSE X[i + 1]
  /\ \A i, j \in 0..L : X[i] = X[j] => i = j

HeldIn(L, X) ==
  /\ \A i \in 1..L :
       /\ elem[X[i]] \in 1..pushes
       /\ \A k \in 1..Len(popped) : popped[k] # elem[X[i]]
       /\ \A j \in 1..L : elem[X[j]] = elem[X[i]] => j = i
  /\ \A v \in 1..pushes : \/ \E k \in 1..Len(popped) : popped[k] = v
                          \/ \E i \in 1..L : elem[X[i]] = v

LEMMA IdleList ==
  ASSUME RInv, Idle
  PROVE  \E L, X : Listed(L, X) /\ HeldIn(L, X)
<1>1. PICK P, own, dep, rank : Woven(P, own, dep, rank)
  BY DEF RInv
<1>2. /\ P \in SUBSET Nodes /\ dep \in [P -> Nat] /\ Held(P)
      /\ Lists(P, own, dep) /\ Begins(P, own, dep) /\ Memory(P)
  BY <1>1 DEF Woven
<1>3. \A t \in Threads : pc[t] \notin PushPlaces
  BY DEF Idle, PushPlaces
<1>4. \A n \in P : own[n] = Main /\ ~ Open(n) /\ n \in Nodes /\ dep[n] \in Nat
  BY <1>2, <1>3 DEF Begins, Open, PushPlaces
<1>5. PICK h : h = head.node
  OBVIOUS
<1>6. h \in P /\ \A n \in P : dep[h] <= dep[n]
  BY <1>2, <1>4, <1>5 DEF Begins, Memory
<1>7. PICK e \in P : next[e] = End
  BY <1>2, <1>4, <1>6 DEF Lists
<1>8. /\ \A m, n \in P : dep[m] = dep[n] => m = n
      /\ \A n \in P : next[n] # End => next[n] \in P /\ dep[next[n]] = dep[n] + 1
      /\ \A n \in P : dep[n] <= dep[e]
  BY <1>2, <1>4, <1>7 DEF Lists
<1>9. PICK D, L : D = dep[h] /\ L = dep[e] - dep[h]
  OBVIOUS
<1>10. D \in Nat /\ L \in Nat /\ dep[e] = D + L
  BY <1>4, <1>6, <1>7, <1>9
<1>11. \A i \in 0..L : \E n \in P : dep[n] = D + i
  <2>1. PICK T : T = {i \in 0..L : ~ \E n \in P : dep[n] = D + i}
    OBVIOUS
  <2> SUFFICES ASSUME T # {} PROVE FALSE
    BY <2>1
  <2>2. PICK i \in T : i # 0 => i - 1 \in Nat /\ i - 1 \notin T
    BY <1>10, <2>1, LeastOf
  <2>3. i \in 0..L /\ ~ \E n \in P : dep[n] = D + i
    BY <2>1
  <2>4. i # 0
    BY <1>6, <1>9, <1>10, <2>3
  <2>5. i - 1 \in 0..L
    BY <1>10, <2>3, <2>4
  <2>6. PICK n \in P : dep[n] = D + (i - 1)
    BY <2>1, <2>2, <2>4, <2>5
  <2>7. next[n] # End
    <3> SUFFICES ASSUME next[n] = End PROVE FALSE
      OBVIOUS
    <3>1. dep[e] <= dep[n]
      BY <1>2, <1>4, <1>7 DEF Lists
    <3> QED
      BY <1>10, <2>3, <2>6, <3>1
  <2>8. next[n] \in P /\ dep[next[n]] = D + i
    BY <1>8, <1>10, <2>3, <2>6, <2>7
  <2> QED
    BY <2>3, <2>8
<1>12. PICK X : X = [i \in 0..L |-> CHOOSE n \in P : dep[n] = D + i]
  OBVIOUS
<1>13. \A i \in 0..L : X[i] \in P /\ dep[X[i]] = D + i
  BY <1>11, <1>12
<1>14. \A n \in P : \E i \in 0..L : X[i] = n
  <2> SUFFICES ASSUME NEW n \in P PROVE \E i \in 0..L : X[i] = n
    OBVIOUS
  <2>1. PICK i : i = dep[n] - D
    OBVIOUS
  <2>2. i \in 0..L /\ dep[n] = D + i
    BY <1>4, <1>6, <1>8, <1>9, <1>10, <2>1
  <2> QED
    BY <1>8, <1>13, <2>2
<1>15. 0 \in 0..L /\ L \in 0..L /\ X[0] = h /\ X[L] = e
  <2>1. 0 \in 0..L /\ L \in 0..L
    BY <1>10
  <2>2. dep[X[0]] = D /\ dep[X[L]] = D + L
    BY <1>10, <1>13, <2>1
  <2>3. X[0] \in P /\ X[L] \in P
    BY <1>13, <2>1
  <2>4. X[0] = h
    BY <1>6, <1>8, <1>9, <2>2, <2>3
  <2>5. X[L] = e
    BY <1>8, <1>10, <2>2, <2>3
  <2> QED
    BY <2>1, <2>4, <2>5
<1>16. \A i, j \in 0..L : X[i] = X[j] => i = j
  BY <1>10, <1>13
<1>17. ASSUME NEW i \in 0..L
       PROVE  next[X[i]] = IF i = L THEN End ELSE X[i + 1]
  <2>1. CASE i = L
    BY <1>7, <1>15, <2>1
  <2>2. CASE i # L
    <3>1. i + 1 \in 0..L
      BY <1>10, <2>2
    <3>2. next[X[i]] # End
      <4> SUFFICES ASSUME next[X[i]] = End PROVE FALSE
        OBVIOUS
      <4>1. dep[e] <= dep[X[i]]
        BY <1>2, <1>4, <1>7, <1>13 DEF Lists
      <4> QED
        BY <1>10, <1>13, <2>2, <4>1
    <3>3. next[X[i]] \in P /\ dep[next[X[i]]] = D + (i + 1)
      BY <1>8, <1>10, <1>13, <3>2
    <3> QED
      BY <1>8, <1>13, <2>2, <3>1, <3>3
  <2> QED
    BY <2>1, <2>2
<1>18. Listed(L, X)
  BY <1>4, <1>5, <1>10, <1>12, <1>13, <1>15, <1>16, <1>17 DEF Listed
<1>19. \A i \in 1..L : i \in 0..L /\ X[i] \in P \ {h}
  BY <1>10, <1>13, <1>15, <1>16
<1>20. \A n \in P \ {h} : \E i \in 1..L : X[i] = n
  <2> SUFFICES ASSUME NEW n \in P \ {h} PROVE \E i \in 1..L : X[i] = n
    OBVIOUS
  <2>1. PICK i \in 0..L : X[i] = n
    BY <1>14
  <2>2. i # 0
    BY <1>15, <2>1
  <2> QED
    BY <1>10, <2>1, <2>2
<1>21. HeldIn(L, X)
  <2>1. /\ \A n \in P \ {h} :
             /\ elem[n] \in 1..pushes
             /\ \A i \in 1..Len(popped) : popped[i] # elem[n]
             /\ \A m \in P \ {h} : elem[m] = elem[n] => m = n
        /\ \A v \in 1..pushes : \/ \E i \in 1..Len(popped) : popped[i] = v
                                \/ \E n \in P \ {h} : elem[n] = v
    BY <1>2, <1>5 DEF Held
  <2>2. ASSUME NEW i \in 1..L
        PROVE  /\ elem[X[i]] \in 1..pushes
               /\ \A k \in 1..Len(popped) : popped[k] # elem[X[i]]
               /\ \A j \in 1..L : elem[X[j]] = elem[X[i]] => j = i
    BY <1>16, <1>19, <2>1
  <2>3. \A v \in 1..pushes : \/ \E k \in 1..Len(popped) : popped[k] = v
                             \/ \E i \in 1..L : elem[X[i]] = v
    BY <1>20, <2>1
  <2> QED
    BY <2>2, <2>3 DEF HeldIn
<1> QED
  BY <1>18, <1>21

\* The walk of Contents: where it is, and what it has found, after k nodes.
Walking(g) ==
  g = [k \in 0..Cardinality(Nodes) |->
         IF k = 0 THEN [at |-> next[head.node], items |-> << >>]
         ELSE IF g[k - 1].at \in Nodes
              THEN [at |-> next[g[k - 1].at], items |-> Append(g[k - 1].items, elem[g[k - 1].at])]
              ELSE g[k - 1]]

Found(X, m) == [j \in 1..m |-> elem[X[j]]]
Walked(L, X, k) == [at |-> IF k < L THEN X[k + 1] ELSE End, items |-> Found(X, IF k <= L THEN k ELSE L)]

LEMMA WalkedNext ==
  ASSUME Types, NEW L, NEW X, Listed(L, X), NEW k \in Nat, k # 0
  PROVE  Walked(L, X, k) =
           IF Walked(L, X, k - 1).at \in Nodes
           THEN [at |-> next[Walked(L, X, k - 1).at],
                 items |-> Append(Walked(L, X, k - 1).items, elem[Walked(L, X, k - 1).at])]
           ELSE Walked(L, X, k - 1)
<1>1. /\ L \in Nat /\ X \in [0..L -> Nodes] /\ elem \in [Nodes -> Nat]
      /\ \A i \in 0..L : next[X[i]] = IF i = L THEN End ELSE X[i + 1]
  BY DEF Types, Listed
<1>2. PICK w, i : w = Walked(L, X, k - 1) /\ i = k - 1
  OBVIOUS
<1>3. i \in Nat /\ k = i + 1
  BY <1>2
<1>4. w.at = (IF i < L THEN X[i + 1] ELSE End) /\ w.items = Found(X, IF i <= L THEN i ELSE L)
  BY <1>2 DEF Walked
<1>5. CASE i < L
  <2>1. k \in 1..L /\ k \in 0..L /\ w.at = X[k] /\ X[k] \in Nodes
    BY <1>1, <1>3, <1>4, <1>5
  <2>2. next[X[k]] = IF k < L THEN X[k + 1] ELSE End
    BY <1>1, <1>3, <2>1
  <2>3. Append(w.items, elem[X[k]]) = Found(X, k)
    <3>1. w.items = Found(X, i)
      <4>1. (IF i <= L THEN i ELSE L) = i
        BY <1>1, <1>3, <1>5
      <4> QED
        BY <1>4, <4>1
    <3>2. \A j \in 1..k : elem[X[j]] \in Nat
      BY <1>1, <1>3, <2>1
    <3>3. Found(X, i) \in Seq(Nat) /\ Len(Found(X, i)) = i /\ \A j \in 1..i : Found(X, i)[j] = elem[X[j]]
      BY <1>3, <3>2 DEF Found
    <3>4. Found(X, k) \in Seq(Nat) /\ Len(Found(X, k)) = k /\ \A j \in 1..k : Found(X, k)[j] = elem[X[j]]
      BY <1>3, <3>2 DEF Found
    <3>5. PICK s, r, x : s = Found(X, i) /\ r = Found(X, k) /\ x = elem[X[k]]
      OBVIOUS
    <3>6. x \in Nat
      BY <2>1, <3>2, <3>5
    <3>7. /\ Append(s, x) \in Seq(Nat) /\ Len(Append(s, x)) = k
          /\ \A j \in 1..k : Append(s, x)[j] = r[j]
      <4>1. s \in Seq(Nat) /\ Len(s) = i /\ \A j \in 1..i : s[j] = elem[X[j]]
        BY <3>3, <3>5
      <4>2. /\ Append(s, x) \in Seq(Nat) /\ Len(Append(s, x)) = i + 1
            /\ \A j \in 1..i : Append(s, x)[j] = s[j]
            /\ Append(s, x)[i + 1] = x
        BY <3>6, <4>1, AppendProperties
      <4>3. \A j \in 1..k : r[j] = elem[X[j]]
        BY <3>4, <3>5
      <4>4. \A j \in 1..k : j \in 1..i \/ j = i + 1
        BY <1>3
      <4> QED
        BY <1>3, <3>5, <4>1, <4>2, <4>3, <4>4
    <3>8. Append(s, x) = r
      BY <3>4, <3>5, <3>7, SeqEqual
    <3> QED
      BY <3>1, <3>5, <3>8
  <2>4. Walked(L, X, k) = [at |-> next[w.at], items |-> Append(w.items, elem[w.at])]
    BY <1>1, <1>3, <2>1, <2>2, <2>3 DEF Walked
  <2> QED
    BY <1>2, <2>1, <2>4
<1>6. CASE ~ i < L
  <2>1. w.at \notin Nodes
    BY <1>4, <1>6, PtrAssumption
  <2>2. Walked(L, X, k) = w
    <3>1. ~ k < L /\ (IF k <= L THEN k ELSE L) = (IF i <= L THEN i ELSE L)
      BY <1>1, <1>3, <1>6
    <3> QED
      BY <1>2, <1>6, <3>1 DEF Walked
  <2> QED
    BY <1>2, <2>1, <2>2
<1> QED
  BY <1>5, <1>6

LEMMA ContentsFound ==
  ASSUME IsFiniteSet(Nodes), Types, NEW L, NEW X, Listed(L, X)
  PROVE  Contents = Found(X, L)
<1>1. PICK N : N = Cardinality(Nodes)
  OBVIOUS
<1>2. N \in Nat
  BY <1>1, FS_CardinalityType
<1>3. L \in Nat /\ X \in [0..L -> Nodes] /\ \A i, j \in 0..L : X[i] = X[j] => i = j
  BY DEF Listed
<1>4. L <= N
  <2>1. X \in Injection(0..L, Nodes)
    BY <1>3, Fun_IsInj
  <2>2. Cardinality(0..L) <= N
    BY <1>1, <2>1, FS_Injection
  <2>3. Cardinality(0..L) = L + 1
    BY <1>3, FS_Interval
  <2> QED
    BY <1>2, <1>3, <2>2, <2>3
<1>5. Walked(L, X, 0) = [at |-> next[head.node], items |-> << >>]
  <2>1. X[0] = head.node /\ next[X[0]] = IF 0 = L THEN End ELSE X[0 + 1]
    BY <1>3 DEF Listed
  <2>2. Found(X, 0) = << >>
    BY DEF Found
  <2>3. (IF 0 <= L THEN 0 ELSE L) = 0 /\ (0 < L <=> L # 0)
    BY <1>3
  <2> QED
    BY <2>1, <2>2, <2>3 DEF Walked
<1>6. PICK G : G = [k \in 0..N |-> Walked(L, X, k)]
  OBVIOUS
<1>7. Walking(G)
  <2>1. ASSUME NEW k \in 0..N
        PROVE  G[k] = IF k = 0 THEN [at |-> next[head.node], items |-> << >>]
                      ELSE IF G[k - 1].at \in Nodes
                           THEN [at |-> next[G[k - 1].at],
                                 items |-> Append(G[k - 1].items, elem[G[k - 1].at])]
                           ELSE G[k - 1]
    <3>1. CASE k = 0
      BY <1>5, <1>6, <3>1
    <3>2. CASE k # 0
      <4>1. k \in Nat /\ k - 1 \in 0..N
        BY <1>2, <3>2
      <4>2. G[k] = Walked(L, X, k) /\ G[k - 1] = Walked(L, X, k - 1)
        BY <1>6, <4>1
      <4> QED
        BY <3>2, <4>1, <4>2, WalkedNext
    <3> QED
      BY <3>1, <3>2
  <2> QED
    BY <1>1, <1>6, <2>1 DEF Walking
<1>8. PICK g : g = CHOOSE w : Walking(w)
  OBVIOUS
<1>9. Walking(g)
  BY <1>7, <1>8
<1>10. \A k \in 0..N : g[k] = IF k = 0 THEN [at |-> next[head.node], items |-> << >>]
                              ELSE IF g[k - 1].at \in Nodes
                                   THEN [at |-> next[g[k - 1].at],
                                         items |-> Append(g[k - 1].items, elem[g[k - 1].at])]
                                   ELSE g[k - 1]
  BY <1>1, <1>9 DEF Walking
<1>11. \A k \in 0..N : g[k] = Walked(L, X, k)
  <2>1. PICK T : T = {k \in 0..N : g[k] # Walked(L, X, k)}
    OBVIOUS
  <2> SUFFICES ASSUME T # {} PROVE FALSE
    BY <2>1
  <2>2. PICK k \in T : k # 0 => k - 1 \in Nat /\ k - 1 \notin T
    BY <1>2, <2>1, LeastOf
  <2>3. k \in 0..N /\ g[k] # Walked(L, X, k)
    BY <2>1
  <2>4. k # 0
    BY <1>2, <1>5, <1>10, <2>3
  <2>5. k \in Nat /\ k - 1 \in 0..N
    BY <1>2, <2>3, <2>4
  <2>6. g[k - 1] = Walked(L, X, k - 1)
    BY <2>1, <2>2, <2>4, <2>5
  <2>7. g[k] = IF g[k - 1].at \in Nodes
               THEN [at |-> next[g[k - 1].at], items |-> Append(g[k - 1].items, elem[g[k - 1].at])]
               ELSE g[k - 1]
    BY <1>10, <2>3, <2>4
  <2> QED
    BY <2>3, <2>4, <2>5, <2>6, <2>7, WalkedNext
<1>12. Contents = g[N].items
  BY <1>1, <1>8 DEF Contents, Walking
<1>13. Walked(L, X, N).items = Found(X, L)
  <2>1. (IF N <= L THEN N ELSE L) = L
    BY <1>2, <1>3, <1>4
  <2> QED
    BY <2>1 DEF Walked
<1>14. N \in 0..N
  BY <1>2
<1> QED
  BY <1>11, <1>12, <1>13, <1>14

LEMMA AllThere ==
  ASSUME RInv, NEW L, NEW X, Listed(L, X), HeldIn(L, X)
  PROVE  Len(popped) + L = pushes
<1>1. /\ L \in Nat /\ pushes \in Nat /\ popped \in Seq(Nat)
      /\ \A i, j \in 0..L : X[i] = X[j] => i = j
  BY DEF RInv, Types, Listed
<1>2. /\ \A i \in 1..Len(popped) : popped[i] \in 1..pushes
      /\ \A i, j \in 1..Len(popped) : popped[i] = popped[j] => i = j
  BY DEF RInv, Woven, Held
<1>3. /\ \A i \in 1..L :
           /\ elem[X[i]] \in 1..pushes
           /\ \A k \in 1..Len(popped) : popped[k] # elem[X[i]]
           /\ \A j \in 1..L : elem[X[j]] = elem[X[i]] => j = i
      /\ \A v \in 1..pushes : \/ \E k \in 1..Len(popped) : popped[k] = v
                              \/ \E i \in 1..L : elem[X[i]] = v
  BY DEF HeldIn
<1>4. PICK p : p = Len(popped)
  OBVIOUS
<1>5. p \in Nat
  BY <1>1, <1>4
<1>6. PICK F : F = [i \in 1..(p + L) |-> IF i <= p THEN popped[i] ELSE elem[X[i - p]]]
  OBVIOUS
<1>7. \A i \in 1..(p + L) : \/ i \in 1..p /\ F[i] = popped[i]
                            \/ i - p \in 1..L /\ F[i] = elem[X[i - p]]
  BY <1>1, <1>5, <1>6
<1>8. F \in [1..(p + L) -> 1..pushes]
  BY <1>2, <1>3, <1>4, <1>6, <1>7
<1>9. ASSUME NEW i \in 1..(p + L), NEW j \in 1..(p + L), F[i] = F[j]
      PROVE  i = j
  <2>1. CASE i \in 1..p /\ F[i] = popped[i] /\ j \in 1..p /\ F[j] = popped[j]
    BY <1>2, <1>4, <1>9, <2>1
  <2>2. CASE i \in 1..p /\ F[i] = popped[i] /\ j - p \in 1..L /\ F[j] = elem[X[j - p]]
    BY <1>3, <1>4, <1>9, <2>2
  <2>3. CASE i - p \in 1..L /\ F[i] = elem[X[i - p]] /\ j \in 1..p /\ F[j] = popped[j]
    BY <1>3, <1>4, <1>9, <2>3
  <2>4. CASE i - p \in 1..L /\ F[i] = elem[X[i - p]] /\ j - p \in 1..L /\ F[j] = elem[X[j - p]]
    <3>1. i - p = j - p
      BY <1>3, <1>9, <2>4
    <3> QED
      BY <1>1, <1>5, <3>1
  <2> QED
    BY <1>7, <2>1, <2>2, <2>3, <2>4
<1>10. ASSUME NEW v \in 1..pushes
       PROVE  \E i \in 1..(p + L) : F[i] = v
  <2>1. CASE \E k \in 1..p : popped[k] = v
    <3>1. PICK k \in 1..p : popped[k] = v
      BY <2>1
    <3>2. k \in 1..(p + L) /\ k <= p
      BY <1>1, <1>5
    <3> QED
      BY <1>6, <3>1, <3>2
  <2>2. CASE \E i \in 1..L : elem[X[i]] = v
    <3>1. PICK i \in 1..L : elem[X[i]] = v
      BY <2>2
    <3>2. p + i \in 1..(p + L) /\ ~ p + i <= p /\ (p + i) - p = i
      BY <1>1, <1>5
    <3> QED
      BY <1>6, <3>1, <3>2
  <2> QED
    BY <1>3, <1>4, <2>1, <2>2
<1>11. F \in Bijection(1..(p + L), 1..pushes)
  BY <1>8, <1>9, <1>10, Fun_IsBij
<1>12. Cardinality(1..pushes) = Cardinality(1..(p + L))
  <2>1. ExistsBijection(1..(p + L), 1..pushes)
    BY <1>11, Fun_ExistsBij
  <2>2. IsFiniteSet(1..(p + L))
    BY <1>1, <1>5, FS_Interval
  <2> QED
    BY <2>1, <2>2, FS_Bijection
<1>13. Cardinality(1..pushes) = pushes /\ Cardinality(1..(p + L)) = p + L
  <2>1. Cardinality(1..pushes) = IF 1 > pushes THEN 0 ELSE pushes - 1 + 1
    BY <1>1, FS_Interval
  <2>2. p + L \in Int /\ p + L >= 0
    BY <1>1, <1>5
  <2>3. Cardinality(1..(p + L)) = IF 1 > p + L THEN 0 ELSE (p + L) - 1 + 1
    BY <2>2, FS_Interval
  <2> QED
    BY <1>1, <2>1, <2>2, <2>3
<1> QED
  BY <1>4, <1>12, <1>13

\* At rest, Contents is a sequence of the items that were pushed and not popped.
LEMMA ContentsAtRest ==
  ASSUME IsFiniteSet(Nodes), RInv, Idle
  PROVE  /\ Len(popped) + Len(Contents) = pushes /\ Len(Contents) \in Nat
         /\ Items(popped) \cup Items(Contents) = 1..pushes
<1>1. PICK L, X : Listed(L, X) /\ HeldIn(L, X)
  BY IdleList
<1>2. Contents = Found(X, L)
  BY <1>1, ContentsFound DEF RInv
<1>3. /\ L \in Nat /\ \A i \in 1..L : elem[X[i]] \in 1..pushes
      /\ \A v \in 1..pushes : \/ \E k \in 1..Len(popped) : popped[k] = v
                              \/ \E i \in 1..L : elem[X[i]] = v
  BY <1>1 DEF Listed, HeldIn
<1>4. \A k \in 1..Len(popped) : popped[k] \in 1..pushes
  BY DEF RInv, Woven, Held
<1>5. Len(Contents) = L /\ \A i \in 1..L : Contents[i] = elem[X[i]]
  BY <1>2, <1>3 DEF Found
<1>6. Len(popped) + L = pushes
  BY <1>1, AllThere
<1>7. Items(popped) \cup Items(Contents) = 1..pushes
  <2>1. \A v \in Items(popped) \cup Items(Contents) : v \in 1..pushes
    BY <1>3, <1>4, <1>5 DEF Items
  <2>2. \A v \in 1..pushes : v \in Items(popped) \cup Items(Contents)
    BY <1>3, <1>5 DEF Items
  <2> QED
    BY <2>1, <2>2
<1> QED
  BY <1>3, <1>5, <1>6, <1>7

\* Nothing is popped twice, and when no operation is under way every item that was pushed
\* was popped or is in the queue, once: NothingLostOrDuplicated, for nodes that are
\* recycled and nodes that are not.
THEOREM NothingIsLost ==
  ASSUME IsFiniteSet(Nodes)
  PROVE  Spec => []NothingLostOrDuplicated
<1>1. RInv => NothingLostOrDuplicated
  <2> SUFFICES ASSUME RInv PROVE NothingLostOrDuplicated
    OBVIOUS
  <2>1. \A i, j \in 1..Len(popped) : popped[i] = popped[j] => i = j
    BY DEF RInv, Woven, Held
  <2> QED
    BY <2>1, ContentsAtRest DEF NothingLostOrDuplicated
<1> QED
  BY <1>1, QueueIsWoven, PTL

LEMMA AtRest ==
  ASSUME IsFiniteSet(Nodes), RInv, Counted
  PROVE  CountIsContents
<1> SUFFICES ASSUME Idle PROVE count = Len(Contents)
  BY DEF CountIsContents
<1>1. Pushing = {} /\ Popping = {}
  BY DEF Idle, Pushing, Popping, Uncounted, PushPlaces
<1>2. Cardinality(Pushing) = 0 /\ Cardinality(Popping) = 0
  BY <1>1, FS_EmptySet
<1>3. pushes \in Nat /\ Len(popped) \in Nat
  BY DEF RInv, Types
<1> QED
  BY <1>2, <1>3, ContentsAtRest DEF Counted

\* When no operation is under way m_Count is the number of items in the queue, for any
\* interleaving of the pushes and pops before.
THEOREM CountIsRight ==
  ASSUME IsFiniteSet(Nodes), IsFiniteSet(Threads)
  PROVE  Spec => []CountIsContents
<1>1. ASSUME RInv, Counted, [Next]_vars
      PROVE  Counted'
  BY <1>1, StepCounted, StutterCounted DEF Next
<1>2. Init => Counted
  BY InitCounted
<1>3. Spec => []Counted
  BY <1>1, <1>2, QueueIsWoven, PTL DEF Spec
<1>4. RInv /\ Counted => CountIsContents
  BY AtRest
<1> QED
  BY <1>3, <1>4, QueueIsWoven, PTL

----------------------------------------------------------------------------
(* The job queue.                                                          *)

LEMMA JobStepRInv ==
  ASSUME RInv, [JobNext]_allVars
  PROVE  RInv'
<1>1. CASE UNCHANGED vars
  BY <1>1, StutterRInv
<1>2. ASSUME NEW t \in alive, Run(t) \/ PushItem(t) \/ PopItem(t)
      PROVE  RInv'
  BY <1>2, StepRInv
<1>3. UNCHANGED vars \/ \E t \in alive : Run(t) \/ PushItem(t) \/ PopItem(t)
  BY DEF JobNext, PushJob, Reserve, NoJob, Wake, JobRun, QueueStep, CountJob, Take, GiveBack, allVars
<1> QED
  BY <1>1, <1>2, <1>3

\* Where a thread may be in the queue while it does j; and whether it does j for an item
\* that m_nItems does not count, though it is in the queue or about to be.
Jobs == {"none", "push", "count", "take", "taking", "missing"}
InStep(j, l) ==
  \/ j \in {"none", "count", "take", "missing"} /\ l = "idle"
  \/ j = "push" /\ l \in Uncounted
  \/ j = "taking" /\ l \in PopPlaces \cup {"popCount", "popFree"}
Away(j, l) == j \in {"push", "count", "take", "missing"} \/ (j = "taking" /\ l \in PopPlaces)

Afoot == {t \in Threads : Away(job[t], pc[t])}

JInv ==
  /\ nItems \in Nat /\ available \in BOOLEAN /\ (available <=> nItems > 0)
  /\ job \in [Threads -> Jobs]
  /\ \A t \in Threads : InStep(job[t], pc[t])
  /\ nItems + Len(popped) - pushes = 0 - Cardinality(Afoot)

\* A step of one thread, from doing k at m to doing j at l.
LEMMA JobBalance ==
  ASSUME IsFiniteSet(Threads), RInv, RInv', JInv, NEW t \in Threads,
         NEW k, NEW m, k = job[t], m = pc[t],
         NEW j \in Jobs, NEW l \in Labels,
         job' = [job EXCEPT ![t] = j], pc' = [pc EXCEPT ![t] = l], InStep(j, l),
         nItems' \in Nat, available' \in BOOLEAN, available' <=> nItems' > 0,
         NEW d \in Int, nItems' + Len(popped') - pushes' = nItems + Len(popped) - pushes + d,
         \/ d = 0 /\ (Away(k, m) <=> Away(j, l))
         \/ d = -1 /\ ~ Away(k, m) /\ Away(j, l)
         \/ d = 1 /\ Away(k, m) /\ ~ Away(j, l)
  PROVE  JInv'
<1>1. PICK A, B : A = Afoot /\ B = Afoot'
  OBVIOUS
<1>2. /\ pc \in [Threads -> Labels] /\ job \in [Threads -> Jobs]
      /\ A \in SUBSET Threads /\ B \in SUBSET Threads
  BY <1>1 DEF RInv, Types, JInv, Afoot
<1>3. /\ job'[t] = j /\ pc'[t] = l /\ job' \in [Threads -> Jobs]
      /\ \A u \in Threads \ {t} : job'[u] = job[u] /\ pc'[u] = pc[u]
  BY <1>2
<1>4. \A u \in Threads \ {t} : u \in B <=> u \in A
  BY <1>1, <1>3 DEF Afoot
<1>5. (t \in A <=> Away(k, m)) /\ (t \in B <=> Away(j, l))
  BY <1>1, <1>3 DEF Afoot
<1>6. /\ Cardinality(A) \in Nat /\ Cardinality(B) \in Nat
      /\ t \in A /\ t \notin B => Cardinality(B) = Cardinality(A) - 1
      /\ t \notin A /\ t \in B => Cardinality(B) = Cardinality(A) + 1
      /\ (t \in A <=> t \in B) => Cardinality(B) = Cardinality(A)
  BY <1>2, <1>4, OneChanged
<1>7. nItems + Len(popped) - pushes = 0 - Cardinality(A)
  BY <1>1 DEF JInv
<1>8. nItems' + Len(popped') - pushes' = 0 - Cardinality(B)
  <2>1. CASE d = 0 /\ (Away(k, m) <=> Away(j, l))
    BY <1>5, <1>6, <1>7, <2>1
  <2>2. CASE d = -1 /\ ~ Away(k, m) /\ Away(j, l)
    BY <1>5, <1>6, <1>7, <2>2
  <2>3. CASE d = 1 /\ Away(k, m) /\ ~ Away(j, l)
    BY <1>5, <1>6, <1>7, <2>3
  <2> QED
    BY <2>1, <2>2, <2>3
<1>9. \A u \in Threads : InStep(job'[u], pc'[u])
  BY <1>3 DEF JInv
<1>10. nItems' + Len(popped') - pushes' = 0 - Cardinality(Afoot')
  BY <1>1, <1>8
<1> QED
  BY <1>3, <1>9, <1>10 DEF JInv

LEMMA InitJInv ==
  ASSUME IsFiniteSet(Threads), JobInit
  PROVE  JInv
<1>1. /\ nItems = 0 /\ available = FALSE /\ job = [t \in Threads |-> "none"]
      /\ pc = [t \in Threads |-> "idle"] /\ pushes = 0 /\ popped = << >>
  BY DEF JobInit, Init
<1>2. Afoot = {}
  BY <1>1 DEF Afoot, Away
<1>3. Cardinality(Afoot) = 0
  BY <1>2, FS_EmptySet
<1>4. Len(popped) = 0 /\ nItems \in Nat /\ available \in BOOLEAN /\ (available <=> nItems > 0)
  <2>1. Len(popped) = 0 /\ nItems \in Nat /\ ~ nItems > 0
    BY <1>1
  <2>2. available \in BOOLEAN /\ ~ available
    BY <1>1
  <2> QED
    BY <2>1, <2>2
<1>5. job \in [Threads -> Jobs] /\ \A t \in Threads : InStep(job[t], pc[t])
  BY <1>1 DEF Jobs, InStep
<1>6. nItems + Len(popped) - pushes = 0 - Cardinality(Afoot)
  BY <1>1, <1>3, <1>4
<1> QED
  BY <1>4, <1>5, <1>6 DEF JInv

\* A step inside PushItem or PopItem, by where it leaves from.
LEMMA RunOf ==
  ASSUME RInv, NEW t \in alive, Run(t)
  PROVE  \/ /\ pc[t] \in Uncounted /\ popped' = popped /\ pushes' = pushes
            /\ \E l \in Labels : pc' = [pc EXCEPT ![t] = l] /\ (l \in Uncounted \/ l = "idle")
         \/ /\ pc[t] \in PopPlaces /\ popped' = popped /\ pushes' = pushes
            /\ \/ \E l \in PopPlaces : pc' = [pc EXCEPT ![t] = l]
               \/ pc' = [pc EXCEPT ![t] = "idle"] /\ ret' = <<t, NoItem>>
         \/ /\ pc[t] \in PopPlaces /\ pushes' = pushes /\ Len(popped') = Len(popped) + 1
            /\ pc' = [pc EXCEPT ![t] = "popCount"]
         \/ /\ pc[t] \in {"popCount", "popFree"} /\ popped' = popped /\ pushes' = pushes
            /\ \/ pc' = [pc EXCEPT ![t] = "popFree"]
               \/ pc' = [pc EXCEPT ![t] = "idle"] /\ ret' = << >>
<1>1. CASE \/ SetEnd(t) \/ ReadTailSeq(t) \/ ReadTailNode(t) \/ LinkNode(t) \/ LinkFails(t)
           \/ ReadHelped(t) \/ HelpPush(t) \/ MoveTail(t) \/ CountUp(t)
  <2>1. popped' = popped /\ pushes' = pushes
    BY <1>1 DEF SetEnd, ReadTailSeq, ReadTailNode, LinkNode, LinkFails, ReadHelped, HelpPush,
                MoveTail, CountUp, Read, shared, history
  <2>2. /\ pc[t] \in Uncounted
        /\ \E l \in Labels : pc' = [pc EXCEPT ![t] = l] /\ (l \in Uncounted \/ l = "idle")
    BY <1>1 DEF SetEnd, ReadTailSeq, ReadTailNode, LinkNode, LinkFails, ReadHelped, HelpPush,
                MoveTail, CountUp, Read, Step, Goto, Uncounted, PushPlaces, Labels
  <2> QED
    BY <2>1, <2>2
<1>2. CASE \/ ReadHeadSeq(t) \/ ReadHeadNode(t) \/ ReadTailSequence(t) \/ ReadNext(t)
           \/ CheckSeq(t) \/ CheckTail(t) \/ HelpPop(t) \/ ReadElem(t) \/ TakeFails(t)
  <2>1. popped' = popped /\ pushes' = pushes
    BY <1>2 DEF ReadHeadSeq, ReadHeadNode, ReadTailSequence, ReadNext, CheckSeq, CheckTail, HelpPop,
                ReadElem, TakeFails, Read, shared, history
  <2>2. pc[t] \in PopPlaces /\ \E l \in PopPlaces : pc' = [pc EXCEPT ![t] = l]
    BY <1>2 DEF ReadHeadSeq, ReadHeadNode, ReadTailSequence, ReadNext, CheckSeq, CheckTail, HelpPop,
                ReadElem, TakeFails, Read, Step, Goto, PopPlaces, Anchored
  <2> QED
    BY <2>1, <2>2
<1>3. CASE PopEmpty(t)
  BY <1>3 DEF PopEmpty, Goto, history, PopPlaces, Anchored
<1>4. CASE TakeHead(t)
  <2>1. popped \in Seq(Nat) /\ loc[t].elem \in Nat
    BY DEF RInv, Types, Locals
  <2>2. Len(popped') = Len(popped) + 1
    BY <1>4, <2>1 DEF TakeHead
  <2> QED
    BY <1>4, <2>2 DEF TakeHead, Goto, PopPlaces, Anchored
<1>5. CASE CountDown(t) \/ FreeNode(t)
  BY <1>5 DEF CountDown, FreeNode, Step, Goto, history
<1> QED
  BY <1>1, <1>2, <1>3, <1>4, <1>5 DEF Run

LEMMA QueueSteps ==
  ASSUME IsFiniteSet(Threads), RInv, RInv', JInv, NEW t \in alive, QueueStep(t)
  PROVE  JInv'
<1>1. /\ t \in Threads /\ pc \in [Threads -> Labels] /\ popped \in Seq(Nat) /\ pushes \in Nat
      /\ nItems \in Nat /\ available \in BOOLEAN /\ (available <=> nItems > 0)
      /\ InStep(job[t], pc[t])
  BY DEF RInv, Types, JInv
<1>2. PICK j : j = IF pc'[t] # "idle" THEN job[t]
                   ELSE IF job[t] = "push" THEN "count"
                   ELSE IF ret' = <<t, NoItem>> THEN "missing" ELSE "none"
  OBVIOUS
<1>3. /\ job[t] \in {"push", "taking"} /\ Run(t) /\ job' = [job EXCEPT ![t] = j]
      /\ nItems' = nItems /\ available' = available
  BY <1>2 DEF QueueStep, Does
<1>4. j \in Jobs
  BY <1>2, <1>3 DEF Jobs
<1>5. ASSUME NEW l \in Labels, pc' = [pc EXCEPT ![t] = l], InStep(j, l), NEW q,
             q = nItems + Len(popped) - pushes, q \in Int,
             \/ nItems + Len(popped') - pushes' = q /\ (Away(job[t], pc[t]) <=> Away(j, l))
             \/ nItems + Len(popped') - pushes' = q + 1 /\ Away(job[t], pc[t]) /\ ~ Away(j, l)
      PROVE  JInv'
  <2>1. PICK k, m : k = job[t] /\ m = pc[t]
    OBVIOUS
  <2>2. PICK d \in Int : /\ nItems + Len(popped') - pushes' = q + d
                         /\ \/ d = 0 /\ (Away(k, m) <=> Away(j, l))
                            \/ d = 1 /\ Away(k, m) /\ ~ Away(j, l)
    BY <1>5, <2>1
  <2>3. nItems' + Len(popped') - pushes' = nItems + Len(popped) - pushes + d
    BY <1>3, <1>5, <2>2
  <2>4. nItems' \in Nat /\ available' \in BOOLEAN /\ (available' <=> nItems' > 0)
    BY <1>1, <1>3
  <2> QED
    BY <1>1, <1>3, <1>4, <1>5, <2>1, <2>2, <2>3, <2>4, JobBalance
<1>6. PICK q : q = nItems + Len(popped) - pushes
  OBVIOUS
<1>7. q \in Int
  BY <1>1, <1>6
<1>8. CASE /\ pc[t] \in Uncounted /\ popped' = popped /\ pushes' = pushes
           /\ \E l \in Labels : pc' = [pc EXCEPT ![t] = l] /\ (l \in Uncounted \/ l = "idle")
  <2>1. PICK l \in Labels : pc' = [pc EXCEPT ![t] = l] /\ (l \in Uncounted \/ l = "idle")
    BY <1>8
  <2>2. pc'[t] = l
    BY <1>1, <2>1
  <2>3. job[t] = "push"
    BY <1>1, <1>3, <1>8 DEF InStep, Uncounted, PushPlaces, PopPlaces, Anchored
  <2>4. InStep(j, l) /\ Away(job[t], pc[t]) /\ Away(j, l)
    BY <1>2, <2>1, <2>2, <2>3 DEF InStep, Away
  <2>5. nItems + Len(popped') - pushes' = q
    BY <1>6, <1>7, <1>8
  <2> QED
    BY <1>5, <1>6, <1>7, <2>1, <2>4, <2>5
<1>9. CASE pc[t] \notin Uncounted
  <2>1. job[t] = "taking"
    BY <1>1, <1>3, <1>9 DEF InStep
  <2>2. CASE /\ pc[t] \in PopPlaces /\ popped' = popped /\ pushes' = pushes
             /\ \/ \E l \in PopPlaces : pc' = [pc EXCEPT ![t] = l]
                \/ pc' = [pc EXCEPT ![t] = "idle"] /\ ret' = <<t, NoItem>>
    <3>1. nItems + Len(popped') - pushes' = q
      BY <1>6, <1>7, <2>2
    <3>2. Away(job[t], pc[t])
      BY <2>1, <2>2 DEF Away
    <3>3. CASE \E l \in PopPlaces : pc' = [pc EXCEPT ![t] = l]
      <4>1. PICK l \in PopPlaces : pc' = [pc EXCEPT ![t] = l]
        BY <3>3
      <4>2. pc'[t] = l /\ l # "idle" /\ l \in Labels
        BY <1>1, <4>1 DEF PopPlaces, Anchored, Labels
      <4>3. InStep(j, l) /\ Away(j, l)
        BY <1>2, <2>1, <4>1, <4>2 DEF InStep, Away
      <4> QED
        BY <1>5, <1>6, <1>7, <3>1, <3>2, <4>1, <4>2, <4>3
    <3>4. CASE pc' = [pc EXCEPT ![t] = "idle"] /\ ret' = <<t, NoItem>>
      <4>1. PICK l : l = "idle"
        OBVIOUS
      <4>2. pc' = [pc EXCEPT ![t] = l] /\ pc'[t] = "idle" /\ l \in Labels
        BY <1>1, <3>4, <4>1 DEF Labels
      <4>3. j = "missing"
        BY <1>2, <2>1, <3>4, <4>2
      <4>4. InStep(j, l) /\ Away(j, l)
        BY <4>1, <4>3 DEF InStep, Away
      <4> QED
        BY <1>5, <1>6, <1>7, <3>1, <3>2, <4>2, <4>4
    <3> QED
      BY <2>2, <3>3, <3>4
  <2>3. CASE /\ pc[t] \in PopPlaces /\ pushes' = pushes /\ Len(popped') = Len(popped) + 1
             /\ pc' = [pc EXCEPT ![t] = "popCount"]
    <3>1. PICK l : l = "popCount"
      OBVIOUS
    <3>2. pc' = [pc EXCEPT ![t] = l] /\ pc'[t] = l /\ l \in Labels /\ l # "idle" /\ l \notin PopPlaces
      BY <1>1, <2>3, <3>1 DEF Labels, PopPlaces, Anchored
    <3>3. InStep(j, l) /\ Away(job[t], pc[t]) /\ ~ Away(j, l)
      BY <1>2, <2>1, <2>3, <3>1, <3>2 DEF InStep, Away
    <3>4. nItems + Len(popped') - pushes' = q + 1
      BY <1>1, <1>6, <2>3
    <3> QED
      BY <1>5, <1>6, <1>7, <3>2, <3>3, <3>4
  <2>4. CASE /\ pc[t] \in {"popCount", "popFree"} /\ popped' = popped /\ pushes' = pushes
             /\ \/ pc' = [pc EXCEPT ![t] = "popFree"]
                \/ pc' = [pc EXCEPT ![t] = "idle"] /\ ret' = << >>
    <3>1. nItems + Len(popped') - pushes' = q
      BY <1>6, <1>7, <2>4
    <3>2. ~ Away(job[t], pc[t])
      BY <2>1, <2>4 DEF Away, PopPlaces, Anchored
    <3>3. CASE pc' = [pc EXCEPT ![t] = "popFree"]
      <4>1. PICK l : l = "popFree"
        OBVIOUS
      <4>2. pc' = [pc EXCEPT ![t] = l] /\ pc'[t] = l /\ l \in Labels /\ l # "idle" /\ l \notin PopPlaces
        BY <1>1, <3>3, <4>1 DEF Labels, PopPlaces, Anchored
      <4>3. InStep(j, l) /\ ~ Away(j, l)
        BY <1>2, <2>1, <4>1, <4>2 DEF InStep, Away
      <4> QED
        BY <1>5, <1>6, <1>7, <3>1, <3>2, <4>2, <4>3
    <3>4. CASE pc' = [pc EXCEPT ![t] = "idle"] /\ ret' = << >>
      <4>1. PICK l : l = "idle"
        OBVIOUS
      <4>2. pc' = [pc EXCEPT ![t] = l] /\ pc'[t] = "idle" /\ l \in Labels
        BY <1>1, <3>4, <4>1 DEF Labels
      <4>3. << >> # <<t, NoItem>>
        OBVIOUS
      <4>4. j = "none"
        BY <1>2, <2>1, <3>4, <4>2, <4>3
      <4>5. InStep(j, l) /\ ~ Away(j, l)
        BY <4>1, <4>4 DEF InStep, Away
      <4> QED
        BY <1>5, <1>6, <1>7, <3>1, <3>2, <4>2, <4>5
    <3> QED
      BY <2>4, <3>3, <3>4
  <2> QED
    BY <1>3, <1>9, <2>2, <2>3, <2>4, RunOf
<1>10. Uncounted \cap (PopPlaces \cup {"popCount", "popFree"}) = {}
  BY DEF Uncounted, PushPlaces, PopPlaces, Anchored
<1> QED
  BY <1>3, <1>8, <1>9, <1>10, RunOf

LEMMA CriticalSections ==
  ASSUME IsFiniteSet(Threads), RInv, RInv', JInv, NEW t \in alive,
         CountJob(t) \/ Reserve(t) \/ GiveBack(t)
  PROVE  JInv'
<1>1. /\ t \in Threads /\ pc \in [Threads -> Labels] /\ popped \in Seq(Nat) /\ pushes \in Nat
      /\ nItems \in Nat /\ available \in BOOLEAN /\ (available <=> nItems > 0)
      /\ InStep(job[t], pc[t])
  BY DEF RInv, Types, JInv
<1>2. pc' = pc /\ popped' = popped /\ pushes' = pushes
  BY DEF CountJob, Reserve, GiveBack, vars, history
<1>3. job[t] \in {"count", "none", "missing"}
  BY DEF CountJob, Reserve, GiveBack
<1>4. PICK k, m : k = job[t] /\ m = pc[t]
  OBVIOUS
<1>5. m = "idle" /\ m \in Labels /\ pc' = [pc EXCEPT ![t] = m]
  BY <1>1, <1>2, <1>3, <1>4 DEF InStep
<1>6. CASE CountJob(t) \/ GiveBack(t)
  <2>1. PICK j, d : j = "none" /\ d = 1
    OBVIOUS
  <2>2. /\ job' = [job EXCEPT ![t] = j] /\ nItems' = nItems + 1
        /\ available' = (available \/ nItems' = 1) /\ k \in {"count", "missing"}
    BY <1>4, <1>6, <2>1 DEF CountJob, GiveBack, Does
  <2>3. nItems' \in Nat /\ available' \in BOOLEAN /\ (available' <=> nItems' > 0)
    <3>1. nItems' \in Nat /\ (nItems' > 0) /\ (nItems = 0 => nItems' = 1)
      BY <1>1, <2>2
    <3>2. nItems = 0 \/ nItems > 0
      BY <1>1
    <3> QED
      BY <1>1, <2>2, <3>1, <3>2
  <2>4. j \in Jobs /\ InStep(j, m) /\ Away(k, m) /\ ~ Away(j, m)
    BY <1>5, <2>1, <2>2 DEF Jobs, InStep, Away
  <2>5. d \in Int /\ nItems' + Len(popped') - pushes' = nItems + Len(popped) - pushes + d
    BY <1>1, <1>2, <2>1, <2>2
  <2> QED
    BY <1>1, <1>4, <1>5, <2>1, <2>2, <2>3, <2>4, <2>5, JobBalance
<1>7. CASE Reserve(t)
  <2>1. PICK j, d : j = "take" /\ d = -1
    OBVIOUS
  <2>2. /\ job' = [job EXCEPT ![t] = j] /\ nItems > 0 /\ nItems' = nItems - 1
        /\ available' = (available /\ nItems' # 0) /\ k = "none"
    BY <1>4, <1>7, <2>1 DEF Reserve, Does
  <2>3. nItems' \in Nat /\ available' \in BOOLEAN /\ (available' <=> nItems' > 0)
    <3>1. nItems' \in Nat /\ (nItems' # 0 <=> nItems' > 0)
      BY <1>1, <2>2
    <3> QED
      BY <1>1, <2>2, <3>1
  <2>4. j \in Jobs /\ InStep(j, m) /\ ~ Away(k, m) /\ Away(j, m)
    BY <1>5, <2>1, <2>2 DEF Jobs, InStep, Away
  <2>5. d \in Int /\ nItems' + Len(popped') - pushes' = nItems + Len(popped) - pushes + d
    BY <1>1, <1>2, <2>1, <2>2
  <2> QED
    BY <1>1, <1>4, <1>5, <2>1, <2>2, <2>3, <2>4, <2>5, JobBalance
<1> QED
  BY <1>6, <1>7

LEMMA Enters ==
  ASSUME IsFiniteSet(Threads), RInv, RInv', JInv, NEW t \in alive, PushJob(t) \/ Take(t)
  PROVE  JInv'
<1>1. /\ t \in Threads /\ pc \in [Threads -> Labels] /\ popped \in Seq(Nat) /\ pushes \in Nat
      /\ nItems \in Nat /\ available \in BOOLEAN /\ (available <=> nItems > 0)
  BY DEF RInv, Types, JInv
<1>2. PICK k, m : k = job[t] /\ m = pc[t]
  OBVIOUS
<1>3. nItems' = nItems /\ available' = available /\ popped' = popped
  BY DEF PushJob, Take, PushItem, PopItem
<1>4. nItems' \in Nat /\ available' \in BOOLEAN /\ (available' <=> nItems' > 0)
  BY <1>1, <1>3
<1>5. CASE PushJob(t)
  <2>1. PICK j, l, d : j = "push" /\ l = "pushEnd" /\ d = -1
    OBVIOUS
  <2>2. /\ job' = [job EXCEPT ![t] = j] /\ pc' = [pc EXCEPT ![t] = l] /\ pushes' = pushes + 1
        /\ k = "none" /\ m = "idle"
    BY <1>2, <1>5, <2>1 DEF PushJob, PushItem, Does, Goto
  <2>3. j \in Jobs /\ l \in Labels /\ InStep(j, l) /\ ~ Away(k, m) /\ Away(j, l)
    BY <2>1, <2>2 DEF Jobs, Labels, InStep, Away, Uncounted, PushPlaces
  <2>4. d \in Int /\ nItems' + Len(popped') - pushes' = nItems + Len(popped) - pushes + d
    BY <1>1, <1>3, <2>1, <2>2
  <2>5. \/ d = 0 /\ (Away(k, m) <=> Away(j, l))
        \/ d = -1 /\ ~ Away(k, m) /\ Away(j, l)
        \/ d = 1 /\ Away(k, m) /\ ~ Away(j, l)
    BY <2>1, <2>3
  <2> QED
    BY <1>1, <1>2, <1>4, <2>2, <2>3, <2>4, <2>5, JobBalance
<1>6. CASE Take(t)
  <2>1. PICK j, l, d : j = "taking" /\ l = "popSeq" /\ d = 0
    OBVIOUS
  <2>2. /\ job' = [job EXCEPT ![t] = j] /\ pc' = [pc EXCEPT ![t] = l] /\ pushes' = pushes
        /\ k = "take" /\ m = "idle"
    BY <1>2, <1>6, <2>1 DEF Take, PopItem, Step, Does, Goto
  <2>3. j \in Jobs /\ l \in Labels /\ InStep(j, l) /\ Away(k, m) /\ Away(j, l)
    BY <2>1, <2>2 DEF Jobs, Labels, InStep, Away, PopPlaces
  <2>4. d \in Int /\ nItems' + Len(popped') - pushes' = nItems + Len(popped) - pushes + d
    BY <1>1, <1>3, <2>1, <2>2
  <2> QED
    BY <1>1, <1>2, <1>4, <2>1, <2>2, <2>3, <2>4, JobBalance
<1> QED
  BY <1>5, <1>6

LEMMA JobStepJInv ==
  ASSUME IsFiniteSet(Threads), RInv, RInv', JInv, [JobNext]_allVars
  PROVE  JInv'
<1>1. ASSUME NEW t \in alive, NoJob(t) \/ Wake(t)
      PROVE  UNCHANGED <<nItems, available, job, pc, popped, pushes>>
  BY <1>1 DEF NoJob, Wake, vars, history
<1>2. ASSUME UNCHANGED <<nItems, available, job, pc, popped, pushes>>
      PROVE  JInv'
  BY <1>2 DEF JInv, Afoot
<1>3. CASE UNCHANGED allVars
  BY <1>2, <1>3 DEF allVars, jobVars, vars, history
<1>4. CASE JobNext
  BY <1>1, <1>2, <1>4, CriticalSections, Enters, QueueSteps DEF JobNext, JobRun
<1> QED
  BY <1>3, <1>4

\* When no thread is in Push or Pop, m_nItems is the number of jobs in the queue and the
\* event is set exactly when there are any, whatever the threads did before: a worker that
\* decides by them to sleep leaves no job behind.
THEOREM JobsAreCounted ==
  ASSUME IsFiniteSet(Nodes), IsFiniteSet(Threads)
  PROVE  JobSpec => []ItemsAreJobs
<1>1. JobInit => RInv /\ JInv
  BY InitRInv, InitJInv DEF JobInit
<1>2. RInv /\ JInv /\ [JobNext]_allVars => RInv' /\ JInv'
  BY JobStepRInv, JobStepJInv
<1>3. RInv /\ JInv => ItemsAreJobs
  <2> SUFFICES ASSUME RInv, JInv, NoneUnderWay
               PROVE  nItems = Len(Contents) /\ available = (nItems > 0)
    BY DEF ItemsAreJobs
  <2>1. Idle
    BY DEF JInv, NoneUnderWay, InStep, Idle
  <2>2. Afoot = {}
    BY DEF Afoot, Away, NoneUnderWay
  <2>3. Cardinality(Afoot) = 0
    BY <2>2, FS_EmptySet
  <2>4. /\ nItems \in Nat /\ available \in BOOLEAN /\ (available <=> nItems > 0)
        /\ nItems + Len(popped) - pushes = 0 - Cardinality(Afoot)
        /\ Len(popped) \in Nat /\ pushes \in Nat
    BY DEF JInv, RInv, Types
  <2>5. Len(popped) + Len(Contents) = pushes /\ Len(Contents) \in Nat
    BY <2>1, ContentsAtRest
  <2>6. nItems = Len(Contents)
    BY <2>3, <2>4, <2>5
  <2>7. available = (nItems > 0)
    BY <2>4
  <2> QED
    BY <2>6, <2>7
<1> QED
  BY <1>1, <1>2, <1>3, PTL DEF JobSpec

=============================================================================
