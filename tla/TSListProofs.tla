---- MODULE TSListProofs ----
(***************************************************************************)
(* CTSListBase implements an atomic stack, for any number of threads and   *)
(* any nodes the head can count, as long as no thread sleeps between its   *)
(* read of Sequence and its compare-and-swap while Sequence comes round.   *)
(*                                                                         *)
(* The heart is AgeOk: as the list is pushed to, Sequence grows; as it is  *)
(* only popped from, Depth shrinks.  So a head that equals the one a       *)
(* thread read has not changed since, though its two halves were read      *)
(* apart, and the Next it read in between is still the Next of the top.    *)
(***************************************************************************)
EXTENDS TSList, SequenceTheorems, FiniteSetTheorems, TLAPS

LocalsOk ==
  \A t \in Threads :
    /\ pc[t] = "idle" => got[t] = {}
    /\ pc[t] = "swap" => got[t] = Halves
    /\ pc[t] # "idle" /\ op[t] = "push" => node[t] \in hand[t]
    /\ op[t] # "push" /\ "next" \in got[t] => old[t].next # Null
    /\ pc[t] = "swap" /\ op[t] = "push" => next[node[t]] = old[t].next

\* What the word a thread read says of the head of now.
AgeOk ==
  \A t \in alive :
    IF "word" \in got[t]
    THEN /\ head.seq = SeqPlus(old[t].seq, age[t])
         /\ age[t] = 0 => head.depth <= old[t].depth
    ELSE age[t] = 0

\* A Pop whose compare-and-swap will succeed read the Next of the top.
NewOk ==
  \A t \in alive :
    pc[t] = "swap" /\ op[t] = "pop" /\ head = old[t] => new[t] = next[head.next]

IInv ==
  /\ TypeOK
  /\ ChainIsList
  /\ NodeOnce
  /\ DepthIsLength
  /\ LocalsOk
  /\ AgeOk
  /\ NewOk

----------------------------------------------------------------------------
(* Arithmetic of the sequence and room in the head.                        *)

LEMMA SeqPlusFacts ==
  ASSUME NEW s \in 0..SeqMod-1, NEW a \in 0..SeqMod-1
  PROVE  /\ SeqPlus(s, a) \in 0..SeqMod-1
         /\ SeqPlus(s, 0) = s
         /\ a # 0 => SeqPlus(s, a) # s
         /\ a + 1 < SeqMod => SeqPlus(SeqPlus(s, a), 1) = SeqPlus(s, a + 1)
BY ModAssumption DEF SeqPlus

\* A list without repetitions that lacks a node leaves room in Depth.
LEMMA Room ==
  ASSUME TypeOK, NodeOnce
  PROVE  /\ Len(list) \in Nat
         /\ Len(list) < DepthMod
         /\ \A t \in Threads : \A n \in hand[t] : Len(list) + 1 < DepthMod
PROOF
<1>1. list \in [1..Len(list) -> Nodes] /\ Len(list) \in Nat
  BY LenProperties DEF TypeOK
<1>2. list \in Injection(1..Len(list), Nodes)
  BY <1>1 DEF NodeOnce, Injection, IsInjective
<1>3. Cardinality(1..Len(list)) = Len(list)
  <2>1. \A b \in Int : Cardinality(1..b) = IF 1 > b THEN 0 ELSE b - 1 + 1
    BY FS_Interval
  <2> QED
    BY <1>1, <2>1
<1>4. Len(list) <= Cardinality(Nodes)
  BY <1>2, <1>3, FS_Injection, NodesAssumption
<1>5. Cardinality(Nodes) \in Nat
  BY FS_CardinalityType, NodesAssumption
<1>6. ASSUME NEW t \in Threads, NEW n \in hand[t] PROVE Len(list) + 1 < DepthMod
  <2>1. n \in Nodes /\ n \notin S!Items(list)
    BY DEF TypeOK, NodeOnce
  <2>2. list \in Injection(1..Len(list), Nodes \ {n})
    BY <1>1, <1>2, <2>1 DEF S!Items, Injection, IsInjective
  <2>3. IsFiniteSet(Nodes \ {n}) /\ Cardinality(Nodes \ {n}) = Cardinality(Nodes) - 1
    BY <2>1, FS_RemoveElement, NodesAssumption
  <2>4. Len(list) <= Cardinality(Nodes \ {n})
    BY <1>3, <2>2, <2>3, FS_Injection
  <2> QED
    BY <1>1, <1>5, <2>3, <2>4, NodesAssumption, ModAssumption
<1> QED
  BY <1>1, <1>4, <1>5, <1>6, NodesAssumption, ModAssumption

\* The head names the top: NULL exactly when the list is empty.
LEMMA HeadIsTop ==
  ASSUME TypeOK, ChainIsList
  PROVE  /\ head.next = Null <=> list = <<>>
         /\ head.next # Null =>
              /\ head.next = list[1] /\ list[1] = Head(list)
              /\ head.next \in Nodes /\ head.next \in S!Items(list)
              /\ Len(list) \in Nat \ {0}
PROOF
<1>1. list \in Seq(Nodes)
  BY DEF TypeOK
<1>2. CASE list = <<>>
  BY <1>2 DEF ChainIsList, S!Top
<1>3. CASE list # <<>>
  <2>1. Len(list) \in Nat \ {0} /\ Head(list) \in Nodes /\ Head(list) = list[1]
    BY <1>1, <1>3, EmptySeq, HeadTailProperties
  <2> QED
    BY <1>3, <2>1, NullAssumption DEF ChainIsList, S!Top, S!Items
<1> QED
  BY <1>2, <1>3

----------------------------------------------------------------------------
(* The steps that leave the list alone.                                    *)

\* What the invariant says of a list nobody touches holds as long as head,
\* the pointers and the owners stay.
LEMMA Untouched ==
  ASSUME ChainIsList, NodeOnce, DepthIsLength, UNCHANGED <<head, next, list, hand>>
  PROVE  ChainIsList' /\ NodeOnce' /\ DepthIsLength'
BY DEF ChainIsList, NodeOnce, DepthIsLength, S!Top, S!Items

LEMMA CallStep ==
  ASSUME IInv, NEW t \in alive, Push(t, node'[t]) \/ Pop(t) \/ Detach(t)
  PROVE  IInv'
PROOF
<1> DEFINE o == op'[t]
           n == node'[t]
<1>1. /\ TypeOK /\ t \in Threads
      /\ o \in Ops /\ n \in Link /\ (o = "push" => n \in hand[t])
      /\ pc[t] = "idle"
      /\ pc' = [pc EXCEPT ![t] = "load"]
      /\ op' = [op EXCEPT ![t] = o]
      /\ node' = [node EXCEPT ![t] = n]
      /\ ret' = <<>>
      /\ UNCHANGED <<head, next, old, got, new, list, hand, age, alive>>
  BY DEF IInv, TypeOK, Push, Pop, Detach, Call, Ops, Link
<1> HIDE DEF o, n
<1>2. TypeOK'
  BY <1>1 DEF TypeOK
<1>3. ChainIsList' /\ NodeOnce' /\ DepthIsLength'
  BY <1>1, Untouched DEF IInv
<1>4. LocalsOk'
  BY <1>1 DEF IInv, TypeOK, LocalsOk, Halves
<1>5. AgeOk' /\ NewOk'
  BY <1>1 DEF IInv, TypeOK, AgeOk, NewOk
<1> QED
  BY <1>2, <1>3, <1>4, <1>5 DEF IInv

LEMMA ReadNextStep ==
  ASSUME IInv, NEW t \in alive, ReadNext(t)
  PROVE  IInv'
PROOF
<1>1. /\ TypeOK /\ LocalsOk /\ AgeOk /\ NewOk /\ t \in Threads
      /\ pc[t] = "load" /\ "next" \notin got[t]
      /\ UNCHANGED <<head, next, op, list, hand, alive>>
  BY DEF IInv, TypeOK, ReadNext
<1>2. ChainIsList' /\ NodeOnce' /\ DepthIsLength'
  BY <1>1, Untouched DEF IInv
<1>3. CASE op[t] # "push" /\ head.next = Null
  <2>1. /\ ret' = <<t, Null>>
        /\ age' = [age EXCEPT ![t] = 0]
        /\ Forget(t)
    BY <1>3 DEF ReadNext
  <2>2. TypeOK'
    BY <1>1, <2>1, ModAssumption DEF TypeOK, Forget, Link, Empty, Halves
  <2>3. LocalsOk'
    BY <1>1, <2>1 DEF TypeOK, Forget, LocalsOk
  <2>4. AgeOk' /\ NewOk'
    BY <1>1, <2>1 DEF TypeOK, Forget, AgeOk, NewOk
  <2> QED
    BY <1>2, <2>2, <2>3, <2>4 DEF IInv
<1>4. CASE ~ (op[t] # "push" /\ head.next = Null)
  <2>1. /\ old' = [old EXCEPT ![t].next = head.next]
        /\ got' = [got EXCEPT ![t] = @ \cup {"next"}]
        /\ ret' = <<>>
        /\ UNCHANGED <<pc, node, new, age>>
    BY <1>4 DEF ReadNext
  <2>2. TypeOK'
    BY <1>1, <2>1 DEF TypeOK, Halves
  <2>3. LocalsOk'
    BY <1>1, <1>4, <2>1 DEF TypeOK, LocalsOk
  <2>4. AgeOk' /\ NewOk'
    BY <1>1, <2>1 DEF TypeOK, AgeOk, NewOk
  <2> QED
    BY <1>2, <2>2, <2>3, <2>4 DEF IInv
<1> QED
  BY <1>3, <1>4

LEMMA ReadWordStep ==
  ASSUME IInv, NEW t \in alive, ReadWord(t)
  PROVE  IInv'
PROOF
<1>1. /\ TypeOK /\ LocalsOk /\ AgeOk /\ NewOk /\ t \in Threads
      /\ pc[t] = "load" /\ "word" \notin got[t]
      /\ old' = [old EXCEPT ![t].depth = head.depth, ![t].seq = head.seq]
      /\ got' = [got EXCEPT ![t] = @ \cup {"word"}]
      /\ ret' = <<>>
      /\ UNCHANGED <<head, next, pc, op, node, new, list, hand, age, alive>>
  BY DEF IInv, TypeOK, ReadWord
<1>2. ChainIsList' /\ NodeOnce' /\ DepthIsLength'
  BY <1>1, Untouched DEF IInv
<1>3. TypeOK'
  BY <1>1 DEF TypeOK, Halves
<1>4. LocalsOk'
  BY <1>1 DEF TypeOK, LocalsOk
<1>5. AgeOk'
  <2> SUFFICES ASSUME NEW u \in alive, "word" \in got'[u]
               PROVE  /\ head.seq = SeqPlus(old'[u].seq, age[u])
                      /\ age[u] = 0 => head.depth <= old'[u].depth
    BY <1>1 DEF AgeOk, TypeOK
  <2>1. CASE u = t
    BY <1>1, <2>1, SeqPlusFacts DEF AgeOk, TypeOK
  <2>2. CASE u # t
    BY <1>1, <2>2 DEF AgeOk, TypeOK
  <2> QED
    BY <2>1, <2>2
<1>6. NewOk'
  BY <1>1 DEF TypeOK, NewOk
<1> QED
  BY <1>2, <1>3, <1>4, <1>5, <1>6 DEF IInv

LEMMA PrepareStep ==
  ASSUME IInv, NEW t \in alive, Prepare(t)
  PROVE  IInv'
PROOF
<1>1. /\ TypeOK /\ ChainIsList /\ NodeOnce /\ LocalsOk /\ AgeOk /\ NewOk /\ t \in Threads
      /\ pc[t] = "load" /\ got[t] = Halves
      /\ pc' = [pc EXCEPT ![t] = "swap"]
      /\ ret' = <<>>
      /\ UNCHANGED <<head, op, node, old, got, list, hand, age, alive>>
  BY DEF IInv, TypeOK, Prepare
<1>2. op[t] \in {"push", "pop", "detach"}
  BY <1>1 DEF TypeOK, Ops
<1>3. CASE op[t] = "push"
  <2>1. /\ next' = [next EXCEPT ![node[t]] = old[t].next]
        /\ new' = new
        /\ node[t] \in hand[t] /\ node[t] \in Nodes
        /\ node[t] \notin S!Items(list)
    BY <1>1, <1>3 DEF Prepare, LocalsOk, NodeOnce, TypeOK
  <2>2. TypeOK'
    BY <1>1, <2>1 DEF TypeOK, Link
  <2>3. ChainIsList'
    <3>1. \A i \in 1..Len(list) : list[i] \in Nodes /\ next'[list[i]] = next[list[i]]
      BY <1>1, <2>1, ElementOfSeq DEF TypeOK, S!Items
    <3> QED
      BY <1>1, <3>1 DEF ChainIsList, S!Top
  <2>4. NodeOnce' /\ DepthIsLength'
    BY <1>1 DEF IInv, NodeOnce, DepthIsLength, S!Items
  <2>5. LocalsOk'
    BY <1>1, <1>3, <2>1 DEF LocalsOk, TypeOK, NodeOnce
  <2>6. AgeOk'
    BY <1>1 DEF AgeOk
  <2>7. NewOk'
    <3> SUFFICES ASSUME NEW u \in alive, pc'[u] = "swap", op[u] = "pop", head = old[u]
                 PROVE  new[u] = next'[head.next]
      BY <1>1, <2>1 DEF NewOk
    <3>1. u # t /\ pc[u] = "swap" /\ u \in Threads
      BY <1>1, <1>3 DEF TypeOK
    <3>2. old[u].next # Null
      BY <1>1, <3>1 DEF LocalsOk, Halves
    <3>3. head.next \in Nodes /\ head.next # node[t]
      BY <1>1, <2>1, <3>2, HeadIsTop
    <3> QED
      BY <1>1, <2>1, <3>1, <3>3 DEF NewOk, TypeOK
  <2> QED
    BY <2>2, <2>3, <2>4, <2>5, <2>6, <2>7 DEF IInv
<1>4. CASE op[t] = "pop"
  <2>1. /\ next' = next
        /\ \E m \in Reads(old[t].next) : new' = [new EXCEPT ![t] = m]
        /\ old[t].next \in Nodes
    BY <1>1, <1>4 DEF Prepare, LocalsOk, TypeOK, Link, Halves
  <2>2. PICK m \in Reads(old[t].next) : new' = [new EXCEPT ![t] = m]
    BY <2>1
  <2>3. m \in Link
    BY <1>1, <2>1, <2>2 DEF Reads, TypeOK
  <2>4. TypeOK'
    BY <1>1, <2>1, <2>2, <2>3 DEF TypeOK
  <2>5. ChainIsList' /\ NodeOnce' /\ DepthIsLength'
    BY <1>1, <2>1, Untouched DEF IInv
  <2>6. LocalsOk' /\ AgeOk'
    BY <1>1, <1>4, <2>1 DEF LocalsOk, AgeOk, TypeOK
  <2>7. NewOk'
    <3> SUFFICES ASSUME NEW u \in alive, pc'[u] = "swap", op[u] = "pop", head = old[u]
                 PROVE  new'[u] = next[head.next]
      BY <1>1, <2>1 DEF NewOk
    <3>1. CASE u = t
      <4>1. head.next # Null
        BY <1>1, <2>1, <3>1, NullAssumption
      <4>2. \A v \in Threads : head.next \notin hand[v]
        BY <1>1, <4>1, HeadIsTop DEF NodeOnce
      <4> QED
        BY <1>1, <2>2, <3>1, <4>2 DEF Reads, TypeOK
    <3>2. CASE u # t
      BY <1>1, <2>2, <3>2 DEF NewOk, TypeOK
    <3> QED
      BY <3>1, <3>2
  <2> QED
    BY <2>4, <2>5, <2>6, <2>7 DEF IInv
<1>5. CASE op[t] = "detach"
  <2>1. UNCHANGED <<next, new>>
    BY <1>5 DEF Prepare
  <2>2. TypeOK'
    BY <1>1, <2>1 DEF TypeOK
  <2>3. ChainIsList' /\ NodeOnce' /\ DepthIsLength'
    BY <1>1, <2>1, Untouched DEF IInv
  <2>4. LocalsOk' /\ AgeOk' /\ NewOk'
    BY <1>1, <1>5, <2>1 DEF LocalsOk, AgeOk, NewOk, TypeOK
  <2> QED
    BY <2>2, <2>3, <2>4 DEF IInv
<1> QED
  BY <1>2, <1>3, <1>4, <1>5

LEMMA RetryStep ==
  ASSUME IInv, NEW t \in alive, Retry(t)
  PROVE  IInv'
PROOF
<1>1. /\ TypeOK /\ LocalsOk /\ AgeOk /\ NewOk /\ t \in Threads
      /\ pc[t] = "swap"
      /\ pc' = [pc EXCEPT ![t] = "load"]
      /\ old' = [old EXCEPT ![t] = Empty]
      /\ got' = [got EXCEPT ![t] = {}]
      /\ new' = [new EXCEPT ![t] = Null]
      /\ age' = [age EXCEPT ![t] = 0]
      /\ ret' = <<>>
      /\ UNCHANGED <<head, next, op, node, list, hand, alive>>
  BY DEF IInv, TypeOK, Retry
<1>2. ChainIsList' /\ NodeOnce' /\ DepthIsLength'
  BY <1>1, Untouched DEF IInv
<1>3. TypeOK'
  BY <1>1, ModAssumption DEF TypeOK, Link, Empty, Halves
<1>4. LocalsOk'
  BY <1>1 DEF TypeOK, LocalsOk
<1>5. AgeOk' /\ NewOk'
  BY <1>1 DEF TypeOK, AgeOk, NewOk
<1> QED
  BY <1>2, <1>3, <1>4, <1>5 DEF IInv

LEMMA SuspendStep ==
  ASSUME IInv, NEW t \in alive, Suspend(t)
  PROVE  IInv'
PROOF
<1>1. /\ TypeOK /\ LocalsOk /\ AgeOk /\ NewOk /\ t \in Threads
      /\ alive' = alive \ {t}
      /\ age' = [age EXCEPT ![t] = 0]
      /\ ret' = <<>>
      /\ UNCHANGED <<head, next, pc, op, node, old, got, new, list, hand>>
  BY DEF IInv, TypeOK, Suspend
<1>2. ChainIsList' /\ NodeOnce' /\ DepthIsLength'
  BY <1>1, Untouched DEF IInv
<1>3. TypeOK'
  BY <1>1, ModAssumption DEF TypeOK
<1>4. LocalsOk'
  BY <1>1 DEF LocalsOk
<1>5. AgeOk' /\ NewOk'
  BY <1>1 DEF TypeOK, AgeOk, NewOk
<1> QED
  BY <1>2, <1>3, <1>4, <1>5 DEF IInv

----------------------------------------------------------------------------
(* The compare-and-swaps that succeed.                                     *)

LEMMA SwapPushStep ==
  ASSUME IInv, NEW t \in alive, SwapPush(t), InTime'
  PROVE  IInv' /\ S!Push(t, node[t])
PROOF
<1> DEFINE n == node[t]
<1>1. /\ TypeOK /\ ChainIsList /\ NodeOnce /\ DepthIsLength /\ LocalsOk /\ AgeOk /\ NewOk
      /\ t \in Threads
      /\ pc[t] = "swap" /\ op[t] = "push" /\ head = old[t]
      /\ head' = Pushed(head, n)
      /\ list' = <<n>> \o list
      /\ hand' = [hand EXCEPT ![t] = @ \ {n}]
      /\ ret' = <<t, head.next>>
      /\ age' = [u \in Threads |-> IF u = t THEN 0 ELSE IF u \in Waiting(t) THEN age[u] + 1 ELSE age[u]]
      /\ Forget(t)
      /\ UNCHANGED <<next, op, alive>>
  BY DEF IInv, TypeOK, SwapPush, Succeeds
<1>2. /\ n \in hand[t] /\ n \in Nodes /\ n \notin S!Items(list)
      /\ next[n] = head.next /\ n # Null
  BY <1>1, NullAssumption DEF LocalsOk, NodeOnce, TypeOK
<1>3. /\ head.depth + 1 < DepthMod
      /\ head' = [next |-> n, depth |-> head.depth + 1, seq |-> SeqPlus(head.seq, 1)]
      /\ head.depth \in Nat /\ head.seq \in 0..SeqMod-1
  BY <1>1, <1>2, Room DEF Pushed, DepthIsLength, TypeOK
<1> HIDE DEF n
<1>4. /\ list' \in Seq(Nodes)
      /\ Len(list') = Len(list) + 1
      /\ Len(list) \in Nat
      /\ list'[1] = n /\ Head(list') = n /\ list' # <<>>
      /\ \A i \in 1..Len(list) : list'[i + 1] = list[i]
  <2>1. list \in Seq(Nodes) /\ <<n>> \in Seq(Nodes) /\ Len(<<n>>) = 1 /\ <<n>>[1] = n
    BY <1>1, <1>2 DEF TypeOK
  <2>2. Len(list) \in Nat
    BY <2>1, LenProperties
  <2>3. /\ list' \in Seq(Nodes)
        /\ Len(list') = 1 + Len(list)
        /\ \A i \in 1..1 + Len(list) : list'[i] = IF i <= 1 THEN <<n>>[i] ELSE list[i - 1]
    BY <1>1, <2>1, ConcatProperties
  <2>4. list' # <<>>
    BY <2>2, <2>3, EmptySeq
  <2>5. Head(list') = list'[1]
    BY <2>3, <2>4, HeadTailProperties
  <2> QED
    BY <2>1, <2>2, <2>3, <2>4, <2>5
<1>5. \A u \in Threads : age'[u] \in 0..SeqMod-1
  BY <1>1, ModAssumption DEF InTime, TypeOK
<1>6. TypeOK'
  <2>1. head' \in [next : Link, depth : 0..DepthMod-1, seq : 0..SeqMod-1]
    BY <1>2, <1>3, SeqPlusFacts, ModAssumption DEF Link, SeqPlus
  <2>2. ret' \in Threads \X Link
    BY <1>1 DEF TypeOK
  <2>3. hand' \in [Threads -> SUBSET Nodes] /\ age' \in [Threads -> 0..SeqMod-1]
    BY <1>1, <1>5 DEF TypeOK
  <2>4. /\ pc' \in [Threads -> {"idle", "load", "swap"}]
        /\ node' \in [Threads -> Link] /\ new' \in [Threads -> Link]
        /\ got' \in [Threads -> SUBSET Halves]
    BY <1>1 DEF TypeOK, Forget, Link
  <2>5. old' \in [Threads -> [next : Link, depth : 0..DepthMod-1, seq : 0..SeqMod-1]]
    BY <1>1, ModAssumption DEF TypeOK, Forget, Link, Empty
  <2> QED
    BY <1>1, <1>4, <2>1, <2>2, <2>3, <2>4, <2>5 DEF TypeOK
<1>7. ChainIsList'
  <2>1. head'.next = S!Top(list')
    BY <1>3, <1>4 DEF S!Top
  <2>2. next[n] = IF Len(list') = 1 THEN Null ELSE list'[2]
    <3>1. CASE list = <<>>
      BY <1>1, <1>2, <1>4, <3>1, HeadIsTop
    <3>2. CASE list # <<>>
      BY <1>1, <1>2, <1>4, <3>2, HeadIsTop
    <3> QED
      BY <3>1, <3>2
  <2>3. ASSUME NEW i \in 1..Len(list')
        PROVE  next[list'[i]] = IF i = Len(list') THEN Null ELSE list'[i + 1]
    <3>1. CASE i = 1
      BY <1>4, <2>2, <3>1
    <3>2. CASE i # 1
      <4>1. i - 1 \in 1..Len(list) /\ list'[i] = list[i - 1]
        BY <1>4, <3>2
      <4>2. next[list[i - 1]] = IF i - 1 = Len(list) THEN Null ELSE list[i]
        BY <1>1, <4>1 DEF ChainIsList
      <4>3. i # Len(list') => list'[i + 1] = list[i]
        BY <1>4
      <4> QED
        BY <1>4, <4>1, <4>2, <4>3
    <3> QED
      BY <3>1, <3>2
  <2> QED
    BY <1>1, <2>1, <2>3 DEF ChainIsList
<1>8. NodeOnce'
  <2>1. \A i \in 1..Len(list') : list'[i] = IF i = 1 THEN n ELSE list[i - 1]
    BY <1>4
  <2>2. \A i \in 1..Len(list) : list[i] # n
    BY <1>2 DEF S!Items
  <2>3. \A i, j \in 1..Len(list') : list'[i] = list'[j] => i = j
    BY <1>1, <1>4, <2>1, <2>2 DEF NodeOnce
  <2>4. S!Items(list') \subseteq S!Items(list) \cup {n}
    <3> SUFFICES ASSUME NEW i \in 1..Len(list')
                 PROVE  list'[i] \in S!Items(list) \cup {n}
      BY DEF S!Items
    <3>1. i # 1 => i - 1 \in 1..Len(list)
      BY <1>4
    <3> QED
      BY <2>1, <3>1 DEF S!Items
  <2>5. /\ \A u \in Threads : hand'[u] \subseteq hand[u] /\ n \notin hand'[u]
        /\ \A u \in Threads : hand[u] \cap S!Items(list) = {}
        /\ \A u, v \in Threads : u # v => hand[u] \cap hand[v] = {}
    BY <1>1, <1>2 DEF NodeOnce, TypeOK
  <2>6. /\ \A u \in Threads : hand'[u] \cap (S!Items(list))' = {}
        /\ \A u, v \in Threads : u # v => hand'[u] \cap hand'[v] = {}
    BY <2>4, <2>5 DEF S!Items
  <2> QED
    BY <2>3, <2>6 DEF NodeOnce
<1>9. DepthIsLength'
  BY <1>1, <1>3, <1>4 DEF DepthIsLength
<1>10. LocalsOk'
  BY <1>1, <1>2 DEF LocalsOk, TypeOK, Forget, NodeOnce
<1>11. AgeOk'
  <2> SUFFICES ASSUME NEW u \in alive
               PROVE  IF "word" \in got'[u]
                      THEN /\ head'.seq = SeqPlus(old'[u].seq, age'[u])
                           /\ age'[u] = 0 => head'.depth <= old'[u].depth
                      ELSE age'[u] = 0
    BY <1>1 DEF AgeOk
  <2>1. CASE u = t
    BY <1>1, <2>1 DEF Forget, TypeOK
  <2>2. CASE u # t /\ "word" \in got[u]
    <3>1. u \in Threads /\ u \in Waiting(t) /\ age'[u] = age[u] + 1
      BY <1>1, <2>2 DEF Waiting, TypeOK
    <3>2. /\ old[u].seq \in 0..SeqMod-1 /\ age[u] \in 0..SeqMod-1 /\ age[u] + 1 < SeqMod
          /\ head.seq = SeqPlus(old[u].seq, age[u])
      BY <1>1, <1>5, <2>2, <3>1 DEF AgeOk, TypeOK, InTime
    <3>3. head'.seq = SeqPlus(old[u].seq, age[u] + 1)
      <4>1. head'.seq = SeqPlus(head.seq, 1)
        BY <1>3
      <4>2. SeqPlus(SeqPlus(old[u].seq, age[u]), 1) = SeqPlus(old[u].seq, age[u] + 1)
        BY <3>2, SeqPlusFacts
      <4> QED
        BY <3>2, <4>1, <4>2
    <3> QED
      BY <1>1, <2>2, <3>1, <3>2, <3>3 DEF Forget, TypeOK
  <2>3. CASE u # t /\ "word" \notin got[u]
    BY <1>1, <2>3 DEF Forget, TypeOK, AgeOk, Waiting
  <2> QED
    BY <2>1, <2>2, <2>3
<1>12. NewOk'
  <2> SUFFICES ASSUME NEW u \in alive, pc'[u] = "swap", op[u] = "pop", head' = old'[u]
               PROVE  FALSE
    BY <1>1 DEF NewOk
  <2>1. u \in Threads /\ u # t /\ pc[u] = "swap" /\ old'[u] = old[u] /\ "word" \in got'[u]
    BY <1>1 DEF Forget, TypeOK, LocalsOk, Halves
  <2>2. u \in Waiting(t) /\ age'[u] = age[u] + 1
    BY <1>1, <2>1 DEF Waiting, TypeOK, LocalsOk, Halves
  <2>3. head'.seq = SeqPlus(head'.seq, age'[u])
    BY <1>1, <1>11, <2>1 DEF AgeOk
  <2>4. age'[u] # 0 /\ age'[u] \in 0..SeqMod-1 /\ head'.seq \in 0..SeqMod-1
    BY <1>1, <1>5, <1>6, <2>1, <2>2 DEF TypeOK
  <2> QED
    BY <2>3, <2>4, SeqPlusFacts
<1>13. S!Push(t, node[t])
  BY <1>1, <1>2 DEF S!Push, ChainIsList, n
<1> QED
  BY <1>6, <1>7, <1>8, <1>9, <1>10, <1>11, <1>12, <1>13 DEF IInv

LEMMA SwapPopStep ==
  ASSUME IInv, NEW t \in alive, SwapPop(t), InTime'
  PROVE  IInv' /\ S!Pop(t)
PROOF
<1> DEFINE n == head.next
<1>1. /\ TypeOK /\ ChainIsList /\ NodeOnce /\ DepthIsLength /\ LocalsOk /\ AgeOk /\ NewOk
      /\ t \in Threads
      /\ pc[t] = "swap" /\ op[t] = "pop" /\ head = old[t]
      /\ head' = Popped(head, new[t])
      /\ list' = SubSeq(list, 2, Len(list))
      /\ hand' = [hand EXCEPT ![t] = @ \cup {n}]
      /\ ret' = <<t, n>>
      /\ age' = [age EXCEPT ![t] = 0]
      /\ Forget(t)
      /\ UNCHANGED <<next, op, alive>>
  BY DEF IInv, TypeOK, SwapPop, Succeeds
<1>2. /\ n # Null /\ n = list[1] /\ n = Head(list) /\ n \in Nodes /\ n \in S!Items(list)
      /\ Len(list) \in Nat \ {0} /\ list # <<>>
      /\ new[t] = next[n]
  BY <1>1, HeadIsTop DEF LocalsOk, NewOk, Halves
<1>3. /\ head' = [next |-> next[n], depth |-> head.depth - 1, seq |-> head.seq]
      /\ head.depth \in 0..DepthMod-1 /\ head.depth > 0 /\ head.seq \in 0..SeqMod-1
  <2>1. head.depth \in 0..DepthMod-1 /\ head.seq \in 0..SeqMod-1
    BY <1>1 DEF TypeOK
  <2>2. head.depth > 0
    BY <1>1, <1>2 DEF DepthIsLength
  <2> QED
    BY <1>1, <1>2, <2>1, <2>2 DEF Popped
<1> HIDE DEF n
<1>T. list' = Tail(list)
  BY <1>1, <1>2, TailIsSubSeq DEF TypeOK
<1>4. /\ list \in Seq(Nodes) /\ list' \in Seq(Nodes)
      /\ Len(list') = Len(list) - 1
      /\ \A i \in 1..Len(list') : list'[i] = list[i + 1]
  <2>1. list \in Seq(Nodes)
    BY <1>1 DEF TypeOK
  <2> QED
    BY <1>2, <1>T, <2>1, HeadTailProperties
<1>5. TypeOK'
  <2>1. head' \in [next : Link, depth : 0..DepthMod-1, seq : 0..SeqMod-1]
    <3>1. next[n] \in Link /\ head.depth - 1 \in 0..DepthMod-1
      BY <1>1, <1>2, <1>3, ModAssumption DEF TypeOK
    <3> QED
      BY <1>3, <3>1
  <2>2. ret' \in Threads \X Link
    BY <1>1, <1>2 DEF Link
  <2>3. hand' \in [Threads -> SUBSET Nodes] /\ age' \in [Threads -> 0..SeqMod-1]
    BY <1>1, <1>2, ModAssumption DEF TypeOK
  <2>4. /\ pc' \in [Threads -> {"idle", "load", "swap"}]
        /\ node' \in [Threads -> Link] /\ new' \in [Threads -> Link]
        /\ got' \in [Threads -> SUBSET Halves]
    BY <1>1 DEF TypeOK, Forget, Link
  <2>5. old' \in [Threads -> [next : Link, depth : 0..DepthMod-1, seq : 0..SeqMod-1]]
    BY <1>1, ModAssumption DEF TypeOK, Forget, Link, Empty
  <2> QED
    BY <1>1, <1>4, <2>1, <2>2, <2>3, <2>4, <2>5 DEF TypeOK
<1>6. ChainIsList'
  <2>1. next[n] = IF Len(list) = 1 THEN Null ELSE list[2]
    <3>1. 1 \in 1..Len(list)
      BY <1>2
    <3>2. next[list[1]] = IF 1 = Len(list) THEN Null ELSE list[1 + 1]
      BY <1>1, <3>1 DEF ChainIsList
    <3> QED
      BY <1>2, <3>2
  <2>2. head'.next = S!Top(list')
    <3>1. CASE Len(list) = 1
      <4>1. list' = <<>>
        BY <1>4, <3>1, EmptySeq
      <4> QED
        BY <1>3, <2>1, <3>1, <4>1 DEF S!Top
    <3>2. CASE Len(list) # 1
      <4>1. list' # <<>> /\ list'[1] = list[2]
        BY <1>2, <1>4, <3>2, EmptySeq
      <4>2. Head(list') = list'[1]
        BY <1>4, <4>1, HeadTailProperties
      <4> QED
        BY <1>3, <2>1, <3>2, <4>1, <4>2 DEF S!Top
    <3> QED
      BY <3>1, <3>2
  <2>3. ASSUME NEW i \in 1..Len(list')
        PROVE  next[list'[i]] = IF i = Len(list') THEN Null ELSE list'[i + 1]
    <3>1. i + 1 \in 1..Len(list) /\ list'[i] = list[i + 1]
      BY <1>2, <1>4
    <3>2. next[list[i + 1]] = IF i + 1 = Len(list) THEN Null ELSE list[i + 2]
      BY <1>1, <3>1 DEF ChainIsList
    <3>3. i # Len(list') => list'[i + 1] = list[i + 2]
      BY <1>2, <1>4
    <3> QED
      BY <1>2, <1>4, <3>1, <3>2, <3>3
  <2> QED
    BY <1>1, <2>2, <2>3 DEF ChainIsList
<1>7. NodeOnce'
  <2>1. \A i, j \in 1..Len(list') : list'[i] = list'[j] => i = j
    BY <1>1, <1>2, <1>4 DEF NodeOnce
  <2>2. S!Items(list') \subseteq S!Items(list) \ {n}
    <3> SUFFICES ASSUME NEW i \in 1..Len(list')
                 PROVE  list'[i] \in S!Items(list) /\ list'[i] # n
      BY DEF S!Items
    <3>1. i + 1 \in 1..Len(list) /\ 1 \in 1..Len(list) /\ i + 1 # 1
      BY <1>2, <1>4
    <3> QED
      BY <1>1, <1>2, <1>4, <3>1 DEF NodeOnce, S!Items
  <2>3. /\ \A u \in Threads : hand'[u] \subseteq hand[u] \cup {n}
        /\ \A u \in Threads : n \notin hand[u]
        /\ \A u \in Threads : u # t => hand'[u] = hand[u]
        /\ \A u \in Threads : hand[u] \cap S!Items(list) = {}
        /\ \A u, v \in Threads : u # v => hand[u] \cap hand[v] = {}
    BY <1>1, <1>2 DEF NodeOnce, TypeOK
  <2>4. (S!Items(list))' \subseteq S!Items(list) \ {n}
    BY <2>2 DEF S!Items
  <2>5. ASSUME NEW u \in Threads
        PROVE  hand'[u] \cap (S!Items(list))' = {}
    BY <2>3, <2>4
  <2>6. ASSUME NEW u \in Threads, NEW v \in Threads, u # v
        PROVE  hand'[u] \cap hand'[v] = {}
    BY <2>3, <2>6
  <2> QED
    BY <2>1, <2>5, <2>6 DEF NodeOnce
<1>8. DepthIsLength'
  BY <1>1, <1>3, <1>4 DEF DepthIsLength
<1>9. LocalsOk'
  BY <1>1 DEF LocalsOk, TypeOK, Forget
<1>10. AgeOk'
  <2> SUFFICES ASSUME NEW u \in alive
               PROVE  IF "word" \in got'[u]
                      THEN /\ head'.seq = SeqPlus(old'[u].seq, age'[u])
                           /\ age'[u] = 0 => head'.depth <= old'[u].depth
                      ELSE age'[u] = 0
    BY <1>1 DEF AgeOk
  <2>1. CASE u = t
    BY <1>1, <2>1 DEF Forget, TypeOK
  <2>2. CASE u # t
    BY <1>1, <1>3, <2>2 DEF Forget, TypeOK, AgeOk
  <2> QED
    BY <2>1, <2>2
<1>11. NewOk'
  <2> SUFFICES ASSUME NEW u \in alive, pc'[u] = "swap", op[u] = "pop", head' = old'[u]
               PROVE  FALSE
    BY <1>1 DEF NewOk
  <2>1. u \in Threads /\ u # t /\ old'[u] = old[u] /\ "word" \in got[u]
    BY <1>1 DEF Forget, TypeOK, LocalsOk, Halves
  <2>2. head.seq = old[u].seq /\ head.seq = SeqPlus(old[u].seq, age[u])
    <3>1. head'.seq = head.seq
      BY <1>3
    <3>2. head'.seq = old[u].seq
      BY <2>1
    <3> QED
      BY <1>1, <2>1, <3>1, <3>2 DEF AgeOk
  <2>3. age[u] = 0
    BY <1>1, <1>3, <2>1, <2>2, SeqPlusFacts DEF TypeOK
  <2>4. head.depth <= old[u].depth /\ old[u].depth = head.depth - 1
    <3>1. head'.depth = head.depth - 1
      BY <1>3
    <3>2. head'.depth = old[u].depth
      BY <2>1
    <3> QED
      BY <1>1, <2>1, <2>3, <3>1, <3>2 DEF AgeOk
  <2> QED
    BY <1>3, <2>4
<1>12. S!Pop(t)
  BY <1>1, <1>2, <1>T DEF S!Pop
<1> QED
  BY <1>5, <1>6, <1>7, <1>8, <1>9, <1>10, <1>11, <1>12 DEF IInv

LEMMA SwapDetachStep ==
  ASSUME IInv, NEW t \in alive, SwapDetach(t), InTime'
  PROVE  IInv' /\ S!Detach(t)
PROOF
<1>1. /\ TypeOK /\ ChainIsList /\ NodeOnce /\ DepthIsLength /\ LocalsOk /\ AgeOk /\ NewOk
      /\ t \in Threads
      /\ pc[t] = "swap" /\ op[t] = "detach" /\ head = old[t]
      /\ head' = [next |-> Null, depth |-> 0, seq |-> head.seq]
      /\ list' = <<>>
      /\ hand' = [hand EXCEPT ![t] = @ \cup S!Items(list)]
      /\ ret' = <<t, head.next>>
      /\ age' = [age EXCEPT ![t] = 0]
      /\ Forget(t)
      /\ UNCHANGED <<next, op, alive>>
  BY DEF IInv, TypeOK, SwapDetach, Detached, Succeeds
<1>2. /\ head.next # Null /\ head.next = Head(list) /\ list # <<>>
  BY <1>1, HeadIsTop DEF LocalsOk, Halves
<1>3. S!Items(list) \subseteq Nodes
  BY <1>1, ElementOfSeq DEF S!Items, TypeOK
<1>4. list' \in Seq(Nodes) /\ Len(list') = 0 /\ (S!Items(list))' = {}
  BY <1>1 DEF S!Items
<1>5. TypeOK'
  <2>1. head' \in [next : Link, depth : 0..DepthMod-1, seq : 0..SeqMod-1]
    BY <1>1, ModAssumption DEF TypeOK, Link
  <2>2. ret' \in Threads \X Link
    BY <1>1 DEF TypeOK
  <2>3. hand' \in [Threads -> SUBSET Nodes] /\ age' \in [Threads -> 0..SeqMod-1]
    BY <1>1, <1>3, ModAssumption DEF TypeOK
  <2>4. /\ pc' \in [Threads -> {"idle", "load", "swap"}]
        /\ node' \in [Threads -> Link] /\ new' \in [Threads -> Link]
        /\ got' \in [Threads -> SUBSET Halves]
    BY <1>1 DEF TypeOK, Forget, Link
  <2>5. old' \in [Threads -> [next : Link, depth : 0..DepthMod-1, seq : 0..SeqMod-1]]
    BY <1>1, ModAssumption DEF TypeOK, Forget, Link, Empty
  <2> QED
    BY <1>1, <1>4, <2>1, <2>2, <2>3, <2>4, <2>5 DEF TypeOK
<1>6. ChainIsList' /\ DepthIsLength'
  BY <1>1, <1>4 DEF ChainIsList, DepthIsLength, S!Top
<1>7. NodeOnce'
  BY <1>1, <1>4 DEF NodeOnce, TypeOK
<1>8. LocalsOk'
  BY <1>1 DEF LocalsOk, TypeOK, Forget
<1>9. AgeOk'
  BY <1>1 DEF AgeOk, TypeOK, Forget
<1>10. NewOk'
  <2> SUFFICES ASSUME NEW u \in alive, pc'[u] = "swap", op[u] = "pop", head' = old'[u]
               PROVE  FALSE
    BY <1>1 DEF NewOk
  <2>1. u \in Threads /\ u # t /\ pc[u] = "swap" /\ old'[u] = old[u]
    BY <1>1 DEF Forget, TypeOK
  <2>2. old[u].next # Null
    BY <1>1, <2>1 DEF LocalsOk, Halves
  <2>3. head'.next = Null
    BY <1>1
  <2> QED
    BY <2>1, <2>2, <2>3
<1>11. S!Detach(t)
  BY <1>1, <1>2 DEF S!Detach
<1> QED
  BY <1>5, <1>6, <1>7, <1>8, <1>9, <1>10, <1>11 DEF IInv

----------------------------------------------------------------------------
(* The theorems.                                                           *)

LEMMA InitInv ==
  ASSUME Init
  PROVE  IInv
PROOF
<1>1. /\ S!Init
      /\ head = Empty /\ list = <<>> /\ ret = <<>>
      /\ hand \in [Threads -> SUBSET Nodes]
      /\ \A n \in Nodes : \E t \in Threads : \A u \in Threads : n \in hand[u] <=> u = t
  BY DEF Init, S!Init
<1>2. TypeOK
  BY <1>1, ModAssumption DEF Init, TypeOK, Link, Empty, Ops, Halves
<1>3. ChainIsList /\ DepthIsLength
  BY <1>1 DEF ChainIsList, DepthIsLength, Empty, S!Top
<1>4. NodeOnce
  <2>1. \A t, u \in Threads : t # u => hand[t] \cap hand[u] = {}
    BY <1>1
  <2> QED
    BY <1>1, <2>1 DEF NodeOnce, S!Items
<1>5. LocalsOk /\ AgeOk /\ NewOk
  BY <1>1 DEF Init, LocalsOk, AgeOk, NewOk
<1> QED
  BY <1>2, <1>3, <1>4, <1>5 DEF IInv

\* Every step keeps the invariant, and is a step of the atomic stack.
LEMMA NextStep ==
  ASSUME IInv, Next
  PROVE  IInv' /\ S!Next
PROOF
<1>1. PICK t \in alive : Run(t) \/ Start(t) \/ Suspend(t)
  BY DEF Next
<1>2. t \in Threads /\ InTime'
  BY DEF Next, IInv, TypeOK
<1>3. CASE ReadNext(t)
  <2>1. IInv'
    BY <1>3, ReadNextStep
  <2>2. ASSUME op[t] # "push", head.next = Null PROVE S!FindEmpty(t)
    <3>1. list = <<>>
      BY <2>2, HeadIsTop DEF IInv
    <3> QED
      BY <1>3, <2>2, <3>1 DEF ReadNext, S!FindEmpty
  <2>3. ASSUME op[t] = "push" \/ head.next # Null PROVE S!Quiet
    BY <1>3, <2>3 DEF ReadNext, S!Quiet
  <2> QED
    BY <1>2, <2>1, <2>2, <2>3 DEF S!Next
<1>4. CASE ReadWord(t)
  <2>1. S!Quiet
    BY <1>4 DEF ReadWord, S!Quiet
  <2> QED
    BY <1>4, <2>1, ReadWordStep DEF S!Next
<1>5. CASE Prepare(t)
  <2>1. S!Quiet
    BY <1>5 DEF Prepare, S!Quiet
  <2> QED
    BY <1>5, <2>1, PrepareStep DEF S!Next
<1>6. CASE Retry(t)
  BY <1>6, RetryStep DEF Retry, S!Next, S!Quiet
<1>7. CASE SwapPush(t)
  <2>1. node[t] \in Nodes
    BY <1>2, <1>7 DEF IInv, TypeOK, LocalsOk, SwapPush
  <2> QED
    BY <1>2, <1>7, <2>1, SwapPushStep DEF S!Next
<1>8. CASE SwapPop(t)
  <2>1. IInv' /\ S!Pop(t)
    BY <1>2, <1>8, SwapPopStep
  <2> QED
    BY <1>2, <2>1 DEF S!Next
<1>9. CASE SwapDetach(t)
  <2>1. IInv' /\ S!Detach(t)
    BY <1>2, <1>9, SwapDetachStep
  <2> QED
    BY <1>2, <2>1 DEF S!Next
<1>10. CASE Start(t)
  <2>1. Push(t, node'[t]) \/ Pop(t) \/ Detach(t)
    BY <1>2, <1>10 DEF Start, Push, Pop, Detach, Call, IInv, TypeOK
  <2> QED
    BY <2>1, CallStep DEF Push, Pop, Detach, Call, S!Next, S!Quiet
<1>11. CASE Suspend(t)
  BY <1>11, SuspendStep DEF Suspend, S!Next, S!Quiet
<1> QED
  BY <1>1, <1>3, <1>4, <1>5, <1>6, <1>7, <1>8, <1>9, <1>10, <1>11 DEF Run

(* The inductive invariant holds.                                          *)
THEOREM Invariance == Spec => []IInv
PROOF
<1>1. Init => IInv
  BY InitInv
<1>2. IInv /\ [Next]_vars => IInv'
  <2>1. IInv /\ UNCHANGED vars => IInv'
    BY DEF vars, IInv, TypeOK, ChainIsList, NodeOnce, DepthIsLength, LocalsOk, AgeOk, NewOk,
           S!Top, S!Items
  <2> QED
    BY <2>1, NextStep
<1> QED
  BY <1>1, <1>2, PTL DEF Spec

(* Two threads never get the same node, and a node of the list is nobody's: *)
(* the promise Push, Pop and Detach of tslist.h make to their callers.      *)
THEOREM NoNodeTwice == Spec => []NodeOnce
BY Invariance, PTL DEF IInv

(* The pointers of the nodes are the list, and Count() is how many it has.  *)
THEOREM ChainAndDepth == Spec => [](ChainIsList /\ DepthIsLength)
BY Invariance, PTL DEF IInv

(* CTSListBase is an atomic stack: every operation takes effect at one      *)
(* moment and answers the top of that moment.                               *)
THEOREM Linearizable == Spec => ImplementsAtomicStack
PROOF
<1>1. Init => S!Init
  BY DEF Init
<1>2. IInv /\ [Next]_vars => [S!Next]_S!stackVars
  BY NextStep DEF vars, S!stackVars
<1> QED
  BY <1>1, <1>2, Invariance, PTL DEF Spec, ImplementsAtomicStack, S!Spec
====
