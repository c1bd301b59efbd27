---- MODULE TSList ----
(***************************************************************************)
(* CTSListBase (public/tier0/tslist.h), the engine's lock-free list: Push, *)
(* Pop and Detach by any number of threads, one step for each access to    *)
(* shared memory.  The head is replaced by one compare-and-swap of both of *)
(* its halves, but it is read half by half, in whichever order the         *)
(* compiler chose.                                                         *)
(***************************************************************************)
EXTENDS Naturals, Sequences, FiniteSets

CONSTANTS
  Threads,    \* the threads that use the list
  Nodes,      \* the memory of the nodes
  Null,       \* NULL
  SeqMod,     \* the values of the 16 bits of Sequence
  DepthMod,   \* the values of the 16 bits of Depth
  Stoppable   \* the threads the scheduler may suspend for good

ASSUME NullAssumption == Null \notin Nodes
ASSUME ModAssumption == SeqMod \in Nat /\ SeqMod >= 2 /\ DepthMod \in Nat /\ DepthMod >= 2
\* The head cannot count more nodes than RunTSListTests calls the list's limit.
ASSUME NodesAssumption == IsFiniteSet(Nodes) /\ Cardinality(Nodes) < DepthMod
ASSUME StoppableAssumption == Stoppable \subseteq Threads

VARIABLES
  head,     \* m_Head: next, depth, seq
  next,     \* next[n]: n->Next
  pc,       \* pc[t]: where thread t is
  op,       \* op[t]: the operation it runs
  node,     \* node[t]: pNode, the node it pushes
  old,      \* old[t]: oldHead
  got,      \* got[t]: the halves of oldHead it has read
  new,      \* new[t]: newHead.value.Next
  list,     \* history: the nodes of the list, the top first
  hand,     \* history: hand[t], the nodes that belong to thread t
  ret,      \* history: <<t, n>> right after an operation of t answered n, else <<>>
  age,      \* history: age[t], pushes since thread t read the sequence
  alive     \* the threads the scheduler has not suspended for good

vars == <<head, next, pc, op, node, old, got, new, list, hand, ret, age, alive>>

S == INSTANCE AtomicStack

Ops == {"push", "pop", "detach"}
Halves == {"next", "word"}
Link == Nodes \cup {Null}
Empty == [next |-> Null, depth |-> 0, seq |-> 0]

Init ==
  /\ S!Init
  /\ head = Empty
  /\ next = [n \in Nodes |-> Null]
  /\ pc = [t \in Threads |-> "idle"]
  /\ op = [t \in Threads |-> "pop"]
  /\ node = [t \in Threads |-> Null]
  /\ old = [t \in Threads |-> Empty]
  /\ got = [t \in Threads |-> {}]
  /\ new = [t \in Threads |-> Null]
  /\ age = [t \in Threads |-> 0]
  /\ alive = Threads

----------------------------------------------------------------------------
(* The word DepthAndSequence: Depth is its low half, so what is added to    *)
(* Depth carries into Sequence and what is taken from it borrows.           *)

SeqPlus(s, k) == IF s + k >= SeqMod THEN s + k - SeqMod ELSE s + k
SeqMinus(s) == IF s = 0 THEN SeqMod - 1 ELSE s - 1

\* Mutant: oldHead + 1, a depth without a sequence.
PushedDepth(h, n) == [next |-> n, depth |-> (h.depth + 1) % DepthMod, seq |-> h.seq]

\* oldHead + 0x10001.
Pushed(h, n) ==
  IF h.depth + 1 = DepthMod
  THEN [next |-> n, depth |-> 0, seq |-> SeqPlus(h.seq, 2)]
  ELSE [next |-> n, depth |-> h.depth + 1, seq |-> SeqPlus(h.seq, 1)]

\* oldHead - 1.
Popped(h, n) ==
  IF h.depth = 0
  THEN [next |-> n, depth |-> DepthMod - 1, seq |-> SeqMinus(h.seq)]
  ELSE [next |-> n, depth |-> h.depth - 1, seq |-> h.seq]

\* oldHead & 0xffff0000.
Detached(h) == [next |-> Null, depth |-> 0, seq |-> h.seq]

----------------------------------------------------------------------------
(* The operations.                                                         *)

\* The locals of a thread that returned.
Forget(t) ==
  /\ pc' = [pc EXCEPT ![t] = "idle"]
  /\ node' = [node EXCEPT ![t] = Null]
  /\ old' = [old EXCEPT ![t] = Empty]
  /\ got' = [got EXCEPT ![t] = {}]
  /\ new' = [new EXCEPT ![t] = Null]

Call(t, o, n) ==
  /\ pc[t] = "idle"
  /\ pc' = [pc EXCEPT ![t] = "load"]
  /\ op' = [op EXCEPT ![t] = o]
  /\ node' = [node EXCEPT ![t] = n]
  /\ ret' = <<>>
  /\ UNCHANGED <<head, next, old, got, new, list, hand, age, alive>>

Push(t, n) == n \in hand[t] /\ Call(t, "push", n)
Pop(t) == Call(t, "pop", Null)
Detach(t) == Call(t, "detach", Null)

\* The half Next of oldHead: Pop and Detach of an empty list return here.
ReadNext(t) ==
  /\ pc[t] = "load"
  /\ "next" \notin got[t]
  /\ IF op[t] # "push" /\ head.next = Null
     THEN /\ ret' = <<t, Null>>
          /\ age' = [age EXCEPT ![t] = 0]
          /\ Forget(t)
     ELSE /\ old' = [old EXCEPT ![t].next = head.next]
          /\ got' = [got EXCEPT ![t] = @ \cup {"next"}]
          /\ ret' = <<>>
          /\ UNCHANGED <<pc, node, new, age>>
  /\ UNCHANGED <<head, next, op, list, hand, alive>>

\* The half DepthAndSequence of oldHead.
ReadWord(t) ==
  /\ pc[t] = "load"
  /\ "word" \notin got[t]
  /\ old' = [old EXCEPT ![t].depth = head.depth, ![t].seq = head.seq]
  /\ got' = [got EXCEPT ![t] = @ \cup {"word"}]
  /\ ret' = <<>>
  /\ UNCHANGED <<head, next, pc, op, node, new, list, hand, age, alive>>

\* What n->Next may read.  The memory of a node that is not in the list is its
\* owner's: CTSSimpleList overlays Next on the object, CTSList::PopItem deletes it.
Reads(n) == IF \E t \in Threads : n \in hand[t] THEN Link ELSE {next[n]}

\* pNode->Next = oldHead.Next in Push, newHead.Next = oldHead.Next->Next in Pop.
Prepare(t) ==
  /\ pc[t] = "load"
  /\ got[t] = Halves
  /\ pc' = [pc EXCEPT ![t] = "swap"]
  /\ CASE op[t] = "push" -> /\ next' = [next EXCEPT ![node[t]] = old[t].next]
                            /\ UNCHANGED new
       [] op[t] = "pop" -> /\ \E m \in Reads(old[t].next) : new' = [new EXCEPT ![t] = m]
                           /\ UNCHANGED next
       [] op[t] = "detach" -> UNCHANGED <<next, new>>
  /\ ret' = <<>>
  /\ UNCHANGED <<head, op, node, old, got, list, hand, age, alive>>

SamePointer(t) == head.next = old[t].next          \* mutant: half of the head is compared
\* ThreadInterlockedAssignIf64x128 compares both halves.
Succeeds(t) == head = old[t]

\* Mutant: the head is not read again.
RetryStale(t) ==
  /\ pc[t] = "swap"
  /\ ~ Succeeds(t)
  /\ pc' = [pc EXCEPT ![t] = "load"]
  /\ ret' = <<>>
  /\ UNCHANGED <<head, next, op, node, old, got, new, list, hand, age, alive>>

\* The compare-and-swap fails: once more from the top of the loop.
Retry(t) ==
  /\ pc[t] = "swap"
  /\ ~ Succeeds(t)
  /\ pc' = [pc EXCEPT ![t] = "load"]
  /\ old' = [old EXCEPT ![t] = Empty]
  /\ got' = [got EXCEPT ![t] = {}]
  /\ new' = [new EXCEPT ![t] = Null]
  /\ age' = [age EXCEPT ![t] = 0]
  /\ ret' = <<>>
  /\ UNCHANGED <<head, next, op, node, list, hand, alive>>

\* Threads that hold a sequence another thread's push makes older.
Waiting(t) == {u \in alive \ {t} : "word" \in got[u]}

SwapPush(t) ==
  /\ pc[t] = "swap" /\ op[t] = "push"
  /\ Succeeds(t)
  /\ head' = Pushed(old[t], node[t])
  /\ list' = <<node[t]>> \o list
  /\ hand' = [hand EXCEPT ![t] = @ \ {node[t]}]
  /\ ret' = <<t, old[t].next>>
  /\ age' = [u \in Threads |-> IF u = t THEN 0 ELSE IF u \in Waiting(t) THEN age[u] + 1 ELSE age[u]]
  /\ Forget(t)
  /\ UNCHANGED <<next, op, alive>>

SwapPop(t) ==
  /\ pc[t] = "swap" /\ op[t] = "pop"
  /\ Succeeds(t)
  /\ head' = Popped(old[t], new[t])
  /\ list' = SubSeq(list, 2, Len(list))
  /\ hand' = [hand EXCEPT ![t] = @ \cup {old[t].next}]
  /\ ret' = <<t, old[t].next>>
  /\ age' = [age EXCEPT ![t] = 0]
  /\ Forget(t)
  /\ UNCHANGED <<next, op, alive>>

SwapDetach(t) ==
  /\ pc[t] = "swap" /\ op[t] = "detach"
  /\ Succeeds(t)
  /\ head' = Detached(old[t])
  /\ list' = <<>>
  /\ hand' = [hand EXCEPT ![t] = @ \cup S!Items(list)]
  /\ ret' = <<t, old[t].next>>
  /\ age' = [age EXCEPT ![t] = 0]
  /\ Forget(t)
  /\ UNCHANGED <<next, op, alive>>

\* The scheduler never runs thread t again, wherever it is.
Suspend(t) ==
  /\ t \in Stoppable
  /\ alive' = alive \ {t}
  /\ age' = [age EXCEPT ![t] = 0]
  /\ ret' = <<>>
  /\ UNCHANGED <<head, next, pc, op, node, old, got, new, list, hand>>

----------------------------------------------------------------------------
\* What a thread in the middle of an operation does next.
Run(t) ==
  \/ ReadNext(t)
  \/ ReadWord(t)
  \/ Prepare(t)
  \/ Retry(t)
  \/ SwapPush(t)
  \/ SwapPop(t)
  \/ SwapDetach(t)

Start(t) ==
  \/ \E n \in Nodes : Push(t, n)
  \/ Pop(t)
  \/ Detach(t)

\* No thread that goes on holds a sequence while it comes round.
InTime == \A t \in Threads : age[t] < SeqMod

Next ==
  /\ \E t \in alive : Run(t) \/ Start(t) \/ Suspend(t)
  /\ InTime'

Spec == Init /\ [][Next]_vars

\* Threads that are not suspended go on.
LiveSpec == Spec /\ \A t \in Threads : WF_vars(t \in alive /\ Run(t) /\ InTime')

----------------------------------------------------------------------------
TypeOK ==
  /\ head \in [next : Link, depth : 0..DepthMod-1, seq : 0..SeqMod-1]
  /\ next \in [Nodes -> Link]
  /\ pc \in [Threads -> {"idle", "load", "swap"}]
  /\ op \in [Threads -> Ops]
  /\ node \in [Threads -> Link]
  /\ old \in [Threads -> [next : Link, depth : 0..DepthMod-1, seq : 0..SeqMod-1]]
  /\ got \in [Threads -> SUBSET Halves]
  /\ new \in [Threads -> Link]
  /\ list \in Seq(Nodes)
  /\ hand \in [Threads -> SUBSET Nodes]
  /\ ret \in (Threads \X Link) \cup {<<>>}
  /\ age \in [Threads -> 0..SeqMod-1]
  /\ alive \in SUBSET Threads

\* The pointers from m_Head.Next on lead through exactly the nodes of the
\* list, to NULL: what Purge and RemoveAll walk after a Detach, while other
\* threads still hold stale heads.
ChainIsList ==
  /\ head.next = S!Top(list)
  /\ \A i \in 1..Len(list) : next[list[i]] = IF i = Len(list) THEN Null ELSE list[i + 1]

\* No node is in two places: two threads never get the same node, and a node
\* in the list belongs to nobody (the ABA problem Sequence is there for).
NodeOnce ==
  /\ \A i, j \in 1..Len(list) : list[i] = list[j] => i = j
  /\ \A t \in Threads : hand[t] \cap S!Items(list) = {}
  /\ \A t, u \in Threads : t # u => hand[t] \cap hand[u] = {}

\* Count() answers the number of nodes in the list.
DepthIsLength == head.depth = Len(list)

\* CTSListBase implements the atomic stack: each Push, Pop and Detach takes
\* effect at one moment between its call and its return, and returns the top
\* of that moment.
ImplementsAtomicStack == S!Spec

\* Lock freedom ("Lock free list."): when threads are suspended in the middle
\* of an operation, and others are not, operations go on returning.
Returns(t) == pc[t] # "idle" /\ pc'[t] = "idle"
LockFree ==
  <>[](\E t \in alive : pc[t] # "idle") => []<><<\E t \in Threads : Returns(t)>>_vars
====
