---- MODULE TSQueue ----
(***************************************************************************)
(* CTSQueue (public/tier0/tslist.h), the engine's lock-free queue, one     *)
(* step for each access to shared memory.  m_FreeNodes is a CTSListBase:   *)
(* by TSListProofs!Linearizable it is an atomic stack here.                *)
(***************************************************************************)
EXTENDS Naturals, Integers, Sequences, FiniteSets

CONSTANTS
  Threads,     \* the threads that use the queue
  Nodes,       \* the memory of the nodes, the bound on new Node_t
  Null, End,   \* NULL, and the End() that closes the queue
  MaxPush,     \* bound: the items pushed
  Recycle,     \* PushItem and PopItem with the free list, or Push and Pop of
               \* nodes that are not used again
  Stoppable    \* the threads the scheduler may suspend for good

ASSUME PtrAssumption == Nodes # {} /\ Null \notin Nodes /\ End \notin Nodes /\ Null # End
ASSUME BoundAssumption == MaxPush \in Nat /\ Recycle \in BOOLEAN /\ Stoppable \subseteq Threads

VARIABLES
  head,       \* m_Head: node, seq
  tail,       \* m_Tail: node, seq
  next,       \* next[n]: n->pNext, in the free list n->Next
  elem,       \* elem[n]: n->elem
  free,       \* m_FreeNodes
  unused,     \* the nodes not allocated yet
  count,      \* m_Count
  pc,         \* pc[t]: where thread t is
  loc,        \* loc[t]: its locals
  pushes,     \* history: items pushed so far; they are 1, 2, ...
  linked,     \* history: the items in the order they were linked
  popped,     \* history: the items in the order they were popped
  sawEmpty,   \* history: sawEmpty[t], as in AtomicQueue
  ret,        \* history: as in AtomicQueue
  alive       \* the threads the scheduler has not suspended for good

shared == <<head, tail, next, elem, free, unused, count>>
history == <<pushes, linked, popped, sawEmpty>>
vars == <<shared, pc, loc, history, ret, alive>>

Values == 1..MaxPush
NoItem == 0

\* new: the node to push; node, seq: oldTail or head; tseq: tailSequence.
Blank == [new |-> Null, node |-> Null, seq |-> 0, tseq |-> 0, next |-> Null, elem |-> NoItem]

\* What new Node_t answers: nodes that were never used are alike.
NewNode(memory) == CHOOSE n \in memory : TRUE

Init ==
  /\ head = [node |-> NewNode(Nodes), seq |-> 0]
  /\ tail = head
  /\ next = [n \in Nodes |-> IF n = head.node THEN End ELSE Null]
  /\ unused = Nodes \ {head.node}
  /\ elem = [n \in Nodes |-> NoItem]
  /\ free = <<>>
  /\ count = 0
  /\ pc = [t \in Threads |-> "idle"]
  /\ loc = [t \in Threads |-> Blank]
  /\ pushes = 0
  /\ linked = <<>>
  /\ popped = <<>>
  /\ sawEmpty = [t \in Threads |-> FALSE]
  /\ ret = <<>>
  /\ alive = Threads

----------------------------------------------------------------------------
Goto(t, l) == pc' = [pc EXCEPT ![t] = l]

\* A step from label l that reads shared memory into the locals.
Read(t, l, locals) ==
  /\ pc[t] = l
  /\ loc' = [loc EXCEPT ![t] = locals]
  /\ ret' = <<>>
  /\ UNCHANGED <<shared, history, alive>>

\* A step from label l that leaves the locals alone.
Step(t, l) ==
  /\ pc[t] = l
  /\ ret' = <<>>
  /\ UNCHANGED <<loc, alive>>

\* FinishPush: the tail moves to n if it is still what the thread read.
FinishPush(n, oldTail) == tail' = IF tail = oldTail THEN [node |-> n, seq |-> oldTail.seq + 1] ELSE tail

OldTail(t) == [node |-> loc[t].node, seq |-> loc[t].seq]

----------------------------------------------------------------------------
(* Push                                                                    *)

\* PushItem takes a node from m_FreeNodes, or a new one.
PushItem(t) ==
  /\ pc[t] = "idle"
  /\ pushes < MaxPush
  /\ free # <<>> \/ unused # {}
  /\ LET n == IF free = <<>> THEN NewNode(unused) ELSE Head(free) IN
       /\ loc' = [loc EXCEPT ![t] = [Blank EXCEPT !.new = n]]
       /\ elem' = [elem EXCEPT ![n] = pushes + 1]
       /\ free' = IF free = <<>> THEN free ELSE Tail(free)
       /\ unused' = unused \ {n}
  /\ pushes' = pushes + 1
  /\ ret' = <<>>
  /\ Goto(t, "pushEnd")
  /\ UNCHANGED <<head, tail, next, count, linked, popped, sawEmpty, alive>>

SetEnd(t) ==
  /\ Step(t, "pushEnd")
  /\ next' = [next EXCEPT ![loc[t].new] = End]
  /\ Goto(t, "pushSeq")
  /\ UNCHANGED <<head, tail, elem, free, unused, count, history>>

ReadTailSeq(t) ==
  /\ Read(t, "pushSeq", [Blank EXCEPT !.new = loc[t].new, !.seq = tail.seq])
  /\ Goto(t, "pushNode")

ReadTailNode(t) ==
  /\ Read(t, "pushNode", [loc[t] EXCEPT !.node = tail.node])
  /\ Goto(t, "pushLink")

\* The compare-and-swap of oldTail's pNext from End() to the new node.
LinkNode(t) ==
  /\ Step(t, "pushLink")
  /\ next[loc[t].node] = End
  /\ next' = [next EXCEPT ![loc[t].node] = loc[t].new]
  /\ linked' = Append(linked, elem[loc[t].new])
  /\ Goto(t, "pushFinish")
  /\ UNCHANGED <<head, tail, elem, free, unused, count, pushes, popped, sawEmpty>>

LinkFails(t) ==
  /\ Step(t, "pushLink")
  /\ next[loc[t].node] # End
  /\ Goto(t, "pushHelp")
  /\ UNCHANGED <<shared, history>>

\* Another thread is trying to push: its node is read once more, and the
\* tail moved to it.
ReadHelped(t) ==
  /\ Read(t, "pushHelp", [loc[t] EXCEPT !.next = next[loc[t].node]])
  /\ Goto(t, "pushHelpTail")

\* Mutant: a push that finds the queue not closed only tries again.
HelpPushNot(t) ==
  /\ Step(t, "pushHelpTail")
  /\ Goto(t, "pushSeq")
  /\ UNCHANGED <<shared, history>>

HelpPush(t) ==
  /\ Step(t, "pushHelpTail")
  /\ FinishPush(loc[t].next, OldTail(t))
  /\ Goto(t, "pushSeq")
  /\ UNCHANGED <<head, next, elem, free, unused, count, history>>

MoveTail(t) ==
  /\ Step(t, "pushFinish")
  /\ FinishPush(loc[t].new, OldTail(t))
  /\ Goto(t, "pushCount")
  /\ UNCHANGED <<head, next, elem, free, unused, count, history>>

CountUp(t) ==
  /\ pc[t] = "pushCount"
  /\ count' = count + 1
  /\ loc' = [loc EXCEPT ![t] = Blank]
  /\ ret' = <<>>
  /\ Goto(t, "idle")
  /\ UNCHANGED <<head, tail, next, elem, free, unused, history, alive>>

----------------------------------------------------------------------------
(* Pop                                                                     *)

Remaining == SubSeq(linked, Len(popped) + 1, Len(linked))

PopItem(t) ==
  /\ Step(t, "idle")
  /\ sawEmpty' = [sawEmpty EXCEPT ![t] = Remaining = <<>>]
  /\ Goto(t, "popSeq")
  /\ UNCHANGED <<shared, pushes, linked, popped>>

ReadHeadSeq(t) ==
  /\ Read(t, "popSeq", [Blank EXCEPT !.seq = head.seq])
  /\ Goto(t, "popNode")

ReadHeadNode(t) ==
  /\ Read(t, "popNode", [loc[t] EXCEPT !.node = head.node])
  /\ Goto(t, "popTailSeq")

ReadTailSequence(t) ==
  /\ Read(t, "popTailSeq", [loc[t] EXCEPT !.tseq = tail.seq])
  /\ Goto(t, "popNext")

ReadNext(t) ==
  /\ Read(t, "popNext", [loc[t] EXCEPT !.next = next[loc[t].node]])
  /\ Goto(t, "popCheck")

\* pNext is worth something if the head has not moved meanwhile.
CheckSeq(t) ==
  /\ Step(t, "popCheck")
  /\ Goto(t, IF loc[t].next = Null \/ loc[t].seq # head.seq THEN "popSeq" ELSE "popTail")
  /\ UNCHANGED <<shared, history>>

\* Mutant: head and tail at one node are taken for an empty queue.
PopEmptyAtTail(t) ==
  /\ pc[t] = "popTail"
  /\ loc[t].node = tail.node
  /\ loc' = [loc EXCEPT ![t] = Blank]
  /\ ret' = <<t, NoItem>>
  /\ Goto(t, "idle")
  /\ UNCHANGED <<shared, history, alive>>

PopEmpty(t) ==
  /\ pc[t] = "popTail"
  /\ loc[t].node = tail.node
  /\ loc[t].next = End
  /\ loc' = [loc EXCEPT ![t] = Blank]
  /\ ret' = <<t, NoItem>>
  /\ Goto(t, "idle")
  /\ UNCHANGED <<shared, history, alive>>

CheckTail(t) ==
  /\ Step(t, "popTail")
  /\ ~ (loc[t].node = tail.node /\ loc[t].next = End)
  /\ Goto(t, IF loc[t].node = tail.node THEN "popHelp"
             ELSE IF loc[t].next # End THEN "popElem"
             ELSE "popSeq")
  /\ UNCHANGED <<shared, history>>

\* Mutant: the push that was helped along is counted, too.
HelpPopCounts(t) ==
  /\ Step(t, "popHelp")
  /\ FinishPush(loc[t].next, [node |-> loc[t].node, seq |-> loc[t].tseq])
  /\ count' = count + (IF tail' = tail THEN 0 ELSE 1)
  /\ Goto(t, "popSeq")
  /\ UNCHANGED <<head, next, elem, free, unused, history>>

\* Another thread is trying to push, help it along.
HelpPop(t) ==
  /\ Step(t, "popHelp")
  /\ FinishPush(loc[t].next, [node |-> loc[t].node, seq |-> loc[t].tseq])
  /\ Goto(t, "popSeq")
  /\ UNCHANGED <<head, next, elem, free, unused, count, history>>

ReadElem(t) ==
  /\ Read(t, "popElem", [loc[t] EXCEPT !.elem = elem[loc[t].next]])
  /\ Goto(t, "popSwap")

HeadMovedNode(t) == head.node # loc[t].node   \* mutant: compared without the sequence
HeadMoved(t) == head # [node |-> loc[t].node, seq |-> loc[t].seq]

TakeHead(t) ==
  /\ pc[t] = "popSwap"
  /\ ~ HeadMoved(t)
  /\ head' = [node |-> loc[t].next, seq |-> loc[t].seq + 1]
  /\ popped' = Append(popped, loc[t].elem)
  /\ ret' = <<t, loc[t].elem>>
  /\ sawEmpty' = [u \in Threads |-> sawEmpty[u] \/ Len(popped') = Len(linked)]
  /\ Goto(t, "popCount")
  /\ UNCHANGED <<tail, next, elem, free, unused, count, pushes, linked, loc, alive>>

TakeFails(t) ==
  /\ Step(t, "popSwap")
  /\ HeadMoved(t)
  /\ Goto(t, "popSeq")
  /\ UNCHANGED <<shared, history>>

CountDown(t) ==
  /\ Step(t, "popCount")
  /\ count' = count - 1
  /\ Goto(t, "popFree")
  /\ UNCHANGED <<head, tail, next, elem, free, unused, history>>

\* The old dummy takes the item and goes to the free list.
FreeNode(t) ==
  /\ pc[t] = "popFree"
  /\ elem' = [elem EXCEPT ![loc[t].node] = loc[t].elem]
  /\ IF Recycle
     THEN /\ next' = [next EXCEPT ![loc[t].node] = IF free = <<>> THEN Null ELSE Head(free)]
          /\ free' = <<loc[t].node>> \o free
     ELSE UNCHANGED <<next, free>>
  /\ loc' = [loc EXCEPT ![t] = Blank]
  /\ ret' = <<>>
  /\ Goto(t, "idle")
  /\ UNCHANGED <<head, tail, unused, count, history, alive>>

----------------------------------------------------------------------------
\* The scheduler never runs thread t again, wherever it is.
Suspend(t) ==
  /\ t \in Stoppable
  /\ alive' = alive \ {t}
  /\ ret' = <<>>
  /\ UNCHANGED <<shared, pc, loc, history>>

\* What a thread in the middle of an operation does next.
Run(t) ==
  \/ SetEnd(t) \/ ReadTailSeq(t) \/ ReadTailNode(t) \/ LinkNode(t) \/ LinkFails(t)
  \/ ReadHelped(t) \/ HelpPush(t) \/ MoveTail(t) \/ CountUp(t)
  \/ ReadHeadSeq(t) \/ ReadHeadNode(t) \/ ReadTailSequence(t) \/ ReadNext(t)
  \/ CheckSeq(t) \/ PopEmpty(t) \/ CheckTail(t) \/ HelpPop(t) \/ ReadElem(t)
  \/ TakeHead(t) \/ TakeFails(t) \/ CountDown(t) \/ FreeNode(t)

Next == \E t \in alive : Run(t) \/ PushItem(t) \/ PopItem(t) \/ Suspend(t)

Spec == Init /\ [][Next]_vars

\* Threads that are not suspended go on.
LiveSpec == Spec /\ \A t \in Threads : WF_vars(t \in alive /\ Run(t))

----------------------------------------------------------------------------
\* The items from the head to the end of the queue.
Contents ==
  LET walk[k \in 0..Cardinality(Nodes)] ==
        IF k = 0 THEN [at |-> next[head.node], items |-> <<>>]
        ELSE LET w == walk[k - 1]
             IN  IF w.at \in Nodes
                 THEN [at |-> next[w.at], items |-> Append(w.items, elem[w.at])]
                 ELSE w
  IN  walk[Cardinality(Nodes)].items

Idle == \A t \in Threads : pc[t] = "idle"

Items(s) == {s[i] : i \in 1..Len(s)}

\* Nothing is popped twice, and when no operation is under way every item
\* that was pushed was popped or is in the queue, once: the tests' buckets
\* (tier0/tslist.cpp, ValidateBuckets), for every interleaving.
NothingLostOrDuplicated ==
  /\ \A i, j \in 1..Len(popped) : popped[i] = popped[j] => i = j
  /\ Idle => /\ Items(popped) \cup Items(Contents) = 1..pushes
             /\ Len(popped) + Len(Contents) = pushes

\* When no operation is under way m_Count is the number of items, the
\* number ValidateQueue walks to.  (That the tail is at the end of the queue,
\* which ValidateQueue asks for too, does not hold: MoveTail may have failed.)
CountIsContents == Idle => count = Len(Contents)

\* With nodes that are not used again CTSQueue implements the atomic queue:
\* items come out in the order they were linked in, and a Pop that answers
\* NULL saw the queue empty.
Q == INSTANCE AtomicQueue WITH queue <- Remaining
ImplementsAtomicQueue == Q!Spec

\* Lock freedom: when threads are suspended in the middle of an operation,
\* and others are not, operations go on returning.
Returns(t) == pc[t] # "idle" /\ pc'[t] = "idle"
LockFree ==
  <>[](\E t \in alive : pc[t] # "idle") => []<><<\E t \in Threads : Returns(t)>>_vars
====
