---- MODULE AtomicStack ----
(***************************************************************************)
(* What CTSListBase (public/tier0/tslist.h) promises its users: a stack of *)
(* nodes whose operations take effect at one moment.  A node is in the     *)
(* list or belongs to one thread, and an operation answers with the top it *)
(* found.                                                                  *)
(***************************************************************************)
EXTENDS Sequences, Naturals

CONSTANTS Threads, Nodes, Null

VARIABLES
  list,   \* the nodes, the top first
  hand,   \* hand[t]: the nodes that belong to thread t
  ret     \* <<t, n>> right after an operation of t answered n, else <<>>

stackVars == <<list, hand, ret>>

\* The nodes of a list.
Items(s) == {s[i] : i \in 1..Len(s)}

\* The node on top of a list, Null for an empty one.
Top(s) == IF s = <<>> THEN Null ELSE Head(s)

\* Every node belongs to a thread, and to one only.
Init ==
  /\ list = <<>>
  /\ hand \in [Threads -> SUBSET Nodes]
  /\ \A n \in Nodes : \E t \in Threads : \A u \in Threads : n \in hand[u] <=> u = t
  /\ ret = <<>>

Push(t, n) ==
  /\ n \in hand[t]
  /\ list' = <<n>> \o list
  /\ hand' = [hand EXCEPT ![t] = @ \ {n}]
  /\ ret' = <<t, Top(list)>>

Pop(t) ==
  /\ list # <<>>
  /\ list' = Tail(list)
  /\ hand' = [hand EXCEPT ![t] = @ \cup {Head(list)}]
  /\ ret' = <<t, Head(list)>>

Detach(t) ==
  /\ list # <<>>
  /\ list' = <<>>
  /\ hand' = [hand EXCEPT ![t] = @ \cup Items(list)]
  /\ ret' = <<t, Head(list)>>

\* Pop and Detach of an empty list answer NULL.
FindEmpty(t) ==
  /\ list = <<>>
  /\ ret' = <<t, Null>>
  /\ UNCHANGED <<list, hand>>

\* Nothing takes effect.
Quiet == ret' = <<>> /\ UNCHANGED <<list, hand>>

Next ==
  \/ Quiet
  \/ \E t \in Threads :
       \/ \E n \in Nodes : Push(t, n)
       \/ Pop(t)
       \/ Detach(t)
       \/ FindEmpty(t)

Spec == Init /\ [][Next]_stackVars
====
