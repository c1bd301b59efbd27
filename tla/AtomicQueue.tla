---- MODULE AtomicQueue ----
(***************************************************************************)
(* A queue whose operations take effect at one moment, the promise that    *)
(* CTSQueue (public/tier0/tslist.h) is measured against.  A Pop that finds *)
(* nothing must have seen the queue empty at some moment of its call.      *)
(***************************************************************************)
EXTENDS Sequences, Naturals

CONSTANTS Threads, Values, NoItem

VARIABLES
  queue,      \* the items, the oldest first
  sawEmpty,   \* sawEmpty[t]: the queue was empty during the Pop t is in
  ret         \* <<t, v>> right after a Pop of t answered v, else <<>>

queueVars == <<queue, sawEmpty, ret>>

Init ==
  /\ queue = <<>>
  /\ sawEmpty = [t \in Threads |-> FALSE]
  /\ ret = <<>>

Push ==
  /\ \E v \in Values : queue' = Append(queue, v)
  /\ ret' = <<>>
  /\ UNCHANGED sawEmpty

StartPop(t) ==
  /\ sawEmpty' = [sawEmpty EXCEPT ![t] = queue = <<>>]
  /\ ret' = <<>>
  /\ UNCHANGED queue

Pop(t) ==
  /\ queue # <<>>
  /\ queue' = Tail(queue)
  /\ sawEmpty' = [u \in Threads |-> sawEmpty[u] \/ queue' = <<>>]
  /\ ret' = <<t, Head(queue)>>

FindEmpty(t) ==
  /\ sawEmpty[t]
  /\ ret' = <<t, NoItem>>
  /\ UNCHANGED <<queue, sawEmpty>>

Quiet == ret' = <<>> /\ UNCHANGED <<queue, sawEmpty>>

Next == Push \/ Quiet \/ \E t \in Threads : StartPop(t) \/ Pop(t) \/ FindEmpty(t)

Spec == Init /\ [][Next]_queueVars
====
