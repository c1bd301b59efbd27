-------------------------- MODULE ReliableStream --------------------------
(***************************************************************************)
(* What the CNetChan objects at the ends of a connection promise for the   *)
(* reliable messages.  A lane is one stream of one end.  On each lane the  *)
(* peer's handlers get the messages in the order they were sent, each at   *)
(* most once, and none is skipped but those the channel was told to drop   *)
(* (CNetChan::Clear, at a level change or when a client starts over).      *)
(***************************************************************************)
EXTENDS Integers, Sequences, SequencesExt

CONSTANT Lanes

VARIABLES
  sent,       \* how many messages a lane accepted: they are numbered from 1
  delivered,  \* the numbers of the messages handled, in order
  discarded   \* messages that were dropped, whether or not they still arrive

vars == <<sent, delivered, discarded>>

Init ==
  /\ sent = [l \in Lanes |-> 0]
  /\ delivered = [l \in Lanes |-> << >>]
  /\ discarded = [l \in Lanes |-> {}]

LastDelivered(l) == IF delivered[l] = << >> THEN 0 ELSE Last(delivered[l])

Send(l) ==
  /\ sent'[l] = sent[l] + 1
  /\ delivered'[l] = delivered[l]
  /\ discarded'[l] = discarded[l]

\* The sender clears its channel, and may send a signon message on it.
Restart(l) ==
  /\ \E S \in SUBSET (1 .. sent[l]) : discarded'[l] = discarded[l] \union S
  /\ sent'[l] \in {sent[l], sent[l] + 1}
  /\ delivered'[l] = delivered[l]

\* A block of messages is handled; the handler of its last one may clear the
\* channel of the receiver, which drops what it holds.
Deliver(l) ==
  /\ IsPrefix(delivered[l], delivered'[l]) /\ delivered'[l] # delivered[l]
  /\ LET new == Len(delivered[l]) + 1 .. Len(delivered'[l])
         numbers == {delivered'[l][k] : k \in new}
     IN /\ numbers \subseteq LastDelivered(l) + 1 .. sent[l]
        /\ \A k, m \in new : k < m => delivered'[l][k] < delivered'[l][m]
        /\ (LastDelivered(l) + 1 .. Last(delivered'[l])) \ numbers \subseteq discarded[l]
  /\ \E D \in SUBSET (1 .. sent[l]) : discarded'[l] = discarded[l] \union D
  /\ sent'[l] = sent[l]

Same(l) ==
  /\ sent'[l] = sent[l]
  /\ delivered'[l] = delivered[l]
  /\ discarded'[l] = discarded[l]

\* One packet carries fragments of several lanes.
Next == \A l \in Lanes : Send(l) \/ Restart(l) \/ Deliver(l) \/ Same(l)

Spec == Init /\ [][Next]_vars
=============================================================================
