---- MODULE MCEntityDelta ----
EXTENDS EntityDelta

\* An edict that changes; one, and two, of which the client's view alone changes;
\* and a world that grows.
MCStarts ==
  {[tick |-> 1, num |-> 1, max |-> 1, value |-> 1, changes |-> 2],
   [tick |-> 0, num |-> 1, max |-> 1, value |-> 1, changes |-> 0],
   [tick |-> 1, num |-> 2, max |-> 2, value |-> 1, changes |-> 0],
   [tick |-> 2, num |-> 1, max |-> 2, value |-> 1, changes |-> 1]}
====
