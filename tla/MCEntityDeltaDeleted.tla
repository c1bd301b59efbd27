---- MODULE MCEntityDeltaDeleted ----
EXTENDS EntityDelta

\* An edict that is allocated after the acknowledged snapshot, freed and reused.
MCStarts == {[tick |-> 1, num |-> 0, max |-> 1, value |-> 1, changes |-> 4]}
====
