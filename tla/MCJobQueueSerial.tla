---- MODULE MCJobQueueSerial ----
(* Two threads push to a worker's direct queue. *)
EXTENDS JobQueue, TLC
Symmetry == Permutations(Threads \ Workers)
====
