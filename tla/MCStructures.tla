---- MODULE MCStructures ----
(* The lock-free list and three locks, one of them at work in each behaviour. *)
EXTENDS TSList, FastMutex, RWLock, SpinRWLock

VARIABLE part   \* what is at work

ListPart == part = "list" /\ Next /\ UNCHANGED <<mVars, rwVars, spinVars>>
MutexPart == part = "mutex" /\ MutexNext /\ UNCHANGED <<vars, rwVars, spinVars>>
RWPart == part = "rw" /\ RWNext /\ UNCHANGED <<vars, mVars, spinVars>>
SpinPart == part = "spin" /\ SpinNext /\ UNCHANGED <<vars, mVars, rwVars>>

StructuresInit ==
  /\ part \in {"list", "mutex", "rw", "spin"}
  /\ Init /\ MutexInit /\ RWInit /\ SpinInit

StructuresNext ==
  (ListPart \/ MutexPart \/ RWPart \/ SpinPart) /\ UNCHANGED part

\* Threads run, as each module says.  Where nothing has started no step is due.
StructuresSpec ==
  /\ StructuresInit /\ [][StructuresNext]_<<part, vars, mVars, rwVars, spinVars>>
  /\ \A t \in Threads : WF_vars(t \in alive /\ Run(t) /\ InTime')
  /\ \A t \in Sharers : WF_rwVars(RWRun(t))
  /\ \A t \in Spinners : WF_spinVars(SpinRun(t))
====
