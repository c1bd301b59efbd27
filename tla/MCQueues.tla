---- MODULE MCQueues ----
(* The lock-free queue in two of its uses, one of them in each behaviour: below a   *)
(* job queue, with recycled nodes, by a thread and a worker which both push and     *)
(* pop; and plain, with nodes that are not used again, by two threads of which one  *)
(* may be suspended anywhere.                                                        *)
EXTENDS JobQueue

CONSTANTS PlainNodes, PlainMaxPush, PlainStoppable

VARIABLES
  part,   \* what is at work
  pHead, pTail, pNext, pElem, pFree, pUnused, pCount, pPc, pLoc,
  pPushes, pLinked, pPopped, pSawEmpty, pRet, pAlive

Plain == INSTANCE TSQueue WITH
  Nodes <- PlainNodes, MaxPush <- PlainMaxPush, Stoppable <- PlainStoppable, Recycle <- FALSE,
  head <- pHead, tail <- pTail, next <- pNext, elem <- pElem, free <- pFree,
  unused <- pUnused, count <- pCount, pc <- pPc, loc <- pLoc, pushes <- pPushes,
  linked <- pLinked, popped <- pPopped, sawEmpty <- pSawEmpty, ret <- pRet, alive <- pAlive

PlainVars == <<pHead, pTail, pNext, pElem, pFree, pUnused, pCount, pPc, pLoc,
               pPushes, pLinked, pPopped, pSawEmpty, pRet, pAlive>>

JobPart == part = "job" /\ JobNext /\ UNCHANGED PlainVars
PlainPart == part = "plain" /\ Plain!Next /\ UNCHANGED allVars

QueuesInit == part \in {"job", "plain"} /\ JobInit /\ Plain!Init
QueuesNext == (JobPart \/ PlainPart) /\ UNCHANGED part

\* Threads run, as each module says.  Where nothing has started no step is due.
QueuesSpec ==
  /\ QueuesInit /\ [][QueuesNext]_<<part, allVars, PlainVars>>
  /\ \A t \in Threads : WF_allVars(JobRun(t)) /\ WF_PlainVars(t \in pAlive /\ Plain!Run(t))
  /\ \A t \in Workers : WF_allVars(Wake(t) \/ Reserve(t) \/ NoJob(t))

\* With nodes that are not used again every Push and Pop of CTSQueue takes effect at
\* one moment of its call.
PlainImplementsAtomicQueue == Plain!ImplementsAtomicQueue
\* A thread suspended inside CTSQueue does not keep the other from completing its
\* operations.
PlainLockFree == Plain!LockFree
====
