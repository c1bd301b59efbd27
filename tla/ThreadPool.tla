---- MODULE ThreadPool ----
(***************************************************************************)
(* CThreadPool and CJob (vstdlib/jobthread.cpp, public/vstdlib/jobthread.h)*)
(* with the calls to workers of CWorkerThread (tier0/threadtools.cpp), as  *)
(* the asynchronous file system uses them: jobs are added, executed or     *)
(* aborted by hand, waited for, raised in priority, all executed, all      *)
(* aborted, while workers look for them.  A queue is the FIFO that         *)
(* AtomicQueue promises; that a Push links before it counts and a Pop      *)
(* counts before it unlinks is kept.                                       *)
(***************************************************************************)
EXTENDS Integers, Sequences, FiniteSets, FiniteSetsExt, Functions

CONSTANTS
  NumWorkers,   \* m_Threads.Count()
  Masters,      \* threads that use the pool
  Helpers,      \* threads that execute or abort jobs by their handles
  Jobs,
  Kept,         \* jobs whose creator keeps a handle
  TopPriority,  \* JP_NUM_PRIORITIES - 1
  MaxSuspends,  \* bound: SuspendExecution that stopped the workers
  NoJob,        \* NULL
  NoThread

ASSUME PoolAssumption ==
  /\ NumWorkers \in Nat \ {0} /\ TopPriority \in Nat /\ MaxSuspends \in Nat
  /\ Kept \subseteq Jobs
  /\ NoJob \notin Jobs /\ NoThread \notin (1..NumWorkers) \cup Masters \cup Helpers
  /\ Masters \cap Helpers = {} /\ (Masters \cup Helpers) \cap (1..NumWorkers) = {}
  /\ IsFiniteSet(Jobs) /\ IsFiniteSet(Masters \cup Helpers)

Workers == 1..NumWorkers
Clients == Masters \cup Helpers
Shared == 0                         \* m_SharedQueue; queue w is worker w's m_DirectQueue
Queues == {Shared} \cup Workers
Priorities == 0..TopPriority

VARIABLES
  status,     \* status[j]: m_status
  priority,   \* priority[j]: m_priority
  refs,       \* refs[j]: references to the job
  lock,       \* lock[j]: the owner of m_mutex
  complete,   \* the jobs whose m_CompleteEvent is set
  handle,     \* the jobs their creator still has a handle of
  items,      \* items[q][p]: the jobs of priority p in queue q
  count,      \* count[q]: m_nItems
  idle,       \* m_nIdleThreads
  call,       \* call[w]: the call m_EventSend announces, "none" when it is not set
  running,    \* running[w]: m_NotSuspendedEvent is set
  nSuspend,   \* m_nSuspend
  suspender,  \* the owner of m_SuspendMutex
  stopped,    \* Stop has deleted the workers
  th,         \* th[t]: where thread t is
  runs,       \* history: runs[j], calls of DoExecute
  serial,     \* the jobs with JF_SERIAL, in the order they were added
  suspends    \* bound: see MaxSuspends

jobVars == <<status, priority, refs, lock, complete, handle, runs, serial>>
queueVars == <<items, count>>
workerVars == <<idle, call, running, stopped>>
suspendVars == <<nSuspend, suspender, suspends>>
poolVars == <<jobVars, queueVars, workerVars, suspendVars, th>>

Finished(j) == status[j] \in {"ok", "aborted"}
CanExecute(j) == status[j] \in {"pending", "unserviced"}

\* op: what a client was called for, "run" for a worker; pc: where it is; job: pJob;
\* for: the job it waits for; queue: the queue it pops or pushes; pos: where it is
\* in its walk over the queues; last: where the walk ends; all: no filter; back:
\* jobsToPutBack; took: bTookJob.
Thread(op, pc) == [op |-> op, pc |-> pc, job |-> NoJob, for |-> NoJob, queue |-> Shared,
                   pos |-> 0, last |-> 0, all |-> TRUE, back |-> <<>>, took |-> FALSE]

PoolInit ==
  /\ status = [j \in Jobs |-> "none"]
  /\ priority = [j \in Jobs |-> 0]
  /\ refs = [j \in Jobs |-> 0]
  /\ lock = [j \in Jobs |-> NoThread]
  /\ complete = {} /\ handle = {}
  /\ items = [q \in Queues |-> [p \in Priorities |-> <<>>]]
  /\ count = [q \in Queues |-> 0]
  /\ idle = NumWorkers
  /\ call = [w \in Workers |-> "none"]
  /\ running = [w \in Workers |-> TRUE]
  /\ nSuspend = 0 /\ suspender = NoThread /\ suspends = 0
  /\ stopped = FALSE
  /\ th = [t \in Workers \cup Clients |->
            IF t \in Workers THEN Thread("run", "wait") ELSE Thread("none", "idle")]
  /\ runs = [j \in Jobs |-> 0]
  /\ serial = <<>>

At(t, p) == th[t].pc = p
\* At "idle" a client's call has returned.
Goto(t, p) ==
  th' = [th EXCEPT ![t] = IF p = "idle" THEN Thread("none", p) ELSE [@ EXCEPT !.pc = p]]
Job(t) == th[t].job

\* Where a thread goes on when a job has been executed or aborted: a job that came
\* out of a queue is released.
AfterJob(t) ==
  CASE th[t].op = "add" -> "added"
    [] th[t].op \in {"execute", "abort"} -> "idle"
    [] OTHER -> "release"

\* Where a thread goes on when it has serviced and released a job.
AfterService(t) ==
  CASE th[t].op = "run" -> "again"
    [] th[t].op = "wait" -> "yield"
    [] th[t].op = "finish" -> "scan"
    [] th[t].op \in {"abortAll", "shutdown"} -> "drain"

----------------------------------------------------------------------------
(* CJob: Execute, Abort, ServiceJobAndRelease.                             *)

\* From the lock of m_mutex to DoExecute, which runs until Done.
Enter(t, j) ==
  /\ lock' = [lock EXCEPT ![j] = t]
  /\ refs' = [refs EXCEPT ![j] = @ + 1]
  /\ status' = [status EXCEPT ![j] = "inprogress"]
  /\ runs' = [runs EXCEPT ![j] = @ + 1]
  /\ Goto(t, "doExecute")
  /\ UNCHANGED <<priority, complete, handle, serial>>

\* ServiceJobAndRelease: the job is left to whoever has its mutex.
Service(t) ==
  /\ At(t, "service")
  /\ IF Finished(Job(t)) \/ lock[Job(t)] # NoThread
     THEN Goto(t, "release") /\ UNCHANGED jobVars
     ELSE Enter(t, Job(t))
  /\ UNCHANGED <<queueVars, workerVars, suspendVars>>

\* Execute by a thread with a handle, which waits for the mutex.
Execute(t) ==
  /\ At(t, "execute")
  /\ \/ /\ Finished(Job(t))
        /\ Goto(t, AfterJob(t))
        /\ UNCHANGED jobVars
     \/ /\ ~ Finished(Job(t)) /\ lock[Job(t)] = NoThread
        /\ Enter(t, Job(t))
  /\ UNCHANGED <<queueVars, workerVars, suspendVars>>

\* result = m_status = DoExecute()
Done(t) ==
  /\ At(t, "doExecute")
  /\ status' = [status EXCEPT ![Job(t)] = "ok"]
  /\ Goto(t, "cleanup")
  /\ UNCHANGED <<priority, refs, lock, complete, handle, runs, serial, queueVars, workerVars, suspendVars>>

\* DoCleanup, m_CompleteEvent.Set(), Release(), and the unlock.
Cleanup(t) ==
  /\ At(t, "cleanup")
  /\ complete' = complete \cup {Job(t)}
  /\ refs' = [refs EXCEPT ![Job(t)] = @ - 1]
  /\ lock' = [lock EXCEPT ![Job(t)] = NoThread]
  /\ Goto(t, AfterJob(t))
  /\ UNCHANGED <<status, priority, handle, runs, serial, queueVars, workerVars, suspendVars>>

\* Mutant: no second look at the status, under the mutex.
AbortedOver(j) == "aborted"

\* What Abort does to a job that nobody has locked.
AbortedStatus(j) == IF CanExecute(j) THEN "aborted" ELSE status[j]

\* Mutant: Abort does not set m_CompleteEvent.
AbortSilently(t) ==
  /\ At(t, "abort")
  /\ Finished(Job(t)) \/ lock[Job(t)] = NoThread
  /\ status' = [status EXCEPT ![Job(t)] = AbortedStatus(Job(t))]
  /\ Goto(t, AfterJob(t))
  /\ UNCHANGED <<priority, refs, lock, complete, handle, runs, serial, queueVars, workerVars, suspendVars>>

\* Abort, which waits for the mutex.
Abort(t) ==
  /\ At(t, "abort")
  /\ Finished(Job(t)) \/ lock[Job(t)] = NoThread
  /\ status' = [status EXCEPT ![Job(t)] = AbortedStatus(Job(t))]
  /\ complete' = IF CanExecute(Job(t)) THEN complete \cup {Job(t)} ELSE complete
  /\ Goto(t, AfterJob(t))
  /\ UNCHANGED <<priority, refs, lock, handle, runs, serial, queueVars, workerVars, suspendVars>>

\* The reference that came with the job out of the queue.
Release(t) ==
  /\ At(t, "release")
  /\ refs' = [refs EXCEPT ![Job(t)] = @ - 1]
  /\ th' = [th EXCEPT ![t].job = NoJob, ![t].pc = AfterService(t)]
  /\ UNCHANGED <<status, priority, lock, complete, handle, runs, serial, queueVars, workerVars, suspendVars>>


----------------------------------------------------------------------------
(* CJobQueue: Push and Pop.                                                *)

\* Mutant: no AddRef, for a job that already has a reference.
PushHeld(t) ==
  /\ At(t, "push")
  /\ items' = [items EXCEPT ![th[t].queue][priority[Job(t)]] = Append(@, Job(t))]
  /\ Goto(t, "count")
  /\ UNCHANGED <<jobVars, count, workerVars, suspendVars>>

\* AddRef and PushItem into the queue of the job's priority.
PushJob(t) ==
  /\ At(t, "push")
  /\ refs' = [refs EXCEPT ![Job(t)] = @ + 1]
  /\ items' = [items EXCEPT ![th[t].queue][priority[Job(t)]] = Append(@, Job(t))]
  /\ Goto(t, "count")
  /\ UNCHANGED <<status, priority, lock, complete, handle, runs, serial, count, workerVars, suspendVars>>

AfterPush(t) ==
  CASE th[t].op = "add" -> "added" [] th[t].op = "raise" -> "idle" [] th[t].op = "finish" -> "release"

\* ++m_nItems, which sets m_JobAvailableEvent.
Count(t) ==
  /\ At(t, "count")
  /\ count' = [count EXCEPT ![th[t].queue] = @ + 1]
  /\ Goto(t, AfterPush(t))
  /\ UNCHANGED <<jobVars, items, workerVars, suspendVars>>

\* What a Pop of an empty queue leads to.
Nothing(t) ==
  CASE At(t, "popDirect") -> "popShared"
    [] At(t, "popShared") -> IF th[t].op = "wait" THEN "sleep" ELSE "noJob"
    [] At(t, "drain") -> "nextQueue"
    [] At(t, "pop") -> "null"

\* Pop: --m_nItems under the mutex.
Reserve(t) ==
  /\ th[t].pc \in {"popDirect", "popShared", "drain", "pop"}
  /\ LET q == IF At(t, "popDirect") THEN t ELSE IF At(t, "popShared") THEN Shared
             ELSE IF At(t, "drain") THEN th[t].pos ELSE th[t].queue
     IN IF count[q] = 0
        THEN Goto(t, Nothing(t)) /\ UNCHANGED count
        ELSE /\ count' = [count EXCEPT ![q] = @ - 1]
             /\ th' = [th EXCEPT ![t].queue = q, ![t].pc = "take"]
  /\ UNCHANGED <<jobVars, items, workerVars, suspendVars>>

\* The job a PopItem of each priority from the highest finds.
Filled(q) == {p \in Priorities : items[q][p] # <<>>}

\* Where a popped job goes: ExecuteToPriority asks the filter, AbortAll aborts.
AfterPop(t) ==
  CASE th[t].op = "finish" -> "filter"
    [] th[t].op \in {"abortAll", "shutdown"} -> "abort"
    [] th[t].op = "run" -> "busy"
    [] OTHER -> "service"

\* Pop: PopItem.
Take(t) ==
  /\ At(t, "take")
  /\ LET q == th[t].queue
         p == Max(Filled(q))
     IN /\ Filled(q) # {}
        /\ items' = [items EXCEPT ![q][p] = Tail(@)]
        /\ th' = [th EXCEPT ![t].job = Head(items[q][p]), ![t].queue = Shared,
                            ![t].pc = AfterPop(t)]
  /\ UNCHANGED <<jobVars, count, workerVars, suspendVars>>

----------------------------------------------------------------------------
(* CJobThread::Run.                                                        *)

\* Wait returns: a call, or an event of a queue.
Wake(w) ==
  /\ At(w, "wait")
  /\ call[w] # "none" \/ count[Shared] > 0 \/ count[w] > 0
  /\ Goto(w, "peek")
  /\ UNCHANGED <<jobVars, queueVars, workerVars, suspendVars>>

\* PeekCall answers no: look for a job.
Look(w) ==
  /\ At(w, "peek") /\ call[w] = "none"
  /\ th' = [th EXCEPT ![w].took = FALSE, ![w].pc = "popDirect"]
  /\ UNCHANGED <<jobVars, queueVars, workerVars, suspendVars>>

\* The first job makes the worker busy.
Busy(w) ==
  /\ At(w, "busy")
  /\ idle' = IF th[w].took THEN idle ELSE idle - 1
  /\ th' = [th EXCEPT ![w].took = TRUE, ![w].pc = "service"]
  /\ UNCHANGED <<jobVars, queueVars, call, running, stopped, suspendVars>>

\* PeekCall after a job: while no call is pending the worker goes on.
Again(w) ==
  /\ At(w, "again")
  /\ Goto(w, IF call[w] = "none" THEN "popDirect" ELSE "noJob")
  /\ UNCHANGED <<jobVars, queueVars, workerVars, suspendVars>>

\* The worker that had jobs is idle again.
Rest(w) ==
  /\ At(w, "noJob")
  /\ idle' = IF th[w].took THEN idle + 1 ELSE idle
  /\ th' = [th EXCEPT ![w].took = FALSE, ![w].pc = "wait"]
  /\ UNCHANGED <<jobVars, queueVars, call, running, stopped, suspendVars>>

\* Reply to TPM_SUSPEND.
ReplySuspend(w) ==
  /\ At(w, "peek") /\ call[w] = "suspend"
  /\ call' = [call EXCEPT ![w] = "none"]
  /\ Goto(w, "suspend")
  /\ UNCHANGED <<jobVars, queueVars, idle, running, stopped, suspendVars>>

\* CThread::Suspend: m_NotSuspendedEvent.Reset().
SuspendSelf(w) ==
  /\ At(w, "suspend")
  /\ running' = [running EXCEPT ![w] = FALSE]
  /\ Goto(w, "suspended")
  /\ UNCHANGED <<jobVars, queueVars, idle, call, stopped, suspendVars>>

\* m_NotSuspendedEvent.Wait() returns.
Awake(w) ==
  /\ At(w, "suspended") /\ running[w]
  /\ Goto(w, "wait")
  /\ UNCHANGED <<jobVars, queueVars, workerVars, suspendVars>>

\* TPM_EXIT: the reply, and the end of Run.
Exit(w) ==
  /\ At(w, "peek") /\ call[w] = "exit"
  /\ call' = [call EXCEPT ![w] = "none"]
  /\ idle' = idle - 1
  /\ Goto(w, "gone")
  /\ UNCHANGED <<jobVars, queueVars, running, stopped, suspendVars>>

WorkerStep(w) ==
  \/ Wake(w) \/ Look(w) \/ Reserve(w) \/ Take(w) \/ Busy(w) \/ Service(w)
  \/ Done(w) \/ Cleanup(w) \/ Release(w) \/ Again(w) \/ Rest(w)
  \/ ReplySuspend(w) \/ SuspendSelf(w) \/ Awake(w) \/ Exit(w)

----------------------------------------------------------------------------
(* SuspendExecution and ResumeExecution.                                   *)

\* AUTO_LOCK( m_SuspendMutex ) and, for the first, the calls to the workers.
CallWorkers(t) ==
  /\ At(t, "suspend") /\ suspender = NoThread
  /\ suspender' = t
  /\ call' = IF nSuspend = 0 /\ ~ stopped THEN [w \in Workers |-> "suspend"] ELSE call
  /\ Goto(t, "suspending")
  /\ UNCHANGED <<jobVars, queueVars, idle, running, stopped, nSuspend, suspends>>

\* The workers have replied to what they were called for.
AllReplied == \A w \in Workers : call[w] = "none"
\* Mutant: SuspendExecution does not wait.
AllCalled == TRUE
\* "Because worker must signal before suspending, we could reach here with the
\* thread not actually suspended"
AllSuspended == \A w \in Workers : ~ running[w]

\* Where a client goes on with the workers suspended.
AfterSuspend(t) ==
  CASE th[t].op = "suspend" -> "idle"
    [] th[t].op = "finish" -> "scan"
    [] th[t].op \in {"abortAll", "shutdown"} -> "drain"

\* m_nSuspend++
Suspended(t) ==
  /\ At(t, "suspending")
  /\ nSuspend > 0 \/ stopped \/ AllSuspended
  /\ nSuspend' = nSuspend + 1
  /\ suspender' = NoThread
  /\ Goto(t, AfterSuspend(t))
  /\ UNCHANGED <<jobVars, queueVars, workerVars, suspends>>

ResumeExecution(t) ==
  /\ At(t, "resume") /\ suspender = NoThread
  /\ nSuspend' = nSuspend - 1
  /\ running' = IF nSuspend = 1 THEN [w \in Workers |-> TRUE] ELSE running
  /\ Goto(t, IF th[t].op = "shutdown" THEN "exit" ELSE "idle")
  /\ UNCHANGED <<jobVars, queueVars, idle, call, stopped, suspender, suspends>>

----------------------------------------------------------------------------
(* The clients.                                                            *)

\* A client that does nothing is called for an operation.
Begin(t, new) == At(t, "idle") /\ th' = [th EXCEPT ![t] = new]
With(j, new) == [new EXCEPT !.job = j]

\* Mutant: the test of JF_SERIAL is gone.
NoSerialQueue == Shared
\* InsertJobInQueue: the direct queue of the first worker, or, for a job that no worker
\* has serviced, the shared one.
SerialQueue == 1
IsSerial(j) == j \in Range(serial)
TargetQueue(j) == IF IsSerial(j) THEN SerialQueue ELSE Shared

\* A new job, with the reference of its creator, given to AddJob.
AddJob(t, j, s, pc, q) ==
  /\ t \in Masters
  /\ status[j] = "none"
  /\ status' = [status EXCEPT ![j] = s]
  /\ refs' = [refs EXCEPT ![j] = 1]
  /\ Begin(t, [Thread("add", pc) EXCEPT !.job = j, !.queue = q])
  /\ UNCHANGED <<lock, complete, handle, runs, queueVars, workerVars, suspendVars>>

\* Without workers, or of a job that is neither JF_IO nor JF_QUEUE while no worker is
\* idle, the caller executes it.
AddExecuted(t, j) ==
  /\ stopped \/ idle = 0
  /\ AddJob(t, j, "unserviced", "execute", Shared)
  /\ UNCHANGED <<priority, serial>>

\* m_status = JOB_STATUS_PENDING, and into the shared queue: JF_IO or JF_QUEUE, or else
\* with SetPriority( JP_NUM_PRIORITIES - 1 ) while a worker is idle.
AddQueued(t, j) ==
  /\ ~ stopped
  /\ AddJob(t, j, "pending", "push", Shared)
  /\ priority' = [priority EXCEPT ![j] = IF idle > 0 THEN TopPriority ELSE @] \/ UNCHANGED priority
  /\ UNCHANGED serial

\* A job of JF_IO and JF_SERIAL, which goes to the first worker.
AddSerial(t, j) ==
  /\ ~ stopped
  /\ AddJob(t, j, "pending", "push", SerialQueue)
  /\ serial' = Append(serial, j)
  /\ UNCHANGED priority

\* AddJob returns; the creator of a job keeps it or releases it.
Added(t) ==
  /\ At(t, "added")
  /\ Goto(t, "idle")
  /\ handle' = handle \cup ({Job(t)} \cap Kept)
  /\ refs' = IF Job(t) \in Kept THEN refs ELSE [refs EXCEPT ![Job(t)] = @ - 1]
  /\ UNCHANGED <<status, priority, lock, complete, runs, serial, queueVars, workerVars, suspendVars>>

\* Execute and Abort of a job by whoever has its handle: AsyncFinish, AsyncAbort.
ByHand(t, j) ==
  /\ t \in Helpers /\ j \in handle
  /\ Begin(t, With(j, Thread("execute", "execute"))) \/ Begin(t, With(j, Thread("abort", "abort")))
  /\ UNCHANGED <<jobVars, queueVars, workerVars, suspendVars>>

\* ChangePriority, which puts the job into the shared queue once more.  (Again not by
\* a second thread, whose Push could count the job after ExecuteToPriority sees it.)
ChangePriority(t, j) ==
  /\ t \in Masters
  /\ j \in handle /\ ~ IsSerial(j) /\ priority[j] < TopPriority
  /\ Begin(t, With(j, Thread("raise", "push")))
  /\ priority' = [priority EXCEPT ![j] = TopPriority]
  /\ UNCHANGED <<status, refs, lock, complete, handle, runs, serial, queueVars, workerVars, suspendVars>>

\* WaitForFinish; not by one who keeps the workers suspended.  (A second thread that
\* waits takes jobs of the shared queue while ExecuteToPriority counts them.)
WaitForFinish(t, j) ==
  /\ t \in Masters /\ nSuspend = 0
  /\ j \in handle /\ ~ Finished(j)
  /\ Begin(t, [Thread("wait", "yield") EXCEPT !.for = j])
  /\ UNCHANGED <<jobVars, queueVars, workerVars, suspendVars>>

\* YieldWait: a look at m_CompleteEvent, else at the shared queue.
Yield(t) ==
  /\ At(t, "yield")
  /\ Goto(t, IF th[t].for \in complete THEN "idle" ELSE "popShared")
  /\ UNCHANGED <<jobVars, queueVars, workerVars, suspendVars>>

\* YieldWait with an infinite timeout.
EndWait(t) ==
  /\ At(t, "sleep") /\ th[t].for \in complete
  /\ Goto(t, "idle")
  /\ UNCHANGED <<jobVars, queueVars, workerVars, suspendVars>>

\* The owner of a handle that no call uses releases it.
ReleaseHandle(t, j) ==
  /\ t \in Masters /\ At(t, "idle") /\ j \in handle
  /\ \A c \in Clients : Job(c) # j /\ th[c].for # j
  /\ handle' = handle \ {j}
  /\ refs' = [refs EXCEPT ![j] = @ - 1]
  /\ UNCHANGED <<status, priority, lock, complete, runs, serial, th, queueVars, workerVars, suspendVars>>

\* AsyncSuspend, AsyncFinishAll or AsyncFinishAllWrites, AbortAll, ShutdownAsync.
BeginSuspended(t, new) ==
  /\ t \in Masters /\ suspends < MaxSuspends
  /\ Begin(t, new)
  /\ suspends' = suspends + 1
  /\ UNCHANGED <<jobVars, queueVars, workerVars, nSuspend, suspender>>

LastPosition == Cardinality(Queues) * (TopPriority + 1) - 1

SuspendExecution(t) == BeginSuspended(t, Thread("suspend", "suspend"))

ExecuteToPriority(t) ==
  \E every \in BOOLEAN :
    BeginSuspended(t, [Thread("finish", "suspend") EXCEPT !.last = LastPosition, !.all = every])

AbortAll(t) == BeginSuspended(t, [Thread("abortAll", "suspend") EXCEPT !.last = NumWorkers])

Shutdown(t) ==
  /\ nSuspend = 0 /\ ~ stopped
  /\ BeginSuspended(t, [Thread("shutdown", "suspend") EXCEPT !.last = NumWorkers])

\* AsyncResume, by who called AsyncSuspend.
BeginResume(t) ==
  /\ t \in Masters /\ nSuspend > 0
  /\ Begin(t, Thread("suspend", "resume"))
  /\ UNCHANGED <<jobVars, queueVars, workerVars, suspendVars>>

----------------------------------------------------------------------------
(* ExecuteToPriority, with the workers suspended.                          *)

\* The walk: of each priority, from the highest, the direct queues and the shared one.
ScanPriority(n) == TopPriority - (n \div Cardinality(Queues))
ScanQueue(n) ==
  LET i == (n % Cardinality(Queues)) + 1 IN IF i \in Workers THEN i ELSE Shared

\* The queues there are: Stop deletes the direct ones.
Open(q) == q = Shared \/ ~ stopped

\* while ( queue.Count( iCurPriority ) ), or the next queue
Scan(t) ==
  /\ At(t, "scan") /\ th[t].pos <= th[t].last
  /\ LET n == th[t].pos
         q == ScanQueue(n)
     IN IF Open(q) /\ items[q][ScanPriority(n)] # <<>>
        THEN th' = [th EXCEPT ![t].queue = q, ![t].pc = "pop"]
        ELSE th' = [th EXCEPT ![t].pos = n + 1]
  /\ UNCHANGED <<jobVars, queueVars, workerVars, suspendVars>>

\* pfnFilter: AsyncFinishAllWrites executes the jobs that write, which are serial.
Filter(t) ==
  /\ At(t, "filter")
  /\ IF th[t].all \/ IsSerial(Job(t))
     THEN Goto(t, "service")
     ELSE IF CanExecute(Job(t))
     THEN th' = [th EXCEPT ![t].back = Append(@, Job(t)), ![t].job = NoJob, ![t].pc = "scan"]
     ELSE Goto(t, "release")
  /\ UNCHANGED <<jobVars, queueVars, workerVars, suspendVars>>

\* InsertJobInQueue of a job put back, whose reference from the queue it left is
\* released after the Push.
PutBack(t) ==
  /\ At(t, "scan") /\ th[t].pos > th[t].last /\ th[t].back # <<>>
  /\ LET j == Head(th[t].back)
     IN th' = [th EXCEPT ![t].job = j, ![t].queue = TargetQueue(j), ![t].back = Tail(@),
                         ![t].pc = "push"]
  /\ UNCHANGED <<jobVars, queueVars, workerVars, suspendVars>>

Scanned(t) ==
  /\ At(t, "scan") /\ th[t].pos > th[t].last /\ th[t].back = <<>>
  /\ Goto(t, "resume")
  /\ UNCHANGED <<jobVars, queueVars, workerVars, suspendVars>>

----------------------------------------------------------------------------
(* AbortAll and Stop.                                                      *)

\* AbortAll: the shared queue is empty, or a direct one.
NextQueue(t) ==
  /\ At(t, "nextQueue")
  /\ IF th[t].pos < th[t].last /\ ~ stopped
     THEN th' = [th EXCEPT ![t].pos = @ + 1, ![t].pc = "drain"]
     ELSE Goto(t, "resume")
  /\ UNCHANGED <<jobVars, queueVars, workerVars, suspendVars>>

\* Stop: CallWorker( TPM_EXIT ) to one worker after the other, each of which replies.
CallExit(t) ==
  /\ At(t, "exit") /\ AllReplied
  /\ LET left == {w \in Workers : ~ At(w, "gone")}
     IN IF left = {} THEN Goto(t, "join") /\ UNCHANGED call
        ELSE call' = [call EXCEPT ![Min(left)] = "exit"] /\ UNCHANGED th
  /\ UNCHANGED <<jobVars, queueVars, idle, running, stopped, suspendVars>>

\* Stop: the workers have ended.  The shared queue, which Flush aborts, is empty:
\* AbortAll came first and nobody else adds jobs.
Join(t) ==
  /\ At(t, "join") /\ \A w \in Workers : At(w, "gone")
  /\ stopped' = TRUE
  /\ idle' = 0
  /\ Goto(t, "idle")
  /\ UNCHANGED <<jobVars, queueVars, call, running, suspendVars>>

----------------------------------------------------------------------------
ClientStep(t) ==
  \/ PushJob(t) \/ Count(t) \/ Execute(t) \/ Abort(t) \/ Service(t)
  \/ Done(t) \/ Cleanup(t) \/ Release(t) \/ Added(t) \/ Reserve(t) \/ Take(t)
  \/ Yield(t) \/ EndWait(t) \/ CallWorkers(t) \/ Suspended(t) \/ ResumeExecution(t)
  \/ Scan(t) \/ Filter(t) \/ PutBack(t) \/ Scanned(t)
  \/ NextQueue(t) \/ CallExit(t) \/ Join(t)

ClientCall(t) ==
  \/ \E j \in Jobs :
       \/ AddExecuted(t, j) \/ AddQueued(t, j) \/ AddSerial(t, j) \/ ByHand(t, j) \/ ChangePriority(t, j)
       \/ WaitForFinish(t, j) \/ ReleaseHandle(t, j)
  \/ SuspendExecution(t) \/ ExecuteToPriority(t) \/ AbortAll(t) \/ Shutdown(t) \/ BeginResume(t)

PoolNext ==
  \/ \E w \in Workers : WorkerStep(w)
  \/ \E t \in Clients : ClientStep(t) \/ ClientCall(t)

PoolSpec == PoolInit /\ [][PoolNext]_poolVars

\* Threads run, and who suspended the workers gets to resume them.
PoolLiveSpec ==
  /\ PoolSpec
  /\ \A w \in Workers : WF_poolVars(WorkerStep(w))
  /\ \A t \in Clients : WF_poolVars(ClientStep(t))
  /\ \A t \in Masters : SF_poolVars(BeginResume(t))

----------------------------------------------------------------------------
\* However often a job is queued and whoever executes or aborts it by hand at the
\* same time, DoExecute is called once, and never for a job that was aborted.
ServicedOnce ==
  \A j \in Jobs : runs[j] = IF status[j] \in {"inprogress", "ok"} THEN 1 ELSE 0

\* What ExecuteToPriority and AbortAll rely on: from SuspendExecution to
\* ResumeExecution no worker has a job or takes one out of a queue.
SuspendedMeansIdle ==
  nSuspend > 0 /\ ~ stopped => \A w \in Workers : At(w, "suspended")

Copies(j, s) == Cardinality({i \in DOMAIN s : s[i] = j})

\* A job lives as long as anybody can get at it: the threads, the queues, handles.
NobodyHasFreed ==
  \A j \in Jobs : refs[j] = 0 =>
    /\ j \notin handle
    /\ \A q \in Queues, p \in Priorities : Copies(j, items[q][p]) = 0
    /\ \A t \in Workers \cup Clients : Job(t) # j /\ th[t].for # j /\ Copies(j, th[t].back) = 0

\* ExecuteToPriority decides by the count of the lock-free queue and services what
\* Pop returns, which may be NULL.
NeverServicesNull == \A t \in Clients : ~ At(t, "null")

\* Jobs of JF_SERIAL ("Job cannot be executed out of order relative to other
\* 'strict' jobs") that the pool executes are executed in the order they were added.
FromQueue(t) == th[t].op \in {"run", "wait", "finish"}
SerialInOrder ==
  [][\A j \in Range(serial), t \in Workers \cup Clients :
       FromQueue(t) /\ Job(t) = j /\ At(t, "service") /\ status'[j] = "inprogress" =>
         \A i, k \in DOMAIN serial :
           serial[k] = j /\ i < k =>
             /\ ~ CanExecute(serial[i])
             /\ ~ \E u \in Workers \cup Clients : FromQueue(u) /\ lock[serial[i]] = u]_poolVars

\* A job that was added is executed or aborted in the end.  (Each is added once.)
EveryJobFinishes == <>[](\A j \in Jobs : status[j] = "none" \/ Finished(j))

\* Calls return: nobody waits for ever for a job, a worker or the suspension.
CallsReturn == \A t \in Clients : []<>At(t, "idle")
====
