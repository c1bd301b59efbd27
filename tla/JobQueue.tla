---- MODULE JobQueue ----
(***************************************************************************)
(* CJobQueue (vstdlib/jobthread.cpp), what the threads of a CThreadPool    *)
(* take their jobs from: a CTSQueue of each priority, here one, beside a   *)
(* counter and an event under a mutex.  A Pop reserves an item under the   *)
(* mutex and takes it from the queue afterwards.                           *)
(***************************************************************************)
EXTENDS TSQueue

CONSTANTS
  Workers,   \* the threads that run CJobThread::Run
  Takers     \* the threads that call Pop: for a worker's direct queue the
             \* worker, for the shared queue any thread of the program

ASSUME ThreadsAssumption == Workers \subseteq Takers /\ Takers \subseteq Threads

VARIABLES
  nItems,      \* m_nItems
  available,   \* m_JobAvailableEvent is set
  job,         \* job[t]: what thread t does: "none", "push" its item, "count"
               \* it, "take" or "taking" the item it reserved, "missing" when
               \* the queue had none
  waiting,     \* the workers that wait for m_JobAvailableEvent
  by           \* history: by[v], the thread that pushed item v

jobVars == <<nItems, available, job, waiting, by>>
allVars == <<vars, jobVars>>

JobInit ==
  /\ Init
  /\ nItems = 0
  /\ available = FALSE
  /\ job = [t \in Threads |-> "none"]
  /\ waiting = Workers
  /\ by = <<>>

Does(t, j) == job' = [job EXCEPT ![t] = j]

\* Push: PushItem on the queue of the job's priority, by a thread that is not
\* asleep: a worker pushes in the jobs it runs.
PushJob(t) ==
  /\ job[t] = "none" /\ t \notin waiting
  /\ PushItem(t)
  /\ by' = Append(by, t)
  /\ Does(t, "push")
  /\ UNCHANGED <<nItems, available, waiting>>

\* Mutant: m_nItems is looked at before it is counted up.
CountJobEarly(t) ==
  /\ job[t] = "count"
  /\ nItems' = nItems + 1
  /\ available' = (available \/ nItems = 1)
  /\ Does(t, "none")
  /\ UNCHANGED <<vars, waiting, by>>

\* Push's critical section: a first item sets the event.
CountJob(t) ==
  /\ job[t] = "count"
  /\ nItems' = nItems + 1
  /\ available' = (available \/ nItems' = 1)
  /\ Does(t, "none")
  /\ UNCHANGED <<vars, waiting, by>>

\* Pop's first critical section: reserve an item, or there is none, and the
\* worker goes back to Wait.
Reserve(t) ==
  /\ job[t] = "none" /\ t \in Takers \ waiting
  /\ nItems > 0
  /\ nItems' = nItems - 1
  /\ available' = (available /\ nItems' # 0)
  /\ Does(t, "take")
  /\ UNCHANGED <<vars, waiting, by>>

NoJob(t) ==
  /\ job[t] = "none" /\ t \in Workers \ waiting
  /\ nItems = 0
  /\ waiting' = waiting \cup {t}
  /\ UNCHANGED <<vars, nItems, available, job, by>>

Wake(t) ==
  /\ t \in waiting
  /\ available
  /\ waiting' = waiting \ {t}
  /\ UNCHANGED <<vars, nItems, available, job, by>>

Take(t) ==
  /\ job[t] = "take"
  /\ PopItem(t)
  /\ Does(t, "taking")
  /\ UNCHANGED <<nItems, available, waiting, by>>

\* A step of PushItem or PopItem; when it returns, Push goes on to count the
\* job, Pop has its job or finds that the item it reserved is not there.
QueueStep(t) ==
  /\ job[t] \in {"push", "taking"}
  /\ Run(t)
  /\ Does(t, IF pc'[t] # "idle" THEN job[t]
             ELSE IF job[t] = "push" THEN "count"
             ELSE IF ret' = <<t, NoItem>> THEN "missing" ELSE "none")
  /\ UNCHANGED <<nItems, available, waiting, by>>

\* Mutant: the reservation of an item that was not there is not given back.
KeepReservation(t) ==
  /\ job[t] = "missing"
  /\ Does(t, "none")
  /\ waiting' = waiting \cup ({t} \cap Workers)
  /\ UNCHANGED <<vars, nItems, available, by>>

\* Pop's second critical section, behind the assertion "Expected at least one
\* queue item", which does fail: the reservation is given back.
GiveBack(t) ==
  /\ job[t] = "missing"
  /\ nItems' = nItems + 1
  /\ available' = (available \/ nItems' = 1)
  /\ Does(t, "none")
  /\ waiting' = waiting \cup ({t} \cap Workers)
  /\ UNCHANGED <<vars, by>>

JobRun(t) == QueueStep(t) \/ CountJob(t) \/ Take(t) \/ GiveBack(t)

JobNext ==
  \E t \in alive : PushJob(t) \/ Reserve(t) \/ NoJob(t) \/ Wake(t) \/ JobRun(t)

JobSpec == JobInit /\ [][JobNext]_allVars

\* Threads finish what they started, and a worker that is not waiting looks
\* for jobs.  Threads that are not workers take jobs only when they like to.
JobLiveSpec ==
  /\ JobSpec
  /\ \A t \in Threads : WF_allVars(JobRun(t))
  /\ \A t \in Workers : WF_allVars(Wake(t) \/ Reserve(t) \/ NoJob(t))

----------------------------------------------------------------------------
NoneUnderWay == \A t \in Threads : job[t] = "none"

\* m_nItems counts the jobs that are in the queue and that no Pop has
\* reserved; it is what a worker decides by whether to sleep.
ItemsAreJobs ==
  NoneUnderWay => nItems = Len(Contents) /\ available = (nItems > 0)

\* JF_SERIAL ("Job cannot be executed out of order relative to other "strict"
\* jobs", the appends of filesystem_async.cpp): of two such jobs that one
\* thread pushed, one after the other, the first is taken first.
SerialJobs ==
  \A i, j \in 1..Len(popped) : i < j /\ by[popped[i]] = by[popped[j]] => popped[i] < popped[j]

\* Every job that was pushed is taken in the end: no wakeup is lost between
\* the counter, the event and the queue.
EveryJobTaken == \A v \in Values : (pushes >= v) ~> (v \in Items(popped))
====
