---- MODULE ThreadPoolProofs ----
(***************************************************************************)
(* A job of the pool is serviced once and outlives its last reference,     *)
(* whatever the threads are doing, and no worker has a job while the pool  *)
(* is suspended: for any finite numbers of jobs, workers and clients.      *)
(***************************************************************************)
EXTENDS ThreadPool, FunctionTheorems, FiniteSetTheorems, SequenceTheorems, WellFoundedInduction, TLAPS

Actors == Workers \cup Clients

----------------------------------------------------------------------------
(* Where a thread can be.                                                  *)

\* The steps at which a thread has a job, and only at those.
JobPlaces ==
  {"busy", "service", "doExecute", "cleanup", "release", "push", "count", "added",
   "execute", "abort", "filter"}

OtherPlaces ==
  {"idle", "wait", "peek", "popDirect", "popShared", "take", "again", "noJob", "suspend",
   "suspending", "suspended", "gone", "yield", "sleep", "scan", "pop", "null", "drain",
   "nextQueue", "resume", "exit", "join"}

\* The steps of a thread, by what it was called for.
Suspending == {"suspend", "suspending", "resume"}
Aborting == {"drain", "take", "abort", "release", "nextQueue"}
Executing == {"execute", "doExecute", "cleanup"}
Looking ==
  {"wait", "peek", "popDirect", "popShared", "busy", "again", "noJob", "suspend", "suspended",
   "gone"}
Finishing == {"scan", "pop", "null", "filter", "push", "count"}
Servicing == {"take", "service", "doExecute", "cleanup", "release"}
Placed(op, p) ==
  \/ op = "none" /\ p = "idle"
  \/ op = "run" /\ (p \in Servicing \/ p \in Looking)
  \/ op = "add" /\ (p \in Executing \/ p \in {"push", "count", "added"})
  \/ op = "raise" /\ p \in {"push", "count"}
  \/ op = "execute" /\ p \in Executing
  \/ op = "abort" /\ p = "abort"
  \/ op = "wait" /\ (p \in Servicing \/ p \in {"yield", "popShared", "sleep"})
  \/ op = "finish" /\ (p \in Servicing \/ p \in Suspending \/ p \in Finishing)
  \/ op \in {"abortAll", "shutdown"} /\ (p \in Suspending \/ p \in Aborting)
  \/ op = "shutdown" /\ p \in {"exit", "join"}
  \/ op = "suspend" /\ p \in Suspending

Ops == {"none", "run", "add", "raise", "execute", "abort", "wait", "finish", "abortAll",
        "shutdown", "suspend"}

Threads ==
  [op : Ops, pc : JobPlaces \cup OtherPlaces, job : Jobs \cup {NoJob}, for : Jobs \cup {NoJob}, queue : Queues,
   pos : Nat, last : Int, all : BOOLEAN, back : Seq(Jobs), took : BOOLEAN]

\* r is a state of thread t.
ThreadOK(t, r) ==
  /\ r \in Threads
  /\ Placed(r.op, r.pc)
  /\ r.op = "run" <=> t \in Workers
  /\ IF r.pc \in JobPlaces THEN r.job \in Jobs ELSE r.job = NoJob
  /\ r.for \in Jobs <=> r.op = "wait"
  /\ r.op \in {"abortAll", "shutdown"} => r.pos \in 0..NumWorkers /\ r.last = NumWorkers
  /\ r.op = "finish" => r.last = LastPosition
  /\ r.back # <<>> => r.op = "finish"

Statuses == {"none", "pending", "unserviced", "inprogress", "ok", "aborted"}

DataTypes ==
  /\ status \in [Jobs -> Statuses] /\ priority \in [Jobs -> Priorities]
  /\ refs \in [Jobs -> Int] /\ runs \in [Jobs -> Nat]
  /\ lock \in [Jobs -> Actors \cup {NoThread}]
  /\ complete \subseteq Jobs /\ handle \subseteq Jobs
  /\ items \in [Queues -> [Priorities -> Seq(Jobs)]]
  /\ count \in [Queues -> Int]
  /\ idle \in Int /\ nSuspend \in Int
  /\ call \in [Workers -> {"none", "suspend", "exit"}]
  /\ running \in [Workers -> BOOLEAN]
  /\ suspender \in Actors \cup {NoThread}
  /\ stopped \in BOOLEAN
  /\ serial \in Seq(Jobs)
  /\ suspends \in 0..MaxSuspends

ThreadTypes == th \in [Actors -> Threads] /\ \A t \in Actors : ThreadOK(t, th[t])

PoolTypes == DataTypes /\ ThreadTypes

----------------------------------------------------------------------------
(* The mutex of a job.                                                     *)

InJob == {"doExecute", "cleanup"}

\* A job is locked by the thread that is executing it, and by nobody else.
Locks ==
  /\ \A t \in Actors : th[t].pc \in InJob =>
       /\ lock[Job(t)] = t
       /\ status[Job(t)] = IF At(t, "doExecute") THEN "inprogress" ELSE "ok"
  /\ \A j \in Jobs : lock[j] # NoThread => Job(lock[j]) = j /\ th[lock[j]].pc \in InJob
  /\ \A j \in Jobs : status[j] = "inprogress" => lock[j] # NoThread

----------------------------------------------------------------------------
(* The suspension of the workers.                                          *)

Suspension ==
  /\ \A w \in Workers : ~ running[w] => At(w, "suspended")
  /\ nSuspend > 0 /\ ~ stopped => \A w \in Workers : ~ running[w]

----------------------------------------------------------------------------
(* The references to a job.                                                *)

\* What a thread does by somebody's handle.
HandleOps == {"raise", "execute", "abort"}

\* The threads that have a reference of their own: a creator that has not returned,
\* and whoever took the job out of a queue.
Takers(j) == {t \in Actors : Job(t) = j /\ th[t].op \notin HandleOps}

\* The places of the queues, and of jobsToPutBack, where the job is.
Queued(j) ==
  {x \in (Queues \X Priorities) \X Nat :
     /\ x[2] \in 1..Len(items[x[1][1]][x[1][2]])
     /\ items[x[1][1]][x[1][2]][x[2]] = j}
PutAside(j) ==
  {x \in Actors \X Nat : x[2] \in 1..Len(th[x[1]].back) /\ th[x[1]].back[x[2]] = j}

Has(S, x) == IF x \in S THEN 1 ELSE 0

RefsOf(j) ==
  /\ IsFiniteSet(Queued(j)) /\ IsFiniteSet(PutAside(j))
  /\ refs[j] = Has(handle, j) + Has(Actors, lock[j]) + Cardinality(Takers(j))
                 + Cardinality(Queued(j)) + Cardinality(PutAside(j))

References ==
  /\ \A j \in Jobs : RefsOf(j)
  /\ \A j \in Jobs : status[j] = "none" => refs[j] = 0

\* Who uses a handle uses it while it is there, who adds a job is alone with it, and who
\* has put jobs aside puts them back before the pool goes on.
Handles ==
  /\ \A t \in Actors : th[t].op \in HandleOps => Job(t) \in handle
  /\ \A t \in Actors : th[t].op = "wait" => th[t].for \in handle
  /\ \A t \in Actors : th[t].op = "add" =>
       /\ Job(t) \notin handle
       /\ \A u \in Actors : th[u].op = "add" /\ Job(u) = Job(t) => u = t
  /\ \A t \in Actors : At(t, "resume") => th[t].back = <<>>

----------------------------------------------------------------------------
(* The count of a queue.                                                   *)

Linked(q) == {x \in Priorities \X Nat : x[2] \in 1..Len(items[q][x[1]])}
Counting(q) == {t \in Actors : At(t, "count") /\ th[t].queue = q}
Taking(q) == {t \in Actors : At(t, "take") /\ th[t].queue = q}

\* m_nItems lags behind a Push and is ahead of a Pop.
Balanced ==
  \A q \in Queues :
    /\ IsFiniteSet(Linked(q))
    /\ count[q] + Cardinality(Counting(q)) + Cardinality(Taking(q)) = Cardinality(Linked(q))

----------------------------------------------------------------------------
(* The walks over the queues, with one master.                             *)

OneMaster == \A s, t \in Masters : s = t

\* The steps of a client with the pool suspended.
Alone(t) ==
  /\ th[t].op \in {"finish", "abortAll", "shutdown", "suspend"}
  /\ th[t].pc \notin {"suspend", "suspending", "exit", "join"}

\* Who walks over the queues holds the suspension, and a pool that is stopped has
\* no workers.
Holding ==
  /\ \A t \in Helpers : th[t].op \in {"none", "execute", "abort"}
  /\ nSuspend >= 0
  /\ \A t \in Clients : Alone(t) => nSuspend > 0
  /\ stopped => \A w \in Workers : At(w, "gone")

\* What the walk saw in a queue is still there when it pops.
Popping ==
  /\ \A t \in Clients : At(t, "pop") => \E p \in Priorities : items[th[t].queue][p] # <<>>
  /\ NeverServicesNull

----------------------------------------------------------------------------
(* Types.                                                                  *)

\* A step of thread t.
Step(t) ==
  \/ t \in Workers /\ WorkerStep(t)
  \/ t \in Clients /\ (ClientStep(t) \/ ClientCall(t))

LEMMA StepOfOne ==
  ASSUME PoolNext
  PROVE  \E t \in Actors : Step(t)
PROOF
  BY DEF PoolNext, Step, Actors

\* A thread goes on with what it is doing.
LEMMA GotoOK ==
  ASSUME PoolTypes, NEW t \in Actors, NEW p \in JobPlaces \cup OtherPlaces, Placed(th[t].op, p), p # "idle",
         p \in JobPlaces <=> th[t].pc \in JobPlaces, Goto(t, p)
  PROVE  th' \in [Actors -> Threads] /\ \A u \in Actors : ThreadOK(u, th'[u])
PROOF
<1>1. th' = [th EXCEPT ![t] = [th[t] EXCEPT !.pc = p]] /\ th \in [Actors -> Threads]
  BY DEF Goto, PoolTypes, ThreadTypes
<1>2. th'[t] = [th[t] EXCEPT !.pc = p] /\ th[t] \in Threads
  BY <1>1
<1> DEFINE r == [th[t] EXCEPT !.pc = p]
<1>3. /\ r \in Threads
      /\ r.pc = p /\ r.op = th[t].op /\ r.job = th[t].job /\ r.for = th[t].for
      /\ r.pos = th[t].pos /\ r.last = th[t].last /\ r.back = th[t].back
  BY <1>2 DEF Threads
<1> HIDE DEF r
<1>4. ThreadOK(t, r)
  BY <1>3 DEF PoolTypes, ThreadTypes, ThreadOK
<1> QED
  BY <1>1, <1>2, <1>3, <1>4 DEF PoolTypes, ThreadTypes, r

\* A thread is put into another state.
LEMMA MoveOK ==
  ASSUME PoolTypes, NEW t \in Actors, NEW r, ThreadOK(t, r), th' = [th EXCEPT ![t] = r]
  PROVE  th' \in [Actors -> Threads] /\ \A u \in Actors : ThreadOK(u, th'[u])
PROOF
  BY DEF PoolTypes, ThreadTypes, ThreadOK

\* A client's call returns.
LEMMA IdleOK ==
  ASSUME PoolTypes, NEW t \in Clients, Goto(t, "idle")
  PROVE  th' \in [Actors -> Threads] /\ \A u \in Actors : ThreadOK(u, th'[u])
PROOF
<1> DEFINE r == Thread("none", "idle")
<1>1. t \in Actors /\ t \notin Workers /\ NoJob \notin Jobs
  BY PoolAssumption DEF Actors, Clients, Workers
<1>2. /\ r \in Threads
      /\ r.op = "none" /\ r.pc = "idle" /\ r.job = NoJob /\ r.for = NoJob /\ r.back = <<>>
  BY DEF Thread, Threads, Queues, Shared, Ops, OtherPlaces
<1>3. th' = [th EXCEPT ![t] = r]
  BY DEF Goto
<1> HIDE DEF r
<1>4. ThreadOK(t, r)
  BY <1>1, <1>2 DEF ThreadOK, Placed, JobPlaces
<1> QED
  BY <1>1, <1>3, <1>4, MoveOK

LEMMA TopFilled ==
  ASSUME PoolTypes, NEW q \in Queues, Filled(q) # {}
  PROVE  /\ Max(Filled(q)) \in Priorities
         /\ items[q][Max(Filled(q))] \in Seq(Jobs) \ {<<>>}
         /\ Head(items[q][Max(Filled(q))]) \in Jobs
PROOF
<1> DEFINE U == {n \in Nat : TopPriority - n \in Filled(q)}
<1>1. Filled(q) \subseteq 0..TopPriority /\ TopPriority \in Nat
  BY PoolAssumption DEF Filled, Priorities
<1>2. PICK p \in Filled(q) : TRUE
  OBVIOUS
<1>3. TopPriority - p \in U
  BY <1>1, <1>2
<1>4. U \subseteq Nat /\ U # {}
  BY <1>3
<1> HIDE DEF U
<1>5. PICK x \in U : \A y \in U : ~ (<<y, x>> \in OpToRel(<, Nat))
  BY <1>4, NatLessThanWellFounded, WFMin
<1>6. ASSUME NEW y \in U, y < x
      PROVE  <<y, x>> \in OpToRel(<, Nat)
  <2>1. <<y, x>> \in Nat \X Nat
    BY <1>4
  <2>2. <<y, x>>[1] < <<y, x>>[2]
    BY <1>6
  <2> QED
    BY <2>1, <2>2, Zenon DEF OpToRel
<1>7. \A y \in U : ~ (y < x)
  BY <1>5, <1>6, Zenon
<1>8. TopPriority - x \in Filled(q) /\ \A y \in Filled(q) : TopPriority - x >= y
  BY <1>1, <1>7 DEF U
<1>9. Max(Filled(q)) \in Filled(q)
  BY <1>8 DEF Max
<1> QED
  BY <1>9 DEF Filled, PoolTypes, DataTypes

\* The end of the walk of ExecuteToPriority.
LEMMA LastIsInt == LastPosition \in Int
PROOF
<1>1. NumWorkers \in Nat /\ TopPriority \in Nat
  BY PoolAssumption
<1>2. Queues = 0..NumWorkers
  BY <1>1 DEF Queues, Shared, Workers
<1>3. Cardinality(Queues) = NumWorkers + 1
  BY <1>1, <1>2, FS_Interval
<1> QED
  BY <1>1, <1>3 DEF LastPosition

\* What a client starts with.
LEMMA NewThread ==
  ASSUME NEW op \in Ops, NEW p \in JobPlaces \cup OtherPlaces
  PROVE  /\ Thread(op, p) \in Threads
         /\ Thread(op, p).op = op /\ Thread(op, p).pc = p
         /\ Thread(op, p).job = NoJob /\ Thread(op, p).for = NoJob
         /\ Thread(op, p).pos = 0 /\ Thread(op, p).back = <<>>
PROOF
<1>1. Shared \in Queues
  BY DEF Shared, Queues
<1> QED
  BY <1>1 DEF Thread, Threads

\* A client is called.
LEMMA CallOK ==
  ASSUME PoolTypes, NEW t \in Clients, ClientCall(t)
  PROVE  th' \in [Actors -> Threads] /\ \A u \in Actors : ThreadOK(u, th'[u])
PROOF
<1>1. t \in Actors /\ t \notin Workers /\ NoJob \notin Jobs /\ NumWorkers \in Nat
  BY PoolAssumption DEF Actors, Clients, Workers
<1>2. Shared \in Queues /\ SerialQueue \in Queues
  BY PoolAssumption DEF Shared, SerialQueue, Queues, Workers
<1> DEFINE Moved == \E r : ThreadOK(t, r) /\ th' = [th EXCEPT ![t] = r]
<1>3. ASSUME NEW k \in Jobs, AddExecuted(t, k)
      PROVE  Moved
  <2> DEFINE x == Thread("add", "execute")
             r == [x EXCEPT !.job = k, !.queue = Shared]
  <2>1. x \in Threads /\ x.op = "add" /\ x.pc = "execute"
        /\ x.job = NoJob /\ x.for = NoJob /\ x.pos = 0 /\ x.back = <<>>
    BY NewThread DEF Ops, JobPlaces, OtherPlaces
  <2>2. th' = [th EXCEPT ![t] = r]
    BY <1>3 DEF AddExecuted, AddJob, Begin
  <2> HIDE DEF x
  <2>3. ThreadOK(t, r)
    BY <1>1, <1>2, <1>3, <2>1, LastIsInt
    DEF ThreadOK, Threads, Placed, Executing, Suspending, JobPlaces
  <2> QED
    BY <2>2, <2>3
<1>4. ASSUME NEW k \in Jobs, AddQueued(t, k)
      PROVE  Moved
  <2> DEFINE x == Thread("add", "push")
             r == [x EXCEPT !.job = k, !.queue = Shared]
  <2>1. x \in Threads /\ x.op = "add" /\ x.pc = "push"
        /\ x.job = NoJob /\ x.for = NoJob /\ x.pos = 0 /\ x.back = <<>>
    BY NewThread DEF Ops, JobPlaces, OtherPlaces
  <2>2. th' = [th EXCEPT ![t] = r]
    BY <1>4 DEF AddQueued, AddJob, Begin
  <2> HIDE DEF x
  <2>3. ThreadOK(t, r)
    BY <1>1, <1>2, <1>4, <2>1, LastIsInt
    DEF ThreadOK, Threads, Placed, Executing, Suspending, JobPlaces
  <2> QED
    BY <2>2, <2>3
<1>5. ASSUME NEW k \in Jobs, AddSerial(t, k)
      PROVE  Moved
  <2> DEFINE x == Thread("add", "push")
             r == [x EXCEPT !.job = k, !.queue = SerialQueue]
  <2>1. x \in Threads /\ x.op = "add" /\ x.pc = "push"
        /\ x.job = NoJob /\ x.for = NoJob /\ x.pos = 0 /\ x.back = <<>>
    BY NewThread DEF Ops, JobPlaces, OtherPlaces
  <2>2. th' = [th EXCEPT ![t] = r]
    BY <1>5 DEF AddSerial, AddJob, Begin
  <2> HIDE DEF x
  <2>3. ThreadOK(t, r)
    BY <1>1, <1>2, <1>5, <2>1, LastIsInt
    DEF ThreadOK, Threads, Placed, Executing, Suspending, JobPlaces
  <2> QED
    BY <2>2, <2>3
<1>6. ASSUME NEW k \in Jobs, ChangePriority(t, k)
      PROVE  Moved
  <2> DEFINE x == Thread("raise", "push")
             r == [x EXCEPT !.job = k]
  <2>1. x \in Threads /\ x.op = "raise" /\ x.pc = "push"
        /\ x.job = NoJob /\ x.for = NoJob /\ x.pos = 0 /\ x.back = <<>>
    BY NewThread DEF Ops, JobPlaces, OtherPlaces
  <2>2. th' = [th EXCEPT ![t] = r]
    BY <1>6 DEF ChangePriority, With, Begin
  <2> HIDE DEF x
  <2>3. ThreadOK(t, r)
    BY <1>1, <1>2, <1>6, <2>1, LastIsInt
    DEF ThreadOK, Threads, Placed, Executing, Suspending, JobPlaces
  <2> QED
    BY <2>2, <2>3
<1>7. ASSUME NEW k \in Jobs, WaitForFinish(t, k)
      PROVE  Moved
  <2> DEFINE x == Thread("wait", "yield")
             r == [x EXCEPT !.for = k]
  <2>1. x \in Threads /\ x.op = "wait" /\ x.pc = "yield"
        /\ x.job = NoJob /\ x.for = NoJob /\ x.pos = 0 /\ x.back = <<>>
    BY NewThread DEF Ops, JobPlaces, OtherPlaces
  <2>2. th' = [th EXCEPT ![t] = r]
    BY <1>7 DEF WaitForFinish, Begin
  <2> HIDE DEF x
  <2>3. ThreadOK(t, r)
    BY <1>1, <1>2, <1>7, <2>1, LastIsInt
    DEF ThreadOK, Threads, Placed, Executing, Suspending, JobPlaces
  <2> QED
    BY <2>2, <2>3
<1>8. ASSUME SuspendExecution(t)
      PROVE  Moved
  <2> DEFINE x == Thread("suspend", "suspend")
             r == x
  <2>1. x \in Threads /\ x.op = "suspend" /\ x.pc = "suspend"
        /\ x.job = NoJob /\ x.for = NoJob /\ x.pos = 0 /\ x.back = <<>>
    BY NewThread DEF Ops, JobPlaces, OtherPlaces
  <2>2. th' = [th EXCEPT ![t] = r]
    BY <1>8 DEF SuspendExecution, BeginSuspended, Begin
  <2> HIDE DEF x
  <2>3. ThreadOK(t, r)
    BY <1>1, <1>2, <1>8, <2>1, LastIsInt
    DEF ThreadOK, Threads, Placed, Executing, Suspending, JobPlaces
  <2> QED
    BY <2>2, <2>3
<1>9. ASSUME AbortAll(t)
      PROVE  Moved
  <2> DEFINE x == Thread("abortAll", "suspend")
             r == [x EXCEPT !.last = NumWorkers]
  <2>1. x \in Threads /\ x.op = "abortAll" /\ x.pc = "suspend"
        /\ x.job = NoJob /\ x.for = NoJob /\ x.pos = 0 /\ x.back = <<>>
    BY NewThread DEF Ops, JobPlaces, OtherPlaces
  <2>2. th' = [th EXCEPT ![t] = r]
    BY <1>9 DEF AbortAll, BeginSuspended, Begin
  <2> HIDE DEF x
  <2>3. ThreadOK(t, r)
    BY <1>1, <1>2, <1>9, <2>1, LastIsInt
    DEF ThreadOK, Threads, Placed, Executing, Suspending, JobPlaces
  <2> QED
    BY <2>2, <2>3
<1>10. ASSUME Shutdown(t)
      PROVE  Moved
  <2> DEFINE x == Thread("shutdown", "suspend")
             r == [x EXCEPT !.last = NumWorkers]
  <2>1. x \in Threads /\ x.op = "shutdown" /\ x.pc = "suspend"
        /\ x.job = NoJob /\ x.for = NoJob /\ x.pos = 0 /\ x.back = <<>>
    BY NewThread DEF Ops, JobPlaces, OtherPlaces
  <2>2. th' = [th EXCEPT ![t] = r]
    BY <1>10 DEF Shutdown, BeginSuspended, Begin
  <2> HIDE DEF x
  <2>3. ThreadOK(t, r)
    BY <1>1, <1>2, <1>10, <2>1, LastIsInt
    DEF ThreadOK, Threads, Placed, Executing, Suspending, JobPlaces
  <2> QED
    BY <2>2, <2>3
<1>11. ASSUME BeginResume(t)
      PROVE  Moved
  <2> DEFINE x == Thread("suspend", "resume")
             r == x
  <2>1. x \in Threads /\ x.op = "suspend" /\ x.pc = "resume"
        /\ x.job = NoJob /\ x.for = NoJob /\ x.pos = 0 /\ x.back = <<>>
    BY NewThread DEF Ops, JobPlaces, OtherPlaces
  <2>2. th' = [th EXCEPT ![t] = r]
    BY <1>11 DEF BeginResume, Begin
  <2> HIDE DEF x
  <2>3. ThreadOK(t, r)
    BY <1>1, <1>2, <1>11, <2>1, LastIsInt
    DEF ThreadOK, Threads, Placed, Executing, Suspending, JobPlaces
  <2> QED
    BY <2>2, <2>3
<1>12. ASSUME NEW k \in Jobs, Begin(t, With(k, Thread("execute", "execute")))
      PROVE  Moved
  <2> DEFINE x == Thread("execute", "execute")
             r == [x EXCEPT !.job = k]
  <2>1. x \in Threads /\ x.op = "execute" /\ x.pc = "execute"
        /\ x.job = NoJob /\ x.for = NoJob /\ x.pos = 0 /\ x.back = <<>>
    BY NewThread DEF Ops, JobPlaces, OtherPlaces
  <2>2. th' = [th EXCEPT ![t] = r]
    BY <1>12 DEF With, Begin
  <2> HIDE DEF x
  <2>3. ThreadOK(t, r)
    BY <1>1, <1>2, <1>12, <2>1 DEF ThreadOK, Threads, Placed, Executing, JobPlaces
  <2> QED
    BY <2>2, <2>3
<1>13. ASSUME NEW k \in Jobs, Begin(t, With(k, Thread("abort", "abort")))
      PROVE  Moved
  <2> DEFINE x == Thread("abort", "abort")
             r == [x EXCEPT !.job = k]
  <2>1. x \in Threads /\ x.op = "abort" /\ x.pc = "abort"
        /\ x.job = NoJob /\ x.for = NoJob /\ x.pos = 0 /\ x.back = <<>>
    BY NewThread DEF Ops, JobPlaces, OtherPlaces
  <2>2. th' = [th EXCEPT ![t] = r]
    BY <1>13 DEF With, Begin
  <2> HIDE DEF x
  <2>3. ThreadOK(t, r)
    BY <1>1, <1>2, <1>13, <2>1 DEF ThreadOK, Threads, Placed, Executing, JobPlaces
  <2> QED
    BY <2>2, <2>3
<1>14. ASSUME ExecuteToPriority(t)
      PROVE  Moved
  <2> DEFINE x == Thread("finish", "suspend")
  <2>1. x \in Threads /\ x.op = "finish" /\ x.pc = "suspend"
        /\ x.job = NoJob /\ x.for = NoJob /\ x.pos = 0 /\ x.back = <<>>
    BY NewThread DEF Ops, JobPlaces, OtherPlaces
  <2>2. PICK b \in BOOLEAN : th' = [th EXCEPT ![t] = [x EXCEPT !.last = LastPosition, !.all = b]]
    BY <1>14 DEF ExecuteToPriority, BeginSuspended, Begin
  <2> HIDE DEF x
  <2>3. ThreadOK(t, [x EXCEPT !.last = LastPosition, !.all = b])
    BY <1>1, <2>1, LastIsInt DEF ThreadOK, Threads, Placed, Suspending, JobPlaces
  <2> QED
    BY <2>2, <2>3
<1>15. ASSUME NEW k \in Jobs, ReleaseHandle(t, k)
       PROVE  th' = th
  BY <1>15 DEF ReleaseHandle
<1> HIDE DEF Moved
<1>16. Moved \/ th' = th
  BY <1>3, <1>4, <1>5, <1>6, <1>7, <1>8, <1>9, <1>10, <1>11, <1>12, <1>13, <1>14, <1>15 DEF ClientCall, ByHand
<1> QED
  BY <1>1, <1>16, MoveOK DEF PoolTypes, ThreadTypes, Moved

LEMMA ThreadsNext ==
  ASSUME PoolTypes, PoolNext
  PROVE  th' \in [Actors -> Threads] /\ \A u \in Actors : ThreadOK(u, th'[u])
PROOF
<1> DEFINE Good == th' \in [Actors -> Threads] /\ \A u \in Actors : ThreadOK(u, th'[u])
<1>1. PICK t \in Actors : Step(t)
  BY StepOfOne
<1>2. /\ th \in [Actors -> Threads] /\ th[t] \in Threads /\ ThreadOK(t, th[t])
      /\ Placed(th[t].op, th[t].pc)
      /\ th[t].op = "run" <=> t \in Workers
      /\ IF th[t].pc \in JobPlaces THEN th[t].job \in Jobs ELSE th[t].job = NoJob
  BY DEF PoolTypes, ThreadTypes, ThreadOK
<1>3. /\ t \in Workers => t \notin Clients
      /\ t \notin Workers => t \in Clients
      /\ NoJob \notin Jobs
  BY PoolAssumption DEF Actors, Clients, Workers
<1> HIDE DEF Good
<1> USE DEF Placed, Suspending, Aborting, Executing, Servicing, Looking, Finishing, JobPlaces, OtherPlaces, At
<1>4. CASE Service(t)
  BY <1>1, <1>2, <1>3, <1>4, GotoOK DEF Service, Enter, Good
<1>5. CASE Execute(t)
  BY <1>1, <1>2, <1>3, <1>5, GotoOK, IdleOK DEF Execute, Enter, AfterJob, Good
<1>6. CASE Done(t)
  BY <1>1, <1>2, <1>3, <1>6, GotoOK DEF Done, Good
<1>7. CASE Cleanup(t)
  BY <1>1, <1>2, <1>3, <1>7, GotoOK, IdleOK DEF Cleanup, AfterJob, Good
<1>8. CASE Abort(t)
  BY <1>1, <1>2, <1>3, <1>8, GotoOK, IdleOK DEF Abort, AfterJob, Good
<1>9. CASE PushJob(t)
  BY <1>1, <1>2, <1>3, <1>9, GotoOK DEF PushJob, Good
<1>10. CASE Count(t)
  BY <1>1, <1>2, <1>3, <1>10, GotoOK, IdleOK DEF Count, AfterPush, Good
<1>11. CASE Wake(t)
  BY <1>1, <1>2, <1>3, <1>11, GotoOK DEF Wake, Good
<1>12. CASE Again(t)
  BY <1>1, <1>2, <1>3, <1>12, GotoOK DEF Again, Good
<1>13. CASE ReplySuspend(t)
  BY <1>1, <1>2, <1>3, <1>13, GotoOK DEF ReplySuspend, Good
<1>14. CASE t \in Workers /\ SuspendSelf(t)
  BY <1>1, <1>2, <1>3, <1>14, GotoOK DEF SuspendSelf, Good
<1>15. CASE Awake(t)
  BY <1>1, <1>2, <1>3, <1>15, GotoOK DEF Awake, Good
<1>16. CASE Exit(t)
  BY <1>1, <1>2, <1>3, <1>16, GotoOK DEF Exit, Good
<1>17. CASE t \in Clients /\ CallWorkers(t)
  BY <1>1, <1>2, <1>3, <1>17, GotoOK DEF CallWorkers, Good
<1>18. CASE Scanned(t)
  BY <1>1, <1>2, <1>3, <1>18, GotoOK DEF Scanned, Good
<1>19. CASE Suspended(t)
  BY <1>1, <1>2, <1>3, <1>19, GotoOK, IdleOK DEF Suspended, AfterSuspend, Good
<1>20. CASE ResumeExecution(t)
  BY <1>1, <1>2, <1>3, <1>20, GotoOK, IdleOK DEF ResumeExecution, Good
<1>21. CASE Added(t)
  BY <1>1, <1>2, <1>3, <1>21, GotoOK, IdleOK DEF Added, Good
<1>22. CASE Yield(t)
  BY <1>1, <1>2, <1>3, <1>22, GotoOK, IdleOK DEF Yield, Good
<1>23. CASE EndWait(t)
  BY <1>1, <1>2, <1>3, <1>23, GotoOK, IdleOK DEF EndWait, Good
<1>24. CASE Join(t)
  BY <1>1, <1>2, <1>3, <1>24, GotoOK, IdleOK DEF Join, Good
<1>25. CASE CallExit(t)
  BY <1>1, <1>2, <1>3, <1>25, GotoOK DEF CallExit, PoolTypes, ThreadTypes, Good
<1>26. CASE Release(t)
  <2> DEFINE r == [th[t] EXCEPT !.job = NoJob, !.pc = AfterService(t)]
  <2>1. th' = [th EXCEPT ![t] = r]
    BY <1>2, <1>26 DEF Release
  <2>2. ThreadOK(t, r)
    BY <1>1, <1>2, <1>3, <1>26 DEF Release, ThreadOK, Threads, AfterService
  <2> QED
    BY <2>1, <2>2, MoveOK DEF Good
<1>27. CASE Look(t)
  <2> DEFINE r == [th[t] EXCEPT !.took = FALSE, !.pc = "popDirect"]
  <2>1. th' = [th EXCEPT ![t] = r]
    BY <1>2, <1>27 DEF Look
  <2>2. ThreadOK(t, r)
    BY <1>1, <1>2, <1>3, <1>27 DEF Look, ThreadOK, Threads
  <2> QED
    BY <2>1, <2>2, MoveOK DEF Good
<1>28. CASE Busy(t)
  <2> DEFINE r == [th[t] EXCEPT !.took = TRUE, !.pc = "service"]
  <2>1. th' = [th EXCEPT ![t] = r]
    BY <1>2, <1>28 DEF Busy
  <2>2. ThreadOK(t, r)
    BY <1>1, <1>2, <1>3, <1>28 DEF Busy, ThreadOK, Threads
  <2> QED
    BY <2>1, <2>2, MoveOK DEF Good
<1>29. CASE Rest(t)
  <2> DEFINE r == [th[t] EXCEPT !.took = FALSE, !.pc = "wait"]
  <2>1. th' = [th EXCEPT ![t] = r]
    BY <1>2, <1>29 DEF Rest
  <2>2. ThreadOK(t, r)
    BY <1>1, <1>2, <1>3, <1>29 DEF Rest, ThreadOK, Threads
  <2> QED
    BY <2>1, <2>2, MoveOK DEF Good
<1>30. CASE Reserve(t)
  <2> DEFINE q == IF At(t, "popDirect") THEN t ELSE IF At(t, "popShared") THEN Shared
                  ELSE IF At(t, "drain") THEN th[t].pos ELSE th[t].queue
             r == [th[t] EXCEPT !.queue = q, !.pc = "take"]
  <2>1. CASE count[q] = 0
    BY <1>1, <1>2, <1>3, <1>30, <2>1, GotoOK DEF Reserve, Nothing, Good
  <2>2. CASE count[q] # 0
    <3>1. th' = [th EXCEPT ![t] = r]
      BY <1>2, <1>30, <2>2 DEF Reserve
    <3>2. q \in Queues
      BY <1>1, <1>2, <1>3, <1>30 DEF Reserve, ThreadOK, Threads, Queues, Shared, Workers
    <3> HIDE DEF q
    <3>3. ThreadOK(t, r)
      BY <1>1, <1>2, <1>3, <1>30, <3>2 DEF Reserve, ThreadOK, Threads
    <3> QED
      BY <3>1, <3>3, MoveOK DEF Good
  <2> QED
    BY <2>1, <2>2
<1>31. CASE Take(t)
  <2> DEFINE q == th[t].queue
             j == Head(items[q][Max(Filled(q))])
             r == [th[t] EXCEPT !.job = j, !.queue = Shared, !.pc = AfterPop(t)]
  <2>1. th' = [th EXCEPT ![t] = r]
    BY <1>2, <1>31 DEF Take
  <2>2. q \in Queues /\ Filled(q) # {}
    BY <1>2, <1>31 DEF Take, Threads
  <2>3. j \in Jobs /\ Shared \in Queues
    BY <2>2, TopFilled DEF Queues
  <2> HIDE DEF j, q
  <2>4. ThreadOK(t, r)
    BY <1>1, <1>2, <1>3, <1>31, <2>3 DEF Take, AfterPop, ThreadOK, Threads
  <2> QED
    BY <2>1, <2>4, MoveOK DEF Good
<1>32. CASE Scan(t)
  <2> DEFINE q == ScanQueue(th[t].pos)
  <2>1. q \in Queues
    BY DEF ScanQueue, Queues
  <2>2. \/ th' = [th EXCEPT ![t] = [th[t] EXCEPT !.queue = q, !.pc = "pop"]]
        \/ th' = [th EXCEPT ![t] = [th[t] EXCEPT !.pos = th[t].pos + 1]]
    BY <1>2, <1>32 DEF Scan
  <2> HIDE DEF q
  <2>3. ThreadOK(t, [th[t] EXCEPT !.queue = q, !.pc = "pop"])
    BY <1>1, <1>2, <1>3, <1>32, <2>1 DEF Scan, ThreadOK, Threads
  <2>4. ThreadOK(t, [th[t] EXCEPT !.pos = th[t].pos + 1])
    BY <1>1, <1>2, <1>3, <1>32 DEF Scan, ThreadOK, Threads
  <2> QED
    BY <2>2, <2>3, <2>4, MoveOK DEF Good
<1>33. CASE Filter(t)
  <2> DEFINE b == Append(th[t].back, Job(t))
             r == [th[t] EXCEPT !.back = b, !.job = NoJob, !.pc = "scan"]
  <2>1. \/ th' = [th EXCEPT ![t] = r]
        \/ Goto(t, "service")
        \/ Goto(t, "release")
    BY <1>2, <1>33 DEF Filter
  <2>2. b \in Seq(Jobs)
    BY <1>2, <1>33 DEF Filter, Threads, Job
  <2> HIDE DEF b
  <2>3. ThreadOK(t, r)
    BY <1>1, <1>2, <1>3, <1>33, <2>2 DEF Filter, ThreadOK, Threads
  <2> HIDE DEF r
  <2> QED
    BY <1>2, <1>33, <2>1, <2>3, MoveOK, GotoOK DEF Filter, Good
<1>34. CASE PutBack(t)
  <2> DEFINE j == Head(th[t].back)
             q == TargetQueue(j)
             r == [th[t] EXCEPT !.job = j, !.queue = q, !.back = Tail(th[t].back), !.pc = "push"]
  <2>1. th' = [th EXCEPT ![t] = r]
    BY <1>2, <1>34 DEF PutBack
  <2>2. j \in Jobs /\ Tail(th[t].back) \in Seq(Jobs)
    BY <1>2, <1>34 DEF PutBack, Threads
  <2>3. q \in Queues
    BY PoolAssumption DEF TargetQueue, SerialQueue, Queues, Workers
  <2> HIDE DEF j, q
  <2>4. ThreadOK(t, r)
    BY <1>1, <1>2, <1>3, <1>34, <2>2, <2>3 DEF PutBack, ThreadOK, Threads
  <2> QED
    BY <2>1, <2>4, MoveOK DEF Good
<1>35. CASE NextQueue(t)
  <2> DEFINE n == th[t].pos + 1
             r == [th[t] EXCEPT !.pos = n, !.pc = "drain"]
  <2>1. CASE th[t].pos < th[t].last /\ ~ stopped
    <3>1. th' = [th EXCEPT ![t] = r]
      BY <1>2, <1>35, <2>1 DEF NextQueue
    <3>2. n \in Nat /\ n \in 0..NumWorkers /\ th[t].op \in {"abortAll", "shutdown"}
      BY <1>2, <1>35, <2>1, PoolAssumption DEF NextQueue, ThreadOK, Threads
    <3> HIDE DEF n
    <3>3. ThreadOK(t, r)
      BY <1>1, <1>2, <1>3, <1>35, <3>2 DEF NextQueue, ThreadOK, Threads
    <3> QED
      BY <3>1, <3>3, MoveOK DEF Good
  <2>2. CASE ~ (th[t].pos < th[t].last /\ ~ stopped)
    BY <1>1, <1>2, <1>3, <1>35, <2>2, GotoOK DEF NextQueue, Good
  <2> QED
    BY <2>1, <2>2
<1>36. CASE t \in Clients /\ ClientCall(t)
  BY <1>3, <1>36, CallOK DEF Good
<1> QED
  BY <1>1, <1>4, <1>5, <1>6, <1>7, <1>8, <1>9, <1>10, <1>11, <1>12, <1>13, <1>14, <1>15, <1>16, <1>17, <1>18, <1>19, <1>20, <1>21, <1>22, <1>23, <1>24, <1>25, <1>26, <1>27, <1>28, <1>29, <1>30, <1>31, <1>32, <1>33, <1>34, <1>35, <1>36
  DEF Step, WorkerStep, ClientStep

LEMMA DataNext ==
  ASSUME PoolTypes, PoolNext
  PROVE  DataTypes'
PROOF
<1>1. PICK t \in Actors : Step(t)
  BY StepOfOne
<1>2. DataTypes /\ th[t] \in Threads /\ ThreadOK(t, th[t])
  BY DEF PoolTypes, ThreadTypes
<1>3. NoJob \notin Jobs
  BY PoolAssumption
<1> USE DEF DataTypes, jobVars, queueVars, workerVars, suspendVars
<1>4. CASE Service(t)
  <2>1. Job(t) \in Jobs
    BY <1>2, <1>4 DEF Service, At, ThreadOK, JobPlaces, Job
  <2>2. \/ UNCHANGED jobVars
        \/ /\ lock' = [lock EXCEPT ![Job(t)] = t]
           /\ refs' = [refs EXCEPT ![Job(t)] = refs[Job(t)] + 1]
           /\ status' = [status EXCEPT ![Job(t)] = "inprogress"]
           /\ runs' = [runs EXCEPT ![Job(t)] = runs[Job(t)] + 1]
           /\ UNCHANGED <<priority, complete, handle, serial>>
    BY <1>4 DEF Service, Enter
  <2>3. lock' \in [Jobs -> Actors \cup {NoThread}]
    BY <1>2, <2>2
  <2>4. refs' \in [Jobs -> Int] /\ runs' \in [Jobs -> Nat]
    <3>1. refs[Job(t)] + 1 \in Int /\ runs[Job(t)] + 1 \in Nat
      BY <1>2, <2>1
    <3> QED
      BY <1>2, <2>2, <3>1
  <2>5. status' \in [Jobs -> Statuses]
    BY <1>2, <2>2 DEF Statuses
  <2> QED
    BY <1>2, <1>4, <2>2, <2>3, <2>4, <2>5 DEF Service
<1>5. CASE Execute(t)
  <2>1. Job(t) \in Jobs
    BY <1>2, <1>5 DEF Execute, At, ThreadOK, JobPlaces, Job
  <2>2. \/ UNCHANGED jobVars
        \/ /\ lock' = [lock EXCEPT ![Job(t)] = t]
           /\ refs' = [refs EXCEPT ![Job(t)] = refs[Job(t)] + 1]
           /\ status' = [status EXCEPT ![Job(t)] = "inprogress"]
           /\ runs' = [runs EXCEPT ![Job(t)] = runs[Job(t)] + 1]
           /\ UNCHANGED <<priority, complete, handle, serial>>
    BY <1>5 DEF Execute, Enter
  <2>3. lock' \in [Jobs -> Actors \cup {NoThread}]
    BY <1>2, <2>2
  <2>4. refs' \in [Jobs -> Int] /\ runs' \in [Jobs -> Nat]
    <3>1. refs[Job(t)] + 1 \in Int /\ runs[Job(t)] + 1 \in Nat
      BY <1>2, <2>1
    <3> QED
      BY <1>2, <2>2, <3>1
  <2>5. status' \in [Jobs -> Statuses]
    BY <1>2, <2>2 DEF Statuses
  <2> QED
    BY <1>2, <1>5, <2>2, <2>3, <2>4, <2>5 DEF Execute
<1>6. CASE Done(t)
  BY <1>2, <1>3, <1>6 DEF Done, Statuses
<1>7. CASE Cleanup(t)
  <2>1. Job(t) \in Jobs
    BY <1>2, <1>7 DEF Cleanup, At, ThreadOK, JobPlaces, Job
  <2>2. refs' \in [Jobs -> Int] /\ lock' \in [Jobs -> Actors \cup {NoThread}] /\ complete' \subseteq Jobs
    BY <1>2, <1>7, <2>1 DEF Cleanup
  <2> QED
    BY <1>2, <1>7, <2>2 DEF Cleanup
<1>8. CASE Abort(t)
  <2>1. Job(t) \in Jobs
    BY <1>2, <1>8 DEF Abort, At, ThreadOK, JobPlaces, Job
  <2>2. status' \in [Jobs -> Statuses]
    BY <1>2, <1>8, <2>1 DEF Abort, AbortedStatus, Statuses
  <2>3. complete' \subseteq Jobs
    BY <1>2, <1>8, <2>1 DEF Abort
  <2> QED
    BY <1>2, <1>8, <2>2, <2>3 DEF Abort
<1>9. CASE Release(t)
  <2>1. Job(t) \in Jobs
    BY <1>2, <1>9 DEF Release, At, ThreadOK, JobPlaces, Job
  <2>2. refs' \in [Jobs -> Int]
    BY <1>2, <1>9, <2>1 DEF Release
  <2> QED
    BY <1>2, <1>9, <2>2 DEF Release
<1>10. CASE PushJob(t)
  <2>1. Job(t) \in Jobs
    BY <1>2, <1>10 DEF PushJob, At, ThreadOK, JobPlaces, Job
  <2>2. refs' \in [Jobs -> Int]
    BY <1>2, <1>10, <2>1 DEF PushJob
  <2>3. th[t].queue \in Queues /\ priority[Job(t)] \in Priorities
    BY <1>2, <2>1 DEF Threads
  <2>4. items' \in [Queues -> [Priorities -> Seq(Jobs)]]
    BY <1>2, <1>10, <2>1, <2>3 DEF PushJob
  <2> QED
    BY <1>2, <1>10, <2>2, <2>4 DEF PushJob
<1>11. CASE Count(t)
  <2>1. th[t].queue \in Queues
    BY <1>2 DEF Threads
  <2>2. count' \in [Queues -> Int]
    BY <1>2, <1>11, <2>1 DEF Count
  <2> QED
    BY <1>2, <1>11, <2>2 DEF Count
<1>12. CASE Reserve(t)
  BY <1>2, <1>3, <1>12 DEF Reserve, Statuses
<1>13. CASE Take(t)
  <2>1. th[t].queue \in Queues /\ Filled(th[t].queue) # {}
    BY <1>2, <1>13 DEF Take, Threads
  <2> DEFINE q == th[t].queue
             p == Max(Filled(q))
  <2>2. p \in Priorities /\ items[q][p] \in Seq(Jobs) \ {<<>>}
    BY <2>1, TopFilled
  <2>3. items' = [items EXCEPT ![q][p] = Tail(items[q][p])]
    BY <1>13 DEF Take
  <2> HIDE DEF p, q
  <2>4. Tail(items[q][p]) \in Seq(Jobs)
    BY <2>2
  <2>5. items' \in [Queues -> [Priorities -> Seq(Jobs)]]
    BY <1>2, <2>3, <2>4
  <2> QED
    BY <1>2, <1>13, <2>5 DEF Take
<1>14. CASE Wake(t)
  BY <1>2, <1>3, <1>14 DEF Wake, Statuses
<1>15. CASE Look(t)
  BY <1>2, <1>3, <1>15 DEF Look, Statuses
<1>16. CASE Busy(t)
  BY <1>2, <1>3, <1>16 DEF Busy, Statuses
<1>17. CASE Again(t)
  BY <1>2, <1>3, <1>17 DEF Again, Statuses
<1>18. CASE Rest(t)
  BY <1>2, <1>3, <1>18 DEF Rest, Statuses
<1>19. CASE ReplySuspend(t)
  BY <1>2, <1>3, <1>19 DEF ReplySuspend, Statuses
<1>20. CASE SuspendSelf(t)
  BY <1>2, <1>3, <1>20 DEF SuspendSelf, Statuses
<1>21. CASE Awake(t)
  BY <1>2, <1>3, <1>21 DEF Awake, Statuses
<1>22. CASE Exit(t)
  <2>1. call' \in [Workers -> {"none", "suspend", "exit"}]
    BY <1>2, <1>22 DEF Exit
  <2> QED
    BY <1>2, <1>22, <2>1 DEF Exit
<1>23. CASE CallWorkers(t)
  BY <1>2, <1>3, <1>23 DEF CallWorkers, Statuses
<1>24. CASE Suspended(t)
  BY <1>2, <1>3, <1>24 DEF Suspended, Statuses
<1>25. CASE ResumeExecution(t)
  BY <1>2, <1>3, <1>25 DEF ResumeExecution, Statuses
<1>26. CASE Added(t)
  <2>1. Job(t) \in Jobs
    BY <1>2, <1>26 DEF Added, At, ThreadOK, JobPlaces, Job
  <2>2. refs' \in [Jobs -> Int] /\ handle' \subseteq Jobs
    BY <1>2, <1>26, <2>1 DEF Added
  <2> QED
    BY <1>2, <1>26, <2>2 DEF Added
<1>27. CASE Yield(t)
  BY <1>2, <1>3, <1>27 DEF Yield, Statuses
<1>28. CASE EndWait(t)
  BY <1>2, <1>3, <1>28 DEF EndWait, Statuses
<1>29. CASE Scan(t)
  BY <1>2, <1>3, <1>29 DEF Scan, Statuses
<1>30. CASE Filter(t)
  BY <1>2, <1>3, <1>30 DEF Filter, Statuses
<1>31. CASE PutBack(t)
  BY <1>2, <1>3, <1>31 DEF PutBack, Statuses
<1>32. CASE Scanned(t)
  BY <1>2, <1>3, <1>32 DEF Scanned, Statuses
<1>33. CASE NextQueue(t)
  BY <1>2, <1>3, <1>33 DEF NextQueue, Statuses
<1>34. CASE CallExit(t)
  BY <1>2, <1>3, <1>34 DEF CallExit, Statuses
<1>35. CASE Join(t)
  BY <1>2, <1>3, <1>35 DEF Join, Statuses
<1>36. ASSUME NEW j \in Jobs, AddExecuted(t, j)
      PROVE  DataTypes'
  BY <1>2, <1>3, <1>36 DEF AddExecuted, AddJob, Statuses
<1>37. ASSUME NEW j \in Jobs, AddQueued(t, j)
      PROVE  DataTypes'
  <2>1. TopPriority \in Priorities
    BY PoolAssumption DEF Priorities
  <2>2. status' \in [Jobs -> Statuses] /\ refs' \in [Jobs -> Int]
    BY <1>2, <1>37 DEF AddQueued, AddJob, Statuses
  <2>3. priority' \in [Jobs -> Priorities]
    BY <1>2, <1>37, <2>1 DEF AddQueued
  <2> QED
    BY <1>2, <1>37, <2>2, <2>3 DEF AddQueued, AddJob
<1>38. ASSUME NEW j \in Jobs, AddSerial(t, j)
      PROVE  DataTypes'
  BY <1>2, <1>3, <1>38 DEF AddSerial, AddJob, Statuses
<1>39. ASSUME NEW j \in Jobs, ByHand(t, j)
      PROVE  DataTypes'
  BY <1>2, <1>3, <1>39 DEF ByHand, Statuses
<1>40. ASSUME NEW j \in Jobs, ChangePriority(t, j)
      PROVE  DataTypes'
  <2>1. TopPriority \in Priorities
    BY PoolAssumption DEF Priorities
  <2>2. priority' \in [Jobs -> Priorities]
    BY <1>2, <1>40, <2>1 DEF ChangePriority
  <2> QED
    BY <1>2, <1>40, <2>2 DEF ChangePriority
<1>41. ASSUME NEW j \in Jobs, WaitForFinish(t, j)
      PROVE  DataTypes'
  BY <1>2, <1>3, <1>41 DEF WaitForFinish, Statuses
<1>42. ASSUME NEW j \in Jobs, ReleaseHandle(t, j)
      PROVE  DataTypes'
  BY <1>2, <1>3, <1>42 DEF ReleaseHandle, Statuses
<1>43. CASE SuspendExecution(t)
  BY <1>2, <1>3, <1>43, PoolAssumption DEF SuspendExecution, BeginSuspended
<1>44. CASE ExecuteToPriority(t)
  BY <1>2, <1>3, <1>44, PoolAssumption DEF ExecuteToPriority, BeginSuspended
<1>45. CASE AbortAll(t)
  BY <1>2, <1>3, <1>45, PoolAssumption DEF AbortAll, BeginSuspended
<1>46. CASE Shutdown(t)
  BY <1>2, <1>3, <1>46, PoolAssumption DEF Shutdown, BeginSuspended
<1>47. CASE BeginResume(t)
  BY <1>2, <1>3, <1>47, PoolAssumption DEF BeginResume
<1> QED
  BY <1>1, <1>4, <1>5, <1>6, <1>7, <1>8, <1>9, <1>10, <1>11, <1>12, <1>13, <1>14, <1>15, <1>16, <1>17, <1>18, <1>19, <1>20, <1>21, <1>22, <1>23, <1>24, <1>25, <1>26, <1>27, <1>28, <1>29, <1>30, <1>31, <1>32, <1>33, <1>34, <1>35, <1>36, <1>37, <1>38, <1>39, <1>40, <1>41, <1>42, <1>43, <1>44, <1>45, <1>46, <1>47
  DEF Step, WorkerStep, ClientStep, ClientCall

\* A step moves one thread.
LEMMA OneMoves ==
  ASSUME PoolTypes, NEW t \in Actors, Step(t), NEW u \in Actors, u # t
  PROVE  th'[u] = th[u]
PROOF
<1>1. th \in [Actors -> Threads]
  BY DEF PoolTypes, ThreadTypes
<1> USE DEF Goto
<1>2. CASE Service(t) \/ Execute(t) \/ Done(t) \/ Cleanup(t) \/ Abort(t) \/ Release(t)
           \/ PushJob(t) \/ Count(t)
  BY <1>1, <1>2 DEF Service, Enter, Execute, Done, Cleanup, Abort, Release, PushJob, Count
<1>3. CASE Reserve(t) \/ Take(t) \/ Wake(t) \/ Look(t) \/ Busy(t) \/ Again(t) \/ Rest(t)
           \/ ReplySuspend(t)
  BY <1>1, <1>3 DEF Reserve, Take, Wake, Look, Busy, Again, Rest, ReplySuspend
<1>4. CASE SuspendSelf(t) \/ Awake(t) \/ Exit(t) \/ CallWorkers(t) \/ Suspended(t)
           \/ ResumeExecution(t) \/ Added(t) \/ Yield(t)
  BY <1>1, <1>4 DEF SuspendSelf, Awake, Exit, CallWorkers, Suspended, ResumeExecution, Added,
    Yield
<1>5. CASE EndWait(t) \/ Scan(t) \/ Filter(t) \/ PutBack(t) \/ Scanned(t) \/ NextQueue(t)
           \/ CallExit(t) \/ Join(t)
  BY <1>1, <1>5 DEF EndWait, Scan, Filter, PutBack, Scanned, NextQueue, CallExit, Join
<1>6. CASE SuspendExecution(t) \/ ExecuteToPriority(t) \/ AbortAll(t) \/ Shutdown(t)
           \/ BeginResume(t)
  BY <1>1, <1>6 DEF SuspendExecution, BeginSuspended, Begin, ExecuteToPriority, AbortAll,
    Shutdown, BeginResume
<1>7. ASSUME NEW j \in Jobs,
             AddExecuted(t, j) \/ AddQueued(t, j) \/ AddSerial(t, j) \/ ByHand(t, j)
             \/ ChangePriority(t, j) \/ WaitForFinish(t, j) \/ ReleaseHandle(t, j)
      PROVE  th'[u] = th[u]
  BY <1>1, <1>7 DEF AddExecuted, AddJob, Begin, AddQueued, AddSerial, ByHand, ChangePriority,
    WaitForFinish, ReleaseHandle
<1> QED
  BY <1>2, <1>3, <1>4, <1>5, <1>6, <1>7 DEF Step, WorkerStep, ClientStep, ClientCall

\* What there is to know of a thread that has just been called, or whose call returned.
Fresh(r, op, p, j, f) ==
  r.op = op /\ r.pc = p /\ r.job = j /\ r.for = f /\ r.pos = 0 /\ r.back = <<>>

LEMMA Called ==
  ASSUME PoolTypes, NEW t \in Clients, NEW j \in Jobs
  PROVE  /\ AddExecuted(t, j) => Fresh(th'[t], "add", "execute", j, NoJob)
         /\ AddQueued(t, j) => Fresh(th'[t], "add", "push", j, NoJob)
         /\ AddSerial(t, j) => Fresh(th'[t], "add", "push", j, NoJob)
         /\ ByHand(t, j) => \/ Fresh(th'[t], "execute", "execute", j, NoJob)
                            \/ Fresh(th'[t], "abort", "abort", j, NoJob)
         /\ ChangePriority(t, j) => Fresh(th'[t], "raise", "push", j, NoJob)
         /\ WaitForFinish(t, j) => Fresh(th'[t], "wait", "yield", NoJob, j)
PROOF
<1>1. t \in Actors /\ th \in [Actors -> Threads]
  BY DEF Actors, PoolTypes, ThreadTypes
<1>2. ASSUME NEW op \in Ops, NEW p \in JobPlaces \cup OtherPlaces, NEW q
      PROVE  /\ Fresh([Thread(op, p) EXCEPT !.job = j, !.queue = q], op, p, j, NoJob)
             /\ Fresh([Thread(op, p) EXCEPT !.job = j], op, p, j, NoJob)
             /\ Fresh([Thread(op, p) EXCEPT !.for = j], op, p, NoJob, j)
  BY NewThread DEF Fresh, Threads
<1>3. /\ "add" \in Ops /\ "execute" \in Ops /\ "abort" \in Ops /\ "raise" \in Ops
      /\ "wait" \in Ops
      /\ "push" \in JobPlaces \cup OtherPlaces /\ "execute" \in JobPlaces \cup OtherPlaces
      /\ "abort" \in JobPlaces \cup OtherPlaces /\ "yield" \in JobPlaces \cup OtherPlaces
  BY DEF Ops, JobPlaces, OtherPlaces
<1>4. ASSUME NEW s, NEW q, NEW p \in {"execute", "push"}, AddJob(t, j, s, p, q)
      PROVE  Fresh(th'[t], "add", p, j, NoJob)
  <2>1. th'[t] = [Thread("add", p) EXCEPT !.job = j, !.queue = q]
    BY <1>1, <1>4 DEF AddJob, Begin
  <2>2. Fresh([Thread("add", p) EXCEPT !.job = j, !.queue = q], "add", p, j, NoJob)
    BY <1>2, <1>3
  <2> QED
    BY <2>1, <2>2
<1>5. /\ AddExecuted(t, j) => Fresh(th'[t], "add", "execute", j, NoJob)
      /\ AddQueued(t, j) \/ AddSerial(t, j) => Fresh(th'[t], "add", "push", j, NoJob)
  BY <1>4 DEF AddExecuted, AddQueued, AddSerial
<1>6. ByHand(t, j) => \/ Fresh(th'[t], "execute", "execute", j, NoJob)
                      \/ Fresh(th'[t], "abort", "abort", j, NoJob)
  BY <1>1, <1>2, <1>3 DEF ByHand, Begin, With
<1>7. ChangePriority(t, j) => Fresh(th'[t], "raise", "push", j, NoJob)
  BY <1>1, <1>2, <1>3 DEF ChangePriority, Begin, With
<1>8. WaitForFinish(t, j) => Fresh(th'[t], "wait", "yield", NoJob, j)
  BY <1>1, <1>2, <1>3 DEF WaitForFinish, Begin
<1> QED
  BY <1>5, <1>6, <1>7, <1>8

LEMMA CalledSuspended ==
  ASSUME PoolTypes, NEW t \in Clients
  PROVE  /\ SuspendExecution(t) => Fresh(th'[t], "suspend", "suspend", NoJob, NoJob)
         /\ ExecuteToPriority(t) => Fresh(th'[t], "finish", "suspend", NoJob, NoJob)
         /\ AbortAll(t) => Fresh(th'[t], "abortAll", "suspend", NoJob, NoJob)
         /\ Shutdown(t) => Fresh(th'[t], "shutdown", "suspend", NoJob, NoJob)
         /\ BeginResume(t) => Fresh(th'[t], "suspend", "resume", NoJob, NoJob)
PROOF
<1>1. t \in Actors /\ th \in [Actors -> Threads]
  BY DEF Actors, PoolTypes, ThreadTypes
<1>2. ASSUME NEW op \in Ops, NEW p \in JobPlaces \cup OtherPlaces, NEW l, NEW b \in BOOLEAN
      PROVE  /\ Fresh([Thread(op, p) EXCEPT !.last = l, !.all = b], op, p, NoJob, NoJob)
             /\ Fresh([Thread(op, p) EXCEPT !.last = l], op, p, NoJob, NoJob)
             /\ Fresh(Thread(op, p), op, p, NoJob, NoJob)
  BY NewThread DEF Fresh, Threads
<1>3. /\ "suspend" \in Ops /\ "finish" \in Ops /\ "abortAll" \in Ops /\ "shutdown" \in Ops
      /\ "suspend" \in JobPlaces \cup OtherPlaces /\ "resume" \in JobPlaces \cup OtherPlaces
  BY DEF Ops, JobPlaces, OtherPlaces
<1>4. SuspendExecution(t) => Fresh(th'[t], "suspend", "suspend", NoJob, NoJob)
  BY <1>1, <1>2, <1>3 DEF SuspendExecution, BeginSuspended, Begin
<1>5. ASSUME ExecuteToPriority(t)
      PROVE  Fresh(th'[t], "finish", "suspend", NoJob, NoJob)
  <2>1. PICK b \in BOOLEAN :
          th'[t] = [Thread("finish", "suspend") EXCEPT !.last = LastPosition, !.all = b]
    BY <1>1, <1>5 DEF ExecuteToPriority, BeginSuspended, Begin
  <2>2. Fresh([Thread("finish", "suspend") EXCEPT !.last = LastPosition, !.all = b],
              "finish", "suspend", NoJob, NoJob)
    BY <1>2, <1>3
  <2> QED
    BY <2>1, <2>2
<1>6. ASSUME NEW op \in {"abortAll", "shutdown"},
             BeginSuspended(t, [Thread(op, "suspend") EXCEPT !.last = NumWorkers])
      PROVE  Fresh(th'[t], op, "suspend", NoJob, NoJob)
  <2>1. th'[t] = [Thread(op, "suspend") EXCEPT !.last = NumWorkers]
    BY <1>1, <1>6 DEF BeginSuspended, Begin
  <2>2. Fresh([Thread(op, "suspend") EXCEPT !.last = NumWorkers], op, "suspend", NoJob, NoJob)
    BY <1>2, <1>3
  <2> QED
    BY <2>1, <2>2
<1>7. /\ AbortAll(t) => Fresh(th'[t], "abortAll", "suspend", NoJob, NoJob)
      /\ Shutdown(t) => Fresh(th'[t], "shutdown", "suspend", NoJob, NoJob)
  BY <1>6 DEF AbortAll, Shutdown
<1>8. BeginResume(t) => Fresh(th'[t], "suspend", "resume", NoJob, NoJob)
  BY <1>1, <1>2, <1>3 DEF BeginResume, Begin
<1> QED
  BY <1>4, <1>5, <1>7, <1>8

----------------------------------------------------------------------------
(* A job is serviced once.                                                 *)

\* A step of a thread that has no job locked, before or after, and that neither locks
\* a job nor changes what ServicedOnce tells apart.
LEMMA NotInJob ==
  ASSUME PoolTypes, Locks, ServicedOnce, NEW t \in Actors, Step(t), DataTypes',
         th[t].pc \notin InJob, th'[t].pc \notin InJob, lock' = lock, runs' = runs,
         \A j \in Jobs : \/ status'[j] = status[j]
                         \/ status[j] \notin {"inprogress", "ok"} /\ status'[j] \notin {"inprogress", "ok"}
  PROVE  Locks' /\ ServicedOnce'
PROOF
<1>1. \A u \in Actors : u # t => th'[u] = th[u]
  BY OneMoves
<1>2. ServicedOnce'
  BY DEF ServicedOnce
<1>3. ASSUME NEW u \in Actors, th'[u].pc \in InJob
      PROVE  /\ lock'[Job(u)'] = u
             /\ status'[Job(u)'] = IF At(u, "doExecute")' THEN "inprogress" ELSE "ok"
  <2>1. u # t /\ th'[u] = th[u] /\ ThreadOK(u, th[u])
    BY <1>1, <1>3 DEF PoolTypes, ThreadTypes
  <2>2. /\ lock[Job(u)] = u
        /\ status[Job(u)] = IF At(u, "doExecute") THEN "inprogress" ELSE "ok"
    BY <1>3, <2>1 DEF Locks
  <2>3. Job(u) \in Jobs
    BY <1>3, <2>1 DEF ThreadOK, JobPlaces, InJob, Job
  <2> QED
    BY <2>1, <2>2, <2>3 DEF Job, At
<1>4. ASSUME NEW j \in Jobs, lock'[j] # NoThread
      PROVE  Job(lock[j])' = j /\ th'[lock'[j]].pc \in InJob
  <2>1. lock[j] \in Actors /\ lock[j] # t /\ Job(lock[j]) = j /\ th[lock[j]].pc \in InJob
    BY <1>4 DEF Locks, PoolTypes, DataTypes
  <2> QED
    BY <1>1, <2>1 DEF Job
<1>5. \A j \in Jobs : status'[j] = "inprogress" => lock'[j] # NoThread
  BY DEF Locks
<1> QED
  BY <1>2, <1>3, <1>4, <1>5 DEF Locks

\* A thread locks a job that nobody has locked and that is not finished.
LEMMA Enters ==
  ASSUME PoolTypes, Locks, ServicedOnce, NEW t \in Actors, Step(t), Job(t) \in Jobs,
         th[t].pc \notin InJob, ~ Finished(Job(t)), lock[Job(t)] = NoThread, Enter(t, Job(t))
  PROVE  Locks' /\ ServicedOnce'
PROOF
<1> DEFINE j == Job(t)
<1>1. \A u \in Actors : u # t => th'[u] = th[u]
  BY OneMoves
<1>2. th'[t].pc = "doExecute" /\ th'[t].job = j
  BY DEF Enter, Goto, PoolTypes, ThreadTypes, Threads, Job
<1>3. /\ lock' = [lock EXCEPT ![j] = t] /\ status' = [status EXCEPT ![j] = "inprogress"]
      /\ runs' = [runs EXCEPT ![j] = runs[j] + 1]
  BY DEF Enter
<1>4. j \in Jobs /\ status[j] \notin {"inprogress", "ok", "aborted"} /\ runs[j] = 0
  BY DEF Locks, ServicedOnce, Finished
<1>5. t # NoThread
  BY PoolAssumption DEF Actors, Workers, Clients
<1>6. /\ lock \in [Jobs -> Actors \cup {NoThread}] /\ runs \in [Jobs -> Nat]
      /\ status \in [Jobs -> Statuses]
  BY DEF PoolTypes, DataTypes
<1> HIDE DEF j
<1>7. ServicedOnce'
  BY <1>3, <1>4, <1>6 DEF ServicedOnce
<1>8. ASSUME NEW u \in Actors, th'[u].pc \in InJob
      PROVE  /\ lock'[Job(u)'] = u
             /\ status'[Job(u)'] = IF At(u, "doExecute")' THEN "inprogress" ELSE "ok"
  <2>1. CASE u = t
    BY <1>2, <1>3, <1>4, <1>6, <2>1 DEF Job, At
  <2>2. CASE u # t
    <3>1. th'[u] = th[u] /\ ThreadOK(u, th[u])
      BY <1>1, <2>2 DEF PoolTypes, ThreadTypes
    <3>2. /\ lock[Job(u)] = u
          /\ status[Job(u)] = IF At(u, "doExecute") THEN "inprogress" ELSE "ok"
      BY <1>8, <3>1 DEF Locks
    <3>3. Job(u) \in Jobs
      BY <1>8, <3>1 DEF ThreadOK, JobPlaces, InJob, Job
    <3>4. Job(u) # j
      BY <3>2, <1>5, PoolAssumption DEF j, Actors, Workers, Clients
    <3> QED
      BY <1>3, <1>6, <3>1, <3>2, <3>3, <3>4 DEF Job, At
  <2> QED
    BY <2>1, <2>2
<1>9. ASSUME NEW k \in Jobs, lock'[k] # NoThread
      PROVE  Job(lock[k])' = k /\ th'[lock'[k]].pc \in InJob
  <2>1. CASE k = j
    BY <1>2, <1>3, <1>4, <1>6, <2>1 DEF Job, InJob
  <2>2. CASE k # j
    <3>1. lock'[k] = lock[k] /\ lock[k] \in Actors /\ Job(lock[k]) = k /\ th[lock[k]].pc \in InJob
      BY <1>3, <1>6, <1>9, <2>2 DEF Locks
    <3> QED
      BY <1>1, <3>1 DEF Job
  <2> QED
    BY <2>1, <2>2
<1>10. \A k \in Jobs : status'[k] = "inprogress" => lock'[k] # NoThread
  BY <1>3, <1>4, <1>5, <1>6 DEF Locks
<1> QED
  BY <1>7, <1>8, <1>9, <1>10 DEF Locks

LEMMA LocksNext ==
  ASSUME PoolTypes, Locks, ServicedOnce, PoolNext
  PROVE  Locks' /\ ServicedOnce'
PROOF
<1>1. PICK t \in Actors : Step(t)
  BY StepOfOne
<1>2. /\ ThreadOK(t, th[t]) /\ th \in [Actors -> Threads] /\ th[t] \in Threads
      /\ lock \in [Jobs -> Actors \cup {NoThread}] /\ status \in [Jobs -> Statuses]
  BY DEF PoolTypes, ThreadTypes, DataTypes
<1>3. DataTypes'
  BY DataNext
<1>4. t # NoThread
  BY PoolAssumption DEF Actors, Workers, Clients
<1> USE DEF jobVars, At, InJob
<1>5. CASE Service(t)
  <2>1. Job(t) \in Jobs
    BY <1>2, <1>5 DEF Service, ThreadOK, JobPlaces, Job
  <2>2. CASE Enter(t, Job(t)) /\ ~ Finished(Job(t)) /\ lock[Job(t)] = NoThread
    BY <1>1, <1>5, <2>1, <2>2, Enters DEF Service
  <2>3. CASE UNCHANGED jobVars
    <3>1. th'[t].pc \notin InJob
      BY <1>2, <1>5, <1>4, <2>1, <2>3 DEF Service, Goto, Enter, AfterJob, Thread, Threads
    <3> QED
      BY <1>1, <1>3, <1>5, <2>3, <3>1, NotInJob DEF Service
  <2> QED
    BY <1>5, <2>2, <2>3 DEF Service
<1>6. CASE Execute(t)
  <2>1. Job(t) \in Jobs
    BY <1>2, <1>6 DEF Execute, ThreadOK, JobPlaces, Job
  <2>2. CASE Enter(t, Job(t)) /\ ~ Finished(Job(t)) /\ lock[Job(t)] = NoThread
    BY <1>1, <1>6, <2>1, <2>2, Enters DEF Execute
  <2>3. CASE UNCHANGED jobVars
    <3>1. th'[t].pc \notin InJob
      BY <1>2, <1>6, <1>4, <2>1, <2>3 DEF Execute, Goto, Enter, AfterJob, Thread, Threads
    <3> QED
      BY <1>1, <1>3, <1>6, <2>3, <3>1, NotInJob DEF Execute
  <2> QED
    BY <1>6, <2>2, <2>3 DEF Execute
<1>7. CASE Done(t)
  <2> DEFINE j == Job(t)
  <2>1. j \in Jobs /\ lock[j] = t /\ status[j] = "inprogress"
    BY <1>2, <1>7 DEF Done, ThreadOK, JobPlaces, Job, Locks
  <2>2. /\ status' = [status EXCEPT ![j] = "ok"] /\ lock' = lock /\ runs' = runs
        /\ th' = [th EXCEPT ![t] = [th[t] EXCEPT !.pc = "cleanup"]]
    BY <1>7 DEF Done, Goto
  <2> HIDE DEF j
  <2>3. ServicedOnce'
    BY <1>2, <2>1, <2>2 DEF ServicedOnce
  <2>4. th'[t].pc = "cleanup" /\ th'[t].job = j /\ \A u \in Actors : u # t => th'[u] = th[u]
    BY <1>2, <2>2 DEF j, Job, Threads
  <2>5. \A u \in Actors : th[u].pc \in InJob => Job(u) \in Jobs /\ (Job(u) = j => u = t)
    BY <2>1 DEF PoolTypes, ThreadTypes, ThreadOK, JobPlaces, Job, Locks
  <2>6. ASSUME NEW u \in Actors, th'[u].pc \in InJob
        PROVE  /\ lock'[Job(u)'] = u
               /\ status'[Job(u)'] = IF At(u, "doExecute")' THEN "inprogress" ELSE "ok"
    BY <1>2, <2>1, <2>2, <2>4, <2>5, <2>6 DEF Locks, Job
  <2>7. \A k \in Jobs : lock'[k] # NoThread => Job(lock[k])' = k /\ th'[lock'[k]].pc \in InJob
    BY <1>2, <2>1, <2>2, <2>4 DEF Locks, Job
  <2>8. \A k \in Jobs : status'[k] = "inprogress" => lock'[k] # NoThread
    BY <1>2, <1>4, <2>1, <2>2 DEF Locks
  <2> QED
    BY <2>3, <2>6, <2>7, <2>8 DEF Locks
<1>8. CASE Cleanup(t)
  <2> DEFINE j == Job(t)
  <2>1. j \in Jobs /\ lock[j] = t /\ status[j] = "ok"
    BY <1>2, <1>8 DEF Cleanup, ThreadOK, JobPlaces, Job, Locks
  <2>2. lock' = [lock EXCEPT ![j] = NoThread] /\ status' = status /\ runs' = runs
    BY <1>8 DEF Cleanup
  <2>3. th'[t].pc \notin InJob /\ \A u \in Actors : u # t => th'[u] = th[u]
    BY <1>1, <1>2, <1>8, OneMoves DEF Cleanup, Goto, AfterJob, Thread, Threads
  <2> HIDE DEF j
  <2>4. \A u \in Actors : th[u].pc \in InJob => Job(u) \in Jobs /\ (Job(u) = j => u = t)
    BY <2>1 DEF PoolTypes, ThreadTypes, ThreadOK, JobPlaces, Job, Locks
  <2>5. ASSUME NEW u \in Actors, th'[u].pc \in InJob
        PROVE  /\ lock'[Job(u)'] = u
               /\ status'[Job(u)'] = IF At(u, "doExecute")' THEN "inprogress" ELSE "ok"
    BY <1>2, <2>1, <2>2, <2>3, <2>4, <2>5 DEF Locks, Job
  <2>6. \A k \in Jobs : lock'[k] # NoThread => lock[k] # t
    BY <1>2, <2>1, <2>2 DEF Locks, j
  <2>7. \A k \in Jobs : lock'[k] # NoThread => Job(lock[k])' = k /\ th'[lock'[k]].pc \in InJob
    BY <1>2, <2>1, <2>2, <2>3, <2>6 DEF Locks, Job
  <2>8. \A k \in Jobs : status'[k] = "inprogress" => lock'[k] # NoThread
    BY <1>2, <2>1, <2>2 DEF Locks
  <2>9. ServicedOnce'
    BY <2>2 DEF ServicedOnce
  <2> QED
    BY <2>5, <2>7, <2>8, <2>9 DEF Locks
<1>9. CASE Abort(t)
  <2>1. th'[t].pc \notin InJob
    BY <1>2, <1>9 DEF Abort, Goto, AfterJob, Thread, Threads
  <2>2. \A j \in Jobs : \/ status'[j] = status[j]
                      \/ /\ status[j] \notin {"inprogress", "ok"}
                         /\ status'[j] \notin {"inprogress", "ok"}
    BY <1>2, <1>9 DEF Abort, AbortedStatus, CanExecute
  <2> QED
    BY <1>1, <1>3, <1>9, <2>1, <2>2, NotInJob DEF Abort
<1>10. ASSUME NEW j \in Jobs, AddExecuted(t, j) \/ AddQueued(t, j) \/ AddSerial(t, j)
      PROVE  Locks' /\ ServicedOnce'
  <2>1. /\ At(t, "idle") /\ th'[t].pc \in {"execute", "push"} /\ lock' = lock /\ runs' = runs
        /\ status[j] = "none"
        /\ \/ status' = [status EXCEPT ![j] = "unserviced"]
           \/ status' = [status EXCEPT ![j] = "pending"]
    BY <1>10, Called DEF AddExecuted, AddQueued, AddSerial, AddJob, Begin, Fresh, Clients
  <2>2. \A k \in Jobs : \/ status'[k] = status[k]
                      \/ /\ status[k] \notin {"inprogress", "ok"}
                         /\ status'[k] \notin {"inprogress", "ok"}
    BY <1>2, <2>1
  <2> QED
    BY <1>1, <1>3, <2>1, <2>2, NotInJob
<1>11. CASE Release(t)
  <2>1. /\ th[t].pc \notin InJob /\ th'[t].pc \notin InJob
        /\ lock' = lock /\ runs' = runs /\ status' = status
    BY <1>2, <1>11 DEF Release, ThreadOK, Placed, Suspending, Aborting, Executing, Servicing,
      Looking, Finishing, AfterService, Goto, Thread, Threads
  <2> QED
    BY <1>1, <1>3, <2>1, NotInJob
<1>12. CASE PushJob(t) \/ Count(t)
  <2>1. /\ th[t].pc \notin InJob /\ th'[t].pc \notin InJob
        /\ lock' = lock /\ runs' = runs /\ status' = status
    BY <1>2, <1>12 DEF PushJob, Count, ThreadOK, Placed, Suspending, Aborting, Executing,
      Servicing, Looking, Finishing, AfterPush, Goto, Thread, Threads
  <2> QED
    BY <1>1, <1>3, <2>1, NotInJob
<1>13. CASE Reserve(t)
  <2>1. /\ th[t].pc \notin InJob /\ th'[t].pc \notin InJob
        /\ lock' = lock /\ runs' = runs /\ status' = status
    BY <1>2, <1>13 DEF Reserve, ThreadOK, Placed, Suspending, Aborting, Executing, Servicing,
      Looking, Finishing, Nothing, Goto, Thread, Threads
  <2> QED
    BY <1>1, <1>3, <2>1, NotInJob
<1>14. CASE Take(t)
  <2>1. /\ th[t].pc \notin InJob /\ th'[t].pc \notin InJob
        /\ lock' = lock /\ runs' = runs /\ status' = status
    BY <1>2, <1>14 DEF Take, ThreadOK, Placed, Suspending, Aborting, Executing, Servicing,
      Looking, Finishing, AfterPop, Goto, Thread, Threads
  <2> QED
    BY <1>1, <1>3, <2>1, NotInJob
<1>15. CASE Wake(t) \/ Look(t) \/ Busy(t) \/ Again(t) \/ Rest(t) \/ ReplySuspend(t)
           \/ SuspendSelf(t) \/ Awake(t) \/ Exit(t)
  <2>1. /\ th[t].pc \notin InJob /\ th'[t].pc \notin InJob
        /\ lock' = lock /\ runs' = runs /\ status' = status
    BY <1>2, <1>15 DEF Wake, Look, Busy, Again, Rest, ReplySuspend, SuspendSelf, Awake, Exit,
      Goto, Thread, Threads
  <2> QED
    BY <1>1, <1>3, <2>1, NotInJob
<1>16. CASE CallWorkers(t) \/ Suspended(t) \/ ResumeExecution(t)
  <2>1. /\ th[t].pc \notin InJob /\ th'[t].pc \notin InJob
        /\ lock' = lock /\ runs' = runs /\ status' = status
    BY <1>2, <1>16 DEF CallWorkers, Suspended, ResumeExecution, ThreadOK, Placed, Suspending,
      Aborting, Executing, Servicing, Looking, Finishing, AfterSuspend, Goto, Thread, Threads
  <2> QED
    BY <1>1, <1>3, <2>1, NotInJob
<1>17. CASE Added(t) \/ Yield(t) \/ EndWait(t)
  <2>1. /\ th[t].pc \notin InJob /\ th'[t].pc \notin InJob
        /\ lock' = lock /\ runs' = runs /\ status' = status
    BY <1>2, <1>17 DEF Added, Yield, EndWait, Goto, Thread, Threads
  <2> QED
    BY <1>1, <1>3, <2>1, NotInJob
<1>18. CASE Scan(t) \/ Filter(t)
  <2>1. /\ th[t].pc \notin InJob /\ th'[t].pc \notin InJob
        /\ lock' = lock /\ runs' = runs /\ status' = status
    BY <1>2, <1>18 DEF Scan, Filter, Goto, Thread, Threads
  <2> QED
    BY <1>1, <1>3, <2>1, NotInJob
<1>19. CASE PutBack(t)
  <2>1. /\ th[t].pc \notin InJob /\ th'[t].pc \notin InJob
        /\ lock' = lock /\ runs' = runs /\ status' = status
    BY <1>2, <1>19 DEF PutBack, Goto, Thread, Threads
  <2> QED
    BY <1>1, <1>3, <2>1, NotInJob
<1>20. CASE Scanned(t) \/ NextQueue(t) \/ CallExit(t) \/ Join(t)
  <2>1. /\ th[t].pc \notin InJob /\ th'[t].pc \notin InJob
        /\ lock' = lock /\ runs' = runs /\ status' = status
    BY <1>2, <1>20 DEF Scanned, NextQueue, CallExit, Join, Goto, Thread, Threads
  <2> QED
    BY <1>1, <1>3, <2>1, NotInJob
<1>21. CASE SuspendExecution(t) \/ ExecuteToPriority(t) \/ AbortAll(t) \/ Shutdown(t)
           \/ BeginResume(t)
  <2>1. t \in Clients /\ th[t].pc = "idle"
    BY <1>21 DEF SuspendExecution, BeginSuspended, Begin, ExecuteToPriority, AbortAll, Shutdown,
      BeginResume, Clients
  <2>2. /\ th[t].pc \notin InJob /\ th'[t].pc \notin InJob
        /\ lock' = lock /\ runs' = runs /\ status' = status
    BY <1>21, <2>1, CalledSuspended DEF SuspendExecution, BeginSuspended, ExecuteToPriority,
      AbortAll, Shutdown, BeginResume, Fresh
  <2> QED
    BY <1>1, <1>3, <2>2, NotInJob
<1>22. ASSUME NEW j \in Jobs,
             ByHand(t, j) \/ ChangePriority(t, j) \/ WaitForFinish(t, j)
             \/ ReleaseHandle(t, j)
      PROVE  Locks' /\ ServicedOnce'
  <2>1. t \in Clients /\ th[t].pc = "idle"
    BY <1>22 DEF ByHand, Begin, ChangePriority, WaitForFinish, ReleaseHandle, Clients
  <2>2. /\ th[t].pc \notin InJob /\ th'[t].pc \notin InJob
        /\ lock' = lock /\ runs' = runs /\ status' = status
    BY <1>22, <2>1, Called DEF ByHand, ChangePriority, WaitForFinish, ReleaseHandle, Fresh
  <2> QED
    BY <1>1, <1>3, <2>2, NotInJob
<1> QED
  BY <1>1, <1>5, <1>6, <1>7, <1>8, <1>9, <1>10, <1>11, <1>12, <1>13, <1>14, <1>15, <1>16, <1>17,
    <1>18, <1>19, <1>20, <1>21, <1>22
  DEF Step, WorkerStep, ClientStep, ClientCall

----------------------------------------------------------------------------
(* The pool is suspended.                                                  *)

LEMMA SuspensionNext ==
  ASSUME PoolTypes, Suspension, PoolNext
  PROVE  Suspension'
PROOF
<1>1. PICK t \in Actors : Step(t)
  BY StepOfOne
<1>2. /\ \A u \in Actors : u # t => th'[u] = th[u]
      /\ Workers \subseteq Actors /\ Clients \cap Workers = {}
  BY <1>1, OneMoves, PoolAssumption DEF Actors, Clients, Workers
<1>3. /\ nSuspend \in Int /\ running \in [Workers -> BOOLEAN] /\ stopped \in BOOLEAN
      /\ th \in [Actors -> Threads] /\ th[t] \in Threads
  BY DEF PoolTypes, DataTypes, ThreadTypes
<1> USE DEF At
<1>4. ASSUME running' = running, nSuspend' = nSuspend, stopped => stopped',
             t \notin Workers \/ th[t].pc # "suspended"
      PROVE  Suspension'
  BY <1>2, <1>4 DEF Suspension
<1>5. CASE SuspendSelf(t)
  <2>1. running' = [running EXCEPT ![t] = FALSE] /\ nSuspend' = nSuspend /\ stopped' = stopped
    BY <1>5 DEF SuspendSelf, suspendVars
  <2>2. th'[t].pc = "suspended"
    BY <1>3, <1>5 DEF SuspendSelf, Goto, Threads
  <2> QED
    BY <1>2, <1>3, <2>1, <2>2 DEF Suspension
<1>6. CASE Awake(t)
  <2>1. running' = running /\ nSuspend' = nSuspend /\ stopped' = stopped /\ running[t]
    BY <1>6 DEF Awake, workerVars, suspendVars
  <2> QED
    BY <1>2, <2>1 DEF Suspension
<1>7. CASE t \in Clients /\ Suspended(t)
  <2>1. /\ running' = running /\ stopped' = stopped /\ nSuspend' = nSuspend + 1
        /\ nSuspend > 0 \/ stopped \/ \A w \in Workers : ~ running[w]
    BY <1>7 DEF Suspended, AllSuspended, workerVars
  <2> QED
    BY <1>2, <1>3, <1>7, <2>1 DEF Suspension
<1>8. CASE t \in Clients /\ ResumeExecution(t)
  <2>1. /\ stopped' = stopped /\ nSuspend' = nSuspend - 1
        /\ running' = IF nSuspend = 1 THEN [w \in Workers |-> TRUE] ELSE running
    BY <1>8 DEF ResumeExecution
  <2> QED
    BY <1>2, <1>3, <1>8, <2>1 DEF Suspension
<1>9. CASE Join(t)
  <2>1. running' = running /\ nSuspend' = nSuspend /\ stopped' /\ th[t].pc # "suspended"
    BY <1>9 DEF Join, suspendVars
  <2> QED
    BY <1>4, <2>1
<1>10. CASE Service(t) \/ Execute(t) \/ Done(t) \/ Cleanup(t) \/ Abort(t) \/ Release(t)
           \/ PushJob(t) \/ Count(t)
  <2>1. /\ running' = running /\ nSuspend' = nSuspend /\ stopped' = stopped
        /\ th[t].pc # "suspended"
    BY <1>10 DEF Service, Enter, Execute, Done, Cleanup, Abort, Release, PushJob, Count,
      workerVars, suspendVars
  <2> QED
    BY <1>4, <2>1
<1>11. CASE Reserve(t) \/ Take(t) \/ Wake(t) \/ Look(t) \/ Busy(t) \/ Again(t) \/ Rest(t)
           \/ ReplySuspend(t)
  <2>1. /\ running' = running /\ nSuspend' = nSuspend /\ stopped' = stopped
        /\ th[t].pc # "suspended"
    BY <1>11 DEF Reserve, Take, Wake, Look, Busy, Again, Rest, ReplySuspend, workerVars,
      suspendVars
  <2> QED
    BY <1>4, <2>1
<1>12. CASE Exit(t) \/ CallWorkers(t) \/ Added(t) \/ Yield(t) \/ EndWait(t) \/ Scan(t)
           \/ Filter(t) \/ PutBack(t)
  <2>1. /\ running' = running /\ nSuspend' = nSuspend /\ stopped' = stopped
        /\ th[t].pc # "suspended"
    BY <1>12 DEF Exit, CallWorkers, Added, Yield, EndWait, Scan, Filter, PutBack, workerVars,
      suspendVars
  <2> QED
    BY <1>4, <2>1
<1>13. CASE Scanned(t) \/ NextQueue(t) \/ CallExit(t) \/ SuspendExecution(t)
           \/ ExecuteToPriority(t) \/ AbortAll(t) \/ Shutdown(t) \/ BeginResume(t)
  <2>1. /\ running' = running /\ nSuspend' = nSuspend /\ stopped' = stopped
        /\ th[t].pc # "suspended"
    BY <1>13 DEF Scanned, NextQueue, CallExit, SuspendExecution, BeginSuspended, Begin,
      ExecuteToPriority, AbortAll, Shutdown, BeginResume, workerVars, suspendVars
  <2> QED
    BY <1>4, <2>1
<1>14. ASSUME NEW j \in Jobs,
             AddExecuted(t, j) \/ AddQueued(t, j) \/ AddSerial(t, j) \/ ByHand(t, j)
             \/ ChangePriority(t, j) \/ WaitForFinish(t, j) \/ ReleaseHandle(t, j)
      PROVE  Suspension'
  <2>1. /\ running' = running /\ nSuspend' = nSuspend /\ stopped' = stopped
        /\ th[t].pc # "suspended"
    BY <1>14 DEF AddExecuted, AddJob, Begin, AddQueued, AddSerial, ByHand, ChangePriority,
      WaitForFinish, ReleaseHandle, workerVars, suspendVars
  <2> QED
    BY <1>4, <2>1
<1> QED
  BY <1>1, <1>5, <1>6, <1>7, <1>8, <1>9, <1>10, <1>11, <1>12, <1>13, <1>14
  DEF Step, WorkerStep, ClientStep, ClientCall

----------------------------------------------------------------------------
(* Counting.                                                               *)

\* The places of the elements of sequences, when the first one of sequence k goes.
LEMMA Shift ==
  ASSUME NEW K, NEW S \in SUBSET (K \X Nat), NEW T \in SUBSET (K \X Nat), NEW k \in K,
         IsFiniteSet(S), <<k, 0>> \notin S,
         \A c \in K, n \in Nat : c # k => (<<c, n>> \in T <=> <<c, n>> \in S),
         \A n \in Nat : <<k, n>> \in T <=> n # 0 /\ <<k, n + 1>> \in S
  PROVE  IsFiniteSet(T) /\ Cardinality(T) = Cardinality(S) - Has(S, <<k, 1>>)
PROOF
<1> DEFINE R == S \ {<<k, 1>>}
           f == [x \in R |-> IF x[1] = k THEN <<k, x[2] - 1>> ELSE x]
<1>1. /\ IsFiniteSet(R)
      /\ Cardinality(R) = IF <<k, 1>> \in S THEN Cardinality(S) - 1 ELSE Cardinality(S)
  BY FS_RemoveElement
<1>2. ASSUME NEW x \in R
      PROVE  /\ x = <<x[1], x[2]>> /\ x[1] \in K /\ x[2] \in Nat
             /\ x[1] = k => x[2] - 1 \in Nat /\ x[2] - 1 # 0
             /\ f[x] \in T
  <2>1. x = <<x[1], x[2]>> /\ x[1] \in K /\ x[2] \in Nat /\ x \in S
    OBVIOUS
  <2>2. CASE x[1] = k
    <3>1. x[2] # 0 /\ x[2] # 1
      BY <2>1, <2>2
    <3>2. x[2] - 1 \in Nat /\ x[2] - 1 # 0 /\ (x[2] - 1) + 1 = x[2]
      BY <2>1, <3>1
    <3>3. <<k, x[2] - 1>> \in T
      BY <2>1, <2>2, <3>2
    <3> QED
      BY <2>1, <2>2, <3>2, <3>3
  <2>3. CASE x[1] # k
    BY <2>1, <2>3
  <2> QED
    BY <2>2, <2>3
<1>3. f \in [R -> T]
  BY <1>2
<1>4. ASSUME NEW x \in R, NEW y \in R, f[x] = f[y]
      PROVE  x = y
  <2>1. CASE x[1] = k /\ y[1] = k
    <3>1. f[x] = <<k, x[2] - 1>> /\ f[y] = <<k, y[2] - 1>>
      BY <2>1
    <3>2. x[2] - 1 = y[2] - 1 /\ x[2] \in Nat /\ y[2] \in Nat
      BY <1>2, <1>4, <3>1
    <3> QED
      BY <1>2, <2>1, <3>2
  <2>2. CASE x[1] # k /\ y[1] # k
    BY <1>4, <2>2
  <2>3. CASE (x[1] = k) # (y[1] = k)
    <3>1. f[x][1] = x[1] /\ f[y][1] = y[1]
      OBVIOUS
    <3> QED
      BY <1>4, <2>3, <3>1
  <2> QED
    BY <2>1, <2>2, <2>3
<1>5. ASSUME NEW y \in T
      PROVE  \E x \in R : f[x] = y
  <2>1. y = <<y[1], y[2]>> /\ y[1] \in K /\ y[2] \in Nat
    OBVIOUS
  <2>2. CASE y[1] = k
    <3>1. y[2] # 0 /\ <<k, y[2] + 1>> \in S
      BY <2>1, <2>2
    <3>2. <<k, y[2] + 1>> \in R /\ (y[2] + 1) - 1 = y[2]
      BY <2>1, <3>1
    <3> QED
      BY <2>1, <2>2, <3>2
  <2>3. CASE y[1] # k
    <3>1. y \in S
      BY <2>1, <2>3
    <3>2. y \in R
      BY <2>3, <3>1
    <3> QED
      BY <2>3, <3>2
  <2> QED
    BY <2>2, <2>3
<1> HIDE DEF f, R
<1>6. f \in Bijection(R, T)
  BY <1>3, <1>4, <1>5, Fun_IsBij
<1>7. IsFiniteSet(T) /\ Cardinality(T) = Cardinality(R)
  BY <1>1, <1>6, FS_Bijection DEF ExistsBijection
<1>8. Cardinality(S) \in Nat
  BY FS_CardinalityType
<1> QED
  BY <1>1, <1>7, <1>8 DEF Has

\* A job is linked into a queue.
LEMMA QueuedMore ==
  ASSUME PoolTypes, NEW j \in Jobs, NEW k \in Jobs, NEW q \in Queues, NEW p \in Priorities,
         items' = [items EXCEPT ![q][p] = Append(items[q][p], k)], IsFiniteSet(Queued(j))
  PROVE  /\ IsFiniteSet(Queued(j)')
         /\ Cardinality(Queued(j)') = Cardinality(Queued(j)) + Has({j}, k)
PROOF
<1> DEFINE s == items[q][p]
           n == Len(s) + 1
<1>1. items \in [Queues -> [Priorities -> Seq(Jobs)]] /\ s \in Seq(Jobs)
  BY DEF PoolTypes, DataTypes
<1>2. /\ Len(s) \in Nat /\ n \in Nat /\ Append(s, k) \in Seq(Jobs) /\ Len(Append(s, k)) = n
      /\ Append(s, k)[n] = k /\ \A i \in 1..Len(s) : Append(s, k)[i] = s[i]
  BY <1>1
<1>3. /\ items'[q][p] = Append(s, k)
      /\ \A c \in Queues, d \in Priorities : <<c, d>> # <<q, p>> => items'[c][d] = items[c][d]
  BY <1>1
<1>4. ASSUME NEW c \in Queues, NEW d \in Priorities, NEW i \in Nat
      PROVE  <<<<c, d>>, i>> \in Queued(j)'
               <=> <<<<c, d>>, i>> \in Queued(j) \/ (k = j /\ c = q /\ d = p /\ i = n)
  <2>1. /\ <<<<c, d>>, i>> \in Queued(j)' <=> i \in 1..Len(items'[c][d]) /\ items'[c][d][i] = j
        /\ <<<<c, d>>, i>> \in Queued(j) <=> i \in 1..Len(items[c][d]) /\ items[c][d][i] = j
    BY DEF Queued
  <2>2. CASE <<c, d>> = <<q, p>>
    BY <1>2, <1>3, <2>1, <2>2
  <2>3. CASE <<c, d>> # <<q, p>>
    BY <1>3, <2>1, <2>3
  <2> QED
    BY <2>2, <2>3
<1>5. <<<<q, p>>, n>> \notin Queued(j)
  BY <1>2 DEF Queued
<1> HIDE DEF n, s
<1>6. Queued(j)' = IF k = j THEN Queued(j) \cup {<<<<q, p>>, n>>} ELSE Queued(j)
  <2>1. /\ Queued(j) \subseteq (Queues \X Priorities) \X Nat
        /\ Queued(j)' \subseteq (Queues \X Priorities) \X Nat
        /\ <<<<q, p>>, n>> \in (Queues \X Priorities) \X Nat
    BY <1>2 DEF Queued
  <2> QED
    BY <1>4, <2>1
<1> QED
  BY <1>5, <1>6, FS_AddElement, FS_CardinalityType DEF Has

\* The first job of a queue is unlinked.
LEMMA QueuedLess ==
  ASSUME PoolTypes, NEW j \in Jobs, NEW q \in Queues, NEW p \in Priorities,
         items[q][p] # <<>>, items' = [items EXCEPT ![q][p] = Tail(items[q][p])],
         IsFiniteSet(Queued(j))
  PROVE  /\ IsFiniteSet(Queued(j)')
         /\ Cardinality(Queued(j)') = Cardinality(Queued(j)) - Has({j}, Head(items[q][p]))
PROOF
<1> DEFINE s == items[q][p]
<1>1. items \in [Queues -> [Priorities -> Seq(Jobs)]] /\ s \in Seq(Jobs) /\ s # <<>>
  BY DEF PoolTypes, DataTypes
<1>2. /\ Len(s) \in Nat /\ Len(s) # 0 /\ Len(Tail(s)) = Len(s) - 1 /\ Head(s) = s[1]
      /\ \A i \in 1..(Len(s) - 1) : Tail(s)[i] = s[i + 1]
  BY <1>1
<1>3. /\ items'[q][p] = Tail(s)
      /\ \A c \in Queues, d \in Priorities : <<c, d>> # <<q, p>> => items'[c][d] = items[c][d]
  BY <1>1
<1> HIDE DEF s
<1> DEFINE K == Queues \X Priorities
<1>4. /\ Queued(j) \in SUBSET (K \X Nat) /\ Queued(j)' \in SUBSET (K \X Nat)
      /\ <<q, p>> \in K
  BY DEF Queued
<1>5. ASSUME NEW c \in K, NEW n \in Nat, c # <<q, p>>
      PROVE  <<c, n>> \in Queued(j)' <=> <<c, n>> \in Queued(j)
  <2>1. items'[c[1]][c[2]] = items[c[1]][c[2]]
    BY <1>3, <1>5
  <2> QED
    BY <2>1 DEF Queued
<1>6. ASSUME NEW n \in Nat
      PROVE  <<<<q, p>>, n>> \in Queued(j)' <=> n # 0 /\ <<<<q, p>>, n + 1>> \in Queued(j)
  <2>1. <<<<q, p>>, n>> \in Queued(j)' <=> n \in 1..Len(items'[q][p]) /\ items'[q][p][n] = j
    BY DEF Queued
  <2>2. <<<<q, p>>, n + 1>> \in Queued(j) <=> n + 1 \in 1..Len(s) /\ s[n + 1] = j
    BY DEF Queued, s
  <2> QED
    BY <1>2, <1>3, <2>1, <2>2
<1>7. /\ <<<<q, p>>, 1>> \in Queued(j) <=> 1 \in 1..Len(s) /\ s[1] = j
      /\ <<<<q, p>>, 0>> \in Queued(j) <=> 0 \in 1..Len(s) /\ s[0] = j
  BY DEF Queued, s
<1>8. /\ <<<<q, p>>, 1>> \in Queued(j) <=> Head(s) = j
      /\ <<<<q, p>>, 0>> \notin Queued(j)
  BY <1>2, <1>7
<1>9. Has(Queued(j), <<<<q, p>>, 1>>) = Has({j}, Head(items[q][p]))
  BY <1>8 DEF Has, s
<1> HIDE DEF K
<1> DEFINE k == <<q, p>>
<1>10. /\ k \in K /\ <<k, 0>> \notin Queued(j)
       /\ \A c \in K, n \in Nat : c # k => (<<c, n>> \in Queued(j)' <=> <<c, n>> \in Queued(j))
       /\ \A n \in Nat : <<k, n>> \in Queued(j)' <=> n # 0 /\ <<k, n + 1>> \in Queued(j)
       /\ Has(Queued(j), <<k, 1>>) = Has({j}, Head(items[q][p]))
  BY <1>4, <1>5, <1>6, <1>8, <1>9
<1> HIDE DEF k
<1> QED
  BY <1>4, <1>10, Shift

\* A job is put aside.
LEMMA AsideMore ==
  ASSUME PoolTypes, NEW j \in Jobs, NEW k \in Jobs, NEW t \in Actors,
         \A u \in Actors : u # t => th'[u].back = th[u].back,
         th'[t].back = Append(th[t].back, k), IsFiniteSet(PutAside(j))
  PROVE  /\ IsFiniteSet(PutAside(j)')
         /\ Cardinality(PutAside(j)') = Cardinality(PutAside(j)) + Has({j}, k)
PROOF
<1> DEFINE s == th[t].back
           n == Len(s) + 1
<1>1. s \in Seq(Jobs)
  BY DEF PoolTypes, ThreadTypes, Threads
<1>2. /\ Len(s) \in Nat /\ n \in Nat /\ Append(s, k) \in Seq(Jobs) /\ Len(Append(s, k)) = n
      /\ Append(s, k)[n] = k /\ \A i \in 1..Len(s) : Append(s, k)[i] = s[i]
  BY <1>1
<1>3. ASSUME NEW i \in Nat
      PROVE  <<t, i>> \in PutAside(j)' <=> <<t, i>> \in PutAside(j) \/ (k = j /\ i = n)
  <2>1. /\ <<t, i>> \in PutAside(j)' <=> i \in 1..Len(Append(s, k)) /\ Append(s, k)[i] = j
        /\ <<t, i>> \in PutAside(j) <=> i \in 1..Len(s) /\ s[i] = j
    BY DEF PutAside
  <2> HIDE DEF s
  <2> QED
    BY ONLY i \in Nat, <1>2, <2>1
<1>4. <<t, n>> \notin PutAside(j)
  BY <1>2 DEF PutAside
<1>6. ASSUME NEW u \in Actors, NEW i \in Nat, u # t
      PROVE  <<u, i>> \in PutAside(j)' <=> <<u, i>> \in PutAside(j)
  BY <1>6 DEF PutAside
<1> HIDE DEF n, s
<1>5. PutAside(j)' = IF k = j THEN PutAside(j) \cup {<<t, n>>} ELSE PutAside(j)
  <2>1. /\ PutAside(j) \subseteq Actors \X Nat /\ PutAside(j)' \subseteq Actors \X Nat
        /\ <<t, n>> \in Actors \X Nat
    BY <1>2 DEF PutAside
  <2>2. \A x \in Actors \X Nat :
          x \in PutAside(j)' <=> x \in PutAside(j) \/ (k = j /\ x = <<t, n>>)
    BY <1>2, <1>3, <1>6
  <2> QED
    BY <2>1, <2>2
<1> QED
  BY <1>4, <1>5, FS_AddElement, FS_CardinalityType DEF Has

\* The first job put aside is taken back.
LEMMA AsideLess ==
  ASSUME PoolTypes, NEW j \in Jobs, NEW t \in Actors,
         \A u \in Actors : u # t => th'[u].back = th[u].back,
         th[t].back # <<>>, th'[t].back = Tail(th[t].back), IsFiniteSet(PutAside(j))
  PROVE  /\ IsFiniteSet(PutAside(j)')
         /\ Cardinality(PutAside(j)') = Cardinality(PutAside(j)) - Has({j}, Head(th[t].back))
PROOF
<1> DEFINE s == th[t].back
<1>1. s \in Seq(Jobs) /\ s # <<>>
  BY DEF PoolTypes, ThreadTypes, Threads
<1>2. /\ Len(s) \in Nat /\ Len(s) # 0 /\ Len(Tail(s)) = Len(s) - 1 /\ Head(s) = s[1]
      /\ \A i \in 1..(Len(s) - 1) : Tail(s)[i] = s[i + 1]
  BY <1>1
<1>3. th'[t].back = Tail(s)
  OBVIOUS
<1> HIDE DEF s
<1>4. PutAside(j) \in SUBSET (Actors \X Nat) /\ PutAside(j)' \in SUBSET (Actors \X Nat)
  BY DEF PutAside
<1>5. ASSUME NEW u \in Actors, NEW n \in Nat, u # t
      PROVE  <<u, n>> \in PutAside(j)' <=> <<u, n>> \in PutAside(j)
  BY <1>5 DEF PutAside
<1>6. ASSUME NEW n \in Nat
      PROVE  <<t, n>> \in PutAside(j)' <=> n # 0 /\ <<t, n + 1>> \in PutAside(j)
  <2>1. <<t, n>> \in PutAside(j)' <=> n \in 1..Len(th'[t].back) /\ th'[t].back[n] = j
    BY DEF PutAside
  <2>2. <<t, n + 1>> \in PutAside(j) <=> n + 1 \in 1..Len(s) /\ s[n + 1] = j
    BY DEF PutAside, s
  <2> QED
    BY ONLY n \in Nat, <1>2, <1>3, <2>1, <2>2
<1>7. /\ <<t, 1>> \in PutAside(j) <=> 1 \in 1..Len(s) /\ s[1] = j
      /\ <<t, 0>> \in PutAside(j) <=> 0 \in 1..Len(s) /\ s[0] = j
  BY DEF PutAside, s
<1>8. (<<t, 1>> \in PutAside(j) <=> Head(s) = j) /\ <<t, 0>> \notin PutAside(j)
  BY <1>2, <1>7
<1>9. Has(PutAside(j), <<t, 1>>) = Has({j}, Head(th[t].back))
  BY <1>8 DEF Has, s
<1>10. /\ IsFiniteSet(PutAside(j)')
       /\ Cardinality(PutAside(j)') = Cardinality(PutAside(j)) - Has(PutAside(j), <<t, 1>>)
  BY ONLY IsFiniteSet(PutAside(j)), t \in Actors, <1>4, <1>5, <1>6, <1>8, Shift
<1> QED
  BY <1>9, <1>10

LEMMA ActorsFinite == IsFiniteSet(Actors)
PROOF
<1>1. IsFiniteSet(Workers)
  BY PoolAssumption, FS_Interval DEF Workers
<1> QED
  BY <1>1, PoolAssumption, FS_Union DEF Actors, Clients

\* The threads of a set, when one of them moves.
LEMMA OneOf ==
  ASSUME NEW t \in Actors, NEW S \in SUBSET Actors, NEW T \in SUBSET Actors,
         \A u \in Actors : u # t => (u \in T <=> u \in S)
  PROVE  /\ Cardinality(S) \in Nat /\ Cardinality(T) \in Nat
         /\ t \in S => Cardinality(S) > 0
         /\ Cardinality(T) = Cardinality(S) + Has(T, t) - Has(S, t)
PROOF
<1>1. /\ IsFiniteSet(S) /\ IsFiniteSet(T)
      /\ Cardinality(S) \in Nat /\ Cardinality(T) \in Nat
  BY ActorsFinite, FS_Subset, FS_CardinalityType
<1>2. t \in S => Cardinality(S) > 0
  BY <1>1, FS_EmptySet
<1>3. CASE t \in S /\ t \notin T
  <2>1. T = S \ {t}
    BY <1>3
  <2> QED
    BY <1>1, <1>2, <1>3, <2>1, FS_RemoveElement DEF Has
<1>4. CASE t \notin S /\ t \in T
  <2>1. T = S \cup {t}
    BY <1>4
  <2> QED
    BY <1>1, <1>4, <2>1, FS_AddElement DEF Has
<1>5. CASE t \in S <=> t \in T
  <2>1. T = S
    BY <1>5
  <2> QED
    BY <1>1, <1>2, <2>1 DEF Has
<1> QED
  BY <1>3, <1>4, <1>5

----------------------------------------------------------------------------
(* The references to a job.                                                *)

\* What changes the count changes what it counts.
LEMMA Balance ==
  ASSUME PoolTypes, DataTypes', NEW t \in Actors, Step(t), NEW j \in Jobs, RefsOf(j),
         IsFiniteSet(Queued(j)'), IsFiniteSet(PutAside(j)'),
         refs'[j] - refs[j] =
             (Has(handle', j) - Has(handle, j))
           + (Has(Actors, lock'[j]) - Has(Actors, lock[j]))
           + (Has(Takers(j)', t) - Has(Takers(j), t))
           + (Cardinality(Queued(j)') - Cardinality(Queued(j)))
           + (Cardinality(PutAside(j)') - Cardinality(PutAside(j)))
  PROVE  RefsOf(j)'
PROOF
<1>1. \A u \in Actors : u # t => th'[u] = th[u]
  BY OneMoves
<1>2. /\ Takers(j) \in SUBSET Actors /\ Takers(j)' \in SUBSET Actors
      /\ \A u \in Actors : u # t => (u \in Takers(j)' <=> u \in Takers(j))
  BY <1>1 DEF Takers, Job
<1>3. /\ Cardinality(Takers(j)) \in Nat /\ Cardinality(Takers(j)') \in Nat
      /\ Cardinality(Takers(j)') =
           Cardinality(Takers(j)) + Has(Takers(j)', t) - Has(Takers(j), t)
  BY <1>2, OneOf
<1>4. /\ Cardinality(Queued(j)) \in Nat /\ Cardinality(PutAside(j)) \in Nat
      /\ Cardinality(Queued(j)') \in Nat /\ Cardinality(PutAside(j)') \in Nat
  BY FS_CardinalityType DEF RefsOf
<1>5. refs[j] \in Int /\ refs'[j] \in Int
  BY DEF PoolTypes, DataTypes
<1>7. /\ Has(handle', j) \in Int /\ Has(handle, j) \in Int /\ Has(Takers(j)', t) \in Int
      /\ Has(Takers(j), t) \in Int /\ Has(Actors, lock'[j]) \in Int
      /\ Has(Actors, lock[j]) \in Int
  BY DEF Has
<1> QED
  BY <1>3, <1>4, <1>5, <1>7 DEF RefsOf

\* Who has a reference is counted.
LEMMA Counted ==
  ASSUME PoolTypes, NEW j \in Jobs, RefsOf(j)
  PROVE  /\ refs[j] >= 0
         /\ j \in handle => refs[j] > 0
         /\ \A t \in Actors : t \in Takers(j) => refs[j] > 0
         /\ refs[j] = 0 => j \notin handle /\ Takers(j) = {} /\ Queued(j) = {} /\ PutAside(j) = {}
PROOF
<1>1. Takers(j) \in SUBSET Actors
  BY DEF Takers
<1>2. IsFiniteSet(Takers(j)) /\ IsFiniteSet(Queued(j)) /\ IsFiniteSet(PutAside(j))
  BY <1>1, ActorsFinite, FS_Subset DEF RefsOf
<1>3. /\ Cardinality(Takers(j)) \in Nat /\ Cardinality(Queued(j)) \in Nat
      /\ Cardinality(PutAside(j)) \in Nat
      /\ Cardinality(Takers(j)) = 0 <=> Takers(j) = {}
      /\ Cardinality(Queued(j)) = 0 <=> Queued(j) = {}
      /\ Cardinality(PutAside(j)) = 0 <=> PutAside(j) = {}
  BY <1>2, FS_CardinalityType, FS_EmptySet
<1>4. /\ Has(handle, j) \in {0, 1} /\ Has(Actors, lock[j]) \in {0, 1}
      /\ j \in handle => Has(handle, j) = 1
  BY DEF Has
<1>5. refs[j] = Has(handle, j) + Has(Actors, lock[j]) + Cardinality(Takers(j))
                 + Cardinality(Queued(j)) + Cardinality(PutAside(j))
  BY DEF RefsOf
<1> QED
  BY <1>3, <1>4, <1>5

LEMMA KeepsHandles ==
  ASSUME PoolTypes, Handles, NEW t \in Actors, Step(t), handle' = handle,
         \/ /\ th'[t].op = th[t].op /\ th'[t].for = th[t].for
            /\ th'[t].job = th[t].job \/ th[t].op \notin HandleOps \cup {"add"}
         \/ th'[t].op \notin HandleOps \cup {"add", "wait"},
         th'[t].pc = "resume" => th'[t].back = <<>>
  PROVE  Handles'
PROOF
<1>1. \A u \in Actors : u # t => th'[u] = th[u]
  BY OneMoves
<1> QED
  BY <1>1 DEF Handles, Job, At

LEMMA HandlesNext ==
  ASSUME PoolTypes, References, Handles, PoolNext
  PROVE  Handles'
PROOF
<1>1. PICK t \in Actors : Step(t)
  BY StepOfOne
<1>2. /\ \A u \in Actors : u # t => th'[u] = th[u]
      /\ ThreadOK(t, th[t]) /\ th \in [Actors -> Threads] /\ th[t] \in Threads
  BY <1>1, OneMoves DEF PoolTypes, ThreadTypes
<1> USE DEF At
<1>3. CASE Service(t)
  <2>1. /\ \/ /\ th'[t].op = th[t].op /\ th'[t].for = th[t].for
              /\ th'[t].job = th[t].job \/ th[t].op \notin HandleOps \cup {"add"}
           \/ th'[t].op \notin HandleOps \cup {"add", "wait"}
        /\ th'[t].pc = "resume" => th'[t].back = <<>>
        /\ handle' = handle
    BY <1>2, <1>3 DEF Service, Enter, ThreadOK, Placed, Suspending, Aborting, Executing,
      Servicing, Looking, Finishing, Goto, Thread, Threads, HandleOps, jobVars
  <2> QED
    BY <1>1, <2>1, KeepsHandles
<1>4. CASE Execute(t)
  <2>1. /\ \/ /\ th'[t].op = th[t].op /\ th'[t].for = th[t].for
              /\ th'[t].job = th[t].job \/ th[t].op \notin HandleOps \cup {"add"}
           \/ th'[t].op \notin HandleOps \cup {"add", "wait"}
        /\ th'[t].pc = "resume" => th'[t].back = <<>>
        /\ handle' = handle
    BY <1>2, <1>4 DEF Execute, Enter, ThreadOK, Placed, Suspending, Aborting, Executing,
      Servicing, Looking, Finishing, AfterJob, Goto, Thread, Threads, HandleOps, jobVars
  <2> QED
    BY <1>1, <2>1, KeepsHandles
<1>5. CASE Done(t) \/ Cleanup(t)
  <2>1. /\ \/ /\ th'[t].op = th[t].op /\ th'[t].for = th[t].for
              /\ th'[t].job = th[t].job \/ th[t].op \notin HandleOps \cup {"add"}
           \/ th'[t].op \notin HandleOps \cup {"add", "wait"}
        /\ th'[t].pc = "resume" => th'[t].back = <<>>
        /\ handle' = handle
    BY <1>2, <1>5 DEF Done, Cleanup, ThreadOK, Placed, Suspending, Aborting, Executing,
      Servicing, Looking, Finishing, AfterJob, Goto, Thread, Threads, HandleOps, jobVars
  <2> QED
    BY <1>1, <2>1, KeepsHandles
<1>6. CASE Abort(t)
  <2>1. /\ \/ /\ th'[t].op = th[t].op /\ th'[t].for = th[t].for
              /\ th'[t].job = th[t].job \/ th[t].op \notin HandleOps \cup {"add"}
           \/ th'[t].op \notin HandleOps \cup {"add", "wait"}
        /\ th'[t].pc = "resume" => th'[t].back = <<>>
        /\ handle' = handle
    BY <1>2, <1>6 DEF Abort, ThreadOK, Placed, Suspending, Aborting, Executing, Servicing,
      Looking, Finishing, AfterJob, Goto, Thread, Threads, HandleOps, jobVars
  <2> QED
    BY <1>1, <2>1, KeepsHandles
<1>7. CASE Release(t)
  <2>1. /\ \/ /\ th'[t].op = th[t].op /\ th'[t].for = th[t].for
              /\ th'[t].job = th[t].job \/ th[t].op \notin HandleOps \cup {"add"}
           \/ th'[t].op \notin HandleOps \cup {"add", "wait"}
        /\ th'[t].pc = "resume" => th'[t].back = <<>>
        /\ handle' = handle
    BY <1>2, <1>7 DEF Release, ThreadOK, Placed, Suspending, Aborting, Executing, Servicing,
      Looking, Finishing, AfterService, Goto, Thread, Threads, HandleOps, jobVars
  <2> QED
    BY <1>1, <2>1, KeepsHandles
<1>8. CASE PushJob(t) \/ Count(t)
  <2>1. /\ \/ /\ th'[t].op = th[t].op /\ th'[t].for = th[t].for
              /\ th'[t].job = th[t].job \/ th[t].op \notin HandleOps \cup {"add"}
           \/ th'[t].op \notin HandleOps \cup {"add", "wait"}
        /\ th'[t].pc = "resume" => th'[t].back = <<>>
        /\ handle' = handle
    BY <1>2, <1>8 DEF PushJob, Count, ThreadOK, Placed, Suspending, Aborting, Executing,
      Servicing, Looking, Finishing, AfterPush, Goto, Thread, Threads, HandleOps, jobVars
  <2> QED
    BY <1>1, <2>1, KeepsHandles
<1>9. CASE Reserve(t)
  <2>1. /\ \/ /\ th'[t].op = th[t].op /\ th'[t].for = th[t].for
              /\ th'[t].job = th[t].job \/ th[t].op \notin HandleOps \cup {"add"}
           \/ th'[t].op \notin HandleOps \cup {"add", "wait"}
        /\ th'[t].pc = "resume" => th'[t].back = <<>>
        /\ handle' = handle
    BY <1>2, <1>9 DEF Reserve, ThreadOK, Placed, Suspending, Aborting, Executing, Servicing,
      Looking, Finishing, Nothing, Goto, Thread, Threads, HandleOps, jobVars
  <2> QED
    BY <1>1, <2>1, KeepsHandles
<1>10. CASE Take(t)
  <2>1. /\ \/ /\ th'[t].op = th[t].op /\ th'[t].for = th[t].for
              /\ th'[t].job = th[t].job \/ th[t].op \notin HandleOps \cup {"add"}
           \/ th'[t].op \notin HandleOps \cup {"add", "wait"}
        /\ th'[t].pc = "resume" => th'[t].back = <<>>
        /\ handle' = handle
    BY <1>2, <1>10 DEF Take, ThreadOK, Placed, Suspending, Aborting, Executing, Servicing,
      Looking, Finishing, AfterPop, Goto, Thread, Threads, HandleOps, jobVars
  <2> QED
    BY <1>1, <2>1, KeepsHandles
<1>11. CASE Wake(t) \/ Look(t) \/ Busy(t) \/ Again(t) \/ Rest(t) \/ ReplySuspend(t)
           \/ SuspendSelf(t) \/ Awake(t) \/ Exit(t)
  <2>1. /\ \/ /\ th'[t].op = th[t].op /\ th'[t].for = th[t].for
              /\ th'[t].job = th[t].job \/ th[t].op \notin HandleOps \cup {"add"}
           \/ th'[t].op \notin HandleOps \cup {"add", "wait"}
        /\ th'[t].pc = "resume" => th'[t].back = <<>>
        /\ handle' = handle
    BY <1>2, <1>11 DEF Wake, Look, Busy, Again, Rest, ReplySuspend, SuspendSelf, Awake, Exit,
      ThreadOK, Placed, Suspending, Aborting, Executing, Servicing, Looking, Finishing, Goto,
      Thread, Threads, HandleOps, jobVars
  <2> QED
    BY <1>1, <2>1, KeepsHandles
<1>12. CASE CallWorkers(t) \/ Suspended(t) \/ ResumeExecution(t)
  <2>1. /\ \/ /\ th'[t].op = th[t].op /\ th'[t].for = th[t].for
              /\ th'[t].job = th[t].job \/ th[t].op \notin HandleOps \cup {"add"}
           \/ th'[t].op \notin HandleOps \cup {"add", "wait"}
        /\ th'[t].pc = "resume" => th'[t].back = <<>>
        /\ handle' = handle
    BY <1>2, <1>12 DEF CallWorkers, Suspended, ResumeExecution, ThreadOK, Placed, Suspending,
      Aborting, Executing, Servicing, Looking, Finishing, AfterSuspend, Goto, Thread, Threads,
      HandleOps, jobVars
  <2> QED
    BY <1>1, <2>1, KeepsHandles
<1>13. CASE Yield(t) \/ EndWait(t)
  <2>1. /\ \/ /\ th'[t].op = th[t].op /\ th'[t].for = th[t].for
              /\ th'[t].job = th[t].job \/ th[t].op \notin HandleOps \cup {"add"}
           \/ th'[t].op \notin HandleOps \cup {"add", "wait"}
        /\ th'[t].pc = "resume" => th'[t].back = <<>>
        /\ handle' = handle
    BY <1>2, <1>13 DEF Yield, EndWait, ThreadOK, Placed, Suspending, Aborting, Executing,
      Servicing, Looking, Finishing, Goto, Thread, Threads, HandleOps, jobVars
  <2> QED
    BY <1>1, <2>1, KeepsHandles
<1>14. CASE Filter(t)
  <2>1. /\ \/ /\ th'[t].op = th[t].op /\ th'[t].for = th[t].for
              /\ th'[t].job = th[t].job \/ th[t].op \notin HandleOps \cup {"add"}
           \/ th'[t].op \notin HandleOps \cup {"add", "wait"}
        /\ th'[t].pc = "resume" => th'[t].back = <<>>
        /\ handle' = handle
    BY <1>2, <1>14 DEF Filter, ThreadOK, Placed, Suspending, Aborting, Executing, Servicing,
      Looking, Finishing, Goto, Thread, Threads, HandleOps, jobVars
  <2> QED
    BY <1>1, <2>1, KeepsHandles
<1>15. CASE PutBack(t)
  <2>1. /\ \/ /\ th'[t].op = th[t].op /\ th'[t].for = th[t].for
              /\ th'[t].job = th[t].job \/ th[t].op \notin HandleOps \cup {"add"}
           \/ th'[t].op \notin HandleOps \cup {"add", "wait"}
        /\ th'[t].pc = "resume" => th'[t].back = <<>>
        /\ handle' = handle
    BY <1>2, <1>15 DEF PutBack, ThreadOK, Placed, Suspending, Aborting, Executing, Servicing,
      Looking, Finishing, Goto, Thread, Threads, HandleOps, jobVars
  <2> QED
    BY <1>1, <2>1, KeepsHandles
<1>16. CASE Scanned(t) \/ NextQueue(t) \/ CallExit(t) \/ Join(t)
  <2>1. /\ \/ /\ th'[t].op = th[t].op /\ th'[t].for = th[t].for
              /\ th'[t].job = th[t].job \/ th[t].op \notin HandleOps \cup {"add"}
           \/ th'[t].op \notin HandleOps \cup {"add", "wait"}
        /\ th'[t].pc = "resume" => th'[t].back = <<>>
        /\ handle' = handle
    BY <1>2, <1>16 DEF Scanned, NextQueue, CallExit, Join, ThreadOK, Placed, Suspending,
      Aborting, Executing, Servicing, Looking, Finishing, Goto, Thread, Threads, HandleOps,
      jobVars
  <2> QED
    BY <1>1, <2>1, KeepsHandles
<1>17. CASE Scan(t)
  <2> DEFINE q == ScanQueue(th[t].pos)
  <2>1. /\ handle' = handle /\ th[t].pc = "scan"
        /\ \/ th'[t] = [th[t] EXCEPT !.queue = q, !.pc = "pop"]
           \/ th'[t] = [th[t] EXCEPT !.pos = th[t].pos + 1]
    BY <1>2, <1>17 DEF Scan, jobVars
  <2> HIDE DEF q
  <2>2. /\ th'[t].op = th[t].op /\ th'[t].for = th[t].for /\ th'[t].job = th[t].job
        /\ th'[t].pc \in {"pop", "scan"}
    BY <1>2, <2>1 DEF Threads
  <2> QED
    BY <1>1, <2>1, <2>2, KeepsHandles
<1>18. CASE SuspendExecution(t) \/ ExecuteToPriority(t) \/ AbortAll(t) \/ Shutdown(t)
           \/ BeginResume(t)
  <2>1. t \in Clients /\ handle' = handle
    BY <1>18 DEF SuspendExecution, BeginSuspended, Begin, ExecuteToPriority, AbortAll, Shutdown,
      BeginResume, Clients, jobVars
  <2>2. /\ th'[t].op \notin HandleOps \cup {"add", "wait"}
        /\ th'[t].back = <<>>
    BY <1>18, <2>1, CalledSuspended DEF Fresh, HandleOps
  <2> QED
    BY <1>1, <2>1, <2>2, KeepsHandles
<1>19. CASE Added(t)
  <2>1. handle' = handle \cup ({Job(t)} \cap Kept) /\ th[t].op = "add"
    BY <1>2, <1>19 DEF Added, ThreadOK, Placed, Suspending, Aborting, Executing, Servicing, Looking,
      Finishing
  <2>2. th'[t].op = "none" /\ th'[t].pc = "idle"
    BY <1>2, <1>19 DEF Added, Goto, Thread
  <2> QED
    BY <1>2, <2>1, <2>2 DEF Handles, HandleOps, Job
<1>20. ASSUME NEW j \in Jobs, AddExecuted(t, j) \/ AddQueued(t, j) \/ AddSerial(t, j)
      PROVE  Handles'
  <2>1. t \in Clients /\ handle' = handle /\ status[j] = "none"
    BY <1>20 DEF AddExecuted, AddQueued, AddSerial, AddJob, Clients
  <2>2. j \notin handle /\ Takers(j) = {}
    BY <2>1, Counted DEF References
  <2>3. th'[t].op = "add" /\ th'[t].job = j /\ th'[t].pc # "resume"
    BY <1>20, <2>1, Called DEF Fresh
  <2>4. \A u \in Actors : th[u].op = "add" => Job(u) # j
    BY <2>2 DEF Takers, HandleOps
  <2> QED
    BY <1>2, <2>1, <2>2, <2>3, <2>4 DEF Handles, HandleOps, Job
<1>21. ASSUME NEW j \in Jobs, ByHand(t, j) \/ ChangePriority(t, j) \/ WaitForFinish(t, j)
      PROVE  Handles'
  <2>1. t \in Clients /\ handle' = handle /\ j \in handle
    BY <1>21 DEF ByHand, ChangePriority, WaitForFinish, Clients, jobVars
  <2>2. /\ th'[t].pc # "resume"
        /\ \/ th'[t].op \in HandleOps /\ th'[t].job = j
           \/ th'[t].op = "wait" /\ th'[t].for = j
    BY <1>21, <2>1, Called DEF Fresh, HandleOps
  <2> QED
    BY <1>2, <2>1, <2>2 DEF Handles, HandleOps, Job
<1>22. ASSUME NEW j \in Jobs, ReleaseHandle(t, j)
      PROVE  Handles'
  <2>1. /\ handle' = handle \ {j} /\ th' = th
        /\ \A u \in Clients : Job(u) # j /\ th[u].for # j
    BY <1>22 DEF ReleaseHandle
  <2>2. \A u \in Actors : th[u].op # "run" => u \in Clients
    BY DEF PoolTypes, ThreadTypes, ThreadOK, Actors
  <2> QED
    BY <2>1, <2>2 DEF Handles, HandleOps, Job
<1> QED
  BY <1>1, <1>3, <1>4, <1>5, <1>6, <1>7, <1>8, <1>9, <1>10, <1>11, <1>12, <1>13, <1>14, <1>15,
    <1>16, <1>17, <1>18, <1>19, <1>20, <1>21, <1>22
  DEF Step, WorkerStep, ClientStep, ClientCall

\* Whether a thread in state r has a reference of its own to the job.
Takes(r, j) == IF r.job = j /\ r.op \notin HandleOps THEN 1 ELSE 0

LEMMA TakesIsHas ==
  ASSUME NEW t \in Actors, NEW j
  PROVE  Has(Takers(j), t) = Takes(th[t], j) /\ Has(Takers(j)', t) = Takes(th'[t], j)
PROOF
  BY DEF Has, Takers, Takes, Job

LEMMA SamePlaces ==
  ASSUME PoolTypes, NEW t \in Actors, Step(t), NEW j
  PROVE  /\ items' = items => Queued(j)' = Queued(j)
         /\ th'[t].back = th[t].back => PutAside(j)' = PutAside(j)
PROOF
<1>1. \A u \in Actors : u # t => th'[u] = th[u]
  BY OneMoves
<1>2. items' = items => Queued(j)' = Queued(j)
  BY DEF Queued
<1>3. th'[t].back = th[t].back => \A u \in Actors : th'[u].back = th[u].back
  BY <1>1
<1>4. th'[t].back = th[t].back => PutAside(j)' = PutAside(j)
  BY <1>3 DEF PutAside
<1> QED
  BY <1>2, <1>4

\* A step that leaves the queues and the jobs put aside alone.
LEMMA RefsStep ==
  ASSUME PoolTypes, DataTypes', References, NEW t \in Actors, Step(t),
         items' = items, th'[t].back = th[t].back,
         \A j \in Jobs : refs'[j] - refs[j] =
             (Has(handle', j) - Has(handle, j)) + (Has(Actors, lock'[j]) - Has(Actors, lock[j]))
             + (Takes(th'[t], j) - Takes(th[t], j)),
         \A j \in Jobs : status'[j] = "none" => status[j] = "none" /\ refs'[j] = refs[j]
  PROVE  References'
PROOF
<1>1. ASSUME NEW j \in Jobs
      PROVE  RefsOf(j)'
  <2>1. Queued(j)' = Queued(j) /\ PutAside(j)' = PutAside(j)
    BY SamePlaces
  <2>2. /\ RefsOf(j) /\ IsFiniteSet(Queued(j)) /\ IsFiniteSet(PutAside(j))
        /\ Cardinality(Queued(j)) \in Nat /\ Cardinality(PutAside(j)) \in Nat
    BY FS_CardinalityType DEF References, RefsOf
  <2>3. refs'[j] - refs[j] =
             (Has(handle', j) - Has(handle, j)) + (Has(Actors, lock'[j]) - Has(Actors, lock[j]))
             + (Takes(th'[t], j) - Takes(th[t], j))
    OBVIOUS
  <2>4. Has(Takers(j), t) = Takes(th[t], j) /\ Has(Takers(j)', t) = Takes(th'[t], j)
    BY TakesIsHas
  <2>5. /\ Has(handle', j) \in Int /\ Has(handle, j) \in Int
        /\ Has(Actors, lock'[j]) \in Int /\ Has(Actors, lock[j]) \in Int
        /\ Takes(th'[t], j) \in Int /\ Takes(th[t], j) \in Int
    BY DEF Has, Takes
  <2>6. refs'[j] - refs[j] =
             (Has(handle', j) - Has(handle, j))
           + (Has(Actors, lock'[j]) - Has(Actors, lock[j]))
           + (Has(Takers(j)', t) - Has(Takers(j), t))
           + (Cardinality(Queued(j)') - Cardinality(Queued(j)))
           + (Cardinality(PutAside(j)') - Cardinality(PutAside(j)))
    BY <2>1, <2>2, <2>3, <2>4, <2>5
  <2> QED
    BY <2>1, <2>2, <2>6, Balance
<1> QED
  BY <1>1 DEF References

\* A step that leaves the references alone.
LEMMA NoRefs ==
  ASSUME PoolTypes, DataTypes', References, NEW t \in Actors, Step(t),
         items' = items, refs' = refs, lock' = lock, handle' = handle,
         th'[t].back = th[t].back,
         \/ th'[t].op = th[t].op /\ th'[t].job = th[t].job
         \/ /\ th[t].op \in HandleOps \/ th[t].job = NoJob
            /\ th'[t].op \in HandleOps \/ th'[t].job = NoJob,
         \A j \in Jobs : status'[j] = "none" => status[j] = "none"
  PROVE  References'
PROOF
<1>1. \A j \in Jobs : /\ refs[j] \in Int /\ Takes(th[t], j) \in Int
                      /\ Has(handle, j) \in Int /\ Has(Actors, lock[j]) \in Int
  BY DEF PoolTypes, DataTypes, Takes, Has
<1>2. NoJob \notin Jobs
  BY PoolAssumption
<1>3. \A j \in Jobs : Takes(th'[t], j) = Takes(th[t], j)
  BY <1>2 DEF Takes
<1> QED
  BY <1>1, <1>3, RefsStep

\* A job that anybody has a reference of has been added.
LEMMA Live ==
  ASSUME PoolTypes, References, NEW j \in Jobs, j \in handle \/ \E t \in Actors : t \in Takers(j)
  PROVE  status[j] # "none"
PROOF
<1>1. RefsOf(j)
  BY DEF References
<1>2. refs[j] > 0
  BY <1>1, Counted
<1> QED
  BY <1>2 DEF References

LEMMA ReferencesNext ==
  ASSUME PoolTypes, Locks, References, Handles, PoolNext
  PROVE  References'
PROOF
<1>1. PICK t \in Actors : Step(t)
  BY StepOfOne
<1>2. /\ \A u \in Actors : u # t => th'[u] = th[u]
      /\ ThreadOK(t, th[t]) /\ th \in [Actors -> Threads] /\ th[t] \in Threads
      /\ (th[t].pc = "resume" => th[t].back = <<>>)
  BY <1>1, OneMoves DEF PoolTypes, ThreadTypes, Handles, At
<1>3. DataTypes'
  BY DataNext
<1>4. /\ refs \in [Jobs -> Int] /\ status \in [Jobs -> Statuses]
      /\ lock \in [Jobs -> Actors \cup {NoThread}] /\ handle \subseteq Jobs
      /\ NoJob \notin Jobs /\ NoThread \notin Actors
  BY PoolAssumption DEF PoolTypes, DataTypes, Actors, Workers, Clients
<1> USE DEF At
<1>5. CASE Done(t)
  <2>1. /\ items' = items /\ refs' = refs /\ lock' = lock /\ handle' = handle
        /\ \A j \in Jobs : status'[j] = "none" => status[j] = "none"
    BY <1>4, <1>5 DEF Done, jobVars, queueVars
  <2>2. /\ th'[t].back = th[t].back
        /\ \/ th'[t].op = th[t].op /\ th'[t].job = th[t].job
           \/ /\ th[t].op \in HandleOps \/ th[t].job = NoJob
              /\ th'[t].op \in HandleOps \/ th'[t].job = NoJob
    BY <1>2, <1>5 DEF Done, ThreadOK, Placed, Suspending, Aborting, Executing, Servicing,
      Looking, Finishing, JobPlaces, Goto, Thread, Threads, HandleOps
  <2> QED
    BY <1>1, <1>3, <2>1, <2>2, NoRefs
<1>6. CASE Abort(t)
  <2>1. /\ items' = items /\ refs' = refs /\ lock' = lock /\ handle' = handle
        /\ \A j \in Jobs : status'[j] = "none" => status[j] = "none"
    BY <1>4, <1>6 DEF Abort, AbortedStatus, CanExecute, jobVars, queueVars
  <2>2. /\ th'[t].back = th[t].back
        /\ \/ th'[t].op = th[t].op /\ th'[t].job = th[t].job
           \/ /\ th[t].op \in HandleOps \/ th[t].job = NoJob
              /\ th'[t].op \in HandleOps \/ th'[t].job = NoJob
    BY <1>2, <1>6 DEF Abort, ThreadOK, Placed, Suspending, Aborting, Executing, Servicing,
      Looking, Finishing, JobPlaces, AfterJob, Goto, Thread, Threads, HandleOps
  <2> QED
    BY <1>1, <1>3, <2>1, <2>2, NoRefs
<1>7. CASE Count(t)
  <2>1. /\ items' = items /\ refs' = refs /\ lock' = lock /\ handle' = handle
        /\ \A j \in Jobs : status'[j] = "none" => status[j] = "none"
    BY <1>4, <1>7 DEF Count, jobVars, queueVars
  <2>2. /\ th'[t].back = th[t].back
        /\ \/ th'[t].op = th[t].op /\ th'[t].job = th[t].job
           \/ /\ th[t].op \in HandleOps \/ th[t].job = NoJob
              /\ th'[t].op \in HandleOps \/ th'[t].job = NoJob
    BY <1>2, <1>7 DEF Count, ThreadOK, Placed, Suspending, Aborting, Executing, Servicing,
      Looking, Finishing, JobPlaces, AfterPush, Goto, Thread, Threads, HandleOps
  <2> QED
    BY <1>1, <1>3, <2>1, <2>2, NoRefs
<1>8. CASE Reserve(t)
  <2>1. /\ items' = items /\ refs' = refs /\ lock' = lock /\ handle' = handle
        /\ \A j \in Jobs : status'[j] = "none" => status[j] = "none"
    BY <1>4, <1>8 DEF Reserve, jobVars, queueVars
  <2>2. /\ th'[t].back = th[t].back
        /\ \/ th'[t].op = th[t].op /\ th'[t].job = th[t].job
           \/ /\ th[t].op \in HandleOps \/ th[t].job = NoJob
              /\ th'[t].op \in HandleOps \/ th'[t].job = NoJob
    BY <1>2, <1>8 DEF Reserve, ThreadOK, Placed, Suspending, Aborting, Executing, Servicing,
      Looking, Finishing, JobPlaces, Nothing, Goto, Thread, Threads, HandleOps
  <2> QED
    BY <1>1, <1>3, <2>1, <2>2, NoRefs
<1>9. CASE Wake(t) \/ Look(t) \/ Busy(t) \/ Again(t) \/ Rest(t) \/ ReplySuspend(t)
           \/ SuspendSelf(t) \/ Awake(t) \/ Exit(t)
  <2>1. /\ items' = items /\ refs' = refs /\ lock' = lock /\ handle' = handle
        /\ \A j \in Jobs : status'[j] = "none" => status[j] = "none"
    BY <1>4, <1>9 DEF Wake, Look, Busy, Again, Rest, ReplySuspend, SuspendSelf, Awake, Exit,
      jobVars, queueVars
  <2>2. /\ th'[t].back = th[t].back
        /\ \/ th'[t].op = th[t].op /\ th'[t].job = th[t].job
           \/ /\ th[t].op \in HandleOps \/ th[t].job = NoJob
              /\ th'[t].op \in HandleOps \/ th'[t].job = NoJob
    BY <1>2, <1>9 DEF Wake, Look, Busy, Again, Rest, ReplySuspend, SuspendSelf, Awake, Exit,
      ThreadOK, Placed, Suspending, Aborting, Executing, Servicing, Looking, Finishing,
      JobPlaces, Goto, Thread, Threads, HandleOps
  <2> QED
    BY <1>1, <1>3, <2>1, <2>2, NoRefs
<1>10. CASE CallWorkers(t) \/ Suspended(t) \/ ResumeExecution(t)
  <2>1. /\ items' = items /\ refs' = refs /\ lock' = lock /\ handle' = handle
        /\ \A j \in Jobs : status'[j] = "none" => status[j] = "none"
    BY <1>4, <1>10 DEF CallWorkers, Suspended, ResumeExecution, jobVars, queueVars
  <2>2. /\ th'[t].back = th[t].back
        /\ \/ th'[t].op = th[t].op /\ th'[t].job = th[t].job
           \/ /\ th[t].op \in HandleOps \/ th[t].job = NoJob
              /\ th'[t].op \in HandleOps \/ th'[t].job = NoJob
    BY <1>2, <1>10 DEF CallWorkers, Suspended, ResumeExecution, ThreadOK, Placed, Suspending,
      Aborting, Executing, Servicing, Looking, Finishing, JobPlaces, AfterSuspend, Goto, Thread,
      Threads, HandleOps
  <2> QED
    BY <1>1, <1>3, <2>1, <2>2, NoRefs
<1>11. CASE Yield(t) \/ EndWait(t)
  <2>1. /\ items' = items /\ refs' = refs /\ lock' = lock /\ handle' = handle
        /\ \A j \in Jobs : status'[j] = "none" => status[j] = "none"
    BY <1>4, <1>11 DEF Yield, EndWait, jobVars, queueVars
  <2>2. /\ th'[t].back = th[t].back
        /\ \/ th'[t].op = th[t].op /\ th'[t].job = th[t].job
           \/ /\ th[t].op \in HandleOps \/ th[t].job = NoJob
              /\ th'[t].op \in HandleOps \/ th'[t].job = NoJob
    BY <1>2, <1>11 DEF Yield, EndWait, ThreadOK, Placed, Suspending, Aborting, Executing,
      Servicing, Looking, Finishing, JobPlaces, Goto, Thread, Threads, HandleOps
  <2> QED
    BY <1>1, <1>3, <2>1, <2>2, NoRefs
<1>12. CASE Scanned(t) \/ NextQueue(t) \/ CallExit(t) \/ Join(t)
  <2>1. /\ items' = items /\ refs' = refs /\ lock' = lock /\ handle' = handle
        /\ \A j \in Jobs : status'[j] = "none" => status[j] = "none"
    BY <1>4, <1>12 DEF Scanned, NextQueue, CallExit, Join, jobVars, queueVars
  <2>2. /\ th'[t].back = th[t].back
        /\ \/ th'[t].op = th[t].op /\ th'[t].job = th[t].job
           \/ /\ th[t].op \in HandleOps \/ th[t].job = NoJob
              /\ th'[t].op \in HandleOps \/ th'[t].job = NoJob
    BY <1>2, <1>12 DEF Scanned, NextQueue, CallExit, Join, ThreadOK, Placed, Suspending,
      Aborting, Executing, Servicing, Looking, Finishing, JobPlaces, Goto, Thread, Threads,
      HandleOps
  <2> QED
    BY <1>1, <1>3, <2>1, <2>2, NoRefs
<1>13. CASE Scan(t)
  <2> DEFINE q == ScanQueue(th[t].pos)
  <2>1. /\ UNCHANGED <<jobVars, items>>
        /\ \/ th'[t] = [th[t] EXCEPT !.queue = q, !.pc = "pop"]
           \/ th'[t] = [th[t] EXCEPT !.pos = th[t].pos + 1]
    BY <1>2, <1>13 DEF Scan, queueVars
  <2> HIDE DEF q
  <2>2. th'[t].op = th[t].op /\ th'[t].job = th[t].job /\ th'[t].back = th[t].back
    BY <1>2, <2>1 DEF Threads
  <2> QED
    BY <1>1, <1>3, <2>1, <2>2, NoRefs DEF jobVars
<1>14. CASE SuspendExecution(t) \/ ExecuteToPriority(t) \/ AbortAll(t) \/ Shutdown(t)
           \/ BeginResume(t)
  <2>1. t \in Clients /\ th[t].pc = "idle" /\ UNCHANGED <<jobVars, items>>
    <3>1. (\E new : BeginSuspended(t, new)) \/ BeginResume(t)
      BY <1>14, Zenon DEF SuspendExecution, ExecuteToPriority, AbortAll, Shutdown
    <3> QED
      BY <3>1 DEF BeginSuspended, BeginResume, Begin, Clients, queueVars
  <2>2. th'[t].job = NoJob /\ th'[t].back = <<>>
    BY <1>14, <2>1, CalledSuspended DEF Fresh
  <2>3. th[t].job = NoJob /\ th[t].back = <<>>
    BY <1>2, <2>1 DEF ThreadOK, Placed, Suspending, Aborting, Executing, Servicing, Looking,
      Finishing, JobPlaces
  <2> QED
    BY <1>1, <1>3, <2>1, <2>2, <2>3, NoRefs DEF jobVars
<1>15. ASSUME NEW j \in Jobs, ByHand(t, j) \/ ChangePriority(t, j) \/ WaitForFinish(t, j)
      PROVE  References'
  <2>1. /\ t \in Clients /\ th[t].pc = "idle"
        /\ UNCHANGED <<status, refs, lock, handle, items>>
    BY <1>15 DEF ByHand, ChangePriority, WaitForFinish, Begin, Clients, jobVars, queueVars
  <2>2. (th'[t].op \in HandleOps \/ th'[t].job = NoJob) /\ th'[t].back = <<>>
    BY <1>15, <2>1, Called DEF Fresh, HandleOps
  <2>3. th[t].job = NoJob /\ th[t].back = <<>>
    BY <1>2, <2>1 DEF ThreadOK, Placed, Suspending, Aborting, Executing, Servicing, Looking,
      Finishing, JobPlaces
  <2> QED
    BY <1>1, <1>3, <2>1, <2>2, <2>3, NoRefs
<1>16. CASE Service(t) \/ Execute(t)
  <2>1. items' = items /\ Job(t) \in Jobs /\ t # NoThread
    BY <1>2, <1>4, <1>16 DEF Service, Execute, queueVars, ThreadOK, JobPlaces, Job
  <2>2. CASE UNCHANGED jobVars
    <3>1. /\ th'[t].back = th[t].back
          /\ \/ th'[t].op = th[t].op /\ th'[t].job = th[t].job
             \/ /\ th[t].op \in HandleOps \/ th[t].job = NoJob
                /\ th'[t].op \in HandleOps \/ th'[t].job = NoJob
      BY <1>2, <1>16 DEF Service, Execute, Enter, AfterJob, ThreadOK, Placed, Suspending, Aborting,
      Executing, Servicing, Looking, Finishing, JobPlaces, Goto, Thread, Threads, HandleOps
    <3> QED
      BY <1>1, <1>3, <2>1, <2>2, <3>1, NoRefs DEF jobVars
  <2>3. CASE Enter(t, Job(t)) /\ lock[Job(t)] = NoThread
    <3>1. /\ refs' = [refs EXCEPT ![Job(t)] = @ + 1] /\ lock' = [lock EXCEPT ![Job(t)] = t]
          /\ status' = [status EXCEPT ![Job(t)] = "inprogress"] /\ handle' = handle
      BY <2>3 DEF Enter
    <3>2. th'[t].op = th[t].op /\ th'[t].job = th[t].job /\ th'[t].back = th[t].back
      BY <1>2, <2>3 DEF Enter, Goto, Threads
    <3>3. \A j \in Jobs : Takes(th'[t], j) = Takes(th[t], j) /\ Takes(th[t], j) \in Int
      BY <3>2 DEF Takes
    <3>4. \A j \in Jobs : refs'[j] - refs[j] =
             (Has(handle', j) - Has(handle, j)) + (Has(Actors, lock'[j]) - Has(Actors, lock[j]))
             + (Takes(th'[t], j) - Takes(th[t], j))
      BY <1>4, <2>1, <2>3, <3>1, <3>3 DEF Has
    <3>5. \A j \in Jobs : status'[j] = "none" => status[j] = "none" /\ refs'[j] = refs[j]
      BY <1>4, <2>1, <3>1
    <3> QED
      BY <1>1, <1>3, <2>1, <3>2, <3>4, <3>5, RefsStep
  <2> QED
    BY <1>16, <2>2, <2>3 DEF Service, Execute
<1>17. CASE Cleanup(t)
  <2>1. /\ Job(t) \in Jobs /\ lock[Job(t)] = t /\ status[Job(t)] = "ok"
        /\ items' = items /\ handle' = handle /\ status' = status
        /\ refs' = [refs EXCEPT ![Job(t)] = @ - 1] /\ lock' = [lock EXCEPT ![Job(t)] = NoThread]
    BY <1>2, <1>17 DEF Cleanup, queueVars, ThreadOK, JobPlaces, Job, Locks, InJob
  <2>2. /\ th'[t].back = th[t].back
        /\ \/ th'[t].op = th[t].op /\ th'[t].job = th[t].job
           \/ /\ th[t].op \in HandleOps \/ th[t].job = NoJob
              /\ th'[t].op \in HandleOps \/ th'[t].job = NoJob
    BY <1>2, <1>17 DEF Cleanup, AfterJob, ThreadOK, Placed, Suspending, Aborting,
      Executing, Servicing, Looking, Finishing, JobPlaces, Goto, Thread, Threads, HandleOps
  <2>3. \A j \in Jobs : Takes(th'[t], j) = Takes(th[t], j) /\ Takes(th[t], j) \in Int
    BY <1>4, <2>2 DEF Takes
  <2>4. \A j \in Jobs : refs'[j] - refs[j] =
           (Has(handle', j) - Has(handle, j)) + (Has(Actors, lock'[j]) - Has(Actors, lock[j]))
           + (Takes(th'[t], j) - Takes(th[t], j))
    BY <1>4, <2>1, <2>3 DEF Has
  <2>5. \A j \in Jobs : status'[j] = "none" => status[j] = "none" /\ refs'[j] = refs[j]
    BY <1>4, <2>1
  <2> QED
    BY <1>1, <1>3, <2>1, <2>2, <2>4, <2>5, RefsStep
<1>18. CASE Release(t)
  <2>1. /\ Job(t) \in Jobs /\ th[t].op \notin HandleOps
        /\ items' = items /\ handle' = handle /\ status' = status /\ lock' = lock
        /\ refs' = [refs EXCEPT ![Job(t)] = @ - 1]
    BY <1>2, <1>18 DEF Release, queueVars, ThreadOK, Placed, Suspending, Aborting, Executing,
      Servicing, Looking, Finishing, JobPlaces, Job, HandleOps
  <2>2. th'[t].job = NoJob /\ th'[t].op = th[t].op /\ th'[t].back = th[t].back
    BY <1>2, <1>18 DEF Release, Threads
  <2>3. \A j \in Jobs : Takes(th'[t], j) = 0 /\ Takes(th[t], j) = IF j = Job(t) THEN 1 ELSE 0
    BY <1>4, <2>1, <2>2 DEF Takes, Job
  <2>4. \A j \in Jobs : refs'[j] - refs[j] =
           (Has(handle', j) - Has(handle, j)) + (Has(Actors, lock'[j]) - Has(Actors, lock[j]))
           + (Takes(th'[t], j) - Takes(th[t], j))
    BY <1>4, <2>1, <2>3 DEF Has
  <2>5. status[Job(t)] # "none"
    BY <2>1, Live DEF Takers
  <2>6. \A j \in Jobs : status'[j] = "none" => status[j] = "none" /\ refs'[j] = refs[j]
    BY <1>4, <2>1, <2>5
  <2> QED
    BY <1>1, <1>3, <2>1, <2>2, <2>4, <2>6, RefsStep
<1>19. ASSUME NEW k \in Jobs, AddExecuted(t, k) \/ AddQueued(t, k) \/ AddSerial(t, k)
       PROVE  References'
  <2>1. /\ t \in Clients /\ th[t].pc = "idle" /\ items' = items /\ handle' = handle
        /\ lock' = lock /\ refs' = [refs EXCEPT ![k] = 1] /\ status[k] = "none"
        /\ \E s \in {"unserviced", "pending"} : status' = [status EXCEPT ![k] = s]
    BY <1>19 DEF AddExecuted, AddQueued, AddSerial, AddJob, Begin, Clients, queueVars
  <2>2. th'[t].op = "add" /\ th'[t].job = k /\ th'[t].back = <<>>
    BY <1>19, <2>1, Called DEF Fresh
  <2>3. th[t].job = NoJob /\ th[t].back = <<>>
    BY <1>2, <2>1 DEF ThreadOK, Placed, Suspending, Aborting, Executing,
      Servicing, Looking, Finishing, JobPlaces
  <2>4. \A j \in Jobs : Takes(th[t], j) = 0 /\ Takes(th'[t], j) = IF j = k THEN 1 ELSE 0
    BY <1>4, <2>2, <2>3 DEF Takes, HandleOps
  <2>5. refs[k] = 0
    BY <2>1 DEF References
  <2>6. \A j \in Jobs : refs'[j] - refs[j] =
           (Has(handle', j) - Has(handle, j)) + (Has(Actors, lock'[j]) - Has(Actors, lock[j]))
           + (Takes(th'[t], j) - Takes(th[t], j))
    BY <1>4, <2>1, <2>4, <2>5 DEF Has
  <2>7. \A j \in Jobs : status'[j] = "none" => status[j] = "none" /\ refs'[j] = refs[j]
    BY <1>4, <2>1
  <2> QED
    BY <1>1, <1>3, <2>1, <2>2, <2>3, <2>6, <2>7, RefsStep
<1>20. CASE Added(t)
  <2>1. /\ Job(t) \in Jobs /\ th[t].op = "add" /\ th[t].back = <<>> /\ Job(t) \notin handle
        /\ items' = items /\ status' = status /\ lock' = lock
        /\ handle' = handle \cup ({Job(t)} \cap Kept)
        /\ refs' = IF Job(t) \in Kept THEN refs ELSE [refs EXCEPT ![Job(t)] = @ - 1]
    BY <1>2, <1>20 DEF Added, queueVars, ThreadOK, Placed, Suspending, Aborting, Executing,
      Servicing, Looking, Finishing, JobPlaces, Job, Handles
  <2>2. th'[t].job = NoJob /\ th'[t].back = <<>>
    BY <1>2, <1>20 DEF Added, Goto, Thread
  <2>3. \A j \in Jobs : Takes(th'[t], j) = 0 /\ Takes(th[t], j) = IF j = Job(t) THEN 1 ELSE 0
    BY <1>4, <2>1, <2>2 DEF Takes, Job, HandleOps
  <2>4. \A j \in Jobs : refs'[j] - refs[j] =
           (Has(handle', j) - Has(handle, j)) + (Has(Actors, lock'[j]) - Has(Actors, lock[j]))
           + (Takes(th'[t], j) - Takes(th[t], j))
    BY <1>4, <2>1, <2>3 DEF Has
  <2>5. status[Job(t)] # "none"
    BY <2>1, Live DEF Takers, HandleOps
  <2>6. \A j \in Jobs : status'[j] = "none" => status[j] = "none" /\ refs'[j] = refs[j]
    BY <1>4, <2>1, <2>5
  <2> QED
    BY <1>1, <1>3, <2>1, <2>2, <2>4, <2>6, RefsStep
<1>21. ASSUME NEW k \in Jobs, ReleaseHandle(t, k)
       PROVE  References'
  <2>1. /\ k \in handle /\ items' = items /\ status' = status /\ lock' = lock /\ th' = th
        /\ handle' = handle \ {k} /\ refs' = [refs EXCEPT ![k] = @ - 1]
    BY <1>21 DEF ReleaseHandle, queueVars
  <2>2. \A j \in Jobs : Takes(th'[t], j) = Takes(th[t], j) /\ Takes(th[t], j) \in Int
    BY <2>1 DEF Takes
  <2>3. \A j \in Jobs : refs'[j] - refs[j] =
           (Has(handle', j) - Has(handle, j)) + (Has(Actors, lock'[j]) - Has(Actors, lock[j]))
           + (Takes(th'[t], j) - Takes(th[t], j))
    BY <1>4, <2>1, <2>2 DEF Has
  <2>4. \A j \in Jobs : status'[j] = "none" => status[j] = "none" /\ refs'[j] = refs[j]
    BY <1>4, <2>1, Live
  <2> QED
    BY <1>1, <1>3, <2>1, <2>3, <2>4, RefsStep
<1>22. CASE PushJob(t)
  <2> DEFINE k == Job(t)
             q == th[t].queue
             d == priority[k]
  <2>1. k \in Jobs /\ q \in Queues /\ d \in Priorities /\ items \in [Queues -> [Priorities -> Seq(Jobs)]]
    BY <1>2, <1>22 DEF PushJob, ThreadOK, JobPlaces, Threads, Job, PoolTypes, DataTypes
  <2>2. /\ handle' = handle /\ status' = status /\ lock' = lock
        /\ refs' = [refs EXCEPT ![k] = @ + 1]
        /\ items' = [items EXCEPT ![q][d] = Append(items[q][d], k)]
    BY <1>22 DEF PushJob
  <2>3. th'[t].op = th[t].op /\ th'[t].job = th[t].job /\ th'[t].back = th[t].back
    BY <1>2, <1>22 DEF PushJob, Goto, Threads
  <2>4. status[k] # "none"
    <3>1. th[t].op \in HandleOps => k \in handle
      BY DEF Handles
    <3> QED
      BY <2>1, <3>1, Live DEF Takers
  <2> HIDE DEF k, q, d
  <2>5. ASSUME NEW j \in Jobs
        PROVE  RefsOf(j)'
    <3>1. RefsOf(j) /\ IsFiniteSet(Queued(j)) /\ IsFiniteSet(PutAside(j))
      BY DEF References, RefsOf
    <3>2. /\ IsFiniteSet(Queued(j)')
          /\ Cardinality(Queued(j)') = Cardinality(Queued(j)) + Has({j}, k)
      BY <2>1, <2>2, <3>1, QueuedMore
    <3>3. PutAside(j)' = PutAside(j)
      BY <1>1, <2>3, SamePlaces
    <3>4. Has(Takers(j)', t) = Has(Takers(j), t)
      BY <2>3, TakesIsHas DEF Takes
    <3>5. /\ Cardinality(Queued(j)) \in Nat /\ Cardinality(PutAside(j)) \in Nat
          /\ Has(Takers(j), t) \in Int /\ Has(handle, j) \in Int /\ Has(Actors, lock[j]) \in Int
      BY <3>1, FS_CardinalityType DEF Has
    <3>6. refs'[j] - refs[j] = Has({j}, k)
      BY <1>4, <2>1, <2>2 DEF Has
    <3>7. Has({j}, k) \in Int
      BY DEF Has
    <3>8. refs'[j] - refs[j] =
             (Has(handle', j) - Has(handle, j))
           + (Has(Actors, lock'[j]) - Has(Actors, lock[j]))
           + (Has(Takers(j)', t) - Has(Takers(j), t))
           + (Cardinality(Queued(j)') - Cardinality(Queued(j)))
           + (Cardinality(PutAside(j)') - Cardinality(PutAside(j)))
      BY <2>2, <3>2, <3>3, <3>4, <3>5, <3>6, <3>7
    <3> QED
      BY <1>1, <1>3, <3>1, <3>2, <3>3, <3>8, Balance
  <2>6. \A j \in Jobs : status'[j] = "none" => refs'[j] = 0
    BY <1>4, <2>1, <2>2, <2>4 DEF References
  <2> QED
    BY <2>5, <2>6 DEF References
<1>23. CASE Take(t)
  <2> DEFINE q == th[t].queue
             d == Max(Filled(q))
             k == Head(items[q][d])
  <2>1. Filled(q) # {} /\ q \in Queues /\ th[t].job = NoJob
    BY <1>2, <1>4, <1>23 DEF Take, ThreadOK, Threads, JobPlaces
  <2>2. /\ d \in Priorities /\ items[q][d] # <<>> /\ k \in Jobs
        /\ items \in [Queues -> [Priorities -> Seq(Jobs)]]
    BY <2>1, TopFilled DEF PoolTypes, DataTypes
  <2>3. /\ handle' = handle /\ status' = status /\ lock' = lock /\ refs' = refs
        /\ items' = [items EXCEPT ![q][d] = Tail(items[q][d])]
    BY <1>23 DEF Take, jobVars
  <2>4. /\ th'[t].op = th[t].op /\ th'[t].job = k /\ th'[t].back = th[t].back
        /\ th[t].op \notin HandleOps
    BY <1>2, <1>23 DEF Take, ThreadOK, Placed, Suspending, Aborting, Executing,
      Servicing, Looking, Finishing, JobPlaces, Threads, HandleOps
  <2>5. status'  = status /\ refs' = refs
    BY <2>3
  <2> HIDE DEF k, q, d
  <2>6. ASSUME NEW j \in Jobs
        PROVE  RefsOf(j)'
    <3>1. RefsOf(j) /\ IsFiniteSet(Queued(j)) /\ IsFiniteSet(PutAside(j))
      BY DEF References, RefsOf
    <3>2. /\ IsFiniteSet(Queued(j)')
          /\ Cardinality(Queued(j)') = Cardinality(Queued(j)) - Has({j}, k)
      BY <2>1, <2>2, <2>3, <3>1, QueuedLess DEF k
    <3>3. PutAside(j)' = PutAside(j)
      BY <1>1, <2>4, SamePlaces
    <3>4. Has(Takers(j)', t) = Has({j}, k) /\ Has(Takers(j), t) = 0
      BY <1>4, <2>1, <2>4, TakesIsHas DEF Takes, Has
    <3>5. /\ Cardinality(Queued(j)) \in Nat /\ Cardinality(PutAside(j)) \in Nat
          /\ Has(handle, j) \in Int /\ Has(Actors, lock[j]) \in Int /\ Has({j}, k) \in Int
      BY <3>1, FS_CardinalityType DEF Has
    <3>6. refs'[j] - refs[j] = 0
      BY <1>4, <2>3
    <3>7. refs'[j] - refs[j] =
             (Has(handle', j) - Has(handle, j))
           + (Has(Actors, lock'[j]) - Has(Actors, lock[j]))
           + (Has(Takers(j)', t) - Has(Takers(j), t))
           + (Cardinality(Queued(j)') - Cardinality(Queued(j)))
           + (Cardinality(PutAside(j)') - Cardinality(PutAside(j)))
      BY <2>3, <3>2, <3>3, <3>4, <3>5, <3>6
    <3> QED
      BY <1>1, <1>3, <3>1, <3>2, <3>3, <3>7, Balance
  <2> QED
    BY <2>3, <2>6 DEF References
<1>24. CASE Filter(t) /\ ~ (th'[t].back = Append(th[t].back, Job(t)) /\ th'[t].job = NoJob)
  <2>1. items' = items /\ UNCHANGED jobVars
    BY <1>24 DEF Filter, queueVars
  <2>2. th'[t].op = th[t].op /\ th'[t].job = th[t].job /\ th'[t].back = th[t].back
    BY <1>2, <1>24 DEF Filter, Goto, Threads, Job
  <2> QED
    BY <1>1, <1>3, <2>1, <2>2, NoRefs DEF jobVars
<1>25. CASE Filter(t) /\ th'[t].back = Append(th[t].back, Job(t)) /\ th'[t].job = NoJob
  <2> DEFINE k == Job(t)
  <2>1. /\ k \in Jobs /\ th[t].op \notin HandleOps /\ items' = items
        /\ handle' = handle /\ status' = status /\ lock' = lock /\ refs' = refs
    BY <1>2, <1>25 DEF Filter, jobVars, queueVars, ThreadOK, Placed, Suspending, Aborting, Executing,
      Servicing, Looking, Finishing, JobPlaces, Job, HandleOps
  <2>2. ASSUME NEW j \in Jobs
        PROVE  RefsOf(j)'
    <3>1. RefsOf(j) /\ IsFiniteSet(Queued(j)) /\ IsFiniteSet(PutAside(j))
      BY DEF References, RefsOf
    <3>2. \A u \in Actors : u # t => th'[u].back = th[u].back
      BY <1>2
    <3>3. Has(Takers(j), t) = Has({j}, k) /\ Has(Takers(j)', t) = 0
      BY <1>4, <1>25, <2>1, TakesIsHas DEF Takes, Has, Job
    <3> HIDE DEF k
    <3>4. /\ IsFiniteSet(PutAside(j)')
          /\ Cardinality(PutAside(j)') = Cardinality(PutAside(j)) + Has({j}, k)
      BY <1>25, <2>1, <3>1, <3>2, AsideMore DEF k
    <3>5. Queued(j)' = Queued(j)
      BY <1>1, <2>1, SamePlaces
    <3>6. /\ Cardinality(Queued(j)) \in Nat /\ Cardinality(PutAside(j)) \in Nat
          /\ Has(handle, j) \in Int /\ Has(Actors, lock[j]) \in Int /\ Has({j}, k) \in Int
      BY <3>1, FS_CardinalityType DEF Has
    <3>7. refs'[j] - refs[j] = 0
      BY <1>4, <2>1
    <3>8. refs'[j] - refs[j] =
             (Has(handle', j) - Has(handle, j))
           + (Has(Actors, lock'[j]) - Has(Actors, lock[j]))
           + (Has(Takers(j)', t) - Has(Takers(j), t))
           + (Cardinality(Queued(j)') - Cardinality(Queued(j)))
           + (Cardinality(PutAside(j)') - Cardinality(PutAside(j)))
      BY <2>1, <3>3, <3>4, <3>5, <3>6, <3>7
    <3> QED
      BY <1>1, <1>3, <3>1, <3>4, <3>5, <3>8, Balance
  <2> QED
    BY <2>1, <2>2 DEF References
<1>26. CASE PutBack(t)
  <2> DEFINE k == Head(th[t].back)
  <2>1. th[t].back \in Seq(Jobs) /\ th[t].back # <<>>
    BY <1>2, <1>26 DEF PutBack, Threads
  <2>2. /\ k \in Jobs /\ th[t].op \notin HandleOps /\ th[t].job = NoJob /\ items' = items
        /\ handle' = handle /\ status' = status /\ lock' = lock /\ refs' = refs
    BY <1>2, <1>26, <2>1 DEF PutBack, jobVars, queueVars, ThreadOK, Placed, Suspending, Aborting, Executing,
      Servicing, Looking, Finishing, JobPlaces, HandleOps
  <2>3. /\ th'[t].op = th[t].op /\ th'[t].job = k
        /\ th'[t].back = Tail(th[t].back)
    BY <1>2, <1>26 DEF PutBack, Threads
  <2>4. ASSUME NEW j \in Jobs
        PROVE  RefsOf(j)'
    <3>1. RefsOf(j) /\ IsFiniteSet(Queued(j)) /\ IsFiniteSet(PutAside(j))
      BY DEF References, RefsOf
    <3>2. \A u \in Actors : u # t => th'[u].back = th[u].back
      BY <1>2
    <3>3. /\ IsFiniteSet(PutAside(j)')
          /\ Cardinality(PutAside(j)') = Cardinality(PutAside(j)) - Has({j}, k)
      BY <2>1, <2>3, <3>1, <3>2, AsideLess
    <3> HIDE DEF k
    <3>4. Has(Takers(j)', t) = Has({j}, k) /\ Has(Takers(j), t) = 0
      BY <1>4, <2>2, <2>3, TakesIsHas DEF Takes, Has
    <3>5. Queued(j)' = Queued(j)
      BY <1>1, <2>2, SamePlaces
    <3>6. /\ Cardinality(Queued(j)) \in Nat /\ Cardinality(PutAside(j)) \in Nat
          /\ Has(handle, j) \in Int /\ Has(Actors, lock[j]) \in Int /\ Has({j}, k) \in Int
      BY <3>1, FS_CardinalityType DEF Has
    <3>7. refs'[j] - refs[j] = 0
      BY <1>4, <2>2
    <3>8. refs'[j] - refs[j] =
             (Has(handle', j) - Has(handle, j))
           + (Has(Actors, lock'[j]) - Has(Actors, lock[j]))
           + (Has(Takers(j)', t) - Has(Takers(j), t))
           + (Cardinality(Queued(j)') - Cardinality(Queued(j)))
           + (Cardinality(PutAside(j)') - Cardinality(PutAside(j)))
      BY <2>2, <3>3, <3>4, <3>5, <3>6, <3>7
    <3> QED
      BY <1>1, <1>3, <3>1, <3>3, <3>5, <3>8, Balance
  <2> QED
    BY <2>2, <2>4 DEF References
<1> QED
  BY <1>1, <1>5, <1>6, <1>7, <1>8, <1>9, <1>10, <1>11, <1>12, <1>13, <1>14, <1>15, <1>16, <1>17,
    <1>18, <1>19, <1>20, <1>21, <1>22, <1>23, <1>24, <1>25, <1>26
  DEF Step, WorkerStep, ClientStep, ClientCall

----------------------------------------------------------------------------
(* The count of a queue.                                                   *)

\* Which steps change the queues, their counts and the suspension, and where they lead.
Touches(t) ==
  /\ PushJob(t) \/ Take(t) \/ items' = items
  /\ Count(t) \/ Reserve(t) \/ count' = count
  /\ Suspended(t) \/ ResumeExecution(t) \/ nSuspend' = nSuspend
  /\ Join(t) \/ stopped' = stopped
  /\ th[t].pc = "count" => Count(t)
  /\ th[t].pc = "take" => Take(t)
  /\ th[t].pc # "gone"
  /\ th'[t].pc = "count" => PushJob(t)
  /\ th'[t].pc \in {"take", "null"} => Reserve(t)
  /\ th'[t].pc = "pop" => Scan(t)
  /\ Suspended(t) \/ BeginResume(t) \/ (Alone(t)' => Alone(t))

LEMMA StepTouches ==
  ASSUME PoolTypes, NEW t \in Actors, Step(t)
  PROVE  Touches(t)
PROOF
<1>1. ThreadOK(t, th[t]) /\ th \in [Actors -> Threads] /\ th[t] \in Threads
  BY DEF PoolTypes, ThreadTypes
<1> USE DEF At
<1>2. CASE Service(t)
  <2>1. items' = items /\ count' = count /\ nSuspend' = nSuspend /\ stopped' = stopped
    BY <1>2 DEF Service, queueVars, workerVars, suspendVars
  <2>2. /\ th[t].pc \notin {"count", "take", "gone"}
        /\ th'[t].pc \notin {"count", "take", "null", "pop"} /\ (Alone(t)' => Alone(t))
    BY <1>1, <1>2 DEF Service, Enter, ThreadOK, Placed, Suspending, Aborting, Executing,
      Servicing, Looking, Finishing, JobPlaces, Goto, Thread, Threads, Alone
  <2> QED
    BY <2>1, <2>2 DEF Touches
<1>3. CASE Execute(t)
  <2>1. items' = items /\ count' = count /\ nSuspend' = nSuspend /\ stopped' = stopped
    BY <1>3 DEF Execute, queueVars, workerVars, suspendVars
  <2>2. /\ th[t].pc \notin {"count", "take", "gone"}
        /\ th'[t].pc \notin {"count", "take", "null", "pop"} /\ (Alone(t)' => Alone(t))
    BY <1>1, <1>3 DEF Execute, Enter, AfterJob, ThreadOK, Placed, Suspending, Aborting,
      Executing, Servicing, Looking, Finishing, JobPlaces, Goto, Thread, Threads, Alone
  <2> QED
    BY <2>1, <2>2 DEF Touches
<1>4. CASE Done(t)
  <2>1. items' = items /\ count' = count /\ nSuspend' = nSuspend /\ stopped' = stopped
    BY <1>4 DEF Done, queueVars, workerVars, suspendVars
  <2>2. /\ th[t].pc \notin {"count", "take", "gone"}
        /\ th'[t].pc \notin {"count", "take", "null", "pop"} /\ (Alone(t)' => Alone(t))
    BY <1>1, <1>4 DEF Done, ThreadOK, Placed, Suspending, Aborting, Executing, Servicing,
      Looking, Finishing, JobPlaces, Goto, Thread, Threads, Alone
  <2> QED
    BY <2>1, <2>2 DEF Touches
<1>5. CASE Cleanup(t) \/ Abort(t)
  <2>1. items' = items /\ count' = count /\ nSuspend' = nSuspend /\ stopped' = stopped
    BY <1>5 DEF Cleanup, Abort, queueVars, workerVars, suspendVars
  <2>2. /\ th[t].pc \notin {"count", "take", "gone"}
        /\ th'[t].pc \notin {"count", "take", "null", "pop"} /\ (Alone(t)' => Alone(t))
    BY <1>1, <1>5 DEF Cleanup, Abort, AfterJob, ThreadOK, Placed, Suspending, Aborting,
      Executing, Servicing, Looking, Finishing, JobPlaces, Goto, Thread, Threads, Alone
  <2> QED
    BY <2>1, <2>2 DEF Touches
<1>6. CASE Release(t)
  <2>1. items' = items /\ count' = count /\ nSuspend' = nSuspend /\ stopped' = stopped
    BY <1>6 DEF Release, queueVars, workerVars, suspendVars
  <2>2. /\ th[t].pc \notin {"count", "take", "gone"}
        /\ th'[t].pc \notin {"count", "take", "null", "pop"} /\ (Alone(t)' => Alone(t))
    BY <1>1, <1>6 DEF Release, AfterService, ThreadOK, Placed, Suspending, Aborting, Executing,
      Servicing, Looking, Finishing, JobPlaces, Goto, Thread, Threads, Alone
  <2> QED
    BY <2>1, <2>2 DEF Touches
<1>7. CASE Wake(t) \/ Look(t) \/ Busy(t) \/ Again(t)
  <2>1. items' = items /\ count' = count /\ nSuspend' = nSuspend /\ stopped' = stopped
    BY <1>7 DEF Wake, Look, Busy, Again, queueVars, workerVars, suspendVars
  <2>2. /\ th[t].pc \notin {"count", "take", "gone"}
        /\ th'[t].pc \notin {"count", "take", "null", "pop"} /\ (Alone(t)' => Alone(t))
    BY <1>1, <1>7 DEF Wake, Look, Busy, Again, ThreadOK, Placed, Suspending, Aborting,
      Executing, Servicing, Looking, Finishing, JobPlaces, Goto, Thread, Threads, Alone
  <2> QED
    BY <2>1, <2>2 DEF Touches
<1>8. CASE /\ t \in Workers
           /\ Rest(t) \/ ReplySuspend(t) \/ SuspendSelf(t) \/ Awake(t) \/ Exit(t)
  <2>1. items' = items /\ count' = count /\ nSuspend' = nSuspend /\ stopped' = stopped
    BY <1>8 DEF Rest, ReplySuspend, SuspendSelf, Awake, Exit, queueVars, workerVars, suspendVars
  <2>2. /\ th[t].pc \notin {"count", "take", "gone"}
        /\ th'[t].pc \notin {"count", "take", "null", "pop"} /\ (Alone(t)' => Alone(t))
    BY <1>1, <1>8 DEF Rest, ReplySuspend, SuspendSelf, Awake, Exit, ThreadOK, Placed,
      Suspending, Aborting, Executing, Servicing, Looking, Finishing, JobPlaces, Goto, Thread,
      Threads, Alone
  <2> QED
    BY <2>1, <2>2 DEF Touches
<1>9. CASE CallWorkers(t) \/ Added(t)
  <2>1. items' = items /\ count' = count /\ nSuspend' = nSuspend /\ stopped' = stopped
    BY <1>9 DEF CallWorkers, Added, queueVars, workerVars, suspendVars
  <2>2. /\ th[t].pc \notin {"count", "take", "gone"}
        /\ th'[t].pc \notin {"count", "take", "null", "pop"} /\ (Alone(t)' => Alone(t))
    BY <1>1, <1>9 DEF CallWorkers, Added, ThreadOK, Placed, Suspending, Aborting, Executing,
      Servicing, Looking, Finishing, JobPlaces, Goto, Thread, Threads, Alone
  <2> QED
    BY <2>1, <2>2 DEF Touches
<1>10. CASE Yield(t) \/ EndWait(t)
  <2>1. items' = items /\ count' = count /\ nSuspend' = nSuspend /\ stopped' = stopped
    BY <1>10 DEF Yield, EndWait, queueVars, workerVars, suspendVars
  <2>2. /\ th[t].pc \notin {"count", "take", "gone"}
        /\ th'[t].pc \notin {"count", "take", "null", "pop"} /\ (Alone(t)' => Alone(t))
    BY <1>1, <1>10 DEF Yield, EndWait, ThreadOK, Placed, Suspending, Aborting, Executing,
      Servicing, Looking, Finishing, JobPlaces, Goto, Thread, Threads, Alone
  <2> QED
    BY <2>1, <2>2 DEF Touches
<1>11. CASE Filter(t) \/ PutBack(t)
  <2>1. items' = items /\ count' = count /\ nSuspend' = nSuspend /\ stopped' = stopped
    BY <1>11 DEF Filter, PutBack, queueVars, workerVars, suspendVars
  <2>2. /\ th[t].pc \notin {"count", "take", "gone"}
        /\ th'[t].pc \notin {"count", "take", "null", "pop"} /\ (Alone(t)' => Alone(t))
    BY <1>1, <1>11 DEF Filter, PutBack, ThreadOK, Placed, Suspending, Aborting, Executing,
      Servicing, Looking, Finishing, JobPlaces, Goto, Thread, Threads, Alone
  <2> QED
    BY <2>1, <2>2 DEF Touches
<1>12. CASE Scanned(t) \/ NextQueue(t) \/ CallExit(t)
  <2>1. items' = items /\ count' = count /\ nSuspend' = nSuspend /\ stopped' = stopped
    BY <1>12 DEF Scanned, NextQueue, CallExit, queueVars, workerVars, suspendVars
  <2>2. /\ th[t].pc \notin {"count", "take", "gone"}
        /\ th'[t].pc \notin {"count", "take", "null", "pop"} /\ (Alone(t)' => Alone(t))
    BY <1>1, <1>12 DEF Scanned, NextQueue, CallExit, ThreadOK, Placed, Suspending, Aborting,
      Executing, Servicing, Looking, Finishing, JobPlaces, Goto, Thread, Threads, Alone
  <2> QED
    BY <2>1, <2>2 DEF Touches
<1>13. CASE PushJob(t)
  <2>1. count' = count /\ nSuspend' = nSuspend /\ stopped' = stopped
    BY <1>13 DEF PushJob, queueVars, workerVars, suspendVars
  <2>2. /\ th[t].pc \notin {"count", "take", "gone"}
        /\ th'[t].pc \notin {"take", "null", "pop"} /\ (Alone(t)' => Alone(t))
    BY <1>1, <1>13 DEF PushJob, ThreadOK, Placed, Suspending, Aborting, Executing, Servicing,
      Looking, Finishing, JobPlaces, Goto, Thread, Threads, Alone
  <2> QED
    BY <1>13, <2>1, <2>2 DEF Touches
<1>14. CASE Count(t)
  <2>1. items' = items /\ nSuspend' = nSuspend /\ stopped' = stopped
    BY <1>14 DEF Count, queueVars, workerVars, suspendVars
  <2>2. /\ th[t].pc \notin {"take", "gone"}
        /\ th'[t].pc \notin {"count", "take", "null", "pop"} /\ (Alone(t)' => Alone(t))
    BY <1>1, <1>14 DEF Count, AfterPush, ThreadOK, Placed, Suspending, Aborting, Executing,
      Servicing, Looking, Finishing, JobPlaces, Goto, Thread, Threads, Alone
  <2> QED
    BY <1>14, <2>1, <2>2 DEF Touches
<1>15. CASE Reserve(t)
  <2>1. items' = items /\ nSuspend' = nSuspend /\ stopped' = stopped
    BY <1>15 DEF Reserve, queueVars, workerVars, suspendVars
  <2>2. /\ th[t].pc \notin {"count", "take", "gone"}
        /\ th'[t].pc \notin {"count", "pop"} /\ (Alone(t)' => Alone(t))
    BY <1>1, <1>15 DEF Reserve, Nothing, ThreadOK, Placed, Suspending, Aborting, Executing,
      Servicing, Looking, Finishing, JobPlaces, Goto, Thread, Threads, Alone
  <2> QED
    BY <1>15, <2>1, <2>2 DEF Touches
<1>16. CASE Take(t)
  <2>1. count' = count /\ nSuspend' = nSuspend /\ stopped' = stopped
    BY <1>16 DEF Take, queueVars, workerVars, suspendVars
  <2>2. /\ th[t].pc \notin {"count", "gone"}
        /\ th'[t].pc \notin {"count", "take", "null", "pop"} /\ (Alone(t)' => Alone(t))
    BY <1>1, <1>16 DEF Take, AfterPop, ThreadOK, Placed, Suspending, Aborting, Executing,
      Servicing, Looking, Finishing, JobPlaces, Goto, Thread, Threads, Alone
  <2> QED
    BY <1>16, <2>1, <2>2 DEF Touches
<1>17. CASE Suspended(t)
  <2>1. items' = items /\ count' = count /\ stopped' = stopped
    BY <1>17 DEF Suspended, queueVars, workerVars, suspendVars
  <2>2. /\ th[t].pc \notin {"count", "take", "gone"}
        /\ th'[t].pc \notin {"count", "take", "null", "pop"}
    BY <1>1, <1>17 DEF Suspended, AfterSuspend, ThreadOK, Placed, Suspending, Aborting,
      Executing, Servicing, Looking, Finishing, JobPlaces, Goto, Thread, Threads
  <2> QED
    BY <1>17, <2>1, <2>2 DEF Touches
<1>18. CASE ResumeExecution(t)
  <2>1. items' = items /\ count' = count /\ stopped' = stopped
    BY <1>18 DEF ResumeExecution, queueVars, workerVars, suspendVars
  <2>2. /\ th[t].pc \notin {"count", "take", "gone"}
        /\ th'[t].pc \notin {"count", "take", "null", "pop"} /\ (Alone(t)' => Alone(t))
    BY <1>1, <1>18 DEF ResumeExecution, ThreadOK, Placed, Suspending, Aborting, Executing,
      Servicing, Looking, Finishing, JobPlaces, Goto, Thread, Threads, Alone
  <2> QED
    BY <1>18, <2>1, <2>2 DEF Touches
<1>19. CASE Join(t)
  <2>1. items' = items /\ count' = count /\ nSuspend' = nSuspend
    BY <1>19 DEF Join, queueVars, workerVars, suspendVars
  <2>2. /\ th[t].pc \notin {"count", "take", "gone"}
        /\ th'[t].pc \notin {"count", "take", "null", "pop"} /\ (Alone(t)' => Alone(t))
    BY <1>1, <1>19 DEF Join, ThreadOK, Placed, Suspending, Aborting, Executing, Servicing,
      Looking, Finishing, JobPlaces, Goto, Thread, Threads, Alone
  <2> QED
    BY <1>19, <2>1, <2>2 DEF Touches
<1>20. CASE Scan(t)
  <2> DEFINE q == ScanQueue(th[t].pos)
  <2>1. /\ items' = items /\ count' = count /\ nSuspend' = nSuspend /\ stopped' = stopped
        /\ th[t].pc = "scan"
        /\ \/ th'[t] = [th[t] EXCEPT !.queue = q, !.pc = "pop"]
           \/ th'[t] = [th[t] EXCEPT !.pos = th[t].pos + 1]
    BY <1>1, <1>20 DEF Scan, queueVars, workerVars, suspendVars
  <2> HIDE DEF q
  <2>2. th'[t].pc \in {"scan", "pop"} /\ th'[t].op = th[t].op
    BY <1>1, <2>1 DEF Threads
  <2> QED
    BY <1>20, <2>1, <2>2 DEF Touches, Alone
<1>21. CASE SuspendExecution(t) \/ ExecuteToPriority(t) \/ AbortAll(t) \/ Shutdown(t)
           \/ BeginResume(t)
  <2>1. /\ t \in Clients /\ th[t].pc = "idle" /\ UNCHANGED <<items, count, nSuspend, stopped>>
    <3>1. (\E new : BeginSuspended(t, new)) \/ BeginResume(t)
      BY <1>21, Zenon DEF SuspendExecution, ExecuteToPriority, AbortAll, Shutdown
    <3> QED
      BY <3>1 DEF BeginSuspended, BeginResume, Begin, Clients, queueVars, workerVars, suspendVars
  <2>2. /\ th'[t].pc \in {"suspend", "resume"}
        /\ th'[t].pc = "suspend" \/ BeginResume(t)
    BY <1>21, <2>1, CalledSuspended DEF Fresh
  <2> QED
    BY <2>1, <2>2 DEF Touches, Alone
<1>22. ASSUME NEW j \in Jobs,
              AddExecuted(t, j) \/ AddQueued(t, j) \/ AddSerial(t, j) \/ ByHand(t, j)
              \/ ChangePriority(t, j) \/ WaitForFinish(t, j)
       PROVE  Touches(t)
  <2>1. /\ t \in Clients /\ th[t].pc = "idle" /\ UNCHANGED <<items, count, nSuspend, stopped>>
    BY <1>22 DEF AddExecuted, AddQueued, AddSerial, AddJob, ByHand, ChangePriority, WaitForFinish,
      Begin, Clients, queueVars, workerVars, suspendVars
  <2>2. /\ th'[t].pc \in {"execute", "push", "abort", "yield"}
        /\ th'[t].op \in {"add", "execute", "abort", "raise", "wait"}
    BY <1>22, <2>1, Called DEF Fresh
  <2> QED
    BY <2>1, <2>2 DEF Touches, Alone
<1>23. ASSUME NEW j \in Jobs, ReleaseHandle(t, j)
       PROVE  Touches(t)
  <2>1. th[t].pc = "idle" /\ th' = th /\ UNCHANGED <<items, count, nSuspend, stopped>>
    BY <1>23 DEF ReleaseHandle, queueVars, workerVars, suspendVars
  <2> QED
    BY <2>1 DEF Touches, Alone
<1> QED
  BY <1>2, <1>3, <1>4, <1>5, <1>6, <1>7, <1>8, <1>9, <1>10, <1>11, <1>12, <1>13, <1>14, <1>15,
    <1>16, <1>17, <1>18, <1>19, <1>20, <1>21, <1>22, <1>23
  DEF Step, WorkerStep, ClientStep, ClientCall

\* A job is linked into queue q.
LEMMA LinkedMore ==
  ASSUME PoolTypes, NEW c \in Queues, NEW k \in Jobs, NEW q \in Queues, NEW p \in Priorities,
         items' = [items EXCEPT ![q][p] = Append(items[q][p], k)], IsFiniteSet(Linked(c))
  PROVE  /\ IsFiniteSet(Linked(c)')
         /\ Cardinality(Linked(c)') = Cardinality(Linked(c)) + Has({q}, c)
PROOF
<1> DEFINE s == items[q][p]
           n == Len(s) + 1
<1>1. items \in [Queues -> [Priorities -> Seq(Jobs)]] /\ s \in Seq(Jobs)
  BY DEF PoolTypes, DataTypes
<1>2. Len(s) \in Nat /\ n \in Nat /\ Len(Append(s, k)) = n
  BY <1>1
<1>3. /\ items'[q][p] = Append(s, k)
      /\ \A d \in Priorities : <<c, d>> # <<q, p>> => items'[c][d] = items[c][d]
  BY <1>1
<1>4. ASSUME NEW d \in Priorities, NEW i \in Nat
      PROVE  <<d, i>> \in Linked(c)' <=> <<d, i>> \in Linked(c) \/ (c = q /\ d = p /\ i = n)
  <2>1. /\ <<d, i>> \in Linked(c)' <=> i \in 1..Len(items'[c][d])
        /\ <<d, i>> \in Linked(c) <=> i \in 1..Len(items[c][d])
    BY DEF Linked
  <2>2. CASE <<c, d>> = <<q, p>>
    BY <1>2, <1>3, <2>1, <2>2
  <2>3. CASE <<c, d>> # <<q, p>>
    BY <1>3, <2>1, <2>3
  <2> QED
    BY <2>2, <2>3
<1>5. c = q => <<p, n>> \notin Linked(c)
  BY <1>2 DEF Linked
<1> HIDE DEF n, s
<1>6. Linked(c)' = IF c = q THEN Linked(c) \cup {<<p, n>>} ELSE Linked(c)
  <2>1. /\ Linked(c) \subseteq Priorities \X Nat /\ Linked(c)' \subseteq Priorities \X Nat
        /\ <<p, n>> \in Priorities \X Nat
    BY <1>2 DEF Linked
  <2>2. \A x \in Priorities \X Nat :
          x \in Linked(c)' <=> x \in Linked(c) \/ (c = q /\ x = <<p, n>>)
    BY <1>2, <1>4
  <2> QED
    BY <2>1, <2>2
<1> QED
  BY <1>5, <1>6, FS_AddElement, FS_CardinalityType DEF Has

\* The first job of queue q is unlinked.
LEMMA LinkedLess ==
  ASSUME PoolTypes, NEW c \in Queues, NEW q \in Queues, NEW p \in Priorities,
         items[q][p] # <<>>, items' = [items EXCEPT ![q][p] = Tail(items[q][p])],
         IsFiniteSet(Linked(c))
  PROVE  /\ IsFiniteSet(Linked(c)')
         /\ Cardinality(Linked(c)') = Cardinality(Linked(c)) - Has({q}, c)
PROOF
<1> DEFINE s == items[q][p]
<1>1. items \in [Queues -> [Priorities -> Seq(Jobs)]] /\ s \in Seq(Jobs) /\ s # <<>>
  BY DEF PoolTypes, DataTypes
<1>2. Len(s) \in Nat /\ Len(s) # 0 /\ Len(Tail(s)) = Len(s) - 1
  BY <1>1
<1>3. /\ items'[q][p] = Tail(s)
      /\ \A d \in Priorities : <<c, d>> # <<q, p>> => items'[c][d] = items[c][d]
  BY <1>1
<1> HIDE DEF s
<1>4. Linked(c) \in SUBSET (Priorities \X Nat) /\ Linked(c)' \in SUBSET (Priorities \X Nat)
  BY DEF Linked
<1>5. ASSUME NEW d \in Priorities, NEW n \in Nat, <<c, d>> # <<q, p>>
      PROVE  <<d, n>> \in Linked(c)' <=> <<d, n>> \in Linked(c)
  BY <1>3, <1>5 DEF Linked
<1>6. CASE c # q
  <2>1. Linked(c)' = Linked(c)
    BY <1>4, <1>5, <1>6
  <2> QED
    BY <1>6, <2>1, FS_CardinalityType DEF Has
<1>7. CASE c = q
  <2>1. ASSUME NEW n \in Nat
        PROVE  <<p, n>> \in Linked(q)' <=> n # 0 /\ <<p, n + 1>> \in Linked(q)
    <3>1. /\ <<p, n>> \in Linked(q)' <=> n \in 1..Len(items'[q][p])
          /\ <<p, n + 1>> \in Linked(q) <=> n + 1 \in 1..Len(s)
      BY DEF Linked, s
    <3> QED
      BY <1>2, <1>3, <3>1
  <2>2. /\ <<p, 0>> \notin Linked(q)
        /\ <<p, 1>> \in Linked(q)
    BY <1>2 DEF Linked, s
  <2>3. \A d \in Priorities, n \in Nat : d # p => (<<d, n>> \in Linked(q)' <=> <<d, n>> \in Linked(q))
    BY <1>5, <1>7
  <2>4. /\ IsFiniteSet(Linked(q)')
        /\ Cardinality(Linked(q)') = Cardinality(Linked(q)) - Has(Linked(q), <<p, 1>>)
    BY ONLY <1>4, <1>7, <2>1, <2>2, <2>3, Shift, p \in Priorities, IsFiniteSet(Linked(c))
  <2> QED
    BY <1>7, <2>2, <2>4 DEF Has
<1> QED
  BY <1>6, <1>7

\* A step that does to the count of every queue what it does to what is counted.
LEMMA KeepsBalance ==
  ASSUME PoolTypes, PoolTypes', Balanced, NEW t \in Actors, Step(t),
         \A q \in Queues :
           /\ IsFiniteSet(Linked(q)')
           /\ (count'[q] - count[q])
                + (Has(Counting(q)', t) - Has(Counting(q), t))
                + (Has(Taking(q)', t) - Has(Taking(q), t))
              = Cardinality(Linked(q)') - Cardinality(Linked(q))
  PROVE  Balanced'
PROOF
<1>1. \A u \in Actors : u # t => th'[u] = th[u]
  BY OneMoves
<1>2. ASSUME NEW q \in Queues
      PROVE  count'[q] + Cardinality(Counting(q)') + Cardinality(Taking(q)')
               = Cardinality(Linked(q)')
  <2>1. /\ Counting(q) \in SUBSET Actors /\ Counting(q)' \in SUBSET Actors
        /\ Taking(q) \in SUBSET Actors /\ Taking(q)' \in SUBSET Actors
        /\ \A u \in Actors : u # t => (u \in Counting(q)' <=> u \in Counting(q))
        /\ \A u \in Actors : u # t => (u \in Taking(q)' <=> u \in Taking(q))
    BY <1>1 DEF Counting, Taking, At
  <2>2. /\ Cardinality(Counting(q)) \in Nat /\ Cardinality(Counting(q)') \in Nat
        /\ Cardinality(Counting(q)') =
             Cardinality(Counting(q)) + Has(Counting(q)', t) - Has(Counting(q), t)
    BY <2>1, OneOf
  <2>3. /\ Cardinality(Taking(q)) \in Nat /\ Cardinality(Taking(q)') \in Nat
        /\ Cardinality(Taking(q)') = Cardinality(Taking(q)) + Has(Taking(q)', t) - Has(Taking(q), t)
    BY <2>1, OneOf
  <2>4. /\ Cardinality(Linked(q)) \in Nat /\ Cardinality(Linked(q)') \in Nat
        /\ count[q] \in Int /\ count'[q] \in Int
    BY FS_CardinalityType DEF Balanced, PoolTypes, DataTypes
  <2>5. /\ Has(Counting(q)', t) \in Int /\ Has(Counting(q), t) \in Int
        /\ Has(Taking(q)', t) \in Int /\ Has(Taking(q), t) \in Int
    BY DEF Has
  <2>6. count[q] + Cardinality(Counting(q)) + Cardinality(Taking(q)) = Cardinality(Linked(q))
    BY DEF Balanced
  <2> QED
    BY <2>2, <2>3, <2>4, <2>5, <2>6
<1> QED
  BY <1>2 DEF Balanced

\* The queue a Pop is of.
Popped(t) ==
  IF At(t, "popDirect") THEN t ELSE IF At(t, "popShared") THEN Shared
  ELSE IF At(t, "drain") THEN th[t].pos ELSE th[t].queue

\* A Pop finds a queue that counts to nothing, or reserves one of its jobs.
LEMMA Reserves ==
  ASSUME PoolTypes, NEW t \in Actors, Reserve(t)
  PROVE  /\ Popped(t) \in Queues /\ items' = items
         /\ th[t].pc \in {"popDirect", "popShared", "drain", "pop"}
         /\ \/ count[Popped(t)] = 0 /\ count' = count /\ Goto(t, Nothing(t))
               /\ th'[t].pc = Nothing(t) /\ th'[t].pc # "take"
            \/ /\ count[Popped(t)] # 0
               /\ count' = [count EXCEPT ![Popped(t)] = count[Popped(t)] - 1]
               /\ th'[t].pc = "take" /\ th'[t].queue = Popped(t) /\ th'[t].op = th[t].op
PROOF
<1>1. ThreadOK(t, th[t]) /\ th \in [Actors -> Threads] /\ th[t] \in Threads
  BY DEF PoolTypes, ThreadTypes
<1>2. Popped(t) \in Queues
  <2>1. At(t, "popDirect") => t \in Workers
    BY <1>1 DEF At, ThreadOK, Placed, Suspending, Aborting, Executing, Servicing, Looking,
      Finishing
  <2>2. At(t, "drain") => th[t].pos \in 0..NumWorkers
    BY <1>1 DEF At, ThreadOK, Placed, Suspending, Aborting, Executing, Servicing, Looking,
      Finishing
  <2>3. 0..NumWorkers \subseteq Queues /\ Shared \in Queues /\ th[t].queue \in Queues
    BY <1>1, PoolAssumption DEF Queues, Shared, Workers, Threads
  <2> QED
    BY <2>1, <2>2, <2>3 DEF Queues, Popped
<1>3. /\ items' = items /\ th[t].pc \in {"popDirect", "popShared", "drain", "pop"}
      /\ \/ count[Popped(t)] = 0 /\ count' = count /\ Goto(t, Nothing(t))
         \/ /\ count[Popped(t)] # 0
            /\ count' = [count EXCEPT ![Popped(t)] = count[Popped(t)] - 1]
            /\ th' = [th EXCEPT ![t].queue = Popped(t), ![t].pc = "take"]
  BY DEF Reserve, Popped
<1>4. ASSUME Goto(t, Nothing(t))
      PROVE  th'[t].pc = Nothing(t) /\ th'[t].pc # "take"
  <2>1. Nothing(t) \in {"popShared", "sleep", "noJob", "nextQueue", "null"}
    BY <1>3 DEF Nothing, At
  <2> HIDE DEF Nothing
  <2> QED
    BY <1>1, <1>4, <2>1 DEF Goto, Threads
<1> HIDE DEF Popped
<1>5. ASSUME th' = [th EXCEPT ![t].queue = Popped(t), ![t].pc = "take"]
      PROVE  th'[t].pc = "take" /\ th'[t].queue = Popped(t) /\ th'[t].op = th[t].op
  BY <1>1, <1>5 DEF Threads
<1> QED
  BY <1>2, <1>3, <1>4, <1>5

LEMMA BalancedNext ==
  ASSUME PoolTypes, PoolTypes', Balanced, PoolNext
  PROVE  Balanced'
PROOF
<1>1. PICK t \in Actors : Step(t)
  BY StepOfOne
<1>2. /\ Touches(t) /\ ThreadOK(t, th[t]) /\ th \in [Actors -> Threads] /\ th[t] \in Threads
      /\ th'[t] \in Threads
      /\ items \in [Queues -> [Priorities -> Seq(Jobs)]] /\ count \in [Queues -> Int]
  BY <1>1, StepTouches DEF PoolTypes, ThreadTypes, DataTypes
<1>3. \A q \in Queues : IsFiniteSet(Linked(q)) /\ Cardinality(Linked(q)) \in Nat
  BY FS_CardinalityType DEF Balanced
<1>4. CASE PushJob(t)
  <2> DEFINE q == th[t].queue
             p == priority[Job(t)]
  <2>1. /\ q \in Queues /\ p \in Priorities /\ Job(t) \in Jobs
        /\ items' = [items EXCEPT ![q][p] = Append(items[q][p], Job(t))] /\ count' = count
        /\ th[t].pc = "push" /\ th'[t].pc = "count" /\ th'[t].queue = q
    <3>1. Job(t) \in Jobs
      BY <1>2, <1>4 DEF PushJob, At, Job, ThreadOK, JobPlaces
    <3>2. th'[t].pc = "count" /\ th'[t].queue = q
      BY <1>2, <1>4 DEF PushJob, Goto, Threads
    <3> QED
      BY <1>2, <1>4, <3>1, <3>2 DEF PushJob, At, PoolTypes, DataTypes, Threads
  <2> HIDE DEF q, p
  <2>2. ASSUME NEW c \in Queues
        PROVE  /\ IsFiniteSet(Linked(c)')
               /\ (count'[c] - count[c])
                    + (Has(Counting(c)', t) - Has(Counting(c), t))
                    + (Has(Taking(c)', t) - Has(Taking(c), t))
                  = Cardinality(Linked(c)') - Cardinality(Linked(c))
    <3>1. IsFiniteSet(Linked(c)') /\ Cardinality(Linked(c)') = Cardinality(Linked(c)) + Has({q}, c)
      BY <1>3, <2>1, LinkedMore
    <3>2. /\ Has(Counting(c)', t) = Has({q}, c) /\ Has(Counting(c), t) = 0
          /\ Has(Taking(c)', t) = 0 /\ Has(Taking(c), t) = 0
      BY <2>1 DEF Counting, Taking, Has, At
    <3> QED
      BY <1>2, <1>3, <2>1, <3>1, <3>2 DEF Has
  <2> QED
    BY <1>1, <2>2, KeepsBalance
<1>5. CASE Count(t)
  <2> DEFINE q == th[t].queue
  <2>1. /\ q \in Queues /\ items' = items /\ count' = [count EXCEPT ![q] = count[q] + 1]
        /\ th[t].pc = "count" /\ th'[t].pc \notin {"count", "take"}
    <3>1. th'[t].pc \notin {"count", "take"}
      BY <1>2, <1>5 DEF Count, Touches, PushJob, At, Reserve
    <3> QED
      BY <1>2, <1>5, <3>1 DEF Count, At, Threads
  <2> HIDE DEF q
  <2>2. ASSUME NEW c \in Queues
        PROVE  /\ IsFiniteSet(Linked(c)')
               /\ (count'[c] - count[c])
                    + (Has(Counting(c)', t) - Has(Counting(c), t))
                    + (Has(Taking(c)', t) - Has(Taking(c), t))
                  = Cardinality(Linked(c)') - Cardinality(Linked(c))
    <3>1. Linked(c)' = Linked(c)
      BY <2>1 DEF Linked
    <3>2. /\ Has(Counting(c)', t) = 0 /\ Has(Counting(c), t) = Has({q}, c)
          /\ Has(Taking(c)', t) = 0 /\ Has(Taking(c), t) = 0
      BY <2>1 DEF Counting, Taking, Has, At, q
    <3>3. count'[c] - count[c] = Has({q}, c)
      BY <1>2, <2>1 DEF Has
    <3> QED
      BY <1>3, <3>1, <3>2, <3>3 DEF Has
  <2> QED
    BY <1>1, <2>2, KeepsBalance
<1>6. CASE Reserve(t) /\ count' # count
  <2> DEFINE q == Popped(t)
  <2>1. /\ q \in Queues /\ items' = items /\ count' = [count EXCEPT ![q] = count[q] - 1]
        /\ th'[t].pc = "take" /\ th'[t].queue = q /\ th[t].pc \notin {"count", "take"}
    BY <1>6, Reserves
  <2> HIDE DEF q
  <2>3. ASSUME NEW c \in Queues
        PROVE  /\ IsFiniteSet(Linked(c)')
               /\ (count'[c] - count[c])
                    + (Has(Counting(c)', t) - Has(Counting(c), t))
                    + (Has(Taking(c)', t) - Has(Taking(c), t))
                  = Cardinality(Linked(c)') - Cardinality(Linked(c))
    <3>1. Linked(c)' = Linked(c)
      BY <2>1 DEF Linked
    <3>2. /\ Has(Counting(c)', t) = 0 /\ Has(Counting(c), t) = 0
          /\ Has(Taking(c)', t) = Has({q}, c) /\ Has(Taking(c), t) = 0
      BY <2>1 DEF Counting, Taking, Has, At
    <3>3. count'[c] - count[c] = 0 - Has({q}, c)
      BY <1>2, <2>1 DEF Has
    <3> QED
      BY <1>3, <3>1, <3>2, <3>3 DEF Has
  <2> QED
    BY <1>1, <2>3, KeepsBalance
<1>7. CASE Take(t)
  <2> DEFINE q == th[t].queue
             p == Max(Filled(q))
  <2>1. /\ q \in Queues /\ Filled(q) # {} /\ count' = count
        /\ items' = [items EXCEPT ![q][p] = Tail(items[q][p])]
        /\ th[t].pc = "take" /\ th'[t].pc \notin {"count", "take"}
    <3>1. th'[t].pc \notin {"count", "take"}
      BY <1>2, <1>7 DEF Take, Touches, PushJob, At, Reserve
    <3> QED
      BY <1>2, <1>7, <3>1 DEF Take, At, Threads
  <2>2. p \in Priorities /\ items[q][p] # <<>>
    BY <2>1, TopFilled
  <2> HIDE DEF q, p
  <2>3. ASSUME NEW c \in Queues
        PROVE  /\ IsFiniteSet(Linked(c)')
               /\ (count'[c] - count[c])
                    + (Has(Counting(c)', t) - Has(Counting(c), t))
                    + (Has(Taking(c)', t) - Has(Taking(c), t))
                  = Cardinality(Linked(c)') - Cardinality(Linked(c))
    <3>1. IsFiniteSet(Linked(c)') /\ Cardinality(Linked(c)') = Cardinality(Linked(c)) - Has({q}, c)
      BY <1>3, <2>1, <2>2, LinkedLess
    <3>2. /\ Has(Counting(c)', t) = 0 /\ Has(Counting(c), t) = 0
          /\ Has(Taking(c)', t) = 0 /\ Has(Taking(c), t) = Has({q}, c)
      BY <2>1 DEF Counting, Taking, Has, At, q
    <3> QED
      BY <1>2, <1>3, <2>1, <3>1, <3>2 DEF Has
  <2> QED
    BY <1>1, <2>3, KeepsBalance
<1>8. CASE items' = items /\ count' = count /\ ~ Count(t) /\ ~ Take(t) /\ ~ PushJob(t)
  <2>1. th[t].pc \notin {"count", "take"} /\ th'[t].pc # "count"
    BY <1>2, <1>8 DEF Touches
  <2>2. th'[t].pc # "take"
    <3>1. SUFFICES ASSUME Reserve(t), th'[t].pc = "take"
                   PROVE  FALSE
      BY <1>2 DEF Touches
    <3>2. /\ Popped(t) \in Queues
          /\ count' = [count EXCEPT ![Popped(t)] = count[Popped(t)] - 1]
      BY <3>1, Reserves
    <3> QED
      BY <1>2, <1>8, <3>2
  <2>3. ASSUME NEW c \in Queues
        PROVE  /\ IsFiniteSet(Linked(c)')
               /\ (count'[c] - count[c])
                    + (Has(Counting(c)', t) - Has(Counting(c), t))
                    + (Has(Taking(c)', t) - Has(Taking(c), t))
                  = Cardinality(Linked(c)') - Cardinality(Linked(c))
    <3>1. Linked(c)' = Linked(c)
      BY <1>8 DEF Linked
    <3>2. /\ Has(Counting(c)', t) = 0 /\ Has(Counting(c), t) = 0
          /\ Has(Taking(c)', t) = 0 /\ Has(Taking(c), t) = 0
      BY <2>1, <2>2 DEF Counting, Taking, Has, At
    <3> QED
      BY <1>2, <1>3, <1>8, <3>1, <3>2
  <2> QED
    BY <1>1, <2>3, KeepsBalance
<1> QED
  BY <1>2, <1>4, <1>5, <1>6, <1>7, <1>8 DEF Touches

----------------------------------------------------------------------------
(* The walks over the queues, with one master.                             *)

\* Only a call changes what a thread does, and a helper is only called to execute or to
\* abort a job.
LEMMA KeepsOp ==
  ASSUME PoolTypes, NEW t \in Actors, Step(t), t \in Helpers
  PROVE  th'[t].op \in {th[t].op, "none", "execute", "abort"}
PROOF
<1>1. /\ th \in [Actors -> Threads] /\ th[t] \in Threads
      /\ t \in Clients /\ t \notin Masters /\ t \notin Workers
  BY PoolAssumption DEF PoolTypes, ThreadTypes, Clients, Workers
<1> USE DEF Goto
<1>2. CASE Service(t) \/ Execute(t) \/ Done(t) \/ Cleanup(t) \/ Abort(t) \/ Release(t)
           \/ PushJob(t) \/ Count(t)
  BY <1>1, <1>2 DEF Service, Enter, Execute, Done, Cleanup, Abort, Release, PushJob, Count,
    Thread, Threads
<1>3. CASE Reserve(t) \/ Take(t)
  BY <1>1, <1>3 DEF Reserve, Take, Thread, Threads
<1>4. CASE CallWorkers(t) \/ Suspended(t) \/ ResumeExecution(t) \/ Added(t) \/ Yield(t)
  BY <1>1, <1>4 DEF CallWorkers, Suspended, ResumeExecution, Added, Yield, Thread, Threads
<1>5. CASE EndWait(t) \/ Filter(t) \/ PutBack(t) \/ Scanned(t) \/ NextQueue(t)
           \/ CallExit(t) \/ Join(t)
  BY <1>1, <1>5 DEF EndWait, Filter, PutBack, Scanned, NextQueue, CallExit, Join, Thread, Threads
<1>6. CASE Scan(t)
  <2> DEFINE q == ScanQueue(th[t].pos)
  <2>1. \/ th'[t] = [th[t] EXCEPT !.queue = q, !.pc = "pop"]
        \/ th'[t] = [th[t] EXCEPT !.pos = th[t].pos + 1]
    BY <1>1, <1>6 DEF Scan
  <2> HIDE DEF q
  <2> QED
    BY <1>1, <2>1 DEF Threads
<1>7. CASE SuspendExecution(t) \/ ExecuteToPriority(t) \/ AbortAll(t) \/ Shutdown(t)
           \/ BeginResume(t)
  <2>1. (\E new : BeginSuspended(t, new)) \/ BeginResume(t)
    BY <1>7, Zenon DEF SuspendExecution, ExecuteToPriority, AbortAll, Shutdown
  <2> QED
    BY <1>1, <2>1 DEF BeginSuspended, BeginResume
<1>8. ASSUME NEW j \in Jobs,
             AddExecuted(t, j) \/ AddQueued(t, j) \/ AddSerial(t, j) \/ ChangePriority(t, j)
             \/ WaitForFinish(t, j) \/ ReleaseHandle(t, j)
      PROVE  FALSE
  BY <1>1, <1>8 DEF AddExecuted, AddQueued, AddSerial, AddJob, ChangePriority, WaitForFinish,
    ReleaseHandle
<1>9. ASSUME NEW j \in Jobs, ByHand(t, j)
      PROVE  th'[t].op \in {"execute", "abort"}
  BY <1>1, <1>9, Called DEF Fresh
<1> QED
  BY <1>1, <1>2, <1>3, <1>4, <1>5, <1>6, <1>7, <1>8, <1>9 DEF Step, ClientStep, ClientCall

LEMMA HoldingNext ==
  ASSUME PoolTypes, PoolTypes', Holding, OneMaster, PoolNext
  PROVE  Holding'
PROOF
<1>1. PICK t \in Actors : Step(t)
  BY StepOfOne
<1>2. /\ Touches(t) /\ ThreadOK(t, th[t]) /\ ThreadOK(t, th'[t])
      /\ \A u \in Actors : u # t => th'[u] = th[u]
      /\ nSuspend \in Int /\ nSuspend' \in Int /\ nSuspend >= 0
  BY <1>1, StepTouches, OneMoves DEF PoolTypes, ThreadTypes, DataTypes, Holding
<1>3. /\ Workers \subseteq Actors /\ Clients \subseteq Actors /\ Helpers \subseteq Clients
      /\ Clients \cap Workers = {} /\ Clients = Masters \cup Helpers /\ Actors = Workers \cup Clients
  BY PoolAssumption DEF Actors, Clients, Workers
<1>4. \A u \in Helpers : th'[u].op \in {"none", "execute", "abort"}
  BY <1>1, <1>2, <1>3, KeepsOp DEF Holding
<1>5. stopped' => \A w \in Workers : th'[w].pc = "gone"
  <2>1. CASE Join(t)
    <3>1. t \notin Workers
      BY <1>2, <2>1 DEF Join, At, ThreadOK, Placed, Suspending, Aborting, Executing, Servicing,
        Looking, Finishing
    <3> QED
      BY <1>2, <1>3, <2>1, <3>1 DEF Join, At
  <2>2. CASE stopped' = stopped
    BY <1>2, <1>3, <2>2 DEF Holding, Touches, At
  <2> QED
    BY <1>2, <2>1, <2>2 DEF Touches
<1>6. nSuspend' >= 0 /\ \A u \in Clients : Alone(u)' => nSuspend' > 0
  <2>1. CASE Suspended(t)
    <3>1. nSuspend' = nSuspend + 1
      BY <2>1 DEF Suspended
    <3> QED
      BY <1>2, <3>1
  <2>2. CASE ResumeExecution(t)
    <3>1. nSuspend' = nSuspend - 1 /\ th[t].pc = "resume" /\ th'[t].pc \in {"exit", "idle"}
      BY <1>2, <2>2 DEF ResumeExecution, At, Goto, Thread, Threads, PoolTypes, ThreadTypes
    <3>2. th[t].op \in {"finish", "abortAll", "shutdown", "suspend"} /\ t \notin Workers
      BY <1>2, <3>1 DEF ThreadOK, Placed, Suspending, Aborting, Executing, Servicing, Looking,
        Finishing
    <3>3. Alone(t) /\ t \in Masters
      BY <1>3, <3>1, <3>2 DEF Alone, Holding
    <3>4. nSuspend > 0
      BY <1>3, <3>3 DEF Holding
    <3>5. ASSUME NEW u \in Clients, Alone(u)'
          PROVE  FALSE
      <4>1. u \in Masters
        BY <1>3, <1>4, <3>5 DEF Alone
      <4>2. u = t
        BY <3>3, <4>1 DEF OneMaster
      <4>3. th'[t].pc = "idle" => th'[t].op = "none"
        BY <1>2 DEF ThreadOK, Placed, Suspending, Aborting, Executing, Servicing, Looking, Finishing
      <4> QED
        BY <3>1, <3>5, <4>2, <4>3 DEF Alone
    <3> QED
      BY <1>2, <3>1, <3>4, <3>5
  <2>3. CASE nSuspend' = nSuspend /\ ~ Suspended(t)
    <3>1. ASSUME NEW u \in Clients, Alone(u)'
          PROVE  nSuspend > 0
      <4>1. CASE u # t
        BY <1>2, <1>3, <3>1, <4>1 DEF Alone, Holding
      <4>2. CASE u = t /\ BeginResume(t)
        BY <4>2 DEF BeginResume
      <4>3. CASE u = t /\ ~ BeginResume(t)
        BY <1>2, <2>3, <3>1, <4>3 DEF Touches, Holding
      <4> QED
        BY <4>1, <4>2, <4>3
    <3> QED
      BY <1>2, <2>3, <3>1
  <2> QED
    BY <1>2, <2>1, <2>2, <2>3 DEF Touches
<1> QED
  BY <1>4, <1>5, <1>6 DEF Holding, At

\* While the master holds the suspension the workers rest and the helpers leave the
\* queues alone.
LEMMA OthersRest ==
  ASSUME PoolTypes, Suspension, Holding, OneMaster, NEW t \in Clients, Alone(t),
         NEW u \in Actors, u # t
  PROVE  th[u].pc \notin {"push", "count", "take"}
PROOF
<1>1. ThreadOK(u, th[u]) /\ nSuspend > 0
  BY DEF PoolTypes, ThreadTypes, Holding
<1>2. CASE u \in Workers
  <2>1. th[u].pc \in {"suspended", "gone"}
    BY <1>1, <1>2 DEF Suspension, Holding, At
  <2> QED
    BY <2>1
<1>3. CASE u \in Helpers
  <2>1. th[u].op \in {"none", "execute", "abort"}
    BY <1>3 DEF Holding
  <2> QED
    BY <1>1, <2>1 DEF ThreadOK, Placed, Suspending, Aborting, Executing, Servicing, Looking,
      Finishing
<1>4. CASE u \in Masters
  <2>1. t \in Masters
    BY DEF Alone, Holding, Clients
  <2> QED
    BY <1>4, <2>1 DEF OneMaster
<1> QED
  BY <1>2, <1>3, <1>4 DEF Actors, Clients

\* What a walk has seen is where it looked.
LEMMA ScanFinds ==
  ASSUME PoolTypes, NEW t \in Actors, th[t].op = "finish", th[t].pos <= th[t].last
  PROVE  ScanQueue(th[t].pos) \in Queues /\ ScanPriority(th[t].pos) \in Priorities
PROOF
<1>1. /\ NumWorkers \in Nat \ {0} /\ TopPriority \in Nat /\ th[t].last = LastPosition
      /\ th[t].pos \in Nat
  BY PoolAssumption DEF PoolTypes, ThreadTypes, ThreadOK, Threads
<1>2. Cardinality(Queues) = NumWorkers + 1
  <2>1. Queues = 0..NumWorkers
    BY <1>1 DEF Queues, Shared, Workers
  <2> QED
    BY <1>1, <2>1, FS_Interval
<1>3. ASSUME NEW n \in Nat, NEW c \in Nat \ {0}, NEW k \in Nat, n <= c * (k + 1) - 1
      PROVE  k - (n \div c) \in 0..k
  <2> DEFINE d == n \div c
  <2>1. d \in Nat /\ c * d <= n
    OBVIOUS
  <2> HIDE DEF d
  <2>2. d <= k
    <3>1. SUFFICES ASSUME d >= k + 1
                   PROVE  FALSE
      BY <2>1
    <3>2. PICK e \in Nat : d = (k + 1) + e
      BY <2>1, <3>1
    <3>3. c * d = c * (k + 1) + c * e /\ c * e \in Nat /\ c * (k + 1) \in Nat
      BY <3>2
    <3> QED
      BY <1>3, <2>1, <3>3
  <2>3. k - d \in 0..k
    BY <2>1, <2>2
  <2> QED
    BY <2>3 DEF d
<1>4. ScanPriority(th[t].pos) \in Priorities
  <2> DEFINE n == th[t].pos
             c == NumWorkers + 1
  <2>1. n \in Nat /\ c \in Nat \ {0} /\ n <= c * (TopPriority + 1) - 1
    BY <1>1, <1>2 DEF LastPosition
  <2>2. TopPriority - (n \div c) \in 0..TopPriority
    <3> HIDE DEF n, c
    <3> QED
      BY <1>1, <1>3, <2>1
  <2> QED
    BY <1>2, <2>2 DEF ScanPriority, Priorities
<1> QED
  BY <1>4 DEF ScanQueue, Queues, Shared

LEMMA PoppingNext ==
  ASSUME PoolTypes, Suspension, Balanced, Holding, Popping, OneMaster, PoolNext
  PROVE  Popping'
PROOF
<1>1. PICK t \in Actors : Step(t)
  BY StepOfOne
<1>2. /\ Touches(t) /\ ThreadOK(t, th[t])
      /\ \A u \in Actors : u # t => th'[u] = th[u]
      /\ th \in [Actors -> Threads] /\ th[t] \in Threads
  BY <1>1, StepTouches, OneMoves DEF PoolTypes, ThreadTypes
<1>3. Clients \subseteq Actors /\ Workers \subseteq Actors
  BY DEF Actors
<1>4. ASSUME NEW u \in Clients, th[u].pc = "pop"
      PROVE  Alone(u)
  BY <1>3, <1>4 DEF PoolTypes, ThreadTypes, ThreadOK, Placed, Suspending, Aborting, Executing,
    Servicing, Looking, Finishing, Alone
<1>5. ASSUME NEW u \in Clients, th'[u].pc = "pop"
      PROVE  \E p \in Priorities : items'[th'[u].queue][p] # <<>>
  <2>1. CASE u # t
    <3>1. th'[u] = th[u] /\ th[t].pc \notin {"push", "count", "take"}
      BY <1>2, <1>3, <1>4, <1>5, <2>1, OthersRest
    <3>2. items' = items
      BY <1>2, <3>1 DEF Touches, PushJob, Take, At
    <3> QED
      BY <1>5, <3>1, <3>2 DEF Popping, At
  <2>2. CASE u = t
    <3> DEFINE q == ScanQueue(th[t].pos)
               p == ScanPriority(th[t].pos)
    <3>1. /\ items' = items /\ th[t].pc = "scan" /\ th[t].pos <= th[t].last
          /\ \/ items[q][p] # <<>> /\ th'[t] = [th[t] EXCEPT !.queue = q, !.pc = "pop"]
             \/ th'[t] = [th[t] EXCEPT !.pos = th[t].pos + 1]
      BY <1>2, <1>5, <2>2 DEF Touches, Scan, At, queueVars
    <3>2. th[t].op = "finish"
      BY <1>2, <3>1 DEF ThreadOK, Placed, Suspending, Aborting, Executing, Servicing, Looking,
        Finishing
    <3>3. p \in Priorities
      BY <3>1, <3>2, ScanFinds
    <3> HIDE DEF q, p
    <3>4. items[q][p] # <<>> /\ th'[t].queue = q
      BY <1>2, <1>5, <2>2, <3>1 DEF Threads
    <3> QED
      BY <2>2, <3>1, <3>3, <3>4
  <2> QED
    BY <2>1, <2>2
<1>6. ASSUME NEW u \in Clients, th'[u].pc = "null"
      PROVE  FALSE
  <2>1. u = t /\ Reserve(t)
    BY <1>2, <1>3, <1>6 DEF Popping, NeverServicesNull, At, Touches
  <2> DEFINE q == th[t].queue
  <2>2. th[t].pc = "pop" /\ count[q] = 0
    <3>1. count[Popped(t)] = 0 /\ Nothing(t) = "null"
          /\ th[t].pc \in {"popDirect", "popShared", "drain", "pop"}
      BY <1>6, <2>1, Reserves
    <3>2. th[t].pc = "pop"
      BY <3>1 DEF Nothing, At
    <3> QED
      BY <3>1, <3>2 DEF Popped, At
  <2>3. q \in Queues /\ count[q] \in Int
    BY <1>2 DEF PoolTypes, DataTypes, Threads
  <2>4. \A v \in Actors : th[v].pc \notin {"count", "take"}
    BY <1>4, <2>1, <2>2, OthersRest
  <2>5. Counting(q) = {} /\ Taking(q) = {}
    BY <2>4 DEF Counting, Taking, At
  <2>6. IsFiniteSet(Linked(q)) /\ Cardinality(Linked(q)) = 0
    BY <2>2, <2>3, <2>5, FS_EmptySet DEF Balanced
  <2>7. Linked(q) = {}
    BY <2>6, FS_EmptySet
  <2>8. PICK p \in Priorities : items[q][p] # <<>>
    BY <2>1, <2>2 DEF Popping, At
  <2>9. items[q][p] \in Seq(Jobs)
    BY <2>3 DEF PoolTypes, DataTypes
  <2>10. 1 \in 1..Len(items[q][p])
    BY <2>8, <2>9
  <2>11. <<p, 1>> \in Linked(q)
    BY <2>10 DEF Linked
  <2> QED
    BY <2>7, <2>11
<1> QED
  BY <1>5, <1>6 DEF Popping, NeverServicesNull, At

----------------------------------------------------------------------------
(* The theorems.                                                           *)

PoolInv ==
  PoolTypes /\ Locks /\ ServicedOnce /\ Suspension /\ References /\ Handles

LEMMA PoolStart ==
  ASSUME PoolInit
  PROVE  /\ PoolTypes /\ th \in [Actors -> Threads]
         /\ \A t \in Actors : /\ th[t].job = NoJob /\ th[t].for = NoJob /\ th[t].back = <<>>
                              /\ \/ t \in Workers /\ th[t].op = "run" /\ th[t].pc = "wait"
                                 \/ t \in Clients /\ th[t].op = "none" /\ th[t].pc = "idle"
PROOF
<1>1. /\ NumWorkers \in Nat \ {0} /\ TopPriority \in Nat /\ MaxSuspends \in Nat
      /\ NoJob \notin Jobs /\ Workers \cap Clients = {}
  BY PoolAssumption DEF Workers, Clients
<1>2. DataTypes
  <2>1. /\ 0 \in Priorities /\ 0 \in 0..MaxSuspends /\ "none" \in Statuses
        /\ NumWorkers \in Int
    BY <1>1 DEF Priorities, Statuses
  <2>2. /\ status \in [Jobs -> Statuses] /\ priority \in [Jobs -> Priorities]
        /\ refs \in [Jobs -> Int] /\ runs \in [Jobs -> Nat]
        /\ lock \in [Jobs -> Actors \cup {NoThread}] /\ suspender \in Actors \cup {NoThread}
    BY <2>1 DEF PoolInit
  <2>3. /\ items \in [Queues -> [Priorities -> Seq(Jobs)]] /\ count \in [Queues -> Int]
        /\ serial \in Seq(Jobs) /\ complete \subseteq Jobs /\ handle \subseteq Jobs
    BY DEF PoolInit
  <2>4. /\ call \in [Workers -> {"none", "suspend", "exit"}]
        /\ idle \in Int /\ nSuspend \in Int /\ suspends \in 0..MaxSuspends
    BY <2>1 DEF PoolInit
  <2>5. running \in [Workers -> BOOLEAN] /\ stopped \in BOOLEAN
    BY Zenon DEF PoolInit
  <2> QED
    BY <2>2, <2>3, <2>4, <2>5 DEF DataTypes
<1> DEFINE r == Thread("run", "wait")
           c == Thread("none", "idle")
<1>3. /\ r \in Threads /\ r.op = "run" /\ r.pc = "wait" /\ r.job = NoJob /\ r.for = NoJob
      /\ r.back = <<>>
      /\ c \in Threads /\ c.op = "none" /\ c.pc = "idle" /\ c.job = NoJob /\ c.for = NoJob
      /\ c.back = <<>>
  BY NewThread DEF Ops, JobPlaces, OtherPlaces
<1>4. th = [t \in Actors |-> IF t \in Workers THEN r ELSE c]
  BY DEF PoolInit, Actors
<1> HIDE DEF r, c
<1>5. th \in [Actors -> Threads] /\ \A t \in Actors : th[t] = IF t \in Workers THEN r ELSE c
  BY <1>3, <1>4
<1>6. \A t \in Actors : ThreadOK(t, th[t])
  BY <1>1, <1>3, <1>5 DEF ThreadOK, Placed, Looking, JobPlaces
<1> QED
  BY <1>2, <1>3, <1>5, <1>6 DEF PoolTypes, ThreadTypes, Actors

LEMMA InitInv == PoolInit => PoolInv
PROOF
<1> SUFFICES ASSUME PoolInit
             PROVE  PoolInv
  OBVIOUS
<1>1. /\ PoolTypes /\ th \in [Actors -> Threads]
      /\ \A t \in Actors : /\ th[t].job = NoJob /\ th[t].for = NoJob /\ th[t].back = <<>>
                           /\ \/ t \in Workers /\ th[t].op = "run" /\ th[t].pc = "wait"
                              \/ t \in Clients /\ th[t].op = "none" /\ th[t].pc = "idle"
  BY PoolStart
<1>2. /\ NoJob \notin Jobs /\ NoThread \notin Actors
      /\ Workers \subseteq Actors
  BY PoolAssumption DEF Actors, Workers, Clients
<1>3. Locks
  BY <1>1, <1>2 DEF PoolInit, Locks, InJob, Job, At
<1>4. ServicedOnce
  BY DEF PoolInit, ServicedOnce
<1>5. Suspension
  BY DEF PoolInit, Suspension
<1>6. Handles
  BY <1>1, <1>2 DEF Handles, HandleOps, At
<1>7. ASSUME NEW j \in Jobs
      PROVE  RefsOf(j)
  <2>1. Takers(j) = {}
    BY <1>1, <1>2 DEF Takers, Job
  <2>2. Queued(j) = {}
    <3>1. \A q \in Queues, p \in Priorities : items[q][p] = <<>>
      BY DEF PoolInit
    <3>2. ASSUME NEW q \in Queues, NEW p \in Priorities
          PROVE  1..Len(items[q][p]) = {}
      BY <3>1
    <3> QED
      BY <3>2 DEF Queued
  <2>3. PutAside(j) = {}
    <3>1. ASSUME NEW t \in Actors
          PROVE  1..Len(th[t].back) = {}
      BY <1>1
    <3> QED
      BY <3>1 DEF PutAside
  <2>4. refs[j] = 0 /\ Has(handle, j) = 0 /\ Has(Actors, lock[j]) = 0
    BY <1>2 DEF PoolInit, Has
  <2>5. IsFiniteSet({}) /\ Cardinality({}) = 0
    BY FS_EmptySet
  <2> HIDE DEF PoolInit
  <2> QED
    BY <2>1, <2>2, <2>3, <2>4, <2>5 DEF RefsOf
<1>8. References
  BY <1>7 DEF References, PoolInit
<1> QED
  BY <1>1, <1>3, <1>4, <1>5, <1>6, <1>8 DEF PoolInv

LEMMA NextInv ==
  ASSUME PoolInv, PoolNext
  PROVE  PoolInv'
PROOF
<1>1. PoolTypes'
  BY DataNext, ThreadsNext DEF PoolInv, PoolTypes, ThreadTypes
<1>2. Locks' /\ ServicedOnce'
  BY LocksNext DEF PoolInv
<1>3. Suspension'
  BY SuspensionNext DEF PoolInv
<1>4. References'
  BY ReferencesNext DEF PoolInv
<1>5. Handles'
  BY HandlesNext DEF PoolInv
<1> QED
  BY <1>1, <1>2, <1>3, <1>4, <1>5 DEF PoolInv

LEMMA StutterInv ==
  ASSUME PoolInv, UNCHANGED poolVars
  PROVE  PoolInv'
PROOF
<1>1. /\ status' = status /\ priority' = priority /\ refs' = refs /\ lock' = lock
      /\ complete' = complete /\ handle' = handle /\ runs' = runs /\ serial' = serial
      /\ items' = items /\ count' = count /\ idle' = idle /\ call' = call
      /\ running' = running /\ stopped' = stopped /\ nSuspend' = nSuspend
      /\ suspender' = suspender /\ suspends' = suspends /\ th' = th
  BY DEF poolVars, jobVars, queueVars, workerVars, suspendVars
<1>2. PoolTypes'
  BY <1>1 DEF PoolInv, PoolTypes, DataTypes, ThreadTypes
<1>3. Locks' /\ ServicedOnce'
  BY <1>1 DEF PoolInv, Locks, ServicedOnce, Job, At
<1>4. Suspension'
  BY <1>1 DEF PoolInv, Suspension, At
<1>5. References'
  BY <1>1 DEF PoolInv, References, RefsOf, Takers, Queued, PutAside, Job
<1>6. Handles'
  BY <1>1 DEF PoolInv, Handles, Job, At
<1> QED
  BY <1>2, <1>3, <1>4, <1>5, <1>6 DEF PoolInv

LEMMA PoolInvariant == PoolSpec => []PoolInv
PROOF
<1>1. PoolInv /\ [PoolNext]_poolVars => PoolInv'
  BY NextInv, StutterInv
<1> QED
  BY <1>1, InitInv, PTL DEF PoolSpec

\* Every field of every thread keeps its type, and a thread is only ever at a step of
\* what it was called for, with a job exactly where the step needs one.
THEOREM PoolTypesHold == PoolSpec => []PoolTypes
PROOF
<1>1. PoolInv => PoolTypes
  BY DEF PoolInv
<1> QED
  BY <1>1, PoolInvariant, PTL

\* CJob::Execute and ServiceJobAndRelease: however many threads get at a job, through
\* the queues or by its handle, DoExecute is called at most once, and never for a job
\* that was aborted.
THEOREM JobRunsOnce == PoolSpec => []ServicedOnce
PROOF
<1>1. PoolInv => ServicedOnce
  BY DEF PoolInv
<1> QED
  BY <1>1, PoolInvariant, PTL

\* CThreadPool::SuspendExecution: from its return until ResumeExecution, every worker
\* waits in CThread::Suspend, whoever else suspends and resumes the pool.
THEOREM SuspendedIsIdle == PoolSpec => []SuspendedMeansIdle
PROOF
<1>1. PoolInv => SuspendedMeansIdle
  BY DEF PoolInv, Suspension, SuspendedMeansIdle
<1> QED
  BY <1>1, PoolInvariant, PTL

\* CRefCounted of a job: the last Release comes when no queue, no thread and no handle
\* leads to the job any more.
THEOREM JobsOutliveUse == PoolSpec => []NobodyHasFreed
PROOF
<1>1. ASSUME PoolInv
      PROVE  NobodyHasFreed
  <2>1. SUFFICES ASSUME NEW j \in Jobs, refs[j] = 0
                 PROVE  /\ j \notin handle
                        /\ \A q \in Queues, p \in Priorities : Copies(j, items[q][p]) = 0
                        /\ \A t \in Actors : /\ Job(t) # j /\ th[t].for # j
                                             /\ Copies(j, th[t].back) = 0
    BY DEF NobodyHasFreed, Actors
  <2>2. PoolTypes /\ RefsOf(j) /\ Handles /\ NoJob \notin Jobs
    BY <1>1, PoolAssumption DEF PoolInv, References
  <2>3. j \notin handle /\ Takers(j) = {} /\ Queued(j) = {} /\ PutAside(j) = {}
    BY <2>1, <2>2, Counted
  <2>4. Cardinality({}) = 0
    BY FS_EmptySet
  <2>5. ASSUME NEW q \in Queues, NEW p \in Priorities
        PROVE  Copies(j, items[q][p]) = 0
    <3>1. items[q][p] \in Seq(Jobs)
      BY <2>2 DEF PoolTypes, DataTypes
    <3>2. ASSUME NEW i \in DOMAIN items[q][p], items[q][p][i] = j
          PROVE  FALSE
      <4>1. i \in 1..Len(items[q][p]) /\ i \in Nat
        BY <3>1
      <4>2. <<<<q, p>>, i>> \in Queued(j)
        BY <3>2, <4>1 DEF Queued
      <4> QED
        BY <2>3, <4>2
    <3>3. {i \in DOMAIN items[q][p] : items[q][p][i] = j} = {}
      BY <3>2
    <3> QED
      BY <2>4, <3>3 DEF Copies
  <2>6. ASSUME NEW t \in Actors
        PROVE  Job(t) # j /\ th[t].for # j /\ Copies(j, th[t].back) = 0
    <3>1. ThreadOK(t, th[t]) /\ th[t].back \in Seq(Jobs)
      BY <2>2 DEF PoolTypes, ThreadTypes, Threads
    <3>2. Job(t) # j
      BY <2>2, <2>3 DEF Handles, Takers
    <3>3. th[t].for # j
      BY <2>2, <2>3, <3>1 DEF Handles, ThreadOK
    <3>4. ASSUME NEW i \in DOMAIN th[t].back, th[t].back[i] = j
          PROVE  FALSE
      <4>1. i \in 1..Len(th[t].back) /\ i \in Nat
        BY <3>1
      <4>2. <<t, i>> \in PutAside(j)
        BY <3>4, <4>1 DEF PutAside
      <4> QED
        BY <2>3, <4>2
    <3>5. {i \in DOMAIN th[t].back : th[t].back[i] = j} = {}
      BY <3>4
    <3> QED
      BY <2>4, <3>2, <3>3, <3>5 DEF Copies
  <2> QED
    BY <2>3, <2>5, <2>6
<1> QED
  BY <1>1, PoolInvariant, PTL

\* What holds of the walks of one master.
WalkInv == Balanced /\ Holding /\ Popping

LEMMA InitWalk == PoolInit => WalkInv
PROOF
<1> SUFFICES ASSUME PoolInit
             PROVE  WalkInv
  OBVIOUS
<1>1. /\ th \in [Actors -> Threads]
      /\ \A t \in Actors : \/ t \in Workers /\ th[t].op = "run" /\ th[t].pc = "wait"
                           \/ t \in Clients /\ th[t].op = "none" /\ th[t].pc = "idle"
      /\ Workers \cap Clients = {}
  BY PoolStart, PoolAssumption DEF Workers, Clients
<1>2. Balanced
  <2>1. SUFFICES ASSUME NEW q \in Queues
                 PROVE  Linked(q) = {} /\ Counting(q) = {} /\ Taking(q) = {} /\ count[q] = 0
    BY FS_EmptySet DEF Balanced
  <2>2. Counting(q) = {} /\ Taking(q) = {}
    BY <1>1 DEF Counting, Taking, At
  <2>3. Linked(q) = {}
    <3>1. \A p \in Priorities : items[q][p] = <<>>
      BY DEF PoolInit
    <3>2. ASSUME NEW p \in Priorities
          PROVE  1..Len(items[q][p]) = {}
      BY <3>1
    <3> QED
      BY <3>2 DEF Linked
  <2> QED
    BY <2>2, <2>3 DEF PoolInit
<1>3. nSuspend = 0 /\ stopped = FALSE
  BY DEF PoolInit
<1>4. Holding
  BY <1>1, <1>3 DEF Holding, Alone, Actors, Clients
<1>5. Popping
  BY <1>1 DEF Popping, NeverServicesNull, At, Actors
<1> QED
  BY <1>2, <1>4, <1>5 DEF WalkInv

\* ExecuteToPriority: what the count of a queue promises the walk of the only thread that
\* gives the pool work, a Pop of it returns; pJob is never NULL.
THEOREM WalkServicesJobs ==
  ASSUME OneMaster
  PROVE  PoolSpec => []NeverServicesNull
PROOF
<1>1. PoolInit => PoolInv /\ WalkInv
  BY InitInv, InitWalk
<1>2. ASSUME PoolInv, WalkInv, PoolNext
      PROVE  PoolInv' /\ WalkInv'
  <2>1. PoolInv' /\ PoolTypes /\ PoolTypes' /\ Suspension
    BY <1>2, NextInv DEF PoolInv
  <2>2. Balanced'
    BY <1>2, <2>1, BalancedNext DEF WalkInv
  <2>3. Holding'
    BY <1>2, <2>1, HoldingNext DEF WalkInv
  <2>4. Popping'
    BY <1>2, <2>1, PoppingNext DEF WalkInv
  <2> QED
    BY <2>1, <2>2, <2>3, <2>4 DEF WalkInv
<1>3. ASSUME PoolInv, WalkInv, UNCHANGED poolVars
      PROVE  PoolInv' /\ WalkInv'
  <2>1. PoolInv'
    BY <1>3, StutterInv
  <2>2. items' = items /\ count' = count /\ nSuspend' = nSuspend /\ stopped' = stopped /\ th' = th
    BY <1>3 DEF poolVars, queueVars, workerVars, suspendVars
  <2>3. Balanced'
    BY <1>3, <2>2 DEF WalkInv, Balanced, Linked, Counting, Taking, At
  <2>4. Holding'
    BY <1>3, <2>2 DEF WalkInv, Holding, Alone, At
  <2>5. Popping'
    BY <1>3, <2>2 DEF WalkInv, Popping, NeverServicesNull, At
  <2> QED
    BY <2>1, <2>3, <2>4, <2>5 DEF WalkInv
<1>4. PoolInv /\ WalkInv /\ [PoolNext]_poolVars => (PoolInv /\ WalkInv)'
  BY <1>2, <1>3
<1>5. WalkInv => NeverServicesNull
  BY DEF WalkInv, Popping
<1> QED
  BY <1>1, <1>4, <1>5, PTL DEF PoolSpec
====
