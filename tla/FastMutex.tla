---- MODULE FastMutex ----
(***************************************************************************)
(* CThreadFastMutex (public/tier0/threadtools.h), the spinning mutex a     *)
(* thread may lock again while it owns it: one step for each access to     *)
(* m_ownerID and m_depth.                                                  *)
(***************************************************************************)
EXTENDS Naturals

CONSTANTS
  Lockers,    \* the threads that use the lock
  NoOne,      \* the thread id 0
  MaxDepth    \* bound: how often a thread locks what it owns already

ASSUME NoOneAssumption == NoOne \notin Lockers
ASSUME DepthAssumption == MaxDepth \in Nat \ {0}

VARIABLES
  mOwner,     \* m_ownerID
  mDepth,     \* m_depth
  mPc,        \* mPc[t]: where thread t is
  mNest       \* history: mNest[t], calls of Lock by t that returned, less those of Unlock

mVars == <<mOwner, mDepth, mPc, mNest>>

MutexInit ==
  /\ mOwner = NoOne
  /\ mDepth = 0
  /\ mPc = [t \in Lockers |-> "idle"]
  /\ mNest = [t \in Lockers |-> 0]

MutexGoto(t, p) == mPc' = [mPc EXCEPT ![t] = p]

\* Lock or TryLock is called.
LockMutex(t) ==
  /\ mPc[t] = "idle"
  /\ mNest[t] < MaxDepth
  /\ MutexGoto(t, "test")
  /\ UNCHANGED <<mOwner, mDepth, mNest>>

\* threadId != m_ownerID
TestOwner(t) ==
  /\ mPc[t] = "test"
  /\ MutexGoto(t, IF mOwner = t THEN "deepen" ELSE "claim")
  /\ UNCHANGED <<mOwner, mDepth, mNest>>

\* ThreadInterlockedAssignIf( &m_ownerID, threadId, 0 ): when it fails Lock tries
\* again and TryLock answers false.
ClaimMutex(t) ==
  /\ mPc[t] = "claim"
  /\ IF mOwner = NoOne
     THEN mOwner' = t /\ MutexGoto(t, "deepen")
     ELSE mOwner' = mOwner /\ \E p \in {"test", "idle"} : MutexGoto(t, p)
  /\ UNCHANGED <<mDepth, mNest>>

\* ++m_depth
Deepen(t) ==
  /\ mPc[t] = "deepen"
  /\ mDepth' = mDepth + 1
  /\ mNest' = [mNest EXCEPT ![t] = @ + 1]
  /\ MutexGoto(t, "idle")
  /\ UNCHANGED mOwner

\* Mutant: the owner is cleared with every Unlock.
UnlockAtOnce(t) ==
  /\ mPc[t] = "idle"
  /\ mNest[t] > 0
  /\ mDepth' = mDepth - 1
  /\ mNest' = [mNest EXCEPT ![t] = @ - 1]
  /\ MutexGoto(t, "release")
  /\ UNCHANGED mOwner

\* --m_depth
UnlockMutex(t) ==
  /\ mPc[t] = "idle"
  /\ mNest[t] > 0
  /\ mDepth' = mDepth - 1
  /\ mNest' = [mNest EXCEPT ![t] = @ - 1]
  /\ MutexGoto(t, IF mDepth - 1 = 0 THEN "release" ELSE "idle")
  /\ UNCHANGED mOwner

\* ThreadInterlockedExchange( &m_ownerID, 0 )
ReleaseMutex(t) ==
  /\ mPc[t] = "release"
  /\ mOwner' = NoOne
  /\ MutexGoto(t, "idle")
  /\ UNCHANGED <<mDepth, mNest>>

MutexRun(t) == TestOwner(t) \/ ClaimMutex(t) \/ Deepen(t) \/ ReleaseMutex(t)

MutexNext == \E t \in Lockers : MutexRun(t) \/ LockMutex(t) \/ UnlockMutex(t)

MutexSpec == MutexInit /\ [][MutexNext]_mVars

----------------------------------------------------------------------------
\* Only one thread is between Lock and Unlock, and m_depth, which is not
\* written with an interlocked instruction, counts its calls: the mutex is
\* neither given away by an inner Unlock nor kept by the outer one.
MutexExclusion ==
  /\ \A t, u \in Lockers : mNest[t] > 0 /\ mNest[u] > 0 => t = u
  /\ \A t \in Lockers : mNest[t] > 0 => mOwner = t /\ mDepth = mNest[t]
====
