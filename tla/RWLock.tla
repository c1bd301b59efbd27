---- MODULE RWLock ----
(***************************************************************************)
(* CThreadRWLock (public/tier0/threadtools.h, tier0/threadtools.cpp): a    *)
(* readers-writer lock made of a mutex and two events.  What is done under *)
(* m_mutex is one step; a thread that waits for an event has left it.      *)
(***************************************************************************)
EXTENDS Naturals, FiniteSets

CONSTANT Sharers    \* the threads that use the lock

ASSUME SharersAssumption == IsFiniteSet(Sharers)

VARIABLES
  rwWriters,    \* m_nWriters: threads that write or wait to
  rwActive,     \* m_nActiveReaders
  rwPending,    \* m_nPendingReaders
  rwCanRead,    \* m_CanRead is set; stays set until Reset
  rwCanWrite,   \* m_CanWrite is set; a wait that succeeds resets it
  rwPc          \* rwPc[t]: where thread t is

rwVars == <<rwWriters, rwActive, rwPending, rwCanRead, rwCanWrite, rwPc>>

RWAt(p) == {t \in Sharers : rwPc[t] = p}

RWGoto(t, p) == rwPc' = [rwPc EXCEPT ![t] = p]

RWInit ==
  /\ rwWriters = 0
  /\ rwActive = 0
  /\ rwPending = 0
  /\ rwCanRead = FALSE
  /\ rwCanWrite = FALSE
  /\ rwPc = [t \in Sharers |-> "out"]

\* Mutant: a reader passes while nobody writes yet.
LockForReadAhead(t) ==
  /\ rwPc[t] = "out"
  /\ IF rwWriters # 0 /\ RWAt("writing") # {}
     THEN /\ rwPending' = rwPending + 1
          /\ RWGoto(t, "waitRead")
          /\ UNCHANGED rwActive
     ELSE /\ rwActive' = rwActive + 1
          /\ RWGoto(t, "reading")
          /\ UNCHANGED rwPending
  /\ UNCHANGED <<rwWriters, rwCanRead, rwCanWrite>>

\* LockForRead, up to the wait of WaitForRead.
LockForRead(t) ==
  /\ rwPc[t] = "out"
  /\ IF rwWriters # 0
     THEN /\ rwPending' = rwPending + 1
          /\ RWGoto(t, "waitRead")
          /\ UNCHANGED rwActive
     ELSE /\ rwActive' = rwActive + 1
          /\ RWGoto(t, "reading")
          /\ UNCHANGED rwPending
  /\ UNCHANGED <<rwWriters, rwCanRead, rwCanWrite>>

\* Mutant: m_CanRead is an event that wakes one thread.
WakeOneReader(t) ==
  /\ rwPc[t] = "waitRead"
  /\ rwCanRead
  /\ rwCanRead' = FALSE
  /\ RWGoto(t, "wokenRead")
  /\ UNCHANGED <<rwWriters, rwActive, rwPending, rwCanWrite>>

\* m_CanRead.Wait() returns; m_mutex is not locked yet.
WakeReader(t) ==
  /\ rwPc[t] = "waitRead"
  /\ rwCanRead
  /\ RWGoto(t, "wokenRead")
  /\ UNCHANGED <<rwWriters, rwActive, rwPending, rwCanRead, rwCanWrite>>

\* while ( m_nWriters ), and the end of LockForRead.
RecheckReader(t) ==
  /\ rwPc[t] = "wokenRead"
  /\ IF rwWriters # 0
     THEN /\ RWGoto(t, "waitRead")
          /\ UNCHANGED <<rwPending, rwActive>>
     ELSE /\ rwPending' = rwPending - 1
          /\ rwActive' = rwActive + 1
          /\ RWGoto(t, "reading")
  /\ UNCHANGED <<rwWriters, rwCanRead, rwCanWrite>>

UnlockRead(t) ==
  /\ rwPc[t] = "reading"
  /\ rwActive' = rwActive - 1
  /\ rwCanWrite' = (rwCanWrite \/ (rwActive - 1 = 0 /\ rwWriters # 0))
  /\ RWGoto(t, "out")
  /\ UNCHANGED <<rwWriters, rwPending, rwCanRead>>

\* LockForWrite, up to the wait for m_CanWrite.
LockForWrite(t) ==
  /\ rwPc[t] = "out"
  /\ RWGoto(t, IF rwWriters # 0 \/ rwActive # 0 THEN "waitWrite" ELSE "writing")
  /\ rwWriters' = rwWriters + 1
  /\ rwCanRead' = FALSE
  /\ UNCHANGED <<rwActive, rwPending, rwCanWrite>>

\* m_CanWrite.Wait() returns.
WakeWriter(t) ==
  /\ rwPc[t] = "waitWrite"
  /\ rwCanWrite
  /\ rwCanWrite' = FALSE
  /\ RWGoto(t, "writing")
  /\ UNCHANGED <<rwWriters, rwActive, rwPending, rwCanRead>>

\* Mutant: with readers waiting the next writer is not woken.
UnlockWriteToReaders(t) ==
  /\ rwPc[t] = "writing"
  /\ rwWriters' = rwWriters - 1
  /\ rwCanRead' = (rwCanRead \/ rwPending # 0)
  /\ rwCanWrite' = (rwCanWrite \/ (rwPending = 0 /\ rwWriters - 1 # 0))
  /\ RWGoto(t, "out")
  /\ UNCHANGED <<rwActive, rwPending>>

UnlockWrite(t) ==
  /\ rwPc[t] = "writing"
  /\ rwWriters' = rwWriters - 1
  /\ rwCanRead' = (rwCanRead \/ (rwWriters - 1 = 0 /\ rwPending # 0))
  /\ rwCanWrite' = (rwCanWrite \/ rwWriters - 1 # 0)
  /\ RWGoto(t, "out")
  /\ UNCHANGED <<rwActive, rwPending>>

\* What a thread that has called LockForRead or LockForWrite does until it has
\* called the unlock that goes with it.
RWRun(t) ==
  \/ WakeReader(t)
  \/ RecheckReader(t)
  \/ UnlockRead(t)
  \/ WakeWriter(t)
  \/ UnlockWrite(t)

RWNext == \E t \in Sharers : RWRun(t) \/ LockForRead(t) \/ LockForWrite(t)

RWSpec == RWInit /\ [][RWNext]_rwVars

----------------------------------------------------------------------------
\* Threads write one at a time and no other reads meanwhile, and the right to write
\* is in one place as long as writers are counted: a writer has it, or m_CanWrite
\* offers it, or the last reader will set that event.  Were it twice there, two
\* writers would meet; were it nowhere, the writers would wait for ever, and the
\* readers behind them.
OneRightToWrite ==
  /\ rwActive = Cardinality(RWAt("reading"))
  /\ Cardinality(RWAt("writing")) + (IF rwCanWrite THEN 1 ELSE 0)
       = IF rwWriters # 0 /\ rwActive = 0 THEN 1 ELSE 0

\* As long as threads wait to write, one after the other gets to, however many
\* readers come; which of them the event wakes is not promised.
WritersGetIn ==
  <>[](RWAt("waitWrite") # {}) => []<><<\E t \in Sharers : WakeWriter(t)>>_rwVars

\* A thread that waits to read does so in the end, unless writers keep coming.
ReadersGetIn ==
  \A t \in Sharers : (rwPc[t] = "waitRead" ~> rwPc[t] = "reading") \/ []<>(rwWriters # 0)
====
