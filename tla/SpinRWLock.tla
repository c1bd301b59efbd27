---- MODULE SpinRWLock ----
(***************************************************************************)
(* CThreadSpinRWLock (public/tier0/threadtools.h) as it is built, without  *)
(* REENTRANT_THREAD_SPIN_RW_LOCK: a word whose low 16 bits count readers   *)
(* and whose next bit says that a thread writes.  One step for each access *)
(* to the word; a lock that was not given is tried again or given up.      *)
(***************************************************************************)
EXTENDS Naturals, FiniteSets

CONSTANTS
  Spinners,    \* the threads that use the lock
  ReaderMod    \* the values of m_nReaders; the word ReaderMod is m_fWriting

ASSUME ReaderModAssumption == ReaderMod \in Nat
\* One reader more would carry into m_fWriting.
ASSUME SpinnersAssumption == IsFiniteSet(Spinners) /\ Cardinality(Spinners) < ReaderMod

VARIABLES
  word,      \* m_lockInfo.m_i32
  writer,    \* m_writerId, a set of at most one thread
  spinPc,    \* spinPc[t]: where thread t is
  seen       \* seen[t]: oldValue of TryLockForRead

spinVars == <<word, writer, spinPc, seen>>

SpinGoto(t, p) == spinPc' = [spinPc EXCEPT ![t] = p]

\* The two fields of a word.
Writing(w) == w >= ReaderMod
Readers(w) == w % ReaderMod

SpinInit ==
  /\ word = 0
  /\ writer = {}
  /\ spinPc = [t \in Spinners |-> "out"]
  /\ seen = [t \in Spinners |-> 0]

\* A lock that was not given: LockFor... spins, TryLockFor... answers false.
Fails(t, again) == \E p \in {again, "out"} : SpinGoto(t, p)

\* LockForWrite or TryLockForWrite is called.
SpinForWrite(t) == spinPc[t] = "out" /\ SpinGoto(t, "testWrite") /\ UNCHANGED <<word, writer, seen>>

\* !( curValue.m_i32 & 0x00010000 )
TestForWrite(t) ==
  /\ spinPc[t] = "testWrite"
  /\ IF Writing(word) THEN Fails(t, "testWrite") ELSE SpinGoto(t, "swapWrite")
  /\ UNCHANGED <<word, writer, seen>>

\* ThreadInterlockedAssignIf( &curValue.m_i32, 0x00010000, 0 )
SwapForWrite(t) ==
  /\ spinPc[t] = "swapWrite"
  /\ IF word = 0
     THEN word' = ReaderMod /\ SpinGoto(t, "sign")
     ELSE word' = word /\ Fails(t, "testWrite")
  /\ UNCHANGED <<writer, seen>>

\* m_writerId = ThreadGetCurrentId()
SignForWrite(t) ==
  /\ spinPc[t] = "sign"
  /\ writer' = {t}
  /\ SpinGoto(t, "writing")
  /\ UNCHANGED <<word, seen>>

\* UnlockWrite: m_writerId = 0
UnsignForWrite(t) ==
  /\ spinPc[t] = "writing"
  /\ writer' = {}
  /\ SpinGoto(t, "clear")
  /\ UNCHANGED <<word, seen>>

\* Mutant: the wrong half of the word is cleared.
ClearReaders(t) ==
  /\ spinPc[t] = "clear"
  /\ word' = word - Readers(word)
  /\ SpinGoto(t, "out")
  /\ UNCHANGED <<writer, seen>>

\* UnlockWrite: m_lockInfo.m_i32 = 0
ClearWord(t) ==
  /\ spinPc[t] = "clear"
  /\ word' = 0
  /\ SpinGoto(t, "out")
  /\ UNCHANGED <<writer, seen>>

\* LockForRead or TryLockForRead is called.
SpinForRead(t) == spinPc[t] = "out" /\ SpinGoto(t, "testRead") /\ UNCHANGED <<word, writer, seen>>

\* !( curValue.m_i32 & 0x00010000 )
TestForRead(t) ==
  /\ spinPc[t] = "testRead"
  /\ IF Writing(word) THEN Fails(t, "testRead") ELSE SpinGoto(t, "loadRead")
  /\ UNCHANGED <<word, writer, seen>>

\* Mutant: the flag is not masked out of the second read.
LoadUnmasked(t) ==
  /\ spinPc[t] = "loadRead"
  /\ seen' = [seen EXCEPT ![t] = word]
  /\ SpinGoto(t, "swapRead")
  /\ UNCHANGED <<word, writer>>

\* oldValue.m_i32 = curValue.m_i32 & 0xffff: the word is read a second time.
LoadForRead(t) ==
  /\ spinPc[t] = "loadRead"
  /\ seen' = [seen EXCEPT ![t] = Readers(word)]
  /\ SpinGoto(t, "swapRead")
  /\ UNCHANGED <<word, writer>>

\* ThreadInterlockedAssignIf( &m_lockInfo.m_i32, oldValue + 1, oldValue )
SwapForRead(t) ==
  /\ spinPc[t] = "swapRead"
  /\ IF word = seen[t]
     THEN word' = word + 1 /\ SpinGoto(t, "reading")
     ELSE word' = word /\ Fails(t, "testRead")
  /\ seen' = [seen EXCEPT ![t] = 0]
  /\ UNCHANGED writer

\* UnlockRead: ThreadInterlockedDecrement( &m_lockInfo.m_i32 )
SpinUnlockRead(t) ==
  /\ spinPc[t] = "reading"
  /\ word' = word - 1
  /\ SpinGoto(t, "out")
  /\ UNCHANGED <<writer, seen>>

\* What a thread does from its call until it has unlocked.
SpinRun(t) ==
  \/ TestForWrite(t)
  \/ SwapForWrite(t)
  \/ SignForWrite(t)
  \/ UnsignForWrite(t)
  \/ ClearWord(t)
  \/ TestForRead(t)
  \/ LoadForRead(t)
  \/ SwapForRead(t)
  \/ SpinUnlockRead(t)

SpinNext == \E t \in Spinners : SpinRun(t) \/ SpinForWrite(t) \/ SpinForRead(t)

SpinSpec == SpinInit /\ [][SpinNext]_spinVars

----------------------------------------------------------------------------
\* The threads at a place of the code.
SpinAt(P) == {t \in Spinners : spinPc[t] \in P}

\* Threads that have, or have not yet given back, the lock for writing.
Owners == SpinAt({"sign", "writing", "clear"})

\* One writer alone or any number of readers; and the word is the number of readers
\* and the writer, and m_writerId is that writer: the plain store that unlocks loses
\* nobody's count, and a thread that finds its own id in m_writerId does write.
SpinExclusion ==
  /\ \A t \in Owners, u \in Spinners : spinPc[u] = "reading" \/ u \in Owners => t = u
  /\ word = Cardinality(SpinAt({"reading"})) + ReaderMod * Cardinality(Owners)
  /\ writer = SpinAt({"writing"})

\* While threads go on asking for the lock it goes on being given: no
\* interleaving of tries that fail keeps every thread out.
Given(t) == spinPc[t] \in {"swapWrite", "swapRead"} /\ spinPc'[t] \in {"sign", "reading"}
SpinProgress ==
  []<>(SpinAt({"out", "reading"} \cup {"sign", "writing", "clear"}) = Spinners)
    \/ []<><<\E t \in Spinners : Given(t)>>_spinVars
====
