----------------------------- MODULE LockProofs -----------------------------
(***************************************************************************)
(* Proofs about the locks: CThreadFastMutex, CThreadRWLock and             *)
(* CThreadSpinRWLock exclude, for any number of threads (for the last, any *)
(* number that the count of readers in its word has room for), and         *)
(* CThreadRWLock never loses or doubles the right to write.                *)
(***************************************************************************)
EXTENDS FastMutex, RWLock, SpinRWLock, Integers, FiniteSetTheorems, TLAPS

----------------------------------------------------------------------------
(* CThreadFastMutex *)

Places == {"idle", "test", "claim", "deepen", "release"}

MutexTypes ==
  /\ mOwner \in Lockers \cup {NoOne}
  /\ mDepth \in Nat
  /\ mPc \in [Lockers -> Places]
  /\ mNest \in [Lockers -> Nat]

\* A thread that has the lock, or is about to count m_depth up or to clear
\* m_ownerID, is m_ownerID; m_depth is that thread's, and zero without one.
OwnerInv ==
  /\ \A t \in Lockers : mNest[t] > 0 \/ mPc[t] \in {"deepen", "release"} => mOwner = t
  /\ \A t \in Lockers : mOwner = t => mDepth = mNest[t]
  /\ \A t \in Lockers : mPc[t] \in {"claim", "release"} => mNest[t] = 0
  /\ mOwner = NoOne => mDepth = 0

MutexInv == MutexTypes /\ OwnerInv

(* A mutex nobody has has no owner and no depth. *)
LEMMA MutexInitInv ==
  ASSUME MutexInit
  PROVE  MutexInv
BY NoOneAssumption DEF MutexInit, MutexInv, MutexTypes, OwnerInv, Places

(* The steps between m_ownerID and m_depth: only the owner makes them. *)
LEMMA MutexNextInv ==
  ASSUME MutexInv, MutexNext
  PROVE  MutexInv'
PROOF
<1>1. PICK t \in Lockers : MutexRun(t) \/ LockMutex(t) \/ UnlockMutex(t)
  BY DEF MutexNext
<1>2. CASE LockMutex(t)
  BY <1>2 DEF LockMutex, MutexGoto, MutexInv, MutexTypes, OwnerInv, Places
<1>3. CASE TestOwner(t)
  BY <1>3 DEF TestOwner, MutexGoto, MutexInv, MutexTypes, OwnerInv, Places
<1>4. CASE ClaimMutex(t)
  <2>1. CASE mOwner = NoOne
    <3>1. \A u \in Lockers : mNest[u] = 0 /\ mPc[u] \notin {"deepen", "release"}
      BY <2>1, NoOneAssumption DEF MutexInv, MutexTypes, OwnerInv
    <3> QED
      BY <1>4, <2>1, <3>1, NoOneAssumption
      DEF ClaimMutex, MutexGoto, MutexInv, MutexTypes, OwnerInv, Places
  <2>2. CASE mOwner # NoOne
    BY <1>4, <2>2 DEF ClaimMutex, MutexGoto, MutexInv, MutexTypes, OwnerInv, Places
  <2> QED
    BY <2>1, <2>2
<1>5. CASE Deepen(t)
  <2>1. mOwner = t /\ mDepth = mNest[t]
    BY <1>5 DEF Deepen, MutexInv, OwnerInv
  <2> QED
    BY <1>5, <2>1, NoOneAssumption
    DEF Deepen, MutexGoto, MutexInv, MutexTypes, OwnerInv, Places
<1>6. CASE UnlockMutex(t)
  <2>1. mOwner = t /\ mDepth = mNest[t] /\ mNest[t] > 0
    BY <1>6 DEF UnlockMutex, MutexInv, OwnerInv
  <2> QED
    BY <1>6, <2>1, NoOneAssumption
    DEF UnlockMutex, MutexGoto, MutexInv, MutexTypes, OwnerInv, Places
<1>7. CASE ReleaseMutex(t)
  <2>1. mOwner = t /\ mDepth = 0
    BY <1>7 DEF ReleaseMutex, MutexInv, OwnerInv
  <2>2. \A u \in Lockers : mNest[u] = 0
    BY <1>7, <2>1 DEF ReleaseMutex, MutexInv, MutexTypes, OwnerInv
  <2> QED
    BY <1>7, <2>1, <2>2, NoOneAssumption
    DEF ReleaseMutex, MutexGoto, MutexInv, MutexTypes, OwnerInv, Places
<1> QED
  BY <1>1, <1>2, <1>3, <1>4, <1>5, <1>6, <1>7 DEF MutexRun

(* The mutex excludes: one thread has it, and m_depth counts its locks,     *)
(* though m_depth is read and written without interlocked instructions.     *)
THEOREM Exclusion == MutexSpec => []MutexExclusion
PROOF
<1>1. MutexInit => MutexInv
  BY MutexInitInv
<1>2. MutexInv /\ [MutexNext]_mVars => MutexInv'
  <2>1. MutexInv /\ UNCHANGED mVars => MutexInv'
    BY DEF mVars, MutexInv, MutexTypes, OwnerInv
  <2> QED
    BY <2>1, MutexNextInv
<1>3. MutexInv => MutexExclusion
  BY DEF MutexInv, MutexTypes, OwnerInv, MutexExclusion
<1> QED
  BY <1>1, <1>2, <1>3, PTL DEF MutexSpec

----------------------------------------------------------------------------
(* CThreadRWLock *)

RWPlaces == {"out", "reading", "waitRead", "wokenRead", "waitWrite", "writing"}

RWTypes ==
  /\ rwWriters \in Nat
  /\ rwActive \in Nat
  /\ rwPending \in Int
  /\ rwCanRead \in BOOLEAN
  /\ rwCanWrite \in BOOLEAN
  /\ rwPc \in [Sharers -> RWPlaces]

RWInv == RWTypes /\ OneRightToWrite

\* The number of threads at a place, when one comes, goes, or does neither.
LEMMA CountAt ==
  ASSUME RWTypes, NEW t \in Sharers, NEW q \in RWPlaces, RWGoto(t, q), NEW p
  PROVE  /\ Cardinality(RWAt(p)) \in Nat
         /\ rwPc[t] = p => Cardinality(RWAt(p)) > 0
         /\ Cardinality(RWAt(p)') = Cardinality(RWAt(p)) + (IF q = p THEN 1 ELSE 0)
                                                         - (IF rwPc[t] = p THEN 1 ELSE 0)
PROOF
<1>1. rwPc' = [rwPc EXCEPT ![t] = q] /\ rwPc \in [Sharers -> RWPlaces]
  BY DEF RWGoto, RWTypes
<1>2. IsFiniteSet(RWAt(p)) /\ Cardinality(RWAt(p)) \in Nat
  BY SharersAssumption, FS_Subset, FS_CardinalityType DEF RWAt
<1>3. rwPc[t] = p => Cardinality(RWAt(p)) > 0
  <2>1. rwPc[t] = p => RWAt(p) # {}
    BY DEF RWAt
  <2> QED
    BY <1>2, <2>1, FS_EmptySet
<1>4. CASE rwPc[t] = p /\ q # p
  <2>1. RWAt(p)' = RWAt(p) \ {t} /\ t \in RWAt(p)
    BY <1>1, <1>4 DEF RWAt
  <2>2. Cardinality(RWAt(p)') = Cardinality(RWAt(p)) - 1
    BY <1>2, <2>1, FS_RemoveElement
  <2> QED
    BY <1>2, <1>3, <1>4, <2>2
<1>5. CASE rwPc[t] # p /\ q = p
  <2>1. RWAt(p)' = RWAt(p) \cup {t} /\ t \notin RWAt(p)
    BY <1>1, <1>5 DEF RWAt
  <2>2. Cardinality(RWAt(p)') = Cardinality(RWAt(p)) + 1
    BY <1>2, <2>1, FS_AddElement
  <2> QED
    BY <1>2, <1>5, <2>2
<1>6. CASE (rwPc[t] = p) <=> (q = p)
  <2>1. RWAt(p)' = RWAt(p)
    BY <1>1, <1>6 DEF RWAt
  <2> QED
    BY <1>2, <1>3, <1>6, <2>1
<1> QED
  BY <1>4, <1>5, <1>6

\* What becomes of the two places that the lock counts when a thread moves.
LEMMA Moves ==
  ASSUME RWTypes, NEW t \in Sharers, NEW q \in RWPlaces, RWGoto(t, q)
  PROVE  /\ rwPc' \in [Sharers -> RWPlaces]
         /\ Cardinality(RWAt("reading")') = Cardinality(RWAt("reading"))
              + (IF q = "reading" THEN 1 ELSE 0) - (IF rwPc[t] = "reading" THEN 1 ELSE 0)
         /\ Cardinality(RWAt("writing")') = Cardinality(RWAt("writing"))
              + (IF q = "writing" THEN 1 ELSE 0) - (IF rwPc[t] = "writing" THEN 1 ELSE 0)
         /\ rwPc[t] = "reading" => Cardinality(RWAt("reading")) > 0
         /\ rwPc[t] = "writing" => Cardinality(RWAt("writing")) > 0
PROOF
<1>1. rwPc' \in [Sharers -> RWPlaces]
  BY DEF RWGoto, RWTypes
<1> QED
  BY <1>1, CountAt

(* At first nobody reads or writes. *)
LEMMA RWInitInv ==
  ASSUME RWInit
  PROVE  RWInv
PROOF
<1>1. RWAt("reading") = {} /\ RWAt("writing") = {}
  BY DEF RWInit, RWAt
<1>2. Cardinality(RWAt("reading")) = 0 /\ Cardinality(RWAt("writing")) = 0
  BY <1>1, FS_EmptySet
<1>3. rwCanRead \in BOOLEAN /\ rwCanWrite \in BOOLEAN
  BY Zenon DEF RWInit
<1>4. rwPc \in [Sharers -> RWPlaces]
  BY DEF RWInit, RWPlaces
<1>5. RWTypes
  BY <1>3, <1>4 DEF RWInit, RWTypes
<1> QED
  BY <1>2, <1>5 DEF RWInit, RWInv, OneRightToWrite

(* Each operation of the lock, with the threads that come and go. *)
LEMMA RWNextInv ==
  ASSUME RWInv, RWNext
  PROVE  RWInv'
PROOF
<1>1. PICK t \in Sharers : RWRun(t) \/ LockForRead(t) \/ LockForWrite(t)
  BY DEF RWNext
<1>2. RWTypes
  BY DEF RWInv
<1>3. Cardinality(RWAt("reading")) \in Nat /\ Cardinality(RWAt("writing")) \in Nat
  BY SharersAssumption, FS_Subset, FS_CardinalityType DEF RWAt
<1> DEFINE r == Cardinality(RWAt("reading"))
           w == Cardinality(RWAt("writing"))
<1>4. r \in Nat /\ w \in Nat /\ rwActive = r /\ rwWriters \in Nat
      /\ w + (IF rwCanWrite THEN 1 ELSE 0) = IF rwWriters # 0 /\ rwActive = 0 THEN 1 ELSE 0
  BY <1>3 DEF RWInv, RWTypes, OneRightToWrite
<1> HIDE DEF r, w
<1>5. CASE LockForRead(t)
  <2>1. CASE rwWriters # 0
    <3>1. RWGoto(t, "waitRead") /\ "waitRead" \in RWPlaces
      BY <1>5, <2>1 DEF LockForRead, RWPlaces
    <3>2. rwPc' \in [Sharers -> RWPlaces] /\ r' = r /\ w' = w
      BY <1>2, <1>4, <1>5, <3>1, Moves DEF LockForRead, r, w
    <3>3. RWTypes'
      BY <1>2, <1>4, <1>5, <2>1, <3>2 DEF LockForRead, RWTypes
    <3>4. /\ rwActive' = r'
          /\ w' + (IF rwCanWrite' THEN 1 ELSE 0)
               = IF rwWriters' # 0 /\ rwActive' = 0 THEN 1 ELSE 0
      BY <1>4, <1>5, <2>1, <3>2 DEF LockForRead
    <3> QED
      BY <3>3, <3>4 DEF RWInv, OneRightToWrite, r, w
  <2>2. CASE ~(rwWriters # 0)
    <3>1. RWGoto(t, "reading") /\ "reading" \in RWPlaces
      BY <1>5, <2>2 DEF LockForRead, RWPlaces
    <3>2. rwPc' \in [Sharers -> RWPlaces] /\ r' = r + 1 /\ w' = w
      BY <1>2, <1>4, <1>5, <3>1, Moves DEF LockForRead, r, w
    <3>3. RWTypes'
      BY <1>2, <1>4, <1>5, <2>2, <3>2 DEF LockForRead, RWTypes
    <3>4. /\ rwActive' = r'
          /\ w' + (IF rwCanWrite' THEN 1 ELSE 0)
               = IF rwWriters' # 0 /\ rwActive' = 0 THEN 1 ELSE 0
      BY <1>4, <1>5, <2>2, <3>2 DEF LockForRead
    <3> QED
      BY <3>3, <3>4 DEF RWInv, OneRightToWrite, r, w
  <2> QED
    BY <2>1, <2>2
<1>6. CASE WakeReader(t)
  <2>1. RWGoto(t, "wokenRead") /\ "wokenRead" \in RWPlaces
    BY <1>6 DEF WakeReader, RWPlaces
  <2>2. rwPc' \in [Sharers -> RWPlaces] /\ r' = r /\ w' = w
    BY <1>2, <1>4, <1>6, <2>1, Moves DEF WakeReader, r, w
  <2>3. RWTypes'
    BY <1>2, <1>4, <1>6, <2>2 DEF WakeReader, RWTypes
  <2>4. /\ rwActive' = r'
        /\ w' + (IF rwCanWrite' THEN 1 ELSE 0)
             = IF rwWriters' # 0 /\ rwActive' = 0 THEN 1 ELSE 0
    BY <1>4, <1>6, <2>2 DEF WakeReader
  <2> QED
    BY <2>3, <2>4 DEF RWInv, OneRightToWrite, r, w
<1>7. CASE RecheckReader(t)
  <2>1. CASE rwWriters # 0
    <3>1. RWGoto(t, "waitRead") /\ "waitRead" \in RWPlaces
      BY <1>7, <2>1 DEF RecheckReader, RWPlaces
    <3>2. rwPc' \in [Sharers -> RWPlaces] /\ r' = r /\ w' = w
      BY <1>2, <1>4, <1>7, <3>1, Moves DEF RecheckReader, r, w
    <3>3. RWTypes'
      BY <1>2, <1>4, <1>7, <2>1, <3>2 DEF RecheckReader, RWTypes
    <3>4. /\ rwActive' = r'
          /\ w' + (IF rwCanWrite' THEN 1 ELSE 0)
               = IF rwWriters' # 0 /\ rwActive' = 0 THEN 1 ELSE 0
      BY <1>4, <1>7, <2>1, <3>2 DEF RecheckReader
    <3> QED
      BY <3>3, <3>4 DEF RWInv, OneRightToWrite, r, w
  <2>2. CASE ~(rwWriters # 0)
    <3>1. RWGoto(t, "reading") /\ "reading" \in RWPlaces
      BY <1>7, <2>2 DEF RecheckReader, RWPlaces
    <3>2. rwPc' \in [Sharers -> RWPlaces] /\ r' = r + 1 /\ w' = w
      BY <1>2, <1>4, <1>7, <3>1, Moves DEF RecheckReader, r, w
    <3>3. RWTypes'
      BY <1>2, <1>4, <1>7, <2>2, <3>2 DEF RecheckReader, RWTypes
    <3>4. /\ rwActive' = r'
          /\ w' + (IF rwCanWrite' THEN 1 ELSE 0)
               = IF rwWriters' # 0 /\ rwActive' = 0 THEN 1 ELSE 0
      BY <1>4, <1>7, <2>2, <3>2 DEF RecheckReader
    <3> QED
      BY <3>3, <3>4 DEF RWInv, OneRightToWrite, r, w
  <2> QED
    BY <2>1, <2>2
<1>8. CASE UnlockRead(t)
  <2>1. RWGoto(t, "out") /\ "out" \in RWPlaces
    BY <1>8 DEF UnlockRead, RWPlaces
  <2>2. rwPc' \in [Sharers -> RWPlaces] /\ r' = r - 1 /\ w' = w /\ r > 0
    BY <1>2, <1>4, <1>8, <2>1, Moves DEF UnlockRead, r, w
  <2>3. ~rwCanWrite /\ w = 0
    BY <1>2, <1>4, <2>2 DEF RWTypes
  <2>4. rwCanWrite' \in BOOLEAN /\ (rwCanWrite' <=> (rwActive - 1 = 0 /\ rwWriters # 0))
    BY <1>8, <2>3, Zenon DEF UnlockRead
  <2>5. RWTypes'
    BY <1>2, <1>4, <1>8, <2>2, <2>4 DEF UnlockRead, RWTypes
  <2>6. /\ rwActive' = r'
        /\ w' + (IF rwCanWrite' THEN 1 ELSE 0)
             = IF rwWriters' # 0 /\ rwActive' = 0 THEN 1 ELSE 0
    <3>1. rwActive' = rwActive - 1 /\ rwWriters' = rwWriters
      BY <1>8 DEF UnlockRead
    <3> QED
      BY <1>4, <2>2, <2>3, <2>4, <3>1
  <2> QED
    BY <2>5, <2>6 DEF RWInv, OneRightToWrite, r, w
<1>9. CASE LockForWrite(t)
  <2>3. rwCanRead' \in BOOLEAN /\ rwCanWrite' \in BOOLEAN
    BY <1>2, <1>9, Zenon DEF LockForWrite, RWTypes
  <2>1. CASE rwWriters # 0 \/ rwActive # 0
    <3>1. RWGoto(t, "waitWrite") /\ "waitWrite" \in RWPlaces
      BY <1>9, <2>1 DEF LockForWrite, RWPlaces
    <3>2. rwPc' \in [Sharers -> RWPlaces] /\ r' = r /\ w' = w
      BY <1>2, <1>4, <1>9, <3>1, Moves DEF LockForWrite, r, w
    <3>3. RWTypes'
      BY <1>2, <1>9, <2>3, <3>2 DEF LockForWrite, RWTypes
    <3>4. /\ rwActive' = r'
          /\ w' + (IF rwCanWrite' THEN 1 ELSE 0)
               = IF rwWriters' # 0 /\ rwActive' = 0 THEN 1 ELSE 0
      BY <1>4, <1>9, <2>1, <3>2 DEF LockForWrite
    <3> QED
      BY <3>3, <3>4 DEF RWInv, OneRightToWrite, r, w
  <2>2. CASE ~(rwWriters # 0 \/ rwActive # 0)
    <3>1. RWGoto(t, "writing") /\ "writing" \in RWPlaces
      BY <1>9, <2>2 DEF LockForWrite, RWPlaces
    <3>2. rwPc' \in [Sharers -> RWPlaces] /\ r' = r /\ w' = w + 1
      BY <1>2, <1>4, <1>9, <3>1, Moves DEF LockForWrite, r, w
    <3>3. RWTypes'
      BY <1>2, <1>9, <2>3, <3>2 DEF LockForWrite, RWTypes
    <3>4. /\ rwActive' = r'
          /\ w' + (IF rwCanWrite' THEN 1 ELSE 0)
               = IF rwWriters' # 0 /\ rwActive' = 0 THEN 1 ELSE 0
      BY <1>4, <1>9, <2>2, <3>2 DEF LockForWrite
    <3> QED
      BY <3>3, <3>4 DEF RWInv, OneRightToWrite, r, w
  <2> QED
    BY <2>1, <2>2
<1>10. CASE WakeWriter(t)
  <2>1. RWGoto(t, "writing") /\ "writing" \in RWPlaces
    BY <1>10 DEF WakeWriter, RWPlaces
  <2>2. rwPc' \in [Sharers -> RWPlaces] /\ r' = r /\ w' = w + 1
    BY <1>2, <1>4, <1>10, <2>1, Moves DEF WakeWriter, r, w
  <2>3. RWTypes'
    BY <1>2, <1>4, <1>10, <2>2 DEF WakeWriter, RWTypes
  <2>4. /\ rwActive' = r'
        /\ w' + (IF rwCanWrite' THEN 1 ELSE 0)
             = IF rwWriters' # 0 /\ rwActive' = 0 THEN 1 ELSE 0
    BY <1>4, <1>10, <2>2 DEF WakeWriter
  <2> QED
    BY <2>3, <2>4 DEF RWInv, OneRightToWrite, r, w
<1>11. CASE UnlockWrite(t)
  <2>1. RWGoto(t, "out") /\ "out" \in RWPlaces
    BY <1>11 DEF UnlockWrite, RWPlaces
  <2>2. rwPc[t] = "writing" /\ rwPc[t] # "reading"
    BY <1>11 DEF UnlockWrite
  <2>3. rwPc' \in [Sharers -> RWPlaces] /\ r' = r /\ w' = w - 1 /\ w > 0
    BY <1>2, <1>4, <2>1, <2>2, Moves DEF r, w
  <2>4. ~rwCanWrite /\ w = 1 /\ rwWriters > 0 /\ rwActive = 0
    BY <1>2, <1>4, <2>3 DEF RWTypes
  <2>5. /\ rwCanRead' \in BOOLEAN
        /\ rwCanWrite' \in BOOLEAN /\ (rwCanWrite' <=> rwWriters - 1 # 0)
    BY <1>11, <2>4, Zenon DEF UnlockWrite
  <2>6. rwWriters' = rwWriters - 1 /\ rwActive' = rwActive /\ rwPending' = rwPending
    BY <1>11 DEF UnlockWrite
  <2>7. RWTypes'
    BY <1>2, <1>4, <2>3, <2>4, <2>5, <2>6 DEF RWTypes
  <2>8. /\ rwActive' = r'
        /\ w' + (IF rwCanWrite' THEN 1 ELSE 0)
             = IF rwWriters' # 0 /\ rwActive' = 0 THEN 1 ELSE 0
    BY <1>4, <2>3, <2>4, <2>5, <2>6
  <2> QED
    BY <2>7, <2>8 DEF RWInv, OneRightToWrite, r, w
<1> QED
  BY <1>1, <1>5, <1>6, <1>7, <1>8, <1>9, <1>10, <1>11 DEF RWRun

(* The right to write is never lost and never in two places: no two threads *)
(* write, none reads meanwhile, and a writer that waits will be told.       *)
THEOREM RightToWrite == RWSpec => []OneRightToWrite
PROOF
<1>1. RWInit => RWInv
  BY RWInitInv
<1>2. RWInv /\ [RWNext]_rwVars => RWInv'
  <2>1. RWInv /\ UNCHANGED rwVars => RWInv'
    BY DEF rwVars, RWInv, RWTypes, OneRightToWrite, RWAt
  <2> QED
    BY <2>1, RWNextInv
<1>3. RWInv => OneRightToWrite
  BY DEF RWInv
<1> QED
  BY <1>1, <1>2, <1>3, PTL DEF RWSpec

----------------------------------------------------------------------------
(* CThreadSpinRWLock *)

SpinPlaces == {"out", "testWrite", "swapWrite", "sign", "writing", "clear",
               "testRead", "loadRead", "swapRead", "reading"}

SpinReaders == SpinAt({"reading"})

\* seen has no flag in it: the swap of a reader that tested the word before a
\* writer came fails.
SpinTypes ==
  /\ word \in Nat
  /\ spinPc \in [Spinners -> SpinPlaces]
  /\ seen \in [Spinners -> 0..(ReaderMod - 1)]

\* An owner is alone, and its word is the flag; without one the word is a count.
SpinInv ==
  /\ SpinTypes
  /\ \A t \in Owners : Owners = {t} /\ word = ReaderMod /\ SpinReaders = {}
  /\ Owners = {} => word = Cardinality(SpinReaders)
  /\ writer = SpinAt({"writing"})

(* The flag of a writer is not zero. *)
LEMMA ReaderModPositive == ReaderMod \in Nat /\ ReaderMod > 0
BY ReaderModAssumption, SpinnersAssumption, FS_CardinalityType

(* The readers can be counted. *)
LEMMA ReadersFinite == IsFiniteSet(SpinReaders) /\ Cardinality(SpinReaders) \in Nat
BY SpinnersAssumption, FS_Subset, FS_CardinalityType DEF SpinReaders, SpinAt

\* A thread that goes from a place outside the lock to another, and changes
\* neither the word nor m_writerId, changes nothing that the invariant speaks of.
LEMMA OutsideStep ==
  ASSUME SpinInv, NEW t \in Spinners, NEW p \in SpinPlaces, SpinGoto(t, p),
         spinPc[t] \notin {"sign", "writing", "clear", "reading"},
         p \notin {"sign", "writing", "clear", "reading"},
         word' = word, writer' = writer, seen' \in [Spinners -> 0..(ReaderMod - 1)]
  PROVE  SpinInv'
PROOF
<1>1. SpinTypes'
  BY DEF SpinInv, SpinTypes, SpinGoto
<1>2. Owners' = Owners /\ SpinReaders' = SpinReaders /\ SpinAt({"writing"})' = SpinAt({"writing"})
  BY DEF SpinInv, SpinTypes, SpinGoto, SpinReaders, Owners, SpinAt
<1> QED
  BY <1>1, <1>2 DEF SpinInv

(* At first the word is zero and nobody has the lock. *)
LEMMA SpinInitInv ==
  ASSUME SpinInit
  PROVE  SpinInv
PROOF
<1>1. SpinReaders = {} /\ Owners = {} /\ SpinAt({"writing"}) = {}
  BY DEF SpinInit, SpinReaders, Owners, SpinAt
<1>2. SpinTypes
  BY ReaderModPositive DEF SpinInit, SpinTypes, SpinPlaces
<1> QED
  BY <1>1, <1>2, FS_EmptySet DEF SpinInit, SpinInv

(* Each load, swap and store on the word. *)
LEMMA SpinNextInv ==
  ASSUME SpinInv, SpinNext
  PROVE  SpinInv'
PROOF
<1>1. PICK t \in Spinners : SpinRun(t) \/ SpinForWrite(t) \/ SpinForRead(t)
  BY DEF SpinNext
<1>2. SpinTypes /\ seen \in [Spinners -> 0..(ReaderMod - 1)]
  BY DEF SpinInv, SpinTypes
<1>3. CASE SpinForWrite(t)
  <2>1. PICK p \in SpinPlaces : SpinGoto(t, p) /\ p \notin {"sign", "writing", "clear", "reading"}
    BY <1>3 DEF SpinForWrite, Fails, SpinPlaces
  <2>2. /\ spinPc[t] \notin {"sign", "writing", "clear", "reading"}
        /\ word' = word /\ writer' = writer /\ seen' = seen
    BY <1>3 DEF SpinForWrite
  <2> QED
    BY <1>2, <2>1, <2>2, OutsideStep
<1>4. CASE SpinForRead(t)
  <2>1. PICK p \in SpinPlaces : SpinGoto(t, p) /\ p \notin {"sign", "writing", "clear", "reading"}
    BY <1>4 DEF SpinForRead, Fails, SpinPlaces
  <2>2. /\ spinPc[t] \notin {"sign", "writing", "clear", "reading"}
        /\ word' = word /\ writer' = writer /\ seen' = seen
    BY <1>4 DEF SpinForRead
  <2> QED
    BY <1>2, <2>1, <2>2, OutsideStep
<1>5. CASE TestForWrite(t)
  <2>1. PICK p \in SpinPlaces : SpinGoto(t, p) /\ p \notin {"sign", "writing", "clear", "reading"}
    BY <1>5 DEF TestForWrite, Fails, SpinPlaces
  <2>2. /\ spinPc[t] \notin {"sign", "writing", "clear", "reading"}
        /\ word' = word /\ writer' = writer /\ seen' = seen
    BY <1>5 DEF TestForWrite
  <2> QED
    BY <1>2, <2>1, <2>2, OutsideStep
<1>6. CASE TestForRead(t)
  <2>1. PICK p \in SpinPlaces : SpinGoto(t, p) /\ p \notin {"sign", "writing", "clear", "reading"}
    BY <1>6 DEF TestForRead, Fails, SpinPlaces
  <2>2. /\ spinPc[t] \notin {"sign", "writing", "clear", "reading"}
        /\ word' = word /\ writer' = writer /\ seen' = seen
    BY <1>6 DEF TestForRead
  <2> QED
    BY <1>2, <2>1, <2>2, OutsideStep
<1>7. CASE LoadForRead(t)
  <2>1. SpinGoto(t, "swapRead") /\ "swapRead" \in SpinPlaces
    BY <1>7 DEF LoadForRead, SpinPlaces
  <2>2. spinPc[t] = "loadRead" /\ word' = word /\ writer' = writer
        /\ seen' = [seen EXCEPT ![t] = Readers(word)]
    BY <1>7 DEF LoadForRead
  <2>3. Readers(word) \in 0..(ReaderMod - 1)
    BY <1>2, ReaderModPositive DEF SpinTypes, Readers
  <2>4. seen' \in [Spinners -> 0..(ReaderMod - 1)]
    BY <1>2, <2>2, <2>3
  <2> QED
    BY <2>1, <2>2, <2>4, OutsideStep
<1>8. CASE SwapForWrite(t)
  <2>1. CASE word = 0
    <3>1. spinPc[t] = "swapWrite" /\ spinPc' = [spinPc EXCEPT ![t] = "sign"]
          /\ word' = ReaderMod /\ writer' = writer /\ seen' = seen
      BY <1>8, <2>1 DEF SwapForWrite, SpinGoto
    <3>2. Owners = {}
      BY <2>1, ReaderModPositive DEF SpinInv
    <3>3. SpinReaders = {}
      BY <2>1, <3>2, ReadersFinite, FS_EmptySet DEF SpinInv
    <3>4. SpinTypes'
      BY <1>2, <3>1, ReaderModPositive DEF SpinTypes, SpinPlaces
    <3>5. Owners' = {t} /\ SpinReaders' = {} /\ SpinAt({"writing"})' = SpinAt({"writing"})
      BY <1>2, <3>1, <3>2, <3>3 DEF SpinTypes, Owners, SpinReaders, SpinAt
    <3> QED
      BY <3>1, <3>4, <3>5 DEF SpinInv
  <2>2. CASE word # 0
    <3>1. PICK p \in SpinPlaces : SpinGoto(t, p) /\ p \notin {"sign", "writing", "clear", "reading"}
      BY <1>8, <2>2 DEF SwapForWrite, Fails, SpinPlaces
    <3>2. spinPc[t] = "swapWrite" /\ word' = word /\ writer' = writer /\ seen' = seen
      BY <1>8, <2>2 DEF SwapForWrite
    <3> QED
      BY <1>2, <3>1, <3>2, OutsideStep
  <2> QED
    BY <2>1, <2>2
<1>9. CASE SignForWrite(t)
  <2>1. spinPc[t] = "sign" /\ spinPc' = [spinPc EXCEPT ![t] = "writing"]
        /\ word' = word /\ writer' = {t} /\ seen' = seen
    BY <1>9 DEF SignForWrite, SpinGoto
  <2>2. Owners = {t} /\ word = ReaderMod /\ SpinReaders = {}
    BY <2>1 DEF SpinInv, Owners, SpinAt
  <2>3. SpinTypes'
    BY <1>2, <2>1 DEF SpinTypes, SpinPlaces
  <2>4. Owners' = {t} /\ SpinReaders' = {} /\ SpinAt({"writing"})' = {t}
    BY <1>2, <2>1, <2>2 DEF SpinTypes, Owners, SpinReaders, SpinAt
  <2> QED
    BY <2>1, <2>2, <2>3, <2>4 DEF SpinInv
<1>10. CASE UnsignForWrite(t)
  <2>1. spinPc[t] = "writing" /\ spinPc' = [spinPc EXCEPT ![t] = "clear"]
        /\ word' = word /\ writer' = {} /\ seen' = seen
    BY <1>10 DEF UnsignForWrite, SpinGoto
  <2>2. Owners = {t} /\ word = ReaderMod /\ SpinReaders = {}
    BY <2>1 DEF SpinInv, Owners, SpinAt
  <2>3. SpinTypes'
    BY <1>2, <2>1 DEF SpinTypes, SpinPlaces
  <2>4. Owners' = {t} /\ SpinReaders' = {} /\ SpinAt({"writing"})' = {}
    BY <1>2, <2>1, <2>2 DEF SpinTypes, Owners, SpinReaders, SpinAt
  <2> QED
    BY <2>1, <2>2, <2>3, <2>4 DEF SpinInv
<1>11. CASE ClearWord(t)
  <2>1. spinPc[t] = "clear" /\ spinPc' = [spinPc EXCEPT ![t] = "out"]
        /\ word' = 0 /\ writer' = writer /\ seen' = seen
    BY <1>11 DEF ClearWord, SpinGoto
  <2>2. Owners = {t} /\ word = ReaderMod /\ SpinReaders = {}
    BY <2>1 DEF SpinInv, Owners, SpinAt
  <2>3. SpinTypes'
    BY <1>2, <2>1 DEF SpinTypes, SpinPlaces
  <2>4. Owners' = {} /\ SpinReaders' = {} /\ SpinAt({"writing"})' = SpinAt({"writing"})
    BY <1>2, <2>1, <2>2 DEF SpinTypes, Owners, SpinReaders, SpinAt
  <2> QED
    BY <2>1, <2>3, <2>4, FS_EmptySet DEF SpinInv
<1>12. CASE SwapForRead(t)
  <2>1. spinPc[t] = "swapRead" /\ writer' = writer /\ seen' \in [Spinners -> 0..(ReaderMod - 1)]
    BY <1>2, <1>12, ReaderModPositive DEF SwapForRead
  <2>2. CASE word = seen[t]
    <3>1. spinPc' = [spinPc EXCEPT ![t] = "reading"] /\ word' = word + 1
      BY <1>12, <2>2 DEF SwapForRead, SpinGoto
    <3>2. word # ReaderMod
      BY <1>2, <2>2, ReaderModPositive
    <3>3. Owners = {} /\ word = Cardinality(SpinReaders)
      BY <3>2 DEF SpinInv
    <3>4. SpinTypes'
      BY <1>2, <2>1, <3>1 DEF SpinTypes, SpinPlaces
    <3>5. Owners' = {} /\ SpinReaders' = SpinReaders \cup {t} /\ t \notin SpinReaders
          /\ SpinAt({"writing"})' = SpinAt({"writing"})
      BY <1>2, <2>1, <3>1, <3>3 DEF SpinTypes, Owners, SpinReaders, SpinAt
    <3>6. Cardinality(SpinReaders \cup {t}) = word + 1
      BY <3>3, <3>5, ReadersFinite, FS_AddElement
    <3> QED
      BY <2>1, <3>1, <3>4, <3>5, <3>6 DEF SpinInv
  <2>3. CASE word # seen[t]
    <3>1. PICK p \in SpinPlaces : SpinGoto(t, p) /\ p \notin {"sign", "writing", "clear", "reading"}
      BY <1>12, <2>3 DEF SwapForRead, Fails, SpinPlaces
    <3>2. word' = word
      BY <1>12, <2>3 DEF SwapForRead
    <3> QED
      BY <2>1, <3>1, <3>2, OutsideStep
  <2> QED
    BY <2>2, <2>3
<1>13. CASE SpinUnlockRead(t)
  <2>1. spinPc[t] = "reading" /\ spinPc' = [spinPc EXCEPT ![t] = "out"]
        /\ word' = word - 1 /\ writer' = writer /\ seen' = seen
    BY <1>13 DEF SpinUnlockRead, SpinGoto
  <2>2. t \in SpinReaders /\ Owners = {}
    BY <2>1 DEF SpinInv, SpinReaders, SpinAt
  <2>3. word = Cardinality(SpinReaders)
    BY <2>2 DEF SpinInv
  <2>4. Owners' = {} /\ SpinReaders' = SpinReaders \ {t}
        /\ SpinAt({"writing"})' = SpinAt({"writing"})
    BY <1>2, <2>1, <2>2 DEF SpinTypes, Owners, SpinReaders, SpinAt
  <2>5. Cardinality(SpinReaders \ {t}) = word - 1
    BY <2>2, <2>3, ReadersFinite, FS_RemoveElement
  <2>6. Cardinality(SpinReaders \ {t}) \in Nat
    BY ReadersFinite, FS_RemoveElement, FS_CardinalityType
  <2>7. SpinTypes'
    BY <1>2, <2>1, <2>5, <2>6 DEF SpinTypes, SpinPlaces
  <2> QED
    BY <2>1, <2>4, <2>5, <2>7 DEF SpinInv
<1> QED
  BY <1>1, <1>3, <1>4, <1>5, <1>6, <1>7, <1>8, <1>9, <1>10, <1>11, <1>12, <1>13 DEF SpinRun

\* What the invariant says in terms of the two counts.
LEMMA SpinInvExcludes ==
  ASSUME SpinInv
  PROVE  SpinExclusion
PROOF
<1>1. \A t \in Owners, u \in Spinners : spinPc[u] = "reading" \/ u \in Owners => t = u
  BY DEF SpinInv, SpinReaders, SpinAt
<1>2. word = Cardinality(SpinReaders) + ReaderMod * Cardinality(Owners)
  <2>1. CASE Owners = {}
    <3>1. Cardinality(Owners) = 0 /\ word = Cardinality(SpinReaders)
      BY <2>1, FS_EmptySet DEF SpinInv
    <3> QED
      BY <3>1, ReaderModPositive, ReadersFinite
  <2>2. CASE Owners # {}
    <3>1. PICK t \in Owners : Owners = {t} /\ word = ReaderMod /\ SpinReaders = {}
      BY <2>2 DEF SpinInv
    <3>2. Cardinality(Owners) = 1 /\ Cardinality(SpinReaders) = 0
      BY <3>1, FS_Singleton, FS_EmptySet
    <3> QED
      BY <3>1, <3>2, ReaderModPositive
  <2> QED
    BY <2>1, <2>2
<1> QED
  BY <1>1, <1>2 DEF SpinExclusion, SpinReaders, SpinInv

(* Writers are alone with the lock, and the word always is the readers and the *)
(* writer: no unlock by a plain store loses a count.                           *)
THEOREM SpinExcludes == SpinSpec => []SpinExclusion
PROOF
<1>1. SpinInit => SpinInv
  BY SpinInitInv
<1>2. SpinInv /\ [SpinNext]_spinVars => SpinInv'
  <2>1. SpinInv /\ UNCHANGED spinVars => SpinInv'
    BY DEF spinVars, SpinInv, SpinTypes, SpinReaders, Owners, SpinAt
  <2> QED
    BY <2>1, SpinNextInv
<1>3. SpinInv => SpinExclusion
  BY SpinInvExcludes
<1> QED
  BY <1>1, <1>2, <1>3, PTL DEF SpinSpec
=============================================================================
