-------------------------- MODULE EventQueueProofs --------------------------
(***************************************************************************)
(* Proofs about EventQueue, for every number of hooks and pipeline         *)
(* threads, every limit, any number of captures and of crashes.            *)
(***************************************************************************)
EXTENDS EventQueue, TLAPS

\* Cutting, joining and extending files of events gives files of events.
LEMMA FilesClosed ==
  ASSUME NEW S, NEW s \in Seq(S), NEW t \in Seq(S), NEW e \in S
  PROVE  Append(s, e) \in Seq(S) /\ s \o t \in Seq(S)
PROOF
  OBVIOUS

LEMMA CutsClosed ==
  ASSUME NEW S, NEW s \in Seq(S), NEW m \in Nat, NEW n \in Nat
  PROVE  /\ n <= Len(s) => SubSeq(s, m + 1, n) \in Seq(S)
         /\ n <= Len(s) /\ m < n => Len(SubSeq(s, m + 1, n)) = n - m
         /\ Lines(s, m) \in Seq(S)
         /\ TailLines(s, m) \in Seq(S)
PROOF
  <1>1. \A k \in Nat : Lines(s, k) \in Seq(S)
    BY DEF Lines
  <1>2. TailLines(s, m) \in Seq(S)
    BY <1>1 DEF TailLines
  <1>3. ASSUME n <= Len(s) PROVE SubSeq(s, m + 1, n) \in Seq(S)
    BY <1>3
  <1>4. ASSUME n <= Len(s), m < n PROVE Len(SubSeq(s, m + 1, n)) = n - m
    BY <1>4
  <1> HIDE DEF Lines, TailLines
  <1> QED
    BY <1>1, <1>2, <1>3, <1>4

LEMMA RangeOfFile ==
  ASSUME NEW S, NEW s \in Seq(S)
  PROVE  ToSet(s) \subseteq S
PROOF
  BY DEF ToSet

\* One step of one process.
Step(p) ==
  \/ p \in Producers /\ (Capture(p) \/ ProducerStep(p))
  \/ p \in Consumers /\ ConsumerStep(p)
  \/ Crash(p)

LEMMA StepOfNext == Next => \E p \in Procs : Step(p)
PROOF
  BY DEF Next, Step, Procs

LEMMA DiskTyped ==
  ASSUME TypeOK, NEW p \in Procs, Step(p)
  PROVE  DiskOK'
PROOF
  <1> USE DEF TypeOK, DiskOK, files
  <1>1. CASE AppendEvent(p)
    BY <1>1, FilesClosed DEF AppendEvent, DropQueueLock, ControlOK, Goto,
       Capturing
  <1>2. CASE SpillEvent(p)
    BY <1>2, FilesClosed DEF SpillEvent, ControlOK, Goto, Capturing
  <1>3. CASE MergeAppend(p)
    BY <1>3, FilesClosed DEF MergeAppend, ReadOK
  <1>4. CASE MergeUnlink(p)
    BY <1>4 DEF MergeUnlink
  <1>5. CASE RotateCopy(p)
    <2>1. Lines(file, pos[p]) \in Seq(Events)
      BY CutsClosed DEF ReadOK
    <2>2. KeepCount \in Nat
      BY LimitsAssumption DEF KeepCount
    <2>3. TailLines(Lines(file, pos[p]), KeepCount) \in Seq(Events)
      BY <2>1, <2>2, CutsClosed
    <2> QED
      BY <1>5, <2>1, <2>3 DEF RotateCopy, ReadOK
  <1>6. CASE Compact(p)
    <2>1. Lines(file, pos[p]) \in Seq(Events)
      BY CutsClosed DEF ReadOK
    <2> QED
      BY <1>6, <2>1 DEF Compact
  <1>7. CASE Replace(p)
    BY <1>7 DEF Replace, TmpOf
  <1>8. CASE WriteBackHead(p)
    BY <1>8 DEF WriteBackHead
  <1>9. CASE Advance(p)
    BY <1>9 DEF Advance, HeadLoaded, Least
  <1>10. CASE SetHead(p)
    BY <1>10 DEF SetHead, ReadOK
  <1>11. CASE ZeroHead(p)
    BY <1>11 DEF ZeroHead
  <1>12. CASE Capture(p) \/ AcquireShort(p) \/ TimeoutShort(p) \/ AcquireOver(p)
            \/ DropEvent(p) \/ StatSize(p) \/ LoadSizeHead(p) \/
            DecideRotation(p) \/ HeadPastEnd(p) \/ AcquireLong(p) \/
            TimeoutLong(p) \/ MergeRead(p) \/ LoadLockedHead(p) \/ Release(p)
            \/ StartCycle(p) \/ LoadPeekHead(p) \/ Peek(p) \/ ProcessBatch(p)
            \/ ProcessFails(p) \/ Crash(p)
    BY <1>12 DEF Capture, AcquireShort, TimeoutShort, AcquireOver, DropEvent,
       StatSize, LoadSizeHead, DecideRotation, HeadPastEnd, AcquireLong,
       TimeoutLong, MergeRead, LoadLockedHead, Release, StartCycle,
       LoadPeekHead, Peek, ProcessBatch, ProcessFails, Crash
  <1> QED
    BY <1>1, <1>2, <1>3, <1>4, <1>5, <1>6, <1>7, <1>8, <1>9, <1>10,
       <1>11, <1>12 DEF Step, ProducerStep, ConsumerStep, CaptureStep,
       SharedStep

LEMMA LocksTyped ==
  ASSUME TypeOK, NEW p \in Procs, Step(p)
  PROVE  LocksOK'
PROOF
  <1> USE DEF TypeOK, LocksOK, locks
  <1>1. CASE Capture(p) \/ AcquireShort(p) \/ TimeoutShort(p) \/ AppendEvent(p)
            \/ AcquireOver(p) \/ DropEvent(p) \/ SpillEvent(p) \/ StatSize(p)
            \/ LoadSizeHead(p) \/ DecideRotation(p) \/ HeadPastEnd(p) \/
            WriteBackHead(p) \/ AcquireLong(p) \/ TimeoutLong(p) \/
            MergeRead(p) \/ MergeAppend(p) \/ MergeUnlink(p) \/
            LoadLockedHead(p) \/ Replace(p) \/ ZeroHead(p) \/ Release(p) \/
            RotateCopy(p) \/ StartCycle(p) \/ LoadPeekHead(p) \/ Peek(p) \/
            ProcessBatch(p) \/ ProcessFails(p) \/ Advance(p) \/ SetHead(p) \/
            Compact(p) \/ Crash(p)
    BY <1>1 DEF Capture, AcquireShort, TimeoutShort, AppendEvent, AcquireOver,
       DropEvent, SpillEvent, StatSize, LoadSizeHead, DecideRotation,
       HeadPastEnd, WriteBackHead, AcquireLong, TimeoutLong, MergeRead,
       MergeAppend, MergeUnlink, LoadLockedHead, Replace, ZeroHead, Release,
       RotateCopy, StartCycle, LoadPeekHead, Peek, ProcessBatch, ProcessFails,
       Advance, SetHead, Compact, Crash, DropQueueLock, TakeQueueLock
  <1> QED
    BY <1>1 DEF Step, ProducerStep, ConsumerStep, CaptureStep,
       SharedStep

LEMMA ControlTyped ==
  ASSUME TypeOK, NEW p \in Procs, Step(p)
  PROVE  ControlOK'
PROOF
  <1> USE DEF TypeOK, ControlOK, Goto, PCs, Capturing, memory
  <1>1. CASE Capture(p)
    BY <1>1, LimitsAssumption DEF Capture, HistoryOK, Events
  <1>2. CASE AppendEvent(p)
    BY <1>2 DEF AppendEvent, DropQueueLock, Forget
  <1>3. CASE DropEvent(p)
    BY <1>3 DEF DropEvent, Forget
  <1>4. CASE SpillEvent(p)
    BY <1>4 DEF SpillEvent, Forget
  <1>5. CASE DecideRotation(p)
    BY <1>5 DEF DecideRotation, HeadLoaded, Forget
  <1>6. CASE Release(p)
    BY <1>6 DEF Release, DropQueueLock, Forget
  <1>7. CASE Peek(p)
    BY <1>7 DEF Peek, HeadLoaded, Least, Forget
  <1>8. CASE ProcessFails(p)
    BY <1>8 DEF ProcessFails, Forget
  <1>9. CASE Crash(p)
    BY <1>9 DEF Crash, Forget
  <1>10. CASE AcquireShort(p) \/ TimeoutShort(p) \/ AcquireOver(p) \/
            StatSize(p) \/ LoadSizeHead(p) \/ HeadPastEnd(p) \/
            WriteBackHead(p) \/ AcquireLong(p) \/ TimeoutLong(p) \/
            MergeRead(p) \/ MergeAppend(p) \/ MergeUnlink(p) \/
            LoadLockedHead(p) \/ Replace(p) \/ ZeroHead(p) \/ RotateCopy(p) \/
            StartCycle(p) \/ LoadPeekHead(p) \/ ProcessBatch(p) \/ Advance(p)
            \/ SetHead(p) \/ Compact(p)
    BY <1>10 DEF AcquireShort, TimeoutShort, AcquireOver, StatSize,
       LoadSizeHead, HeadPastEnd, WriteBackHead, AcquireLong, TimeoutLong,
       MergeRead, MergeAppend, MergeUnlink, LoadLockedHead, Replace, ZeroHead,
       RotateCopy, StartCycle, LoadPeekHead, ProcessBatch, Advance, SetHead,
       Compact, LoadHead
  <1> QED
    BY <1>1, <1>2, <1>3, <1>4, <1>5, <1>6, <1>7, <1>8, <1>9, <1>10 DEF
       Step, ProducerStep, ConsumerStep, CaptureStep, SharedStep

LEMMA ReadTyped ==
  ASSUME TypeOK, NEW p \in Procs, Step(p)
  PROVE  ReadOK'
PROOF
  <1> USE DEF TypeOK, ReadOK, memory
  <1>1. CASE AppendEvent(p)
    BY <1>1 DEF AppendEvent, DropQueueLock, Forget
  <1>2. CASE DropEvent(p)
    BY <1>2 DEF DropEvent, Forget
  <1>3. CASE SpillEvent(p)
    BY <1>3 DEF SpillEvent, Forget
  <1>4. CASE DecideRotation(p)
    BY <1>4 DEF DecideRotation, HeadLoaded, Forget
  <1>5. CASE Release(p)
    BY <1>5 DEF Release, DropQueueLock, Forget
  <1>6. CASE ProcessFails(p)
    BY <1>6 DEF ProcessFails, Forget
  <1>7. CASE Crash(p)
    BY <1>7 DEF Crash, Forget
  <1>8. CASE HeadPastEnd(p)
    BY <1>8 DEF HeadPastEnd
  <1>9. CASE WriteBackHead(p)
    BY <1>9 DEF WriteBackHead
  <1>10. CASE StatSize(p)
    BY <1>10 DEF StatSize, DiskOK
  <1>11. CASE LoadSizeHead(p)
    BY <1>11 DEF LoadSizeHead, LoadHead, DiskOK
  <1>12. CASE LoadLockedHead(p)
    BY <1>12 DEF LoadLockedHead, LoadHead, DiskOK
  <1>13. CASE LoadPeekHead(p)
    BY <1>13 DEF LoadPeekHead, LoadHead, DiskOK
  <1>14. CASE MergeRead(p)
    BY <1>14 DEF MergeRead, DiskOK
  <1>15. CASE MergeUnlink(p)
    BY <1>15 DEF MergeUnlink
  <1>16. CASE RotateCopy(p)
    <2>1. Lines(file, pos[p]) \in Seq(Events)
      BY CutsClosed DEF DiskOK
    <2> QED
      BY <1>16, <2>1 DEF RotateCopy
  <1>17. CASE Advance(p)
    <2> DEFINE n == Least(arg[p], Len(file) - pos[p])
    <2>1. n \in Nat /\ pos[p] + n \in Nat /\ pos[p] + n <= Len(file)
      BY <1>17 DEF Advance, HeadLoaded, Least, DiskOK
    <2>2. SubSeq(file, pos[p] + 1, pos[p] + n) \in Seq(Events)
      BY <2>1, CutsClosed DEF DiskOK
    <2> QED
      BY <1>17, <2>1, <2>2 DEF Advance
  <1>18. CASE SetHead(p)
    BY <1>18 DEF SetHead
  <1>19. CASE StartCycle(p)
    BY <1>19, LimitsAssumption DEF StartCycle
  <1>20. CASE Peek(p)
    <2> DEFINE m     == Least(pos[p] + arg[p], Len(file))
               batch == SubSeq(file, pos[p] + 1, m)
    <2>1. m \in Nat /\ m <= Len(file)
      BY DEF Least, DiskOK
    <2>2. batch \in Seq(Events)
      BY <2>1, CutsClosed DEF DiskOK
    <2>3. Len(batch) \in Nat
      BY <2>2
    <2> HIDE DEF batch
    <2> DEFINE Keeps == /\ buf' = [buf EXCEPT ![p] = batch]
                        /\ arg' = [arg EXCEPT ![p] = Len(batch)]
                        /\ pos' = [pos EXCEPT ![p] = 0]
                        /\ UNCHANGED <<ev, fixing>>
    <2>4. Forget(p) \/ Keeps
      BY <1>20 DEF Peek, batch
    <2>5. CASE Forget(p)
      BY <2>5 DEF Forget
    <2>6. CASE Keeps
      BY <2>2, <2>3, <2>6
    <2> QED
      BY <2>4, <2>5, <2>6
  <1>21. CASE ProcessBatch(p)
    BY <1>21 DEF ProcessBatch
  <1>22. CASE Capture(p) \/ AcquireShort(p) \/ TimeoutShort(p) \/ AcquireOver(p)
            \/ AcquireLong(p) \/ TimeoutLong(p) \/ MergeAppend(p) \/
            Replace(p) \/ ZeroHead(p) \/ Compact(p)
    BY <1>22 DEF Capture, AcquireShort, TimeoutShort, AcquireOver,
       AcquireLong, TimeoutLong, MergeAppend, Replace, ZeroHead, Compact
  <1> QED
    BY <1>1, <1>2, <1>3, <1>4, <1>5, <1>6, <1>7, <1>8, <1>9, <1>10,
       <1>11, <1>12, <1>13, <1>14, <1>15, <1>16, <1>17, <1>18, <1>19, <1>20,
       <1>21, <1>22 DEF Step, ProducerStep, ConsumerStep, CaptureStep,
       SharedStep

LEMMA HistoryTyped ==
  ASSUME TypeOK, NEW p \in Procs, Step(p)
  PROVE  HistoryOK'
PROOF
  <1> USE DEF TypeOK, HistoryOK, fate, bounds
  <1>1. CASE Capture(p)
    BY <1>1, LimitsAssumption DEF Capture
  <1>2. CASE Crash(p)
    BY <1>2, LimitsAssumption DEF Crash
  <1>9. CASE ProcessFails(p)
    BY <1>9, LimitsAssumption DEF ProcessFails
  <1>3. CASE AppendEvent(p)
    BY <1>3, FilesClosed DEF AppendEvent, DropQueueLock, ControlOK, Goto,
       Capturing
  <1>4. CASE SpillEvent(p)
    BY <1>4 DEF SpillEvent, ControlOK, Goto, Capturing
  <1>5. CASE Replace(p)
    BY <1>5, RangeOfFile DEF Replace, TmpOf, ReadOK
  <1>6. CASE SetHead(p)
    BY <1>6, RangeOfFile DEF SetHead, ReadOK
  <1>7. CASE ProcessBatch(p)
    BY <1>7, RangeOfFile DEF ProcessBatch, ReadOK
  <1>8. CASE AcquireShort(p) \/ TimeoutShort(p) \/ AcquireOver(p) \/
            DropEvent(p) \/ StatSize(p) \/ LoadSizeHead(p) \/
            DecideRotation(p) \/ HeadPastEnd(p) \/ WriteBackHead(p) \/
            AcquireLong(p) \/ TimeoutLong(p) \/ MergeRead(p) \/ MergeAppend(p)
            \/ MergeUnlink(p) \/ LoadLockedHead(p) \/ ZeroHead(p) \/
            Release(p) \/ RotateCopy(p) \/ StartCycle(p) \/ LoadPeekHead(p) \/
            Peek(p) \/ Advance(p) \/ Compact(p)
    BY <1>8 DEF AcquireShort, TimeoutShort, AcquireOver, DropEvent, StatSize,
       LoadSizeHead, DecideRotation, HeadPastEnd, WriteBackHead, AcquireLong,
       TimeoutLong, MergeRead, MergeAppend, MergeUnlink, LoadLockedHead,
       ZeroHead, Release, RotateCopy, StartCycle, LoadPeekHead, Peek,
       Advance, Compact
  <1> QED
    BY <1>1, <1>2, <1>3, <1>4, <1>5, <1>6, <1>7, <1>8, <1>9 DEF Step,
       ProducerStep, ConsumerStep, CaptureStep, SharedStep

\* Every variable keeps its type, and a capture under way holds an event.
THEOREM TypeCorrect == Spec => []TypeOK
PROOF
  <1>1. Init => TypeOK
    <2> SUFFICES ASSUME Init PROVE TypeOK
      OBVIOUS
    <2>1. DiskOK
      BY DEF Init, DiskOK
    <2>2. ControlOK
      BY DEF Init, ControlOK, PCs, Capturing
    <2>3. ReadOK
      BY DEF Init, ReadOK
    <2>4. LocksOK
      BY DEF Init, LocksOK
    <2>5. /\ next \in 0..MaxCaptures
          /\ crashes \in 0..MaxCrashes
          /\ failures \in 0..MaxFailures
      BY LimitsAssumption DEF Init
    <2>6. direct \in Seq(Events)
      BY DEF Init
    <2> QED
      BY <2>1, <2>2, <2>3, <2>4, <2>5, <2>6 DEF Init, TypeOK, HistoryOK
  <1>2. TypeOK /\ [Next]_vars => TypeOK'
    <2> SUFFICES ASSUME TypeOK, [Next]_vars PROVE TypeOK'
      OBVIOUS
    <2>1. CASE \E p \in Procs : Step(p)
      BY <2>1, DiskTyped, LocksTyped, ControlTyped, ReadTyped, HistoryTyped
      DEF TypeOK
    <2>2. CASE UNCHANGED vars
      BY <2>2 DEF vars, files, locks, memory, fate, bounds, TypeOK, DiskOK,
                  LocksOK, ControlOK, ReadOK, HistoryOK
    <2> QED
      BY <2>1, <2>2, StepOfNext
  <1> QED
    BY <1>1, <1>2, PTL DEF Spec
-----------------------------------------------------------------------------
(* The lock files *)

\* A step of p that neither takes nor drops a lock keeps p inside the section
\* of a lock it holds, and moves nobody else.
LEMMA LocksHeld ==
  ASSUME TypeOK, LockExclusive, NEW p \in Procs, Step(p)
  PROVE  LockExclusive'
PROOF
  <1> USE DEF TypeOK, LocksOK, ControlOK, LockExclusive, locks, Goto, Locked
  <1>1. CASE AcquireShort(p) \/ AcquireLong(p)
    BY <1>1 DEF AcquireShort, AcquireLong, TakeQueueLock
  <1>2. CASE AcquireOver(p)
    BY <1>2 DEF AcquireOver
  <1>3. CASE AppendEvent(p) \/ Release(p)
    <2>1. /\ lockFile' = IF p \in acquired THEN FALSE ELSE lockFile
          /\ acquired' = acquired \ {p}
          /\ UNCHANGED <<ovLockFile, ovAcquired>>
      BY <1>3 DEF AppendEvent, Release, DropQueueLock
    <2>2. /\ \A q \in Procs : q # p => pc'[q] = pc[q]
          /\ pc[p] # "spill" /\ pc'[p] \notin {"append", "spill"}
      BY <1>3 DEF AppendEvent, Release
    <2>3. \A q \in acquired' : q # p /\ pc'[q] \in Locked
      BY <2>1, <2>2
    <2>4. acquired' # {} => lockFile'
      BY <2>1
    <2> QED
      BY <2>1, <2>2, <2>3, <2>4
  <1>4. CASE SpillEvent(p)
    BY <1>4 DEF SpillEvent
  <1>5. CASE Crash(p)
    BY <1>5 DEF Crash
  <1>6. CASE HeadPastEnd(p) \/ WriteBackHead(p)
    BY <1>6 DEF HeadPastEnd, WriteBackHead
  <1>7. CASE Capture(p) \/ TimeoutShort(p) \/ DropEvent(p) \/ StatSize(p) \/
            LoadSizeHead(p) \/ DecideRotation(p) \/ TimeoutLong(p) \/
            MergeRead(p) \/ MergeAppend(p) \/ MergeUnlink(p) \/
            LoadLockedHead(p) \/ Replace(p) \/ ZeroHead(p) \/ RotateCopy(p) \/
            StartCycle(p) \/ LoadPeekHead(p) \/ Peek(p) \/ ProcessBatch(p) \/
            ProcessFails(p) \/ Advance(p) \/ SetHead(p) \/ Compact(p)
    <2>1. UNCHANGED locks
      BY <1>7 DEF Capture, TimeoutShort, DropEvent, StatSize, LoadSizeHead,
         DecideRotation, TimeoutLong, MergeRead, MergeAppend, MergeUnlink,
         LoadLockedHead, Replace, ZeroHead, RotateCopy, StartCycle,
         LoadPeekHead, Peek, ProcessBatch, ProcessFails, Advance, SetHead,
         Compact
    <2>2. \A q \in Procs : q # p => pc'[q] = pc[q]
      BY <1>7 DEF Capture, TimeoutShort, DropEvent, StatSize, LoadSizeHead,
         DecideRotation, TimeoutLong, MergeRead, MergeAppend, MergeUnlink,
         LoadLockedHead, Replace, ZeroHead, RotateCopy, StartCycle,
         LoadPeekHead, Peek, ProcessBatch, ProcessFails, Advance, SetHead,
         Compact
    <2>3. p \in acquired => pc'[p] \in Locked
      BY <1>7 DEF Capture, TimeoutShort, DropEvent, StatSize, LoadSizeHead,
         DecideRotation, TimeoutLong, MergeRead, MergeAppend, MergeUnlink,
         LoadLockedHead, Replace, ZeroHead, RotateCopy, StartCycle,
         LoadPeekHead, Peek, ProcessBatch, ProcessFails, Advance, SetHead,
         Compact
    <2>4. pc[p] # "spill" /\ pc'[p] \notin {"append", "spill"}
      BY <1>7 DEF Capture, TimeoutShort, DropEvent, StatSize, LoadSizeHead,
         DecideRotation, TimeoutLong, MergeRead, MergeAppend, MergeUnlink,
         LoadLockedHead, Replace, ZeroHead, RotateCopy, StartCycle,
         LoadPeekHead, Peek, ProcessBatch, ProcessFails, Advance, SetHead,
         Compact
    <2> QED
      BY <2>1, <2>2, <2>3, <2>4
  <1> QED
    BY <1>1, <1>2, <1>3, <1>4, <1>5, <1>6, <1>7
    DEF Step, ProducerStep, ConsumerStep, CaptureStep, SharedStep

\* The lock files exclude: whatever times out and whoever crashes, at most one
\* process holds each of them, inside the section it guards, and nobody ever
\* deletes a lock file that another process has created.
THEOREM LocksExclude == Spec => []LockExclusive
PROOF
  <1>1. Init => LockExclusive
    BY DEF Init, LockExclusive
  <1>2. TypeOK /\ LockExclusive /\ [Next]_vars => LockExclusive'
    <2> SUFFICES ASSUME TypeOK, LockExclusive, [Next]_vars
                 PROVE  LockExclusive'
      OBVIOUS
    <2>1. CASE UNCHANGED vars
      BY <2>1 DEF vars, locks, LockExclusive
    <2> QED
      BY <2>1, StepOfNext, LocksHeld
  <1> QED
    BY <1>1, <1>2, TypeCorrect, PTL DEF Spec
-----------------------------------------------------------------------------
(* What disappears *)

LEMMA RangeOfAppend ==
  ASSUME NEW S, NEW s \in Seq(S), NEW e \in S
  PROVE  ToSet(Append(s, e)) = ToSet(s) \cup {e}
PROOF
  <1>1. ToSet(Append(s, e)) \subseteq ToSet(s) \cup {e}
    BY DEF ToSet
  <1>2. ToSet(s) \subseteq ToSet(Append(s, e))
    BY DEF ToSet
  <1>3. Append(s, e)[Len(s) + 1] = e /\ Len(s) + 1 \in DOMAIN Append(s, e)
    OBVIOUS
  <1> QED
    BY <1>1, <1>2, <1>3 DEF ToSet

LEMMA RangeOfConcat ==
  ASSUME NEW S, NEW s \in Seq(S), NEW t \in Seq(S)
  PROVE  ToSet(s \o t) = ToSet(s) \cup ToSet(t)
PROOF
  <1>1. ToSet(s \o t) \subseteq ToSet(s) \cup ToSet(t)
    BY DEF ToSet
  <1>2. ToSet(s) \subseteq ToSet(s \o t)
    BY DEF ToSet
  <1>3. \A i \in DOMAIN t : /\ Len(s) + i \in DOMAIN (s \o t)
                            /\ (s \o t)[Len(s) + i] = t[i]
    OBVIOUS
  <1> QED
    BY <1>1, <1>2, <1>3 DEF ToSet

\* A line of s is among the first m, or in the cut that starts after them.
LEMMA RangeOfCut ==
  ASSUME NEW S, NEW s \in Seq(S), NEW m \in Nat, NEW n \in Nat,
         m <= n, n <= Len(s), NEW i \in 1..n, i > m
  PROVE  s[i] \in ToSet(SubSeq(s, m + 1, n))
PROOF
  <1>1. i - m \in DOMAIN SubSeq(s, m + 1, n) /\ SubSeq(s, m + 1, n)[i - m] = s[i]
    OBVIOUS
  <1> QED
    BY <1>1 DEF ToSet

LEMMA RangeOfLines ==
  ASSUME NEW S, NEW s \in Seq(S), NEW m \in Nat, NEW T, m <= Len(s),
         \A i \in 1..m : s[i] \in T
  PROVE  ToSet(s) \subseteq T \cup ToSet(Lines(s, m))
PROOF
  <1> SUFFICES ASSUME NEW i \in 1..Len(s)
               PROVE  s[i] \in T \cup ToSet(Lines(s, m))
    BY DEF ToSet
  <1>1. CASE i <= m
    BY <1>1
  <1>2. CASE i > m
    <2>1. Len(s) \in Nat /\ Len(s) <= Len(s)
      OBVIOUS
    <2> QED
      BY <1>2, <2>1, RangeOfCut DEF Lines
  <1> QED
    BY <1>1, <1>2

\* While q is in the locked section, a step of another process p touches
\* neither the queue file nor a temporary file, nor what q has read; it may
\* only spill an event, which is then exposed if q is merging.
LEMMA OthersStayOut ==
  ASSUME Disciplined, TypeOK, LockExclusive, NoLossInv,
         NEW p \in Procs, Step(p), NEW q \in Procs, q # p, pc[q] \in Locked
  PROVE  /\ UNCHANGED <<file, tmp, consumed>>
         /\ pc'[q] = pc[q] /\ pos'[q] = pos[q] /\ buf'[q] = buf[q]
         /\ pc[q] \in {"mergeAppend", "mergeUnlink"} =>
              ToSet(overflow') \ exposed' \subseteq ToSet(overflow) \ exposed
         /\ pc'[p] \notin Locked
PROOF
  <1>1. q \in acquired /\ lockFile /\ p \notin acquired /\ pc[p] \notin Locked
    BY DEF NoLossInv, LockExclusive
  <1>2. crashes = 0 /\ MaxCrashes = 0 /\ ~SlowHolders
    BY DEF Disciplined, TypeOK, HistoryOK
  <1> USE DEF TypeOK, ControlOK, ReadOK, Goto, Locked
  <1>3. CASE Capture(p) \/ TimeoutShort(p) \/ AcquireOver(p) \/ DropEvent(p)
             \/ StatSize(p) \/ LoadSizeHead(p) \/ DecideRotation(p) \/
             StartCycle(p) \/ LoadPeekHead(p) \/ Peek(p) \/ ProcessFails(p)
    BY <1>1, <1>3 DEF files, fate, memory, Forget, LoadHead, Capture,
       TimeoutShort, AcquireOver, DropEvent, StatSize, LoadSizeHead,
       DecideRotation, StartCycle, LoadPeekHead, Peek, ProcessFails
  <1>4. CASE HeadPastEnd(p) \/ WriteBackHead(p)
    BY <1>1, <1>4 DEF files, fate, HeadPastEnd, WriteBackHead
  <1>5. CASE ProcessBatch(p)
    BY <1>1, <1>5 DEF files, ProcessBatch
  <1>6. CASE SpillEvent(p)
    <2>1. ToSet(overflow') = ToSet(overflow) \cup {ev[p]}
      BY <1>6, RangeOfAppend DEF SpillEvent, DiskOK, Capturing
    <2>2. pc[q] \in {"mergeAppend", "mergeUnlink"} =>
            exposed' = exposed \cup {ev[p]}
      BY <1>6 DEF SpillEvent, MergeWindow
    <2> QED
      BY <1>1, <1>6, <2>1, <2>2 DEF SpillEvent, Forget
  <1> QED
    BY <1>1, <1>2, <1>3, <1>4, <1>5, <1>6 DEF Step, ProducerStep,
       ConsumerStep, CaptureStep, SharedStep, AcquireShort, AcquireLong,
       TakeQueueLock, TimeoutLong, WaitsInVain, Crash, AppendEvent, MergeRead,
       MergeAppend, MergeUnlink, LoadLockedHead, RotateCopy, Advance, SetHead,
       Compact, Replace, ZeroHead, Release

\* Who is in the locked section holds the lock.
LEMMA DisciplineKept ==
  ASSUME Disciplined, TypeOK, LockExclusive, NoLossInv,
         NEW p \in Procs, Step(p)
  PROVE  /\ lockFile' => acquired' # {}
         /\ \A q \in Procs : pc'[q] \in Locked => q \in acquired'
PROOF
  <1>1. crashes = 0 /\ MaxCrashes = 0 /\ ~SlowHolders
    BY DEF Disciplined, TypeOK, HistoryOK
  <1>2. /\ lockFile => acquired # {}
        /\ \A q \in Procs : pc[q] \in Locked => q \in acquired
        /\ \A q, r \in acquired : q = r
    BY DEF NoLossInv, LockExclusive
  <1> USE DEF TypeOK, ControlOK, LocksOK, Goto, Locked, locks
  <1>3. CASE AcquireShort(p) \/ AcquireLong(p)
    BY <1>2, <1>3 DEF AcquireShort, AcquireLong, TakeQueueLock
  <1>4. CASE AppendEvent(p) \/ Release(p)
    BY <1>2, <1>4 DEF AppendEvent, Release, DropQueueLock
  <1>5. CASE SpillEvent(p) \/ AcquireOver(p)
    BY <1>2, <1>5 DEF SpillEvent, AcquireOver
  <1>6. CASE HeadPastEnd(p) \/ WriteBackHead(p)
    BY <1>2, <1>6 DEF HeadPastEnd, WriteBackHead
  <1>7. CASE Capture(p) \/ TimeoutShort(p) \/ DropEvent(p) \/ StatSize(p) \/
             LoadSizeHead(p) \/ DecideRotation(p) \/ MergeRead(p) \/
             MergeAppend(p) \/ MergeUnlink(p) \/ LoadLockedHead(p) \/
             Replace(p) \/ ZeroHead(p) \/ RotateCopy(p) \/ StartCycle(p) \/
             LoadPeekHead(p) \/ Peek(p) \/ ProcessBatch(p) \/ ProcessFails(p)
             \/ Advance(p) \/ SetHead(p) \/ Compact(p)
    BY <1>2, <1>7 DEF Capture, TimeoutShort, DropEvent, StatSize,
       LoadSizeHead, DecideRotation, MergeRead, MergeAppend, MergeUnlink,
       LoadLockedHead, Replace, ZeroHead, RotateCopy, StartCycle,
       LoadPeekHead, Peek, ProcessBatch, ProcessFails, Advance, SetHead,
       Compact
  <1> QED
    BY <1>1, <1>2, <1>3, <1>4, <1>5, <1>6, <1>7
    DEF Step, ProducerStep, ConsumerStep, CaptureStep, SharedStep,
        TimeoutLong, WaitsInVain, Crash

\* No step of p takes an accepted event away.
LEMMA KeptKept ==
  ASSUME Disciplined, TypeOK, LockExclusive, NoLossInv,
         NEW p \in Procs, Step(p)
  PROVE  Kept'
PROOF
  <1> USE DEF NoLossInv, Kept, TypeOK
  <1>1. CASE AppendEvent(p)
    BY <1>1, RangeOfAppend DEF AppendEvent, DiskOK, HistoryOK, ControlOK, Goto,
       Capturing
  <1>2. CASE SpillEvent(p)
    BY <1>2, RangeOfAppend DEF SpillEvent, DiskOK, HistoryOK, ControlOK, Goto,
       Capturing
  <1>3. CASE MergeAppend(p)
    BY <1>3, RangeOfConcat DEF MergeAppend, DiskOK, ReadOK, fate
  <1>4. CASE MergeUnlink(p)
    <2>1. ToSet(overflow) \ exposed \subseteq ToSet(file)
      BY <1>4 DEF MergeUnlink, SectionInv, Goto
    <2>2. UNCHANGED <<file, direct, spilled, exposed, consumed, evicted>>
      BY <1>4 DEF MergeUnlink, fate
    <2> QED
      BY <2>1, <2>2
  <1>5. CASE Replace(p)
    BY <1>5 DEF Replace, SectionInv, Goto
  <1>6. CASE SetHead(p)
    BY <1>6 DEF SetHead, files
  <1>7. CASE Capture(p) \/ AcquireShort(p) \/ TimeoutShort(p) \/
             AcquireOver(p) \/ DropEvent(p) \/ StatSize(p) \/ LoadSizeHead(p)
             \/ DecideRotation(p) \/ HeadPastEnd(p) \/ WriteBackHead(p) \/
             AcquireLong(p) \/ TimeoutLong(p) \/ MergeRead(p) \/
             LoadLockedHead(p) \/ ZeroHead(p) \/ Release(p) \/ RotateCopy(p)
             \/ StartCycle(p) \/ LoadPeekHead(p) \/ Peek(p) \/ ProcessBatch(p)
             \/ ProcessFails(p) \/ Advance(p) \/ Compact(p) \/ Crash(p)
    <2>1. UNCHANGED <<file, overflow, direct, spilled, exposed, consumed, evicted>>
      BY <1>7 DEF files, fate, Capture, AcquireShort, TimeoutShort,
         AcquireOver, DropEvent, StatSize, LoadSizeHead, DecideRotation,
         HeadPastEnd, WriteBackHead, AcquireLong, TimeoutLong, MergeRead,
         LoadLockedHead, ZeroHead, Release, RotateCopy, StartCycle,
         LoadPeekHead, Peek, ProcessBatch, ProcessFails, Advance, Compact,
         Crash
    <2> QED
      BY <2>1
  <1> QED
    BY <1>1, <1>2, <1>3, <1>4, <1>5, <1>6, <1>7 DEF Step, ProducerStep,
       ConsumerStep, CaptureStep, SharedStep

\* No step of p leaves a head that skips a line.
LEMMA HeadKept ==
  ASSUME Disciplined, TypeOK, LockExclusive, NoLossInv,
         NEW p \in Procs, Step(p)
  PROVE  HeadOverConsumed'
PROOF
  <1> DEFINE Zeroing == \E q \in Procs : pc[q] = "zeroHead"
  <1>1. pc[p] \in Locked => \A q \in Procs \ {p} : pc[q] \notin Locked
    BY DEF NoLossInv, LockExclusive
  <1>2. /\ head <= Len(file) \/ Zeroing
        /\ Zeroing \/ \A i \in 1..head : file[i] \in consumed
    BY DEF NoLossInv, HeadOverConsumed, LogicalHead
  <1>3. SUFFICES ASSUME ~Zeroing'
                 PROVE  /\ head' <= Len(file')
                        /\ \A i \in 1..head' : file'[i] \in consumed'
    BY DiskTyped DEF HeadOverConsumed, LogicalHead, DiskOK
  <1>4. crashes = 0 /\ MaxCrashes = 0
    BY DEF Disciplined, TypeOK, HistoryOK
  <1> USE DEF TypeOK, DiskOK, ControlOK, Goto, Locked
  <1>5. CASE AppendEvent(p)
    <2>1. ~Zeroing
      BY <1>1, <1>5 DEF AppendEvent
    <2>2. ev[p] \in Events
      BY <1>5 DEF AppendEvent, Capturing
    <2> QED
      BY <1>2, <1>5, <2>1, <2>2 DEF AppendEvent
  <1>6. CASE MergeAppend(p)
    <2>1. ~Zeroing
      BY <1>1, <1>6 DEF MergeAppend
    <2> QED
      BY <1>2, <1>6, <2>1 DEF MergeAppend, ReadOK, fate
  <1>7. CASE Replace(p)
    <2>1. ~Zeroing
      BY <1>1, <1>7 DEF Replace
    <2>2. UNCHANGED <<file, head, consumed>>
      BY <1>3, <1>7 DEF Replace
    <2> QED
      BY <1>2, <2>1, <2>2
  <1>8. CASE WriteBackHead(p) \/ ZeroHead(p)
    <2>1. head' = 0 /\ file' = file
      BY <1>8 DEF WriteBackHead, ZeroHead, files
    <2> QED
      BY <2>1
  <1>9. CASE Advance(p)
    <2>1. ~Zeroing
      BY <1>1, <1>9 DEF Advance
    <2>2. head' \in {0, head} /\ UNCHANGED <<file, consumed>>
      BY <1>9 DEF Advance, files, fate
    <2> QED
      BY <1>2, <2>1, <2>2
  <1>10. CASE SetHead(p)
    <2>1. Passed(pos[p], consumed \cup ToSet(buf[p]))
      BY <1>10 DEF SetHead, NoLossInv, SectionInv
    <2> QED
      BY <1>10, <2>1 DEF SetHead, Passed, files
  <1>11. CASE Capture(p) \/ AcquireShort(p) \/ TimeoutShort(p) \/
              AcquireOver(p) \/ DropEvent(p) \/ SpillEvent(p) \/ StatSize(p)
              \/ LoadSizeHead(p) \/ DecideRotation(p) \/ HeadPastEnd(p) \/
              AcquireLong(p) \/ TimeoutLong(p) \/ MergeRead(p) \/
              MergeUnlink(p) \/ LoadLockedHead(p) \/ Release(p) \/
              RotateCopy(p) \/ StartCycle(p) \/ LoadPeekHead(p) \/ Peek(p) \/
              ProcessBatch(p) \/ ProcessFails(p) \/ Compact(p)
    <2>1. UNCHANGED <<file, head, consumed>>
      BY <1>11 DEF files, fate, Capture, AcquireShort, TimeoutShort,
         AcquireOver, DropEvent, SpillEvent, StatSize, LoadSizeHead,
         DecideRotation, HeadPastEnd, AcquireLong, TimeoutLong, MergeRead,
         MergeUnlink, LoadLockedHead, Release, RotateCopy, StartCycle,
         LoadPeekHead, Peek, ProcessBatch, ProcessFails, Compact
    <2>2. pc[p] # "zeroHead" /\ \A q \in Procs \ {p} : pc'[q] = pc[q]
      BY <1>11 DEF Capture, AcquireShort, TimeoutShort, AcquireOver,
         DropEvent, SpillEvent, StatSize, LoadSizeHead, DecideRotation,
         HeadPastEnd, AcquireLong, TimeoutLong, MergeRead, MergeUnlink,
         LoadLockedHead, Release, RotateCopy, StartCycle, LoadPeekHead, Peek,
         ProcessBatch, ProcessFails, Compact
    <2> QED
      BY <1>2, <1>3, <2>1, <2>2
  <1> QED
    BY <1>4, <1>5, <1>6, <1>7, <1>8, <1>9, <1>10, <1>11 DEF Crash, Step,
       ProducerStep, ConsumerStep, CaptureStep, SharedStep

\* The holder of the lock knows, after each of its steps, what it will rely on
\* in the next one.
LEMMA SectionKept ==
  ASSUME Disciplined, TypeOK, LockExclusive, NoLossInv,
         NEW p \in Procs, Step(p), NEW q \in Procs
  PROVE  SectionInv(q)'
PROOF
  <1> USE DEF TypeOK, ControlOK, Goto, Locked
  <1>1. ASSUME q # p PROVE SectionInv(q)'
    <2>1. CASE pc[q] \in Locked
      BY <1>1, <2>1, OthersStayOut DEF NoLossInv, SectionInv, Passed, TmpOf
    <2>2. CASE pc[q] \notin Locked
      <3>1. pc'[q] = pc[q]
        BY <1>1 DEF Step, ProducerStep, ConsumerStep, CaptureStep, SharedStep,
           Capture, AcquireShort, TimeoutShort, AppendEvent, AcquireOver,
           DropEvent, SpillEvent, StatSize, LoadSizeHead, DecideRotation,
           HeadPastEnd, WriteBackHead, AcquireLong, TimeoutLong, MergeRead,
           MergeAppend, MergeUnlink, LoadLockedHead, Replace, ZeroHead,
           Release, RotateCopy, StartCycle, LoadPeekHead, Peek, ProcessBatch,
           ProcessFails, Advance, SetHead, Compact, Crash
      <3> QED
        BY <2>2, <3>1 DEF SectionInv
    <2> QED
      BY <2>1, <2>2
  <1> SUFFICES SectionInv(p)'
    BY <1>1
  <1>2. SectionInv(p) /\ HeadOverConsumed
    BY DEF NoLossInv
  <1>3. CASE MergeRead(p)
    BY <1>3 DEF MergeRead, SectionInv, ReadOK, files, fate
  <1>4. CASE MergeAppend(p)
    <2>1. ToSet(file') = ToSet(file) \cup ToSet(buf[p])
      BY <1>4, RangeOfConcat DEF MergeAppend, DiskOK, ReadOK
    <2>2. ToSet(overflow) \ exposed \subseteq ToSet(buf[p])
      BY <1>2, <1>4 DEF MergeAppend, SectionInv
    <2> QED
      BY <1>4, <2>1, <2>2 DEF MergeAppend, SectionInv, fate
  <1>5. CASE LoadLockedHead(p)
    <2>1. \A r \in Procs : pc[r] # "zeroHead"
      BY <1>5 DEF LoadLockedHead, NoLossInv, LockExclusive
    <2>2. Passed(head, consumed)
      BY <1>2, <2>1 DEF HeadOverConsumed, LogicalHead, Passed
    <2> QED
      BY <1>5, <2>2 DEF LoadLockedHead, LoadHead, SectionInv, Passed, ReadOK,
                        files, fate
  <1>6. CASE HeadPastEnd(p)
    BY <1>2, <1>6 DEF HeadPastEnd, SectionInv, Passed, ReadOK, DiskOK, files,
                      fate
  <1>7. CASE WriteBackHead(p)
    BY <1>2, <1>7 DEF WriteBackHead, SectionInv, Passed, files, fate
  <1>8. CASE RotateCopy(p)
    <2>1. Passed(pos[p], consumed)
      BY <1>2, <1>8 DEF RotateCopy, SectionInv
    <2>2. ToSet(file) \subseteq consumed \cup ToSet(Lines(file, pos[p]))
      BY <2>1, RangeOfLines DEF Passed, DiskOK, ReadOK
    <2>3. buf'[p] = Lines(file, pos[p])
      BY <1>8 DEF RotateCopy, ReadOK
    <2> QED
      BY <1>8, <2>2, <2>3 DEF RotateCopy, SectionInv, fate
  <1>9. CASE Advance(p)
    <2> DEFINE n == Least(arg[p], Len(file) - pos[p])
    <2>1. Passed(pos[p], consumed)
      BY <1>2, <1>9 DEF Advance, SectionInv
    <2>2. n \in Nat /\ pos[p] + n <= Len(file)
      BY <2>1 DEF Passed, Least, ReadOK, DiskOK
    <2>3. \A i \in 1..(pos[p] + n) :
            i <= pos[p] \/ file[i] \in ToSet(SubSeq(file, pos[p] + 1, pos[p] + n))
      BY <2>2, RangeOfCut DEF DiskOK, ReadOK
    <2> HIDE DEF n
    <2>4. /\ pos'[p] = pos[p] + n
          /\ buf'[p] = SubSeq(file, pos[p] + 1, pos[p] + n)
          /\ UNCHANGED <<file, consumed>>
          /\ pc'[p] \in {"release", "setHead"}
      BY <1>9 DEF Advance, n, ReadOK, files, fate
    <2>5. Passed(pos[p] + n, consumed \cup ToSet(buf'[p]))
      <3>1. pos[p] \in Nat
        BY DEF ReadOK
      <3>2. ASSUME NEW i \in 1..(pos[p] + n)
            PROVE  file[i] \in consumed \cup ToSet(buf'[p])
        <4>1. CASE i <= pos[p]
          <5>1. i \in 1..pos[p]
            BY <2>2, <3>1, <4>1
          <5> QED
            BY <2>1, <5>1 DEF Passed
        <4>2. CASE ~(i <= pos[p])
          BY <2>3, <2>4, <4>2
        <4> QED
          BY <4>1, <4>2
      <3> QED
        BY <2>2, <3>2 DEF Passed
    <2> QED
      BY <2>4, <2>5 DEF SectionInv, Passed
  <1>10. CASE SetHead(p)
    <2>1. Passed(pos[p], consumed')
      BY <1>2, <1>10 DEF SetHead, SectionInv
    <2> QED
      BY <1>10, <2>1 DEF SetHead, SectionInv, Passed, files
  <1>11. CASE p \in Consumers /\ Compact(p)
    <2>1. Passed(pos[p], consumed)
      BY <1>2, <1>11 DEF Compact, SectionInv
    <2>2. ToSet(file) \subseteq consumed \cup ToSet(Lines(file, pos[p]))
      BY <2>1, RangeOfLines DEF Passed, DiskOK, ReadOK
    <2>3. TmpOf(p) = "compact"
      BY <1>11, ProcsAssumption DEF TmpOf
    <2> QED
      BY <1>11, <2>2, <2>3 DEF Compact, SectionInv, DiskOK, fate
  <1>12. CASE Capture(p) \/ AcquireShort(p) \/ TimeoutShort(p) \/
              AppendEvent(p) \/ AcquireOver(p) \/ DropEvent(p) \/
              SpillEvent(p) \/ StatSize(p) \/ LoadSizeHead(p) \/
              DecideRotation(p) \/ AcquireLong(p) \/ TimeoutLong(p) \/
              MergeUnlink(p) \/ Replace(p) \/ ZeroHead(p) \/ Release(p) \/
              StartCycle(p) \/ LoadPeekHead(p) \/ Peek(p) \/ ProcessBatch(p)
              \/ ProcessFails(p) \/ Crash(p)
    <2>1. pc'[p] \notin {"mergeAppend", "mergeUnlink", "rotate", "advance",
                         "compact", "setHead", "replace"}
      BY <1>12 DEF Capture, AcquireShort, TimeoutShort, AppendEvent,
         AcquireOver, DropEvent, SpillEvent, StatSize, LoadSizeHead,
         DecideRotation, AcquireLong, TimeoutLong, MergeUnlink, Replace,
         ZeroHead, Release, StartCycle, LoadPeekHead, Peek, ProcessBatch,
         ProcessFails, Crash
    <2> QED
      BY <2>1 DEF SectionInv
  <1> QED
    BY <1>3, <1>4, <1>5, <1>6, <1>7, <1>8, <1>9, <1>10, <1>11, <1>12 DEF Step,
       ProducerStep, ConsumerStep, CaptureStep, SharedStep

\* While the locks are respected, every step of a merge, a rotation or a
\* compaction keeps what NoLossInv says of the files and of the lock holder.
THEOREM SectionsKeepTheirLines ==
  ASSUME Disciplined
  PROVE  Spec => []NoLossInv
PROOF
  <1>1. Init => NoLossInv
    BY DEF Init, NoLossInv, Kept, HeadOverConsumed, LogicalHead, SectionInv,
           Locked, ToSet
  <1>2. TypeOK /\ LockExclusive /\ NoLossInv /\ [Next]_vars => NoLossInv'
    <2> SUFFICES ASSUME TypeOK, LockExclusive, NoLossInv, [Next]_vars
                 PROVE  NoLossInv'
      OBVIOUS
    <2>1. CASE UNCHANGED vars
      BY <2>1 DEF vars, files, locks, memory, fate, NoLossInv, Kept,
                  HeadOverConsumed, LogicalHead, SectionInv, Passed
    <2>2. CASE \E p \in Procs : Step(p)
      BY <2>2, DisciplineKept, KeptKept, HeadKept, SectionKept DEF NoLossInv
    <2> QED
      BY <2>1, <2>2, StepOfNext
  <1> QED
    BY <1>1, <1>2, TypeCorrect, LocksExclude, PTL DEF Spec

\* Merges, rotations and compactions leave no head that skips a line which was
\* not consumed.
THEOREM HeadSkipsNothing ==
  ASSUME Disciplined
  PROVE  Spec => []HeadOverConsumed
PROOF
  <1>1. NoLossInv => HeadOverConsumed
    BY DEF NoLossInv
  <1> QED
    BY <1>1, SectionsKeepTheirLines, PTL

\* The rewrites of the queue file lose nothing but what is spilled into a merge
\* window.
THEOREM NoLoss ==
  ASSUME Disciplined
  PROVE  Spec => []LossOnlyInMergeWindow
PROOF
  <1>1. TypeOK /\ NoLossInv => LossOnlyInMergeWindow
    <2> SUFFICES ASSUME TypeOK, NoLossInv
                 PROVE  LossOnlyInMergeWindow
      OBVIOUS
    <2>1. LogicalHead \in Nat /\ LogicalHead <= Len(file)
      BY DEF NoLossInv, HeadOverConsumed, LogicalHead, TypeOK, DiskOK
    <2>2. ToSet(file) \subseteq consumed \cup Active
      BY <2>1, RangeOfLines
      DEF Active, NoLossInv, HeadOverConsumed, TypeOK, DiskOK
    <2> QED
      BY <2>2 DEF LossOnlyInMergeWindow, Accounted, NoLossInv, Kept
  <1> QED
    BY <1>1, SectionsKeepTheirLines, TypeCorrect, PTL
-----------------------------------------------------------------------------
(* The order of what stays *)

\* What DirectLinesAreNewest says of any two sequences.
Newest(f, d) ==
  /\ \A i, j \in 1..Len(f) : f[i] = f[j] /\ f[i] \in ToSet(d) => i = j
  /\ \A i \in 1..Len(f), k \in 1..Len(d) :
       f[i] = d[k] => \A m \in k + 1 .. Len(d) : \E j \in i + 1 .. Len(f) : f[j] = d[m]

\* The end of a file.
TailOf(t, f) ==
  /\ t \in Seq(Events) /\ Len(t) <= Len(f)
  /\ \A i \in 1..Len(t) : t[i] = f[Len(f) - Len(t) + i]

\* A number is given to one capture, which writes it to one file.
Unwritten(p) ==
  pc[p] \in Capturing =>
    /\ ev[p] \in 1..next
    /\ ev[p] \notin ToSet(direct) \cup spilled
    /\ \A q \in Procs : pc[q] \in Capturing /\ ev[q] = ev[p] => q = p

Numbered == /\ \A p \in Procs : Unwritten(p)
            /\ ToSet(direct) \cup spilled \subseteq 1..next
            /\ ToSet(direct) \cap spilled = {}

\* Where the lines of the files come from.
Sourced == /\ ToSet(file) \subseteq ToSet(direct) \cup spilled
          /\ ToSet(overflow) \subseteq spilled
          /\ \A p \in Procs : pc[p] = "mergeAppend" => ToSet(buf[p]) \subseteq spilled

\* What a rotation or a compaction is about to put in place.
CopyIsTail(p) ==
  pc[p] = "replace" => tmp[TmpOf(p)] = NoFile \/ TailOf(tmp[TmpOf(p)], file)

OrderInv == /\ Numbered /\ Sourced
            /\ \A p \in Procs : CopyIsTail(p)
            /\ DirectLinesAreNewest

LEMMA TailIsNewest ==
  ASSUME NEW f \in Seq(Events), NEW d \in Seq(Events), NEW t, TailOf(t, f), Newest(f, d)
  PROVE  Newest(t, d)
PROOF
  <1> DEFINE g == Len(f) - Len(t)
  <1>1. /\ Len(f) \in Nat /\ Len(t) \in Nat /\ Len(d) \in Nat /\ Len(f) = g + Len(t) /\ g \in Nat
        /\ \A i \in 1..Len(t) : g + i \in 1..Len(f) /\ t[i] = f[g + i]
    BY DEF TailOf
  <1> HIDE DEF g
  <1>2. ASSUME NEW i \in 1..Len(t), NEW j \in 1..Len(t), t[i] = t[j], t[i] \in ToSet(d)
        PROVE  i = j
    <2>1. g + i = g + j
      BY <1>1, <1>2 DEF Newest
    <2> QED
      BY <1>1, <2>1
  <1>3. ASSUME NEW i \in 1..Len(t), NEW k \in 1..Len(d), t[i] = d[k], NEW m \in k + 1 .. Len(d)
        PROVE  \E j \in i + 1 .. Len(t) : t[j] = d[m]
    <2>1. PICK j \in g + i + 1 .. Len(f) : f[j] = d[m]
      BY <1>1, <1>3 DEF Newest
    <2>2. j - g \in i + 1 .. Len(t) /\ j - g \in 1..Len(t) /\ g + (j - g) = j
      BY <1>1
    <2>3. t[j - g] = d[m]
      BY <1>1, <2>1, <2>2
    <2> QED
      BY <2>2, <2>3
  <1> QED
    BY <1>2, <1>3 DEF Newest

LEMMA AppendIsNewest ==
  ASSUME NEW f \in Seq(Events), NEW d \in Seq(Events), NEW e \in Events,
         e \notin ToSet(f), e \notin ToSet(d), Newest(f, d)
  PROVE  Newest(Append(f, e), Append(d, e))
PROOF
  <1> DEFINE F == Append(f, e)
             D == Append(d, e)
  <1>1. /\ Len(f) \in Nat /\ Len(d) \in Nat /\ Len(F) = Len(f) + 1 /\ Len(D) = Len(d) + 1
        /\ F[Len(f) + 1] = e /\ D[Len(d) + 1] = e
        /\ \A i \in 1..Len(f) : F[i] = f[i]
        /\ \A i \in 1..Len(d) : D[i] = d[i]
    OBVIOUS
  <1>2. ToSet(D) = ToSet(d) \cup {e}
    BY RangeOfAppend
  <1>3. /\ \A i \in 1..Len(f) : f[i] # e
        /\ \A i \in 1..Len(d) : d[i] # e
    BY DEF ToSet
  <1> HIDE DEF F, D
  <1>4. /\ \A i \in 1..Len(F) : i \in 1..Len(f) \/ i = Len(f) + 1
        /\ \A i \in 1..Len(D) : i \in 1..Len(d) \/ i = Len(d) + 1
    BY <1>1
  <1>5. ASSUME NEW i \in 1..Len(F), NEW j \in 1..Len(F), F[i] = F[j], F[i] \in ToSet(D)
        PROVE  i = j
    <2>1. CASE i \in 1..Len(f) /\ j \in 1..Len(f)
      BY <1>1, <1>2, <1>3, <1>5, <2>1 DEF Newest
    <2>2. CASE i = Len(f) + 1 \/ j = Len(f) + 1
      BY <1>1, <1>3, <1>4, <1>5, <2>2
    <2> QED
      BY <1>4, <2>1, <2>2
  <1>6. ASSUME NEW i \in 1..Len(F), NEW k \in 1..Len(D), F[i] = D[k], NEW m \in k + 1 .. Len(D)
        PROVE  \E j \in i + 1 .. Len(F) : F[j] = D[m]
    <2>1. k \in 1..Len(d) /\ i \in 1..Len(f) /\ f[i] = d[k]
      <3>1. k \in 1..Len(d)
        BY <1>1
      <3> QED
        BY <1>1, <1>3, <1>4, <1>6, <3>1
    <2>2. CASE m = Len(d) + 1
      <3>1. Len(f) + 1 \in i + 1 .. Len(F)
        BY <1>1, <2>1
      <3> QED
        BY <1>1, <2>2, <3>1
    <2>3. CASE m # Len(d) + 1
      <3>1. m \in k + 1 .. Len(d) /\ m \in 1..Len(d)
        BY <1>1, <2>1, <2>3
      <3>2. PICK j \in i + 1 .. Len(f) : f[j] = d[m]
        BY <2>1, <3>1 DEF Newest
      <3>3. j \in i + 1 .. Len(F) /\ j \in 1..Len(f)
        BY <1>1, <2>1
      <3> QED
        BY <1>1, <3>1, <3>2, <3>3
    <2> QED
      BY <2>2, <2>3
  <1>7. Newest(F, D)
    BY <1>5, <1>6 DEF Newest
  <1> QED
    BY <1>7 DEF F, D

LEMMA MergeIsNewest ==
  ASSUME NEW f \in Seq(Events), NEW d \in Seq(Events), NEW b \in Seq(Events),
         ToSet(b) \cap ToSet(d) = {}, Newest(f, d)
  PROVE  Newest(f \o b, d)
PROOF
  <1> DEFINE F == f \o b
  <1>1. /\ Len(f) \in Nat /\ Len(b) \in Nat /\ Len(d) \in Nat /\ Len(F) = Len(f) + Len(b)
        /\ \A i \in 1..Len(f) : F[i] = f[i] /\ i \in 1..Len(F)
        /\ \A i \in 1..Len(F) :
             i \notin 1..Len(f) => F[i] = b[i - Len(f)] /\ i - Len(f) \in 1..Len(b)
    <2>1. Len(f) \in Nat /\ Len(b) \in Nat /\ Len(d) \in Nat /\ Len(F) = Len(f) + Len(b)
      OBVIOUS
    <2>2. \A i \in 1..Len(f) : F[i] = f[i] /\ i \in 1..Len(F)
      OBVIOUS
    <2>3. ASSUME NEW i \in 1..Len(F), i \notin 1..Len(f)
          PROVE  F[i] = b[i - Len(f)] /\ i - Len(f) \in 1..Len(b)
      <3>1. i - Len(f) \in 1..Len(b) /\ i \in 1 .. Len(f) + Len(b) /\ ~(i <= Len(f))
        BY <2>1, <2>3
      <3>2. \A j \in 1..Len(b) : F[Len(f) + j] = b[j]
        OBVIOUS
      <3>3. Len(f) + (i - Len(f)) = i
        BY <2>1
      <3> HIDE DEF F
      <3>4. F[Len(f) + (i - Len(f))] = b[i - Len(f)]
        BY <3>1, <3>2
      <3> QED
        BY <3>1, <3>3, <3>4
    <2> QED
      BY <2>1, <2>2, <2>3
  <1>2. \A k \in 1..Len(d) : d[k] \in ToSet(d)
    BY DEF ToSet
  <1>3. \A i \in 1..Len(b) : b[i] \notin ToSet(d)
    <2>1. \A i \in 1..Len(b) : b[i] \in ToSet(b)
      BY DEF ToSet
    <2> QED
      BY <2>1
  <1> HIDE DEF F
  <1>4. \A i \in 1..Len(F) : F[i] \in ToSet(d) => i \in 1..Len(f)
    BY <1>1, <1>3
  <1>5. ASSUME NEW i \in 1..Len(F), NEW j \in 1..Len(F), F[i] = F[j], F[i] \in ToSet(d)
        PROVE  i = j
    <2>1. i \in 1..Len(f) /\ j \in 1..Len(f)
      BY <1>4, <1>5
    <2> QED
      BY <1>1, <1>5, <2>1 DEF Newest
  <1>6. ASSUME NEW i \in 1..Len(F), NEW k \in 1..Len(d), F[i] = d[k], NEW m \in k + 1 .. Len(d)
        PROVE  \E j \in i + 1 .. Len(F) : F[j] = d[m]
    <2>1. i \in 1..Len(f) /\ f[i] = d[k]
      BY <1>1, <1>2, <1>4, <1>6
    <2>2. PICK j \in i + 1 .. Len(f) : f[j] = d[m]
      BY <2>1 DEF Newest
    <2>3. j \in i + 1 .. Len(F) /\ j \in 1..Len(f)
      BY <1>1, <2>1
    <2> QED
      BY <1>1, <2>2, <2>3
  <1>7. Newest(F, d)
    BY <1>5, <1>6 DEF Newest
  <1> QED
    BY <1>7 DEF F

LEMMA LinesAreTail ==
  ASSUME NEW f \in Seq(Events), NEW m \in Nat, NEW n \in Nat, m <= Len(f)
  PROVE  TailOf(Lines(f, m), f) /\ TailOf(TailLines(Lines(f, m), n), f)
PROOF
  <1>1. ASSUME NEW g \in Seq(Events), NEW k \in Nat, k <= Len(g)
        PROVE  /\ Lines(g, k) \in Seq(Events) /\ Len(Lines(g, k)) = Len(g) - k
               /\ \A i \in 1 .. Len(g) - k : Lines(g, k)[i] = g[k + i]
    BY <1>1 DEF Lines
  <1>2. PICK g : g = Lines(f, m)
    OBVIOUS
  <1>3. /\ Len(f) \in Nat /\ g \in Seq(Events) /\ Len(g) = Len(f) - m
        /\ \A i \in 1 .. Len(f) - m : g[i] = f[m + i]
    BY <1>1, <1>2
  <1>4. TailOf(g, f)
    BY <1>3 DEF TailOf
  <1>5. PICK k : k = IF Len(g) > n THEN Len(g) - n ELSE 0
    OBVIOUS
  <1>6. k \in Nat /\ k <= Len(g) /\ TailLines(g, n) = Lines(g, k)
    BY <1>3, <1>5 DEF TailLines
  <1>7. PICK t : t = Lines(g, k)
    OBVIOUS
  <1>8. t \in Seq(Events) /\ Len(t) = Len(g) - k /\ \A i \in 1 .. Len(g) - k : t[i] = g[k + i]
    BY <1>1, <1>3, <1>6, <1>7
  <1>9. TailOf(t, f)
    <2>1. Len(t) \in Nat /\ Len(t) = Len(f) - m - k /\ Len(t) <= Len(f)
      BY <1>3, <1>6, <1>8
    <2>2. ASSUME NEW i \in 1..Len(t) PROVE t[i] = f[Len(f) - Len(t) + i]
      <3>1. i \in 1 .. Len(g) - k /\ k + i \in 1 .. Len(f) - m
        BY <1>3, <1>6, <1>8, <2>1
      <3>2. m + (k + i) = Len(f) - Len(t) + i
        BY <1>3, <1>6, <2>1
      <3> QED
        BY <1>3, <1>8, <3>1, <3>2
    <2> QED
      BY <1>8, <2>1, <2>2 DEF TailOf
  <1> QED
    BY <1>2, <1>4, <1>6, <1>7, <1>9

LEMMA TailIsPart ==
  ASSUME NEW f \in Seq(Events), NEW t, TailOf(t, f)
  PROVE  ToSet(t) \subseteq ToSet(f)
PROOF
  <1>1. Len(f) \in Nat /\ Len(t) \in Nat /\ t \in Seq(Events)
    BY DEF TailOf
  <1>2. \A i \in 1..Len(t) : Len(f) - Len(t) + i \in 1..Len(f)
    BY <1>1 DEF TailOf
  <1> QED
    BY <1>1, <1>2 DEF TailOf, ToSet

LEMMA OrderInit == Init => OrderInv
PROOF
  BY DEF Init, OrderInv, Numbered, Unwritten, Sourced, CopyIsTail, DirectLinesAreNewest,
         Capturing, ToSet

\* A step of p changes neither where the others are nor what they capture.
LEMMA OthersKeepTheirs ==
  ASSUME TypeOK, NEW p \in Procs, Step(p), NEW q \in Procs, q # p
  PROVE  pc'[q] = pc[q] /\ ev'[q] = ev[q]
PROOF
  <1> USE DEF TypeOK, ControlOK, Step, ProducerStep, ConsumerStep, CaptureStep, SharedStep
  <1>1. pc'[q] = pc[q]
    BY DEF Goto, Capture, AcquireShort, TimeoutShort, AppendEvent, AcquireOver,
       DropEvent, SpillEvent, StatSize, LoadSizeHead, DecideRotation, HeadPastEnd,
       WriteBackHead, AcquireLong, TimeoutLong, MergeRead, MergeAppend, MergeUnlink,
       LoadLockedHead, Replace, ZeroHead, Release, RotateCopy, StartCycle, LoadPeekHead,
       Peek, ProcessBatch, ProcessFails, Advance, SetHead, Compact, Crash
  <1>2. ev'[q] = ev[q]
    BY DEF memory, Forget, LoadHead, Capture, AcquireShort, TimeoutShort, AppendEvent,
       AcquireOver, DropEvent, SpillEvent, StatSize, LoadSizeHead, DecideRotation,
       HeadPastEnd, WriteBackHead, AcquireLong, TimeoutLong, MergeRead, MergeAppend,
       MergeUnlink, LoadLockedHead, Replace, ZeroHead, Release, RotateCopy, StartCycle,
       LoadPeekHead, Peek, ProcessBatch, ProcessFails, Advance, SetHead, Compact, Crash
  <1> QED
    BY <1>1, <1>2

\* Every step but the capture and its two writes.
LEMMA OthersWriteNothing ==
  ASSUME TypeOK, NEW p \in Procs, Step(p),
         ~Capture(p), ~AppendEvent(p), ~SpillEvent(p)
  PROVE  /\ UNCHANGED <<next, direct, spilled>>
         /\ pc'[p] \in Capturing => pc[p] \in Capturing /\ ev'[p] = ev[p]
PROOF
  <1> USE DEF TypeOK, ControlOK, Goto
  <1>1. CASE AcquireShort(p) \/ TimeoutShort(p) \/ AcquireOver(p) \/ HeadPastEnd(p)
             \/ WriteBackHead(p)
    BY <1>1 DEF AcquireShort, TimeoutShort, AcquireOver, HeadPastEnd, WriteBackHead,
       Capturing, memory, fate, bounds
  <1>2. CASE \/ DropEvent(p) \/ StatSize(p) \/ LoadSizeHead(p) \/ DecideRotation(p)
             \/ AcquireLong(p) \/ TimeoutLong(p) \/ MergeRead(p) \/ MergeAppend(p)
             \/ MergeUnlink(p) \/ LoadLockedHead(p) \/ Replace(p) \/ ZeroHead(p)
             \/ Release(p) \/ RotateCopy(p) \/ StartCycle(p) \/ LoadPeekHead(p)
             \/ Peek(p) \/ ProcessBatch(p) \/ ProcessFails(p) \/ Advance(p)
             \/ SetHead(p) \/ Compact(p) \/ Crash(p)
    BY <1>2 DEF DropEvent, StatSize, LoadSizeHead, DecideRotation, AcquireLong,
       TimeoutLong, MergeRead, MergeAppend, MergeUnlink, LoadLockedHead, Replace,
       ZeroHead, Release, RotateCopy, StartCycle, LoadPeekHead, Peek, ProcessBatch,
       ProcessFails, Advance, SetHead, Compact, Crash, Capturing, fate, bounds
  <1> QED
    BY <1>1, <1>2 DEF Step, ProducerStep, ConsumerStep, CaptureStep, SharedStep

\* A number stays the number of one event, written once.
LEMMA NumberedKept ==
  ASSUME TypeOK, Numbered, NEW p \in Procs, Step(p)
  PROVE  Numbered'
PROOF
  <1>0. /\ \A q \in Procs : q # p => pc'[q] = pc[q] /\ ev'[q] = ev[q]
        /\ next \in Nat /\ pc \in [Procs -> PCs] /\ ev \in [Procs -> Events \cup {0}]
        /\ direct \in Seq(Events)
    BY OthersKeepTheirs, LimitsAssumption DEF TypeOK, ControlOK, HistoryOK
  <1>1. CASE Capture(p)
    <2>1. /\ next' = next + 1 /\ ev'[p] = next + 1 /\ UNCHANGED <<direct, spilled>>
      BY <1>0, <1>1 DEF Capture, fate
    <2>2. \A e \in 1..next : e \in 1..next' /\ e # next'
      BY <1>0, <2>1
    <2>3. next' \in 1..next'
      BY <1>0, <2>1
    <2>4. ASSUME NEW q \in Procs PROVE Unwritten(q)'
      BY <1>0, <2>1, <2>2, <2>3 DEF Numbered, Unwritten
    <2> QED
      BY <2>1, <2>2, <2>4 DEF Numbered
  <1>2. CASE AppendEvent(p) \/ SpillEvent(p)
    <2>1. /\ pc[p] \in Capturing /\ pc'[p] \notin Capturing /\ next' = next
          /\ ev[p] \in 1..next /\ ev[p] \notin ToSet(direct) \cup spilled
          /\ ev[p] \in Events
      BY <1>0, <1>2 DEF AppendEvent, SpillEvent, Goto, Capturing, bounds, Numbered, Unwritten,
         TypeOK, ControlOK
    <2>2. \/ ToSet(direct') = ToSet(direct) \cup {ev[p]} /\ spilled' = spilled
          \/ direct' = direct /\ spilled' = spilled \cup {ev[p]}
      <3>1. CASE AppendEvent(p)
        BY <1>0, <2>1, <3>1, RangeOfAppend DEF AppendEvent
      <3>2. CASE SpillEvent(p)
        BY <3>2 DEF SpillEvent
      <3> QED
        BY <1>2, <3>1, <3>2
    <2>3. ASSUME NEW q \in Procs PROVE Unwritten(q)'
      BY <1>0, <2>1, <2>2 DEF Numbered, Unwritten
    <2> QED
      BY <2>1, <2>2, <2>3 DEF Numbered
  <1>3. CASE ~Capture(p) /\ ~AppendEvent(p) /\ ~SpillEvent(p)
    <2>1. /\ UNCHANGED <<next, direct, spilled>>
          /\ pc'[p] \in Capturing => pc[p] \in Capturing /\ ev'[p] = ev[p]
      BY <1>3, OthersWriteNothing
    <2> QED
      BY <1>0, <2>1 DEF Numbered, Unwritten
  <1> QED
    BY <1>1, <1>2, <1>3

\* Every line of a file was written there by a capture or by a merge.
LEMMA SourcedKept ==
  ASSUME Disciplined, TypeOK, LockExclusive, NoLossInv, OrderInv, NEW p \in Procs, Step(p)
  PROVE  Sourced'
PROOF
  <1>0. /\ file \in Seq(Events) /\ overflow \in Seq(Events) /\ buf \in [Procs -> Seq(Events)]
        /\ pc \in [Procs -> PCs] /\ direct \in Seq(Events)
        /\ ToSet(file) \subseteq ToSet(direct) \cup spilled
        /\ ToSet(overflow) \subseteq spilled
        /\ \A q \in Procs : pc[q] = "mergeAppend" => ToSet(buf[q]) \subseteq spilled
    BY DEF OrderInv, Sourced, TypeOK, DiskOK, ReadOK, ControlOK, HistoryOK
  <1>1. ToSet(direct) \subseteq ToSet(direct') /\ spilled \subseteq spilled'
    <2>1. CASE AppendEvent(p)
      <3>1. ev[p] \in Events
        BY <2>1 DEF AppendEvent, Goto, Capturing, TypeOK, ControlOK
      <3>2. ToSet(direct') = ToSet(direct) \cup {ev[p]}
        BY <1>0, <2>1, <3>1, RangeOfAppend DEF AppendEvent
      <3> QED
        BY <2>1, <3>2 DEF AppendEvent
    <2>2. CASE Capture(p) \/ SpillEvent(p)
      BY <2>2 DEF Capture, SpillEvent, fate
    <2> QED
      BY <2>1, <2>2, OthersWriteNothing
  <1>2. ASSUME NEW q \in Procs, q # p, pc'[q] = "mergeAppend"
        PROVE  ToSet(buf'[q]) \subseteq spilled'
    <2>1. pc[q] = "mergeAppend" /\ pc[q] \in Locked
      BY <1>2, OthersKeepTheirs DEF Locked
    <2> QED
      BY <1>0, <1>1, <1>2, <2>1, OthersStayOut
  <1>3. SUFFICES /\ ToSet(file') \subseteq ToSet(direct') \cup spilled'
                 /\ ToSet(overflow') \subseteq spilled'
                 /\ pc'[p] = "mergeAppend" => ToSet(buf'[p]) \subseteq spilled'
    BY <1>2 DEF Sourced
  <1>4. CASE AppendEvent(p)
    <2>1. ev[p] \in Events
      BY <1>4 DEF AppendEvent, Goto, Capturing, TypeOK, ControlOK
    <2>2. ToSet(file') = ToSet(file) \cup {ev[p]} /\ ToSet(direct') = ToSet(direct) \cup {ev[p]}
      BY <1>0, <1>4, <2>1, RangeOfAppend DEF AppendEvent
    <2>3. pc'[p] = "size" /\ UNCHANGED <<overflow, spilled>>
      BY <1>0, <1>4 DEF AppendEvent, Goto
    <2> QED
      BY <1>0, <2>2, <2>3
  <1>5. CASE SpillEvent(p)
    <2>1. ev[p] \in Events
      BY <1>5 DEF SpillEvent, Goto, Capturing, TypeOK, ControlOK
    <2>2. ToSet(overflow') = ToSet(overflow) \cup {ev[p]}
      BY <1>0, <1>5, <2>1, RangeOfAppend DEF SpillEvent
    <2>3. /\ pc'[p] = "size" /\ UNCHANGED <<file, direct>> /\ spilled' = spilled \cup {ev[p]}
      BY <1>0, <1>5 DEF SpillEvent, Goto
    <2> QED
      BY <1>0, <2>2, <2>3
  <1>6. CASE MergeRead(p)
    BY <1>0, <1>1, <1>6 DEF MergeRead, files, fate
  <1>7. CASE MergeAppend(p)
    <2>1. pc[p] = "mergeAppend" /\ pc'[p] = "mergeUnlink" /\ UNCHANGED <<overflow, direct, spilled>>
          /\ file' = file \o buf[p]
      BY <1>0, <1>7 DEF MergeAppend, Goto, fate
    <2>2. ToSet(file') = ToSet(file) \cup ToSet(buf[p])
      BY <1>0, <2>1, RangeOfConcat
    <2> QED
      BY <1>0, <2>1, <2>2
  <1>8. CASE MergeUnlink(p)
    <2>1. ToSet(overflow') = {} /\ UNCHANGED <<file, direct, spilled>> /\ pc'[p] = "lockedHead"
      BY <1>0, <1>8 DEF MergeUnlink, Goto, fate, ToSet
    <2> QED
      BY <1>0, <2>1
  <1>9. CASE Replace(p)
    <2>1. /\ pc[p] = "replace" /\ pc'[p] # "mergeAppend" /\ UNCHANGED <<overflow, direct, spilled>>
          /\ file' = file \/ (tmp[TmpOf(p)] # NoFile /\ file' = tmp[TmpOf(p)])
      BY <1>0, <1>9 DEF Replace, Goto
    <2>2. ToSet(file') \subseteq ToSet(file)
      BY <1>0, <2>1, TailIsPart DEF OrderInv, CopyIsTail
    <2> QED
      BY <1>0, <2>1, <2>2
  <1>10. CASE \/ Capture(p) \/ AcquireShort(p) \/ TimeoutShort(p) \/ AcquireOver(p)
              \/ DropEvent(p) \/ StatSize(p) \/ LoadSizeHead(p) \/ DecideRotation(p)
              \/ AcquireLong(p) \/ TimeoutLong(p) \/ LoadLockedHead(p) \/ ZeroHead(p)
              \/ Release(p) \/ RotateCopy(p) \/ StartCycle(p) \/ LoadPeekHead(p)
              \/ Peek(p) \/ ProcessBatch(p) \/ ProcessFails(p) \/ Advance(p)
              \/ SetHead(p) \/ Compact(p) \/ Crash(p) \/ HeadPastEnd(p) \/ WriteBackHead(p)
    <2>1. UNCHANGED <<file, overflow>>
      BY <1>10 DEF Capture, AcquireShort, TimeoutShort, AcquireOver, DropEvent, StatSize,
         LoadSizeHead, DecideRotation, AcquireLong, TimeoutLong, LoadLockedHead, ZeroHead,
         Release, RotateCopy, StartCycle, LoadPeekHead, Peek, ProcessBatch, ProcessFails,
         Advance, SetHead, Compact, Crash, HeadPastEnd, WriteBackHead, files
    <2>2. pc'[p] = "mergeAppend" => pc[p] = "mergeAppend" /\ buf' = buf
      BY <1>0, <1>10 DEF Capture, AcquireShort, TimeoutShort, AcquireOver, DropEvent,
         StatSize, LoadSizeHead, DecideRotation, AcquireLong, TimeoutLong, LoadLockedHead,
         ZeroHead, Release, RotateCopy, StartCycle, LoadPeekHead, Peek, ProcessBatch,
         ProcessFails, Advance, SetHead, Compact, Crash, HeadPastEnd, WriteBackHead, Goto
    <2> QED
      BY <1>0, <1>1, <2>1, <2>2
  <1> QED
    BY <1>4, <1>5, <1>6, <1>7, <1>8, <1>9, <1>10 DEF Step, ProducerStep, ConsumerStep,
       CaptureStep, SharedStep

\* What is copied to replace the file is its end.
LEMMA CopyKept ==
  ASSUME Disciplined, TypeOK, LockExclusive, NoLossInv, OrderInv,
         NEW p \in Procs, Step(p), NEW q \in Procs
  PROVE  CopyIsTail(q)'
PROOF
  <1>0. /\ file \in Seq(Events) /\ pc \in [Procs -> PCs] /\ pos[p] \in Nat
        /\ tmp \in [{"rotate", "compact"} -> Seq(Events) \cup {NoFile}]
    BY DEF TypeOK, DiskOK, ControlOK, ReadOK
  <1>1. CASE q # p
    <2> SUFFICES ASSUME pc'[q] = "replace"
                 PROVE  tmp'[TmpOf(q)] = NoFile \/ TailOf(tmp'[TmpOf(q)], file')
      BY DEF CopyIsTail, TmpOf
    <2>1. pc[q] = "replace" /\ pc[q] \in Locked
      BY <1>1, OthersKeepTheirs DEF Locked
    <2>2. UNCHANGED <<file, tmp>>
      BY <1>1, <2>1, OthersStayOut
    <2> QED
      BY <2>1, <2>2 DEF OrderInv, CopyIsTail
  <1>2. CASE q = p /\ p \in Producers /\ RotateCopy(p)
    <2>1. pos[p] <= Len(file) /\ file' = file /\ KeepCount \in Nat
      BY <1>2, LimitsAssumption DEF RotateCopy, HeadLoaded, KeepCount
    <2>2. tmp'["rotate"] = TailLines(Lines(file, pos[p]), KeepCount)
      BY <1>0, <1>2 DEF RotateCopy, TypeOK, ReadOK
    <2>3. TailOf(tmp'["rotate"], file')
      BY <1>0, <2>1, <2>2, LinesAreTail
    <2> QED
      BY <1>2, <2>3 DEF CopyIsTail, TmpOf
  <1>3. CASE q = p /\ p \in Consumers /\ Compact(p)
    <2>1. pc[p] = "compact" /\ pos[p] <= Len(file) /\ file' = file
      BY <1>3 DEF Compact, Goto, NoLossInv, SectionInv, Passed
    <2>2. pc'[p] = "replace" => tmp'["compact"] = Lines(file, pos[p])
      BY <1>0, <1>3 DEF Compact, Goto
    <2>3. pc'[p] = "replace" => TailOf(tmp'["compact"], file')
      BY <1>0, <2>1, <2>2, LinesAreTail
    <2> QED
      BY <1>3, <2>3, ProcsAssumption DEF CopyIsTail, TmpOf
  <1>4. CASE WriteBackHead(p)
    BY <1>4 DEF WriteBackHead, files, OrderInv, CopyIsTail, TmpOf
  <1>5. CASE /\ q = p /\ ~(p \in Producers /\ RotateCopy(p))
             /\ ~(p \in Consumers /\ Compact(p)) /\ ~WriteBackHead(p)
    <2>1. pc'[p] # "replace"
      BY <1>0, <1>5 DEF Step, ProducerStep, ConsumerStep, CaptureStep, SharedStep, Goto,
         Capture, AcquireShort, TimeoutShort, AppendEvent, AcquireOver, DropEvent,
         SpillEvent, StatSize, LoadSizeHead, DecideRotation, HeadPastEnd, AcquireLong,
         TimeoutLong, MergeRead, MergeAppend, MergeUnlink, LoadLockedHead, Replace,
         ZeroHead, Release, StartCycle, LoadPeekHead, Peek, ProcessBatch,
         ProcessFails, Advance, SetHead, Crash
    <2> QED
      BY <1>5, <2>1 DEF CopyIsTail
  <1> QED
    BY <1>1, <1>2, <1>3, <1>4, <1>5

\* The appended events that are in the file stay the newest of them, in order.
LEMMA NewestKept ==
  ASSUME Disciplined, TypeOK, LockExclusive, NoLossInv, OrderInv, NEW p \in Procs, Step(p)
  PROVE  DirectLinesAreNewest'
PROOF
  <1>0. /\ file \in Seq(Events) /\ direct \in Seq(Events) /\ Newest(file, direct)
        /\ ToSet(file) \subseteq ToSet(direct) \cup spilled
        /\ ToSet(direct) \cap spilled = {}
    BY DEF OrderInv, Sourced, Numbered, DirectLinesAreNewest, Newest, TypeOK, DiskOK, HistoryOK
  <1>1. SUFFICES Newest(file', direct')
    BY DEF Newest, DirectLinesAreNewest
  <1>2. CASE AppendEvent(p)
    <2>1. ev[p] \in Events /\ ev[p] \notin ToSet(direct) \cup spilled
      BY <1>2 DEF AppendEvent, Goto, Capturing, TypeOK, ControlOK, OrderInv, Numbered,
         Unwritten
    <2>2. file' = Append(file, ev[p]) /\ direct' = Append(direct, ev[p])
      BY <1>2 DEF AppendEvent
    <2>3. ev[p] \notin ToSet(file) /\ ev[p] \notin ToSet(direct)
      BY <1>0, <2>1
    <2> QED
      BY <1>0, <2>1, <2>2, <2>3, AppendIsNewest
  <1>3. CASE MergeAppend(p)
    <2>1. file' = file \o buf[p] /\ direct' = direct /\ pc[p] = "mergeAppend"
      BY <1>3 DEF MergeAppend, Goto, fate
    <2>2. buf[p] \in Seq(Events) /\ ToSet(buf[p]) \cap ToSet(direct) = {}
      BY <1>0, <2>1 DEF OrderInv, Sourced, TypeOK, ReadOK
    <2> QED
      BY <1>0, <2>1, <2>2, MergeIsNewest
  <1>4. CASE Replace(p)
    <2>1. /\ pc[p] = "replace" /\ direct' = direct
          /\ file' = file \/ (tmp[TmpOf(p)] # NoFile /\ file' = tmp[TmpOf(p)])
      BY <1>4 DEF Replace, Goto
    <2>2. file' = file \/ TailOf(file', file)
      BY <2>1 DEF OrderInv, CopyIsTail
    <2> QED
      BY <1>0, <2>1, <2>2, TailIsNewest
  <1>5. CASE \/ Capture(p) \/ AcquireShort(p) \/ TimeoutShort(p) \/ AcquireOver(p)
             \/ DropEvent(p) \/ SpillEvent(p) \/ StatSize(p) \/ LoadSizeHead(p)
             \/ DecideRotation(p) \/ HeadPastEnd(p) \/ WriteBackHead(p) \/ AcquireLong(p)
             \/ TimeoutLong(p) \/ MergeRead(p) \/ MergeUnlink(p) \/ LoadLockedHead(p)
             \/ ZeroHead(p) \/ Release(p) \/ RotateCopy(p) \/ StartCycle(p)
             \/ LoadPeekHead(p) \/ Peek(p) \/ ProcessBatch(p) \/ ProcessFails(p)
             \/ Advance(p) \/ SetHead(p) \/ Compact(p) \/ Crash(p)
    <2>1. UNCHANGED <<file, direct>>
      BY <1>5 DEF Capture, AcquireShort, TimeoutShort, AcquireOver, DropEvent, SpillEvent,
         StatSize, LoadSizeHead, DecideRotation, HeadPastEnd, WriteBackHead, AcquireLong,
         TimeoutLong, MergeRead, MergeUnlink, LoadLockedHead, ZeroHead, Release, RotateCopy,
         StartCycle, LoadPeekHead, Peek, ProcessBatch, ProcessFails, Advance, SetHead,
         Compact, Crash, files, fate
    <2> QED
      BY <1>0, <2>1
  <1> QED
    BY <1>2, <1>3, <1>4, <1>5 DEF Step, ProducerStep, ConsumerStep, CaptureStep, SharedStep

\* While the locks are respected, appended events leave the file from its old
\* end only: no merge, rotation or compaction reorders them, repeats one, or
\* drops one that came later than one it keeps.
THEOREM NewestStay ==
  ASSUME Disciplined
  PROVE  Spec => []DirectLinesAreNewest
PROOF
  <1>1. TypeOK /\ LockExclusive /\ NoLossInv /\ OrderInv /\ [Next]_vars => OrderInv'
    <2> SUFFICES ASSUME TypeOK, LockExclusive, NoLossInv, OrderInv, [Next]_vars
                 PROVE  OrderInv'
      OBVIOUS
    <2>1. CASE UNCHANGED vars
      <3>1. UNCHANGED <<file, overflow, tmp, pc, ev, buf, next, direct, spilled>>
        BY <2>1 DEF vars, files, memory, fate, bounds
      <3>2. Numbered'
        BY <3>1 DEF OrderInv, Numbered, Unwritten
      <3>3. Sourced'
        BY <3>1 DEF OrderInv, Sourced
      <3>4. \A q \in Procs : CopyIsTail(q)'
        BY <3>1 DEF OrderInv, CopyIsTail, TmpOf
      <3>5. DirectLinesAreNewest'
        BY <3>1 DEF OrderInv, DirectLinesAreNewest
      <3> QED
        BY <3>2, <3>3, <3>4, <3>5 DEF OrderInv
    <2>2. ASSUME NEW p \in Procs, Step(p) PROVE OrderInv'
      <3>1. Numbered'
        BY <2>2, NumberedKept DEF OrderInv
      <3> QED
        BY <2>2, <3>1, SourcedKept, CopyKept, NewestKept DEF OrderInv
    <2> QED
      BY <2>1, <2>2, StepOfNext
  <1>2. OrderInv => DirectLinesAreNewest
    BY DEF OrderInv
  <1> QED
    BY <1>1, <1>2, OrderInit, TypeCorrect, LocksExclude, SectionsKeepTheirLines, PTL DEF Spec
=============================================================================
