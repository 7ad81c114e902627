--------------------------- MODULE DeliveryProofs ---------------------------
(***************************************************************************)
(* Proofs that the capture queue, as long as it is not rotated and has one *)
(* pipeline, consumes only what was processed and, with the locks          *)
(* respected, delivers what Delivery promises: for every number of hooks,  *)
(* every batch size and any number of captures and failed batches.         *)
(***************************************************************************)
EXTENDS EventQueueProofs

\* One pipeline thread, no limit that makes a hook rotate, nobody is killed.
LonePipeline ==
  /\ \A c, d \in Consumers : c = d
  /\ MaxEvents = 0 /\ MaxQueueLines = 0
  /\ MaxCrashes = 0

\* Where a hook can be if it never rotates.
HookSteps == Capturing \cup {"idle", "size", "sizeHead", "decide"}

\* The steps between processing a batch and loading the head to advance.
BeforeAdvance == {"lockLong", "mergeRead", "mergeAppend", "mergeUnlink", "lockedHead"}

\* What a pipeline knows of the batch it has read: nothing but its own
\* compaction moves the lines of the file, so the batch still follows the head
\* unless a hook has set the head to 0, and then it follows lines that were
\* processed before (queue.py:335, queue.py:512).
BatchInv(c) ==
  /\ c \notin fixing /\ pc[c] \notin {"decide", "rotate"}
  /\ pc[c] # "zeroHead" => Passed(head, processed)
  /\ pc[c] = "peek" => Passed(pos[c], processed) /\ head <= pos[c]
  /\ pc[c] = "process" => Passed(head + arg[c], processed \cup ToSet(buf[c]))
  /\ pc[c] \in BeforeAdvance => Passed(head + arg[c], processed)
  /\ pc[c] = "advance" => Passed(pos[c] + arg[c], processed)
  /\ pc[c] \in {"setHead", "compact"} => Passed(pos[c], processed)
  /\ pc[c] \in {"setHead", "compact", "replace"} => ToSet(buf[c]) \subseteq processed

PipelineInv ==
  /\ \A p \in Producers : pc[p] \in HookSteps
  /\ \A c \in Consumers : BatchInv(c)
  /\ ConsumedWereProcessed

LEMMA PipelineInit == Init => PipelineInv
  BY ProcsAssumption
  DEF Init, PipelineInv, BatchInv, Passed, HookSteps, Capturing, BeforeAdvance,
      ConsumedWereProcessed, Procs

\* Hooks start no rotation, and so stay out of the section.
LEMMA HooksKeepOut ==
  ASSUME LonePipeline, TypeOK, PipelineInv, NEW p \in Procs, Step(p)
  PROVE  \A q \in Producers : pc'[q] \in HookSteps
  <1>1. CASE p \in Consumers
    <2>1. \A q \in Producers : pc'[q] = pc[q] \/ pc'[q] = "idle"
      BY <1>1, ProcsAssumption DEF Step, ConsumerStep, SharedStep, Crash, HeadPastEnd,
         WriteBackHead, AcquireLong, TimeoutLong, MergeRead, MergeAppend, MergeUnlink,
         LoadLockedHead, Replace, ZeroHead, Release, StartCycle, LoadPeekHead, Peek,
         ProcessBatch, ProcessFails, Advance, SetHead, Compact, Goto, TypeOK, ControlOK,
         Procs
    <2> QED
      BY <2>1 DEF PipelineInv, HookSteps
  <1>2. CASE p \notin Consumers
    <2>1. pc[p] \in HookSteps
      BY <1>2 DEF PipelineInv, Procs
    <2>2. ASSUME DecideRotation(p) PROVE pc' = [pc EXCEPT ![p] = "idle"]
      BY <2>2 DEF DecideRotation, NeedsRotation, LonePipeline, Goto
    <2>3. pc' = pc \/ \E to \in HookSteps : pc' = [pc EXCEPT ![p] = to]
      BY <1>2, <2>1, <2>2 DEF Step, ProducerStep, CaptureStep, SharedStep, Crash, Capture,
         AcquireShort, TimeoutShort, AppendEvent, AcquireOver, DropEvent, SpillEvent,
         StatSize, LoadSizeHead, HeadPastEnd, WriteBackHead, AcquireLong, TimeoutLong,
         MergeRead, MergeAppend, MergeUnlink, LoadLockedHead, RotateCopy, Replace,
         ZeroHead, Release, Goto, HookSteps, Capturing
    <2>4. ASSUME NEW to \in HookSteps, pc' = [pc EXCEPT ![p] = to], NEW q \in Producers
          PROVE  pc'[q] \in HookSteps
      BY <2>4 DEF PipelineInv, TypeOK, ControlOK, Procs
    <2>5. CASE pc' = pc
      BY <2>5 DEF PipelineInv
    <2> QED
      BY <2>3, <2>4, <2>5
  <1> QED
    BY <1>1, <1>2

\* What a hook does to the pipeline: it may append a line, and set the head to 0.
LEMMA HooksAppendOnly ==
  ASSUME LonePipeline, TypeOK, PipelineInv, NEW p \in Procs, p \notin Consumers, Step(p)
  PROVE  /\ file' = file \/ (pc[p] = "append" /\ file' = Append(file, ev[p]))
         /\ (head' = head \/ head' = 0)
         /\ UNCHANGED <<tmp, processed, consumed>>
         /\ \A c \in Consumers :
              /\ pc'[c] = pc[c] /\ pos'[c] = pos[c]
              /\ arg'[c] = arg[c] /\ buf'[c] = buf[c]
              /\ c \in fixing' => c \in fixing
  <1>0. p \in Producers /\ pc[p] \in HookSteps /\ crashes = 0 /\ MaxCrashes = 0
    BY DEF PipelineInv, Procs, LonePipeline, TypeOK, HistoryOK
  <1> USE DEF TypeOK, ControlOK, ReadOK, Goto
  <1>1. CASE Capture(p) \/ AcquireShort(p) \/ TimeoutShort(p) \/ AcquireOver(p)
             \/ StatSize(p)
    BY <1>0, <1>1 DEF Capture, AcquireShort, TimeoutShort, AcquireOver, StatSize, files,
       fate, memory, Procs
  <1>2. CASE LoadSizeHead(p) \/ DropEvent(p) \/ SpillEvent(p) \/ DecideRotation(p)
    BY <1>0, <1>2 DEF LoadSizeHead, LoadHead, DropEvent, SpillEvent, DecideRotation,
       Forget, files, fate, Procs
  <1>3. CASE AppendEvent(p)
    BY <1>0, <1>3 DEF AppendEvent, Forget, Procs
  <1>4. CASE HeadPastEnd(p) \/ WriteBackHead(p)
    BY <1>0, <1>4 DEF HeadPastEnd, WriteBackHead, files, fate, Procs
  <1> QED
    BY <1>0, <1>1, <1>2, <1>3, <1>4 DEF Step, ProducerStep, CaptureStep, SharedStep, Crash,
       AcquireLong, TimeoutLong, MergeRead, MergeAppend, MergeUnlink, LoadLockedHead,
       RotateCopy, Replace, ZeroHead, Release, HookSteps, Capturing

LEMMA PassedLess ==
  ASSUME NEW m \in Nat, NEW n \in Nat, m <= n, NEW S, NEW T, S \subseteq T, Passed(n, S),
         file \in Seq(Events)
  PROVE  Passed(m, T)
  BY DEF Passed

\* The first lines stay the first if lines are appended.
LEMMA PassedOfConcat ==
  ASSUME NEW n \in Nat, NEW S, Passed(n, S), file \in Seq(Events), NEW t \in Seq(Events),
         file' = file \o t
  PROVE  n <= Len(file') /\ \A i \in 1..n : file'[i] \in S
  BY DEF Passed

LEMMA PassedOfAppend ==
  ASSUME NEW n \in Nat, NEW S, Passed(n, S), file \in Seq(Events), NEW e \in Events,
         file' = Append(file, e)
  PROVE  n <= Len(file') /\ \A i \in 1..n : file'[i] \in S
  BY DEF Passed

\* A hook's step leaves the batch of every pipeline behind the head.
LEMMA HooksHarmless ==
  ASSUME LonePipeline, TypeOK, PipelineInv, NEW p \in Procs, p \notin Consumers, Step(p)
  PROVE  (\A c \in Consumers : BatchInv(c)') /\ ConsumedWereProcessed'
  <1>1. /\ (head' = head \/ head' = 0) /\ UNCHANGED <<processed, consumed>>
        /\ head \in Nat /\ file \in Seq(Events)
    BY HooksAppendOnly DEF TypeOK, DiskOK
  <1>2. ASSUME NEW n \in Nat, NEW S, Passed(n, S)
        PROVE  n <= Len(file') /\ \A i \in 1..n : file'[i] \in S
    <2>1. CASE file' = file
      BY <1>2, <2>1 DEF Passed
    <2>2. CASE pc[p] = "append" /\ file' = Append(file, ev[p])
      <3>1. ev[p] \in Events
        BY <2>2 DEF TypeOK, ControlOK, Capturing
      <3> QED
        BY <1>1, <1>2, <2>2, <3>1, PassedOfAppend
    <2> QED
      BY <2>1, <2>2, HooksAppendOnly
  <1>3. ASSUME NEW c \in Consumers PROVE BatchInv(c)'
    <2>1. /\ pc'[c] = pc[c] /\ pos'[c] = pos[c] /\ arg'[c] = arg[c] /\ buf'[c] = buf[c]
          /\ c \in fixing' => c \in fixing
      BY HooksAppendOnly
    <2>2. arg[c] \in Nat /\ pos[c] \in Nat
      BY DEF TypeOK, ReadOK, Procs
    <2>3. BatchInv(c)
      BY DEF PipelineInv
    <2>4. ASSUME NEW a \in Nat, NEW S, Passed(head + a, S)
          PROVE  head' + a <= Len(file') /\ \A i \in 1..(head' + a) : file'[i] \in S
      <3>1. head' + a \in Nat /\ head + a \in Nat /\ head' + a <= head + a
        BY <1>1
      <3>2. head' + a <= Len(file) /\ \A i \in 1..(head' + a) : file[i] \in S
        BY <1>1, <2>4, <3>1 DEF Passed
      <3>3. Passed(head' + a, S)
        BY <3>2 DEF Passed
      <3> QED
        BY <1>2, <3>1, <3>3
    <2>5. pc[c] # "zeroHead" => head' <= Len(file') /\ \A i \in 1..head' : file'[i] \in processed
      BY <1>1, <1>2, <2>3 DEF BatchInv
    <2>6. pc[c] = "peek" =>
            /\ pos[c] <= Len(file') /\ \A i \in 1..pos[c] : file'[i] \in processed
            /\ head' <= pos[c]
      BY <1>1, <1>2, <2>2, <2>3 DEF BatchInv
    <2>7. pc[c] = "process" =>
            /\ head' + arg[c] <= Len(file')
            /\ \A i \in 1..(head' + arg[c]) : file'[i] \in processed \cup ToSet(buf[c])
      BY <2>2, <2>3, <2>4 DEF BatchInv
    <2>8. pc[c] \in BeforeAdvance =>
            /\ head' + arg[c] <= Len(file')
            /\ \A i \in 1..(head' + arg[c]) : file'[i] \in processed
      BY <2>2, <2>3, <2>4 DEF BatchInv
    <2>9. pc[c] = "advance" =>
            /\ pos[c] + arg[c] <= Len(file')
            /\ \A i \in 1..(pos[c] + arg[c]) : file'[i] \in processed
      BY <1>2, <2>2, <2>3 DEF BatchInv
    <2>10. pc[c] \in {"setHead", "compact"} =>
             pos[c] <= Len(file') /\ \A i \in 1..pos[c] : file'[i] \in processed
      BY <1>2, <2>2, <2>3 DEF BatchInv
    <2> QED
      BY <1>1, <2>1, <2>3, <2>5, <2>6, <2>7, <2>8, <2>9, <2>10 DEF BatchInv, Passed
  <1> QED
    BY <1>1, <1>3 DEF PipelineInv, ConsumedWereProcessed

\* The events of a batch.
LEMMA RangeOfBatch ==
  ASSUME NEW s \in Seq(Events), NEW m \in Nat, NEW n \in Nat, m <= n, n <= Len(s)
  PROVE  /\ ToSet(SubSeq(s, m + 1, n)) \subseteq ToSet(s)
         /\ \A S : (\A i \in 1..n : s[i] \in S) => ToSet(SubSeq(s, m + 1, n)) \subseteq S
  <1> DEFINE t == SubSeq(s, m + 1, n)
  <1>1. ASSUME NEW j \in DOMAIN t PROVE \E i \in 1..n : t[j] = s[i]
    <2>1. Len(t) = n - m /\ j \in 1..(n - m) /\ t[j] = s[m + j] /\ m + j \in 1..n
      BY <1>1
    <2> QED
      BY <2>1
  <1>2. 1..n \subseteq DOMAIN s
    OBVIOUS
  <1> HIDE DEF t
  <1> QED
    BY <1>1, <1>2 DEF ToSet, t

\* The steps of run_processing_cycle around the section.
LEMMA BatchOfCycle ==
  ASSUME TypeOK, NEW c \in Consumers, BatchInv(c),
         \/ StartCycle(c) \/ LoadPeekHead(c) \/ Peek(c) \/ ProcessBatch(c) \/ ProcessFails(c)
  PROVE  BatchInv(c)' /\ consumed' = consumed /\ processed \subseteq processed'
  <1>0. /\ c \in Procs /\ file \in Seq(Events) /\ head \in Nat
        /\ arg[c] \in Nat /\ pos[c] \in Nat
    BY DEF TypeOK, DiskOK, ReadOK, Procs
  <1> USE DEF BatchInv, Goto, BeforeAdvance
  <1>1. CASE StartCycle(c) \/ LoadPeekHead(c) \/ ProcessFails(c)
    BY <1>0, <1>1 DEF StartCycle, LoadPeekHead, LoadHead, ProcessFails, Forget, Passed,
       TypeOK, ControlOK, ReadOK, files, fate
  <1>2. CASE Peek(c)
    <2> DEFINE last == Least(pos[c] + arg[c], Len(file))
               batch == SubSeq(file, pos[c] + 1, last)
    <2>1. CASE batch = <<>>
      BY <1>0, <1>2, <2>1 DEF Peek, Forget, Passed, TypeOK, ControlOK, files, fate
    <2>2. CASE batch # <<>>
      <3>1. /\ pc[c] = "peek" /\ pc'[c] = "process"
            /\ buf'[c] = batch /\ arg'[c] = Len(batch)
            /\ UNCHANGED <<file, head, processed, consumed, fixing>>
        BY <1>0, <1>2, <2>2 DEF Peek, TypeOK, ControlOK, ReadOK, files, fate
      <3>2. last \in Nat /\ last <= Len(file) /\ pos[c] < last /\ Len(batch) = last - pos[c]
        <4>1. last \in Nat /\ last <= Len(file)
          BY <1>0 DEF Least
        <4> HIDE DEF last
        <4>2. pos[c] < last
          BY <1>0, <2>2, <4>1
        <4> QED
          BY <1>0, <4>1, <4>2
      <3>3. head <= pos[c] /\ Passed(head, processed) /\ Passed(pos[c], processed)
        BY <3>1
      <3>4. ASSUME NEW i \in 1..(head + Len(batch))
            PROVE  file[i] \in processed \cup ToSet(batch)
        <4>1. i \in 1..last
          BY <1>0, <3>2, <3>3
        <4>2. CASE i <= pos[c]
          BY <1>0, <3>3, <4>1, <4>2 DEF Passed
        <4>3. CASE i > pos[c]
          BY <1>0, <3>2, <4>1, <4>3, RangeOfCut
        <4> QED
          BY <1>0, <4>1, <4>2, <4>3
      <3>5. head + Len(batch) <= Len(file)
        BY <1>0, <3>2, <3>3
      <3> HIDE DEF batch
      <3>6. Passed(head + Len(batch), processed \cup ToSet(batch))
        BY <3>4, <3>5 DEF Passed
      <3>7. Passed(head, processed)' /\ Passed(head + arg[c], processed \cup ToSet(buf[c]))'
        BY <3>1, <3>3, <3>6 DEF Passed
      <3> QED
        BY <3>1, <3>7
    <2> QED
      BY <2>1, <2>2
  <1>3. CASE ProcessBatch(c)
    <2>1. /\ pc[c] = "process" /\ pc'[c] = "lockLong" /\ arg'[c] = arg[c]
          /\ processed' = processed \cup ToSet(buf[c])
          /\ UNCHANGED <<file, head, consumed, fixing>>
      BY <1>0, <1>3 DEF ProcessBatch, TypeOK, ControlOK, files
    <2> QED
      BY <2>1 DEF Passed
  <1> QED
    BY <1>1, <1>2, <1>3

\* The steps of consume_processed.
LEMMA BatchOfSection ==
  ASSUME TypeOK, NEW c \in Consumers, BatchInv(c), ConsumedWereProcessed,
         \/ SharedStep(c) \/ Advance(c) \/ SetHead(c) \/ Compact(c)
  PROVE  BatchInv(c)' /\ ConsumedWereProcessed'
  <1>0. /\ c \in Procs /\ file \in Seq(Events) /\ head \in Nat
        /\ arg[c] \in Nat /\ pos[c] \in Nat /\ buf[c] \in Seq(Events)
        /\ c \in Consumers /\ c \notin Producers
    BY ProcsAssumption DEF TypeOK, DiskOK, ReadOK, Procs
  <1> USE DEF BatchInv, Goto, BeforeAdvance, ConsumedWereProcessed
  <1>1. CASE HeadPastEnd(c)
    BY <1>0, <1>1, ProcsAssumption DEF HeadPastEnd, Passed, TypeOK, DiskOK, ControlOK
  <1>2. CASE WriteBackHead(c)
    BY <1>2 DEF WriteBackHead
  <1>3. CASE AcquireLong(c) \/ TimeoutLong(c) \/ MergeUnlink(c) \/ Release(c)
    BY <1>0, <1>3 DEF AcquireLong, TimeoutLong, MergeUnlink, Release, Forget, Passed,
       TypeOK, ControlOK, ReadOK, files, memory, fate
  <1>4. CASE MergeRead(c)
    BY <1>0, <1>4 DEF MergeRead, Passed, TypeOK, ControlOK, files, fate
  <1>5. CASE MergeAppend(c)
    <2>1. /\ pc[c] = "mergeAppend" /\ pc'[c] = "mergeUnlink" /\ file' = file \o buf[c]
          /\ UNCHANGED <<head, processed, consumed, fixing, arg, pos, buf>>
      BY <1>0, <1>5 DEF MergeAppend, TypeOK, ControlOK, memory, fate
    <2>2. Passed(head, processed) /\ Passed(head + arg[c], processed)
      BY <2>1
    <2>3. head <= Len(file') /\ \A i \in 1..head : file'[i] \in processed
      BY <1>0, <2>1, <2>2, PassedOfConcat
    <2>4. /\ head + arg[c] <= Len(file')
          /\ \A i \in 1..(head + arg[c]) : file'[i] \in processed
      <3>1. head + arg[c] \in Nat
        BY <1>0
      <3> QED
        BY <1>0, <2>1, <2>2, <3>1, PassedOfConcat
    <2> QED
      BY <2>1, <2>3, <2>4 DEF Passed
  <1>6. CASE LoadLockedHead(c)
    <2>1. /\ pc[c] = "lockedHead" /\ pc'[c] = "advance" /\ pos'[c] = head
          /\ UNCHANGED <<file, head, processed, consumed, fixing, arg>>
      BY <1>0, <1>6 DEF LoadLockedHead, LoadHead, TypeOK, ControlOK, ReadOK, files, fate
    <2> QED
      BY <2>1 DEF Passed
  <1>7. CASE Replace(c)
    BY <1>0, <1>7 DEF Replace, Passed, TypeOK, ControlOK, memory
  <1>8. CASE ZeroHead(c)
    BY <1>0, <1>8 DEF ZeroHead, Passed, TypeOK, ControlOK, files, memory, fate
  <1>9. CASE Advance(c)
    <2> DEFINE n == Least(arg[c], Len(file) - pos[c])
    <2>1. /\ pc[c] = "advance" /\ UNCHANGED <<file, processed, consumed, fixing>>
          /\ pc'[c] = IF n = 0 THEN "release" ELSE "setHead"
          /\ pos'[c] = pos[c] + n
          /\ buf'[c] = SubSeq(file, pos[c] + 1, pos[c] + n)
          /\ head' = IF n = 0 THEN head ELSE 0
      BY <1>0, <1>9 DEF Advance, TypeOK, ControlOK, ReadOK, files, fate
    <2>2. Passed(pos[c] + arg[c], processed) /\ Passed(head, processed)
      BY <2>1
    <2>3. n = arg[c]
      BY <1>0, <2>2 DEF Passed, Least
    <2> HIDE DEF n
    <2>4. ToSet(buf'[c]) \subseteq processed
      <3>1. pos[c] + n \in Nat /\ pos[c] <= pos[c] + n /\ pos[c] + n <= Len(file)
        BY <1>0, <2>2, <2>3 DEF Passed
      <3>2. \A i \in 1..(pos[c] + n) : file[i] \in processed
        BY <2>2, <2>3 DEF Passed
      <3> QED
        BY <1>0, <2>1, <3>1, <3>2, RangeOfBatch
    <2>5. Passed(pos[c] + n, processed)
      BY <2>2, <2>3
    <2>6. head' = head \/ head' = 0
      BY <2>1
    <2>7. Passed(head, processed)' /\ Passed(pos[c], processed)'
      BY <1>0, <2>1, <2>2, <2>5, <2>6 DEF Passed
    <2> QED
      BY <2>1, <2>4, <2>7
  <1>10. CASE SetHead(c)
    <2>1. /\ pc[c] = "setHead" /\ pc'[c] = "compact" /\ head' = pos[c]
          /\ consumed' = consumed \cup ToSet(buf[c]) /\ buf'[c] = <<>>
          /\ UNCHANGED <<file, processed, fixing, pos>>
      BY <1>0, <1>10 DEF SetHead, TypeOK, ControlOK, ReadOK, files
    <2>2. ToSet(buf'[c]) = {}
      BY <2>1 DEF ToSet
    <2> QED
      BY <2>1, <2>2 DEF Passed
  <1>11. CASE Compact(c)
    BY <1>0, <1>11 DEF Compact, Passed, TypeOK, ControlOK, memory, fate
  <1> QED
    BY <1>1, <1>2, <1>3, <1>4, <1>5, <1>6, <1>7, <1>8, <1>9, <1>10, <1>11 DEF SharedStep

LEMMA PipelineStep ==
  ASSUME LonePipeline, TypeOK, PipelineInv, [Next]_vars
  PROVE  PipelineInv'
  <1>1. CASE UNCHANGED vars
    BY <1>1 DEF vars, files, memory, fate, PipelineInv, BatchInv, Passed, ConsumedWereProcessed
  <1>2. ASSUME NEW p \in Procs, Step(p) PROVE PipelineInv'
    <2>1. \A q \in Producers : pc'[q] \in HookSteps
      BY <1>2, HooksKeepOut
    <2>2. CASE p \notin Consumers
      BY <1>2, <2>1, <2>2, HooksHarmless DEF PipelineInv
    <2>3. CASE p \in Consumers
      <3>1. BatchInv(p) /\ ConsumedWereProcessed /\ \A c \in Consumers : c = p
        BY <2>3 DEF PipelineInv, LonePipeline
      <3>2. ~Crash(p)
        BY DEF Crash, LonePipeline, TypeOK, HistoryOK
      <3>3. BatchInv(p)' /\ ConsumedWereProcessed'
        BY <1>2, <2>3, <3>1, <3>2, BatchOfCycle, BatchOfSection, ProcsAssumption
        DEF Step, ConsumerStep, ConsumedWereProcessed
      <3> QED
        BY <2>1, <3>1, <3>3 DEF PipelineInv
    <2> QED
      BY <2>2, <2>3
  <1> QED
    BY <1>1, <1>2, StepOfNext

LEMMA PipelineHolds ==
  ASSUME LonePipeline
  PROVE  Spec => []PipelineInv
  BY PipelineInit, PipelineStep, TypeCorrect, PTL DEF Spec

\* "Consume only after successful processing" (pipeline.py:16): without rotation
\* the one pipeline consumes only what it has processed, however many hooks append
\* meanwhile, set the head back or hold the locks for too long.
THEOREM OnlyProcessedIsConsumed ==
  ASSUME LonePipeline
  PROVE  Spec => []ConsumedWereProcessed
  <1>1. PipelineInv => ConsumedWereProcessed
    BY DEF PipelineInv
  <1> QED
    BY <1>1, PipelineHolds, PTL

-----------------------------------------------------------------------------
(***************************************************************************)
(* The refinement.  An event enters the files once, by the capture that    *)
(* numbered it, and every copy a pipeline makes is of lines that are       *)
(* there.                                                                  *)
(***************************************************************************)
Recorded == ToSet(file) \cup ToSet(overflow) \cup processed \cup exposed

\* What a pipeline has read or copied is still in the files.
CopyInv(c) ==
  /\ pc[c] = "process" => ToSet(buf[c]) \subseteq ToSet(file)
  /\ pc[c] = "mergeAppend" => ToSet(buf[c]) \subseteq ToSet(overflow)
  /\ pc[c] = "replace" =>
       tmp["compact"] = NoFile \/ ToSet(tmp["compact"]) \subseteq ToSet(file)

\* An event that is being captured is nowhere yet, and is captured once.
Fresh(p) ==
  pc[p] \in Capturing =>
    /\ ev[p] \in (1..next) \ Recorded
    /\ \A q \in Producers \ {p} : pc[q] \in Capturing => ev[q] # ev[p]

Traced ==
  /\ Recorded \subseteq 1..next
  /\ \A p \in Producers : Fresh(p)
  /\ \A c \in Consumers : CopyInv(c)

LEMMA TracedInit == Init => Traced
  BY ProcsAssumption DEF Init, Traced, Recorded, Fresh, CopyInv, Capturing, ToSet, Procs

\* A step that records nothing, or what its process has captured and captures no more.
LEMMA FreshKept ==
  ASSUME TypeOK, Traced, NEW p \in Procs, next' = next,
         \A q \in Producers : q # p => pc'[q] = pc[q] /\ ev'[q] = ev[q],
         \/ /\ Recorded' \subseteq Recorded
            /\ p \in Producers /\ pc'[p] \in Capturing =>
                 pc[p] \in Capturing /\ ev'[p] = ev[p]
         \/ /\ p \in Producers /\ pc[p] \in Capturing /\ pc'[p] \notin Capturing
            /\ Recorded' \subseteq Recorded \cup {ev[p]}
  PROVE  Recorded' \subseteq 1..next' /\ \A q \in Producers : Fresh(q)'
  <1>1. Recorded' \subseteq 1..next'
    BY DEF Traced, Fresh
  <1>2. ASSUME NEW q \in Producers PROVE Fresh(q)'
    <2>1. CASE q # p
      BY <2>1 DEF Traced, Fresh
    <2>2. CASE q = p
      BY <2>2 DEF Traced, Fresh
    <2> QED
      BY <2>1, <2>2
  <1> QED
    BY <1>1, <1>2

LEMMA TracedByHooks ==
  ASSUME LonePipeline, TypeOK, PipelineInv, Traced, NEW p \in Procs, p \notin Consumers, Step(p)
  PROVE  Traced'
  <1>0. /\ p \in Producers /\ pc[p] \in HookSteps /\ crashes = 0 /\ MaxCrashes = 0
        /\ file \in Seq(Events) /\ overflow \in Seq(Events)
        /\ ev \in [Procs -> Events \cup {0}] /\ pc \in [Procs -> PCs]
        /\ Producers \subseteq Procs /\ next \in Nat
    BY LimitsAssumption
    DEF PipelineInv, Procs, LonePipeline, TypeOK, HistoryOK, DiskOK, ControlOK
  <1>1. /\ ToSet(file) \subseteq ToSet(file') /\ UNCHANGED tmp
        /\ \A c \in Consumers : pc'[c] = pc[c] /\ buf'[c] = buf[c]
    <2>1. file' = file \/ (pc[p] = "append" /\ file' = Append(file, ev[p]))
      BY HooksAppendOnly
    <2>2. pc[p] = "append" => ev[p] \in Events
      BY DEF TypeOK, ControlOK, Capturing
    <2>3. CASE file' = file
      BY <2>3, HooksAppendOnly
    <2>4. CASE pc[p] = "append" /\ file' = Append(file, ev[p])
      <3>1. ToSet(file') = ToSet(file) \cup {ev[p]}
        BY <1>0, <2>2, <2>4, RangeOfAppend
      <3> QED
        BY <3>1, HooksAppendOnly
    <2> QED
      BY <2>1, <2>3, <2>4
  <1>2. ASSUME ToSet(overflow) \subseteq ToSet(overflow')
        PROVE  \A c \in Consumers : CopyInv(c)'
    BY <1>1, <1>2 DEF Traced, CopyInv
  <1> USE DEF Goto, Recorded
  <1>3. CASE Capture(p)
    <2>1. /\ next' = next + 1 /\ ev'[p] = next + 1 /\ Recorded' = Recorded
          /\ \A q \in Producers : q # p => pc'[q] = pc[q] /\ ev'[q] = ev[q]
          /\ overflow' = overflow
      BY <1>0, <1>3 DEF Capture, files, fate
    <2>2. Recorded \subseteq 1..next
      BY DEF Traced
    <2>3. \A e \in 1..next : e \in 1..next' /\ e # next'
      BY <1>0, <2>1
    <2>4. ASSUME NEW q \in Producers PROVE Fresh(q)'
      <3>1. CASE q # p
        BY <2>1, <2>3, <3>1 DEF Traced, Fresh
      <3>2. CASE q = p
        <4>1. ev'[p] \in (1..next') \ Recorded'
          BY <1>0, <2>1, <2>2, <2>3
        <4>2. \A r \in Producers : r # p /\ pc'[r] \in Capturing => ev'[r] # ev'[p]
          BY <2>1, <2>3 DEF Traced, Fresh
        <4> QED
          BY <3>2, <4>1, <4>2 DEF Fresh
      <3> QED
        BY <3>1, <3>2
    <2> QED
      BY <1>2, <2>1, <2>2, <2>3, <2>4 DEF Traced
  <1>4. CASE AppendEvent(p)
    <2>1. /\ pc[p] \in Capturing /\ pc'[p] \notin Capturing
          /\ file' = Append(file, ev[p]) /\ ev[p] \in Events
          /\ UNCHANGED <<overflow, processed, exposed, next>>
          /\ \A q \in Producers : q # p => pc'[q] = pc[q] /\ ev'[q] = ev[q]
      BY <1>0, <1>4 DEF AppendEvent, Forget, Capturing, TypeOK, ControlOK, bounds
    <2>2. Recorded' \subseteq Recorded \cup {ev[p]}
      BY <1>0, <2>1, RangeOfAppend
    <2> QED
      BY <1>0, <1>2, <2>1, <2>2, FreshKept DEF Traced
  <1>5. CASE SpillEvent(p)
    <2>1. /\ pc[p] \in Capturing /\ pc'[p] \notin Capturing
          /\ overflow' = Append(overflow, ev[p]) /\ ev[p] \in Events
          /\ exposed' \subseteq exposed \cup {ev[p]}
          /\ UNCHANGED <<file, processed, next>>
          /\ \A q \in Producers : q # p => pc'[q] = pc[q] /\ ev'[q] = ev[q]
      BY <1>0, <1>5 DEF SpillEvent, Forget, Capturing, TypeOK, ControlOK, bounds
    <2>2. ToSet(overflow') = ToSet(overflow) \cup {ev[p]}
      BY <1>0, <2>1, RangeOfAppend
    <2>3. Recorded' \subseteq Recorded \cup {ev[p]}
      BY <2>1, <2>2
    <2> QED
      BY <1>0, <1>2, <2>1, <2>2, <2>3, FreshKept DEF Traced
  <1>6. CASE AcquireShort(p) \/ TimeoutShort(p) \/ AcquireOver(p)
    <2>1. /\ pc[p] \in Capturing /\ UNCHANGED <<files, processed, exposed, next, ev>>
          /\ \A q \in Producers : q # p => pc'[q] = pc[q]
      BY <1>0, <1>6 DEF AcquireShort, TimeoutShort, AcquireOver, Capturing, fate, memory,
         bounds
    <2> QED
      BY <1>0, <1>2, <2>1, FreshKept DEF Traced, files
  <1>7. CASE \/ DropEvent(p) \/ StatSize(p) \/ LoadSizeHead(p) \/ DecideRotation(p)
             \/ HeadPastEnd(p) \/ WriteBackHead(p)
    <2>1. /\ UNCHANGED <<files, processed, exposed, next>>
          /\ \A q \in Producers : q # p => pc'[q] = pc[q] /\ ev'[q] = ev[q]
          /\ pc'[p] \notin Capturing \/ (pc'[p] = pc[p] /\ ev'[p] = ev[p])
      BY <1>0, <1>7 DEF DropEvent, StatSize, LoadSizeHead, LoadHead, DecideRotation,
         HeadPastEnd, WriteBackHead, Forget, Capturing, fate, bounds
    <2> QED
      BY <1>0, <1>2, <2>1, FreshKept DEF Traced, files
  <1> QED
    BY <1>0, <1>3, <1>4, <1>5, <1>6, <1>7 DEF Step, ProducerStep, CaptureStep, SharedStep,
       Crash, AcquireLong, TimeoutLong, MergeRead, MergeAppend, MergeUnlink,
       LoadLockedHead, RotateCopy, Replace, ZeroHead, Release, HookSteps, Capturing

\* The pipeline's steps record nothing new.
LEMMA TracedByPipeline ==
  ASSUME LonePipeline, TypeOK, PipelineInv, Traced, NEW p \in Consumers, Step(p)
  PROVE  Traced'
  <1>0. /\ p \in Procs /\ p \notin Producers /\ Producers \subseteq Procs
        /\ file \in Seq(Events) /\ overflow \in Seq(Events) /\ buf[p] \in Seq(Events)
        /\ pos[p] \in Nat /\ arg[p] \in Nat /\ pc \in [Procs -> PCs]
        /\ buf \in [Procs -> Seq(Events)]
        /\ tmp \in [{"rotate", "compact"} -> Seq(Events) \cup {NoFile}]
        /\ \A c \in Consumers : c = p
    BY ProcsAssumption DEF TypeOK, DiskOK, ReadOK, ControlOK, Procs, LonePipeline
  <1>1. /\ BatchInv(p) /\ CopyInv(p) /\ ~Crash(p) /\ UNCHANGED next
        /\ \A q \in Producers : pc'[q] = pc[q] /\ ev'[q] = ev[q]
    <2>1. ~Crash(p)
      BY DEF Crash, LonePipeline, TypeOK, HistoryOK
    <2>2. UNCHANGED next
      BY <1>0, <2>1 DEF Step, ConsumerStep, SharedStep, HeadPastEnd, WriteBackHead,
         AcquireLong, TimeoutLong, MergeRead, MergeAppend, MergeUnlink, LoadLockedHead,
         Replace, ZeroHead, Release, StartCycle, LoadPeekHead, Peek, ProcessBatch,
         ProcessFails, Advance, SetHead, Compact, bounds
    <2>3. \A q \in Producers : pc'[q] = pc[q]
      BY <1>0, <2>1 DEF Step, ConsumerStep, SharedStep, HeadPastEnd, WriteBackHead,
         AcquireLong, TimeoutLong, MergeRead, MergeAppend, MergeUnlink, LoadLockedHead,
         Replace, ZeroHead, Release, StartCycle, LoadPeekHead, Peek, ProcessBatch,
         ProcessFails, Advance, SetHead, Compact, Goto
    <2>4. \A q \in Producers : ev'[q] = ev[q]
      BY <1>0, <2>1 DEF Step, ConsumerStep, SharedStep, HeadPastEnd, WriteBackHead,
         AcquireLong, TimeoutLong, MergeRead, MergeAppend, MergeUnlink, LoadLockedHead,
         Replace, ZeroHead, Release, StartCycle, LoadPeekHead, Peek, ProcessBatch,
         ProcessFails, Advance, SetHead, Compact, memory, Forget, LoadHead,
         TypeOK, ControlOK
    <2> QED
      BY <2>1, <2>2, <2>3, <2>4 DEF PipelineInv, Traced
  <1> USE DEF Goto
  <1>2. Recorded' \subseteq Recorded /\ CopyInv(p)'
    <2>1. CASE \/ StartCycle(p) \/ LoadPeekHead(p) \/ ProcessFails(p) \/ HeadPastEnd(p)
               \/ WriteBackHead(p) \/ AcquireLong(p) \/ TimeoutLong(p) \/ LoadLockedHead(p)
               \/ ZeroHead(p) \/ Release(p) \/ Advance(p) \/ SetHead(p)
      <3>1. UNCHANGED <<files, processed, exposed>>
        BY <2>1 DEF StartCycle, LoadPeekHead, ProcessFails, HeadPastEnd, WriteBackHead,
           AcquireLong, TimeoutLong, LoadLockedHead, ZeroHead, Release, Advance, SetHead, fate
      <3>2. \/ pc'[p] \notin {"process", "mergeAppend", "replace"}
            \/ pc'[p] = pc[p] /\ buf' = buf
        BY <1>0, <2>1 DEF StartCycle, LoadPeekHead, ProcessFails, HeadPastEnd, WriteBackHead,
           AcquireLong, TimeoutLong, LoadLockedHead, ZeroHead, Release, Advance, SetHead
      <3> QED
        BY <1>1, <3>1, <3>2 DEF files, Recorded, CopyInv
    <2>2. CASE Peek(p)
      <3>1. UNCHANGED <<files, processed, exposed>>
        BY <2>2 DEF Peek, fate
      <3>2. pc'[p] = "idle" \/ pc'[p] = "process"
        BY <1>0, <2>2 DEF Peek
      <3>3. pc'[p] = "process" => ToSet(buf'[p]) \subseteq ToSet(file)
        <4> DEFINE last == Least(pos[p] + arg[p], Len(file))
        <4> SUFFICES ASSUME pc'[p] = "process"
                     PROVE  ToSet(buf'[p]) \subseteq ToSet(file)
          OBVIOUS
        <4>1. buf'[p] = SubSeq(file, pos[p] + 1, last) /\ pos[p] <= Len(file)
          BY <1>0, <2>2 DEF Peek, HeadLoaded
        <4>2. last \in Nat /\ pos[p] <= last /\ last <= Len(file)
          BY <1>0, <4>1 DEF Least
        <4> QED
          BY <1>0, <4>1, <4>2, RangeOfBatch
      <3> QED
        BY <3>1, <3>2, <3>3 DEF files, Recorded, CopyInv
    <2>3. CASE ProcessBatch(p)
      BY <1>0, <1>1, <2>3 DEF ProcessBatch, files, Recorded, CopyInv
    <2>4. CASE MergeRead(p)
      BY <1>0, <1>1, <2>4 DEF MergeRead, files, fate, Recorded, CopyInv
    <2>5. CASE MergeAppend(p)
      <3>1. /\ ToSet(file') = ToSet(file) \cup ToSet(buf[p])
            /\ ToSet(buf[p]) \subseteq ToSet(overflow)
        BY <1>0, <1>1, <2>5, RangeOfConcat DEF MergeAppend, CopyInv
      <3> QED
        BY <1>0, <2>5, <3>1 DEF MergeAppend, fate, Recorded, CopyInv
    <2>6. CASE MergeUnlink(p)
      <3>1. ToSet(overflow') = {} /\ UNCHANGED <<file, processed, exposed>>
            /\ pc'[p] = "lockedHead"
        BY <1>0, <2>6 DEF MergeUnlink, fate, ToSet
      <3> QED
        BY <3>1 DEF Recorded, CopyInv
    <2>7. CASE Compact(p)
      <3>1. UNCHANGED <<file, overflow, processed, exposed>>
        BY <2>7 DEF Compact, fate
      <3>2. /\ pc'[p] = "replace" \/ pc'[p] = "release"
            /\ pc'[p] = "replace" => tmp'["compact"] = Lines(file, pos[p])
        BY <1>0, <2>7 DEF Compact
      <3>3. ToSet(Lines(file, pos[p])) \subseteq ToSet(file)
        <4>1. pc[p] = "compact" /\ pos[p] <= Len(file)
          BY <1>1, <2>7 DEF Compact, BatchInv, Passed
        <4>2. Len(file) \in Nat /\ Len(file) <= Len(file)
          BY <1>0
        <4>3. ToSet(SubSeq(file, pos[p] + 1, Len(file))) \subseteq ToSet(file)
          BY <1>0, <4>1, <4>2, RangeOfBatch
        <4> QED
          BY <4>3 DEF Lines
      <3> QED
        BY <3>1, <3>2, <3>3 DEF Recorded, CopyInv
    <2>8. CASE Replace(p)
      <3>1. /\ pc[p] = "replace" /\ pc'[p] \in {"release", "zeroHead"}
            /\ file' = file \/ (tmp["compact"] # NoFile /\ file' = tmp["compact"])
            /\ UNCHANGED <<overflow, processed, exposed>>
        BY <1>0, <2>8 DEF Replace, TmpOf
      <3>2. ToSet(file') \subseteq ToSet(file)
        BY <1>1, <3>1 DEF CopyInv
      <3> QED
        BY <3>1, <3>2 DEF Recorded, CopyInv
    <2> QED
      BY <1>0, <1>1, <2>1, <2>2, <2>3, <2>4, <2>5, <2>6, <2>7, <2>8
      DEF Step, ConsumerStep, SharedStep
  <1> QED
    BY <1>0, <1>1, <1>2, FreshKept DEF Traced

LEMMA TracedStep ==
  ASSUME LonePipeline, TypeOK, PipelineInv, Traced, [Next]_vars
  PROVE  Traced'
  <1>1. CASE UNCHANGED vars
    BY <1>1 DEF vars, files, memory, fate, bounds, Traced, Recorded, Fresh, CopyInv
  <1> QED
    BY <1>1, StepOfNext, TracedByHooks, TracedByPipeline

-----------------------------------------------------------------------------

\* What waits, whatever the head says: lines before the head were processed.
Waiting == ((ToSet(file) \cup ToSet(overflow)) \ exposed) \ processed

LEMMA PendingIsWaiting ==
  ASSUME TypeOK, NoLossInv, PipelineInv
  PROVE  ((Active \cup ToSet(overflow)) \ exposed) \ processed = Waiting
  <1>1. /\ LogicalHead \in Nat /\ LogicalHead <= Len(file) /\ file \in Seq(Events)
        /\ Len(file) \in Nat /\ Len(file) <= Len(file)
    BY DEF NoLossInv, HeadOverConsumed, LogicalHead, TypeOK, DiskOK
  <1>2. ToSet(file) \subseteq consumed \cup Active
    BY <1>1, RangeOfLines DEF Active, NoLossInv, HeadOverConsumed
  <1>3. ToSet(SubSeq(file, LogicalHead + 1, Len(file))) \subseteq ToSet(file)
    BY <1>1, RangeOfBatch
  <1>4. Active \subseteq ToSet(file)
    BY <1>3 DEF Active, Lines
  <1> QED
    BY <1>2, <1>4 DEF PipelineInv, ConsumedWereProcessed, Waiting

\* What one step does to an event.
Accepts(e) ==
  /\ e \notin Waiting \cup processed \cup exposed
  /\ Waiting' = Waiting \cup {e} /\ UNCHANGED <<processed, exposed>>
Exposes(e) ==
  /\ e \notin Waiting \cup processed \cup exposed
  /\ exposed' = exposed \cup {e} /\ UNCHANGED <<Waiting, processed>>
Learns ==
  /\ \E S : /\ S \subseteq ToSet(file)
            /\ processed' = processed \cup S
            /\ Waiting' = Waiting \ S
  /\ UNCHANGED exposed

LEMMA HooksDeliver ==
  ASSUME LonePipeline, Disciplined, TypeOK, PipelineInv, Traced, NEW p \in Procs,
         p \notin Consumers, Step(p)
  PROVE  (\E e \in Events : Accepts(e) \/ Exposes(e)) \/ UNCHANGED <<Waiting, processed, exposed>>
  <1>0. /\ p \in Producers /\ pc[p] \in HookSteps /\ crashes = 0 /\ MaxCrashes = 0
        /\ file \in Seq(Events) /\ overflow \in Seq(Events)
    BY DEF PipelineInv, Procs, LonePipeline, TypeOK, HistoryOK, DiskOK
  <1>1. pc[p] \in Capturing => ev[p] \in Events /\ ev[p] \notin Recorded
    BY <1>0 DEF TypeOK, ControlOK, Traced, Fresh, Procs
  <1> USE DEF Goto
  <1>2. CASE AppendEvent(p)
    <2>1. /\ ev[p] \in Events /\ ev[p] \notin Recorded
          /\ file' = Append(file, ev[p]) /\ UNCHANGED <<overflow, processed, exposed>>
      BY <1>1, <1>2 DEF AppendEvent, Capturing
    <2>2. ToSet(file') = ToSet(file) \cup {ev[p]}
      BY <1>0, <2>1, RangeOfAppend
    <2>3. Accepts(ev[p])
      BY <2>1, <2>2 DEF Accepts, Waiting, Recorded
    <2> QED
      BY <2>1, <2>3
  <1>3. CASE SpillEvent(p)
    <2>1. /\ ev[p] \in Events /\ ev[p] \notin Recorded
          /\ overflow' = Append(overflow, ev[p]) /\ UNCHANGED <<file, processed>>
          /\ exposed' = exposed \cup {ev[p]} \/ exposed' = exposed
      BY <1>1, <1>3 DEF SpillEvent, Capturing
    <2>2. ToSet(overflow') = ToSet(overflow) \cup {ev[p]}
      BY <1>0, <2>1, RangeOfAppend
    <2>3. Accepts(ev[p]) \/ Exposes(ev[p])
      BY <2>1, <2>2 DEF Accepts, Exposes, Waiting, Recorded
    <2> QED
      BY <2>1, <2>3
  <1>4. CASE ~AppendEvent(p) /\ ~SpillEvent(p)
    <2>1. UNCHANGED <<files, processed, exposed>>
      BY <1>0, <1>4 DEF Step, ProducerStep, CaptureStep, SharedStep, Crash, Capture,
         AcquireShort, TimeoutShort, AcquireOver, DropEvent, StatSize, LoadSizeHead,
         DecideRotation, HeadPastEnd, WriteBackHead, AcquireLong, TimeoutLong, MergeRead,
         MergeAppend, MergeUnlink, LoadLockedHead, RotateCopy, Replace, ZeroHead, Release,
         HookSteps, Capturing, fate
    <2> QED
      BY <2>1 DEF files, Waiting
  <1> QED
    BY <1>2, <1>3, <1>4

LEMMA PipelineDelivers ==
  ASSUME LonePipeline, Disciplined, TypeOK, NoLossInv, PipelineInv, Traced,
         NEW p \in Consumers, Step(p)
  PROVE  Learns \/ UNCHANGED <<Waiting, processed, exposed>>
  <1>0. /\ p \in Procs /\ p \notin Producers
        /\ file \in Seq(Events) /\ buf[p] \in Seq(Events)
        /\ BatchInv(p) /\ CopyInv(p) /\ SectionInv(p) /\ ~Crash(p)
    BY ProcsAssumption DEF TypeOK, DiskOK, ReadOK, Procs, PipelineInv, Traced, NoLossInv,
       LonePipeline, Crash, HistoryOK
  <1> USE DEF Goto
  <1>1. CASE ProcessBatch(p)
    <2>1. /\ processed' = processed \cup ToSet(buf[p]) /\ UNCHANGED <<file, overflow, exposed>>
          /\ ToSet(buf[p]) \subseteq ToSet(file)
      BY <1>0, <1>1 DEF ProcessBatch, CopyInv, files
    <2>2. Waiting' = Waiting \ ToSet(buf[p])
      BY <2>1 DEF Waiting
    <2> QED
      BY <2>1, <2>2 DEF Learns
  <1>2. CASE MergeAppend(p)
    <2>1. /\ ToSet(file') = ToSet(file) \cup ToSet(buf[p])
          /\ ToSet(buf[p]) \subseteq ToSet(overflow)
          /\ UNCHANGED <<overflow, processed, exposed>>
      BY <1>0, <1>2, RangeOfConcat DEF MergeAppend, CopyInv, fate
    <2> QED
      BY <2>1 DEF Waiting
  <1>3. CASE MergeUnlink(p)
    <2>1. /\ ToSet(overflow') = {} /\ ToSet(overflow) \ exposed \subseteq ToSet(file)
          /\ UNCHANGED <<file, processed, exposed>>
      BY <1>0, <1>3 DEF MergeUnlink, SectionInv, ToSet, fate
    <2> QED
      BY <2>1 DEF Waiting
  <1>4. CASE Replace(p)
    <2>1. /\ pc[p] = "replace" /\ UNCHANGED <<overflow, processed, exposed>>
          /\ file' = file \/ (tmp["compact"] # NoFile /\ file' = tmp["compact"])
      BY <1>0, <1>4 DEF Replace, TmpOf
    <2>2. CASE file' # file
      <3>1. ToSet(file') \subseteq ToSet(file)
        BY <1>0, <2>1, <2>2 DEF CopyInv
      <3>2. ToSet(file) \subseteq processed \cup ToSet(file')
        BY <1>0, <2>1, <2>2
        DEF SectionInv, TmpOf, BatchInv, PipelineInv, ConsumedWereProcessed
      <3> QED
        BY <2>1, <3>1, <3>2 DEF Waiting
    <2> QED
      BY <2>1, <2>2 DEF Waiting
  <1>5. CASE ~ProcessBatch(p) /\ ~MergeAppend(p) /\ ~MergeUnlink(p) /\ ~Replace(p)
    <2>1. UNCHANGED <<file, overflow, processed, exposed>>
      BY <1>0, <1>5 DEF Step, ConsumerStep, SharedStep, HeadPastEnd, WriteBackHead,
         AcquireLong, TimeoutLong, MergeRead, LoadLockedHead, ZeroHead, Release, StartCycle,
         LoadPeekHead, Peek, ProcessFails, Advance, SetHead, Compact, files, fate
    <2> QED
      BY <2>1 DEF Waiting
  <1> QED
    BY <1>1, <1>2, <1>3, <1>4, <1>5

\* Without rotation, with one pipeline and the locks respected, the capture queue
\* keeps the promise of Delivery: an event's fate is decided when it arrives, and
\* what waits is taken away only by being processed (queue.py:9, pipeline.py:16).
THEOREM QueueDelivers ==
  ASSUME LonePipeline, Disciplined
  PROVE  Spec => ImplementsDelivery
  <1> DEFINE pending == ((Active \cup ToSet(overflow)) \ exposed) \ processed
             delivered == processed \ exposed
             Known == TypeOK /\ NoLossInv /\ PipelineInv /\ Traced
             Agree == pending = Waiting
  <1>1. Init => Queue!Init
    <2> SUFFICES ASSUME Init PROVE pending = {} /\ delivered = {} /\ exposed = {}
      BY DEF Queue!Init
    <2>1. /\ file = <<>> /\ LogicalHead = 0 /\ ToSet(overflow) = {}
          /\ processed = {} /\ exposed = {}
      BY DEF Init, LogicalHead, ToSet
    <2>2. file \in Seq(Events) /\ Len(file) = 0 /\ ToSet(file) = {}
      BY <2>1 DEF ToSet
    <2>3. Active = ToSet(SubSeq(file, 1, 0))
      BY <2>1, <2>2 DEF Active, Lines
    <2>4. ToSet(SubSeq(file, 1, 0)) = {}
      BY <2>2 DEF ToSet
    <2> QED
      BY <2>1, <2>3, <2>4
  <1>2. Known /\ Agree /\ [Next]_vars /\ Agree' => [Queue!Next]_<<pending, delivered, exposed>>
    <2> SUFFICES ASSUME TypeOK, NoLossInv, PipelineInv, Traced, [Next]_vars, Agree, Agree'
                 PROVE  Queue!Next \/ UNCHANGED <<pending, delivered, exposed>>
      OBVIOUS
    <2>1. pending = Waiting /\ pending' = Waiting'
      OBVIOUS
    <2> HIDE DEF pending
    <2>2. CASE UNCHANGED vars
      BY <2>1, <2>2 DEF vars, files, fate, Waiting
    <2>3. ASSUME NEW e \in Events, Accepts(e) PROVE Queue!Next
      BY <2>1, <2>3
      DEF Accepts, Queue!Next, Queue!Arrive, Queue!Known, Events, pending
    <2>4. ASSUME NEW e \in Events, Exposes(e) PROVE Queue!Next
      BY <2>1, <2>4
      DEF Exposes, Queue!Next, Queue!Lose, Queue!Known, Events, pending
    <2>5. ASSUME Learns PROVE Queue!Next
      <3>1. PICK S : /\ S \subseteq ToSet(file)
                     /\ processed' = processed \cup S
                     /\ Waiting' = Waiting \ S
        BY <2>5 DEF Learns
      <3> DEFINE T == S \cap Waiting
      <3>2. pending' = pending \ T /\ exposed' = exposed
        BY <2>1, <2>5, <3>1 DEF Learns
      <3>3. delivered' = delivered \cup T
        BY <3>1, <3>2 DEF Waiting
      <3>4. T \in SUBSET pending
        BY <2>1
      <3> HIDE DEF T, delivered
      <3>5. Queue!Deliver(T)
        BY <3>2, <3>3 DEF Queue!Deliver, pending, delivered
      <3> QED
        BY <3>4, <3>5 DEF Queue!Next, pending
    <2>6. CASE UNCHANGED <<Waiting, processed, exposed>>
      BY <2>1, <2>6
    <2> QED
      BY <2>2, <2>3, <2>4, <2>5, <2>6, StepOfNext, HooksDeliver, PipelineDelivers
  <1>3. Known => Agree
    BY PendingIsWaiting
  <1>4. Spec => []Known
    BY TracedInit, TracedStep, TypeCorrect, SectionsKeepTheirLines, PipelineHolds, PTL
    DEF Spec
  <1> HIDE DEF Agree, Known
  <1> QED
    BY <1>1, <1>2, <1>3, <1>4, PTL DEF Spec, ImplementsDelivery, Queue!Spec
=============================================================================
