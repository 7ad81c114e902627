----------------------------- MODULE EventQueue -----------------------------
(***************************************************************************)
(* The append-only capture queue of Spark: lib/queue.py and the part of    *)
(* lib/pipeline.py that drives it.                                         *)
(*                                                                         *)
(* Hook processes capture events into a JSONL file, under a lock file they *)
(* wait 50 ms for; when the lock is busy the event goes to an overflow     *)
(* sidecar guarded by a second lock file.  A capture ends by trying to     *)
(* rotate the file.  The pipeline thread reads a batch from the persisted  *)
(* head, processes it, and advances the head.  Rotation and consumption    *)
(* both open with `with _queue_lock()` and never look at whether the lock  *)
(* was acquired.                                                           *)
(*                                                                         *)
(* Data abstraction: one event is one line and one unit of size, known by  *)
(* the number of its capture.  A file that does not exist is an empty one. *)
(* Every read, write, stat and replace of a shared file is a step.         *)
(***************************************************************************)
EXTENDS Integers, Sequences, SequencesExt, FiniteSets

CONSTANTS
  Producers,       \* hook processes: callers of quick_capture
  Consumers,       \* pipeline threads: callers of run_processing_cycle
  Batches,         \* batch sizes compute_batch_size may choose
  MaxEvents,       \* MAX_EVENTS, 0 disables the count limit
  MaxQueueLines,   \* MAX_QUEUE_BYTES in lines, 0 disables the size limit
  KeepDefault,     \* lines kept by a rotation when MAX_EVENTS = 0
  CompactHead,     \* QUEUE_COMPACT_HEAD_BYTES in lines
  SlowHolders,     \* whether a live holder may keep a lock for over 0.5 s
  MaxCaptures,     \* bound: captures in a behaviour
  MaxCrashes,      \* bound: crashes in a behaviour
  MaxFailures,     \* bound: batches on which pattern detection raises
  NoFile           \* a temporary file that does not exist

Procs == Producers \cup Consumers

ASSUME ProcsAssumption ==
  /\ Producers \cap Consumers = {}
  /\ IsFiniteSet(Procs)

ASSUME LimitsAssumption ==
  /\ Batches \subseteq Nat \ {0}
  /\ MaxEvents \in Nat
  /\ MaxQueueLines \in Nat
  /\ KeepDefault \in Nat \ {0}
  /\ CompactHead \in Nat \ {0}
  /\ SlowHolders \in BOOLEAN
  /\ MaxCaptures \in Nat
  /\ MaxCrashes \in Nat
  /\ MaxFailures \in Nat
  /\ NoFile \notin Seq(Nat)

VARIABLES
  \* What is on disk, shared by every process.
  file,        \* events.jsonl
  head,        \* head_bytes of state.json: lines before the first active one
  overflow,    \* events.overflow.jsonl
  tmp,         \* events.jsonl.rotate.tmp and events.jsonl.tmp
  lockFile,    \* whether .queue.lock exists
  ovLockFile,  \* whether events.overflow.jsonl.lock exists
  \* What each process holds in memory.
  acquired,    \* the processes whose _queue_lock has acquired = True
  ovAcquired,  \* the same for the overflow lock
  pc,          \* the step a process is about to take
  ev,          \* the event a producer is capturing
  pos,         \* the head a process has loaded
  fixing,      \* the processes writing back a head that was past the end
  arg,         \* a producer's file size, a consumer's batch size
  buf,         \* the lines a process has read
  \* History, for the properties only.
  next,        \* captures begun, numbered from 1
  crashes,
  failures,    \* batches that failed
  direct,      \* events appended to the queue file, in that order
  spilled,     \* events appended to the overflow file
  exposed,     \* events spilled while a merge had read but not unlinked
  processed,   \* events the pipeline has learned from
  consumed,    \* events the head has passed
  evicted      \* events a rotation has dropped on purpose

files  == <<file, overflow, tmp>>
locks  == <<lockFile, ovLockFile, acquired, ovAcquired>>
memory == <<ev, pos, fixing, arg, buf>>
fate   == <<direct, spilled, exposed, processed, consumed, evicted>>
bounds == <<next, crashes, failures>>
vars   == <<files, head, locks, pc, memory, fate, bounds>>

Events == 1..MaxCaptures

PCs == {"idle",
        \* quick_capture
        "lockShort", "append", "lockOver", "spill",
        \* rotate_if_needed before its lock
        "size", "sizeHead", "decide",
        \* the section rotate_if_needed and consume_processed share
        "lockLong", "mergeRead", "mergeAppend", "mergeUnlink", "lockedHead",
        \* their own parts of it
        "rotate", "advance", "setHead", "compact", "replace", "zeroHead",
        "release",
        \* run_processing_cycle around consume_processed
        "peekHead", "peek", "process"}

\* The steps a process takes inside `with _queue_lock()`.
Locked == {"append", "mergeRead", "mergeAppend", "mergeUnlink", "lockedHead",
           "rotate", "advance", "setHead", "compact", "replace", "zeroHead",
           "release"}

\* The steps of quick_capture up to its write.
Capturing == {"lockShort", "append", "lockOver", "spill"}

Lines(s, from) == SubSeq(s, from + 1, Len(s))
Least(a, b) == IF a < b THEN a ELSE b

\* Mutant of TailLines: the oldest lines are kept.
HeadLines(s, n) == SubSeq(s, 1, Least(n, Len(s)))

\* The last n lines of s.
TailLines(s, n) == Lines(s, IF Len(s) > n THEN Len(s) - n ELSE 0)

\* The temporary file that a process puts in place of the queue file.
TmpOf(p) == IF p \in Producers THEN "rotate" ELSE "compact"

KeepCount == IF MaxEvents = 0 THEN KeepDefault
             ELSE IF MaxEvents \div 2 = 0 THEN 1 ELSE MaxEvents \div 2

\* rotate_if_needed: the count limit is looked at only now and then.
NeedsRotation(p, counts) ==
  \/ MaxQueueLines > 0 /\ arg[p] - pos[p] > MaxQueueLines
  \/ MaxEvents > 0 /\ counts /\ Len(file) - pos[p] > MaxEvents

ShouldCompact(h) ==
  LET active == IF Len(file) > h THEN Len(file) - h ELSE 0
  IN  h >= CompactHead /\ (h >= Len(file) \div 2 \/ active <= CompactHead)

\* Mutants of WaitsInVain: there is no timeout for a lock file that nobody
\* holds any more; and a lock is never waited for.
WaitsForOwner(exists, holders) == exists /\ holders # {}
NeverWaits(exists, holders) == exists

\* A lock whose file exists is waited for in vain: it is held for longer than
\* the 0.5 s timeout, or whoever held it has crashed.
WaitsInVain(exists, holders) == exists /\ (SlowHolders \/ holders = {})

\* A merge has read the overflow file and has yet to unlink it.
MergeWindow == \E p \in Procs : pc[p] \in {"mergeAppend", "mergeUnlink"}
-----------------------------------------------------------------------------
Init ==
  /\ file = <<>> /\ head = 0 /\ overflow = <<>>
  /\ tmp = [t \in {"rotate", "compact"} |-> NoFile]
  /\ lockFile = FALSE /\ ovLockFile = FALSE
  /\ acquired = {} /\ ovAcquired = {}
  /\ pc = [p \in Procs |-> "idle"]
  /\ ev = [p \in Procs |-> 0]
  /\ pos = [p \in Procs |-> 0]
  /\ fixing = {}
  /\ arg = [p \in Procs |-> 0]
  /\ buf = [p \in Procs |-> <<>>]
  /\ next = 0 /\ crashes = 0 /\ failures = 0
  /\ direct = <<>> /\ spilled = {} /\ exposed = {}
  /\ processed = {} /\ consumed = {} /\ evicted = {}

Goto(p, from, to) == pc[p] = from /\ pc' = [pc EXCEPT ![p] = to]

\* What the process has read is out of scope.
Forget(p) ==
  /\ ev' = [ev EXCEPT ![p] = 0]
  /\ pos' = [pos EXCEPT ![p] = 0]
  /\ fixing' = fixing \ {p}
  /\ arg' = [arg EXCEPT ![p] = 0]
  /\ buf' = [buf EXCEPT ![p] = <<>>]

\* __enter__ that finds no lock file, and __exit__: it deletes the lock file
\* only when this process acquired it.
TakeQueueLock(p) ==
  /\ ~lockFile
  /\ lockFile' = TRUE
  /\ acquired' = acquired \cup {p}
  /\ UNCHANGED <<ovLockFile, ovAcquired>>

\* Mutants of DropQueueLock: the lock file is deleted whoever created it; or
\* not at all.
DropAnyLock(p) ==
  /\ lockFile' = FALSE
  /\ acquired' = acquired \ {p}
  /\ UNCHANGED <<ovLockFile, ovAcquired>>

LeaveQueueLock(p) == UNCHANGED locks

DropQueueLock(p) ==
  /\ lockFile' = IF p \in acquired THEN FALSE ELSE lockFile
  /\ acquired' = acquired \ {p}
  /\ UNCHANGED <<ovLockFile, ovAcquired>>
-----------------------------------------------------------------------------
(* _queue_head_bytes loads the state, then compares it with the size of the *)
(* file; a head past the end is taken for 0 and written back.  A state that *)
(* write_text has truncated and not yet written reads as {}, which is head 0. *)

LoadHead(p) ==
  /\ pos' = [pos EXCEPT ![p] = head]
  /\ UNCHANGED <<ev, fixing, arg, buf>>

HeadLoaded(p) == pos[p] <= Len(file) /\ p \notin fixing

HeadPastEnd(p) ==
  /\ pc[p] \in {"decide", "peek", "rotate", "advance"}
  /\ pos[p] > Len(file)
  /\ pos' = [pos EXCEPT ![p] = 0]
  /\ fixing' = fixing \cup {p}
  /\ UNCHANGED <<files, head, locks, pc, ev, arg, buf, fate, bounds>>

WriteBackHead(p) ==
  /\ p \in fixing
  /\ fixing' = fixing \ {p}
  /\ head' = 0
  /\ UNCHANGED <<files, locks, pc, ev, pos, arg, buf, fate, bounds>>
-----------------------------------------------------------------------------
(* quick_capture *)

Capture(p) ==
  /\ next < MaxCaptures
  /\ Goto(p, "idle", "lockShort")
  /\ next' = next + 1
  /\ ev' = [ev EXCEPT ![p] = next + 1]
  /\ UNCHANGED <<files, head, locks, pos, fixing, arg, buf, fate, crashes,
                 failures>>

AcquireShort(p) ==
  /\ Goto(p, "lockShort", "append")
  /\ TakeQueueLock(p)
  /\ UNCHANGED <<files, head, memory, fate, bounds>>

\* Mutant of TimeoutShort: the event is not handed to the overflow branch.
TimeoutForgets(p) ==
  /\ lockFile
  /\ Goto(p, "lockShort", "lockOver")
  /\ Forget(p)
  /\ UNCHANGED <<files, head, locks, fate, bounds>>

TimeoutShort(p) ==
  /\ lockFile
  /\ Goto(p, "lockShort", "lockOver")
  /\ UNCHANGED <<files, head, locks, memory, fate, bounds>>

AppendEvent(p) ==
  /\ Goto(p, "append", "size")
  /\ file' = Append(file, ev[p])
  /\ direct' = Append(direct, ev[p])
  /\ DropQueueLock(p)
  /\ Forget(p)
  /\ UNCHANGED <<head, overflow, tmp, spilled, exposed, processed, consumed,
                 evicted, bounds>>

AcquireOver(p) ==
  /\ ~ovLockFile
  /\ Goto(p, "lockOver", "spill")
  /\ ovLockFile' = TRUE
  /\ ovAcquired' = ovAcquired \cup {p}
  /\ UNCHANGED <<files, head, lockFile, acquired, memory, fate, bounds>>

\* "overflow lock busy; dropping event": quick_capture returns False.
DropEvent(p) ==
  /\ WaitsInVain(ovLockFile, ovAcquired)
  /\ Goto(p, "lockOver", "idle")
  /\ Forget(p)
  /\ UNCHANGED <<files, head, locks, fate, bounds>>

SpillEvent(p) ==
  /\ Goto(p, "spill", "size")
  /\ overflow' = Append(overflow, ev[p])
  /\ spilled' = spilled \cup {ev[p]}
  /\ exposed' = IF MergeWindow THEN exposed \cup {ev[p]} ELSE exposed
  /\ ovLockFile' = FALSE
  /\ ovAcquired' = ovAcquired \ {p}
  /\ Forget(p)
  /\ UNCHANGED <<file, head, tmp, lockFile, acquired, direct, processed,
                 consumed, evicted, bounds>>
-----------------------------------------------------------------------------
(* rotate_if_needed, up to its lock: nothing here is under a lock *)

StatSize(p) ==
  /\ Goto(p, "size", "sizeHead")
  /\ arg' = [arg EXCEPT ![p] = Len(file)]
  /\ UNCHANGED <<files, head, locks, ev, pos, fixing, buf, fate, bounds>>

LoadSizeHead(p) ==
  /\ Goto(p, "sizeHead", "decide")
  /\ LoadHead(p)
  /\ UNCHANGED <<files, head, locks, fate, bounds>>

DecideRotation(p) ==
  /\ HeadLoaded(p)
  /\ \E counts \in BOOLEAN :
       Goto(p, "decide",
            IF NeedsRotation(p, counts) THEN "lockLong" ELSE "idle")
  /\ Forget(p)
  /\ UNCHANGED <<files, head, locks, fate, bounds>>
-----------------------------------------------------------------------------
(* The section shared by rotate_if_needed and consume_processed *)

AcquireLong(p) ==
  /\ Goto(p, "lockLong", "mergeRead")
  /\ TakeQueueLock(p)
  /\ UNCHANGED <<files, head, memory, fate, bounds>>

\* __enter__ returns with acquired = False, and the body runs all the same.
TimeoutLong(p) ==
  /\ WaitsInVain(lockFile, acquired)
  /\ Goto(p, "lockLong", "mergeRead")
  /\ UNCHANGED <<files, head, locks, memory, fate, bounds>>

MergeRead(p) ==
  /\ Goto(p, "mergeRead",
          IF overflow = <<>> THEN "lockedHead" ELSE "mergeAppend")
  /\ buf' = [buf EXCEPT ![p] = overflow]
  /\ UNCHANGED <<files, head, locks, ev, pos, fixing, arg, fate, bounds>>

\* Mutant of MergeAppend: the queue file is opened with "w" instead of "a".
MergeOverwrite(p) ==
  /\ Goto(p, "mergeAppend", "mergeUnlink")
  /\ file' = buf[p]
  /\ UNCHANGED <<head, overflow, tmp, locks, memory, fate, bounds>>

MergeAppend(p) ==
  /\ Goto(p, "mergeAppend", "mergeUnlink")
  /\ file' = file \o buf[p]
  /\ UNCHANGED <<head, overflow, tmp, locks, memory, fate, bounds>>

\* Deletes the overflow file as it is now, not as it was read.
MergeUnlink(p) ==
  /\ Goto(p, "mergeUnlink", "lockedHead")
  /\ overflow' = <<>>
  /\ buf' = [buf EXCEPT ![p] = <<>>]
  /\ UNCHANGED <<file, tmp, head, locks, ev, pos, fixing, arg, fate, bounds>>

LoadLockedHead(p) ==
  /\ Goto(p, "lockedHead", IF p \in Producers THEN "rotate" ELSE "advance")
  /\ LoadHead(p)
  /\ UNCHANGED <<files, head, locks, fate, bounds>>

\* rotate_if_needed: write the newest of the active lines to a file.
RotateCopy(p) ==
  /\ HeadLoaded(p)
  /\ Goto(p, "rotate", "replace")
  /\ buf' = [buf EXCEPT ![p] = Lines(file, pos[p])]
  /\ tmp' = [tmp EXCEPT !["rotate"] = TailLines(buf'[p], KeepCount)]
  /\ pos' = [pos EXCEPT ![p] = 0]
  /\ UNCHANGED <<file, overflow, head, locks, ev, fixing, arg, fate, bounds>>

\* consume_processed: count the lines to pass, and truncate the state.
Advance(p) ==
  LET n == Least(arg[p], Len(file) - pos[p])
  IN  /\ HeadLoaded(p)
      /\ Goto(p, "advance", IF n = 0 THEN "release" ELSE "setHead")
      /\ pos' = [pos EXCEPT ![p] = pos[p] + n]
      /\ buf' = [buf EXCEPT ![p] = SubSeq(file, pos[p] + 1, pos[p] + n)]
      /\ head' = IF n = 0 THEN head ELSE 0
      /\ UNCHANGED <<files, locks, ev, fixing, arg, fate, bounds>>

SetHead(p) ==
  /\ Goto(p, "setHead", "compact")
  /\ head' = pos[p]
  /\ consumed' = consumed \cup ToSet(buf[p])
  /\ buf' = [buf EXCEPT ![p] = <<>>]
  /\ UNCHANGED <<files, locks, ev, pos, fixing, arg, direct, spilled, exposed,
                 processed, evicted, bounds>>

\* Mutant of Compact: one line too many is left out of the copy.
CompactOffByOne(p) ==
  /\ IF ShouldCompact(pos[p])
     THEN /\ Goto(p, "compact", "replace")
          /\ tmp' = [tmp EXCEPT !["compact"] = Lines(file, pos[p] + 1)]
     ELSE Goto(p, "compact", "release") /\ UNCHANGED tmp
  /\ UNCHANGED <<file, overflow, head, locks, memory, fate, bounds>>

Compact(p) ==
  /\ IF ShouldCompact(pos[p])
     THEN /\ Goto(p, "compact", "replace")
          /\ tmp' = [tmp EXCEPT !["compact"] = Lines(file, pos[p])]
     ELSE Goto(p, "compact", "release") /\ UNCHANGED tmp
  /\ UNCHANGED <<file, overflow, head, locks, memory, fate, bounds>>

\* tmp.replace(EVENTS_FILE): the content moves, and what a rotation has read
\* and not kept is evicted.  The name of the temporary file is shared: when
\* another process has moved it away, replace raises and the head stays.
Replace(p) ==
  LET new == tmp[TmpOf(p)]
  IN  /\ IF new = NoFile
         THEN /\ Goto(p, "replace", "release")
              /\ UNCHANGED <<file, tmp, evicted>>
         ELSE /\ Goto(p, "replace", "zeroHead")
              /\ file' = new
              /\ tmp' = [tmp EXCEPT ![TmpOf(p)] = NoFile]
              /\ evicted' = evicted \cup (ToSet(buf[p]) \ ToSet(new))
      /\ UNCHANGED <<overflow, head, locks, memory, direct, spilled, exposed,
                     processed, consumed, bounds>>

\* Mutant of ZeroHead: the head is not reset after the rewrite.
KeepHead(p) ==
  /\ Goto(p, "zeroHead", "release")
  /\ UNCHANGED <<files, head, locks, memory, fate, bounds>>

ZeroHead(p) ==
  /\ Goto(p, "zeroHead", "release")
  /\ head' = 0
  /\ UNCHANGED <<files, locks, memory, fate, bounds>>

Release(p) ==
  /\ Goto(p, "release", "idle")
  /\ DropQueueLock(p)
  /\ Forget(p)
  /\ UNCHANGED <<files, head, fate, bounds>>
-----------------------------------------------------------------------------
(* run_processing_cycle: read a batch, process it, then consume as many *)

StartCycle(p) ==
  /\ Goto(p, "idle", "peekHead")
  /\ \E n \in Batches : arg' = [arg EXCEPT ![p] = n]
  /\ UNCHANGED <<files, head, locks, ev, pos, fixing, buf, fate, bounds>>

LoadPeekHead(p) ==
  /\ Goto(p, "peekHead", "peek")
  /\ LoadHead(p)
  /\ UNCHANGED <<files, head, locks, fate, bounds>>

\* read_events; with no event the cycle returns before it consumes anything.
Peek(p) ==
  LET batch == SubSeq(file, pos[p] + 1, Least(pos[p] + arg[p], Len(file)))
  IN  /\ HeadLoaded(p)
      /\ IF batch = <<>>
         THEN Goto(p, "peek", "idle") /\ Forget(p)
         ELSE /\ Goto(p, "peek", "process")
              /\ buf' = [buf EXCEPT ![p] = batch]
              /\ arg' = [arg EXCEPT ![p] = Len(batch)]
              /\ pos' = [pos EXCEPT ![p] = 0]
              /\ UNCHANGED <<ev, fixing>>
      /\ UNCHANGED <<files, head, locks, fate, bounds>>

ProcessBatch(p) ==
  /\ Goto(p, "process", "lockLong")
  /\ processed' = processed \cup ToSet(buf[p])
  /\ buf' = [buf EXCEPT ![p] = <<>>]
  /\ UNCHANGED <<files, head, locks, ev, pos, fixing, arg, direct, spilled,
                 exposed, consumed, evicted, bounds>>

\* Mutant of ProcessFails: a batch that failed is consumed all the same.
ConsumeFailed(p) ==
  /\ failures < MaxFailures
  /\ Goto(p, "process", "lockLong")
  /\ failures' = failures + 1
  /\ UNCHANGED <<files, head, locks, memory, fate, next, crashes>>

\* pattern_cycle_ok stays False: consume is skipped, the batch is read again.
ProcessFails(p) ==
  /\ failures < MaxFailures
  /\ Goto(p, "process", "idle")
  /\ Forget(p)
  /\ failures' = failures + 1
  /\ UNCHANGED <<files, head, locks, fate, next, crashes>>
-----------------------------------------------------------------------------
\* The process dies, and may start again: its memory is gone, its lock files
\* and temporary files stay, and a state it has truncated is not written.
Crash(p) ==
  /\ crashes < MaxCrashes
  /\ pc[p] # "idle"
  /\ pc' = [pc EXCEPT ![p] = "idle"]
  /\ acquired' = acquired \ {p}
  /\ ovAcquired' = ovAcquired \ {p}
  /\ Forget(p)
  /\ crashes' = crashes + 1
  /\ UNCHANGED <<files, head, lockFile, ovLockFile, fate, next,
                 failures>>

CaptureStep(p) ==
  \/ AcquireShort(p) \/ TimeoutShort(p) \/ AppendEvent(p)
  \/ AcquireOver(p) \/ DropEvent(p) \/ SpillEvent(p)
  \/ StatSize(p) \/ LoadSizeHead(p) \/ DecideRotation(p)

SharedStep(p) ==
  \/ HeadPastEnd(p) \/ WriteBackHead(p)
  \/ AcquireLong(p) \/ TimeoutLong(p)
  \/ MergeRead(p) \/ MergeAppend(p) \/ MergeUnlink(p) \/ LoadLockedHead(p)
  \/ Replace(p) \/ ZeroHead(p) \/ Release(p)

ProducerStep(p) == CaptureStep(p) \/ SharedStep(p) \/ RotateCopy(p)

ConsumerStep(p) ==
  \/ StartCycle(p) \/ LoadPeekHead(p) \/ Peek(p)
  \/ ProcessBatch(p) \/ ProcessFails(p)
  \/ SharedStep(p) \/ Advance(p) \/ SetHead(p) \/ Compact(p)

Next ==
  \/ \E p \in Producers : Capture(p) \/ ProducerStep(p)
  \/ \E p \in Consumers : ConsumerStep(p)
  \/ \E p \in Procs : Crash(p)

Spec == Init /\ [][Next]_vars
-----------------------------------------------------------------------------
(* Types and locks *)

DiskOK ==
  /\ file \in Seq(Events)
  /\ head \in Nat
  /\ overflow \in Seq(Events)
  /\ tmp \in [{"rotate", "compact"} -> Seq(Events) \cup {NoFile}]

LocksOK ==
  /\ lockFile \in BOOLEAN /\ ovLockFile \in BOOLEAN
  /\ acquired \subseteq Procs /\ ovAcquired \subseteq Procs

ControlOK ==
  /\ pc \in [Procs -> PCs]
  /\ ev \in [Procs -> Events \cup {0}]
  /\ \A p \in Procs : pc[p] \in Capturing => ev[p] \in Events

ReadOK ==
  /\ pos \in [Procs -> Nat]
  /\ fixing \subseteq Procs
  /\ arg \in [Procs -> Nat]
  /\ buf \in [Procs -> Seq(Events)]

HistoryOK ==
  /\ next \in 0..MaxCaptures
  /\ direct \in Seq(Events)
  /\ spilled \subseteq Events /\ exposed \subseteq Events
  /\ processed \subseteq Events /\ consumed \subseteq Events
  /\ evicted \subseteq Events
  /\ crashes \in 0..MaxCrashes
  /\ failures \in 0..MaxFailures

\* The types of the variables; a capture under way holds an event.
TypeOK == DiskOK /\ LocksOK /\ ControlOK /\ ReadOK /\ HistoryOK

\* At most one process believes it holds each lock, it is in the section the
\* lock guards, and the lock file is there: no __exit__ ever deletes a lock
\* file that another process created (queue.py:707-717), whatever times out
\* and whoever crashes.  quick_capture writes only under the lock it needs.
LockExclusive ==
  /\ \A p, q \in acquired : p = q
  /\ \A p, q \in ovAcquired : p = q
  /\ acquired # {} => lockFile
  /\ ovAcquired # {} => ovLockFile
  /\ \A p \in acquired : pc[p] \in Locked
  /\ \A p \in Procs : pc[p] = "append" => p \in acquired
  /\ \A p \in Procs : pc[p] = "spill" <=> p \in ovAcquired
-----------------------------------------------------------------------------
(* What happens to an event that was captured *)

\* The head as it will be once the rewrite in progress has reset it.
LogicalHead == IF \E p \in Procs : pc[p] = "zeroHead" THEN 0 ELSE head

Active == ToSet(Lines(file, LogicalHead))

Accounted == Active \cup ToSet(overflow) \cup consumed \cup evicted

\* "No events are lost" (queue.py:9), "write to overflow sidecar so no events
\* are lost" (queue.py:297): every event quick_capture accepted is waiting,
\* was consumed, or was evicted by a rotation that read it.
NoEventsLost == ToSet(direct) \cup spilled \subseteq Accounted

\* What is left of it when the locks are respected: the only events that can
\* disappear are those spilled while a merge has read the overflow file and
\* not yet unlinked it (queue.py:201-205).
LossOnlyInMergeWindow == ToSet(direct) \cup (spilled \ exposed) \subseteq Accounted

\* The head never points past the end, and every line it has passed was
\* consumed: neither a rotation nor a compaction leaves a head that skips lines
\* of the file it has put in place.
HeadOverConsumed ==
  /\ LogicalHead <= Len(file)
  /\ \A i \in 1..LogicalHead : file[i] \in consumed

\* Appended events leave the file from its old end only: as long as one of
\* them is there, all that were appended later are there too, behind it, in the
\* order they came and once, whatever merges, rotations and compactions ran in
\* between.
DirectLinesAreNewest ==
  /\ \A i, j \in 1..Len(file) : file[i] = file[j] /\ file[i] \in ToSet(direct) => i = j
  /\ \A i \in 1..Len(file), k \in 1..Len(direct) :
       file[i] = direct[k] =>
         \A m \in k + 1 .. Len(direct) : \E j \in i + 1 .. Len(file) : file[j] = direct[m]

\* "Never lose events (consume only after successful processing)"
\* (pipeline.py:16): the head passes no event that was not processed.
ConsumedWereProcessed == consumed \subseteq processed

\* The locks are respected: nobody crashes holding one, and nobody holds one
\* for so long that another process goes ahead without it.
Disciplined == ~SlowHolders /\ MaxCrashes = 0

Kept ==
  LET left == ToSet(file) \cup consumed \cup evicted
  IN  ToSet(direct) \subseteq left /\ spilled \ exposed \subseteq left \cup ToSet(overflow)

\* The first n lines of the queue file are events of S.
Passed(n, S) == n <= Len(file) /\ \A i \in 1..n : file[i] \in S

\* What the holder of the lock knows of the file it is about to change.
SectionInv(p) ==
  /\ pc[p] = "mergeAppend" => ToSet(overflow) \ exposed \subseteq ToSet(buf[p])
  /\ pc[p] = "mergeUnlink" => ToSet(overflow) \ exposed \subseteq ToSet(file)
  /\ pc[p] \in {"rotate", "advance", "compact"} => Passed(pos[p], consumed)
  /\ pc[p] = "setHead" => Passed(pos[p], consumed \cup ToSet(buf[p]))
  /\ pc[p] = "replace" =>
       tmp[TmpOf(p)] = NoFile
       \/ ToSet(file) \subseteq
            consumed \cup ToSet(buf[p]) \cup ToSet(tmp[TmpOf(p)])

\* The inductive invariant behind LossOnlyInMergeWindow and HeadOverConsumed:
\* whoever is in the section the queue lock guards does hold the lock, and
\* carries from one step to the next what the section's rewrite relies on
\* (queue.py:473-491, queue.py:512-555).
NoLossInv ==
  /\ lockFile => acquired # {}
  /\ \A p \in Procs : pc[p] \in Locked => p \in acquired
  /\ Kept
  /\ HeadOverConsumed
  /\ \A p \in Procs : SectionInv(p)

\* The queue as the pipeline sees it.  An event spilled into a merge window
\* is lost on arrival; every other accepted event waits, in the queue file or
\* in the overflow file, until it has been processed.
Queue == INSTANCE Delivery WITH
  Event     <- 1..MaxCaptures,
  pending   <- ((Active \cup ToSet(overflow)) \ exposed) \ processed,
  delivered <- processed \ exposed,
  lost      <- exposed

\* Without rotation, and with the locks respected, the files, the locks, the
\* merges and the compactions implement that promise (queue.py:9,
\* pipeline.py:16): no step takes a waiting event away unprocessed, and none
\* brings back one that was lost.
ImplementsDelivery == Queue!Spec
-----------------------------------------------------------------------------
(* Progress *)

\* Hooks and the pipeline thread are running programs: each takes its next
\* step if it can.  Nothing makes a hook capture, and nothing crashes.
Fairness ==
  /\ \A p \in Producers : WF_vars(ProducerStep(p))
  /\ \A p \in Consumers : WF_vars(ConsumerStep(p))

FairSpec == Spec /\ Fairness

\* "Hooks never slow down the AI agent" (queue.py:8): a capture that has begun
\* returns, whatever the other processes do with the locks and even when a
\* crash has left them behind.
CaptureReturns == \A p \in Producers : pc[p] # "idle" ~> pc[p] = "idle"

\* An event appended to the queue file is consumed or evicted in the end.
DirectEventsDrain ==
  \A e \in 1..MaxCaptures :
    e \in ToSet(direct) ~> e \in consumed \cup evicted
=============================================================================
