---------------------------- MODULE BridgeCycle ----------------------------
(***************************************************************************)
(* One bridge worker from the inside: lib/bridge_cycle.py runs the steps   *)
(* of a cycle one after the other in a small thread pool, each under a     *)
(* soft timeout.  A step that times out goes on in its thread, beside the  *)
(* steps after it and beside the next cycle.                               *)
(*                                                                         *)
(* What such a step can disturb is modelled with it: the learner and its   *)
(* batches (lib/cognitive_learner.py), the head of the queue               *)
(* (lib/pipeline.py), and the offsets that the pattern worker, the         *)
(* validation loop and the prediction loop keep into the same queue.       *)
(*                                                                         *)
(* An event is its number, and so is the insight learned from it; all that *)
(* is learned without an event is two insights.  The queue's own files     *)
(* and locks are EventQueue's.  Other processes save the learner's file    *)
(* too: here they keep its lock from the worker; what is in the file is    *)
(* InsightStore's.                                                         *)
(***************************************************************************)
EXTENDS Integers, Sequences, FiniteSets

CONSTANTS
  Steps,       \* bound: the pool steps a cycle has
  Slow,        \* bound: the steps that may outlast BRIDGE_STEP_TIMEOUT_S
  PoolSize,    \* _STEP_EXECUTOR_WORKERS
  Batch,       \* events the pipeline reads
  Limit,       \* pattern_limit
  MaxEvents,   \* bound: events that arrive
  MaxTroubles  \* bound: steps that outlast their timeout, kills, and what raises or fails

\* The steps that run_bridge_cycle gives to the pool.
PoolSteps == {"context", "feedback", "memory", "pipeline", "patterns_fallback",
              "validation", "outcome_validation", "prediction",
              "opportunity_scanner", "chips", "engagement_pulse", "chip_merge",
              "runtime_hygiene", "sync"}
Readers == {"patterns_fallback", "validation", "prediction"}
\* Steps that add insights which come from no event of the queue.
Inserting == {"feedback", "memory", "chip_merge"}

ASSUME CycleAssumption ==
  /\ Slow \subseteq Steps /\ Steps \subseteq PoolSteps
  /\ PoolSize \in Nat \ {0} /\ Batch \in Nat \ {0} /\ Limit \in Nat \ {0}
  /\ {MaxEvents, MaxTroubles} \subseteq Nat

\* A pool step, if the cycle has it.
Pooled(s) == IF s \in Steps THEN <<s>> ELSE <<>>
Perception == Pooled("context") \o Pooled("feedback") \o Pooled("memory")
Learning == Pooled("pipeline") \o Pooled("patterns_fallback") \o Pooled("validation")
            \o Pooled("outcome_validation") \o Pooled("prediction")
Upkeep == Pooled("opportunity_scanner") \o Pooled("chips") \o Pooled("engagement_pulse")
          \o Pooled("chip_merge") \o Pooled("runtime_hygiene") \o Pooled("sync")
\* The cycle: pool steps in their order, what the main thread does itself, the
\* sleep.
Script == <<"sleep", "begin_batch">> \o Perception \o <<"flush">> \o Learning
          \o <<"inline">> \o Upkeep \o <<"end_batch">>

Main == 0
Threads == 1..PoolSize
Savers == {Main} \cup Threads
NoOne == PoolSize + 1
\* The lock file of a process that was killed.
Left == PoolSize + 2

VARIABLES
  \* The main thread.
  pc,         \* position in Script
  ph,         \* "go", or "wait" for a step, or "save" for the learner's file
  mine,       \* the thread of the step it waits for; NoOne while that is queued
  noMetrics,  \* pipeline_metrics is None
  \* The pool.
  job,        \* what each thread runs: step, how far, where and how much it read
  \* The learner.
  mem,        \* insights
  dirty,      \* _dirty
  defer,      \* _defer_saves
  sv,         \* each thread's save: how far, and the keys it iterates over
  lock,       \* thread that has the learner's lock file, or Left
  disk,       \* cognitive_insights.json
  \* The queue.
  tail,       \* events captured
  head,       \* events consumed
  offs,       \* each reader's saved offset, in active lines
  \* History and bounds.
  processed,  \* events the pipeline has processed
  seen,       \* events each reader has processed
  lost,       \* consumed events whose insights were in a killed worker only
  unsaved,    \* insights that a save has neither written nor left marked
  stolen,     \* whether a lock file that was left over has been deleted
  twoPipes,   \* whether two pipelines have run at once
  unreset,    \* whether the head has moved since the pattern worker's offset was reset
  raced,      \* whether a reset came between a fallback's read and its store
  overruns, troubles

mainVars  == <<pc, ph, mine, noMetrics>>
learner   == <<mem, dirty, defer, sv, lock, disk>>
queueVars == <<tail, head, offs>>
reached   == <<processed, seen>>
cursorRaces == <<unreset, raced>>
history   == <<reached, lost, unsaved, stolen, twoPipes, cursorRaces, overruns, troubles>>
vars == <<mainVars, job, learner, queueVars, history>>

Free == [step |-> "none", at |-> "none", lo |-> 0, n |-> 0, base |-> 0]
NoSave == [at |-> "no", keys |-> {}]
\* Insights that come from no event: those of Inserting, and of the main thread.
FromStep == 0
FromMain == -1
Insights == FromMain..MaxEvents

Init ==
  /\ pc = 1 /\ ph = "go" /\ mine = NoOne /\ noMetrics = TRUE
  /\ job = [t \in Threads |-> Free]
  /\ mem = {} /\ dirty = FALSE /\ defer = FALSE
  /\ sv = [a \in Savers |-> NoSave]
  /\ lock = NoOne /\ disk = {}
  /\ tail = 0 /\ head = 0
  /\ offs = [r \in Readers |-> 0]
  /\ processed = {} /\ seen = [r \in Readers |-> {}] /\ lost = {}
  /\ unsaved = {} /\ stolen = FALSE
  /\ twoPipes = FALSE /\ unreset = FALSE /\ raced = FALSE
  /\ overruns = 0 /\ troubles = 0

AtStep == Script[pc]
Continue == /\ pc' = IF pc = Len(Script) THEN 1 ELSE pc + 1
            /\ ph' = "go" /\ mine' = NoOne
IdleThreads == {t \in Threads : job[t] = Free}

-----------------------------------------------------------------------------
(* The main thread.                                                        *)

\* The sleep of bridge_worker.py's loop, and begin_batch.
Proceed ==
  /\ ph = "go" /\ AtStep \in {"sleep", "begin_batch"}
  /\ defer' = (defer \/ AtStep = "begin_batch")
  /\ noMetrics' = TRUE
  /\ Continue
  /\ UNCHANGED <<job, mem, dirty, sv, lock, disk, queueVars, history>>

\* end_batch, in mid-cycle or at the end: saves are no longer deferred, and a
\* change is saved now.
EndBatch ==
  /\ ph = "go" /\ AtStep \in {"flush", "end_batch"}
  /\ IF dirty
       THEN /\ ph' = "save"
            /\ dirty' = FALSE
            /\ defer' = FALSE
            /\ sv' = [sv EXCEPT ![Main].at = "wait"]
            /\ UNCHANGED <<pc, mine>>
       ELSE /\ Continue
            /\ defer' = (AtStep = "flush")
            /\ UNCHANGED <<dirty, sv>>
  /\ UNCHANGED <<noMetrics, job, mem, lock, disk, queueVars, history>>

\* _save_insights in the main thread.
LearnedInMain ==
  IF defer
    THEN Continue /\ dirty' = TRUE /\ UNCHANGED sv
    ELSE /\ ph' = "save" /\ dirty' = FALSE
         /\ sv' = [sv EXCEPT ![Main].at = "wait"]
         /\ UNCHANGED <<pc, mine>>

\* Content learning, cognitive signals and promote_to_wisdom, in this thread.
Inline ==
  /\ ph = "go" /\ AtStep = "inline"
  /\ \/ mem' = mem \cup {FromMain} /\ LearnedInMain
     \/ UNCHANGED <<mem, dirty, sv>> /\ Continue
  /\ UNCHANGED <<noMetrics, job, defer, lock, disk, queueVars, history>>

Skipped(s) == s = "patterns_fallback" /\ ~noMetrics

Starts(t, s) ==
  /\ job' = [job EXCEPT ![t] = [Free EXCEPT !.step = s, !.at =
                IF s \in Readers \cup {"pipeline"} THEN "read"
                ELSE IF s \in Inserting THEN "work" ELSE "done"]]
  /\ twoPipes' = (twoPipes \/ (s = "pipeline" /\ \E u \in Threads : job[u].step = s))

\* _run_step: submit.  The fallback runs only if the pipeline gave no metrics.
Submit ==
  /\ ph = "go" /\ AtStep \in Steps
  /\ IF Skipped(AtStep) THEN Continue /\ UNCHANGED <<job, twoPipes>>
     ELSE /\ ph' = "wait"
          /\ IF IdleThreads = {} THEN UNCHANGED <<mine, job, twoPipes>>
             ELSE LET t == CHOOSE t \in IdleThreads : TRUE
                  IN  mine' = t /\ Starts(t, AtStep)
          /\ UNCHANGED pc
  /\ UNCHANGED <<noMetrics, learner, queueVars, reached, lost, unsaved, stolen,
                 cursorRaces, overruns, troubles>>

\* A thread takes the step that was queued.
Dequeue ==
  /\ ph = "wait" /\ mine = NoOne
  /\ \E t \in IdleThreads : mine' = t /\ Starts(t, AtStep)
  /\ UNCHANGED <<pc, ph, noMetrics, learner, queueVars, reached, lost, unsaved, stolen,
                 cursorRaces, overruns, troubles>>

Returned ==
  /\ ph = "wait" /\ mine # NoOne /\ job[mine].at = "done"
  /\ noMetrics' = (noMetrics /\ AtStep # "pipeline")
  /\ job' = [job EXCEPT ![mine] = Free]
  /\ Continue
  /\ UNCHANGED <<learner, queueVars, history>>

\* Mutant of PatienceEnds: future.result() without a timeout.
WaitsForThread == FALSE
\* A queued step runs out of time when no thread gets free.
PatienceEnds == IdleThreads = {}

\* future.cancel() takes a queued step back ...
TimesOutQueued ==
  /\ ph = "wait" /\ mine = NoOne /\ PatienceEnds
  /\ Continue
  /\ UNCHANGED <<noMetrics, job, learner, queueVars, history>>

\* ... and does nothing to one that runs.
TimesOutRunning ==
  /\ ph = "wait" /\ mine # NoOne /\ AtStep \in Slow /\ overruns + troubles < MaxTroubles
  /\ overruns' = overruns + 1
  /\ Continue
  /\ UNCHANGED <<noMetrics, job, learner, queueVars, reached, lost, unsaved, stolen,
                 twoPipes, cursorRaces, troubles>>

-----------------------------------------------------------------------------
(* The steps, each in its thread t.                                        *)

Moves(t, where) == job' = [job EXCEPT ![t].at = where]

Smaller(a, b) == IF a < b THEN a ELSE b
Larger(a, b) == IF a > b THEN a ELSE b
Active == tail - head

\* run_processing_cycle reads from the head.
ReadBatch(t) ==
  /\ job[t].step = "pipeline" /\ job[t].at = "read"
  /\ job' = [job EXCEPT ![t] = [@ EXCEPT !.lo = head, !.n = Smaller(Batch, Active),
                                         !.at = IF Active = 0 THEN "done" ELSE "work"]]
  /\ UNCHANGED <<mainVars, learner, queueVars, history>>

\* Mutant of Offset: a stale offset is used as it is.
TrustOffset(r) == offs[r]
\* A reader's offset when fewer lines are active than it has counted.
Offset(r) == IF Active < offs[r] THEN Larger(0, Active - Limit) ELSE offs[r]

\* process_pattern_events, process_validation_events and collect_outcomes read
\* from their offset; the pattern worker starts again from 0 when that is stale.
ReadAtOffset(t) ==
  /\ job[t].step \in Readers /\ job[t].at = "read"
  /\ LET r == job[t].step
         base == Offset(r)
         n == Smaller(Limit, Active - base)
     IN  /\ job' = [job EXCEPT ![t] = [@ EXCEPT !.lo = head + base, !.base = base, !.n = n,
                                                !.at = IF n = 0 THEN "done" ELSE "work"]]
         /\ offs' = IF n = 0 /\ r = "patterns_fallback" /\ Active > 0 /\ base > 0
                      THEN [offs EXCEPT ![r] = 0] ELSE offs
  /\ UNCHANGED <<mainVars, learner, tail, head, history>>

Lines(t) == job[t].lo + 1 .. job[t].lo + job[t].n

\* What the step learns goes into the learner's dictionary.  Validation may find
\* insights there to count up.
Learn(t) ==
  /\ job[t].at = "work"
  /\ LET s == job[t].step
     IN  /\ mem' = mem \cup (CASE s \in Inserting -> {FromStep}
                               [] s \in {"pipeline", "patterns_fallback"} -> Lines(t)
                               [] OTHER -> {})
         /\ processed' = IF s = "pipeline" THEN processed \cup Lines(t) ELSE processed
         /\ seen' = IF s \in Readers THEN [seen EXCEPT ![s] = @ \cup Lines(t)] ELSE seen
         /\ \/ s \notin {"prediction"} /\ Moves(t, "mark")
            \/ s \in {"validation", "prediction"} /\ Moves(t, "store")
  /\ UNCHANGED <<mainVars, dirty, defer, sv, lock, disk, queueVars, lost, unsaved, stolen,
                 twoPipes, cursorRaces, overruns, troubles>>

\* Mutant of AfterFailure: a batch is consumed whatever happened to it.
ConsumesAnyway == "consume"
AfterFailure == "done"

\* Pattern detection raises: the batch is not consumed.
PatternsFail(t) ==
  /\ job[t].step = "pipeline" /\ job[t].at = "work" /\ overruns + troubles < MaxTroubles
  /\ troubles' = troubles + 1
  /\ Moves(t, AfterFailure)
  /\ UNCHANGED <<mainVars, learner, queueVars, reached, lost, unsaved, stolen, twoPipes,
                 cursorRaces, overruns>>

After(t) == CASE job[t].step = "pipeline" -> "consume"
              [] job[t].step \in Readers -> "store"
              [] OTHER -> "done"

\* Mutant of Mark: the change is not noted.
MarksNothing(t) ==
  /\ job[t].at = "mark" /\ Moves(t, After(t))
  /\ UNCHANGED <<mainVars, learner, queueVars, history>>
\* _save_insights: note the change, or save at once outside a batch.
Mark(t) ==
  /\ job[t].at = "mark"
  /\ IF defer
       THEN dirty' = TRUE /\ Moves(t, After(t)) /\ UNCHANGED sv
       ELSE dirty' = FALSE /\ Moves(t, "save") /\ sv' = [sv EXCEPT ![t].at = "wait"]
  /\ UNCHANGED <<mainVars, mem, defer, lock, disk, queueVars, history>>

\* Mutant of Consumed: the last event of a batch stays.
ConsumedButOne(t) == Smaller(tail, head + job[t].n - 1)
Consumed(t) == Smaller(tail, head + job[t].n)

\* consume_processed(len(events)) counts from the head of now.
Consume(t) ==
  /\ job[t].at = "consume"
  /\ head' = Consumed(t)
  /\ unreset' = (unreset \/ head' > head)
  /\ Moves(t, IF head' > head THEN "reset" ELSE "done")
  /\ UNCHANGED <<mainVars, learner, tail, offs, reached, lost, unsaved, stolen, twoPipes,
                 raced, overruns, troubles>>

\* Mutant of OffsetAfterConsume: the pipeline leaves the pattern worker's offset.
KeepOffset == offs
OffsetAfterConsume == [offs EXCEPT !["patterns_fallback"] = 0]

\* reset_offset, in a file of its own.
ResetOffset(t) ==
  /\ job[t].at = "reset"
  /\ offs' = OffsetAfterConsume
  /\ unreset' = FALSE
  /\ raced' = (raced \/ \E u \in Threads : /\ job[u].step = "patterns_fallback"
                                           /\ job[u].at \notin {"read", "done"})
  /\ Moves(t, "done")
  /\ UNCHANGED <<mainVars, learner, tail, head, reached, lost, unsaved, stolen, twoPipes,
                 overruns, troubles>>

StoreOffset(t) ==
  /\ job[t].at = "store"
  /\ offs' = [offs EXCEPT ![job[t].step] = job[t].base + job[t].n]
  /\ Moves(t, "done")
  /\ UNCHANGED <<mainVars, learner, tail, head, history>>

\* A file of the queue or of an offset cannot be written: the pipeline goes on,
\* a reader ends.
CursorFails(t) ==
  /\ job[t].at \in {"consume", "reset", "store"} /\ overruns + troubles < MaxTroubles
  /\ troubles' = troubles + 1
  /\ Moves(t, "done")
  /\ UNCHANGED <<mainVars, learner, queueVars, reached, lost, unsaved, stolen, twoPipes,
                 cursorRaces, overruns>>

\* The thread of a step nobody waits for any more gets free.
Abandoned(t) ==
  /\ job[t].at = "done" /\ ~(ph = "wait" /\ mine = t)
  /\ job' = [job EXCEPT ![t] = Free]
  /\ UNCHANGED <<mainVars, learner, queueVars, history>>

-----------------------------------------------------------------------------
(* _save_insights_now, in thread a.                                        *)

\* Where a thread goes on after its save, ok or not.  An exception in the
\* mid-cycle flush skips the begin_batch after it; one in a pipeline's save is
\* taken for a failure of the batch or not, by where the save was called.
Resumes(a, ok) ==
  IF a = Main
    THEN /\ Continue
         /\ defer' = (IF AtStep = "flush" THEN ok ELSE defer)
         /\ UNCHANGED <<noMetrics, job>>
    ELSE /\ \/ (ok \/ job[a].step = "pipeline") /\ Moves(a, After(a))
            \/ ~ok /\ Moves(a, "done")
         /\ UNCHANGED <<mainVars, defer>>

TakeLock(a) ==
  /\ sv[a].at = "wait" /\ lock = NoOne
  /\ lock' = a
  /\ sv' = [sv EXCEPT ![a] = [at |-> "merge", keys |-> mem]]
  /\ UNCHANGED <<mainVars, job, mem, dirty, defer, disk, queueVars, history>>

\* The lock file is there for 0.5 s: of another thread, of another process (which
\* no variable tells), or left over.
GiveUp(a) ==
  /\ sv[a].at = "wait"
  /\ dirty' = TRUE
  /\ sv' = [sv EXCEPT ![a] = NoSave]
  /\ Resumes(a, TRUE)
  /\ UNCHANGED <<mem, lock, disk, queueVars, history>>

\* The save ends without having written its keys; _dirty stays as it is.
Unwritten(a) ==
  /\ lock' = NoOne
  /\ sv' = [sv EXCEPT ![a] = NoSave]
  /\ unsaved' = unsaved \cup (sv[a].keys \ disk)
  /\ UNCHANGED <<mem, dirty, disk, queueVars, reached, lost, stolen, twoPipes,
                 cursorRaces, overruns>>

\* Iterating over the dictionary raises if an insight was added meanwhile.
MergeFails(a) ==
  /\ sv[a].at \in {"merge", "write"} /\ mem # sv[a].keys
  /\ Unwritten(a)
  /\ Resumes(a, FALSE)
  /\ UNCHANGED troubles

\* The merged dictionary takes the place of the learner's; what was added to that
\* one after the iteration is gone with it.
Merge(a) ==
  /\ sv[a].at = "merge"
  /\ mem' = sv[a].keys \cup disk
  /\ sv' = [sv EXCEPT ![a] = [at |-> "write", keys |-> mem']]
  /\ unsaved' = unsaved \cup (mem \ mem')
  /\ UNCHANGED <<mainVars, job, dirty, defer, lock, disk, queueVars, reached, lost, stolen,
                 twoPipes, cursorRaces, overruns, troubles>>

Write(a) ==
  /\ sv[a].at = "write"
  /\ disk' = sv[a].keys
  /\ lock' = NoOne
  /\ sv' = [sv EXCEPT ![a] = NoSave]
  /\ unsaved' = unsaved \ sv[a].keys
  /\ Resumes(a, TRUE)
  /\ UNCHANGED <<mem, dirty, queueVars, reached, lost, stolen, twoPipes, cursorRaces,
                 overruns, troubles>>

\* write_text raises, or the file cannot be replaced five times in a row and the
\* save ends as if it had been.
WriteFails(a) ==
  /\ sv[a].at = "write" /\ overruns + troubles < MaxTroubles
  /\ troubles' = troubles + 1
  /\ Unwritten(a)
  /\ \E ok \in BOOLEAN : Resumes(a, ok)

-----------------------------------------------------------------------------

Arrive ==
  /\ tail < MaxEvents
  /\ tail' = tail + 1
  /\ UNCHANGED <<mainVars, job, learner, head, offs, history>>

\* The worker is killed and started again.
Kill ==
  /\ overruns + troubles < MaxTroubles
  /\ troubles' = troubles + 1
  /\ lost' = lost \cup (1..head \ disk)
  /\ pc' = 1 /\ ph' = "go" /\ mine' = NoOne /\ noMetrics' = TRUE
  /\ job' = [t \in Threads |-> Free]
  /\ mem' = disk /\ dirty' = FALSE /\ defer' = FALSE
  /\ sv' = [a \in Savers |-> NoSave]
  /\ lock' = IF lock = NoOne THEN NoOne ELSE Left
  /\ unsaved' = {}
  /\ UNCHANGED <<disk, queueVars, reached, stolen, twoPipes, cursorRaces, overruns>>

\* Another process is killed while it saves.
OtherLeaves ==
  /\ lock = NoOne /\ overruns + troubles < MaxTroubles
  /\ troubles' = troubles + 1
  /\ lock' = Left
  /\ UNCHANGED <<mainVars, job, mem, dirty, defer, sv, disk, queueVars, reached, lost, unsaved,
                 stolen, twoPipes, cursorRaces, overruns>>

\* Whoever waits for a lock file that is 60 s old deletes it.  Two that do may
\* then save at once, which is InsightStore's.
StealLock ==
  /\ lock = Left
  /\ lock' = NoOne /\ stolen' = TRUE
  /\ UNCHANGED <<mainVars, job, mem, dirty, defer, sv, disk, queueVars, reached, lost, unsaved,
                 twoPipes, cursorRaces, overruns, troubles>>

SaveStep(a) == \/ TakeLock(a) \/ GiveUp(a)
               \/ MergeFails(a) \/ Merge(a) \/ Write(a) \/ WriteFails(a)
MainStep == \/ Proceed \/ EndBatch \/ Inline \/ Submit \/ Dequeue \/ Returned
            \/ TimesOutQueued \/ TimesOutRunning \/ SaveStep(Main)
JobStep(t) == \/ ReadBatch(t) \/ ReadAtOffset(t) \/ Learn(t) \/ PatternsFail(t) \/ Mark(t)
              \/ Consume(t) \/ ResetOffset(t) \/ StoreOffset(t) \/ CursorFails(t)
              \/ Abandoned(t) \/ SaveStep(t)

Next == \/ MainStep \/ \E t \in Threads : JobStep(t)
        \/ Arrive \/ Kill \/ OtherLeaves \/ StealLock

Spec == Init /\ [][Next]_vars

\* The main thread goes on, and so does the step it waits for; a step that has
\* overrun its timeout may hang for ever.
FairSpec ==
  /\ Spec
  /\ WF_vars(MainStep)
  /\ \A t \in Threads : WF_vars(mine = t /\ JobStep(t))

-----------------------------------------------------------------------------
(* Properties.                                                             *)

\* The variables have the types their definitions promise.
TypeOK ==
  /\ pc \in 1..Len(Script) /\ ph \in {"go", "wait", "save"}
  /\ mine \in Threads \cup {NoOne} /\ noMetrics \in BOOLEAN
  /\ job \in [Threads -> [step : Steps \cup {"none"},
                          at : {"none", "read", "work", "mark", "save", "consume", "reset", "store", "done"},
                          lo : 0..MaxEvents, n : 0..MaxEvents, base : 0..MaxEvents]]
  /\ mem \subseteq Insights /\ disk \subseteq Insights
  /\ dirty \in BOOLEAN /\ defer \in BOOLEAN
  /\ sv \in [Savers -> [at : {"no", "wait", "merge", "write"}, keys : SUBSET Insights]]
  /\ lock \in Savers \cup {NoOne, Left}
  /\ tail \in 0..MaxEvents /\ head \in 0..tail
  /\ offs \in [Readers -> 0..MaxEvents]
  /\ processed \subseteq 1..tail /\ lost \subseteq 1..head
  /\ seen \in [Readers -> SUBSET (1..tail)]
  /\ unsaved \subseteq Insights /\ stolen \in BOOLEAN
  /\ twoPipes \in BOOLEAN /\ unreset \in BOOLEAN /\ raced \in BOOLEAN
  /\ overruns \in 0..MaxTroubles /\ troubles \in 0..MaxTroubles

\* Insight k is in the file, or will be written unless the worker is killed.
WillBeWritten(k) ==
  \/ k \in mem /\ (dirty \/ \E a \in Savers : sv[a].at = "wait")
  \/ \E a \in Savers : sv[a].at \in {"merge", "write"} /\ k \in sv[a].keys

\* What was learned from a consumed event is in the file, or a save has still to
\* write it, or the learner is marked dirty (bridge_cycle.py:674), at every
\* moment and through overruns, give-ups and locks left over: but for what a
\* killed worker took with it, and what a save that failed, or whose dictionary
\* another thread changed, forgot (unsaved).
ConsumedIsSaved ==
  ~twoPipes /\ ~stolen =>
    \A k \in (1..head) \ (lost \cup unsaved) : k \in disk \/ WillBeWritten(k)

\* The head passes an event nobody has processed only after two pipelines have
\* run at once (pipeline.py:1064), whatever else overruns, fails or is killed.
HeadOverProcessed == ~twoPipes => 1..head \subseteq processed

\* The pattern worker's offset counts only events that were processed, although
\* the pipeline moves the head under it: unless the offset has not been reset
\* since (pipeline.py:1069), or a late pipeline has reset it while the fallback
\* was between its read and its store (worker.py:93).
OffsetOverProcessed ==
  ~unreset /\ ~raced =>
    (head + 1 .. Smaller(tail, head + offs["patterns_fallback"]))
      \subseteq processed \cup seen["patterns_fallback"]

\* A cycle ends, and the worker writes its heartbeat, even if every thread of
\* the pool hangs.
CycleEnds == (AtStep # "sleep") ~> (AtStep = "sleep")

\* As long as fewer steps hang than the pool has threads, every event is
\* consumed in the end.
QueueDrains ==
  [](overruns < PoolSize) => \A k \in 1..MaxEvents : (tail >= k) ~> (head >= k)

\* What get_validation_backlog promises (validation_loop.py:280): "the count of
\* queued events not yet processed by validation".
BacklogIsUnseen ==
  (AtStep = "sleep" /\ \A t \in Threads : job[t] = Free) =>
    Larger(0, Active - offs["validation"])
      = Cardinality((head + 1 .. tail) \ seen["validation"])
=============================================================================
