-------------------------- MODULE BridgeCycleProofs --------------------------
(***************************************************************************)
(* Proofs about BridgeCycle, for any pool, batch, number of events and set *)
(* of slow steps: no cursor into the queue passes an event that was not    *)
(* processed, but by the races that twoPipes and raced name and while the  *)
(* offset is unreset.                                                      *)
(*                                                                         *)
(* Neither property is inductive.  What they need to know of a thread is   *)
(* what it has read: a pipeline's batch begins at the head until it is     *)
(* consumed, and a fallback's at the offset, whose lines were processed.   *)
(* Then the learner: what was learned from a consumed event is in its file *)
(* or a save will write it, of which the same is known of a pipeline's     *)
(* batch before it is consumed.  Last, that every variable keeps its type. *)
(***************************************************************************)
EXTENDS BridgeCycle, TLAPS

USE DEF reached, cursorRaces

Jobs == [step : Steps \cup {"none"},
         at : {"none", "read", "work", "mark", "save", "consume", "reset", "store", "done"},
         lo : Nat, n : Nat, base : Nat]
Saves == [at : {"no", "wait", "merge", "write"}, keys : SUBSET Int]

\* The types of what the argument is about; the position in the script and the
\* insights do not matter to it.
Typed ==
  /\ job \in [Threads -> Jobs]
  /\ sv \in [Savers -> Saves]
  /\ mem \subseteq Int /\ disk \subseteq Int
  /\ tail \in 0..MaxEvents /\ head \in 0..tail
  /\ offs \in [Readers -> Nat]
  /\ processed \subseteq Nat /\ seen \in [Readers -> SUBSET Nat]
  /\ twoPipes \in BOOLEAN /\ unreset \in BOOLEAN /\ raced \in BOOLEAN

\* Where the threads of a step can be, and what their batch lies within.
JobShape ==
  \A t \in Threads :
    /\ sv[t].at # "no" => job[t].at = "save"
    /\ job[t].at \in {"consume", "reset"} => job[t].step = "pipeline"
    /\ job[t].at = "store" => job[t].step \in Readers
    /\ job[t].lo + job[t].n <= tail

Waits == ph = "wait" => AtStep \in Steps

\* A pipeline that has read its batch, and one that has processed it.
HasBatch(t) == job[t].step = "pipeline" /\ job[t].at \in {"work", "mark", "save", "consume"}
HasProcessed(t) == job[t].step = "pipeline" /\ job[t].at \in {"mark", "save", "consume"}

\* As long as no two pipelines run, the batch of the one begins at the head.
OnePipe ==
  ~twoPipes => \A t \in Threads :
    /\ \A u \in Threads : job[t].step = "pipeline" /\ job[u].step = "pipeline" => t = u
    /\ HasBatch(t) => job[t].lo = head
    /\ HasProcessed(t) => Lines(t) \subseteq processed

Known == processed \cup seen["patterns_fallback"]
\* The same of a fallback.
Reads(t) == job[t].step = "patterns_fallback" /\ job[t].at \in {"work", "mark", "save", "store"}
HasSeen(t) == job[t].step = "patterns_fallback" /\ job[t].at \in {"mark", "save", "store"}

\* The offset counts from the head of now.
Counted == ~unreset /\ ~raced

\* As long as it does, the lines before a fallback's batch are known.
Fallback ==
  /\ Counted => offs["patterns_fallback"] <= tail - head
  /\ \A t \in Threads :
       /\ Counted /\ Reads(t) => /\ job[t].lo = head + job[t].base
                                 /\ head + 1 .. job[t].lo \subseteq Known
       /\ HasSeen(t) => Lines(t) \subseteq seen["patterns_fallback"]

IInv == /\ Typed /\ JobShape /\ Waits /\ OnePipe /\ Fallback
        /\ HeadOverProcessed /\ OffsetOverProcessed

cursors == <<tail, head, offs, twoPipes, unreset, raced>>

\* A thread that reads nothing in this step, and gets no further than the facts
\* about its batch allow.
Kept(t) ==
  /\ job'[t].step = job[t].step /\ job'[t].lo = job[t].lo
  /\ job'[t].n = job[t].n /\ job'[t].base = job[t].base
  /\ HasBatch(t)' => HasBatch(t)
  /\ HasProcessed(t)' => HasProcessed(t)
  /\ Reads(t)' => Reads(t)
  /\ HasSeen(t)' => HasSeen(t)

-----------------------------------------------------------------------------

LEMMA Constants == /\ PoolSize \in Nat \ {0} /\ Batch \in Nat \ {0} /\ Limit \in Nat \ {0}
                   /\ MaxEvents \in Nat
  BY CycleAssumption DEF CycleAssumption

LEMMA Threadlike ==
  Main \in Savers /\ Threads \subseteq Savers /\ Main \notin Threads /\ NoOne \notin Threads
  BY Constants DEF Savers, Main, Threads, NoOne

LEMMA InitIInv == Init => IInv
<1> SUFFICES ASSUME Init PROVE IInv
  OBVIOUS
<1>1. Typed
  <2>1. job \in [Threads -> Jobs]
    BY DEF Jobs, Init, Free
  <2>2. sv \in [Savers -> Saves]
    BY DEF Saves, Init, NoSave
  <2>3. tail \in 0..MaxEvents /\ head \in 0..tail /\ offs \in [Readers -> Nat]
    BY Constants DEF Init
  <2>4. processed \subseteq Nat /\ seen \in [Readers -> SUBSET Nat]
    BY DEF Init
  <2> QED
    BY <2>1, <2>2, <2>3, <2>4 DEF Init, Typed
<1>2. JobShape /\ Waits
  BY Constants, Threadlike DEF Init, JobShape, Waits, Free, NoSave
<1>3. OnePipe /\ Fallback
  BY DEF Init, OnePipe, Fallback, Counted, HasBatch, HasProcessed, Reads, HasSeen, Free, Readers
<1>4. HeadOverProcessed /\ OffsetOverProcessed
  BY DEF Init, HeadOverProcessed, OffsetOverProcessed, Smaller, Readers
<1> QED
  BY <1>1, <1>2, <1>3, <1>4 DEF IInv

\* A step that moves no cursor keeps what is known of the batches, if its threads
\* stay within it.
LEMMA Onward ==
  ASSUME IInv, Typed', JobShape', Waits', UNCHANGED cursors,
         processed \subseteq processed',
         seen["patterns_fallback"] \subseteq seen'["patterns_fallback"],
         \A t \in Threads : job'[t] = Free \/ Kept(t)
  PROVE  IInv'
<1>1. \A t \in Threads : Lines(t)' = Lines(t) \/ job'[t] = Free
  BY DEF Lines, Kept
<1>2. OnePipe'
  BY <1>1 DEF IInv, OnePipe, Kept, HasBatch, HasProcessed, cursors, Free
<1>3. Fallback'
  BY <1>1 DEF IInv, Fallback, Counted, Kept, Reads, HasSeen, Known, cursors, Free
<1>4. HeadOverProcessed' /\ OffsetOverProcessed'
  BY DEF IInv, HeadOverProcessed, OffsetOverProcessed, Smaller, cursors
<1> QED
  BY <1>2, <1>3, <1>4 DEF IInv

-----------------------------------------------------------------------------
(* The actions.                                                            *)

\* What the main thread does without a cursor, but for its saves.
LEMMA MainKeeps ==
  ASSUME IInv, Proceed \/ EndBatch \/ Inline \/ Returned \/ TimesOutQueued \/ TimesOutRunning
  PROVE  IInv'
<1>1. UNCHANGED cursors /\ UNCHANGED <<processed, seen>>
  BY DEF Proceed, EndBatch, Inline, Returned, TimesOutQueued, TimesOutRunning, cursors,
         queueVars, history
<1>2. \A t \in Threads : (job[t].at = "done" /\ job'[t] = Free) \/ job'[t] = job[t]
  BY DEF Proceed, EndBatch, Inline, Returned, TimesOutQueued, TimesOutRunning, IInv, Typed
<1>3. \A t \in Threads : job'[t] = Free \/ Kept(t)
  BY <1>2 DEF Kept, HasBatch, HasProcessed, Reads, HasSeen
<1>4. \A t \in Threads : sv'[t] = sv[t]
  <2>1. sv' = sv \/ sv' = [sv EXCEPT ![Main].at = "wait"]
    BY DEF Proceed, EndBatch, Inline, LearnedInMain, Returned, TimesOutQueued, TimesOutRunning,
           learner
  <2> QED
    BY <2>1, Threadlike DEF IInv, Typed
<1>5. Typed'
  <2>1. job' \in [Threads -> Jobs]
    <3>1. job' = job \/ \E t \in Threads : job' = [job EXCEPT ![t] = Free]
      BY DEF Proceed, EndBatch, Inline, Returned, TimesOutQueued, TimesOutRunning, IInv, Typed
    <3> QED
      BY <3>1 DEF Jobs, IInv, Typed, Free
  <2>2. sv' \in [Savers -> Saves]
    BY Threadlike DEF Saves, IInv, Typed, Proceed, EndBatch, Inline, LearnedInMain, Returned,
           TimesOutQueued, TimesOutRunning, learner
  <2>3. mem' \subseteq Int /\ disk' = disk
    BY DEF IInv, Typed, Proceed, EndBatch, Inline, FromMain, Returned, TimesOutQueued,
           TimesOutRunning, learner
  <2> QED
    BY <1>1, <2>1, <2>2, <2>3 DEF IInv, Typed, cursors
<1>6. JobShape'
  <2>1. tail' = tail /\ 0 + 0 <= tail
    BY <1>1 DEF IInv, Typed, cursors
  <2> QED
    BY <1>2, <1>4, <2>1 DEF IInv, JobShape, Free
<1>7. Waits'
  BY DEF IInv, Waits, Continue, AtStep, Proceed, EndBatch, Inline, LearnedInMain, Returned,
         TimesOutQueued, TimesOutRunning
<1> QED
  BY <1>1, <1>3, <1>5, <1>6, <1>7, Onward

\* The types of job and of sv when one entry changes.
LEMMA JobTyped ==
  ASSUME Typed, NEW t \in Threads, NEW j,
         j \in Jobs
  PROVE  /\ [job EXCEPT ![t] = j] \in [Threads -> Jobs]
         /\ \A u \in Threads : [job EXCEPT ![t] = j][u] = IF u = t THEN j ELSE job[u]
  BY DEF Typed

\* A thread begins a step.
LEMMA StartsKeeps ==
  ASSUME IInv, NEW t \in Threads, NEW s \in Steps, job[t] = Free, Starts(t, s),
         UNCHANGED <<learner, queueVars, processed, seen, unreset, raced>>, Waits'
  PROVE  IInv'
<1> DEFINE j == [Free EXCEPT !.step = s, !.at = IF s \in Readers \cup {"pipeline"} THEN "read"
                                               ELSE IF s \in Inserting THEN "work" ELSE "done"]
<1>1. /\ j.step = s /\ j.lo = 0 /\ j.n = 0 /\ j.base = 0
      /\ j.at \in {"read", "work", "done"}
      /\ s \in Readers \cup {"pipeline"} => j.at = "read"
  BY DEF Free
<1>2. j \in Jobs
  BY DEF Jobs, Free
<1>3. job' = [job EXCEPT ![t] = j]
  BY DEF Starts
<1> HIDE DEF j
<1>4. \A u \in Threads : job'[u] = IF u = t THEN j ELSE job[u]
  BY <1>2, <1>3, JobTyped DEF IInv
<1>5. Typed'
  BY <1>2, <1>3, JobTyped DEF IInv, Typed, Starts, learner, queueVars
<1>6. JobShape'
  <2>1. sv[t].at = "no"
    BY DEF IInv, JobShape, Free
  <2> QED
    BY <1>1, <1>4, <2>1 DEF IInv, JobShape, Typed, learner, queueVars
<1>7. OnePipe'
  <2> SUFFICES ASSUME ~twoPipes' PROVE OnePipe'
    BY DEF OnePipe
  <2>1. ~twoPipes /\ (s = "pipeline" => \A u \in Threads : job[u].step # s)
    BY DEF Starts
  <2> QED
    BY <1>1, <1>4, <2>1 DEF IInv, OnePipe, HasBatch, HasProcessed, Lines, queueVars, Readers
<1>8. Fallback'
  BY <1>1, <1>4 DEF IInv, Fallback, Counted, Reads, HasSeen, Known, Lines, queueVars, Readers
<1>9. HeadOverProcessed' /\ OffsetOverProcessed'
  BY DEF IInv, HeadOverProcessed, OffsetOverProcessed, Smaller, Starts, queueVars
<1> QED
  BY <1>5, <1>6, <1>7, <1>8, <1>9 DEF IInv

LEMMA SubmitKeeps == ASSUME IInv, Submit \/ Dequeue PROVE IInv'
<1>1. Waits'
  BY DEF IInv, Submit, Dequeue, Waits, AtStep, Continue
<1>2. CASE job' = job /\ twoPipes' = twoPipes
           /\ UNCHANGED <<learner, queueVars, processed, seen, unreset, raced>>
  <2>1. Typed' /\ JobShape'
    BY <1>2 DEF IInv, Typed, JobShape, learner, queueVars
  <2>2. \A t \in Threads : Kept(t)
    BY <1>2 DEF Kept, HasBatch, HasProcessed, Reads, HasSeen
  <2> QED
    BY <1>1, <1>2, <2>1, <2>2, Onward DEF cursors, queueVars
<1>3. CASE \E t \in IdleThreads : AtStep \in Steps /\ Starts(t, AtStep)
           /\ UNCHANGED <<learner, queueVars, processed, seen, unreset, raced>>
  BY <1>1, <1>3, StartsKeeps DEF IdleThreads
<1>4. CASE Submit
  <2>1. CASE Skipped(AtStep) \/ IdleThreads = {}
    BY <1>2, <1>4, <2>1 DEF Submit
  <2>2. CASE ~Skipped(AtStep) /\ IdleThreads # {}
    BY <1>3, <1>4, <2>2 DEF Submit
  <2> QED
    BY <2>1, <2>2
<1>5. CASE Dequeue
  <2>1. AtStep \in Steps
    BY <1>5 DEF IInv, Waits, Dequeue
  <2> QED
    BY <1>3, <1>5, <2>1 DEF Dequeue
<1> QED
  BY <1>4, <1>5

-----------------------------------------------------------------------------
(* The steps in their threads.                                             *)

\* A thread that goes on to another place, where what is known of its batch holds.
LEMMA MovesKeeps ==
  ASSUME IInv, NEW t \in Threads,
         NEW where \in {"mark", "save", "consume", "store", "done"},
         Moves(t, where), UNCHANGED <<mainVars, cursors, processed, seen>>,
         where = "consume" => job[t].step = "pipeline",
         where = "store" => job[t].step \in Readers,
         HasProcessed(t)' => HasProcessed(t), HasSeen(t)' => HasSeen(t),
         sv' \in [Savers -> Saves],
         \A u \in Threads \ {t} : sv'[u].at # "no" => sv[u].at # "no",
         sv'[t].at # "no" => where = "save",
         mem' \subseteq Int, disk' \subseteq Int
  PROVE  IInv'
<1>1. /\ job'[t] = [job[t] EXCEPT !.at = where]
      /\ \A u \in Threads \ {t} : job'[u] = job[u]
  BY DEF Moves, IInv, Typed
<1>2. /\ job'[t].step = job[t].step /\ job'[t].lo = job[t].lo /\ job'[t].n = job[t].n
      /\ job'[t].base = job[t].base /\ job'[t].at = where
  BY <1>1 DEF IInv, Typed
<1>3. Typed'
  <2>1. job' \in [Threads -> Jobs]
    BY DEF Jobs, Moves, IInv, Typed
  <2> QED
    BY <2>1 DEF IInv, Typed, cursors
<1>4. JobShape'
  <2> DEFINE shape(u) == /\ sv[u].at # "no" => job[u].at = "save"
                         /\ job[u].at \in {"consume", "reset"} => job[u].step = "pipeline"
                         /\ job[u].at = "store" => job[u].step \in Readers
                         /\ job[u].lo + job[u].n <= tail
  <2>0. job'[t].at # "reset" /\ (job'[t].at = "consume" => job'[t].step = "pipeline")
    BY <1>2
  <2>1. shape(t)'
    BY <1>2, <2>0 DEF IInv, JobShape, cursors
  <2>2. ASSUME NEW u \in Threads \ {t} PROVE shape(u)'
    BY <1>1 DEF IInv, JobShape, cursors
  <2> QED
    BY <2>1, <2>2 DEF JobShape
<1>5. Waits'
  BY DEF IInv, Waits, AtStep, mainVars
<1>6. \A u \in Threads : Kept(u)
  <2>1. Kept(t)
    BY <1>2 DEF Kept, HasBatch, HasProcessed, Reads, HasSeen
  <2>2. ASSUME NEW u \in Threads \ {t} PROVE Kept(u)
    BY <1>1 DEF Kept, HasBatch, HasProcessed, Reads, HasSeen
  <2> QED
    BY <2>1, <2>2
<1> QED
  BY <1>3, <1>4, <1>5, <1>6, Onward

LEMMA AfterPlaces ==
  ASSUME NEW t \in Threads
  PROVE  /\ After(t) \in {"consume", "store", "done"}
         /\ After(t) = "consume" => job[t].step = "pipeline"
         /\ After(t) = "store" => job[t].step \in Readers
  BY DEF After, Readers

LEMMA MarkKeeps ==
  ASSUME IInv, NEW t \in Threads, Mark(t) \/ PatternsFail(t) \/ CursorFails(t)
  PROVE  IInv'
<1>1. CASE Mark(t)
  <2> DEFINE where == IF defer THEN After(t) ELSE "save"
  <2>1. /\ where \in {"save", "consume", "store", "done"} /\ Moves(t, where)
        /\ where = "consume" => job[t].step = "pipeline"
        /\ where = "store" => job[t].step \in Readers
    BY <1>1, AfterPlaces DEF Mark
  <2>2. /\ job[t].at = "mark" /\ sv[t].at = "no"
        /\ \A u \in Threads : sv'[u].at # "no" => sv[u].at # "no" \/ (u = t /\ where = "save")
        /\ sv' \in [Savers -> Saves]
    BY <1>1, Threadlike DEF Saves, Mark, IInv, Typed, JobShape
  <2>3. /\ HasProcessed(t)' => HasProcessed(t)
        /\ HasSeen(t)' => HasSeen(t)
    BY <2>1, <2>2 DEF HasProcessed, HasSeen, Moves, IInv, Typed
  <2>4. UNCHANGED <<mainVars, cursors, processed, seen, mem, disk>>
    BY <1>1 DEF Mark, cursors, queueVars, history
  <2> HIDE DEF where
  <2> QED
    BY <2>1, <2>2, <2>3, <2>4, MovesKeeps DEF Readers, IInv, Typed
<1>2. CASE PatternsFail(t) \/ CursorFails(t)
  <2>1. Moves(t, "done") /\ job[t].at \in {"work", "consume", "reset", "store"} /\ sv' = sv
    BY <1>2 DEF PatternsFail, AfterFailure, CursorFails, learner
  <2>2. sv[t].at = "no"
    BY <2>1 DEF IInv, JobShape
  <2>3. ~HasProcessed(t)' /\ ~HasSeen(t)'
    BY <2>1 DEF HasProcessed, HasSeen, Moves, IInv, Typed
  <2>4. UNCHANGED <<mainVars, cursors, processed, seen, mem, disk>>
    BY <1>2 DEF PatternsFail, CursorFails, cursors, queueVars, learner
  <2> QED
    BY <2>1, <2>2, <2>3, <2>4, MovesKeeps DEF IInv, Typed
<1> QED
  BY <1>1, <1>2

\* What a save does to the types, and to whether its thread is saving.
LEMMA SaveTypes ==
  ASSUME IInv, NEW a \in Savers, SaveStep(a)
  PROVE  /\ sv' \in [Savers -> Saves]
         /\ mem' \subseteq Int /\ disk' \subseteq Int
         /\ sv[a].at # "no"
         /\ \A b \in Savers \ {a} : sv'[b] = sv[b]
         /\ UNCHANGED <<cursors, processed, seen>>
<1>1. sv' \in [Savers -> Saves]
  <2>1. \E new \in Saves :
          sv' = [sv EXCEPT ![a] = new]
    <3>1. CASE TakeLock(a)
      BY <3>1 DEF Saves, TakeLock, IInv, Typed
    <3>2. CASE GiveUp(a) \/ MergeFails(a) \/ Write(a) \/ WriteFails(a)
      BY <3>2 DEF Saves, GiveUp, MergeFails, Write, WriteFails, Unwritten, NoSave
    <3>3. CASE Merge(a)
      <4>1. sv[a].keys \subseteq Int /\ disk \subseteq Int
        BY DEF Saves, IInv, Typed
      <4> QED
        BY <3>3, <4>1 DEF Saves, Merge
    <3> QED
      BY <3>1, <3>2, <3>3 DEF SaveStep
  <2> QED
    BY <2>1 DEF IInv, Typed
<1>2. mem' \subseteq Int /\ disk' \subseteq Int
  <2>1. mem \subseteq Int /\ disk \subseteq Int /\ sv[a].keys \subseteq Int
    BY DEF Saves, IInv, Typed
  <2> QED
    BY <2>1 DEF SaveStep, TakeLock, GiveUp, MergeFails, Merge, Write, WriteFails, Unwritten
<1>3. sv[a].at # "no" /\ \A b \in Savers \ {a} : sv'[b] = sv[b]
  BY DEF SaveStep, TakeLock, GiveUp, MergeFails, Merge, Write, WriteFails, Unwritten, IInv, Typed
<1>4. UNCHANGED <<cursors, processed, seen>>
  BY DEF SaveStep, TakeLock, GiveUp, MergeFails, Merge, Write, WriteFails, Unwritten, cursors, queueVars, history
<1> QED
  BY <1>1, <1>2, <1>3, <1>4

LEMMA SaveKeeps == ASSUME IInv, NEW a \in Savers, SaveStep(a) PROVE IInv'
<1>1. CASE job' = job /\ (UNCHANGED mainVars \/ ph' = "go") /\ (a = Main \/ sv'[a].at # "no")
  <2>1. Typed' /\ Waits'
    BY <1>1, SaveTypes DEF IInv, Typed, Waits, AtStep, mainVars, cursors
  <2>2. JobShape'
    BY <1>1, SaveTypes, Threadlike DEF IInv, JobShape, cursors
  <2>3. \A t \in Threads : Kept(t)
    BY <1>1 DEF Kept, HasBatch, HasProcessed, Reads, HasSeen
  <2> QED
    BY <2>1, <2>2, <2>3, SaveTypes, Onward
<1>2. CASE a \in Threads /\ UNCHANGED mainVars /\ sv'[a].at = "no"
           /\ \E where \in {After(a), "done"} : Moves(a, where)
  <2>1. PICK where \in {After(a), "done"} : Moves(a, where)
    BY <1>2
  <2>2. /\ where \in {"consume", "store", "done"}
        /\ where = "consume" => job[a].step = "pipeline"
        /\ where = "store" => job[a].step \in Readers
    BY <1>2, <2>1, AfterPlaces
  <2>3. job[a].at = "save"
    BY <1>2, SaveTypes DEF IInv, JobShape
  <2>4. (HasProcessed(a)' => HasProcessed(a)) /\ (HasSeen(a)' => HasSeen(a))
    BY <1>2, <2>1, <2>2, <2>3 DEF HasProcessed, HasSeen, Moves, IInv, Typed
  <2>5. \A u \in Threads \ {a} : sv'[u].at # "no" => sv[u].at # "no"
    BY SaveTypes, Threadlike
  <2> QED
    BY <1>2, <2>1, <2>2, <2>4, <2>5, SaveTypes, MovesKeeps DEF Readers
<1>3. CASE TakeLock(a) \/ Merge(a)
  <2>1. sv'[a].at # "no"
    BY <1>3 DEF TakeLock, Merge, IInv, Typed
  <2> QED
    BY <1>1, <1>3, <2>1 DEF TakeLock, Merge
<1>4. CASE GiveUp(a) \/ MergeFails(a) \/ Write(a) \/ WriteFails(a)
  <2>1. sv'[a].at = "no"
    <3>1. sv' = [sv EXCEPT ![a] = NoSave]
      BY <1>4 DEF GiveUp, MergeFails, Write, WriteFails, Unwritten
    <3> QED
      BY <3>1 DEF NoSave, IInv, Typed
  <2>2. \E ok \in BOOLEAN : Resumes(a, ok)
    BY <1>4 DEF GiveUp, MergeFails, Write, WriteFails, Unwritten
  <2>3. CASE a = Main
    BY <1>1, <2>2, <2>3 DEF Resumes, Continue
  <2>4. CASE a # Main
    BY <1>2, <2>1, <2>2, <2>4 DEF Resumes, Savers
  <2> QED
    BY <2>3, <2>4
<1> QED
  BY <1>3, <1>4 DEF SaveStep

LEMMA AbandonedKeeps == ASSUME IInv, NEW t \in Threads, Abandoned(t) PROVE IInv'
<1>1. /\ job[t].at = "done" /\ job'[t] = Free
      /\ \A u \in Threads \ {t} : job'[u] = job[u]
  BY DEF Abandoned, IInv, Typed
<1>2. Typed'
  <2>1. job' \in [Threads -> Jobs]
    BY DEF Jobs, Abandoned, Free, IInv, Typed
  <2> QED
    BY <2>1 DEF Abandoned, learner, queueVars, history, IInv, Typed
<1>3. JobShape'
  <2>1. sv' = sv /\ tail' = tail /\ 0 + 0 <= tail
    BY DEF Abandoned, learner, queueVars, IInv, Typed
  <2> QED
    BY <1>1, <2>1 DEF IInv, JobShape, Free
<1>4. Waits'
  BY DEF Abandoned, mainVars, AtStep, Waits, IInv
<1>5. \A u \in Threads : job'[u] = Free \/ Kept(u)
  BY <1>1 DEF Kept, HasBatch, HasProcessed, Reads, HasSeen
<1>6. UNCHANGED <<cursors, processed, seen>>
  BY DEF Abandoned, cursors, queueVars, history
<1> QED
  BY <1>2, <1>3, <1>4, <1>5, <1>6, Onward

LEMMA ReadBatchKeeps == ASSUME IInv, NEW t \in Threads, ReadBatch(t) PROVE IInv'
<1> DEFINE n == Smaller(Batch, Active)
           at == IF Active = 0 THEN "done" ELSE "work"
           j == [job[t] EXCEPT !.lo = head, !.n = n, !.at = at]
<1>0. /\ n \in Nat /\ head + n <= tail /\ head \in Nat /\ at \in {"done", "work"}
      /\ job[t].step = "pipeline"
      /\ job[t] \in Jobs
  BY Constants DEF ReadBatch, IInv, Typed, Smaller, Active
<1> HIDE DEF n, at
<1>1. /\ j.step = "pipeline" /\ j.lo = head /\ j.n \in Nat /\ j.lo + j.n <= tail
      /\ j.at \in {"done", "work"}
      /\ j \in Jobs
  BY <1>0 DEF Jobs
<1>2. job' = [job EXCEPT ![t] = j]
  BY DEF ReadBatch, n, at
<1> HIDE DEF j
<1>3. \A u \in Threads : job'[u] = IF u = t THEN j ELSE job[u]
  BY <1>1, <1>2, JobTyped DEF IInv
<1>4. UNCHANGED <<sv, mem, disk, cursors, processed, seen, mainVars>>
  BY DEF ReadBatch, learner, queueVars, cursors, history
<1>5. Typed' /\ Waits'
  BY <1>1, <1>2, <1>4, JobTyped DEF IInv, Typed, Waits, AtStep, mainVars, cursors
<1>6. JobShape'
  <2>1. sv[t].at = "no"
    BY DEF ReadBatch, IInv, JobShape
  <2> QED
    BY <1>1, <1>3, <1>4, <2>1 DEF IInv, JobShape, cursors
<1>7. OnePipe'
  <2> SUFFICES ASSUME ~twoPipes PROVE OnePipe'
    BY <1>4 DEF OnePipe, cursors
  <2>1. job[t].step = "pipeline"
    BY DEF ReadBatch
  <2>2. ASSUME NEW u \in Threads \ {t} PROVE job'[u].step # "pipeline"
    BY <1>3, <2>1 DEF IInv, OnePipe
  <2>3. (HasBatch(t)' => job'[t].lo = head') /\ ~HasProcessed(t)'
    BY <1>1, <1>3, <1>4 DEF HasProcessed, cursors
  <2> QED
    BY <2>2, <2>3 DEF OnePipe, HasBatch, HasProcessed
<1>8. Fallback'
  BY <1>1, <1>3, <1>4 DEF IInv, Fallback, Counted, Reads, HasSeen, Known, Lines, cursors
<1>9. HeadOverProcessed' /\ OffsetOverProcessed'
  BY <1>4 DEF IInv, HeadOverProcessed, OffsetOverProcessed, Smaller, cursors
<1> QED
  BY <1>5, <1>6, <1>7, <1>8, <1>9 DEF IInv

\* The record of a thread that has read.
LEMMA RecordRead ==
  ASSUME NEW S, NEW P, NEW x \in [step : S, at : P, lo : Nat, n : Nat, base : Nat],
         NEW lo \in Nat, NEW n \in Nat, NEW base \in Nat, NEW at \in P
  PROVE  LET j == [x EXCEPT !.lo = lo, !.base = base, !.n = n, !.at = at]
         IN  /\ j.step = x.step /\ j.lo = lo /\ j.base = base /\ j.n = n /\ j.at = at
             /\ j \in [step : S, at : P, lo : Nat, n : Nat, base : Nat]
<1> DEFINE j == [x EXCEPT !.lo = lo, !.base = base, !.n = n, !.at = at]
<1>1. j.step = x.step /\ j.lo = lo /\ j.base = base /\ j.n = n /\ j.at = at
  OBVIOUS
<1>2. j \in [step : S, at : P, lo : Nat, n : Nat, base : Nat]
  OBVIOUS
<1> QED
  BY <1>1, <1>2

LEMMA ReadAtOffsetKeeps == ASSUME IInv, NEW t \in Threads, ReadAtOffset(t) PROVE IInv'
<1> DEFINE r == job[t].step
           base == Offset(r)
           n == Smaller(Limit, Active - base)
           at == IF n = 0 THEN "done" ELSE "work"
           j == [job[t] EXCEPT !.lo = head + base, !.base = base, !.n = n, !.at = at]
<1>1. r \in Readers /\ job[t].at = "read"
  BY DEF ReadAtOffset
<1>2. base \in Nat /\ base <= Active /\ (Counted /\ r = "patterns_fallback" => base = offs[r])
  BY <1>1, Constants DEF Offset, Active, Larger, IInv, Typed, Fallback
<1>3. n \in Nat /\ n <= Active - base
  BY <1>2, Constants DEF Smaller, Active, IInv, Typed
<1>4. /\ j.step = r /\ j.lo = head + base /\ j.base = base /\ j.lo + j.n <= tail
      /\ j.at \in {"done", "work"}
      /\ j \in Jobs
  <2>1. /\ at \in {"done", "work"} /\ head \in Nat /\ tail \in Nat /\ head + base + n <= tail
        /\ job[t] \in Jobs
    <3> HIDE DEF base
    <3> QED
      BY <1>2, <1>3 DEF IInv, Typed, Active
  <2> HIDE DEF base, n, at
  <2>2. head + base \in Nat /\ base \in Nat /\ n \in Nat
    BY <1>2, <1>3, <2>1
  <2> QED
    BY <2>1, <2>2, RecordRead DEF Jobs
<1>5. job' = [job EXCEPT ![t] = j] /\ (offs' = offs \/ offs' = [offs EXCEPT ![r] = 0])
  BY DEF ReadAtOffset
<1> HIDE DEF base, n, at, j
<1>6. \A u \in Threads : job'[u] = IF u = t THEN j ELSE job[u]
  BY <1>4, <1>5, JobTyped DEF IInv
<1>7. UNCHANGED <<sv, mem, disk, tail, head, processed, seen, twoPipes, unreset, raced, mainVars>>
  BY DEF ReadAtOffset, learner, history
<1>8. offs' \in [Readers -> Nat] /\ offs'["patterns_fallback"] \in {0, offs["patterns_fallback"]}
  BY <1>1, <1>5 DEF IInv, Typed, Readers
<1>9. Typed' /\ Waits'
  BY <1>4, <1>5, <1>7, <1>8, JobTyped DEF IInv, Typed, Waits, AtStep, mainVars
<1>10. JobShape'
  <2>1. sv[t].at = "no"
    BY <1>1 DEF IInv, JobShape
  <2> QED
    BY <1>4, <1>6, <1>7, <2>1 DEF IInv, JobShape
<1>11. OnePipe'
  <2>1. r # "pipeline"
    BY <1>1 DEF Readers
  <2> QED
    BY <1>4, <1>6, <1>7, <2>1 DEF IInv, OnePipe, HasBatch, HasProcessed, Lines
<1>12. OffsetOverProcessed'
  <2> SUFFICES ASSUME Counted
               PROVE  head + 1 .. Smaller(tail, head + offs'["patterns_fallback"]) \subseteq Known
    BY <1>7 DEF OffsetOverProcessed, Known, Counted
  <2> QED
    BY <1>8 DEF IInv, OffsetOverProcessed, Known, Smaller, Typed, Counted
<1>13. Fallback'
  <2>0. Counted' = Counted
    BY <1>7 DEF Counted
  <2>1. Counted' => offs'["patterns_fallback"] <= tail' - head'
    BY <1>7, <1>8, <2>0 DEF IInv, Typed, Fallback
  <2>2. Counted /\ r = "patterns_fallback" => head + 1 .. j.lo \subseteq Known
    BY <1>2, <1>4 DEF IInv, OffsetOverProcessed, Known, Smaller, Typed, Active, Counted
  <2>3. Counted' /\ Reads(t)' => /\ job'[t].lo = head' + job'[t].base
                               /\ head' + 1 .. job'[t].lo \subseteq Known'
    BY <1>4, <1>6, <1>7, <2>0, <2>2 DEF Reads, Known
  <2>4. ~HasSeen(t)'
    BY <1>4, <1>6 DEF HasSeen
  <2>5. ASSUME NEW u \in Threads \ {t}
        PROVE  /\ Counted' /\ Reads(u)' => /\ job'[u].lo = head' + job'[u].base
                                          /\ head' + 1 .. job'[u].lo \subseteq Known'
               /\ HasSeen(u)' => Lines(u)' \subseteq seen'["patterns_fallback"]
    BY <1>6, <1>7, <2>0 DEF IInv, Fallback, Reads, HasSeen, Known, Lines
  <2> QED
    BY <2>1, <2>3, <2>4, <2>5 DEF Fallback
<1>14. HeadOverProcessed'
  BY <1>7 DEF IInv, HeadOverProcessed
<1> QED
  BY <1>9, <1>10, <1>11, <1>12, <1>13, <1>14 DEF IInv

LEMMA LearnKeeps == ASSUME IInv, NEW t \in Threads, Learn(t) PROVE IInv'
<1>1. PICK where \in {"store", "mark"} :
        /\ job[t].at = "work" /\ job' = [job EXCEPT ![t].at = where]
        /\ where = "store" => job[t].step \in Readers
        /\ job[t].step \in {"pipeline", "patterns_fallback"} => where = "mark"
  BY DEF Learn, Moves, Readers
<1>2. /\ job'[t].step = job[t].step /\ job'[t].lo = job[t].lo /\ job'[t].n = job[t].n
      /\ job'[t].base = job[t].base /\ job'[t].at = where
      /\ \A u \in Threads \ {t} : job'[u] = job[u]
  BY <1>1 DEF IInv, Typed
<1>3. \A u \in Threads : Lines(u)' = Lines(u)
  BY <1>2 DEF Lines
<1>4. Lines(t) \subseteq Nat
  BY DEF Jobs, Lines, IInv, Typed
<1>5. UNCHANGED <<sv, disk, tail, head, offs, twoPipes, unreset, raced, mainVars>>
  BY DEF Learn, queueVars
<1>6. /\ processed' \subseteq Nat /\ processed \subseteq processed'
      /\ job[t].step = "pipeline" => Lines(t) \subseteq processed'
  BY <1>4 DEF Learn, IInv, Typed
<1>7. /\ seen' \in [Readers -> SUBSET Nat]
      /\ seen["patterns_fallback"] \subseteq seen'["patterns_fallback"]
      /\ job[t].step = "patterns_fallback" => Lines(t) \subseteq seen'["patterns_fallback"]
  <2>1. CASE job[t].step \in Readers
    <3>1. seen' = [seen EXCEPT ![job[t].step] = @ \cup Lines(t)]
      BY <2>1 DEF Learn
    <3> QED
      BY <1>4, <2>1, <3>1 DEF IInv, Typed, Readers
  <2>2. CASE job[t].step \notin Readers
    BY <2>2 DEF Learn, IInv, Typed, Readers
  <2> QED
    BY <2>1, <2>2
<1>8. Typed'
  <2>1. job' \in [Threads -> Jobs]
    BY <1>1 DEF Jobs, IInv, Typed
  <2>2. mem' \subseteq Int
    <3>1. \E new \in {{}, {FromStep}, Lines(t)} : mem' = mem \cup new
      BY DEF Learn
    <3>2. \A new \in {{}, {FromStep}, Lines(t)} : new \subseteq Int
      BY <1>4 DEF FromStep
    <3> QED
      BY <3>1, <3>2 DEF IInv, Typed
  <2> QED
    BY <1>5, <1>6, <1>7, <2>1, <2>2 DEF IInv, Typed
<1>9. JobShape' /\ Waits'
  <2>1. sv[t].at = "no"
    BY <1>1 DEF IInv, JobShape
  <2>2. Waits'
    BY <1>5 DEF IInv, Waits, AtStep, mainVars
  <2> QED
    BY <1>1, <1>2, <1>5, <2>1, <2>2 DEF IInv, JobShape
<1>10. OnePipe'
  <2> SUFFICES ASSUME ~twoPipes PROVE OnePipe'
    BY <1>5 DEF OnePipe
  <2>1. \A u \in Threads : job'[u].step = job[u].step /\ job'[u].lo = job[u].lo
    BY <1>2
  <2>2. (HasBatch(t)' => HasBatch(t)) /\ (HasProcessed(t)' => Lines(t)' \subseteq processed')
    BY <1>1, <1>2, <1>3, <1>6 DEF HasBatch, HasProcessed
  <2>3. ASSUME NEW u \in Threads \ {t}
        PROVE  (HasBatch(u)' => HasBatch(u)) /\ (HasProcessed(u)' => Lines(u)' \subseteq processed')
    BY <1>2, <1>3, <1>6 DEF HasBatch, HasProcessed, IInv, OnePipe
  <2> QED
    BY <1>5, <2>1, <2>2, <2>3 DEF IInv, OnePipe
<1>11. Known \subseteq Known'
  BY <1>6, <1>7 DEF Known
<1>12. Fallback'
  <2>1. (Reads(t)' => Reads(t)) /\ (HasSeen(t)' => Lines(t)' \subseteq seen'["patterns_fallback"])
    BY <1>1, <1>2, <1>3, <1>7 DEF Reads, HasSeen
  <2>2. ASSUME NEW u \in Threads \ {t}
        PROVE  /\ Reads(u)' => Reads(u)
               /\ HasSeen(u)' => Lines(u)' \subseteq seen'["patterns_fallback"]
    BY <1>2, <1>3, <1>7 DEF Reads, HasSeen, IInv, Fallback
  <2>3. \A u \in Threads : job'[u].lo = job[u].lo /\ job'[u].base = job[u].base
    BY <1>2
  <2> QED
    BY <1>5, <1>11, <2>1, <2>2, <2>3 DEF IInv, Fallback, Counted
<1>13. HeadOverProcessed' /\ OffsetOverProcessed'
  BY <1>5, <1>6, <1>7 DEF IInv, HeadOverProcessed, OffsetOverProcessed, Smaller
<1> QED
  BY <1>8, <1>9, <1>10, <1>12, <1>13 DEF IInv

LEMMA ConsumeKeeps == ASSUME IInv, NEW t \in Threads, Consume(t) PROVE IInv'
<1>1. PICK where \in {"reset", "done"} :
        /\ job[t].at = "consume" /\ job[t].step = "pipeline"
        /\ job' = [job EXCEPT ![t].at = where]
  BY DEF Consume, Moves, IInv, JobShape
<1>2. /\ job'[t].step = job[t].step /\ job'[t].lo = job[t].lo /\ job'[t].n = job[t].n
      /\ job'[t].base = job[t].base /\ job'[t].at = where
      /\ \A u \in Threads \ {t} : job'[u] = job[u]
  BY <1>1 DEF IInv, Typed
<1>3. UNCHANGED <<sv, mem, disk, tail, offs, processed, seen, twoPipes, raced, mainVars>>
  BY DEF Consume, learner
<1>4. head' = Smaller(tail, head + job[t].n) /\ head' \in head..tail
  BY DEF Jobs, Consume, Consumed, Smaller, IInv, Typed
<1>5. unreset' \in BOOLEAN /\ (Counted' => Counted /\ head' = head)
  <2>1. unreset' = (unreset \/ head' > head)
    BY DEF Consume
  <2>2. head' > head \/ head' = head
    BY <1>4 DEF IInv, Typed
  <2> QED
    BY <1>3, <2>1, <2>2 DEF Counted, IInv, Typed
<1>6. Typed'
  <2>1. job' \in [Threads -> Jobs]
    BY <1>1 DEF Jobs, IInv, Typed
  <2> QED
    BY <1>3, <1>4, <1>5, <2>1 DEF IInv, Typed
<1>7. JobShape' /\ Waits'
  <2>1. sv[t].at = "no"
    BY <1>1 DEF IInv, JobShape
  <2>2. Waits'
    BY <1>3 DEF IInv, Waits, AtStep, mainVars
  <2> QED
    BY <1>1, <1>2, <1>3, <2>1, <2>2 DEF IInv, JobShape
<1>8. ASSUME ~twoPipes PROVE \A u \in Threads \ {t} : job[u].step # "pipeline"
  BY <1>1, <1>8 DEF IInv, OnePipe
<1>9. OnePipe'
  <2> SUFFICES ASSUME ~twoPipes PROVE OnePipe'
    BY <1>3 DEF OnePipe
  <2> QED
    BY <1>2, <1>8 DEF OnePipe, HasBatch, HasProcessed
<1>10. HeadOverProcessed'
  <2> SUFFICES ASSUME ~twoPipes PROVE 1..head' \subseteq processed
    BY <1>3 DEF HeadOverProcessed
  <2>1. 1..head \subseteq processed /\ Lines(t) \subseteq processed /\ job[t].lo = head
    BY <1>1 DEF IInv, HeadOverProcessed, OnePipe, HasBatch, HasProcessed
  <2> QED
    BY <1>4, <2>1 DEF Jobs, Lines, Smaller, IInv, Typed
<1>11. OffsetOverProcessed'
  BY <1>3, <1>5 DEF OffsetOverProcessed, Counted, Smaller, IInv, Typed
<1>12. Fallback'
  <2>1. ~Reads(t)' /\ ~HasSeen(t)'
    BY <1>1, <1>2 DEF Reads, HasSeen
  <2>2. ASSUME NEW u \in Threads \ {t}
        PROVE  /\ Reads(u)' = Reads(u) /\ job'[u] = job[u]
               /\ HasSeen(u)' => Lines(u)' \subseteq seen'["patterns_fallback"]
    BY <1>2, <1>3 DEF Reads, HasSeen, Lines, IInv, Fallback
  <2> QED
    BY <1>3, <1>5, <2>1, <2>2 DEF IInv, Fallback, Known
<1> QED
  BY <1>6, <1>7, <1>9, <1>10, <1>11, <1>12 DEF IInv

LEMMA ResetOffsetKeeps == ASSUME IInv, NEW t \in Threads, ResetOffset(t) PROVE IInv'
<1>1. /\ job[t].at = "reset" /\ job[t].step = "pipeline"
      /\ job' = [job EXCEPT ![t].at = "done"]
  BY DEF ResetOffset, Moves, IInv, JobShape
<1>2. /\ job'[t].step = job[t].step /\ job'[t].lo = job[t].lo /\ job'[t].n = job[t].n
      /\ job'[t].base = job[t].base /\ job'[t].at = "done"
      /\ \A u \in Threads \ {t} : job'[u] = job[u]
  BY <1>1 DEF IInv, Typed
<1>3. UNCHANGED <<sv, mem, disk, tail, head, processed, seen, twoPipes, mainVars>>
  BY DEF ResetOffset, learner
<1>4. offs' \in [Readers -> Nat] /\ offs'["patterns_fallback"] = 0
  BY DEF ResetOffset, OffsetAfterConsume, IInv, Typed, Readers
<1>5. raced' \in BOOLEAN /\ unreset' = FALSE /\ (Counted' => \A u \in Threads : ~Reads(u))
  BY DEF ResetOffset, Reads, Counted, IInv, Typed
<1>6. Typed'
  <2>1. job' \in [Threads -> Jobs]
    BY <1>1 DEF Jobs, IInv, Typed
  <2> QED
    BY <1>3, <1>4, <1>5, <2>1 DEF IInv, Typed
<1>7. JobShape' /\ Waits'
  <2>1. sv[t].at = "no"
    BY <1>1 DEF IInv, JobShape
  <2>2. Waits'
    BY <1>3 DEF IInv, Waits, AtStep, mainVars
  <2> QED
    BY <1>2, <1>3, <2>1, <2>2 DEF IInv, JobShape
<1>8. OnePipe'
  BY <1>1, <1>2, <1>3 DEF IInv, OnePipe, HasBatch, HasProcessed, Lines
<1>9. HeadOverProcessed' /\ OffsetOverProcessed'
  BY <1>3, <1>4 DEF IInv, Typed, HeadOverProcessed, OffsetOverProcessed, Smaller
<1>10. Fallback'
  <2>1. ~Reads(t)' /\ ~HasSeen(t)'
    BY <1>2 DEF Reads, HasSeen
  <2>2. ASSUME NEW u \in Threads \ {t}
        PROVE (Reads(u)' = Reads(u)) /\ (HasSeen(u)' => Lines(u)' \subseteq seen'["patterns_fallback"])
    BY <1>2, <1>3 DEF Reads, HasSeen, Lines, IInv, Fallback
  <2>3. offs'["patterns_fallback"] <= tail' - head'
    BY <1>3, <1>4 DEF IInv, Typed
  <2> QED
    BY <1>5, <2>1, <2>2, <2>3 DEF Fallback
<1> QED
  BY <1>6, <1>7, <1>8, <1>9, <1>10 DEF IInv

LEMMA StoreOffsetKeeps == ASSUME IInv, NEW t \in Threads, StoreOffset(t) PROVE IInv'
<1> DEFINE r == job[t].step
           base == job[t].base
<1>1. /\ job[t].at = "store" /\ r \in Readers
      /\ job' = [job EXCEPT ![t].at = "done"]
      /\ offs' = [offs EXCEPT ![r] = base + job[t].n]
  BY DEF StoreOffset, Moves, IInv, JobShape
<1>2. /\ job'[t].step = job[t].step /\ job'[t].lo = job[t].lo /\ job'[t].n = job[t].n
      /\ job'[t].base = job[t].base /\ job'[t].at = "done"
      /\ \A u \in Threads \ {t} : job'[u] = job[u]
  BY <1>1 DEF IInv, Typed
<1>3. UNCHANGED <<sv, mem, disk, tail, head, processed, seen, twoPipes, unreset, raced, mainVars>>
  BY DEF StoreOffset, learner, history
<1>4. /\ offs' \in [Readers -> Nat]
      /\ r = "patterns_fallback" => offs'["patterns_fallback"] = base + job[t].n
      /\ r # "patterns_fallback" => offs'["patterns_fallback"] = offs["patterns_fallback"]
  BY <1>1 DEF Jobs, IInv, Typed, Readers
<1>5. Typed'
  <2>1. job' \in [Threads -> Jobs]
    BY <1>1 DEF Jobs, IInv, Typed
  <2> QED
    BY <1>3, <1>4, <2>1 DEF IInv, Typed
<1>6. JobShape' /\ Waits'
  <2>1. sv[t].at = "no"
    BY <1>1 DEF IInv, JobShape
  <2>2. Waits'
    BY <1>3 DEF IInv, Waits, AtStep, mainVars
  <2> QED
    BY <1>2, <1>3, <2>1, <2>2 DEF IInv, JobShape
<1>7. OnePipe'
  <2>1. r # "pipeline"
    BY <1>1 DEF Readers
  <2> QED
    BY <1>2, <1>3, <2>1 DEF IInv, OnePipe, HasBatch, HasProcessed, Lines
<1>8. OffsetOverProcessed' /\ (Counted => offs'["patterns_fallback"] <= tail - head)
  <2> SUFFICES ASSUME Counted
               PROVE  /\ offs'["patterns_fallback"] <= tail - head
                      /\ head + 1 .. Smaller(tail, head + offs'["patterns_fallback"]) \subseteq Known
    BY <1>3 DEF OffsetOverProcessed, Known, Counted
  <2>1. CASE r = "patterns_fallback"
    <3>1. /\ job[t].lo = head + base /\ head + 1 .. job[t].lo \subseteq Known
          /\ Lines(t) \subseteq Known
      BY <1>1, <2>1 DEF IInv, Fallback, Reads, HasSeen, Known
    <3>2. job[t].lo + job[t].n <= tail
      BY DEF IInv, JobShape
    <3>3. head + 1 .. head + base + job[t].n
            \subseteq (head + 1 .. job[t].lo) \cup (job[t].lo + 1 .. job[t].lo + job[t].n)
      BY <3>1 DEF Jobs, IInv, Typed
    <3> QED
      BY <1>4, <2>1, <3>1, <3>2, <3>3 DEF Jobs, Lines, Smaller, IInv, Typed
  <2>2. CASE r # "patterns_fallback"
    BY <1>4, <2>2 DEF IInv, OffsetOverProcessed, Fallback, Known, Counted
  <2> QED
    BY <2>1, <2>2
<1>9. Fallback'
  <2>1. ~Reads(t)' /\ ~HasSeen(t)'
    BY <1>2 DEF Reads, HasSeen
  <2>2. ASSUME NEW u \in Threads \ {t}
        PROVE  /\ (Reads(u)' => Reads(u)) /\ job'[u] = job[u]
               /\ HasSeen(u)' => Lines(u)' \subseteq seen'["patterns_fallback"]
    BY <1>2, <1>3 DEF Reads, HasSeen, Lines, IInv, Fallback
  <2> QED
    BY <1>3, <1>8, <2>1, <2>2 DEF IInv, Fallback, Known, Counted
<1>10. HeadOverProcessed'
  BY <1>3 DEF IInv, HeadOverProcessed
<1> QED
  BY <1>5, <1>6, <1>7, <1>8, <1>9, <1>10 DEF IInv

LEMMA ArriveKeeps == ASSUME IInv, Arrive PROVE IInv'
<1>1. UNCHANGED <<job, sv, mem, disk, head, offs, processed, seen, twoPipes, unreset, raced, mainVars>>
      /\ tail' = tail + 1 /\ tail < MaxEvents
  BY DEF Arrive, learner, history
<1>2. Typed' /\ JobShape' /\ Waits'
  BY <1>1, Constants DEF Jobs, IInv, Typed, JobShape, Waits, AtStep, mainVars
<1>3. OnePipe'
  BY <1>1 DEF IInv, OnePipe, HasBatch, HasProcessed, Lines
<1>4. Fallback'
  BY <1>1 DEF IInv, Typed, Readers, Fallback, Counted, Reads, HasSeen, Known, Lines
<1>5. HeadOverProcessed' /\ OffsetOverProcessed'
  BY <1>1 DEF IInv, Typed, Readers, Fallback, Counted, HeadOverProcessed, OffsetOverProcessed, Smaller
<1> QED
  BY <1>2, <1>3, <1>4, <1>5 DEF IInv

LEMMA KillKeeps == ASSUME IInv, Kill PROVE IInv'
<1>1. /\ \A t \in Threads : job'[t] = Free
      /\ job' = [t \in Threads |-> Free] /\ sv' = [a \in Savers |-> NoSave]
      /\ ph' = "go" /\ mem' = disk
      /\ UNCHANGED <<disk, cursors, processed, seen>>
  BY DEF Kill, queueVars, cursors
<1>2. Typed'
  <2>1. job' \in [Threads -> Jobs]
    BY <1>1 DEF Jobs, Free
  <2>2. sv' \in [Savers -> Saves]
    BY <1>1 DEF Saves, NoSave
  <2> QED
    BY <1>1, <2>1, <2>2 DEF IInv, Typed, cursors
<1>3. JobShape' /\ Waits'
  <2>1. tail' \in Nat
    BY <1>2, Constants DEF Typed
  <2> QED
    BY <1>1, <2>1, Threadlike DEF JobShape, Waits, Free, NoSave
<1> QED
  BY <1>1, <1>2, <1>3, Onward

\* What other processes do to the lock.
LEMMA LockKeeps == ASSUME IInv, OtherLeaves \/ StealLock PROVE IInv'
<1>1. UNCHANGED <<mainVars, job, sv, mem, disk, cursors, processed, seen>>
  BY DEF OtherLeaves, StealLock, cursors, queueVars
<1>2. Typed' /\ JobShape' /\ Waits'
  BY <1>1 DEF IInv, Typed, JobShape, Waits, AtStep, mainVars, cursors
<1>3. \A t \in Threads : Kept(t)
  BY <1>1 DEF Kept, HasBatch, HasProcessed, Reads, HasSeen
<1> QED
  BY <1>1, <1>2, <1>3, Onward

-----------------------------------------------------------------------------

LEMMA StepIInv == IInv /\ [Next]_vars => IInv'
<1> SUFFICES ASSUME IInv, [Next]_vars PROVE IInv'
  OBVIOUS
<1>1. CASE MainStep
  BY <1>1, MainKeeps, SubmitKeeps, SaveKeeps, Threadlike DEF MainStep
<1>2. ASSUME NEW t \in Threads, JobStep(t) PROVE IInv'
  BY <1>2, ReadBatchKeeps, ReadAtOffsetKeeps, LearnKeeps, MarkKeeps, ConsumeKeeps,
     ResetOffsetKeeps, StoreOffsetKeeps, AbandonedKeeps, SaveKeeps, Threadlike DEF JobStep
<1>3. CASE Arrive
  BY <1>3, ArriveKeeps
<1>4. CASE Kill \/ OtherLeaves \/ StealLock
  BY <1>4, KillKeeps, LockKeeps
<1>5. CASE UNCHANGED vars
  <2>1. Typed' /\ JobShape' /\ Waits'
    BY <1>5 DEF IInv, Typed, JobShape, Waits, AtStep, vars, mainVars, learner, queueVars, history
  <2>2. \A t \in Threads : Kept(t)
    BY <1>5 DEF Kept, HasBatch, HasProcessed, Reads, HasSeen, vars
  <2> QED
    BY <1>5, <2>1, <2>2, Onward DEF vars, cursors, queueVars, history
<1> QED
  BY <1>1, <1>2, <1>3, <1>4, <1>5 DEF Next

LEMMA Invariant == Spec => []IInv
  BY InitIInv, StepIInv, PTL DEF Spec

\* The head passes an event nobody has processed only after two pipelines have
\* run at once (pipeline.py:1064): for any pool, any steps that overrun their
\* timeout, failures and kills.
THEOREM HeadSafe == Spec => []HeadOverProcessed
<1>1. IInv => HeadOverProcessed
  BY DEF IInv
<1> QED
  BY <1>1, Invariant, PTL

\* Once the offset has been reset after a consume, it never counts an event that
\* neither the pipeline nor the pattern worker has processed (pipeline.py:1064,
\* :1069), unless a reset came between a fallback's read and its store
\* (worker.py:93): whatever is killed, fails or overruns between the two writes.
THEOREM OffsetSafe == Spec => []OffsetOverProcessed
<1>1. IInv => OffsetOverProcessed
  BY DEF IInv
<1> QED
  BY <1>1, Invariant, PTL
-----------------------------------------------------------------------------
(* The learner.  A step that is not a kill forgets nothing but what it     *)
(* adds to unsaved.                                                        *)

Safe(k) == k \in disk \/ WillBeWritten(k)
Covered(k) == k \in unsaved \/ Safe(k)

\* The main thread saves only while it waits for that, ...
MainSaves == sv[Main].at # "no" => ph = "save"

\* ... saves exclude each other, so that none takes anything from the file, ...
Exclusive ==
  ~stolen => \A a \in Savers :
    /\ sv[a].at \in {"merge", "write"} => lock = a
    /\ sv[a].at = "write" => disk \subseteq sv[a].keys

\* ... and what a pipeline has learned from its batch is in memory, and covered
\* before the batch is consumed.
Learned ==
  ~twoPipes /\ ~stolen => \A t \in Threads : HasProcessed(t) =>
    \A k \in Lines(t) : Covered(k) \/ (job[t].at = "mark" /\ k \in mem)

SInv == IInv /\ MainSaves /\ Exclusive /\ Learned /\ ConsumedIsSaved

\* What a step keeps: everything covered, and everything in memory unless it
\* becomes unsaved.
Keeps == \A k \in Int : /\ Covered(k) => Covered(k)'
                        /\ k \in mem => k \in mem' \/ Covered(k)'

learning == <<mem, dirty, sv, disk, unsaved>>

LEMMA InitSInv == Init => SInv
<1> SUFFICES ASSUME Init PROVE SInv
  OBVIOUS
<1>1. MainSaves /\ Exclusive
  BY Threadlike DEF Init, MainSaves, Exclusive, NoSave
<1>2. Learned /\ ConsumedIsSaved
  BY DEF Init, Learned, ConsumedIsSaved, HasProcessed, Free
<1> QED
  BY <1>1, <1>2, InitIInv DEF SInv

LEMMA StillKeeps == ASSUME UNCHANGED learning PROVE Keeps
  BY DEF learning, Keeps, Covered, Safe, WillBeWritten

\* A change of the learner that somebody is told of.
LEMMA ChangeKeeps ==
  ASSUME IInv, UNCHANGED <<disk, unsaved>>, mem \subseteq mem',
         \/ UNCHANGED sv /\ (dirty => dirty')
         \/ \E a \in Savers : sv[a].at = "no" /\ sv' = [sv EXCEPT ![a].at = "wait"]
  PROVE  Keeps
<1> SUFFICES ASSUME NEW k \in Int, Safe(k) PROVE Safe(k)'
  BY DEF Keeps, Covered
<1>1. CASE UNCHANGED sv /\ (dirty => dirty')
  BY <1>1 DEF Safe, WillBeWritten
<1>2. ASSUME NEW a \in Savers, sv[a].at = "no", sv' = [sv EXCEPT ![a].at = "wait"] PROVE Safe(k)'
  <2>1. sv'[a].at = "wait" /\ \A b \in Savers \ {a} : sv'[b] = sv[b]
    BY <1>2 DEF Saves, IInv, Typed
  <2> QED
    BY <1>2, <2>1 DEF Safe, WillBeWritten
<1> QED
  BY <1>1, <1>2

\* A save.
LEMMA SaveKeepsAll == ASSUME SInv, NEW a \in Savers, SaveStep(a), ~stolen PROVE Keeps
<1> SUFFICES ASSUME NEW k \in Int
             PROVE  /\ Covered(k) => Covered(k)'
                    /\ k \in mem => k \in mem' \/ Covered(k)'
  BY DEF Keeps
<1>0. \A b \in Savers \ {a} : sv'[b] = sv[b]
  BY SaveTypes DEF SInv
<1>1. CASE TakeLock(a)
  <2>1. sv[a].at = "wait" /\ sv'[a].at = "merge" /\ sv'[a].keys = mem
    BY <1>1 DEF TakeLock, SInv, IInv, Typed
  <2>2. UNCHANGED <<mem, dirty, disk, unsaved>>
    BY <1>1 DEF TakeLock, history
  <2> QED
    BY <1>0, <2>1, <2>2 DEF Covered, Safe, WillBeWritten
<1>2. CASE GiveUp(a)
  <2>1. sv[a].at = "wait" /\ dirty'
    BY <1>2 DEF GiveUp
  <2>2. UNCHANGED <<mem, disk, unsaved>>
    BY <1>2 DEF GiveUp, history
  <2> QED
    BY <1>0, <2>1, <2>2 DEF Covered, Safe, WillBeWritten
<1>3. CASE MergeFails(a) \/ WriteFails(a)
  <2>1. /\ sv[a].at \in {"merge", "write"} /\ UNCHANGED <<mem, dirty, disk>>
        /\ unsaved' = unsaved \cup (sv[a].keys \ disk)
    BY <1>3 DEF MergeFails, WriteFails, Unwritten
  <2> QED
    BY <1>0, <2>1 DEF Covered, Safe, WillBeWritten
<1>4. CASE Merge(a)
  <2>1. /\ sv[a].at = "merge" /\ sv'[a].at = "write" /\ sv'[a].keys = sv[a].keys \cup disk
        /\ mem' = sv[a].keys \cup disk
    BY <1>4 DEF Merge, SInv, IInv, Typed
  <2>2. UNCHANGED <<dirty, disk>> /\ unsaved' = unsaved \cup (mem \ mem')
    BY <1>4 DEF Merge
  <2> QED
    BY <1>0, <2>1, <2>2 DEF Covered, Safe, WillBeWritten
<1>5. CASE Write(a)
  <2>1. /\ sv[a].at = "write" /\ UNCHANGED <<mem, dirty>>
        /\ disk' = sv[a].keys /\ unsaved' = unsaved \ sv[a].keys
    BY <1>5 DEF Write
  <2>2. disk \subseteq disk'
    BY <2>1 DEF SInv, Exclusive
  <2> QED
    BY <1>0, <2>1, <2>2 DEF Covered, Safe, WillBeWritten
<1> QED
  BY <1>1, <1>2, <1>3, <1>4, <1>5 DEF SaveStep

\* Which actions are what.
LEMMA Silent ==
  ASSUME Submit \/ Dequeue \/ Returned \/ TimesOutQueued \/ TimesOutRunning \/ Proceed
         \/ Arrive \/ OtherLeaves \/ StealLock
         \/ \E t \in Threads : \/ ReadBatch(t) \/ ReadAtOffset(t) \/ PatternsFail(t) \/ Consume(t)
                               \/ ResetOffset(t) \/ StoreOffset(t) \/ CursorFails(t) \/ Abandoned(t)
  PROVE  UNCHANGED learning
  BY DEF Submit, Dequeue, Returned, TimesOutQueued, TimesOutRunning, Proceed, Arrive, OtherLeaves,
     StealLock, ReadBatch, ReadAtOffset, PatternsFail, Consume, ResetOffset, StoreOffset,
     CursorFails, Abandoned, learning, learner, history

LEMMA StepKeeps == ASSUME SInv, Next, ~Kill, ~stolen PROVE Keeps
<1>1. CASE EndBatch \/ Inline
  <2>1. sv[Main].at = "no" /\ Main \in Savers
    BY <1>1, Threadlike DEF EndBatch, Inline, SInv, MainSaves
  <2>2. /\ UNCHANGED <<disk, unsaved>> /\ mem \subseteq mem'
        /\ \/ (UNCHANGED sv /\ (dirty => dirty')) \/ sv' = [sv EXCEPT ![Main].at = "wait"]
    BY <1>1 DEF EndBatch, Inline, LearnedInMain, history
  <2> QED
    BY <2>1, <2>2, ChangeKeeps DEF SInv
<1>2. ASSUME NEW t \in Threads, Learn(t) \/ Mark(t) PROVE Keeps
  <2>1. sv[t].at = "no" /\ t \in Savers
    BY <1>2, Threadlike DEF Learn, Mark, SInv, IInv, JobShape
  <2>2. /\ UNCHANGED <<disk, unsaved>> /\ mem \subseteq mem'
        /\ \/ (UNCHANGED sv /\ (dirty => dirty')) \/ sv' = [sv EXCEPT ![t].at = "wait"]
    BY <1>2 DEF Learn, Mark, history
  <2> QED
    BY <2>1, <2>2, ChangeKeeps DEF SInv
<1>3. ASSUME NEW a \in Savers, SaveStep(a) PROVE Keeps
  BY <1>3, SaveKeepsAll
<1>4. CASE UNCHANGED learning
  BY <1>4, StillKeeps
<1> QED
  BY <1>1, <1>2, <1>3, <1>4, Silent, Threadlike DEF Next, MainStep, JobStep

LEMMA MainSavesStep == ASSUME SInv, Next PROVE MainSaves'
<1>1. CASE UNCHANGED <<ph, sv>>
  BY <1>1 DEF SInv, MainSaves
<1>2. CASE Proceed \/ EndBatch \/ Inline \/ Submit \/ Dequeue \/ Returned \/ TimesOutQueued
           \/ TimesOutRunning
  <2>1. sv[Main].at # "no" => ph = "save"
    BY DEF SInv, MainSaves
  <2>2. ph # "save"
    BY <1>2 DEF Proceed, EndBatch, Inline, Submit, Dequeue, Returned, TimesOutQueued,
       TimesOutRunning
  <2>3. UNCHANGED sv \/ ph' = "save"
    BY <1>2 DEF Proceed, EndBatch, Inline, LearnedInMain, Submit, Dequeue, Returned,
       TimesOutQueued, TimesOutRunning, learner
  <2> QED
    BY <2>1, <2>2, <2>3 DEF MainSaves
<1>3. CASE SaveStep(Main)
  <2>1. \/ UNCHANGED ph \/ sv' = [sv EXCEPT ![Main] = NoSave]
    BY <1>3 DEF SaveStep, TakeLock, GiveUp, MergeFails, Merge, Write, WriteFails, Unwritten, mainVars
  <2>2. sv[Main].at # "no" /\ Main \in Savers
    BY <1>3, SaveTypes, Threadlike DEF SInv
  <2> QED
    BY <2>1, <2>2 DEF SInv, IInv, Typed, MainSaves, NoSave
<1>4. ASSUME NEW t \in Threads, JobStep(t) PROVE MainSaves'
  <2>1. UNCHANGED ph
    BY <1>4, Threadlike DEF JobStep, ReadBatch, ReadAtOffset, Learn, PatternsFail, Mark, Consume,
       ResetOffset, StoreOffset, CursorFails, Abandoned, SaveStep, TakeLock, GiveUp, MergeFails,
       Merge, Write, WriteFails, Resumes, mainVars
  <2>2. sv'[Main] = sv[Main]
    <3>1. CASE SaveStep(t)
      BY <3>1, SaveTypes, Threadlike DEF SInv
    <3>2. CASE Mark(t)
      BY <3>2, Threadlike DEF Mark, SInv, IInv, Typed
    <3>3. CASE UNCHANGED sv
      BY <3>3
    <3> QED
      BY <1>4, <3>1, <3>2, <3>3, Silent DEF JobStep, Learn, learning
  <2> QED
    BY <2>1, <2>2 DEF SInv, MainSaves
<1>5. CASE Kill
  BY <1>5, Threadlike DEF Kill, NoSave, MainSaves
<1>6. CASE Arrive \/ OtherLeaves \/ StealLock
  BY <1>1, <1>6 DEF Arrive, OtherLeaves, StealLock, mainVars, learner
<1> QED
  BY <1>2, <1>3, <1>4, <1>5, <1>6 DEF Next, MainStep

LEMMA ExclusiveStep == ASSUME SInv, Next PROVE Exclusive'
<1> SUFFICES ASSUME ~stolen' PROVE Exclusive'
  BY DEF Exclusive
<1>0. /\ \A a \in Savers : /\ sv[a].at \in {"merge", "write"} => lock = a
                           /\ sv[a].at = "write" => disk \subseteq sv[a].keys
      /\ sv \in [Savers -> Saves] /\ NoOne \notin Savers
  <2>1. ~stolen
    BY DEF Next, MainStep, JobStep, SaveStep, Proceed, EndBatch, Inline, Submit, Dequeue, Returned,
       TimesOutQueued, TimesOutRunning, TakeLock, GiveUp, MergeFails, Merge, Write, WriteFails,
       Unwritten, ReadBatch, ReadAtOffset, Learn, PatternsFail, Mark, Consume, ResetOffset,
       StoreOffset, CursorFails, Abandoned, Arrive, Kill, OtherLeaves, StealLock, history
  <2>2. NoOne \notin Savers
    BY Constants DEF NoOne, Savers, Main, Threads
  <2> QED
    BY <2>1, <2>2 DEF SInv, IInv, Typed, Exclusive
<1>1. CASE UNCHANGED <<sv, lock, disk>>
  BY <1>0, <1>1 DEF Exclusive
<1>2. ASSUME NEW a \in Savers, UNCHANGED <<lock, disk>>, sv' = [sv EXCEPT ![a].at = "wait"]
      PROVE  Exclusive'
  BY <1>0, <1>2 DEF Saves, Exclusive
<1>3. ASSUME NEW a \in Savers, SaveStep(a) PROVE Exclusive'
  <2>0. \A b \in Savers \ {a} : sv'[b] = sv[b]
    BY <1>3, SaveTypes DEF SInv
  <2>1. CASE TakeLock(a)
    <3>1. sv'[a].at = "merge" /\ lock = NoOne /\ lock' = a /\ disk' = disk
      BY <1>0, <2>1 DEF TakeLock
    <3> QED
      BY <1>0, <2>0, <3>1 DEF Exclusive
  <2>2. CASE GiveUp(a)
    <3>1. sv'[a].at = "no" /\ UNCHANGED <<lock, disk>>
      BY <1>0, <2>2 DEF GiveUp, NoSave
    <3> QED
      BY <1>0, <2>0, <3>1 DEF Exclusive
  <2>3. CASE MergeFails(a) \/ Write(a) \/ WriteFails(a)
    <3>1. sv[a].at \in {"merge", "write"} /\ sv' = [sv EXCEPT ![a] = NoSave]
      BY <2>3 DEF MergeFails, Write, WriteFails, Unwritten
    <3>2. sv'[a].at = "no" /\ lock = a
      BY <1>0, <3>1 DEF NoSave
    <3> QED
      BY <1>0, <2>0, <3>2 DEF Exclusive
  <2>4. CASE Merge(a)
    <3>1. /\ sv'[a].at = "write" /\ lock = a /\ UNCHANGED <<lock, disk>>
          /\ disk \subseteq sv'[a].keys
      BY <1>0, <2>4 DEF Merge
    <3> QED
      BY <1>0, <2>0, <3>1 DEF Exclusive
  <2> QED
    BY <1>3, <2>1, <2>2, <2>3, <2>4 DEF SaveStep
<1>4. CASE Kill
  BY <1>4 DEF Kill, NoSave, Exclusive
<1>5. CASE OtherLeaves \/ StealLock
  <2>1. CASE OtherLeaves
    BY <1>0, <2>1 DEF OtherLeaves, Exclusive
  <2>2. CASE StealLock
    BY <2>2 DEF StealLock
  <2> QED
    BY <1>5, <2>1, <2>2
<1>6. CASE EndBatch \/ Inline
  BY <1>1, <1>2, <1>6, Threadlike DEF EndBatch, Inline, LearnedInMain
<1>7. ASSUME NEW t \in Threads, Learn(t) \/ Mark(t) PROVE Exclusive'
  BY <1>1, <1>2, <1>7, Threadlike DEF Learn, Mark
<1>8. CASE Submit \/ Dequeue \/ Returned \/ TimesOutQueued \/ TimesOutRunning \/ Proceed \/ Arrive
  BY <1>1, <1>8 DEF Submit, Dequeue, Returned, TimesOutQueued, TimesOutRunning, Proceed, Arrive,
     learner
<1>9. ASSUME NEW t \in Threads, JobStep(t), ~(Learn(t) \/ Mark(t) \/ SaveStep(t)) PROVE Exclusive'
  BY <1>1, <1>9 DEF JobStep, ReadBatch, ReadAtOffset, PatternsFail, Consume, ResetOffset,
     StoreOffset, CursorFails, Abandoned, learner
<1> QED
  BY <1>3, <1>4, <1>5, <1>6, <1>7, <1>8, <1>9, Threadlike DEF Next, MainStep

-----------------------------------------------------------------------------
(* The batch of a pipeline.                                                *)

LEMMA Moving ==
  ASSUME IInv, NEW t \in Threads, NEW where, Moves(t, where)
  PROVE  /\ job'[t].at = where /\ job'[t].step = job[t].step /\ Lines(t)' = Lines(t)
         /\ \A u \in Threads \ {t} : job'[u] = job[u]
<1>1. job[t] \in Jobs /\ job' = [job EXCEPT ![t].at = where]
  BY DEF Moves, IInv, Typed
<1>2. job'[t] = [job[t] EXCEPT !.at = where] /\ \A u \in Threads \ {t} : job'[u] = job[u]
  BY <1>1 DEF IInv, Typed
<1>3. /\ job'[t].at = where /\ job'[t].step = job[t].step
      /\ job'[t].lo = job[t].lo /\ job'[t].n = job[t].n
  BY <1>1, <1>2 DEF Jobs
<1> QED
  BY <1>2, <1>3 DEF Lines

\* What a save does to where its thread is.
LEMMA SaveMoves ==
  ASSUME NEW a \in Savers, SaveStep(a), a \in Threads
  PROVE  job' = job \/ \E where : Moves(a, where)
<1>1. CASE TakeLock(a) \/ Merge(a)
  BY <1>1 DEF TakeLock, Merge
<1>2. CASE \E ok \in BOOLEAN : Resumes(a, ok)
  BY <1>2, Threadlike DEF Resumes
<1> QED
  BY <1>1, <1>2 DEF SaveStep, GiveUp, MergeFails, Write, WriteFails

\* A step of one thread leaves the others where they are.
LEMMA Elsewhere ==
  ASSUME IInv, NEW u \in Threads, JobStep(u), NEW t \in Threads, u # t
  PROVE  job'[t] = job[t]
<1>1. CASE SaveStep(u)
  BY <1>1, SaveMoves, Moving, Threadlike
<1>2. CASE Learn(u) \/ PatternsFail(u) \/ Mark(u) \/ Consume(u) \/ ResetOffset(u)
           \/ StoreOffset(u) \/ CursorFails(u)
  <2>1. \E where : Moves(u, where)
    BY <1>2 DEF Learn, PatternsFail, Mark, Consume, ResetOffset, StoreOffset, CursorFails
  <2> QED
    BY <2>1, Moving
<1>3. CASE ReadBatch(u) \/ ReadAtOffset(u) \/ Abandoned(u)
  BY <1>3 DEF ReadBatch, ReadAtOffset, Abandoned, IInv, Typed
<1> QED
  BY <1>1, <1>2, <1>3 DEF JobStep

\* The main thread moves a thread only into a step, or out of one.
LEMMA MainMoves ==
  ASSUME IInv, MainStep, NEW t \in Threads
  PROVE  job'[t] = job[t] \/ job'[t].at \in {"none", "read", "work", "done"}
<1>1. CASE Proceed \/ EndBatch \/ Inline \/ TimesOutQueued \/ TimesOutRunning
  BY <1>1 DEF Proceed, EndBatch, Inline, TimesOutQueued, TimesOutRunning
<1>2. CASE Returned
  BY <1>2 DEF Returned, Free, IInv, Typed
<1>3. CASE SaveStep(Main)
  <2>1. job' = job
    BY <1>3 DEF SaveStep, TakeLock, GiveUp, MergeFails, Merge, Write, WriteFails, Resumes
  <2> QED
    BY <2>1
<1>4. ASSUME NEW u \in Threads, Starts(u, AtStep)
      PROVE  job'[t] = job[t] \/ job'[t].at \in {"none", "read", "work", "done"}
  BY <1>4 DEF Starts, Free, IInv, Typed
<1>5. CASE Submit \/ Dequeue
  <2>1. job' = job \/ \E u \in Threads : Starts(u, AtStep)
    BY <1>5 DEF Submit, Dequeue, IdleThreads
  <2> QED
    BY <1>4, <2>1
<1> QED
  BY <1>1, <1>2, <1>3, <1>5 DEF MainStep

\* What has happened once has happened.
LEMMA Monotone ==
  ASSUME Next
  PROVE  /\ ~twoPipes' => ~twoPipes
         /\ ~stolen' => ~stolen
         /\ ~Kill => lost' = lost
<1>1. CASE Submit \/ Dequeue
  <2>1. UNCHANGED <<stolen, lost>>
    BY <1>1 DEF Submit, Dequeue
  <2>2. twoPipes' = twoPipes \/ \E u \in Threads, s \in Steps \cup {AtStep} : Starts(u, s)
    BY <1>1 DEF Submit, Dequeue, IdleThreads
  <2>3. ASSUME NEW u \in Threads, NEW s, Starts(u, s) PROVE ~twoPipes' => ~twoPipes
    BY <2>3, Zenon DEF Starts
  <2> QED
    BY <2>1, <2>2, <2>3
<1>2. CASE Proceed \/ EndBatch \/ Inline \/ Returned \/ TimesOutQueued \/ TimesOutRunning
  BY <1>2 DEF Proceed, EndBatch, Inline, Returned, TimesOutQueued, TimesOutRunning, history
<1>3. ASSUME NEW a \in Savers, SaveStep(a) PROVE UNCHANGED <<twoPipes, stolen, lost>>
  BY <1>3 DEF SaveStep, TakeLock, GiveUp, MergeFails, Merge, Write, WriteFails, Unwritten, history
<1>4. ASSUME NEW t \in Threads, JobStep(t), ~SaveStep(t) PROVE UNCHANGED <<twoPipes, stolen, lost>>
  BY <1>4 DEF JobStep, ReadBatch, ReadAtOffset, Learn, PatternsFail, Mark, Consume, ResetOffset,
     StoreOffset, CursorFails, Abandoned, history
<1>5. CASE Arrive \/ Kill \/ OtherLeaves \/ StealLock
  BY <1>5 DEF Arrive, Kill, OtherLeaves, StealLock, history
<1> QED
  BY <1>1, <1>2, <1>3, <1>4, <1>5, Threadlike DEF Next, MainStep

\* A thread whose batch is processed was already before the step, or learned from
\* it now, and what it has moved on from is in memory for a save.
LEMMA LearnedStep == ASSUME SInv, Next, IInv' PROVE Learned'
<1> SUFFICES ASSUME ~twoPipes', ~stolen', NEW t \in Threads, HasProcessed(t)',
                    NEW k \in Lines(t)'
             PROVE  Covered(k)' \/ (job'[t].at = "mark" /\ k \in mem')
  BY DEF Learned
<1>1. ~twoPipes /\ ~stolen
  BY Monotone
<1>2. ~Kill
  BY DEF Kill, HasProcessed, Free
<1>3. Keeps /\ k \in Int
  <2>1. job'[t] \in Jobs
    BY DEF IInv, Typed
  <2>2. k \in Int
    BY <2>1 DEF Lines, Jobs
  <2> QED
    BY <1>1, <1>2, <2>2, StepKeeps
<1>4. CASE /\ HasProcessed(t) /\ Lines(t)' = Lines(t)
           /\ job[t].at = "mark" => job'[t].at = "mark"
  <2>1. Covered(k) \/ (job[t].at = "mark" /\ k \in mem)
    BY <1>1, <1>4 DEF SInv, Learned
  <2> QED
    BY <1>3, <1>4, <2>1 DEF Keeps
<1>5. CASE job'[t] = job[t]
  BY <1>4, <1>5 DEF HasProcessed, Lines
<1>6. CASE Learn(t)
  <2>1. PICK where \in {"mark", "store"} : Moves(t, where)
    BY <1>6 DEF Learn
  <2>2. Lines(t)' = Lines(t) /\ job'[t].at = "mark" /\ job[t].step = "pipeline"
    BY <2>1, Moving DEF HasProcessed, SInv
  <2>3. k \in mem'
    BY <1>6, <2>2 DEF Learn, Inserting
  <2> QED
    BY <2>2, <2>3
<1>7. CASE Mark(t)
  <2>1. Lines(t)' = Lines(t) /\ HasProcessed(t)
    <3>1. \E where : Moves(t, where)
      BY <1>7 DEF Mark
    <3>2. job'[t].step = job[t].step /\ Lines(t)' = Lines(t) /\ job[t].at = "mark"
      BY <1>7, <3>1, Moving DEF SInv, Mark
    <3> QED
      BY <3>2 DEF HasProcessed
  <2>2. k \in mem \/ Covered(k)
    BY <1>1, <2>1 DEF SInv, Learned
  <2>3. t \in Savers /\ mem' = mem /\ (dirty' \/ sv' = [sv EXCEPT ![t].at = "wait"])
    BY <1>7, Threadlike DEF Mark
  <2>4. dirty' \/ sv'[t].at = "wait"
    BY <2>3 DEF SInv, IInv, Typed, Saves
  <2>5. k \in mem => WillBeWritten(k)'
    BY <2>3, <2>4 DEF WillBeWritten
  <2> QED
    BY <1>3, <2>2, <2>5 DEF Keeps, Covered, Safe
<1>8. CASE SaveStep(t)
  <2>1. job[t].at = "save"
    BY <1>8, SaveTypes, Threadlike DEF SInv, IInv, JobShape
  <2>2. job' = job \/ \E where : Moves(t, where)
    BY <1>8, SaveMoves, Threadlike
  <2>3. CASE \E where : Moves(t, where)
    <3>1. job'[t].step = job[t].step /\ Lines(t)' = Lines(t)
      BY <2>3, Moving DEF SInv
    <3> QED
      BY <1>4, <2>1, <3>1 DEF HasProcessed
  <2> QED
    BY <1>5, <2>2, <2>3
<1>9. ASSUME ReadBatch(t) \/ ReadAtOffset(t) \/ PatternsFail(t) \/ Consume(t) \/ ResetOffset(t)
             \/ StoreOffset(t) \/ CursorFails(t) \/ Abandoned(t)
      PROVE  FALSE
  <2>1. ASSUME NEW where \in {"done", "reset"}, Moves(t, where) PROVE FALSE
    BY <2>1, Moving DEF HasProcessed, SInv
  <2>2. CASE PatternsFail(t) \/ Consume(t) \/ ResetOffset(t) \/ StoreOffset(t) \/ CursorFails(t)
    BY <2>1, <2>2 DEF PatternsFail, AfterFailure, Consume, ResetOffset, StoreOffset, CursorFails
  <2>3. CASE Abandoned(t)
    BY <2>3 DEF Abandoned, Free, HasProcessed, SInv, IInv, Typed
  <2>4. CASE ReadBatch(t) \/ ReadAtOffset(t)
    <3>1. job[t] \in Jobs /\ job \in [Threads -> Jobs]
      BY DEF SInv, IInv, Typed
    <3>2. job'[t].at \in {"done", "work"}
      BY <2>4, <3>1 DEF ReadBatch, ReadAtOffset, Jobs
    <3> QED
      BY <3>2 DEF HasProcessed
  <2> QED
    BY <1>9, <2>2, <2>3, <2>4
<1>10. CASE MainStep
  <2>1. job'[t] = job[t] \/ job'[t].at \in {"none", "read", "work", "done"}
    BY <1>10, MainMoves DEF SInv
  <2> QED
    BY <1>5, <2>1 DEF HasProcessed
<1>11. CASE Arrive \/ OtherLeaves \/ StealLock
  BY <1>5, <1>11 DEF Arrive, OtherLeaves, StealLock
<1>12. CASE JobStep(t)
  BY <1>6, <1>7, <1>8, <1>9, <1>12 DEF JobStep
<1>13. ASSUME NEW u \in Threads, JobStep(u), u # t PROVE job'[t] = job[t]
  BY <1>13, Elsewhere DEF SInv
<1> QED
  BY <1>2, <1>5, <1>10, <1>11, <1>12, <1>13 DEF Next

\* The head only moves when a batch is consumed.
LEMMA HeadMoves == ASSUME Next PROVE head' = head \/ \E t \in Threads : Consume(t)
<1>1. CASE MainStep /\ ~SaveStep(Main)
  BY <1>1 DEF MainStep, Proceed, EndBatch, Inline, Submit, Dequeue, Returned, TimesOutQueued,
     TimesOutRunning, queueVars
<1>2. ASSUME NEW a \in Savers, SaveStep(a) PROVE head' = head
  BY <1>2 DEF SaveStep, TakeLock, GiveUp, MergeFails, Merge, Write, WriteFails, Unwritten, queueVars
<1>3. ASSUME NEW t \in Threads, JobStep(t), ~SaveStep(t), ~Consume(t) PROVE head' = head
  BY <1>3 DEF JobStep, ReadBatch, ReadAtOffset, Learn, PatternsFail, Mark, ResetOffset,
     StoreOffset, CursorFails, Abandoned, queueVars
<1>4. CASE Arrive \/ Kill \/ OtherLeaves \/ StealLock
  BY <1>4 DEF Arrive, Kill, OtherLeaves, StealLock, queueVars
<1> QED
  BY <1>1, <1>2, <1>3, <1>4, Threadlike DEF Next

LEMMA ConsumedStep == ASSUME SInv, Next PROVE ConsumedIsSaved'
<1> SUFFICES ASSUME ~twoPipes', ~stolen', NEW k \in 1..head', k \notin lost' \cup unsaved'
             PROVE  Safe(k)'
  BY DEF ConsumedIsSaved, Safe
<1>1. CASE Kill
  BY <1>1 DEF Kill, queueVars, Safe
<1>2. CASE ~Kill
  <2>1. ~twoPipes /\ ~stolen /\ lost' = lost
    BY <1>2, Monotone
  <2>2. Keeps /\ k \in Int
    BY <1>2, <2>1, StepKeeps DEF SInv, IInv, Typed
  <2>3. k \in 1..head => Covered(k)
    BY <2>1 DEF SInv, ConsumedIsSaved, Covered, Safe
  <2>4. CASE head' = head
    BY <2>2, <2>3, <2>4 DEF Keeps, Covered
  <2>5. ASSUME NEW t \in Threads, Consume(t), k \notin 1..head PROVE Covered(k)
    <3>1. job[t].at = "consume" /\ job[t].step = "pipeline" /\ job[t].lo = head
      BY <2>1, <2>5 DEF Consume, SInv, IInv, JobShape, OnePipe, HasBatch
    <3>2. k \in Lines(t)
      BY <2>5, <3>1 DEF Consume, Consumed, Smaller, Lines, SInv, IInv, Typed, Jobs
    <3> QED
      BY <2>1, <3>1, <3>2 DEF SInv, Learned, HasProcessed
  <2> QED
    BY <2>2, <2>3, <2>4, <2>5, HeadMoves DEF Keeps, Covered
<1> QED
  BY <1>1, <1>2

LEMMA StepSInv == SInv /\ [Next]_vars => SInv'
<1>1. ASSUME SInv, Next PROVE SInv'
  <2>1. IInv'
    BY <1>1, StepIInv DEF SInv
  <2> QED
    BY <1>1, <2>1, MainSavesStep, ExclusiveStep, LearnedStep, ConsumedStep DEF SInv
<1>2. ASSUME SInv, UNCHANGED vars PROVE SInv'
  <2>1. IInv'
    BY <1>2, StepIInv DEF SInv
  <2>2. MainSaves' /\ Exclusive' /\ ConsumedIsSaved'
    BY <1>2 DEF SInv, MainSaves, Exclusive, ConsumedIsSaved, WillBeWritten, vars, mainVars, learner,
       queueVars, history
  <2>3. Learned'
    BY <1>2 DEF SInv, Learned, HasProcessed, Lines, Covered, Safe, WillBeWritten, vars, learner,
       history
  <2> QED
    BY <2>1, <2>2, <2>3 DEF SInv
<1> QED
  BY <1>1, <1>2

\* What was learned from a consumed event is in the file or will be
\* (bridge_cycle.py:674), for any pool, any steps that overrun their timeout and
\* any locks that others hold or leave: but for what a killed worker took with
\* it, and what a failed save forgot.
THEOREM ConsumedSafe == Spec => []ConsumedIsSaved
<1>1. SInv => ConsumedIsSaved
  BY DEF SInv
<1> QED
  BY <1>1, InitSInv, StepSInv, PTL DEF Spec

-----------------------------------------------------------------------------
(* The types, in full.  To the types above come the bounds, and that what  *)
(* a thread holds of the queue lies within it.                             *)

\* The words of the script.
Words == Steps \cup {"sleep", "begin_batch", "flush", "inline", "end_batch"}

LEMMA Longer ==
  ASSUME NEW x \in Seq(Words), Len(x) >= 2, NEW y \in Seq(Words)
  PROVE  x \o y \in Seq(Words) /\ Len(x \o y) >= 2
<1>1. x \o y \in Seq(Words) /\ Len(x \o y) = Len(x) + Len(y) /\ Len(x) \in Nat /\ Len(y) \in Nat
  OBVIOUS
<1> QED
  BY <1>1

LEMMA Concatenates == ASSUME NEW x \in Seq(Words), NEW y \in Seq(Words) PROVE x \o y \in Seq(Words)
  OBVIOUS

LEMMA PooledWords == ASSUME NEW s PROVE Pooled(s) \in Seq(Words)
<1>1. ASSUME s \in Words PROVE <<s>> \in Seq(Words)
  BY <1>1
<1>2. <<>> \in Seq(Words)
  OBVIOUS
<1> QED
  BY <1>1, <1>2 DEF Pooled, Words

LEMMA ScriptShape == Len(Script) \in Nat /\ Len(Script) >= 2
<1>1. Perception \in Seq(Words) /\ Learning \in Seq(Words) /\ Upkeep \in Seq(Words)
  BY PooledWords, Concatenates DEF Perception, Learning, Upkeep
<1>2. /\ <<"flush">> \in Seq(Words) /\ <<"inline">> \in Seq(Words) /\ <<"end_batch">> \in Seq(Words)
      /\ <<"sleep", "begin_batch">> \in Seq(Words) /\ Len(<<"sleep", "begin_batch">>) >= 2
  BY DEF Words
<1>3. Script \in Seq(Words) /\ Len(Script) >= 2
  BY <1>1, <1>2, Longer DEF Script
<1> QED
  BY <1>3

LEMMA Continues ==
  ASSUME pc \in 1..Len(Script), Continue
  PROVE  pc' \in 1..Len(Script) /\ ph' = "go" /\ mine' = NoOne
  BY ScriptShape DEF Continue

MainIn == /\ pc \in 1..Len(Script) /\ ph \in {"go", "wait", "save"}
          /\ mine \in Threads \cup {NoOne} /\ noMetrics \in BOOLEAN
LearnerIn == /\ dirty \in BOOLEAN /\ defer \in BOOLEAN /\ lock \in Savers \cup {NoOne, Left}
             /\ mem \subseteq Insights /\ disk \subseteq Insights
             /\ \A a \in Savers : sv[a].keys \subseteq Insights
             /\ unsaved \subseteq Insights /\ stolen \in BOOLEAN
BatchesIn == \A t \in Threads : /\ job[t].base + job[t].n <= tail
                                /\ job[t].at = "read" => job[t].base = 0
EventsIn == /\ \A r \in Readers : offs[r] <= MaxEvents /\ seen[r] \subseteq 1..tail
            /\ processed \subseteq 1..tail /\ lost \subseteq 1..head
BoundsIn == overruns \in 0..MaxTroubles /\ troubles \in 0..MaxTroubles

TInv == IInv /\ MainIn /\ LearnerIn /\ BatchesIn /\ EventsIn /\ BoundsIn

LEMMA TInvTypes == TInv => TypeOK
<1> SUFFICES ASSUME TInv PROVE TypeOK
  OBVIOUS
<1>1. job \in [Threads -> [step : Steps \cup {"none"},
                           at : {"none", "read", "work", "mark", "save", "consume", "reset", "store", "done"},
                           lo : 0..MaxEvents, n : 0..MaxEvents, base : 0..MaxEvents]]
  <2>1. ASSUME NEW t \in Threads
        PROVE  /\ job[t] \in Jobs
               /\ job[t].lo \in 0..MaxEvents /\ job[t].n \in 0..MaxEvents /\ job[t].base \in 0..MaxEvents
    <3>1. job[t] \in Jobs /\ job[t].lo + job[t].n <= tail /\ job[t].base + job[t].n <= tail
      BY DEF TInv, IInv, Typed, JobShape, BatchesIn
    <3>2. tail \in Nat /\ tail <= MaxEvents
      BY Constants DEF TInv, IInv, Typed
    <3> QED
      BY <3>1, <3>2, Constants DEF Jobs
  <2> QED
    BY <2>1 DEF Jobs, TInv, IInv, Typed
<1>2. sv \in [Savers -> [at : {"no", "wait", "merge", "write"}, keys : SUBSET Insights]]
  BY DEF Saves, TInv, IInv, Typed, LearnerIn
<1>3. offs \in [Readers -> 0..MaxEvents] /\ seen \in [Readers -> SUBSET (1..tail)]
  BY Constants DEF TInv, IInv, Typed, EventsIn
<1> QED
  BY <1>1, <1>2, <1>3 DEF TypeOK, TInv, IInv, Typed, MainIn, LearnerIn, EventsIn, BoundsIn

LEMMA InitTInv == Init => TInv
<1> SUFFICES ASSUME Init PROVE TInv
  OBVIOUS
<1>1. MainIn
  BY ScriptShape DEF Init, MainIn
<1>2. LearnerIn
  BY DEF Init, LearnerIn, NoSave
<1>3. BatchesIn
  BY DEF Init, BatchesIn, Free
<1>4. EventsIn /\ BoundsIn
  BY CycleAssumption DEF Init, EventsIn, BoundsIn, CycleAssumption
<1> QED
  BY <1>1, <1>2, <1>3, <1>4, InitIInv DEF TInv

LEMMA MainInStep == ASSUME TInv, Next PROVE MainIn'
<1>1. ASSUME Continue, noMetrics' \in BOOLEAN PROVE MainIn'
  BY <1>1, Continues DEF TInv, MainIn
<1>2. ASSUME UNCHANGED pc, ph' \in {"go", "wait", "save"}, mine' \in Threads \cup {mine},
             noMetrics' \in BOOLEAN
      PROVE  MainIn'
  BY <1>2 DEF TInv, MainIn
<1>3. noMetrics' \in BOOLEAN
  <2>1. ASSUME NEW a \in Savers, SaveStep(a) PROVE noMetrics' = noMetrics
    <3>1. CASE TakeLock(a) \/ Merge(a)
      BY <3>1 DEF TakeLock, Merge, mainVars
    <3>2. CASE \E ok \in BOOLEAN : Resumes(a, ok)
      BY <3>2 DEF Resumes, mainVars
    <3> QED
      BY <2>1, <3>1, <3>2 DEF SaveStep, GiveUp, MergeFails, Write, WriteFails
  <2>2. CASE Submit \/ Dequeue
    BY <2>2 DEF Submit, Dequeue, TInv, MainIn
  <2>3. CASE Proceed \/ EndBatch \/ Inline \/ Returned \/ TimesOutQueued \/ TimesOutRunning
             \/ Arrive \/ Kill \/ OtherLeaves \/ StealLock
    BY <2>3 DEF Proceed, EndBatch, Inline, Returned, TimesOutQueued, TimesOutRunning, Arrive, Kill,
       OtherLeaves, StealLock, mainVars, TInv, MainIn
  <2>4. ASSUME NEW t \in Threads, JobStep(t), ~SaveStep(t) PROVE noMetrics' = noMetrics
    BY <2>4 DEF JobStep, ReadBatch, ReadAtOffset, Learn, PatternsFail, Mark, Consume, ResetOffset,
       StoreOffset, CursorFails, Abandoned, mainVars
  <2> QED
    BY <2>1, <2>2, <2>3, <2>4, Threadlike DEF Next, MainStep, TInv, MainIn
<1>4. CASE Proceed \/ EndBatch \/ Inline \/ Submit \/ Dequeue \/ Returned \/ TimesOutQueued
           \/ TimesOutRunning
  BY <1>1, <1>2, <1>3, <1>4 DEF Proceed, EndBatch, Inline, LearnedInMain, Submit, Dequeue,
     Returned, TimesOutQueued, TimesOutRunning, IdleThreads, TInv, MainIn
<1>5. ASSUME NEW a \in Savers, SaveStep(a) PROVE MainIn'
  <2>1. CASE TakeLock(a) \/ Merge(a)
    BY <2>1 DEF TakeLock, Merge, mainVars, TInv, MainIn
  <2>2. CASE \E ok \in BOOLEAN : Resumes(a, ok)
    <3>1. Continue \/ UNCHANGED mainVars
      BY <2>2 DEF Resumes
    <3>2. noMetrics' = noMetrics
      BY <2>2 DEF Resumes, mainVars
    <3>3. CASE Continue
      BY <1>1, <3>2, <3>3 DEF TInv, MainIn
    <3>4. CASE UNCHANGED mainVars
      BY <3>4 DEF mainVars, TInv, MainIn
    <3> QED
      BY <3>1, <3>3, <3>4
  <2> QED
    BY <1>5, <2>1, <2>2 DEF SaveStep, GiveUp, MergeFails, Write, WriteFails
<1>6. CASE Arrive \/ OtherLeaves \/ StealLock \/ \E t \in Threads : JobStep(t) /\ ~SaveStep(t)
  BY <1>2, <1>6 DEF OtherLeaves, StealLock, JobStep, ReadBatch, ReadAtOffset, Learn, PatternsFail,
     Mark, Consume, ResetOffset, StoreOffset, CursorFails, Abandoned, Arrive, mainVars, TInv, MainIn
<1>7. CASE Kill
  BY <1>3, <1>7, ScriptShape DEF Kill, MainIn
<1> QED
  BY <1>4, <1>5, <1>6, <1>7, Threadlike DEF Next, MainStep, JobStep

LEMMA LearnerInStep == ASSUME TInv, Next PROVE LearnerIn'
<1>1. ASSUME NEW a \in Savers, SaveStep(a) PROVE LearnerIn'
  <2>1. mem' \subseteq Insights /\ disk' \subseteq Insights /\ dirty' \in BOOLEAN
        /\ defer' \in BOOLEAN /\ lock' \in Savers \cup {NoOne, Left}
    <3>1. CASE TakeLock(a) \/ Merge(a)
      BY <3>1 DEF TakeLock, Merge, TInv, LearnerIn
    <3>2. CASE GiveUp(a) \/ MergeFails(a) \/ Write(a) \/ WriteFails(a)
      <4>1. \E ok \in BOOLEAN : Resumes(a, ok)
        BY <3>2 DEF GiveUp, MergeFails, Write, WriteFails
      <4>2. defer' \in {TRUE, FALSE, defer}
        BY <4>1 DEF Resumes
      <4>3. mem' = mem /\ disk' \in {disk, sv[a].keys} /\ lock' \in {lock, NoOne}
            /\ dirty' \in {dirty, TRUE}
        BY <3>2 DEF GiveUp, MergeFails, Write, WriteFails, Unwritten
      <4> QED
        BY <4>2, <4>3 DEF TInv, LearnerIn
    <3> QED
      BY <1>1, <3>1, <3>2 DEF SaveStep
  <2>2. \A b \in Savers \ {a} : sv'[b] = sv[b]
    BY <1>1, SaveTypes DEF TInv
  <2>3. sv'[a].keys = {} \/ sv'[a].keys = mem \/ sv'[a].keys = mem'
    <3>1. CASE TakeLock(a) \/ Merge(a)
      BY <3>1 DEF TakeLock, Merge, TInv, IInv, Typed
    <3>2. CASE GiveUp(a) \/ MergeFails(a) \/ Write(a) \/ WriteFails(a)
      <4>1. sv' = [sv EXCEPT ![a] = NoSave]
        BY <3>2 DEF GiveUp, MergeFails, Write, WriteFails, Unwritten
      <4> QED
        BY <4>1 DEF NoSave, TInv, IInv, Typed
    <3> QED
      BY <1>1, <3>1, <3>2 DEF SaveStep
  <2>4. unsaved' \subseteq Insights /\ stolen' = stolen
    <3>1. \/ unsaved' = unsaved /\ stolen' = stolen
          \/ unsaved' = unsaved \cup (sv[a].keys \ disk) /\ stolen' = stolen
          \/ unsaved' = unsaved \cup (mem \ mem') /\ stolen' = stolen
          \/ unsaved' = unsaved \ sv[a].keys /\ stolen' = stolen
      BY <1>1 DEF SaveStep, TakeLock, GiveUp, MergeFails, Merge, Write, WriteFails, Unwritten, history
    <3> QED
      BY <3>1 DEF TInv, LearnerIn
  <2> QED
    BY <2>1, <2>2, <2>3, <2>4 DEF TInv, LearnerIn
<1>2. ASSUME UNCHANGED <<disk, lock, unsaved, stolen>>, dirty' \in BOOLEAN, defer' \in BOOLEAN,
             mem' \subseteq Insights,
             UNCHANGED sv \/ \E a \in Savers : sv' = [sv EXCEPT ![a].at = "wait"]
      PROVE  LearnerIn'
  <2>1. \A a \in Savers : sv'[a].keys = sv[a].keys
    BY <1>2 DEF Saves, TInv, IInv, Typed
  <2> QED
    BY <1>2, <2>1 DEF TInv, LearnerIn
<1>3. CASE Proceed \/ EndBatch \/ Inline
  <2>1. mem' \subseteq Insights
    BY <1>3, Constants DEF Proceed, EndBatch, Inline, Insights, FromMain, TInv, LearnerIn
  <2> QED
    BY <1>2, <1>3, <2>1, Threadlike DEF Proceed, EndBatch, Inline, LearnedInMain, history, TInv,
       LearnerIn
<1>4. ASSUME NEW t \in Threads, Learn(t) PROVE LearnerIn'
  <2>1. Lines(t) \subseteq Insights
    BY Constants DEF Lines, Insights, FromMain, Jobs, TInv, IInv, Typed, JobShape
  <2>2. {FromStep} \subseteq Insights
    BY Constants DEF FromStep, FromMain, Insights
  <2>3. \E new \in {{}, {FromStep}, Lines(t)} : mem' = mem \cup new
    BY <1>4 DEF Learn
  <2>4. mem' \subseteq Insights
    BY <2>1, <2>2, <2>3 DEF TInv, LearnerIn
  <2> QED
    BY <1>2, <1>4, <2>4 DEF Learn, TInv, LearnerIn
<1>5. ASSUME NEW t \in Threads, Mark(t) PROVE LearnerIn'
  BY <1>2, <1>5, Threadlike DEF Mark, history, TInv, LearnerIn
<1>6. CASE Kill
  BY <1>6 DEF Kill, NoSave, TInv, LearnerIn
<1>7. ASSUME UNCHANGED <<learner, unsaved, stolen>> PROVE LearnerIn'
  BY <1>7 DEF learner, TInv, LearnerIn
<1>8. CASE Submit \/ Dequeue \/ Returned \/ TimesOutQueued \/ TimesOutRunning \/ Arrive
  BY <1>7, <1>8 DEF Submit, Dequeue, Returned, TimesOutQueued, TimesOutRunning, Arrive, history
<1>9. ASSUME NEW t \in Threads, JobStep(t) PROVE LearnerIn'
  <2>1. CASE ReadBatch(t) \/ ReadAtOffset(t) \/ PatternsFail(t) \/ Consume(t) \/ ResetOffset(t)
             \/ StoreOffset(t) \/ CursorFails(t) \/ Abandoned(t)
    BY <1>7, <2>1 DEF ReadBatch, ReadAtOffset, PatternsFail, Consume, ResetOffset, StoreOffset,
       CursorFails, Abandoned, history
  <2> QED
    BY <1>1, <1>4, <1>5, <1>9, <2>1, Threadlike DEF JobStep
<1>10. CASE OtherLeaves \/ StealLock
  BY <1>10 DEF OtherLeaves, StealLock, TInv, LearnerIn
<1> QED
  BY <1>1, <1>3, <1>6, <1>8, <1>9, <1>10, Threadlike DEF Next, MainStep

\* The queue's counters only grow.
LEMMA CursorsGrow ==
  ASSUME TInv, Next
  PROVE  /\ head \in Nat /\ tail \in Nat /\ head' \in Nat /\ tail' \in Nat
         /\ tail <= tail' /\ head <= head'
<1>1. IInv'
  BY StepIInv DEF TInv
<1>2. tail' = tail \/ tail' = tail + 1
  <2>1. ASSUME NEW a \in Savers, SaveStep(a) PROVE tail' = tail
    BY <2>1, SaveTypes DEF TInv, cursors
  <2>2. CASE Submit \/ Dequeue
    BY <2>2 DEF Submit, Dequeue, queueVars
  <2>3. CASE Proceed \/ EndBatch \/ Inline \/ Returned \/ TimesOutQueued \/ TimesOutRunning
             \/ Arrive \/ Kill \/ OtherLeaves \/ StealLock
    BY <2>3 DEF Proceed, EndBatch, Inline, Returned, TimesOutQueued, TimesOutRunning, Arrive, Kill,
       OtherLeaves, StealLock, queueVars
  <2>4. ASSUME NEW t \in Threads, JobStep(t), ~SaveStep(t) PROVE tail' = tail
    BY <2>4 DEF JobStep, ReadBatch, ReadAtOffset, Learn, PatternsFail, Mark, Consume, ResetOffset,
       StoreOffset, CursorFails, Abandoned, queueVars
  <2> QED
    BY <2>1, <2>2, <2>3, <2>4, Threadlike DEF Next, MainStep
<1>3. head' = head \/ \E t \in Threads : Consume(t)
  BY HeadMoves
<1>4. ASSUME NEW t \in Threads, Consume(t) PROVE head <= head'
  BY <1>4 DEF Consume, Consumed, Smaller, Jobs, TInv, IInv, Typed
<1> QED
  BY <1>1, <1>2, <1>3, <1>4, Constants DEF TInv, IInv, Typed

LEMMA BatchesInStep == ASSUME TInv, Next PROVE BatchesIn'
<1> DEFINE in(t) == job[t].base + job[t].n <= tail /\ (job[t].at = "read" => job[t].base = 0)
<1>0. tail \in Nat /\ tail' \in Nat /\ tail <= tail'
  BY CursorsGrow
<1>1. ASSUME NEW t \in Threads, job'[t].base = job[t].base, job'[t].n = job[t].n,
             job'[t].at # "read" \/ job[t].at = "read"
      PROVE  in(t)'
  BY <1>0, <1>1 DEF TInv, IInv, Typed, Jobs, BatchesIn
<1>2. ASSUME NEW t \in Threads, job'[t].base = 0, job'[t].n = 0 PROVE in(t)'
  BY <1>0, <1>2
<1>3. ASSUME NEW t \in Threads, NEW j, job' = [job EXCEPT ![t] = j], in(t)' PROVE BatchesIn'
  <2>1. ASSUME NEW u \in Threads \ {t} PROVE in(u)'
    <3>1. job'[u] = job[u]
      BY <1>3 DEF TInv, IInv, Typed
    <3> QED
      BY <1>1, <3>1
  <2> QED
    BY <1>3, <2>1 DEF BatchesIn
<1>4. ASSUME UNCHANGED job PROVE BatchesIn'
  BY <1>1, <1>4 DEF BatchesIn
<1>5. ASSUME NEW t \in Threads, job' = [job EXCEPT ![t] = Free] PROVE BatchesIn'
  BY <1>2, <1>3, <1>5 DEF Free, TInv, IInv, Typed
<1>6. ASSUME NEW t \in Threads, NEW s, Starts(t, s) PROVE BatchesIn'
  <2>1. job'[t].base = 0 /\ job'[t].n = 0
    BY <1>6 DEF Starts, Free, TInv, IInv, Typed
  <2> QED
    BY <1>2, <1>3, <1>6, <2>1 DEF Starts
<1>7. ASSUME NEW t \in Threads, NEW where \in {"work", "mark", "save", "consume", "reset", "store", "done"},
             Moves(t, where)
      PROVE  BatchesIn'
  <2>1. job'[t].base = job[t].base /\ job'[t].n = job[t].n /\ job'[t].at = where
    BY <1>7 DEF Moves, Jobs, TInv, IInv, Typed
  <2> QED
    BY <1>1, <1>3, <1>7, <2>1 DEF Moves
<1>8. CASE Submit \/ Dequeue
  BY <1>4, <1>6, <1>8 DEF Submit, Dequeue, IdleThreads
<1>9. CASE Returned
  <2>1. mine \in Threads \/ job' = job
    BY <1>9 DEF Returned, TInv, MainIn, IInv, Typed
  <2> QED
    BY <1>4, <1>5, <1>9, <2>1 DEF Returned
<1>10. CASE Proceed \/ EndBatch \/ Inline \/ TimesOutQueued \/ TimesOutRunning \/ Arrive
            \/ OtherLeaves \/ StealLock
  BY <1>4, <1>10 DEF Proceed, EndBatch, Inline, TimesOutQueued, TimesOutRunning, Arrive,
     OtherLeaves, StealLock
<1>11. ASSUME NEW a \in Savers, SaveStep(a) PROVE BatchesIn'
  <2>1. CASE TakeLock(a) \/ Merge(a)
    BY <1>4, <2>1 DEF TakeLock, Merge
  <2>2. CASE GiveUp(a) \/ MergeFails(a) \/ Write(a) \/ WriteFails(a)
    <3>1. \E ok \in BOOLEAN : Resumes(a, ok)
      BY <2>2 DEF GiveUp, MergeFails, Write, WriteFails
    <3>2. CASE a = Main
      BY <1>4, <3>1, <3>2 DEF Resumes
    <3>3. CASE a # Main
      BY <1>7, <3>1, <3>3, AfterPlaces DEF Resumes, Savers
    <3> QED
      BY <3>2, <3>3
  <2> QED
    BY <1>11, <2>1, <2>2 DEF SaveStep
<1>12. ASSUME NEW t \in Threads, ReadBatch(t) PROVE BatchesIn'
  <2> DEFINE n == Smaller(Batch, Active)
             at == IF Active = 0 THEN "done" ELSE "work"
             j == [job[t] EXCEPT !.lo = head, !.n = n, !.at = at]
  <2>1. /\ n \in Nat /\ n <= tail /\ at # "read" /\ job[t] \in Jobs /\ job[t].base = 0
        /\ job' = [job EXCEPT ![t] = j]
    BY <1>12, Constants DEF ReadBatch, Smaller, Active, TInv, IInv, Typed, BatchesIn
  <2> HIDE DEF n, at
  <2>2. j.n = n /\ j.base = 0 /\ j.at = at
    BY <2>1 DEF Jobs
  <2> HIDE DEF j
  <2>3. job'[t] = j
    BY <2>1 DEF TInv, IInv, Typed
  <2>4. in(t)'
    BY <1>0, <2>1, <2>2, <2>3
  <2> QED
    BY <1>3, <2>1, <2>4
<1>13. ASSUME NEW t \in Threads, ReadAtOffset(t) PROVE BatchesIn'
  <2> DEFINE base == Offset(job[t].step)
             n == Smaller(Limit, Active - base)
             at == IF n = 0 THEN "done" ELSE "work"
             j == [job[t] EXCEPT !.lo = head + base, !.base = base, !.n = n, !.at = at]
  <2>1. base \in Nat /\ base <= Active
    BY <1>13, Constants DEF ReadAtOffset, Offset, Active, Larger, TInv, IInv, Typed
  <2>2. n \in Nat /\ base + n <= tail /\ head + base \in Nat
    <3> HIDE DEF base
    <3> QED
      BY <2>1, Constants DEF Smaller, Active, TInv, IInv, Typed
  <2>3. at \in {"done", "work"} /\ job[t] \in Jobs /\ job' = [job EXCEPT ![t] = j]
    BY <1>13 DEF ReadAtOffset, TInv, IInv, Typed
  <2> HIDE DEF base, n, at
  <2>4. j.n = n /\ j.base = base /\ j.at = at
    BY <2>1, <2>2, <2>3, RecordRead DEF Jobs
  <2> HIDE DEF j
  <2>5. job'[t] = j
    BY <2>3 DEF TInv, IInv, Typed
  <2>6. in(t)'
    BY <1>0, <2>1, <2>2, <2>3, <2>4, <2>5
  <2> QED
    BY <1>3, <2>3, <2>6
<1>14. ASSUME NEW t \in Threads, JobStep(t) PROVE BatchesIn'
  <2>1. CASE Learn(t) \/ PatternsFail(t) \/ Mark(t) \/ Consume(t) \/ ResetOffset(t)
             \/ StoreOffset(t) \/ CursorFails(t)
    BY <1>7, <2>1, AfterPlaces DEF Learn, PatternsFail, AfterFailure, Mark, Consume, ResetOffset,
       StoreOffset, CursorFails
  <2>2. CASE Abandoned(t)
    BY <1>5, <2>2 DEF Abandoned
  <2> QED
    BY <1>11, <1>12, <1>13, <1>14, <2>1, <2>2, Threadlike DEF JobStep
<1>15. CASE Kill
  BY <1>2, <1>15 DEF Kill, Free, BatchesIn
<1> QED
  BY <1>8, <1>9, <1>10, <1>11, <1>14, <1>15, Threadlike DEF Next, MainStep

LEMMA EventsInStep == ASSUME TInv, Next PROVE EventsIn'
<1>0. /\ head \in Nat /\ tail \in Nat /\ head' \in Nat /\ tail' \in Nat
      /\ tail <= tail' /\ head <= head'
  BY CursorsGrow
<1>1. ASSUME \A r \in Readers : offs'[r] <= MaxEvents /\ seen'[r] \subseteq 1..tail',
             processed' \subseteq 1..tail', lost' \subseteq 1..head'
      PROVE  EventsIn'
  BY <1>1 DEF EventsIn
<1>2. \A S : (S \subseteq 1..tail => S \subseteq 1..tail') /\ (S \subseteq 1..head => S \subseteq 1..head')
  <2>1. 1..tail \subseteq 1..tail' /\ 1..head \subseteq 1..head'
    BY <1>0
  <2> QED
    BY <2>1
<1>3. ASSUME UNCHANGED <<offs, processed, seen, lost>> PROVE EventsIn'
  BY <1>1, <1>2, <1>3 DEF TInv, EventsIn
<1>4. CASE MainStep
  BY <1>3, <1>4 DEF MainStep, SaveStep, Proceed, EndBatch, Inline, Submit, Dequeue, Returned,
     TimesOutQueued, TimesOutRunning, TakeLock, GiveUp, MergeFails, Merge, Write, WriteFails,
     Unwritten, queueVars, history
<1>5. CASE Arrive \/ OtherLeaves \/ StealLock
  BY <1>3, <1>5 DEF Arrive, OtherLeaves, StealLock, queueVars, history
<1>6. CASE Kill
  <2>1. UNCHANGED <<offs, processed, seen>> /\ lost' \subseteq 1..head
    BY <1>6 DEF Kill, queueVars, TInv, EventsIn
  <2> QED
    BY <1>1, <1>2, <2>1 DEF TInv, EventsIn
<1>7. ASSUME NEW t \in Threads, JobStep(t) PROVE EventsIn'
  <2>1. CASE ReadBatch(t) \/ PatternsFail(t) \/ Mark(t) \/ Consume(t) \/ CursorFails(t)
             \/ Abandoned(t) \/ SaveStep(t)
    BY <1>3, <2>1 DEF ReadBatch, PatternsFail, Mark, Consume, CursorFails, Abandoned, Unwritten,
       SaveStep, TakeLock, GiveUp,
       MergeFails, Merge, Write, WriteFails, queueVars, history
  <2>2. ASSUME UNCHANGED <<processed, seen, lost>>, \A r \in Readers : offs'[r] \in 0..MaxEvents
        PROVE  EventsIn'
    <3>1. \A r \in Readers : offs'[r] <= MaxEvents
      BY <2>2, Constants
    <3> QED
      BY <1>1, <1>2, <2>2, <3>1 DEF TInv, EventsIn
  <2>3. \A r \in Readers : offs[r] \in 0..MaxEvents
    BY Constants DEF TInv, IInv, Typed, EventsIn
  <2>4. CASE ReadAtOffset(t)
    <3>1. /\ UNCHANGED <<processed, seen, lost>>
          /\ offs' = offs \/ \E r : offs' = [offs EXCEPT ![r] = 0]
      BY <2>4 DEF ReadAtOffset, history
    <3> QED
      BY <2>2, <2>3, <3>1, Constants DEF TInv, IInv, Typed
  <2>5. CASE ResetOffset(t)
    <3>1. UNCHANGED <<processed, seen, lost>> /\ offs' = OffsetAfterConsume
      BY <2>5 DEF ResetOffset
    <3> QED
      BY <2>2, <2>3, <3>1, Constants DEF OffsetAfterConsume, TInv, IInv, Typed
  <2>6. CASE StoreOffset(t)
    <3>1. UNCHANGED <<processed, seen, lost>>
          /\ offs' = [offs EXCEPT ![job[t].step] = job[t].base + job[t].n]
      BY <2>6 DEF StoreOffset, history
    <3>2. job[t].base + job[t].n \in 0..MaxEvents
      BY Constants DEF Jobs, TInv, IInv, Typed, BatchesIn
    <3> QED
      BY <2>2, <2>3, <3>1, <3>2 DEF TInv, IInv, Typed
  <2>7. CASE Learn(t)
    <3>1. UNCHANGED <<offs, lost>>
      BY <2>7 DEF Learn, queueVars
    <3>2. Lines(t) \subseteq 1..tail
      BY DEF Lines, Jobs, TInv, IInv, Typed, JobShape
    <3>3. processed' \subseteq 1..tail
      BY <2>7, <3>2 DEF Learn, TInv, EventsIn
    <3>4. \A r \in Readers : seen'[r] \subseteq seen[r] \cup Lines(t)
      BY <2>7 DEF Learn, TInv, IInv, Typed
    <3>5. \A r \in Readers : seen'[r] \subseteq 1..tail
      BY <3>2, <3>4 DEF TInv, EventsIn
    <3> QED
      BY <1>1, <1>2, <3>1, <3>3, <3>5 DEF TInv, EventsIn
  <2> QED
    BY <1>7, <2>1, <2>4, <2>5, <2>6, <2>7 DEF JobStep
<1> QED
  BY <1>4, <1>5, <1>6, <1>7 DEF Next

LEMMA BoundsInStep == ASSUME TInv, Next PROVE BoundsIn'
<1>1. /\ overruns' = overruns \/ (overruns + troubles < MaxTroubles /\ overruns' = overruns + 1)
      /\ troubles' = troubles \/ (overruns + troubles < MaxTroubles /\ troubles' = troubles + 1)
  <2>1. ASSUME NEW a \in Savers, SaveStep(a)
        PROVE  /\ overruns' = overruns
               /\ troubles' = troubles \/ (overruns + troubles < MaxTroubles /\ troubles' = troubles + 1)
    BY <2>1 DEF SaveStep, TakeLock, GiveUp, MergeFails, Merge, Write, WriteFails, Unwritten, history
  <2>2. CASE Submit \/ Dequeue
    BY <2>2 DEF Submit, Dequeue
  <2>3. CASE Proceed \/ EndBatch \/ Inline \/ Returned \/ TimesOutQueued \/ TimesOutRunning
             \/ Arrive \/ Kill \/ OtherLeaves \/ StealLock
    BY <2>3 DEF Proceed, EndBatch, Inline, Returned, TimesOutQueued, TimesOutRunning, Arrive, Kill,
       OtherLeaves, StealLock, history
  <2>4. ASSUME NEW t \in Threads, JobStep(t), ~SaveStep(t)
        PROVE  /\ overruns' = overruns
               /\ troubles' = troubles \/ (overruns + troubles < MaxTroubles /\ troubles' = troubles + 1)
    BY <2>4 DEF JobStep, ReadBatch, ReadAtOffset, Learn, PatternsFail, Mark, Consume, ResetOffset,
       StoreOffset, CursorFails, Abandoned, history
  <2> QED
    BY <2>1, <2>2, <2>3, <2>4, Threadlike DEF Next, MainStep
<1>2. /\ MaxTroubles \in Nat /\ overruns \in 0..MaxTroubles /\ troubles \in 0..MaxTroubles
  BY CycleAssumption DEF TInv, BoundsIn, CycleAssumption
<1> QED
  BY <1>1, <1>2 DEF BoundsIn

LEMMA StepTInv == TInv /\ [Next]_vars => TInv'
<1> SUFFICES ASSUME TInv, [Next]_vars PROVE TInv'
  OBVIOUS
<1>1. IInv'
  BY StepIInv DEF TInv
<1>2. CASE Next
  BY <1>1, <1>2, MainInStep, LearnerInStep, BatchesInStep, EventsInStep, BoundsInStep DEF TInv
<1>3. CASE UNCHANGED vars
  BY <1>1, <1>3 DEF TInv, MainIn, LearnerIn, BatchesIn, EventsIn, BoundsIn, vars, mainVars, learner,
     queueVars, history
<1> QED
  BY <1>2, <1>3

\* The variables keep their types, whatever the instance: no offset is ever
\* negative or beyond the events there are, and no step runs that the cycle lacks.
THEOREM TypesHold == Spec => []TypeOK
  BY InitTInv, StepTInv, TInvTypes, PTL DEF Spec
=============================================================================
