# Spark Intelligence: verification project

TLA+ models of the parts of Spark Intelligence in which several processes, or
several threads of one, share state: the event queue, the file of cognitive
insights, the cycle of the bridge worker, the supervision of the services, the
episodes of an agent's session, and the advice shown before its tools. TLC
checks the models on small instances; TLAPS proves central invariants for every
value of the constants. Line numbers refer to the files under `src/`.

## 1. The system

Spark watches a coding agent and learns from it. A hook process runs for every
event of the agent; it appends the event to a queue file and exits. A bridge
worker wakes up every 10 to 60 seconds, reads a batch from the queue, extracts
patterns and insights, stores them, promotes the reliable ones into the agent's
context files, and prepares advice that later hooks show. There is no database
server: the processes share files under `~/.spark`, guarded (or not) by lock
files with timeouts.

| Component | State it keeps | Operations | Interacts through |
|---|---|---|---|
| Event queue `lib/queue.py` | `events.jsonl`, `events.overflow.jsonl`, head offset in `state.json`, a lock file for each of the two files | `quick_capture`, `read_events`, `rotate_if_needed`, `consume_processed`, merge of the overflow | called by hooks, sparkd, the pipeline |
| Pipeline `lib/pipeline.py` | `pipeline_state.json`, metrics | `run_processing_cycle` | queue, pattern aggregator, learner |
| Cognitive learner `lib/cognitive_learner.py` | `cognitive_insights.json`, `.cognitive.lock`; in each process the insights, `_dirty`, `_defer_saves` | load, `add_insight` and the `learn_*` methods, promote, demote, purge, dedupe, batch, save | loaded by the bridge worker, hooks, sparkd, command line, promoter |
| Bridge cycle `lib/bridge_cycle.py` | a pool of four step threads | fourteen steps under a soft timeout; one batch of the learner and of Meta-Ralph around them | calls everything else |
| Bridge worker `bridge_worker.py` | single-instance lock, heartbeat | loop, SIGTERM | watchdog reads the heartbeat |
| Watchdog `spark_watchdog.py` | pid file; restart history, failure counters and cooldowns in `watchdog_state.json` | health checks, terminate, restart | sparkd, worker, scheduler, tailer, pulse |
| Service control `lib/service_control.py` | none | `spark up`, `spark down`, status | process table, pid files |
| Daemon `sparkd.py` | rate limiter, lock | HTTP ingest | queue, advisory engine |
| Hooks `hooks/observe.py` | none of their own | capture, predict, EIDOS step, advisory call | queue, EIDOS, advisory |
| EIDOS `lib/eidos/` | rows of episodes and steps in SQLite; the maps of active episodes and active steps, each a JSON file of all sessions | create, evaluate, close, end, budget, watchers | hooks, bridge cycle |
| Meta-Ralph `lib/meta_ralph.py` | roast history, outcomes, batched saves | `roast`, `track_outcome` | pipeline, advisor |
| Advisory `lib/advisory_*.py`, `lib/advisor.py` | a state file per session, packets and their index, log of recent advice, prefetch queue | look up, gate, emit, count, invalidate, prefetch | hooks, sparkd |
| Tuneables `lib/tuneables_reload.py`, `lib/auto_tuner.py` | `tuneables.json`, last mtime, callbacks | reload, tune | every component's configuration |
| Pattern, validation and prediction loops | an offset into the queue each | read on from the offset | queue |
| Mind bridge, ingest adapters | offline queue, file offsets | post, retry | HTTP |
| Chips, memory banks, retrieval, promotion, context sync, observatory, scanners, personality, onboarding, scripts | files of their own | text heuristics and rendering | read the others' files |

`PROJECT.json` lists all of them under `components`, with what is modelled.

### What is hard

* **Interleaving without a transaction.** Every operation of the queue is a
  sequence of file accesses. Hooks, daemon and pipeline run in processes of
  their own, and only some of the accesses are under the lock.
* **Locks that time out.** `_queue_lock` gives up after 0.5 s (0.05 s in the
  first attempt of a capture) and its callers react in three ways: spill, drop,
  or go on without the lock. `_insights_lock` gives up too, and deletes locks
  that are 60 s old.
* **Read, then consume.** The pipeline reads a batch without a lock, works on
  it for seconds and then consumes *as many lines as it read*.
* **Crashes** leave lock files, half-done rewrites, and a head offset that does
  not belong to the file.
* **Copies.** Each process keeps the insights in memory and writes back a merge;
  a merge can bring back what was removed. Every load folds the variants of an
  insight into one whose counts are their sums.
* **Failing files.** A save that cannot write, and a file that is read while
  another process rewrites it in place, are passed over in silence.
* **Soft timeouts.** A bridge step that times out goes on running, beside the
  steps after it and beside the next cycle, and changes what they read.
* **Cursors.** The pattern worker and the validation and prediction loops count
  lines from a head that the pipeline moves.
* **One file, many writers, no lock.** Hooks read a JSON file of all sessions or
  of all packets, change one entry and write everything back, often through one
  `.tmp` that another hook may move away.
* **Pids.** A lock names a pid; after a crash anything may have it. A check and
  the write that follows it are two steps.

What makes each part correct: the queue loses no accepted event, keeps their
order when it drops old ones, never skips unprocessed lines, never keeps a hook
waiting; the store loses no insight and no validation to another process, counts
none twice, and forgets no unsaved change; a cycle ends, saves what it learned
from what it consumed, and moves no cursor over events nobody looked at; a
supervised service runs at most once and is restarted when it stops, but not for
ever; a session has one open episode that halts when its budget is spent, and a
step gets the result of its own tool call; advice is not shown twice, nor after
the file it is about was edited, and is counted only when it was shown.

`hazards` in `PROJECT.json` lists where each of these can go wrong, by line,
with the properties that cover it, or the reason why none does.

## 2. Modules

| Module | Content |
|---|---|
| `EventQueue` | queue, overflow, locks, rotation, compaction, head file; hooks and pipeline threads as processes |
| `Delivery` | what the queue promises: an accepted event waits until it is delivered, or is lost on arrival |
| `InsightStore` | the insights file, its lock, the learners of several processes, batches, merges |
| `BridgeCycle` | one bridge worker from the inside: pool threads, soft timeouts, the learner's batch, the head and the offsets |
| `Supervisor` | watchdogs, `up` and `down`, the services' start and end; pid files, heartbeats, restart limiter, passing time |
| `Episodes` | the hooks' EIDOS loop around a tool call, and the files and rows it shares |
| `Advisory` | advice before a tool call, outcomes and invalidation after it, baselines at a prompt |
| `<Module>Proofs` | proofs about a module; it extends the module and `TLAPS` |
| `DeliveryProofs` | proofs that `EventQueue` implements `Delivery`; it extends `EventQueueProofs` |
| `OpenEpisodeProofs` | proofs about a session's open episode, outcomes, budgets and types; it extends `EpisodesProofs` |
| `MC<Module>` | small sets for TLC |

`BridgeCycle` sees the queue as a head over numbered events and the file of
insights as a set; how hooks and files behave under them is `EventQueue`'s and
`InsightStore`'s, where the worker is one process. `Supervisor` sees a worker
that is in a cycle or not, and may be stuck in one, which is what `BridgeCycle`
explains. A hook is a process of `EventQueue`, `InsightStore`, `Episodes` and
`Advisory`, one after the other: they share no file.

### EventQueue

Each hook (`Producers`) and pipeline thread (`Consumers`) has a program counter
`pc`; an action is one file access or one lock attempt, so all interleavings of
the accesses are there.

| State | Code |
|---|---|
| `file`, `overflow`, `tmp` | `EVENTS_FILE`, `OVERFLOW_FILE`, the two `.tmp` files, as sequences of lines |
| `head` | `head_bytes`, counted in lines |
| `lockFile`, `ovLockFile` | whether the lock files exist |
| `acquired`, `ovAcquired` | the processes whose `_queue_lock.acquired` is true |
| `ev`, `pos`, `buf`, `arg`, `fixing` | local variables: the event, the offset being computed, the lines read, the number to consume, whether a too large head is being written back |
| `direct`, `spilled`, `exposed`, `processed`, `consumed`, `evicted`, `next`, `crashes` | history, read by properties only |

A capture is `Capture`, `AcquireShort` or `TimeoutShort`, then `AppendEvent`, or
on the overflow side `AcquireOver`, `SpillEvent` or `DropEvent`
(queue.py:248-316). It is followed by `rotate_if_needed` (:443-495):
`StatSize`, `LoadSizeHead`, `DecideRotation` without the lock, then
`AcquireLong` or `TimeoutLong`, the merge (`MergeRead`, `MergeAppend`,
`MergeUnlink`, :196-208), `LoadLockedHead` with its possible write-back,
`RotateCopy`, `Replace`, `ZeroHead`, `Release`. A pipeline cycle
(pipeline.py:885-1079) is `StartCycle`, `LoadPeekHead`, `Peek`, then
`ProcessBatch` or `ProcessFails`, and `consume_processed` (:498-558): the same
lock and merge, `Advance`, `SetHead`, and if due `Compact`, `Replace`,
`ZeroHead`. `TimeoutLong` goes on without the lock, as the code does, because
`with _queue_lock():` never reads `acquired`. `Crash` stops a process at any
step and leaves its lock file.

An event is its number and a line is an event. Sizes are counted in lines, and
the thresholds `MaxEvents`, `MaxQueueLines`, `KeepDefault`, `CompactHead` stand
for the configured ones. Whether a live lock holder can keep a waiter beyond
its timeout is the constant `SlowHolders`; a lock left by a crash always does.
`Peek` is one step from the open to the last line read (queue.py:168-186,
:318-346): an append in between only makes the batch longer, a file that is
replaced meanwhile is still read to its end under the open handle, and the head,
which is read and compared with the size before, is `LoadPeekHead`.

### Delivery

Each event is not yet there, pending, delivered or lost. It leaves the set of
pending events only by being delivered. The refinement maps the lines after the
head and those of the overflow file to pending events, the processed ones to
delivered, and the events spilled into a merge window to lost (see the finding).

### InsightStore

A learner has a memory `mem`, the flags `defer` (`_defer_saves`) and `dirty`
(`_dirty`), and a program counter through `_save_insights_now` (:601-658):
`AcquireStore`, or `GiveUp` after 0.5 s, or `SeeStale` and `Steal` for a lock
that is 60 s old; `ReadDisk` or, if the file or an entry of it cannot be read,
`ReadFails`; `WriteDisk` or, if it cannot be written, `WriteFails`;
`ReleaseStore`. A change (`Learn`, `Mark`, `Purge`) and its call of
`_save_insights` are one action, which starts a save or, in a batch, marks the
learner dirty. `BeginBatch` and `EndBatch` are those of `run_bridge_cycle`.

`Load` constructs a learner from the file, or `LoadFails` from a part of it.
`Fold` is a turn of `dedupe_struggles` (:1934-2012), which every load runs: it
takes two variants of an insight from the memory and puts their sum under the
norm key `Norm[k]`; `FoldEnds` saves with the folded keys to drop, and
`Backfill` are the saves of the two backfills (:510-539). `dedupe_signals`, which
folds in the same way, is called by nobody. `Exit` and `Crash` end a learner.

An insight is the number of its validations: they merge by maximum and fold by
sum. `Mark` (`mark_promoted`, `mark_unpromoted`) changes other fields, so it is
a save only. `Purge` is `purge_primitive_insights`, which drops a key. `misread`,
`robbed`, `unsaved` and `stray` are history: the saves that did not read all
there was and what they took from the file, the learners whose last write
failed, and the norm keys of which a folded variant is left somewhere. A lock
that a *living* process holds for 60 s is not modelled: a save takes milliseconds.

### BridgeCycle

The main thread walks through `Script`: the sleep of the loop, `begin_batch`,
the pool steps of `PoolSteps` that the instance has, the mid-cycle flush, the
work done outside the pool, `end_batch` (bridge_cycle.py:225-680). `Submit` hands
a step to an idle thread or queues it; `Dequeue`, `Returned`, `TimesOutQueued`
and `TimesOutRunning` are the ways a `future.result(timeout)` ends (:120-190). A
thread (`job`) reads, works, marks and saves; the pipeline then consumes
(`Consume`, pipeline.py:1064) and resets the pattern worker's offset in a file of
its own (`ResetOffset`, :1069-1074), a reader stores its offset; each of these
may fail and be swallowed (`CursorFails`). A thread that has timed out goes on.
`Kill` ends the worker anywhere and begins a new one.

`sv` is each thread's way through the learner's save. Its lock may be free, held
by another thread, held by another process, which no variable tells, so that
`GiveUp` is always possible, or left over by whoever was killed while saving, the
worker (`Kill`) or another (`OtherLeaves`), until a waiter deletes it
(`StealLock`). The merge, and the conversion for the write, raise if another
thread changes the dictionary they iterate over (`MergeFails`); an insight that
is added after the iteration goes with the replaced dictionary (`Merge`); and the
write may fail with or without an exception (`WriteFails`). `unsaved` names the
insights that such a save forgot: it clears `_dirty` first and does not set it
again.

An event is its number, and so is the insight learned from it. What a step
computes is open; a batch fails as a whole or is processed as a whole. The
batch of Meta-Ralph, which has the same form, is left out. What other processes
write into the insights' file, failing reads of it, and two waiters that both
steal the lock, are `InsightStore`'s; here `stolen` says that the lock was deleted,
and `ConsumedIsSaved` is silent from then on.

### Supervisor

A pid has a `kind` and a state `st` on its way through its checks, its loop and
its end; `told` is who has seen SIGTERM, `stuck` which worker has a pool thread
that never returns. The files are the lock files, the watchdog's pid file, the
heartbeats and `watchdog_state.json` (`disk`). A watchdog looks for others
(`SeeOthers`, spark_watchdog.py:40-101), claims its pid file, and then loops:
`Snapshot`, one of `CheckHealthy`, `CheckWaits`, `CheckRestart` for each
service, `Save`. `UpBegins` ... `CommandEnds` are the commands of
service_control.py with their polling rounds. `Crash`, `TakePid` (a stranger gets
a dead worker's pid), `GetStuck` and `StartByHand` are the environment.

`watchdog_state.json` is written in place, so a watchdog killed while saving
leaves it torn, and a torn one loads as an empty one (`MayTear`); nobody else
reads it meanwhile, since there is one watchdog.

Time is counted in ticks. A snapshot of the process table is one step, and does
not fail: `_process_snapshot` returns an empty list when `ps` does, and a watchdog
would then see no other and a service as not running. Unless
`CommandsOverlap`, `up` is not begun beside a living watchdog, and a watchdog
takes no snapshot while a service is just starting, because its passes are
further apart than a start takes: otherwise a service could be started twice
between the lock file's check and its write. The run has the bridge worker as the only service; the tailer's, the daemon's and
the scheduler's branches are in the module. A count of failures is kept at
`Threshold`, beyond which nothing asks for it. Not modelled: pulse and mind,
queue-size warnings, and the plugin-only mode.

### Episodes

`h[a]` is an agent, which makes one tool call at a time, and its hook of the
moment. `Lookup`, `Close`, `Create`, `Truncate`, `Fill` are
`get_or_create_episode` with the mapping's read and its rewrite in place
(integration.py:169-208, :66-70); `CreateStep`, `WriteTmp`, `Replace`,
`CountStep` are `create_step_before_action`; `FindEpisode`, `WriteTmp`, `Evaluate`,
`ChangePhase` are `complete_step_after_action`; `Finish` ends an episode.
`Kill` ends a hook anywhere, `ToolInterrupted` is a call without a result,
`HalfAnHour` makes everything older than the stale limit.

`parallel` names the sessions whose calls have overlapped, `mapClash` and
`stepClash` say that a process wrote a shared file over what it had not seen.
Where these are excused, it is because the code has no protection there.
Files that only one session's hooks touch are read in one step with the read
before. Left out: goals and the prompt hook, the other watchers, the
escape protocol, minimal mode and guard rails, which give advice that the host
does not enforce, and `.tmp` files that were half written.

### Advisory

`h[p]` is one hook's call of `on_pre_tool` (`PreTool`), `on_post_tool` (`PostTool`)
or `on_user_prompt` (`Prompt`), with everything it has in memory; `cache[p]` is
its `_INDEX_CACHE`. The packet files, the index with its `.tmp`, the log and the
session states are the files. An action is one access of a file:
`LookupExact`, `LookupRelaxed`, `Alias` find a packet or retrieve advice
(advisory_packet_store.py:2195-2655); `GateBlocks`, `Dedupe`, `RepeatBlocks` are the
three filters; `Emit` or `EmitFails`, `LogAdvice`, then for new advice
`WritePacket`, `ChangeIndex`, `WriteTmp`, `ReplaceIndex`; `ReadPacket` begins the
count of a use or of an outcome; `SaveState` ends the call.
Packet files are written in place: `EmptyPacket` empties one (`torn`) before
`WritePacket` writes it, and what two have written at once may stay unreadable.
`get_packet` finds nothing then: nothing is counted (`PacketUnread`), a lookup
passes on, an edit does not find the packet (`FindEdited`), or leaves it as it
is (`PassOver`). The log is capped by rewriting it in place (`EmptyLog`,
`FillLog`, advisory_engine.py:174-179) from what was read; when it is that long
is open. `FindEdited`,
`InvalidateNext` and `AllInvalidated` are `invalidate_packets`. `Tidy` is the
rewrite of the index that `_load_index` does when an entry lacks a field, which
every `save_packet` causes. `ReplaceFails` is `os.replace` without its source.

A packet holds one item of advice; what is retrieved, how it ranks, and whether
the gate lets it pass are open, but for what the session was shown. Left out:
expiry, cooldown times and pruning (the model lasts less than ten minutes and
has few packets, and fewer lines of advice than the 400 a lookup reads), the prefetch queue (`config/tuneables.json:85,127` turn it off),
fallback texts (off by default), implicit feedback, and `sparkd`'s process, which
keeps its cache over calls. The time stamp of a replaced index is taken with it.

## 3. Runs

| Run | Instance | Shows |
|---|---|---|
| `captures` | 1 hook, 1 worker, 3 captures, 2 crashes (one for each lock), slow lock holders, rotation | types; each lock has one owner and only its creator deletes the file; a hook that has begun a capture returns |
| `disciplined` | 2 hooks, 1 worker, 4 captures, rotation and compaction at 1 or 2 lines | the inductive invariant; only events spilled into a merge window can be lost; the head passes consumed lines only; appended events leave from the old end and in order |
| `no_rotation` | 2 hooks, 1 worker, 3 captures, 1 failing batch, compaction at 1 line | the queue implements `Delivery`; only processed events are consumed; every appended event is consumed in the end |
| `overflow_loss` | the same without failures | **finding**: an accepted event disappears |
| `rotation_loss` | 1 hook, 1 worker, 4 captures, rotation | **finding**: unprocessed events are consumed |
| `store_saves` | a bridge learner with batches and a hook, 3 keys of which one is a variant of another, 6 loads and changes, 1 failing read or write, 1 crash, slow lock holders | until a crash saves exclude each other and take nothing from the file that they could read, and a clean learner is saved unless its write failed; crash or not, no validation is counted twice, and none by folding while no folded variant is left over |
| `cycle` | a pool of 2, the pipeline and the fallback, both of which may overrun, 2 events, 2 troubles in all: overruns, failed batches, cursors or writes, kills, left-over locks | what was learned from a consumed event is or will be in the file, but for the losses named in the property; no cursor passes an unprocessed event but by the named races; a cycle ends; the queue drains while a thread is left |
| `validation_backlog` | the same with the validation loop, nothing overruns | **finding**: the validation loop's backlog is not what it has yet to see |
| `supervision` | 3 pids, the worker, up to 2 restarts an hour, 1 crash, which may tear the state file, 1 stuck worker, 1 stranger, 1 start by hand | one watchdog and one worker at most; restarts within the limit; `down` reaches what it can see; a dead worker comes back |
| `episodes` | 2 agents in 1 or 2 sessions, 2 calls, a budget of 1 step, 1 kill | one open episode; outcomes agree with steps; a spent budget halts; a step gets its own result, each unless a shared file was overwritten |
| `repeat_failure` | 1 agent, 3 calls | **finding**: a failure repeated twice is not noticed |
| `advice` | 2 hooks, 2 sessions, an editing tool, a tip and the baseline, 3 calls and kills, 1 kill at most | no advice shown twice but by a race at the log or its rewriting; none shown after the edit of its file, unless a write went over an unseen one or the edit could not read the packet; counts are real; packets are found; what was shown is remembered |

Why the bounds are enough. Two hooks and one worker are all the roles of the
queue: a third hook would stand where the second stands. Four captures fill the
file beyond its threshold and leave a line behind the head, one before it, one
in the overflow file and one under way. Thresholds of one and two lines make
rotation, compaction and head correction happen within them. In the store, two
learners make every pair of overlapping saves; six loads and changes allow both
to be there, an insight and its variant to be created and validated, and one of
them to be loaded again, folded and saved while the other is in use. In the cycle,
a pool of two is used up by two overruns, and lets two pipelines, or a pipeline
and a fallback, run beside the main thread; two events are a batch and the next,
since a batch and a pattern limit are one event each. Two troubles are the one
that leaves something behind, an overrun, a lock, an offset that was not reset,
and the one that meets it.
In the supervision three pids are a watchdog, a worker and a rival of either;
an hour is one tick, so the limiter fills up and empties. For episodes and
advice two processes at a time are what every race here takes; two calls are
the one that leaves something behind and the one that meets it, three are a
packet stored, edited away, and asked for. A larger instance of `Advisory` was
only simulated: 3 hooks, 2 sessions, 2 tools, 3 items of advice, 7 calls and 2
kills, in 300000 behaviours without a violation.

Hooks are interchangeable where a cfg says `SYMMETRY`; never in a run with a
temporal property. Constants beginning with `Max` that bound a behaviour are named
as bounds in their modules; `MaxEvents` and `MaxQueueLines` of the queue, `MaxSteps`
and `MaxRestarts` are the program's own limits. Deadlock is checked but in
`store_saves`, `episodes`, `repeat_failure` and `advice`, where all bounded loads
or calls are over in the end.

One excuse is wider than its run needs. With the three calls of `advice` no
edit can pass over a packet and a later call show it: without that part of
`clash`, `StaleAdviceEnds` fails on an instance with four calls in one session, and
with it holds there.

**Fairness.** The queue's `FairSpec` assumes weak fairness of each process's own
steps: a hook and the worker are running programs that sleep 10 ms at most
between two lock attempts. It does not assume that a hook ever captures, that a
slow holder is slow, that a crash happens, or that a lock attempt succeeds: an
attempt that can succeed or time out may do either. `no_rotation` is without
crashes, because after one the lock stays and events pile up in the overflow
file. `BridgeCycle` is fair to the main thread and to the step it waits for; a
step that has timed out may hang for ever, and no event has to arrive.
`Supervisor` is fair to processes, to the command under way, to time, and to the
end of strangers; nobody has to run a command and a worker's heartbeat may be
late at any time. `Episodes` and `Advisory` state safety only.

### Findings

* **Merge against spill** (`overflow_loss`, queue.py:201-205). The merge reads
  the overflow file, appends it to the queue and unlinks it under the queue
  lock, while spillers take the *overflow* lock. What is spilled in between is
  deleted, although `quick_capture` returned True.
* **Rotation against the pipeline** (`rotation_loss`, pipeline.py:1064). Between
  the read of a batch and `consume_processed(len(events))` a hook may rotate the
  file and reset the head, and the worker then consumes lines it never read.
* **Offsets under a moving head** (`validation_backlog`, validation_loop.py:216).
  The pipeline consumes events and resets the pattern worker's offset only; the
  validation loop's and the outcome collector's count on from a head that has
  moved, so new events are skipped and the backlog is wrong.
* **Failures are forgotten** (`repeat_failure`, integration.py:755). The count of
  errors that the watcher needs is changed in a copy of the row that is saved
  only when the phase changes, which before `HALT` it never does.

Not among the runs, but in the models:

* a rotation or consume that waited 0.5 s merges without the lock (queue.py:473,
  :512, against the docstring at :197); an event in the overflow file of a drained
  queue waits for the next one (pipeline.py:925);
* two learners that find the same lock stale both end up with it
  (cognitive_learner.py:294-299): `DiskOnlyGrows` fails on it after a crash;
* a fold is counted twice if its save gives up and forgets what to drop (:608), or
  if another learner still has the variant and writes it back: the next load
  finds variant and sum and adds them up, against :1913. `FoldsKeepTotals` excuses
  both (`stray`) and fails without. The save of a fold also drops a norm key that
  was itself a variant in the memory, with the validations others have written
  there since;
* a save whose write raises, or that cannot replace the file five times
  (:641-651), leaves the learner clean (`unsaved`): nothing tries again until
  something else changes. `CleanIsSaved` and `ConsumedIsSaved` excuse it by name and
  fail without. The same holds in the bridge worker for an insight that an
  overrunning step adds to the dictionary while a save replaces it;
* what a save could not read (:614, :625) it takes from the file (`robbed`). A purge
  forgotten by a save that gave up is merged back. Two processes' validations from
  the same starting point count once;
* a worker killed between the pipeline's consume and `end_batch` loses what it
  learned from consumed events (`lost`), against pipeline.py:16; one killed between
  the consume and the reset of the pattern worker's offset (pipeline.py:1064-1074),
  or whose reset fails, leaves an offset that skips unprocessed events (`unreset`);
* a watchdog killed while it writes its state file loses the restart history, and
  the limit starts anew (`forgot`);
* `sparkd` does not end on SIGTERM: its handler waits, in the thread that serves,
  for the serving to end. `StopsWhenTold` fails on it, against SCHEDULER.md:175;
  and `down` does not stop the tailer.
  Two watchdogs started at once may both exit;
* two sessions' hooks drop each other's episodes from the mapping, and move or
  lose each other's `.tmp` of active steps;
* a hook that is killed after it has evaluated a step and before it clears the
  session's entry (integration.py:729-760), or whose entry comes back from another
  hook's `.tmp`, leaves a step that a later call evaluates again in another
  episode: the outcome of the closed one then no longer agrees with its steps.
  `OutcomeTold` excuses both; with `MaxKills = 2` or three calls it fails without;
* an index written by one hook, even by a lookup that tidies it, drops the
  entries and the marks of another: a later call then shows an invalidated packet,
  against docs/OPENCLAW_PATCH_CHECKLIST.md:21. So does a call after an edit that met
  the packet's file while a count was being saved: `invalidate_packet` returns False
  and nobody asks (advisory_packet_store.py:2757). Hooks that rewrite the log of
  advice at its cap lose each other's lines, and advice is shown again. Outcomes are counted at every later
  return of the same tool. If a packet's save fails, or stdout does
  (advisory_engine.py:2361), the state of advice that was shown or stored is not
  saved.

## 4. Proofs

Every theorem holds for all values of the constants that the named `ASSUME`s of
the modules allow; TLC evaluates those in every run. An inductive invariant was
checked by TLC before it was proved (`NoLossInv` still is, in `disciplined`).
Together the theorems state every invariant and every action property that a
passing run checks, but for `FoldsKeepTotals`.

`EventQueueProofs`:

* `TypeCorrect`: `Spec => []TypeOK`.
* `LocksExclude`: `Spec => []LockExclusive`, from a strengthening that also says
  which steps hold which lock.
* `SectionsKeepTheirLines`, `HeadSkipsNothing`, `NoLoss`: under `Disciplined`
  (nobody dies holding a lock or holds it beyond the timeout) `NoLossInv`,
  `HeadOverConsumed` and `LossOnlyInMergeWindow` hold. The latter two are not
  inductive: between `RotateCopy` and `ZeroHead` the file's content is in a
  temporary file and the head refers to the old one. `NoLossInv` adds what the
  lock holder knows at each step of its section (`SectionInv`): the lines it has
  read from the overflow file, that what it is about to cut off was consumed or
  is counted as evicted, and that the temporary file holds the rest. It also
  needs that whoever is in the section holds the lock, which is where
  `Disciplined` enters, and `LockExclusive`, so that nobody else writes.
* `NewestStay`: `Spec => []DirectLinesAreNewest`, on top of these and under
  `Disciplined` too. `OrderInv` adds that a number is captured once and written to
  one file (`Numbered`), that the overflow file and what a merge has read hold
  spilled events only (`Sourced`), so that a merge appends nothing that would be
  out of order, and that the copy a rotation or compaction is about to put in
  place is the end of the file (`CopyIsTail`).

`DeliveryProofs`, for a queue with one pipeline thread that no limit makes hooks
rotate and where nobody is killed (`LonePipeline`):

* `OnlyProcessedIsConsumed`: `Spec => []ConsumedWereProcessed`, with or without
  respected locks. The pipeline reads its batch before the section and consumes as
  many lines as it got, by number; between the two a hook may set the head back to
  0 (`WriteBackHead`). `BatchInv` says that the lines up to the batch's end were all
  processed, from wherever the head is then.
* `QueueDelivers`: `Spec => ImplementsDelivery`, if `Disciplined` too. Since the lines
  before the head were processed, what is pending is what is in the two files and
  neither processed nor exposed (`PendingIsWaiting`), whatever the head says. `Traced`
  says that a captured event is nowhere yet, so that its append is an arrival, and
  that what a pipeline has read or copied is still in the files, so that its merges
  and compactions are stutters.

`InsightStoreProofs`:

* `StoreTypes`: `Spec => []TypeOK`.
* `NeverCountedTwice`: `Spec => []NeverOvercounted`, for insights without variants,
  crashes, failures and stolen locks included. The invariant must bound every copy,
  the memories and what saves have read, since each may become the file; a fold
  beside such a key leaves it alone.
* `SavesAreExclusive`: `Spec => []SavesExclude`, from `LockInv`: until a crash,
  the lock file belongs to exactly the learner between read and release, nobody
  finds it stale, and what a save has read is what is on disk, less what it was to
  drop or could not read.
* `SavesLoseNothing`: `Spec => DiskGrowsUntilCrash`, an action property, from the
  same invariant and a lemma about the merge (`MergedGrows`).
* `CleanMeansSaved`: `Spec => []CleanIsSaved`. `SavedInv` says of a learner that has
  nothing marked, or has just written the file, that the file covers its memory;
  of a save that has not written yet nothing, since it either leaves the learner
  dirty, makes its memory the file, or is named in `unsaved`; of a load that has
  folded nothing yet, that its memory is what it has read. That the file of another's save
  covers it too is where the lock enters.

`BridgeCycleProofs`:

* `HeadSafe`: `Spec => []HeadOverProcessed`, unless two pipelines have run at once
  (`twoPipes`). The invariant says what a thread knows of the batch it has read:
  a pipeline's begins at the head until it is consumed, since only it can
  consume (`OnePipe`). `JobShape` and `Waits` say where a thread can be.
* `OffsetSafe`: `Spec => []OffsetOverProcessed`. Between a consume and the reset of
  the offset, and for good if a kill or a failed write comes between the two, the
  offset counts from a head that has moved; `unreset` holds exactly then. As long
  as it does not and no reset came into a fallback's work (`raced`), the offset counts
  from the head of now (`Counted`), and the lines before a fallback's batch are
  known (`Fallback`).
* `ConsumedSafe`: `Spec => []ConsumedIsSaved`, at every moment, until a live lock was
  taken for stale (`stolen`) or two pipelines ran. Who holds the lock, and nobody
  else, merges or writes, so that no save takes anything out of the file
  (`Exclusive`); only the main thread's wait for a save is a wait with a phase of
  its own (`MainSaves`). Every step but a kill keeps what is covered so: in the
  file, or to be written by a save or a later one, or named in `unsaved` (`Keeps`).
  What a pipeline has learned from its batch is covered before it consumes it
  (`Learned`), and a kill takes only what `lost` names.
* `TypesHold`: `Spec => []TypeOK`. The offsets stay within the queue because what a
  thread has read does (`BatchesIn`).

`SupervisorProofs`:

* `WatchdogIsAlone`: `Spec => []OneWatchdog`. A watchdog passes only in a step in
  which it sees no other in the table; all other steps let nobody past.
* `RestartsStayLimited`: `Spec => []RestartsLimited`. The limit is kept by memory
  and file, the property is about launches: `Remembered` says that the watchdog's
  memory, or between two passes the file, lists exactly the launches of the last
  hour, which relies on there being one watchdog.
* `OneProcessEach`: unless `CommandsOverlap`, `Spec => []OneOfEach`. A lock file that
  is read and written in two steps excludes nobody by itself: `OneStarts` says
  that at most one process of a service is between the two, which needs that a pass
  or an `up` has not yet started the services that are still before it
  (`PassAhead`, `UpAhead`), and `Owned` that the file names whoever works.
* `DownReaches`: `Spec => DownReachesAll`, an action property. `DownAhead`: once the
  watchdog is known to be gone, and `down` asks it first, nothing starts a service,
  so that who was told stays the only one (`NoneComes`).
* `TypesHold`: `Spec => []TypeOK`. The list of launches keeps its order (`Falls`), so
  that forgetting those of an hour ago leaves a list of the ages that are allowed.

`EpisodesProofs`: `StepsGetTheirResults`, `Spec => []OwnResult`. Without a clash the
`.tmp` belongs to the one hook that will move it (`Handover`), what waits in a
session's entry is its own call's step (`Mine`), and whoever wrote the mapping,
it leads a session to an episode of its own (`Owned`).

`OpenEpisodeProofs`:

* `SessionsHaveOneOpenEpisode`: `Spec => []OneOpenEpisode`. The mapping leads a
  session to whatever episode it has open (`Settled`), so there is one at most.
  While a hook has the mapping torn, what it will fill it with counts for the
  other sessions (`Leads`), and while a hook moves its own session from one
  episode to the next, its memory does (`At`). Counting a step may open a closed
  row again, since the row is written as it was read, but only that of the episode
  the mapping has.
* `OutcomesAreTold`: `Spec => []OutcomeTold`. An outcome is written once and steps
  are evaluated later, so it must be shown that no step of a closed episode
  changes its evaluation or its episode. `Unjudged`: the step of a call waits for
  its evaluation until that very call gives it, which rests on `OwnResult`'s
  invariant; `RowsSeen`: in a session whose calls do not overlap the row in memory
  is the one in the file, so that nobody opens a closed row again. An
  evaluation goes to an episode that is open, and takes with it a step that had
  none, so the counts of a closed one stay (`CountsStay`).
* `BudgetsHalt`: `Spec => []BudgetHalts`. `HaltsOrWill`: an open episode whose budget
  is spent has halted, or the hook that evaluated its last step is about to
  change its phase; `Fresh`: a step that is about to be counted is not evaluated
  yet, so that counting cannot spend the budget unnoticed.
* `TypesHold`: `Spec => []TypeOK`, also when hooks are killed, calls overlap and
  files are overwritten. `Enough` counts the hooks, run or still to run, that may
  yet create an episode: with the episodes there are they never exceed two per
  call. `RowsFit`: a row counts fewer steps than there are calls while a hook is
  about to count one more, and its errors are noted once, when it halts.

`AdvisoryProofs`, on `Typed`, which says what each place in the code knows of
its memory:

* `AdviceIsShownOnce`: `Spec => []ShownOnce`. `OnceInv`: what any session was told
  is in the log, or a hook is about to log it, or it was raced, as is whatever a
  hook may find missing in the log while another rewrites it to keep its cap, and
  what such a rewrite lost; two hooks about to show the same advice have raced.
* `EmissionsAreReal`: `Spec => []EmitsAreReal`. Overwritten counts only lower; a
  late copy could raise them again, so `Counted` bounds a packet's count, and that
  of every copy on its way to the file, by the showings less the hooks that have
  shown it and still owe the count.
* `StaleAdviceIsNotShown`: `Spec => []StaleAdviceEnds`. Packets that an edit is done
  with, finished or not (`Gone`), stay invalid and out of the index; `Careful`
  says that no copy a hook holds, cache, loaded index or `.tmp`, can bring them
  back as long as nobody writes over what it has not seen, and that a call
  which began after the edit has not picked one up.
* `ShownAdviceIsRemembered`: `Spec => []ShownIsRemembered`. `RememberInv` follows a
  session through a call: the one hook that works for it has in memory whatever
  the session was shown, and so has the file until the hook shows something.
* `EveryPacketIsFound`: `Spec => []PacketsAreFound`. `FoundInv`, on `StaleInv`: what a
  hook has loaded or is about to save knows every packet that the index knew when
  it was read, and without a clash the index has gained none since (`Thorough`); a
  packet that is missing in the index has a hook that is about to enter it.
* `TypesHold`: `Spec => []TypeOK`. That the numbers of packets suffice and no count
  passes the bound does not follow from any one step: two hooks may raise the same
  count from copies of their own. `BudgetInv` says that the packets there are, the
  showings of each, and the emissions and outcomes counted in each packet and in
  each copy in memory, together with the hooks that may yet add one (`Due`), never
  exceed the calls. `HookFits` and `FilesFit` add that a packet is written with a
  real key and that advice a hook may show is advice.

Only model-checked: all liveness (`CaptureReturns`, `DirectEventsDrain`,
`CycleEnds`, `QueueDrains`, `WorkerReturns`), which is beyond the prover;
`FoldsKeepTotals`, whose sums over sets of keys need an induction; and the
disagreements of section 3, which TLC refutes.

## 5. Not modelled, and what is left

Abstracted in what is modelled: the text of events, insights, advice and logs;
torn reads of the head file and malformed lines; the order of log writes;
writes that fail, but for those of the insights, the cursors and the packet
files' readers, where failure is part of what the properties say. `clear_events` and the command line are not modelled. Most of the
repository is text heuristics, scoring, rendering and reports over files that
one process writes (chips, retrieval, promotion, observatory, scanners,
personality, onboarding, depth training, scripts): no order of steps there is
worth a state machine. Each component has its reason in `PROJECT.json`.

Worth a model, and left out here for want of a run of their own:

1. the offline queue of the Mind bridge (mind_bridge.py:402), which is rewritten
   from what was read before entries were added;
2. the tailers (openclaw_tailer.py:604), which post an event again if they die
   before they save the offset;
3. the readers' offsets against rotation, malformed lines and torn reads of the
   head, of which `BridgeCycle` has the pipeline's part only;
4. Meta-Ralph's batch and the tuneables' writer against their readers.
