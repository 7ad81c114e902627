---------------------------- MODULE InsightStore ----------------------------
(***************************************************************************)
(* The file of cognitive insights: the persistence of CognitiveLearner     *)
(* (lib/cognitive_learner.py), which the bridge worker, the hooks, sparkd  *)
(* and the command line each load into a learner of their own.             *)
(*                                                                         *)
(* A save takes a lock file, reads what is on disk, merges its memory into *)
(* it, keeps the result as its memory and replaces the file.  A learner in *)
(* batch mode only marks itself dirty until the batch ends.  A save that   *)
(* finds the lock busy gives up and leaves the learner dirty; one whose    *)
(* write fails leaves it clean; a lock file older than 60 s is deleted by  *)
(* whoever waits for it.  A learner that loads the file folds the variants *)
(* of an insight into one, whose validations are their sum, and saves.     *)
(*                                                                         *)
(* Data abstraction: an insight is its number of validations; of the       *)
(* fields that merge otherwise no property speaks.                         *)
(***************************************************************************)
EXTENDS Integers, FiniteSets, FiniteSetsExt

CONSTANTS
  Learners,     \* CognitiveLearner objects, each in some process
  Batching,     \* those that run_bridge_cycle puts in batch mode
  Keys,         \* insight keys
  Norm,         \* norm_key of each: the key that its variants are folded into
  Absent,       \* no insight under a key
  SlowHolders,  \* whether a live holder may keep the lock for over 0.5 s
  MayExit,      \* whether processes end
  Free, Stale,  \* a lock file that does not exist, and one left by a crash
  MaxOps,       \* bound: loads, and changes of insights, in a behaviour
  MaxFaults,    \* bound: reads and writes of the file that fail
  MaxCrashes    \* bound: crashes in a behaviour

ASSUME StoreAssumption ==
  /\ IsFiniteSet(Learners) /\ Batching \subseteq Learners
  /\ Norm \in [Keys -> Keys] /\ \A k \in Keys : Norm[Norm[k]] = Norm[k]
  /\ SlowHolders \in BOOLEAN /\ MayExit \in BOOLEAN
  /\ MaxOps \in Nat /\ MaxFaults \in Nat /\ MaxCrashes \in Nat
  /\ Free # Stale /\ {Free, Stale} \cap Learners = {}
  /\ Absent \notin Nat

VARIABLES
  disk,      \* cognitive_insights.json
  lock,      \* .cognitive.lock: free, or whose it is, or stale once 60 s old
  mem,       \* self.insights of each learner
  alive,     \* learners that have been constructed and not ended
  defer,     \* learners with _defer_saves
  dirty,     \* learners with _dirty
  pc,        \* the step of its load or of _save_insights_now a learner is about to take
  drop,      \* drop_keys of the save under way, removed_keys of the fold
  seen,      \* disk_data, as the save under way has read it; data, while it loads
  house,     \* how many more saves its load makes
  \* History, for the properties only.
  ops, faults, crashes,
  votesCast, \* validations of each key, by whichever learner
  purged,    \* keys that some save was told to drop
  misread,   \* learners whose save under way has not read all there was
  robbed,    \* keys that such a save took from the file
  unsaved,   \* learners whose last write failed
  stray      \* norm keys of which a folded variant is left somewhere

shared  == <<disk, lock>>
private == <<mem, alive, defer, dirty, pc, drop, seen, house>>
excuses == <<purged, misread, robbed, unsaved, stray>>
history == <<ops, faults, crashes, votesCast, excuses>>
vars    == <<shared, private, history>>

Files == [Keys -> Nat \cup {Absent}]
Empty == [k \in Keys |-> Absent]

\* Mutant of Merged: the validations are added up.
MergedSum(current, stored) == current + stored

\* _merge_insight, of the memory's insight and the disk's.
Merged(current, stored) == IF stored > current THEN stored ELSE current

\* Mutant of MergedFile: the memory replaces what was read.
MemoryWins(stored, memory) == memory

\* disk_data with the memory merged into it.
MergedFile(stored, memory) ==
  [k \in Keys |-> IF memory[k] = Absent THEN stored[k]
                  ELSE IF stored[k] = Absent THEN memory[k]
                  ELSE Merged(memory[k], stored[k])]

Without(f, ks) == [k \in Keys |-> IF k \in ks THEN Absent ELSE f[k]]

\* File f has what memory g has under k, its validations included.
Covers(f, g, k) == g[k] # Absent => f[k] # Absent /\ f[k] >= g[k]

\* The insight, or none, validated once more.
Validated(i) == IF i = Absent THEN 0 ELSE i + 1

\* Two keys of an insight that dedupe_struggles folds into one.
Variants(f, j, k) == j # k /\ Norm[j] = Norm[k] /\ f[j] # Absent /\ f[k] # Absent

\* Both deleted and their sum put under the norm key.
FoldedInto(f, j, k) ==
  [i \in Keys |-> IF i = Norm[j] THEN f[j] + f[k]
                  ELSE IF i \in {j, k} THEN Absent ELSE f[i]]

Goto(l, from, to) == pc[l] = from /\ pc' = [pc EXCEPT ![l] = to]
-----------------------------------------------------------------------------
Init ==
  /\ disk = Empty /\ lock = Free
  /\ mem = [l \in Learners |-> Empty]
  /\ alive = {} /\ defer = {} /\ dirty = {}
  /\ pc = [l \in Learners |-> "idle"]
  /\ drop = [l \in Learners |-> {}]
  /\ seen = [l \in Learners |-> Empty]
  /\ house = [l \in Learners |-> 0]
  /\ ops = 0 /\ faults = 0 /\ crashes = 0
  /\ votesCast = [k \in Keys |-> 0]
  /\ purged = {} /\ misread = {} /\ robbed = {} /\ unsaved = {} /\ stray = {}

\* A process starts and reads the file.
Load(l) ==
  /\ l \notin alive /\ ops < MaxOps
  /\ alive' = alive \cup {l}
  /\ mem' = [mem EXCEPT ![l] = disk]
  /\ seen' = [seen EXCEPT ![l] = disk]
  /\ Goto(l, "idle", "fold")
  /\ ops' = ops + 1
  /\ UNCHANGED <<shared, defer, dirty, drop, house, faults, crashes, votesCast, excuses>>

\* The file or an entry cannot be read: what has been read is kept, and the
\* rest of the load is skipped.
LoadFails(l) ==
  /\ l \notin alive /\ ops < MaxOps /\ faults < MaxFaults
  /\ \E ks \in SUBSET Keys \ {{}} : mem' = [mem EXCEPT ![l] = Without(disk, ks)]
  /\ alive' = alive \cup {l}
  /\ ops' = ops + 1 /\ faults' = faults + 1
  /\ UNCHANGED <<shared, defer, dirty, pc, drop, seen, house, crashes, votesCast, excuses>>

\* dedupe_struggles takes two variants of an insight together, in memory.
Fold(l, j, k) ==
  LET gone == {i \in {j, k} : seen[l][i] # Absent} IN
  /\ pc[l] = "fold" /\ Variants(mem[l], j, k)
  /\ mem' = [mem EXCEPT ![l] = FoldedInto(mem[l], j, k)]
  /\ drop' = [drop EXCEPT ![l] = drop[l] \cup gone]
  /\ purged' = purged \cup gone
  /\ UNCHANGED <<shared, alive, defer, dirty, pc, seen, house, ops, faults, crashes,
                 votesCast, misread, robbed, unsaved, stray>>

\* Mutant of DropFolded: the save of the fold is not told what to drop.
DropNothing(l) ==
  /\ pc' = [pc EXCEPT ![l] = IF drop[l] = {} THEN "idle" ELSE "lock"]
  /\ drop' = [drop EXCEPT ![l] = {}]

\* If anything was folded it saves, with the folded keys to drop.
DropFolded(l) ==
  /\ pc' = [pc EXCEPT ![l] = IF drop[l] = {} THEN "idle" ELSE "lock"]
  /\ UNCHANGED drop

\* Nothing is left to fold.  The two backfills may find something to fill in
\* (the nested choice), and save too.
FoldEnds(l) ==
  /\ pc[l] = "fold" /\ \A j, k \in Keys : ~Variants(mem[l], j, k)
  /\ DropFolded(l)
  /\ seen' = [seen EXCEPT ![l] = Empty]
  /\ \E n \in 0..2 : house' = [house EXCEPT ![l] = n]
  /\ UNCHANGED <<shared, mem, alive, defer, dirty, history>>

\* _save_insights, after a change; a save with keys to drop is not deferred.
SaveNow(l, ks) ==
  /\ Goto(l, "idle", "lock")
  /\ dirty' = dirty \ {l}
  /\ drop' = [drop EXCEPT ![l] = ks]

Save(l) ==
  IF l \in defer
  THEN pc[l] = "idle" /\ dirty' = dirty \cup {l} /\ UNCHANGED <<pc, drop>>
  ELSE SaveNow(l, {})

\* _backfill_action_domains, _backfill_advisory_readiness: fields that no
\* property is about.
Backfill(l) ==
  /\ l \in alive /\ house[l] > 0
  /\ SaveNow(l, {})
  /\ house' = [house EXCEPT ![l] = house[l] - 1]
  /\ UNCHANGED <<shared, mem, alive, defer, seen, history>>

Loaded(l) == l \in alive /\ pc[l] = "idle" /\ house[l] = 0

\* add_insight and the other learn_ methods: validate, or create.
Learn(l, k) ==
  /\ Loaded(l) /\ ops < MaxOps
  /\ mem' = [mem EXCEPT ![l][k] = Validated(mem[l][k])]
  /\ Save(l)
  /\ ops' = ops + 1
  /\ votesCast' = [votesCast EXCEPT ![k] = IF mem[l][k] = Absent THEN @ ELSE @ + 1]
  /\ UNCHANGED <<shared, alive, defer, seen, house, faults, crashes, excuses>>

\* mark_promoted, mark_unpromoted: a change of a field that no property is
\* about, saved as any other.
Mark(l) ==
  /\ Loaded(l) /\ ops < MaxOps
  /\ \E k \in Keys : mem[l][k] # Absent
  /\ Save(l)
  /\ ops' = ops + 1
  /\ UNCHANGED <<shared, mem, alive, defer, seen, house, faults, crashes, votesCast, excuses>>

\* purge_primitive_insights: drop_keys forces a save.
Purge(l, k) ==
  /\ Loaded(l) /\ ops < MaxOps /\ mem[l][k] # Absent
  /\ mem' = [mem EXCEPT ![l][k] = Absent]
  /\ SaveNow(l, {k})
  /\ ops' = ops + 1
  /\ purged' = purged \cup {k}
  /\ UNCHANGED <<shared, alive, defer, seen, house, faults, crashes, votesCast,
                 misread, robbed, unsaved, stray>>

BeginBatch(l) ==
  /\ l \in Batching \ defer /\ Loaded(l)
  /\ defer' = defer \cup {l}
  /\ UNCHANGED <<shared, mem, alive, dirty, pc, drop, seen, house, history>>

\* Mutant of EndBatch: the batch ends and nothing is flushed.
EndBatchUnflushed(l) ==
  /\ l \in defer /\ pc[l] = "idle"
  /\ defer' = defer \ {l} /\ dirty' = dirty \ {l}
  /\ UNCHANGED <<shared, mem, alive, pc, drop, seen, house, history>>

EndBatch(l) ==
  /\ l \in defer /\ pc[l] = "idle"
  /\ defer' = defer \ {l}
  /\ IF l \in dirty THEN SaveNow(l, {}) ELSE UNCHANGED <<pc, dirty, drop>>
  /\ UNCHANGED <<shared, mem, alive, seen, house, history>>
-----------------------------------------------------------------------------
(* _save_insights_now *)

AcquireStore(l) ==
  /\ lock = Free
  /\ Goto(l, "lock", "read")
  /\ lock' = l
  /\ UNCHANGED <<disk, mem, alive, defer, dirty, drop, seen, house, history>>

\* The lock file is there for 0.5 s.
WaitsInVain == lock = Stale \/ (lock # Free /\ SlowHolders)

\* The lock file was 60 s old when its age was read; it is deleted as it is
\* by then, and O_EXCL is tried again.
SeeStale(l) ==
  /\ lock = Stale
  /\ Goto(l, "lock", "steal")
  /\ UNCHANGED <<shared, mem, alive, defer, dirty, drop, seen, house, history>>

Steal(l) ==
  /\ Goto(l, "steal", "lock")
  /\ lock' = Free
  /\ UNCHANGED <<disk, mem, alive, defer, dirty, drop, seen, house, history>>

\* Mutant of GiveUp: the save goes on without the lock.
SaveUnlocked(l) ==
  /\ WaitsInVain
  /\ Goto(l, "lock", "read")
  /\ UNCHANGED <<shared, mem, alive, defer, dirty, drop, seen, house, history>>

\* The lock stays busy for 0.5 s: not acquired, and drop_keys is forgotten.
GiveUp(l) ==
  /\ WaitsInVain
  /\ Goto(l, "lock", "idle")
  /\ dirty' = dirty \cup {l}
  /\ drop' = [drop EXCEPT ![l] = {}]
  /\ stray' = stray \cup {Norm[k] : k \in drop[l]}
  /\ UNCHANGED <<shared, mem, alive, defer, seen, house, ops, faults, crashes,
                 votesCast, purged, misread, robbed, unsaved>>

ReadDisk(l) ==
  /\ Goto(l, "read", "write")
  /\ seen' = [seen EXCEPT ![l] = Without(disk, drop[l])]
  /\ UNCHANGED <<shared, mem, alive, defer, dirty, drop, house, history>>

\* The file, or an entry of it, cannot be read: the save goes on without.
ReadFails(l) ==
  /\ faults < MaxFaults
  /\ Goto(l, "read", "write")
  /\ \E ks \in SUBSET Keys \ {{}} : seen' = [seen EXCEPT ![l] = Without(disk, drop[l] \cup ks)]
  /\ faults' = faults + 1
  /\ misread' = misread \cup {l}
  /\ UNCHANGED <<shared, mem, alive, defer, dirty, drop, house, ops, crashes,
                 votesCast, purged, robbed, unsaved, stray>>

\* The memory becomes the merge, whether or not the file does.
Remember(l, merged) ==
  /\ Goto(l, "write", "release")
  /\ mem' = [mem EXCEPT ![l] = merged]
  /\ seen' = [seen EXCEPT ![l] = Empty]
  /\ misread' = misread \ {l}

\* Somebody else has k in memory and may write it back.
Elsewhere(l, k) == \E m \in Learners \ {l} : mem[m][k] # Absent \/ seen[m][k] # Absent

WriteDisk(l) ==
  LET merged == MergedFile(seen[l], mem[l])
  IN  /\ Remember(l, merged)
      /\ disk' = merged
      /\ unsaved' = unsaved \ {l}
      /\ robbed' = IF l \in misread
                   THEN robbed \cup {k \in Keys : ~Covers(merged, disk, k)} ELSE robbed
      /\ stray' = stray \cup {Norm[k] : k \in {j \in drop[l] : j # Norm[j] /\ Elsewhere(l, j)}}
      /\ UNCHANGED <<lock, alive, defer, dirty, drop, house, ops, faults, crashes,
                     votesCast, purged>>

\* write_text raises, which ends a load, or the file cannot be replaced five
\* times in a row, and the save ends as if it had been.
WriteFails(l) ==
  /\ faults < MaxFaults
  /\ Remember(l, MergedFile(seen[l], mem[l]))
  /\ \E n \in {0, house[l]} : house' = [house EXCEPT ![l] = n]
  /\ faults' = faults + 1
  /\ unsaved' = unsaved \cup {l}
  /\ stray' = stray \cup {Norm[k] : k \in drop[l]}
  /\ UNCHANGED <<shared, alive, defer, dirty, drop, ops, crashes, votesCast, purged, robbed>>

ReleaseStore(l) ==
  /\ Goto(l, "release", "idle")
  /\ lock' = Free
  /\ drop' = [drop EXCEPT ![l] = {}]
  /\ UNCHANGED <<disk, mem, alive, defer, dirty, seen, house, history>>
-----------------------------------------------------------------------------
\* What a learner has in memory, and what is said of it, goes with its process.
Forgotten(l) ==
  /\ alive' = alive \ {l} /\ defer' = defer \ {l}
  /\ mem' = [mem EXCEPT ![l] = Empty]
  /\ pc' = [pc EXCEPT ![l] = "idle"]
  /\ drop' = [drop EXCEPT ![l] = {}]
  /\ seen' = [seen EXCEPT ![l] = Empty]
  /\ house' = [house EXCEPT ![l] = 0]
  /\ misread' = misread \ {l} /\ unsaved' = unsaved \ {l}

\* Mutant of Gone: a learner that is gone is still marked dirty.
GoneDirty(l) == Forgotten(l) /\ UNCHANGED dirty

\* The process is gone, and its memory with it.
Gone(l) == Forgotten(l) /\ dirty' = dirty \ {l}

\* A hook, a command, or a bridge worker between two cycles, returns.
Exit(l) ==
  /\ MayExit
  /\ Loaded(l) /\ l \notin defer
  /\ Gone(l)
  /\ UNCHANGED <<shared, ops, faults, crashes, votesCast, purged, robbed, stray>>

\* It is killed; the lock file it may hold grows old.
Crash(l) ==
  /\ l \in alive /\ crashes < MaxCrashes
  /\ Gone(l)
  /\ crashes' = crashes + 1
  /\ lock' = IF lock = l THEN Stale ELSE lock
  /\ UNCHANGED <<disk, ops, faults, votesCast, purged, robbed, stray>>

LoadStep(l) ==
  \/ Load(l) \/ LoadFails(l) \/ FoldEnds(l) \/ Backfill(l)
  \/ \E j, k \in Keys : Fold(l, j, k)

SaveStep(l) ==
  \/ AcquireStore(l) \/ SeeStale(l) \/ Steal(l) \/ GiveUp(l)
  \/ ReadDisk(l) \/ ReadFails(l) \/ WriteDisk(l) \/ WriteFails(l) \/ ReleaseStore(l)

Change(l) ==
  \/ Mark(l)
  \/ \E k \in Keys : Learn(l, k) \/ Purge(l, k)

Next ==
  \E l \in Learners :
    \/ LoadStep(l) \/ Change(l) \/ SaveStep(l)
    \/ BeginBatch(l) \/ EndBatch(l) \/ Exit(l) \/ Crash(l)

Spec == Init /\ [][Next]_vars
-----------------------------------------------------------------------------
Saving == {"read", "write", "release"}

\* The types; a learner that has ended keeps nothing.
TypeOK ==
  /\ disk \in Files
  /\ lock \in Learners \cup {Free, Stale}
  /\ mem \in [Learners -> Files]
  /\ alive \subseteq Learners /\ defer \subseteq alive /\ dirty \subseteq alive
  /\ pc \in [Learners -> Saving \cup {"idle", "fold", "lock", "steal"}]
  /\ \A l \in Learners \ alive : pc[l] = "idle"
  /\ drop \in [Learners -> SUBSET Keys]
  /\ seen \in [Learners -> Files]
  /\ house \in [Learners -> 0..2]
  /\ ops \in 0..MaxOps /\ faults \in 0..MaxFaults /\ crashes \in 0..MaxCrashes
  /\ votesCast \in [Keys -> Nat]
  /\ misread \subseteq alive /\ unsaved \subseteq alive
  /\ purged \subseteq Keys /\ robbed \subseteq Keys /\ stray \subseteq Keys

\* Two saves never overlap: until a writer is killed, only one learner is
\* between reading the file and releasing the lock, however long the lock is
\* held (cognitive_learner.py:605-609).
SavesExclude ==
  crashes = 0 =>
    \A l, m \in Learners : pc[l] \in Saving /\ pc[m] \in Saving => l = m

\* A step leaves the file with all its insights and their validations, but
\* for the keys that the save which writes it was told to drop, and unless
\* that save could not read them.
LosesNothing ==
  \A k \in Keys :
    \/ Covers(disk', disk, k)
    \/ \E l \in Learners : pc[l] = "write" /\ (k \in drop[l] \/ l \in misread)

\* "Start from disk to avoid losing entries from other processes"
\* (cognitive_learner.py:621): no save takes anything else from the file.
DiskOnlyGrows == [][LosesNothing]_disk

\* What is left of it: none does until a writer is killed.
DiskGrowsUntilCrash == [][crashes = 0 => LosesNothing]_disk

\* A key that no other is folded with.
Alone(k) == \A j \in Keys : Norm[j] = Norm[k] => j = k

\* "Use max instead of sum to avoid double-counting" (_merge_insight): however
\* often an insight is loaded, merged and saved, and whatever fails or crashes,
\* the file never claims more validations of it than were made, if it has no
\* variants.
NeverOvercounted ==
  \A k \in Keys : Alone(k) /\ disk[k] # Absent => disk[k] <= votesCast[k]

Votes(i) == IF i = Absent THEN 0 ELSE i

\* "Keep original totals; dedupe itself is not a true validation" (:1913): the
\* variants of an insight and what they are folded into never have more
\* validations in the file than were made of them all.  Only while no folded
\* variant is left over (stray): in another learner's memory, or in the file
\* because the fold's save gave up or failed.
FoldsKeepTotals ==
  \A n \in {Norm[k] : k \in Keys} \ stray :
    LET group == {k \in Keys : Norm[k] = n}
    IN  MapThenSumSet(LAMBDA k : Votes(disk[k]), group)
          <= MapThenSumSet(LAMBDA k : votesCast[k], group)

\* A learner that believes it has nothing to flush really has nothing: what it
\* remembers is on disk, validations included, or was dropped by another, or
\* taken from the file by a save that could not read it.  No path through loads,
\* batches, give-ups and purges leaves a change behind unmarked
\* (cognitive_learner.py:575-609) but one: a write that fails (:641-651).
CleanIsSaved ==
  crashes = 0 =>
    \A l \in alive \ (dirty \cup unsaved), k \in Keys \ (purged \cup robbed) :
      pc[l] = "idle" => Covers(disk, mem[l], k)
=============================================================================
