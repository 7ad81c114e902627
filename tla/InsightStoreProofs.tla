------------------------- MODULE InsightStoreProofs -------------------------
(***************************************************************************)
(* Proofs about InsightStore: its types; that no file ever claims more     *)
(* validations of an insight without variants than were made, crashes      *)
(* included; and, until a process is killed, that saves exclude each       *)
(* other, take nothing away from the file but what they were told to drop  *)
(* or could not read, and leave nothing behind in a learner that believes  *)
(* it has nothing to flush.                                                *)
(***************************************************************************)
EXTENDS InsightStore, TLAPS

\* Merging, dropping keys and folding keep a file a file.
LEMMA MergedFileType ==
  ASSUME NEW f \in Files, NEW g \in Files
  PROVE  MergedFile(f, g) \in Files
  <1> SUFFICES ASSUME NEW k \in Keys
               PROVE  (IF g[k] = Absent THEN f[k]
                       ELSE IF f[k] = Absent THEN g[k]
                       ELSE Merged(g[k], f[k])) \in Nat \cup {Absent}
      BY DEF MergedFile, Files
  <1>1. f[k] \in Nat \cup {Absent} /\ g[k] \in Nat \cup {Absent}
      BY DEF Files
  <1> QED BY <1>1 DEF Merged

LEMMA WithoutType ==
  ASSUME NEW f \in Files, NEW ks
  PROVE  Without(f, ks) \in Files
  BY DEF Without, Files

LEMMA EmptyType == Empty \in Files
  BY DEF Empty, Files

LEMMA FoldedType ==
  ASSUME NEW f \in Files, NEW j \in Keys, NEW k \in Keys, Variants(f, j, k)
  PROVE  FoldedInto(f, j, k) \in Files
  <1>1. f[j] \in Nat /\ f[k] \in Nat
      BY DEF Files, Variants
  <1>2. f[j] + f[k] \in Nat
      BY <1>1
  <1>3. \A i \in Keys : f[i] \in Nat \cup {Absent}
      BY DEF Files
  <1>4. \A i \in Keys : FoldedInto(f, j, k)[i] \in Nat \cup {Absent}
      BY <1>2, <1>3 DEF FoldedInto
  <1> QED BY <1>4 DEF FoldedInto, Files

-----------------------------------------------------------------------------
(* The types. *)

Places == Saving \cup {"idle", "fold", "lock", "steal"}

LEMMA TypeInit == Init => TypeOK
  BY StoreAssumption, EmptyType DEF Init, TypeOK, Saving

\* _save_insights keeps its types, deferred or not.
LEMMA SaveTypes ==
  ASSUME TypeOK, NEW l \in alive, NEW ks \in SUBSET Keys, SaveNow(l, ks) \/ Save(l)
  PROVE  /\ dirty' \subseteq alive
         /\ pc' \in [Learners -> Places]
         /\ \A m \in Learners : m # l => pc'[m] = pc[m]
         /\ drop' \in [Learners -> SUBSET Keys]
  BY DEF TypeOK, Save, SaveNow, Goto, Saving, Places

LEMMA GoneTypes ==
  ASSUME TypeOK, NEW l \in Learners, Gone(l)
  PROVE  /\ alive' \subseteq Learners /\ defer' \subseteq alive' /\ dirty' \subseteq alive'
         /\ misread' \subseteq alive' /\ unsaved' \subseteq alive'
         /\ mem' \in [Learners -> Files]
         /\ pc' \in [Learners -> Places]
         /\ \A m \in Learners \ alive' : pc'[m] = "idle"
         /\ drop' \in [Learners -> SUBSET Keys]
         /\ seen' \in [Learners -> Files]
         /\ house' \in [Learners -> 0..2]
  BY EmptyType DEF TypeOK, Gone, Forgotten, Saving, Places

\* A change puts an insight, or none, under one key of one memory.
LEMMA MemoryType ==
  ASSUME TypeOK, NEW l \in Learners, NEW k \in Keys, NEW i \in Nat \cup {Absent}
  PROVE  [mem EXCEPT ![l][k] = i] \in [Learners -> Files]
  <1>1. mem[l] \in Files
      BY DEF TypeOK
  <1>2. [mem[l] EXCEPT ![k] = i] \in Files
      BY <1>1 DEF Files
  <1> QED BY <1>2 DEF TypeOK

\* What a change does not touch, and what it saves.
LEMMA ChangeSaves ==
  ASSUME TypeOK, NEW l \in Learners, Change(l)
  PROVE  /\ l \in alive /\ pc[l] = "idle"
         /\ UNCHANGED <<shared, alive, defer, seen, house, faults, crashes,
                        misread, robbed, unsaved, stray>>
         /\ \E ks \in SUBSET Keys : (SaveNow(l, ks) \/ Save(l)) /\ purged' = purged \cup ks
         /\ ops' \in 0..MaxOps
  <1>1. CASE Mark(l)
    <2>1. Save(l) /\ purged' = purged \cup {} /\ {} \in SUBSET Keys
        BY <1>1 DEF Mark, excuses
    <2>2. ops' \in 0..MaxOps
        BY <1>1, StoreAssumption DEF Mark, TypeOK
    <2> QED BY <1>1, <2>1, <2>2 DEF Mark, Loaded, excuses
  <1>2. ASSUME NEW k \in Keys, Learn(l, k)
        PROVE  /\ l \in alive /\ pc[l] = "idle"
               /\ UNCHANGED <<shared, alive, defer, seen, house, faults, crashes,
                              misread, robbed, unsaved, stray>>
               /\ \E ks \in SUBSET Keys : (SaveNow(l, ks) \/ Save(l)) /\ purged' = purged \cup ks
               /\ ops' \in 0..MaxOps
    <2>1. Save(l) /\ purged' = purged \cup {} /\ {} \in SUBSET Keys
        BY <1>2 DEF Learn, excuses
    <2>2. ops' \in 0..MaxOps
        BY <1>2, StoreAssumption DEF Learn, TypeOK
    <2> QED BY <1>2, <2>1, <2>2 DEF Learn, Loaded, excuses
  <1>3. ASSUME NEW k \in Keys, Purge(l, k)
        PROVE  /\ l \in alive /\ pc[l] = "idle"
               /\ UNCHANGED <<shared, alive, defer, seen, house, faults, crashes,
                              misread, robbed, unsaved, stray>>
               /\ \E ks \in SUBSET Keys : (SaveNow(l, ks) \/ Save(l)) /\ purged' = purged \cup ks
               /\ ops' \in 0..MaxOps
    <2>1. SaveNow(l, {k}) /\ purged' = purged \cup {k} /\ {k} \in SUBSET Keys
        BY <1>3 DEF Purge
    <2>2. ops' \in 0..MaxOps
        BY <1>3, StoreAssumption DEF Purge, TypeOK
    <2> QED BY <1>3, <2>1, <2>2 DEF Purge, Loaded
  <1> QED BY <1>1, <1>2, <1>3 DEF Change

\* What it puts into the memory: nothing, one validation more, or none at all.
LEMMA ChangeRemembers ==
  ASSUME TypeOK, NEW l \in Learners, Change(l)
  PROVE  \/ UNCHANGED <<mem, votesCast>>
         \/ \E k \in Keys :
              /\ mem' = [mem EXCEPT ![l][k] = Validated(mem[l][k])]
              /\ votesCast' = [votesCast EXCEPT ![k] = IF mem[l][k] = Absent THEN votesCast[k]
                                                      ELSE votesCast[k] + 1]
         \/ \E k \in Keys : mem' = [mem EXCEPT ![l][k] = Absent] /\ UNCHANGED votesCast
  BY DEF Change, Mark, Learn, Purge

LEMMA ChangeTypes ==
  ASSUME TypeOK, NEW l \in Learners, Change(l)
  PROVE  TypeOK'
  <1>1. mem' \in [Learners -> Files] /\ votesCast' \in [Keys -> Nat]
    <2>1. CASE UNCHANGED <<mem, votesCast>>
        BY <2>1 DEF TypeOK
    <2>2. ASSUME NEW k \in Keys, mem' = [mem EXCEPT ![l][k] = Validated(mem[l][k])],
                 votesCast' = [votesCast EXCEPT ![k] = IF mem[l][k] = Absent THEN votesCast[k]
                                                      ELSE votesCast[k] + 1]
          PROVE  mem' \in [Learners -> Files] /\ votesCast' \in [Keys -> Nat]
      <3>1. mem[l][k] \in Nat \cup {Absent}
          BY DEF TypeOK, Files
      <3>2. Validated(mem[l][k]) \in Nat
          BY <3>1 DEF Validated
      <3>3. mem' \in [Learners -> Files]
          BY <2>2, <3>2, MemoryType
      <3>4. votesCast[k] \in Nat /\ votesCast[k] + 1 \in Nat
          BY DEF TypeOK
      <3> QED BY <2>2, <3>3, <3>4 DEF TypeOK
    <2>3. ASSUME NEW k \in Keys, mem' = [mem EXCEPT ![l][k] = Absent], UNCHANGED votesCast
          PROVE  mem' \in [Learners -> Files] /\ votesCast' \in [Keys -> Nat]
        BY <2>3, MemoryType DEF TypeOK
    <2> QED BY <2>1, <2>2, <2>3, ChangeRemembers
  <1>2. PICK ks \in SUBSET Keys : (SaveNow(l, ks) \/ Save(l)) /\ purged' = purged \cup ks
      BY ChangeSaves
  <1>3. l \in alive
      BY ChangeSaves
  <1>4. /\ dirty' \subseteq alive
        /\ pc' \in [Learners -> Places]
        /\ \A m \in Learners : m # l => pc'[m] = pc[m]
        /\ drop' \in [Learners -> SUBSET Keys]
      BY <1>2, <1>3, SaveTypes
  <1>5. purged' \subseteq Keys
      BY <1>2 DEF TypeOK
  <1> QED BY <1>1, <1>3, <1>4, <1>5, ChangeSaves DEF TypeOK, Places, shared

LEMMA LoadTypes ==
  ASSUME TypeOK, NEW l \in Learners, LoadStep(l)
  PROVE  TypeOK'
  <1> USE StoreAssumption DEF TypeOK, Goto, Saving, shared, history, excuses
  <1>1. CASE Load(l)
      BY <1>1 DEF Load
  <1>2. CASE LoadFails(l)
    <2>1. mem' \in [Learners -> Files]
        BY <1>2, WithoutType DEF LoadFails
    <2> QED BY <1>2, <2>1 DEF LoadFails
  <1>3. CASE FoldEnds(l)
    <2>1. pc' \in [Learners -> Places] /\ \A m \in Learners : m # l => pc'[m] = pc[m]
        BY <1>3 DEF FoldEnds, DropFolded, Places
    <2>2. l \in alive
        BY <1>3 DEF FoldEnds
    <2> QED BY <1>3, <2>1, <2>2, EmptyType DEF FoldEnds, DropFolded, Places
  <1>4. CASE Backfill(l)
    <2>1. l \in alive /\ SaveNow(l, {}) /\ {} \in SUBSET Keys /\ house' \in [Learners -> 0..2]
      <3>1. house[l] \in 1..2
          BY <1>4 DEF Backfill
      <3>2. house[l] - 1 \in 0..2
          BY <3>1
      <3>3. house' \in [Learners -> 0..2]
          BY <1>4, <3>2 DEF Backfill
      <3> QED BY <1>4, <3>3 DEF Backfill
    <2>2. /\ dirty' \subseteq alive
          /\ pc' \in [Learners -> Places]
          /\ \A m \in Learners : m # l => pc'[m] = pc[m]
          /\ drop' \in [Learners -> SUBSET Keys]
        BY <2>1, SaveTypes
    <2> QED BY <1>4, <2>1, <2>2 DEF Backfill, Places
  <1>5. ASSUME NEW j \in Keys, NEW k \in Keys, Fold(l, j, k) PROVE TypeOK'
    <2>1. mem[l] \in Files /\ Variants(mem[l], j, k)
        BY <1>5 DEF Fold
    <2>2. FoldedInto(mem[l], j, k) \in Files
        BY <2>1, FoldedType
    <2>3. mem' \in [Learners -> Files]
        BY <1>5, <2>2 DEF Fold
    <2> DEFINE gone == {i \in {j, k} : seen[l][i] # Absent}
    <2>4. gone \subseteq Keys /\ drop' = [drop EXCEPT ![l] = drop[l] \cup gone]
          /\ purged' = purged \cup gone
        BY <1>5 DEF Fold
    <2> HIDE DEF gone
    <2>5. drop' \in [Learners -> SUBSET Keys] /\ purged' \subseteq Keys
        BY <2>4
    <2> QED BY <1>5, <2>3, <2>5 DEF Fold
  <1> QED BY <1>1, <1>2, <1>3, <1>4, <1>5 DEF LoadStep

LEMMA SaveStepTypes ==
  ASSUME TypeOK, NEW l \in Learners, SaveStep(l)
  PROVE  TypeOK'
  <1> USE StoreAssumption DEF TypeOK, Goto, Saving, shared, history, excuses
  <1>1. CASE AcquireStore(l)
      BY <1>1 DEF AcquireStore
  <1>2. CASE SeeStale(l)
      BY <1>2 DEF SeeStale
  <1>3. CASE Steal(l)
      BY <1>3 DEF Steal
  <1>4. \A ks \in SUBSET Keys : {Norm[k] : k \in ks} \subseteq Keys
      OBVIOUS
  <1>5. CASE GiveUp(l)
    <2>1. l \in alive /\ stray' \subseteq Keys
        BY <1>4, <1>5 DEF GiveUp
    <2> QED BY <1>5, <2>1 DEF GiveUp
  <1>6. CASE ReadDisk(l)
      BY <1>6, WithoutType DEF ReadDisk
  <1>7. CASE ReadFails(l)
    <2>1. seen' \in [Learners -> Files]
        BY <1>7, WithoutType DEF ReadFails
    <2>2. l \in alive
        BY <1>7 DEF ReadFails
    <2> QED BY <1>7, <2>1, <2>2 DEF ReadFails
  <1>8. MergedFile(seen[l], mem[l]) \in Files
      BY MergedFileType
  <1>9. CASE WriteDisk(l)
    <2>1. robbed' \subseteq Keys
        BY <1>9 DEF WriteDisk
    <2>2. {j \in drop[l] : j # Norm[j] /\ Elsewhere(l, j)} \in SUBSET Keys
        OBVIOUS
    <2>3. stray' \subseteq Keys
        BY <1>4, <1>9, <2>2 DEF WriteDisk
    <2>4. /\ disk' \in Files /\ mem' \in [Learners -> Files] /\ seen' \in [Learners -> Files]
          /\ l \in alive
        BY <1>8, <1>9, EmptyType DEF WriteDisk, Remember
    <2> QED BY <1>9, <2>1, <2>3, <2>4 DEF WriteDisk, Remember
  <1>10. CASE WriteFails(l)
    <2>1. stray' \subseteq Keys
        BY <1>4, <1>10 DEF WriteFails
    <2>2. /\ mem' \in [Learners -> Files] /\ seen' \in [Learners -> Files] /\ l \in alive
        BY <1>8, <1>10, EmptyType DEF WriteFails, Remember
    <2>3. house' \in [Learners -> 0..2]
        BY <1>10 DEF WriteFails
    <2> QED BY <1>10, <2>1, <2>2, <2>3 DEF WriteFails, Remember
  <1>11. CASE ReleaseStore(l)
      BY <1>11 DEF ReleaseStore
  <1> QED BY <1>1, <1>2, <1>3, <1>5, <1>6, <1>7, <1>9, <1>10, <1>11 DEF SaveStep

LEMMA TypeStep == TypeOK /\ [Next]_vars => TypeOK'
  <1> SUFFICES ASSUME TypeOK, [Next]_vars PROVE TypeOK'
      OBVIOUS
  <1>1. CASE UNCHANGED vars
      BY <1>1 DEF TypeOK, vars, shared, private, history, excuses
  <1>2. ASSUME NEW l \in Learners, LoadStep(l) \/ Change(l) \/ SaveStep(l) PROVE TypeOK'
      BY <1>2, LoadTypes, ChangeTypes, SaveStepTypes
  <1>3. ASSUME NEW l \in Learners, BeginBatch(l) PROVE TypeOK'
      BY <1>3 DEF BeginBatch, Loaded, TypeOK, shared, history, excuses
  <1>4. ASSUME NEW l \in Learners, EndBatch(l) PROVE TypeOK'
    <2>1. l \in alive
        BY <1>4 DEF EndBatch, TypeOK
    <2>2. CASE l \in dirty
      <3>1. SaveNow(l, {}) /\ {} \in SUBSET Keys
          BY <1>4, <2>2 DEF EndBatch
      <3>2. /\ dirty' \subseteq alive
            /\ pc' \in [Learners -> Places]
            /\ \A m \in Learners : m # l => pc'[m] = pc[m]
            /\ drop' \in [Learners -> SUBSET Keys]
          BY <2>1, <3>1, SaveTypes
      <3> QED BY <1>4, <2>1, <3>2 DEF EndBatch, TypeOK, Places, shared, history, excuses
    <2>3. CASE l \notin dirty
        BY <1>4, <2>3 DEF EndBatch, TypeOK, shared, history, excuses
    <2> QED BY <2>2, <2>3
  <1>5. ASSUME NEW l \in Learners, Exit(l) PROVE TypeOK'
      BY <1>5, GoneTypes DEF Exit, TypeOK, Places, shared
  <1>6. ASSUME NEW l \in Learners, Crash(l) PROVE TypeOK'
      BY <1>6, GoneTypes, StoreAssumption DEF Crash, TypeOK, Places
  <1> QED BY <1>1, <1>2, <1>3, <1>4, <1>5, <1>6 DEF Next

\* The types of the store, and that a learner that has ended keeps nothing.
THEOREM StoreTypes == Spec => []TypeOK
  BY TypeInit, TypeStep, PTL DEF Spec

-----------------------------------------------------------------------------
(***************************************************************************)
(* No validation is counted twice, of an insight without variants.  The    *)
(* invariant must speak of every copy, in a memory or read by a save under *)
(* way, not only of the file: each of them may become the file.            *)
(***************************************************************************)
Within(f, cast) == \A k \in Keys : Alone(k) /\ f[k] # Absent => f[k] <= cast[k]

CopiesWithin ==
  /\ Within(disk, votesCast)
  /\ \A l \in Learners : Within(mem[l], votesCast) /\ Within(seen[l], votesCast)

\* A merge claims no more than one of the two insights it merges.
LEMMA MergedWithin ==
  ASSUME NEW f \in Files, NEW g \in Files, NEW c, Within(f, c), Within(g, c)
  PROVE  Within(MergedFile(f, g), c)
  <1> SUFFICES ASSUME NEW k \in Keys, Alone(k), MergedFile(f, g)[k] # Absent
               PROVE  MergedFile(f, g)[k] <= c[k]
      BY DEF Within
  <1>1. MergedFile(f, g)[k] = IF g[k] = Absent THEN f[k]
                              ELSE IF f[k] = Absent THEN g[k]
                              ELSE Merged(g[k], f[k])
      BY DEF MergedFile
  <1>2. CASE g[k] = Absent \/ f[k] = Absent
      BY <1>1, <1>2 DEF Within
  <1>3. CASE g[k] # Absent /\ f[k] # Absent
    <2>1. f[k] <= c[k] /\ g[k] <= c[k]
        BY <1>3 DEF Within
    <2>2. MergedFile(f, g)[k] = f[k] \/ MergedFile(f, g)[k] = g[k]
        BY <1>1, <1>3 DEF Merged
    <2> QED BY <2>1, <2>2
  <1> QED BY <1>2, <1>3

LEMMA WithoutWithin ==
  ASSUME NEW f \in Files, NEW ks, NEW c, Within(f, c)
  PROVE  Within(Without(f, ks), c)
  BY DEF Within, Without

LEMMA EmptyWithin == \A c : Within(Empty, c)
  BY DEF Within, Empty

\* What is folded has a variant, and so has what it is folded into.
LEMMA FoldedWithin ==
  ASSUME NEW f \in Files, NEW j \in Keys, NEW k \in Keys, Variants(f, j, k),
         NEW c, Within(f, c)
  PROVE  Within(FoldedInto(f, j, k), c)
  <1> SUFFICES ASSUME NEW i \in Keys, Alone(i), FoldedInto(f, j, k)[i] # Absent
               PROVE  FoldedInto(f, j, k)[i] <= c[i]
      BY DEF Within
  <1>1. i # j /\ i # k
      BY DEF Alone, Variants
  <1>2. i # Norm[j]
      BY <1>1, StoreAssumption DEF Alone, Variants
  <1>3. FoldedInto(f, j, k)[i] = f[i]
      BY <1>1, <1>2 DEF FoldedInto
  <1> QED BY <1>3 DEF Within

\* What was within the count stays so when the count does not fall.
LEMMA WithinLater ==
  ASSUME NEW f \in Files, NEW c \in [Keys -> Nat], NEW d \in [Keys -> Nat],
         Within(f, c), \A k \in Keys : c[k] <= d[k]
  PROVE  Within(f, d)
  <1> SUFFICES ASSUME NEW k \in Keys, Alone(k), f[k] # Absent
               PROVE  f[k] <= d[k]
      BY DEF Within
  <1>1. f[k] \in Nat /\ c[k] \in Nat /\ d[k] \in Nat
      BY DEF Files
  <1>2. f[k] <= c[k] /\ c[k] <= d[k]
      BY DEF Within
  <1> QED BY <1>1, <1>2

LEMMA CountInit == Init => CopiesWithin
  BY DEF Init, CopiesWithin, Within, Empty

\* A step that puts a file that is within into one memory.
LEMMA MemoryWithin ==
  ASSUME TypeOK, CopiesWithin, NEW l \in Learners, NEW f, Within(f, votesCast),
         mem' = [mem EXCEPT ![l] = f], UNCHANGED votesCast,
         UNCHANGED disk,
         \A m \in Learners : seen'[m] = seen[m] \/ seen'[m] = f \/ seen'[m] = Empty
  PROVE  CopiesWithin'
  <1>1. Within(disk', votesCast')
      BY DEF CopiesWithin
  <1>2. ASSUME NEW m \in Learners PROVE Within(mem'[m], votesCast')
      BY DEF CopiesWithin, TypeOK
  <1>3. ASSUME NEW m \in Learners PROVE Within(seen'[m], votesCast')
      BY EmptyWithin DEF CopiesWithin
  <1>4. CopiesWithin' <=> /\ Within(disk', votesCast')
                          /\ \A m \in Learners : Within(mem'[m], votesCast') /\ Within(seen'[m], votesCast')
      BY DEF CopiesWithin, Within
  <1> QED BY <1>1, <1>2, <1>3, <1>4

LEMMA CountChange ==
  ASSUME TypeOK, TypeOK', CopiesWithin, NEW l \in Learners, Change(l)
  PROVE  CopiesWithin'
  <1>1. UNCHANGED <<disk, seen>>
      BY ChangeSaves DEF shared
  <1>2. /\ votesCast \in [Keys -> Nat] /\ votesCast' \in [Keys -> Nat]
        /\ disk \in Files /\ mem \in [Learners -> Files] /\ seen \in [Learners -> Files]
      BY DEF TypeOK
  <1>3. \A m \in Learners : mem[m] \in Files /\ seen[m] \in Files
      BY <1>2
  <1>4. CopiesWithin' <=> /\ Within(disk', votesCast')
                          /\ \A m \in Learners : Within(mem'[m], votesCast') /\ Within(seen'[m], votesCast')
      BY DEF CopiesWithin, Within
  <1>5. ASSUME UNCHANGED <<mem, votesCast>> PROVE CopiesWithin'
      BY <1>1, <1>4, <1>5 DEF CopiesWithin
  <1>6. ASSUME NEW k \in Keys, mem' = [mem EXCEPT ![l][k] = Validated(mem[l][k])],
               votesCast' = [votesCast EXCEPT ![k] = IF mem[l][k] = Absent THEN votesCast[k]
                                                    ELSE votesCast[k] + 1]
        PROVE  CopiesWithin'
    <2>1. \A j \in Keys : votesCast[j] <= votesCast'[j]
        BY <1>2, <1>6
    <2>2. Within(disk', votesCast')
        BY <1>1, <1>2, <2>1, WithinLater DEF CopiesWithin
    <2>3. \A m \in Learners : Within(seen'[m], votesCast') /\ Within(mem[m], votesCast')
        BY <1>1, <1>2, <1>3, <2>1, WithinLater DEF CopiesWithin
    <2>4. mem'[l] = [mem[l] EXCEPT ![k] = Validated(mem[l][k])]
          /\ \A m \in Learners : m # l => mem'[m] = mem[m]
        BY <1>2, <1>6
    <2>5. ASSUME NEW j \in Keys, Alone(j), mem'[l][j] # Absent
          PROVE  mem'[l][j] <= votesCast'[j]
      <3>1. mem[l] \in Files /\ mem[l][j] \in Nat \cup {Absent} /\ votesCast[j] \in Nat
          BY <1>2, <1>3 DEF Files
      <3>2. CASE j # k
          BY <2>3, <2>4, <2>5, <3>1, <3>2 DEF Within, Files
      <3>3. CASE j = k
        <4>1. mem'[l][j] = Validated(mem[l][j])
            BY <2>4, <3>1, <3>3 DEF Files
        <4>2. CASE mem[l][j] = Absent
            BY <1>2, <1>6, <3>1, <3>3, <4>1, <4>2 DEF Validated
        <4>3. CASE mem[l][j] # Absent
          <5>1. mem[l][j] <= votesCast[j] /\ mem[l][j] \in Nat
              BY <2>5, <3>1, <4>3 DEF CopiesWithin, Within
          <5>2. mem'[l][j] = mem[l][j] + 1 /\ votesCast'[j] = votesCast[j] + 1
              BY <1>2, <1>6, <3>3, <4>1, <4>3 DEF Validated
          <5> QED BY <3>1, <5>1, <5>2
        <4> QED BY <4>2, <4>3
      <3> QED BY <3>2, <3>3
    <2>6. Within(mem'[l], votesCast')
        BY <2>5 DEF Within
    <2>7. \A m \in Learners : Within(mem'[m], votesCast')
        BY <2>3, <2>4, <2>6
    <2> QED BY <1>4, <2>2, <2>3, <2>7
  <1>7. ASSUME NEW k \in Keys, mem' = [mem EXCEPT ![l][k] = Absent], UNCHANGED votesCast
        PROVE  CopiesWithin'
    <2>1. mem' = [mem EXCEPT ![l] = Without(mem[l], {k})]
      <3>1. [mem[l] EXCEPT ![k] = Absent] = Without(mem[l], {k})
          BY <1>3 DEF Files, Without
      <3> QED BY <1>2, <1>7, <3>1
    <2>2. Within(Without(mem[l], {k}), votesCast)
        BY <1>3, WithoutWithin DEF CopiesWithin
    <2> QED BY <1>1, <1>7, <2>1, <2>2, MemoryWithin
  <1> QED BY <1>5, <1>6, <1>7, ChangeRemembers

LEMMA CountLoad ==
  ASSUME TypeOK, CopiesWithin, NEW l \in Learners, LoadStep(l)
  PROVE  CopiesWithin'
  <1>1. /\ mem \in [Learners -> Files] /\ mem[l] \in Files /\ disk \in Files
        /\ seen \in [Learners -> Files]
      BY DEF TypeOK
  <1>2. CASE Load(l)
    <2>1. /\ mem' = [mem EXCEPT ![l] = disk] /\ seen' = [seen EXCEPT ![l] = disk]
          /\ UNCHANGED <<disk, votesCast>>
        BY <1>2 DEF Load, shared
    <2>2. \A m \in Learners : seen'[m] = seen[m] \/ seen'[m] = disk
        BY <1>1, <2>1
    <2> QED BY <2>1, <2>2, MemoryWithin DEF CopiesWithin
  <1>3. CASE LoadFails(l)
    <2>1. PICK ks : mem' = [mem EXCEPT ![l] = Without(disk, ks)]
        BY <1>3 DEF LoadFails
    <2>2. UNCHANGED <<disk, seen, votesCast>>
        BY <1>3 DEF LoadFails, shared
    <2>3. Within(Without(disk, ks), votesCast)
        BY <1>1, WithoutWithin DEF CopiesWithin
    <2> QED BY <2>1, <2>2, <2>3, MemoryWithin
  <1>4. ASSUME NEW j \in Keys, NEW k \in Keys, Fold(l, j, k) PROVE CopiesWithin'
    <2>1. /\ mem' = [mem EXCEPT ![l] = FoldedInto(mem[l], j, k)] /\ Variants(mem[l], j, k)
          /\ UNCHANGED <<disk, seen, votesCast>>
        BY <1>4 DEF Fold, shared
    <2>2. Within(FoldedInto(mem[l], j, k), votesCast)
        BY <1>1, <2>1, FoldedWithin DEF CopiesWithin
    <2> QED BY <2>1, <2>2, MemoryWithin
  <1>5. CASE FoldEnds(l) \/ Backfill(l)
    <2>1. /\ mem' = [mem EXCEPT ![l] = mem[l]] /\ UNCHANGED <<disk, votesCast>>
        BY <1>1, <1>5 DEF FoldEnds, Backfill, shared, history
    <2>2. \A m \in Learners : seen'[m] = seen[m] \/ seen'[m] = Empty
        BY <1>1, <1>5 DEF FoldEnds, Backfill
    <2>3. Within(mem[l], votesCast)
        BY DEF CopiesWithin
    <2> QED BY <2>1, <2>2, <2>3, MemoryWithin
  <1> QED BY <1>2, <1>3, <1>4, <1>5 DEF LoadStep

LEMMA CountSave ==
  ASSUME TypeOK, CopiesWithin, NEW l \in Learners, SaveStep(l)
  PROVE  CopiesWithin'
  <1>1. /\ mem \in [Learners -> Files] /\ mem[l] \in Files /\ disk \in Files
        /\ seen \in [Learners -> Files] /\ seen[l] \in Files
      BY DEF TypeOK
  <1>2. CopiesWithin' <=> /\ Within(disk', votesCast')
                          /\ \A m \in Learners : Within(mem'[m], votesCast') /\ Within(seen'[m], votesCast')
      BY DEF CopiesWithin, Within
  <1>3. CASE AcquireStore(l) \/ SeeStale(l) \/ Steal(l) \/ GiveUp(l) \/ ReleaseStore(l)
    <2>1. UNCHANGED <<disk, mem, seen, votesCast>>
        BY <1>3 DEF AcquireStore, SeeStale, Steal, GiveUp, ReleaseStore, shared, history
    <2> QED BY <1>2, <2>1 DEF CopiesWithin
  <1>4. CASE ReadDisk(l) \/ ReadFails(l)
    <2>1. UNCHANGED <<disk, mem, votesCast>>
          /\ \E ks : seen' = [seen EXCEPT ![l] = Without(disk, ks)]
        BY <1>4 DEF ReadDisk, ReadFails, shared, history
    <2>2. \A ks : Within(Without(disk, ks), votesCast)
        BY <1>1, WithoutWithin DEF CopiesWithin
    <2>3. \A m \in Learners : Within(seen'[m], votesCast)
        BY <1>1, <2>1, <2>2 DEF CopiesWithin
    <2> QED BY <1>2, <2>1, <2>3 DEF CopiesWithin
  <1>5. CASE WriteDisk(l) \/ WriteFails(l)
    <2> DEFINE merged == MergedFile(seen[l], mem[l])
    <2>1. Within(merged, votesCast)
        BY <1>1, MergedWithin DEF CopiesWithin
    <2>2. /\ disk' = merged \/ disk' = disk
          /\ mem' = [mem EXCEPT ![l] = merged]
          /\ seen' = [seen EXCEPT ![l] = Empty] /\ votesCast' = votesCast
        BY <1>5 DEF WriteDisk, WriteFails, Remember, shared
    <2> HIDE DEF merged
    <2>3. Within(disk', votesCast')
        BY <2>1, <2>2 DEF CopiesWithin
    <2>4. \A m \in Learners : Within(mem'[m], votesCast') /\ Within(seen'[m], votesCast')
        BY <1>1, <2>1, <2>2, EmptyWithin DEF CopiesWithin
    <2> QED BY <1>2, <2>3, <2>4
  <1> QED BY <1>3, <1>4, <1>5 DEF SaveStep

LEMMA CountStep == TypeOK /\ CopiesWithin /\ [Next]_vars /\ TypeOK' => CopiesWithin'
  <1> SUFFICES ASSUME TypeOK, TypeOK', CopiesWithin, [Next]_vars
               PROVE  CopiesWithin'
      OBVIOUS
  <1>1. CopiesWithin' <=> /\ Within(disk', votesCast')
                          /\ \A m \in Learners : Within(mem'[m], votesCast') /\ Within(seen'[m], votesCast')
      BY DEF CopiesWithin, Within
  <1>2. CASE UNCHANGED vars
      BY <1>1, <1>2 DEF vars, shared, private, history, CopiesWithin
  <1>3. ASSUME NEW l \in Learners, LoadStep(l) \/ Change(l) \/ SaveStep(l)
        PROVE  CopiesWithin'
      BY <1>3, CountLoad, CountChange, CountSave
  <1>4. ASSUME NEW l \in Learners, Exit(l) \/ Crash(l) PROVE CopiesWithin'
    <2>1. /\ mem' = [mem EXCEPT ![l] = Empty] /\ seen' = [seen EXCEPT ![l] = Empty]
          /\ UNCHANGED <<disk, votesCast>>
        BY <1>4 DEF Exit, Crash, Gone, Forgotten, shared
    <2>2. \A m \in Learners : seen'[m] = seen[m] \/ seen'[m] = Empty
        BY <2>1 DEF TypeOK
    <2> QED BY <2>1, <2>2, EmptyWithin, MemoryWithin
  <1>5. ASSUME NEW l \in Learners, BeginBatch(l) \/ EndBatch(l) PROVE CopiesWithin'
    <2>1. UNCHANGED <<disk, mem, seen, votesCast>>
        BY <1>5 DEF BeginBatch, EndBatch, shared, history
    <2> QED BY <1>1, <2>1 DEF CopiesWithin
  <1> QED BY <1>2, <1>3, <1>4, <1>5 DEF Next

\* However often an insight without variants is loaded, merged and saved, and
\* whatever fails, crashes or is folded beside it, the file never claims more
\* validations of it than were made (_merge_insight keeps the larger of two
\* counters, never their sum).
THEOREM NeverCountedTwice == Spec => []NeverOvercounted
  <1>1. CopiesWithin => NeverOvercounted
      BY DEF CopiesWithin, Within, NeverOvercounted
  <1> QED BY <1>1, TypeInit, TypeStep, CountInit, CountStep, PTL DEF Spec

-----------------------------------------------------------------------------
(***************************************************************************)
(* Until a crash.  The lock file then belongs to whoever is between      *)
(* reading and releasing, nobody ever finds it stale, and therefore what a *)
(* save has read is still what is on disk when it writes.                  *)
(***************************************************************************)
LockInv ==
  /\ lock \in Learners \cup {Free}
  /\ \A l \in Learners :
       /\ pc[l] # "steal"
       /\ pc[l] \in Saving <=> lock = l
       /\ pc[l] = "write" /\ l \notin misread => seen[l] = Without(disk, drop[l])

LEMMA LockInit == Init => LockInv
  BY StoreAssumption DEF Init, LockInv, Saving

\* A step that leaves the file, the lock and what was read alone, and moves
\* one learner among the steps that need no lock.
LEMMA LockKept ==
  ASSUME TypeOK, LockInv, NEW l \in Learners,
         UNCHANGED <<disk, lock>>,
         pc[l] \in {"idle", "fold", "lock"}, pc'[l] \in {"idle", "fold", "lock"},
         \A m \in Learners : m # l =>
           /\ pc'[m] = pc[m] /\ drop'[m] = drop[m] /\ seen'[m] = seen[m]
           /\ m \in misread' <=> m \in misread
  PROVE  LockInv'
  <1> SUFFICES ASSUME NEW m \in Learners
               PROVE  /\ pc'[m] # "steal"
                      /\ pc'[m] \in Saving <=> lock = m
                      /\ pc'[m] = "write" /\ m \notin misread' => seen'[m] = Without(disk, drop'[m])
      BY DEF LockInv, Without
  <1>1. CASE m = l
      BY <1>1 DEF LockInv, Saving
  <1>2. CASE m # l
      BY <1>2 DEF LockInv
  <1> QED BY <1>1, <1>2

\* _save_insights touches the save of one learner only.
LEMMA SaveElsewhere ==
  ASSUME TypeOK, NEW l \in Learners, NEW ks, SaveNow(l, ks) \/ Save(l)
  PROVE  /\ pc[l] = "idle" /\ pc'[l] \in {"idle", "lock"}
         /\ \A m \in Learners : m # l =>
              pc'[m] = pc[m] /\ drop'[m] = drop[m] /\ (m \in dirty' <=> m \in dirty)
  BY DEF Save, SaveNow, Goto, TypeOK

\* A load is alone with its memory.
LEMMA LoadElsewhere ==
  ASSUME TypeOK, NEW l \in Learners, LoadStep(l)
  PROVE  /\ UNCHANGED <<disk, lock, misread, robbed, unsaved, crashes>>
         /\ pc[l] \in {"idle", "fold"} /\ pc'[l] \in {"idle", "fold", "lock"}
         /\ \A m \in Learners : m # l =>
              /\ pc'[m] = pc[m] /\ drop'[m] = drop[m] /\ seen'[m] = seen[m] /\ mem'[m] = mem[m]
              /\ m \in alive' <=> m \in alive
              /\ m \in dirty' <=> m \in dirty
  <1> USE DEF TypeOK, Goto, shared, history, excuses
  <1>1. CASE Load(l)
      BY <1>1 DEF Load
  <1>2. CASE LoadFails(l)
      BY <1>2 DEF LoadFails
  <1>3. CASE FoldEnds(l)
      BY <1>3 DEF FoldEnds, DropFolded
  <1>4. CASE Backfill(l)
    <2>1. SaveNow(l, {})
        BY <1>4 DEF Backfill
    <2> QED BY <1>4, <2>1, SaveElsewhere DEF Backfill
  <1>5. ASSUME NEW j \in Keys, NEW k \in Keys, Fold(l, j, k)
        PROVE  /\ UNCHANGED <<disk, lock, misread, robbed, unsaved, crashes, alive, dirty, pc, seen>>
               /\ pc[l] = "fold"
               /\ \A m \in Learners : m # l => drop'[m] = drop[m] /\ mem'[m] = mem[m]
      BY <1>5 DEF Fold
  <1> QED BY <1>1, <1>2, <1>3, <1>4, <1>5 DEF LoadStep

LEMMA LockStep ==
  ASSUME TypeOK, LockInv, [Next]_vars, crashes' = 0
  PROVE  LockInv'
  <1>1. CASE UNCHANGED vars
      BY <1>1 DEF vars, shared, private, history, excuses, LockInv, Without
  <1>2. ASSUME NEW l \in Learners, Change(l) PROVE LockInv'
    <2>1. UNCHANGED <<disk, lock, seen, misread>> /\ \E ks : SaveNow(l, ks) \/ Save(l)
        BY <1>2, ChangeSaves DEF shared
    <2> QED BY <2>1, SaveElsewhere, LockKept
  <1>3. ASSUME NEW l \in Learners, LoadStep(l) PROVE LockInv'
      BY <1>3, LoadElsewhere, LockKept
  <1>4. ASSUME NEW l \in Learners, BeginBatch(l) PROVE LockInv'
      BY <1>4 DEF BeginBatch, shared, history, excuses, LockInv, Without
  <1>5. ASSUME NEW l \in Learners, EndBatch(l) PROVE LockInv'
    <2>1. CASE l \in dirty
      <3>1. SaveNow(l, {}) /\ UNCHANGED <<disk, lock, seen, misread>>
          BY <1>5, <2>1 DEF EndBatch, shared, history, excuses
      <3> QED BY <3>1, SaveElsewhere, LockKept
    <2>2. CASE l \notin dirty
        BY <1>5, <2>2 DEF EndBatch, shared, history, excuses, LockInv, Without
    <2> QED BY <2>1, <2>2
  <1>6. ASSUME NEW l \in Learners, Exit(l) PROVE LockInv'
    <2>1. /\ pc[l] = "idle" /\ pc'[l] = "idle" /\ UNCHANGED <<disk, lock>>
          /\ \A m \in Learners : m # l =>
               /\ pc'[m] = pc[m] /\ drop'[m] = drop[m] /\ seen'[m] = seen[m]
               /\ m \in misread' <=> m \in misread
        BY <1>6 DEF Exit, Loaded, Gone, Forgotten, shared, TypeOK
    <2> QED BY <2>1, LockKept
  <1>7. ASSUME NEW l \in Learners, Crash(l) PROVE LockInv'
    <2>1. crashes' = crashes + 1 /\ crashes \in Nat
        BY <1>7, StoreAssumption DEF Crash, TypeOK
    <2> QED BY <2>1
  <1>8. ASSUME NEW l \in Learners, SaveStep(l) PROVE LockInv'
    <2> SUFFICES ASSUME NEW m \in Learners
                 PROVE  /\ lock' \in Learners \cup {Free}
                        /\ pc'[m] # "steal"
                        /\ pc'[m] \in Saving <=> lock' = m
                        /\ pc'[m] = "write" /\ m \notin misread' => seen'[m] = Without(disk', drop'[m])
        BY <1>8 DEF LockInv, Without
    <2> USE StoreAssumption DEF shared, history, excuses, Goto, Saving, LockInv, TypeOK
    <2>1. CASE AcquireStore(l)
        BY <2>1 DEF AcquireStore
    <2>2. CASE SeeStale(l) \/ Steal(l)
        BY <2>2 DEF SeeStale, Steal
    <2>3. CASE GiveUp(l)
        BY <2>3 DEF GiveUp
    <2>4. CASE ReadDisk(l)
        BY <2>4 DEF ReadDisk
    <2>5. CASE ReadFails(l)
        BY <2>5 DEF ReadFails
    <2>6. CASE WriteDisk(l)
        BY <2>6 DEF WriteDisk, Remember
    <2>7. CASE WriteFails(l)
        BY <2>7 DEF WriteFails, Remember
    <2>8. CASE ReleaseStore(l)
        BY <2>8 DEF ReleaseStore
    <2> QED BY <1>8, <2>1, <2>2, <2>3, <2>4, <2>5, <2>6, <2>7, <2>8 DEF SaveStep
  <1> QED BY <1>1, <1>2, <1>3, <1>4, <1>5, <1>6, <1>7, <1>8 DEF Next

UntilCrash == crashes = 0 => LockInv

LEMMA CrashesCounted == TypeOK /\ [Next]_vars => crashes' = crashes \/ crashes' = crashes + 1
  <1> SUFFICES ASSUME TypeOK, [Next]_vars PROVE crashes' = crashes \/ crashes' = crashes + 1
      OBVIOUS
  <1>1. CASE UNCHANGED vars
      BY <1>1 DEF vars, history
  <1>2. ASSUME NEW l \in Learners, Next, LoadStep(l) \/ Change(l)
        PROVE  crashes' = crashes
      BY <1>2, LoadElsewhere, ChangeSaves
  <1>3. ASSUME NEW l \in Learners, \/ SaveStep(l) \/ BeginBatch(l) \/ EndBatch(l) \/ Exit(l)
        PROVE  crashes' = crashes
      BY <1>3 DEF SaveStep, AcquireStore, SeeStale, Steal, GiveUp, ReadDisk, ReadFails,
         WriteDisk, WriteFails, ReleaseStore, BeginBatch, EndBatch, Exit, history
  <1>4. ASSUME NEW l \in Learners, Crash(l) PROVE crashes' = crashes + 1
      BY <1>4 DEF Crash
  <1> QED BY <1>1, <1>2, <1>3, <1>4 DEF Next

LEMMA UntilCrashStep == TypeOK /\ UntilCrash /\ [Next]_vars => UntilCrash'
  <1> SUFFICES ASSUME TypeOK, UntilCrash, [Next]_vars, crashes' = 0
               PROVE  LockInv'
      BY DEF UntilCrash
  <1>1. crashes' = crashes \/ crashes' = crashes + 1
      BY CrashesCounted
  <1>2. crashes = 0
      BY <1>1, StoreAssumption DEF TypeOK
  <1> QED BY <1>2, LockStep DEF UntilCrash

LEMMA UntilCrashHolds == Spec => [](TypeOK /\ UntilCrash)
  <1>1. Init => UntilCrash
      BY LockInit DEF UntilCrash
  <1> QED BY <1>1, TypeInit, TypeStep, UntilCrashStep, PTL DEF Spec

\* Until a writer is killed, no two saves are between reading the file and
\* releasing the lock at the same time (_save_insights_now), for any number of
\* learners and however long the lock is held.
THEOREM SavesAreExclusive == Spec => []SavesExclude
  <1>1. TypeOK /\ UntilCrash => SavesExclude
      BY DEF UntilCrash, LockInv, SavesExclude
  <1> QED BY <1>1, UntilCrashHolds, PTL

\* What a merge keeps of the file it starts from.
LEMMA MergedCovers ==
  ASSUME NEW f \in Files, NEW g \in Files, NEW k \in Keys
  PROVE  Covers(MergedFile(f, g), f, k)
  <1> SUFFICES ASSUME f[k] # Absent
               PROVE  MergedFile(f, g)[k] # Absent /\ MergedFile(f, g)[k] >= f[k]
      BY DEF Covers
  <1>1. f[k] \in Nat /\ g[k] \in Nat \cup {Absent}
      BY DEF Files
  <1>2. MergedFile(f, g)[k] = IF g[k] = Absent THEN f[k] ELSE Merged(g[k], f[k])
      BY DEF MergedFile
  <1>3. CASE g[k] = Absent
      BY <1>1, <1>2, <1>3
  <1>4. CASE g[k] # Absent
    <2>1. Merged(g[k], f[k]) \in Nat /\ Merged(g[k], f[k]) >= f[k]
        BY <1>1, <1>4 DEF Merged
    <2> QED BY <1>2, <1>4, <2>1, StoreAssumption
  <1> QED BY <1>3, <1>4

\* "Start from disk to avoid losing entries from other processes": until a
\* writer is killed, a save takes from the file only what it was told to drop
\* or could not read.
THEOREM SavesLoseNothing == Spec => DiskGrowsUntilCrash
  <1> DEFINE Grows == crashes = 0 => LosesNothing
  <1>1. ASSUME TypeOK, LockInv, [Next]_vars PROVE LosesNothing \/ UNCHANGED disk
    <2>1. UNCHANGED disk \/ \E l \in Learners : WriteDisk(l)
      <3>1. ASSUME NEW l \in Learners, LoadStep(l) \/ Change(l) PROVE UNCHANGED disk
          BY <1>1, <3>1, LoadElsewhere, ChangeSaves DEF shared
      <3> QED BY <1>1, <3>1 DEF Next, vars, shared, BeginBatch, EndBatch, Exit, Crash,
             SaveStep, AcquireStore, SeeStale, Steal, GiveUp, ReadDisk, ReadFails,
             WriteFails, ReleaseStore
    <2>2. ASSUME NEW l \in Learners, WriteDisk(l), NEW k \in Keys,
                 l \notin misread, k \notin drop[l]
          PROVE  Covers(disk', disk, k)
      <3>1. pc[l] = "write" /\ disk' = MergedFile(seen[l], mem[l])
          BY <2>2 DEF WriteDisk, Remember, Goto
      <3>2. seen[l] \in Files /\ mem[l] \in Files
          BY <1>1 DEF TypeOK
      <3>3. seen[l][k] = disk[k]
          BY <1>1, <2>2, <3>1 DEF LockInv, Without
      <3>4. Covers(MergedFile(seen[l], mem[l]), seen[l], k)
          BY <3>2, MergedCovers
      <3> QED BY <3>1, <3>3, <3>4 DEF Covers
    <2>3. ASSUME NEW l \in Learners, WriteDisk(l) PROVE pc[l] = "write"
        BY <2>3 DEF WriteDisk, Remember, Goto
    <2> QED BY <2>1, <2>2, <2>3 DEF LosesNothing
  <1>2. TypeOK /\ UntilCrash /\ [Next]_vars => [Grows]_disk
      BY <1>1 DEF UntilCrash
  <1> HIDE DEF Grows
  <1>3. Spec => [][Grows]_disk
      BY <1>2, UntilCrashHolds, PTL DEF Spec
  <1> QED BY <1>3 DEF DiskGrowsUntilCrash, Grows

-----------------------------------------------------------------------------
(***************************************************************************)
(* What a clean learner remembers is on disk, until a crash.  Of a save    *)
(* under way nothing needs to be known before it has written the file: it  *)
(* gives up, which leaves the learner dirty, or fails, which is excused, or *)
(* makes its memory the file.  No save drops a key that was never purged.  *)
(***************************************************************************)

\* Nothing is under way for l and nothing marked, or it has just written, or it
\* loads and has folded nothing yet.
Settled(l) ==
  /\ l \in alive \ unsaved
  /\ \/ pc[l] = "release"
     \/ pc[l] = "idle" /\ l \notin dirty
     \/ pc[l] = "fold" /\ drop[l] = {}

SavedInv ==
  \A l \in Learners :
    /\ pc[l] = "fold" /\ drop[l] = {} => mem[l] = seen[l]
    /\ \A k \in Keys \ purged :
         k \notin drop[l] /\ (k \notin robbed /\ Settled(l) => Covers(disk, mem[l], k))

LEMMA SavedInit == Init => SavedInv
  BY DEF Init, SavedInv, Settled

LEMMA CoversReflexive ==
  ASSUME NEW f \in Files, NEW k \in Keys
  PROVE  Covers(f, f, k)
  BY DEF Covers, Files

\* The votes of a file that covers what covers a memory.
LEMMA CoversTransitive ==
  ASSUME NEW e \in Files, NEW f \in Files, NEW g \in Files, NEW k \in Keys,
         Covers(e, f, k), Covers(f, g, k)
  PROVE  Covers(e, g, k)
  <1>1. {e[k], f[k], g[k]} \subseteq Nat \cup {Absent}
      BY DEF Files
  <1> QED BY <1>1 DEF Covers

\* A step of l that leaves the file alone, and l not settled or settled as before.
LEMMA SavedKept ==
  ASSUME SavedInv, NEW l \in Learners,
         UNCHANGED <<disk, robbed>>,
         purged \subseteq purged',
         \A k \in Keys \ purged' : k \notin drop'[l],
         pc'[l] = "fold" /\ drop'[l] = {} => mem'[l] = seen'[l],
         Settled(l)' => \A k \in Keys \ (purged' \cup robbed) : Covers(disk, mem'[l], k),
         \A m \in Learners : m # l =>
           /\ pc'[m] = pc[m] /\ drop'[m] = drop[m] /\ mem'[m] = mem[m] /\ seen'[m] = seen[m]
           /\ m \in alive' <=> m \in alive
           /\ m \in dirty' <=> m \in dirty
           /\ m \in unsaved' <=> m \in unsaved
  PROVE  SavedInv'
  <1>1. ASSUME NEW m \in Learners, m # l
        PROVE  /\ pc'[m] = "fold" /\ drop'[m] = {} => mem'[m] = seen'[m]
               /\ \A k \in Keys \ purged' :
                    k \notin drop'[m] /\ (k \notin robbed /\ Settled(m)' => Covers(disk, mem'[m], k))
    <2>1. Settled(m)' => Settled(m)
        BY <1>1 DEF Settled
    <2> QED BY <1>1, <2>1 DEF SavedInv
  <1>2. ASSUME NEW m \in Learners
        PROVE  /\ pc'[m] = "fold" /\ drop'[m] = {} => mem'[m] = seen'[m]
               /\ \A k \in Keys \ purged' :
                    k \notin drop'[m] /\ (k \notin robbed /\ Settled(m)' => Covers(disk, mem'[m], k))
      BY <1>1
  <1> QED BY <1>2 DEF SavedInv, Covers

LEMMA SavedLoad ==
  ASSUME TypeOK, TypeOK', SavedInv, NEW l \in Learners, LoadStep(l)
  PROVE  SavedInv'
  <1>0. /\ UNCHANGED <<disk, robbed, unsaved>>
        /\ \A m \in Learners : m # l =>
             /\ pc'[m] = pc[m] /\ drop'[m] = drop[m] /\ mem'[m] = mem[m] /\ seen'[m] = seen[m]
             /\ m \in alive' <=> m \in alive
             /\ m \in dirty' <=> m \in dirty
             /\ m \in unsaved' <=> m \in unsaved
      BY LoadElsewhere
  <1>1. disk \in Files /\ mem \in [Learners -> Files] /\ seen \in [Learners -> Files]
        /\ pc \in [Learners -> Places] /\ drop \in [Learners -> SUBSET Keys]
      BY DEF TypeOK, Places
  <1>2. CASE Load(l)
    <2>1. mem'[l] = disk /\ seen'[l] = disk /\ UNCHANGED <<purged, drop>>
        BY <1>1, <1>2 DEF Load, excuses
    <2>2. \A k \in Keys : Covers(disk, mem'[l], k)
        BY <1>1, <2>1, CoversReflexive
    <2>3. \A k \in Keys \ purged' : k \notin drop'[l]
        BY <2>1 DEF SavedInv
    <2> QED BY <1>0, <2>1, <2>2, <2>3, SavedKept
  <1>3. CASE LoadFails(l)
    <2>1. PICK ks : mem' = [mem EXCEPT ![l] = Without(disk, ks)]
        BY <1>3 DEF LoadFails
    <2>2. mem'[l] = Without(disk, ks) /\ UNCHANGED <<purged, drop, pc>> /\ pc[l] = "idle"
        BY <1>1, <1>3, <2>1 DEF LoadFails, excuses, TypeOK
    <2>3. \A k \in Keys : Covers(disk, mem'[l], k)
      <3>1. \A k \in Keys : Covers(disk, disk, k)
          BY <1>1, CoversReflexive
      <3> QED BY <2>2, <3>1 DEF Covers, Without
    <2>4. \A k \in Keys \ purged' : k \notin drop'[l]
        BY <2>2 DEF SavedInv
    <2> QED BY <1>0, <2>2, <2>3, <2>4, SavedKept
  <1>4. CASE FoldEnds(l)
    <2>1. UNCHANGED <<mem, drop, purged, alive, dirty>> /\ pc[l] = "fold"
          /\ pc'[l] = IF drop[l] = {} THEN "idle" ELSE "lock"
        BY <1>1, <1>4 DEF FoldEnds, DropFolded, history, excuses
    <2>2. Settled(l)' => Settled(l)
        BY <1>0, <2>1 DEF Settled
    <2>3. \A k \in Keys \ purged' : k \notin drop'[l]
        BY <2>1 DEF SavedInv
    <2>4. Settled(l)' => \A k \in Keys \ (purged' \cup robbed) : Covers(disk, mem'[l], k)
        BY <2>1, <2>2 DEF SavedInv
    <2> QED BY <1>0, <2>1, <2>3, <2>4, SavedKept
  <1>5. CASE Backfill(l)
    <2>1. SaveNow(l, {}) /\ UNCHANGED purged
        BY <1>5 DEF Backfill, history, excuses
    <2>2. pc'[l] = "lock" /\ drop'[l] = {}
        BY <1>1, <2>1 DEF SaveNow, Goto
    <2>3. ~Settled(l)'
        BY <2>2 DEF Settled
    <2> QED BY <1>0, <2>1, <2>2, <2>3, SavedKept
  <1>6. ASSUME NEW j \in Keys, NEW k \in Keys, Fold(l, j, k) PROVE SavedInv'
    <2> DEFINE gone == {i \in {j, k} : seen[l][i] # Absent}
    <2>1. /\ pc[l] = "fold" /\ UNCHANGED <<pc, seen, alive, dirty>> /\ Variants(mem[l], j, k)
          /\ drop'[l] = drop[l] \cup gone /\ purged' = purged \cup gone
        BY <1>1, <1>6 DEF Fold
    <2>2. drop'[l] # {}
      <3>1. drop[l] = {} => j \in gone
          BY <2>1 DEF SavedInv, Variants
      <3> QED BY <2>1, <3>1
    <2>3. ~Settled(l)'
        BY <2>1, <2>2 DEF Settled
    <2>4. \A i \in Keys \ purged' : i \notin drop'[l]
        BY <2>1 DEF SavedInv
    <2> HIDE DEF gone
    <2>5. purged \subseteq purged'
        BY <2>1
    <2> QED BY <1>0, <2>2, <2>3, <2>4, <2>5, SavedKept
  <1> QED BY <1>2, <1>3, <1>4, <1>5, <1>6 DEF LoadStep

LEMMA SavedChange ==
  ASSUME TypeOK, TypeOK', SavedInv, NEW l \in Learners, Change(l)
  PROVE  SavedInv'
  <1>1. /\ UNCHANGED <<disk, robbed, unsaved, alive, seen>>
        /\ pc[l] = "idle"
      BY ChangeSaves DEF shared
  <1>2. PICK ks \in SUBSET Keys : (SaveNow(l, ks) \/ Save(l)) /\ purged' = purged \cup ks
      BY ChangeSaves
  <1>3. ~Settled(l)' /\ pc'[l] # "fold"
      BY <1>1, <1>2 DEF SaveNow, Save, Goto, Settled, TypeOK
  <1>4. \A m \in Learners : m # l => mem'[m] = mem[m]
      BY ChangeRemembers DEF TypeOK
  <1>5. \A k \in Keys \ purged' : k \notin drop'[l]
      BY <1>2 DEF SaveNow, Save, SavedInv, TypeOK
  <1>6. \A m \in Learners : m # l =>
          pc'[m] = pc[m] /\ drop'[m] = drop[m] /\ (m \in dirty' <=> m \in dirty)
      BY <1>2, SaveElsewhere
  <1>7. purged \subseteq purged'
      BY <1>2
  <1> QED BY <1>1, <1>3, <1>4, <1>5, <1>6, <1>7, SavedKept

LEMMA SavedSave ==
  ASSUME TypeOK, TypeOK', LockInv, SavedInv, NEW l \in Learners, SaveStep(l)
  PROVE  SavedInv'
  <1>0. /\ pc \in [Learners -> Places] /\ drop \in [Learners -> SUBSET Keys]
        /\ mem \in [Learners -> Files] /\ seen \in [Learners -> Files]
        /\ dirty \subseteq Learners /\ unsaved \subseteq Learners
      BY DEF TypeOK, Places
  <1>1. CASE ~WriteDisk(l) /\ ~WriteFails(l)
    <2>1. /\ UNCHANGED <<disk, mem, alive, purged, robbed, unsaved>>
          /\ (UNCHANGED drop \/ drop' = [drop EXCEPT ![l] = {}])
          /\ \A m \in Learners : m # l =>
               pc'[m] = pc[m] /\ seen'[m] = seen[m] /\ (m \in dirty' <=> m \in dirty)
        BY <1>0, <1>1 DEF SaveStep, AcquireStore, SeeStale, Steal, GiveUp, ReadDisk,
           ReadFails, ReleaseStore, Goto, shared, history, excuses
    <2>2. pc'[l] # "fold" /\ (Settled(l)' => Settled(l))
        BY <1>0, <1>1 DEF SaveStep, AcquireStore, SeeStale, Steal, GiveUp, ReadDisk,
           ReadFails, ReleaseStore, Goto, Settled, history, excuses
    <2>3. \A m \in Learners : m # l => drop'[m] = drop[m]
        BY <1>0, <2>1
    <2>4. \A k \in Keys \ purged' : k \notin drop'[l]
      <3>1. \A k \in drop'[l] : k \in drop[l]
          BY <1>0, <2>1
      <3> QED BY <2>1, <3>1 DEF SavedInv
    <2>5. Settled(l)' => \A k \in Keys \ (purged' \cup robbed) : Covers(disk, mem'[l], k)
        BY <2>1, <2>2 DEF SavedInv
    <2> QED BY <2>1, <2>2, <2>3, <2>4, <2>5, SavedKept
  <1>2. CASE WriteFails(l)
    <2>1. /\ UNCHANGED <<disk, alive, purged, robbed, drop, dirty>> /\ pc'[l] = "release"
          /\ unsaved' = unsaved \cup {l}
          /\ \A m \in Learners : m # l =>
               pc'[m] = pc[m] /\ seen'[m] = seen[m] /\ mem'[m] = mem[m]
        BY <1>0, <1>2 DEF WriteFails, Remember, Goto, shared
    <2>2. ~Settled(l)'
        BY <2>1 DEF Settled
    <2>3. \A k \in Keys \ purged' : k \notin drop'[l]
        BY <2>1 DEF SavedInv
    <2> QED BY <2>1, <2>2, <2>3, SavedKept
  <1>3. CASE WriteDisk(l)
    <2> DEFINE merged == MergedFile(seen[l], mem[l])
    <2>1. /\ pc[l] = "write" /\ disk' = merged
          /\ mem' = [mem EXCEPT ![l] = merged] /\ seen' = [seen EXCEPT ![l] = Empty]
          /\ UNCHANGED <<alive, dirty, drop, purged>>
          /\ pc' = [pc EXCEPT ![l] = "release"] /\ unsaved' = unsaved \ {l}
          /\ robbed' = IF l \in misread
                       THEN robbed \cup {k \in Keys : ~Covers(merged, disk, k)} ELSE robbed
        BY <1>3 DEF WriteDisk, Remember, Goto
    <2>2. disk \in Files /\ disk' \in Files /\ seen[l] \in Files /\ mem[l] \in Files
        BY DEF TypeOK
    <2>3. ASSUME NEW k \in Keys \ (purged \cup robbed') PROVE k \notin robbed /\ Covers(disk', disk, k)
      <3>1. CASE l \in misread
          BY <2>1, <2>3, <3>1
      <3>2. CASE l \notin misread
        <4>1. seen[l][k] = disk[k]
            BY <2>1, <2>3, <3>2 DEF LockInv, Without, SavedInv
        <4>2. Covers(merged, seen[l], k)
            BY <2>2, MergedCovers
        <4> QED BY <2>1, <2>3, <3>2, <4>1, <4>2 DEF Covers
      <3> QED BY <3>1, <3>2
    <2> HIDE DEF merged
    <2>4. ASSUME NEW m \in Learners
          PROVE  /\ pc'[m] = "fold" /\ drop'[m] = {} => mem'[m] = seen'[m]
                 /\ \A k \in Keys \ purged' :
                      /\ k \notin drop'[m]
                      /\ k \notin robbed' /\ Settled(m)' => Covers(disk', mem'[m], k)
      <3>1. CASE m = l
        <4>1. mem'[m] = disk' /\ pc'[m] = "release"
            BY <1>0, <2>1, <3>1
        <4> QED BY <2>1, <2>2, <4>1, CoversReflexive DEF SavedInv
      <3>2. CASE m # l
        <4>1. mem'[m] = mem[m] /\ seen'[m] = seen[m] /\ pc'[m] = pc[m] /\ mem[m] \in Files
            BY <1>0, <2>1, <3>2
        <4>2. Settled(m)' => Settled(m)
            BY <2>1, <3>2, <4>1 DEF Settled
        <4>3. ASSUME NEW k \in Keys \ purged', k \notin robbed', Settled(m)'
              PROVE  Covers(disk', mem'[m], k)
          <5>1. k \notin robbed /\ Covers(disk', disk, k)
              BY <2>1, <2>3, <4>3
          <5>2. Covers(disk, mem[m], k)
              BY <2>1, <4>2, <4>3, <5>1 DEF SavedInv
          <5> QED BY <2>2, <4>1, <5>1, <5>2, CoversTransitive
        <4> QED BY <2>1, <4>1, <4>3 DEF SavedInv
      <3> QED BY <3>1, <3>2
    <2> QED BY <2>4 DEF SavedInv, Covers
  <1> QED BY <1>1, <1>2, <1>3

LEMMA SavedStep ==
  ASSUME TypeOK, TypeOK', LockInv, SavedInv, [Next]_vars, crashes' = crashes
  PROVE  SavedInv'
  <1>1. CASE UNCHANGED vars
      BY <1>1 DEF vars, shared, private, history, excuses, SavedInv, Settled, Covers
  <1>2. ASSUME NEW l \in Learners, LoadStep(l) \/ Change(l) \/ SaveStep(l) PROVE SavedInv'
      BY <1>2, SavedLoad, SavedChange, SavedSave
  <1>3. ASSUME NEW l \in Learners, BeginBatch(l) PROVE SavedInv'
      BY <1>3 DEF BeginBatch, SavedInv, Settled, Covers, shared, history, excuses
  <1>4. ASSUME NEW l \in Learners, EndBatch(l) PROVE SavedInv'
    <2>1. CASE l \in dirty
      <3>1. SaveNow(l, {}) /\ UNCHANGED <<disk, alive, mem, seen, purged, robbed, unsaved>>
          BY <1>4, <2>1 DEF EndBatch, shared, history, excuses
      <3>2. ~Settled(l)' /\ drop'[l] = {} /\ pc'[l] = "lock"
          BY <3>1 DEF SaveNow, Goto, Settled, TypeOK
      <3>3. \A m \in Learners : m # l =>
              pc'[m] = pc[m] /\ drop'[m] = drop[m] /\ (m \in dirty' <=> m \in dirty)
          BY <3>1, SaveElsewhere
      <3> QED BY <3>1, <3>2, <3>3, SavedKept
    <2>2. CASE l \notin dirty
        BY <1>4, <2>2 DEF EndBatch, SavedInv, Settled, Covers, shared, history, excuses
    <2> QED BY <2>1, <2>2
  <1>5. ASSUME NEW l \in Learners, Exit(l) PROVE SavedInv'
    <2>1. UNCHANGED <<disk, purged, robbed>> /\ ~Settled(l)' /\ drop'[l] = {} /\ pc'[l] = "idle"
        BY <1>5 DEF Exit, Gone, Forgotten, shared, Settled, TypeOK
    <2>2. \A m \in Learners : m # l =>
            /\ pc'[m] = pc[m] /\ drop'[m] = drop[m] /\ mem'[m] = mem[m] /\ seen'[m] = seen[m]
            /\ m \in alive' <=> m \in alive
            /\ m \in dirty' <=> m \in dirty
            /\ m \in unsaved' <=> m \in unsaved
        BY <1>5 DEF Exit, Gone, Forgotten, TypeOK
    <2> QED BY <2>1, <2>2, SavedKept
  <1>6. ASSUME NEW l \in Learners, Crash(l) PROVE SavedInv'
    <2>1. crashes' = crashes + 1 /\ crashes \in Nat
        BY <1>6, StoreAssumption DEF Crash, TypeOK
    <2> QED BY <2>1
  <1> QED BY <1>1, <1>2, <1>3, <1>4, <1>5, <1>6 DEF Next

CleanUntilCrash == crashes = 0 => SavedInv

LEMMA CleanStep ==
  TypeOK /\ UntilCrash /\ CleanUntilCrash /\ [Next]_vars /\ TypeOK' => CleanUntilCrash'
  <1> SUFFICES ASSUME TypeOK, UntilCrash, CleanUntilCrash, [Next]_vars, TypeOK', crashes' = 0
               PROVE  SavedInv'
      BY DEF CleanUntilCrash
  <1>1. crashes' = crashes \/ crashes' = crashes + 1
      BY CrashesCounted
  <1>2. crashes = 0 /\ crashes' = crashes
      BY <1>1, StoreAssumption DEF TypeOK
  <1> QED BY <1>2, SavedStep DEF UntilCrash, CleanUntilCrash

\* Until a process is killed, a learner that believes it has nothing to flush has
\* everything on disk that was not dropped or misread by a save, whatever loads,
\* folds, batches, saves given up and purges of however many learners came before
\* (_save_insights, end_batch), unless its own last write failed.
THEOREM CleanMeansSaved == Spec => []CleanIsSaved
  <1>1. TypeOK /\ CleanUntilCrash => CleanIsSaved
      BY DEF CleanUntilCrash, SavedInv, Settled, CleanIsSaved, TypeOK
  <1>2. Init => CleanUntilCrash
      BY SavedInit DEF CleanUntilCrash
  <1> QED BY <1>1, <1>2, CleanStep, TypeInit, TypeStep, UntilCrashHolds, PTL DEF Spec
=============================================================================
