-------------------------- MODULE SupervisorProofs ---------------------------
(***************************************************************************)
(* Proofs about Supervisor, for any processes, services, limits and faults *)
(* that its constants allow: at most one watchdog does its work, it starts *)
(* a service no more often than an hour's limit allows, one process of a   *)
(* service with a lock file works, `spark down` leaves nobody behind that  *)
(* it has not told to stop, and every variable keeps its type.             *)
(***************************************************************************)
EXTENDS Supervisor, FiniteSetTheorems, TLAPS

\* What the argument needs of the process table: it has an entry for each pid.
Table == kind = [p \in Pids |-> kind[p]] /\ st = [p \in Pids |-> st[p]]

\* Watchdogs that are past their look at the other processes.
Past == {w \in Running("watchdog") : st[w] # "starting"}

IInv == Table /\ OneWatchdog

LEMMA NotManaged == "watchdog" \notin Managed /\ "none" \notin Managed /\ "stranger" \notin Managed
  BY SupervisorAssumption DEF SupervisorAssumption, Services

LEMMA InitIInv == Init => IInv
  BY DEF Init, IInv, Table, OneWatchdog, Running

\* No process that was not past it before is so after these changes ...
LEMMA Changes ==
  ASSUME IInv, NEW gone, NEW warned, NEW new, NEW k,
         TableChanges(gone, warned, new, k)
  PROVE  Table' /\ Past' \subseteq Past
  BY DEF TableChanges, IInv, Table, Past, Running

LEMMA EndsChange == ASSUME IInv, NEW p \in Pids, Ends(p) PROVE Table' /\ Past' \subseteq Past
  BY Changes DEF Ends

\* ... or after a step of a process that has another place to go to.
LEMMA Goes ==
  ASSUME IInv, NEW p \in Pids, NEW s, Goto(p, s),
         kind[p] = "watchdog" => st[p] # "starting"
  PROVE  Table' /\ Past' \subseteq Past
  BY DEF Goto, IInv, Table, Past, Running

LEMMA Same == ASSUME IInv, UNCHANGED <<kind, st>> PROVE Table' /\ Past' \subseteq Past
  BY DEF IInv, Table, Past, Running

LEMMA ServiceStays ==
  ASSUME IInv, NEW p \in Pids, ServiceStep(p) \/ Beat(p) \/ GetStuck(p)
  PROVE  Table' /\ Past' \subseteq Past
<1>1. CASE Begin(p)
  <2>1. kind[p] # "watchdog"
    BY <1>1, NotManaged DEF Begin
  <2> QED
    BY <1>1, <2>1, Goes, EndsChange DEF Begin
<1>2. CASE WriteLock(p) \/ LeaveLoop(p)
  <2>1. kind[p] # "watchdog"
    BY <1>2, NotManaged DEF WriteLock, LeaveLoop, Locking
  <2> QED
    BY <1>2, <2>1, Goes DEF WriteLock, LeaveLoop
<1>3. CASE Exit(p)
  BY <1>3, EndsChange DEF Exit
<1>4. CASE Beat(p) \/ GetStuck(p)
  BY <1>4, Same DEF Beat, GetStuck, table
<1> QED
  BY <1>1, <1>2, <1>3, <1>4 DEF ServiceStep

\* The one step that lets a watchdog past: it has seen no other.
LEMMA SeesOthers == ASSUME IInv, NEW w \in Pids, SeeOthers(w) PROVE IInv'
<1>1. CASE NobodyElse(w)
  <2>1. Goto(w, "claiming") /\ Running("watchdog") \subseteq {w}
    BY <1>1 DEF SeeOthers, NobodyElse
  <2>2. Table' /\ Running("watchdog")' \subseteq {w}
    BY <2>1 DEF Goto, IInv, Table, Running
  <2> QED
    BY <2>2 DEF IInv, OneWatchdog
<1>2. CASE ~NobodyElse(w)
  BY <1>2, EndsChange DEF SeeOthers, IInv, OneWatchdog, Past
<1> QED
  BY <1>1, <1>2

LEMMA WatchdogStays ==
  ASSUME IInv, NEW w \in Pids, WatchdogStep(w), ~SeeOthers(w)
  PROVE  Table' /\ Past' \subseteq Past
<1>1. CASE ClaimPidFile(w)
  BY <1>1, Goes, EndsChange DEF ClaimPidFile
<1>2. CASE BeginLoop(w) \/ Snapshot(w) \/ Save(w)
  BY <1>2, Goes DEF BeginLoop, Snapshot, Save
<1>3. CASE CheckHealthy(w)
  BY <1>3, Changes DEF CheckHealthy
<1>4. CASE CheckWaits(w)
  BY <1>4, Same DEF CheckWaits, table
<1>5. CASE CheckRestart(w)
  BY <1>5, Changes DEF CheckRestart
<1>6. CASE ExitWatchdog(w)
  BY <1>6, EndsChange DEF ExitWatchdog
<1> QED
  BY <1>1, <1>2, <1>3, <1>4, <1>5, <1>6 DEF WatchdogStep

LEMMA CommandStays ==
  ASSUME IInv, UpBegins \/ DownBegins \/ CommandStep
  PROVE  Table' /\ Past' \subseteq Past
<1>1. CASE UpStarts
  <2>1. CASE Head(cmd.rest) \in cmd.seen
    BY <1>1, <2>1, Same DEF UpStarts, table
  <2>2. CASE Head(cmd.rest) \notin cmd.seen
    BY <1>1, <2>2, Changes DEF UpStarts
  <2> QED
    BY <2>1, <2>2
<1>2. CASE DownSignals
  BY <1>2, Changes DEF DownSignals
<1>3. CASE UpBegins \/ DownBegins \/ DownMovesOn \/ CommandEnds
  BY <1>3, Same DEF UpBegins, DownBegins, DownMovesOn, CommandEnds, table
<1> QED
  BY <1>1, <1>2, <1>3 DEF CommandStep

LEMMA WorldStays ==
  ASSUME IInv,
         \/ \E p \in Pids : Crash(p) \/ TakePid(p) \/ LeavePid(p)
         \/ \E k \in {"watchdog", "openclaw_tailer"} \cap Kinds : StartByHand(k)
         \/ Tick
  PROVE  Table' /\ Past' \subseteq Past
<1>1. ASSUME NEW p \in Pids, Crash(p) PROVE Table' /\ Past' \subseteq Past
  BY <1>1, EndsChange DEF Crash
<1>2. ASSUME NEW p \in Pids, TakePid(p) \/ LeavePid(p) PROVE Table' /\ Past' \subseteq Past
  BY <1>2 DEF TakePid, LeavePid, IInv, Table, Past, Running
<1>3. ASSUME NEW k, StartByHand(k) PROVE Table' /\ Past' \subseteq Past
  BY <1>3, Changes DEF StartByHand
<1>4. ASSUME Tick PROVE Table' /\ Past' \subseteq Past
  BY <1>4, Same DEF Tick, table
<1> QED
  BY <1>1, <1>2, <1>3, <1>4

-----------------------------------------------------------------------------

LEMMA StepIInv == IInv /\ [Next]_vars => IInv'
<1> SUFFICES ASSUME IInv, [Next]_vars PROVE IInv'
  OBVIOUS
<1>1. ASSUME Table', Past' \subseteq Past PROVE IInv'
  BY <1>1 DEF IInv, OneWatchdog, Past
<1>2. CASE \E w \in Pids : SeeOthers(w)
  BY <1>2, SeesOthers
<1>3. CASE \E p \in Pids : ServiceStep(p) \/ Beat(p) \/ GetStuck(p)
  BY <1>1, <1>3, ServiceStays
<1>4. CASE \E w \in Pids : WatchdogStep(w) /\ ~SeeOthers(w)
  BY <1>1, <1>4, WatchdogStays
<1>5. CASE UpBegins \/ DownBegins \/ CommandStep
  BY <1>1, <1>5, CommandStays
<1>6. CASE \/ \E p \in Pids : Crash(p) \/ TakePid(p) \/ LeavePid(p)
           \/ \E k \in {"watchdog", "openclaw_tailer"} \cap Kinds : StartByHand(k)
           \/ Tick
  BY <1>1, <1>6, WorldStays
<1>7. CASE UNCHANGED vars
  BY <1>1, <1>7, Same DEF vars, table
<1> QED
  BY <1>2, <1>3, <1>4, <1>5, <1>6, <1>7 DEF Next

\* However many watchdogs are started, by commands, by hand or after crashes,
\* and whatever pids they get: at most one is past _check_single_instance
\* (spark_watchdog.py:40-101), because each looks for the other only after both
\* are in the process table.
THEOREM WatchdogIsAlone == Spec => []OneWatchdog
<1>1. IInv => OneWatchdog
  BY DEF IInv
<1> QED
  BY <1>1, InitIInv, StepIInv, PTL DEF Spec

-----------------------------------------------------------------------------
(* The limit on restarts.  It counts what the watchdog remembers; what it    *)
(* remembers must be what was launched, through its file if it was replaced. *)

Launches == launched \in [Managed -> Seq(Nat)]

Loaded(w) == w \in Past /\ st[w] \in {"loop", "checking"}
InPass(w) == w \in Past /\ st[w] = "checking"

Remembered ==
  ~forgot => /\ \A w \in Pids : Loaded(w) => mem[w].starts = launched
             /\ (\A w \in Pids : ~InPass(w)) => disk.starts = launched

\* What is remembered is a record of the three fields of the state file.
Whole(m) == m = [fails |-> m.fails, starts |-> m.starts, cool |-> m.cool]
Memories == /\ mem = [p \in Pids |-> mem[p]]
            /\ \A p \in Pids : Whole(mem[p])
            /\ Whole(disk)

RInv == IInv /\ Launches /\ Memories /\ Remembered /\ RestartsLimited

LEMMA InitRInv == Init => RInv
<1> SUFFICES ASSUME Init PROVE RInv
  OBVIOUS
<1>1. Launches
  BY DEF Init, Launches
<1>2. Remembered
  BY DEF Init, Remembered, Blank, Loaded, Past, Running
<1>3. RestartsLimited
  BY SupervisorAssumption DEF Init, RestartsLimited, SupervisorAssumption
<1>4. Memories
  BY DEF Init, Memories, Blank, Whole
<1> QED
  BY <1>1, <1>2, <1>3, <1>4, InitIInv DEF RInv

\* Ages grow, and the oldest go.
LEMMA OlderShrinks ==
  ASSUME NEW ages \in Seq(Nat)
  PROVE  Older(ages) \in Seq(Nat) /\ Len(Older(ages)) <= Len(ages)
<1> DEFINE Gone == {i \in 1..Len(ages) : ages[i] + 1 >= Hour}
           gone == Cardinality(Gone)
<1>1. gone \in 0..Len(ages)
  <2>1. IsFiniteSet(1..Len(ages)) /\ Cardinality(1..Len(ages)) = Len(ages)
    <3>1. Len(ages) \in Nat /\ 1 \in Int
      OBVIOUS
    <3>2. Cardinality(1..Len(ages)) = IF 1 > Len(ages) THEN 0 ELSE Len(ages) - 1 + 1
      BY <3>1, FS_Interval
    <3>3. IsFiniteSet(1..Len(ages))
      BY <3>1, FS_Interval
    <3> QED
      BY <3>1, <3>2, <3>3
  <2>2. gone <= Cardinality(1..Len(ages)) /\ IsFiniteSet(Gone)
    BY <2>1, FS_Subset
  <2> QED
    BY <2>1, <2>2, FS_CardinalityType
<1>2. Older(ages) = [i \in 1 .. Len(ages) - gone |-> ages[gone + i] + 1]
  BY DEF Older
<1> HIDE DEF gone
<1> QED
  BY <1>1, <1>2

\* A step that launches nothing, takes nobody past the checks, changes no memory
\* of a loaded watchdog, and neither loads one nor ends a pass.
LEMMA Forgetless ==
  ASSUME RInv, IInv', Memories', UNCHANGED launched, forgot => forgot',
         \A w \in Pids : Loaded(w)' => Loaded(w) /\ mem'[w].starts = mem[w].starts,
         ~forgot' => disk'.starts = disk.starts,
         ~forgot' /\ (\A w \in Pids : ~InPass(w))'
           => (\A w \in Pids : ~InPass(w)) \/ disk.starts = launched
  PROVE  RInv'
<1>1. Launches' /\ RestartsLimited'
  BY DEF RInv, Launches, RestartsLimited
<1>2. Remembered'
  BY DEF RInv, Remembered
<1> QED
  BY <1>1, <1>2 DEF RInv

LEMMA ChangesLoaded ==
  ASSUME IInv, NEW gone, NEW warned, NEW new, NEW k, TableChanges(gone, warned, new, k),
         \A p \in Pids : p = new => kind[p] = "none"
  PROVE  \A w \in Pids : /\ Loaded(w)' => Loaded(w) /\ w \notin gone
                         /\ InPass(w) /\ w \notin gone => InPass(w)'
  BY DEF TableChanges, IInv, Table, Loaded, InPass, Past, Running

LEMMA EndsLoaded ==
  ASSUME IInv, NEW p \in Pids, Ends(p)
  PROVE  \A w \in Pids : /\ Loaded(w)' => Loaded(w) /\ w # p /\ mem'[w] = mem[w]
                         /\ InPass(w) /\ w # p => InPass(w)'
<1>1. TableChanges({p}, {}, NoPid, "none") /\ \A q \in Pids : q # NoPid
  BY SupervisorAssumption DEF Ends, SupervisorAssumption
<1>2. \A w \in Pids : /\ Loaded(w)' => Loaded(w) /\ w # p
                      /\ InPass(w) /\ w # p => InPass(w)'
  BY <1>1, ChangesLoaded
<1>3. \A w \in Pids \ {p} : mem'[w] = mem[w]
  BY DEF Ends, Forgotten
<1> QED
  BY <1>2, <1>3

LEMMA GoesLoaded ==
  ASSUME IInv, NEW p \in Pids, NEW s, Goto(p, s), kind[p] # "watchdog"
  PROVE  \A w \in Pids : Loaded(w)' = Loaded(w) /\ InPass(w)' = InPass(w)
  BY DEF Goto, IInv, Table, Loaded, InPass, Past, Running

LEMMA SameLoaded ==
  ASSUME UNCHANGED <<kind, st>>
  PROVE  \A w \in Pids : Loaded(w)' = Loaded(w) /\ InPass(w)' = InPass(w)
  BY DEF Loaded, InPass, Past, Running

LEMMA FreeIsNone == \A new \in Spawned : \A p \in Pids : p = new => kind[p] = "none"
<1> DEFINE free == {p \in Pids : Free(p)}
           fresh == free \ {pidFile}
<1>1. Spawned \subseteq free \cup {NoPid}
  <2>1. CASE fresh = {}
    BY <2>1 DEF Spawned
  <2>2. CASE fresh # {}
    <3>1. (CHOOSE p \in fresh : TRUE) \in fresh
      BY <2>2
    <3> QED
      BY <2>2, <3>1 DEF Spawned
  <2> QED
    BY <2>1, <2>2
<1> QED
  BY <1>1, SupervisorAssumption DEF Free, SupervisorAssumption

LEMMA EndsMemories == ASSUME Memories, NEW gone, Forgotten(gone), UNCHANGED disk PROVE Memories'
  BY DEF Memories, Forgotten, Whole, Blank

LEMMA SameMemories == ASSUME Memories, UNCHANGED <<mem, disk>> PROVE Memories'
  BY DEF Memories, Whole

LEMMA WatchdogMemories ==
  ASSUME Memories, NEW w \in Pids, WatchdogStep(w)
  PROVE  Memories'
<1>1. CASE SeeOthers(w) \/ ClaimPidFile(w) \/ Snapshot(w) \/ ExitWatchdog(w)
  BY <1>1, EndsMemories, SameMemories
     DEF SeeOthers, ClaimPidFile, Snapshot, ExitWatchdog, Ends, memory, onDisk
<1>2. CASE BeginLoop(w)
  BY <1>2 DEF BeginLoop, Memories, Whole, onDisk
<1>3. CASE CheckHealthy(w)
  BY <1>3 DEF CheckHealthy, Memories, Whole, onDisk
<1>4. CASE CheckWaits(w)
  BY <1>4 DEF CheckWaits, Memories, Whole, onDisk
<1>5. CASE CheckRestart(w)
  <2>1. PICK new \in Spawned :
          mem' = [mem EXCEPT ![w] = IF new # NoPid THEN Recorded(@, At(w))
                                    ELSE [@ EXCEPT !.fails[At(w)] = Bumped(w, At(w))]]
    BY <1>5 DEF CheckRestart
  <2> QED
    BY <1>5, <2>1 DEF CheckRestart, Memories, Whole, onDisk, Recorded
<1>6. CASE Save(w)
  BY <1>6 DEF Save, Saved, Memories, Whole
<1> QED
  BY <1>1, <1>2, <1>3, <1>4, <1>5, <1>6 DEF WatchdogStep

LEMMA StepMemories == Memories /\ [Next]_vars => Memories'
<1> SUFFICES ASSUME Memories, [Next]_vars PROVE Memories'
  OBVIOUS
<1>1. ASSUME NEW p \in Pids, ServiceStep(p) \/ Beat(p) \/ GetStuck(p) PROVE Memories'
  BY <1>1, EndsMemories, SameMemories
     DEF ServiceStep, Begin, WriteLock, LeaveLoop, Exit, Beat, GetStuck, Ends, memory, onDisk
<1>2. ASSUME NEW p \in Pids, Crash(p) \/ TakePid(p) \/ LeavePid(p) PROVE Memories'
  <2>1. CASE Crash(p)
    <3>1. Forgotten({p}) /\ (UNCHANGED disk \/ disk' = Blank)
      BY <2>1 DEF Crash, Ends
    <3> QED
      BY <3>1, EndsMemories DEF Memories, Forgotten, Whole, Blank
  <2>2. CASE TakePid(p) \/ LeavePid(p)
    BY <2>2, SameMemories DEF TakePid, LeavePid, memory, onDisk
  <2> QED
    BY <1>2, <2>1, <2>2
<1>3. CASE UpBegins \/ DownBegins \/ CommandStep
  BY <1>3, EndsMemories, SameMemories
     DEF UpBegins, DownBegins, CommandStep, UpStarts, DownSignals, DownMovesOn, CommandEnds,
         memory, onDisk
<1>4. ASSUME NEW k, StartByHand(k) PROVE Memories'
  BY <1>4, SameMemories DEF StartByHand, memory, onDisk
<1>5. CASE Tick
  BY <1>5 DEF Tick, Memories, Whole, Aged
<1>6. CASE UNCHANGED vars
  BY <1>6, SameMemories DEF vars, memory, onDisk
<1> QED
  BY <1>1, <1>2, <1>3, <1>4, <1>5, <1>6, WatchdogMemories DEF Next

LEMMA ServiceRestarts ==
  ASSUME RInv, IInv', Memories', NEW p \in Pids, ServiceStep(p) \/ Beat(p) \/ GetStuck(p)
  PROVE  RInv'
<1>2. UNCHANGED <<disk, launched, forgot>>
  BY DEF ServiceStep, Begin, WriteLock, LeaveLoop, Exit, Beat, GetStuck, onDisk, history
<1>3. \A w \in Pids : /\ Loaded(w)' => Loaded(w) /\ mem'[w] = mem[w]
                      /\ InPass(w) => InPass(w)'
  <2>1. CASE Ends(p) /\ kind[p] # "watchdog"
    BY <2>1, EndsLoaded DEF RInv, InPass, Past, Running
  <2>2. CASE (\E s : Goto(p, s)) /\ kind[p] # "watchdog" /\ UNCHANGED memory
    BY <2>2, GoesLoaded DEF RInv, memory
  <2>3. CASE UNCHANGED <<kind, st, memory>>
    BY <2>3, SameLoaded DEF memory
  <2>4. CASE Begin(p)
    BY <2>1, <2>2, <2>4, NotManaged DEF Begin
  <2>5. CASE WriteLock(p) \/ LeaveLoop(p)
    BY <2>2, <2>5, NotManaged DEF WriteLock, LeaveLoop, Locking
  <2>6. CASE Exit(p)
    BY <2>1, <2>6, NotManaged DEF Exit
  <2>7. CASE Beat(p) \/ GetStuck(p)
    BY <2>3, <2>7 DEF Beat, GetStuck, table
  <2> QED
    BY <2>4, <2>5, <2>6, <2>7 DEF ServiceStep
<1> QED
  BY <1>2, <1>3, Forgetless

\* While a watchdog is in a pass, or past its checks, there is no other.
LEMMA AloneInPass ==
  ASSUME IInv, NEW w \in Past, NEW v \in Pids, Loaded(v) \/ InPass(v)
  PROVE  v = w
  BY DEF IInv, OneWatchdog, Past, Loaded, InPass

\* The steps of a watchdog that leave the numbers of its memory alone.
LEMMA WatchdogKeeps ==
  ASSUME RInv, IInv', Memories', NEW w \in Pids,
         \/ SeeOthers(w) \/ ClaimPidFile(w) \/ Snapshot(w) \/ ExitWatchdog(w)
  PROVE  RInv'
<1>1. UNCHANGED <<disk, launched, forgot>>
  BY DEF SeeOthers, ClaimPidFile, Snapshot, ExitWatchdog, onDisk, history
<1>2. \A v \in Pids : Loaded(v)' => Loaded(v) /\ mem'[v] = mem[v]
  <2>1. CASE Ends(w)
    BY <2>1, EndsLoaded DEF RInv
  <2>2. CASE (Goto(w, "claiming") \/ Goto(w, "grace")) /\ UNCHANGED memory
    BY <2>2 DEF Goto, RInv, IInv, Table, Loaded, Past, Running, memory
  <2>3. CASE Snapshot(w)
    BY <2>3 DEF Snapshot, Goto, RInv, IInv, Table, Loaded, Past, Running
  <2> QED
    BY <2>1, <2>2, <2>3 DEF SeeOthers, ClaimPidFile, ExitWatchdog
<1>3. \A v \in Pids : InPass(v) => InPass(v)'
  <2>1. CASE Ends(w) /\ st[w] # "checking"
    BY <2>1, EndsLoaded DEF RInv, InPass
  <2>2. CASE \E x : Goto(w, x) /\ st[w] # "checking"
    BY <2>2 DEF Goto, RInv, IInv, Table, InPass, Past, Running
  <2> QED
    BY <2>1, <2>2 DEF SeeOthers, ClaimPidFile, Snapshot, ExitWatchdog
<1> QED
  BY <1>1, <1>2, <1>3, Forgetless

\* No pass is under way when the file is read: it has every launch.
LEMMA LoadRestarts ==
  ASSUME RInv, IInv', Memories', NEW w \in Pids, BeginLoop(w)
  PROVE  RInv'
<1>1. w \in Past /\ ~Loaded(w)
  BY DEF BeginLoop, Past, Running, Loaded
<1>2. ~forgot => disk.starts = launched
  BY <1>1, AloneInPass DEF RInv, Remembered, InPass, Loaded
<1>3. \A v \in Pids : Loaded(v)' => v = w \/ Loaded(v)
  BY DEF BeginLoop, Goto, RInv, IInv, Table, Loaded, Past, Running
<1>4. mem'[w] = disk
  BY DEF BeginLoop, RInv, Memories
<1>5. UNCHANGED <<disk, launched, forgot>>
  BY DEF BeginLoop, onDisk, history
<1>6. \A v \in Pids : ~Loaded(v)
  BY <1>1, AloneInPass DEF RInv
<1>7. Remembered'
  BY <1>2, <1>3, <1>4, <1>5, <1>6 DEF Remembered
<1>8. Launches' /\ RestartsLimited'
  BY <1>5 DEF RInv, Launches, RestartsLimited
<1> QED
  BY <1>7, <1>8 DEF RInv

\* A check that restarts nothing.
LEMMA CheckKeeps ==
  ASSUME RInv, IInv', Memories', NEW w \in Pids, CheckHealthy(w) \/ CheckWaits(w)
  PROVE  RInv'
<1>1. UNCHANGED <<disk, launched, forgot>>
  BY DEF CheckHealthy, CheckWaits, onDisk, history
<1>2. \A v \in Pids : mem'[v].starts = mem[v].starts
  <2>1. CASE CheckHealthy(w)
    BY <2>1 DEF CheckHealthy, RInv, Memories, Whole
  <2>2. CASE CheckWaits(w)
    BY <2>2 DEF CheckWaits, RInv, Memories, Whole
  <2> QED
    BY <2>1, <2>2
<1>3. \A v \in Pids : Loaded(v)' => Loaded(v)
  <2>1. CASE CheckHealthy(w)
    BY <2>1, SupervisorAssumption, ChangesLoaded DEF CheckHealthy, RInv, SupervisorAssumption
  <2>2. CASE CheckWaits(w)
    BY <2>2, SameLoaded DEF CheckWaits, table
  <2> QED
    BY <2>1, <2>2
<1>4. \A v \in Pids : InPass(v) => InPass(v)'
  <2>1. CASE CheckHealthy(w)
    <3>1. PICK extras : /\ TableChanges(extras, {}, NoPid, "none")
                        /\ extras \subseteq Running("openclaw_tailer")
      BY <2>1 DEF CheckHealthy
    <3>2. \A v \in Pids : InPass(v) => v \notin extras
      BY <3>1 DEF InPass, Past, Running
    <3> QED
      BY <3>1, <3>2, SupervisorAssumption, ChangesLoaded DEF RInv, SupervisorAssumption
  <2>2. CASE CheckWaits(w)
    BY <2>2, SameLoaded DEF CheckWaits, table
  <2> QED
    BY <2>1, <2>2
<1> QED
  BY <1>1, <1>2, <1>3, <1>4, Forgetless

LEMMA RecordedStarts ==
  ASSUME NEW m, NEW s, Whole(m)
  PROVE  Recorded(m, s).starts = [m.starts EXCEPT ![s] = Append(m.starts[s], 0)]
<1> DEFINE starts == Append(m.starts[s], 0)
           r == [fails |-> m.fails, starts |-> [m.starts EXCEPT ![s] = starts], cool |-> m.cool]
<1>1. [m EXCEPT !.starts[s] = starts] = r
  BY DEF Whole
<1>2. Recorded(m, s) = [[[m EXCEPT !.starts[s] = starts] EXCEPT !.fails[s] = 0]
                          EXCEPT !.cool[s] = IF Len(starts) >= MaxRestarts THEN Hour ELSE @]
  BY DEF Recorded
<1> QED
  BY <1>1, <1>2

\* The limit is read in a memory that has every launch of the last hour.
LEMMA RestartIsLimited ==
  ASSUME RInv, IInv', Memories', NEW w \in Pids, CheckRestart(w)
  PROVE  RInv'
<1> DEFINE s == At(w)
           victims == snap[w][s] \cap Running(s)
           gone == victims \ Survivors(victims)
<1>1. w \in Past /\ InPass(w) /\ Loaded(w)
  BY DEF CheckRestart, Checking, Past, Running, Loaded, InPass
<1>2. UNCHANGED <<disk, forgot>>
  BY DEF CheckRestart, onDisk
<1>3. PICK new \in Spawned :
        /\ TableChanges(gone, Survivors(victims), new, s)
        /\ mem' = [mem EXCEPT ![w] = IF new # NoPid THEN Recorded(@, s)
                                     ELSE [@ EXCEPT !.fails[s] = Bumped(w, s)]]
        /\ launched' = IF new # NoPid THEN [launched EXCEPT ![s] = Append(@, 0)]
                                      ELSE launched
  BY DEF CheckRestart
<1>4. w \notin gone
  BY <1>1 DEF Survivors, Defenceless, JustStarted, InPass, Past, Running
<1>5. InPass(w)' /\ \A v \in Pids : Loaded(v)' => v = w
  <2>1. InPass(w)' /\ \A v \in Pids : Loaded(v)' => Loaded(v)
    BY <1>1, <1>3, <1>4, FreeIsNone, ChangesLoaded DEF RInv
  <2> QED
    BY <1>1, <2>1, AloneInPass DEF RInv
<1>6. CASE new = NoPid
  <2>1. mem'[w].starts = mem[w].starts /\ launched' = launched
    BY <1>3, <1>6 DEF RInv, Memories, Whole
  <2>2. Remembered'
    BY <1>1, <1>2, <1>5, <2>1 DEF RInv, Remembered
  <2> QED
    BY <1>2, <2>1, <2>2 DEF RInv, Launches, RestartsLimited
<1>7. CASE new # NoPid
  <2>1. launched' = [launched EXCEPT ![s] = Append(@, 0)]
    BY <1>3, <1>7
  <2>2. mem'[w].starts = [mem[w].starts EXCEPT ![s] = Append(mem[w].starts[s], 0)]
    <3>1. mem'[w] = Recorded(mem[w], s)
      BY <1>3, <1>7 DEF RInv, Memories
    <3>2. Whole(mem[w])
      BY DEF RInv, Memories
    <3>3. Recorded(mem[w], s).starts
            = [mem[w].starts EXCEPT ![s] = Append(mem[w].starts[s], 0)]
      BY <3>2, RecordedStarts
    <3> QED
      BY <3>1, <3>3
  <2>3. ~forgot => mem[w].starts = launched
    BY <1>1 DEF RInv, Remembered
  <2>4. Remembered'
    <3>1. ~forgot => mem'[w].starts = launched'
      BY <2>1, <2>2, <2>3
    <3> QED
      BY <1>2, <1>5, <3>1 DEF Remembered
  <2>5. Launches'
    <3>1. launched \in [Managed -> Seq(Nat)]
      BY DEF RInv, Launches
    <3>2. s \in Managed => Append(launched[s], 0) \in Seq(Nat)
      BY <3>1
    <3> QED
      BY <2>1, <3>1, <3>2 DEF Launches
  <2>6. RestartsLimited'
    <3> SUFFICES ASSUME ~forgot, NEW t \in Managed PROVE Len(launched'[t]) <= MaxRestarts
      BY <1>2 DEF RestartsLimited
    <3>1. Len(launched[t]) <= MaxRestarts /\ launched \in [Managed -> Seq(Nat)]
      BY DEF RInv, Launches, RestartsLimited
    <3>2. CASE t = s
      <4>1. Len(launched[s]) < MaxRestarts
        BY <2>3 DEF CheckRestart, CanRestart
      <4>2. Len(launched'[t]) = Len(launched[s]) + 1
        BY <2>1, <3>1, <3>2
      <4>3. Len(launched[s]) \in Nat /\ MaxRestarts \in Nat
        BY <3>1, <3>2, SupervisorAssumption DEF SupervisorAssumption
      <4> QED
        BY <4>1, <4>2, <4>3
    <3>3. CASE t # s
      BY <2>1, <3>1, <3>3
    <3> QED
      BY <3>2, <3>3
  <2> QED
    BY <2>4, <2>5, <2>6 DEF RInv
<1> QED
  BY <1>6, <1>7

\* At the end of a pass the file has what the memory has.
LEMMA SaveKeeps ==
  ASSUME RInv, IInv', Memories', NEW w \in Pids, Save(w)
  PROVE  RInv'
<1>1. w \in Past /\ Loaded(w) /\ disk' = mem[w] /\ UNCHANGED <<mem, launched, forgot>>
  BY DEF Save, Saved, Past, Running, Loaded, history
<1>2. \A v \in Pids : Loaded(v)' => Loaded(v)
  BY DEF Save, Goto, RInv, IInv, Table, Loaded, Past, Running
<1>3. Remembered'
  BY <1>1, <1>2 DEF RInv, Remembered
<1> QED
  BY <1>1, <1>3 DEF RInv, Launches, RestartsLimited

LEMMA CommandRestarts ==
  ASSUME RInv, IInv', Memories',
         \/ UpBegins \/ DownBegins \/ CommandStep
         \/ \E k : StartByHand(k)
  PROVE  RInv'
<1>1. UNCHANGED <<disk, launched, forgot>>
  BY DEF UpBegins, DownBegins, CommandStep, UpStarts, DownSignals, DownMovesOn, CommandEnds,
         StartByHand, onDisk, history
<1>2. ASSUME NEW k, NEW new \in Spawned, TableChanges({}, {}, new, k), UNCHANGED mem
      PROVE  \A v \in Pids : /\ Loaded(v)' => Loaded(v) /\ mem'[v] = mem[v]
                             /\ InPass(v) => InPass(v)'
  BY <1>2, FreeIsNone, ChangesLoaded DEF RInv
<1>3. \A v \in Pids : /\ Loaded(v)' => Loaded(v) /\ mem'[v] = mem[v]
                      /\ InPass(v) => InPass(v)'
  <2>1. CASE UNCHANGED <<kind, st, mem>>
    BY <2>1, SameLoaded
  <2>2. CASE UpStarts
    <3>1. CASE Head(cmd.rest) \in cmd.seen
      BY <2>1, <2>2, <3>1 DEF UpStarts, table, memory
    <3>2. CASE Head(cmd.rest) \notin cmd.seen
      BY <1>2, <2>2, <3>2 DEF UpStarts, memory
    <3> QED
      BY <3>1, <3>2
  <2>3. CASE DownSignals
    <3> DEFINE victims == Running(Head(cmd.rest))
               gone == victims \ Survivors(victims)
    <3>1. TableChanges(gone, Survivors(victims), NoPid, "none") /\ Forgotten(gone)
      BY <2>3 DEF DownSignals
    <3>2. \A v \in Pids : InPass(v) => v \notin gone
      BY DEF Survivors, Defenceless, JustStarted, InPass, Past, Running
    <3>3. \A v \in Pids : v # NoPid
      BY SupervisorAssumption DEF SupervisorAssumption
    <3>4. \A v \in Pids : /\ Loaded(v)' => Loaded(v) /\ v \notin gone
                          /\ InPass(v) /\ v \notin gone => InPass(v)'
      BY <3>1, <3>3, ChangesLoaded DEF RInv
    <3>5. \A v \in Pids : v \notin gone => mem'[v] = mem[v]
      BY <3>1 DEF Forgotten
    <3> QED
      BY <3>2, <3>4, <3>5
  <2>4. CASE UpBegins \/ DownBegins \/ DownMovesOn \/ CommandEnds
    BY <2>1, <2>4 DEF UpBegins, DownBegins, DownMovesOn, CommandEnds, table, memory
  <2>5. ASSUME NEW k, StartByHand(k)
        PROVE  \A v \in Pids : /\ Loaded(v)' => Loaded(v) /\ mem'[v] = mem[v]
                               /\ InPass(v) => InPass(v)'
    BY <1>2, <2>5 DEF StartByHand, memory
  <2> QED
    BY <2>2, <2>3, <2>4, <2>5 DEF CommandStep
<1> QED
  BY <1>1, <1>3, Forgetless

\* A watchdog that dies within a pass leaves a file with every launch, or one is
\* forgotten.
LEMMA CrashRestarts ==
  ASSUME RInv, IInv', Memories', NEW p \in Pids, Crash(p)
  PROVE  RInv'
<1>1. /\ UNCHANGED launched
      /\ forgot' = (forgot \/ (st[p] = "checking" /\ mem[p].starts # disk'.starts))
      /\ UNCHANGED disk \/ MayTear(p)
  BY DEF Crash
<1>2. \A v \in Pids : /\ Loaded(v)' => Loaded(v) /\ mem'[v] = mem[v]
                      /\ InPass(v) /\ v # p => InPass(v)'
  BY EndsLoaded DEF Crash, RInv
<1>3. ~forgot' /\ InPass(p) => disk'.starts = launched
  BY <1>1 DEF RInv, Remembered, InPass, Loaded
<1>4. CASE InPass(p)
  <2>1. Remembered'
    BY <1>1, <1>2, <1>3, <1>4 DEF RInv, Remembered
  <2> QED
    BY <1>1, <2>1 DEF RInv, Launches, RestartsLimited
<1>5. CASE ~InPass(p)
  <2>1. UNCHANGED disk
    BY <1>1, <1>5 DEF RInv, IInv, Table, MayTear, InPass, Past, Running
  <2> QED
    BY <1>1, <1>2, <1>5, <2>1, Forgetless
<1> QED
  BY <1>4, <1>5

LEMMA PidRestarts ==
  ASSUME RInv, IInv', Memories', NEW p \in Pids, TakePid(p) \/ LeavePid(p)
  PROVE  RInv'
<1>1. UNCHANGED <<disk, mem, st, launched, forgot>>
  BY DEF TakePid, LeavePid, onDisk, memory, history
<1>2. \A v \in Pids : kind'[v] = "watchdog" <=> kind[v] = "watchdog"
  BY DEF TakePid, LeavePid, RInv, IInv, Table
<1>3. \A v \in Pids : (Loaded(v)' <=> Loaded(v)) /\ (InPass(v)' <=> InPass(v))
  BY <1>1, <1>2 DEF Loaded, InPass, Past, Running
<1> QED
  BY <1>1, <1>3, Forgetless

\* Time makes every memory of the launches older in the same way.
LEMMA TickRestarts ==
  ASSUME RInv, IInv', Memories', Tick
  PROVE  RInv'
<1>1. /\ disk'.starts = [s \in Managed |-> Older(disk.starts[s])]
      /\ \A v \in Pids : mem'[v].starts = [s \in Managed |-> Older(mem[v].starts[s])]
      /\ launched' = [s \in Managed |-> Older(launched[s])]
      /\ forgot' = forgot
  BY DEF Tick, Aged, RInv, Memories, Whole
<1>2. \A v \in Pids : Loaded(v)' = Loaded(v) /\ InPass(v)' = InPass(v)
  BY SameLoaded DEF Tick, table
<1>3. Remembered'
  BY <1>1, <1>2 DEF RInv, Remembered
<1>4. \A s \in Managed : /\ launched[s] \in Seq(Nat)
                         /\ Older(launched[s]) \in Seq(Nat)
                         /\ Len(Older(launched[s])) <= Len(launched[s])
  BY OlderShrinks DEF RInv, Launches
<1>5. Launches'
  BY <1>1, <1>4 DEF Launches
<1>6. RestartsLimited'
  <2> SUFFICES ASSUME ~forgot, NEW s \in Managed PROVE Len(launched'[s]) <= MaxRestarts
    BY <1>1 DEF RestartsLimited
  <2>1. Len(launched[s]) <= MaxRestarts
    BY DEF RInv, RestartsLimited
  <2>2. launched'[s] = Older(launched[s])
    BY <1>1
  <2>3. /\ Len(launched[s]) \in Nat /\ Len(Older(launched[s])) \in Nat
        /\ MaxRestarts \in Nat
    BY <1>4, SupervisorAssumption DEF SupervisorAssumption
  <2> QED
    BY <1>4, <2>1, <2>2, <2>3
<1> QED
  BY <1>3, <1>5, <1>6 DEF RInv

LEMMA StepRInv == RInv /\ [Next]_vars => RInv'
<1> SUFFICES ASSUME RInv, [Next]_vars PROVE RInv'
  OBVIOUS
<1>1. IInv' /\ Memories'
  BY StepIInv, StepMemories DEF RInv
<1>2. ASSUME NEW p \in Pids, ServiceStep(p) \/ Beat(p) \/ GetStuck(p) PROVE RInv'
  BY <1>1, <1>2, ServiceRestarts
<1>3. ASSUME NEW w \in Pids, WatchdogStep(w) PROVE RInv'
  BY <1>1, <1>3, WatchdogKeeps, LoadRestarts, CheckKeeps, RestartIsLimited, SaveKeeps
     DEF WatchdogStep
<1>4. CASE \/ UpBegins \/ DownBegins \/ CommandStep
           \/ \E k \in {"watchdog", "openclaw_tailer"} \cap Kinds : StartByHand(k)
  BY <1>1, <1>4, CommandRestarts
<1>5. ASSUME NEW p \in Pids, Crash(p) \/ TakePid(p) \/ LeavePid(p) PROVE RInv'
  BY <1>1, <1>5, CrashRestarts, PidRestarts
<1>6. CASE Tick
  BY <1>1, <1>6, TickRestarts
<1>7. CASE UNCHANGED vars
  <2>1. UNCHANGED <<kind, st, mem, disk, launched, forgot>>
    BY <1>7 DEF vars, table, memory, onDisk, history
  <2>2. \A v \in Pids : Loaded(v)' = Loaded(v) /\ InPass(v)' = InPass(v)
    BY <2>1, SameLoaded
  <2> QED
    BY <1>1, <2>1, <2>2, Forgetless
<1> QED
  BY <1>2, <1>3, <1>4, <1>5, <1>6, <1>7 DEF Next

\* A service is launched at most MAX_RESTARTS_PER_HOUR times in any hour, over
\* the watchdog's own restarts too (spark_watchdog.py:258-289, 349-362), unless
\* a watchdog was killed between a launch and the save that ends its pass.  What
\* the watchdog in charge remembers is every launch: it is alone, so nobody else
\* launches, and the file it loads was saved by a pass that ended.
THEOREM RestartsStayLimited == Spec => []RestartsLimited
<1>1. RInv => RestartsLimited
  BY DEF RInv
<1> QED
  BY <1>1, InitRInv, StepRInv, PTL DEF Spec

-----------------------------------------------------------------------------
(* One of each service.  The lock file is read and written in two steps, so  *)
(* nobody may start a service while another process of it is between them.   *)

Elements(q) == {q[i] : i \in 1..Len(q)}
Once(q) == \A i, j \in 1..Len(q) : q[i] = q[j] => i = j

\* The processes of a service before they have taken its lock file, and after.
Starting(s) == {p \in Running(s) : JustStarted(p)}
AtWork(s) == {p \in Running(s) : st[p] = "loop"}

OneStarts == \A s \in Locking : \A p, q \in Starting(s) : p = q
Owned == \A s \in Locking : \A p \in AtWork(s) : lock[s] = p
Claimed == \A s \in Locking : \A p \in Starting(s) : st[p] = "claiming" => AtWork(s) = {}

\* A pass has started none of these services that are still before it ...
PassAhead ==
  \A w \in Running("watchdog") : st[w] = "checking" =>
    /\ todo[w] \in Seq(Managed) /\ Once(todo[w])
    /\ \A s \in Elements(todo[w]) \cap Locking : Starting(s) = {}

\* ... and so it is with `spark up`, beside which there is no watchdog.
UpAhead ==
  cmd.op = "up" =>
    /\ cmd.rest \in Seq(Kinds) /\ Once(cmd.rest)
    /\ cmd.rest # <<>> => Running("watchdog") = {}
    /\ \A i \in 1..Len(cmd.rest) : cmd.rest[i] = "watchdog" => i = Len(cmd.rest)
    /\ \A k \in Elements(cmd.rest) \ cmd.seen : Running(k) = {}

\* The shapes of what these steps change a part of.
WholeCmd == cmd = [op |-> cmd.op, rest |-> cmd.rest, seen |-> cmd.seen, round |-> cmd.round,
                   left |-> cmd.left]
Entries == /\ lock = [s \in Locking |-> lock[s]] /\ todo = [p \in Pids |-> todo[p]]
           /\ WholeCmd

SInv == OneStarts /\ Owned /\ Claimed /\ PassAhead /\ UpAhead

\* What is left of an order when its first is done.
LEMMA TailOfOrder ==
  ASSUME NEW S, NEW q \in Seq(S), q # <<>>
  PROVE  /\ Tail(q) \in Seq(S) /\ Head(q) \in S
         /\ Elements(q) = {Head(q)} \cup Elements(Tail(q))
         /\ Once(q) => Once(Tail(q)) /\ Head(q) \notin Elements(Tail(q))
<1>1. /\ Len(q) \in Nat /\ Len(q) >= 1 /\ Head(q) = q[1] /\ q[1] \in S
      /\ Tail(q) \in Seq(S) /\ Len(Tail(q)) = Len(q) - 1
      /\ \A i \in 1..Len(Tail(q)) : Tail(q)[i] = q[i + 1]
  OBVIOUS
<1>2. Elements(q) = {Head(q)} \cup Elements(Tail(q))
  <2>1. ASSUME NEW i \in 1..Len(q) PROVE q[i] \in {Head(q)} \cup Elements(Tail(q))
    <3>1. CASE i = 1
      BY <1>1, <3>1
    <3>2. CASE i # 1
      <4>1. i - 1 \in 1..Len(Tail(q)) /\ Tail(q)[i - 1] = q[i]
        BY <1>1, <3>2
      <4> QED
        BY <4>1 DEF Elements
    <3> QED
      BY <3>1, <3>2
  <2>2. ASSUME NEW i \in 1..Len(Tail(q)) PROVE Tail(q)[i] \in Elements(q)
    <3>1. i + 1 \in 1..Len(q)
      BY <1>1
    <3> QED
      BY <1>1, <3>1 DEF Elements
  <2>3. Head(q) \in Elements(q)
    <3>1. 1 \in 1..Len(q)
      BY <1>1
    <3> QED
      BY <1>1, <3>1 DEF Elements
  <2> QED
    BY <2>1, <2>2, <2>3 DEF Elements
<1>3. ASSUME Once(q) PROVE Once(Tail(q)) /\ Head(q) \notin Elements(Tail(q))
  <2>1. ASSUME NEW i \in 1..Len(Tail(q)), NEW j \in 1..Len(Tail(q)), Tail(q)[i] = Tail(q)[j]
        PROVE  i = j
    <3>1. i + 1 \in 1..Len(q) /\ j + 1 \in 1..Len(q)
      BY <1>1
    <3>2. i + 1 = j + 1
      BY <1>1, <1>3, <2>1, <3>1 DEF Once
    <3> QED
      BY <3>2
  <2>2. ASSUME NEW i \in 1..Len(Tail(q)) PROVE Tail(q)[i] # Head(q)
    <3>1. i + 1 \in 1..Len(q) /\ 1 \in 1..Len(q) /\ i + 1 # 1
      BY <1>1
    <3> QED
      BY <1>1, <1>3, <3>1 DEF Once
  <2> QED
    BY <2>1, <2>2 DEF Once, Elements
<1> QED
  BY <1>1, <1>2, <1>3

LEMMA Joined ==
  ASSUME NEW S, NEW a \in Seq(S), NEW b \in Seq(S)
  PROVE  /\ a \o b \in Seq(S) /\ Len(a) \in Nat /\ Len(b) \in Nat /\ Len(a \o b) = Len(a) + Len(b)
         /\ \A i \in 1..Len(a) + Len(b) : (a \o b)[i] = IF i <= Len(a) THEN a[i] ELSE b[i - Len(a)]
  OBVIOUS

LEMMA JoinedOrders ==
  ASSUME NEW S, NEW a \in Seq(S), NEW b \in Seq(S)
  PROVE  /\ a \o b \in Seq(S) /\ Elements(a \o b) = Elements(a) \cup Elements(b)
         /\ Once(a) /\ Once(b) /\ Elements(a) \cap Elements(b) = {} => Once(a \o b)
<1>1. /\ a \o b \in Seq(S) /\ Len(a) \in Nat /\ Len(b) \in Nat /\ Len(a \o b) = Len(a) + Len(b)
      /\ \A i \in 1..Len(a) + Len(b) : (a \o b)[i] = IF i <= Len(a) THEN a[i] ELSE b[i - Len(a)]
  BY Joined
<1>2. \A i \in 1..Len(a) : i \in 1..Len(a \o b) /\ (a \o b)[i] = a[i]
  BY <1>1
<1>3. \A i \in 1..Len(b) : Len(a) + i \in 1..Len(a \o b) /\ (a \o b)[Len(a) + i] = b[i]
  BY <1>1
<1>4. \A i \in 1..Len(a \o b) :
        i \in 1..Len(a) \/ (i - Len(a) \in 1..Len(b) /\ i = Len(a) + (i - Len(a)))
  BY <1>1
<1>5. Elements(a \o b) = Elements(a) \cup Elements(b)
  BY <1>2, <1>3, <1>4 DEF Elements
<1>6. ASSUME Once(a), Once(b), Elements(a) \cap Elements(b) = {},
             NEW i \in 1..Len(a \o b), NEW j \in 1..Len(a \o b), (a \o b)[i] = (a \o b)[j]
      PROVE  i = j
  <2>1. CASE i \in 1..Len(a) /\ j \in 1..Len(a)
    BY <1>2, <1>6, <2>1 DEF Once
  <2>2. CASE i - Len(a) \in 1..Len(b) /\ j - Len(a) \in 1..Len(b)
    <3>1. i - Len(a) = j - Len(a)
      <4>1. (a \o b)[i] = b[i - Len(a)] /\ (a \o b)[j] = b[j - Len(a)]
        BY <1>1, <2>2
      <4> QED
        BY <1>6, <2>2, <4>1 DEF Once
    <3> QED
      BY <1>1, <3>1
  <2>3. CASE i \in 1..Len(a) /\ j - Len(a) \in 1..Len(b)
    <3>1. a[i] = b[j - Len(a)]
      BY <1>1, <1>6, <2>3
    <3> QED
      BY <1>6, <2>3, <3>1 DEF Elements
  <2>4. CASE i - Len(a) \in 1..Len(b) /\ j \in 1..Len(a)
    <3>1. a[j] = b[i - Len(a)]
      BY <1>1, <1>6, <2>4
    <3> QED
      BY <1>6, <2>4, <3>1 DEF Elements
  <2> QED
    BY <1>4, <2>1, <2>2, <2>3, <2>4
<1> QED
  BY <1>1, <1>5, <1>6 DEF Once

LEMMA StartsAlike ==
  ASSUME NEW S, NEW a \in Seq(S), NEW b \in Seq(S), Len(a) >= 1
  PROVE  Len(a \o b) >= 1 /\ (a \o b)[1] = a[1]
  OBVIOUS

LEMMA EndsAlike ==
  ASSUME NEW S, NEW a \in Seq(S), NEW b \in Seq(S), Len(b) = 1
  PROVE  /\ Len(a \o b) = Len(a) + 1 /\ Len(a) \in Nat
         /\ \A i \in 1..Len(a) : (a \o b)[i] = a[i]
  BY Joined

LEMMA OneElement == ASSUME NEW S, NEW s \in S
                    PROVE <<s>> \in Seq(S) /\ Once(<<s>>) /\ Elements(<<s>>) = {s}
<1>1. <<s>> \in Seq(S) /\ Len(<<s>>) = 1 /\ <<s>>[1] = s /\ 1..1 = {1}
  OBVIOUS
<1> QED
  BY <1>1 DEF Once, Elements

LEMMA InstalledOnce ==
  ASSUME NEW s
  PROVE  /\ Installed(s) \in Seq(Managed) /\ Installed(s) \in Seq(Kinds)
         /\ Once(Installed(s)) /\ Elements(Installed(s)) = {s} \cap Managed
<1>1. CASE s \in Managed
  <2>1. Installed(s) = <<s>> /\ s \in Kinds
    BY <1>1 DEF Installed, Kinds
  <2>2. <<s>> \in Seq(Managed) /\ <<s>> \in Seq(Kinds) /\ Once(<<s>>) /\ Elements(<<s>>) = {s}
    BY <1>1, <2>1, OneElement
  <2> QED
    BY <1>1, <2>1, <2>2
<1>2. CASE s \notin Managed
  <2>1. Installed(s) = <<>> /\ <<>> \in Seq(Managed) /\ <<>> \in Seq(Kinds) /\ 1..Len(<<>>) = {}
    BY <1>2 DEF Installed
  <2> QED
    BY <1>2, <2>1 DEF Once, Elements
<1> QED
  BY <1>1, <1>2

\* The three orders: no service twice, the watchdog last or first.
LEMMA Orders ==
  /\ ServiceOrder \in Seq(Managed) /\ Once(ServiceOrder)
  /\ UpOrder \in Seq(Kinds) /\ Once(UpOrder)
  /\ \A i \in 1..Len(UpOrder) : UpOrder[i] = "watchdog" => i = Len(UpOrder)
  /\ DownOrder \in Seq(Kinds) /\ DownOrder # <<>> /\ Head(DownOrder) = "watchdog"
  /\ "watchdog" \notin Elements(Tail(DownOrder)) /\ Commanded \subseteq Elements(Tail(DownOrder))
<1> DEFINE a == Installed("sparkd")
           b == Installed("bridge_worker")
           c == Installed("scheduler")
           d == Installed("openclaw_tailer")
           w == <<"watchdog">>
<1>1. /\ a \in Seq(Managed) /\ Once(a) /\ Elements(a) = {"sparkd"} \cap Managed
      /\ b \in Seq(Managed) /\ Once(b) /\ Elements(b) = {"bridge_worker"} \cap Managed
      /\ c \in Seq(Managed) /\ Once(c) /\ Elements(c) = {"scheduler"} \cap Managed
      /\ d \in Seq(Managed) /\ Once(d) /\ Elements(d) = {"openclaw_tailer"} \cap Managed
      /\ a \in Seq(Kinds) /\ b \in Seq(Kinds) /\ c \in Seq(Kinds)
  BY InstalledOnce
<1>2. w \in Seq(Kinds) /\ Once(w) /\ Elements(w) = {"watchdog"}
  <2>1. "watchdog" \in Kinds
    BY DEF Kinds
  <2> QED
    BY <2>1, OneElement
<1>3. Len(w) = 1 /\ Len(w) >= 1 /\ w[1] = "watchdog"
  OBVIOUS
<1> HIDE DEF a, b, c, d, w
<1> DEFINE ab == a \o b
           abc == ab \o c
           wc == w \o c
           wcb == wc \o b
<1>4. /\ ServiceOrder = abc \o d /\ UpOrder = abc \o w /\ DownOrder = wcb \o a
  BY DEF ServiceOrder, UpOrder, DownOrder, a, b, c, d, w
<1>5. /\ ab \in Seq(Managed) /\ ab \in Seq(Kinds) /\ Once(ab)
      /\ Elements(ab) = {"sparkd", "bridge_worker"} \cap Managed
  <2>1. Elements(ab) = Elements(a) \cup Elements(b) /\ ab \in Seq(Managed) /\ ab \in Seq(Kinds)
    BY <1>1, JoinedOrders
  <2>2. Elements(a) \cap Elements(b) = {}
    BY <1>1
  <2>3. Once(ab)
    BY <1>1, <2>2, JoinedOrders
  <2> QED
    BY <1>1, <2>1, <2>3
<1> HIDE DEF ab
<1>6. /\ abc \in Seq(Managed) /\ abc \in Seq(Kinds) /\ Once(abc)
      /\ Elements(abc) = {"sparkd", "bridge_worker", "scheduler"} \cap Managed
  <2>1. Elements(abc) = Elements(ab) \cup Elements(c) /\ abc \in Seq(Managed) /\ abc \in Seq(Kinds)
    BY <1>1, <1>5, JoinedOrders
  <2>2. Elements(ab) \cap Elements(c) = {}
    BY <1>1, <1>5
  <2>3. Once(abc)
    BY <1>1, <1>5, <2>2, JoinedOrders
  <2> QED
    BY <1>1, <1>5, <2>1, <2>3
<1> HIDE DEF abc
<1>7. ServiceOrder \in Seq(Managed) /\ Once(ServiceOrder)
  <2>1. Elements(abc) \cap Elements(d) = {}
    BY <1>1, <1>6
  <2> QED
    BY <1>1, <1>4, <1>6, <2>1, JoinedOrders
<1>8. "watchdog" \notin Elements(abc)
  BY <1>6, NotManaged
<1>9. UpOrder \in Seq(Kinds) /\ Once(UpOrder)
  <2>1. Elements(abc) \cap Elements(w) = {}
    BY <1>2, <1>8
  <2> QED
    BY <1>2, <1>4, <1>6, <2>1, JoinedOrders
<1>10. ASSUME NEW i \in 1..Len(UpOrder), UpOrder[i] = "watchdog" PROVE i = Len(UpOrder)
  <2>1. /\ Len(UpOrder) = Len(abc) + 1 /\ Len(abc) \in Nat
        /\ \A n \in 1..Len(abc) : UpOrder[n] = abc[n]
    BY <1>2, <1>3, <1>4, <1>6, EndsAlike
  <2>2. CASE i <= Len(abc)
    <3>1. i \in 1..Len(abc) /\ abc[i] = "watchdog"
      BY <1>10, <2>1, <2>2
    <3> QED
      BY <1>8, <3>1 DEF Elements
  <2>3. CASE ~(i <= Len(abc))
    BY <2>1, <2>3
  <2> QED
    BY <2>2, <2>3
<1>11. /\ wc \in Seq(Kinds) /\ Once(wc)
       /\ Elements(wc) = {"watchdog"} \cup ({"scheduler"} \cap Managed)
       /\ Len(wc) >= 1 /\ wc[1] = "watchdog"
  <2>1. Elements(wc) = Elements(w) \cup Elements(c) /\ wc \in Seq(Kinds)
    BY <1>1, <1>2, JoinedOrders
  <2>2. Elements(w) \cap Elements(c) = {}
    BY <1>1, <1>2
  <2>3. Once(wc)
    BY <1>1, <1>2, <2>2, JoinedOrders
  <2>4. Len(wc) >= 1 /\ wc[1] = "watchdog"
    BY <1>1, <1>2, <1>3, StartsAlike
  <2> QED
    BY <1>1, <1>2, <2>1, <2>3, <2>4
<1> HIDE DEF wc
<1>12. /\ wcb \in Seq(Kinds) /\ Once(wcb)
       /\ Elements(wcb) = {"watchdog"} \cup ({"scheduler", "bridge_worker"} \cap Managed)
       /\ Len(wcb) >= 1 /\ wcb[1] = "watchdog"
  <2>1. Elements(wcb) = Elements(wc) \cup Elements(b) /\ wcb \in Seq(Kinds)
    BY <1>1, <1>11, JoinedOrders
  <2>2. Elements(wc) \cap Elements(b) = {}
    BY <1>1, <1>11
  <2>3. Once(wcb)
    BY <1>1, <1>11, <2>2, JoinedOrders
  <2>4. Len(wcb) >= 1 /\ wcb[1] = "watchdog"
    BY <1>1, <1>11, StartsAlike
  <2> QED
    BY <1>1, <1>11, <2>1, <2>3, <2>4
<1> HIDE DEF wcb
<1>13. /\ DownOrder \in Seq(Kinds) /\ Once(DownOrder)
       /\ Elements(DownOrder)
            = {"watchdog"} \cup ({"scheduler", "bridge_worker", "sparkd"} \cap Managed)
       /\ Len(DownOrder) >= 1 /\ DownOrder[1] = "watchdog"
  <2>1. Elements(DownOrder) = Elements(wcb) \cup Elements(a) /\ DownOrder \in Seq(Kinds)
    BY <1>1, <1>4, <1>12, JoinedOrders
  <2>2. Elements(wcb) \cap Elements(a) = {}
    BY <1>1, <1>12
  <2>3. Once(DownOrder)
    BY <1>1, <1>4, <1>12, <2>2, JoinedOrders
  <2>4. Len(DownOrder) >= 1 /\ DownOrder[1] = "watchdog"
    BY <1>1, <1>4, <1>12, StartsAlike
  <2> QED
    BY <1>1, <1>12, <2>1, <2>3, <2>4
<1>14. DownOrder # <<>> /\ Head(DownOrder) = "watchdog"
  BY <1>13
<1>15. Commanded \subseteq {"scheduler", "bridge_worker", "sparkd"} \cap Managed
  BY SupervisorAssumption DEF Commanded, SupervisorAssumption, Services
<1>16. "watchdog" \notin Elements(Tail(DownOrder)) /\ Commanded \subseteq Elements(Tail(DownOrder))
  BY <1>13, <1>14, <1>15, TailOfOrder
<1> QED
  BY <1>7, <1>9, <1>10, <1>13, <1>14, <1>16

\* What a step that starts no process and moves none does to the table.
Loses == \A p \in Pids : kind'[p] \notin Kinds \/ (kind'[p] = kind[p] /\ st'[p] = st[p])

\* The passes that go on have nothing new before them.
PassesGoOn ==
  \A w \in Running("watchdog")' : st'[w] = "checking" =>
    /\ w \in Running("watchdog") /\ st[w] = "checking"
    /\ todo'[w] = todo[w] \/ (todo[w] # <<>> /\ todo'[w] = Tail(todo[w]))

LEMMA AllKinds == Managed \subseteq Kinds /\ "watchdog" \in Kinds /\ Locking \subseteq Managed
                  /\ "none" \notin Kinds /\ "stranger" \notin Kinds
  BY NotManaged DEF Kinds, Locking

LEMMA PassesKeep ==
  ASSUME PassAhead, PassesGoOn,
         \A s \in Locking : Starting(s)' \subseteq Starting(s) \/
           \A w \in Running("watchdog")' : st'[w] = "checking" => s \notin Elements(todo'[w])
  PROVE  PassAhead'
<1> SUFFICES ASSUME NEW w \in Running("watchdog")', st'[w] = "checking"
             PROVE  /\ todo'[w] \in Seq(Managed) /\ Once(todo'[w])
                    /\ \A s \in Elements(todo'[w]) \cap Locking : Starting(s)' = {}
  BY DEF PassAhead, Elements, Once
<1>1. /\ todo[w] \in Seq(Managed) /\ Once(todo[w])
      /\ \A s \in Elements(todo[w]) \cap Locking : Starting(s) = {}
      /\ todo'[w] = todo[w] \/ (todo[w] # <<>> /\ todo'[w] = Tail(todo[w]))
  BY DEF PassAhead, PassesGoOn
<1>2. todo'[w] \in Seq(Managed) /\ Once(todo'[w]) /\ Elements(todo'[w]) \subseteq Elements(todo[w])
  <2>1. CASE todo'[w] = todo[w]
    BY <1>1, <2>1
  <2>2. CASE todo[w] # <<>> /\ todo'[w] = Tail(todo[w])
    BY <1>1, <2>2, TailOfOrder
  <2> QED
    BY <1>1, <2>1, <2>2
<1>3. Elements(todo'[w]) \subseteq Managed
  BY <1>2 DEF Elements
<1> QED
  BY <1>1, <1>2, <1>3

LEMMA LosesKeeps ==
  ASSUME SInv, Loses, PassesGoOn,
         \A s \in Locking : \A p \in AtWork(s) : kind'[p] = s => lock'[s] = lock[s],
         UNCHANGED cmd \/ cmd'.op # "up"
  PROVE  SInv'
<1>1. \A k \in Kinds : Running(k)' \subseteq Running(k) /\ \A p \in Running(k)' : st'[p] = st[p]
  BY DEF Loses, Running
<1>2. \A k \in Kinds : Starting(k)' \subseteq Starting(k) /\ AtWork(k)' \subseteq AtWork(k)
  BY <1>1 DEF Starting, AtWork, JustStarted
<1>3. OneStarts'
  BY <1>2, AllKinds DEF SInv, OneStarts
<1>4. Owned'
  BY <1>2, AllKinds DEF SInv, Owned, AtWork, Running
<1>5. Claimed'
  <2> SUFFICES ASSUME NEW s \in Locking, NEW p \in Starting(s)', st'[p] = "claiming"
               PROVE  AtWork(s)' = {}
    BY DEF Claimed
  <2>1. p \in Starting(s) /\ st[p] = "claiming"
    BY <1>1, <1>2, AllKinds DEF Starting
  <2> QED
    BY <1>2, <2>1, AllKinds DEF SInv, Claimed
<1>6. PassAhead'
  BY <1>2, AllKinds, PassesKeep DEF SInv
<1>7. UpAhead'
  <2> SUFFICES ASSUME UNCHANGED cmd, cmd.op = "up" PROVE UpAhead'
    BY DEF UpAhead
  <2>1. \A k \in Elements(cmd.rest) : k \in Kinds
    BY DEF SInv, UpAhead, Elements
  <2> QED
    BY <1>1, <2>1, AllKinds DEF SInv, UpAhead
<1> QED
  BY <1>3, <1>4, <1>5, <1>6, <1>7 DEF SInv

\* A process goes on to where it is neither starting nor at work.
LEMMA GoesKeeps ==
  ASSUME SInv, Table, NEW p \in Pids, NEW x \in {"claiming", "grace", "loop", "leaving"},
         Goto(p, x), kind[p] \notin Locking \/ x = "leaving",
         kind[p] \in Managed => x \in {"loop", "leaving"},
         UNCHANGED <<lock, todo, cmd>>
  PROVE  SInv'
<1>1. /\ kind' = kind /\ st'[p] = x /\ \A q \in Pids \ {p} : st'[q] = st[q]
  BY DEF Goto, Table
<1>2. \A s \in Managed : Starting(s)' \subseteq Starting(s)
  BY <1>1 DEF Starting, JustStarted, Running
<1>3. \A s \in Locking : AtWork(s)' \subseteq AtWork(s)
  BY <1>1 DEF AtWork, Running
<1>4. OneStarts' /\ Owned'
  BY <1>2, <1>3, AllKinds DEF SInv, OneStarts, Owned
<1>5. Claimed'
  <2> SUFFICES ASSUME NEW s \in Locking, NEW q \in Starting(s)', st'[q] = "claiming"
               PROVE  AtWork(s)' = {}
    BY DEF Claimed
  <2>1. q \in Starting(s) /\ st[q] = "claiming"
    BY <1>1, <1>2, AllKinds DEF Starting, Running
  <2> QED
    BY <1>3, <2>1 DEF SInv, Claimed
<1>6. PassAhead'
  <2>1. PassesGoOn
    BY <1>1 DEF PassesGoOn, Running
  <2> QED
    BY <1>2, <2>1, AllKinds, PassesKeep DEF SInv
<1>7. UpAhead'
  BY <1>1 DEF SInv, UpAhead, Running
<1> QED
  BY <1>4, <1>5, <1>6, <1>7 DEF SInv

\* A process is started where none of its service is on its way to the lock.
LEMMA LaunchKeeps ==
  ASSUME SInv, NEW k \in Kinds, NEW new, NEW gone, NEW warned, TableChanges(gone, warned, new, k),
         \A p \in Pids : p = new => kind[p] = "none",
         k \in Locking => Starting(k) = {},
         UNCHANGED lock, PassesGoOn, UpAhead',
         k \in Locking =>
           \A w \in Running("watchdog")' : st'[w] = "checking" => k \notin Elements(todo'[w])
  PROVE  SInv'
<1>1. \A p \in Pids : IF p = new THEN kind'[p] = k /\ st'[p] = "starting"
                      ELSE kind'[p] \notin Kinds \/ (kind'[p] = kind[p] /\ st'[p] = st[p])
  BY AllKinds DEF TableChanges
<1>2. \A s \in Kinds \ {k} : Starting(s)' \subseteq Starting(s)
  BY <1>1 DEF Starting, Running, JustStarted
<1>3. \A s \in Kinds : AtWork(s)' \subseteq AtWork(s)
  BY <1>1 DEF AtWork, Running
<1>4. OneStarts'
  <2> SUFFICES ASSUME NEW s \in Locking, NEW p \in Starting(s)', NEW q \in Starting(s)'
               PROVE  p = q
    BY DEF OneStarts
  <2>1. CASE s = k
    BY <1>1, <2>1, AllKinds DEF Starting, Running, JustStarted
  <2>2. CASE s # k
    BY <1>2, <2>2, AllKinds DEF SInv, OneStarts
  <2> QED
    BY <2>1, <2>2
<1>5. Owned'
  BY <1>3, AllKinds DEF SInv, Owned
<1>6. Claimed'
  <2> SUFFICES ASSUME NEW s \in Locking, NEW p \in Starting(s)', st'[p] = "claiming"
               PROVE  AtWork(s)' = {}
    BY DEF Claimed
  <2>1. p # new /\ st[p] = "claiming" /\ p \in Starting(s)
    BY <1>1, AllKinds DEF Starting, Running, JustStarted
  <2> QED
    BY <1>3, <2>1, AllKinds DEF SInv, Claimed
<1>7. PassAhead'
  BY <1>2, AllKinds, PassesKeep DEF SInv
<1> QED
  BY <1>4, <1>5, <1>6, <1>7 DEF SInv

LEMMA SameTable == ASSUME UNCHANGED <<kind, st>> PROVE Loses
  BY DEF Loses

LEMMA EndsLoses ==
  ASSUME NEW p \in Pids, Ends(p)
  PROVE  Loses /\ PassesGoOn /\ kind'[p] = "none"
<1>1. NoPid \notin Pids /\ \A q \in Pids : q # NoPid
  BY SupervisorAssumption DEF SupervisorAssumption
<1>2. \A q \in Pids : IF q = p THEN kind'[q] = "none" ELSE kind'[q] = kind[q] /\ st'[q] = st[q]
  BY <1>1 DEF Ends, TableChanges
<1>3. \A q \in Pids \ {p} : todo'[q] = todo[q]
  BY DEF Ends, Forgotten
<1> QED
  BY <1>2, <1>3, AllKinds DEF Loses, PassesGoOn, Running

LEMMA SamePasses ==
  ASSUME UNCHANGED todo, Loses
  PROVE  PassesGoOn
  BY AllKinds DEF PassesGoOn, Loses, Running

\* Nobody is at work under a lock file that a new process finds free.
LEMMA BeginSingle ==
  ASSUME SInv, Table, NEW p \in Pids, Begin(p)
  PROVE  SInv'
<1>1. UNCHANGED <<lock, cmd>> /\ kind[p] \in Managed /\ st[p] = "starting"
  BY DEF Begin, onDisk
<1>2. CASE kind[p] \notin Locking
  BY <1>1, <1>2, GoesKeeps DEF Begin, memory
<1>3. CASE Ends(p)
  BY <1>1, <1>3, EndsLoses, LosesKeeps
<1>4. CASE /\ kind[p] \in Locking /\ FreeLock(p, lock[kind[p]]) /\ Goto(p, "claiming")
           /\ UNCHANGED memory
  <2>1. /\ kind' = kind /\ st'[p] = "claiming" /\ \A q \in Pids \ {p} : st'[q] = st[q]
    BY <1>4 DEF Goto, Table
  <2>2. \A s \in Managed : Starting(s)' = Starting(s) /\ AtWork(s)' = AtWork(s)
    BY <1>1, <2>1 DEF Starting, AtWork, JustStarted, Running
  <2>3. OneStarts' /\ Owned'
    BY <1>1, <2>2, AllKinds DEF SInv, OneStarts, Owned
  <2>4. AtWork(kind[p]) = {}
    <3>1. ASSUME NEW q \in AtWork(kind[p]) PROVE FALSE
      <4>1. lock[kind[p]] = q /\ Alive(q) /\ q # p /\ q # NoPid
        BY <1>1, <1>4, AllKinds, SupervisorAssumption
           DEF SInv, Owned, AtWork, Running, Alive, SupervisorAssumption
      <4> QED
        BY <1>4, <4>1 DEF FreeLock
    <3> QED
      BY <3>1
  <2>5. Claimed'
    <3> SUFFICES ASSUME NEW s \in Locking, NEW q \in Starting(s)', st'[q] = "claiming"
                 PROVE  AtWork(s)' = {}
      BY DEF Claimed
    <3>1. CASE q = p
      BY <2>1, <2>2, <2>4, <3>1, AllKinds DEF Starting, Running
    <3>2. CASE q # p
      <4>1. q \in Starting(s) /\ st[q] = "claiming"
        BY <2>1, <2>2, <3>2, AllKinds DEF Starting, Running
      <4> QED
        BY <2>2, <4>1, AllKinds DEF SInv, Claimed
    <3> QED
      BY <3>1, <3>2
  <2>6. PassAhead'
    <3>1. PassesGoOn
      BY <1>1, <1>4, <2>1 DEF PassesGoOn, Running, memory
    <3> QED
      BY <2>2, <3>1, AllKinds, PassesKeep DEF SInv
  <2>7. UpAhead'
    BY <1>1, <2>1 DEF SInv, UpAhead, Running
  <2> QED
    BY <2>3, <2>5, <2>6, <2>7 DEF SInv
<1> QED
  BY <1>2, <1>3, <1>4 DEF Begin

\* The one that was claiming is the only one, and nobody is at work.
LEMMA WriteLockSingle ==
  ASSUME SInv, Table, Entries, NEW p \in Pids, NEW s \in Locking, kind[p] = s, WriteLock(p)
  PROVE  SInv'
<1>1. /\ s \in Locking /\ st[p] = "claiming" /\ Goto(p, "loop")
      /\ lock' = [lock EXCEPT ![s] = p] /\ UNCHANGED <<todo, cmd>>
  BY DEF WriteLock, memory
<1>2. /\ kind' = kind /\ st'[p] = "loop" /\ \A q \in Pids \ {p} : st'[q] = st[q]
  BY <1>1 DEF Goto, Table
<1>3. p \in Starting(s) /\ AtWork(s) = {} /\ \A q \in Starting(s) : q = p
  <2>1. p \in Starting(s)
    BY <1>1 DEF Starting, Running, JustStarted
  <2> QED
    BY <1>1, <2>1 DEF SInv, Claimed, OneStarts
<1>4. AtWork(s)' \subseteq {p} /\ Starting(s)' = {}
  BY <1>2, <1>3 DEF AtWork, Starting, Running, JustStarted
<1>5. \A t \in Managed \ {s} : Starting(t)' = Starting(t) /\ AtWork(t)' = AtWork(t)
  BY <1>2 DEF AtWork, Starting, Running, JustStarted
<1>6. OneStarts'
  BY <1>4, <1>5, AllKinds DEF SInv, OneStarts
<1>7. Owned'
  <2> SUFFICES ASSUME NEW t \in Locking, NEW q \in AtWork(t)' PROVE lock'[t] = q
    BY DEF Owned
  <2>1. CASE t = s
    <3>1. q = p
      BY <1>4, <2>1
    <3>2. lock'[s] = p
      BY <1>1 DEF Entries
    <3> QED
      BY <2>1, <3>1, <3>2
  <2>2. CASE t # s
    <3>1. q \in AtWork(t) /\ lock'[t] = lock[t]
      BY <1>1, <1>5, <2>2, AllKinds
    <3> QED
      BY <3>1 DEF SInv, Owned
  <2> QED
    BY <2>1, <2>2
<1>8. Claimed'
  <2> SUFFICES ASSUME NEW t \in Locking, NEW q \in Starting(t)', st'[q] = "claiming"
               PROVE  AtWork(t)' = {}
    BY DEF Claimed
  <2>1. t # s /\ q \in Starting(t) /\ q # p
    BY <1>2, <1>4, <1>5, AllKinds DEF Starting
  <2>2. st[q] = "claiming"
    BY <1>2, <2>1 DEF Starting, Running
  <2> QED
    BY <1>5, <2>1, <2>2, AllKinds DEF SInv, Claimed
<1>9. PassAhead'
  <2>1. PassesGoOn
    BY <1>1, <1>2 DEF PassesGoOn, Running
  <2> QED
    BY <1>4, <1>5, <2>1, AllKinds, PassesKeep DEF SInv
<1>10. UpAhead'
  BY <1>1, <1>2 DEF SInv, UpAhead, Running
<1> QED
  BY <1>6, <1>7, <1>8, <1>9, <1>10 DEF SInv

LEMMA ServiceSingle ==
  ASSUME SInv, Table, Entries, NEW p \in Pids, ServiceStep(p) \/ Beat(p) \/ GetStuck(p)
  PROVE  SInv'
<1>1. CASE LeaveLoop(p)
  BY <1>1, GoesKeeps DEF LeaveLoop, memory
<1>2. CASE Exit(p)
  <2>1. Ends(p) /\ UNCHANGED cmd
        /\ lock' = [s \in Locking |-> IF s = kind[p] /\ lock[s] = p THEN NoPid ELSE lock[s]]
    BY <1>2 DEF Exit
  <2>2. ASSUME NEW s \in Locking, NEW q \in AtWork(s), kind'[q] = s PROVE lock'[s] = lock[s]
    <3>1. q # p /\ lock[s] = q
      BY <2>1, <2>2, EndsLoses, AllKinds DEF SInv, Owned
    <3> QED
      BY <2>1, <3>1
  <2> QED
    BY <2>1, <2>2, EndsLoses, LosesKeeps
<1>3. CASE Beat(p) \/ GetStuck(p)
  BY <1>3, SameTable, SamePasses, LosesKeeps DEF Beat, GetStuck, table, onDisk, memory
<1>4. CASE WriteLock(p)
  BY <1>4, WriteLockSingle DEF WriteLock
<1> QED
  BY <1>1, <1>2, <1>3, <1>4, BeginSingle DEF ServiceStep

\* A pass that gets no further launch: nothing starts, the list is the same or
\* shorter by one.
LEMMA WatchdogSingle ==
  ASSUME SInv, IInv, Entries, NEW w \in Pids,
         SeeOthers(w) \/ ClaimPidFile(w) \/ BeginLoop(w) \/ CheckHealthy(w) \/ CheckWaits(w)
           \/ Save(w) \/ ExitWatchdog(w)
  PROVE  SInv'
<1>1. UNCHANGED <<lock, cmd>> /\ kind[w] = "watchdog"
  BY DEF SeeOthers, ClaimPidFile, BeginLoop, CheckHealthy, CheckWaits, Save, ExitWatchdog,
         Checking, onDisk
<1>2. "watchdog" \notin Managed /\ "watchdog" \notin Locking
  BY NotManaged DEF Locking
<1>3. CASE Ends(w)
  BY <1>1, <1>3, EndsLoses, LosesKeeps
<1>4. CASE (\E x \in {"claiming", "grace", "loop"} : Goto(w, x)) /\ UNCHANGED todo
  BY <1>1, <1>2, <1>4, GoesKeeps DEF IInv
<1>5. CASE CheckWaits(w)
  <2>1. Loses
    BY <1>5, SameTable DEF CheckWaits, table
  <2>2. PassesGoOn
    BY <1>5 DEF CheckWaits, Checking, Passed, PassesGoOn, Running, table
  <2> QED
    BY <1>1, <2>1, <2>2, LosesKeeps
<1>6. CASE CheckHealthy(w)
  <2>1. PICK extras : TableChanges(extras, {}, NoPid, "none")
    BY <1>6 DEF CheckHealthy
  <2>2. Loses
    BY <2>1, AllKinds, SupervisorAssumption DEF Loses, TableChanges, SupervisorAssumption
  <2>3. PassesGoOn
    <3>1. /\ st[w] = "checking" /\ todo[w] # <<>>
          /\ todo' = [todo EXCEPT ![w] = Tail(@)]
      BY <1>6 DEF CheckHealthy, Checking, Passed
    <3>2. \A v \in Running("watchdog")' : v \in Running("watchdog") /\ st'[v] = st[v]
      BY <2>2, AllKinds DEF Loses, Running
    <3>3. \A v \in Pids : todo'[v] = todo[v] \/ (v = w /\ todo'[v] = Tail(todo[v]))
      BY <3>1
    <3> QED
      BY <3>1, <3>2, <3>3 DEF PassesGoOn, Running
  <2> QED
    BY <1>1, <2>2, <2>3, LosesKeeps
<1> QED
  BY <1>3, <1>4, <1>5, <1>6 DEF SeeOthers, ClaimPidFile, BeginLoop, Save, ExitWatchdog, memory

\* No service is starting when a pass begins.
LEMMA SnapshotSingle ==
  ASSUME ~CommandsOverlap, SInv, IInv, Entries, NEW w \in Pids, Snapshot(w)
  PROVE  SInv'
<1>1. /\ UNCHANGED <<lock, cmd, kind>> /\ kind[w] = "watchdog" /\ st'[w] = "checking"
      /\ \A q \in Pids \ {w} : st'[q] = st[q]
  BY DEF Snapshot, Goto, IInv, Table
<1>2. "watchdog" \notin Managed
  BY NotManaged
<1>3. \A s \in Managed : Starting(s) = {} /\ Starting(s)' = {} /\ AtWork(s)' = AtWork(s)
  <2>1. \A s \in Managed : Starting(s) = {}
    BY DEF Snapshot, Starting, Running
  <2> QED
    BY <1>1, <1>2, <2>1 DEF Starting, AtWork, JustStarted, Running
<1>4. OneStarts' /\ Owned' /\ Claimed'
  BY <1>1, <1>3, AllKinds DEF SInv, OneStarts, Owned, Claimed
<1>5. PassAhead'
  <2> SUFFICES ASSUME NEW v \in Running("watchdog")', st'[v] = "checking"
               PROVE  todo'[v] \in Seq(Managed) /\ Once(todo'[v])
    <3>1. ASSUME NEW v \in Running("watchdog")', todo'[v] \in Seq(Managed)
          PROVE  \A s \in Elements(todo'[v]) \cap Locking : Starting(s)' = {}
      BY <1>3, <3>1, AllKinds
    <3> QED
      BY <3>1 DEF PassAhead, Elements, Once
  <2>1. v = w
    <3>1. v \in Running("watchdog") /\ w \in Running("watchdog") /\ st[w] = "loop"
      BY <1>1 DEF Running, Snapshot
    <3>2. v # w => st[v] = "checking"
      BY <1>1, <3>1 DEF Running
    <3> QED
      BY <3>1, <3>2 DEF IInv, OneWatchdog
  <2>2. todo' = [todo EXCEPT ![w] = ServiceOrder]
    BY DEF Snapshot
  <2>3. todo'[w] = ServiceOrder
    BY <2>2 DEF Entries
  <2> QED
    BY <2>1, <2>3, Orders
<1>6. UpAhead'
  BY <1>1 DEF SInv, UpAhead, Running
<1> QED
  BY <1>4, <1>5, <1>6 DEF SInv

\* A restart: the pass has not started this service before, and will not again.
LEMMA RestartSingle ==
  ASSUME SInv, IInv, Entries, NEW w \in Pids, CheckRestart(w)
  PROVE  SInv'
<1> DEFINE victims == snap[w][At(w)] \cap Running(At(w))
           gone == victims \ Survivors(victims)
<1>1. /\ UNCHANGED <<lock, cmd>> /\ w \in Running("watchdog") /\ st[w] = "checking"
      /\ todo[w] # <<>> /\ todo' = [todo EXCEPT ![w] = Tail(@)]
  BY DEF CheckRestart, Checking, Passed, Running, onDisk
<1>2. /\ todo[w] \in Seq(Managed) /\ Once(todo[w]) /\ At(w) \in Managed
      /\ At(w) \in Locking => Starting(At(w)) = {}
      /\ At(w) \notin Elements(Tail(todo[w]))
  <2>1. /\ todo[w] \in Seq(Managed) /\ Once(todo[w])
        /\ \A s \in Elements(todo[w]) \cap Locking : Starting(s) = {}
    BY <1>1 DEF SInv, PassAhead
  <2> QED
    BY <1>1, <2>1, TailOfOrder DEF At
<1>3. PICK new \in Spawned : TableChanges(gone, Survivors(victims), new, At(w))
  BY DEF CheckRestart
<1>4. \A p \in Pids : p = new => kind[p] = "none"
  BY FreeIsNone
<1>5. \A v \in Running("watchdog")' : v \in Running("watchdog") /\ st'[v] = st[v]
  BY <1>2, <1>3, NotManaged DEF TableChanges, Running
<1>6. \A v \in Running("watchdog")' : st'[v] = "checking" => v = w
  BY <1>1, <1>5 DEF IInv, OneWatchdog
<1>7. ASSUME NEW v \in Running("watchdog")', st'[v] = "checking"
      PROVE  v = w /\ todo'[w] = Tail(todo[w])
  BY <1>1, <1>6, <1>7 DEF Entries
<1>8. PassesGoOn
  BY <1>1, <1>5, <1>7 DEF PassesGoOn
<1>9. UpAhead'
  <2> SUFFICES ASSUME cmd.op = "up" PROVE UpAhead'
    BY <1>1 DEF UpAhead
  <2>1. cmd.rest = <<>>
    BY <1>1 DEF SInv, UpAhead
  <2>2. Elements(cmd.rest) = {}
    BY <2>1 DEF Elements
  <2> QED
    BY <1>1, <2>1, <2>2 DEF SInv, UpAhead
<1>10. \A v \in Running("watchdog")' : st'[v] = "checking" => At(w) \notin Elements(todo'[v])
  BY <1>2, <1>7
<1> HIDE DEF gone
<1> QED
  BY <1>1, <1>2, <1>3, <1>4, <1>8, <1>9, <1>10, AllKinds, LaunchKeeps

LEMMA NoneLeft == ASSUME NEW S, NEW q \in Seq(S), Len(q) = 0 PROVE q = <<>>
  OBVIOUS

\* A command: without a watchdog nobody else starts what `up` found missing.
LEMMA UpStartsSingle ==
  ASSUME SInv, IInv, Entries, UpStarts
  PROVE  SInv'
<1> DEFINE k == Head(cmd.rest)
<1>1. /\ cmd.op = "up" /\ cmd.rest # <<>> /\ UNCHANGED <<lock, todo>>
      /\ cmd' = [cmd EXCEPT !.rest = Tail(@), !.seen = @ \ {k}]
  BY DEF UpStarts, memory
<1>2. /\ cmd.rest \in Seq(Kinds) /\ Once(cmd.rest) /\ Running("watchdog") = {}
      /\ \A i \in 1..Len(cmd.rest) : cmd.rest[i] = "watchdog" => i = Len(cmd.rest)
      /\ \A l \in Elements(cmd.rest) \ cmd.seen : Running(l) = {}
  BY <1>1 DEF SInv, UpAhead
<1>3. /\ Tail(cmd.rest) \in Seq(Kinds) /\ Once(Tail(cmd.rest)) /\ k \in Kinds
      /\ Elements(cmd.rest) = {k} \cup Elements(Tail(cmd.rest)) /\ k \notin Elements(Tail(cmd.rest))
  BY <1>1, <1>2, TailOfOrder
<1>4. /\ Len(cmd.rest) \in Nat /\ Len(cmd.rest) >= 1 /\ k = cmd.rest[1]
      /\ Len(Tail(cmd.rest)) = Len(cmd.rest) - 1
      /\ \A i \in 1..Len(Tail(cmd.rest)) : Tail(cmd.rest)[i] = cmd.rest[i + 1]
  BY <1>1, <1>2
<1>5. /\ \A i \in 1..Len(Tail(cmd.rest)) : Tail(cmd.rest)[i] = "watchdog" => i = Len(Tail(cmd.rest))
      /\ k = "watchdog" => Tail(cmd.rest) = <<>>
  <2>1. ASSUME NEW i \in 1..Len(Tail(cmd.rest)), Tail(cmd.rest)[i] = "watchdog"
        PROVE  i = Len(Tail(cmd.rest))
    <3>1. i + 1 \in 1..Len(cmd.rest)
      BY <1>4
    <3> QED
      BY <1>2, <1>4, <2>1, <3>1
  <2>2. ASSUME k = "watchdog" PROVE Tail(cmd.rest) = <<>>
    <3>1. 1 \in 1..Len(cmd.rest)
      BY <1>4
    <3>2. cmd.rest[1] = "watchdog"
      BY <1>4, <2>2
    <3>3. 1 = Len(cmd.rest)
      BY <1>2, <3>1, <3>2
    <3>4. Len(Tail(cmd.rest)) = 0
      BY <1>4, <3>3
    <3> QED
      BY <1>3, <3>4, NoneLeft
  <2> QED
    BY <2>1, <2>2
<1> HIDE DEF k
<1>6. cmd'.op = cmd.op /\ cmd'.rest = Tail(cmd.rest) /\ cmd'.seen = cmd.seen \ {k}
  BY <1>1 DEF Entries, WholeCmd
<1>7. CASE k \in cmd.seen
  <2>1. UNCHANGED <<kind, st>>
    BY <1>7 DEF UpStarts, table, k
  <2>2. UpAhead'
    <3>1. \A l \in Elements(Tail(cmd.rest)) \ (cmd.seen \ {k}) : Running(l) = {}
      BY <1>2, <1>3
    <3> QED
      BY <1>2, <1>3, <1>5, <1>6, <2>1, <3>1 DEF UpAhead, Running
  <2>3. \A s : Starting(s)' = Starting(s) /\ AtWork(s)' = AtWork(s)
    BY <2>1 DEF Starting, AtWork, JustStarted, Running
  <2>4. OneStarts' /\ Owned' /\ Claimed'
    BY <1>1, <2>1, <2>3 DEF SInv, OneStarts, Owned, Claimed
  <2>5. PassAhead'
    BY <1>2, <2>1 DEF PassAhead, Running
  <2> QED
    BY <2>2, <2>4, <2>5 DEF SInv
<1>8. CASE k \notin cmd.seen
  <2>1. PICK new \in Spawned : TableChanges({}, {}, new, k)
    BY <1>8 DEF UpStarts, k
  <2>2. \A p \in Pids : p = new => kind[p] = "none"
    BY FreeIsNone
  <2>3. Running(k) = {}
    BY <1>2, <1>3, <1>8
  <2>4. \A l \in Kinds \ {k} : Running(l)' \subseteq Running(l)
    BY <2>1 DEF TableChanges, Running
  <2>5. \A p \in Running("watchdog")' : p = new /\ st'[p] = "starting"
    BY <1>2, <2>1, AllKinds DEF TableChanges, Running
  <2>6. UpAhead'
    <3>1. Tail(cmd.rest) # <<>> => Running("watchdog")' = {}
      BY <1>2, <1>5, <2>4, AllKinds
    <3>2. \A l \in Elements(Tail(cmd.rest)) \ (cmd.seen \ {k}) : Running(l)' = {}
      <4>1. Elements(Tail(cmd.rest)) \subseteq Kinds
        BY <1>3 DEF Elements
      <4> QED
        BY <1>2, <1>3, <2>4, <4>1
    <3> QED
      BY <1>3, <1>5, <1>6, <3>1, <3>2 DEF UpAhead
  <2>7. PassesGoOn
    BY <2>5 DEF PassesGoOn
  <2>8. Starting(k) = {}
    BY <2>3 DEF Starting
  <2> QED
    BY <1>1, <1>3, <2>1, <2>2, <2>5, <2>6, <2>7, <2>8, LaunchKeeps
<1> QED
  BY <1>7, <1>8

\* `spark up` looks at what runs; it is begun only without a watchdog.
LEMMA UpBeginsSingle ==
  ASSUME ~CommandsOverlap, SInv, UpBegins
  PROVE  SInv'
<1>1. /\ UNCHANGED <<kind, st, lock, todo>> /\ Running("watchdog") = {}
      /\ cmd'.op = "up" /\ cmd'.rest = UpOrder
      /\ cmd'.seen = {k \in Kinds : Running(k) # {}}
  BY DEF UpBegins, table, onDisk, memory, Idle
<1>2. \A s : Starting(s)' = Starting(s) /\ AtWork(s)' = AtWork(s) /\ Running(s)' = Running(s)
  BY <1>1 DEF Starting, AtWork, JustStarted, Running
<1>3. OneStarts' /\ Owned' /\ Claimed' /\ PassAhead'
  BY <1>1, <1>2 DEF SInv, OneStarts, Owned, Claimed, PassAhead
<1>4. UpAhead'
  <2>1. \A k \in Elements(UpOrder) : k \in Kinds
    BY Orders DEF Elements
  <2>2. \A k \in Elements(UpOrder) \ cmd'.seen : Running(k)' = {}
    BY <1>1, <1>2, <2>1
  <2> QED
    BY <1>1, <1>2, <2>2, Orders DEF UpAhead
<1> QED
  BY <1>3, <1>4 DEF SInv

LEMMA GoneLoses ==
  ASSUME NEW gone, NEW warned, TableChanges(gone, warned, NoPid, "none"), Forgotten(gone)
  PROVE  Loses /\ PassesGoOn
<1>1. \A q \in Pids : q # NoPid
  BY SupervisorAssumption DEF SupervisorAssumption
<1>2. \A q \in Pids : IF q \in gone THEN kind'[q] = "none" ELSE kind'[q] = kind[q] /\ st'[q] = st[q]
  BY <1>1 DEF TableChanges
<1>3. \A q \in Pids \ gone : todo'[q] = todo[q]
  BY DEF Forgotten
<1> QED
  BY <1>2, <1>3, AllKinds DEF Loses, PassesGoOn, Running

LEMMA CommandSingle ==
  ASSUME ~CommandsOverlap, SInv, IInv, Entries, UpBegins \/ DownBegins \/ CommandStep
  PROVE  SInv'
<1>1. CASE DownBegins \/ CommandEnds
  <2> SUFFICES cmd'.op # "up"
    <3>1. UNCHANGED <<kind, st, lock, todo>>
      BY <1>1 DEF DownBegins, CommandEnds, table, onDisk, memory
    <3> QED
      BY <3>1, SameTable, SamePasses, LosesKeeps
  <2>1. CASE DownBegins
    <3>1. cmd' = [op |-> "down", rest |-> DownOrder, seen |-> {}, round |-> 0, left |-> {}]
      BY <2>1 DEF DownBegins, Idle
    <3> QED
      BY <3>1
  <2>2. CASE CommandEnds
    BY <2>2 DEF CommandEnds, Idle
  <2> QED
    BY <1>1, <2>1, <2>2
<1>2. CASE DownMovesOn
  <2>1. cmd'.op # "up" /\ UNCHANGED <<kind, st, lock, todo>>
    BY <1>2 DEF DownMovesOn, Entries, WholeCmd, table, memory
  <2> QED
    BY <2>1, SameTable, SamePasses, LosesKeeps
<1>3. CASE DownSignals
  <2>1. cmd'.op # "up" /\ UNCHANGED lock
    BY <1>3 DEF DownSignals, Entries, WholeCmd, onDisk
  <2>2. Loses /\ PassesGoOn
    BY <1>3, GoneLoses DEF DownSignals
  <2> QED
    BY <2>1, <2>2, LosesKeeps
<1> QED
  BY <1>1, <1>2, <1>3, UpBeginsSingle, UpStartsSingle DEF CommandStep

LEMMA ByHandSingle ==
  ASSUME SInv, IInv, NEW k \in {"watchdog", "openclaw_tailer"} \cap Kinds, StartByHand(k)
  PROVE  SInv'
<1>1. UNCHANGED <<lock, todo, cmd>> /\ cmd.op = "none" /\ k \in Kinds /\ k \notin Locking
  BY NotManaged DEF StartByHand, onDisk, memory, Locking
<1>2. PICK new \in Spawned : TableChanges({}, {}, new, k)
  BY DEF StartByHand
<1>3. \A p \in Pids : p = new => kind[p] = "none"
  BY FreeIsNone
<1>4. PassesGoOn
  BY <1>1, <1>2 DEF PassesGoOn, TableChanges, Running
<1>5. UpAhead'
  BY <1>1 DEF UpAhead
<1> QED
  BY <1>1, <1>2, <1>3, <1>4, <1>5, LaunchKeeps

LEMMA WorldSingle ==
  ASSUME SInv, IInv,
         (\E p \in Pids : Crash(p) \/ TakePid(p) \/ LeavePid(p)) \/ Tick
  PROVE  SInv'
<1>1. ASSUME NEW p \in Pids, Crash(p) PROVE SInv'
  <2>1. UNCHANGED <<lock, cmd>> /\ Ends(p)
    BY <1>1 DEF Crash, onDisk
  <2> QED
    BY <2>1, EndsLoses, LosesKeeps
<1>2. ASSUME NEW p \in Pids, TakePid(p) \/ LeavePid(p) PROVE SInv'
  <2>1. UNCHANGED <<lock, cmd, todo>> /\ Loses
    BY <1>2, AllKinds DEF TakePid, LeavePid, onDisk, memory, Loses, IInv, Table
  <2> QED
    BY <2>1, SamePasses, LosesKeeps
<1>3. ASSUME Tick PROVE SInv'
  BY <1>3, SameTable, SamePasses, LosesKeeps DEF Tick, table
<1> QED
  BY <1>1, <1>2, <1>3

LEMMA StepSInv ==
  ASSUME ~CommandsOverlap, SInv, IInv, Entries, [Next]_vars
  PROVE  SInv'
<1>1. ASSUME NEW p \in Pids, ServiceStep(p) \/ Beat(p) \/ GetStuck(p) PROVE SInv'
  BY <1>1, ServiceSingle DEF IInv
<1>2. ASSUME NEW w \in Pids, WatchdogStep(w) PROVE SInv'
  BY <1>2, WatchdogSingle, SnapshotSingle, RestartSingle DEF WatchdogStep
<1>3. CASE UNCHANGED vars
  BY <1>3, SameTable, SamePasses, LosesKeeps DEF vars, table, onDisk, memory
<1> QED
  BY <1>1, <1>2, <1>3, CommandSingle, ByHandSingle, WorldSingle DEF Next

LEMMA StepEntries == Entries /\ [Next]_vars => Entries'
<1> SUFFICES ASSUME Entries, [Next]_vars PROVE Entries'
  OBVIOUS
<1>1. lock' = [s \in Locking |-> lock'[s]]
  <2>1. CASE UNCHANGED lock
    BY <2>1 DEF Entries
  <2>2. CASE \E p \in Pids : WriteLock(p) \/ Exit(p)
    BY <2>2 DEF WriteLock, Exit, Entries
  <2>3. ASSUME NEW p \in Pids, ServiceStep(p), ~WriteLock(p), ~Exit(p) PROVE UNCHANGED lock
    BY <2>3 DEF ServiceStep, Begin, LeaveLoop, onDisk
  <2>4. ASSUME NEW p \in Pids, WatchdogStep(p) PROVE UNCHANGED lock
    BY <2>4 DEF WatchdogStep, SeeOthers, ClaimPidFile, BeginLoop, Snapshot, CheckHealthy,
                CheckWaits, CheckRestart, Save, ExitWatchdog, onDisk
  <2>5. ASSUME NEW p \in Pids, Beat(p) \/ GetStuck(p) \/ Crash(p) \/ TakePid(p) \/ LeavePid(p)
        PROVE  UNCHANGED lock
    BY <2>5 DEF Beat, GetStuck, Crash, TakePid, LeavePid, onDisk
  <2>6. CASE UpBegins \/ DownBegins \/ CommandStep
    BY <2>1, <2>6 DEF UpBegins, DownBegins, CommandStep, UpStarts, DownSignals, DownMovesOn,
                      CommandEnds, onDisk
  <2>7. ASSUME NEW k, StartByHand(k) PROVE UNCHANGED lock
    BY <2>7 DEF StartByHand, onDisk
  <2>8. CASE Tick \/ UNCHANGED vars
    BY <2>1, <2>8 DEF Tick, vars, onDisk
  <2> QED
    BY <2>1, <2>2, <2>3, <2>4, <2>5, <2>6, <2>7, <2>8 DEF Next
<1>2. todo' = [p \in Pids |-> todo'[p]]
  <2>1. CASE UNCHANGED todo
    BY <2>1 DEF Entries
  <2>2. CASE \E gone : Forgotten(gone)
    BY <2>2 DEF Forgotten
  <2>3. CASE \E p \in Pids : Snapshot(p) \/ Passed(p)
    BY <2>3 DEF Snapshot, Passed, Entries
  <2>4. ASSUME NEW p \in Pids, ServiceStep(p) \/ Beat(p) \/ GetStuck(p)
        PROVE  UNCHANGED todo \/ \E gone : Forgotten(gone)
    BY <2>4 DEF ServiceStep, Begin, WriteLock, LeaveLoop, Exit, Beat, GetStuck, Ends, memory
  <2>5. ASSUME NEW p \in Pids, WatchdogStep(p)
        PROVE  UNCHANGED todo \/ Snapshot(p) \/ Passed(p) \/ \E gone : Forgotten(gone)
    BY <2>5 DEF WatchdogStep, SeeOthers, ClaimPidFile, BeginLoop, CheckHealthy, CheckWaits,
                CheckRestart, Save, ExitWatchdog, Ends, memory
  <2>6. ASSUME NEW p \in Pids, Crash(p) \/ TakePid(p) \/ LeavePid(p)
        PROVE  UNCHANGED todo \/ \E gone : Forgotten(gone)
    BY <2>6 DEF Crash, TakePid, LeavePid, Ends, memory
  <2>7. CASE UpBegins \/ DownBegins \/ CommandStep
    BY <2>1, <2>2, <2>7 DEF UpBegins, DownBegins, CommandStep, UpStarts, DownSignals,
                            DownMovesOn, CommandEnds, memory
  <2>8. ASSUME NEW k, StartByHand(k) PROVE UNCHANGED todo
    BY <2>8 DEF StartByHand, memory
  <2>9. CASE Tick \/ UNCHANGED vars
    BY <2>1, <2>9 DEF Tick, vars, memory
  <2> QED
    BY <2>1, <2>2, <2>3, <2>4, <2>5, <2>6, <2>7, <2>8, <2>9 DEF Next
<1>3. WholeCmd'
  <2>1. CASE UNCHANGED cmd
    BY <2>1 DEF Entries, WholeCmd
  <2>2. CASE UpBegins \/ DownBegins \/ CommandStep
    BY <2>2 DEF UpBegins, DownBegins, CommandStep, UpStarts, DownSignals, DownMovesOn,
                CommandEnds, Entries, WholeCmd, Idle
  <2>3. ASSUME NEW p \in Pids, ServiceStep(p) \/ Beat(p) \/ GetStuck(p) PROVE UNCHANGED cmd
    BY <2>3 DEF ServiceStep, Begin, WriteLock, LeaveLoop, Exit, Beat, GetStuck
  <2>4. ASSUME NEW p \in Pids, WatchdogStep(p) PROVE UNCHANGED cmd
    BY <2>4 DEF WatchdogStep, SeeOthers, ClaimPidFile, BeginLoop, Snapshot, CheckHealthy,
                CheckWaits, CheckRestart, Save, ExitWatchdog
  <2>5. ASSUME NEW p \in Pids, Crash(p) \/ TakePid(p) \/ LeavePid(p) PROVE UNCHANGED cmd
    BY <2>5 DEF Crash, TakePid, LeavePid
  <2>6. ASSUME NEW k, StartByHand(k) PROVE UNCHANGED cmd
    BY <2>6 DEF StartByHand
  <2>7. CASE Tick \/ UNCHANGED vars
    BY <2>1, <2>7 DEF Tick, vars
  <2> QED
    BY <2>1, <2>2, <2>3, <2>4, <2>5, <2>6, <2>7 DEF Next
<1> QED
  BY <1>1, <1>2, <1>3 DEF Entries

LEMMA InitSInv == Init => Entries /\ SInv
<1> SUFFICES ASSUME Init PROVE Entries /\ SInv
  OBVIOUS
<1>1. Entries
  BY DEF Init, Entries, WholeCmd, Idle
<1>2. \A k \in Kinds : Running(k) = {}
  BY AllKinds DEF Init, Running
<1>3. SInv
  BY <1>2, AllKinds DEF Init, Idle, SInv, OneStarts, Owned, Claimed, PassAhead, UpAhead,
                        Starting, AtWork
<1> QED
  BY <1>1, <1>3

\* Of a service with a lock file one process works at a time, although each
\* reads the file and writes it in two steps (bridge_worker.py:42-60): as long
\* as `spark up` is not run beside a watchdog, nobody starts a second one while
\* another is between the two, and whoever reads the file finds the pid of the
\* one that works.
THEOREM OneProcessEach == ASSUME ~CommandsOverlap PROVE Spec => []OneOfEach
<1>1. Init => IInv /\ Entries /\ SInv
  BY InitIInv, InitSInv
<1>2. IInv /\ Entries /\ SInv /\ [Next]_vars => (IInv /\ Entries /\ SInv)'
  BY StepIInv, StepEntries, StepSInv
<1>3. SInv => OneOfEach
  <2> SUFFICES ASSUME SInv, NEW p \in Pids, NEW q \in Pids,
                      st[p] = "loop", st[q] = "loop", kind[p] = kind[q], kind[p] \in Locking
               PROVE  p = q
    BY DEF OneOfEach
  <2>1. p \in AtWork(kind[p]) /\ q \in AtWork(kind[p])
    BY DEF AtWork, Running
  <2> QED
    BY <2>1 DEF SInv, Owned
<1> QED
  BY <1>1, <1>2, <1>3, PTL DEF Spec

-----------------------------------------------------------------------------
(* `spark down`. *)

\* The watchdog is first; once it is known to be gone nothing starts a service.
DownAhead ==
  cmd.op = "down" =>
    /\ cmd.rest \in Seq(Kinds)
    /\ cmd.rest = DownOrder \/ "watchdog" \notin Elements(cmd.rest)
    /\ "watchdog" \notin Elements(cmd.rest) \cup cmd.left =>
         /\ Running("watchdog") = {}
         /\ \A k \in Commanded \ Elements(cmd.rest) : Running(k) \subseteq told
         /\ cmd.rest # <<>> /\ cmd.round > 0 => Running(Head(cmd.rest)) \subseteq told

\* Nobody starts, and who has seen SIGTERM stays told.
NoneComes ==
  \A p \in Pids : kind'[p] \in Kinds => /\ kind'[p] = kind[p]
                                        /\ p \in told => p \in told'

LEMMA NoneComesKeeps ==
  ASSUME DownAhead, NoneComes, UNCHANGED cmd
  PROVE  DownAhead'
<1> SUFFICES ASSUME cmd.op = "down" PROVE DownAhead'
  BY DEF DownAhead
<1>1. cmd.rest \in Seq(Kinds) /\ Commanded \subseteq Kinds
  BY AllKinds DEF DownAhead, Commanded
<1>2. \A k \in Kinds : /\ Running(k)' \subseteq Running(k)
                       /\ Running(k) \subseteq told => Running(k)' \subseteq told'
  BY DEF NoneComes, Running
<1>3. cmd.rest # <<>> => Head(cmd.rest) \in Kinds
  BY <1>1
<1>4. CASE "watchdog" \in Elements(cmd.rest) \cup cmd.left
  BY <1>4 DEF DownAhead
<1>5. CASE "watchdog" \notin Elements(cmd.rest) \cup cmd.left
  <2>1. Running("watchdog")' = {}
    BY <1>2, <1>5, AllKinds DEF DownAhead
  <2>2. \A k \in Commanded \ Elements(cmd.rest) : Running(k)' \subseteq told'
    BY <1>1, <1>2, <1>5 DEF DownAhead
  <2>3. cmd.rest # <<>> /\ cmd.round > 0 => Running(Head(cmd.rest))' \subseteq told'
    BY <1>2, <1>3, <1>5 DEF DownAhead
  <2> QED
    BY <2>1, <2>2, <2>3 DEF DownAhead
<1> QED
  BY <1>4, <1>5

LEMMA GoneNoneComes ==
  ASSUME NEW gone, NEW warned, TableChanges(gone, warned, NoPid, "none")
  PROVE  NoneComes
<1>1. \A q \in Pids : q # NoPid
  BY SupervisorAssumption DEF SupervisorAssumption
<1> QED
  BY <1>1, AllKinds DEF TableChanges, NoneComes

\* `spark down` goes on to the next service, with none of this one left or
\* after it has told them all.
LEMMA DownMovesAhead ==
  ASSUME Entries, DownAhead, DownMovesOn
  PROVE  DownAhead'
<1> DEFINE k == Head(cmd.rest)
<1>1. /\ cmd.op = "down" /\ cmd.rest \in Seq(Kinds) /\ cmd.rest # <<>>
      /\ cmd.rest = DownOrder \/ "watchdog" \notin Elements(cmd.rest)
  BY DEF DownMovesOn, DownAhead
<1>2. /\ UNCHANGED <<kind, told>>
      /\ Running(k) = {} \/ cmd.round = 3
      /\ cmd' = [cmd EXCEPT !.rest = Tail(@), !.round = 0,
                            !.left = IF Running(k) = {} THEN @ ELSE @ \cup {k}]
  BY DEF DownMovesOn, table
<1>3. /\ cmd'.rest = Tail(cmd.rest) /\ cmd'.round = 0
      /\ cmd'.left = IF Running(k) = {} THEN cmd.left ELSE cmd.left \cup {k}
  BY <1>2 DEF Entries, WholeCmd
<1>4. /\ Tail(cmd.rest) \in Seq(Kinds)
      /\ Elements(cmd.rest) = {k} \cup Elements(Tail(cmd.rest))
  BY <1>1, TailOfOrder
<1>5. \A l : Running(l)' = Running(l)
  BY <1>2 DEF Running
<1> HIDE DEF k
<1>6. CASE cmd.rest = DownOrder
  <2>1. /\ k = "watchdog" /\ "watchdog" \notin Elements(Tail(cmd.rest))
        /\ Commanded \subseteq Elements(Tail(cmd.rest))
    BY <1>6, Orders DEF k
  <2>2. "watchdog" \notin cmd'.left => Running("watchdog")' = {}
    BY <1>3, <1>5, <2>1
  <2> QED
    BY <1>3, <1>4, <2>1, <2>2 DEF DownAhead
<1>7. CASE "watchdog" \notin Elements(cmd.rest)
  <2>1. "watchdog" \notin cmd'.left => "watchdog" \notin Elements(cmd.rest) \cup cmd.left
    BY <1>3, <1>7
  <2>2. ASSUME "watchdog" \notin cmd'.left
        PROVE  /\ Running("watchdog")' = {}
               /\ \A l \in Commanded \ Elements(Tail(cmd.rest)) : Running(l)' \subseteq told'
    <3>1. /\ Running("watchdog") = {}
          /\ \A l \in Commanded \ Elements(cmd.rest) : Running(l) \subseteq told
          /\ cmd.round > 0 => Running(k) \subseteq told
      BY <1>1, <2>1, <2>2 DEF DownAhead, k
    <3>2. Running(k) \subseteq told
      BY <1>2, <3>1 DEF k
    <3>3. \A l \in Commanded \ Elements(Tail(cmd.rest)) : Running(l) \subseteq told
      BY <1>4, <3>1, <3>2
    <3> QED
      BY <1>2, <1>5, <3>1, <3>3
  <2>3. "watchdog" \notin Elements(Tail(cmd.rest))
    BY <1>4, <1>7
  <2> QED
    BY <1>3, <1>4, <2>2, <2>3 DEF DownAhead
<1> QED
  BY <1>1, <1>6, <1>7

\* ... and tells all of one service.
LEMMA DownSignalsAhead ==
  ASSUME Entries, DownAhead, DownSignals
  PROVE  DownAhead'
<1> DEFINE k == Head(cmd.rest)
           spared == Survivors(Running(k))
<1>1. /\ cmd.op = "down" /\ cmd.rest \in Seq(Kinds) /\ cmd.rest # <<>> /\ k \in Kinds
      /\ Commanded \subseteq Kinds
  BY AllKinds DEF DownSignals, DownAhead, Commanded
<1>2. /\ TableChanges(Running(k) \ spared, spared, NoPid, "none")
      /\ cmd' = [cmd EXCEPT !.round = @ + 1]
  BY DEF DownSignals
<1>3. cmd'.op = cmd.op /\ cmd'.rest = cmd.rest /\ cmd'.left = cmd.left
  BY <1>2 DEF Entries, WholeCmd
<1>4. NoneComes
  BY <1>2, GoneNoneComes
<1>5. \A l \in Kinds : /\ Running(l)' \subseteq Running(l)
                       /\ Running(l) \subseteq told => Running(l)' \subseteq told'
  BY <1>4 DEF NoneComes, Running
<1>6. ASSUME NEW l \in Kinds, l = k PROVE Running(l)' \subseteq told'
  <2>1. \A q \in Pids : q # NoPid
    BY SupervisorAssumption DEF SupervisorAssumption
  <2> HIDE DEF k, spared
  <2>2. \A q \in Running(l) \ spared : kind'[q] = "none"
    BY <1>2, <1>6, <2>1 DEF TableChanges, Running
  <2>3. spared \subseteq told'
    BY <1>2 DEF TableChanges
  <2>4. l # "none" /\ Running(l)' \subseteq Running(l)
    BY <1>5, AllKinds
  <2> QED
    BY <2>2, <2>3, <2>4 DEF Running
<1> HIDE DEF k, spared
<1>7. CASE "watchdog" \in Elements(cmd.rest) \cup cmd.left
  BY <1>3, <1>7 DEF DownAhead
<1>8. CASE "watchdog" \notin Elements(cmd.rest) \cup cmd.left
  <2>1. Running("watchdog")' = {}
    BY <1>1, <1>5, <1>8, AllKinds DEF DownAhead
  <2>2. \A l \in Commanded \ Elements(cmd.rest) : Running(l)' \subseteq told'
    BY <1>1, <1>5, <1>8 DEF DownAhead
  <2>3. Running(Head(cmd.rest))' \subseteq told'
    BY <1>1, <1>3, <1>6 DEF k
  <2> QED
    BY <1>1, <1>3, <1>8, <2>1, <2>2, <2>3 DEF DownAhead
<1> QED
  BY <1>7, <1>8

LEMMA StepDownAhead ==
  ASSUME IInv, Entries, DownAhead, [Next]_vars
  PROVE  DownAhead'
<1>1. ASSUME NEW p \in Pids, Ends(p), UNCHANGED cmd PROVE DownAhead'
  BY <1>1, GoneNoneComes, NoneComesKeeps DEF Ends
<1>2. CASE UNCHANGED <<kind, told, cmd>>
  BY <1>2, NoneComesKeeps DEF NoneComes
<1>3. ASSUME NEW p \in Pids, ServiceStep(p) \/ Beat(p) \/ GetStuck(p) PROVE DownAhead'
  BY <1>1, <1>2, <1>3
     DEF ServiceStep, Begin, WriteLock, LeaveLoop, Exit, Beat, GetStuck, Goto, table
<1>4. ASSUME NEW w \in Pids, WatchdogStep(w) PROVE DownAhead'
  <2>1. w \in Running("watchdog")
    BY <1>4 DEF WatchdogStep, SeeOthers, ClaimPidFile, BeginLoop, Snapshot, CheckHealthy,
                CheckWaits, CheckRestart, Save, ExitWatchdog, Checking, Running
  <2>2. UNCHANGED cmd
    BY <1>4 DEF WatchdogStep, SeeOthers, ClaimPidFile, BeginLoop, Snapshot, CheckHealthy,
                CheckWaits, CheckRestart, Save, ExitWatchdog
  <2> QED
    BY <2>1, <2>2 DEF DownAhead
<1>5. ASSUME NEW p \in Pids, Crash(p) \/ TakePid(p) \/ LeavePid(p) PROVE DownAhead'
  <2>1. CASE Crash(p)
    BY <1>1, <2>1 DEF Crash
  <2>2. CASE TakePid(p) \/ LeavePid(p)
    <3>1. NoneComes /\ UNCHANGED cmd
      BY <2>2, AllKinds DEF TakePid, LeavePid, NoneComes, IInv, Table
    <3> QED
      BY <3>1, NoneComesKeeps
  <2> QED
    BY <1>5, <2>1, <2>2
<1>6. ASSUME UpBegins \/ UpStarts \/ CommandEnds \/ \E k : StartByHand(k) PROVE DownAhead'
  <2>1. CASE UpBegins
    BY <2>1 DEF UpBegins, Idle, DownAhead
  <2>2. CASE UpStarts
    BY <2>2 DEF UpStarts, Entries, WholeCmd, DownAhead
  <2>3. CASE CommandEnds
    BY <2>3 DEF CommandEnds, Idle, DownAhead
  <2>4. CASE \E k : StartByHand(k)
    BY <2>4 DEF StartByHand, DownAhead
  <2> QED
    BY <1>6, <2>1, <2>2, <2>3, <2>4
<1>7. CASE DownBegins
  <2>1. cmd' = [op |-> "down", rest |-> DownOrder, seen |-> {}, round |-> 0, left |-> {}]
    BY <1>7 DEF DownBegins, Idle
  <2>2. "watchdog" \in Elements(DownOrder)
    BY Orders, TailOfOrder
  <2> QED
    BY <2>1, <2>2, Orders DEF DownAhead
<1>8. CASE Tick \/ UNCHANGED vars
  BY <1>2, <1>8 DEF Tick, vars, table
<1> QED
  BY <1>3, <1>4, <1>5, <1>6, <1>7, <1>8, DownMovesAhead, DownSignalsAhead DEF Next, CommandStep

\* When `spark down` ends and had seen the watchdog gone, whoever still runs of
\* a service that it stops has seen SIGTERM (lib/service_control.py:662-725):
\* the watchdog is stopped first, and without it nothing starts while a command
\* runs; whether or not `spark up` is ever run beside a watchdog.
THEOREM DownReaches == Spec => DownReachesAll
<1>1. Init => IInv /\ Entries /\ DownAhead
  BY InitIInv, InitSInv DEF Init, DownAhead, Idle
<1>2. IInv /\ Entries /\ DownAhead /\ [Next]_vars => (IInv /\ Entries /\ DownAhead)'
  BY StepIInv, StepEntries, StepDownAhead
<1>3. DownAhead =>
        ((cmd.op = "down" /\ cmd.rest = <<>> /\ "watchdog" \notin cmd.left) =>
           \A k \in Commanded : Running(k) \subseteq told)
  <2> SUFFICES ASSUME DownAhead, cmd.op = "down", cmd.rest = <<>>, "watchdog" \notin cmd.left
               PROVE  \A k \in Commanded : Running(k) \subseteq told
    OBVIOUS
  <2>1. Elements(cmd.rest) = {}
    BY DEF Elements
  <2> QED
    BY <2>1 DEF DownAhead
<1> QED
  BY <1>1, <1>2, <1>3, PTL DEF Spec, DownReachesAll

-----------------------------------------------------------------------------
(* Types.  That an old launch is forgotten as a whole, and nothing else,     *)
(* needs the launches to be kept in their order.                             *)

TableIn == /\ kind \in [Pids -> Kinds \cup {"none", "stranger"}]
           /\ st \in [Pids -> States]
           /\ told \subseteq Pids /\ stuck \subseteq Pids
FilesIn == /\ lock \in [Locking -> Pids \cup {NoPid}]
           /\ pidFile \in Pids \cup {NoPid}
           /\ beat \in [Beating -> 0 .. Stale + 1]
PassesIn == /\ snap \in [Pids -> [Managed -> SUBSET Pids]]
            /\ todo \in [Pids -> Seq(Managed)]
CmdIn == cmd \in [op : {"none", "up", "down"}, rest : Seq(Kinds), seen : SUBSET Kinds,
                  round : 0..3, left : SUBSET Kinds]
BoundsIn == /\ forgot \in BOOLEAN
            /\ crashes \in 0..MaxCrashes /\ strangers \in 0..MaxStrangers
            /\ byHand \in 0..MaxByHand

\* The launches of a service, the oldest first.
Falls(ages) == \A i, j \in 1..Len(ages) : i <= j => ages[i] >= ages[j]
Logs == {f \in [Managed -> Seq(Ages)] : \A s \in Managed : Falls(f[s])}
Record(m) == m \in StateFile /\ m.starts \in Logs
RecordsIn == /\ Record(disk) /\ launched \in Logs
             /\ mem \in [Pids -> StateFile] /\ \A p \in Pids : mem[p].starts \in Logs

TInv == TableIn /\ FilesIn /\ PassesIn /\ CmdIn /\ RecordsIn /\ BoundsIn

LEMMA SpawnedPids == Spawned \subseteq Pids \cup {NoPid}
<1> DEFINE free == {p \in Pids : Free(p)}
           fresh == free \ {pidFile}
<1>1. CASE fresh = {}
  BY <1>1 DEF Spawned
<1>2. CASE fresh # {}
  <2>1. (CHOOSE p \in fresh : TRUE) \in fresh
    BY <1>2
  <2> QED
    BY <1>2, <2>1 DEF Spawned
<1> QED
  BY <1>1, <1>2

LEMMA ChangesTable ==
  ASSUME TableIn, NEW gone, NEW warned \in SUBSET Pids, NEW new, NEW k \in Kinds \cup {"none"},
         TableChanges(gone, warned, new, k)
  PROVE  TableIn'
  BY DEF TableIn, TableChanges, States

LEMMA EndsTable == ASSUME TableIn, NEW p \in Pids, Ends(p) PROVE TableIn'
  BY ChangesTable DEF Ends

LEMMA GoesTable ==
  ASSUME TableIn, NEW p \in Pids, NEW s \in States, Goto(p, s)
  PROVE  TableIn'
  BY DEF TableIn, Goto

LEMMA StepTable == TInv /\ [Next]_vars => TableIn'
<1> SUFFICES ASSUME TInv, [Next]_vars PROVE TableIn'
  OBVIOUS
<1> USE DEF TInv
<1>1. /\ "loop" \in States /\ "claiming" \in States /\ "grace" \in States
      /\ "checking" \in States /\ "leaving" \in States
  BY DEF States
<1>2. CASE UNCHANGED table
  BY <1>2 DEF table, TableIn
<1>3. ASSUME NEW p \in Pids, ServiceStep(p) \/ Beat(p) PROVE TableIn'
  BY <1>1, <1>2, <1>3, EndsTable, GoesTable
     DEF ServiceStep, Begin, WriteLock, LeaveLoop, Exit, Beat
<1>4. ASSUME NEW p \in Pids, GetStuck(p) PROVE TableIn'
  BY <1>4 DEF GetStuck, TableIn
<1>5. ASSUME NEW w \in Pids, WatchdogStep(w) PROVE TableIn'
  <2>1. CASE SeeOthers(w) \/ ClaimPidFile(w) \/ BeginLoop(w) \/ Snapshot(w) \/ Save(w)
             \/ ExitWatchdog(w)
    BY <1>1, <2>1, EndsTable, GoesTable
       DEF SeeOthers, ClaimPidFile, BeginLoop, Snapshot, Save, ExitWatchdog
  <2>2. CASE CheckWaits(w)
    BY <1>2, <2>2 DEF CheckWaits
  <2>3. CASE CheckHealthy(w)
    BY <2>3, ChangesTable DEF CheckHealthy
  <2>4. CASE CheckRestart(w)
    <3>1. At(w) \in Kinds
      BY <2>4, AllKinds DEF CheckRestart, Checking, At, PassesIn
    <3>2. PICK new \in Spawned, gone \in SUBSET Pids, spared \in SUBSET Pids :
            TableChanges(gone, spared, new, At(w))
      BY <2>4 DEF CheckRestart, Survivors, Running
    <3> QED
      BY <3>1, <3>2, ChangesTable
  <2> QED
    BY <1>5, <2>1, <2>2, <2>3, <2>4 DEF WatchdogStep
<1>6. CASE UpStarts
  <2>1. Head(cmd.rest) \in Kinds
    BY <1>6 DEF UpStarts, CmdIn
  <2>2. CASE Head(cmd.rest) \in cmd.seen
    BY <1>2, <1>6, <2>2 DEF UpStarts
  <2>3. CASE Head(cmd.rest) \notin cmd.seen
    BY <1>6, <2>1, <2>3, ChangesTable DEF UpStarts
  <2> QED
    BY <2>2, <2>3
<1>7. CASE DownSignals
  <2>1. Survivors(Running(Head(cmd.rest))) \in SUBSET Pids
    BY DEF Survivors, Running
  <2> QED
    BY <1>7, <2>1, ChangesTable DEF DownSignals
<1>8. ASSUME NEW k \in {"watchdog", "openclaw_tailer"} \cap Kinds, StartByHand(k) PROVE TableIn'
  BY <1>8, ChangesTable DEF StartByHand
<1>9. ASSUME NEW p \in Pids, Crash(p) \/ TakePid(p) \/ LeavePid(p) PROVE TableIn'
  <2>1. CASE Crash(p)
    BY <2>1, EndsTable DEF Crash
  <2>2. CASE TakePid(p) \/ LeavePid(p)
    BY <2>2 DEF TakePid, LeavePid, TableIn
  <2> QED
    BY <1>9, <2>1, <2>2
<1>10. CASE UpBegins \/ DownBegins \/ DownMovesOn \/ CommandEnds \/ Tick \/ UNCHANGED vars
  BY <1>2, <1>10 DEF UpBegins, DownBegins, DownMovesOn, CommandEnds, Tick, vars
<1> QED
  BY <1>3, <1>4, <1>5, <1>6, <1>7, <1>8, <1>9, <1>10 DEF Next, CommandStep

LEMMA StepFiles == TInv /\ [Next]_vars => FilesIn'
<1> SUFFICES ASSUME TInv, [Next]_vars PROVE FilesIn'
  OBVIOUS
<1>1. FilesIn /\ Stale \in Nat
  BY SupervisorAssumption DEF TInv, SupervisorAssumption
<1>2. CASE UNCHANGED <<lock, pidFile, beat>>
  BY <1>1, <1>2 DEF FilesIn
<1>3. ASSUME NEW p \in Pids, WriteLock(p) \/ Exit(p) PROVE FilesIn'
  BY <1>1, <1>3 DEF WriteLock, Exit, FilesIn
<1>4. ASSUME NEW p \in Pids, LeaveLoop(p) \/ Beat(p) PROVE FilesIn'
  BY <1>1, <1>4 DEF LeaveLoop, Beat, FilesIn
<1>5. ASSUME NEW p \in Pids, Begin(p) \/ GetStuck(p) PROVE FilesIn'
  BY <1>2, <1>5 DEF Begin, GetStuck, onDisk
<1>6. ASSUME NEW w \in Pids, WatchdogStep(w) PROVE FilesIn'
  <2>1. UNCHANGED <<lock, beat>> /\ (UNCHANGED pidFile \/ pidFile' \in {w, NoPid})
    BY <1>6 DEF WatchdogStep, SeeOthers, ClaimPidFile, BeginLoop, Snapshot, CheckHealthy,
                CheckWaits, CheckRestart, Save, ExitWatchdog, onDisk
  <2> QED
    BY <1>1, <2>1 DEF FilesIn
<1>7. CASE UpStarts
  <2>1. UNCHANGED <<lock, beat>> /\ (UNCHANGED pidFile \/ pidFile' \in Spawned)
    BY <1>7 DEF UpStarts
  <2> QED
    BY <1>1, <2>1, SpawnedPids DEF FilesIn
<1>8. CASE DownMovesOn
  BY <1>1, <1>8 DEF DownMovesOn, FilesIn
<1>9. CASE Tick
  BY <1>1, <1>9 DEF Tick, FilesIn
<1>10. ASSUME NEW p \in Pids, Crash(p) \/ TakePid(p) \/ LeavePid(p) PROVE FilesIn'
  BY <1>2, <1>10 DEF Crash, TakePid, LeavePid, onDisk
<1>11. ASSUME NEW k, StartByHand(k) PROVE FilesIn'
  BY <1>2, <1>11 DEF StartByHand, onDisk
<1>12. CASE UpBegins \/ DownBegins \/ DownSignals \/ CommandEnds \/ UNCHANGED vars
  BY <1>2, <1>12 DEF UpBegins, DownBegins, DownSignals, CommandEnds, vars, onDisk
<1> QED
  BY <1>3, <1>4, <1>5, <1>6, <1>7, <1>8, <1>9, <1>10, <1>11, <1>12
     DEF Next, ServiceStep, CommandStep

LEMMA StepPasses == TInv /\ [Next]_vars => PassesIn'
<1> SUFFICES ASSUME TInv, [Next]_vars PROVE PassesIn'
  OBVIOUS
<1>1. PassesIn
  BY DEF TInv
<1>2. CASE UNCHANGED <<snap, todo>>
  BY <1>1, <1>2 DEF PassesIn
<1>3. ASSUME NEW gone, Forgotten(gone) PROVE PassesIn'
  <2>1. <<>> \in Seq(Managed) /\ [s \in Managed |-> {}] \in [Managed -> SUBSET Pids]
    OBVIOUS
  <2> QED
    BY <1>1, <1>3, <2>1 DEF Forgotten, PassesIn
<1>4. ASSUME NEW p \in Pids, ServiceStep(p) \/ Beat(p) \/ GetStuck(p) PROVE PassesIn'
  BY <1>2, <1>3, <1>4
     DEF ServiceStep, Begin, WriteLock, LeaveLoop, Exit, Beat, GetStuck, Ends, memory
<1>5. ASSUME NEW w \in Pids, WatchdogStep(w) PROVE PassesIn'
  <2>1. CASE SeeOthers(w) \/ ClaimPidFile(w) \/ BeginLoop(w) \/ ExitWatchdog(w)
    BY <1>2, <1>3, <2>1 DEF SeeOthers, ClaimPidFile, BeginLoop, ExitWatchdog, Ends, memory
  <2>2. CASE Snapshot(w)
    <3>1. [s \in Managed |-> Running(s)] \in [Managed -> SUBSET Pids]
      BY DEF Running
    <3> QED
      BY <1>1, <2>2, <3>1, Orders DEF Snapshot, PassesIn
  <2>3. CASE CheckHealthy(w) \/ CheckWaits(w) \/ CheckRestart(w)
    <3>1. todo[w] # <<>> /\ todo' = [todo EXCEPT ![w] = Tail(@)] /\ UNCHANGED snap
      BY <2>3 DEF CheckHealthy, CheckWaits, CheckRestart, Checking, Passed
    <3>2. Tail(todo[w]) \in Seq(Managed)
      BY <1>1, <3>1 DEF PassesIn
    <3> QED
      BY <1>1, <3>1, <3>2 DEF PassesIn
  <2>4. CASE Save(w)
    BY <1>1, <2>4 DEF Save, PassesIn
  <2> QED
    BY <1>5, <2>1, <2>2, <2>3, <2>4 DEF WatchdogStep
<1>6. ASSUME NEW p \in Pids, Crash(p) \/ TakePid(p) \/ LeavePid(p) PROVE PassesIn'
  BY <1>2, <1>3, <1>6 DEF Crash, TakePid, LeavePid, Ends, memory
<1>7. CASE UpBegins \/ DownBegins \/ CommandStep
  BY <1>2, <1>3, <1>7
     DEF UpBegins, DownBegins, CommandStep, UpStarts, DownSignals, DownMovesOn, CommandEnds, memory
<1>8. ASSUME NEW k, StartByHand(k) PROVE PassesIn'
  BY <1>2, <1>8 DEF StartByHand, memory
<1>9. CASE Tick \/ UNCHANGED vars
  BY <1>2, <1>9 DEF Tick, vars, memory
<1> QED
  BY <1>4, <1>5, <1>6, <1>7, <1>8, <1>9 DEF Next

LEMMA StepCmd == TInv /\ [Next]_vars => CmdIn'
<1> SUFFICES ASSUME TInv, [Next]_vars PROVE CmdIn'
  OBVIOUS
<1>1. /\ cmd.rest \in Seq(Kinds) /\ cmd.seen \in SUBSET Kinds /\ cmd.round \in 0..3
      /\ cmd.left \in SUBSET Kinds /\ cmd.op \in {"none", "up", "down"}
      /\ cmd = [op |-> cmd.op, rest |-> cmd.rest, seen |-> cmd.seen, round |-> cmd.round,
                left |-> cmd.left]
  BY DEF TInv, CmdIn
<1>2. ASSUME NEW op \in {"none", "up", "down"}, NEW rest \in Seq(Kinds), NEW seen \in SUBSET Kinds,
             NEW round \in 0..3, NEW left \in SUBSET Kinds,
             cmd' = [op |-> op, rest |-> rest, seen |-> seen, round |-> round, left |-> left]
      PROVE  CmdIn'
  BY <1>2 DEF CmdIn
<1>3. CASE UNCHANGED cmd
  BY <1>3 DEF TInv, CmdIn
<1> DEFINE up == {k \in Kinds : Running(k) # {}}
<1>parts. /\ "up" \in {"none", "up", "down"} /\ "down" \in {"none", "up", "down"}
       /\ "none" \in {"none", "up", "down"} /\ <<>> \in Seq(Kinds) /\ {} \in SUBSET Kinds
       /\ 0 \in 0..3 /\ up \in SUBSET Kinds
  OBVIOUS
<1>4. CASE UpBegins
  <2>1. cmd' = [op |-> "up", rest |-> UpOrder, seen |-> up, round |-> 0,
                left |-> {}]
    BY <1>4 DEF UpBegins, Idle
  <2> HIDE DEF up
  <2> QED
    BY <1>2, <1>parts, <2>1, Orders
<1>5. CASE DownBegins
  <2>1. cmd' = [op |-> "down", rest |-> DownOrder, seen |-> {}, round |-> 0, left |-> {}]
    BY <1>5 DEF DownBegins, Idle
  <2> QED
    BY <1>2, <1>parts, <2>1, Orders
<1>6. CASE CommandEnds
  <2>1. cmd' = [op |-> "none", rest |-> <<>>, seen |-> {}, round |-> 0, left |-> {}]
    BY <1>6 DEF CommandEnds, Idle
  <2> QED
    BY <1>2, <1>parts, <2>1
<1>7. CASE UpStarts
  <2>1. cmd.rest # <<>> /\ Tail(cmd.rest) \in Seq(Kinds)
    BY <1>1, <1>7 DEF UpStarts
  <2>2. cmd' = [op |-> cmd.op, rest |-> Tail(cmd.rest), seen |-> cmd.seen \ {Head(cmd.rest)},
                round |-> cmd.round, left |-> cmd.left]
    BY <1>1, <1>7 DEF UpStarts
  <2> QED
    BY <1>1, <1>2, <2>1, <2>2
<1>8. CASE DownSignals
  <2>1. cmd.round + 1 \in 0..3
    BY <1>1, <1>8 DEF DownSignals, AnotherRound
  <2>2. cmd' = [op |-> cmd.op, rest |-> cmd.rest, seen |-> cmd.seen, round |-> cmd.round + 1,
                left |-> cmd.left]
    BY <1>1, <1>8 DEF DownSignals
  <2> QED
    BY <1>1, <1>2, <2>1, <2>2
<1>9. CASE DownMovesOn
  <2> DEFINE left == IF Running(Head(cmd.rest)) = {} THEN cmd.left
                     ELSE cmd.left \cup {Head(cmd.rest)}
  <2>1. cmd.rest # <<>> /\ Tail(cmd.rest) \in Seq(Kinds) /\ Head(cmd.rest) \in Kinds
    BY <1>1, <1>9 DEF DownMovesOn
  <2>2. cmd' = [op |-> cmd.op, rest |-> Tail(cmd.rest), seen |-> cmd.seen, round |-> 0,
                left |-> left]
    BY <1>1, <1>9 DEF DownMovesOn
  <2>3. left \in SUBSET Kinds /\ 0 \in 0..3
    BY <1>1, <2>1
  <2> HIDE DEF left
  <2> QED
    BY <1>1, <1>2, <2>1, <2>2, <2>3
<1>10. ASSUME NEW p \in Pids, ServiceStep(p) \/ Beat(p) \/ GetStuck(p) PROVE UNCHANGED cmd
  BY <1>10 DEF ServiceStep, Begin, WriteLock, LeaveLoop, Exit, Beat, GetStuck
<1>11. ASSUME NEW w \in Pids, WatchdogStep(w) PROVE UNCHANGED cmd
  BY <1>11 DEF WatchdogStep, SeeOthers, ClaimPidFile, BeginLoop, Snapshot, CheckHealthy,
              CheckWaits, CheckRestart, Save, ExitWatchdog
<1>12. ASSUME NEW p \in Pids, Crash(p) \/ TakePid(p) \/ LeavePid(p) PROVE UNCHANGED cmd
  BY <1>12 DEF Crash, TakePid, LeavePid
<1>13. CASE Tick \/ UNCHANGED vars \/ \E k : StartByHand(k)
  BY <1>3, <1>13 DEF Tick, vars, StartByHand
<1> QED
  BY <1>3, <1>4, <1>5, <1>6, <1>7, <1>8, <1>9, <1>10, <1>11, <1>12, <1>13 DEF Next, CommandStep

LEMMA StepBounds == TInv /\ [Next]_vars => BoundsIn'
<1> SUFFICES ASSUME TInv, [Next]_vars PROVE BoundsIn'
  OBVIOUS
<1>1. BoundsIn /\ MaxCrashes \in Nat /\ MaxStrangers \in Nat /\ MaxByHand \in Nat
  BY SupervisorAssumption DEF TInv, SupervisorAssumption
<1>2. CASE UNCHANGED <<forgot, crashes, strangers, byHand>>
  BY <1>1, <1>2 DEF BoundsIn
<1>3. ASSUME NEW p \in Pids, ServiceStep(p) \/ Beat(p) \/ GetStuck(p) PROVE BoundsIn'
  BY <1>2, <1>3 DEF ServiceStep, Begin, WriteLock, LeaveLoop, Exit, Beat, GetStuck, history
<1>4. ASSUME NEW w \in Pids, WatchdogStep(w) PROVE BoundsIn'
  BY <1>2, <1>4 DEF WatchdogStep, SeeOthers, ClaimPidFile, BeginLoop, Snapshot, CheckHealthy,
                    CheckWaits, CheckRestart, Save, ExitWatchdog, history
<1>5. ASSUME NEW p \in Pids, Crash(p) \/ TakePid(p) \/ LeavePid(p) PROVE BoundsIn'
  <2>1. CASE Crash(p)
    <3>1. forgot' \in BOOLEAN
      BY <2>1 DEF Crash
    <3>2. crashes' \in 0..MaxCrashes /\ UNCHANGED <<strangers, byHand>>
      BY <1>1, <2>1 DEF Crash, BoundsIn
    <3> QED
      BY <1>1, <3>1, <3>2 DEF BoundsIn
  <2>2. CASE TakePid(p)
    BY <1>1, <2>2 DEF TakePid, BoundsIn
  <2>3. CASE LeavePid(p)
    BY <1>2, <2>3 DEF LeavePid, history
  <2> QED
    BY <1>5, <2>1, <2>2, <2>3
<1>6. CASE UpBegins \/ DownBegins \/ CommandStep
  BY <1>2, <1>6
     DEF UpBegins, DownBegins, CommandStep, UpStarts, DownSignals, DownMovesOn, CommandEnds, history
<1>7. ASSUME NEW k, StartByHand(k) PROVE BoundsIn'
  BY <1>1, <1>7 DEF StartByHand, BoundsIn
<1>8. CASE Tick \/ UNCHANGED vars
  BY <1>2, <1>8 DEF Tick, vars, history
<1> QED
  BY <1>3, <1>4, <1>5, <1>6, <1>7, <1>8 DEF Next

\* The launches that are older than an hour are the first ones.
LEMMA OlderTyped ==
  ASSUME NEW ages \in Seq(Ages), Falls(ages)
  PROVE  Older(ages) \in Seq(Ages) /\ Falls(Older(ages))
<1> DEFINE Gone == {i \in 1..Len(ages) : ages[i] + 1 >= Hour}
           n == Len(ages)
<1>1. PICK gone : gone = Cardinality(Gone)
  OBVIOUS
<1>2. Hour \in Nat /\ n \in Nat /\ \A i \in 1..n : ages[i] \in 0 .. Hour - 1
  BY SupervisorAssumption DEF SupervisorAssumption, Ages
<1>3. \A k \in Nat : IsFiniteSet(1..k) /\ Cardinality(1..k) = k
  <2> SUFFICES ASSUME NEW k \in Nat PROVE IsFiniteSet(1..k) /\ Cardinality(1..k) = k
    OBVIOUS
  <2>1. 1 \in Int /\ k \in Int
    OBVIOUS
  <2>2. IsFiniteSet(1..k) /\ Cardinality(1..k) = IF 1 > k THEN 0 ELSE k - 1 + 1
    BY <2>1, FS_Interval
  <2> QED
    BY <2>2
<1>4. IsFiniteSet(Gone) /\ gone \in 0..n
  <2>1. IsFiniteSet(1..n) /\ Cardinality(1..n) = n /\ Gone \subseteq 1..n
    BY <1>2, <1>3
  <2>2. IsFiniteSet(Gone) /\ Cardinality(Gone) <= n
    BY <2>1, FS_Subset
  <2>3. Cardinality(Gone) \in Nat
    BY <2>2, FS_CardinalityType
  <2> QED
    BY <1>1, <1>2, <2>2, <2>3
<1>5. \A i \in 1 .. n - gone : gone + i \in 1..n /\ ages[gone + i] + 1 < Hour
  <2> SUFFICES ASSUME NEW i \in 1 .. n - gone
               PROVE  gone + i \in 1..n /\ ages[gone + i] + 1 < Hour
    OBVIOUS
  <2>1. gone + i \in 1..n /\ gone + i \in Nat /\ gone + i > gone /\ ages[gone + i] \in Nat
    BY <1>2, <1>4
  <2> SUFFICES ASSUME ~(ages[gone + i] + 1 < Hour) PROVE FALSE
    BY <2>1
  <2>2. 1 .. gone + i \subseteq Gone
    <3> SUFFICES ASSUME NEW j \in 1 .. gone + i PROVE j \in Gone
      OBVIOUS
    <3>1. j \in 1..n /\ j <= gone + i
      BY <1>2, <2>1
    <3>2. ages[j] >= ages[gone + i]
      BY <2>1, <3>1 DEF Falls
    <3> QED
      BY <1>2, <2>1, <3>1, <3>2
  <2>3. Cardinality(1 .. gone + i) <= Cardinality(Gone)
    BY <1>4, <2>2, FS_Subset
  <2>4. gone + i <= gone
    BY <1>1, <1>3, <2>1, <2>3
  <2> QED
    BY <1>2, <1>4, <2>1, <2>4
<1>6. Older(ages) = [i \in 1 .. n - gone |-> ages[gone + i] + 1]
  BY <1>1 DEF Older
<1> HIDE DEF Gone
<1>7. n - gone \in Nat /\ \A i \in 1 .. n - gone : ages[gone + i] + 1 \in Ages
  <2>1. n - gone \in Nat
    BY <1>2, <1>4
  <2>2. ASSUME NEW i \in 1 .. n - gone PROVE ages[gone + i] + 1 \in Ages
    <3>1. ages[gone + i] \in 0 .. Hour - 1 /\ ages[gone + i] + 1 < Hour
      BY <1>2, <1>5
    <3> QED
      BY <1>2, <3>1 DEF Ages
  <2> QED
    BY <2>1, <2>2
<1>8. Older(ages) \in Seq(Ages) /\ Len(Older(ages)) = n - gone
  BY <1>6, <1>7
<1>9. Falls(Older(ages))
  <2> SUFFICES ASSUME NEW i \in 1 .. n - gone, NEW j \in 1 .. n - gone, i <= j
               PROVE  ages[gone + i] + 1 >= ages[gone + j] + 1
    BY <1>6, <1>8 DEF Falls
  <2>1. gone + i \in 1..n /\ gone + j \in 1..n /\ gone + i <= gone + j
    BY <1>4, <1>5
  <2>2. ages[gone + i] >= ages[gone + j]
    BY <2>1 DEF Falls
  <2> QED
    BY <1>2, <2>1, <2>2
<1> QED
  BY <1>8, <1>9

LEMMA LaunchLast ==
  ASSUME NEW ages \in Seq(Ages), Falls(ages)
  PROVE  Append(ages, 0) \in Seq(Ages) /\ Falls(Append(ages, 0))
<1> DEFINE n == Len(ages)
           more == Append(ages, 0)
<1>1. n \in Nat /\ 0 \in Ages /\ \A i \in 1..n : ages[i] \in Nat
  BY SupervisorAssumption DEF SupervisorAssumption, Ages
<1>2. /\ more \in Seq(Ages) /\ Len(more) = n + 1 /\ more[n + 1] = 0
      /\ \A i \in 1..n : more[i] = ages[i]
  BY <1>1
<1> HIDE DEF more
<1>3. ASSUME NEW i \in 1..Len(more), NEW j \in 1..Len(more), i <= j PROVE more[i] >= more[j]
  <2>1. CASE j = n + 1
    <3>1. i = n + 1 \/ i \in 1..n
      BY <1>1, <1>2
    <3> QED
      BY <1>1, <1>2, <2>1, <3>1
  <2>2. CASE j # n + 1
    <3>1. i \in 1..n /\ j \in 1..n
      BY <1>1, <1>2, <1>3, <2>2
    <3> QED
      BY <1>2, <1>3, <3>1 DEF Falls
  <2> QED
    BY <2>1, <2>2
<1>4. Falls(more)
  BY <1>3 DEF Falls
<1> QED
  BY <1>2, <1>4 DEF more

LEMMA OlderLogs ==
  ASSUME NEW f \in Logs
  PROVE  [s \in Managed |-> Older(f[s])] \in Logs
  BY OlderTyped DEF Logs

LEMMA LaunchLogs ==
  ASSUME NEW f \in Logs, NEW s \in Managed
  PROVE  [f EXCEPT ![s] = Append(f[s], 0)] \in Logs
  BY LaunchLast DEF Logs

\* A record of the state file is its three parts.
LEMMA Parts ==
  /\ \A m : Record(m) => /\ m.fails \in [Managed -> 0..Threshold] /\ m.starts \in Logs
                         /\ m.cool \in [Managed -> 0..Hour]
                         /\ Whole(m)
  /\ \A f \in [Managed -> 0..Threshold], l \in Logs, c \in [Managed -> 0..Hour] :
       Record([fails |-> f, starts |-> l, cool |-> c])
  BY DEF Record, StateFile, Logs, Whole

LEMMA BlankRecord == Record(Blank) /\ [s \in Managed |-> <<>>] \in Logs
<1> DEFINE f == [s \in Managed |-> 0]
           l == [s \in Managed |-> <<>>]
<1>1. f \in [Managed -> 0..Threshold] /\ f \in [Managed -> 0..Hour]
  BY SupervisorAssumption DEF SupervisorAssumption
<1>2. l \in Logs
  <2>1. <<>> \in Seq(Ages) /\ Falls(<<>>)
    BY DEF Falls
  <2> QED
    BY <2>1 DEF Logs
<1>3. Blank = [fails |-> f, starts |-> l, cool |-> f]
  BY DEF Blank
<1> HIDE DEF f
<1> QED
  BY <1>1, <1>2, <1>3, Parts

\* What each EXCEPT does to a record of three parts.
LEMMA ChangedPart ==
  ASSUME NEW f, NEW l, NEW c, NEW m, m = [fails |-> f, starts |-> l, cool |-> c], NEW s, NEW x
  PROVE  /\ [m EXCEPT !.fails[s] = x] = [fails |-> [f EXCEPT ![s] = x], starts |-> l, cool |-> c]
         /\ [m EXCEPT !.starts[s] = x] = [fails |-> f, starts |-> [l EXCEPT ![s] = x], cool |-> c]
         /\ [m EXCEPT !.cool[s] = x] = [fails |-> f, starts |-> l, cool |-> [c EXCEPT ![s] = x]]
         /\ [m EXCEPT !.starts = x] = [fails |-> f, starts |-> x, cool |-> c]
         /\ [m EXCEPT !.cool = x] = [fails |-> f, starts |-> l, cool |-> x]
<1>1. [m EXCEPT !.fails[s] = x] = [fails |-> [f EXCEPT ![s] = x], starts |-> l, cool |-> c]
  OBVIOUS
<1>2. [m EXCEPT !.starts[s] = x] = [fails |-> f, starts |-> [l EXCEPT ![s] = x], cool |-> c]
  OBVIOUS
<1>3. [m EXCEPT !.cool[s] = x] = [fails |-> f, starts |-> l, cool |-> [c EXCEPT ![s] = x]]
  OBVIOUS
<1>4. [m EXCEPT !.starts = x] = [fails |-> f, starts |-> x, cool |-> c]
  OBVIOUS
<1>5. [m EXCEPT !.cool = x] = [fails |-> f, starts |-> l, cool |-> x]
  OBVIOUS
<1> QED
  BY <1>1, <1>2, <1>3, <1>4, <1>5

LEMMA AgedRecord ==
  ASSUME NEW m, Record(m)
  PROVE  Record(Aged(m))
<1> DEFINE l == [s \in Managed |-> Older(m.starts[s])]
           c == [s \in Managed |-> IF m.cool[s] > 0 THEN m.cool[s] - 1 ELSE 0]
<1>1. /\ m.fails \in [Managed -> 0..Threshold] /\ m.starts \in Logs
      /\ m.cool \in [Managed -> 0..Hour]
      /\ Whole(m)
  BY Parts
<1>2. l \in Logs
  BY <1>1, OlderLogs
<1>3. c \in [Managed -> 0..Hour]
  BY <1>1, SupervisorAssumption DEF SupervisorAssumption
<1>4. Aged(m) = [fails |-> m.fails, starts |-> l, cool |-> c]
  <2>1. PICK old : old = [m EXCEPT !.starts = l]
    OBVIOUS
  <2>2. m.cool = old.cool /\ old = [fails |-> m.fails, starts |-> l, cool |-> m.cool]
    BY <1>1, <2>1, ChangedPart DEF Whole
  <2>3. Aged(m) = [old EXCEPT !.cool = c]
    BY <2>1, <2>2 DEF Aged
  <2> HIDE DEF l, c
  <2> QED
    BY <2>2, <2>3, ChangedPart
<1> HIDE DEF l, c
<1> QED
  BY <1>1, <1>2, <1>3, <1>4, Parts

LEMMA FailsRecord ==
  ASSUME NEW m, Record(m), NEW s \in Managed, NEW n \in 0..Threshold
  PROVE  Record([m EXCEPT !.fails[s] = n])
<1> DEFINE f == [m.fails EXCEPT ![s] = n]
<1>1. /\ m.fails \in [Managed -> 0..Threshold] /\ m.starts \in Logs
      /\ m.cool \in [Managed -> 0..Hour]
      /\ Whole(m)
  BY Parts
<1>2. f \in [Managed -> 0..Threshold]
  BY <1>1
<1>3. [m EXCEPT !.fails[s] = n] = [fails |-> f, starts |-> m.starts, cool |-> m.cool]
  BY <1>1 DEF Whole
<1> HIDE DEF f
<1> QED
  BY <1>1, <1>2, <1>3, Parts

LEMMA RecordedRecord ==
  ASSUME NEW m, Record(m), NEW s \in Managed
  PROVE  Record(Recorded(m, s))
<1> DEFINE starts == Append(m.starts[s], 0)
<1>1. PICK f, l, c : /\ f = m.fails /\ l = m.starts /\ c = m.cool
                     /\ f \in [Managed -> 0..Threshold] /\ l \in Logs
                     /\ c \in [Managed -> 0..Hour]
                     /\ m = [fails |-> f, starts |-> l, cool |-> c]
  BY Parts DEF Whole
<1>2. PICK f1, l1 : f1 = [f EXCEPT ![s] = 0] /\ l1 = [l EXCEPT ![s] = starts]
  OBVIOUS
<1>3. PICK x : x = IF Len(starts) >= MaxRestarts THEN Hour ELSE c[s]
  OBVIOUS
<1>4. PICK c1 : c1 = [c EXCEPT ![s] = x]
  OBVIOUS
<1>5. l1 \in Logs
  BY <1>1, <1>2, LaunchLogs
<1>6. f1 \in [Managed -> 0..Threshold] /\ c1 \in [Managed -> 0..Hour]
  <2>1. x \in 0..Hour /\ 0 \in 0..Threshold
    BY <1>1, <1>3, SupervisorAssumption DEF SupervisorAssumption
  <2> QED
    BY <1>1, <1>2, <1>4, <2>1
<1>7. PICK m1 : m1 = [m EXCEPT !.starts[s] = starts]
  OBVIOUS
<1>8. PICK m2 : m2 = [m1 EXCEPT !.fails[s] = 0]
  OBVIOUS
<1>9. m1 = [fails |-> f, starts |-> l1, cool |-> c]
  BY <1>1, <1>2, <1>7, ChangedPart
<1>10. m2 = [fails |-> f1, starts |-> l1, cool |-> c]
  BY <1>2, <1>8, <1>9, ChangedPart
<1>11. Recorded(m, s) = [m2 EXCEPT !.cool[s] = x]
  <2>1. m2.cool = c
    BY <1>10
  <2> QED
    BY <1>3, <1>7, <1>8, <2>1 DEF Recorded
<1>12. Recorded(m, s) = [fails |-> f1, starts |-> l1, cool |-> c1]
  BY <1>4, <1>10, <1>11, ChangedPart
<1> QED
  BY <1>5, <1>6, <1>12, Parts

LEMMA StepRecords == TInv /\ [Next]_vars => RecordsIn'
<1> SUFFICES ASSUME TInv, [Next]_vars PROVE RecordsIn'
  OBVIOUS
<1>1. /\ Record(disk) /\ launched \in Logs /\ \A p \in Pids : Record(mem[p])
      /\ mem \in [Pids -> StateFile]
  BY DEF TInv, RecordsIn, Record
<1>2. ASSUME Record(disk'), launched' \in Logs, DOMAIN mem' = Pids, mem' = [p \in Pids |-> mem'[p]],
             \A p \in Pids : Record(mem'[p])
      PROVE  RecordsIn'
  BY <1>2 DEF RecordsIn, Record
<1>3. ASSUME NEW w \in Pids, NEW m, Record(m), mem' = [mem EXCEPT ![w] = m], UNCHANGED disk,
             launched' \in Logs
      PROVE  RecordsIn'
  BY <1>1, <1>2, <1>3
<1>4. CASE UNCHANGED <<disk, launched, mem>>
  BY <1>4 DEF TInv, RecordsIn, Record
<1>5. ASSUME NEW gone, Forgotten(gone), UNCHANGED <<disk, launched>> PROVE RecordsIn'
  BY <1>1, <1>2, <1>5, BlankRecord DEF Forgotten
<1>6. ASSUME NEW p \in Pids, ServiceStep(p) \/ Beat(p) \/ GetStuck(p) PROVE RecordsIn'
  BY <1>4, <1>5, <1>6 DEF ServiceStep, Begin, WriteLock, LeaveLoop, Exit, Beat, GetStuck, Ends,
                          memory, onDisk, history
<1>7. ASSUME NEW w \in Pids, WatchdogStep(w) PROVE RecordsIn'
  <2>1. CASE SeeOthers(w) \/ ClaimPidFile(w) \/ Snapshot(w) \/ ExitWatchdog(w)
    BY <1>4, <1>5, <2>1
       DEF SeeOthers, ClaimPidFile, Snapshot, ExitWatchdog, Ends, memory, onDisk, history
  <2>2. CASE BeginLoop(w)
    BY <1>1, <1>3, <2>2 DEF BeginLoop, onDisk, history
  <2>3. CASE Save(w)
    <3>1. disk' = mem[w] /\ UNCHANGED <<mem, launched>>
      BY <2>3 DEF Save, Saved, history
    <3> QED
      BY <1>1, <3>1 DEF TInv, RecordsIn
  <2>4. CASE CheckHealthy(w) \/ CheckWaits(w) \/ CheckRestart(w)
    <3> DEFINE s == At(w)
               m == mem[w]
    <3>1. s \in Managed /\ Record(m)
      <4>1. todo[w] # <<>> /\ todo[w] \in Seq(Managed)
        BY <2>4 DEF CheckHealthy, CheckWaits, CheckRestart, Checking, TInv, PassesIn
      <4> QED
        BY <1>1, <4>1 DEF At
    <3>2. 0 \in 0..Threshold /\ Bumped(w, s) \in 0..Threshold
      <4>1. m.fails[s] \in 0..Threshold
        BY <3>1, Parts
      <4> QED
        BY <4>1, SupervisorAssumption DEF Bumped, SupervisorAssumption
    <3>3. CASE CheckHealthy(w)
      <4>1. PICK new : new = [m EXCEPT !.fails[s] = 0]
        OBVIOUS
      <4>2. Record(new)
        BY <3>1, <3>2, <4>1, FailsRecord
      <4>3. mem' = [mem EXCEPT ![w] = new] /\ UNCHANGED <<disk, launched>>
        BY <3>3, <4>1 DEF CheckHealthy, onDisk, history
      <4> QED
        BY <1>1, <1>3, <4>2, <4>3
    <3>4. CASE CheckWaits(w)
      <4>1. PICK new : new = [m EXCEPT !.fails[s] = Bumped(w, s)]
        OBVIOUS
      <4>2. Record(new)
        BY <3>1, <3>2, <4>1, FailsRecord
      <4>3. mem' = [mem EXCEPT ![w] = new] /\ UNCHANGED <<disk, launched>>
        BY <3>4, <4>1 DEF CheckWaits, onDisk, history
      <4> QED
        BY <1>1, <1>3, <4>2, <4>3
    <3>5. CASE CheckRestart(w)
      <4>1. PICK kept : kept = [m EXCEPT !.fails[s] = Bumped(w, s)]
        OBVIOUS
      <4>2. PICK made : made = Recorded(m, s)
        OBVIOUS
      <4>3. PICK new \in Spawned :
              /\ mem' = [mem EXCEPT ![w] = IF new # NoPid THEN made ELSE kept]
              /\ launched' = IF new # NoPid THEN [launched EXCEPT ![s] = Append(launched[s], 0)]
                                            ELSE launched
        BY <3>5, <4>1, <4>2 DEF CheckRestart
      <4>4. Record(kept) /\ Record(made)
        BY <3>1, <3>2, <4>1, <4>2, FailsRecord, RecordedRecord
      <4>5. launched' \in Logs
        BY <1>1, <3>1, <4>3, LaunchLogs
      <4>6. UNCHANGED disk
        BY <3>5 DEF CheckRestart, onDisk
      <4> QED
        BY <1>3, <4>3, <4>4, <4>5, <4>6
    <3> QED
      BY <2>4, <3>3, <3>4, <3>5
  <2> QED
    BY <1>7, <2>1, <2>2, <2>3, <2>4 DEF WatchdogStep
<1>8. CASE UpBegins \/ DownBegins \/ CommandStep
  BY <1>4, <1>5, <1>8
     DEF UpBegins, DownBegins, CommandStep, UpStarts, DownSignals, DownMovesOn, CommandEnds,
         memory, onDisk, history
<1>9. ASSUME NEW p \in Pids, Crash(p) \/ TakePid(p) \/ LeavePid(p) PROVE RecordsIn'
  <2>1. CASE Crash(p)
    <3>1. /\ Forgotten({p}) /\ UNCHANGED launched
          /\ UNCHANGED disk \/ disk' = Blank
      BY <2>1 DEF Crash, Ends
    <3>2. Record(disk')
      BY <1>1, <3>1, BlankRecord
    <3> QED
      BY <1>1, <1>2, <3>1, <3>2, BlankRecord DEF Forgotten
  <2>2. CASE TakePid(p) \/ LeavePid(p)
    BY <1>4, <2>2 DEF TakePid, LeavePid, memory, onDisk, history
  <2> QED
    BY <1>9, <2>1, <2>2
<1>10. (\E k : StartByHand(k)) \/ UNCHANGED vars => RecordsIn'
  BY <1>4 DEF StartByHand, vars, memory, onDisk, history
<1>11. CASE Tick
  <2>1. /\ disk' = Aged(disk) /\ mem' = [w \in Pids |-> Aged(mem[w])]
        /\ launched' = [s \in Managed |-> Older(launched[s])]
    BY <1>11 DEF Tick
  <2> QED
    BY <1>1, <1>2, <2>1, AgedRecord, OlderLogs
<1> QED
  BY <1>6, <1>7, <1>8, <1>9, <1>10, <1>11 DEF Next

LEMMA InitTInv == Init => TInv
<1> SUFFICES ASSUME Init PROVE TInv
  OBVIOUS
<1>1. TableIn
  BY DEF Init, TableIn, States
<1>2. FilesIn
  BY SupervisorAssumption DEF Init, FilesIn, SupervisorAssumption
<1>3. PassesIn
  <2>1. <<>> \in Seq(Managed) /\ [s \in Managed |-> {}] \in [Managed -> SUBSET Pids]
    OBVIOUS
  <2> QED
    BY <2>1 DEF Init, PassesIn
<1>4. CmdIn
  <2>1. <<>> \in Seq(Kinds) /\ 0 \in 0..3
    OBVIOUS
  <2> QED
    BY <2>1 DEF Init, Idle, CmdIn
<1>5. RecordsIn
  BY BlankRecord DEF Init, RecordsIn, Record
<1>6. BoundsIn
  <2>1. crashes \in 0..MaxCrashes /\ strangers \in 0..MaxStrangers /\ byHand \in 0..MaxByHand
    BY SupervisorAssumption DEF Init, SupervisorAssumption
  <2>2. forgot \in BOOLEAN
    BY DEF Init
  <2> QED
    BY <2>1, <2>2 DEF BoundsIn
<1> QED
  BY <1>1, <1>2, <1>3, <1>4, <1>5, <1>6 DEF TInv

\* Every variable keeps its type: no command sends a fourth round of SIGTERM
\* (service_control.py:678), no failure count passes the threshold, and no log
\* of restarts keeps an entry that is older than an hour
\* (spark_watchdog.py:396-402).
THEOREM TypesHold == Spec => []TypeOK
<1>1. TInv /\ [Next]_vars => TInv'
  BY StepTable, StepFiles, StepPasses, StepCmd, StepRecords, StepBounds DEF TInv
<1>2. TInv => TypeOK
  <2> SUFFICES ASSUME TInv PROVE TypeOK
    OBVIOUS
  <2>1. launched \in [Managed -> Seq(Ages)] /\ disk \in StateFile /\ mem \in [Pids -> StateFile]
    BY DEF TInv, RecordsIn, Logs, Record
  <2> QED
    BY <2>1 DEF TInv, TypeOK, TableIn, FilesIn, PassesIn, CmdIn, BoundsIn
<1> QED
  BY <1>1, <1>2, InitTInv, PTL DEF Spec
=============================================================================
