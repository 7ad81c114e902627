----------------------------- MODULE Supervisor -----------------------------
(***************************************************************************)
(* Who keeps Spark's background services running, and how many of each:    *)
(* spark_watchdog.py, the commands `spark up` and `spark down` of          *)
(* lib/service_control.py, and the start and the end of the services       *)
(* themselves (bridge_worker.py, sparkd.py, spark_scheduler.py,            *)
(* adapters/openclaw_tailer.py).                                           *)
(*                                                                         *)
(* Nothing but files and the process table connects them: a lock file that *)
(* names a pid, heartbeats, the watchdog's state file, SIGTERM.            *)
(*                                                                         *)
(* Time is counted in ticks; a heartbeat, a restart and a cooldown are     *)
(* known by their age.  A process that does not run has kind "none".  A    *)
(* pid that a lock file or a snapshot of the process table still names is  *)
(* not given to another process of Spark; a stranger may get it.           *)
(***************************************************************************)
EXTENDS Integers, Sequences, FiniteSets

CONSTANTS
  Pids,            \* process ids
  Managed,         \* the services of this installation
  Threshold,       \* --fail-threshold
  MaxRestarts,     \* MAX_RESTARTS_PER_HOUR
  Hour,            \* ticks in an hour, and in RESTART_COOLDOWN_S
  Stale,           \* the age at which a heartbeat still counts
  CommandsOverlap, \* whether `spark up` is run beside a living watchdog
  MaxCrashes,      \* bound: processes killed by something else
  MaxStuck,        \* bound: workers with a step that never returns
  MaxStrangers,    \* bound: pids taken by other programs
  MaxByHand,       \* bound: watchdogs and tailers started by hand
  NoPid

Services == {"sparkd", "bridge_worker", "scheduler", "openclaw_tailer"}

ASSUME SupervisorAssumption ==
  /\ IsFiniteSet(Pids)
  /\ NoPid \notin Pids
  /\ Managed \subseteq Services
  /\ Threshold \in Nat \ {0}
  /\ MaxRestarts \in Nat \ {0}
  /\ Hour \in Nat \ {0}
  /\ Stale \in Nat
  /\ CommandsOverlap \in BOOLEAN
  /\ MaxCrashes \in Nat
  /\ MaxStuck \in Nat
  /\ MaxStrangers \in Nat
  /\ MaxByHand \in Nat

VARIABLES
  \* The process table.
  kind,      \* what runs under a pid
  st,        \* how far it is
  told,      \* the pids whose handler has seen SIGTERM
  stuck,     \* the workers with a pool thread that never returns
  \* Files.
  lock,      \* pids/<service>.lock: the pid in it
  pidFile,   \* pids/watchdog.pid
  beat,      \* age of <service> heartbeat; Stale + 1 when older or missing
  disk,      \* watchdog_state.json
  \* The memory of each watchdog.
  mem,       \* what it will save
  snap,      \* the pids its snapshot has found for each service
  todo,      \* the services it has still to check in this pass
  \* The command a user is running.
  cmd,
  \* History and bounds, for the properties only.
  launched,  \* ages of the launches by watchdogs in the last hour
  forgot,    \* whether a watchdog died before it had saved a launch
  crashes, strangers, byHand

table   == <<kind, st, told, stuck>>
onDisk  == <<lock, pidFile, beat, disk>>
memory  == <<mem, snap, todo>>
history == <<launched, forgot, crashes, strangers, byHand>>
vars    == <<table, onDisk, memory, cmd, history>>

Kinds == Managed \cup {"watchdog"}
States == {"none", "starting", "claiming", "grace", "loop", "checking",
           "leaving"}

\* Services that take pids/<service>.lock before they work.
Locking == Managed \cap {"sparkd", "bridge_worker"}
\* Services whose health is the age of a heartbeat file.
Beating == Managed \cap {"bridge_worker", "scheduler"}
\* Services that `spark up` and `spark down` know of.
Commanded == Managed \ {"openclaw_tailer"}

\* A service, if it is one of those the watchdog and the commands look after.
Installed(s) == IF s \in Managed THEN <<s>> ELSE <<>>
\* The order in which the watchdog and the commands go through the services.
ServiceOrder == Installed("sparkd") \o Installed("bridge_worker") \o Installed("scheduler")
                \o Installed("openclaw_tailer")
UpOrder == Installed("sparkd") \o Installed("bridge_worker") \o Installed("scheduler")
           \o <<"watchdog">>
\* Mutant of DownOrder: the watchdog is stopped last.
ServicesFirst == UpOrder
DownOrder == <<"watchdog">> \o Installed("scheduler") \o Installed("bridge_worker")
             \o Installed("sparkd")
Running(k) == {p \in Pids : kind[p] = k}
Alive(p) == p \in Pids /\ kind[p] # "none"

Blank == [fails |-> [s \in Managed |-> 0],
          starts |-> [s \in Managed |-> <<>>],
          cool |-> [s \in Managed |-> 0]]

Idle == [op |-> "none", rest |-> <<>>, seen |-> {}, round |-> 0, left |-> {}]

\* A pid the system may give to a new process of Spark.
Free(p) ==
  /\ kind[p] = "none"
  /\ \A s \in Locking : lock[s] # p
  /\ \A w \in Running("watchdog") : \A s \in Managed : p \notin snap[w][s]

\* A process that is not yet past its single-instance checks.
JustStarted(p) == st[p] \in {"starting", "claiming"}

\* What SIGTERM does at once: a process without a handler dies.
Defenceless(p) == \/ JustStarted(p) \/ st[p] = "grace"
                  \/ kind[p] \in {"openclaw_tailer", "stranger"}

Init ==
  /\ kind = [p \in Pids |-> "none"]
  /\ st = [p \in Pids |-> "none"]
  /\ told = {} /\ stuck = {}
  /\ lock = [s \in Locking |-> NoPid]
  /\ pidFile = NoPid
  /\ beat = [s \in Beating |-> Stale + 1]
  /\ disk = Blank
  /\ mem = [p \in Pids |-> Blank]
  /\ snap = [p \in Pids |-> [s \in Managed |-> {}]]
  /\ todo = [p \in Pids |-> <<>>]
  /\ cmd = Idle
  /\ launched = [s \in Managed |-> <<>>]
  /\ forgot = FALSE
  /\ crashes = 0 /\ strangers = 0 /\ byHand = 0

-----------------------------------------------------------------------------
(* The process table: ends and beginnings of processes.                    *)

\* Of the processes that get SIGTERM, those whose handler lets them go on.
Survivors(victims) == {p \in victims : ~Defenceless(p)}

\* The pids `gone` end, `warned` have seen SIGTERM, `new` starts as k.
TableChanges(gone, warned, new, k) ==
  /\ kind' = [p \in Pids |-> IF p = new THEN k ELSE IF p \in gone THEN "none" ELSE kind[p]]
  /\ st' = [p \in Pids |-> IF p = new THEN "starting" ELSE IF p \in gone THEN "none" ELSE st[p]]
  /\ told' = (told \ gone) \cup warned
  /\ stuck' = stuck \ gone

\* What ended watchdogs had in memory.
Forgotten(gone) ==
  /\ mem' = [p \in Pids |-> IF p \in gone THEN Blank ELSE mem[p]]
  /\ snap' = [p \in Pids |-> IF p \in gone THEN [s \in Managed |-> {}] ELSE snap[p]]
  /\ todo' = [p \in Pids |-> IF p \in gone THEN <<>> ELSE todo[p]]

\* Popen: the pid of a new process, or none when the system has no pid to give.
\* Of the pids that no file names either, one stands for all.
Spawned ==
  LET free == {p \in Pids : Free(p)}
      fresh == free \ {pidFile}
  IN  IF free = {} THEN {NoPid}
      ELSE (free \cap {pidFile}) \cup IF fresh = {} THEN {} ELSE {CHOOSE p \in fresh : TRUE}

Goto(p, s) == /\ st' = [st EXCEPT ![p] = s]
              /\ UNCHANGED <<kind, told, stuck>>

Ends(p) == /\ TableChanges({p}, {}, NoPid, "none")
           /\ Forgotten({p})

-----------------------------------------------------------------------------
(* A service process.                                                      *)

\* Mutant of FreeLock: a lock file is respected even if its owner is dead.
NoLockFile(p, q) == q \in {NoPid, p}
\* Mutant of FreeLock: the lock file is not read.
BlindLock(p, q) == TRUE
\* The lock file is missing, is the process's own, or names a dead process.
FreeLock(p, q) == q \in {NoPid, p} \/ ~Alive(q)

\* The scheduler and the tailer begin at once.  sparkd and the worker read the
\* lock file in _acquire_single_instance_lock: a duplicate ends ...
Begin(p) ==
  /\ kind[p] \in Managed /\ st[p] = "starting"
  /\ IF kind[p] \notin Locking THEN Goto(p, "loop") /\ UNCHANGED memory
     ELSE IF FreeLock(p, lock[kind[p]]) THEN Goto(p, "claiming") /\ UNCHANGED memory
     ELSE Ends(p)
  /\ UNCHANGED <<onDisk, cmd, history>>

\* ... and anyone else writes its pid, in a second step.
WriteLock(p) ==
  /\ kind[p] \in Locking /\ st[p] = "claiming"
  /\ lock' = [lock EXCEPT ![kind[p]] = p]
  /\ Goto(p, "loop")
  /\ UNCHANGED <<pidFile, beat, disk, memory, cmd, history>>

\* A cycle ends with a heartbeat.
Beat(p) ==
  /\ kind[p] \in Beating /\ st[p] = "loop" /\ p \notin told
  /\ beat' = [beat EXCEPT ![kind[p]] = 0]
  /\ UNCHANGED <<table, lock, pidFile, disk, memory, cmd, history>>

\* A step of the worker's cycle hangs in its pool thread.  The cycle goes on
\* without it, but the interpreter joins the thread before it exits.
GetStuck(p) ==
  /\ kind[p] = "bridge_worker" /\ st[p] = "loop" /\ p \notin stuck
  /\ Cardinality(stuck) < MaxStuck
  /\ stuck' = stuck \cup {p}
  /\ UNCHANGED <<kind, st, told, onDisk, memory, cmd, history>>

\* After SIGTERM a worker or scheduler ends its cycle, which may write a last
\* heartbeat; sparkd's handler calls server.shutdown().
LeaveLoop(p) ==
  /\ kind[p] \in Managed /\ st[p] = "loop" /\ p \in told
  /\ Goto(p, "leaving")
  /\ \/ UNCHANGED beat
     \/ kind[p] \in Beating /\ beat' = [beat EXCEPT ![kind[p]] = 0]
  /\ UNCHANGED <<lock, pidFile, disk, memory, cmd, history>>

\* The interpreter waits for the pool's threads.  server.shutdown() waits for
\* serve_forever to return, in the very thread that runs serve_forever.
MayExit(p) == p \notin stuck /\ kind[p] # "sparkd"

\* atexit removes the lock file if it still names this process.
Exit(p) ==
  /\ kind[p] \in Managed /\ st[p] = "leaving" /\ MayExit(p)
  /\ lock' = [s \in Locking |-> IF s = kind[p] /\ lock[s] = p THEN NoPid ELSE lock[s]]
  /\ Ends(p)
  /\ UNCHANGED <<pidFile, beat, disk, cmd, history>>

-----------------------------------------------------------------------------
(* The watchdog.                                                           *)

\* Mutant of NobodyElse: only the pid file is looked at.
OnlyPidFile(w) == TRUE
\* _check_single_instance: no other watchdog in a snapshot of the processes.
NobodyElse(w) == Running("watchdog") \subseteq {w}

SeeOthers(w) ==
  /\ kind[w] = "watchdog" /\ st[w] = "starting"
  /\ IF NobodyElse(w) THEN Goto(w, "claiming") /\ UNCHANGED memory
                      ELSE Ends(w)
  /\ UNCHANGED <<onDisk, cmd, history>>

\* The pid file must not name another living watchdog; then it names this one.
ClaimPidFile(w) ==
  /\ kind[w] = "watchdog" /\ st[w] = "claiming"
  /\ IF pidFile \in Running("watchdog") \ {w}
       THEN Ends(w) /\ UNCHANGED pidFile
       ELSE Goto(w, "grace") /\ pidFile' = w /\ UNCHANGED memory
  /\ UNCHANGED <<lock, beat, disk, cmd, history>>

\* After the grace period the state is loaded and SIGTERM gets a handler.
BeginLoop(w) ==
  /\ kind[w] = "watchdog" /\ st[w] = "grace"
  /\ mem' = [mem EXCEPT ![w] = disk]
  /\ Goto(w, "loop")
  /\ UNCHANGED <<onDisk, snap, todo, cmd, history>>

\* A pass begins: what it finds now is what it acts on until the next one.
\* The interval between passes, and the grace period before the first, are
\* longer than the start of a service: only an `up` can be starting one now.
Snapshot(w) ==
  /\ kind[w] = "watchdog" /\ st[w] = "loop" /\ w \notin told
  /\ CommandsOverlap \/ \A p \in Pids : kind[p] \in Managed => ~JustStarted(p)
  /\ pidFile' = w
  /\ snap' = [snap EXCEPT ![w] = [s \in Managed |-> Running(s)]]
  /\ todo' = [todo EXCEPT ![w] = ServiceOrder]
  /\ Goto(w, "checking")
  /\ UNCHANGED <<lock, beat, disk, mem, cmd, history>>

\* The health of the service the pass is at: HTTP, heartbeat or presence.
Healthy(w, s) ==
  CASE s = "sparkd"          -> \E p \in Running(s) \ told : st[p] = "loop"
    [] s = "openclaw_tailer" -> snap[w][s] # {}
    [] OTHER                 -> beat[s] <= Stale

Bumped(w, s) == IF mem[w].fails[s] < Threshold THEN mem[w].fails[s] + 1 ELSE Threshold

\* An unhealthy process gets Threshold checks before it is replaced; one that
\* is missing is replaced at once, but for the tailer.
Waits(w, s) == /\ Bumped(w, s) < Threshold
               /\ s = "openclaw_tailer" \/ snap[w][s] # {}

CanRestart(w, s) == mem[w].cool[s] = 0 /\ Len(mem[w].starts[s]) < MaxRestarts

\* _record_restart, and the failure count is reset.
Recorded(m, s) ==
  LET starts == Append(m.starts[s], 0)
  IN  [m EXCEPT !.starts[s] = starts,
                !.fails[s] = 0,
                !.cool[s] = IF Len(starts) >= MaxRestarts THEN Hour ELSE @]

At(w) == Head(todo[w])
Checking(w) == kind[w] = "watchdog" /\ st[w] = "checking" /\ todo[w] # <<>>
Passed(w) == todo' = [todo EXCEPT ![w] = Tail(@)]

\* A healthy service.  Of several tailers the pass keeps the first.
CheckHealthy(w) ==
  /\ Checking(w) /\ Healthy(w, At(w))
  /\ mem' = [mem EXCEPT ![w].fails[At(w)] = 0]
  /\ \E keep \in snap[w][At(w)] \cup {NoPid} :
       LET extras == IF At(w) = "openclaw_tailer" /\ keep # NoPid
                       THEN (snap[w][At(w)] \ {keep}) \cap Running(At(w)) ELSE {}
       IN  /\ At(w) = "openclaw_tailer" => keep # NoPid
           /\ TableChanges(extras, {}, NoPid, "none")
  /\ Passed(w)
  /\ UNCHANGED <<onDisk, snap, cmd, history>>

\* An unhealthy one that is given time, or must not be restarted so often.
CheckWaits(w) ==
  /\ Checking(w) /\ ~Healthy(w, At(w))
  /\ Waits(w, At(w)) \/ ~CanRestart(w, At(w))
  /\ mem' = [mem EXCEPT ![w].fails[At(w)] = Bumped(w, At(w))]
  /\ Passed(w)
  /\ UNCHANGED <<table, onDisk, snap, cmd, history>>

\* Restart: SIGTERM to what the snapshot has found, and a new process.
CheckRestart(w) ==
  /\ Checking(w) /\ ~Healthy(w, At(w))
  /\ ~Waits(w, At(w)) /\ CanRestart(w, At(w))
  /\ \E new \in Spawned :
       LET s == At(w)
           victims == snap[w][s] \cap Running(s)
           spared == Survivors(victims)
       IN  /\ TableChanges(victims \ spared, spared, new, s)
           /\ mem' = [mem EXCEPT ![w] =
                        IF new # NoPid THEN Recorded(@, s)
                        ELSE [@ EXCEPT !.fails[s] = Bumped(w, s)]]
           /\ launched' = IF new # NoPid THEN [launched EXCEPT ![s] = Append(@, 0)]
                                         ELSE launched
  /\ Passed(w)
  /\ UNCHANGED <<onDisk, snap, cmd, forgot, crashes, strangers, byHand>>

\* Mutant of Saved: the restart history is not written.
OnlyFails(m) == [disk EXCEPT !.fails = m.fails]
Saved(m) == m

Save(w) ==
  /\ kind[w] = "watchdog" /\ st[w] = "checking" /\ todo[w] = <<>>
  /\ disk' = Saved(mem[w])
  /\ snap' = [snap EXCEPT ![w] = [s \in Managed |-> {}]]
  /\ Goto(w, "loop")
  /\ UNCHANGED <<lock, pidFile, beat, mem, todo, cmd, history>>

\* The loop ends between two passes; atexit removes the pid file.
ExitWatchdog(w) ==
  /\ kind[w] = "watchdog" /\ st[w] = "loop" /\ w \in told
  /\ pidFile' = NoPid
  /\ Ends(w)
  /\ UNCHANGED <<lock, beat, disk, cmd, history>>

-----------------------------------------------------------------------------
(* The commands.                                                           *)

\* start_services: what runs is looked up once, before the first start.
UpBegins ==
  /\ cmd.op = "none"
  /\ CommandsOverlap \/ Running("watchdog") = {}
  /\ cmd' = [Idle EXCEPT !.op = "up", !.rest = UpOrder,
                         !.seen = {k \in Kinds : Running(k) # {}}]
  /\ UNCHANGED <<table, onDisk, memory, history>>

\* One service after the other; the wait for it to be ready is the time until
\* the next step.
UpStarts ==
  /\ cmd.op = "up" /\ cmd.rest # <<>>
  /\ LET k == Head(cmd.rest)
     IN  IF k \in cmd.seen
           THEN UNCHANGED <<table, pidFile>>
           ELSE \E new \in Spawned :
                  /\ TableChanges({}, {}, new, k)
                  /\ pidFile' = IF k = "watchdog" /\ new # NoPid THEN new ELSE pidFile
  /\ cmd' = [cmd EXCEPT !.rest = Tail(@), !.seen = @ \ {Head(cmd.rest)}]
  /\ UNCHANGED <<lock, beat, disk, memory, history>>

DownBegins ==
  /\ cmd.op = "none"
  /\ cmd' = [Idle EXCEPT !.op = "down", !.rest = DownOrder]
  /\ UNCHANGED <<table, onDisk, memory, history>>

\* Mutant of AnotherRound: one round too many.
FourRounds == cmd.round <= 3
AnotherRound == cmd.round < 3

\* stop_services: SIGTERM to every process of one kind, up to three rounds of
\* five seconds ...
DownSignals ==
  /\ cmd.op = "down" /\ cmd.rest # <<>> /\ AnotherRound
  /\ LET victims == Running(Head(cmd.rest))
         spared == Survivors(victims)
     IN  /\ victims # {}
         /\ TableChanges(victims \ spared, spared, NoPid, "none")
         /\ Forgotten(victims \ spared)
  /\ cmd' = [cmd EXCEPT !.round = @ + 1]
  /\ UNCHANGED <<onDisk, history>>

\* ... then the pid file and the heartbeat are deleted, whatever still runs.
DownMovesOn ==
  /\ cmd.op = "down" /\ cmd.rest # <<>>
  /\ LET k == Head(cmd.rest)
     IN  /\ Running(k) = {} \/ cmd.round = 3
         /\ pidFile' = IF k = "watchdog" THEN NoPid ELSE pidFile
         /\ beat' = [s \in Beating |-> IF s = k THEN Stale + 1 ELSE beat[s]]
         /\ cmd' = [cmd EXCEPT !.rest = Tail(@), !.round = 0,
                               !.left = IF Running(k) = {} THEN @ ELSE @ \cup {k}]
  /\ UNCHANGED <<table, lock, disk, memory, history>>

CommandEnds ==
  /\ cmd.op # "none" /\ cmd.rest = <<>>
  /\ cmd' = Idle
  /\ UNCHANGED <<table, onDisk, memory, history>>

\* A watchdog or a tailer that the user starts from a shell.
StartByHand(k) ==
  /\ cmd.op = "none" /\ byHand < MaxByHand
  /\ \E new \in Spawned : new # NoPid /\ TableChanges({}, {}, new, k)
  /\ byHand' = byHand + 1
  /\ UNCHANGED <<onDisk, memory, cmd, launched, forgot, crashes, strangers>>

-----------------------------------------------------------------------------
(* The rest of the machine.                                                *)

\* The state file is written in place: torn, it loads as an empty one.
MayTear(w) == kind[w] = "watchdog" /\ st[w] = "checking" /\ todo[w] = <<>>

\* A process is killed, or dies, without any of its own code running.
Crash(p) ==
  /\ kind[p] \in Kinds /\ crashes < MaxCrashes
  /\ Ends(p)
  /\ crashes' = crashes + 1
  /\ UNCHANGED disk \/ (MayTear(p) /\ disk' = Blank)
  /\ forgot' = (forgot \/ (st[p] = "checking" /\ mem[p].starts # disk'.starts))
  /\ UNCHANGED <<lock, pidFile, beat, cmd, launched, strangers, byHand>>

\* Another program gets the pid that a lock file still names, and ends.
TakePid(p) ==
  /\ kind[p] = "none" /\ \E s \in Locking : lock[s] = p
  /\ strangers < MaxStrangers
  /\ strangers' = strangers + 1
  /\ kind' = [kind EXCEPT ![p] = "stranger"]
  /\ UNCHANGED <<st, told, stuck, onDisk, memory, cmd, launched, forgot, crashes, byHand>>

LeavePid(p) ==
  /\ kind[p] = "stranger"
  /\ kind' = [kind EXCEPT ![p] = "none"]
  /\ UNCHANGED <<st, told, stuck, onDisk, memory, cmd, history>>

\* Ages are in the order of the starts, the oldest first.
Older(ages) ==
  LET gone == Cardinality({i \in 1..Len(ages) : ages[i] + 1 >= Hour})
  IN  [i \in 1 .. Len(ages) - gone |-> ages[gone + i] + 1]
Aged(m) == [m EXCEPT !.starts = [s \in Managed |-> Older(@[s])],
                     !.cool = [s \in Managed |-> IF @[s] > 0 THEN @[s] - 1 ELSE 0]]

\* Time passes.  A process needs less than a tick to get through its start.
Tick ==
  /\ \A p \in Pids : ~JustStarted(p)
  /\ beat' = [s \in Beating |-> IF beat[s] <= Stale THEN beat[s] + 1 ELSE beat[s]]
  /\ disk' = Aged(disk)
  /\ mem' = [w \in Pids |-> Aged(mem[w])]
  /\ launched' = [s \in Managed |-> Older(launched[s])]
  /\ UNCHANGED <<table, lock, pidFile, snap, todo, cmd, forgot, crashes, strangers, byHand>>

ServiceStep(p) == Begin(p) \/ WriteLock(p) \/ LeaveLoop(p) \/ Exit(p)
WatchdogStep(w) == \/ SeeOthers(w) \/ ClaimPidFile(w) \/ BeginLoop(w) \/ Snapshot(w)
                   \/ CheckHealthy(w) \/ CheckWaits(w) \/ CheckRestart(w)
                   \/ Save(w) \/ ExitWatchdog(w)
CommandStep == UpStarts \/ DownSignals \/ DownMovesOn \/ CommandEnds

Next ==
  \/ \E p \in Pids : \/ ServiceStep(p) \/ Beat(p) \/ GetStuck(p)
                     \/ WatchdogStep(p)
                     \/ Crash(p) \/ TakePid(p) \/ LeavePid(p)
  \/ UpBegins \/ DownBegins \/ CommandStep
  \/ \E k \in {"watchdog", "openclaw_tailer"} \cap Kinds : StartByHand(k)
  \/ Tick

Spec == Init /\ [][Next]_vars

\* Running programs go on, commands come to their end, time passes and other
\* programs leave the pid they have.  Nothing makes a worker end its cycle but
\* SIGTERM, nobody has to run a command, nothing has to crash.
FairSpec ==
  /\ Spec
  /\ \A p \in Pids : WF_vars(ServiceStep(p)) /\ WF_vars(WatchdogStep(p)) /\ WF_vars(LeavePid(p))
  /\ WF_vars(CommandStep)
  /\ WF_vars(Tick)

-----------------------------------------------------------------------------
(* Properties.                                                             *)

Ages == 0 .. Hour - 1
StateFile == [fails : [Managed -> 0..Threshold],
              starts : [Managed -> Seq(Ages)],
              cool : [Managed -> 0..Hour]]

\* The variables have the types their definitions promise.
TypeOK ==
  /\ kind \in [Pids -> Kinds \cup {"none", "stranger"}]
  /\ st \in [Pids -> States]
  /\ told \subseteq Pids /\ stuck \subseteq Pids
  /\ lock \in [Locking -> Pids \cup {NoPid}]
  /\ pidFile \in Pids \cup {NoPid}
  /\ beat \in [Beating -> 0 .. Stale + 1]
  /\ disk \in StateFile
  /\ mem \in [Pids -> StateFile]
  /\ snap \in [Pids -> [Managed -> SUBSET Pids]]
  /\ todo \in [Pids -> Seq(Managed)]
  /\ cmd \in [op : {"none", "up", "down"}, rest : Seq(Kinds), seen : SUBSET Kinds,
              round : 0..3, left : SUBSET Kinds]
  /\ launched \in [Managed -> Seq(Ages)]
  /\ forgot \in BOOLEAN
  /\ crashes \in 0..MaxCrashes /\ strangers \in 0..MaxStrangers /\ byHand \in 0..MaxByHand

\* However many watchdogs are started, and whenever, at most one gets past
\* _check_single_instance (spark_watchdog.py:40-101).
OneWatchdog ==
  \A v, w \in Running("watchdog") :
    st[v] # "starting" /\ st[w] # "starting" => v = w

\* At most one process of a service with a lock file works, although the file
\* is read and written in two steps (bridge_worker.py:42-60): the watchdog
\* never has two of them on their way to it.
OneOfEach ==
  \A p, q \in Pids :
    st[p] = "loop" /\ st[q] = "loop" /\ kind[p] = kind[q] /\ kind[p] \in Locking => p = q

\* The watchdog starts a service at most MaxRestarts times in any hour, over
\* its own restarts too, unless it was killed between a start and the end of
\* its save, which tears the file.
RestartsLimited == ~forgot => \A s \in Managed : Len(launched[s]) <= MaxRestarts

\* When `spark down` ends and had seen the watchdog gone, every service it
\* leaves behind has been told to stop: nothing was revived behind its back.
DownReachesAll ==
  [][(cmd.op = "down" /\ cmd.rest = <<>> /\ "watchdog" \notin cmd.left) =>
       \A k \in Commanded : Running(k) \subseteq told]_vars

Supervised == \E w \in Running("watchdog") : st[w] \in {"loop", "checking"} /\ w \notin told
Working == \E p \in Running("bridge_worker") : st[p] = "loop" /\ p \notin told

\* Under a watchdog that stays, a worker works again and again: it comes back
\* after a crash, after a slow cycle it was stopped for, after the limiter's
\* cooldown, and after another program had the pid in its lock file; unless a
\* worker that cannot exit keeps the lock.
WorkerReturns == <>[](Supervised /\ stuck = {}) => []<>Working

\* What "`python -m spark.cli down` stops everything" (SCHEDULER.md:175) asks
\* of a service: SIGTERM ends it.
StopsWhenTold == \A p \in Pids : (p \in told /\ kind[p] # "watchdog") ~> (p \notin told)
=============================================================================
